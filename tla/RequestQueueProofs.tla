--------------------------- MODULE RequestQueueProofs ---------------------------
(***************************************************************************)
(* Proofs about RequestQueue for every set of requests, every source they   *)
(* come from and every number of resumes and faults, and the proof that the *)
(* queue implements ThreadTurns.                                            *)
(***************************************************************************)
EXTENDS RequestQueue, TLAPS, FiniteSetTheorems, WellFoundedInduction

Row == [status : {"absent", "queued", "dispatched", "cancelled", "rejected"},
        policy : Policy, source : Source \cup {"call"}, run : RunId]
Run == [id : RunId, req : Req \cup {NoReq}, kind : {"chat", "resume"},
        status : {"none"} \cup LiveStatus \cup EndStatus,
        started : BOOLEAN, cleanup : BOOLEAN]

\* The rows R, created in the order o: every row has its place, one steer waits
\* at most, and a request has its run once it was dispatched.
Known(R) == {q \in Req : R[q].status # "absent"}
Ran(R) == {q \in Req : R[q].run # 0}
Steers(R) == {q \in Req : R[q].status = "queued" /\ R[q].policy = "steer"}
Placed(R, o) ==
    /\ o \in Seq(Req) /\ Len(o) = Cardinality(Known(R))
    /\ \A i \in DOMAIN o : o[i] \in Known(R)
    /\ \A q \in Known(R) : \E i \in DOMAIN o : o[i] = q
    /\ \A i, j \in DOMAIN o : o[i] = o[j] => i = j
OneSteer(R) == \A p, q \in Steers(R) : p = q
RunsFit(R) ==
    \A q \in Req : /\ R[q].status \in {"absent", "queued"} => R[q].run = 0
                   /\ R[q].status = "dispatched" => R[q].run # 0
Rows(R, o) == R \in [Req -> Row] /\ Placed(R, o) /\ OneSteer(R) /\ RunsFit(R)

\* Every run is the first of a request or a resume.
Counted == top.id = Cardinality(Ran(req)) + resumes
TopFits == (top.status = "none" /\ ~top.cleanup) \/ (top.req \in Req /\ top.id # 0)
SeenFits == \A q \in Req : seenAs[q] # {} => q \in Known(req)

Rest ==
    /\ held \subseteq Req /\ seenAs \in [Req -> SUBSET Policy]
    /\ done \subseteq RunId \ {0} /\ owed \subseteq RunId \ {0} /\ job \subseteq RunId \ {0}
    /\ relay \in BOOLEAN /\ resumes \in 0..MaxResumes /\ faults \in 0..MaxFaults

IInv == Rows(req, order) /\ top \in Run /\ Rest /\ Counted /\ TopFits /\ SeenFits
-----------------------------------------------------------------------------
(* The rows and the head of the queue.                                      *)

LEMMA Least ==
    ASSUME NEW S \in SUBSET Nat, S # {}
    PROVE  \E m \in S : \A n \in S : m <= n
  <1>1. PICK m \in S : \A n \in S : <<n, m>> \notin OpToRel(<, Nat)
    BY NatLessThanWellFounded, WFMin, Zenon
  <1>2. \A n \in S : ~(n < m)
    BY <1>1, Zenon DEF OpToRel
  <1> QED
    BY <1>2

\* get_queue_head finds a waiting request, ahead of every other one.
LEMMA HeadIsFirst ==
    ASSUME NEW R, NEW o, Placed(R, o), OneSteer(R), Waiting(R) # {}
    PROVE  /\ QueueHead(R, o) \in Waiting(R)
           /\ \A p \in Waiting(R) \ {QueueHead(R, o)} : Ahead(R, o, QueueHead(R, o), p)
  <1> SUFFICES \E q \in Waiting(R) : \A p \in Waiting(R) \ {q} : Ahead(R, o, q, p)
    BY DEF QueueHead
  <1>1. CASE Steers(R) # {}
    <2>1. PICK q \in Steers(R) : TRUE
      BY <1>1
    <2> QED
      BY <2>1 DEF Steers, OneSteer, Waiting, Ahead
  <1>2. CASE Steers(R) = {}
    <2>1. PICK S : S = {i \in DOMAIN o : o[i] \in Waiting(R)}
      OBVIOUS
    <2>2. S \in SUBSET Nat /\ S # {}
      BY <2>1 DEF Placed, Waiting, Known
    <2>3. PICK m \in S : \A n \in S : m <= n
      BY <2>2, Least
    <2>4. o[m] \in Waiting(R) /\ m \in DOMAIN o /\ m \in Nat
      BY <2>1, <2>2
    <2>5. ASSUME NEW p \in Waiting(R) \ {o[m]} PROVE Ahead(R, o, o[m], p)
      <3>1. PICK j \in DOMAIN o : o[j] = p
        BY DEF Placed, Waiting, Known
      <3>2. j \in S /\ j \in Nat /\ j # m
        BY <2>1, <2>2, <3>1
      <3>3. m < j
        BY <2>3, <2>4, <3>2
      <3>4. R[o[m]].policy # "steer" /\ R[p].policy # "steer"
        BY <1>2, <2>4 DEF Steers, Waiting
      <3> QED
        BY <2>4, <3>1, <3>3, <3>4 DEF Ahead
    <2> QED
      BY <2>4, <2>5
  <1> QED
    BY <1>1, <1>2

\* S is R with another row for q.
Changes(R, S, q, row) == S = [R EXCEPT ![q] = row]

\* A new row is the last one.
LEMMA RowStored ==
    ASSUME NEW R, NEW o, Rows(R, o), NEW q \in Req, R[q].status = "absent",
           NEW row \in Row, row.status \in {"queued", "rejected"}, row.run = 0,
           row.status = "queued" /\ row.policy = "steer" => Steers(R) = {},
           NEW S, Changes(R, S, q, row)
    PROVE  /\ Rows(S, Append(o, q))
           /\ Ran(S) = Ran(R)
           /\ Known(S) = Known(R) \cup {q}
           /\ Waiting(S) =
                IF row.status = "queued" THEN Waiting(R) \cup {q} ELSE Waiting(R)
           /\ Steers(S) =
                IF row.status = "queued" /\ row.policy = "steer" THEN {q} ELSE Steers(R)
           /\ \A i \in DOMAIN o : o[i] # q
  <1>1. R \in [Req -> Row] /\ S \in [Req -> Row] /\ S[q] = row /\ \A p \in Req \ {q} : S[p] = R[p]
    BY DEF Rows, Changes
  <1>2. Ran(S) = Ran(R)
    BY <1>1 DEF Ran, Rows, RunsFit
  <1>3. Known(S) = Known(R) \cup {q} /\ q \notin Known(R)
    BY <1>1 DEF Known
  <1>4. Waiting(S) = IF row.status = "queued" THEN Waiting(R) \cup {q} ELSE Waiting(R)
    BY <1>1 DEF Waiting
  <1>5. Steers(S) = IF row.status = "queued" /\ row.policy = "steer" THEN {q} ELSE Steers(R)
    BY <1>1 DEF Steers
  <1>6. Placed(R, o) /\ \A i \in DOMAIN o : o[i] # q
    BY <1>3 DEF Rows, Placed
  <1>7. IsFiniteSet(Known(R)) /\ IsFiniteSet(Req) /\ Cardinality(Known(S)) = Cardinality(Known(R)) + 1
    <2>1. IsFiniteSet(Req) /\ Known(R) \subseteq Req
      BY QueueConstants DEF Known
    <2>2. IsFiniteSet(Known(R))
      BY <2>1, FS_Subset
    <2>3. Cardinality(Known(R) \cup {q}) = Cardinality(Known(R)) + 1
      BY <1>3, <2>2, FS_AddElement
    <2> QED
      BY <1>3, <2>1, <2>2, <2>3
  <1>8. Placed(S, Append(o, q))
    <2>1. o \in Seq(Req) /\ Len(o) = Cardinality(Known(R)) /\ Append(o, q) \in Seq(Req)
          /\ Len(Append(o, q)) = Len(o) + 1
          /\ (\A i \in 1..Len(o) : Append(o, q)[i] = o[i]) /\ Append(o, q)[Len(o) + 1] = q
          /\ DOMAIN o = 1..Len(o) /\ DOMAIN Append(o, q) = 1..(Len(o) + 1)
      BY <1>6 DEF Placed
    <2>2. Len(Append(o, q)) = Cardinality(Known(S))
      BY <1>7, <2>1
    <2>3. \A i \in DOMAIN Append(o, q) : i \in DOMAIN o \/ i = Len(o) + 1
      BY <2>1
    <2>4. \A i \in DOMAIN Append(o, q) : Append(o, q)[i] \in Known(S)
      BY <1>3, <1>6, <2>1, <2>3 DEF Placed
    <2>5. \A p \in Known(S) : \E i \in DOMAIN Append(o, q) : Append(o, q)[i] = p
      <3>1. Len(o) \in Nat
        BY <2>1
      <3>2. Len(o) + 1 \in DOMAIN Append(o, q) /\ \A i \in DOMAIN o : i \in DOMAIN Append(o, q)
        BY <2>1, <3>1
      <3> QED
        BY <1>3, <1>6, <2>1, <3>2 DEF Placed
    <2>6. \A i, j \in DOMAIN Append(o, q) : Append(o, q)[i] = Append(o, q)[j] => i = j
      BY <1>6, <2>1, <2>3 DEF Placed
    <2> QED
      BY <2>1, <2>2, <2>4, <2>5, <2>6 DEF Placed
  <1>9. OneSteer(S) /\ RunsFit(S)
    BY <1>1, <1>5 DEF OneSteer, RunsFit, Rows
  <1> QED
    BY <1>1, <1>2, <1>3, <1>4, <1>5, <1>6, <1>8, <1>9 DEF Rows

\* A row changes in its place.
LEMMA RowChanged ==
    ASSUME NEW R, NEW o, Rows(R, o), NEW q \in Req, R[q].status # "absent",
           NEW row \in Row, row.status \in {"queued", "dispatched", "cancelled", "rejected"},
           row.status = "queued" => R[q].status = "queued" /\ row.run = 0,
           row.status = "dispatched" => row.run # 0,
           row.status = "queued" /\ row.policy = "steer" => Steers(R) \subseteq {q},
           NEW S, Changes(R, S, q, row)
    PROVE  /\ Rows(S, o)
           /\ Known(S) = Known(R)
           /\ Waiting(S) =
                IF row.status = "queued" THEN Waiting(R) ELSE Waiting(R) \ {q}
           /\ Steers(S) =
                IF row.status = "queued" /\ row.policy = "steer" THEN {q} ELSE Steers(R) \ {q}
           /\ row.run = R[q].run => Ran(S) = Ran(R)
           /\ row.run # 0 => Ran(S) = Ran(R) \cup {q}
  <1>1. R \in [Req -> Row] /\ S \in [Req -> Row] /\ S[q] = row /\ \A p \in Req \ {q} : S[p] = R[p]
    BY DEF Rows, Changes
  <1>2. /\ row.run = R[q].run => Ran(S) = Ran(R)
        /\ row.run # 0 => Ran(S) = Ran(R) \cup {q}
    BY <1>1 DEF Ran
  <1>3. Known(S) = Known(R)
    BY <1>1 DEF Known
  <1>4. Waiting(S) = IF row.status = "queued" THEN Waiting(R) ELSE Waiting(R) \ {q}
    BY <1>1 DEF Waiting
  <1>5. Steers(S) = IF row.status = "queued" /\ row.policy = "steer" THEN {q} ELSE Steers(R) \ {q}
    BY <1>1 DEF Steers
  <1>6. Placed(S, o)
    BY <1>3 DEF Rows, Placed
  <1>7. OneSteer(S) /\ RunsFit(S)
    BY <1>1, <1>5 DEF OneSteer, RunsFit, Rows
  <1> QED
    BY <1>1, <1>2, <1>3, <1>4, <1>5, <1>6, <1>7 DEF Rows
-----------------------------------------------------------------------------
(* The queue as ThreadTurns sees it.                                        *)

Front(R) == IF Steers(R) = {} THEN NoReq ELSE CHOOSE q \in Steers(R) : TRUE
Implements == [Turns!TurnNext]_<<order, Waiting(req), Front(req), Turn>>

LEMMA FrontIs ==
    ASSUME NEW R, OneSteer(R)
    PROVE  /\ Steers(R) = {} => Front(R) = NoReq
           /\ Steers(R) # {} => Steers(R) = {Front(R)}
           /\ Front(R) # NoReq => Front(R) \in Waiting(R)
           /\ \A q : Steers(R) = {q} => Front(R) = q
  BY DEF Front, Steers, OneSteer, Waiting

\* The head of the queue is the request whose turn it is.
LEMMA HeadTakesTurn ==
    ASSUME NEW R, NEW o, Rows(R, o), Waiting(R) # {}
    PROVE  /\ QueueHead(R, o) \in Waiting(R)
           /\ Turns!First(QueueHead(R, o), Waiting(R), Front(R), o)
           /\ Steers(R) \subseteq {QueueHead(R, o)}
  <1> PICK h : h = QueueHead(R, o)
    OBVIOUS
  <1>1. h \in Waiting(R) /\ \A p \in Waiting(R) \ {h} : Ahead(R, o, h, p)
    BY HeadIsFirst DEF Rows
  <1>2. CASE Steers(R) = {}
    <2>1. Front(R) = NoReq
      BY <1>2 DEF Front
    <2>2. ASSUME NEW p \in Waiting(R) \ {h} PROVE Turns!Before(h, p, o)
      <3>1. R[p].policy # "steer" /\ R[h].policy # "steer"
        BY <1>1, <1>2 DEF Steers, Waiting
      <3> QED
        BY <1>1, <3>1 DEF Ahead, Turns!Before
    <2> QED
      BY <1>1, <1>2, <2>1, <2>2 DEF Turns!First
  <1>3. CASE Steers(R) # {}
    <2>1. Steers(R) = {Front(R)} /\ Front(R) \in Waiting(R) /\ Front(R) # NoReq
      BY <1>3, FrontIs, QueueConstants DEF Rows, Steers, Waiting
    <2>2. R[Front(R)].policy = "steer"
      BY <2>1 DEF Steers
    <2>3. h = Front(R)
      <3> SUFFICES ASSUME h # Front(R) PROVE FALSE
        OBVIOUS
      <3>1. R[h].policy = "steer"
        BY <1>1, <2>1, <2>2 DEF Ahead
      <3>2. h \in Steers(R)
        BY <1>1, <3>1 DEF Steers, Waiting
      <3> QED
        BY <2>1, <3>2
    <2> QED
      BY <1>1, <2>1, <2>3 DEF Turns!First
  <1> QED
    BY <1>2, <1>3

\* Nobody's turn changes, or the turn is over.
LEMMA QueueKept ==
    ASSUME UNCHANGED <<req, order>>, Turn' = Turn \/ Turn' = NoReq
    PROVE  Implements
  <1>1. Waiting(req)' = Waiting(req) /\ Front(req)' = Front(req) /\ PendingSteer' = PendingSteer
    BY DEF Waiting, Front, Steers, PendingSteer
  <1>2. CASE Turn' = Turn
    BY <1>1, <1>2 DEF Implements
  <1>3. CASE Turn # NoReq /\ Turn' = NoReq
    BY <1>1, <1>3 DEF Implements, Turns!TurnNext, Turns!EndTurn
  <1> QED
    BY <1>2, <1>3

LEMMA SteeringIs == (IF PendingSteer = {} THEN NoReq ELSE CHOOSE q \in PendingSteer : TRUE) = Front(req)
  BY DEF Front, Steers, PendingSteer

LEMMA SteeringNext ==
    (IF PendingSteer' = {} THEN NoReq ELSE CHOOSE q \in PendingSteer' : TRUE) = Front(req')
  BY DEF Front, Steers, PendingSteer

\* The head of the queue R, o becomes the newest run: it takes the turn.
LEMMA DispatchKeeps ==
    ASSUME IInv, NEW R, Rows(R, order'), Ran(R) = Ran(req), Known(req) \subseteq Known(R),
           Waiting(R) # {}, ~Active, top.status # "interrupted",
           Dispatch(QueueHead(R, order'), R), resumes' = resumes
    PROVE  /\ Rows(req', order') /\ Counted' /\ TopFits' /\ Known(req') = Known(R)
           /\ top' \in Run /\ top'.id = top.id + 1 /\ top.id + 1 \in RunId \ {0} /\ held' = {}
           /\ Turns!Settle(Waiting(R), Front(R))
  <1> PICK h : h = QueueHead(R, order')
    OBVIOUS
  <1>1. /\ h \in Waiting(R) /\ Turns!First(h, Waiting(R), Front(R), order')
        /\ Steers(R) \subseteq {h}
    BY HeadTakesTurn
  <1>2. h \in Req /\ R[h].status = "queued" /\ R[h].run = 0 /\ R \in [Req -> Row] /\ R[h] \in Row
    BY <1>1 DEF Waiting, Rows, RunsFit
  <1>3. top.id \in Nat /\ top.id + 1 \in RunId \ {0} /\ Cardinality(Ran(R) \cup {h}) = Cardinality(Ran(R)) + 1
    <2>1. IsFiniteSet(Req) /\ Ran(R) \subseteq Req /\ Ran(R) \cup {h} \subseteq Req
      BY <1>2, QueueConstants DEF Ran
    <2>2. IsFiniteSet(Ran(R)) /\ Cardinality(Ran(R) \cup {h}) <= Cardinality(Req)
          /\ Cardinality(Req) \in Nat /\ Cardinality(Ran(R)) \in Nat
      BY <2>1, FS_Subset, FS_CardinalityType
    <2>3. h \notin Ran(R)
      BY <1>2 DEF Ran
    <2>4. Cardinality(Ran(R) \cup {h}) = Cardinality(Ran(R)) + 1
      BY <2>2, <2>3, FS_AddElement
    <2>5. top.id = Cardinality(Ran(R)) + resumes /\ resumes \in 0..MaxResumes /\ MaxResumes \in Nat
      BY QueueConstants DEF IInv, Rest, Counted
    <2> QED
      BY <2>2, <2>4, <2>5 DEF RunId
  <1>4. PICK row : row = [R[h] EXCEPT !.status = "dispatched", !.run = top.id + 1]
    OBVIOUS
  <1>5. row \in Row /\ row.status = "dispatched" /\ row.run = top.id + 1 /\ row.run # 0
    BY <1>2, <1>3, <1>4 DEF Row
  <1>6. req' = [R EXCEPT ![h] = row] /\ top' = NewRun(h, "chat") /\ held' = {}
    BY <1>2, <1>4 DEF Dispatch
  <1>7. /\ Rows(req', order') /\ Known(req') = Known(R) /\ Waiting(req') = Waiting(R) \ {h}
        /\ Steers(req') = {} /\ Ran(req') = Ran(R) \cup {h}
    <2>1. R[h].status # "absent" /\ row.status # "queued" /\ row.status = "dispatched"
      BY <1>2, <1>5
    <2>2. /\ Rows(req', order') /\ Known(req') = Known(R) /\ Waiting(req') = Waiting(R) \ {h}
          /\ Steers(req') = Steers(R) \ {h} /\ Ran(req') = Ran(R) \cup {h}
      <3>1. Rows(R, order') /\ h \in Req /\ row \in Row /\ Changes(R, req', h, row)
        BY <1>2, <1>5, <1>6 DEF Changes
      <3>2. row.status \in {"queued", "dispatched", "cancelled", "rejected"}
        BY <2>1
      <3> QED
        BY <1>5, <2>1, <3>1, <3>2, RowChanged
    <2> QED
      BY <1>1, <1>6, <2>2
  <1>8. top' \in Run /\ top'.id = top.id + 1 /\ top'.req = h /\ top'.status = "pending"
    BY <1>2, <1>3, <1>6 DEF NewRun, Run, LiveStatus
  <1>9. Counted' /\ TopFits'
    <2>1. Cardinality(Ran(req')) = Cardinality(Ran(req)) + 1 /\ Cardinality(Ran(req)) \in Nat
      <3>1. IsFiniteSet(Ran(req))
        BY QueueConstants, FS_Subset DEF Ran
      <3> QED
        BY <1>3, <1>7, <3>1, FS_CardinalityType
    <2>2. Ran(req)' = Ran(req')
      BY DEF Ran
    <2>3. top.id = Cardinality(Ran(req)) + resumes /\ resumes \in Nat
      BY QueueConstants DEF IInv, Rest, Counted
    <2> QED
      BY <1>2, <1>3, <1>8, <2>1, <2>2, <2>3 DEF Counted, TopFits
  <1>10. Turn = NoReq /\ Turn' = h
    BY <1>8 DEF Turn, Active, LiveStatus
  <1>11. Front(req') = NoReq
    BY <1>7 DEF Front
  <1>12. Waiting(req)' = Waiting(R) \ {h}
    BY <1>7 DEF Waiting
  <1> QED
    BY <1>1, <1>3, <1>6, <1>7, <1>8, <1>9, <1>10, <1>11, <1>12, SteeringNext DEF Turns!Settle
-----------------------------------------------------------------------------
LEMMA Shape == IInv => TypeOK
  <1> SUFFICES ASSUME IInv PROVE TypeOK
    OBVIOUS
  <1>1. Len(order) <= Cardinality(Req)
    <2>1. Known(req) \subseteq Req /\ Len(order) = Cardinality(Known(req))
      BY DEF IInv, Rows, Placed, Known
    <2> QED
      BY <2>1, QueueConstants, FS_Subset
  <1> QED
    BY <1>1 DEF IInv, Rows, Placed, Rest, Row, Run, TypeOK

LEMMA Starts == Init => IInv /\ Turns!TurnInit
  <1> SUFFICES ASSUME Init PROVE IInv /\ Turns!TurnInit
    OBVIOUS
  <1>1. RunId = 0..(Cardinality(Req) + MaxResumes) /\ Cardinality(Req) \in Nat /\ MaxResumes \in Nat /\ MaxFaults \in Nat
    BY QueueConstants, FS_CardinalityType DEF RunId
  <1>2. Known(req) = {} /\ Ran(req) = {} /\ Steers(req) = {} /\ Waiting(req) = {} /\ PendingSteer = {}
    BY DEF Init, Known, Ran, Steers, Waiting, PendingSteer
  <1>3. Rows(req, order)
    <2>1. req \in [Req -> Row]
      BY <1>1 DEF Init, Row, Policy
    <2>2. Placed(req, order)
      <3>1. Cardinality({}) = 0
        BY FS_EmptySet
      <3>2. order = <<>> /\ order \in Seq(Req) /\ Len(order) = 0 /\ DOMAIN order = {}
        BY DEF Init
      <3> QED
        BY <1>2, <3>1, <3>2 DEF Placed
    <2> QED
      BY <1>2, <2>1, <2>2 DEF Init, Rows, OneSteer, RunsFit
  <1>4. top \in Run /\ TopFits /\ Turn = NoReq
    BY <1>1 DEF Init, Run, TopFits, Turn, Active, LiveStatus
  <1>5. Rest /\ Counted /\ SeenFits
    <2>1. Rest
      <3>1. held = {} /\ done = {} /\ owed = {} /\ job = {} /\ seenAs \in [Req -> SUBSET Policy]
        BY DEF Init
      <3>2. resumes \in 0..MaxResumes /\ faults \in 0..MaxFaults
        BY <1>1 DEF Init
      <3>3. relay \in BOOLEAN
        BY DEF Init
      <3> QED
        BY <3>1, <3>2, <3>3 DEF Rest
    <2>2. top.id = 0 /\ resumes = 0 /\ Cardinality({}) = 0
      BY FS_EmptySet DEF Init
    <2>3. Counted
      BY <1>2, <2>2 DEF Counted
    <2>4. SeenFits
      BY DEF Init, SeenFits
    <2> QED
      BY <2>1, <2>3, <2>4
  <1> QED
    BY <1>2, <1>3, <1>4, <1>5 DEF IInv, Init, Turns!TurnInit

\* A step of the delivery leaves the queue alone.
LEMMA DeliveryKeeps ==
    ASSUME IInv, UNCHANGED queueVars, Rest', resumes' = resumes
    PROVE  IInv' /\ Implements
  <1>1. Turn' = Turn
    BY DEF queueVars, Turn, Active
  <1> QED
    BY <1>1, QueueKept DEF IInv, queueVars, Rows, Counted, Ran, TopFits, SeenFits, Known

\* A step of the newest run leaves the requests alone: the turn goes on or is over.
LEMMA RunKeeps ==
    ASSUME IInv, UNCHANGED <<req, order>>, Rest', top' \in Run, TopFits',
           top'.id + resumes = top.id + resumes',
           \A q \in Req : seenAs'[q] \subseteq seenAs[q],
           Turn' = Turn \/ Turn' = NoReq
    PROVE  IInv' /\ Implements
  <1>1. Counted'
    <2>1. top.id \in Nat /\ top'.id \in Nat /\ resumes \in Nat /\ resumes' \in Nat
      BY QueueConstants, FS_CardinalityType DEF IInv, Rest, Run, RunId
    <2>2. Ran(req)' = Ran(req) /\ top.id = Cardinality(Ran(req)) + resumes /\ Cardinality(Ran(req)) \in Nat
      <3>1. IsFiniteSet(Ran(req))
        BY QueueConstants, FS_Subset DEF Ran
      <3> QED
        BY <3>1, FS_CardinalityType DEF IInv, Counted, Ran
    <2> QED
      BY <2>1, <2>2 DEF Counted
  <1>2. SeenFits'
    BY DEF IInv, SeenFits, Known
  <1> QED
    BY <1>1, <1>2, QueueKept DEF IInv
-----------------------------------------------------------------------------
(* The steps.                                                               *)

LEMMA RefuseKeeps ==
    ASSUME IInv, NEW q \in Req, NEW source \in Source, Refuse(q, source)
    PROVE  IInv' /\ Implements
  <1> PICK row : row = [status |-> "rejected", policy |-> "reject", source |-> source, run |-> 0]
    OBVIOUS
  <1>1. row \in Row /\ row.status = "rejected" /\ row.run = 0
    BY QueueConstants, FS_CardinalityType DEF Row, Policy, RunId
  <1>2. req[q].status = "absent" /\ Changes(req, req', q, row) /\ order' = Append(order, q)
    BY DEF Refuse, Admissible, Stored, Changes
  <1>3. /\ Rows(req', order') /\ Ran(req') = Ran(req) /\ Known(req') = Known(req) \cup {q}
        /\ Waiting(req') = Waiting(req) /\ Steers(req') = Steers(req)
        /\ \A i \in DOMAIN order : order[i] # q
    BY <1>1, <1>2, RowStored DEF IInv
  <1>4. UNCHANGED <<seenAs, top, held, deliveryVars, resumes, faults>>
    BY DEF Refuse
  <1>5. IInv'
    BY <1>3, <1>4 DEF IInv, deliveryVars, Rest, Counted, Ran, TopFits, SeenFits, Known
  <1>6. Front(req') = Front(req) /\ Turn' = Turn /\ Waiting(req)' = Waiting(req)
    BY <1>3, <1>4 DEF Front, Turn, Active, Waiting
  <1>7. Turns!Arrive(q)
    <2>1. UNCHANGED (IF PendingSteer = {} THEN NoReq ELSE CHOOSE p \in PendingSteer : TRUE)
      BY <1>6, SteeringIs, SteeringNext
    <2> QED
      BY <1>2, <1>3, <1>6, <2>1 DEF Turns!Arrive
  <1> QED
    BY <1>5, <1>7 DEF Implements, Turns!TurnNext

LEMMA SubmitKeeps ==
    ASSUME IInv, NEW q \in Req, NEW policy \in Policy, NEW source \in Source,
           Submit(q, policy, source)
    PROVE  IInv' /\ Implements
  <1> PICK row : row = [status |-> "queued", policy |-> policy, source |-> source, run |-> 0]
    OBVIOUS
  <1> PICK R : R = Stored(q, policy, source, "queued")
    OBVIOUS
  <1>1. row \in Row /\ row.status = "queued" /\ row.policy = policy /\ row.run = 0
    BY QueueConstants, FS_CardinalityType DEF Row, RunId
  <1>2. /\ req[q].status = "absent" /\ Changes(req, R, q, row) /\ order' = Append(order, q)
        /\ policy = "steer" => Steers(req) = {}
    BY DEF Submit, Admissible, Stored, Changes, PendingSteer, Steers
  <1>3. /\ Rows(R, order') /\ Ran(R) = Ran(req) /\ Known(R) = Known(req) \cup {q}
        /\ Waiting(R) = Waiting(req) \cup {q}
        /\ Steers(R) = IF policy = "steer" THEN {q} ELSE Steers(req)
        /\ \A i \in DOMAIN order : order[i] # q
    BY <1>1, <1>2, RowStored DEF IInv
  <1>4. UNCHANGED <<done, job, relay, resumes, faults>>
    BY DEF Submit
  <1>5. Front(R) = IF policy = "steer" THEN q ELSE Front(req)
    BY <1>3, FrontIs DEF Rows, Front
  <1>6. policy = "steer" => Front(req) = NoReq
    BY <1>2 DEF Front
  <1>8. ASSUME Turns!Settle(Waiting(R), Front(R)) PROVE Implements
    <2>1. Turns!Arrive(q)
      BY <1>2, <1>3, <1>5, <1>6, <1>8, SteeringIs DEF Turns!Arrive
    <2> QED
      BY <2>1 DEF Implements, Turns!TurnNext
  <1>9. CASE QueueState(R, order') = "ready"
    <2>1. Waiting(R) # {} /\ ~Active /\ top.status # "interrupted"
      BY <1>9 DEF QueueState
    <2>2. /\ Dispatch(QueueHead(R, order'), R)
          /\ owed' = owed \cup {top.id + 1} \/ owed' = owed
          /\ \A p \in Req : seenAs'[p] \subseteq seenAs[p] \/ p = q
          /\ seenAs' \in [Req -> SUBSET Policy]
      BY <1>9 DEF Submit, IInv, Rest, Policy
    <2>3. /\ Rows(req', order') /\ Counted' /\ TopFits' /\ Known(req') = Known(R)
          /\ top' \in Run /\ top.id + 1 \in RunId \ {0} /\ held' = {}
          /\ Turns!Settle(Waiting(R), Front(R))
      BY <1>3, <1>4, <2>1, <2>2, DispatchKeeps
    <2>4. Rest' /\ SeenFits'
      BY <1>3, <1>4, <2>2, <2>3 DEF IInv, Rest, SeenFits
    <2> QED
      BY <1>8, <2>3, <2>4 DEF IInv
  <1>10. CASE QueueState(R, order') # "ready"
    <2>1. req' = R /\ seenAs' = [seenAs EXCEPT ![q] = {policy}] /\ UNCHANGED <<top, held, owed>>
      BY <1>10 DEF Submit
    <2>2. Rest' /\ SeenFits' /\ Counted' /\ TopFits'
      BY <1>3, <1>4, <2>1 DEF IInv, Rest, SeenFits, Counted, TopFits, Ran, Known
    <2>3. Waiting(req)' = Waiting(R) /\ Front(req') = Front(R) /\ Turn' = Turn
      BY <2>1 DEF Waiting, Turn, Active
    <2>4. Turns!Settle(Waiting(R), Front(R))
      BY <2>3, SteeringNext DEF Turns!Settle
    <2> QED
      BY <1>3, <1>8, <2>1, <2>2, <2>4 DEF IInv
  <1> QED
    BY <1>9, <1>10

\* A row that changes in its place: the others keep theirs.
LEMMA RowKeeps ==
    ASSUME IInv, NEW q \in Req, NEW row, Rows(req', order), order' = order,
           Changes(req, req', q, row), row.run = req[q].run, row \in Row,
           Known(req') = Known(req), UNCHANGED <<top, held, deliveryVars, resumes, faults>>,
           seenAs' \in [Req -> SUBSET Policy], \A p \in Req \ {q} : seenAs'[p] = seenAs[p],
           q \in Known(req)
    PROVE  IInv' /\ Turn' = Turn
  <1>1. req \in [Req -> Row] /\ req' = [req EXCEPT ![q] = row]
    BY DEF IInv, Rows, Changes
  <1>2. Ran(req') = Ran(req)
    BY <1>1 DEF Ran
  <1>3. Rest' /\ TopFits' /\ Turn' = Turn
    BY DEF IInv, Rest, deliveryVars, TopFits, Turn, Active
  <1>4. Counted' /\ SeenFits'
    BY <1>2 DEF IInv, Counted, Ran, SeenFits, Known
  <1> QED
    BY <1>3, <1>4 DEF IInv

LEMMA PromoteKeeps ==
    ASSUME IInv, NEW q \in Req, Promote(q)
    PROVE  IInv' /\ Implements
  <1>row. PICK row : row = [req[q] EXCEPT !.policy = "steer"]
    OBVIOUS
  <1>0. /\ q \in Known(req) /\ Steers(req) \subseteq {q} /\ req \in [Req -> Row] /\ req[q] \in Row
        /\ order' = order /\ UNCHANGED <<top, held, deliveryVars, resumes, faults>>
    BY DEF Promote, SeenQueued, IInv, SeenFits, PendingSteer, Steers, Rows
  <1>1. row \in Row /\ row.status = req[q].status /\ row.policy = "steer" /\ row.run = req[q].run
    BY <1>0, <1>row DEF Row, Policy
  <1>2. Changes(req, req', q, row)
    BY <1>0, <1>row DEF Promote, Changes
  <1>3. /\ req[q].status \in {"queued", "dispatched", "cancelled", "rejected"}
        /\ row.status = "queued" => req[q].status = "queued" /\ row.run = 0
        /\ row.status = "dispatched" => row.run # 0
    BY <1>0, <1>1 DEF Known, Row, IInv, Rows, RunsFit
  <1>4. /\ Rows(req', order) /\ Known(req') = Known(req)
        /\ Waiting(req') = IF row.status = "queued" THEN Waiting(req) ELSE Waiting(req) \ {q}
        /\ Steers(req') = IF row.status = "queued" THEN {q} ELSE Steers(req) \ {q}
    <2>1. Rows(req, order) /\ req[q].status # "absent"
          /\ row.status \in {"queued", "dispatched", "cancelled", "rejected"}
      BY <1>0, <1>1, <1>3 DEF IInv, Known
    <2>2. Steers(req) \subseteq {q}
      BY <1>0
    <2> QED
      BY <1>1, <1>2, <1>3, <2>1, <2>2, RowChanged
  <1>5. /\ seenAs' \in [Req -> SUBSET Policy]
        /\ \A p \in Req \ {q} : seenAs'[p] = seenAs[p]
    BY DEF Promote, IInv, Rest, Policy
  <1>6. IInv' /\ Turn' = Turn
    BY <1>0, <1>1, <1>2, <1>4, <1>5, RowKeeps
  <1>7. CASE req[q].status = "queued" /\ Steers(req) = {}
    <2>1. Waiting(req)' = Waiting(req) /\ Front(req) = NoReq /\ Front(req') = q /\ q \in Waiting(req)
      BY <1>1, <1>4, <1>7, FrontIs DEF Waiting, Front, Rows
    <2>2. Turns!LetToFront(q)
      BY <1>0, <1>6, <2>1, SteeringIs, SteeringNext DEF Turns!LetToFront
    <2> QED
      BY <1>6, <2>2 DEF Implements, Turns!TurnNext
  <1>8. CASE ~(req[q].status = "queued" /\ Steers(req) = {})
    <2>1. Waiting(req') = Waiting(req) /\ Steers(req') = Steers(req)
      BY <1>0, <1>1, <1>4, <1>8 DEF Waiting, Steers
    <2> QED
      BY <1>0, <1>6, <2>1 DEF Implements, Waiting, Front
  <1> QED
    BY <1>7, <1>8

LEMMA CancelKeeps ==
    ASSUME IInv, NEW q \in Req, CancelRequest(q)
    PROVE  IInv' /\ Implements
  <1>row. PICK row : row = [req[q] EXCEPT !.status = "cancelled"]
    OBVIOUS
  <1>0. /\ q \in Known(req) /\ req \in [Req -> Row] /\ req[q] \in Row
        /\ order' = order /\ UNCHANGED <<top, held, deliveryVars, resumes, faults>>
    BY DEF CancelRequest, SeenQueued, IInv, SeenFits, Rows
  <1>1. row \in Row /\ row.status = "cancelled" /\ row.run = req[q].run
    BY <1>0, <1>row DEF Row
  <1>2. Changes(req, req', q, row)
    BY <1>0, <1>row DEF CancelRequest, Changes
  <1>3. /\ Rows(req', order) /\ Known(req') = Known(req)
        /\ Waiting(req') = Waiting(req) \ {q} /\ Steers(req') = Steers(req) \ {q}
    <2>1. /\ Rows(req, order) /\ req[q].status # "absent" /\ row \in Row
          /\ row.status \in {"queued", "dispatched", "cancelled", "rejected"}
          /\ row.status # "queued" /\ row.status # "dispatched"
      BY <1>0, <1>1 DEF IInv, Known
    <2> QED
      BY <1>2, <2>1, RowChanged
  <1>4. /\ seenAs' \in [Req -> SUBSET Policy]
        /\ \A p \in Req \ {q} : seenAs'[p] = seenAs[p]
    BY DEF CancelRequest, IInv, Rest
  <1>5. IInv' /\ Turn' = Turn
    BY <1>0, <1>1, <1>2, <1>3, <1>4, RowKeeps
  <1>6. CASE q \in Waiting(req)
    <2>1. Front(req') = IF Front(req) = q THEN NoReq ELSE Front(req)
      BY <1>3, FrontIs, QueueConstants DEF Front, Rows, IInv
    <2>2. Waiting(req)' = Waiting(req) \ {q}
      BY <1>3 DEF Waiting
    <2>3. Turns!Leave(q)
      <3>1. (IF PendingSteer' = {} THEN NoReq ELSE CHOOSE p \in PendingSteer' : TRUE)
            = IF (IF PendingSteer = {} THEN NoReq ELSE CHOOSE p \in PendingSteer : TRUE) = q THEN NoReq
              ELSE IF PendingSteer = {} THEN NoReq ELSE CHOOSE p \in PendingSteer : TRUE
        BY <2>1, SteeringIs, SteeringNext
      <3> QED
        BY <1>0, <1>5, <1>6, <2>2, <3>1 DEF Turns!Leave
    <2> QED
      BY <1>5, <2>3 DEF Implements, Turns!TurnNext
  <1>7. CASE q \notin Waiting(req)
    <2>1. Waiting(req') = Waiting(req) /\ Steers(req') = Steers(req)
      BY <1>3, <1>7 DEF Waiting, Steers
    <2> QED
      BY <1>0, <1>5, <2>1 DEF Implements, Waiting, Front
  <1> QED
    BY <1>6, <1>7

\* The head of the queue takes the turn, whoever dispatches it.
LEMMA HeadKeeps ==
    ASSUME IInv, order' = order, seenAs' = seenAs,
           QueueState(req, order) \in {"ready", "paused"},
           Dispatch(QueueHead(req, order), req), owed' = owed \cup {top.id + 1},
           UNCHANGED <<done, job, resumes, faults>>, relay' \in BOOLEAN
    PROVE  IInv' /\ Implements
  <1>1. Waiting(req) # {} /\ ~Active /\ top.status # "interrupted" /\ Rows(req, order')
    BY DEF QueueState, IInv
  <1>2. /\ Rows(req', order') /\ Counted' /\ TopFits' /\ Known(req') = Known(req)
        /\ top' \in Run /\ top.id + 1 \in RunId \ {0} /\ held' = {}
        /\ Turns!Settle(Waiting(req), Front(req))
    BY <1>1, DispatchKeeps
  <1>3. Rest' /\ SeenFits'
    BY <1>2 DEF IInv, Rest, SeenFits
  <1>4. Turns!TakeTurn
    BY <1>2, SteeringIs DEF Turns!TakeTurn
  <1> QED
    BY <1>2, <1>3, <1>4 DEF IInv, Implements, Turns!TurnNext

LEMMA ContinueKeeps == ASSUME IInv, Continue PROVE IInv' /\ Implements
  BY HeadKeeps DEF Continue, IInv, Rest

LEMMA DispatchNextKeeps ==
    ASSUME IInv, DispatchNext, UNCHANGED <<done, job, resumes, faults>>, relay' \in BOOLEAN
    PROVE  IInv' /\ Implements
  <1>1. CASE top.status = "pending" /\ owed' = owed \cup {top.id} /\ UNCHANGED queueVars
    <2>1. top.id \in RunId \ {0}
      BY <1>1 DEF IInv, TopFits, Run
    <2> QED
      BY <1>1, <2>1, DeliveryKeeps DEF IInv, Rest, queueVars
  <1>2. CASE /\ QueueState(req, order) = "ready"
             /\ Dispatch(QueueHead(req, order), req)
             /\ owed' = owed \cup {top.id + 1}
             /\ UNCHANGED <<order, seenAs>>
    BY <1>2, HeadKeeps
  <1> QED
    BY <1>1, <1>2 DEF DispatchNext

LEMMA ResumeKeeps == ASSUME IInv, Resume PROVE IInv' /\ Implements
  <1>1. /\ top.status = "interrupted" /\ resumes < MaxResumes /\ top.req \in Req
        /\ top' = NewRun(top.req, "resume") /\ owed' = owed \cup {top.id + 1}
        /\ resumes' = resumes + 1 /\ UNCHANGED <<req, order, seenAs, held, done, job, relay, faults>>
    BY DEF Resume, IInv, TopFits
  <1>2. top.id \in Nat /\ top.id + 1 \in RunId \ {0} /\ resumes + 1 \in 0..MaxResumes /\ resumes \in Nat
    <2>1. Cardinality(Ran(req)) <= Cardinality(Req) /\ Cardinality(Req) \in Nat /\ Cardinality(Ran(req)) \in Nat
      <3>1. IsFiniteSet(Ran(req)) /\ Cardinality(Ran(req)) <= Cardinality(Req)
        BY QueueConstants, FS_Subset DEF Ran
      <3> QED
        BY <3>1, QueueConstants, FS_CardinalityType
    <2> QED
      BY <1>1, <2>1, QueueConstants DEF IInv, Rest, Counted, RunId
  <1>3. top' \in Run /\ top'.req = top.req /\ top'.id = top.id + 1 /\ top'.status = "pending"
    BY <1>1, <1>2 DEF NewRun, Run, LiveStatus
  <1>4. Rest' /\ TopFits'
    BY <1>1, <1>2, <1>3 DEF IInv, Rest, TopFits
  <1>5. Turn' = Turn
    BY <1>1, <1>3 DEF Turn, Active, LiveStatus
  <1>6. top'.id + resumes = top.id + resumes'
    BY <1>1, <1>2, <1>3
  <1> QED
    BY <1>1, <1>3, <1>4, <1>5, <1>6, RunKeeps

\* What a step of the newest run leaves alone.
LEMMA TopKeeps ==
    ASSUME IInv, UNCHANGED <<req, order, resumes>>, Rest', top' \in Run,
           top'.id = top.id, top'.req = top.req, top.status # "none" \/ top.cleanup,
           \A q \in Req : seenAs'[q] \subseteq seenAs[q], Active
    PROVE  IInv' /\ Implements
  <1>1. TopFits' /\ top.req \in Req
    BY DEF IInv, TopFits
  <1>2. Turn' = Turn \/ Turn' = NoReq
    BY DEF Turn
  <1> QED
    BY <1>1, <1>2, RunKeeps

LEMMA ClaimKeeps == ASSUME IInv, Claim PROVE IInv' /\ Implements
  <1>1. /\ top \in Run /\ top' = [top EXCEPT !.status = "running", !.started = TRUE] /\ Active
        /\ top.status # "none" /\ UNCHANGED <<req, order, seenAs, held, deliveryVars, resumes, faults>>
    BY DEF Claim, IInv, Active, LiveStatus
  <1>2. top' \in Run /\ top'.id = top.id /\ top'.req = top.req
    BY <1>1 DEF Run, LiveStatus
  <1> QED
    BY <1>1, <1>2, TopKeeps DEF IInv, Rest, deliveryVars

LEMMA RetryKeeps ==
    ASSUME IInv, NEW fence \in BOOLEAN, ReleaseForRetry(fence) PROVE IInv' /\ Implements
  <1>1. /\ top \in Run /\ top' = [top EXCEPT !.status = "pending", !.cleanup = fence] /\ Active
        /\ top.status # "none" /\ UNCHANGED <<req, order, seenAs, held, deliveryVars, resumes>>
        /\ faults < MaxFaults /\ faults' = faults + 1
    BY DEF ReleaseForRetry, IInv, Active, LiveStatus
  <1>2. top' \in Run /\ top'.id = top.id /\ top'.req = top.req
    BY <1>1 DEF Run, LiveStatus
  <1>3. Rest'
    BY <1>1, QueueConstants DEF IInv, Rest, deliveryVars
  <1> QED
    BY <1>1, <1>2, <1>3, TopKeeps

LEMMA EndRunKeeps ==
    ASSUME IInv, NEW s \in EndStatus, NEW fence \in BOOLEAN, NEW cut \in 0..Len(order),
           top.status \in LiveStatus, EndRun(s, fence, cut)
    PROVE  IInv' /\ Implements
  <1>1. /\ top \in Run /\ top' = [top EXCEPT !.status = s, !.cleanup = fence] /\ Active
        /\ top.status # "none" /\ UNCHANGED <<req, order, owed, job, relay, resumes, faults>>
        /\ top.id \in RunId \ {0}
    BY DEF EndRun, IInv, TopFits, Active, LiveStatus, Run
  <1>2. top' \in Run /\ top'.id = top.id /\ top'.req = top.req
    BY <1>1 DEF Run
  <1>3. /\ held' \subseteq Req /\ done' \subseteq RunId \ {0}
        /\ seenAs' \in [Req -> SUBSET Policy] /\ \A q \in Req : seenAs'[q] \subseteq seenAs[q]
    BY <1>1 DEF EndRun, IInv, Rest
  <1>4. Rest'
    BY <1>1, <1>3 DEF IInv, Rest
  <1> QED
    BY <1>1, <1>2, <1>3, <1>4, TopKeeps

LEMMA CancelRunKeeps ==
    ASSUME IInv, NEW cut \in 0..Len(order), CancelRun(cut) PROVE IInv' /\ Implements
  <1>1. CASE top.status = "pending" /\ ~top.started /\ EndRun("cancelled", FALSE, cut)
    BY <1>1, EndRunKeeps DEF EndStatus, LiveStatus
  <1>2. CASE /\ top.status = "running" \/ (top.status = "pending" /\ top.started)
             /\ top' = [top EXCEPT !.status = "cancel_requested"]
             /\ UNCHANGED <<req, order, seenAs, held, deliveryVars, resumes, faults>>
    <2>1. top' \in Run /\ top'.id = top.id /\ top'.req = top.req
      BY <1>2 DEF IInv, Run, LiveStatus
    <2>2. Active /\ top.status # "none"
      BY <1>2 DEF Active, LiveStatus
    <2> QED
      BY <1>2, <2>1, <2>2, TopKeeps DEF IInv, Rest, deliveryVars
  <1> QED
    BY <1>1, <1>2 DEF CancelRun

LEMMA ReleaseKeeps == ASSUME IInv, ReleaseRuntime PROVE IInv' /\ Implements
  <1>1. /\ top \in Run /\ top.cleanup /\ top' = [top EXCEPT !.cleanup = FALSE] /\ Active
        /\ UNCHANGED <<req, order, seenAs, held, done, owed, job, resumes, faults>>
    BY DEF ReleaseRuntime, IInv, Active
  <1>2. top' \in Run /\ top'.id = top.id /\ top'.req = top.req
    BY <1>1 DEF Run
  <1>3. relay' \in BOOLEAN
    BY DEF ReleaseRuntime, IInv, Rest
  <1>4. Rest'
    BY <1>1, <1>3 DEF IInv, Rest
  <1> QED
    BY <1>1, <1>2, <1>4, TopKeeps

\* A run is to be delivered, once more perhaps.
LEMMA OwedKeeps ==
    ASSUME IInv, NEW r \in RunId \ {0}, owed' = owed \cup {r},
           UNCHANGED <<queueVars, done, job, relay, resumes, faults>>
    PROVE  IInv' /\ Implements
  <1>1. Rest'
    BY DEF IInv, Rest, queueVars
  <1> QED
    BY <1>1, DeliveryKeeps

LEMMA DeliverySteps ==
    ASSUME IInv,
           \/ \E q \in Req : SubmitAgain(q)
           \/ ResumeAgain
           \/ \E r \in RunId : Enqueue(r) \/ JobEnd(r)
           \/ Fault
    PROVE  IInv' /\ Implements
  <1>0. Rest /\ (top.status # "none" => top.id \in RunId \ {0}) /\ req \in [Req -> Row]
    BY DEF IInv, TopFits, Run, Rows
  <1>1. ASSUME NEW q \in Req, SubmitAgain(q) PROVE IInv' /\ Implements
    <2>1. req[q].run \in RunId \ {0}
      BY <1>0, <1>1 DEF SubmitAgain, IInv, Rows, RunsFit, Row
    <2> QED
      BY <1>0, <1>1, <2>1, OwedKeeps DEF SubmitAgain
  <1>2. CASE ResumeAgain
    BY <1>0, <1>2, OwedKeeps DEF ResumeAgain
  <1>3. ASSUME NEW r \in RunId, Enqueue(r) PROVE IInv' /\ Implements
    <2>1. UNCHANGED queueVars /\ resumes' = resumes
      BY <1>3 DEF Enqueue
    <2>2. Rest'
      BY <1>0, <1>3 DEF Enqueue, Rest, queueVars
    <2> QED
      BY <2>1, <2>2, DeliveryKeeps
  <1>4. ASSUME NEW r \in RunId, JobEnd(r) PROVE IInv' /\ Implements
    <2>1. relay' \in BOOLEAN
      BY <1>0, <1>4 DEF JobEnd, Rest
    <2> QED
      <3>1. UNCHANGED queueVars /\ resumes' = resumes
        BY <1>4 DEF JobEnd
      <3>2. Rest'
        BY <1>0, <1>4, <2>1 DEF JobEnd, Rest, queueVars
      <3> QED
        BY <3>1, <3>2, DeliveryKeeps
  <1>5. CASE Fault
    <2>1. owed' \subseteq owed /\ job' \subseteq job /\ relay' \in BOOLEAN
      BY <1>0, <1>5 DEF Fault, Rest
    <2>2. faults' \in 0..MaxFaults
      BY <1>0, <1>5, QueueConstants DEF Fault, Rest
    <2>3. UNCHANGED <<queueVars, done, resumes>>
      BY <1>5 DEF Fault
    <2>4. Rest'
      BY <1>0, <2>1, <2>2, <2>3 DEF Rest, queueVars
    <2> QED
      BY <2>3, <2>4, DeliveryKeeps
  <1> QED
    BY <1>1, <1>2, <1>3, <1>4, <1>5

LEMMA RelayKeeps == ASSUME IInv, Relay PROVE IInv' /\ Implements
  <1>1. UNCHANGED <<done, job, resumes, faults>> /\ relay' \in BOOLEAN
    BY DEF Relay
  <1>2. CASE DispatchNext
    BY <1>1, <1>2, DispatchNextKeeps
  <1>3. CASE UNCHANGED <<queueVars, owed>>
    <2>1. Rest'
      BY <1>1, <1>3 DEF IInv, Rest, queueVars
    <2> QED
      BY <1>1, <1>3, <2>1, DeliveryKeeps
  <1> QED
    BY <1>2, <1>3 DEF Relay

\* Every step keeps the invariant and is a step of the turns, or none.
LEMMA StepKeeps == IInv /\ [Next]_vars => IInv' /\ Implements
  <1> SUFFICES ASSUME IInv, [Next]_vars PROVE IInv' /\ Implements
    OBVIOUS
  <1>1. CASE UNCHANGED vars
    <2>1. UNCHANGED queueVars /\ resumes' = resumes /\ Rest'
      BY <1>1 DEF vars, queueVars, IInv, Rest
    <2> QED
      BY <2>1, DeliveryKeeps
  <1>2. CASE Api
    <2>1. ASSUME NEW q \in Req, NEW source \in Source, Refuse(q, source) PROVE IInv' /\ Implements
      BY <2>1, RefuseKeeps
    <2>2. ASSUME NEW q \in Req, NEW source \in Source, NEW policy \in Policy, Submit(q, policy, source)
          PROVE  IInv' /\ Implements
      BY <2>2, SubmitKeeps
    <2>3. ASSUME NEW q \in Req, Promote(q) PROVE IInv' /\ Implements
      BY <2>3, PromoteKeeps
    <2>4. ASSUME NEW q \in Req, CancelRequest(q) PROVE IInv' /\ Implements
      BY <2>4, CancelKeeps
    <2> QED
      BY <1>2, <2>1, <2>2, <2>3, <2>4, ContinueKeeps, ResumeKeeps, DeliverySteps DEF Api
  <1>3. CASE Recover
    <2>1. DispatchNext /\ UNCHANGED <<done, job, resumes, faults>> /\ relay' \in BOOLEAN
      BY <1>3 DEF Recover, IInv, Rest
    <2> QED
      BY <2>1, DispatchNextKeeps
  <1>4. CASE RunStep
    <2>1. ASSUME NEW fence \in BOOLEAN, ReleaseForRetry(fence) PROVE IInv' /\ Implements
      BY <2>1, RetryKeeps
    <2>2. ASSUME NEW s \in EndStatus, NEW fence \in BOOLEAN, NEW cut \in 0..Len(order), Finish(s, fence, cut)
          PROVE  IInv' /\ Implements
      BY <2>2, EndRunKeeps DEF Finish, LiveStatus
    <2>3. ASSUME NEW cut \in 0..Len(order), CancelRun(cut) PROVE IInv' /\ Implements
      BY <2>3, CancelRunKeeps
    <2> QED
      BY <1>4, <2>1, <2>2, <2>3, ClaimKeeps, ReleaseKeeps DEF RunStep, SomeFinish
  <1> QED
    BY <1>1, <1>2, <1>3, <1>4, RelayKeeps, DeliverySteps DEF Next

LEMMA Inductive == Spec => []IInv
  BY Starts, StepKeeps, PTL DEF Spec

\* The tables and queues keep their shape: in particular the conversation never
\* has more runs than requests and resumes, whatever is submitted, promoted,
\* cancelled and delivered again.
THEOREM QueueTypes == Spec => []TypeOK
  BY Inductive, Shape, PTL

\* intake_request, steer_queued_request, cancel_queued_request,
\* continue_thread_queue, dispatch_next_request and recover_pending_dispatches
\* together take turns: the head of the queue runs when the last run is really
\* over, and only the one steer goes ahead of those that came before it.
THEOREM QueueTakesTurns == Spec => TakesTurns
  <1>1. IInv /\ [Next]_vars => [Turns!TurnNext]_(Turns!turnVars)
    <2> SUFFICES ASSUME IInv, [Next]_vars PROVE [Turns!TurnNext]_(Turns!turnVars)
      OBVIOUS
    <2>1. Implements
      BY StepKeeps
    <2> QED
      <3> SUFFICES ASSUME UNCHANGED <<order, Waiting(req), Front(req), Turn>> PROVE UNCHANGED Turns!turnVars
        BY <2>1 DEF Implements
      <3>1. UNCHANGED (IF PendingSteer = {} THEN NoReq ELSE CHOOSE p \in PendingSteer : TRUE)
        BY SteeringIs, SteeringNext
      <3> QED
        BY <3>1 DEF Turns!turnVars
  <1> QED
    BY <1>1, Starts, Inductive, PTL DEF Spec, TakesTurns, Turns!TurnSpec

-----------------------------------------------------------------------------
\* A thread that is ready dispatches no request that waits behind a run that
\* failed or was cancelled.
LEMMA ReadyIsNotPaused ==
    ASSUME NEW R, NEW o, R \in [Req -> Row], QueueState(R, o) = "ready",
           top.status \in {"failed", "cancelled"}, Dispatch(QueueHead(R, o), R),
           NEW q \in held, q \in Req
    PROVE  req'[q].status = R[q].status
  <1>1. q # QueueHead(R, o)
    BY DEF QueueState
  <1> QED
    BY <1>1 DEF Dispatch

LEMMA PauseKeeps ==
    ASSUME IInv, [Next]_vars, NEW q \in held, top.status \in {"failed", "cancelled"},
           req[q].status = "queued", req'[q].status = "dispatched"
    PROVE  Continue
  <1> SUFFICES ASSUME ~Continue PROVE FALSE
    OBVIOUS
  <1>0. q \in Req /\ req \in [Req -> Row] /\ req' # req
    BY DEF IInv, Rest, Rows
  <1>1. ASSUME NEW p \in Req, NEW source \in Source, Refuse(p, source) PROVE FALSE
    BY <1>0, <1>1 DEF Refuse, Stored
  <1>2. ASSUME NEW p \in Req, NEW source \in Source, NEW policy \in Policy, Submit(p, policy, source)
        PROVE  FALSE
    <2>1. PICK R : R = Stored(p, policy, source, "queued")
      OBVIOUS
    <2>2. R \in [Req -> Row] /\ R[q].status = "queued"
      BY <1>0, <2>1, QueueConstants, FS_CardinalityType DEF Stored, Row, RunId
    <2>3. CASE QueueState(R, order') = "ready" /\ Dispatch(QueueHead(R, order'), R)
      BY <1>0, <2>2, <2>3, ReadyIsNotPaused
    <2>4. CASE req' = R
      BY <2>2, <2>4
    <2> QED
      BY <1>2, <2>1, <2>3, <2>4 DEF Submit
  <1>3. ASSUME NEW p \in Req, Promote(p) PROVE FALSE
    BY <1>0, <1>3 DEF Promote
  <1>4. ASSUME NEW p \in Req, CancelRequest(p) PROVE FALSE
    BY <1>0, <1>4 DEF CancelRequest
  <1>5. CASE DispatchNext
    <2>1. QueueState(req, order) = "ready" /\ Dispatch(QueueHead(req, order), req)
      BY <1>0, <1>5 DEF DispatchNext, queueVars
    <2> QED
      BY <1>0, <2>1, ReadyIsNotPaused
  <1>6. ASSUME \/ UNCHANGED vars
               \/ \E p \in Req : SubmitAgain(p)
               \/ Resume \/ ResumeAgain
               \/ Relay /\ ~DispatchNext
               \/ \E r \in RunId : Enqueue(r) \/ JobEnd(r)
               \/ Fault \/ RunStep
        PROVE  req' = req
    BY <1>6 DEF vars, SubmitAgain, Resume, ResumeAgain, Relay, Enqueue, JobEnd, Fault, RunStep, Claim,
                ReleaseForRetry, SomeFinish, Finish, CancelRun, EndRun, ReleaseRuntime, queueVars
  <1> QED
    BY <1>0, <1>1, <1>2, <1>3, <1>4, <1>5, <1>6 DEF Next, Api, Recover

\* _get_queue_state stops the queue behind a run that failed or was cancelled,
\* whoever dispatches next: only continue_thread_queue starts what waited.
THEOREM QueuePauses == Spec => PausedNeedsConsent
  <1>1. IInv /\ [Next]_vars =>
          [\A q \in held :
             /\ top.status \in {"failed", "cancelled"}
             /\ req[q].status = "queued" /\ req'[q].status = "dispatched"
             => Continue]_vars
    BY PauseKeeps
  <1> QED
    BY <1>1, Inductive, PTL DEF Spec, PausedNeedsConsent
=============================================================================
