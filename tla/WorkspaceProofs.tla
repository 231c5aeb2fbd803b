----------------------------- MODULE WorkspaceProofs -----------------------------
(***************************************************************************)
(* Proofs about the workspace of a conversation: the attachments in its     *)
(* Workdir, for every set of files, requests and handlers running at a      *)
(* time, and the sandbox that mounts it, for every set of processes and     *)
(* threads and every number of containers and faults.                       *)
(***************************************************************************)
EXTENDS Attachments, Sandbox, TLAPS

CallType == [op : {"idle", "confirm", "remove", "submit", "update"},
             at : {"start", "record", "tidy", "unlink"}, f : File \cup {NoFile},
             q : Req \cup {NoReq}, asked : SUBSET File, saw : Meta]
ReqType == [st : {"absent", "queued", "running", "over"}, asked : SUBSET File]

\* A list names no request that was not submitted.
Submitted(m) == \A f \in File : m[f] \in Req => req[m[f]].st # "absent"

Types ==
    /\ conversation \in {"active", "deleted"} /\ meta \in Meta /\ Submitted(meta)
    /\ files \subseteq File /\ tmp \subseteq File
    /\ req \in [Req -> ReqType] /\ call \in [Call -> CallType]
    /\ overwritten \in BOOLEAN

Asks(c) ==
    /\ call[c].op \in {"confirm", "remove"} => call[c].f \in File
    /\ call[c].op = "submit" => call[c].q \in Req
    /\ Submitted(call[c].saw)

\* c has yet to list the file f, which nobody else confirms, and which nobody can
\* be removing: it was in no list when a removal of it loaded one.
Confirms(c, f) == call[c].op = "confirm" /\ call[c].at \in {"start", "record"} /\ call[c].f = f
Removes(c, f) == call[c].op = "remove" /\ call[c].f = f
Confirmed(c) ==
    \A f \in File : Confirms(c, f) =>
        /\ meta[f] = "out" /\ (call[c].at = "record" => f \in files)
        /\ \A d \in Call \ {c} :
              /\ ~Confirms(d, f)
              /\ Removes(d, f) => call[d].at = "start" /\ call[d].saw[f] = "out"

\* A file is unlinked once it is in no list.
Unlinks(c) == HandlerAt(c, "remove", "unlink") => meta[call[c].f] = "out"

Listed == \A f \in File : meta[f] # "out" => f \in files
Bound ==
    \A q \in Req : req[q].st \in {"queued", "running"} => \A f \in req[q].asked : meta[f] = q

\* What holds as long as no handler has written an old list back.
Calm == Listed /\ Bound /\ \A c \in Call : Confirmed(c) /\ Unlinks(c)

IInv == Types /\ (\A c \in Call : Asks(c)) /\ (~overwritten => Calm)
-----------------------------------------------------------------------------
(* A step of the handler c, as the others see it.                           *)

Quiet(c) ==
    /\ \A f \in File : meta[f] = "out" => meta'[f] = "out" \/ Confirms(c, f)
    /\ \A f \in files : f \in files' \/ Confirms(c, f) \/ (HandlerAt(c, "remove", "unlink") /\ call[c].f = f)
    /\ \A f \in File : Confirms(c, f)' => Confirms(c, f) \/ \A d \in Call \ {c} : call[d].f # f
    /\ \A f \in File : Removes(c, f)' /\ meta[f] = "out" =>
          \/ call'[c].at = "start" /\ call'[c].saw[f] = "out"
          \/ Removes(c, f) /\ call[c].at = "unlink"

LEMMA StepKeeps ==
    ASSUME IInv, NEW c \in Call, NEW r \in CallType, call' = [call EXCEPT ![c] = r],
           Types', Asks(c)', \A q \in Req : req[q].st # "absent" => req'[q].st # "absent",
           ~overwritten' => /\ ~overwritten /\ Quiet(c) /\ Confirmed(c)' /\ Unlinks(c)'
                            /\ Listed' /\ Bound'
    PROVE  IInv'
  <1>0. call \in [Call -> CallType]
    BY DEF IInv, Types
  <1>1. call'[c] = r /\ \A d \in Call \ {c} : call'[d] = call[d]
    BY <1>0
  <1>2. ASSUME NEW d \in Call PROVE Asks(d)'
    <2>1. CASE d = c
      BY <2>1
    <2>2. CASE d # c
      BY <1>1, <2>2 DEF IInv, Asks, Submitted
    <2> QED
      BY <2>1, <2>2
  <1>3. ASSUME ~overwritten', NEW d \in Call \ {c} PROVE Confirmed(d)' /\ Unlinks(d)'
    <2>1. /\ Calm /\ Quiet(c) /\ Confirmed(d) /\ Unlinks(d) /\ Confirmed(c) /\ Unlinks(c)
          /\ call'[d] = call[d] /\ Asks(d) /\ Asks(c)
      BY <1>1, <1>3 DEF IInv, Calm
    <2>2. ASSUME NEW f \in File, Confirms(d, f)'
          PROVE  /\ meta'[f] = "out" /\ (call'[d].at = "record" => f \in files')
                 /\ \A e \in Call \ {d} :
                       /\ ~Confirms(e, f)'
                       /\ Removes(e, f)' => call'[e].at = "start" /\ call'[e].saw[f] = "out"
      <3>1. Confirms(d, f) /\ meta[f] = "out" /\ ~Confirms(c, f) /\ call[d].f = f
        BY <2>1, <2>2 DEF Confirms, Confirmed
      <3>2. ~(HandlerAt(c, "remove", "unlink") /\ call[c].f = f)
        BY <2>1, <3>1 DEF Confirmed, Removes, HandlerAt
      <3>3. meta'[f] = "out"
        BY <2>1, <3>1 DEF Quiet
      <3>4. call'[d].at = "record" => f \in files'
        BY <2>1, <3>1, <3>2 DEF Quiet, Confirmed
      <3>5. ~Confirms(c, f)' /\ (Removes(c, f)' => call'[c].at = "start" /\ call'[c].saw[f] = "out")
        <4>1. ~Confirms(c, f)'
          BY <2>1, <3>1 DEF Quiet
        <4>2. ~(Removes(c, f) /\ call[c].at = "unlink")
          BY <3>2 DEF Removes, HandlerAt
        <4> QED
          BY <2>1, <3>1, <4>1, <4>2 DEF Quiet
      <3>6. ASSUME NEW e \in Call \ {c, d}
            PROVE  /\ ~Confirms(e, f)'
                   /\ Removes(e, f)' => call'[e].at = "start" /\ call'[e].saw[f] = "out"
        BY <1>1, <2>1, <3>1 DEF Confirmed, Confirms, Removes
      <3> QED
        BY <3>3, <3>4, <3>5, <3>6
    <2>3. Confirmed(d)'
      BY <2>2 DEF Confirmed
    <2>4. Unlinks(d)'
      <3>1. ASSUME HandlerAt(d, "remove", "unlink") PROVE meta'[call[d].f] = "out"
        <4>1. call[d].f \in File /\ meta[call[d].f] = "out"
          BY <2>1, <3>1 DEF Asks, Unlinks, HandlerAt
        <4>2. ~Confirms(c, call[d].f)
          BY <2>1, <3>1, <4>1 DEF Confirmed, Removes, HandlerAt
        <4> QED
          BY <2>1, <4>1, <4>2 DEF Quiet
      <3> QED
        BY <2>1, <3>1 DEF Unlinks, HandlerAt
    <2> QED
      BY <2>3, <2>4
  <1> QED
    BY <1>2, <1>3 DEF IInv, Calm

\* Steps outside of the handlers.
LEMMA OutsideKeeps ==
    ASSUME IInv, UNCHANGED <<meta, files, call, overwritten>>, conversation' \in {"active", "deleted"},
           tmp' \subseteq File, req' \in [Req -> ReqType],
           \A q \in Req : /\ req[q].st # "absent" => req'[q].st # "absent"
                          /\ req'[q].asked \subseteq req[q].asked
                          /\ req'[q].st \in {"queued", "running"} =>
                                req[q].st \in {"queued", "running"}
    PROVE  IInv'
  <1>1. Types'
    BY DEF IInv, Types, Submitted, Meta
  <1>2. \A c \in Call : Asks(c)'
    BY DEF IInv, Asks, Submitted
  <1>3. Calm => Calm'
    <2>1. Listed => Listed'
      BY DEF Listed
    <2>2. Bound => Bound'
      BY DEF Bound
    <2>3. \A c \in Call : Confirmed(c) /\ Unlinks(c) => Confirmed(c)' /\ Unlinks(c)'
      BY DEF Confirmed, Confirms, Removes, Unlinks, HandlerAt
    <2> QED
      BY <2>1, <2>2, <2>3 DEF Calm
  <1> QED
    BY <1>1, <1>2, <1>3 DEF IInv

LEMMA IdleOK ==
    /\ NoHandler \in CallType /\ NoHandler.op = "idle" /\ NoHandler.at = "start" /\ NoHandler.f = NoFile
    /\ NoHandler.saw = [f \in File |-> "out"]
  BY DEF NoHandler, CallType, Meta

\* A handler ends; the file it was about goes at most when it is in no list.
LEMMA EndKeeps ==
    ASSUME IInv, NEW c \in Call, Respond(c), UNCHANGED <<conversation, meta, req, overwritten>>,
           tmp' \subseteq File,
           \/ files' = files
           \/ /\ files' = files \ {call[c].f}
              /\ HandlerAt(c, "confirm", "record") \/ HandlerAt(c, "remove", "unlink")
    PROVE  IInv'
  <1>0. call \in [Call -> CallType] /\ meta \in Meta /\ Asks(c)
    BY DEF IInv, Types
  <1>1. call'[c] = NoHandler /\ call' = [call EXCEPT ![c] = NoHandler] /\ call' \in [Call -> CallType]
    BY <1>0, IdleOK DEF Respond
  <1>2. Types'
    BY <1>1 DEF IInv, Types, Submitted
  <1>3. Asks(c)'
    <2>1. \A f \in File : call'[c].saw[f] = "out"
      BY <1>1, IdleOK
    <2> QED
      BY <1>1, <2>1, IdleOK, AttachmentsAssumption DEF Asks, Submitted
  <1>4. ASSUME ~overwritten' PROVE Quiet(c) /\ Confirmed(c)' /\ Unlinks(c)' /\ Listed' /\ Bound'
    <2>1. Calm /\ Confirmed(c) /\ Unlinks(c)
      BY <1>4 DEF IInv, Calm
    <2>2. files' # files => call[c].f \in File /\ meta[call[c].f] = "out"
      BY <1>0, <2>1 DEF Confirmed, Confirms, Unlinks, HandlerAt, Asks
    <2>3. Listed' /\ Bound'
      BY <2>1, <2>2 DEF Calm, Listed, Bound
    <2>4. Quiet(c)
      BY <1>1, IdleOK DEF Quiet, Confirms, Removes, HandlerAt
    <2>5. Confirmed(c)' /\ Unlinks(c)'
      BY <1>1, IdleOK DEF Confirmed, Confirms, Unlinks, HandlerAt
    <2> QED
      BY <2>3, <2>4, <2>5
  <1> QED
    BY <1>1, <1>2, <1>3, <1>4, IdleOK, StepKeeps

\* A handler begins with the list as it is.
LEMMA BeginKeeps ==
    ASSUME IInv, NEW c \in Call, NEW op \in {"confirm", "remove", "submit", "update"},
           NEW f \in File \cup {NoFile}, NEW q \in Req \cup {NoReq}, NEW asked \in SUBSET File,
           Load(c, op, f, q, asked), op \in {"confirm", "remove"} => f \in File,
           op = "submit" => q \in Req,
           op = "confirm" => meta[f] = "out" /\ \A d \in Call : call[d].f # f
    PROVE  IInv'
  <1> DEFINE r == [op |-> op, at |-> "start", f |-> f, q |-> q, asked |-> asked, saw |-> meta]
  <1>0. /\ UNCHANGED <<conversation, meta, files, tmp, req, overwritten>>
        /\ call' = [call EXCEPT ![c] = r] /\ call[c] = NoHandler /\ meta \in Meta
        /\ call \in [Call -> CallType] /\ Submitted(meta)
    BY DEF Load, IInv, Types
  <1>1. r \in CallType /\ r.op = op /\ r.at = "start" /\ r.f = f /\ r.q = q /\ r.saw = meta
    BY <1>0 DEF CallType
  <1> HIDE DEF r
  <1>2. call'[c] = r /\ call' \in [Call -> CallType] /\ \A d \in Call \ {c} : call'[d] = call[d]
    BY <1>0, <1>1
  <1>3. Types'
    BY <1>0, <1>2 DEF IInv, Types, Submitted
  <1>4. Asks(c)'
    BY <1>0, <1>1, <1>2 DEF Asks, Submitted
  <1>5. ASSUME ~overwritten' PROVE Quiet(c) /\ Confirmed(c)' /\ Unlinks(c)' /\ Listed' /\ Bound'
    <2>1. Calm
      BY <1>0, <1>5 DEF IInv
    <2>2. Listed' /\ Bound'
      BY <1>0, <2>1 DEF Calm, Listed, Bound
    <2>3. Quiet(c)
      <3>1. \A g \in File : Confirms(c, g)' => \A d \in Call \ {c} : call[d].f # g
        BY <1>1, <1>2 DEF Confirms
      <3>2. \A g \in File : Removes(c, g)' /\ meta[g] = "out" =>
                call'[c].at = "start" /\ call'[c].saw[g] = "out"
        BY <1>1, <1>2 DEF Removes
      <3> QED
        BY <1>0, <3>1, <3>2 DEF Quiet
    <2>4. Confirmed(c)' /\ Unlinks(c)'
      BY <1>0, <1>1, <1>2 DEF Confirmed, Confirms, Removes, Unlinks, HandlerAt
    <2> QED
      BY <2>2, <2>3, <2>4
  <1> QED
    BY <1>0, <1>1, <1>3, <1>4, <1>5, StepKeeps

LEMMA StartKeeps == ASSUME IInv, NEW c \in Call, Start(c) PROVE IInv'
  <1>1. ASSUME NEW f \in File, StartConfirm(c, f) \/ StartRemove(c, f) PROVE IInv'
    BY <1>1, BeginKeeps DEF StartConfirm, StartRemove
  <1>2. ASSUME NEW q \in Req, NEW A \in SUBSET File, StartSubmit(c, q, A) PROVE IInv'
    BY <1>2, BeginKeeps DEF StartSubmit
  <1>3. CASE StartUpdate(c)
    BY <1>3, BeginKeeps DEF StartUpdate
  <1> QED
    BY <1>1, <1>2, <1>3 DEF Start

LEMMA WriteFileKeeps == ASSUME IInv, NEW c \in Call, WriteFile(c) PROVE IInv'
  <1>0. /\ UNCHANGED <<conversation, meta, tmp, req, overwritten>> /\ call[c] \in CallType
        /\ call[c].op = "confirm" /\ call[c].at = "start" /\ call[c].f \in File /\ Asks(c)
        /\ call \in [Call -> CallType]
    BY DEF WriteFile, HandlerAt, IInv, Types, Asks
  <1>1. CASE UNCHANGED files /\ Respond(c)
    BY <1>0, <1>1, EndKeeps DEF IInv, Types
  <1>2. CASE files' = files \cup {call[c].f} /\ GoOn(c, "record")
    <2> DEFINE r == [call[c] EXCEPT !.at = "record"]
    <2>1. /\ r \in CallType /\ r.op = "confirm" /\ r.at = "record" /\ r.f = call[c].f
          /\ r.saw = call[c].saw
      BY <1>0 DEF CallType
    <2>2. call' = [call EXCEPT ![c] = r]
      BY <1>2 DEF GoOn
    <2> HIDE DEF r
    <2>3. call'[c] = r /\ call' \in [Call -> CallType] /\ \A d \in Call \ {c} : call'[d] = call[d]
      BY <1>0, <2>1, <2>2
    <2>4. Types'
      BY <1>0, <1>2, <2>3 DEF IInv, Types, Submitted
    <2>5. Asks(c)'
      BY <1>0, <2>1, <2>3 DEF Asks, Submitted
    <2>6. ASSUME ~overwritten' PROVE Quiet(c) /\ Confirmed(c)' /\ Unlinks(c)' /\ Listed' /\ Bound'
      <3>1. Calm /\ Confirmed(c)
        BY <1>0, <2>6 DEF IInv, Calm
      <3>2. Listed' /\ Bound'
        BY <1>0, <1>2, <3>1 DEF Calm, Listed, Bound
      <3>3. Quiet(c)
        BY <1>0, <1>2, <2>1, <2>3 DEF Quiet, Confirms, Removes
      <3>4. Confirmed(c)' /\ Unlinks(c)'
        BY <1>0, <1>2, <2>1, <2>3, <3>1 DEF Confirmed, Confirms, Removes, Unlinks, HandlerAt
      <3> QED
        BY <3>2, <3>3, <3>4
    <2> QED
      BY <1>0, <2>1, <2>2, <2>4, <2>5, <2>6, StepKeeps
  <1> QED
    BY <1>1, <1>2 DEF WriteFile
-----------------------------------------------------------------------------
(* The list is written.  As long as every handler wrote back the list that  *)
(* it had loaded, the list m it saves differs from the present one only in  *)
(* what the handler decided.                                                *)

LEMMA SaveKeeps ==
    ASSUME IInv, NEW c \in Call, NEW r \in CallType, call' = [call EXCEPT ![c] = r],
           NEW m \in Meta, Save(c, m), UNCHANGED <<conversation, files, tmp>>,
           req' \in [Req -> ReqType], \A q \in Req : req[q].st # "absent" => req'[q].st # "absent",
           \A f \in File : m[f] \in Req => req'[m[f]].st # "absent", Asks(c)',
           \/ r.op = "idle"
           \/ /\ r.op = "confirm"
              /\ r.at = "tidy"
           \/ /\ r.op = "remove" /\ r.at = "unlink" /\ m[r.f] = "out"
              /\ Removes(c, r.f) /\ call[c].at = "start" /\ call[c].saw[r.f] # "out",
           call[c].saw = meta => \A f \in File : meta[f] = "out" => m[f] = "out" \/ Confirms(c, f),
           call[c].saw = meta /\ ~overwritten => 
              /\ \A f \in File : m[f] # "out" => f \in files
              /\ Bound'
    PROVE  IInv'
  <1>0. call \in [Call -> CallType] /\ meta' = m /\ meta \in Meta /\ overwritten \in BOOLEAN
    BY DEF IInv, Types, Save
  <1>1. call'[c] = r /\ call' \in [Call -> CallType] /\ \A d \in Call \ {c} : call'[d] = call[d]
    BY <1>0
  <1>2. overwritten' \in BOOLEAN /\ (~overwritten' => ~overwritten /\ call[c].saw = meta)
    BY <1>0 DEF Save
  <1>3. Types'
    BY <1>0, <1>1, <1>2 DEF IInv, Types, Submitted
  <1>4. ASSUME ~overwritten' PROVE Quiet(c) /\ Confirmed(c)' /\ Unlinks(c)' /\ Listed' /\ Bound'
    <2>1. Listed' /\ Bound'
      BY <1>0, <1>2, <1>4 DEF Listed
    <2>2. Quiet(c)
      <3>1. \A f \in File : meta[f] = "out" => meta'[f] = "out" \/ Confirms(c, f)
        BY <1>0, <1>2, <1>4
      <3>2. \A f \in File : ~Confirms(c, f)'
        BY <1>1 DEF Confirms
      <3>3. \A f \in File : ~(Removes(c, f)' /\ meta[f] = "out")
        BY <1>1, <1>2, <1>4 DEF Removes
      <3> QED
        BY <3>1, <3>2, <3>3 DEF Quiet
    <2>3. Confirmed(c)' /\ Unlinks(c)'
      BY <1>0, <1>1 DEF Confirmed, Confirms, Unlinks, HandlerAt
    <2> QED
      BY <2>1, <2>2, <2>3
  <1> QED
    BY <1>2, <1>3, <1>4, StepKeeps

LEMMA RecordKeeps == ASSUME IInv, NEW c \in Call, Record(c) PROVE IInv'
  <1> DEFINE g == call[c].f
             m == [call[c].saw EXCEPT ![g] = "free"]
             r == [call[c] EXCEPT !.at = "tidy"]
  <1>0. /\ UNCHANGED <<conversation, files, tmp, req>> /\ Save(c, m) /\ call[c] \in CallType
        /\ call[c].op = "confirm" /\ call[c].at = "record" /\ g \in File /\ Asks(c)
        /\ req \in [Req -> ReqType] /\ meta \in Meta
    BY DEF Record, HandlerAt, IInv, Types, Asks
  <1>1. call' = [call EXCEPT ![c] = r] /\ r \in CallType /\ r.op = "confirm" /\ r.at = "tidy"
    BY <1>0 DEF Record, GoOn, CallType
  <1>2. m \in Meta /\ m[g] = "free" /\ \A f \in File \ {g} : m[f] = call[c].saw[f]
    BY <1>0 DEF Meta, CallType
  <1>3. Asks(c)'
    <2>1. call'[c] = r /\ r.f = g /\ r.saw = call[c].saw
      BY <1>0, <1>1 DEF IInv, Types, CallType
    <2> QED
      BY <1>0, <1>1, <2>1 DEF Asks, Submitted
  <1>4. \A f \in File : m[f] \in Req => req'[m[f]].st # "absent"
    BY <1>0, <1>2, AttachmentsAssumption DEF Asks, Submitted
  <1>5. ASSUME call[c].saw = meta, ~overwritten
        PROVE  (\A f \in File : m[f] # "out" => f \in files) /\ Bound'
    <2>1. meta[g] = "out" /\ g \in files /\ Listed /\ Bound
      BY <1>0, <1>5 DEF IInv, Calm, Confirmed, Confirms
    <2>2. \A f \in File : m[f] # "out" => f \in files
      BY <1>2, <1>5, <2>1 DEF Listed
    <2>3. Bound'
      <3>1. meta' = m
        BY <1>0 DEF Save
      <3>2. \A q \in Req : req[q].asked \subseteq File /\ q # "out"
        BY <1>0, AttachmentsAssumption DEF ReqType
      <3> QED
        BY <1>0, <1>2, <1>5, <2>1, <3>1, <3>2 DEF Bound
    <2> QED
      BY <2>2, <2>3
  <1>6. \A f \in File : call[c].saw = meta /\ meta[f] = "out" => m[f] = "out" \/ Confirms(c, f)
    BY <1>0, <1>2 DEF Confirms
  <1> HIDE DEF m, r
  <1> QED
    BY <1>0, <1>1, <1>2, <1>3, <1>4, <1>5, <1>6, SaveKeeps

LEMMA RemoveKeeps == ASSUME IInv, NEW c \in Call, Remove(c) PROVE IInv'
  <1> DEFINE g == call[c].f
             m == [call[c].saw EXCEPT ![g] = "out"]
             r == [call[c] EXCEPT !.at = "unlink"]
  <1>0. /\ UNCHANGED <<conversation, files, tmp, req>> /\ call[c] \in CallType
        /\ call[c].op = "remove" /\ call[c].at = "start" /\ g \in File /\ Asks(c)
        /\ req \in [Req -> ReqType] /\ meta \in Meta
    BY DEF Remove, HandlerAt, IInv, Types, Asks
  <1>1. CASE UNCHANGED <<meta, overwritten>> /\ Respond(c)
    BY <1>0, <1>1, EndKeeps DEF IInv, Types
  <1>2. CASE Removable(c) /\ Save(c, m) /\ GoOn(c, "unlink")
    <2>1. /\ call' = [call EXCEPT ![c] = r] /\ r \in CallType
          /\ r.op = "remove" /\ r.at = "unlink" /\ r.f = g
      BY <1>0, <1>2 DEF GoOn, CallType
    <2>2. m \in Meta /\ m[g] = "out" /\ \A f \in File \ {g} : m[f] = call[c].saw[f]
      BY <1>0 DEF Meta, CallType
    <2>3. Asks(c)'
      <3>1. call'[c] = r /\ r.saw = call[c].saw
        BY <1>0, <2>1 DEF IInv, Types, CallType
      <3> QED
        BY <1>0, <2>1, <3>1 DEF Asks, Submitted
    <2>4. \A f \in File : m[f] \in Req => req'[m[f]].st # "absent"
      BY <1>0, <2>2, AttachmentsAssumption DEF Asks, Submitted
    <2>5. ASSUME call[c].saw = meta, ~overwritten
          PROVE  (\A f \in File : m[f] # "out" => f \in files) /\ Bound'
      <3>1. Listed /\ Bound
        BY <2>5 DEF IInv, Calm
      <3>2. \A f \in File : m[f] # "out" => f \in files
        BY <2>2, <2>5, <3>1 DEF Listed
      <3>3. ASSUME NEW q \in Req, req[q].st \in {"queued", "running"} PROVE g \notin req[q].asked
        <4>1. meta[g] = q => req[q].st # "queued" /\ req[q].st # "running"
          BY <1>2, <2>5 DEF Removable, Running
        <4> QED
          BY <3>1, <3>3, <4>1 DEF Bound
      <3>4. meta' = m /\ \A q \in Req : req[q].asked \subseteq File
        BY <1>0, <1>2 DEF Save, ReqType
      <3>5. Bound'
        BY <1>0, <2>2, <2>5, <3>1, <3>3, <3>4 DEF Bound
      <3> QED
        BY <3>2, <3>5
    <2>6. \A f \in File : call[c].saw = meta /\ meta[f] = "out" => m[f] = "out"
      BY <2>2
    <2>7. Removes(c, r.f) /\ call[c].saw[r.f] # "out"
      BY <1>0, <1>2, <2>1 DEF Removes, Removable
    <2> HIDE DEF m, r
    <2> QED
      BY <1>0, <1>2, <2>1, <2>2, <2>3, <2>4, <2>5, <2>6, <2>7, SaveKeeps
  <1> QED
    BY <1>1, <1>2 DEF Remove

\* The files bound to a new request were free: no request waits or runs for them.
LEMMA SubmitKeeps == ASSUME IInv, NEW c \in Call, Submit(c) PROVE IInv'
  <1> DEFINE u == call[c].q
             A == call[c].asked
             m == [f \in File |-> IF f \in A THEN u ELSE call[c].saw[f]]
  <1>0. /\ UNCHANGED <<conversation, files, tmp>> /\ call[c] \in CallType /\ A \subseteq File
        /\ call[c].op = "submit" /\ u \in Req /\ Asks(c) /\ Respond(c)
        /\ req \in [Req -> ReqType] /\ meta \in Meta /\ u \notin {"out", "free"}
    BY AttachmentsAssumption DEF Submit, HandlerAt, IInv, Types, Asks, CallType
  <1>1. CASE UNCHANGED <<meta, req, overwritten>>
    BY <1>0, <1>1, EndKeeps DEF IInv, Types
  <1>2. ASSUME req[u].st = "absent", Bindable(c), Save(c, m), NEW st \in {"queued", "running"},
               req' = [req EXCEPT ![u] = [st |-> st, asked |-> A]]
        PROVE  IInv'
    <2>1. req'[u].st = st /\ req'[u].asked = A /\ \A q \in Req \ {u} : req'[q] = req[q]
      BY <1>0, <1>2
    <2>2. req' \in [Req -> ReqType] /\ \A q \in Req : req[q].st # "absent" => req'[q].st # "absent"
      BY <1>0, <1>2, <2>1 DEF ReqType
    <2>3. m \in Meta /\ \A f \in File : m[f] = IF f \in A THEN u ELSE call[c].saw[f]
      BY <1>0 DEF Meta, CallType
    <2>4. call' = [call EXCEPT ![c] = NoHandler] /\ Asks(c)'
      <3>1. call'[c] = NoHandler /\ \A f \in File : NoHandler.saw[f] = "out"
        BY <1>0, IdleOK DEF Respond, IInv, Types
      <3> QED
        BY <1>0, <3>1, IdleOK, AttachmentsAssumption DEF Respond, Asks, Submitted
    <2>5. \A f \in File : m[f] \in Req => req'[m[f]].st # "absent"
      BY <1>0, <2>1, <2>2, <2>3 DEF Asks, Submitted
    <2>6. ASSUME call[c].saw = meta, ~overwritten
          PROVE  (\A f \in File : m[f] # "out" => f \in files) /\ Bound'
      <3>1. Listed /\ Bound
        BY <2>6 DEF IInv, Calm
      <3>2. \A f \in A : meta[f] = "free"
        <4>1. Submitted(meta) /\ \A f \in A : meta[f] \in {"free", u}
          BY <1>0, <1>2, <2>6 DEF Bindable, IInv, Types
        <4> QED
          BY <1>0, <1>2, <4>1 DEF Submitted
      <3>3. \A f \in File : m[f] # "out" => f \in files
        BY <1>0, <2>3, <2>6, <3>1, <3>2 DEF Listed
      <3>4. meta' = m /\ "free" \notin Req
        BY <1>2, AttachmentsAssumption DEF Save
      <3>5. ASSUME NEW q \in Req, req'[q].st \in {"queued", "running"}, NEW f \in req'[q].asked
            PROVE  m[f] = q
        <4>1. CASE q = u
          BY <1>0, <2>1, <2>3, <3>5, <4>1
        <4>2. CASE q # u
          <5>1. meta[f] = q /\ f \in File
            BY <1>0, <2>1, <3>1, <3>5, <4>2 DEF Bound, ReqType
          <5> QED
            BY <2>3, <2>6, <3>2, <3>4, <5>1
        <4> QED
          BY <4>1, <4>2
      <3> QED
        BY <3>3, <3>4, <3>5 DEF Bound
    <2>7. \A f \in File : call[c].saw = meta /\ meta[f] = "out" => m[f] = "out"
      <3>1. \A f \in A : call[c].saw[f] # "out"
        BY <1>0, <1>2 DEF Bindable
      <3> QED
        BY <2>3, <3>1
    <2> HIDE DEF m
    <2> QED
      BY <1>0, <1>2, <2>2, <2>3, <2>4, <2>5, <2>6, <2>7, IdleOK, SaveKeeps
  <1> QED
    BY <1>1, <1>2 DEF Submit

LEMMA UpdateKeeps == ASSUME IInv, NEW c \in Call, Update(c) PROVE IInv'
  <1>0. /\ UNCHANGED <<conversation, files, tmp, req>> /\ call[c] \in CallType /\ call[c].saw \in Meta
        /\ Asks(c) /\ Respond(c) /\ req \in [Req -> ReqType] /\ Save(c, call[c].saw) /\ meta \in Meta
    BY DEF Update, IInv, Types, CallType
  <1>1. call' = [call EXCEPT ![c] = NoHandler] /\ Asks(c)'
    <2>1. call'[c] = NoHandler /\ \A f \in File : NoHandler.saw[f] = "out"
      BY <1>0, IdleOK DEF Respond, IInv, Types
    <2> QED
      BY <1>0, <2>1, IdleOK, AttachmentsAssumption DEF Respond, Asks, Submitted
  <1>2. ASSUME call[c].saw = meta, ~overwritten
        PROVE  (\A f \in File : call[c].saw[f] # "out" => f \in files) /\ Bound'
    BY <1>0, <1>2 DEF Save, IInv, Calm, Listed, Bound
  <1>3. /\ \A f \in File : call[c].saw[f] \in Req => req'[call[c].saw[f]].st # "absent"
        /\ \A f \in File : call[c].saw = meta /\ meta[f] = "out" => call[c].saw[f] = "out"
        /\ \A q \in Req : req[q].st # "absent" => req'[q].st # "absent"
    BY <1>0 DEF Asks, Submitted
  <1>4. NoHandler \in CallType /\ NoHandler.op = "idle" /\ req' \in [Req -> ReqType]
    BY <1>0, IdleOK
  <1> QED
    BY <1>0, <1>1, <1>2, <1>3, <1>4, SaveKeeps
-----------------------------------------------------------------------------

LEMMA NextKeeps == ASSUME IInv, AttachmentNext PROVE IInv'
  <1>0. /\ req \in [Req -> ReqType] /\ files \subseteq File /\ tmp \subseteq File
        /\ conversation \in {"active", "deleted"}
    BY DEF IInv, Types
  <1>1. ASSUME NEW f \in File, Upload(f) PROVE IInv'
    <2>1. UNCHANGED <<conversation, meta, files, req, call, overwritten>> /\ tmp' \subseteq File
      BY <1>0, <1>1 DEF Upload
    <2> QED
      BY <1>0, <2>1, OutsideKeeps
  <1>2. ASSUME NEW c \in Call, Proceed(c) PROVE IInv'
    <2>1. CASE RollBack(c)
      BY <1>0, <2>1, EndKeeps DEF RollBack
    <2>2. CASE Tidy(c)
      BY <1>0, <2>2, EndKeeps DEF Tidy
    <2>3. CASE Unlink(c)
      BY <1>0, <2>3, EndKeeps DEF Unlink
    <2> QED
      BY <1>2, <2>1, <2>2, <2>3, WriteFileKeeps, RecordKeeps, RemoveKeeps, SubmitKeeps,
         UpdateKeeps DEF Proceed
  <1>3. ASSUME NEW c \in Call, Crash(c) PROVE IInv'
    BY <1>0, <1>3, EndKeeps DEF Crash
  <1>4. ASSUME NEW q \in Req, Dispatch(q) PROVE IInv'
    <2>1. /\ UNCHANGED <<conversation, meta, files, tmp, call, overwritten>>
          /\ req' = [req EXCEPT ![q] = [req[q] EXCEPT !.st = "running"]] /\ req[q].st = "queued"
      BY <1>4 DEF Dispatch
    <2>2. /\ req' \in [Req -> ReqType] /\ \A p \in Req \ {q} : req'[p] = req[p]
          /\ req'[q].st = "running" /\ req'[q].asked = req[q].asked
      BY <1>0, <2>1 DEF ReqType
    <2> QED
      BY <1>0, <2>1, <2>2, OutsideKeeps
  <1>5. ASSUME NEW q \in Req, Over(q) PROVE IInv'
    <2>1. /\ UNCHANGED <<conversation, meta, files, tmp, call, overwritten>>
          /\ req' = [req EXCEPT ![q] = [st |-> "over", asked |-> {}]]
      BY <1>5 DEF Over
    <2>2. /\ req' \in [Req -> ReqType] /\ \A p \in Req \ {q} : req'[p] = req[p]
          /\ req'[q].st = "over" /\ req'[q].asked = {}
      BY <1>0, <2>1 DEF ReqType
    <2> QED
      BY <1>0, <2>1, <2>2, OutsideKeeps
  <1>6. CASE DeleteThread
    BY <1>0, <1>6, OutsideKeeps DEF DeleteThread
  <1> QED
    BY <1>1, <1>2, <1>3, <1>4, <1>5, <1>6, StartKeeps DEF AttachmentNext

LEMMA StutterKeeps == ASSUME IInv, UNCHANGED attachmentVars PROVE IInv'
  <1>1. IInv => IInv'
    BY OutsideKeeps DEF attachmentVars, IInv, Types
  <1> QED
    BY <1>1

LEMMA InitKeeps == AttachmentInit => IInv
  <1> SUFFICES ASSUME AttachmentInit PROVE IInv
    OBVIOUS
  <1>1. /\ meta \in Meta /\ \A f \in File : meta[f] = "out"
        /\ \A q \in Req : req[q].st = "absent" /\ req[q].asked = {}
        /\ req \in [Req -> ReqType]
    BY DEF AttachmentInit, Meta, ReqType
  <1>2. call \in [Call -> CallType] /\ \A c \in Call : call[c] = NoHandler
    BY IdleOK DEF AttachmentInit
  <1>3. Types
    BY <1>1, <1>2, AttachmentsAssumption DEF AttachmentInit, Types, Submitted
  <1>4. \A c \in Call : Asks(c)
    BY <1>2, IdleOK, AttachmentsAssumption DEF Asks, Submitted
  <1>5. Calm
    BY <1>1, <1>2, IdleOK DEF Calm, Listed, Bound, Confirmed, Confirms, Unlinks, HandlerAt
  <1> QED
    BY <1>3, <1>4, <1>5 DEF IInv

THEOREM Invariance == AttachmentSpec => []IInv
  <1>1. IInv /\ [AttachmentNext]_attachmentVars => IInv'
    BY NextKeeps, StutterKeeps
  <1> QED
    BY <1>1, InitKeeps, PTL DEF AttachmentSpec

\* The types, and a file is bound only to a request that is stored: a handler
\* that writes an old list back cannot name a request that is not.
THEOREM AttachmentTypes == AttachmentSpec => []AttachmentsOK
  <1>1. IInv => AttachmentsOK
    BY DEF IInv, Types, AttachmentsOK, CallType, ReqType, Submitted
  <1> QED
    BY <1>1, Invariance, PTL

\* Every listed attachment has its file, whatever handlers run, fail or die, as
\* long as no list that had changed meanwhile was written back.
THEOREM AttachmentFiles == AttachmentSpec => []ListedHasFile
  <1>1. IInv => ListedHasFile
    BY DEF IInv, Calm, Listed, ListedHasFile
  <1> QED
    BY <1>1, Invariance, PTL

\* The files of a request that waits or runs stay bound to it and in the
\* Workdir, under the same condition.
THEOREM AttachmentUse == AttachmentSpec => []InUseIsKept
  <1>1. IInv => InUseIsKept
    <2>1. IInv => \A q \in Req : q # "out" /\ req[q].asked \subseteq File
      BY AttachmentsAssumption DEF IInv, Types, ReqType
    <2> QED
      BY <2>1 DEF IInv, Calm, Listed, Bound, InUseIsKept
  <1> QED
    BY <1>1, Invariance, PTL

-----------------------------------------------------------------------------
(* The sandbox.                                                           *)

ThreadType == [pc : Pc, op : Op, gen : Generation]
SeenType == [gen : Generation, idle : 0..IdleTicks]
Rest ==
    /\ box \in [gen : Generation, up : BOOLEAN] /\ gen \in Generation
    /\ deleting \in BOOLEAN /\ gate \in BOOLEAN
    /\ seen \in SeenType
    /\ conn \in [Process -> Generation]
    /\ down \subseteq Stopping /\ owed \subseteq Releasing
    /\ faults \in 0..MaxFaults
BoxTypes ==
    /\ Rest
    /\ lock \in [Process -> Client \cup {Nobody}]
    /\ thread \in [Thread -> ThreadType]

\* Where a thread of the provider holds the scope lock of its process, and where
\* it releases a sandbox.
ReleasingAt == {"find", "mark", "drain", "delete", "deleted", "failed", "lost"}
HoldingAt == {"check", "gate", "pin", "creating", "created"} \cup ReleasingAt
Fits(t) ==
    /\ thread[t].pc \in HoldingAt <=> lock[Home[t]] = t
    /\ thread[t].op = "release" <=> thread[t].pc \in ReleasingAt
Fit ==
    /\ \A t \in Client : Fits(t)
    /\ \A t \in Thread \ Client : thread[t].op # "release"
    /\ \A p \in Process : lock[p] # Nobody => Home[lock[p]] = p

\* A migration that is under way has closed the gate, and once it has awaited the
\* creates there are none.
Gated ==
    /\ ~At(Migration, "idle") => gate
    /\ thread[Migration].pc \notin {"idle", "begin"} => Creating = {}
    /\ At(Migration, "done") => ~Exists

BoxInv == BoxTypes /\ Fit /\ Gated
-----------------------------------------------------------------------------
LEMMA Shape == BoxInv => TypeOK /\ QuiescedIsEmpty
  <1> SUFFICES ASSUME BoxInv PROVE TypeOK /\ QuiescedIsEmpty
    OBVIOUS
  <1>1. ASSUME NEW p \in Process, lock[p] # Nobody PROVE Home[lock[p]] = p /\ ~At(lock[p], "idle")
    <2>1. lock[p] \in Client /\ Home[lock[p]] = p
      BY <1>1 DEF BoxInv, BoxTypes, Fit
    <2>2. thread[lock[p]].pc \in HoldingAt
      BY <2>1 DEF BoxInv, Fit, Fits
    <2> QED
      BY <2>1, <2>2 DEF At, HoldingAt, ReleasingAt
  <1> QED
    BY <1>1 DEF BoxInv, BoxTypes, Rest, ThreadType, SeenType, Gated, TypeOK, QuiescedIsEmpty

LEMMA Starts == Init => BoxInv
  <1> SUFFICES ASSUME Init PROVE BoxInv
    OBVIOUS
  <1>1. 0 \in Generation /\ 0 \in 0..IdleTicks /\ 0 \in 0..MaxFaults
    BY SandboxConstants DEF Generation
  <1>2. Idle \in ThreadType /\ NoBox \in [gen : Generation, up : BOOLEAN] /\ NoSeen \in SeenType
    BY <1>1 DEF Idle, NoBox, NoSeen, ThreadType, SeenType, Pc, Op
  <1>3. BoxTypes
    BY <1>1, <1>2 DEF Init, BoxTypes, Rest, NoConn
  <1>4. Fit
    BY SandboxConstants DEF Init, Fit, Fits, Idle, HoldingAt, ReleasingAt, Thread
  <1>5. Gated
    BY DEF Init, Gated, At, Idle, Thread
  <1> QED
    BY <1>3, <1>4, <1>5 DEF BoxInv

\* The thread of a provider takes a step: it holds its scope lock where it has to.
Steps(t, v) == thread' = [thread EXCEPT ![t] = v]
LockSteps(t) ==
    \/ lock' = lock
    \/ /\ lock' = [lock EXCEPT ![Home[t]] = Nobody]
       /\ lock[Home[t]] = t
    \/ /\ lock' = [lock EXCEPT ![Home[t]] = t]
       /\ lock[Home[t]] = Nobody
FitsAs(t, v) ==
    /\ v.pc \in HoldingAt <=> lock'[Home[t]] = t
    /\ v.op = "release" <=> v.pc \in ReleasingAt

LEMMA ClientFits ==
    ASSUME BoxTypes, Fit, NEW t \in Client, NEW v \in ThreadType, Steps(t, v), LockSteps(t), FitsAs(t, v)
    PROVE  Fit' /\ thread' \in [Thread -> ThreadType] /\ lock' \in [Process -> Client \cup {Nobody}]
           /\ thread'[t] = v /\ \A u \in Thread \ {t} : thread'[u] = thread[u]
  <1>1. /\ t \in Thread /\ Home[t] \in Process /\ t # Nobody
        /\ \A u \in Client : u \in Thread /\ Home[u] \in Process /\ u # Nobody
    BY SandboxConstants DEF Thread
  <1>2. thread'[t] = v /\ (\A u \in Thread \ {t} : thread'[u] = thread[u]) /\ thread' \in [Thread -> ThreadType]
    BY <1>1 DEF BoxTypes, Steps
  <1>3. lock' \in [Process -> Client \cup {Nobody}] /\ \A p \in Process \ {Home[t]} : lock'[p] = lock[p]
    BY <1>1 DEF BoxTypes, LockSteps
  <1>4. \A u \in Client \ {t} : lock'[Home[u]] = u <=> lock[Home[u]] = u
    BY <1>1, <1>3 DEF BoxTypes, LockSteps
  <1>5. \A u \in Client : Fits(u)'
    BY <1>1, <1>2, <1>4 DEF Fit, Fits, FitsAs
  <1>6. \A p \in Process : lock'[p] # Nobody => Home[lock'[p]] = p
    BY <1>1, <1>3 DEF BoxTypes, Fit, LockSteps
  <1>7. \A u \in Thread \ Client : thread'[u].op # "release"
    BY <1>2 DEF Fit
  <1> QED
    BY <1>2, <1>3, <1>5, <1>6, <1>7 DEF Fit

\* Another thread takes a step.
LEMMA OtherFits ==
    ASSUME BoxTypes, Fit, NEW t \in Thread \ Client, NEW v \in ThreadType, Steps(t, v),
           v.op # "release", lock' = lock
    PROVE  Fit' /\ thread' \in [Thread -> ThreadType]
           /\ thread'[t] = v /\ \A u \in Thread \ {t} : thread'[u] = thread[u]
  <1>1. thread'[t] = v /\ (\A u \in Thread \ {t} : thread'[u] = thread[u]) /\ thread' \in [Thread -> ThreadType]
    BY DEF BoxTypes, Steps
  <1>2. \A u \in Client : u \in Thread /\ u # t
    BY DEF Thread
  <1> QED
    BY <1>1, <1>2 DEF Fit, Fits

\* A step that neither starts a container nor opens the gate nor lets a create
\* pass it, while the migration goes no further.
LEMMA GateKept ==
    ASSUME BoxTypes, Gated, gate' = gate, thread'[Migration] = thread[Migration],
           \A t \in Client : thread'[t].pc \in {"pin", "creating"} =>
               thread[t].pc \in {"pin", "creating"} \/ ~gate,
           box' = box \/ box' = NoBox \/ (\E t \in Client : At(t, "creating"))
             \/ Exists
    PROVE  Gated'
  <1>1. CASE gate /\ thread[Migration].pc \notin {"idle", "begin"}
    <2>1. Creating = {} /\ Creating' = {}
      BY <1>1 DEF Gated, Creating
    <2>2. ~\E t \in Client : At(t, "creating")
      BY <2>1 DEF Creating, At
    <2> QED
      BY <1>1, <2>1, <2>2 DEF Gated, At, Exists
  <1>2. CASE ~(gate /\ thread[Migration].pc \notin {"idle", "begin"})
    BY <1>2 DEF Gated, At
  <1> QED
    BY <1>1, <1>2

LEMMA ClientKeeps ==
    ASSUME BoxInv, NEW t \in Client, NEW v \in ThreadType, Steps(t, v), LockSteps(t), FitsAs(t, v),
           Rest', gate' = gate,
           v.pc \in {"pin", "creating"} => thread[t].pc \in {"pin", "creating"} \/ ~gate,
           box' = box \/ box' = NoBox \/ At(t, "creating")
    PROVE  BoxInv'
  <1>1. Fit' /\ thread' \in [Thread -> ThreadType] /\ lock' \in [Process -> Client \cup {Nobody}]
        /\ thread'[t] = v /\ \A u \in Thread \ {t} : thread'[u] = thread[u]
    BY ClientFits DEF BoxInv
  <1>2. Migration \in Thread /\ Migration # t /\ \A u \in Client : u \in Thread
    BY SandboxConstants DEF Thread
  <1>3. Gated'
    <2>1. \A u \in Client : thread'[u].pc \in {"pin", "creating"} =>
               thread[u].pc \in {"pin", "creating"} \/ ~gate
      BY <1>1, <1>2
    <2>2. thread'[Migration] = thread[Migration] /\ BoxTypes /\ Gated
      BY <1>1, <1>2 DEF BoxInv
    <2>3. box' = box \/ box' = NoBox \/ \E u \in Client : At(u, "creating")
      OBVIOUS
    <2> QED
      BY <2>1, <2>2, <2>3, GateKept
  <1> QED
    BY <1>1, <1>3 DEF BoxInv, BoxTypes

LEMMA OtherKeeps ==
    ASSUME BoxInv, NEW t \in Thread \ Client, t # Migration, NEW v \in ThreadType, Steps(t, v),
           v.op # "release", lock' = lock, Rest', gate' = gate, box' = box \/ box' = NoBox
    PROVE  BoxInv'
  <1>1. Fit' /\ thread' \in [Thread -> ThreadType]
        /\ thread'[t] = v /\ \A u \in Thread \ {t} : thread'[u] = thread[u]
    BY OtherFits DEF BoxInv
  <1>2. Migration \in Thread /\ \A u \in Client : u \in Thread /\ u # t
    BY DEF Thread
  <1>3. Gated'
    <2>1. \A u \in Client : thread'[u].pc \in {"pin", "creating"} =>
               thread[u].pc \in {"pin", "creating"} \/ ~gate
      BY <1>1, <1>2
    <2>2. thread'[Migration] = thread[Migration] /\ BoxTypes /\ Gated
      BY <1>1, <1>2 DEF BoxInv
    <2> QED
      BY <2>1, <2>2, GateKept
  <1> QED
    BY <1>1, <1>3 DEF BoxInv, BoxTypes

LEMMA MigrationKeeps ==
    ASSUME BoxInv, NEW v \in ThreadType, Steps(Migration, v), v.op # "release", lock' = lock, Rest',
           v.pc \in Pc \ {"idle"}, gate', box' = box \/ box' = NoBox,
           v.pc # "begin" => Creating = {}, v.pc = "done" => box' = NoBox
    PROVE  BoxInv'
  <1>0. Migration \in Thread \ Client /\ \A u \in Client : u \in Thread /\ u # Migration
    BY SandboxConstants DEF Thread
  <1>1. Fit' /\ thread' \in [Thread -> ThreadType]
        /\ thread'[Migration] = v /\ \A u \in Thread \ {Migration} : thread'[u] = thread[u]
    BY <1>0, OtherFits DEF BoxInv
  <1>2. Creating' = Creating
    BY <1>0, <1>1 DEF Creating
  <1>3. Gated'
    BY <1>1, <1>2 DEF Gated, At, Exists
  <1> QED
    BY <1>1, <1>3 DEF BoxInv, BoxTypes

\* Nothing of a thread changes.
LEMMA ThreadsKept ==
    ASSUME BoxInv, UNCHANGED <<thread, lock, gate>>, Rest', box' = box \/ box' = NoBox \/ Exists
    PROVE  BoxInv'
  <1>1. Gated'
    BY GateKept DEF BoxInv, Thread
  <1> QED
    BY <1>1 DEF BoxInv, BoxTypes, Fit, Fits

-----------------------------------------------------------------------------
(* The values the steps write.                                              *)

LEMMA Values ==
    ASSUME Rest
    PROVE  /\ Idle \in ThreadType /\ [Idle EXCEPT !.pc = "send"] \in ThreadType
           /\ NoBox \in [gen : Generation, up : BOOLEAN] /\ NoSeen \in SeenType /\ NoConn \in Generation
           /\ 0 \in Generation /\ box.gen \in Generation /\ seen.gen \in Generation
           /\ \A g \in Generation : [gen |-> g, idle |-> 0] \in SeenType
  <1>1. 0 \in Generation /\ 0 \in 0..IdleTicks
    BY SandboxConstants DEF Generation
  <1> QED
    BY <1>1 DEF Rest, Idle, NoBox, NoSeen, NoConn, ThreadType, SeenType, Pc, Op

LEMMA Goes ==
    ASSUME BoxTypes, NEW t \in Thread, NEW pc \in Pc, Go(t, pc)
    PROVE  \E v \in ThreadType : Steps(t, v) /\ v.pc = pc /\ v.op = thread[t].op
  <1>1. thread[t] \in ThreadType
    BY DEF BoxTypes
  <1>2. [thread[t] EXCEPT !.pc = pc] \in ThreadType
    BY <1>1 DEF ThreadType
  <1> WITNESS [thread[t] EXCEPT !.pc = pc] \in ThreadType
  <1> QED
    BY <1>1 DEF BoxTypes, ThreadType, Go, Steps

LEMMA GoesWith ==
    ASSUME BoxTypes, NEW t \in Thread, NEW pc \in Pc, NEW g \in Generation,
           thread' = [thread EXCEPT ![t].pc = pc, ![t].gen = g]
    PROVE  \E v \in ThreadType : Steps(t, v) /\ v.pc = pc /\ v.op = thread[t].op
  <1>1. thread[t] \in ThreadType
    BY DEF BoxTypes
  <1>2. [thread[t] EXCEPT !.pc = pc, !.gen = g] \in ThreadType
    BY <1>1 DEF ThreadType
  <1> WITNESS [thread[t] EXCEPT !.pc = pc, !.gen = g] \in ThreadType
  <1> QED
    BY <1>1 DEF BoxTypes, ThreadType, Steps

-----------------------------------------------------------------------------
(* A call to the provider.                                                  *)

LEMMA BoxBeginKeeps ==
    ASSUME BoxInv, NEW t \in Client, NEW op \in {"use", "release"}, NEW g \in Generation,
           NEW pc \in {"gate", "check", "find", "mark"}, Begin(t, op, g, pc),
           op = "release" <=> pc \in {"find", "mark"}, Rest', UNCHANGED <<gate, box>>
    PROVE  BoxInv'
  <1> PICK v : v = [pc |-> pc, op |-> op, gen |-> g]
    OBVIOUS
  <1>1. v \in ThreadType /\ v.pc = pc /\ v.op = op
    BY DEF ThreadType, Pc, Op
  <1>2. Steps(t, v) /\ LockSteps(t)
    BY DEF Begin, Steps, LockSteps
  <1>3. lock'[Home[t]] = t
    BY SandboxConstants DEF Begin, BoxInv, BoxTypes
  <1>4. FitsAs(t, v)
    BY <1>1, <1>3 DEF FitsAs, HoldingAt, ReleasingAt
  <1> QED
    BY <1>1, <1>2, <1>4, ClientKeeps

LEMMA GetKeeps == ASSUME BoxInv, NEW t \in Client, Get(t) PROVE BoxInv'
  <1>1. Rest' /\ UNCHANGED <<gate, box>> /\ 0 \in Generation
    BY Values DEF Get, BoxInv, BoxTypes, Rest
  <1> QED
    BY <1>1, BoxBeginKeeps DEF Get

LEMMA ReleaseKeeps == ASSUME BoxInv, NEW t \in Client, Release(t) PROVE BoxInv'
  <1>1. Rest' /\ UNCHANGED <<gate, box>> /\ conn[Home[t]] \in Generation
    BY SandboxConstants DEF Release, BoxInv, BoxTypes, Rest
  <1> QED
    BY <1>1, BoxBeginKeeps DEF Release

\* The call goes on.
LEMMA GoesOn ==
    ASSUME BoxInv, NEW t \in Client, NEW v \in ThreadType, Steps(t, v), lock' = lock,
           v.pc \in HoldingAt <=> thread[t].pc \in HoldingAt,
           v.op = "release" <=> v.pc \in ReleasingAt, Rest', gate' = gate,
           v.pc \in {"pin", "creating"} => thread[t].pc \in {"pin", "creating"} \/ ~gate,
           box' = box \/ box' = NoBox \/ At(t, "creating")
    PROVE  BoxInv'
  <1>1. FitsAs(t, v)
    BY DEF FitsAs, BoxInv, Fit, Fits
  <1> QED
    BY <1>1, ClientKeeps DEF LockSteps

\* The call returns, or the connection is there, and the scope lock is free.
LEMMA CallEnds ==
    ASSUME BoxInv, NEW t \in Client, Return(t) \/ Connected(t), thread[t].pc \in HoldingAt, Rest',
           gate' = gate, box' = box \/ box' = NoBox \/ At(t, "creating")
    PROVE  BoxInv'
  <1>1. PICK v \in {Idle, [Idle EXCEPT !.pc = "send"]} : Steps(t, v)
    BY DEF Return, Connected, Steps
  <1>2. v \in ThreadType /\ v.pc \in {"idle", "send"} /\ v.op = "none"
    BY <1>1, Values DEF BoxInv, BoxTypes, Idle
  <1>3. lock[Home[t]] = t /\ lock' = [lock EXCEPT ![Home[t]] = Nobody] /\ lock'[Home[t]] # t
    BY SandboxConstants DEF Return, Connected, Unlock, BoxInv, BoxTypes, Fit, Fits
  <1>4. FitsAs(t, v) /\ LockSteps(t)
    BY <1>2, <1>3 DEF FitsAs, LockSteps, HoldingAt, ReleasingAt
  <1> QED
    BY <1>1, <1>2, <1>4, ClientKeeps

LEMMA CheckKeeps == ASSUME BoxInv, NEW t \in Client, Check(t) PROVE BoxInv'
  <1>0. BoxTypes /\ Rest /\ thread[t].pc = "check" /\ t \in Thread /\ UNCHANGED <<box, gate>>
    BY DEF Check, BoxInv, BoxTypes, At, Thread
  <1>1. thread[t].pc \in HoldingAt
    BY <1>0 DEF HoldingAt
  <1>2. CASE /\ ~Found /\ conn' = [conn EXCEPT ![Home[t]] = NoConn]
             /\ Go(t, "gate") /\ UNCHANGED <<lock, seen, faults>>
    <2>2. PICK v \in ThreadType : Steps(t, v) /\ v.pc = "gate" /\ v.op = thread[t].op
      <3>1. "gate" \in Pc
        BY DEF Pc
      <3> QED
        BY <1>0, <1>2, <3>1, Goes
    <2>3. Rest'
      BY <1>0, <1>2, Values DEF Check, Rest
    <2>4. v.op # "release"
      BY <1>0, <2>2 DEF BoxInv, Fit, Fits, ReleasingAt
    <2> QED
      BY <1>0, <1>2, <2>2, <2>3, <2>4, GoesOn DEF HoldingAt, ReleasingAt
  <1>3. CASE /\ Found /\ conn' = [conn EXCEPT ![Home[t]] = box.gen]
             /\ Touch(box.gen) /\ Connected(t) /\ UNCHANGED faults
    <2>1. Rest'
      BY <1>0, <1>3, Values DEF Check, Rest, Touch
    <2> QED
      BY <1>0, <1>1, <1>3, <2>1, CallEnds
  <1>4. CASE Fault /\ Connected(t) /\ UNCHANGED <<conn, seen>>
    <2>1. Rest'
      BY <1>0, <1>4, SandboxConstants DEF Check, Rest, Fault
    <2> QED
      BY <1>0, <1>1, <1>4, <2>1, CallEnds
  <1> QED
    BY <1>2, <1>3, <1>4 DEF Check

LEMMA EnterKeeps == ASSUME BoxInv, NEW t \in Client, EnterGate(t) \/ PinCreate(t) PROVE BoxInv'
  <1>0. BoxTypes /\ Rest' /\ thread[t].pc \in {"gate", "pin"} /\ t \in Thread /\ UNCHANGED <<box, gate>>
        /\ thread[t].op # "release"
    BY DEF EnterGate, PinCreate, BoxInv, BoxTypes, Rest, At, Thread, Fit, Fits, ReleasingAt
  <1>1. CASE Return(t)
    BY <1>0, <1>1, CallEnds DEF HoldingAt
  <1>2. ASSUME NEW pc \in {"pin", "creating"}, Go(t, pc), UNCHANGED lock,
               pc = "pin" => ~gate, pc = "creating" => At(t, "pin")
        PROVE  BoxInv'
    <2>2. PICK v \in ThreadType : Steps(t, v) /\ v.pc = pc /\ v.op = thread[t].op
      <3>1. pc \in Pc
        BY DEF Pc
      <3> QED
        BY <1>0, <1>2, <3>1, Goes
    <2> QED
      BY <1>0, <1>2, <2>2, GoesOn DEF HoldingAt, ReleasingAt, At
  <1> QED
    BY <1>1, <1>2 DEF EnterGate, PinCreate

LEMMA CreateKeeps == ASSUME BoxInv, NEW t \in Client, Create(t) PROVE BoxInv'
  <1>0. /\ BoxTypes /\ Rest /\ thread[t].pc = "creating" /\ t \in Thread /\ thread[t].op # "release"
        /\ UNCHANGED <<deleting, gate, seen, conn, down, owed>>
    BY DEF Create, BoxInv, BoxTypes, At, Thread, Fit, Fits, ReleasingAt
  <1>1. ASSUME NEW g \in Generation, thread' = [thread EXCEPT ![t].pc = "created", ![t].gen = g],
               lock' = lock, Rest'
        PROVE  BoxInv'
    <2>1. "created" \in Pc
      BY DEF Pc
    <2>2. PICK v \in ThreadType : Steps(t, v) /\ v.pc = "created" /\ v.op = thread[t].op
      BY <1>0, <1>1, <2>1, GoesWith
    <2> QED
      BY <1>0, <1>1, <2>2, GoesOn DEF HoldingAt, ReleasingAt, At
  <1>2. ASSUME Return(t), Rest' PROVE BoxInv'
    BY <1>0, <1>2, CallEnds DEF HoldingAt, At
  <1>3. CASE /\ Found
             /\ thread' = [thread EXCEPT ![t].pc = "created", ![t].gen = box.gen]
             /\ UNCHANGED <<box, gen, lock, faults>>
    <2>1. Rest' /\ box.gen \in Generation
      BY <1>0, <1>3, Values DEF Rest
    <2> QED
      BY <1>1, <1>3, <2>1
  <1>4. CASE /\ gen < MaxGen /\ gen' = gen + 1
             /\ \/ /\ box' = [gen |-> gen + 1, up |-> TRUE]
                   /\ thread' = [thread EXCEPT ![t].pc = "created", ![t].gen = gen + 1]
                   /\ UNCHANGED <<lock, faults>>
                \/ Fault /\ box' = NoBox /\ Return(t)
    <2>1. gen + 1 \in Generation
      BY <1>0, <1>4, SandboxConstants DEF Rest, Generation
    <2>2. CASE /\ box' = [gen |-> gen + 1, up |-> TRUE]
               /\ thread' = [thread EXCEPT ![t].pc = "created", ![t].gen = gen + 1]
               /\ UNCHANGED <<lock, faults>>
      <3>1. Rest'
        BY <1>0, <1>4, <2>1, <2>2 DEF Rest
      <3> QED
        BY <1>1, <2>1, <2>2, <3>1
    <2>3. CASE Fault /\ box' = NoBox /\ Return(t)
      <3>1. Rest'
        BY <1>0, <1>4, <2>1, <2>3, Values, SandboxConstants DEF Rest, Fault
      <3> QED
        BY <1>2, <2>3, <3>1
    <2> QED
      BY <1>4, <2>2, <2>3
  <1>5. CASE Return(t) /\ UNCHANGED <<box, gen, faults>>
    <2>1. Rest'
      BY <1>0, <1>5 DEF Rest
    <2> QED
      BY <1>2, <1>5, <2>1
  <1> QED
    BY <1>3, <1>4, <1>5 DEF Create

LEMMA CreatedKeeps == ASSUME BoxInv, NEW t \in Client, Created(t) PROVE BoxInv'
  <1>0. BoxTypes /\ Rest /\ thread[t].pc = "created" /\ t \in Thread /\ thread[t].gen \in Generation
    BY DEF Created, BoxInv, BoxTypes, ThreadType, At, Thread
  <1>1. Rest' /\ UNCHANGED <<gate, box>> /\ Connected(t)
    BY <1>0, Values DEF Created, Rest, Touch
  <1> QED
    BY <1>0, <1>1, CallEnds DEF HoldingAt

\* Commands and file operations hold no lock.
LEMMA ProxyKeeps ==
    ASSUME BoxInv, NEW t \in Client, Send(t) \/ Headers(t) \/ Broken(t) \/ Body(t) PROVE BoxInv'
  <1>0. /\ BoxTypes /\ Rest /\ thread[t].pc \in {"send", "asked", "body"} /\ t \in Thread
        /\ thread[t].op # "release" /\ lock' = lock /\ UNCHANGED <<gate, box>>
        /\ box.gen \in Generation /\ thread[t].gen \in Generation
    BY Values DEF Send, Headers, Broken, Body, BoxInv, BoxTypes, ThreadType, At, Thread, Fit, Fits, ReleasingAt
  <1>1. Rest'
    BY <1>0, Values, SandboxConstants DEF Send, Headers, Broken, Body, Rest, Fault, Touch
  <1>2. PICK v \in ThreadType : Steps(t, v) /\ v.pc \in {"asked", "body", "idle"} /\ v.op # "release"
    <2>1. CASE thread' = [thread EXCEPT ![t] = Idle]
      BY <2>1, <1>0, Values DEF Steps, Idle
    <2>2. CASE thread' = [thread EXCEPT ![t].pc = "asked", ![t].gen = box.gen]
      <3>1. "asked" \in Pc
        BY DEF Pc
      <3>2. \E v \in ThreadType : Steps(t, v) /\ v.pc = "asked" /\ v.op = thread[t].op
        BY <1>0, <2>2, <3>1, GoesWith
      <3> QED
        BY <1>0, <3>2
    <2>3. CASE Go(t, "body")
      <3>1. "body" \in Pc
        BY DEF Pc
      <3> QED
        BY <1>0, <2>3, <3>1, Goes
    <2> QED
      BY <2>1, <2>2, <2>3 DEF Send, Headers, Broken, Body
  <1> QED
    BY <1>0, <1>1, <1>2, GoesOn DEF HoldingAt, ReleasingAt

LEMMA FindKeeps == ASSUME BoxInv, NEW t \in Client, Find(t) PROVE BoxInv'
  <1>0. /\ BoxTypes /\ Rest /\ thread[t].pc = "find" /\ t \in Thread /\ thread[t].op = "release"
        /\ UNCHANGED <<box, gen, deleting, gate, conn, down>> /\ box.gen \in Generation
    BY Values DEF Find, BoxInv, BoxTypes, At, Thread, Fit, Fits, ReleasingAt
  <1>1. ASSUME Return(t), Rest' PROVE BoxInv'
    BY <1>0, <1>1, CallEnds DEF HoldingAt, ReleasingAt
  <1>2. CASE ~Found /\ Return(t) /\ owed' = owed \ {Home[t]} /\ UNCHANGED <<seen, faults>>
    <2>1. Rest'
      BY <1>0, <1>2 DEF Rest
    <2> QED
      BY <1>1, <1>2, <2>1
  <1>3. CASE /\ Found /\ Touch(box.gen)
             /\ thread' = [thread EXCEPT ![t].pc = "mark", ![t].gen = box.gen]
             /\ UNCHANGED <<lock, owed, faults>>
    <2>1. Rest'
      BY <1>0, <1>3, Values DEF Rest, Touch
    <2>2. "mark" \in Pc
      BY DEF Pc
    <2>3. PICK v \in ThreadType : Steps(t, v) /\ v.pc = "mark" /\ v.op = thread[t].op
      BY <1>0, <1>3, <2>2, GoesWith
    <2> QED
      BY <1>0, <1>3, <2>1, <2>3, GoesOn DEF HoldingAt, ReleasingAt
  <1>4. CASE Fault /\ Return(t) /\ UNCHANGED <<seen, owed>>
    <2>1. Rest'
      BY <1>0, <1>4, SandboxConstants DEF Rest, Fault
    <2> QED
      BY <1>1, <1>4, <2>1
  <1> QED
    BY <1>2, <1>3, <1>4 DEF Find

-----------------------------------------------------------------------------
(* A deletion.                                                              *)

LEMMA OweKeeps == ASSUME BoxInv, NEW p \in Process, Owe(p) PROVE BoxInv'
  <1>1. Rest'
    BY DEF Owe, BoxInv, BoxTypes, Rest
  <1> QED
    BY <1>1, ThreadsKept DEF Owe

LEMMA ShutdownKeeps == ASSUME BoxInv, NEW p \in Process, Shutdown(p) PROVE BoxInv'
  <1>0. /\ BoxTypes /\ Rest /\ p \in Stopping /\ p \in Process /\ p \in Thread \ Client /\ p # Migration
        /\ UNCHANGED <<box, gen, deleting, gate, seen, lock>> /\ conn[p] \in Generation
    BY SandboxConstants DEF Shutdown, BoxInv, BoxTypes, Rest, Thread
  <1>1. Rest'
    BY <1>0, Values, SandboxConstants DEF Shutdown, Rest, Fault
  <1>2. CASE thread' = thread
    BY <1>0, <1>1, <1>2, ThreadsKept
  <1>3. CASE thread' = [thread EXCEPT ![p] = [pc |-> "mark", op |-> "shutdown", gen |-> conn[p]]]
    <2>1. PICK v : v = [pc |-> "mark", op |-> "shutdown", gen |-> conn[p]]
      OBVIOUS
    <2>2. v \in ThreadType /\ v.op # "release" /\ Steps(p, v)
      BY <1>0, <1>3, <2>1 DEF ThreadType, Pc, Op, Steps
    <2> QED
      BY <1>0, <1>1, <2>2, OtherKeeps
  <1> QED
    BY <1>2, <1>3 DEF Shutdown

LEMMA ReaperKeeps == ASSUME BoxInv, Collect \/ Recheck PROVE BoxInv'
  <1>0. /\ BoxTypes /\ Rest /\ Rest' /\ UNCHANGED <<box, gate, lock>> /\ seen.gen \in Generation
        /\ Reaper \in Thread \ Client /\ Reaper # Migration /\ thread[Reaper].op # "release"
    BY Values, SandboxConstants DEF Collect, Recheck, BoxInv, BoxTypes, Rest, Fit, Thread, Reaper, Migration
  <1>1. PICK v \in ThreadType : Steps(Reaper, v) /\ v.op # "release"
    <2>1. CASE thread' = [thread EXCEPT ![Reaper] = [pc |-> "mark", op |-> "reap", gen |-> seen.gen]]
      <3>1. PICK v : v = [pc |-> "mark", op |-> "reap", gen |-> seen.gen]
        OBVIOUS
      <3>2. v \in ThreadType /\ v.op # "release" /\ Steps(Reaper, v)
        BY <1>0, <2>1, <3>1 DEF Steps, ThreadType, Pc, Op
      <3> QED
        BY <3>2
    <2>2. ASSUME NEW pc \in {"delete", "failed"}, Go(Reaper, pc)
          PROVE  \E v \in ThreadType : Steps(Reaper, v) /\ v.op # "release"
      <3>1. pc \in Pc
        BY DEF Pc
      <3> QED
        BY <1>0, <2>2, <3>1, Goes
    <2> QED
      BY <2>1, <2>2 DEF Collect, Recheck
  <1> QED
    BY <1>0, <1>1, OtherKeeps

LEMMA QuiesceKeeps == ASSUME BoxInv, CloseGate \/ AwaitCreates \/ List PROVE BoxInv'
  <1>0. /\ BoxTypes /\ Rest /\ UNCHANGED <<box, lock>> /\ Migration \in Thread
        /\ thread[Migration].op # "release"
    BY SandboxConstants DEF CloseGate, AwaitCreates, List, BoxInv, BoxTypes, Fit, Thread
  <1>1. Rest'
    <2>1. faults' \in 0..MaxFaults
      <3>1. faults' = faults \/ (faults < MaxFaults /\ faults' = faults + 1)
        <4>1. CASE CloseGate
          BY <4>1 DEF CloseGate, Fault
        <4>2. ASSUME AwaitCreates PROVE faults' = faults
          BY <4>2 DEF AwaitCreates
        <4>3. ASSUME List PROVE faults' = faults
          BY <4>3 DEF List
        <4> QED
          BY <4>1, <4>2, <4>3
      <3> QED
        BY <1>0, <3>1, SandboxConstants DEF Rest
    <2>2. UNCHANGED <<box, gen, deleting, seen, conn, down, owed>>
      BY DEF CloseGate, AwaitCreates, List
    <2>3. gate' \in BOOLEAN
      BY <1>0 DEF CloseGate, AwaitCreates, List, Rest
    <2> QED
      BY <1>0, <2>1, <2>2, <2>3 DEF Rest
  <1>2. CASE CloseGate
    <2>1. "begin" \in Pc \ {"idle"}
      BY DEF Pc
    <2>2. PICK v \in ThreadType : Steps(Migration, v) /\ v.pc = "begin" /\ v.op = thread[Migration].op
      BY <1>0, <1>2, <2>1, Goes DEF CloseGate
    <2> QED
      BY <1>0, <1>1, <1>2, <2>1, <2>2, MigrationKeeps DEF CloseGate
  <1>3. CASE AwaitCreates
    <2>1. "list" \in Pc \ {"idle"}
      BY DEF Pc
    <2>2. PICK v \in ThreadType : Steps(Migration, v) /\ v.pc = "list" /\ v.op = thread[Migration].op
      BY <1>0, <1>3, <2>1, Goes DEF AwaitCreates
    <2>3. gate' /\ Creating = {}
      BY <1>3 DEF AwaitCreates, BoxInv, Gated, At
    <2> QED
      BY <1>0, <1>1, <2>1, <2>2, <2>3, MigrationKeeps
  <1>4. CASE List
    <2>1. PICK v : v = IF Exists THEN [pc |-> "mark", op |-> "quiesce", gen |-> box.gen]
                       ELSE [Idle EXCEPT !.pc = "done"]
      OBVIOUS
    <2>2. v \in ThreadType /\ v.pc \in {"mark", "done"} /\ v.op # "release" /\ Steps(Migration, v)
          /\ (v.pc = "done" => ~Exists)
      BY <1>0, <1>4, <2>1, Values DEF List, ThreadType, Pc, Op, Idle, Steps
    <2>3. gate' /\ Creating = {}
      BY <1>4 DEF List, BoxInv, Gated, At
    <2>4. v.pc \in Pc \ {"idle"} /\ (v.pc = "done" => box' = NoBox)
      BY <1>0, <2>2 DEF Pc, Exists
    <2> QED
      BY <1>0, <1>1, <2>2, <2>3, <2>4, MigrationKeeps
  <1> QED
    BY <1>2, <1>3, <1>4

\* A deletion goes on: the migration has awaited the creates.
LEMMA DeletionGoesOn ==
    ASSUME BoxInv, NEW t \in Thread, NEW pc \in {"drain", "recheck", "delete", "deleted", "failed"},
           pc = "recheck" => t = Reaper, Go(t, pc),
           thread[t].pc \in {"mark", "drain", "delete"}, lock' = lock, Rest', gate' = gate,
           box' = box \/ box' = NoBox
    PROVE  BoxInv'
  <1>0. BoxTypes /\ pc \in Pc /\ Reaper \notin Client /\ Reaper # Migration
    BY SandboxConstants DEF BoxInv, Pc, Reaper, Migration
  <1>1. PICK v \in ThreadType : Steps(t, v) /\ v.pc = pc /\ v.op = thread[t].op
    BY <1>0, Goes
  <1>2. CASE t \in Client
    <2>1. v.op = "release" /\ v.pc \in ReleasingAt /\ v.pc \in HoldingAt /\ thread[t].pc \in HoldingAt
      BY <1>0, <1>1, <1>2 DEF BoxInv, Fit, Fits, ReleasingAt, HoldingAt
    <2> QED
      BY <1>1, <1>2, <2>1, GoesOn
  <1>3. CASE t = Migration
    <2>1. gate' /\ Creating = {} /\ v.op # "release"
      BY <1>1, <1>3, SandboxConstants DEF BoxInv, Gated, At, Fit
    <2>2. v.pc \in Pc \ {"idle"} /\ v.pc # "done"
      BY <1>0, <1>1
    <2> QED
      BY <1>1, <1>3, <2>1, <2>2, MigrationKeeps
  <1>4. CASE t \notin Client /\ t # Migration
    BY <1>1, <1>4, OtherKeeps DEF BoxInv, Fit
  <1> QED
    BY <1>2, <1>3, <1>4

LEMMA DeletionKeeps ==
    ASSUME BoxInv, NEW t \in Thread, Mark(t) \/ Drain(t) \/ Delete(t) PROVE BoxInv'
  <1>0. /\ BoxTypes /\ Rest /\ UNCHANGED <<gen, gate, seen, conn, lock, down, owed>>
        /\ thread[t].pc \in {"mark", "drain", "delete"}
        /\ box' = box \/ box' = NoBox
    BY DEF Mark, Drain, Delete, BoxInv, BoxTypes, At
  <1>1. deleting' \in BOOLEAN
    BY <1>0 DEF Mark, Drain, Delete, Rest
  <1>2. faults' \in 0..MaxFaults
    <2>1. CASE Mark(t) \/ Drain(t)
      BY <1>0, <2>1 DEF Mark, Drain, Rest
    <2>2. CASE Delete(t)
      BY <1>0, <2>2, SandboxConstants DEF Delete, Fault, Rest
    <2> QED
      BY <2>1, <2>2
  <1>3. Rest'
    BY <1>0, <1>1, <1>2, Values DEF Rest
  <1>4. \E pc \in {"drain", "recheck", "delete", "deleted", "failed"} :
            Go(t, pc) /\ (pc = "recheck" => t = Reaper)
    BY DEF Mark, Drain, Delete
  <1> QED
    BY <1>0, <1>3, <1>4, DeletionGoesOn

\* The deletion is over and its caller has the answer, or broke off.
LEMMA BoxEndKeeps ==
    ASSUME BoxInv, NEW t \in Thread, End(t) \/ Lost(t) PROVE BoxInv'
  <1>0. /\ BoxTypes /\ Rest /\ UNCHANGED <<box, gen, gate, down, faults>>
        /\ thread[t].pc \in {"deleted", "failed", "lost"}
    BY DEF End, Lost, BoxInv, BoxTypes, At
  <1>1. deleting' \in BOOLEAN
    BY <1>0 DEF End, Lost, Rest
  <1>2. seen' \in SeenType
    BY <1>0, Values DEF End, Lost, Rest, Forget
  <1>3. Answered(t, At(t, "deleted")) \/ Answered(t, FALSE)
    BY DEF End, Lost
  <1>4. conn' \in [Process -> Generation] /\ owed' \subseteq Releasing
    BY <1>0, <1>3, Values DEF Answered, Rest
  <1>5. Rest'
    BY <1>0, <1>1, <1>2, <1>4 DEF Rest
  <1>6. CASE thread[t].op = "release"
    <2>1. t \in Client /\ Return(t)
      BY <1>3, <1>6 DEF Answered, BoxInv, Fit
    <2> QED
      BY <1>0, <1>5, <2>1, CallEnds DEF HoldingAt, ReleasingAt
  <1>7. CASE thread[t].op # "release"
    <2>1. PICK v : v = [Idle EXCEPT !.pc = IF t = Migration THEN "list" ELSE "idle"]
      OBVIOUS
    <2>2. /\ v \in ThreadType /\ v.op # "release" /\ Steps(t, v) /\ lock' = lock
          /\ (t = Migration => v.pc = "list")
      BY <1>3, <1>7, <2>1, Values, <1>0 DEF Answered, Steps, Idle, ThreadType, Pc, Op
    <2>3. t \notin Client
      BY <1>0, <1>7 DEF BoxInv, Fit, Fits, ReleasingAt
    <2>4. CASE t = Migration
      <3>1. gate' /\ Creating = {}
        BY <1>0, <2>4 DEF BoxInv, Gated, At
      <3>2. v.pc \in Pc \ {"idle"} /\ v.pc # "done"
        BY <2>2, <2>4 DEF Pc
      <3> QED
        BY <1>0, <1>5, <2>2, <2>4, <3>1, <3>2, MigrationKeeps
    <2>5. CASE t # Migration
      BY <1>0, <1>5, <2>2, <2>3, <2>5, OtherKeeps
    <2> QED
      BY <2>4, <2>5
  <1> QED
    BY <1>6, <1>7

\* A release whose call broke off: its thread and the orphan go apart.
LEMMA TimeoutKeeps == ASSUME BoxInv, NEW t \in Client, Timeout(t) PROVE BoxInv'
  <1>0. /\ BoxTypes /\ Rest /\ t \in Thread /\ thread[t].op = "release" /\ thread[t].pc \in {"mark", "drain", "delete"}
        /\ Orphan \in Thread \ Client /\ Orphan # Migration /\ Migration \in Thread /\ Migration \notin Client
        /\ thread[t] \in ThreadType
        /\ UNCHANGED <<box, gen, deleting, gate, seen, conn, lock, down, owed>>
    BY SandboxConstants DEF Timeout, BoxInv, BoxTypes, Thread, Orphan, Migration
  <1>1. Rest'
    BY <1>0, SandboxConstants DEF Timeout, Rest, Fault
  <1>2. PICK v : v = [thread[t] EXCEPT !.op = "orphan"]
    OBVIOUS
  <1>3. PICK w : w = [thread[t] EXCEPT !.pc = "lost"]
    OBVIOUS
  <1>4. /\ v \in ThreadType /\ v.op = "orphan" /\ w \in ThreadType /\ w.pc = "lost" /\ w.op = "release"
    BY <1>0, <1>2, <1>3 DEF ThreadType, Pc, Op
  <1>5. /\ thread' \in [Thread -> ThreadType] /\ thread'[Orphan] = v /\ thread'[t] = w
        /\ \A u \in Thread \ {t, Orphan} : thread'[u] = thread[u]
    <2>1. thread' = [thread EXCEPT ![Orphan] = v, ![t] = w]
      BY <1>0, <1>2, <1>3 DEF Timeout, BoxTypes
    <2> QED
      BY <1>0, <1>4, <2>1 DEF BoxTypes
  <1>6. \A u \in Client : Fits(u)'
    <2>1. ASSUME NEW u \in Client PROVE Fits(u)'
      <3>1. u \in Thread /\ u # Orphan /\ lock'[Home[u]] = lock[Home[u]] /\ Fits(u)
        BY <1>0 DEF Thread, BoxInv, Fit
      <3>2. CASE u = t
        BY <1>0, <1>4, <1>5, <3>1, <3>2 DEF Fits, HoldingAt, ReleasingAt
      <3>3. CASE u # t
        BY <1>5, <3>1, <3>3 DEF Fits
      <3> QED
        BY <3>2, <3>3
    <2> QED
      BY <2>1
  <1>7. Fit'
    BY <1>0, <1>4, <1>5, <1>6 DEF BoxInv, Fit
  <1>8. Gated'
    <2>1. \A u \in Client : thread'[u].pc \in {"pin", "creating"} =>
               thread[u].pc \in {"pin", "creating"} \/ ~gate
      BY <1>0, <1>4, <1>5 DEF Thread
    <2> QED
      BY <1>0, <1>5, <2>1, GateKept DEF BoxInv
  <1> QED
    BY <1>0, <1>1, <1>5, <1>7, <1>8 DEF BoxInv, BoxTypes

LEMMA RestartKeeps == ASSUME BoxInv, Restart PROVE BoxInv'
  <1>0. /\ BoxTypes /\ Rest /\ UNCHANGED <<box, gen, conn, down, owed>> /\ Migration \in Thread
        /\ \A t \in Client : t \in Thread /\ t \notin {Reaper, Migration, Orphan} /\ t # Nobody
                             /\ Home[t] \in Process
    BY SandboxConstants DEF Restart, BoxInv, BoxTypes, Thread
  <1>1. Rest'
    <2>1. faults' \in 0..MaxFaults
      <3>1. faults < MaxFaults /\ faults' = faults + 1
        BY DEF Restart, Fault
      <3> QED
        BY <1>0, <3>1, SandboxConstants DEF Rest
    <2>3. deleting' \in BOOLEAN /\ gate' \in BOOLEAN
      BY DEF Restart
    <2>2. seen' \in SeenType
      BY <1>0, Values DEF Restart
    <2> QED
      BY <1>0, <2>1, <2>2, <2>3 DEF Rest
  <1>2. ASSUME NEW t \in Thread
        PROVE  /\ thread'[t] \in ThreadType
               /\ t \in {Reaper, Migration, Orphan} => thread'[t] = Idle
               /\ \/ thread'[t] = Idle
                  \/ thread[t].pc \in {"idle", "send"} /\ thread'[t] = thread[t]
                  \/ thread[t].pc = "check" /\ thread'[t].pc = "send" /\ thread'[t].op = thread[t].op
                  \/ /\ thread[t].op = "release" /\ thread[t].pc # "find" /\ thread[t].pc \notin {"idle", "send", "check"}
                     /\ thread'[t].pc = "lost" /\ thread'[t].op = "release"
               /\ thread[t].op = "release" /\ thread[t].pc \notin {"find", "idle", "send", "check"}
                  => thread'[t].pc = "lost" \/ t \in {Reaper, Migration, Orphan}
    <2>1. thread'[t] =
           IF t \in {Reaper, Migration, Orphan} THEN Idle
           ELSE IF thread[t].pc \in {"idle", "send"} THEN thread[t]
           ELSE IF thread[t].pc = "check" THEN [thread[t] EXCEPT !.pc = "send"]
           ELSE IF thread[t].op = "release" /\ thread[t].pc # "find" THEN [thread[t] EXCEPT !.pc = "lost"]
           ELSE Idle
      BY DEF Restart, At
    <2>2. thread[t] \in ThreadType /\ Idle \in ThreadType
      BY <1>0, Values DEF BoxTypes
    <2>3. ASSUME NEW pc \in {"send", "lost"}
          PROVE  /\ [thread[t] EXCEPT !.pc = pc] \in ThreadType
                 /\ [thread[t] EXCEPT !.pc = pc].pc = pc /\ [thread[t] EXCEPT !.pc = pc].op = thread[t].op
      BY <2>2 DEF ThreadType, Pc
    <2>4. CASE t \in {Reaper, Migration, Orphan} \/ thread[t].pc \in {"idle", "send"}
      BY <2>1, <2>2, <2>4
    <2>5. CASE t \notin {Reaper, Migration, Orphan} /\ thread[t].pc = "check"
      BY <2>1, <2>3, <2>5
    <2>6. CASE t \notin {Reaper, Migration, Orphan} /\ thread[t].pc \notin {"idle", "send", "check"}
      <3>1. CASE thread[t].op = "release" /\ thread[t].pc # "find"
        BY <2>1, <2>3, <2>6, <3>1
      <3>2. CASE ~(thread[t].op = "release" /\ thread[t].pc # "find")
        BY <2>1, <2>2, <2>6, <3>2
      <3> QED
        BY <3>1, <3>2
    <2> QED
      BY <2>4, <2>5, <2>6
  <1>4. thread' \in [Thread -> ThreadType]
    BY <1>2 DEF Restart
  <1>5. lock' = [p \in Process |-> IF lock[p] \in Client /\ thread'[lock[p]].pc # "lost" THEN Nobody ELSE lock[p]]
    BY DEF Restart
  <1>6. ASSUME NEW t \in Client PROVE Fits(t)'
    <2>1. Fits(t) /\ thread[t] \in ThreadType /\ Home[t] \in Process /\ t \in Thread /\ t # Nobody
      BY <1>0 DEF BoxInv, Fit, BoxTypes
    <2>2. lock'[Home[t]] = t <=> lock[Home[t]] = t /\ thread'[t].pc = "lost"
      BY <1>0, <1>5, <2>1
    <2>3. /\ thread'[t].pc \in {"idle", "send", "lost"}
          /\ thread'[t].op = "release" <=> thread'[t].pc = "lost"
          /\ thread'[t].pc = "lost" => thread[t].pc \in ReleasingAt
      BY <1>2, <2>1 DEF Fits, ReleasingAt, Idle
    <2>4. thread'[t].pc = "lost" => lock[Home[t]] = t
      BY <2>1, <2>3 DEF Fits, HoldingAt
    <2> QED
      BY <2>2, <2>3, <2>4 DEF Fits, HoldingAt, ReleasingAt
  <1>7. \A t \in Thread \ Client : thread'[t].op # "release"
    <2>1. ASSUME NEW t \in Thread \ Client PROVE thread'[t].op # "release"
      <3>1. thread[t].op # "release"
        BY DEF BoxInv, Fit
      <3> QED
        BY <1>2, <3>1 DEF Idle
    <2> QED
      BY <2>1
  <1>8. lock' \in [Process -> Client \cup {Nobody}] /\ \A p \in Process : lock'[p] # Nobody => Home[lock'[p]] = p
    BY <1>0, <1>5 DEF BoxTypes, BoxInv, Fit
  <1>9. Gated'
    <2>1. thread'[Migration].pc = "idle"
      BY <1>0, <1>2 DEF Idle
    <2> QED
      BY <2>1 DEF Gated, At
  <1> QED
    BY <1>1, <1>4, <1>6, <1>7, <1>8, <1>9 DEF BoxInv, BoxTypes, Fit

LEMMA WorldKeeps == ASSUME BoxInv, Tick \/ Sicken PROVE BoxInv'
  <1>0. BoxTypes /\ Rest /\ UNCHANGED <<gen, deleting, gate, conn, lock, down, owed, thread>>
    BY DEF Tick, Sicken, BoxInv, BoxTypes
  <1>1. CASE Tick
    <2>1. seen' \in SeenType
      BY <1>0, <1>1, SandboxConstants DEF Tick, Rest, SeenType
    <2> QED
      BY <1>0, <1>1, <2>1, ThreadsKept DEF Tick, Rest
  <1>2. CASE Sicken
    <2>1. box' \in [gen : Generation, up : BOOLEAN] /\ Exists
      BY <1>0, <1>2, Values DEF Sicken, Rest
    <2>2. Rest'
      BY <1>0, <1>2, <2>1, SandboxConstants DEF Sicken, Rest, Fault
    <2> QED
      BY <1>0, <2>1, <2>2, ThreadsKept
  <1> QED
    BY <1>1, <1>2

LEMMA BoxStepKeeps == BoxInv /\ [Next]_vars => BoxInv'
  <1> SUFFICES ASSUME BoxInv, [Next]_vars PROVE BoxInv'
    OBVIOUS
  <1>1. CASE UNCHANGED vars
    <2>1. Rest' /\ UNCHANGED <<thread, lock, gate, box>>
      BY <1>1 DEF vars, BoxInv, BoxTypes, Rest
    <2> QED
      BY <2>1, ThreadsKept
  <1>2. ASSUME NEW t \in Client, Get(t) \/ Release(t) PROVE BoxInv'
    BY <1>2, GetKeeps, ReleaseKeeps
  <1>3. ASSUME NEW t \in Client,
               \/ Check(t) \/ EnterGate(t) \/ PinCreate(t) \/ Create(t)
               \/ Created(t) \/ Send(t) \/ Headers(t) \/ Broken(t)
               \/ Body(t) \/ Find(t) \/ Timeout(t)
        PROVE  BoxInv'
    BY <1>3, CheckKeeps, EnterKeeps, CreateKeeps, CreatedKeeps, ProxyKeeps, FindKeeps, TimeoutKeeps
  <1>4. ASSUME NEW p \in Process, Owe(p) \/ Shutdown(p) PROVE BoxInv'
    BY <1>4, OweKeeps, ShutdownKeeps
  <1>5. ASSUME NEW t \in Thread, Mark(t) \/ Drain(t) \/ Delete(t) \/ End(t) \/ Lost(t) PROVE BoxInv'
    BY <1>5, DeletionKeeps, BoxEndKeeps
  <1>6. CASE Collect \/ Recheck \/ CloseGate \/ AwaitCreates \/ List
    BY <1>6, ReaperKeeps, QuiesceKeeps
  <1> QED
    BY <1>1, <1>2, <1>3, <1>4, <1>5, <1>6, WorldKeeps, RestartKeeps DEF Next

LEMMA Inductive == Spec => []BoxInv
  BY Starts, BoxStepKeeps, PTL DEF Spec

\* The provisioner's records and the providers' connections keep their shape, and
\* whoever holds the scope lock of a process is a call of that process under way.
THEOREM SandboxTypes == Spec => []TypeOK
  BY Inductive, Shape, PTL

\* quiesce_sandboxes answers when nothing runs, and a create that had passed the
\* gate has been awaited: nothing is started behind its back until the
\* provisioner restarts.
THEOREM SandboxQuiesced == Spec => []QuiescedIsEmpty
  BY Inductive, Shape, PTL
=============================================================================
