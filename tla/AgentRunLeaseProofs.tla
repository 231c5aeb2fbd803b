------------------------- MODULE AgentRunLeaseProofs -------------------------
(***************************************************************************)
(* Proofs about AgentRunLease for every thread, subagent set, owner set and *)
(* lease duration.                                                         *)
(***************************************************************************)
EXTENDS AgentRunLease, TLAPS

\* Stopping a row keeps it a row, and only ever ends or asks it to cancel.
LEMMA StopRowOK ==
    ASSUME NEW row \in RunRow
    PROVE  /\ StopRow(row) \in RunRow
           /\ StopRow(row).status \in {"cancelled", "cancel_requested"}
           /\ StopRow(row).creator = row.creator
           /\ StopRow(row).birth = row.birth
           /\ StopRow(row).worker = row.worker
           /\ StopRow(row).started = row.started
           /\ StopRow(row).manifest = row.manifest
           /\ StopRow(row).cleanup = row.cleanup
           /\ ~NeverStarted(row) => /\ StopRow(row).status = "cancel_requested"
                                    /\ StopRow(row).lease = row.lease
  BY DEF StopRow, RunRow, NeverStarted, Status, LiveStatus, LeasedStatus,
         TerminalStatus, NoLease

\* Closing a tree keeps the table a table and touches only live rows.
LEMMA StopTreeOK ==
    ASSUME NEW R \in [Run -> RunRow], NEW S
    PROVE  /\ StopTree(R, S) \in [Run -> RunRow]
           /\ \A x \in Run : \/ StopTree(R, S)[x] = R[x]
                             \/ Live(R[x]) /\ StopTree(R, S)[x] = StopRow(R[x])
  BY StopRowOK DEF StopTree, Tree, LiveChildren

\* The two ways of ending attempts keep the attempt table a table.
LEMMA AttemptsOK ==
    ASSUME NEW A \in [Owner -> AttemptRow], NEW r, NEW o, NEW S,
           NEW outcome \in Outcome
    PROVE  /\ FinishAttempt(A, r, o, outcome) \in [Owner -> AttemptRow]
           /\ CloseAttempts(A, S, outcome) \in [Owner -> AttemptRow]
  BY DEF FinishAttempt, CloseAttempts, AttemptRow

LEMMA CloseTreesType ==
    ASSUME NEW R \in [Run -> RunRow], NEW A \in [Owner -> AttemptRow], NEW S,
           CloseTrees(R, A, S)
    PROVE  run' \in [Run -> RunRow] /\ attempt' \in [Owner -> AttemptRow]
  <1>1. "cancelled" \in Outcome
    BY DEF Outcome, TerminalStatus
  <1> QED
    BY <1>1, StopTreeOK, AttemptsOK DEF CloseTrees

LEMMA NewRowOK ==
    ASSUME NEW p \in Run \cup {NoRun}, NEW o \in Owner \cup {NoOwner}
    PROVE  NewRow(p, o) \in RunRow
  BY DEF NewRow, RunRow, Status, LiveStatus, NoLease

\* Rows an owner claims or gives up stay rows.
LEMMA ClaimedOK ==
    ASSUME NEW row \in RunRow, NEW o \in Owner
    PROVE  Claimed(row, o) \in RunRow
  <1>1. LeaseTicks \in 0..LeaseTicks
    BY ConstantsAssumption
  <1> QED
    BY <1>1 DEF Claimed, RunRow, Status, LiveStatus, LeasedStatus

LEMMA UnownedOK ==
    ASSUME NEW row \in RunRow, NEW s \in Status, NEW fence \in BOOLEAN
    PROVE  Unowned(row, s, fence) \in RunRow
  BY DEF Unowned, RunRow

\* A cancellation changes the status, and the fence of a run nobody started.
LEMMA CancelRowOK ==
    ASSUME NEW row \in RunRow, NEW fence \in BOOLEAN
    PROVE  LET new == CancelRow(row, fence) IN
           /\ new \in RunRow
           /\ new.worker = row.worker /\ new.started = row.started
           /\ new.lease = row.lease /\ new.creator = row.creator
           /\ new.birth = row.birth /\ new.manifest = row.manifest
           /\ \/ new = row
              \/ new.status = "cancel_requested" /\ ~Terminal(row) /\ new.cleanup = row.cleanup
              \/ new.status = "cancelled" /\ NeverStarted(row) /\ row.worker = NoOwner
  <1> DEFINE new == CancelRow(row, fence)
  <1>1. CASE Terminal(row)
    <2>1. new = row
      BY <1>1 DEF CancelRow
    <2> QED
      BY <2>1
  <1>2. CASE ~Terminal(row) /\ NeverStarted(row)
    <2>1. new = [row EXCEPT !.status = "cancelled", !.cleanup = fence]
      BY <1>2 DEF CancelRow
    <2> HIDE DEF new
    <2>2. new \in RunRow
      BY <2>1 DEF RunRow, Status, TerminalStatus
    <2>3. /\ new.worker = row.worker /\ new.started = row.started
          /\ new.lease = row.lease /\ new.creator = row.creator
          /\ new.birth = row.birth /\ new.manifest = row.manifest
          /\ new.status = "cancelled"
      BY <2>1 DEF RunRow
    <2>4. row.worker = NoOwner
      BY <1>2 DEF NeverStarted
    <2> QED
      BY <1>2, <2>2, <2>3, <2>4 DEF new
  <1>3. CASE ~Terminal(row) /\ ~NeverStarted(row)
    <2>1. new = [row EXCEPT !.status = "cancel_requested"]
      BY <1>3 DEF CancelRow
    <2> HIDE DEF new
    <2>2. new \in RunRow
      BY <2>1 DEF RunRow, Status, LiveStatus, LeasedStatus
    <2>3. /\ new.worker = row.worker /\ new.started = row.started
          /\ new.lease = row.lease /\ new.creator = row.creator
          /\ new.birth = row.birth /\ new.manifest = row.manifest
          /\ new.status = "cancel_requested" /\ new.cleanup = row.cleanup
      BY <2>1 DEF RunRow
    <2> QED
      BY <1>3, <2>2, <2>3 DEF new
  <1> QED
    BY <1>1, <1>2, <1>3

LEMMA CleanupBool == \A r : CleanupRequired(r) \in BOOLEAN
  BY DEF CleanupRequired

LEMMA InitType == Init => TypeOK
  <1> SUFFICES ASSUME Init PROVE TypeOK
    OBVIOUS
  <1>1. run \in [Run -> RunRow]
    <2>1. NewRow(NoRun, NoOwner) \in RunRow
      BY NewRowOK
    <2>2. [NewRow(NoRun, NoOwner) EXCEPT !.status = "absent"] \in RunRow
      BY <2>1 DEF RunRow, Status
    <2> QED
      BY <2>2 DEF Init
  <1>2. attempt \in [Owner -> AttemptRow]
    BY DEF Init, AttemptRow, Outcome
  <1> QED
    BY <1>1, <1>2 DEF Init, TypeOK

\* One step per kind of transaction.
LEMMA NextType == TypeOK /\ [Next]_vars => TypeOK'
  <1> SUFFICES ASSUME TypeOK, [Next]_vars PROVE TypeOK'
    OBVIOUS
  <1> USE DEF TypeOK
  <1>1. CASE Create
    <2>1. ASSUME NEW r \in Top, CreateChat(r) PROVE TypeOK'
      BY <2>1, NewRowOK DEF CreateChat, Run
    <2>2. ASSUME NEW r \in Top, NEW p \in Top, CreateResume(r, p) PROVE TypeOK'
      BY <2>2, NewRowOK DEF CreateResume, Run
    <2>3. ASSUME NEW c \in Sub, NEW p \in Top, CreateSub(c, p) PROVE TypeOK'
      <3>1. run[p].worker \in Owner \cup {NoOwner}
        BY DEF RunRow, Run
      <3> QED
        BY <2>3, <3>1, NewRowOK DEF CreateSub, Run
    <2> QED
      BY <1>1, <2>1, <2>2, <2>3 DEF Create
  <1>2. ASSUME NEW r \in Run, NEW o \in Owner, OwnerStep(r, o) PROVE TypeOK'
    <2>1. CASE Claim(r, o)
      <3>1. "lease_expired" \in Outcome /\ "open" \in Outcome
        BY DEF Outcome
      <3>2. attempt' \in [Owner -> AttemptRow]
        BY <2>1, <3>1, AttemptsOK DEF Claim, AttemptRow
      <3>3. run' \in [Run -> RunRow]
        BY <2>1, ClaimedOK DEF Claim
      <3> QED
        BY <2>1, <3>2, <3>3 DEF Claim
    <2>2. CASE Renew(r, o)
      <3>1. LeaseTicks \in 0..LeaseTicks
        BY ConstantsAssumption
      <3> QED
        BY <2>2, <3>1 DEF Renew, RunRow
    <2>3. ASSUME NEW m \in {"light", "workspace"}, RecordManifest(r, o, m) PROVE TypeOK'
      BY <2>3 DEF RecordManifest, RunRow
    <2>4. CASE BindOutput(r, o)
      BY <2>4 DEF BindOutput, RunRow
    <2>5. ASSUME NEW s \in TerminalStatus, NEW out \in Owner \cup {NoOwner},
                 Publish(r, o, s, out)
          PROVE  TypeOK'
      <3> DEFINE R == [run EXCEPT ![r] =
                     [Unowned(run[r], s, CleanupRequired(r)) EXCEPT !.output = out]]
      <3>1. R \in [Run -> RunRow]
        <4>1. Unowned(run[r], s, CleanupRequired(r)) \in RunRow
          BY UnownedOK, CleanupBool DEF Status
        <4> QED
          BY <4>1 DEF RunRow
      <3>2. FinishAttempt(attempt, r, o, s) \in [Owner -> AttemptRow]
        BY AttemptsOK DEF Outcome
      <3>3. run' \in [Run -> RunRow] /\ attempt' \in [Owner -> AttemptRow]
        BY <2>5, <3>1, <3>2, CloseTreesType DEF Publish
      <3> QED
        BY <2>5, <3>3 DEF Publish
    <2>6. CASE ReleaseForRetry(r, o)
      <3> DEFINE R == [run EXCEPT ![r] = Unowned(run[r], "pending", CleanupRequired(r))]
      <3>1. R \in [Run -> RunRow]
        BY UnownedOK, CleanupBool DEF Status, LiveStatus
      <3>2. FinishAttempt(attempt, r, o, "retry_released") \in [Owner -> AttemptRow]
        BY AttemptsOK DEF Outcome
      <3>3. run' \in [Run -> RunRow] /\ attempt' \in [Owner -> AttemptRow]
        BY <2>6, <3>1, <3>2, CloseTreesType DEF ReleaseForRetry
      <3> QED
        BY <2>6, <3>3 DEF ReleaseForRetry
    <2>7. run[r].output \in Owner \cup {NoOwner}
      BY DEF RunRow
    <2> QED
      BY <1>2, <2>1, <2>2, <2>3, <2>4, <2>5, <2>6, <2>7
         DEF OwnerStep, CommitOutput, MarkTerminal, TerminalStatus
  <1>3. ASSUME NEW r \in Run, NEW cascade \in BOOLEAN, RequestCancel(r, cascade)
        PROVE  TypeOK'
    <2> DEFINE R == [run EXCEPT ![r] = CancelRow(run[r], CleanupRequired(r))]
    <2>1. R \in [Run -> RunRow]
      BY CancelRowOK, CleanupBool
    <2>2. CloseTrees(R, attempt, IF cascade THEN {r} ELSE {})
      BY <1>3 DEF RequestCancel
    <2>3. run' \in [Run -> RunRow] /\ attempt' \in [Owner -> AttemptRow]
      BY <2>1, <2>2, CloseTreesType
    <2> QED
      BY <1>3, <2>3 DEF RequestCancel
  <1>4. ASSUME NEW S \in SUBSET Run, Reconcile(S) PROVE TypeOK'
    <2> DEFINE R == [r \in Run |->
                     IF r \in S THEN Unowned(run[r], "failed", CleanupRequired(r))
                     ELSE run[r]]
    <2>1. R \in [Run -> RunRow]
      BY UnownedOK, CleanupBool DEF Status, TerminalStatus
    <2>2. CloseAttempts(attempt, S, "lease_expired") \in [Owner -> AttemptRow]
      BY AttemptsOK DEF Outcome
    <2>3. run' \in [Run -> RunRow] /\ attempt' \in [Owner -> AttemptRow]
      BY <1>4, <2>1, <2>2, CloseTreesType DEF Reconcile
    <2> QED
      BY <1>4, <2>3 DEF Reconcile
  <1>5. ASSUME NEW r \in Run, FinishTreeChildren(r) PROVE TypeOK'
    BY <1>5, CloseTreesType DEF FinishTreeChildren
  <1>6. ASSUME NEW r \in Run, ReleaseRuntime(r) PROVE TypeOK'
    <2>1. [run[r] EXCEPT !.cleanup = FALSE] \in RunRow
      BY DEF RunRow
    <2>2. run' = [run EXCEPT ![r] = [run[r] EXCEPT !.cleanup = FALSE]]
      BY <1>6 DEF ReleaseRuntime
    <2> QED
      BY <1>6, <2>1, <2>2 DEF ReleaseRuntime
  <1>7. CASE Tick
    BY <1>7, ConstantsAssumption DEF Tick, RunRow, NoLease
  <1>8. CASE FailForMigration
    <2>1. attempt' \in [Owner -> AttemptRow]
      BY <1>8, AttemptsOK DEF FailForMigration, Outcome, TerminalStatus
    <2>2. run' \in [Run -> RunRow]
      BY <1>8, UnownedOK DEF FailForMigration, Status, TerminalStatus
    <2> QED
      BY <1>8, <2>1, <2>2 DEF FailForMigration
  <1>9. CASE UNCHANGED vars
    BY <1>9 DEF vars
  <1> QED
    BY <1>1, <1>2, <1>3, <1>4, <1>5, <1>6, <1>7, <1>8, <1>9 DEF Next

\* Whatever the workers, the reconciler and the users do, the tables of a
\* thread keep their shape.
THEOREM Types == Spec => []TypeOK
  BY InitType, NextType, PTL DEF Spec
-----------------------------------------------------------------------------
(* Ownership: the owner in the run row and the open attempt are one fact.   *)

\* OwnershipInv of any pair of tables, so that the tables a transaction has
\* written before it closes the execution tree can be spoken of.
Owned(R, A) ==
    /\ \A r \in Run : R[r].worker # NoOwner =>
         /\ R[r].status \in LeasedStatus
         /\ R[r].lease # NoLease /\ R[r].started
         /\ A[R[r].worker] = [run |-> r, outcome |-> "open"]
    /\ \A r \in Run : R[r].status = "running" => R[r].worker # NoOwner
    /\ \A o \in Owner : A[o].outcome = "open" =>
         A[o].run \in Run /\ R[A[o].run].worker = o

\* Closing a tree asks the owners below to stop and takes no ownership away:
\* only rows nobody ever claimed are ended, and those have no open attempt.
LEMMA OwnedThroughTree ==
    ASSUME NEW R \in [Run -> RunRow], NEW A \in [Owner -> AttemptRow], NEW S,
           Owned(R, A), CloseTrees(R, A, S)
    PROVE  Owned(run', attempt')
  <1>1. \A x \in Run : run'[x] = R[x] \/ (Live(R[x]) /\ run'[x] = StopRow(R[x]))
    BY StopTreeOK DEF CloseTrees
  <1>2. attempt' = A
    <2>1. ASSUME NEW o \in Owner,
                 A[o].run \in {x \in Tree(R, S) : NeverStarted(R[x])},
                 A[o].outcome = "open"
          PROVE  FALSE
      BY <2>1, ConstantsAssumption DEF Owned, NeverStarted
    <2> QED
      BY <2>1 DEF CloseTrees, CloseAttempts, AttemptRow
  <1>3. ASSUME NEW x \in Run, run'[x].worker # NoOwner
        PROVE  /\ run'[x].status \in LeasedStatus
               /\ run'[x].lease # NoLease /\ run'[x].started
               /\ A[run'[x].worker] = [run |-> x, outcome |-> "open"]
    <2>1. CASE run'[x] = R[x]
      BY <1>3, <2>1 DEF Owned
    <2>2. CASE run'[x] = StopRow(R[x])
      <3>1. R[x].worker = run'[x].worker /\ R[x].worker # NoOwner
        BY <1>3, <2>2, StopRowOK
      <3>2. ~NeverStarted(R[x])
        BY <3>1 DEF NeverStarted
      <3> QED
        BY <2>2, <3>1, <3>2, StopRowOK DEF Owned, LeasedStatus
    <2> QED
      BY <1>1, <2>1, <2>2
  <1>4. ASSUME NEW x \in Run, run'[x].status = "running"
        PROVE  run'[x].worker # NoOwner
    BY <1>1, <1>4, StopRowOK DEF Owned
  <1>5. \A x \in Run : run'[x].worker = R[x].worker
    BY <1>1, StopRowOK
  <1> QED
    BY <1>2, <1>3, <1>4, <1>5 DEF Owned

\* From tables R and A to R2 and A2 the runs in S are given up, and the open
\* attempts of exactly these runs are closed.
GivesUp(S, R, A, R2, A2) ==
    /\ \A x \in Run : x \in S => R2[x].worker = NoOwner /\ R2[x].status # "running"
    /\ \A x \in Run : x \notin S => R2[x] = R[x]
    /\ \A o \in Owner : A2[o] = A[o] \/ A2[o].outcome # "open"
    /\ \A o \in Owner : A[o].run \notin S => A2[o] = A[o]
    /\ \A o \in Owner : A[o].run \in S => A2[o].outcome # "open"

\* Runs given up together with their open attempts leave the rest owned.
LEMMA OwnedRelease ==
    ASSUME NEW R \in [Run -> RunRow], NEW A \in [Owner -> AttemptRow],
           NEW R2, NEW A2, NEW S, Owned(R, A), GivesUp(S, R, A, R2, A2)
    PROVE  Owned(R2, A2)
  <1> USE DEF GivesUp
  <1>1. ASSUME NEW x \in Run, R2[x].worker # NoOwner
        PROVE  x \notin S /\ R[x].worker \in Owner /\ A2[R[x].worker] = A[R[x].worker]
    <2>1. x \notin S /\ R2[x] = R[x]
      BY <1>1
    <2>2. R[x].worker \in Owner
      BY <1>1, <2>1 DEF RunRow
    <2>3. A[R[x].worker] = [run |-> x, outcome |-> "open"]
      BY <1>1, <2>1 DEF Owned
    <2> QED
      BY <2>1, <2>2, <2>3
  <1> QED
    BY <1>1 DEF Owned

\* So do changes that leave owner, lease and start alone, and at most ask an
\* owner to stop or end a run that has none.
LEMMA OwnedKept ==
    ASSUME NEW R \in [Run -> RunRow], NEW A, NEW R2, Owned(R, A),
           \A x \in Run :
              /\ R2[x].worker = R[x].worker
              /\ R2[x].started = R[x].started
              /\ R[x].lease # NoLease => R2[x].lease # NoLease
              /\ \/ R2[x].status = R[x].status
                 \/ R2[x].status = "cancel_requested"
                 \/ R[x].worker = NoOwner /\ R2[x].status # "running"
    PROVE  Owned(R2, A)
  BY DEF Owned, LeasedStatus

LEMMA NextOwned == TypeOK /\ OwnershipInv /\ [Next]_vars => OwnershipInv'
  <1> SUFFICES ASSUME TypeOK, Owned(run, attempt), [Next]_vars
               PROVE  Owned(run', attempt')
    BY DEF OwnershipInv, Owned
  <1>0. run \in [Run -> RunRow] /\ attempt \in [Owner -> AttemptRow]
    BY DEF TypeOK
  <1>1. ASSUME NEW r \in Run, NEW p \in Run \cup {NoRun}, NEW o \in Owner \cup {NoOwner},
               run[r].status = "absent", run' = [run EXCEPT ![r] = NewRow(p, o)],
               attempt' = attempt
        PROVE  Owned(run', attempt')
    <2>1. run[r].worker = NoOwner
      BY <1>1 DEF Owned, LeasedStatus
    <2>2. \A q \in Owner : attempt[q].run = r => attempt[q].outcome # "open"
      BY <2>1, ConstantsAssumption DEF Owned
    <2>3. run'[r].worker = NoOwner /\ run'[r].status # "running"
      BY <1>0, <1>1 DEF NewRow
    <2>4. GivesUp({r}, run, attempt, run', attempt')
      BY <1>0, <1>1, <2>2, <2>3 DEF GivesUp
    <2> QED
      BY <1>0, <2>4, OwnedRelease
  <1>2. CASE Create
    <2>1. \A p \in Top : run[p].worker \in Owner \cup {NoOwner}
      BY <1>0 DEF RunRow, Run
    <2> QED
      BY <1>1, <1>2, <2>1 DEF Create, CreateChat, CreateResume, CreateSub, Run
  <1>3. ASSUME NEW r \in Run, NEW o \in Owner, OwnerStep(r, o)
        PROVE  Owned(run', attempt')
    <2>1. CASE Claim(r, o)
      <3>1. run[r].worker = NoOwner
        BY <2>1 DEF Claim, Owned, LeasedStatus
      <3>2. \A q \in Owner : attempt[q].run = r => attempt[q].outcome # "open"
        BY <3>1, ConstantsAssumption DEF Owned
      <3>3. run'[r] = Claimed(run[r], o) /\ \A x \in Run \ {r} : run'[x] = run[x]
        BY <1>0, <2>1 DEF Claim
      <3>4. CloseAttempts(attempt, {r}, "lease_expired") = attempt
        BY <1>0, <3>2 DEF CloseAttempts
      <3>5. attempt' = [attempt EXCEPT ![o] = [run |-> r, outcome |-> "open"]]
        BY <2>1, <3>4 DEF Claim
      <3>6. attempt[o].outcome # "open"
        BY <2>1 DEF Claim
      <3>7. \A x \in Run : run[x].worker # o
        <4>1. SUFFICES ASSUME NEW x \in Run, run[x].worker = o PROVE FALSE
          OBVIOUS
        <4>2. run[x].worker # NoOwner
          BY <4>1, ConstantsAssumption
        <4>3. attempt[run[x].worker] = [run |-> x, outcome |-> "open"]
          BY <4>2 DEF Owned
        <4> QED
          BY <3>6, <4>1, <4>3
      <3>8. /\ run'[r].status \in LeasedStatus /\ run'[r].worker = o
            /\ run'[r].lease # NoLease /\ run'[r].started
        BY <1>0, <2>1, <3>3, ConstantsAssumption DEF Claim, Claimed, RunRow, NoLease, LeasedStatus
      <3>9. attempt'[o] = [run |-> r, outcome |-> "open"]
            /\ \A q \in Owner \ {o} : attempt'[q] = attempt[q]
        BY <1>0, <3>5
      <3>10. \A x \in Run \ {r} : run[x].worker # NoOwner =>
               run[x].worker \in Owner \ {o}
        BY <1>0, <3>7 DEF RunRow
      <3>11. \A q \in Owner \ {o} : attempt[q].outcome = "open" => attempt[q].run # r
        BY <3>2
      <3>12. o # NoOwner
        BY ConstantsAssumption
      <3>13. ASSUME NEW x \in Run, run'[x].worker # NoOwner
             PROVE  /\ run'[x].status \in LeasedStatus
                    /\ run'[x].lease # NoLease /\ run'[x].started
                    /\ attempt'[run'[x].worker] = [run |-> x, outcome |-> "open"]
        BY <3>3, <3>8, <3>9, <3>10, <3>13 DEF Owned
      <3>14. ASSUME NEW x \in Run, run'[x].status = "running"
             PROVE  run'[x].worker # NoOwner
        BY <3>3, <3>8, <3>12, <3>14 DEF Owned
      <3>15. ASSUME NEW q \in Owner, attempt'[q].outcome = "open"
             PROVE  attempt'[q].run \in Run /\ run'[attempt'[q].run].worker = q
        BY <3>3, <3>8, <3>9, <3>11, <3>15 DEF Owned
      <3> QED
        BY <3>13, <3>14, <3>15 DEF Owned
    <2>2. CASE Renew(r, o)
      <3>1. LeaseTicks # NoLease
        BY ConstantsAssumption DEF NoLease
      <3>2. \A x \in Run : /\ run'[x].worker = run[x].worker
                           /\ run'[x].started = run[x].started
                           /\ run'[x].status = run[x].status
                           /\ run[x].lease # NoLease => run'[x].lease # NoLease
        BY <1>0, <2>2, <3>1 DEF Renew, RunRow
      <3> QED
        BY <1>0, <2>2, <3>2, OwnedKept DEF Renew
    <2>3. ASSUME NEW m \in {"light", "workspace"}, RecordManifest(r, o, m)
          PROVE  Owned(run', attempt')
      <3>1. \A x \in Run : /\ run'[x].worker = run[x].worker
                           /\ run'[x].started = run[x].started
                           /\ run'[x].status = run[x].status
                           /\ run'[x].lease = run[x].lease
        BY <1>0, <2>3 DEF RecordManifest, RunRow
      <3> QED
        BY <1>0, <2>3, <3>1, OwnedKept DEF RecordManifest
    <2>4. CASE BindOutput(r, o)
      <3>1. \A x \in Run : /\ run'[x].worker = run[x].worker
                           /\ run'[x].started = run[x].started
                           /\ run'[x].status = run[x].status
                           /\ run'[x].lease = run[x].lease
        BY <1>0, <2>4 DEF BindOutput, RunRow
      <3> QED
        BY <1>0, <2>4, <3>1, OwnedKept DEF BindOutput
    \* An owner that lets go closes its attempt in the same transaction.
    <2>5. ASSUME NEW R \in [Run -> RunRow], NEW s \in Outcome \ {"open"},
                 run[r].worker = o,
                 R[r].worker = NoOwner, R[r].status # "running",
                 \A x \in Run \ {r} : R[x] = run[x],
                 CloseTrees(R, FinishAttempt(attempt, r, o, s), {r})
          PROVE  Owned(run', attempt')
      <3> DEFINE A == FinishAttempt(attempt, r, o, s)
      <3>1. A \in [Owner -> AttemptRow]
        BY <1>0, AttemptsOK
      <3>2. \A q \in Owner : A[q] = attempt[q] \/ A[q].outcome # "open"
        BY <1>0 DEF FinishAttempt, AttemptRow
      <3>3. \A q \in Owner : attempt[q].run # r => A[q] = attempt[q]
        BY DEF FinishAttempt
      <3>4. \A q \in Owner : attempt[q].run = r => A[q].outcome # "open"
        BY <1>0, <2>5 DEF FinishAttempt, AttemptRow, Owned
      <3>0. CloseTrees(R, A, {r})
        BY <2>5
      <3> HIDE DEF A
      <3>5. GivesUp({r}, run, attempt, R, A)
        BY <2>5, <3>2, <3>3, <3>4 DEF GivesUp
      <3>6. Owned(R, A)
        BY <1>0, <3>5, OwnedRelease
      <3> QED
        BY <3>0, <3>1, <3>6, OwnedThroughTree
    <2>6. ASSUME NEW s \in TerminalStatus, NEW out \in Owner \cup {NoOwner},
                 Publish(r, o, s, out)
          PROVE  Owned(run', attempt')
      <3> DEFINE row == [Unowned(run[r], s, CleanupRequired(r)) EXCEPT !.output = out]
                 R == [run EXCEPT ![r] = row]
      <3>1. row \in RunRow /\ row.worker = NoOwner /\ row.status = s
        <4>1. Unowned(run[r], s, CleanupRequired(r)) \in RunRow
          BY <1>0, UnownedOK, CleanupBool DEF Status
        <4> QED
          BY <1>0, <4>1 DEF RunRow, Unowned
      <3>2. R \in [Run -> RunRow] /\ R[r] = row /\ \A x \in Run \ {r} : R[x] = run[x]
        BY <1>0, <3>1
      <3>3. s \in Outcome \ {"open"} /\ s # "running"
        BY DEF Outcome, TerminalStatus
      <3>4. run[r].worker = o /\ CloseTrees(R, FinishAttempt(attempt, r, o, s), {r})
        BY <2>6 DEF Publish, Holds
      <3> HIDE DEF row, R
      <3> QED
        BY <2>5, <3>1, <3>2, <3>3, <3>4
    <2>7. CASE ReleaseForRetry(r, o)
      <3> DEFINE row == Unowned(run[r], "pending", CleanupRequired(r))
                 R == [run EXCEPT ![r] = row]
      <3>1. row \in RunRow /\ row.worker = NoOwner /\ row.status = "pending"
        <4>1. row \in RunRow
          BY <1>0, UnownedOK, CleanupBool DEF Status, LiveStatus
        <4> QED
          BY <1>0, <4>1 DEF RunRow, Unowned
      <3>2. R \in [Run -> RunRow] /\ R[r] = row /\ \A x \in Run \ {r} : R[x] = run[x]
        BY <1>0, <3>1
      <3>3. /\ run[r].worker = o
            /\ CloseTrees(R, FinishAttempt(attempt, r, o, "retry_released"), {r})
        BY <2>7 DEF ReleaseForRetry, Holds
      <3>4. "retry_released" \in Outcome \ {"open"}
        BY DEF Outcome
      <3> HIDE DEF row, R
      <3> QED
        BY <2>5, <3>1, <3>2, <3>3, <3>4
    <2>8. run[r].output \in Owner \cup {NoOwner}
      BY <1>0 DEF RunRow
    <2> QED
      BY <1>3, <2>1, <2>2, <2>3, <2>4, <2>6, <2>7, <2>8
         DEF OwnerStep, CommitOutput, MarkTerminal, TerminalStatus
  <1>4. ASSUME NEW r \in Run, NEW cascade \in BOOLEAN, RequestCancel(r, cascade)
        PROVE  Owned(run', attempt')
    <2> DEFINE row == CancelRow(run[r], CleanupRequired(r))
               R == [run EXCEPT ![r] = row]
    <2>1. /\ row \in RunRow
          /\ row.worker = run[r].worker /\ row.started = run[r].started
          /\ row.lease = run[r].lease
          /\ \/ row.status = run[r].status
             \/ row.status = "cancel_requested"
             \/ run[r].worker = NoOwner /\ row.status # "running"
      BY <1>0, CancelRowOK, CleanupBool
    <2>2. CloseTrees(R, attempt, IF cascade THEN {r} ELSE {})
      BY <1>4 DEF RequestCancel
    <2> HIDE DEF row
    <2>3. R \in [Run -> RunRow] /\ R[r] = row /\ \A x \in Run \ {r} : R[x] = run[x]
      BY <1>0, <2>1
    <2> HIDE DEF R
    <2>4. \A x \in Run : /\ R[x].worker = run[x].worker
                         /\ R[x].started = run[x].started
                         /\ R[x].lease = run[x].lease
                         /\ \/ R[x].status = run[x].status
                            \/ R[x].status = "cancel_requested"
                            \/ run[x].worker = NoOwner /\ R[x].status # "running"
      BY <2>1, <2>3
    <2>5. Owned(R, attempt)
      BY <1>0, <2>4, OwnedKept
    <2> QED
      BY <1>0, <2>2, <2>3, <2>5, OwnedThroughTree
  <1>5. ASSUME NEW S \in SUBSET Run, Reconcile(S) PROVE Owned(run', attempt')
    <2> DEFINE R == [r \in Run |->
                     IF r \in S THEN Unowned(run[r], "failed", CleanupRequired(r))
                     ELSE run[r]]
               A == CloseAttempts(attempt, S, "lease_expired")
    <2>1. R \in [Run -> RunRow]
      BY <1>0, UnownedOK, CleanupBool DEF Status, TerminalStatus
    <2>2. A \in [Owner -> AttemptRow]
      BY <1>0, AttemptsOK DEF Outcome
    <2>3. \A x \in S : R[x].worker = NoOwner /\ R[x].status # "running"
      BY <1>0 DEF Unowned, RunRow
    <2>4. \A x \in Run \ S : R[x] = run[x]
      OBVIOUS
    <2>5. /\ \A q \in Owner : A[q] = attempt[q] \/ A[q].outcome # "open"
          /\ \A q \in Owner : attempt[q].run \notin S => A[q] = attempt[q]
          /\ \A q \in Owner : attempt[q].run \in S => A[q].outcome # "open"
      BY <1>0 DEF CloseAttempts, AttemptRow
    <2>6. CloseTrees(R, A, S)
      BY <1>5 DEF Reconcile
    <2> HIDE DEF R, A
    <2>7. GivesUp(S, run, attempt, R, A)
      BY <2>3, <2>4, <2>5 DEF GivesUp
    <2>8. Owned(R, A)
      BY <1>0, <2>7, OwnedRelease
    <2> QED
      BY <2>1, <2>2, <2>6, <2>8, OwnedThroughTree
  <1>6. ASSUME NEW r \in Run, FinishTreeChildren(r) PROVE Owned(run', attempt')
    BY <1>0, <1>6, OwnedThroughTree DEF FinishTreeChildren
  <1>7. ASSUME NEW r \in Run, ReleaseRuntime(r) PROVE Owned(run', attempt')
    <2>1. run' = [run EXCEPT ![r] = [run[r] EXCEPT !.cleanup = FALSE]]
      BY <1>7 DEF ReleaseRuntime
    <2>2. \A x \in Run : /\ run'[x].worker = run[x].worker
                         /\ run'[x].started = run[x].started
                         /\ run'[x].status = run[x].status
                         /\ run'[x].lease = run[x].lease
      BY <1>0, <2>1 DEF RunRow
    <2> QED
      BY <1>0, <1>7, <2>2, OwnedKept DEF ReleaseRuntime
  <1>8. CASE Tick
    <2>1. \A x \in Run : /\ run'[x].worker = run[x].worker
                         /\ run'[x].started = run[x].started
                         /\ run'[x].status = run[x].status
                         /\ run[x].lease # NoLease => run'[x].lease # NoLease
      BY <1>0, <1>8, ConstantsAssumption DEF Tick, RunRow, NoLease
    <2> QED
      BY <1>0, <1>8, <2>1, OwnedKept DEF Tick
  <1>9. CASE FailForMigration
    <2> DEFINE S == {r \in Run : Live(run[r])}
    <2>1. \A x \in S : run'[x].worker = NoOwner /\ run'[x].status # "running"
      BY <1>0, <1>9 DEF FailForMigration, Unowned, RunRow
    <2>2. \A x \in Run \ S : run'[x] = run[x]
      BY <1>9 DEF FailForMigration
    <2>3. attempt' = CloseAttempts(attempt, S, "failed")
      BY <1>9 DEF FailForMigration
    <2> HIDE DEF S
    <2>4. /\ \A q \in Owner : attempt'[q] = attempt[q] \/ attempt'[q].outcome # "open"
          /\ \A q \in Owner : attempt[q].run \notin S => attempt'[q] = attempt[q]
          /\ \A q \in Owner : attempt[q].run \in S => attempt'[q].outcome # "open"
      BY <1>0, <2>3 DEF CloseAttempts, AttemptRow
    <2>5. GivesUp(S, run, attempt, run', attempt')
      BY <2>1, <2>2, <2>4 DEF GivesUp
    <2> QED
      BY <1>0, <2>5, OwnedRelease
  <1>10. CASE UNCHANGED vars
    BY <1>10 DEF vars, Owned
  <1> QED
    BY <1>2, <1>3, <1>4, <1>5, <1>6, <1>7, <1>8, <1>9, <1>10 DEF Next

LEMMA InitOwned == Init => OwnershipInv
  BY ConstantsAssumption DEF Init, NewRow, OwnershipInv

\* The owner in a run row and the open attempt of that run always name each
\* other, for any number of runs, owners and interleavings of transactions.
THEOREM Ownership == Spec => []OwnershipInv
  <1>1. Init => TypeOK /\ OwnershipInv
    BY InitType, InitOwned
  <1>2. TypeOK /\ OwnershipInv /\ [Next]_vars => (TypeOK /\ OwnershipInv)'
    BY NextType, NextOwned
  <1> QED
    BY <1>1, <1>2, PTL DEF Spec
-----------------------------------------------------------------------------
(* The thread fence: only a creation makes a run active.                   *)

\* No other transaction wakes a run that is over.
NothingWakes == \A x \in Run : Active(run'[x]) => Active(run[x])

LEMMA TreeWakesNothing ==
    ASSUME NEW R \in [Run -> RunRow], NEW A, NEW S, CloseTrees(R, A, S),
           \A x \in Run : Active(R[x]) => Active(run[x])
    PROVE  NothingWakes
  <1>1. \A x \in Run : run'[x] = R[x] \/ Live(R[x])
    BY StopTreeOK DEF CloseTrees
  <1> QED
    BY <1>1 DEF NothingWakes, Active

LEMMA OwnerStepWakesNothing ==
    ASSUME TypeOK, NEW r \in Run, NEW o \in Owner, OwnerStep(r, o)
    PROVE  NothingWakes
  <1>0. run \in [Run -> RunRow]
    BY DEF TypeOK
  <1>1. ASSUME NEW row, run' = [run EXCEPT ![r] = row], Live(run[r])
        PROVE  NothingWakes
    BY <1>0, <1>1 DEF NothingWakes, Active
  <1>2. CASE Claim(r, o)
    BY <1>1, <1>2 DEF Claim, Live, LiveStatus, LeasedStatus
  <1>3. CASE Renew(r, o)
    BY <1>1, <1>3 DEF Renew, Live, LiveStatus
  <1>4. ASSUME NEW m \in {"light", "workspace"}, RecordManifest(r, o, m)
        PROVE  NothingWakes
    BY <1>1, <1>4 DEF RecordManifest, Live, LiveStatus, LeasedStatus
  <1>5. CASE BindOutput(r, o)
    BY <1>1, <1>5 DEF BindOutput, Live, LiveStatus, LeasedStatus
  <1>6. ASSUME NEW row \in RunRow, NEW A, Live(run[r]),
               CloseTrees([run EXCEPT ![r] = row], A, {r})
        PROVE  NothingWakes
    <2> DEFINE R == [run EXCEPT ![r] = row]
    <2>1. R \in [Run -> RunRow] /\ \A x \in Run : Active(R[x]) => Active(run[x])
      BY <1>0, <1>6 DEF Active
    <2> QED
      BY <1>6, <2>1, TreeWakesNothing
  <1>7. ASSUME NEW s \in TerminalStatus, NEW out \in Owner \cup {NoOwner},
               Publish(r, o, s, out)
        PROVE  NothingWakes
    <2>1. Unowned(run[r], s, CleanupRequired(r)) \in RunRow
      BY <1>0, UnownedOK, CleanupBool DEF Status
    <2>2. [Unowned(run[r], s, CleanupRequired(r)) EXCEPT !.output = out] \in RunRow
      BY <2>1 DEF RunRow
    <2> QED
      BY <1>6, <1>7, <2>2 DEF Publish, Live, LiveStatus
  <1>8. CASE ReleaseForRetry(r, o)
    <2>1. Unowned(run[r], "pending", CleanupRequired(r)) \in RunRow
      BY <1>0, UnownedOK, CleanupBool DEF Status, LiveStatus
    <2> QED
      BY <1>6, <1>8, <2>1 DEF ReleaseForRetry, Live, LiveStatus, LeasedStatus
  <1>9. run[r].output \in Owner \cup {NoOwner}
    BY <1>0 DEF RunRow
  <1> QED
    BY <1>2, <1>3, <1>4, <1>5, <1>7, <1>8, <1>9
       DEF OwnerStep, CommitOutput, MarkTerminal, TerminalStatus

LEMMA NextWakesNothing ==
    ASSUME TypeOK, [Next]_vars, ~Create PROVE NothingWakes
  <1>0. run \in [Run -> RunRow]
    BY DEF TypeOK
  <1>1. ASSUME NEW r \in Run, NEW cascade \in BOOLEAN, RequestCancel(r, cascade)
        PROVE  NothingWakes
    <2> DEFINE R == [run EXCEPT ![r] = CancelRow(run[r], CleanupRequired(r))]
    <2>1. R \in [Run -> RunRow]
      BY <1>0, CancelRowOK, CleanupBool
    <2>2. \A x \in Run : Active(R[x]) => Active(run[x])
      <3>1. Live(run[r]) \/ CancelRow(run[r], CleanupRequired(r)) = run[r]
        BY <1>0, <1>1 DEF RequestCancel, CancelRow, Live, Terminal, RunRow, Status
      <3> QED
        BY <1>0, <3>1 DEF Active
    <2>3. CloseTrees(R, attempt, IF cascade THEN {r} ELSE {})
      BY <1>1 DEF RequestCancel
    <2> QED
      BY <2>1, <2>2, <2>3, TreeWakesNothing
  <1>2. ASSUME NEW S \in SUBSET Run, Reconcile(S) PROVE NothingWakes
    <2> DEFINE R == [r \in Run |->
                     IF r \in S THEN Unowned(run[r], "failed", CleanupRequired(r))
                     ELSE run[r]]
    <2>1. R \in [Run -> RunRow]
      BY <1>0, UnownedOK, CleanupBool DEF Status, TerminalStatus
    <2>2. \A x \in Run : Active(R[x]) => Active(run[x])
      BY <1>2 DEF Reconcile, Lost, Active, Live, LiveStatus, LeasedStatus
    <2>3. CloseTrees(R, CloseAttempts(attempt, S, "lease_expired"), S)
      BY <1>2 DEF Reconcile
    <2> QED
      BY <2>1, <2>2, <2>3, TreeWakesNothing
  <1>3. ASSUME NEW r \in Run, FinishTreeChildren(r) PROVE NothingWakes
    BY <1>0, <1>3, TreeWakesNothing DEF FinishTreeChildren
  <1>4. ASSUME NEW r \in Run, ReleaseRuntime(r) PROVE NothingWakes
    <2>1. run' = [run EXCEPT ![r] = [run[r] EXCEPT !.cleanup = FALSE]]
      BY <1>4 DEF ReleaseRuntime
    <2> QED
      BY <1>0, <1>4, <2>1 DEF NothingWakes, Active, ReleaseRuntime
  <1>5. CASE Tick
    BY <1>0, <1>5 DEF Tick, NothingWakes, Active, Live, RunRow
  <1>6. CASE FailForMigration
    BY <1>6 DEF FailForMigration, NothingWakes, Active
  <1>7. CASE UNCHANGED vars
    BY <1>7 DEF vars, NothingWakes
  <1> QED
    BY <1>1, <1>2, <1>3, <1>4, <1>5, <1>6, <1>7, OwnerStepWakesNothing DEF Next

LEMMA NextFence == TypeOK /\ ThreadFence /\ [Next]_vars => ThreadFence'
  <1> SUFFICES ASSUME TypeOK, ThreadFence, [Next]_vars PROVE ThreadFence'
    OBVIOUS
  <1>0. run \in [Run -> RunRow]
    BY DEF TypeOK
  <1>1. CASE ~Create
    BY <1>1, NextWakesNothing DEF NothingWakes, ThreadFence, Run
  <1>2. ASSUME NEW r \in Top, CreateChat(r) \/ \E p \in Top : CreateResume(r, p)
        PROVE  ThreadFence'
    <2>1. \A x \in Top : ~Active(run[x])
      BY <1>2 DEF CreateChat, CreateResume, Run
    <2>2. \A x \in Top \ {r} : run'[x] = run[x]
      BY <1>0, <1>2 DEF CreateChat, CreateResume, Run
    <2> QED
      BY <2>1, <2>2 DEF ThreadFence
  <1>3. ASSUME NEW c \in Sub, NEW p \in Top, CreateSub(c, p) PROVE ThreadFence'
    <2>1. \A x \in Top : run'[x] = run[x]
      BY <1>0, <1>3, ConstantsAssumption DEF CreateSub, Run
    <2> QED
      BY <2>1 DEF ThreadFence
  <1> QED
    BY <1>1, <1>2, <1>3 DEF Create

LEMMA InitFence == Init => ThreadFence
  BY DEF Init, ThreadFence, Active, Live, NewRow, LiveStatus, LeasedStatus, Run

\* For any number of runs, owners and subagents: a thread never has two
\* top-level runs that are live or still owe their runtime's cleanup.
THEOREM Fence == Spec => []ThreadFence
  <1>1. Init => TypeOK /\ ThreadFence
    BY InitType, InitFence
  <1>2. TypeOK /\ ThreadFence /\ [Next]_vars => (TypeOK /\ ThreadFence)'
    BY NextType, NextFence
  <1> QED
    BY <1>1, <1>2, PTL DEF Spec
-----------------------------------------------------------------------------
(* Subagents and the attempt of their creator.  ChildFollowsAttempt is not  *)
(* inductive: ending a run raises its cleanup fence only when its manifest  *)
(* says workspace, and a run with live subagents must be known to have one. *)

\* The table R in the middle of a transaction that still has to close the
\* trees of S: subagents of these runs may not have been told to stop yet.
Following(R, S) ==
    /\ \A x \in Run : R[x].status = "absent" => R[x].manifest = "none"
    /\ \A c \in Sub : Live(R[c]) =>
         /\ R[c].creator \in Top
         /\ R[R[c].creator].manifest = "workspace"
         /\ \/ /\ R[R[c].creator].worker # NoOwner
               /\ R[R[c].creator].worker = R[c].birth
            \/ /\ R[R[c].creator].worker = NoOwner /\ R[R[c].creator].cleanup
               /\ R[c].status = "cancel_requested" \/ R[c].creator \in S

ChildInv == Following(run, {})

\* From R to R2 nobody is born, claimed or unfenced; the owners of the runs in
\* S may have let go, raising the fence of those with a workspace.
LetsGo(S, R, R2) ==
    \A x \in Run :
        /\ R2[x].creator = R[x].creator /\ R2[x].birth = R[x].birth
        /\ R2[x].manifest = R[x].manifest
        /\ R2[x].status = "absent" => R[x].status = "absent"
        /\ Live(R2[x]) => Live(R[x])
        /\ Live(R2[x]) /\ R[x].status = "cancel_requested" => R2[x].status = "cancel_requested"
        /\ \/ /\ R2[x].worker = R[x].worker
              /\ x \in Top /\ R[x].cleanup /\ R[x].manifest = "workspace" => R2[x].cleanup
           \/ /\ x \in S /\ R2[x].worker = NoOwner
              /\ x \in Top /\ R[x].manifest = "workspace" => R2[x].cleanup

LEMMA FollowingLetsGo ==
    ASSUME NEW R, NEW R2, NEW S, Following(R, {}), LetsGo(S, R, R2)
    PROVE  Following(R2, S)
  <1>1. \A x \in Run : R2[x].status = "absent" => R2[x].manifest = "none"
    BY DEF Following, LetsGo
  <1>2. ASSUME NEW c \in Sub, Live(R2[c])
        PROVE  /\ R2[c].creator \in Top
               /\ R2[R2[c].creator].manifest = "workspace"
               /\ \/ /\ R2[R2[c].creator].worker # NoOwner
                     /\ R2[R2[c].creator].worker = R2[c].birth
                  \/ /\ R2[R2[c].creator].worker = NoOwner /\ R2[R2[c].creator].cleanup
                     /\ R2[c].status = "cancel_requested" \/ R2[c].creator \in S
    <2> DEFINE p == R[c].creator
    <2>1. /\ Live(R[c]) /\ R2[c].creator = p /\ R2[c].birth = R[c].birth
          /\ R[c].status = "cancel_requested" => R2[c].status = "cancel_requested"
      BY <1>2 DEF LetsGo, Run
    <2>2. /\ p \in Top /\ R[p].manifest = "workspace"
          /\ \/ R[p].worker # NoOwner /\ R[p].worker = R[c].birth
             \/ R[p].worker = NoOwner /\ R[p].cleanup /\ R[c].status = "cancel_requested"
      BY <2>1 DEF Following
    <2>3. /\ R2[p].manifest = R[p].manifest
          /\ \/ /\ R2[p].worker = R[p].worker
                /\ R[p].cleanup /\ R[p].manifest = "workspace" => R2[p].cleanup
             \/ /\ p \in S /\ R2[p].worker = NoOwner
                /\ p \in Top /\ R[p].manifest = "workspace" => R2[p].cleanup
      BY <2>2 DEF LetsGo, Run
    <2> HIDE DEF p
    <2> QED
      BY <2>1, <2>2, <2>3
  <1> QED
    BY <1>1, <1>2 DEF Following

\* Closing the trees tells every subagent below to stop.
LEMMA FollowingThroughTree ==
    ASSUME NEW R \in [Run -> RunRow], NEW A, NEW S, Following(R, S), CloseTrees(R, A, S)
    PROVE  ChildInv'
  <1>0. run' = StopTree(R, S)
    BY DEF CloseTrees
  <1>1. \A x \in Run : run'[x] = R[x] \/ (Live(R[x]) /\ run'[x] = StopRow(R[x]))
    BY <1>0, StopTreeOK
  <1>2. \A x \in Run : /\ run'[x].creator = R[x].creator /\ run'[x].birth = R[x].birth
                       /\ run'[x].worker = R[x].worker
                       /\ run'[x].manifest = R[x].manifest
                       /\ run'[x].cleanup = R[x].cleanup
                       /\ run'[x].status = "absent" => R[x].status = "absent"
                       /\ Live(run'[x]) => Live(R[x])
                       /\ run'[x].status = R[x].status
                            \/ run'[x].status \in {"cancelled", "cancel_requested"}
    BY <1>1, StopRowOK
  <1>3. ASSUME NEW c \in Sub, Live(run'[c])
        PROVE  /\ run'[c].creator \in Top
               /\ run'[run'[c].creator].manifest = "workspace"
               /\ \/ /\ run'[run'[c].creator].worker # NoOwner
                     /\ run'[run'[c].creator].worker = run'[c].birth
                  \/ /\ run'[run'[c].creator].worker = NoOwner /\ run'[run'[c].creator].cleanup
                     /\ run'[c].status = "cancel_requested"
    <2> DEFINE p == R[c].creator
    <2>1. Live(R[c]) /\ run'[c].creator = p /\ run'[c].birth = R[c].birth
      BY <1>2, <1>3 DEF Run
    <2>2. /\ p \in Top /\ R[p].manifest = "workspace"
          /\ \/ R[p].worker # NoOwner /\ R[p].worker = R[c].birth
             \/ /\ R[p].worker = NoOwner /\ R[p].cleanup
                /\ R[c].status = "cancel_requested" \/ p \in S
      BY <2>1 DEF Following
    <2>3. /\ run'[p].worker = R[p].worker /\ run'[p].manifest = R[p].manifest
          /\ run'[p].cleanup = R[p].cleanup
      BY <1>2, <2>2 DEF Run
    <2>4. run'[c].status # "cancelled"
      BY <1>3 DEF Live, LiveStatus, LeasedStatus
    <2>5. ASSUME p \in S PROVE run'[c].status = "cancel_requested"
      <3>1. c \in Tree(R, S)
        BY <2>1, <2>2, <2>5 DEF Tree, LiveChildren, Run
      <3>2. run'[c] = StopRow(R[c]) /\ R[c] \in RunRow
        BY <1>0, <3>1 DEF StopTree, Run
      <3> QED
        BY <2>4, <3>2, StopRowOK
    <2>6. R[c].status = "cancel_requested" => run'[c].status = "cancel_requested"
      BY <1>2, <2>4 DEF Run
    <2> HIDE DEF p
    <2> QED
      BY <2>1, <2>2, <2>3, <2>5, <2>6
  <1>4. \A x \in Run : run'[x].status = "absent" => run'[x].manifest = "none"
    BY <1>2 DEF Following
  <1> QED
    BY <1>3, <1>4 DEF ChildInv, Following

\* A transaction that writes one row, or several, and then closes the trees.
LEMMA ChildThroughTree ==
    ASSUME NEW R \in [Run -> RunRow], NEW A, NEW S, ChildInv,
           LetsGo(S, run, R), CloseTrees(R, A, S)
    PROVE  ChildInv'
  BY FollowingLetsGo, FollowingThroughTree DEF ChildInv

\* A transaction that changes rows and closes nothing.
LEMMA ChildKept == ASSUME ChildInv, LetsGo({}, run, run') PROVE ChildInv'
  BY FollowingLetsGo DEF ChildInv

\* Creations: a new top-level run has no subagents yet, and a new subagent is
\* born under the attempt that runs its creator.
LEMMA CreateChild ==
    ASSUME TypeOK, OwnershipInv, ChildInv, Create PROVE ChildInv'
  <1>0. run \in [Run -> RunRow]
    BY DEF TypeOK
  <1>1. ASSUME NEW r \in Top, NEW p \in Top \cup {NoRun}, run[r].status = "absent",
               run' = [run EXCEPT ![r] = NewRow(p, NoOwner)]
        PROVE  ChildInv'
    <2>1. \A x \in Run \ {r} : run'[x] = run[x]
      BY <1>0, <1>1
    <2>2. run[r].manifest = "none"
      BY <1>1 DEF ChildInv, Following, Run
    <2>3. run'[r].manifest = "none"
      BY <1>0, <1>1 DEF NewRow, Run
    <2>4. \A c \in Sub : c # r /\ run'[c] = run[c]
      BY <1>1, <2>1, ConstantsAssumption DEF Run
    <2>5. ASSUME NEW c \in Sub, Live(run'[c])
          PROVE  /\ run[c].creator \in Top /\ run[c].creator # r
                 /\ run'[run[c].creator] = run[run[c].creator]
      <3>1. run[c].creator \in Top /\ run[run[c].creator].manifest = "workspace"
        BY <2>4, <2>5 DEF ChildInv, Following
      <3>2. run[c].creator # r
        BY <2>2, <3>1
      <3> QED
        BY <2>1, <3>1, <3>2 DEF Run
    <2>6. \A x \in Run : run'[x].status = "absent" => run'[x].manifest = "none"
      BY <2>1, <2>3 DEF ChildInv, Following
    <2> QED
      BY <2>4, <2>5, <2>6 DEF ChildInv, Following
  <1>2. ASSUME NEW d \in Sub, NEW p \in Top, CreateSub(d, p) PROVE ChildInv'
    <2>1. run'[d] = NewRow(p, run[p].worker) /\ \A x \in Run \ {d} : run'[x] = run[x]
      BY <1>0, <1>2 DEF CreateSub, Run
    <2>2. \A x \in Top : run'[x] = run[x]
      BY <1>2, <2>1, ConstantsAssumption DEF Run
    <2>3. run[p].worker # NoOwner /\ run[p].manifest = "workspace"
      BY <1>2 DEF CreateSub, OwnershipInv, Run
    <2>4. /\ run'[d].creator = p /\ run'[d].birth = run[p].worker
          /\ run'[d].manifest = "none"
      BY <2>1 DEF NewRow
    <2>5. ASSUME NEW c \in Sub, c # d, Live(run'[c])
          PROVE  /\ run'[c] = run[c] /\ run[c].creator \in Top
                 /\ run'[run[c].creator] = run[run[c].creator]
      <3>1. run'[c] = run[c]
        BY <2>1, <2>5 DEF Run
      <3> QED
        BY <2>2, <2>5, <3>1 DEF ChildInv, Following
    <2>6. \A x \in Run : run'[x].status = "absent" => run'[x].manifest = "none"
      BY <2>1, <2>4 DEF ChildInv, Following
    <2> QED
      BY <2>2, <2>3, <2>4, <2>5, <2>6 DEF ChildInv, Following
  <1> QED
    BY <1>1, <1>2, ConstantsAssumption DEF Create, CreateChat, CreateResume

LEMMA OwnerStepChild ==
    ASSUME TypeOK, OwnershipInv, ChildInv, NEW r \in Run, NEW o \in Owner, OwnerStep(r, o)
    PROVE  ChildInv'
  <1>0. run \in [Run -> RunRow]
    BY DEF TypeOK
  \* A claim waits for the fence, so the run it claims has no live subagent.
  <1>1. CASE Claim(r, o)
    <2>1. run[r].worker = NoOwner /\ ~run[r].cleanup /\ Live(run[r])
      BY <1>1 DEF Claim, OwnershipInv, Live, LiveStatus, LeasedStatus
    <2>2. run'[r] = Claimed(run[r], o) /\ \A x \in Run \ {r} : run'[x] = run[x]
      BY <1>0, <1>1 DEF Claim
    <2>3. \A c \in Sub : Live(run[c]) => run[c].creator # r
      BY <2>1 DEF ChildInv, Following
    <2>4. /\ run'[r].creator = run[r].creator /\ run'[r].birth = run[r].birth
          /\ run'[r].manifest = run[r].manifest
          /\ run'[r].status # "absent"
          /\ run[r].status = "cancel_requested" => run'[r].status = "cancel_requested"
      BY <1>0, <2>1, <2>2 DEF Claimed, RunRow, Live, LiveStatus, LeasedStatus
    <2>5. ASSUME NEW c \in Sub, Live(run'[c])
          PROVE  /\ Live(run[c])
                 /\ run'[c].creator = run[c].creator /\ run'[c].birth = run[c].birth
                 /\ run[c].status = "cancel_requested" => run'[c].status = "cancel_requested"
      BY <2>1, <2>2, <2>4, <2>5 DEF Run
    <2>6. ASSUME NEW c \in Sub, Live(run[c])
          PROVE  /\ run[c].creator \in Top
                 /\ run'[run[c].creator] = run[run[c].creator]
      BY <2>2, <2>3, <2>6 DEF ChildInv, Following, Run
    <2>7. \A x \in Run : run'[x].status = "absent" => run'[x].manifest = "none"
      BY <2>2, <2>4 DEF ChildInv, Following
    <2> QED
      BY <2>5, <2>6, <2>7 DEF ChildInv, Following
  <1>2. CASE Renew(r, o)
    <2>1. LetsGo({}, run, run')
      BY <1>0, <1>2 DEF Renew, LetsGo, RunRow, Live
    <2> QED
      BY <2>1, ChildKept
  <1>3. ASSUME NEW m \in {"light", "workspace"}, RecordManifest(r, o, m)
        PROVE  ChildInv'
    <2>1. run'[r] = [run[r] EXCEPT !.manifest = m] /\ \A x \in Run \ {r} : run'[x] = run[x]
      BY <1>0, <1>3 DEF RecordManifest
    <2>2. /\ run'[r].creator = run[r].creator /\ run'[r].birth = run[r].birth
          /\ run'[r].status = run[r].status /\ run[r].status = "running"
      BY <1>0, <1>3, <2>1 DEF RecordManifest, RunRow
    <2>3. ASSUME NEW c \in Sub, Live(run'[c])
          PROVE  /\ Live(run[c]) /\ run'[c].status = run[c].status
                 /\ run'[c].creator = run[c].creator /\ run'[c].birth = run[c].birth
      BY <2>1, <2>2, <2>3 DEF Run, Live
    <2>4. ASSUME NEW c \in Sub, Live(run[c])
          PROVE  run[c].creator \in Top /\ run'[run[c].creator] = run[run[c].creator]
      <3>1. run[c].creator \in Top /\ run[run[c].creator].manifest = "workspace"
        BY <2>4 DEF ChildInv, Following
      <3>2. run[c].creator # r
        BY <1>3, <3>1 DEF RecordManifest
      <3> QED
        BY <2>1, <3>1, <3>2 DEF Run
    <2>5. \A x \in Run : run'[x].status = "absent" => run'[x].manifest = "none"
      <3>1. run'[r].status # "absent"
        BY <2>2
      <3>2. \A x \in Run \ {r} : run[x].status = "absent" => run[x].manifest = "none"
        BY DEF ChildInv, Following
      <3>3. \A x \in Run \ {r} : run'[x] = run[x]
        BY <2>1
      <3> QED
        BY <3>1, <3>2, <3>3
    <2> QED
      BY <2>3, <2>4, <2>5 DEF ChildInv, Following
  <1>4. CASE BindOutput(r, o)
    <2>1. LetsGo({}, run, run')
      BY <1>0, <1>4 DEF BindOutput, LetsGo, RunRow, Live
    <2> QED
      BY <2>1, ChildKept
  <1>5. ASSUME NEW s \in Status \ {"absent"}, NEW out \in Owner \cup {NoOwner}, NEW A,
               Live(run[r]),
               ~(run[r].status = "cancel_requested" /\ s \in LiveStatus),
               CloseTrees([run EXCEPT ![r] =
                  [Unowned(run[r], s, CleanupRequired(r)) EXCEPT !.output = out]], A, {r})
        PROVE  ChildInv'
    <2> DEFINE row == [Unowned(run[r], s, CleanupRequired(r)) EXCEPT !.output = out]
               R == [run EXCEPT ![r] = row]
    <2>1. row \in RunRow
      <3>1. Unowned(run[r], s, CleanupRequired(r)) \in RunRow
        BY <1>0, UnownedOK, CleanupBool
      <3> QED
        BY <3>1 DEF RunRow
    <2>2. /\ row.creator = run[r].creator /\ row.birth = run[r].birth
          /\ row.manifest = run[r].manifest /\ row.status = s
          /\ row.worker = NoOwner /\ row.cleanup = CleanupRequired(r)
      BY <1>0 DEF Unowned, RunRow
    <2> HIDE DEF row
    <2>3. R \in [Run -> RunRow] /\ R[r] = row /\ \A x \in Run \ {r} : R[x] = run[x]
      BY <1>0, <2>1
    <2>4. CloseTrees(R, A, {r})
      BY <1>5 DEF row
    <2> HIDE DEF R
    <2>5. LetsGo({r}, run, R)
      BY <1>5, <2>2, <2>3 DEF LetsGo, Live, CleanupRequired
    <2> QED
      BY <2>3, <2>4, <2>5, ChildThroughTree
  <1>6. ASSUME NEW s \in TerminalStatus, NEW out \in Owner \cup {NoOwner},
               Publish(r, o, s, out)
        PROVE  ChildInv'
    <2>1. s \in Status \ {"absent"} /\ s \notin LiveStatus
      BY DEF Status, TerminalStatus, LiveStatus, LeasedStatus
    <2> QED
      BY <1>5, <1>6, <2>1 DEF Publish, Live, LiveStatus
  <1>7. CASE ReleaseForRetry(r, o)
    <2> DEFINE row == Unowned(run[r], "pending", CleanupRequired(r))
    <2>1. row = [row EXCEPT !.output = run[r].output]
      BY <1>0 DEF Unowned, RunRow
    <2>2. run[r].output \in Owner \cup {NoOwner} /\ "pending" \in Status \ {"absent"}
      BY <1>0 DEF RunRow, Status, LiveStatus
    <2>3. run[r].status = "running" /\ Live(run[r])
      BY <1>7 DEF ReleaseForRetry, Live, LiveStatus, LeasedStatus
    <2>4. CloseTrees([run EXCEPT ![r] = row], FinishAttempt(attempt, r, o, "retry_released"), {r})
      BY <1>7 DEF ReleaseForRetry
    <2>5. CloseTrees([run EXCEPT ![r] = [row EXCEPT !.output = run[r].output]],
                     FinishAttempt(attempt, r, o, "retry_released"), {r})
      BY <2>1, <2>4
    <2> QED
      BY <1>5, <2>2, <2>3, <2>5
  <1>8. run[r].output \in Owner \cup {NoOwner}
    BY <1>0 DEF RunRow
  <1> QED
    BY <1>1, <1>2, <1>3, <1>4, <1>6, <1>7, <1>8
       DEF OwnerStep, CommitOutput, MarkTerminal, TerminalStatus

LEMMA NextChild ==
    ASSUME TypeOK, OwnershipInv, ChildInv, [Next]_vars PROVE ChildInv'
  <1>0. run \in [Run -> RunRow]
    BY DEF TypeOK
  <1>1. ASSUME NEW r \in Run, NEW cascade \in BOOLEAN, RequestCancel(r, cascade)
        PROVE  ChildInv'
    <2> DEFINE row == CancelRow(run[r], CleanupRequired(r))
               R == [run EXCEPT ![r] = row]
    <2>1. /\ row \in RunRow
          /\ row.worker = run[r].worker /\ row.creator = run[r].creator
          /\ row.birth = run[r].birth /\ row.manifest = run[r].manifest
          /\ \/ row = run[r]
             \/ row.status = "cancel_requested" /\ Live(run[r])
                /\ row.cleanup = run[r].cleanup
             \/ row.status = "cancelled"
      <3>1. Terminal(run[r]) \/ Live(run[r])
        BY <1>0, <1>1 DEF RequestCancel, Terminal, Live, RunRow, Status
      <3> QED
        BY <1>0, <3>1, CancelRowOK, CleanupBool
    <2>2. row.status = "cancelled" => row = run[r] \/ row.cleanup = CleanupRequired(r)
      <3>1. row.status = "cancelled" /\ ~Terminal(run[r]) => NeverStarted(run[r])
        BY <1>0 DEF CancelRow, RunRow
      <3>2. Terminal(run[r]) => row = run[r]
        BY DEF CancelRow
      <3>3. ~Terminal(run[r]) /\ NeverStarted(run[r]) => row.cleanup = CleanupRequired(r)
        BY <1>0 DEF CancelRow, RunRow
      <3> QED
        BY <3>1, <3>2, <3>3
    <2>3. CloseTrees(R, attempt, IF cascade THEN {r} ELSE {})
      BY <1>1 DEF RequestCancel
    <2> HIDE DEF row
    <2>4. R \in [Run -> RunRow] /\ R[r] = row /\ \A x \in Run \ {r} : R[x] = run[x]
      BY <1>0, <2>1
    <2> HIDE DEF R
    <2>5. ASSUME NEW S PROVE LetsGo(S, run, R)
      <3>1. /\ row.status = "absent" => run[r].status = "absent"
            /\ Live(row) => Live(run[r])
            /\ Live(row) /\ run[r].status = "cancel_requested" => row.status = "cancel_requested"
        BY <2>1 DEF Live, LiveStatus, LeasedStatus
      <3>2. r \in Top /\ run[r].cleanup /\ run[r].manifest = "workspace" => row.cleanup
        BY <2>1, <2>2 DEF CleanupRequired
      <3> QED
        BY <2>1, <2>4, <3>1, <3>2 DEF LetsGo
    <2> QED
      BY <2>3, <2>4, <2>5, ChildThroughTree
  <1>2. ASSUME NEW S \in SUBSET Run, Reconcile(S) PROVE ChildInv'
    <2> DEFINE R == [r \in Run |->
                     IF r \in S THEN Unowned(run[r], "failed", CleanupRequired(r))
                     ELSE run[r]]
    <2>1. R \in [Run -> RunRow]
      BY <1>0, UnownedOK, CleanupBool DEF Status, TerminalStatus
    <2>2. ASSUME NEW x \in S
          PROVE  /\ R[x].creator = run[x].creator /\ R[x].birth = run[x].birth
                 /\ R[x].manifest = run[x].manifest /\ R[x].status = "failed"
                 /\ R[x].worker = NoOwner /\ R[x].cleanup = CleanupRequired(x)
      BY <1>0 DEF Unowned, RunRow
    <2>3. \A x \in Run \ S : R[x] = run[x]
      OBVIOUS
    <2>4. CloseTrees(R, CloseAttempts(attempt, S, "lease_expired"), S)
      BY <1>2 DEF Reconcile
    <2> HIDE DEF R
    <2>5. LetsGo(S, run, R)
      BY <2>2, <2>3 DEF LetsGo, Live, LiveStatus, LeasedStatus, CleanupRequired
    <2> QED
      BY <2>1, <2>4, <2>5, ChildThroughTree
  <1>3. ASSUME NEW r \in Run, FinishTreeChildren(r) PROVE ChildInv'
    <2>1. LetsGo({r}, run, run)
      BY DEF LetsGo
    <2> QED
      BY <1>0, <1>3, <2>1, ChildThroughTree DEF FinishTreeChildren
  \* The runtime is released only when no subagent is left in the thread.
  <1>4. ASSUME NEW r \in Run, ReleaseRuntime(r) PROVE ChildInv'
    <2>1. run' = [run EXCEPT ![r] = [run[r] EXCEPT !.cleanup = FALSE]]
      BY <1>4 DEF ReleaseRuntime
    <2>2. \A c \in Sub : ~Live(run[c])
      BY <1>4, ConstantsAssumption DEF ReleaseRuntime, Run
    <2>3. \A x \in Run : run'[x].status = run[x].status /\ run'[x].manifest = run[x].manifest
      BY <1>0, <2>1 DEF RunRow
    <2> QED
      BY <2>2, <2>3 DEF ChildInv, Following, Live, Run
  <1>5. CASE Tick
    <2>1. LetsGo({}, run, run')
      BY <1>0, <1>5 DEF Tick, LetsGo, RunRow, Live
    <2> QED
      BY <2>1, ChildKept
  <1>6. CASE FailForMigration
    <2>1. \A x \in Run : ~Live(run'[x])
      BY <1>0, <1>6 DEF FailForMigration, Unowned, RunRow, Live, LiveStatus, LeasedStatus
    <2>2. \A x \in Run : /\ run'[x].manifest = run[x].manifest
                         /\ run'[x].status = "absent" => run[x].status = "absent"
      BY <1>0, <1>6 DEF FailForMigration, Unowned, RunRow
    <2> QED
      BY <2>1, <2>2 DEF ChildInv, Following, Run
  <1>7. CASE UNCHANGED vars
    BY <1>7 DEF vars, ChildInv, Following
  <1> QED
    BY <1>1, <1>2, <1>3, <1>4, <1>5, <1>6, <1>7, CreateChild, OwnerStepChild DEF Next

LEMMA InitChild == Init => ChildInv
  BY ConstantsAssumption
     DEF Init, ChildInv, Following, NewRow, Live, LiveStatus, LeasedStatus, Run

\* For any number of runs, owners and subagents: a live subagent runs under
\* the current attempt of its creator or has been told to stop, and then the
\* creator's fence keeps the thread from going on without it.
THEOREM SubagentsFollow == Spec => []ChildFollowsAttempt
  <1> DEFINE IInv == TypeOK /\ OwnershipInv /\ ChildInv
  <1>1. Init => IInv
    BY InitType, InitOwned, InitChild
  <1>2. IInv /\ [Next]_vars => IInv'
    BY NextType, NextOwned, NextChild
  <1>3. IInv => ChildFollowsAttempt
    BY DEF ChildInv, Following, ChildFollowsAttempt
  <1> QED
    BY <1>1, <1>2, <1>3, PTL DEF Spec
-----------------------------------------------------------------------------
(* Facts are final: what has ended is never written again.                  *)

\* A table of attempts after some open ones were closed.
Closes(A, A2) ==
    \A o \in Owner :
        \/ A2[o] = A[o]
        \/ /\ A[o].outcome = "open" /\ A2[o].run = A[o].run
           /\ A2[o].outcome \notin {"unused", "open"}

\* A row that is over keeps everything but its cleanup fence.
Sealed(row, new) == Terminal(row) => [new EXCEPT !.cleanup = row.cleanup] = row

LEMMA ClosesOK ==
    ASSUME NEW A \in [Owner -> AttemptRow], NEW r, NEW o, NEW S,
           NEW outcome, outcome \notin {"unused", "open"}
    PROVE  /\ Closes(A, FinishAttempt(A, r, o, outcome))
           /\ Closes(A, CloseAttempts(A, S, outcome))
  BY DEF Closes, FinishAttempt, CloseAttempts, AttemptRow

LEMMA ClosesTwice ==
    ASSUME NEW A, NEW A2, NEW A3, Closes(A, A2), Closes(A2, A3)
    PROVE  Closes(A, A3)
  BY DEF Closes

LEMMA SealedSame == ASSUME NEW row \in RunRow PROVE Sealed(row, row)
  BY DEF Sealed, RunRow

\* A tree is closed below rows of R: it only ends attempts, and live rows.
LEMMA TreeSeals ==
    ASSUME NEW R \in [Run -> RunRow], NEW A \in [Owner -> AttemptRow], NEW S,
           CloseTrees(R, A, S)
    PROVE  /\ Closes(A, attempt')
           /\ \A x \in Run : Terminal(R[x]) => run'[x] = R[x]
  <1>1. \A x \in Run : run'[x] = R[x] \/ Live(R[x])
    BY StopTreeOK DEF CloseTrees
  <1>2. Closes(A, attempt')
    BY ClosesOK DEF CloseTrees
  <1> QED
    BY <1>1, <1>2 DEF Terminal, TerminalStatus, Live, LiveStatus, LeasedStatus

LEMMA NextSealed ==
    ASSUME TypeOK, OwnershipInv, [Next]_vars,
           \A x \in Run : run[x].worker = NoOwner => run[x].lease = NoLease
    PROVE  /\ \A x \in Run : Sealed(run[x], run'[x])
           /\ \A o \in Owner : attempt[o].outcome \notin {"unused", "open"} =>
                 attempt'[o] = attempt[o]
           /\ \A o \in Owner : attempt[o].outcome # "unused" =>
                 attempt'[o].run = attempt[o].run /\ attempt'[o].outcome # "unused"
  <1> DEFINE Goal == /\ \A x \in Run : Sealed(run[x], run'[x])
                     /\ \A o \in Owner : attempt[o].outcome \notin {"unused", "open"} =>
                           attempt'[o] = attempt[o]
                     /\ \A o \in Owner : attempt[o].outcome # "unused" =>
                           attempt'[o].run = attempt[o].run /\ attempt'[o].outcome # "unused"
  <1>0. run \in [Run -> RunRow] /\ attempt \in [Owner -> AttemptRow]
    BY DEF TypeOK
  \* One row that is not over is written, and attempts are closed at most.
  <1>1. ASSUME NEW r \in Run, ~Terminal(run[r]), NEW new,
               run' = [run EXCEPT ![r] = new], Closes(attempt, attempt')
        PROVE  Goal
    BY <1>0, <1>1, SealedSame DEF Closes, Sealed
  <1>2. Closes(attempt, attempt) /\ \A row \in RunRow : ~Terminal(row) <=> row.status \notin TerminalStatus
    BY DEF Closes, Terminal
  \* Rows that are not over are written, and the trees below them are closed.
  <1>3. ASSUME NEW R \in [Run -> RunRow], NEW A \in [Owner -> AttemptRow], NEW S,
               \A x \in Run : Terminal(run[x]) => R[x] = run[x],
               Closes(attempt, A), CloseTrees(R, A, S)
        PROVE  Goal
    <2>1. \A x \in Run : Terminal(run[x]) => run'[x] = run[x]
      BY <1>3, TreeSeals
    <2>2. Closes(attempt, attempt')
      BY <1>3, TreeSeals, ClosesTwice
    <2> QED
      BY <1>0, <2>1, <2>2, SealedSame DEF Closes, Sealed
  <1>4. CASE Create
    BY <1>1, <1>2, <1>4 DEF Create, CreateChat, CreateResume, CreateSub, Terminal,
       TerminalStatus, Run
  <1>5. ASSUME NEW r \in Run, NEW o \in Owner, OwnerStep(r, o) PROVE Goal
    <2>1. CASE Claim(r, o)
      <3>1. Closes(attempt, CloseAttempts(attempt, {r}, "lease_expired"))
        BY <1>0, ClosesOK
      <3>2. \A q \in Owner \ {o} : attempt'[q] = CloseAttempts(attempt, {r}, "lease_expired")[q]
        BY <2>1 DEF Claim, CloseAttempts
      <3>3. ~Terminal(run[r]) /\ attempt[o].outcome = "unused"
        BY <2>1 DEF Claim, Terminal, TerminalStatus
      <3>4. \A x \in Run \ {r} : run'[x] = run[x]
        BY <1>0, <2>1 DEF Claim
      <3> QED
        BY <1>0, <3>1, <3>2, <3>3, <3>4, SealedSame DEF Closes, Sealed
    <2>2. CASE Renew(r, o)
      <3>1. run' = [run EXCEPT ![r] = [run[r] EXCEPT !.lease = LeaseTicks]]
        BY <2>2 DEF Renew
      <3> QED
        BY <1>1, <1>2, <2>2, <3>1 DEF Renew, Terminal, TerminalStatus, LeasedStatus
    <2>3. ASSUME NEW m \in {"light", "workspace"}, RecordManifest(r, o, m) PROVE Goal
      <3>1. run' = [run EXCEPT ![r] = [run[r] EXCEPT !.manifest = m]]
        BY <2>3 DEF RecordManifest
      <3> QED
        BY <1>1, <1>2, <2>3, <3>1 DEF RecordManifest, Terminal, TerminalStatus
    <2>4. CASE BindOutput(r, o)
      <3>1. run' = [run EXCEPT ![r] = [run[r] EXCEPT !.output = o]]
        BY <2>4 DEF BindOutput
      <3> QED
        BY <1>1, <1>2, <2>4, <3>1 DEF BindOutput, Terminal, TerminalStatus
    <2>5. ASSUME NEW s \in TerminalStatus, NEW out \in Owner \cup {NoOwner},
                 Publish(r, o, s, out)
          PROVE  Goal
      <3> DEFINE row == [Unowned(run[r], s, CleanupRequired(r)) EXCEPT !.output = out]
                 R == [run EXCEPT ![r] = row]
                 A == FinishAttempt(attempt, r, o, s)
      <3>1. row \in RunRow
        <4>1. Unowned(run[r], s, CleanupRequired(r)) \in RunRow
          BY <1>0, UnownedOK, CleanupBool DEF Status
        <4> QED
          BY <4>1 DEF RunRow
      <3>2. ~Terminal(run[r])
        BY <2>5 DEF Publish, Terminal, TerminalStatus, LeasedStatus
      <3>3. R \in [Run -> RunRow] /\ \A x \in Run : Terminal(run[x]) => R[x] = run[x]
        BY <1>0, <3>1, <3>2
      <3>4. A \in [Owner -> AttemptRow] /\ Closes(attempt, A)
        BY <1>0, AttemptsOK, ClosesOK DEF Outcome, TerminalStatus
      <3>5. CloseTrees(R, A, {r})
        BY <2>5 DEF Publish
      <3> QED
        BY <1>3, <3>3, <3>4, <3>5
    <2>6. CASE ReleaseForRetry(r, o)
      <3> DEFINE R == [run EXCEPT ![r] = Unowned(run[r], "pending", CleanupRequired(r))]
                 A == FinishAttempt(attempt, r, o, "retry_released")
      <3>1. ~Terminal(run[r])
        BY <2>6 DEF ReleaseForRetry, Terminal, TerminalStatus
      <3>2. R \in [Run -> RunRow] /\ \A x \in Run : Terminal(run[x]) => R[x] = run[x]
        BY <1>0, <3>1, UnownedOK, CleanupBool DEF Status, LiveStatus
      <3>3. A \in [Owner -> AttemptRow] /\ Closes(attempt, A)
        BY <1>0, AttemptsOK, ClosesOK DEF Outcome
      <3>4. CloseTrees(R, A, {r})
        BY <2>6 DEF ReleaseForRetry
      <3> QED
        BY <1>3, <3>2, <3>3, <3>4
    <2>7. run[r].output \in Owner \cup {NoOwner}
      BY <1>0 DEF RunRow
    <2> QED
      BY <1>5, <2>1, <2>2, <2>3, <2>4, <2>5, <2>6, <2>7
         DEF OwnerStep, CommitOutput, MarkTerminal, TerminalStatus
  <1>6. ASSUME NEW r \in Run, NEW cascade \in BOOLEAN, RequestCancel(r, cascade)
        PROVE  Goal
    <2> DEFINE R == [run EXCEPT ![r] = CancelRow(run[r], CleanupRequired(r))]
    <2>1. R \in [Run -> RunRow]
      BY <1>0, CancelRowOK, CleanupBool
    <2>2. \A x \in Run : Terminal(run[x]) => R[x] = run[x]
      BY <1>0 DEF CancelRow
    <2>3. CloseTrees(R, attempt, IF cascade THEN {r} ELSE {})
      BY <1>6 DEF RequestCancel
    <2> HIDE DEF R
    <2> QED
      BY <1>0, <1>2, <1>3, <2>1, <2>2, <2>3
  <1>7. ASSUME NEW S \in SUBSET Run, Reconcile(S) PROVE Goal
    <2> DEFINE R == [r \in Run |->
                     IF r \in S THEN Unowned(run[r], "failed", CleanupRequired(r))
                     ELSE run[r]]
               A == CloseAttempts(attempt, S, "lease_expired")
    <2>1. R \in [Run -> RunRow]
      BY <1>0, UnownedOK, CleanupBool DEF Status, TerminalStatus
    <2>2. \A x \in Run : Terminal(run[x]) => R[x] = run[x]
      BY <1>7 DEF Reconcile, Lost, Terminal, TerminalStatus
    <2>3. A \in [Owner -> AttemptRow] /\ Closes(attempt, A)
      BY <1>0, AttemptsOK, ClosesOK DEF Outcome
    <2>4. CloseTrees(R, A, S)
      BY <1>7 DEF Reconcile
    <2> QED
      BY <1>3, <2>1, <2>2, <2>3, <2>4
  <1>8. ASSUME NEW r \in Run, FinishTreeChildren(r) PROVE Goal
    BY <1>0, <1>2, <1>3, <1>8 DEF FinishTreeChildren
  <1>9. ASSUME NEW r \in Run, ReleaseRuntime(r) PROVE Goal
    <2>1. run' = [run EXCEPT ![r] = [run[r] EXCEPT !.cleanup = FALSE]]
      BY <1>9 DEF ReleaseRuntime
    <2>2. Sealed(run[r], [run[r] EXCEPT !.cleanup = FALSE])
      BY <1>0 DEF Sealed, RunRow
    <2> QED
      BY <1>0, <1>9, <2>1, <2>2, SealedSame DEF ReleaseRuntime
  \* Only the lease of an owner runs, and nobody owns a run that is over.
  <1>10. CASE Tick
    <2>1. ASSUME NEW x \in Run, Terminal(run[x]) PROVE ~(run[x].lease > 0)
      <3>1. run[x].worker = NoOwner
        BY <2>1 DEF OwnershipInv, Terminal, TerminalStatus, LeasedStatus
      <3>2. run[x].lease = NoLease
        BY <3>1
      <3> QED
        BY <3>2 DEF NoLease
    <2>2. \A x \in Run : Terminal(run[x]) => run'[x] = run[x]
      BY <1>10, <2>1 DEF Tick
    <2> QED
      BY <1>0, <1>10, <2>2, SealedSame DEF Tick, Sealed
  <1>11. CASE FailForMigration
    <2>1. \A x \in Run : Terminal(run[x]) => run'[x] = run[x]
      BY <1>11 DEF FailForMigration, Terminal, TerminalStatus, Live, LiveStatus, LeasedStatus
    <2>2. Closes(attempt, attempt')
      BY <1>0, <1>11, ClosesOK DEF FailForMigration
    <2> QED
      BY <1>0, <2>1, <2>2, SealedSame DEF Closes, Sealed
  <1>12. CASE UNCHANGED vars
    BY <1>0, <1>12, SealedSame DEF vars
  <1> QED
    BY <1>4, <1>5, <1>6, <1>7, <1>8, <1>9, <1>10, <1>11, <1>12 DEF Next
-----------------------------------------------------------------------------
(* The end of a run is a fact of its newest attempt.  EndIsAttemptFact is    *)
(* not inductive: it needs that the owner of a run is its newest attempt,    *)
(* that a run nobody started has none, and whose attempt bound an output.    *)

Recorded(R, A) ==
    \A x \in Run :
        /\ R[x].worker # NoOwner => R[x].last = R[x].worker
        /\ R[x].worker = NoOwner => R[x].lease = NoLease
        /\ ~R[x].started => R[x].last = NoOwner
        /\ R[x].output # NoOwner => /\ A[R[x].output].run = x
                                    /\ A[R[x].output].outcome # "unused"
        /\ R[x].status \in {"completed", "interrupted"} =>
             A[R[x].last] = [run |-> x, outcome |-> R[x].status] /\ R[x].last # NoOwner
        /\ R[x].status = "cancelled" =>
             R[x].last = NoOwner \/ A[R[x].last].outcome = "cancelled"
        /\ R[x].status = "completed" => R[x].output # NoOwner

RecordInv == Recorded(run, attempt)

\* From tables R and A to R2 and A2 no attempt begins; an end is decided by the
\* newest attempt, or is the cancellation of a run without attempts, or is one
\* that nobody has to account for.
Accounts(R, A, R2, A2) ==
    /\ Closes(A, A2)
    /\ \A x \in Run :
        /\ R2[x].last = R[x].last /\ R2[x].started = R[x].started
        /\ \/ R2[x].output = R[x].output
           \/ /\ R2[x].output # NoOwner /\ A[R2[x].output].run = x
              /\ A[R2[x].output].outcome # "unused"
        /\ \/ R2[x].worker = NoOwner /\ R2[x].lease = NoLease
           \/ R2[x].worker = R[x].worker /\ (R2[x].worker # NoOwner \/ R2[x].lease = R[x].lease)
        /\ \/ R2[x].status = R[x].status
           \/ R2[x].status \notin {"completed", "interrupted", "cancelled"}
           \/ R2[x].status = "cancelled" /\ ~R[x].started
           \/ /\ A2[R[x].last] = [run |-> x, outcome |-> R2[x].status]
              /\ R[x].last # NoOwner
              /\ R2[x].status = "completed" => R2[x].output # NoOwner

LEMMA RecordedStep ==
    ASSUME NEW R \in [Run -> RunRow], NEW A, NEW R2 \in [Run -> RunRow], NEW A2,
           Recorded(R, A), Accounts(R, A, R2, A2)
    PROVE  Recorded(R2, A2)
  <1> SUFFICES ASSUME NEW x \in Run
               PROVE  /\ R2[x].worker # NoOwner => R2[x].last = R2[x].worker
                      /\ R2[x].worker = NoOwner => R2[x].lease = NoLease
                      /\ ~R2[x].started => R2[x].last = NoOwner
                      /\ R2[x].output # NoOwner => /\ A2[R2[x].output].run = x
                                                   /\ A2[R2[x].output].outcome # "unused"
                      /\ R2[x].status \in {"completed", "interrupted"} =>
                           /\ A2[R2[x].last] = [run |-> x, outcome |-> R2[x].status]
                           /\ R2[x].last # NoOwner
                      /\ R2[x].status = "cancelled" =>
                           R2[x].last = NoOwner \/ A2[R2[x].last].outcome = "cancelled"
                      /\ R2[x].status = "completed" => R2[x].output # NoOwner
    BY DEF Recorded
  <1>0. /\ R[x].last \in Owner \cup {NoOwner} /\ R[x].output \in Owner \cup {NoOwner}
        /\ R2[x].output \in Owner \cup {NoOwner} /\ R2[x].last = R[x].last
    BY DEF RunRow, Accounts
  <1>1. \A o \in Owner : A[o].outcome # "unused" =>
           A2[o].outcome # "unused" /\ A2[o].run = A[o].run
    BY DEF Accounts, Closes
  <1>2. \A o \in Owner : A[o].outcome \notin {"unused", "open"} => A2[o] = A[o]
    BY DEF Accounts, Closes
  <1>3. R2[x].output # NoOwner => /\ A2[R2[x].output].run = x
                                  /\ A2[R2[x].output].outcome # "unused"
    <2>1. \/ R2[x].output = R[x].output
          \/ /\ R2[x].output # NoOwner /\ A[R2[x].output].run = x
             /\ A[R2[x].output].outcome # "unused"
      BY DEF Accounts
    <2>2. R[x].output # NoOwner => /\ A[R[x].output].run = x
                                   /\ A[R[x].output].outcome # "unused"
      BY DEF Recorded
    <2> QED
      BY <1>0, <1>1, <2>1, <2>2
  <1>4. /\ R2[x].worker # NoOwner => R2[x].last = R2[x].worker
        /\ R2[x].worker = NoOwner => R2[x].lease = NoLease
        /\ ~R2[x].started => R2[x].last = NoOwner
    <2>1. /\ R2[x].last = R[x].last /\ R2[x].started = R[x].started
          /\ \/ R2[x].worker = NoOwner /\ R2[x].lease = NoLease
             \/ R2[x].worker = R[x].worker /\ (R2[x].worker # NoOwner \/ R2[x].lease = R[x].lease)
      BY DEF Accounts
    <2>2. /\ R[x].worker # NoOwner => R[x].last = R[x].worker
          /\ R[x].worker = NoOwner => R[x].lease = NoLease
          /\ ~R[x].started => R[x].last = NoOwner
      BY DEF Recorded
    <2> QED
      BY <2>1, <2>2
  <1>5. CASE R2[x].status = R[x].status
    BY <1>0, <1>2, <1>3, <1>4, <1>5 DEF Recorded, Accounts
  <1>6. CASE R2[x].status \notin {"completed", "interrupted", "cancelled"}
    BY <1>3, <1>4, <1>6
  <1>7. CASE R2[x].status = "cancelled" /\ ~R[x].started
    BY <1>3, <1>4, <1>7 DEF Accounts
  <1>8. CASE /\ A2[R[x].last] = [run |-> x, outcome |-> R2[x].status]
             /\ R[x].last # NoOwner
             /\ R2[x].status = "completed" => R2[x].output # NoOwner
    BY <1>0, <1>3, <1>4, <1>8
  <1> QED
    BY <1>5, <1>6, <1>7, <1>8 DEF Accounts

\* Closing trees only cancels runs nobody started.
LEMMA TreeAccounts ==
    ASSUME NEW R \in [Run -> RunRow], NEW A \in [Owner -> AttemptRow], NEW S,
           CloseTrees(R, A, S)
    PROVE  Accounts(R, A, run', attempt')
  <1>1. Closes(A, attempt')
    BY TreeSeals
  <1>2. \A x \in Run : run'[x] = R[x] \/ run'[x] = StopRow(R[x])
    BY StopTreeOK DEF CloseTrees
  <1>3. ASSUME NEW row \in RunRow
        PROVE  /\ StopRow(row).last = row.last /\ StopRow(row).output = row.output
               /\ StopRow(row).worker = row.worker /\ StopRow(row).started = row.started
               /\ \/ /\ StopRow(row).status = "cancelled" /\ ~row.started
                     /\ StopRow(row).worker = NoOwner /\ StopRow(row).lease = NoLease
                  \/ StopRow(row).status = "cancel_requested" /\ StopRow(row).lease = row.lease
    <2>1. CASE NeverStarted(row)
      BY <2>1 DEF StopRow, NeverStarted, RunRow
    <2>2. CASE ~NeverStarted(row)
      BY <2>2 DEF StopRow, RunRow
    <2> QED
      BY <2>1, <2>2
  <1> QED
    BY <1>1, <1>2, <1>3 DEF Accounts

LEMMA RecordedThroughTree ==
    ASSUME NEW R \in [Run -> RunRow], NEW A \in [Owner -> AttemptRow], NEW S,
           RecordInv, run \in [Run -> RunRow],
           Accounts(run, attempt, R, A), CloseTrees(R, A, S)
    PROVE  RecordInv'
  <1>1. Recorded(R, A)
    BY RecordedStep DEF RecordInv
  <1>2. run' \in [Run -> RunRow]
    BY CloseTreesType
  <1> QED
    BY <1>1, <1>2, TreeAccounts, RecordedStep DEF RecordInv

LEMMA OwnerStepRecorded ==
    ASSUME TypeOK, TypeOK', OwnershipInv, RecordInv, NEW r \in Run, NEW o \in Owner,
           OwnerStep(r, o)
    PROVE  RecordInv'
  <1>0. /\ run \in [Run -> RunRow] /\ attempt \in [Owner -> AttemptRow]
        /\ run' \in [Run -> RunRow] /\ Closes(attempt, attempt) /\ o # NoOwner
    BY ConstantsAssumption DEF TypeOK, Closes
  \* Without a claim, a step that closes no tree and leaves the attempts alone.
  <1>1. ASSUME Accounts(run, attempt, run', attempt') PROVE RecordInv'
    BY <1>0, <1>1, RecordedStep DEF RecordInv
  <1>2. CASE Claim(r, o)
    <2>1. /\ run'[r] = Claimed(run[r], o) /\ \A x \in Run \ {r} : run'[x] = run[x]
          /\ attempt'[o] = [run |-> r, outcome |-> "open"]
      BY <1>0, <1>2 DEF Claim, CloseAttempts
    <2>2. \A q \in Owner : attempt[q].outcome \notin {"unused", "open"} => attempt'[q] = attempt[q]
      BY <1>0, <1>2 DEF Claim, CloseAttempts, AttemptRow
    <2>3. \A q \in Owner : attempt[q].outcome # "unused" =>
             attempt'[q].run = attempt[q].run /\ attempt'[q].outcome # "unused"
      BY <1>0, <1>2 DEF Claim, CloseAttempts, AttemptRow
    <2>4. \A x \in Run : run[x].last \in Owner \cup {NoOwner} /\ run[x].output \in Owner \cup {NoOwner}
      BY <1>0 DEF RunRow
    <2>5. /\ run'[r].worker = o /\ run'[r].last = o /\ run'[r].started
          /\ run'[r].output = run[r].output
          /\ run'[r].status \notin TerminalStatus
      BY <1>0, <1>2, <2>1 DEF Claim, Claimed, RunRow, TerminalStatus
    <2> DEFINE P(x) == /\ run'[x].worker # NoOwner => run'[x].last = run'[x].worker
                       /\ run'[x].worker = NoOwner => run'[x].lease = NoLease
                       /\ ~run'[x].started => run'[x].last = NoOwner
                       /\ run'[x].output # NoOwner => /\ attempt'[run'[x].output].run = x
                                                      /\ attempt'[run'[x].output].outcome # "unused"
                       /\ run'[x].status \in {"completed", "interrupted"} =>
                            /\ attempt'[run'[x].last] = [run |-> x, outcome |-> run'[x].status]
                            /\ run'[x].last # NoOwner
                       /\ run'[x].status = "cancelled" =>
                            run'[x].last = NoOwner \/ attempt'[run'[x].last].outcome = "cancelled"
                       /\ run'[x].status = "completed" => run'[x].output # NoOwner
    <2>6. P(r)
      <3>1. run[r].output # NoOwner => /\ attempt[run[r].output].run = r
                                       /\ attempt[run[r].output].outcome # "unused"
        BY DEF RecordInv, Recorded
      <3>2. run'[r].output # NoOwner => /\ attempt'[run'[r].output].run = r
                                        /\ attempt'[run'[r].output].outcome # "unused"
        BY <2>3, <2>4, <2>5, <3>1
      <3> QED
        BY <1>0, <2>5, <3>2 DEF TerminalStatus
    <2>7. ASSUME NEW x \in Run \ {r} PROVE P(x)
      BY <2>1, <2>2, <2>3, <2>4, <2>7 DEF RecordInv, Recorded
    <2> QED
      BY <2>6, <2>7 DEF RecordInv, Recorded
  <1>3. CASE Renew(r, o)
    <2>1. run' = [run EXCEPT ![r] = [run[r] EXCEPT !.lease = LeaseTicks]] /\ run[r].worker = o
      BY <1>3 DEF Renew, Holds
    <2>2. Accounts(run, attempt, run', attempt')
      BY <1>0, <1>3, <2>1 DEF Renew, Accounts, RunRow
    <2> QED
      BY <1>1, <2>2
  <1>4. ASSUME NEW m \in {"light", "workspace"}, RecordManifest(r, o, m) PROVE RecordInv'
    <2>1. run' = [run EXCEPT ![r] = [run[r] EXCEPT !.manifest = m]]
      BY <1>4 DEF RecordManifest
    <2>2. Accounts(run, attempt, run', attempt')
      BY <1>0, <1>4, <2>1 DEF RecordManifest, Accounts, RunRow
    <2> QED
      BY <1>1, <2>2
  <1>5. CASE BindOutput(r, o)
    <2>1. run' = [run EXCEPT ![r] = [run[r] EXCEPT !.output = o]] /\ run[r].worker = o
      BY <1>5 DEF BindOutput, Holds
    <2>2. attempt[o] = [run |-> r, outcome |-> "open"]
      BY <1>0, <2>1 DEF OwnershipInv
    <2>3. Accounts(run, attempt, run', attempt')
      BY <1>0, <1>5, <2>1, <2>2 DEF BindOutput, Accounts, RunRow
    <2> QED
      BY <1>1, <2>3
  \* The owner decides the end, with an output one of the run's attempts bound.
  <1>6. ASSUME NEW s \in TerminalStatus, NEW out \in Owner \cup {NoOwner},
               out \in {o, run[r].output}, Publish(r, o, s, out)
        PROVE  RecordInv'
    <2> DEFINE row == [Unowned(run[r], s, CleanupRequired(r)) EXCEPT !.output = out]
               R == [run EXCEPT ![r] = row]
               A == FinishAttempt(attempt, r, o, s)
    <2>1. row \in RunRow
      <3>1. Unowned(run[r], s, CleanupRequired(r)) \in RunRow
        BY <1>0, UnownedOK, CleanupBool DEF Status
      <3> QED
        BY <3>1 DEF RunRow
    <2>2. /\ row.last = run[r].last /\ row.started = run[r].started /\ row.output = out
          /\ row.worker = NoOwner /\ row.lease = NoLease /\ row.status = s
      BY <1>0 DEF Unowned, RunRow
    <2>3. run[r].worker = o /\ attempt[o] = [run |-> r, outcome |-> "open"] /\ run[r].last = o
      BY <1>0, <1>6 DEF Publish, Holds, OwnershipInv, RecordInv, Recorded
    <2>4. A \in [Owner -> AttemptRow] /\ Closes(attempt, A)
      BY <1>0, AttemptsOK, ClosesOK DEF Outcome, TerminalStatus
    <2>5. A[o] = [run |-> r, outcome |-> s]
      BY <1>0, <2>3 DEF FinishAttempt, AttemptRow
    <2>6. CloseTrees(R, A, {r}) /\ (s = "completed" => out # NoOwner)
      BY <1>6 DEF Publish
    <2> HIDE DEF row
    <2>7. R \in [Run -> RunRow] /\ R[r] = row /\ \A x \in Run \ {r} : R[x] = run[x]
      BY <1>0, <2>1
    <2> HIDE DEF R, A
    <2>8. \/ out = run[r].output
          \/ out # NoOwner /\ attempt[out].run = r /\ attempt[out].outcome # "unused"
      BY <1>0, <1>6, <2>3
    <2>9. Accounts(run, attempt, R, A)
      BY <1>0, <2>2, <2>3, <2>4, <2>5, <2>6, <2>7, <2>8 DEF Accounts
    <2> QED
      BY <1>0, <2>4, <2>6, <2>7, <2>9, RecordedThroughTree
  <1>7. CASE ReleaseForRetry(r, o)
    <2> DEFINE row == Unowned(run[r], "pending", CleanupRequired(r))
               R == [run EXCEPT ![r] = row]
               A == FinishAttempt(attempt, r, o, "retry_released")
    <2>1. row \in RunRow
      BY <1>0, UnownedOK, CleanupBool DEF Status, LiveStatus
    <2>2. /\ row.last = run[r].last /\ row.started = run[r].started
          /\ row.output = run[r].output
          /\ row.worker = NoOwner /\ row.lease = NoLease /\ row.status = "pending"
      BY <1>0 DEF Unowned, RunRow
    <2>3. A \in [Owner -> AttemptRow] /\ Closes(attempt, A)
      BY <1>0, AttemptsOK, ClosesOK DEF Outcome
    <2>4. CloseTrees(R, A, {r})
      BY <1>7 DEF ReleaseForRetry
    <2> HIDE DEF row
    <2>5. R \in [Run -> RunRow] /\ R[r] = row /\ \A x \in Run \ {r} : R[x] = run[x]
      BY <1>0, <2>1
    <2> HIDE DEF R, A
    <2>6. Accounts(run, attempt, R, A)
      BY <1>0, <2>2, <2>3, <2>5 DEF Accounts
    <2> QED
      BY <1>0, <2>3, <2>4, <2>5, <2>6, RecordedThroughTree
  <1>8. run[r].output \in Owner \cup {NoOwner}
    BY <1>0 DEF RunRow
  <1> QED
    BY <1>2, <1>3, <1>4, <1>5, <1>6, <1>7, <1>8
       DEF OwnerStep, CommitOutput, MarkTerminal, TerminalStatus

\* A row given up keeps its history.
LEMMA UnownedFields ==
    ASSUME NEW row \in RunRow, NEW s, NEW fence
    PROVE  LET new == Unowned(row, s, fence) IN
           /\ new.last = row.last /\ new.started = row.started /\ new.output = row.output
           /\ new.worker = NoOwner /\ new.lease = NoLease /\ new.status = s
  BY DEF Unowned, RunRow

LEMMA NextRecorded ==
    ASSUME TypeOK, OwnershipInv, RecordInv, [Next]_vars PROVE RecordInv'
  <1>0. /\ run \in [Run -> RunRow] /\ attempt \in [Owner -> AttemptRow]
        /\ TypeOK' /\ run' \in [Run -> RunRow] /\ Closes(attempt, attempt)
    BY NextType DEF TypeOK, Closes
  <1>1. ASSUME Accounts(run, attempt, run', attempt') PROVE RecordInv'
    BY <1>0, <1>1, RecordedStep DEF RecordInv
  \* A new row has no attempt, no output and no end.
  <1>2. CASE Create
    <2>1. ASSUME NEW r \in Run, NEW p, NEW o, run' = [run EXCEPT ![r] = NewRow(p, o)],
                 attempt' = attempt
          PROVE  RecordInv'
      <3>1. run'[r] = NewRow(p, o) /\ \A x \in Run \ {r} : run'[x] = run[x]
        BY <1>0, <2>1
      <3>2. /\ run'[r].worker = NoOwner /\ run'[r].lease = NoLease /\ run'[r].last = NoOwner
            /\ run'[r].output = NoOwner /\ run'[r].status = "pending"
        BY <3>1 DEF NewRow
      <3> QED
        BY <2>1, <3>1, <3>2 DEF RecordInv, Recorded
    <2> QED
      BY <1>2, <2>1 DEF Create, CreateChat, CreateResume, CreateSub, Run
  <1>3. ASSUME NEW r \in Run, NEW o \in Owner, OwnerStep(r, o) PROVE RecordInv'
    BY <1>0, <1>3, OwnerStepRecorded
  <1>4. ASSUME NEW r \in Run, NEW cascade \in BOOLEAN, RequestCancel(r, cascade)
        PROVE  RecordInv'
    <2> DEFINE row == CancelRow(run[r], CleanupRequired(r))
               R == [run EXCEPT ![r] = row]
    <2>1. /\ row \in RunRow /\ row.last = run[r].last /\ row.started = run[r].started
          /\ row.output = run[r].output /\ row.worker = run[r].worker
          /\ row.lease = run[r].lease
          /\ \/ row.status = run[r].status
             \/ row.status = "cancel_requested"
             \/ row.status = "cancelled" /\ ~run[r].started
      <3>1. CASE Terminal(run[r])
        BY <1>0, <3>1 DEF CancelRow
      <3>2. CASE ~Terminal(run[r]) /\ NeverStarted(run[r])
        <4>1. row = [run[r] EXCEPT !.status = "cancelled", !.cleanup = CleanupRequired(r)]
          BY <3>2 DEF CancelRow
        <4>2. row \in RunRow
          BY <1>0, CancelRowOK, CleanupBool
        <4> HIDE DEF row
        <4> QED
          BY <1>0, <3>2, <4>1, <4>2 DEF NeverStarted, RunRow
      <3>3. CASE ~Terminal(run[r]) /\ ~NeverStarted(run[r])
        <4>1. row = [run[r] EXCEPT !.status = "cancel_requested"]
          BY <3>3 DEF CancelRow
        <4>2. row \in RunRow
          BY <1>0, CancelRowOK, CleanupBool
        <4> HIDE DEF row
        <4> QED
          BY <1>0, <4>1, <4>2 DEF RunRow
      <3> QED
        BY <3>1, <3>2, <3>3
    <2>2. CloseTrees(R, attempt, IF cascade THEN {r} ELSE {})
      BY <1>4 DEF RequestCancel
    <2> HIDE DEF row
    <2>3. R \in [Run -> RunRow] /\ R[r] = row /\ \A x \in Run \ {r} : R[x] = run[x]
      BY <1>0, <2>1
    <2> HIDE DEF R
    <2>4. Accounts(run, attempt, R, attempt)
      <3>1. run[r].worker = NoOwner => run[r].lease = NoLease
        BY DEF RecordInv, Recorded
      <3> QED
        BY <1>0, <2>1, <2>3, <3>1 DEF Accounts
    <2> QED
      BY <1>0, <2>2, <2>3, <2>4, RecordedThroughTree
  <1>5. ASSUME NEW S \in SUBSET Run, Reconcile(S) PROVE RecordInv'
    <2> DEFINE R == [r \in Run |->
                     IF r \in S THEN Unowned(run[r], "failed", CleanupRequired(r))
                     ELSE run[r]]
               A == CloseAttempts(attempt, S, "lease_expired")
    <2>1. R \in [Run -> RunRow]
      BY <1>0, UnownedOK, CleanupBool DEF Status, TerminalStatus
    <2>2. A \in [Owner -> AttemptRow] /\ Closes(attempt, A)
      BY <1>0, AttemptsOK, ClosesOK DEF Outcome
    <2>3. \A x \in S : /\ R[x].last = run[x].last /\ R[x].started = run[x].started
                       /\ R[x].output = run[x].output /\ R[x].worker = NoOwner
                       /\ R[x].lease = NoLease /\ R[x].status = "failed"
      BY <1>0, UnownedFields
    <2>4. \A x \in Run \ S : R[x] = run[x]
      OBVIOUS
    <2>5. CloseTrees(R, A, S)
      BY <1>5 DEF Reconcile
    <2> HIDE DEF R, A
    <2>6. Accounts(run, attempt, R, A)
      BY <2>2, <2>3, <2>4 DEF Accounts
    <2> QED
      BY <1>0, <2>1, <2>2, <2>5, <2>6, RecordedThroughTree
  <1>6. ASSUME NEW r \in Run, FinishTreeChildren(r) PROVE RecordInv'
    BY <1>0, <1>1, <1>6, TreeAccounts DEF FinishTreeChildren
  <1>7. ASSUME NEW r \in Run, ReleaseRuntime(r) PROVE RecordInv'
    <2>1. run' = [run EXCEPT ![r] = [run[r] EXCEPT !.cleanup = FALSE]]
      BY <1>7 DEF ReleaseRuntime
    <2>2. Accounts(run, attempt, run', attempt')
      BY <1>0, <1>7, <2>1 DEF ReleaseRuntime, Accounts, RunRow
    <2> QED
      BY <1>1, <2>2
  <1>8. CASE Tick
    <2>1. \A x \in Run : run[x].worker = NoOwner => ~(run[x].lease > 0)
      <3>1. \A x \in Run : run[x].worker = NoOwner => run[x].lease = NoLease
        BY DEF RecordInv, Recorded
      <3> QED
        BY <3>1 DEF NoLease
    <2>2. \A x \in Run : \/ run'[x] = run[x]
                         \/ /\ run[x].worker # NoOwner
                            /\ run'[x] = [run[x] EXCEPT !.lease = run[x].lease - 1]
      BY <1>8, <2>1 DEF Tick
    <2>3. Accounts(run, attempt, run', attempt')
      BY <1>0, <1>8, <2>2 DEF Tick, Accounts, RunRow
    <2> QED
      BY <1>1, <2>3
  <1>9. CASE FailForMigration
    <2>1. Closes(attempt, attempt')
      BY <1>0, <1>9, ClosesOK DEF FailForMigration
    <2>2. \A x \in Run : run'[x] = run[x] \/ run'[x] = Unowned(run[x], "failed", FALSE)
      BY <1>9 DEF FailForMigration
    <2>3. ASSUME NEW x \in Run, run'[x] # run[x]
          PROVE  /\ run'[x].last = run[x].last /\ run'[x].started = run[x].started
                 /\ run'[x].output = run[x].output /\ run'[x].worker = NoOwner
                 /\ run'[x].lease = NoLease /\ run'[x].status = "failed"
      <3>1. run'[x] = Unowned(run[x], "failed", FALSE) /\ run[x] \in RunRow
        BY <1>0, <2>2, <2>3
      <3> QED
        BY <3>1 DEF Unowned, RunRow
    <2>4. Accounts(run, attempt, run', attempt')
      BY <2>1, <2>3 DEF Accounts
    <2> QED
      BY <1>1, <2>4
  <1>10. CASE UNCHANGED vars
    BY <1>10 DEF vars, RecordInv, Recorded
  <1> QED
    BY <1>2, <1>3, <1>4, <1>5, <1>6, <1>7, <1>8, <1>9, <1>10 DEF Next

LEMMA InitRecorded == Init => RecordInv
  BY DEF Init, NewRow, RecordInv, Recorded, NoLease

\* For any number of runs and owners: a run that an owner completed,
\* interrupted or cancelled ended as its newest attempt says, and a completed
\* run has an output that one of its own attempts bound.
THEOREM EndFacts == Spec => []EndIsAttemptFact
  <1> DEFINE IInv == TypeOK /\ OwnershipInv /\ RecordInv
  <1>1. Init => IInv
    BY InitType, InitOwned, InitRecorded
  <1>2. IInv /\ [Next]_vars => IInv'
    BY NextType, NextOwned, NextRecorded
  <1>3. IInv => EndIsAttemptFact
    BY DEF RecordInv, Recorded, EndIsAttemptFact
  <1> QED
    BY <1>1, <1>2, <1>3, PTL DEF Spec

\* No late worker, user or reconciler rewrites a run that is over, but for the
\* cleanup fence, nor an attempt that is closed.
THEOREM FinalFacts == Spec => FactsAreFinal
  <1> DEFINE IInv == TypeOK /\ OwnershipInv /\ RecordInv
             Final == /\ \A r \in Run : Terminal(run[r]) =>
                           [run'[r] EXCEPT !.cleanup = run[r].cleanup] = run[r]
                      /\ \A o \in Owner : attempt[o].outcome \notin {"unused", "open"} =>
                           attempt'[o] = attempt[o]
  <1>1. Init => IInv
    BY InitType, InitOwned, InitRecorded
  <1>2. IInv /\ [Next]_vars => IInv'
    BY NextType, NextOwned, NextRecorded
  <1>3. IInv /\ [Next]_vars => Final
    BY NextSealed DEF RecordInv, Recorded, Sealed
  <1> HIDE DEF IInv
  <1> QED
    BY <1>1, <1>2, <1>3, PTL DEF Spec, FactsAreFinal
-----------------------------------------------------------------------------
(* What a process that works with these rows can rely on.                   *)

\* The invariant all proofs about ownership and ends rest on.
LeaseInv == TypeOK /\ OwnershipInv /\ RecordInv

LEMMA LeaseInvHolds ==
    /\ Init => LeaseInv
    /\ LeaseInv /\ [Next]_vars => LeaseInv'
  BY InitType, InitOwned, InitRecorded, NextType, NextOwned, NextRecorded DEF LeaseInv

\* Once a run is over its status stays and its cleanup is not owed again; an
\* owner token stays with the run it was first used for.
LEMMA OverStays ==
    ASSUME LeaseInv, [Next]_vars
    PROVE  /\ \A x \in Run : Terminal(run[x]) => run'[x].status = run[x].status
           /\ \A x \in Run : Terminal(run[x]) /\ ~run[x].cleanup => ~run'[x].cleanup
           /\ \A o \in Owner : attempt[o].outcome # "unused" =>
                 attempt'[o].run = attempt[o].run /\ attempt'[o].outcome # "unused"
  <1>0. /\ run \in [Run -> RunRow] /\ run' \in [Run -> RunRow]
        /\ TypeOK /\ OwnershipInv /\ RecordInv
        /\ \A x \in Run : run[x].worker = NoOwner => run[x].lease = NoLease
    BY NextType DEF LeaseInv, TypeOK, RecordInv, Recorded
  <1>1. \A x \in Run : Sealed(run[x], run'[x])
    BY <1>0, NextSealed
  <1>2. ASSUME NEW x \in Run, Terminal(run[x]) PROVE run'[x].status = run[x].status
    <2>1. [run'[x] EXCEPT !.cleanup = run[x].cleanup] = run[x]
      BY <1>1, <1>2 DEF Sealed
    <2>2. run'[x] \in RunRow
      BY <1>0
    <2>3. [run'[x] EXCEPT !.cleanup = run[x].cleanup].status = run'[x].status
      BY <2>2 DEF RunRow
    <2> QED
      BY <2>1, <2>3
  <1>3. ASSUME NEW x \in Run, Terminal(run[x]), ~run[x].cleanup PROVE ~run'[x].cleanup
    <2>1. ~Active(run[x])
      BY <1>3 DEF Active, Terminal, Live, TerminalStatus, LiveStatus, LeasedStatus
    <2>2. CASE ~Create
      <3>1. Active(run'[x]) => Active(run[x])
        BY <1>0, <2>2, NextWakesNothing DEF NothingWakes
      <3> QED
        BY <2>1, <3>1 DEF Active
    <2>3. CASE Create
      BY <1>0, <1>3, <2>3 DEF Create, CreateChat, CreateResume, CreateSub, Terminal,
         TerminalStatus
    <2> QED
      BY <2>2, <2>3
  <1> QED
    BY <1>0, <1>2, <1>3, NextSealed

\* Who publishes an end has written it.
LEMMA PublishEnds ==
    ASSUME LeaseInv, NEW r \in Run, NEW o \in Owner, NEW s \in TerminalStatus,
           NEW out \in Owner \cup {NoOwner}, Publish(r, o, s, out)
    PROVE  run'[r].status = s
  <1> DEFINE row == [Unowned(run[r], s, CleanupRequired(r)) EXCEPT !.output = out]
             R == [run EXCEPT ![r] = row]
  <1>0. run \in [Run -> RunRow] /\ attempt \in [Owner -> AttemptRow]
    BY DEF LeaseInv, TypeOK
  <1>1. row \in RunRow
    <2>1. Unowned(run[r], s, CleanupRequired(r)) \in RunRow
      BY <1>0, UnownedOK, CleanupBool DEF Status
    <2> QED
      BY <2>1 DEF RunRow
  <1>2. row.status = s
    BY <1>0 DEF Unowned, RunRow
  <1>3. CloseTrees(R, FinishAttempt(attempt, r, o, s), {r})
    BY DEF Publish
  <1> HIDE DEF row
  <1>4. R \in [Run -> RunRow] /\ R[r] = row
    BY <1>0, <1>1
  <1>5. FinishAttempt(attempt, r, o, s) \in [Owner -> AttemptRow]
    BY <1>0, AttemptsOK DEF Outcome
  <1> HIDE DEF R
  <1> QED
    BY <1>2, <1>3, <1>4, <1>5, TreeSeals DEF Terminal

\* Only a run somebody holds has time left on its lease.
LEMMA HolderIsOwner ==
    ASSUME LeaseInv, NEW r \in Run, run[r].lease > 0 PROVE run[r].worker \in Owner
  <1>1. run[r].worker # NoOwner
    <2>1. run[r].worker = NoOwner => run[r].lease = NoLease
      BY DEF LeaseInv, RecordInv, Recorded
    <2> QED
      BY <2>1 DEF NoLease
  <1> QED
    BY <1>1 DEF LeaseInv, TypeOK, RunRow
=============================================================================
