--------------------------- MODULE RunWorkerProofs ---------------------------
(***************************************************************************)
(* Proofs about RunWorker for every set of runs, subagents and owners,     *)
(* every number of tries and of faults: the worker only changes the rows   *)
(* through the transactions of AgentRunLease, and nobody announces an end  *)
(* that is not there, or before the runtime is released.                   *)
(***************************************************************************)
EXTENDS RunWorker, TLAPS

\* The facts proved about the rows; LP names the same operators as L does.
LP == INSTANCE AgentRunLeaseProofs

LEMMA SameConstants ==
    /\ L!Run = LP!Run /\ L!TerminalStatus = LP!TerminalStatus
    /\ L!Status = LP!Status /\ L!NoLease = LP!NoLease
    /\ L!TypeOK <=> LP!TypeOK
    /\ L!vars = LP!vars
  BY DEF L!Run, LP!Run, L!NoLease, LP!NoLease, L!TerminalStatus, LP!TerminalStatus,
     L!LeasedStatus, LP!LeasedStatus, L!LiveStatus, LP!LiveStatus, L!Status, LP!Status,
     L!Outcome, LP!Outcome, L!RunRow, LP!RunRow, L!AttemptRow, LP!AttemptRow,
     L!TypeOK, LP!TypeOK, L!vars, LP!vars

LEMMA SameInit == L!Init <=> LP!Init
  BY DEF L!Init, LP!Init, L!NewRow, LP!NewRow, L!NoLease, LP!NoLease, L!Run, LP!Run

LEMMA SamePublish ==
    \A r, o, s, out : L!Publish(r, o, s, out) <=> LP!Publish(r, o, s, out)
  BY DEF L!Publish, LP!Publish, L!Run, LP!Run, L!NoLease, LP!NoLease, L!LeasedStatus,
     LP!LeasedStatus, L!LiveStatus, LP!LiveStatus, L!Live, LP!Live, L!NeverStarted,
     LP!NeverStarted, L!Holds, LP!Holds, L!CleanupRequired, LP!CleanupRequired,
     L!LiveChildren, LP!LiveChildren, L!Tree, LP!Tree, L!StopRow, LP!StopRow,
     L!Unowned, LP!Unowned, L!StopTree, LP!StopTree, L!FinishAttempt, LP!FinishAttempt,
     L!CloseAttempts, LP!CloseAttempts, L!CloseTrees, LP!CloseTrees

LEMMA SameNext == L!Next <=> LP!Next
  BY Zenon
     DEF L!Run, LP!Run, L!NoLease, LP!NoLease, L!TerminalStatus, LP!TerminalStatus,
     L!LeasedStatus, LP!LeasedStatus, L!LiveStatus, LP!LiveStatus, L!Live, LP!Live,
     L!Terminal, LP!Terminal, L!Active, LP!Active, L!NeverStarted, LP!NeverStarted,
     L!Holds, LP!Holds, L!CleanupRequired, LP!CleanupRequired, L!Lost, LP!Lost,
     L!LiveChildren, LP!LiveChildren, L!Tree, LP!Tree, L!StopRow, LP!StopRow,
     L!CancelRow, LP!CancelRow, L!Unowned, LP!Unowned, L!Claimed, LP!Claimed,
     L!StopTree, LP!StopTree, L!FinishAttempt, LP!FinishAttempt, L!CloseAttempts,
     LP!CloseAttempts, L!CloseTrees, LP!CloseTrees, L!NewRow, LP!NewRow,
     L!CreateChat, LP!CreateChat, L!CreateResume, LP!CreateResume, L!CreateSub,
     LP!CreateSub, L!Claim, LP!Claim, L!Renew, LP!Renew, L!Tick, LP!Tick,
     L!RecordManifest, LP!RecordManifest, L!BindOutput, LP!BindOutput, L!Publish,
     LP!Publish, L!CommitOutput, LP!CommitOutput, L!MarkTerminal, LP!MarkTerminal,
     L!ReleaseForRetry, LP!ReleaseForRetry, L!RequestCancel, LP!RequestCancel,
     L!Reconcile, LP!Reconcile, L!FinishTreeChildren, LP!FinishTreeChildren,
     L!ReleaseRuntime, LP!ReleaseRuntime, L!FailForMigration, LP!FailForMigration,
     L!Create, LP!Create, L!OwnerStep, LP!OwnerStep, L!Next, LP!Next
-----------------------------------------------------------------------------
(* The shape of the processes, and what each of them knows about its run.   *)

Step == {"idle", "entry", "claim", "prepare", "prepared", "graph", "committed",
         "finish", "stopping", "retryable", "release", "publish", "leave"}
Executing == {"prepare", "prepared", "graph", "committed", "finish", "stopping",
              "retryable"}

JobState == [state : {"none", "queued", "active"}, try : 0..MaxTries]
ExecState ==
    [pc : Step, owner : Owner \cup {NoOwner}, out : TerminalStatus \cup {"none"},
     then : {"leave", "claim", "publish"}, exit : {"done", "retry", "again"},
     handler : BOOLEAN]
SweepState == [pc : {"idle", "listed", "released"}, seen : L!Status \cup {"none"}]
ReaderState == [pc : {"row", "events", "over"}, status : L!Status, clean : BOOLEAN,
                end : TerminalStatus \cup {"none"}]

Shapes ==
    /\ job \in [Top -> JobState] /\ exec \in [Top -> ExecState]
    /\ signal \in [Top -> BOOLEAN] /\ ends \in [Top -> SUBSET TerminalStatus]
    /\ sweep \in [Top -> SweepState] /\ reader \in [Top -> ReaderState]
    /\ faults \in 0..MaxFaults

\* The run has the end s; nothing that uses its runtime is left, either.
Ended(r, s) == s \in TerminalStatus /\ run[r].status = s
Told(r, s) == Ended(r, s) /\ ~run[r].cleanup

\* An attempt executes under a token that is its run's, and carries an end
\* towards publication only when the run has it.
Fits(r, e) ==
    /\ e.pc \in Executing => e.owner # NoOwner
    /\ e.owner # NoOwner =>
         attempt[e.owner].run = r /\ attempt[e.owner].outcome # "unused"
    /\ e.pc = "finish" => e.out # "none"
    /\ e.pc = "committed" => Ended(r, e.out)
    /\ e.then = "publish" => e.pc \in {"release", "publish"} /\ Ended(r, e.out)
    /\ e.pc = "publish" => Told(r, e.out)

JobFits(r) == job[r].state = "active" <=> exec[r].pc # "idle"

\* What the sweep listed and what the reader read may be old, but an end in it
\* is the end of the run.
SweepKnows(r) ==
    sweep[r].seen \in TerminalStatus =>
        Ended(r, sweep[r].seen) /\ (sweep[r].pc = "released" => ~run[r].cleanup)
ReaderKnows(r) ==
    /\ reader[r].status \in TerminalStatus =>
         Ended(r, reader[r].status) /\ (reader[r].clean => ~run[r].cleanup)
    /\ reader[r].end # "none" => Told(r, reader[r].end)
EndsTold(r) == \A s \in ends[r] : Told(r, s)

WorkerInv ==
    /\ Shapes
    /\ \A r \in Top : /\ Fits(r, exec[r]) /\ JobFits(r)
                      /\ SweepKnows(r) /\ ReaderKnows(r) /\ EndsTold(r)

\* What every process may rely on, whoever takes the step.
Rely ==
    /\ \A r \in Top : L!Terminal(run[r]) => run'[r].status = run[r].status
    /\ \A r \in Top : L!Terminal(run[r]) /\ ~run[r].cleanup => ~run'[r].cleanup
    /\ \A o \in Owner : attempt[o].outcome # "unused" =>
          attempt'[o].run = attempt[o].run /\ attempt'[o].outcome # "unused"

LEMMA Stable ==
    ASSUME Rely, NEW r \in Top
    PROVE  /\ \A s : Ended(r, s) => Ended(r, s)'
           /\ \A s : Told(r, s) => Told(r, s)'
  <1>1. \A s : Ended(r, s) => Ended(r, s)'
    BY DEF Rely, Ended, L!Terminal, TerminalStatus
  <1>2. \A s : Told(r, s) => Told(r, s)'
    BY DEF Rely, Told, Ended, L!Terminal, TerminalStatus
  <1> QED
    BY <1>1, <1>2
-----------------------------------------------------------------------------
(* The moves of an attempt.                                                 *)

Moved(r) ==
    /\ exec' \in [Top -> ExecState]
    /\ \A x \in Top \ {r} : exec'[x] = exec[x]

LEMMA GotoOK ==
    ASSUME exec \in [Top -> ExecState], NEW r \in Top, NEW pc \in Step, Goto(r, pc)
    PROVE  /\ Moved(r) /\ exec'[r].pc = pc /\ exec'[r].owner = exec[r].owner
           /\ exec'[r].out = exec[r].out /\ exec'[r].then = exec[r].then
  <1>1. exec' = [exec EXCEPT ![r] = [exec[r] EXCEPT !.pc = pc]]
    BY DEF Goto
  <1> QED
    BY <1>1 DEF Moved, ExecState

LEMMA LeaveOK ==
    ASSUME exec \in [Top -> ExecState], NEW r \in Top,
           NEW exit \in {"done", "retry", "again"}, Leave(r, exit)
    PROVE  /\ Moved(r) /\ exec'[r].pc = "leave" /\ exec'[r].owner = exec[r].owner
           /\ exec'[r].out = "none" /\ exec'[r].then = "leave"
  <1>1. exec' = [exec EXCEPT ![r] = [exec[r] EXCEPT !.pc = "leave", !.out = "none",
                                                    !.then = "leave", !.exit = exit]]
    BY DEF Leave
  <1> QED
    BY <1>1 DEF Moved, ExecState, Step

LEMMA HandleOK ==
    ASSUME exec \in [Top -> ExecState], NEW r \in Top, NEW pc \in Step,
           NEW out \in TerminalStatus \cup {"none"}, Handle(r, pc, out)
    PROVE  /\ Moved(r) /\ exec'[r].pc = pc /\ exec'[r].owner = exec[r].owner
           /\ exec'[r].out = out /\ exec'[r].then = "leave"
  <1>1. exec' = [exec EXCEPT ![r] = [exec[r] EXCEPT !.pc = pc, !.out = out,
                                !.then = "leave", !.exit = "done", !.handler = TRUE]]
    BY DEF Handle
  <1> QED
    BY <1>1 DEF Moved, ExecState

LEMMA ReleaseThenOK ==
    ASSUME exec \in [Top -> ExecState], NEW r \in Top,
           NEW then \in {"leave", "claim", "publish"},
           NEW out \in TerminalStatus \cup {"none"}, ReleaseThen(r, then, out)
    PROVE  /\ Moved(r) /\ exec'[r].pc = "release" /\ exec'[r].owner = exec[r].owner
           /\ exec'[r].out = out /\ exec'[r].then = then
  <1>1. exec' = [exec EXCEPT ![r] = [exec[r] EXCEPT !.pc = "release", !.then = then,
                                                    !.out = out]]
    BY DEF ReleaseThen
  <1> QED
    BY <1>1 DEF Moved, ExecState, Step
-----------------------------------------------------------------------------
(* Every step of a worker that touches the rows is a transaction.           *)

LEMMA OwnerStepIsLease ==
    ASSUME NEW r \in Run, NEW o \in Owner, L!OwnerStep(r, o) PROVE L!Next
  BY DEF L!Next, Run

LEMMA MarkIsLease ==
    ASSUME NEW r \in Run, NEW o \in Owner, NEW s \in TerminalStatus, L!MarkTerminal(r, o, s)
    PROVE  L!Next
  BY OwnerStepIsLease DEF L!OwnerStep, TerminalStatus

LEMMA StepIsLease ==
    ASSUME LP!LeaseInv, WorkerInv, [Next]_vars PROVE [L!Next]_leaseVars
  <1> DEFINE Goal == [L!Next]_leaseVars
  <1> SUFFICES Goal
    OBVIOUS
  <1>0. /\ Top \subseteq Run /\ Sub \subseteq Run /\ Run = L!Run
        /\ exec \in [Top -> ExecState]
    BY DEF Run, L!Run, WorkerInv, Shapes
  <1>1. \A r \in Top : exec[r].owner \in Owner \cup {NoOwner}
                       /\ exec[r].out \in TerminalStatus \cup {"none"}
    BY <1>0 DEF ExecState
  <1>2. \A r \in Top : exec[r].pc \in Executing =>
           exec[r].owner \in Owner /\ (exec[r].pc = "finish" => exec[r].out \in TerminalStatus)
    BY <1>1 DEF WorkerInv, Fits
  <1>3. ASSUME NEW r \in Top, NEW c \in Sub, Spawn(c, r) PROVE Goal
    BY <1>3 DEF Spawn, L!Next, L!Create
  <1>4. ASSUME NEW r \in Run, Claim(r) \/ L!Claim(r, CHOOSE o \in Owner : attempt[o].outcome = "unused"),
               \E o \in Owner : attempt[o].outcome = "unused"
        PROVE  Goal
    BY <1>4, OwnerStepIsLease DEF Claim, L!OwnerStep
  <1>5. ASSUME NEW c \in Sub, SubStep(c) PROVE Goal
    <2>1. ASSUME NEW s \in {"failed", "cancelled"}, L!MarkTerminal(c, run[c].worker, s)
          PROVE  Goal
      <3>1. run[c].lease > 0
        BY <2>1 DEF L!MarkTerminal, L!Publish, L!Holds
      <3>2. run[c].worker \in Owner
        BY <1>0, <3>1, SameConstants, LP!HolderIsOwner, WorkerConstants
      <3> QED
        BY <1>0, <2>1, <3>2, MarkIsLease DEF TerminalStatus, L!TerminalStatus
    <2> QED
      BY <1>0, <1>4, <1>5, <2>1 DEF SubStep
  <1>6. ASSUME NEW r \in Run, Reconcile(r) PROVE Goal
    <2>1. L!Reconcile({r}) /\ {r} \in SUBSET L!Run
      BY <1>0, <1>6 DEF Reconcile
    <2> QED
      BY <2>1 DEF L!Next
  <1>7. ASSUME NEW r \in Top, Create(r) PROVE Goal
    BY <1>7 DEF Create, L!Next, L!Create
  <1>8. ASSUME NEW r \in Top, Cancel(r) PROVE Goal
    BY <1>0, <1>8 DEF Cancel, L!Next
  <1>9. ASSUME NEW r \in Top, L!FinishTreeChildren(r) PROVE Goal
    BY <1>0, <1>9 DEF L!Next
  <1>10. ASSUME NEW r \in Top, L!ReleaseRuntime(r) PROVE Goal
    BY <1>0, <1>10 DEF L!Next
  <1>11. ASSUME NEW r \in Top, Claim(r) PROVE Goal
    BY <1>0, <1>4, <1>11 DEF Claim
  <1>12. ASSUME NEW r \in Top, Prepare(r) PROVE Goal
    <2>1. exec[r].owner \in Owner
      BY <1>2, <1>12 DEF Prepare, At, Executing
    <2>2. ASSUME FailQuietly(r) PROVE Goal
      BY <1>0, <2>1, <2>2, MarkIsLease DEF FailQuietly, TerminalStatus, L!TerminalStatus
    <2>3. ASSUME NEW m \in {"light", "workspace"}, L!RecordManifest(r, exec[r].owner, m)
          PROVE  Goal
      BY <1>0, <2>1, <2>3, OwnerStepIsLease DEF L!OwnerStep
    <2> QED
      BY <1>12, <2>2, <2>3 DEF Prepare
  <1>13. ASSUME NEW r \in Top, GraphEnds(r) PROVE Goal
    <2>1. exec[r].owner \in Owner
      BY <1>2, <1>13 DEF GraphEnds, At, Executing
    <2>2. ASSUME NEW s \in {"completed", "interrupted"}, L!CommitOutput(r, exec[r].owner, s)
          PROVE  Goal
      BY <1>0, <2>1, <2>2, OwnerStepIsLease DEF L!OwnerStep
    <2> QED
      BY <1>13, <2>2 DEF GraphEnds
  <1>14. ASSUME NEW r \in Top, Heartbeat(r) PROVE Goal
    <2>1. exec[r].owner \in Owner
      BY <1>2, <1>14 DEF Heartbeat, Executing
    <2>2. ASSUME L!Renew(r, exec[r].owner) PROVE Goal
      BY <1>0, <2>1, <2>2, OwnerStepIsLease DEF L!OwnerStep
    <2> QED
      BY <1>14, <2>2 DEF Heartbeat
  <1>15. ASSUME NEW r \in Top, L!ReleaseForRetry(r, exec[r].owner), exec[r].owner \in Owner
         PROVE  Goal
    BY <1>0, <1>15, OwnerStepIsLease DEF L!OwnerStep
  <1>16. ASSUME NEW r \in Top, Stopping(r) PROVE Goal
    BY <1>2, <1>15, <1>16 DEF Stopping, At, Executing
  <1>17. ASSUME NEW r \in Top, Retryable(r) PROVE Goal
    BY <1>2, <1>15, <1>17 DEF Retryable, At, Executing
  <1>18. ASSUME NEW r \in Top, Finish(r) PROVE Goal
    <2>1. exec[r].owner \in Owner /\ exec[r].out \in TerminalStatus
      BY <1>2, <1>18 DEF Finish, At, Executing
    <2> QED
      BY <1>0, <1>18, <2>1, MarkIsLease DEF Finish
  <1>19. ASSUME NEW r \in Top, Proceed(r) PROVE Goal
    BY <1>9, <1>10, <1>11, <1>12, <1>16, <1>17, <1>18, <1>19
       DEF Proceed, Entry, Prepared, Committed, Release, Publish, Return
  <1>20. ASSUME NEW r \in Top, Sweep(r) \/ Read(r) PROVE Goal
    BY <1>10, <1>20 DEF Sweep, List, SweepRelease, SweepPublish, Read, ReadRow, ReadEvents
  <1>21. CASE Tick
    BY <1>21 DEF Tick, L!Next
  <1>22. ASSUME NEW r \in Top,
                \/ Deliver(r) \/ PublishSignal(r) \/ Pick(r) \/ GraphRaisesRetryable(r)
                \/ NoticeCancel(r) \/ ShutDown(r) \/ Crash(r)
         PROVE  Goal
    BY <1>22 DEF Deliver, PublishSignal, Pick, GraphRaisesRetryable, NoticeCancel,
       ShutDown, Crash
  <1>23. CASE UNCHANGED vars
    BY <1>23 DEF vars
  <1> QED
    BY <1>3, <1>5, <1>6, <1>7, <1>8, <1>13, <1>14, <1>19, <1>20, <1>21, <1>22, <1>23
       DEF Next

\* The rely conditions are those of the rows.
LEMMA StepRely ==
    ASSUME LP!LeaseInv, WorkerInv, [Next]_vars PROVE Rely /\ LP!LeaseInv'
  <1>1. [LP!Next]_(LP!vars)
    BY StepIsLease, SameNext, SameConstants DEF L!vars, LP!vars, leaseVars
  <1>2. LP!LeaseInv'
    BY <1>1, LP!LeaseInvHolds, WorkerConstants
  <1>3. /\ \A x \in LP!Run : LP!Terminal(run[x]) => run'[x].status = run[x].status
        /\ \A x \in LP!Run : LP!Terminal(run[x]) /\ ~run[x].cleanup => ~run'[x].cleanup
        /\ \A o \in Owner : attempt[o].outcome # "unused" =>
              attempt'[o].run = attempt[o].run /\ attempt'[o].outcome # "unused"
    BY <1>1, LP!OverStays, WorkerConstants
  <1>4. /\ Top \subseteq LP!Run
        /\ \A row : LP!Terminal(row) <=> L!Terminal(row)
    BY DEF LP!Run, LP!Terminal, L!Terminal, LP!TerminalStatus, L!TerminalStatus
  <1> QED
    BY <1>2, <1>3, <1>4 DEF Rely
-----------------------------------------------------------------------------
(* The attempts keep to their run.                                          *)

\* The end a worker writes is the end it then announces.
LEMMA MarkEnds ==
    ASSUME LP!LeaseInv, NEW r \in Top, NEW o \in Owner, NEW s \in TerminalStatus,
           L!MarkTerminal(r, o, s) \/ L!CommitOutput(r, o, s)
    PROVE  Ended(r, s)'
  <1>1. r \in LP!Run /\ s \in LP!TerminalStatus
    BY SameConstants DEF LP!Run, TerminalStatus
  <1>2. run \in [LP!Run -> LP!RunRow]
    BY DEF LP!LeaseInv, LP!TypeOK
  <1>3. run[r].output \in Owner \cup {NoOwner}
    BY <1>1, <1>2 DEF LP!RunRow
  <1>4. PICK out \in Owner \cup {NoOwner} : LP!Publish(r, o, s, out)
    BY <1>3, SamePublish DEF L!MarkTerminal, L!CommitOutput
  <1>5. run'[r].status = s
    BY <1>1, <1>4, LP!PublishEnds, WorkerConstants
  <1> QED
    BY <1>5 DEF Ended

AttemptsKept ==
    /\ job' \in [Top -> JobState] /\ exec' \in [Top -> ExecState]
    /\ \A r \in Top : Fits(r, exec[r])' /\ JobFits(r)'

\* An attempt that keeps its record keeps what it is entitled to.
LEMMA StillFits ==
    ASSUME WorkerInv, Rely, NEW r \in Top, exec'[r] = exec[r] PROVE Fits(r, exec[r])'
  <1>1. Fits(r, exec[r]) /\ exec[r] \in ExecState
    BY DEF WorkerInv, Shapes
  <1>2. exec[r].owner # NoOwner =>
          attempt'[exec[r].owner].run = r /\ attempt'[exec[r].owner].outcome # "unused"
    BY <1>1 DEF Fits, Rely, ExecState
  <1>3. /\ Ended(r, exec[r].out) => Ended(r, exec[r].out)'
        /\ Told(r, exec[r].out) => Told(r, exec[r].out)'
    BY Stable DEF Ended, Told
  <1> QED
    BY <1>1, <1>2, <1>3 DEF Fits

\* The attempts of the other runs do not notice.
LEMMA OthersKept ==
    ASSUME WorkerInv, Rely, NEW r \in Top, Moved(r),
           \A x \in Top \ {r} : job'[x] = job[x]
    PROVE  \A x \in Top \ {r} : Fits(x, exec[x])' /\ JobFits(x)'
  <1> TAKE x \in Top \ {r}
  <1>1. exec'[x] = exec[x] /\ job'[x] = job[x]
    BY DEF Moved
  <1>2. JobFits(x)'
    BY <1>1 DEF WorkerInv, JobFits
  <1> QED
    BY <1>1, <1>2, StillFits

\* An attempt that goes on goes from one step of an active job to another.
LEMMA MoveKeeps ==
    ASSUME WorkerInv, Rely, NEW r \in Top, Moved(r), Fits(r, exec[r])',
           UNCHANGED job, exec[r].pc # "idle", exec'[r].pc # "idle"
    PROVE  AttemptsKept
  <1>1. JobFits(r)'
    BY DEF WorkerInv, JobFits
  <1> QED
    BY <1>1, OthersKept DEF AttemptsKept, Moved, WorkerInv, Shapes

\* An attempt that stops has no job to stop.
LEMMA IdleKeeps ==
    ASSUME WorkerInv, Rely, NEW r \in Top, Moved(r), exec'[r] = Idle,
           job' \in [Top -> JobState], job'[r].state # "active",
           \A x \in Top \ {r} : job'[x] = job[x]
    PROVE  AttemptsKept
  <1>1. Fits(r, exec[r])' /\ JobFits(r)'
    BY DEF Idle, Fits, JobFits, Executing
  <1> QED
    BY <1>1, OthersKept DEF AttemptsKept, Moved

LEMMA JobOK ==
    ASSUME job \in [Top -> JobState], NEW r \in Top,
           \/ job' = [job EXCEPT ![r] = NoJob]
           \/ job' = [job EXCEPT ![r].state = "queued"]
    PROVE  /\ job' \in [Top -> JobState] /\ job'[r].state # "active"
           /\ \A x \in Top \ {r} : job'[x] = job[x]
  <1>1. NoJob \in JobState
    BY WorkerConstants DEF NoJob, JobState
  <1>2. \/ job' = [job EXCEPT ![r] = NoJob]
        \/ job' = [job EXCEPT ![r] = [job[r] EXCEPT !.state = "queued"]]
    OBVIOUS
  <1> QED
    BY <1>1, <1>2 DEF NoJob, JobState

\* One step per action of an attempt; the others leave its process alone.
LEMMA ProceedKeeps ==
    ASSUME LP!LeaseInv, WorkerInv, Rely, NEW r \in Top, Proceed(r)
    PROVE  AttemptsKept
  <1>0. /\ exec \in [Top -> ExecState] /\ job \in [Top -> JobState]
        /\ Fits(r, exec[r]) /\ exec[r] \in ExecState
        /\ run \in [LP!Run -> LP!RunRow] /\ r \in LP!Run
    BY DEF WorkerInv, Shapes, LP!LeaseInv, LP!TypeOK, LP!Run
  <1>1. /\ exec[r].owner \in Owner \cup {NoOwner} /\ exec[r].out \in TerminalStatus \cup {"none"}
        /\ exec[r].then \in {"leave", "claim", "publish"}
        /\ exec[r].pc \in Executing =>
             exec[r].owner \in Owner /\ (exec[r].pc = "finish" => exec[r].out \in TerminalStatus)
    BY <1>0 DEF ExecState, Fits
  <1>2. /\ exec[r].owner # NoOwner =>
             attempt'[exec[r].owner].run = r /\ attempt'[exec[r].owner].outcome # "unused"
        /\ \A s : Ended(r, s) => Ended(r, s)'
        /\ \A s : Told(r, s) => Told(r, s)'
    BY <1>0, <1>1, Stable DEF Fits, Rely
  \* A handler is entered, or the attempt is over, or the runtime goes first.
  <1>3. ASSUME NEW pc \in {"stopping", "finish"}, NEW out \in TerminalStatus \cup {"none"},
               Handle(r, pc, out), pc = "finish" => out # "none",
               exec[r].pc \in Executing, UNCHANGED job
        PROVE  AttemptsKept
    <2>1. /\ Moved(r) /\ exec'[r].pc = pc /\ exec'[r].owner = exec[r].owner
          /\ exec'[r].out = out /\ exec'[r].then = "leave"
      BY <1>0, <1>3, HandleOK DEF Step
    <2>2. exec[r].owner # NoOwner
      BY <1>0, <1>3 DEF Fits
    <2>3. Fits(r, exec[r])'
      BY <1>2, <1>3, <2>1, <2>2 DEF Fits, Executing
    <2> QED
      BY <1>3, <2>1, <2>3, MoveKeeps DEF Executing
  <1>4. ASSUME NEW exit \in {"done", "retry", "again"}, Leave(r, exit),
               exec[r].pc # "idle", UNCHANGED job
        PROVE  AttemptsKept
    <2>1. /\ Moved(r) /\ exec'[r].pc = "leave" /\ exec'[r].owner = exec[r].owner
          /\ exec'[r].out = "none" /\ exec'[r].then = "leave"
      BY <1>0, <1>4, LeaveOK
    <2>2. Fits(r, exec[r])'
      BY <1>2, <2>1 DEF Fits, Executing
    <2> QED
      BY <1>4, <2>1, <2>2, MoveKeeps
  <1>5. ASSUME NEW then \in {"leave", "claim", "publish"},
               NEW out \in TerminalStatus \cup {"none"}, ReleaseThen(r, then, out),
               then = "publish" => Ended(r, out)', exec[r].pc # "idle", UNCHANGED job
        PROVE  AttemptsKept
    <2>1. /\ Moved(r) /\ exec'[r].pc = "release" /\ exec'[r].owner = exec[r].owner
          /\ exec'[r].out = out /\ exec'[r].then = then
      BY <1>0, <1>5, ReleaseThenOK
    <2>2. (exec'[r].then = "publish" => Ended(r, exec[r].out)')
      BY <1>5, <2>1 DEF Ended
    <2>3. Fits(r, exec[r])'
      BY <1>2, <2>1, <2>2 DEF Fits, Executing
    <2> QED
      BY <1>5, <2>1, <2>3, MoveKeeps
  <1>6. ASSUME NEW pc \in {"claim", "prepared", "graph"}, Goto(r, pc),
               pc # "claim" => exec[r].owner # NoOwner,
               exec[r].pc \notin {"idle", "release", "publish"}, UNCHANGED job
        PROVE  AttemptsKept
    <2>1. /\ Moved(r) /\ exec'[r].pc = pc /\ exec'[r].owner = exec[r].owner
          /\ exec'[r].out = exec[r].out /\ exec'[r].then = exec[r].then
      BY <1>0, <1>6, GotoOK DEF Step
    <2>2. exec'[r].then # "publish"
      BY <1>0, <1>6, <2>1 DEF Fits
    <2>3. Fits(r, exec[r])'
      BY <1>2, <1>6, <2>1, <2>2 DEF Fits, Executing
    <2> QED
      BY <1>6, <2>1, <2>3, MoveKeeps
  <1>7. ASSUME L!Terminal(run[r]) PROVE Ended(r, run[r].status)
    BY <1>7 DEF Ended, L!Terminal, TerminalStatus
  <1>8. CASE Entry(r)
    <2>1. Over(r) => Ended(r, run[r].status) /\ run[r].status \in TerminalStatus
      BY DEF Ended, Over, L!Terminal, TerminalStatus
    <2>2. ASSUME Over(r), ReleaseThen(r, "publish", run[r].status) PROVE AttemptsKept
      BY <1>2, <1>5, <1>8, <2>1, <2>2 DEF Entry, At
    <2> QED
      BY <1>4, <1>5, <1>6, <1>8, <2>2 DEF Entry, At
  <1>9. CASE Claim(r)
    <2>1. ASSUME NEW o \in Owner, L!Claim(r, o),
                 exec' = [exec EXCEPT ![r].pc = "prepare", ![r].owner = o]
          PROVE  AttemptsKept
      <3>1. exec' = [exec EXCEPT ![r] = [exec[r] EXCEPT !.pc = "prepare", !.owner = o]]
        BY <2>1
      <3>2. /\ Moved(r) /\ exec'[r].pc = "prepare" /\ exec'[r].owner = o
            /\ exec'[r].out = exec[r].out /\ exec'[r].then = exec[r].then
        BY <1>0, <3>1 DEF Moved, ExecState, Step
      <3>3. attempt'[o] = [run |-> r, outcome |-> "open"] /\ o # NoOwner
        BY <2>1, WorkerConstants DEF L!Claim, L!CloseAttempts
      <3>4. exec'[r].then # "publish"
        BY <1>0, <1>9, <3>2 DEF Fits, Claim, At
      <3>5. Fits(r, exec[r])'
        BY <3>2, <3>3, <3>4 DEF Fits, Executing
      <3> QED
        BY <1>9, <3>2, <3>5, MoveKeeps DEF Claim, At
    <2> QED
      BY <1>4, <1>9, <2>1 DEF Claim, At
  <1>10. CASE Prepare(r)
    <2>1. FailQuietly(r) => Leave(r, "done")
      BY DEF FailQuietly
    <2>2. exec[r].pc = "prepare" /\ exec[r].pc \in Executing /\ exec[r].owner # NoOwner
      BY <1>0, <1>10 DEF Prepare, At, Executing, Fits
    <2> QED
      BY <1>3, <1>4, <1>6, <1>10, <2>1, <2>2 DEF Prepare
  <1>11. CASE Prepared(r)
    <2>1. exec[r].pc = "prepared" /\ exec[r].pc \in Executing /\ exec[r].owner # NoOwner
      BY <1>0, <1>11 DEF Prepared, At, Executing, Fits
    <2> QED
      BY <1>3, <1>6, <1>11, <2>1 DEF Prepared
  <1>12. CASE Committed(r)
    <2>1. Ended(r, exec[r].out)
      BY <1>0, <1>12 DEF Committed, At, Fits
    <2> QED
      BY <1>1, <1>2, <1>5, <1>12, <2>1 DEF Committed, At
  <1>13. CASE Stopping(r)
    <2>1. exec[r].pc = "stopping" /\ exec[r].pc \in Executing /\ "cancelled" \in TerminalStatus
      BY <1>13 DEF Stopping, At, Executing, TerminalStatus, L!TerminalStatus
    <2> QED
      BY <1>3, <1>4, <1>13, <2>1 DEF Stopping
  <1>14. CASE Retryable(r)
    <2>1. /\ exec[r].pc = "retryable" /\ exec[r].pc \in Executing /\ exec[r].then # "publish"
          /\ {"cancelled", "failed"} \subseteq TerminalStatus
      BY <1>0, <1>14 DEF Retryable, At, Executing, TerminalStatus, L!TerminalStatus, Fits
    <2>2. ASSUME exec' = [exec EXCEPT ![r].pc = "release", ![r].exit = "retry"], UNCHANGED job
          PROVE  AttemptsKept
      <3>1. exec' = [exec EXCEPT ![r] = [exec[r] EXCEPT !.pc = "release", !.exit = "retry"]]
        BY <2>2
      <3>2. /\ Moved(r) /\ exec'[r].pc = "release" /\ exec'[r].owner = exec[r].owner
            /\ exec'[r].then = exec[r].then
        BY <1>0, <3>1 DEF Moved, ExecState, Step
      <3>3. Fits(r, exec[r])'
        BY <1>2, <2>1, <3>2 DEF Fits, Executing
      <3> QED
        BY <2>1, <2>2, <3>2, <3>3, MoveKeeps
    <2> QED
      BY <1>3, <1>4, <1>14, <2>1, <2>2 DEF Retryable
  <1>15. CASE Finish(r)
    <2>1. exec[r].pc = "finish" /\ exec[r].pc \in Executing
          /\ exec[r].owner \in Owner /\ exec[r].out \in TerminalStatus
      BY <1>1, <1>15 DEF Finish, At, Executing
    <2>2. ASSUME L!MarkTerminal(r, exec[r].owner, exec[r].out),
                 ReleaseThen(r, "publish", exec[r].out), UNCHANGED job
          PROVE  AttemptsKept
      BY <1>5, <2>1, <2>2, MarkEnds
    <2>3. ASSUME run[r].status = "interrupted", ReleaseThen(r, "publish", "interrupted"),
                 UNCHANGED job
          PROVE  AttemptsKept
      <3>1. Ended(r, "interrupted")
        BY <2>3 DEF Ended, TerminalStatus, L!TerminalStatus
      <3> QED
        BY <1>2, <1>5, <2>1, <2>3, <3>1 DEF Ended
    <2> QED
      BY <1>3, <1>4, <1>5, <1>15, <2>1, <2>2, <2>3 DEF Finish
  <1>16. CASE Release(r)
    <2>1. ASSUME Goto(r, exec[r].then), ~run'[r].cleanup, UNCHANGED job PROVE AttemptsKept
      <3>1. /\ Moved(r) /\ exec'[r].pc = exec[r].then /\ exec'[r].owner = exec[r].owner
            /\ exec'[r].out = exec[r].out /\ exec'[r].then = exec[r].then
        BY <1>0, <1>1, <2>1, GotoOK DEF Step
      <3>2. exec'[r].then = "publish" => Ended(r, exec[r].out)'
        BY <1>0, <1>2, <3>1 DEF Fits, Ended
      <3>3. Fits(r, exec[r])'
        BY <1>1, <1>2, <2>1, <3>1, <3>2 DEF Fits, Executing, Told
      <3> QED
        BY <1>1, <1>16, <2>1, <3>1, <3>3, MoveKeeps DEF Release, At
    <2>2. ASSUME L!ReleaseRuntime(r) PROVE ~run'[r].cleanup
      <3>1. run' = [run EXCEPT ![r] = [run[r] EXCEPT !.cleanup = FALSE]]
        BY <2>2 DEF L!ReleaseRuntime
      <3> QED
        BY <1>0, <3>1 DEF LP!RunRow
    <2>3. UNCHANGED leaseVars /\ ~run[r].cleanup => ~run'[r].cleanup
      BY DEF leaseVars
    <2> QED
      BY <1>4, <1>16, <2>1, <2>2, <2>3 DEF Release, At
  <1>17. CASE Publish(r)
    <2>1. exec[r].exit \in {"done", "retry", "again"}
      BY <1>0 DEF ExecState
    <2> QED
      BY <1>4, <1>17, <2>1 DEF Publish, At
  \* The job ends, or waits in the queue for its next attempt.
  <1>18. CASE Return(r)
    <2>1. /\ Moved(r) /\ exec'[r] = Idle
      BY <1>0, <1>18 DEF Return, Idle, Moved, ExecState, Step
    <2>2. /\ job' \in [Top -> JobState] /\ job'[r].state # "active"
          /\ \A x \in Top \ {r} : job'[x] = job[x]
      BY <1>0, <1>18, JobOK DEF Return
    <2> QED
      BY <2>1, <2>2, IdleKeeps
  <1> QED
    BY <1>8, <1>9, <1>10, <1>11, <1>12, <1>13, <1>14, <1>15, <1>16, <1>17, <1>18
       DEF Proceed

LEMMA StepKeepsAttempts ==
    ASSUME LP!LeaseInv, WorkerInv, Rely, [Next]_vars PROVE AttemptsKept
  <1>0. /\ exec \in [Top -> ExecState] /\ job \in [Top -> JobState]
        /\ \A r \in Top : Fits(r, exec[r]) /\ JobFits(r) /\ exec[r] \in ExecState
    BY DEF WorkerInv, Shapes
  \* The API, the subagents, the loops and the readers leave the attempts alone.
  <1>1. ASSUME UNCHANGED <<job, exec>> PROVE AttemptsKept
    <2>1. \A r \in Top : Fits(r, exec[r])'
      BY <1>1, StillFits
    <2> QED
      BY <1>0, <1>1, <2>1 DEF AttemptsKept, JobFits
  <1>2. ASSUME NEW r \in Top, NEW pc \in {"stopping", "finish", "retryable"},
               NEW out \in TerminalStatus \cup {"none"}, Handle(r, pc, out),
               pc = "finish" => out # "none", exec[r].owner # NoOwner,
               exec[r].pc # "idle", UNCHANGED job
        PROVE  AttemptsKept
    <2>1. /\ Moved(r) /\ exec'[r].pc = pc /\ exec'[r].owner = exec[r].owner
          /\ exec'[r].out = out /\ exec'[r].then = "leave"
      BY <1>0, <1>2, HandleOK DEF Step
    <2>2. attempt'[exec[r].owner].run = r /\ attempt'[exec[r].owner].outcome # "unused"
      BY <1>0, <1>2 DEF Fits, Rely, ExecState
    <2>3. Fits(r, exec[r])'
      BY <1>2, <2>1, <2>2 DEF Fits, Executing
    <2> QED
      BY <1>2, <2>1, <2>3, MoveKeeps
  <1>3. ASSUME NEW r \in Top, NEW exit \in {"done", "again"}, Leave(r, exit),
               exec[r].pc # "idle", UNCHANGED job
        PROVE  AttemptsKept
    <2>1. /\ Moved(r) /\ exec'[r].pc = "leave" /\ exec'[r].owner = exec[r].owner
          /\ exec'[r].out = "none" /\ exec'[r].then = "leave"
      BY <1>0, <1>3, LeaveOK
    <2>2. exec[r].owner # NoOwner =>
             attempt'[exec[r].owner].run = r /\ attempt'[exec[r].owner].outcome # "unused"
      BY <1>0 DEF Fits, Rely, ExecState
    <2>3. Fits(r, exec[r])'
      BY <2>1, <2>2 DEF Fits, Executing
    <2> QED
      BY <1>3, <2>1, <2>3, MoveKeeps
  <1>4. \A r \in Top : exec[r].pc \in Executing => exec[r].owner # NoOwner
    BY <1>0 DEF Fits
  <1>5. ASSUME NEW r \in Top, Deliver(r) PROVE AttemptsKept
    <2>1. [state |-> "queued", try |-> 0] \in JobState
      BY WorkerConstants DEF JobState
    <2>2. /\ job' \in [Top -> JobState] /\ job'[r].state = "queued"
          /\ exec' = exec /\ \A x \in Top \ {r} : job'[x] = job[x]
      BY <1>0, <1>5, <2>1 DEF Deliver
    <2>3. Moved(r)
      BY <1>0, <2>2 DEF Moved
    <2>4. exec[r].pc = "idle"
      BY <1>0, <1>5 DEF Deliver, JobFits
    <2>5. JobFits(r)'
      BY <2>2, <2>4 DEF JobFits
    <2>6. Fits(r, exec[r])'
      BY <2>2, StillFits
    <2> QED
      BY <2>2, <2>3, <2>5, <2>6, OthersKept DEF AttemptsKept, Moved
  <1>6. ASSUME NEW r \in Top, Pick(r) PROVE AttemptsKept
    <2>1. CASE job[r].try = MaxTries
      <3>1. /\ job' \in [Top -> JobState] /\ job'[r].state # "active" /\ exec' = exec
            /\ \A x \in Top \ {r} : job'[x] = job[x]
        BY <1>0, <1>6, <2>1, JobOK DEF Pick
      <3>2. Moved(r) /\ exec[r].pc = "idle"
        BY <1>0, <1>6, <3>1 DEF Pick, JobFits, Moved
      <3>3. JobFits(r)'
        BY <3>1, <3>2 DEF JobFits
      <3>4. Fits(r, exec[r])'
        BY <3>1, StillFits
      <3> QED
        BY <3>1, <3>2, <3>3, <3>4, OthersKept DEF AttemptsKept, Moved
    <2>2. CASE job[r].try # MaxTries
      <3>1. [state |-> "active", try |-> job[r].try + 1] \in JobState
        BY <1>0, <2>2, WorkerConstants DEF JobState
      <3>2. /\ job' \in [Top -> JobState] /\ job'[r].state = "active"
            /\ \A x \in Top \ {r} : job'[x] = job[x]
        BY <1>0, <1>6, <2>2, <3>1 DEF Pick
      <3>3. /\ Moved(r) /\ exec'[r].pc = "entry" /\ exec'[r].owner = exec[r].owner
            /\ exec'[r].out = exec[r].out /\ exec'[r].then = exec[r].then
        BY <1>0, <1>6, <2>2, GotoOK DEF Pick, Step
      <3>4. JobFits(r)'
        BY <3>2, <3>3 DEF JobFits
      <3>5. Fits(r, exec[r])'
        <4>1. exec[r].owner # NoOwner =>
                 attempt'[exec[r].owner].run = r /\ attempt'[exec[r].owner].outcome # "unused"
          BY <1>0 DEF Fits, Rely, ExecState
        <4>2. exec[r].then # "publish"
          <5>1. exec[r].pc = "idle"
            BY <1>0, <1>6 DEF Pick, JobFits
          <5> QED
            BY <1>0, <5>1 DEF Fits
        <4> QED
          BY <3>3, <4>1, <4>2 DEF Fits, Executing
      <3> QED
        BY <3>2, <3>3, <3>4, <3>5, OthersKept DEF AttemptsKept, Moved
    <2> QED
      BY <2>1, <2>2
  <1>7. ASSUME NEW r \in Top, GraphEnds(r) PROVE AttemptsKept
    <2>1. /\ exec[r].pc = "graph" /\ exec[r].owner \in Owner /\ exec[r].owner # NoOwner
          /\ exec[r].then # "publish"
          /\ {"completed", "interrupted", "failed", "cancelled"} \subseteq TerminalStatus
      BY <1>0, <1>7 DEF GraphEnds, At, Fits, Executing, ExecState, TerminalStatus,
         L!TerminalStatus
    <2>2. ASSUME NEW pc \in {"committed", "finish"}, NEW s \in TerminalStatus,
                 exec' = [exec EXCEPT ![r].pc = pc, ![r].out = s],
                 pc = "committed" => Ended(r, s)', UNCHANGED job
          PROVE  AttemptsKept
      <3>1. exec' = [exec EXCEPT ![r] = [exec[r] EXCEPT !.pc = pc, !.out = s]]
        BY <2>2
      <3>2. /\ Moved(r) /\ exec'[r].pc = pc /\ exec'[r].owner = exec[r].owner
            /\ exec'[r].out = s /\ exec'[r].then = exec[r].then
        BY <1>0, <3>1 DEF Moved, ExecState, Step
      <3>3. attempt'[exec[r].owner].run = r /\ attempt'[exec[r].owner].outcome # "unused"
        BY <1>0, <2>1 DEF Fits, Rely
      <3>4. "none" \notin TerminalStatus
        BY DEF TerminalStatus, L!TerminalStatus
      <3>5. Fits(r, exec[r])'
        BY <2>1, <2>2, <3>2, <3>3, <3>4 DEF Fits, Executing, Ended
      <3> QED
        BY <2>1, <2>2, <3>2, <3>5, MoveKeeps
    <2> QED
      BY <1>2, <1>7, <2>1, <2>2, MarkEnds DEF GraphEnds
  <1>8. ASSUME NEW r \in Top, Heartbeat(r) PROVE AttemptsKept
    <2>1. exec[r].pc # "idle"
      BY <1>8 DEF Heartbeat
    <2> QED
      BY <1>1, <1>3, <1>8, <2>1 DEF Heartbeat
  <1>9. ASSUME NEW r \in Top, GraphRaisesRetryable(r) \/ NoticeCancel(r) PROVE AttemptsKept
    <2>1. exec[r].pc = "graph" /\ exec[r].owner # NoOwner
      BY <1>4, <1>9 DEF GraphRaisesRetryable, NoticeCancel, At, Executing
    <2> QED
      BY <1>2, <1>9, <2>1 DEF GraphRaisesRetryable, NoticeCancel
  <1>10. ASSUME NEW r \in Top, ShutDown(r) PROVE AttemptsKept
    <2>1. exec[r].pc # "idle" /\ UNCHANGED job
      BY <1>10 DEF ShutDown
    <2> QED
      BY <1>2, <1>3, <1>10, <2>1 DEF ShutDown
  <1>11. ASSUME NEW r \in Top, Crash(r) PROVE AttemptsKept
    <2>1. Moved(r) /\ exec'[r] = Idle
      BY <1>0, <1>11 DEF Crash, Idle, Moved, ExecState, Step
    <2>2. /\ job' \in [Top -> JobState] /\ job'[r].state # "active"
          /\ \A x \in Top \ {r} : job'[x] = job[x]
      BY <1>0, <1>11, JobOK DEF Crash
    <2> QED
      BY <2>1, <2>2, IdleKeeps
  <1>12. ASSUME NEW r \in Top, Proceed(r) PROVE AttemptsKept
    BY <1>12, ProceedKeeps
  <1>13. ASSUME NEW r \in Top, \/ Create(r) \/ Cancel(r) \/ PublishSignal(r)
                               \/ Sweep(r) \/ Read(r)
         PROVE  AttemptsKept
    BY <1>1, <1>13 DEF Create, Cancel, PublishSignal, Sweep, List, SweepRelease,
       SweepPublish, Read, ReadRow, ReadEvents
  <1>14. ASSUME NEW r, NEW c, Spawn(c, r) \/ SubStep(c) \/ Reconcile(r) PROVE AttemptsKept
    BY <1>1, <1>14 DEF Spawn, SubStep, Reconcile
  <1>15. CASE Tick \/ UNCHANGED vars
    BY <1>1, <1>15 DEF Tick, vars
  <1> QED
    BY <1>5, <1>6, <1>7, <1>8, <1>9, <1>10, <1>11, <1>12, <1>13, <1>14, <1>15 DEF Next
-----------------------------------------------------------------------------
(* The loops and the readers: what they saw of an end stays true.           *)

\* What was known to be the end stays known.
LEMMA StillKnown ==
    ASSUME WorkerInv, Rely, NEW r \in Top
    PROVE  /\ sweep'[r] = sweep[r] => SweepKnows(r)'
           /\ reader'[r] = reader[r] => ReaderKnows(r)'
           /\ ends'[r] = ends[r] => EndsTold(r)'
  <1>1. /\ \A s : Ended(r, s) => run'[r].status = s
        /\ \A s : Ended(r, s) /\ ~run[r].cleanup => ~run'[r].cleanup
    BY DEF Rely, Ended, L!Terminal, TerminalStatus
  <1>2. SweepKnows(r) /\ ReaderKnows(r) /\ EndsTold(r)
    BY DEF WorkerInv
  <1> QED
    BY <1>1, <1>2 DEF SweepKnows, ReaderKnows, EndsTold, Told, Ended

\* A step of the sweep over the row of r.
LEMMA SweepKeeps ==
    ASSUME LP!LeaseInv, WorkerInv, Rely, NEW r \in Top, Sweep(r)
    PROVE  /\ sweep' \in [Top -> SweepState] /\ ends' \in [Top -> SUBSET TerminalStatus]
           /\ faults' \in 0..MaxFaults
           /\ \A x \in Top : SweepKnows(x)' /\ EndsTold(x)'
  <1>0. /\ sweep \in [Top -> SweepState] /\ ends \in [Top -> SUBSET TerminalStatus]
        /\ faults \in 0..MaxFaults
        /\ run \in [LP!Run -> LP!RunRow] /\ r \in LP!Run /\ run[r].status \in L!Status
        /\ SweepKnows(r) /\ EndsTold(r)
    BY SameConstants DEF WorkerInv, Shapes, LP!LeaseInv, LP!TypeOK, LP!Run, LP!RunRow
  <1>1. NoSweep \in SweepState /\ NoSweep.seen = "none" /\ "none" \notin TerminalStatus
    BY DEF NoSweep, SweepState, TerminalStatus, L!TerminalStatus
  <1>2. ASSUME NEW new \in SweepState, sweep' = [sweep EXCEPT ![r] = new],
               new.seen \in TerminalStatus =>
                   run'[r].status = new.seen /\ (new.pc = "released" => ~run'[r].cleanup)
        PROVE  sweep' \in [Top -> SweepState] /\ \A x \in Top : SweepKnows(x)'
    <2>1. SweepKnows(r)'
      BY <1>0, <1>2 DEF SweepKnows, Ended
    <2>2. ASSUME NEW x \in Top \ {r} PROVE SweepKnows(x)'
      BY <1>0, <1>2, StillKnown
    <2> QED
      BY <1>0, <1>2, <2>1, <2>2
  <1>3. ASSUME UNCHANGED ends PROVE \A x \in Top : EndsTold(x)'
    BY <1>3, StillKnown
  <1>4. /\ \A s : Ended(r, s) => run'[r].status = s
        /\ \A s : Told(r, s) => Told(r, s)'
    BY Stable DEF Ended
  <1>5. faults < MaxFaults => faults + 1 \in 0..MaxFaults
    BY <1>0, WorkerConstants
  <1>6. CASE List(r)
    <2>1. [pc |-> "listed", seen |-> run[r].status] \in SweepState
      BY <1>0 DEF SweepState
    <2>2. run' = run
      BY <1>6 DEF List, leaseVars
    <2> QED
      BY <1>0, <1>2, <1>3, <1>6, <2>1, <2>2 DEF List
  <1>7. CASE SweepRelease(r)
    <2>1. ASSUME ~run'[r].cleanup, sweep' = [sweep EXCEPT ![r].pc = "released"]
          PROVE  sweep' \in [Top -> SweepState] /\ \A x \in Top : SweepKnows(x)'
      <3> DEFINE new == [sweep[r] EXCEPT !.pc = "released"]
      <3>1. new \in SweepState /\ new.seen = sweep[r].seen /\ sweep' = [sweep EXCEPT ![r] = new]
        BY <1>0, <2>1 DEF SweepState
      <3>2. sweep[r].seen \in TerminalStatus => run'[r].status = sweep[r].seen
        BY <1>0, <1>4 DEF SweepKnows
      <3> HIDE DEF new
      <3> QED
        BY <1>2, <2>1, <3>1, <3>2
    <2>2. ASSUME L!ReleaseRuntime(r) PROVE ~run'[r].cleanup
      <3>1. run' = [run EXCEPT ![r] = [run[r] EXCEPT !.cleanup = FALSE]]
        BY <2>2 DEF L!ReleaseRuntime
      <3> QED
        BY <1>0, <3>1 DEF LP!RunRow
    <2>3. UNCHANGED leaseVars /\ ~run[r].cleanup => ~run'[r].cleanup
      BY DEF leaseVars
    <2>4. ASSUME sweep' = [sweep EXCEPT ![r] = NoSweep]
          PROVE  sweep' \in [Top -> SweepState] /\ \A x \in Top : SweepKnows(x)'
      BY <1>1, <1>2, <2>4
    <2>5. faults' \in 0..MaxFaults /\ UNCHANGED ends
      BY <1>0, <1>5, <1>7 DEF SweepRelease, Fault
    <2>6. sweep' \in [Top -> SweepState] /\ \A x \in Top : SweepKnows(x)'
      BY <1>7, <2>1, <2>2, <2>3, <2>4 DEF SweepRelease
    <2> QED
      BY <1>0, <1>3, <2>5, <2>6
  <1>8. CASE SweepPublish(r)
    <2>1. sweep' \in [Top -> SweepState] /\ \A x \in Top : SweepKnows(x)'
      BY <1>1, <1>2, <1>8 DEF SweepPublish
    <2>2. faults' \in 0..MaxFaults
      BY <1>0, <1>5, <1>8 DEF SweepPublish, Fault
    <2>3. ASSUME sweep[r].seen \in TerminalStatus,
                 ends' = [ends EXCEPT ![r] = ends[r] \cup {sweep[r].seen}]
          PROVE  ends' \in [Top -> SUBSET TerminalStatus] /\ \A x \in Top : EndsTold(x)'
      <3>1. Told(r, sweep[r].seen)
        BY <1>0, <1>8, <2>3 DEF SweepPublish, SweepKnows, Told
      <3>2. \A s \in ends'[r] : Told(r, s)
        BY <1>0, <2>3, <3>1 DEF EndsTold
      <3>3. EndsTold(r)'
        BY <1>4, <3>2 DEF EndsTold, Told, Ended
      <3>4. \A x \in Top \ {r} : EndsTold(x)'
        BY <1>0, <2>3, StillKnown
      <3> QED
        BY <1>0, <2>3, <3>3, <3>4
    <2> QED
      BY <1>0, <1>3, <1>8, <2>1, <2>2, <2>3 DEF SweepPublish
  <1> QED
    BY <1>6, <1>7, <1>8 DEF Sweep

\* A step of a client that reads the row of r, or its stream.
LEMMA ReadKeeps ==
    ASSUME LP!LeaseInv, WorkerInv, Rely, NEW r \in Top, Read(r)
    PROVE  reader' \in [Top -> ReaderState] /\ \A x \in Top : ReaderKnows(x)'
  <1>0. /\ reader \in [Top -> ReaderState] /\ ends \in [Top -> SUBSET TerminalStatus]
        /\ run \in [LP!Run -> LP!RunRow] /\ r \in LP!Run /\ run[r].status \in L!Status
        /\ run[r].cleanup \in BOOLEAN
        /\ ReaderKnows(r) /\ EndsTold(r) /\ run' = run
    BY SameConstants DEF WorkerInv, Shapes, LP!LeaseInv, LP!TypeOK, LP!Run, LP!RunRow,
       Read, ReadRow, ReadEvents, leaseVars
  <1>1. /\ Reader0 \in ReaderState /\ "absent" \notin TerminalStatus
        /\ "none" \notin TerminalStatus
    BY DEF Reader0, ReaderState, TerminalStatus, L!TerminalStatus, L!Status
  <1>2. ASSUME NEW new \in ReaderState, reader' = [reader EXCEPT ![r] = new],
               new.status \in TerminalStatus =>
                   Ended(r, new.status) /\ (new.clean => ~run[r].cleanup),
               new.end # "none" => Told(r, new.end)
        PROVE  reader' \in [Top -> ReaderState] /\ \A x \in Top : ReaderKnows(x)'
    <2>1. ReaderKnows(r)'
      BY <1>0, <1>2 DEF ReaderKnows, Ended, Told
    <2>2. ASSUME NEW x \in Top \ {r} PROVE ReaderKnows(x)'
      BY <1>0, <1>2, StillKnown
    <2> QED
      BY <1>0, <1>2, <2>1, <2>2
  <1>3. CASE ReadRow(r)
    <2> DEFINE new == [reader[r] EXCEPT !.pc = "events", !.status = run[r].status,
                                        !.clean = ~run[r].cleanup]
    <2>1. reader' = [reader EXCEPT ![r] = new]
      BY <1>3 DEF ReadRow
    <2>2. /\ new \in ReaderState /\ new.status = run[r].status
          /\ new.clean = ~run[r].cleanup /\ new.end = reader[r].end
      BY <1>0 DEF ReaderState
    <2> HIDE DEF new
    <2> QED
      BY <1>0, <1>2, <2>1, <2>2 DEF ReaderKnows, Ended
  <1>4. CASE ReadEvents(r)
    <2>1. ASSUME NEW s \in TerminalStatus, Told(r, s),
                 reader' = [reader EXCEPT ![r] = [Reader0 EXCEPT !.pc = "over", !.end = s]]
          PROVE  reader' \in [Top -> ReaderState] /\ \A x \in Top : ReaderKnows(x)'
      <3> DEFINE new == [Reader0 EXCEPT !.pc = "over", !.end = s]
      <3>1. new \in ReaderState /\ new.status = "absent" /\ new.end = s
        BY <1>1 DEF ReaderState, Reader0
      <3> HIDE DEF new
      <3>2. reader' = [reader EXCEPT ![r] = new]
        BY <2>1 DEF new
      <3> QED
        BY <1>1, <1>2, <2>1, <3>1, <3>2
    <2>2. ASSUME NEW s \in ends[r],
                 reader' = [reader EXCEPT ![r] = [Reader0 EXCEPT !.pc = "over", !.end = s]]
          PROVE  reader' \in [Top -> ReaderState] /\ \A x \in Top : ReaderKnows(x)'
      BY <1>0, <2>1, <2>2 DEF EndsTold, Told, Ended
    <2>3. ASSUME reader[r].status \in TerminalStatus, reader[r].clean,
                 reader' = [reader EXCEPT ![r] =
                              [Reader0 EXCEPT !.pc = "over", !.end = reader[r].status]]
          PROVE  reader' \in [Top -> ReaderState] /\ \A x \in Top : ReaderKnows(x)'
      BY <1>0, <2>1, <2>3 DEF ReaderKnows, Told
    <2>4. ASSUME reader' = [reader EXCEPT ![r] = Reader0]
          PROVE  reader' \in [Top -> ReaderState] /\ \A x \in Top : ReaderKnows(x)'
      BY <1>1, <1>2, <2>4 DEF Reader0
    <2> QED
      BY <1>4, <2>2, <2>3, <2>4 DEF ReadEvents
  <1> QED
    BY <1>3, <1>4 DEF Read

\* An attempt publishes what it is entitled to publish.
LEMMA PublishKeeps ==
    ASSUME WorkerInv, Rely, NEW r \in Top, Publish(r)
    PROVE  ends' \in [Top -> SUBSET TerminalStatus] /\ \A x \in Top : EndsTold(x)'
  <1>0. /\ ends \in [Top -> SUBSET TerminalStatus] /\ Fits(r, exec[r]) /\ EndsTold(r)
    BY DEF WorkerInv, Shapes
  <1>1. Told(r, exec[r].out) /\ exec[r].out \in TerminalStatus
    BY <1>0 DEF Publish, At, Fits, Told, Ended
  <1>2. ASSUME ends' = [ends EXCEPT ![r] = ends[r] \cup {exec[r].out}]
        PROVE  ends' \in [Top -> SUBSET TerminalStatus] /\ \A x \in Top : EndsTold(x)'
    <2>1. \A s \in ends'[r] : Told(r, s)
      BY <1>0, <1>1, <1>2 DEF EndsTold
    <2>2. EndsTold(r)'
      BY <2>1, Stable DEF EndsTold, Told, Ended
    <2>3. \A x \in Top \ {r} : EndsTold(x)'
      BY <1>0, <1>2, StillKnown
    <2> QED
      BY <1>0, <1>1, <1>2, <2>2, <2>3
  <1>3. UNCHANGED ends => \A x \in Top : EndsTold(x)'
    BY StillKnown
  <1> QED
    BY <1>0, <1>2, <1>3 DEF Publish
-----------------------------------------------------------------------------
\* Faults are counted, and only the attempts set and clear a cancel signal.
LEMMA CountersKept ==
    ASSUME WorkerInv, [Next]_vars
    PROVE  signal' \in [Top -> BOOLEAN] /\ faults' \in 0..MaxFaults
  <1>0. signal \in [Top -> BOOLEAN] /\ faults \in 0..MaxFaults
    BY DEF WorkerInv, Shapes
  <1>1. Fault => faults' \in 0..MaxFaults
    BY <1>0, WorkerConstants DEF Fault
  <1>2. ASSUME NEW r \in Top, Proceed(r)
        PROVE  signal' \in [Top -> BOOLEAN] /\ faults' \in 0..MaxFaults
    <2>1. CASE Release(r) \/ Publish(r)
      BY <1>0, <1>1, <2>1 DEF Release, Publish
    <2>2. CASE Return(r)
      <3> DEFINE b == signal[r] /\ ~(exec[r].owner # NoOwner /\ run[r].status = "cancelled")
      <3>1. signal' = [signal EXCEPT ![r] = b] /\ b \in BOOLEAN
        BY <2>2 DEF Return
      <3> HIDE DEF b
      <3> QED
        BY <1>0, <2>2, <3>1 DEF Return
    <2> QED
      BY <1>0, <1>2, <2>1, <2>2 DEF Proceed, Entry, Claim, Prepare, Prepared, Committed,
         Stopping, Retryable, Finish
  <1>3. ASSUME NEW r \in Top, PublishSignal(r)
        PROVE  signal' \in [Top -> BOOLEAN] /\ faults' \in 0..MaxFaults
    BY <1>0, <1>3 DEF PublishSignal
  <1>4. ASSUME NEW r \in Top,
               \/ GraphRaisesRetryable(r) \/ Heartbeat(r) \/ ShutDown(r) \/ Crash(r)
               \/ Sweep(r)
        PROVE  signal' \in [Top -> BOOLEAN] /\ faults' \in 0..MaxFaults
    BY <1>0, <1>1, <1>4 DEF GraphRaisesRetryable, Heartbeat, ShutDown, Crash, Sweep, List,
       SweepRelease, SweepPublish
  <1>5. ASSUME NEW r \in Top,
               \/ Create(r) \/ Deliver(r) \/ Cancel(r) \/ Pick(r) \/ GraphEnds(r)
               \/ NoticeCancel(r) \/ Read(r)
        PROVE  signal' \in [Top -> BOOLEAN] /\ faults' \in 0..MaxFaults
    BY <1>0, <1>5 DEF Create, Deliver, Cancel, Pick, GraphEnds, NoticeCancel, Read,
       ReadRow, ReadEvents
  <1>6. ASSUME NEW r, NEW c, Spawn(c, r) \/ SubStep(c) \/ Reconcile(r)
        PROVE  signal' \in [Top -> BOOLEAN] /\ faults' \in 0..MaxFaults
    BY <1>0, <1>6 DEF Spawn, SubStep, Reconcile
  <1>7. CASE Tick \/ UNCHANGED vars
    BY <1>0, <1>1, <1>7 DEF Tick, vars
  <1> QED
    BY <1>2, <1>3, <1>4, <1>5, <1>6, <1>7 DEF Next

\* Who changes what: the sweep lists, a client reads, they and an attempt that
\* publishes write the stream.
LEMMA WhoWrites ==
    ASSUME [Next]_vars
    PROVE  /\ UNCHANGED sweep \/ \E r \in Top : Sweep(r)
           /\ UNCHANGED reader \/ \E r \in Top : Read(r)
           /\ UNCHANGED ends \/ \E r \in Top : Sweep(r) \/ Publish(r)
  <1> DEFINE Goal == /\ UNCHANGED sweep \/ \E r \in Top : Sweep(r)
                     /\ UNCHANGED reader \/ \E r \in Top : Read(r)
                     /\ UNCHANGED ends \/ \E r \in Top : Sweep(r) \/ Publish(r)
  <1>1. ASSUME NEW r \in Top, Proceed(r) PROVE Goal
    BY <1>1 DEF Proceed, Entry, Claim, Prepare, Prepared, Committed, Stopping, Retryable,
       Finish, Release, Publish, Return
  <1>2. ASSUME NEW r \in Top,
               \/ Create(r) \/ Deliver(r) \/ Cancel(r) \/ PublishSignal(r) \/ Pick(r)
               \/ GraphEnds(r) \/ GraphRaisesRetryable(r) \/ Heartbeat(r)
               \/ NoticeCancel(r) \/ ShutDown(r) \/ Crash(r)
        PROVE  Goal
    BY <1>2 DEF Create, Deliver, Cancel, PublishSignal, Pick, GraphEnds,
       GraphRaisesRetryable, Heartbeat, NoticeCancel, ShutDown, Crash
  <1>3. ASSUME NEW r \in Top, Sweep(r) \/ Read(r) PROVE Goal
    BY <1>3 DEF Sweep, List, SweepRelease, SweepPublish, Read, ReadRow, ReadEvents
  <1>4. ASSUME NEW r, NEW c, Spawn(c, r) \/ SubStep(c) \/ Reconcile(r) PROVE Goal
    BY <1>4 DEF Spawn, SubStep, Reconcile
  <1>5. CASE Tick \/ UNCHANGED vars
    BY <1>5 DEF Tick, vars
  <1> QED
    BY <1>1, <1>2, <1>3, <1>4, <1>5 DEF Next

IInv == LP!LeaseInv /\ WorkerInv

LEMMA NextWorker == ASSUME IInv, [Next]_vars PROVE IInv'
  <1>0. Rely /\ LP!LeaseInv' /\ LP!LeaseInv /\ WorkerInv
    BY StepRely DEF IInv
  <1>1. AttemptsKept
    BY <1>0, StepKeepsAttempts
  <1>2. signal' \in [Top -> BOOLEAN] /\ faults' \in 0..MaxFaults
    BY <1>0, CountersKept
  <1>3. sweep' \in [Top -> SweepState] /\ \A r \in Top : SweepKnows(r)'
    <2>1. UNCHANGED sweep => \A r \in Top : SweepKnows(r)'
      BY <1>0, StillKnown
    <2> QED
      BY <1>0, <2>1, SweepKeeps, WhoWrites DEF WorkerInv, Shapes
  <1>4. reader' \in [Top -> ReaderState] /\ \A r \in Top : ReaderKnows(r)'
    <2>1. UNCHANGED reader => \A r \in Top : ReaderKnows(r)'
      BY <1>0, StillKnown
    <2> QED
      BY <1>0, <2>1, ReadKeeps, WhoWrites DEF WorkerInv, Shapes
  <1>5. ends' \in [Top -> SUBSET TerminalStatus] /\ \A r \in Top : EndsTold(r)'
    <2>1. UNCHANGED ends => \A r \in Top : EndsTold(r)'
      BY <1>0, StillKnown
    <2> QED
      BY <1>0, <2>1, SweepKeeps, PublishKeeps, WhoWrites DEF WorkerInv, Shapes
  <1> QED
    BY <1>0, <1>1, <1>2, <1>3, <1>4, <1>5 DEF IInv, WorkerInv, Shapes, AttemptsKept

LEMMA InitWorker == Init => IInv
  <1> SUFFICES ASSUME Init PROVE IInv
    OBVIOUS
  <1>1. LP!LeaseInv
    BY SameInit, LP!LeaseInvHolds, WorkerConstants DEF Init
  <1>2. /\ Idle \in ExecState /\ NoJob \in JobState /\ NoSweep \in SweepState
        /\ Reader0 \in ReaderState /\ "none" \notin TerminalStatus
        /\ "absent" \notin TerminalStatus
    BY WorkerConstants DEF Idle, ExecState, Step, NoJob, JobState, NoSweep, SweepState,
       Reader0, ReaderState, TerminalStatus, L!TerminalStatus, L!Status
  <1>3. Shapes
    BY <1>2, WorkerConstants DEF Init, Shapes
  <1>4. ASSUME NEW r \in Top
        PROVE  /\ Fits(r, exec[r]) /\ JobFits(r)
               /\ SweepKnows(r) /\ ReaderKnows(r) /\ EndsTold(r)
    <2>1. /\ exec[r] = Idle /\ job[r] = NoJob /\ sweep[r] = NoSweep /\ reader[r] = Reader0
          /\ ends[r] = {}
      BY DEF Init
    <2> QED
      BY <1>2, <2>1 DEF Idle, NoJob, NoSweep, Reader0, Fits, JobFits, SweepKnows,
         ReaderKnows, EndsTold, Executing
  <1> QED
    BY <1>1, <1>3, <1>4 DEF IInv, WorkerInv

LEMMA SpecInv == Spec => []IInv
  BY InitWorker, NextWorker, PTL DEF Spec

LEMMA InvType == IInv => TypeOK
  <1> SUFFICES ASSUME IInv PROVE TypeOK
    OBVIOUS
  <1>1. L!TypeOK
    BY SameConstants DEF IInv, LP!LeaseInv
  <1>2. ASSUME NEW r \in Top
        PROVE  /\ job[r].state \in {"none", "queued", "active"} /\ job[r].try \in 0..MaxTries
               /\ (job[r].state = "active") = (exec[r].pc # "idle")
               /\ exec[r].owner \in Owner \cup {NoOwner}
               /\ exec[r].pc \in {"prepare", "prepared", "graph", "committed", "finish",
                                  "stopping", "retryable"}
                    => exec[r].owner \in Owner /\ attempt[exec[r].owner].run = r
               /\ exec[r].pc = "publish" => exec[r].out \in TerminalStatus
               /\ ends[r] \subseteq TerminalStatus
               /\ reader[r].end \in TerminalStatus \cup {"none"}
    <2>1. job[r] \in JobState /\ exec[r] \in ExecState /\ ends[r] \subseteq TerminalStatus
          /\ reader[r] \in ReaderState
      BY DEF IInv, WorkerInv, Shapes
    <2>2. Fits(r, exec[r]) /\ JobFits(r)
      BY DEF IInv, WorkerInv
    <2>3. (job[r].state = "active") = (exec[r].pc # "idle")
      BY <2>2 DEF JobFits
    <2>4. exec[r].owner \in Owner \cup {NoOwner} /\ reader[r].end \in TerminalStatus \cup {"none"}
      BY <2>1 DEF ExecState, ReaderState
    <2>5. job[r].state \in {"none", "queued", "active"} /\ job[r].try \in 0..MaxTries
      BY <2>1 DEF JobState
    <2>6. exec[r].pc = "publish" => exec[r].out \in TerminalStatus
      BY <2>2 DEF Fits, Told, Ended
    <2> QED
      BY <2>1, <2>2, <2>3, <2>4, <2>5, <2>6 DEF Fits, Executing
  <1> QED
    BY <1>1, <1>2 DEF TypeOK, IInv, WorkerInv, Shapes

\* For any number of runs, owners, tries and faults, the processes and the
\* stream keep their shape, and an attempt only executes under its own token.
THEOREM WorkerTypes == Spec => []TypeOK
  BY SpecInv, InvType, PTL

\* The worker, its loops and the API do to the rows only what the transactions
\* of AgentRunLease do: whatever is proved about those holds of the worker.
THEOREM WorkerUsesLease == Spec => L!Spec
  <1>1. Init => L!Init
    BY DEF Init
  <1>2. IInv /\ [Next]_vars => [L!Next]_(L!vars)
    BY StepIsLease DEF IInv, L!vars, leaseVars
  <1> QED
    BY <1>1, <1>2, SpecInv, PTL DEF Spec, L!Spec

\* Every end event and every end a client got carry the status of the run,
\* whoever wrote it and however old the row was that its announcer had read.
THEOREM EndsAreTrue == Spec => []EndIsTrue
  <1>1. IInv => EndIsTrue
    BY DEF IInv, WorkerInv, EndIsTrue, ReaderKnows, EndsTold, Told, Ended
  <1> QED
    BY <1>1, SpecInv, PTL

\* No end is announced while the runtime of the run is still to be released.
THEOREM EndsAfterCleanup == Spec => []EndAfterCleanup
  <1>1. IInv => EndAfterCleanup
    BY DEF IInv, WorkerInv, EndAfterCleanup, ReaderKnows, EndsTold, Told
  <1> QED
    BY <1>1, SpecInv, PTL
=============================================================================
