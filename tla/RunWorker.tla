------------------------------ MODULE RunWorker ------------------------------
(***************************************************************************)
(* process_agent_run as a process: the ARQ job that executes one AgentRun, *)
(* the order of its steps inside one attempt, its heartbeat and its cancel  *)
(* watchers, the reconciliation loop that works beside it, the Redis stream *)
(* of run events and the SSE request that reads it.  Everything durable is  *)
(* an action of AgentRunLease; the steps below say who takes it and when.   *)
(* Only the end event of a stream is kept, as the set of the statuses end   *)
(* events carry; all other events are display data.  The attempts of the    *)
(* top-level runs are followed step by step; a subagent run, whose attempts *)
(* take the same steps, only appears as a tenant of the runtime scope.      *)
(***************************************************************************)
EXTENDS Integers

CONSTANTS
    Top, Sub, Owner, NoRun, NoOwner, LeaseTicks,   \* of AgentRunLease
    MaxTries,   \* WorkerSettings.max_tries
    MaxFaults   \* bound: failing calls, retryable errors, shutdowns, crashes

ASSUME WorkerConstants ==
    /\ Top \cap Sub = {} /\ NoRun \notin Top \cup Sub /\ NoOwner \notin Owner
    /\ LeaseTicks \in Nat \ {0}
    /\ MaxTries \in Nat \ {0} /\ MaxFaults \in Nat

VARIABLES
    run, attempt, latest, asked,  \* PostgreSQL, of AgentRunLease
    job,      \* ARQ: the job "run:<id>" and its tries
    exec,     \* the attempt that executes a job, between two awaits
    signal,   \* Redis: the cancel key of a run
    ends,     \* Redis: the statuses of the end events in a run's stream
    sweep,    \* reconcile_pending_runtime_cleanups: a listed row and its status
    reader,   \* stream_agent_run_events: the client's view of a run
    faults

leaseVars == <<run, attempt, latest, asked>>
vars == <<leaseVars, job, exec, signal, ends, sweep, reader, faults>>

L == INSTANCE AgentRunLease
Run == L!Run
TerminalStatus == L!TerminalStatus

\* An attempt: where it is, its owner token, the status it wants to write or to
\* announce, where it goes once the runtime is released, how its job ends, and
\* whether it has left the try body for an exception handler.
Idle == [pc |-> "idle", owner |-> NoOwner, out |-> "none", then |-> "leave",
         exit |-> "done", handler |-> FALSE]
NoJob == [state |-> "none", try |-> 0]
NoSweep == [pc |-> "idle", seen |-> "none"]
Reader0 == [pc |-> "row", status |-> "absent", clean |-> FALSE, end |-> "none"]

Init ==
    /\ L!Init
    /\ job = [r \in Top |-> NoJob]
    /\ exec = [r \in Top |-> Idle]
    /\ signal = [r \in Top |-> FALSE]
    /\ ends = [r \in Top |-> {}]
    /\ sweep = [r \in Top |-> NoSweep]
    /\ reader = [r \in Top |-> Reader0]
    /\ faults = 0

Fault == faults < MaxFaults /\ faults' = faults + 1

At(r, pc) == exec[r].pc = pc
Cancelling(r) == run[r].status = "cancel_requested"
Over(r) == L!Terminal(run[r])

\* Another run of the scope still uses the runtime.
Busy(r) == \E x \in Run \ {r} : L!Live(run[x])

\* The guards of mark_running, release_lease_for_retry, set_terminal_status.
Claimable(r) ==
    /\ ~run[r].cleanup
    /\ run[r].status = "pending" \/ (Cancelling(r) /\ run[r].worker = NoOwner)
Releasable(r) == run[r].status = "running" /\ L!Holds(run[r], exec[r].owner)
CanMark(r, s) ==
    /\ run[r].status \in L!LeasedStatus /\ L!Holds(run[r], exec[r].owner)
    /\ Cancelling(r) = (s = "cancelled")
    /\ s = "completed" => run[r].output # NoOwner

\* The attempt of r goes to pc and nothing else happens to it.
Goto(r, pc) == exec' = [exec EXCEPT ![r].pc = pc]
Leave(r, exit) ==
    exec' = [exec EXCEPT ![r].pc = "leave", ![r].out = "none",
                         ![r].then = "leave", ![r].exit = exit]
Handle(r, pc, out) ==
    exec' = [exec EXCEPT ![r].pc = pc, ![r].out = out, ![r].then = "leave",
                         ![r].exit = "done", ![r].handler = TRUE]
ReleaseThen(r, then, out) ==
    exec' = [exec EXCEPT ![r].pc = "release", ![r].then = then, ![r].out = out]

-----------------------------------------------------------------------------
(* The API: a run is created, delivered, cancelled.                         *)

Create(r) ==
    /\ L!CreateChat(r)
    /\ UNCHANGED <<job, exec, signal, ends, sweep, reader, faults>>

\* Mutant: a run that was started once is not delivered again.
DeliverOnce(r) ==
    /\ L!NeverStarted(run[r]) /\ job[r].state = "none"
    /\ job' = [job EXCEPT ![r] = [state |-> "queued", try |-> 0]]
    /\ UNCHANGED <<leaseVars, exec, signal, ends, sweep, reader, faults>>

\* enqueue_agent_run, by the creator or by dispatch_next_request for a run that
\* is still pending; the job id makes it a no-op while there is a job.
Deliver(r) ==
    /\ run[r].status = "pending" /\ job[r].state = "none"
    /\ job' = [job EXCEPT ![r] = [state |-> "queued", try |-> 0]]
    /\ UNCHANGED <<leaseVars, exec, signal, ends, sweep, reader, faults>>

Cancel(r) ==
    /\ ~Over(r) /\ r \notin asked
    /\ L!RequestCancel(r, TRUE)
    /\ UNCHANGED <<job, exec, signal, ends, sweep, reader, faults>>

\* publish_cancel_signal, after the commit; nothing makes it happen, and once
\* the run is over nobody waits for it.
PublishSignal(r) ==
    /\ Cancelling(r) /\ ~signal[r]
    /\ signal' = [signal EXCEPT ![r] = TRUE]
    /\ UNCHANGED <<leaseVars, job, exec, ends, sweep, reader, faults>>

-----------------------------------------------------------------------------
(* One attempt.                                                             *)

\* ARQ starts the job, or drops it when its tries are used up.
Pick(r) ==
    /\ job[r].state = "queued"
    /\ IF job[r].try = MaxTries
       THEN job' = [job EXCEPT ![r] = NoJob] /\ UNCHANGED exec
       ELSE /\ job' = [job EXCEPT ![r] = [state |-> "active", try |-> job[r].try + 1]]
            /\ Goto(r, "entry")
    /\ UNCHANGED <<leaseVars, signal, ends, sweep, reader, faults>>

\* A run that is over is tidied; a runtime of an earlier attempt goes first.
Entry(r) ==
    /\ At(r, "entry")
    /\ \/ /\ Over(r) /\ L!FinishTreeChildren(r)
          /\ IF run[r].cleanup THEN ReleaseThen(r, "publish", run[r].status)
             ELSE Leave(r, "done")
       \/ /\ ~Over(r) /\ UNCHANGED leaseVars
          /\ IF run[r].cleanup THEN ReleaseThen(r, "claim", "none") ELSE Goto(r, "claim")
    /\ UNCHANGED <<job, signal, ends, sweep, reader, faults>>

\* Mutant: the attempt runs without the token it claimed the run with.
ClaimTokenless(r) ==
    /\ At(r, "claim")
    /\ \/ \E fresh \in Owner : L!Claim(r, fresh) /\ Goto(r, "prepare")
       \/ ~Claimable(r) /\ Leave(r, "done") /\ UNCHANGED leaseVars
    /\ UNCHANGED <<job, signal, ends, sweep, reader, faults>>

\* mark_run_running with the owner token of a new attempt.
Claim(r) ==
    /\ At(r, "claim")
    /\ \/ LET fresh == CHOOSE o \in Owner : attempt[o].outcome = "unused" IN
          /\ \E o \in Owner : attempt[o].outcome = "unused"
          /\ L!Claim(r, fresh)
          /\ exec' = [exec EXCEPT ![r].pc = "prepare", ![r].owner = fresh]
       \/ ~Claimable(r) /\ Leave(r, "done") /\ UNCHANGED leaseVars
    /\ UNCHANGED <<job, signal, ends, sweep, reader, faults>>

\* mark_run_terminal(failed) and return: no end event, no release.
FailQuietly(r) ==
    /\ IF CanMark(r, "failed") THEN L!MarkTerminal(r, exec[r].owner, "failed")
       ELSE UNCHANGED leaseVars
    /\ Leave(r, "done")

\* The cancel check, the validation of the inputs and the write-once manifest,
\* which a second attempt finds recorded.
Prepare(r) ==
    /\ At(r, "prepare")
    /\ \/ Cancelling(r) /\ Handle(r, "stopping", "none") /\ UNCHANGED leaseVars
       \/ FailQuietly(r)
       \/ /\ \E m \in {"light", "workspace"} : L!RecordManifest(r, exec[r].owner, m)
          /\ Goto(r, "prepared")
       \/ run[r].manifest # "none" /\ Goto(r, "prepared") /\ UNCHANGED leaseVars
    /\ UNCHANGED <<job, signal, ends, sweep, reader, faults>>

\* The second cancel check; run_ctx.start and the stream of the graph.
Prepared(r) ==
    /\ At(r, "prepared")
    /\ IF Cancelling(r) THEN Handle(r, "stopping", "none") ELSE Goto(r, "graph")
    /\ UNCHANGED <<leaseVars, job, signal, ends, sweep, reader, faults>>

\* The graph ends: the chat service commits the output and the end status, or
\* the stream yields an error or an interruption, or the graph raises.
GraphEnds(r) ==
    /\ At(r, "graph")
    /\ \/ \E s \in {"completed", "interrupted"} :
            /\ L!CommitOutput(r, exec[r].owner, s)
            /\ exec' = [exec EXCEPT ![r].pc = "committed", ![r].out = s]
       \/ /\ \E s \in {"failed", IF Cancelling(r) THEN "cancelled" ELSE "interrupted"} :
               exec' = [exec EXCEPT ![r].pc = "finish", ![r].out = s]
          /\ UNCHANGED leaseVars
       \/ Handle(r, "finish", "failed") /\ UNCHANGED leaseVars
    /\ UNCHANGED <<job, signal, ends, sweep, reader, faults>>

\* The task tool of a graph creates a subagent run of the same runtime scope.
Spawn(c, r) ==
    /\ At(r, "graph") /\ L!CreateSub(c, r)
    /\ UNCHANGED <<job, exec, signal, ends, sweep, reader, faults>>

\* Another worker claims the subagent run and ends it in its own time.
SubStep(c) ==
    /\ \/ LET fresh == CHOOSE o \in Owner : attempt[o].outcome = "unused" IN
          /\ \E o \in Owner : attempt[o].outcome = "unused"
          /\ L!Claim(c, fresh)
       \/ \E s \in {"failed", "cancelled"} : L!MarkTerminal(c, run[c].worker, s)
    /\ UNCHANGED <<job, exec, signal, ends, sweep, reader, faults>>

GraphRaisesRetryable(r) ==
    /\ At(r, "graph") /\ Fault
    /\ Handle(r, "retryable", "none")
    /\ UNCHANGED <<leaseVars, job, signal, ends, sweep, reader>>

\* Mutant: the finished chunk is announced before the runtime is released.
CommittedEarly(r) ==
    /\ At(r, "committed")
    /\ exec' = [exec EXCEPT ![r].pc = "publish"]
    /\ UNCHANGED <<leaseVars, job, signal, ends, sweep, reader, faults>>

\* The worker reads the last chunk of a stream that committed the end itself.
Committed(r) ==
    /\ At(r, "committed")
    /\ IF exec[r].out = "completed" THEN L!FinishTreeChildren(r) ELSE UNCHANGED leaseVars
    /\ ReleaseThen(r, "publish", exec[r].out)
    /\ UNCHANGED <<job, signal, ends, sweep, reader, faults>>

\* _heartbeat_lease: a renewal that is refused or fails stops the stream, and
\* the attempt returns without a word.
Heartbeat(r) ==
    /\ exec[r].pc \in {"graph", "committed", "finish"}
    /\ \/ /\ run[r].lease < LeaseTicks /\ L!Renew(r, exec[r].owner)
          /\ UNCHANGED <<exec, faults>>
       \/ /\ ~At(r, "finish") /\ UNCHANGED leaseVars
          /\ \/ Fault
             \/ ~(run[r].status \in L!LeasedStatus /\ L!Holds(run[r], exec[r].owner))
                /\ UNCHANGED faults
          /\ Leave(r, "done")
    /\ UNCHANGED <<job, signal, ends, sweep, reader>>

\* Mutant: only the Redis signal is watched.
NoticeSignal(r) ==
    /\ At(r, "graph") /\ signal[r]
    /\ Handle(r, "stopping", "none")
    /\ UNCHANGED <<leaseVars, job, signal, ends, sweep, reader, faults>>

\* is_cancelled, _watch_cancel_signal and _watch_durable_cancel.
NoticeCancel(r) ==
    /\ At(r, "graph") /\ (Cancelling(r) \/ signal[r])
    /\ Handle(r, "stopping", "none")
    /\ UNCHANGED <<leaseVars, job, signal, ends, sweep, reader, faults>>

\* except CancelledError: a cancellation PostgreSQL confirms ends the run, any
\* other releases it for a later attempt and is raised again.
Stopping(r) ==
    /\ At(r, "stopping")
    /\ IF Cancelling(r)
       THEN Handle(r, "finish", "cancelled") /\ UNCHANGED leaseVars
       ELSE /\ IF Releasable(r) THEN L!ReleaseForRetry(r, exec[r].owner)
               ELSE UNCHANGED leaseVars
            /\ Leave(r, "again")
    /\ UNCHANGED <<job, signal, ends, sweep, reader, faults>>

\* except Exception, for an error that may go away.
Retryable(r) ==
    /\ At(r, "retryable")
    /\ \/ Cancelling(r) /\ Handle(r, "finish", "cancelled") /\ UNCHANGED leaseVars
       \/ /\ ~Cancelling(r) /\ job[r].try >= MaxTries
          /\ Handle(r, "finish", "failed") /\ UNCHANGED leaseVars
       \/ /\ ~Cancelling(r) /\ job[r].try < MaxTries /\ Releasable(r)
          /\ L!ReleaseForRetry(r, exec[r].owner)
          /\ exec' = [exec EXCEPT ![r].pc = "release", ![r].exit = "retry"]
       \/ /\ ~Cancelling(r) /\ job[r].try < MaxTries /\ ~Releasable(r)
          /\ Leave(r, "done") /\ UNCHANGED leaseVars
    /\ UNCHANGED <<job, signal, ends, sweep, reader, faults>>

\* Mutant: the status wanted is announced even when somebody else's was written.
FinishUnchecked(r) ==
    /\ At(r, "finish")
    /\ IF CanMark(r, exec[r].out) THEN L!MarkTerminal(r, exec[r].owner, exec[r].out)
       ELSE UNCHANGED leaseVars
    /\ ReleaseThen(r, "publish", exec[r].out)
    /\ UNCHANGED <<job, signal, ends, sweep, reader, faults>>

\* _finish_run and _finish_user_cancel: one writer wins, and only the winner
\* announces the end, except that an interruption is announced again.
Finish(r) ==
    /\ At(r, "finish")
    /\ \/ /\ CanMark(r, exec[r].out)
          /\ L!MarkTerminal(r, exec[r].owner, exec[r].out)
          /\ ReleaseThen(r, "publish", exec[r].out)
       \/ /\ ~CanMark(r, exec[r].out) /\ Over(r) /\ UNCHANGED leaseVars
          /\ IF exec[r].out = "interrupted" /\ run[r].status = "interrupted"
             THEN ReleaseThen(r, "publish", "interrupted")
             ELSE ReleaseThen(r, "leave", "none")
       \/ /\ ~CanMark(r, exec[r].out) /\ ~Over(r) /\ UNCHANGED leaseVars
          /\ IF Cancelling(r) /\ ~exec[r].handler THEN Handle(r, "stopping", "none")
             ELSE Leave(r, "done")
    /\ UNCHANGED <<job, signal, ends, sweep, reader, faults>>

\* _require_runtime_cleanup: what fails is left to a retry of the job.
Release(r) ==
    /\ At(r, "release")
    /\ \/ /\ run[r].cleanup /\ L!ReleaseRuntime(r)
          /\ Goto(r, exec[r].then) /\ UNCHANGED faults
       \/ /\ ~run[r].cleanup /\ UNCHANGED leaseVars
          /\ Goto(r, exec[r].then) /\ UNCHANGED faults
       \/ /\ run[r].cleanup /\ UNCHANGED leaseVars
          /\ Fault \/ (Busy(r) /\ UNCHANGED faults)
          /\ Leave(r, "retry")
    /\ UNCHANGED <<job, signal, ends, sweep, reader>>

\* _append_end_event: Redis may refuse it, and nobody tries again.
Publish(r) ==
    /\ At(r, "publish")
    /\ \/ ends' = [ends EXCEPT ![r] = @ \cup {exec[r].out}] /\ UNCHANGED faults
       \/ Fault /\ UNCHANGED ends
    /\ Leave(r, exec[r].exit)
    /\ UNCHANGED <<leaseVars, job, signal, sweep, reader>>

\* finally, and what ARQ makes of the outcome: a Retry and a cancelled job run
\* again, a job that timed out does not.
Return(r) ==
    /\ At(r, "leave")
    /\ IF exec[r].owner # NoOwner /\ Over(r) THEN L!FinishTreeChildren(r)
       ELSE UNCHANGED leaseVars
    /\ signal' = [signal EXCEPT ![r] = @ /\ ~(exec[r].owner # NoOwner
                                              /\ run[r].status = "cancelled")]
    /\ exec' = [exec EXCEPT ![r] = Idle]
    /\ \/ exec[r].exit # "retry" /\ job' = [job EXCEPT ![r] = NoJob]
       \/ exec[r].exit # "done" /\ job' = [job EXCEPT ![r].state = "queued"]
    /\ UNCHANGED <<ends, sweep, reader, faults>>

\* The worker shuts down, or job_timeout passes: CancelledError at an await; the
\* durable poll that fails sets cancel_event, with the same effect.  Before the claim and in a handler there is nobody to catch it.
ShutDown(r) ==
    /\ exec[r].pc \notin {"idle", "leave", "stopping"} /\ Fault
    /\ IF exec[r].owner = NoOwner \/ exec[r].handler THEN Leave(r, "again")
       ELSE Handle(r, "stopping", "none")
    /\ UNCHANGED <<leaseVars, job, signal, ends, sweep, reader>>

\* The process dies; ARQ starts the job again.
Crash(r) ==
    /\ exec[r].pc # "idle" /\ Fault
    /\ exec' = [exec EXCEPT ![r] = Idle]
    /\ job' = [job EXCEPT ![r].state = "queued"]
    /\ UNCHANGED <<leaseVars, signal, ends, sweep, reader>>

-----------------------------------------------------------------------------
(* _reconcile_agent_run_leases_forever, of some worker.                     *)

Reconcile(r) ==
    /\ L!Reconcile({r})
    /\ UNCHANGED <<job, exec, signal, ends, sweep, reader, faults>>

\* reconcile_pending_runtime_cleanups lists the rows and then works on them
\* with what it read.
List(r) ==
    /\ sweep[r].pc = "idle" /\ run[r].cleanup
    /\ sweep' = [sweep EXCEPT ![r] = [pc |-> "listed", seen |-> run[r].status]]
    /\ UNCHANGED <<leaseVars, job, exec, signal, ends, reader, faults>>

SweepRelease(r) ==
    /\ sweep[r].pc = "listed"
    /\ \/ /\ run[r].cleanup /\ L!ReleaseRuntime(r) /\ UNCHANGED faults
          /\ sweep' = [sweep EXCEPT ![r].pc = "released"]
       \/ /\ ~run[r].cleanup /\ UNCHANGED <<leaseVars, faults>>
          /\ sweep' = [sweep EXCEPT ![r].pc = "released"]
       \/ /\ run[r].cleanup /\ UNCHANGED leaseVars
          /\ Fault \/ (Busy(r) /\ UNCHANGED faults)
          /\ sweep' = [sweep EXCEPT ![r] = NoSweep]
    /\ UNCHANGED <<job, exec, signal, ends, reader>>

\* The end event carries the status that was listed; Redis may refuse it, and
\* the process may die before.
SweepPublish(r) ==
    /\ sweep[r].pc = "released"
    /\ \/ /\ ends' = IF sweep[r].seen \in TerminalStatus
                     THEN [ends EXCEPT ![r] = @ \cup {sweep[r].seen}] ELSE ends
          /\ UNCHANGED faults
       \/ Fault /\ UNCHANGED ends
    /\ sweep' = [sweep EXCEPT ![r] = NoSweep]
    /\ UNCHANGED <<leaseVars, job, exec, signal, reader>>

-----------------------------------------------------------------------------
(* stream_agent_run_events: the row is read first, then the stream.         *)

ReadRow(r) ==
    /\ reader[r].pc = "row" /\ run[r].status # "absent"
    /\ reader' = [reader EXCEPT ![r].pc = "events", ![r].status = run[r].status,
                                ![r].clean = ~run[r].cleanup]
    /\ UNCHANGED <<leaseVars, job, exec, signal, ends, sweep, faults>>

\* An end event of the stream is passed on; without one the end is made up from
\* the row that was read, once it is terminal and owes no cleanup.  Otherwise,
\* and after an error or SSE_MAX_CONNECTION_MINUTES, the client polls again.
ReadEvents(r) ==
    /\ reader[r].pc = "events"
    /\ \/ \E s \in ends[r] :
            reader' = [reader EXCEPT ![r] = [Reader0 EXCEPT !.pc = "over", !.end = s]]
       \/ /\ ends[r] = {}
          /\ reader' = [reader EXCEPT ![r] =
               IF reader[r].status \in TerminalStatus /\ reader[r].clean
               THEN [Reader0 EXCEPT !.pc = "over", !.end = reader[r].status] ELSE Reader0]
    /\ UNCHANGED <<leaseVars, job, exec, signal, ends, sweep, faults>>

-----------------------------------------------------------------------------
\* RUN_HEARTBEAT_SECONDS is a quarter of RUN_LEASE_SECONDS: the lease of an
\* attempt with a running heartbeat only lapses when its process stalls.
Beating(r) ==
    /\ exec[r].pc \in {"graph", "committed", "finish"}
    /\ run[r].worker = exec[r].owner

Tick ==
    /\ L!Tick
    /\ IF \E r \in Top : Beating(r) /\ run[r].lease = 1 THEN Fault ELSE UNCHANGED faults
    /\ UNCHANGED <<job, exec, signal, ends, sweep, reader>>

\* The steps an executing attempt takes by itself; the graph is not one of them.
Proceed(r) ==
    \/ Entry(r) \/ Claim(r) \/ Prepare(r) \/ Prepared(r) \/ Committed(r)
    \/ Stopping(r) \/ Retryable(r) \/ Finish(r) \/ Release(r) \/ Publish(r) \/ Return(r)

Sweep(r) == List(r) \/ SweepRelease(r) \/ SweepPublish(r)
Read(r) == ReadRow(r) \/ ReadEvents(r)

Next ==
    \/ \E r \in Top, c \in Sub : Spawn(c, r)
    \/ \E c \in Sub : SubStep(c)
    \/ \E r \in Run : Reconcile(r)
    \/ \E r \in Top :
        \/ Create(r) \/ Deliver(r) \/ Cancel(r) \/ PublishSignal(r)
        \/ Pick(r) \/ Proceed(r) \/ GraphEnds(r) \/ GraphRaisesRetryable(r)
        \/ Heartbeat(r) \/ NoticeCancel(r)
        \/ ShutDown(r) \/ Crash(r)
        \/ Sweep(r) \/ Read(r)
    \/ Tick

Spec == Init /\ [][Next]_vars

\* What a job does next; no two of these are possible at once.
Work(r) == Deliver(r) \/ Pick(r) \/ Proceed(r) \/ NoticeCancel(r)

\* Some worker is alive and takes jobs; its event loop runs what is ready, its
\* watchers and reconciliation loop wake up for ever, time passes and the
\* client of the run polls or reconnects.  The graph may run for ever.
FairSpec ==
    /\ Spec
    /\ WF_vars(Tick) /\ WF_vars(\E r \in Run : Reconcile(r))
    /\ \A c \in Sub : WF_vars(SubStep(c))
    /\ \A r \in Top : WF_vars(Work(r)) /\ WF_vars(Sweep(r)) /\ WF_vars(Read(r))
-----------------------------------------------------------------------------
(* Processes and streams keep their shape, and an attempt only executes the *)
(* graph, or what follows it, under an owner token of its own.              *)
TypeOK ==
    /\ L!TypeOK
    /\ \A r \in Top :
        /\ job[r].state \in {"none", "queued", "active"} /\ job[r].try \in 0..MaxTries
        /\ (job[r].state = "active") = (exec[r].pc # "idle")
        /\ exec[r].owner \in Owner \cup {NoOwner}
        /\ exec[r].pc \in {"prepare", "prepared", "graph", "committed", "finish",
                           "stopping", "retryable"}
             => exec[r].owner \in Owner /\ attempt[exec[r].owner].run = r
        /\ exec[r].pc = "publish" => exec[r].out \in TerminalStatus
        /\ ends[r] \subseteq TerminalStatus
        /\ reader[r].end \in TerminalStatus \cup {"none"}
    /\ faults \in 0..MaxFaults

\* Nobody announces an end that PostgreSQL does not hold, whoever wrote it and
\* however old the row the announcer read: every end event of the stream, and
\* the end a client got, carry the status of the run.
EndIsTrue ==
    \A r \in Top :
        /\ \A s \in ends[r] : run[r].status = s
        /\ reader[r].end # "none" => run[r].status = reader[r].end

\* An end is only announced once the runtime behind the run is released, so
\* the client's next turn cannot run into its deletion.
EndAfterCleanup ==
    \A r \in Top : ends[r] # {} \/ reader[r].end # "none" => ~run[r].cleanup

\* A pending run is executed or cancelled, whatever its last job ran into.
PendingIsRun == \A r \in Top : run[r].status = "pending" ~> run[r].status # "pending"

\* A run that is over, that the user asked to cancel, or whose lease lapsed
\* ends, and its client learns of it: even when the cancel signal is lost, the
\* graph never yields, the worker is dead or the end event was never sent.
EndIsTold ==
    \A r \in Top :
        Over(r) \/ Cancelling(r) \/ (run[r].status = "running" /\ run[r].lease <= 0)
            ~> Over(r) /\ reader[r].pc = "over"
=============================================================================
