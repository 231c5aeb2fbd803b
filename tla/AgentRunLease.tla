---------------------------- MODULE AgentRunLease ----------------------------
(***************************************************************************)
(* The durable life of the AgentRuns of one conversation thread: the rows  *)
(* of agent_runs and agent_run_attempts, and every transaction of          *)
(* AgentRunRepository that changes them.  Each action is one transaction   *)
(* under the row lock of the run it names; who calls it, and when, is left *)
(* open, so the properties hold whatever the workers, the reconciler and   *)
(* the users do.                                                           *)
(*                                                                         *)
(* A top-level run is a chat (no creator) or a resume (created by the      *)
(* interrupted run it continues).  A subagent run is created by a          *)
(* top-level run.  All of them share the runtime scope of the thread.      *)
(***************************************************************************)
EXTENDS Integers

CONSTANTS
    Top,        \* identities of the chat and resume runs of the thread
    Sub,        \* identities of subagent runs
    Owner,      \* owner tokens, one per job attempt (worker identity + uuid)
    NoRun,      \* created_by_run_id IS NULL
    NoOwner,    \* worker_id IS NULL
    LeaseTicks  \* lease duration (RUN_LEASE_SECONDS) in clock ticks

ASSUME ConstantsAssumption ==
    /\ Top \cap Sub = {}
    /\ NoRun \notin Top \cup Sub
    /\ NoOwner \notin Owner
    /\ LeaseTicks \in Nat \ {0}

Run == Top \cup Sub
NoLease == -1

TerminalStatus == {"completed", "failed", "cancelled", "interrupted"}
LeasedStatus == {"running", "cancel_requested"}
LiveStatus == {"pending"} \cup LeasedStatus
Status == {"absent"} \cup LiveStatus \cup TerminalStatus
Outcome == {"unused", "open", "retry_released", "lease_expired"} \cup TerminalStatus

RunRow ==
    [status   : Status,
     creator  : Run \cup {NoRun},          \* created_by_run_id
     birth    : Owner \cup {NoOwner},      \* history: the creator's attempt then
     worker   : Owner \cup {NoOwner},      \* worker_id
     lease    : {NoLease} \cup 0..LeaseTicks, \* ticks left until lease_expires_at
     started  : BOOLEAN,                   \* started_at IS NOT NULL
     last     : Owner \cup {NoOwner},      \* owner of the highest attempt_no
     manifest : {"none", "light", "workspace"}, \* runtime.workspace_required
     output   : Owner \cup {NoOwner},      \* attempt that bound output_message_id
     cleanup  : BOOLEAN]                   \* runtime_cleanup_pending

AttemptRow == [run : Run \cup {NoRun}, outcome : Outcome]

VARIABLES
    run,      \* agent_runs
    attempt,  \* agent_run_attempts, by owner token
    latest,   \* the newest top-level run (created_at order)
    asked     \* history: runs somebody asked to cancel

vars == <<run, attempt, latest, asked>>

-----------------------------------------------------------------------------
(* Predicates the repository's queries are made of. *)

Live(row) == row.status \in LiveStatus
Terminal(row) == row.status \in TerminalStatus

\* get_active_run_by_thread_for_user / ..._by_runtime_scope_for_user
Active(row) == Live(row) \/ row.cleanup

NeverStarted(row) == row.status = "pending" /\ row.worker = NoOwner /\ ~row.started

\* worker_id matches and lease_expires_at > now
Holds(row, o) == row.worker = o /\ row.lease > 0

\* _runtime_cleanup_required
CleanupRequired(r) == r \in Top /\ run[r].manifest = "workspace"

\* The rows reconcile_expired_leases selects.
Lost(row) ==
    \/ row.status = "running" /\ row.lease <= 0
    \/ row.status = "cancel_requested" /\ row.worker # NoOwner /\ row.lease <= 0
    \/ row.status = "cancel_requested" /\ row.worker = NoOwner /\ row.started

-----------------------------------------------------------------------------
(* The execution tree.  Subagents create nothing and a thread has at most   *)
(* one live top-level run, so the walk ends at the second generation.       *)

LiveChildren(R, S) == {x \in Run : R[x].creator \in S /\ Live(R[x])}

Tree(R, S) ==
    LET kids == LiveChildren(R, S \cap Top) IN kids \cup LiveChildren(R, kids)

StopRow(row) ==
    IF NeverStarted(row)
    THEN [row EXCEPT !.status = "cancelled", !.worker = NoOwner, !.lease = NoLease]
    ELSE [row EXCEPT !.status = "cancel_requested"]

\* Mutant: a cancellation that does not look whether the run has ended.
CancelRowBlind(row, fence) ==
    IF NeverStarted(row) THEN [row EXCEPT !.status = "cancelled", !.cleanup = fence]
    ELSE [row EXCEPT !.status = "cancel_requested"]

\* _request_cancel_locked
CancelRow(row, fence) ==
    IF Terminal(row) THEN row
    ELSE IF NeverStarted(row) THEN [row EXCEPT !.status = "cancelled", !.cleanup = fence]
    ELSE [row EXCEPT !.status = "cancel_requested"]

\* A row its owner lost or gave up: the lease is cleared and the cleanup fence
\* is raised or left down.
Unowned(row, s, fence) ==
    [row EXCEPT !.status = s, !.worker = NoOwner, !.lease = NoLease,
                !.cleanup = fence]

Claimed(row, o) ==
    [row EXCEPT !.status = IF row.status = "pending" THEN "running" ELSE row.status,
                !.worker = o, !.lease = LeaseTicks, !.started = TRUE, !.last = o]

\* cancel_active_execution_tree_descendants of the runs in S over table R
StopTree(R, S) ==
    [x \in Run |-> IF x \in Tree(R, S) THEN StopRow(R[x]) ELSE R[x]]

\* Mutant: the run row is released and its attempt forgotten.
FinishAttemptForgotten(A, r, o, outcome) == A

\* _finish_open_attempt and _close_open_attempts: only open rows are written.
FinishAttempt(A, r, o, outcome) ==
    [p \in Owner |-> IF p = o /\ A[p].run = r /\ A[p].outcome = "open"
                     THEN [A[p] EXCEPT !.outcome = outcome] ELSE A[p]]

CloseAttempts(A, S, outcome) ==
    [p \in Owner |-> IF A[p].run \in S /\ A[p].outcome = "open"
                     THEN [A[p] EXCEPT !.outcome = outcome] ELSE A[p]]

\* The transaction wrote tables R and A and then closes the trees of S.
CloseTrees(R, A, S) ==
    /\ run' = StopTree(R, S)
    /\ attempt' = CloseAttempts(A, {x \in Tree(R, S) : NeverStarted(R[x])}, "cancelled")

-----------------------------------------------------------------------------
NewRow(p, o) ==
    [status |-> "pending", creator |-> p, birth |-> o, worker |-> NoOwner,
     lease |-> NoLease, started |-> FALSE, last |-> NoOwner,
     manifest |-> "none", output |-> NoOwner, cleanup |-> FALSE]

Init ==
    /\ run = [r \in Run |-> [NewRow(NoRun, NoOwner) EXCEPT !.status = "absent"]]
    /\ attempt = [o \in Owner |-> [run |-> NoRun, outcome |-> "unused"]]
    /\ latest = NoRun
    /\ asked = {}

\* Mutant: dispatch looks at live runs only, not at the cleanup fence.
CreateChatUnfenced(r) ==
    /\ r \in Top /\ run[r].status = "absent"
    /\ \A x \in Run : ~Live(run[x])
    /\ latest # NoRun => run[latest].status # "interrupted"
    /\ run' = [run EXCEPT ![r] = NewRow(NoRun, NoOwner)]
    /\ latest' = r
    /\ UNCHANGED <<attempt, asked>>

\* The queue dispatches its head: nothing is active in the runtime scope and
\* the newest top-level run is not waiting for an answer.
CreateChat(r) ==
    /\ r \in Top /\ run[r].status = "absent"
    /\ \A x \in Run : ~Active(run[x])
    /\ latest # NoRun => run[latest].status # "interrupted"
    /\ run' = [run EXCEPT ![r] = NewRow(NoRun, NoOwner)]
    /\ latest' = r
    /\ UNCHANGED <<attempt, asked>>

\* An answer or approval continues the newest top-level run, interrupted.
CreateResume(r, p) ==
    /\ r \in Top /\ run[r].status = "absent"
    /\ p \in Top /\ p = latest /\ run[p].status = "interrupted"
    /\ \A x \in Top : ~Active(run[x])
    /\ run' = [run EXCEPT ![r] = NewRow(p, NoOwner)]
    /\ latest' = r
    /\ UNCHANGED <<attempt, asked>>

\* The task tool of a running top-level run.  An Agent that may call it has
\* subagents enabled, hence a workspace manifest.
CreateSub(c, p) ==
    /\ c \in Sub /\ run[c].status = "absent"
    /\ p \in Top /\ run[p].status = "running" /\ run[p].manifest = "workspace"
    /\ run' = [run EXCEPT ![c] = NewRow(p, run[p].worker)]
    /\ UNCHANGED <<attempt, latest, asked>>

\* mark_running by a token of a new job attempt.
Claim(r, o) ==
    /\ attempt[o].outcome = "unused"
    /\ ~run[r].cleanup
    /\ \/ run[r].status = "pending"
       \/ run[r].status = "cancel_requested" /\ run[r].worker = NoOwner
    /\ run' = [run EXCEPT ![r] = Claimed(run[r], o)]
    /\ attempt' = [CloseAttempts(attempt, {r}, "lease_expired")
                     EXCEPT ![o] = [run |-> r, outcome |-> "open"]]
    /\ UNCHANGED <<latest, asked>>

\* renew_lease
Renew(r, o) ==
    /\ run[r].status \in LeasedStatus
    /\ Holds(run[r], o)
    /\ run' = [run EXCEPT ![r].lease = LeaseTicks]
    /\ UNCHANGED <<attempt, latest, asked>>

\* Time passes for every lease.
Tick ==
    /\ \E r \in Run : run[r].lease > 0
    /\ run' = [r \in Run |-> IF run[r].lease > 0
                             THEN [run[r] EXCEPT !.lease = run[r].lease - 1]
                             ELSE run[r]]
    /\ UNCHANGED <<attempt, latest, asked>>

\* record_run_manifest: write-once by the running owner.
RecordManifest(r, o, m) ==
    /\ run[r].status = "running" /\ Holds(run[r], o)
    /\ run[r].manifest = "none"
    /\ run' = [run EXCEPT ![r].manifest = m]
    /\ UNCHANGED <<attempt, latest, asked>>

\* set_output_message in its own transaction (a partial or error message).
\* The graph only runs once the manifest is recorded.
BindOutput(r, o) ==
    /\ run[r].status = "running" /\ Holds(run[r], o)
    /\ run[r].manifest # "none"
    /\ run' = [run EXCEPT ![r].output = o]
    /\ UNCHANGED <<attempt, latest, asked>>

\* Mutant: completion does not ask for an output message.
PublishWithoutOutput(r, o, s, out) ==
    /\ run[r].status \in LeasedStatus
    /\ Holds(run[r], o)
    /\ (run[r].status = "cancel_requested") = (s = "cancelled")
    /\ CloseTrees([run EXCEPT ![r] =
                     [Unowned(run[r], s, CleanupRequired(r)) EXCEPT !.output = out]],
                  FinishAttempt(attempt, r, o, s), {r})
    /\ UNCHANGED <<latest, asked>>

\* set_terminal_status by an owner, and the execution tree with it.
Publish(r, o, s, out) ==
    /\ run[r].status \in LeasedStatus
    /\ Holds(run[r], o)
    /\ (run[r].status = "cancel_requested") = (s = "cancelled")
    /\ s = "completed" => out # NoOwner
    /\ CloseTrees([run EXCEPT ![r] =
                     [Unowned(run[r], s, CleanupRequired(r)) EXCEPT !.output = out]],
                  FinishAttempt(attempt, r, o, s), {r})
    /\ UNCHANGED <<latest, asked>>

\* save_messages_from_langgraph_state / save_partial_message(interrupt_run):
\* the messages, their binding and the terminal status in one transaction.
CommitOutput(r, o, s) ==
    /\ run[r].status = "running" /\ run[r].manifest # "none"
    /\ Publish(r, o, s, o)

\* mark_run_terminal
MarkTerminal(r, o, s) == Publish(r, o, s, run[r].output)

\* Mutant: the attempt takes the new status of its run as its outcome.
ReleaseAsPending(r, o) ==
    /\ run[r].status = "running" /\ Holds(run[r], o)
    /\ CloseTrees([run EXCEPT ![r] = Unowned(run[r], "pending", CleanupRequired(r))],
                  FinishAttempt(attempt, r, o, "pending"), {r})
    /\ UNCHANGED <<latest, asked>>

\* release_run_lease_for_retry
ReleaseForRetry(r, o) ==
    /\ run[r].status = "running" /\ Holds(run[r], o)
    /\ CloseTrees([run EXCEPT ![r] = Unowned(run[r], "pending", CleanupRequired(r))],
                  FinishAttempt(attempt, r, o, "retry_released"), {r})
    /\ UNCHANGED <<latest, asked>>

\* request_cancel_execution_tree
RequestCancel(r, cascade) ==
    /\ run[r].status # "absent"
    /\ CloseTrees([run EXCEPT ![r] = CancelRow(run[r], CleanupRequired(r))],
                  attempt, IF cascade THEN {r} ELSE {})
    /\ asked' = asked \cup {r}
    /\ UNCHANGED latest

\* reconcile_expired_leases over the rows it could lock (SKIP LOCKED).
Reconcile(S) ==
    /\ S # {} /\ \A r \in S : Lost(run[r])
    /\ CloseTrees([r \in Run |->
                     IF r \in S THEN Unowned(run[r], "failed", CleanupRequired(r))
                     ELSE run[r]],
                  CloseAttempts(attempt, S, "lease_expired"), S)
    /\ UNCHANGED <<latest, asked>>

\* _finish_execution_tree_children: a worker closes the tree of a run it
\* found terminal, in a transaction of its own.
FinishTreeChildren(r) ==
    /\ Terminal(run[r])
    /\ CloseTrees(run, attempt, {r})
    /\ UNCHANGED <<latest, asked>>

\* Mutant: the runtime goes while a subagent of the thread still uses it.
ReleaseRuntimeBusy(r) ==
    /\ r \in Top /\ run[r].cleanup
    /\ run' = [run EXCEPT ![r].cleanup = FALSE]
    /\ UNCHANGED <<attempt, latest, asked>>

\* _release_runtime_if_idle, when the provisioner deletes the runtime.
ReleaseRuntime(r) ==
    /\ r \in Top /\ run[r].cleanup
    /\ \A x \in Run \ {r} : ~Live(run[x])
    /\ run' = [run EXCEPT ![r].cleanup = FALSE]
    /\ UNCHANGED <<attempt, latest, asked>>

\* fail_nonterminal_for_storage_migration, with every runtime stopped.
FailForMigration ==
    /\ \E r \in Run : Live(run[r])
    /\ run' = [r \in Run |->
                 IF Live(run[r]) THEN Unowned(run[r], "failed", FALSE) ELSE run[r]]
    /\ attempt' = CloseAttempts(attempt, {r \in Run : Live(run[r])}, "failed")
    /\ UNCHANGED <<latest, asked>>

Create == \/ \E r \in Top : CreateChat(r)
          \/ \E r, p \in Top : CreateResume(r, p)
          \/ \E c \in Sub, p \in Top : CreateSub(c, p)

OwnerStep(r, o) ==
    \/ Claim(r, o)
    \/ Renew(r, o)
    \/ \E m \in {"light", "workspace"} : RecordManifest(r, o, m)
    \/ BindOutput(r, o)
    \/ \E s \in {"completed", "interrupted"} : CommitOutput(r, o, s)
    \/ \E s \in TerminalStatus : MarkTerminal(r, o, s)
    \/ ReleaseForRetry(r, o)

Next ==
    \/ Create
    \/ \E r \in Run, o \in Owner : OwnerStep(r, o)
    \/ \E r \in Run, cascade \in BOOLEAN : RequestCancel(r, cascade)
    \/ \E S \in SUBSET Run : Reconcile(S)
    \/ \E r \in Run : FinishTreeChildren(r)
    \/ \E r \in Run : ReleaseRuntime(r)
    \/ Tick
    \/ FailForMigration

Spec == Init /\ [][Next]_vars

-----------------------------------------------------------------------------
(* The tables keep their shape. *)
TypeOK ==
    /\ run \in [Run -> RunRow]
    /\ attempt \in [Owner -> AttemptRow]
    /\ latest \in Top \cup {NoRun}
    /\ asked \subseteq Run

\* The owner in the run row is the owner of the one open attempt of that run:
\* no run is executed without an attempt fact, and no attempt stays open once
\* its run is released, ended, reconciled or migrated.
OwnershipInv ==
    /\ \A r \in Run : run[r].worker # NoOwner =>
         /\ run[r].status \in LeasedStatus
         /\ run[r].lease # NoLease /\ run[r].started
         /\ attempt[run[r].worker] = [run |-> r, outcome |-> "open"]
    /\ \A r \in Run : run[r].status = "running" => run[r].worker # NoOwner
    /\ \A o \in Owner : attempt[o].outcome = "open" =>
         /\ attempt[o].run \in Run
         /\ run[attempt[o].run].worker = o

\* At most one top-level run of a thread is live or still owes the cleanup of
\* its runtime: a new run never starts while the previous one is not over.
ThreadFence ==
    \A a, b \in Top : Active(run[a]) /\ Active(run[b]) => a = b

\* A live subagent run belongs to the current attempt of its creator.  Once
\* that attempt is over the subagent has been told to stop, and the creator
\* keeps the cleanup fence that holds its runtime, and its retry, until then.
ChildFollowsAttempt ==
    \A c \in Sub : Live(run[c]) =>
        LET p == run[run[c].creator] IN
        \/ p.worker # NoOwner /\ p.worker = run[c].birth
        \/ p.worker = NoOwner /\ p.cleanup /\ run[c].status = "cancel_requested"

\* The newest attempt tells how a run ended, whenever the run ended by the
\* decision of an owner; a completed run points at an output that one of its
\* own attempts bound.
EndIsAttemptFact ==
    \A r \in Run :
        /\ run[r].status \in {"completed", "interrupted"} =>
             attempt[run[r].last] = [run |-> r, outcome |-> run[r].status]
        /\ run[r].status = "cancelled" =>
             \/ run[r].last = NoOwner
             \/ attempt[run[r].last].outcome = "cancelled"
        /\ run[r].status = "completed" =>
             run[r].output # NoOwner /\ attempt[run[r].output].run = r

\* A terminal run never changes its status, output or history, whatever late
\* workers, users and reconcilers do to it, and a closed attempt is never
\* rewritten.
FactsAreFinal ==
    [][/\ \A r \in Run : Terminal(run[r]) =>
            [run'[r] EXCEPT !.cleanup = run[r].cleanup] = run[r]
       /\ \A o \in Owner : attempt[o].outcome \notin {"unused", "open"} =>
            attempt'[o] = attempt[o]]_vars
=============================================================================
