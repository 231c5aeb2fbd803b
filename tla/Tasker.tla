------------------------------- MODULE Tasker -------------------------------
(***************************************************************************)
(* The background tasks of the API process: the in-memory registry, the    *)
(* asyncio queue and the worker pool of Tasker, and the rows of TaskRecord *)
(* they are saved to.                                                      *)
(*                                                                         *)
(* An action is what runs between two awaits.  _lock is held from a change *)
(* of the registry to the end of the write that saves it, so a change and  *)
(* its write are two actions and whoever stands between them holds the     *)
(* lock.  Rows are deleted after the lock was released.  set_progress and  *)
(* set_message save the status that is already there and are left out.     *)
(***************************************************************************)
EXTENDS Integers, FiniteSets, Sequences

CONSTANTS
    MaxTask,      \* bound: tasks 1..MaxTask, numbered in the order of created_at
    Key,          \* what payload_match tells apart, e.g. the kb_id of a graph build
    NoKey,        \* a task of plain enqueue
    Worker,       \* worker_count workers
    NoTask,
    MaxTerminal,  \* MAX_TERMINAL_TASKS
    MaxFaults,    \* bound: writes that fail
    MaxStarts     \* bound: ends of the process, each followed by a start

ASSUME ConstantsAssumption ==
    /\ MaxTask \in Nat /\ MaxTerminal \in Nat
    /\ MaxFaults \in Nat /\ MaxStarts \in Nat
    /\ NoKey \notin Key
    /\ NoTask \notin 1..MaxTask
    /\ IsFiniteSet(Worker)

Task == 1..MaxTask
TerminalStatuses == {"success", "failed", "cancelled"}
Active == {"pending", "running"}
Status == {"none"} \cup Active \cup TerminalStatuses

VARIABLES
    phase,     \* "up", "closing" (shutdown waits for the workers), "down"
    issued,    \* tasks created so far
    key,       \* task -> key of enqueue_unique_by_payload, or NoKey
    tasks,     \* _tasks: task -> status, "none" when it is not registered
    cancel,    \* cancel_requested of the task objects
    queue,     \* _queue
    api,       \* the request that holds _lock and awaits its write
    deleting,  \* delete_task calls that still have to delete the row
    worker,    \* the worker loops
    row,       \* TaskRecord: task -> status, "none" without a row
    faults,    \* writes that failed
    starts,    \* starts of the process
    early,     \* history: tasks cancelled while pending
    unsaved    \* history: tasks a write of which failed since the start

vars == <<phase, issued, key, tasks, cancel, queue, api, deleting, worker, row,
          faults, starts, early, unsaved>>

NoCall == [op |-> "none", task |-> NoTask]

\* verdict: the status the run ends with; guarded: a failing write is caught by
\* the handler that records "failed"; stop: the worker itself was cancelled
At(pc, t, verdict, guarded, stop, stale) ==
    [pc |-> pc, task |-> t, verdict |-> verdict, guarded |-> guarded,
     stop |-> stop, stale |-> stale]
IdleWorker == At("idle", NoTask, "none", FALSE, FALSE, {})
StoppedWorker == At("stopped", NoTask, "none", FALSE, FALSE, {})

LockFree == api = NoCall /\ \A w \in Worker : worker[w].pc \notin {"startSaving", "endSaving"}

Goto(w, pc) == worker' = [worker EXCEPT ![w].pc = pc]
EndWith(w, verdict, guarded) ==
    worker' = [worker EXCEPT ![w].pc = "ending", ![w].verdict = verdict, ![w].guarded = guarded]

WriteFails(ts) ==
    /\ faults < MaxFaults
    /\ faults' = faults + 1
    /\ unsaved' = unsaved \cup ts

-----------------------------------------------------------------------------
(* Calls of the API. *)

Register(t, k) ==
    /\ issued' = t
    /\ key' = [key EXCEPT ![t] = k]
    /\ tasks' = [tasks EXCEPT ![t] = "pending"]
    /\ api' = [op |-> "enqueue", task |-> t]
    /\ UNCHANGED <<phase, cancel, queue, deleting, worker, row, faults, starts, early, unsaved>>

Enqueue ==
    /\ phase = "up" /\ LockFree /\ issued < MaxTask
    /\ Register(issued + 1, NoKey)

\* every caller passes the statuses {"pending", "running"}
Found(k) == \E t \in Task : key[t] = k /\ tasks[t] \in Active

\* A found task is returned and nothing changes.
EnqueueUnique(k) ==
    /\ phase = "up" /\ LockFree /\ issued < MaxTask
    /\ ~Found(k)
    /\ Register(issued + 1, k)

CancelTask(t) ==
    /\ phase = "up" /\ LockFree
    /\ tasks[t] \in Active
    /\ cancel' = [cancel EXCEPT ![t] = TRUE]
    /\ api' = [op |-> "cancel", task |-> t]
    /\ early' = IF tasks[t] = "pending" THEN early \cup {t} ELSE early
    /\ UNCHANGED <<phase, issued, key, tasks, queue, deleting, worker, row, faults, starts, unsaved>>

\* _persist_task returns: enqueue puts the task into the queue, the lock is released
ApiSaved ==
    /\ api # NoCall
    /\ row' = [row EXCEPT ![api.task] = tasks[api.task]]
    /\ queue' = IF api.op = "enqueue" THEN Append(queue, api.task) ELSE queue
    /\ api' = NoCall
    /\ UNCHANGED <<phase, issued, key, tasks, cancel, deleting, worker, faults, starts, early, unsaved>>

\* _persist_task raises: the request fails, the registry keeps the change
ApiFails ==
    /\ api # NoCall
    /\ WriteFails({api.task})
    /\ api' = NoCall
    /\ UNCHANGED <<phase, issued, key, tasks, cancel, queue, deleting, worker, row, starts, early>>

DeleteTask(t) ==
    /\ phase = "up" /\ LockFree
    /\ tasks[t] # "none"
    /\ tasks' = [tasks EXCEPT ![t] = "none"]
    /\ deleting' = deleting \cup {t}
    /\ UNCHANGED <<phase, issued, key, cancel, queue, api, worker, row, faults, starts, early, unsaved>>

DeleteRow(t) ==
    /\ t \in deleting
    /\ deleting' = deleting \ {t}
    /\ \/ /\ row' = [row EXCEPT ![t] = "none"]
          /\ UNCHANGED <<faults, unsaved>>
       \/ WriteFails({t}) /\ UNCHANGED row
    /\ UNCHANGED <<phase, issued, key, tasks, cancel, queue, api, worker, starts, early>>

-----------------------------------------------------------------------------
(* The worker loop. *)

Take(w) ==
    /\ worker[w].pc = "idle" /\ queue # <<>>
    /\ queue' = Tail(queue)
    /\ worker' = [worker EXCEPT ![w].pc = "got", ![w].task = Head(queue)]
    /\ UNCHANGED <<phase, issued, key, tasks, cancel, api, deleting, row, faults, starts, early, unsaved>>

\* _get_task_instance, and the checks that follow without an await
LookUp(w) ==
    LET t == worker[w].task IN
    /\ worker[w].pc = "got" /\ LockFree
    /\ \/ tasks[t] = "none" /\ Goto(w, "prune")
       \/ tasks[t] # "none" /\ cancel[t] /\ EndWith(w, "cancelled", FALSE)
       \/ tasks[t] # "none" /\ ~cancel[t] /\ Goto(w, "starting")
    /\ UNCHANGED <<phase, issued, key, tasks, cancel, queue, api, deleting, row, faults, starts, early, unsaved>>

\* _update_task does nothing for a task that was deleted: its coroutine runs all the same
BeginRun(w) ==
    LET t == worker[w].task IN
    /\ worker[w].pc = "starting" /\ LockFree
    /\ IF tasks[t] = "none"
       THEN Goto(w, "running") /\ UNCHANGED tasks
       ELSE Goto(w, "startSaving") /\ tasks' = [tasks EXCEPT ![t] = "running"]
    /\ UNCHANGED <<phase, issued, key, cancel, queue, api, deleting, row, faults, starts, early, unsaved>>

\* Mutant: a failing write ends the loop.
StartSavedFatal(w) ==
    LET t == worker[w].task IN
    /\ worker[w].pc = "startSaving"
    /\ \/ /\ row' = [row EXCEPT ![t] = tasks[t]]
          /\ Goto(w, "running")
          /\ UNCHANGED <<faults, unsaved>>
       \/ WriteFails({t}) /\ Goto(w, "stopped") /\ UNCHANGED row
    /\ UNCHANGED <<phase, issued, key, tasks, cancel, queue, api, deleting, starts, early>>

StartSaved(w) ==
    LET t == worker[w].task IN
    /\ worker[w].pc = "startSaving"
    /\ \/ /\ row' = [row EXCEPT ![t] = tasks[t]]
          /\ Goto(w, "running")
          /\ UNCHANGED <<faults, unsaved>>
       \/ WriteFails({t}) /\ Goto(w, "prune") /\ UNCHANGED row
    /\ UNCHANGED <<phase, issued, key, tasks, cancel, queue, api, deleting, starts, early>>

\* Mutant: the flag is only read before the run.
ReturnUnchecked(w) ==
    /\ worker[w].pc = "running"
    /\ EndWith(w, "success", TRUE)
    /\ UNCHANGED <<phase, issued, key, tasks, cancel, queue, api, deleting, row, faults, starts, early, unsaved>>

\* The coroutine returns; task.cancel_requested is read from the object the
\* worker holds, registered or not.
Return(w) ==
    /\ worker[w].pc = "running"
    /\ EndWith(w, IF cancel[worker[w].task] THEN "cancelled" ELSE "success", TRUE)
    /\ UNCHANGED <<phase, issued, key, tasks, cancel, queue, api, deleting, row, faults, starts, early, unsaved>>

\* raise_if_cancelled, an exception of the coroutine, or the execution timeout
\* (which awaits the cancelled coroutine before it is recorded)
Abort(w) ==
    LET t == worker[w].task IN
    /\ worker[w].pc = "running"
    /\ \/ tasks[t] # "none" /\ cancel[t] /\ EndWith(w, "cancelled", FALSE)
       \/ EndWith(w, "failed", FALSE)
    /\ UNCHANGED <<phase, issued, key, tasks, cancel, queue, api, deleting, row, faults, starts, early, unsaved>>

\* Mutant: the end is saved whether or not the task is still registered.
BeginEndBlind(w) ==
    LET t == worker[w].task IN
    /\ worker[w].pc = "ending" /\ LockFree
    /\ Goto(w, "endSaving")
    /\ tasks' = [tasks EXCEPT ![t] = worker[w].verdict]
    /\ UNCHANGED <<phase, issued, key, cancel, queue, api, deleting, row, faults, starts, early, unsaved>>

BeginEnd(w) ==
    LET t == worker[w].task IN
    /\ worker[w].pc = "ending" /\ LockFree
    /\ IF tasks[t] = "none"
       THEN Goto(w, "prune") /\ UNCHANGED tasks
       ELSE Goto(w, "endSaving") /\ tasks' = [tasks EXCEPT ![t] = worker[w].verdict]
    /\ UNCHANGED <<phase, issued, key, cancel, queue, api, deleting, row, faults, starts, early, unsaved>>

EndSaved(w) ==
    LET t == worker[w].task IN
    /\ worker[w].pc = "endSaving"
    /\ \/ /\ row' = [row EXCEPT ![t] = tasks[t]]
          /\ Goto(w, "prune")
          /\ UNCHANGED <<faults, unsaved>>
       \/ /\ WriteFails({t})
          /\ IF worker[w].guarded THEN EndWith(w, "failed", FALSE) ELSE Goto(w, "prune")
          /\ UNCHANGED row
    /\ UNCHANGED <<phase, issued, key, tasks, cancel, queue, api, deleting, starts, early>>

\* _run_task_coroutine cancels the worker a second time before it re-raises, so
\* the first await of _mark_cancelled that suspends raises: the wait for the
\* lock if it is held, the write otherwise.
Killed(w) ==
    LET t == worker[w].task IN
    /\ worker[w].pc = "killed"
    /\ tasks' = IF LockFree /\ tasks[t] # "none"
                THEN [tasks EXCEPT ![t] = "cancelled"] ELSE tasks
    /\ Goto(w, "prune")
    /\ UNCHANGED <<phase, issued, key, cancel, queue, api, deleting, row, faults, starts, early, unsaved>>

Newer(t, terminal) == {u \in terminal : u > t}

StaleOf(status) ==
    LET terminal == {t \in Task : status[t] \in TerminalStatuses}
    IN  {t \in terminal : Cardinality(Newer(t, terminal)) >= MaxTerminal}

Forget(status, ts) == [t \in Task |-> IF t \in ts THEN "none" ELSE status[t]]

\* Mutant: the loop keeps what it worked on.
DoneHolding(w) ==
    worker' = [worker EXCEPT ![w].pc = IF worker[w].stop THEN "stopped" ELSE "idle"]

\* the worker goes on with its loop, or breaks
Done(w) == worker' = [worker EXCEPT ![w] = IF worker[w].stop THEN StoppedWorker ELSE IdleWorker]

\* _prune_terminal_tasks under the lock
Prune(w) ==
    /\ worker[w].pc = "prune" /\ LockFree
    /\ LET stale == StaleOf(tasks) IN
       /\ tasks' = Forget(tasks, stale)
       /\ IF stale = {} THEN Done(w)
          ELSE worker' = [worker EXCEPT ![w].pc = "pruning", ![w].stale = stale]
    /\ UNCHANGED <<phase, issued, key, cancel, queue, api, deleting, row, faults, starts, early, unsaved>>

\* the stale rows one by one, newest first; a failure leaves the rest
PruneRow(w) ==
    LET stale == worker[w].stale
        t == CHOOSE u \in stale : Newer(u, stale) = {} IN
    /\ worker[w].pc = "pruning"
    /\ \/ /\ row' = [row EXCEPT ![t] = "none"]
          /\ IF stale = {t} THEN Done(w)
             ELSE worker' = [worker EXCEPT ![w].stale = stale \ {t}]
          /\ UNCHANGED <<faults, unsaved>>
       \/ WriteFails(stale) /\ Done(w) /\ UNCHANGED row
    /\ UNCHANGED <<phase, issued, key, tasks, cancel, queue, api, deleting, starts, early>>

-----------------------------------------------------------------------------
(* The process. *)

\* Where worker.cancel() finds a loop: the await it interrupts decides.
Cancelled(x) ==
    CASE x.pc = "running" -> [x EXCEPT !.pc = "killed", !.stop = TRUE]
      [] x.pc = "ending" /\ x.guarded ->
           [x EXCEPT !.verdict = "cancelled", !.guarded = FALSE, !.stop = TRUE]
      [] x.pc \in {"got", "starting"} \/ (x.pc = "ending" /\ ~x.guarded) ->
           [x EXCEPT !.pc = "prune", !.stop = TRUE]
      [] OTHER -> StoppedWorker

\* Called once the server has no request left.
Shutdown ==
    /\ phase = "up" /\ LockFree /\ deleting = {} /\ starts < MaxStarts
    /\ phase' = "closing"
    /\ worker' = [w \in Worker |-> Cancelled(worker[w])]
    /\ UNCHANGED <<issued, key, tasks, cancel, queue, api, deleting, row, faults, starts, early, unsaved>>

\* The process ends: after its shutdown, or in the middle of anything.
Exit ==
    /\ phase \in {"up", "closing"} /\ starts < MaxStarts
    /\ phase' = "down"
    /\ tasks' = [t \in Task |-> "none"]
    /\ queue' = <<>>
    /\ api' = NoCall
    /\ deleting' = {}
    /\ worker' = [w \in Worker |-> StoppedWorker]
    /\ unsaved' = {}
    /\ UNCHANGED <<issued, key, cancel, row, faults, starts, early>>

\* _load_state: what is not terminal has lost its coroutine
Loaded == [t \in Task |-> IF row[t] \in Active THEN "failed" ELSE row[t]]

Start ==
    /\ phase = "down"
    /\ starts' = starts + 1
    /\ phase' = "up"
    /\ tasks' = Forget(Loaded, StaleOf(Loaded))
    /\ row' = Forget(Loaded, StaleOf(Loaded))
    /\ worker' = [w \in Worker |-> IdleWorker]
    /\ UNCHANGED <<issued, key, cancel, queue, api, deleting, faults, early, unsaved>>

-----------------------------------------------------------------------------

Init ==
    /\ phase = "up" /\ issued = 0 /\ starts = 0 /\ faults = 0
    /\ key = [t \in Task |-> NoKey]
    /\ tasks = [t \in Task |-> "none"]
    /\ row = [t \in Task |-> "none"]
    /\ cancel = [t \in Task |-> FALSE]
    /\ queue = <<>> /\ api = NoCall /\ deleting = {}
    /\ worker = [w \in Worker |-> IdleWorker]
    /\ early = {} /\ unsaved = {}

WorkerStep(w) ==
    \/ Take(w) \/ LookUp(w) \/ BeginRun(w) \/ StartSaved(w)
    \/ Return(w) \/ Abort(w) \/ BeginEnd(w) \/ EndSaved(w)
    \/ Killed(w) \/ Prune(w) \/ PruneRow(w)

Request ==
    \/ Enqueue
    \/ \E k \in Key : EnqueueUnique(k)
    \/ \E t \in Task : CancelTask(t) \/ DeleteTask(t) \/ DeleteRow(t)
    \/ ApiSaved \/ ApiFails

Next ==
    \/ Request
    \/ \E w \in Worker : WorkerStep(w)
    \/ Shutdown \/ Exit \/ Start

Spec == Init /\ [][Next]_vars

\* A write ends, and a worker that waits for the lock gets it, because
\* asyncio.Lock serves its waiters in order.  A coroutine ends by its timeout.
\* A process that shuts down ends, and one that ended is started again.
FairSpec ==
    /\ Spec
    /\ WF_vars(ApiSaved)
    /\ \A w \in Worker : SF_vars(WorkerStep(w))
    /\ \A t \in Task : WF_vars(DeleteRow(t))
    /\ WF_vars(phase = "closing" /\ Exit)
    /\ WF_vars(Start)

-----------------------------------------------------------------------------
(* Properties. *)

PC == {"idle", "got", "starting", "startSaving", "running", "ending", "endSaving",
       "killed", "prune", "pruning", "stopped"}

\* The registry, the rows and the loops keep their shape, and a loop that waits
\* for work holds no task of its last round.
TypeOK ==
    /\ phase \in {"up", "closing", "down"}
    /\ issued \in 0..MaxTask
    /\ key \in [Task -> Key \cup {NoKey}]
    /\ tasks \in [Task -> Status] /\ row \in [Task -> Status]
    /\ cancel \in [Task -> BOOLEAN]
    /\ queue \in Seq(Task)
    /\ api \in [op : {"enqueue", "cancel"}, task : Task] \cup {NoCall}
    /\ deleting \subseteq Task /\ early \subseteq Task /\ unsaved \subseteq Task
    /\ worker \in [Worker ->
          [pc : PC, task : Task \cup {NoTask}, verdict : TerminalStatuses \cup {"none"},
           guarded : BOOLEAN, stop : BOOLEAN, stale : SUBSET Task]]
    /\ \A w \in Worker :
         IF worker[w].pc \in {"idle", "stopped"}
         THEN worker[w].task = NoTask /\ worker[w].stale = {}
         ELSE worker[w].task \in Task
    /\ faults \in 0..MaxFaults /\ starts \in 0..MaxStarts

\* What the registry shows is what the rows say whenever nobody holds the lock,
\* and a row outlives its task only until the call that dropped the task has
\* deleted it: a late update of a worker never brings a deleted task back.
\* Only a write that failed makes an exception (_update_task, delete_task,
\* _prune_terminal_tasks).
WriteThrough ==
    LockFree =>
        \A t \in Task \ unsaved :
            \/ tasks[t] = row[t]
            \/ tasks[t] = "none" /\ (t \in deleting \/ \E w \in Worker : t \in worker[w].stale)

\* A task shown as pending or running is really somebody's: it waits in the
\* queue, a worker has it, or its enqueue is not over.  Tasks nobody will ever
\* end come only from failed writes; a restart fails what lost its coroutine.
ActiveIsOwned ==
    \A t \in Task \ unsaved : tasks[t] \in Active =>
        \/ \E i \in DOMAIN queue : queue[i] = t
        \/ \E w \in Worker : worker[w].task = t /\ worker[w].pc \notin {"prune", "pruning"}
        \/ api = [op |-> "enqueue", task |-> t]

\* enqueue_unique_by_payload keeps one active task per key.
OneActivePerKey ==
    \A t, u \in Task :
        tasks[t] \in Active /\ tasks[u] \in Active /\ key[t] = key[u] /\ key[t] # NoKey => t = u

\* The registry holds at most MAX_TERMINAL_TASKS ended tasks, and one more for
\* each worker that has not pruned after its task yet.
Retention ==
    Cardinality({t \in Task : tasks[t] \in TerminalStatuses}) <=
        MaxTerminal + Cardinality({w \in Worker :
            worker[w].pc \in {"ending", "endSaving", "prune"}})

\* While the process is up the registry, the rows, the queue and the workers agree.
RegistryIsTrue ==
    phase = "up" => WriteThrough /\ ActiveIsOwned /\ OneActivePerKey /\ Retention

\* A task whose cancellation was accepted while it was still pending never
\* ends as a success, though a worker may read the flag just before it is set
\* and run the coroutine (_worker_loop reads it again after the run).
EarlyCancelNeverSucceeds ==
    \A t \in early : tasks[t] # "success" /\ row[t] # "success"

\* Every saved task ends or is deleted, across cancellations, shutdowns, crashes
\* and restarts, unless a write of it has failed.
EveryRowEnds ==
    \A t \in Task : row[t] \in Active ~> row[t] \notin Active \/ t \in unsaved
=============================================================================
