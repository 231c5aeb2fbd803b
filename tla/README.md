# Verification project for the Yuxi agent platform

TLA+ modules, TLC configurations and TLAPS proofs about the execution engine of
the platform (how a user's request becomes a run, how exactly one worker
executes it, and how it ends, whatever crashes, retries, cancellations and
races happen on the way) and about the stateful services around it: background
tasks, sandboxes, knowledge base files, engineering tasks, credentials and
attachments. Paths below are relative to
`src/backend/package/yuxi/` unless they start with `src/`.

## 1. The system

### 1.1 The engine

| Component | State | Operations | Interacts with |
| --- | --- | --- | --- |
| Request queue (`services/agent_request_queue_service.py`, `repositories/agent_run_request_repository.py`) | `agent_run_requests` rows of a thread: status, policy, creation order, dispatched run | intake (enqueue / reject / steer), promote to steer, cancel, continue, dispatch next, recover | creates runs; looks at the newest top-level run; hands run ids to ARQ |
| Run lease and facts (`repositories/agent_run_repository.py`) | `agent_runs`: status, owner token, lease, cleanup fence, output, manifest; `agent_run_attempts` | create, claim, renew, record manifest, bind output, publish an end, release for a retry, cancel, close the execution tree, reconcile, fail for a migration | every writer of a run goes through it, under the lock of the run row |
| Run worker (`services/run_worker.py`) | an ARQ job per delivery: owner token, heartbeat task, cancel watchers | process a run, reconcile leases, release runtimes, relay | claims, renews and ends runs; calls the queue after a completed run |
| Run service (`services/agent_run_service.py`) | none of its own | resume, enqueue, cancel, result, SSE | creates resume runs, reads rows and Redis streams |
| Subagent runs (`services/subagent_run_service.py`) | child runs in the runtime scope of the parent's thread | start, poll, cancel | share the sandbox of the root run |
| Chat service (`services/chat_service.py`) | messages | commit the output and the end status in one transaction | lease checks of the run repository |
| Redis layer (`services/run_queue_service.py`) | ARQ jobs, cancel keys, event streams | publish, wait, append, list | only speeds up what PostgreSQL decides |

PostgreSQL is the source of truth. API processes and workers share nothing
else but Redis; every decision is a transaction under a row lock (the
Conversation for the queue, the AgentRun for its life). What lies between two
transactions can be lost.

**Hard behaviours.** Several workers and a reconciler in each of them; leases
that expire under a living owner; cancellations at every moment; retries that
first have to get rid of the sandbox; subagents that outlive an attempt of
their parent; processes that die between a commit and the next call; ARQ
deliveries that are deduplicated, repeated or dropped; clocks compared across
transactions.

### 1.2 The rest

| Component | State | Modelled in |
| --- | --- | --- |
| Background tasks (`services/task_service.py`) | registry and queue of the API process, saved rows | `Tasker` (3.3) |
| Sandboxes (`agents/backends/sandbox/provider.py`, `src/docker/sandbox_provisioner/app.py`) | a container per runtime scope, the provisioner's pins, gate and activity, each process's connection | `Sandbox` (3.5) |
| Files of a knowledge base (`knowledge/base.py`, `knowledge/implementations/milvus.py`, their repositories) | file rows, chunks in PostgreSQL, vectors in Milvus | `KnowledgeFiles` (3.6) |
| Engineering tasks (`services/changwei_service.py`, `services/changwei_chat.py`) | a task row with a revision, its modules, materials and artifacts | `ChangweiTask` (3.7) |
| Accounts, API keys and device logins (`services/auth_service.py`, `services/identity_admin_service.py`, `repositories/api_key_repository.py`) | users, keys, sessions | `Credentials` (3.8) |
| Attachments (`services/attachment_service.py`, `repositories/conversation_repository.py`) | uploads, files of the Workdir, a JSON list in the conversation | `Attachments` (3.9) |

Not modelled: login limits, projects and workdirs, document generation,
knowledge base registry and graph, model providers and configuration cache,
readiness, skills and MCP, memory, the middlewares and tools of an agent, the
web front end and the clients. Section 7 and `PROJECT.json` give the reasons.

### 1.3 What makes each component correct

- *Lease*: one owner; one open attempt; facts are final; a thread has one live
  top-level run; subagents do not outlive the attempt that started them.
- *Queue*: first come, first served except for one steer; a turn starts when
  the last one is really over; a pause needs consent; the queue moves.
- *Worker and event stream*: no end is announced that is not the run's, nor
  before its runtime has gone; a lost signal, job, worker or event does not keep
  a run, or the client's knowledge of its end, from coming.
- *Tasker*: what is shown is what is saved; an active task is somebody's; a
  task cancelled while pending does not succeed; one run per key; a restart
  leaves nothing running.
- *Sandbox*: after a quiescence nothing is created; no call hangs; a stale
  connection is found out and a release succeeds in the end.
- *Knowledge files*: one writer per file; what reads as indexed can be found
  whole; a deleted file stays deleted; a claim is resolved.
- *Engineering tasks*: a text is replaced only by a change that started from
  it; a person confirms only what that person was shown; a version number names
  one content; a page recognised once stays so.
- *Credentials*: one founder; a key that ended does not come back; an approval
  is given once, and a session that is over stays over.
- *Attachments*: what is listed has its file; what a request in progress uses
  is kept.

## 2. Plan

The modules of the plan are written:

1. `AgentRunLease` with its proofs; `ThreadTurns` and `RequestQueue`, shown to
   implement it: what decides which run executes, and who executes it.
2. `RunWorker`, composed over `AgentRunLease`: the process that executes a run,
   with the stream of its events.
3. `Tasker`, `Sandbox`, `KnowledgeFiles`, `ChangweiTask`, `Credentials` and
   `Attachments`: the services that keep state of their own.

4. The proofs, one module per component (`WorkspaceProofs` for `Attachments` and
   `Sandbox`, whose names are chosen apart so that one module extends both):
   every invariant and every action property the runs check is a theorem, and so
   are the refinements of `ThreadTurns` and of `AgentRunLease`.

What is left: lemmas that say more than the runs ask for (that `ThreadTurns`
itself never answers two requests at a time or out of order, that a released
sandbox is one its scope had), and models of the parts of section 7 that keep a
state of their own.

No module uses a RECURSIVE operator.

## 3. Modules

### 3.1 `AgentRunLease`

The rows of one conversation thread. An action is one transaction of
`AgentRunRepository` (or of a caller that composes several of its methods in
one transaction: `CommitOutput`, `ReleaseRuntime`, the creations). Nothing is
assumed about who calls what and when: a worker may call any operation with its
token at any time, so the properties do not rest on a worker's good behaviour.

- `run[r]` is a row of `agent_runs`; `attempt[o]` the `agent_run_attempts` row
  of owner token `o` (a token is made once per job attempt); `latest` is what
  `get_latest_chat_or_resume_run` returns; `asked` is history.
- The lease is a number of ticks left; `Tick` lets it run out at any moment, so
  every race between an expiry, the late owner and the reconciler happens.
- The execution tree is walked as in the code over rows with
  `created_by_run_id`. A resume also has a creator, which is what an
  observation of section 6 is about.
- Abstracted: message contents (an output is the attempt that bound it),
  errors, token usage, the manifest (nothing, without or with a workspace).

`MCAgentRunLease` adds the symmetry sets.

### 3.2 `ThreadTurns` and `RequestQueue`

`ThreadTurns` is the promise: requests enter at the back, one may go to the
front, they take the turn from the front, one has it at a time, they may leave
while they wait. `RequestQueue` is the code: each API handler is an action that
performs all it does in its transaction, including the dispatch an intake, a
continue or a relay ends with; delivery is separate, because it happens after
the commit (`owed`: a process has committed and will call `enqueue_job`; `job`:
ARQ holds the job; `relay`: a worker will call `dispatch_next_request`). `Fault`
loses any of the three. `seenAs` is for the handlers that load the request row
before they hold the lock (`promote_queued_request_to_steer`,
`cancel_queued_request`): the session keeps the instance it has, so they judge
the status they loaded, which may be out of date. Such a handler does not
outlast the run of its request: it would have to wait for a whole run. `held` stands for the comparison of `created_at` with
`finished_at` in `_get_queue_state`: `finished_at` is read before its
transaction commits, so any suffix of the queue may be younger.

The run's own life is cut down to what the queue looks at: the newest top-level
run. `ThreadFence` and `ChildFollowsAttempt`, proved for `AgentRunLease`, are
what justifies that.

`Waiting` is the set the query of `list_queued` selects, `Ahead` its ORDER BY
and `QueueHead` the request that is ahead of all others, which `get_queue_head`
locks; that there is one is a lemma (`HeadIsFirst`).

The refinement maps `arrived` to the order of creation, `waiting` to `Waiting`,
`steering` to the waiting steer, and the turn to the request of the newest run
for as long as that run is live, owes its cleanup or waits for an answer. A
retry and a resume are part of the same turn.

### 3.3 `Tasker`

The background tasks of the API process (`services/task_service.py`). An action
is what runs between two awaits. `_lock` is held from a change of the registry
to the end of the write that saves it, so the change (`CancelTask`, `BeginRun`,
`BeginEnd`, ...) and the write (`ApiSaved`, `StartSaved`, `EndSaved`) are two
actions and whoever stands between them holds the lock (`LockFree`); rows are
deleted after it was released (`DeleteRow`, `PruneRow`).

- `tasks` is `_tasks`, `row` the table, `queue` the asyncio queue, `worker[w]`
  a loop: `pc` is the await it stands at, `verdict` how its task will end,
  `guarded` whether the handler that records "failed" is still around it, `stop`
  whether the worker itself was cancelled. `cancel` belongs to the object a
  worker holds, which a deletion does not take away.
- A coroutine returns, raises, sees its cancellation or times out, at any time.
- `Shutdown` interrupts each loop at its await (`Cancelled`). `Killed` is the
  second cancellation of `_run_task_coroutine`: the write of the cancelled
  status is interrupted. The status is still set if the lock was free.
- `Exit` is the end of a shutdown and a crash at any moment; `Start` is
  `_load_state`, whose writes come before the server takes requests.
- A write that fails is rolled back (`WriteFails`). A commit whose outcome is
  unknown is left out; so are `set_progress` and `set_message`, which save the
  status that is there, and a start that fails, which ends the process.
- Tasks are numbered in the order of `created_at`; a key is what
  `payload_match` compares.

`MCTasker` adds the symmetry of the workers.

### 3.4 `RunWorker`

`process_agent_run` as a process over an instance of `AgentRunLease`: each
durable step is an action of that module, and `RunWorker` says who takes it and
when. A run has one ARQ `job` at a time with its tries; `exec` is the attempt in
progress between two awaits, with what it wants to write or announce (`out`),
where it goes after the runtime is released (`then`), how its job ends (`exit`)
and whether it stands in an exception handler; `signal` is the cancel key,
`ends` the end events of the stream, `sweep` a row that
`reconcile_pending_runtime_cleanups` listed and acts on later, `reader` the SSE
request of a client that reads the row and then the events, and reconnects.

- The graph runs for as long as it likes, may end in any way, and may never
  yield; a subagent can be started from it. Subagents are only tenants of the
  runtime scope here: their own attempts take the same steps.
- A heartbeat that stalls (a lease running out under a living attempt) costs a
  fault, like a failing call, a retryable error, a shutdown or a crash.
- The watchers see the signal or poll the row; the signal may be lost.
- `Work(r)` joins the steps of an attempt, of which exactly one is enabled at a
  place other than the graph, for the fairness.
- "Every run ends" is not claimed, and does not hold: a job that exceeds its
  time limit is released and tried again, and a healthy worker may keep its
  lease for as long as the graph runs. `EndIsTold` asks for the end of runs
  that are over, cancelled or lost.
- `EndAfterCleanup` is what
  `src/docs/develop-guides/decisions/implemented/2026-08-30-agent-response-latency.md:26`
  says of the terminal event.
- Left out: display events and their batching, the expiry of streams.

### 3.5 `Sandbox`

One runtime scope. A container is a generation and whether it answers. The
provisioner's endpoints are split where they let another request in: the gate,
the pins (a thread that stands behind them holds one), the creation, the
`_deleting` mark, the drain and the deletion. Each process has a scope lock and
a cached connection, which names a generation and is trusted until a call fails.

- `Orphan` is a deletion whose caller timed out: it goes on in the provisioner.
- The idle reaper takes its own list, marks, drains, checks again and deletes.
- A migration stops the API and the worker before it quiesces, as its script
  does, but what they have sent may still be on its way.
- `Restart` empties the memory of the provisioner (pins, marks, gate); the idle
  clock of a container it finds starts again.
- All callers of a scope name the same Workdir and uid, so the identity checks
  of the provisioner do not fail and are left out. The Kubernetes and memory
  backends are not modelled.

### 3.6 `KnowledgeFiles`

A document and its three stores, which share no transaction. A `job` is one
task's work on one file, claimed by one conditional UPDATE; a batch goes to
PostgreSQL and to Milvus at the same time, and when either fails both are rolled
back, which may fail as well. `doomed` (a deletion was requested) and `stranded`
(the process died in the claim, or the error could not be written) are history.
A file id is made once. `update_content` has no caller and is left out; so are
folders, moves, statistics and the other kinds of base. A deletion that fails
half way leaves the row as it was, so `IndexedIsSearchable` is about files whose
deletion nobody asked for.

### 3.7 `ChangweiTask`

One engineering task with its modules and one PDF. A save locks the row of the
task and compares the revision the caller was shown. A text is the revision it
was written for, `page` what a user was last shown, `call` the model, OCR or
file system call a user waits for, outside of a transaction. The chat writes and
approves every module at once; a generation freezes the modules into an artifact
and then copies it, which may fail on its own. Members, uploads, questions and
the audit log are single writes and are left out.

### 3.8 `Credentials`

Each handler is one transaction under READ COMMITTED: it reads (`saw`), takes
locks one by one (`held`), and commits. A row it did not lock may change in
between, and only the columns it changed are written. Keys are created with an
idempotency id or by the exchange of an approved device session, switched on and
off, revoked, and revoked with their account, which OIDC may restore.
An open session that is out of time is written off in two ways: by the approval
and the exchange under the row lock they hold from the read (`WriteOff`), and by
the GET of the browser, which reads it without a lock (`StartGetSession`) and
overwrites whatever was committed since (`GetSession`).
`KeyLife` joins three parts: an account that was deleted has no live key; a key
that ended never authenticates again; and the key of a session is its
approver's, a consumed session has one and a session that has one is never open
again. "Consumed exactly when it has its key" would be false: a consumed session
may turn expired while its key lives (section 6). `ApprovalIsFinal` says what
still holds over that overwrite: the approver stays, and a session that is over
stays over. Not modelled: the lock-out of logins, the rate limit, the exchange
with the identity provider, departments, expiry dates and names.

### 3.9 `Attachments`

The files of a thread in MinIO and in the Workdir, the list in
`conversations.extra_metadata`, and the requests that use them. A handler loads
the conversation when it starts (`saw`) and writes the whole list back later.
The row lock in between does not refresh what it loaded, so a handler can write
back a list that has changed since; `overwritten` records that it happened, and
`ListedHasFile` and `InUseIsKept` are claimed of the executions in which it has
not. Section 6 says what the loss means.

## 4. Runs

| Run | Bounds | Shows |
| --- | --- | --- |
| `agent_run_lease` | 2 top-level runs, 1 subagent, 3 owners, lease of 1 tick, symmetry | type, ownership, fence, child and end facts; facts are final |
| `request_queue` | 3 requests, sources chat and call, no resumes or faults | type, the refinement of `ThreadTurns`, the pause |
| `request_queue_fair` | 2 requests, 1 resume, 1 fault | `QueueMoves` |
| `cancelled_is_not_run` | the same queue, small | the finding of section 6 |
| `tasker` | 2 tasks, 1 key, 1 worker, 1 retained end, 2 faults, 1 restart | type, agreement of registry, rows, queue and workers, early cancellation, every row ends |
| `run_worker` | 1 top-level run, 1 subagent, 3 owners, lease of 2, 2 tries, 1 fault | true ends, ends after the cleanup, pending runs are run, ends are told |
| `sandbox` | API and worker with one thread each, 2 generations, idle after 1 tick, 1 fault | type, quiescence |
| `sandbox_fair` | the same without faults | calls return, cleanup converges |
| `knowledge_files` | 1 file, 3 jobs, 2 batches, 2 faults | one writer, whole indexes, deletion, claims are resolved |
| `changwei_task` | owner and member, 2 modules, 2 pages of which 1 is unreadable, 1 page a call, 3 revisions, 1 fault | version is content, confirmed is seen, no lost text, recognised stays |
| `credentials` | 2 accounts, 1 idempotency id, 1 session, 2 handlers at a time | one founder, life of a key, approvals |
| `attachments` | 1 file, 2 requests, 3 handlers | list and files, files in use |

*Why these bounds.* Two top-level runs are an interrupted run and its resume,
or a finished one and the next; three owners are a first attempt, the one that
takes over and a late one; a lease of one tick is enough where only "expired or
not" is asked, and `RunWorker` needs two for a lease that is renewed in time.
Three requests are one with the turn and two that wait, of which one can
overtake the other. Two tasks and one retained end are one that is pruned and
one that stays or is still at work; two faults let the handler of a failing
write fail as well, and with one worker a loop that died would leave the queue
unserved. Two tries are one that is retried and the last. One fault in
`RunWorker` and `Sandbox` is a failure at any place, once; the retries behind it
run undisturbed. Two generations are the one a stale connection names and the
one that replaced it. Three jobs are a claim, its competitor and a deletion; two
batches are one stored and one not. Two handlers of the credentials are any race
of two transactions over one row; three of the attachments are a race and a
submission between. One attachment is enough for these races; that a list of
several files is kept as well is shown by the theorems of section 5.8 only. The proofs of section 5 do not depend on the bounds.

*Deadlock* is not checked: identities run out, a thread with no request left is
at rest, and so are an idle worker pool and a user who does nothing.

*Fairness.* Nothing is assumed of users, nor of the graph.

- `RequestQueue`: weak fairness of recovery, release and delivery, because each
  worker process repeats `_reconcile_agent_run_leases_forever`
  (`services/run_worker.py:1390`) every 30 s and catches every exception but its
  own cancellation; ARQ runs the jobs it holds; a run that executes ends in the
  queue's view, because of the job timeout and the lease. Paused and interrupted
  threads may stay so for ever, and `QueueMoves` says so.
- `RunWorker`: weak fairness of the clock, of the reconciler, of the cleanup
  sweep, of a job's steps outside the graph and of a client that reconnects.
- `Tasker`: strong fairness of a worker's steps, because `asyncio.Lock` serves
  its waiters in order and a coroutine ends by its timeout; weak fairness of a
  write, of the end of a shutdown and of the next start.
- `Sandbox`: weak fairness of the clock, the shutdown, the migration and an
  orphaned deletion; strong fairness of clients and the reaper, which wait for a
  lock or for pins that others take again and again; strong fairness of a
  release, because `reconcile_pending_runtime_cleanups` repeats it until it
  succeeds. It is checked without faults: a fault is an interruption after which
  the same holds again.
- `KnowledgeFiles`: weak fairness of the steps of a task that has begun.

## 5. Proofs

Every invariant and every action property the runs check is a theorem, for all
values of the constants; so are two refinements. Only what rests on fairness is
left to TLC.

*Assumptions.* The proofs use the `ASSUME` of each model and nothing else:
identities of different kinds differ from each other and from their null
values, bounds are natural numbers. Three say that a set is finite or apart, and
the code justifies them: requests (`IsFiniteSet(Req)`: rows of a table, so that
a queue has a head and run numbers can be counted), task workers
(`IsFiniteSet(Worker)`: `worker_count` of them), and the threads of a sandbox's
clients, which are not the reaper, a migration or the shutdown of a process.
The bounds on faults, revisions, resumes and generations remain parameters, so
each theorem holds for every one of them.

*Form.* Each module defines the inductive invariant `IInv` (`BoxInv` for the
sandbox) and its parts first, then has a lemma per action, named after it
(`ClaimKeeps`, `DraftEndKeeps`, ...), then one that joins them over `Next`, and
the theorems. What the steps of one actor have in common is a lemma as well
(`StepKeeps`, `LoopKeeps`, `ClientKeeps`, `MoveKeeps`): it says what a step must
leave alone for the others' parts of the invariant to survive, so an action's
lemma is about that action's own actor.

### 5.1 `AgentRunLeaseProofs`

- `Types` (`TypeOK`). Lemmas on the row operators first (`StopRowOK`,
  `StopTreeOK`, `AttemptsOK`, `CancelRowOK`, `ClaimedOK`, `UnownedOK`), then one
  step per action.
- `Ownership` (`OwnershipInv`), inductive together with `TypeOK`. A row with an
  owner has its one open attempt, and back. Every transaction either leaves
  owner and attempt alone or changes both: `OwnedThroughTree` says that closing
  a tree changes no owner, `OwnedRelease` and `OwnedKept` cover the two kinds of
  change.
- `Fence` (`ThreadFence`). No step but a creation makes a run active
  (`NextWakesNothing`), and a creation finds none active.
- `SubagentsFollow` (`ChildFollowsAttempt`). Not inductive alone: `ChildInv` adds
  that a live subagent's creator is a top-level run, not absent, with a
  workspace manifest, so that losing it raises the cleanup fence; and it needs
  `OwnershipInv`, because a new claim of the creator must come with a new token.
- `EndFacts` (`EndIsAttemptFact`) and `FinalFacts` (`FactsAreFinal`), from
  `RecordInv`: a row is accounted for by the attempts as they are *now*, and
  `Accounts` says of a pair of tables that no end appears between them that its
  attempt did not decide. It composes over the closing of a tree
  (`RecordedThroughTree`), which an argument on single rows does not.

### 5.2 `RunWorkerProofs`

- `WorkerUsesLease`: `Spec => L!Spec`. Each step of a worker, of its loops or of
  the API is a step of `AgentRunLease` on the four tables or leaves them alone
  (`StepIsLease`). The theorems of 5.1 therefore hold of the composition; they
  enter as `LP`, an instance of that module.
- `WorkerTypes` (`TypeOK`), `EndsAreTrue` (`EndIsTrue`), `EndsAfterCleanup`
  (`EndAfterCleanup`). Everything that travels towards a client may be old: what
  an attempt carries to its publication, the row the sweep listed, the status
  the reader read. The invariant says of each that an end in it *is* the run's
  end, and past the release also that the cleanup is over; `Rely` is what every
  process may count on from the others (an end stays, a finished cleanup stays
  finished, an attempt stays its run's) and `Stable` carries the invariant over
  their steps.

### 5.3 `RequestQueueProofs`

- `QueueTypes` (`TypeOK`), with `IInv`: each row has its one place in the order,
  at most one steer waits, a request has its run exactly once dispatched, and
  the number of the newest run counts the dispatched requests and the resumes
  (so a number is never given twice).
- `QueueTakesTurns` (`TakesTurns`, which is `ThreadTurns`' specification under
  the refinement mapping of 3.2). `HeadIsFirst`: a finite queue has a request
  ahead of all others, found by the least place in the order; `HeadTakesTurn`
  and `SteeringNext` relate a dispatch to the turn it takes. Each action's lemma
  proves the invariant and the mapped step (`Implements`) together.
- `QueuePauses` (`PausedNeedsConsent`). A dispatch other than by a
  continue needs a queue that is ready, a queue that is ready behind a failed run
  has a head that is not held, and it is the head that is dispatched
  (`ReadyIsNotPaused`, `PauseKeeps`).

### 5.4 `TaskerProofs`

- `TaskerTypes`, `TaskerRegistry` (`RegistryIsTrue`), `TaskerCancel`
  (`EarlyCancelNeverSucceeds`). `IInv` says where a task can be: in one place of
  the queue, in the hands of one enqueuer, or with one worker (`Once`); who is
  saving holds the lock alone (`Lock`); what a worker's position says of its
  task (`Loop`); a row differs from the registry only while it is being saved or
  deleted (`Written`).
- The retention bound is arithmetic on finite sets: `FewNewest` says that
  those with fewer than n newer ones are at most n, which is what a pruning
  leaves (`PruneKeeps`); `LoopPrunes` carries the bound over the other steps, and
  `KeptBounds` adds the workers that have yet to prune.
  Minima and maxima come from the well-foundedness of finite subsets in the
  library, without an induction principle.
- A restart is one step: `StartKeeps` proves `IInv` for the rows it loads.

### 5.5 `KnowledgeFilesProofs`

- `KnowledgeTypes`, `KnowledgeOneWriter`, `KnowledgeSearchable`
  (`IndexedIsSearchable`), `KnowledgeDeleted` (`DeletedStaysDeleted`). A claim
  is a conditional UPDATE of the row, so two jobs at work on one file would both
  have found it unclaimed (`Alone`, `Claims`); what an index job has stored is
  still there as long as nobody asked to delete the file (`Stored`); a file being
  added is nobody else's (`Fresh`).
- `StepKeeps` rests on `Confined` (a step writes one file) and `Permitted`:
  nobody else works on that file, or its deletion was requested and the row is
  at most removed, or no store is written.

### 5.6 `ChangweiTaskProofs`

- `ChangweiTypes`, `ChangweiVersions` (`VersionIsContent`), `ChangweiConfirmed`
  (`ConfirmedIsSeen`), `ChangweiTexts` (`NoLostText`), `ChangweiPages`
  (`RecognisedStays`). Whatever is shown, given to a model or frozen is `Known`:
  not ahead of the task, and the same content where it has the same revision.
  A save that finds the revision it was shown therefore replaces the texts it
  was shown (`KnownKept`, `CurrentOK`). The three action properties are proved
  of each step together with the invariant (`NextSteps`).

### 5.7 `CredentialsProofs`

- `CredentialTypes`, `CredentialFounder` (`OneFounder`), `CredentialKeys`
  (`KeyLife`), `CredentialApproval` (`ApprovalIsFinal`). `Fits` says, for each
  kind of handler, what it read that its locks keep true: the initialisation
  found no account, a key's subject is active, a session waits for this
  approval, a deletion has all keys of its account. `Exclusion` of the locks
  carries one handler's `Fits` over another one's commit (`FitsKept`). What a
  handler reads *without* a lock is not in it, because it is not kept: the
  writes that act on it (`Update`, `Revoke`) never bring a row back from revoked,
  whatever they write to `enabled` (`EndedIsRevoked`), and the late write-off of a
  GET (`GetSession`) waits for the holders of the session, so that an exchange
  still finds the approval it read (`GetSessionKeeps`). `ApprovalIsFinal` is
  proved of each step with the invariant (`Lasts`, `SessionSteps`).

### 5.8 `WorkspaceProofs`

- `AttachmentTypes` (`AttachmentsOK`), `AttachmentFiles` (`ListedHasFile`),
  `AttachmentUse` (`InUseIsKept`). Until a list is overwritten, a file about to
  be listed is confirmed by one handler only and no removal can have seen it, and
  a file is unlinked only when it is in no list (`Calm`). `Quiet` is what a
  handler's step promises the others.
- `SandboxTypes` (`TypeOK`), `SandboxQuiesced` (`QuiescedIsEmpty`). A thread
  holds the scope lock exactly between the steps where the code does (`Fit`), a
  migration under way has closed the gate, and once it has awaited the creates
  there are none and none begins (`Gated`). `TypeOK` is not inductive without
  `Fit`: it would let a thread hold the lock during a call to the container and
  return from that call with the lock.

### 5.9 Only model-checked

`QueueMoves`, `EveryRowEnds`, `PendingIsRun`, `EndIsTold`, `CallsReturn`,
`CleanupConverges` and `ClaimIsResolved`: liveness under fairness is out of the
prover's reach, as is ENABLED. `CancelledIsNotRun` is refuted (section 6).

'''

## 6. Findings

`CancelledIsNotRun`: `cancel_queued_request`
(`services/agent_request_queue_service.py:545`) loads the request, waits for the
lock of the conversation and then locks the request row. The session returns the
instance it loaded first, so the status judged is the one from before the lock. A
request dispatched meanwhile is overwritten with cancelled while its run goes on.
The docstring (:523, :526) says that a dispatched request cannot be cancelled and
that the final status is judged after the lock.

Observations, which no run refutes a claim with:

- `delete_task` forgets a running task but does not stop its coroutine, so a
  second graph build of the knowledge base is accepted, which
  `src/backend/server/routers/knowledge_router.py:539` means to refuse.
  `OneActivePerKey` allows it.
- The worker of `Tasker` that a shutdown cancels may be cancelled a second time
  inside the write of the cancelled status (`services/task_service.py:378`): the
  row stays running until the next start fails it.
- A write that fails may leave a pending task that no queue holds: it keeps its
  key busy until it is deleted. `ActiveIsOwned` names this as its only exception.
- A run released for a retry and then cancelled is cancel_requested without an
  owner, though `src/ARCHITECTURE.md:109` says such runs have one.
- Closing the tree of an interrupted run after its commit also cancels a resume
  created from it in between, because the descendants are found by
  `created_by_run_id` alone (`repositories/agent_run_repository.py:664`).
- `intake_request` may dispatch an older head, whose run nobody delivers before
  the next relay or recovery sweep
  (`services/agent_request_queue_service.py:253`).
- A steer sent while the queue is paused is younger than the failure and is
  dispatched; when it has completed, the requests that were paused follow it
  without a "continue". `PausedNeedsConsent` is about the pause behind the
  newest run.
- Two deletions of a sandbox share one `_deleting` mark, which the first to end
  removes (`src/docker/sandbox_provisioner/app.py:276`).
- The touch after a creation comes when pin and gate are released and may name a
  generation that is gone (`src/docker/sandbox_provisioner/app.py:1725`); the
  reaper then does not know the container that replaced it.
- Two handlers that change `extra_metadata` of one conversation may lose one
  another's change (`repositories/conversation_repository.py:230`): an attachment
  is listed without its file, or a file stays without being listed.
- `GET /auth/cli/sessions/{user_code}` (`src/backend/server/routers/auth_router.py:356`)
  reads the session without a lock, unlike the approval and the exchange, and
  commits `expired` by id (`services/auth_service.py:96`). A session that was
  consumed (`:191`) between the read and the write is then expired with a live
  key, and the device that polls again is told `invalid_state` instead of
  `expired_token`; an approval (`:111`) committed in between is
  lost, though its approver stays recorded.
- Aggregated statistics of a knowledge base are read, repaired and written in
  separate steps (`knowledge/base.py:1024`, `knowledge/manager.py:243`) and may
  be out of date.

## 7. Not modelled

- Streaming, message conversion, prompts, tools and middlewares inside
  LangGraph: data, and the library's own scheduling. A graph is a step that may
  end in any way at any time.
- HTTP validation, permissions and views: reads.
- Docker and Kubernetes calls beyond their outcome; what a file or shell call
  does inside a container.
- Parsing of documents, retrieval and the extraction of graphs: algorithms of
  libraries and of external models, without a state the other parts rely on.
- The configuration cache and model providers, schema statements of a migration,
  readiness, skills and MCP, memory, workdirs, document templates, speech and
  weather: file and network I/O with single writes.
- Login lock-out and rate limit (`src/backend/package/yuxi/storage/postgres/models_business.py:200`,
  `services/login_rate_limit_service.py:62`): counters over wall-clock time that
  nothing else reads, updated by a check and a later record.
- The exchange with an OIDC provider; projects, members and uploads of
  engineering tasks.
- The front end and the clients, except for the reconnecting reader of a stream.
