----------------------------- MODULE RequestQueue -----------------------------
(***************************************************************************)
(* The request queue of one conversation thread: agent_run_requests rows,   *)
(* the newest top-level AgentRun they turn into, and the delivery of that   *)
(* run to ARQ.  Each action that names a request or dispatches is one       *)
(* transaction under the row lock of the Conversation.  The run's own life  *)
(* (module AgentRunLease) appears only as far as the queue looks at it:     *)
(* ThreadFence and ChildFollowsAttempt, proved there, say that the newest   *)
(* top-level run is the only one that can be live or owe a cleanup, and     *)
(* that no subagent is live without it.                                     *)
(***************************************************************************)
EXTENDS Integers, Sequences, FiniteSets

CONSTANTS
    Req,        \* request identities
    NoReq,
    Source,     \* subset of {"chat", "channel", "call"} the requests come from
    MaxResumes, \* bound: resumes of interrupted runs
    MaxFaults   \* bound: crashes between two steps, lost jobs and retries

ASSUME QueueConstants ==
    /\ IsFiniteSet(Req) /\ NoReq \notin Req
    /\ Source \subseteq {"chat", "channel", "call"}
    /\ MaxResumes \in Nat /\ MaxFaults \in Nat

Policy == {"enqueue", "reject", "steer"}
SteerSource == {"chat", "channel"}
LiveStatus == {"pending", "running", "cancel_requested"}
EndStatus == {"completed", "failed", "cancelled", "interrupted"}
RunId == 0..(Cardinality(Req) + MaxResumes)

VARIABLES
    req,     \* agent_run_requests: status, policy, source, dispatched run
    order,   \* requests in the order of (created_at, id)
    top,     \* the newest top-level run of the thread
    seenAs,  \* history: policies under which each request was ever seen queued
    held,    \* requests with created_at <= finished_at of that run
    done,    \* runs that completed
    owed,    \* runs committed by a process that has yet to call enqueue_job
    job,     \* runs with a job in ARQ
    relay,   \* a worker has yet to call dispatch_next_request
    resumes,
    faults

queueVars == <<req, order, seenAs, top, held>>
deliveryVars == <<done, owed, job, relay>>
vars == <<req, order, seenAs, top, held, done, owed, job, relay, resumes, faults>>

-----------------------------------------------------------------------------
Waiting(R) == {q \in Req : R[q].status = "queued"}

\* _queued_for_thread_query: a steer first, the others by creation.
Ahead(R, o, p, q) ==
    IF R[p].policy = "steer" <=> R[q].policy = "steer"
    THEN \E i, j \in DOMAIN o : i < j /\ o[i] = p /\ o[j] = q
    ELSE R[p].policy = "steer"

\* get_queue_head
QueueHead(R, o) ==
    CHOOSE q \in Waiting(R) : \A p \in Waiting(R) \ {q} : Ahead(R, o, q, p)

PendingSteer == {q \in Req : req[q].status = "queued" /\ req[q].policy = "steer"}

Active == top.status \in LiveStatus \/ top.cleanup

\* _is_steerable_message_run
Steerable ==
    top.status = "running" /\ top.kind = "chat" /\ req[top.req].source \in SteerSource

\* Mutant: a failed run does not pause the queue.
QueueStateNeverPaused(R, o) ==
    IF Waiting(R) = {} THEN "idle"
    ELSE IF Active THEN "running"
    ELSE IF top.status = "interrupted" THEN "interrupted"
    ELSE "ready"

\* _get_queue_state, for the requests R created in the order o
QueueState(R, o) ==
    IF Waiting(R) = {} THEN "idle"
    ELSE IF Active THEN "running"
    ELSE IF top.status = "interrupted" THEN "interrupted"
    ELSE IF top.status \in {"failed", "cancelled"} /\ QueueHead(R, o) \in held THEN "paused"
    ELSE "ready"

NewRun(q, kind) ==
    [id |-> top.id + 1, req |-> q, kind |-> kind, status |-> "pending",
     started |-> FALSE, cleanup |-> FALSE]

\* _dispatch_locked_head: q, queued in R, becomes the newest run.
Dispatch(q, R) ==
    /\ top' = NewRun(q, "chat")
    /\ req' = [R EXCEPT ![q].status = "dispatched", ![q].run = top.id + 1]
    /\ held' = {}

Init ==
    /\ req = [q \in Req |-> [status |-> "absent", policy |-> "enqueue",
                             source |-> "call", run |-> 0]]
    /\ order = <<>>
    /\ seenAs = [q \in Req |-> {}]
    /\ top = [id |-> 0, req |-> NoReq, kind |-> "chat", status |-> "none",
              started |-> FALSE, cleanup |-> FALSE]
    /\ held = {} /\ done = {} /\ owed = {} /\ job = {} /\ relay = FALSE
    /\ resumes = 0 /\ faults = 0

-----------------------------------------------------------------------------
(* API: intake_request and the other request handlers.                      *)

\* The checks intake_request makes before it stores anything.
Admissible(q, policy, source) ==
    /\ req[q].status = "absent"
    /\ top.status # "interrupted"
    /\ policy = "steer" =>
         source \in SteerSource /\ (Active => Steerable) /\ PendingSteer = {}

Stored(q, policy, source, status) ==
    [req EXCEPT ![q] = [status |-> status, policy |-> policy, source |-> source, run |-> 0]]

\* reject when the request cannot be the dispatched head at once
Refuse(q, source) ==
    /\ Admissible(q, "reject", source)
    /\ Active \/ Waiting(req) # {}
    /\ req' = Stored(q, "reject", source, "rejected")
    /\ order' = Append(order, q)
    /\ UNCHANGED <<seenAs, top, held, deliveryVars, resumes, faults>>

\* The request is stored, and the head of the queue is dispatched if the thread
\* is ready.  The caller of intake_request learns of the dispatch, and delivers
\* the run, only when that head is its own request.
Submit(q, policy, source) ==
    LET R == Stored(q, policy, source, "queued")
        o == Append(order, q)
        head == QueueHead(R, o)
    IN  /\ Admissible(q, policy, source)
        /\ policy = "reject" => ~Active /\ Waiting(req) = {}
        /\ order' = o
        /\ \/ /\ QueueState(R, o) = "ready"
              /\ policy = "reject" => head = q
              /\ Dispatch(head, R)
              /\ owed' = IF head = q THEN owed \cup {top.id + 1} ELSE owed
              /\ seenAs' = IF head = q THEN seenAs ELSE [seenAs EXCEPT ![q] = {policy}]
           \/ /\ QueueState(R, o) # "ready" /\ policy # "reject"
              /\ req' = R
              /\ seenAs' = [seenAs EXCEPT ![q] = {policy}]
              /\ UNCHANGED <<top, held, owed>>
        /\ UNCHANGED <<done, job, relay, resumes, faults>>

\* Mutant: the run of a request that has none yet is delivered.
SubmitAgainQueued(q) ==
    /\ req[q].status \in {"queued", "dispatched"}
    /\ owed' = owed \cup {req[q].run}
    /\ UNCHANGED <<queueVars, done, job, relay, resumes, faults>>

\* A repeated request_id returns the existing row, and delivers its run again.
SubmitAgain(q) ==
    /\ req[q].status = "dispatched"
    /\ owed' = owed \cup {req[q].run}
    /\ UNCHANGED <<queueVars, done, job, relay, resumes, faults>>

\* steer_queued_request and cancel_queued_request load the request, then wait for
\* the row locks of the conversation and the request.  The locked SELECT does not
\* refresh the instance the session holds, so they judge the request as it was
\* at any moment before; the runs and the other requests they read fresh.  Bound:
\* such a handler does not outlast the run the request turned into.
SeenQueued(q, policy) == policy \in seenAs[q]

\* Mutant: a second steer is let to the front.
PromoteAnother(q) ==
    /\ SeenQueued(q, "enqueue") /\ req[q].source = "chat"
    /\ Active /\ Steerable
    /\ req' = [req EXCEPT ![q].policy = "steer"]
    /\ seenAs' = [seenAs EXCEPT ![q] = @ \cup {"steer"}]
    /\ UNCHANGED <<order, top, held, deliveryVars, resumes, faults>>

\* steer_queued_request
Promote(q) ==
    /\ SeenQueued(q, "enqueue") /\ req[q].source = "chat"
    /\ PendingSteer \subseteq {q} /\ Active /\ Steerable
    /\ req' = [req EXCEPT ![q].policy = "steer"]
    /\ seenAs' = IF req[q].status = "queued" THEN [seenAs EXCEPT ![q] = @ \cup {"steer"}]
                                             ELSE seenAs
    /\ UNCHANGED <<order, top, held, deliveryVars, resumes, faults>>

\* cancel_queued_request
CancelRequest(q) ==
    /\ \E policy \in Policy : SeenQueued(q, policy) /\ (policy = "steer" => ~Active)
    /\ req' = [req EXCEPT ![q].status = "cancelled"]
    /\ seenAs' = [seenAs EXCEPT ![q] = {}]
    /\ UNCHANGED <<order, top, held, deliveryVars, resumes, faults>>

\* continue_thread_queue
Continue ==
    /\ QueueState(req, order) = "paused"
    /\ Dispatch(QueueHead(req, order), req)
    /\ owed' = owed \cup {top.id + 1}
    /\ UNCHANGED <<order, seenAs, done, job, relay, resumes, faults>>

\* create_agent_run_view for a resume
Resume ==
    /\ top.status = "interrupted" /\ ~top.cleanup /\ resumes < MaxResumes
    /\ top' = NewRun(top.req, "resume")
    /\ owed' = owed \cup {top.id + 1}
    /\ resumes' = resumes + 1
    /\ UNCHANGED <<req, order, seenAs, held, done, job, relay, faults>>

\* The same resume again: the run exists and is delivered while it is pending.
ResumeAgain ==
    /\ top.kind = "resume" /\ top.status = "pending"
    /\ owed' = owed \cup {top.id}
    /\ UNCHANGED <<queueVars, done, job, relay, resumes, faults>>

-----------------------------------------------------------------------------
(* Delivery: dispatch_next_request, enqueue_agent_run and ARQ.              *)

\* Mutant: a run that was dispatched before is not delivered again.
DispatchNewHead ==
    /\ QueueState(req, order) = "ready"
    /\ Dispatch(QueueHead(req, order), req)
    /\ owed' = owed \cup {top.id + 1}
    /\ UNCHANGED <<order, seenAs>>

\* dispatch_next_request: deliver a pending run again, or dispatch the head.
DispatchNext ==
    \/ /\ top.status = "pending"
       /\ owed' = owed \cup {top.id}
       /\ UNCHANGED queueVars
    \/ /\ QueueState(req, order) = "ready"
       /\ Dispatch(QueueHead(req, order), req)
       /\ owed' = owed \cup {top.id + 1}
       /\ UNCHANGED <<order, seenAs>>

NothingToDispatch ==
    top.status # "pending" /\ QueueState(req, order) # "ready"

\* after a completed run, or after a runtime was released
Relay ==
    /\ relay /\ relay' = FALSE
    /\ \/ DispatchNext
       \/ NothingToDispatch /\ UNCHANGED <<queueVars, owed>>
    /\ UNCHANGED <<done, job, resumes, faults>>

\* recover_pending_dispatches, at the start of a worker and every
\* RUN_RECONCILIATION_SECONDS
Recover == DispatchNext /\ UNCHANGED <<done, job, relay, resumes, faults>>

\* enqueue_agent_run; the job id makes a second delivery a no-op
Enqueue(r) ==
    /\ r \in owed
    /\ owed' = owed \ {r} /\ job' = job \cup {r}
    /\ UNCHANGED <<queueVars, done, relay, resumes, faults>>

\* A process dies between its commit and its next call, an enqueue is
\* swallowed by the kept result of an earlier job, or a job is out of tries.
Fault ==
    /\ faults < MaxFaults /\ faults' = faults + 1
    /\ \/ \E r \in owed : owed' = owed \ {r} /\ UNCHANGED <<job, relay>>
       \/ \E r \in job : job' = job \ {r} /\ UNCHANGED <<owed, relay>>
       \/ relay /\ relay' = FALSE /\ UNCHANGED <<owed, job>>
    /\ UNCHANGED <<queueVars, done, resumes>>

-----------------------------------------------------------------------------
(* The run, as the queue sees it.                                           *)

Claim ==
    /\ top.status = "pending" /\ ~top.cleanup /\ top.id \in job
    /\ top' = [top EXCEPT !.status = "running", !.started = TRUE]
    /\ UNCHANGED <<req, order, seenAs, held, deliveryVars, resumes, faults>>

ReleaseForRetry(fence) ==
    /\ top.status = "running" /\ faults < MaxFaults
    /\ top' = [top EXCEPT !.status = "pending", !.cleanup = fence]
    /\ faults' = faults + 1
    /\ UNCHANGED <<req, order, seenAs, held, deliveryVars, resumes>>

\* The run ends with status s.  finished_at is read from the clock before the
\* transaction commits, so the newest requests in the queue, those after the
\* cut, may be younger than it.
EndRun(s, fence, cut) ==
    /\ top' = [top EXCEPT !.status = s, !.cleanup = fence]
    /\ held' = IF s \in {"failed", "cancelled"}
               THEN {order[i] : i \in 1..cut} \cap {q \in Req : req[q].status = "queued"}
               ELSE {}
    /\ done' = IF s = "completed" THEN done \cup {top.id} ELSE done
    /\ seenAs' = [q \in Req |-> IF q = top.req THEN {} ELSE seenAs[q]]
    /\ UNCHANGED <<req, order, owed, job, relay, resumes, faults>>

Finish(s, fence, cut) ==
    /\ \/ top.status = "running" /\ s \in {"completed", "failed", "interrupted"}
       \/ top.status = "cancel_requested" /\ s \in {"cancelled", "failed"}
    /\ EndRun(s, fence, cut)

CancelRun(cut) ==
    \/ top.status = "pending" /\ ~top.started /\ EndRun("cancelled", FALSE, cut)
    \/ /\ top.status = "running" \/ (top.status = "pending" /\ top.started)
       /\ top' = [top EXCEPT !.status = "cancel_requested"]
       /\ UNCHANGED <<req, order, seenAs, held, deliveryVars, resumes, faults>>

\* The reconciler releases the runtime and then dispatches; a worker releases it
\* and leaves the dispatch to the end of its job.
ReleaseRuntime ==
    /\ top.cleanup
    /\ top' = [top EXCEPT !.cleanup = FALSE]
    /\ \/ relay' = (relay \/ top.status \in {"pending", "completed"})
       \/ UNCHANGED relay
    /\ UNCHANGED <<req, order, seenAs, held, done, owed, job, resumes, faults>>

\* process_agent_run returns, or runs again for a run that is over.
JobEnd(r) ==
    /\ r \in job /\ (r # top.id \/ top.status \in EndStatus)
    /\ job' = job \ {r}
    /\ relay' = (relay \/ (r \in done /\ ~(r = top.id /\ top.cleanup)))
    /\ UNCHANGED <<queueVars, done, owed, resumes, faults>>

Api ==
    \/ \E q \in Req, source \in Source :
         Refuse(q, source) \/ \E policy \in Policy : Submit(q, policy, source)
    \/ \E q \in Req : SubmitAgain(q) \/ Promote(q) \/ CancelRequest(q)
    \/ Continue
    \/ Resume
    \/ ResumeAgain

SomeFinish ==
    \E s \in EndStatus, fence \in BOOLEAN, cut \in 0..Len(order) : Finish(s, fence, cut)

RunStep ==
    \/ Claim
    \/ \E fence \in BOOLEAN : ReleaseForRetry(fence)
    \/ SomeFinish
    \/ \E cut \in 0..Len(order) : CancelRun(cut)
    \/ ReleaseRuntime

Next ==
    \/ Api
    \/ Relay
    \/ Recover
    \/ \E r \in RunId : Enqueue(r) \/ JobEnd(r)
    \/ Fault
    \/ RunStep

Spec == Init /\ [][Next]_vars

\* Some worker is alive: its reconciliation loop calls recover_pending_dispatches
\* and releases runtimes, ARQ runs the jobs it holds, and a run it executes
\* ends (job_timeout, and lease expiry when the worker is lost).
FairSpec ==
    /\ Spec
    /\ WF_vars(Recover) /\ WF_vars(Claim) /\ WF_vars(SomeFinish) /\ WF_vars(ReleaseRuntime)
    /\ \A r \in RunId : WF_vars(Enqueue(r))
-----------------------------------------------------------------------------
(* The tables and queues keep their shape. *)
TypeOK ==
    /\ req \in [Req -> [status : {"absent", "queued", "dispatched", "cancelled", "rejected"},
                        policy : Policy, source : Source \cup {"call"}, run : RunId]]
    /\ order \in Seq(Req) /\ Len(order) <= Cardinality(Req)
    /\ top \in [id : RunId, req : Req \cup {NoReq}, kind : {"chat", "resume"},
                status : {"none"} \cup LiveStatus \cup EndStatus,
                started : BOOLEAN, cleanup : BOOLEAN]
    /\ held \subseteq Req
    /\ seenAs \in [Req -> SUBSET Policy]
    /\ done \cup owed \cup job \subseteq RunId \ {0}
    /\ relay \in BOOLEAN
    /\ resumes \in 0..MaxResumes /\ faults \in 0..MaxFaults

\* A run that stops for an answer, and the resumes that continue it, are one
\* turn, as is the cleanup of the runtime behind a run that has ended.
Turn == IF Active \/ top.status = "interrupted" THEN top.req ELSE NoReq

Turns == INSTANCE ThreadTurns WITH
    arrived  <- order,
    waiting  <- Waiting(req),
    steering <- IF PendingSteer = {} THEN NoReq ELSE CHOOSE q \in PendingSteer : TRUE,
    turn     <- Turn

\* The queue service implements turn taking: whoever dispatches, an intake, a
\* continue, a relay, a recovery, first come is first served, only the one
\* steer goes ahead, and a turn starts when the last one is really over.
TakesTurns == Turns!TurnSpec

\* A request that waited when the newest run failed or was cancelled is not
\* dispatched behind that run until the user continues the queue.
PausedNeedsConsent ==
    [][\A q \in held :
         /\ top.status \in {"failed", "cancelled"}
         /\ req[q].status = "queued" /\ req'[q].status = "dispatched"
         => Continue]_vars

\* A waiting request is dispatched or withdrawn, or its thread waits for a
\* person: paused behind a run that failed, or interrupted for an answer.
QueueMoves ==
    \A q \in Req : req[q].status = "queued"
        ~> \/ req[q].status # "queued"
           \/ QueueState(req, order) \in {"paused", "interrupted"}

\* "Cancels a queued request; one that has been dispatched cannot be cancelled.
\* ... judges the final status after SELECT ... FOR UPDATE"
\* (cancel_queued_request, agent_request_queue_service.py:523): a request whose
\* run exists is not cancelled.
CancelledIsNotRun == \A q \in Req : req[q].status = "cancelled" => req[q].run = 0
=============================================================================
