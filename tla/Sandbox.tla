-------------------------------- MODULE Sandbox --------------------------------
(***************************************************************************)
(* The sandbox of one runtime scope: the container the provisioner keeps,  *)
(* the endpoints that create, find, proxy to and delete it, the idle reaper *)
(* and the quiescence of a migration, and the ProvisionerSandboxProvider of *)
(* every process with its cached connection.  A sandbox id names one scope, *)
(* so one is modelled.  A container is a generation and whether it answers. *)
(* All callers of a scope name the same Workdir and uid: a Conversation     *)
(* never changes its Project, so the identity checks are left out.          *)
(***************************************************************************)
EXTENDS Integers, FiniteSets

CONSTANTS
    Process,    \* the API and the worker
    Client,     \* threads of the processes that use the scope
    Home,       \* the process of a thread
    Stopping,   \* the processes that release what they cached when they stop (API)
    Releasing,  \* the processes that release a runtime (worker)
    IdleTicks,  \* SANDBOX_IDLE_TIMEOUT_SECONDS, in clock ticks
    MaxGen,     \* bound: containers ever created
    MaxFaults   \* bound: failing calls, containers that die, restarts,
                \* shutdowns and migrations

Reaper == "reaper"
Migration == "migration"
Orphan == "orphan"    \* a deletion whose caller timed out; bound: one at a time
Nobody == "nobody"
Thread == Client \cup Stopping \cup {Reaper, Migration, Orphan}

ASSUME SandboxConstants ==
    /\ Home \in [Client -> Process]
    /\ Stopping \subseteq Process /\ Releasing \subseteq Process
    /\ Client \cap (Stopping \cup {Reaper, Migration, Orphan, Nobody}) = {}
    /\ Stopping \cap {Reaper, Migration, Orphan} = {}
    /\ IdleTicks \in Nat \ {0} /\ MaxGen \in Nat \ {0} /\ MaxFaults \in Nat

VARIABLES
    box,      \* the container: [gen, up]
    gen,      \* generations handed out
    deleting, \* SandboxOperationPins._deleting holds the sandbox
    gate,     \* SandboxQuiescenceGate._started
    seen,     \* SandboxIdleReaper._last_activity_at: [gen, idle]
    conn,     \* the generation of each process's cached connection, or 0
    lock,     \* the scope lock of each process
    down,     \* processes that shut down
    owed,     \* processes that still have to release (runtime_cleanup_pending)
    thread,   \* where each thread is: [pc, op, gen]
    faults

vars == <<box, gen, deleting, gate, seen, conn, lock, down, owed, thread, faults>>

NoBox == [gen |-> 0, up |-> FALSE]
NoConn == 0
NoSeen == [gen |-> 0, idle |-> 0]
Idle == [pc |-> "idle", op |-> "none", gen |-> 0]

Init ==
    /\ box = NoBox /\ gen = 0
    /\ deleting = FALSE /\ gate = FALSE /\ seen = NoSeen
    /\ conn = [p \in Process |-> NoConn]
    /\ lock = [p \in Process |-> Nobody]
    /\ down = {} /\ owed = {}
    /\ thread = [t \in Thread |-> Idle]
    /\ faults = 0

At(t, pc) == thread[t].pc = pc
Go(t, pc) == thread' = [thread EXCEPT ![t].pc = pc]
Exists == box # NoBox
Found == Exists /\ box.up
Fault == faults < MaxFaults /\ faults' = faults + 1

\* Threads inside SandboxOperationPins._active, and _active_creates of the gate.
Pinned == {t \in Client : thread[t].pc \in {"creating", "asked", "body"}}
Creating == {t \in Client : thread[t].pc \in {"pin", "creating"}}

\* The thread gives its scope lock back.
Unlock(t) == lock' = [lock EXCEPT ![Home[t]] = Nobody]
\* Mutant: an error path keeps the scope lock.
ReturnLocked(t) == UNCHANGED lock /\ thread' = [thread EXCEPT ![t] = Idle]
Return(t) == Unlock(t) /\ thread' = [thread EXCEPT ![t] = Idle]
Connected(t) == Unlock(t) /\ thread' = [thread EXCEPT ![t] = [Idle EXCEPT !.pc = "send"]]

\* idle_reaper.touch and forget.
Touch(g) == seen' = [gen |-> g, idle |-> 0]
Forget(g) == seen' = IF seen.gen = g THEN NoSeen ELSE seen

-----------------------------------------------------------------------------
(* ProvisionerSandboxProvider.get and acquire: the cached connection is      *)
(* checked with the provisioner, then a sandbox is created.                  *)

Begin(t, op, g, pc) ==
    /\ lock[Home[t]] = Nobody /\ At(t, "idle") /\ Home[t] \notin down
    /\ lock' = [lock EXCEPT ![Home[t]] = t]
    /\ thread' = [thread EXCEPT ![t] = [pc |-> pc, op |-> op, gen |-> g]]

Get(t) ==
    /\ ~gate   \* migrate-storage.sh stops the callers before it quiesces
    /\ Begin(t, "use", 0, IF conn[Home[t]] = NoConn THEN "gate" ELSE "check")
    /\ UNCHANGED <<box, gen, deleting, gate, seen, conn, down, owed, faults>>

\* _touch_if_needed: the touch and the discovery answer the same question.  A
\* failed call leaves the cached connection in use.
Check(t) ==
    /\ At(t, "check") /\ ~deleting
    /\ \/ /\ ~Found
          /\ conn' = [conn EXCEPT ![Home[t]] = NoConn]
          /\ Go(t, "gate") /\ UNCHANGED <<lock, seen, faults>>
       \/ /\ Found
          /\ conn' = [conn EXCEPT ![Home[t]] = box.gen]
          /\ Touch(box.gen) /\ Connected(t) /\ UNCHANGED faults
       \/ Fault /\ Connected(t) /\ UNCHANGED <<conn, seen>>
    /\ UNCHANGED <<box, gen, deleting, gate, down, owed>>

\* POST /api/sandboxes: the gate counts the create, then it takes its pin.
EnterGate(t) ==
    /\ At(t, "gate")
    /\ IF gate THEN Return(t) ELSE Go(t, "pin") /\ UNCHANGED lock
    /\ UNCHANGED <<box, gen, deleting, gate, seen, conn, down, owed, faults>>

PinCreate(t) ==
    /\ At(t, "pin") /\ ~deleting
    /\ Go(t, "creating")
    /\ UNCHANGED <<box, gen, deleting, gate, seen, conn, lock, down, owed, faults>>

\* backend.create: a container that answers is returned, one that does not is
\* replaced, and a create that fails deletes what it started.
Create(t) ==
    /\ At(t, "creating")
    /\ \/ /\ Found
          /\ thread' = [thread EXCEPT ![t].pc = "created", ![t].gen = box.gen]
          /\ UNCHANGED <<box, gen, lock, faults>>
       \/ /\ ~Found /\ gen < MaxGen
          /\ gen' = gen + 1
          /\ \/ /\ box' = [gen |-> gen + 1, up |-> TRUE]
                /\ thread' = [thread EXCEPT ![t].pc = "created", ![t].gen = gen + 1]
                /\ UNCHANGED <<lock, faults>>
             \/ Fault /\ box' = NoBox /\ Return(t)
       \/ \* the bound: the image cannot be started any more
          /\ ~Found /\ gen = MaxGen /\ Return(t) /\ UNCHANGED <<box, gen, faults>>
    /\ UNCHANGED <<deleting, gate, seen, conn, down, owed>>

\* Pin and gate are released, then the activity is recorded and the answer sent;
\* the provider caches the connection.
Created(t) ==
    /\ At(t, "created")
    /\ Touch(thread[t].gen)
    /\ conn' = [conn EXCEPT ![Home[t]] = thread[t].gen]
    /\ Connected(t)
    /\ UNCHANGED <<box, gen, deleting, gate, down, owed, faults>>

-----------------------------------------------------------------------------
(* proxy_sandbox_request: a command or a file operation of the backend.      *)

\* The pin, then the discovery: the request goes to whatever has this id.
Send(t) ==
    /\ At(t, "send") /\ ~deleting
    /\ IF Found THEN thread' = [thread EXCEPT ![t].pc = "asked", ![t].gen = box.gen]
       ELSE thread' = [thread EXCEPT ![t] = Idle]
    /\ UNCHANGED <<box, gen, deleting, gate, seen, conn, lock, down, owed, faults>>

\* The response headers arrive and count as activity; the pin stays for the body.
Headers(t) ==
    /\ At(t, "asked")
    /\ Touch(thread[t].gen) /\ Go(t, "body")
    /\ UNCHANGED <<box, gen, deleting, gate, conn, lock, down, owed, faults>>

Broken(t) ==
    /\ At(t, "asked") /\ Fault
    /\ thread' = [thread EXCEPT ![t] = Idle]
    /\ UNCHANGED <<box, gen, deleting, gate, seen, conn, lock, down, owed>>

Body(t) ==
    /\ At(t, "body")
    /\ thread' = [thread EXCEPT ![t] = Idle]
    /\ UNCHANGED <<box, gen, deleting, gate, seen, conn, lock, down, owed, faults>>

-----------------------------------------------------------------------------
(* Deletion: release, shutdown, the reaper and the migration take the same   *)
(* steps in the provisioner.                                                 *)

\* A run is over and its runtime must go; until that has succeeded the worker
\* tries again.
Owe(p) ==
    /\ ~gate /\ p \in Releasing \ (down \cup owed) /\ Exists
    /\ owed' = owed \cup {p}
    /\ UNCHANGED <<box, gen, deleting, gate, seen, conn, lock, down, thread, faults>>

\* release: the generation of the cached connection, or the one it finds.
Release(t) ==
    /\ Home[t] \in owed
    /\ LET mine == conn[Home[t]] IN
       Begin(t, "release", mine, IF mine = NoConn THEN "find" ELSE "mark")
    /\ UNCHANGED <<box, gen, deleting, gate, seen, conn, down, owed, faults>>

Find(t) ==
    /\ At(t, "find") /\ ~deleting
    /\ \/ ~Found /\ Return(t) /\ owed' = owed \ {Home[t]} /\ UNCHANGED <<seen, faults>>
       \/ /\ Found /\ Touch(box.gen)
          /\ thread' = [thread EXCEPT ![t].pc = "mark", ![t].gen = box.gen]
          /\ UNCHANGED <<lock, owed, faults>>
       \/ Fault /\ Return(t) /\ UNCHANGED <<seen, owed>>
    /\ UNCHANGED <<box, gen, deleting, gate, conn, down>>

\* shutdown_sandbox_provider: the connections are taken out of the cache under
\* the registry lock, not the scope lock.
Shutdown(p) ==
    /\ p \in Stopping \ down /\ Fault
    /\ down' = down \cup {p} /\ owed' = owed \ {p}
    /\ conn' = [conn EXCEPT ![p] = NoConn]
    /\ thread' = IF conn[p] = NoConn THEN thread
                 ELSE [thread EXCEPT ![p] = [pc |-> "mark", op |-> "shutdown",
                                             gen |-> conn[p]]]
    /\ UNCHANGED <<box, gen, deleting, gate, seen, lock>>

\* _collect_expired_sandboxes, by the reaper's thread.
Expired == seen # NoSeen /\ seen.idle = IdleTicks
Collect ==
    /\ At(Reaper, "idle") /\ Expired
    /\ thread' = [thread EXCEPT ![Reaper] = [pc |-> "mark", op |-> "reap",
                                             gen |-> seen.gen]]
    /\ UNCHANGED <<box, gen, deleting, gate, seen, conn, lock, down, owed, faults>>

\* quiesce_sandboxes: creates are refused, those in flight are awaited, then
\* everything listed is deleted until nothing is.
CloseGate ==
    /\ At(Migration, "idle") /\ Fault
    /\ gate' = TRUE /\ Go(Migration, "begin")
    /\ UNCHANGED <<box, gen, deleting, seen, conn, lock, down, owed>>

\* Mutant: the creates that passed the gate are not awaited.
AwaitNone ==
    /\ At(Migration, "begin")
    /\ Go(Migration, "list")
    /\ UNCHANGED <<box, gen, deleting, gate, seen, conn, lock, down, owed, faults>>

AwaitCreates ==
    /\ At(Migration, "begin") /\ Creating = {}
    /\ Go(Migration, "list")
    /\ UNCHANGED <<box, gen, deleting, gate, seen, conn, lock, down, owed, faults>>

List ==
    /\ At(Migration, "list")
    /\ thread' = [thread EXCEPT ![Migration] =
           IF Exists THEN [pc |-> "mark", op |-> "quiesce", gen |-> box.gen]
           ELSE [Idle EXCEPT !.pc = "done"]]
    /\ UNCHANGED <<box, gen, deleting, gate, seen, conn, lock, down, owed, faults>>

\* begin_delete: new pins wait from here on, and those held are awaited.
Mark(t) ==
    /\ At(t, "mark")
    /\ deleting' = TRUE /\ Go(t, "drain")
    /\ UNCHANGED <<box, gen, gate, seen, conn, lock, down, owed, faults>>

Drain(t) ==
    /\ At(t, "drain") /\ Pinned = {}
    /\ Go(t, IF t = Reaper THEN "recheck" ELSE "delete")
    /\ UNCHANGED <<box, gen, deleting, gate, seen, conn, lock, down, owed, faults>>

\* _delete_expired_sandbox looks again at the activity before it deletes.
Recheck ==
    /\ At(Reaper, "recheck")
    /\ Go(Reaper, IF Expired /\ seen.gen = thread[Reaper].gen THEN "delete" ELSE "failed")
    /\ UNCHANGED <<box, gen, deleting, gate, seen, conn, lock, down, owed, faults>>

\* backend.delete(expected_generation): nothing to delete is a success.
Delete(t) ==
    /\ At(t, "delete")
    /\ \/ /\ Exists => box.gen = thread[t].gen
          /\ box' = NoBox /\ Go(t, "deleted") /\ UNCHANGED faults
       \/ /\ Exists /\ box.gen # thread[t].gen
          /\ Go(t, "failed") /\ UNCHANGED <<box, faults>>
       \/ Fault /\ Go(t, "failed") /\ UNCHANGED box
    /\ UNCHANGED <<gen, deleting, gate, seen, conn, lock, down, owed>>

\* Mutant: a release that failed keeps the connection it failed with.
AnsweredKeepingCache(t, ok) ==
    IF thread[t].op = "release"
    THEN /\ conn' = IF ok THEN [conn EXCEPT ![Home[t]] = NoConn] ELSE conn
         /\ owed' = IF ok THEN owed \ {Home[t]} ELSE owed
         /\ Return(t)
    ELSE /\ thread' = [thread EXCEPT ![t] = [Idle EXCEPT !.pc = IF t = Migration THEN "list" ELSE "idle"]]
         /\ UNCHANGED <<conn, owed, lock>>

\* What the caller makes of the answer: release drops its cached connection
\* either way (clear_cache_on_delete_failure) and after a failure the cleanup
\* stays owed; the migration lists again (after an error other than a changed
\* generation it answers 500 and the operator calls it again).
Answered(t, ok) ==
    IF thread[t].op = "release"
    THEN /\ conn' = [conn EXCEPT ![Home[t]] = NoConn]
         /\ owed' = IF ok THEN owed \ {Home[t]} ELSE owed
         /\ Return(t)
    ELSE /\ thread' = [thread EXCEPT ![t] = [Idle EXCEPT !.pc = IF t = Migration THEN "list" ELSE "idle"]]
         /\ UNCHANGED <<conn, owed, lock>>

\* Mutant: a deletion that failed keeps the sandbox marked.
EndUnlessFailed(t) ==
    /\ thread[t].pc \in {"deleted", "failed"}
    /\ deleting' = (deleting /\ At(t, "failed"))
    /\ IF At(t, "deleted") THEN Forget(thread[t].gen) ELSE UNCHANGED seen
    /\ Answered(t, At(t, "deleted"))
    /\ UNCHANGED <<box, gen, gate, down, faults>>

\* end_delete: one mark serves every deletion, whoever else still waits.  The
\* activity of what was deleted is forgotten by its generation.
End(t) ==
    /\ thread[t].pc \in {"deleted", "failed"}
    /\ deleting' = FALSE
    /\ IF At(t, "deleted") THEN Forget(thread[t].gen) ELSE UNCHANGED seen
    /\ Answered(t, At(t, "deleted"))
    /\ UNCHANGED <<box, gen, gate, down, faults>>

\* The call of a release breaks off: its deletion may go on without it.
Lost(t) ==
    /\ At(t, "lost")
    /\ Answered(t, FALSE)
    /\ UNCHANGED <<box, gen, deleting, gate, seen, down, faults>>

\* ProvisionerClient's read timeout: release fails while its deletion goes on.
Timeout(t) ==
    /\ thread[t].op = "release" /\ thread[t].pc \in {"mark", "drain", "delete"}
    /\ At(Orphan, "idle") /\ Fault
    /\ thread' = [thread EXCEPT ![Orphan] = [thread[t] EXCEPT !.op = "orphan"],
                                ![t].pc = "lost"]
    /\ UNCHANGED <<box, gen, deleting, gate, seen, conn, lock, down, owed>>

-----------------------------------------------------------------------------
(* The environment.                                                          *)

\* The provisioner restarts: pins, marks, gate and activity are lost and every
\* open call fails; _seed_existing starts the clock of what it lists.
Restart ==
    /\ Fault
    /\ deleting' = FALSE /\ gate' = FALSE
    /\ seen' = IF Exists THEN [gen |-> box.gen, idle |-> 0] ELSE NoSeen
    /\ thread' = [t \in Thread |->
           IF t \in {Reaper, Migration, Orphan} THEN Idle
           ELSE IF thread[t].pc \in {"idle", "send"} THEN thread[t]
           ELSE IF At(t, "check") THEN [thread[t] EXCEPT !.pc = "send"]
           ELSE IF thread[t].op = "release" /\ ~At(t, "find") THEN [thread[t] EXCEPT !.pc = "lost"]
           ELSE Idle]
    /\ lock' = [p \in Process |->
           IF lock[p] \in Client /\ thread'[lock[p]].pc # "lost" THEN Nobody ELSE lock[p]]
    /\ UNCHANGED <<box, gen, conn, down, owed>>

Tick ==
    /\ seen # NoSeen /\ seen.idle < IdleTicks
    /\ seen' = [seen EXCEPT !.idle = @ + 1]
    /\ UNCHANGED <<box, gen, deleting, gate, conn, lock, down, owed, thread, faults>>

\* The container dies, or stops answering.
Sicken ==
    /\ Exists /\ Fault
    /\ \/ box' = NoBox
       \/ box.up /\ box' = [box EXCEPT !.up = FALSE]
    /\ UNCHANGED <<gen, deleting, gate, seen, conn, lock, down, owed, thread>>

Next ==
    \/ \E t \in Client : Get(t) \/ Release(t)
    \/ \E t \in Client : \/ Check(t) \/ EnterGate(t) \/ PinCreate(t) \/ Create(t)
                         \/ Created(t) \/ Send(t) \/ Headers(t) \/ Broken(t)
                         \/ Body(t) \/ Find(t) \/ Timeout(t)
    \/ \E p \in Process : Owe(p) \/ Shutdown(p)
    \/ Collect \/ Recheck \/ CloseGate \/ AwaitCreates \/ List
    \/ \E t \in Thread : Mark(t) \/ Drain(t) \/ Delete(t) \/ End(t) \/ Lost(t)
    \/ Tick \/ Sicken \/ Restart

Spec == Init /\ [][Next]_vars

\* Every call that was made goes on; a waiter of the scope lock or of the pins
\* gets its turn (strong); what a run left behind is released again and again
\* by reconcile_pending_runtime_cleanups; the clock and the reaper's loop run.
Step(t) ==
    \/ Mark(t) \/ Drain(t) \/ Delete(t) \/ End(t) \/ Lost(t)
    \/ t = Reaper /\ (Collect \/ Recheck)
    \/ t = Migration /\ (AwaitCreates \/ List)
    \/ t \in Client /\ (\/ Check(t) \/ EnterGate(t) \/ PinCreate(t) \/ Create(t) \/ Created(t)
                      \/ Send(t) \/ Headers(t) \/ Body(t) \/ Find(t))
FairSpec ==
    /\ Spec /\ WF_vars(Tick)
    /\ \A t \in Thread \ (Client \cup {Reaper}) : WF_vars(Step(t))
    /\ \A t \in Client \cup {Reaper} : SF_vars(Step(t))
    /\ \A t \in Client : SF_vars(Release(t))

-----------------------------------------------------------------------------
(* What the state is made of.                                                *)
Generation == 0..MaxGen
Pc == {"idle", "check", "gate", "pin", "creating", "created", "send", "asked", "body", "find",
       "mark", "drain", "recheck", "delete", "deleted", "failed", "lost",
       "begin", "list", "done"}
Op == {"none", "use", "release", "shutdown", "reap", "quiesce", "orphan"}

TypeOK ==
    /\ box \in [gen : Generation, up : BOOLEAN]
    /\ gen \in Generation
    /\ deleting \in BOOLEAN /\ gate \in BOOLEAN
    /\ seen \in [gen : Generation, idle : 0..IdleTicks]
    /\ conn \in [Process -> Generation]
    /\ lock \in [Process -> Client \cup {Nobody}]
    /\ \A p \in Process : lock[p] # Nobody => Home[lock[p]] = p /\ ~At(lock[p], "idle")
    /\ down \subseteq Stopping /\ owed \subseteq Releasing
    /\ thread \in [Thread -> [pc : Pc, op : Op, gen : Generation]]
    /\ faults \in 0..MaxFaults

\* quiesce_sandboxes answers only when nothing runs, and until the provisioner
\* restarts nothing will: a create that had passed the gate was awaited.
QuiescedIsEmpty == At(Migration, "done") => ~Exists

\* No call to the provider hangs on a lock, a pin, a mark or the gate.
CallsReturn == \A t \in Client : ~At(t, "idle") ~> At(t, "idle")

\* A runtime that has to go is released in the end, also when the cached
\* generation is of a container that was replaced; and a container whose activity
\* the reaper knows is deleted once it is idle, or used again.
CleanupConverges ==
    /\ \A p \in Process : p \in owed ~> p \notin owed
    /\ Expired /\ Exists /\ box.gen = seen.gen ~> ~(Expired /\ Exists /\ box.gen = seen.gen)
================================================================================
