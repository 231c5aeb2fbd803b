----------------------------- MODULE TaskerProofs -----------------------------
(***************************************************************************)
(* Proofs about Tasker for every number of tasks, workers, keys, faults    *)
(* and restarts.                                                           *)
(***************************************************************************)
EXTENDS Tasker, FiniteSetTheorems, TLAPS

CallType == [op : {"enqueue", "cancel"}, task : Task] \cup {NoCall}
LoopType == [pc : PC, task : Task \cup {NoTask}, verdict : TerminalStatuses \cup {"none"},
             guarded : BOOLEAN, stop : BOOLEAN, stale : SUBSET Task]

Types ==
    /\ phase \in {"up", "closing", "down"} /\ issued \in 0..MaxTask
    /\ key \in [Task -> Key \cup {NoKey}]
    /\ tasks \in [Task -> Status] /\ row \in [Task -> Status] /\ cancel \in [Task -> BOOLEAN]
    /\ queue \in Seq(Task) /\ api \in CallType /\ worker \in [Worker -> LoopType]
    /\ deleting \subseteq Task /\ early \subseteq Task /\ unsaved \subseteq Task
    /\ faults \in 0..MaxFaults /\ starts \in 0..MaxStarts

Holds(w) == worker[w].pc \in {"startSaving", "endSaving"}

\* The lock has one holder.
Lock ==
    /\ api # NoCall => \A w \in Worker : ~Holds(w)
    /\ \A w, v \in Worker : Holds(w) /\ Holds(v) => w = v

\* What goes with a phase of the process.
Phases ==
    /\ phase = "up" => \A w \in Worker : worker[w].pc \notin {"killed", "stopped"} /\ ~worker[w].stop
    /\ phase # "up" => starts < MaxStarts
    /\ phase = "down" => /\ api = NoCall /\ queue = <<>> /\ deleting = {} /\ unsaved = {}
                         /\ \A w \in Worker : worker[w] = StoppedWorker
                         /\ \A t \in Task : tasks[t] = "none"

\* Only tasks that were issued are anywhere.
Issued ==
    /\ \A t \in Task : tasks[t] # "none" \/ row[t] # "none" \/ t \in deleting => t <= issued
    /\ \A i \in DOMAIN queue : queue[i] <= issued
    /\ api # NoCall => api.task <= issued
    /\ \A w \in Worker : /\ worker[w].task \in Task => worker[w].task <= issued
                         /\ \A t \in worker[w].stale : t <= issued

Enqueuing(t) == api = [op |-> "enqueue", task |-> t]
Queued(t) == \E i \in DOMAIN queue : queue[i] = t

\* A task is in one place of the queue, or with one worker.
Once ==
    /\ \A i, j \in DOMAIN queue : queue[i] = queue[j] => i = j
    /\ \A w \in Worker, t \in Task : worker[w].task = t => ~Queued(t) /\ ~Enqueuing(t)
    /\ \A w, v \in Worker : worker[w].task = worker[v].task => w = v \/ worker[w].task = NoTask
    /\ \A t \in Task : Enqueuing(t) => ~Queued(t)

\* Where a loop is, and what the registry says of its task.
Loop(x) ==
    /\ x.pc \in {"idle", "stopped"} => x.task = NoTask /\ x.stale = {} /\ x.verdict = "none"
    /\ x.pc \notin {"idle", "stopped"} => x.task \in Task
    /\ x.pc \in {"got", "starting"} => tasks[x.task] \in {"pending", "none"} /\ x.verdict = "none"
    /\ x.pc \in {"startSaving", "running", "killed"} \/ x.verdict = "success" => tasks[x.task] # "pending"
    /\ x.pc = "ending" => x.verdict \in TerminalStatuses
    /\ x.pc = "endSaving" => tasks[x.task] \notin Active
    /\ x.pc = "pruning" <=> x.stale # {}
    /\ \A t \in x.stale : tasks[t] = "none"

Waiting ==
    /\ \A t \in Task : Queued(t) \/ Enqueuing(t) => tasks[t] \in {"pending", "none"}
    /\ \A t \in Task : tasks[t] = "pending" => row[t] # "success"
Deleted == \A t \in deleting : tasks[t] = "none"

\* A task whose row differs from the registry is being saved, or its row is
\* being deleted.
Saving(t) ==
    \/ api # NoCall /\ api.task = t
    \/ \E w \in Worker : Holds(w) /\ worker[w].task = t
Dropping(t) == tasks[t] = "none" /\ (t \in deleting \/ \E w \in Worker : t \in worker[w].stale)
Written == \A t \in Task \ unsaved : tasks[t] = row[t] \/ Dropping(t) \/ Saving(t)

\* Besides the tasks whose workers have yet to prune, few are over.
Over == {t \in Task : tasks[t] \in TerminalStatuses}
Late == {w \in Worker : worker[w].pc \in {"ending", "endSaving", "prune"}}
Kept == Cardinality(Over \ {worker[w].task : w \in Late}) <= MaxTerminal

Accepted ==
    \A t \in early :
        /\ cancel[t] /\ tasks[t] # "success" /\ row[t] # "success"
        /\ \A w \in Worker : worker[w].task = t => worker[w].verdict # "success"

IInv ==
    /\ Types /\ Lock /\ Phases /\ Issued /\ Once
    /\ (\A w \in Worker : Loop(worker[w])) /\ Waiting /\ Deleted
    /\ OneActivePerKey /\ Accepted
    /\ phase = "up" => Written /\ ActiveIsOwned /\ Kept
-----------------------------------------------------------------------------
(* Facts about finite sets of numbers.  The induction is in the library: no  *)
(* family of finite sets descends for ever.                                  *)

Above(S, u) == {v \in S : v > u}
Below(S, u) == {v \in S : v < u}

Family(F, S) == IsFiniteSet(S) /\ F \subseteq SUBSET S /\ F # {}

LEMMA Smallest ==
    ASSUME NEW S, NEW F, Family(F, S)
    PROVE  \E A \in F : \A B \in F : ~(B \subseteq A /\ B # A)
  <1>1. IsWellFoundedOn(StrictSubsetOrdering(S), FiniteSubsetsOf(S)) /\ FiniteSubsetsOf(S) = SUBSET S
    BY FS_StrictSubsetOrderingWellFounded, FS_FiniteSubsetsOfFinite DEF Family
  <1>2. \E A \in F : \A B \in F : <<B, A>> \notin StrictSubsetOrdering(S)
    BY <1>1, WFMin DEF Family
  <1>3. \A A, B \in SUBSET S : B \subseteq A /\ B # A => <<B, A>> \in StrictSubsetOrdering(S)
    BY DEF StrictSubsetOrdering
  <1>4. \A A \in F : A \in SUBSET S
    BY DEF Family
  <1> QED
    BY <1>2, <1>3, <1>4

LEMMA Maximum ==
    ASSUME NEW S \in SUBSET Nat, IsFiniteSet(S), S # {}
    PROVE  \E m \in S : Above(S, m) = {}
  <1>0. PICK F : F = {Above(S, u) : u \in S}
    OBVIOUS
  <1>1. Family(F, S)
    BY <1>0 DEF Family, Above
  <1>2. PICK m \in S : \A u \in S : ~(Above(S, u) \subseteq Above(S, m) /\ Above(S, u) # Above(S, m))
    <2>1. \E A \in F : \A B \in F : ~(B \subseteq A /\ B # A)
      BY <1>1, Smallest
    <2> QED
      BY <1>0, <2>1
  <1>3. ASSUME NEW u \in Above(S, m) PROVE FALSE
    <2>1. u \in S /\ u \in Nat /\ m \in Nat /\ u > m
      BY <1>3 DEF Above
    <2>2. Above(S, u) \subseteq Above(S, m)
      <3>1. \A v \in S : v \in Nat /\ (v > u => v > m)
        BY <2>1
      <3> QED
        BY <3>1 DEF Above
    <2>3. u \notin Above(S, u)
      BY <2>1 DEF Above
    <2> QED
      BY <1>2, <1>3, <2>1, <2>2, <2>3
  <1> QED
    BY <1>3

LEMMA Minimum ==
    ASSUME NEW S \in SUBSET Nat, IsFiniteSet(S), S # {}
    PROVE  \E m \in S : Below(S, m) = {}
  <1>0. PICK F : F = {Below(S, u) : u \in S}
    OBVIOUS
  <1>1. Family(F, S)
    BY <1>0 DEF Family, Below
  <1>2. PICK m \in S : \A u \in S : ~(Below(S, u) \subseteq Below(S, m) /\ Below(S, u) # Below(S, m))
    <2>1. \E A \in F : \A B \in F : ~(B \subseteq A /\ B # A)
      BY <1>1, Smallest
    <2> QED
      BY <1>0, <2>1
  <1>3. ASSUME NEW u \in Below(S, m) PROVE FALSE
    <2>1. u \in S /\ u \in Nat /\ m \in Nat /\ u < m
      BY <1>3 DEF Below
    <2>2. Below(S, u) \subseteq Below(S, m)
      <3>1. \A v \in S : v \in Nat /\ (v < u => v < m)
        BY <2>1
      <3> QED
        BY <3>1 DEF Below
    <2>3. u \notin Below(S, u)
      BY <2>1 DEF Below
    <2> QED
      BY <1>2, <1>3, <2>1, <2>2, <2>3
  <1> QED
    BY <1>3

\* The tasks behind which fewer than n newer ones are over are at most n.
LEMMA FewNewest ==
    ASSUME NEW S \in SUBSET Nat, IsFiniteSet(S), NEW n \in Nat
    PROVE  Cardinality({t \in S : Cardinality(Newer(t, S)) < n}) <= n
  <1> DEFINE K == {t \in S : Cardinality(Newer(t, S)) < n}
  <1>1. IsFiniteSet(K) /\ K \in SUBSET Nat
    BY FS_Subset
  <1>2. CASE K = {}
    BY <1>2, FS_EmptySet
  <1>3. CASE K # {}
    <2>1. PICK m \in K : Below(K, m) = {}
      <3> HIDE DEF K
      <3> QED
        BY <1>1, <1>3, Minimum
    <2>2. K \ {m} \subseteq Newer(m, S)
      BY <2>1, <1>1 DEF Below, Newer
    <2>3. IsFiniteSet(Newer(m, S)) /\ Cardinality(Newer(m, S)) \in Nat /\ Cardinality(Newer(m, S)) < n
      BY FS_Subset, FS_CardinalityType DEF Newer
    <2>4. /\ Cardinality(K \ {m}) = Cardinality(K) - 1 /\ Cardinality(K) \in Nat
          /\ Cardinality(K \ {m}) <= Cardinality(Newer(m, S))
      <3> HIDE DEF K
      <3> QED
        BY <1>1, <2>1, <2>2, <2>3, FS_RemoveElement, FS_CardinalityType, FS_Subset
    <2> QED
      BY <2>3, <2>4
  <1> QED
    BY <1>2, <1>3

LEMMA TasksFinite == Task \subseteq Nat /\ IsFiniteSet(Task) /\ \A S \in SUBSET Task : IsFiniteSet(S)
  <1>1. Task \subseteq Nat /\ IsFiniteSet(Task)
    BY ConstantsAssumption, FS_Interval DEF Task
  <1> QED
    BY <1>1, FS_Subset

\* What pruning leaves.
LEMMA StaleLeavesFew ==
    ASSUME NEW s \in [Task -> Status]
    PROVE  /\ StaleOf(s) \subseteq Task /\ \A t \in StaleOf(s) : s[t] \in TerminalStatuses
           /\ Cardinality({t \in Task : Forget(s, StaleOf(s))[t] \in TerminalStatuses}) <= MaxTerminal
  <1> DEFINE S == {t \in Task : s[t] \in TerminalStatuses}
             left == {t \in Task : Forget(s, StaleOf(s))[t] \in TerminalStatuses}
  <1>1. StaleOf(s) = {t \in S : Cardinality(Newer(t, S)) >= MaxTerminal}
    BY DEF StaleOf
  <1>2. S \in SUBSET Nat /\ IsFiniteSet(S) /\ MaxTerminal \in Nat
    BY TasksFinite, ConstantsAssumption
  <1>3. \A t \in S : Cardinality(Newer(t, S)) \in Nat
    BY <1>2, FS_Subset, FS_CardinalityType DEF Newer
  <1>4. left = {t \in S : Cardinality(Newer(t, S)) < MaxTerminal}
    <2>1. \A t \in Task : Forget(s, StaleOf(s))[t] = IF t \in StaleOf(s) THEN "none" ELSE s[t]
      BY DEF Forget
    <2>2. \A t \in Task : t \in left <=> t \in S /\ t \notin StaleOf(s)
      BY <1>1, <2>1 DEF TerminalStatuses
    <2>3. \A t \in S : t \notin StaleOf(s) <=> Cardinality(Newer(t, S)) < MaxTerminal
      <3> HIDE DEF S
      <3> QED
        BY <1>1, <1>2, <1>3
    <2> QED
      BY <2>2, <2>3
  <1> HIDE DEF S, left
  <1>5. Cardinality(left) <= MaxTerminal
    BY <1>2, <1>4, FewNewest
  <1> QED
    BY <1>1, <1>5 DEF S, left
-----------------------------------------------------------------------------
(* A step of the loop w, which leaves it at x.                               *)

LEMMA LoopMoves ==
    ASSUME Types, NEW w \in Worker, NEW x \in LoopType, worker' = [worker EXCEPT ![w] = x]
    PROVE  worker' \in [Worker -> LoopType] /\ worker'[w] = x /\ \A v \in Worker \ {w} : worker'[v] = worker[v]
  BY DEF Types

\* It saves what it changed: Written stays.
LEMMA LoopWrites ==
    ASSUME Types, Written, NEW w \in Worker, NEW x \in LoopType,
           worker' = [worker EXCEPT ![w] = x], UNCHANGED <<api, deleting>>,
           unsaved \subseteq unsaved',
           \A t \in Task \ unsaved' :
              \/ tasks'[t] = row'[t]
              \/ tasks'[t] = "none" /\ t \in x.stale
              \/ x.pc \in {"startSaving", "endSaving"} /\ x.task = t
              \/ /\ tasks'[t] = tasks[t] /\ row'[t] = row[t]
                 /\ t \notin worker[w].stale /\ ~(Holds(w) /\ worker[w].task = t)
    PROVE  Written'
  <1>1. worker'[w] = x /\ \A v \in Worker \ {w} : worker'[v] = worker[v]
    BY LoopMoves
  <1>2. ASSUME NEW t \in Task \ unsaved' PROVE tasks'[t] = row'[t] \/ Dropping(t)' \/ Saving(t)'
    <2>1. CASE tasks'[t] = "none" /\ t \in x.stale
      BY <1>1, <2>1 DEF Dropping
    <2>2. CASE x.pc \in {"startSaving", "endSaving"} /\ x.task = t
      BY <1>1, <2>2 DEF Saving, Holds
    <2>3. CASE /\ tasks'[t] = tasks[t] /\ row'[t] = row[t]
               /\ t \notin worker[w].stale /\ ~(Holds(w) /\ worker[w].task = t)
      <3>1. CASE Dropping(t)
        BY <1>1, <2>3, <3>1 DEF Dropping
      <3>2. CASE Saving(t)
        BY <1>1, <2>3, <3>2 DEF Saving, Holds
      <3> QED
        BY <1>2, <2>3, <3>1, <3>2 DEF Written
    <2> QED
      BY <1>2, <2>1, <2>2, <2>3
  <1> QED
    BY <1>2 DEF Written

LEMMA LoopOwns ==
    ASSUME Types, ActiveIsOwned, NEW w \in Worker, NEW x \in LoopType,
           worker' = [worker EXCEPT ![w] = x], UNCHANGED <<api, queue>>,
           unsaved \subseteq unsaved',
           \A t \in Task : tasks'[t] \in Active => tasks[t] \in Active,
           \A t \in Task \ unsaved' : worker[w].task = t =>
              \/ tasks'[t] \notin Active
              \/ worker[w].pc \in {"prune", "pruning"}
              \/ x.task = t /\ x.pc \notin {"prune", "pruning"}
    PROVE  ActiveIsOwned'
  <1>1. worker'[w] = x /\ \A v \in Worker \ {w} : worker'[v] = worker[v]
    BY LoopMoves
  <1>2. ASSUME NEW t \in Task \ unsaved', tasks'[t] \in Active
        PROVE  \/ \E i \in DOMAIN queue : queue[i] = t
               \/ \E v \in Worker : worker'[v].task = t /\ worker'[v].pc \notin {"prune", "pruning"}
               \/ api = [op |-> "enqueue", task |-> t]
    <2>1. CASE \E v \in Worker : worker[v].task = t /\ worker[v].pc \notin {"prune", "pruning"}
      BY <1>1, <1>2, <2>1
    <2> QED
      BY <1>2, <2>1 DEF ActiveIsOwned
  <1> QED
    BY <1>2 DEF ActiveIsOwned

LEMMA OverFinite == Types => IsFiniteSet(Over) /\ Over \subseteq Task
  BY TasksFinite DEF Over

LEMMA LoopPrunes ==
    ASSUME Types, Types', Kept, NEW w \in Worker, NEW x \in LoopType,
           worker' = [worker EXCEPT ![w] = x],
           w \in Late => x.pc \in {"ending", "endSaving", "prune"} /\ x.task = worker[w].task,
           \A t \in Task : tasks'[t] \in TerminalStatuses =>
              \/ tasks[t] \in TerminalStatuses
              \/ x.pc \in {"ending", "endSaving", "prune"} /\ x.task = t
    PROVE  Kept'
  <1>1. worker'[w] = x /\ \A v \in Worker \ {w} : worker'[v] = worker[v]
    BY LoopMoves
  <1>2. PICK H, G : H = {worker[v].task : v \in Late} /\ G = {worker'[v].task : v \in Late'}
    OBVIOUS
  <1>3. H \subseteq G
    <2>1. \A v \in Late : v \in Late' /\ worker'[v].task = worker[v].task
      BY <1>1 DEF Late
    <2> QED
      BY <1>2, <2>1
  <1>4. Over' \ G \subseteq Over \ H
    <2>1. x.pc \in {"ending", "endSaving", "prune"} => x.task \in G
      BY <1>1, <1>2 DEF Late
    <2> QED
      BY <1>3, <2>1 DEF Over
  <1>5. IsFiniteSet(Over \ H) /\ IsFiniteSet(Over' \ G) /\ Cardinality(Over' \ G) \in Nat
        /\ Cardinality(Over \ H) \in Nat /\ Cardinality(Over' \ G) <= Cardinality(Over \ H)
    <2>1. IsFiniteSet(Over \ H)
      BY OverFinite, FS_Subset
    <2> QED
      BY <1>4, <2>1, FS_Subset, FS_CardinalityType
  <1>6. Cardinality(Over \ H) <= MaxTerminal
    BY <1>2 DEF Kept
  <1>7. Cardinality(Over' \ G) <= MaxTerminal
    BY <1>5, <1>6, ConstantsAssumption
  <1> QED
    BY <1>2, <1>7 DEF Kept

LEMMA FewAreKept ==
    ASSUME Cardinality(Over') <= MaxTerminal PROVE Kept'
  <1>1. IsFiniteSet(Over') /\ Cardinality(Over') \in Nat
    BY TasksFinite, FS_CardinalityType DEF Over
  <1>2. PICK H : H = {worker'[v].task : v \in Late'}
    OBVIOUS
  <1>3. Cardinality(Over' \ H) \in Nat /\ Cardinality(Over' \ H) <= Cardinality(Over')
    BY <1>1, FS_Subset, FS_CardinalityType
  <1> QED
    BY <1>1, <1>2, <1>3, ConstantsAssumption DEF Kept

LEMMA LoopKeeps ==
    ASSUME IInv, Types', NEW w \in Worker, NEW x \in LoopType, worker' = [worker EXCEPT ![w] = x],
           UNCHANGED <<phase, issued, key, cancel, queue, api, deleting, starts, early>>,
           phase # "down", phase = "up" => x.pc \notin {"killed", "stopped"} /\ ~x.stop,
           x.task = worker[w].task \/ x.task = NoTask,
           x.pc \in {"startSaving", "endSaving"} => Holds(w) \/ LockFree,
           x.verdict = "success" => worker[w].verdict = "success" \/ ~cancel[x.task],
           \A t \in x.stale : t <= issued, Loop(x)',
           \A t \in Task : row'[t] = row[t] \/ row'[t] = "none" \/ row'[t] = tasks'[t],
           \A t \in Task : \/ tasks'[t] = tasks[t] \/ tasks'[t] = "none"
                           \/ /\ t = worker[w].task /\ tasks[t] # "none"
                              /\ tasks'[t] # "pending"
                              /\ tasks'[t] \in Active => tasks[t] \in Active
                              /\ tasks'[t] = "success" => worker[w].verdict = "success",
           phase = "up" => Written' /\ ActiveIsOwned' /\ Kept'
    PROVE  IInv'
  <1>0. Types /\ worker \in [Worker -> LoopType]
    BY DEF IInv, Types
  <1>1. worker'[w] = x /\ \A v \in Worker \ {w} : worker'[v] = worker[v]
    BY <1>0, LoopMoves
  <1>2. Lock'
    BY <1>0, <1>1 DEF IInv, Lock, LockFree, Holds
  <1>3. Phases'
    BY <1>1 DEF IInv, Phases
  <1>4. Issued'
    <2>1. worker[w].task \in Task => worker[w].task <= issued
      BY DEF IInv, Issued
    <2>2. \A t \in Task : tasks'[t] # "none" \/ row'[t] # "none" \/ t \in deleting' => t <= issued'
      BY <2>1 DEF IInv, Issued
    <2>3. \A v \in Worker : /\ worker'[v].task \in Task => worker'[v].task <= issued'
                            /\ \A t \in worker'[v].stale : t <= issued'
      BY <1>1, ConstantsAssumption DEF IInv, Issued, Task
    <2> QED
      BY <2>2, <2>3 DEF IInv, Issued
  <1>5. Once'
    <2>1. NoTask \notin Task
      BY ConstantsAssumption DEF Task
    <2> QED
      BY <1>0, <1>1, <2>1 DEF IInv, Once, Queued, Enqueuing, LoopType
  <1>6. ASSUME NEW v \in Worker PROVE Loop(worker[v])'
    <2>1. CASE v = w
      BY <1>1, <2>1
    <2>2. CASE v # w
      <3>1. Loop(worker[v]) /\ worker'[v] = worker[v] /\ worker[v] \in LoopType
        BY <1>0, <1>1, <2>2 DEF IInv
      <3>2. worker[v].task # NoTask => worker[v].task # worker[w].task
        BY <2>2 DEF IInv, Once
      <3>3. worker[v].task \in Task =>
              tasks'[worker[v].task] \in {tasks[worker[v].task], "none"}
        BY <3>2, ConstantsAssumption DEF Task
      <3>4. \A t \in worker[v].stale : tasks'[t] = "none"
        BY <3>1 DEF Loop, LoopType
      <3>5. worker[v].task = NoTask => worker[v].pc \in {"idle", "stopped"} /\ worker[v].verdict = "none"
        BY <3>1, ConstantsAssumption DEF Loop, Task
      <3> QED
        BY <3>1, <3>3, <3>4, <3>5 DEF Loop, LoopType, Active
    <2> QED
      BY <2>1, <2>2
  <1>7. Waiting'
    BY DEF IInv, Waiting, Once, Queued, Enqueuing
  <1>8. Deleted'
    BY <1>0 DEF IInv, Deleted, Types
  <1>9. OneActivePerKey'
    <2>1. \A t \in Task : tasks'[t] \in Active => tasks[t] \in Active
      BY DEF Active
    <2> QED
      BY <2>1 DEF IInv, OneActivePerKey
  <1>10. Accepted'
    <2>1. ASSUME NEW t \in early
          PROVE  /\ cancel[t] /\ tasks'[t] # "success" /\ row'[t] # "success"
                 /\ \A v \in Worker : worker'[v].task = t => worker'[v].verdict # "success"
      <3>1. /\ t \in Task /\ cancel[t] /\ tasks[t] # "success" /\ row[t] # "success"
            /\ \A v \in Worker : worker[v].task = t => worker[v].verdict # "success"
        BY <1>0, <2>1 DEF IInv, Accepted, Types
      <3>2. x.task = t => x.verdict # "success"
        BY <3>1, ConstantsAssumption DEF Task
      <3> QED
        BY <1>1, <3>1, <3>2
    <2> QED
      BY <2>1 DEF Accepted
  <1> QED
    BY <1>2, <1>3, <1>4, <1>5, <1>6, <1>7, <1>8, <1>9, <1>10 DEF IInv

LEMMA LoopRuns ==
    ASSUME IInv, NEW w \in Worker, worker[w].pc # "stopped"
    PROVE  /\ phase # "down" /\ (phase = "up" => ~worker[w].stop)
           /\ worker[w] \in LoopType /\ Loop(worker[w])
           /\ worker[w].pc # "idle" => worker[w].task \in Task /\ tasks[worker[w].task] \in Status
           /\ \A t \in worker[w].stale : t \in Task /\ t <= issued /\ tasks[t] = "none"
           /\ Types
  <1>1. Types /\ worker \in [Worker -> LoopType] /\ worker[w] \in LoopType /\ Loop(worker[w])
    BY DEF IInv, Types
  <1>2. phase # "down" /\ (phase = "up" => ~worker[w].stop)
    BY DEF IInv, Phases, StoppedWorker, At
  <1>3. worker[w].pc # "idle" => worker[w].task \in Task /\ tasks[worker[w].task] \in Status
    BY <1>1 DEF Loop, Types
  <1>4. \A t \in worker[w].stale : t \in Task /\ t <= issued /\ tasks[t] = "none"
    BY <1>1 DEF IInv, Issued, Loop, LoopType
  <1> QED
    BY <1>1, <1>2, <1>3, <1>4

\* The loop moves on without a write.
LEMMA MoveKeeps ==
    ASSUME IInv, NEW w \in Worker, NEW x \in LoopType, worker' = [worker EXCEPT ![w] = x],
           UNCHANGED <<phase, issued, key, tasks, cancel, queue, api, deleting, row, faults,
                       starts, early, unsaved>>,
           worker[w].pc \in {"got", "running", "prune"},
           x.pc \notin {"killed", "stopped", "idle", "startSaving", "endSaving", "pruning"},
           x.stop = worker[w].stop, x.task = worker[w].task, x.stale = worker[w].stale,
           worker[w].pc = "prune" => x.pc = "prune",
           x.pc = "prune" => tasks[x.task] \notin Active,
           x.verdict = "success" => worker[w].verdict = "success" \/ ~cancel[x.task], Loop(x)
    PROVE  IInv'
  <1>1. /\ phase # "down" /\ (phase = "up" => ~worker[w].stop) /\ Types
        /\ worker[w] \in LoopType /\ Loop(worker[w]) /\ ~Holds(w)
        /\ \A t \in worker[w].stale : t \in Task /\ t <= issued /\ tasks[t] = "none"
    BY LoopRuns DEF Holds
  <1>2. Types'
    BY <1>1, LoopMoves DEF Types
  <1>3. Loop(x)'
    BY DEF Loop
  <1>4. ASSUME phase = "up" PROVE Written' /\ ActiveIsOwned' /\ Kept'
    <2>1. Written /\ ActiveIsOwned /\ Kept
      BY <1>4 DEF IInv
    <2>2. Written'
      BY <1>1, <2>1, LoopWrites
    <2>3. ActiveIsOwned'
      BY <1>1, <2>1, LoopOwns
    <2>4. Kept'
      BY <1>1, <1>2, <2>1, LoopPrunes DEF Late
    <2> QED
      BY <2>2, <2>3, <2>4
  <1> QED
    BY <1>1, <1>2, <1>3, <1>4, LoopKeeps

LEMMA LookUpKeeps == ASSUME IInv, NEW w \in Worker, LookUp(w) PROVE IInv'
  <1>0. /\ worker[w].pc = "got" /\ worker[w] \in LoopType /\ Loop(worker[w])
        /\ UNCHANGED <<phase, issued, key, tasks, cancel, queue, api, deleting, row, faults,
                       starts, early, unsaved>>
    BY LoopRuns DEF LookUp
  <1>1. CASE tasks[worker[w].task] = "none" /\ Goto(w, "prune")
    <2>1. PICK x : x = [worker[w] EXCEPT !.pc = "prune"]
      OBVIOUS
    <2>2. /\ x \in LoopType /\ x.pc = "prune" /\ x.task = worker[w].task /\ x.stop = worker[w].stop
          /\ x.stale = worker[w].stale /\ x.verdict = worker[w].verdict
      BY <1>0, <2>1 DEF LoopType, PC
    <2>3. worker' = [worker EXCEPT ![w] = x]
      BY <1>1, <2>1 DEF Goto
    <2>4. Loop(x) /\ tasks[x.task] \notin Active
      BY <1>0, <1>1, <2>2 DEF Loop, Active
    <2> QED
      BY <1>0, <2>2, <2>3, <2>4, MoveKeeps
  <1>2. CASE EndWith(w, "cancelled", FALSE)
    <2>1. PICK x : x = [worker[w] EXCEPT !.pc = "ending", !.verdict = "cancelled", !.guarded = FALSE]
      OBVIOUS
    <2>2. /\ x \in LoopType /\ x.pc = "ending" /\ x.task = worker[w].task /\ x.stop = worker[w].stop
          /\ x.stale = worker[w].stale /\ x.verdict = "cancelled"
      BY <1>0, <2>1 DEF LoopType, PC, TerminalStatuses
    <2>3. worker' = [worker EXCEPT ![w] = x]
      BY <1>2, <2>1 DEF EndWith
    <2>4. Loop(x)
      BY <1>0, <2>2 DEF Loop, TerminalStatuses
    <2> QED
      BY <1>0, <2>2, <2>3, <2>4, MoveKeeps
  <1>3. CASE Goto(w, "starting")
    <2>1. PICK x : x = [worker[w] EXCEPT !.pc = "starting"]
      OBVIOUS
    <2>2. /\ x \in LoopType /\ x.pc = "starting" /\ x.task = worker[w].task /\ x.stop = worker[w].stop
          /\ x.stale = worker[w].stale /\ x.verdict = worker[w].verdict
      BY <1>0, <2>1 DEF LoopType, PC
    <2>3. worker' = [worker EXCEPT ![w] = x]
      BY <1>3, <2>1 DEF Goto
    <2>4. Loop(x)
      BY <1>0, <2>2 DEF Loop
    <2> QED
      BY <1>0, <2>2, <2>3, <2>4, MoveKeeps
  <1> QED
    BY <1>1, <1>2, <1>3 DEF LookUp

\* The coroutine of a loop is over.
LEMMA EndWithKeeps ==
    ASSUME IInv, NEW w \in Worker, NEW verdict \in TerminalStatuses, NEW guarded \in BOOLEAN,
           worker[w].pc = "running", EndWith(w, verdict, guarded),
           verdict = "success" => ~cancel[worker[w].task],
           UNCHANGED <<phase, issued, key, tasks, cancel, queue, api, deleting, row, faults,
                       starts, early, unsaved>>
    PROVE  IInv'
  <1>0. worker[w] \in LoopType /\ Loop(worker[w])
    BY LoopRuns
  <1>1. PICK x : x = [worker[w] EXCEPT !.pc = "ending", !.verdict = verdict, !.guarded = guarded]
    OBVIOUS
  <1>2. /\ x \in LoopType /\ x.pc = "ending" /\ x.task = worker[w].task /\ x.stop = worker[w].stop
        /\ x.stale = worker[w].stale /\ x.verdict = verdict
    BY <1>0, <1>1 DEF LoopType, PC
  <1>3. worker' = [worker EXCEPT ![w] = x]
    BY <1>1 DEF EndWith
  <1>4. Loop(x)
    BY <1>0, <1>2 DEF Loop
  <1> QED
    BY <1>2, <1>3, <1>4, MoveKeeps

LEMMA ReturnKeeps == ASSUME IInv, NEW w \in Worker, Return(w) PROVE IInv'
  <1>1. CASE cancel[worker[w].task]
    BY <1>1, EndWithKeeps DEF Return, TerminalStatuses
  <1>2. CASE ~cancel[worker[w].task]
    BY <1>2, EndWithKeeps DEF Return, TerminalStatuses
  <1> QED
    BY <1>1, <1>2

LEMMA AbortKeeps == ASSUME IInv, NEW w \in Worker, Abort(w) PROVE IInv'
  BY EndWithKeeps DEF Abort, TerminalStatuses

\* The loop w changes the registry of its task to s, or finds it gone.
LEMMA ChangeKeeps ==
    ASSUME IInv, NEW w \in Worker, NEW x \in LoopType, worker' = [worker EXCEPT ![w] = x],
           NEW s \in Status \ {"none", "pending"}, LockFree,
           tasks' = [tasks EXCEPT ![worker[w].task] = s],
           UNCHANGED <<phase, issued, key, cancel, queue, api, deleting, row, faults,
                       starts, early, unsaved>>,
           x.stop = worker[w].stop, x.task = worker[w].task, x.stale = worker[w].stale,
           x.verdict = worker[w].verdict, tasks[worker[w].task] # "none",
           \/ worker[w].pc = "starting" /\ x.pc = "startSaving" /\ s = "running"
           \/ worker[w].pc = "ending" /\ x.pc = "endSaving" /\ s = x.verdict
           \/ worker[w].pc = "killed" /\ x.pc = "prune" /\ s = "cancelled"
    PROVE  IInv'
  <1>1. /\ phase # "down" /\ (phase = "up" => ~worker[w].stop) /\ Types
        /\ worker[w] \in LoopType /\ Loop(worker[w]) /\ worker[w].task \in Task /\ ~Holds(w)
        /\ \A t \in worker[w].stale : t \in Task /\ t <= issued /\ tasks[t] = "none"
    BY LoopRuns DEF Holds
  <1>2. tasks' \in [Task -> Status] /\ tasks'[worker[w].task] = s
        /\ \A t \in Task \ {worker[w].task} : tasks'[t] = tasks[t]
    BY <1>1 DEF Types
  <1>3. Types'
    BY <1>1, <1>2, LoopMoves DEF Types
  <1>4. \A t \in worker[w].stale : tasks'[t] = "none"
    BY <1>1, <1>2
  <1>5. s \in Active => tasks[worker[w].task] \in Active /\ worker[w].pc = "starting"
    BY <1>1 DEF Loop, Active, TerminalStatuses
  <1>6. Loop(x)'
    BY <1>1, <1>2, <1>4, <1>5 DEF Loop, TerminalStatuses, Active
  <1>7. ASSUME phase = "up" PROVE Written' /\ ActiveIsOwned' /\ Kept'
    <2>1. Written /\ ActiveIsOwned /\ Kept /\ worker[w].pc # "killed"
      BY <1>7 DEF IInv, Phases
    <2>2. Written'
      <3>1. ASSUME NEW t \in Task
            PROVE  \/ tasks'[t] = "none" /\ t \in x.stale
                   \/ x.pc \in {"startSaving", "endSaving"} /\ x.task = t
                   \/ /\ tasks'[t] = tasks[t] /\ row'[t] = row[t]
                      /\ t \notin worker[w].stale /\ ~(Holds(w) /\ worker[w].task = t)
        BY <1>1, <1>2, <1>4, <2>1
      <3>2. UNCHANGED <<api, deleting, unsaved>>
        OBVIOUS
      <3> QED
        BY <1>1, <2>1, <3>1, <3>2, LoopWrites
    <2>3. ActiveIsOwned'
      <3>1. \A t \in Task : tasks'[t] \in Active => tasks[t] \in Active
        BY <1>2, <1>5
      <3>2. x.pc \notin {"prune", "pruning"}
        BY <2>1
      <3> QED
        BY <1>1, <2>1, <3>1, <3>2, LoopOwns
    <2>4. Kept'
      <3>1. \A t \in Task : tasks'[t] \in TerminalStatuses =>
              tasks[t] \in TerminalStatuses \/ (x.pc = "endSaving" /\ x.task = t)
        BY <1>2, <2>1 DEF TerminalStatuses
      <3> QED
        BY <1>1, <1>3, <2>1, <3>1, LoopPrunes DEF Late
    <2> QED
      BY <2>2, <2>3, <2>4
  <1>8. s = "success" => worker[w].verdict = "success"
    OBVIOUS
  <1>9. phase = "up" => x.pc \notin {"killed", "stopped"} /\ ~x.stop
    BY <1>1
  <1>10. x.verdict = "success" => worker[w].verdict = "success"
    OBVIOUS
  <1> QED
    BY <1>1, <1>2, <1>3, <1>5, <1>6, <1>7, <1>8, <1>9, <1>10, LoopKeeps

\* A task that is gone is not brought back.
LEMMA GoneKeeps ==
    ASSUME IInv, NEW w \in Worker, NEW pc \in {"running", "prune"}, Goto(w, pc),
           worker[w].pc \in {"starting", "ending", "killed"},
           pc = "running" => worker[w].pc = "starting",
           worker[w].pc # "killed" => tasks[worker[w].task] = "none",
           UNCHANGED <<phase, issued, key, tasks, cancel, queue, api, deleting, row, faults,
                       starts, early, unsaved>>
    PROVE  IInv'
  <1>1. /\ phase # "down" /\ (phase = "up" => ~worker[w].stop) /\ Types
        /\ worker[w] \in LoopType /\ Loop(worker[w]) /\ worker[w].task \in Task /\ ~Holds(w)
        /\ \A t \in worker[w].stale : t \in Task /\ t <= issued /\ tasks[t] = "none"
    BY LoopRuns DEF Holds
  <1>2. PICK x : x = [worker[w] EXCEPT !.pc = pc]
    OBVIOUS
  <1>3. /\ x \in LoopType /\ x.pc = pc /\ x.task = worker[w].task /\ x.stop = worker[w].stop
        /\ x.stale = worker[w].stale /\ x.verdict = worker[w].verdict
    BY <1>1, <1>2 DEF LoopType, PC
  <1>4. worker' = [worker EXCEPT ![w] = x]
    BY <1>2 DEF Goto
  <1>5. Types'
    BY <1>1, <1>3, <1>4, LoopMoves DEF Types
  <1>6. Loop(x)'
    BY <1>1, <1>3 DEF Loop
  <1>7. ASSUME phase = "up" PROVE Written' /\ ActiveIsOwned' /\ Kept'
    <2>1. Written /\ ActiveIsOwned /\ Kept /\ worker[w].pc # "killed"
      BY <1>7 DEF IInv, Phases
    <2>2. Written'
      BY <1>1, <1>3, <1>4, <2>1, LoopWrites
    <2>3. ActiveIsOwned'
      BY <1>1, <1>3, <1>4, <2>1, LoopOwns DEF Active
    <2>4. Kept'
      BY <1>1, <1>3, <1>4, <1>5, <2>1, LoopPrunes DEF Late
    <2> QED
      BY <2>2, <2>3, <2>4
  <1> QED
    BY <1>1, <1>3, <1>4, <1>5, <1>6, <1>7, LoopKeeps

LEMMA BeginRunKeeps == ASSUME IInv, NEW w \in Worker, BeginRun(w) PROVE IInv'
  <1>0. worker[w].pc = "starting" /\ worker[w] \in LoopType /\ Loop(worker[w])
    BY LoopRuns DEF BeginRun
  <1>1. CASE tasks[worker[w].task] = "none"
    BY <1>0, <1>1, GoneKeeps DEF BeginRun
  <1>2. CASE tasks[worker[w].task] # "none"
    <2>1. PICK x : x = [worker[w] EXCEPT !.pc = "startSaving"]
      OBVIOUS
    <2>2. /\ x \in LoopType /\ x.pc = "startSaving" /\ x.task = worker[w].task
          /\ x.stop = worker[w].stop /\ x.stale = worker[w].stale /\ x.verdict = worker[w].verdict
      BY <1>0, <2>1 DEF LoopType, PC
    <2>3. worker' = [worker EXCEPT ![w] = x]
      BY <1>2, <2>1 DEF BeginRun, Goto
    <2>4. "running" \in Status \ {"none", "pending"}
      BY DEF Status, Active
    <2> QED
      BY <1>0, <1>2, <2>2, <2>3, <2>4, ChangeKeeps DEF BeginRun
  <1> QED
    BY <1>1, <1>2

LEMMA BeginEndKeeps == ASSUME IInv, NEW w \in Worker, BeginEnd(w) PROVE IInv'
  <1>0. worker[w].pc = "ending" /\ worker[w] \in LoopType /\ Loop(worker[w])
    BY LoopRuns DEF BeginEnd
  <1>1. CASE tasks[worker[w].task] = "none"
    BY <1>0, <1>1, GoneKeeps DEF BeginEnd
  <1>2. CASE tasks[worker[w].task] # "none"
    <2>1. PICK x : x = [worker[w] EXCEPT !.pc = "endSaving"]
      OBVIOUS
    <2>2. /\ x \in LoopType /\ x.pc = "endSaving" /\ x.task = worker[w].task
          /\ x.stop = worker[w].stop /\ x.stale = worker[w].stale /\ x.verdict = worker[w].verdict
      BY <1>0, <2>1 DEF LoopType, PC
    <2>3. worker' = [worker EXCEPT ![w] = x]
      BY <1>2, <2>1 DEF BeginEnd, Goto
    <2>4. PICK s : s = worker[w].verdict
      OBVIOUS
    <2>5. s \in Status \ {"none", "pending"}
      BY <1>0, <2>4 DEF Loop, Status, TerminalStatuses
    <2> QED
      BY <1>0, <1>2, <2>2, <2>3, <2>4, <2>5, ChangeKeeps DEF BeginEnd
  <1> QED
    BY <1>1, <1>2

LEMMA KilledKeeps == ASSUME IInv, NEW w \in Worker, Killed(w) PROVE IInv'
  <1>0. worker[w].pc = "killed" /\ worker[w] \in LoopType /\ Loop(worker[w]) /\ Types
    BY LoopRuns DEF Killed
  <1>1. CASE ~(LockFree /\ tasks[worker[w].task] # "none")
    BY <1>0, <1>1, GoneKeeps DEF Killed
  <1>2. CASE LockFree /\ tasks[worker[w].task] # "none"
    <2>1. PICK x : x = [worker[w] EXCEPT !.pc = "prune"]
      OBVIOUS
    <2>2. /\ x \in LoopType /\ x.pc = "prune" /\ x.task = worker[w].task
          /\ x.stop = worker[w].stop /\ x.stale = worker[w].stale /\ x.verdict = worker[w].verdict
      BY <1>0, <2>1 DEF LoopType, PC
    <2>3. worker' = [worker EXCEPT ![w] = x]
      BY <2>1 DEF Killed, Goto
    <2>4. "cancelled" \in Status \ {"none", "pending"}
      BY DEF Status, TerminalStatuses
    <2> QED
      BY <1>0, <1>2, <2>2, <2>3, <2>4, ChangeKeeps DEF Killed
  <1> QED
    BY <1>1, <1>2

\* A write of the loop w ends; after one that failed its task is unsaved.
LEMMA SavingKeeps ==
    ASSUME IInv, NEW w \in Worker, NEW x \in LoopType, worker' = [worker EXCEPT ![w] = x],
           UNCHANGED <<phase, issued, key, tasks, cancel, queue, api, deleting, starts, early>>,
           Holds(w), x.stop = worker[w].stop, x.task = worker[w].task, x.stale = worker[w].stale,
           x.pc \in {"running", "prune", "ending"}, x.pc = "ending" => x.verdict = "failed",
           x.pc = "running" => worker[w].pc = "startSaving",
           x.verdict = "success" => worker[w].verdict = "success",
           \/ /\ row' = [row EXCEPT ![worker[w].task] = tasks[worker[w].task]]
              /\ UNCHANGED <<faults, unsaved>>
              /\ IF worker[w].pc = "startSaving" THEN x.pc = "running" ELSE x.pc = "prune"
           \/ WriteFails({worker[w].task}) /\ UNCHANGED row
    PROVE  IInv'
  <1>1. /\ phase # "down" /\ (phase = "up" => ~worker[w].stop) /\ Types
        /\ worker[w] \in LoopType /\ Loop(worker[w]) /\ worker[w].task \in Task
        /\ worker[w].pc \in {"startSaving", "endSaving"}
        /\ \A t \in worker[w].stale : t \in Task /\ t <= issued /\ tasks[t] = "none"
    BY LoopRuns DEF Holds
  <1>2. /\ row' \in [Task -> Status] /\ \A t \in Task \ {worker[w].task} : row'[t] = row[t]
        /\ row'[worker[w].task] \in {row[worker[w].task], tasks[worker[w].task]}
        /\ worker[w].task \in unsaved' \/ row'[worker[w].task] = tasks[worker[w].task]
        /\ unsaved \subseteq unsaved' /\ unsaved' \subseteq Task
        /\ faults' \in 0..MaxFaults
    BY <1>1, ConstantsAssumption DEF Types, WriteFails
  <1>3. Types'
    BY <1>1, <1>2, LoopMoves DEF Types
  <1>4. Loop(x)'
    BY <1>1 DEF Loop, TerminalStatuses
  <1>5. ASSUME phase = "up" PROVE Written' /\ ActiveIsOwned' /\ Kept'
    <2>1. Written /\ ActiveIsOwned /\ Kept
      BY <1>5 DEF IInv
    <2>2. Written'
      <3>1. \A t \in Task \ unsaved' :
              \/ tasks'[t] = row'[t]
              \/ tasks'[t] = "none" /\ t \in x.stale
              \/ /\ tasks'[t] = tasks[t] /\ row'[t] = row[t]
                 /\ t \notin worker[w].stale /\ ~(Holds(w) /\ worker[w].task = t)
        BY <1>1, <1>2
      <3> QED
        BY <1>1, <1>2, <2>1, <3>1, LoopWrites
    <2>3. ActiveIsOwned'
      <3>1. worker[w].task \in Task \ unsaved' /\ x.pc = "prune" => tasks'[worker[w].task] \notin Active
        BY <1>1 DEF Loop, WriteFails
      <3> QED
        BY <1>1, <1>2, <2>1, <3>1, LoopOwns
    <2>4. Kept'
      <3>1. w \in Late => x.pc \in {"ending", "endSaving", "prune"}
        BY <1>1 DEF Late
      <3> QED
        BY <1>1, <1>3, <2>1, <3>1, LoopPrunes
    <2> QED
      BY <2>2, <2>3, <2>4
  <1>6. \A t \in Task : row'[t] = row[t] \/ row'[t] = tasks'[t]
    BY <1>2
  <1> QED
    BY <1>1, <1>3, <1>4, <1>5, <1>6, LoopKeeps

LEMMA StartSavedKeeps == ASSUME IInv, NEW w \in Worker, StartSaved(w) PROVE IInv'
  <1>0. worker[w].pc = "startSaving" /\ worker[w] \in LoopType /\ Holds(w)
    BY LoopRuns DEF StartSaved, Holds
  <1>1. ASSUME NEW pc \in {"running", "prune"}, Goto(w, pc),
               \/ /\ row' = [row EXCEPT ![worker[w].task] = tasks[worker[w].task]]
                  /\ UNCHANGED <<faults, unsaved>> /\ pc = "running"
               \/ WriteFails({worker[w].task}) /\ UNCHANGED row /\ pc = "prune"
        PROVE  IInv'
    <2>1. PICK x : x = [worker[w] EXCEPT !.pc = pc]
      OBVIOUS
    <2>2. /\ x \in LoopType /\ x.pc = pc /\ x.task = worker[w].task
          /\ x.stop = worker[w].stop /\ x.stale = worker[w].stale /\ x.verdict = worker[w].verdict
      BY <1>0, <2>1 DEF LoopType, PC
    <2>3. worker' = [worker EXCEPT ![w] = x]
      BY <1>1, <2>1 DEF Goto
    <2> QED
      BY <1>0, <1>1, <2>2, <2>3, SavingKeeps DEF StartSaved
  <1> QED
    BY <1>1 DEF StartSaved

LEMMA EndSavedKeeps == ASSUME IInv, NEW w \in Worker, EndSaved(w) PROVE IInv'
  <1>0. worker[w].pc = "endSaving" /\ worker[w] \in LoopType /\ Holds(w)
    BY LoopRuns DEF EndSaved, Holds
  <1>1. CASE Goto(w, "prune")
    <2>1. PICK x : x = [worker[w] EXCEPT !.pc = "prune"]
      OBVIOUS
    <2>2. /\ x \in LoopType /\ x.pc = "prune" /\ x.task = worker[w].task
          /\ x.stop = worker[w].stop /\ x.stale = worker[w].stale /\ x.verdict = worker[w].verdict
      BY <1>0, <2>1 DEF LoopType, PC
    <2>3. worker' = [worker EXCEPT ![w] = x]
      BY <1>1, <2>1 DEF Goto
    <2> QED
      BY <1>0, <1>1, <2>2, <2>3, SavingKeeps DEF EndSaved
  <1>2. CASE WriteFails({worker[w].task}) /\ UNCHANGED row /\ EndWith(w, "failed", FALSE)
    <2>1. PICK x : x = [worker[w] EXCEPT !.pc = "ending", !.verdict = "failed", !.guarded = FALSE]
      OBVIOUS
    <2>2. /\ x \in LoopType /\ x.pc = "ending" /\ x.task = worker[w].task
          /\ x.stop = worker[w].stop /\ x.stale = worker[w].stale /\ x.verdict = "failed"
      BY <1>0, <2>1 DEF LoopType, PC, TerminalStatuses
    <2>3. worker' = [worker EXCEPT ![w] = x]
      BY <1>2, <2>1 DEF EndWith
    <2> QED
      BY <1>0, <1>2, <2>2, <2>3, SavingKeeps DEF EndSaved
  <1> QED
    BY <1>1, <1>2 DEF EndSaved

\* The loop is done with its task, or goes on to delete the rows of stale tasks.
LEMMA DoneOK ==
    ASSUME IInv, NEW w \in Worker, worker[w].pc # "stopped", Done(w)
    PROVE  \E x \in LoopType :
              /\ worker' = [worker EXCEPT ![w] = x] /\ x.task = NoTask /\ x.stale = {}
              /\ x.verdict = "none" /\ x.pc \in {"idle", "stopped"}
              /\ phase = "up" => x.pc = "idle" /\ ~x.stop
  <1>1. phase = "up" => ~worker[w].stop
    BY LoopRuns
  <1>2. /\ IdleWorker \in LoopType /\ IdleWorker.pc = "idle" /\ IdleWorker.task = NoTask
        /\ IdleWorker.stale = {} /\ IdleWorker.verdict = "none" /\ ~IdleWorker.stop
        /\ StoppedWorker \in LoopType /\ StoppedWorker.pc = "stopped"
        /\ StoppedWorker.task = NoTask /\ StoppedWorker.stale = {} /\ StoppedWorker.verdict = "none"
    BY DEF IdleWorker, StoppedWorker, At, LoopType, PC
  <1> QED
    BY <1>1, <1>2 DEF Done

LEMMA PruneKeeps == ASSUME IInv, NEW w \in Worker, Prune(w) PROVE IInv'
  <1> DEFINE stale == StaleOf(tasks)
  <1>0. /\ UNCHANGED <<phase, issued, key, cancel, queue, api, deleting, row, faults,
                       starts, early, unsaved>>
        /\ worker[w].pc = "prune" /\ tasks' = Forget(tasks, stale)
    BY DEF Prune
  <1>1. /\ phase # "down" /\ (phase = "up" => ~worker[w].stop) /\ Types
        /\ worker[w] \in LoopType /\ Loop(worker[w]) /\ worker[w].task \in Task
        /\ ~Holds(w) /\ worker[w].stale = {}
    BY <1>0, LoopRuns DEF Holds, Loop
  <1>2. /\ stale \subseteq Task /\ \A t \in stale : t <= issued
        /\ tasks' \in [Task -> Status] /\ \A t \in stale : tasks'[t] = "none"
        /\ \A t \in Task \ stale : tasks'[t] = tasks[t]
    <2>1. stale \subseteq Task /\ \A t \in stale : tasks[t] \in TerminalStatuses
      BY <1>1, StaleLeavesFew DEF Types
    <2>2. \A t \in stale : t <= issued
      BY <2>1 DEF IInv, Issued, TerminalStatuses
    <2> HIDE DEF stale
    <2> QED
      BY <1>0, <1>1, <2>1, <2>2 DEF Types, Forget, Status
  <1>3. PICK x \in LoopType :
           /\ worker' = [worker EXCEPT ![w] = x] /\ x.stale = stale
           /\ IF stale = {} THEN x.pc \in {"idle", "stopped"} /\ x.task = NoTask /\ x.verdict = "none"
              ELSE x.pc = "pruning" /\ x.task = worker[w].task /\ x.verdict = worker[w].verdict
           /\ phase = "up" => x.pc # "stopped" /\ ~x.stop
    <2>1. CASE stale = {}
      BY <1>0, <2>1, DoneOK DEF Prune
    <2>2. CASE stale # {}
      <3>1. PICK x : x = [worker[w] EXCEPT !.pc = "pruning", !.stale = stale]
        OBVIOUS
      <3>2. /\ x \in LoopType /\ x.pc = "pruning" /\ x.task = worker[w].task /\ x.stale = stale
            /\ x.stop = worker[w].stop /\ x.verdict = worker[w].verdict
        BY <1>1, <1>2, <3>1 DEF LoopType, PC
      <3>3. worker' = [worker EXCEPT ![w] = x]
        BY <2>2, <3>1 DEF Prune
      <3> QED
        BY <1>1, <2>2, <3>2, <3>3
    <2> QED
      BY <2>1, <2>2
  <1> HIDE DEF stale
  <1>4. Types'
    BY <1>0, <1>1, <1>2, <1>3, LoopMoves DEF Types
  <1>5. Loop(x)'
    <2>1. worker[w].verdict = "success" => tasks'[worker[w].task] # "pending"
      BY <1>1, <1>2 DEF Loop
    <2> QED
      BY <1>1, <1>2, <1>3, <2>1 DEF Loop
  <1>6. ASSUME phase = "up" PROVE Written' /\ ActiveIsOwned' /\ Kept'
    <2>1. Written /\ ActiveIsOwned
      BY <1>6 DEF IInv
    <2>2. Written'
      <3>1. \A t \in Task :
              \/ tasks'[t] = "none" /\ t \in x.stale
              \/ /\ tasks'[t] = tasks[t] /\ row'[t] = row[t]
                 /\ t \notin worker[w].stale /\ ~(Holds(w) /\ worker[w].task = t)
        BY <1>0, <1>1, <1>2, <1>3
      <3> QED
        BY <1>0, <1>1, <1>3, <2>1, <3>1, LoopWrites
    <2>3. ActiveIsOwned'
      <3>1. \A t \in Task : tasks'[t] \in Active => tasks[t] \in Active
        BY <1>2 DEF Active
      <3> QED
        BY <1>0, <1>1, <1>3, <2>1, <3>1, LoopOwns
    <2>4. Kept'
      <3>1. Cardinality(Over') <= MaxTerminal
        BY <1>0, <1>1, StaleLeavesFew DEF Over, Types, stale
      <3> QED
        BY <3>1, FewAreKept
    <2> QED
      BY <2>2, <2>3, <2>4
  <1>7. x.verdict = "success" => worker[w].verdict = "success"
    BY <1>3
  <1> QED
    BY <1>0, <1>1, <1>2, <1>3, <1>4, <1>5, <1>6, <1>7, LoopKeeps

LEMMA PruneRowKeeps == ASSUME IInv, NEW w \in Worker, PruneRow(w) PROVE IInv'
  <1>0. /\ UNCHANGED <<phase, issued, key, tasks, cancel, queue, api, deleting, starts, early>>
        /\ worker[w].pc = "pruning"
    BY DEF PruneRow
  <1>1. /\ phase # "down" /\ (phase = "up" => ~worker[w].stop) /\ Types
        /\ worker[w] \in LoopType /\ Loop(worker[w]) /\ worker[w].task \in Task
        /\ ~Holds(w) /\ worker[w].stale # {}
        /\ \A t \in worker[w].stale : t \in Task /\ t <= issued /\ tasks[t] = "none"
    BY <1>0, LoopRuns DEF Holds, Loop
  <1>2. PICK stale, t : /\ stale = worker[w].stale
                        /\ t = CHOOSE u \in stale : Newer(u, stale) = {}
    OBVIOUS
  <1>3. stale \subseteq Task /\ t \in stale
    <2>1. stale \in SUBSET Nat /\ IsFiniteSet(stale) /\ stale \subseteq Task
      BY <1>1, <1>2, TasksFinite
    <2>2. \E u \in stale : Newer(u, stale) = {}
      BY <1>1, <1>2, <2>1, Maximum DEF Above, Newer
    <2> QED
      BY <1>2, <2>1, <2>2
  <1>4. PICK x \in LoopType :
           /\ worker' = [worker EXCEPT ![w] = x]
           /\ \/ x.pc \in {"idle", "stopped"} /\ x.task = NoTask /\ x.verdict = "none" /\ x.stale = {}
              \/ /\ x.pc = "pruning" /\ x.task = worker[w].task /\ x.verdict = worker[w].verdict
                 /\ x.stale # {}
           /\ phase = "up" => x.pc # "stopped" /\ ~x.stop
           /\ x.stale \subseteq stale
           /\ \/ /\ row' = [row EXCEPT ![t] = "none"] /\ x.stale = stale \ {t}
                 /\ UNCHANGED <<faults, unsaved>>
              \/ WriteFails(stale) /\ UNCHANGED row
    <2>1. CASE /\ Done(w)
               /\ \/ /\ row' = [row EXCEPT ![t] = "none"] /\ stale = {t} /\ UNCHANGED <<faults, unsaved>>
                  \/ WriteFails(stale) /\ UNCHANGED row
      <3>1. PICK x \in LoopType :
              /\ worker' = [worker EXCEPT ![w] = x] /\ x.task = NoTask /\ x.stale = {}
              /\ x.verdict = "none" /\ x.pc \in {"idle", "stopped"}
              /\ phase = "up" => x.pc = "idle" /\ ~x.stop
        BY <1>0, <2>1, DoneOK
      <3>2. stale = {t} => x.stale = stale \ {t}
        BY <3>1
      <3> QED
        BY <2>1, <3>1, <3>2
    <2>2. CASE /\ stale # {t} /\ row' = [row EXCEPT ![t] = "none"] /\ UNCHANGED <<faults, unsaved>>
               /\ worker' = [worker EXCEPT ![w].stale = stale \ {t}]
      <3>1. PICK x : x = [worker[w] EXCEPT !.stale = stale \ {t}]
        OBVIOUS
      <3>2. /\ x \in LoopType /\ x.pc = "pruning" /\ x.task = worker[w].task /\ x.stale = stale \ {t}
            /\ x.stop = worker[w].stop /\ x.verdict = worker[w].verdict
        BY <1>0, <1>1, <1>3, <3>1 DEF LoopType
      <3>3. worker' = [worker EXCEPT ![w] = x]
        BY <2>2, <3>1
      <3> QED
        BY <1>1, <1>3, <2>2, <3>2, <3>3
    <2> QED
      BY <1>2, <2>1, <2>2 DEF PruneRow
  <1>5. /\ row' \in [Task -> Status] /\ faults' \in 0..MaxFaults
        /\ unsaved \subseteq unsaved' /\ unsaved' \subseteq Task
        /\ \A u \in Task : row'[u] = row[u] \/ (u = t /\ row'[u] = "none")
        /\ \A u \in stale \ unsaved' : row'[u] = "none" \/ u \in x.stale
    BY <1>1, <1>3, <1>4, ConstantsAssumption DEF Types, WriteFails, Status
  <1>6. Types'
    BY <1>0, <1>1, <1>4, <1>5, LoopMoves DEF Types
  <1>7. Loop(x)'
    BY <1>0, <1>1, <1>2, <1>4 DEF Loop
  <1>8. ASSUME phase = "up" PROVE Written' /\ ActiveIsOwned' /\ Kept'
    <2>1. Written /\ ActiveIsOwned /\ Kept
      BY <1>8 DEF IInv
    <2>2. Written'
      <3>1. \A u \in Task \ unsaved' :
              \/ tasks'[u] = row'[u]
              \/ tasks'[u] = "none" /\ u \in x.stale
              \/ /\ tasks'[u] = tasks[u] /\ row'[u] = row[u]
                 /\ u \notin worker[w].stale /\ ~(Holds(w) /\ worker[w].task = u)
        BY <1>0, <1>1, <1>2, <1>3, <1>5
      <3> QED
        BY <1>0, <1>1, <1>4, <1>5, <2>1, <3>1, LoopWrites
    <2>3. ActiveIsOwned'
      BY <1>0, <1>1, <1>4, <1>5, <2>1, LoopOwns
    <2>4. Kept'
      BY <1>0, <1>1, <1>4, <1>6, <2>1, LoopPrunes DEF Late
    <2> QED
      BY <2>2, <2>3, <2>4
  <1> QED
    BY <1>0, <1>1, <1>2, <1>4, <1>5, <1>6, <1>7, <1>8, LoopKeeps

LEMMA TakeKeeps == ASSUME IInv, NEW w \in Worker, Take(w) PROVE IInv'
  <1>0. /\ UNCHANGED <<phase, issued, key, tasks, cancel, api, deleting, row, faults,
                       starts, early, unsaved>>
        /\ worker[w].pc = "idle" /\ queue # <<>> /\ queue' = Tail(queue)
    BY DEF Take
  <1>1. /\ phase # "down" /\ (phase = "up" => ~worker[w].stop) /\ Types
        /\ worker[w] \in LoopType /\ Loop(worker[w]) /\ ~Holds(w)
        /\ worker[w].stale = {} /\ worker[w].task = NoTask /\ worker[w].verdict = "none"
        /\ queue \in Seq(Task)
    BY <1>0, LoopRuns DEF Holds, Loop, Types
  <1>2. PICK h : h = Head(queue)
    OBVIOUS
  <1>3. /\ h \in Task /\ queue' \in Seq(Task) /\ 1 \in DOMAIN queue /\ h = queue[1]
        /\ \A i \in DOMAIN queue' : i + 1 \in DOMAIN queue /\ i + 1 # 1 /\ queue'[i] = queue[i + 1]
        /\ \A i \in DOMAIN queue : i = 1 \/ (i - 1 \in DOMAIN queue' /\ queue'[i - 1] = queue[i])
    BY <1>0, <1>1, <1>2
  <1>4. /\ Queued(h) /\ tasks[h] \in {"pending", "none"} /\ h <= issued
        /\ ~Enqueuing(h) /\ \A v \in Worker : worker[v].task # h
        /\ \A t \in Task : Queued(t)' => Queued(t) /\ t # h
        /\ \A t \in Task : Queued(t) => Queued(t)' \/ t = h
    <2>1. Queued(h)
      BY <1>3 DEF Queued
    <2>2. \A t \in Task : Queued(t)' => Queued(t) /\ t # h
      BY <1>3 DEF Queued, IInv, Once
    <2>3. \A t \in Task : Queued(t) => Queued(t)' \/ t = h
      BY <1>3 DEF Queued
    <2> QED
      BY <1>3, <2>1, <2>2, <2>3 DEF IInv, Waiting, Issued, Once
  <1>5. PICK x : x = [worker[w] EXCEPT !.pc = "got", !.task = h]
    OBVIOUS
  <1>6. /\ x \in LoopType /\ x.pc = "got" /\ x.task = h /\ x.stale = {} /\ x.verdict = "none"
        /\ x.stop = worker[w].stop
    BY <1>1, <1>3, <1>5 DEF LoopType, PC
  <1>7. worker' = [worker EXCEPT ![w] = x]
    BY <1>2, <1>5 DEF Take
  <1>8. /\ worker' \in [Worker -> LoopType] /\ worker'[w] = x
        /\ \A v \in Worker \ {w} : worker'[v] = worker[v]
    BY <1>1, <1>6, <1>7, LoopMoves
  <1>9. Types'
    BY <1>0, <1>1, <1>3, <1>8 DEF Types
  <1>10. Lock' /\ Phases'
    BY <1>0, <1>1, <1>6, <1>8 DEF IInv, Lock, Phases, Holds
  <1>11. Issued'
    <2>1. \A i \in DOMAIN queue' : queue'[i] <= issued
      BY <1>3 DEF IInv, Issued
    <2> QED
      BY <1>0, <1>4, <1>6, <1>8, <2>1 DEF IInv, Issued
  <1>12. Once'
    <2>1. \A i, j \in DOMAIN queue' : queue'[i] = queue'[j] => i = j
      BY <1>1, <1>3 DEF IInv, Once
    <2>2. \A v \in Worker, t \in Task : worker'[v].task = t => ~Queued(t)' /\ ~Enqueuing(t)'
      BY <1>0, <1>4, <1>6, <1>8 DEF IInv, Once, Enqueuing
    <2>3. \A v, u \in Worker : worker'[v].task = worker'[u].task => v = u \/ worker'[v].task = NoTask
      BY <1>4, <1>6, <1>8 DEF IInv, Once
    <2>4. \A t \in Task : Enqueuing(t)' => ~Queued(t)'
      BY <1>0, <1>4 DEF IInv, Once, Enqueuing
    <2> QED
      BY <2>1, <2>2, <2>3, <2>4 DEF Once
  <1>13. \A v \in Worker : Loop(worker[v])'
    <2>1. Loop(x)'
      BY <1>0, <1>3, <1>4, <1>6 DEF Loop
    <2>2. \A v \in Worker \ {w} : Loop(worker[v])'
      BY <1>0, <1>8 DEF IInv, Loop
    <2> QED
      BY <1>8, <2>1, <2>2
  <1>14. Waiting' /\ Deleted'
    BY <1>0, <1>4 DEF IInv, Waiting, Deleted, Enqueuing
  <1>15. OneActivePerKey' /\ Accepted'
    BY <1>0, <1>6, <1>8 DEF IInv, OneActivePerKey, Accepted
  <1>16. ASSUME phase = "up" PROVE Written' /\ ActiveIsOwned' /\ Kept'
    <2>1. Written /\ ActiveIsOwned /\ Kept
      BY <1>16 DEF IInv
    <2>2. Written'
      <3>1. \A t \in Task : /\ tasks'[t] = tasks[t] /\ row'[t] = row[t]
                            /\ t \notin worker[w].stale /\ ~(Holds(w) /\ worker[w].task = t)
        BY <1>0, <1>1
      <3> QED
        BY <1>0, <1>1, <1>6, <1>7, <2>1, <3>1, LoopWrites
    <2>3. ActiveIsOwned'
      <3>1. ASSUME NEW t \in Task \ unsaved, tasks[t] \in Active
            PROVE  \/ Queued(t)' \/ Enqueuing(t)
                   \/ \E v \in Worker : worker'[v].task = t /\ worker'[v].pc \notin {"prune", "pruning"}
        <4>1. CASE Queued(t)
          BY <1>4, <1>6, <1>8, <4>1
        <4>2. CASE \E v \in Worker : worker[v].task = t /\ worker[v].pc \notin {"prune", "pruning"}
          BY <1>1, <1>8, <3>1, <4>2, ConstantsAssumption DEF Task
        <4> QED
          BY <2>1, <3>1, <4>1, <4>2 DEF ActiveIsOwned, Queued, Enqueuing
      <3> QED
        BY <1>0, <3>1 DEF ActiveIsOwned, Queued, Enqueuing
    <2>4. Kept'
      <3>1. w \notin Late
        BY <1>0 DEF Late
      <3> QED
        BY <1>0, <1>1, <1>6, <1>7, <1>9, <2>1, <3>1, LoopPrunes
    <2> QED
      BY <2>2, <2>3, <2>4
  <1> QED
    BY <1>0, <1>9, <1>10, <1>11, <1>12, <1>13, <1>14, <1>15, <1>16 DEF IInv
-----------------------------------------------------------------------------
(* Steps of the requests: the loops do not move.                             *)

LEMMA OverOnlyShrinks ==
    ASSUME Types, UNCHANGED worker, Kept, \A t \in Task : tasks'[t] \in TerminalStatuses => tasks'[t] = tasks[t]
    PROVE  Kept'
  <1>1. PICK H : H = {worker[v].task : v \in Late}
    OBVIOUS
  <1>2. Late' = Late /\ H = {worker'[v].task : v \in Late'}
    BY <1>1 DEF Late
  <1>3. Over' \ H \subseteq Over \ H /\ IsFiniteSet(Over \ H)
    BY OverFinite, FS_Subset DEF Over
  <1>4. /\ Cardinality(Over \ H) \in Nat /\ Cardinality(Over' \ H) \in Nat
        /\ Cardinality(Over' \ H) <= Cardinality(Over \ H)
    BY <1>3, FS_Subset, FS_CardinalityType
  <1>5. Cardinality(Over \ H) <= MaxTerminal
    BY <1>1 DEF Kept
  <1>6. Cardinality(Over' \ H) <= MaxTerminal
    BY <1>4, <1>5, ConstantsAssumption
  <1> QED
    BY <1>2, <1>6 DEF Kept

LEMMA CallKeeps ==
    ASSUME IInv, Types', UNCHANGED <<phase, issued, key, worker, starts>>, phase # "down",
           \/ api' = NoCall \/ api' = api
           \/ LockFree /\ api'.op = "cancel" /\ api'.task <= issued,
           \A t \in Task : Queued(t)' => Queued(t) \/ (Enqueuing(t) /\ api' = NoCall),
           \A i, j \in DOMAIN queue' : queue'[i] = queue'[j] => i = j,
           \A t \in Task : tasks'[t] = tasks[t] \/ tasks'[t] = "none",
           \A t \in Task : row'[t] = row[t] \/ row'[t] = "none" \/ row'[t] = tasks'[t],
           \A t \in deleting' : t <= issued /\ tasks'[t] = "none",
           \A t \in early' : cancel'[t] /\ (t \in early \/ tasks[t] = "pending"),
           phase = "up" => Written' /\ ActiveIsOwned'
    PROVE  IInv'
  <1>0. Types /\ worker \in [Worker -> LoopType] /\ queue' \in Seq(Task)
    BY DEF IInv, Types
  <1>1. Lock' /\ Phases'
    BY DEF IInv, Lock, LockFree, Holds, Phases
  <1>2. Issued'
    <2>1. \A t \in Task : Queued(t)' => t <= issued
      <3>1. \A t \in Task : Queued(t) => t <= issued
        BY DEF IInv, Issued, Queued
      <3>2. \A t \in Task : Enqueuing(t) => t <= issued
        BY DEF IInv, Issued, Enqueuing, NoCall
      <3> QED
        BY <3>1, <3>2
    <2>2. \A i \in DOMAIN queue' : queue'[i] \in Task
      BY <1>0
    <2>3. \A i \in DOMAIN queue' : queue'[i] <= issued
      BY <2>1, <2>2 DEF Queued
    <2> QED
      BY <2>3 DEF IInv, Issued
  <1>3. Once'
    <2>1. \A t \in Task : Enqueuing(t)' => Enqueuing(t) /\ api' # NoCall
      BY DEF Enqueuing, NoCall
    <2>2. Once
      BY DEF IInv
    <2>3. \A w \in Worker, t \in Task : worker'[w].task = t => ~Queued(t)' /\ ~Enqueuing(t)'
      BY <2>1, <2>2 DEF Once
    <2>4. \A w, v \in Worker : worker'[w].task = worker'[v].task => w = v \/ worker'[w].task = NoTask
      BY <2>2 DEF Once
    <2>5. \A t \in Task : Enqueuing(t)' => ~Queued(t)'
      BY <2>1, <2>2 DEF Once
    <2> QED
      BY <2>3, <2>4, <2>5 DEF Once
  <1>4. \A w \in Worker : Loop(worker[w])'
    <2>1. ASSUME NEW w \in Worker PROVE Loop(worker[w])'
      <3>1. Loop(worker[w]) /\ worker[w] \in LoopType
        BY <1>0 DEF IInv
      <3>2. \A t \in worker[w].stale : tasks'[t] = "none"
        BY <3>1 DEF Loop, LoopType
      <3>3. worker[w].task \in Task => tasks'[worker[w].task] \in {tasks[worker[w].task], "none"}
        OBVIOUS
      <3>4. worker[w].task \notin Task => worker[w].pc \in {"idle", "stopped"} /\ worker[w].verdict = "none"
        BY <3>1 DEF Loop
      <3> QED
        BY <3>1, <3>2, <3>3, <3>4 DEF Loop, Active
    <2> QED
      BY <2>1
  <1>5. Waiting'
    <2>1. \A t \in Task : Enqueuing(t)' => Enqueuing(t)
      BY DEF Enqueuing, NoCall
    <2> QED
      BY <2>1 DEF IInv, Waiting
  <1>6. Deleted' /\ OneActivePerKey'
    BY DEF Deleted, IInv, OneActivePerKey, Active
  <1>7. Accepted'
    <2>1. ASSUME NEW t \in early'
          PROVE  /\ t \in Task /\ tasks'[t] # "success" /\ row'[t] # "success"
                 /\ \A w \in Worker : worker[w].task = t => worker[w].verdict # "success"
      <3>1. t \in Task
        BY <2>1 DEF Types
      <3>2. CASE t \in early
        BY <3>1, <3>2 DEF IInv, Accepted
      <3>3. CASE tasks[t] = "pending"
        <4>1. row[t] # "success"
          BY <3>1, <3>3 DEF IInv, Waiting
        <4>2. \A w \in Worker : worker[w].task = t => worker[w].verdict # "success"
          BY <3>3 DEF IInv, Loop
        <4> QED
          BY <3>1, <3>3, <4>1, <4>2
      <3> QED
        BY <2>1, <3>2, <3>3
    <2> QED
      BY <2>1 DEF Accepted
  <1>8. phase = "up" => Kept'
    <2>1. \A t \in Task : tasks'[t] \in TerminalStatuses => tasks'[t] = tasks[t]
      BY DEF TerminalStatuses
    <2> QED
      BY <1>0, <2>1, OverOnlyShrinks DEF IInv
  <1> QED
    BY <1>1, <1>2, <1>3, <1>4, <1>5, <1>6, <1>7, <1>8 DEF IInv

LEMMA CancelTaskKeeps == ASSUME IInv, NEW t \in Task, CancelTask(t) PROVE IInv'
  <1>0. /\ UNCHANGED <<phase, issued, key, tasks, queue, deleting, worker, row, faults, starts, unsaved>>
        /\ phase = "up" /\ LockFree /\ cancel' = [cancel EXCEPT ![t] = TRUE]
        /\ tasks[t] \in Active /\ api' = [op |-> "cancel", task |-> t]
        /\ early' = IF tasks[t] = "pending" THEN early \cup {t} ELSE early
        /\ Types
    BY DEF CancelTask, IInv
  <1>1. cancel' \in [Task -> BOOLEAN] /\ cancel'[t] /\ \A u \in Task : cancel[u] => cancel'[u]
    BY <1>0 DEF Types
  <1>2. Types'
    BY <1>0, <1>1 DEF Types, CallType
  <1>3. t <= issued /\ api = NoCall
    BY <1>0 DEF IInv, Issued, Active, LockFree
  <1>4. Written' /\ ActiveIsOwned'
    <2>1. Written /\ ActiveIsOwned
      BY <1>0 DEF IInv
    <2>2. Written'
      <3>1. \A u \in Task : Dropping(u) => Dropping(u)'
        BY <1>0 DEF Dropping
      <3>2. \A u \in Task : Saving(u) => Saving(u)'
        BY <1>0, <1>3 DEF Saving, Holds
      <3> QED
        BY <1>0, <2>1, <3>1, <3>2 DEF Written
    <2>3. ActiveIsOwned'
      <3>1. \A u \in Task : ~(api = [op |-> "enqueue", task |-> u])
        BY <1>3 DEF NoCall
      <3> QED
        BY <1>0, <2>1, <3>1 DEF ActiveIsOwned
    <2> QED
      BY <2>2, <2>3
  <1>5. \A u \in early' : cancel'[u] /\ (u \in early \/ tasks[u] = "pending")
    <2>1. \A u \in early : u \in Task /\ cancel[u]
      BY <1>0 DEF IInv, Accepted, Types
    <2> QED
      BY <1>0, <1>1, <2>1
  <1>6. api'.op = "cancel" /\ api'.task <= issued
    BY <1>0, <1>3
  <1>7. \A u \in Task : Queued(u)' => Queued(u)
    BY <1>0 DEF Queued
  <1>8. \A i, j \in DOMAIN queue' : queue'[i] = queue'[j] => i = j
    BY <1>0 DEF IInv, Once
  <1>9. \A u \in deleting' : u <= issued /\ tasks'[u] = "none"
    BY <1>0 DEF IInv, Issued, Deleted, Types
  <1> QED
    BY <1>0, <1>2, <1>4, <1>5, <1>6, <1>7, <1>8, <1>9, CallKeeps

\* The write of a request ends.
LEMMA ApiSavedKeeps == ASSUME IInv, ApiSaved PROVE IInv'
  <1>0. /\ UNCHANGED <<phase, issued, key, tasks, cancel, deleting, worker, faults, starts, early, unsaved>>
        /\ api # NoCall /\ row' = [row EXCEPT ![api.task] = tasks[api.task]] /\ api' = NoCall
        /\ queue' = IF api.op = "enqueue" THEN Append(queue, api.task) ELSE queue
        /\ Types /\ api \in [op : {"enqueue", "cancel"}, task : Task] /\ phase # "down"
        /\ \A w \in Worker : ~Holds(w)
    BY DEF ApiSaved, IInv, Types, CallType, Phases, Lock
  <1>1. PICK t \in Task : t = api.task
    BY <1>0
  <1>2. /\ row' \in [Task -> Status] /\ row'[t] = tasks[t]
        /\ \A u \in Task \ {t} : row'[u] = row[u]
    BY <1>0, <1>1 DEF Types
  <1>3. /\ queue \in Seq(Task) /\ queue' \in Seq(Task)
        /\ \A u \in Task : Queued(u) => Queued(u)'
        /\ \A u \in Task : Queued(u)' => Queued(u) \/ (u = t /\ Enqueuing(t))
        /\ Enqueuing(t) => Queued(t)'
        /\ \A i, j \in DOMAIN queue' : queue'[i] = queue'[j] => i = j
    <2>1. queue \in Seq(Task) /\ \A i, j \in DOMAIN queue : queue[i] = queue[j] => i = j
      BY <1>0 DEF Types, IInv, Once
    <2>2. CASE api.op = "enqueue"
      <3>1. Enqueuing(t) /\ queue' = Append(queue, t) /\ ~Queued(t)
        BY <1>0, <1>1, <2>2 DEF Enqueuing, IInv, Once
      <3>2. /\ DOMAIN queue' = DOMAIN queue \cup {Len(queue) + 1} /\ queue'[Len(queue) + 1] = t
            /\ Len(queue) + 1 \notin DOMAIN queue
            /\ \A i \in DOMAIN queue : queue'[i] = queue[i]
        BY <2>1, <3>1
      <3>3. queue' \in Seq(Task)
        BY <2>1, <3>1
      <3> QED
        BY <2>1, <3>1, <3>2, <3>3 DEF Queued
    <2>3. CASE api.op # "enqueue"
      BY <1>0, <2>1, <2>3 DEF Queued, Enqueuing
    <2> QED
      BY <2>2, <2>3
  <1>4. Types'
    BY <1>0, <1>2, <1>3 DEF Types, CallType
  <1>5. ASSUME phase = "up" PROVE Written' /\ ActiveIsOwned'
    <2>1. Written /\ ActiveIsOwned
      BY <1>5 DEF IInv
    <2>2. Written'
      <3>1. \A u \in Task : Dropping(u) => Dropping(u)'
        BY <1>0 DEF Dropping
      <3>2. \A u \in Task : Saving(u) => u = t
        BY <1>0, <1>1 DEF Saving
      <3> QED
        BY <1>0, <1>2, <2>1, <3>1, <3>2 DEF Written
    <2>3. ActiveIsOwned'
      <3>1. \A u \in Task : Enqueuing(u) => u = t
        BY <1>1 DEF Enqueuing
      <3>2. \A u \in Task : Queued(u) \/ Enqueuing(u) => Queued(u)'
        BY <1>3, <3>1
      <3> QED
        BY <1>0, <2>1, <3>2 DEF ActiveIsOwned, Queued, Enqueuing
    <2> QED
      BY <2>2, <2>3
  <1>6. \A u \in deleting' : u <= issued /\ tasks'[u] = "none"
    BY <1>0 DEF IInv, Issued, Deleted, Types
  <1>7. \A u \in early' : cancel'[u] /\ u \in early
    BY <1>0 DEF IInv, Accepted
  <1>8. \A u \in Task : row'[u] = row[u] \/ row'[u] = tasks'[u]
    BY <1>0, <1>2
  <1>9. \A u \in Task : Queued(u)' => Queued(u) \/ (Enqueuing(u) /\ api' = NoCall)
    BY <1>0, <1>3
  <1> QED
    BY <1>0, <1>3, <1>4, <1>5, <1>6, <1>7, <1>8, <1>9, CallKeeps

LEMMA ApiFailsKeeps == ASSUME IInv, ApiFails PROVE IInv'
  <1>0. /\ UNCHANGED <<phase, issued, key, tasks, cancel, queue, deleting, worker, row, starts, early>>
        /\ api # NoCall /\ api' = NoCall /\ Types /\ phase # "down"
        /\ api \in [op : {"enqueue", "cancel"}, task : Task]
        /\ faults' \in 0..MaxFaults /\ unsaved' = unsaved \cup {api.task}
    BY ConstantsAssumption DEF ApiFails, IInv, Types, CallType, Phases, WriteFails
  <1>1. PICK t \in Task : t = api.task
    BY <1>0
  <1>2. Types'
    BY <1>0 DEF Types, CallType
  <1>3. ASSUME phase = "up" PROVE Written' /\ ActiveIsOwned'
    <2>1. Written /\ ActiveIsOwned
      BY <1>3 DEF IInv
    <2>2. Written'
      <3>1. \A u \in Task : Dropping(u) => Dropping(u)'
        BY <1>0 DEF Dropping
      <3>2. \A u \in Task \ {t} : Saving(u) => Saving(u)'
        BY <1>0, <1>1 DEF Saving, Holds
      <3> QED
        BY <1>0, <1>1, <2>1, <3>1, <3>2 DEF Written
    <2>3. ActiveIsOwned'
      <3>1. \A u \in Task \ unsaved' : ~(api = [op |-> "enqueue", task |-> u])
        BY <1>0
      <3> QED
        BY <1>0, <2>1, <3>1 DEF ActiveIsOwned
    <2> QED
      BY <2>2, <2>3
  <1>4. \A u \in deleting' : u <= issued /\ tasks'[u] = "none"
    BY <1>0 DEF IInv, Issued, Deleted, Types
  <1>5. \A u \in early' : cancel'[u] /\ u \in early
    BY <1>0 DEF IInv, Accepted
  <1>6. /\ \A u \in Task : Queued(u)' => Queued(u)
        /\ \A i, j \in DOMAIN queue' : queue'[i] = queue'[j] => i = j
    BY <1>0 DEF Queued, IInv, Once
  <1> QED
    BY <1>0, <1>2, <1>3, <1>4, <1>5, <1>6, CallKeeps

LEMMA DeleteTaskKeeps == ASSUME IInv, NEW t \in Task, DeleteTask(t) PROVE IInv'
  <1>0. /\ UNCHANGED <<phase, issued, key, cancel, queue, api, worker, row, faults, starts, early, unsaved>>
        /\ phase = "up" /\ LockFree /\ tasks[t] # "none" /\ Types
        /\ tasks' = [tasks EXCEPT ![t] = "none"] /\ deleting' = deleting \cup {t}
    BY DEF DeleteTask, IInv
  <1>1. /\ tasks' \in [Task -> Status] /\ tasks'[t] = "none"
        /\ \A u \in Task \ {t} : tasks'[u] = tasks[u]
    BY <1>0 DEF Types, Status
  <1>2. Types'
    BY <1>0, <1>1 DEF Types
  <1>3. Written' /\ ActiveIsOwned'
    <2>1. Written /\ ActiveIsOwned
      BY <1>0 DEF IInv
    <2>2. Written'
      <3>1. \A u \in Task : Dropping(u) \/ u = t => Dropping(u)'
        BY <1>0, <1>1 DEF Dropping
      <3>2. \A u \in Task : Saving(u) => Saving(u)'
        BY <1>0 DEF Saving, Holds
      <3> QED
        BY <1>0, <1>1, <2>1, <3>1, <3>2 DEF Written
    <2>3. ActiveIsOwned'
      BY <1>0, <1>1, <2>1 DEF ActiveIsOwned, Active
    <2> QED
      BY <2>2, <2>3
  <1>4. \A u \in deleting' : u <= issued /\ tasks'[u] = "none"
    <2>1. t <= issued /\ \A u \in deleting : u \in Task /\ u <= issued /\ tasks[u] = "none"
      BY <1>0 DEF IInv, Issued, Deleted, Types
    <2> QED
      BY <1>0, <1>1, <2>1
  <1>5. \A u \in early' : cancel'[u] /\ u \in early
    BY <1>0 DEF IInv, Accepted
  <1>6. /\ \A u \in Task : Queued(u)' => Queued(u)
        /\ \A i, j \in DOMAIN queue' : queue'[i] = queue'[j] => i = j
        /\ \A u \in Task : tasks'[u] = tasks[u] \/ tasks'[u] = "none"
    BY <1>0, <1>1 DEF Queued, IInv, Once
  <1> QED
    BY <1>0, <1>2, <1>3, <1>4, <1>5, <1>6, CallKeeps

LEMMA DeleteRowKeeps == ASSUME IInv, NEW t \in Task, DeleteRow(t) PROVE IInv'
  <1>0. /\ UNCHANGED <<phase, issued, key, tasks, cancel, queue, api, worker, starts, early>>
        /\ t \in deleting /\ deleting' = deleting \ {t} /\ Types /\ tasks[t] = "none" /\ phase # "down"
        /\ \/ row' = [row EXCEPT ![t] = "none"] /\ UNCHANGED <<faults, unsaved>>
           \/ WriteFails({t}) /\ UNCHANGED row
    BY DEF DeleteRow, IInv, Deleted, Phases
  <1>1. /\ row' \in [Task -> Status] /\ faults' \in 0..MaxFaults /\ unsaved' \subseteq Task
        /\ row'[t] = "none" \/ (t \in unsaved' /\ row'[t] = row[t])
        /\ \A u \in Task \ {t} : row'[u] = row[u]
        /\ unsaved \subseteq unsaved'
    BY <1>0, ConstantsAssumption DEF Types, Status, WriteFails
  <1>2. Types'
    BY <1>0, <1>1 DEF Types
  <1>3. ASSUME phase = "up" PROVE Written' /\ ActiveIsOwned'
    <2>1. Written /\ ActiveIsOwned
      BY <1>3 DEF IInv
    <2>2. Written'
      <3>1. \A u \in Task \ {t} : Dropping(u) => Dropping(u)'
        BY <1>0 DEF Dropping
      <3>2. \A u \in Task : Saving(u) => Saving(u)'
        BY <1>0 DEF Saving, Holds
      <3> QED
        BY <1>0, <1>1, <2>1, <3>1, <3>2 DEF Written
    <2>3. ActiveIsOwned'
      BY <1>0, <1>1, <2>1 DEF ActiveIsOwned
    <2> QED
      BY <2>2, <2>3
  <1>4. \A u \in deleting' : u <= issued /\ tasks'[u] = "none"
    BY <1>0 DEF IInv, Issued, Deleted, Types
  <1>5. \A u \in early' : cancel'[u] /\ u \in early
    BY <1>0 DEF IInv, Accepted
  <1>6. /\ \A u \in Task : Queued(u)' => Queued(u)
        /\ \A i, j \in DOMAIN queue' : queue'[i] = queue'[j] => i = j
        /\ \A u \in Task : row'[u] = row[u] \/ row'[u] = "none"
    BY <1>0, <1>1 DEF Queued, IInv, Once
  <1> QED
    BY <1>0, <1>2, <1>3, <1>4, <1>5, <1>6, CallKeeps

\* A new task is registered; no active one has its key.
LEMMA RegisterKeeps ==
    ASSUME IInv, NEW k \in Key \cup {NoKey}, phase = "up", LockFree, issued < MaxTask,
           k # NoKey => ~Found(k), Register(issued + 1, k)
    PROVE  IInv'
  <1>0. PICK t : t = issued + 1
    OBVIOUS
  <1>1. /\ UNCHANGED <<phase, cancel, queue, deleting, worker, row, faults, starts, early, unsaved>>
        /\ issued' = t /\ key' = [key EXCEPT ![t] = k] /\ tasks' = [tasks EXCEPT ![t] = "pending"]
        /\ api' = [op |-> "enqueue", task |-> t] /\ Types
        /\ worker \in [Worker -> LoopType] /\ queue \in Seq(Task)
    BY <1>0 DEF Register, IInv, Types
  <1>2. t \in Task /\ t \in Nat /\ ~(t <= issued) /\ issued \in Nat /\ t \in 0..MaxTask
    BY <1>0, <1>1, ConstantsAssumption DEF Types, Task
  <1>3. \A u \in Task : u <= issued => u <= t
    BY <1>0, <1>2 DEF Task
  <1>4. /\ tasks[t] = "none" /\ row[t] = "none" /\ t \notin deleting /\ ~Queued(t) /\ api = NoCall
        /\ \A w \in Worker : worker[w].task # t /\ t \notin worker[w].stale /\ ~Holds(w)
    BY <1>2, LockFree DEF IInv, Issued, Queued, LockFree, Holds
  <1>5. /\ key' \in [Task -> Key \cup {NoKey}] /\ tasks' \in [Task -> Status]
        /\ tasks'[t] = "pending" /\ key'[t] = k
        /\ \A u \in Task \ {t} : tasks'[u] = tasks[u] /\ key'[u] = key[u]
    BY <1>1, <1>2 DEF Types, Status, Active
  <1>6. Types'
    BY <1>1, <1>2, <1>5 DEF Types, CallType
  <1>7. Lock' /\ Phases'
    BY <1>1, <1>4 DEF Lock, Phases, IInv, Holds
  <1>8. Issued'
    <2>1. /\ \A u \in Task : tasks'[u] # "none" \/ row'[u] # "none" \/ u \in deleting' => u <= issued'
          /\ \A i \in DOMAIN queue' : queue'[i] <= issued'
          /\ api'.task <= issued'
      BY <1>1, <1>2, <1>3, <1>5 DEF IInv, Issued
    <2>2. \A w \in Worker : /\ worker'[w].task \in Task => worker'[w].task <= issued'
                            /\ \A u \in worker'[w].stale : u <= issued'
      BY <1>1, <1>3 DEF IInv, Issued, LoopType
    <2> QED
      BY <2>1, <2>2 DEF Issued
  <1>9. Once'
    <2>1. \A u \in Task : /\ Enqueuing(u)' => u = t
                          /\ Queued(u)' => Queued(u)
      BY <1>1 DEF Enqueuing, Queued
    <2> QED
      BY <1>1, <1>4, <2>1 DEF IInv, Once
  <1>10. \A w \in Worker : Loop(worker[w])'
    <2>1. ASSUME NEW w \in Worker PROVE Loop(worker[w])'
      <3>1. Loop(worker[w]) /\ worker[w] \in LoopType /\ worker'[w] = worker[w]
        BY <1>1 DEF IInv
      <3>2. \A u \in worker[w].stale : tasks'[u] = tasks[u]
        BY <1>4, <1>5, <3>1 DEF LoopType
      <3>3. worker[w].task \in Task => tasks'[worker[w].task] = tasks[worker[w].task]
        BY <1>4, <1>5
      <3>4. worker[w].task \notin Task => worker[w].pc \in {"idle", "stopped"} /\ worker[w].verdict = "none"
        BY <3>1 DEF Loop
      <3> QED
        BY <3>1, <3>2, <3>3, <3>4 DEF Loop
    <2> QED
      BY <2>1
  <1>11. Waiting' /\ Deleted'
    <2>1. \A u \in Task : Enqueuing(u)' => u = t
      BY <1>1 DEF Enqueuing
    <2>2. \A u \in Task : Queued(u)' => Queued(u)
      BY <1>1 DEF Queued
    <2>3. Waiting'
      BY <1>1, <1>4, <1>5, <2>1, <2>2 DEF IInv, Waiting
    <2>4. Deleted'
      BY <1>1, <1>4, <1>5 DEF IInv, Deleted, Types
    <2> QED
      BY <2>3, <2>4
  <1>12. OneActivePerKey'
    <2>1. ASSUME NEW u \in Task \ {t}, tasks'[u] \in Active, k # NoKey PROVE key'[u] # k
      BY <1>5, <2>1 DEF Found
    <2> QED
      BY <1>5, <2>1 DEF IInv, OneActivePerKey
  <1>13. Accepted'
    BY <1>1, <1>5 DEF IInv, Accepted, Types
  <1>14. Written' /\ ActiveIsOwned' /\ Kept'
    <2>1. Written /\ ActiveIsOwned /\ Kept
      BY DEF IInv
    <2>2. Written'
      <3>1. \A u \in Task \ {t} : Dropping(u) => Dropping(u)'
        BY <1>1, <1>5 DEF Dropping
      <3>2. \A u \in Task : ~Saving(u)
        BY <1>4 DEF Saving
      <3>3. Saving(t)'
        BY <1>1 DEF Saving, NoCall, CallType
      <3> QED
        BY <1>1, <1>5, <2>1, <3>1, <3>2, <3>3 DEF Written
    <2>3. ActiveIsOwned'
      <3>1. \A u \in Task : ~(api = [op |-> "enqueue", task |-> u])
        BY <1>4 DEF NoCall
      <3> QED
        BY <1>1, <1>5, <2>1, <3>1 DEF ActiveIsOwned
    <2>4. Kept'
      <3>1. \A u \in Task : tasks'[u] \in TerminalStatuses => tasks'[u] = tasks[u]
        BY <1>5 DEF TerminalStatuses
      <3> QED
        BY <1>1, <2>1, <3>1, OverOnlyShrinks
    <2> QED
      BY <2>2, <2>3, <2>4
  <1> QED
    BY <1>6, <1>7, <1>8, <1>9, <1>10, <1>11, <1>12, <1>13, <1>14 DEF IInv
-----------------------------------------------------------------------------
(* The process ends and starts.                                              *)

LEMMA IdleOK ==
    /\ IdleWorker \in LoopType /\ IdleWorker.pc = "idle" /\ IdleWorker.task = NoTask
    /\ IdleWorker.stale = {} /\ IdleWorker.verdict = "none" /\ ~IdleWorker.stop
    /\ StoppedWorker \in LoopType /\ StoppedWorker.pc = "stopped"
    /\ StoppedWorker.task = NoTask /\ StoppedWorker.stale = {} /\ StoppedWorker.verdict = "none"
    /\ NoTask \notin Task
  BY ConstantsAssumption DEF IdleWorker, StoppedWorker, At, LoopType, PC, Task

\* A cancelled loop is stopped, or goes on with its task to the end.
LEMMA CancelledOK ==
    ASSUME NEW x \in LoopType, x.pc \notin {"startSaving", "endSaving"}, Loop(x)
    PROVE  /\ Cancelled(x) \in LoopType /\ Loop(Cancelled(x))
           /\ Cancelled(x).task \in {x.task, NoTask} /\ Cancelled(x).stale \in {x.stale, {}}
           /\ Cancelled(x).verdict = "success" => x.verdict = "success"
           /\ Cancelled(x).pc \notin {"startSaving", "endSaving"}
  <1>1. CASE x.pc = "running"
    <2>1. PICK y : y = [x EXCEPT !.pc = "killed", !.stop = TRUE]
      OBVIOUS
    <2>2. /\ y \in LoopType /\ y.pc = "killed" /\ y.task = x.task /\ y.stale = x.stale
          /\ y.verdict = x.verdict
      BY <2>1 DEF LoopType, PC
    <2>3. Loop(y)
      BY <1>1, <2>2 DEF Loop
    <2> QED
      BY <1>1, <2>1, <2>2, <2>3 DEF Cancelled
  <1>2. CASE x.pc = "ending" /\ x.guarded
    <2>1. PICK y : y = [x EXCEPT !.verdict = "cancelled", !.guarded = FALSE, !.stop = TRUE]
      OBVIOUS
    <2>2. /\ y \in LoopType /\ y.pc = "ending" /\ y.task = x.task /\ y.stale = x.stale
          /\ y.verdict = "cancelled"
      BY <1>2, <2>1 DEF LoopType, TerminalStatuses
    <2>3. Loop(y)
      BY <1>2, <2>2 DEF Loop, TerminalStatuses
    <2> QED
      BY <1>2, <2>1, <2>2, <2>3 DEF Cancelled
  <1>3. CASE x.pc \in {"got", "starting"} \/ (x.pc = "ending" /\ ~x.guarded)
    <2>1. PICK y : y = [x EXCEPT !.pc = "prune", !.stop = TRUE]
      OBVIOUS
    <2>2. /\ y \in LoopType /\ y.pc = "prune" /\ y.task = x.task /\ y.stale = x.stale
          /\ y.verdict = x.verdict
      BY <2>1 DEF LoopType, PC
    <2>3. Loop(y)
      BY <1>3, <2>2 DEF Loop
    <2> QED
      BY <1>3, <2>1, <2>2, <2>3 DEF Cancelled
  <1>4. CASE x.pc \notin {"running", "ending", "got", "starting"}
    <2>1. Loop(StoppedWorker)
      BY IdleOK DEF Loop
    <2>2. Cancelled(x) = StoppedWorker
      BY <1>4 DEF Cancelled
    <2> QED
      BY <2>1, <2>2, IdleOK
  <1> QED
    BY <1>1, <1>2, <1>3, <1>4

LEMMA ShutdownKeeps == ASSUME IInv, Shutdown PROVE IInv'
  <1>0. /\ UNCHANGED <<issued, key, tasks, cancel, queue, api, deleting, row, faults, starts, early, unsaved>>
        /\ phase = "up" /\ LockFree /\ starts < MaxStarts /\ phase' = "closing"
        /\ worker' = [w \in Worker |-> Cancelled(worker[w])] /\ Types
        /\ worker \in [Worker -> LoopType]
    BY DEF Shutdown, IInv, Types
  <1>1. ASSUME NEW w \in Worker
        PROVE  /\ worker'[w] \in LoopType /\ Loop(worker'[w])
               /\ worker'[w].task \in {worker[w].task, NoTask}
               /\ worker'[w].stale \in {worker[w].stale, {}}
               /\ worker'[w].verdict = "success" => worker[w].verdict = "success"
               /\ worker'[w].pc \notin {"startSaving", "endSaving"}
    BY <1>0, CancelledOK DEF IInv, LockFree
  <1>2. Types'
    BY <1>0, <1>1 DEF Types
  <1>3. Lock' /\ Phases'
    BY <1>0, <1>1 DEF Lock, Phases, Holds
  <1>4. Issued'
    <2>1. \A w \in Worker : /\ worker'[w].task \in Task => worker'[w].task <= issued'
                            /\ \A u \in worker'[w].stale : u <= issued'
      BY <1>0, <1>1, IdleOK DEF IInv, Issued
    <2> QED
      BY <1>0, <2>1 DEF IInv, Issued
  <1>5. Once'
    <2>1. \A u \in Task : (Enqueuing(u)' <=> Enqueuing(u)) /\ (Queued(u)' <=> Queued(u))
      BY <1>0 DEF Enqueuing, Queued
    <2>2. \A w \in Worker, t \in Task : worker'[w].task = t => worker[w].task = t
      BY <1>1, IdleOK
    <2>3. \A w, v \in Worker : worker'[w].task = worker'[v].task => w = v \/ worker'[w].task = NoTask
      BY <1>1 DEF IInv, Once
    <2> QED
      BY <1>0, <2>1, <2>2, <2>3 DEF IInv, Once
  <1>6. \A w \in Worker : Loop(worker[w])'
    BY <1>0, <1>1 DEF Loop
  <1>7. Waiting' /\ Deleted' /\ OneActivePerKey'
    BY <1>0 DEF IInv, Waiting, Deleted, OneActivePerKey, Enqueuing, Queued
  <1>8. Accepted'
    <2>1. \A w \in Worker, t \in Task : worker'[w].task = t => worker[w].task = t
      BY <1>1, IdleOK
    <2> QED
      BY <1>0, <1>1, <2>1 DEF IInv, Accepted, Types
  <1> QED
    BY <1>0, <1>2, <1>3, <1>4, <1>5, <1>6, <1>7, <1>8 DEF IInv

LEMMA ExitKeeps == ASSUME IInv, Exit PROVE IInv'
  <1>0. /\ UNCHANGED <<issued, key, cancel, row, faults, starts, early>> /\ Types
        /\ starts < MaxStarts /\ phase' = "down" /\ queue' = <<>> /\ api' = NoCall
        /\ deleting' = {} /\ unsaved' = {}
        /\ tasks' = [t \in Task |-> "none"] /\ worker' = [w \in Worker |-> StoppedWorker]
    BY DEF Exit, IInv
  <1>1. /\ tasks' \in [Task -> Status] /\ \A t \in Task : tasks'[t] = "none"
        /\ worker' \in [Worker -> LoopType] /\ \A w \in Worker : worker'[w] = StoppedWorker
        /\ queue' \in Seq(Task) /\ DOMAIN queue' = {} /\ \A t \in Task : ~Queued(t)' /\ ~Enqueuing(t)'
    BY <1>0, IdleOK DEF Status, Queued, Enqueuing, NoCall
  <1>2. Types'
    BY <1>0, <1>1 DEF Types, CallType
  <1>3. Lock' /\ Phases' /\ Issued' /\ Once'
    BY <1>0, <1>1, IdleOK DEF Lock, Phases, Issued, Once, Holds, IInv
  <1>4. \A w \in Worker : Loop(worker[w])'
    BY <1>1, IdleOK DEF Loop
  <1>5. Waiting' /\ Deleted' /\ OneActivePerKey'
    BY <1>0, <1>1 DEF Waiting, Deleted, OneActivePerKey, Active
  <1>6. Accepted'
    BY <1>0, <1>1, IdleOK DEF IInv, Accepted, Types
  <1> QED
    BY <1>0, <1>2, <1>3, <1>4, <1>5, <1>6 DEF IInv

\* What is loaded is over, and of that only the newest; registry and rows agree.
LEMMA StartKeeps == ASSUME IInv, Start PROVE IInv'
  <1> DEFINE stale == StaleOf(Loaded)
  <1>0. /\ UNCHANGED <<issued, key, cancel, queue, api, deleting, faults, early, unsaved>> /\ Types
        /\ phase = "down" /\ phase' = "up" /\ starts' = starts + 1
        /\ tasks' = Forget(Loaded, stale) /\ row' = Forget(Loaded, stale)
        /\ worker' = [w \in Worker |-> IdleWorker]
        /\ api = NoCall /\ queue = <<>> /\ deleting = {} /\ unsaved = {} /\ starts < MaxStarts
    BY DEF Start, IInv, Phases
  <1>1. Loaded \in [Task -> Status] /\ \A t \in Task : Loaded[t] = IF row[t] \in Active THEN "failed" ELSE row[t]
    BY <1>0 DEF Loaded, Types, Status, TerminalStatuses
  <1>2. /\ tasks' \in [Task -> Status] /\ row' = tasks'
        /\ \A t \in Task : tasks'[t] \in {"none", Loaded[t]}
    BY <1>0, <1>1 DEF Forget, Status
  <1>3. /\ worker' \in [Worker -> LoopType] /\ \A w \in Worker : worker'[w] = IdleWorker
        /\ DOMAIN queue' = {} /\ \A t \in Task : ~Queued(t)' /\ ~Enqueuing(t)'
    BY <1>0, IdleOK DEF Queued, Enqueuing, NoCall
  <1>4. \A t \in Task : /\ tasks'[t] \notin Active
                        /\ tasks'[t] \in {"none", "failed", row[t]}
                        /\ tasks'[t] # "none" => row[t] # "none"
    <2>1. ASSUME NEW t \in Task PROVE /\ Loaded[t] \notin Active /\ Loaded[t] \in {"failed", row[t]}
                                      /\ Loaded[t] # "none" => row[t] # "none"
      BY <1>1 DEF Active
    <2> QED
      BY <1>2, <2>1 DEF Active
  <1>5. starts' \in 0..MaxStarts
    BY <1>0, ConstantsAssumption DEF Types
  <1>6. Types'
    BY <1>0, <1>2, <1>3, <1>5 DEF Types
  <1>7. Lock' /\ Phases' /\ Once'
    BY <1>0, <1>3, IdleOK DEF Lock, Phases, Once, Holds
  <1>8. Issued'
    BY <1>0, <1>2, <1>3, <1>4, IdleOK DEF IInv, Issued
  <1>9. \A w \in Worker : Loop(worker[w])'
    BY <1>3, IdleOK DEF Loop
  <1>10. Waiting' /\ Deleted' /\ OneActivePerKey'
    BY <1>0, <1>3, <1>4 DEF Waiting, Deleted, OneActivePerKey, Active
  <1>11. Accepted'
    <2>1. \A t \in early : t \in Task /\ row[t] # "success" /\ cancel[t]
      BY <1>0 DEF IInv, Accepted, Types
    <2>2. \A t \in early : tasks'[t] # "success"
      BY <1>4, <2>1
    <2> QED
      BY <1>0, <1>2, <1>3, <2>1, <2>2, IdleOK DEF Accepted
  <1>12. Written' /\ ActiveIsOwned'
    BY <1>2, <1>4 DEF Written, ActiveIsOwned
  <1>13. Kept'
    <2>1. Cardinality(Over') <= MaxTerminal
      BY <1>0, <1>1, StaleLeavesFew DEF Over
    <2> QED
      BY <2>1, FewAreKept
  <1> QED
    BY <1>6, <1>7, <1>8, <1>9, <1>10, <1>11, <1>12, <1>13 DEF IInv
-----------------------------------------------------------------------------

LEMMA InitKeeps == Init => IInv
  <1> SUFFICES ASSUME Init PROVE IInv
    OBVIOUS
  <1>1. /\ tasks \in [Task -> Status] /\ row = tasks /\ \A t \in Task : tasks[t] = "none"
        /\ worker \in [Worker -> LoopType] /\ \A w \in Worker : worker[w] = IdleWorker
        /\ queue \in Seq(Task) /\ DOMAIN queue = {} /\ \A t \in Task : ~Queued(t) /\ ~Enqueuing(t)
    BY IdleOK DEF Init, Status, Queued, Enqueuing, NoCall
  <1>2. Types
    BY <1>1, ConstantsAssumption DEF Init, Types, CallType
  <1>3. Lock /\ Phases /\ Issued /\ Once
    BY <1>1, IdleOK DEF Init, Lock, Phases, Issued, Once, Holds
  <1>4. \A w \in Worker : Loop(worker[w])
    BY <1>1, IdleOK DEF Loop
  <1>5. Waiting /\ Deleted /\ OneActivePerKey /\ Accepted /\ Written /\ ActiveIsOwned
    BY <1>1 DEF Init, Waiting, Deleted, OneActivePerKey, Accepted, Written, ActiveIsOwned, Active
  <1>6. Kept
    <2>1. Over = {}
      BY <1>1 DEF Over, TerminalStatuses
    <2>2. PICK H : H = {worker[w].task : w \in Late}
      OBVIOUS
    <2>3. Over \ H = {}
      BY <2>1
    <2> QED
      BY <2>2, <2>3, FS_EmptySet, ConstantsAssumption DEF Kept
  <1> QED
    BY <1>2, <1>3, <1>4, <1>5, <1>6 DEF IInv

LEMMA StutterKeeps == ASSUME IInv, UNCHANGED vars PROVE IInv'
  <1>1. Types' /\ Lock' /\ Phases' /\ Issued' /\ Once'
    BY DEF vars, IInv, Types, Lock, Phases, Issued, Once, Holds, Queued, Enqueuing
  <1>2. (\A w \in Worker : Loop(worker[w])') /\ Waiting' /\ Deleted'
    BY DEF vars, IInv, Loop, Waiting, Deleted, Queued, Enqueuing
  <1>3. OneActivePerKey' /\ Accepted'
    BY DEF vars, IInv, OneActivePerKey, Accepted
  <1>4. Written => Written'
    BY DEF vars, Written, Dropping, Saving, Holds
  <1>5. ActiveIsOwned => ActiveIsOwned'
    BY DEF vars, ActiveIsOwned
  <1>6. Kept => Kept'
    BY DEF vars, Kept, Over, Late
  <1> QED
    BY <1>1, <1>2, <1>3, <1>4, <1>5, <1>6 DEF IInv, vars

LEMMA NextKeeps == ASSUME IInv, Next PROVE IInv'
  <1>1. CASE Request
    <2>1. CASE Enqueue
      <3>1. NoKey \in Key \cup {NoKey}
        OBVIOUS
      <3> QED
        BY <2>1, <3>1, RegisterKeeps DEF Enqueue
    <2>2. ASSUME NEW k \in Key, EnqueueUnique(k) PROVE IInv'
      BY <2>2, RegisterKeeps DEF EnqueueUnique
    <2> QED
      BY <1>1, <2>1, <2>2, CancelTaskKeeps, DeleteTaskKeeps, DeleteRowKeeps, ApiSavedKeeps,
         ApiFailsKeeps DEF Request
  <1>2. ASSUME NEW w \in Worker, WorkerStep(w) PROVE IInv'
    BY <1>2, TakeKeeps, LookUpKeeps, BeginRunKeeps, StartSavedKeeps, ReturnKeeps, AbortKeeps,
       BeginEndKeeps, EndSavedKeeps, KilledKeeps, PruneKeeps, PruneRowKeeps DEF WorkerStep
  <1> QED
    BY <1>1, <1>2, ShutdownKeeps, ExitKeeps, StartKeeps DEF Next

THEOREM Invariance == Spec => []IInv
  <1>1. IInv /\ [Next]_vars => IInv'
    BY NextKeeps, StutterKeeps
  <1> QED
    BY <1>1, InitKeeps, PTL DEF Spec

\* The registry, the rows and the loops keep their shape, and a loop that waits
\* for work holds nothing of its last round.
THEOREM TaskerTypes == Spec => []TypeOK
  <1>1. IInv => TypeOK
    BY DEF IInv, Types, TypeOK, Loop, CallType, LoopType, NoCall
  <1> QED
    BY <1>1, Invariance, PTL

\* Of the tasks that are over, at most one for each loop that has yet to prune
\* is beyond MAX_TERMINAL_TASKS.
LEMMA KeptBounds == ASSUME Types, Kept PROVE Retention
  <1>1. PICK H : H = {worker[w].task : w \in Late}
    OBVIOUS
  <1>2. IsFiniteSet(Late) /\ Cardinality(Late) \in Nat
    BY ConstantsAssumption, FS_Subset, FS_CardinalityType DEF Late
  <1>3. PICK f : f = [w \in Late |-> worker[w].task]
    OBVIOUS
  <1>4. f \in Surjection(Late, H)
    BY <1>1, <1>3 DEF Surjection
  <1>5. IsFiniteSet(H) /\ Cardinality(H) \in Nat /\ Cardinality(H) <= Cardinality(Late)
    BY <1>2, <1>4, FS_Surjection, FS_CardinalityType
  <1>6. IsFiniteSet(Over) /\ Cardinality(Over) \in Nat
    BY OverFinite, FS_CardinalityType
  <1>7. /\ Cardinality(Over \ H) = Cardinality(Over) - Cardinality(Over \cap H)
        /\ Cardinality(Over \cap H) \in Nat /\ Cardinality(Over \cap H) <= Cardinality(H)
    BY <1>5, <1>6, FS_Difference, FS_Intersection, FS_CardinalityType
  <1>8. Cardinality(Over \ H) <= MaxTerminal
    BY <1>1 DEF Kept
  <1>9. Cardinality(Over) <= MaxTerminal + Cardinality(Late)
    BY <1>2, <1>5, <1>6, <1>7, <1>8, ConstantsAssumption
  <1> QED
    BY <1>9 DEF Retention, Over, Late

\* While the process is up the registry, the rows, the queue and the loops agree,
\* whatever tasks are created, cancelled and deleted, writes fail and processes end.
THEOREM TaskerRegistry == Spec => []RegistryIsTrue
  <1>1. Written => WriteThrough
    BY DEF Written, WriteThrough, Dropping, Saving, Holds, LockFree
  <1>2. IInv => RegistryIsTrue
    BY <1>1, KeptBounds DEF IInv, RegistryIsTrue
  <1> QED
    BY <1>2, Invariance, PTL

\* A task whose cancellation was accepted while it was pending never succeeds.
THEOREM TaskerCancel == Spec => []EarlyCancelNeverSucceeds
  <1>1. IInv => EarlyCancelNeverSucceeds
    BY DEF IInv, Accepted, EarlyCancelNeverSucceeds
  <1> QED
    BY <1>1, Invariance, PTL
=============================================================================
