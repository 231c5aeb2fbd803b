-------------------------- MODULE ChangweiTaskProofs --------------------------
(***************************************************************************)
(* Proofs about ChangweiTask for every set of users and modules, every     *)
(* number of pages and of revisions.                                       *)
(***************************************************************************)
EXTENDS ChangweiTask, TLAPS

Op == {"none", "draft", "copy", "ocr", "confirm", "confirmAgain"}
Pdf == [waiting : SUBSET Page, read : SUBSET Page, confirmed : BOOLEAN]

\* A view is not ahead of the task, and one of its revision says what it says.
Known(v) == v.rev <= task.rev /\ (v.rev = task.rev => v = View(task))

\* What is waited for: a model was given a view of the task, and what is copied
\* is an artifact.
CallFits(c) ==
    /\ c.op \in Op /\ c.seen \in Shown /\ c.pages \subseteq Page
    /\ c.op = "draft" => /\ c.module \in Module /\ Known(c.seen)
                         /\ c.seen.rev \in 1..(MaxRev - 1)
    /\ c.op = "copy" => c.seen \in artifacts

TaskFits(t) == t \in Task /\ \A m \in Module : t.modules[m].text <= t.rev

Frozen ==
    /\ artifacts \subseteq Shown /\ copies \subseteq artifacts
    /\ \A a \in artifacts : Known(a)
    /\ \A a, b \in artifacts : a.rev = b.rev => a = b

PagesKnown == page \in [User -> Shown] /\ \A u \in User : Known(page[u])
Calls == DOMAIN call = User /\ \A u \in User : CallFits(call[u])
PdfFits == pdf \in Pdf /\ pdf.read \cap Unreadable = {}

IInv ==
    /\ TaskFits(task) /\ PagesKnown /\ Calls /\ Frozen /\ PdfFits
    /\ faults \in 0..MaxFaults

\* The action properties, module by module.
Seen(m) ==
    task'.modules[m].by # Nobody /\ task'.modules[m] # task.modules[m] =>
        task'.modules[m].text \in {page[task'.modules[m].by].texts[m], task'.rev}
Kept(m) ==
    Exists /\ task'.modules[m].text # task.modules[m].text =>
        \E u \in User : /\ page'[u].rev = task'.rev
                        /\ task.modules[m].text \in {page[u].texts[m], call[u].seen.texts[m]}
-----------------------------------------------------------------------------
(* Records.                                                                 *)

LEMMA ViewOK ==
    ASSUME NEW t \in Task
    PROVE  /\ View(t) \in Shown /\ View(t).rev = t.rev /\ t.rev \in Nat
           /\ \A m \in Module : View(t).texts[m] = t.modules[m].text
           /\ \A m \in Module : t.modules[m] \in ModuleRecord
  BY ChangweiConstants DEF View, Task, Shown, ModuleRecord, Text

LEMMA WithdrawnOK ==
    ASSUME NEW r \in ModuleRecord
    PROVE  /\ Withdrawn(r) \in ModuleRecord /\ Withdrawn(r).by = Nobody
           /\ Withdrawn(r).text = r.text
           /\ \A x \in Text : /\ [Withdrawn(r) EXCEPT !.text = x] \in ModuleRecord
                              /\ [Withdrawn(r) EXCEPT !.text = x].by = Nobody
                              /\ [Withdrawn(r) EXCEPT !.text = x].text = x
  BY DEF Withdrawn, ModuleRecord

LEMMA NewModuleOK ==
    ASSUME NEW u \in User
    PROVE  /\ NewModule(u) \in ModuleRecord /\ NewModule(u).by = Nobody
           /\ NewModule(u).text = 0
           /\ \A x \in Text : /\ [NewModule(u) EXCEPT !.text = x] \in ModuleRecord
                              /\ [NewModule(u) EXCEPT !.text = x].by = Nobody
                              /\ [NewModule(u) EXCEPT !.text = x].text = x
  BY ChangweiConstants DEF NewModule, ModuleRecord, Text

LEMMA TextsOK ==
    ASSUME NEW texts \in Texts
    PROVE  /\ DOMAIN texts \subseteq Module
           /\ \A m \in DOMAIN texts : texts[m] \in {0, IF Exists THEN Fresh ELSE 1}
  BY DEF Texts

LEMMA NoTaskOK == TaskFits(NoTask) /\ NoTask.rev = 0
  <1>1. \A m \in Module : NewModule(Owner) \in ModuleRecord /\ NewModule(Owner).text = 0
    BY NewModuleOK, ChangweiConstants
  <1> QED
    BY <1>1, ChangweiConstants DEF NoTask, TaskFits, Task, Text, Kind

\* A user whose page has the task's revision has the task on the page.
LEMMA CurrentOK ==
    ASSUME IInv, NEW u \in User, Current(u)
    PROVE  /\ Exists /\ page[u] = View(task)
           /\ \A m \in Module : page[u].texts[m] = task.modules[m].text
  <1>1. page[u] = View(task)
    BY DEF IInv, PagesKnown, Known, Current
  <1> QED
    BY <1>1, ViewOK DEF Current, IInv, TaskFits
-----------------------------------------------------------------------------
(* A step that changes the task changes its revision too, or leaves every    *)
(* text as it is: what was known of the task stays true.                     *)

LEMMA KnownKept ==
    ASSUME task \in Task, task' \in Task, NEW v \in Shown, Known(v),
           task'.rev > task.rev \/ View(task') = View(task)
    PROVE  Known(v)'
  <1>1. v.rev \in Nat
    BY DEF Shown, Text
  <1>2. task.rev \in Nat /\ task'.rev \in Nat
    BY ViewOK
  <1>3. CASE task'.rev > task.rev
    BY <1>1, <1>2, <1>3 DEF Known
  <1>4. CASE View(task') = View(task)
    <2>1. task'.rev = task.rev
      BY <1>4, ViewOK
    <2> QED
      BY <1>4, <2>1 DEF Known
  <1> QED
    BY <1>3, <1>4

\* Artifacts are only added, and calls are made and answered.
LEMMA StepKeeps ==
    ASSUME IInv, TaskFits(task'), task'.rev > task.rev \/ View(task') = View(task),
           page' = page \/ \E u \in User : page' = [page EXCEPT ![u] = View(task')],
           artifacts' = artifacts \/ artifacts' = artifacts \cup {View(task')},
           copies' \subseteq artifacts', PdfFits', faults' \in 0..MaxFaults,
           NEW c, CallFits(c)',
           call' = call \/ \E u \in User : call' = [call EXCEPT ![u] = c]
    PROVE  IInv'
  <1>0. /\ task \in Task /\ task' \in Task /\ page \in [User -> Shown]
        /\ \A u \in User : Known(page[u])
        /\ artifacts \subseteq Shown /\ artifacts \subseteq artifacts'
    BY DEF IInv, TaskFits, PagesKnown, Frozen
  <1>1. \A v \in Shown : Known(v) => Known(v)'
    BY <1>0, KnownKept
  <1>2. View(task') \in Shown /\ View(task').rev = task'.rev /\ task'.rev \in Nat
    BY <1>0, ViewOK
  <1>3. PagesKnown'
    <2>1. page' \in [User -> Shown]
      BY <1>0, <1>2
    <2>2. ASSUME NEW u \in User PROVE page'[u] = page[u] \/ page'[u] = View(task')
      BY <1>0
    <2>3. ASSUME NEW u \in User PROVE Known(page[u])'
      BY <1>0, <1>1, <1>2, <2>2 DEF Known
    <2> QED
      BY <2>1, <2>3 DEF PagesKnown
  <1>4. Frozen'
    <2>1. \A a \in artifacts' : a \in artifacts \/ a = View(task')
      BY DEF Frozen
    <2>2. artifacts' \subseteq Shown
      BY <1>0, <1>2, <2>1
    <2>3. ASSUME NEW a \in artifacts' PROVE Known(a)'
      BY <1>0, <1>1, <1>2, <2>1 DEF Known, IInv, Frozen
    <2>4. ASSUME NEW a \in artifacts', NEW b \in artifacts', a.rev = b.rev PROVE a = b
      <3>1. CASE a \in artifacts /\ b \in artifacts
        BY <2>4, <3>1 DEF IInv, Frozen
      <3>2. CASE a = View(task') \/ b = View(task')
        BY <1>2, <2>3, <2>4, <3>2 DEF Known
      <3> QED
        BY <2>1, <3>1, <3>2
    <2> QED
      BY <2>2, <2>3, <2>4 DEF Frozen
  <1>5. Calls'
    <2>1. \A d : CallFits(d) => CallFits(d)'
      BY <1>0, <1>1 DEF CallFits
    <2>2. DOMAIN call' = User
      BY DEF IInv, Calls
    <2>3. ASSUME NEW u \in User PROVE CallFits(call[u])'
      <3>1. call'[u] \in {call[u], c}
        BY DEF IInv, Calls
      <3>2. CallFits(call[u])
        BY DEF IInv, Calls
      <3>3. PICK d : d = call[u] /\ CallFits(d)
        BY <3>2
      <3>4. CallFits(d)'
        BY <2>1, <3>3
      <3> QED
        BY <3>1, <3>3, <3>4 DEF CallFits, Known
    <2> QED
      BY <2>2, <2>3 DEF Calls
  <1> QED
    BY <1>3, <1>4, <1>5 DEF IInv
-----------------------------------------------------------------------------
(* The operations that write the task.                                      *)

LEMMA NoCallOK == ASSUME TRUE PROVE CallFits(NoCall) /\ CallFits(NoCall)'
  <1>1. NoView \in Shown
    BY NoTaskOK, ViewOK DEF NoView, TaskFits
  <1> QED
    BY <1>1 DEF NoCall, CallFits, Op

\* A save: the caller sees the result, and nothing else is written.
LEMMA CommitKeeps ==
    ASSUME IInv, NEW u \in User, NEW new, TaskFits(new), Commit(u, new),
           new.rev > task.rev \/ View(new) = View(task),
           call' = call \/ call' = [call EXCEPT ![u] = NoCall],
           UNCHANGED <<pdf, artifacts, copies, faults>>
    PROVE  IInv' /\ task' = new /\ page'[u].rev = task'.rev
  <1>1. task' = new /\ page' = [page EXCEPT ![u] = View(task')]
    BY DEF Commit
  <1>2. /\ page \in [User -> Shown] /\ copies \subseteq artifacts /\ faults \in 0..MaxFaults
        /\ PdfFits
    BY DEF IInv, PagesKnown, Frozen
  <1>3. PdfFits' /\ copies' \subseteq artifacts' /\ faults' \in 0..MaxFaults
    BY <1>2 DEF PdfFits
  <1>4. page'[u].rev = task'.rev
    BY <1>1, <1>2, ViewOK DEF TaskFits
  <1>5. IInv'
    BY <1>1, <1>3, NoCallOK, StepKeeps
  <1> QED
    BY <1>1, <1>4, <1>5

LEMMA RevOK ==
    ASSUME IInv
    PROVE  /\ task \in Task /\ TaskFits(task) /\ task.rev \in Nat /\ 0 \in Text /\ 1 \in Text
           /\ CanBump => Fresh \in Text /\ Fresh > task.rev
           /\ ~Exists => task.rev = 0
           /\ \A m \in Module : task.modules[m] \in ModuleRecord /\ task.modules[m].text \in 0..task.rev
           /\ task.modules \in [Module -> ModuleRecord]
  BY ChangweiConstants, ViewOK DEF IInv, TaskFits, CanBump, Fresh, Exists, Text, Task, ModuleRecord

LEMMA CreateKeeps ==
    ASSUME IInv, NEW u \in User, NEW kind \in Kind, CreateTask(u, kind)
    PROVE  IInv' /\ \A m \in Module : Seen(m) /\ Kept(m)
  <1> DEFINE ms == [m \in Module |-> NewModule(u)]
             new == [NoTask EXCEPT !.rev = 1, !.kind = kind, !.made = u, !.modules = ms]
  <1>1. ms \in [Module -> ModuleRecord] /\ \A m \in Module : ms[m].text = 0 /\ ms[m].by = Nobody
    BY NewModuleOK
  <1>2. Commit(u, new) /\ ~Exists /\ UNCHANGED <<pdf, artifacts, copies, call, faults>>
    BY DEF CreateTask
  <1> HIDE DEF ms
  <1>3. TaskFits(new) /\ new.rev = 1 /\ new.modules = ms
    <2>1. NoTask \in Task /\ 1 \in Text /\ u \in User \cup {Nobody}
      BY NoTaskOK, RevOK DEF TaskFits
    <2>2. new \in Task /\ new.rev = 1 /\ new.modules = ms
      BY <1>1, <2>1 DEF Task
    <2> QED
      BY <1>1, <2>2 DEF TaskFits
  <1> HIDE DEF new
  <1>4. IInv' /\ task' = new
    BY <1>2, <1>3, RevOK, CommitKeeps
  <1> QED
    BY <1>1, <1>2, <1>3, <1>4 DEF Seen, Kept

LEMMA UpdateKeeps ==
    ASSUME IInv, NEW u \in User, NEW m \in Module, NEW text \in Text, NEW confirm \in BOOLEAN,
           NEW a \in User, UpdateModule(u, m, text, confirm, a)
    PROVE  IInv' /\ \A x \in Module : Seen(x) /\ Kept(x)
  <1>1. /\ Current(u) /\ CanBump /\ text \in {0, page[u].texts[m], Fresh}
        /\ UNCHANGED <<pdf, artifacts, copies, call, faults>>
    BY DEF UpdateModule
  <1>2. \E by \in {u, Nobody}, st \in {"confirmed", "draft"} :
          /\ by = u => text # 0
          /\ Commit(u, [task EXCEPT
                !.modules = [task.modules EXCEPT
                                ![m] = [text |-> text, assignee |-> a, by |-> by]],
                !.rev = Fresh, !.status = st])
    <2> DEFINE confirms == confirm /\ a = task.modules[m].assignee
               by == IF confirms THEN u ELSE Nobody
               ms == [task.modules EXCEPT ![m] = [text |-> text, assignee |-> a, by |-> by]]
    <2>1. /\ confirms => text # 0
          /\ Commit(u, [task EXCEPT !.modules = ms, !.rev = Fresh,
                                    !.status = StatusAfter(confirms, ms)])
      BY DEF UpdateModule
    <2>2. by \in {u, Nobody} /\ (by = u => text # 0 \/ u = Nobody)
      BY <2>1
    <2>3. StatusAfter(confirms, ms) \in {"confirmed", "draft"}
      BY DEF StatusAfter
    <2> QED
      BY <2>1, <2>2, <2>3, ChangweiConstants
  <1>3. PICK by \in {u, Nobody}, st \in {"confirmed", "draft"} :
          /\ by = u => text # 0
          /\ Commit(u, [task EXCEPT
                !.modules = [task.modules EXCEPT
                                ![m] = [text |-> text, assignee |-> a, by |-> by]],
                !.rev = Fresh, !.status = st])
    BY <1>2
  <1> DEFINE r == [text |-> text, assignee |-> a, by |-> by]
             ms == [task.modules EXCEPT ![m] = r]
  <1>14. Commit(u, [task EXCEPT !.modules = ms, !.rev = Fresh, !.status = st])
    BY <1>3
  <1>4. r \in ModuleRecord /\ r.text = text /\ r.by = by
    BY DEF ModuleRecord
  <1>5. \A x \in Module : page[u].texts[x] = task.modules[x].text
    BY <1>1, CurrentOK
  <1>6. text <= Fresh
    BY <1>1, <1>5, RevOK DEF Fresh
  <1> HIDE DEF r
  <1>7. /\ ms \in [Module -> ModuleRecord] /\ ms[m] = r
        /\ \A x \in Module \ {m} : ms[x] = task.modules[x]
    BY <1>4, RevOK
  <1>8. \A x \in Module : ms[x].text <= Fresh
    BY <1>4, <1>6, <1>7, RevOK DEF Fresh
  <1> HIDE DEF ms
  <1> DEFINE new == [task EXCEPT !.modules = ms, !.rev = Fresh, !.status = st]
  <1>9. TaskFits(new) /\ new.rev = Fresh /\ new.modules = ms
    BY <1>1, <1>7, <1>8, RevOK DEF TaskFits, Task
  <1>10. Commit(u, new)
    BY <1>14
  <1> HIDE DEF new
  <1>11. IInv' /\ task' = new /\ page'[u].rev = task'.rev
    BY <1>1, <1>9, <1>10, RevOK, CommitKeeps
  <1>12. ASSUME NEW x \in Module PROVE Seen(x)
    BY <1>1, <1>3, <1>4, <1>7, <1>9, <1>11, ChangweiConstants DEF Seen
  <1>13. ASSUME NEW x \in Module PROVE Kept(x)
    BY <1>5, <1>11 DEF Kept
  <1> QED
    BY <1>11, <1>12, <1>13

\* A save of the whole task that confirms nothing.
LEMMA UnconfirmedKeeps ==
    ASSUME IInv, NEW u \in User, Current(u), CanBump, NEW ms \in [Module -> ModuleRecord],
           NEW mats \in BOOLEAN,
           \A m \in Module : ms[m].text <= Fresh /\ (ms[m] = task.modules[m] \/ ms[m].by = Nobody),
           Commit(u, [task EXCEPT !.rev = Fresh, !.status = "draft", !.mats = mats, !.modules = ms]),
           UNCHANGED <<pdf, artifacts, copies, call, faults>>
    PROVE  IInv' /\ \A x \in Module : Seen(x) /\ Kept(x)
  <1> DEFINE new == [task EXCEPT !.rev = Fresh, !.status = "draft", !.mats = mats, !.modules = ms]
  <1>1. TaskFits(new) /\ new.rev = Fresh /\ new.modules = ms
    BY RevOK DEF TaskFits, Task
  <1>2. Commit(u, new)
    OBVIOUS
  <1> HIDE DEF new
  <1>3. IInv' /\ task' = new /\ page'[u].rev = task'.rev
    BY <1>1, <1>2, RevOK, CommitKeeps
  <1>4. ASSUME NEW x \in Module PROVE Seen(x)
    BY <1>1, <1>3 DEF Seen
  <1>5. ASSUME NEW x \in Module PROVE Kept(x)
    BY <1>3, CurrentOK DEF Kept
  <1> QED
    BY <1>3, <1>4, <1>5

LEMMA SelectKeeps ==
    ASSUME IInv, NEW u \in User, NEW mats \in BOOLEAN, SelectMaterials(u, mats)
    PROVE  IInv' /\ \A x \in Module : Seen(x) /\ Kept(x)
  <1> DEFINE ms == [m \in Module |-> Withdrawn(task.modules[m])]
  <1>1. /\ ms \in [Module -> ModuleRecord]
        /\ \A m \in Module : ms[m].text <= Fresh /\ ms[m].by = Nobody
    BY RevOK, WithdrawnOK DEF Fresh
  <1>2. /\ Current(u) /\ CanBump /\ UNCHANGED <<pdf, artifacts, copies, call, faults>>
        /\ Commit(u, [task EXCEPT !.mats = mats, !.rev = Fresh, !.status = "draft", !.modules = ms])
    BY DEF SelectMaterials
  <1> HIDE DEF ms
  <1>3. [task EXCEPT !.mats = mats, !.rev = Fresh, !.status = "draft", !.modules = ms]
          = [task EXCEPT !.rev = Fresh, !.status = "draft", !.mats = mats, !.modules = ms]
    BY RevOK DEF Task
  <1> QED
    BY <1>1, <1>2, <1>3, UnconfirmedKeeps

LEMMA ChatSaveKeeps ==
    ASSUME IInv, NEW u \in User, NEW texts \in Texts, NEW mats \in BOOLEAN,
           ChatSave(u, texts, mats)
    PROVE  IInv' /\ \A x \in Module : Seen(x) /\ Kept(x)
  <1> DEFINE ms == Saved(texts, mats, task.modules)
  <1>1. /\ Current(u) /\ CanBump /\ Exists /\ UNCHANGED <<pdf, artifacts, copies, call, faults>>
        /\ Commit(u, [task EXCEPT !.rev = Fresh, !.status = "draft", !.mats = mats, !.modules = ms])
    BY DEF ChatSave, Current
  <1>2. ASSUME NEW m \in Module
        PROVE  /\ ms[m] \in ModuleRecord /\ ms[m].text <= Fresh
               /\ ms[m] = task.modules[m] \/ ms[m].by = Nobody
    <2>1. CASE m \in DOMAIN texts
      <3>1. ms[m] = [Withdrawn(task.modules[m]) EXCEPT !.text = texts[m]]
        BY <2>1 DEF Saved
      <3>2. texts[m] \in Text /\ texts[m] <= Fresh
        BY <1>1, <2>1, TextsOK, RevOK DEF Fresh
      <3> QED
        BY <3>1, <3>2, RevOK, WithdrawnOK
    <2>2. CASE m \notin DOMAIN texts
      <3>1. ms[m] \in {Withdrawn(task.modules[m]), task.modules[m]}
        BY <2>2 DEF Saved
      <3> QED
        BY <3>1, RevOK, WithdrawnOK DEF Fresh
    <2> QED
      BY <2>1, <2>2
  <1>3. ms \in [Module -> ModuleRecord]
    BY <1>2 DEF Saved
  <1> HIDE DEF ms
  <1> QED
    BY <1>1, <1>2, <1>3, UnconfirmedKeeps

LEMMA ChatCreateKeeps ==
    ASSUME IInv, NEW u \in User, NEW kind \in Kind, NEW texts \in Texts, NEW mats \in BOOLEAN,
           ChatCreate(u, kind, texts, mats)
    PROVE  IInv' /\ \A x \in Module : Seen(x) /\ Kept(x)
  <1>1. UNCHANGED <<pdf, artifacts, copies, call, faults>>
    BY DEF ChatCreate
  <1> DEFINE ms == [m \in Module |-> IF m \in DOMAIN texts
                        THEN [NewModule(u) EXCEPT !.text = texts[m]] ELSE NewModule(u)]
             new == [NoTask EXCEPT !.rev = 1, !.kind = kind, !.made = u, !.mats = mats,
                                   !.chat = TRUE, !.modules = ms]
  <1>2. CASE ~Exists /\ Commit(u, new)
    <2>1. ASSUME NEW m \in Module
          PROVE  ms[m] \in ModuleRecord /\ ms[m].text <= 1 /\ ms[m].by = Nobody
      <3>1. CASE m \in DOMAIN texts
        <4>1. texts[m] \in Text /\ texts[m] <= 1
          BY <1>2, <3>1, TextsOK, RevOK
        <4> QED
          BY <3>1, <4>1, NewModuleOK
      <3>2. CASE m \notin DOMAIN texts
        BY <3>2, NewModuleOK
      <3> QED
        BY <3>1, <3>2
    <2>2. ms \in [Module -> ModuleRecord]
      BY <2>1
    <2>3. Commit(u, new)
      BY <1>2
    <2> HIDE DEF ms
    <2>4. TaskFits(new) /\ new.rev = 1 /\ new.modules = ms
      <3>1. NoTask \in Task /\ 1 \in Text /\ u \in User \cup {Nobody}
        BY NoTaskOK, RevOK DEF TaskFits
      <3>2. new \in Task /\ new.rev = 1 /\ new.modules = ms
        BY <2>2, <3>1 DEF Task
      <3> QED
        BY <2>1, <3>2 DEF TaskFits
    <2> HIDE DEF new
    <2>5. IInv' /\ task' = new
      BY <1>1, <1>2, <2>3, <2>4, RevOK, CommitKeeps
    <2> QED
      BY <1>2, <2>1, <2>4, <2>5 DEF Seen, Kept
  <1>3. CASE UNCHANGED task /\ page' = [page EXCEPT ![u] = View(task)]
    <2>1. Commit(u, task)
      BY <1>3 DEF Commit
    <2>2. IInv'
      BY <1>1, <2>1, RevOK, CommitKeeps
    <2> QED
      BY <1>3, <2>2 DEF Seen, Kept
  <1> QED
    BY <1>2, <1>3 DEF ChatCreate

\* The answer of a model is written over the text the model was given.
LEMMA DraftEndKeeps ==
    ASSUME IInv, NEW u \in User, DraftEnd(u)
    PROVE  IInv' /\ \A x \in Module : Seen(x) /\ Kept(x)
  <1>1. /\ call[u].op = "draft" /\ CallFits(call[u])
        /\ call' = [call EXCEPT ![u] = NoCall] /\ UNCHANGED <<pdf, artifacts, copies, faults>>
    BY DEF DraftEnd, IInv, Calls
  <1>2. CASE UNCHANGED <<task, page>>
    <2>1. PdfFits' /\ copies' \subseteq artifacts' /\ faults' \in 0..MaxFaults
      BY <1>1 DEF IInv, PdfFits, Frozen
    <2>2. IInv'
      BY <1>1, <1>2, <2>1, NoCallOK, RevOK, StepKeeps
    <2> QED
      BY <1>2, <2>2 DEF Seen, Kept
  <1>3. CASE task.rev = call[u].seen.rev /\ Drafted(u, call[u].module)
    <2> DEFINE m == call[u].module
               r == [Withdrawn(task.modules[m]) EXCEPT !.text = Fresh]
               ms == [task.modules EXCEPT ![m] = r]
               new == [task EXCEPT !.rev = Fresh, !.status = "draft", !.modules = ms]
    <2>1. /\ m \in Module /\ Known(call[u].seen) /\ task.rev \in 1..(MaxRev - 1)
          /\ call[u].seen = View(task)
      BY <1>1, <1>3 DEF CallFits, Known
    <2>2. CanBump
      BY <2>1, ChangweiConstants DEF CanBump
    <2>3. Commit(u, new)
      BY <1>3 DEF Drafted
    <2>4. r \in ModuleRecord /\ r.text = Fresh /\ r.by = Nobody
      BY <2>1, <2>2, RevOK, WithdrawnOK
    <2> HIDE DEF r, m
    <2>5. /\ ms \in [Module -> ModuleRecord] /\ ms[m] = r
          /\ \A x \in Module \ {m} : ms[x] = task.modules[x]
      BY <2>1, <2>4, RevOK
    <2>6. \A x \in Module : ms[x].text <= Fresh
      BY <2>2, <2>4, <2>5, RevOK DEF Fresh
    <2> HIDE DEF ms
    <2>7. TaskFits(new) /\ new.rev = Fresh /\ new.modules = ms
      BY <2>2, <2>5, <2>6, RevOK DEF TaskFits, Task
    <2> HIDE DEF new
    <2>8. IInv' /\ task' = new /\ page'[u].rev = task'.rev
      BY <1>1, <2>2, <2>3, <2>7, RevOK, CommitKeeps
    <2>9. ASSUME NEW x \in Module PROVE Seen(x)
      BY <2>4, <2>5, <2>7, <2>8 DEF Seen
    <2>10. ASSUME NEW x \in Module PROVE Kept(x)
      BY <2>1, <2>8, RevOK, ViewOK DEF Kept
    <2> QED
      BY <2>8, <2>9, <2>10
  <1> QED
    BY <1>2, <1>3 DEF DraftEnd

\* What is frozen is what the task then is.
LEMMA ExportKeeps ==
    ASSUME IInv, NEW u \in User, NEW new, TaskFits(new), Export(u, new), Current(u),
           new.rev > task.rev \/ new = task, UNCHANGED <<pdf, copies, faults>>,
           \A m \in Module : /\ new.modules[m].text = task.modules[m].text
                             /\ new.modules[m] = task.modules[m] \/ new.modules[m].by = u
    PROVE  IInv' /\ \A x \in Module : Seen(x) /\ Kept(x)
  <1> DEFINE t == [new EXCEPT !.status = "generated"]
  <1>1. /\ TaskFits(t) /\ View(t) = View(new) /\ t.rev = new.rev /\ t.modules = new.modules
    BY DEF TaskFits, Task, View
  <1>2. Commit(u, t)
    BY DEF Export
  <1> HIDE DEF t
  <1>3. task' = t /\ page' = [page EXCEPT ![u] = View(task')]
    BY <1>2 DEF Commit
  <1>4. artifacts' = artifacts \cup {View(task')}
    BY <1>1, <1>3 DEF Export
  <1> DEFINE c == [NoCall EXCEPT !.op = "copy", !.seen = View(new)]
  <1>5. call' = [call EXCEPT ![u] = c]
    BY DEF Export
  <1>6. /\ c.op = "copy" /\ c.seen = View(new) /\ c.pages = {}
        /\ View(new) \in Shown /\ View(new) \in artifacts'
    BY <1>1, <1>3, <1>4, ViewOK DEF NoCall, TaskFits
  <1> HIDE DEF c
  <1>7. \A d : d = c => CallFits(d)'
    BY <1>6 DEF CallFits, Op
  <1>8. PdfFits' /\ copies' \subseteq artifacts' /\ faults' \in 0..MaxFaults
    BY <1>4 DEF IInv, PdfFits, Frozen
  <1>9. task'.rev > task.rev \/ View(task') = View(task)
    BY <1>1, <1>3
  <1>10. IInv'
    <2>1. PICK d : d = c
      OBVIOUS
    <2> QED
      BY <1>1, <1>3, <1>4, <1>5, <1>7, <1>8, <1>9, <2>1, StepKeeps
  <1>11. ASSUME NEW x \in Module PROVE Seen(x)
    BY <1>1, <1>3, CurrentOK DEF Seen
  <1>12. ASSUME NEW x \in Module PROVE Kept(x)
    BY <1>1, <1>3 DEF Kept
  <1> QED
    BY <1>10, <1>11, <1>12

LEMMA GenerateKeeps ==
    ASSUME IInv, NEW u \in User, Generate(u)
    PROVE  IInv' /\ \A x \in Module : Seen(x) /\ Kept(x)
  BY RevOK, ExportKeeps DEF Generate

LEMMA FinalizeKeeps ==
    ASSUME IInv, NEW u \in User, Finalize(u)
    PROVE  IInv' /\ \A x \in Module : Seen(x) /\ Kept(x)
  <1> DEFINE ms == [m \in Module |-> [task.modules[m] EXCEPT !.by = u]]
             new == [task EXCEPT !.rev = Fresh, !.modules = ms]
  <1>1. /\ Current(u) /\ CanBump /\ Export(u, new) /\ UNCHANGED <<pdf, copies, faults>>
    BY DEF Finalize
  <1>2. ASSUME NEW m \in Module
        PROVE  /\ ms[m] \in ModuleRecord /\ ms[m].text = task.modules[m].text
               /\ ms[m].by = u /\ ms[m].text <= Fresh
    BY RevOK DEF ModuleRecord, Fresh
  <1>3. ms \in [Module -> ModuleRecord]
    BY <1>2
  <1> HIDE DEF ms
  <1>4. TaskFits(new) /\ new.rev = Fresh /\ new.modules = ms
    BY <1>1, <1>2, <1>3, RevOK DEF TaskFits, Task
  <1> HIDE DEF new
  <1> QED
    BY <1>1, <1>2, <1>4, RevOK, ExportKeeps
-----------------------------------------------------------------------------
(* The operations that leave the task as it is.                             *)

\* The first part of a call, or its end; the copy of an artifact; the material.
LEMMA QuietKeeps ==
    ASSUME IInv, UNCHANGED <<task, artifacts>>,
           page' = page \/ \E u \in User : page' = [page EXCEPT ![u] = View(task)],
           copies' \subseteq artifacts, PdfFits', faults' \in 0..MaxFaults,
           NEW c, CallFits(c),
           call' = call \/ \E u \in User : call' = [call EXCEPT ![u] = c]
    PROVE  IInv'
  <1>1. CallFits(c)'
    BY DEF CallFits, Known
  <1> QED
    BY <1>1, RevOK, StepKeeps

LEMMA QuietOK ==
    ASSUME IInv
    PROVE  /\ copies \subseteq artifacts /\ PdfFits /\ faults \in 0..MaxFaults
           /\ Fault => faults' \in 0..MaxFaults
           /\ \A u \in User : CallFits(call[u])
           /\ pdf' = pdf => PdfFits'
  <1>1. faults \in 0..MaxFaults /\ MaxFaults \in Nat
    BY ChangweiConstants DEF IInv
  <1>2. Fault => faults' \in 0..MaxFaults
    BY <1>1 DEF Fault
  <1> QED
    BY <1>1, <1>2 DEF IInv, Calls, Frozen, PdfFits

LEMMA ReadKeeps == ASSUME IInv, NEW u \in User, Read(u) PROVE IInv'
  BY QuietOK, NoCallOK, QuietKeeps DEF Read

\* What a call is started with.
LEMMA StartKeeps ==
    ASSUME IInv, NEW u \in User,
           OcrStart(u) \/ ConfirmStart(u) \/ \E m \in Module : DraftStart(u, m)
    PROVE  IInv'
  <1>0. NoView \in Shown /\ View(task) \in Shown /\ View(task).rev = task.rev
    BY NoTaskOK, RevOK, ViewOK DEF NoView, TaskFits
  <1>1. CASE OcrStart(u)
    <2> DEFINE c == [NoCall EXCEPT !.op = "ocr", !.pages = FirstWaiting]
    <2>1. c.op = "ocr" /\ c.pages = FirstWaiting /\ c.seen = NoView
      BY DEF NoCall
    <2>2. FirstWaiting \subseteq Page
      BY QuietOK DEF FirstWaiting, PdfFits, Pdf
    <2>3. UNCHANGED <<task, pdf, artifacts, copies, page, faults>> /\ call' = [call EXCEPT ![u] = c]
      BY <1>1 DEF OcrStart
    <2> HIDE DEF c
    <2>4. CallFits(c)
      BY <1>0, <2>1, <2>2 DEF CallFits, Op
    <2> QED
      BY <2>3, <2>4, QuietOK, QuietKeeps
  <1>2. CASE ConfirmStart(u)
    <2> DEFINE c == [NoCall EXCEPT !.op = IF pdf.confirmed THEN "confirmAgain" ELSE "confirm"]
    <2>1. c.op \in {"confirm", "confirmAgain"} /\ c.pages = {} /\ c.seen = NoView
      BY DEF NoCall
    <2>2. UNCHANGED <<task, pdf, artifacts, copies, page, faults>> /\ call' = [call EXCEPT ![u] = c]
      BY <1>2 DEF ConfirmStart
    <2> HIDE DEF c
    <2>3. CallFits(c)
      BY <1>0, <2>1 DEF CallFits, Op
    <2> QED
      BY <2>2, <2>3, QuietOK, QuietKeeps
  <1>3. ASSUME NEW m \in Module, DraftStart(u, m) PROVE IInv'
    <2> DEFINE c == [NoCall EXCEPT !.op = "draft", !.module = m, !.seen = View(task)]
    <2>1. c.op = "draft" /\ c.pages = {} /\ c.seen = View(task) /\ c.module = m
      BY DEF NoCall
    <2>2. /\ UNCHANGED <<task, pdf, artifacts, copies, page, faults>>
          /\ call' = [call EXCEPT ![u] = c] /\ Exists /\ CanBump
      BY <1>3 DEF DraftStart
    <2>3. task.rev \in 1..(MaxRev - 1)
      BY <2>2, RevOK, ChangweiConstants DEF Exists, CanBump
    <2>4. Known(View(task))
      BY <1>0, RevOK DEF Known
    <2> HIDE DEF c
    <2>5. CallFits(c)
      BY <1>0, <2>1, <2>3, <2>4 DEF CallFits, Op
    <2> QED
      BY <2>2, <2>5, QuietOK, QuietKeeps
  <1> QED
    BY <1>1, <1>2, <1>3

\* The latest content takes the pages of one call, read or reported.
LEMMA PdfSteps ==
    ASSUME IInv, NEW u \in User, OcrEnd(u) \/ ConfirmEnd(u)
    PROVE  PdfFits' /\ pdf.read \subseteq pdf'.read /\ pdf'.waiting \subseteq pdf.waiting
  <1>1. pdf \in Pdf /\ pdf.read \cap Unreadable = {} /\ call[u].pages \subseteq Page
    BY QuietOK DEF PdfFits, CallFits
  <1>2. CASE OcrEnd(u)
    BY <1>1, <1>2 DEF OcrEnd, OcrMerge, PdfFits, Pdf
  <1>3. CASE ConfirmEnd(u)
    BY <1>1, <1>3 DEF ConfirmEnd, PdfFits, Pdf
  <1> QED
    BY <1>2, <1>3

LEMMA EndKeeps ==
    ASSUME IInv, NEW u \in User, OcrEnd(u) \/ ConfirmEnd(u) \/ PublishCopy(u) \/ Fail(u)
    PROVE  IInv'
  <1>1. CASE OcrEnd(u) \/ ConfirmEnd(u)
    BY <1>1, PdfSteps, QuietOK, NoCallOK, QuietKeeps DEF OcrEnd, ConfirmEnd
  <1>2. CASE PublishCopy(u)
    <2>1. call[u].seen \in artifacts
      BY <1>2, QuietOK DEF PublishCopy, CallFits
    <2>2. copies' \subseteq artifacts
      BY <1>2, <2>1, QuietOK DEF PublishCopy
    <2>3. /\ UNCHANGED <<task, pdf, artifacts, page>> /\ call' = [call EXCEPT ![u] = NoCall]
          /\ faults' \in 0..MaxFaults
      BY <1>2, QuietOK DEF PublishCopy
    <2> QED
      BY <2>2, <2>3, QuietOK, NoCallOK, QuietKeeps
  <1>3. CASE Fail(u)
    BY <1>3, QuietOK, NoCallOK, QuietKeeps DEF Fail
  <1> QED
    BY <1>1, <1>2, <1>3

LEMMA StutterKeeps == ASSUME IInv, UNCHANGED vars PROVE IInv'
  BY QuietOK, NoCallOK, QuietKeeps DEF vars
-----------------------------------------------------------------------------
LEMMA InitKeeps == Init => IInv
  <1> SUFFICES ASSUME Init PROVE IInv
    OBVIOUS
  <1>1. TaskFits(task) /\ View(task) = NoView /\ NoView \in Shown /\ NoView.rev = task.rev
    BY NoTaskOK, ViewOK DEF Init, NoView, TaskFits
  <1>2. task.rev \in Nat
    BY <1>1, ViewOK DEF TaskFits
  <1>3. PagesKnown
    BY <1>1, <1>2 DEF Init, PagesKnown, Known
  <1>4. Calls
    BY NoCallOK DEF Init, Calls
  <1>5. Frozen
    BY DEF Init, Frozen
  <1>6. PdfFits
    BY DEF Init, PdfFits, Pdf
  <1>7. faults \in 0..MaxFaults
    BY ChangweiConstants DEF Init
  <1> QED
    BY <1>1, <1>3, <1>4, <1>5, <1>6, <1>7 DEF IInv

\* Every step is one of those above.
LEMMA NextSteps ==
    ASSUME IInv, Next
    PROVE  IInv' /\ (\A m \in Module : Seen(m) /\ Kept(m)) 
                 /\ pdf.read \subseteq pdf'.read /\ pdf'.waiting \subseteq pdf.waiting
  <1>1. UNCHANGED task => \A m \in Module : Seen(m) /\ Kept(m)
    BY DEF Seen, Kept
  <1>2. UNCHANGED pdf => pdf.read \subseteq pdf'.read /\ pdf'.waiting \subseteq pdf.waiting
    OBVIOUS
  <1>3. PICK u \in User :
        \/ Read(u) \/ DraftEnd(u) \/ Generate(u) \/ Finalize(u) \/ PublishCopy(u)
        \/ OcrStart(u) \/ OcrEnd(u) \/ ConfirmStart(u) \/ ConfirmEnd(u) \/ Fail(u)
        \/ \E kind \in Kind : \/ CreateTask(u, kind)
                              \/ \E texts \in Texts, mats \in BOOLEAN :
                                     ChatCreate(u, kind, texts, mats)
        \/ \E m \in Module : \/ DraftStart(u, m)
                             \/ \E text \in Text, confirm \in BOOLEAN, a \in User :
                                    UpdateModule(u, m, text, confirm, a)
        \/ \E mats \in BOOLEAN : \/ SelectMaterials(u, mats)
                                 \/ \E texts \in Texts : ChatSave(u, texts, mats)
    BY DEF Next
  <1>4. CASE Read(u)
    BY <1>1, <1>2, <1>4, ReadKeeps DEF Read
  <1>5. CASE DraftEnd(u) \/ Generate(u) \/ Finalize(u)
    BY <1>2, <1>5, DraftEndKeeps, GenerateKeeps, FinalizeKeeps DEF DraftEnd, Generate, Finalize
  <1>6. CASE PublishCopy(u) \/ Fail(u)
    BY <1>1, <1>2, <1>6, EndKeeps DEF PublishCopy, Fail
  <1>7. CASE OcrEnd(u) \/ ConfirmEnd(u)
    BY <1>1, <1>7, EndKeeps, PdfSteps DEF OcrEnd, ConfirmEnd
  <1>8. CASE OcrStart(u) \/ ConfirmStart(u) \/ \E m \in Module : DraftStart(u, m)
    BY <1>1, <1>2, <1>8, StartKeeps DEF OcrStart, ConfirmStart, DraftStart
  <1>9. ASSUME NEW kind \in Kind,
               \/ CreateTask(u, kind)
               \/ \E texts \in Texts, mats \in BOOLEAN : ChatCreate(u, kind, texts, mats)
        PROVE  /\ IInv' /\ \A m \in Module : Seen(m) /\ Kept(m)
               /\ UNCHANGED pdf
    BY <1>9, CreateKeeps, ChatCreateKeeps DEF CreateTask, ChatCreate
  <1>10. ASSUME NEW m \in Module, NEW text \in Text, NEW confirm \in BOOLEAN, NEW a \in User,
                UpdateModule(u, m, text, confirm, a)
         PROVE  IInv' /\ (\A x \in Module : Seen(x) /\ Kept(x)) /\ UNCHANGED pdf
    BY <1>10, UpdateKeeps DEF UpdateModule
  <1>11. ASSUME NEW mats \in BOOLEAN,
                SelectMaterials(u, mats) \/ \E texts \in Texts : ChatSave(u, texts, mats)
         PROVE  IInv' /\ (\A x \in Module : Seen(x) /\ Kept(x)) /\ UNCHANGED pdf
    BY <1>11, SelectKeeps, ChatSaveKeeps DEF SelectMaterials, ChatSave
  <1> QED
    BY <1>2, <1>3, <1>4, <1>5, <1>6, <1>7, <1>8, <1>9, <1>10, <1>11

LEMMA Invariance == Spec => []IInv
  <1>1. IInv /\ [Next]_vars => IInv'
    BY NextSteps, StutterKeeps
  <1> QED
    BY <1>1, InitKeeps, PTL DEF Spec
-----------------------------------------------------------------------------
(* The theorems.                                                            *)

\* The task, the pages and the calls keep their types, and no text is of a
\* revision that was not there.
THEOREM ChangweiTypes == Spec => []TypeOK
  <1>1. IInv => TypeOK
    BY DEF IInv, TaskFits, PagesKnown, Calls, CallFits, Op, Frozen, PdfFits, Pdf, TypeOK
  <1> QED
    BY <1>1, Invariance, PTL

\* A version number stands for one content, in the task, in the artifacts and
\* in their copies, whatever is saved between an export and its copy.
THEOREM ChangweiVersions == Spec => []VersionIsContent
  <1>1. IInv => VersionIsContent
    BY DEF IInv, Frozen, Known, VersionIsContent
  <1> QED
    BY <1>1, Invariance, PTL

\* Nobody confirms a text they were not shown or did not write.
THEOREM ChangweiConfirmed == Spec => ConfirmedIsSeen
  <1>1. IInv /\ [Next]_vars =>
          [\A m \in Module :
              LET x == task'.modules[m] IN
              x.by # Nobody /\ x # task.modules[m] =>
                  x.text \in {page[x.by].texts[m], task'.rev}]_vars
    BY NextSteps DEF Seen
  <1> QED
    BY <1>1, Invariance, PTL DEF Spec, ConfirmedIsSeen

\* No save and no late answer of a model replaces a text it did not start from.
THEOREM ChangweiTexts == Spec => NoLostText
  <1>1. IInv /\ [Next]_vars =>
          [\A m \in Module :
              LET old == task.modules[m].text IN
              Exists /\ task'.modules[m].text # old =>
                  \E u \in User : /\ page'[u].rev = task'.rev
                                  /\ old \in {page[u].texts[m], call[u].seen.texts[m]}]_vars
    BY NextSteps DEF Kept
  <1> QED
    BY <1>1, Invariance, PTL DEF Spec, NoLostText

\* However OCR calls overlap, no page that was recognised is lost.
THEOREM ChangweiPages == Spec => RecognisedStays
  <1>1. IInv /\ [Next]_vars =>
          [pdf.read \subseteq pdf'.read /\ pdf'.waiting \subseteq pdf.waiting]_vars
    BY NextSteps
  <1> QED
    BY <1>1, Invariance, PTL DEF Spec, RecognisedStays
=============================================================================
