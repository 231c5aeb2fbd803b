----------------------------- MODULE ChangweiTask -----------------------------
(***************************************************************************)
(* An engineering task of a construction project: its modules are written  *)
(* by the people they are assigned to, drafted by a model, confirmed by a   *)
(* person and frozen into artifacts.  A transaction locks the task's row    *)
(* and compares the revision the caller was shown; the calls of a model, of *)
(* OCR and of the file system run outside of a transaction.  One task of    *)
(* one project with one PDF is modelled; a text is the revision it was      *)
(* written for, and 0 is blank.                                             *)
(***************************************************************************)
EXTENDS Naturals, FiniteSets

CONSTANTS
    User,       \* members of the project
    Owner,      \* owner_uid of the project
    Nobody,
    Module,
    Pages,      \* pages of the PDF that need OCR
    Unreadable, \* those of them on which OCR finds no text
    OcrBatch,   \* pages one OCR call takes (5)
    MaxRev,     \* bound: revisions
    MaxFaults   \* bound: failing model, OCR and file system calls, crashes

ASSUME ChangweiConstants ==
    /\ Owner \in User /\ Nobody \notin User
    /\ Pages \in Nat /\ Unreadable \subseteq 1..Pages
    /\ OcrBatch \in Nat \ {0} /\ MaxRev \in Nat \ {0} /\ MaxFaults \in Nat

Page == 1..Pages
Kind == {"log", "report"}   \* a log may be drafted without materials

VARIABLES
    task,      \* [rev, kind, made, status, mats, modules]; rev 0: there is none
    pdf,       \* the material: [waiting, read, confirmed]
    artifacts, \* [rev, texts]
    copies,    \* those copied to the owner's outputs
    page,      \* what each user was last shown of the task: [rev, texts]
    call,      \* the call each user waits for: [op, module, seen, pages]
    faults

vars == <<task, pdf, artifacts, copies, page, call, faults>>

NewModule(u) == [text |-> 0, assignee |-> u, by |-> Nobody]
NoTask == [rev |-> 0, kind |-> "log", made |-> Nobody, chat |-> FALSE, status |-> "draft",
           mats |-> FALSE, modules |-> [m \in Module |-> NewModule(Owner)]]
View(t) == [rev |-> t.rev, texts |-> [m \in Module |-> t.modules[m].text]]
NoView == View(NoTask)
NoCall == [op |-> "none", seen |-> NoView, module |-> "none", pages |-> {}]

Init ==
    /\ task = NoTask
    /\ pdf = [waiting |-> Page, read |-> {}, confirmed |-> FALSE]
    /\ artifacts = {} /\ copies = {}
    /\ page = [u \in User |-> NoView]
    /\ call = [u \in User |-> NoCall]
    /\ faults = 0

Fault == faults < MaxFaults /\ faults' = faults + 1
Free(u) == call[u] = NoCall
Exists == task.rev > 0
\* with_for_update and the comparison of the revision.
Current(u) == Exists /\ page[u].rev = task.rev
CanBump == task.rev < MaxRev
Fresh == task.rev + 1
Confirmed(modules) == \A m \in Module : modules[m].by # Nobody
Evidence == pdf.confirmed /\ pdf.read # {}
Withdrawn(module) == [module EXCEPT !.by = Nobody]

\* The transaction commits and its caller gets the new task.
Commit(u, new) == task' = new /\ page' = [page EXCEPT ![u] = View(new)]

-----------------------------------------------------------------------------
(* The workbench.                                                            *)

CreateTask(u, kind) ==
    /\ Free(u) /\ ~Exists
    /\ Commit(u, [NoTask EXCEPT !.rev = 1, !.kind = kind, !.made = u,
                                !.modules = [m \in Module |-> NewModule(u)]])
    /\ UNCHANGED <<pdf, artifacts, copies, call, faults>>

\* GET /tasks/{id}, or the chat tool's read.
Read(u) ==
    /\ Free(u) /\ page[u] # View(task)
    /\ page' = [page EXCEPT ![u] = View(task)]
    /\ UNCHANGED <<task, pdf, artifacts, copies, call, faults>>

StatusAfter(confirm, modules) == IF Confirmed(modules) THEN "confirmed" ELSE "draft"

\* update_module: the owner or the assignee saves a text and may confirm it; the
\* owner may assign the module to someone else, which takes the confirmation back.
UpdateModule(u, m, text, confirm, assignee) ==
    /\ Free(u) /\ Current(u) /\ CanBump
    /\ u \in {Owner, task.modules[m].assignee}
    /\ text \in {0, page[u].texts[m], Fresh}
    /\ assignee # task.modules[m].assignee => u = Owner
    /\ LET confirms == confirm /\ assignee = task.modules[m].assignee
           modules == [task.modules EXCEPT ![m] =
               [text |-> text, assignee |-> assignee, by |-> IF confirms THEN u ELSE Nobody]]
       IN /\ confirms => text # 0
          /\ Commit(u, [task EXCEPT !.modules = modules, !.rev = Fresh,
                                    !.status = StatusAfter(confirms, modules)])
    /\ UNCHANGED <<pdf, artifacts, copies, call, faults>>

\* select_materials withdraws every confirmation.
SelectMaterials(u, mats) ==
    /\ Free(u) /\ Current(u) /\ CanBump
    /\ u \in {task.made, Owner}
    /\ Commit(u, [task EXCEPT !.mats = mats, !.rev = Fresh, !.status = "draft",
                              !.modules = [m \in Module |-> Withdrawn(task.modules[m])]])
    /\ UNCHANGED <<pdf, artifacts, copies, call, faults>>

-----------------------------------------------------------------------------
(* draft: the task is read, the model is called outside of the transaction,   *)
(* and the answer is written if the revision is still the one that was read.  *)

DraftStart(u, m) ==
    /\ Free(u) /\ Exists /\ CanBump
    /\ u \in {Owner, task.modules[m].assignee}
    /\ task.kind = "report" => task.mats /\ Evidence
    /\ call' = [call EXCEPT ![u] = [NoCall EXCEPT !.op = "draft", !.module = m, !.seen = View(task)]]
    /\ UNCHANGED <<task, pdf, artifacts, copies, page, faults>>

\* Mutant: the draft is not another version.
DraftedSameRevision(u, m) ==
    Commit(u, [task EXCEPT !.status = "draft",
                           !.modules[m] = [Withdrawn(@) EXCEPT !.text = Fresh]])
Drafted(u, m) ==
    Commit(u, [task EXCEPT !.rev = Fresh, !.status = "draft",
                           !.modules[m] = [Withdrawn(@) EXCEPT !.text = Fresh]])

\* Mutant: the answer is written without comparing the revision again.
DraftEndUnchecked(u) ==
    /\ call[u].op = "draft"
    /\ CanBump /\ Drafted(u, call[u].module)
    /\ call' = [call EXCEPT ![u] = NoCall]
    /\ UNCHANGED <<pdf, artifacts, copies, faults>>

DraftEnd(u) ==
    /\ call[u].op = "draft"
    /\ LET m == call[u].module IN
       \/ /\ task.rev = call[u].seen.rev
          /\ u \in {Owner, task.modules[m].assignee}
          /\ Drafted(u, m)
       \/ task.rev # call[u].seen.rev /\ UNCHANGED <<task, page>>   \* 409
    /\ call' = [call EXCEPT ![u] = NoCall]
    /\ UNCHANGED <<pdf, artifacts, copies, faults>>

-----------------------------------------------------------------------------
(* EngineeringChatService.                                                   *)

\* What a chat draft makes of the modules it names.
Saved(texts, mats, old) ==
    [m \in Module |->
        IF m \in DOMAIN texts
        THEN [Withdrawn(old[m]) EXCEPT !.text = texts[m]]
        ELSE IF mats # task.mats THEN Withdrawn(old[m]) ELSE old[m]]
SomeText(texts) == \E m \in DOMAIN texts : texts[m] # 0
MayUse(kind, mats) == (mats => pdf.confirmed) /\ (kind = "report" => mats /\ pdf.read # {})

\* save_draft without a task: its id is made of the user and the operation, so the
\* retry of an operation finds the task and only returns it.
ChatCreate(u, kind, texts, mats) ==
    /\ Free(u) /\ SomeText(texts) /\ MayUse(kind, mats)
    /\ \/ /\ ~Exists
          /\ Commit(u, [NoTask EXCEPT !.rev = 1, !.kind = kind, !.made = u, !.mats = mats,
                            !.chat = TRUE,
                            !.modules = [m \in Module |-> IF m \in DOMAIN texts
                                THEN [NewModule(u) EXCEPT !.text = texts[m]] ELSE NewModule(u)]])
       \/ /\ Exists /\ task.chat /\ task.made = u /\ task.kind = kind
          /\ UNCHANGED task /\ page' = [page EXCEPT ![u] = View(task)]
    /\ UNCHANGED <<pdf, artifacts, copies, call, faults>>

\* save_draft of a task: whole modules, and materials by the owner only.
ChatSave(u, texts, mats) ==
    /\ Free(u) /\ Current(u) /\ CanBump
    /\ SomeText(texts) /\ MayUse(task.kind, mats)
    /\ \A m \in DOMAIN texts : u \in {Owner, task.modules[m].assignee}
    /\ mats # task.mats => u = Owner
    /\ Commit(u, [task EXCEPT !.rev = Fresh, !.status = "draft", !.mats = mats,
                              !.modules = Saved(texts, mats, task.modules)])
    /\ UNCHANGED <<pdf, artifacts, copies, call, faults>>

-----------------------------------------------------------------------------
(* Artifacts.                                                                *)

Written(modules) == \A m \in Module : modules[m].text # 0

\* The artifact is committed; the copy to the owner's space comes after it.
Export(u, new) ==
    /\ Commit(u, [new EXCEPT !.status = "generated"])
    /\ artifacts' = artifacts \cup {View(new)}
    /\ call' = [call EXCEPT ![u] = [NoCall EXCEPT !.op = "copy", !.seen = View(new)]]

\* generate: the owner freezes what is written and confirmed.
Generate(u) ==
    /\ Free(u) /\ u = Owner /\ Current(u)
    /\ Confirmed(task.modules) /\ Written(task.modules)
    /\ Export(u, task)
    /\ UNCHANGED <<pdf, copies, faults>>

\* Mutant: the approval confirms whatever is there by now.
FinalizeUnchecked(u) ==
    /\ Free(u) /\ u = Owner /\ Exists /\ CanBump
    /\ Written(task.modules)
    /\ Export(u, [task EXCEPT !.rev = Fresh, !.modules = [m \in Module |->
           [@[m] EXCEPT !.by = u]]])
    /\ UNCHANGED <<pdf, copies, faults>>

\* finalize: the approved revision is confirmed as a whole and generated.
Finalize(u) ==
    /\ Free(u) /\ u = Owner /\ Current(u) /\ CanBump
    /\ Written(task.modules)
    /\ Export(u, [task EXCEPT !.rev = Fresh, !.modules = [m \in Module |->
           [@[m] EXCEPT !.by = u]]])
    /\ UNCHANGED <<pdf, copies, faults>>

\* Mutant: the copy is made of the task as it is by now.
PublishLatest(u) ==
    /\ call[u].op = "copy"
    /\ copies' = copies \cup {View(task)}
    /\ call' = [call EXCEPT ![u] = NoCall]
    /\ UNCHANGED <<task, pdf, artifacts, page, faults>>

\* _publish_output_copy; a failure is reported and leaves the artifact.
PublishCopy(u) ==
    /\ call[u].op = "copy"
    /\ \/ copies' = copies \cup {call[u].seen} /\ UNCHANGED faults
       \/ Fault /\ UNCHANGED copies
    /\ call' = [call EXCEPT ![u] = NoCall]
    /\ UNCHANGED <<task, pdf, artifacts, page>>

-----------------------------------------------------------------------------
(* The material.                                                             *)

\* ocr_material reads which pages wait, then rolls the transaction back.
FirstWaiting == {p \in pdf.waiting : Cardinality({q \in pdf.waiting : q < p}) < OcrBatch}
OcrStart(u) ==
    /\ Free(u) /\ pdf.waiting # {}
    /\ call' = [call EXCEPT ![u] = [NoCall EXCEPT !.op = "ocr", !.pages = FirstWaiting]]
    /\ UNCHANGED <<task, pdf, artifacts, copies, page, faults>>

\* Mutant: the results are put into the content that was read before the OCR.
OcrMergeStale(pages) ==
    LET first == CHOOSE p \in pages : \A q \in pages : p <= q
        rest == {p \in Page : p >= first} IN
    [waiting |-> rest \ pages, read |-> (pdf.read \ rest) \cup (pages \ Unreadable),
     confirmed |-> FALSE]

\* The results replace those of the same pages in the latest content.
OcrMerge(pages) ==
    [waiting |-> pdf.waiting \ pages, read |-> (pdf.read \ pages) \cup (pages \ Unreadable),
     confirmed |-> FALSE]

OcrEnd(u) ==
    /\ call[u].op = "ocr"
    /\ pdf' = OcrMerge(call[u].pages)
    /\ call' = [call EXCEPT ![u] = NoCall]
    /\ UNCHANGED <<task, artifacts, copies, page, faults>>

\* confirm_material reads the row without a lock, and only a changed column is
\* written: what was confirmed already is not confirmed again.
ConfirmStart(u) ==
    /\ Free(u)
    /\ call' = [call EXCEPT ![u] =
           [NoCall EXCEPT !.op = IF pdf.confirmed THEN "confirmAgain" ELSE "confirm"]]
    /\ UNCHANGED <<task, pdf, artifacts, copies, page, faults>>

ConfirmEnd(u) ==
    /\ call[u].op \in {"confirm", "confirmAgain"}
    /\ pdf' = [pdf EXCEPT !.confirmed = @ \/ call[u].op = "confirm"]
    /\ call' = [call EXCEPT ![u] = NoCall]
    /\ UNCHANGED <<task, artifacts, copies, page, faults>>

\* The model, the OCR or the process fails: nothing was written yet.
Fail(u) ==
    /\ ~Free(u) /\ Fault
    /\ call' = [call EXCEPT ![u] = NoCall]
    /\ UNCHANGED <<task, pdf, artifacts, copies, page>>

Text == 0..MaxRev
Texts == UNION {[S -> {0, IF Exists THEN Fresh ELSE 1}] : S \in SUBSET Module \ {{}}}

Next ==
    \E u \in User :
        \/ Read(u) \/ DraftEnd(u) \/ Generate(u) \/ Finalize(u) \/ PublishCopy(u)
        \/ OcrStart(u) \/ OcrEnd(u) \/ ConfirmStart(u) \/ ConfirmEnd(u) \/ Fail(u)
        \/ \E kind \in Kind : \/ CreateTask(u, kind)
                              \/ \E texts \in Texts, mats \in BOOLEAN :
                                     ChatCreate(u, kind, texts, mats)
        \/ \E m \in Module : \/ DraftStart(u, m)
                             \/ \E text \in Text, confirm \in BOOLEAN, a \in User :
                                    UpdateModule(u, m, text, confirm, a)
        \/ \E mats \in BOOLEAN : \/ SelectMaterials(u, mats)
                                 \/ \E texts \in Texts : ChatSave(u, texts, mats)

Spec == Init /\ [][Next]_vars

-----------------------------------------------------------------------------
ModuleRecord == [text : Text, assignee : User, by : User \cup {Nobody}]
Task == [rev : Text, kind : Kind, made : User \cup {Nobody}, chat : BOOLEAN,
         status : {"draft", "confirmed", "generated"}, mats : BOOLEAN,
         modules : [Module -> ModuleRecord]]

Shown == [rev : Text, texts : [Module -> Text]]

\* The variables' types; a text belongs to a revision that was there.
TypeOK ==
    /\ task \in Task /\ page \in [User -> Shown]
    /\ \A m \in Module : task.modules[m].text <= task.rev
    /\ pdf.waiting \subseteq Page /\ pdf.read \subseteq Page /\ pdf.confirmed \in BOOLEAN
    /\ artifacts \subseteq Shown
    /\ DOMAIN call = User
    /\ \A u \in User : /\ call[u].op \in {"none", "draft", "copy", "ocr", "confirm", "confirmAgain"}
                       /\ call[u].seen \in Shown /\ call[u].pages \subseteq Page
    /\ faults \in 0..MaxFaults

\* Whoever confirms a module had its text on the page or writes it with the same
\* save, also when a whole task is approved in a chat while others go on writing.
ConfirmedIsSeen ==
    [][\A m \in Module :
          LET x == task'.modules[m] IN
          x.by # Nobody /\ x # task.modules[m] =>
              x.text \in {page[x.by].texts[m], task'.rev}]_vars

\* Two artifacts with the same version number say the same, and a copy in the
\* owner's space is a copy of an artifact.
VersionIsContent ==
    /\ \A a, b \in artifacts : a.rev = b.rev => a = b
    /\ \A a \in artifacts : a.rev = task.rev => a = View(task)
    /\ copies \subseteq artifacts

\* A text is only replaced by a change that started from it: its author had it on
\* the page, or the model was given it.  The author is who is shown the result.
NoLostText ==
    [][\A m \in Module :
          LET old == task.modules[m].text IN
          Exists /\ task'.modules[m].text # old =>
              \E u \in User : /\ page'[u].rev = task'.rev
                              /\ old \in {page[u].texts[m], call[u].seen.texts[m]}]_vars

\* OCR batches of several people may overlap: a page that was recognised stays so,
\* and every page waits, is read or is reported as unreadable.
RecognisedStays ==
    [][pdf.read \subseteq pdf'.read /\ pdf'.waiting \subseteq pdf.waiting]_vars
================================================================================
