---------------------------- MODULE Attachments ----------------------------
(***************************************************************************)
(* The attachments of one conversation thread: temporary uploads in MinIO, *)
(* files in the Workdir, the list kept in the JSON column                  *)
(* conversations.extra_metadata, and the run requests that use them.       *)
(*                                                                         *)
(* Every handler loads the Conversation when it starts, to check who owns  *)
(* it, and rewrites the whole JSON value later.  SELECT ... FOR UPDATE in  *)
(* between serialises the writers, but the session keeps the instance it   *)
(* has: without populate_existing the locked row does not refresh it, so   *)
(* the handler edits the value it loaded (saw).  update_conversation does  *)
(* the same without a lock.                                                *)
(***************************************************************************)
EXTENDS FiniteSets

CONSTANTS
    File,   \* uploads, each named by the file_id it gets when confirmed
    Req,    \* request_ids of submitted messages
    Call,   \* bound: handlers of this thread in progress at a time
    NoFile, NoReq

ASSUME AttachmentsAssumption ==
    /\ NoFile \notin File /\ NoReq \notin Req
    /\ Req \cap {"out", "free"} = {}

VARIABLES
    conversation, \* conversations.status
    meta,         \* per file: "out" of the list, "free", or the request it serves
    files,        \* files in the Workdir
    tmp,          \* uploads held in MinIO
    req,          \* per request: its state and the files it asked for
    call,         \* the handlers in progress
    overwritten   \* history: a handler wrote back a list that had changed since
                  \* it loaded it

attachmentVars == <<conversation, meta, files, tmp, req, call, overwritten>>

Meta == [File -> {"out", "free"} \cup Req]

NoHandler ==
    [op |-> "idle", at |-> "start", f |-> NoFile, q |-> NoReq, asked |-> {},
     saw |-> [f \in File |-> "out"]]

Running == \E q \in Req : req[q].st = "running"

(* The handler's first read: the thread exists, is this user's, is not     *)
(* deleted; the instance stays in the session.                             *)
Load(c, op, f, q, asked) ==
    /\ call[c] = NoHandler /\ conversation = "active"
    /\ call' = [call EXCEPT ![c] = [op |-> op, at |-> "start", f |-> f, q |-> q,
                                    asked |-> asked, saw |-> meta]]
    /\ UNCHANGED <<conversation, meta, files, tmp, req, overwritten>>

(* The handler stores the list m, made from the one it loaded.              *)
Save(c, m) ==
    /\ meta' = m
    /\ overwritten' = (overwritten \/ call[c].saw # meta)

GoOn(c, at) == call' = [call EXCEPT ![c].at = at]
Respond(c) == call' = [call EXCEPT ![c] = NoHandler]
HandlerAt(c, op, at) == call[c].op = op /\ call[c].at = at

AttachmentInit ==
    /\ conversation = "active"
    /\ meta = [f \in File |-> "out"]
    /\ files = {}
    /\ tmp = {}
    /\ req = [q \in Req |-> [st |-> "absent", asked |-> {}]]
    /\ call = [c \in Call |-> NoHandler]
    /\ overwritten = FALSE

-----------------------------------------------------------------------------
(* upload_tmp_attachment_view stores an object and sweeps the user's       *)
(* objects older than TMP_ATTACHMENT_TTL.                                  *)
Upload(f) ==
    /\ f \notin tmp
    /\ \E old \in SUBSET tmp : tmp' = (tmp \ old) \cup {f}
    /\ UNCHANGED <<conversation, meta, files, req, call, overwritten>>

(* confirm_tmp_thread_attachments_view: read the upload, write the file.    *)
(* Each confirmation makes up a new file_id, so f was never used before.   *)
StartConfirm(c, f) ==
    /\ f \notin files /\ meta[f] = "out"
    /\ \A d \in Call : call[d].f # f
    /\ Load(c, "confirm", f, NoReq, {})

WriteFile(c) ==
    /\ HandlerAt(c, "confirm", "start")
    /\ IF call[c].f \in tmp
         THEN files' = files \cup {call[c].f} /\ GoOn(c, "record")
         ELSE UNCHANGED files /\ Respond(c)
    /\ UNCHANGED <<conversation, meta, tmp, req, overwritten>>

(* add_attachments and the commit.                                         *)
Record(c) ==
    /\ HandlerAt(c, "confirm", "record")
    /\ Save(c, [call[c].saw EXCEPT ![call[c].f] = "free"])
    /\ GoOn(c, "tidy")
    /\ UNCHANGED <<conversation, files, tmp, req>>

(* Mutant: a failed write leaves the row. *)
RollBackKeepingRow(c) ==
    /\ HandlerAt(c, "confirm", "record")
    /\ Save(c, [call[c].saw EXCEPT ![call[c].f] = "free"])
    /\ files' = files \ {call[c].f}
    /\ Respond(c)
    /\ UNCHANGED <<conversation, tmp, req>>

(* A write or the commit fails: the batch's files are deleted again, each  *)
(* with its error ignored.                                                 *)
RollBack(c) ==
    /\ HandlerAt(c, "confirm", "record")
    /\ files' \in {files, files \ {call[c].f}}
    /\ Respond(c)
    /\ UNCHANGED <<conversation, meta, tmp, req, overwritten>>

(* The temporary objects are deleted, or stay when MinIO fails.            *)
Tidy(c) ==
    /\ HandlerAt(c, "confirm", "tidy")
    /\ tmp' \in {tmp, tmp \ {call[c].f}}
    /\ Respond(c)
    /\ UNCHANGED <<conversation, meta, files, req, overwritten>>

-----------------------------------------------------------------------------
(* delete_thread_attachment_view under the row lock: refused while the     *)
(* file's request is queued or any run of the thread is active.            *)
StartRemove(c, f) == Load(c, "remove", f, NoReq, {})

(* Mutant: a waiting request is forgotten. *)
RemovableUnqueued(c) == call[c].saw[call[c].f] # "out" /\ ~Running

Removable(c) ==
    LET f == call[c].f IN
    /\ call[c].saw[f] # "out"
    /\ call[c].saw[f] \in Req => req[call[c].saw[f]].st # "queued"
    /\ ~Running

Remove(c) ==
    /\ HandlerAt(c, "remove", "start")
    /\ IF Removable(c)
         THEN /\ Save(c, [call[c].saw EXCEPT ![call[c].f] = "out"])
              /\ GoOn(c, "unlink")
         ELSE UNCHANGED <<meta, overwritten>> /\ Respond(c)
    /\ UNCHANGED <<conversation, files, tmp, req>>

(* After the commit the file is deleted; an error leaves it in the Workdir *)
Unlink(c) ==
    /\ HandlerAt(c, "remove", "unlink")
    /\ files' \in {files, files \ {call[c].f}}
    /\ Respond(c)
    /\ UNCHANGED <<conversation, meta, tmp, req, overwritten>>

-----------------------------------------------------------------------------
(* submit_run_command and intake_request: under the row lock the files are *)
(* bound to the request (all of them, or 422), and set_model_spec saves.   *)
StartSubmit(c, q, A) == Load(c, "submit", NoFile, q, A)

Bindable(c) == \A f \in call[c].asked : call[c].saw[f] \in {"free", call[c].q}

(* Mutant: the files are bound before a repeated request is recognised.    *)
SubmitBindsFirst(c) ==
    LET q == call[c].q
        A == call[c].asked
    IN  /\ HandlerAt(c, "submit", "start")
        /\ Save(c, [f \in File |-> IF f \in A THEN q ELSE call[c].saw[f]])
        /\ Respond(c)
        /\ UNCHANGED <<conversation, files, tmp, req>>

(* The request joins the queue, and is dispatched at once if it may.       *)
Submit(c) ==
    LET q == call[c].q
        A == call[c].asked
    IN  /\ HandlerAt(c, "submit", "start")
        /\ IF req[q].st = "absent" /\ Bindable(c)
             THEN /\ Save(c, [f \in File |-> IF f \in A THEN q ELSE call[c].saw[f]])
                  /\ \E st \in {"queued"} \cup (IF Running THEN {} ELSE {"running"}) :
                       req' = [req EXCEPT ![q] = [st |-> st, asked |-> A]]
             ELSE UNCHANGED <<meta, req, overwritten>>
        /\ Respond(c)
        /\ UNCHANGED <<conversation, files, tmp>>

(* The queue dispatches a request, withdraws it, or its run ends.          *)
Dispatch(q) ==
    /\ req[q].st = "queued" /\ ~Running /\ conversation = "active"
    /\ req' = [req EXCEPT ![q].st = "running"]
    /\ UNCHANGED <<conversation, meta, files, tmp, call, overwritten>>

Over(q) ==
    /\ req[q].st \in {"queued", "running"}
    /\ req' = [req EXCEPT ![q] = [st |-> "over", asked |-> {}]]
    /\ UNCHANGED <<conversation, meta, files, tmp, call, overwritten>>

-----------------------------------------------------------------------------
(* update_thread_view with a tool_approval_mode: the JSON value it loaded, *)
(* changed and written back.                                               *)
StartUpdate(c) == Load(c, "update", NoFile, NoReq, {})

Update(c) ==
    /\ HandlerAt(c, "update", "start")
    /\ Save(c, call[c].saw)
    /\ Respond(c)
    /\ UNCHANGED <<conversation, files, tmp, req>>

(* delete_thread_view: a soft deletion that looks at no run or request.    *)
DeleteThread ==
    /\ conversation = "active"
    /\ conversation' = "deleted"
    /\ UNCHANGED <<meta, files, tmp, req, call, overwritten>>

(* The API process dies; its transaction is rolled back.                   *)
Crash(c) ==
    /\ call[c] # NoHandler
    /\ Respond(c)
    /\ UNCHANGED <<conversation, meta, files, tmp, req, overwritten>>

Start(c) ==
    \/ \E f \in File : StartConfirm(c, f) \/ StartRemove(c, f)
    \/ \E q \in Req, A \in SUBSET File : StartSubmit(c, q, A)
    \/ StartUpdate(c)

Proceed(c) ==
    \/ WriteFile(c) \/ Record(c) \/ RollBack(c) \/ Tidy(c)
    \/ Remove(c) \/ Unlink(c)
    \/ Submit(c)
    \/ Update(c)

AttachmentNext ==
    \/ \E f \in File : Upload(f)
    \/ \E c \in Call : Start(c) \/ Proceed(c) \/ Crash(c)
    \/ \E q \in Req : Dispatch(q) \/ Over(q)
    \/ DeleteThread

AttachmentSpec == AttachmentInit /\ [][AttachmentNext]_attachmentVars

-----------------------------------------------------------------------------
(* The types, and: a file is bound to a request only once it is stored.    *)
AttachmentsOK ==
    /\ conversation \in {"active", "deleted"}
    /\ meta \in Meta
    /\ files \subseteq File
    /\ tmp \subseteq File
    /\ req \in [Req -> [st : {"absent", "queued", "running", "over"}, asked : SUBSET File]]
    /\ \A c \in Call : call[c].saw \in Meta /\ call[c].asked \subseteq File
    /\ overwritten \in BOOLEAN
    /\ \A f \in File : meta[f] \in Req => req[meta[f]].st # "absent"

(* Every listed attachment has its file: it is written before the row and  *)
(* unlinked after it, whichever step of whichever handler fails.           *)
ListedHasFile == ~overwritten => \A f \in File : meta[f] # "out" => f \in files

(* The attachments of a request that waits or runs are there, bound to it, *)
(* whatever else the user does to the thread meanwhile.                    *)
InUseIsKept ==
    ~overwritten =>
        \A q \in Req : req[q].st \in {"queued", "running"} =>
            \A f \in req[q].asked : meta[f] = q /\ f \in files

=============================================================================
