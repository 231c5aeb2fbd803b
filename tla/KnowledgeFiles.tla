---------------------------- MODULE KnowledgeFiles ----------------------------
(***************************************************************************)
(* The documents of a Milvus knowledge base: the tasks that add, parse and *)
(* index a file and the requests that delete it, over three stores that    *)
(* share no transaction: the rows of knowledge_files, the chunks in        *)
(* PostgreSQL and the vectors in Milvus.  A task works file by file, so a  *)
(* Job is one task's work on one file.  What a file says never changes; a  *)
(* chunk is the batch it belongs to and the job that wrote it, because     *)
(* every index run may split with other parameters.                        *)
(***************************************************************************)
EXTENDS Naturals, FiniteSets

CONSTANTS
    File,
    Job,        \* bound: tasks and requests ever submitted
    NoJob,
    Batches,    \* batches a file's chunks are stored in
    MaxFaults   \* bound: failing calls, cancelled coroutines, crashes

ASSUME KnowledgeConstants ==
    NoJob \notin Job /\ Batches \in Nat \ {0} /\ MaxFaults \in Nat

Batch == 1..Batches

VARIABLES
    row,       \* knowledge_files: [st, md], md: markdown_file is set
    pg,        \* knowledge_chunks of a file: who wrote each batch
    vectors,   \* Milvus entities of a file: {<<job, batch>>}
    job,       \* [op, pc, file, batch, pg, vec]
    doomed,    \* files whose deletion was requested
    stranded,  \* files whose claim nobody holds any more
    faults

vars == <<row, pg, vectors, job, doomed, stranded, faults>>

NoRow == [st |-> "absent", md |-> FALSE]
NoChunks == [b \in Batch |-> NoJob]
Unused == [op |-> "none", pc |-> "unused", file |-> "none", batch |-> 1,
           pg |-> "todo", vec |-> "todo"]

\* A file is yet to be added, or is a record of an older release: parsed, but
\* without its Markdown.
Init ==
    /\ row \in [File -> {NoRow, [st |-> "parsed", md |-> FALSE]}]
    /\ pg = [f \in File |-> NoChunks] /\ vectors = [f \in File |-> {}]
    /\ job = [j \in Job |-> Unused]
    /\ doomed = {} /\ stranded = {} /\ faults = 0

At(j, pc) == job[j].pc = pc
FileOf(j) == job[j].file
Go(j, pc) == job' = [job EXCEPT ![j].pc = pc]
Done(j) == Go(j, "done")
Fault == faults < MaxFaults /\ faults' = faults + 1
Present(f) == row[f] # NoRow

\* update_fields: nothing happens when the row is gone.
SetStatus(f, st) ==
    row' = IF Present(f) THEN [row EXCEPT ![f].st = st] ELSE row
\* Mutant: the fields are written with upsert.
SetUpsert(f, fields) == row' = [row EXCEPT ![f] = fields]
SetRow(f, fields) == row' = IF Present(f) THEN [row EXCEPT ![f] = fields] ELSE row

-----------------------------------------------------------------------------
(* Requests.                                                                 *)

Submit(j, op, pc, f) ==
    /\ At(j, "unused")
    /\ job' = [job EXCEPT ![j].op = op, ![j].pc = pc, ![j].file = f]
    /\ UNCHANGED <<row, pg, vectors, stranded, faults>>

\* add_uploaded_documents, with or without auto_index; a file id is new.
Ingest(j, f) ==
    /\ ~Present(f) /\ f \notin doomed
    /\ \A i \in Job : FileOf(i) # f
    /\ \E op \in {"ingest", "add"} : Submit(j, op, "add", f)
    /\ UNCHANGED doomed

\* parse_documents, index_documents and the two that take every pending file.
ParseDocument(j, f) == Present(f) /\ Submit(j, "parse", "claimParse", f) /\ UNCHANGED doomed
IndexDocument(j, f) == Present(f) /\ Submit(j, "index", "claimIndex", f) /\ UNCHANGED doomed

\* delete_document, batch_delete_documents, and delete_folder for each child.
DeleteDocument(j, f) ==
    Present(f) /\ Submit(j, "delete", "deleteChunks", f) /\ doomed' = doomed \cup {f}

\* raise_if_cancelled, before the task takes the next file or stage.
Cancelled(j) ==
    /\ job[j].pc \in {"add", "claimParse", "claimIndex"}
    /\ Done(j)
    /\ UNCHANGED <<row, pg, vectors, doomed, stranded, faults>>

-----------------------------------------------------------------------------
(* add_file_record and parse_file.                                           *)

Add(j) ==
    /\ At(j, "add")
    /\ \/ row' = [row EXCEPT ![FileOf(j)] = [st |-> "uploaded", md |-> FALSE]]
          /\ Go(j, "claimParse") /\ UNCHANGED faults
       \/ Fault /\ Done(j) /\ UNCHANGED row
    /\ UNCHANGED <<pg, vectors, doomed, stranded>>

ParseFrom == {"uploaded", "error_parsing"}
IndexFrom == {"parsed", "error_indexing", "indexed"}

\* update_fields_if_status: one UPDATE ... WHERE status IN allowed.
Claim(j, from, st, pc) ==
    IF row[FileOf(j)].st \in from
    THEN row' = [row EXCEPT ![FileOf(j)].st = st] /\ Go(j, pc)
    ELSE Done(j) /\ UNCHANGED row

ClaimParse(j) ==
    /\ At(j, "claimParse")
    /\ Claim(j, ParseFrom, "parsing", "parse")
    /\ UNCHANGED <<pg, vectors, doomed, stranded, faults>>

\* parse_document, the Markdown saved to MinIO, then the row.  A failure or a
\* cancelled coroutine ends in the except block.
ParseFile(j) ==
    /\ At(j, "parse")
    /\ \/ /\ SetRow(FileOf(j), [st |-> "parsed", md |-> TRUE])
          /\ Go(j, IF job[j].op = "ingest" THEN "claimIndex" ELSE "done")
          /\ UNCHANGED faults
       \/ Fault /\ Go(j, "parseFailed") /\ UNCHANGED row
    /\ UNCHANGED <<pg, vectors, doomed, stranded>>

\* The except block writes the error status; when even that fails, nobody does.
Failed(j, pc, st) ==
    /\ At(j, pc) /\ Done(j)
    /\ \/ SetStatus(FileOf(j), st) /\ UNCHANGED <<stranded, faults>>
       \/ Fault /\ stranded' = stranded \cup {FileOf(j)} /\ UNCHANGED row
    /\ UNCHANGED <<pg, vectors, doomed>>

ParseFailed(j) == Failed(j, "parseFailed", "error_parsing")

-----------------------------------------------------------------------------
(* index_file.                                                               *)

\* Mutant: the claim reads the status, and the update does not repeat the test.
ClaimIndexUnchecked(j) ==
    /\ At(j, "claimIndex")
    /\ Claim(j, IndexFrom \cup {"indexing"}, "indexing",
             IF row[FileOf(j)].md THEN "clearChunks" ELSE "unparse")
    /\ UNCHANGED <<pg, vectors, doomed, stranded, faults>>

\* Mutant: the missing Markdown is only noticed when it is read.
ClaimIndexWithout(j) ==
    /\ At(j, "claimIndex")
    /\ Claim(j, IndexFrom, "indexing", "clearChunks")
    /\ UNCHANGED <<pg, vectors, doomed, stranded, faults>>

ClaimIndex(j) ==
    /\ At(j, "claimIndex")
    /\ Claim(j, IndexFrom, "indexing", IF row[FileOf(j)].md THEN "clearChunks" ELSE "unparse")
    /\ UNCHANGED <<pg, vectors, doomed, stranded, faults>>

\* Mutant: the missing Markdown is reported, the claim stays.
UnparseNothing(j) ==
    /\ At(j, "unparse") /\ Done(j)
    /\ UNCHANGED <<row, pg, vectors, doomed, stranded, faults>>

\* _mark_file_unparsed, outside of the try block.
Unparse(j) ==
    /\ At(j, "unparse") /\ Done(j)
    /\ \/ SetRow(FileOf(j), [st |-> "uploaded", md |-> FALSE]) /\ UNCHANGED <<stranded, faults>>
       \/ Fault /\ stranded' = stranded \cup {FileOf(j)} /\ UNCHANGED row
    /\ UNCHANGED <<pg, vectors, doomed>>

\* The Markdown is read and split, then delete_file_chunks_only.
ClearChunks(j) ==
    /\ At(j, "clearChunks")
    /\ \/ pg' = [pg EXCEPT ![FileOf(j)] = NoChunks] /\ Go(j, "clearVectors") /\ UNCHANGED faults
       \/ Fault /\ Go(j, "indexFailed") /\ UNCHANGED pg
    /\ UNCHANGED <<row, vectors, doomed, stranded>>

\* An error of Milvus is logged, and the stale vectors stay.
DropVectors(j, pc) ==
    /\ Go(j, pc)
    /\ \/ vectors' = [vectors EXCEPT ![FileOf(j)] = {}] /\ UNCHANGED faults
       \/ Fault /\ UNCHANGED vectors
    /\ UNCHANGED <<row, pg, doomed, stranded>>

ClearVectors(j) == At(j, "clearVectors") /\ DropVectors(j, "store")

\* _insert_chunks_to_stores: both stores are written at once.  The chunks' foreign
\* key refuses those of a file that is gone.
StoreChunks(j) ==
    /\ At(j, "store") /\ job[j].pg = "todo"
    /\ \/ /\ Present(FileOf(j))
          /\ pg' = [pg EXCEPT ![FileOf(j)][job[j].batch] = j]
          /\ job' = [job EXCEPT ![j].pg = "ok"] /\ UNCHANGED faults
       \/ ~Present(FileOf(j)) /\ job' = [job EXCEPT ![j].pg = "bad"] /\ UNCHANGED <<pg, faults>>
       \/ Fault /\ job' = [job EXCEPT ![j].pg = "bad"] /\ UNCHANGED pg
    /\ UNCHANGED <<row, vectors, doomed, stranded>>

StoreVectors(j) ==
    /\ At(j, "store") /\ job[j].vec = "todo"
    /\ \/ /\ vectors' = [vectors EXCEPT ![FileOf(j)] = @ \cup {<<j, job[j].batch>>}]
          /\ job' = [job EXCEPT ![j].vec = "ok"] /\ UNCHANGED faults
       \/ Fault /\ job' = [job EXCEPT ![j].vec = "bad"] /\ UNCHANGED vectors
    /\ UNCHANGED <<row, pg, doomed, stranded>>

\* The coroutine is interrupted: the embedding of a batch fails, or the process
\* shuts down; an insert that is already in a thread still happens.
Interrupted(j) ==
    /\ At(j, "store") /\ Fault
    /\ Go(j, "indexFailed")
    /\ vectors' \in {vectors, [vectors EXCEPT ![FileOf(j)] = @ \cup {<<j, job[j].batch>>}]}
    /\ UNCHANGED <<row, pg, doomed, stranded>>

Gathered(j) == At(j, "store") /\ job[j].pg # "todo" /\ job[j].vec # "todo"
NextBatch(j) ==
    job' = [job EXCEPT ![j].pg = "todo", ![j].vec = "todo",
                       ![j].pc = IF job[j].batch < Batches THEN "store" ELSE "indexed",
                       ![j].batch = IF @ < Batches THEN @ + 1 ELSE @]

\* Mutant: only an error of PostgreSQL is looked at.
BatchDoneHalf(j) ==
    /\ Gathered(j)
    /\ IF job[j].pg = "ok" THEN NextBatch(j) ELSE Go(j, "rollbackChunks")
    /\ UNCHANGED <<row, pg, vectors, doomed, stranded, faults>>

BatchDone(j) ==
    /\ Gathered(j)
    /\ IF job[j].pg = "ok" /\ job[j].vec = "ok" THEN NextBatch(j) ELSE Go(j, "rollbackChunks")
    /\ UNCHANGED <<row, pg, vectors, doomed, stranded, faults>>

\* The rollback takes the file's chunks out of both stores; its errors are logged.
RollbackChunks(j) ==
    /\ At(j, "rollbackChunks")
    /\ Go(j, "rollbackVectors")
    /\ \/ pg' = [pg EXCEPT ![FileOf(j)] = NoChunks] /\ UNCHANGED faults
       \/ Fault /\ UNCHANGED pg
    /\ UNCHANGED <<row, vectors, doomed, stranded>>

RollbackVectors(j) == At(j, "rollbackVectors") /\ DropVectors(j, "indexFailed")

Indexed(j) ==
    /\ At(j, "indexed")
    /\ \/ SetStatus(FileOf(j), "indexed") /\ Done(j) /\ UNCHANGED faults
       \/ Fault /\ Go(j, "indexFailed") /\ UNCHANGED row
    /\ UNCHANGED <<pg, vectors, doomed, stranded>>

IndexFailed(j) == Failed(j, "indexFailed", "error_indexing")

-----------------------------------------------------------------------------
(* delete_file; the objects in MinIO are deleted before, whatever comes of it. *)

DeleteChunks(j) ==
    /\ At(j, "deleteChunks")
    /\ \/ pg' = [pg EXCEPT ![FileOf(j)] = NoChunks] /\ Go(j, "deleteVectors") /\ UNCHANGED faults
       \/ Fault /\ Done(j) /\ UNCHANGED pg
    /\ UNCHANGED <<row, vectors, doomed, stranded>>

DeleteVectors(j) == At(j, "deleteVectors") /\ DropVectors(j, "deleteImages")

DeleteImages(j) ==
    /\ At(j, "deleteImages")
    /\ \/ Go(j, "deleteRow") /\ UNCHANGED faults
       \/ Fault /\ Done(j)
    /\ UNCHANGED <<row, pg, vectors, doomed, stranded>>

\* The row takes the chunks that reference it along.
DeleteRow(j) ==
    /\ At(j, "deleteRow") /\ Done(j)
    /\ \/ /\ row' = [row EXCEPT ![FileOf(j)] = NoRow]
          /\ pg' = [pg EXCEPT ![FileOf(j)] = NoChunks]
          /\ UNCHANGED faults
       \/ Fault /\ UNCHANGED <<row, pg>>
    /\ UNCHANGED <<vectors, doomed, stranded>>

-----------------------------------------------------------------------------

\* A job that has claimed its file and not given the claim back.
Works(j) == job[j].pc \in {"parse", "parseFailed", "unparse", "clearChunks", "clearVectors",
                           "store", "rollbackChunks", "rollbackVectors", "indexed", "indexFailed"}
Worker(f) == {j \in Job : Works(j) /\ FileOf(j) = f}

\* The API process dies: its tasks are interrupted and nobody takes them up.
Crash ==
    /\ Fault
    /\ stranded' = stranded \cup {f \in File : Worker(f) # {}}
    /\ job' = [j \in Job |-> IF At(j, "unused") THEN job[j] ELSE [job[j] EXCEPT !.pc = "done"]]
    /\ UNCHANGED <<row, pg, vectors, doomed>>

Work(j) ==
    \/ Add(j) \/ ClaimParse(j) \/ ParseFile(j) \/ ParseFailed(j)
    \/ ClaimIndex(j) \/ Unparse(j) \/ ClearChunks(j) \/ ClearVectors(j)
    \/ StoreChunks(j) \/ StoreVectors(j) \/ BatchDone(j)
    \/ RollbackChunks(j) \/ RollbackVectors(j) \/ Indexed(j) \/ IndexFailed(j)
    \/ DeleteChunks(j) \/ DeleteVectors(j) \/ DeleteImages(j) \/ DeleteRow(j)

Next ==
    \/ \E j \in Job, f \in File :
          Ingest(j, f) \/ ParseDocument(j, f) \/ IndexDocument(j, f) \/ DeleteDocument(j, f)
    \/ \E j \in Job : Cancelled(j) \/ Work(j) \/ Interrupted(j)
    \/ Crash

\* A coroutine of a live process goes on.
Spec == Init /\ [][Next]_vars /\ \A j \in Job : WF_vars(Work(j))

-----------------------------------------------------------------------------
Status == {"absent", "uploaded", "parsing", "parsed", "error_parsing",
           "indexing", "indexed", "error_indexing"}
Pc == {"unused", "add", "claimParse", "parse", "parseFailed", "claimIndex", "unparse",
       "clearChunks", "clearVectors", "store", "rollbackChunks", "rollbackVectors", "indexed",
       "indexFailed", "deleteChunks", "deleteVectors", "deleteImages", "deleteRow", "done"}
Outcome == {"todo", "ok", "bad"}

\* The variables' types; the markdown is there from the first parse on.
TypeOK ==
    /\ row \in [File -> [st : Status, md : BOOLEAN]]
    /\ \A f \in File : row[f].st \in {"uploaded", "absent"} => ~row[f].md
    /\ \A f \in File : row[f].st \in {"indexed", "error_indexing"} => row[f].md
    /\ pg \in [File -> [Batch -> Job \cup {NoJob}]]
    /\ vectors \in [File -> SUBSET (Job \X Batch)]
    /\ job \in [Job -> [op : {"none", "ingest", "add", "parse", "index", "delete"}, pc : Pc,
                        file : File \cup {"none"}, batch : Batch,
                        pg : Outcome, vec : Outcome]]
    /\ doomed \subseteq File /\ stranded \subseteq File
    /\ faults \in 0..MaxFaults

\* No two tasks parse or index the same file at a time, and as long as its row
\* is there the row says so: the claim is one conditional UPDATE.
OneWriter ==
    \A f \in File :
        /\ Cardinality(Worker(f)) <= 1
        /\ Worker(f) # {} /\ Present(f) => row[f].st \in {"parsing", "indexing"}

\* A file that reads as indexed can be found whole: every batch of one index run
\* is in PostgreSQL and in Milvus.  Once its deletion was requested this is off:
\* a deletion that fails half way leaves the row as it was.
IndexedIsSearchable ==
    \A f \in File \ doomed : row[f].st = "indexed" =>
        \E j \in Job : /\ pg[f] = [b \in Batch |-> j]
                       /\ {j} \X Batch \subseteq vectors[f]

\* A late status of a task never brings a deleted file back.
DeletedStaysDeleted ==
    [][\A f \in File : f \in doomed /\ ~Present(f) => row'[f] = NoRow]_vars

\* parsing and indexing are passed through, unless the process died in them or
\* the error could not be written: those a file never leaves but by deletion.
ClaimIsResolved ==
    \A f \in File :
        row[f].st \in {"parsing", "indexing"} ~>
            row[f].st \notin {"parsing", "indexing"} \/ f \in stranded
================================================================================
