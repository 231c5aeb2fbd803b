------------------------ MODULE KnowledgeFilesProofs ------------------------
(***************************************************************************)
(* Proofs about KnowledgeFiles for every set of files and jobs, every      *)
(* number of batches and of faults.                                        *)
(***************************************************************************)
EXTENDS KnowledgeFiles, FiniteSetTheorems, TLAPS

RowType == [st : Status, md : BOOLEAN]
JobType == [op : {"none", "ingest", "add", "parse", "index", "delete"}, pc : Pc,
            file : File \cup {"none"}, batch : Batch, pg : Outcome, vec : Outcome]

\* The steps of a job before it stores anything, with a parse claim, with an
\* index claim on a file that has its Markdown, and of a deletion.
Before == {"unused", "add", "claimParse", "parse", "parseFailed", "claimIndex", "unparse",
           "clearChunks", "clearVectors"}
Parsing == {"parse", "parseFailed"}
Indexing == {"clearChunks", "clearVectors", "store", "rollbackChunks", "rollbackVectors",
             "indexed", "indexFailed"}
Deleting == {"deleteChunks", "deleteVectors", "deleteImages", "deleteRow"}

\* The claim of a worker is in the row, as long as there is one.
Claims(j) ==
    Works(j) /\ Present(FileOf(j)) =>
        /\ row[FileOf(j)].st = IF job[j].pc \in Parsing THEN "parsing" ELSE "indexing"
        /\ job[j].pc \in Indexing => row[FileOf(j)].md

\* A file that is being added is nobody else's, and nobody deleted it.
Fresh(j) ==
    At(j, "add") =>
        /\ ~Present(FileOf(j)) /\ FileOf(j) \notin doomed
        /\ \A k \in Job : FileOf(k) = FileOf(j) => k = j

Steps(j) ==
    /\ job[j].pc # "unused" => FileOf(j) \in File
    /\ job[j].pc = "unused" => job[j] = Unused
    /\ job[j].pc \in Before => job[j].batch = 1 /\ job[j].pg = "todo" /\ job[j].vec = "todo"
    /\ job[j].pc \in Deleting => FileOf(j) \in doomed

\* What an index job has stored is still there.
Has(j, b) == pg[FileOf(j)][b] = j /\ <<j, b>> \in vectors[FileOf(j)]
Stored(j) ==
    FileOf(j) \notin doomed =>
        /\ At(j, "store") =>
             /\ \A b \in Batch : b < job[j].batch => Has(j, b)
             /\ job[j].pg = "ok" => pg[FileOf(j)][job[j].batch] = j
             /\ job[j].vec = "ok" => <<j, job[j].batch>> \in vectors[FileOf(j)]
        /\ At(j, "indexed") => \A b \in Batch : Has(j, b)

Mine(j) == Claims(j) /\ Fresh(j) /\ Steps(j) /\ Stored(j)

\* A file has one worker at a time.
Alone == \A j, k \in Job : Works(j) /\ Works(k) /\ FileOf(j) = FileOf(k) => j = k

IInv == TypeOK /\ Alone /\ IndexedIsSearchable /\ \A j \in Job : Mine(j)
-----------------------------------------------------------------------------
(* A step of one job.  It writes its own file only, which is being added by *)
(* nobody else; and either nobody else works on that file, or its deletion  *)
(* was requested and the row is at most removed, or nothing is written.     *)

Confined(j, f) ==
    /\ TypeOK' /\ job'[j].file = f
    /\ \A k \in Job \ {j} : job'[k] = job[k]
    /\ \A x \in File \ {f} : row'[x] = row[x] /\ pg'[x] = pg[x] /\ vectors'[x] = vectors[x]
    /\ doomed' \in {doomed, doomed \cup {f}}

Permitted(j, f) ==
    /\ \A k \in Job \ {j} : FileOf(k) = f => ~At(k, "add")
    /\ \/ \A k \in Job \ {j} : FileOf(k) = f => ~Works(k)
       \/ f \in doomed /\ row'[f] \in {row[f], NoRow} /\ ~Works(j)'
       \/ row' = row /\ pg' = pg /\ vectors' = vectors /\ ~Works(j)'

\* The file the step writes is still whole, if it reads as indexed.
Whole(f) ==
    f \notin doomed /\ row[f].st = "indexed" =>
        \E j \in Job : pg[f] = [b \in Batch |-> j] /\ {j} \X Batch \subseteq vectors[f]

LEMMA StepKeeps ==
    ASSUME IInv, NEW j \in Job, NEW f \in File, Confined(j, f), Permitted(j, f), Mine(j)',
           Whole(f)'
    PROVE  IInv'
  <1>1. ASSUME NEW k \in Job \ {j} PROVE Mine(k)'
    <2>1. job'[k] = job[k] /\ Mine(k)
      BY DEF Confined, IInv
    <2>2. CASE FileOf(k) # f
      <3>1. FileOf(k)' = FileOf(k) /\ (FileOf(k) \in doomed' <=> FileOf(k) \in doomed)
        BY <2>1, <2>2 DEF Confined, FileOf
      <3>2. FileOf(k) \in File =>
              /\ row'[FileOf(k)] = row[FileOf(k)] /\ pg'[FileOf(k)] = pg[FileOf(k)]
              /\ vectors'[FileOf(k)] = vectors[FileOf(k)]
        BY <2>2 DEF Confined
      <3>3. job[k].pc # "unused" => FileOf(k) \in File
        BY <2>1 DEF Mine, Steps
      <3>4. Claims(k)'
        BY <2>1, <3>1, <3>2, <3>3 DEF Mine, Claims, Works, Present
      <3>5. Fresh(k)'
        <4>1. At(k, "add") => job'[j].file # FileOf(k)
          BY <2>2 DEF Confined
        <4>2. At(k, "add") => \A i \in Job \ {j} : job'[i] = job[i]
          BY DEF Confined
        <4> QED
          BY <2>1, <3>1, <3>2, <3>3, <4>1, <4>2 DEF Mine, Fresh, At, Present, FileOf
      <3>6. Steps(k)'
        BY <2>1, <3>1 DEF Mine, Steps
      <3>7. Stored(k)'
        BY <2>1, <3>1, <3>2, <3>3 DEF Mine, Stored, Has, At
      <3> QED
        BY <3>4, <3>5, <3>6, <3>7 DEF Mine
    <2>3. CASE FileOf(k) = f
      <3>1. FileOf(k)' = f /\ doomed \subseteq doomed' /\ ~At(k, "add")
        BY <2>1, <2>3 DEF Confined, FileOf, Permitted
      <3>2. Fresh(k)'
        BY <2>1, <3>1 DEF Fresh, At
      <3>3. Steps(k)'
        BY <2>1, <2>3, <3>1 DEF Mine, Steps
      <3>4. CASE ~Works(k)
        BY <2>1, <3>2, <3>3, <3>4 DEF Mine, Claims, Stored, Works, At
      <3>5. CASE f \in doomed /\ row'[f] \in {row[f], NoRow}
        BY <2>1, <2>3, <3>1, <3>2, <3>3, <3>5 DEF Mine, Claims, Stored, Works, Present
      <3>6. CASE row' = row /\ pg' = pg /\ vectors' = vectors
        BY <2>1, <2>3, <3>1, <3>2, <3>3, <3>6 DEF Mine, Claims, Stored, Works, Present, At, Has
      <3> QED
        BY <2>3, <3>4, <3>5, <3>6 DEF Permitted
    <2> QED
      BY <2>2, <2>3
  <1>2. Alone'
    <2>1. ASSUME NEW k \in Job \ {j}, Works(j)', Works(k)', FileOf(k)' = f PROVE FALSE
      <3>1. Works(k) /\ FileOf(k) = f
        BY <2>1 DEF Confined, Works, FileOf
      <3> QED
        BY <2>1, <3>1 DEF Permitted
    <2>2. ASSUME NEW i \in Job \ {j}, NEW k \in Job \ {j}, Works(i)', Works(k)',
                 FileOf(i)' = FileOf(k)'
          PROVE  i = k
      BY <2>2 DEF Confined, Works, FileOf, IInv, Alone
    <2>3. FileOf(j)' = f
      BY DEF Confined, FileOf
    <2> QED
      BY <2>1, <2>2, <2>3 DEF Alone
  <1>3. IndexedIsSearchable'
    <2>1. ASSUME NEW x \in File \ doomed', row'[x].st = "indexed"
          PROVE  \E i \in Job : pg'[x] = [b \in Batch |-> i] /\ {i} \X Batch \subseteq vectors'[x]
      <3>1. CASE x = f
        BY <2>1, <3>1 DEF Whole
      <3>2. CASE x # f
        BY <2>1, <3>2 DEF Confined, IInv, IndexedIsSearchable
      <3> QED
        BY <3>1, <3>2
    <2> QED
      BY <2>1 DEF IndexedIsSearchable
  <1> QED
    BY <1>1, <1>2, <1>3 DEF IInv, Confined
-----------------------------------------------------------------------------
(* What the steps are made of.                                              *)

RowFits(v) ==
    /\ v \in RowType
    /\ v.st \in {"uploaded", "absent"} => ~v.md
    /\ v.st \in {"indexed", "error_indexing"} => v.md

LEMMA TypeParts ==
    ASSUME TypeOK
    PROVE  /\ row \in [File -> RowType] /\ \A f \in File : RowFits(row[f])
           /\ pg \in [File -> [Batch -> Job \cup {NoJob}]]
           /\ vectors \in [File -> SUBSET (Job \X Batch)]
           /\ job \in [Job -> JobType]
           /\ doomed \subseteq File /\ stranded \subseteq File /\ faults \in 0..MaxFaults
           /\ Fault => faults' \in 0..MaxFaults
           /\ \A f \in File : Present(f) <=> row[f].st # "absent"
  <1>1. /\ row \in [File -> RowType] /\ \A f \in File : RowFits(row[f])
        /\ faults \in 0..MaxFaults
    BY DEF TypeOK, RowType, RowFits
  <1>2. Fault => faults' \in 0..MaxFaults
    BY <1>1, KnowledgeConstants DEF Fault
  <1>3. ASSUME NEW f \in File PROVE Present(f) <=> row[f].st # "absent"
    <2>1. row[f] \in RowType /\ (row[f].st = "absent" => ~row[f].md)
      BY <1>1 DEF RowFits
    <2>2. row[f] = [st |-> row[f].st, md |-> row[f].md] /\ row[f].md \in BOOLEAN
      BY <2>1 DEF RowType
    <2>3. ASSUME row[f].st = "absent" PROVE row[f] = NoRow
      <3>1. row[f].md = FALSE
        BY <2>1, <2>2, <2>3
      <3> QED
        BY <2>2, <2>3, <3>1 DEF NoRow
    <2>4. row[f] = NoRow => row[f].st = "absent"
      BY DEF NoRow
    <2> QED
      BY <2>3, <2>4 DEF Present
  <1> QED
    BY <1>1, <1>2, <1>3 DEF TypeOK, JobType

LEMMA Confine ==
    ASSUME TypeOK, NEW j \in Job, NEW f \in File,
           job' \in [Job -> JobType], job'[j].file = f,
           \A k \in Job \ {j} : job'[k] = job[k],
           \/ row' = row
           \/ \E v : RowFits(v) /\ row' = [row EXCEPT ![f] = v],
           \/ pg' = pg
           \/ \E c \in [Batch -> Job \cup {NoJob}] : pg' = [pg EXCEPT ![f] = c],
           \/ vectors' = vectors
           \/ \E s \in SUBSET (Job \X Batch) : vectors' = [vectors EXCEPT ![f] = s],
           doomed' \in {doomed, doomed \cup {f}}, stranded' \subseteq File,
           faults' \in 0..MaxFaults
    PROVE  Confined(j, f)
  <1>0. /\ row \in [File -> RowType] /\ \A x \in File : RowFits(row[x])
        /\ pg \in [File -> [Batch -> Job \cup {NoJob}]]
        /\ vectors \in [File -> SUBSET (Job \X Batch)] /\ doomed \subseteq File
    BY TypeParts
  <1>1. /\ row' \in [File -> RowType] /\ \A x \in File : RowFits(row'[x])
        /\ \A x \in File \ {f} : row'[x] = row[x]
    BY <1>0 DEF RowFits
  <1>2. /\ pg' \in [File -> [Batch -> Job \cup {NoJob}]]
        /\ \A x \in File \ {f} : pg'[x] = pg[x]
    BY <1>0
  <1>3. /\ vectors' \in [File -> SUBSET (Job \X Batch)]
        /\ \A x \in File \ {f} : vectors'[x] = vectors[x]
    BY <1>0
  <1>4. doomed' \subseteq File
    BY <1>0
  <1>5. TypeOK'
    BY <1>1, <1>2, <1>3, <1>4 DEF TypeOK, RowType, RowFits, JobType
  <1> QED
    BY <1>1, <1>2, <1>3, <1>5 DEF Confined

LEMMA GoOK ==
    ASSUME job \in [Job -> JobType], NEW j \in Job, NEW pc \in Pc, Go(j, pc)
    PROVE  /\ job' \in [Job -> JobType] /\ \A k \in Job \ {j} : job'[k] = job[k]
           /\ job'[j].pc = pc /\ job'[j].file = job[j].file /\ job'[j].batch = job[j].batch
           /\ job'[j].pg = job[j].pg /\ job'[j].vec = job[j].vec
  <1>1. job' = [job EXCEPT ![j] = [job[j] EXCEPT !.pc = pc]]
    BY DEF Go
  <1> QED
    BY <1>1 DEF JobType

LEMMA NoChunksOK == NoChunks \in [Batch -> Job \cup {NoJob}]
  BY DEF NoChunks

\* A worker is alone with its file, whose row it never leaves as indexed while
\* it works.
LEMMA WorkerAlone ==
    ASSUME IInv, NEW j \in Job, Works(j)
    PROVE  /\ FileOf(j) \in File
           /\ \A k \in Job \ {j} : FileOf(k) = FileOf(j) => ~Works(k) /\ ~At(k, "add")
           /\ row[FileOf(j)].st # "indexed"
           /\ Permitted(j, FileOf(j))
  <1>1. Mine(j) /\ Alone /\ \A k \in Job : Mine(k)
    BY DEF IInv
  <1>2. FileOf(j) \in File
    BY <1>1 DEF Mine, Steps, Works
  <1>3. \A k \in Job \ {j} : FileOf(k) = FileOf(j) => ~Works(k) /\ ~At(k, "add")
    BY <1>1 DEF Alone, Mine, Fresh
  <1>4. row[FileOf(j)].st # "indexed"
    BY <1>1, <1>2, TypeParts DEF IInv, Mine, Claims
  <1> QED
    BY <1>2, <1>3, <1>4 DEF Permitted

\* A job that is done with its file has nothing to keep.
LEMMA DoneMine ==
    ASSUME NEW j \in Job, job'[j].pc = "done", job'[j].file \in File
    PROVE  Mine(j)'
  BY DEF Mine, Claims, Works, Fresh, Steps, Stored, At, FileOf, Before, Deleting
-----------------------------------------------------------------------------
(* Requests.                                                                *)

LEMMA SubmitKeeps ==
    ASSUME IInv, NEW j \in Job, NEW f \in File,
           NEW op \in {"ingest", "add", "parse", "index", "delete"},
           NEW pc \in {"add", "claimParse", "claimIndex", "deleteChunks"},
           Submit(j, op, pc, f), doomed' \in {doomed, doomed \cup {f}},
           \A k \in Job : FileOf(k) = f => ~At(k, "add"),
           pc = "add" => /\ ~Present(f) /\ f \notin doomed'
                         /\ \A k \in Job \ {j} : FileOf(k) # f,
           pc = "deleteChunks" => f \in doomed'
    PROVE  IInv'
  <1>0. /\ TypeOK /\ job \in [Job -> JobType] /\ Mine(j) /\ job[j].pc = "unused"
        /\ row' = row /\ pg' = pg /\ vectors' = vectors /\ faults' = faults
        /\ stranded' = stranded /\ f \in File
    BY TypeParts DEF IInv, Submit, At
  <1>1. job[j] = Unused
    BY <1>0 DEF Mine, Steps
  <1>2. job' = [job EXCEPT ![j] = [Unused EXCEPT !.op = op, !.pc = pc, !.file = f]]
    BY <1>0, <1>1 DEF Submit
  <1>3. [Unused EXCEPT !.op = op, !.pc = pc, !.file = f] \in JobType
    <2>1. 1 \in Batch
      BY KnowledgeConstants DEF Batch
    <2> QED
      BY <2>1 DEF Unused, JobType, Pc, Outcome
  <1>4. /\ job' \in [Job -> JobType] /\ \A k \in Job \ {j} : job'[k] = job[k]
        /\ job'[j].pc = pc /\ job'[j].file = f /\ job'[j].batch = 1
        /\ job'[j].pg = "todo" /\ job'[j].vec = "todo"
    BY <1>0, <1>2, <1>3 DEF Unused
  <1>5. Confined(j, f)
    BY <1>0, <1>4, Confine, TypeParts
  <1>6. Permitted(j, f)
    BY <1>0, <1>4 DEF Permitted, Works
  <1>7. Mine(j)'
    <2>1. Claims(j)' /\ Stored(j)'
      BY <1>4 DEF Claims, Works, Stored, At
    <2>2. Steps(j)'
      BY <1>4 DEF Steps, Before, Deleting, FileOf
    <2>3. Fresh(j)'
      BY <1>0, <1>4 DEF Fresh, At, FileOf, Present
    <2> QED
      BY <2>1, <2>2, <2>3 DEF Mine
  <1>8. Whole(f)'
    BY <1>0 DEF Whole, IInv, IndexedIsSearchable
  <1> QED
    BY <1>5, <1>6, <1>7, <1>8, StepKeeps

LEMMA RequestKeeps ==
    ASSUME IInv, NEW j \in Job, NEW f \in File,
           \/ Ingest(j, f) \/ ParseDocument(j, f) \/ IndexDocument(j, f)
           \/ DeleteDocument(j, f)
    PROVE  IInv'
  <1>1. Present(f) => \A k \in Job : FileOf(k) = f => ~At(k, "add")
    BY DEF IInv, Mine, Fresh
  <1>2. CASE Ingest(j, f)
    BY <1>2, SubmitKeeps DEF Ingest
  <1>3. CASE ParseDocument(j, f)
    BY <1>1, <1>3, SubmitKeeps DEF ParseDocument
  <1>4. CASE IndexDocument(j, f)
    BY <1>1, <1>4, SubmitKeeps DEF IndexDocument
  <1>5. CASE DeleteDocument(j, f)
    BY <1>1, <1>5, SubmitKeeps DEF DeleteDocument
  <1> QED
    BY <1>2, <1>3, <1>4, <1>5

\* A job that only gives up writes nothing.
LEMMA GivesUpKeeps ==
    ASSUME IInv, NEW j \in Job, Done(j), job[j].pc # "unused",
           UNCHANGED <<row, pg, vectors, doomed>>, stranded' \subseteq File,
           faults' \in 0..MaxFaults
    PROVE  IInv'
  <1>0. TypeOK /\ job \in [Job -> JobType] /\ Mine(j) /\ "done" \in Pc
    BY TypeParts DEF IInv, Pc
  <1>1. FileOf(j) \in File
    BY <1>0 DEF Mine, Steps
  <1> SUFFICES ASSUME NEW f \in File, f = FileOf(j) PROVE IInv'
    BY <1>1
  <1>2. /\ job' \in [Job -> JobType] /\ \A k \in Job \ {j} : job'[k] = job[k]
        /\ job'[j].pc = "done" /\ job'[j].file = f
    BY <1>0, GoOK DEF Done, FileOf
  <1>3. Confined(j, f)
    BY <1>0, <1>1, <1>2, Confine, TypeParts
  <1>4. Permitted(j, f)
    BY <1>2 DEF Permitted, Works, IInv, Mine, Fresh
  <1>5. Whole(f)'
    BY <1>1 DEF Whole, IInv, IndexedIsSearchable
  <1> QED
    BY <1>1, <1>2, <1>3, <1>4, <1>5, DoneMine, StepKeeps
-----------------------------------------------------------------------------
(* Adding, parsing, and the claims.                                         *)

LEMMA AddKeeps ==
    ASSUME IInv, NEW j \in Job, Add(j) PROVE IInv'
  <1>00. FileOf(j) \in File
    BY DEF IInv, Mine, Steps, Add, At
  <1> SUFFICES ASSUME NEW f \in File, f = FileOf(j) PROVE IInv'
    BY <1>00
  <1> DEFINE v == [st |-> "uploaded", md |-> FALSE]
  <1>0. /\ TypeOK /\ job \in [Job -> JobType] /\ Mine(j) /\ job[j].pc = "add"
        /\ row \in [File -> RowType] /\ RowFits(v)
        /\ UNCHANGED <<pg, vectors, doomed, stranded>>
    BY TypeParts DEF IInv, Add, At, Mine, Steps, RowFits, RowType, Status
  <1>1. CASE Fault /\ Done(j) /\ UNCHANGED row
    BY <1>0, <1>1, GivesUpKeeps, TypeParts
  <1>2. CASE row' = [row EXCEPT ![f] = v] /\ Go(j, "claimParse") /\ UNCHANGED faults
    <2>1. /\ job' \in [Job -> JobType] /\ \A k \in Job \ {j} : job'[k] = job[k]
          /\ job'[j].pc = "claimParse" /\ job'[j].file = f /\ job'[j].batch = job[j].batch
          /\ job'[j].pg = job[j].pg /\ job'[j].vec = job[j].vec
      BY <1>0, <1>2, GoOK DEF Pc, FileOf
    <2>2. \A k \in Job \ {j} : FileOf(k) # f
      BY <1>0 DEF Mine, Fresh, At
    <2>3. row'[f].st = "uploaded"
      BY <1>0, <1>2
    <2> HIDE DEF v
    <2>4. Confined(j, f)
      BY <1>0, <1>2, <2>1, Confine, TypeParts
    <2>5. Permitted(j, f)
      BY <2>2 DEF Permitted
    <2>6. Mine(j)'
      BY <1>0, <2>1 DEF Mine, Claims, Works, Fresh, Stored, At, Steps, FileOf, Before, Deleting
    <2>7. Whole(f)'
      BY <2>3 DEF Whole
    <2> QED
      BY <1>0, <2>4, <2>5, <2>6, <2>7, StepKeeps
  <1> QED
    BY <1>0, <1>1, <1>2 DEF Add

\* Whoever gets a claim found the file without a worker.
LEMMA ClaimKeeps ==
    ASSUME IInv, NEW j \in Job, job[j].pc \in {"claimParse", "claimIndex"},
           NEW from \in SUBSET (Status \ {"absent", "parsing", "indexing"}), NEW st, NEW pc,
           Claim(j, from, st, pc), UNCHANGED <<pg, vectors, doomed, stranded, faults>>,
           \/ st = "parsing" /\ pc = "parse"
           \/ st = "indexing" /\ pc = "clearChunks" /\ row[FileOf(j)].md
           \/ st = "indexing" /\ pc = "unparse"
    PROVE  IInv'
  <1>00. FileOf(j) \in File
    BY DEF IInv, Mine, Steps
  <1> SUFFICES ASSUME NEW f \in File, f = FileOf(j) PROVE IInv'
    BY <1>00
  <1>0. /\ TypeOK /\ job \in [Job -> JobType] /\ Mine(j)
        /\ row \in [File -> RowType] /\ RowFits(row[f]) /\ pc \in Pc
        /\ Present(f) <=> row[f].st # "absent"
    BY TypeParts DEF IInv, Mine, Steps, Pc
  <1>1. CASE row[f].st \notin from
    BY <1>0, <1>1, GivesUpKeeps, TypeParts DEF Claim
  <1>2. CASE row[f].st \in from
    <2> DEFINE v == [row[f] EXCEPT !.st = st]
    <2>1. row' = [row EXCEPT ![f] = v] /\ Go(j, pc)
      BY <1>2 DEF Claim
    <2>2. RowFits(v) /\ v.st = st /\ v.md = row[f].md
      BY <1>0 DEF RowFits, RowType, Status
    <2> HIDE DEF v
    <2>3. /\ job' \in [Job -> JobType] /\ \A k \in Job \ {j} : job'[k] = job[k]
          /\ job'[j].pc = pc /\ job'[j].file = f /\ job'[j].batch = job[j].batch
          /\ job'[j].pg = job[j].pg /\ job'[j].vec = job[j].vec
      BY <1>0, <2>1, GoOK DEF FileOf
    <2>4. \A k \in Job \ {j} : FileOf(k) = f => ~Works(k) /\ ~At(k, "add")
      BY <1>0, <1>2 DEF IInv, Mine, Claims, Fresh
    <2>5. row'[f] = v
      BY <1>0, <2>1
    <2>6. Confined(j, f)
      BY <1>0, <2>1, <2>2, <2>3, Confine, TypeParts
    <2>7. Permitted(j, f)
      BY <2>4 DEF Permitted
    <2>8. Mine(j)'
      <3>1. Claims(j)'
        BY <2>2, <2>3, <2>5 DEF Claims, FileOf, Parsing, Indexing
      <3>2. Steps(j)'
        BY <1>0, <2>3 DEF Mine, Steps, FileOf, Before, Deleting
      <3> QED
        BY <2>3, <3>1, <3>2 DEF Mine, Fresh, Stored, At
    <2>9. Whole(f)'
      BY <2>2, <2>5 DEF Whole
    <2> QED
      BY <1>0, <2>6, <2>7, <2>8, <2>9, StepKeeps
  <1> QED
    BY <1>1, <1>2
-----------------------------------------------------------------------------
(* The work on a claimed file.                                              *)

LEMMA WorkKeeps ==
    ASSUME IInv, NEW j \in Job, Works(j), NEW f \in File, f = FileOf(j),
           job' \in [Job -> JobType], job'[j].file = f,
           \A k \in Job \ {j} : job'[k] = job[k],
           \/ row' = row
           \/ \E v : RowFits(v) /\ row' = [row EXCEPT ![f] = v],
           \/ pg' = pg
           \/ \E c \in [Batch -> Job \cup {NoJob}] : pg' = [pg EXCEPT ![f] = c],
           \/ vectors' = vectors
           \/ \E s \in SUBSET (Job \X Batch) : vectors' = [vectors EXCEPT ![f] = s],
           UNCHANGED doomed, stranded' \subseteq File, faults' \in 0..MaxFaults,
           Mine(j)', row'[f].st = "indexed" => Whole(f)'
    PROVE  IInv'
  <1>1. Confined(j, f)
    BY Confine DEF IInv
  <1>2. (\A k \in Job \ {j} : FileOf(k) = f => ~Works(k) /\ ~At(k, "add"))
    BY WorkerAlone
  <1>3. Permitted(j, f)
    BY <1>2 DEF Permitted
  <1>4. row'[f].st # "indexed" => Whole(f)'
    BY DEF Whole
  <1> QED
    BY <1>1, <1>3, <1>4, StepKeeps

\* The row of a working file is set to v, or is gone and stays so.
LEMMA SetRowOK ==
    ASSUME TypeOK, NEW f \in File, NEW v, RowFits(v), v.st # "absent", SetRow(f, v)
    PROVE  /\ row' = row \/ row' = [row EXCEPT ![f] = v]
           /\ row'[f] \in {row[f], v} /\ (Present(f) => row'[f] = v)
           /\ ~Present(f) => row' = row
  BY TypeParts DEF SetRow

LEMMA SetStatusOK ==
    ASSUME TypeOK, NEW f \in File, NEW st \in Status, SetStatus(f, st)
    PROVE  SetRow(f, [row[f] EXCEPT !.st = st])
  <1>1. Present(f) => row' = [row EXCEPT ![f] = [row[f] EXCEPT !.st = st]]
    BY DEF SetStatus
  <1> QED
    BY <1>1 DEF SetStatus, SetRow

\* The claim is kept where the row and the kind of work stay.
LEMMA ClaimsKept ==
    ASSUME NEW j \in Job, Works(j), Claims(j), row' = row, job'[j].file = FileOf(j),
           job[j].pc \in Parsing <=> job'[j].pc \in Parsing,
           job'[j].pc \in Indexing => job[j].pc \in Indexing
    PROVE  Claims(j)'
  BY DEF Claims, FileOf, Present

LEMMA ParseKeeps ==
    ASSUME IInv, NEW j \in Job, ParseFile(j) PROVE IInv'
  <1>0. /\ TypeOK /\ job \in [Job -> JobType] /\ Mine(j) /\ job[j].pc = "parse" /\ Works(j)
        /\ UNCHANGED <<pg, vectors, doomed, stranded>>
    BY TypeParts DEF IInv, ParseFile, At, Works
  <1>1. FileOf(j) \in File
    BY <1>0, WorkerAlone
  <1> SUFFICES ASSUME NEW f \in File, f = FileOf(j) PROVE IInv'
    BY <1>1
  <1> DEFINE v == [st |-> "parsed", md |-> TRUE]
  <1>2. RowFits(v) /\ v.st = "parsed"
    BY DEF RowFits, RowType, Status
  <1> HIDE DEF v
  <1>3. CASE Fault /\ Go(j, "parseFailed") /\ UNCHANGED row
    <2>1. /\ job' \in [Job -> JobType] /\ \A k \in Job \ {j} : job'[k] = job[k]
          /\ job'[j].pc = "parseFailed" /\ job'[j].file = f /\ job'[j].batch = job[j].batch
          /\ job'[j].pg = job[j].pg /\ job'[j].vec = job[j].vec
      BY <1>0, <1>3, GoOK DEF Pc, FileOf
    <2>2. Claims(j)'
      BY <1>0, <1>3, <2>1, ClaimsKept DEF Parsing, Indexing, Mine
    <2>3. Mine(j)'
      BY <1>0, <2>1, <2>2 DEF Mine, Fresh, Steps, Stored, At, FileOf, Before, Deleting
    <2>4. row'[f].st # "indexed"
      BY <1>0, <1>3, WorkerAlone
    <2> QED
      BY <1>0, <1>3, <2>1, <2>3, <2>4, WorkKeeps, TypeParts
  <1>4. ASSUME SetRow(f, v), NEW pc \in {"claimIndex", "done"}, Go(j, pc), UNCHANGED faults
        PROVE  IInv'
    <2>1. /\ job' \in [Job -> JobType] /\ \A k \in Job \ {j} : job'[k] = job[k]
          /\ job'[j].pc = pc /\ job'[j].file = f /\ job'[j].batch = job[j].batch
          /\ job'[j].pg = job[j].pg /\ job'[j].vec = job[j].vec
      BY <1>0, <1>4, GoOK DEF Pc, FileOf
    <2>2. Mine(j)'
      BY <1>0, <2>1 DEF Mine, Claims, Works, Fresh, Steps, Stored, At, FileOf, Before, Deleting
    <2>3. (row' = row \/ row' = [row EXCEPT ![f] = v]) /\ row'[f].st # "indexed"
      BY <1>0, <1>2, <1>4, SetRowOK, WorkerAlone
    <2> QED
      BY <1>0, <1>2, <1>4, <2>1, <2>2, <2>3, WorkKeeps, TypeParts
  <1> QED
    BY <1>0, <1>3, <1>4 DEF ParseFile, v

\* The except blocks write an error status, or nobody does.
LEMMA FailedKeeps ==
    ASSUME IInv, NEW j \in Job, ParseFailed(j) \/ IndexFailed(j) PROVE IInv'
  <1>0. /\ TypeOK /\ job \in [Job -> JobType] /\ Mine(j) /\ Works(j) /\ Done(j)
        /\ UNCHANGED <<pg, vectors, doomed>>
    BY TypeParts DEF IInv, ParseFailed, IndexFailed, Failed, At, Works
  <1>1. FileOf(j) \in File
    BY <1>0, WorkerAlone
  <1> SUFFICES ASSUME NEW f \in File, f = FileOf(j) PROVE IInv'
    BY <1>1
  <1>2. /\ job' \in [Job -> JobType] /\ \A k \in Job \ {j} : job'[k] = job[k]
        /\ job'[j].pc = "done" /\ job'[j].file = f
    BY <1>0, GoOK DEF Pc, FileOf, Done
  <1>3. Mine(j)'
    BY <1>2, DoneMine
  <1>4. CASE Fault /\ stranded' = stranded \cup {f} /\ UNCHANGED row
    BY <1>0, <1>4, GivesUpKeeps, TypeParts DEF Works
  <1>5. ASSUME NEW st \in {"error_parsing", "error_indexing"}, SetStatus(f, st),
               st = "error_indexing" => job[j].pc \in Indexing,
               UNCHANGED <<stranded, faults>>
        PROVE  IInv'
    <2> DEFINE v == [row[f] EXCEPT !.st = st]
    <2>1. row[f] \in RowType /\ RowFits(row[f])
      BY <1>0, TypeParts
    <2>2. Present(f) /\ st = "error_indexing" => row[f].md
      BY <1>0, <1>5 DEF Mine, Claims
    <2>3. CASE Present(f)
      <3>1. RowFits(v) /\ v.st = st
        BY <1>5, <2>1, <2>2, <2>3 DEF RowFits, RowType, Status
      <3>2. SetRow(f, v)
        BY <1>0, <1>5, SetStatusOK DEF Status
      <3> HIDE DEF v
      <3>3. (row' = row \/ row' = [row EXCEPT ![f] = v]) /\ row'[f].st # "indexed"
        BY <1>0, <1>5, <3>1, <3>2, SetRowOK, WorkerAlone
      <3> QED
        BY <1>0, <1>2, <1>3, <1>5, <3>1, <3>3, WorkKeeps, TypeParts
    <2>4. CASE ~Present(f)
      <3>1. row' = row
        BY <1>5, <2>4 DEF SetStatus
      <3> QED
        BY <1>0, <1>5, <3>1, GivesUpKeeps, TypeParts DEF Works
    <2> QED
      BY <2>3, <2>4
  <1> QED
    BY <1>4, <1>5 DEF ParseFailed, IndexFailed, Failed, At, Indexing

LEMMA UnparseKeeps ==
    ASSUME IInv, NEW j \in Job, Unparse(j) PROVE IInv'
  <1>0. /\ TypeOK /\ job \in [Job -> JobType] /\ Mine(j) /\ Works(j) /\ Done(j)
        /\ UNCHANGED <<pg, vectors, doomed>>
    BY TypeParts DEF IInv, Unparse, At, Works
  <1>1. FileOf(j) \in File
    BY <1>0, WorkerAlone
  <1> SUFFICES ASSUME NEW f \in File, f = FileOf(j) PROVE IInv'
    BY <1>1
  <1> DEFINE v == [st |-> "uploaded", md |-> FALSE]
  <1>2. RowFits(v) /\ v.st = "uploaded"
    BY DEF RowFits, RowType, Status
  <1> HIDE DEF v
  <1>3. /\ job' \in [Job -> JobType] /\ \A k \in Job \ {j} : job'[k] = job[k]
        /\ job'[j].pc = "done" /\ job'[j].file = f
    BY <1>0, GoOK DEF Pc, FileOf, Done
  <1>4. CASE Fault /\ stranded' = stranded \cup {f} /\ UNCHANGED row
    BY <1>0, <1>4, GivesUpKeeps, TypeParts DEF Works
  <1>5. CASE SetRow(f, v) /\ UNCHANGED <<stranded, faults>>
    <2>1. (row' = row \/ row' = [row EXCEPT ![f] = v]) /\ row'[f].st # "indexed"
      BY <1>0, <1>2, <1>5, SetRowOK, WorkerAlone
    <2> QED
      BY <1>0, <1>2, <1>3, <1>5, <2>1, DoneMine, WorkKeeps, TypeParts
  <1> QED
    BY <1>4, <1>5 DEF Unparse, v
-----------------------------------------------------------------------------
(* Indexing.  The row is not written before the last step.                  *)

LEMMA IndexStepKeeps ==
    ASSUME IInv, NEW j \in Job, NEW f \in File, f = FileOf(j), job[j].pc \in Indexing,
           job' \in [Job -> JobType], job'[j].file = f, job'[j].pc \in Indexing,
           \A k \in Job \ {j} : job'[k] = job[k],
           job'[j].pc = "clearVectors" =>
               /\ job'[j].batch = job[j].batch /\ job'[j].pg = job[j].pg
               /\ job'[j].vec = job[j].vec /\ job[j].pc \in Before,
           job'[j].pc # "clearChunks",
           \/ pg' = pg
           \/ \E c \in [Batch -> Job \cup {NoJob}] : pg' = [pg EXCEPT ![f] = c],
           \/ vectors' = vectors
           \/ \E s \in SUBSET (Job \X Batch) : vectors' = [vectors EXCEPT ![f] = s],
           UNCHANGED <<row, doomed, stranded>>, faults' \in 0..MaxFaults, Stored(j)'
    PROVE  IInv'
  <1>1. Works(j) /\ Mine(j) /\ TypeOK
    BY DEF Works, Indexing, IInv
  <1>2. Claims(j)'
    BY <1>1, ClaimsKept DEF Mine, Parsing, Indexing
  <1>3. Steps(j)'
    BY <1>1 DEF Mine, Steps, Before, Deleting, Indexing, FileOf
  <1>4. Fresh(j)'
    BY DEF Fresh, At, Indexing
  <1>5. Mine(j)'
    BY <1>2, <1>3, <1>4 DEF Mine
  <1>6. row'[f].st # "indexed" /\ stranded' \subseteq File
    BY <1>1, WorkerAlone, TypeParts
  <1> QED
    BY <1>1, <1>5, <1>6, WorkKeeps

LEMMA ClearKeeps ==
    ASSUME IInv, NEW j \in Job, ClearChunks(j) \/ ClearVectors(j) PROVE IInv'
  <1>0. /\ TypeOK /\ job \in [Job -> JobType] /\ Mine(j)
        /\ job[j].pc \in Indexing /\ job[j].pc \in Before
        /\ UNCHANGED <<row, doomed, stranded>>
    BY TypeParts DEF IInv, ClearChunks, ClearVectors, DropVectors, At, Indexing, Before
  <1>1. FileOf(j) \in File
    BY <1>0, WorkerAlone DEF Works, Indexing
  <1> SUFFICES ASSUME NEW f \in File, f = FileOf(j) PROVE IInv'
    BY <1>1
  <1>2. job[j].batch = 1 /\ job[j].pg = "todo" /\ job[j].vec = "todo"
    BY <1>0 DEF Mine, Steps
  <1>3. faults' \in 0..MaxFaults /\ {} \in SUBSET (Job \X Batch)
    BY <1>0, TypeParts DEF ClearChunks, ClearVectors, DropVectors
  <1>4. /\ pg' = pg \/ pg' = [pg EXCEPT ![f] = NoChunks]
        /\ vectors' = vectors \/ vectors' = [vectors EXCEPT ![f] = {}]
    BY DEF ClearChunks, ClearVectors, DropVectors
  <1>5. ASSUME NEW pc \in {"clearVectors", "store", "indexFailed"}, Go(j, pc) PROVE IInv'
    <2>1. /\ job' \in [Job -> JobType] /\ \A k \in Job \ {j} : job'[k] = job[k]
          /\ job'[j].pc = pc /\ job'[j].file = f /\ job'[j].batch = job[j].batch
          /\ job'[j].pg = job[j].pg /\ job'[j].vec = job[j].vec
      BY <1>0, <1>5, GoOK DEF Pc, FileOf
    <2>2. Stored(j)'
      BY <1>2, <2>1 DEF Stored, At, Batch
    <2>3. job'[j].pc \in Indexing
      BY <2>1 DEF Indexing
    <2> QED
      BY <1>0, <1>2, <1>3, <1>4, <2>1, <2>2, <2>3, NoChunksOK, IndexStepKeeps
  <1> QED
    BY <1>5 DEF ClearChunks, ClearVectors, DropVectors

\* One store of a batch, in either order, or a batch that is given up.
LEMMA StoreKeeps ==
    ASSUME IInv, NEW j \in Job, StoreChunks(j) \/ StoreVectors(j) PROVE IInv'
  <1>0. /\ TypeOK /\ job \in [Job -> JobType] /\ Mine(j) /\ job[j] \in JobType
        /\ job[j].pc = "store" /\ job[j].pc \in Indexing
        /\ pg \in [File -> [Batch -> Job \cup {NoJob}]]
        /\ vectors \in [File -> SUBSET (Job \X Batch)]
        /\ UNCHANGED <<row, doomed, stranded>>
    BY TypeParts DEF IInv, StoreChunks, StoreVectors, At, Indexing
  <1>1. FileOf(j) \in File
    BY <1>0, WorkerAlone DEF Works
  <1> SUFFICES ASSUME NEW f \in File, f = FileOf(j) PROVE IInv'
    BY <1>1
  <1>2. faults' \in 0..MaxFaults /\ job[j].batch \in Batch
    BY <1>0, TypeParts DEF StoreChunks, StoreVectors, JobType
  <1>3. CASE StoreChunks(j)
    <2> DEFINE c == [pg[f] EXCEPT ![job[j].batch] = j]
    <2>1. c \in [Batch -> Job \cup {NoJob}] /\ c[job[j].batch] = j
          /\ \A b \in Batch : c[b] # pg[f][b] => c[b] = j
      BY <1>0, <1>2
    <2>2. \/ /\ job' = [job EXCEPT ![j] = [job[j] EXCEPT !.pg = "ok"]]
             /\ pg' = [pg EXCEPT ![f] = c]
          \/ job' = [job EXCEPT ![j] = [job[j] EXCEPT !.pg = "bad"]] /\ pg' = pg
      BY <1>3 DEF StoreChunks
    <2> HIDE DEF c
    <2>3. /\ job' \in [Job -> JobType] /\ \A k \in Job \ {j} : job'[k] = job[k]
          /\ job'[j].pc = "store" /\ job'[j].file = f /\ job'[j].batch = job[j].batch
          /\ job'[j].vec = job[j].vec
          /\ (job'[j].pg = "ok" /\ pg'[f] = c) \/ (job'[j].pg = "bad" /\ pg' = pg)
      <3>1. ASSUME NEW o \in {"ok", "bad"}, job' = [job EXCEPT ![j] = [job[j] EXCEPT !.pg = o]]
            PROVE  /\ job' \in [Job -> JobType] /\ \A k \in Job \ {j} : job'[k] = job[k]
                   /\ job'[j].pc = "store" /\ job'[j].file = f /\ job'[j].batch = job[j].batch
                   /\ job'[j].vec = job[j].vec /\ job'[j].pg = o
        BY <1>0, <3>1 DEF JobType, Outcome, FileOf
      <3>2. pg' = [pg EXCEPT ![f] = c] => pg'[f] = c
        BY <1>0
      <3> QED
        BY <2>2, <3>1, <3>2
    <2>4. Stored(j)'
      <3>1. ASSUME f \notin doomed PROVE Stored(j)'
        <4>1. /\ \A b \in Batch : b < job[j].batch => pg[f][b] = j /\ <<j, b>> \in vectors[f]
              /\ job[j].vec = "ok" => <<j, job[j].batch>> \in vectors[f]
          BY <1>0, <3>1 DEF Mine, Stored, At, Has
        <4>2. vectors' = vectors
          BY <1>3 DEF StoreChunks
        <4>3. \A b \in Batch : b < job[j].batch => pg'[f][b] = j
          BY <2>1, <2>3, <4>1
        <4>4. job'[j].pg = "ok" => pg'[f][job[j].batch] = j
          BY <2>1, <2>3
        <4> QED
          BY <2>3, <4>1, <4>2, <4>3, <4>4 DEF Stored, At, Has, FileOf
      <3>2. f \in doomed => Stored(j)'
        BY <1>0, <2>3 DEF Stored, FileOf
      <3> QED
        BY <3>1, <3>2
    <2>5. vectors' = vectors /\ (pg' = pg \/ pg' = [pg EXCEPT ![f] = c])
      BY <1>3, <2>2 DEF StoreChunks
    <2>6. job'[j].pc \in Indexing
      BY <2>3 DEF Indexing
    <2> QED
      BY <1>0, <1>2, <2>1, <2>3, <2>4, <2>5, <2>6, IndexStepKeeps
  <1>4. CASE StoreVectors(j)
    <2> DEFINE s == vectors[f] \cup {<<j, job[j].batch>>}
    <2>1. s \in SUBSET (Job \X Batch) /\ vectors[f] \subseteq s /\ <<j, job[j].batch>> \in s
      BY <1>0, <1>2
    <2>2. \/ /\ job' = [job EXCEPT ![j] = [job[j] EXCEPT !.vec = "ok"]]
             /\ vectors' = [vectors EXCEPT ![f] = s]
          \/ job' = [job EXCEPT ![j] = [job[j] EXCEPT !.vec = "bad"]] /\ vectors' = vectors
      BY <1>4 DEF StoreVectors
    <2> HIDE DEF s
    <2>3. /\ job' \in [Job -> JobType] /\ \A k \in Job \ {j} : job'[k] = job[k]
          /\ job'[j].pc = "store" /\ job'[j].file = f /\ job'[j].batch = job[j].batch
          /\ job'[j].pg = job[j].pg
          /\ (job'[j].vec = "ok" /\ vectors'[f] = s) \/ (job'[j].vec = "bad" /\ vectors' = vectors)
      <3>1. ASSUME NEW o \in {"ok", "bad"}, job' = [job EXCEPT ![j] = [job[j] EXCEPT !.vec = o]]
            PROVE  /\ job' \in [Job -> JobType] /\ \A k \in Job \ {j} : job'[k] = job[k]
                   /\ job'[j].pc = "store" /\ job'[j].file = f /\ job'[j].batch = job[j].batch
                   /\ job'[j].pg = job[j].pg /\ job'[j].vec = o
        BY <1>0, <3>1 DEF JobType, Outcome, FileOf
      <3>2. vectors' = [vectors EXCEPT ![f] = s] => vectors'[f] = s
        BY <1>0
      <3> QED
        BY <2>2, <3>1, <3>2
    <2>4. Stored(j)'
      <3>1. ASSUME f \notin doomed PROVE Stored(j)'
        <4>1. /\ \A b \in Batch : b < job[j].batch => pg[f][b] = j /\ <<j, b>> \in vectors[f]
              /\ job[j].pg = "ok" => pg[f][job[j].batch] = j
          BY <1>0, <3>1 DEF Mine, Stored, At, Has
        <4>2. pg' = pg
          BY <1>4 DEF StoreVectors
        <4>3. \A b \in Batch : b < job[j].batch => <<j, b>> \in vectors'[f]
          BY <2>1, <2>3, <4>1
        <4>4. job'[j].vec = "ok" => <<j, job[j].batch>> \in vectors'[f]
          BY <2>1, <2>3
        <4> QED
          BY <2>3, <4>1, <4>2, <4>3, <4>4 DEF Stored, At, Has, FileOf
      <3>2. f \in doomed => Stored(j)'
        BY <1>0, <2>3 DEF Stored, FileOf
      <3> QED
        BY <3>1, <3>2
    <2>5. pg' = pg /\ (vectors' = vectors \/ vectors' = [vectors EXCEPT ![f] = s])
      BY <1>4, <2>2 DEF StoreVectors
    <2>6. job'[j].pc \in Indexing
      BY <2>3 DEF Indexing
    <2> QED
      BY <1>0, <1>2, <2>1, <2>3, <2>4, <2>5, <2>6, IndexStepKeeps
  <1> QED
    BY <1>3, <1>4

LEMMA InterruptedKeeps ==
    ASSUME IInv, NEW j \in Job, Interrupted(j) PROVE IInv'
  <1>0. /\ TypeOK /\ job \in [Job -> JobType] /\ Mine(j) /\ job[j] \in JobType
        /\ job[j].pc \in Indexing /\ vectors \in [File -> SUBSET (Job \X Batch)]
        /\ UNCHANGED <<row, pg, doomed, stranded>> /\ faults' \in 0..MaxFaults
    BY TypeParts DEF IInv, Interrupted, At, Indexing
  <1>1. FileOf(j) \in File
    BY <1>0, WorkerAlone DEF Works, Indexing
  <1> SUFFICES ASSUME NEW f \in File, f = FileOf(j) PROVE IInv'
    BY <1>1
  <1>2. /\ job' \in [Job -> JobType] /\ \A k \in Job \ {j} : job'[k] = job[k]
        /\ job'[j].pc = "indexFailed" /\ job'[j].file = f
    BY <1>0, GoOK DEF Pc, FileOf, Interrupted
  <1>3. vectors[f] \cup {<<j, job[j].batch>>} \in SUBSET (Job \X Batch)
    BY <1>0 DEF JobType
  <1>4. \/ vectors' = vectors
        \/ vectors' = [vectors EXCEPT ![f] = vectors[f] \cup {<<j, job[j].batch>>}]
    BY DEF Interrupted
  <1>5. Stored(j)' /\ job'[j].pc \in Indexing
    BY <1>2 DEF Stored, At, Indexing
  <1> QED
    BY <1>0, <1>2, <1>3, <1>4, <1>5, IndexStepKeeps

LEMMA BatchDoneKeeps ==
    ASSUME IInv, NEW j \in Job, BatchDone(j) PROVE IInv'
  <1>0. /\ TypeOK /\ job \in [Job -> JobType] /\ Mine(j) /\ job[j] \in JobType
        /\ job[j].pc = "store" /\ job[j].pc \in Indexing
        /\ UNCHANGED <<row, pg, vectors, doomed, stranded>> /\ faults' \in 0..MaxFaults
    BY TypeParts DEF IInv, BatchDone, Gathered, At, Indexing
  <1>1. FileOf(j) \in File
    BY <1>0, WorkerAlone DEF Works
  <1> SUFFICES ASSUME NEW f \in File, f = FileOf(j) PROVE IInv'
    BY <1>1
  <1>2. CASE Go(j, "rollbackChunks")
    <2>1. /\ job' \in [Job -> JobType] /\ \A k \in Job \ {j} : job'[k] = job[k]
          /\ job'[j].pc = "rollbackChunks" /\ job'[j].file = f
      BY <1>0, <1>2, GoOK DEF Pc, FileOf
    <2>2. Stored(j)' /\ job'[j].pc \in Indexing
      BY <2>1 DEF Stored, At, Indexing
    <2> QED
      BY <1>0, <2>1, <2>2, IndexStepKeeps
  <1>3. CASE job[j].pg = "ok" /\ job[j].vec = "ok" /\ NextBatch(j)
    <2> DEFINE n == job[j].batch
    <2>1. n \in Batch /\ n \in Nat /\ Batches \in Nat
      BY <1>0, KnowledgeConstants DEF JobType, Batch
    <2>2. job' = [job EXCEPT ![j] =
                    [job[j] EXCEPT !.pg = "todo", !.vec = "todo",
                                   !.pc = IF n < Batches THEN "store" ELSE "indexed",
                                   !.batch = IF n < Batches THEN n + 1 ELSE n]]
      BY <1>3 DEF NextBatch
    <2> HIDE DEF n
    <2>3. (IF n < Batches THEN n + 1 ELSE n) \in Batch
      BY <2>1 DEF Batch
    <2>4. /\ job' \in [Job -> JobType] /\ \A k \in Job \ {j} : job'[k] = job[k]
          /\ job'[j].pc = (IF n < Batches THEN "store" ELSE "indexed")
          /\ job'[j].file = f /\ job'[j].pg = "todo" /\ job'[j].vec = "todo"
          /\ job'[j].batch = (IF n < Batches THEN n + 1 ELSE n)
      BY <1>0, <2>2, <2>3 DEF JobType, Outcome, Pc, FileOf
    <2>5. ASSUME f \notin doomed PROVE \A b \in Batch : b <= n => Has(j, b)
      <3>1. \A b \in Batch : b < n => Has(j, b)
        BY <1>0, <2>5 DEF Mine, Stored, At, n
      <3>2. Has(j, n)
        BY <1>0, <1>3, <2>5 DEF Mine, Stored, At, Has, n
      <3> QED
        BY <2>1, <3>1, <3>2 DEF Batch
    <2>6. CASE n < Batches
      <3>1. job'[j].pc = "store" /\ job'[j].batch = n + 1
        BY <2>4, <2>6
      <3>2. ASSUME f \notin doomed, NEW b \in Batch, b < n + 1 PROVE Has(j, b)'
        <4>1. Has(j, b)
          BY <2>1, <2>5, <3>2 DEF Batch
        <4> QED
          BY <1>0, <2>4, <4>1 DEF Has, FileOf
      <3>3. Stored(j)'
        BY <1>0, <2>4, <3>1, <3>2 DEF Stored, At, FileOf
      <3>4. job'[j].pc \in Indexing
        BY <3>1 DEF Indexing
      <3> QED
        BY <1>0, <2>4, <3>1, <3>3, <3>4, IndexStepKeeps
    <2>7. CASE ~(n < Batches)
      <3>1. job'[j].pc = "indexed"
        BY <2>4, <2>7
      <3>2. ASSUME f \notin doomed, NEW b \in Batch PROVE Has(j, b)'
        <4>1. Has(j, b)
          BY <2>1, <2>5, <2>7, <3>2 DEF Batch
        <4> QED
          BY <1>0, <2>4, <4>1 DEF Has, FileOf
      <3>3. Stored(j)'
        BY <1>0, <2>4, <3>1, <3>2 DEF Stored, At, FileOf
      <3>4. job'[j].pc \in Indexing
        BY <3>1 DEF Indexing
      <3> QED
        BY <1>0, <2>4, <3>1, <3>3, <3>4, IndexStepKeeps
    <2> QED
      BY <2>6, <2>7
  <1> QED
    BY <1>2, <1>3 DEF BatchDone

LEMMA RollbackKeeps ==
    ASSUME IInv, NEW j \in Job, RollbackChunks(j) \/ RollbackVectors(j) PROVE IInv'
  <1>0. /\ TypeOK /\ job \in [Job -> JobType] /\ Mine(j) /\ job[j].pc \in Indexing
        /\ UNCHANGED <<row, doomed, stranded>> /\ faults' \in 0..MaxFaults
        /\ {} \in SUBSET (Job \X Batch)
    BY TypeParts DEF IInv, RollbackChunks, RollbackVectors, DropVectors, At, Indexing
  <1>1. FileOf(j) \in File
    BY <1>0, WorkerAlone DEF Works, Indexing
  <1> SUFFICES ASSUME NEW f \in File, f = FileOf(j) PROVE IInv'
    BY <1>1
  <1>2. /\ pg' = pg \/ pg' = [pg EXCEPT ![f] = NoChunks]
        /\ vectors' = vectors \/ vectors' = [vectors EXCEPT ![f] = {}]
    BY DEF RollbackChunks, RollbackVectors, DropVectors
  <1>3. ASSUME NEW pc \in {"rollbackVectors", "indexFailed"}, Go(j, pc) PROVE IInv'
    <2>1. /\ job' \in [Job -> JobType] /\ \A k \in Job \ {j} : job'[k] = job[k]
          /\ job'[j].pc = pc /\ job'[j].file = f
      BY <1>0, <1>3, GoOK DEF Pc, FileOf
    <2>2. Stored(j)' /\ job'[j].pc \in Indexing
      BY <2>1 DEF Stored, At, Indexing
    <2> QED
      BY <1>0, <1>2, <2>1, <2>2, NoChunksOK, IndexStepKeeps
  <1> QED
    BY <1>3 DEF RollbackChunks, RollbackVectors, DropVectors

\* The row says indexed when every batch is in both stores.
LEMMA IndexedKeeps ==
    ASSUME IInv, NEW j \in Job, Indexed(j) PROVE IInv'
  <1>0. /\ TypeOK /\ job \in [Job -> JobType] /\ Mine(j)
        /\ job[j].pc = "indexed" /\ job[j].pc \in Indexing /\ Works(j)
        /\ pg \in [File -> [Batch -> Job \cup {NoJob}]]
        /\ UNCHANGED <<pg, vectors, doomed, stranded>> /\ faults' \in 0..MaxFaults
    BY TypeParts DEF IInv, Indexed, At, Indexing, Works
  <1>1. FileOf(j) \in File
    BY <1>0, WorkerAlone
  <1> SUFFICES ASSUME NEW f \in File, f = FileOf(j) PROVE IInv'
    BY <1>1
  <1>2. CASE Go(j, "indexFailed") /\ UNCHANGED row
    <2>1. /\ job' \in [Job -> JobType] /\ \A k \in Job \ {j} : job'[k] = job[k]
          /\ job'[j].pc = "indexFailed" /\ job'[j].file = f
      BY <1>0, <1>2, GoOK DEF Pc, FileOf
    <2>2. Stored(j)' /\ job'[j].pc \in Indexing
      BY <2>1 DEF Stored, At, Indexing
    <2> QED
      BY <1>0, <1>2, <2>1, <2>2, IndexStepKeeps
  <1>3. CASE SetStatus(f, "indexed") /\ Done(j)
    <2> DEFINE v == [row[f] EXCEPT !.st = "indexed"]
    <2>1. row[f] \in RowType /\ RowFits(row[f])
      BY <1>0, TypeParts
    <2>2. CASE ~Present(f)
      <3>1. row' = row
        BY <1>3, <2>2 DEF SetStatus
      <3> QED
        BY <1>0, <1>3, <3>1, GivesUpKeeps, TypeParts
    <2>3. CASE Present(f)
      <3>1. row[f].md
        BY <1>0, <2>3 DEF Mine, Claims
      <3>2. RowFits(v) /\ v.st = "indexed"
        BY <2>1, <3>1 DEF RowFits, RowType, Status
      <3>3. SetRow(f, v)
        BY <1>0, <1>3, SetStatusOK DEF Status
      <3> HIDE DEF v
      <3>4. row' = row \/ row' = [row EXCEPT ![f] = v]
        BY <1>0, <3>2, <3>3, SetRowOK
      <3>5. /\ job' \in [Job -> JobType] /\ \A k \in Job \ {j} : job'[k] = job[k]
            /\ job'[j].pc = "done" /\ job'[j].file = f
        BY <1>0, <1>3, GoOK DEF Pc, FileOf, Done
      <3>6. f \notin doomed => /\ pg[f] = [b \in Batch |-> j]
                               /\ {j} \X Batch \subseteq vectors[f]
        <4>1. f \notin doomed => \A b \in Batch : pg[f][b] = j /\ <<j, b>> \in vectors[f]
          BY <1>0 DEF Mine, Stored, At, Has
        <4>2. pg[f] = [b \in Batch |-> pg[f][b]]
          BY <1>0
        <4>3. f \notin doomed => pg[f] = [b \in Batch |-> j]
          BY <4>1, <4>2
        <4>4. f \notin doomed => {j} \X Batch \subseteq vectors[f]
          BY <4>1
        <4> QED
          BY <4>3, <4>4
      <3>7. Whole(f)'
        BY <1>0, <3>6 DEF Whole
      <3> QED
        BY <1>0, <3>2, <3>4, <3>5, <3>7, DoneMine, WorkKeeps, TypeParts
    <2> QED
      BY <2>2, <2>3
  <1> QED
    BY <1>2, <1>3 DEF Indexed
-----------------------------------------------------------------------------
(* Claims, deletions, a crash: and so every step.                           *)

LEMMA ClaimsKeep ==
    ASSUME IInv, NEW j \in Job, ClaimParse(j) \/ ClaimIndex(j) PROVE IInv'
  <1>1. /\ ParseFrom \in SUBSET (Status \ {"absent", "parsing", "indexing"})
        /\ IndexFrom \in SUBSET (Status \ {"absent", "parsing", "indexing"})
    BY DEF ParseFrom, IndexFrom, Status
  <1>2. CASE ClaimParse(j)
    BY <1>1, <1>2, ClaimKeeps DEF ClaimParse, At
  <1>3. CASE ClaimIndex(j)
    <2>1. CASE row[FileOf(j)].md
      BY <1>1, <1>3, <2>1, ClaimKeeps DEF ClaimIndex, At
    <2>2. CASE ~row[FileOf(j)].md
      BY <1>1, <1>3, <2>2, ClaimKeeps DEF ClaimIndex, At
    <2> QED
      BY <2>1, <2>2
  <1> QED
    BY <1>2, <1>3

LEMMA CancelledKeeps ==
    ASSUME IInv, NEW j \in Job, Cancelled(j) PROVE IInv'
  BY GivesUpKeeps, TypeParts DEF IInv, Cancelled

\* A deletion takes away what is there of a file whose deletion was requested.
LEMMA DeleteStepKeeps ==
    ASSUME IInv, NEW j \in Job, NEW f \in File, f = FileOf(j), job[j].pc \in Deleting,
           NEW pc \in Deleting \cup {"done"}, Go(j, pc),
           row' = row \/ row' = [row EXCEPT ![f] = NoRow],
           pg' = pg \/ pg' = [pg EXCEPT ![f] = NoChunks],
           vectors' = vectors \/ vectors' = [vectors EXCEPT ![f] = {}],
           UNCHANGED <<doomed, stranded>>, faults' \in 0..MaxFaults
    PROVE  IInv'
  <1>0. /\ TypeOK /\ job \in [Job -> JobType] /\ Mine(j) /\ f \in doomed /\ pc \in Pc
        /\ row \in [File -> RowType] /\ stranded' \subseteq File
    BY TypeParts DEF IInv, Mine, Steps, Deleting, Pc
  <1>1. /\ job' \in [Job -> JobType] /\ \A k \in Job \ {j} : job'[k] = job[k]
        /\ job'[j].pc = pc /\ job'[j].file = f
    BY <1>0, GoOK DEF FileOf
  <1>2. RowFits(NoRow) /\ {} \in SUBSET (Job \X Batch) /\ row'[f] \in {row[f], NoRow}
    BY <1>0 DEF NoRow, RowFits, RowType, Status
  <1>3. Confined(j, f)
    BY <1>0, <1>1, <1>2, NoChunksOK, Confine
  <1>4. Permitted(j, f)
    <2>1. \A k \in Job : FileOf(k) = f => ~At(k, "add")
      BY <1>0 DEF IInv, Mine, Fresh
    <2>2. ~Works(j)'
      BY <1>1 DEF Works, Deleting
    <2> QED
      BY <1>0, <1>2, <2>1, <2>2 DEF Permitted
  <1>5. Mine(j)'
    BY <1>0, <1>1 DEF Mine, Claims, Works, Fresh, Steps, Stored, At, FileOf, Before, Deleting
  <1>6. Whole(f)'
    BY <1>0 DEF Whole
  <1> QED
    BY <1>3, <1>4, <1>5, <1>6, StepKeeps

LEMMA DeleteKeeps ==
    ASSUME IInv, NEW j \in Job,
           DeleteChunks(j) \/ DeleteVectors(j) \/ DeleteImages(j) \/ DeleteRow(j)
    PROVE  IInv'
  <1>0. TypeOK /\ Mine(j) /\ job[j].pc \in Deleting
    BY DEF IInv, DeleteChunks, DeleteVectors, DeleteImages, DeleteRow, At, Deleting
  <1>1. FileOf(j) \in File
    BY <1>0 DEF Mine, Steps, Deleting
  <1> SUFFICES ASSUME NEW f \in File, f = FileOf(j) PROVE IInv'
    BY <1>1
  <1>2. faults' \in 0..MaxFaults
    BY <1>0, TypeParts DEF DeleteChunks, DeleteVectors, DeleteImages, DeleteRow, DropVectors
  <1>3. /\ row' = row \/ row' = [row EXCEPT ![f] = NoRow]
        /\ pg' = pg \/ pg' = [pg EXCEPT ![f] = NoChunks]
        /\ vectors' = vectors \/ vectors' = [vectors EXCEPT ![f] = {}]
        /\ UNCHANGED <<doomed, stranded>>
    BY DEF DeleteChunks, DeleteVectors, DeleteImages, DeleteRow, DropVectors
  <1>4. \E pc \in Deleting \cup {"done"} : Go(j, pc)
    BY DEF DeleteChunks, DeleteVectors, DeleteImages, DeleteRow, DropVectors, Done, Deleting
  <1> QED
    BY <1>0, <1>2, <1>3, <1>4, DeleteStepKeeps

LEMMA CrashKeeps ==
    ASSUME IInv, Crash PROVE IInv'
  <1>0. /\ TypeOK /\ job \in [Job -> JobType] /\ stranded \subseteq File
        /\ UNCHANGED <<row, pg, vectors, doomed>> /\ faults' \in 0..MaxFaults
    BY TypeParts DEF IInv, Crash
  <1>1. stranded' \subseteq File
    BY <1>0 DEF Crash
  <1>2. ASSUME NEW k \in Job
        PROVE  /\ job'[k] \in JobType /\ job'[k].file = job[k].file
               /\ \/ job'[k] = job[k] /\ job[k].pc = "unused"
                  \/ job[k].pc # "unused" /\ job'[k].pc = "done"
    <2>1. job'[k] = IF At(k, "unused") THEN job[k] ELSE [job[k] EXCEPT !.pc = "done"]
      BY DEF Crash
    <2>2. CASE At(k, "unused")
      BY <1>0, <2>1, <2>2 DEF At
    <2>3. CASE ~At(k, "unused")
      BY <1>0, <2>1, <2>3 DEF At, JobType, Pc
    <2> QED
      BY <2>2, <2>3
  <1>3. job' \in [Job -> JobType]
    BY <1>2 DEF Crash
  <1>4. TypeOK'
    BY <1>0, <1>1, <1>3 DEF TypeOK, JobType
  <1>5. ASSUME NEW k \in Job PROVE Mine(k)'
    <2>1. Mine(k)
      BY DEF IInv
    <2>2. CASE job'[k] = job[k] /\ job[k].pc = "unused"
      BY <2>1, <2>2 DEF Mine, Claims, Works, Fresh, Steps, Stored, At, FileOf, Before, Deleting
    <2>3. CASE job[k].pc # "unused" /\ job'[k].pc = "done"
      <3>1. job'[k].file \in File
        BY <1>2, <2>1, <2>3 DEF Mine, Steps, FileOf
      <3> QED
        BY <2>3, <3>1, DoneMine
    <2> QED
      BY <1>2, <2>2, <2>3
  <1>6. Alone'
    BY <1>2 DEF Alone, Works
  <1>7. IndexedIsSearchable'
    BY <1>0 DEF IInv, IndexedIsSearchable
  <1> QED
    BY <1>4, <1>5, <1>6, <1>7 DEF IInv

LEMMA StutterKeeps ==
    ASSUME IInv, UNCHANGED vars PROVE IInv'
  <1>1. TypeOK'
    BY DEF IInv, TypeOK, vars
  <1>2. ASSUME NEW j \in Job PROVE Mine(j)'
    BY DEF IInv, Mine, Claims, Works, Fresh, Steps, Stored, Has, At, FileOf, Present, vars
  <1>3. Alone'
    BY DEF IInv, Alone, Works, FileOf, vars
  <1>4. IndexedIsSearchable'
    BY DEF IInv, IndexedIsSearchable, vars
  <1> QED
    BY <1>1, <1>2, <1>3, <1>4 DEF IInv

LEMMA InitKeeps == Init => IInv
  <1> SUFFICES ASSUME Init PROVE IInv
    OBVIOUS
  <1>1. /\ row \in [File -> {NoRow, [st |-> "parsed", md |-> FALSE]}]
        /\ \A j \in Job : job[j] = Unused
        /\ doomed = {} /\ stranded = {} /\ faults = 0
        /\ 1 \in Batch
    BY KnowledgeConstants DEF Init, Batch
  <1>2. \A f \in File : row[f].st \in {"absent", "parsed"}
    BY <1>1 DEF NoRow
  <1>3. TypeOK
    <2>1. row \in [File -> RowType]
      <3>1. NoRow \in RowType /\ [st |-> "parsed", md |-> FALSE] \in RowType
        BY DEF NoRow, RowType, Status
      <3> QED
        BY <1>1, <3>1
    <2>2. /\ \A f \in File : row[f].st \in {"uploaded", "absent"} => ~row[f].md
          /\ \A f \in File : row[f].st \in {"indexed", "error_indexing"} => row[f].md
      BY <1>1 DEF NoRow
    <2>3. pg \in [File -> [Batch -> Job \cup {NoJob}]]
      BY NoChunksOK DEF Init
    <2>4. vectors \in [File -> SUBSET (Job \X Batch)]
      BY DEF Init
    <2>5. Unused \in JobType
      BY <1>1 DEF Unused, JobType, Pc, Outcome
    <2>6. job \in [Job -> JobType]
      BY <2>5 DEF Init
    <2>7. faults \in 0..MaxFaults
      BY <1>1, KnowledgeConstants
    <2> QED
      BY <1>1, <2>1, <2>2, <2>3, <2>4, <2>6, <2>7 DEF TypeOK, JobType, RowType
  <1>4. \A j \in Job : Mine(j)
    BY <1>1 DEF Mine, Claims, Works, Fresh, Steps, Stored, At, FileOf, Before, Deleting, Unused
  <1>5. Alone
    BY <1>1 DEF Alone, Works, Unused
  <1>6. IndexedIsSearchable
    BY <1>2 DEF IndexedIsSearchable
  <1> QED
    BY <1>3, <1>4, <1>5, <1>6 DEF IInv

LEMMA NextKeeps == IInv /\ [Next]_vars => IInv'
  <1> SUFFICES ASSUME IInv, [Next]_vars PROVE IInv'
    OBVIOUS
  <1>1. ASSUME NEW j \in Job, NEW f \in File,
               \/ Ingest(j, f) \/ ParseDocument(j, f) \/ IndexDocument(j, f)
               \/ DeleteDocument(j, f)
        PROVE  IInv'
    BY <1>1, RequestKeeps
  <1>2. ASSUME NEW j \in Job, Cancelled(j) \/ Interrupted(j) PROVE IInv'
    BY <1>2, CancelledKeeps, InterruptedKeeps
  <1>3. ASSUME NEW j \in Job, Work(j) PROVE IInv'
    BY <1>3, AddKeeps, ClaimsKeep, ParseKeeps, FailedKeeps, UnparseKeeps, ClearKeeps,
       StoreKeeps, BatchDoneKeeps, RollbackKeeps, IndexedKeeps, DeleteKeeps DEF Work
  <1> QED
    BY <1>1, <1>2, <1>3, CrashKeeps, StutterKeeps DEF Next

LEMMA Invariance == Spec => []IInv
  BY InitKeeps, NextKeeps, PTL DEF Spec
-----------------------------------------------------------------------------
(* The theorems.                                                            *)

\* Rows, chunks, vectors and jobs keep their types; a row whose file was never
\* parsed has no Markdown, and a row that was ever indexed has it.
THEOREM KnowledgeTypes == Spec => []TypeOK
  <1>1. IInv => TypeOK
    BY DEF IInv
  <1> QED
    BY <1>1, Invariance, PTL

\* However requests, tasks, failures and crashes interleave, the conditional
\* UPDATE lets one task at a time parse or index a file.
THEOREM KnowledgeOneWriter == Spec => []OneWriter
  <1>1. ASSUME IInv, NEW f \in File PROVE Cardinality(Worker(f)) <= 1
    <2>1. CASE Worker(f) = {}
      BY <2>1, FS_EmptySet
    <2>2. CASE Worker(f) # {}
      <3>1. PICK j \in Job : Works(j) /\ FileOf(j) = f
        BY <2>2 DEF Worker
      <3>2. Worker(f) = {j}
        BY <1>1, <3>1 DEF Worker, IInv, Alone
      <3> QED
        BY <3>2, FS_Singleton
    <2> QED
      BY <2>1, <2>2
  <1>2. ASSUME IInv, NEW f \in File, Worker(f) # {}, Present(f)
        PROVE  row[f].st \in {"parsing", "indexing"}
    <2>1. PICK j \in Job : Works(j) /\ FileOf(j) = f
      BY <1>2 DEF Worker
    <2> QED
      BY <1>2, <2>1 DEF IInv, Mine, Claims
  <1>3. IInv => OneWriter
    BY <1>1, <1>2 DEF OneWriter
  <1> QED
    BY <1>3, Invariance, PTL

\* A file that reads as indexed has every batch of one index run in both stores,
\* although the stores share no transaction with the row.
THEOREM KnowledgeSearchable == Spec => []IndexedIsSearchable
  <1>1. IInv => IndexedIsSearchable
    BY DEF IInv
  <1> QED
    BY <1>1, Invariance, PTL

\* No step of a task that is still running brings back a row that was deleted.
THEOREM KnowledgeDeleted == Spec => DeletedStaysDeleted
  <1>1. ASSUME IInv, Next, NEW f \in File, f \in doomed, ~Present(f) PROVE row'[f] = NoRow
    <2>0. /\ row[f] = NoRow /\ row \in [File -> RowType]
      BY <1>1, TypeParts DEF Present, IInv
    <2>1. ASSUME NEW j \in Job, NEW g \in File,
                 \/ Ingest(j, g) \/ ParseDocument(j, g) \/ IndexDocument(j, g)
                 \/ DeleteDocument(j, g)
          PROVE  row'[f] = NoRow
      BY <2>0, <2>1 DEF Ingest, ParseDocument, IndexDocument, DeleteDocument, Submit
    <2>2. ASSUME NEW j \in Job, Add(j) PROVE row'[f] = NoRow
      <3>1. FileOf(j) \notin doomed
        BY <1>1, <2>2 DEF IInv, Mine, Fresh, Add
      <3> QED
        BY <1>1, <2>0, <2>2, <3>1 DEF Add
    <2>3. ASSUME NEW j \in Job, ClaimParse(j) \/ ClaimIndex(j) PROVE row'[f] = NoRow
      <3>1. row[FileOf(j)].st \in ParseFrom \cup IndexFrom => FileOf(j) # f
        BY <2>0 DEF NoRow, ParseFrom, IndexFrom
      <3> QED
        BY <2>0, <2>3, <3>1 DEF ClaimParse, ClaimIndex, Claim
    <2>4. ASSUME NEW j \in Job, NEW v, SetRow(FileOf(j), v) PROVE row'[f] = NoRow
      BY <1>1, <2>0, <2>4 DEF SetRow
    <2>5. ASSUME NEW j \in Job, NEW st, SetStatus(FileOf(j), st) PROVE row'[f] = NoRow
      BY <1>1, <2>0, <2>5 DEF SetStatus
    <2>6. ASSUME NEW j \in Job, DeleteRow(j) PROVE row'[f] = NoRow
      BY <2>0, <2>6 DEF DeleteRow
    <2>7. ASSUME NEW j \in Job,
                 \/ ParseFile(j) \/ ParseFailed(j) \/ Unparse(j) \/ Indexed(j) \/ IndexFailed(j)
          PROVE  row'[f] = NoRow
      BY <2>0, <2>4, <2>5, <2>7 DEF ParseFile, ParseFailed, Unparse, Indexed, IndexFailed, Failed
    <2>8. ASSUME NEW j \in Job,
                 \/ ClearChunks(j) \/ ClearVectors(j) \/ StoreChunks(j) \/ StoreVectors(j)
                 \/ BatchDone(j) \/ RollbackChunks(j) \/ RollbackVectors(j)
                 \/ DeleteChunks(j) \/ DeleteVectors(j) \/ DeleteImages(j)
                 \/ Cancelled(j) \/ Interrupted(j)
          PROVE  row'[f] = NoRow
      BY <2>0, <2>8 DEF ClearChunks, ClearVectors, StoreChunks, StoreVectors, BatchDone,
         RollbackChunks, RollbackVectors, DeleteChunks, DeleteVectors, DeleteImages,
         DropVectors, Cancelled, Interrupted
    <2>9. CASE Crash
      BY <2>0, <2>9 DEF Crash
    <2> QED
      BY <1>1, <2>1, <2>2, <2>3, <2>6, <2>7, <2>8, <2>9 DEF Next, Work
  <1>2. IInv /\ [Next]_vars => [\A f \in File : f \in doomed /\ ~Present(f) => row'[f] = NoRow]_vars
    BY <1>1
  <1> QED
    BY <1>2, Invariance, PTL DEF Spec, DeletedStaysDeleted
=============================================================================
