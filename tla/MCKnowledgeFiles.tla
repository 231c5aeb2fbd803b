--------------------------- MODULE MCKnowledgeFiles ---------------------------
(* TLC instance of KnowledgeFiles: one file and the jobs that meet on it. *)
EXTENDS KnowledgeFiles
================================================================================
