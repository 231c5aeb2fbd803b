--------------------------- MODULE MCRunWorker ---------------------------
(* TLC instance of RunWorker: one top-level run and one subagent. *)
EXTENDS RunWorker
=============================================================================
