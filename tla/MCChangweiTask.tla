---------------------------- MODULE MCChangweiTask ----------------------------
(* TLC instance of ChangweiTask: the owner and one member, two modules that *)
(* may be swapped.                                                          *)
EXTENDS ChangweiTask, TLC
CONSTANTS ma, mb
MCModules == {ma, mb}
Swap == Permutations(MCModules)
================================================================================
