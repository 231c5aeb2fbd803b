--------------------------- MODULE MCRequestQueue ---------------------------
(* TLC instance of RequestQueue: the requests are interchangeable. *)
EXTENDS RequestQueue, TLC

Symmetry == Permutations(Req)
=============================================================================
