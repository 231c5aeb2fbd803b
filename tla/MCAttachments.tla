--------------------------- MODULE MCAttachments ---------------------------
(* Attachments with constants that are interchangeable for TLC.            *)
EXTENDS Attachments, TLC
Swap == Permutations(File) \cup Permutations(Req) \cup Permutations(Call)
=============================================================================
