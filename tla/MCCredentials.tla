--------------------------- MODULE MCCredentials ---------------------------
(* Credentials as TLC checks it; the constants' values are in the cfg.     *)
EXTENDS Credentials
=============================================================================
