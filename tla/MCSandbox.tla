------------------------------ MODULE MCSandbox ------------------------------
(* Two processes with one thread each; the API may shut down.               *)
EXTENDS Sandbox
CONSTANTS api, worker, viewer, agent
MCProcess == {api, worker}
MCClient == {viewer, agent}
MCHome == [t \in MCClient |-> IF t = viewer THEN api ELSE worker]
================================================================================
