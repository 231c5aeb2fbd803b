----------------------------- MODULE ThreadTurns -----------------------------
(***************************************************************************)
(* What the request queue of a conversation thread promises: requests take  *)
(* turns.  They take the turn in the order they arrived, one of them at a   *)
(* time may be let to the front (a steer), one holds the turn until its     *)
(* answer is over, and a request may leave while it waits.                  *)
(***************************************************************************)
EXTENDS Integers, Sequences

CONSTANTS Req, NoReq

VARIABLES
    arrived,  \* requests in the order they arrived
    waiting,  \* those that wait for the turn
    steering, \* the waiting request that was let to the front, or NoReq
    turn      \* the request being answered, or NoReq

turnVars == <<arrived, waiting, steering, turn>>

TurnInit ==
    /\ arrived = <<>> /\ waiting = {} /\ steering = NoReq /\ turn = NoReq

Before(p, q, o) == \E i, j \in DOMAIN o : i < j /\ o[i] = p /\ o[j] = q

\* Of the requests w that arrived in the order o, q is the next to take the turn
\* when s is let to the front.
First(q, w, s, o) ==
    IF s = NoReq THEN q \in w /\ \A p \in w \ {q} : Before(q, p, o) ELSE q = s

\* The requests w wait, with s let to the front; then, if the turn is free, the
\* first of them may take it in the same step.
Settle(w, s) ==
    \/ waiting' = w /\ steering' = s /\ UNCHANGED turn
    \/ /\ turn = NoReq
       /\ \E q \in w :
            /\ First(q, w, s, arrived')
            /\ turn' = q /\ waiting' = w \ {q} /\ steering' = NoReq

Arrive(q) ==
    /\ \A i \in DOMAIN arrived : arrived[i] # q
    /\ arrived' = Append(arrived, q)
    /\ \/ Settle(waiting \cup {q}, steering)
       \/ steering = NoReq /\ Settle(waiting \cup {q}, q)
       \/ UNCHANGED <<waiting, steering, turn>>      \* turned away

LetToFront(q) ==
    /\ steering = NoReq /\ q \in waiting
    /\ steering' = q
    /\ UNCHANGED <<arrived, waiting, turn>>

Leave(q) ==
    /\ q \in waiting
    /\ waiting' = waiting \ {q}
    /\ steering' = IF steering = q THEN NoReq ELSE steering
    /\ UNCHANGED <<arrived, turn>>

TakeTurn == UNCHANGED arrived /\ Settle(waiting, steering)

EndTurn == turn # NoReq /\ turn' = NoReq /\ UNCHANGED <<arrived, waiting, steering>>

TurnNext ==
    \/ \E q \in Req : Arrive(q) \/ LetToFront(q) \/ Leave(q)
    \/ TakeTurn
    \/ EndTurn

TurnSpec == TurnInit /\ [][TurnNext]_turnVars
=============================================================================
