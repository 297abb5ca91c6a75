------------------------------ MODULE Admission ------------------------------
(***************************************************************************)
(* What the server promises its clients, with no descriptor, mutex, log or *)
(* signal in sight: clients wait in a queue, are served in the order in    *)
(* which they came while there is room, are refused only when there is no  *)
(* room left, and otherwise stay until the server shuts down.  Only one    *)
(* that has gone away may drop out of the queue.                           *)
(***************************************************************************)
EXTENDS Naturals, Sequences

CONSTANTS Clients, Limit

VARIABLES
    phase,    \* "down", "up" or "closed"
    waiting,  \* the clients that wait to be served, in order of arrival
    served,   \* the clients that are served, in order of admission
    gone      \* the clients that have gone away

vars == <<phase, waiting, served, gone>>

Init == phase = "down" /\ waiting = <<>> /\ served = <<>> /\ gone = {}

Open == phase = "down" /\ phase' = "up" /\ UNCHANGED <<waiting, served, gone>>

Arrive(c) ==
    /\ phase = "up"
    /\ waiting' = Append(waiting, c)
    /\ UNCHANGED <<phase, served, gone>>

GoAway(c) == gone' = gone \cup {c} /\ UNCHANGED <<phase, waiting, served>>

Admit ==
    /\ phase = "up" /\ waiting # <<>>
    /\ Len(served) < Limit
    /\ served' = Append(served, Head(waiting))
    /\ waiting' = Tail(waiting)
    /\ UNCHANGED <<phase, gone>>

Refuse ==
    /\ phase = "up" /\ waiting # <<>>
    /\ Len(served) = Limit
    /\ waiting' = Tail(waiting)
    /\ UNCHANGED <<phase, served, gone>>

DropOut ==
    /\ phase = "up" /\ waiting # <<>>
    /\ Head(waiting) \in gone
    /\ waiting' = Tail(waiting)
    /\ UNCHANGED <<phase, served, gone>>

\* The shutdown has two steps: nobody waits any more, nobody is served.
Shut ==
    /\ phase # "closed"
    /\ phase' = "closed"
    /\ waiting' = <<>>
    /\ UNCHANGED <<served, gone>>

Clear ==
    /\ phase = "closed"
    /\ served' = <<>>
    /\ UNCHANGED <<phase, waiting, gone>>

Next ==
    \/ Open \/ (\E c \in Clients : Arrive(c) \/ GoAway(c))
    \/ Admit \/ Refuse \/ DropOut \/ Shut \/ Clear

Spec == Init /\ [][Next]_vars
=============================================================================
