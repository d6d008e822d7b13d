----------------------------- MODULE Rendezvous -----------------------------
(***************************************************************************)
(* What the IPC system calls promise, in terms of environments that are    *)
(* never reused, whatever slot each lives in: an environment that waits is *)
(* woken by one message, and remembers who sent it.                        *)
(***************************************************************************)
CONSTANT Id

VARIABLES
    alive,     \* the ids in use
    waiting,   \* those blocked in a receive
    from       \* <<id, sender>>: what the last receive of id brought

rvVars == <<alive, waiting, from>>

Init == alive = {} /\ waiting = {} /\ from = {}

Of(id) == {m \in from : m[1] = id}

(* A new environment waits for nothing.  Until its first receive what it   *)
(* finds as its last sender means nothing.                                 *)
Create(id) ==
    /\ id \notin alive
    /\ alive' = alive \cup {id}
    /\ \E x \in Id : from' = from \cup {<<id, x>>}
    /\ UNCHANGED waiting

Recv(id) ==
    /\ id \in alive \ waiting
    /\ waiting' = waiting \cup {id}
    /\ from' = from \ Of(id)
    /\ UNCHANGED alive

Send(src, id) ==
    /\ src \in alive /\ id \in waiting
    /\ waiting' = waiting \ {id}
    /\ from' = from \cup {<<id, src>>}
    /\ UNCHANGED alive

End(id) ==
    /\ id \in alive
    /\ alive' = alive \ {id}
    /\ waiting' = waiting \ {id}
    /\ from' = from \ Of(id)

Next ==
    \/ \E id \in Id \ alive : Create(id)
    \/ \E id \in alive : Recv(id) \/ End(id)
    \/ \E id \in waiting, src \in alive : Send(src, id)

Spec == Init /\ [][Next]_rvVars
=============================================================================
