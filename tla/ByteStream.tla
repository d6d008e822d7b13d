----------------------------- MODULE ByteStream -----------------------------
(***************************************************************************)
(* A bounded queue of bytes, each named by its place in the stream.        *)
(***************************************************************************)
EXTENDS Integers, Sequences

CONSTANTS Capacity, Modulus

VARIABLES
    queue,     \* the bytes written and not yet read
    place       \* the place of the next byte to be written

bsVars == <<queue, place>>

Init == queue = <<>> /\ place = 0

Put ==
    /\ Len(queue) < Capacity
    /\ queue' = Append(queue, place)
    /\ place' = (place + 1) % Modulus

Get ==
    /\ queue # <<>>
    /\ queue' = Tail(queue)
    /\ UNCHANGED place

(* A new pipe, when nobody has the old one any more.                       *)
Fresh == queue' = <<>> /\ place' = 0

Next == Put \/ Get \/ Fresh

Spec == Init /\ [][Next]_bsVars
=============================================================================
