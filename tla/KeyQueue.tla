----------------------------- MODULE KeyQueue -----------------------------
(* What the console promises to the programs that read it: the keys come   *)
(* out once each and in the order they were typed. The queue is a ring     *)
(* without a test for full, so the key that fills it makes all the unread  *)
(* keys vanish at once; no other loss is allowed.                          *)
EXTENDS Naturals, Sequences

CONSTANTS Size, Char

VARIABLES queue,  \* keys typed and not yet read
          last,   \* the last key typed
          key     \* the last key a program read

Init == queue = <<>> /\ last = "NO" /\ key = "NO"

Type(c) ==
    /\ last' = c
    /\ queue' = IF Len(queue) + 1 = Size THEN <<>> ELSE Append(queue, c)
    /\ UNCHANGED key

Take ==
    /\ queue # <<>>
    /\ key' = Head(queue) /\ queue' = Tail(queue)
    /\ UNCHANGED last

Next == Take \/ \E c \in Char : Type(c)

Spec == Init /\ [][Next]_<<queue, last, key>>
=============================================================================
