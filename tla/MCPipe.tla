------------------------------- MODULE MCPipe -------------------------------
(* The parts of the pipe's behaviour each run looks at.                    *)
EXTENDS Pipe, TLC

(* No dup and no pipeisclosed: what they do to the counts is looked at by  *)
(* the run on descriptors.                                                 *)
Waiters == \A e \in Env : reg[e].op \notin {"dup", "check"}

(* fork does not touch the buffer: it is called before anything is written. *)
(* One that runs out of memory loses one of the pipe's pages, and all that *)
(* follows is a read, which faults.                                        *)
Lost == {<<e, s>> \in Env \X Slot : reg[e].op # "close" /\ data[e][s] # (fd[e][s] # "none")}
ForksFirst ==
    /\ \A e \in Env : reg[e].op = "fork" => wpos = 0
    /\ \A e \in Env : pc[e] = "fork_data" => fd[reg[e].arg] = fd[e]
    /\ Lost # {} /\ ~ ForkPending =>
        Cardinality(Lost) = 1 /\ \A e \in Env : reg[e].op \in {"none", "read"}

(* Two environments at a time are inside the library, one of them looking  *)
(* at the counts, which changes nothing.                                   *)
TwoBusy ==
    /\ Cardinality({e \in Env : pc[e] # "user"}) <= 2
    /\ Cardinality({e \in Env : reg[e].op = "check"}) <= 1

(* Two descriptors for reading and two for writing are enough to have one  *)
(* of each left, or none, after any operation.                             *)
FewOpen == Cardinality(Mapped("rd") \cup Mapped("wr")) <= 4

Symmetry == Permutations(Env)
=============================================================================
