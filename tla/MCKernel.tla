------------------------------ MODULE MCKernel ------------------------------
(* Three slots, one of them the idle environment's, and one user page.     *)
EXTENDS Kernel, TLC

CONSTANT d1

MCEnv == 0 .. NENV - 1
MCPDX == [va \in VA |-> d1]

(* Handlers and panics have runs of their own.                             *)
NoTraps == halt = "no" /\ \A e \in Env : ~ handler[e]

(* At most three environments are ever made.                               *)
ThreeLives == next_env_id <= 3

(* No program frees an environment with sys_set_env_status.                *)
NoStray == \A e \in Env : Live(e) => status[e] # "ENV_FREE"

(* No message is delivered; sys_set_env_status still wakes receivers.      *)
NoSends == \A e \in Env : ipc_from[e] = NoId

Symmetry == Permutations(Page \ {ZeroPage})
=============================================================================
