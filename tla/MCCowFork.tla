------------------------------ MODULE MCCowFork ------------------------------
EXTENDS CowFork, TLC

CONSTANTS e1, e2, e3, f1, f2, f3, f4, f5, f6, stk, tmp, txt, dat, bss, lib

MCBoot == [v \in VPage |-> IF v = stk THEN "w" ELSE IF v = lib THEN "lib" ELSE "none"]
Sym == Permutations(Env) \cup Permutations(Frame)
==============================================================================
