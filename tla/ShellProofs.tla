---------------------------- MODULE ShellProofs ----------------------------
(***************************************************************************)
(* Proofs about Shell, for any number of environments, descriptors and     *)
(* pipes, and any lines that do not write behind argv.                     *)
(*                                                                         *)
(* Two invariants carry them.  ShellInv: where an environment is in its    *)
(* program says which ends of a pipe it may have, that its input and       *)
(* output are open until it closes everything, and which words of its line *)
(* have been cut off.  PromptInv, for the prompt: every environment at work*)
(* on a complete line is waited for, by one that was there before it or by *)
(* the shell.                                                              *)
(***************************************************************************)
EXTENDS Shell, FiniteSetTheorems, NaturalsInduction, SequenceTheorems, WellFoundedInduction, TLAPS

----------------------------------------------------------------------------
(* The inductive invariant.                                                *)
(***************************************************************************)
Programming == {"start", "read", "write"}
Prompting == {"readline", "fork"}
Waiting == {"wait", "wait_status"}
Redirecting == {"in_dup", "out_dup", "moved"}
Parsing == {"token", "in", "out", "again", "pipe"} \cup Redirecting
Forking == {"pipe_fork", "right_dup", "left_dup"}
Righting == {"right_r", "right_w"}
Lefting == {"left_r", "left_w"}
Piping == Forking \cup Righting \cup Lefting
Running == {"runit", "spawn", "spawn_env"}
Place == Programming \cup Prompting \cup Waiting \cup Parsing \cup Piping \cup Running
         \cup {"close_all", "exit", "start_sh"}

Token == {"0", "w"} \cup SYMBOLS
EnvRef == [slot : Env, id : Nat]
JobType == [prog : {"init", "sh", "run"} \cup Programs, at : Place, s : Seq(STRING), nul : SUBSET Nat,
            c : Token, t : Nat, nc : Token, np1 : Nat, np2 : Nat, argv : Seq(Nat), fd : Fd,
            p : Fd \X Fd, child : EnvRef, rightpipe : EnvRef, n : Int]

(* The free list has every free slot once; who is blocked has a request.   *)
SlotsOK ==
    /\ id \in [Env -> Nat] /\ st \in [Env -> {"free", "blocked", "runnable"}] /\ list \in Seq(Env)
    /\ \A k, l \in 1 .. Len(list) : list[k] = list[l] => k = l
    /\ \A e \in Env : st[e] = "free" <=> \E k \in 1 .. Len(list) : list[k] = e

JobsOK ==
    /\ job \in [Env -> JobType \cup {NoJob}]
    /\ \A e \in Env : st[e] = "free" => job[e] = NoJob
    /\ \A e \in Env : st[e] # "free" => job[e] \in JobType
    /\ \A e \in Env : st[e] = "blocked" => job[e].at \in {"in", "out", "again", "spawn"} /\ \E i \in Fd : fd[e][i] = 0

(* Which program is where.                                                 *)
ProgOK(j) ==
    /\ j.prog \in Programs <=> j.prog \notin {"init", "sh", "run"}
    /\ j.prog \in Programs => j.at \in Programming \cup {"exit"}
    /\ j.at \in Programming => j.prog \in Programs
    /\ j.at \in Prompting => j.prog = "sh"
    /\ j.at = "start_sh" => j.prog = "init"
    /\ j.at \in Parsing \cup Piping \cup Running \cup {"close_all"} => j.prog = "run"

ObjType == [dev : {"none", "cons", "pipe", "file"}, mode : {"rw", "r", "w"}, pipe : PipeNo \cup {0}, offset : {0, 1}]
FdType == [Env -> [Fd -> Obj \cup {0}]]

(* A descriptor that is open is a page that is there.                      *)
FdsOK ==
    /\ fd \in FdType /\ obj \in [Obj -> ObjType] /\ unread \in [PipeNo -> 0 .. BY2PIPE]
    /\ \A k \in Obj : obj[k].dev = "pipe" => obj[k].pipe \in PipeNo
    /\ \A e \in Env : \A i \in Fd : fd[e][i] # 0 => obj[fd[e][i]].dev # "none"

(* Where an environment may have an end of a pipe.                         *)
MayHave(j, i, m) ==
    \/ i = 0 /\ m = "r" /\ j.prog \notin {"init", "sh"}
    \/ i = 1 /\ m = "w" /\ (j.prog \in Programs \/ j.at \in Running \cup Lefting)
    \/ i = j.p[1] /\ m = "r" /\ j.at \in Forking \cup {"right_r", "left_r"}
    \/ i = j.p[2] /\ m = "w" /\ j.at \in Forking \cup {"right_r", "right_w", "left_r", "left_w"}

(* In the descriptors f, with the pages o.                                 *)
Piped(f, o, i) == f[i] # 0 /\ o[f[i]].dev = "pipe"

EndsOK(j, f, o) ==
    j.at # "close_all" /\ (j.at = "exit" => j.prog \in Programs) =>
        \A i \in Fd : Piped(f, o, i) => MayHave(j, i, o[f[i]].mode)

(* Who waits for a command has nothing open.                               *)
ClosedOK(j, f) == j.prog = "run" /\ j.at \in Waiting => \A i \in Fd : f[i] = 0

(* Input and output are there until then, so that no other descriptor      *)
(* takes their place.                                                      *)
StdioOK(j, f) ==
    j.at \in Parsing \cup Piping \cup Prompting \cup {"start_sh"} \/ (j.prog \in {"init", "sh"} /\ j.at \in Waiting) =>
        f[0] # 0 /\ f[1] # 0

RedirectOK(j, f, o) ==
    /\ j.at \in Redirecting => j.fd \notin {0, 1}
    /\ j.at \in {"in_dup", "out_dup"} => f[j.fd] # 0 /\ o[f[j.fd]].dev = "file"

PipeOK(j, f, o) ==
    /\ j.at \in Piping => j.p[1] \notin {0, 1} /\ j.p[2] \notin {0, 1} /\ j.p[1] # j.p[2]
    /\ j.at \in Forking => /\ Piped(f, o, j.p[1]) /\ o[f[j.p[1]]].mode = "r"
                           /\ Piped(f, o, j.p[2]) /\ o[f[j.p[2]]].mode = "w"

Placed(j, f, o) == EndsOK(j, f, o) /\ ClosedOK(j, f) /\ StdioOK(j, f) /\ RedirectOK(j, f, o) /\ PipeOK(j, f, o)

(* The characters of a word, and what comes after one.                     *)
Special == {"NUL"} \cup WHITESPACE \cup SYMBOLS

Word(j, a, z) ==
    /\ a \in 1 .. Len(j.s) /\ z \in 2 .. Len(j.s) + 1 /\ a < z
    /\ \A k \in 1 .. Len(j.s) : a <= k /\ k < z => Char(j, k) \notin Special

(* A word that has been cut off, before the place the tokenizer is at.     *)
Cut(j, a) == \E z \in 2 .. Len(j.s) + 1 : Word(j, a, z) /\ Char(j, z) = "NUL" /\ (j.np2 = 0 \/ z <= j.np2)

LineOK(j) ==
    /\ j.np2 \in 0 .. Len(j.s) + 1
    /\ \A k \in 1 .. Len(j.argv) : Cut(j, j.argv[k])
    /\ j.c = "w" => Cut(j, j.t)
    /\ j.nc = "w" => j.np2 # 0 /\ Word(j, j.np1, j.np2) /\ Char(j, j.np2) \in Special

WordsOK(j) ==
    /\ LineOK(j)
    /\ j.prog = "sh" => j.c = "0" /\ j.nc = "0" /\ j.np2 = 0 /\ j.argv = <<>>
    /\ j.at \in {"in", "out", "again"} => j.c = "w"
    /\ j.at \in {"spawn", "spawn_env"} => j.argv # <<>>

EnvOK(j, f, o) == ProgOK(j) /\ Placed(j, f, o) /\ WordsOK(j)

ShellInv == SlotsOK /\ JobsOK /\ FdsOK /\ \A e \in Env : st[e] # "free" => EnvOK(job[e], fd[e], obj)

----------------------------------------------------------------------------
(* Jobs.                                                                   *)
(***************************************************************************)
(* The strings that stand for other things than characters are not any.    *)
LEMMA Tokens ==
    /\ "NUL" \notin WHITESPACE \cup SYMBOLS
    /\ "w" \notin SYMBOLS /\ "0" \notin SYMBOLS /\ "w" # "0"
    /\ "0" \in Token /\ "w" \in Token
<1>1. "NUL" \notin WHITESPACE \cup SYMBOLS
  BY DEF WHITESPACE, SYMBOLS
<1>2. "w" \notin SYMBOLS /\ "0" \notin SYMBOLS /\ "w" # "0"
  BY DEF SYMBOLS
<1>3. "0" \in Token /\ "w" \in Token
  BY DEF Token
<1> QED BY <1>1, <1>2, <1>3

(* A job that goes on elsewhere.                                           *)
LEMMA GoIs ==
    ASSUME NEW j \in JobType, NEW at \in Place
    PROVE  LET k == [j EXCEPT !.at = at]
           IN  /\ k \in JobType /\ k.at = at /\ k.prog = j.prog /\ k.s = j.s /\ k.nul = j.nul
               /\ k.c = j.c /\ k.t = j.t /\ k.nc = j.nc /\ k.np1 = j.np1 /\ k.np2 = j.np2
               /\ k.argv = j.argv /\ k.fd = j.fd /\ k.p = j.p /\ k.child = j.child
               /\ k.rightpipe = j.rightpipe /\ k.n = j.n
BY DEF JobType

(* NoJob is nobody's.                                                      *)
LEMMA NoJobIs == NoJob \notin JobType
<1>1. NoJob.at = "none"
  BY DEF NoJob
<1>2. "none" \notin Place
  BY DEF Place, Programming, Prompting, Waiting, Parsing, Redirecting, Piping, Forking, Righting, Lefting, Running
<1>3. \A j \in JobType : j.at \in Place
  BY DEF JobType
<1> QED BY <1>1, <1>2, <1>3

(* The words of a line do not depend on where the job is.                  *)
LEMMA LineKept ==
    ASSUME NEW j, NEW k, LineOK(j), k.s = j.s, k.nul = j.nul, k.np1 = j.np1, k.np2 = j.np2,
           k.c = j.c, k.nc = j.nc, k.t = j.t, k.argv = j.argv
    PROVE  LineOK(k)
<1>1. \A x : Char(k, x) = Char(j, x)
  BY DEF Char
<1>2. \A a, z : Word(k, a, z) <=> Word(j, a, z)
  BY <1>1 DEF Word
<1>3. \A a : Cut(k, a) <=> Cut(j, a)
  BY <1>1, <1>2 DEF Cut
<1> QED BY <1>1, <1>2, <1>3 DEF LineOK

(* What is said of descriptors asks only what the pages that are open are. *)
LEMMA PlacedSame ==
    ASSUME NEW j \in JobType, NEW f, NEW o, NEW q, Placed(j, f, o),
           \A i \in Fd : f[i] # 0 => q[f[i]].dev = o[f[i]].dev /\ q[f[i]].mode = o[f[i]].mode
    PROVE  Placed(j, f, q)
<1>0. j.fd \in Fd /\ j.p[1] \in Fd /\ j.p[2] \in Fd
  BY DEF JobType
<1>1. \A i \in Fd : f[i] # 0 => q[f[i]].dev = o[f[i]].dev /\ q[f[i]].mode = o[f[i]].mode
  OBVIOUS
<1>2. \A i \in Fd : Piped(f, q, i) <=> Piped(f, o, i)
  BY <1>1 DEF Piped
<1>3. \A i \in Fd : Piped(f, q, i) => q[f[i]].mode = o[f[i]].mode
  BY <1>1 DEF Piped
<1>4. EndsOK(j, f, o) => EndsOK(j, f, q)
  BY <1>2, <1>3 DEF EndsOK
<1>5. RedirectOK(j, f, o) => RedirectOK(j, f, q)
  BY <1>0, <1>1 DEF RedirectOK
<1>6. PipeOK(j, f, o) => PipeOK(j, f, q)
  BY <1>0, <1>2, <1>3 DEF PipeOK
<1> QED BY <1>4, <1>5, <1>6 DEF Placed

(* What keeps the descriptors in order: pages that are there.              *)
LEMMA DescriptorsOK ==
    ASSUME FdsOK, NEW f \in FdType, NEW o \in [Obj -> ObjType],
           \A k \in Obj : o[k].dev = "pipe" => o[k].pipe \in PipeNo,
           \A d \in Env : \A i \in Fd : f[d][i] # 0 => o[f[d][i]].dev # "none",
           Descriptors(f, o)
    PROVE  FdsOK' /\ fd' = f /\ \A d \in Env : \A i \in Fd : f[d][i] # 0 => obj'[f[d][i]] = o[f[d][i]]
<1>1. NoObj \in ObjType /\ NoObj.dev # "pipe"
  BY DEF NoObj, ObjType
<1>2. fd' = f /\ \A k \in Obj : obj'[k] = o[k] \/ obj'[k] = NoObj
  BY DEF Descriptors
<1>3. \A d \in Env : \A i \in Fd : f[d][i] # 0 => f[d][i] \in Obj /\ obj'[f[d][i]] = o[f[d][i]]
  <2> SUFFICES ASSUME NEW d \in Env, NEW i \in Fd, f[d][i] # 0
               PROVE  f[d][i] \in Obj /\ obj'[f[d][i]] = o[f[d][i]]
    OBVIOUS
  <2>1. f[d][i] \in Obj
    BY DEF FdType
  <2>2. \E a \in Env, b \in Fd : fd'[a][b] = f[d][i]
    BY <1>2
  <2> QED BY <2>1, <2>2 DEF Descriptors
<1>4. obj' \in [Obj -> ObjType]
  BY <1>1, <1>2 DEF Descriptors
<1>5. unread' \in [PipeNo -> 0 .. BY2PIPE]
  <2>1. 0 \in 0 .. BY2PIPE
    BY ShellAssumption
  <2>2. unread \in [PipeNo -> 0 .. BY2PIPE]
    BY DEF FdsOK
  <2> QED BY <2>1, <2>2 DEF Descriptors
<1>6. \A k \in Obj : obj'[k].dev = "pipe" => obj'[k].pipe \in PipeNo
  BY <1>1, <1>2
<1>7. \A d \in Env : \A i \in Fd : fd'[d][i] # 0 => obj'[fd'[d][i]].dev # "none"
  BY <1>2, <1>3
<1> QED BY <1>2, <1>3, <1>4, <1>5, <1>6, <1>7 DEF FdsOK

(* A step that leaves the descriptors alone keeps them in order.           *)
LEMMA UnchangedOK == FdsOK /\ Unchanged => FdsOK'
BY DEF FdsOK, Unchanged

(* A step of the environment e, which stays and goes on as k; the others   *)
(* do not notice.                                                          *)
LEMMA OneMoves ==
    ASSUME ShellInv, NEW e \in Env, st[e] # "free", NEW k \in JobType, job' = [job EXCEPT ![e] = k],
           id' = id, list' = list,
           NEW x \in {"blocked", "runnable"}, st' = [st EXCEPT ![e] = x],
           x = "blocked" => k.at \in {"in", "out", "again", "spawn"} /\ \E i \in Fd : fd'[e][i] = 0,
           FdsOK', \A d \in Env : d # e => fd'[d] = fd[d],
           \A d \in Env : d # e => \A i \in Fd : fd[d][i] # 0 =>
               obj'[fd[d][i]].dev = obj[fd[d][i]].dev /\ obj'[fd[d][i]].mode = obj[fd[d][i]].mode,
           NEW f, f = fd'[e], EnvOK(k, f, obj')
    PROVE  ShellInv'
<1>1. SlotsOK'
  BY DEF ShellInv, SlotsOK
<1>2. /\ \A d \in Env : st'[d] = (IF d = e THEN x ELSE st[d]) /\ job'[d] = (IF d = e THEN k ELSE job[d])
      /\ job' \in [Env -> JobType \cup {NoJob}]
  BY DEF ShellInv, SlotsOK, JobsOK
<1>3. JobsOK'
  BY <1>2 DEF ShellInv, JobsOK
<1>4. ASSUME NEW d \in Env, st'[d] # "free" PROVE EnvOK(job'[d], fd'[d], obj')
  <2>1. CASE d = e
    BY <1>2, <2>1
  <2>2. CASE d # e
    <3>1. st[d] # "free" /\ job'[d] = job[d] /\ fd'[d] = fd[d] /\ job[d] \in JobType
      BY <1>2, <1>4, <2>2 DEF ShellInv, JobsOK
    <3>2. EnvOK(job[d], fd[d], obj) /\ FdsOK
      BY <3>1 DEF ShellInv
    <3>3. Placed(job[d], fd[d], obj')
      BY <2>2, <3>1, <3>2, PlacedSame DEF EnvOK
    <3> QED BY <3>1, <3>2, <3>3 DEF EnvOK
  <2> QED BY <2>1, <2>2
<1> QED BY <1>1, <1>3, <1>4 DEF ShellInv

(* It goes on as k, and leaves the descriptors alone.                      *)
LEMMA JobStep ==
    ASSUME ShellInv, NEW e \in Env, st[e] = "runnable", NEW k \in JobType, job' = [job EXCEPT ![e] = k],
           UNCHANGED <<id, st, list>>, Unchanged, EnvOK(k, fd[e], obj)
    PROVE  ShellInv'
<1>1. FdsOK'
  BY UnchangedOK DEF ShellInv
<1>2. st' = [st EXCEPT ![e] = "runnable"]
  BY DEF ShellInv, SlotsOK
<1>3. fd' = fd /\ obj' = obj
  BY DEF Unchanged
<1>4. EnvOK(k, fd[e], obj') /\ fd[e] = fd'[e]
  BY <1>3
<1> QED BY <1>1, <1>2, <1>3, <1>4, OneMoves

(* It goes on as k with the descriptors g.  The pages o are as before, but *)
(* for new ones.                                                           *)
LEMMA FdStep ==
    ASSUME ShellInv, NEW e \in Env, st[e] # "free", NEW k \in JobType, job' = [job EXCEPT ![e] = k],
           st' = [st EXCEPT ![e] = "runnable"], UNCHANGED <<id, list>>,
           NEW g \in [Fd -> Obj \cup {0}], NEW o \in [Obj -> ObjType],
           \A l \in Obj : o[l].dev = "pipe" => o[l].pipe \in PipeNo,
           \A l \in Obj : obj[l] # NoObj => o[l] = obj[l],
           \A i \in Fd : g[i] # 0 => o[g[i]].dev # "none",
           NEW f, f = [fd EXCEPT ![e] = g], Descriptors(f, o), EnvOK(k, g, o)
    PROVE  ShellInv'
<1>1. FdsOK /\ fd \in FdType
  BY DEF ShellInv, FdsOK
<1>2. f \in FdType /\ f[e] = g /\ \A d \in Env : d # e => f[d] = fd[d]
  BY <1>1 DEF FdType
<1>3. \A d \in Env : \A i \in Fd : fd[d][i] # 0 => fd[d][i] \in Obj /\ obj[fd[d][i]] # NoObj
  BY <1>1 DEF FdsOK, FdType, NoObj
<1>4. \A d \in Env : \A i \in Fd : f[d][i] # 0 => o[f[d][i]].dev # "none"
  BY <1>1, <1>2, <1>3 DEF FdsOK
<1>5. FdsOK' /\ fd' = f /\ \A d \in Env : \A i \in Fd : f[d][i] # 0 => obj'[f[d][i]] = o[f[d][i]]
  BY <1>1, <1>2, <1>4, DescriptorsOK
<1>6. \A d \in Env : d # e => \A i \in Fd : fd[d][i] # 0 => obj'[fd[d][i]] = obj[fd[d][i]]
  BY <1>2, <1>3, <1>5
<1>7. EnvOK(k, g, obj')
  <2>1. \A i \in Fd : g[i] # 0 => obj'[g[i]] = o[g[i]]
    BY <1>2, <1>5
  <2>2. Placed(k, g, obj')
    BY <2>1, PlacedSame DEF EnvOK
  <2> QED BY <2>2 DEF EnvOK
<1>8. fd'[e] = g /\ \A d \in Env : d # e => fd'[d] = fd[d]
  BY <1>2, <1>5
<1> QED BY <1>5, <1>6, <1>7, <1>8, OneMoves

(* The new environment has the slot at the head of the list.               *)
LEMMA ChildIs ==
    ASSUME SlotsOK, list # <<>>
    PROVE  /\ Child.slot \in Env /\ st[Child.slot] = "free" /\ Child.slot = list[1] /\ Child.id \in Nat
           /\ Child \in EnvRef
<1>1. list \in Seq(Env) /\ Len(list) >= 1
  BY EmptySeq DEF SlotsOK
<1>2. Head(list) = list[1] /\ list[1] \in Env
  BY <1>1
<1>3. id[list[1]] + 1 \in Nat
  BY <1>2 DEF SlotsOK
<1>4. st[list[1]] = "free"
  BY <1>1, <1>2 DEF SlotsOK
<1> QED BY <1>2, <1>3, <1>4 DEF Child, EnvRef

(* It leaves the list, and is not on it a second time.                     *)
LEMMA TakenOK ==
    ASSUME SlotsOK, list # <<>>, list' = Tail(list),
           id' = [id EXCEPT ![Child.slot] = Child.id],
           st' = [st EXCEPT ![Child.slot] = "runnable"]
    PROVE  SlotsOK'
<1> DEFINE c == Child.slot
<1>1. list \in Seq(Env) /\ Len(list) \in Nat /\ Len(list) >= 1
  BY EmptySeq DEF SlotsOK
<1>2. list' \in Seq(Env) /\ Len(list') = Len(list) - 1 /\ \A k \in 1 .. Len(list') : list'[k] = list[k + 1]
  BY <1>1, HeadTailProperties
<1>3. c \in Env /\ c = list[1] /\ Child.id \in Nat
  BY ChildIs
<1> HIDE DEF c
<1>4. id' \in [Env -> Nat] /\ st' \in [Env -> {"free", "blocked", "runnable"}]
      /\ \A e \in Env : st'[e] = IF e = c THEN "runnable" ELSE st[e]
  BY <1>3 DEF SlotsOK, c
<1>5. \A k, l \in 1 .. Len(list') : list'[k] = list'[l] => k = l
  <2> SUFFICES ASSUME NEW k \in 1 .. Len(list'), NEW l \in 1 .. Len(list'), list'[k] = list'[l] PROVE k = l
    OBVIOUS
  <2>1. k + 1 \in 1 .. Len(list) /\ l + 1 \in 1 .. Len(list) /\ list[k + 1] = list[l + 1]
    BY <1>1, <1>2
  <2>2. k + 1 = l + 1
    BY <2>1 DEF SlotsOK
  <2> QED BY <2>2
<1>6. ASSUME NEW e \in Env, st'[e] = "free" PROVE \E k \in 1 .. Len(list') : list'[k] = e
  <2>1. e # list[1] /\ st[e] = "free"
    BY <1>3, <1>4, <1>6
  <2>2. PICK k \in 1 .. Len(list) : list[k] = e
    BY <2>1 DEF SlotsOK
  <2>3. k - 1 \in 1 .. Len(list') /\ (k - 1) + 1 = k
    BY <1>1, <1>2, <2>1, <2>2
  <2>4. list'[k - 1] = e
    BY <1>2, <2>2, <2>3
  <2> QED BY <2>3, <2>4
<1>7. ASSUME NEW k \in 1 .. Len(list') PROVE st'[list'[k]] = "free"
  <2>1. k + 1 \in 1 .. Len(list) /\ list'[k] = list[k + 1] /\ 1 \in 1 .. Len(list)
    BY <1>1, <1>2
  <2>2. list[k + 1] \in Env
    BY <1>1, <2>1, ElementOfSeq
  <2>3. st[list[k + 1]] = "free"
    BY <2>1, <2>2 DEF SlotsOK
  <2>4. k + 1 # 1
    OBVIOUS
  <2>5. list[k + 1] # list[1]
    BY <2>1, <2>4 DEF SlotsOK
  <2> QED BY <1>3, <1>4, <2>1, <2>2, <2>3, <2>5
<1> QED BY <1>2, <1>4, <1>5, <1>6, <1>7 DEF SlotsOK

(* An environment that starts another: both have the descriptors g.        *)
LEMMA StartsStep ==
    ASSUME ShellInv, NEW e \in Env, st[e] = "runnable", list # <<>>,
           NEW j \in JobType, NEW k \in JobType,
           NEW g \in [Fd -> Obj \cup {0}], \A i \in Fd : g[i] # 0 => obj[g[i]].dev # "none",
           Starts(e, j, g, k), EnvOK(j, g, obj), EnvOK(k, g, obj)
    PROVE  ShellInv'
<1> DEFINE c == Child.slot
           f == [fd EXCEPT ![e] = g, ![c] = g]
<1>1. c \in Env /\ st[c] = "free" /\ c # e
  BY ChildIs DEF ShellInv
<1>2. SlotsOK'
  BY TakenOK DEF Starts, ShellInv
<1>3. st' = [st EXCEPT ![c] = "runnable"] /\ job' = [job EXCEPT ![c] = j, ![e] = k] /\ Descriptors(f, obj)
  BY DEF Starts
<1>4. FdsOK /\ fd \in FdType /\ obj \in [Obj -> ObjType]
  BY DEF ShellInv, FdsOK
<1> HIDE DEF c
<1>5. f \in FdType /\ \A d \in Env : f[d] = IF d \in {c, e} THEN g ELSE fd[d]
  BY <1>1, <1>4 DEF FdType
<1> HIDE DEF f
<1>6. \A d \in Env : \A i \in Fd : f[d][i] # 0 => obj[f[d][i]].dev # "none"
  BY <1>4, <1>5 DEF FdsOK
<1>7. FdsOK' /\ fd' = f /\ \A d \in Env : \A i \in Fd : f[d][i] # 0 => obj'[f[d][i]] = obj[f[d][i]]
  BY <1>3, <1>4, <1>5, <1>6, DescriptorsOK DEF FdsOK
<1>8. /\ \A d \in Env : /\ st'[d] = IF d = c THEN "runnable" ELSE st[d]
                        /\ job'[d] = IF d = c THEN j ELSE IF d = e THEN k ELSE job[d]
      /\ job' \in [Env -> JobType \cup {NoJob}]
  BY <1>1, <1>3 DEF ShellInv, SlotsOK, JobsOK
<1>9. JobsOK'
  <2>1. ASSUME NEW d \in Env, st'[d] = "blocked"
        PROVE  job'[d].at \in {"in", "out", "again", "spawn"} /\ \E i \in Fd : fd'[d][i] = 0
    BY <1>1, <1>5, <1>7, <1>8, <2>1 DEF ShellInv, JobsOK
  <2> QED BY <1>1, <1>8, <2>1 DEF ShellInv, JobsOK
<1>10. ASSUME NEW d \in Env, st'[d] # "free" PROVE EnvOK(job'[d], fd'[d], obj')
  <2>1. PICK m : m = job'[d]
    OBVIOUS
  <2>2. m \in JobType /\ EnvOK(m, f[d], obj)
    BY <1>1, <1>5, <1>8, <1>10, <2>1 DEF ShellInv, JobsOK
  <2>3. Placed(m, f[d], obj')
    BY <1>7, <2>2, PlacedSame DEF EnvOK
  <2> QED BY <1>7, <2>1, <2>2, <2>3 DEF EnvOK
<1> QED BY <1>2, <1>7, <1>9, <1>10 DEF ShellInv

(* A slot that is given up is put on the list, where it was not before.    *)
LEMMA GivenUpOK ==
    ASSUME SlotsOK, NEW e \in Env, st[e] # "free", list' = <<e>> \o list, id' = id,
           st' = [st EXCEPT ![e] = "free"]
    PROVE  SlotsOK'
<1>1. list \in Seq(Env) /\ <<e>> \in Seq(Env) /\ Len(<<e>>) = 1 /\ <<e>>[1] = e /\ Len(list) \in Nat
  BY DEF SlotsOK
<1>2. list' \in Seq(Env) /\ Len(list') = Len(list) + 1
      /\ \A k \in 1 .. Len(list') : list'[k] = IF k = 1 THEN e ELSE list[k - 1]
  BY <1>1, ConcatProperties
<1>3. \A k \in 1 .. Len(list) : list[k] # e
  BY DEF SlotsOK
<1>4. \A k, l \in 1 .. Len(list') : list'[k] = list'[l] => k = l
  <2> SUFFICES ASSUME NEW k \in 1 .. Len(list'), NEW l \in 1 .. Len(list'), list'[k] = list'[l] PROVE k = l
    OBVIOUS
  <2>1. CASE k = 1 \/ l = 1
    BY <1>1, <1>2, <1>3, <2>1
  <2>2. CASE k # 1 /\ l # 1
    <3>1. k - 1 \in 1 .. Len(list) /\ l - 1 \in 1 .. Len(list) /\ list[k - 1] = list[l - 1]
      BY <1>1, <1>2, <2>2
    <3>2. k - 1 = l - 1
      BY <3>1 DEF SlotsOK
    <3> QED BY <3>2
  <2> QED BY <2>1, <2>2
<1>5. st' \in [Env -> {"free", "blocked", "runnable"}] /\ \A d \in Env : st'[d] = IF d = e THEN "free" ELSE st[d]
  BY DEF SlotsOK
<1>6. ASSUME NEW d \in Env, st'[d] = "free" PROVE \E k \in 1 .. Len(list') : list'[k] = d
  <2>1. CASE d = e
    BY <1>1, <1>2, <2>1
  <2>2. CASE d # e
    <3>1. PICK k \in 1 .. Len(list) : list[k] = d
      BY <1>5, <1>6, <2>2 DEF SlotsOK
    <3>2. k + 1 \in 1 .. Len(list') /\ k + 1 # 1 /\ (k + 1) - 1 = k
      BY <1>1, <1>2
    <3>3. list'[k + 1] = d
      BY <1>2, <3>1, <3>2
    <3> QED BY <3>2, <3>3
  <2> QED BY <2>1, <2>2
<1>7. ASSUME NEW k \in 1 .. Len(list') PROVE st'[list'[k]] = "free"
  <2>1. CASE k = 1
    BY <1>2, <1>5, <2>1
  <2>2. CASE k # 1
    <3>1. k - 1 \in 1 .. Len(list) /\ list'[k] = list[k - 1]
      BY <1>1, <1>2, <2>2
    <3>2. list[k - 1] \in Env
      BY <1>1, <3>1, ElementOfSeq
    <3>3. st[list[k - 1]] = "free"
      BY <3>1, <3>2 DEF SlotsOK
    <3>4. PICK d \in Env : d = list[k - 1]
      BY <3>2
    <3>5. st'[d] = "free"
      BY <1>5, <3>3, <3>4
    <3> QED BY <3>1, <3>4, <3>5
  <2> QED BY <2>1, <2>2
<1> QED BY <1>2, <1>4, <1>5, <1>6, <1>7 DEF SlotsOK

(* An environment that ends.                                               *)
LEMMA EndStep ==
    ASSUME ShellInv, NEW e \in Env, st[e] # "free", destroy(e)
    PROVE  ShellInv'
<1> DEFINE f == [fd EXCEPT ![e] = NoFds]
<1>1. SlotsOK'
  BY GivenUpOK DEF ShellInv, destroy
<1>2. FdsOK /\ fd \in FdType /\ obj \in [Obj -> ObjType]
  BY DEF ShellInv, FdsOK
<1>3. f \in FdType /\ \A d \in Env : f[d] = IF d = e THEN NoFds ELSE fd[d]
  BY <1>2 DEF FdType, NoFds
<1>4. \A d \in Env : \A i \in Fd : f[d][i] # 0 => obj[f[d][i]].dev # "none"
  BY <1>2, <1>3 DEF FdsOK, NoFds
<1>5. Descriptors(f, obj) /\ st' = [st EXCEPT ![e] = "free"] /\ job' = [job EXCEPT ![e] = NoJob]
  BY DEF destroy
<1> HIDE DEF f
<1>6. FdsOK' /\ fd' = f /\ \A d \in Env : \A i \in Fd : f[d][i] # 0 => obj'[f[d][i]] = obj[f[d][i]]
  BY <1>2, <1>3, <1>4, <1>5, DescriptorsOK DEF FdsOK
<1>7. /\ \A d \in Env : st'[d] = (IF d = e THEN "free" ELSE st[d]) /\ job'[d] = (IF d = e THEN NoJob ELSE job[d])
      /\ job' \in [Env -> JobType \cup {NoJob}]
  BY <1>5 DEF ShellInv, SlotsOK, JobsOK
<1>8. JobsOK'
  <2>1. ASSUME NEW d \in Env, st'[d] = "blocked"
        PROVE  job'[d].at \in {"in", "out", "again", "spawn"} /\ \E i \in Fd : fd'[d][i] = 0
    BY <1>3, <1>6, <1>7, <2>1 DEF ShellInv, JobsOK
  <2> QED BY <1>7, <2>1 DEF ShellInv, JobsOK
<1>9. ASSUME NEW d \in Env, st'[d] # "free" PROVE EnvOK(job'[d], fd'[d], obj')
  <2>1. d # e /\ job'[d] = job[d] /\ job[d] \in JobType /\ EnvOK(job[d], fd[d], obj) /\ fd'[d] = fd[d] /\ fd[d] = f[d]
    BY <1>3, <1>6, <1>7, <1>9 DEF ShellInv, JobsOK
  <2>2. Placed(job[d], fd[d], obj')
    BY <1>6, <2>1, PlacedSame DEF EnvOK
  <2> QED BY <2>1, <2>2 DEF EnvOK
<1> QED BY <1>1, <1>6, <1>8, <1>9 DEF ShellInv

----------------------------------------------------------------------------
(* The tokenizer.                                                          *)
(***************************************************************************)
(* The first of the places from i on, if there is one.                     *)
LEMMA FromIs ==
    ASSUME NEW S \in SUBSET Nat, NEW i \in Nat, \E k \in S : k >= i
    PROVE  From(i, S) \in S /\ From(i, S) >= i /\ \A l \in S : l >= i => From(i, S) <= l
<1> DEFINE T == {k \in S : k >= i}
<1>1. PICK x \in T : \A y \in T : ~ (<<y, x>> \in OpToRel(<, Nat))
  BY NatLessThanWellFounded, WFMin
<1>2. ASSUME NEW y \in S, y >= i PROVE x <= y
  <2>1. x \in Nat /\ y \in Nat /\ y \in T
    BY <1>2
  <2>2. <<y, x>> \in Nat \X Nat /\ <<y, x>>[1] = y /\ <<y, x>>[2] = x
    BY <2>1
  <2>3. ~ (y < x)
    BY <1>1, <2>1, <2>2 DEF OpToRel
  <2> QED BY <2>1, <2>3
<1>3. \E k \in S : k >= i /\ \A l \in S : l >= i => k <= l
  BY <1>1, <1>2
<1> QED BY <1>3 DEF From

Begin(j, i) == From(i, {k \in 1 .. Len(j.s) + 1 : Char(j, k) \notin WHITESPACE})
End(j, b) == From(b, {k \in 1 .. Len(j.s) + 1 : Char(j, k) \in Special})

(* Where a token begins and where a word ends; the NUL at the end of the   *)
(* line stops both searches.                                               *)
LEMMA BeginIs ==
    ASSUME NEW j, Len(j.s) \in Nat, NEW i \in 1 .. Len(j.s) + 1
    PROVE  /\ Begin(j, i) \in i .. Len(j.s) + 1 /\ Char(j, Begin(j, i)) \notin WHITESPACE
           /\ \A l \in i .. Begin(j, i) - 1 : Char(j, l) \in WHITESPACE
<1> DEFINE n == Len(j.s) + 1
           S == {k \in 1 .. n : Char(j, k) \notin WHITESPACE}
<1>1. n \in Nat /\ n \in 1 .. n /\ i \in Nat /\ i <= n /\ n > Len(j.s)
  OBVIOUS
<1>2. Char(j, n) = "NUL"
  BY <1>1 DEF Char
<1>3. n \in S /\ S \in SUBSET Nat
  BY <1>1, <1>2, Tokens
<1>4. From(i, S) \in S /\ From(i, S) >= i /\ \A l \in S : l >= i => From(i, S) <= l
  BY <1>1, <1>3, FromIs
<1>5. PICK b : b = Begin(j, i)
  OBVIOUS
<1>6. b \in S /\ b >= i /\ \A l \in S : l >= i => b <= l
  BY <1>4, <1>5 DEF Begin
<1>7. b \in i .. n /\ Char(j, b) \notin WHITESPACE
  BY <1>1, <1>6
<1>8. ASSUME NEW l \in i .. b - 1 PROVE Char(j, l) \in WHITESPACE
  BY <1>1, <1>6, <1>7
<1> QED BY <1>5, <1>7, <1>8

(* Where a word ends: at the first place that is not of a word.            *)
LEMMA EndIs ==
    ASSUME NEW j, Len(j.s) \in Nat, NEW i \in 1 .. Len(j.s) + 1
    PROVE  /\ End(j, i) \in i .. Len(j.s) + 1 /\ Char(j, End(j, i)) \in Special
           /\ \A l \in i .. End(j, i) - 1 : Char(j, l) \notin Special
<1> DEFINE n == Len(j.s) + 1
           S == {k \in 1 .. n : Char(j, k) \in Special}
<1>1. n \in Nat /\ n \in 1 .. n /\ i \in Nat /\ i <= n /\ n > Len(j.s)
  OBVIOUS
<1>2. Char(j, n) = "NUL"
  BY <1>1 DEF Char
<1>3. n \in S /\ S \in SUBSET Nat
  BY <1>1, <1>2 DEF Special
<1>4. From(i, S) \in S /\ From(i, S) >= i /\ \A l \in S : l >= i => From(i, S) <= l
  BY <1>1, <1>3, FromIs
<1>5. PICK b : b = End(j, i)
  OBVIOUS
<1>6. b \in S /\ b >= i /\ \A l \in S : l >= i => b <= l
  BY <1>4, <1>5 DEF End
<1>7. b \in i .. n /\ Char(j, b) \in Special
  BY <1>1, <1>6
<1>8. ASSUME NEW l \in i .. b - 1 PROVE Char(j, l) \notin Special
  BY <1>1, <1>6, <1>7
<1> QED BY <1>5, <1>7, <1>8

(* What _gettoken does, by what it finds.                                  *)
LEMMA TokenIs ==
    ASSUME NEW j, NEW i \in Nat, i # 0
    PROVE  LET b == Begin(j, i)
               nul == j.nul \cup (i .. b - 1)
           IN  \/ /\ Char(j, b) = "NUL"
                  /\ _gettoken(j, i) = [j EXCEPT !.nul = nul, !.nc = "0", !.np1 = 0, !.np2 = 0]
               \/ /\ Char(j, b) \in SYMBOLS
                  /\ _gettoken(j, i) = [j EXCEPT !.nul = nul \cup {b}, !.nc = Char(j, b), !.np1 = b, !.np2 = b + 1]
               \/ /\ Char(j, b) \notin {"NUL"} \cup SYMBOLS
                  /\ _gettoken(j, i) = [j EXCEPT !.nul = nul, !.nc = "w", !.np1 = b, !.np2 = End(j, b)]
<1> DEFINE b == Begin(j, i)
           nul == j.nul \cup (i .. b - 1)
<1>1. CASE Char(j, b) = "NUL"
  BY <1>1, Tokens DEF _gettoken, Begin, End, Special
<1>2. CASE Char(j, b) \in SYMBOLS
  BY <1>2, Tokens DEF _gettoken, Begin, End, Special
<1>3. CASE Char(j, b) \notin {"NUL"} \cup SYMBOLS
  BY <1>3, Tokens DEF _gettoken, Begin, End, Special
<1> QED BY <1>1, <1>2, <1>3

(* The rest of the job stays.                                              *)
SameButLine(j, k) ==
    /\ k.prog = j.prog /\ k.at = j.at /\ k.s = j.s /\ k.argv = j.argv /\ k.fd = j.fd /\ k.p = j.p
    /\ k.child = j.child /\ k.rightpipe = j.rightpipe /\ k.n = j.n

SameButToken(j, k) == SameButLine(j, k) /\ k.c = j.c /\ k.t = j.t

(* The next token is found from i on, what is overwritten is there too,    *)
(* and what i points at is overwritten if it ends a word.                  *)
Scans(j, i, k) ==
    /\ k \in JobType /\ SameButToken(j, k)
    /\ k.np2 = 0 \/ k.np2 \in i .. Len(j.s) + 1
    /\ \A x \in Nat : x \in k.nul => x \in j.nul \/ (i <= x /\ (k.np2 = 0 \/ x < k.np2))
    /\ j.nul \subseteq k.nul
    /\ Char(j, i) \in Special => Char(k, i) = "NUL"
    /\ k.nc = "w" => k.np2 # 0 /\ Word(k, k.np1, k.np2) /\ Char(k, k.np2) \in Special

(* _gettoken finds the next token, and overwrites only what it passes.     *)
LEMMA ScanIs ==
    ASSUME NEW j \in JobType, NEW i \in 1 .. Len(j.s) + 1
    PROVE  Scans(j, i, _gettoken(j, i))
<1> SUFFICES ASSUME NEW k, k = _gettoken(j, i)
             PROVE  Scans(j, i, k)
  OBVIOUS
<1>0. Len(j.s) \in Nat /\ j.nul \in SUBSET Nat /\ i \in Nat /\ i # 0 /\ i >= 1
  BY DEF JobType
<1>1. PICK b : b = Begin(j, i)
  OBVIOUS
<1>2. /\ b \in i .. Len(j.s) + 1 /\ b \in Nat /\ Char(j, b) \notin WHITESPACE
      /\ \A l \in i .. b - 1 : Char(j, l) \in WHITESPACE
  BY <1>0, <1>1, BeginIs
<1>3. PICK nul : nul = j.nul \cup (i .. b - 1)
  OBVIOUS
<1>4. nul \in SUBSET Nat /\ j.nul \subseteq nul /\ \A x \in Nat : x \in nul => x \in j.nul \/ (i <= x /\ x < b)
  BY <1>0, <1>2, <1>3
<1>5. i # b => i \in nul
  BY <1>0, <1>2, <1>3
<1>6. CASE Char(j, b) = "NUL" /\ k = [j EXCEPT !.nul = nul, !.nc = "0", !.np1 = 0, !.np2 = 0]
  <2>1. k \in JobType /\ SameButToken(j, k) /\ k.nul = nul /\ k.nc = "0" /\ k.np1 = 0 /\ k.np2 = 0
    <3>1. PICK ch \in Token : ch = "0"
      BY Tokens
    <3>2. PICK z \in Nat : z = 0
      OBVIOUS
    <3>3. k = [j EXCEPT !.nul = nul, !.nc = ch, !.np1 = z, !.np2 = z]
      BY <1>6, <3>1, <3>2
    <3>4. k \in JobType /\ SameButToken(j, k) /\ k.nul = nul /\ k.nc = ch /\ k.np1 = z /\ k.np2 = z
      BY <1>4, <3>3, ZenonT(120) DEF JobType, SameButToken, SameButLine
    <3> QED BY <3>1, <3>2, <3>4
  <2>2. Char(k, i) = "NUL"
    BY <1>4, <1>5, <1>6, <2>1 DEF Char, SameButToken, SameButLine
  <2> QED BY <1>4, <2>1, <2>2, Tokens DEF Scans
<1>7. CASE Char(j, b) \in SYMBOLS /\ k = [j EXCEPT !.nul = nul \cup {b}, !.nc = Char(j, b), !.np1 = b, !.np2 = b + 1]
  <2>1. PICK ch : ch = Char(j, b)
    OBVIOUS
  <2>2. PICK m : m = nul \cup {b}
    OBVIOUS
  <2>3. m \in SUBSET Nat /\ j.nul \subseteq m /\ \A x \in Nat : x \in m => x \in j.nul \/ (i <= x /\ x < b + 1)
    BY <1>0, <1>2, <1>4, <2>2
  <2>4. ch \in Token /\ b + 1 \in Nat
    BY <1>2, <1>7, <2>1 DEF Token
  <2>5. k = [j EXCEPT !.nul = m, !.nc = ch, !.np1 = b, !.np2 = b + 1]
    BY <1>7, <2>1, <2>2
  <2>6. k \in JobType /\ SameButToken(j, k) /\ k.nul = m /\ k.nc = ch /\ k.np1 = b /\ k.np2 = b + 1
    BY <1>2, <2>3, <2>4, <2>5, ZenonT(120) DEF JobType, SameButToken, SameButLine
  <2>7. b <= Len(j.s)
    <3>1. b # Len(j.s) + 1
      BY <1>0, <1>7, Tokens DEF Char
    <3> QED BY <1>0, <1>2, <3>1
  <2>8. Char(k, i) = "NUL"
    BY <1>5, <2>2, <2>6 DEF Char
  <2>9. b + 1 \in i .. Len(j.s) + 1 /\ ch # "w"
    BY <1>0, <1>2, <1>7, <2>1, <2>7, Tokens
  <2> QED BY <2>3, <2>6, <2>8, <2>9 DEF Scans
<1>8. CASE Char(j, b) \notin {"NUL"} \cup SYMBOLS
           /\ k = [j EXCEPT !.nul = nul, !.nc = "w", !.np1 = b, !.np2 = End(j, b)]
  <2>1. PICK z : z = End(j, b)
    OBVIOUS
  <2>2. /\ z \in b .. Len(j.s) + 1 /\ z \in Nat /\ Char(j, z) \in Special
        /\ \A l \in b .. z - 1 : Char(j, l) \notin Special
    BY <1>0, <1>2, <2>1, EndIs
  <2>3. k \in JobType /\ SameButToken(j, k) /\ k.nul = nul /\ k.nc = "w" /\ k.np1 = b /\ k.np2 = z
    <3>1. k = [j EXCEPT !.nul = nul, !.nc = "w", !.np1 = b, !.np2 = z] /\ "w" \in Token
      BY <1>8, <2>1, Tokens
    <3> QED BY <1>2, <1>4, <2>2, <3>1, ZenonT(120) DEF JobType, SameButToken, SameButLine
  <2>4. Char(j, b) \notin Special
    BY <1>2, <1>8 DEF Special
  <2>5. b < z /\ z \in i .. Len(j.s) + 1 /\ z >= 2 /\ b \in 1 .. Len(j.s) /\ z # 0
    <3>1. b # z
      BY <2>2, <2>4
    <3> QED BY <1>0, <1>2, <2>2, <3>1
  <2>6. \A l \in Nat : l >= b => (l \in nul <=> l \in j.nul)
    BY <1>0, <1>2, <1>3
  <2>7. \A l \in Nat : l >= b => Char(k, l) = Char(j, l)
    BY <2>3, <2>6 DEF Char, SameButToken, SameButLine
  <2>8. Word(k, b, z)
    <3>1. k.s = j.s
      BY <2>3 DEF SameButToken, SameButLine
    <3>2. ASSUME NEW l \in 1 .. Len(k.s), b <= l, l < z PROVE Char(k, l) \notin Special
      BY <1>0, <1>2, <2>2, <2>7, <3>1, <3>2
    <3> QED BY <1>0, <2>2, <2>5, <3>1, <3>2 DEF Word
  <2>9. Char(k, z) \in Special
    BY <1>0, <2>2, <2>5, <2>7
  <2>10. Char(j, i) \in Special => Char(k, i) = "NUL"
    <3>1. SUFFICES ASSUME Char(j, i) \in Special PROVE Char(k, i) = "NUL"
      OBVIOUS
    <3>2. i \in nul
      BY <1>5, <2>4, <3>1
    <3> QED BY <2>3, <3>2 DEF Char
  <2>11. \A x \in Nat : x \in k.nul => x \in j.nul \/ (i <= x /\ x < k.np2)
    BY <1>0, <1>2, <1>4, <2>2, <2>3, <2>5
  <2> QED BY <1>4, <2>3, <2>5, <2>8, <2>9, <2>10, <2>11 DEF Scans
<1>9. \/ Char(j, b) = "NUL" /\ k = [j EXCEPT !.nul = nul, !.nc = "0", !.np1 = 0, !.np2 = 0]
      \/ Char(j, b) \in SYMBOLS /\ k = [j EXCEPT !.nul = nul \cup {b}, !.nc = Char(j, b), !.np1 = b, !.np2 = b + 1]
      \/ /\ Char(j, b) \notin {"NUL"} \cup SYMBOLS
         /\ k = [j EXCEPT !.nul = nul, !.nc = "w", !.np1 = b, !.np2 = End(j, b)]
  BY <1>0, <1>1, <1>3, TokenIs
<1> QED BY <1>6, <1>7, <1>8, <1>9

(* Words that have been cut off stay as they are: the tokenizer writes     *)
(* behind them.                                                            *)
LEMMA CutKept ==
    ASSUME NEW h \in JobType, NEW i \in 1 .. Len(h.s) + 1, NEW k, Scans(h, i, k),
           NEW a, NEW z \in 2 .. Len(h.s) + 1, Word(h, a, z), z <= i, Char(h, z) = "NUL" \/ Char(k, z) = "NUL"
    PROVE  Cut(k, a)
<1>1. k.s = h.s /\ Len(h.s) \in Nat
  BY DEF JobType, Scans, SameButToken, SameButLine
<1>2. \A l \in Nat : l < i => Char(k, l) = Char(h, l)
  BY <1>1 DEF Scans, Char
<1>3. Char(k, z) = "NUL"
  BY <1>1 DEF Scans, Char
<1>4. Word(k, a, z)
  <2>1. ASSUME NEW l \in 1 .. Len(k.s), a <= l, l < z PROVE Char(k, l) \notin Special
    <3>1. l \in Nat /\ l < i /\ l \in 1 .. Len(h.s)
      BY <1>1, <2>1
    <3>2. Char(h, l) \notin Special
      BY <2>1, <3>1 DEF Word
    <3> QED BY <1>2, <3>1, <3>2
  <2> QED BY <1>1, <2>1 DEF Word
<1>5. k.np2 = 0 \/ z <= k.np2
  BY <1>1 DEF Scans
<1> QED BY <1>1, <1>3, <1>4, <1>5 DEF Cut

(* gettoken keeps the line in order: it finds the next word, and cuts off  *)
(* the one it hands out.                                                   *)
LEMMA NextToken ==
    ASSUME NEW j \in JobType, LineOK(j), NEW k, k = gettoken(j)
    PROVE  k \in JobType /\ LineOK(k) /\ SameButLine(j, k) /\ k.c = j.nc
<1>1. PICK h : h = [j EXCEPT !.c = j.nc, !.t = j.np1]
  OBVIOUS
<1>2. /\ h \in JobType /\ SameButLine(j, h) /\ h.nul = j.nul /\ h.c = j.nc /\ h.t = j.np1
      /\ h.nc = j.nc /\ h.np1 = j.np1 /\ h.np2 = j.np2
  BY <1>1 DEF JobType, SameButLine
<1>3. k = _gettoken(h, j.np2)
  BY <1>1 DEF gettoken
<1>4. h.s = j.s /\ h.argv = j.argv /\ j.np2 \in 0 .. Len(h.s) + 1 /\ Len(h.s) \in Nat
  BY <1>2 DEF SameButLine, LineOK, JobType
<1>5. \A x : Char(h, x) = Char(j, x)
  BY <1>2, <1>4 DEF Char
<1>6. \A a, z : Word(h, a, z) <=> Word(j, a, z)
  BY <1>4, <1>5 DEF Word
<1>7. CASE j.np2 = 0
  <2>1. k = [h EXCEPT !.nc = "0"]
    BY <1>3, <1>7 DEF _gettoken
  <2>2. /\ k \in JobType /\ SameButToken(h, k) /\ k.nul = h.nul /\ k.nc = "0"
        /\ k.np1 = h.np1 /\ k.np2 = h.np2
    <3>1. PICK ch \in Token : ch = "0"
      BY Tokens
    <3>2. k = [h EXCEPT !.nc = ch]
      BY <2>1, <3>1
    <3>3. /\ k \in JobType /\ SameButToken(h, k) /\ k.nul = h.nul /\ k.nc = ch
          /\ k.np1 = h.np1 /\ k.np2 = h.np2
      BY <1>2, <3>2, ZenonT(120) DEF JobType, SameButToken, SameButLine
    <3> QED BY <3>1, <3>3
  <2>3. k.s = h.s /\ k.argv = j.argv /\ k.c = j.nc /\ SameButLine(j, k)
    BY <1>2, <2>2 DEF SameButToken, SameButLine
  <2>4. \A x : Char(k, x) = Char(j, x)
    BY <1>5, <2>2, <2>3 DEF Char
  <2>5. \A a, z : Word(k, a, z) <=> Word(j, a, z)
    BY <1>4, <2>3, <2>4 DEF Word
  <2>6. \A a : Cut(k, a) <=> Cut(j, a)
    BY <1>2, <1>4, <2>2, <2>3, <2>4, <2>5 DEF Cut
  <2>7. j.nc # "w" /\ "0" # "w"
    BY <1>7, Tokens DEF LineOK
  <2>8. LineOK(k)
    BY <1>2, <1>4, <2>2, <2>3, <2>6, <2>7 DEF LineOK
  <2> QED BY <2>2, <2>3, <2>8
<1>8. CASE j.np2 # 0
  <2>1. j.np2 \in 1 .. Len(h.s) + 1
    BY <1>4, <1>8
  <2>2. Scans(h, j.np2, k)
    BY <1>2, <1>3, <2>1, ScanIs
  <2>3. k \in JobType /\ k.s = h.s /\ k.argv = j.argv /\ k.c = j.nc /\ k.t = j.np1 /\ SameButLine(j, k)
    BY <1>2, <2>2 DEF Scans, SameButToken, SameButLine
  <2>4. ASSUME NEW a, Cut(j, a) PROVE Cut(k, a)
    <3>1. PICK z \in 2 .. Len(j.s) + 1 : Word(j, a, z) /\ Char(j, z) = "NUL" /\ z <= j.np2
      BY <1>8, <2>4 DEF Cut
    <3> QED BY <1>2, <1>4, <1>5, <1>6, <2>1, <2>2, <3>1, CutKept
  <2>5. ASSUME j.nc = "w" PROVE Cut(k, j.np1)
    <3>1. Word(j, j.np1, j.np2) /\ Char(j, j.np2) \in Special
      BY <2>5 DEF LineOK
    <3>2. Char(k, j.np2) = "NUL"
      BY <1>5, <2>2, <3>1 DEF Scans
    <3>3. j.np2 \in 2 .. Len(h.s) + 1 /\ j.np2 <= j.np2
      BY <1>4, <3>1 DEF Word
    <3> QED BY <1>2, <1>6, <2>1, <2>2, <3>1, <3>2, <3>3, CutKept
  <2>6. k.np2 \in 0 .. Len(k.s) + 1
    BY <1>4, <2>1, <2>2, <2>3 DEF Scans
  <2>7. \A x \in 1 .. Len(k.argv) : Cut(k, k.argv[x])
    BY <2>3, <2>4 DEF LineOK
  <2>8. LineOK(k)
    BY <2>2, <2>3, <2>5, <2>6, <2>7 DEF LineOK, Scans
  <2> QED BY <2>3, <2>8
<1> QED BY <1>7, <1>8

(* A word that has been cut off is all word.                               *)
LEMMA WordIs ==
    ASSUME NEW j \in JobType, NEW a, Cut(j, a)
    PROVE  /\ String(j, a) # <<>>
           /\ \A l \in DOMAIN String(j, a) : String(j, a)[l] \notin WHITESPACE \cup SYMBOLS
<1> DEFINE n == Len(j.s) + 1
           S == {k \in 1 .. n : Char(j, k) = "NUL"}
<1>0. j.s \in Seq(STRING) /\ Len(j.s) \in Nat
  BY DEF JobType
<1>1. PICK z \in 2 .. n : Word(j, a, z) /\ Char(j, z) = "NUL"
  BY DEF Cut
<1>2. a \in 1 .. Len(j.s) /\ a < z /\ \A k \in 1 .. Len(j.s) : a <= k /\ k < z => Char(j, k) \notin Special
  BY <1>1 DEF Word
<1>3. z \in S /\ S \in SUBSET Nat /\ a \in Nat /\ z >= a
  BY <1>0, <1>1, <1>2
<1>4. From(a, S) \in S /\ From(a, S) >= a /\ From(a, S) <= z
  BY <1>3, FromIs
<1>5. PICK y : y = From(a, S)
  OBVIOUS
<1>6. y \in 1 .. n /\ Char(j, y) = "NUL" /\ y >= a /\ y <= z
  BY <1>4, <1>5
<1>7. ~ (y < z)
  <2>1. SUFFICES ASSUME y < z PROVE FALSE
    OBVIOUS
  <2>2. y \in 1 .. Len(j.s)
    BY <1>0, <1>1, <1>6, <2>1
  <2> QED BY <1>2, <1>6, <2>1, <2>2 DEF Special
<1>8. y = z /\ String(j, a) = SubSeq(j.s, a, z - 1)
  <2>1. y = z
    BY <1>0, <1>1, <1>6, <1>7
  <2>2. String(j, a) = SubSeq(j.s, a, From(a, S) - 1)
    BY DEF String
  <2> QED BY <1>5, <2>1, <2>2
<1>9. \A i \in a .. z - 1 : i \in 1 .. Len(j.s) /\ j.s[i] \in STRING
  BY <1>0, <1>1, <1>2
<1>10. /\ Len(SubSeq(j.s, a, z - 1)) = z - a /\ SubSeq(j.s, a, z - 1) \in Seq(STRING)
       /\ \A l \in 1 .. z - a : SubSeq(j.s, a, z - 1)[l] = j.s[a + l - 1]
  <2>1. a \in Int /\ z - 1 \in Int /\ a <= z - 1
    BY <1>0, <1>1, <1>2
  <2>2. /\ Len(SubSeq(j.s, a, z - 1)) = (z - 1) - a + 1 /\ SubSeq(j.s, a, z - 1) \in Seq(STRING)
        /\ \A l \in 1 .. (z - 1) - a + 1 : SubSeq(j.s, a, z - 1)[l] = j.s[a + l - 1]
    BY <1>9, <2>1, SubSeqProperties
  <2>3. (z - 1) - a + 1 = z - a
    BY <1>0, <1>1, <1>2
  <2> QED BY <2>2, <2>3
<1>11. ASSUME NEW l \in 1 .. z - a PROVE SubSeq(j.s, a, z - 1)[l] \notin WHITESPACE \cup SYMBOLS
  <2>1. a + l - 1 \in 1 .. Len(j.s) /\ a <= a + l - 1 /\ a + l - 1 < z
    BY <1>0, <1>1, <1>2
  <2>2. Char(j, a + l - 1) \notin Special
    BY <1>2, <2>1
  <2>3. Char(j, a + l - 1) = j.s[a + l - 1]
    BY <2>2 DEF Char, Special
  <2> QED BY <1>10, <2>2, <2>3 DEF Special
<1>12. DOMAIN SubSeq(j.s, a, z - 1) = 1 .. z - a /\ SubSeq(j.s, a, z - 1) # <<>>
  BY <1>0, <1>1, <1>2, <1>10
<1> QED BY <1>8, <1>11, <1>12

----------------------------------------------------------------------------
(* The actions.                                                            *)
(***************************************************************************)
USE DEF Place, Programming, Prompting, Waiting, Redirecting, Parsing, Forking, Righting, Lefting, Piping, Running

(* What the invariant says of one environment that lives.                  *)
LEMMA LiveIs ==
    ASSUME ShellInv, NEW e \in Env, st[e] # "free"
    PROVE  /\ job[e] \in JobType /\ EnvOK(job[e], fd[e], obj) /\ fd[e] \in [Fd -> Obj \cup {0}]
           /\ fd \in FdType /\ obj \in [Obj -> ObjType]
           /\ \A l \in Obj : obj[l].dev = "pipe" => obj[l].pipe \in PipeNo
           /\ \A i \in Fd : fd[e][i] # 0 => fd[e][i] \in Obj /\ obj[fd[e][i]].dev # "none"
<1>1. fd \in FdType /\ \A i \in Fd : fd[e][i] # 0 => obj[fd[e][i]].dev # "none"
  BY DEF ShellInv, FdsOK
<1>2. fd[e] \in [Fd -> Obj \cup {0}]
  BY <1>1 DEF FdType
<1> QED BY <1>1, <1>2 DEF ShellInv, JobsOK, FdsOK

(* A job that goes on with the same words.                                 *)
SameWords(j, k) ==
    /\ k.prog = j.prog /\ k.s = j.s /\ k.nul = j.nul /\ k.c = j.c /\ k.t = j.t /\ k.nc = j.nc
    /\ k.np1 = j.np1 /\ k.np2 = j.np2 /\ k.argv = j.argv

(* Its words stay in order wherever it goes on.                            *)
LEMMA WordsKept ==
    ASSUME NEW j \in JobType, NEW k, WordsOK(j), SameWords(j, k),
           k.at \in {"in", "out", "again"} => j.c = "w",
           k.at \in {"spawn", "spawn_env"} => j.argv # <<>>
    PROVE  WordsOK(k)
<1>1. LineOK(k)
  BY LineKept DEF WordsOK, SameWords
<1> QED BY <1>1 DEF WordsOK, SameWords

(* It gives up: exit, or close_all of runcmd.                              *)
LEMMA GivesUp ==
    ASSUME NEW j \in JobType, NEW f, NEW o, EnvOK(j, f, o), NEW at \in {"exit", "close_all"},
           at = "close_all" => j.prog = "run"
    PROVE  LET k == [j EXCEPT !.at = at] IN k \in JobType /\ EnvOK(k, f, o)
<1>1. PICK k : k = [j EXCEPT !.at = at]
  OBVIOUS
<1>2. k \in JobType /\ k.at = at /\ SameWords(j, k) /\ k.p = j.p /\ k.fd = j.fd
  BY <1>1 DEF JobType, SameWords
<1>3. WordsOK(k)
  BY <1>2, WordsKept DEF EnvOK
<1>4. ProgOK(k)
  BY <1>2 DEF EnvOK, ProgOK, SameWords
<1>5. EndsOK(k, f, o)
  BY <1>2 DEF EnvOK, ProgOK, SameWords, EndsOK, Placed, MayHave
<1>6. ClosedOK(k, f) /\ StdioOK(k, f) /\ RedirectOK(k, f, o) /\ PipeOK(k, f, o)
  BY <1>2 DEF ClosedOK, StdioOK, RedirectOK, PipeOK
<1> QED BY <1>1, <1>2, <1>3, <1>4, <1>5, <1>6 DEF EnvOK, Placed

(* A command has no words, and its input and output only.                  *)
LEMMA CommandKept ==
    ASSUME NEW j \in JobType, NEW k \in JobType, NEW f, NEW o, EnvOK(j, f, o), SameWords(j, k), k.p = j.p,
           j.prog \in Programs, k.at \in {"read", "write", "exit"}
    PROVE  EnvOK(k, f, o)
<1>1. WordsOK(k)
  BY WordsKept DEF EnvOK
<1>2. ProgOK(k) /\ k.prog \notin {"init", "sh", "run"}
  BY DEF EnvOK, ProgOK, SameWords
<1>3. EndsOK(k, f, o)
  BY DEF EnvOK, ProgOK, SameWords, EndsOK, Placed, MayHave
<1>4. ClosedOK(k, f) /\ StdioOK(k, f) /\ RedirectOK(k, f, o) /\ PipeOK(k, f, o)
  BY DEF ClosedOK, StdioOK, RedirectOK, PipeOK
<1> QED BY <1>1, <1>2, <1>3, <1>4 DEF EnvOK, Placed

(* The table of the places where open is called, entry by entry.           *)
LEMMA OpensIs ==
    /\ DOMAIN Opens = {"in", "out", "again", "spawn"}
    /\ Opens["in"].bad = "exit" /\ Opens["out"].bad = "exit" /\ Opens["again"].bad = "exit"
    /\ Opens["spawn"].bad = "close_all"
    /\ Opens["in"].ok = "in_dup" /\ Opens["out"].ok = "again" /\ Opens["again"].ok = "out_dup"
    /\ Opens["spawn"].ok = "spawn_env"
    /\ \A at \in {"in", "out", "again", "spawn"} : Opens[at].mode \in {"r", "w"}
BY DEF Opens

(* open: the request is made, or there is no descriptor.                   *)
LEMMA OpenInv ==
    ASSUME ShellInv, NEW e \in Env, open(e)
    PROVE  ShellInv'
<1>1. st[e] = "runnable" /\ job[e].at \in {"in", "out", "again", "spawn"}
  BY OpensIs DEF open
<1>2. job[e] \in JobType /\ EnvOK(job[e], fd[e], obj)
  BY <1>1, LiveIs
<1>3. PICK j : j = job[e]
  OBVIOUS
<1>4. CASE Go(e, Opens[j.at].bad) /\ UNCHANGED st
  <2>1. PICK at : at = Opens[j.at].bad
    OBVIOUS
  <2>2. at \in {"exit", "close_all"} /\ (at = "close_all" => j.prog = "run")
    BY <1>1, <1>2, <1>3, <2>1, OpensIs DEF EnvOK, ProgOK
  <2>3. PICK k : k = [j EXCEPT !.at = at]
    OBVIOUS
  <2>4. k \in JobType /\ EnvOK(k, fd[e], obj)
    BY <1>2, <1>3, <2>2, <2>3, GivesUp
  <2>5. job' = [job EXCEPT ![e] = k] /\ UNCHANGED <<id, st, list>> /\ Unchanged
    BY <1>3, <1>4, <2>1, <2>3 DEF Go, open
  <2> QED BY <1>1, <2>4, <2>5, JobStep
<1>5. CASE st' = [st EXCEPT ![e] = "blocked"] /\ UNCHANGED job
  <2>1. job' = [job EXCEPT ![e] = j] /\ id' = id /\ list' = list /\ fd' = fd /\ obj' = obj
    BY <1>3, <1>5 DEF open, Unchanged, ShellInv, JobsOK
  <2>2. FdsOK'
    BY UnchangedOK DEF open, ShellInv
  <2>3. EnvOK(j, fd[e], obj') /\ fd[e] = fd'[e] /\ j \in JobType
    BY <1>2, <1>3, <2>1
  <2>4. \E i \in Fd : fd'[e][i] = 0
    <3>1. st' # st
      BY <1>1, <1>5 DEF ShellInv, SlotsOK
    <3>2. FreeFds(e) # {}
      BY <3>1 DEF open
    <3> QED BY <2>3, <3>2 DEF FreeFds
  <2> QED BY <1>1, <1>3, <1>5, <2>1, <2>2, <2>3, <2>4, OneMoves
<1> QED BY <1>3, <1>4, <1>5 DEF open

(* runit: no command, or spawn.                                            *)
LEMMA RunitInv ==
    ASSUME ShellInv, NEW e \in Env, runit(e)
    PROVE  ShellInv'
<1>1. st[e] = "runnable" /\ job[e].at = "runit"
  BY DEF runit, In
<1>2. job[e] \in JobType /\ EnvOK(job[e], fd[e], obj)
  BY <1>1, LiveIs
<1>3. PICK j : j = job[e]
  OBVIOUS
<1>4. PICK f : f = fd[e]
  OBVIOUS
<1>5. PICK at : at = IF j.argv = <<>> THEN "exit" ELSE "spawn"
  OBVIOUS
<1>6. PICK k : k = [j EXCEPT !.at = at]
  OBVIOUS
<1>7. k \in JobType /\ EnvOK(k, f, obj)
  <2>1. CASE j.argv = <<>>
    BY <1>2, <1>3, <1>4, <1>5, <1>6, <2>1, GivesUp
  <2>2. CASE j.argv # <<>>
    <3>1. at = "spawn"
      BY <1>5, <2>2
    <3>2. k \in JobType /\ k.at = "spawn" /\ SameWords(j, k) /\ k.p = j.p /\ k.fd = j.fd
      BY <1>2, <1>3, <1>6, <3>1, ZenonT(120) DEF JobType, SameWords
    <3>3. WordsOK(k)
      BY <1>2, <1>3, <2>2, <3>2, WordsKept DEF EnvOK
    <3>4. ProgOK(k)
      BY <1>1, <1>2, <1>3, <3>2 DEF EnvOK, ProgOK, SameWords
    <3>5. EndsOK(k, f, obj)
      BY <1>1, <1>2, <1>3, <1>4, <3>2 DEF EnvOK, ProgOK, SameWords, EndsOK, Placed, MayHave
    <3>6. ClosedOK(k, f) /\ StdioOK(k, f) /\ RedirectOK(k, f, obj) /\ PipeOK(k, f, obj)
      BY <3>2, <3>4 DEF ClosedOK, StdioOK, RedirectOK, PipeOK, ProgOK
    <3> QED BY <3>2, <3>3, <3>4, <3>5, <3>6 DEF EnvOK, Placed
  <2> QED BY <2>1, <2>2
<1>8. job' = [job EXCEPT ![e] = k] /\ UNCHANGED <<id, st, list>> /\ Unchanged
  BY <1>3, <1>5, <1>6 DEF runit, Go, Same
<1> QED BY <1>1, <1>4, <1>7, <1>8, JobStep

(* A command begins.                                                       *)
LEMMA StartInv ==
    ASSUME ShellInv, NEW e \in Env, start(e)
    PROVE  ShellInv'
<1>1. st[e] = "runnable" /\ job[e].at = "start"
  BY DEF start, In
<1>2. job[e] \in JobType /\ EnvOK(job[e], fd[e], obj)
  BY <1>1, LiveIs
<1>3. PICK j : j = job[e]
  OBVIOUS
<1>4. PICK at : at = IF j.prog = "e" THEN "write" ELSE "read"
  OBVIOUS
<1>0. PICK n \in Int : n = 2
  OBVIOUS
<1>5. PICK k : k = [j EXCEPT !.at = at, !.n = n]
  OBVIOUS
<1>6. at \in {"read", "write"} /\ j.prog \in Programs
  BY <1>1, <1>2, <1>3, <1>4 DEF EnvOK, ProgOK
<1>7. k \in JobType /\ SameWords(j, k) /\ k.at = at /\ k.p = j.p
  BY <1>2, <1>3, <1>5, <1>6, ZenonT(120) DEF JobType, SameWords
<1>8. EnvOK(k, fd[e], obj)
  BY <1>1, <1>2, <1>3, <1>6, <1>7, CommandKept
<1>9. job' = [job EXCEPT ![e] = k] /\ UNCHANGED <<id, st, list>> /\ Unchanged
  BY <1>0, <1>3, <1>4, <1>5 DEF start, Same
<1> QED BY <1>1, <1>7, <1>8, <1>9, JobStep

(* What a command does next: it puts or takes a byte, or ends.             *)
LEMMA PutIs ==
    ASSUME ShellInv, NEW e \in Env, st[e] = "runnable", job[e].at \in Programming,
           Took(e) \/ Ended(e) \/ Put(e) \/ NotPut(e)
    PROVE  \E k \in JobType : job' = [job EXCEPT ![e] = k] /\ EnvOK(k, fd[e], obj)
<1>1. job[e] \in JobType /\ EnvOK(job[e], fd[e], obj)
  BY LiveIs
<1>2. PICK j : j = job[e]
  OBVIOUS
<1>3. j.prog \in Programs
  BY <1>1, <1>2 DEF EnvOK, ProgOK
<1>4. \E at \in {"read", "write", "exit"}, n \in Int : job' = [job EXCEPT ![e] = [j EXCEPT !.at = at, !.n = n]]
  <2>1. ASSUME NEW at \in {"read", "write", "exit"}, Go(e, at)
        PROVE  job' = [job EXCEPT ![e] = [j EXCEPT !.at = at, !.n = j.n]]
    <3>1. [j EXCEPT !.at = at, !.n = j.n] = [j EXCEPT !.at = at]
      BY <1>1, <1>2 DEF JobType
    <3> QED BY <1>2, <2>1, <3>1 DEF Go
  <2>2. j.n \in Int /\ j.n - 1 \in Int
    BY <1>1, <1>2 DEF JobType
  <2>3. CASE Put(e)
    <3>1. PICK at : at = IF j.prog = "c" THEN "read" ELSE IF j.n = 1 THEN "exit" ELSE "write"
      OBVIOUS
    <3>2. at \in {"read", "write", "exit"}
      BY <3>1
    <3>3. job' = [job EXCEPT ![e] = [j EXCEPT !.n = j.n - 1, !.at = at]]
      BY <1>2, <2>3, <3>1 DEF Put
    <3>4. [j EXCEPT !.n = j.n - 1, !.at = at] = [j EXCEPT !.at = at, !.n = j.n - 1]
      BY <1>1, <1>2 DEF JobType
    <3> QED BY <2>2, <3>2, <3>3, <3>4
  <2>4. CASE Took(e) \/ Ended(e)
    BY <2>1, <2>2, <2>4 DEF Took, Ended
  <2>5. CASE NotPut(e)
    BY <2>3, <2>4, <2>5 DEF NotPut
  <2> QED BY <2>3, <2>4, <2>5
<1>5. PICK at \in {"read", "write", "exit"}, n \in Int : job' = [job EXCEPT ![e] = [j EXCEPT !.at = at, !.n = n]]
  BY <1>4
<1>6. PICK k : k = [j EXCEPT !.at = at, !.n = n]
  OBVIOUS
<1>7. k \in JobType /\ SameWords(j, k) /\ k.at = at /\ k.p = j.p
  BY <1>1, <1>2, <1>6, ZenonT(120) DEF JobType, SameWords
<1>8. EnvOK(k, fd[e], obj)
  BY <1>1, <1>2, <1>3, <1>7, CommandKept
<1> QED BY <1>5, <1>6, <1>7, <1>8

(* It puts a byte into a pipe, or takes one, or starts a file.             *)
LEMMA ByteOK ==
    ASSUME ShellInv, NEW e \in Env, st[e] = "runnable", UNCHANGED <<id, st, list, fd>>,
           NEW k \in JobType, job' = [job EXCEPT ![e] = k], EnvOK(k, fd[e], obj),
           obj' \in [Obj -> ObjType], unread' \in [PipeNo -> 0 .. BY2PIPE],
           \A l \in Obj : obj'[l].dev = obj[l].dev /\ obj'[l].mode = obj[l].mode /\ obj'[l].pipe = obj[l].pipe
    PROVE  ShellInv'
<1>1. fd \in FdType /\ fd' = fd /\ \A d \in Env : \A i \in Fd : fd[d][i] # 0 => fd[d][i] \in Obj
  BY DEF ShellInv, FdsOK, FdType
<1>2. FdsOK'
  BY <1>1 DEF FdsOK, ShellInv
<1>3. \A d \in Env : \A i \in Fd : fd[d][i] # 0 =>
         obj'[fd[d][i]].dev = obj[fd[d][i]].dev /\ obj'[fd[d][i]].mode = obj[fd[d][i]].mode
  BY <1>1
<1>4. EnvOK(k, fd[e], obj')
  <2>1. Placed(k, fd[e], obj')
    BY <1>3, PlacedSame DEF EnvOK
  <2> QED BY <2>1 DEF EnvOK
<1>5. st' = [st EXCEPT ![e] = "runnable"] /\ fd'[e] = fd[e]
  BY DEF ShellInv, SlotsOK
<1> QED BY <1>1, <1>2, <1>3, <1>4, <1>5, OneMoves

(* read: a byte is taken out of a pipe, or a file is started.              *)
LEMMA ReadInv ==
    ASSUME ShellInv, NEW e \in Env, read(e) \/ cons_read(e)
    PROVE  ShellInv'
<1>1. st[e] = "runnable" /\ job[e].at = "read" /\ UNCHANGED <<id, st, list>> /\ (Took(e) \/ Ended(e))
  BY DEF read, cons_read, In, Same
<1>2. PICK k \in JobType : job' = [job EXCEPT ![e] = k] /\ EnvOK(k, fd[e], obj)
  BY <1>1, PutIs
<1>3. obj \in [Obj -> ObjType] /\ unread \in [PipeNo -> 0 .. BY2PIPE] /\ fd[e] \in [Fd -> Obj \cup {0}]
      /\ \A l \in Obj : obj[l].dev = "pipe" => obj[l].pipe \in PipeNo
  BY <1>1, LiveIs DEF ShellInv, FdsOK
<1>4. 0 \in Fd
  BY ShellAssumption DEF Fd
<1>5. CASE Unchanged
  BY <1>1, <1>2, <1>5, JobStep
<1>6. CASE \E p \in PipeNo : unread[p] > 0 /\ unread' = [unread EXCEPT ![p] = @ - 1] /\ UNCHANGED <<fd, obj>>
  <2>1. unread' \in [PipeNo -> 0 .. BY2PIPE]
    BY <1>3, <1>6, ShellAssumption
  <2> QED BY <1>1, <1>2, <1>3, <1>6, <2>1, ByteOK
<1>7. CASE \E l \in Obj : obj' = [obj EXCEPT ![l].offset = 1] /\ UNCHANGED <<fd, unread>>
  <2>1. PICK l \in Obj : obj' = [obj EXCEPT ![l].offset = 1]
    BY <1>7
  <2>2. PICK m : m = [obj[l] EXCEPT !.offset = 1]
    OBVIOUS
  <2>3. m \in ObjType /\ m.dev = obj[l].dev /\ m.mode = obj[l].mode /\ m.pipe = obj[l].pipe
    BY <1>3, <2>2 DEF ObjType
  <2>4. obj' = [obj EXCEPT ![l] = m]
    BY <2>1, <2>2
  <2>5. /\ obj' \in [Obj -> ObjType]
        /\ \A i \in Obj : obj'[i].dev = obj[i].dev /\ obj'[i].mode = obj[i].mode /\ obj'[i].pipe = obj[i].pipe
    BY <1>3, <2>3, <2>4
  <2> QED BY <1>1, <1>2, <1>3, <1>7, <2>5, ByteOK
<1>8. \/ Unchanged
      \/ \E p \in PipeNo : unread[p] > 0 /\ unread' = [unread EXCEPT ![p] = @ - 1] /\ UNCHANGED <<fd, obj>>
      \/ \E l \in Obj : obj' = [obj EXCEPT ![l].offset = 1] /\ UNCHANGED <<fd, unread>>
  <2>1. PICK o : o = Page(e, 0)
    OBVIOUS
  <2>2. o.dev # "none" => fd[e][0] \in Obj /\ o = obj[fd[e][0]]
    BY <1>3, <1>4, <2>1 DEF Page, NoObj
  <2>3. \/ Unchanged
        \/ o.dev = "pipe" /\ unread[o.pipe] > 0 /\ unread' = [unread EXCEPT ![o.pipe] = @ - 1] /\ UNCHANGED <<fd, obj>>
        \/ o.dev = "file" /\ obj' = [obj EXCEPT ![fd[e][0]].offset = 1] /\ UNCHANGED <<fd, unread>>
    BY <2>1 DEF read, cons_read
  <2> QED BY <1>3, <2>2, <2>3
<1> QED BY <1>5, <1>6, <1>7, <1>8

(* write: a byte is put into a pipe, or thrown away.                       *)
LEMMA WriteInv ==
    ASSUME ShellInv, NEW e \in Env, write(e)
    PROVE  ShellInv'
<1>1. st[e] = "runnable" /\ job[e].at = "write" /\ UNCHANGED <<id, st, list>> /\ (Put(e) \/ NotPut(e))
  BY DEF write, In, Same
<1>2. PICK k \in JobType : job' = [job EXCEPT ![e] = k] /\ EnvOK(k, fd[e], obj)
  BY <1>1, PutIs
<1>3. obj \in [Obj -> ObjType] /\ unread \in [PipeNo -> 0 .. BY2PIPE] /\ fd[e] \in [Fd -> Obj \cup {0}]
      /\ \A l \in Obj : obj[l].dev = "pipe" => obj[l].pipe \in PipeNo
  BY <1>1, LiveIs DEF ShellInv, FdsOK
<1>4. 1 \in Fd
  BY ShellAssumption DEF Fd
<1>5. CASE Unchanged
  BY <1>1, <1>2, <1>5, JobStep
<1>6. CASE \E p \in PipeNo : unread[p] < BY2PIPE /\ unread' = [unread EXCEPT ![p] = @ + 1] /\ UNCHANGED <<fd, obj>>
  <2>1. unread' \in [PipeNo -> 0 .. BY2PIPE]
    BY <1>3, <1>6, ShellAssumption
  <2> QED BY <1>1, <1>2, <1>3, <1>6, <2>1, ByteOK
<1>7. PICK o : o = Page(e, 1)
  OBVIOUS
<1>8. o.dev # "none" => fd[e][1] \in Obj /\ o = obj[fd[e][1]]
  BY <1>3, <1>4, <1>7 DEF Page, NoObj
<1>9. \/ Unchanged
      \/ o.dev = "pipe" /\ unread[o.pipe] < BY2PIPE /\ unread' = [unread EXCEPT ![o.pipe] = @ + 1] /\ UNCHANGED <<fd, obj>>
  BY <1>7 DEF write
<1> QED BY <1>3, <1>5, <1>6, <1>8, <1>9

(* wait goes on waiting, or returns to the program that waits.             *)
LEMMA WaitIs ==
    ASSUME NEW j \in JobType, j.prog \in {"init", "sh", "run"}, NEW k,
           \/ k = Waited(j)
           \/ k = [j EXCEPT !.at = "wait"]
           \/ k = [j EXCEPT !.at = "wait_status"]
    PROVE  /\ k \in JobType /\ SameWords(j, k) /\ k.p = j.p
           /\ k.at \in {"exit", "wait", "wait_status", "start_sh", "readline"}
           /\ (k.at = "start_sh" => j.prog = "init") /\ (k.at = "readline" => j.prog = "sh")
<1>0. NoEnv \in EnvRef
  BY ShellAssumption DEF EnvRef, NoEnv, Env
<1>1. PICK none \in EnvRef : none = NoEnv
  BY <1>0
<1>2. \E at \in {"exit", "wait", "wait_status", "start_sh", "readline"} :
        /\ k = [j EXCEPT !.at = at] \/ k = [j EXCEPT !.at = at, !.child = none]
        /\ (at = "start_sh" => j.prog = "init") /\ (at = "readline" => j.prog = "sh")
  <2>1. CASE k = Waited(j)
    <3>1. [j EXCEPT !.child = NoEnv, !.at = "wait"] = [j EXCEPT !.at = "wait", !.child = none]
      BY <1>1 DEF JobType
    <3> QED BY <1>1, <2>1, <3>1 DEF Waited
  <2> QED BY <2>1
<1>3. PICK at \in {"exit", "wait", "wait_status", "start_sh", "readline"} :
        /\ k = [j EXCEPT !.at = at] \/ k = [j EXCEPT !.at = at, !.child = none]
        /\ (at = "start_sh" => j.prog = "init") /\ (at = "readline" => j.prog = "sh")
  BY <1>2
<1>4. k \in JobType /\ SameWords(j, k) /\ k.p = j.p /\ k.at = at
  <2>1. at \in Place
    OBVIOUS
  <2>2. CASE k = [j EXCEPT !.at = at]
    BY <2>1, <2>2, ZenonT(120) DEF JobType, SameWords
  <2>3. CASE k = [j EXCEPT !.at = at, !.child = none]
    BY <2>1, <2>3, ZenonT(120) DEF JobType, SameWords
  <2> QED BY <1>3, <2>2, <2>3
<1> QED BY <1>3, <1>4

(* wait: it looks at the slot again, or is over.                           *)
LEMMA WaitInv ==
    ASSUME ShellInv, NEW e \in Env, wait(e)
    PROVE  ShellInv'
<1>1. st[e] = "runnable" /\ job[e].at \in Waiting /\ UNCHANGED <<id, st, list>> /\ Unchanged
  BY DEF wait, Same
<1>2. job[e] \in JobType /\ EnvOK(job[e], fd[e], obj)
  BY <1>1, LiveIs
<1>3. PICK j : j = job[e]
  OBVIOUS
<1>4. j.prog \in {"init", "sh", "run"} /\ j.prog \notin Programs
  BY <1>1, <1>2, <1>3 DEF EnvOK, ProgOK
<1>5. PICK k : job' = [job EXCEPT ![e] = k]
               /\ \/ k = Waited(j)
                  \/ k = [j EXCEPT !.at = "wait"]
                  \/ k = [j EXCEPT !.at = "wait_status"]
  BY <1>3 DEF wait
<1>6. /\ k \in JobType /\ SameWords(j, k) /\ k.p = j.p
      /\ k.at \in {"exit", "wait", "wait_status", "start_sh", "readline"}
      /\ (k.at = "start_sh" => j.prog = "init") /\ (k.at = "readline" => j.prog = "sh")
  BY <1>2, <1>3, <1>4, <1>5, WaitIs
<1>7. PICK f : f = fd[e]
  OBVIOUS
<1>8. WordsOK(k)
  BY <1>2, <1>3, <1>6, WordsKept DEF EnvOK
<1>9. ProgOK(k)
  BY <1>4, <1>6 DEF ProgOK, SameWords
<1>10. EndsOK(k, f, obj)
  BY <1>1, <1>2, <1>3, <1>4, <1>6, <1>7 DEF EnvOK, SameWords, EndsOK, Placed, MayHave
<1>11. ClosedOK(k, f) /\ StdioOK(k, f)
  BY <1>1, <1>2, <1>3, <1>4, <1>6, <1>7 DEF EnvOK, Placed, SameWords, ClosedOK, StdioOK
<1>12. RedirectOK(k, f, obj) /\ PipeOK(k, f, obj)
  BY <1>6 DEF RedirectOK, PipeOK
<1>13. EnvOK(k, fd[e], obj)
  BY <1>7, <1>8, <1>9, <1>10, <1>11, <1>12 DEF EnvOK, Placed
<1> QED BY <1>1, <1>5, <1>6, <1>13, JobStep

(* A line is typed, or the end of the input.                               *)
LEMMA ReadlineInv ==
    ASSUME ShellInv, NEW e \in Env, readline(e)
    PROVE  ShellInv'
<1>1. st[e] = "runnable" /\ job[e].at = "readline" /\ UNCHANGED <<id, st, list>> /\ Unchanged
  BY DEF readline, In
<1>2. job[e] \in JobType /\ EnvOK(job[e], fd[e], obj)
  BY <1>1, LiveIs
<1>3. PICK j : j = job[e]
  OBVIOUS
<1>4. j.prog = "sh" /\ j.prog \notin Programs
  BY <1>1, <1>2, <1>3 DEF EnvOK, ProgOK
<1>5. CASE Go(e, "exit")
  <2>1. PICK k : k = [j EXCEPT !.at = "exit"]
    OBVIOUS
  <2>2. k \in JobType /\ EnvOK(k, fd[e], obj)
    BY <1>2, <1>3, <2>1, GivesUp
  <2>3. job' = [job EXCEPT ![e] = k]
    BY <1>3, <1>5, <2>1 DEF Go
  <2> QED BY <1>1, <2>2, <2>3, JobStep
<1>6. CASE \E s \in Lines : job' = [job EXCEPT ![e] = [@ EXCEPT !.at = "fork", !.s = s]]
  <2>1. PICK s \in Seq(STRING) : job' = [job EXCEPT ![e] = [@ EXCEPT !.at = "fork", !.s = s]]
    BY <1>6, ShellAssumption
  <2>2. PICK k : k = [j EXCEPT !.at = "fork", !.s = s]
    OBVIOUS
  <2>3. /\ k \in JobType /\ k.at = "fork" /\ k.prog = "sh" /\ k.p = j.p /\ k.fd = j.fd
        /\ k.c = j.c /\ k.nc = j.nc /\ k.np2 = j.np2 /\ k.argv = j.argv
    BY <1>2, <1>3, <1>4, <2>2, ZenonT(120) DEF JobType
  <2>4. WordsOK(k)
    <3>1. k.c = "0" /\ k.nc = "0" /\ k.np2 = 0 /\ k.argv = <<>>
      BY <1>2, <1>3, <1>4, <2>3 DEF EnvOK, WordsOK
    <3>2. "0" # "w" /\ Len(k.argv) = 0 /\ Len(k.s) \in Nat
      BY <2>3, <3>1, Tokens DEF JobType
    <3> QED BY <2>3, <3>1, <3>2 DEF WordsOK, LineOK
  <2>5. ProgOK(k)
    BY <1>4, <2>3 DEF ProgOK
  <2>6. PICK f : f = fd[e]
    OBVIOUS
  <2>7. EndsOK(k, f, obj)
    BY <1>1, <1>2, <1>3, <1>4, <2>3, <2>6 DEF EnvOK, EndsOK, Placed, MayHave
  <2>8. StdioOK(k, f)
    BY <1>1, <1>2, <1>3, <2>6 DEF EnvOK, Placed, StdioOK
  <2>9. ClosedOK(k, f) /\ RedirectOK(k, f, obj) /\ PipeOK(k, f, obj)
    BY <2>3 DEF ClosedOK, RedirectOK, PipeOK
  <2>10. EnvOK(k, fd[e], obj)
    BY <2>4, <2>5, <2>6, <2>7, <2>8, <2>9 DEF EnvOK, Placed
  <2>11. job' = [job EXCEPT ![e] = k]
    BY <1>3, <2>1, <2>2
  <2> QED BY <1>1, <2>3, <2>10, <2>11, JobStep
<1> QED BY <1>5, <1>6 DEF readline

(* A command line whose words are k's instead of j's.                      *)
LEMMA TokenKept ==
    ASSUME NEW j \in JobType, NEW k \in JobType, NEW f, NEW o, EnvOK(j, f, o), j.at = "token",
           LineOK(k), k.prog = j.prog, k.p = j.p, k.at \in {"token", "runit", "exit", "in", "out", "pipe"},
           k.at \in {"in", "out"} => k.c = "w"
    PROVE  EnvOK(k, f, o)
<1>1. j.prog = "run" /\ j.prog \notin Programs
  BY DEF EnvOK, ProgOK
<1>2. WordsOK(k) /\ ProgOK(k)
  BY <1>1 DEF WordsOK, ProgOK
<1>3. EndsOK(k, f, o)
  BY <1>1 DEF EnvOK, EndsOK, Placed, MayHave
<1>4. StdioOK(k, f)
  BY DEF EnvOK, Placed, StdioOK
<1>5. ClosedOK(k, f) /\ RedirectOK(k, f, o) /\ PipeOK(k, f, o)
  BY DEF ClosedOK, RedirectOK, PipeOK
<1> QED BY <1>2, <1>3, <1>4, <1>5 DEF EnvOK, Placed

(* A token of runcmd, with the name of the file behind < and >.            *)
LEMMA RuncmdIs ==
    ASSUME NEW e \in Env, runcmd(e), NEW j, j = gettoken(job[e]), NEW k, k = gettoken(j)
    PROVE  \/ \E at \in {"runit", "exit"} : job' = [job EXCEPT ![e] = [j EXCEPT !.at = at]]
           \/ j.c = "|" /\ job' = [job EXCEPT ![e] = [j EXCEPT !.at = "pipe"]]
           \/ j.c = "w" /\ job' = [job EXCEPT ![e] = [j EXCEPT !.argv = Append(@, j.t)]]
           \/ /\ j.c \in {"<", ">"} /\ k.c = "w"
              /\ \E at \in {"in", "out"} : job' = [job EXCEPT ![e] = [k EXCEPT !.at = at]]
           \/ job' = [job EXCEPT ![e] = [k EXCEPT !.at = "exit"]]
           \/ j.c # "w" /\ job' = [job EXCEPT ![e] = j]
<1>1. PICK r : r = [j EXCEPT !.at = "runit"]
  OBVIOUS
<1>2. PICK x : x = [j EXCEPT !.at = "exit"]
  OBVIOUS
<1>3. PICK a : a = [j EXCEPT !.argv = Append(@, j.t)]
  OBVIOUS
<1>4. PICK p : p = [j EXCEPT !.at = "pipe"]
  OBVIOUS
<1>5. PICK i : i = [k EXCEPT !.at = IF k.c = "w" THEN "in" ELSE "exit"]
  OBVIOUS
<1>6. PICK o : o = [k EXCEPT !.at = IF k.c = "w" THEN "out" ELSE "exit"]
  OBVIOUS
<1>7. PICK n : n = Taken(j, k)
  OBVIOUS
<1>8. job' = [job EXCEPT ![e] = n]
  BY <1>7 DEF runcmd
<1>9. n = CASE j.c = "0" -> r
            [] j.c = "w" /\ Len(j.argv) = MAXARGS -> x
            [] j.c = "w" /\ Len(j.argv) # MAXARGS -> a
            [] j.c = "<" -> i
            [] j.c = ">" -> o
            [] j.c = "|" -> p
            [] OTHER -> j
  BY ONLY <1>1, <1>2, <1>3, <1>4, <1>5, <1>6, <1>7 DEF Taken
<1>10. \/ n \in {r, x}
       \/ j.c = "|" /\ n = p
       \/ j.c = "w" /\ n = a
       \/ j.c = "<" /\ n = i
       \/ j.c = ">" /\ n = o
       \/ j.c # "w" /\ n = j
  BY ONLY <1>9
<1>11. i = [k EXCEPT !.at = "exit"] \/ (k.c = "w" /\ i = [k EXCEPT !.at = "in"])
  BY ONLY <1>5
<1>12. o = [k EXCEPT !.at = "exit"] \/ (k.c = "w" /\ o = [k EXCEPT !.at = "out"])
  BY ONLY <1>6
<1> QED BY ONLY <1>1, <1>2, <1>3, <1>4, <1>8, <1>10, <1>11, <1>12

(* runcmd: a token is handed out, and with < and > the one behind it.      *)
LEMMA RuncmdInv ==
    ASSUME ShellInv, NEW e \in Env, runcmd(e)
    PROVE  ShellInv'
<1>1. st[e] = "runnable" /\ job[e].at = "token" /\ UNCHANGED <<id, st, list>> /\ Unchanged
  BY DEF runcmd, In, Same
<1>2. job[e] \in JobType /\ EnvOK(job[e], fd[e], obj)
  BY <1>1, LiveIs
<1>3. PICK j : j = gettoken(job[e])
  OBVIOUS
<1>4. PICK k : k = gettoken(j)
  OBVIOUS
<1>5. j \in JobType /\ LineOK(j) /\ SameButLine(job[e], j)
  BY <1>2, <1>3, NextToken DEF EnvOK, WordsOK
<1>6. k \in JobType /\ LineOK(k) /\ SameButLine(job[e], k)
  <2>1. k \in JobType /\ LineOK(k) /\ SameButLine(j, k)
    BY <1>4, <1>5, NextToken
  <2> QED BY <1>5, <2>1 DEF SameButLine
<1>7. ASSUME NEW m \in {j, k}, NEW at \in {"token", "runit", "exit", "in", "out", "pipe"},
             at \in {"in", "out"} => m.c = "w", job' = [job EXCEPT ![e] = [m EXCEPT !.at = at]]
      PROVE  ShellInv'
  <2>1. m \in JobType /\ LineOK(m) /\ m.prog = job[e].prog /\ m.p = job[e].p
    BY <1>5, <1>6 DEF SameButLine
  <2>2. PICK n : n = [m EXCEPT !.at = at]
    OBVIOUS
  <2>3. n \in JobType /\ n.at = at /\ SameWords(m, n) /\ n.p = m.p
    BY <2>1, <2>2 DEF JobType, SameWords
  <2>4. LineOK(n) /\ n.prog = m.prog /\ n.c = m.c
    BY <2>1, <2>3, LineKept DEF SameWords
  <2>5. EnvOK(n, fd[e], obj)
    BY <1>1, <1>2, <1>7, <2>1, <2>3, <2>4, TokenKept
  <2> QED BY <1>1, <1>7, <2>2, <2>3, <2>5, JobStep
<1>8. CASE j.c = "w" /\ job' = [job EXCEPT ![e] = [j EXCEPT !.argv = Append(@, j.t)]]
  <2>1. PICK a : a = Append(j.argv, j.t)
    OBVIOUS
  <2>2. /\ a \in Seq(Nat) /\ Len(a) = Len(j.argv) + 1 /\ Len(j.argv) \in Nat
        /\ \A x \in 1 .. Len(a) : a[x] = IF x = Len(a) THEN j.t ELSE j.argv[x]
    BY <1>5, <2>1 DEF JobType
  <2>3. PICK n : n = [j EXCEPT !.argv = a]
    OBVIOUS
  <2>4. /\ n \in JobType /\ n.argv = a /\ n.prog = j.prog /\ n.at = j.at /\ n.p = j.p /\ n.s = j.s /\ n.nul = j.nul
        /\ n.c = j.c /\ n.t = j.t /\ n.nc = j.nc /\ n.np1 = j.np1 /\ n.np2 = j.np2
    BY <1>5, <2>2, <2>3, ZenonT(120) DEF JobType
  <2>5. \A x : Char(n, x) = Char(j, x)
    BY <2>4 DEF Char
  <2>6. \A x, z : Word(n, x, z) <=> Word(j, x, z)
    BY <2>4, <2>5 DEF Word
  <2>7. \A x : Cut(n, x) <=> Cut(j, x)
    BY <2>4, <2>5, <2>6 DEF Cut
  <2>8. ASSUME NEW x \in 1 .. Len(n.argv) PROVE Cut(j, n.argv[x])
    <3>1. x \in 1 .. Len(a) /\ n.argv[x] = a[x]
      BY <2>4
    <3>2. CASE x = Len(a)
      BY <1>5, <1>8, <2>2, <3>1, <3>2 DEF LineOK
    <3>3. CASE x # Len(a)
      <4>1. x \in 1 .. Len(j.argv) /\ a[x] = j.argv[x]
        BY <2>2, <3>1, <3>3
      <4> QED BY <1>5, <3>1, <4>1 DEF LineOK
    <3> QED BY <3>2, <3>3
  <2>9. LineOK(n)
    BY <1>5, <2>4, <2>5, <2>6, <2>7, <2>8 DEF LineOK
  <2>10. n.at = "token" /\ n.prog = job[e].prog /\ n.p = job[e].p
    BY <1>1, <1>5, <2>4 DEF SameButLine
  <2>11. EnvOK(n, fd[e], obj)
    BY <1>1, <1>2, <2>4, <2>9, <2>10, TokenKept
  <2>12. job' = [job EXCEPT ![e] = n]
    BY <1>8, <2>1, <2>3
  <2> QED BY <1>1, <2>4, <2>11, <2>12, JobStep
<1>9. CASE job' = [job EXCEPT ![e] = j]
  <2>1. j.at = "token" /\ j.prog = job[e].prog /\ j.p = job[e].p
    BY <1>1, <1>5 DEF SameButLine
  <2>2. EnvOK(j, fd[e], obj)
    BY <1>1, <1>2, <1>5, <2>1, TokenKept
  <2> QED BY <1>1, <1>5, <1>9, <2>2, JobStep
<1> QED BY <1>3, <1>4, <1>7, <1>8, <1>9, RuncmdIs

(* The end of an environment, by itself or from the keyboard.              *)
LEMMA ExitInv ==
    ASSUME ShellInv, NEW e \in Env, exit(e) \/ interrupt(e)
    PROVE  ShellInv'
BY EndStep DEF exit, interrupt, In

(* Before it waits the environment closes what it has.                     *)
LEMMA CloseAllInv ==
    ASSUME ShellInv, NEW e \in Env, close_all(e)
    PROVE  ShellInv'
<1>1. st[e] = "runnable" /\ job[e].at = "close_all" /\ UNCHANGED <<id, st, list>>
      /\ Descriptors([fd EXCEPT ![e] = NoFds], obj)
  BY DEF close_all, In, Same
<1>2. /\ job[e] \in JobType /\ EnvOK(job[e], fd[e], obj) /\ obj \in [Obj -> ObjType]
      /\ \A l \in Obj : obj[l].dev = "pipe" => obj[l].pipe \in PipeNo
  BY <1>1, LiveIs
<1>3. PICK j : j = job[e]
  OBVIOUS
<1>4. PICK at \in {"exit", "wait"} : Go(e, at)
  BY DEF close_all
<1>5. PICK k : k = [j EXCEPT !.at = at]
  OBVIOUS
<1>6. k \in JobType /\ k.at = at /\ SameWords(j, k) /\ k.p = j.p /\ k.fd = j.fd
  BY <1>2, <1>3, <1>4, <1>5, ZenonT(120) DEF JobType, SameWords
<1>7. j.prog = "run" /\ j.prog \notin Programs
  BY <1>1, <1>2, <1>3 DEF EnvOK, ProgOK
<1>8. WordsOK(k)
  BY <1>2, <1>3, <1>6, WordsKept DEF EnvOK
<1>9. ProgOK(k)
  BY <1>6, <1>7 DEF ProgOK, SameWords
<1>10. PICK g : g = NoFds
  OBVIOUS
<1>11. g \in [Fd -> Obj \cup {0}] /\ \A i \in Fd : g[i] = 0
  BY <1>10 DEF NoFds
<1>12. Placed(k, g, obj)
  BY <1>6, <1>7, <1>11 DEF Placed, EndsOK, ClosedOK, StdioOK, RedirectOK, PipeOK, Piped, SameWords
<1>13. EnvOK(k, g, obj)
  BY <1>8, <1>9, <1>12 DEF EnvOK
<1>14. st' = [st EXCEPT ![e] = "runnable"] /\ job' = [job EXCEPT ![e] = k]
  BY <1>1, <1>3, <1>4, <1>5 DEF Go, ShellInv, SlotsOK
<1> QED BY <1>1, <1>2, <1>6, <1>10, <1>11, <1>13, <1>14, FdStep

(* One descriptor changes: it is closed, or takes the page of another.     *)
LEMMA MoveFd ==
    ASSUME ShellInv, NEW e \in Env, st[e] = "runnable", UNCHANGED <<id, st, list>>,
           NEW k \in JobType, job' = [job EXCEPT ![e] = k],
           NEW i \in Fd, NEW x \in Obj \cup {0}, x # 0 => obj[x].dev # "none",
           Descriptors([fd EXCEPT ![e][i] = x], obj),
           NEW g, g = [fd[e] EXCEPT ![i] = x], EnvOK(k, g, obj)
    PROVE  ShellInv'
<1>1. /\ fd[e] \in [Fd -> Obj \cup {0}] /\ obj \in [Obj -> ObjType]
      /\ \A l \in Obj : obj[l].dev = "pipe" => obj[l].pipe \in PipeNo
      /\ \A l \in Fd : fd[e][l] # 0 => fd[e][l] \in Obj /\ obj[fd[e][l]].dev # "none"
  BY LiveIs
<1>2. g \in [Fd -> Obj \cup {0}] /\ \A l \in Fd : g[l] # 0 => obj[g[l]].dev # "none"
  BY <1>1
<1>3. Descriptors([fd EXCEPT ![e] = g], obj)
  OBVIOUS
<1>4. st' = [st EXCEPT ![e] = "runnable"]
  BY DEF ShellInv, SlotsOK
<1> QED BY <1>1, <1>2, <1>3, <1>4, FdStep

(* What dup and close make of a job.                                       *)
LEMMA MovesOn ==
    ASSUME NEW j \in JobType, NEW f, NEW o, EnvOK(j, f, o),
           NEW at \in {"token", "runit", "moved", "right_r", "right_w", "left_r", "left_w"}, j.prog = "run",
           NEW k, k = [j EXCEPT !.at = at]
    PROVE  /\ k \in JobType /\ SameWords(j, k) /\ k.at = at /\ k.p = j.p /\ k.fd = j.fd
           /\ k.prog = "run" /\ k.prog \notin Programs
           /\ ProgOK(k) /\ WordsOK(k)
<1>1. k \in JobType /\ SameWords(j, k) /\ k.at = at /\ k.p = j.p /\ k.fd = j.fd
  BY ZenonT(120) DEF JobType, SameWords
<1>2. k.prog = "run" /\ k.prog \notin Programs
  BY <1>1 DEF SameWords, EnvOK, ProgOK
<1>3. ProgOK(k)
  BY <1>1, <1>2 DEF ProgOK
<1>4. WordsOK(k)
  BY <1>1, WordsKept DEF EnvOK
<1> QED BY <1>1, <1>2, <1>3, <1>4

(* redirect: the file becomes the input or the output, and is closed as    *)
(* what it was.                                                            *)
LEMMA RedirectInv ==
    ASSUME ShellInv, NEW e \in Env, redirect(e)
    PROVE  ShellInv'
<1>1. st[e] = "runnable" /\ job[e].at \in Redirecting /\ UNCHANGED <<id, st, list>>
  BY DEF redirect, In, dup, close, Same
<1>2. /\ job[e] \in JobType /\ EnvOK(job[e], fd[e], obj) /\ fd[e] \in [Fd -> Obj \cup {0}]
      /\ \A i \in Fd : fd[e][i] # 0 => obj[fd[e][i]].dev # "none"
  BY <1>1, LiveIs
<1>3. PICK j : j = job[e]
  OBVIOUS
<1>4. PICK f : f = fd[e]
  OBVIOUS
<1>5. j.prog = "run" /\ j.fd \in Fd \ {0, 1} /\ 0 \in Fd /\ 1 \in Fd /\ f[0] # 0 /\ f[1] # 0
  BY <1>1, <1>2, <1>3, <1>4, ShellAssumption DEF EnvOK, ProgOK, Placed, RedirectOK, StdioOK, JobType, Fd
<1>6. ASSUME NEW i \in {0, 1}, j.at \in {"in_dup", "out_dup"}, dup(e, j.fd, i, "moved") PROVE ShellInv'
  <2>1. PICK k : k = [j EXCEPT !.at = "moved"]
    OBVIOUS
  <2>2. /\ k \in JobType /\ k.at = "moved" /\ k.p = j.p /\ k.fd = j.fd
        /\ k.prog = "run" /\ k.prog \notin Programs /\ ProgOK(k) /\ WordsOK(k)
    BY <1>2, <1>3, <1>5, <2>1, MovesOn
  <2>3. PICK x : x = f[j.fd]
    OBVIOUS
  <2>4. x \in Obj /\ obj[x].dev = "file"
    BY <1>2, <1>3, <1>4, <1>5, <1>6, <2>3 DEF EnvOK, Placed, RedirectOK
  <2>5. PICK g : g = [f EXCEPT ![i] = x]
    OBVIOUS
  <2>6. \A l \in Fd : g[l] = IF l = i THEN x ELSE f[l]
    BY <1>2, <1>4, <1>5, <2>5
  <2>7. \A l \in Fd : Piped(g, obj, l) => Piped(f, obj, l) /\ g[l] = f[l]
    BY <2>4, <2>6 DEF Piped
  <2>8. EndsOK(k, g, obj)
    BY <1>2, <1>3, <1>4, <1>5, <1>6, <2>2, <2>7 DEF EnvOK, EndsOK, Placed, MayHave
  <2>9. 0 \notin Obj
    BY DEF Obj
  <2>10. StdioOK(k, g) /\ ClosedOK(k, g) /\ RedirectOK(k, g, obj) /\ PipeOK(k, g, obj)
    BY <1>5, <2>2, <2>4, <2>6, <2>9 DEF StdioOK, ClosedOK, RedirectOK, PipeOK
  <2>11. EnvOK(k, g, obj)
    BY <2>2, <2>8, <2>10 DEF EnvOK, Placed
  <2>12. job' = [job EXCEPT ![e] = k] /\ Descriptors([fd EXCEPT ![e][i] = x], obj)
    BY <1>3, <1>4, <1>6, <2>1, <2>3 DEF dup, Go
  <2>13. g = [fd[e] EXCEPT ![i] = x] /\ x # 0 => obj[x].dev # "none"
    BY <1>4, <2>4, <2>5
  <2> QED BY <1>1, <1>4, <1>5, <2>2, <2>4, <2>5, <2>11, <2>12, MoveFd
<1>7. ASSUME j.at = "moved", close(e, j.fd, "token") PROVE ShellInv'
  <2>1. PICK k : k = [j EXCEPT !.at = "token"]
    OBVIOUS
  <2>2. /\ k \in JobType /\ k.at = "token" /\ k.p = j.p
        /\ k.prog = "run" /\ k.prog \notin Programs /\ ProgOK(k) /\ WordsOK(k)
    BY <1>2, <1>3, <1>5, <2>1, MovesOn
  <2>3. PICK g : g = [f EXCEPT ![j.fd] = 0]
    OBVIOUS
  <2>4. \A l \in Fd : g[l] = IF l = j.fd THEN 0 ELSE f[l]
    BY <1>2, <1>4, <2>3
  <2>5. \A l \in Fd : Piped(g, obj, l) => Piped(f, obj, l) /\ g[l] = f[l]
    BY <2>4 DEF Piped
  <2>6. EndsOK(k, g, obj)
    BY <1>2, <1>3, <1>4, <1>5, <1>7, <2>2, <2>5 DEF EnvOK, EndsOK, Placed, MayHave
  <2>7. StdioOK(k, g) /\ ClosedOK(k, g) /\ RedirectOK(k, g, obj) /\ PipeOK(k, g, obj)
    BY <1>5, <2>2, <2>4 DEF StdioOK, ClosedOK, RedirectOK, PipeOK
  <2>8. EnvOK(k, g, obj)
    BY <2>2, <2>6, <2>7 DEF EnvOK, Placed
  <2>9. job' = [job EXCEPT ![e] = k] /\ Descriptors([fd EXCEPT ![e][j.fd] = 0], obj)
    BY <1>3, <1>7, <2>1 DEF close, Go
  <2> QED BY <1>1, <1>4, <1>5, <2>2, <2>3, <2>8, <2>9, MoveFd
<1> QED BY <1>3, <1>6, <1>7 DEF redirect, In

(* One end of the pipe goes where it belongs, or is closed.                *)
LEMMA PipeSides ==
    ASSUME ShellInv, NEW e \in Env, st[e] = "runnable", job[e].at \in Piping
    PROVE  /\ job[e] \in JobType /\ EnvOK(job[e], fd[e], obj) /\ fd[e] \in [Fd -> Obj \cup {0}]
           /\ job[e].prog = "run" /\ job[e].prog \notin Programs
           /\ job[e].p[1] \in Fd \ {0, 1} /\ job[e].p[2] \in Fd \ {0, 1} /\ job[e].p[1] # job[e].p[2]
           /\ 0 \in Fd /\ 1 \in Fd /\ fd[e][0] # 0 /\ fd[e][1] # 0 /\ 0 \notin Obj
           /\ \A i \in Fd : fd[e][i] # 0 => obj[fd[e][i]].dev # "none"
<1>1. /\ job[e] \in JobType /\ EnvOK(job[e], fd[e], obj) /\ fd[e] \in [Fd -> Obj \cup {0}]
      /\ \A i \in Fd : fd[e][i] # 0 => obj[fd[e][i]].dev # "none"
  BY LiveIs
<1>2. job[e].prog = "run" /\ job[e].prog \notin Programs
  BY <1>1 DEF EnvOK, ProgOK
<1>3. job[e].p[1] \in Fd \ {0, 1} /\ job[e].p[2] \in Fd \ {0, 1} /\ job[e].p[1] # job[e].p[2]
  BY <1>1 DEF EnvOK, Placed, PipeOK, JobType
<1>4. 0 \in Fd /\ 1 \in Fd /\ fd[e][0] # 0 /\ fd[e][1] # 0 /\ 0 \notin Obj
  BY <1>1, ShellAssumption DEF EnvOK, Placed, StdioOK, Fd, Obj
<1> QED BY <1>1, <1>2, <1>3, <1>4

(* An end of the pipe is duplicated: the child's to its input, the parent's*)
(* to its output.                                                          *)
LEMMA DupEnd ==
    ASSUME ShellInv, NEW e \in Env, st[e] = "runnable",
           NEW i \in {0, 1}, NEW q \in {1, 2}, NEW at,
           \/ job[e].at = "right_dup" /\ i = 0 /\ q = 1 /\ at = "right_r"
           \/ job[e].at = "left_dup" /\ i = 1 /\ q = 2 /\ at = "left_r",
           dup(e, job[e].p[q], i, at)
    PROVE  ShellInv'
<1>1. PICK j : j = job[e]
  OBVIOUS
<1>2. PICK f : f = fd[e]
  OBVIOUS
<1>3. /\ j \in JobType /\ EnvOK(j, f, obj) /\ f \in [Fd -> Obj \cup {0}] /\ j.prog = "run" /\ j.prog \notin Programs
      /\ j.p[1] \in Fd \ {0, 1} /\ j.p[2] \in Fd \ {0, 1} /\ j.p[1] # j.p[2]
      /\ 0 \in Fd /\ 1 \in Fd /\ f[0] # 0 /\ f[1] # 0 /\ 0 \notin Obj
      /\ \A l \in Fd : f[l] # 0 => obj[f[l]].dev # "none"
  BY <1>1, <1>2, PipeSides
<1>4. PICK k : k = [j EXCEPT !.at = at]
  OBVIOUS
<1>5. /\ k \in JobType /\ k.at = at /\ k.p = j.p /\ k.fd = j.fd
      /\ k.prog = "run" /\ k.prog \notin Programs /\ ProgOK(k) /\ WordsOK(k)
  BY <1>3, <1>4, MovesOn
<1>6. PICK x : x = f[j.p[q]]
  OBVIOUS
<1>7. x \in Obj /\ obj[x].mode = (IF q = 1 THEN "r" ELSE "w")
  <2>1. /\ Piped(f, obj, j.p[1]) /\ obj[f[j.p[1]]].mode = "r"
        /\ Piped(f, obj, j.p[2]) /\ obj[f[j.p[2]]].mode = "w"
    BY <1>1, <1>3 DEF EnvOK, Placed, PipeOK
  <2> QED BY <1>3, <1>6, <2>1 DEF Piped
<1>8. PICK g : g = [f EXCEPT ![i] = x]
  OBVIOUS
<1>9. \A l \in Fd : g[l] = IF l = i THEN x ELSE f[l]
  BY <1>3, <1>8
<1>10. EndsOK(k, g, obj)
  <2> SUFFICES ASSUME NEW l \in Fd, Piped(g, obj, l) PROVE MayHave(k, l, obj[g[l]].mode)
    BY DEF EndsOK
  <2>1. CASE l = i
    BY <1>1, <1>5, <1>7, <1>9, <2>1 DEF MayHave
  <2>2. CASE l # i
    <3>1. g[l] = f[l] /\ Piped(f, obj, l)
      BY <1>9, <2>2 DEF Piped
    <3>2. MayHave(j, l, obj[f[l]].mode)
      BY <1>1, <1>3, <3>1 DEF EnvOK, Placed, EndsOK
    <3> QED BY <1>1, <1>3, <1>5, <3>1, <3>2 DEF MayHave
  <2> QED BY <2>1, <2>2
<1>11. StdioOK(k, g) /\ ClosedOK(k, g) /\ RedirectOK(k, g, obj) /\ PipeOK(k, g, obj)
  BY <1>3, <1>5, <1>7, <1>9 DEF StdioOK, ClosedOK, RedirectOK, PipeOK
<1>12. EnvOK(k, g, obj)
  BY <1>5, <1>10, <1>11 DEF EnvOK, Placed
<1>13. UNCHANGED <<id, st, list>> /\ job' = [job EXCEPT ![e] = k] /\ Descriptors([fd EXCEPT ![e][i] = x], obj)
  BY <1>1, <1>2, <1>4, <1>6 DEF dup, Go, Same
<1>14. obj[x].dev # "none" /\ i \in Fd
  BY <1>3, <1>6, <1>7
<1> QED BY <1>2, <1>5, <1>7, <1>8, <1>12, <1>13, <1>14, MoveFd

(* One that is not needed is closed.                                       *)
LEMMA CloseEnd ==
    ASSUME ShellInv, NEW e \in Env, st[e] = "runnable", UNCHANGED <<id, st, list>>,
           NEW q \in {1, 2}, Descriptors([fd EXCEPT ![e][job[e].p[q]] = 0], obj),
           NEW k \in JobType, job' = [job EXCEPT ![e] = k], k.p = job[e].p, k.prog = "run", ProgOK(k), WordsOK(k),
           \/ job[e].at = "right_r" /\ q = 1 /\ k.at = "right_w"
           \/ job[e].at = "right_w" /\ q = 2 /\ k.at = "token"
           \/ job[e].at = "left_r" /\ q = 1 /\ k.at = "left_w"
           \/ job[e].at = "left_w" /\ q = 2 /\ k.at = "runit"
    PROVE  ShellInv'
<1>1. PICK j : j = job[e]
  OBVIOUS
<1>2. PICK f : f = fd[e]
  OBVIOUS
<1>3. /\ j \in JobType /\ EnvOK(j, f, obj) /\ f \in [Fd -> Obj \cup {0}] /\ j.prog = "run" /\ j.prog \notin Programs
      /\ j.p[1] \in Fd \ {0, 1} /\ j.p[2] \in Fd \ {0, 1} /\ j.p[1] # j.p[2]
      /\ 0 \in Fd /\ 1 \in Fd /\ f[0] # 0 /\ f[1] # 0
  BY <1>1, <1>2, PipeSides
<1>4. PICK i : i = j.p[q]
  OBVIOUS
<1>5. PICK g : g = [f EXCEPT ![i] = 0]
  OBVIOUS
<1>6. i \in Fd /\ i \notin {0, 1} /\ \A l \in Fd : g[l] = IF l = i THEN 0 ELSE f[l]
  BY <1>3, <1>4, <1>5
<1>7. EndsOK(k, g, obj)
  <2> SUFFICES ASSUME NEW l \in Fd, Piped(g, obj, l) PROVE MayHave(k, l, obj[g[l]].mode)
    BY DEF EndsOK
  <2>1. l # i /\ g[l] = f[l] /\ Piped(f, obj, l)
    BY <1>6 DEF Piped
  <2>2. MayHave(j, l, obj[f[l]].mode)
    BY <1>1, <1>3, <2>1 DEF EnvOK, Placed, EndsOK
  <2> QED BY <1>1, <1>3, <1>4, <2>1, <2>2 DEF MayHave
<1>8. StdioOK(k, g) /\ ClosedOK(k, g) /\ RedirectOK(k, g, obj) /\ PipeOK(k, g, obj)
  BY <1>1, <1>3, <1>6 DEF StdioOK, ClosedOK, RedirectOK, PipeOK
<1>9. EnvOK(k, g, obj)
  BY <1>7, <1>8 DEF EnvOK, Placed
<1>10. Descriptors([fd EXCEPT ![e][i] = 0], obj) /\ g = [fd[e] EXCEPT ![i] = 0]
  BY <1>1, <1>2, <1>4, <1>5
<1> QED BY <1>6, <1>9, <1>10, MoveFd

(* The left side of a pipe keeps the end it writes to, as its output.      *)
LEMMA LeftInv ==
    ASSUME ShellInv, NEW e \in Env, left(e)
    PROVE  ShellInv'
<1>1. st[e] = "runnable" /\ job[e].at \in {"left_dup", "left_r", "left_w"} /\ UNCHANGED <<id, st, list>>
  BY DEF left, In, dup, close, Same
<1>2. CASE job[e].at = "left_dup" /\ dup(e, job[e].p[2], 1, "left_r")
  BY <1>1, <1>2, DupEnd
<1>3. ASSUME NEW q \in {1, 2}, NEW at, close(e, job[e].p[q], at),
             \/ job[e].at = "left_r" /\ q = 1 /\ at = "left_w"
             \/ job[e].at = "left_w" /\ q = 2 /\ at = "runit"
      PROVE  ShellInv'
  <2>1. PICK j : j = job[e]
    OBVIOUS
  <2>2. PICK k : k = [j EXCEPT !.at = at]
    OBVIOUS
  <2>3. j \in JobType /\ EnvOK(j, fd[e], obj) /\ j.prog = "run"
    BY <1>1, <2>1, PipeSides
  <2>4. k \in JobType /\ k.at = at /\ k.p = j.p /\ k.prog = "run" /\ ProgOK(k) /\ WordsOK(k)
    BY <1>3, <2>2, <2>3, MovesOn
  <2>5. job' = [job EXCEPT ![e] = k] /\ Descriptors([fd EXCEPT ![e][job[e].p[q]] = 0], obj)
    BY <1>3, <2>1, <2>2 DEF close, Go
  <2> QED BY <1>1, <1>3, <2>1, <2>4, <2>5, CloseEnd
<1> QED BY <1>2, <1>3 DEF left, In

(* The right side keeps the end it reads from, as its input.               *)
LEMMA RightInv ==
    ASSUME ShellInv, NEW e \in Env, right(e)
    PROVE  ShellInv'
<1>1. st[e] = "runnable" /\ job[e].at \in {"right_dup", "right_r", "right_w"} /\ UNCHANGED <<id, st, list>>
  BY DEF right, In, dup, close, Same
<1>2. PICK j : j = job[e]
  OBVIOUS
<1>3. j \in JobType /\ EnvOK(j, fd[e], obj) /\ j.prog = "run" /\ j.prog \notin Programs
  BY <1>1, <1>2, PipeSides
<1>4. CASE job[e].at = "right_dup" /\ dup(e, job[e].p[1], 0, "right_r")
  BY <1>1, <1>4, DupEnd
<1>5. CASE job[e].at = "right_r" /\ close(e, job[e].p[1], "right_w")
  <2>1. PICK k : k = [j EXCEPT !.at = "right_w"]
    OBVIOUS
  <2>2. k \in JobType /\ k.at = "right_w" /\ k.p = j.p /\ k.prog = "run" /\ ProgOK(k) /\ WordsOK(k)
    BY <1>3, <2>1, MovesOn
  <2>3. job' = [job EXCEPT ![e] = k] /\ Descriptors([fd EXCEPT ![e][job[e].p[1]] = 0], obj)
    BY <1>2, <1>5, <2>1 DEF close, Go
  <2> QED BY <1>1, <1>2, <1>5, <2>2, <2>3, CloseEnd
<1>6. CASE /\ job[e].at = "right_w" /\ Descriptors([fd EXCEPT ![e][job[e].p[2]] = 0], obj)
           /\ job' = [job EXCEPT ![e].at = "token", ![e].argv = <<>>]
  <2>0. <<>> \in Seq(Nat)
    BY EmptySeq
  <2>1. PICK a \in Seq(Nat) : a = <<>>
    BY <2>0
  <2>2. PICK k : k = [j EXCEPT !.at = "token", !.argv = a]
    OBVIOUS
  <2>3. /\ k \in JobType /\ k.at = "token" /\ k.p = j.p /\ k.prog = "run" /\ k.s = j.s /\ k.nul = j.nul /\ k.argv = a
        /\ k.c = j.c /\ k.t = j.t /\ k.nc = j.nc /\ k.np1 = j.np1 /\ k.np2 = j.np2
    BY <1>3, <2>2, ZenonT(120) DEF JobType
  <2>4. WordsOK(k)
    <3>1. LineOK(j)
      BY <1>3 DEF EnvOK, WordsOK
    <3>2. \A x : Char(k, x) = Char(j, x)
      BY <2>3 DEF Char
    <3>3. \A x, z : Word(k, x, z) <=> Word(j, x, z)
      BY <2>3, <3>2 DEF Word
    <3>4. \A x : Cut(k, x) <=> Cut(j, x)
      BY <2>3, <3>2, <3>3 DEF Cut
    <3>5. Len(k.argv) = 0
      BY <2>1, <2>3
    <3>6. LineOK(k)
      BY <2>3, <3>1, <3>2, <3>3, <3>4, <3>5 DEF LineOK
    <3> QED BY <2>3, <3>6 DEF WordsOK
  <2>5. ProgOK(k)
    BY <1>3, <2>3 DEF ProgOK
  <2>6. job' = [job EXCEPT ![e] = k]
    BY <1>2, <1>6, <2>1, <2>2
  <2> QED BY <1>1, <1>2, <1>6, <2>3, <2>4, <2>5, <2>6, CloseEnd
<1> QED BY <1>4, <1>5, <1>6 DEF right, In

(* The first of some numbers is one of them.                               *)
LEMMA LeastIs ==
    ASSUME NEW S \in SUBSET Nat, S # {}
    PROVE  Least(S) \in S
<1>1. \A k \in S : k \in Nat /\ k >= 0
  OBVIOUS
<1>2. \E k \in S : k >= 0
  BY <1>1
<1>3. PICK m : m = From(0, S)
  OBVIOUS
<1>4. m \in S /\ \A l \in S : l >= 0 => m <= l
  BY <1>2, <1>3, FromIs
<1>5. \E k \in S : \A l \in S : k <= l
  BY <1>1, <1>4
<1> QED BY <1>5 DEF Least

(* The answer to open: the file has the first free descriptor and page.    *)
LEMMA OpenedInv ==
    ASSUME ShellInv, NEW e \in Env, opened(e)
    PROVE  ShellInv'
<1>1. st[e] = "blocked" /\ st' = [st EXCEPT ![e] = "runnable"] /\ UNCHANGED <<id, list>>
  BY DEF opened
<1>2. /\ job[e] \in JobType /\ EnvOK(job[e], fd[e], obj) /\ fd[e] \in [Fd -> Obj \cup {0}] /\ obj \in [Obj -> ObjType]
      /\ \A l \in Obj : obj[l].dev = "pipe" => obj[l].pipe \in PipeNo
      /\ \A i \in Fd : fd[e][i] # 0 => fd[e][i] \in Obj /\ obj[fd[e][i]].dev # "none"
  BY <1>1, LiveIs
<1>3. PICK j : j = job[e]
  OBVIOUS
<1>4. PICK f : f = fd[e]
  OBVIOUS
<1>5. j.at \in {"in", "out", "again", "spawn"} /\ FreeFds(e) # {}
  BY <1>1, <1>3 DEF ShellInv, JobsOK, FreeFds
<1>6. j.prog = "run" /\ j.prog \notin Programs
  BY <1>2, <1>3, <1>5 DEF EnvOK, ProgOK
<1>7. CASE Go(e, Opens[j.at].bad) /\ Unchanged
  <2>1. PICK at : at = Opens[j.at].bad
    OBVIOUS
  <2>2. at \in {"exit", "close_all"}
    BY <1>5, <2>1, OpensIs
  <2>3. PICK k : k = [j EXCEPT !.at = at]
    OBVIOUS
  <2>4. k \in JobType /\ EnvOK(k, f, obj)
    BY <1>2, <1>3, <1>4, <1>6, <2>2, <2>3, GivesUp
  <2>5. job' = [job EXCEPT ![e] = k] /\ k.at \notin {"in", "out", "again", "spawn"}
    BY <1>2, <1>3, <1>7, <2>1, <2>2, <2>3 DEF Go, JobType
  <2>6. FdsOK'
    BY <1>7, UnchangedOK DEF ShellInv
  <2>7. fd' = fd /\ obj' = obj
    BY <1>7 DEF Unchanged
  <2>8. EnvOK(k, f, obj') /\ f = fd'[e]
    BY <1>4, <2>4, <2>7
  <2> QED BY <1>1, <2>4, <2>5, <2>6, <2>7, <2>8, OneMoves
<1>8. PICK l : l = Least(FreeObjs)
  OBVIOUS
<1>9. PICK i : i = Least(FreeFds(e))
  OBVIOUS
<1>10. PICK mode : mode = Opens[j.at].mode
  OBVIOUS
<1>11. PICK file : file = [[NoObj EXCEPT !.dev = "file"] EXCEPT !.mode = mode]
  OBVIOUS
<1>12. CASE /\ FreeObjs # {}
            /\ Descriptors([fd EXCEPT ![e][i] = l], [obj EXCEPT ![l] = file])
            /\ job' = [job EXCEPT ![e].at = Opens[j.at].ok, ![e].fd = i]
  <2>1. l \in Obj /\ obj[l] = NoObj
    <3>1. FreeObjs \in SUBSET Nat
      BY DEF FreeObjs, Obj
    <3> QED BY <1>8, <1>12, <3>1, LeastIs DEF FreeObjs
  <2>2. i \in Fd /\ f[i] = 0
    <3>1. FreeFds(e) \in SUBSET Nat
      BY DEF FreeFds, Fd
    <3> QED BY <1>4, <1>5, <1>9, <3>1, LeastIs DEF FreeFds
  <2>3. file \in ObjType /\ file.dev = "file"
    <3>1. mode \in {"r", "w"}
      BY <1>5, <1>10, OpensIs
    <3> QED BY <1>11, <3>1 DEF ObjType, NoObj
  <2>4. PICK o : o = [obj EXCEPT ![l] = file]
    OBVIOUS
  <2>5. o \in [Obj -> ObjType] /\ \A x \in Obj : o[x] = IF x = l THEN file ELSE obj[x]
    BY <1>2, <2>1, <2>3, <2>4
  <2>6. PICK g : g = [f EXCEPT ![i] = l]
    OBVIOUS
  <2>7. g \in [Fd -> Obj \cup {0}] /\ \A x \in Fd : g[x] = IF x = i THEN l ELSE f[x]
    BY <1>2, <1>4, <2>1, <2>2, <2>6
  <2>8. \A x \in Fd : f[x] # 0 => f[x] # l /\ f[x] \in Obj
    BY <1>2, <1>4, <2>1 DEF NoObj
  <2>9. \A x \in Fd : Piped(g, o, x) => Piped(f, obj, x) /\ g[x] = f[x] /\ o[g[x]] = obj[f[x]]
    BY <2>1, <2>3, <2>5, <2>7, <2>8 DEF Piped
  <2>10. PICK at : at = Opens[j.at].ok
    OBVIOUS
  <2>11. at \in {"in_dup", "again", "out_dup", "spawn_env"} /\ (at = "spawn_env" <=> j.at = "spawn")
    BY <1>5, <2>10, OpensIs
  <2>12. PICK k : k = [j EXCEPT !.at = at, !.fd = i]
    OBVIOUS
  <2>13. k \in JobType /\ k.at = at /\ k.fd = i /\ SameWords(j, k) /\ k.p = j.p
    <3>1. at \in Place /\ j \in JobType /\ i \in Fd
      BY <1>2, <1>3, <2>2, <2>11
    <3> QED BY ONLY <2>12, <3>1, ZenonT(120) DEF JobType, SameWords
  <2>14. k.prog = "run" /\ k.prog \notin Programs /\ j.at \in {"in", "out", "again", "spawn"}
    BY <1>5, <1>6, <2>13 DEF SameWords
  <2>15. WordsOK(k)
    <3>1. k.at \in {"in", "out", "again"} => j.c = "w"
      BY <1>2, <1>3, <1>5, <2>11, <2>13 DEF EnvOK, WordsOK
    <3>2. k.at \in {"spawn", "spawn_env"} => j.argv # <<>>
      BY <1>2, <1>3, <2>11, <2>13 DEF EnvOK, WordsOK
    <3> QED BY <1>2, <1>3, <2>13, <3>1, <3>2, WordsKept DEF EnvOK
  <2>16. ProgOK(k)
    BY <2>11, <2>13, <2>14 DEF ProgOK
  <2>17. EndsOK(k, g, o)
    <3> SUFFICES ASSUME NEW x \in Fd, Piped(g, o, x) PROVE MayHave(k, x, o[g[x]].mode)
      BY DEF EndsOK
    <3>1. MayHave(j, x, obj[f[x]].mode)
      BY <1>2, <1>3, <1>4, <1>5, <2>9 DEF EnvOK, Placed, EndsOK
    <3> QED BY <1>6, <2>9, <2>11, <2>13, <2>14, <3>1 DEF MayHave
  <2>18. at # "spawn_env" => f[0] # 0 /\ f[1] # 0
    BY <1>2, <1>3, <1>4, <1>5, <2>11 DEF EnvOK, Placed, StdioOK
  <2>19. 0 \in Fd /\ 1 \in Fd /\ 0 \notin Obj
    BY ShellAssumption DEF Fd, Obj
  <2>20. StdioOK(k, g)
    BY <2>1, <2>7, <2>11, <2>13, <2>14, <2>18, <2>19 DEF StdioOK
  <2>21. RedirectOK(k, g, o)
    BY <2>1, <2>2, <2>3, <2>5, <2>7, <2>11, <2>13, <2>18, <2>19 DEF RedirectOK
  <2>22. ClosedOK(k, g) /\ PipeOK(k, g, o)
    BY <2>11, <2>13 DEF ClosedOK, PipeOK
  <2>23. EnvOK(k, g, o)
    BY <2>15, <2>16, <2>17, <2>20, <2>21, <2>22 DEF EnvOK, Placed
  <2>24. job' = [job EXCEPT ![e] = k]
    BY <1>3, <1>12, <2>10, <2>12
  <2>25. PICK h : h = [fd EXCEPT ![e] = g]
    OBVIOUS
  <2>26. Descriptors(h, o)
    BY <1>4, <1>12, <2>4, <2>6, <2>25
  <2>27. \A x \in Obj : o[x].dev = "pipe" => o[x].pipe \in PipeNo
    BY <1>2, <2>3, <2>5
  <2>28. \A x \in Obj : obj[x] # NoObj => o[x] = obj[x]
    BY <2>1, <2>5
  <2>29. \A x \in Fd : g[x] # 0 => o[g[x]].dev # "none"
    BY <1>2, <1>4, <2>1, <2>3, <2>5, <2>7, <2>8
  <2> QED BY <1>1, <2>5, <2>7, <2>13, <2>23, <2>24, <2>25, <2>26, <2>27, <2>28, <2>29, FdStep
<1>13. \/ Go(e, Opens[j.at].bad) /\ Unchanged
       \/ /\ FreeObjs # {}
          /\ Descriptors([fd EXCEPT ![e][i] = l], [obj EXCEPT ![l] = file])
          /\ job' = [job EXCEPT ![e].at = Opens[j.at].ok, ![e].fd = i]
  BY <1>3, <1>8, <1>9, <1>10, <1>11 DEF opened
<1> QED BY <1>7, <1>12, <1>13

(* pipe: two descriptors and two pages, none of them in use.               *)
LEMMA PipeInv ==
    ASSUME ShellInv, NEW e \in Env, pipe(e)
    PROVE  ShellInv'
<1>1. st[e] = "runnable" /\ job[e].at = "pipe" /\ UNCHANGED <<id, st, list>>
  BY DEF pipe, In, Same
<1>2. /\ job[e] \in JobType /\ EnvOK(job[e], fd[e], obj) /\ fd[e] \in [Fd -> Obj \cup {0}] /\ obj \in [Obj -> ObjType]
      /\ \A l \in Obj : obj[l].dev = "pipe" => obj[l].pipe \in PipeNo
      /\ \A i \in Fd : fd[e][i] # 0 => fd[e][i] \in Obj /\ obj[fd[e][i]].dev # "none"
  BY <1>1, LiveIs
<1>3. PICK j : j = job[e]
  OBVIOUS
<1>4. PICK f : f = fd[e]
  OBVIOUS
<1>5. j.prog = "run" /\ j.prog \notin Programs
  BY <1>1, <1>2, <1>3 DEF EnvOK, ProgOK
<1>6. CASE Go(e, "exit") /\ Unchanged
  <2>1. PICK k : k = [j EXCEPT !.at = "exit"]
    OBVIOUS
  <2>2. k \in JobType /\ EnvOK(k, f, obj)
    BY <1>2, <1>3, <1>4, <2>1, GivesUp
  <2>3. job' = [job EXCEPT ![e] = k]
    BY <1>3, <1>6, <2>1 DEF Go
  <2> QED BY <1>1, <1>4, <1>6, <2>2, <2>3, JobStep
<1>7. PICK r : r = Least(FreeFds(e))
  OBVIOUS
<1>8. PICK w : w = Least(FreeFds(e) \ {r})
  OBVIOUS
<1>9. PICK l : l = Least(FreeObjs)
  OBVIOUS
<1>10. PICK m : m = Least(FreeObjs \ {l})
  OBVIOUS
<1>11. PICK q : q = Least(FreePipes)
  OBVIOUS
<1>12. PICK or : or = [[[NoObj EXCEPT !.dev = "pipe"] EXCEPT !.pipe = q] EXCEPT !.mode = "r"]
  OBVIOUS
<1>13. PICK ow : ow = [[[NoObj EXCEPT !.dev = "pipe"] EXCEPT !.pipe = q] EXCEPT !.mode = "w"]
  OBVIOUS
<1>14. CASE /\ ~ (Cardinality(FreeFds(e)) < 2 \/ Cardinality(FreeObjs) < 2 \/ FreePipes = {})
            /\ Descriptors([fd EXCEPT ![e][r] = l, ![e][w] = m], [obj EXCEPT ![l] = or, ![m] = ow])
            /\ job' = [job EXCEPT ![e].at = "pipe_fork", ![e].p = <<r, w>>]
  <2>1. ASSUME NEW S \in SUBSET Nat, IsFiniteSet(S), ~ (Cardinality(S) < 2)
        PROVE  Least(S) \in S /\ Least(S \ {Least(S)}) \in S \ {Least(S)}
    <3>1. S # {} /\ Cardinality(S) \in Nat
      BY <2>1, FS_EmptySet, FS_CardinalityType
    <3>2. Least(S) \in S
      BY <3>1, LeastIs
    <3>3. Cardinality(S \ {Least(S)}) = Cardinality(S) - 1
      BY <2>1, <3>2, FS_RemoveElement
    <3>4. S \ {Least(S)} # {}
      BY <2>1, <3>1, <3>3, FS_EmptySet
    <3> QED BY <3>2, <3>4, LeastIs
  <2>2. r \in Fd /\ f[r] = 0 /\ w \in Fd /\ f[w] = 0 /\ r # w
    <3>1. IsFiniteSet(Fd) /\ FreeFds(e) \in SUBSET Fd /\ Fd \in SUBSET Nat
      BY ShellAssumption, FS_Interval DEF Fd, FreeFds
    <3>2. IsFiniteSet(FreeFds(e))
      BY <3>1, FS_Subset
    <3>3. r \in FreeFds(e) /\ w \in FreeFds(e) \ {r}
      BY <1>7, <1>8, <1>14, <2>1, <3>1, <3>2
    <3> QED BY <1>4, <3>3 DEF FreeFds
  <2>3. l \in Obj /\ obj[l] = NoObj /\ m \in Obj /\ obj[m] = NoObj /\ l # m
    <3>1. IsFiniteSet(Obj) /\ FreeObjs \in SUBSET Obj /\ Obj \in SUBSET Nat
      BY ShellAssumption, FS_Interval DEF Obj, FreeObjs
    <3>2. IsFiniteSet(FreeObjs)
      BY <3>1, FS_Subset
    <3>3. l \in FreeObjs /\ m \in FreeObjs \ {l}
      BY <1>9, <1>10, <1>14, <2>1, <3>1, <3>2
    <3> QED BY <3>3 DEF FreeObjs
  <2>4. q \in PipeNo
    <3>1. FreePipes \in SUBSET Nat /\ FreePipes \in SUBSET PipeNo /\ FreePipes # {}
      BY <1>14 DEF FreePipes, PipeNo
    <3> QED BY <1>11, <3>1, LeastIs
  <2>5. /\ or \in ObjType /\ or.dev = "pipe" /\ or.mode = "r" /\ or.pipe = q
        /\ ow \in ObjType /\ ow.dev = "pipe" /\ ow.mode = "w" /\ ow.pipe = q
    BY <1>12, <1>13, <2>4 DEF ObjType, NoObj
  <2>6. PICK o : o = [obj EXCEPT ![l] = or, ![m] = ow]
    OBVIOUS
  <2>7. o \in [Obj -> ObjType] /\ o[l] = or /\ o[m] = ow /\ \A x \in Obj : x \notin {l, m} => o[x] = obj[x]
    BY <1>2, <2>3, <2>5, <2>6
  <2>8. PICK g : g = [f EXCEPT ![r] = l, ![w] = m]
    OBVIOUS
  <2>9. /\ g \in [Fd -> Obj \cup {0}] /\ g[r] = l /\ g[w] = m
        /\ \A x \in Fd : x \notin {r, w} => g[x] = f[x]
    BY <1>2, <1>4, <2>2, <2>3, <2>8
  <2>10. \A x \in Fd : f[x] # 0 => f[x] \notin {l, m} /\ f[x] \in Obj
    BY <1>2, <1>4, <2>3 DEF NoObj
  <2>11. 0 \in Fd /\ 1 \in Fd /\ 0 \notin Obj /\ f[0] # 0 /\ f[1] # 0
    BY <1>1, <1>2, <1>3, <1>4, ShellAssumption DEF Fd, Obj, EnvOK, Placed, StdioOK
  <2>12. r \notin {0, 1} /\ w \notin {0, 1}
    BY <2>2, <2>11
  <2>13. PICK p : p = <<r, w>>
    OBVIOUS
  <2>14. p \in Fd \X Fd /\ p[1] = r /\ p[2] = w
    BY <2>2, <2>13
  <2>15. PICK k : k = [j EXCEPT !.at = "pipe_fork", !.p = p]
    OBVIOUS
  <2>16. k \in JobType /\ k.at = "pipe_fork" /\ k.p = p /\ SameWords(j, k)
    BY <1>2, <1>3, <2>14, <2>15, ZenonT(120) DEF JobType, SameWords
  <2>17. k.prog = "run" /\ k.prog \notin Programs
    BY <1>5, <2>16 DEF SameWords
  <2>18. WordsOK(k) /\ ProgOK(k)
    <3>1. WordsOK(k)
      BY <1>2, <1>3, <2>16, WordsKept DEF EnvOK
    <3>2. ProgOK(k)
      BY <2>16, <2>17 DEF ProgOK
    <3> QED BY <3>1, <3>2
  <2>19. EndsOK(k, g, o)
    <3> SUFFICES ASSUME NEW x \in Fd, Piped(g, o, x) PROVE MayHave(k, x, o[g[x]].mode)
      BY DEF EndsOK
    <3>1. CASE x \in {r, w}
      BY <2>5, <2>7, <2>9, <2>14, <2>16, <3>1 DEF MayHave
    <3>2. CASE x \notin {r, w}
      <4>1. g[x] = f[x] /\ f[x] # 0 /\ o[f[x]] = obj[f[x]] /\ Piped(f, obj, x)
        BY <2>7, <2>9, <2>10, <3>2 DEF Piped
      <4>2. MayHave(j, x, obj[f[x]].mode)
        BY <1>1, <1>2, <1>3, <1>4, <4>1 DEF EnvOK, Placed, EndsOK
      <4> QED BY <1>1, <1>3, <1>5, <2>16, <2>17, <4>1, <4>2 DEF MayHave
    <3> QED BY <3>1, <3>2
  <2>20. StdioOK(k, g)
    BY <2>9, <2>11, <2>12 DEF StdioOK
  <2>21. PipeOK(k, g, o)
    <3>1. Piped(g, o, r) /\ o[g[r]].mode = "r" /\ Piped(g, o, w) /\ o[g[w]].mode = "w"
      BY <2>3, <2>5, <2>7, <2>9, <2>11 DEF Piped
    <3> QED BY <2>2, <2>12, <2>14, <2>16, <3>1 DEF PipeOK
  <2>22. ClosedOK(k, g) /\ RedirectOK(k, g, o)
    BY <2>16 DEF ClosedOK, RedirectOK
  <2>23. EnvOK(k, g, o)
    BY <2>18, <2>19, <2>20, <2>21, <2>22 DEF EnvOK, Placed
  <2>24. job' = [job EXCEPT ![e] = k]
    BY <1>3, <1>14, <2>13, <2>15
  <2>25. PICK h : h = [fd EXCEPT ![e] = g]
    OBVIOUS
  <2>26. Descriptors(h, o)
    <3>1. [fd EXCEPT ![e][r] = l, ![e][w] = m] = h
      BY <1>2, <1>4, <2>8, <2>25
    <3> QED BY <1>14, <2>6, <3>1
  <2>27. \A x \in Obj : o[x].dev = "pipe" => o[x].pipe \in PipeNo
    BY <1>2, <2>4, <2>5, <2>7
  <2>28. \A x \in Obj : obj[x] # NoObj => o[x] = obj[x]
    BY <2>3, <2>7
  <2>29. \A x \in Fd : g[x] # 0 => o[g[x]].dev # "none"
    <3> SUFFICES ASSUME NEW x \in Fd, g[x] # 0 PROVE o[g[x]].dev # "none"
      OBVIOUS
    <3>1. CASE x \in {r, w}
      BY <2>5, <2>7, <2>9, <3>1
    <3>2. CASE x \notin {r, w}
      BY <1>2, <1>4, <2>7, <2>9, <2>10, <3>2
    <3> QED BY <3>1, <3>2
  <2>30. st' = [st EXCEPT ![e] = "runnable"]
    BY <1>1 DEF ShellInv, SlotsOK
  <2> QED BY <1>1, <2>7, <2>9, <2>16, <2>23, <2>24, <2>25, <2>26, <2>27, <2>28, <2>29, <2>30, FdStep
<1>15. \/ Go(e, "exit") /\ Unchanged
       \/ /\ ~ (Cardinality(FreeFds(e)) < 2 \/ Cardinality(FreeObjs) < 2 \/ FreePipes = {})
          /\ Descriptors([fd EXCEPT ![e][r] = l, ![e][w] = m], [obj EXCEPT ![l] = or, ![m] = ow])
          /\ job' = [job EXCEPT ![e].at = "pipe_fork", ![e].p = <<r, w>>]
  BY <1>7, <1>8, <1>9, <1>10, <1>11, <1>12, <1>13 DEF pipe
<1> QED BY <1>6, <1>14, <1>15

(* fork for the right side of a pipe: it has all that the environment has. *)
LEMMA PipeForkInv ==
    ASSUME ShellInv, NEW e \in Env, pipe_fork(e)
    PROVE  ShellInv'
<1>1. st[e] = "runnable" /\ job[e].at = "pipe_fork"
  BY DEF pipe_fork, In
<1>2. /\ job[e] \in JobType /\ EnvOK(job[e], fd[e], obj) /\ fd[e] \in [Fd -> Obj \cup {0}]
      /\ \A i \in Fd : fd[e][i] # 0 => obj[fd[e][i]].dev # "none"
  BY <1>1, LiveIs
<1>3. PICK j : j = job[e]
  OBVIOUS
<1>4. PICK f : f = fd[e]
  OBVIOUS
<1>5. j.prog = "run" /\ j.prog \notin Programs
  BY <1>1, <1>2, <1>3 DEF EnvOK, ProgOK
<1>6. CASE Go(e, "exit") /\ Unchanged /\ Same
  <2>1. PICK k : k = [j EXCEPT !.at = "exit"]
    OBVIOUS
  <2>2. k \in JobType /\ EnvOK(k, f, obj)
    BY <1>2, <1>3, <1>4, <2>1, GivesUp
  <2>3. job' = [job EXCEPT ![e] = k] /\ UNCHANGED <<id, st, list>>
    BY <1>3, <1>6, <2>1 DEF Go, Same
  <2> QED BY <1>1, <1>4, <1>6, <2>2, <2>3, JobStep
<1>7. ASSUME NEW k, NEW at \in {"right_dup", "left_dup"}, NEW r \in EnvRef, k = [j EXCEPT !.at = at, !.rightpipe = r]
      PROVE  k \in JobType /\ EnvOK(k, f, obj)
  <2>1. k \in JobType /\ k.at = at /\ SameWords(j, k) /\ k.p = j.p
    <3>1. at \in Place /\ j \in JobType
      BY <1>2, <1>3
    <3> QED BY ONLY <1>7, <3>1, ZenonT(120) DEF JobType, SameWords
  <2>2. k.prog = "run" /\ k.prog \notin Programs
    BY <1>5, <2>1 DEF SameWords
  <2>3. WordsOK(k)
    BY <1>2, <1>3, <2>1, WordsKept DEF EnvOK
  <2>4. ProgOK(k)
    BY <2>1, <2>2 DEF ProgOK
  <2>5. EndsOK(k, f, obj)
    BY <1>1, <1>2, <1>3, <1>4, <1>5, <2>1, <2>2 DEF EnvOK, Placed, EndsOK, MayHave
  <2>6. StdioOK(k, f) /\ PipeOK(k, f, obj)
    BY <1>1, <1>2, <1>3, <1>4, <2>1 DEF EnvOK, Placed, StdioOK, PipeOK
  <2>7. ClosedOK(k, f) /\ RedirectOK(k, f, obj)
    BY <2>1 DEF ClosedOK, RedirectOK
  <2> QED BY <2>1, <2>3, <2>4, <2>5, <2>6, <2>7 DEF EnvOK, Placed
<1>8. CASE /\ list # <<>>
           /\ Starts(e, [j EXCEPT !.at = "right_dup"], f, [j EXCEPT !.at = "left_dup", !.rightpipe = Child])
  <2>1. Child \in EnvRef
    BY <1>8, ChildIs DEF ShellInv
  <2>2. PICK c : c = Child
    OBVIOUS
  <2>3. PICK h : h = [j EXCEPT !.at = "right_dup"]
    OBVIOUS
  <2>4. PICK k : k = [j EXCEPT !.at = "left_dup", !.rightpipe = c]
    OBVIOUS
  <2>5. h \in JobType /\ EnvOK(h, f, obj)
    <3>1. PICK r : r = j.rightpipe
      OBVIOUS
    <3>2. r \in EnvRef /\ h = [j EXCEPT !.at = "right_dup", !.rightpipe = r]
      BY <1>2, <1>3, <2>3, <3>1 DEF JobType
    <3> QED BY <1>7, <3>2
  <2>6. k \in JobType /\ EnvOK(k, f, obj)
    BY <1>7, <2>1, <2>2, <2>4
  <2>7. Starts(e, h, f, k)
    BY <1>8, <2>2, <2>3, <2>4
  <2> QED BY <1>1, <1>2, <1>4, <1>8, <2>5, <2>6, <2>7, StartsStep
<1> QED BY <1>3, <1>4, <1>6, <1>8 DEF pipe_fork

(* A job of nobody yet.                                                    *)
New(prog, at, s) == [NoJob EXCEPT !.prog = prog, !.at = at, !.s = s]

Fresh(k, prog, at, s) ==
    /\ k \in JobType /\ k.prog = prog /\ k.at = at /\ k.s = s /\ k.argv = <<>>
    /\ k.c = "0" /\ k.nc = "0" /\ k.np2 = 0

(* A new job is a job.                                                     *)
LEMMA NewJob ==
    ASSUME NEW prog \in {"init", "sh", "run"} \cup Programs, NEW at \in Place, NEW s \in Seq(STRING)
    PROVE  Fresh(New(prog, at, s), prog, at, s)
<1>0. PICK k : k = New(prog, at, s)
  OBVIOUS
<1>1. PICK none : none = NoEnv
  OBVIOUS
<1>2. none \in EnvRef
  BY <1>1, ShellAssumption DEF EnvRef, NoEnv, Env
<1>3. 0 \in Fd /\ <<0, 0>> \in Fd \X Fd
  BY ShellAssumption DEF Fd
<1>4. PICK ch : ch = "0"
  OBVIOUS
<1>5. ch \in Token /\ ch # "w"
  BY <1>4, Tokens
<1>6. PICK a : a = <<>>
  OBVIOUS
<1>7. a \in Seq(Nat) /\ Len(a) = 0
  BY <1>6, EmptySeq
<1>8. PICK p : p = <<0, 0>>
  OBVIOUS
<1>9. p \in Fd \X Fd
  BY <1>3, <1>8
<1>10. k = [prog |-> prog, at |-> at, s |-> s, nul |-> {}, c |-> ch, t |-> 0,
            nc |-> ch, np1 |-> 0, np2 |-> 0, argv |-> a, fd |-> 0, p |-> p,
            child |-> none, rightpipe |-> none, n |-> 0]
  BY <1>0, <1>1, <1>4, <1>6, <1>8 DEF NoJob, New
<1>11. k \in JobType
  BY <1>2, <1>3, <1>5, <1>7, <1>9, <1>10 DEF JobType
<1>12. k.prog = prog /\ k.at = at /\ k.s = s /\ k.argv = a /\ k.c = ch /\ k.nc = ch /\ k.np2 = 0
  BY <1>10
<1> QED BY <1>0, <1>4, <1>6, <1>11, <1>12 DEF Fresh

(* It has no words yet.                                                    *)
LEMMA NoWords ==
    ASSUME NEW k \in JobType, k.c = "0", k.nc = "0", k.np2 = 0, k.argv = <<>>
    PROVE  LineOK(k)
<1>1. Len(k.s) \in Nat /\ Len(k.argv) = 0
  BY DEF JobType
<1>2. k.c # "w" /\ k.nc # "w"
  BY Tokens
<1> QED BY <1>1, <1>2 DEF LineOK

(* spawn: the command has the environment's descriptors, but for its file. *)
LEMMA SpawnInv ==
    ASSUME ShellInv, NEW e \in Env, spawn(e)
    PROVE  ShellInv'
<1>1. st[e] = "runnable" /\ job[e].at = "spawn_env"
  BY DEF spawn, In
<1>2. /\ job[e] \in JobType /\ EnvOK(job[e], fd[e], obj) /\ fd[e] \in [Fd -> Obj \cup {0}]
      /\ \A i \in Fd : fd[e][i] # 0 => obj[fd[e][i]].dev # "none"
  BY <1>1, LiveIs
<1>3. PICK j : j = job[e]
  OBVIOUS
<1>4. PICK f : f = fd[e]
  OBVIOUS
<1>5. j.prog = "run" /\ j.prog \notin Programs
  BY <1>1, <1>2, <1>3 DEF EnvOK, ProgOK
<1>6. CASE Go(e, "close_all") /\ Unchanged /\ Same
  <2>1. PICK k : k = [j EXCEPT !.at = "close_all"]
    OBVIOUS
  <2>2. k \in JobType /\ EnvOK(k, f, obj)
    BY <1>2, <1>3, <1>4, <1>5, <2>1, GivesUp
  <2>3. job' = [job EXCEPT ![e] = k] /\ UNCHANGED <<id, st, list>>
    BY <1>3, <1>6, <2>1 DEF Go, Same
  <2> QED BY <1>1, <1>4, <1>6, <2>2, <2>3, JobStep
<1>7. CASE /\ list # <<>> /\ Loads(e) \in Programs
           /\ Starts(e, [NoJob EXCEPT !.prog = Loads(e), !.at = "start", !.s = j.s],
                     [f EXCEPT ![j.fd] = 0], [j EXCEPT !.at = "close_all", !.child = Child])
  <2>1. PICK prog \in Programs : prog = Loads(e)
    BY <1>7
  <2>2. PICK h : h = [NoJob EXCEPT !.prog = prog, !.at = "start", !.s = j.s]
    OBVIOUS
  <2>3. PICK c : c = Child
    OBVIOUS
  <2>4. PICK k : k = [j EXCEPT !.at = "close_all", !.child = c]
    OBVIOUS
  <2>5. PICK g : g = [f EXCEPT ![j.fd] = 0]
    OBVIOUS
  <2>6. /\ g \in [Fd -> Obj \cup {0}] /\ \A i \in Fd : g[i] # 0 => g[i] = f[i] /\ obj[g[i]].dev # "none"
    BY <1>2, <1>4, <2>5
  <2>7. /\ h \in JobType /\ h.prog = prog /\ h.at = "start" /\ LineOK(h)
        /\ h.prog \notin {"init", "sh", "run"}
    <3>1. j.s \in Seq(STRING)
      BY <1>2, <1>3 DEF JobType
    <3>2. h = New(prog, "start", j.s) /\ "start" \in Place
      BY <2>2 DEF New
    <3>3. Fresh(h, prog, "start", j.s)
      BY <3>1, <3>2, NewJob
    <3>4. LineOK(h)
      BY <3>3, NoWords DEF Fresh
    <3> QED BY <3>3, <3>4, ShellAssumption DEF Fresh
  <2>8. EnvOK(h, g, obj)
    <3>1. WordsOK(h) /\ ProgOK(h)
      BY <2>7 DEF WordsOK, ProgOK
    <3>2. \A i \in Fd : Piped(g, obj, i) => MayHave(j, i, obj[g[i]].mode)
      BY <1>1, <1>2, <1>3, <1>4, <2>6 DEF Piped, EnvOK, Placed, EndsOK
    <3>3. EndsOK(h, g, obj)
      BY <1>1, <1>3, <2>7, <3>2 DEF EndsOK, MayHave
    <3>4. StdioOK(h, g) /\ ClosedOK(h, g) /\ RedirectOK(h, g, obj) /\ PipeOK(h, g, obj)
      BY <2>7 DEF StdioOK, ClosedOK, RedirectOK, PipeOK
    <3> QED BY <3>1, <3>3, <3>4 DEF EnvOK, Placed
  <2>9. c \in EnvRef
    BY <1>7, <2>3, ChildIs DEF ShellInv
  <2>10. k \in JobType /\ k.at = "close_all" /\ SameWords(j, k)
    <3>1. j \in JobType /\ "close_all" \in Place
      BY <1>2, <1>3
    <3> QED BY ONLY <2>4, <2>9, <3>1, ZenonT(120) DEF JobType, SameWords
  <2>11. EnvOK(k, g, obj)
    <3>1. WordsOK(k)
      BY <1>2, <1>3, <2>10, WordsKept DEF EnvOK
    <3>2. ProgOK(k)
      BY <1>5, <2>10 DEF ProgOK, SameWords
    <3>3. Placed(k, g, obj)
      BY <1>5, <2>10 DEF Placed, EndsOK, StdioOK, ClosedOK, RedirectOK, PipeOK, SameWords
    <3> QED BY <3>1, <3>2, <3>3 DEF EnvOK
  <2>12. Starts(e, h, g, k)
    BY <1>7, <2>1, <2>2, <2>3, <2>4, <2>5
  <2> QED BY <1>1, <1>7, <2>6, <2>7, <2>8, <2>10, <2>11, <2>12, StartsStep
<1> QED BY <1>3, <1>4, <1>6, <1>7 DEF spawn

(* A new job without a line.                                               *)
LEMMA NoLine ==
    ASSUME NEW prog, NEW at
    PROVE  New(prog, at, <<>>) = [NoJob EXCEPT !.prog = prog, !.at = at]
<1>1. PICK none : none = NoEnv
  OBVIOUS
<1>2. PICK ch : ch = "0"
  OBVIOUS
<1>3. PICK a : a = <<>>
  OBVIOUS
<1>4. PICK p : p = <<0, 0>>
  OBVIOUS
<1>5. PICK j : j = [NoJob EXCEPT !.prog = prog, !.at = at, !.s = a]
  OBVIOUS
<1>6. PICK k : k = [NoJob EXCEPT !.prog = prog, !.at = at]
  OBVIOUS
<1>7. j = [prog |-> prog, at |-> at, s |-> a, nul |-> {}, c |-> ch, t |-> 0,
            nc |-> ch, np1 |-> 0, np2 |-> 0, argv |-> a, fd |-> 0, p |-> p,
            child |-> none, rightpipe |-> none, n |-> 0]
  BY <1>1, <1>2, <1>3, <1>4, <1>5 DEF NoJob
<1>8. k = [prog |-> prog, at |-> at, s |-> a, nul |-> {}, c |-> ch, t |-> 0,
            nc |-> ch, np1 |-> 0, np2 |-> 0, argv |-> a, fd |-> 0, p |-> p,
            child |-> none, rightpipe |-> none, n |-> 0]
  BY <1>1, <1>2, <1>3, <1>4, <1>6 DEF NoJob
<1> QED BY <1>3, <1>5, <1>6, <1>7, <1>8 DEF New

(* Who starts another and waits for it keeps its input and output.         *)
LEMMA WaitsForChild ==
    ASSUME ShellInv, NEW e \in Env, st[e] = "runnable", job[e].prog \in {"init", "sh"},
           job[e].at \in Prompting \cup {"start_sh"}, NEW c \in EnvRef
    PROVE  LET k == [job[e] EXCEPT !.at = "wait", !.child = c] IN k \in JobType /\ EnvOK(k, fd[e], obj)
<1>1. job[e] \in JobType /\ EnvOK(job[e], fd[e], obj)
  BY LiveIs
<1>2. PICK j : j = job[e]
  OBVIOUS
<1>3. PICK f : f = fd[e]
  OBVIOUS
<1>4. PICK k : k = [j EXCEPT !.at = "wait", !.child = c]
  OBVIOUS
<1>5. k \in JobType /\ k.at = "wait" /\ SameWords(j, k) /\ k.p = j.p
  <2>1. j \in JobType /\ "wait" \in Place
    BY <1>1, <1>2
  <2> QED BY ONLY <1>4, <2>1, c \in EnvRef, ZenonT(120) DEF JobType, SameWords
<1>6. k.prog \in {"init", "sh"} /\ k.prog = j.prog /\ k.prog \notin Programs
  BY <1>1, <1>2, <1>5 DEF SameWords, EnvOK, ProgOK
<1>7. WordsOK(k)
  BY <1>1, <1>2, <1>5, WordsKept DEF EnvOK
<1>8. ProgOK(k)
  BY <1>5, <1>6 DEF ProgOK
<1>9. EndsOK(k, f, obj)
  BY <1>1, <1>2, <1>3, <1>5, <1>6 DEF EnvOK, Placed, EndsOK, MayHave
<1>10. StdioOK(k, f)
  BY <1>1, <1>2, <1>3 DEF EnvOK, Placed, StdioOK
<1>11. ClosedOK(k, f) /\ RedirectOK(k, f, obj) /\ PipeOK(k, f, obj)
  BY <1>5, <1>6 DEF ClosedOK, RedirectOK, PipeOK
<1> QED BY <1>2, <1>3, <1>4, <1>5, <1>7, <1>8, <1>9, <1>10, <1>11 DEF EnvOK, Placed

(* fork of the shell: the child looks for the first token of the line.     *)
LEMMA ForkInv ==
    ASSUME ShellInv, NEW e \in Env, fork(e)
    PROVE  ShellInv'
<1>1. st[e] = "runnable" /\ job[e].at = "fork"
  BY DEF fork, In
<1>2. /\ job[e] \in JobType /\ EnvOK(job[e], fd[e], obj) /\ fd[e] \in [Fd -> Obj \cup {0}]
      /\ \A i \in Fd : fd[e][i] # 0 => obj[fd[e][i]].dev # "none"
  BY <1>1, LiveIs
<1>3. PICK j : j = job[e]
  OBVIOUS
<1>4. PICK f : f = fd[e]
  OBVIOUS
<1>5. j.prog = "sh" /\ j.prog \notin Programs
  BY <1>1, <1>2, <1>3 DEF EnvOK, ProgOK
<1>6. CASE Go(e, "exit") /\ Unchanged /\ Same
  <2>1. PICK k : k = [j EXCEPT !.at = "exit"]
    OBVIOUS
  <2>2. k \in JobType /\ EnvOK(k, f, obj)
    BY <1>2, <1>3, <1>4, <2>1, GivesUp
  <2>3. job' = [job EXCEPT ![e] = k] /\ UNCHANGED <<id, st, list>>
    BY <1>3, <1>6, <2>1 DEF Go, Same
  <2> QED BY <1>1, <1>4, <1>6, <2>2, <2>3, JobStep
<1>7. PICK line : line = [NoJob EXCEPT !.prog = "run", !.at = "token", !.s = j.s]
  OBVIOUS
<1>8. CASE /\ list # <<>>
           /\ Starts(e, _gettoken(line, 1), f, [j EXCEPT !.at = "wait", !.child = Child])
  <2>1. PICK h : h = _gettoken(line, 1)
    OBVIOUS
  <2>2. PICK c : c = Child
    OBVIOUS
  <2>3. PICK k : k = [j EXCEPT !.at = "wait", !.child = c]
    OBVIOUS
  <2>4. c \in EnvRef
    BY <1>8, <2>2, ChildIs DEF ShellInv
  <2>5. k \in JobType /\ EnvOK(k, f, obj)
    BY <1>1, <1>3, <1>4, <1>5, <2>3, <2>4, WaitsForChild
  <2>6. /\ line \in JobType /\ line.prog = "run" /\ line.at = "token" /\ line.c = "0" /\ line.argv = <<>>
        /\ Len(line.s) \in Nat
    <3>1. j.s \in Seq(STRING)
      BY <1>2, <1>3 DEF JobType
    <3>2. line = New("run", "token", j.s) /\ "token" \in Place
      BY <1>7 DEF New
    <3>3. Fresh(line, "run", "token", j.s)
      BY <3>1, <3>2, NewJob
    <3> QED BY <3>1, <3>3 DEF Fresh
  <2>7. 1 \in 1 .. Len(line.s) + 1
    BY <2>6
  <2>8. Scans(line, 1, h)
    BY <2>1, <2>6, <2>7, ScanIs
  <2>9. /\ h \in JobType /\ h.prog = "run" /\ h.at = "token" /\ h.c = "0" /\ h.argv = <<>> /\ h.s = line.s
        /\ h.prog \notin Programs
    BY <1>1, <2>6, <2>8, ShellAssumption DEF Scans, SameButToken, SameButLine
  <2>10. LineOK(h)
    <3>1. h.c # "w" /\ Len(h.argv) = 0
      BY <2>9, Tokens
    <3>2. h.np2 \in 0 .. Len(h.s) + 1
      BY <2>6, <2>8, <2>9 DEF Scans
    <3> QED BY <2>8, <3>1, <3>2 DEF LineOK, Scans
  <2>11. WordsOK(h) /\ ProgOK(h)
    BY <2>9, <2>10 DEF WordsOK, ProgOK
  <2>12. EndsOK(h, f, obj)
    BY <1>1, <1>2, <1>3, <1>4, <1>5, <2>9 DEF EnvOK, Placed, EndsOK, MayHave
  <2>13. StdioOK(h, f)
    BY <1>1, <1>2, <1>3, <1>4 DEF EnvOK, Placed, StdioOK
  <2>14. ClosedOK(h, f) /\ RedirectOK(h, f, obj) /\ PipeOK(h, f, obj)
    BY <2>9 DEF ClosedOK, RedirectOK, PipeOK
  <2>15. EnvOK(h, f, obj)
    BY <2>11, <2>12, <2>13, <2>14 DEF EnvOK, Placed
  <2>16. Starts(e, h, f, k)
    BY <1>8, <2>1, <2>2, <2>3
  <2> QED BY <1>1, <1>2, <1>4, <1>8, <2>5, <2>9, <2>15, <2>16, StartsStep
<1> QED BY <1>3, <1>4, <1>6, <1>7, <1>8 DEF fork

(* init starts a shell.                                                    *)
LEMMA StartShInv ==
    ASSUME ShellInv, NEW e \in Env, start_sh(e)
    PROVE  ShellInv'
<1>1. st[e] = "runnable" /\ job[e].at = "start_sh" /\ list # <<>>
  BY DEF start_sh, In
<1>2. /\ job[e] \in JobType /\ EnvOK(job[e], fd[e], obj) /\ fd[e] \in [Fd -> Obj \cup {0}]
      /\ \A i \in Fd : fd[e][i] # 0 => obj[fd[e][i]].dev # "none"
  BY <1>1, LiveIs
<1>3. PICK j : j = job[e]
  OBVIOUS
<1>4. PICK f : f = fd[e]
  OBVIOUS
<1>5. j.prog = "init" /\ j.prog \notin Programs
  BY <1>1, <1>2, <1>3 DEF EnvOK, ProgOK
<1>6. <<>> \in Seq(STRING)
  BY EmptySeq
<1>7. PICK h : h = New("sh", "readline", <<>>)
  OBVIOUS
<1>8. PICK c : c = Child
  OBVIOUS
<1>9. PICK k : k = [j EXCEPT !.at = "wait", !.child = c]
  OBVIOUS
<1>10. c \in EnvRef
  BY <1>1, <1>8, ChildIs DEF ShellInv
<1>11. k \in JobType /\ EnvOK(k, f, obj)
  BY <1>1, <1>3, <1>4, <1>5, <1>9, <1>10, WaitsForChild
<1>12. /\ h \in JobType /\ h.prog = "sh" /\ h.at = "readline" /\ h.c = "0" /\ h.nc = "0" /\ h.np2 = 0
       /\ h.argv = <<>> /\ LineOK(h) /\ h.prog \notin Programs
  <2>1. "readline" \in Place /\ "sh" \in {"init", "sh", "run"} \cup Programs
    OBVIOUS
  <2>2. Fresh(h, "sh", "readline", <<>>)
    BY <1>6, <1>7, <2>1, NewJob
  <2>3. LineOK(h) /\ h.prog \notin Programs
    BY <2>2, NoWords, ShellAssumption DEF Fresh
  <2> QED BY <2>2, <2>3 DEF Fresh
<1>13. WordsOK(h) /\ ProgOK(h)
  BY <1>12 DEF WordsOK, ProgOK
<1>14. EndsOK(h, f, obj)
  BY <1>1, <1>2, <1>3, <1>4, <1>5, <1>12 DEF EnvOK, Placed, EndsOK, MayHave
<1>15. StdioOK(h, f)
  BY <1>1, <1>2, <1>3, <1>4 DEF EnvOK, Placed, StdioOK
<1>16. ClosedOK(h, f) /\ RedirectOK(h, f, obj) /\ PipeOK(h, f, obj)
  BY <1>12 DEF ClosedOK, RedirectOK, PipeOK
<1>17. EnvOK(h, f, obj)
  BY <1>13, <1>14, <1>15, <1>16 DEF EnvOK, Placed
<1>18. h = [NoJob EXCEPT !.prog = "sh", !.at = "readline"]
  BY <1>7, NoLine
<1>19. Starts(e, h, f, k)
  BY <1>3, <1>4, <1>8, <1>9, <1>18 DEF start_sh
<1> QED BY <1>1, <1>2, <1>4, <1>11, <1>12, <1>17, <1>19, StartsStep

----------------------------------------------------------------------------
(* The specification.                                                      *)
(***************************************************************************)
LEMMA InitInv == Init => ShellInv
<1> SUFFICES ASSUME Init PROVE ShellInv
  OBVIOUS
<1>0. /\ NENV \in Nat /\ NENV >= 2 /\ 0 \in Env /\ 1 \in Env /\ MAXFD \in Nat /\ MAXFD >= 2 /\ 0 \in Fd /\ 1 \in Fd
      /\ 1 \in Obj /\ 0 \notin Obj
  BY ShellAssumption DEF Env, Fd, Obj
<1>1. SlotsOK
  <2>1. id \in [Env -> Nat] /\ st \in [Env -> {"free", "blocked", "runnable"}]
    BY DEF Init
  <2>2. NENV - 2 \in Nat
    BY <1>0
  <2>3. /\ list \in Seq(Env) /\ Len(list) = NENV - 2 /\ \A k \in 1 .. NENV - 2 : list[k] = k + 1
    <3>1. \A k \in 1 .. NENV - 2 : k + 1 \in Env
      BY <1>0 DEF Env
    <3>2. list = [k \in 1 .. NENV - 2 |-> k + 1]
      BY DEF Init
    <3> QED BY <2>2, <3>1, <3>2
  <2>4. \A k, l \in 1 .. Len(list) : list[k] = list[l] => k = l
    BY <2>2, <2>3
  <2>5. ASSUME NEW e \in Env PROVE st[e] = "free" <=> \E k \in 1 .. Len(list) : list[k] = e
    <3>1. st[e] = "free" <=> e \notin {0, 1}
      BY DEF Init
    <3>2. CASE e \in {0, 1}
      BY <2>2, <2>3, <3>1, <3>2
    <3>3. CASE e \notin {0, 1}
      <4>1. e - 1 \in 1 .. NENV - 2 /\ (e - 1) + 1 = e
        BY <1>0, <3>3 DEF Env
      <4>2. list[e - 1] = e
        BY <2>3, <4>1
      <4> QED BY <2>3, <3>1, <3>3, <4>1, <4>2
    <3> QED BY <3>2, <3>3
  <2> QED BY <2>1, <2>3, <2>4, <2>5 DEF SlotsOK
<1>2. /\ obj \in [Obj -> ObjType] /\ fd \in FdType /\ obj[1].dev = "cons"
      /\ \A k \in Obj : obj[k].dev # "pipe"
      /\ \A e \in Env : \A i \in Fd : fd[e][i] \in {0, 1}
      /\ \A e \in {0, 1} : fd[e][0] = 1 /\ fd[e][1] = 1
  <2>1. PICK cons : cons = [NoObj EXCEPT !.dev = "cons"]
    OBVIOUS
  <2>2. cons \in ObjType /\ NoObj \in ObjType /\ cons.dev = "cons" /\ NoObj.dev # "pipe"
    BY <2>1 DEF ObjType, NoObj
  <2>3. obj = [k \in Obj |-> IF k = 1 THEN cons ELSE NoObj]
    BY <2>1 DEF Init
  <2>4. /\ \A e \in Env : \A i \in Fd : fd[e][i] = IF e \in {0, 1} /\ i < 2 THEN 1 ELSE 0
        /\ fd \in FdType
    BY <1>0 DEF Init, NoFds, FdType
  <2> QED BY <1>0, <2>2, <2>3, <2>4
<1>3. FdsOK
  <2>1. unread \in [PipeNo -> 0 .. BY2PIPE]
    BY ShellAssumption DEF Init
  <2>2. \A e \in Env : \A i \in Fd : fd[e][i] # 0 => obj[fd[e][i]].dev # "none"
    BY <1>2
  <2> QED BY <1>2, <2>1, <2>2 DEF FdsOK
<1>4. PICK j : j = [NoJob EXCEPT !.prog = "init", !.at = "wait", !.child = [slot |-> 1, id |-> 1]]
  OBVIOUS
<1>5. PICK k : k = [NoJob EXCEPT !.prog = "sh", !.at = "readline"]
  OBVIOUS
<1>6. job = [e \in Env |-> CASE e = 0 -> j [] e = 1 -> k [] OTHER -> NoJob]
  BY <1>4, <1>5 DEF Init
<1>7. <<>> \in Seq(STRING) /\ {"init", "sh"} \cap Programs = {}
  BY EmptySeq, ShellAssumption
<1>8. /\ k \in JobType /\ k.prog = "sh" /\ k.at = "readline" /\ k.c = "0" /\ k.nc = "0" /\ k.np2 = 0
      /\ k.argv = <<>>
  <2>1. k = New("sh", "readline", <<>>) /\ "readline" \in Place /\ "sh" \in {"init", "sh", "run"} \cup Programs
    BY <1>5, NoLine
  <2>2. Fresh(k, "sh", "readline", <<>>)
    BY <1>7, <2>1, NewJob
  <2> QED BY <2>2 DEF Fresh
<1>9. /\ j \in JobType /\ j.prog = "init" /\ j.at = "wait" /\ j.c = "0" /\ j.nc = "0" /\ j.np2 = 0
      /\ j.argv = <<>>
  <2>1. PICK h : h = [NoJob EXCEPT !.prog = "init", !.at = "wait"]
    OBVIOUS
  <2>2. h = New("init", "wait", <<>>) /\ "wait" \in Place /\ "init" \in {"init", "sh", "run"} \cup Programs
    BY <2>1, NoLine
  <2>3. Fresh(h, "init", "wait", <<>>)
    BY <1>7, <2>2, NewJob
  <2>4. PICK c : c = [slot |-> 1, id |-> 1]
    OBVIOUS
  <2>5. c \in EnvRef
    BY <1>0, <2>4 DEF EnvRef
  <2>6. j = [h EXCEPT !.child = c]
    BY <1>4, <2>1, <2>4
  <2> QED BY <2>3, <2>5, <2>6 DEF JobType, Fresh
<1>10. LineOK(j) /\ LineOK(k)
  BY <1>8, <1>9, NoWords
<1>11. \A e \in Env : st[e] = (IF e \in {0, 1} THEN "runnable" ELSE "free")
          /\ job[e] = (IF e = 0 THEN j ELSE IF e = 1 THEN k ELSE NoJob)
  BY <1>6 DEF Init
<1>12. JobsOK
  <2>1. job \in [Env -> JobType \cup {NoJob}]
    BY <1>6, <1>8, <1>9
  <2> QED BY <1>8, <1>9, <1>11, <2>1 DEF JobsOK
<1>13. ASSUME NEW e \in {0, 1}, NEW m \in {j, k} PROVE EnvOK(m, fd[e], obj)
  <2>1. WordsOK(m) /\ ProgOK(m)
    BY <1>7, <1>8, <1>9, <1>10 DEF WordsOK, ProgOK
  <2>2. PICK f : f = fd[e]
    OBVIOUS
  <2>3. f[0] = 1 /\ f[1] = 1 /\ \A i \in Fd : f[i] \in {0, 1}
    BY <1>0, <1>2, <2>2
  <2>4. \A i \in Fd : ~ Piped(f, obj, i)
    BY <1>0, <1>2, <2>3 DEF Piped
  <2>5. Placed(m, f, obj)
    BY <1>8, <1>9, <2>3, <2>4 DEF Placed, EndsOK, ClosedOK, StdioOK, RedirectOK, PipeOK
  <2> QED BY <2>1, <2>2, <2>5 DEF EnvOK
<1>14. \A e \in Env : st[e] # "free" => EnvOK(job[e], fd[e], obj)
  BY <1>11, <1>13
<1> QED BY <1>1, <1>3, <1>12, <1>14 DEF ShellInv

(* Every step keeps the invariant.                                         *)
LEMMA StepInv == ShellInv /\ [Next]_vars => ShellInv'
<1> SUFFICES ASSUME ShellInv, [Next]_vars PROVE ShellInv'
  OBVIOUS
<1>1. CASE UNCHANGED vars
  BY <1>1 DEF vars, ShellInv, SlotsOK, JobsOK, FdsOK
<1>2. ASSUME NEW e \in Env, Step(e) PROVE ShellInv'
  <2>1. CASE open(e) BY <2>1, OpenInv
  <2>2. CASE opened(e) BY <2>2, OpenedInv
  <2>3. CASE runcmd(e) BY <2>3, RuncmdInv
  <2>4. CASE redirect(e) BY <2>4, RedirectInv
  <2>5. CASE pipe(e) BY <2>5, PipeInv
  <2>6. CASE pipe_fork(e) BY <2>6, PipeForkInv
  <2>7. CASE right(e) BY <2>7, RightInv
  <2>8. CASE left(e) BY <2>8, LeftInv
  <2>9. CASE runit(e) BY <2>9, RunitInv
  <2>10. CASE spawn(e) BY <2>10, SpawnInv
  <2>11. CASE close_all(e) BY <2>11, CloseAllInv
  <2>12. CASE wait(e) BY <2>12, WaitInv
  <2>13. CASE fork(e) BY <2>13, ForkInv
  <2>14. CASE start_sh(e) BY <2>14, StartShInv
  <2>15. CASE start(e) BY <2>15, StartInv
  <2>16. CASE read(e) BY <2>16, ReadInv
  <2>17. CASE write(e) BY <2>17, WriteInv
  <2>18. CASE exit(e) BY <2>18, ExitInv
  <2> QED BY <1>2, <2>1, <2>2, <2>3, <2>4, <2>5, <2>6, <2>7, <2>8, <2>9, <2>10, <2>11, <2>12, <2>13,
             <2>14, <2>15, <2>16, <2>17, <2>18 DEF Step
<1>3. ASSUME NEW e \in Env, readline(e) \/ cons_read(e) \/ interrupt(e) PROVE ShellInv'
  BY <1>3, ReadlineInv, ReadInv, ExitInv
<1> QED BY <1>1, <1>2, <1>3 DEF Next

(* What holds of every environment, whatever is typed, whoever runs and is *)
(* interrupted.                                                            *)
THEOREM ShellInvariant == Spec => []ShellInv
BY InitInv, StepInv, PTL DEF Spec

----------------------------------------------------------------------------
(* What follows from it.                                                   *)
(***************************************************************************)
(* The free list has as many entries as there are free slots: it counts    *)
(* them.                                                                   *)
LEMMA ListCounts == SlotsOK => Len(list) = Cardinality({e \in Env : st[e] = "free"})
<1> SUFFICES ASSUME SlotsOK PROVE Len(list) = Cardinality({e \in Env : st[e] = "free"})
  OBVIOUS
<1>1. list \in Seq(Env) /\ Len(list) \in Nat
  BY DEF SlotsOK
<1>2. PICK n : n = Len(list)
  OBVIOUS
<1>3. PICK F : F = {e \in Env : st[e] = "free"}
  OBVIOUS
<1>4. n \in Nat /\ list \in [1 .. n -> Env]
  BY <1>1, <1>2
<1>5. \A k \in 1 .. n : list[k] \in F
  BY <1>2, <1>3, <1>4 DEF SlotsOK
<1>6. list \in [1 .. n -> F]
  BY <1>4, <1>5
<1>7. \A e \in F : \E k \in 1 .. n : list[k] = e
  BY <1>2, <1>3 DEF SlotsOK
<1>8. \A k, l \in 1 .. n : list[k] = list[l] => k = l
  BY <1>2 DEF SlotsOK
<1>9. list \in Bijection(1 .. n, F)
  BY <1>6, <1>7, <1>8 DEF Bijection, Injection, Surjection, IsInjective
<1>10. ExistsBijection(1 .. n, F)
  BY <1>9 DEF ExistsBijection
<1>11. Cardinality(F) = n
  BY <1>4, <1>10, FS_CountingElements
<1> QED BY <1>2, <1>3, <1>11

(* The invariant is as strong as the types.                                *)
LEMMA TypesOK == ShellInv => ShellTypeOK
<1> SUFFICES ASSUME ShellInv PROVE ShellTypeOK
  OBVIOUS
<1>0. SlotsOK /\ JobsOK /\ FdsOK
  BY DEF ShellInv
<1>1. st \in [Env -> {"free", "blocked", "runnable"}] /\ Len(list) = Cardinality({e \in Env : st[e] = "free"})
  BY <1>0, ListCounts DEF SlotsOK
<1>2. {list[k] : k \in DOMAIN list} = {e \in Env : st[e] = "free"}
  <2>1. list \in Seq(Env) /\ DOMAIN list = 1 .. Len(list)
    BY <1>0 DEF SlotsOK
  <2>2. \A k \in 1 .. Len(list) : list[k] \in Env
    BY <2>1
  <2>3. ASSUME NEW x PROVE x \in {list[k] : k \in DOMAIN list} <=> x \in Env /\ st[x] = "free"
    <3>1. x \in {list[k] : k \in DOMAIN list} <=> \E k \in 1 .. Len(list) : list[k] = x
      BY <2>1
    <3> QED BY <1>0, <2>2, <3>1 DEF SlotsOK
  <2> QED BY ONLY <2>3
<1>3. fd \in [Env -> [Fd -> Obj \cup {0}]] /\ unread \in [PipeNo -> 0 .. BY2PIPE]
  BY <1>0 DEF FdsOK, FdType
<1>4. \A e \in Env, i \in Fd : fd[e][i] # 0 => obj[fd[e][i]].dev \in {"cons", "pipe", "file"}
  <2> SUFFICES ASSUME NEW e \in Env, NEW i \in Fd, fd[e][i] # 0 PROVE obj[fd[e][i]].dev \in {"cons", "pipe", "file"}
    OBVIOUS
  <2>1. PICK k : k = fd[e][i]
    OBVIOUS
  <2>2. k \in Obj /\ obj[k].dev # "none"
    BY <1>0, <1>3, <2>1 DEF FdsOK
  <2>3. obj[k] \in ObjType
    BY <1>0, <2>2 DEF FdsOK
  <2> QED BY <2>1, <2>2, <2>3 DEF ObjType
<1>5. \A e \in Env : st[e] = "free" <=> job[e] = NoJob
  BY <1>0, NoJobIs DEF JobsOK
<1> QED BY <1>1, <1>2, <1>3, <1>4, <1>5 DEF ShellTypeOK

(* The free list is the free slots, each of them once; every descriptor is *)
(* a page that is there (sh.c, fork.c, fd.c, with env_alloc and env_free). *)
THEOREM ShellTypes == Spec => []ShellTypeOK
BY ShellInvariant, TypesOK, PTL

(* The name that open is called with is a word that has been cut off.      *)
LEMMA WordsAre == ShellInv => WordsEnd
<1> SUFFICES ASSUME ShellInv, NEW e \in Env, job[e].at \in DOMAIN Opens
             PROVE  /\ Named(job[e]) # <<>>
                    /\ \A l \in DOMAIN Named(job[e]) : Named(job[e])[l] \notin WHITESPACE \cup SYMBOLS
  BY DEF WordsEnd
<1>1. job[e].at \in {"in", "out", "again", "spawn"}
  BY OpensIs
<1>2. st[e] # "free"
  BY <1>1 DEF ShellInv, JobsOK, NoJob
<1>3. PICK j : j = job[e]
  OBVIOUS
<1>4. j \in JobType /\ WordsOK(j)
  BY <1>2, <1>3, LiveIs DEF EnvOK
<1>5. CASE j.at = "spawn"
  <2>1. j.argv # <<>> /\ j.argv \in Seq(Nat)
    BY <1>4, <1>5 DEF WordsOK, JobType
  <2>2. 1 \in 1 .. Len(j.argv)
    BY <2>1, EmptySeq
  <2>3. Cut(j, j.argv[1])
    BY <1>4, <2>2 DEF WordsOK, LineOK
  <2>4. Named(j) = String(j, j.argv[1])
    BY <1>5 DEF Named
  <2> QED BY <1>3, <1>4, <2>3, <2>4, WordIs
<1>6. CASE j.at # "spawn"
  <2>1. Cut(j, j.t)
    BY <1>1, <1>3, <1>4, <1>6 DEF WordsOK, LineOK
  <2>2. Named(j) = String(j, j.t)
    BY <1>6 DEF Named
  <2> QED BY <1>3, <1>4, <2>1, <2>2, WordIs
<1> QED BY <1>5, <1>6

(* Whatever the line, a name that is opened is all word: what followed it  *)
(* has been overwritten when the name is used (sh.c:56, sh.c:62).          *)
THEOREM Words == Spec => []WordsEnd
BY ShellInvariant, WordsAre, PTL

(* Where a pipe's ends are, of a command and of who waits.                 *)
LEMMA EndsAreStdio == ShellInv => PipeEndsAreStdio
<1> SUFFICES ASSUME ShellInv, NEW e \in Env, job[e].prog \in Programs \/ job[e].at \in Waiting,
                    NEW i \in Fd, Page(e, i).dev = "pipe"
             PROVE  /\ <<i, Page(e, i).mode>> \in {<<0, "r">>, <<1, "w">>}
                    /\ job[e].prog # "run"
  BY DEF PipeEndsAreStdio
<1>1. st[e] # "free"
  BY ShellAssumption DEF ShellInv, JobsOK, NoJob
<1>2. PICK j : j = job[e]
  OBVIOUS
<1>3. PICK f : f = fd[e]
  OBVIOUS
<1>4. j \in JobType /\ EnvOK(j, f, obj)
  BY <1>1, <1>2, <1>3, LiveIs
<1>5. f[i] # 0 /\ Page(e, i) = obj[f[i]] /\ Piped(f, obj, i)
  BY <1>3 DEF Page, NoObj, Piped
<1>6. j.prog # "run"
  <2>1. j.prog = "run" => j.at \in Waiting
    BY <1>2, ShellAssumption
  <2> QED BY <1>4, <1>5, <2>1 DEF EnvOK, Placed, ClosedOK
<1>7. MayHave(j, i, obj[f[i]].mode)
  BY <1>2, <1>4, <1>5 DEF EnvOK, ProgOK, Placed, EndsOK
<1>8. <<i, obj[f[i]].mode>> \in {<<0, "r">>, <<1, "w">>}
  <2>1. j.at \notin Piping \cup Running
    BY <1>4, <1>6 DEF EnvOK, ProgOK
  <2>2. (i = 0 /\ obj[f[i]].mode = "r") \/ (i = 1 /\ obj[f[i]].mode = "w")
    BY <1>7, <2>1 DEF MayHave
  <2> QED BY <2>2
<1> QED BY <1>2, <1>5, <1>6, <1>8

(* No end of a pipe is left in a command but as its input or output, and   *)
(* none in an environment that waits (sh.c:182, sh.c:204, sh.c:228).       *)
THEOREM PipeEnds == Spec => []PipeEndsAreStdio
BY ShellInvariant, EndsAreStdio, PTL

----------------------------------------------------------------------------
(* wait.                                                                   *)
(***************************************************************************)
Moves(e) == Step(e) \/ readline(e) \/ cons_read(e) \/ interrupt(e)

(* No step touches the job of another environment that lives.              *)
LEMMA OthersKeep ==
    ASSUME ShellInv, NEW e \in Env, Moves(e), NEW d \in Env, d # e, st[d] # "free"
    PROVE  job'[d] = job[d]
<1>0. job \in [Env -> JobType \cup {NoJob}]
  BY DEF ShellInv, JobsOK
<1>1. (\E k : job' = [job EXCEPT ![e] = k]) => job'[d] = job[d]
  BY <1>0
<1>2. ASSUME NEW j, NEW f, NEW k, Starts(e, j, f, k), list # <<>> PROVE job'[d] = job[d]
  <2>1. Child.slot # d
    BY <1>2, ChildIs DEF ShellInv
  <2> QED BY <1>0, <1>2, <2>1 DEF Starts
<1>3. CASE open(e) BY <1>0, <1>3 DEF open, Go
<1>4. CASE opened(e) BY <1>0, <1>4 DEF opened, Go
<1>5. CASE runcmd(e) BY <1>0, <1>5 DEF runcmd
<1>6. CASE redirect(e) BY <1>0, <1>6 DEF redirect, dup, close, Go
<1>7. CASE pipe(e) BY <1>0, <1>7 DEF pipe, Go
<1>8. CASE pipe_fork(e) BY <1>0, <1>2, <1>8 DEF pipe_fork, Go
<1>9. CASE right(e) BY <1>0, <1>9 DEF right, dup, close, Go
<1>10. CASE left(e) BY <1>0, <1>10 DEF left, dup, close, Go
<1>11. CASE runit(e) BY <1>0, <1>11 DEF runit, Go
<1>12. CASE spawn(e) BY <1>0, <1>2, <1>12 DEF spawn, Go
<1>13. CASE close_all(e) BY <1>0, <1>13 DEF close_all, Go
<1>14. CASE wait(e) BY <1>0, <1>14 DEF wait
<1>15. CASE fork(e) BY <1>0, <1>2, <1>15 DEF fork, Go
<1>16. CASE start_sh(e) BY <1>0, <1>2, <1>16 DEF start_sh
<1>17. CASE start(e) BY <1>0, <1>17 DEF start
<1>18. CASE read(e) \/ cons_read(e) BY <1>0, <1>18 DEF read, cons_read, Took, Ended, Go
<1>19. CASE write(e) BY <1>0, <1>19 DEF write, NotPut, Put, Ended, Go
<1>20. CASE exit(e) \/ interrupt(e) BY <1>0, <1>20 DEF exit, interrupt, destroy
<1>21. CASE readline(e) BY <1>0, <1>21 DEF readline, Go
<1> QED BY <1>3, <1>4, <1>5, <1>6, <1>7, <1>8, <1>9, <1>10, <1>11, <1>12, <1>13, <1>14, <1>15, <1>16,
           <1>17, <1>18, <1>19, <1>20, <1>21 DEF Moves, Step

(* An environment that waits only goes on with the wait, or is destroyed.  *)
LEMMA OnlyWaits ==
    ASSUME ShellInv, NEW e \in Env, Moves(e), job[e].at \in Waiting
    PROVE  wait(e) \/ (interrupt(e) /\ st'[e] = "free")
<1>1. st[e] # "blocked"
  BY DEF ShellInv, JobsOK
<1>2. /\ ~ open(e) /\ ~ opened(e) /\ ~ runcmd(e) /\ ~ redirect(e) /\ ~ pipe(e) /\ ~ pipe_fork(e)
      /\ ~ right(e) /\ ~ left(e) /\ ~ runit(e)
  BY <1>1, OpensIs DEF In, open, opened, runcmd, redirect, pipe, pipe_fork, right, left, runit
<1>3. /\ ~ spawn(e) /\ ~ close_all(e) /\ ~ fork(e) /\ ~ start_sh(e) /\ ~ start(e) /\ ~ read(e) /\ ~ write(e)
      /\ ~ exit(e) /\ ~ readline(e) /\ ~ cons_read(e)
  BY DEF In, spawn, close_all, fork, start_sh, start, read, write, exit, readline, cons_read
<1>4. interrupt(e) => st'[e] = "free"
  BY DEF interrupt, destroy, ShellInv, SlotsOK
<1> QED BY <1>2, <1>3, <1>4 DEF Moves, Step

(* What WaitIsOver says of a step.                                         *)
WaitStep ==
    \A e \in Env :
        LET j == job[e] IN
        /\ j.at \in {"wait", "wait_status"} /\ st'[e] # "free"
        /\ job'[e].at \notin {"wait", "wait_status"} \/ Awaited(job'[e]) # Awaited(j)
        => ~ Live(Awaited(j))

(* A step that ends a wait has found the other one gone.                   *)
LEMMA StepWaits == ShellInv /\ [Next]_vars => [WaitStep]_vars
<1> SUFFICES ASSUME ShellInv, Next, NEW d \in Env, job[d].at \in Waiting, st'[d] # "free",
                    job'[d].at \notin Waiting \/ Awaited(job'[d]) # Awaited(job[d])
             PROVE  ~ Live(Awaited(job[d]))
  BY DEF WaitStep
<1>1. PICK e \in Env : Moves(e)
  BY DEF Next, Moves
<1>2. st[d] # "free"
  BY DEF ShellInv, JobsOK, NoJob
<1>3. job'[d] # job[d]
  OBVIOUS
<1>4. d = e
  BY <1>1, <1>2, <1>3, OthersKeep
<1>5. wait(d)
  BY <1>1, <1>4, OnlyWaits
<1>6. PICK j : j = job[d]
  OBVIOUS
<1>7. j \in JobType /\ job \in [Env -> JobType \cup {NoJob}]
  BY <1>2, <1>6 DEF ShellInv, JobsOK
<1>8. CASE j.at = "wait"
  <2>1. job'[d] = [j EXCEPT !.at = "wait_status"] => job'[d].at \in Waiting /\ Awaited(job'[d]) = Awaited(j)
    BY <1>7 DEF JobType, Awaited
  <2>2. id[Awaited(j).slot] # Awaited(j).id
    BY <1>5, <1>6, <1>7, <1>8, <2>1 DEF wait
  <2> QED BY <1>6, <2>2 DEF Live
<1>9. CASE j.at = "wait_status"
  <2>1. job'[d] = [j EXCEPT !.at = "wait"] => job'[d].at \in Waiting /\ Awaited(job'[d]) = Awaited(j)
    BY <1>7 DEF JobType, Awaited
  <2>2. st[Awaited(j).slot] = "free"
    BY <1>5, <1>6, <1>7, <1>9, <2>1 DEF wait
  <2> QED BY <1>6, <2>2 DEF Live
<1> QED BY <1>6, <1>8, <1>9

(* wait returns only when the environment it was asked about is gone, how- *)
(* ever the two loads and the reuse of its slot interleave (wait.c:9).     *)
THEOREM WaitOver == Spec => WaitIsOver
<1>1. Spec => [][WaitStep]_vars
  BY ShellInvariant, StepWaits, PTL DEF Spec
<1> QED BY <1>1 DEF WaitIsOver, WaitStep

----------------------------------------------------------------------------
(* The prompt.  What the tokenizer has passed says that a complete line    *)
(* has something to run before every "|", so that runcmd never returns     *)
(* without its wait; and every environment of such a line is waited for by *)
(* one that was there before it, and so on up to the shell.                *)
(***************************************************************************)
(* The next token is where it is said to be, and nothing from its end on   *)
(* has been overwritten.                                                   *)
NextIs(j) ==
    IF j.nc = "0" THEN j.np2 = 0
    ELSE /\ j.np1 \in 1 .. Len(j.s) /\ j.np2 \in j.np1 + 1 .. Len(j.s) + 1
         /\ \A x \in j.nul : x < j.np2
         /\ j.nc = "w" => \A l \in j.np1 .. j.np2 - 1 : j.s[l] \notin WHITESPACE \cup SYMBOLS
         /\ j.nc # "w" => j.s[j.np1] = j.nc /\ j.nc \in SYMBOLS /\ j.np2 = j.np1 + 1

(* A command stands before it, behind the last "|".                        *)
Before(j) ==
    /\ j.nc # "0"
    /\ \E i \in 1 .. j.np1 - 1 : Command(j.s, i) /\ \A l \in i .. j.np1 - 1 : j.s[l] # "|"

(* That command is in argv, until a "|" ends its part of the line; the left*)
(* side of the pipe takes it along.                                        *)
ArgvOK(j) ==
    /\ j.at \in Parsing \ {"pipe"} => (Before(j) => j.argv # <<>>)
    /\ j.at \in {"pipe", "pipe_fork", "right_dup"} \cup Righting => ~ Before(j)
    /\ j.at \in {"pipe", "pipe_fork", "left_dup"} \cup Lefting \/ (j.at = "runit" /\ j.rightpipe # NoEnv) =>
         (Complete(j.s) => j.argv # <<>>)

(* Who has started somebody.                                               *)
RefsOK(j) ==
    /\ j.prog \in Programs => j.child = NoEnv
    /\ j.prog # "run" => j.rightpipe = NoEnv
    /\ j.prog \in {"init", "sh"} /\ j.at \notin Waiting => j.child = NoEnv
    /\ j.at \in Parsing \cup {"pipe_fork", "right_dup"} \cup Righting => j.rightpipe = NoEnv
    /\ j.at \in Parsing \cup Piping \cup Running => j.child = NoEnv

PartOK(j) == (j.prog = "run" => NextIs(j) /\ ArgvOK(j)) /\ RefsOK(j)

(* What e has started is d.                                                *)
This(d) == [slot |-> d, id |-> id[d]]
Holds(e, d) == st[e] # "free" /\ job[e].at # "exit" /\ (job[e].child = This(d) \/ job[e].rightpipe = This(d))

(* d is at work on a complete line.                                        *)
Works(d) == st[d] # "free" /\ job[d].prog \notin {"init", "sh"} /\ Complete(job[d].s)

(* No environment is newer than its slot says.                             *)
IdsOK == \A e \in Env : st[e] # "free" => job[e].child.id <= id[job[e].child.slot]
                                          /\ job[e].rightpipe.id <= id[job[e].rightpipe.slot]

(* Slot 0 is init, for good; a shell is the one that it waits for.         *)
OneShell ==
    /\ st[0] # "free" /\ job[0].prog = "init" /\ job[0].at # "exit"
    /\ \A e \in Env : st[e] # "free" /\ job[e].prog = "init" => e = 0
    /\ \A e \in Env : st[e] # "free" /\ job[e].prog = "sh" => job[0].child = This(e)

(* Somebody waits for every environment at work, and is a shell or was     *)
(* started earlier: R counts from the shell.                               *)
Ranked(R) ==
    \A d \in Env : Works(d) =>
        \E e \in Env : Holds(e, d) /\ (job[e].prog = "sh" \/ (Works(e) /\ R[e] < R[d]))

PromptInv ==
    /\ ShellInv
    /\ \A e \in Env : st[e] # "free" => PartOK(job[e])
    /\ IdsOK /\ OneShell
    /\ interrupts \in Nat
    /\ interrupts = 0 => \E R \in [Env -> Nat] : Ranked(R)

(* Only white space lies between the place where the search began and the  *)
(* token that it found.                                                    *)
Gap(k, i) == k.nc # "0" => k.np1 >= i /\ \A l \in i .. k.np1 - 1 : k.s[l] \in WHITESPACE

(* What _gettoken finds, in terms of the line that was typed.              *)
LEMMA FindsNext ==
    ASSUME NEW j \in JobType, NEW i \in 1 .. Len(j.s) + 1, \A x \in j.nul : x < i,
           NEW k, k = _gettoken(j, i)
    PROVE  NextIs(k) /\ Gap(k, i)
<1>0. Len(j.s) \in Nat /\ j.nul \in SUBSET Nat /\ i \in Nat /\ i # 0
  BY DEF JobType
<1>1. PICK b : b = Begin(j, i)
  OBVIOUS
<1>2. /\ b \in i .. Len(j.s) + 1 /\ b \in Nat /\ b >= i /\ Char(j, b) \notin WHITESPACE
      /\ \A l \in i .. b - 1 : Char(j, l) \in WHITESPACE
  BY <1>0, <1>1, BeginIs
<1>3. PICK nul : nul = j.nul \cup (i .. b - 1)
  OBVIOUS
<1>4. nul \in SUBSET Nat /\ \A x \in nul : x < b
  BY <1>0, <1>2, <1>3
<1>5. \A l \in i .. Len(j.s) + 1 : Char(j, l) = IF l = Len(j.s) + 1 THEN "NUL" ELSE j.s[l]
  BY <1>0 DEF Char
<1>6. \A l \in i .. b - 1 : j.s[l] \in WHITESPACE
  <2>1. \A l \in i .. b - 1 : l \in i .. Len(j.s) + 1 /\ l # Len(j.s) + 1
    BY <1>0, <1>2
  <2> QED BY <1>2, <1>5, <2>1
<1>7. Char(j, b) # "NUL" => b \in 1 .. Len(j.s) /\ Char(j, b) = j.s[b]
  BY <1>0, <1>2, <1>5
<1>8. CASE Char(j, b) = "NUL" /\ k = [j EXCEPT !.nul = nul, !.nc = "0", !.np1 = 0, !.np2 = 0]
  <2>1. k.nc = "0" /\ k.np2 = 0
    BY <1>8 DEF JobType
  <2> QED BY <2>1 DEF NextIs, Gap
<1>9. CASE Char(j, b) \in SYMBOLS /\ k = [j EXCEPT !.nul = nul \cup {b}, !.nc = Char(j, b), !.np1 = b, !.np2 = b + 1]
  <2>1. PICK ch : ch = Char(j, b)
    OBVIOUS
  <2>2. PICK m : m = nul \cup {b}
    OBVIOUS
  <2>3. k.s = j.s /\ k.nul = m /\ k.nc = ch /\ k.np1 = b /\ k.np2 = b + 1
    BY <1>9, <2>1, <2>2 DEF JobType
  <2>4. ch \in SYMBOLS /\ ch # "0" /\ ch # "w" /\ b \in 1 .. Len(j.s) /\ j.s[b] = ch
    BY <1>7, <1>9, <2>1, Tokens
  <2>5. \A x \in m : x < b + 1
    BY <1>2, <1>4, <2>2
  <2>6. b + 1 \in b + 1 .. Len(j.s) + 1
    BY <1>0, <2>4
  <2> QED BY <1>2, <1>6, <2>3, <2>4, <2>5, <2>6 DEF NextIs, Gap
<1>10. CASE Char(j, b) \notin {"NUL"} \cup SYMBOLS
            /\ k = [j EXCEPT !.nul = nul, !.nc = "w", !.np1 = b, !.np2 = End(j, b)]
  <2>1. PICK z : z = End(j, b)
    OBVIOUS
  <2>2. /\ z \in b .. Len(j.s) + 1 /\ z \in Nat /\ Char(j, z) \in Special
        /\ \A l \in b .. z - 1 : Char(j, l) \notin Special
    BY <1>0, <1>2, <2>1, EndIs
  <2>3. k.s = j.s /\ k.nul = nul /\ k.nc = "w" /\ k.np1 = b /\ k.np2 = z
    BY <1>10, <2>1 DEF JobType
  <2>4. Char(j, b) \notin Special /\ b \in 1 .. Len(j.s)
    BY <1>2, <1>7, <1>10 DEF Special
  <2>5. z \in b + 1 .. Len(j.s) + 1 /\ \A x \in nul : x < z
    <3>1. b # z
      BY <2>2, <2>4
    <3> QED BY <1>0, <1>2, <1>4, <2>2, <3>1
  <2>6. ASSUME NEW l \in b .. z - 1 PROVE j.s[l] \notin WHITESPACE \cup SYMBOLS
    <3>1. l \in i .. Len(j.s) + 1 /\ l # Len(j.s) + 1
      BY <1>0, <1>2, <2>2
    <3>2. Char(j, l) = j.s[l] /\ Char(j, l) \notin Special
      BY <1>5, <2>2, <3>1
    <3> QED BY <3>2 DEF Special
  <2> QED BY <1>2, <1>6, <2>3, <2>4, <2>5, <2>6, Tokens DEF NextIs, Gap
<1>11. \/ Char(j, b) = "NUL" /\ k = [j EXCEPT !.nul = nul, !.nc = "0", !.np1 = 0, !.np2 = 0]
       \/ Char(j, b) \in SYMBOLS /\ k = [j EXCEPT !.nul = nul \cup {b}, !.nc = Char(j, b), !.np1 = b, !.np2 = b + 1]
       \/ /\ Char(j, b) \notin {"NUL"} \cup SYMBOLS
          /\ k = [j EXCEPT !.nul = nul, !.nc = "w", !.np1 = b, !.np2 = End(j, b)]
  BY <1>0, <1>1, <1>3, TokenIs
<1> QED BY <1>8, <1>9, <1>10, <1>11

(* The next token of gettoken: what lies between it and the one handed out.*)
LEMMA NextFound ==
    ASSUME NEW j \in JobType, NextIs(j), NEW k, k = gettoken(j)
    PROVE  NextIs(k) /\ (k.nc # "0" => j.nc # "0" /\ Gap(k, j.np2))
<1>1. PICK h : h = [j EXCEPT !.c = j.nc, !.t = j.np1]
  OBVIOUS
<1>2. h \in JobType /\ h.s = j.s /\ h.nul = j.nul /\ h.np2 = j.np2
  BY <1>1 DEF JobType
<1>3. k = _gettoken(h, j.np2)
  BY <1>1 DEF gettoken
<1>4. CASE j.nc = "0"
  <2>1. j.np2 = 0 /\ k = [h EXCEPT !.nc = "0"]
    BY <1>3, <1>4 DEF _gettoken, NextIs
  <2>2. k.nc = "0" /\ k.np2 = 0
    BY <1>2, <2>1 DEF JobType
  <2> QED BY <2>2 DEF NextIs
<1>5. CASE j.nc # "0"
  <2>1. j.np2 \in 1 .. Len(h.s) + 1 /\ \A x \in h.nul : x < j.np2
    BY <1>2, <1>5 DEF NextIs, JobType
  <2>2. NextIs(k) /\ Gap(k, j.np2)
    BY ONLY <1>2, <1>3, <2>1, FindsNext
  <2> QED BY <1>5, <2>2
<1> QED BY <1>4, <1>5

(* A command before the next token was before the token handed out, or is  *)
(* that token.                                                             *)
LEMMA BeforeIs ==
    ASSUME NEW j \in JobType, NextIs(j), NEW k, k = gettoken(j), k.s = j.s, Before(k)
    PROVE  j.nc # "|" /\ (Before(j) \/ (j.nc = "w" /\ Command(j.s, j.np1)))
<1>1. k.nc # "0" /\ j.nc # "0" /\ NextIs(k)
  BY NextFound DEF Before
<1>2. /\ j.np1 \in 1 .. Len(j.s) /\ j.np2 \in j.np1 + 1 .. Len(j.s) + 1 /\ Len(j.s) \in Nat
      /\ j.nc = "w" => \A l \in j.np1 .. j.np2 - 1 : j.s[l] \notin WHITESPACE \cup SYMBOLS
      /\ j.nc # "w" => j.s[j.np1] = j.nc /\ j.nc \in SYMBOLS /\ j.np2 = j.np1 + 1
  BY <1>1 DEF NextIs, JobType
<1>3. k.np1 \in 1 .. Len(j.s) /\ k.np1 >= j.np2 /\ \A l \in j.np2 .. k.np1 - 1 : j.s[l] \in WHITESPACE
  BY <1>1, NextFound DEF Gap, NextIs
<1>4. PICK i \in 1 .. k.np1 - 1 : Command(j.s, i) /\ \A l \in i .. k.np1 - 1 : j.s[l] # "|"
  BY DEF Before
<1>5. j.s[i] \notin WHITESPACE \cup SYMBOLS /\ (i > 1 => j.s[i - 1] \in WHITESPACE \cup SYMBOLS)
  BY <1>4 DEF Command
<1>6. i < j.np2
  BY <1>2, <1>3, <1>5
<1>7. i <= j.np1
  <2>1. SUFFICES ASSUME i > j.np1 PROVE FALSE
    BY <1>2
  <2>2. j.nc = "w"
    BY <1>2, <1>6, <2>1
  <2>3. i - 1 \in j.np1 .. j.np2 - 1 /\ i > 1
    BY <1>2, <1>6, <2>1
  <2> QED BY <1>2, <1>5, <2>2, <2>3
<1>8. j.nc # "|"
  <2>1. j.np1 \in i .. k.np1 - 1
    BY <1>2, <1>3, <1>7
  <2> QED BY <1>2, <1>4, <2>1 DEF SYMBOLS
<1>9. CASE i = j.np1
  BY <1>2, <1>4, <1>5, <1>8, <1>9
<1>10. CASE i # j.np1
  <2>1. i \in 1 .. j.np1 - 1 /\ \A l \in i .. j.np1 - 1 : l \in i .. k.np1 - 1
    BY <1>2, <1>3, <1>7, <1>10
  <2> QED BY <1>1, <1>4, <1>8, <2>1 DEF Before
<1> QED BY <1>9, <1>10

(* The file behind < or > is no command.                                   *)
LEMMA FileIsNone ==
    ASSUME NEW j \in JobType, NextIs(j), j.nc \in {"<", ">"}, NEW k, k = gettoken(j), k.s = j.s, k.nc # "0"
    PROVE  ~ Command(k.s, k.np1)
<1>1. /\ j.np1 \in 1 .. Len(j.s) /\ j.np2 = j.np1 + 1 /\ j.s[j.np1] \in {"<", ">"} /\ Len(j.s) \in Nat
  BY Tokens DEF NextIs, JobType
<1>2. k.np1 \in 1 .. Len(j.s) /\ k.np1 >= j.np2 /\ \A l \in j.np2 .. k.np1 - 1 : j.s[l] \in WHITESPACE
  BY NextFound DEF Gap, NextIs
<1>3. j.np1 \in 1 .. k.np1 - 1
  BY <1>1, <1>2
<1> QED BY <1>1, <1>2, <1>3 DEF Command

(* Before a "|" of a complete line stands a command.                       *)
LEMMA CompleteIs ==
    ASSUME NEW j \in JobType, NextIs(j), j.nc = "|", Complete(j.s)
    PROVE  Before(j)
<1>1. j.np1 \in 1 .. Len(j.s) /\ j.s[j.np1] = "|" /\ j.nc # "0"
  BY Tokens DEF NextIs
<1>2. j.np1 \in DOMAIN j.s
  BY <1>1 DEF JobType
<1>3. PICK i \in 1 .. j.np1 - 1 : Command(j.s, i) /\ \A l \in i .. j.np1 - 1 : j.s[l] # "|"
  BY <1>1, <1>2 DEF Complete
<1> QED BY <1>1, <1>3 DEF Before

(* A job that goes on with the same words and the same others to wait for. *)
Leads(j, at) ==
    \/ j.at \in Parsing \cup Prompting \cup Programming \cup {"pipe_fork"} /\ at = "exit"
    \/ j.at \in Programming /\ at \in Programming
    \/ at = j.at \/ (j.at \in Waiting /\ at \in Waiting)
    \/ <<j.at, at>> \in {<<"in", "in_dup">>, <<"out", "again">>, <<"again", "out_dup">>, <<"in_dup", "moved">>,
                         <<"out_dup", "moved">>, <<"moved", "token">>, <<"pipe", "pipe_fork">>,
                         <<"pipe_fork", "right_dup">>, <<"right_dup", "right_r">>, <<"right_r", "right_w">>, <<"left_dup", "left_r">>,
                         <<"left_r", "left_w">>, <<"left_w", "runit">>, <<"spawn", "spawn_env">>,
                         <<"spawn", "close_all">>, <<"spawn_env", "close_all">>}
    \/ j.at = "runit" /\ at = (IF j.argv = <<>> THEN "exit" ELSE "spawn")
    \/ j.at = "close_all" /\ at = (IF Awaited(j) = NoEnv THEN "exit" ELSE "wait")

GoesOn(j, k) == SameWords(j, k) /\ k.child = j.child /\ k.rightpipe = j.rightpipe /\ Leads(j, k.at)

(* The tokens of a line with the same words.                               *)
LEMMA TokensSame ==
    ASSUME NEW j, NEW k, k.s = j.s, k.nul = j.nul, k.nc = j.nc, k.np1 = j.np1, k.np2 = j.np2
    PROVE  (NextIs(j) => NextIs(k)) /\ (Before(k) <=> Before(j))
BY DEF NextIs, Before

(* Going on keeps a job in order.                                          *)
LEMMA GoesOnOK ==
    ASSUME NEW j \in JobType, NEW k, ProgOK(j), PartOK(j), GoesOn(j, k)
    PROVE  PartOK(k)
<1>1. /\ k.s = j.s /\ k.nul = j.nul /\ k.nc = j.nc /\ k.np1 = j.np1 /\ k.np2 = j.np2 /\ k.argv = j.argv
      /\ k.prog = j.prog /\ k.child = j.child /\ k.rightpipe = j.rightpipe /\ Leads(j, k.at)
  BY DEF GoesOn, SameWords
<1>2. (NextIs(j) => NextIs(k)) /\ (Before(k) <=> Before(j))
  BY <1>1, TokensSame
<1>3. PICK b \in BOOLEAN : b = Before(j)
  BY DEF Before
<1>4. PICK c \in BOOLEAN : c = Complete(j.s)
  BY DEF Complete
<1>5. j.prog = "run" => ArgvOK(k)
  <2>1. SUFFICES ASSUME j.prog = "run" PROVE ArgvOK(k)
    OBVIOUS
  <2>2. ArgvOK(j) /\ RefsOK(j)
    BY <2>1 DEF PartOK
  <2>3. PICK a : a = k.at
    OBVIOUS
  <2>4. j.at \notin Programming \cup Prompting
    BY <2>1 DEF ProgOK
  <2>5. a \in Parsing \ {"pipe"} => (b => j.argv # <<>>)
    BY <1>1, <1>2, <1>3, <2>2, <2>3, <2>4 DEF ArgvOK, Leads
  <2>6. a \in {"pipe", "pipe_fork", "right_dup"} \cup Righting => ~ b
    BY <1>1, <1>2, <1>3, <2>2, <2>3, <2>4 DEF ArgvOK, Leads
  <2>7. a \in {"pipe", "pipe_fork", "left_dup"} \cup Lefting \/ (a = "runit" /\ j.rightpipe # NoEnv) =>
          (c => j.argv # <<>>)
    BY <1>1, <1>4, <2>2, <2>3, <2>4 DEF ArgvOK, Leads
  <2> QED BY <1>1, <1>2, <1>3, <1>4, <2>3, <2>5, <2>6, <2>7 DEF ArgvOK
<1>6. RefsOK(k)
  <2>1. RefsOK(j)
    BY DEF PartOK
  <2>2. PICK a : a = k.at
    OBVIOUS
  <2>3. j.prog \in {"init", "sh"} /\ a \notin Waiting => j.child = NoEnv
    BY <1>1, <2>1, <2>2 DEF RefsOK, Leads, ProgOK
  <2>4. a \in Parsing \cup {"pipe_fork", "right_dup"} \cup Righting => j.rightpipe = NoEnv
    BY <1>1, <2>1, <2>2 DEF RefsOK, Leads
  <2>5. a \in Parsing \cup Piping \cup Running => j.child = NoEnv
    BY <1>1, <2>1, <2>2 DEF RefsOK, Leads
  <2> QED BY <1>1, <2>1, <2>2, <2>3, <2>4, <2>5 DEF RefsOK
<1> QED BY <1>1, <1>2, <1>5, <1>6 DEF PartOK

(* A token more: what is before the next one, in argv or behind a "|".     *)
LEMMA TokenPart ==
    ASSUME ShellInv, NEW e \in Env, runcmd(e), PartOK(job[e])
    PROVE  \E k : /\ job' = [job EXCEPT ![e] = k] /\ PartOK(k)
                  /\ k.prog = job[e].prog /\ k.s = job[e].s
                  /\ k.child = job[e].child /\ k.rightpipe = job[e].rightpipe
<1>1. st[e] = "runnable" /\ job[e].at = "token"
  BY DEF runcmd, In
<1>2. job[e] \in JobType /\ LineOK(job[e]) /\ job[e].prog = "run"
  BY <1>1, LiveIs DEF EnvOK, WordsOK, ProgOK
<1>3. PICK i : i = job[e]
  OBVIOUS
<1>4. PICK j : j = gettoken(i)
  OBVIOUS
<1>5. PICK k : k = gettoken(j)
  OBVIOUS
<1>6. NextIs(i) /\ ArgvOK(i) /\ RefsOK(i) /\ (Before(i) => i.argv # <<>>)
  BY <1>1, <1>2, <1>3 DEF PartOK, ArgvOK
<1>7. j \in JobType /\ LineOK(j) /\ SameButLine(i, j) /\ j.c = i.nc
  BY <1>2, <1>3, <1>4, NextToken
<1>8. k \in JobType /\ SameButLine(j, k) /\ k.c = j.nc
  BY <1>5, <1>7, NextToken
<1>9. j.s = i.s /\ j.argv = i.argv /\ j.prog = "run" /\ j.child = i.child /\ j.rightpipe = i.rightpipe /\ j.at = "token"
  BY <1>1, <1>2, <1>3, <1>7 DEF SameButLine
<1>10. k.s = i.s /\ k.argv = i.argv /\ k.prog = "run" /\ k.child = i.child /\ k.rightpipe = i.rightpipe
  BY <1>8, <1>9 DEF SameButLine
<1>11. i \in JobType /\ i.child = NoEnv /\ i.rightpipe = NoEnv
  BY <1>1, <1>2, <1>3, <1>6 DEF RefsOK
<1>12. NextIs(j) /\ NextIs(k)
  <2>1. NextIs(j)
    BY <1>4, <1>6, <1>11, NextFound
  <2> QED BY <1>5, <1>7, <2>1, NextFound
<1>13. Before(j) => i.nc # "|" /\ (Before(i) \/ (i.nc = "w" /\ Command(i.s, i.np1)))
  BY <1>4, <1>6, <1>9, <1>11, BeforeIs
<1>14. Before(k) => Before(j) \/ (j.nc = "w" /\ Command(j.s, j.np1))
  BY <1>5, <1>7, <1>9, <1>10, <1>12, BeforeIs
<1>15. ASSUME NEW n, NextIs(n), n.prog = "run", n.child = NoEnv, n.rightpipe = NoEnv, n.s = i.s,
              n.at \in {"token", "runit", "exit", "in", "out", "pipe"},
              n.at \in {"token", "in", "out"} => (Before(n) => n.argv # <<>>),
              n.at = "pipe" => ~ Before(n) /\ (Complete(n.s) => n.argv # <<>>),
              job' = [job EXCEPT ![e] = n]
       PROVE  \E m : /\ job' = [job EXCEPT ![e] = m] /\ PartOK(m)
                     /\ m.prog = job[e].prog /\ m.s = job[e].s
                     /\ m.child = job[e].child /\ m.rightpipe = job[e].rightpipe
  <2>1. ArgvOK(n)
    BY <1>15 DEF ArgvOK
  <2>2. RefsOK(n)
    BY <1>15, ShellAssumption DEF RefsOK
  <2> QED BY <1>2, <1>3, <1>11, <1>15, <2>1, <2>2 DEF PartOK
<1>16. ASSUME NEW m \in {j, k}, NEW at \in {"runit", "exit", "in", "out", "pipe"},
              at \in {"in", "out"} => (Before(m) => m.argv # <<>>),
              at = "pipe" => ~ Before(m) /\ (Complete(m.s) => m.argv # <<>>),
              job' = [job EXCEPT ![e] = [m EXCEPT !.at = at]]
       PROVE  \E n : /\ job' = [job EXCEPT ![e] = n] /\ PartOK(n)
                     /\ n.prog = job[e].prog /\ n.s = job[e].s
                     /\ n.child = job[e].child /\ n.rightpipe = job[e].rightpipe
  <2>1. PICK n : n = [m EXCEPT !.at = at]
    OBVIOUS
  <2>2. m \in JobType /\ at \in Place
    BY <1>7, <1>8
  <2>3. /\ n.at = at /\ n.s = m.s /\ n.nul = m.nul /\ n.nc = m.nc /\ n.np1 = m.np1 /\ n.np2 = m.np2
        /\ n.argv = m.argv /\ n.prog = m.prog /\ n.child = m.child /\ n.rightpipe = m.rightpipe
    BY <2>1, <2>2, GoIs
  <2>4. (NextIs(m) => NextIs(n)) /\ (Before(n) <=> Before(m))
    BY <2>3, TokensSame
  <2>5. m.s = i.s /\ m.prog = "run" /\ m.child = NoEnv /\ m.rightpipe = NoEnv /\ NextIs(m)
    BY <1>9, <1>10, <1>11, <1>12
  <2> QED BY <1>15, <1>16, <2>1, <2>3, <2>4, <2>5
<1>17. CASE \E at \in {"runit", "exit"} : job' = [job EXCEPT ![e] = [j EXCEPT !.at = at]]
  BY <1>16, <1>17
<1>18. CASE j.c = "|" /\ job' = [job EXCEPT ![e] = [j EXCEPT !.at = "pipe"]]
  <2>1. i.nc = "|"
    BY <1>7, <1>18
  <2>2. ~ Before(j)
    BY <1>13, <2>1
  <2>3. Complete(j.s) => j.argv # <<>>
    BY <1>6, <1>9, <1>11, <2>1, CompleteIs
  <2> QED BY <1>16, <1>18, <2>2, <2>3
<1>19. CASE j.c = "w" /\ job' = [job EXCEPT ![e] = [j EXCEPT !.argv = Append(@, j.t)]]
  <2>1. PICK a : a = Append(j.argv, j.t)
    OBVIOUS
  <2>2. a \in Seq(Nat) /\ a # <<>>
    BY <1>7, <2>1 DEF JobType
  <2>3. PICK n : n = [j EXCEPT !.argv = a]
    OBVIOUS
  <2>4. /\ n.argv = a /\ n.at = j.at /\ n.s = j.s /\ n.nul = j.nul /\ n.nc = j.nc /\ n.np1 = j.np1 /\ n.np2 = j.np2
        /\ n.prog = j.prog /\ n.child = j.child /\ n.rightpipe = j.rightpipe
    BY <1>7, <2>2, <2>3, ZenonT(60) DEF JobType
  <2>5. (NextIs(j) => NextIs(n)) /\ (Before(n) <=> Before(j))
    BY <2>4, TokensSame
  <2>6. job' = [job EXCEPT ![e] = n]
    BY <1>19, <2>1, <2>3
  <2> QED BY <1>9, <1>11, <1>12, <1>15, <2>2, <2>4, <2>5, <2>6
<1>20. CASE /\ j.c \in {"<", ">"} /\ k.c = "w"
            /\ \E at \in {"in", "out"} : job' = [job EXCEPT ![e] = [k EXCEPT !.at = at]]
  <2>1. i.nc \in {"<", ">"} /\ j.nc = "w" /\ j.nc # "0"
    BY <1>7, <1>8, <1>20, Tokens
  <2>2. ~ Command(j.s, j.np1)
    BY <1>4, <1>6, <1>9, <1>11, <2>1, FileIsNone
  <2>3. i.nc # "w"
    BY <2>1
  <2>4. Before(k) => k.argv # <<>>
    BY <1>6, <1>10, <1>13, <1>14, <2>2, <2>3
  <2> QED BY <1>16, <1>20, <2>4
<1>21. CASE job' = [job EXCEPT ![e] = [k EXCEPT !.at = "exit"]]
  BY <1>16, <1>21
<1>22. CASE j.c # "w" /\ job' = [job EXCEPT ![e] = j]
  <2>1. Before(j) => j.argv # <<>>
    BY <1>6, <1>7, <1>9, <1>13, <1>22
  <2> QED BY <1>9, <1>11, <1>12, <1>15, <1>22, <2>1
<1> QED BY <1>3, <1>4, <1>5, <1>17, <1>18, <1>19, <1>20, <1>21, <1>22, RuncmdIs

(* A step of e that goes on as k; nobody comes, and nobody goes.           *)
Local(e, k) ==
    /\ job' = [job EXCEPT ![e] = k] /\ UNCHANGED <<id, interrupts>>
    /\ \A d \in Env : st'[d] = "free" <=> st[d] = "free"

(* The same line, whatever else of the job changes.                        *)
LEMMA LineStays ==
    ASSUME NEW j \in JobType, NEW at, NEW i, NEW p, NEW n, NEW k,
           \/ k = [j EXCEPT !.at = at]
           \/ k = [j EXCEPT !.at = at, !.fd = i]
           \/ k = [j EXCEPT !.at = at, !.p = p]
           \/ k = [j EXCEPT !.at = at, !.n = n],
           Leads(j, at)
    PROVE  GoesOn(j, k)
<1>1. /\ k.at = at /\ k.prog = j.prog /\ k.s = j.s /\ k.nul = j.nul /\ k.c = j.c /\ k.t = j.t /\ k.nc = j.nc
      /\ k.np1 = j.np1 /\ k.np2 = j.np2 /\ k.argv = j.argv /\ k.child = j.child /\ k.rightpipe = j.rightpipe
  <2>1. CASE k = [j EXCEPT !.at = at]
    BY <2>1 DEF JobType
  <2>2. CASE k = [j EXCEPT !.at = at, !.fd = i]
    BY <2>2 DEF JobType
  <2>3. CASE k = [j EXCEPT !.at = at, !.p = p]
    BY <2>3 DEF JobType
  <2>4. CASE k = [j EXCEPT !.at = at, !.n = n]
    BY <2>4 DEF JobType
  <2> QED BY <2>1, <2>2, <2>3, <2>4
<1> QED BY <1>1 DEF GoesOn, SameWords

(* A step to another place in the program.                                 *)
LEMMA GoStep ==
    ASSUME ShellInv, NEW e \in Env, st[e] # "free", NEW at, Go(e, at), Leads(job[e], at), UNCHANGED <<id, interrupts>>,
           \A d \in Env : st'[d] = "free" <=> st[d] = "free"
    PROVE  \E k : Local(e, k) /\ GoesOn(job[e], k)
<1>1. PICK k : k = [job[e] EXCEPT !.at = at]
  OBVIOUS
<1>2. job[e] \in JobType /\ job' = [job EXCEPT ![e] = k]
  BY <1>1 DEF Go, ShellInv, JobsOK
<1>3. GoesOn(job[e], k)
  BY <1>1, <1>2, LineStays
<1> QED BY <1>2, <1>3 DEF Local

(* The steps of that kind.                                                 *)
LEMMA OpenGoesOn ==
    ASSUME ShellInv, NEW e \in Env, open(e)
    PROVE  \E k : Local(e, k) /\ GoesOn(job[e], k)
<1>1. /\ st[e] = "runnable" /\ job[e].at \in {"in", "out", "again", "spawn"} /\ UNCHANGED <<id, interrupts>>
      /\ st \in [Env -> {"free", "blocked", "runnable"}]
  BY OpensIs DEF open, ShellInv, SlotsOK
<1>2. CASE Go(e, Opens[job[e].at].bad) /\ UNCHANGED st
  <2>1. PICK at : at = Opens[job[e].at].bad
    OBVIOUS
  <2>2. at = IF job[e].at = "spawn" THEN "close_all" ELSE "exit"
    BY <1>1, <2>1, OpensIs
  <2>3. Leads(job[e], at)
    BY <1>1, <2>2 DEF Leads
  <2> QED BY <1>1, <1>2, <2>1, <2>3, GoStep
<1>3. CASE st' = [st EXCEPT ![e] = "blocked"] /\ UNCHANGED job
  <2>1. \A d \in Env : st'[d] = "free" <=> st[d] = "free"
    BY <1>1, <1>3
  <2>2. job' = [job EXCEPT ![e] = job[e]]
    BY <1>3 DEF ShellInv, JobsOK
  <2>3. GoesOn(job[e], job[e])
    BY DEF GoesOn, SameWords, Leads
  <2> QED BY <1>1, <2>1, <2>2, <2>3 DEF Local
<1> QED BY <1>2, <1>3 DEF open

(* The file server's answer.                                               *)
LEMMA OpenedGoesOn ==
    ASSUME ShellInv, NEW e \in Env, opened(e)
    PROVE  \E k : Local(e, k) /\ GoesOn(job[e], k)
<1>1. /\ st[e] = "blocked" /\ st' = [st EXCEPT ![e] = "runnable"] /\ UNCHANGED <<id, interrupts>>
      /\ st \in [Env -> {"free", "blocked", "runnable"}]
  BY DEF opened, ShellInv, SlotsOK
<1>2. job[e] \in JobType /\ job[e].at \in {"in", "out", "again", "spawn"}
  BY <1>1 DEF ShellInv, JobsOK
<1>3. \A d \in Env : st'[d] = "free" <=> st[d] = "free"
  BY <1>1
<1>4. PICK j : j = job[e]
  OBVIOUS
<1>5. PICK ok : ok = Opens[j.at].ok
  OBVIOUS
<1>6. PICK bad : bad = Opens[j.at].bad
  OBVIOUS
<1>7. PICK i : i = Least(FreeFds(e))
  OBVIOUS
<1>8. Leads(j, ok) /\ Leads(j, bad)
  <2>1. <<j.at, ok>> \in {<<"in", "in_dup">>, <<"out", "again">>, <<"again", "out_dup">>, <<"spawn", "spawn_env">>}
    BY <1>2, <1>4, <1>5, OpensIs
  <2>2. bad = IF j.at = "spawn" THEN "close_all" ELSE "exit"
    BY <1>2, <1>4, <1>6, OpensIs
  <2> QED BY <1>2, <1>4, <2>1, <2>2 DEF Leads
<1>9. Go(e, bad) \/ job' = [job EXCEPT ![e].at = ok, ![e].fd = i]
  BY <1>4, <1>5, <1>6, <1>7 DEF opened
<1>10. CASE Go(e, bad)
  BY <1>1, <1>3, <1>4, <1>8, <1>10, GoStep
<1>11. CASE job' = [job EXCEPT ![e].at = ok, ![e].fd = i]
  <2>1. PICK k : k = [j EXCEPT !.at = ok, !.fd = i]
    OBVIOUS
  <2>2. job' = [job EXCEPT ![e] = k]
    BY <1>4, <1>11, <2>1 DEF ShellInv, JobsOK
  <2>3. GoesOn(j, k)
    BY <1>2, <1>4, <1>8, <2>1, LineStays
  <2> QED BY <1>1, <1>3, <1>4, <2>2, <2>3 DEF Local
<1> QED BY <1>9, <1>10, <1>11

(* pipe, when it does not fork yet.                                        *)
LEMMA PipeGoesOn ==
    ASSUME ShellInv, NEW e \in Env, pipe(e)
    PROVE  \E k : Local(e, k) /\ GoesOn(job[e], k)
<1>1. st[e] = "runnable" /\ job[e].at = "pipe" /\ UNCHANGED <<id, st, interrupts>>
  BY DEF pipe, In, Same
<1>2. job[e] \in JobType
  BY <1>1 DEF ShellInv, JobsOK
<1>3. Leads(job[e], "exit") /\ Leads(job[e], "pipe_fork")
  BY <1>1 DEF Leads
<1>4. Go(e, "exit") \/ \E p : job' = [job EXCEPT ![e].at = "pipe_fork", ![e].p = p]
  BY DEF pipe
<1>5. CASE Go(e, "exit")
  BY <1>1, <1>3, <1>5, GoStep
<1>6. CASE \E p : job' = [job EXCEPT ![e].at = "pipe_fork", ![e].p = p]
  <2>1. PICK p : job' = [job EXCEPT ![e].at = "pipe_fork", ![e].p = p]
    BY <1>6
  <2>2. PICK k : k = [job[e] EXCEPT !.at = "pipe_fork", !.p = p]
    OBVIOUS
  <2>3. job' = [job EXCEPT ![e] = k]
    BY <2>1, <2>2 DEF ShellInv, JobsOK
  <2>4. GoesOn(job[e], k)
    BY <1>2, <1>3, <2>2, LineStays
  <2> QED BY <1>1, <2>3, <2>4 DEF Local
<1> QED BY <1>4, <1>5, <1>6

(* A command, at whatever it is.                                           *)
LEMMA CommandGoesOn ==
    ASSUME ShellInv, NEW e \in Env, start(e) \/ read(e) \/ cons_read(e) \/ write(e)
    PROVE  \E k : Local(e, k) /\ GoesOn(job[e], k)
<1>1. st[e] = "runnable" /\ job[e].at \in Programming /\ UNCHANGED <<id, st, interrupts>>
  BY DEF start, read, cons_read, write, In, Same
<1>2. PICK j : j = job[e]
  OBVIOUS
<1>3. j \in JobType
  BY <1>1, <1>2 DEF ShellInv, JobsOK
<1>4. \A at \in {"read", "write", "exit"} : Leads(j, at)
  BY <1>1, <1>2 DEF Leads
<1>5. ASSUME NEW at \in {"read", "write", "exit"}, NEW n, job' = [job EXCEPT ![e] = [j EXCEPT !.at = at, !.n = n]]
      PROVE  \E k : Local(e, k) /\ GoesOn(job[e], k)
  <2>1. PICK k : k = [j EXCEPT !.at = at, !.n = n]
    OBVIOUS
  <2>2. GoesOn(j, k)
    BY <1>3, <1>4, <2>1, LineStays
  <2> QED BY <1>1, <1>2, <1>5, <2>1, <2>2 DEF Local
<1>6. CASE start(e)
  <2>1. PICK at \in {"read", "write"} : at = IF job[e].prog = "e" THEN "write" ELSE "read"
    OBVIOUS
  <2>2. job' = [job EXCEPT ![e] = [j EXCEPT !.at = at, !.n = 2]]
    BY <1>2, <1>6, <2>1 DEF start
  <2> QED BY <1>5, <2>1, <2>2
<1>7. CASE Took(e) \/ Ended(e)
  BY <1>1, <1>2, <1>4, <1>7, GoStep DEF Took, Ended
<1>8. CASE Put(e)
  <2>1. PICK at : at = IF j.prog = "c" THEN "read" ELSE IF j.n = 1 THEN "exit" ELSE "write"
    OBVIOUS
  <2>2. at \in {"read", "write", "exit"}
    BY <2>1
  <2>3. job' = [job EXCEPT ![e] = [j EXCEPT !.n = j.n - 1, !.at = at]]
    BY <1>2, <1>8, <2>1 DEF Put
  <2>4. [j EXCEPT !.n = j.n - 1, !.at = at] = [j EXCEPT !.at = at, !.n = j.n - 1]
    BY <1>3 DEF JobType
  <2> QED BY <1>5, <2>2, <2>3, <2>4
<1> QED BY <1>6, <1>7, <1>8 DEF read, cons_read, write, NotPut

(* All that only goes on.                                                  *)
LEMMA OthersGoOn ==
    ASSUME ShellInv, NEW e \in Env,
           \/ redirect(e) \/ left(e) \/ runit(e) \/ close_all(e)
           \/ right(e) /\ job[e].at # "right_w"
           \/ (pipe_fork(e) \/ fork(e)) /\ list = <<>>
           \/ spawn(e) /\ (list = <<>> \/ Loads(e) \notin Programs)
           \/ readline(e) /\ Go(e, "exit")
    PROVE  \E k : Local(e, k) /\ GoesOn(job[e], k)
<1>1. st[e] = "runnable" /\ UNCHANGED <<id, st, interrupts>>
  BY DEF redirect, left, runit, close_all, right, pipe_fork, fork, spawn, readline, In, Same, dup, close
<1>2. \E at : Go(e, at) /\ Leads(job[e], at)
  <2>1. CASE redirect(e)
    BY <2>1 DEF redirect, dup, close, In, Leads
  <2>2. CASE left(e)
    BY <2>2 DEF left, dup, close, In, Leads
  <2>3. CASE runit(e)
    BY <2>3 DEF runit, In, Leads
  <2>4. CASE close_all(e)
    BY <2>4 DEF close_all, In, Leads
  <2>5. CASE right(e) /\ job[e].at # "right_w"
    BY <2>5 DEF right, dup, close, In, Leads
  <2>6. CASE pipe_fork(e) /\ list = <<>>
    BY <2>6 DEF pipe_fork, In, Leads
  <2>7. CASE fork(e) /\ list = <<>>
    BY <2>7 DEF fork, In, Leads
  <2>8. CASE spawn(e) /\ (list = <<>> \/ Loads(e) \notin Programs)
    BY <2>8 DEF spawn, In, Leads
  <2>9. CASE readline(e) /\ Go(e, "exit")
    BY <2>9 DEF readline, In, Leads
  <2> QED BY <2>1, <2>2, <2>3, <2>4, <2>5, <2>6, <2>7, <2>8, <2>9
<1> QED BY <1>1, <1>2, GoStep

(* What e keeps hold of when it goes on as k: who is at work on a complete *)
(* line; and init, the shell.                                              *)
Grips(e, k) ==
    \A d \in Env \ {0} : st[d] # "free" /\ Holds(e, d) =>
        /\ job[e].prog = "sh" \/ Complete(job[e].s) =>
             k.at # "exit" /\ (k.child = This(d) \/ k.rightpipe = This(d))
        /\ job[e].prog = "init" => k.child = This(d)

Good(e, k) ==
    /\ PartOK(k) /\ k.prog = job[e].prog /\ (k.s = job[e].s \/ k.prog = "sh")
    /\ k.child \in {NoEnv, job[e].child} /\ k.rightpipe \in {NoEnv, job[e].rightpipe}
    /\ k.prog = "init" /\ job[e].at # "exit" => k.at # "exit"
    /\ Grips(e, k)

(* Going on is good.                                                       *)
LEMMA GoesOnGood ==
    ASSUME PromptInv, NEW e \in Env, st[e] # "free", NEW k, GoesOn(job[e], k)
    PROVE  Good(e, k)
<1>1. PICK j : j = job[e]
  OBVIOUS
<1>2. j \in JobType /\ ProgOK(j) /\ PartOK(j)
  BY <1>1, LiveIs DEF PromptInv, EnvOK
<1>3. PartOK(k)
  BY <1>1, <1>2, GoesOnOK
<1>4. k.prog = j.prog /\ k.s = j.s /\ k.child = j.child /\ k.rightpipe = j.rightpipe /\ Leads(j, k.at)
  BY <1>1 DEF GoesOn, SameWords
<1>5. ASSUME NEW d \in Env \ {0}, Holds(e, d), j.prog = "sh" \/ Complete(j.s), k.at = "exit" PROVE FALSE
  <2>1. j.at # "exit" /\ (j.child = This(d) \/ j.rightpipe = This(d))
    BY <1>1, <1>5 DEF Holds
  <2>2. This(d) # NoEnv
    BY DEF This, NoEnv
  <2>3. RefsOK(j) /\ (j.prog = "run" => ArgvOK(j))
    BY <1>2 DEF PartOK
  <2>4. CASE j.at \in Parsing \cup Prompting \cup Programming \cup {"pipe_fork"}
    <3>1. j.child = NoEnv
      BY <1>2, <2>3, <2>4, ShellAssumption DEF RefsOK, ProgOK
    <3>2. j.rightpipe = NoEnv
      BY <1>2, <2>3, <2>4, ShellAssumption DEF RefsOK, ProgOK
    <3> QED BY <2>1, <2>2, <3>1, <3>2
  <2>5. CASE j.at = "runit" /\ j.argv = <<>>
    <3>1. j.prog = "run" /\ j.child = NoEnv
      BY <1>2, <2>3, <2>5 DEF RefsOK, ProgOK
    <3>2. j.rightpipe # NoEnv /\ Complete(j.s)
      BY <1>5, <2>1, <2>2, <3>1
    <3> QED BY <2>3, <2>5, <3>1, <3>2 DEF ArgvOK
  <2>6. CASE j.at = "close_all" /\ Awaited(j) = NoEnv
    BY <2>1, <2>2, <2>6 DEF Awaited
  <2> QED BY <1>4, <1>5, <2>1, <2>4, <2>5, <2>6 DEF Leads
<1>6. Grips(e, k)
  <2>1. ASSUME NEW d \in Env \ {0}, Holds(e, d)
        PROVE  /\ k.child = This(d) \/ k.rightpipe = This(d)
               /\ j.prog = "init" => k.child = This(d)
    <3>1. This(d) # NoEnv
      BY DEF This, NoEnv
    <3> QED BY <1>1, <1>2, <1>4, <2>1, <3>1 DEF Holds, PartOK, RefsOK
  <2> QED BY <1>1, <1>5, <2>1 DEF Grips
<1>7. k.prog = "init" /\ j.at # "exit" => k.at # "exit"
  BY <1>2, <1>4, ShellAssumption DEF ProgOK, Leads
<1> QED BY <1>1, <1>3, <1>4, <1>6, <1>7 DEF Good

(* So is a token.                                                          *)
LEMMA TokenGood ==
    ASSUME PromptInv, NEW e \in Env, runcmd(e)
    PROVE  \E k : Local(e, k) /\ Good(e, k)
<1>1. st[e] = "runnable" /\ job[e].at = "token" /\ UNCHANGED <<id, st, interrupts>>
  BY DEF runcmd, In, Same
<1>2. PartOK(job[e]) /\ job[e].prog = "run"
  BY <1>1, LiveIs DEF PromptInv, EnvOK, ProgOK
<1>3. PICK k : /\ job' = [job EXCEPT ![e] = k] /\ PartOK(k)
               /\ k.prog = job[e].prog /\ k.s = job[e].s
               /\ k.child = job[e].child /\ k.rightpipe = job[e].rightpipe
  BY <1>2, TokenPart DEF PromptInv
<1>4. Grips(e, k)
  <2>1. job[e].child = NoEnv /\ job[e].rightpipe = NoEnv
    BY <1>1, <1>2 DEF PartOK, RefsOK
  <2> QED BY <2>1 DEF Grips, Holds, This, NoEnv
<1>5. Good(e, k)
  BY <1>2, <1>3, <1>4 DEF Good
<1> QED BY <1>1, <1>3, <1>5 DEF Local

(* The right side starts with no words.                                    *)
LEMMA RightGood ==
    ASSUME PromptInv, NEW e \in Env, right(e), job[e].at = "right_w"
    PROVE  \E k : Local(e, k) /\ Good(e, k)
<1>1. st[e] = "runnable" /\ UNCHANGED <<id, st, interrupts>>
  BY DEF right, In, Same, dup, close
<1>2. PICK j : j = job[e]
  OBVIOUS
<1>3. j \in JobType /\ PartOK(j) /\ j.prog = "run"
  BY <1>1, <1>2, LiveIs DEF PromptInv, EnvOK, ProgOK
<1>4. PICK a : a = <<>>
  OBVIOUS
<1>5. PICK k : k = [j EXCEPT !.at = "token", !.argv = a]
  OBVIOUS
<1>6. job' = [job EXCEPT ![e] = k]
  BY <1>2, <1>4, <1>5 DEF right, In, PromptInv, ShellInv, JobsOK
<1>7. /\ k.at = "token" /\ k.argv = a /\ k.s = j.s /\ k.nul = j.nul /\ k.nc = j.nc /\ k.np1 = j.np1 /\ k.np2 = j.np2
      /\ k.prog = j.prog /\ k.child = j.child /\ k.rightpipe = j.rightpipe
  BY <1>3, <1>5 DEF JobType
<1>8. (NextIs(j) => NextIs(k)) /\ (Before(k) <=> Before(j))
  BY <1>7, TokensSame
<1>9. NextIs(j) /\ ~ Before(j) /\ j.child = NoEnv /\ j.rightpipe = NoEnv
  BY <1>2, <1>3 DEF PartOK, ArgvOK, RefsOK
<1>10. ArgvOK(k) /\ RefsOK(k)
  BY <1>3, <1>7, <1>8, <1>9, ShellAssumption DEF ArgvOK, RefsOK
<1>11. Grips(e, k)
  BY <1>2, <1>9 DEF Grips, Holds, This, NoEnv
<1> QED BY <1>1, <1>2, <1>6, <1>7, <1>8, <1>9, <1>10, <1>11 DEF Local, Good, PartOK

(* The shell has read a line.                                              *)
LEMMA LineGood ==
    ASSUME PromptInv, NEW e \in Env, readline(e), NEW s \in Lines,
           job' = [job EXCEPT ![e] = [@ EXCEPT !.at = "fork", !.s = s]]
    PROVE  \E k : Local(e, k) /\ Good(e, k)
<1>1. st[e] = "runnable" /\ job[e].at = "readline" /\ UNCHANGED <<id, st, interrupts>>
  BY DEF readline, In
<1>2. PICK j : j = job[e]
  OBVIOUS
<1>3. j \in JobType /\ PartOK(j) /\ j.prog = "sh"
  BY <1>1, <1>2, LiveIs DEF PromptInv, EnvOK, ProgOK
<1>4. PICK k : k = [j EXCEPT !.at = "fork", !.s = s]
  OBVIOUS
<1>5. job' = [job EXCEPT ![e] = k]
  BY <1>2, <1>4
<1>6. k.at = "fork" /\ k.prog = j.prog /\ k.child = j.child /\ k.rightpipe = j.rightpipe
  BY <1>3, <1>4 DEF JobType
<1>7. j.child = NoEnv /\ j.rightpipe = NoEnv
  BY <1>1, <1>2, <1>3 DEF PartOK, RefsOK
<1>8. PartOK(k)
  BY <1>3, <1>6, <1>7, ShellAssumption DEF PartOK, RefsOK
<1>9. Grips(e, k)
  BY <1>2, <1>7 DEF Grips, Holds, This, NoEnv
<1> QED BY <1>1, <1>2, <1>3, <1>5, <1>6, <1>8, <1>9 DEF Local, Good

(* A wait lets go only of what is gone.                                    *)
LEMMA WaitGood ==
    ASSUME PromptInv, NEW e \in Env, wait(e)
    PROVE  \E k : Local(e, k) /\ Good(e, k)
<1>1. st[e] = "runnable" /\ job[e].at \in Waiting /\ UNCHANGED <<id, st, interrupts>>
  BY DEF wait, Same
<1>2. PICK j : j = job[e]
  OBVIOUS
<1>3. j \in JobType /\ PartOK(j) /\ j.prog \in {"init", "sh", "run"}
  BY <1>1, <1>2, LiveIs DEF PromptInv, EnvOK, ProgOK
<1>4. CASE \E at \in Waiting : job' = [job EXCEPT ![e] = [j EXCEPT !.at = at]]
  <2>1. PICK at \in Waiting : job' = [job EXCEPT ![e] = [j EXCEPT !.at = at]]
    BY <1>4
  <2>2. Leads(j, at)
    BY <1>1, <1>2 DEF Leads
  <2>3. PICK k : k = [j EXCEPT !.at = at]
    OBVIOUS
  <2>4. GoesOn(j, k)
    BY <1>3, <2>2, <2>3, LineStays
  <2>5. Good(e, k)
    BY <1>1, <1>2, <2>4, GoesOnGood
  <2> QED BY <1>1, <2>1, <2>3, <2>5 DEF Local
<1>5. CASE job' = [job EXCEPT ![e] = Waited(j)] /\ ~ Live(Awaited(j))
  <2>1. PICK k : k = Waited(j)
    OBVIOUS
  <2>2. PICK none : none = NoEnv
    OBVIOUS
  <2>3. \/ j.prog = "init" /\ k = [j EXCEPT !.at = "start_sh", !.child = none]
        \/ j.prog = "sh" /\ k = [j EXCEPT !.at = "readline", !.child = none]
        \/ j.prog = "run" /\ j.child # none /\ j.rightpipe # none /\ k = [j EXCEPT !.child = none, !.at = "wait"]
        \/ j.prog = "run" /\ ~ (j.child # none /\ j.rightpipe # none) /\ k = [j EXCEPT !.at = "exit"]
    BY <1>3, <2>1, <2>2 DEF Waited
  <2>4. \E at \in Place : k = [j EXCEPT !.at = at] \/ k = [j EXCEPT !.at = at, !.child = none]
    <3>1. [j EXCEPT !.child = none, !.at = "wait"] = [j EXCEPT !.at = "wait", !.child = none]
      BY <1>3 DEF JobType
    <3> QED BY <2>3, <3>1
  <2>5. /\ k.prog = j.prog /\ k.s = j.s /\ k.nul = j.nul /\ k.nc = j.nc /\ k.np1 = j.np1 /\ k.np2 = j.np2
        /\ k.rightpipe = j.rightpipe
    <3>1. ASSUME NEW at, k = [j EXCEPT !.at = at]
          PROVE  /\ k.prog = j.prog /\ k.s = j.s /\ k.nul = j.nul /\ k.nc = j.nc /\ k.np1 = j.np1 /\ k.np2 = j.np2
                 /\ k.rightpipe = j.rightpipe
      BY <1>3, <3>1 DEF JobType
    <3>2. ASSUME NEW at, k = [j EXCEPT !.at = at, !.child = none]
          PROVE  /\ k.prog = j.prog /\ k.s = j.s /\ k.nul = j.nul /\ k.nc = j.nc /\ k.np1 = j.np1 /\ k.np2 = j.np2
                 /\ k.rightpipe = j.rightpipe
      BY <1>3, <3>2 DEF JobType
    <3> QED BY <2>4, <3>1, <3>2
  <2>12. \/ j.prog = "init" /\ k.at = "start_sh" /\ k.child = NoEnv
         \/ j.prog = "sh" /\ k.at = "readline" /\ k.child = NoEnv
         \/ j.prog = "run" /\ j.child # NoEnv /\ j.rightpipe # NoEnv /\ k.at = "wait" /\ k.child = NoEnv
         \/ j.prog = "run" /\ (j.child = NoEnv \/ j.rightpipe = NoEnv) /\ k.at = "exit" /\ k.child = j.child
    BY <1>3, <2>2, <2>3 DEF JobType
  <2>6. (NextIs(j) => NextIs(k)) /\ RefsOK(j) /\ (j.prog = "run" => NextIs(j))
    BY <1>3, <2>5, TokensSame DEF PartOK
  <2>7. ArgvOK(k)
    BY <2>12 DEF ArgvOK
  <2>8. RefsOK(k)
    BY <2>5, <2>12, <2>6, ShellAssumption DEF RefsOK
  <2>9. ASSUME NEW d \in Env \ {0}, st[d] # "free", Holds(e, d)
        PROVE  j.prog = "run" /\ k.at = "wait" /\ k.rightpipe = This(d)
    <3>1. This(d) # NoEnv /\ Live(This(d))
      BY <2>9 DEF This, NoEnv, Live
    <3>2. j.child = This(d) \/ j.rightpipe = This(d)
      BY <1>2, <2>9 DEF Holds
    <3>3. Awaited(j) # This(d)
      BY <1>5, <3>1
    <3>4. j.child # NoEnv /\ j.child # This(d) /\ j.rightpipe = This(d)
      BY <3>1, <3>2, <3>3 DEF Awaited
    <3>5. j.prog = "run"
      BY <1>3, <2>6, <3>1, <3>4 DEF RefsOK
    <3> QED BY <2>5, <2>12, <3>1, <3>4, <3>5
  <2>10. Grips(e, k)
    BY <1>2, <2>9 DEF Grips
  <2>11. Good(e, k)
    BY <1>2, <2>5, <2>12, <2>6, <2>7, <2>8, <2>10 DEF Good, PartOK
  <2> QED BY <1>1, <1>5, <2>1, <2>11 DEF Local
<1>6. PICK n : n = [j EXCEPT !.at = IF j.at = "wait" THEN "wait_status" ELSE "wait"]
  OBVIOUS
<1>7. \E at \in Waiting : n = [j EXCEPT !.at = at]
  BY <1>6
<1>8. job' = [job EXCEPT ![e] = n] \/ (job' = [job EXCEPT ![e] = Waited(j)] /\ ~ Live(Awaited(j)))
  BY <1>1, <1>2, <1>6 DEF wait, Live
<1> QED BY <1>4, <1>5, <1>7, <1>8

(* A good step keeps every chain of waits up to the shell.                 *)
LEMMA LocalInv ==
    ASSUME PromptInv, ShellInv', NEW e \in Env, st[e] # "free", NEW k, Local(e, k), Good(e, k)
    PROVE  PromptInv'
<1>1. /\ job' = [job EXCEPT ![e] = k] /\ id' = id /\ interrupts' = interrupts
      /\ \A d \in Env : st'[d] = "free" <=> st[d] = "free"
  BY DEF Local
<1>2. job \in [Env -> JobType \cup {NoJob}] /\ id \in [Env -> Nat] /\ job[e] \in JobType /\ 0 \in Env
  BY ShellAssumption DEF PromptInv, ShellInv, JobsOK, SlotsOK, Env
<1>3. job'[e] = k /\ \A d \in Env \ {e} : job'[d] = job[d]
  BY <1>1, <1>2
<1>4. /\ PartOK(k) /\ k.prog = job[e].prog /\ (k.s = job[e].s \/ k.prog = "sh")
      /\ k.child \in {NoEnv, job[e].child} /\ k.rightpipe \in {NoEnv, job[e].rightpipe} /\ Grips(e, k)
      /\ k.prog = "init" /\ job[e].at # "exit" => k.at # "exit"
  BY DEF Good
<1>5. \A d \in Env : st'[d] # "free" => PartOK(job'[d])
  BY <1>1, <1>3, <1>4 DEF PromptInv
<1>6. \A d : This(d)' = This(d)
  BY <1>1 DEF This
<1>7. \A d \in Env : job'[d].prog = job[d].prog
  BY <1>3, <1>4
<1>8. IdsOK'
  <2>1. NoEnv.id <= id[NoEnv.slot]
    BY <1>2 DEF NoEnv
  <2>2. k.child.id <= id[k.child.slot] /\ k.rightpipe.id <= id[k.rightpipe.slot]
    BY <1>4, <2>1 DEF PromptInv, IdsOK
  <2> QED BY <1>1, <1>3, <2>2 DEF PromptInv, IdsOK
<1>9. OneShell'
  <2>1. st'[0] # "free" /\ job'[0].prog = "init"
    BY <1>1, <1>2, <1>7 DEF PromptInv, OneShell
  <2>2. \A d \in Env : st'[d] # "free" /\ job'[d].prog = "init" => d = 0
    BY <1>1, <1>7 DEF PromptInv, OneShell
  <2>3. job'[0].at # "exit"
    <3>1. CASE e = 0
      BY <1>3, <1>4, <3>1 DEF PromptInv, OneShell
    <3>2. CASE e # 0
      BY <1>2, <1>3, <3>2 DEF PromptInv, OneShell
    <3> QED BY <3>1, <3>2
  <2>4. ASSUME NEW d \in Env, st'[d] # "free", job'[d].prog = "sh" PROVE job'[0].child = This(d)'
    <3>1. st[d] # "free" /\ job[d].prog = "sh" /\ job[0].child = This(d) /\ d # 0
      BY <1>1, <1>7, <2>4 DEF PromptInv, OneShell
    <3>2. CASE e = 0
      <4>1. Holds(0, d) /\ job[0].prog = "init"
        BY <3>1 DEF PromptInv, OneShell, Holds
      <4>2. k.child = This(d)
        BY <1>4, <3>1, <3>2, <4>1 DEF Grips
      <4> QED BY <1>3, <1>6, <3>2, <4>2
    <3>3. CASE e # 0
      BY <1>2, <1>3, <1>6, <3>1, <3>3
    <3> QED BY <3>2, <3>3
  <2> QED BY <2>1, <2>2, <2>3, <2>4 DEF OneShell
<1>10. ASSUME interrupts' = 0 PROVE \E R \in [Env -> Nat] : Ranked(R)'
  <2>1. PICK R \in [Env -> Nat] : Ranked(R)
    BY <1>1, <1>10 DEF PromptInv
  <2>2. \A d \in Env : Works(d)' <=> Works(d)
    <3>1. \A d \in Env : job'[d].s = job[d].s \/ job'[d].prog = "sh"
      BY <1>3, <1>4
    <3> QED BY <1>1, <1>7, <3>1 DEF Works
  <2>3. ASSUME NEW d \in Env, Works(d)'
        PROVE  \E h \in Env : Holds(h, d)' /\ (job'[h].prog = "sh" \/ (Works(h)' /\ R[h] < R[d]))
    <3>1. PICK h \in Env : Holds(h, d) /\ (job[h].prog = "sh" \/ (Works(h) /\ R[h] < R[d]))
      BY <2>1, <2>2, <2>3 DEF Ranked
    <3>2. st[d] # "free" /\ d \in Env \ {0}
      BY <2>2, <2>3 DEF Works, PromptInv, OneShell
    <3>3. Holds(h, d)'
      <4>1. CASE h = e
        <5>1. job[e].prog = "sh" \/ Complete(job[e].s)
          BY <3>1, <4>1 DEF Works
        <5>2. k.at # "exit" /\ (k.child = This(d) \/ k.rightpipe = This(d))
          BY <1>4, <3>1, <3>2, <4>1, <5>1 DEF Grips
        <5> QED BY <1>1, <1>3, <1>6, <4>1, <5>2 DEF Holds
      <4>2. CASE h # e
        BY <1>1, <1>3, <1>6, <3>1, <4>2 DEF Holds
      <4> QED BY <4>1, <4>2
    <3> QED BY <1>7, <2>2, <3>1, <3>3
  <2>4. Ranked(R)'
    BY <2>3 DEF Ranked
  <2> QED BY <2>4
<1> QED BY <1>1, <1>5, <1>8, <1>9, <1>10 DEF PromptInv

(* Whoever ends by itself holds nobody any more; Ctrl-C is excepted.       *)
LEMMA EndPrompt ==
    ASSUME PromptInv, ShellInv', NEW e \in Env, exit(e) \/ interrupt(e)
    PROVE  PromptInv'
<1>1. /\ st[e] # "free" /\ st' = [st EXCEPT ![e] = "free"] /\ job' = [job EXCEPT ![e] = NoJob] /\ id' = id
      /\ interrupt(e) => interrupts' # 0
      /\ exit(e) => job[e].at = "exit" /\ interrupts' = interrupts
      /\ interrupts' \in Nat
  <2>1. interrupts \in Nat
    BY DEF PromptInv
  <2> QED BY <2>1 DEF exit, interrupt, destroy, In
<1>2. job \in [Env -> JobType \cup {NoJob}] /\ id \in [Env -> Nat] /\ st \in [Env -> {"free", "blocked", "runnable"}]
  BY DEF PromptInv, ShellInv, JobsOK, SlotsOK
<1>3. /\ st'[e] = "free" /\ \A d \in Env \ {e} : st'[d] = st[d] /\ job'[d] = job[d]
      /\ 0 \in Env
  BY <1>1, <1>2, ShellAssumption DEF Env
<1>4. \A d : This(d)' = This(d)
  BY <1>1 DEF This
<1>5. \A d \in Env : st'[d] # "free" => d # e /\ st[d] # "free" /\ job'[d] = job[d]
  BY <1>3
<1>6. \A d \in Env : st'[d] # "free" => PartOK(job'[d])
  BY <1>5 DEF PromptInv
<1>7. IdsOK'
  BY <1>1, <1>5 DEF PromptInv, IdsOK
<1>8. OneShell'
  <2>1. e # 0
    BY <1>1 DEF exit, interrupt, PromptInv, OneShell
  <2> QED BY <1>3, <1>4, <1>5, <2>1 DEF PromptInv, OneShell
<1>9. ASSUME interrupts' = 0 PROVE \E R \in [Env -> Nat] : Ranked(R)'
  <2>1. job[e].at = "exit" /\ interrupts = 0
    BY <1>1, <1>9
  <2>2. PICK R \in [Env -> Nat] : Ranked(R)
    BY <2>1 DEF PromptInv
  <2>3. ASSUME NEW d \in Env, Works(d)'
        PROVE  \E h \in Env : Holds(h, d)' /\ (job'[h].prog = "sh" \/ (Works(h)' /\ R[h] < R[d]))
    <3>1. Works(d)
      BY <1>5, <2>3 DEF Works
    <3>2. PICK h \in Env : Holds(h, d) /\ (job[h].prog = "sh" \/ (Works(h) /\ R[h] < R[d]))
      BY <2>2, <3>1 DEF Ranked
    <3>3. h # e
      BY <2>1, <3>2 DEF Holds
    <3> QED BY <1>3, <1>4, <3>2, <3>3 DEF Holds, Works
  <2>4. Ranked(R)'
    BY <2>3 DEF Ranked
  <2> QED BY <2>4
<1> QED BY <1>1, <1>6, <1>7, <1>8, <1>9 DEF PromptInv

(* Somebody new is held by who has started it, and ranks behind it.        *)
LEMMA StartPrompt ==
    ASSUME PromptInv, ShellInv', NEW e \in Env, st[e] # "free", list # <<>>, NEW j, NEW f, NEW k,
           Starts(e, j, f, k), PartOK(j), PartOK(k),
           j.child = NoEnv, j.rightpipe = NoEnv, j.prog # "init",
           k.prog = job[e].prog, k.s = job[e].s, k.at # "exit",
           \/ k.child = Child /\ k.rightpipe = job[e].rightpipe /\ job[e].child = NoEnv
           \/ k.rightpipe = Child /\ k.child = job[e].child /\ job[e].rightpipe = NoEnv,
           j.prog = "sh" <=> job[e].prog = "init",
           job[e].prog = "init" => k.child = Child /\ job[e].child = NoEnv,
           j.prog # "sh" => job[e].prog = "sh" \/ j.s = job[e].s
    PROVE  PromptInv'
<1>1. PICK c : c = Child.slot
  OBVIOUS
<1>2. c \in Env /\ st[c] = "free" /\ c # e /\ Child = [slot |-> c, id |-> id[c] + 1]
  <2>1. Child.slot \in Env /\ st[Child.slot] = "free"
    BY ChildIs DEF PromptInv, ShellInv
  <2> QED BY <1>1, <2>1 DEF Child
<1>3. /\ id' = [id EXCEPT ![c] = id[c] + 1] /\ st' = [st EXCEPT ![c] = "runnable"]
      /\ job' = [job EXCEPT ![c] = j, ![e] = k] /\ interrupts' = interrupts
  BY <1>1, <1>2 DEF Starts
<1>4. job \in [Env -> JobType \cup {NoJob}] /\ id \in [Env -> Nat] /\ st \in [Env -> {"free", "blocked", "runnable"}]
  BY DEF PromptInv, ShellInv, JobsOK, SlotsOK
<1>5. /\ job'[c] = j /\ job'[e] = k /\ \A d \in Env \ {c, e} : job'[d] = job[d]
      /\ st'[c] = "runnable" /\ \A d \in Env \ {c} : st'[d] = st[d] /\ id'[d] = id[d]
      /\ id'[c] = id[c] + 1 /\ id[c] \in Nat
  BY <1>2, <1>3, <1>4
<1>6. This(c)' = Child /\ \A d \in Env \ {c} : This(d)' = This(d)
  BY <1>2, <1>5 DEF This
<1>7. 0 \in Env /\ st[0] # "free" /\ job[0].prog = "init" /\ job[0].at # "exit" /\ c # 0
  BY <1>2, ShellAssumption DEF PromptInv, OneShell, Env
<1>8. \A d \in Env : st'[d] # "free" => PartOK(job'[d])
  BY <1>5 DEF PromptInv
<1>9. IdsOK'
  <2>1. \A d \in Env : id'[d] >= id[d]
    BY <1>4, <1>5
  <2>2. NoEnv.id <= id'[NoEnv.slot]
    BY <1>4, <1>5, <1>7 DEF NoEnv
  <2>3. Child.id <= id'[Child.slot]
    BY <1>2, <1>5
  <2>4. ASSUME NEW r \in EnvRef, r.id <= id[r.slot] PROVE r.id <= id'[r.slot]
    <3>1. r.id \in Nat /\ r.slot \in Env
      BY DEF EnvRef
    <3>2. id[r.slot] \in Nat /\ id'[r.slot] \in Nat /\ id'[r.slot] >= id[r.slot]
      BY <1>4, <1>5, <2>1, <3>1
    <3> QED BY <2>4, <3>1, <3>2
  <2>5. ASSUME NEW d \in Env, st[d] # "free"
        PROVE  job[d].child.id <= id'[job[d].child.slot] /\ job[d].rightpipe.id <= id'[job[d].rightpipe.slot]
    <3>1. job[d].child \in EnvRef /\ job[d].rightpipe \in EnvRef
      BY <2>5 DEF PromptInv, ShellInv, JobsOK, JobType
    <3> QED BY <2>4, <2>5, <3>1 DEF PromptInv, IdsOK
  <2>6. k.child \in {Child, job[e].child} /\ k.rightpipe \in {Child, job[e].rightpipe}
    OBVIOUS
  <2>7. k.child.id <= id'[k.child.slot] /\ k.rightpipe.id <= id'[k.rightpipe.slot]
    BY <2>3, <2>5, <2>6
  <2> QED BY <1>5, <2>2, <2>5, <2>7 DEF IdsOK
<1>10. OneShell'
  <2>1. st'[0] # "free" /\ job'[0].prog = "init" /\ job'[0].at # "exit"
    BY <1>5, <1>7
  <2>2. \A d \in Env : st'[d] # "free" /\ job'[d].prog = "init" => d = 0
    BY <1>5 DEF PromptInv, OneShell
  <2>3. ASSUME NEW d \in Env, st'[d] # "free", job'[d].prog = "sh" PROVE job'[0].child = This(d)'
    <3>1. CASE d = c
      BY <1>5, <1>6, <2>3, <3>1 DEF PromptInv, OneShell
    <3>2. CASE d # c
      <4>1. st[d] # "free" /\ job[d].prog = "sh" /\ job[0].child = This(d) /\ d # 0
        BY <1>5, <2>3, <3>2 DEF PromptInv, OneShell
      <4>2. e # 0
        BY <1>7, <4>1 DEF This, NoEnv
      <4> QED BY <1>5, <1>6, <1>7, <3>2, <4>1, <4>2
    <3> QED BY <3>1, <3>2
  <2> QED BY <2>1, <2>2, <2>3 DEF OneShell
<1>11. ASSUME interrupts' = 0 PROVE \E R \in [Env -> Nat] : Ranked(R)'
  <2>1. PICK R \in [Env -> Nat] : Ranked(R)
    BY <1>3, <1>11 DEF PromptInv
  <2>2. PICK Q : Q = [R EXCEPT ![c] = R[e] + 1]
    OBVIOUS
  <2>3. Q \in [Env -> Nat] /\ Q[c] = R[e] + 1 /\ R[e] \in Nat /\ \A d \in Env \ {c} : Q[d] = R[d]
    BY <1>2, <2>2
  <2>4. \A d \in Env \ {c} : Works(d)' <=> Works(d)
    BY <1>5 DEF Works
  <2>5. ASSUME NEW d \in Env, Works(d)'
        PROVE  \E h \in Env : Holds(h, d)' /\ (job'[h].prog = "sh" \/ (Works(h)' /\ Q[h] < Q[d]))
    <3>1. CASE d = c
      <4>1. Holds(e, c)'
        BY <1>2, <1>5, <1>6 DEF Holds
      <4>2. j.prog # "sh" /\ j.prog # "init" /\ Complete(j.s)
        BY <1>5, <2>5, <3>1 DEF Works
      <4>3. CASE job[e].prog = "sh"
        BY <1>5, <3>1, <4>1, <4>3
      <4>4. CASE job[e].prog # "sh"
        <5>1. k.prog \notin {"init", "sh"} /\ Complete(k.s)
          BY <4>2, <4>4
        <5>2. Works(e)'
          BY <1>2, <1>5, <5>1 DEF Works
        <5>3. Q[e] < Q[c]
          BY <1>2, <2>3
        <5> QED BY <3>1, <4>1, <5>2, <5>3
      <4> QED BY <4>3, <4>4
    <3>2. CASE d # c
      <4>1. PICK h \in Env : Holds(h, d) /\ (job[h].prog = "sh" \/ (Works(h) /\ R[h] < R[d]))
        BY <2>1, <2>4, <2>5, <3>2 DEF Ranked
      <4>2. h # c /\ st'[h] # "free" /\ job'[h].prog = job[h].prog
        BY <1>2, <1>5, <4>1 DEF Holds
      <4>3. d # 0
        BY <2>4, <2>5, <3>2 DEF Works, PromptInv, OneShell
      <4>4. Holds(h, d)'
        <5>1. job[h].child = This(d) \/ job[h].rightpipe = This(d)
          BY <4>1 DEF Holds
        <5>2. CASE h = e
          <6>1. This(d) # NoEnv
            BY <4>3 DEF This, NoEnv
          <6>2. k.child = This(d) \/ k.rightpipe = This(d)
            BY <5>1, <5>2, <6>1
          <6> QED BY <1>5, <1>6, <3>2, <4>2, <5>2, <6>2 DEF Holds
        <5>3. CASE h # e
          <6>1. job'[h] = job[h] /\ This(d)' = This(d)
            BY <1>5, <1>6, <3>2, <4>2, <5>3
          <6> QED BY <4>1, <4>2, <6>1 DEF Holds
        <5> QED BY <5>2, <5>3
      <4> QED BY <2>3, <2>4, <3>2, <4>1, <4>2, <4>4
    <3> QED BY <3>1, <3>2
  <2>6. Ranked(Q)'
    BY <2>5 DEF Ranked
  <2> QED BY <2>3, <2>6
<1> QED BY <1>3, <1>8, <1>9, <1>10, <1>11 DEF PromptInv

(* The right side of a pipe, started by the left.                          *)
LEMMA PipeForkPrompt ==
    ASSUME PromptInv, ShellInv', NEW e \in Env, pipe_fork(e), list # <<>>
    PROVE  PromptInv'
<1>1. st[e] = "runnable" /\ job[e].at = "pipe_fork"
  BY DEF pipe_fork, In
<1>2. PICK j : j = job[e]
  OBVIOUS
<1>3. j \in JobType /\ ProgOK(j) /\ PartOK(j) /\ j.prog = "run"
  BY <1>1, <1>2, LiveIs DEF PromptInv, EnvOK, ProgOK
<1>4. PICK c : c = Child
  OBVIOUS
<1>5. PICK h : h = [j EXCEPT !.at = "right_dup"]
  OBVIOUS
<1>6. PICK k : k = [j EXCEPT !.at = "left_dup", !.rightpipe = c]
  OBVIOUS
<1>7. Starts(e, h, fd[e], k)
  BY <1>2, <1>4, <1>5, <1>6 DEF pipe_fork
<1>8. GoesOn(j, h)
  <2>1. Leads(j, "right_dup")
    BY <1>1, <1>2 DEF Leads
  <2> QED BY <1>3, <1>5, <2>1, LineStays
<1>9. PartOK(h) /\ h.prog = j.prog /\ h.s = j.s /\ h.child = j.child /\ h.rightpipe = j.rightpipe
  BY <1>3, <1>8, GoesOnOK DEF GoesOn, SameWords
<1>10. /\ k.at = "left_dup" /\ k.rightpipe = c /\ k.child = j.child /\ k.prog = j.prog /\ k.s = j.s
       /\ k.nul = j.nul /\ k.nc = j.nc /\ k.np1 = j.np1 /\ k.np2 = j.np2 /\ k.argv = j.argv
  BY <1>3, <1>6 DEF JobType
<1>11. j.child = NoEnv /\ j.rightpipe = NoEnv
  BY <1>1, <1>2, <1>3 DEF PartOK, RefsOK
<1>12. PartOK(k)
  <2>1. NextIs(k)
    BY <1>3, <1>10, TokensSame DEF PartOK
  <2>2. ArgvOK(k)
    BY <1>1, <1>2, <1>3, <1>10 DEF PartOK, ArgvOK
  <2>3. RefsOK(k)
    BY <1>3, <1>10, <1>11, ShellAssumption DEF RefsOK
  <2> QED BY <2>1, <2>2, <2>3 DEF PartOK
<1> QED BY <1>1, <1>2, <1>3, <1>4, <1>7, <1>9, <1>10, <1>11, <1>12, StartPrompt

(* A command.                                                              *)
LEMMA SpawnPrompt ==
    ASSUME PromptInv, ShellInv', NEW e \in Env, spawn(e), list # <<>>, Loads(e) \in Programs
    PROVE  PromptInv'
<1>1. st[e] = "runnable" /\ job[e].at = "spawn_env"
  BY DEF spawn, In
<1>2. PICK j : j = job[e]
  OBVIOUS
<1>3. j \in JobType /\ PartOK(j) /\ j.prog = "run"
  BY <1>1, <1>2, LiveIs DEF PromptInv, EnvOK, ProgOK
<1>4. PICK c : c = Child
  OBVIOUS
<1>5. PICK prog \in Programs : prog = Loads(e)
  OBVIOUS
<1>6. PICK h : h = [NoJob EXCEPT !.prog = prog, !.at = "start", !.s = j.s]
  OBVIOUS
<1>7. PICK k : k = [j EXCEPT !.at = "close_all", !.child = c]
  OBVIOUS
<1>8. PICK g : g = [fd[e] EXCEPT ![j.fd] = 0]
  OBVIOUS
<1>9. Starts(e, h, g, k)
  BY <1>2, <1>4, <1>5, <1>6, <1>7, <1>8 DEF spawn
<1>10. h.prog = prog /\ h.at = "start" /\ h.s = j.s /\ h.child = NoEnv /\ h.rightpipe = NoEnv
  BY <1>6 DEF NoJob
<1>11. prog \notin {"init", "sh", "run"}
  BY ShellAssumption
<1>12. PartOK(h)
  BY <1>10, <1>11 DEF PartOK, RefsOK
<1>13. /\ k.at = "close_all" /\ k.child = c /\ k.rightpipe = j.rightpipe /\ k.prog = j.prog /\ k.s = j.s
       /\ k.nul = j.nul /\ k.nc = j.nc /\ k.np1 = j.np1 /\ k.np2 = j.np2
  BY <1>3, <1>7 DEF JobType
<1>14. j.child = NoEnv
  BY <1>1, <1>2, <1>3 DEF PartOK, RefsOK
<1>15. PartOK(k)
  <2>1. NextIs(k)
    BY <1>3, <1>13, TokensSame DEF PartOK
  <2>2. ArgvOK(k) /\ RefsOK(k)
    BY <1>3, <1>13, ShellAssumption DEF ArgvOK, RefsOK
  <2> QED BY <2>1, <2>2 DEF PartOK
<1> QED BY <1>1, <1>2, <1>3, <1>4, <1>9, <1>10, <1>11, <1>12, <1>13, <1>14, <1>15, StartPrompt

(* A job that waits for the one it has started, and what is so of it.      *)
WaitsFor(j, c) == [j EXCEPT !.at = "wait", !.child = c]

(* It is in order.                                                         *)
LEMMA WaiterIs ==
    ASSUME NEW j \in JobType, NEW c, NEW k, k = WaitsFor(j, c), PartOK(j), j.prog \in {"init", "sh"}
    PROVE  PartOK(k) /\ k.at = "wait" /\ k.child = c /\ k.rightpipe = j.rightpipe /\ k.prog = j.prog /\ k.s = j.s
<1>1. k.at = "wait" /\ k.child = c /\ k.rightpipe = j.rightpipe /\ k.prog = j.prog /\ k.s = j.s
  BY DEF JobType, WaitsFor
<1>2. RefsOK(k)
  BY <1>1, ShellAssumption DEF PartOK, RefsOK
<1> QED BY <1>1, <1>2 DEF PartOK

(* The shell's child, with the line.                                       *)
LEMMA ForkPrompt ==
    ASSUME PromptInv, ShellInv', NEW e \in Env, fork(e), list # <<>>
    PROVE  PromptInv'
<1>1. st[e] = "runnable" /\ job[e].at = "fork"
  BY DEF fork, In
<1>2. PICK j : j = job[e]
  OBVIOUS
<1>3. j \in JobType /\ PartOK(j) /\ j.prog = "sh"
  BY <1>1, <1>2, LiveIs DEF PromptInv, EnvOK, ProgOK
<1>4. PICK c : c = Child
  OBVIOUS
<1>5. PICK line : line = [NoJob EXCEPT !.prog = "run", !.at = "token", !.s = j.s]
  OBVIOUS
<1>6. PICK h : h = _gettoken(line, 1)
  OBVIOUS
<1>7. PICK k : k = WaitsFor(j, c)
  OBVIOUS
<1>8. Starts(e, h, fd[e], k)
  BY <1>2, <1>4, <1>5, <1>6, <1>7 DEF fork, WaitsFor
<1>9. line \in JobType /\ line.prog = "run" /\ line.at = "token" /\ line.s = j.s /\ j.s \in Seq(STRING)
  <2>1. j.s \in Seq(STRING)
    BY <1>3 DEF JobType
  <2>2. line = New("run", "token", j.s) /\ "token" \in Place
    BY <1>5 DEF New
  <2>3. Fresh(line, "run", "token", j.s)
    BY <2>1, <2>2, NewJob
  <2> QED BY <2>1, <2>3 DEF Fresh
<1>10. line.nul = {} /\ line.child = NoEnv /\ line.rightpipe = NoEnv
  BY <1>5 DEF NoJob
<1>11. 1 \in 1 .. Len(line.s) + 1 /\ \A x \in line.nul : x < 1
  BY <1>9, <1>10
<1>12. /\ h.prog = "run" /\ h.at = "token" /\ h.s = line.s /\ h.child = NoEnv /\ h.rightpipe = NoEnv
       /\ h \in JobType
  <2>1. Scans(line, 1, h)
    BY <1>6, <1>9, <1>11, ScanIs
  <2> QED BY <1>9, <1>10, <2>1 DEF Scans, SameButToken, SameButLine
<1>13. NextIs(h) /\ Gap(h, 1)
  BY <1>6, <1>9, <1>11, FindsNext
<1>14. ~ Before(h)
  <2>1. SUFFICES ASSUME Before(h) PROVE FALSE
    OBVIOUS
  <2>2. PICK i \in 1 .. h.np1 - 1 : Command(h.s, i)
    BY <2>1 DEF Before
  <2>3. h.s[i] \in WHITESPACE
    BY <1>13, <2>1, <2>2 DEF Gap, Before
  <2> QED BY <2>2, <2>3 DEF Command
<1>15. PartOK(h)
  BY <1>12, <1>13, <1>14, ShellAssumption DEF PartOK, ArgvOK, RefsOK
<1>16. PartOK(k) /\ k.at = "wait" /\ k.child = c /\ k.rightpipe = j.rightpipe /\ k.prog = j.prog /\ k.s = j.s
  BY <1>3, <1>7, WaiterIs
<1>17. j.child = NoEnv
  BY <1>1, <1>2, <1>3 DEF PartOK, RefsOK
<1> QED BY <1>1, <1>2, <1>3, <1>4, <1>8, <1>12, <1>15, <1>16, <1>17, StartPrompt

(* A shell, when there is none.                                            *)
LEMMA StartShPrompt ==
    ASSUME PromptInv, ShellInv', NEW e \in Env, start_sh(e)
    PROVE  PromptInv'
<1>1. st[e] = "runnable" /\ job[e].at = "start_sh" /\ list # <<>>
  BY DEF start_sh, In
<1>2. PICK j : j = job[e]
  OBVIOUS
<1>3. j \in JobType /\ PartOK(j) /\ j.prog = "init"
  BY <1>1, <1>2, LiveIs DEF PromptInv, EnvOK, ProgOK
<1>4. PICK c : c = Child
  OBVIOUS
<1>5. PICK h : h = [NoJob EXCEPT !.prog = "sh", !.at = "readline"]
  OBVIOUS
<1>6. PICK k : k = WaitsFor(j, c)
  OBVIOUS
<1>7. Starts(e, h, fd[e], k)
  BY <1>2, <1>4, <1>5, <1>6 DEF start_sh, WaitsFor
<1>8. h.prog = "sh" /\ h.at = "readline" /\ h.child = NoEnv /\ h.rightpipe = NoEnv
  BY <1>5 DEF NoJob
<1>9. PartOK(h)
  BY <1>8, ShellAssumption DEF PartOK, RefsOK
<1>10. PartOK(k) /\ k.at = "wait" /\ k.child = c /\ k.rightpipe = j.rightpipe /\ k.prog = j.prog /\ k.s = j.s
  BY <1>3, <1>6, WaiterIs
<1>11. j.child = NoEnv
  BY <1>1, <1>2, <1>3 DEF PartOK, RefsOK
<1> QED BY <1>1, <1>2, <1>3, <1>4, <1>7, <1>8, <1>9, <1>10, <1>11, StartPrompt

(* Every step.                                                             *)
LEMMA StepPrompt == PromptInv /\ [Next]_vars => PromptInv'
<1> SUFFICES ASSUME PromptInv, [Next]_vars PROVE PromptInv'
  OBVIOUS
<1>0. ShellInv'
  BY StepInv DEF PromptInv
<1>1. CASE UNCHANGED vars
  <2>1. /\ id' = id /\ st' = st /\ job' = job /\ interrupts' = interrupts
    BY <1>1 DEF vars
  <2>2. \A R : Ranked(R)' <=> Ranked(R)
    BY <2>1 DEF Ranked, Works, Holds, This
  <2> QED BY <1>0, <2>1, <2>2 DEF PromptInv, IdsOK, OneShell, This
<1>2. ASSUME NEW e \in Env, Moves(e) PROVE PromptInv'
  <2>1. st[e] # "free"
    BY <1>2 DEF Moves, Step, In, open, opened, runcmd, redirect, pipe, pipe_fork, right, left, runit, spawn,
                close_all, wait, fork, start_sh, start, read, write, exit, readline, cons_read, interrupt
  <2>2. ASSUME \E k : Local(e, k) /\ GoesOn(job[e], k) PROVE PromptInv'
    BY <1>0, <2>1, <2>2, GoesOnGood, LocalInv
  <2>3. ASSUME \E k : Local(e, k) /\ Good(e, k) PROVE PromptInv'
    BY <1>0, <2>1, <2>3, LocalInv
  <2>4. CASE open(e) BY <2>2, <2>4, OpenGoesOn DEF PromptInv
  <2>5. CASE opened(e) BY <2>2, <2>5, OpenedGoesOn DEF PromptInv
  <2>6. CASE runcmd(e) BY <2>3, <2>6, TokenGood
  <2>7. CASE redirect(e) \/ left(e) \/ runit(e) \/ close_all(e) BY <2>2, <2>7, OthersGoOn DEF PromptInv
  <2>8. CASE pipe(e) BY <2>2, <2>8, PipeGoesOn DEF PromptInv
  <2>9. CASE pipe_fork(e)
    <3>1. CASE list = <<>> BY <2>2, <2>9, <3>1, OthersGoOn DEF PromptInv
    <3>2. CASE list # <<>> BY <1>0, <2>9, <3>2, PipeForkPrompt
    <3> QED BY <3>1, <3>2
  <2>10. CASE right(e)
    <3>1. CASE job[e].at # "right_w" BY <2>2, <2>10, <3>1, OthersGoOn DEF PromptInv
    <3>2. CASE job[e].at = "right_w" BY <2>3, <2>10, <3>2, RightGood
    <3> QED BY <3>1, <3>2
  <2>11. CASE spawn(e)
    <3>1. CASE list = <<>> \/ Loads(e) \notin Programs BY <2>2, <2>11, <3>1, OthersGoOn DEF PromptInv
    <3>2. CASE list # <<>> /\ Loads(e) \in Programs BY <1>0, <2>11, <3>2, SpawnPrompt
    <3> QED BY <3>1, <3>2
  <2>12. CASE wait(e) BY <2>3, <2>12, WaitGood
  <2>13. CASE fork(e)
    <3>1. CASE list = <<>> BY <2>2, <2>13, <3>1, OthersGoOn DEF PromptInv
    <3>2. CASE list # <<>> BY <1>0, <2>13, <3>2, ForkPrompt
    <3> QED BY <3>1, <3>2
  <2>14. CASE start_sh(e) BY <1>0, <2>14, StartShPrompt
  <2>15. CASE start(e) \/ read(e) \/ cons_read(e) \/ write(e) BY <2>2, <2>15, CommandGoesOn DEF PromptInv
  <2>16. CASE exit(e) \/ interrupt(e) BY <1>0, <2>16, EndPrompt
  <2>17. CASE readline(e)
    <3>1. CASE Go(e, "exit") BY <2>2, <2>17, <3>1, OthersGoOn DEF PromptInv
    <3>2. CASE \E s \in Lines : job' = [job EXCEPT ![e] = [@ EXCEPT !.at = "fork", !.s = s]]
      BY <2>3, <2>17, <3>2, LineGood
    <3> QED BY <2>17, <3>1, <3>2 DEF readline
  <2> QED BY <1>2, <2>4, <2>5, <2>6, <2>7, <2>8, <2>9, <2>10, <2>11, <2>12, <2>13, <2>14, <2>15, <2>16, <2>17
          DEF Moves, Step
<1> QED BY <1>1, <1>2 DEF Next, Moves

(* At the start there are init and its shell.                              *)
LEMMA InitPrompt == Init => PromptInv
<1> SUFFICES ASSUME Init PROVE PromptInv
  OBVIOUS
<1>1. ShellInv
  BY InitInv
<1>2. /\ id = [e \in Env |-> IF e \in {0, 1} THEN 1 ELSE 0]
      /\ st = [e \in Env |-> IF e \in {0, 1} THEN "runnable" ELSE "free"]
      /\ interrupts = 0 /\ 0 \in Env
  BY ShellAssumption DEF Init, Env
<1>3. job = [e \in Env |-> CASE e = 0 -> [NoJob EXCEPT !.prog = "init", !.at = "wait", !.child = [slot |-> 1, id |-> 1]]
                             [] e = 1 -> [NoJob EXCEPT !.prog = "sh", !.at = "readline"]
                             [] OTHER -> NoJob]
  BY DEF Init
<1>4. PICK i : i = [NoJob EXCEPT !.prog = "init", !.at = "wait", !.child = [slot |-> 1, id |-> 1]]
  OBVIOUS
<1>5. PICK s : s = [NoJob EXCEPT !.prog = "sh", !.at = "readline"]
  OBVIOUS
<1>6. job = [e \in Env |-> CASE e = 0 -> i [] e = 1 -> s [] OTHER -> NoJob]
  BY <1>3, <1>4, <1>5
<1>7. /\ i.prog = "init" /\ i.at = "wait" /\ i.child = [slot |-> 1, id |-> 1] /\ i.rightpipe = NoEnv
      /\ s.prog = "sh" /\ s.at = "readline" /\ s.child = NoEnv /\ s.rightpipe = NoEnv
  BY <1>4, <1>5 DEF NoJob
<1>8. \A e \in Env : st[e] # "free" => (e = 0 /\ job[e] = i) \/ (e = 1 /\ job[e] = s)
  BY <1>2, <1>6
<1>9. st[0] # "free" /\ job[0] = i
  BY <1>2, <1>6
<1>10. PartOK(i) /\ PartOK(s)
  BY <1>7, ShellAssumption DEF PartOK, RefsOK
<1>11. IdsOK
  <2>1. 1 \in Env
    BY ShellAssumption DEF Env
  <2> QED BY <1>2, <1>7, <1>8, <2>1 DEF IdsOK, NoEnv
<1>12. OneShell
  BY <1>2, <1>7, <1>8, <1>9 DEF OneShell, This
<1>13. \E R \in [Env -> Nat] : Ranked(R)
  <2>1. [e \in Env |-> 0] \in [Env -> Nat]
    OBVIOUS
  <2>2. \A d \in Env : ~ Works(d)
    BY <1>7, <1>8 DEF Works
  <2> QED BY <2>1, <2>2 DEF Ranked
<1> QED BY <1>1, <1>2, <1>8, <1>10, <1>11, <1>12, <1>13 DEF PromptInv

(* The chain of waits ends at a shell that waits, so that the one at the   *)
(* prompt, the only one, has nobody left.                                  *)
LEMMA PromptIs == PromptInv => PromptIsClean
<1> SUFFICES ASSUME PromptInv, NEW e \in Env, job[e].prog = "sh", job[e].at = "readline", interrupts = 0,
                    NEW d \in Env, st[d] # "free", Complete(job[d].s), job[d].prog \notin {"init", "sh"}
             PROVE  FALSE
  BY DEF PromptIsClean
<1>1. PICK R \in [Env -> Nat] : Ranked(R)
  BY DEF PromptInv
<1> DEFINE T == {R[w] : w \in {x \in Env : Works(x)}}
<1>2. T \in SUBSET Nat /\ R[d] \in T
  BY DEF Works
<1>3. PICK n \in T : \A y \in T : ~ (<<y, n>> \in OpToRel(<, Nat))
  BY <1>2, NatLessThanWellFounded, WFMin
<1>4. PICK w \in Env : Works(w) /\ R[w] = n
  BY <1>3
<1>5. PICK h \in Env : Holds(h, w) /\ (job[h].prog = "sh" \/ (Works(h) /\ R[h] < R[w]))
  BY <1>1, <1>4 DEF Ranked
<1>6. job[h].prog = "sh"
  <2>1. SUFFICES ASSUME Works(h), R[h] < n PROVE FALSE
    BY <1>4, <1>5
  <2>2. R[h] \in T /\ R[h] \in Nat /\ n \in Nat
    BY <1>2, <2>1
  <2>3. <<R[h], n>> \in Nat \X Nat /\ <<R[h], n>>[1] = R[h] /\ <<R[h], n>>[2] = n
    BY <2>2
  <2> QED BY <1>3, <2>1, <2>2, <2>3 DEF OpToRel
<1>7. st[h] # "free" /\ (job[h].child = This(w) \/ job[h].rightpipe = This(w)) /\ w # 0
  BY <1>4, <1>5 DEF Holds, Works, PromptInv, OneShell
<1>8. This(w) # NoEnv
  BY <1>7 DEF This, NoEnv
<1>9. job[h].at \in Waiting
  BY <1>6, <1>7, <1>8 DEF PromptInv, PartOK, RefsOK
<1>10. st[e] # "free"
  BY DEF PromptInv, ShellInv, JobsOK, NoJob
<1>11. This(e) = This(h)
  BY <1>6, <1>7, <1>10 DEF PromptInv, OneShell
<1>12. e = h
  BY <1>11 DEF This
<1> QED BY <1>9, <1>12

(* When the prompt comes back, nobody of a complete line is left: for any  *)
(* line, and any number of environments (sh.c:216, wait.c:9).              *)
THEOREM PromptClean == Spec => []PromptIsClean
<1>1. Spec => []PromptInv
  BY InitPrompt, StepPrompt, PTL DEF Spec
<1> QED BY <1>1, PromptIs, PTL
=============================================================================
