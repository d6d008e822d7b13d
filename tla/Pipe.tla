-------------------------------- MODULE Pipe --------------------------------
(***************************************************************************)
(* One pipe and the environments that share it (user/pipe.c, the           *)
(* descriptor operations of user/fd.c it relies on, and the inheritance of *)
(* descriptors in user/fork.c).                                            *)
(*                                                                         *)
(* A pipe has no kernel object: it is one page of data, mapped once for    *)
(* every descriptor, and two descriptor pages, one for reading and one for *)
(* writing.  Whether the other end is closed is read off the reference     *)
(* counts the kernel keeps of those pages.  A system call is one step; so  *)
(* is a load or store of shared memory.  The clock may interrupt between   *)
(* any two steps, and an environment may die at any step.                  *)
(***************************************************************************)
EXTENDS Integers, FiniteSets

CONSTANTS
    Env,           \* the environments that may come to share the pipe
    NoEnv,
    NSlot,         \* descriptors per environment (MAXFD)
    BY2PIPE,       \* capacity of the buffer
    PosMod,        \* p_rpos and p_wpos are u_int: they count modulo PosMod
    PositionFirst, \* p_buf[p_rpos++ % BY2PIPE]: the build stores the position before it touches the byte
    ForkMayFail,   \* memory may run out in the sys_mem_map of a fork
    Slice,         \* user steps at least between two clock interrupts; 0 for any interleaving
    MaxRequest,    \* bound: bytes asked of one read or write
    MaxBytes       \* bound: no write starts that would end beyond this position

ASSUME PipeAssumption ==
    /\ IsFiniteSet(Env) /\ NoEnv \notin Env
    /\ NSlot \in Nat /\ NSlot > 1
    /\ BY2PIPE \in Nat \ {0} /\ PosMod \in Nat /\ PosMod > BY2PIPE
    /\ PositionFirst \in BOOLEAN /\ ForkMayFail \in BOOLEAN
    /\ Slice \in Nat /\ MaxRequest \in Nat /\ MaxBytes \in Nat

Slot == 0 .. NSlot - 1

VARIABLES
    life,      \* life[e]: "none", "making" (a fork is filling it) or "alive"
    parent,    \* parent[e]: who may destroy e
    fd,        \* fd[e][s]: the descriptor page mapped in slot s: "rd", "wr" or "none"
    data,      \* data[e][s]: whether the pipe's page is mapped at fd2data of slot s
    rpos, wpos,
    buf,       \* p_buf; a byte is named by its place in the stream
    cur,       \* the environment that has the processor
    slice,     \* steps left before the clock may interrupt it
    pc,        \* where e is inside the library, "user" if outside
    reg        \* e's arguments and local variables

memVars  == <<fd, data>>
pipeVars == <<rpos, wpos, buf>>
envVars  == <<life, parent>>
vars     == <<memVars, pipeVars, envVars, cur, slice, pc, reg>>

NoByte == -1    \* a byte nobody wrote
NoVal  == -2    \* nothing loaded yet

(* op: the call; slot: its descriptor; arg: the number of bytes, the new   *)
(* descriptor or the child; i: bytes done, or slots forked; at: the        *)
(* position loaded; val: the byte loaded; of _pipeisclosed, moved: env_runs*)
(* changed since t was read; refs: pageref(fd); same: r.                   *)
NoReg == [op |-> "none", slot |-> 0, arg |-> 0, i |-> 0, at |-> 0, val |-> NoVal,
          moved |-> FALSE, refs |-> 0, same |-> FALSE]

Checking == {"pageref_fd", "pageref_p", "again"}

Label == {"user", "room", "load", "byte", "position", "advance", "yield", "runs",
          "close_fd", "close_data", "dup_data", "dup_fd",
          "fork_fd", "fork_data", "fork_run"} \cup Checking

PipeTypeOK ==
    /\ life \in [Env -> {"none", "making", "alive"}]
    /\ parent \in [Env -> Env \cup {NoEnv}]
    /\ fd \in [Env -> [Slot -> {"rd", "wr", "none"}]]
    /\ data \in [Env -> [Slot -> BOOLEAN]]
    /\ rpos \in 0 .. PosMod - 1 /\ wpos \in 0 .. PosMod - 1
    /\ buf \in [0 .. BY2PIPE - 1 -> -1 .. PosMod - 1]
    /\ cur \in Env \cup {NoEnv}
    /\ slice \in 0 .. Slice
    /\ pc \in [Env -> Label]
    /\ reg \in [Env ->
        [op : {"none", "read", "write", "check", "close", "dup", "fork"},
         slot : Slot, arg : Nat \cup Env, i : Nat, at : 0 .. PosMod - 1,
         val : -2 .. PosMod - 1, moved : BOOLEAN, refs : Nat, same : BOOLEAN]]

(* One environment, no pipe yet.                                           *)
Init ==
    /\ \E e \in Env :
        /\ life = [f \in Env |-> IF f = e THEN "alive" ELSE "none"]
        /\ cur = e
    /\ parent = [e \in Env |-> NoEnv]
    /\ fd = [e \in Env |-> [s \in Slot |-> "none"]]
    /\ data = [e \in Env |-> [s \in Slot |-> FALSE]]
    /\ rpos = 0 /\ wpos = 0
    /\ buf = [k \in 0 .. BY2PIPE - 1 |-> NoByte]
    /\ slice = Slice
    /\ pc = [e \in Env |-> "user"]
    /\ reg = [e \in Env |-> NoReg]

----------------------------------------------------------------------------
(* pageref: the kernel's count of a page's mappings.                       *)
FdRefs(kind) == Cardinality({x \in Env \X Slot : fd[x[1]][x[2]] = kind})
DataRefs == Cardinality({x \in Env \X Slot : data[x[1]][x[2]]})

(* One step of e, at label l.                                              *)
At(e, l) ==
    /\ cur = e /\ pc[e] = l
    /\ slice' = IF slice = 0 THEN 0 ELSE slice - 1

Goto(e, l) == pc' = [pc EXCEPT ![e] = l]

Return(e) == Goto(e, "user") /\ reg' = [reg EXCEPT ![e] = NoReg]

(* X_mistake is operation X with a mistake in it, for the mutation runs.   *)

(* env_runs is not counted up.                                             *)
env_run_uncounted(f, r) ==
    /\ cur' = f
    /\ slice' = Slice
    /\ reg' = r

(* env_run(f): a check that f was in the middle of notices.                *)
env_run(f, r) ==
    /\ cur' = f
    /\ slice' = Slice
    /\ reg' = [r EXCEPT ![f].moved = pc[f] \in Checking]

Enter(e, l, op, slot, arg) ==
    /\ At(e, "user")
    /\ Goto(e, l)
    /\ reg' = [reg EXCEPT ![e].op = op, ![e].slot = slot, ![e].arg = arg]
    /\ UNCHANGED <<pipeVars, cur>>

----------------------------------------------------------------------------
(* pipe: nobody else can see any of it before it returns.                  *)
pipe(e) ==
    /\ At(e, "user")
    /\ \A f \in Env, s \in Slot : fd[f][s] = "none" /\ ~ data[f][s]
    /\ fd' = [fd EXCEPT ![e][0] = "rd", ![e][1] = "wr"]
    /\ data' = [data EXCEPT ![e][0] = TRUE, ![e][1] = TRUE]
    /\ rpos' = 0 /\ wpos' = 0
    /\ buf' = [k \in 0 .. BY2PIPE - 1 |-> NoByte]
    /\ UNCHANGED <<envVars, cur, pc, reg>>

(* pipeisclosed, read and write, up to their first look at the pipe.       *)
pipeisclosed(e, s) ==
    /\ fd[e][s] # "none"
    /\ Enter(e, "runs", "check", s, 0)
    /\ UNCHANGED <<memVars, envVars>>

read(e, s, n) ==
    /\ fd[e][s] = "rd"
    /\ Enter(e, "room", "read", s, n)
    /\ UNCHANGED <<memVars, envVars>>

write(e, s, n) ==
    /\ fd[e][s] = "wr"
    /\ wpos + n <= MaxBytes
    /\ Enter(e, "room", "write", s, n)
    /\ UNCHANGED <<memVars, envVars>>

(* close: pipeclose, after fd_lookup.                                      *)
close(e, s) ==
    /\ fd[e][s] # "none"
    /\ Enter(e, "close_fd", "close", s, s)
    /\ UNCHANGED <<memVars, envVars>>

(* dup: the new descriptor is closed first, if it was open.                *)
dup(e, s, new) ==
    /\ fd[e][s] # "none" /\ s # new
    /\ Enter(e, IF fd[e][new] = "none" THEN "dup_data" ELSE "close_fd", "dup", s, new)
    /\ UNCHANGED <<memVars, envVars>>

(* fork, up to sys_env_alloc.                                              *)
fork(e, child) ==
    /\ life[child] = "none"
    /\ Enter(e, "fork_fd", "fork", 0, child)
    /\ life' = [life EXCEPT ![child] = "making"]
    /\ parent' = [parent EXCEPT ![child] = e]
    /\ UNCHANGED memVars

----------------------------------------------------------------------------
(* The loops of piperead and pipewrite.                                    *)

Empty_offByOne == rpos > wpos
Empty == rpos >= wpos

Full_offByOne == (rpos + BY2PIPE) % PosMod < wpos
Full == (rpos + BY2PIPE) % PosMod <= wpos

room(e) ==
    /\ At(e, "room") /\ data[e][reg[e].slot]
    /\ Goto(e, IF (reg[e].op = "read" /\ Empty) \/ (reg[e].op = "write" /\ Full)
               THEN "runs" ELSE "load")
    /\ UNCHANGED <<memVars, pipeVars, envVars, cur, reg>>

(* A descriptor with no pipe behind it: the fault leads to panic and exit, *)
(* whose steps are those of close and env_destroy.                         *)
page_fault(e) ==
    /\ At(e, "room") /\ ~ data[e][reg[e].slot]
    /\ Return(e)
    /\ UNCHANGED <<memVars, pipeVars, envVars, cur>>

load(e) ==
    /\ At(e, "load")
    /\ Goto(e, IF PositionFirst THEN "position" ELSE "byte")
    /\ reg' = [reg EXCEPT ![e].at = IF reg[e].op = "read" THEN rpos ELSE wpos]
    /\ UNCHANGED <<memVars, pipeVars, envVars, cur>>

byte(e) ==
    /\ At(e, "byte")
    /\ Goto(e, IF PositionFirst THEN "advance" ELSE "position")
    /\ \/ /\ reg[e].op = "read"
          /\ reg' = [reg EXCEPT ![e].val = buf[reg[e].at % BY2PIPE]]
          /\ buf' = buf
       \/ /\ reg[e].op = "write"
          /\ buf' = [buf EXCEPT ![reg[e].at % BY2PIPE] = reg[e].at]
          /\ reg' = reg
    /\ UNCHANGED <<memVars, rpos, wpos, envVars, cur>>

position(e) ==
    /\ At(e, "position")
    /\ Goto(e, IF PositionFirst THEN "byte" ELSE "advance")
    /\ \/ /\ reg[e].op = "read"
          /\ rpos' = (reg[e].at + 1) % PosMod
          /\ wpos' = wpos
       \/ /\ reg[e].op = "write"
          /\ wpos' = (reg[e].at + 1) % PosMod
          /\ rpos' = rpos
    /\ UNCHANGED <<memVars, buf, envVars, cur, reg>>

advance(e) ==
    /\ At(e, "advance")
    /\ \/ reg[e].i + 1 = reg[e].arg /\ Return(e)
       \/ /\ reg[e].i + 1 < reg[e].arg
          /\ reg' = [reg EXCEPT ![e].i = @ + 1, ![e].at = 0, ![e].val = NoVal]
          /\ Goto(e, "room")
    /\ UNCHANGED <<memVars, pipeVars, envVars, cur>>

----------------------------------------------------------------------------
(* _pipeisclosed: both counts, again if the processor was lost meanwhile.  *)

runs(e) ==
    /\ At(e, "runs")
    /\ reg' = [reg EXCEPT ![e].moved = FALSE]
    /\ Goto(e, "pageref_fd")
    /\ UNCHANGED <<memVars, pipeVars, envVars, cur>>

pageref_fd(e) ==
    /\ At(e, "pageref_fd")
    /\ reg' = [reg EXCEPT ![e].refs = FdRefs(fd[e][reg[e].slot])]
    /\ Goto(e, "pageref_p")
    /\ UNCHANGED <<memVars, pipeVars, envVars, cur>>

pageref_p(e) ==
    /\ At(e, "pageref_p")
    /\ reg' = [reg EXCEPT ![e].same =
                    (reg[e].refs = IF data[e][reg[e].slot] THEN DataRefs ELSE 0)]
    /\ Goto(e, "again")
    /\ UNCHANGED <<memVars, pipeVars, envVars, cur>>

(* What the check's answer makes of its caller: a write that finds the     *)
(* pipe full, and a read that has nothing yet, try again later.            *)
Retries(e) ==
    /\ ~ reg[e].same
    /\ reg[e].op = "write" \/ (reg[e].op = "read" /\ reg[e].i = 0)

(* As a bug would have it: env_runs is read once, before the loop.         *)
again_read_once(e) ==
    /\ At(e, "again")
    /\ \/ reg[e].moved /\ Goto(e, "pageref_fd") /\ reg' = reg
       \/ /\ ~ reg[e].moved /\ Retries(e)
          /\ Goto(e, "yield")
          /\ reg' = [reg EXCEPT ![e].refs = 0, ![e].same = FALSE]
       \/ /\ ~ reg[e].moved /\ ~ Retries(e)
          /\ Return(e)
    /\ UNCHANGED <<memVars, pipeVars, envVars, cur>>

again(e) ==
    /\ At(e, "again")
    /\ \/ /\ reg[e].moved
          /\ Goto(e, "runs")
          /\ reg' = [reg EXCEPT ![e].moved = FALSE, ![e].refs = 0, ![e].same = FALSE]
       \/ /\ ~ reg[e].moved /\ Retries(e)
          /\ Goto(e, "yield")
          /\ reg' = [reg EXCEPT ![e].refs = 0, ![e].same = FALSE]
       \/ /\ ~ reg[e].moved /\ ~ Retries(e)
          /\ Return(e)
    /\ UNCHANGED <<memVars, pipeVars, envVars, cur>>

(* sys_yield, the processor going to f.                                    *)
yield(e, f) ==
    /\ cur = e /\ pc[e] = "yield"
    /\ Goto(e, "room")
    /\ life[f] = "alive" /\ env_run(f, reg)
    /\ UNCHANGED <<memVars, pipeVars, envVars>>

----------------------------------------------------------------------------
(* pipeclose, of the descriptor to close or of the one dup replaces.       *)

close_fd(e) ==
    /\ At(e, "close_fd")
    /\ fd' = [fd EXCEPT ![e][reg[e].arg] = "none"]
    /\ Goto(e, "close_data")
    /\ UNCHANGED <<data, pipeVars, envVars, cur, reg>>

close_data(e) ==
    /\ At(e, "close_data")
    /\ data' = [data EXCEPT ![e][reg[e].arg] = FALSE]
    /\ \/ reg[e].op = "close" /\ Return(e)
       \/ reg[e].op = "dup" /\ Goto(e, "dup_data") /\ reg' = reg
    /\ UNCHANGED <<fd, pipeVars, envVars, cur>>

(* The data page is left out.                                              *)
dup_data_skips(e) ==
    /\ At(e, "dup_data")
    /\ Goto(e, "dup_fd")
    /\ UNCHANGED <<memVars, pipeVars, envVars, cur, reg>>

(* The rest of dup: data pages first, then the descriptor.  The former may *)
(* lack a page table; the latter's is there.                               *)
dup_data(e) ==
    /\ At(e, "dup_data")
    /\ \/ /\ data' = [data EXCEPT ![e][reg[e].arg] = data[e][reg[e].slot]]
          /\ Goto(e, "dup_fd") /\ reg' = reg
       \/ Return(e) /\ data' = data
    /\ UNCHANGED <<fd, pipeVars, envVars, cur>>

dup_fd(e) ==
    /\ At(e, "dup_fd")
    /\ fd' = [fd EXCEPT ![e][reg[e].arg] = fd[e][reg[e].slot]]
    /\ Return(e)
    /\ UNCHANGED <<data, pipeVars, envVars, cur>>

----------------------------------------------------------------------------
(* The loop of fork, upwards through the address space: the descriptor     *)
(* pages lie below the data pages.  duppage maps a shared page without     *)
(* looking at sys_mem_map's result.                                        *)

fork_fd(e) ==
    /\ At(e, "fork_fd")
    /\ \/ fd' = [fd EXCEPT ![reg[e].arg][reg[e].i] = fd[e][reg[e].i]]
       \/ ForkMayFail /\ fd' = fd
    /\ \/ /\ reg[e].i + 1 < NSlot
          /\ reg' = [reg EXCEPT ![e].i = @ + 1]
          /\ pc' = pc
       \/ /\ reg[e].i + 1 = NSlot
          /\ reg' = [reg EXCEPT ![e].i = 0]
          /\ Goto(e, "fork_data")
    /\ UNCHANGED <<data, pipeVars, envVars, cur>>

fork_data(e) ==
    /\ At(e, "fork_data")
    /\ \/ data' = [data EXCEPT ![reg[e].arg][reg[e].i] = data[e][reg[e].i]]
       \/ ForkMayFail /\ data' = data
    /\ \/ /\ reg[e].i + 1 < NSlot
          /\ reg' = [reg EXCEPT ![e].i = @ + 1]
          /\ pc' = pc
       \/ /\ reg[e].i + 1 = NSlot
          /\ reg' = [reg EXCEPT ![e].i = 0]
          /\ Goto(e, "fork_run")
    /\ UNCHANGED <<fd, pipeVars, envVars, cur>>

(* sys_set_env_status: the child may be scheduled.                         *)
fork_run(e) ==
    /\ At(e, "fork_run")
    /\ life' = [life EXCEPT ![reg[e].arg] = "alive"]
    /\ Return(e)
    /\ UNCHANGED <<memVars, pipeVars, parent, cur>>

----------------------------------------------------------------------------
(* The kernel's part.                                                      *)

(* The end of e: its own exit, a fault, Ctrl-C, or its parent's call.      *)
MayDestroy(e) ==
    \/ cur = e
    \/ parent[e] # NoEnv /\ cur = parent[e] /\ pc[cur] = "user"

env_destroy(e) ==
    /\ life[e] = "alive" /\ MayDestroy(e)
    /\ life' = [life EXCEPT ![e] = "none"]
    /\ parent' = [f \in Env |-> IF e \in {f, parent[f]} THEN NoEnv ELSE parent[f]]
    /\ fd' = [fd EXCEPT ![e] = [s \in Slot |-> "none"]]
    /\ data' = [data EXCEPT ![e] = [s \in Slot |-> FALSE]]
    /\ Goto(e, "user")
    /\ LET left == [reg EXCEPT ![e] = NoReg] IN
       \/ cur # e /\ reg' = left /\ UNCHANGED <<cur, slice>>
       \/ cur = e /\ \E f \in Env : life'[f] = "alive" /\ env_run(f, left)
       \/ /\ cur = e /\ \A f \in Env : life'[f] # "alive"
          /\ cur' = NoEnv /\ reg' = left /\ slice' = slice
    /\ UNCHANGED pipeVars

(* The clock, at any instruction once the slice is used up; outside the    *)
(* library the program computes for as long as it takes.                   *)
clock(f) ==
    /\ cur # NoEnv /\ life[f] = "alive"
    /\ slice = 0 \/ pc[cur] = "user"
    /\ env_run(f, reg)
    /\ UNCHANGED <<memVars, pipeVars, envVars, pc>>

Start(e) ==
    \/ pipe(e)
    \/ \E s \in Slot : pipeisclosed(e, s) \/ close(e, s)
    \/ \E s \in Slot, n \in 1 .. MaxRequest : read(e, s, n) \/ write(e, s, n)
    \/ \E s, new \in Slot : dup(e, s, new)

(* Whatever e has begun, it continues.                                     *)
Continue(e) ==
    \/ room(e) \/ page_fault(e) \/ load(e) \/ byte(e) \/ position(e) \/ advance(e)
    \/ runs(e) \/ pageref_fd(e) \/ pageref_p(e) \/ again(e)
    \/ close_fd(e) \/ close_data(e) \/ dup_data(e) \/ dup_fd(e)
    \/ fork_fd(e) \/ fork_data(e) \/ fork_run(e)

(* The scheduler hands the processor to f.                                 *)
Schedule(f) == clock(f) \/ \E e \in Env : yield(e, f)

Next ==
    \/ \E e \in Env : Start(e) \/ Continue(e) \/ env_destroy(e) \/ Schedule(e)
    \/ \E e, child \in Env : fork(e, child)

Spec == Init /\ [][Next]_vars

(* The scheduler is round robin (Kernel's RoundRobin), and an environment  *)
(* that has the processor goes on with what it is doing.                   *)
FairSpec == Spec /\ \A e \in Env : WF_vars(Continue(e)) /\ SF_vars(Schedule(e))

----------------------------------------------------------------------------
(* What a pipe promises.                                                   *)

Mapped(kind) == {x \in Env \X Slot : fd[x[1]][x[2]] = kind}
Other(kind) == IF kind = "rd" THEN "wr" ELSE "rd"

(* The places where _pipeisclosed is about to answer that the other end of *)
(* the descriptor is closed.                                               *)
SaysClosed(e) == cur = e /\ pc[e] = "again" /\ ~ reg[e].moved /\ reg[e].same

(* "Everybody left is what fd is.  So the other end of the pipe is         *)
(* closed." (user/pipe.c)                                                  *)
ClosedMeansClosed ==
    \A e \in Env : SaysClosed(e) => Mapped(Other(fd[e][reg[e].slot])) = {}

(* The answer is right at the moment it is given, whatever descriptors     *)
(* others closed, duplicated or died with meanwhile, unless a fork is half *)
(* done (or was left half done by the death of the parent).                *)
ForkPending == \E e \in Env : life[e] = "making"

ClosedUnlessForking == ForkPending \/ ClosedMeansClosed

(* Why counting works: an open descriptor always has the pipe's page       *)
(* behind it, in every environment that can run, so the counts only err on *)
(* the side of an open pipe.                                               *)
OpenIsBacked ==
    \A e \in Env, s \in Slot : life[e] = "alive" /\ fd[e][s] # "none" => data[e][s]

(* One environment reads and one writes at a time, as in the shell and the *)
(* tests: p_rpos++ and p_wpos++ are not atomic.                            *)
OneEach == \A e, f \in Env : reg[e].op = reg[f].op /\ reg[e].op \in {"read", "write"} => e = f

(* A reader gets the bytes in the order they were written: the byte taken  *)
(* at a position is the one that was written there.                        *)
InOrder == \A e \in Env : reg[e].val # NoVal => reg[e].val = reg[e].at

(* The pipe is a bounded first-in first-out queue: see ByteStream.         *)
Unread == (wpos - rpos) % PosMod

Queue == [k \in 1 .. Unread |-> buf[(rpos + k - 1) % BY2PIPE]]

BS == INSTANCE ByteStream WITH
        Capacity <- BY2PIPE,
        Modulus <- PosMod,
        queue <- Queue,
        place <- wpos

ImplementsByteStream == BS!Spec

(* A read ends unless the pipe is empty and can still be written, a write  *)
(* unless the pipe is full and can still be read.  Only once descriptors   *)
(* are no longer opened and closed, as a look at the counts in the middle  *)
(* of a dup finds the pipe open, every time if it is unlucky every time;   *)
(* and unless a fork has lost a page of a descriptor, which leaves the     *)
(* counts wrong for good (fork.c:71).                                      *)
MayWait(e) ==
    \/ reg[e].op = "read" /\ Unread = 0 /\ Mapped("wr") # {}
    \/ reg[e].op = "write" /\ Unread = BY2PIPE /\ Mapped("rd") # {}

Quiet == \A e \in Env : reg[e].op \notin {"close", "dup", "fork"}

Paired == \A e \in Env, s \in Slot : fd[e][s] # "none" <=> data[e][s]

OpsEnd ==
    <>[](Quiet /\ Paired) => \A e \in Env : pc[e] # "user" ~> pc[e] = "user" \/ MayWait(e)

(* "If the pipe is empty and closed and you didn't copy any data out,      *)
(* return 0." (user/pipe.c, piperead): a read that returns nothing leaves  *)
(* nothing behind.                                                         *)
EofMeansDrained ==
    \A e \in Env : SaysClosed(e) /\ reg[e].op = "read" /\ reg[e].i = 0 => Unread = 0
=============================================================================
