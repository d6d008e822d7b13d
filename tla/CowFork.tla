------------------------------- MODULE CowFork -------------------------------
(***************************************************************************)
(* How a user program gets a copy of itself (user/fork.c), or a child that *)
(* runs a program from a file (user/spawn.c), and what copy-on-write makes *)
(* of the pages they share.                                                *)
(*                                                                         *)
(* All of it runs in user mode: each system call is a step, and every      *)
(* environment takes steps in between.  A page fault is handled by the     *)
(* program that faults, on a stack of its own.                             *)
(***************************************************************************)
EXTENDS Integers, FiniteSets

CONSTANTS
    Env, Frame, Value, NoFrame,
    VPage,          \* pages below USTACKTOP
    Stack,          \* the one at USTACKTOP - BY2PG
    TMPPAGE,        \* where spawn builds a page
    Text, Data, Bss,    \* the parts of a program in a file
    Tmp,            \* UTEXT - BY2PG, where pgfault builds a page
    Boot            \* what the first environment has mapped, and how

ASSUME CowAssumption ==
    /\ NoFrame \notin Frame
    /\ Stack \in VPage /\ TMPPAGE \in VPage /\ Stack # TMPPAGE /\ Tmp \notin VPage
    /\ Text \in VPage /\ Data \in VPage /\ Bss \in VPage
    /\ Text \notin {Stack, TMPPAGE, Data, Bss} /\ Data \notin {Stack, TMPPAGE, Bss}
    /\ Bss \notin {Stack, TMPPAGE}
    /\ Boot \in [VPage -> {"none", "w", "lib"}] /\ Boot[TMPPAGE] = "none" /\ Boot[Stack] = "w"

VARIABLES
    frame,      \* what is in each page frame
    pt,         \* each environment's page table: a frame and a permission
    st,         \* "free", "made" (not runnable yet), "run", or "panic"
    handler,    \* whether the environment has a page fault handler
    job,        \* how far it is in fork or spawn
    flt         \* how far it is in pgfault, and the page that faulted

vars == <<frame, pt, st, handler, job, flt>>

Va == VPage \cup {Tmp}
Perm == {"none", "ro", "w", "cow", "lib"}
Pte == [f : Frame \cup {NoFrame}, p : Perm]
NoPte == [f |-> NoFrame, p |-> "none"]

Job == [at : {"idle", "dup", "handler", "start",
              "stack", "stackmap", "stackunmap", "stackerror", "text", "data", "datamap", "bss", "share"},
        child : Env \cup {NoFrame}, todo : SUBSET VPage, half : Va]
Fault == [at : {"none", "alloc", "copy", "map", "unmap"}, va : Va]

NoJob == [at |-> "idle", child |-> NoFrame, todo |-> {}, half |-> Tmp]
NoFault == [at |-> "none", va |-> Tmp]

Unmapped(g) == \A e \in Env, v \in Va : pt[e][v].f # g

Init ==
    /\ \E x \in Value : frame = [g \in Frame |-> x]
    /\ \E e \in Env, phys \in [{v \in VPage : Boot[v] # "none"} -> Frame] :
        /\ \A v, w \in DOMAIN phys : phys[v] = phys[w] => v = w
        /\ pt = [d \in Env |-> [v \in Va |->
                    IF d = e /\ v \in DOMAIN phys THEN [f |-> phys[v], p |-> Boot[v]] ELSE NoPte]]
        /\ st = [d \in Env |-> IF d = e THEN "run" ELSE "free"]
    /\ handler = [e \in Env |-> FALSE]
    /\ job = [e \in Env |-> NoJob]
    /\ flt = [e \in Env |-> NoFault]

----------------------------------------------------------------------------
(* The system calls.  sys_mem_alloc needs a free frame; sys_mem_map may    *)
(* need one for a page table, and so may fail.                             *)
Maps(e, v, pte) == pt' = [pt EXCEPT ![e][v] = pte]

Alloc(e, v) ==
    \E g \in Frame, x \in Value :
        /\ Unmapped(g)
        /\ frame' = [frame EXCEPT ![g] = x]
        /\ Maps(e, v, [f |-> g, p |-> "w"])

(* What a program does when a call that must not fail has failed.          *)
panic(e) == st' = [st EXCEPT ![e] = "panic"] /\ UNCHANGED <<frame, pt, handler, job, flt>>

(* A call that returns an error to fork or spawn, which return it in turn: *)
(* the child stays as it is.                                               *)
returns(e) == job' = [job EXCEPT ![e] = NoJob] /\ UNCHANGED <<frame, pt, st, handler, flt>>

Runs(e) == st[e] = "run" /\ flt[e].at = "none"
In(e, at) == Runs(e) /\ job[e].at = at
Next_(e, at) == job' = [job EXCEPT ![e].at = at] /\ UNCHANGED <<handler, flt>>

----------------------------------------------------------------------------
(* The program stores.  In fork and in spawn it only uses its stack.       *)
Stores(e, v) ==
    /\ Runs(e) /\ v \in VPage \ {TMPPAGE}
    /\ job[e].at # "idle" => v = Stack

write(e, v, x) ==
    /\ Stores(e, v) /\ pt[e][v].p \in {"w", "lib"}
    /\ frame' = [frame EXCEPT ![pt[e][v].f] = x]
    /\ UNCHANGED <<pt, st, handler, job, flt>>

(* page_fault_handler: without a handler the environment is destroyed;     *)
(* pgfault panics at a page that is not copy-on-write.                     *)
destroy(e) ==
    /\ st' = [st EXCEPT ![e] = "free"]
    /\ pt' = [pt EXCEPT ![e] = [v \in Va |-> NoPte]]
    /\ handler' = [handler EXCEPT ![e] = FALSE]
    /\ job' = [job EXCEPT ![e] = NoJob]
    /\ UNCHANGED <<frame, flt>>

page_fault(e, v) ==
    /\ Stores(e, v) /\ pt[e][v].p \in {"ro", "cow"}
    /\ IF ~ handler[e] THEN destroy(e)
       ELSE IF pt[e][v].p # "cow" THEN panic(e)
       ELSE flt' = [flt EXCEPT ![e] = [at |-> "alloc", va |-> v]] /\ UNCHANGED <<frame, pt, st, handler, job>>

pgfault_alloc(e) ==
    /\ st[e] = "run" /\ flt[e].at = "alloc"
    /\ \/ Alloc(e, Tmp) /\ flt' = [flt EXCEPT ![e].at = "copy"] /\ UNCHANGED <<st, handler, job>>
       \/ panic(e)

(* A mutant: the copy is left as it was allocated.                         *)
pgfault_no_copy(e) ==
    /\ st[e] = "run" /\ flt[e].at = "copy"
    /\ flt' = [flt EXCEPT ![e].at = "map"]
    /\ UNCHANGED <<frame, pt, st, handler, job>>

pgfault_copy(e) ==
    /\ st[e] = "run" /\ flt[e].at = "copy"
    /\ frame' = [frame EXCEPT ![pt[e][Tmp].f] = frame[pt[e][flt[e].va].f]]
    /\ flt' = [flt EXCEPT ![e].at = "map"]
    /\ UNCHANGED <<pt, st, handler, job>>

pgfault_map(e) ==
    /\ st[e] = "run" /\ flt[e].at = "map"
    /\ Maps(e, flt[e].va, [f |-> pt[e][Tmp].f, p |-> "w"])
    /\ flt' = [flt EXCEPT ![e].at = "unmap"]
    /\ UNCHANGED <<frame, st, handler, job>>

pgfault_unmap(e) ==
    /\ st[e] = "run" /\ flt[e].at = "unmap"
    /\ Maps(e, Tmp, NoPte)
    /\ flt' = [flt EXCEPT ![e] = NoFault]
    /\ UNCHANGED <<frame, st, handler, job>>

----------------------------------------------------------------------------
(* fork.  Its first call, the first time, needs a page for the exception   *)
(* stack, or panics.                                                       *)
set_pgfault_handler(e) ==
    /\ In(e, "idle") /\ ~ handler[e]
    /\ \/ handler' = [handler EXCEPT ![e] = TRUE] /\ UNCHANGED <<frame, pt, st, job, flt>>
       \/ panic(e)

fork(e, c) ==
    /\ In(e, "idle") /\ handler[e] /\ st[c] = "free"
    /\ st' = [st EXCEPT ![c] = "made"]
    /\ job' = [job EXCEPT ![e] = [at |-> "dup", child |-> c, todo |-> VPage, half |-> Tmp]]
    /\ UNCHANGED <<frame, pt, handler, flt>>

Done(e, v) == job' = [job EXCEPT ![e].todo = @ \ {v}]

(* duppage, up to the child's mapping.  The call has just written to the   *)
(* stack, which is therefore not copy-on-write any more.  The result of    *)
(* the mapping is looked at only for a page to be marked.                  *)
dup_child(e, v) ==
    LET c == job[e].child
        p == pt[e][v].p
    IN  /\ In(e, "dup") /\ job[e].half = Tmp /\ v \in job[e].todo
        /\ pt[e][Stack].p # "cow"
        /\ \/ p = "none" /\ Done(e, v) /\ UNCHANGED <<frame, pt, st, handler, flt>>
           \/ p \in {"lib", "ro"} /\ Done(e, v) /\ Maps(c, v, pt[e][v]) /\ UNCHANGED <<frame, st, handler, flt>>
           \/ p \in {"lib", "ro"} /\ Done(e, v) /\ UNCHANGED <<frame, pt, st, handler, flt>>
           \/ /\ p \in {"w", "cow"} /\ Maps(c, v, [f |-> pt[e][v].f, p |-> "cow"])
              /\ job' = [job EXCEPT ![e].half = v]
              /\ UNCHANGED <<frame, st, handler, flt>>
           \/ p \in {"w", "cow"} /\ panic(e)

(* A mutant: the parent's page stays as it is.                             *)
dup_self_unmarked(e) ==
    /\ In(e, "dup") /\ job[e].half # Tmp
    /\ job' = [job EXCEPT ![e].todo = @ \ {job[e].half}, ![e].half = Tmp]
    /\ UNCHANGED <<frame, pt, st, handler, flt>>

(* The page the parent gets is the child's.                                *)
dup_self(e) ==
    LET v == job[e].half
    IN  /\ In(e, "dup") /\ v # Tmp
        /\ Maps(e, v, [f |-> pt[job[e].child][v].f, p |-> "cow"])
        /\ job' = [job EXCEPT ![e].todo = @ \ {v}, ![e].half = Tmp]
        /\ UNCHANGED <<frame, st, handler, flt>>

(* The exception stack, out of a frame that no other page uses.            *)
fork_xstack(e) ==
    /\ In(e, "dup") /\ job[e].todo = {} /\ job[e].half = Tmp
    /\ \/ Next_(e, "handler") /\ UNCHANGED <<frame, pt, st>>
       \/ returns(e)

(* A mutant: the child's handler is left to the child.                     *)
fork_no_handler(e) ==
    /\ In(e, "handler")
    /\ job' = [job EXCEPT ![e].at = "start"]
    /\ UNCHANGED <<frame, pt, st, handler, flt>>

fork_handler(e) ==
    /\ In(e, "handler")
    /\ handler' = [handler EXCEPT ![job[e].child] = TRUE]
    /\ job' = [job EXCEPT ![e].at = "start"]
    /\ UNCHANGED <<frame, pt, st, flt>>

(* sys_set_env_status, fork's and spawn's.                                 *)
start(e) ==
    /\ In(e, "start")
    /\ st' = [st EXCEPT ![job[e].child] = "run"]
    /\ job' = [job EXCEPT ![e] = NoJob]
    /\ UNCHANGED <<frame, pt, handler, flt>>

----------------------------------------------------------------------------
(* spawn, of a program with a page of text, of data and of bss.            *)
spawn(e, c) ==
    /\ In(e, "idle") /\ st[c] = "free"
    /\ st' = [st EXCEPT ![c] = "made"]
    /\ job' = [job EXCEPT ![e] = [at |-> "stack", child |-> c, todo |-> VPage, half |-> Tmp]]
    /\ UNCHANGED <<frame, pt, handler, flt>>

(* init_stack's page, and data pages, are built at TMPPAGE.                *)
spawn_alloc(e) ==
    /\ Runs(e) /\ job[e].at \in {"stack", "data"}
    /\ \/ /\ Alloc(e, TMPPAGE)
          /\ Next_(e, IF job[e].at = "stack" THEN "stackmap" ELSE "datamap")
          /\ UNCHANGED st
       \/ returns(e)

spawn_map(e) ==
    /\ Runs(e) /\ job[e].at \in {"stackmap", "datamap"}
    /\ \/ /\ Maps(job[e].child, IF job[e].at = "stackmap" THEN Stack ELSE Data, pt[e][TMPPAGE])
          /\ Next_(e, IF job[e].at = "stackmap" THEN "stackunmap" ELSE "bss")
          /\ UNCHANGED <<frame, st>>
       \/ job[e].at = "stackmap" /\ Next_(e, "stackerror") /\ UNCHANGED <<frame, pt, st>>
       \/ job[e].at = "datamap" /\ returns(e)

(* Only init_stack unmaps it again, and does so in any case.               *)
spawn_unmap(e) ==
    /\ Runs(e) /\ Maps(e, TMPPAGE, NoPte) /\ UNCHANGED <<frame, st, handler, flt>>
    /\ \/ job[e].at = "stackunmap" /\ job' = [job EXCEPT ![e].at = "text"]
       \/ job[e].at = "stackerror" /\ job' = [job EXCEPT ![e] = NoJob]

(* The text is a block of the file, which the server has mapped for us.    *)
spawn_text(e) ==
    /\ In(e, "text")
    /\ \/ /\ \E v \in VPage : /\ pt[e][v].p = "lib"
                              /\ Maps(job[e].child, Text, [f |-> pt[e][v].f, p |-> "ro"])
          /\ Next_(e, "data") /\ UNCHANGED <<frame, st>>
       \/ returns(e)

spawn_bss(e) ==
    /\ In(e, "bss")
    /\ \/ Alloc(job[e].child, Bss) /\ Next_(e, "share") /\ UNCHANGED st
       \/ returns(e)

(* Every library page, for what the result is worth, once the file is      *)
(* closed; closing it may fail.                                            *)
spawn_share(e) ==
    LET c == job[e].child
        libs == {v \in VPage : pt[e][v].p = "lib"}
    IN  /\ In(e, "share")
        /\ \/ /\ \E got \in SUBSET libs :
                  pt' = [pt EXCEPT ![c] = [v \in Va |-> IF v \in got THEN pt[e][v] ELSE pt[c][v]]]
              /\ Next_(e, "start") /\ UNCHANGED <<frame, st>>
           \/ returns(e)

(* sys_env_destroy, of oneself.                                            *)
exit(e) == In(e, "idle") /\ destroy(e)

Steps(e) ==
    \/ \E v \in VPage : page_fault(e, v) \/ dup_child(e, v) \/ \E x \in Value : write(e, v, x)
    \/ pgfault_alloc(e) \/ pgfault_copy(e) \/ pgfault_map(e) \/ pgfault_unmap(e)
    \/ \E c \in Env : fork(e, c) \/ spawn(e, c)
    \/ set_pgfault_handler(e) \/ dup_self(e) \/ fork_xstack(e) \/ fork_handler(e) \/ start(e)
    \/ spawn_alloc(e) \/ spawn_map(e) \/ spawn_unmap(e) \/ spawn_text(e) \/ spawn_bss(e) \/ spawn_share(e)
    \/ exit(e)

Next == \E e \in Env : Steps(e)
Spec == Init /\ [][Next]_vars

----------------------------------------------------------------------------
(* The variables keep to what the programs can hold.                       *)
CowTypeOK ==
    /\ frame \in [Frame -> Value]
    /\ pt \in [Env -> [Va -> Pte]]
    /\ st \in [Env -> {"free", "made", "run", "panic"}]
    /\ handler \in [Env -> BOOLEAN]
    /\ job \in [Env -> Job]
    /\ flt \in [Env -> Fault]
    /\ \A e \in Env, v \in Va :
        /\ pt[e][v].p = "none" <=> pt[e][v].f = NoFrame
        /\ st[e] = "free" => pt[e][v] = NoPte

(* The other mappings a frame may have that <<e, v>> can write: pgfault's  *)
(* second one of a new copy; the child's, when duppage is half done; and   *)
(* the one that spawn leaves at TMPPAGE.                                   *)
Excused(e, v, d, w) ==
    \/ d = e /\ flt[e].at = "unmap" /\ v # w /\ v \in {Tmp, flt[e].va} /\ w \in {Tmp, flt[e].va}
    \/ job[e].half # Tmp /\ v = w /\ v = job[e].half /\ d = job[e].child
    \/ TMPPAGE \in {v, w}

(* A page that a program can write without a fault is its own: no other    *)
(* page of any environment, running or being made, is in the same frame.   *)
WritableIsPrivate ==
    \A e, d \in Env : \A v, w \in Va :
        pt[e][v].p = "w" /\ pt[d][w].f = pt[e][v].f /\ (e # d \/ v # w) => Excused(e, v, d, w)

(* An environment that has a copy-on-write page and runs has a handler     *)
(* that copies it.                                                         *)
CowHasHandler ==
    \A e \in Env : st[e] = "run" => \A v \in VPage : pt[e][v].p = "cow" => handler[e]

(* The page as the program sees it, when it is its own.                    *)
Own(e, v) == st[e] # "free" /\ v # TMPPAGE /\ pt[e][v].p \in {"w", "cow"}
Seen(e, v) == frame[pt[e][v].f]

(* What is in an environment's own page changes when that environment      *)
(* stores there, and at no other time, whatever is forked, copied or       *)
(* mapped, and whoever fails half-way.  A child's page is fixed from the   *)
(* moment its parent has marked its own.                                   *)
MemoryIsOwn ==
    [][\A e \in Env, v \in VPage :
        /\ Own(e, v) /\ Own(e, v)' /\ Seen(e, v)' # Seen(e, v)
        /\ ~ \E d \in Env : job[d].child = e /\ job[d].half = v
        => \E x \in Value : write(e, v, x)]_vars
==============================================================================
