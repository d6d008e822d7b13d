------------------------------- MODULE Kernel -------------------------------
(***************************************************************************)
(* Environments, scheduling, system calls, IPC and traps (kern/env.c,      *)
(* kern/sched.c, kern/syscall.c, kern/trap.c), on top of the memory        *)
(* operations of Pmap, whose variables this module shares.                 *)
(*                                                                         *)
(* User code runs in one environment, curenv, and may be left at any       *)
(* instruction by the clock.  Inside the kernel interrupts are off: an     *)
(* action is one whole trap, from user mode back to user mode.  User       *)
(* programs are arbitrary: any call, with any arguments, at any time.      *)
(* Register contents and env_runs are left out.                            *)
(***************************************************************************)
EXTENDS Pmap

CONSTANTS
    NENV,      \* length of envs[]
    NBoot,     \* how many ENV_CREATEs i386_init performs
    IdMod,     \* the generation in an envid wraps at IdMod (2^21: 32 bits less LOG2NENV and one)
    NoEnv,     \* curenv == NULL
    NoVA       \* the address 0: no page wanted, no page sent

ASSUME KernelAssumption ==
    /\ NENV \in Nat \ {0} /\ Env = 0 .. NENV - 1
    /\ NBoot \in 1 .. NENV
    /\ IdMod \in Nat /\ IdMod > NBoot
    /\ NoEnv \notin Env
    /\ NoVA \notin VA

(* The machine reports less than 2^16 KB above the first MB, so there are  *)
(* far fewer pages than generations.                                       *)
ASSUME GenerationAssumption == IsFiniteSet(Page) /\ Cardinality(Page) <= IdMod

VARIABLES
    status,        \* status[e]: env_status
    envid,         \* envid[e]: env_id, a generation and the slot
    parent,        \* parent[e]: env_parent_id
    env_free_list, \* a set: which slot comes first is left open
    next_env_id,   \* mkenvid's counter
    recving,       \* recving[e]: env_ipc_recving
    dstva,         \* dstva[e]: env_ipc_dstva
    ipc_from,      \* ipc_from[e]: env_ipc_from; value and perm travel with it
    handler,       \* handler[e]: env_pgfault_handler is set
    curenv,
    page_fault_mode,
    halt           \* "no", or how the kernel stopped

envVars  == <<status, envid, parent, env_free_list, next_env_id>>
ipcVars  == <<recving, dstva, ipc_from>>
trapVars == <<handler, page_fault_mode, halt>>
kvars    == <<pmapVars, envVars, ipcVars, trapVars, curenv>>

Status == {"ENV_FREE", "ENV_RUNNABLE", "ENV_NOT_RUNNABLE"}
EnvId  == (0 .. IdMod - 1) \X Env
NoId   == <<0, 0>>          \* as an argument it stands for the caller

KernelTypeOK ==
    /\ TypeOK
    /\ status \in [Env -> Status]
    /\ envid \in [Env -> EnvId] /\ parent \in [Env -> EnvId]
    /\ env_free_list \subseteq Env
    /\ next_env_id \in 0 .. IdMod - 1
    /\ recving \in [Env -> BOOLEAN]
    /\ dstva \in [Env -> VA \cup {NoVA}]
    /\ ipc_from \in [Env -> EnvId]
    /\ handler \in [Env -> BOOLEAN]
    /\ curenv \in Env \cup {NoEnv}
    /\ page_fault_mode \in {"PFM_NONE", "PFM_KILL"}
    /\ halt \in {"no", "panic", "kernel page fault"}

(* env_init: every slot free, envs[] still zero.                           *)
KernelInit ==
    /\ Init
    /\ status = [e \in Env |-> "ENV_FREE"]
    /\ envid = [e \in Env |-> NoId] /\ parent = [e \in Env |-> NoId]
    /\ env_free_list = Env
    /\ next_env_id = 0
    /\ recving = [e \in Env |-> FALSE]
    /\ dstva = [e \in Env |-> NoVA]
    /\ ipc_from = [e \in Env |-> NoId]
    /\ handler = [e \in Env |-> FALSE]
    /\ curenv = NoEnv
    /\ page_fault_mode = "PFM_NONE"
    /\ halt = "no"

----------------------------------------------------------------------------
(* Helpers.                                                                *)

Running == halt = "no" /\ curenv # NoEnv /\ Live(curenv)

(* envid2env: the caller for 0; otherwise the slot the low bits name, if   *)
(* its id is still this one.                                               *)
Resolves(id, e) ==
    \/ id = NoId /\ e = curenv
    \/ id # NoId /\ e = id[2] /\ status[e] # "ENV_FREE" /\ envid[e] = id

Permitted(id, e) == id = NoId \/ envid[curenv] \in {parent[e], envid[e]}

envid2env(id, e, checkperm) == Resolves(id, e) /\ (checkperm => Permitted(id, e))

(* The environments a call can name, and the ids it cannot.                *)
Targets(checkperm) == {e \in Env : \E id \in EnvId : envid2env(id, e, checkperm)}

BadIds == {id \in EnvId : \A e \in Env : ~ envid2env(id, e, FALSE)}

(* sched_yield, as the environment it hands the processor to: the first    *)
(* runnable one after cur, wrapping around past 0; slot 0 when there is    *)
(* none, whatever its status.                                              *)
First(S) == CHOOSE e \in S : \A f \in S : e <= f

sched_yield_fromStart(st, cur) ==
    LET runnable == {e \in Env \ {0} : st[e] = "ENV_RUNNABLE"}
    IN  IF runnable # {} THEN First(runnable) ELSE 0

sched_yield(st, cur) ==
    LET runnable == {e \in Env \ {0} : st[e] = "ENV_RUNNABLE"}
        after == IF cur = NoEnv THEN {} ELSE {e \in runnable : e > cur}
    IN  IF after # {} THEN First(after)
        ELSE IF runnable # {} THEN First(runnable)
        ELSE 0

(* Every system call sets the mode first and leaves it set.                *)
EnterSyscall == Running /\ page_fault_mode' = "PFM_KILL"

(* X_mistake is operation X with a mistake in it, for the mutation runs.   *)

(* A slot keeps the id it had.                                             *)
env_alloc_sameId(e, parentId, st) ==
    /\ e \in env_free_list
    /\ env_setup_vm(e)
    /\ next_env_id' = (next_env_id + 1) % IdMod
    /\ envid' = [envid EXCEPT ![e] = IF @ = NoId THEN <<next_env_id', e>> ELSE @]
    /\ parent' = [parent EXCEPT ![e] = parentId]
    /\ status' = [status EXCEPT ![e] = st]
    /\ recving' = [recving EXCEPT ![e] = FALSE]
    /\ handler' = [handler EXCEPT ![e] = FALSE]
    /\ env_free_list' = env_free_list \ {e}
    /\ UNCHANGED <<dstva, ipc_from>>

(* env_ipc_recving is left as the slot's last user had it.                 *)
env_alloc_keepsRecving(e, parentId, st) ==
    /\ e \in env_free_list
    /\ env_setup_vm(e)
    /\ next_env_id' = (next_env_id + 1) % IdMod
    /\ envid' = [envid EXCEPT ![e] = <<next_env_id', e>>]
    /\ parent' = [parent EXCEPT ![e] = parentId]
    /\ status' = [status EXCEPT ![e] = st]
    /\ handler' = [handler EXCEPT ![e] = FALSE]
    /\ env_free_list' = env_free_list \ {e}
    /\ UNCHANGED ipcVars

(* env_alloc into slot e, without the memory of its caller's frame.        *)
env_alloc(e, parentId, st) ==
    /\ e \in env_free_list
    /\ env_setup_vm(e)
    /\ next_env_id' = (next_env_id + 1) % IdMod
    /\ envid' = [envid EXCEPT ![e] = <<next_env_id', e>>]
    /\ parent' = [parent EXCEPT ![e] = parentId]
    /\ status' = [status EXCEPT ![e] = st]
    /\ recving' = [recving EXCEPT ![e] = FALSE]
    /\ handler' = [handler EXCEPT ![e] = FALSE]
    /\ env_free_list' = env_free_list \ {e}
    /\ UNCHANGED <<dstva, ipc_from>>

(* The slot never comes back to the free list.                             *)
env_destroy_losesSlot(e) ==
    /\ env_free(e)
    /\ status' = [status EXCEPT ![e] = "ENV_FREE"]
    /\ curenv' = IF e = curenv THEN sched_yield(status', NoEnv) ELSE curenv
    /\ UNCHANGED <<envid, parent, env_free_list, next_env_id, ipcVars, handler, halt>>

(* The next environment is chosen before the old one's status is cleared.  *)
env_destroy_schedulesFirst(e) ==
    /\ env_free(e)
    /\ status' = [status EXCEPT ![e] = "ENV_FREE"]
    /\ env_free_list' = env_free_list \cup {e}
    /\ curenv' = IF e = curenv THEN sched_yield(status, NoEnv) ELSE curenv
    /\ UNCHANGED <<envid, parent, next_env_id, ipcVars, handler, halt>>

(* env_destroy: the memory goes, the slot is free, and if it was the       *)
(* current environment the processor goes to another one.                  *)
env_destroy(e) ==
    /\ env_free(e)
    /\ status' = [status EXCEPT ![e] = "ENV_FREE"]
    /\ env_free_list' = env_free_list \cup {e}
    /\ curenv' = IF e = curenv THEN sched_yield(status', NoEnv) ELSE curenv
    /\ UNCHANGED <<envid, parent, next_env_id, ipcVars, handler, halt>>

panic(why) ==
    /\ halt' = why
    /\ UNCHANGED <<pmapVars, envVars, ipcVars, handler, curenv>>

----------------------------------------------------------------------------
(* Boot: i386_init creates the first environments, then schedules.         *)

Booting == halt = "no" /\ curenv = NoEnv

(* env_create; the free list starts in order, so the slots are 0, 1, ...   *)
BootAlloc ==
    /\ Booting /\ next_env_id < NBoot
    /\ env_alloc(next_env_id, NoId, "ENV_RUNNABLE")
    /\ UNCHANGED <<curenv, page_fault_mode, halt>>

(* One page of load_icode, which stops silently when memory is short.      *)
BootLoad ==
    /\ Booting /\ next_env_id > 0
    /\ \E va \in VA : pte[next_env_id - 1, va] = NoPage /\ MemAlloc(next_env_id - 1, va)
    /\ UNCHANGED <<envVars, ipcVars, trapVars, curenv>>

BootDone ==
    /\ Booting /\ next_env_id = NBoot
    /\ curenv' = sched_yield(status, NoEnv)
    /\ UNCHANGED <<pmapVars, envVars, ipcVars, trapVars>>

----------------------------------------------------------------------------
(* System calls of curenv.                                                 *)

sys_yield ==
    /\ EnterSyscall
    /\ curenv' = sched_yield(status, curenv)
    /\ UNCHANGED <<pmapVars, envVars, ipcVars, handler, halt>>

(* A call that changes nothing, or that fails before it changed anything:  *)
(* sys_getenvid, sys_cgetc, sys_cputs, sys_set_color, and error returns.   *)
SyscallNoEffect ==
    /\ EnterSyscall
    /\ UNCHANGED <<pmapVars, envVars, ipcVars, handler, halt, curenv>>

sys_env_destroy ==
    /\ EnterSyscall
    /\ \E e \in Targets(TRUE) : env_destroy(e)

sys_env_alloc ==
    /\ EnterSyscall
    /\ \E e \in Env : env_alloc(e, envid[curenv], "ENV_NOT_RUNNABLE")
    /\ UNCHANGED <<curenv, halt>>

sys_ipc_recv ==
    /\ EnterSyscall
    /\ ~ recving[curenv]
    /\ \E va \in VA \cup {NoVA} : dstva' = [dstva EXCEPT ![curenv] = va]
    /\ recving' = [recving EXCEPT ![curenv] = TRUE]
    /\ status' = [status EXCEPT ![curenv] = "ENV_NOT_RUNNABLE"]
    /\ curenv' = sched_yield(status', curenv)
    /\ UNCHANGED <<pmapVars, envid, parent, env_free_list, next_env_id, ipc_from, handler, halt>>

(* Already receiving, or an address at or above UTOP.                      *)
sys_ipc_recv_panics ==
    /\ EnterSyscall
    /\ panic("panic")

(* The tail of sys_ipc_can_send: the receiver e is woken with the message. *)
Deliver(e) ==
    /\ recving' = [recving EXCEPT ![e] = FALSE]
    /\ ipc_from' = [ipc_from EXCEPT ![e] = envid[curenv]]
    /\ status' = [status EXCEPT ![e] = "ENV_RUNNABLE"]
    /\ UNCHANGED <<envid, parent, env_free_list, next_env_id, dstva, handler, halt, curenv>>

(* page_insert failed for want of a page table: an error return.           *)
InsertFails(e, va) == pde[e, PDX[va]] = NoPage /\ free = {}

(* The page is mapped behind page_insert's back.                           *)
sys_ipc_can_send_uncounted ==
    /\ EnterSyscall
    /\ \E e \in Targets(FALSE), srcva \in VA \cup {NoVA} :
        /\ recving[e]
        /\ \/ /\ srcva = NoVA \/ dstva[e] = NoVA
              /\ UNCHANGED pmapVars
           \/ /\ srcva # NoVA /\ dstva[e] # NoVA
              /\ pde[e, PDX[dstva[e]]] # NoPage
              /\ pte' = [pte EXCEPT ![<<e, dstva[e]>>] = pte[curenv, srcva]]
              /\ UNCHANGED <<free, ppref, pgdir, pde>>
        /\ Deliver(e)

sys_ipc_can_send ==
    /\ EnterSyscall
    /\ \E e \in Targets(FALSE), srcva \in VA \cup {NoVA} :
        /\ recving[e]
        /\ \/ /\ srcva = NoVA \/ dstva[e] = NoVA
              /\ UNCHANGED pmapVars
           \/ /\ srcva # NoVA /\ dstva[e] # NoVA
              /\ ~ InsertFails(e, dstva[e])
              /\ MemMap(curenv, srcva, e, dstva[e])
        /\ Deliver(e)

sys_set_pgfault_handler ==
    /\ EnterSyscall
    /\ \E e \in Targets(TRUE), b \in BOOLEAN : handler' = [handler EXCEPT ![e] = b]
    /\ UNCHANGED <<pmapVars, envVars, ipcVars, halt, curenv>>

(* The page is taken before the target is looked up.                       *)
sys_mem_alloc ==
    /\ EnterSyscall
    /\ \/ BadIds # {} /\ MemAllocBadEnv
       \/ \E e \in Targets(FALSE), va \in VA : MemAlloc(e, va)
    /\ UNCHANGED <<envVars, ipcVars, handler, halt, curenv>>

sys_mem_map ==
    /\ EnterSyscall
    /\ \E src, dst \in Targets(FALSE), sva, dva \in VA : MemMap(src, sva, dst, dva)
    /\ UNCHANGED <<envVars, ipcVars, handler, halt, curenv>>

sys_mem_unmap ==
    /\ EnterSyscall
    /\ \E e \in Targets(FALSE), va \in VA : MemUnmap(e, va)
    /\ UNCHANGED <<envVars, ipcVars, handler, halt, curenv>>

(* The status is not checked.                                              *)
sys_set_env_status_unchecked ==
    /\ EnterSyscall
    /\ \E e \in Targets(FALSE), st \in Status \cup {"3"} :
        status' = [status EXCEPT ![e] = st]
    /\ UNCHANGED <<pmapVars, envid, parent, env_free_list, next_env_id,
                   ipcVars, handler, halt, curenv>>

(* Any environment, any status: ENV_FREE too, without the free list.       *)
sys_set_env_status ==
    /\ EnterSyscall
    /\ \E e \in Targets(FALSE), st \in Status : status' = [status EXCEPT ![e] = st]
    /\ UNCHANGED <<pmapVars, envid, parent, env_free_list, next_env_id,
                   ipcVars, handler, halt, curenv>>

(* The frame is copied in under PFM_KILL; then the mode is put to PFM_NONE *)
(* and stays so after the call.                                            *)
sys_set_trapframe ==
    /\ Running
    /\ page_fault_mode' = "PFM_NONE"
    /\ UNCHANGED <<pmapVars, envVars, ipcVars, handler, halt, curenv>>

sys_panic == EnterSyscall /\ panic("panic")

(* A kernel page fault on a user pointer of sys_cputs or sys_set_trapframe.*)
SyscallFault == EnterSyscall /\ env_destroy(curenv)

----------------------------------------------------------------------------
(* Traps and interrupts.                                                   *)

ClockTick ==
    /\ Running
    /\ curenv' = sched_yield(status, curenv)
    /\ UNCHANGED <<pmapVars, envVars, ipcVars, trapVars>>

(* Ctrl-C at the keyboard, in cons_intr.                                   *)
CtrlC ==
    /\ Running
    /\ env_destroy(curenv)
    /\ UNCHANGED page_fault_mode

(* page_fault_handler for a fault in user mode: without a handler the      *)
(* environment dies; with one, and a good exception stack, it resumes in   *)
(* the handler, which changes nothing here.                                *)
UserFaultNoHandler ==
    /\ Running /\ ~ handler[curenv]
    /\ env_destroy(curenv)
    /\ UNCHANGED page_fault_mode

(* With one, the frame is pushed through curenv's mappings: with a bad     *)
(* exception stack the kernel itself faults, under the mode the last call  *)
(* left.                                                                   *)
UserFaultBadStack ==
    /\ Running /\ handler[curenv]
    /\ \/ page_fault_mode = "PFM_KILL" /\ env_destroy(curenv)
       \/ page_fault_mode = "PFM_NONE" /\ panic("kernel page fault")
    /\ UNCHANGED page_fault_mode

(* Any other exception, user's or kernel's: a divide error, an I/O         *)
(* instruction, as in the idle program.                                    *)
UnhandledTrap ==
    /\ Running
    /\ panic("panic")
    /\ UNCHANGED page_fault_mode

Boot == BootAlloc \/ BootLoad \/ BootDone

Syscall ==
    \/ sys_yield \/ SyscallNoEffect \/ sys_env_destroy \/ sys_env_alloc
    \/ sys_ipc_recv \/ sys_ipc_recv_panics \/ sys_ipc_can_send
    \/ sys_set_pgfault_handler \/ sys_mem_alloc \/ sys_mem_map \/ sys_mem_unmap
    \/ sys_set_env_status \/ sys_set_trapframe \/ sys_panic \/ SyscallFault

Trap ==
    \/ ClockTick \/ CtrlC \/ UserFaultNoHandler \/ UserFaultBadStack \/ UnhandledTrap

KernelNext == Boot \/ Syscall \/ Trap

KernelSpec == KernelInit /\ [][KernelNext]_kvars

(* The clock keeps ticking: IRQ 0 is unmasked and user code cannot turn    *)
(* interrupts off.                                                         *)
FairSpec == KernelSpec /\ WF_kvars(ClockTick)

(* The system as i386_init boots it: the first environment runs user/idle, *)
(* whose only instruction of note is an I/O instruction it may not execute.*)
Idling == curenv = 0 /\ envid[0] = <<1, 0>>

IdleNext ==
    \/ ~ Idling /\ KernelNext
    \/ Idling /\ (ClockTick \/ CtrlC \/ UnhandledTrap)

IdleSpec == KernelInit /\ [][IdleNext]_kvars

----------------------------------------------------------------------------
(* What the system promises.                                               *)

(* A slot is on env_free_list exactly when it has no address space, and    *)
(* only such slots' statuses are out of an environment's reach: a slot is  *)
(* never handed out twice, and nothing schedules, sends to or maps into an *)
(* environment without page tables.                                        *)
SlotsAccounted ==
    /\ \A e \in Env : e \in env_free_list <=> ~ Live(e)
    /\ \A e \in env_free_list : status[e] = "ENV_FREE"

(* The processor only ever goes to an environment with an address space;   *)
(* slot 0, which sched_yield falls back on unseen, is the one exception.   *)
CurrentLive == curenv \notin {NoEnv, 0} => Live(curenv)

(* A parent id means what it says: the environment that answers to it is   *)
(* older than the child, so an orphan never gets a new parent when the     *)
(* slot of the old one is used again.                                      *)
ParentsOlder ==
    \A e, f \in Env :
        Live(e) /\ Live(f) /\ parent[e] = envid[f] => envid[f][1] < envid[e][1]

(* Every generation of mkenvid has taken a page that never comes back (the *)
(* directory env_free loses), so memory runs out before the ids repeat.    *)
GenerationsPaid ==
    next_env_id = Cardinality({p \in Page : Dir(p) \/ LostDir(p)})

(* Whatever programs do, memory only changes by the operations of Pmap.    *)
ImplementsPmap == Spec

(* IPC by environment instead of by slot: see Rendezvous.                  *)
Answering == {e \in Env : Live(e)}

RV == INSTANCE Rendezvous WITH
        Id <- EnvId,
        alive <- {envid[e] : e \in Answering},
        waiting <- {envid[e] : e \in {f \in Answering : recving[f]}},
        from <- {<<envid[e], ipc_from[e]>> : e \in {f \in Answering : ~ recving[f]}}

(* A receive ends by exactly one message, the sender recorded is the one   *)
(* that sent it, and a slot's next life inherits no receive.               *)
ImplementsRendezvous == RV!Spec

(* Round robin (kern/sched.c): a runnable environment gets the processor,  *)
(* unless its status is taken from it or the system stops.                 *)
RoundRobin ==
    \A e \in Env \ {0} :
        status[e] = "ENV_RUNNABLE" ~>
            curenv = e \/ status[e] # "ENV_RUNNABLE" \/ ~ Running

(* "Should always have an idle process as first one." (kern/init.c)        *)
IdleStays == curenv # NoEnv => Live(0)

(* "No page faults expected.  Must be a kernel bug" (inc/mmu.h, PFM_NONE): *)
(* a user program's bad exception stack does not get the kernel there.     *)
NoKernelFault == halt # "kernel page fault"
=============================================================================
