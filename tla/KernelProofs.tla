---------------------------- MODULE KernelProofs ----------------------------
(***************************************************************************)
(* Proofs about Kernel, for any number of slots, pages and addresses.      *)
(***************************************************************************)
EXTENDS Kernel, PmapProofs, FiniteSetTheorems, WellFoundedInduction, TLAPS

(***************************************************************************)
(* The scheduler.                                                          *)
(***************************************************************************)

(* A set of slots that is not empty has a first one.                       *)
LEMMA FirstIn ==
    ASSUME NEW S \in SUBSET Env, S # {}
    PROVE  First(S) \in S
<1>1. Env \subseteq Nat
  BY KernelAssumption DEF KernelAssumption
<1> DEFINE Below(n) == {k \in Env : k < n}
           T == {Below(n) : n \in S}
<1>2. T \subseteq FiniteSubsetsOf(Env) /\ T # {}
  <2>1. ASSUME NEW n \in S PROVE Below(n) \in FiniteSubsetsOf(Env)
    <3>1. Below(n) \subseteq Env /\ IsFiniteSet(Env)
      BY PmapAssumption DEF PmapAssumption
    <3> QED
      BY <3>1, FS_Subset DEF FiniteSubsetsOf
  <2> QED
    BY <2>1
<1>3. PICK X \in T : \A Y \in T : ~ (<<Y, X>> \in StrictSubsetOrdering(Env))
  <2> HIDE DEF T
  <2> QED
    BY <1>2, FS_StrictSubsetOrderingWellFounded, WFMin
<1>4. PICK x \in S : X = Below(x)
  OBVIOUS
<1>5. ASSUME NEW y \in S PROVE x <= y
  <2>1. SUFFICES ASSUME y < x PROVE FALSE
    BY <1>1
  <2>2. Below(y) \in T /\ Below(y) \subseteq Below(x)
    <3>1. Below(y) \in T
      OBVIOUS
    <3>2. ASSUME NEW k \in Env, k < y PROVE k < x
      BY <1>1, <2>1, <3>2
    <3> QED
      BY <3>1, <3>2
  <2>3. y \in Below(x) /\ y \notin Below(y)
    BY <1>1, <2>1
  <2>4. <<Below(y), Below(x)>> \in StrictSubsetOrdering(Env)
    BY <2>2, <2>3 DEF StrictSubsetOrdering
  <2> QED
    BY <1>3, <1>4, <2>2, <2>4
<1> QED
  BY <1>5 DEF First

(* sched_yield picks a runnable environment, or slot 0.                    *)
LEMMA SchedRange ==
    ASSUME NEW st, NEW cur
    PROVE  /\ sched_yield(st, cur) \in Env
           /\ sched_yield(st, cur) # 0 => st[sched_yield(st, cur)] = "ENV_RUNNABLE"
<1> DEFINE runnable == {e \in Env \ {0} : st[e] = "ENV_RUNNABLE"}
           after == IF cur = NoEnv THEN {} ELSE {e \in runnable : e > cur}
<1>1. 0 \in Env
  BY KernelAssumption DEF KernelAssumption
<1>2. runnable # {} => First(runnable) \in runnable
  BY FirstIn
<1>3. after \subseteq runnable
  OBVIOUS
<1>4. after # {} => First(after) \in runnable
  BY <1>3, FirstIn
<1>5. sched_yield(st, cur) \in runnable \/ sched_yield(st, cur) = 0
  BY <1>2, <1>4 DEF sched_yield
<1> QED
  BY <1>1, <1>5

(***************************************************************************)
(* The types of the memory variables, with no bound on reference counts.   *)
(***************************************************************************)

(* No page is the absence of one.                                          *)
LEMMA NotAPage == \A p \in Page : p # NoPage
BY PmapAssumption DEF PmapAssumption

(* pp_ref stays within its width when it is counted up or down.            *)
LEMMA CountRange ==
    ASSUME NEW n \in 0 .. RefMod - 1
    PROVE  Inc(n) \in 0 .. RefMod - 1 /\ Dec(n) \in 0 .. RefMod - 1
BY PmapAssumption DEF PmapAssumption, Inc, Dec

(* Replacing an entry, as page_insert and page_remove do, keeps the types. *)
LEMMA ReplaceType ==
    ASSUME TypeOK, NEW ref \in [Page -> 0 .. RefMod - 1], NEW avail \in SUBSET Page,
           NEW e \in Env, NEW p \in Page, NEW va \in VA,
           ReplaceEntry(ref, avail, e, p, va)
    PROVE  /\ free' \subseteq Page
           /\ ppref' \in [Page -> 0 .. RefMod - 1]
           /\ pte' \in [Env \X VA -> PageOrNone]
<1>1. pte' \in [Env \X VA -> PageOrNone]
  BY DEF TypeOK, ReplaceEntry, PageOrNone
<1>2. pte[e, va] \in PageOrNone
  BY DEF TypeOK
<1>3. CASE pte[e, va] = NoPage
  BY <1>1, <1>3 DEF ReplaceEntry
<1>4. CASE pte[e, va] # NoPage
  <2>1. pte[e, va] \in Page
    BY <1>2, <1>4 DEF PageOrNone
  <2>2. Dec(ref[pte[e, va]]) \in 0 .. RefMod - 1
    BY <2>1, CountRange
  <2>3. /\ ppref' = [ref EXCEPT ![pte[e, va]] = Dec(@)]
        /\ free' = avail \cup {pte[e, va]} \/ free' = avail
    BY <1>4 DEF ReplaceEntry
  <2> QED
    BY <1>1, <2>1, <2>2, <2>3
<1> QED
  BY <1>3, <1>4

(* page_insert keeps the types.                                            *)
LEMMA InsertType ==
    ASSUME TypeOK, UNCHANGED pgdir, NEW avail \in SUBSET free,
           NEW e \in Env, NEW p \in Page, NEW va \in VA, page_insert(avail, e, p, va)
    PROVE  TypeOK'
<1>1. PDX[va] \in PD
  BY PmapAssumption DEF PmapAssumption
<1>2. avail \subseteq Page
  BY DEF TypeOK
<1> DEFINE ref1 == [ppref EXCEPT ![p] = Inc(@)]
<1>3. ref1 \in [Page -> 0 .. RefMod - 1]
  BY CountRange DEF TypeOK
<1>4. CASE InsertKeepTable(avail, e, p, va)
  BY <1>2, <1>3, <1>4, ReplaceType DEF InsertKeepTable, TypeOK
<1>5. CASE InsertNewTable(avail, e, p, va)
  <2>1. PICK t \in avail :
          /\ ReplaceEntry([ppref EXCEPT ![p] = Inc(@), ![t] = Inc(@)],
                          avail \ {t}, e, p, va)
          /\ pde' = [pde EXCEPT ![<<e, PDX[va]>>] = t]
    BY <1>5 DEF InsertNewTable
  <2> DEFINE ref2 == [ppref EXCEPT ![p] = Inc(@), ![t] = Inc(@)]
  <2>2. ref2 \in [Page -> 0 .. RefMod - 1]
    <3>1. \A q \in Page : ppref[q] \in 0 .. RefMod - 1
      BY DEF TypeOK
    <3>2. /\ Inc(ppref[p]) \in 0 .. RefMod - 1 /\ Inc(ppref[t]) \in 0 .. RefMod - 1
          /\ Inc(Inc(ppref[p])) \in 0 .. RefMod - 1
      BY <1>2, <3>1, CountRange
    <3> QED
      BY <1>2, <3>2 DEF TypeOK
  <2>4. pde' \in [Env \X PD -> PageOrNone]
    BY <1>1, <1>2, <2>1 DEF TypeOK, PageOrNone
  <2>5. ReplaceEntry(ref2, avail \ {t}, e, p, va) /\ avail \ {t} \in SUBSET Page
    BY <1>2, <2>1
  <2> HIDE DEF ref2
  <2>6. /\ free' \subseteq Page
        /\ ppref' \in [Page -> 0 .. RefMod - 1]
        /\ pte' \in [Env \X VA -> PageOrNone]
    BY <2>2, <2>5, ReplaceType
  <2> QED
    BY <2>4, <2>6 DEF TypeOK
<1>6. CASE InsertNoMem(avail, e, p, va)
  BY <1>2, <1>6 DEF InsertNoMem, TypeOK
<1> QED
  BY <1>4, <1>5, <1>6 DEF page_insert

(* Every operation of pmap.c keeps the types.                              *)
LEMMA TypeStep ==
    ASSUME TypeOK, [Next]_pmapVars
    PROVE  TypeOK'
<1>1. CASE UNCHANGED pmapVars
  BY <1>1 DEF pmapVars, TypeOK
<1>2. ASSUME NEW e \in Env, env_setup_vm(e)
      PROVE  TypeOK'
  BY <1>2 DEF env_setup_vm, TypeOK, PageOrNone
<1>3. ASSUME NEW e \in Env, env_free(e)
      PROVE  TypeOK'
  <2>1. ASSUME NEW p \in Page PROVE (ppref[p] - Drops(e, p)) % RefMod \in 0 .. RefMod - 1
    <3> DEFINE AV == {va \in VA : pte[e, va] = p}
               AD == {d \in PD : pde[e, d] = p}
    <3>1. IsFiniteSet(AV) /\ IsFiniteSet(AD)
      BY PmapAssumption, FS_Subset DEF PmapAssumption
    <3>2. Drops(e, p) = Cardinality(AV) + Cardinality(AD) + (IF pgdir[e] = p THEN 1 ELSE 0)
      BY DEF Drops
    <3> HIDE DEF AV, AD
    <3>3. Cardinality(AV) \in Nat /\ Cardinality(AD) \in Nat
      BY <3>1, FS_CardinalityType
    <3>4. Drops(e, p) \in Int /\ ppref[p] \in Int
      BY <3>2, <3>3 DEF TypeOK
    <3> QED
      BY <3>4, PmapAssumption DEF PmapAssumption
  <2>2. ppref' \in [Page -> 0 .. RefMod - 1]
    BY <1>3, <2>1 DEF env_free
  <2> QED
    BY <1>3, <2>2 DEF env_free, Freed, TypeOK, PageOrNone
<1>4. ASSUME NEW e \in Env, NEW va \in VA, MemAlloc(e, va)
      PROVE  TypeOK'
  <2>1. PICK p \in free : page_insert(free \ {p}, e, p, va)
    BY <1>4 DEF MemAlloc
  <2>2. p \in Page /\ free \ {p} \in SUBSET free /\ UNCHANGED pgdir
    BY <1>4 DEF TypeOK, MemAlloc
  <2> QED
    BY <2>1, <2>2, InsertType
<1>5. ASSUME NEW e \in Env, NEW va \in VA, MemUnmap(e, va)
      PROVE  TypeOK'
  <2>1. pte[e, va] \in Page
    BY <1>5 DEF MemUnmap, page_remove, TypeOK, PageOrNone
  <2>2. Dec(ppref[pte[e, va]]) \in 0 .. RefMod - 1
    BY <2>1, CountRange DEF TypeOK
  <2> QED
    BY <1>5, <2>1, <2>2 DEF MemUnmap, page_remove, TypeOK, PageOrNone
<1>6. CASE MemAllocBadEnv
  BY <1>6 DEF MemAllocBadEnv, TypeOK
<1>7. ASSUME NEW src \in Env, NEW dst \in Env, NEW srcva \in VA, NEW dstv \in VA,
             MemMap(src, srcva, dst, dstv)
      PROVE  TypeOK'
  <2>1. page_lookup(src, srcva) \in Page
    BY <1>7, PmapAssumption DEF PmapAssumption, MemMap, page_lookup, TypeOK, PageOrNone
  <2> QED
    BY <1>7, <2>1, InsertType DEF MemMap
<1> QED
  BY <1>1, <1>2, <1>3, <1>4, <1>5, <1>6, <1>7 DEF Next

(***************************************************************************)
(* The invariant: the types, the free list against the address spaces, the *)
(* current environment, and that boot stays within its slots.              *)
(***************************************************************************)

BootBound == curenv = NoEnv => next_env_id <= NBoot

KInv == KernelTypeOK /\ SlotsAccounted /\ CurrentLive /\ BootBound

(* The environment that runs is in the table and not on the free list.     *)
LEMMA RunningFacts ==
    ASSUME KInv, Running
    PROVE  curenv \in Env /\ Live(curenv) /\ curenv \notin env_free_list
BY DEF KInv, KernelTypeOK, Running, SlotsAccounted

(* Whatever a call can name has an address space.                          *)
LEMMA TargetsLive ==
    ASSUME KInv, Running, NEW b, NEW e \in Targets(b)
    PROVE  e \in Env /\ e \notin env_free_list /\ Live(e)
<1>1. e \in Env /\ (e = curenv \/ status[e] # "ENV_FREE")
  BY DEF Targets, envid2env, Resolves
<1> QED
  BY <1>1, RunningFacts DEF KInv, SlotsAccounted

(***************************************************************************)
(* Each step of the kernel is one operation on memory, or none.            *)
(***************************************************************************)

(* What the kernel does to memory is an operation of pmap.c, or nothing.   *)
LEMMA MemoryStep ==
    ASSUME KInv, [KernelNext]_kvars
    PROVE  [Next]_pmapVars
<1>1. ASSUME NEW e, NEW q, NEW st, env_alloc(e, q, st)
      PROVE  Next
  <2>1. e \in Env /\ env_setup_vm(e)
    BY <1>1 DEF env_alloc, KInv, KernelTypeOK
  <2> QED
    BY <2>1 DEF Next
<1>2. ASSUME NEW e \in Env, env_destroy(e)
      PROVE  Next
  BY <1>2 DEF env_destroy, Next
<1>3. CASE Boot
  <2>1. CASE BootAlloc
    BY <1>1, <2>1 DEF BootAlloc
  <2>2. CASE BootLoad
    <3>1. next_env_id - 1 \in Env
      <4>1. next_env_id \in 0 .. IdMod - 1 /\ next_env_id > 0 /\ next_env_id <= NBoot
        BY <2>2 DEF BootLoad, Booting, KInv, BootBound, KernelTypeOK
      <4> QED
        BY <4>1, KernelAssumption DEF KernelAssumption
    <3>2. PICK va \in VA : MemAlloc(next_env_id - 1, va)
      BY <2>2 DEF BootLoad
    <3> QED
      BY <3>1, <3>2 DEF Next
  <2>3. CASE BootDone
    BY <2>3 DEF BootDone
  <2> QED
    BY <1>3, <2>1, <2>2, <2>3 DEF Boot
<1>4. CASE Syscall
  <2>1. CASE sys_yield \/ SyscallNoEffect \/ sys_ipc_recv \/ sys_ipc_recv_panics
             \/ sys_set_pgfault_handler \/ sys_set_env_status \/ sys_set_trapframe
             \/ sys_panic
    BY <2>1 DEF sys_yield, SyscallNoEffect, sys_ipc_recv, sys_ipc_recv_panics,
                sys_set_pgfault_handler, sys_set_env_status, sys_set_trapframe,
                sys_panic, panic, pmapVars
  <2>2. CASE sys_env_destroy
    BY <1>2, <2>2 DEF sys_env_destroy, Targets
  <2>3. CASE SyscallFault
    BY <1>2, <2>3, RunningFacts DEF SyscallFault, EnterSyscall
  <2>4. CASE sys_env_alloc
    BY <1>1, <2>4 DEF sys_env_alloc
  <2>5. CASE sys_ipc_can_send
    <3>1. PICK e \in Env, srcva \in VA \cup {NoVA} :
            \/ UNCHANGED pmapVars
            \/ /\ srcva # NoVA /\ dstva[e] # NoVA
               /\ MemMap(curenv, srcva, e, dstva[e])
      BY <2>5 DEF sys_ipc_can_send, Targets
    <3>2. dstva[e] \in VA \cup {NoVA} /\ curenv \in Env
      BY <2>5, RunningFacts DEF sys_ipc_can_send, EnterSyscall, KInv, KernelTypeOK
    <3> QED
      BY <3>1, <3>2 DEF Next
  <2>6. CASE sys_mem_alloc
    BY <2>6 DEF sys_mem_alloc, Targets, Next
  <2>7. CASE sys_mem_map
    BY <2>7 DEF sys_mem_map, Targets, Next
  <2>8. CASE sys_mem_unmap
    BY <2>8 DEF sys_mem_unmap, Targets, Next
  <2> QED
    BY <1>4, <2>1, <2>2, <2>3, <2>4, <2>5, <2>6, <2>7, <2>8 DEF Syscall
<1>5. CASE Trap
  <2>1. CASE ClockTick \/ UnhandledTrap
    BY <2>1 DEF ClockTick, UnhandledTrap, panic
  <2>2. CASE CtrlC \/ UserFaultNoHandler
    BY <1>2, <2>2, RunningFacts DEF CtrlC, UserFaultNoHandler
  <2>3. CASE UserFaultBadStack
    BY <1>2, <2>3, RunningFacts DEF UserFaultBadStack, panic
  <2> QED
    BY <1>5, <2>1, <2>2, <2>3 DEF Trap
<1>6. CASE UNCHANGED kvars
  BY <1>6 DEF kvars
<1> QED
  BY <1>3, <1>4, <1>5, <1>6 DEF KernelNext

(***************************************************************************)
(* The steps.  Most leave the table of environments alone: they change     *)
(* memory other than the directories, the status of environments that have *)
(* one, and who runs.                                                      *)
(***************************************************************************)

(* The processor goes to an environment that the new statuses call         *)
(* runnable, or to slot 0.                                                 *)
LEMMA YieldLive ==
    ASSUME SlotsAccounted', status' \in [Env -> Status], NEW cur,
           curenv' = sched_yield(status', cur)
    PROVE  curenv' \in Env /\ CurrentLive'
<1>1. curenv' \in Env /\ (curenv' # 0 => status'[curenv'] = "ENV_RUNNABLE")
  BY SchedRange
<1>2. curenv' # 0 => curenv' \notin env_free_list'
  BY <1>1 DEF SlotsAccounted
<1> QED
  BY <1>1, <1>2 DEF SlotsAccounted, CurrentLive

(* A step that neither makes nor frees an environment, and leaves the      *)
(* status of the free ones alone, keeps the invariant.                     *)
LEMMA TableKept ==
    ASSUME KInv, TypeOK', UNCHANGED <<pgdir, env_free_list, next_env_id>>,
           status' \in [Env -> Status], \A e \in env_free_list : status'[e] = status[e],
           envid' \in [Env -> EnvId], parent' \in [Env -> EnvId],
           recving' \in [Env -> BOOLEAN], dstva' \in [Env -> VA \cup {NoVA}],
           ipc_from' \in [Env -> EnvId], handler' \in [Env -> BOOLEAN],
           page_fault_mode' \in {"PFM_NONE", "PFM_KILL"},
           halt' \in {"no", "panic", "kernel page fault"},
           curenv' = curenv \/ \E cur : curenv' = sched_yield(status', cur)
    PROVE  KInv'
<1>1. SlotsAccounted'
  BY DEF KInv, SlotsAccounted, Live
<1>2. CASE curenv' = curenv
  <2>1. CurrentLive' /\ BootBound' /\ curenv' \in Env \cup {NoEnv}
    BY <1>2 DEF KInv, KernelTypeOK, CurrentLive, BootBound, Live
  <2> QED
    BY <1>1, <2>1 DEF KInv, KernelTypeOK
<1>3. CASE \E cur : curenv' = sched_yield(status', cur)
  <2>1. curenv' \in Env /\ CurrentLive'
    BY <1>1, <1>3, YieldLive
  <2>2. BootBound'
    BY <2>1, KernelAssumption DEF KernelAssumption, BootBound
  <2> QED
    BY <1>1, <2>1, <2>2 DEF KInv, KernelTypeOK
<1> QED
  BY <1>2, <1>3

(* A slot goes to a new environment.                                       *)
LEMMA AllocStep ==
    ASSUME KInv, TypeOK', NEW e, NEW q \in EnvId, NEW st \in Status, env_alloc(e, q, st),
           UNCHANGED <<curenv, halt>>, page_fault_mode' \in {"PFM_NONE", "PFM_KILL"},
           curenv = NoEnv => next_env_id < NBoot
    PROVE  KInv'
<1>1. e \in Env /\ e \in env_free_list /\ env_free_list' = env_free_list \ {e}
  BY DEF env_alloc, KInv, KernelTypeOK
<1>2. PICK p \in free : pgdir' = [pgdir EXCEPT ![e] = p]
  BY DEF env_alloc, env_setup_vm
<1>3. p # NoPage /\ pgdir \in [Env -> PageOrNone]
  BY NotAPage DEF KInv, KernelTypeOK, TypeOK
<1>4. next_env_id' \in 0 .. IdMod - 1 /\ (curenv = NoEnv => next_env_id' <= NBoot)
  <2>1. next_env_id \in 0 .. IdMod - 1 /\ next_env_id' = (next_env_id + 1) % IdMod
    BY DEF env_alloc, KInv, KernelTypeOK
  <2>2. IdMod \in Nat /\ IdMod > NBoot /\ NBoot \in Nat
    BY KernelAssumption DEF KernelAssumption
  <2>3. CASE next_env_id = IdMod - 1
    BY <2>1, <2>2, <2>3
  <2>4. CASE next_env_id # IdMod - 1
    BY <2>1, <2>2, <2>4
  <2> QED
    BY <2>3, <2>4
<1>5. envid' \in [Env -> EnvId] /\ parent' \in [Env -> EnvId]
  <2>1. <<next_env_id', e>> \in EnvId
    BY <1>1, <1>4 DEF EnvId
  <2> QED
    BY <2>1 DEF env_alloc, KInv, KernelTypeOK
<1>6. SlotsAccounted'
  <2>1. \A f \in Env : Live(f)' <=> (f = e \/ Live(f))
    BY <1>1, <1>2, <1>3 DEF Live
  <2>2. \A f \in env_free_list' : status'[f] = status[f]
    BY <1>1 DEF env_alloc, KInv, KernelTypeOK
  <2> QED
    BY <1>1, <2>1, <2>2 DEF KInv, SlotsAccounted
<1>7. CurrentLive' /\ BootBound'
  BY <1>1, <1>2, <1>3, <1>4 DEF KInv, KernelTypeOK, CurrentLive, BootBound, Live
<1>8. /\ status' \in [Env -> Status] /\ recving' \in [Env -> BOOLEAN]
      /\ handler' \in [Env -> BOOLEAN]
  BY DEF env_alloc, KInv, KernelTypeOK
<1> QED
  BY <1>1, <1>4, <1>5, <1>6, <1>7, <1>8 DEF KInv, KernelTypeOK, env_alloc

(* A slot comes back.                                                      *)
LEMMA DestroyStep ==
    ASSUME KInv, TypeOK', Running, NEW e \in Env, env_destroy(e),
           page_fault_mode' \in {"PFM_NONE", "PFM_KILL"}
    PROVE  KInv'
<1>1. /\ pgdir' = [pgdir EXCEPT ![e] = NoPage]
      /\ pgdir \in [Env -> PageOrNone]
      /\ status' = [status EXCEPT ![e] = "ENV_FREE"]
      /\ env_free_list' = env_free_list \cup {e}
  BY DEF env_destroy, env_free, KInv, KernelTypeOK, TypeOK
<1>2. status' \in [Env -> Status]
  BY <1>1 DEF KInv, KernelTypeOK, Status
<1>3. SlotsAccounted'
  <2>1. \A f \in Env : Live(f)' <=> (f # e /\ Live(f))
    BY <1>1 DEF Live
  <2> QED
    BY <1>1, <2>1 DEF KInv, KernelTypeOK, SlotsAccounted
<1>4. curenv' \in Env /\ CurrentLive'
  <2>1. CASE e = curenv
    BY <1>2, <1>3, <2>1, YieldLive DEF env_destroy
  <2>2. CASE e # curenv
    <3>1. curenv' = curenv /\ curenv \in Env /\ Live(curenv)
      BY <2>2, RunningFacts DEF env_destroy
    <3> QED
      BY <1>1, <2>2, <3>1 DEF CurrentLive, Live
  <2> QED
    BY <2>1, <2>2
<1>5. BootBound'
  BY <1>4, KernelAssumption DEF KernelAssumption, BootBound
<1> QED
  BY <1>1, <1>2, <1>3, <1>4, <1>5 DEF KInv, KernelTypeOK, env_destroy, ipcVars

(***************************************************************************)
(* The theorems.                                                           *)
(***************************************************************************)

(* The invariant holds at boot.                                            *)
LEMMA KernelInitInv == KernelInit => KInv
<1> SUFFICES ASSUME KernelInit PROVE KInv
  OBVIOUS
<1>1. TypeOK
  BY PmapAssumption DEF PmapAssumption, KernelInit, Init, TypeOK, PageOrNone
<1>2. SlotsAccounted
  BY DEF KernelInit, Init, SlotsAccounted, Live
<1>3. NoId \in EnvId /\ 0 \in 0 .. IdMod - 1 /\ 0 <= NBoot
  BY KernelAssumption DEF KernelAssumption, NoId, EnvId
<1> QED
  BY <1>1, <1>2, <1>3 DEF KernelInit, KInv, KernelTypeOK, CurrentLive, BootBound, Status

(* Making and loading the first environments keeps the invariant.          *)
LEMMA BootStep == ASSUME KInv, TypeOK', Boot PROVE KInv'
<1>1. CASE BootAlloc
  <2>1. NoId \in EnvId /\ "ENV_RUNNABLE" \in Status
    BY KernelAssumption DEF KernelAssumption, NoId, EnvId, Status
  <2> QED
    BY <1>1, <2>1, AllocStep DEF BootAlloc, KInv, KernelTypeOK
<1>2. CASE BootLoad
  <2>1. UNCHANGED pgdir
    BY <1>2 DEF BootLoad, MemAlloc
  <2> QED
    BY <1>2, <2>1, TableKept DEF BootLoad, KInv, KernelTypeOK, envVars, ipcVars, trapVars
<1>3. CASE BootDone
  BY <1>3, TableKept DEF BootDone, KInv, KernelTypeOK, pmapVars, envVars, ipcVars, trapVars
<1> QED
  BY <1>1, <1>2, <1>3 DEF Boot

(* Every system call keeps the invariant.                                  *)
LEMMA SyscallStep == ASSUME KInv, TypeOK', Syscall PROVE KInv'
<1>1. Running
  BY DEF Syscall, EnterSyscall, sys_yield, SyscallNoEffect, sys_env_destroy, sys_env_alloc,
         sys_ipc_recv, sys_ipc_recv_panics, sys_ipc_can_send, sys_set_pgfault_handler,
         sys_mem_alloc, sys_mem_map, sys_mem_unmap, sys_set_env_status,
         sys_set_trapframe, sys_panic, SyscallFault
<1>2. curenv \in Env /\ Live(curenv) /\ curenv \notin env_free_list
  BY <1>1, RunningFacts
<1>3. CASE sys_yield \/ SyscallNoEffect \/ sys_set_trapframe
  BY <1>3, TableKept
  DEF sys_yield, SyscallNoEffect, sys_set_trapframe, EnterSyscall, KInv, KernelTypeOK,
      pmapVars, envVars, ipcVars
<1>4. CASE sys_ipc_recv_panics \/ sys_panic
  BY <1>4, TableKept
  DEF sys_ipc_recv_panics, sys_panic, panic, EnterSyscall, KInv, KernelTypeOK,
      pmapVars, envVars, ipcVars
<1>5. CASE sys_env_destroy
  BY <1>1, <1>5, TargetsLive, DestroyStep DEF sys_env_destroy, EnterSyscall
<1>6. CASE SyscallFault
  BY <1>1, <1>2, <1>6, DestroyStep DEF SyscallFault, EnterSyscall
<1>7. CASE sys_env_alloc
  <2>1. envid[curenv] \in EnvId /\ "ENV_NOT_RUNNABLE" \in Status /\ curenv # NoEnv
    BY <1>1, <1>2 DEF KInv, KernelTypeOK, Status, Running
  <2> QED
    BY <1>7, <2>1, AllocStep DEF sys_env_alloc, EnterSyscall
<1>8. CASE sys_ipc_recv
  <2>1. status' \in [Env -> Status] /\ \A e \in env_free_list : status'[e] = status[e]
    BY <1>2, <1>8 DEF sys_ipc_recv, KInv, KernelTypeOK, Status
  <2>2. dstva' \in [Env -> VA \cup {NoVA}] /\ recving' \in [Env -> BOOLEAN]
    BY <1>2, <1>8 DEF sys_ipc_recv, KInv, KernelTypeOK
  <2> QED
    BY <1>8, <2>1, <2>2, TableKept
    DEF sys_ipc_recv, EnterSyscall, KInv, KernelTypeOK, pmapVars
<1>9. CASE sys_ipc_can_send
  <2>1. PICK e \in Targets(FALSE) :
          /\ UNCHANGED pgdir
          /\ Deliver(e)
    BY <1>9 DEF sys_ipc_can_send, MemMap, pmapVars
  <2>2. e \in Env /\ e \notin env_free_list
    BY <1>1, TargetsLive
  <2>3. status' \in [Env -> Status] /\ \A f \in env_free_list : status'[f] = status[f]
    BY <2>1, <2>2 DEF Deliver, KInv, KernelTypeOK, Status
  <2>4. recving' \in [Env -> BOOLEAN] /\ ipc_from' \in [Env -> EnvId]
    BY <1>2, <2>1, <2>2 DEF Deliver, KInv, KernelTypeOK
  <2> QED
    BY <1>9, <2>1, <2>3, <2>4, TableKept
    DEF sys_ipc_can_send, Deliver, EnterSyscall, KInv, KernelTypeOK
<1>10. CASE sys_set_pgfault_handler
  <2>1. PICK e \in Targets(TRUE), b \in BOOLEAN : handler' = [handler EXCEPT ![e] = b]
    BY <1>10 DEF sys_set_pgfault_handler
  <2>2. handler' \in [Env -> BOOLEAN]
    BY <2>1 DEF KInv, KernelTypeOK
  <2> QED
    BY <1>10, <2>2, TableKept
    DEF sys_set_pgfault_handler, EnterSyscall, KInv, KernelTypeOK, pmapVars, envVars, ipcVars
<1>11. CASE sys_mem_alloc \/ sys_mem_map \/ sys_mem_unmap
  <2>1. UNCHANGED pgdir
    BY <1>11 DEF sys_mem_alloc, sys_mem_map, sys_mem_unmap, MemAlloc, MemAllocBadEnv,
                 MemMap, MemUnmap
  <2> QED
    BY <1>11, <2>1, TableKept
    DEF sys_mem_alloc, sys_mem_map, sys_mem_unmap, EnterSyscall, KInv, KernelTypeOK,
        envVars, ipcVars
<1>12. CASE sys_set_env_status
  <2>1. PICK e \in Targets(FALSE), st \in Status : status' = [status EXCEPT ![e] = st]
    BY <1>12 DEF sys_set_env_status
  <2>2. e \in Env /\ e \notin env_free_list
    BY <1>1, TargetsLive
  <2>3. status' \in [Env -> Status] /\ \A f \in env_free_list : status'[f] = status[f]
    BY <2>1, <2>2 DEF KInv, KernelTypeOK
  <2> QED
    BY <1>12, <2>3, TableKept
    DEF sys_set_env_status, EnterSyscall, KInv, KernelTypeOK, pmapVars, ipcVars
<1> QED
  BY <1>3, <1>4, <1>5, <1>6, <1>7, <1>8, <1>9, <1>10, <1>11, <1>12 DEF Syscall

(* Every interrupt and every fault keeps the invariant.                    *)
LEMMA TrapStep == ASSUME KInv, TypeOK', Trap PROVE KInv'
<1>1. Running
  BY DEF Trap, ClockTick, CtrlC, UserFaultNoHandler, UserFaultBadStack, UnhandledTrap
<1>2. curenv \in Env
  BY <1>1, RunningFacts
<1>3. CASE ClockTick
  BY <1>3, TableKept DEF ClockTick, KInv, KernelTypeOK, pmapVars, envVars, ipcVars, trapVars
<1>4. CASE UnhandledTrap \/ (UserFaultBadStack /\ panic("kernel page fault"))
  BY <1>4, TableKept
  DEF UnhandledTrap, UserFaultBadStack, panic, KInv, KernelTypeOK, pmapVars, envVars, ipcVars
<1>5. CASE (CtrlC \/ UserFaultNoHandler \/ UserFaultBadStack) /\ env_destroy(curenv)
  BY <1>1, <1>2, <1>5, DestroyStep
  DEF CtrlC, UserFaultNoHandler, UserFaultBadStack, KInv, KernelTypeOK
<1> QED
  BY <1>3, <1>4, <1>5 DEF Trap, CtrlC, UserFaultNoHandler, UserFaultBadStack

(* Every step of the kernel keeps the invariant.                           *)
LEMMA KernelStep == KInv /\ [KernelNext]_kvars => KInv'
<1> SUFFICES ASSUME KInv, [KernelNext]_kvars PROVE KInv'
  OBVIOUS
<1>1. TypeOK'
  BY MemoryStep, TypeStep DEF KInv, KernelTypeOK
<1>2. CASE UNCHANGED kvars
  BY <1>2
  DEF kvars, pmapVars, envVars, ipcVars, trapVars, KInv, KernelTypeOK, TypeOK,
      SlotsAccounted, CurrentLive, BootBound, Live
<1> QED
  BY <1>1, <1>2, BootStep, SyscallStep, TrapStep DEF KernelNext

(* The invariant holds for ever.                                           *)
LEMMA KernelSafety == KernelSpec => []KInv
BY KernelInitInv, KernelStep, PTL DEF KernelSpec

(* Every variable of the kernel keeps its type, whatever programs do.      *)
THEOREM KernelTypeCorrect == KernelSpec => []KernelTypeOK
<1>1. KInv => KernelTypeOK
  BY DEF KInv
<1> QED
  BY <1>1, KernelSafety, PTL

(* env_free_list holds exactly the slots without an address space, and     *)
(* their statuses stay ENV_FREE, however programs use sys_set_env_status,  *)
(* sys_env_alloc and sys_env_destroy (kern/env.c, kern/syscall.c).         *)
THEOREM KernelSlots == KernelSpec => []SlotsAccounted
<1>1. KInv => SlotsAccounted
  BY DEF KInv
<1> QED
  BY <1>1, KernelSafety, PTL

(* sched_yield and env_run never load the directory of an environment that *)
(* has none, except through the fallback on slot 0 (kern/sched.c).         *)
THEOREM KernelCurrent == KernelSpec => []CurrentLive
<1>1. KInv => CurrentLive
  BY DEF KInv
<1> QED
  BY <1>1, KernelSafety, PTL

(* The kernel changes memory only by the operations of Pmap, so what is    *)
(* proved of Pmap is true of the kernel.                                   *)
THEOREM KernelImplementsPmap == KernelSpec => ImplementsPmap
<1>1. KernelInit => Init
  BY DEF KernelInit
<1>2. KInv /\ [KernelNext]_kvars => [Next]_pmapVars
  BY MemoryStep
<1> QED
  BY <1>1, <1>2, KernelSafety, PTL DEF KernelSpec, ImplementsPmap, Spec

(***************************************************************************)
(* Ids.  A step makes one environment, or none.                            *)
(***************************************************************************)

(* Making an environment: its parent is the one that asked for it, or none *)
(* while the kernel boots.                                                 *)
Makes(e) ==
    \E q \in EnvId : \E st : env_alloc(e, q, st) /\ (q = NoId \/ \E f \in Env : q = envid[f])

(* The receive and the send, without what they do to memory.               *)
Receives ==
    /\ ~ recving[curenv]
    /\ recving' = [recving EXCEPT ![curenv] = TRUE]
    /\ UNCHANGED <<pgdir, envid, parent, next_env_id, ipc_from>>

Wakes(e) ==
    /\ Live(e) /\ recving[e]
    /\ Deliver(e)
    /\ UNCHANGED pgdir

TableSame == UNCHANGED <<pgdir, envid, parent, next_env_id, recving, ipc_from>>

(* What a step is to the table of environments: most are nothing.          *)
LEMMA StepKinds ==
    ASSUME KInv, [KernelNext]_kvars
    PROVE  \/ \E e \in Env : Makes(e)
           \/ \E e \in Env : env_destroy(e)
           \/ curenv \in Env /\ Live(curenv) /\ Receives
           \/ curenv \in Env /\ Live(curenv) /\ \E e \in Env : Wakes(e)
           \/ TableSame
<1>1. CASE UNCHANGED kvars
  BY <1>1 DEF kvars, pmapVars, envVars, ipcVars, TableSame
<1>2. CASE Boot
  <2>1. CASE BootAlloc
    <3>1. NoId \in EnvId
      BY KernelAssumption DEF KernelAssumption, NoId, EnvId
    <3>2. env_alloc(next_env_id, NoId, "ENV_RUNNABLE") /\ next_env_id \in Env
      BY <2>1 DEF BootAlloc, env_alloc, KInv, KernelTypeOK
    <3> QED
      BY <3>1, <3>2 DEF Makes
  <2>2. CASE BootLoad
    BY <2>2 DEF BootLoad, MemAlloc, envVars, ipcVars, TableSame
  <2>3. CASE BootDone
    BY <2>3 DEF BootDone, pmapVars, envVars, ipcVars, TableSame
  <2> QED
    BY <1>2, <2>1, <2>2, <2>3 DEF Boot
<1>3. CASE Syscall
  <2>1. CASE sys_env_alloc
    <3>1. PICK e \in Env : env_alloc(e, envid[curenv], "ENV_NOT_RUNNABLE")
      BY <2>1 DEF sys_env_alloc
    <3>2. curenv \in Env
      BY <2>1, RunningFacts DEF sys_env_alloc, EnterSyscall
    <3>3. envid[curenv] \in EnvId
      BY <3>2 DEF KInv, KernelTypeOK
    <3> QED
      BY <3>1, <3>2, <3>3 DEF Makes
  <2>2. CASE sys_env_destroy
    BY <2>2 DEF sys_env_destroy, Targets
  <2>3. CASE SyscallFault
    BY <2>3, RunningFacts DEF SyscallFault, EnterSyscall
  <2>4. CASE sys_ipc_recv
    <3>1. curenv \in Env /\ Live(curenv)
      BY <2>4, RunningFacts DEF sys_ipc_recv, EnterSyscall
    <3> QED
      BY <2>4, <3>1 DEF sys_ipc_recv, pmapVars, Receives
  <2>5. CASE sys_ipc_can_send
    <3>1. PICK e \in Targets(FALSE) : recving[e] /\ Deliver(e) /\ UNCHANGED pgdir
      BY <2>5 DEF sys_ipc_can_send, MemMap, pmapVars
    <3>2. Running
      BY <2>5 DEF sys_ipc_can_send, EnterSyscall
    <3>3. curenv \in Env /\ Live(curenv) /\ e \in Env /\ Live(e)
      BY <3>2, RunningFacts, TargetsLive
    <3> QED
      BY <3>1, <3>3 DEF Wakes
  <2>6. CASE sys_yield \/ SyscallNoEffect \/ sys_ipc_recv_panics
             \/ sys_set_pgfault_handler \/ sys_set_env_status \/ sys_set_trapframe
             \/ sys_panic
    BY <2>6 DEF sys_yield, SyscallNoEffect, sys_ipc_recv_panics,
                sys_set_pgfault_handler, sys_set_env_status, sys_set_trapframe,
                sys_panic, panic, pmapVars, envVars, ipcVars, TableSame
  <2>7. CASE sys_mem_alloc \/ sys_mem_map \/ sys_mem_unmap
    <3>1. UNCHANGED pgdir
      BY <2>7 DEF sys_mem_alloc, sys_mem_map, sys_mem_unmap, MemAlloc, MemAllocBadEnv,
                  MemMap, MemUnmap
    <3> QED
      BY <2>7, <3>1 DEF sys_mem_alloc, sys_mem_map, sys_mem_unmap, envVars, ipcVars, TableSame
  <2> QED
    BY <1>3, <2>1, <2>2, <2>3, <2>4, <2>5, <2>6, <2>7 DEF Syscall
<1>4. CASE Trap
  <2>1. CASE ClockTick \/ UnhandledTrap \/ (UserFaultBadStack /\ panic("kernel page fault"))
    BY <2>1 DEF ClockTick, UnhandledTrap, UserFaultBadStack, panic, pmapVars, envVars,
                ipcVars, TableSame
  <2>2. CASE (CtrlC \/ UserFaultNoHandler \/ UserFaultBadStack) /\ env_destroy(curenv)
    BY <2>2, RunningFacts DEF CtrlC, UserFaultNoHandler, UserFaultBadStack
  <2> QED
    BY <1>4, <2>1, <2>2 DEF Trap, CtrlC, UserFaultNoHandler, UserFaultBadStack
<1> QED
  BY <1>1, <1>2, <1>3, <1>4 DEF KernelNext

(* A slot gets its directory, and no other's changes.                      *)
LEMMA MakesLive ==
    ASSUME KInv, NEW e \in Env, Makes(e)
    PROVE  \A f \in Env : Live(f)' <=> (f = e \/ Live(f))
<1>1. PICK p \in free : pgdir' = [pgdir EXCEPT ![e] = p]
  BY DEF Makes, env_alloc, env_setup_vm
<1>2. p # NoPage /\ pgdir \in [Env -> PageOrNone]
  BY NotAPage DEF KInv, KernelTypeOK, TypeOK
<1> QED
  BY <1>1, <1>2 DEF Live

(* A slot loses its directory, and no other does.                          *)
LEMMA DestroyLive ==
    ASSUME KInv, NEW e \in Env, env_destroy(e)
    PROVE  Live(e) /\ \A f \in Env : Live(f)' <=> (f # e /\ Live(f))
<1>1. pgdir' = [pgdir EXCEPT ![e] = NoPage] /\ pgdir \in [Env -> PageOrNone]
  BY DEF env_destroy, env_free, KInv, KernelTypeOK, TypeOK
<1> QED
  BY <1>1 DEF env_destroy, env_free, Live

(* A step that makes no environment leaves ids and parents alone.          *)
NoNewEnv ==
    /\ UNCHANGED <<envid, parent, next_env_id>>
    /\ \A e \in Env : Live(e)' => Live(e)

(* Only env_alloc makes an environment.                                    *)
LEMMA NewOrNot ==
    ASSUME KInv, [KernelNext]_kvars
    PROVE  (\E e \in Env : Makes(e)) \/ NoNewEnv
<1>1. ASSUME NEW e \in Env, env_destroy(e) PROVE NoNewEnv
  BY <1>1, DestroyLive DEF env_destroy, NoNewEnv
<1>2. CASE Receives
  BY <1>2 DEF Receives, NoNewEnv, Live
<1>3. ASSUME NEW e \in Env, Wakes(e) PROVE NoNewEnv
  BY <1>3 DEF Wakes, Deliver, NoNewEnv, Live
<1>4. CASE TableSame
  BY <1>4 DEF TableSame, NoNewEnv, Live
<1> QED
  BY <1>1, <1>2, <1>3, <1>4, StepKinds

(***************************************************************************)
(* Every generation costs a page, so generations do not run out.           *)
(***************************************************************************)

(* Page 0 pays for none, so there is always a generation left.             *)
LEMMA PaidBound ==
    IInv => IsFiniteSet(Paid) /\ Cardinality(Paid) \in Nat /\ Cardinality(Paid) < IdMod
<1> SUFFICES ASSUME IInv
             PROVE  IsFiniteSet(Paid) /\ Cardinality(Paid) \in Nat /\ Cardinality(Paid) < IdMod
  OBVIOUS
<1>1. ZeroPage \in Page /\ IsFiniteSet(Page) /\ Cardinality(Page) <= IdMod /\ IdMod \in Nat
  BY PmapAssumption, GenerationAssumption, KernelAssumption
  DEF PmapAssumption, GenerationAssumption, KernelAssumption
<1>2. ZeroPage \notin Paid
  BY DEF Paid, LostDir, Dir, IInv, TablesRooted
<1>3. Paid \subseteq Page \ {ZeroPage}
  BY <1>2 DEF Paid
<1>4. /\ IsFiniteSet(Page \ {ZeroPage}) /\ Cardinality(Page) \in Nat
      /\ Cardinality(Page \ {ZeroPage}) = Cardinality(Page) - 1
  BY <1>1, FS_RemoveElement, FS_CardinalityType
<1>5. /\ IsFiniteSet(Paid) /\ Cardinality(Paid) \in Nat
      /\ Cardinality(Paid) <= Cardinality(Page \ {ZeroPage})
  BY <1>3, <1>4, FS_Subset, FS_CardinalityType
<1> QED
  BY <1>1, <1>4, <1>5

(* A new environment takes one page more, and the next generation.         *)
LEMMA PaidAlloc ==
    ASSUME KInv, IInv, IInv', GenerationsPaid, NEW e, NEW q, NEW st, env_alloc(e, q, st)
    PROVE  GenerationsPaid' /\ next_env_id' = next_env_id + 1
<1>1. e \in Env /\ env_setup_vm(e) /\ next_env_id' = (next_env_id + 1) % IdMod
  BY DEF env_alloc, KInv, KernelTypeOK
<1>2. PICK p \in Page : Counted(p) /\ \A r \in Page : Counted(r)' <=> Counted(r) /\ r # p
  BY <1>1, SetupStep
<1>3. Paid = Page \ Believed /\ Paid' = Page \ Believed'
  <2>1. (IInv => Paid = Page \ Believed)'
    BY Uncounted, PTL
  <2> QED
    BY <2>1, Uncounted
<1>4. p \notin Paid /\ Paid' = Paid \cup {p}
  <2>1. p \in Believed /\ Believed' = Believed \ {p}
    BY <1>2 DEF Believed
  <2> QED
    BY <1>3, <2>1
<1>5. IsFiniteSet(Paid) /\ Cardinality(Paid) \in Nat
  BY PaidBound
<1>6. Cardinality(Paid') = Cardinality(Paid) + 1
  BY <1>4, <1>5, FS_AddElement
<1>7. Cardinality(Paid') < IdMod
  <2>1. (IInv => IsFiniteSet(Paid) /\ Cardinality(Paid) \in Nat /\ Cardinality(Paid) < IdMod)'
    BY PaidBound, PTL
  <2> QED
    BY <2>1
<1>8. next_env_id = Cardinality(Paid) /\ IdMod \in Nat
  BY KernelAssumption DEF GenerationsPaid, Paid, KernelAssumption
<1>9. (next_env_id + 1) % IdMod = next_env_id + 1
  BY <1>5, <1>6, <1>7, <1>8
<1>10. next_env_id' = Cardinality(Paid')
  BY <1>1, <1>6, <1>8, <1>9
<1> QED
  BY <1>1, <1>9, <1>10 DEF GenerationsPaid, Paid

(* Ids only grow: no slot has one that is still to come, and a parent's is *)
(* older than its child's.                                                 *)
IdsOld ==
    /\ \A e \in Env : envid[e][1] <= next_env_id
    /\ \A e \in Env : Live(e) => parent[e][1] < envid[e][1]

(* The new environment's id is the newest of all.                          *)
LEMMA MakesOld ==
    ASSUME KInv, IdsOld, NEW e \in Env, Makes(e), next_env_id' = next_env_id + 1
    PROVE  IdsOld'
<1>0. PICK q \in EnvId : \E st : env_alloc(e, q, st) /\ (q = NoId \/ \E f \in Env : q = envid[f])
  BY DEF Makes
<1>1. PICK st : env_alloc(e, q, st) /\ (q = NoId \/ \E f \in Env : q = envid[f])
  BY <1>0
<1>2. /\ envid' = [envid EXCEPT ![e] = <<next_env_id', e>>]
      /\ parent' = [parent EXCEPT ![e] = q]
  BY <1>1 DEF env_alloc
<1>3. /\ envid \in [Env -> EnvId] /\ parent \in [Env -> EnvId] /\ next_env_id \in Nat
      /\ \A f \in Env : envid[f][1] \in Nat
  <2>1. /\ envid \in [Env -> EnvId] /\ parent \in [Env -> EnvId]
        /\ next_env_id \in 0 .. IdMod - 1 /\ IdMod \in Nat
    BY KernelAssumption DEF KInv, KernelTypeOK, KernelAssumption
  <2>2. \A i \in EnvId : i[1] \in Nat
    BY <2>1 DEF EnvId
  <2> QED
    BY <2>1, <2>2
<1>4. q[1] <= next_env_id /\ q[1] \in Nat
  <2>1. CASE q = NoId
    BY <1>3, <2>1 DEF NoId
  <2>2. CASE \E f \in Env : q = envid[f]
    BY <1>3, <2>2 DEF IdsOld
  <2> QED
    BY <1>1, <2>1, <2>2
<1>5. \A f \in Env : /\ envid'[f] = IF f = e THEN <<next_env_id', e>> ELSE envid[f]
                     /\ parent'[f] = IF f = e THEN q ELSE parent[f]
  BY <1>2, <1>3
<1>6. \A f \in Env : envid'[f][1] <= next_env_id'
  BY <1>3, <1>5 DEF IdsOld
<1>7. \A f \in Env : Live(f)' => parent'[f][1] < envid'[f][1]
  BY <1>3, <1>4, <1>5, MakesLive DEF IdsOld
<1> QED
  BY <1>6, <1>7 DEF IdsOld

GInv == KInv /\ IInv /\ GenerationsPaid /\ IdsOld

(* Boot has made no environment yet.                                       *)
LEMMA GenInit == KernelInit => GInv
<1> SUFFICES ASSUME KernelInit PROVE GInv
  OBVIOUS
<1>1. KInv /\ IInv
  BY KernelInitInv, InitInv DEF KernelInit
<1>2. Paid = {}
  <2>1. RefMod \in Nat /\ RefMod > 2
    BY PmapAssumption DEF PmapAssumption
  <2>2. \A p \in Page : ~ Dir(p)
    BY NoPageNotPage DEF KernelInit, Init, Dir
  <2>3. \A p \in Page : ~ LostDir(p)
    BY <2>1 DEF KernelInit, Init, LostDir
  <2> QED
    BY <2>2, <2>3 DEF Paid
<1>3. GenerationsPaid
  BY <1>2, FS_EmptySet DEF GenerationsPaid, Paid, KernelInit
<1>4. IdsOld
  BY DEF KernelInit, Init, IdsOld, Live, NoId
<1> QED
  BY <1>1, <1>3, <1>4 DEF GInv

(* Every step keeps the account.                                           *)
LEMMA GenStep == GInv /\ Bounded' /\ [KernelNext]_kvars => GInv'
<1> SUFFICES ASSUME GInv, Bounded', [KernelNext]_kvars PROVE GInv'
  OBVIOUS
<1>1. KInv /\ KInv' /\ IInv /\ IdsOld /\ GenerationsPaid
  BY KernelStep DEF GInv
<1>2. [Next /\ Bounded']_pmapVars
  BY <1>1, MemoryStep
<1>3. IInv'
  BY <1>1, <1>2, NextInv
<1>4. CASE \E e \in Env : Makes(e)
  <2>1. PICK e \in Env : Makes(e)
    BY <1>4
  <2>0. PICK q \in EnvId : \E st : env_alloc(e, q, st)
    BY <2>1 DEF Makes
  <2>2. PICK st : env_alloc(e, q, st)
    BY <2>0
  <2>3. GenerationsPaid' /\ next_env_id' = next_env_id + 1
    BY <1>1, <1>3, <2>2, PaidAlloc
  <2>4. IdsOld'
    BY <1>1, <2>1, <2>3, MakesOld
  <2> QED
    BY <1>1, <1>3, <2>3, <2>4 DEF GInv
<1>5. CASE NoNewEnv
  <2>1. CountedKept
    BY <1>1, <1>2, <1>5, CountedStep DEF NoNewEnv
  <2>2. Believed' = Believed
    BY <2>1 DEF CountedKept, Believed
  <2>3. Paid' = Paid
    <3>1. (IInv => Paid = Page \ Believed)'
      BY Uncounted, PTL
    <3> QED
      BY <1>1, <1>3, <2>2, <3>1, Uncounted
  <2>4. GenerationsPaid'
    BY <1>1, <1>5, <2>3 DEF GenerationsPaid, Paid, NoNewEnv
  <2>5. IdsOld'
    BY <1>1, <1>5 DEF IdsOld, NoNewEnv
  <2> QED
    BY <1>1, <1>3, <2>4, <2>5 DEF GInv
<1> QED
  BY <1>1, <1>4, <1>5, NewOrNot

(* GInv all along, as long as the counts do not overflow.                  *)
LEMMA GenSafety == KernelSpec /\ []Bounded => []GInv
BY GenInit, GenStep, PTL DEF KernelSpec

(* Every generation mkenvid counts has taken a page out of the memory for  *)
(* good: the directory that env_free decrements past zero (kern/env.c).    *)
THEOREM KernelGenerations == KernelSpec /\ []Bounded => []GenerationsPaid
<1>1. GInv => GenerationsPaid
  BY DEF GInv
<1> QED
  BY <1>1, GenSafety, PTL

(* An id is never used again, so env_parent_id never comes to name a       *)
(* younger environment, and the permission check of envid2env is sound     *)
(* (kern/env.c).                                                           *)
THEOREM KernelParents == KernelSpec /\ []Bounded => []ParentsOlder
<1>1. GInv => ParentsOlder
  BY DEF GInv, IdsOld, ParentsOlder
<1> QED
  BY <1>1, GenSafety, PTL

(***************************************************************************)
(* IPC between environments, whatever their slots.                         *)
(***************************************************************************)

(* An id tells its slot, so no two environments share one.                 *)
SlotIds == \A e \in Env : Live(e) => envid[e][2] = e

RInv == KInv /\ SlotIds

(* No slot is in use at the start, and nobody is alive.                    *)
LEMMA RendezvousInit == KernelInit => RInv /\ RV!Init
<1> SUFFICES ASSUME KernelInit PROVE RInv /\ RV!Init
  OBVIOUS
<1>1. \A e \in Env : ~ Live(e)
  BY DEF KernelInit, Init, Live
<1> QED
  BY <1>1, KernelInitInv DEF RInv, SlotIds, RV!Init, Answering

(* An id names its slot after any step: ids are made of both.              *)
LEMMA SlotIdsStep == ASSUME RInv, [KernelNext]_kvars PROVE SlotIds'
<1>1. KInv /\ envid \in [Env -> EnvId]
  BY DEF RInv, KInv, KernelTypeOK
<1>2. ASSUME NEW e \in Env, Makes(e) PROVE SlotIds'
  <2>1. envid' = [envid EXCEPT ![e] = <<next_env_id', e>>]
    BY <1>2 DEF Makes, env_alloc
  <2>2. \A f \in Env : envid'[f] = IF f = e THEN <<next_env_id', e>> ELSE envid[f]
    BY <1>1, <2>1
  <2> QED
    BY <1>1, <1>2, <2>2, MakesLive DEF RInv, SlotIds
<1>3. CASE NoNewEnv
  BY <1>3 DEF RInv, SlotIds, NoNewEnv
<1> QED
  BY <1>1, <1>2, <1>3, NewOrNot

(* The abstract state, element by element.                                 *)
Alive == {envid[e] : e \in Answering}
Waiting == {envid[e] : e \in {f \in Answering : recving[f]}}
From == {<<envid[e], ipc_from[e]>> : e \in {f \in Answering : ~ recving[f]}}

(* env_alloc creates the id it hands out, which nobody has: its slot was   *)
(* free.                                                                   *)
LEMMA MakesCreates ==
    ASSUME RInv, NEW e \in Env, Makes(e)
    PROVE  \E id \in EnvId \ Alive : RV!Create(id)
<1>0. PICK q \in EnvId : \E st : env_alloc(e, q, st)
  BY DEF Makes
<1>1. PICK st : env_alloc(e, q, st)
  BY <1>0
<1> DEFINE id == <<next_env_id', e>>
<1>2. KInv /\ ~ Live(e) /\ \A f \in Env : Live(f)' <=> (f = e \/ Live(f))
  BY <1>1, MakesLive DEF RInv, env_alloc, env_setup_vm
<1>3. id \in EnvId /\ ipc_from[e] \in EnvId
  <2>1. next_env_id' = (next_env_id + 1) % IdMod /\ next_env_id \in 0 .. IdMod - 1
    BY <1>1, <1>2 DEF env_alloc, KInv, KernelTypeOK
  <2>2. IdMod \in Nat /\ IdMod > 0
    BY KernelAssumption DEF KernelAssumption
  <2>3. next_env_id' \in 0 .. IdMod - 1
    BY <2>1, <2>2
  <2>4. ipc_from[e] \in EnvId
    BY <1>2 DEF KInv, KernelTypeOK
  <2> QED
    BY <2>3, <2>4 DEF EnvId
<1>4. \A f \in Answering : envid[f] # id
  BY <1>2 DEF RInv, SlotIds, Answering
<1>5. \A f \in Env : /\ envid'[f] = IF f = e THEN id ELSE envid[f]
                     /\ recving'[f] = IF f = e THEN FALSE ELSE recving[f]
                     /\ ipc_from'[f] = ipc_from[f]
  BY <1>1, <1>2 DEF env_alloc, KInv, KernelTypeOK
<1> HIDE DEF id
<1>6. Answering' = Answering \cup {e} /\ e \notin Answering
  BY <1>2 DEF Answering
<1>7. Alive' = Alive \cup {id} /\ id \notin Alive
  BY <1>4, <1>5, <1>6 DEF Alive, Answering
<1>8. {f \in Answering : recving[f]}' = {f \in Answering : recving[f]}
  BY <1>5, <1>6 DEF Answering
<1>9. Waiting' = Waiting
  BY <1>5, <1>6, <1>8 DEF Waiting, Answering
<1>10. From' = From \cup {<<id, ipc_from[e]>>}
  BY <1>5, <1>6 DEF From, Answering
<1> QED
  BY <1>3, <1>7, <1>9, <1>10 DEF RV!Create, Alive, Waiting, From

(* env_destroy ends the id of its slot, and no other.                      *)
LEMMA DestroyEnds ==
    ASSUME RInv, NEW e \in Env, env_destroy(e)
    PROVE  \E id \in Alive : RV!End(id)
<1>1. Live(e) /\ \A f \in Env : Live(f)' <=> (f # e /\ Live(f))
  BY DestroyLive DEF RInv
<1>2. UNCHANGED <<envid, recving, ipc_from>>
  BY DEF env_destroy, ipcVars
<1>3. \A f, g \in Answering : envid[f] = envid[g] => f = g
  BY DEF RInv, SlotIds, Answering
<1>4. e \in Answering /\ Answering' = Answering \ {e}
  BY <1>1 DEF Answering
<1>5. envid[e] \in Alive /\ Alive' = Alive \ {envid[e]}
  BY <1>2, <1>3, <1>4 DEF Alive
<1>6. Waiting' = Waiting \ {envid[e]}
  BY <1>2, <1>3, <1>4 DEF Waiting
<1>7. From' = From \ {m \in From : m[1] = envid[e]}
  BY <1>2, <1>3, <1>4 DEF From
<1>8. PICK id \in Alive : id = envid[e]
  BY <1>5
<1>9. RV!End(id)
  BY <1>5, <1>6, <1>7, <1>8 DEF RV!End, RV!Of, Alive, Waiting, From
<1> QED
  BY <1>9

(* A receive makes the id of the caller wait.                              *)
LEMMA ReceivesWaits ==
    ASSUME RInv, curenv \in Env, Live(curenv), Receives
    PROVE  \E id \in Alive : RV!Recv(id)
<1>1. PICK c \in Env : c = curenv
  OBVIOUS
<1>2. /\ ~ recving[c] /\ UNCHANGED <<envid, ipc_from>> /\ Answering' = Answering
      /\ c \in Answering
  BY <1>1 DEF Receives, Answering, Live
<1>3. \A f \in Env : recving'[f] <=> (f = c \/ recving[f])
  BY <1>1 DEF Receives, RInv, KInv, KernelTypeOK
<1>4. \A f, g \in Answering : envid[f] = envid[g] => f = g
  BY DEF RInv, SlotIds, Answering
<1>5. Answering \subseteq Env
  BY DEF Answering
<1>6. envid[c] \in Alive /\ envid[c] \notin Waiting /\ Alive' = Alive
  BY <1>2, <1>4 DEF Alive, Waiting
<1>7. Waiting' = Waiting \cup {envid[c]}
  BY <1>2, <1>3, <1>5 DEF Waiting
<1>8. From' = From \ {m \in From : m[1] = envid[c]}
  BY <1>2, <1>3, <1>4, <1>5 DEF From
<1>9. PICK id \in Alive : id = envid[c]
  BY <1>6
<1>10. RV!Recv(id)
  BY <1>6, <1>7, <1>8, <1>9 DEF RV!Recv, RV!Of, Alive, Waiting, From
<1> QED
  BY <1>10

(* A send that finds its receiver delivers from id to id.                  *)
LEMMA WakesSends ==
    ASSUME RInv, curenv \in Env, Live(curenv), NEW e \in Env, Wakes(e)
    PROVE  \E id \in Waiting, src \in Alive : RV!Send(src, id)
<1>1. PICK src : src = envid[curenv]
  OBVIOUS
<1>2. /\ recving[e] /\ e \in Answering /\ UNCHANGED envid /\ Answering' = Answering
      /\ src \in Alive
  BY <1>1 DEF Wakes, Deliver, Answering, Live, Alive
<1>3. \A f \in Env : /\ recving'[f] <=> (f # e /\ recving[f])
                     /\ ipc_from'[f] = IF f = e THEN src ELSE ipc_from[f]
  BY <1>1 DEF Wakes, Deliver, RInv, KInv, KernelTypeOK
<1>4. \A f, g \in Answering : envid[f] = envid[g] => f = g
  BY DEF RInv, SlotIds, Answering
<1>5. Answering \subseteq Env
  BY DEF Answering
<1>6. envid[e] \in Waiting /\ Alive' = Alive
  BY <1>2 DEF Alive, Waiting
<1>7. Waiting' = Waiting \ {envid[e]}
  BY <1>2, <1>3, <1>4, <1>5 DEF Waiting
<1>8. From' = From \cup {<<envid[e], src>>}
  BY <1>2, <1>3, <1>5 DEF From
<1>9. PICK id \in Waiting : id = envid[e]
  BY <1>6
<1>10. RV!Send(src, id)
  BY <1>2, <1>6, <1>7, <1>8, <1>9 DEF RV!Send, Alive, Waiting, From
<1> QED
  BY <1>2, <1>10

(* Every step of the kernel is a step of Rendezvous, or leaves it alone.   *)
LEMMA RendezvousStep == RInv /\ [KernelNext]_kvars => RInv' /\ [RV!Next]_(RV!rvVars)
<1> SUFFICES ASSUME RInv, [KernelNext]_kvars PROVE RInv' /\ [RV!Next]_(RV!rvVars)
  OBVIOUS
<1>1. KInv /\ RInv'
  BY KernelStep, SlotIdsStep DEF RInv
<1>2. CASE \E e \in Env : Makes(e)
  BY <1>1, <1>2, MakesCreates DEF RV!Next, Alive
<1>3. CASE \E e \in Env : env_destroy(e)
  <2>1. \E id \in Alive : RV!End(id)
    BY <1>3, DestroyEnds
  <2> QED
    BY <1>1, <2>1 DEF RV!Next, Alive
<1>4. CASE curenv \in Env /\ Live(curenv) /\ Receives
  <2>1. \E id \in Alive : RV!Recv(id)
    BY <1>4, ReceivesWaits
  <2> QED
    BY <1>1, <2>1 DEF RV!Next, Alive
<1>5. CASE curenv \in Env /\ Live(curenv) /\ \E e \in Env : Wakes(e)
  <2>1. \E id \in Waiting, src \in Alive : RV!Send(src, id)
    BY <1>5, WakesSends
  <2> QED
    BY <1>1, <2>1 DEF RV!Next, Alive, Waiting
<1>6. CASE TableSame
  BY <1>1, <1>6 DEF TableSame, RV!rvVars, Answering, Live
<1> QED
  BY <1>1, <1>2, <1>3, <1>4, <1>5, <1>6, StepKinds

(* However slots are freed and used again, IPC is between environments: a  *)
(* receive ends by one message, from whom it says, and a new environment   *)
(* inherits no receive (kern/syscall.c, kern/env.c).                       *)
THEOREM KernelRendezvous == KernelSpec => ImplementsRendezvous
BY RendezvousInit, RendezvousStep, PTL DEF KernelSpec, ImplementsRendezvous, RV!Spec
=============================================================================
