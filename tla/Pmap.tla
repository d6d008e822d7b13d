-------------------------------- MODULE Pmap --------------------------------
(***************************************************************************)
(* Physical pages and user address spaces: the page allocator and the page *)
(* table operations of kern/pmap.c, together with the two operations of    *)
(* kern/env.c that create and tear down an address space.                  *)
(*                                                                         *)
(* A page structure is its reference count; what a page holds matters only *)
(* for page directories and page tables, whose entries below UTOP are the  *)
(* functions pde and pte.  Interrupts are off in the kernel and none of    *)
(* the operations here can fault, so each one is a single step.            *)
(***************************************************************************)
EXTENDS Integers, FiniteSets

CONSTANTS
    Env,       \* slots of envs[]
    VA,        \* page-aligned user virtual addresses below UTOP
    PD,        \* page directory indices below PDX(UTOP)
    PDX,       \* PDX[va]: the directory index of va
    Page,      \* the pages[] array
    ZeroPage,  \* pages[0], marked in use for ever by page_init
    NoPage,    \* a zero entry, a null pointer
    RefMod     \* pp_ref is a u_short: it counts modulo RefMod

ASSUME PmapAssumption ==
    /\ IsFiniteSet(Env) /\ IsFiniteSet(VA) /\ IsFiniteSet(PD)
    /\ PDX \in [VA -> PD]
    /\ ZeroPage \in Page
    /\ NoPage \notin Page
    /\ RefMod \in Nat /\ RefMod > 2

VARIABLES
    free,      \* page_free_list; its LIFO order is left out: any free page may be handed out
    ppref,     \* ppref[p]: pages[p].pp_ref
    pgdir,     \* pgdir[e]: the page holding env_pgdir (env_cr3), NoPage if none
    pde,       \* pde[e, d]: the page table entry d of e's directory points to
    pte        \* pte[e, va]: the page mapped at va in e's address space

pmapVars == <<free, ppref, pgdir, pde, pte>>

PageOrNone == Page \cup {NoPage}

TypeOK ==
    /\ free \subseteq Page
    /\ ppref \in [Page -> 0 .. RefMod - 1]
    /\ pgdir \in [Env -> PageOrNone]
    /\ pde \in [Env \X PD -> PageOrNone]
    /\ pte \in [Env \X VA -> PageOrNone]

(* page_init, before any environment exists: page 0 has one reference that *)
(* nothing gives back, and every page of the model is free.  Pages of the  *)
(* kernel image and of the IO hole are left out: no operation reaches them.*)
Init ==
    /\ free = Page \ {ZeroPage}
    /\ ppref = [p \in Page |-> IF p = ZeroPage THEN 1 ELSE 0]
    /\ pgdir = [e \in Env |-> NoPage]
    /\ pde = [s \in Env \X PD |-> NoPage]
    /\ pte = [s \in Env \X VA |-> NoPage]

----------------------------------------------------------------------------
(* Reference counts are 16 bits wide.                                      *)

Inc(n) == IF n = RefMod - 1 THEN 0 ELSE n + 1
Dec(n) == IF n = 0 THEN RefMod - 1 ELSE n - 1

(* page_lookup: a null pointer only when the page table is missing.  With  *)
(* a table and an empty entry, pa2page of the zero entry is pages[0].      *)
page_lookup(e, va) ==
    IF pde[e, PDX[va]] = NoPage THEN NoPage
    ELSE IF pte[e, va] = NoPage THEN ZeroPage
    ELSE pte[e, va]

(* An operator named X_mistake is operation X with a mistake in it;        *)
(* nothing but the project's mutation runs uses it.                        *)

(* The old page at va keeps its count.                                     *)
ReplaceEntry_keepsOld(ref, avail, e, p, va) ==
    /\ ppref' = ref
    /\ free' = avail
    /\ pte' = [pte EXCEPT ![<<e, va>>] = p]

(* The rest of page_insert once the page table exists: ref and avail are   *)
(* the counts and the free list so far.  The old page at va is removed     *)
(* after p gained its reference.                                           *)
ReplaceEntry(ref, avail, e, p, va) ==
    LET old == pte[e, va] IN
    /\ \/ /\ old = NoPage
          /\ ppref' = ref
          /\ free' = avail
       \/ /\ old # NoPage
          /\ ppref' = [ref EXCEPT ![old] = Dec(@)]
          /\ free' = IF ppref'[old] = 0 THEN avail \cup {old} ELSE avail
    /\ pte' = [pte EXCEPT ![<<e, va>>] = p]

(* page_insert of page p at va, with avail the free pages at the call.     *)
(* pgdir_walk takes a page for a missing table and fails if there is none, *)
(* after which p's count is put back and p itself stays where it was.      *)
InsertKeepTable(avail, e, p, va) ==
    /\ pde[e, PDX[va]] # NoPage
    /\ ReplaceEntry([ppref EXCEPT ![p] = Inc(@)], avail, e, p, va)
    /\ pde' = pde

(* The page taken for the table stays on the free list.                    *)
InsertNewTable_freeTable(avail, e, p, va) ==
    /\ pde[e, PDX[va]] = NoPage
    /\ \E t \in avail :
        /\ ReplaceEntry([ppref EXCEPT ![p] = Inc(@), ![t] = Inc(@)], avail, e, p, va)
        /\ pde' = [pde EXCEPT ![<<e, PDX[va]>>] = t]

InsertNewTable(avail, e, p, va) ==
    /\ pde[e, PDX[va]] = NoPage
    /\ \E t \in avail :
        /\ ReplaceEntry([ppref EXCEPT ![p] = Inc(@), ![t] = Inc(@)],
                        avail \ {t}, e, p, va)
        /\ pde' = [pde EXCEPT ![<<e, PDX[va]>>] = t]

InsertNoMem(avail, e, p, va) ==
    /\ pde[e, PDX[va]] = NoPage
    /\ avail = {}
    /\ free' = avail
    /\ UNCHANGED <<ppref, pde, pte>>

page_insert(avail, e, p, va) ==
    \/ InsertKeepTable(avail, e, p, va)
    \/ InsertNewTable(avail, e, p, va)
    \/ InsertNoMem(avail, e, p, va)

(* The count goes down, but nobody looks at it.                            *)
page_remove_noFree(e, va) ==
    /\ pte[e, va] # NoPage
    /\ ppref' = [ppref EXCEPT ![pte[e, va]] = Dec(@)]
    /\ pte' = [pte EXCEPT ![<<e, va>>] = NoPage]
    /\ UNCHANGED <<free, pde>>

page_remove(e, va) ==
    LET old == pte[e, va] IN
    /\ old # NoPage
    /\ ppref' = [ppref EXCEPT ![old] = Dec(@)]
    /\ free' = IF ppref'[old] = 0 THEN free \cup {old} ELSE free
    /\ pte' = [pte EXCEPT ![<<e, va>>] = NoPage]
    /\ UNCHANGED pde

----------------------------------------------------------------------------
(* One action per operation on an address space.                           *)

Live(e) == pgdir[e] # NoPage

(* env_setup_vm: a page for the directory, whose count is left alone.      *)
env_setup_vm(e) ==
    /\ ~ Live(e)
    /\ \E p \in free :
        /\ pgdir' = [pgdir EXCEPT ![e] = p]
        /\ free' = free \ {p}
    /\ UNCHANGED <<ppref, pde, pte>>

(* The page stays on the free list.                                        *)
MemAlloc_staysFree(e, va) ==
    /\ Live(e)
    /\ \E p \in free : page_insert(free, e, p, va)
    /\ UNCHANGED pgdir

(* sys_mem_alloc, and each page of load_icode.  The page leaves the free   *)
(* list first; on an insertion error it is not given back.                 *)
MemAlloc(e, va) ==
    /\ Live(e)
    /\ \E p \in free : page_insert(free \ {p}, e, p, va)
    /\ UNCHANGED pgdir

(* sys_mem_alloc when envid2env rejects the target: the page was taken     *)
(* from the free list before the check.                                    *)
MemAllocBadEnv ==
    /\ \E p \in free : free' = free \ {p}
    /\ UNCHANGED <<ppref, pgdir, pde, pte>>

(* sys_mem_map, and the page transfer of sys_ipc_can_send.                 *)
MemMap(src, srcva, dst, dstva) ==
    /\ Live(src) /\ Live(dst)
    /\ page_lookup(src, srcva) # NoPage
    /\ page_insert(free, dst, page_lookup(src, srcva), dstva)
    /\ UNCHANGED pgdir

(* sys_mem_unmap *)
MemUnmap(e, va) ==
    /\ Live(e)
    /\ page_remove(e, va)
    /\ UNCHANGED pgdir

(* The directory is not given up.                                          *)
Drops_noDir(e, p) ==
    Cardinality({va \in VA : pte[e, va] = p}) + Cardinality({d \in PD : pde[e, d] = p})

(* How many times env_free calls page_decref on p: once for every entry of *)
(* the address space that points to p and once for the directory.          *)
Drops(e, p) ==
    Cardinality({va \in VA : pte[e, va] = p})
      + Cardinality({d \in PD : pde[e, d] = p})
      + (IF pgdir[e] = p THEN 1 ELSE 0)

(* A page goes back on the free list when one of those calls reaches 0.    *)
Freed(e) == {p \in Page : ppref[p] \in 1 .. Drops(e, p)}

(* Only the directory is given up: the entries stay as they are.           *)
env_free_keepsEntries(e) ==
    /\ Live(e)
    /\ pgdir' = [pgdir EXCEPT ![e] = NoPage]
    /\ UNCHANGED <<free, ppref, pde, pte>>

(* env_free *)
env_free(e) ==
    /\ Live(e)
    /\ ppref' = [p \in Page |-> (ppref[p] - Drops(e, p)) % RefMod]
    /\ free' = free \cup Freed(e)
    /\ pgdir' = [pgdir EXCEPT ![e] = NoPage]
    /\ pde' = [s \in Env \X PD |-> IF s[1] = e THEN NoPage ELSE pde[s]]
    /\ pte' = [s \in Env \X VA |-> IF s[1] = e THEN NoPage ELSE pte[s]]

Next ==
    \/ \E e \in Env : env_setup_vm(e) \/ env_free(e)
    \/ \E e \in Env, va \in VA : MemAlloc(e, va) \/ MemUnmap(e, va)
    \/ MemAllocBadEnv
    \/ \E src, dst \in Env, srcva, dstva \in VA : MemMap(src, srcva, dst, dstva)

Spec == Init /\ [][Next]_pmapVars

----------------------------------------------------------------------------
(* What the reference counts promise.                                      *)

PteRefs(p) == {s \in Env \X VA : pte[s] = p}
PdeRefs(p) == {s \in Env \X PD : pde[s] = p}
NRefs(p) == Cardinality(PteRefs(p)) + Cardinality(PdeRefs(p))
Pinned(p) == IF p = ZeroPage THEN 1 ELSE 0

(* The counts are only as good as their width: as long as no page has more *)
(* pointers than pp_ref can count.                                         *)
Bounded == \A p \in Page : NRefs(p) + Pinned(p) < RefMod

BoundedSpec == Init /\ [][Next /\ Bounded']_pmapVars

Dir(p) == \E e \in Env : pgdir[e] = p

(* The directory of an environment that is gone: env_free decrements a     *)
(* count env_setup_vm never incremented, so it passes 0 and is never freed.*)
LostDir(p) ==
    /\ ppref[p] = RefMod - 1 /\ NRefs(p) = 0
    /\ p # ZeroPage /\ p \notin free /\ ~ Dir(p)

(* pp_ref is the number of page table and page directory entries that      *)
(* point to the page (inc/pmap.h), whatever sequence of insertions,        *)
(* replacements, failures and teardowns led here; directories are outside  *)
(* the count.                                                              *)
RefCountExact ==
    \A p \in Page :
        \/ ~ Dir(p) /\ ppref[p] = NRefs(p) + Pinned(p)
        \/ Dir(p) /\ ppref[p] = 0
        \/ LostDir(p)

(* A page on page_free_list is reachable from no address space: page_alloc *)
(* never hands out a page some environment still maps, or uses as a table  *)
(* or a directory.                                                         *)
FreeUnused ==
    \A p \in free : p # ZeroPage /\ ~ Dir(p) /\ PteRefs(p) = {} /\ PdeRefs(p) = {}

(* A page table or directory serves one environment and one purpose: no    *)
(* two directory entries share a table, and no user mapping reaches one.   *)
TablesPrivate ==
    /\ \A s, t \in Env \X PD : pde[s] # NoPage /\ pde[s] = pde[t] => s = t
    /\ \A e, f \in Env : pgdir[e] # NoPage /\ pgdir[e] = pgdir[f] => e = f
    /\ \A s \in Env \X PD, t \in Env \X VA : pde[s] # NoPage => pde[s] # pte[t]
    /\ \A e \in Env, s \in Env \X PD : pgdir[e] # NoPage => pgdir[e] # pde[s]
    /\ \A e \in Env, t \in Env \X VA : pgdir[e] # NoPage => pgdir[e] # pte[t]

(* Entries hang off a live directory and an existing table, the shape      *)
(* env_free relies on when it walks the directory.                         *)
TablesRooted ==
    /\ \A e \in Env, va \in VA : pte[e, va] # NoPage => pde[e, PDX[va]] # NoPage
    /\ \A e \in Env, d \in PD : pde[e, d] # NoPage => Live(e)
    /\ ZeroPage \notin {pde[s] : s \in Env \X PD} \cup {pgdir[e] : e \in Env}

(* Tables and directories are private and rooted: replacing an entry,      *)
(* running out of memory half-way and taking down an address space whose   *)
(* pages others share never leave a table that two owners reach or that    *)
(* env_free would not find.                                                *)
TablesSound == TablesPrivate /\ TablesRooted

(* The step that removes the last pointer to a page puts the page on the   *)
(* free list, whichever operation it is; only page 0 stays out.            *)
FreesLast ==
    \A p \in Page \ {ZeroPage} : NRefs(p) > 0 /\ NRefs(p)' = 0 => p \in free'

LastUnmapFrees == [][FreesLast]_pmapVars

(* The operations implement the abstract address spaces: a system call     *)
(* changes at most one entry of one environment, an allocation never hands *)
(* out a page somebody still sees, and the end of an environment takes     *)
(* nothing from the others.                                                *)
AS == INSTANCE AddrSpace WITH live <- {e \in Env : Live(e)}, view <- pte

ImplementsAddrSpace == AS!Spec
=============================================================================
