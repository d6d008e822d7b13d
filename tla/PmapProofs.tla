----------------------------- MODULE PmapProofs -----------------------------
(***************************************************************************)
(* Proofs about Pmap, for any number of pages, addresses and environments. *)
(***************************************************************************)
EXTENDS Pmap, FiniteSetTheorems, TLAPS

(* Two sets that differ at most in s.                                      *)
LEMMA OneElement ==
    ASSUME NEW A, NEW B, NEW s, IsFiniteSet(A), IsFiniteSet(B),
           A \subseteq B \cup {s}, B \subseteq A \cup {s}
    PROVE  /\ (s \in A <=> s \in B) => Cardinality(B) = Cardinality(A)
           /\ s \notin A /\ s \in B => Cardinality(B) = Cardinality(A) + 1
           /\ s \in A /\ s \notin B => Cardinality(B) = Cardinality(A) - 1
           /\ s \in A => Cardinality(A) > 0
<1>1. Cardinality(A) \in Nat /\ Cardinality(B) \in Nat
  BY FS_CardinalityType
<1>2. s \in A => Cardinality(A) > 0
  BY <1>1, FS_EmptySet
<1>3. CASE s \in A <=> s \in B
  <2>1. A = B
    BY <1>3
  <2> QED
    BY <1>2, <1>3, <2>1
<1>4. CASE s \notin A /\ s \in B
  <2>1. B = A \cup {s}
    BY <1>4
  <2> QED
    BY <1>2, <1>4, <2>1, FS_AddElement
<1>5. CASE s \in A /\ s \notin B
  <2>1. B = A \ {s}
    BY <1>5
  <2> QED
    BY <1>2, <1>5, <2>1, FS_RemoveElement
<1> QED
  BY <1>3, <1>4, <1>5

(***************************************************************************)
(* The inductive invariant and its two kinds of counters.                  *)
(***************************************************************************)

IInv == TypeOK /\ RefCountExact /\ FreeUnused /\ TablesPrivate /\ TablesRooted

PteN(p) == Cardinality(PteRefs(p))
PdeN(p) == Cardinality(PdeRefs(p))

(* A page whose count can be believed, and the others: the directories and *)
(* the lost ones.                                                          *)
Counted(p) == ~ Dir(p) /\ ppref[p] = NRefs(p) + Pinned(p)
Believed == {p \in Page : Counted(p)}
Paid == {p \in Page : Dir(p) \/ LostDir(p)}
CountedKept == \A p \in Page : Counted(p)' <=> Counted(p)

(* No page is the absence of one.                                          *)
LEMMA NoPageNotPage == \A q \in Page : q # NoPage
BY PmapAssumption DEF PmapAssumption

(* There are finitely many places where a page can be entered.             *)
LEMMA FiniteSlots == IsFiniteSet(Env \X VA) /\ IsFiniteSet(Env \X PD)
BY FS_Product, PmapAssumption DEF PmapAssumption

(* The numbers of pointers to a page are numbers, and 0 when there are     *)
(* none.                                                                   *)
LEMMA CountTypes ==
    ASSUME NEW p
    PROVE  /\ PteN(p) \in Nat /\ PdeN(p) \in Nat
           /\ NRefs(p) = PteN(p) + PdeN(p)
           /\ PteN(p) = 0 <=> PteRefs(p) = {}
           /\ PdeN(p) = 0 <=> PdeRefs(p) = {}
<1>1. IsFiniteSet(PteRefs(p)) /\ IsFiniteSet(PdeRefs(p))
  BY FiniteSlots, FS_Subset DEF PteRefs, PdeRefs
<1> QED
  BY <1>1, FS_CardinalityType, FS_EmptySet DEF PteN, PdeN, NRefs

(* The same in the next state.                                             *)
LEMMA CountTypesNext ==
    ASSUME NEW p
    PROVE  /\ PteN(p)' \in Nat /\ PdeN(p)' \in Nat
           /\ NRefs(p)' = PteN(p)' + PdeN(p)'
           /\ PteN(p)' = 0 <=> PteRefs(p)' = {}
           /\ PdeN(p)' = 0 <=> PdeRefs(p)' = {}
<1>1. IsFiniteSet(PteRefs(p)') /\ IsFiniteSet(PdeRefs(p)')
  BY FiniteSlots, FS_Subset DEF PteRefs, PdeRefs
<1> QED
  BY <1>1, FS_CardinalityType, FS_EmptySet DEF PteN, PdeN, NRefs

(* What writing one entry of a page table does to the number of entries    *)
(* for p.                                                                  *)
LEMMA PteWrite ==
    ASSUME TypeOK, NEW s \in Env \X VA, NEW q, pte' = [pte EXCEPT ![s] = q], NEW p
    PROVE  /\ q = p /\ pte[s] = p => PteN(p)' = PteN(p)
           /\ q # p /\ pte[s] # p => PteN(p)' = PteN(p)
           /\ q = p /\ pte[s] # p => PteN(p)' = PteN(p) + 1
           /\ q # p /\ pte[s] = p => PteN(p)' = PteN(p) - 1
           /\ pte[s] = p => PteN(p) > 0
<1>1. IsFiniteSet(PteRefs(p)) /\ IsFiniteSet(PteRefs(p)')
  BY FiniteSlots, FS_Subset DEF PteRefs
<1>2. (s \in PteRefs(p) <=> pte[s] = p) /\ (s \in PteRefs(p)' <=> q = p)
  BY DEF PteRefs, TypeOK
<1>3. PteRefs(p) \subseteq PteRefs(p)' \cup {s} /\ PteRefs(p)' \subseteq PteRefs(p) \cup {s}
  BY DEF PteRefs, TypeOK
<1> QED
  BY <1>1, <1>2, <1>3, OneElement DEF PteN

(* What an entry that referred to another page adds to a page's count.     *)
LEMMA PteFill ==
    ASSUME TypeOK, NEW s \in Env \X VA, NEW p, pte' = [pte EXCEPT ![s] = p], NEW q, pte[s] # q
    PROVE  PteN(q)' = IF q = p THEN PteN(q) + 1 ELSE PteN(q)
<1>1. IsFiniteSet(PteRefs(q)) /\ IsFiniteSet(PteRefs(q)')
  BY FiniteSlots, FS_Subset DEF PteRefs
<1>2. s \notin PteRefs(q) /\ (s \in PteRefs(q)' <=> q = p)
  BY DEF PteRefs, TypeOK
<1>3. PteRefs(q) \subseteq PteRefs(q)' \cup {s} /\ PteRefs(q)' \subseteq PteRefs(q) \cup {s}
  BY DEF PteRefs, TypeOK
<1> QED
  BY <1>1, <1>2, <1>3, OneElement DEF PteN

(* A directory entry that pointed to another page points to p now.         *)
LEMMA PdeFill ==
    ASSUME TypeOK, NEW s \in Env \X PD, NEW p, pde' = [pde EXCEPT ![s] = p], NEW q, pde[s] # q
    PROVE  PdeN(q)' = IF q = p THEN PdeN(q) + 1 ELSE PdeN(q)
<1>1. IsFiniteSet(PdeRefs(q)) /\ IsFiniteSet(PdeRefs(q)')
  BY FiniteSlots, FS_Subset DEF PdeRefs
<1>2. s \notin PdeRefs(q) /\ (s \in PdeRefs(q)' <=> q = p)
  BY DEF PdeRefs, TypeOK
<1>3. PdeRefs(q) \subseteq PdeRefs(q)' \cup {s} /\ PdeRefs(q)' \subseteq PdeRefs(q) \cup {s}
  BY DEF PdeRefs, TypeOK
<1> QED
  BY <1>1, <1>2, <1>3, OneElement DEF PdeN

(* Directories that do not change point to p as often as before.           *)
LEMMA PdeSame == ASSUME UNCHANGED pde, NEW p PROVE PdeN(p)' = PdeN(p)
BY DEF PdeN, PdeRefs

(* Tables that do not change point to p as often as before.                *)
LEMMA PteSame == ASSUME UNCHANGED pte, NEW p PROVE PteN(p)' = PteN(p)
BY DEF PteN, PteRefs

(* No entry points to a directory.                                         *)
LEMMA DirUncounted ==
    ASSUME IInv, NEW q \in Page, Dir(q)
    PROVE  NRefs(q) = 0 /\ PteRefs(q) = {} /\ PdeRefs(q) = {}
<1>1. PICK f \in Env : pgdir[f] = q
  BY DEF Dir
<1>2. /\ \A t \in Env \X VA : pte[t] # q
      /\ \A t \in Env \X PD : pde[t] # q
  BY <1>1, NoPageNotPage DEF IInv, TablesPrivate
<1>3. PteRefs(q) = {} /\ PdeRefs(q) = {}
  BY <1>2 DEF PteRefs, PdeRefs
<1> QED
  BY <1>3, CountTypes

(* What writing one entry of a page table does to the number of pointers   *)
(* to q.                                                                   *)
LEMMA RefsNext ==
    ASSUME TypeOK, NEW s \in Env \X VA, NEW r, pte' = [pte EXCEPT ![s] = r],
           UNCHANGED pde, NEW q
    PROVE  /\ r = q /\ pte[s] = q => NRefs(q)' = NRefs(q)
           /\ r # q /\ pte[s] # q => NRefs(q)' = NRefs(q)
           /\ r = q /\ pte[s] # q => NRefs(q)' = NRefs(q) + 1
           /\ r # q /\ pte[s] = q => NRefs(q)' = NRefs(q) - 1
           /\ pte[s] = q => NRefs(q) > 0
           /\ NRefs(q) \in Nat /\ NRefs(q)' \in Nat
<1>1. /\ r = q /\ pte[s] = q => PteN(q)' = PteN(q)
      /\ r # q /\ pte[s] # q => PteN(q)' = PteN(q)
      /\ r = q /\ pte[s] # q => PteN(q)' = PteN(q) + 1
      /\ r # q /\ pte[s] = q => PteN(q)' = PteN(q) - 1
      /\ pte[s] = q => PteN(q) > 0
  BY PteWrite
<1>2. PdeN(q)' = PdeN(q)
  BY PdeSame
<1>3. /\ PteN(q) \in Nat /\ PdeN(q) \in Nat
      /\ NRefs(q) = PteN(q) + PdeN(q)
  BY CountTypes
<1>4. /\ PteN(q)' \in Nat /\ PdeN(q)' \in Nat
      /\ NRefs(q)' = PteN(q)' + PdeN(q)'
  BY CountTypesNext
<1> QED
  BY <1>1, <1>2, <1>3, <1>4

(* A page some entry points to is counted and is no directory.             *)
LEMMA MappedPage ==
    ASSUME IInv, NEW s \in Env \X VA, pte[s] # NoPage
    PROVE  /\ pte[s] \in Page /\ pte[s] \notin free /\ ~ Dir(pte[s])
           /\ ppref[pte[s]] = NRefs(pte[s]) + Pinned(pte[s])
           /\ NRefs(pte[s]) > 0
           /\ PdeRefs(pte[s]) = {}
<1>1. pte[s] \in Page
  BY DEF IInv, TypeOK, PageOrNone
<1>2. s \in PteRefs(pte[s])
  BY DEF PteRefs
<1>3. pte[s] \notin free
  BY <1>2 DEF IInv, FreeUnused
<1>4. NRefs(pte[s]) > 0
  BY <1>2, CountTypes
<1>5. ~ Dir(pte[s]) /\ PdeRefs(pte[s]) = {}
  <2>1. \A e \in Env : pgdir[e] # pte[s]
    BY DEF IInv, TablesPrivate
  <2>2. \A t \in Env \X PD : pde[t] # pte[s]
    BY DEF IInv, TablesPrivate
  <2> QED
    BY <2>1, <2>2 DEF Dir, PdeRefs
<1> QED
  BY <1>1, <1>3, <1>4, <1>5 DEF IInv, RefCountExact, LostDir

(***************************************************************************)
(* page_insert preserves the invariant.                                    *)
(***************************************************************************)

(* What page_insert may be called with: a page that is counted and is      *)
(* neither free for the table allocation, nor a table, nor a directory.    *)
Insertable(avail, p) ==
    /\ avail \subseteq free
    /\ p \in Page \ avail
    /\ ~ Dir(p) /\ PdeRefs(p) = {}
    /\ ppref[p] = NRefs(p) + Pinned(p)

(* page_insert keeps the invariant where the table is there.               *)
LEMMA KeepTableStep ==
    ASSUME IInv, Bounded', UNCHANGED pgdir,
           NEW e \in Env, NEW va \in VA, NEW p, NEW avail, Insertable(avail, p),
           InsertKeepTable(avail, e, p, va)
    PROVE  IInv' /\ CountedKept
<1> DEFINE s == <<e, va>>
           old == pte[s]
<1>1. s \in Env \X VA /\ p # NoPage /\ p \in Page
  BY PmapAssumption DEF Insertable, PmapAssumption
<1>2. pte' = [pte EXCEPT ![s] = p] /\ UNCHANGED pde
  BY DEF InsertKeepTable, ReplaceEntry
<1>3. TypeOK
  BY DEF IInv
<1>4. \A q : /\ p = q /\ old = q => NRefs(q)' = NRefs(q)
             /\ p # q /\ old # q => NRefs(q)' = NRefs(q)
             /\ p = q /\ old # q => NRefs(q)' = NRefs(q) + 1
             /\ p # q /\ old = q => NRefs(q)' = NRefs(q) - 1
             /\ old = q => NRefs(q) > 0
             /\ NRefs(q) \in Nat /\ NRefs(q)' \in Nat
  BY <1>1, <1>2, <1>3, RefsNext
<1>5. old # NoPage => /\ old \in Page /\ old \notin free /\ ~ Dir(old)
                      /\ ppref[old] = NRefs(old) + Pinned(old)
                      /\ PdeRefs(old) = {}
  BY <1>1, MappedPage
<1>6. \A q \in Page : NRefs(q)' + Pinned(q) < RefMod
  BY DEF Bounded, Pinned
<1>7. \A q \in Page : ppref'[q] =
          IF q = p /\ q # old THEN ppref[q] + 1
          ELSE IF q = old /\ q # p THEN ppref[q] - 1
          ELSE ppref[q]
  <2> HIDE DEF s
  <2> SUFFICES ASSUME NEW q \in Page
               PROVE ppref'[q] = IF q = p /\ q # old THEN ppref[q] + 1
                                 ELSE IF q = old /\ q # p THEN ppref[q] - 1
                                 ELSE ppref[q]
    OBVIOUS
  <2>1. ppref[q] \in 0 .. RefMod - 1 /\ ppref \in [Page -> 0 .. RefMod - 1] /\ RefMod \in Nat
    BY <1>3, PmapAssumption DEF TypeOK, PmapAssumption
  <2>2. ppref' = IF old = NoPage THEN [ppref EXCEPT ![p] = Inc(@)]
                 ELSE [[ppref EXCEPT ![p] = Inc(@)] EXCEPT ![old] = Dec(@)]
    BY DEF InsertKeepTable, ReplaceEntry, s
  <2>3. q = p /\ q # old => ppref[q] + 1 < RefMod
    BY <1>4, <1>6 DEF Insertable, Pinned
  <2>4. q = old /\ q # p => ppref[q] > 0
    BY <1>4, <1>5, NoPageNotPage DEF Pinned
  <2>5. CASE old = NoPage
    <3>1. ppref'[q] = IF q = p THEN Inc(ppref[q]) ELSE ppref[q]
      BY <2>1, <2>2, <2>5
    <3> QED
      BY <1>1, <2>1, <2>3, <2>5, <3>1, NoPageNotPage DEF Inc
  <2>6. CASE old # NoPage
    <3> DEFINE r == [ppref EXCEPT ![p] = Inc(@)]
    <3>1. r[q] = IF q = p THEN Inc(ppref[q]) ELSE ppref[q]
      BY <2>1
    <3>2. ppref'[q] = IF q = old THEN Dec(r[q]) ELSE r[q]
      BY <2>1, <2>2, <2>6
    <3> HIDE DEF r
    <3> QED
      BY <2>1, <2>3, <2>4, <3>1, <3>2 DEF Inc, Dec
  <2> QED
    BY <2>5, <2>6
<1>8. free' \subseteq avail \cup {old} /\ free' \subseteq Page
      /\ (old \in free' => old # NoPage /\ ppref'[old] = 0)
  <2>1. avail \subseteq Page /\ old \notin avail /\ (old # NoPage => old \in Page)
    BY <1>3, <1>5, NoPageNotPage DEF Insertable, TypeOK
  <2>2. \/ old = NoPage /\ free' = avail
        \/ old # NoPage /\ free' = IF ppref'[old] = 0 THEN avail \cup {old} ELSE avail
    BY DEF InsertKeepTable, ReplaceEntry
  <2> QED
    BY <2>1, <2>2
<1>9. \A q \in Page : Dir(q)' <=> Dir(q)
  BY DEF Dir
<1>10. TypeOK'
  <2>1. ppref' \in [Page -> 0 .. RefMod - 1]
    <3>1. DOMAIN ppref' = Page /\ ppref' = [q \in Page |-> ppref'[q]]
      BY <1>3 DEF InsertKeepTable, ReplaceEntry, TypeOK
    <3>2. \A q \in Page : ppref'[q] \in 0 .. RefMod - 1
      <4> SUFFICES ASSUME NEW q \in Page PROVE ppref'[q] \in 0 .. RefMod - 1
        OBVIOUS
      <4>1. ppref[q] \in 0 .. RefMod - 1 /\ RefMod \in Nat
        BY <1>3, PmapAssumption DEF TypeOK, PmapAssumption
      <4>2. q = p /\ q # old => ppref[q] + 1 < RefMod
        BY <1>4, <1>6 DEF Insertable, Pinned
      <4>3. q = old /\ q # p => ppref[q] > 0
        BY <1>4, <1>5, NoPageNotPage DEF Pinned
      <4> QED
        BY <1>7, <4>1, <4>2, <4>3
    <3> QED
      BY <3>1, <3>2
  <2> QED
    BY <1>1, <1>2, <1>3, <1>8, <2>1 DEF TypeOK, PageOrNone
<1>11. RefCountExact'
  <2> SUFFICES ASSUME NEW q \in Page
               PROVE  \/ ~ Dir(q)' /\ ppref'[q] = NRefs(q)' + Pinned(q)
                      \/ Dir(q)' /\ ppref'[q] = 0
                      \/ LostDir(q)'
    BY DEF RefCountExact, Pinned
  <2>1. CASE q = p
    BY <1>4, <1>7, <1>9, <2>1 DEF Insertable, Pinned
  <2>2. CASE q = old /\ q # p
    BY <1>4, <1>5, <1>7, <1>9, <2>2, NoPageNotPage DEF Pinned
  <2>3. CASE q # old /\ q # p
    <3>1. NRefs(q)' = NRefs(q) /\ ppref'[q] = ppref[q]
      BY <1>4, <1>7, <2>3
    <3>2. q \in free' => q \in free
      BY <1>8, <2>3 DEF Insertable
    <3> QED
      BY <1>9, <3>1, <3>2 DEF IInv, RefCountExact, LostDir
  <2> QED
    BY <2>1, <2>2, <2>3
<1>12. FreeUnused'
  <2> SUFFICES ASSUME NEW q \in free'
               PROVE  q # ZeroPage /\ ~ Dir(q)' /\ PteRefs(q)' = {} /\ PdeRefs(q)' = {}
    BY DEF FreeUnused
  <2>0. q \in Page
    BY <1>8
  <2>1. CASE q = old
    <3>1. old # NoPage /\ ppref'[old] = 0
      BY <1>8, <2>1
    <3>2. NRefs(q)' + Pinned(q) = 0
      BY <1>4, <1>5, <1>7, <2>0, <2>1, <3>1 DEF Pinned, Insertable
    <3>3. NRefs(q)' = 0 /\ q # ZeroPage
      BY <1>4, <3>2 DEF Pinned
    <3> QED
      BY <1>5, <1>9, <2>0, <2>1, <3>1, <3>3, CountTypesNext
  <2>2. CASE q # old
    <3>1. q \in avail /\ q \in free /\ q # p
      BY <1>8, <2>2 DEF Insertable
    <3>2. q # ZeroPage /\ ~ Dir(q) /\ PteRefs(q) = {} /\ PdeRefs(q) = {}
      BY <3>1 DEF IInv, FreeUnused
    <3>3. PteRefs(q)' = {} /\ PdeRefs(q)' = {}
      BY <1>1, <1>2, <1>3, <3>1, <3>2 DEF PteRefs, PdeRefs, TypeOK
    <3> QED
      BY <1>9, <2>0, <3>2, <3>3
  <2> QED
    BY <2>1, <2>2
<1>13. TablesPrivate'
  <2>1. /\ \A t \in Env \X PD : pde[t] # p
        /\ \A f \in Env : pgdir[f] # p
    BY DEF Insertable, PdeRefs, Dir
  <2>2. \A t \in Env \X VA : pte'[t] = pte[t] \/ pte'[t] = p
    BY <1>1, <1>2, <1>3 DEF TypeOK
  <2> QED
    BY <1>2, <2>1, <2>2 DEF IInv, TablesPrivate
<1>14. TablesRooted'
  <2>1. \A f \in Env, w \in VA : pte'[f, w] = pte[f, w] \/ (f = e /\ w = va)
    BY <1>1, <1>2, <1>3 DEF TypeOK
  <2>2. pde[e, PDX[va]] # NoPage
    BY DEF InsertKeepTable
  <2> QED
    BY <1>2, <2>1, <2>2 DEF IInv, TablesRooted, Live
<1>15. CountedKept
  <2> SUFFICES ASSUME NEW q \in Page PROVE Counted(q)' <=> Counted(q)
    BY DEF CountedKept
  <2>1. CASE q = p
    BY <1>4, <1>7, <1>9, <2>1 DEF Insertable, Pinned, Counted
  <2>2. CASE q = old /\ q # p
    BY <1>4, <1>5, <1>7, <1>9, <2>2, NoPageNotPage DEF Pinned, Counted
  <2>3. CASE q # old /\ q # p
    <3>1. NRefs(q)' = NRefs(q) /\ ppref'[q] = ppref[q]
      BY <1>4, <1>7, <2>3
    <3> QED
      BY <1>9, <3>1 DEF Counted, Pinned
  <2> QED
    BY <2>1, <2>2, <2>3
<1> QED
  BY <1>10, <1>11, <1>12, <1>13, <1>14, <1>15 DEF IInv

(* A free page is uncounted: what a new table or directory starts from.    *)
LEMMA FreePage ==
    ASSUME IInv, NEW t \in free
    PROVE  /\ t \in Page /\ t # ZeroPage /\ ~ Dir(t)
           /\ PteRefs(t) = {} /\ PdeRefs(t) = {} /\ NRefs(t) = 0 /\ ppref[t] = 0
<1>1. t \in Page
  BY DEF IInv, TypeOK
<1>2. t # ZeroPage /\ ~ Dir(t) /\ PteRefs(t) = {} /\ PdeRefs(t) = {}
  BY DEF IInv, FreeUnused
<1>3. NRefs(t) = 0
  BY <1>2, CountTypes
<1>4. ppref[t] = NRefs(t) + Pinned(t)
  BY <1>1, <1>2 DEF IInv, RefCountExact, LostDir
<1> QED
  BY <1>1, <1>2, <1>3, <1>4 DEF Pinned

(* page_insert keeps the invariant where it makes a table.                 *)
LEMMA NewTableStep ==
    ASSUME IInv, Bounded', UNCHANGED pgdir,
           NEW e \in Env, NEW va \in VA, NEW p, NEW avail, Insertable(avail, p), Live(e),
           InsertNewTable(avail, e, p, va)
    PROVE  IInv' /\ CountedKept
<1> DEFINE s == <<e, va>>
           d == <<e, PDX[va]>>
<1>1. s \in Env \X VA /\ d \in Env \X PD /\ p # NoPage /\ p \in Page
  BY PmapAssumption DEF Insertable, PmapAssumption
<1>2. TypeOK
  BY DEF IInv
<1>3. pde[d] = NoPage /\ pte[s] = NoPage
  BY DEF InsertNewTable, IInv, TablesRooted
<1>4. PICK t \in avail :
        /\ ReplaceEntry([ppref EXCEPT ![p] = Inc(@), ![t] = Inc(@)], avail \ {t}, e, p, va)
        /\ pde' = [pde EXCEPT ![d] = t]
  BY DEF InsertNewTable
<1>5. /\ ppref' = [ppref EXCEPT ![p] = Inc(@), ![t] = Inc(@)]
      /\ free' = avail \ {t}
      /\ pte' = [pte EXCEPT ![s] = p]
  BY <1>3, <1>4 DEF ReplaceEntry
<1>6. /\ t \in free /\ t \in Page /\ t # p /\ t # NoPage /\ t # ZeroPage /\ ~ Dir(t)
      /\ PteRefs(t) = {} /\ PdeRefs(t) = {} /\ NRefs(t) = 0 /\ ppref[t] = 0
  BY <1>4, FreePage, NoPageNotPage DEF Insertable
<1>7. \A q \in Page : /\ NRefs(q)' = IF q = p \/ q = t THEN NRefs(q) + 1 ELSE NRefs(q)
                      /\ NRefs(q) \in Nat /\ NRefs(q)' \in Nat
  <2> SUFFICES ASSUME NEW q \in Page
               PROVE /\ NRefs(q)' = IF q = p \/ q = t THEN NRefs(q) + 1 ELSE NRefs(q)
                     /\ NRefs(q) \in Nat /\ NRefs(q)' \in Nat
    OBVIOUS
  <2> HIDE DEF s, d
  <2>1. q # NoPage
    BY NoPageNotPage
  <2>2. PteN(q)' = IF q = p THEN PteN(q) + 1 ELSE PteN(q)
    <3>1. pte[s] # q
      BY ONLY <1>3, <2>1
    <3>2. pte' = [pte EXCEPT ![s] = p] /\ s \in Env \X VA
      BY ONLY <1>1, <1>5
    <3>3. PICK x \in Env \X VA : pte' = [pte EXCEPT ![x] = p] /\ pte[x] # q
      BY <3>1, <3>2
    <3> QED
      BY <1>2, <3>3, PteFill
  <2>3. PdeN(q)' = IF q = t THEN PdeN(q) + 1 ELSE PdeN(q)
    <3>1. pde[d] # q
      BY ONLY <1>3, <2>1
    <3>2. pde' = [pde EXCEPT ![d] = t] /\ d \in Env \X PD
      BY ONLY <1>1, <1>4
    <3>3. PICK x \in Env \X PD : pde' = [pde EXCEPT ![x] = t] /\ pde[x] # q
      BY <3>1, <3>2
    <3> QED
      BY <1>2, <3>3, PdeFill
  <2>4. PteN(q) \in Nat /\ PdeN(q) \in Nat /\ NRefs(q) = PteN(q) + PdeN(q)
    BY CountTypes
  <2>5. PteN(q)' \in Nat /\ PdeN(q)' \in Nat /\ NRefs(q)' = PteN(q)' + PdeN(q)'
    BY CountTypesNext
  <2> QED
    BY <1>6, <2>2, <2>3, <2>4, <2>5
<1>8. \A q \in Page : NRefs(q)' + Pinned(q) < RefMod
  BY DEF Bounded, Pinned
<1>9. \A q \in Page : ppref'[q] = IF q = p \/ q = t THEN ppref[q] + 1 ELSE ppref[q]
  <2> SUFFICES ASSUME NEW q \in Page
               PROVE  ppref'[q] = IF q = p \/ q = t THEN ppref[q] + 1 ELSE ppref[q]
    OBVIOUS
  <2>1. ppref[q] \in 0 .. RefMod - 1 /\ RefMod \in Nat /\ RefMod > 2
    BY <1>2, PmapAssumption DEF TypeOK, PmapAssumption
  <2>2. ppref'[q] = IF q = p \/ q = t THEN Inc(ppref[q]) ELSE ppref[q]
    BY <1>1, <1>2, <1>5, <1>6 DEF TypeOK
  <2>3. q = p => ppref[q] + 1 < RefMod
    BY <1>7, <1>8 DEF Insertable, Pinned
  <2> QED
    BY <1>6, <2>1, <2>2, <2>3 DEF Inc
<1>10. \A q \in Page : Dir(q)' <=> Dir(q)
  BY DEF Dir
<1>11. TypeOK'
  <2>1. ppref' \in [Page -> 0 .. RefMod - 1]
    <3>1. ppref' = [q \in Page |-> ppref'[q]]
      BY <1>2, <1>5 DEF TypeOK
    <3>2. \A q \in Page : ppref'[q] \in 0 .. RefMod - 1
      <4> SUFFICES ASSUME NEW q \in Page PROVE ppref'[q] \in 0 .. RefMod - 1
        OBVIOUS
      <4>1. ppref[q] \in 0 .. RefMod - 1 /\ RefMod \in Nat /\ RefMod > 2
        BY <1>2, PmapAssumption DEF TypeOK, PmapAssumption
      <4>2. q = p => ppref[q] + 1 < RefMod
        BY <1>7, <1>8 DEF Insertable, Pinned
      <4> QED
        BY <1>6, <1>9, <4>1, <4>2
    <3> QED
      BY <3>1, <3>2
  <2> QED
    BY <1>1, <1>2, <1>4, <1>5, <1>6, <2>1 DEF TypeOK, PageOrNone, Insertable
<1>12. RefCountExact'
  <2> SUFFICES ASSUME NEW q \in Page
               PROVE  \/ ~ Dir(q)' /\ ppref'[q] = NRefs(q)' + Pinned(q)
                      \/ Dir(q)' /\ ppref'[q] = 0
                      \/ LostDir(q)'
    BY DEF RefCountExact, Pinned
  <2>1. CASE q = p
    BY <1>7, <1>9, <1>10, <2>1 DEF Insertable, Pinned
  <2>2. CASE q = t
    BY <1>6, <1>7, <1>9, <1>10, <2>2 DEF Pinned
  <2>3. CASE q # p /\ q # t
    <3>1. NRefs(q)' = NRefs(q) /\ ppref'[q] = ppref[q]
      BY <1>7, <1>9, <2>3
    <3>2. q \in free' => q \in free
      BY <1>5 DEF Insertable
    <3> QED
      BY <1>10, <3>1, <3>2 DEF IInv, RefCountExact, LostDir
  <2> QED
    BY <2>1, <2>2, <2>3
<1>13. FreeUnused'
  <2> SUFFICES ASSUME NEW q \in free'
               PROVE  q # ZeroPage /\ ~ Dir(q)' /\ PteRefs(q)' = {} /\ PdeRefs(q)' = {}
    BY DEF FreeUnused
  <2>1. q \in free /\ q # p /\ q # t
    BY <1>5 DEF Insertable
  <2>2. q \in Page /\ q # ZeroPage /\ ~ Dir(q) /\ NRefs(q) = 0
    BY <2>1, FreePage
  <2>3. NRefs(q)' = 0
    BY <1>7, <2>1, <2>2
  <2> QED
    BY <1>10, <2>2, <2>3, CountTypesNext
<1>14. /\ \A x \in Env \X PD : pde'[x] = IF x = d THEN t ELSE pde[x]
       /\ \A x \in Env \X VA : pte'[x] = IF x = s THEN p ELSE pte[x]
  BY <1>1, <1>2, <1>4, <1>5 DEF TypeOK
<1>15. TablesPrivate'
  <2>1. /\ \A x \in Env \X PD : pde[x] # p /\ pde[x] # t
        /\ \A x \in Env \X VA : pte[x] # t
        /\ \A f \in Env : pgdir[f] # p /\ pgdir[f] # t
    BY <1>6 DEF Insertable, PdeRefs, PteRefs, Dir
  <2> HIDE DEF s, d
  <2> QED
    BY <1>6, <1>14, <2>1 DEF IInv, TablesPrivate
<1>16. TablesRooted'
  <2>1. \A f \in Env, w \in VA : pte'[f, w] # NoPage => pde'[f, PDX[w]] # NoPage
    <3> SUFFICES ASSUME NEW f \in Env, NEW w \in VA, pte'[f, w] # NoPage
                 PROVE pde'[f, PDX[w]] # NoPage
      OBVIOUS
    <3>1. <<f, PDX[w]>> \in Env \X PD
      BY PmapAssumption DEF PmapAssumption
    <3>2. CASE <<f, PDX[w]>> = d
      BY <1>6, <1>14, <3>1, <3>2
    <3>3. CASE <<f, PDX[w]>> # d
      <4>1. <<f, w>> # s
        BY <3>3
      <4>2. pte[f, w] # NoPage
        BY <1>14, <4>1
      <4>3. pde[f, PDX[w]] # NoPage
        BY <4>2 DEF IInv, TablesRooted
      <4>4. pde'[<<f, PDX[w]>>] = pde[<<f, PDX[w]>>]
        BY ONLY <1>14, <3>1, <3>3
      <4> QED
        BY ONLY <4>3, <4>4
    <3> QED
      BY <3>2, <3>3
  <2>2. \A f \in Env, x \in PD : pde'[f, x] # NoPage => Live(f)'
    BY <1>14 DEF IInv, TablesRooted, Live
  <2>3. ZeroPage \notin {pde'[x] : x \in Env \X PD} \cup {pgdir'[f] : f \in Env}
    <3>1. (\A x \in Env \X PD : pde[x] # ZeroPage) /\ (\A f \in Env : pgdir[f] # ZeroPage)
      BY DEF IInv, TablesRooted
    <3>2. t # ZeroPage /\ pgdir' = pgdir
      BY <1>6
    <3> QED
      BY ONLY <1>14, <3>1, <3>2
  <2> QED
    BY <2>1, <2>2, <2>3 DEF TablesRooted
<1>17. CountedKept
  <2> SUFFICES ASSUME NEW q \in Page PROVE Counted(q)' <=> Counted(q)
    BY DEF CountedKept
  <2>1. CASE q = p
    BY <1>7, <1>9, <1>10, <2>1 DEF Insertable, Pinned, Counted
  <2>2. CASE q = t
    BY <1>6, <1>7, <1>9, <1>10, <2>2 DEF Pinned, Counted
  <2>3. CASE q # p /\ q # t
    BY <1>7, <1>9, <1>10, <2>3 DEF Counted, Pinned
  <2> QED
    BY <2>1, <2>2, <2>3
<1> QED
  BY <1>11, <1>12, <1>13, <1>15, <1>16, <1>17 DEF IInv

(***************************************************************************)
(* The other operations.                                                   *)
(***************************************************************************)

(* Pages may leave the free list and be forgotten: a failed sys_mem_alloc. *)
LEMMA ShrinkStep ==
    ASSUME IInv, free' \subseteq free, UNCHANGED <<ppref, pgdir, pde, pte>>
    PROVE  IInv' /\ CountedKept
<1>1. \A q : /\ NRefs(q)' = NRefs(q) /\ PteRefs(q)' = PteRefs(q)
             /\ PdeRefs(q)' = PdeRefs(q) /\ Dir(q)' = Dir(q)
  BY DEF NRefs, PteRefs, PdeRefs, Dir
<1>2. TypeOK'
  BY DEF IInv, TypeOK
<1>3. RefCountExact'
  BY <1>1 DEF IInv, RefCountExact, LostDir, Pinned
<1>4. FreeUnused'
  BY <1>1 DEF IInv, FreeUnused
<1>5. TablesPrivate' /\ TablesRooted'
  BY DEF IInv, TablesPrivate, TablesRooted, Live
<1>6. CountedKept
  BY <1>1 DEF CountedKept, Counted, Pinned
<1> QED
  BY <1>6, <1>2, <1>3, <1>4, <1>5 DEF IInv

(* page_remove keeps the invariant.                                        *)
LEMMA RemoveStep ==
    ASSUME IInv, UNCHANGED pgdir, NEW e \in Env, NEW va \in VA, page_remove(e, va)
    PROVE  IInv' /\ CountedKept
<1> DEFINE s == <<e, va>>
           old == pte[s]
<1>1. s \in Env \X VA /\ old # NoPage
  BY DEF page_remove
<1>2. TypeOK /\ pte' = [pte EXCEPT ![s] = NoPage] /\ UNCHANGED pde
  BY DEF IInv, page_remove
<1>3. \A q \in Page : /\ NRefs(q)' = IF q = old THEN NRefs(q) - 1 ELSE NRefs(q)
                      /\ NRefs(q) \in Nat /\ NRefs(q)' \in Nat
  <2> SUFFICES ASSUME NEW q \in Page
               PROVE  /\ NRefs(q)' = IF q = old THEN NRefs(q) - 1 ELSE NRefs(q)
                      /\ NRefs(q) \in Nat /\ NRefs(q)' \in Nat
    OBVIOUS
  <2>1. /\ NoPage = q /\ pte[s] = q => NRefs(q)' = NRefs(q)
        /\ NoPage # q /\ pte[s] # q => NRefs(q)' = NRefs(q)
        /\ NoPage = q /\ pte[s] # q => NRefs(q)' = NRefs(q) + 1
        /\ NoPage # q /\ pte[s] = q => NRefs(q)' = NRefs(q) - 1
        /\ pte[s] = q => NRefs(q) > 0
        /\ NRefs(q) \in Nat /\ NRefs(q)' \in Nat
    <3>1. s \in Env \X VA /\ TypeOK /\ pte' = [pte EXCEPT ![s] = NoPage] /\ UNCHANGED pde
      BY <1>1, <1>2
    <3> HIDE DEF s, old
    <3> QED
      BY <3>1, RefsNext
  <2> QED
    BY <2>1, NoPageNotPage
<1>4. /\ old \in Page /\ old \notin free /\ ~ Dir(old) /\ NRefs(old) > 0
      /\ ppref[old] = NRefs(old) + Pinned(old) /\ PdeRefs(old) = {}
  BY <1>1, MappedPage
<1>5. \A q \in Page : ppref'[q] = IF q = old THEN ppref[q] - 1 ELSE ppref[q]
  <2>1. ppref[old] > 0
    BY <1>3, <1>4 DEF Pinned
  <2>2. ppref \in [Page -> 0 .. RefMod - 1] /\ ppref' = [ppref EXCEPT ![old] = Dec(@)]
    BY <1>2 DEF TypeOK, page_remove
  <2> QED
    BY <1>4, <2>1, <2>2 DEF Dec
<1>6. free' \subseteq free \cup {old} /\ (old \in free' => ppref'[old] = 0)
  BY <1>4 DEF page_remove
<1>7. \A q : (Dir(q)' <=> Dir(q)) /\ PdeRefs(q)' = PdeRefs(q)
  BY <1>2 DEF Dir, PdeRefs
<1>8. TypeOK'
  <2>1. ppref' \in [Page -> 0 .. RefMod - 1]
    <3>1. ppref' = [q \in Page |-> ppref'[q]]
      BY <1>2 DEF TypeOK, page_remove
    <3>2. \A q \in Page : ppref'[q] \in 0 .. RefMod - 1
      <4> SUFFICES ASSUME NEW q \in Page PROVE ppref'[q] \in 0 .. RefMod - 1
        OBVIOUS
      <4>1. ppref[q] \in 0 .. RefMod - 1 /\ RefMod \in Nat
        BY <1>2, PmapAssumption DEF TypeOK, PmapAssumption
      <4>2. q = old => ppref[q] > 0
        BY <1>3, <1>4 DEF Pinned
      <4> QED
        BY <1>5, <4>1, <4>2
    <3> QED
      BY <3>1, <3>2
  <2> QED
    BY <1>1, <1>2, <1>4, <1>6, <2>1 DEF TypeOK, PageOrNone
<1>9. RefCountExact'
  <2> SUFFICES ASSUME NEW q \in Page
               PROVE  \/ ~ Dir(q)' /\ ppref'[q] = NRefs(q)' + Pinned(q)
                      \/ Dir(q)' /\ ppref'[q] = 0
                      \/ LostDir(q)'
    BY DEF RefCountExact, Pinned
  <2>1. CASE q = old
    BY <1>3, <1>4, <1>5, <1>7, <2>1 DEF Pinned
  <2>2. CASE q # old
    <3>1. NRefs(q)' = NRefs(q) /\ ppref'[q] = ppref[q] /\ (q \in free' => q \in free)
      BY <1>3, <1>5, <1>6, <2>2
    <3> QED
      BY <1>7, <3>1 DEF IInv, RefCountExact, LostDir
  <2> QED
    BY <2>1, <2>2
<1>10. FreeUnused'
  <2> SUFFICES ASSUME NEW q \in free'
               PROVE  q # ZeroPage /\ ~ Dir(q)' /\ PteRefs(q)' = {} /\ PdeRefs(q)' = {}
    BY DEF FreeUnused
  <2>1. CASE q = old
    <3>1. NRefs(q)' + Pinned(q) = 0
      BY <1>3, <1>4, <1>5, <1>6, <2>1 DEF Pinned
    <3>2. NRefs(q)' = 0 /\ q # ZeroPage
      BY <1>3, <1>4, <2>1, <3>1 DEF Pinned
    <3> QED
      BY <1>4, <1>7, <2>1, <3>2, CountTypesNext
  <2>2. CASE q # old
    <3>1. q \in free /\ q \in Page
      BY <1>6, <2>2, FreePage
    <3>2. q # ZeroPage /\ ~ Dir(q) /\ NRefs(q) = 0
      BY <3>1, FreePage
    <3>3. NRefs(q)' = 0
      BY <1>3, <2>2, <3>1, <3>2
    <3> QED
      BY <1>7, <3>2, <3>3, CountTypesNext
  <2> QED
    BY <2>1, <2>2
<1>11. \A t \in Env \X VA : pte'[t] = pte[t] \/ pte'[t] = NoPage
  BY <1>1, <1>2 DEF TypeOK
<1>12. TablesPrivate'
  BY <1>2, <1>11 DEF IInv, TablesPrivate
<1>13. TablesRooted'
  BY <1>2, <1>11 DEF IInv, TablesRooted, Live
<1>14. CountedKept
  <2> SUFFICES ASSUME NEW q \in Page PROVE Counted(q)' <=> Counted(q)
    BY DEF CountedKept
  <2>1. CASE q = old
    BY <1>3, <1>4, <1>5, <1>7, <2>1 DEF Pinned, Counted
  <2>2. CASE q # old
    BY <1>3, <1>5, <1>7, <2>2 DEF Pinned, Counted
  <2> QED
    BY <2>1, <2>2
<1> QED
  BY <1>8, <1>9, <1>10, <1>12, <1>13, <1>14 DEF IInv

(* env_setup_vm keeps the invariant.                                       *)
LEMMA SetupStep ==
    ASSUME IInv, NEW e \in Env, env_setup_vm(e)
    PROVE  /\ IInv'
           /\ \E p \in Page : /\ p # ZeroPage /\ Counted(p)
                             /\ \A q \in Page : Counted(q)' <=> Counted(q) /\ q # p
<1>1. PICK p \in free : pgdir' = [pgdir EXCEPT ![e] = p] /\ free' = free \ {p}
  BY DEF env_setup_vm
<1>2. UNCHANGED <<ppref, pde, pte>> /\ pgdir[e] = NoPage /\ TypeOK
  BY DEF env_setup_vm, Live, IInv
<1>3. /\ p \in Page /\ p # ZeroPage /\ ~ Dir(p) /\ p # NoPage
      /\ PteRefs(p) = {} /\ PdeRefs(p) = {} /\ NRefs(p) = 0 /\ ppref[p] = 0
  BY FreePage, NoPageNotPage
<1>4. \A q : /\ NRefs(q)' = NRefs(q) /\ PteRefs(q)' = PteRefs(q)
             /\ PdeRefs(q)' = PdeRefs(q)
  BY <1>2 DEF NRefs, PteRefs, PdeRefs
<1>5. \A f \in Env : pgdir'[f] = IF f = e THEN p ELSE pgdir[f]
  BY <1>1, <1>2 DEF TypeOK
<1>6. \A q \in Page : Dir(q)' <=> (q = p \/ Dir(q))
  BY <1>2, <1>5, NoPageNotPage DEF Dir
<1>7. TypeOK'
  BY <1>1, <1>2, <1>3 DEF TypeOK, PageOrNone
<1>8. RefCountExact'
  BY <1>1, <1>2, <1>3, <1>4, <1>6 DEF IInv, RefCountExact, LostDir, Pinned
<1>9. FreeUnused'
  BY <1>1, <1>4, <1>6, <1>7 DEF IInv, FreeUnused, TypeOK
<1>10. TablesPrivate'
  <2>1. /\ \A x \in Env \X PD : pde[x] # p
        /\ \A x \in Env \X VA : pte[x] # p
        /\ \A f \in Env : pgdir[f] # p
    BY <1>3 DEF PdeRefs, PteRefs, Dir
  <2> QED
    BY <1>2, <1>3, <1>5, <2>1 DEF IInv, TablesPrivate
<1>11. TablesRooted'
  BY <1>2, <1>3, <1>5 DEF IInv, TablesRooted, Live
<1>12. Counted(p) /\ \A q \in Page : Counted(q)' <=> Counted(q) /\ q # p
  BY <1>2, <1>3, <1>4, <1>6 DEF Counted, Pinned
<1> QED
  BY <1>3, <1>7, <1>8, <1>9, <1>10, <1>11, <1>12 DEF IInv

(* Counting modulo the width of pp_ref, at its two ends.                   *)
LEMMA Modulo ==
    /\ \A n \in 0 .. RefMod - 1 : n % RefMod = n
    /\ (-1) % RefMod = RefMod - 1
BY PmapAssumption DEF PmapAssumption

(* A relation loses the pairs that start with e.                           *)
LEMMA RowCount ==
    ASSUME NEW T, IsFiniteSet(T), NEW e \in Env, NEW R \in SUBSET (Env \X T),
           NEW A \in SUBSET T, {e} \X A \subseteq R
    PROVE  /\ Cardinality(A) \in Nat
           /\ Cardinality(R \ ({e} \X A)) = Cardinality(R) - Cardinality(A)
<1>1. IsFiniteSet(A) /\ IsFiniteSet({e}) /\ Cardinality({e}) = 1
  BY FS_Subset, FS_Singleton
<1>2. Cardinality(A) \in Nat
  BY <1>1, FS_CardinalityType
<1>3. Cardinality({e} \X A) = Cardinality({e}) * Cardinality(A)
  BY <1>1, FS_Product, Zenon
<1>4. Cardinality({e} \X A) = Cardinality(A)
  BY <1>1, <1>2, <1>3
<1>5. IsFiniteSet(R)
  <2>1. IsFiniteSet(Env \X T)
    BY PmapAssumption, FS_Product DEF PmapAssumption
  <2> QED
    BY <2>1, FS_Subset
<1>6. R \cap ({e} \X A) = {e} \X A
  OBVIOUS
<1>7. Cardinality(R \ ({e} \X A)) = Cardinality(R) - Cardinality(R \cap ({e} \X A))
  BY <1>5, FS_Difference, Zenon
<1> QED
  BY <1>2, <1>4, <1>6, <1>7

(* env_free takes away exactly the entries of e.                           *)
LEMMA DropCount ==
    ASSUME IInv, NEW e \in Env, env_free(e), NEW q \in Page
    PROVE  \E n \in Nat : /\ Drops(e, q) = n + (IF pgdir[e] = q THEN 1 ELSE 0)
                         /\ NRefs(q) \in Nat /\ NRefs(q)' \in Nat
                         /\ NRefs(q)' = NRefs(q) - n
<1> DEFINE AV == {va \in VA : pte[e, va] = q}
           AD == {d \in PD : pde[e, d] = q}
<1>1. /\ PteRefs(q) \in SUBSET (Env \X VA) /\ AV \in SUBSET VA
      /\ {e} \X AV \subseteq PteRefs(q)
      /\ PteRefs(q)' = PteRefs(q) \ ({e} \X AV)
  <2>1. PteRefs(q) \in SUBSET (Env \X VA) /\ AV \in SUBSET VA
    BY DEF PteRefs
  <2>2. \A x \in Env \X VA : x \in {e} \X AV <=> (x[1] = e /\ pte[x] = q)
    <3> SUFFICES ASSUME NEW x \in Env \X VA
                 PROVE  x \in {e} \X AV <=> (x[1] = e /\ pte[x] = q)
      OBVIOUS
    <3>1. x = <<x[1], x[2]>> /\ x[2] \in VA
      OBVIOUS
    <3> QED
      BY <3>1
  <2>3. {e} \X AV \subseteq Env \X VA
    BY <2>1
  <2>4. {e} \X AV \subseteq PteRefs(q)
    BY <2>2, <2>3 DEF PteRefs
  <2>5. \A x \in Env \X VA : pte'[x] = q <=> (pte[x] = q /\ x[1] # e)
    BY NoPageNotPage DEF env_free
  <2> QED
    BY <2>1, <2>2, <2>4, <2>5 DEF PteRefs
<1>2. /\ PdeRefs(q) \in SUBSET (Env \X PD) /\ AD \in SUBSET PD
      /\ {e} \X AD \subseteq PdeRefs(q)
      /\ PdeRefs(q)' = PdeRefs(q) \ ({e} \X AD)
  <2>1. PdeRefs(q) \in SUBSET (Env \X PD) /\ AD \in SUBSET PD
    BY DEF PdeRefs
  <2>2. \A x \in Env \X PD : x \in {e} \X AD <=> (x[1] = e /\ pde[x] = q)
    <3> SUFFICES ASSUME NEW x \in Env \X PD
                 PROVE  x \in {e} \X AD <=> (x[1] = e /\ pde[x] = q)
      OBVIOUS
    <3>1. x = <<x[1], x[2]>> /\ x[2] \in PD
      OBVIOUS
    <3> QED
      BY <3>1
  <2>3. {e} \X AD \subseteq Env \X PD
    BY <2>1
  <2>4. {e} \X AD \subseteq PdeRefs(q)
    BY <2>2, <2>3 DEF PdeRefs
  <2>5. \A x \in Env \X PD : pde'[x] = q <=> (pde[x] = q /\ x[1] # e)
    BY NoPageNotPage DEF env_free
  <2> QED
    BY <2>1, <2>2, <2>4, <2>5 DEF PdeRefs
<1>3. IsFiniteSet(VA) /\ IsFiniteSet(PD)
  BY PmapAssumption DEF PmapAssumption
<1>4. Drops(e, q) = Cardinality(AV) + Cardinality(AD) + (IF pgdir[e] = q THEN 1 ELSE 0)
  BY DEF Drops
<1> HIDE DEF AV, AD
<1>5. Cardinality(AV) \in Nat /\ PteN(q)' = PteN(q) - Cardinality(AV)
  BY <1>1, <1>3, RowCount DEF PteN
<1>6. Cardinality(AD) \in Nat /\ PdeN(q)' = PdeN(q) - Cardinality(AD)
  BY <1>2, <1>3, RowCount DEF PdeN
<1>7. /\ PteN(q) \in Nat /\ PdeN(q) \in Nat /\ NRefs(q) = PteN(q) + PdeN(q)
      /\ PteN(q)' \in Nat /\ PdeN(q)' \in Nat /\ NRefs(q)' = PteN(q)' + PdeN(q)'
  BY CountTypes, CountTypesNext
<1> QED
  BY <1>4, <1>5, <1>6, <1>7

(* What env_free does to one page, by what the page is to e.               *)
LEMMA FreeEffect ==
    ASSUME IInv, NEW e \in Env, env_free(e), NEW q \in Page
    PROVE  /\ NRefs(q) \in Nat /\ NRefs(q)' \in Nat /\ NRefs(q)' <= NRefs(q)
           /\ pgdir[e] = q =>
                /\ ppref'[q] = RefMod - 1 /\ NRefs(q)' = 0 /\ q \notin Freed(e)
                /\ q # ZeroPage /\ q \notin free
           /\ pgdir[e] # q /\ ppref[q] = NRefs(q) + Pinned(q) =>
                /\ ppref'[q] = NRefs(q)' + Pinned(q)
                /\ q \in Freed(e) <=> (ppref'[q] = 0 /\ NRefs(q) > 0)
           /\ pgdir[e] # q /\ NRefs(q) = 0 =>
                ppref'[q] = ppref[q] /\ NRefs(q)' = 0 /\ q \notin Freed(e)
<1>1. PICK n \in Nat : /\ Drops(e, q) = n + (IF pgdir[e] = q THEN 1 ELSE 0)
                      /\ NRefs(q) \in Nat /\ NRefs(q)' \in Nat
                      /\ NRefs(q)' = NRefs(q) - n
  BY DropCount
<1>2. ppref'[q] = (ppref[q] - Drops(e, q)) % RefMod
  BY DEF env_free
<1>3. ppref[q] \in 0 .. RefMod - 1 /\ RefMod \in Nat /\ RefMod > 2
  BY PmapAssumption DEF IInv, TypeOK, PmapAssumption
<1>4. q \in Freed(e) <=> ppref[q] \in 1 .. Drops(e, q)
  BY DEF Freed
<1>5. CASE pgdir[e] = q
  <2>1. Dir(q) /\ q # ZeroPage /\ q \notin free
    BY <1>5 DEF Dir, IInv, TablesRooted, FreeUnused
  <2>3. NRefs(q) = 0
    BY <2>1, DirUncounted
  <2>4. ppref[q] = 0
    BY <2>1 DEF IInv, RefCountExact, LostDir
  <2>5. n = 0 /\ Drops(e, q) = 1
    BY <1>1, <1>5, <2>3
  <2> QED
    BY <1>1, <1>2, <1>3, <1>4, <1>5, <2>1, <2>3, <2>4, <2>5, Modulo
<1>6. CASE pgdir[e] # q /\ ppref[q] = NRefs(q) + Pinned(q)
  <2>1. Drops(e, q) = n /\ ppref[q] - n = NRefs(q)' + Pinned(q)
    BY <1>1, <1>6 DEF Pinned
  <2>2. NRefs(q)' + Pinned(q) \in 0 .. RefMod - 1
    BY <1>1, <1>3, <1>6 DEF Pinned
  <2>3. ppref'[q] = NRefs(q)' + Pinned(q)
    BY <1>2, <2>1, <2>2, Modulo
  <2> QED
    BY <1>1, <1>3, <1>4, <1>6, <2>1, <2>3 DEF Pinned
<1>7. CASE pgdir[e] # q /\ NRefs(q) = 0
  <2>1. n = 0 /\ Drops(e, q) = 0
    BY <1>1, <1>7
  <2>2. ppref'[q] = ppref[q]
    BY <1>2, <1>3, <2>1, Modulo
  <2> QED
    BY <1>1, <1>4, <1>7, <2>1, <2>2, <1>6
<1> QED
  BY <1>1, <1>5, <1>6, <1>7

(* env_free keeps the invariant.                                           *)
LEMMA FreeStep ==
    ASSUME IInv, NEW e \in Env, env_free(e)
    PROVE  IInv' /\ CountedKept
<1>1. TypeOK /\ free' = free \cup Freed(e)
  BY DEF IInv, env_free
<1>2. \A f \in Env : pgdir'[f] = IF f = e THEN NoPage ELSE pgdir[f]
  BY <1>1 DEF TypeOK, env_free
<1>3. /\ \A t \in Env \X VA : pte'[t] = IF t[1] = e THEN NoPage ELSE pte[t]
      /\ \A t \in Env \X PD : pde'[t] = IF t[1] = e THEN NoPage ELSE pde[t]
  BY DEF env_free
<1>4. \A q \in Page : Dir(q)' <=> (Dir(q) /\ pgdir[e] # q)
  BY <1>2, NoPageNotPage DEF Dir, IInv, TablesPrivate
<1>5. TypeOK'
  <2>1. ppref' \in [Page -> 0 .. RefMod - 1]
    <3>1. ppref' = [q \in Page |-> ppref'[q]]
      BY DEF env_free
    <3>2. \A q \in Page : ppref'[q] \in 0 .. RefMod - 1
      <4> SUFFICES ASSUME NEW q \in Page PROVE ppref'[q] \in 0 .. RefMod - 1
        OBVIOUS
      <4>1. ppref[q] \in 0 .. RefMod - 1 /\ RefMod \in Nat /\ RefMod > 2
        BY <1>1, PmapAssumption DEF TypeOK, PmapAssumption
      <4>2. CASE ppref[q] = NRefs(q) + Pinned(q)
        BY <4>1, <4>2, FreeEffect DEF Pinned
      <4>3. CASE NRefs(q) = 0
        BY <4>1, <4>3, FreeEffect
      <4>4. Dir(q) => NRefs(q) = 0
        BY DirUncounted
      <4> QED
        BY <4>2, <4>3, <4>4 DEF IInv, RefCountExact, LostDir
    <3> QED
      BY <3>1, <3>2
  <2>2. free' \subseteq Page
    BY <1>1 DEF TypeOK, Freed
  <2>3. pgdir' \in [Env -> PageOrNone]
    BY <1>1 DEF TypeOK, PageOrNone, env_free
  <2>4. pde' \in [Env \X PD -> PageOrNone] /\ pte' \in [Env \X VA -> PageOrNone]
    BY <1>1 DEF TypeOK, PageOrNone, env_free
  <2> QED
    BY <2>1, <2>2, <2>3, <2>4 DEF TypeOK
<1>6. \A q \in Page : Dir(q) => NRefs(q) = 0
  BY DirUncounted
<1>7. RefCountExact'
  <2> SUFFICES ASSUME NEW q \in Page
               PROVE  \/ ~ Dir(q)' /\ ppref'[q] = NRefs(q)' + Pinned(q)
                      \/ Dir(q)' /\ ppref'[q] = 0
                      \/ LostDir(q)'
    BY DEF RefCountExact, Pinned
  <2>1. CASE pgdir[e] = q
    BY <1>1, <1>4, <2>1, FreeEffect DEF LostDir
  <2>2. CASE pgdir[e] # q /\ ~ Dir(q) /\ ppref[q] = NRefs(q) + Pinned(q)
    BY <1>4, <2>2, FreeEffect
  <2>3. CASE pgdir[e] # q /\ Dir(q) /\ ppref[q] = 0
    BY <1>4, <1>6, <2>3, FreeEffect
  <2>4. CASE pgdir[e] # q /\ LostDir(q)
    BY <1>1, <1>4, <2>4, FreeEffect DEF LostDir
  <2> QED
    BY <2>1, <2>2, <2>3, <2>4 DEF IInv, RefCountExact
<1>8. FreeUnused'
  <2> SUFFICES ASSUME NEW q \in free'
               PROVE  q # ZeroPage /\ ~ Dir(q)' /\ PteRefs(q)' = {} /\ PdeRefs(q)' = {}
    BY DEF FreeUnused
  <2>1. q \in Page
    BY <1>5 DEF TypeOK
  <2>2. CASE q \in free
    <3>1. q # ZeroPage /\ ~ Dir(q) /\ NRefs(q) = 0
      BY <2>2, FreePage
    <3>2. NRefs(q)' = 0
      BY <2>1, <3>1, FreeEffect
    <3> QED
      BY <1>4, <2>1, <3>1, <3>2, CountTypesNext
  <2>3. CASE q \in Freed(e)
    <3>1. pgdir[e] # q /\ NRefs(q) # 0
      BY <2>1, <2>3, FreeEffect
    <3>2. ~ Dir(q) /\ ppref[q] = NRefs(q) + Pinned(q)
      BY <1>6, <2>1, <3>1 DEF IInv, RefCountExact, LostDir
    <3>3. NRefs(q)' + Pinned(q) = 0 /\ NRefs(q)' \in Nat
      BY <2>1, <2>3, <3>1, <3>2, FreeEffect
    <3>4. NRefs(q)' = 0 /\ q # ZeroPage
      BY <3>3 DEF Pinned
    <3> QED
      BY <1>4, <2>1, <3>2, <3>4, CountTypesNext
  <2> QED
    BY <1>1, <2>2, <2>3
<1>9. TablesPrivate'
  BY <1>2, <1>3 DEF IInv, TablesPrivate
<1>10. TablesRooted'
  <2>1. \A f \in Env, w \in VA : pte'[f, w] # NoPage => pde'[f, PDX[w]] # NoPage
    <3> SUFFICES ASSUME NEW f \in Env, NEW w \in VA, pte'[f, w] # NoPage
                 PROVE pde'[f, PDX[w]] # NoPage
      OBVIOUS
    <3>1. f # e /\ pte[f, w] # NoPage
      BY <1>3
    <3>2. <<f, PDX[w]>> \in Env \X PD
      BY PmapAssumption DEF PmapAssumption
    <3>3. pde[f, PDX[w]] # NoPage
      BY <3>1 DEF IInv, TablesRooted
    <3>4. pde'[<<f, PDX[w]>>] = pde[<<f, PDX[w]>>]
      BY <1>3, <3>1, <3>2
    <3> QED
      BY <3>3, <3>4
  <2>2. \A f \in Env, d \in PD : pde'[f, d] # NoPage => Live(f)'
    BY <1>2, <1>3 DEF IInv, TablesRooted, Live
  <2>3. ZeroPage \notin {pde'[t] : t \in Env \X PD} \cup {pgdir'[f] : f \in Env}
    <3>1. ZeroPage # NoPage
      BY PmapAssumption DEF PmapAssumption
    <3>2. \A t \in Env \X PD : pde'[t] # ZeroPage
      <4>1. \A t \in Env \X PD : pde[t] # ZeroPage
        BY DEF IInv, TablesRooted
      <4> QED
        BY <1>3, <3>1, <4>1
    <3>3. \A f \in Env : pgdir'[f] # ZeroPage
      BY <1>2, <3>1 DEF IInv, TablesRooted
    <3> QED
      BY <3>2, <3>3
  <2> QED
    BY <2>1, <2>2, <2>3 DEF TablesRooted
<1>11. CountedKept
  <2> SUFFICES ASSUME NEW q \in Page PROVE Counted(q)' <=> Counted(q)
    BY DEF CountedKept
  <2>0. RefMod \in Nat /\ RefMod > 2
    BY PmapAssumption DEF PmapAssumption
  <2>1. CASE pgdir[e] = q
    <3>1. Dir(q)
      BY <2>1 DEF Dir
    <3>2. ppref'[q] = RefMod - 1 /\ NRefs(q)' = 0 /\ q # ZeroPage
      BY <2>1, FreeEffect
    <3> QED
      BY <2>0, <3>1, <3>2 DEF Counted, Pinned
  <2>2. CASE pgdir[e] # q /\ ~ Dir(q) /\ ppref[q] = NRefs(q) + Pinned(q)
    BY <1>4, <2>2, FreeEffect DEF Counted, Pinned
  <2>3. CASE pgdir[e] # q /\ Dir(q) /\ ppref[q] = 0
    BY <1>4, <2>3 DEF Counted
  <2>4. CASE pgdir[e] # q /\ LostDir(q)
    <3>1. ppref'[q] = RefMod - 1 /\ NRefs(q)' = 0 /\ NRefs(q) = 0 /\ ppref[q] = RefMod - 1
      BY <2>4, FreeEffect DEF LostDir
    <3>2. q # ZeroPage
      BY <2>4 DEF LostDir
    <3> QED
      BY <2>0, <3>1, <3>2 DEF Counted, Pinned
  <2> QED
    BY <2>1, <2>2, <2>3, <2>4 DEF IInv, RefCountExact
<1> QED
  BY <1>5, <1>7, <1>8, <1>9, <1>10, <1>11 DEF IInv

(***************************************************************************)
(* The theorems.                                                           *)
(***************************************************************************)

(* The invariant holds initially.                                          *)
LEMMA InitInv == Init => IInv
<1> SUFFICES ASSUME Init PROVE IInv
  OBVIOUS
<1>1. ZeroPage # NoPage /\ RefMod \in Nat /\ RefMod > 2 /\ ZeroPage \in Page
  BY PmapAssumption DEF PmapAssumption
<1>2. \A q \in Page : PteRefs(q) = {} /\ PdeRefs(q) = {} /\ ~ Dir(q)
  BY NoPageNotPage DEF Init, PteRefs, PdeRefs, Dir
<1>3. \A q \in Page : NRefs(q) = 0
  BY <1>2, CountTypes
<1>4. TypeOK
  BY <1>1 DEF Init, TypeOK, PageOrNone
<1>5. RefCountExact
  BY <1>2, <1>3 DEF Init, RefCountExact, Pinned
<1>6. FreeUnused
  BY <1>2 DEF Init, FreeUnused
<1>7. TablesPrivate
  BY DEF Init, TablesPrivate
<1>8. TablesRooted
  <2>1. \A e \in Env, va \in VA : pte[e, va] = NoPage
    BY DEF Init
  <2>2. \A e \in Env, d \in PD : pde[e, d] = NoPage
    BY DEF Init
  <2>3. ZeroPage \notin {pde[t] : t \in Env \X PD} \cup {pgdir[f] : f \in Env}
    BY <1>1 DEF Init
  <2> QED
    BY <2>1, <2>2, <2>3 DEF TablesRooted
<1> QED
  BY <1>4, <1>5, <1>6, <1>7, <1>8 DEF IInv

(* page_insert keeps the invariant, whether it finds the table, makes it   *)
(* or finds no memory for it.                                              *)
LEMMA InsertStep ==
    ASSUME IInv, Bounded', UNCHANGED pgdir,
           NEW e \in Env, NEW va \in VA, NEW p, NEW avail, Insertable(avail, p), Live(e),
           page_insert(avail, e, p, va)
    PROVE  IInv' /\ CountedKept
<1>1. CASE InsertKeepTable(avail, e, p, va)
  BY <1>1, KeepTableStep
<1>2. CASE InsertNewTable(avail, e, p, va)
  BY <1>2, NewTableStep
<1>3. CASE InsertNoMem(avail, e, p, va)
  <2>1. pte' = pte /\ free' \subseteq free
    BY <1>3 DEF InsertNoMem, Insertable
  <2> QED
    BY <1>3, <2>1, ShrinkStep DEF InsertNoMem
<1> QED
  BY <1>1, <1>2, <1>3 DEF page_insert

(* The two callers give page_insert a page it may take.                    *)
LEMMA AllocInsertable ==
    ASSUME IInv, NEW p \in free
    PROVE  Insertable(free \ {p}, p)
<1>1. /\ p \in Page /\ p # ZeroPage /\ ~ Dir(p) /\ PdeRefs(p) = {}
      /\ NRefs(p) = 0 /\ ppref[p] = 0
  BY FreePage
<1> QED
  BY <1>1 DEF Insertable, Pinned

(* What page_lookup finds may be mapped elsewhere.                         *)
LEMMA LookupInsertable ==
    ASSUME IInv, NEW e \in Env, NEW va \in VA, page_lookup(e, va) # NoPage
    PROVE  Insertable(free, page_lookup(e, va))
<1>1. CASE pte[e, va] # NoPage
  <2>1. page_lookup(e, va) = pte[e, va]
    BY <1>1 DEF page_lookup, IInv, TablesRooted
  <2>2. <<e, va>> \in Env \X VA
    OBVIOUS
  <2> QED
    BY <1>1, <2>1, <2>2, MappedPage DEF Insertable
<1>2. CASE pte[e, va] = NoPage
  <2>1. page_lookup(e, va) = ZeroPage
    BY <1>2 DEF page_lookup
  <2>2. ZeroPage \in Page /\ ZeroPage \notin free
    BY PmapAssumption DEF PmapAssumption, IInv, FreeUnused
  <2>3. ~ Dir(ZeroPage) /\ PdeRefs(ZeroPage) = {}
    BY DEF IInv, TablesRooted, Dir, PdeRefs
  <2>4. ppref[ZeroPage] = NRefs(ZeroPage) + Pinned(ZeroPage)
    BY <2>2, <2>3 DEF IInv, RefCountExact, LostDir
  <2> QED
    BY <2>1, <2>2, <2>3, <2>4 DEF Insertable
<1> QED
  BY <1>1, <1>2

(* Every operation keeps the invariant, as long as no count reaches its    *)
(* width.                                                                  *)
LEMMA NextInv == IInv /\ [Next /\ Bounded']_pmapVars => IInv'
<1> SUFFICES ASSUME IInv, [Next /\ Bounded']_pmapVars PROVE IInv'
  OBVIOUS
<1>1. CASE UNCHANGED pmapVars
  BY <1>1, ShrinkStep DEF pmapVars
<1>2. ASSUME Bounded', NEW e \in Env, env_setup_vm(e) PROVE IInv'
  BY <1>2, SetupStep
<1>3. ASSUME Bounded', NEW e \in Env, env_free(e) PROVE IInv'
  BY <1>3, FreeStep
<1>4. ASSUME Bounded', NEW e \in Env, NEW va \in VA, MemAlloc(e, va) PROVE IInv'
  BY <1>4, AllocInsertable, InsertStep DEF MemAlloc
<1>5. ASSUME Bounded', NEW e \in Env, NEW va \in VA, MemUnmap(e, va) PROVE IInv'
  BY <1>5, RemoveStep DEF MemUnmap
<1>6. ASSUME Bounded', MemAllocBadEnv PROVE IInv'
  BY <1>6, ShrinkStep DEF MemAllocBadEnv
<1>7. ASSUME Bounded', NEW src \in Env, NEW dst \in Env, NEW srcva \in VA, NEW dstva \in VA,
             MemMap(src, srcva, dst, dstva)
      PROVE  IInv'
  BY <1>7, LookupInsertable, InsertStep DEF MemMap
<1> QED
  BY <1>1, <1>2, <1>3, <1>4, <1>5, <1>6, <1>7 DEF Next

(* A page that cannot be believed is a directory or a lost one.            *)
LEMMA Uncounted == IInv => Paid = Page \ Believed
<1>1. RefMod \in Nat /\ RefMod > 2
  BY PmapAssumption DEF PmapAssumption
<1>2. ASSUME IInv, NEW p \in Page PROVE (Dir(p) \/ LostDir(p)) <=> ~ Counted(p)
  BY <1>1, <1>2 DEF IInv, RefCountExact, LostDir, Counted, Pinned
<1> QED
  BY <1>2 DEF Paid, Believed

(* An operation that gives no environment an address space leaves every    *)
(* page as believable as it was.                                           *)
LEMMA CountedStep ==
    ASSUME IInv, [Next /\ Bounded']_pmapVars, \A e \in Env : Live(e)' => Live(e)
    PROVE  CountedKept
<1>1. CASE UNCHANGED pmapVars
  BY <1>1, ShrinkStep DEF pmapVars
<1>2. ASSUME NEW e \in Env, env_setup_vm(e) PROVE FALSE
  <2>1. PICK p \in free : pgdir' = [pgdir EXCEPT ![e] = p]
    BY <1>2 DEF env_setup_vm
  <2>2. p # NoPage /\ pgdir \in [Env -> PageOrNone]
    BY NoPageNotPage DEF IInv, TypeOK
  <2> QED
    BY <1>2, <2>1, <2>2 DEF env_setup_vm, Live
<1>3. ASSUME Bounded', NEW e \in Env, env_free(e) PROVE CountedKept
  BY <1>3, FreeStep
<1>4. ASSUME Bounded', NEW e \in Env, NEW va \in VA, MemAlloc(e, va) PROVE CountedKept
  BY <1>4, AllocInsertable, InsertStep DEF MemAlloc
<1>5. ASSUME Bounded', NEW e \in Env, NEW va \in VA, MemUnmap(e, va) PROVE CountedKept
  BY <1>5, RemoveStep DEF MemUnmap
<1>6. ASSUME Bounded', MemAllocBadEnv PROVE CountedKept
  BY <1>6, ShrinkStep DEF MemAllocBadEnv
<1>7. ASSUME Bounded', NEW src \in Env, NEW dst \in Env, NEW srcva \in VA, NEW dstva \in VA,
             MemMap(src, srcva, dst, dstva)
      PROVE  CountedKept
  BY <1>7, LookupInsertable, InsertStep DEF MemMap
<1> QED
  BY <1>1, <1>2, <1>3, <1>4, <1>5, <1>6, <1>7 DEF Next

(* As long as no page has more pointers than its 16-bit count can hold,    *)
(* the reference counts, the free list and the tables agree for ever.      *)
THEOREM PmapSafety == BoundedSpec => []IInv
<1>1. Init => IInv
  BY InitInv
<1>2. IInv /\ [Next /\ Bounded']_pmapVars => IInv'
  BY NextInv
<1> QED
  BY <1>1, <1>2, PTL DEF BoundedSpec

(* The free list, the counts, the directories and the tables stay well     *)
(* formed.                                                                 *)
THEOREM PmapTypeCorrect == BoundedSpec => []TypeOK
<1>1. IInv => TypeOK
  BY DEF IInv
<1> QED
  BY <1>1, PmapSafety, PTL

(* pp_ref counts the pointers to the page, for any number of pages,        *)
(* environments and addresses.                                             *)
THEOREM PmapRefCount == BoundedSpec => []RefCountExact
<1>1. IInv => RefCountExact
  BY DEF IInv
<1> QED
  BY <1>1, PmapSafety, PTL

(* page_alloc never hands out a page that somebody still uses.             *)
THEOREM PmapFreeUnused == BoundedSpec => []FreeUnused
<1>1. IInv => FreeUnused
  BY DEF IInv
<1> QED
  BY <1>1, PmapSafety, PTL

(* Page tables and directories are never shared and never user memory.     *)
THEOREM PmapTables == BoundedSpec => []TablesSound
<1>1. IInv => TablesSound
  BY DEF IInv, TablesSound
<1> QED
  BY <1>1, PmapSafety, PTL

(***************************************************************************)
(* The step that removes the last pointer to a page frees the page.        *)
(***************************************************************************)

(* A page that page_insert takes the last pointer from becomes free.       *)
LEMMA LastUnmapInsert ==
    ASSUME IInv, NEW e \in Env, NEW va \in VA, NEW p, NEW avail, Insertable(avail, p), Live(e),
           page_insert(avail, e, p, va), UNCHANGED pgdir, Bounded',
           NEW q \in Page \ {ZeroPage}, NRefs(q) > 0, NRefs(q)' = 0
    PROVE  q \in free'
<1> DEFINE s == <<e, va>>
           old == pte[s]
<1>1. s \in Env \X VA /\ p # NoPage /\ p \in Page /\ TypeOK /\ q # NoPage
  BY NoPageNotPage DEF Insertable, IInv
<1>2. CASE InsertKeepTable(avail, e, p, va)
  <2>1. pte' = [pte EXCEPT ![s] = p] /\ UNCHANGED pde
    BY <1>2 DEF InsertKeepTable, ReplaceEntry
  <2>2. /\ p = q /\ old = q => NRefs(q)' = NRefs(q)
        /\ p # q /\ old # q => NRefs(q)' = NRefs(q)
        /\ p = q /\ old # q => NRefs(q)' = NRefs(q) + 1
        /\ p # q /\ old = q => NRefs(q)' = NRefs(q) - 1
        /\ old = q => NRefs(q) > 0
        /\ NRefs(q) \in Nat /\ NRefs(q)' \in Nat
    <3> HIDE DEF s
    <3> QED
      BY <1>1, <2>1, RefsNext
  <2>3. q = old /\ q # p /\ NRefs(q) = 1
    BY <2>2
  <2>4. ppref[q] = 1
    BY <1>1, <2>3, MappedPage DEF Pinned
  <2> DEFINE r == [ppref EXCEPT ![p] = Inc(@)]
  <2>5. r[q] = 1
    BY <1>1, <2>3, <2>4 DEF TypeOK
  <2>6. /\ ppref' = [r EXCEPT ![q] = Dec(@)]
        /\ free' = IF ppref'[q] = 0 THEN avail \cup {q} ELSE avail
    BY <1>1, <1>2, <2>3 DEF InsertKeepTable, ReplaceEntry
  <2>7. q \in DOMAIN r
    BY <1>1 DEF TypeOK
  <2> HIDE DEF r
  <2>8. ppref'[q] = 0
    BY <2>5, <2>6, <2>7 DEF Dec
  <2> QED
    BY <2>6, <2>8
<1>3. CASE InsertNewTable(avail, e, p, va)
  <2> DEFINE d == <<e, PDX[va]>>
  <2>1. pde[d] = NoPage /\ pte[s] = NoPage /\ d \in Env \X PD
    BY <1>3, PmapAssumption DEF InsertNewTable, IInv, TablesRooted, PmapAssumption
  <2>2. PICK t \in avail : pde' = [pde EXCEPT ![d] = t] /\ pte' = [pte EXCEPT ![s] = p]
    BY <1>3 DEF InsertNewTable, ReplaceEntry
  <2> HIDE DEF s, d
  <2>3. PteN(q)' = PteN(q) \/ PteN(q)' = PteN(q) + 1
    BY <1>1, <2>1, <2>2, PteWrite
  <2>4. PdeN(q)' = PdeN(q) \/ PdeN(q)' = PdeN(q) + 1
    BY <1>1, <2>1, <2>2, PdeFill
  <2>5. PteN(q) \in Nat /\ PdeN(q) \in Nat /\ NRefs(q) = PteN(q) + PdeN(q)
    BY CountTypes
  <2>6. NRefs(q)' = PteN(q)' + PdeN(q)'
    BY CountTypesNext
  <2> QED
    BY <2>3, <2>4, <2>5, <2>6
<1>4. CASE InsertNoMem(avail, e, p, va)
  <2>1. NRefs(q)' = NRefs(q)
    BY <1>4 DEF InsertNoMem, NRefs, PteRefs, PdeRefs
  <2> QED
    BY <2>1
<1> QED
  BY <1>2, <1>3, <1>4 DEF page_insert

(* A page that page_remove takes the last pointer from becomes free.       *)
LEMMA LastUnmapRemove ==
    ASSUME IInv, NEW e \in Env, NEW va \in VA, page_remove(e, va),
           NEW q \in Page \ {ZeroPage}, NRefs(q) > 0, NRefs(q)' = 0
    PROVE  q \in free'
<1> DEFINE s == <<e, va>>
           old == pte[s]
<1>1. s \in Env \X VA /\ TypeOK /\ q # NoPage /\ old # NoPage
  BY NoPageNotPage DEF IInv, page_remove
<1>2. pte' = [pte EXCEPT ![s] = NoPage] /\ UNCHANGED pde
  BY DEF page_remove
<1>3. /\ NoPage = q /\ old = q => NRefs(q)' = NRefs(q)
      /\ NoPage # q /\ old # q => NRefs(q)' = NRefs(q)
      /\ NoPage = q /\ old # q => NRefs(q)' = NRefs(q) + 1
      /\ NoPage # q /\ old = q => NRefs(q)' = NRefs(q) - 1
      /\ old = q => NRefs(q) > 0
      /\ NRefs(q) \in Nat /\ NRefs(q)' \in Nat
  <2>1. s \in Env \X VA /\ TypeOK /\ pte' = [pte EXCEPT ![s] = NoPage] /\ UNCHANGED pde
    BY <1>1, <1>2
  <2> HIDE DEF s
  <2> QED
    BY <2>1, RefsNext
<1>4. q = old /\ NRefs(q) = 1
  BY <1>1, <1>3
<1>5. ppref[q] = 1
  BY <1>1, <1>4, MappedPage DEF Pinned
<1>6. /\ ppref' = [ppref EXCEPT ![q] = Dec(@)]
      /\ free' = IF ppref'[q] = 0 THEN free \cup {q} ELSE free
  BY <1>4 DEF page_remove
<1>7. q \in DOMAIN ppref
  BY <1>1 DEF TypeOK
<1>8. ppref'[q] = 0
  BY <1>5, <1>6, <1>7 DEF Dec
<1> QED
  BY <1>6, <1>8

(* A page that env_free takes the last pointer from becomes free.          *)
LEMMA LastUnmapFree ==
    ASSUME IInv, NEW e \in Env, env_free(e),
           NEW q \in Page \ {ZeroPage}, NRefs(q) > 0, NRefs(q)' = 0
    PROVE  q \in free'
<1>1. ~ Dir(q)
  BY DirUncounted
<1>2. ppref[q] = NRefs(q) + Pinned(q) /\ pgdir[e] # q
  BY <1>1 DEF Dir, IInv, RefCountExact, LostDir
<1>3. q \in Freed(e)
  BY <1>2, FreeEffect DEF Pinned
<1> QED
  BY <1>3 DEF env_free

(* Whichever operation takes away the last pointer to a page puts the page *)
(* on the free list: no leak but the known ones.                           *)
THEOREM PmapLastUnmap == BoundedSpec => LastUnmapFrees
<1>1. IInv /\ [Next /\ Bounded']_pmapVars => [FreesLast]_pmapVars
  <2> SUFFICES ASSUME IInv, Next, Bounded', NEW q \in Page \ {ZeroPage},
                      NRefs(q) > 0, NRefs(q)' = 0
               PROVE  q \in free'
    BY DEF FreesLast
  <2>1. ASSUME NEW e \in Env, env_setup_vm(e) PROVE q \in free'
    <3>1. NRefs(q)' = NRefs(q)
      BY <2>1 DEF env_setup_vm, NRefs, PteRefs, PdeRefs
    <3> QED
      BY <3>1
  <2>2. ASSUME NEW e \in Env, env_free(e) PROVE q \in free'
    BY <2>2, LastUnmapFree
  <2>3. ASSUME NEW e \in Env, NEW va \in VA, MemAlloc(e, va) PROVE q \in free'
    BY <2>3, AllocInsertable, LastUnmapInsert DEF MemAlloc
  <2>4. ASSUME NEW e \in Env, NEW va \in VA, MemUnmap(e, va) PROVE q \in free'
    BY <2>4, LastUnmapRemove DEF MemUnmap
  <2>5. ASSUME MemAllocBadEnv PROVE q \in free'
    <3>1. NRefs(q)' = NRefs(q)
      BY <2>5 DEF MemAllocBadEnv, NRefs, PteRefs, PdeRefs
    <3> QED
      BY <3>1
  <2>6. ASSUME NEW src \in Env, NEW dst \in Env, NEW srcva \in VA, NEW dstva \in VA,
               MemMap(src, srcva, dst, dstva)
        PROVE  q \in free'
    BY <2>6, LookupInsertable, LastUnmapInsert DEF MemMap
  <2> QED
    BY <2>1, <2>2, <2>3, <2>4, <2>5, <2>6 DEF Next
<1> QED
  BY <1>1, PmapSafety, PTL DEF BoundedSpec, LastUnmapFrees

(***************************************************************************)
(* Pmap implements the abstract address spaces.                            *)
(***************************************************************************)

(* Seen from outside, page_insert maps one page or does nothing.           *)
LEMMA InsertView ==
    ASSUME NEW e \in Env, NEW va \in VA, NEW p, NEW avail, page_insert(avail, e, p, va)
    PROVE  pte' = [pte EXCEPT ![<<e, va>>] = p] \/ UNCHANGED pte
BY DEF page_insert, InsertKeepTable, InsertNewTable, InsertNoMem, ReplaceEntry

(* Every operation is a step of AddrSpace, or none.                        *)
LEMMA StepImplements ==
    ASSUME IInv, Next
    PROVE  [AS!Next]_(AS!absVars)
<1> DEFINE live == {e \in Env : Live(e)}
<1>1. ASSUME NEW e \in Env, env_setup_vm(e) PROVE AS!Create(e)
  <2>1. PICK p \in free : pgdir' = [pgdir EXCEPT ![e] = p]
    BY <1>1 DEF env_setup_vm
  <2>2. p # NoPage
    BY FreePage, NoPageNotPage
  <2> QED
    BY <1>1, <2>1, <2>2 DEF AS!Create, env_setup_vm, Live, IInv, TypeOK
<1>2. ASSUME NEW e \in Env, env_free(e) PROVE AS!Destroy(e)
  BY <1>2 DEF AS!Destroy, env_free, Live, IInv, TypeOK
<1>3. ASSUME NEW e \in Env, NEW va \in VA, MemAlloc(e, va)
      PROVE  AS!Alloc(e, va) \/ UNCHANGED AS!absVars
  <2>1. PICK p \in free : page_insert(free \ {p}, e, p, va)
    BY <1>3 DEF MemAlloc
  <2>2. p \in Page \ {ZeroPage} /\ ~ AS!Visible(p)
    BY FreePage DEF PteRefs, AS!Visible
  <2>3. UNCHANGED live /\ e \in live
    BY <1>3 DEF MemAlloc, Live
  <2> QED
    BY <2>1, <2>2, <2>3, InsertView DEF AS!Alloc, AS!absVars
<1>4. ASSUME NEW e \in Env, NEW va \in VA, MemUnmap(e, va) PROVE AS!Unmap(e, va)
  BY <1>4 DEF AS!Unmap, MemUnmap, page_remove, Live
<1>5. ASSUME MemAllocBadEnv PROVE UNCHANGED AS!absVars
  BY <1>5 DEF MemAllocBadEnv, AS!absVars, Live
<1>6. ASSUME NEW src \in Env, NEW dst \in Env, NEW srcva \in VA, NEW dstva \in VA,
             MemMap(src, srcva, dst, dstva)
      PROVE  AS!Share(src, srcva, dst, dstva) \/ UNCHANGED AS!absVars
  <2>1. page_insert(free, dst, page_lookup(src, srcva), dstva)
    BY <1>6 DEF MemMap
  <2>2. page_lookup(src, srcva) = IF pte[src, srcva] = NoPage THEN ZeroPage ELSE pte[src, srcva]
    BY <1>6 DEF MemMap, page_lookup, IInv, TablesRooted
  <2>3. UNCHANGED live /\ {src, dst} \subseteq live
    BY <1>6 DEF MemMap, Live
  <2> QED
    BY <2>1, <2>2, <2>3, InsertView DEF AS!Share, AS!absVars
<1> QED
  BY <1>1, <1>2, <1>3, <1>4, <1>5, <1>6 DEF Next, AS!Next

(* For programs, the reference counted pages are the abstract address      *)
(* spaces: no call shows through to another environment, and no allocation *)
(* hands out memory somebody still sees.                                   *)
THEOREM PmapImplements == BoundedSpec => ImplementsAddrSpace
<1>1. Init => AS!Init
  BY DEF Init, AS!Init, Live
<1>2. IInv /\ [Next /\ Bounded']_pmapVars => [AS!Next]_(AS!absVars)
  <2>1. CASE UNCHANGED pmapVars
    BY <2>1 DEF pmapVars, AS!absVars, Live
  <2> QED
    BY <2>1, StepImplements
<1> QED
  BY <1>1, <1>2, PmapSafety, PTL DEF BoundedSpec, ImplementsAddrSpace, AS!Spec
=============================================================================
