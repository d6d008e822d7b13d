---------------------------- MODULE CowForkProofs ----------------------------
(***************************************************************************)
(* Proofs about CowFork, for any environments, frames, values and pages.   *)
(***************************************************************************)
EXTENDS CowFork, TLAPS

----------------------------------------------------------------------------
(* The inductive invariant.                                                *)

(* An environment in fork or spawn has a child of its own that is made and *)
(* does nothing.                                                           *)
JobOK ==
    \A e \in Env :
        /\ st[e] \in {"free", "made"} => job[e].at = "idle" /\ flt[e].at = "none"
        /\ job[e].at # "idle" =>
            /\ job[e].child \in Env \ {e} /\ st[job[e].child] = "made"
            /\ \A d \in Env \ {e} : job[d].at # "idle" => job[d].child # job[e].child

(* A half-done duppage: both pages are in one frame, and no fault comes    *)
(* between.                                                                *)
HalfOK ==
    \A e \in Env : job[e].half # Tmp =>
        /\ job[e].at = "dup" /\ job[e].half \in VPage /\ flt[e].at = "none"
        /\ pt[e][Stack].p # "cow"
        /\ pt[e][job[e].half].p \in {"w", "cow"}
        /\ pt[job[e].child][job[e].half].f = pt[e][job[e].half].f
        /\ pt[job[e].child][job[e].half].p = "cow"

Alone(e, v) ==
    /\ pt[e][v].p = "w"
    /\ \A d \in Env, w \in Va : pt[d][w].f = pt[e][v].f => d = e /\ w = v

(* pgfault copies a copy-on-write page; its new page is nobody else's      *)
(* until it replaces the old one.                                          *)
FltOK ==
    \A e \in Env :
        /\ flt[e].at # "none" => flt[e].va \in VPage \ {TMPPAGE}
        /\ flt[e].at \in {"alloc", "copy", "map"} => pt[e][flt[e].va].p = "cow"
        /\ flt[e].at \in {"none", "alloc"} => pt[e][Tmp].p = "none"
        /\ flt[e].at \in {"copy", "map"} => Alone(e, Tmp)

(* So is spawn's, until it goes to the child.                              *)
SpawnOK ==
    \A e \in Env :
        /\ pt[e][TMPPAGE].p \in {"none", "w", "cow"}
        /\ job[e].at \in {"stackmap", "datamap"} => Alone(e, TMPPAGE)

(* A fork in progress has set the parent's handler.  A child that is about *)
(* to start, or is made by spawn, has a handler or needs none.             *)
HandlerOK ==
    /\ CowHasHandler
    /\ \A e \in Env :
        /\ job[e].at \in {"dup", "handler"} => handler[e]
        /\ job[e].at \notin {"idle", "dup", "handler"} =>
                \A v \in VPage : pt[job[e].child][v].p = "cow" => handler[job[e].child]

CowInv == CowTypeOK /\ JobOK /\ HalfOK /\ FltOK /\ SpawnOK /\ WritableIsPrivate /\ HandlerOK

----------------------------------------------------------------------------
(* What the system calls do to the page tables.                            *)

(* Mapping a page changes that page only.                                  *)
LEMMA MapsIs ==
    ASSUME CowTypeOK, NEW e \in Env, NEW v \in Va, NEW pte \in Pte, Maps(e, v, pte)
    PROVE  /\ pt' \in [Env -> [Va -> Pte]]
           /\ \A d \in Env, w \in Va : pt'[d][w] = IF d = e /\ w = v THEN pte ELSE pt[d][w]
BY DEF Maps, CowTypeOK, Pte

(* An allocated page is nobody else's.                                     *)
LEMMA AllocIs ==
    ASSUME CowTypeOK, NEW e \in Env, NEW v \in Va, Alloc(e, v)
    PROVE  /\ frame' \in [Frame -> Value]
           /\ pt' \in [Env -> [Va -> Pte]]
           /\ \E g \in Frame :
                /\ Unmapped(g)
                /\ \A d \in Env, w \in Va :
                    pt'[d][w] = IF d = e /\ w = v THEN [f |-> g, p |-> "w"] ELSE pt[d][w]
<1>1. PICK g \in Frame, x \in Value :
        Unmapped(g) /\ frame' = [frame EXCEPT ![g] = x] /\ Maps(e, v, [f |-> g, p |-> "w"])
    BY DEF Alloc
<1>2. [f |-> g, p |-> "w"] \in Pte
    BY DEF Pte, Perm
<1>3. frame' \in [Frame -> Value]
    BY <1>1 DEF CowTypeOK
<1> QED BY <1>1, <1>2, <1>3, MapsIs

(* A page of the program is not the one where pgfault builds a copy.       *)
LEMMA VPages == VPage \subseteq Va /\ Tmp \in Va /\ Tmp \notin VPage
BY CowAssumption DEF Va

----------------------------------------------------------------------------
(* Each action preserves the invariant.                                    *)

(* What CowTypeOK says of a single page.                                   *)
LEMMA PtesOK ==
    ASSUME CowTypeOK
    PROVE  \A d \in Env, w \in Va : /\ pt[d][w].p = "none" <=> pt[d][w].f = NoFrame
                                    /\ st[d] = "free" => pt[d][w] = NoPte
BY DEF CowTypeOK

(* HandlerOK needs only that no page becomes copy-on-write.                *)
LEMMA KeepHandlerOK ==
    ASSUME HandlerOK, JobOK, st' = st, handler' = handler, job' = job,
           \A d \in Env, v \in VPage : pt'[d][v].p = "cow" => pt[d][v].p = "cow"
    PROVE  HandlerOK'
<1>1. CowHasHandler'
  BY DEF HandlerOK, CowHasHandler
<1>2. ASSUME NEW d \in Env, job[d].at \notin {"idle", "dup", "handler"}, NEW v \in VPage,
             pt'[job[d].child][v].p = "cow"
      PROVE  handler[job[d].child]
  <2>1. job[d].child \in Env
    BY <1>2 DEF JobOK
  <2> QED BY <1>2, <2>1 DEF HandlerOK
<1> QED BY <1>1, <1>2 DEF HandlerOK

(* Nor does what a running environment does to its own pages, between its  *)
(* duppages, concern those of another.                                     *)
LEMMA KeepHalfOK ==
    ASSUME HalfOK, JobOK, NEW e \in Env, st[e] = "run", job[e].half = Tmp, job' = job,
           \A d \in Env : d # e => flt'[d] = flt[d],
           \A d \in Env, v \in Va : d # e => pt'[d][v] = pt[d][v]
    PROVE  HalfOK'
<1>1. Stack \in Va
  BY CowAssumption, VPages
<1>2. ASSUME NEW d \in Env, job[d].half # Tmp
      PROVE  /\ job[d].at = "dup" /\ job[d].half \in VPage /\ flt'[d].at = "none"
             /\ pt'[d][Stack].p # "cow"
             /\ pt'[d][job[d].half].p \in {"w", "cow"}
             /\ pt'[job[d].child][job[d].half].f = pt'[d][job[d].half].f
             /\ pt'[job[d].child][job[d].half].p = "cow"
  <2>1. d # e /\ job[d].at = "dup" /\ job[d].half \in VPage
    BY <1>2 DEF HalfOK
  <2>2. job[d].child \in Env /\ job[d].child # e
    BY <2>1 DEF JobOK
  <2>3. pt'[d][Stack] = pt[d][Stack] /\ pt'[d][job[d].half] = pt[d][job[d].half]
    BY <1>1, <2>1, VPages
  <2>4. pt'[job[d].child][job[d].half] = pt[job[d].child][job[d].half]
    BY <2>1, <2>2, VPages
  <2> QED BY <1>2, <2>1, <2>3, <2>4 DEF HalfOK
<1> QED BY <1>2 DEF HalfOK

(* A panic stops the environment where it is.                              *)
LEMMA PanicInv ==
    ASSUME CowInv, NEW e \in Env, st[e] = "run", panic(e)
    PROVE  CowInv'
<1>1. CowTypeOK' BY DEF CowInv, CowTypeOK, panic
<1>2. JobOK' BY DEF CowInv, CowTypeOK, JobOK, panic
<1>3. HalfOK' BY DEF CowInv, HalfOK, panic
<1>4. FltOK' /\ SpawnOK' BY DEF CowInv, FltOK, SpawnOK, Alone, panic
<1>5. WritableIsPrivate' BY DEF CowInv, WritableIsPrivate, Excused, panic
<1>6. HandlerOK' BY DEF CowInv, CowTypeOK, HandlerOK, CowHasHandler, panic
<1> QED BY <1>1, <1>2, <1>3, <1>4, <1>5, <1>6 DEF CowInv

(* A step that leaves the page tables alone, and only moves an environment *)
(* on in its fork or spawn.                                                *)
LEMMA DoneIs ==
    ASSUME CowTypeOK, NEW e \in Env, NEW v, Done(e, v)
    PROVE  /\ job' \in [Env -> Job]
           /\ \A d \in Env : job'[d].at = job[d].at /\ job'[d].child = job[d].child /\ job'[d].half = job[d].half
<1> DEFINE j == [job[e] EXCEPT !.todo = @ \ {v}]
<1>1. job \in [Env -> Job] /\ job[e] \in Job
  BY DEF CowTypeOK
<1>2. j \in Job /\ j.at = job[e].at /\ j.child = job[e].child /\ j.half = job[e].half
  BY <1>1 DEF Job
<1>3. job' = [job EXCEPT ![e] = j]
  BY <1>1 DEF Done
<1> HIDE DEF j
<1> QED BY ONLY <1>1, <1>2, <1>3

(* duppage, the child's half.                                              *)
LEMMA DupChildInv ==
    ASSUME CowInv, NEW e \in Env, NEW v \in VPage, dup_child(e, v)
    PROVE  CowInv'
<1> DEFINE c == job[e].child
           q == pt[e][v].p
<1>1. /\ st[e] = "run" /\ flt[e].at = "none" /\ job[e].at = "dup" /\ job[e].half = Tmp /\ v \in job[e].todo
      /\ pt[e][Stack].p # "cow" /\ c \in Env \ {e} /\ st[c] = "made" /\ job[c].at = "idle" /\ flt[c].at = "none"
    BY DEF dup_child, In, Runs, CowInv, JobOK
<1>2. CASE UNCHANGED pt /\ Done(e, v) /\ UNCHANGED <<frame, st, handler, flt>>
  <2>j. /\ job' \in [Env -> Job]
        /\ \A d \in Env : job'[d].at = job[d].at /\ job'[d].child = job[d].child /\ job'[d].half = job[d].half
    BY <1>2, DoneIs DEF CowInv
  <2>1. CowTypeOK' BY <1>1, <1>2, <2>j DEF CowInv, CowTypeOK
  <2>2. JobOK' BY <1>2, <2>j DEF CowInv, JobOK
  <2>3. HalfOK' BY <1>2, <2>j DEF CowInv, HalfOK
  <2>4. FltOK' /\ SpawnOK' BY <1>2, <2>j DEF CowInv, FltOK, SpawnOK, Alone
  <2>5. WritableIsPrivate' BY <1>2, <2>j DEF CowInv, WritableIsPrivate, Excused
  <2>6. HandlerOK' BY <1>2, <2>j DEF CowInv, HandlerOK, CowHasHandler
  <2> QED BY <2>1, <2>2, <2>3, <2>4, <2>5, <2>6 DEF CowInv
<1>3. CASE q \in {"lib", "ro"} /\ Done(e, v) /\ Maps(c, v, pt[e][v]) /\ UNCHANGED <<frame, st, handler, flt>>
  <2>0. /\ pt' \in [Env -> [Va -> Pte]]
        /\ \A d \in Env, w \in Va : pt'[d][w] = IF d = c /\ w = v THEN pt[e][v] ELSE pt[d][w]
    <3>1. pt[e][v] \in Pte BY VPages DEF CowInv, CowTypeOK
    <3> QED BY <1>1, <1>3, <3>1, VPages, MapsIs DEF CowInv
  <2>j. /\ job' \in [Env -> Job]
        /\ \A d \in Env : job'[d].at = job[d].at /\ job'[d].child = job[d].child /\ job'[d].half = job[d].half
    BY <1>3, DoneIs DEF CowInv
  <2>t. v # TMPPAGE BY <1>3 DEF CowInv, SpawnOK
  <2>1. CowTypeOK'
    <3>1. \A d \in Env, w \in Va : /\ pt[d][w].p = "none" <=> pt[d][w].f = NoFrame
                                   /\ st[d] = "free" => pt[d][w] = NoPte
      BY DEF CowInv, CowTypeOK
    <3>2. \A d \in Env, w \in Va : /\ pt'[d][w].p = "none" <=> pt'[d][w].f = NoFrame
                                   /\ st'[d] = "free" => pt'[d][w] = NoPte
      BY <1>1, <1>3, <2>0, <3>1, VPages
    <3> QED BY <1>3, <2>0, <2>j, <3>2 DEF CowInv, CowTypeOK
  <2>2. JobOK' BY <1>3, <2>j DEF CowInv, JobOK
  <2>3. HalfOK' BY <1>1, <1>3, <2>0, <2>j, VPages, CowAssumption DEF CowInv, HalfOK, JobOK
  <2>4. FltOK' BY <1>1, <1>3, <2>0, VPages DEF CowInv, FltOK, Alone
  <2>5. SpawnOK' BY <1>1, <1>3, <2>0, <2>j, <2>t, VPages, CowAssumption DEF CowInv, SpawnOK, Alone
  <2>6. WritableIsPrivate'
    <3> SUFFICES ASSUME NEW x \in Env, NEW y \in Env, NEW a \in Va, NEW b \in Va,
                        pt'[x][a].p = "w", pt'[y][b].f = pt'[x][a].f, x # y \/ a # b
                 PROVE  Excused(x, a, y, b)'
      BY DEF WritableIsPrivate
    <3>1. ~ (x = c /\ a = v) /\ pt'[x][a] = pt[x][a]
      BY <1>3, <2>0
    <3>2. CASE y = c /\ b = v
      <4>1. pt[e][v].f = pt[x][a].f
        BY <2>0, <3>1, <3>2
      <4>2. Excused(x, a, e, v) \/ (x = e /\ a = v)
        BY <3>1, <4>1, VPages DEF CowInv, WritableIsPrivate
      <4>3. a = TMPPAGE \/ v = TMPPAGE \/ (x = e /\ a = v)
        BY <1>1, <4>2 DEF Excused, CowInv, HalfOK, JobOK
      <4> QED BY <1>3, <2>j, <3>1, <3>2, <4>3, VPages DEF Excused
    <3>3. CASE ~ (y = c /\ b = v)
      <4>1. Excused(x, a, y, b)
        BY <2>0, <3>1, <3>3 DEF CowInv, WritableIsPrivate
      <4> QED BY <1>1, <1>3, <2>j, <4>1 DEF Excused
    <3> QED BY <3>2, <3>3
  <2>7. HandlerOK'
    <3>1. CowHasHandler'
      <4> SUFFICES ASSUME NEW d \in Env, st'[d] = "run", NEW w \in VPage, pt'[d][w].p = "cow"
                   PROVE  handler'[d]
        BY DEF CowHasHandler
      <4>1. st[d] = "run" /\ d # c /\ handler' = handler
        BY <1>1, <1>3
      <4>2. pt[d][w].p = "cow"
        BY <2>0, <4>1, VPages
      <4> QED BY <4>1, <4>2 DEF CowInv, HandlerOK, CowHasHandler
    <3>2. \A d \in Env : job[d].at # "idle" => job[d].child \in Env /\ (job[d].child = c => d = e)
      BY <1>1 DEF CowInv, JobOK
    <3>3. \A d \in Env : job'[d].at \in {"dup", "handler"} => handler'[d]
      BY <1>3, <2>j DEF CowInv, HandlerOK
    <3>4. ASSUME NEW d \in Env, job'[d].at \notin {"idle", "dup", "handler"}, NEW w \in VPage,
                 pt'[job'[d].child][w].p = "cow"
          PROVE  handler'[job'[d].child]
      <4>1. d # e /\ job'[d].child = job[d].child /\ job[d].child \in Env /\ job[d].child # c
        BY <1>1, <2>j, <3>2, <3>4
      <4>2. pt[job[d].child][w].p = "cow"
        BY <2>0, <3>4, <4>1, VPages
      <4> QED BY <1>3, <2>j, <3>4, <4>1, <4>2 DEF CowInv, HandlerOK
    <3> QED BY <3>1, <3>3, <3>4 DEF HandlerOK
  <2> QED BY <2>1, <2>2, <2>3, <2>4, <2>5, <2>6, <2>7 DEF CowInv
<1>4. CASE q \in {"w", "cow"} /\ Maps(c, v, [f |-> pt[e][v].f, p |-> "cow"])
           /\ job' = [job EXCEPT ![e].half = v] /\ UNCHANGED <<frame, st, handler, flt>>
  <2>0. /\ pt' \in [Env -> [Va -> Pte]]
        /\ \A d \in Env, w \in Va :
            /\ pt'[d][w].f = IF d = c /\ w = v THEN pt[e][v].f ELSE pt[d][w].f
            /\ pt'[d][w].p = IF d = c /\ w = v THEN "cow" ELSE pt[d][w].p
            /\ d # c => pt'[d][w] = pt[d][w]
    <3>1. [f |-> pt[e][v].f, p |-> "cow"] \in Pte BY VPages DEF CowInv, CowTypeOK, Pte, Perm
    <3> QED BY <1>1, <1>4, <3>1, VPages, MapsIs DEF CowInv
  <2>j. /\ job' \in [Env -> Job]
        /\ \A d \in Env : /\ job'[d].at = job[d].at /\ job'[d].child = job[d].child
                         /\ job'[d].half = IF d = e THEN v ELSE job[d].half
    <3>1. v \in Va
      BY VPages
    <3>0. job[e] \in Job
      BY DEF CowInv, CowTypeOK
    <3>2. [job[e] EXCEPT !.half = v] \in Job
      BY ONLY <3>0, <3>1 DEF Job
    <3>3. \A d \in Env : job'[d] = IF d = e THEN [job[e] EXCEPT !.half = v] ELSE job[d]
      BY <1>4 DEF CowInv, CowTypeOK
    <3>4. job' = [d \in Env |-> IF d = e THEN [job[e] EXCEPT !.half = v] ELSE job[d]]
      BY <1>4 DEF CowInv, CowTypeOK
    <3>5. job' \in [Env -> Job]
      BY <3>2, <3>4 DEF CowInv, CowTypeOK
    <3> QED BY <3>3, <3>5 DEF CowInv, CowTypeOK, Job
  <2>1. CowTypeOK'
    <3>1. \A d \in Env, w \in Va : /\ pt[d][w].p = "none" <=> pt[d][w].f = NoFrame
                                   /\ st[d] = "free" => pt[d][w] = NoPte
      BY DEF CowInv, CowTypeOK
    <3>2. \A d \in Env, w \in Va : /\ pt'[d][w].p = "none" <=> pt'[d][w].f = NoFrame
                                   /\ st'[d] = "free" => pt'[d][w] = NoPte
      BY <1>1, <1>4, <2>0, <3>1, VPages
    <3> QED BY <1>4, <2>0, <2>j, <3>2 DEF CowInv, CowTypeOK
  <2>2. JobOK' BY <1>4, <2>j DEF CowInv, JobOK
  <2>3. HalfOK'
    <3> SUFFICES ASSUME NEW d \in Env, job'[d].half # Tmp
                 PROVE  /\ job'[d].at = "dup" /\ job'[d].half \in VPage /\ flt'[d].at = "none"
                        /\ pt'[d][Stack].p # "cow"
                        /\ pt'[d][job'[d].half].p \in {"w", "cow"}
                        /\ pt'[job'[d].child][job'[d].half].f = pt'[d][job'[d].half].f
                        /\ pt'[job'[d].child][job'[d].half].p = "cow"
      BY DEF HalfOK
    <3>1. Stack \in Va
      BY CowAssumption, VPages
    <3>2. CASE d = e
      BY <1>1, <1>4, <2>0, <2>j, <3>1, <3>2, VPages
    <3>3. CASE d # e
      <4>1. d # c /\ job[d].half # Tmp /\ job[d].child # c /\ job[d].child \in Env
        BY <1>1, <2>j, <3>3 DEF CowInv, HalfOK, JobOK
      <4>2. /\ job[d].at = "dup" /\ job[d].half \in VPage /\ flt[d].at = "none"
            /\ pt[d][Stack].p # "cow" /\ pt[d][job[d].half].p \in {"w", "cow"}
            /\ pt[job[d].child][job[d].half].f = pt[d][job[d].half].f
            /\ pt[job[d].child][job[d].half].p = "cow"
        BY <4>1 DEF CowInv, HalfOK
      <4>3. job'[d].at = "dup" /\ job'[d].half = job[d].half /\ job'[d].child = job[d].child
        BY <2>j, <3>3, <4>2
      <4>4. /\ pt'[d][Stack] = pt[d][Stack] /\ pt'[d][job[d].half] = pt[d][job[d].half]
            /\ pt'[job[d].child][job[d].half] = pt[job[d].child][job[d].half]
        BY <2>0, <3>1, <4>1, <4>2, VPages
      <4> QED BY <1>4, <4>2, <4>3, <4>4
    <3> QED BY <3>2, <3>3
  <2>4. FltOK' BY <1>1, <1>4, <2>0, VPages DEF CowInv, FltOK, Alone
  <2>5. SpawnOK' BY <1>1, <1>4, <2>0, <2>j, VPages, CowAssumption DEF CowInv, SpawnOK, Alone
  <2>6. WritableIsPrivate'
    <3> SUFFICES ASSUME NEW x \in Env, NEW y \in Env, NEW a \in Va, NEW b \in Va,
                        pt'[x][a].p = "w", pt'[y][b].f = pt'[x][a].f, x # y \/ a # b
                 PROVE  Excused(x, a, y, b)'
      BY DEF WritableIsPrivate
    <3>1. ~ (x = c /\ a = v) /\ pt'[x][a].p = pt[x][a].p /\ pt'[x][a].f = pt[x][a].f
      BY <1>4, <2>0
    <3>2. CASE y = c /\ b = v
      <4>1. pt[e][v].f = pt[x][a].f
        BY <2>0, <3>1, <3>2
      <4>2. Excused(x, a, e, v) \/ (x = e /\ a = v)
        BY <3>1, <4>1, VPages DEF CowInv, WritableIsPrivate
      <4>3. a = TMPPAGE \/ v = TMPPAGE \/ (x = e /\ a = v)
        BY <1>1, <4>2 DEF Excused, CowInv, HalfOK, JobOK
      <4> QED BY <1>4, <2>j, <3>1, <3>2, <4>3, VPages DEF Excused
    <3>3. CASE ~ (y = c /\ b = v)
      <4>1. Excused(x, a, y, b)
        BY <2>0, <3>1, <3>3 DEF CowInv, WritableIsPrivate
      <4> QED BY <1>1, <1>4, <2>j, <4>1 DEF Excused
    <3> QED BY <3>2, <3>3
  <2>7. HandlerOK'
    <3>1. CowHasHandler'
      <4> SUFFICES ASSUME NEW d \in Env, st'[d] = "run", NEW w \in VPage, pt'[d][w].p = "cow"
                   PROVE  handler'[d]
        BY DEF CowHasHandler
      <4>1. st[d] = "run" /\ d # c /\ handler' = handler
        BY <1>1, <1>4
      <4>2. pt[d][w].p = "cow"
        BY <2>0, <4>1, VPages
      <4> QED BY <4>1, <4>2 DEF CowInv, HandlerOK, CowHasHandler
    <3>2. \A d \in Env : job[d].at # "idle" => job[d].child \in Env /\ (job[d].child = c => d = e)
      BY <1>1 DEF CowInv, JobOK
    <3>3. \A d \in Env : job'[d].at \in {"dup", "handler"} => handler'[d]
      BY <1>4, <2>j DEF CowInv, HandlerOK
    <3>4. ASSUME NEW d \in Env, job'[d].at \notin {"idle", "dup", "handler"}, NEW w \in VPage,
                 pt'[job'[d].child][w].p = "cow"
          PROVE  handler'[job'[d].child]
      <4>1. d # e /\ job'[d].child = job[d].child /\ job[d].child \in Env /\ job[d].child # c
        BY <1>1, <2>j, <3>2, <3>4
      <4>2. pt[job[d].child][w].p = "cow"
        BY <2>0, <3>4, <4>1, VPages
      <4> QED BY <1>4, <2>j, <3>4, <4>1, <4>2 DEF CowInv, HandlerOK
    <3> QED BY <3>1, <3>3, <3>4 DEF HandlerOK
  <2> QED BY <2>1, <2>2, <2>3, <2>4, <2>5, <2>6, <2>7 DEF CowInv
<1>5. CASE panic(e) BY <1>1, <1>5, PanicInv
<1> QED BY <1>2, <1>3, <1>4, <1>5 DEF dup_child

(* The call returns an error: nothing but the job is forgotten.            *)
LEMMA ReturnsInv ==
    ASSUME CowInv, NEW e \in Env, In(e, job[e].at), job[e].half = Tmp, returns(e)
    PROVE  CowInv'
<1>1. st[e] = "run" /\ NoJob \in Job
  BY VPages DEF In, Runs, NoJob, Job
<1>2. /\ job' \in [Env -> Job]
      /\ \A d \in Env : job'[d] = IF d = e THEN NoJob ELSE job[d]
  BY <1>1 DEF returns, CowInv, CowTypeOK
<1>3. UNCHANGED <<frame, pt, st, handler, flt>> /\ NoJob.at = "idle" /\ NoJob.half = Tmp
  BY DEF returns, NoJob
<1>4. CowTypeOK'
  BY <1>2, <1>3 DEF CowInv, CowTypeOK
<1>5. JobOK'
  BY <1>2, <1>3 DEF CowInv, JobOK
<1>6. HalfOK'
  BY <1>2, <1>3 DEF CowInv, HalfOK
<1>7. FltOK' /\ SpawnOK'
  BY <1>2, <1>3 DEF CowInv, FltOK, SpawnOK, Alone
<1>8. WritableIsPrivate'
  <2> SUFFICES ASSUME NEW x \in Env, NEW y \in Env, NEW a \in Va, NEW b \in Va,
                      pt[x][a].p = "w", pt[y][b].f = pt[x][a].f, x # y \/ a # b
               PROVE  Excused(x, a, y, b)'
    BY <1>3 DEF WritableIsPrivate
  <2>1. Excused(x, a, y, b)
    BY DEF CowInv, WritableIsPrivate
  <2> QED BY <1>2, <1>3, <2>1 DEF Excused
<1>9. HandlerOK'
  BY <1>2, <1>3 DEF CowInv, HandlerOK, CowHasHandler
<1> QED BY <1>4, <1>5, <1>6, <1>7, <1>8, <1>9 DEF CowInv

(* A store changes a frame.                                                *)
LEMMA WriteInv ==
    ASSUME CowInv, NEW e \in Env, NEW v \in VPage, NEW x \in Value, write(e, v, x)
    PROVE  CowInv'
<1>1. frame' \in [Frame -> Value] /\ UNCHANGED <<pt, st, handler, job, flt>>
  BY DEF write, CowInv, CowTypeOK
<1>2. CowTypeOK' /\ JobOK'
  BY <1>1 DEF CowInv, CowTypeOK, JobOK
<1>3. HalfOK' /\ HandlerOK'
  BY <1>1 DEF CowInv, HalfOK, HandlerOK, CowHasHandler
<1>4. FltOK' /\ SpawnOK'
  BY <1>1 DEF CowInv, FltOK, SpawnOK, Alone
<1>5. WritableIsPrivate'
  BY <1>1 DEF CowInv, WritableIsPrivate, Excused
<1> QED BY <1>2, <1>3, <1>4, <1>5 DEF CowInv

(* The next step of pgfault, one that leaves the page tables alone.        *)
LEMMA CopyInv ==
    ASSUME CowInv, NEW e \in Env, pgfault_copy(e)
    PROVE  CowInv'
<1>1. /\ flt[e].at = "copy" /\ flt[e].va \in Va /\ pt[e][flt[e].va].p = "cow"
      /\ frame' = [frame EXCEPT ![pt[e][Tmp].f] = frame[pt[e][flt[e].va].f]]
      /\ flt' = [flt EXCEPT ![e].at = "map"] /\ UNCHANGED <<pt, st, handler, job>>
  BY DEF pgfault_copy, CowInv, CowTypeOK, FltOK, Fault
<1>2. pt[e][flt[e].va].f \in Frame
  BY <1>1 DEF CowInv, CowTypeOK, Pte
<1>3. frame' \in [Frame -> Value]
  BY <1>1, <1>2 DEF CowInv, CowTypeOK
<1>4. /\ flt' \in [Env -> Fault]
      /\ flt'[e].at = "map" /\ flt'[e].va = flt[e].va
      /\ \A d \in Env : d # e => flt'[d] = flt[d]
  BY <1>1 DEF CowInv, CowTypeOK, Fault
<1>5. CowTypeOK'
  BY <1>1, <1>3, <1>4 DEF CowInv, CowTypeOK
<1>6. JobOK'
  BY <1>1, <1>4 DEF CowInv, JobOK
<1>7. HalfOK'
  BY <1>1, <1>4 DEF CowInv, HalfOK
<1>8. FltOK' /\ SpawnOK'
  BY <1>1, <1>4 DEF CowInv, FltOK, SpawnOK, Alone
<1>9. WritableIsPrivate'
  BY <1>1, <1>4 DEF CowInv, WritableIsPrivate, Excused
<1>10. HandlerOK'
  BY <1>1 DEF CowInv, HandlerOK, CowHasHandler
<1> QED BY <1>5, <1>6, <1>7, <1>8, <1>9, <1>10 DEF CowInv

(* A fault: the environment is destroyed, or panics, or copies the page.   *)
LEMMA DestroyInv ==
    ASSUME CowInv, NEW e \in Env, Runs(e), destroy(e)
    PROVE  CowInv'
<1>1. /\ st[e] = "run" /\ flt[e].at = "none" /\ UNCHANGED <<frame, flt>> /\ NoJob \in Job
      /\ NoJob.at = "idle" /\ NoJob.half = Tmp /\ NoPte \in Pte /\ NoPte.p = "none" /\ NoPte.f = NoFrame
  BY VPages DEF destroy, Runs, NoJob, Job, NoPte, Pte, Perm
<1>2. /\ job' \in [Env -> Job]
      /\ \A d \in Env : job'[d] = IF d = e THEN NoJob ELSE job[d]
  BY <1>1 DEF destroy, CowInv, CowTypeOK
<1>3. /\ pt' \in [Env -> [Va -> Pte]]
      /\ \A d \in Env, w \in Va : pt'[d][w] = IF d = e THEN NoPte ELSE pt[d][w]
  BY <1>1 DEF destroy, CowInv, CowTypeOK
<1>4. \A d \in Env : /\ st'[d] = IF d = e THEN "free" ELSE st[d]
                     /\ d # e => handler'[d] = handler[d]
  BY DEF destroy, CowInv, CowTypeOK
<1>5. CowTypeOK'
  <2>1. st' \in [Env -> {"free", "made", "run", "panic"}] /\ handler' \in [Env -> BOOLEAN]
    BY DEF destroy, CowInv, CowTypeOK
  <2>2. \A d \in Env, w \in Va : /\ pt'[d][w].p = "none" <=> pt'[d][w].f = NoFrame
                                 /\ st'[d] = "free" => pt'[d][w] = NoPte
    BY <1>1, <1>3, <1>4 DEF CowInv, CowTypeOK
  <2> QED BY <1>1, <1>2, <1>3, <2>1, <2>2 DEF CowInv, CowTypeOK
<1>6. JobOK'
  BY <1>1, <1>2, <1>4 DEF CowInv, JobOK
<1>7. HalfOK'
  <2>1. ASSUME NEW d \in Env, job'[d].half # Tmp
        PROVE  d # e /\ job[d].half # Tmp /\ job[d].child \in Env /\ job[d].child # e
    BY <1>1, <1>2, <2>1 DEF CowInv, HalfOK, JobOK
  <2>2. Stack \in Va
    BY CowAssumption, VPages
  <2> QED BY <1>1, <1>2, <1>3, <2>1, <2>2, VPages DEF CowInv, HalfOK
<1>a. ASSUME NEW d \in Env, d # e, NEW v \in Va, Alone(d, v)
      PROVE  Alone(d, v)'
  <2>1. pt[d][v].p = "w" /\ pt[d][v].f # NoFrame /\ pt'[d][v] = pt[d][v]
    BY <1>3, <1>a DEF Alone, CowInv, CowTypeOK
  <2> QED BY <1>1, <1>3, <1>a, <2>1 DEF Alone
<1>8. FltOK'
  BY <1>1, <1>3, <1>a, VPages DEF CowInv, FltOK
<1>9. SpawnOK'
  BY <1>1, <1>2, <1>3, <1>a, VPages, CowAssumption DEF CowInv, SpawnOK
<1>10. WritableIsPrivate'
  <2> SUFFICES ASSUME NEW x \in Env, NEW y \in Env, NEW a \in Va, NEW b \in Va,
                      pt'[x][a].p = "w", pt'[y][b].f = pt'[x][a].f, x # y \/ a # b
               PROVE  Excused(x, a, y, b)'
    BY DEF WritableIsPrivate
  <2>1. x # e /\ pt'[x][a] = pt[x][a] /\ pt[x][a].f # NoFrame
    BY <1>1, <1>3 DEF CowInv, CowTypeOK
  <2>2. y # e /\ pt'[y][b] = pt[y][b]
    BY <1>1, <1>3, <2>1
  <2>3. Excused(x, a, y, b)
    BY <2>1, <2>2 DEF CowInv, WritableIsPrivate
  <2> QED BY <1>1, <1>2, <2>1, <2>3 DEF Excused
<1>11. HandlerOK'
  <2>1. CowHasHandler'
    BY <1>1, <1>3, <1>4, VPages DEF CowInv, HandlerOK, CowHasHandler
  <2>2. \A d \in Env : job[d].at # "idle" => job[d].child \in Env /\ job[d].child # e
    BY <1>1 DEF CowInv, JobOK
  <2>3. \A d \in Env : job'[d].at \in {"dup", "handler"} => handler'[d]
    BY <1>1, <1>2, <1>4 DEF CowInv, HandlerOK
  <2>4. ASSUME NEW d \in Env, job'[d].at \notin {"idle", "dup", "handler"}, NEW w \in VPage,
               pt'[job'[d].child][w].p = "cow"
        PROVE  handler'[job'[d].child]
    <3>1. d # e /\ job'[d] = job[d]
      BY <1>1, <1>2, <2>4
    <3> QED BY <1>3, <1>4, <2>2, <2>4, <3>1, VPages DEF CowInv, HandlerOK
  <2> QED BY <2>1, <2>3, <2>4 DEF HandlerOK
<1> QED BY <1>5, <1>6, <1>7, <1>8, <1>9, <1>10, <1>11 DEF CowInv

(* A store that faults starts pgfault.                                     *)
LEMMA FaultInv ==
    ASSUME CowInv, NEW e \in Env, NEW v \in VPage, page_fault(e, v)
    PROVE  CowInv'
<1>1. Runs(e) /\ st[e] = "run" /\ flt[e].at = "none" /\ v # TMPPAGE /\ (job[e].at # "idle" => v = Stack)
  BY DEF page_fault, Stores, Runs
<1>2. CASE destroy(e)
  BY <1>1, <1>2, DestroyInv
<1>3. CASE panic(e)
  BY <1>1, <1>3, PanicInv
<1>4. CASE /\ pt[e][v].p = "cow" /\ flt' = [flt EXCEPT ![e] = [at |-> "alloc", va |-> v]]
           /\ UNCHANGED <<frame, pt, st, handler, job>>
  <2>1. /\ flt' \in [Env -> Fault]
        /\ \A d \in Env : d # e => flt'[d] = flt[d]
        /\ flt'[e].at = "alloc" /\ flt'[e].va = v
    <3>1. [at |-> "alloc", va |-> v] \in Fault
      BY VPages DEF Fault
    <3> QED BY <1>4, <3>1 DEF CowInv, CowTypeOK
  <2>2. CowTypeOK'
    BY <1>4, <2>1 DEF CowInv, CowTypeOK
  <2>3. JobOK'
    BY <1>1, <1>4, <2>1 DEF CowInv, JobOK
  <2>4. HalfOK'
    BY <1>1, <1>4, <2>1 DEF CowInv, HalfOK
  <2>5. FltOK'
    BY <1>1, <1>4, <2>1 DEF CowInv, FltOK, Alone
  <2>6. SpawnOK'
    BY <1>4 DEF CowInv, SpawnOK, Alone
  <2>7. WritableIsPrivate'
    <3> SUFFICES ASSUME NEW x \in Env, NEW y \in Env, NEW a \in Va, NEW b \in Va,
                        pt[x][a].p = "w", pt[y][b].f = pt[x][a].f, x # y \/ a # b
                 PROVE  Excused(x, a, y, b)'
      BY <1>4 DEF WritableIsPrivate
    <3>1. Excused(x, a, y, b)
      BY DEF CowInv, WritableIsPrivate
    <3> QED BY <1>1, <1>4, <2>1, <3>1 DEF Excused
  <2>8. HandlerOK'
    BY <1>4 DEF CowInv, HandlerOK, CowHasHandler
  <2> QED BY <2>2, <2>3, <2>4, <2>5, <2>6, <2>7, <2>8 DEF CowInv
<1> QED BY <1>2, <1>3, <1>4 DEF page_fault

(* pgfault's page for the copy is a new one.                               *)
LEMMA FaultAllocInv ==
    ASSUME CowInv, NEW e \in Env, pgfault_alloc(e)
    PROVE  CowInv'
<1>1. st[e] = "run" /\ flt[e].at = "alloc" /\ flt[e].va \in VPage /\ job[e].half = Tmp
  BY DEF pgfault_alloc, CowInv, FltOK, HalfOK
<1>2. CASE panic(e)
  BY <1>1, <1>2, PanicInv
<1>3. CASE Alloc(e, Tmp) /\ flt' = [flt EXCEPT ![e].at = "copy"] /\ UNCHANGED <<st, handler, job>>
  <2>1. /\ flt' \in [Env -> Fault]
        /\ flt'[e].at = "copy" /\ flt'[e].va = flt[e].va
        /\ \A d \in Env : d # e => flt'[d] = flt[d]
    BY <1>3 DEF CowInv, CowTypeOK, Fault
  <2>2. PICK g \in Frame :
          /\ Unmapped(g)
          /\ \A d \in Env, w \in Va :
                pt'[d][w] = IF d = e /\ w = Tmp THEN [f |-> g, p |-> "w"] ELSE pt[d][w]
    BY <1>3, VPages, AllocIs DEF CowInv
  <2>3. frame' \in [Frame -> Value] /\ pt' \in [Env -> [Va -> Pte]]
    BY <1>3, VPages, AllocIs DEF CowInv
  <2>4. \A d \in Env, w \in Va : d # e \/ w # Tmp => pt'[d][w] = pt[d][w] /\ pt[d][w].f # g
    BY <2>2 DEF Unmapped
  <2>5. pt'[e][Tmp].f = g /\ pt'[e][Tmp].p = "w"
    BY <2>2, VPages
  <2>6. CowTypeOK'
    <3>1. \A d \in Env, w \in Va : /\ pt'[d][w].p = "none" <=> pt'[d][w].f = NoFrame
                                   /\ st'[d] = "free" => pt'[d][w] = NoPte
      BY <1>1, <1>3, <2>4, <2>5, VPages, CowAssumption DEF CowInv, CowTypeOK
    <3> QED BY <1>3, <2>1, <2>3, <3>1 DEF CowInv, CowTypeOK
  <2>7. JobOK'
    BY <1>1, <1>3, <2>1 DEF CowInv, JobOK
  <2>s. Stack \in Va /\ TMPPAGE \in Va /\ Stack # Tmp /\ TMPPAGE # Tmp
    BY CowAssumption, VPages
  <2>8. HalfOK'
    BY <1>1, <1>3, <2>1, <2>4, KeepHalfOK DEF CowInv
  <2>a. ASSUME NEW d \in Env, NEW v \in Va, d # e \/ v # Tmp, Alone(d, v)
        PROVE  Alone(d, v)'
    BY <2>4, <2>5, <2>a DEF Alone
  <2>9. FltOK'
    <3>1. Alone(e, Tmp)'
      BY <2>4, <2>5 DEF Alone
    <3> QED BY <1>1, <2>1, <2>4, <2>a, <3>1, VPages DEF CowInv, FltOK
  <2>10. SpawnOK'
    BY <1>3, <2>4, <2>a, <2>s DEF CowInv, SpawnOK
  <2>11. WritableIsPrivate'
    <3> SUFFICES ASSUME NEW x \in Env, NEW y \in Env, NEW a \in Va, NEW b \in Va,
                        pt'[x][a].p = "w", pt'[y][b].f = pt'[x][a].f, x # y \/ a # b
                 PROVE  Excused(x, a, y, b)'
      BY DEF WritableIsPrivate
    <3>1. pt'[x][a] = pt[x][a] /\ pt'[y][b] = pt[y][b]
      BY <2>4, <2>5
    <3>2. Excused(x, a, y, b)
      BY <3>1 DEF CowInv, WritableIsPrivate
    <3> QED BY <1>1, <1>3, <2>1, <3>2 DEF Excused
  <2>12. HandlerOK'
    <3>1. \A d \in Env, v \in VPage : pt'[d][v] = pt[d][v]
      BY <2>4, VPages
    <3>2. st' = st /\ handler' = handler /\ job' = job
      BY <1>3
    <3> QED BY <3>1, <3>2, KeepHandlerOK DEF CowInv
  <2> QED BY <2>6, <2>7, <2>8, <2>9, <2>10, <2>11, <2>12 DEF CowInv
<1> QED BY <1>2, <1>3 DEF pgfault_alloc

(* pgfault replaces the page by its copy.                                  *)
LEMMA FaultMapInv ==
    ASSUME CowInv, NEW e \in Env, pgfault_map(e)
    PROVE  CowInv'
<1> DEFINE va == flt[e].va
<1>1. /\ st[e] = "run" /\ flt[e].at = "map" /\ va \in VPage /\ va # TMPPAGE /\ job[e].half = Tmp
      /\ pt[e][va].p = "cow" /\ Alone(e, Tmp) /\ UNCHANGED <<frame, st, handler, job>>
      /\ Maps(e, va, [f |-> pt[e][Tmp].f, p |-> "w"])
      /\ flt' = [flt EXCEPT ![e].at = "unmap"]
  BY DEF pgfault_map, CowInv, FltOK, HalfOK
<1>2. /\ flt' \in [Env -> Fault]
      /\ flt'[e].at = "unmap" /\ flt'[e].va = va
      /\ \A d \in Env : d # e => flt'[d] = flt[d]
  BY <1>1 DEF CowInv, CowTypeOK, Fault
<1>3. /\ pt' \in [Env -> [Va -> Pte]]
      /\ \A d \in Env, w \in Va :
            /\ d # e \/ w # va => pt'[d][w] = pt[d][w]
            /\ pt'[e][va].f = pt[e][Tmp].f /\ pt'[e][va].p = "w"
  <2>1. [f |-> pt[e][Tmp].f, p |-> "w"] \in Pte
    BY VPages DEF CowInv, CowTypeOK, Pte, Perm
  <2> QED BY <1>1, <2>1, VPages, MapsIs DEF CowInv
<1>4. va \in Va /\ Stack \in Va /\ TMPPAGE \in Va /\ va # Tmp /\ Stack # Tmp /\ TMPPAGE # Tmp
  BY <1>1, CowAssumption, VPages
<1>5. \A d \in Env, w \in Va : (d # e \/ w # Tmp) => pt[d][w].f # pt[e][Tmp].f
  BY <1>1, VPages DEF Alone
<1>6. pt[e][Tmp].f # NoFrame
  BY <1>1, VPages DEF Alone, CowInv, CowTypeOK
<1>7. CowTypeOK'
  <2>1. \A d \in Env, w \in Va : /\ pt'[d][w].p = "none" <=> pt'[d][w].f = NoFrame
                                 /\ st'[d] = "free" => pt'[d][w] = NoPte
    BY <1>1, <1>3, <1>4, <1>6, PtesOK DEF CowInv
  <2> QED BY <1>1, <1>2, <1>3, <2>1 DEF CowInv, CowTypeOK
<1>8. JobOK'
  BY <1>1, <1>2 DEF CowInv, JobOK
<1>9. HalfOK'
  BY <1>1, <1>2, <1>3, KeepHalfOK DEF CowInv
<1>a. ASSUME NEW d \in Env, NEW v \in Va, Alone(d, v), d # e \/ (v # Tmp /\ v # va)
      PROVE  Alone(d, v)'
  <2>1. pt'[d][v] = pt[d][v] /\ pt[d][v].f # pt[e][Tmp].f
    BY <1>3, <1>5, <1>a
  <2> QED BY <1>3, <1>a, <2>1 DEF Alone
<1>10. FltOK'
  BY <1>1, <1>2, <1>3, <1>4, <1>a, VPages DEF CowInv, FltOK
<1>11. SpawnOK'
  BY <1>1, <1>3, <1>4, <1>a DEF CowInv, SpawnOK
<1>12. WritableIsPrivate'
  <2> SUFFICES ASSUME NEW x \in Env, NEW y \in Env, NEW a \in Va, NEW b \in Va,
                      pt'[x][a].p = "w", pt'[y][b].f = pt'[x][a].f, x # y \/ a # b
               PROVE  Excused(x, a, y, b)'
    BY DEF WritableIsPrivate
  <2>1. CASE (x = e /\ a = va) \/ (y = e /\ b = va)
    BY <1>2, <1>3, <1>4, <1>5, <2>1 DEF Excused
  <2>2. CASE ~ (x = e /\ a = va) /\ ~ (y = e /\ b = va)
    <3>1. pt'[x][a] = pt[x][a] /\ pt'[y][b] = pt[y][b]
      BY <1>3, <2>2
    <3>2. Excused(x, a, y, b)
      BY <3>1 DEF CowInv, WritableIsPrivate
    <3> QED BY <1>1, <1>2, <3>2 DEF Excused
  <2> QED BY <2>1, <2>2
<1>13. HandlerOK'
  <2>1. \A d \in Env, v \in VPage : pt'[d][v].p = "cow" => pt[d][v].p = "cow"
    BY <1>3, <1>4, VPages
  <2>2. st' = st /\ handler' = handler /\ job' = job
    BY <1>1
  <2> QED BY <2>1, <2>2, KeepHandlerOK DEF CowInv
<1> QED BY <1>7, <1>8, <1>9, <1>10, <1>11, <1>12, <1>13 DEF CowInv

(* pgfault is done.                                                        *)
LEMMA FaultUnmapInv ==
    ASSUME CowInv, NEW e \in Env, pgfault_unmap(e)
    PROVE  CowInv'
<1>1. /\ st[e] = "run" /\ flt[e].at = "unmap" /\ job[e].half = Tmp
      /\ UNCHANGED <<frame, st, handler, job>> /\ Maps(e, Tmp, NoPte)
      /\ flt' = [flt EXCEPT ![e] = NoFault]
  BY DEF pgfault_unmap, CowInv, HalfOK
<1>2. /\ flt' \in [Env -> Fault]
      /\ flt'[e].at = "none"
      /\ \A d \in Env : d # e => flt'[d] = flt[d]
  BY <1>1, VPages DEF CowInv, CowTypeOK, Fault, NoFault
<1>3. /\ pt' \in [Env -> [Va -> Pte]]
      /\ \A d \in Env, w \in Va :
            /\ d # e \/ w # Tmp => pt'[d][w] = pt[d][w]
            /\ pt'[e][Tmp] = NoPte /\ pt'[e][Tmp].f = NoFrame /\ pt'[e][Tmp].p = "none"
  <2>1. NoPte \in Pte /\ NoPte.f = NoFrame /\ NoPte.p = "none"
    BY DEF NoPte, Pte, Perm
  <2> QED BY <1>1, <2>1, VPages, MapsIs DEF CowInv
<1>4. Stack \in Va /\ TMPPAGE \in Va /\ Stack # Tmp /\ TMPPAGE # Tmp
  BY CowAssumption, VPages
<1>5. CowTypeOK'
  <2>1. \A d \in Env, w \in Va : /\ pt'[d][w].p = "none" <=> pt'[d][w].f = NoFrame
                                 /\ st'[d] = "free" => pt'[d][w] = NoPte
    BY <1>1, <1>3, PtesOK DEF CowInv
  <2> QED BY <1>1, <1>2, <1>3, <2>1 DEF CowInv, CowTypeOK
<1>6. JobOK'
  BY <1>1, <1>2 DEF CowInv, JobOK
<1>7. HalfOK'
  BY <1>1, <1>2, <1>3, <1>4, VPages DEF CowInv, HalfOK, JobOK
<1>a. ASSUME NEW d \in Env, NEW v \in Va, Alone(d, v), d # e \/ v # Tmp
      PROVE  Alone(d, v)'
  <2>1. pt'[d][v] = pt[d][v] /\ pt[d][v].f # NoFrame
    BY <1>3, <1>a DEF Alone, CowInv, CowTypeOK
  <2> QED BY <1>3, <1>a, <2>1 DEF Alone
<1>8. FltOK'
  BY <1>1, <1>2, <1>3, <1>4, <1>a, VPages DEF CowInv, FltOK
<1>9. SpawnOK'
  BY <1>1, <1>3, <1>4, <1>a DEF CowInv, SpawnOK
<1>10. WritableIsPrivate'
  <2> SUFFICES ASSUME NEW x \in Env, NEW y \in Env, NEW a \in Va, NEW b \in Va,
                      pt'[x][a].p = "w", pt'[y][b].f = pt'[x][a].f, x # y \/ a # b
               PROVE  Excused(x, a, y, b)'
    BY DEF WritableIsPrivate
  <2>1. ~ (x = e /\ a = Tmp) /\ pt'[x][a] = pt[x][a] /\ pt[x][a].f # NoFrame
    BY <1>3 DEF CowInv, CowTypeOK
  <2>2. ~ (y = e /\ b = Tmp) /\ pt'[y][b] = pt[y][b]
    BY <1>3, <2>1
  <2>3. Excused(x, a, y, b)
    BY <2>1, <2>2 DEF CowInv, WritableIsPrivate
  <2> QED BY <1>1, <1>2, <2>1, <2>2, <2>3 DEF Excused
<1>11. HandlerOK'
  <2>1. \A d \in Env, v \in VPage : pt'[d][v] = pt[d][v]
    BY <1>3, VPages
  <2>2. st' = st /\ handler' = handler /\ job' = job
    BY <1>1
  <2> QED BY <2>1, <2>2, KeepHandlerOK DEF CowInv
<1> QED BY <1>5, <1>6, <1>7, <1>8, <1>9, <1>10, <1>11 DEF CowInv

(* A step from one place in fork or spawn to another.                      *)
LEMMA NextIs ==
    ASSUME CowTypeOK, NEW e \in Env,
           NEW at \in {"handler", "start", "stackmap", "stackunmap", "stackerror", "text", "data", "datamap", "bss", "share"},
           job' = [job EXCEPT ![e].at = at]
    PROVE  /\ job' \in [Env -> Job]
           /\ job'[e].at = at /\ job'[e].child = job[e].child /\ job'[e].half = job[e].half
           /\ \A d \in Env : d # e => job'[d] = job[d]
<1>0. job[e] \in Job
  BY DEF CowTypeOK
<1>1. [job[e] EXCEPT !.at = at] \in Job
  BY ONLY <1>0, at \in {"handler", "start", "stackmap", "stackunmap", "stackerror", "text", "data", "datamap", "bss", "share"}
     DEF Job
<1>2. \A d \in Env : job[d] \in Job
  BY DEF CowTypeOK
<1>3. job' = [d \in Env |-> IF d = e THEN [job[e] EXCEPT !.at = at] ELSE job[d]]
  BY DEF CowTypeOK
<1>4. job' \in [Env -> Job]
  BY <1>1, <1>2, <1>3
<1>5. job'[e] = [job[e] EXCEPT !.at = at] /\ \A d \in Env : d # e => job'[d] = job[d]
  BY <1>3
<1> QED BY <1>2, <1>4, <1>5 DEF Job

(* fork and spawn make a child of a free environment.                      *)
LEMMA MakeInv ==
    ASSUME CowInv, NEW e \in Env, NEW c \in Env, fork(e, c) \/ spawn(e, c)
    PROVE  CowInv'
<1>1. /\ st[e] = "run" /\ flt[e].at = "none" /\ job[e].at = "idle" /\ job[e].half = Tmp /\ st[c] = "free" /\ c # e
      /\ UNCHANGED <<frame, pt, flt>> /\ st' = [st EXCEPT ![c] = "made"]
      /\ job[c].at = "idle" /\ flt[c].at = "none"
  BY DEF fork, spawn, In, Runs, CowInv, HalfOK, JobOK
<1>2. PICK at \in {"dup", "stack"} :
        /\ job' = [job EXCEPT ![e] = [at |-> at, child |-> c, todo |-> VPage, half |-> Tmp]]
        /\ at = "dup" => handler[e]
        /\ handler' = handler
  BY DEF fork, spawn
<1>3. /\ job' \in [Env -> Job]
      /\ job'[e].at = at /\ job'[e].child = c /\ job'[e].half = Tmp
      /\ \A d \in Env : d # e => job'[d] = job[d]
  <2>1. [at |-> at, child |-> c, todo |-> VPage, half |-> Tmp] \in Job
    BY VPages DEF Job
  <2> QED BY <1>2, <2>1 DEF CowInv, CowTypeOK
<1>4. /\ st' \in [Env -> {"free", "made", "run", "panic"}] /\ st'[c] = "made"
      /\ \A d \in Env : d # c => st'[d] = st[d]
  BY <1>1 DEF CowInv, CowTypeOK
<1>5. handler' \in [Env -> BOOLEAN]
  BY <1>2 DEF CowInv, CowTypeOK
<1>6. \A v \in Va : pt[c][v] = NoPte /\ pt[c][v].p = "none"
  BY <1>1, PtesOK DEF CowInv, NoPte
<1>7. CowTypeOK'
  <2>1. \A d \in Env, w \in Va : /\ pt'[d][w].p = "none" <=> pt'[d][w].f = NoFrame
                                 /\ st'[d] = "free" => pt'[d][w] = NoPte
    BY <1>1, <1>4, PtesOK DEF CowInv
  <2> QED BY <1>1, <1>3, <1>4, <1>5, <2>1 DEF CowInv, CowTypeOK
<1>8. JobOK'
  BY <1>1, <1>3, <1>4 DEF CowInv, JobOK
<1>9. HalfOK'
  <2>1. \A d \in Env : job'[d].half # Tmp => d # e
    BY <1>3
  <2> QED BY <1>1, <1>3, <2>1 DEF CowInv, HalfOK
<1>10. FltOK'
  BY <1>1 DEF CowInv, FltOK, Alone
<1>11. SpawnOK'
  BY <1>1, <1>3 DEF CowInv, SpawnOK, Alone
<1>12. WritableIsPrivate'
  <2> SUFFICES ASSUME NEW x \in Env, NEW y \in Env, NEW a \in Va, NEW b \in Va,
                      pt[x][a].p = "w", pt[y][b].f = pt[x][a].f, x # y \/ a # b
               PROVE  Excused(x, a, y, b)'
    BY <1>1 DEF WritableIsPrivate
  <2>1. Excused(x, a, y, b)
    BY DEF CowInv, WritableIsPrivate
  <2> QED BY <1>1, <1>3, <2>1 DEF Excused
<1>13. HandlerOK'
  <2>1. \A d \in Env : handler[d] => handler'[d]
    BY <1>2
  <2>2. CowHasHandler'
    BY <1>1, <1>4, <2>1 DEF CowInv, HandlerOK, CowHasHandler
  <2>3. \A d \in Env : job'[d].at \in {"dup", "handler"} => handler'[d]
    BY <1>2, <1>3, <1>5, <2>1 DEF CowInv, HandlerOK
  <2>4. ASSUME NEW d \in Env, job'[d].at \notin {"idle", "dup", "handler"}, NEW w \in VPage,
               pt'[job'[d].child][w].p = "cow"
        PROVE  handler'[job'[d].child]
    <3>1. d # e /\ job'[d] = job[d]
      BY <1>1, <1>3, <1>6, <2>4, VPages
    <3>2. handler[job[d].child] /\ job[d].child \in Env
      BY <1>1, <2>4, <3>1 DEF CowInv, HandlerOK, JobOK
    <3> QED BY <2>1, <3>1, <3>2
  <2> QED BY <2>2, <2>3, <2>4 DEF HandlerOK
<1> QED BY <1>7, <1>8, <1>9, <1>10, <1>11, <1>12, <1>13 DEF CowInv

(* The first fork installs a handler.                                      *)
LEMMA SetHandlerInv ==
    ASSUME CowInv, NEW e \in Env, set_pgfault_handler(e)
    PROVE  CowInv'
<1>1. st[e] = "run"
  BY DEF set_pgfault_handler, In, Runs
<1>2. CASE panic(e)
  BY <1>1, <1>2, PanicInv
<1>3. CASE handler' = [handler EXCEPT ![e] = TRUE] /\ UNCHANGED <<frame, pt, st, job, flt>>
  <2>1. handler' \in [Env -> BOOLEAN] /\ \A d \in Env : handler[d] => handler'[d]
    BY <1>3 DEF CowInv, CowTypeOK
  <2>2. CowTypeOK' /\ JobOK' /\ HalfOK'
    BY <1>3, <2>1 DEF CowInv, CowTypeOK, JobOK, HalfOK
  <2>3. FltOK' /\ SpawnOK' /\ WritableIsPrivate'
    BY <1>3 DEF CowInv, FltOK, SpawnOK, Alone, WritableIsPrivate, Excused
  <2>4. CowHasHandler'
    BY <1>3, <2>1 DEF CowInv, HandlerOK, CowHasHandler
  <2>5. \A d \in Env : job[d].at # "idle" => job[d].child \in Env
    BY DEF CowInv, JobOK
  <2> QED BY <1>3, <2>1, <2>2, <2>3, <2>4, <2>5 DEF CowInv, HandlerOK
<1> QED BY <1>2, <1>3 DEF set_pgfault_handler

(* fork installs the child's handler.                                      *)
LEMMA ForkHandlerInv ==
    ASSUME CowInv, NEW e \in Env, fork_xstack(e) \/ fork_handler(e)
    PROVE  CowInv'
<1>1. CASE In(e, "dup") /\ job[e].half = Tmp /\ returns(e)
  <2>1. In(e, job[e].at)
    BY <1>1 DEF In
  <2> QED BY <1>1, <2>1, ReturnsInv
<1>2. CASE \E at \in {"handler", "start"} :
             /\ Runs(e) /\ job[e].at \in {"dup", "handler"} /\ job[e].half = Tmp
             /\ job' = [job EXCEPT ![e].at = at] /\ UNCHANGED <<frame, pt, st, flt>>
             /\ at = "handler" => handler' = handler
             /\ at = "start" => handler' = [handler EXCEPT ![job[e].child] = TRUE]
  <2>1. PICK at \in {"handler", "start"} :
             /\ st[e] = "run" /\ job[e].at \in {"dup", "handler"} /\ job[e].half = Tmp
             /\ job' = [job EXCEPT ![e].at = at] /\ UNCHANGED <<frame, pt, st, flt>>
             /\ at = "handler" => handler' = handler
             /\ at = "start" => handler' = [handler EXCEPT ![job[e].child] = TRUE]
    BY <1>2 DEF Runs
  <2>2. /\ job' \in [Env -> Job]
        /\ job'[e].at = at /\ job'[e].child = job[e].child /\ job'[e].half = Tmp
        /\ \A d \in Env : d # e => job'[d] = job[d]
    BY <2>1, NextIs DEF CowInv
  <2>3. job[e].child \in Env
    BY <2>1 DEF CowInv, JobOK
  <2>4. /\ handler' \in [Env -> BOOLEAN]
        /\ \A d \in Env : handler[d] => handler'[d]
        /\ at = "start" => handler'[job[e].child]
    <3>1. handler \in [Env -> BOOLEAN]
      BY DEF CowInv, CowTypeOK
    <3>2. CASE at = "handler"
      BY <2>1, <3>1, <3>2
    <3>3. CASE at = "start"
      <4>1. handler' = [handler EXCEPT ![job[e].child] = TRUE]
        BY <2>1, <3>3
      <4> QED BY ONLY <2>3, <3>1, <4>1
    <3> QED BY <3>2, <3>3
  <2>5. CowTypeOK'
    BY <2>1, <2>2, <2>4 DEF CowInv, CowTypeOK
  <2>6. JobOK'
    BY <2>1, <2>2 DEF CowInv, JobOK
  <2>7. HalfOK'
    BY <2>1, <2>2 DEF CowInv, HalfOK
  <2>8. FltOK'
    BY <2>1 DEF CowInv, FltOK, Alone
  <2>9. SpawnOK'
    BY <2>1, <2>2 DEF CowInv, SpawnOK, Alone
  <2>10. WritableIsPrivate'
    <3> SUFFICES ASSUME NEW x \in Env, NEW y \in Env, NEW a \in Va, NEW b \in Va,
                        pt[x][a].p = "w", pt[y][b].f = pt[x][a].f, x # y \/ a # b
                 PROVE  Excused(x, a, y, b)'
      BY <2>1 DEF WritableIsPrivate
    <3>1. Excused(x, a, y, b)
      BY DEF CowInv, WritableIsPrivate
    <3> QED BY <2>1, <2>2, <3>1 DEF Excused
  <2>11. HandlerOK'
    <3>1. CowHasHandler'
      BY <2>1, <2>4 DEF CowInv, HandlerOK, CowHasHandler
    <3>2. \A d \in Env : job'[d].at \in {"dup", "handler"} => handler'[d]
      BY <2>1, <2>2, <2>4 DEF CowInv, HandlerOK
    <3>3. ASSUME NEW d \in Env, job'[d].at \notin {"idle", "dup", "handler"}, NEW w \in VPage,
                 pt'[job'[d].child][w].p = "cow"
          PROVE  handler'[job'[d].child]
      <4>1. CASE d = e
        BY <2>2, <2>4, <3>3, <4>1
      <4>2. CASE d # e
        <5>1. handler[job[d].child] /\ job[d].child \in Env
          BY <2>1, <2>2, <3>3, <4>2 DEF CowInv, HandlerOK, JobOK
        <5> QED BY <2>2, <2>4, <4>2, <5>1
      <4> QED BY <4>1, <4>2
    <3> QED BY <3>1, <3>2, <3>3 DEF HandlerOK
  <2> QED BY <2>5, <2>6, <2>7, <2>8, <2>9, <2>10, <2>11 DEF CowInv
<1>3. In(e, "handler") => job[e].half = Tmp
  BY DEF In, CowInv, HalfOK
<1> QED BY <1>1, <1>2, <1>3 DEF fork_xstack, fork_handler, In, Next_

(* The child starts.                                                       *)
LEMMA StartInv ==
    ASSUME CowInv, NEW e \in Env, start(e)
    PROVE  CowInv'
<1> DEFINE c == job[e].child
<1>1. /\ st[e] = "run" /\ job[e].at = "start" /\ job[e].half = Tmp
      /\ c \in Env /\ c # e /\ st[c] = "made" /\ job[c].at = "idle" /\ flt[c].at = "none"
      /\ UNCHANGED <<frame, pt, handler, flt>> /\ st' = [st EXCEPT ![c] = "run"]
      /\ job' = [job EXCEPT ![e] = NoJob] /\ NoJob.at = "idle" /\ NoJob.half = Tmp /\ NoJob \in Job
  BY VPages DEF start, In, Runs, CowInv, HalfOK, JobOK, NoJob, Job
<1>2. /\ job' \in [Env -> Job]
      /\ \A d \in Env : job'[d] = IF d = e THEN NoJob ELSE job[d]
  BY <1>1 DEF CowInv, CowTypeOK
<1>3. /\ st' \in [Env -> {"free", "made", "run", "panic"}] /\ st'[c] = "run"
      /\ \A d \in Env : d # c => st'[d] = st[d]
  BY <1>1 DEF CowInv, CowTypeOK
<1>4. CowTypeOK'
  <2>1. \A d \in Env, w \in Va : /\ pt'[d][w].p = "none" <=> pt'[d][w].f = NoFrame
                                 /\ st'[d] = "free" => pt'[d][w] = NoPte
    BY <1>1, <1>3, PtesOK DEF CowInv
  <2> QED BY <1>1, <1>2, <1>3, <2>1 DEF CowInv, CowTypeOK
<1>5. JobOK'
  <2>1. \A d \in Env : d # e /\ job[d].at # "idle" => job[d].child # c
    BY <1>1 DEF CowInv, JobOK
  <2> QED BY <1>1, <1>2, <1>3, <2>1 DEF CowInv, JobOK
<1>6. HalfOK'
  BY <1>1, <1>2 DEF CowInv, HalfOK
<1>7. FltOK'
  BY <1>1 DEF CowInv, FltOK, Alone
<1>8. SpawnOK'
  BY <1>1, <1>2 DEF CowInv, SpawnOK, Alone
<1>9. WritableIsPrivate'
  <2> SUFFICES ASSUME NEW x \in Env, NEW y \in Env, NEW a \in Va, NEW b \in Va,
                      pt[x][a].p = "w", pt[y][b].f = pt[x][a].f, x # y \/ a # b
               PROVE  Excused(x, a, y, b)'
    BY <1>1 DEF WritableIsPrivate
  <2>1. Excused(x, a, y, b)
    BY DEF CowInv, WritableIsPrivate
  <2> QED BY <1>1, <1>2, <2>1 DEF Excused
<1>10. HandlerOK'
  <2>1. \A v \in VPage : pt[c][v].p = "cow" => handler[c]
    BY <1>1 DEF CowInv, HandlerOK
  <2>2. CowHasHandler'
    BY <1>1, <1>3, <2>1 DEF CowInv, HandlerOK, CowHasHandler
  <2> QED BY <1>1, <1>2, <2>2 DEF CowInv, HandlerOK
<1> QED BY <1>4, <1>5, <1>6, <1>7, <1>8, <1>9, <1>10 DEF CowInv

(* duppage, the parent's half.                                             *)
LEMMA DupSelfInv ==
    ASSUME CowInv, NEW e \in Env, dup_self(e)
    PROVE  CowInv'
<1> DEFINE v == job[e].half
           c == job[e].child
<1>1. /\ st[e] = "run" /\ flt[e].at = "none" /\ job[e].at = "dup" /\ v # Tmp /\ v \in VPage
      /\ c \in Env /\ c # e /\ st[c] = "made" /\ handler[e]
      /\ pt[c][v].f = pt[e][v].f /\ pt[c][v].p = "cow" /\ pt[e][v].p \in {"w", "cow"}
      /\ UNCHANGED <<frame, st, handler, flt>>
      /\ Maps(e, v, [f |-> pt[c][v].f, p |-> "cow"])
      /\ job' = [job EXCEPT ![e].todo = @ \ {v}, ![e].half = Tmp]
  BY DEF dup_self, In, Runs, CowInv, HalfOK, JobOK, HandlerOK
<1>2. v \in Va /\ Stack \in Va /\ TMPPAGE \in Va /\ Stack # Tmp
  BY <1>1, CowAssumption, VPages
<1>3. /\ job' \in [Env -> Job]
      /\ job'[e].at = "dup" /\ job'[e].child = c /\ job'[e].half = Tmp
      /\ \A d \in Env : d # e => job'[d] = job[d]
  <2>0. job[e] \in Job /\ job[e].todo \ {v} \in SUBSET VPage /\ Tmp \in Va
    BY VPages DEF CowInv, CowTypeOK, Job
  <2>1. [job[e] EXCEPT !.todo = @ \ {v}, !.half = Tmp] \in Job
    BY <2>0 DEF Job
  <2>2. job' = [job EXCEPT ![e] = [job[e] EXCEPT !.todo = @ \ {v}, !.half = Tmp]]
    BY <1>1 DEF CowInv, CowTypeOK
  <2>3. job'[e] = [job[e] EXCEPT !.todo = @ \ {v}, !.half = Tmp]
    BY <2>2 DEF CowInv, CowTypeOK
  <2>4. job[e] \in Job
    BY DEF CowInv, CowTypeOK
  <2>5. job'[e].at = job[e].at /\ job'[e].child = job[e].child /\ job'[e].half = Tmp
    BY <2>3, <2>4 DEF Job
  <2> QED BY <1>1, <2>1, <2>2, <2>5 DEF CowInv, CowTypeOK
<1>4. /\ pt' \in [Env -> [Va -> Pte]]
      /\ \A d \in Env, w \in Va : /\ pt'[d][w].f = pt[d][w].f
                                  /\ d # e \/ w # v => pt'[d][w] = pt[d][w]
      /\ pt'[e][v].p = "cow"
  <2>1. [f |-> pt[c][v].f, p |-> "cow"] \in Pte
    BY <1>1, <1>2 DEF CowInv, CowTypeOK, Pte, Perm
  <2> QED BY <1>1, <1>2, <2>1, MapsIs DEF CowInv
<1>5. CowTypeOK'
  <2>1. \A d \in Env, w \in Va : /\ pt'[d][w].p = "none" <=> pt'[d][w].f = NoFrame
                                 /\ st'[d] = "free" => pt'[d][w] = NoPte
    BY <1>1, <1>2, <1>4, PtesOK DEF CowInv
  <2> QED BY <1>1, <1>3, <1>4, <2>1 DEF CowInv, CowTypeOK
<1>6. JobOK'
  BY <1>1, <1>3, SMTT(20) DEF CowInv, JobOK
<1>7. HalfOK'
  <2>1. ASSUME NEW d \in Env, job'[d].half # Tmp
        PROVE  /\ d # e /\ job'[d] = job[d] /\ job[d].at = "dup" /\ job[d].half \in VPage
               /\ job[d].child \in Env /\ job[d].child # e
    <3>1. d # e /\ job'[d] = job[d] /\ job[d].half # Tmp
      BY <1>3, <2>1
    <3>2. job[d].at = "dup" /\ job[d].half \in VPage
      BY <3>1 DEF CowInv, HalfOK
    <3>3. job[d].child \in Env /\ st[job[d].child] = "made"
      BY <3>2 DEF CowInv, JobOK
    <3> QED BY <1>1, <3>1, <3>2, <3>3
  <2>2. ASSUME NEW d \in Env, job'[d].half # Tmp
        PROVE  /\ pt'[d] = pt[d]
               /\ pt'[job[d].child][job[d].half] = pt[job[d].child][job[d].half]
    <3>1. d # e /\ job[d].half \in Va /\ job[d].child \in Env /\ job[d].child # e
      BY <2>1, <2>2, VPages
    <3>2. pt'[d] \in [Va -> Pte] /\ pt[d] \in [Va -> Pte]
      BY <1>4 DEF CowInv, CowTypeOK
    <3>3. \A w \in Va : pt'[d][w] = pt[d][w]
      BY <1>4, <3>1
    <3> QED BY <1>4, <3>1, <3>2, <3>3
  <2>3. ASSUME NEW d \in Env, job'[d].half # Tmp
        PROVE  /\ flt'[d].at = "none" /\ pt'[d][Stack].p # "cow"
               /\ pt'[d][job[d].half].p \in {"w", "cow"}
               /\ pt'[job[d].child][job[d].half].f = pt'[d][job[d].half].f
               /\ pt'[job[d].child][job[d].half].p = "cow"
    <3>1. job[d].half # Tmp
      BY <2>1, <2>3
    <3>2. /\ flt[d].at = "none" /\ pt[d][Stack].p # "cow" /\ pt[d][job[d].half].p \in {"w", "cow"}
          /\ pt[job[d].child][job[d].half].f = pt[d][job[d].half].f
          /\ pt[job[d].child][job[d].half].p = "cow"
      BY <3>1 DEF CowInv, HalfOK
    <3>3. pt'[d] = pt[d] /\ pt'[job[d].child][job[d].half] = pt[job[d].child][job[d].half] /\ flt' = flt
      BY <1>1, <2>2, <2>3
    <3> QED BY ONLY <3>2, <3>3
  <2> QED BY <2>1, <2>3 DEF HalfOK
<1>a. ASSUME NEW d \in Env, NEW w \in Va, Alone(d, w), d # e \/ w # v
      PROVE  Alone(d, w)'
  BY <1>4, <1>a DEF Alone
<1>8. FltOK'
  <2>1. \A d \in Env : pt'[d][Tmp] = pt[d][Tmp]
    BY <1>1, <1>4, VPages
  <2>2. \A d \in Env, w \in VPage : pt[d][w].p = "cow" => pt'[d][w].p = "cow"
    BY <1>4, VPages
  <2> QED BY <1>1, <1>a, <2>1, <2>2, VPages DEF CowInv, FltOK
<1>9. SpawnOK'
  <2>1. \A d \in Env : pt'[d][TMPPAGE].p = pt[d][TMPPAGE].p \/ pt'[d][TMPPAGE].p = "cow"
    BY <1>2, <1>4
  <2>2. \A d \in Env : job'[d].at = job[d].at
    BY <1>1, <1>3
  <2>3. \A d \in Env : job[d].at \in {"stackmap", "datamap"} => d # e
    BY <1>1
  <2> QED BY <1>2, <1>a, <2>1, <2>2, <2>3 DEF CowInv, SpawnOK
<1>10. WritableIsPrivate'
  <2> SUFFICES ASSUME NEW x \in Env, NEW y \in Env, NEW a \in Va, NEW b \in Va,
                      pt'[x][a].p = "w", pt'[y][b].f = pt'[x][a].f, x # y \/ a # b
               PROVE  Excused(x, a, y, b)'
    BY DEF WritableIsPrivate
  <2>1. ~ (x = e /\ a = v) /\ pt[x][a].p = "w" /\ pt[y][b].f = pt[x][a].f
    BY <1>4
  <2>2. Excused(x, a, y, b)
    BY <2>1 DEF CowInv, WritableIsPrivate
  <2> QED BY <1>1, <1>3, <2>1, <2>2 DEF Excused
<1>11. HandlerOK'
  <2>1. CowHasHandler'
    BY <1>1, <1>2, <1>4, VPages DEF CowInv, HandlerOK, CowHasHandler
  <2>2. \A d \in Env : job'[d].at = job[d].at /\ job'[d].child = job[d].child
    BY <1>1, <1>3
  <2>3. \A d \in Env : job[d].at # "idle" => job[d].child \in Env /\ job[d].child # e
    BY <1>1 DEF CowInv, JobOK
  <2>4. handler' = handler /\ \A d \in Env : job[d].at \in {"dup", "handler"} => handler[d]
    BY <1>1 DEF CowInv, HandlerOK
  <2>5. ASSUME NEW d \in Env, job[d].at \notin {"idle", "dup", "handler"}, NEW w \in VPage,
               pt'[job[d].child][w].p = "cow"
        PROVE  handler[job[d].child]
    <3>1. pt'[job[d].child][w] = pt[job[d].child][w]
      BY <1>4, <2>3, <2>5, VPages
    <3> QED BY <2>3, <2>5, <3>1 DEF CowInv, HandlerOK
  <2> QED BY <2>1, <2>2, <2>4, <2>5 DEF HandlerOK
<1> QED BY <1>5, <1>6, <1>7, <1>8, <1>9, <1>10, <1>11 DEF CowInv

----------------------------------------------------------------------------
(* spawn.                                                                  *)

(* A page that spawn allocates, for itself or for the child.               *)
LEMMA SpawnAllocInv ==
    ASSUME CowInv, NEW e \in Env, spawn_alloc(e) \/ spawn_bss(e)
    PROVE  CowInv'
<1>1. /\ st[e] = "run" /\ flt[e].at = "none" /\ job[e].at \in {"stack", "data", "bss"} /\ job[e].half = Tmp
      /\ In(e, job[e].at)
  BY DEF spawn_alloc, spawn_bss, In, Runs, CowInv, HalfOK
<1>2. CASE returns(e)
  BY <1>1, <1>2, ReturnsInv
<1>3. CASE ~ returns(e)
  <2>1. PICK d0 \in Env, v \in VPage, at \in {"stackmap", "datamap", "share"} :
          /\ Alloc(d0, v) /\ job' = [job EXCEPT ![e].at = at] /\ UNCHANGED <<st, handler, flt>>
          /\ at = "share" => d0 = job[e].child /\ v # TMPPAGE /\ d0 # e
          /\ at # "share" => d0 = e /\ v = TMPPAGE
          /\ st[d0] # "free"
    BY <1>1, <1>3, CowAssumption DEF spawn_alloc, spawn_bss, Next_, CowInv, JobOK
  <2>2. /\ job' \in [Env -> Job]
        /\ job'[e].at = at /\ job'[e].child = job[e].child /\ job'[e].half = job[e].half
        /\ \A d \in Env : d # e => job'[d] = job[d]
    BY <2>1, NextIs DEF CowInv
  <2>3. PICK g \in Frame :
          /\ Unmapped(g)
          /\ \A d \in Env, w \in Va :
                pt'[d][w] = IF d = d0 /\ w = v THEN [f |-> g, p |-> "w"] ELSE pt[d][w]
    BY <2>1, VPages, AllocIs DEF CowInv
  <2>4. frame' \in [Frame -> Value] /\ pt' \in [Env -> [Va -> Pte]]
    BY <2>1, VPages, AllocIs DEF CowInv
  <2>5. \A d \in Env, w \in Va : d # d0 \/ w # v => pt'[d][w] = pt[d][w] /\ pt[d][w].f # g
    BY <2>3 DEF Unmapped
  <2>6. pt'[d0][v].f = g /\ pt'[d0][v].p = "w" /\ g # NoFrame
    BY <2>3, VPages, CowAssumption
  <2>s. v \in Va /\ Stack \in Va /\ TMPPAGE \in Va /\ Stack # Tmp /\ TMPPAGE # Tmp /\ v # Tmp
    BY CowAssumption, VPages
  <2>7. CowTypeOK'
    <3>1. \A d \in Env, w \in Va : /\ pt'[d][w].p = "none" <=> pt'[d][w].f = NoFrame
                                   /\ st'[d] = "free" => pt'[d][w] = NoPte
      BY <2>1, <2>5, <2>6, PtesOK DEF CowInv
    <3> QED BY <2>1, <2>2, <2>4, <3>1 DEF CowInv, CowTypeOK
  <2>8. JobOK'
    BY <1>1, <2>1, <2>2 DEF CowInv, JobOK
  <2>9. HalfOK'
    <3>1. ASSUME NEW d \in Env, job'[d].half # Tmp
          PROVE  /\ d # e /\ job'[d] = job[d] /\ job[d].at = "dup" /\ job[d].half \in VPage
                 /\ job[d].child \in Env /\ d # d0 /\ job[d].child # d0
      BY <1>1, <2>1, <2>2, <3>1 DEF CowInv, HalfOK, JobOK
    <3>2. ASSUME NEW d \in Env, job'[d].half # Tmp
          PROVE  /\ pt'[d][Stack] = pt[d][Stack] /\ pt'[d][job[d].half] = pt[d][job[d].half]
                 /\ pt'[job[d].child][job[d].half] = pt[job[d].child][job[d].half]
      BY <2>5, <2>s, <3>1, <3>2, VPages
    <3>3. ASSUME NEW d \in Env, job'[d].half # Tmp
          PROVE  /\ job'[d] = job[d] /\ job[d].at = "dup" /\ job[d].half \in VPage /\ flt[d].at = "none"
                 /\ pt[d][Stack].p # "cow" /\ pt[d][job[d].half].p \in {"w", "cow"}
                 /\ pt[job[d].child][job[d].half].f = pt[d][job[d].half].f
                 /\ pt[job[d].child][job[d].half].p = "cow"
      <4>1. job'[d] = job[d] /\ job[d].half # Tmp
        BY <3>1, <3>3
      <4> QED BY <4>1 DEF CowInv, HalfOK
    <3>4. flt' = flt
      BY <2>1
    <3>5. ASSUME NEW d \in Env, job'[d].half # Tmp
          PROVE  /\ job'[d].at = "dup" /\ job'[d].half \in VPage /\ flt'[d].at = "none"
                 /\ pt'[d][Stack].p # "cow" /\ pt'[d][job'[d].half].p \in {"w", "cow"}
                 /\ pt'[job'[d].child][job'[d].half].f = pt'[d][job'[d].half].f
                 /\ pt'[job'[d].child][job'[d].half].p = "cow"
      <4>1. /\ pt'[d][Stack] = pt[d][Stack] /\ pt'[d][job[d].half] = pt[d][job[d].half]
            /\ pt'[job[d].child][job[d].half] = pt[job[d].child][job[d].half]
        BY ONLY <3>2, <3>5
      <4>2. /\ job'[d] = job[d] /\ job[d].at = "dup" /\ job[d].half \in VPage /\ flt[d].at = "none"
            /\ pt[d][Stack].p # "cow" /\ pt[d][job[d].half].p \in {"w", "cow"}
            /\ pt[job[d].child][job[d].half].f = pt[d][job[d].half].f
            /\ pt[job[d].child][job[d].half].p = "cow"
        BY ONLY <3>3, <3>5
      <4> QED BY ONLY <3>4, <4>1, <4>2
    <3> QED BY ONLY <3>5 DEF HalfOK
  <2>a. ASSUME NEW d \in Env, NEW w \in Va, d # d0 \/ w # v, Alone(d, w)
        PROVE  Alone(d, w)'
    BY <2>5, <2>6, <2>a DEF Alone
  <2>10. FltOK'
    <3>1. \A d \in Env : pt'[d][Tmp] = pt[d][Tmp]
      BY <2>5, <2>s, VPages
    <3>2. flt' = flt /\ flt[d0].at = "none"
      BY <1>1, <2>1 DEF CowInv, JobOK
    <3>3. \A d \in Env, w \in VPage : flt[d].at # "none" => pt'[d][w] = pt[d][w]
      BY <2>5, <3>2, VPages
    <3> QED BY <2>a, <2>s, <3>1, <3>2, <3>3, VPages DEF CowInv, FltOK
  <2>11. SpawnOK'
    <3>1. \A d \in Env : pt'[d][TMPPAGE].p = pt[d][TMPPAGE].p \/ pt'[d][TMPPAGE].p = "w"
      BY <2>5, <2>6, <2>s
    <3>2. at # "share" => Alone(e, TMPPAGE)'
      BY <2>1, <2>5, <2>6 DEF Alone
    <3>3. ASSUME NEW d \in Env, d # e, job[d].at \in {"stackmap", "datamap"}
          PROVE  Alone(d, TMPPAGE)'
      <4>1. Alone(d, TMPPAGE) /\ (d # d0 \/ TMPPAGE # v)
        BY <2>1, <3>3 DEF CowInv, SpawnOK
      <4> QED BY <2>a, <2>s, <4>1
    <3> QED BY <2>1, <2>2, <3>1, <3>2, <3>3 DEF CowInv, SpawnOK
  <2>12. WritableIsPrivate'
    <3> SUFFICES ASSUME NEW x \in Env, NEW y \in Env, NEW a \in Va, NEW b \in Va,
                        pt'[x][a].p = "w", pt'[y][b].f = pt'[x][a].f, x # y \/ a # b
                 PROVE  Excused(x, a, y, b)'
      BY DEF WritableIsPrivate
    <3>1. pt'[x][a] = pt[x][a] /\ pt'[y][b] = pt[y][b]
      BY <2>5, <2>6
    <3>2. Excused(x, a, y, b)
      BY <3>1 DEF CowInv, WritableIsPrivate
    <3> QED BY <2>1, <2>2, <3>2 DEF Excused
  <2>13. HandlerOK'
    <3>1. \A d \in Env, w \in VPage : pt'[d][w].p = "cow" => pt[d][w].p = "cow"
      BY <2>5, <2>6, VPages
    <3>2. st' = st /\ handler' = handler
      BY <2>1
    <3>3. CowHasHandler'
      BY <3>1, <3>2 DEF CowInv, HandlerOK, CowHasHandler
    <3>4. \A d \in Env : job'[d].at \in {"dup", "handler"} => job[d].at \in {"dup", "handler"}
      BY <2>1, <2>2
    <3>5. \A d \in Env : job'[d].at \notin {"idle", "dup", "handler"} =>
                job[d].at \notin {"idle", "dup", "handler"} /\ job'[d].child = job[d].child /\ job[d].child \in Env
      BY <1>1, <2>1, <2>2 DEF CowInv, JobOK
    <3> QED BY <3>1, <3>2, <3>3, <3>4, <3>5 DEF CowInv, HandlerOK
  <2> QED BY <2>7, <2>8, <2>9, <2>10, <2>11, <2>12, <2>13 DEF CowInv
<1> QED BY <1>2, <1>3

(* spawn maps pages of its own in the child: the pages in S become those   *)
(* at src.                                                                 *)
Shares(e, at, S, src) ==
    /\ Runs(e) /\ job[e].at \in {"stackmap", "datamap", "text", "share"}
    /\ at \in {"stackunmap", "stackerror", "text", "data", "bss", "share", "start"}
    /\ job' = [job EXCEPT ![e].at = at] /\ UNCHANGED <<frame, st, handler, flt>>
    /\ S \in SUBSET Va /\ TMPPAGE \notin S /\ Tmp \notin S /\ src \in [S -> Va]
    /\ pt' \in [Env -> [Va -> Pte]]
    /\ \A d \in Env, w \in Va : d # job[e].child \/ w \notin S => pt'[d][w] = pt[d][w]
    /\ \A w \in S : /\ pt'[job[e].child][w].f = pt[e][src[w]].f
                     /\ pt'[job[e].child][w].p \in {"w", "ro", "lib"}
                     /\ \/ pt[e][src[w]].p = "lib" /\ pt'[job[e].child][w].p # "w"
                        \/ S = {w} /\ src[w] = TMPPAGE /\ Alone(e, TMPPAGE)

(* A page of its own that spawn maps in the child: one it has just built,  *)
(* or any number of pages that are not written copy-on-write.              *)
LEMMA ShareInv ==
    ASSUME CowInv, NEW e \in Env, NEW at, NEW S, NEW src, Shares(e, at, S, src)
    PROVE  CowInv'
<1> DEFINE c == job[e].child
<1>0. /\ Runs(e) /\ job[e].at \in {"stackmap", "datamap", "text", "share"}
      /\ at \in {"stackunmap", "stackerror", "text", "data", "bss", "share", "start"}
      /\ job' = [job EXCEPT ![e].at = at] /\ UNCHANGED <<frame, st, handler, flt>>
      /\ S \in SUBSET Va /\ TMPPAGE \notin S /\ Tmp \notin S /\ src \in [S -> Va]
      /\ pt' \in [Env -> [Va -> Pte]]
      /\ \A d \in Env, w \in Va : d # c \/ w \notin S => pt'[d][w] = pt[d][w]
      /\ \A w \in S : /\ pt'[c][w].f = pt[e][src[w]].f
                       /\ pt'[c][w].p \in {"w", "ro", "lib"}
                       /\ \/ pt[e][src[w]].p = "lib" /\ pt'[c][w].p # "w"
                          \/ S = {w} /\ src[w] = TMPPAGE /\ Alone(e, TMPPAGE)
  BY DEF Shares
<1>1. /\ st[e] = "run" /\ flt[e].at = "none" /\ job[e].half = Tmp
      /\ c \in Env /\ c # e /\ st[c] = "made" /\ job[c].at = "idle" /\ flt[c].at = "none"
  BY <1>0 DEF Runs, CowInv, HalfOK, JobOK
<1>2. /\ job' \in [Env -> Job]
      /\ job'[e].at = at /\ job'[e].child = c /\ job'[e].half = Tmp
      /\ \A d \in Env : d # e => job'[d] = job[d]
  <2>1. /\ job' \in [Env -> Job]
        /\ job'[e].at = at /\ job'[e].child = job[e].child /\ job'[e].half = job[e].half
        /\ \A d \in Env : d # e => job'[d] = job[d]
    BY ONLY <1>0, CowInv, NextIs DEF CowInv
  <2> QED BY ONLY <1>1, <2>1
<1> USE <1>0
<1>3. Stack \in Va /\ TMPPAGE \in Va /\ Stack # Tmp /\ TMPPAGE # Tmp
  BY CowAssumption, VPages
<1>4. \A w \in S : src[w] \in Va /\ pt[e][src[w]].f # NoFrame /\ src[w] # Tmp
  <2> TAKE w \in S
  <2>1. src[w] \in Va /\ pt[e][src[w]].p # "none"
    BY <1>3 DEF Alone
  <2>2. pt[e][Tmp].p = "none"
    BY <1>1 DEF CowInv, FltOK
  <2> QED BY <2>1, <2>2, PtesOK DEF CowInv
<1>5. CowTypeOK'
  <2>1. \A w \in S : pt'[c][w].f # NoFrame /\ pt'[c][w].p # "none"
    BY <1>4
  <2>2. \A d \in Env, w \in Va : /\ pt'[d][w].p = "none" <=> pt'[d][w].f = NoFrame
                                 /\ st'[d] = "free" => pt'[d][w] = NoPte
    BY <1>1, <2>1, PtesOK DEF CowInv
  <2> QED BY <1>2, <2>2 DEF CowInv, CowTypeOK
<1>6. JobOK'
  BY <1>1, <1>2 DEF CowInv, JobOK
<1>7. HalfOK'
  <2>1. ASSUME NEW d \in Env, job'[d].half # Tmp
        PROVE  /\ d # e /\ job'[d] = job[d] /\ job[d].at = "dup" /\ job[d].half \in VPage
               /\ job[d].child \in Env /\ d # c /\ job[d].child # c
    BY <1>1, <1>2, <2>1 DEF CowInv, HalfOK, JobOK
  <2>2. ASSUME NEW d \in Env, job'[d].half # Tmp
        PROVE  /\ pt'[d][Stack] = pt[d][Stack] /\ pt'[d][job[d].half] = pt[d][job[d].half]
               /\ pt'[job[d].child][job[d].half] = pt[job[d].child][job[d].half]
    BY <1>3, <2>1, <2>2, VPages
  <2> QED BY <2>1, <2>2, SMTT(20) DEF CowInv, HalfOK
<1>8. \A w \in S : pt[e][src[w]].p = "lib" \/ Alone(e, TMPPAGE)
  OBVIOUS
<1>a. ASSUME NEW d \in Env, NEW w \in Va, Alone(d, w), d # e \/ w # TMPPAGE, d # c \/ w \notin S
      PROVE  Alone(d, w)'
  <2>1. pt'[d][w] = pt[d][w] /\ pt[d][w].p = "w"
    BY <1>a DEF Alone
  <2>2. \A u \in S : pt'[c][u].f # pt[d][w].f
    <3> TAKE u \in S
    <3>1. CASE pt[e][src[u]].p = "lib"
      BY <1>1, <1>4, <1>a, <2>1, <3>1 DEF Alone
    <3>2. CASE src[u] = TMPPAGE
      BY <1>1, <1>4, <1>a, <3>2 DEF Alone
    <3> QED BY <3>1, <3>2
  <2> QED BY <1>a, <2>1, <2>2 DEF Alone
<1>9. FltOK'
  <2>1. \A d \in Env : pt'[d][Tmp] = pt[d][Tmp]
    BY VPages
  <2>2. \A d \in Env, w \in VPage : flt[d].at # "none" => pt'[d][w] = pt[d][w]
    BY <1>1, VPages
  <2>3. \A d \in Env : Alone(d, Tmp) => Alone(d, Tmp)'
    BY <1>3, <1>a, VPages
  <2> QED BY <2>1, <2>2, <2>3, VPages DEF CowInv, FltOK
<1>10. SpawnOK'
  <2>1. \A d \in Env : pt'[d][TMPPAGE] = pt[d][TMPPAGE]
    BY <1>3
  <2>2. ASSUME NEW d \in Env, job'[d].at \in {"stackmap", "datamap"}
        PROVE  d # e /\ Alone(d, TMPPAGE)
    BY <1>2, <2>2 DEF CowInv, SpawnOK
  <2>3. ASSUME NEW d \in Env, job'[d].at \in {"stackmap", "datamap"}
        PROVE  Alone(d, TMPPAGE)'
    BY <1>3, <1>a, <2>2, <2>3
  <2> QED BY <2>1, <2>3 DEF CowInv, SpawnOK
<1>11. WritableIsPrivate'
  <2> SUFFICES ASSUME NEW x \in Env, NEW y \in Env, NEW a \in Va, NEW b \in Va,
                      pt'[x][a].p = "w", pt'[y][b].f = pt'[x][a].f, x # y \/ a # b
               PROVE  Excused(x, a, y, b)'
    BY DEF WritableIsPrivate
  <2>1. CASE x = c /\ a \in S
    <3>1. S = {a} /\ src[a] = TMPPAGE /\ Alone(e, TMPPAGE) /\ pt'[x][a].f = pt[e][TMPPAGE].f
      BY <2>1
    <3>2. y = e /\ b = TMPPAGE
      BY <2>1, <3>1 DEF Alone
    <3> QED BY <3>2 DEF Excused
  <2>2. CASE ~ (x = c /\ a \in S) /\ y = c /\ b \in S
    <3>1. pt'[x][a] = pt[x][a] /\ pt[e][src[b]].f = pt[x][a].f
      BY <2>2
    <3>2. CASE pt[e][src[b]].p = "lib"
      <4>1. src[b] # TMPPAGE
        BY <3>2 DEF CowInv, SpawnOK
      <4>2. Excused(x, a, e, src[b])
        BY <1>4, <2>2, <3>1, <3>2 DEF CowInv, WritableIsPrivate
      <4>3. a = TMPPAGE
        BY <1>1, <4>1, <4>2 DEF Excused, CowInv, HalfOK, JobOK
      <4> QED BY <4>3 DEF Excused
    <3>3. CASE src[b] = TMPPAGE /\ Alone(e, TMPPAGE)
      <4>1. x = e /\ a = TMPPAGE
        BY <3>1, <3>3 DEF Alone
      <4> QED BY <4>1 DEF Excused
    <3> QED BY <2>2, <3>2, <3>3
  <2>3. CASE ~ (x = c /\ a \in S) /\ ~ (y = c /\ b \in S)
    <3>1. pt'[x][a] = pt[x][a] /\ pt'[y][b] = pt[y][b]
      BY <2>3
    <3>2. Excused(x, a, y, b)
      BY <3>1 DEF CowInv, WritableIsPrivate
    <3> QED BY <1>1, <1>2, <3>2 DEF Excused
  <2> QED BY <2>1, <2>2, <2>3
<1>12. HandlerOK'
  <2>1. \A d \in Env, w \in VPage : pt'[d][w].p = "cow" => pt[d][w].p = "cow"
    BY VPages
  <2>2. CowHasHandler'
    BY <2>1 DEF CowInv, HandlerOK, CowHasHandler
  <2>3. \A d \in Env : job'[d].at \in {"dup", "handler"} => job[d].at \in {"dup", "handler"}
    BY <1>2
  <2>4. \A d \in Env : job'[d].at \notin {"idle", "dup", "handler"} =>
            job[d].at \notin {"idle", "dup", "handler"} /\ job'[d].child = job[d].child /\ job[d].child \in Env
    BY <1>1, <1>2 DEF CowInv, JobOK
  <2>5. ASSUME NEW d \in Env, job'[d].at \notin {"idle", "dup", "handler"}, NEW w \in VPage,
               pt'[job'[d].child][w].p = "cow"
        PROVE  handler'[job'[d].child]
    <3>1. pt[job[d].child][w].p = "cow"
      BY <2>1, <2>4, <2>5
    <3> QED BY <2>4, <2>5, <3>1 DEF CowInv, HandlerOK
  <2>6. \A d \in Env : job'[d].at \in {"dup", "handler"} => handler'[d]
    BY <2>3 DEF CowInv, HandlerOK
  <2> QED BY ONLY <2>2, <2>5, <2>6 DEF HandlerOK
<1> QED BY <1>5, <1>6, <1>7, <1>9, <1>10, <1>11, <1>12 DEF CowInv

(* The page built at TMPPAGE goes to the child.                            *)
LEMMA SpawnMapInv ==
    ASSUME CowInv, NEW e \in Env, spawn_map(e)
    PROVE  CowInv'
<1> DEFINE v == IF job[e].at = "stackmap" THEN Stack ELSE Data
           at == IF job[e].at = "stackmap" THEN "stackunmap" ELSE "bss"
           src == [w \in {v} |-> TMPPAGE]
<1>1. /\ Runs(e) /\ job[e].at \in {"stackmap", "datamap"} /\ job[e].half = Tmp /\ In(e, job[e].at)
      /\ job[e].child \in Env /\ Alone(e, TMPPAGE)
  BY DEF spawn_map, In, CowInv, HalfOK, JobOK, SpawnOK
<1>2. CASE returns(e)
  BY <1>1, <1>2, ReturnsInv
<1>3. CASE /\ Maps(job[e].child, v, pt[e][TMPPAGE]) /\ Next_(e, at) /\ UNCHANGED <<frame, st>>
  <2>1. v \in VPage /\ v \in Va /\ TMPPAGE \in Va /\ v # TMPPAGE /\ v # Tmp
    BY CowAssumption, VPages
  <2>2. pt[e][TMPPAGE] \in Pte /\ pt[e][TMPPAGE].p = "w"
    BY <1>1, <2>1 DEF CowInv, CowTypeOK, Alone
  <2>3. /\ pt' \in [Env -> [Va -> Pte]]
        /\ \A d \in Env, w \in Va :
              pt'[d][w] = IF d = job[e].child /\ w = v THEN pt[e][TMPPAGE] ELSE pt[d][w]
    BY <1>1, <1>3, <2>1, <2>2, MapsIs DEF CowInv
  <2>4. src \in [{v} -> Va] /\ \A w \in {v} : src[w] = TMPPAGE /\ {v} = {w} /\ w = v
    BY <2>1
  <2>5. at \in {"stackunmap", "stackerror", "text", "data", "bss", "share", "start"} /\ job' = [job EXCEPT ![e].at = at]
    BY <1>3 DEF Next_
  <2>6. {v} \in SUBSET Va /\ TMPPAGE \notin {v} /\ Tmp \notin {v}
    BY <2>1
  <2>7. \A d \in Env, w \in Va : d # job[e].child \/ w \notin {v} => pt'[d][w] = pt[d][w]
    BY <2>3
  <2>8. \A w \in {v} : /\ pt'[job[e].child][w].f = pt[e][src[w]].f
                       /\ pt'[job[e].child][w].p \in {"w", "ro", "lib"}
                       /\ \/ pt[e][src[w]].p = "lib" /\ pt'[job[e].child][w].p # "w"
                          \/ {v} = {w} /\ src[w] = TMPPAGE /\ Alone(e, TMPPAGE)
    BY <1>1, <2>1, <2>2, <2>3, <2>4
  <2>9. UNCHANGED <<frame, st, handler, flt>> /\ job[e].at \in {"stackmap", "datamap", "text", "share"}
    BY <1>1, <1>3 DEF Next_
  <2> HIDE DEF v, at, src
  <2>10. src \in [{v} -> Va] /\ Runs(e)
    BY <1>1, <2>1, <2>4
  <2>11. Shares(e, at, {v}, src)
    BY ONLY <2>3, <2>5, <2>6, <2>7, <2>8, <2>9, <2>10 DEF Shares
  <2> QED BY <2>11, ShareInv
<1>4. CASE job[e].at = "stackmap" /\ Next_(e, "stackerror") /\ UNCHANGED <<frame, pt, st>>
  <2>1. job' = [job EXCEPT ![e].at = "stackerror"] /\ UNCHANGED <<frame, st, handler, flt>> /\ pt' = pt
    BY <1>4 DEF Next_
  <2>2. "stackerror" \in {"stackunmap", "stackerror", "text", "data", "bss", "share", "start"}
    OBVIOUS
  <2>3. job[e].at \in {"stackmap", "datamap", "text", "share"}
    BY <1>1
  <2>4. pt' \in [Env -> [Va -> Pte]]
    BY <2>1 DEF CowInv, CowTypeOK
  <2>5. {} \in SUBSET Va /\ [w \in {} |-> TMPPAGE] \in [{} -> Va] /\ TMPPAGE \notin {} /\ Tmp \notin {}
    OBVIOUS
  <2>6. \A d \in Env, w \in Va : d # job[e].child \/ w \notin {} => pt'[d][w] = pt[d][w]
    BY <2>1
  <2>7. \A w \in {} : /\ pt'[job[e].child][w].f = pt[e][[x \in {} |-> TMPPAGE][w]].f
                      /\ pt'[job[e].child][w].p \in {"w", "ro", "lib"}
                      /\ \/ pt[e][[x \in {} |-> TMPPAGE][w]].p = "lib" /\ pt'[job[e].child][w].p # "w"
                         \/ {} = {w} /\ [x \in {} |-> TMPPAGE][w] = TMPPAGE /\ Alone(e, TMPPAGE)
    OBVIOUS
  <2>8. Shares(e, "stackerror", {}, [w \in {} |-> TMPPAGE])
    BY ONLY <1>1, <2>1, <2>2, <2>3, <2>4, <2>5, <2>6, <2>7 DEF Shares
  <2> QED BY <2>8, ShareInv
<1> QED BY <1>1, <1>2, <1>3, <1>4 DEF spawn_map

(* The text is the file server's page.                                     *)
LEMMA SpawnTextInv ==
    ASSUME CowInv, NEW e \in Env, spawn_text(e)
    PROVE  CowInv'
<1>1. /\ Runs(e) /\ job[e].at = "text" /\ job[e].half = Tmp /\ In(e, job[e].at) /\ job[e].child \in Env
  BY DEF spawn_text, In, CowInv, HalfOK, JobOK
<1>2. CASE returns(e)
  BY <1>1, <1>2, ReturnsInv
<1>3. CASE /\ \E v \in VPage : /\ pt[e][v].p = "lib"
                              /\ Maps(job[e].child, Text, [f |-> pt[e][v].f, p |-> "ro"])
           /\ Next_(e, "data") /\ UNCHANGED <<frame, st>>
  <2>1. PICK v \in VPage : pt[e][v].p = "lib" /\ Maps(job[e].child, Text, [f |-> pt[e][v].f, p |-> "ro"])
    BY <1>3
  <2> DEFINE src == [w \in {Text} |-> v]
  <2>2. v \in Va /\ Text \in Va /\ Text # TMPPAGE /\ Text # Tmp
    BY CowAssumption, VPages
  <2>3. [f |-> pt[e][v].f, p |-> "ro"] \in Pte
    BY <2>2 DEF CowInv, CowTypeOK, Pte, Perm
  <2>4. /\ pt' \in [Env -> [Va -> Pte]]
        /\ \A d \in Env, w \in Va :
              pt'[d][w] = IF d = job[e].child /\ w = Text THEN [f |-> pt[e][v].f, p |-> "ro"] ELSE pt[d][w]
    BY <1>1, <2>1, <2>2, <2>3, MapsIs DEF CowInv
  <2>5. src \in [{Text} -> Va] /\ \A w \in {Text} : src[w] = v /\ w = Text
    BY <2>2
  <2>6. job' = [job EXCEPT ![e].at = "data"] /\ UNCHANGED <<frame, st, handler, flt>>
    BY <1>3 DEF Next_
  <2>7. {Text} \in SUBSET Va /\ TMPPAGE \notin {Text} /\ Tmp \notin {Text}
    BY <2>2
  <2>8. \A d \in Env, w \in Va : d # job[e].child \/ w \notin {Text} => pt'[d][w] = pt[d][w]
    BY <2>4
  <2>9. \A w \in {Text} : /\ pt'[job[e].child][w].f = pt[e][src[w]].f
                          /\ pt'[job[e].child][w].p \in {"w", "ro", "lib"}
                          /\ \/ pt[e][src[w]].p = "lib" /\ pt'[job[e].child][w].p # "w"
                             \/ {Text} = {w} /\ src[w] = TMPPAGE /\ Alone(e, TMPPAGE)
    BY <1>1, <2>1, <2>2, <2>4, <2>5
  <2>10. "data" \in {"stackunmap", "stackerror", "text", "data", "bss", "share", "start"} /\ job[e].at \in {"stackmap", "datamap", "text", "share"}
    BY <1>1
  <2> HIDE DEF src
  <2>11. Shares(e, "data", {Text}, src)
    BY ONLY <1>1, <2>4, <2>5, <2>6, <2>7, <2>8, <2>9, <2>10 DEF Shares
  <2> QED BY <2>11, ShareInv
<1> QED BY <1>2, <1>3 DEF spawn_text

(* The library pages are shared.                                           *)
LEMMA SpawnShareInv ==
    ASSUME CowInv, NEW e \in Env, spawn_share(e)
    PROVE  CowInv'
<1> DEFINE c == job[e].child
<1>0. In(e, "share") /\ In(e, job[e].at) /\ job[e].half = Tmp
  BY DEF spawn_share, In, CowInv, HalfOK
<1>r. CASE returns(e)
  BY <1>0, <1>r, ReturnsInv
<1> SUFFICES ASSUME ~ returns(e)
             PROVE  CowInv'
  BY <1>r
<1>1. /\ Runs(e) /\ job[e].at = "share" /\ c \in Env /\ job' = [job EXCEPT ![e].at = "start"]
      /\ UNCHANGED <<frame, st, handler, flt>>
  BY DEF spawn_share, In, CowInv, JobOK, Next_
<1>2. PICK S \in SUBSET {v \in VPage : pt[e][v].p = "lib"} :
        pt' = [pt EXCEPT ![c] = [v \in Va |-> IF v \in S THEN pt[e][v] ELSE pt[c][v]]]
  BY DEF spawn_share
<1> DEFINE src == [w \in S |-> w]
<1>3. S \in SUBSET Va /\ TMPPAGE \notin S /\ Tmp \notin S /\ \A w \in S : pt[e][w].p = "lib"
  BY VPages DEF CowInv, SpawnOK
<1>4. /\ pt' \in [Env -> [Va -> Pte]]
      /\ \A d \in Env, w \in Va : d # c \/ w \notin S => pt'[d][w] = pt[d][w]
      /\ \A w \in S : pt'[c][w] = pt[e][w]
  <2>1. [v \in Va |-> IF v \in S THEN pt[e][v] ELSE pt[c][v]] \in [Va -> Pte]
    BY <1>1 DEF CowInv, CowTypeOK
  <2> QED BY <1>1, <1>2, <1>3, <2>1 DEF CowInv, CowTypeOK
<1>5. src \in [S -> Va] /\ \A w \in S : src[w] = w
  BY <1>3
<1>6. \A w \in S : /\ pt'[c][w].f = pt[e][src[w]].f
                   /\ pt'[c][w].p \in {"w", "ro", "lib"}
                   /\ \/ pt[e][src[w]].p = "lib" /\ pt'[c][w].p # "w"
                      \/ S = {w} /\ src[w] = TMPPAGE /\ Alone(e, TMPPAGE)
  BY <1>3, <1>4, <1>5
<1>7. "start" \in {"stackunmap", "stackerror", "text", "data", "bss", "share", "start"} /\ job[e].at \in {"stackmap", "datamap", "text", "share"}
  BY <1>1
<1> HIDE DEF src
<1>8. \A d \in Env, w \in Va : d # job[e].child \/ w \notin S => pt'[d][w] = pt[d][w]
  BY <1>4
<1>9. Shares(e, "start", S, src)
  BY ONLY <1>1, <1>3, <1>4, <1>5, <1>6, <1>7, <1>8 DEF Shares
<1> QED BY <1>9, ShareInv

(* init_stack takes its page away from TMPPAGE.                            *)
LEMMA SpawnUnmapInv ==
    ASSUME CowInv, NEW e \in Env, spawn_unmap(e)
    PROVE  CowInv'
<1>1. /\ st[e] = "run" /\ flt[e].at = "none" /\ job[e].at \in {"stackunmap", "stackerror"} /\ job[e].half = Tmp
      /\ UNCHANGED <<frame, st, handler, flt>> /\ Maps(e, TMPPAGE, NoPte)
      /\ job' = [job EXCEPT ![e].at = "text"] \/ job' = [job EXCEPT ![e] = NoJob]
  BY DEF spawn_unmap, Runs, CowInv, HalfOK
<1>2. /\ job' \in [Env -> Job]
      /\ job'[e].at = "idle" \/ (job'[e].at = "text" /\ job'[e].child = job[e].child)
      /\ job'[e].half = Tmp
      /\ \A d \in Env : d # e => job'[d] = job[d]
  <2>1. CASE job' = [job EXCEPT ![e].at = "text"]
    BY <1>1, <2>1, NextIs DEF CowInv
  <2>2. CASE job' = [job EXCEPT ![e] = NoJob]
    <3>1. NoJob \in Job /\ NoJob.at = "idle" /\ NoJob.half = Tmp
      BY VPages DEF NoJob, Job
    <3> QED BY <2>2, <3>1 DEF CowInv, CowTypeOK
  <2> QED BY <1>1, <2>1, <2>2
<1>3. Stack \in Va /\ TMPPAGE \in Va /\ Stack # Tmp /\ TMPPAGE # Tmp
  BY CowAssumption, VPages
<1>4. /\ pt' \in [Env -> [Va -> Pte]]
      /\ \A d \in Env, w \in Va : d # e \/ w # TMPPAGE => pt'[d][w] = pt[d][w]
      /\ pt'[e][TMPPAGE] = NoPte /\ pt'[e][TMPPAGE].f = NoFrame /\ pt'[e][TMPPAGE].p = "none"
  <2>1. NoPte \in Pte /\ NoPte.f = NoFrame /\ NoPte.p = "none"
    BY DEF NoPte, Pte, Perm
  <2> QED BY <1>1, <1>3, <2>1, MapsIs DEF CowInv
<1>5. CowTypeOK'
  <2>1. \A d \in Env, w \in Va : /\ pt'[d][w].p = "none" <=> pt'[d][w].f = NoFrame
                                 /\ st'[d] = "free" => pt'[d][w] = NoPte
    BY <1>1, <1>4, PtesOK DEF CowInv
  <2> QED BY <1>1, <1>2, <1>4, <2>1 DEF CowInv, CowTypeOK
<1>6. JobOK'
  BY <1>1, <1>2 DEF CowInv, JobOK
<1>7. HalfOK'
  <2>1. ASSUME NEW d \in Env, job'[d].half # Tmp
        PROVE  /\ d # e /\ job'[d] = job[d] /\ job[d].at = "dup" /\ job[d].half \in VPage
               /\ job[d].child \in Env /\ job[d].child # e
    BY <1>1, <1>2, <2>1 DEF CowInv, HalfOK, JobOK
  <2>2. ASSUME NEW d \in Env, job'[d].half # Tmp
        PROVE  /\ pt'[d][Stack] = pt[d][Stack] /\ pt'[d][job[d].half] = pt[d][job[d].half]
               /\ pt'[job[d].child][job[d].half] = pt[job[d].child][job[d].half]
    BY <1>3, <1>4, <2>1, <2>2, VPages
  <2>3. ASSUME NEW d \in Env, job'[d].half # Tmp
        PROVE  /\ flt'[d].at = "none" /\ pt'[d][Stack].p # "cow"
               /\ pt'[d][job[d].half].p \in {"w", "cow"}
               /\ pt'[job[d].child][job[d].half].f = pt'[d][job[d].half].f
               /\ pt'[job[d].child][job[d].half].p = "cow"
    <3>1. job[d].half # Tmp /\ flt'[d] = flt[d]
      BY <1>1, <2>1, <2>3
    <3> QED BY <2>2, <2>3, <3>1 DEF CowInv, HalfOK
  <2> QED BY <2>1, <2>3 DEF HalfOK
<1>a. ASSUME NEW d \in Env, NEW w \in Va, Alone(d, w), d # e \/ w # TMPPAGE
      PROVE  Alone(d, w)'
  <2>1. pt'[d][w] = pt[d][w] /\ pt[d][w].p = "w" /\ pt[d][w].f # NoFrame
    BY <1>4, <1>a, PtesOK DEF Alone, CowInv
  <2> QED BY <1>4, <1>a, <2>1 DEF Alone
<1>8. FltOK'
  <2>1. \A d \in Env : pt'[d][Tmp] = pt[d][Tmp]
    BY <1>3, <1>4, VPages
  <2>2. \A d \in Env, w \in VPage : flt[d].at # "none" => pt'[d][w] = pt[d][w]
    BY <1>1, <1>4, VPages
  <2>3. \A d \in Env : Alone(d, Tmp) => Alone(d, Tmp)'
    BY <1>3, <1>a, VPages
  <2> QED BY <1>1, <2>1, <2>2, <2>3, VPages DEF CowInv, FltOK
<1>9. SpawnOK'
  <2>1. \A d \in Env : pt'[d][TMPPAGE].p = pt[d][TMPPAGE].p \/ pt'[d][TMPPAGE].p = "none"
    BY <1>3, <1>4
  <2>2. ASSUME NEW d \in Env, job'[d].at \in {"stackmap", "datamap"}
        PROVE  d # e /\ Alone(d, TMPPAGE)
    BY <1>2, <2>2 DEF CowInv, SpawnOK
  <2>3. ASSUME NEW d \in Env, job'[d].at \in {"stackmap", "datamap"}
        PROVE  Alone(d, TMPPAGE)'
    BY <1>3, <1>a, <2>2, <2>3
  <2> QED BY <2>1, <2>3 DEF CowInv, SpawnOK
<1>10. WritableIsPrivate'
  <2> SUFFICES ASSUME NEW x \in Env, NEW y \in Env, NEW a \in Va, NEW b \in Va,
                      pt'[x][a].p = "w", pt'[y][b].f = pt'[x][a].f, x # y \/ a # b
               PROVE  Excused(x, a, y, b)'
    BY DEF WritableIsPrivate
  <2>1. CASE TMPPAGE \in {a, b}
    BY <2>1 DEF Excused
  <2>2. CASE TMPPAGE \notin {a, b}
    <3>1. pt'[x][a] = pt[x][a] /\ pt'[y][b] = pt[y][b]
      BY <1>4, <2>2
    <3>2. Excused(x, a, y, b)
      BY <3>1 DEF CowInv, WritableIsPrivate
    <3> QED BY <1>1, <1>2, <3>2 DEF Excused
  <2> QED BY <2>1, <2>2
<1>11. HandlerOK'
  <2>1. \A d \in Env, w \in VPage : pt'[d][w].p = "cow" => pt[d][w].p = "cow"
    BY <1>4, VPages
  <2>2. st' = st /\ handler' = handler
    BY <1>1
  <2>3. CowHasHandler'
    BY <2>1, <2>2 DEF CowInv, HandlerOK, CowHasHandler
  <2>4. \A d \in Env : job'[d].at \in {"dup", "handler"} => job[d].at \in {"dup", "handler"}
    BY <1>2
  <2>5. \A d \in Env : job'[d].at \notin {"idle", "dup", "handler"} =>
            job[d].at \notin {"idle", "dup", "handler"} /\ job'[d].child = job[d].child /\ job[d].child \in Env
    BY <1>1, <1>2 DEF CowInv, JobOK
  <2> QED BY <2>1, <2>2, <2>3, <2>4, <2>5 DEF CowInv, HandlerOK
<1> QED BY <1>5, <1>6, <1>7, <1>8, <1>9, <1>10, <1>11 DEF CowInv

----------------------------------------------------------------------------
(* The theorems.                                                           *)

(* At boot one environment has a few pages, each in a frame of its own.    *)
LEMMA InitInv == Init => CowInv
<1> SUFFICES ASSUME Init PROVE CowInv
  OBVIOUS
<1>1. PICK e \in Env, phys \in [{v \in VPage : Boot[v] # "none"} -> Frame] :
        /\ \A v, w \in DOMAIN phys : phys[v] = phys[w] => v = w
        /\ pt = [d \in Env |-> [v \in Va |->
                    IF d = e /\ v \in DOMAIN phys THEN [f |-> phys[v], p |-> Boot[v]] ELSE NoPte]]
        /\ st = [d \in Env |-> IF d = e THEN "run" ELSE "free"]
  BY DEF Init
<1> DEFINE D == {v \in VPage : Boot[v] # "none"}
<1>2. /\ D \subseteq VPage /\ D \subseteq Va /\ TMPPAGE \notin D /\ Tmp \notin D /\ Tmp \in Va /\ TMPPAGE \in Va
      /\ \A v \in D : Boot[v] \in {"w", "lib"} /\ phys[v] \in Frame /\ phys[v] # NoFrame
  BY VPages, CowAssumption
<1>3. /\ NoPte \in Pte /\ NoPte.f = NoFrame /\ NoPte.p = "none"
      /\ NoJob \in Job /\ NoJob.at = "idle" /\ NoJob.half = Tmp
      /\ NoFault \in Fault /\ NoFault.at = "none"
  BY VPages DEF NoPte, Pte, Perm, NoJob, Job, NoFault, Fault
<1>4. /\ \A d \in Env, v \in Va : d = e /\ v \in D => pt[d][v].f = phys[v] /\ pt[d][v].p = Boot[v]
      /\ \A d \in Env, v \in Va : ~ (d = e /\ v \in D) => pt[d][v] = NoPte
  BY <1>1
<1>5. \A d \in Env : /\ st[d] = IF d = e THEN "run" ELSE "free"
                     /\ job[d] = NoJob /\ flt[d] = NoFault /\ handler[d] = FALSE
  BY <1>1 DEF Init
<1>6. CowTypeOK
  <2>1. \A v \in D : [f |-> phys[v], p |-> Boot[v]] \in Pte
    BY <1>2 DEF Pte, Perm
  <2>2. pt \in [Env -> [Va -> Pte]]
    BY <1>1, <1>3, <2>1
  <2>3. /\ frame \in [Frame -> Value] /\ st \in [Env -> {"free", "made", "run", "panic"}]
        /\ handler \in [Env -> BOOLEAN] /\ job \in [Env -> Job] /\ flt \in [Env -> Fault]
    BY <1>1, <1>3 DEF Init
  <2>4. \A d \in Env, v \in Va : /\ pt[d][v].p = "none" <=> pt[d][v].f = NoFrame
                                 /\ st[d] = "free" => pt[d][v] = NoPte
    BY <1>2, <1>3, <1>4, <1>5
  <2> QED BY <2>2, <2>3, <2>4 DEF CowTypeOK
<1>7. JobOK /\ HalfOK
  BY <1>3, <1>5 DEF JobOK, HalfOK
<1>8. FltOK /\ SpawnOK
  BY <1>2, <1>3, <1>4, <1>5 DEF FltOK, SpawnOK
<1>9. WritableIsPrivate
  <2> SUFFICES ASSUME NEW x \in Env, NEW y \in Env, NEW a \in Va, NEW b \in Va,
                      pt[x][a].p = "w", pt[y][b].f = pt[x][a].f, x # y \/ a # b
               PROVE  FALSE
    BY DEF WritableIsPrivate
  <2>1. x = e /\ a \in D /\ pt[x][a].f = phys[a]
    BY <1>3, <1>4
  <2>2. y = e /\ b \in D /\ pt[y][b].f = phys[b]
    BY <1>2, <1>3, <1>4, <2>1
  <2> QED BY <1>1, <2>1, <2>2
<1>10. HandlerOK
  <2>1. \A d \in Env, v \in Va : pt[d][v].p # "cow"
    BY <1>2, <1>3, <1>4
  <2> QED BY <1>3, <1>5, <2>1, VPages DEF HandlerOK, CowHasHandler
<1> QED BY <1>6, <1>7, <1>8, <1>9, <1>10 DEF CowInv

(* Every step of every environment keeps the invariant.                    *)
LEMMA StepInv == CowInv /\ [Next]_vars => CowInv'
<1> SUFFICES ASSUME CowInv, [Next]_vars PROVE CowInv'
  OBVIOUS
<1>1. CASE UNCHANGED vars
  <2>1. CowTypeOK' /\ JobOK' /\ HalfOK' /\ HandlerOK'
    BY <1>1 DEF vars, CowInv, CowTypeOK, JobOK, HalfOK, HandlerOK, CowHasHandler
  <2>2. FltOK' /\ SpawnOK' /\ WritableIsPrivate'
    BY <1>1 DEF vars, CowInv, FltOK, SpawnOK, Alone, WritableIsPrivate, Excused
  <2> QED BY <2>1, <2>2 DEF CowInv
<1>2. ASSUME NEW e \in Env, Steps(e)
      PROVE  CowInv'
  <2>1. ASSUME NEW v \in VPage, page_fault(e, v) \/ dup_child(e, v) \/ \E x \in Value : write(e, v, x)
        PROVE  CowInv'
    BY <2>1, FaultInv, DupChildInv, WriteInv
  <2>2. ASSUME NEW c \in Env, fork(e, c) \/ spawn(e, c)
        PROVE  CowInv'
    BY <2>2, MakeInv
  <2>3. CASE pgfault_alloc(e) \/ pgfault_copy(e) \/ pgfault_map(e) \/ pgfault_unmap(e)
    BY <2>3, FaultAllocInv, CopyInv, FaultMapInv, FaultUnmapInv
  <2>4. CASE set_pgfault_handler(e) \/ dup_self(e) \/ fork_xstack(e) \/ fork_handler(e) \/ start(e)
    BY <2>4, SetHandlerInv, DupSelfInv, ForkHandlerInv, StartInv
  <2>5. CASE spawn_alloc(e) \/ spawn_map(e) \/ spawn_unmap(e) \/ spawn_text(e) \/ spawn_bss(e) \/ spawn_share(e)
    BY <2>5, SpawnAllocInv, SpawnMapInv, SpawnUnmapInv, SpawnTextInv, SpawnShareInv
  <2>6. CASE exit(e)
    BY <2>6, DestroyInv DEF exit, In
  <2> QED BY <1>2, <2>1, <2>2, <2>3, <2>4, <2>5, <2>6 DEF Steps
<1> QED BY <1>1, <1>2 DEF Next

(* The inductive invariant holds of every behaviour of fork and spawn.     *)
THEOREM CowInvariant == Spec => []CowInv
<1>1. Init => CowInv
  BY InitInv
<1>2. CowInv /\ [Next]_vars => CowInv'
  BY StepInv
<1> QED BY <1>1, <1>2, PTL DEF Spec

(* The page tables, the jobs and the faults keep to their types (fork.c,   *)
(* spawn.c).                                                               *)
THEOREM CowTypes == Spec => []CowTypeOK
<1>1. CowInv => CowTypeOK
  BY DEF CowInv
<1> QED BY <1>1, CowInvariant, PTL

(* A page that can be written without a fault is nobody else's (duppage's  *)
(* two marks, pgfault's copy).                                             *)
THEOREM WritablePages == Spec => []WritableIsPrivate
<1>1. CowInv => WritableIsPrivate
  BY DEF CowInv
<1> QED BY <1>1, CowInvariant, PTL

(* No environment runs with a copy-on-write page that it could not copy    *)
(* (fork sets the child's handler before the child starts).                *)
THEOREM Handlers == Spec => []CowHasHandler
<1>1. CowInv => CowHasHandler
  BY DEF CowInv, HandlerOK
<1> QED BY <1>1, CowInvariant, PTL

----------------------------------------------------------------------------
(* What is in a program's own pages changes only when that program stores  *)
(* there (MemoryIsOwn), whatever fork, spawn and pgfault do in between: the*)
(* inductive invariant this needs, besides CowInv.                         *)

Private(p) == p \in {"w", "cow"}

(* No page is shared as a library page here and as a private one there.    *)
LibApart ==
    \A d, e \in Env : \A v, w \in Va :
        pt[d][v].p = "lib" /\ Private(pt[e][w].p) => pt[d][v].f # pt[e][w].f

(* Where fork and spawn will map a page that the child can write, it has   *)
(* none: nothing is mapped over.                                           *)
Fresh(e, c) ==
    /\ job[e].at = "dup" => \A v \in job[e].todo \ {job[e].half} : pt[c][v].p = "none"
    /\ job[e].at \in {"stack", "stackmap"} => pt[c][Stack].p = "none"
    /\ job[e].at \in {"stack", "stackmap", "stackunmap", "stackerror", "text", "data", "datamap"} => pt[c][Data].p = "none"
    /\ job[e].at \in {"stack", "stackmap", "stackunmap", "stackerror", "text", "data", "datamap", "bss"} => pt[c][Bss].p = "none"

ChildFresh == \A e \in Env : job[e].at # "idle" => Fresh(e, job[e].child)

(* Once pgfault has copied the page, the copy is as the page is.           *)
CopyOK == \A e \in Env : flt[e].at = "map" => frame[pt[e][Tmp].f] = frame[pt[e][flt[e].va].f]

MInv == CowInv /\ LibApart /\ ChildFresh /\ CopyOK

----------------------------------------------------------------------------
(* What a step does to the pages.                                          *)

(* MemoryIsOwn, of one step.                                               *)
MemoryStep ==
    \A e \in Env, v \in VPage :
        /\ Own(e, v) /\ Own(e, v)' /\ Seen(e, v)' # Seen(e, v)
        /\ ~ \E d \in Env : job[d].child = e /\ job[d].half = v
        => \E x \in Value : write(e, v, x)

(* A copy that is made stays as it is.                                     *)
TmpKept ==
    \A d \in Env : flt[d].at = "map" /\ flt'[d].at = "map" => frame'[pt'[d][Tmp].f] = frame[pt[d][Tmp].f]

Keeps == LibApart' /\ MemoryStep /\ TmpKept

(* Steps that leave frames and page tables alone.                          *)
LEMMA SameKeeps ==
    ASSUME LibApart, frame' = frame, pt' = pt
    PROVE  Keeps
<1>1. LibApart'
  BY DEF LibApart
<1>2. MemoryStep
  BY DEF MemoryStep, Seen
<1> QED BY <1>1, <1>2 DEF Keeps, TmpKept

(* A page that replaces one of the same content, or none, keeps what the   *)
(* program sees; it is shared the way the page is that it is taken from.   *)
Remaps(d, w, pte) ==
    /\ frame' = frame
    /\ \A x \in Env, y \in Va : pt'[x][y] = IF x = d /\ y = w THEN pte ELSE pt[x][y]
    /\ Private(pte.p) => \E x \in Env, y \in Va : Private(pt[x][y].p) /\ pt[x][y].f = pte.f
    /\ pte.p = "lib" => \E x \in Env, y \in Va : pt[x][y].p = "lib" /\ pt[x][y].f = pte.f
    /\ w \notin {TMPPAGE, Tmp} /\ Private(pt[d][w].p) /\ Private(pte.p) => frame[pte.f] = frame[pt[d][w].f]
    /\ w = Tmp => flt'[d].at # "map"

(* Entries that are remapped to frames a library page or a private page    *)
(* had before: both kinds stay apart.                                      *)
LEMMA RemapKeeps ==
    ASSUME LibApart, NEW d \in Env, NEW w \in Va, NEW pte \in Pte, Remaps(d, w, pte)
    PROVE  Keeps
<1>1. LibApart'
  <2> SUFFICES ASSUME NEW a \in Env, NEW b \in Env, NEW v \in Va, NEW u \in Va,
                      pt'[a][v].p = "lib", Private(pt'[b][u].p)
               PROVE  pt'[a][v].f # pt'[b][u].f
    BY DEF LibApart
  <2>1. \E x \in Env, y \in Va : pt[x][y].p = "lib" /\ pt[x][y].f = pt'[a][v].f
    BY DEF Remaps
  <2>2. \E x \in Env, y \in Va : Private(pt[x][y].p) /\ pt[x][y].f = pt'[b][u].f
    BY DEF Remaps
  <2> QED BY <2>1, <2>2 DEF LibApart
<1>2. MemoryStep
  <2> SUFFICES ASSUME NEW e \in Env, NEW v \in VPage, Own(e, v), Own(e, v)'
               PROVE  Seen(e, v)' = Seen(e, v)
    BY DEF MemoryStep
  <2>1. v \in Va /\ v \notin {TMPPAGE, Tmp} /\ Private(pt[e][v].p) /\ Private(pt'[e][v].p)
    BY VPages DEF Own, Private
  <2>2. CASE e = d /\ v = w
    BY <2>1, <2>2 DEF Remaps, Seen
  <2>3. CASE ~ (e = d /\ v = w)
    BY <2>1, <2>3 DEF Remaps, Seen
  <2> QED BY <2>2, <2>3
<1>3. TmpKept
  BY VPages DEF Remaps, TmpKept
<1> QED BY <1>1, <1>2, <1>3 DEF Keeps

(* A new page is in a frame that nobody sees.                              *)
LEMMA AllocKeeps ==
    ASSUME CowInv, LibApart, NEW d \in Env, NEW w \in Va, Alloc(d, w),
           w \notin {TMPPAGE, Tmp} => pt[d][w].p = "none",
           w = Tmp => flt[d].at # "map"
    PROVE  /\ Keeps
           /\ \A a \in Env, y \in Va : a # d \/ y # w => pt'[a][y] = pt[a][y]
<1>1. PICK g \in Frame, x \in Value :
        Unmapped(g) /\ frame' = [frame EXCEPT ![g] = x] /\ Maps(d, w, [f |-> g, p |-> "w"])
  BY DEF Alloc
<1>2. [f |-> g, p |-> "w"] \in Pte
  BY DEF Pte, Perm
<1>3. \A a \in Env, y \in Va : pt'[a][y] = IF a = d /\ y = w THEN [f |-> g, p |-> "w"] ELSE pt[a][y]
  BY <1>1, <1>2, MapsIs DEF CowInv
<1>4. \A h \in Frame : h # g => frame'[h] = frame[h]
  BY <1>1 DEF CowInv, CowTypeOK
<1>u. \A a \in Env, y \in Va : pt[a][y].f # g
  BY <1>1 DEF Unmapped
<1>5. \A a \in Env, y \in Va : a # d \/ y # w => pt'[a][y] = pt[a][y]
  BY <1>3
<1>6. pt'[d][w].f = g /\ pt'[d][w].p = "w"
  BY <1>3
<1>t. \A a \in Env, y \in Va : pt[a][y].p # "none" => pt[a][y].f \in Frame
  BY DEF CowInv, CowTypeOK, Pte
<1>7. LibApart'
  <2> SUFFICES ASSUME NEW a \in Env, NEW b \in Env, NEW v \in Va, NEW u \in Va,
                      pt'[a][v].p = "lib", Private(pt'[b][u].p)
               PROVE  pt'[a][v].f # pt'[b][u].f
    BY DEF LibApart
  <2>1. pt'[a][v] = pt[a][v]
    BY <1>5, <1>6
  <2>2. CASE b = d /\ u = w
    BY <1>u, <1>6, <2>1, <2>2
  <2>3. CASE ~ (b = d /\ u = w)
    BY <1>5, <2>1, <2>3 DEF LibApart
  <2> QED BY <2>2, <2>3
<1>8. MemoryStep
  <2> SUFFICES ASSUME NEW e \in Env, NEW v \in VPage, Own(e, v)
               PROVE  Seen(e, v)' = Seen(e, v)
    BY DEF MemoryStep
  <2>1. v \in Va /\ v \notin {TMPPAGE, Tmp} /\ pt[e][v].p # "none"
    BY VPages DEF Own
  <2>2. pt'[e][v] = pt[e][v]
    BY <1>5, <2>1
  <2> QED BY <1>4, <1>u, <1>t, <2>1, <2>2 DEF Seen
<1>9. TmpKept
  <2> SUFFICES ASSUME NEW e \in Env, flt[e].at = "map"
               PROVE  frame'[pt'[e][Tmp].f] = frame[pt[e][Tmp].f]
    BY DEF TmpKept
  <2>1. pt[e][Tmp].p # "none" /\ Tmp \in Va
    BY VPages DEF CowInv, FltOK, Alone
  <2>2. pt'[e][Tmp] = pt[e][Tmp]
    BY <1>5, <2>1
  <2> QED BY <1>4, <1>u, <1>t, <2>1, <2>2
<1> QED BY <1>5, <1>7, <1>8, <1>9 DEF Keeps

(* A store is seen in the page of the program that stores, and in library  *)
(* pages.                                                                  *)
LEMMA WriteKeeps ==
    ASSUME CowInv, LibApart, NEW d \in Env, NEW w \in VPage, NEW x \in Value, write(d, w, x)
    PROVE  Keeps
<1> DEFINE g == pt[d][w].f
<1>1. /\ Runs(d) /\ w # TMPPAGE /\ pt[d][w].p \in {"w", "lib"} /\ w \in Va
      /\ frame' = [frame EXCEPT ![g] = x] /\ pt' = pt
  BY VPages DEF write, Stores
<1>2. \A h \in Frame : h # g => frame'[h] = frame[h]
  BY <1>1 DEF CowInv, CowTypeOK
<1>t. \A a \in Env, y \in Va : pt[a][y].p # "none" => pt[a][y].f \in Frame
  BY DEF CowInv, CowTypeOK, Pte
<1>3. LibApart'
  BY <1>1 DEF LibApart
<1>4. MemoryStep
  <2> SUFFICES ASSUME NEW e \in Env, NEW v \in VPage, Own(e, v), Own(e, v)', Seen(e, v)' # Seen(e, v),
                      ~ \E a \in Env : job[a].child = e /\ job[a].half = v
               PROVE  \E y \in Value : write(e, v, y)
    BY DEF MemoryStep
  <2>1. v \in Va /\ v # TMPPAGE /\ v # Tmp /\ pt[e][v].p \in {"w", "cow"} /\ pt[e][v].p # "none"
    BY VPages DEF Own
  <2>2. pt[e][v].f = g
    BY <1>1, <1>2, <1>t, <2>1 DEF Seen
  <2>3. pt[d][w].p = "w"
    BY <1>1, <2>1, <2>2 DEF LibApart, Private
  <2>4. ASSUME d # e \/ w # v PROVE Excused(d, w, e, v)
    BY <1>1, <2>1, <2>2, <2>3, <2>4 DEF CowInv, WritableIsPrivate
  <2>5. ~ Excused(d, w, e, v)
    BY <1>1, <2>1 DEF Excused, Runs
  <2> QED BY <2>4, <2>5
<1>5. TmpKept
  <2> SUFFICES ASSUME NEW e \in Env, flt[e].at = "map"
               PROVE  frame'[pt'[e][Tmp].f] = frame[pt[e][Tmp].f]
    BY DEF TmpKept
  <2>1. Alone(e, Tmp) /\ pt[e][Tmp].p # "none" /\ Tmp \in Va /\ w # Tmp
    BY VPages DEF CowInv, FltOK, Alone
  <2>2. pt[e][Tmp].f # g
    BY <1>1, <2>1 DEF Alone
  <2> QED BY <1>1, <1>2, <1>t, <2>1, <2>2
<1> QED BY <1>3, <1>4, <1>5 DEF Keeps

(* pgfault copies into a page that is seen nowhere else.                   *)
LEMMA CopyKeeps ==
    ASSUME CowInv, LibApart, NEW d \in Env, pgfault_copy(d)
    PROVE  /\ Keeps
           /\ frame'[pt'[d][Tmp].f] = frame'[pt'[d][flt'[d].va].f]
<1> DEFINE g == pt[d][Tmp].f
<1>1. /\ flt[d].at = "copy" /\ flt[d].va \in VPage /\ pt[d][flt[d].va].p = "cow"
      /\ frame' = [frame EXCEPT ![g] = frame[pt[d][flt[d].va].f]] /\ pt' = pt
      /\ Alone(d, Tmp) /\ flt' = [flt EXCEPT ![d].at = "map"]
  BY DEF pgfault_copy, CowInv, FltOK
<1>t. \A a \in Env, y \in Va : pt[a][y].p # "none" => pt[a][y].f \in Frame
  BY DEF CowInv, CowTypeOK, Pte
<1>2. \A h \in Frame : h # g => frame'[h] = frame[h]
  BY <1>1 DEF CowInv, CowTypeOK
<1>3. frame'[g] = frame[pt[d][flt[d].va].f]
  BY <1>1, <1>t, VPages DEF CowInv, CowTypeOK, Alone
<1>a. \A a \in Env, y \in Va : pt[a][y].f = g => a = d /\ y = Tmp
  BY <1>1 DEF Alone
<1>4. LibApart'
  BY <1>1 DEF LibApart
<1>5. MemoryStep
  <2> SUFFICES ASSUME NEW e \in Env, NEW v \in VPage, Own(e, v)
               PROVE  Seen(e, v)' = Seen(e, v)
    BY DEF MemoryStep
  <2>1. v \in Va /\ v # Tmp /\ pt[e][v].p # "none"
    BY VPages DEF Own
  <2> QED BY <1>1, <1>2, <1>a, <1>t, <2>1 DEF Seen
<1>6. TmpKept
  <2> SUFFICES ASSUME NEW e \in Env, flt[e].at = "map"
               PROVE  frame'[pt'[e][Tmp].f] = frame[pt[e][Tmp].f]
    BY DEF TmpKept
  <2>1. e # d /\ pt[e][Tmp].p # "none" /\ Tmp \in Va
    BY <1>1, VPages DEF CowInv, FltOK, Alone
  <2> QED BY <1>1, <1>2, <1>a, <1>t, <2>1
<1>7. flt'[d].va = flt[d].va
  BY <1>1 DEF CowInv, CowTypeOK, Fault
<1>8. pt[d][flt[d].va].f # g /\ pt[d][flt[d].va].f \in Frame
  BY <1>1, <1>a, <1>t, VPages
<1> QED BY <1>1, <1>2, <1>3, <1>4, <1>5, <1>6, <1>7, <1>8 DEF Keeps

(* An environment that is destroyed sees nothing any more.                 *)
LEMMA DestroyKeeps ==
    ASSUME CowInv, LibApart, NEW d \in Env, Runs(d), destroy(d)
    PROVE  /\ Keeps
           /\ \A a \in Env, y \in Va : a # d => pt'[a][y] = pt[a][y]
           /\ \A a \in Env : job'[a] = IF a = d THEN NoJob ELSE job[a]
<1>1. frame' = frame /\ flt[d].at = "none" /\ NoPte.p = "none"
  BY DEF destroy, Runs, NoPte
<1>2. /\ \A a \in Env, y \in Va : pt'[a][y] = IF a = d THEN NoPte ELSE pt[a][y]
      /\ \A a \in Env : job'[a] = IF a = d THEN NoJob ELSE job[a]
  BY DEF destroy, CowInv, CowTypeOK
<1>3. LibApart'
  BY <1>1, <1>2 DEF LibApart, Private
<1>4. MemoryStep
  <2> SUFFICES ASSUME NEW e \in Env, NEW v \in VPage, Own(e, v)'
               PROVE  Seen(e, v)' = Seen(e, v)
    BY DEF MemoryStep
  <2>1. v \in Va /\ e # d
    BY <1>1, <1>2, VPages DEF Own
  <2> QED BY <1>1, <1>2, <2>1 DEF Seen
<1>5. TmpKept
  BY <1>1, <1>2, VPages DEF TmpKept
<1> QED BY <1>2, <1>3, <1>4, <1>5 DEF Keeps

(* Library pages stay library pages in the child.                          *)
LEMMA ShareKeeps ==
    ASSUME LibApart, NEW e \in Env, NEW c \in Env, NEW S \in SUBSET VPage, frame' = frame,
           \A w \in S : pt[e][w].p = "lib",
           \A a \in Env, w \in Va : pt'[a][w] = IF a = c /\ w \in S THEN pt[e][w] ELSE pt[a][w]
    PROVE  Keeps
<1>1. LibApart'
  <2> SUFFICES ASSUME NEW a \in Env, NEW b \in Env, NEW v \in Va, NEW u \in Va,
                      pt'[a][v].p = "lib", Private(pt'[b][u].p)
               PROVE  pt'[a][v].f # pt'[b][u].f
    BY DEF LibApart
  <2>1. pt'[b][u] = pt[b][u]
    BY DEF Private
  <2>2. \E x \in Env : pt[x][v].p = "lib" /\ pt[x][v].f = pt'[a][v].f
    OBVIOUS
  <2> QED BY <2>1, <2>2 DEF LibApart
<1>2. MemoryStep
  <2> SUFFICES ASSUME NEW d \in Env, NEW v \in VPage, Own(d, v)'
               PROVE  Seen(d, v)' = Seen(d, v)
    BY DEF MemoryStep
  <2>1. v \in Va /\ pt'[d][v].p # "lib"
    BY VPages DEF Own
  <2> QED BY <2>1 DEF Seen
<1>3. TmpKept
  BY VPages DEF TmpKept
<1> QED BY <1>1, <1>2, <1>3 DEF Keeps

----------------------------------------------------------------------------
(* What a step does to those in fork, spawn and pgfault.                   *)

(* A page that is being copied is its program's own, so it does not change *)
(* before its copy takes its place.                                        *)
LEMMA CopyStep ==
    ASSUME CowInv, CowInv', CopyOK, Keeps, NEW d \in Env,
           flt[d].at = "map", flt'[d] = flt[d]
    PROVE  frame'[pt'[d][Tmp].f] = frame'[pt'[d][flt'[d].va].f]
<1> DEFINE v == flt[d].va
<1>1. v \in VPage /\ v # TMPPAGE /\ pt[d][v].p = "cow" /\ pt'[d][v].p = "cow"
  BY DEF CowInv, FltOK
<1>2. st[d] # "free" /\ st[d] # "made" /\ st'[d] # "free"
  BY DEF CowInv, JobOK
<1>3. Own(d, v) /\ Own(d, v)'
  BY <1>1, <1>2 DEF Own
<1>4. ~ \E a \in Env : job[a].child = d /\ job[a].half = v
  BY <1>1, <1>2, VPages DEF CowInv, HalfOK, JobOK
<1>5. ~ \E x \in Value : write(d, v, x)
  BY DEF write, Stores, Runs
<1>6. frame'[pt'[d][v].f] = frame[pt[d][v].f]
  BY <1>1, <1>3, <1>4, <1>5 DEF Keeps, MemoryStep, Seen
<1> QED BY <1>6 DEF Keeps, TmpKept, CopyOK

(* So CopyOK is kept, unless a fault reaches the state "map".              *)
LEMMA CopyKept ==
    ASSUME CowInv, CowInv', CopyOK, Keeps,
           \A d \in Env : flt'[d].at = "map" => flt'[d] = flt[d]
    PROVE  CopyOK'
BY CopyStep DEF CopyOK

(* A step of e changes only its own pages and its child's, so another's    *)
(* child is as fresh as it was.                                            *)
LEMMA FreshKept ==
    ASSUME CowInv, ChildFresh, NEW e \in Env, st[e] = "run",
           \A d \in Env : d # e => job'[d] = job[d],
           \A d \in Env, v \in Va : d # e /\ (job[e].at # "idle" => d # job[e].child) => pt'[d][v] = pt[d][v],
           job'[e].at # "idle" => Fresh(e, job[e].child)'
    PROVE  ChildFresh'
<1> SUFFICES ASSUME NEW d \in Env, d # e, job[d].at # "idle"
             PROVE  Fresh(d, job[d].child)'
  BY DEF ChildFresh
<1>1. PICK k \in Env : k = job[d].child
  BY DEF CowInv, JobOK
<1>2. k # e /\ (job[e].at # "idle" => k # job[e].child)
  BY <1>1 DEF CowInv, JobOK
<1>3. \A v \in VPage : pt[k][v].p = "none" => pt'[k][v].p = "none"
  BY <1>2, VPages
<1>4. Stack \in VPage /\ Data \in VPage /\ Bss \in VPage
  BY CowAssumption
<1>5. Fresh(d, k) /\ job'[d] = job[d] /\ job[d].todo \subseteq VPage
  BY <1>1 DEF ChildFresh, CowInv, CowTypeOK, Job
<1>6. Fresh(d, k)'
  BY ONLY <1>3, <1>4, <1>5 DEF Fresh
<1> QED BY <1>1, <1>5, <1>6

----------------------------------------------------------------------------
(* Each action keeps the invariant, and the pages of the others.           *)

Kept == Keeps /\ ChildFresh' /\ CopyOK'

(* A step that changes no page.                                            *)
LEMMA QuietKept ==
    ASSUME MInv, CowInv', frame' = frame, pt' = pt, ChildFresh',
           \A d \in Env : flt'[d].at = "map" => flt'[d] = flt[d]
    PROVE  Kept
<1>1. Keeps
  BY SameKeeps DEF MInv
<1> QED BY <1>1, CopyKept DEF MInv, Kept

(* Nor does one that moves no job.                                         *)
LEMMA SameJobFresh ==
    ASSUME ChildFresh, job' = job, pt' = pt
    PROVE  ChildFresh'
BY DEF ChildFresh, Fresh

(* Who is not in fork or spawn any more has no child to make.              *)
LEMMA OverFresh ==
    ASSUME CowInv, ChildFresh, NEW e \in Env, st[e] = "run", pt' = pt,
           \A d \in Env : d # e => job'[d] = job[d],
           job'[e].at \in {"idle", "handler", "start", "share"}
    PROVE  ChildFresh'
<1>1. Fresh(e, job[e].child)'
  BY DEF Fresh
<1> QED BY <1>1, FreshKept

(* A panic: the memory of the environment is gone.                         *)
LEMMA PanicKept ==
    ASSUME MInv, CowInv', NEW e \in Env, panic(e)
    PROVE  Kept
<1>1. frame' = frame /\ pt' = pt /\ job' = job /\ flt' = flt
  BY DEF panic
<1> QED BY <1>1, SameJobFresh, QuietKept DEF MInv

(* A return from the handler changes no page.                              *)
LEMMA ReturnsKept ==
    ASSUME MInv, CowInv', NEW e \in Env, st[e] = "run", returns(e)
    PROVE  Kept
<1>1. /\ frame' = frame /\ pt' = pt /\ flt' = flt /\ job'[e].at = "idle"
      /\ \A d \in Env : d # e => job'[d] = job[d]
  BY DEF returns, NoJob, MInv, CowInv, CowTypeOK
<1> QED BY <1>1, OverFresh, QuietKept DEF MInv

(* The end of an environment: its memory is gone.                          *)
LEMMA DestroyKept ==
    ASSUME MInv, CowInv', NEW e \in Env, Runs(e), destroy(e)
    PROVE  Kept
<1>1. /\ Keeps
      /\ \A a \in Env, y \in Va : a # e => pt'[a][y] = pt[a][y]
      /\ \A a \in Env : job'[a] = IF a = e THEN NoJob ELSE job[a]
  BY DestroyKeeps DEF MInv
<1>2. flt' = flt /\ st[e] = "run" /\ NoJob.at = "idle"
  BY DEF destroy, Runs, NoJob
<1>3. ChildFresh'
  BY <1>1, <1>2, FreshKept DEF MInv
<1> QED BY <1>1, <1>2, <1>3, CopyKept DEF MInv, Kept

(* A store that faults changes no page.                                    *)
LEMMA FaultKept ==
    ASSUME MInv, CowInv', NEW e \in Env, NEW v \in VPage, page_fault(e, v)
    PROVE  Kept
<1>1. CASE flt' = [flt EXCEPT ![e] = [at |-> "alloc", va |-> v]] /\ UNCHANGED <<frame, pt, st, handler, job>>
  <2>1. \A d \in Env : flt'[d].at = "map" => flt'[d] = flt[d]
    BY <1>1 DEF MInv, CowInv, CowTypeOK
  <2> QED BY <1>1, <2>1, SameJobFresh, QuietKept DEF MInv
<1> QED BY <1>1, DestroyKept, PanicKept DEF page_fault, Stores

(* A store to a page that is writable, which is private or a library page. *)
LEMMA WriteKept ==
    ASSUME MInv, CowInv', NEW e \in Env, NEW v \in VPage, NEW x \in Value, write(e, v, x)
    PROVE  Kept
<1>1. pt' = pt /\ job' = job /\ flt' = flt
  BY DEF write
<1>2. Keeps
  BY WriteKeeps DEF MInv
<1> QED BY <1>1, <1>2, SameJobFresh, CopyKept DEF MInv, Kept

(* pgfault changes its own pages only.                                     *)
LEMMA OwnFresh ==
    ASSUME MInv, NEW e \in Env, st[e] = "run", job' = job,
           \A d \in Env, v \in Va : d # e => pt'[d][v] = pt[d][v]
    PROVE  ChildFresh'
<1> SUFFICES ASSUME NEW d \in Env, job[d].at # "idle"
             PROVE  Fresh(d, job[d].child)'
  BY DEF ChildFresh
<1>1. PICK k \in Env : k = job[d].child
  BY DEF MInv, CowInv, JobOK
<1>2. k # e
  BY <1>1 DEF MInv, CowInv, JobOK
<1>3. \A v \in VPage : pt'[k][v] = pt[k][v]
  BY <1>2, VPages
<1>4. Stack \in VPage /\ Data \in VPage /\ Bss \in VPage
  BY CowAssumption
<1>5. Fresh(d, k) /\ job'[d] = job[d] /\ job[d].todo \subseteq VPage
  BY <1>1 DEF ChildFresh, MInv, CowInv, CowTypeOK, Job
<1>6. Fresh(d, k)'
  BY ONLY <1>3, <1>4, <1>5 DEF Fresh
<1> QED BY <1>1, <1>5, <1>6

(* pgfault, first call: a new page at TMPPAGE.                             *)
LEMMA FaultAllocKept ==
    ASSUME MInv, CowInv', NEW e \in Env, pgfault_alloc(e)
    PROVE  Kept
<1>1. CASE Alloc(e, Tmp) /\ flt' = [flt EXCEPT ![e].at = "copy"] /\ UNCHANGED <<st, handler, job>>
  <2>1. st[e] = "run" /\ flt[e].at = "alloc" /\ Tmp \in Va
    BY VPages DEF pgfault_alloc
  <2>2. Keeps /\ \A a \in Env, y \in Va : a # e \/ y # Tmp => pt'[a][y] = pt[a][y]
    BY <1>1, <2>1, AllocKeeps DEF MInv
  <2>3. \A d \in Env : flt'[d].at = "map" => flt'[d] = flt[d]
    BY <1>1 DEF MInv, CowInv, CowTypeOK, Fault
  <2>4. ChildFresh'
    BY <1>1, <2>1, <2>2, OwnFresh
  <2> QED BY <2>2, <2>3, <2>4, CopyKept DEF MInv, Kept
<1> QED BY <1>1, PanicKept DEF pgfault_alloc

(* pgfault: the copy, so that TMPPAGE holds what the page does.            *)
LEMMA FaultCopyKept ==
    ASSUME MInv, CowInv', NEW e \in Env, pgfault_copy(e)
    PROVE  Kept
<1>1. Keeps /\ frame'[pt'[e][Tmp].f] = frame'[pt'[e][flt'[e].va].f]
  BY CopyKeeps DEF MInv
<1>2. pt' = pt /\ job' = job
  BY DEF pgfault_copy
<1>3. \A d \in Env : d # e => flt'[d] = flt[d]
  BY DEF pgfault_copy, MInv, CowInv, CowTypeOK
<1>4. ASSUME NEW d \in Env, flt'[d].at = "map"
      PROVE  frame'[pt'[d][Tmp].f] = frame'[pt'[d][flt'[d].va].f]
  BY <1>1, <1>3, <1>4, CopyStep DEF MInv
<1>5. CopyOK'
  BY <1>4 DEF CopyOK
<1> QED BY <1>1, <1>2, <1>5, SameJobFresh DEF MInv, Kept

(* pgfault: the copy takes the place of the page, with the same contents.  *)
LEMMA FaultMapKept ==
    ASSUME MInv, CowInv', NEW e \in Env, pgfault_map(e)
    PROVE  Kept
<1>1. PICK v \in VPage : v = flt[e].va
  BY DEF pgfault_map, MInv, CowInv, FltOK
<1>p. [f |-> pt[e][Tmp].f, p |-> "w"] \in Pte
  BY VPages DEF MInv, CowInv, CowTypeOK, Pte, Perm
<1>2. PICK pte \in Pte : pte = [f |-> pt[e][Tmp].f, p |-> "w"]
  BY <1>p
<1>3. /\ st[e] = "run" /\ flt[e].at = "map" /\ pt[e][Tmp].p = "w" /\ frame' = frame /\ job' = job
      /\ frame[pt[e][Tmp].f] = frame[pt[e][v].f]
  BY <1>1 DEF pgfault_map, MInv, CowInv, FltOK, Alone, CopyOK
<1>4. \A x \in Env, y \in Va : pt'[x][y] = IF x = e /\ y = v THEN pte ELSE pt[x][y]
  BY <1>1, <1>2, VPages, MapsIs DEF pgfault_map, MInv, CowInv
<1>5. \A d \in Env : flt'[d].at = "map" => flt'[d] = flt[d]
  BY DEF pgfault_map, MInv, CowInv, CowTypeOK, Fault
<1>6. Remaps(e, v, pte)
  BY <1>2, <1>3, <1>4, VPages DEF Remaps, Private
<1>7. Keeps
  BY <1>6, VPages, RemapKeeps DEF MInv
<1>8. ChildFresh'
  BY <1>3, <1>4, OwnFresh
<1> QED BY <1>5, <1>7, <1>8, CopyKept DEF MInv, Kept

(* pgfault: TMPPAGE is unmapped.                                           *)
LEMMA FaultUnmapKept ==
    ASSUME MInv, CowInv', NEW e \in Env, pgfault_unmap(e)
    PROVE  Kept
<1>1. NoPte \in Pte /\ NoPte.p = "none" /\ NoFault.at = "none" /\ Tmp \in Va
  BY VPages DEF NoPte, NoFault, Pte, Perm
<1>2. st[e] = "run" /\ frame' = frame /\ job' = job /\ Maps(e, Tmp, NoPte)
  BY DEF pgfault_unmap
<1>3. \A x \in Env, y \in Va : pt'[x][y] = IF x = e /\ y = Tmp THEN NoPte ELSE pt[x][y]
  BY <1>1, <1>2, MapsIs DEF MInv, CowInv
<1>4. /\ \A d \in Env : flt'[d].at = "map" => flt'[d] = flt[d]
      /\ flt'[e].at # "map"
  BY <1>1 DEF pgfault_unmap, MInv, CowInv, CowTypeOK
<1>5. Remaps(e, Tmp, NoPte)
  BY <1>1, <1>2, <1>3, <1>4 DEF Remaps, Private
<1>6. Keeps
  BY <1>1, <1>5, RemapKeeps DEF MInv
<1>7. ChildFresh'
  BY <1>2, <1>3, OwnFresh
<1> QED BY <1>4, <1>6, <1>7, CopyKept DEF MInv, Kept

(* A child that has just been made has no pages.                           *)
LEMMA MakeKept ==
    ASSUME MInv, CowInv', NEW e \in Env, NEW c \in Env, fork(e, c) \/ spawn(e, c)
    PROVE  Kept
<1>1. st[e] = "run" /\ st[c] = "free" /\ frame' = frame /\ pt' = pt /\ flt' = flt
  BY DEF fork, spawn, In, Runs
<1>2. /\ \A d \in Env : d # e => job'[d] = job[d]
      /\ job'[e].child = c /\ job'[e].todo = VPage
  BY DEF fork, spawn, MInv, CowInv, CowTypeOK
<1>3. \A v \in Va : pt'[c][v].p = "none"
  BY <1>1 DEF NoPte, MInv, CowInv, CowTypeOK
<1>4. Stack \in Va /\ Data \in Va /\ Bss \in Va
  BY CowAssumption, VPages
<1>5. Fresh(e, c)'
  BY ONLY <1>2, <1>3, <1>4, VPages DEF Fresh
<1>6. Fresh(e, job[e].child)'
  BY <1>2, <1>5
<1>7. ChildFresh'
  BY <1>1, <1>2, <1>6, FreshKept DEF MInv
<1> QED BY <1>1, <1>7, QuietKept

(* The handler is set.                                                     *)
LEMMA SetHandlerKept ==
    ASSUME MInv, CowInv', NEW e \in Env, set_pgfault_handler(e)
    PROVE  Kept
BY PanicKept, SameJobFresh, QuietKept DEF set_pgfault_handler, MInv

(* The child of fork starts.                                               *)
LEMMA ForkEndKept ==
    ASSUME MInv, CowInv', NEW e \in Env, fork_xstack(e) \/ fork_handler(e) \/ start(e)
    PROVE  Kept
<1>0. st[e] = "run"
  BY DEF fork_xstack, fork_handler, start, In, Runs
<1>1. CASE returns(e)
  BY <1>0, <1>1, ReturnsKept
<1>2. CASE ~ returns(e)
  <2>1. frame' = frame /\ pt' = pt /\ flt' = flt
    BY <1>2 DEF fork_xstack, fork_handler, start, Next_
  <2>2. \/ job' = [job EXCEPT ![e].at = "handler"]
        \/ job' = [job EXCEPT ![e].at = "start"]
        \/ job' = [job EXCEPT ![e] = NoJob]
    BY <1>2 DEF fork_xstack, fork_handler, start, Next_
  <2>3. /\ \A d \in Env : d # e => job'[d] = job[d]
        /\ job'[e].at \in {"idle", "handler", "start", "share"}
    BY <2>2 DEF NoJob, MInv, CowInv, CowTypeOK, Job
  <2> QED BY <1>0, <2>1, <2>3, OverFresh, QuietKept DEF MInv
<1> QED BY <1>1, <1>2

(* duppage, the child's half: the child had no page there.                 *)
LEMMA DupChildKept ==
    ASSUME MInv, CowInv', NEW e \in Env, NEW v \in VPage, dup_child(e, v)
    PROVE  Kept
<1>1. PICK c \in Env : c = job[e].child
  BY DEF dup_child, In, MInv, CowInv, JobOK
<1>2. /\ st[e] = "run" /\ job[e].at = "dup" /\ job[e].half = Tmp /\ v \in job[e].todo /\ c # e
      /\ job[e].todo \subseteq VPage /\ Fresh(e, c) /\ v \in Va /\ v # Tmp
  <2>1. st[e] = "run" /\ job[e].at = "dup" /\ job[e].half = Tmp /\ v \in job[e].todo
    BY DEF dup_child, In, Runs
  <2>2. c # e /\ Fresh(e, c)
    BY <1>1, <2>1 DEF MInv, CowInv, JobOK, ChildFresh
  <2>3. job[e].todo \subseteq VPage
    BY DEF MInv, CowInv, CowTypeOK, Job
  <2> QED BY <2>1, <2>2, <2>3, VPages
<1>3. \A u \in job[e].todo : u \in VPage /\ u # Tmp /\ pt[c][u].p = "none"
  BY <1>2, VPages DEF Fresh
<1>d. ASSUME Done(e, v)
      PROVE  /\ job'[e].at = "dup" /\ job'[e].child = c
             /\ job'[e].todo \ {job'[e].half} = job[e].todo \ {v}
             /\ \A d \in Env : d # e => job'[d] = job[d]
  <2>1. /\ job'[e].at = "dup" /\ job'[e].child = c /\ job'[e].half = Tmp
        /\ job'[e].todo = job[e].todo \ {v}
        /\ \A d \in Env : d # e => job'[d] = job[d]
    BY <1>1, <1>2, <1>d DEF Done, MInv, CowInv, CowTypeOK, Job
  <2>2. (job[e].todo \ {v}) \ {Tmp} = job[e].todo \ {v}
    BY <1>3
  <2> QED BY <2>1, <2>2
<1>f. ASSUME \A a \in Env, y \in Va : a # c \/ y # v => pt'[a][y] = pt[a][y],
             job'[e].at = "dup", job'[e].child = c,
             job'[e].todo \ {job'[e].half} = job[e].todo \ {v},
             \A d \in Env : d # e => job'[d] = job[d]
      PROVE  ChildFresh'
  <2>1. \A u \in job'[e].todo \ {job'[e].half} : pt'[c][u].p = "none"
    BY <1>3, <1>f, VPages
  <2>2. Fresh(e, c)'
    BY <1>f, <2>1 DEF Fresh
  <2>3. Fresh(e, job[e].child)'
    BY <1>f, <2>2
  <2> QED BY <1>1, <1>2, <1>f, <2>3, FreshKept DEF MInv
<1>4. CASE UNCHANGED pt /\ Done(e, v) /\ UNCHANGED <<frame, st, handler, flt>>
  <2>1. ChildFresh'
    BY <1>2, <1>4, <1>d, <1>f
  <2> QED BY <1>4, <2>1, QuietKept
<1>5. CASE pt[e][v].p \in {"lib", "ro"} /\ Done(e, v) /\ Maps(c, v, pt[e][v]) /\ UNCHANGED <<frame, st, handler, flt>>
  <2>1. PICK pte \in Pte : pte = pt[e][v]
    BY <1>2 DEF MInv, CowInv, CowTypeOK
  <2>2. \A x \in Env, y \in Va : pt'[x][y] = IF x = c /\ y = v THEN pte ELSE pt[x][y]
    BY <1>2, <1>5, <2>1, MapsIs DEF MInv, CowInv
  <2>3. Remaps(c, v, pte)
    BY <1>2, <1>5, <2>1, <2>2 DEF Remaps, Private
  <2>4. Keeps
    BY <1>2, <2>3, RemapKeeps DEF MInv
  <2>5. ChildFresh'
    BY <1>2, <1>5, <1>d, <1>f, <2>2
  <2> QED BY <1>5, <2>4, <2>5, CopyKept DEF MInv, Kept
<1>6. CASE /\ pt[e][v].p \in {"w", "cow"} /\ Maps(c, v, [f |-> pt[e][v].f, p |-> "cow"])
           /\ job' = [job EXCEPT ![e].half = v]
           /\ UNCHANGED <<frame, st, handler, flt>>
  <2>p. [f |-> pt[e][v].f, p |-> "cow"] \in Pte
    BY <1>2 DEF MInv, CowInv, CowTypeOK, Pte, Perm
  <2>1. PICK pte \in Pte : pte = [f |-> pt[e][v].f, p |-> "cow"]
    BY <2>p
  <2>2. \A x \in Env, y \in Va : pt'[x][y] = IF x = c /\ y = v THEN pte ELSE pt[x][y]
    BY <1>2, <1>6, <2>1, MapsIs DEF MInv, CowInv
  <2>3. pt[c][v].p = "none"
    BY <1>2, <1>3
  <2>4. Remaps(c, v, pte)
    BY <1>2, <1>6, <2>1, <2>2, <2>3 DEF Remaps, Private
  <2>5. Keeps
    BY <1>2, <2>4, RemapKeeps DEF MInv
  <2>6. /\ job'[e].at = "dup" /\ job'[e].child = c /\ job'[e].half = v /\ job'[e].todo = job[e].todo
        /\ \A d \in Env : d # e => job'[d] = job[d]
    BY <1>1, <1>2, <1>6 DEF MInv, CowInv, CowTypeOK, Job
  <2>7. ChildFresh'
    BY <1>f, <2>2, <2>6
  <2> QED BY <1>6, <2>5, <2>7, CopyKept DEF MInv, Kept
<1>7. CASE panic(e)
  BY <1>7, PanicKept
<1> QED BY <1>1, <1>4, <1>5, <1>6, <1>7 DEF dup_child

(* duppage, the parent's half: it maps the frame it has.                   *)
LEMMA DupSelfKept ==
    ASSUME MInv, CowInv', NEW e \in Env, dup_self(e)
    PROVE  Kept
<1>1. PICK c \in Env : c = job[e].child
  BY DEF dup_self, In, MInv, CowInv, JobOK
<1>2. PICK v \in VPage : v = job[e].half
  BY DEF dup_self, MInv, CowInv, HalfOK
<1>h. job[e].half # Tmp /\ v # Tmp /\ v \in Va
  BY VPages DEF dup_self
<1>i. pt[c][v].f = pt[e][v].f /\ pt[c][v].p = "cow"
  BY <1>1, <1>2, <1>h DEF MInv, CowInv, HalfOK
<1>j. st[e] = "run" /\ job[e].at = "dup" /\ c # e /\ Fresh(e, c) /\ job[e].todo \subseteq VPage
  <2>1. st[e] = "run" /\ job[e].at = "dup"
    BY DEF dup_self, In, Runs
  <2>2. c # e /\ Fresh(e, c)
    BY <1>1, <2>1 DEF MInv, CowInv, JobOK, ChildFresh
  <2>3. job[e].todo \subseteq VPage
    BY DEF MInv, CowInv, CowTypeOK, Job
  <2> QED BY <2>1, <2>2, <2>3
<1>3. /\ frame' = frame /\ flt' = flt /\ Maps(e, v, [f |-> pt[c][v].f, p |-> "cow"])
      /\ job' = [job EXCEPT ![e].todo = @ \ {v}, ![e].half = Tmp]
  BY <1>1, <1>2 DEF dup_self
<1>p. [f |-> pt[c][v].f, p |-> "cow"] \in Pte
  BY <1>3, <1>h, <1>i, <1>j DEF MInv, CowInv, CowTypeOK, Pte, Perm
<1>4. PICK pte \in Pte : pte = [f |-> pt[c][v].f, p |-> "cow"]
  BY <1>p
<1>5. \A x \in Env, y \in Va : pt'[x][y] = IF x = e /\ y = v THEN pte ELSE pt[x][y]
  BY <1>3, <1>h, <1>i, <1>j, <1>4, MapsIs DEF MInv, CowInv
<1>q. pte.f = pt[e][v].f /\ pte.f = pt[c][v].f /\ pte.p = "cow"
  BY <1>i, <1>4
<1>6. Remaps(e, v, pte)
  BY <1>3, <1>h, <1>i, <1>q, <1>5 DEF Remaps, Private
<1>7. Keeps
  BY <1>3, <1>h, <1>i, <1>j, <1>6, RemapKeeps DEF MInv
<1>8. /\ job'[e].at = "dup" /\ job'[e].child = c /\ job'[e].half = Tmp /\ job'[e].todo = job[e].todo \ {v}
      /\ \A d \in Env : d # e => job'[d] = job[d]
  BY <1>1, <1>3, <1>h, <1>i, <1>j DEF MInv, CowInv, CowTypeOK, Job
<1>9. \A u \in job[e].todo \ {v} : pt'[c][u].p = "none"
  BY <1>2, <1>3, <1>h, <1>i, <1>j, <1>5, VPages DEF Fresh
<1>10. Fresh(e, c)'
  BY <1>8, <1>9 DEF Fresh
<1>11. Fresh(e, job[e].child)'
  BY <1>8, <1>10
<1>k. \A d \in Env, u \in Va : d # e => pt'[d][u] = pt[d][u]
  BY <1>5
<1>12. ChildFresh'
  BY <1>j, <1>k, <1>8, <1>11, FreshKept DEF MInv
<1> QED BY <1>3, <1>h, <1>i, <1>j, <1>7, <1>12, CopyKept DEF MInv, Kept

(* spawn's steps go on from one page of the child to the next; the pages   *)
(* still to come are not mapped.                                           *)
Awaits(at) ==
    CASE at \in {"stack", "stackmap"} -> {Stack, Data, Bss}
      [] at \in {"stackunmap", "stackerror", "text", "data", "datamap"} -> {Data, Bss}
      [] at = "bss" -> {Bss}
      [] OTHER -> {}

(* What the child of spawn still awaits is fewer than before, and it has   *)
(* been left alone.                                                        *)
LEMMA SpawnFresh ==
    ASSUME MInv, NEW e \in Env, st[e] = "run",
           NEW at \in {"stackmap", "stackunmap", "stackerror", "text", "data", "datamap", "bss", "share", "start"},
           job[e].at \notin {"idle", "dup"}, Awaits(at) \subseteq Awaits(job[e].at),
           job' = [job EXCEPT ![e].at = at],
           \A d \in Env, v \in Va : d # e /\ d # job[e].child => pt'[d][v] = pt[d][v],
           \A v \in Awaits(at) : pt'[job[e].child][v] = pt[job[e].child][v]
    PROVE  ChildFresh'
<1>1. PICK c \in Env : c = job[e].child
  BY DEF MInv, CowInv, JobOK
<1>2. /\ \A d \in Env : d # e => job'[d] = job[d]
      /\ job'[e].at = at /\ job'[e].child = c
  BY <1>1, NextIs DEF MInv, CowInv
<1>3. \A v \in Awaits(job[e].at) : pt[c][v].p = "none"
  BY <1>1 DEF Awaits, MInv, ChildFresh, Fresh
<1>4. \A v \in Awaits(at) : pt'[c][v].p = "none"
  BY <1>1, <1>3
<1>5. Fresh(e, c)'
  BY <1>2, <1>4 DEF Fresh, Awaits
<1>6. Fresh(e, job[e].child)'
  BY <1>2, <1>5
<1> QED BY <1>2, <1>6, FreshKept DEF MInv

(* spawn: a new page at TMPPAGE for the stack.                             *)
LEMMA SpawnAllocKept ==
    ASSUME MInv, CowInv', NEW e \in Env, spawn_alloc(e)
    PROVE  Kept
<1>1. st[e] = "run" /\ TMPPAGE \in Va /\ TMPPAGE # Tmp /\ job[e].at \in {"stack", "data"}
  BY CowAssumption, VPages DEF spawn_alloc, Runs
<1>2. CASE returns(e)
  BY <1>1, <1>2, ReturnsKept
<1>3. CASE ~ returns(e)
  <2>1. Alloc(e, TMPPAGE) /\ Next_(e, IF job[e].at = "stack" THEN "stackmap" ELSE "datamap")
    BY <1>3 DEF spawn_alloc
  <2>2. PICK at \in {"stackmap", "datamap"} : at = IF job[e].at = "stack" THEN "stackmap" ELSE "datamap"
    OBVIOUS
  <2>3. job' = [job EXCEPT ![e].at = at] /\ flt' = flt
    BY <2>1, <2>2 DEF Next_
  <2>4. Keeps /\ \A a \in Env, y \in Va : a # e \/ y # TMPPAGE => pt'[a][y] = pt[a][y]
    BY <1>1, <2>1, AllocKeeps DEF MInv
  <2>5. Awaits(at) \subseteq Awaits(job[e].at) /\ Awaits(at) \subseteq Va
    BY <1>1, <2>2, CowAssumption, VPages DEF Awaits
  <2>6. job[e].child \in Env /\ job[e].child # e
    BY <1>1 DEF MInv, CowInv, JobOK
  <2>7. ChildFresh'
    BY <1>1, <2>3, <2>4, <2>5, <2>6, SpawnFresh, ZenonT(30)
  <2> QED BY <2>3, <2>4, <2>7, CopyKept DEF MInv, Kept
<1> QED BY <1>2, <1>3

(* spawn: it becomes the stack of the child.                               *)
LEMMA SpawnMapKept ==
    ASSUME MInv, CowInv', NEW e \in Env, spawn_map(e)
    PROVE  Kept
<1>1. /\ st[e] = "run" /\ TMPPAGE \in Va /\ job[e].at \in {"stackmap", "datamap"} /\ pt[e][TMPPAGE].p = "w"
      /\ {Stack, Data, Bss} \subseteq Va /\ Tmp \notin {Stack, Data} /\ Stack \notin {Data, Bss} /\ Data # Bss
  BY CowAssumption, VPages DEF spawn_map, Runs, MInv, CowInv, SpawnOK, Alone
<1>2. CASE returns(e)
  BY <1>1, <1>2, ReturnsKept
<1>3. CASE job[e].at = "stackmap" /\ Next_(e, "stackerror") /\ UNCHANGED <<frame, pt, st>>
  <2>1. job' = [job EXCEPT ![e].at = "stackerror"] /\ flt' = flt /\ pt' = pt /\ frame' = frame
    BY <1>3 DEF Next_
  <2>2. Awaits("stackerror") \subseteq Awaits(job[e].at)
    BY <1>3 DEF Awaits
  <2>3. ChildFresh'
    BY <1>1, <2>1, <2>2, SpawnFresh
  <2> QED BY <2>1, <2>3, QuietKept
<1>4. CASE /\ Maps(job[e].child, IF job[e].at = "stackmap" THEN Stack ELSE Data, pt[e][TMPPAGE])
           /\ Next_(e, IF job[e].at = "stackmap" THEN "stackunmap" ELSE "bss")
           /\ UNCHANGED <<frame, st>>
  <2>1. PICK at \in {"stackunmap", "bss"} : at = IF job[e].at = "stackmap" THEN "stackunmap" ELSE "bss"
    OBVIOUS
  <2>2. PICK w \in {Stack, Data} : w = IF job[e].at = "stackmap" THEN Stack ELSE Data
    OBVIOUS
  <2>3. PICK c \in Env : c = job[e].child
    BY <1>1 DEF MInv, CowInv, JobOK
  <2>4. PICK pte \in Pte : pte = pt[e][TMPPAGE]
    BY <1>1 DEF MInv, CowInv, CowTypeOK
  <2>5. job' = [job EXCEPT ![e].at = at] /\ flt' = flt /\ frame' = frame /\ w \in Va
    BY <1>1, <1>4, <2>1 DEF Next_
  <2>6. \A x \in Env, y \in Va : pt'[x][y] = IF x = c /\ y = w THEN pte ELSE pt[x][y]
    BY <1>4, <2>2, <2>3, <2>4, <2>5, MapsIs DEF MInv, CowInv
  <2>7. pt[c][w].p = "none"
    BY <1>1, <2>2, <2>3 DEF MInv, ChildFresh, Fresh
  <2>8. Remaps(c, w, pte)
    BY <1>1, <2>2, <2>4, <2>5, <2>6, <2>7 DEF Remaps, Private
  <2>9. Keeps
    BY <2>5, <2>8, RemapKeeps DEF MInv
  <2>10. Awaits(at) \subseteq Awaits(job[e].at) /\ \A v \in Awaits(at) : v \in Va /\ v # w
    BY <1>1, <2>1, <2>2 DEF Awaits
  <2>11. /\ job[e].at \notin {"idle", "dup"}
         /\ at \in {"stackmap", "stackunmap", "stackerror", "text", "data", "datamap", "bss", "share", "start"}
         /\ \A d \in Env, v \in Va : d # e /\ d # job[e].child => pt'[d][v] = pt[d][v]
         /\ \A v \in Awaits(at) : pt'[job[e].child][v] = pt[job[e].child][v]
    BY <1>1, <2>1, <2>3, <2>6, <2>10
  <2>12. ChildFresh'
    BY <1>1, <2>5, <2>10, <2>11, SpawnFresh
  <2> QED BY <2>5, <2>9, <2>12, CopyKept DEF MInv, Kept
<1> QED BY <1>2, <1>3, <1>4 DEF spawn_map

(* spawn: it is unmapped from the parent.                                  *)
LEMMA SpawnUnmapKept ==
    ASSUME MInv, CowInv', NEW e \in Env, spawn_unmap(e)
    PROVE  Kept
<1>1. /\ st[e] = "run" /\ frame' = frame /\ flt' = flt /\ Maps(e, TMPPAGE, NoPte)
      /\ TMPPAGE \in Va /\ TMPPAGE # Tmp /\ NoPte \in Pte /\ NoPte.p = "none"
  BY CowAssumption, VPages DEF spawn_unmap, Runs, NoPte, Pte, Perm
<1>2. \A x \in Env, y \in Va : pt'[x][y] = IF x = e /\ y = TMPPAGE THEN NoPte ELSE pt[x][y]
  BY <1>1, MapsIs DEF MInv, CowInv
<1>3. Remaps(e, TMPPAGE, NoPte)
  BY <1>1, <1>2 DEF Remaps, Private
<1>4. Keeps
  BY <1>1, <1>3, RemapKeeps DEF MInv
<1>5. \A d \in Env, v \in Va : d # e => pt'[d][v] = pt[d][v]
  BY <1>2
<1>6. CASE job' = [job EXCEPT ![e] = NoJob]
  <2>1. job'[e].at = "idle" /\ \A d \in Env : d # e => job'[d] = job[d]
    BY <1>6 DEF NoJob, MInv, CowInv, CowTypeOK
  <2>2. ChildFresh'
    BY <1>1, <1>5, <2>1, FreshKept DEF MInv
  <2> QED BY <1>1, <1>4, <2>2, CopyKept DEF MInv, Kept
<1>7. CASE job[e].at = "stackunmap" /\ job' = [job EXCEPT ![e].at = "text"]
  <2>1. /\ job[e].child \in Env /\ job[e].child # e /\ job[e].at \notin {"idle", "dup"}
        /\ Awaits("text") \subseteq Awaits(job[e].at) /\ Awaits("text") \subseteq Va
    BY <1>7, CowAssumption, VPages DEF MInv, CowInv, JobOK, Awaits
  <2>2. ChildFresh'
    BY <1>1, <1>5, <1>7, <2>1, SpawnFresh
  <2> QED BY <1>1, <1>4, <2>2, CopyKept DEF MInv, Kept
<1> QED BY <1>6, <1>7 DEF spawn_unmap

(* spawn: the text of the program, shared read-only.                       *)
LEMMA SpawnTextKept ==
    ASSUME MInv, CowInv', NEW e \in Env, spawn_text(e)
    PROVE  Kept
<1>1. /\ st[e] = "run" /\ job[e].at = "text" /\ Text \in Va /\ Text # Tmp /\ Text \notin {Data, Bss}
  BY CowAssumption, VPages DEF spawn_text, In, Runs
<1>2. CASE returns(e)
  BY <1>1, <1>2, ReturnsKept
<1>3. CASE /\ \E v \in VPage : pt[e][v].p = "lib" /\ Maps(job[e].child, Text, [f |-> pt[e][v].f, p |-> "ro"])
           /\ Next_(e, "data") /\ UNCHANGED <<frame, st>>
  <2>1. PICK v \in VPage : pt[e][v].p = "lib" /\ Maps(job[e].child, Text, [f |-> pt[e][v].f, p |-> "ro"])
    BY <1>3
  <2>2. PICK c \in Env : c = job[e].child
    BY <1>1 DEF MInv, CowInv, JobOK
  <2>p. [f |-> pt[e][v].f, p |-> "ro"] \in Pte
    BY VPages DEF MInv, CowInv, CowTypeOK, Pte, Perm
  <2>3. PICK pte \in Pte : pte = [f |-> pt[e][v].f, p |-> "ro"]
    BY <2>p
  <2>4. \A x \in Env, y \in Va : pt'[x][y] = IF x = c /\ y = Text THEN pte ELSE pt[x][y]
    BY <1>1, <2>1, <2>2, <2>3, MapsIs DEF MInv, CowInv
  <2>5. job' = [job EXCEPT ![e].at = "data"] /\ flt' = flt /\ frame' = frame
    BY <1>3 DEF Next_
  <2>6. Remaps(c, Text, pte)
    BY <1>1, <2>3, <2>4, <2>5 DEF Remaps, Private
  <2>7. Keeps
    BY <1>1, <2>6, RemapKeeps DEF MInv
  <2>8. /\ Awaits("data") \subseteq Awaits(job[e].at) /\ job[e].at \notin {"idle", "dup"}
        /\ \A u \in Awaits("data") : u \in Va /\ u # Text
    BY <1>1, CowAssumption, VPages DEF Awaits
  <2>9. /\ \A d \in Env, u \in Va : d # e /\ d # job[e].child => pt'[d][u] = pt[d][u]
        /\ \A u \in Awaits("data") : pt'[job[e].child][u] = pt[job[e].child][u]
    BY <2>2, <2>4, <2>8
  <2>10. ChildFresh'
    BY <1>1, <2>5, <2>8, <2>9, SpawnFresh
  <2> QED BY <2>5, <2>7, <2>10, CopyKept DEF MInv, Kept
<1> QED BY <1>2, <1>3 DEF spawn_text

(* spawn: new pages in the child.                                          *)
LEMMA SpawnBssKept ==
    ASSUME MInv, CowInv', NEW e \in Env, spawn_bss(e)
    PROVE  Kept
<1>1. st[e] = "run" /\ job[e].at = "bss" /\ Bss \in Va /\ Bss # Tmp
  BY CowAssumption, VPages DEF spawn_bss, In, Runs
<1>2. CASE returns(e)
  BY <1>1, <1>2, ReturnsKept
<1>3. CASE Alloc(job[e].child, Bss) /\ Next_(e, "share") /\ UNCHANGED st
  <2>1. PICK c \in Env : c = job[e].child
    BY <1>1 DEF MInv, CowInv, JobOK
  <2>2. pt[c][Bss].p = "none" /\ Alloc(c, Bss)
    BY <1>1, <1>3, <2>1 DEF MInv, ChildFresh, Fresh
  <2>3. Keeps /\ \A a \in Env, y \in Va : a # c \/ y # Bss => pt'[a][y] = pt[a][y]
    BY <1>1, <2>2, AllocKeeps DEF MInv
  <2>4. job' = [job EXCEPT ![e].at = "share"] /\ flt' = flt
    BY <1>3 DEF Next_
  <2>5. Awaits("share") = {} /\ job[e].at \notin {"idle", "dup"}
    BY <1>1 DEF Awaits
  <2>6. \A d \in Env, u \in Va : d # e /\ d # job[e].child => pt'[d][u] = pt[d][u]
    BY <2>1, <2>3
  <2>7. ChildFresh'
    BY <1>1, <2>4, <2>5, <2>6, SpawnFresh
  <2> QED BY <2>3, <2>4, <2>7, CopyKept DEF MInv, Kept
<1> QED BY <1>2, <1>3 DEF spawn_bss

(* spawn: the library pages, shared.                                       *)
LEMMA SpawnShareKept ==
    ASSUME MInv, CowInv', NEW e \in Env, spawn_share(e)
    PROVE  Kept
<1>1. st[e] = "run" /\ job[e].at = "share"
  BY DEF spawn_share, In, Runs
<1>2. CASE returns(e)
  BY <1>1, <1>2, ReturnsKept
<1>3. CASE ~ returns(e)
  <2>1. PICK c \in Env : c = job[e].child
    BY <1>1 DEF MInv, CowInv, JobOK
  <2>2. PICK S \in SUBSET {v \in VPage : pt[e][v].p = "lib"} :
          pt' = [pt EXCEPT ![c] = [v \in Va |-> IF v \in S THEN pt[e][v] ELSE pt[c][v]]]
    BY <1>3, <2>1 DEF spawn_share
  <2>3. S \in SUBSET VPage /\ \A w \in S : pt[e][w].p = "lib"
    OBVIOUS
  <2>4. \A a \in Env, w \in Va : pt'[a][w] = IF a = c /\ w \in S THEN pt[e][w] ELSE pt[a][w]
    BY <2>2 DEF MInv, CowInv, CowTypeOK
  <2>5. job' = [job EXCEPT ![e].at = "start"] /\ flt' = flt /\ frame' = frame
    BY <1>3 DEF spawn_share, Next_
  <2>6. Keeps
    BY <2>3, <2>4, <2>5, ShareKeeps DEF MInv
  <2>7. /\ Awaits("start") = {} /\ job[e].at \notin {"idle", "dup"}
        /\ \A d \in Env, u \in Va : d # e /\ d # job[e].child => pt'[d][u] = pt[d][u]
    BY <1>1, <2>1, <2>4 DEF Awaits
  <2>8. ChildFresh'
    BY <1>1, <2>5, <2>7, SpawnFresh
  <2> QED BY <2>5, <2>6, <2>8, CopyKept DEF MInv, Kept
<1> QED BY <1>2, <1>3

----------------------------------------------------------------------------
(* The theorem.                                                            *)

(* At boot no page is seen twice.                                          *)
LEMMA MemoryInit == Init => MInv
<1> SUFFICES ASSUME Init PROVE MInv
  OBVIOUS
<1>1. PICK e \in Env, phys \in [{v \in VPage : Boot[v] # "none"} -> Frame] :
        /\ \A v, w \in DOMAIN phys : phys[v] = phys[w] => v = w
        /\ pt = [d \in Env |-> [v \in Va |->
                    IF d = e /\ v \in DOMAIN phys THEN [f |-> phys[v], p |-> Boot[v]] ELSE NoPte]]
  BY DEF Init
<1> DEFINE D == {v \in VPage : Boot[v] # "none"}
<1>2. NoPte.p = "none" /\ NoJob.at = "idle" /\ NoFault.at = "none"
  BY DEF NoPte, NoJob, NoFault
<1>3. /\ \A d \in Env, v \in Va : d = e /\ v \in D => pt[d][v].f = phys[v] /\ pt[d][v].p = Boot[v]
      /\ \A d \in Env, v \in Va : ~ (d = e /\ v \in D) => pt[d][v] = NoPte
  BY <1>1
<1>4. LibApart
  <2> SUFFICES ASSUME NEW a \in Env, NEW b \in Env, NEW v \in Va, NEW u \in Va,
                      pt[a][v].p = "lib", Private(pt[b][u].p)
               PROVE  pt[a][v].f # pt[b][u].f
    BY DEF LibApart
  <2>1. a = e /\ v \in D /\ b = e /\ u \in D /\ v # u
    BY <1>2, <1>3 DEF Private
  <2> QED BY <1>1, <1>3, <2>1
<1>5. ChildFresh /\ CopyOK
  BY <1>2 DEF Init, ChildFresh, CopyOK
<1> QED BY <1>4, <1>5, InitInv DEF MInv

(* Every step keeps the invariant, and what is in the pages of the others. *)
LEMMA MemoryKept == MInv /\ Next => MInv' /\ MemoryStep
<1> SUFFICES ASSUME MInv, Next PROVE MInv' /\ MemoryStep
  OBVIOUS
<1>1. CowInv'
  BY StepInv DEF MInv
<1>2. PICK e \in Env : Steps(e)
  BY DEF Next
<1>3. CASE \E v \in VPage : page_fault(e, v) \/ dup_child(e, v) \/ \E x \in Value : write(e, v, x)
  BY <1>1, <1>3, FaultKept, DupChildKept, WriteKept DEF Kept, Keeps, MInv
<1>4. CASE pgfault_alloc(e) \/ pgfault_copy(e) \/ pgfault_map(e) \/ pgfault_unmap(e)
  BY <1>1, <1>4, FaultAllocKept, FaultCopyKept, FaultMapKept, FaultUnmapKept DEF Kept, Keeps, MInv
<1>5. CASE \E c \in Env : fork(e, c) \/ spawn(e, c)
  BY <1>1, <1>5, MakeKept DEF Kept, Keeps, MInv
<1>6. CASE set_pgfault_handler(e) \/ dup_self(e) \/ fork_xstack(e) \/ fork_handler(e) \/ start(e)
  BY <1>1, <1>6, SetHandlerKept, DupSelfKept, ForkEndKept DEF Kept, Keeps, MInv
<1>7. CASE spawn_alloc(e) \/ spawn_map(e) \/ spawn_unmap(e) \/ spawn_text(e) \/ spawn_bss(e) \/ spawn_share(e)
  BY <1>1, <1>7, SpawnAllocKept, SpawnMapKept, SpawnUnmapKept, SpawnTextKept, SpawnBssKept, SpawnShareKept
     DEF Kept, Keeps, MInv
<1>8. CASE exit(e)
  BY <1>1, <1>8, DestroyKept DEF exit, In, Kept, Keeps, MInv
<1> QED BY <1>2, <1>3, <1>4, <1>5, <1>6, <1>7, <1>8 DEF Steps

(* What is in a program's own page changes when that program stores there, *)
(* and at no other time, whatever is forked, copied or mapped (duppage and *)
(* pgfault in user/fork.c, spawn and init_stack in user/spawn.c).          *)
THEOREM Memory == Spec => MemoryIsOwn
<1>1. Init => MInv
  BY MemoryInit
<1>2. MInv /\ [Next]_vars => MInv'
  <2>1. ASSUME MInv, UNCHANGED vars PROVE MInv'
    <3>1. CowInv'
      BY <2>1, StepInv DEF MInv
    <3> QED BY <2>1, <3>1 DEF vars, MInv, LibApart, ChildFresh, Fresh, CopyOK
  <2> QED BY <2>1, MemoryKept
<1>3. MInv /\ [Next]_vars => [MemoryStep]_vars
  BY MemoryKept
<1>4. Spec => [][MemoryStep]_vars
  BY <1>1, <1>2, <1>3, PTL DEF Spec
<1> QED BY <1>4 DEF MemoryIsOwn, MemoryStep
==============================================================================
