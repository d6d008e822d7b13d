------------------------------ MODULE AddrSpace ------------------------------
(***************************************************************************)
(* What the memory system calls promise a user program, without reference  *)
(* counts, tables or a free list: an environment sees a partial function   *)
(* from addresses to pages; only the calls change it, each in one place;   *)
(* a page that an allocation brings in was visible to nobody.              *)
(***************************************************************************)
CONSTANTS Env, VA, Page, ZeroPage, NoPage

VARIABLES
    live,      \* the environments that have an address space
    view       \* view[e, va]: the page e sees at va, NoPage if none

absVars == <<live, view>>

Init ==
    /\ live = {}
    /\ view = [s \in Env \X VA |-> NoPage]

(* An address space starts empty, and leaves nothing behind.               *)
Create(e) ==
    /\ e \notin live
    /\ live' = live \cup {e}
    /\ UNCHANGED view

Destroy(e) ==
    /\ e \in live
    /\ live' = live \ {e}
    /\ view' = [s \in Env \X VA |-> IF s[1] = e THEN NoPage ELSE view[s]]

Visible(p) == \E s \in Env \X VA : view[s] = p

Alloc(e, va) ==
    /\ e \in live
    /\ \E p \in Page \ {ZeroPage} :
        /\ ~ Visible(p)
        /\ view' = [view EXCEPT ![<<e, va>>] = p]
    /\ UNCHANGED live

(* The page at srcva becomes shared.  An address with nothing mapped may   *)
(* stand for page 0, when its page table exists.                           *)
Share(src, srcva, dst, dstva) ==
    /\ {src, dst} \subseteq live
    /\ \/ /\ view[src, srcva] # NoPage
          /\ view' = [view EXCEPT ![<<dst, dstva>>] = view[src, srcva]]
       \/ /\ view[src, srcva] = NoPage
          /\ view' = [view EXCEPT ![<<dst, dstva>>] = ZeroPage]
    /\ UNCHANGED live

Unmap(e, va) ==
    /\ e \in live
    /\ view' = [view EXCEPT ![<<e, va>>] = NoPage]
    /\ UNCHANGED live

Next ==
    \/ \E e \in Env : Create(e) \/ Destroy(e)
    \/ \E e \in Env, va \in VA : Alloc(e, va) \/ Unmap(e, va)
    \/ \E src, dst \in Env, srcva, dstva \in VA : Share(src, srcva, dst, dstva)

Spec == Init /\ [][Next]_absVars
=============================================================================
