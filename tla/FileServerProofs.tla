--------------------------- MODULE FileServerProofs ---------------------------
(***************************************************************************)
(* Proofs about FileServer, for any number of clients, files and entries   *)
(* of opentab, and any programs.                                           *)
(***************************************************************************)
EXTENDS FileServer, FiniteSetTheorems, WellFoundedInduction, TLAPS

----------------------------------------------------------------------------
(* The inductive invariant.                                                *)

CallType ==
    [op : {"none", "open", "close", "truncate", "remove", "sync"},
     type : {"none", "OPEN", "MAP", "CLOSE", "DIRTY", "SET_SIZE", "BACK", "REMOVE", "SYNC"},
     k : Nat, size : 0 .. NBLK, name : Name \cup {NoName}, mode : {"read", "write", "create"},
     told : SUBSET Int]

AnsType ==
    [r : {"ok", "error", "E_MAX_OPEN", "E_NO_MEM", "E_NO_DISK", "E_INVAL", "E_NOT_FOUND"},
     slot : Slot \cup {-1}, block : Int]

(* The rest of the variables' types.                                       *)
TypesOK ==
    /\ ServerTypeOK
    /\ data \in [Client -> SUBSET Page] /\ pted \in [Client -> SUBSET Page]
    /\ call \in [Client -> CallType] /\ ans \in AnsType

(* A library call is about a descriptor that is open, or about to be.      *)
Fits(k, f) ==
    /\ k.op \in {"close", "truncate"} => f # -1
    /\ k.type = "OPEN" => k.op = "open" /\ f = -1
    /\ k.op = "open" => k.type \in {"OPEN", "MAP"}
    /\ k.type = "MAP" => k.k \in Page /\ f # -1
    /\ k.type = "BACK" => k.op = "truncate"

Proper(c) == Fits(call[c], fd[c]) /\ (pc[c] = "run" => call[c] = NoCall)

CallsOK == \A c \in Client : Proper(c)

(* What the server has in hand comes from a client.                        *)
Conversation == OneConversation /\ (srv # "recv" => req.from \in Client)

(* An id tells the entry of opentab that has it.                           *)
IdsOK == \A i \in Slot : opentab[i].o_fileid % MAXOPEN = i

(* The entry is in use for the file that its page names.                   *)
Kept(i) ==
    /\ opentab[i].page /\ opentab[i].o_fileid = ff[i].f_fileid
    /\ opentab[i].o_file = ff[i].file /\ ff[i].file # 0

FilesKept == \A c \in Client : fd[c] # -1 => Kept(fd[c])

(* The entry just opened is nobody's until the answer arrives.             *)
Pending ==
    srv = "reply" /\ req.type = "OPEN" /\ ans.r = "ok" =>
        ans.slot \in Slot /\ Kept(ans.slot) /\ \A c \in Client : fd[c] # ans.slot

IInv == TypesOK /\ CallsOK /\ Conversation /\ IdsOK /\ FilesKept /\ Pending

----------------------------------------------------------------------------
(* What the operators of the model return.                                 *)

(* The smallest of some natural numbers.                                   *)
LEMMA Smallest ==
    ASSUME NEW S \in SUBSET Nat, S # {}
    PROVE  \E x \in S : \A y \in S : x <= y
<1>1. PICK x \in S : \A y \in S : ~ (<<y, x>> \in OpToRel(<, Nat))
  BY NatLessThanWellFounded, WFMin
<1>2. ASSUME NEW y \in S PROVE x <= y
  <2>1. x \in Nat /\ y \in Nat
    OBVIOUS
  <2>2. <<y, x>> \in Nat \X Nat /\ <<y, x>>[1] = y /\ <<y, x>>[2] = x
    BY <2>1
  <2>3. ~ (y < x)
    BY <1>1, <2>2 DEF OpToRel
  <2> QED BY <2>1, <2>3
<1> QED BY <1>2

(* open_alloc is an entry that nobody, or the server alone, maps.          *)
LEMMA AllocIs ==
    ASSUME FileServerAssumption, Available # {}
    PROVE  open_alloc \in Slot /\ pageref(open_alloc) <= 1
<1>1. Available \in SUBSET Nat /\ Available \subseteq Slot
  BY DEF Available, Slot, FileServerAssumption
<1>2. \E i \in Available : \A j \in Available : i <= j
  BY <1>1, Smallest
<1>3. open_alloc \in Available
  BY <1>2 DEF open_alloc
<1> QED BY <1>1, <1>3 DEF Available

(* The first free directory entry is one.                                  *)
LEMMA FirstFreeIs ==
    ASSUME FileServerAssumption, Named(NoName) # {}
    PROVE  FirstFree \in Entry
<1>1. Named(NoName) \in SUBSET Nat /\ Named(NoName) \subseteq Entry
  BY DEF Named, FileServerAssumption
<1>2. \E x \in Named(NoName) : \A y \in Named(NoName) : x <= y
  BY <1>1, Smallest
<1>3. FirstFree \in Named(NoName)
  BY <1>2 DEF FirstFree
<1> QED BY <1>1, <1>3

(* What the reference count of a page says of those who map it.            *)
LEMMA PageRefs ==
    ASSUME FileServerAssumption, NEW i \in Slot
    PROVE  /\ opentab[i].page /\ (\E c \in Client : fd[c] = i) => pageref(i) \in Nat /\ pageref(i) >= 2
           /\ opentab[i].page /\ pageref(i) = 2 =>
                \A c, d \in Client : fd[c] = i /\ fd[d] = i => c = d
<1> DEFINE U == {c \in Client : fd[c] = i}
<1>1. IsFiniteSet(U) /\ Cardinality(U) \in Nat
  BY FS_Subset, FS_CardinalityType DEF FileServerAssumption
<1>2. opentab[i].page => pageref(i) = 1 + Cardinality(U)
  BY DEF pageref
<1>3. ASSUME NEW c \in U
      PROVE  Cardinality(U) >= 1 /\ (Cardinality(U) = 1 => U = {c})
  <2>1. IsFiniteSet(U \ {c}) /\ Cardinality(U \ {c}) = Cardinality(U) - 1
    BY <1>1, FS_RemoveElement
  <2>2. Cardinality(U \ {c}) \in Nat
    BY <2>1, FS_CardinalityType
  <2>3. Cardinality(U \ {c}) = 0 => U \ {c} = {}
    BY <2>1, FS_EmptySet
  <2> HIDE DEF U
  <2> QED BY <1>1, <2>1, <2>2, <2>3
<1>4. opentab[i].page /\ (\E c \in Client : fd[c] = i) => pageref(i) \in Nat /\ pageref(i) >= 2
  BY <1>1, <1>2, <1>3
<1>5. ASSUME opentab[i].page, pageref(i) = 2, NEW c \in Client, NEW d \in Client, fd[c] = i, fd[d] = i
      PROVE  c = d
  <2>1. c \in U /\ d \in U
    BY <1>5
  <2>2. Cardinality(U) = 1
    BY <1>1, <1>2, <1>5
  <2> QED BY <1>3, <2>1, <2>2
<1> QED BY <1>4, <1>5

(* A remainder is the only one.                                            *)
LEMMA Remainder ==
    ASSUME NEW m \in Nat \ {0}, NEW q \in Int, NEW r \in 0 .. m - 1
    PROVE  (q * m + r) % m = r
<1> DEFINE x == q * m + r
           d == x \div m
           t == x % m
<1>1. x \in Int /\ d \in Int /\ t \in 0 .. m - 1 /\ x = m * d + t
  OBVIOUS
<1>2. x = q * m + r
  OBVIOUS
<1> HIDE DEF x, d, t
<1>3. m * (q - d) = t - r
  BY <1>1, <1>2
<1>4. \A a \in Int : a >= 1 => m * a >= m
  OBVIOUS
<1>5. CASE q - d >= 1
  <2>1. m * (q - d) >= m
    BY <1>1, <1>4, <1>5
  <2> QED BY <1>1, <1>3, <2>1
<1>6. CASE d - q >= 1
  <2>1. m * (d - q) >= m
    BY <1>1, <1>4, <1>6
  <2>2. m * (d - q) = r - t
    BY <1>1, <1>3
  <2> QED BY <1>1, <2>1, <2>2
<1>7. CASE q = d
  <2>1. t = r
    BY <1>1, <1>2, <1>7
  <2> QED BY <2>1 DEF t, x
<1> QED BY <1>1, <1>5, <1>6, <1>7

(* The id that an entry gets next still tells the entry.                   *)
LEMMA NewIdIs ==
    ASSUME FileServerAssumption, NEW i \in Slot, opentab[i].o_fileid \in 0 .. IdMod - 1,
           opentab[i].o_fileid % MAXOPEN = i
    PROVE  NewId(i) \in 0 .. IdMod - 1 /\ NewId(i) % MAXOPEN = i
<1> DEFINE x == opentab[i].o_fileid
           m == MAXOPEN
<1>1. x \in Nat /\ m \in Nat \ {0} /\ IdMod \in Nat /\ IdMod > 2 * m /\ x < IdMod /\ IdMod % m = 0 /\ x % m = i
  BY DEF FileServerAssumption
<1>2. NewId(i) = (x + m) % IdMod
  BY DEF NewId
<1>r. i \in 0 .. m - 1
  BY DEF Slot
<1> HIDE DEF x, m
<1>3. PICK d \in Int, D \in Int : x = d * m + i /\ IdMod = D * m
  <2>1. x = (x \div m) * m + i /\ IdMod = (IdMod \div m) * m /\ x \div m \in Int /\ IdMod \div m \in Int
    BY <1>1
  <2> QED BY <2>1
<1>4. CASE x + m < IdMod
  <2>1. (x + m) % IdMod = x + m
    <3>1. (0 * IdMod + (x + m)) % IdMod = x + m
      BY <1>1, <1>4, Remainder
    <3> QED BY <1>1, <3>1
  <2>2. ((d + 1) * m + i) % m = i
    <3>1. d + 1 \in Int
      BY <1>3
    <3> QED BY ONLY <1>1, <1>r, <3>1, Remainder
  <2>3. x + m = (d + 1) * m + i
    BY <1>1, <1>3
  <2>4. x + m \in 0 .. IdMod - 1
    BY <1>1, <1>4
  <2> QED BY <1>2, <2>1, <2>2, <2>3, <2>4 DEF m
<1>5. CASE x + m >= IdMod
  <2>1. (x + m) % IdMod = x + m - IdMod
    <3>1. (1 * IdMod + (x + m - IdMod)) % IdMod = x + m - IdMod
      BY <1>1, <1>5, Remainder
    <3> QED BY <1>1, <3>1
  <2>2. ((d + 1 - D) * m + i) % m = i
    <3>1. d + 1 - D \in Int
      BY <1>3
    <3> QED BY ONLY <1>1, <1>r, <3>1, Remainder
  <2>3. x + m - IdMod = (d + 1 - D) * m + i
    BY <1>1, <1>3
  <2>4. x + m - IdMod \in 0 .. IdMod - 1
    BY <1>1, <1>5
  <2> QED BY <1>2, <2>1, <2>2, <2>3, <2>4 DEF m
<1> QED BY <1>1, <1>4, <1>5

----------------------------------------------------------------------------
(* A request.                                                              *)

(* No call is a call, and fits any descriptor.                             *)
LEMMA NoCallIs ==
    ASSUME FileServerAssumption
    PROVE  NoCall \in CallType /\ \A f : Fits(NoCall, f)
BY DEF NoCall, CallType, Fits, FileServerAssumption

(* It stays as it is while its client's descriptor does.                   *)
LEMMA RequestKept ==
    ASSUME NEW c \in Client, Fits(call[c], fd[c]), call'[c] = call[c], fd'[c] = fd[c],
           fd[c] # -1 => ff'[fd[c]] = ff[fd[c]]
    PROVE  Request(c)' = Request(c)
<1>1. CASE fd[c] # -1
  BY <1>1 DEF Request
<1>2. CASE fd[c] = -1
  <2>1. call[c].type # "BACK"
    BY <1>2 DEF Fits
  <2> QED BY <1>2, <2>1 DEF Request
<1> QED BY <1>1, <1>2

(* What the server finds in the one that it serves.                        *)
LEMMA RequestIs ==
    ASSUME FileServerAssumption, IInv, srv # "recv"
    PROVE  /\ req.from \in Client /\ pc[req.from] \in {"recv", "wait"} /\ req = Request(req.from)
           /\ req.type = "OPEN" <=> call[req.from].type = "OPEN"
           /\ req.type = "SET_SIZE" => req.offset \in 0 .. NBLK
           /\ req.type = "DIRTY" => req.offset \in Nat
           /\ req.name \in Name \cup {NoName}
<1> DEFINE c == req.from
           k == call[c]
<1>1. c \in Client /\ pc[c] \in {"recv", "wait"} /\ req = Request(c)
  BY DEF IInv, Conversation, OneConversation
<1>2. k \in CallType /\ Fits(k, fd[c])
  BY <1>1 DEF IInv, TypesOK, CallsOK, Proper
<1>3. req.type = IF k.type = "BACK" THEN "SET_SIZE" ELSE k.type
  BY <1>1 DEF Request
<1>4. req.name = k.name
  BY <1>1 DEF Request
<1>5. k.type = "SET_SIZE" => req.offset = k.size
  BY <1>1 DEF Request
<1>6. k.type = "DIRTY" => req.offset = k.k
  BY <1>1 DEF Request
<1>7. k.type = "BACK" => req.offset \in 0 .. NBLK
  <2> SUFFICES ASSUME k.type = "BACK" PROVE req.offset \in 0 .. NBLK
    OBVIOUS
  <2>1. req.offset = ff[fd[c]].f_size
    BY <1>1 DEF Request
  <2>2. fd[c] \in Slot
    BY <1>1, <1>2 DEF Fits, IInv, TypesOK, ServerTypeOK
  <2> QED BY <2>1, <2>2 DEF IInv, TypesOK, ServerTypeOK
<1>8. k.name \in Name \cup {NoName} /\ k.size \in 0 .. NBLK /\ k.k \in Nat
  BY <1>2 DEF CallType
<1> HIDE DEF k
<1> QED BY <1>1, <1>3, <1>4, <1>5, <1>6, <1>7, <1>8 DEF k

----------------------------------------------------------------------------
(* The steps of the clients.                                               *)

(* A library call starts.                                                  *)
LEMMA BeginInv ==
    ASSUME FileServerAssumption, IInv, NEW c \in Client, NEW new \in CallType, Begin(c, new), Fits(new, fd[c])
    PROVE  IInv'
<1>1. /\ pc[c] = "run" /\ UNCHANGED <<node, opentab, ff, fd, data, pted, srv, req, ans>>
      /\ pc' \in [Client -> {"run", "send", "recv", "wait"}] /\ pc'[c] = "send"
      /\ call' \in [Client -> CallType] /\ call'[c] = new
      /\ \A d \in Client : d # c => pc'[d] = pc[d] /\ call'[d] = call[d]
  BY DEF Begin, IInv, TypesOK, ServerTypeOK
<1>2. TypesOK'
  BY <1>1 DEF IInv, TypesOK, ServerTypeOK
<1>3. CallsOK'
  BY <1>1 DEF IInv, CallsOK, Proper
<1>4. Conversation'
  <2>1. ASSUME NEW d \in Client, d # c PROVE Request(d)' = Request(d)
    BY <1>1, <2>1, RequestKept DEF IInv, CallsOK, Proper
  <2>2. ~ (srv # "recv" /\ req.from = c)
    BY <1>1 DEF IInv, Conversation, OneConversation
  <2> QED BY <1>1, <2>1, <2>2 DEF IInv, Conversation, OneConversation
<1>5. IdsOK' /\ FilesKept' /\ Pending'
  BY <1>1 DEF IInv, IdsOK, FilesKept, Pending, Kept
<1> QED BY <1>2, <1>3, <1>4, <1>5 DEF IInv

(* The next request of a call that closes a file is DIRTY or CLOSE.        *)
LEMMA ClosingIs ==
    ASSUME FileServerAssumption, IInv, NEW c \in Client, fd[c] # -1, NEW n \in Nat
    PROVE  /\ Closing(c, n) \in CallType /\ Fits(Closing(c, n), fd[c])
           /\ \A told \in SUBSET Int : [Closing(c, n) EXCEPT !.told = told] \in CallType
                                       /\ Fits([Closing(c, n) EXCEPT !.told = told], fd[c])
<1> DEFINE p == CHOOSE p \in Reported(c, n) : \A q \in Reported(c, n) : p <= q
<1>1. Reported(c, n) \in SUBSET Nat
  BY DEF Reported, IInv, TypesOK, Page
<1>2. Reported(c, n) # {} => p \in Nat
  <2> SUFFICES ASSUME Reported(c, n) # {} PROVE p \in Nat
    OBVIOUS
  <2>1. \E x \in Reported(c, n) : \A y \in Reported(c, n) : x <= y
    BY <1>1, Smallest
  <2>2. p \in Reported(c, n)
    BY <2>1
  <2> QED BY <1>1, <2>2
<1> HIDE DEF p
<1>3. \/ Closing(c, n) = [NoCall EXCEPT !.op = "close", !.type = "CLOSE"]
      \/ p \in Nat /\ Closing(c, n) = [NoCall EXCEPT !.op = "close", !.type = "DIRTY", !.k = p]
  BY <1>2 DEF Closing, p
<1>4. \A t \in {"CLOSE", "DIRTY"}, m \in Nat, told \in SUBSET Int :
        [op |-> "close", type |-> t, k |-> m, size |-> 0, name |-> NoName, mode |-> "read", told |-> told] \in CallType
  BY DEF CallType, FileServerAssumption
<1>5. \E t \in {"CLOSE", "DIRTY"}, m \in Nat :
        Closing(c, n) = [op |-> "close", type |-> t, k |-> m, size |-> 0, name |-> NoName, mode |-> "read", told |-> {}]
  BY <1>3 DEF NoCall
<1> QED BY <1>4, <1>5 DEF Fits

(* Every one of them.                                                      *)
LEMMA CallsInv ==
    ASSUME FileServerAssumption, IInv, NEW c \in Client,
           \/ \E n \in Name, m \in {"read", "write", "create"} : open(c, n, m)
           \/ file_close(c)
           \/ \E size \in 0 .. NBLK : ftruncate(c, size)
           \/ \E n \in Name : remove(c, n)
           \/ sync(c)
    PROVE  IInv'
<1>t. \A r, o, tt, n, z, m :
        /\ o \in {"open", "truncate", "remove", "sync"} /\ tt \in {"OPEN", "SET_SIZE", "REMOVE", "SYNC"}
        /\ n \in Name \cup {NoName} /\ z \in 0 .. NBLK /\ m \in {"read", "write", "create"}
        /\ r = [op |-> o, type |-> tt, k |-> 0, size |-> z, name |-> n, mode |-> m, told |-> {}]
        => r \in CallType /\ r.op = o /\ r.type = tt
  BY DEF CallType
<1>z. 0 \in 0 .. NBLK
  BY DEF FileServerAssumption
<1>1. CASE \E n \in Name, m \in {"read", "write", "create"} : open(c, n, m)
  <2>1. PICK n \in Name, m \in {"read", "write", "create"} : open(c, n, m)
    BY <1>1
  <2>2. PICK new : new = [NoCall EXCEPT !.op = "open", !.type = "OPEN", !.name = n, !.mode = m]
    OBVIOUS
  <2>3. new = [op |-> "open", type |-> "OPEN", k |-> 0, size |-> 0, name |-> n, mode |-> m, told |-> {}]
    BY <2>2 DEF NoCall
  <2>4. Begin(c, new) /\ fd[c] = -1
    BY <2>1, <2>2, Zenon DEF open
  <2>5. new \in CallType /\ new.op = "open" /\ new.type = "OPEN"
    BY <1>t, <1>z, <2>3
  <2>6. Fits(new, fd[c])
    BY <2>4, <2>5 DEF Fits
  <2> QED BY <2>4, <2>5, <2>6, BeginInv
<1>2. CASE file_close(c)
  <2>1. fd[c] # -1 /\ Begin(c, Closing(c, 0))
    BY <1>2 DEF file_close
  <2> QED BY <2>1, ClosingIs, BeginInv
<1>3. CASE \E size \in 0 .. NBLK : ftruncate(c, size)
  <2>1. PICK size \in 0 .. NBLK : ftruncate(c, size)
    BY <1>3
  <2>2. PICK new : new = [NoCall EXCEPT !.op = "truncate", !.type = "SET_SIZE", !.size = size]
    OBVIOUS
  <2>3. new = [op |-> "truncate", type |-> "SET_SIZE", k |-> 0, size |-> size, name |-> NoName, mode |-> "read", told |-> {}]
    BY <2>2 DEF NoCall
  <2>4. Begin(c, new) /\ fd[c] # -1
    BY <2>1, <2>2, Zenon DEF ftruncate
  <2>5. new \in CallType /\ new.op = "truncate" /\ new.type = "SET_SIZE"
    BY <1>t, <2>3
  <2>6. Fits(new, fd[c])
    BY <2>4, <2>5 DEF Fits
  <2> QED BY <2>4, <2>5, <2>6, BeginInv
<1>4. CASE \E n \in Name : remove(c, n)
  <2>1. PICK n \in Name : remove(c, n)
    BY <1>4
  <2>2. PICK new : new = [NoCall EXCEPT !.op = "remove", !.type = "REMOVE", !.name = n]
    OBVIOUS
  <2>3. new = [op |-> "remove", type |-> "REMOVE", k |-> 0, size |-> 0, name |-> n, mode |-> "read", told |-> {}]
    BY <2>2 DEF NoCall
  <2>4. Begin(c, new)
    BY <2>1, <2>2, Zenon DEF remove
  <2>5. new \in CallType /\ new.op = "remove" /\ new.type = "REMOVE"
    BY <1>t, <1>z, <2>3
  <2>6. Fits(new, fd[c])
    BY <2>5 DEF Fits
  <2> QED BY <2>4, <2>5, <2>6, BeginInv
<1>5. CASE sync(c)
  <2>2. PICK new : new = [NoCall EXCEPT !.op = "sync", !.type = "SYNC"]
    OBVIOUS
  <2>3. new = [op |-> "sync", type |-> "SYNC", k |-> 0, size |-> 0, name |-> NoName, mode |-> "read", told |-> {}]
    BY <2>2 DEF NoCall
  <2>4. Begin(c, new)
    BY <1>5, <2>2, Zenon DEF sync
  <2>5. new \in CallType /\ new.op = "sync" /\ new.type = "SYNC"
    BY <1>t, <1>z, <2>3
  <2>6. Fits(new, fd[c])
    BY <2>5 DEF Fits
  <2> QED BY <2>4, <2>5, <2>6, BeginInv
<1> QED BY <1>1, <1>2, <1>3, <1>4, <1>5

(* A store into a page of a file.                                          *)
LEMMA FileWriteInv ==
    ASSUME IInv, NEW c \in Client, NEW p \in Page, file_write(c, p)
    PROVE  IInv'
<1>1. /\ UNCHANGED <<node, opentab, ff, fd, data, call, pc, srv, req, ans>>
      /\ p \in data[c] /\ pted' \in [Client -> SUBSET Page] /\ pted'[c] = pted[c] \cup {p}
      /\ \A d \in Client : d # c => pted'[d] = pted[d]
  BY DEF file_write, IInv, TypesOK
<1>2. TypesOK'
  BY <1>1 DEF IInv, TypesOK, ServerTypeOK
<1>3. CallsOK' /\ Conversation'
  BY <1>1 DEF IInv, CallsOK, Proper, Conversation, OneConversation, Request
<1>4. IdsOK' /\ FilesKept' /\ Pending'
  BY <1>1 DEF IInv, IdsOK, FilesKept, Pending, Kept
<1> QED BY <1>2, <1>3, <1>4 DEF IInv

(* A fork gives a client without a descriptor one that is somebody's.      *)
LEMMA ForkInv ==
    ASSUME FileServerAssumption, IInv, NEW c \in Client, NEW d \in Client, fork(c, d)
    PROVE  IInv'
<1>1. /\ pc[c] = "run" /\ pc[d] = "run" /\ fd[c] # -1 /\ fd[d] = -1 /\ c # d
      /\ UNCHANGED <<node, opentab, ff, call, pc, srv, req, ans>>
      /\ fd' = [fd EXCEPT ![d] = fd[c]] /\ data' = [data EXCEPT ![d] = data[c]] /\ pted' = [pted EXCEPT ![d] = {}]
  BY DEF fork
<1>2. /\ fd' \in [Client -> Slot \cup {-1}] /\ fd'[d] = fd[c]
      /\ data' \in [Client -> SUBSET Page] /\ data'[d] = data[c] /\ pted' \in [Client -> SUBSET Page] /\ pted'[d] = {}
      /\ \A x \in Client : x # d => fd'[x] = fd[x] /\ data'[x] = data[x] /\ pted'[x] = pted[x]
  BY <1>1 DEF IInv, TypesOK, ServerTypeOK
<1>3. TypesOK'
  BY <1>1, <1>2 DEF IInv, TypesOK, ServerTypeOK
<1>4. call[d] = NoCall
  BY <1>1 DEF IInv, CallsOK, Proper
<1>5. CallsOK'
  <2>1. Fits(call'[d], fd'[d])
    BY <1>1, <1>4, NoCallIs
  <2>2. \A x \in Client : Fits(call'[x], fd'[x])
    BY <1>1, <1>2, <2>1 DEF IInv, CallsOK, Proper
  <2> QED BY <1>1, <2>2 DEF IInv, CallsOK, Proper
<1>6. Conversation'
  <2>1. ASSUME NEW x \in Client, x # d PROVE Request(x)' = Request(x)
    BY <1>1, <1>2, <2>1, RequestKept DEF IInv, CallsOK, Proper
  <2> QED BY <1>1, <2>1 DEF IInv, Conversation, OneConversation
<1>7. IdsOK' /\ \A i : Kept(i)' = Kept(i)
  BY <1>1 DEF IInv, IdsOK, Kept
<1>8. FilesKept'
  BY <1>1, <1>2, <1>7 DEF IInv, FilesKept
<1>9. Pending'
  BY <1>1, <1>2, <1>7 DEF IInv, Pending
<1> QED BY <1>3, <1>5, <1>6, <1>7, <1>8, <1>9 DEF IInv

(* A request reaches the server; its client goes on to wait for the answer.*)
LEMMA SendInv ==
    ASSUME IInv, NEW c \in Client, ipc_send(c) \/ ipc_recv(c)
    PROVE  IInv'
<1>1. /\ UNCHANGED <<node, opentab, ff, fd, data, pted, call, ans>>
      /\ pc[c] \in {"send", "recv"} /\ pc' \in [Client -> {"run", "send", "recv", "wait"}]
      /\ pc'[c] \in {"recv", "wait"} /\ \A d \in Client : d # c => pc'[d] = pc[d]
      /\ srv' \in {"recv", "serve", "reply"}
  BY DEF ipc_send, ipc_recv, clientVars, IInv, TypesOK, ServerTypeOK
<1>2. \/ srv = "recv" /\ pc[c] = "send" /\ srv' = "serve" /\ req' = Request(c)
      \/ pc[c] = "recv" /\ srv' = srv /\ req' = req
  BY DEF ipc_send, ipc_recv
<1>3. TypesOK' /\ CallsOK'
  BY <1>1 DEF IInv, TypesOK, ServerTypeOK, CallsOK, Proper
<1>4. \A x \in Client : Request(x)' = Request(x)
  BY <1>1 DEF Request
<1>5. Request(c).from = c
  BY DEF Request
<1>6. Conversation'
  BY <1>1, <1>2, <1>4, <1>5 DEF IInv, Conversation, OneConversation
<1>7. IdsOK' /\ FilesKept' /\ Pending'
  BY <1>1, <1>2 DEF IInv, IdsOK, FilesKept, Pending, Kept
<1> QED BY <1>3, <1>6, <1>7 DEF IInv

----------------------------------------------------------------------------
(* The server's handlers.                                                  *)

NodeType == [f_name : Name \cup {NoName}, f_size : 0 .. NBLK]
OpenType == [o_fileid : 0 .. IdMod - 1, o_file : Entry \cup {0}, page : BOOLEAN]
FfType == [f_fileid : 0 .. IdMod - 1, file : Entry \cup {0}, f_size : 0 .. NBLK]

(* An answer is of its type and has the result it was given.               *)
LEMMA AnswerIs ==
    ASSUME NEW r \in {"ok", "error", "E_MAX_OPEN", "E_NO_MEM", "E_NO_DISK", "E_INVAL", "E_NOT_FOUND"}, Answer(r)
    PROVE  ans' \in AnsType /\ ans'.r = r
BY DEF Answer, AnsType

(* What the request and its client do not notice.                          *)
LEMMA AnsweredConversation ==
    ASSUME IInv, NEW type, Serving(type),
           \A c \in Client : fd[c] # -1 => ff'[fd[c]] = ff[fd[c]]
    PROVE  Conversation' /\ CallsOK'
<1>1. UNCHANGED <<fd, data, pted, call, pc, req>> /\ srv = "serve" /\ srv' = "reply"
  BY DEF Serving, clientVars
<1>2. \A c \in Client : Request(c)' = Request(c)
  BY <1>1, RequestKept DEF IInv, CallsOK, Proper
<1>3. Conversation'
  BY <1>1, <1>2 DEF IInv, Conversation, OneConversation
<1>4. CallsOK'
  BY <1>1 DEF IInv, CallsOK, Proper
<1> QED BY <1>3, <1>4

(* A handler that leaves opentab and the pages alone.                      *)
LEMMA HandlerInv ==
    ASSUME IInv, NEW type, Serving(type), type # "OPEN", UNCHANGED <<opentab, ff>>,
           ans' \in AnsType, node' \in [Entry -> NodeType]
    PROVE  IInv'
<1>1. /\ UNCHANGED <<fd, data, pted, call, pc, req>> /\ srv = "serve" /\ srv' = "reply" /\ req.type # "OPEN"
  BY DEF Serving, clientVars
<1>2. TypesOK'
  BY <1>1 DEF IInv, TypesOK, ServerTypeOK, NodeType
<1>3. CallsOK' /\ Conversation'
  BY AnsweredConversation
<1>4. IdsOK' /\ FilesKept' /\ Pending'
  BY <1>1 DEF IInv, IdsOK, FilesKept, Pending, Kept
<1> QED BY <1>2, <1>3, <1>4 DEF IInv

(* The directory keeps its type where nobody touches it.                   *)
LEMMA NodeSame == IInv /\ UNCHANGED node => node' \in [Entry -> NodeType]
BY DEF IInv, TypesOK, ServerTypeOK, NodeType

(* All the requests but OPEN.                                              *)
LEMMA ServeInv ==
    ASSUME FileServerAssumption, IInv,
           serve_map \/ serve_set_size \/ serve_close \/ serve_dirty \/ serve_remove \/ serve_sync
    PROVE  IInv'
<1> DEFINE rs == {"ok", "error", "E_MAX_OPEN", "E_NO_MEM", "E_NO_DISK", "E_INVAL", "E_NOT_FOUND"}
<1>1. CASE serve_map
  <2>1. Serving("MAP") /\ UNCHANGED <<node, opentab, ff>> /\ \E r \in rs : Answer(r)
    BY <1>1 DEF serve_map
  <2> QED BY <2>1, AnswerIs, NodeSame, HandlerInv
<1>2. CASE serve_set_size
  <2>1. Serving("SET_SIZE") /\ UNCHANGED <<opentab, ff>> /\ \E r \in rs : Answer(r)
    BY <1>2 DEF serve_set_size
  <2>2. req.offset \in 0 .. NBLK
    BY <2>1, RequestIs DEF Serving
  <2>3. node' = node \/ \E e : node' = [node EXCEPT ![e].f_size = req.offset]
    BY <1>2 DEF serve_set_size
  <2>4. node \in [Entry -> NodeType]
    BY DEF IInv, TypesOK, ServerTypeOK, NodeType
  <2>5. node' \in [Entry -> NodeType]
    BY <2>2, <2>3, <2>4 DEF NodeType
  <2> QED BY <2>1, <2>5, AnswerIs, HandlerInv
<1>3. CASE serve_close
  <2>1. Serving("CLOSE") /\ UNCHANGED <<node, opentab, ff>> /\ \E r \in rs : Answer(r)
    BY <1>3 DEF serve_close
  <2> QED BY <2>1, AnswerIs, NodeSame, HandlerInv
<1>4. CASE serve_dirty
  <2>1. Serving("DIRTY") /\ UNCHANGED <<node, opentab, ff>>
    BY <1>4 DEF serve_dirty
  <2>2. (\E r \in rs : Answer(r)) \/ ans' = [r |-> "ok", slot |-> -1, block |-> req.offset \div BY2PG]
    BY <1>4 DEF serve_dirty
  <2>3. req.offset \in Nat /\ BY2PG \in Nat \ {0}
    BY <2>1, RequestIs DEF Serving, FileServerAssumption
  <2>4. req.offset \div BY2PG \in Int
    BY <2>3
  <2>5. ans' \in AnsType
    BY <2>2, <2>4, AnswerIs DEF AnsType
  <2> QED BY <2>1, <2>5, NodeSame, HandlerInv
<1>5. CASE serve_remove
  <2>1. Serving("REMOVE") /\ UNCHANGED <<opentab, ff>> /\ \E r \in rs : Answer(r)
    BY <1>5 DEF serve_remove
  <2>2. node' = node \/ \E e : node' = [node EXCEPT ![e] = [f_name |-> NoName, f_size |-> 0]]
    BY <1>5 DEF serve_remove
  <2>3. node \in [Entry -> NodeType] /\ [f_name |-> NoName, f_size |-> 0] \in NodeType
    BY DEF IInv, TypesOK, ServerTypeOK, NodeType, FileServerAssumption
  <2>4. node' \in [Entry -> NodeType]
    BY <2>2, <2>3
  <2> QED BY <2>1, <2>4, AnswerIs, HandlerInv
<1>6. CASE serve_sync
  <2>1. Serving("SYNC") /\ UNCHANGED <<node, opentab, ff>> /\ \E r \in rs : Answer(r)
    BY <1>6 DEF serve_sync
  <2> QED BY <2>1, AnswerIs, NodeSame, HandlerInv
<1> QED BY <1>1, <1>2, <1>3, <1>4, <1>5, <1>6

(* An entry that is taken gets an id and a page.                           *)
LEMMA TakenIs ==
    ASSUME FileServerAssumption, IInv, NEW i \in Slot
    PROVE  /\ Taken(i) \in [Slot -> OpenType]
           /\ Taken(i)[i].o_fileid = NewId(i) /\ Taken(i)[i].page
           /\ \A j \in Slot : j # i => Taken(i)[j] = opentab[j]
           /\ \A j \in Slot : Taken(i)[j].o_fileid % MAXOPEN = j
<1>1. opentab \in [Slot -> OpenType] /\ opentab[i].o_fileid \in 0 .. IdMod - 1 /\ opentab[i].o_fileid % MAXOPEN = i
  BY DEF IInv, TypesOK, ServerTypeOK, OpenType, IdsOK
<1>2. NewId(i) \in 0 .. IdMod - 1 /\ NewId(i) % MAXOPEN = i
  BY <1>1, NewIdIs
<1>3. opentab[i] \in OpenType
  BY <1>1
<1>4. PICK x : x = [opentab[i] EXCEPT !.o_fileid = NewId(i), !.page = TRUE]
  OBVIOUS
<1>5. x \in OpenType /\ x.o_fileid = NewId(i) /\ x.page
  BY <1>2, <1>3, <1>4 DEF OpenType
<1>6. Taken(i) = [opentab EXCEPT ![i] = x]
  BY <1>1, <1>4 DEF Taken
<1>7. \A j \in Slot : opentab[j].o_fileid % MAXOPEN = j
  BY DEF IInv, IdsOK
<1> QED BY ONLY <1>1, <1>2, <1>5, <1>6, <1>7, i \in Slot

(* An entry is changed that no client maps.                                *)
LEMMA EntryInv ==
    ASSUME FileServerAssumption, IInv, Serving("OPEN"), NEW i \in Slot, pageref(i) <= 1,
           node' \in [Entry -> NodeType], opentab' \in [Slot -> OpenType], ff' \in [Slot -> FfType], ans' \in AnsType,
           \A j \in Slot : j # i => opentab'[j] = opentab[j] /\ ff'[j] = ff[j],
           opentab'[i].o_fileid % MAXOPEN = i,
           ans'.r = "ok" => ans'.slot = i /\ Kept(i)'
    PROVE  IInv'
<1>1. UNCHANGED <<fd, data, pted, call, pc, req>> /\ srv' = "reply"
  BY DEF Serving, clientVars
<1>2. \A c \in Client : fd[c] # i
  <2> SUFFICES ASSUME NEW c \in Client, fd[c] = i PROVE FALSE
    OBVIOUS
  <2>1. opentab[i].page
    BY DEF IInv, FilesKept, Kept, Slot
  <2>2. pageref(i) \in Nat /\ pageref(i) >= 2
    BY <2>1, PageRefs
  <2> QED BY <2>2
<1>3. \A c \in Client : fd[c] # -1 => fd[c] \in Slot /\ opentab'[fd[c]] = opentab[fd[c]] /\ ff'[fd[c]] = ff[fd[c]]
  BY <1>2 DEF IInv, TypesOK, ServerTypeOK
<1>4. TypesOK'
  BY <1>1 DEF IInv, TypesOK, ServerTypeOK, NodeType, OpenType, FfType
<1>5. CallsOK' /\ Conversation'
  BY <1>3, AnsweredConversation
<1>6. IdsOK'
  BY DEF IInv, IdsOK
<1>7. FilesKept'
  BY <1>1, <1>3 DEF IInv, FilesKept, Kept
<1>8. Pending'
  BY <1>1, <1>2 DEF Pending
<1> QED BY <1>4, <1>5, <1>6, <1>7, <1>8 DEF IInv

(* The file is found, or made.                                             *)
LEMMA OpenedInv ==
    ASSUME FileServerAssumption, IInv, Serving("OPEN"), NEW i \in Slot, pageref(i) <= 1,
           NEW e \in Entry, NEW nodes \in [Entry -> NodeType], Opened(i, e, nodes)
    PROVE  IInv'
<1>1. ff \in [Slot -> FfType]
  BY DEF IInv, TypesOK, ServerTypeOK, FfType
<1>2. /\ node' = nodes /\ opentab' = [Taken(i) EXCEPT ![i].o_file = e]
      /\ ff' = [ff EXCEPT ![i] = [f_fileid |-> NewId(i), file |-> e, f_size |-> nodes[e].f_size]]
      /\ ans' = [r |-> "ok", slot |-> i, block |-> -1]
  BY DEF Opened
<1>3. /\ Taken(i) \in [Slot -> OpenType] /\ Taken(i)[i].o_fileid = NewId(i) /\ Taken(i)[i].page
      /\ \A j \in Slot : j # i => Taken(i)[j] = opentab[j]
      /\ Taken(i)[i].o_fileid % MAXOPEN = i
  BY <1>1, TakenIs
<1>4. Taken(i)[i] \in OpenType /\ NewId(i) \in 0 .. IdMod - 1
  BY <1>1, <1>3 DEF OpenType
<1>5. PICK o : o = [Taken(i)[i] EXCEPT !.o_file = e]
  OBVIOUS
<1>6. o \in OpenType /\ o.o_fileid = NewId(i) /\ o.page /\ o.o_file = e
  BY <1>3, <1>4, <1>5 DEF OpenType
<1>7. opentab' = [Taken(i) EXCEPT ![i] = o]
  BY <1>1, <1>2, <1>3, <1>5
<1>8. /\ opentab' \in [Slot -> OpenType] /\ opentab'[i] = o
      /\ \A j \in Slot : j # i => opentab'[j] = opentab[j]
  BY ONLY <1>1, <1>3, <1>6, <1>7
<1>9. [f_fileid |-> NewId(i), file |-> e, f_size |-> nodes[e].f_size] \in FfType
  BY <1>4 DEF FfType, NodeType
<1>10. /\ ff' \in [Slot -> FfType] /\ ff'[i].f_fileid = NewId(i) /\ ff'[i].file = e
       /\ \A j \in Slot : j # i => ff'[j] = ff[j]
  BY <1>1, <1>2, <1>9
<1>11. ans' \in AnsType /\ ans'.slot = i
  BY <1>1, <1>2 DEF AnsType
<1>12. e # 0
  BY DEF FileServerAssumption
<1>13. Kept(i)'
  BY <1>6, <1>8, <1>10, <1>12 DEF Kept
<1>14. opentab'[i].o_fileid % MAXOPEN = i
  BY <1>3, <1>6, <1>8
<1> QED BY <1>1, <1>2, <1>8, <1>10, <1>11, <1>13, <1>14, EntryInv

(* serve_open.                                                             *)
LEMMA OpenInv ==
    ASSUME FileServerAssumption, IInv, serve_open
    PROVE  IInv'
<1> DEFINE i == open_alloc
           creates == req.mode = "create" \/ (Named(req.name) = {} /\ req.mode = "write")
<1>0. Serving("OPEN") /\ req.name \in Name \cup {NoName}
  BY RequestIs DEF serve_open, Serving
<1>t. node \in [Entry -> NodeType] /\ opentab \in [Slot -> OpenType] /\ ff \in [Slot -> FfType]
  BY DEF IInv, TypesOK, ServerTypeOK, NodeType, OpenType, FfType
<1>1. CASE /\ Answer("E_MAX_OPEN") \/ Answer("E_NO_MEM")
           /\ UNCHANGED <<node, opentab, ff>>
  <2>1. UNCHANGED <<fd, data, pted, call, pc, req>> /\ srv' = "reply"
    BY <1>0 DEF Serving, clientVars
  <2>2. ans' \in AnsType /\ ans'.r # "ok"
    BY <1>1, AnswerIs
  <2>3. CallsOK' /\ Conversation'
    BY <1>0, <1>1, AnsweredConversation
  <2>4. TypesOK'
    BY <1>1, <2>1, <2>2 DEF IInv, TypesOK, ServerTypeOK
  <2>5. IdsOK' /\ FilesKept' /\ Pending'
    BY <1>1, <2>1, <2>2 DEF IInv, IdsOK, FilesKept, Pending, Kept
  <2> QED BY <2>3, <2>4, <2>5 DEF IInv
<1>2. CASE Available # {} /\ opentab' = Taken(i) /\ ff' = Wiped(i) /\ Answer("error") /\ UNCHANGED node
  <2>1. i \in Slot /\ pageref(i) <= 1
    BY <1>2, AllocIs
  <2> HIDE DEF i
  <2>2. [f_fileid |-> 0, file |-> 0, f_size |-> 0] \in FfType
    BY DEF FfType, FileServerAssumption
  <2>3. ff' \in [Slot -> FfType] /\ \A j \in Slot : j # i => ff'[j] = ff[j]
    BY <1>2, <1>t, <2>1, <2>2 DEF Wiped
  <2>4. ans' \in AnsType /\ ans'.r # "ok"
    BY <1>2, AnswerIs
  <2>5. /\ opentab' \in [Slot -> OpenType] /\ \A j \in Slot : j # i => opentab'[j] = opentab[j]
        /\ opentab'[i].o_fileid % MAXOPEN = i
    BY <1>2, <2>1, TakenIs
  <2> QED BY <1>0, <1>2, <1>t, <2>1, <2>3, <2>4, <2>5, EntryInv
<1>4. CASE /\ Available # {} /\ \E e \in Named(req.name) : Opened(i, e, node)
  <2>1. PICK e \in Named(req.name) : Opened(i, e, node)
    BY <1>4
  <2>2. e \in Entry
    BY DEF Named
  <2>3. i \in Slot /\ pageref(i) <= 1
    BY <1>4, AllocIs
  <2> HIDE DEF i
  <2> QED BY <1>0, <1>t, <2>1, <2>2, <2>3, OpenedInv
<1>5. CASE /\ Available # {} /\ Named(NoName) # {}
           /\ Opened(i, FirstFree, [node EXCEPT ![FirstFree].f_name = req.name])
  <2>1. FirstFree \in Entry
    BY <1>5, FirstFreeIs
  <2>2. [node EXCEPT ![FirstFree].f_name = req.name] \in [Entry -> NodeType]
    BY <1>0, <1>t, <2>1 DEF NodeType
  <2>3. i \in Slot /\ pageref(i) <= 1
    BY <1>5, AllocIs
  <2>4. PICK nodes \in [Entry -> NodeType] : Opened(i, FirstFree, nodes)
    BY <1>5, <2>2
  <2> HIDE DEF i
  <2> QED BY <1>0, <2>1, <2>3, <2>4, OpenedInv
<1>6. \/ (Answer("E_MAX_OPEN") \/ Answer("E_NO_MEM")) /\ UNCHANGED <<node, opentab, ff>>
      \/ Available # {} /\ opentab' = Taken(i) /\ ff' = Wiped(i) /\ Answer("error") /\ UNCHANGED node
      \/ Available # {} /\ \E e \in Named(req.name) : Opened(i, e, node)
      \/ /\ Available # {} /\ Named(NoName) # {}
         /\ Opened(i, FirstFree, [node EXCEPT ![FirstFree].f_name = req.name])
  BY DEF serve_open
<1> QED BY <1>1, <1>2, <1>4, <1>5, <1>6

----------------------------------------------------------------------------
(* The answers.                                                            *)

FreshAns == [r |-> "ok", slot |-> -1, block |-> -1]

(* The pages of a file that its clients have mapped, and stored into.      *)
DataOK ==
    /\ data \in [Client -> SUBSET Page] /\ pted \in [Client -> SUBSET Page]
    /\ \A d \in Client : pted[d] \subseteq data[d]

(* A client takes its answer and goes on to l, with the request new and    *)
(* the descriptor f.                                                       *)
Answered(c, l, new, f) ==
    /\ srv = "reply" /\ req.from = c /\ srv' = "recv" /\ UNCHANGED <<node, opentab>> /\ ans' = FreshAns
    /\ l \in {"run", "send"} /\ pc' = [pc EXCEPT ![c] = l]
    /\ new \in CallType /\ Fits(new, f) /\ (l = "run" => new = NoCall) /\ call' = [call EXCEPT ![c] = new]
    /\ f \in Slot \cup {-1} /\ fd' = [fd EXCEPT ![c] = f]
    /\ ff' \in [Slot -> FfType] /\ DataOK'
    /\ \A i \in Slot : (\E d \in Client : fd'[d] = i) => Kept(i)'

(* A client that has taken its answer, and goes on as new with the         *)
(* descriptor f.                                                           *)
LEMMA AnsweredInv ==
    ASSUME IInv, NEW c \in Client, NEW l, NEW new, NEW f, Answered(c, l, new, f)
    PROVE  IInv'
<1>1. /\ pc' \in [Client -> {"run", "send", "recv", "wait"}] /\ pc'[c] = l /\ l \in {"run", "send"}
      /\ \A d \in Client : d # c => pc'[d] = pc[d]
  BY DEF Answered, IInv, TypesOK, ServerTypeOK
<1>2. /\ call' \in [Client -> CallType] /\ call'[c] = new /\ \A d \in Client : d # c => call'[d] = call[d]
  BY DEF Answered, IInv, TypesOK
<1>3. /\ fd' \in [Client -> Slot \cup {-1}] /\ fd'[c] = f /\ \A d \in Client : d # c => fd'[d] = fd[d]
  BY DEF Answered, IInv, TypesOK, ServerTypeOK
<1>4. /\ srv = "reply" /\ req.from = c /\ srv' = "recv" /\ UNCHANGED <<node, opentab>> /\ ans' = FreshAns
      /\ ff' \in [Slot -> FfType] /\ DataOK'
      /\ Fits(new, f) /\ (l = "run" => new = NoCall)
  BY DEF Answered
<1>5. ans' \in AnsType
  BY <1>4 DEF FreshAns, AnsType
<1>6. TypesOK'
  BY <1>1, <1>2, <1>3, <1>4, <1>5 DEF IInv, TypesOK, ServerTypeOK, DataOK, FfType
<1>7. CallsOK'
  BY <1>1, <1>2, <1>3, <1>4 DEF IInv, CallsOK, Proper
<1>8. Conversation'
  BY <1>1, <1>4 DEF IInv, Conversation, OneConversation
<1>9. IdsOK' /\ Pending'
  BY <1>4 DEF IInv, IdsOK, Pending
<1>10. FilesKept'
  <2> SUFFICES ASSUME NEW d \in Client, fd'[d] # -1
               PROVE  Kept(fd[d])'
    BY DEF FilesKept
  <2>1. PICK i \in Slot : i = fd'[d]
    BY <1>3
  <2>2. Kept(i)'
    BY <2>1 DEF Answered
  <2> QED BY <2>1, <2>2 DEF Kept
<1> QED BY <1>6, <1>7, <1>8, <1>9, <1>10 DEF IInv

(* Mapped pages where nobody maps or stores.                               *)
LEMMA DataSame == IInv /\ UNCHANGED <<data, pted>> => DataOK'
BY DEF IInv, TypesOK, ServerTypeOK, DataOK

(* A page that fsipc_map maps is mapped and not yet stored into.           *)
LEMMA DataMaps ==
    ASSUME IInv, NEW c \in Client, NEW p \in Page, Maps(c, p)
    PROVE  DataOK'
<1>1. /\ data \in [Client -> SUBSET Page] /\ pted \in [Client -> SUBSET Page]
      /\ \A d \in Client : pted[d] \subseteq data[d]
  BY DEF IInv, TypesOK, ServerTypeOK
<1>2. data' = [data EXCEPT ![c] = data[c] \cup {p}] /\ pted' = [pted EXCEPT ![c] = pted[c] \ {p}]
  BY DEF Maps
<1>3. data' \in [Client -> SUBSET Page] /\ pted' \in [Client -> SUBSET Page]
  BY <1>1, <1>2
<1>4. /\ data'[c] = data[c] \cup {p} /\ pted'[c] = pted[c] \ {p}
      /\ \A d \in Client : d # c => data'[d] = data[d] /\ pted'[d] = pted[d]
  BY <1>1, <1>2
<1> QED BY <1>1, <1>3, <1>4 DEF DataOK

(* Only some pages stay mapped.                                            *)
LEMMA DataCut ==
    ASSUME IInv, NEW c \in Client, NEW left,
           data' = [data EXCEPT ![c] = data[c] \cap left], pted' = [pted EXCEPT ![c] = pted[c] \cap left]
    PROVE  DataOK'
<1>1. /\ data \in [Client -> SUBSET Page] /\ pted \in [Client -> SUBSET Page]
      /\ \A d \in Client : pted[d] \subseteq data[d]
  BY DEF IInv, TypesOK, ServerTypeOK
<1>3. data' \in [Client -> SUBSET Page] /\ pted' \in [Client -> SUBSET Page]
  BY <1>1
<1>4. /\ data'[c] = data[c] \cap left /\ pted'[c] = pted[c] \cap left
      /\ \A d \in Client : d # c => data'[d] = data[d] /\ pted'[d] = pted[d]
  BY <1>1
<1> QED BY <1>1, <1>3, <1>4 DEF DataOK

(* What the client that gets the answer knows.                             *)
LEMMA ReplyIs ==
    ASSUME FileServerAssumption, IInv, NEW c \in Client, reply(c)
    PROVE  /\ srv = "reply" /\ req.from = c /\ srv' = "recv" /\ UNCHANGED <<node, opentab>> /\ ans' = FreshAns
           /\ call[c] \in CallType /\ Fits(call[c], fd[c]) /\ fd[c] \in Slot \cup {-1}
           /\ call[c].type = "OPEN" /\ ans.r = "ok" =>
                ans.slot \in Slot /\ Kept(ans.slot) /\ \A d \in Client : fd[d] # ans.slot
           /\ \A i \in Slot : (\E d \in Client : fd[d] = i) => Kept(i)
           /\ \A i \in Slot : ff[i].f_size \in 0 .. NBLK
           /\ ff \in [Slot -> FfType] /\ ans.block \in Int
<1>1. /\ srv = "reply" /\ req.from = c /\ srv' = "recv" /\ UNCHANGED <<node, opentab>> /\ ans' = FreshAns
  BY DEF reply, FreshAns
<1>2. call[c] \in CallType /\ Fits(call[c], fd[c]) /\ fd[c] \in Slot \cup {-1} /\ ans.block \in Int
  BY DEF IInv, TypesOK, ServerTypeOK, CallsOK, Proper, AnsType
<1>3. req.type = "OPEN" <=> call[c].type = "OPEN"
  BY <1>1, RequestIs
<1>4. call[c].type = "OPEN" /\ ans.r = "ok" =>
        ans.slot \in Slot /\ Kept(ans.slot) /\ \A d \in Client : fd[d] # ans.slot
  BY <1>1, <1>3 DEF IInv, Pending
<1>5. \A i \in Slot : (\E d \in Client : fd[d] = i) => Kept(i)
  BY DEF IInv, FilesKept, Slot
<1>6. ff \in [Slot -> FfType] /\ \A i \in Slot : ff[i].f_size \in 0 .. NBLK
  BY DEF IInv, TypesOK, ServerTypeOK, FfType
<1> QED BY ONLY <1>1, <1>2, <1>4, <1>5, <1>6

(* The call goes on, or ends, with the descriptor as it was.               *)
LEMMA SameFdInv ==
    ASSUME FileServerAssumption, IInv, NEW c \in Client, reply(c), UNCHANGED <<ff, fd>>, DataOK',
           \/ Ends(c)
           \/ \E new \in CallType : Fits(new, fd[c]) /\ Goes(c, new)
    PROVE  IInv'
<1>1. /\ srv = "reply" /\ req.from = c /\ srv' = "recv" /\ UNCHANGED <<node, opentab>> /\ ans' = FreshAns
      /\ fd[c] \in Slot \cup {-1} /\ ff \in [Slot -> FfType]
      /\ \A i \in Slot : (\E d \in Client : fd[d] = i) => Kept(i)
  BY ReplyIs
<1>2. fd' = [fd EXCEPT ![c] = fd[c]] /\ ff' \in [Slot -> FfType]
  BY <1>1 DEF IInv, TypesOK, ServerTypeOK
<1>3. \A i \in Slot : (\E d \in Client : fd'[d] = i) => Kept(i)'
  BY <1>1 DEF Kept
<1>4. CASE Ends(c)
  <2>1. Answered(c, "run", NoCall, fd[c])
    BY <1>1, <1>2, <1>3, <1>4, NoCallIs DEF Answered, Ends
  <2> QED BY <2>1, AnsweredInv
<1>5. CASE \E new \in CallType : Fits(new, fd[c]) /\ Goes(c, new)
  <2>1. PICK new \in CallType : Fits(new, fd[c]) /\ Goes(c, new)
    BY <1>5
  <2>2. Answered(c, "send", new, fd[c])
    BY <1>1, <1>2, <1>3, <2>1 DEF Answered, Goes
  <2> QED BY <2>2, AnsweredInv
<1> QED BY <1>4, <1>5

(* What becomes of a request whose type and page change.                   *)
LEMMA NextRequest ==
    ASSUME FileServerAssumption, NEW k \in CallType, NEW n \in Page, k.op \in {"open", "truncate"}, NEW f, f # -1
    PROVE  /\ [k EXCEPT !.type = "MAP", !.k = n] \in CallType
           /\ Fits([k EXCEPT !.type = "MAP", !.k = n], f)
           /\ k.op = "truncate" =>
                [k EXCEPT !.type = "BACK"] \in CallType /\ Fits([k EXCEPT !.type = "BACK"], f)
<1>1. n \in Nat
  BY DEF Page, FileServerAssumption
<1>2. PICK r : r = [k EXCEPT !.type = "MAP", !.k = n]
  OBVIOUS
<1>3. r \in CallType /\ r.op = k.op /\ r.type = "MAP" /\ r.k = n
  BY <1>1, <1>2 DEF CallType
<1>4. Fits(r, f)
  BY <1>3 DEF Fits
<1>5. PICK b : b = [k EXCEPT !.type = "BACK"]
  OBVIOUS
<1>6. b \in CallType /\ b.op = k.op /\ b.type = "BACK"
  BY <1>5 DEF CallType
<1>7. k.op = "truncate" => Fits(b, f)
  BY <1>6 DEF Fits
<1> QED BY <1>2, <1>3, <1>4, <1>5, <1>6, <1>7

(* open: the descriptor is mapped, then each page of the file.             *)
LEMMA OpeningInv ==
    ASSUME FileServerAssumption, IInv, NEW c \in Client, reply(c), opening(c)
    PROVE  IInv'
<1> DEFINE k == call[c]
           slot == IF k.type = "OPEN" THEN ans.slot ELSE fd[c]
           next == IF k.type = "OPEN" THEN 0 ELSE k.k + 1
<1>1. /\ k \in CallType /\ k.op = "open" /\ k.type \in {"OPEN", "MAP"} /\ ff' = ff
      /\ k.type = "MAP" => k.k \in Page /\ fd[c] # -1
      /\ fd[c] \in Slot \cup {-1} /\ ff \in [Slot -> FfType]
  BY ReplyIs DEF opening, Fits
<1>2. ASSUME ans.r # "ok" PROVE IInv'
  <2>1. fd' = fd /\ UNCHANGED <<data, pted>> /\ Ends(c)
    BY <1>2 DEF opening
  <2> QED BY <1>1, <2>1, DataSame, SameFdInv
<1>3. ASSUME ans.r = "ok" PROVE IInv'
  <2>1. /\ fd' = [fd EXCEPT ![c] = slot]
        /\ IF k.type = "MAP" THEN Maps(c, k.k) ELSE UNCHANGED <<data, pted>>
        /\ IF next < ff[slot].f_size THEN Goes(c, [k EXCEPT !.type = "MAP", !.k = next]) ELSE Ends(c)
    BY <1>3 DEF opening
  <2>2. slot \in Slot /\ next \in Nat
    BY <1>1, <1>3, ReplyIs DEF Page
  <2>3. \/ slot = fd[c]
        \/ Kept(slot) /\ \A d \in Client : fd[d] # slot
    BY <1>1, <1>3, ReplyIs
  <2> HIDE DEF slot, next
  <2>4. PICK i \in Slot : i = slot
    BY <2>2
  <2>5. fd[c] = i \/ Kept(i)
    BY <2>3, <2>4
  <2>6. Kept(i)
    BY <2>5, ReplyIs
  <2>7. \A j \in Slot : Kept(j) => Kept(j)'
    BY <1>1, ReplyIs DEF Kept
  <2>8. /\ fd' = [fd EXCEPT ![c] = i] /\ i \in Slot \cup {-1} /\ i # -1
        /\ \A d \in Client : fd'[d] = IF d = c THEN i ELSE fd[d]
    BY <2>1, <2>4 DEF Slot, IInv, TypesOK, ServerTypeOK
  <2>9. \A j \in Slot : (\E d \in Client : fd'[d] = j) => Kept(j)'
    BY <2>6, <2>7, <2>8, ReplyIs
  <2>10. DataOK'
    BY <1>1, <2>1, DataMaps, DataSame
  <2>11. CASE next < ff[i].f_size
    <3>1. next \in Page
      BY <2>2, <2>11, ReplyIs DEF Page, FileServerAssumption
    <3>2. PICK new : new = [k EXCEPT !.type = "MAP", !.k = next]
      OBVIOUS
    <3>3. new \in CallType /\ Fits(new, i)
      BY <1>1, <2>8, <3>1, <3>2, NextRequest
    <3>4. Goes(c, new)
      BY <2>1, <2>4, <2>11, <3>2
    <3>5. Answered(c, "send", new, i)
      BY <1>1, <2>8, <2>9, <2>10, <3>3, <3>4, ReplyIs DEF Answered, Goes
    <3> QED BY <3>5, AnsweredInv
  <2>12. CASE ~ (next < ff[i].f_size)
    <3>1. Ends(c)
      BY <2>1, <2>4, <2>12
    <3>2. Answered(c, "run", NoCall, i)
      BY <1>1, <2>8, <2>9, <2>10, <3>1, ReplyIs, NoCallIs DEF Answered, Ends
    <3> QED BY <3>2, AnsweredInv
  <2> QED BY <2>11, <2>12
<1> QED BY <1>2, <1>3

(* close: the last one wipes the page.                                     *)
LEMMA ClosingInv ==
    ASSUME FileServerAssumption, IInv, NEW c \in Client, reply(c), closing(c)
    PROVE  IInv'
<1> DEFINE k == call[c]
<1>1. k \in CallType /\ k.op = "close" /\ fd[c] # -1 /\ fd[c] \in Slot /\ k.k \in Nat /\ ans.block \in Int
  BY ReplyIs DEF closing, Fits, CallType
<1>2. CASE k.type = "DIRTY"
  <2> DEFINE told == k.told \cup ({ans.block} \ {-1})
  <2>1. Goes(c, [Closing(c, k.k + 1) EXCEPT !.told = told]) /\ UNCHANGED <<ff, fd, data, pted>>
    BY <1>2 DEF closing
  <2>2. told \in SUBSET Int /\ k.k + 1 \in Nat
    BY <1>1 DEF CallType
  <2> HIDE DEF told
  <2>3. PICK new : new = [Closing(c, k.k + 1) EXCEPT !.told = told]
    OBVIOUS
  <2>4. new \in CallType /\ Fits(new, fd[c])
    BY <1>1, <2>2, <2>3, ClosingIs
  <2>5. Goes(c, new)
    BY <2>1, <2>3
  <2>6. DataOK'
    BY <2>1, DataSame
  <2> QED BY <2>1, <2>4, <2>5, <2>6, SameFdInv
<1>3. CASE k.type # "DIRTY"
  <2>1. PICK i \in Slot : i = fd[c]
    BY <1>1
  <2>2. /\ Ends(c) /\ fd' = [fd EXCEPT ![c] = -1]
        /\ ff' = IF pageref(i) = 2 THEN Wiped(i) ELSE ff
        /\ \/ UNCHANGED <<data, pted>>
           \/ data' = [data EXCEPT ![c] = {}] /\ pted' = [pted EXCEPT ![c] = {}]
    BY <1>3, <2>1 DEF closing
  <2>3. [f_fileid |-> 0, file |-> 0, f_size |-> 0] \in FfType
    BY DEF FfType, FileServerAssumption
  <2>4. /\ ff' \in [Slot -> FfType] /\ \A j \in Slot : j # i => ff'[j] = ff[j]
        /\ pageref(i) # 2 => ff'[i] = ff[i]
    BY <2>2, <2>3, ReplyIs DEF Wiped
  <2>5. \A d \in Client : fd'[d] = IF d = c THEN -1 ELSE fd[d]
    BY <2>2 DEF IInv, TypesOK, ServerTypeOK
  <2>6. ASSUME NEW j \in Slot, NEW d \in Client, fd'[d] = j
        PROVE  Kept(j)'
    <3>1. d # c /\ fd[d] = j /\ Kept(j)
      BY <2>5, <2>6, ReplyIs DEF Slot
    <3>2. ff'[j] = ff[j]
      <4>1. CASE j # i
        BY <2>4, <4>1
      <4>2. CASE j = i
        <5>1. opentab[i].page
          BY <3>1, <4>2 DEF Kept
        <5>2. pageref(i) # 2
          BY <2>1, <3>1, <4>2, <5>1, PageRefs
        <5> QED BY <2>4, <4>2, <5>2
      <4> QED BY <4>1, <4>2
    <3>3. opentab' = opentab
      BY ReplyIs
    <3> QED BY <3>1, <3>2, <3>3 DEF Kept
  <2>7. DataOK'
    <3>1. CASE UNCHANGED <<data, pted>>
      BY <3>1, DataSame
    <3>2. CASE data' = [data EXCEPT ![c] = {}] /\ pted' = [pted EXCEPT ![c] = {}]
      <4>1. data' = [data EXCEPT ![c] = data[c] \cap {}] /\ pted' = [pted EXCEPT ![c] = pted[c] \cap {}]
        <5>1. data[c] \cap {} = {} /\ pted[c] \cap {} = {}
          OBVIOUS
        <5> QED BY <3>2, <5>1
      <4> QED BY <4>1, DataCut
    <3> QED BY <2>2, <3>1, <3>2
  <2>8. Answered(c, "run", NoCall, -1)
    BY <2>2, <2>4, <2>6, <2>7, ReplyIs, NoCallIs DEF Answered, Ends
  <2> QED BY <2>8, AnsweredInv
<1> QED BY <1>2, <1>3

(* ftruncate, and file_write past the end: pages are mapped or unmapped.   *)
LEMMA TruncatingInv ==
    ASSUME FileServerAssumption, IInv, NEW c \in Client, reply(c), truncating(c)
    PROVE  IInv'
<1> DEFINE k == call[c]
           old == ff[fd[c]].f_size
           next == IF k.type = "SET_SIZE" THEN old ELSE k.k + 1
           left == Page \ (k.size .. old - 1)
<1>1. /\ k \in CallType /\ k.op = "truncate" /\ fd[c] # -1 /\ fd[c] \in Slot /\ k.k \in Nat /\ k.size \in 0 .. NBLK
      /\ k.type = "MAP" => k.k \in Page
      /\ UNCHANGED <<ff, fd>>
  BY ReplyIs DEF truncating, Fits, CallType
<1>2. next \in Nat
  BY <1>1, ReplyIs
<1>3. \/ /\ next < k.size /\ Goes(c, [k EXCEPT !.type = "MAP", !.k = next])
         /\ (k.type = "MAP" /\ Maps(c, k.k)) \/ UNCHANGED <<data, pted>>
      \/ k.type = "MAP" /\ Ends(c) /\ Maps(c, k.k)
      \/ Goes(c, [k EXCEPT !.type = "BACK"]) /\ UNCHANGED <<data, pted>>
      \/ Ends(c) /\ data' = [data EXCEPT ![c] = data[c] \cap left] /\ pted' = [pted EXCEPT ![c] = pted[c] \cap left]
      \/ Ends(c) /\ UNCHANGED <<data, pted>>
  BY DEF truncating
<1> HIDE DEF next, left
<1>4. DataOK'
  BY <1>1, <1>3, DataMaps, DataCut, DataSame
<1>5. CASE Ends(c)
  BY <1>1, <1>4, <1>5, SameFdInv
<1>6. CASE next < k.size /\ Goes(c, [k EXCEPT !.type = "MAP", !.k = next])
  <2>1. next \in Page
    BY <1>1, <1>2, <1>6 DEF Page, FileServerAssumption
  <2>2. PICK new : new = [k EXCEPT !.type = "MAP", !.k = next]
    OBVIOUS
  <2>3. new \in CallType /\ Fits(new, fd[c])
    BY <1>1, <2>1, <2>2, NextRequest
  <2> QED BY <1>1, <1>4, <1>6, <2>2, <2>3, SameFdInv
<1>7. CASE Goes(c, [k EXCEPT !.type = "BACK"])
  <2>0. 0 \in Page
    BY DEF Page, FileServerAssumption
  <2>1. PICK new : new = [k EXCEPT !.type = "BACK"]
    OBVIOUS
  <2>2. new \in CallType /\ Fits(new, fd[c])
    BY <1>1, <2>0, <2>1, NextRequest
  <2> QED BY <1>1, <1>4, <1>7, <2>1, <2>2, SameFdInv
<1> QED BY <1>3, <1>5, <1>6, <1>7

(* remove and sync, which have no descriptor.                              *)
LEMMA RemovingInv ==
    ASSUME FileServerAssumption, IInv, NEW c \in Client, reply(c), removing(c)
    PROVE  IInv'
<1>1. Ends(c) /\ UNCHANGED <<ff, fd, data, pted>>
  BY DEF removing
<1> QED BY <1>1, DataSame, SameFdInv

----------------------------------------------------------------------------
(* The specification.                                                      *)

(* The invariant holds at the start.                                       *)
LEMMA InitInv == ASSUME FileServerAssumption, Init PROVE IInv
<1>1. /\ opentab = [i \in Slot |-> [o_fileid |-> i, o_file |-> 0, page |-> FALSE]]
      /\ ff = [i \in Slot |-> [f_fileid |-> 0, file |-> 0, f_size |-> 0]]
      /\ fd = [c \in Client |-> -1] /\ data = [c \in Client |-> {}] /\ pted = [c \in Client |-> {}]
      /\ call = [c \in Client |-> NoCall] /\ pc = [c \in Client |-> "run"]
      /\ srv = "recv" /\ ans = FreshAns
  BY DEF Init, FreshAns
<1>2. node \in [Entry -> [f_name : Name \cup {NoName}, f_size : 0 .. NBLK]]
  <2>1. PICK at \in Entry, n \in Name :
          node = [e \in Entry |-> IF e = at THEN [f_name |-> n, f_size |-> NBLK] ELSE [f_name |-> NoName, f_size |-> 0]]
    BY DEF Init
  <2>2. /\ [f_name |-> n, f_size |-> NBLK] \in [f_name : Name \cup {NoName}, f_size : 0 .. NBLK]
        /\ [f_name |-> NoName, f_size |-> 0] \in [f_name : Name \cup {NoName}, f_size : 0 .. NBLK]
    BY DEF FileServerAssumption
  <2> QED BY <2>1, <2>2
<1>3. opentab \in [Slot -> OpenType]
  <2>1. \A i \in Slot : [o_fileid |-> i, o_file |-> 0, page |-> FALSE] \in OpenType
    BY DEF Slot, OpenType, FileServerAssumption
  <2> QED BY <1>1, <2>1
<1>4. ff \in [Slot -> FfType]
  <2>1. [f_fileid |-> 0, file |-> 0, f_size |-> 0] \in FfType
    BY DEF FfType, FileServerAssumption
  <2> QED BY <1>1, <2>1
<1>5. /\ fd \in [Client -> Slot \cup {-1}] /\ call \in [Client -> CallType] /\ ans \in AnsType
      /\ data \in [Client -> SUBSET Page] /\ pted \in [Client -> SUBSET Page]
      /\ pc \in [Client -> {"run", "send", "recv", "wait"}]
  BY <1>1, NoCallIs DEF FreshAns, AnsType
<1>6. TypesOK
  BY <1>1, <1>2, <1>3, <1>4, <1>5 DEF TypesOK, ServerTypeOK, OpenType, FfType
<1>7. CallsOK
  BY <1>1, NoCallIs DEF CallsOK, Proper
<1>8. Conversation
  BY <1>1 DEF Conversation, OneConversation
<1>9. IdsOK
  <2> SUFFICES ASSUME NEW i \in Slot PROVE opentab[i].o_fileid % MAXOPEN = i
    BY DEF IdsOK
  <2>1. opentab[i].o_fileid = i
    BY <1>1
  <2>2. MAXOPEN \in Nat \ {0} /\ i \in 0 .. MAXOPEN - 1
    BY DEF Slot, FileServerAssumption
  <2>3. (0 * MAXOPEN + i) % MAXOPEN = i
    BY <2>2, Remainder
  <2> QED BY <2>1, <2>2, <2>3
<1>10. FilesKept /\ Pending
  BY <1>1 DEF FilesKept, Pending
<1> QED BY <1>6, <1>7, <1>8, <1>9, <1>10 DEF IInv

(* Every step keeps the invariant, one step of the proof for each action.  *)
LEMMA StepInv == ASSUME FileServerAssumption, IInv, [Next]_vars PROVE IInv'
<1>1. CASE serve
  BY <1>1, OpenInv, ServeInv DEF serve
<1>2. ASSUME NEW c \in Client, Calls(c) PROVE IInv'
  BY <1>2, CallsInv, FileWriteInv, ForkInv DEF Calls
<1>3. ASSUME NEW c \in Client, ipc_send(c) \/ ipc_recv(c) PROVE IInv'
  BY <1>3, SendInv
<1>4. ASSUME NEW c \in Client, reply(c) PROVE IInv'
  <2>1. opening(c) \/ closing(c) \/ truncating(c) \/ removing(c)
    BY <1>4 DEF reply
  <2> QED BY <1>4, <2>1, OpeningInv, ClosingInv, TruncatingInv, RemovingInv
<1>5. CASE UNCHANGED vars
  <2>1. TypesOK' /\ CallsOK'
    BY <1>5 DEF vars, IInv, TypesOK, ServerTypeOK, CallsOK, Proper
  <2>2. Conversation'
    BY <1>5 DEF vars, IInv, Conversation, OneConversation, Request
  <2>3. IdsOK' /\ FilesKept' /\ Pending'
    BY <1>5 DEF vars, IInv, IdsOK, FilesKept, Pending, Kept
  <2> QED BY <2>1, <2>2, <2>3 DEF IInv
<1> QED BY <1>1, <1>2, <1>3, <1>4, <1>5 DEF Next

(* The inductive invariant holds.                                          *)
THEOREM ServerInvariant == Spec => []IInv
<1>1. Init => IInv
  BY InitInv, FileServerAssumption
<1>2. IInv /\ [Next]_vars => IInv'
  BY StepInv, FileServerAssumption
<1> QED BY <1>1, <1>2, PTL DEF Spec

(* The server's tables, the descriptors and the pages behind them keep to  *)
(* what the C program can hold, whatever allocation fails.                 *)
THEOREM ServerTypes == Spec => []ServerTypeOK
<1>1. IInv => ServerTypeOK
  BY DEF IInv, TypesOK
<1> QED BY <1>1, ServerInvariant, PTL

(* The server and its clients always match: a request in hand has one      *)
(* client, that waits for it, and has in it what that client would ask.    *)
THEOREM Conversations == Spec => []OneConversation
<1>1. IInv => OneConversation
  BY DEF IInv, Conversation
<1> QED BY <1>1, ServerInvariant, PTL

(* While anyone has a file open its entry of opentab stays its own,        *)
(* although serve_close does nothing and only the reference count of a     *)
(* page tells the server.                                                  *)
THEOREM OpenFiles == Spec => []OpenFileKept
<1>1. ASSUME IInv PROVE OpenFileKept
  <2> SUFFICES ASSUME NEW c \in Client, fd[c] # -1
               PROVE  /\ opentab[fd[c]].o_fileid = ff[fd[c]].f_fileid
                      /\ opentab[fd[c]].o_file = ff[fd[c]].file /\ ff[fd[c]].file # 0
                      /\ open_lookup(ff[fd[c]].f_fileid % MAXOPEN, ff[fd[c]].f_fileid)
                      /\ \A d \in Client : fd[d] # -1 /\ ff[fd[d]].f_fileid = ff[fd[c]].f_fileid => fd[d] = fd[c]
    BY DEF OpenFileKept
  <2>1. Kept(fd[c]) /\ fd[c] \in Slot
    BY <1>1 DEF IInv, TypesOK, ServerTypeOK, FilesKept
  <2>2. \A d \in Client : fd[d] # -1 => ff[fd[d]].f_fileid % MAXOPEN = fd[d]
    BY <1>1 DEF IInv, TypesOK, ServerTypeOK, FilesKept, Kept, IdsOK
  <2>3. PICK i \in Slot : i = fd[c] /\ opentab[i].page
    BY <2>1 DEF Kept
  <2>4. pageref(i) # 1
    <3>1. pageref(i) \in Nat /\ pageref(i) >= 2
      BY <2>3, PageRefs, FileServerAssumption
    <3> QED BY <3>1
  <2>5. open_lookup(ff[fd[c]].f_fileid % MAXOPEN, ff[fd[c]].f_fileid)
    BY <2>1, <2>2, <2>3, <2>4 DEF open_lookup, Kept
  <2>6. \A d \in Client : fd[d] # -1 /\ ff[fd[d]].f_fileid = ff[fd[c]].f_fileid => fd[d] = fd[c]
    BY <2>2
  <2> QED BY <2>1, <2>5, <2>6 DEF Kept
<1>2. IInv => OpenFileKept
  BY <1>1
<1> QED BY <1>2, ServerInvariant, PTL
===============================================================================
