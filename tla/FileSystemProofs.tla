-------------------------- MODULE FileSystemProofs --------------------------
(***************************************************************************)
(* Proofs about FileSystem, for any disk, directory, memory and sizes, when*)
(* no file is cut from more than NDIRECT blocks to fewer and the machine is*)
(* not turned off with dirty blocks.                                       *)
(*                                                                         *)
(* The invariant is about media: a medium is sound (Sound) when its nodes  *)
(* have every block once and its names are unique.  The server sees one,   *)
(* V(s), memory in front of the disk.  The operations are taken bottom up, *)
(* each with what it leaves alone: Alike (no file changes), Kept and Loose *)
(* (only node p's file does), Leads and Ends (the same of states).  A loop *)
(* is the function of its rounds, and what each round keeps the loop keeps *)
(* (UpTo).  The last part follows fsformat (FsFormat) and shows that the   *)
(* disk it makes is sound.                                                 *)
(***************************************************************************)
EXTENDS FileSystem, FiniteSetTheorems, WellFoundedInduction, TLAPS

----------------------------------------------------------------------------
(* A medium m: what the blocks hold, in memory or on the disk.             *)

Stuff == [free : SUBSET Block, file : [Index -> File], ptr : [Indirect -> Block], word : 0 .. MaxWord]

FileAt(m, p) == m[p[1]].file[p[2]]

(* The places of a node where the number of a block can be: its block n,   *)
(* or (-1) the block the numbers are in.                                   *)
Slot == Direct \cup Indirect \cup {-1}

Num(m, p, n) ==
    IF n \in Direct THEN FileAt(m, p).f_direct[n]
    ELSE IF n = -1 THEN FileAt(m, p).f_indirect
    ELSE m[FileAt(m, p).f_indirect].ptr[n]

DirSet(m) == {Num(m, Root, n) : n \in Slot \ {-1}} \ {0}

AllN(m) == {Root} \cup (DirSet(m) \X Index)

(* A number that is not 0 is that of a block which is not the system's and *)
(* not free, and is there only once.                                       *)
Held(m) ==
    \A p \in AllN(m), n \in Slot : Num(m, p, n) # 0 => Num(m, p, n) > 2 /\ Num(m, p, n) \notin m[2].free

Once(m) ==
    \A p, q \in AllN(m), k, n \in Slot : Num(m, p, k) # 0 /\ Num(m, p, k) = Num(m, q, n) => p = q /\ k = n

(* File nodes are in the blocks of the directory (and in block 0, a copy of*)
(* the super block), block numbers in the blocks some node has for them.   *)
FilesApart(m) == \A b \in Block : b \notin {0, 1} /\ b \notin DirSet(m) => m[b].file = Zeroed.file

PtrsApart(m) ==
    \A b \in Block : (b = 0 \/ \A p \in AllN(m) : Num(m, p, -1) # b) => m[b].ptr = Zeroed.ptr

(* The directory's blocks are below its size.                              *)
RootBelow(m) == \A n \in Slot \ {-1} : Num(m, Root, n) # 0 => n < FileAt(m, Root).f_size

NamesOnce(m) ==
    \A p, q \in DirSet(m) \X Index :
        p # q /\ FileAt(m, p).f_name = FileAt(m, q).f_name => FileAt(m, p).f_name = NoName

Sound(m) ==
    /\ m \in [Block -> Stuff]
    /\ FileAt(m, Root).f_name = RootName
    /\ {0, 1, 2} \cap m[2].free = {}
    /\ Held(m) /\ Once(m) /\ FilesApart(m) /\ PtrsApart(m) /\ RootBelow(m) /\ NamesOnce(m)

----------------------------------------------------------------------------
(* The server's state.                                                     *)
State == [disk : [Block -> Stuff], mem : [Block -> Stuff], mapped : SUBSET Block,
          dirty : SUBSET Block, halt : {"no", "garbage"}]

V(s) == [b \in Block |-> IF b \in s.mapped THEN s.mem[b] ELSE s.disk[b]]

(* What is in memory and is not dirty is what is on the disk, but for the  *)
(* words that clients have stored.                                         *)
SameOnDisk(s, b) ==
    /\ s.disk[b].file = s.mem[b].file /\ s.disk[b].ptr = s.mem[b].ptr
    /\ b = 2 => s.disk[b].free = s.mem[b].free

Cached(s) ==
    /\ s \in State /\ npage \in NPages
    /\ {0, 1, 2} \subseteq s.mapped /\ s.dirty \subseteq s.mapped /\ Cardinality(s.mapped) <= npage
    /\ \A b \in s.mapped \ s.dirty : SameOnDisk(s, b)

Good(s) == Cached(s) /\ Sound(V(s))

Smashed == [disk EXCEPT ![1] = mem[0]]

FsInv ==
    /\ npage \in NPages
    /\ disk \in [Block -> Stuff] /\ mem \in [Block -> Stuff]
    /\ at \in {"boot", "smashed", "up"}
    /\ at = "boot" =>
        /\ mapped = {} /\ dirty = {} /\ files = {} /\ shared = {} /\ halt = "no"
        /\ Sound(disk)
    /\ at = "smashed" =>
        /\ mapped = {0, 1} /\ dirty = {0} /\ files = {} /\ shared = {} /\ halt = "no"
        /\ Sound(Smashed)
    /\ at = "up" =>
        /\ Good(Now)
        /\ files \subseteq AllN(V(Now)) /\ \A p \in files : p[1] \in mapped
        /\ shared \subseteq Block

----------------------------------------------------------------------------
(* The layout: the three blocks of the system are blocks, and an empty     *)
(* content is one a medium can hold.                                       *)
LEMMA Layout ==
    /\ 0 \in Block /\ 1 \in Block /\ 2 \in Block /\ 0 \in Index
    /\ Direct \cap Indirect = {} /\ -1 \notin Direct \cup Indirect
    /\ Direct \cup Indirect = 0 .. NINDIRECT - 1 /\ Direct \cup Indirect \subseteq Nat
    /\ Slot \ {-1} = Direct \cup Indirect /\ 0 \in Direct /\ -1 \in Slot
    /\ Slot = Direct \cup Indirect \cup {-1}
  BY LayoutAssumption DEF Block, Index, Direct, Indirect, Slot

(* An empty content and an empty node are of the layout.                   *)
LEMMA ZeroedType ==
    /\ NoFile \in File /\ Zeroed \in Stuff
    /\ Zeroed.file = [i \in Index |-> NoFile] /\ Zeroed.ptr = [n \in Indirect |-> 0]
    /\ Zeroed.free = {} /\ Zeroed.word = 0
<1>1. NoFile \in File
  BY Layout, LayoutAssumption DEF NoFile, File
<1>2. [i \in Index |-> NoFile] \in [Index -> File]
  BY <1>1
<1>3. [n \in Indirect |-> 0] \in [Indirect -> Block]
  BY Layout
<1>4. {} \in SUBSET Block /\ 0 \in 0 .. MaxWord
  BY FileSystemAssumption
<1> QED BY <1>1, <1>2, <1>3, <1>4 DEF Zeroed, Stuff

(* The numbers of a medium's nodes are blocks.                             *)
LEMMA NumType ==
    ASSUME NEW m \in [Block -> Stuff], NEW p \in Block \X Index
    PROVE  /\ FileAt(m, p) \in File
           /\ \A n \in Slot : Num(m, p, n) \in Block
<1>1. p[1] \in Block /\ p[2] \in Index
  OBVIOUS
<1>2. m[p[1]] \in Stuff
  BY <1>1
<1>3. FileAt(m, p) \in File
  BY <1>1, <1>2 DEF FileAt, Stuff
<1>4. PICK f \in File : f = FileAt(m, p)
  BY <1>3
<1>5. f.f_indirect \in Block /\ \A n \in Direct : f.f_direct[n] \in Block
  BY DEF File
<1>6. m[f.f_indirect] \in Stuff
  BY <1>5
<1>7. \A n \in Indirect : m[f.f_indirect].ptr[n] \in Block
  BY <1>6 DEF Stuff
<1> QED BY <1>3, <1>4, <1>5, <1>7, Layout DEF Num

(* The nodes of a medium are where nodes can be, and the directory's       *)
(* blocks are those the root has numbers of.                               *)
LEMMA NodesType ==
    ASSUME NEW m \in [Block -> Stuff]
    PROVE  /\ Root \in Block \X Index /\ Root \in AllN(m) /\ DirSet(m) \subseteq Block \ {0}
           /\ AllN(m) \subseteq Block \X Index /\ DirSet(m) \X Index \subseteq AllN(m)
           /\ \A n \in Slot \ {-1} : Num(m, Root, n) # 0 => Num(m, Root, n) \in DirSet(m)
           /\ \A b \in DirSet(m) : b # 0 /\ \E n \in Slot \ {-1} : Num(m, Root, n) = b
<1>1. Root \in Block \X Index
  BY Layout DEF Root, SuperBlock
<1>2. \A n \in Slot \ {-1} : Num(m, Root, n) \in Block
  BY <1>1, NumType
<1> QED BY <1>1, <1>2 DEF DirSet, AllN

(* The directory's blocks, of a sound medium, are above the system's.      *)
LEMMA DirAbove ==
    ASSUME NEW m, Sound(m)
    PROVE  /\ m \in [Block -> Stuff]
           /\ \A b \in DirSet(m) : b \in Block /\ b > 2 /\ b \notin m[2].free
           /\ \A p \in DirSet(m) \X Index : p \in AllN(m) /\ p # Root /\ p \in Block \X Index /\ p[1] > 2
           /\ Root \notin DirSet(m) \X Index
<1>1. m \in [Block -> Stuff] /\ Held(m)
  BY DEF Sound
<1>2. \A b \in DirSet(m) : b \in Block /\ b > 2 /\ b \notin m[2].free
  BY <1>1, NodesType DEF Held
<1>3. Root[1] = 1
  BY DEF Root, SuperBlock
<1> QED BY <1>1, <1>2, <1>3, NodesType

----------------------------------------------------------------------------
(* Changes of a medium.                                                    *)

(* The numbers are in f_direct, f_indirect and the blocks of numbers: what *)
(* leaves these alone leaves the numbers alone.                            *)
LEMMA NumSame ==
    ASSUME NEW m \in [Block -> Stuff], NEW m2 \in [Block -> Stuff],
           \A p \in Block \X Index :
               /\ FileAt(m2, p).f_direct = FileAt(m, p).f_direct
               /\ FileAt(m2, p).f_indirect = FileAt(m, p).f_indirect,
           \A b \in Block : m2[b].ptr = m[b].ptr
    PROVE  /\ \A p \in Block \X Index, n \in Slot : Num(m2, p, n) = Num(m, p, n)
           /\ DirSet(m2) = DirSet(m) /\ AllN(m2) = AllN(m)
<1>1. ASSUME NEW p \in Block \X Index, NEW n \in Slot
      PROVE  Num(m2, p, n) = Num(m, p, n)
  <2>1. FileAt(m, p).f_indirect \in Block
    BY NumType, Layout DEF Num
  <2> QED BY <2>1 DEF Num
<1>2. \A n \in Slot \ {-1} : Num(m2, Root, n) = Num(m, Root, n)
  BY <1>1, NodesType
<1>3. DirSet(m2) = DirSet(m)
  BY <1>2 DEF DirSet
<1> QED BY <1>1, <1>3 DEF AllN

(* A medium stays sound when the numbers stay, what becomes free is held by*)
(* nobody, and names and the root's size are still as they should be.      *)
LEMMA SoundStays ==
    ASSUME NEW m, Sound(m), NEW m2 \in [Block -> Stuff],
           DirSet(m2) = DirSet(m), AllN(m2) = AllN(m),
           \A p \in AllN(m), n \in Slot : Num(m2, p, n) = Num(m, p, n),
           FileAt(m2, Root).f_name = RootName,
           {0, 1, 2} \cap m2[2].free = {},
           \A p \in AllN(m), n \in Slot : Num(m, p, n) # 0 => Num(m, p, n) \notin m2[2].free,
           \A b \in Block : b \notin {0, 1} /\ b \notin DirSet(m) => m2[b].file = m[b].file,
           \A b \in Block : m2[b].ptr = m[b].ptr,
           RootBelow(m2), NamesOnce(m2)
    PROVE  Sound(m2)
<1>1. Held(m) /\ Once(m) /\ FilesApart(m) /\ PtrsApart(m)
  BY DEF Sound
<1>2. Held(m2)
  BY <1>1 DEF Held
<1>3. Once(m2)
  BY <1>1 DEF Once
<1>4. FilesApart(m2)
  BY <1>1 DEF FilesApart
<1>5. PtrsApart(m2)
  BY <1>1, Layout DEF PtrsApart
<1> QED BY <1>2, <1>3, <1>4, <1>5 DEF Sound

(* What a block that nobody has, and that is not free, looks like.         *)
Spare(m, b) ==
    /\ b \in Block /\ b > 2 /\ b \notin m[2].free
    /\ \A p \in AllN(m), n \in Slot : Num(m, p, n) # b

(* A block that nobody has holds no nodes and no numbers, and is not the   *)
(* directory's.                                                            *)
LEMMA SpareIsEmpty ==
    ASSUME NEW m, Sound(m), NEW b, Spare(m, b)
    PROVE  m[b].file = Zeroed.file /\ m[b].ptr = Zeroed.ptr /\ b \notin DirSet(m)
<1>1. m \in [Block -> Stuff] /\ FilesApart(m) /\ PtrsApart(m)
  BY DEF Sound
<1>2. b \in Block /\ b > 2
  BY DEF Spare
<1>3. b \notin DirSet(m)
  BY <1>1, NodesType DEF Spare
<1>4. m[b].file = Zeroed.file
  BY <1>1, <1>2, <1>3 DEF FilesApart
<1>5. \A p \in AllN(m) : Num(m, p, -1) # b
  BY Layout DEF Spare
<1> QED BY <1>1, <1>2, <1>3, <1>4, <1>5 DEF PtrsApart

(* m2 is m but for one number: place n of node p has b instead.            *)
Renumbered(m, m2, p, n, b) ==
    /\ m2 \in [Block -> Stuff]
    /\ \A q \in AllN(m), k \in Slot : Num(m2, q, k) = IF q = p /\ k = n THEN b ELSE Num(m, q, k)
    /\ \A q \in Block \X Index : FileAt(m2, q).f_name = FileAt(m, q).f_name /\ FileAt(m2, q).f_size = FileAt(m, q).f_size
    /\ \A c \in Block : c # p[1] => m2[c].file = m[c].file
    /\ \A c \in Block : c # Num(m, p, -1) \/ n \notin Indirect => m2[c].ptr = m[c].ptr
    /\ \A c \in Block : m2[c].word = m[c].word
    /\ m2[2].free = m[2].free

(* A node, and a number in a block of numbers, rewritten.                  *)
WithNode(m, p, f) == [m EXCEPT ![p[1]] = [m[p[1]] EXCEPT !.file[p[2]] = f]]
WithPtr(m, i, n, b) == [m EXCEPT ![i] = [m[i] EXCEPT !.ptr[n] = b]]

(* A node rewritten leaves all other nodes, all numbers, words and bits.   *)
LEMMA NodeSet ==
    ASSUME NEW m \in [Block -> Stuff], NEW p \in Block \X Index, NEW f \in File, NEW m2,
           m2 = WithNode(m, p, f)
    PROVE  /\ m2 \in [Block -> Stuff]
           /\ \A q \in Block \X Index : FileAt(m2, q) = IF q = p THEN f ELSE FileAt(m, q)
           /\ \A c \in Block : c # p[1] => m2[c].file = m[c].file
           /\ \A c \in Block : m2[c].ptr = m[c].ptr /\ m2[c].word = m[c].word /\ m2[c].free = m[c].free
<1>0. p[1] \in Block /\ p[2] \in Index /\ p = <<p[1], p[2]>>
  OBVIOUS
<1>1. m[p[1]] \in Stuff
  BY <1>0
<1>2. PICK x : x = [m[p[1]] EXCEPT !.file[p[2]] = f]
  OBVIOUS
<1>3. /\ x \in Stuff /\ x.ptr = m[p[1]].ptr /\ x.word = m[p[1]].word /\ x.free = m[p[1]].free
      /\ \A j \in Index : x.file[j] = IF j = p[2] THEN f ELSE m[p[1]].file[j]
  BY <1>0, <1>1, <1>2 DEF Stuff
<1>4. m2 = [m EXCEPT ![p[1]] = x]
  BY <1>2 DEF WithNode
<1>5. m2 \in [Block -> Stuff] /\ \A c \in Block : m2[c] = IF c = p[1] THEN x ELSE m[c]
  BY <1>0, <1>3, <1>4
<1>6. ASSUME NEW q \in Block \X Index
      PROVE  FileAt(m2, q) = IF q = p THEN f ELSE FileAt(m, q)
  <2>1. q[1] \in Block /\ q[2] \in Index /\ q = <<q[1], q[2]>>
    OBVIOUS
  <2> QED BY <1>0, <1>3, <1>5, <2>1 DEF FileAt
<1> QED BY <1>3, <1>5, <1>6

(* A number rewritten leaves all other numbers, all nodes, words and bits. *)
LEMMA PtrSet ==
    ASSUME NEW m \in [Block -> Stuff], NEW i \in Block, NEW n \in Indirect, NEW b \in Block, NEW m2,
           m2 = WithPtr(m, i, n, b)
    PROVE  /\ m2 \in [Block -> Stuff]
           /\ \A c \in Block : m2[c].file = m[c].file /\ m2[c].word = m[c].word /\ m2[c].free = m[c].free
           /\ \A c \in Block : c # i => m2[c].ptr = m[c].ptr
           /\ \A k \in Indirect : m2[i].ptr[k] = IF k = n THEN b ELSE m[i].ptr[k]
<1>1. m[i] \in Stuff
  OBVIOUS
<1>2. PICK x : x = [m[i] EXCEPT !.ptr[n] = b]
  OBVIOUS
<1>3. /\ x \in Stuff /\ x.file = m[i].file /\ x.word = m[i].word /\ x.free = m[i].free
      /\ \A k \in Indirect : x.ptr[k] = IF k = n THEN b ELSE m[i].ptr[k]
  BY <1>1, <1>2 DEF Stuff
<1>4. m2 = [m EXCEPT ![i] = x]
  BY <1>2 DEF WithPtr
<1> QED BY <1>3, <1>4

(* A number in the node, that of the block of numbers, and one in there.   *)
LEMMA RenumberDirect ==
    ASSUME NEW m \in [Block -> Stuff], NEW p \in AllN(m), NEW n \in Direct, NEW b \in Block, NEW m2,
           m2 = WithNode(m, p, [FileAt(m, p) EXCEPT !.f_direct[n] = b])
    PROVE  Renumbered(m, m2, p, n, b)
<1>0. p \in Block \X Index /\ \A q \in AllN(m) : q \in Block \X Index
  BY NodesType
<1>1. FileAt(m, p) \in File
  BY <1>0, NumType
<1>2. PICK f : f = [FileAt(m, p) EXCEPT !.f_direct[n] = b]
  OBVIOUS
<1>3. /\ f \in File /\ f.f_name = FileAt(m, p).f_name /\ f.f_size = FileAt(m, p).f_size
      /\ f.f_indirect = FileAt(m, p).f_indirect
      /\ \A k \in Direct : f.f_direct[k] = IF k = n THEN b ELSE FileAt(m, p).f_direct[k]
  BY <1>1, <1>2 DEF File
<1>6. m2 = WithNode(m, p, f)
  BY <1>2
<1>4. /\ m2 \in [Block -> Stuff]
      /\ \A q \in Block \X Index : FileAt(m2, q) = IF q = p THEN f ELSE FileAt(m, q)
      /\ \A c \in Block : c # p[1] => m2[c].file = m[c].file
      /\ \A c \in Block : m2[c].ptr = m[c].ptr /\ m2[c].word = m[c].word /\ m2[c].free = m[c].free
  BY ONLY <1>0, <1>3, <1>6, NodeSet, m \in [Block -> Stuff]
<1>5. ASSUME NEW q \in AllN(m), NEW k \in Slot
      PROVE  Num(m2, q, k) = IF q = p /\ k = n THEN b ELSE Num(m, q, k)
  <2>1. FileAt(m, q).f_indirect \in Block /\ FileAt(m2, q).f_indirect = FileAt(m, q).f_indirect
    BY <1>0, <1>3, <1>4, NumType DEF File
  <2>2. CASE k \in Direct
    BY <1>0, <1>3, <1>4, <2>2 DEF Num
  <2>3. CASE k \notin Direct
    <3>1. k # n /\ m2[FileAt(m2, q).f_indirect].ptr = m[FileAt(m, q).f_indirect].ptr
      BY <1>4, <2>1, <2>3
    <3> QED BY <2>1, <2>3, <3>1 DEF Num
  <2> QED BY <2>2, <2>3
<1> QED BY <1>0, <1>3, <1>4, <1>5, Layout DEF Renumbered

(* A node's f_indirect set to a block that nobody has: no other number     *)
(* changes, as that block is empty.                                        *)
LEMMA RenumberIndirect ==
    ASSUME NEW m, Sound(m), NEW p \in AllN(m), Num(m, p, -1) = 0, NEW b, Spare(m, b), NEW m2,
           m2 = WithNode(m, p, [FileAt(m, p) EXCEPT !.f_indirect = b])
    PROVE  Renumbered(m, m2, p, -1, b)
<1>0. /\ m \in [Block -> Stuff] /\ p \in Block \X Index /\ \A q \in AllN(m) : q \in Block \X Index
      /\ b \in Block /\ PtrsApart(m)
  BY NodesType DEF Sound, Spare
<1>1. FileAt(m, p) \in File
  BY <1>0, NumType
<1>2. PICK f : f = [FileAt(m, p) EXCEPT !.f_indirect = b]
  OBVIOUS
<1>3. /\ f \in File /\ f.f_name = FileAt(m, p).f_name /\ f.f_size = FileAt(m, p).f_size
      /\ f.f_indirect = b /\ f.f_direct = FileAt(m, p).f_direct
  BY <1>0, <1>1, <1>2 DEF File
<1>9. m2 = WithNode(m, p, f)
  BY <1>2
<1>4. /\ m2 \in [Block -> Stuff]
      /\ \A q \in Block \X Index : FileAt(m2, q) = IF q = p THEN f ELSE FileAt(m, q)
      /\ \A c \in Block : c # p[1] => m2[c].file = m[c].file
      /\ \A c \in Block : m2[c].ptr = m[c].ptr /\ m2[c].word = m[c].word /\ m2[c].free = m[c].free
  BY ONLY <1>0, <1>3, <1>9, NodeSet
<1>5. m[b].ptr = Zeroed.ptr /\ m[0].ptr = Zeroed.ptr
  BY <1>0, SpareIsEmpty, Layout DEF PtrsApart
<1>6. \A k \in Indirect : m[b].ptr[k] = 0 /\ m[0].ptr[k] = 0
  BY <1>5, ZeroedType
<1>7. FileAt(m, p).f_indirect = 0
  BY Layout DEF Num
<1>8. ASSUME NEW q \in AllN(m), NEW k \in Slot
      PROVE  Num(m2, q, k) = IF q = p /\ k = -1 THEN b ELSE Num(m, q, k)
  <2>1. FileAt(m, q).f_indirect \in Block
    BY <1>0, NumType DEF File
  <2>2. CASE k \in Direct
    BY <1>0, <1>3, <1>4, <2>2, Layout DEF Num
  <2>3. CASE k = -1
    BY <1>0, <1>3, <1>4, <2>3, Layout DEF Num
  <2>4. CASE k \in Indirect
    <3>1. k # -1 /\ k \notin Direct
      BY <2>4, Layout
    <3>2. /\ Num(m, q, k) = m[FileAt(m, q).f_indirect].ptr[k]
          /\ Num(m2, q, k) = m2[FileAt(m2, q).f_indirect].ptr[k]
      BY <3>1 DEF Num
    <3>3. CASE q = p
      <4>1. FileAt(m2, q).f_indirect = b
        BY <1>0, <1>3, <1>4, <3>3
      <4>2. Num(m2, q, k) = 0 /\ Num(m, q, k) = 0
        BY <1>0, <1>4, <1>6, <1>7, <2>4, <3>2, <3>3, <4>1, Layout
      <4> QED BY <3>1, <4>2
    <3>4. CASE q # p
      <4>1. FileAt(m2, q) = FileAt(m, q)
        BY <1>0, <1>4, <3>4
      <4> QED BY <1>4, <2>1, <3>2, <3>4, <4>1
    <3> QED BY <3>3, <3>4
  <2> QED BY <2>2, <2>3, <2>4, Layout
<1> QED BY <1>0, <1>3, <1>4, <1>8, Layout DEF Renumbered

(* A number set in a node's block of numbers: no other node has that       *)
(* block.                                                                  *)
LEMMA RenumberPtr ==
    ASSUME NEW m, Sound(m), NEW p \in AllN(m), NEW n \in Indirect, Num(m, p, -1) # 0, NEW b \in Block, NEW m2,
           m2 = WithPtr(m, Num(m, p, -1), n, b)
    PROVE  Renumbered(m, m2, p, n, b)
<1>0. /\ m \in [Block -> Stuff] /\ p \in Block \X Index /\ \A q \in AllN(m) : q \in Block \X Index
      /\ Once(m)
  BY NodesType DEF Sound
<1>1. PICK i : i = Num(m, p, -1)
  OBVIOUS
<1>2. i \in Block /\ i # 0 /\ i = FileAt(m, p).f_indirect
  BY <1>0, <1>1, NumType, Layout DEF Num
<1>3. /\ m2 \in [Block -> Stuff]
      /\ \A c \in Block : m2[c].file = m[c].file /\ m2[c].word = m[c].word /\ m2[c].free = m[c].free
      /\ \A c \in Block : c # i => m2[c].ptr = m[c].ptr
      /\ \A k \in Indirect : m2[i].ptr[k] = IF k = n THEN b ELSE m[i].ptr[k]
  BY <1>0, <1>1, <1>2, PtrSet, SMTT(30)
<1>4. \A q \in Block \X Index : FileAt(m2, q) = FileAt(m, q)
  BY <1>3 DEF FileAt
<1>5. ASSUME NEW q \in AllN(m), NEW k \in Slot
      PROVE  Num(m2, q, k) = IF q = p /\ k = n THEN b ELSE Num(m, q, k)
  <2>1. FileAt(m, q).f_indirect \in Block /\ FileAt(m2, q) = FileAt(m, q)
    BY <1>0, <1>4, NumType DEF File
  <2>2. CASE k \notin Indirect
    BY <2>1, <2>2, Layout DEF Num
  <2>3. CASE k \in Indirect
    <3>1. k # -1 /\ k \notin Direct
      BY <2>3, Layout
    <3>2. Num(m, q, k) = m[FileAt(m, q).f_indirect].ptr[k] /\ Num(m2, q, k) = m2[FileAt(m, q).f_indirect].ptr[k]
      BY <2>1, <3>1 DEF Num
    <3>3. CASE q = p
      BY <1>2, <1>3, <2>3, <3>2, <3>3
    <3>4. CASE q # p
      <4>1. Num(m, q, -1) = FileAt(m, q).f_indirect
        BY Layout DEF Num
      <4>2. FileAt(m, q).f_indirect # i
        BY <1>0, <1>1, <1>2, <3>4, <4>1, Layout DEF Once
      <4> QED BY <1>3, <2>1, <3>2, <3>4, <4>2
    <3> QED BY <3>3, <3>4
  <2> QED BY <2>2, <2>3
<1> QED BY <1>0, <1>1, <1>3, <1>4, <1>5, Layout DEF Renumbered

(* A spare block given to a place that had none: the medium is sound, and  *)
(* a new block of the directory has only unnamed, empty nodes.             *)
LEMMA ClaimNodes ==
    ASSUME NEW m, Sound(m), NEW p \in AllN(m), NEW n \in Slot, NEW b, Spare(m, b), NEW m2,
           Num(m, p, n) = 0, n \in Indirect => Num(m, p, -1) # 0, Renumbered(m, m2, p, n, b)
    PROVE  /\ DirSet(m2) = DirSet(m) \cup (IF p = Root /\ n # -1 THEN {b} ELSE {})
           /\ \A j \in Index : p = Root /\ n # -1 =>
                  FileAt(m2, <<b, j>>) = NoFile /\ \A k \in Slot : Num(m2, <<b, j>>, k) = 0
           /\ \A q \in AllN(m2) : q \in AllN(m) \/ (p = Root /\ n # -1 /\ \E j \in Index : q = <<b, j>>)
           /\ AllN(m) \subseteq AllN(m2)
<1>0. /\ m \in [Block -> Stuff] /\ m2 \in [Block -> Stuff] /\ p \in Block \X Index /\ b \in Block
      /\ Root \in AllN(m) /\ PtrsApart(m) /\ b > 2
  BY NodesType DEF Sound, Spare, Renumbered
<1>1. \A k \in Slot : Num(m2, Root, k) = IF Root = p /\ k = n THEN b ELSE Num(m, Root, k)
  BY <1>0 DEF Renumbered
<1>2. DirSet(m2) = DirSet(m) \cup (IF p = Root /\ n # -1 THEN {b} ELSE {})
  <2>1. CASE p = Root /\ n # -1
    <3>1. \A c \in DirSet(m2) : c \in DirSet(m) \/ c = b
      BY <1>1 DEF DirSet
    <3>2. \A c \in DirSet(m) : c \in DirSet(m2)
      BY <1>1, <2>1 DEF DirSet
    <3>3. b \in DirSet(m2)
      BY <1>0, <1>1, <2>1 DEF DirSet
    <3> QED BY <2>1, <3>1, <3>2, <3>3
  <2>2. CASE ~ (p = Root /\ n # -1)
    <3>1. \A k \in Slot \ {-1} : Num(m2, Root, k) = Num(m, Root, k)
      BY <1>1, <2>2
    <3> QED BY <2>2, <3>1 DEF DirSet
  <2> QED BY <2>1, <2>2
<1>3. ASSUME NEW j \in Index, p = Root, n # -1
      PROVE  FileAt(m2, <<b, j>>) = NoFile /\ \A k \in Slot : Num(m2, <<b, j>>, k) = 0
  <2>1. p[1] = 1
    BY <1>3 DEF Root, SuperBlock
  <2>2. m2[b].file = m[b].file
    BY <1>0, <2>1 DEF Renumbered
  <2>3. FileAt(m2, <<b, j>>) = NoFile
    BY <2>2, SpareIsEmpty, ZeroedType DEF FileAt
  <2>4. m2[0].ptr = m[0].ptr
    BY Layout DEF Renumbered
  <2>5. m2[0].ptr = Zeroed.ptr
    BY <1>0, <2>4, Layout DEF PtrsApart
  <2>6. NoFile.f_indirect = 0 /\ \A k \in Direct : NoFile.f_direct[k] = 0
    BY DEF NoFile
  <2> QED BY <2>3, <2>5, <2>6, ZeroedType, Layout DEF Num
<1>4. \A q \in AllN(m2) : q \in AllN(m) \/ (p = Root /\ n # -1 /\ \E j \in Index : q = <<b, j>>)
  BY <1>2 DEF AllN
<1>5. AllN(m) \subseteq AllN(m2)
  BY <1>2 DEF AllN
<1> QED BY <1>2, <1>3, <1>4, <1>5

(* A spare block, put where a node had no number, leaves the medium sound. *)
LEMMA SoundClaim ==
    ASSUME NEW m, Sound(m), NEW p \in AllN(m), NEW n \in Slot, NEW b, Spare(m, b), NEW m2,
           Num(m, p, n) = 0, n \in Indirect => Num(m, p, -1) # 0, Renumbered(m, m2, p, n, b),
           p = Root /\ n # -1 => n < FileAt(m, Root).f_size
    PROVE  Sound(m2)
<1>0. /\ m \in [Block -> Stuff] /\ m2 \in [Block -> Stuff] /\ p \in Block \X Index /\ b \in Block
      /\ b > 2 /\ b \notin m2[2].free /\ Root \in AllN(m) /\ AllN(m) \subseteq Block \X Index
      /\ FileAt(m2, Root).f_name = RootName /\ {0, 1, 2} \cap m2[2].free = {} /\ m2[2].free = m[2].free
  BY NodesType DEF Sound, Spare, Renumbered
<1>1. Held(m) /\ Once(m) /\ FilesApart(m) /\ PtrsApart(m) /\ RootBelow(m) /\ NamesOnce(m)
  BY DEF Sound
<1>2. /\ DirSet(m2) = DirSet(m) \cup (IF p = Root /\ n # -1 THEN {b} ELSE {})
      /\ \A j \in Index : p = Root /\ n # -1 =>
             FileAt(m2, <<b, j>>) = NoFile /\ \A k \in Slot : Num(m2, <<b, j>>, k) = 0
      /\ \A q \in AllN(m2) : q \in AllN(m) \/ (p = Root /\ n # -1 /\ \E j \in Index : q = <<b, j>>)
      /\ AllN(m) \subseteq AllN(m2)
  BY ClaimNodes
<1>3. \A q \in AllN(m), k \in Slot : Num(m2, q, k) = IF q = p /\ k = n THEN b ELSE Num(m, q, k)
  BY DEF Renumbered
<1>4. \A q \in AllN(m2), k \in Slot : Num(m2, q, k) # 0 =>
          q \in AllN(m) /\ (IF q = p /\ k = n THEN Num(m2, q, k) = b ELSE Num(m2, q, k) = Num(m, q, k))
  BY <1>2, <1>3
<1>5. Held(m2)
  BY <1>0, <1>1, <1>4 DEF Held
<1>6. ASSUME NEW q \in AllN(m2), NEW r \in AllN(m2), NEW k \in Slot, NEW l \in Slot,
             Num(m2, q, k) # 0, Num(m2, q, k) = Num(m2, r, l)
      PROVE  q = r /\ k = l
  <2>1. q \in AllN(m) /\ r \in AllN(m)
    BY <1>4, <1>6
  <2>2. Num(m, q, k) # b /\ Num(m, r, l) # b
    BY <2>1 DEF Spare
  <2>3. CASE q = p /\ k = n
    BY <1>3, <1>6, <2>1, <2>2, <2>3
  <2>4. CASE r = p /\ l = n
    BY <1>3, <1>6, <2>1, <2>2, <2>4
  <2>5. CASE ~ (q = p /\ k = n) /\ ~ (r = p /\ l = n)
    BY <1>1, <1>3, <1>6, <2>1, <2>5 DEF Once
  <2> QED BY <2>3, <2>4, <2>5
<1>7. Once(m2)
  BY <1>6 DEF Once
<1>8. ASSUME NEW c \in Block, c \notin {0, 1}, c \notin DirSet(m2)
      PROVE  m2[c].file = Zeroed.file
  <2>1. c \notin DirSet(m)
    BY <1>2, <1>8
  <2>2. p[1] \in DirSet(m) \/ p[1] = 1
    BY DEF AllN, Root, SuperBlock
  <2> QED BY <1>0, <1>1, <1>8, <2>1, <2>2 DEF Renumbered, FilesApart
<1>9. ASSUME NEW c \in Block, c = 0 \/ \A q \in AllN(m2) : Num(m2, q, -1) # c
      PROVE  m2[c].ptr = Zeroed.ptr
  <2>1. n \in Indirect => Num(m, p, -1) = Num(m2, p, -1) /\ Num(m, p, -1) # 0
    BY <1>3, Layout
  <2>2. m2[c].ptr = m[c].ptr
    BY <1>2, <1>9, <2>1 DEF Renumbered
  <2>3. c = 0 \/ \A q \in AllN(m) : Num(m, q, -1) # c
    <3>1. SUFFICES ASSUME c # 0, NEW q \in AllN(m), Num(m, q, -1) = c
                   PROVE  FALSE
      OBVIOUS
    <3>2. Num(m2, q, -1) # c
      BY <1>2, <1>9, <3>1
    <3> QED BY <1>3, <3>1, <3>2, Layout
  <2> QED BY <1>1, <2>2, <2>3 DEF PtrsApart
<1>10. RootBelow(m2)
  BY <1>0, <1>1, <1>3, NodesType, Layout DEF RootBelow, Renumbered
<1>11. NamesOnce(m2)
  <2>1. NoFile.f_name = NoName
    BY DEF NoFile
  <2>2. \A q \in DirSet(m2) \X Index : q \in DirSet(m) \X Index \/ FileAt(m2, q).f_name = NoName
    BY <1>2, <2>1
  <2>3. \A q \in DirSet(m) \X Index : FileAt(m2, q).f_name = FileAt(m, q).f_name
    BY <1>0, NodesType DEF Renumbered
  <2> QED BY <1>1, <2>2, <2>3 DEF NamesOnce
<1>12. FilesApart(m2)
  BY <1>8 DEF FilesApart
<1>13. PtrsApart(m2)
  BY <1>9 DEF PtrsApart
<1> QED BY <1>0, <1>5, <1>7, <1>10, <1>11, <1>12, <1>13 DEF Sound

(* The number of a file's block taken out: the block is spare.             *)
LEMMA SoundRelease ==
    ASSUME NEW m, Sound(m), NEW p \in AllN(m), p # Root, NEW n \in Slot \ {-1}, Num(m, p, n) # 0,
           n \in Indirect => Num(m, p, -1) # 0, NEW m2, Renumbered(m, m2, p, n, 0)
    PROVE  Sound(m2) /\ Spare(m2, Num(m, p, n)) /\ DirSet(m2) = DirSet(m) /\ AllN(m2) = AllN(m)
<1>0. /\ m \in [Block -> Stuff] /\ m2 \in [Block -> Stuff] /\ p \in Block \X Index
      /\ Root \in AllN(m) /\ AllN(m) \subseteq Block \X Index
      /\ FileAt(m2, Root).f_name = RootName /\ {0, 1, 2} \cap m2[2].free = {} /\ m2[2].free = m[2].free
  BY NodesType DEF Sound, Renumbered
<1>1. Held(m) /\ Once(m) /\ FilesApart(m) /\ PtrsApart(m) /\ RootBelow(m) /\ NamesOnce(m)
  BY DEF Sound
<1>3. \A q \in AllN(m), k \in Slot : Num(m2, q, k) = IF q = p /\ k = n THEN 0 ELSE Num(m, q, k)
  BY DEF Renumbered
<1>2. DirSet(m2) = DirSet(m) /\ AllN(m2) = AllN(m)
  <2>1. \A k \in Slot : Num(m2, Root, k) = Num(m, Root, k)
    BY <1>0, <1>3
  <2>2. DirSet(m2) = DirSet(m)
    BY <2>1 DEF DirSet
  <2> QED BY <2>2 DEF AllN
<1>5. Held(m2)
  BY <1>0, <1>1, <1>2, <1>3 DEF Held
<1>7. Once(m2)
  BY <1>1, <1>2, <1>3 DEF Once
<1>8. FilesApart(m2)
  <2>2. p[1] \in DirSet(m) \/ p[1] = 1
    BY DEF AllN, Root, SuperBlock
  <2> QED BY <1>0, <1>1, <1>2, <2>2 DEF Renumbered, FilesApart
<1>9. ASSUME NEW c \in Block, c = 0 \/ \A q \in AllN(m2) : Num(m2, q, -1) # c
      PROVE  m2[c].ptr = Zeroed.ptr
  <2>1. \A q \in AllN(m) : Num(m, q, -1) = Num(m2, q, -1)
    BY <1>3, Layout
  <2>2. m2[c].ptr = m[c].ptr
    BY <1>2, <1>9, <2>1 DEF Renumbered
  <2> QED BY <1>1, <1>2, <1>9, <2>1, <2>2 DEF PtrsApart
<1>10. RootBelow(m2)
  BY <1>0, <1>1, <1>3, NodesType, Layout DEF RootBelow, Renumbered
<1>11. NamesOnce(m2)
  <2>3. \A q \in DirSet(m) \X Index : FileAt(m2, q).f_name = FileAt(m, q).f_name
    BY <1>0, NodesType DEF Renumbered
  <2> QED BY <1>1, <1>2, <2>3 DEF NamesOnce
<1>13. PtrsApart(m2)
  BY <1>9 DEF PtrsApart
<1>14. Spare(m2, Num(m, p, n))
  <2>1. Num(m, p, n) \in Block
    BY <1>0, NumType
  <2>2. Num(m, p, n) > 2 /\ Num(m, p, n) \notin m2[2].free
    BY <1>0, <1>1 DEF Held
  <2>3. \A q \in AllN(m2), k \in Slot : Num(m2, q, k) # Num(m, p, n)
    BY <1>1, <1>2, <1>3 DEF Once
  <2> QED BY <2>1, <2>2, <2>3 DEF Spare
<1> QED BY <1>0, <1>2, <1>5, <1>7, <1>8, <1>10, <1>11, <1>13, <1>14 DEF Sound

----------------------------------------------------------------------------
(* What a change leaves alone.                                             *)

(* The directory only grows, by unnamed nodes, and no node but p changes   *)
(* its name, its size, its blocks or what they hold.                       *)
Loose(m, m2, p) ==
    /\ DirSet(m) \subseteq DirSet(m2)
    /\ \A n \in Slot : Num(m, Root, n) # 0 => Num(m2, Root, n) = Num(m, Root, n)
    /\ \A q \in DirSet(m2) \X Index : q \notin DirSet(m) \X Index /\ q # p => FileAt(m2, q).f_name = NoName
    /\ \A q \in DirSet(m) \X Index : q # p =>
           /\ FileAt(m2, q).f_name = FileAt(m, q).f_name /\ FileAt(m2, q).f_size = FileAt(m, q).f_size
           /\ \A n \in Slot : Num(m2, q, n) = Num(m, q, n)
           /\ \A n \in Slot : Num(m, q, n) # 0 /\ n # -1 => m2[Num(m, q, n)].word = m[Num(m, q, n)].word

(* No name changes, and the directory's size does not.                     *)
NamesKept(m, m2) ==
    /\ \A q \in DirSet(m2) \X Index : q \notin DirSet(m) \X Index => FileAt(m2, q).f_name = NoName
    /\ \A q \in DirSet(m) \X Index : FileAt(m2, q).f_name = FileAt(m, q).f_name
    /\ FileAt(m2, Root).f_size = FileAt(m, Root).f_size

Kept(m, m2, p) == Loose(m, m2, p) /\ NamesKept(m, m2)

(* One change after another.                                               *)
LEMMA LooseTrans ==
    ASSUME NEW m, NEW m1, NEW m2, NEW p, Loose(m, m1, p), Loose(m1, m2, p)
    PROVE  Loose(m, m2, p)
<1>1. DirSet(m) \subseteq DirSet(m2) /\ DirSet(m) \X Index \subseteq DirSet(m1) \X Index
  BY DEF Loose
<1>2. \A n \in Slot : Num(m, Root, n) # 0 => Num(m2, Root, n) = Num(m, Root, n)
  BY DEF Loose
<1>3. ASSUME NEW q \in DirSet(m2) \X Index, q \notin DirSet(m) \X Index, q # p
      PROVE  FileAt(m2, q).f_name = NoName
  BY <1>3 DEF Loose
<1>4. ASSUME NEW q \in DirSet(m) \X Index, q # p
      PROVE  /\ FileAt(m2, q).f_name = FileAt(m, q).f_name /\ FileAt(m2, q).f_size = FileAt(m, q).f_size
             /\ \A n \in Slot : Num(m2, q, n) = Num(m, q, n)
             /\ \A n \in Slot : Num(m, q, n) # 0 /\ n # -1 => m2[Num(m, q, n)].word = m[Num(m, q, n)].word
  <2>1. q \in DirSet(m1) \X Index
    BY <1>1
  <2>2. /\ FileAt(m1, q).f_name = FileAt(m, q).f_name /\ FileAt(m1, q).f_size = FileAt(m, q).f_size
        /\ \A n \in Slot : Num(m1, q, n) = Num(m, q, n)
        /\ \A n \in Slot : Num(m, q, n) # 0 /\ n # -1 => m1[Num(m, q, n)].word = m[Num(m, q, n)].word
    BY <1>4 DEF Loose
  <2>3. /\ FileAt(m2, q).f_name = FileAt(m1, q).f_name /\ FileAt(m2, q).f_size = FileAt(m1, q).f_size
        /\ \A n \in Slot : Num(m2, q, n) = Num(m1, q, n)
        /\ \A n \in Slot : Num(m1, q, n) # 0 /\ n # -1 => m2[Num(m1, q, n)].word = m1[Num(m1, q, n)].word
    BY <1>4, <2>1 DEF Loose
  <2> QED BY <2>2, <2>3
<1> QED BY <1>1, <1>2, <1>3, <1>4 DEF Loose

(* The same with the names kept.                                           *)
LEMMA KeptTrans ==
    ASSUME NEW m, NEW m1, NEW m2, NEW p, Kept(m, m1, p), Kept(m1, m2, p)
    PROVE  Kept(m, m2, p)
<1>1. Loose(m, m2, p)
  BY LooseTrans DEF Kept
<1>2. DirSet(m) \X Index \subseteq DirSet(m1) \X Index
  BY DEF Kept, Loose
<1>3. NamesKept(m, m2)
  BY <1>2 DEF Kept, NamesKept
<1> QED BY <1>1, <1>3 DEF Kept

(* What keeps all files but the root keeps all but any one.                *)
LEMMA KeptAny ==
    ASSUME NEW m, Sound(m), NEW m2, NEW p, Kept(m, m2, Root)
    PROVE  Kept(m, m2, p)
<1>1. \A q \in DirSet(m) \X Index : q # Root
  BY DirAbove
<1>2. Loose(m, m2, Root) /\ NamesKept(m, m2)
  BY DEF Kept
<1>3. \A q \in DirSet(m2) \X Index : q \notin DirSet(m) \X Index => FileAt(m2, q).f_name = NoName
  BY <1>2 DEF NamesKept
<1>4. Loose(m, m2, p)
  BY <1>1, <1>2, <1>3 DEF Loose
<1> QED BY <1>2, <1>4 DEF Kept

(* The numbers stay, and so do the names, the sizes, and the words in held *)
(* blocks.                                                                 *)
Alike(m, m2) ==
    /\ DirSet(m2) = DirSet(m) /\ AllN(m2) = AllN(m)
    /\ \A q \in AllN(m), n \in Slot : Num(m2, q, n) = Num(m, q, n)
    /\ \A q \in AllN(m) :
           FileAt(m2, q).f_name = FileAt(m, q).f_name /\ FileAt(m2, q).f_size = FileAt(m, q).f_size
    /\ \A q \in AllN(m), n \in Slot :
           Num(m, q, n) # 0 /\ n # -1 => m2[Num(m, q, n)].word = m[Num(m, q, n)].word

(* Alike is transitive.                                                    *)
LEMMA AlikeTrans ==
    ASSUME NEW m, NEW m1, NEW m2, Alike(m, m1), Alike(m1, m2)
    PROVE  Alike(m, m2)
  BY DEF Alike

(* Media that are alike differ in no file.                                 *)
LEMMA AlikeKept ==
    ASSUME NEW m, NEW m2, NEW p, Alike(m, m2)
    PROVE  Kept(m, m2, p)
<1>1. DirSet(m) \X Index \subseteq AllN(m) /\ Root \in AllN(m)
  BY DEF AllN
<1>2. Loose(m, m2, p)
  BY <1>1 DEF Loose, Alike
<1>3. NamesKept(m, m2)
  BY <1>1 DEF NamesKept, Alike
<1> QED BY <1>2, <1>3 DEF Kept

(* No change at all.                                                       *)
LEMMA KeptRefl == ASSUME NEW m, NEW p PROVE Kept(m, m, p)
  BY DEF Kept, Loose, NamesKept

(* A number given to node p, or, of a file, taken out.                     *)
LEMMA KeptClaim ==
    ASSUME NEW m, Sound(m), NEW p \in AllN(m), NEW n \in Slot, NEW b, Spare(m, b), NEW m2,
           Num(m, p, n) = 0, n \in Indirect => Num(m, p, -1) # 0, Renumbered(m, m2, p, n, b)
    PROVE  Kept(m, m2, p)
<1>0. m \in [Block -> Stuff] /\ Root \in AllN(m) /\ AllN(m) \subseteq Block \X Index /\ DirSet(m) \X Index \subseteq AllN(m)
  BY NodesType DEF Sound
<1>1. /\ DirSet(m2) = DirSet(m) \cup (IF p = Root /\ n # -1 THEN {b} ELSE {})
      /\ \A j \in Index : p = Root /\ n # -1 =>
             FileAt(m2, <<b, j>>) = NoFile /\ \A k \in Slot : Num(m2, <<b, j>>, k) = 0
  BY ClaimNodes
<1>2. \A q \in AllN(m), k \in Slot : Num(m2, q, k) = IF q = p /\ k = n THEN b ELSE Num(m, q, k)
  BY DEF Renumbered
<1>3. \A q \in AllN(m) : FileAt(m2, q).f_name = FileAt(m, q).f_name /\ FileAt(m2, q).f_size = FileAt(m, q).f_size
  BY <1>0 DEF Renumbered
<1>4. \A c \in Block : m2[c].word = m[c].word
  BY DEF Renumbered
<1>5. \A q \in DirSet(m2) \X Index : q \notin DirSet(m) \X Index => FileAt(m2, q).f_name = NoName
  <2>1. NoFile.f_name = NoName
    BY DEF NoFile
  <2> QED BY <1>1, <2>1
<1>6. \A q \in AllN(m), k \in Slot : Num(m, q, k) \in Block
  BY <1>0, NumType
<1>7. \A k \in Slot : Num(m, Root, k) # 0 => Num(m2, Root, k) = Num(m, Root, k)
  BY <1>0, <1>2
<1>8. DirSet(m) \subseteq DirSet(m2)
  BY <1>1
<1>9. Loose(m, m2, p)
  BY <1>0, <1>2, <1>3, <1>4, <1>5, <1>6, <1>7, <1>8 DEF Loose
<1> QED BY <1>0, <1>3, <1>5, <1>9 DEF Kept, NamesKept

(* A number dropped changes its node's file only.                          *)
LEMMA KeptRelease ==
    ASSUME NEW m, Sound(m), NEW p \in AllN(m), p # Root, NEW n \in Slot \ {-1}, NEW m2,
           DirSet(m2) = DirSet(m), Renumbered(m, m2, p, n, 0)
    PROVE  Kept(m, m2, p)
<1>0. m \in [Block -> Stuff] /\ Root \in AllN(m) /\ AllN(m) \subseteq Block \X Index /\ DirSet(m) \X Index \subseteq AllN(m)
  BY NodesType DEF Sound
<1>2. \A q \in AllN(m), k \in Slot : Num(m2, q, k) = IF q = p /\ k = n THEN 0 ELSE Num(m, q, k)
  BY DEF Renumbered
<1>3. \A q \in AllN(m) : FileAt(m2, q).f_name = FileAt(m, q).f_name /\ FileAt(m2, q).f_size = FileAt(m, q).f_size
  BY <1>0 DEF Renumbered
<1>4. \A c \in Block : m2[c].word = m[c].word
  BY DEF Renumbered
<1>6. \A q \in AllN(m), k \in Slot : Num(m, q, k) \in Block
  BY <1>0, NumType
<1> QED BY <1>0, <1>2, <1>3, <1>4, <1>6 DEF Kept, Loose, NamesKept

----------------------------------------------------------------------------
(* The cache.  What memory and the disk hold together is a medium, V(s).   *)
LEMMA VIs ==
    ASSUME NEW s \in State
    PROVE  /\ V(s) \in [Block -> Stuff]
           /\ \A b \in Block : V(s)[b] = IF b \in s.mapped THEN s.mem[b] ELSE s.disk[b]
  BY DEF V, State

(* A function that differs at one place is the other one, changed there.   *)
LEMMA ChangedAt ==
    ASSUME NEW m \in [Block -> Stuff], NEW m2 \in [Block -> Stuff], NEW b \in Block, NEW c,
           \A d \in Block : m2[d] = IF d = b THEN c ELSE m[d]
    PROVE  m2 = [m EXCEPT ![b] = c]
  OBVIOUS

(* A block in memory is written to, and is dirty.                          *)
Poke(s, b, c) == [s EXCEPT !.mem[b] = c, !.dirty = @ \cup {b}]

(* A content put in memory, and its block made dirty, is a change of the   *)
(* medium there.                                                           *)
LEMMA Poked ==
    ASSUME NEW s, Cached(s), NEW b \in s.mapped, NEW c \in Stuff, NEW t, t = Poke(s, b, c)
    PROVE  /\ Cached(t) /\ V(t) = [V(s) EXCEPT ![b] = c]
           /\ t.mapped = s.mapped /\ t.halt = s.halt
<1>1. s \in State /\ b \in Block
  BY DEF Cached, State
<1>2. /\ t \in State /\ t.mapped = s.mapped /\ t.halt = s.halt /\ t.disk = s.disk
      /\ t.dirty = s.dirty \cup {b} /\ t.mem = [s.mem EXCEPT ![b] = c]
  BY <1>1 DEF Poke, State
<1>3. \A d \in Block : t.mem[d] = IF d = b THEN c ELSE s.mem[d]
  BY <1>1, <1>2 DEF State
<1>4. Cached(t)
  BY <1>1, <1>2, <1>3 DEF Cached, SameOnDisk, State
<1>5. V(t) = [V(s) EXCEPT ![b] = c]
  <2>2. \A d \in Block : V(s)[d] = IF d \in s.mapped THEN s.mem[d] ELSE s.disk[d]
    BY <1>1, VIs
  <2>3. \A d \in Block : V(t)[d] = IF d \in t.mapped THEN t.mem[d] ELSE t.disk[d]
    BY <1>2, VIs
  <2>1. \A d \in Block : V(t)[d] = IF d = b THEN c ELSE V(s)[d]
    BY <1>1, <1>2, <1>3, <2>2, <2>3
  <2> QED BY <1>1, <1>2, <2>1, VIs, ChangedAt
<1> QED BY <1>2, <1>4, <1>5

(* A block comes into memory: as it is on the disk, or, when nobody has it,*)
(* zeroed.                                                                 *)
LEMMA OneMore ==
    ASSUME NEW s, Cached(s), NEW b \in Block, b \notin s.mapped, ~ MemoryIsFull(s)
    PROVE  Cardinality(s.mapped \cup {b}) <= npage
<1>1. s.mapped \subseteq 0 .. NBlock - 1 /\ npage \in Nat
  BY FileSystemAssumption DEF Cached, State, Block
<1>2. IsFiniteSet(s.mapped)
  <2>1. 0 \in Int /\ NBlock - 1 \in Int
    BY LayoutAssumption
  <2>2. IsFiniteSet(0 .. NBlock - 1)
    BY <2>1, FS_Interval
  <2> QED BY <1>1, <2>2, FS_Subset
<1>3. Cardinality(s.mapped) \in Nat /\ Cardinality(s.mapped \cup {b}) = Cardinality(s.mapped) + 1
  BY <1>2, FS_AddElement, FS_CardinalityType
<1> QED BY <1>1, <1>3 DEF Cached, MemoryIsFull

Bring(s, b, c) == [s EXCEPT !.mapped = @ \cup {b}, !.mem[b] = c]

(* A block read off the disk (or zeroed, with the same nodes and numbers)  *)
(* is a change of the medium there, and there is a page for it.            *)
LEMMA BroughtIn ==
    ASSUME NEW s, Cached(s), NEW b \in Block, b \notin s.mapped, ~ MemoryIsFull(s), NEW c \in Stuff,
           c.file = s.disk[b].file, c.ptr = s.disk[b].ptr, NEW t,
           t = Bring(s, b, c)
    PROVE  /\ Cached(t) /\ V(t) = [V(s) EXCEPT ![b] = c]
           /\ t.mapped = s.mapped \cup {b} /\ t.halt = s.halt
<1>1. s \in State /\ b # 2
  BY DEF Cached
<1>2. /\ t \in State /\ t.mapped = s.mapped \cup {b} /\ t.halt = s.halt /\ t.disk = s.disk
      /\ t.dirty = s.dirty /\ t.mem = [s.mem EXCEPT ![b] = c]
  BY <1>1 DEF State, Bring
<1>3. \A d \in Block : t.mem[d] = IF d = b THEN c ELSE s.mem[d]
  BY <1>1, <1>2 DEF State
<1>4. Cardinality(t.mapped) <= npage
  BY <1>2, OneMore
<1>5. Cached(t)
  BY <1>1, <1>2, <1>3, <1>4 DEF Cached, SameOnDisk, State
<1>6. V(t) = [V(s) EXCEPT ![b] = c]
  <2>2. \A d \in Block : V(s)[d] = IF d \in s.mapped THEN s.mem[d] ELSE s.disk[d]
    BY <1>1, VIs
  <2>3. \A d \in Block : V(t)[d] = IF d \in t.mapped THEN t.mem[d] ELSE t.disk[d]
    BY <1>2, VIs
  <2>1. \A d \in Block : V(t)[d] = IF d = b THEN c ELSE V(s)[d]
    BY <1>1, <1>2, <1>3, <2>2, <2>3
  <2> QED BY <1>1, <1>2, <2>1, VIs, ChangedAt
<1> QED BY <1>2, <1>5, <1>6

(* A block written back leaves what the server sees.                       *)
LEMMA WriteBlock ==
    ASSUME NEW s, Cached(s), NEW b \in s.mapped, NEW t, t = write_block(s, b)
    PROVE  Cached(t) /\ V(t) = V(s) /\ t.mapped = s.mapped /\ t.halt = s.halt
<1>1. s \in State /\ b \in Block
  BY DEF Cached, State
<1>2. CASE ~ block_is_dirty(s, b)
  BY <1>2 DEF write_block
<1>3. CASE block_is_dirty(s, b)
  <2>1. t = [s EXCEPT !.disk[b] = s.mem[b], !.dirty = @ \ {b}]
    BY <1>3 DEF write_block
  <2>5. s.mem[b] \in Stuff /\ s.disk \in [Block -> Stuff]
    BY <1>1 DEF State
  <2>6. PICK c \in Stuff : c = s.mem[b]
    BY <2>5
  <2>9. PICK md \in [Block -> Stuff] : md = [s.disk EXCEPT ![b] = c]
    BY <2>5
  <2>7. t = [s EXCEPT !.disk = md, !.dirty = @ \ {b}]
    BY <2>1, <2>6, <2>9
  <2>8. /\ t \in State /\ t.mapped = s.mapped /\ t.halt = s.halt /\ t.mem = s.mem
        /\ t.dirty = s.dirty \ {b} /\ t.disk = md
    BY <1>1, <2>7 DEF State
  <2>2. /\ t \in State /\ t.mapped = s.mapped /\ t.halt = s.halt /\ t.mem = s.mem
        /\ t.dirty = s.dirty \ {b} /\ \A d \in Block : t.disk[d] = IF d = b THEN s.mem[b] ELSE s.disk[d]
    <3>1. \A e \in Block : t.disk[e] = IF e = b THEN c ELSE s.disk[e]
      BY <1>1, <2>5, <2>8, <2>9
    <3> QED BY <2>6, <2>8, <3>1
  <2>3. Cached(t)
    BY <1>1, <2>2 DEF Cached, SameOnDisk, State
  <2>4. V(t) = V(s)
    BY <1>1, <2>2 DEF V
  <2> QED BY <2>2, <2>3, <2>4
<1> QED BY <1>2, <1>3

(* A block made dirty leaves what the server sees.                         *)
LEMMA Touched ==
    ASSUME NEW s, Cached(s), NEW b \in s.mapped, NEW t, t = [s EXCEPT !.dirty = @ \cup {b}]
    PROVE  Cached(t) /\ V(t) = V(s) /\ t.mapped = s.mapped /\ t.halt = s.halt
<1>1. s \in State /\ b \in Block
  BY DEF Cached, State
<1>2. /\ t \in State /\ t.mapped = s.mapped /\ t.halt = s.halt /\ t.mem = s.mem /\ t.disk = s.disk
      /\ t.dirty = s.dirty \cup {b}
  BY <1>1 DEF State
<1> QED BY <1>1, <1>2 DEF Cached, SameOnDisk, V

(* So does the end of the behaviour at a block read as what it is not.     *)
LEMMA Halted ==
    ASSUME NEW s, Cached(s), NEW t, t = Garbage(s).s
    PROVE  Cached(t) /\ V(t) = V(s) /\ t.mapped = s.mapped
<1>1. s \in State
  BY DEF Cached
<1>2. t = [s EXCEPT !.halt = "garbage"]
  BY DEF Garbage, Fail
<1>3. /\ t \in State /\ t.mapped = s.mapped /\ t.mem = s.mem /\ t.disk = s.disk /\ t.dirty = s.dirty
  BY <1>1, <1>2 DEF State
<1> QED BY <1>1, <1>3 DEF Cached, SameOnDisk, V

----------------------------------------------------------------------------
(* The bitmap.                                                             *)
WithFree(m, U) == [m EXCEPT ![2] = [m[2] EXCEPT !.free = U]]

(* The bitmap rewritten leaves all nodes, numbers and words.               *)
LEMMA FreeSet ==
    ASSUME NEW m \in [Block -> Stuff], NEW U \in SUBSET Block, NEW m2, m2 = WithFree(m, U)
    PROVE  /\ m2 \in [Block -> Stuff] /\ m2[2].free = U
           /\ \A c \in Block : m2[c].file = m[c].file /\ m2[c].ptr = m[c].ptr /\ m2[c].word = m[c].word
<1>1. m[2] \in Stuff
  BY Layout
<1>2. PICK x : x = [m[2] EXCEPT !.free = U]
  OBVIOUS
<1>3. x \in Stuff /\ x.free = U /\ x.file = m[2].file /\ x.ptr = m[2].ptr /\ x.word = m[2].word
  BY <1>1, <1>2 DEF Stuff
<1>4. m2 = [m EXCEPT ![2] = x]
  BY <1>2 DEF WithFree
<1> QED BY <1>3, <1>4, Layout

(* A medium whose nodes and blocks of numbers stay is alike.               *)
LEMMA AlikeSame ==
    ASSUME NEW m \in [Block -> Stuff], NEW m2 \in [Block -> Stuff],
           \A c \in Block : m2[c].file = m[c].file /\ m2[c].ptr = m[c].ptr,
           \A q \in AllN(m), n \in Slot : Num(m, q, n) # 0 => m2[Num(m, q, n)].word = m[Num(m, q, n)].word
    PROVE  Alike(m, m2)
<1>1. \A p \in Block \X Index : FileAt(m2, p) = FileAt(m, p)
  BY DEF FileAt
<1>2. /\ \A p \in Block \X Index, n \in Slot : Num(m2, p, n) = Num(m, p, n)
      /\ DirSet(m2) = DirSet(m) /\ AllN(m2) = AllN(m)
  BY <1>1, NumSame
<1>3. AllN(m) \subseteq Block \X Index
  BY NodesType
<1> QED BY <1>1, <1>2, <1>3 DEF Alike

(* A medium with the same nodes and numbers, and a bitmap in which none of *)
(* the held blocks is free, is sound as well.                              *)
LEMMA SoundSame ==
    ASSUME NEW m, Sound(m), NEW m2 \in [Block -> Stuff],
           \A c \in Block : m2[c].file = m[c].file /\ m2[c].ptr = m[c].ptr,
           {0, 1, 2} \cap m2[2].free = {},
           \A p \in AllN(m), n \in Slot : Num(m, p, n) # 0 => Num(m, p, n) \notin m2[2].free
    PROVE  Sound(m2)
<1>0. m \in [Block -> Stuff] /\ RootBelow(m) /\ NamesOnce(m) /\ FileAt(m, Root).f_name = RootName
  BY DEF Sound
<1>1. \A p \in Block \X Index : FileAt(m2, p) = FileAt(m, p)
  BY DEF FileAt
<1>2. /\ \A p \in Block \X Index, n \in Slot : Num(m2, p, n) = Num(m, p, n)
      /\ DirSet(m2) = DirSet(m) /\ AllN(m2) = AllN(m)
  BY <1>0, <1>1, NumSame
<1>3. AllN(m) \subseteq Block \X Index /\ Root \in Block \X Index /\ DirSet(m) \X Index \subseteq Block \X Index
  BY <1>0, NodesType
<1>4. RootBelow(m2)
  BY <1>0, <1>1, <1>2, <1>3 DEF RootBelow
<1>5. NamesOnce(m2)
  BY <1>0, <1>1, <1>2, <1>3 DEF NamesOnce
<1> QED BY <1>0, <1>1, <1>2, <1>3, <1>4, <1>5, SoundStays

(* An alike medium has the same spare blocks, if they are not free there.  *)
LEMMA AlikeSpare ==
    ASSUME NEW m, NEW m2, Alike(m, m2), NEW b, Spare(m, b), b \notin m2[2].free
    PROVE  Spare(m2, b)
  BY DEF Alike, Spare

(* A block is freed, or taken out of the free ones.                        *)
LEMMA SoundFree ==
    ASSUME NEW m, Sound(m), NEW U \in SUBSET Block, {0, 1, 2} \cap U = {},
           \A p \in AllN(m), n \in Slot : Num(m, p, n) # 0 => Num(m, p, n) \notin U,
           NEW m2, m2 = WithFree(m, U)
    PROVE  Sound(m2) /\ Alike(m, m2) /\ m2[2].free = U
<1>1. m \in [Block -> Stuff]
  BY DEF Sound
<1>2. /\ m2 \in [Block -> Stuff] /\ m2[2].free = U
      /\ \A c \in Block : m2[c].file = m[c].file /\ m2[c].ptr = m[c].ptr /\ m2[c].word = m[c].word
  BY <1>1, FreeSet
<1>3. Sound(m2)
  BY <1>2, SoundSame
<1>4. \A p \in AllN(m), n \in Slot : Num(m, p, n) \in Block
  BY <1>1, NodesType, NumType
<1> QED BY <1>1, <1>2, <1>3, <1>4, AlikeSame

(* A spare block is zeroed.                                                *)
LEMMA SoundZero ==
    ASSUME NEW m, Sound(m), NEW b, Spare(m, b), NEW m2, m2 = [m EXCEPT ![b] = Zeroed]
    PROVE  Sound(m2) /\ Alike(m, m2) /\ Spare(m2, b)
<1>1. m \in [Block -> Stuff] /\ Held(m) /\ {0, 1, 2} \cap m[2].free = {}
  BY DEF Sound
<1>2. b \in Block /\ b > 2 /\ b \notin m[2].free /\ \A p \in AllN(m), n \in Slot : Num(m, p, n) # b
  BY DEF Spare
<1>3. \A c \in Block : m2[c] = IF c = b THEN Zeroed ELSE m[c]
  BY <1>1, <1>2
<1>4. m2 \in [Block -> Stuff]
  BY <1>1, <1>2, ZeroedType
<1>5. \A c \in Block : m2[c].file = m[c].file /\ m2[c].ptr = m[c].ptr
  BY <1>3, SpareIsEmpty
<1>6. m2[2].free = m[2].free
  BY <1>2, <1>3, Layout
<1>7. \A p \in AllN(m), n \in Slot : Num(m, p, n) \in Block
  BY <1>1, NodesType, NumType
<1>8. Alike(m, m2)
  <2>1. \A p \in AllN(m), n \in Slot : m2[Num(m, p, n)].word = m[Num(m, p, n)].word
    BY <1>2, <1>3, <1>7
  <2> QED BY ONLY <1>1, <1>4, <1>5, <2>1, AlikeSame
<1>9. Sound(m2)
  BY <1>1, <1>4, <1>5, <1>6, SoundSame DEF Held
<1>10. b \notin m2[2].free
  BY <1>2, <1>6
<1>11. Spare(m2, b)
  BY <1>8, <1>10, AlikeSpare
<1> QED BY <1>8, <1>9, <1>11

----------------------------------------------------------------------------
(* The operations on blocks.                                               *)
LEMMA GoodIs ==
    ASSUME NEW s, Good(s)
    PROVE  /\ s \in State /\ Cached(s) /\ Sound(V(s)) /\ V(s) \in [Block -> Stuff]
           /\ s.mapped \subseteq Block /\ {0, 1, 2} \subseteq s.mapped
           /\ \A b \in s.mapped : s.mem[b] = V(s)[b]
           /\ Free(s) = V(s)[2].free /\ Free(s) \subseteq Block
<1>1. s \in State /\ Cached(s) /\ Sound(V(s)) /\ {0, 1, 2} \subseteq s.mapped
  BY DEF Good, Cached
<1>2. V(s) \in [Block -> Stuff] /\ s.mapped \subseteq Block
  BY <1>1, VIs DEF State
<1>3. \A b \in s.mapped : s.mem[b] = V(s)[b]
  BY <1>1, <1>2, VIs
<1>4. Free(s) = V(s)[2].free
  BY <1>1, <1>3 DEF Free, BitmapBlock
<1>5. V(s)[2].free \subseteq Block
  BY <1>2, Layout DEF Stuff
<1> QED BY <1>1, <1>2, <1>3, <1>4, <1>5

(* read_block of a block that is not free never panics, and changes        *)
(* nothing that the server sees.                                           *)
LEMMA ReadBlock ==
    ASSUME NEW s, Good(s), NEW b \in Block, b \notin V(s)[2].free, NEW x, x = read_block(s, b)
    PROVE  /\ Good(x.s) /\ V(x.s) = V(s) /\ s.mapped \subseteq x.s.mapped
           /\ x.r \in {"ok", "E_NO_MEM"}
           /\ x.r = "ok" => b \in x.s.mapped
<1>0. s \in State /\ Cached(s) /\ Sound(V(s)) /\ V(s) \in [Block -> Stuff] /\ Free(s) = V(s)[2].free
  BY GoodIs
<1>1. ~ block_is_free(s, b)
  BY <1>0 DEF block_is_free
<1>2. CASE b \in s.mapped
  <2>1. x = Ok(s, FALSE)
    BY <1>1, <1>2 DEF read_block
  <2>2. x.s = s /\ x.r = "ok"
    BY <2>1 DEF Ok
  <2> QED BY <1>2, <2>2
<1>3. CASE b \notin s.mapped /\ MemoryIsFull(s)
  <2>1. x = Fail(s, "E_NO_MEM")
    BY <1>1, <1>3 DEF read_block
  <2>2. x.s = s /\ x.r = "E_NO_MEM"
    BY <2>1 DEF Fail
  <2> QED BY <2>2
<1>4. CASE b \notin s.mapped /\ ~ MemoryIsFull(s)
  <2>1. s.disk[b] \in Stuff /\ V(s)[b] = s.disk[b]
    BY <1>0, <1>4, VIs DEF State
  <2>2. PICK c \in Stuff : c = s.disk[b]
    BY <2>1
  <2>3. PICK t : t = Bring(s, b, c)
    OBVIOUS
  <2>4. x = Ok(t, TRUE)
    BY <1>1, <1>4, <2>2, <2>3 DEF read_block, Bring
  <2>5. x.s = t /\ x.r = "ok"
    BY <2>4 DEF Ok
  <2>6. Cached(t) /\ V(t) = [V(s) EXCEPT ![b] = c] /\ t.mapped = s.mapped \cup {b}
    <3>1. c.file = s.disk[b].file /\ c.ptr = s.disk[b].ptr
      BY <2>2
    <3>2. Cached(s) /\ b \in Block /\ b \notin s.mapped /\ ~ MemoryIsFull(s) /\ c \in Stuff
      BY <1>0, <1>4, <2>2
    <3> QED BY ONLY <2>3, <3>1, <3>2, BroughtIn
  <2>7. V(t) = V(s)
    BY <1>0, <2>1, <2>2, <2>6
  <2> QED BY <1>0, <2>5, <2>6, <2>7 DEF Good
<1> QED BY <1>2, <1>3, <1>4

(* The smallest of some natural numbers.                                   *)
LEMMA Smallest ==
    ASSUME NEW S \in SUBSET Nat, S # {}
    PROVE  \E x \in S : \A y \in S : x <= y
<1>1. PICK x \in S : \A y \in S : ~ (<<y, x>> \in OpToRel(<, Nat))
  BY NatLessThanWellFounded, WFMin
<1>2. ASSUME NEW y \in S PROVE x <= y
  <2>1. x \in Nat /\ y \in Nat
    OBVIOUS
  <2>2. <<y, x>> \in Nat \X Nat /\ <<y, x>>[1] = y /\ <<y, x>>[2] = x
    BY <2>1
  <2>3. ~ (y < x)
    BY <1>1, <2>2 DEF OpToRel
  <2> QED BY <2>1, <2>3
<1> QED BY <1>2

(* The bitmap in memory is written.                                        *)
LEMMA BitmapPoke ==
    ASSUME NEW s, Good(s), NEW U \in SUBSET Block, NEW t,
           t = [s EXCEPT !.mem[BitmapBlock].free = U, !.dirty = @ \cup {BitmapBlock}]
    PROVE  Cached(t) /\ V(t) = WithFree(V(s), U) /\ t.mapped = s.mapped
<1>0. s \in State /\ Cached(s) /\ 2 \in s.mapped /\ s.mem[2] = V(s)[2] /\ V(s) \in [Block -> Stuff]
  BY GoodIs
<1>1. PICK c : c = [s.mem[2] EXCEPT !.free = U]
  OBVIOUS
<1>5. s.mem[2] \in Stuff
  BY <1>0, Layout
<1>2. c \in Stuff
  BY <1>1, <1>5 DEF Stuff
<1>3. t = Poke(s, 2, c)
  BY <1>1 DEF Poke, BitmapBlock
<1>4. Cached(t) /\ V(t) = [V(s) EXCEPT ![2] = c] /\ t.mapped = s.mapped
  BY ONLY <1>0, <1>2, <1>3, Poked
<1> QED BY <1>0, <1>1, <1>4 DEF WithFree

(* alloc_block_num either finds no block and changes nothing, or takes one *)
(* that nobody has out of the bitmap.                                      *)
LEMMA AllocNum ==
    ASSUME NEW s, Good(s), NEW x, x = alloc_block_num(s)
    PROVE  \/ x.r = "E_NO_DISK" /\ x.s = s
           \/ /\ x.r = "ok" /\ Good(x.s) /\ x.s.mapped = s.mapped
              /\ Alike(V(s), V(x.s)) /\ Spare(V(x.s), x.v)
<1>0. /\ Sound(V(s)) /\ V(s) \in [Block -> Stuff] /\ Free(s) = V(s)[2].free /\ Free(s) \subseteq Block
      /\ {0, 1, 2} \cap Free(s) = {}
  BY GoodIs DEF Sound
<1> DEFINE free == {b \in Free(s) : b >= 2}
<1>1. CASE free = {}
  <2>1. x = Fail(s, "E_NO_DISK")
    BY <1>1 DEF alloc_block_num
  <2> QED BY <2>1 DEF Fail
<1>2. CASE free # {}
  <2>1. PICK b : b = CHOOSE y \in free : \A z \in free : y <= z
    OBVIOUS
  <2>2. free \in SUBSET Nat
    BY <1>0, LayoutAssumption DEF Block
  <2>3. b \in free
    <3> HIDE DEF free
    <3>1. \E y \in free : \A z \in free : y <= z
      BY <1>2, <2>2, Smallest
    <3> QED BY <2>1, <3>1
  <2>4. PICK t : t = [s EXCEPT !.mem[BitmapBlock].free = Free(s) \ {b}, !.dirty = @ \cup {BitmapBlock}]
    OBVIOUS
  <2>5. x = Ok(t, b)
    BY <1>2, <2>1, <2>4 DEF alloc_block_num, Free
  <2>6. x.r = "ok" /\ x.s = t /\ x.v = b
    BY <2>5 DEF Ok
  <2>7. PICK U : U = Free(s) \ {b}
    OBVIOUS
  <2>8. U \in SUBSET Block /\ {0, 1, 2} \cap U = {} /\ b \in Free(s) /\ b \in Block /\ b > 2 /\ b \notin U
    BY <1>0, <2>2, <2>3, <2>7
  <2>9. Cached(t) /\ V(t) = WithFree(V(s), U) /\ t.mapped = s.mapped
    BY <2>4, <2>7, <2>8, BitmapPoke
  <2>10. Held(V(s))
    BY <1>0 DEF Sound
  <2>11. \A p \in AllN(V(s)), n \in Slot : Num(V(s), p, n) # 0 => Num(V(s), p, n) \notin U
    BY <1>0, <2>7, <2>10 DEF Held
  <2>12. Sound(V(t)) /\ Alike(V(s), V(t)) /\ V(t)[2].free = U
    BY ONLY <1>0, <2>8, <2>9, <2>11, SoundFree
  <2>13. Spare(V(t), b)
    BY <1>0, <2>8, <2>10, <2>12 DEF Spare, Alike, Held
  <2> QED BY <2>6, <2>9, <2>12, <2>13 DEF Good
<1> QED BY <1>1, <1>2

(* free_block of a block that nobody has changes no file.                  *)
LEMMA FreeBlock ==
    ASSUME NEW s, Good(s), NEW b, Spare(V(s), b), NEW t, t = free_block(s, b)
    PROVE  Good(t) /\ Alike(V(s), V(t)) /\ t.mapped = s.mapped
<1>0. /\ Sound(V(s)) /\ V(s) \in [Block -> Stuff] /\ Free(s) = V(s)[2].free /\ Free(s) \subseteq Block
      /\ {0, 1, 2} \cap Free(s) = {} /\ b \in Block /\ b > 2
      /\ \A p \in AllN(V(s)), n \in Slot : Num(V(s), p, n) # b
  BY GoodIs DEF Sound, Spare
<1>1. t = [s EXCEPT !.mem[BitmapBlock].free = Free(s) \cup {b}, !.dirty = @ \cup {BitmapBlock}]
  BY <1>0 DEF free_block, Free
<1>2. PICK U : U = Free(s) \cup {b}
  OBVIOUS
<1>3. U \in SUBSET Block /\ {0, 1, 2} \cap U = {}
  BY <1>0, <1>2
<1>4. Cached(t) /\ V(t) = WithFree(V(s), U) /\ t.mapped = s.mapped
  BY <1>1, <1>2, <1>3, BitmapPoke
<1>5. Held(V(s))
  BY <1>0 DEF Sound
<1>6. \A p \in AllN(V(s)), n \in Slot : Num(V(s), p, n) # 0 => Num(V(s), p, n) \notin U
  BY <1>0, <1>2, <1>5 DEF Held
<1>7. Sound(V(t)) /\ Alike(V(s), V(t)) /\ V(t)[2].free = U
  BY ONLY <1>0, <1>3, <1>4, <1>6, SoundFree
<1> QED BY <1>4, <1>7 DEF Good

(* map_block of a block that nobody has changes no file; it fails when     *)
(* memory is full.                                                         *)
LEMMA MapBlock ==
    ASSUME NEW s, Good(s), NEW b, Spare(V(s), b), NEW x, x = map_block(s, b)
    PROVE  \/ x.r = "E_NO_MEM" /\ x.s = s
           \/ /\ x.r = "ok" /\ x.v = b /\ Good(x.s) /\ s.mapped \subseteq x.s.mapped /\ b \in x.s.mapped
              /\ Alike(V(s), V(x.s)) /\ Spare(V(x.s), b)
<1>0. /\ s \in State /\ Cached(s) /\ Sound(V(s)) /\ V(s) \in [Block -> Stuff] /\ b \in Block
  BY GoodIs DEF Spare
<1>1. CASE b \in s.mapped
  <2>1. x = Ok(s, b)
    BY <1>1 DEF map_block
  <2>2. x.s = s /\ x.r = "ok" /\ x.v = b
    BY <2>1 DEF Ok
  <2> QED BY <1>1, <2>2 DEF Alike
<1>2. CASE b \notin s.mapped /\ MemoryIsFull(s)
  <2>1. x = Fail(s, "E_NO_MEM")
    BY <1>2 DEF map_block
  <2> QED BY <2>1 DEF Fail
<1>3. CASE b \notin s.mapped /\ ~ MemoryIsFull(s)
  <2>1. PICK t : t = Bring(s, b, Zeroed)
    OBVIOUS
  <2>2. x = Ok(t, b)
    BY <1>3, <2>1 DEF map_block, Bring
  <2>3. x.s = t /\ x.r = "ok" /\ x.v = b
    BY <2>2 DEF Ok
  <2>4. V(s)[b] = s.disk[b]
    BY <1>0, <1>3, VIs
  <2>5. Zeroed.file = s.disk[b].file /\ Zeroed.ptr = s.disk[b].ptr
    BY <1>0, <2>4, SpareIsEmpty
  <2>6. Cached(t) /\ V(t) = [V(s) EXCEPT ![b] = Zeroed] /\ t.mapped = s.mapped \cup {b}
    <3>1. Cached(s) /\ b \in Block /\ b \notin s.mapped /\ ~ MemoryIsFull(s) /\ Zeroed \in Stuff
      BY <1>0, <1>3, ZeroedType
    <3> QED BY ONLY <2>1, <2>5, <3>1, BroughtIn
  <2>7. Sound(V(t)) /\ Alike(V(s), V(t)) /\ Spare(V(t), b)
    BY ONLY <1>0, <2>6, Spare(V(s), b), SoundZero
  <2> QED BY <2>3, <2>6, <2>7 DEF Good
<1> QED BY <1>1, <1>2, <1>3

(* alloc_block gives a block that nobody has, in memory, or fails with     *)
(* every file as it was and the number back in the bitmap.                 *)
LEMMA AllocBlock ==
    ASSUME NEW s, Good(s), NEW x, x = alloc_block(s)
    PROVE  /\ x.r \in {"ok", "E_NO_DISK", "E_NO_MEM"}
           /\ Good(x.s) /\ s.mapped \subseteq x.s.mapped /\ Alike(V(s), V(x.s))
           /\ x.r = "ok" => Spare(V(x.s), x.v) /\ x.v \in x.s.mapped
<1>1. PICK a : a = alloc_block_num(s)
  OBVIOUS
<1>2. PICK m : m = map_block(a.s, a.v)
  OBVIOUS
<1>3. PICK t : t = free_block(a.s, a.v)
  OBVIOUS
<1>4. x = IF a.r = "ok" THEN (IF m.r = "ok" THEN m ELSE Fail(t, m.r)) ELSE a
  BY <1>1, <1>2, <1>3 DEF alloc_block, Then
<1>5. \/ a.r = "E_NO_DISK" /\ a.s = s
      \/ /\ a.r = "ok" /\ Good(a.s) /\ a.s.mapped = s.mapped
         /\ Alike(V(s), V(a.s)) /\ Spare(V(a.s), a.v)
  BY <1>1, AllocNum
<1>6. CASE a.r = "E_NO_DISK" /\ a.s = s
  <2>1. x = a
    BY <1>4, <1>6
  <2> QED BY <1>6, <2>1 DEF Alike
<1>7. CASE /\ a.r = "ok" /\ Good(a.s) /\ a.s.mapped = s.mapped
           /\ Alike(V(s), V(a.s)) /\ Spare(V(a.s), a.v)
  <2>1. \/ m.r = "E_NO_MEM" /\ m.s = a.s
        \/ /\ m.r = "ok" /\ m.v = a.v /\ Good(m.s) /\ a.s.mapped \subseteq m.s.mapped /\ a.v \in m.s.mapped
           /\ Alike(V(a.s), V(m.s)) /\ Spare(V(m.s), a.v)
    BY <1>2, <1>7, MapBlock
  <2>2. CASE m.r = "ok"
    <3>1. x = m
      BY <1>4, <1>7, <2>2
    <3>2. Alike(V(s), V(m.s))
      BY <1>7, <2>1, <2>2, AlikeTrans
    <3> QED BY <1>7, <2>1, <2>2, <3>1, <3>2
  <2>3. CASE m.r = "E_NO_MEM"
    <3>1. x = Fail(t, "E_NO_MEM")
      BY <1>4, <1>7, <2>3
    <3>2. x.r = "E_NO_MEM" /\ x.s = t
      BY <3>1 DEF Fail
    <3>3. Good(t) /\ Alike(V(a.s), V(t)) /\ t.mapped = a.s.mapped
      BY <1>3, <1>7, FreeBlock
    <3>4. Alike(V(s), V(t))
      BY <1>7, <3>3, AlikeTrans
    <3> QED BY <1>7, <3>2, <3>3, <3>4
  <2> QED BY <2>1, <2>2, <2>3
<1> QED BY <1>5, <1>6, <1>7

----------------------------------------------------------------------------
(* The numbers of a file's blocks.                                         *)

(* One state leads to another in a request about node p.                   *)
Leads(s, t, p) == Good(t) /\ s.mapped \subseteq t.mapped /\ Kept(V(s), V(t), p)

(* One step of a request after another.                                    *)
LEMMA LeadsTrans ==
    ASSUME NEW s, NEW t, NEW u, NEW p, Leads(s, t, p), Leads(t, u, p)
    PROVE  Leads(s, u, p)
<1>1. s.mapped \subseteq u.mapped /\ Good(u)
  BY DEF Leads
<1>2. Kept(V(s), V(u), p)
  BY KeptTrans DEF Leads
<1> QED BY <1>1, <1>2 DEF Leads

(* A state with the same files follows.                                    *)
LEMMA LeadsAlike ==
    ASSUME NEW s, NEW t, NEW p, Good(t), s.mapped \subseteq t.mapped, Alike(V(s), V(t))
    PROVE  Leads(s, t, p)
  BY AlikeKept DEF Leads

(* A state with the same contents follows.                                 *)
LEMMA LeadsSame ==
    ASSUME NEW s, NEW t, NEW p, Good(t), s.mapped \subseteq t.mapped, V(t) = V(s)
    PROVE  Leads(s, t, p)
  BY KeptRefl DEF Leads

(* No node goes away.                                                      *)
LEMMA LeadsNodes ==
    ASSUME NEW s, NEW t, NEW p, Leads(s, t, p)
    PROVE  AllN(V(s)) \subseteq AllN(V(t))
  BY DEF Leads, Kept, Loose, AllN

(* A node p that is in memory.                                             *)
InMem(s, p) == p \in AllN(V(s)) /\ p[1] \in s.mapped

(* A node in memory stays there.                                           *)
LEMMA LeadsInMem ==
    ASSUME NEW s, NEW t, NEW p, NEW q, Leads(s, t, q), InMem(s, p)
    PROVE  InMem(t, p)
  BY LeadsNodes DEF Leads, InMem

(* What the server reads of a node in memory is what the medium has.       *)
LEMMA NodeIs ==
    ASSUME NEW s, Good(s), NEW p, InMem(s, p)
    PROVE  /\ Node(s, p) = FileAt(V(s), p) /\ Node(s, p) \in File
           /\ p \in AllN(V(s)) /\ p \in Block \X Index
           /\ \A n \in Direct : Node(s, p).f_direct[n] = Num(V(s), p, n)
           /\ Node(s, p).f_indirect = Num(V(s), p, -1)
<1>1. p \in AllN(V(s)) /\ p \in Block \X Index /\ s.mem[p[1]] = V(s)[p[1]] /\ V(s) \in [Block -> Stuff]
  BY GoodIs, NodesType DEF InMem
<1>2. Node(s, p) = FileAt(V(s), p) /\ FileAt(V(s), p) \in File
  BY <1>1, NumType DEF Node, FileAt
<1> QED BY <1>1, <1>2, Layout DEF Num

(* SetNode is a change of the medium at the node's block.                  *)
LEMMA NodePoke ==
    ASSUME NEW s, Good(s), NEW p, InMem(s, p), NEW f \in File, NEW t, t = SetNode(s, p, f)
    PROVE  /\ Cached(t) /\ V(t) = WithNode(V(s), p, f) /\ t.mapped = s.mapped
           /\ \E c : t = Poke(s, p[1], c) /\ c = [s.mem[p[1]] EXCEPT !.file[p[2]] = f]
<1>1. /\ p \in Block \X Index /\ s.mem[p[1]] = V(s)[p[1]] /\ Cached(s) /\ p[1] \in s.mapped
      /\ V(s) \in [Block -> Stuff]
  BY GoodIs, NodesType DEF InMem
<1>2. PICK c : c = [s.mem[p[1]] EXCEPT !.file[p[2]] = f]
  OBVIOUS
<1>3. p[1] \in Block /\ p[2] \in Index
  BY <1>1
<1>6. s.mem[p[1]] \in Stuff
  BY <1>1, <1>3
<1>4. c \in Stuff
  BY <1>2, <1>3, <1>6 DEF Stuff
<1>5. t = Poke(s, p[1], c)
  BY <1>2 DEF SetNode, Poke
<1>7. Cached(t) /\ V(t) = [V(s) EXCEPT ![p[1]] = c] /\ t.mapped = s.mapped
  BY ONLY <1>1, <1>4, <1>5, Poked
<1> QED BY <1>1, <1>2, <1>5, <1>7 DEF WithNode

SetPtr(s, i, n, b) == [s EXCEPT !.mem[i].ptr[n] = b, !.dirty = @ \cup {i}]

(* A number written in memory is a change of the medium at its block.      *)
LEMMA PtrPoke ==
    ASSUME NEW s, Good(s), NEW i \in s.mapped, NEW n \in Indirect, NEW b \in Block, NEW t,
           t = SetPtr(s, i, n, b)
    PROVE  /\ Cached(t) /\ V(t) = WithPtr(V(s), i, n, b) /\ t.mapped = s.mapped
           /\ \E c : t = Poke(s, i, c) /\ c = [s.mem[i] EXCEPT !.ptr[n] = b]
<1>1. s.mem[i] = V(s)[i] /\ Cached(s) /\ V(s) \in [Block -> Stuff] /\ i \in Block
  BY GoodIs
<1>2. PICK c : c = [s.mem[i] EXCEPT !.ptr[n] = b]
  OBVIOUS
<1>3. s.mem[i] \in Stuff
  BY <1>1
<1>4. c \in Stuff
  BY <1>2, <1>3 DEF Stuff
<1>5. t = Poke(s, i, c)
  BY <1>2 DEF Poke, SetPtr
<1>6. Cached(t) /\ V(t) = [V(s) EXCEPT ![i] = c] /\ t.mapped = s.mapped
  BY ONLY <1>1, <1>4, <1>5, i \in s.mapped, Poked
<1> QED BY <1>1, <1>2, <1>5, <1>6 DEF WithPtr

(* A place of a node in memory is written.                                 *)
Reached(s, p, n) ==
    /\ n \in Direct \cup Indirect
    /\ n \in Indirect => Num(V(s), p, -1) # 0 /\ Num(V(s), p, -1) \in s.mapped

(* The number that file_block_walk's pointer leads to.                     *)
LEMMA NumberIs ==
    ASSUME NEW s, Good(s), NEW p, InMem(s, p), NEW n, Reached(s, p, n)
    PROVE  Number(s, p, n) = Num(V(s), p, n) /\ Number(s, p, n) \in Block
<1>1. /\ \A k \in Direct : Node(s, p).f_direct[k] = Num(V(s), p, k)
      /\ Node(s, p).f_indirect = Num(V(s), p, -1) /\ Node(s, p) = FileAt(V(s), p)
      /\ \A b \in s.mapped : s.mem[b] = V(s)[b]
      /\ p \in Block \X Index /\ V(s) \in [Block -> Stuff]
  BY NodeIs, GoodIs
<1>2. n \in Slot /\ n # -1
  BY Layout DEF Reached
<1>3. Num(V(s), p, n) \in Block
  BY <1>1, <1>2, NumType
<1>4. CASE n \in Direct
  BY <1>1, <1>3, <1>4 DEF Number
<1>5. CASE n \notin Direct
  BY <1>1, <1>2, <1>3, <1>5 DEF Number, Reached, Num
<1> QED BY <1>4, <1>5

(* Writing through that pointer changes that number only.                  *)
LEMMA SetNumberIs ==
    ASSUME NEW s, Good(s), NEW p, InMem(s, p), NEW n, Reached(s, p, n), NEW b \in Block, NEW t,
           t = SetNumber(s, p, n, b)
    PROVE  /\ Cached(t) /\ t.mapped = s.mapped /\ Renumbered(V(s), V(t), p, n, b)
<1>1. /\ Node(s, p) = FileAt(V(s), p) /\ Node(s, p) \in File /\ p \in AllN(V(s)) /\ p \in Block \X Index
      /\ Node(s, p).f_indirect = Num(V(s), p, -1) /\ V(s) \in [Block -> Stuff] /\ Sound(V(s))
  BY NodeIs, GoodIs
<1>2. CASE n \in Direct
  <2>1. PICK f : f = [Node(s, p) EXCEPT !.f_direct[n] = b]
    OBVIOUS
  <2>2. f \in File
    BY <1>1, <1>2, <2>1 DEF File
  <2>3. t = SetNode(s, p, f)
    BY <1>2, <2>1 DEF SetNumber
  <2>4. Cached(t) /\ V(t) = WithNode(V(s), p, f) /\ t.mapped = s.mapped
    BY <2>2, <2>3, NodePoke
  <2>5. V(t) = WithNode(V(s), p, [FileAt(V(s), p) EXCEPT !.f_direct[n] = b])
    BY <1>1, <2>1, <2>4
  <2>6. Renumbered(V(s), V(t), p, n, b)
    BY ONLY <1>1, <1>2, <2>5, b \in Block, RenumberDirect
  <2> QED BY <2>4, <2>6
<1>3. CASE n \notin Direct
  <2>1. PICK i : i = Num(V(s), p, -1)
    OBVIOUS
  <2>2. n \in Indirect /\ i # 0 /\ i \in s.mapped
    BY <1>3, <2>1 DEF Reached
  <2>3. t = SetPtr(s, i, n, b)
    BY <1>1, <1>3, <2>1 DEF SetNumber, SetPtr
  <2>4. Cached(t) /\ V(t) = WithPtr(V(s), i, n, b) /\ t.mapped = s.mapped
    BY <2>2, <2>3, PtrPoke
  <2>5. V(t) = WithPtr(V(s), Num(V(s), p, -1), n, b) /\ Num(V(s), p, -1) # 0
    BY <2>1, <2>2, <2>4
  <2>6. Renumbered(V(s), V(t), p, n, b)
    BY ONLY <1>1, <2>2, <2>5, b \in Block, RenumberPtr
  <2> QED BY <2>4, <2>6
<1> QED BY <1>2, <1>3

(* A spare block becomes block n of a node, or its block of numbers.       *)
LEMMA ClaimNumber ==
    ASSUME NEW s, Good(s), NEW p, InMem(s, p), NEW n, Reached(s, p, n), Num(V(s), p, n) = 0,
           NEW b, Spare(V(s), b), p = Root => n < FileAt(V(s), Root).f_size, NEW t, t = SetNumber(s, p, n, b)
    PROVE  Leads(s, t, p) /\ Num(V(t), p, n) = b /\ t.mapped = s.mapped /\ Reached(t, p, n)
<1>1. /\ p \in AllN(V(s)) /\ Sound(V(s)) /\ b \in Block /\ n \in Slot /\ n # -1
      /\ n \in Indirect => Num(V(s), p, -1) # 0
  BY GoodIs, Layout DEF InMem, Spare, Reached
<1>2. Cached(t) /\ t.mapped = s.mapped /\ Renumbered(V(s), V(t), p, n, b)
  BY <1>1, SetNumberIs
<1>3. p = Root /\ n # -1 => n < FileAt(V(s), Root).f_size
  OBVIOUS
<1>4. Num(V(s), p, n) = 0 /\ Spare(V(s), b)
  OBVIOUS
<1>5. Sound(V(t)) /\ Kept(V(s), V(t), p)
  BY ONLY <1>1, <1>2, <1>3, <1>4, SoundClaim, KeptClaim
<1>6. Num(V(t), p, n) = b /\ Num(V(t), p, -1) = Num(V(s), p, -1)
  BY <1>1, <1>2, Layout DEF Renumbered
<1> QED BY <1>2, <1>5, <1>6 DEF Leads, Good, Reached

(* A spare block becomes a node's block of numbers.                        *)
LEMMA ClaimIndirect ==
    ASSUME NEW s, Good(s), NEW p, InMem(s, p), Num(V(s), p, -1) = 0, NEW b, Spare(V(s), b), NEW t,
           t = SetNode(s, p, [Node(s, p) EXCEPT !.f_indirect = b])
    PROVE  Leads(s, t, p) /\ Num(V(t), p, -1) = b /\ t.mapped = s.mapped
<1>1. /\ p \in AllN(V(s)) /\ Sound(V(s)) /\ b \in Block /\ -1 \in Slot /\ -1 \notin Indirect
      /\ Node(s, p) = FileAt(V(s), p) /\ Node(s, p) \in File
  BY GoodIs, NodeIs, Layout DEF Spare
<1>2. PICK f : f = [Node(s, p) EXCEPT !.f_indirect = b]
  OBVIOUS
<1>3. f \in File
  BY <1>1, <1>2 DEF File
<1>4. t = SetNode(s, p, f)
  BY <1>2
<1>5. Cached(t) /\ V(t) = WithNode(V(s), p, f) /\ t.mapped = s.mapped
  BY <1>3, <1>4, NodePoke
<1>6. V(t) = WithNode(V(s), p, [FileAt(V(s), p) EXCEPT !.f_indirect = b])
  BY <1>1, <1>2, <1>5
<1>7. Num(V(s), p, -1) = 0 /\ Spare(V(s), b)
  OBVIOUS
<1>8. Renumbered(V(s), V(t), p, -1, b)
  BY ONLY <1>1, <1>6, <1>7, RenumberIndirect
<1>9. Sound(V(t)) /\ Kept(V(s), V(t), p)
  BY ONLY <1>1, <1>7, <1>8, SoundClaim, KeptClaim
<1>10. Num(V(t), p, -1) = b
  BY <1>1, <1>8 DEF Renumbered
<1> QED BY <1>5, <1>9, <1>10 DEF Leads, Good

(* The number of a block that a node has, and the block is not free.       *)
LEMMA HeldIs ==
    ASSUME NEW s, Good(s), NEW p \in AllN(V(s)), NEW n \in Slot, Num(V(s), p, n) # 0
    PROVE  Num(V(s), p, n) \in Block /\ Num(V(s), p, n) > 2 /\ Num(V(s), p, n) \notin V(s)[2].free
<1>1. V(s) \in [Block -> Stuff] /\ Held(V(s))
  BY GoodIs DEF Sound
<1> QED BY <1>1, NodesType, NumType DEF Held

Codes == {"ok", "E_INVAL", "E_NO_MEM", "E_NO_DISK", "E_NOT_FOUND", "garbage"}

(* The block of numbers is read.                                           *)
LEMMA WalkRead ==
    ASSUME NEW s, Good(s), NEW p, InMem(s, p), NEW n \in Indirect, NEW i, i = Num(V(s), p, -1), i # 0,
           NEW rd, rd = read_block(s, i), NEW x,
           x = IF rd.r = "ok" THEN (IF IsPtrs(rd.s.mem[i]) THEN Ok(rd.s, n) ELSE Garbage(rd.s)) ELSE rd
    PROVE  /\ Good(x.s) /\ s.mapped \subseteq x.s.mapped /\ V(x.s) = V(s)
           /\ x.r \in {"ok", "E_NO_MEM", "garbage"}
           /\ x.r = "ok" => Reached(x.s, p, n)
<1>1. i \in Block /\ i \notin V(s)[2].free
  BY HeldIs, Layout DEF InMem
<1>2. /\ Good(rd.s) /\ V(rd.s) = V(s) /\ s.mapped \subseteq rd.s.mapped
      /\ rd.r \in {"ok", "E_NO_MEM"}
      /\ rd.r = "ok" => i \in rd.s.mapped
  BY <1>1, ReadBlock
<1>3. CASE rd.r # "ok"
  BY <1>2, <1>3
<1>4. CASE rd.r = "ok" /\ IsPtrs(rd.s.mem[i])
  <2>1. x.s = rd.s /\ x.r = "ok"
    BY <1>4 DEF Ok
  <2> QED BY <1>2, <1>4, <2>1 DEF Reached
<1>5. CASE rd.r = "ok" /\ ~ IsPtrs(rd.s.mem[i])
  <2>1. x.s = Garbage(rd.s).s /\ x.r = "garbage"
    BY <1>5 DEF Garbage, Fail
  <2>2. Cached(x.s) /\ V(x.s) = V(rd.s) /\ x.s.mapped = rd.s.mapped
    BY <1>2, <2>1, Halted DEF Good
  <2> QED BY <1>2, <2>1, <2>2 DEF Good
<1> QED BY <1>3, <1>4, <1>5

(* file_block_walk: its result codes, that it allocates only when asked    *)
(* to, and that the number is then in reach.                               *)
LEMMA BlockWalk ==
    ASSUME NEW s, Good(s), NEW p, InMem(s, p), NEW n \in Nat, NEW alloc \in BOOLEAN,
           NEW x, x = file_block_walk(s, p, n, alloc)
    PROVE  /\ Leads(s, x.s, p) /\ x.r \in Codes
           /\ alloc => x.r # "E_NOT_FOUND"
           /\ ~ alloc => V(x.s) = V(s)
           /\ x.r = "ok" => Reached(x.s, p, n)
           /\ n \notin Direct \cup Indirect => x.s = s /\ x.r = "E_INVAL"
<1>1. CASE n \in Direct
  <2>1. x = Ok(s, n)
    BY <1>1 DEF file_block_walk
  <2>2. x.s = s /\ x.r = "ok"
    BY <2>1 DEF Ok
  <2> QED BY <1>1, <2>2, LeadsSame, Layout DEF Codes, Reached
<1>2. CASE n \notin Direct \cup Indirect
  <2>1. x = Fail(s, "E_INVAL")
    BY <1>2 DEF file_block_walk
  <2>2. x.s = s /\ x.r = "E_INVAL"
    BY <2>1 DEF Fail
  <2> QED BY <1>2, <2>2, LeadsSame DEF Codes
<1>3. CASE n \in Indirect
  <2>0. n \notin Direct /\ Node(s, p).f_indirect = Num(V(s), p, -1)
    BY <1>3, Layout, NodeIs
  <2>1. PICK i : i = Node(s, p).f_indirect
    OBVIOUS
  <2>2. CASE i # 0
    <3>1. PICK rd : rd = read_block(s, i)
      OBVIOUS
    <3>2. x = IF rd.r = "ok" THEN (IF IsPtrs(rd.s.mem[i]) THEN Ok(rd.s, n) ELSE Garbage(rd.s)) ELSE rd
      BY <1>3, <2>0, <2>1, <2>2, <3>1 DEF file_block_walk, Then, Ok
    <3>3. /\ Good(x.s) /\ s.mapped \subseteq x.s.mapped /\ V(x.s) = V(s)
          /\ x.r \in {"ok", "E_NO_MEM", "garbage"}
          /\ x.r = "ok" => Reached(x.s, p, n)
      BY <1>3, <2>0, <2>1, <2>2, <3>1, <3>2, WalkRead
    <3> QED BY <1>3, <3>3, LeadsSame DEF Codes
  <2>3. CASE i = 0 /\ ~ alloc
    <3>1. x = Fail(s, "E_NOT_FOUND")
      BY <1>3, <2>0, <2>1, <2>3 DEF file_block_walk, Then, Fail
    <3>2. x.s = s /\ x.r = "E_NOT_FOUND"
      BY <3>1 DEF Fail
    <3> QED BY <1>3, <2>3, <3>2, LeadsSame DEF Codes
  <2>4. CASE i = 0 /\ alloc
    <3>1. PICK a : a = alloc_block(s)
      OBVIOUS
    <3>2. /\ a.r \in {"ok", "E_NO_DISK", "E_NO_MEM"}
          /\ Good(a.s) /\ s.mapped \subseteq a.s.mapped /\ Alike(V(s), V(a.s))
          /\ a.r = "ok" => Spare(V(a.s), a.v) /\ a.v \in a.s.mapped
      BY <3>1, AllocBlock
    <3>3. Leads(s, a.s, p)
      BY <3>2, LeadsAlike
    <3>4. CASE a.r # "ok"
      <4>1. x = a
        BY <1>3, <2>0, <2>1, <2>4, <3>1, <3>4 DEF file_block_walk, Then
      <4> QED BY <1>3, <2>4, <3>2, <3>3, <3>4, <4>1 DEF Codes
    <3>5. CASE a.r = "ok"
      <4>1. PICK t : t = SetNode(a.s, p, [Node(a.s, p) EXCEPT !.f_indirect = a.v])
        OBVIOUS
      <4>2. PICK rd : rd = read_block(t, a.v)
        OBVIOUS
      <4>3. x = IF rd.r = "ok" THEN (IF IsPtrs(rd.s.mem[a.v]) THEN Ok(rd.s, n) ELSE Garbage(rd.s)) ELSE rd
        BY <1>3, <2>0, <2>1, <2>4, <3>1, <3>5, <4>1, <4>2 DEF file_block_walk, Then, Ok
      <4>4. InMem(a.s, p)
        BY <3>3, LeadsInMem
      <4>5. Num(V(a.s), p, -1) = 0
        BY <2>0, <2>1, <2>4, <3>2, Layout DEF Alike, InMem
      <4>6. Leads(a.s, t, p) /\ Num(V(t), p, -1) = a.v
        BY <3>2, <3>5, <4>1, <4>4, <4>5, ClaimIndirect
      <4>7. InMem(t, p) /\ Good(t) /\ a.v # 0
        BY <3>2, <3>5, <4>4, <4>6, LeadsInMem DEF Leads, Spare
      <4>8. /\ Good(x.s) /\ t.mapped \subseteq x.s.mapped /\ V(x.s) = V(t)
            /\ x.r \in {"ok", "E_NO_MEM", "garbage"}
            /\ x.r = "ok" => Reached(x.s, p, n)
        BY <1>3, <4>2, <4>3, <4>6, <4>7, WalkRead
      <4>9. Leads(t, x.s, p)
        BY <4>8, LeadsSame
      <4>10. Leads(s, x.s, p)
        BY <3>3, <4>6, <4>9, LeadsTrans
      <4> QED BY <1>3, <2>4, <4>8, <4>10 DEF Codes
    <3> QED BY <3>4, <3>5
  <2> QED BY <2>2, <2>3, <2>4
<1> QED BY <1>1, <1>2, <1>3

(* The root is asked only for blocks of its own.                           *)
Below(s, p, n) == p = Root => n < FileAt(V(s), Root).f_size

(* The number that is found is that of the place; a place there is not is  *)
(* told at once.                                                           *)
GotNumber(x, p, n) == x.r = "ok" => Reached(x.s, p, n) /\ x.v = Num(V(x.s), p, n) /\ x.v # 0
OutOfRange(s, x, n) == n \notin Direct \cup Indirect => x.s = s /\ x.r = "E_INVAL"

(* file_map_block gives the number of the file's block, or fails and       *)
(* leaves the other files as they were.                                    *)
LEMMA FileMapBlock ==
    ASSUME NEW s, Good(s), NEW p, InMem(s, p), NEW n \in Nat, NEW alloc \in BOOLEAN,
           Below(s, p, n),
           NEW x, x = file_map_block(s, p, n, alloc)
    PROVE  /\ Leads(s, x.s, p) /\ x.r \in Codes
           /\ alloc => x.r # "E_NOT_FOUND"
           /\ ~ alloc => V(x.s) = V(s)
           /\ GotNumber(x, p, n)
           /\ OutOfRange(s, x, n)
<1> SUFFICES /\ Leads(s, x.s, p) /\ x.r \in Codes
             /\ alloc => x.r # "E_NOT_FOUND"
             /\ ~ alloc => V(x.s) = V(s)
             /\ x.r = "ok" => Reached(x.s, p, n) /\ x.v = Num(V(x.s), p, n) /\ x.v # 0
             /\ n \notin Direct \cup Indirect => x.s = s /\ x.r = "E_INVAL"
  BY DEF GotNumber, OutOfRange
<1>1. PICK w : w = file_block_walk(s, p, n, alloc)
  OBVIOUS
<1>2. /\ Leads(s, w.s, p) /\ w.r \in Codes
      /\ alloc => w.r # "E_NOT_FOUND"
      /\ ~ alloc => V(w.s) = V(s)
      /\ w.r = "ok" => Reached(w.s, p, n)
      /\ n \notin Direct \cup Indirect => w.s = s /\ w.r = "E_INVAL"
  BY <1>1, BlockWalk
<1>3. Good(w.s) /\ InMem(w.s, p)
  BY <1>2, LeadsInMem DEF Leads
<1>4. CASE w.r # "ok"
  <2>1. x = w
    BY <1>1, <1>4 DEF file_map_block, Then
  <2> QED BY <1>2, <1>4, <2>1
<1>5. CASE w.r = "ok"
  <2>0. Reached(w.s, p, n) /\ n \in Direct \cup Indirect /\ Number(w.s, p, n) = Num(V(w.s), p, n)
    BY <1>2, <1>3, <1>5, NumberIs DEF Reached
  <2>1. CASE Number(w.s, p, n) # 0
    <3>1. x = Ok(w.s, Number(w.s, p, n))
      BY <1>1, <1>5, <2>1 DEF file_map_block, Then
    <3>2. x.s = w.s /\ x.r = "ok" /\ x.v = Number(w.s, p, n)
      BY <3>1 DEF Ok
    <3> QED BY <1>2, <2>0, <2>1, <3>2 DEF Codes
  <2>2. CASE Number(w.s, p, n) = 0 /\ ~ alloc
    <3>1. x = Fail(w.s, "E_NOT_FOUND")
      BY <1>1, <1>5, <2>2 DEF file_map_block, Then
    <3>2. x.s = w.s /\ x.r = "E_NOT_FOUND"
      BY <3>1 DEF Fail
    <3> QED BY <1>2, <2>0, <2>2, <3>2 DEF Codes
  <2>3. CASE Number(w.s, p, n) = 0 /\ alloc
    <3>1. PICK a : a = alloc_block(w.s)
      OBVIOUS
    <3>2. /\ a.r \in {"ok", "E_NO_DISK", "E_NO_MEM"}
          /\ Good(a.s) /\ w.s.mapped \subseteq a.s.mapped /\ Alike(V(w.s), V(a.s))
          /\ a.r = "ok" => Spare(V(a.s), a.v) /\ a.v \in a.s.mapped
      BY <1>3, <3>1, AllocBlock
    <3>3. Leads(w.s, a.s, p)
      BY <3>2, LeadsAlike
    <3>4. CASE a.r # "ok"
      <4>1. x = a
        BY <1>1, <1>5, <2>3, <3>1, <3>4 DEF file_map_block, Then
      <4>2. Leads(s, a.s, p)
        BY <1>2, <3>3, LeadsTrans
      <4> QED BY <2>0, <2>3, <3>2, <3>4, <4>1, <4>2 DEF Codes
    <3>5. CASE a.r = "ok"
      <4>1. PICK t : t = SetNumber(a.s, p, n, a.v)
        OBVIOUS
      <4>2. x = Ok(t, a.v)
        BY <1>1, <1>5, <2>3, <3>1, <3>5, <4>1 DEF file_map_block, Then
      <4>3. x.s = t /\ x.r = "ok" /\ x.v = a.v
        BY <4>2 DEF Ok
      <4>4. InMem(a.s, p)
        BY <1>3, <3>3, LeadsInMem
      <4>5. p \in AllN(V(w.s)) /\ n \in Slot /\ -1 \in Slot
        BY <1>3, <2>0, Layout DEF InMem
      <4>6. Num(V(a.s), p, n) = 0 /\ Reached(a.s, p, n)
        BY <2>0, <2>3, <3>2, <4>5 DEF Alike, Reached
      <4>7. p = Root => n < FileAt(V(a.s), Root).f_size
        BY <1>2, <2>3, <3>3 DEF Leads, Kept, NamesKept, Below
      <4>8. Leads(a.s, t, p) /\ Num(V(t), p, n) = a.v /\ Reached(t, p, n)
        BY <3>2, <3>5, <4>1, <4>4, <4>6, <4>7, ClaimNumber
      <4>9. Leads(s, t, p)
        BY <1>2, <3>3, <4>8, LeadsTrans
      <4>10. a.v # 0
        BY <3>2, <3>5 DEF Spare
      <4> QED BY <2>0, <2>3, <4>3, <4>8, <4>9, <4>10 DEF Codes
    <3> QED BY <3>4, <3>5
  <2> QED BY <2>1, <2>2, <2>3
<1> QED BY <1>4, <1>5

(* Two blocks are written in either order.                                 *)
LEMMA PokeFields ==
    ASSUME NEW s \in State, NEW b \in Block, NEW c \in Stuff, NEW t, t = Poke(s, b, c)
    PROVE  /\ t \in State /\ t.disk = s.disk /\ t.mapped = s.mapped /\ t.halt = s.halt
           /\ t.dirty = s.dirty \cup {b} /\ t.mem = [s.mem EXCEPT ![b] = c]
  BY DEF Poke, State

(* States are equal when their fields are.                                 *)
LEMMA StateEqual ==
    ASSUME NEW s \in State, NEW t \in State, t.disk = s.disk, t.mem = s.mem, t.mapped = s.mapped,
           t.dirty = s.dirty, t.halt = s.halt
    PROVE  t = s
  BY DEF State

(* Writes to two blocks can be swapped.                                    *)
LEMMA PokeSwap ==
    ASSUME NEW s \in State, NEW a \in Block, NEW b \in Block, a # b, NEW c \in Stuff, NEW d \in Stuff
    PROVE  /\ Poke(Poke(s, a, c), b, d) = Poke(Poke(s, b, d), a, c)
           /\ Poke(s, a, c).mem[b] = s.mem[b]
<1>1. PICK f \in [Block -> Stuff] : f = s.mem
  BY DEF State
<1>2. PICK t : t = Poke(s, a, c)
  OBVIOUS
<1>3. PICK u : u = Poke(s, b, d)
  OBVIOUS
<1>4. PICK t2 : t2 = Poke(t, b, d)
  OBVIOUS
<1>5. PICK u2 : u2 = Poke(u, a, c)
  OBVIOUS
<1>6. /\ t \in State /\ t.disk = s.disk /\ t.mapped = s.mapped /\ t.halt = s.halt
      /\ t.dirty = s.dirty \cup {a} /\ t.mem = [f EXCEPT ![a] = c]
  BY <1>1, <1>2, PokeFields
<1>7. /\ u \in State /\ u.disk = s.disk /\ u.mapped = s.mapped /\ u.halt = s.halt
      /\ u.dirty = s.dirty \cup {b} /\ u.mem = [f EXCEPT ![b] = d]
  BY <1>1, <1>3, PokeFields
<1>8. /\ t2 \in State /\ t2.disk = t.disk /\ t2.mapped = t.mapped /\ t2.halt = t.halt
      /\ t2.dirty = t.dirty \cup {b} /\ t2.mem = [t.mem EXCEPT ![b] = d]
  <2>1. t \in State /\ b \in Block /\ d \in Stuff
    BY <1>6
  <2> QED BY ONLY <1>4, <2>1, PokeFields
<1>9. /\ u2 \in State /\ u2.disk = u.disk /\ u2.mapped = u.mapped /\ u2.halt = u.halt
      /\ u2.dirty = u.dirty \cup {a} /\ u2.mem = [u.mem EXCEPT ![a] = c]
  <2>1. u \in State /\ a \in Block /\ c \in Stuff
    BY <1>7
  <2> QED BY ONLY <1>5, <2>1, PokeFields
<1>10. [[f EXCEPT ![a] = c] EXCEPT ![b] = d] = [[f EXCEPT ![b] = d] EXCEPT ![a] = c]
  OBVIOUS
<1>11. t2.mem = u2.mem
  BY ONLY <1>6, <1>7, <1>8, <1>9, <1>10
<1>12. (s.dirty \cup {a}) \cup {b} = (s.dirty \cup {b}) \cup {a}
  OBVIOUS
<1>13. t2 = u2
  <2>1. t2 \in State /\ u2 \in State /\ t2.disk = u2.disk /\ t2.mapped = u2.mapped /\ t2.halt = u2.halt
    BY ONLY <1>6, <1>7, <1>8, <1>9
  <2>2. t2.dirty = u2.dirty
    BY ONLY <1>6, <1>7, <1>8, <1>9, <1>12
  <2> QED BY ONLY <1>11, <2>1, <2>2, StateEqual
<1>14. t.mem[b] = s.mem[b]
  BY <1>1, <1>6
<1> QED BY <1>2, <1>3, <1>4, <1>5, <1>13, <1>14

(* What SetNumber writes: one block of memory, from what it holds there.   *)
Entry(s, p, n) == IF n \in Direct THEN p[1] ELSE Num(V(s), p, -1)

NewContent(s, p, n, b) ==
    IF n \in Direct THEN [s.mem[p[1]] EXCEPT !.file[p[2]] = [Node(s, p) EXCEPT !.f_direct[n] = b]]
    ELSE [s.mem[Num(V(s), p, -1)] EXCEPT !.ptr[n] = b]

(* SetNumber as a write to a block.                                        *)
LEMMA SetNumberPokes ==
    ASSUME NEW s, Good(s), NEW p, InMem(s, p), NEW n, Reached(s, p, n), NEW b \in Block
    PROVE  /\ SetNumber(s, p, n, b) = Poke(s, Entry(s, p, n), NewContent(s, p, n, b))
           /\ NewContent(s, p, n, b) \in Stuff /\ Entry(s, p, n) \in s.mapped
<1>1. /\ Node(s, p) \in File /\ p \in Block \X Index /\ Node(s, p).f_indirect = Num(V(s), p, -1)
      /\ s.mapped \subseteq Block /\ s.mem \in [Block -> Stuff]
  BY NodeIs, GoodIs DEF State
<1>2. CASE n \in Direct
  <2>1. PICK f : f = [Node(s, p) EXCEPT !.f_direct[n] = b]
    OBVIOUS
  <2>2. f \in File
    BY <1>1, <1>2, <2>1 DEF File
  <2>3. SetNumber(s, p, n, b) = SetNode(s, p, f)
    BY <1>2, <2>1 DEF SetNumber
  <2>4. PICK c : c = [s.mem[p[1]] EXCEPT !.file[p[2]] = f]
    OBVIOUS
  <2>5. s.mem[p[1]] \in Stuff /\ p[2] \in Index
    BY <1>1
  <2>6. c \in Stuff
    BY <2>2, <2>4, <2>5 DEF Stuff
  <2>7. NewContent(s, p, n, b) = c /\ Entry(s, p, n) = p[1]
    BY <1>2, <2>1, <2>4 DEF NewContent, Entry
  <2>8. SetNode(s, p, f) = Poke(s, p[1], c)
    BY <2>4 DEF SetNode, Poke
  <2> QED BY <2>3, <2>6, <2>7, <2>8 DEF InMem
<1>3. CASE n \notin Direct
  <2>1. PICK i : i = Num(V(s), p, -1)
    OBVIOUS
  <2>2. n \in Indirect /\ i \in s.mapped
    BY <1>3, <2>1 DEF Reached
  <2>4. PICK c : c = [s.mem[i] EXCEPT !.ptr[n] = b]
    OBVIOUS
  <2>5. s.mem[i] \in Stuff
    BY <1>1, <2>2
  <2>6. c \in Stuff
    BY <2>2, <2>4, <2>5 DEF Stuff
  <2>7. NewContent(s, p, n, b) = c /\ Entry(s, p, n) = i
    BY <1>3, <2>1, <2>4 DEF NewContent, Entry
  <2>8. SetNumber(s, p, n, b) = Poke(s, i, c)
    BY <1>1, <1>3, <2>1, <2>4 DEF SetNumber, Poke
  <2> QED BY <2>2, <2>6, <2>7, <2>8
<1> QED BY <1>2, <1>3

(* A number is taken out of a file and its block freed, in either order.   *)
FreedContent(s, b) == [s.mem[2] EXCEPT !.free = s.mem[2].free \cup {b}]

(* free_block as a write to the bitmap.                                    *)
LEMMA FreePokes ==
    ASSUME NEW s, NEW b, b # 0
    PROVE  free_block(s, b) = Poke(s, 2, FreedContent(s, b))
  BY DEF free_block, Poke, FreedContent, BitmapBlock

(* file_clear_block frees a block before it drops its number; the other    *)
(* order ends in the same state, and keeps every step sound.               *)
LEMMA ClearSwap ==
    ASSUME NEW s, Good(s), NEW p, InMem(s, p), p # Root, NEW n, Reached(s, p, n), NEW b \in Block, b # 0
    PROVE  SetNumber(free_block(s, b), p, n, 0) = free_block(SetNumber(s, p, n, 0), b)
<1>0. /\ s \in State /\ Sound(V(s)) /\ p \in AllN(V(s)) /\ V(s) \in [Block -> Stuff]
      /\ 2 \in s.mapped /\ s.mapped \subseteq Block
  BY GoodIs DEF InMem
<1>1. p[1] # 2 /\ p[1] \in Block
  <2>1. p \in DirSet(V(s)) \X Index
    BY <1>0 DEF AllN
  <2> QED BY <1>0, <2>1, DirAbove
<1>2. PICK e : e = Entry(s, p, n)
  OBVIOUS
<1>3. PICK c : c = NewContent(s, p, n, 0)
  OBVIOUS
<1>4. SetNumber(s, p, n, 0) = Poke(s, e, c) /\ c \in Stuff /\ e \in s.mapped
  BY <1>2, <1>3, SetNumberPokes, Layout
<1>5. e # 2 /\ e \in Block
  <2>1. CASE n \in Direct
    BY <1>1, <1>2, <2>1 DEF Entry
  <2>2. CASE n \notin Direct
    <3>1. Num(V(s), p, -1) # 0
      BY <2>2 DEF Reached
    <3>2. Num(V(s), p, -1) > 2 /\ Num(V(s), p, -1) \in Block
      BY <1>0, <3>1, HeldIs, Layout
    <3> QED BY <1>2, <2>2, <3>2 DEF Entry
  <2> QED BY <2>1, <2>2
<1>6. PICK d : d = FreedContent(s, b)
  OBVIOUS
<1>7. d \in Stuff
  <2>1. s.mem[2] \in Stuff
    BY <1>0 DEF State
  <2> QED BY <1>6, <2>1 DEF Stuff, FreedContent
<1>8. PICK t : t = Poke(s, e, c)
  OBVIOUS
<1>9. PICK u : u = Poke(s, 2, d)
  OBVIOUS
<1>10. free_block(s, b) = u
  BY <1>6, <1>9, FreePokes
<1>11. 2 \in Block
  BY Layout
<1>12. t.mem[2] = s.mem[2] /\ u.mem[e] = s.mem[e] /\ Poke(t, 2, d) = Poke(u, e, c)
  BY ONLY <1>0, <1>4, <1>5, <1>7, <1>8, <1>9, <1>11, PokeSwap
<1>13. free_block(t, b) = Poke(t, 2, d)
  BY <1>6, <1>12, FreePokes DEF FreedContent
<1>14. SetNumber(u, p, n, 0) = Poke(u, e, c)
  <2>1. CASE n \in Direct
    <3>1. e = p[1] /\ Node(u, p) = Node(s, p)
      BY <1>2, <1>12, <2>1 DEF Entry, Node
    <3>2. SetNumber(u, p, n, 0) = Poke(u, e, [u.mem[e] EXCEPT !.file[p[2]] = [Node(u, p) EXCEPT !.f_direct[n] = 0]])
      BY <2>1, <3>1 DEF SetNumber, SetNode, Poke
    <3> QED BY <1>3, <1>12, <2>1, <3>1, <3>2 DEF NewContent
  <2>2. CASE n \notin Direct
    <3>1. u.mem[p[1]] = s.mem[p[1]]
      <4>1. u \in State /\ u.mem = [s.mem EXCEPT ![2] = d] /\ s.mem \in [Block -> Stuff]
        BY <1>0, <1>7, <1>9, <1>11, PokeFields, SMTT(30) DEF State
      <4> QED BY <1>1, <4>1
    <3>2. Node(u, p) = Node(s, p) /\ Node(s, p).f_indirect = e
      BY <1>2, <2>2, <3>1, NodeIs DEF Node, Entry
    <3>3. SetNumber(u, p, n, 0) = Poke(u, e, [u.mem[e] EXCEPT !.ptr[n] = 0])
      BY <2>2, <3>2 DEF SetNumber, Poke
    <3> QED BY <1>2, <1>3, <1>12, <2>2, <3>3 DEF NewContent, Entry
  <2> QED BY <2>1, <2>2
<1> QED BY <1>4, <1>8, <1>10, <1>12, <1>13, <1>14

(* file_clear_block changes no other file.                                 *)
LEMMA FileClearBlock ==
    ASSUME NEW s, Good(s), NEW p, InMem(s, p), p # Root, NEW n \in Nat, NEW t, t = file_clear_block(s, p, n)
    PROVE  Leads(s, t, p)
<1>1. PICK w : w = file_block_walk(s, p, n, FALSE)
  OBVIOUS
<1>2. Leads(s, w.s, p) /\ (w.r = "ok" => Reached(w.s, p, n))
  BY <1>1, BlockWalk
<1>3. Good(w.s) /\ InMem(w.s, p)
  BY <1>2, LeadsInMem DEF Leads
<1>4. CASE w.r # "ok" \/ Number(w.s, p, n) = 0
  BY <1>1, <1>2, <1>4 DEF file_clear_block
<1>5. CASE w.r = "ok" /\ Number(w.s, p, n) # 0
  <2>1. PICK b : b = Number(w.s, p, n)
    OBVIOUS
  <2>2. Reached(w.s, p, n) /\ b = Num(V(w.s), p, n) /\ b \in Block /\ b # 0
    BY <1>2, <1>3, <1>5, <2>1, NumberIs
  <2>3. t = SetNumber(free_block(w.s, b), p, n, 0)
    BY <1>1, <1>5, <2>1 DEF file_clear_block
  <2>4. PICK u : u = SetNumber(w.s, p, n, 0)
    OBVIOUS
  <2>5. t = free_block(u, b)
    BY <1>3, <2>2, <2>3, <2>4, ClearSwap
  <2>6. Cached(u) /\ u.mapped = w.s.mapped /\ Renumbered(V(w.s), V(u), p, n, 0)
    BY <1>3, <2>2, <2>4, SetNumberIs, Layout
  <2>7. /\ Sound(V(w.s)) /\ p \in AllN(V(w.s)) /\ n \in Slot \ {-1} /\ Num(V(w.s), p, n) # 0
        /\ n \in Indirect => Num(V(w.s), p, -1) # 0
    BY <1>3, <2>2, Layout DEF Good, InMem, Reached
  <2>8. /\ Sound(V(u)) /\ Spare(V(u), Num(V(w.s), p, n)) /\ DirSet(V(u)) = DirSet(V(w.s))
    BY ONLY <2>6, <2>7, p # Root, SoundRelease
  <2>9. Kept(V(w.s), V(u), p)
    BY ONLY <2>6, <2>7, <2>8, p # Root, KeptRelease
  <2>10. Good(u) /\ Leads(w.s, u, p)
    BY <2>6, <2>8, <2>9 DEF Good, Leads
  <2>11. Good(t) /\ Alike(V(u), V(t)) /\ t.mapped = u.mapped
    BY <2>2, <2>5, <2>8, <2>10, FreeBlock
  <2>12. Leads(u, t, p)
    BY <2>11, LeadsAlike
  <2> QED BY <1>2, <2>10, <2>12, LeadsTrans
<1> QED BY <1>4, <1>5

(* A block of the directory has its f_dir set.                             *)
(* Marking a directory's block only changes f_dir.                         *)
LEMMA InRootIs ==
    ASSUME NEW f \in [Index -> File]
    PROVE  /\ InRoot(f) \in [Index -> File]
           /\ \A i \in Index :
                  /\ InRoot(f)[i].f_name = f[i].f_name /\ InRoot(f)[i].f_size = f[i].f_size
                  /\ InRoot(f)[i].f_direct = f[i].f_direct /\ InRoot(f)[i].f_indirect = f[i].f_indirect
<1>1. \A i \in Index : InRoot(f)[i] = [f[i] EXCEPT !.f_dir = TRUE]
  BY DEF InRoot
<1>2. ASSUME NEW g \in File, NEW h, h = [g EXCEPT !.f_dir = TRUE]
      PROVE  /\ h \in File /\ h.f_name = g.f_name /\ h.f_size = g.f_size
             /\ h.f_direct = g.f_direct /\ h.f_indirect = g.f_indirect
  BY <1>2 DEF File
<1>3. \A i \in Index : [f[i] EXCEPT !.f_dir = TRUE] \in File
  BY <1>2
<1>4. InRoot(f) \in [Index -> File]
  BY <1>3 DEF InRoot
<1> QED BY <1>1, <1>2, <1>4

(* So the files stay as they are.                                          *)
LEMMA MarkedDir ==
    ASSUME NEW s, Good(s), NEW b \in DirSet(V(s)), b \in s.mapped, NEW t,
           t = [s EXCEPT !.mem[b].file = InRoot(@), !.dirty = @ \cup {b}]
    PROVE  Good(t) /\ Alike(V(s), V(t)) /\ t.mapped = s.mapped
<1>1. /\ s.mem[b] = V(s)[b] /\ Cached(s) /\ V(s) \in [Block -> Stuff] /\ b \in Block /\ Sound(V(s))
      /\ b > 2
  BY GoodIs, DirAbove
<1>2. PICK c : c = [s.mem[b] EXCEPT !.file = InRoot(s.mem[b].file)]
  OBVIOUS
<1>3. s.mem[b] \in Stuff /\ s.mem[b].file \in [Index -> File]
  BY <1>1 DEF Stuff
<1>4. c \in Stuff /\ c.file = InRoot(s.mem[b].file) /\ c.ptr = s.mem[b].ptr /\ c.word = s.mem[b].word
  BY <1>2, <1>3, InRootIs DEF Stuff
<1>5. t = Poke(s, b, c)
  BY <1>2 DEF Poke
<1>6. Cached(t) /\ V(t) = [V(s) EXCEPT ![b] = c] /\ t.mapped = s.mapped
  BY ONLY <1>1, <1>4, <1>5, b \in s.mapped, Poked
<1>7. V(t) \in [Block -> Stuff] /\ \A d \in Block : V(t)[d] = IF d = b THEN c ELSE V(s)[d]
  BY <1>1, <1>4, <1>6
<1>8. /\ \A d \in Block : V(t)[d].ptr = V(s)[d].ptr /\ V(t)[d].word = V(s)[d].word
      /\ \A d \in Block : d # b => V(t)[d].file = V(s)[d].file
      /\ V(t)[2] = V(s)[2]
  BY <1>1, <1>4, <1>7, Layout
<1>9. ASSUME NEW q \in Block \X Index
      PROVE  /\ FileAt(V(t), q).f_direct = FileAt(V(s), q).f_direct
             /\ FileAt(V(t), q).f_indirect = FileAt(V(s), q).f_indirect
             /\ FileAt(V(t), q).f_name = FileAt(V(s), q).f_name
             /\ FileAt(V(t), q).f_size = FileAt(V(s), q).f_size
  <2>1. q[1] \in Block /\ q[2] \in Index
    OBVIOUS
  <2>2. CASE q[1] = b
    BY <1>1, <1>3, <1>4, <1>7, <2>1, <2>2, InRootIs DEF FileAt
  <2>3. CASE q[1] # b
    BY <1>8, <2>1, <2>3 DEF FileAt
  <2> QED BY <2>2, <2>3
<1>10. /\ \A p \in Block \X Index, n \in Slot : Num(V(t), p, n) = Num(V(s), p, n)
       /\ DirSet(V(t)) = DirSet(V(s)) /\ AllN(V(t)) = AllN(V(s))
  BY ONLY <1>1, <1>7, <1>8, <1>9, NumSame
<1>11. /\ AllN(V(s)) \subseteq Block \X Index /\ Root \in Block \X Index
       /\ DirSet(V(s)) \X Index \subseteq Block \X Index
  BY <1>1, NodesType
<1>12. Alike(V(s), V(t))
  <2>1. \A p \in AllN(V(s)), n \in Slot : Num(V(s), p, n) \in Block
    BY <1>1, <1>11, NumType
  <2> QED BY <1>8, <1>9, <1>10, <1>11, <2>1 DEF Alike
<1>13. /\ FileAt(V(s), Root).f_name = RootName /\ {0, 1, 2} \cap V(s)[2].free = {}
       /\ Held(V(s)) /\ RootBelow(V(s)) /\ NamesOnce(V(s))
  BY <1>1 DEF Sound
<1>14. RootBelow(V(t))
  BY <1>9, <1>10, <1>11, <1>13 DEF RootBelow
<1>15. NamesOnce(V(t))
  BY <1>9, <1>10, <1>11, <1>13 DEF NamesOnce
<1>16. /\ FileAt(V(t), Root).f_name = RootName /\ {0, 1, 2} \cap V(t)[2].free = {}
       /\ \A p \in AllN(V(s)), n \in Slot : Num(V(s), p, n) # 0 => Num(V(s), p, n) \notin V(t)[2].free
       /\ \A p \in AllN(V(s)), n \in Slot : Num(V(t), p, n) = Num(V(s), p, n)
  BY <1>8, <1>9, <1>10, <1>11, <1>13 DEF Held
<1>17. \A d \in Block : d \notin {0, 1} /\ d \notin DirSet(V(s)) => V(t)[d].file = V(s)[d].file
  BY <1>8
<1>18. Sound(V(t))
  BY ONLY <1>1, <1>7, <1>8, <1>10, <1>14, <1>15, <1>16, <1>17, SoundStays
<1> QED BY <1>6, <1>12, <1>18 DEF Good

GotBlock(x, p, n) ==
    x.r = "ok" => n \in Direct \cup Indirect /\ x.v = Num(V(x.s), p, n) /\ x.v # 0 /\ x.v \in x.s.mapped

(* file_get_block gives the file's block in memory, or fails and leaves    *)
(* the other files as they were.                                           *)
LEMMA FileGetBlock ==
    ASSUME NEW s, Good(s), NEW p, InMem(s, p), NEW n \in Nat, Below(s, p, n), NEW x, x = file_get_block(s, p, n)
    PROVE  /\ Leads(s, x.s, p) /\ x.r \in Codes /\ x.r # "E_NOT_FOUND"
           /\ GotBlock(x, p, n) /\ OutOfRange(s, x, n)
<1> SUFFICES /\ Leads(s, x.s, p) /\ x.r \in Codes /\ x.r # "E_NOT_FOUND"
             /\ x.r = "ok" => /\ n \in Direct \cup Indirect /\ x.v = Num(V(x.s), p, n) /\ x.v # 0
                              /\ x.v \in x.s.mapped
             /\ n \notin Direct \cup Indirect => x.s = s /\ x.r = "E_INVAL"
  BY DEF GotBlock, OutOfRange
<1>1. PICK m : m = file_map_block(s, p, n, TRUE)
  OBVIOUS
<1>2. /\ Leads(s, m.s, p) /\ m.r \in Codes /\ m.r # "E_NOT_FOUND"
      /\ m.r = "ok" => Reached(m.s, p, n) /\ m.v = Num(V(m.s), p, n) /\ m.v # 0
      /\ n \notin Direct \cup Indirect => m.s = s /\ m.r = "E_INVAL"
  <2>1. Leads(s, m.s, p) /\ m.r \in Codes /\ m.r # "E_NOT_FOUND" /\ GotNumber(m, p, n) /\ OutOfRange(s, m, n)
    BY <1>1, FileMapBlock
  <2> QED BY <2>1 DEF GotNumber, OutOfRange
<1>3. Good(m.s) /\ InMem(m.s, p)
  BY <1>2, LeadsInMem DEF Leads
<1>4. CASE m.r # "ok"
  <2>1. x = m
    BY <1>1, <1>4 DEF file_get_block, Then
  <2> QED BY <1>2, <1>4, <2>1
<1>5. CASE m.r = "ok"
  <2>0. /\ n \in Direct \cup Indirect /\ n \in Slot /\ n # -1 /\ p \in AllN(V(m.s))
        /\ m.v = Num(V(m.s), p, n) /\ m.v # 0
    BY <1>2, <1>3, <1>5, Layout DEF Reached, InMem
  <2>1. m.v \in Block /\ m.v \notin V(m.s)[2].free
    BY <1>3, <2>0, HeldIs
  <2>2. PICK rd : rd = read_block(m.s, m.v)
    OBVIOUS
  <2>3. /\ Good(rd.s) /\ V(rd.s) = V(m.s) /\ m.s.mapped \subseteq rd.s.mapped
        /\ rd.r \in {"ok", "E_NO_MEM"}
        /\ rd.r = "ok" => m.v \in rd.s.mapped
    BY <1>3, <2>1, <2>2, ReadBlock
  <2>4. Leads(s, rd.s, p)
    BY <1>2, <2>3, LeadsSame, LeadsTrans
  <2>5. CASE rd.r # "ok"
    <3>1. x = rd
      BY <1>1, <1>5, <2>2, <2>5 DEF file_get_block, Then
    <3> QED BY <2>0, <2>3, <2>4, <2>5, <3>1 DEF Codes
  <2>6. CASE rd.r = "ok"
    <3>1. PICK t : t = IF p = Root /\ rd.v
                       THEN [rd.s EXCEPT !.mem[m.v].file = InRoot(@), !.dirty = @ \cup {m.v}] ELSE rd.s
      OBVIOUS
    <3>2. Good(t) /\ Alike(V(rd.s), V(t)) /\ t.mapped = rd.s.mapped
      <4>1. CASE p = Root /\ rd.v
        <5>1. m.v \in DirSet(V(rd.s))
          BY <2>0, <2>3, <4>1 DEF DirSet
        <5>2. t = [rd.s EXCEPT !.mem[m.v].file = InRoot(@), !.dirty = @ \cup {m.v}]
          BY <3>1, <4>1
        <5> QED BY <2>3, <2>6, <5>1, <5>2, MarkedDir
      <4>2. CASE ~ (p = Root /\ rd.v)
        BY <2>3, <3>1, <4>2 DEF Alike
      <4> QED BY <4>1, <4>2
    <3>3. Leads(rd.s, t, p)
      BY <3>2, LeadsAlike
    <3>4. Leads(s, t, p)
      BY <2>4, <3>3, LeadsTrans
    <3>5. Num(V(t), p, n) = m.v
      BY <2>0, <2>3, <3>2 DEF Alike
    <3>6. x = IF p = Root /\ ~ IsFiles(t.mem[m.v]) THEN Garbage(t) ELSE Ok(t, m.v)
      BY <1>1, <1>5, <2>2, <2>6, <3>1 DEF file_get_block, Then
    <3>7. CASE p = Root /\ ~ IsFiles(t.mem[m.v])
      <4>1. x.s = Garbage(t).s /\ x.r = "garbage"
        BY <3>6, <3>7 DEF Garbage, Fail
      <4>2. Cached(x.s) /\ V(x.s) = V(t) /\ x.s.mapped = t.mapped
        BY <3>2, <4>1, Halted DEF Good
      <4>3. Good(x.s)
        BY <3>2, <4>2 DEF Good
      <4>4. Leads(t, x.s, p)
        BY <4>2, <4>3, LeadsSame
      <4>5. Leads(s, x.s, p)
        BY <3>4, <4>4, LeadsTrans
      <4> QED BY <2>0, <4>1, <4>5 DEF Codes
    <3>8. CASE ~ (p = Root /\ ~ IsFiles(t.mem[m.v]))
      <4>1. x.s = t /\ x.r = "ok" /\ x.v = m.v
        BY <3>6, <3>8 DEF Ok
      <4> QED BY <2>0, <2>3, <2>6, <3>2, <3>4, <3>5, <4>1 DEF Codes
    <3> QED BY <3>7, <3>8
  <2> QED BY <2>5, <2>6
<1> QED BY <1>4, <1>5

(* file_dirty changes no other file.                                       *)
LEMMA FileDirty ==
    ASSUME NEW s, Good(s), NEW p, InMem(s, p), NEW n \in Nat, p # Root, NEW x, x = file_dirty(s, p, n)
    PROVE  Leads(s, x.s, p)
<1>1. PICK g : g = file_get_block(s, p, n)
  OBVIOUS
<1>2. Leads(s, g.s, p) /\ (g.r = "ok" => g.v \in g.s.mapped)
  BY <1>1, FileGetBlock DEF Below, GotBlock
<1>3. CASE g.r # "ok"
  BY <1>1, <1>2, <1>3 DEF file_dirty, Then
<1>4. CASE g.r = "ok"
  <2>1. PICK t : t = [g.s EXCEPT !.dirty = @ \cup {g.v}]
    OBVIOUS
  <2>2. x.s = t
    BY <1>1, <1>4, <2>1 DEF file_dirty, Then, Ok
  <2>3. Cached(g.s) /\ Sound(V(g.s)) /\ g.v \in g.s.mapped
    BY <1>2, <1>4 DEF Leads, Good
  <2>4. Cached(t) /\ V(t) = V(g.s) /\ t.mapped = g.s.mapped
    BY <2>1, <2>3, Touched
  <2>5. Leads(g.s, t, p)
    BY <2>3, <2>4, LeadsSame DEF Good
  <2> QED BY <1>2, <2>2, <2>5, LeadsTrans
<1> QED BY <1>3, <1>4

----------------------------------------------------------------------------
(* Loops.                                                                  *)

(* Induction up to n.                                                      *)
Closed(n, K) == \A k \in 0 .. n - 1 : k \in K => k + 1 \in K

(* What holds of 0, and of k + 1 when it holds of k, holds up to n: the    *)
(* least counterexample is taken.                                          *)
LEMMA UpTo ==
    ASSUME NEW n \in Nat, NEW K, 0 \in K, Closed(n, K)
    PROVE  \A k \in 0 .. n : k \in K
<1>1. PICK S : S = {k \in 0 .. n : k \notin K}
  OBVIOUS
<1>2. SUFFICES ASSUME S # {} PROVE FALSE
  BY <1>1
<1>3. PICK x \in S : \A y \in S : x <= y
  <2>1. S \in SUBSET Nat
    BY <1>1
  <2> QED BY <1>2, <2>1, Smallest
<1>4. x \in 0 .. n /\ x \notin K /\ x # 0
  BY <1>1
<1>5. x - 1 \in 0 .. n - 1 /\ x - 1 \notin S /\ x - 1 + 1 = x
  BY <1>3, <1>4
<1>6. x - 1 \in K
  BY <1>1, <1>5
<1> QED BY <1>4, <1>5, <1>6 DEF Closed

(* There are values for a loop to go through, when round k takes y to      *)
(* G[k][y].                                                                *)
Rounds(n, x, G, h) == h = [k \in 0 .. n |-> IF k = 0 THEN x ELSE G[k - 1][h[k - 1]]]

(* The values of a loop's variable, round by round, for rounds that are    *)
(* functions on sets.                                                      *)
LEMMA LoopExists ==
    ASSUME NEW n \in Nat, NEW x, NEW G
    PROVE  \E h : Rounds(n, x, G, h)
<1>1. PICK K : K = {j \in 0 .. n : \E h : Rounds(j, x, G, h)}
  OBVIOUS
<1>2. 0 \in K
  <2>1. PICK h : h = [k \in 0 .. 0 |-> x]
    OBVIOUS
  <2>2. Rounds(0, x, G, h)
    BY <2>1 DEF Rounds
  <2> QED BY <1>1, <2>2
<1>3. ASSUME NEW i \in 0 .. n - 1, i \in K
      PROVE  i + 1 \in K
  <2>1. PICK j \in 0 .. n : j = i + 1 /\ j # 0 /\ i = j - 1
    OBVIOUS
  <2>2. PICK g : Rounds(i, x, G, g)
    BY <1>1, <1>3
  <2>3. PICK h : h = [k \in 0 .. j |-> IF k = j THEN G[i][g[i]] ELSE g[k]]
    OBVIOUS
  <2>4. \A k \in 0 .. i : h[k] = g[k] /\ g[k] = IF k = 0 THEN x ELSE G[k - 1][g[k - 1]]
    BY <2>1, <2>2, <2>3 DEF Rounds
  <2>5. \A k \in 0 .. j : h[k] = IF k = 0 THEN x ELSE G[k - 1][h[k - 1]]
    BY <2>1, <2>3, <2>4
  <2>6. PICK e : e = [k \in 0 .. j |-> IF k = 0 THEN x ELSE G[k - 1][h[k - 1]]]
    OBVIOUS
  <2>7. h = e
    BY <2>3, <2>5, <2>6
  <2>8. Rounds(j, x, G, h)
    BY <2>6, <2>7 DEF Rounds
  <2> QED BY <1>1, <2>1, <2>8
<1>4. \A k \in 0 .. n : k \in K
  BY <1>2, <1>3, UpTo DEF Closed
<1> QED BY <1>1, <1>4

(* Round k takes a value of T[k] to one of T[k + 1]: what follows the      *)
(* rounds from one of T[0] stays there.                                    *)
Takes(n, T, G) == \A k \in 0 .. n - 1 : G[k] \in [T[k] -> T[k + 1]]
Follows(n, x, T, G, h) == h[0] = x /\ \A k \in 0 .. n - 1 : h[k] \in T[k] => h[k + 1] = G[k][h[k]]
Within(n, T, h) == \A k \in 0 .. n : h[k] \in T[k]

(* They stay in the sets the rounds lead to.                               *)
LEMMA RoundsStay ==
    ASSUME NEW n \in Nat, NEW T, NEW x, x \in T[0], NEW G, Takes(n, T, G), NEW h, Follows(n, x, T, G, h)
    PROVE  Within(n, T, h)
<1>1. h[0] \in T[0]
  BY DEF Follows
<1>2. ASSUME NEW k \in 0 .. n - 1, h[k] \in T[k]
      PROVE  h[k + 1] \in T[k + 1]
  BY <1>2 DEF Takes, Follows
<1>3. PICK K : K = {k \in 0 .. n : h[k] \in T[k]}
  OBVIOUS
<1>4. 0 \in K /\ Closed(n, K)
  BY <1>1, <1>2, <1>3 DEF Closed
<1>5. \A k \in 0 .. n : k \in K
  BY <1>4, UpTo
<1> QED BY <1>3, <1>5 DEF Within

(* Both together.                                                          *)
LEMMA RoundsThere ==
    ASSUME NEW n \in Nat, NEW T, NEW x, x \in T[0], NEW G, Takes(n, T, G)
    PROVE  \E h : Rounds(n, x, G, h) /\ Within(n, T, h)
<1>1. PICK h : Rounds(n, x, G, h)
  BY LoopExists
<1>2. h[0] = x
  BY <1>1 DEF Rounds
<1>3. ASSUME NEW k \in 0 .. n - 1
      PROVE  h[k + 1] = G[k][h[k]]
  <2>1. k + 1 \in 0 .. n /\ k + 1 # 0 /\ k + 1 - 1 = k
    OBVIOUS
  <2> QED BY <1>1, <2>1 DEF Rounds
<1>4. Follows(n, x, T, G, h)
  BY <1>2, <1>3 DEF Follows
<1> QED BY <1>1, <1>4, RoundsStay

(* A block that is dirty is written back: what there is stays.             *)
Copied(s, t) == Cached(t) /\ V(t) = V(s) /\ t.mapped = s.mapped /\ t.halt = s.halt

(* One round of fs_sync leaves what the server sees.                       *)
LEMMA SyncBlockIs ==
    ASSUME NEW s, Cached(s), NEW b, NEW t, t = SyncBlock(s, b)
    PROVE  Copied(s, t)
<1>1. CASE block_is_dirty(s, b)
  <2>1. b \in s.mapped /\ t = write_block(s, b)
    BY <1>1 DEF block_is_dirty, SyncBlock
  <2> QED BY <2>1, WriteBlock DEF Copied
<1>2. CASE ~ block_is_dirty(s, b)
  BY <1>2 DEF SyncBlock, Copied
<1> QED BY <1>1, <1>2

(* fs_sync leaves what the server sees.                                    *)
LEMMA FsSync ==
    ASSUME NEW s, Cached(s), NEW t, t = fs_sync(s)
    PROVE  Copied(s, t)
<1>1. PICK S : S = {y \in State : Copied(s, y)}
  OBVIOUS
<1>2. NBlock \in Nat /\ s \in S
  BY <1>1, LayoutAssumption DEF Copied, Cached
<1>3. ASSUME NEW y \in S, NEW b
      PROVE  SyncBlock(y, b) \in S
  <2>1. PICK z : z = SyncBlock(y, b)
    OBVIOUS
  <2>2. Copied(y, z)
    BY <1>1, <2>1, SyncBlockIs DEF Copied
  <2> QED BY <1>1, <2>1, <2>2 DEF Copied, Cached
<1>4. PICK G : G = [b \in 0 .. NBlock - 1 |-> [y \in S |-> SyncBlock(y, b)]]
  OBVIOUS
<1>5. PICK T : T = [k \in 0 .. NBlock |-> S]
  OBVIOUS
<1>6. Takes(NBlock, T, G) /\ s \in T[0]
  BY <1>2, <1>3, <1>4, <1>5 DEF Takes
<1>7. PICK g : Rounds(NBlock, s, G, g) /\ Within(NBlock, T, g)
  BY <1>2, <1>6, RoundsThere
<1>8. g = [k \in 0 .. NBlock |-> IF k = 0 THEN s ELSE SyncBlock(g[k - 1], k - 1)]
  <2>1. \A k \in 0 .. NBlock : k # 0 => G[k - 1][g[k - 1]] = SyncBlock(g[k - 1], k - 1)
    BY <1>2, <1>4, <1>5, <1>7 DEF Within
  <2> QED BY <1>7, <2>1 DEF Rounds
<1>9. PICK h : /\ h = [k \in 0 .. NBlock |-> IF k = 0 THEN s ELSE SyncBlock(h[k - 1], k - 1)]
               /\ t = h[NBlock]
  BY <1>8 DEF fs_sync, Loop
<1>10. Follows(NBlock, s, T, G, h)
  <2>1. ASSUME NEW k \in 0 .. NBlock - 1, h[k] \in S
        PROVE  h[k + 1] = G[k][h[k]]
    <3>1. PICK j \in 0 .. NBlock : j = k + 1 /\ j # 0 /\ j - 1 = k
      BY <1>2
    <3>2. h[j] = SyncBlock(h[j - 1], j - 1)
      BY <1>9, <3>1
    <3>3. G[k][h[k]] = SyncBlock(h[k], k)
      BY <1>4, <2>1
    <3>4. h[j] = h[k + 1] /\ SyncBlock(h[j - 1], j - 1) = SyncBlock(h[k], k)
      BY <3>1, Zenon
    <3> QED BY <3>2, <3>3, <3>4, Zenon
  <2>2. \A k \in 0 .. NBlock - 1 : T[k] = S
    BY <1>2, <1>5
  <2>3. h[0] = s
    BY <1>2, <1>9
  <2> QED BY <2>1, <2>2, <2>3, Zenon DEF Follows
<1>11. h[NBlock] \in S
  BY <1>2, <1>5, <1>6, <1>10, RoundsStay DEF Within
<1> QED BY <1>1, <1>9, <1>11

(* A flush reads what has numbers and writes what is dirty.                *)
Flushed(s, t) == Good(t) /\ V(t) = V(s) /\ s.mapped \subseteq t.mapped

FlushRound(n, x, p, h) == h = [k \in 0 .. n |-> IF k = 0 THEN x ELSE FlushBlock(h[k - 1], k - 1, p)]

(* The rounds of file_flush.                                               *)
LEMMA FlushRounds ==
    ASSUME NEW n \in Nat, NEW x, NEW p
    PROVE  \E h : FlushRound(n, x, p, h)
<1>1. PICK K : K = {j \in 0 .. n : \E h : FlushRound(j, x, p, h)}
  OBVIOUS
<1>2. 0 \in K
  <2>1. PICK h : h = [k \in 0 .. 0 |-> x]
    OBVIOUS
  <2>2. FlushRound(0, x, p, h)
    BY <2>1 DEF FlushRound
  <2> QED BY <1>1, <2>2
<1>3. ASSUME NEW i \in 0 .. n - 1, i \in K
      PROVE  i + 1 \in K
  <2>1. PICK j \in 0 .. n : j = i + 1 /\ j # 0 /\ i = j - 1
    OBVIOUS
  <2>2. PICK g : FlushRound(i, x, p, g)
    BY <1>1, <1>3
  <2>3. PICK h : h = [k \in 0 .. j |-> IF k = j THEN FlushBlock(g[i], i, p) ELSE g[k]]
    OBVIOUS
  <2>4. \A k \in 0 .. i : h[k] = g[k] /\ g[k] = IF k = 0 THEN x ELSE FlushBlock(g[k - 1], k - 1, p)
    BY <2>1, <2>2, <2>3 DEF FlushRound
  <2>5. \A k \in 0 .. j : h[k] = IF k = 0 THEN x ELSE FlushBlock(h[k - 1], k - 1, p)
    BY <2>1, <2>3, <2>4
  <2>6. PICK e : e = [k \in 0 .. j |-> IF k = 0 THEN x ELSE FlushBlock(h[k - 1], k - 1, p)]
    OBVIOUS
  <2>7. h = e
    BY <2>3, <2>5, <2>6
  <2>8. FlushRound(j, x, p, h)
    BY <2>6, <2>7 DEF FlushRound
  <2> QED BY <1>1, <2>1, <2>8
<1>4. \A k \in 0 .. n : k \in K
  BY <1>2, <1>3, UpTo DEF Closed
<1> QED BY <1>1, <1>4

(* One round of file_flush leaves what the server sees.                    *)
LEMMA FlushBlockIs ==
    ASSUME NEW s, Good(s), NEW p, InMem(s, p), NEW n \in Nat, Below(s, p, n),
           NEW x, x.s = s, NEW y, y = FlushBlock(x, n, p)
    PROVE  Flushed(s, y.s)
<1>1. CASE x.r # "ok"
  BY <1>1 DEF FlushBlock, Flushed
<1>2. CASE x.r = "ok"
  <2>1. PICK m : m = file_map_block(s, p, n, FALSE)
    OBVIOUS
  <2>2. Flushed(s, m.s)
    <3>1. Leads(s, m.s, p) /\ V(m.s) = V(s)
      BY ONLY <2>1, Good(s), InMem(s, p), n \in Nat, Below(s, p, n), FileMapBlock
    <3> QED BY <3>1 DEF Flushed, Leads
  <2>3. CASE m.r # "ok"
    BY <1>2, <2>1, <2>2, <2>3 DEF FlushBlock, Then
  <2>4. CASE m.r = "ok"
    <3>1. PICK t : t = SyncBlock(m.s, m.v)
      OBVIOUS
    <3>2. y.s = t
      BY <1>2, <2>1, <2>4, <3>1 DEF FlushBlock, Then, Ok
    <3>3. Copied(m.s, t)
      BY <2>2, <3>1, SyncBlockIs DEF Flushed, Good
    <3> QED BY <2>2, <3>2, <3>3 DEF Flushed, Copied, Good
  <2> QED BY <2>3, <2>4
<1> QED BY <1>1, <1>2

(* file_flush leaves what the server sees.                                 *)
LEMMA FileFlush ==
    ASSUME NEW s, Good(s), NEW p, InMem(s, p), NEW t, t = file_flush(s, p)
    PROVE  Flushed(s, t)
<1>1. PICK n : n = Node(s, p).f_size
  OBVIOUS
<1>2. n \in Nat /\ n = FileAt(V(s), p).f_size
  BY <1>1, NodeIs, LayoutAssumption DEF File
<1>3. PICK x : x = Ok(s, 0)
  OBVIOUS
<1>4. x.s = s
  BY <1>3 DEF Ok
<1>5. \E h : h = [k \in 0 .. n |-> IF k = 0 THEN x ELSE FlushBlock(h[k - 1], k - 1, p)]
  <2>1. PICK h : FlushRound(n, x, p, h)
    BY <1>2, FlushRounds
  <2> QED BY <2>1 DEF FlushRound
<1>6. PICK h : /\ h = [k \in 0 .. n |-> IF k = 0 THEN x ELSE FlushBlock(h[k - 1], k - 1, p)]
               /\ t = h[n].s
  BY <1>1, <1>3, <1>5 DEF file_flush, Loop
<1>7. PICK K : K = {k \in 0 .. n : Flushed(s, h[k].s)}
  OBVIOUS
<1>8. 0 \in K
  BY <1>2, <1>4, <1>6, <1>7 DEF Flushed
<1>9. ASSUME NEW k \in 0 .. n - 1, k \in K
      PROVE  k + 1 \in K
  <2>1. PICK j \in 0 .. n : j = k + 1 /\ j # 0 /\ k = j - 1
    BY <1>2
  <2>2. h[j] = FlushBlock(h[k], k, p)
    BY <1>6, <2>1
  <2>3. PICK y : y = h[k].s
    OBVIOUS
  <2>4. Flushed(s, y)
    BY <1>7, <1>9, <2>3
  <2>5. Good(y) /\ InMem(y, p) /\ k \in Nat /\ Below(y, p, k)
    BY <1>2, <2>4 DEF Flushed, InMem, Below
  <2>6. Flushed(y, h[j].s)
    BY <2>2, <2>3, <2>5, FlushBlockIs
  <2> QED BY <1>7, <2>1, <2>4, <2>6 DEF Flushed
<1>10. n \in K
  BY <1>2, <1>8, <1>9, UpTo DEF Closed
<1> QED BY <1>6, <1>7, <1>10

----------------------------------------------------------------------------
(* The directory.                                                          *)

(* A node gets another name or size, or another f_dir: everybody's blocks  *)
(* stay.                                                                   *)
NodeAt(m, m2, p, f) ==
    /\ DirSet(m2) = DirSet(m) /\ AllN(m2) = AllN(m)
    /\ \A q \in AllN(m), n \in Slot : Num(m2, q, n) = Num(m, q, n)
    /\ \A q \in AllN(m) : FileAt(m2, q) = IF q = p THEN f ELSE FileAt(m, q)
    /\ \A c \in Block : m2[c].word = m[c].word
    /\ m2[2].free = m[2].free

NodeNow(s, t, p, f) == Good(t) /\ t.mapped = s.mapped /\ NodeAt(V(s), V(t), p, f)

(* The name is not that of another node.                                   *)
OwnName(m, p, name) ==
    p \in DirSet(m) \X Index =>
        \A q \in DirSet(m) \X Index : q # p /\ FileAt(m, q).f_name = name => name = NoName

(* A node that gets another name, size or f_dir, of a name no other node   *)
(* has, leaves the medium sound.                                           *)
LEMMA SoundNode ==
    ASSUME NEW m, Sound(m), NEW p \in AllN(m), NEW f \in File,
           f.f_direct = FileAt(m, p).f_direct, f.f_indirect = FileAt(m, p).f_indirect,
           p = Root => f.f_name = RootName /\ f.f_size >= FileAt(m, p).f_size,
           OwnName(m, p, f.f_name), NEW m2, m2 = WithNode(m, p, f)
    PROVE  Sound(m2) /\ NodeAt(m, m2, p, f)
<1>1. /\ p \in Block \X Index /\ m \in [Block -> Stuff] /\ AllN(m) \subseteq Block \X Index
      /\ Root \in Block \X Index /\ Root \in AllN(m) /\ DirSet(m) \X Index \subseteq AllN(m)
  BY NodesType DEF Sound
<1>2. f \in File /\ m2 = WithNode(m, p, f)
  OBVIOUS
<1>3. /\ m2 \in [Block -> Stuff]
      /\ \A q \in Block \X Index : FileAt(m2, q) = IF q = p THEN f ELSE FileAt(m, q)
      /\ \A c \in Block : c # p[1] => m2[c].file = m[c].file
      /\ \A c \in Block : m2[c].ptr = m[c].ptr /\ m2[c].word = m[c].word /\ m2[c].free = m[c].free
  BY ONLY <1>1, <1>2, NodeSet
<1>4. /\ \A q \in Block \X Index :
             /\ FileAt(m2, q).f_direct = FileAt(m, q).f_direct
             /\ FileAt(m2, q).f_indirect = FileAt(m, q).f_indirect
  BY <1>1, <1>3
<1>5. /\ \A q \in Block \X Index, n \in Slot : Num(m2, q, n) = Num(m, q, n)
      /\ DirSet(m2) = DirSet(m) /\ AllN(m2) = AllN(m)
  BY ONLY <1>1, <1>3, <1>4, NumSame
<1>6. /\ FileAt(m, Root).f_name = RootName /\ {0, 1, 2} \cap m[2].free = {}
      /\ Held(m) /\ RootBelow(m) /\ NamesOnce(m)
  BY <1>1 DEF Sound
<1>7. /\ FileAt(m2, Root).f_name = RootName /\ FileAt(m2, Root).f_size >= FileAt(m, Root).f_size
  <2>1. FileAt(m, Root) \in File
    BY <1>1, NumType
  <2>2. FileAt(m, Root).f_size \in Int
    BY <2>1, LayoutAssumption DEF File
  <2> QED BY <1>1, <1>3, <1>6, <2>2
<1>8. RootBelow(m2)
  <2>1. FileAt(m, Root).f_size \in Int /\ FileAt(m2, Root).f_size \in Int
    BY <1>1, <1>3, NumType, LayoutAssumption DEF File
  <2>2. Slot \ {-1} \subseteq Int
    BY Layout
  <2>3. \A n \in Slot \ {-1} : Num(m2, Root, n) = Num(m, Root, n)
    BY <1>1, <1>5
  <2> QED BY <1>6, <1>7, <2>1, <2>2, <2>3 DEF RootBelow
<1>9. NamesOnce(m2)
  <2> SUFFICES ASSUME NEW q \in DirSet(m) \X Index, NEW r \in DirSet(m) \X Index, q # r,
                      FileAt(m2, q).f_name = FileAt(m2, r).f_name
               PROVE  FileAt(m2, q).f_name = NoName
    BY <1>5 DEF NamesOnce
  <2>1. q \in Block \X Index /\ r \in Block \X Index
    BY <1>1
  <2>2. CASE q = p
    <3>1. FileAt(m2, q).f_name = f.f_name /\ FileAt(m, r).f_name = f.f_name
      BY <1>3, <2>1, <2>2
    <3> QED BY ONLY <2>2, <3>1, OwnName(m, p, f.f_name), q \in DirSet(m) \X Index,
              r \in DirSet(m) \X Index, q # r DEF OwnName
  <2>3. CASE r = p
    <3>1. FileAt(m2, q).f_name = f.f_name /\ FileAt(m, q).f_name = f.f_name
      BY <1>3, <2>1, <2>3
    <3> QED BY ONLY <2>3, <3>1, OwnName(m, p, f.f_name), q \in DirSet(m) \X Index,
              r \in DirSet(m) \X Index, q # r DEF OwnName
  <2>4. CASE q # p /\ r # p
    BY <1>3, <1>6, <2>1, <2>4 DEF NamesOnce
  <2> QED BY <2>2, <2>3, <2>4
<1>10. /\ \A q \in AllN(m), n \in Slot : Num(m2, q, n) = Num(m, q, n)
       /\ {0, 1, 2} \cap m2[2].free = {}
       /\ \A q \in AllN(m), n \in Slot : Num(m, q, n) # 0 => Num(m, q, n) \notin m2[2].free
       /\ \A b \in Block : m2[b].ptr = m[b].ptr
       /\ m2[2].free = m[2].free
  BY <1>1, <1>3, <1>5, <1>6, Layout DEF Held
<1>11. \A b \in Block : b \notin {0, 1} /\ b \notin DirSet(m) => m2[b].file = m[b].file
  <2>1. p[1] = 1 \/ p[1] \in DirSet(m)
    BY <1>1 DEF AllN, Root, SuperBlock
  <2> QED BY <1>3, <2>1
<1>12. Sound(m2)
  <2>1. Sound(m)
    OBVIOUS
  <2> QED BY ONLY <1>1, <1>3, <1>5, <1>7, <1>8, <1>9, <1>10, <1>11, <2>1, SoundStays
<1>13. \A q \in AllN(m) : FileAt(m2, q) = IF q = p THEN f ELSE FileAt(m, q)
  BY <1>1, <1>3
<1> QED BY <1>3, <1>5, <1>10, <1>12, <1>13 DEF NodeAt

(* The same in the server's memory.                                        *)
LEMMA SetAttributes ==
    ASSUME NEW s, Good(s), NEW p, InMem(s, p), NEW f \in File,
           f.f_direct = Node(s, p).f_direct, f.f_indirect = Node(s, p).f_indirect,
           p = Root => f.f_name = RootName /\ f.f_size >= Node(s, p).f_size,
           OwnName(V(s), p, f.f_name), NEW t, t = SetNode(s, p, f)
    PROVE  NodeNow(s, t, p, f)
<1>1. Node(s, p) = FileAt(V(s), p) /\ p \in AllN(V(s)) /\ Sound(V(s))
  BY GoodIs, NodeIs
<1>2. Cached(t) /\ V(t) = WithNode(V(s), p, f) /\ t.mapped = s.mapped
  BY NodePoke
<1>3. /\ f \in File /\ OwnName(V(s), p, f.f_name)
      /\ f.f_direct = FileAt(V(s), p).f_direct /\ f.f_indirect = FileAt(V(s), p).f_indirect
      /\ p = Root => f.f_name = RootName /\ f.f_size >= FileAt(V(s), p).f_size
  BY <1>1
<1>4. Sound(V(t)) /\ NodeAt(V(s), V(t), p, f)
  BY ONLY <1>1, <1>2, <1>3, SoundNode
<1> QED BY <1>2, <1>4 DEF NodeNow, Good

(* Such a change is a change of that node's file only.                     *)
LEMMA NodeNowLoose ==
    ASSUME NEW s, NEW t, NEW p, NEW f, NodeNow(s, t, p, f), Good(s)
    PROVE  /\ Loose(V(s), V(t), p)
           /\ f.f_name = FileAt(V(s), p).f_name /\ f.f_size = FileAt(V(s), p).f_size => Alike(V(s), V(t))
<1>1. /\ DirSet(V(s)) \X Index \subseteq AllN(V(s)) /\ Root \in AllN(V(s))
      /\ \A q \in AllN(V(s)), n \in Slot : Num(V(s), q, n) \in Block
  BY GoodIs, NodesType, NumType
<1>2. /\ DirSet(V(t)) = DirSet(V(s)) /\ AllN(V(t)) = AllN(V(s))
      /\ \A q \in AllN(V(s)), n \in Slot : Num(V(t), q, n) = Num(V(s), q, n)
      /\ \A q \in AllN(V(s)) : FileAt(V(t), q) = IF q = p THEN f ELSE FileAt(V(s), q)
      /\ \A c \in Block : V(t)[c].word = V(s)[c].word
  BY DEF NodeNow, NodeAt
<1>3. Loose(V(s), V(t), p)
  BY <1>1, <1>2 DEF Loose
<1>4. ASSUME f.f_name = FileAt(V(s), p).f_name, f.f_size = FileAt(V(s), p).f_size
      PROVE  Alike(V(s), V(t))
  BY <1>1, <1>2, <1>4 DEF Alike
<1> QED BY <1>3, <1>4

(* A search that does not find the name has looked at every node.          *)
NotIn(m, k, name) ==
    \A i \in 0 .. k - 1 :
        /\ i \in Slot \ {-1} /\ Num(m, Root, i) # 0
        /\ \A j \in Index : FileAt(m, <<Num(m, Root, i), j>>).f_name # name

FoundIn(s, v, name) == v \in DirSet(V(s)) \X Index /\ v[1] \in s.mapped /\ FileAt(V(s), v).f_name = name

Searched(s, k, name, x) ==
    /\ Leads(s, x.s, Root) /\ x.r \in Codes
    /\ x.r = "E_NOT_FOUND" => NotIn(V(x.s), k, name)
    /\ x.r = "ok" => FoundIn(x.s, x.v, name)

(* A name that is in none of the directory's first blocks is not there     *)
(* after a change that keeps names.                                        *)
LEMMA NotInKept ==
    ASSUME NEW m, Sound(m), NEW m2, Kept(m, m2, Root), NEW k, NEW name, NotIn(m, k, name)
    PROVE  NotIn(m2, k, name)
<1>1. ASSUME NEW i \in 0 .. k - 1
      PROVE  /\ i \in Slot \ {-1} /\ Num(m2, Root, i) # 0
             /\ \A j \in Index : FileAt(m2, <<Num(m2, Root, i), j>>).f_name # name
  <2>1. i \in Slot /\ i # -1 /\ Num(m, Root, i) # 0
    BY DEF NotIn
  <2>2. Num(m2, Root, i) = Num(m, Root, i)
    BY <2>1 DEF Kept, Loose
  <2>3. Num(m, Root, i) \in DirSet(m)
    BY <2>1 DEF DirSet
  <2>4. ASSUME NEW j \in Index
        PROVE  FileAt(m2, <<Num(m2, Root, i), j>>).f_name # name
    <3>1. PICK q : q = <<Num(m, Root, i), j>>
      OBVIOUS
    <3>2. q \in DirSet(m) \X Index
      BY <2>3, <3>1
    <3>3. FileAt(m2, q).f_name = FileAt(m, q).f_name
      BY <3>2 DEF Kept, NamesKept
    <3>4. FileAt(m, q).f_name # name
      BY <3>1 DEF NotIn
    <3> QED BY <2>2, <3>1, <3>3, <3>4
  <2> QED BY <2>1, <2>2, <2>4
<1> QED BY <1>1 DEF NotIn

(* One round of dir_lookup: the name is found, or is not in one block      *)
(* more, or the search has failed.                                         *)
LEMMA SearchBlockIs ==
    ASSUME NEW s, Good(s), NEW n \in Nat, Below(s, Root, n), NEW name, NEW x, x.s = s, x.r \in Codes,
           x.r = "E_NOT_FOUND" => NotIn(V(s), n, name),
           x.r = "ok" => FoundIn(s, x.v, name),
           NEW y, y = SearchBlock(x, n, name)
    PROVE  Searched(s, n + 1, name, y)
<1>1. CASE x.r # "E_NOT_FOUND"
  <2>1. y = x
    BY <1>1 DEF SearchBlock
  <2>2. Leads(s, y.s, Root)
    BY <2>1, LeadsSame
  <2> QED BY <1>1, <2>1, <2>2 DEF Searched
<1>2. CASE x.r = "E_NOT_FOUND"
  <2>1. PICK g : g = file_get_block(s, Root, n)
    OBVIOUS
  <2>2. InMem(s, Root)
    BY GoodIs, NodesType DEF InMem, Root, SuperBlock
  <2>3. Leads(s, g.s, Root) /\ g.r \in Codes /\ g.r # "E_NOT_FOUND" /\ GotBlock(g, Root, n)
    BY <2>1, <2>2, FileGetBlock
  <2>4. CASE g.r # "ok"
    <3>1. y = g
      BY <1>2, <2>1, <2>4 DEF SearchBlock, Then
    <3> QED BY <2>3, <2>4, <3>1 DEF Searched
  <2>5. CASE g.r = "ok"
    <3>1. /\ n \in Slot \ {-1} /\ g.v = Num(V(g.s), Root, n) /\ g.v # 0 /\ g.v \in g.s.mapped
          /\ g.v \in DirSet(V(g.s)) /\ Good(g.s) /\ g.s.mem[g.v] = V(g.s)[g.v]
      <4>1. n \in Slot \ {-1} /\ g.v = Num(V(g.s), Root, n) /\ g.v # 0 /\ g.v \in g.s.mapped
        BY <2>3, <2>5, Layout DEF GotBlock
      <4>2. g.v \in DirSet(V(g.s))
        BY <4>1 DEF DirSet
      <4>3. Good(g.s)
        BY <2>3 DEF Leads
      <4> QED BY <4>1, <4>2, <4>3, GoodIs
    <3>2. \A j \in Index : g.s.mem[g.v].file[j] = FileAt(V(g.s), <<g.v, j>>)
      BY <3>1 DEF FileAt
    <3>3. PICK hit : hit = {j \in Index : g.s.mem[g.v].file[j].f_name = name}
      OBVIOUS
    <3>4. y = IF hit = {} THEN Fail(g.s, "E_NOT_FOUND")
              ELSE Ok(g.s, <<g.v, CHOOSE j \in hit : \A k \in hit : j <= k>>)
      <4>1. y = SearchIn(g, name)
        BY <1>2, <2>1, <2>5 DEF SearchBlock, Then
      <4> QED BY <3>3, <4>1, Zenon DEF SearchIn
    <3>5. CASE hit = {}
      <4>1. y.s = g.s /\ y.r = "E_NOT_FOUND"
        BY <3>4, <3>5 DEF Fail
      <4>2. \A j \in Index : FileAt(V(g.s), <<Num(V(g.s), Root, n), j>>).f_name # name
        BY <3>1, <3>2, <3>3, <3>5
      <4>3. Sound(V(s)) /\ Kept(V(s), V(g.s), Root)
        BY <2>3 DEF Leads, Good
      <4>4. NotIn(V(g.s), n, name)
        BY <1>2, <4>3, NotInKept
      <4>5. NotIn(V(g.s), n + 1, name)
        BY <3>1, <4>2, <4>4 DEF NotIn
      <4> QED BY <2>3, <4>1, <4>5 DEF Searched, Codes
    <3>6. CASE hit # {}
      <4>1. PICK j : j = CHOOSE i \in hit : \A k \in hit : i <= k
        OBVIOUS
      <4>2. \E i \in hit : \A k \in hit : i <= k
        <5>1. hit \in SUBSET Nat
          BY <3>3, LayoutAssumption DEF Index
        <5> QED BY <3>6, <5>1, Smallest
      <4>3. j \in hit
        BY <4>1, <4>2
      <4>4. y.s = g.s /\ y.r = "ok" /\ y.v = <<g.v, j>>
        BY <3>4, <3>6, <4>1 DEF Ok
      <4>5. FoundIn(y.s, y.v, name)
        BY <3>1, <3>2, <3>3, <4>3, <4>4 DEF FoundIn
      <4> QED BY <2>3, <4>4, <4>5 DEF Searched, Codes
    <3> QED BY <3>5, <3>6
  <2> QED BY <2>4, <2>5
<1> QED BY <1>1, <1>2

SearchRound(n, x, name, h) == h = [k \in 0 .. n |-> IF k = 0 THEN x ELSE SearchBlock(h[k - 1], k - 1, name)]

(* The rounds of dir_lookup.                                               *)
LEMMA SearchRounds ==
    ASSUME NEW n \in Nat, NEW x, NEW name
    PROVE  \E h : SearchRound(n, x, name, h)
<1>1. PICK K : K = {j \in 0 .. n : \E h : SearchRound(j, x, name, h)}
  OBVIOUS
<1>2. 0 \in K
  <2>1. PICK h : h = [k \in 0 .. 0 |-> x]
    OBVIOUS
  <2>2. SearchRound(0, x, name, h)
    BY <2>1 DEF SearchRound
  <2> QED BY <1>1, <2>2
<1>3. ASSUME NEW i \in 0 .. n - 1, i \in K
      PROVE  i + 1 \in K
  <2>1. PICK j \in 0 .. n : j = i + 1 /\ j # 0 /\ i = j - 1
    OBVIOUS
  <2>2. PICK g : SearchRound(i, x, name, g)
    BY <1>1, <1>3
  <2>3. PICK h : h = [k \in 0 .. j |-> IF k = j THEN SearchBlock(g[i], i, name) ELSE g[k]]
    OBVIOUS
  <2>4. \A k \in 0 .. i : h[k] = g[k] /\ g[k] = IF k = 0 THEN x ELSE SearchBlock(g[k - 1], k - 1, name)
    BY <2>1, <2>2, <2>3 DEF SearchRound
  <2>5. \A k \in 0 .. j : h[k] = IF k = 0 THEN x ELSE SearchBlock(h[k - 1], k - 1, name)
    BY <2>1, <2>3, <2>4
  <2>6. PICK e : e = [k \in 0 .. j |-> IF k = 0 THEN x ELSE SearchBlock(h[k - 1], k - 1, name)]
    OBVIOUS
  <2>7. h = e
    BY <2>3, <2>5, <2>6
  <2>8. SearchRound(j, x, name, h)
    BY <2>6, <2>7 DEF SearchRound
  <2> QED BY <1>1, <2>1, <2>8
<1>4. \A k \in 0 .. n : k \in K
  BY <1>2, <1>3, UpTo DEF Closed
<1> QED BY <1>1, <1>4

(* dir_lookup says "not found" only when no node of the directory has the  *)
(* name.                                                                   *)
LEMMA SearchIs ==
    ASSUME NEW s, Good(s), NEW name, NEW y, y = Search(s, name)
    PROVE  Searched(s, FileAt(V(s), Root).f_size, name, y)
<1>0. InMem(s, Root)
  BY GoodIs, NodesType DEF InMem, Root, SuperBlock
<1>1. PICK n : n = Node(s, Root).f_size
  OBVIOUS
<1>2. n \in Nat /\ n = FileAt(V(s), Root).f_size
  BY <1>0, <1>1, NodeIs, LayoutAssumption DEF File
<1>3. PICK x : x = Fail(s, "E_NOT_FOUND")
  OBVIOUS
<1>4. x.s = s /\ x.r = "E_NOT_FOUND"
  BY <1>3 DEF Fail
<1>5. \E h : h = [k \in 0 .. n |-> IF k = 0 THEN x ELSE SearchBlock(h[k - 1], k - 1, name)]
  <2>1. PICK h : SearchRound(n, x, name, h)
    BY <1>2, SearchRounds
  <2> QED BY <2>1 DEF SearchRound
<1>6. PICK h : /\ h = [k \in 0 .. n |-> IF k = 0 THEN x ELSE SearchBlock(h[k - 1], k - 1, name)]
               /\ y = h[n]
  BY <1>1, <1>3, <1>5 DEF Search, Loop
<1>7. PICK K : K = {k \in 0 .. n : Searched(s, k, name, h[k])}
  OBVIOUS
<1>8. 0 \in K
  <2>1. h[0] = x
    BY <1>2, <1>6
  <2>2. Leads(s, s, Root)
    BY LeadsSame
  <2>3. NotIn(V(s), 0, name)
    BY DEF NotIn
  <2>4. Searched(s, 0, name, x)
    BY <1>4, <2>2, <2>3 DEF Searched, Codes
  <2> QED BY <1>2, <1>7, <2>1, <2>4
<1>9. ASSUME NEW k \in 0 .. n - 1, k \in K
      PROVE  k + 1 \in K
  <2>1. PICK j \in 0 .. n : j = k + 1 /\ j # 0 /\ k = j - 1
    BY <1>2
  <2>2. PICK z : z = h[k]
    OBVIOUS
  <2>3. Searched(s, k, name, z)
    BY <1>7, <1>9, <2>2
  <2>4. h[j] = SearchBlock(z, k, name)
    BY <1>6, <2>1, <2>2
  <2>5. /\ Leads(s, z.s, Root) /\ Good(z.s) /\ k \in Nat /\ Below(z.s, Root, k) /\ z.r \in Codes
        /\ z.r = "E_NOT_FOUND" => NotIn(V(z.s), k, name)
        /\ z.r = "ok" => FoundIn(z.s, z.v, name)
    BY <1>2, <2>3 DEF Searched, Leads, Kept, NamesKept, Below
  <2>6. PICK u, y2 : u = z.s /\ y2 = h[j]
    OBVIOUS
  <2>7. Searched(u, k + 1, name, y2)
    BY <2>4, <2>5, <2>6, SearchBlockIs
  <2>8. Searched(s, k + 1, name, y2)
    BY <2>5, <2>6, <2>7, LeadsTrans DEF Searched
  <2> QED BY <1>7, <2>1, <2>6, <2>8
<1>10. n \in K
  BY <1>2, <1>8, <1>9, UpTo DEF Closed
<1> QED BY <1>2, <1>6, <1>7, <1>10

(* A search finds a node with the name, or there is none, or it fails.     *)
LEMMA SearchEnds ==
    ASSUME NEW s, Good(s), NEW name, NEW y, y = Search(s, name)
    PROVE  /\ Leads(s, y.s, Root) /\ y.r \in Codes
           /\ y.r = "E_NOT_FOUND" => \A q \in DirSet(V(y.s)) \X Index : FileAt(V(y.s), q).f_name # name
           /\ y.r = "ok" => FoundIn(y.s, y.v, name) /\ InMem(y.s, y.v) /\ y.v # Root
<1>1. PICK n : n = FileAt(V(s), Root).f_size
  OBVIOUS
<1>2. Searched(s, n, name, y)
  BY <1>1, SearchIs
<1>3. Good(y.s) /\ Leads(s, y.s, Root) /\ FileAt(V(y.s), Root).f_size = n
  BY <1>1, <1>2 DEF Searched, Leads, Kept, NamesKept
<1>4. ASSUME y.r = "E_NOT_FOUND", NEW q \in DirSet(V(y.s)) \X Index
      PROVE  FileAt(V(y.s), q).f_name # name
  <2>1. NotIn(V(y.s), n, name)
    BY <1>2, <1>4 DEF Searched
  <2>2. PICK i \in Slot \ {-1} : Num(V(y.s), Root, i) = q[1] /\ q[1] # 0
    BY DEF DirSet
  <2>3. RootBelow(V(y.s))
    BY <1>3 DEF Good, Sound
  <2>4. i < n /\ i \in 0 .. n - 1
    <3>1. i \in Nat /\ i < n
      BY <1>3, <2>2, <2>3, Layout DEF RootBelow
    <3>2. n \in Nat
      BY <1>1, GoodIs, NodesType, NumType, LayoutAssumption DEF File
    <3> QED BY <3>1, <3>2
  <2>5. q = <<q[1], q[2]>> /\ q[2] \in Index
    OBVIOUS
  <2> QED BY <2>1, <2>2, <2>4, <2>5 DEF NotIn
<1>5. ASSUME y.r = "ok"
      PROVE  FoundIn(y.s, y.v, name) /\ InMem(y.s, y.v) /\ y.v # Root
  <2>1. FoundIn(y.s, y.v, name)
    BY <1>2, <1>5 DEF Searched
  <2> QED BY <1>3, <2>1, DirAbove DEF FoundIn, InMem, Good
<1> QED BY <1>2, <1>4, <1>5 DEF Searched

(* A node's own name is no other node's.                                   *)
LEMMA KeepsOwnName ==
    ASSUME NEW s, Good(s), NEW p
    PROVE  OwnName(V(s), p, FileAt(V(s), p).f_name)
  BY DEF OwnName, Good, Sound, NamesOnce

(* The one node with the name, or none.                                    *)
LEMMA DirLookup ==
    ASSUME NEW s, Good(s), NEW name, NEW y, y = dir_lookup(s, name)
    PROVE  /\ Leads(s, y.s, Root) /\ y.r \in Codes
           /\ y.r = "E_NOT_FOUND" => \A q \in DirSet(V(y.s)) \X Index : FileAt(V(y.s), q).f_name # name
           /\ y.r = "ok" => FoundIn(y.s, y.v, name) /\ InMem(y.s, y.v) /\ y.v # Root
<1>1. PICK g : g = Search(s, name)
  OBVIOUS
<1>2. /\ Leads(s, g.s, Root) /\ g.r \in Codes
      /\ g.r = "E_NOT_FOUND" => \A q \in DirSet(V(g.s)) \X Index : FileAt(V(g.s), q).f_name # name
      /\ g.r = "ok" => FoundIn(g.s, g.v, name) /\ InMem(g.s, g.v) /\ g.v # Root
  BY <1>1, SearchEnds
<1>3. CASE g.r # "ok"
  <2>1. y = g
    BY <1>1, <1>3 DEF dir_lookup, Then
  <2> QED BY <1>2, <1>3, <2>1
<1>4. CASE g.r = "ok"
  <2>1. Good(g.s) /\ InMem(g.s, g.v) /\ g.v # Root /\ FoundIn(g.s, g.v, name)
    BY <1>2, <1>4 DEF Leads
  <2>2. Node(g.s, g.v) = FileAt(V(g.s), g.v) /\ Node(g.s, g.v) \in File
    BY <2>1, NodeIs
  <2>3. PICK f : f = [Node(g.s, g.v) EXCEPT !.f_dir = TRUE]
    OBVIOUS
  <2>4. /\ f \in File /\ f.f_name = Node(g.s, g.v).f_name /\ f.f_size = Node(g.s, g.v).f_size
        /\ f.f_direct = Node(g.s, g.v).f_direct /\ f.f_indirect = Node(g.s, g.v).f_indirect
    BY <2>2, <2>3 DEF File
  <2>5. PICK t : t = SetNode(g.s, g.v, f)
    OBVIOUS
  <2>6. OwnName(V(g.s), g.v, f.f_name)
    BY <2>1, <2>2, <2>4, KeepsOwnName
  <2>7. NodeNow(g.s, t, g.v, f)
    BY <2>1, <2>4, <2>5, <2>6, SetAttributes
  <2>8. Alike(V(g.s), V(t)) /\ Good(t) /\ t.mapped = g.s.mapped
    <3>1. Good(t) /\ t.mapped = g.s.mapped
      BY ONLY <2>7 DEF NodeNow
    <3>2. f.f_name = FileAt(V(g.s), g.v).f_name /\ f.f_size = FileAt(V(g.s), g.v).f_size
      BY ONLY <2>2, <2>4
    <3> QED BY ONLY <2>1, <2>7, <3>1, <3>2, NodeNowLoose
  <2>9. y.s = t /\ y.r = "ok" /\ y.v = g.v
    BY <1>1, <1>4, <2>3, <2>5 DEF dir_lookup, Then, Ok
  <2>10. Leads(g.s, t, Root)
    BY <2>8, LeadsAlike
  <2>11. Leads(s, y.s, Root) /\ InMem(y.s, y.v)
    BY <1>2, <2>1, <2>9, <2>10, LeadsTrans, LeadsInMem
  <2>12. FoundIn(y.s, y.v, name)
    <3>1. g.v \in AllN(V(g.s))
      BY <2>1 DEF InMem
    <3> QED BY <2>1, <2>8, <2>9, <3>1 DEF FoundIn, Alike
  <2> QED BY <2>1, <2>9, <2>11, <2>12 DEF Codes
<1> QED BY <1>3, <1>4

(* walk_path gives a node in memory of that name, or fails; when it does   *)
(* not find the last name, no node has it.                                 *)
LEMMA WalkPath ==
    ASSUME NEW s, Good(s), NEW path, NEW y, y = walk_path(s, path)
    PROVE  /\ Leads(s, y.s, Root) /\ y.r \in Codes
           /\ path = <<>> => y.r = "ok"
           /\ y.r = "ok" => InMem(y.s, y.v)
           /\ y.r = "ok" /\ path # <<>> => y.v # Root /\ FoundIn(y.s, y.v, path[1])
           /\ y.r = "E_NOT_FOUND" /\ Len(path) = 1 =>
                  \A q \in DirSet(V(y.s)) \X Index : FileAt(V(y.s), q).f_name # path[1]
<1>1. CASE path = <<>>
  <2>1. y.s = s /\ y.r = "ok" /\ y.v = Root
    BY <1>1 DEF walk_path, Ok
  <2>2. Leads(s, s, Root) /\ InMem(s, Root)
    BY LeadsSame, GoodIs, NodesType DEF InMem, Root, SuperBlock
  <2> QED BY <1>1, <2>1, <2>2 DEF Codes
<1>2. CASE path # <<>>
  <2>1. PICK g : g = dir_lookup(s, path[1])
    OBVIOUS
  <2>2. /\ Leads(s, g.s, Root) /\ g.r \in Codes
        /\ g.r = "E_NOT_FOUND" => \A q \in DirSet(V(g.s)) \X Index : FileAt(V(g.s), q).f_name # path[1]
        /\ g.r = "ok" => FoundIn(g.s, g.v, path[1]) /\ InMem(g.s, g.v) /\ g.v # Root
    BY <2>1, DirLookup
  <2>3. y = IF g.r = "ok" /\ Len(path) > 1 THEN Fail(g.s, "E_NOT_FOUND") ELSE g
    BY <1>2, <2>1 DEF walk_path
  <2>4. CASE g.r = "ok" /\ Len(path) > 1
    <3>1. y.s = g.s /\ y.r = "E_NOT_FOUND"
      BY <2>3, <2>4 DEF Fail
    <3>2. Len(path) # 1
      <4>1. ~ 1 > 1
        OBVIOUS
      <4> QED BY ONLY <2>4, <4>1, Zenon
    <3> QED BY <1>2, <2>2, <3>1, <3>2 DEF Codes
  <2>5. CASE ~ (g.r = "ok" /\ Len(path) > 1)
    BY <1>2, <2>2, <2>3, <2>5
  <2> QED BY <2>4, <2>5
<1> QED BY <1>1, <1>2

(* A change that only the directory takes part in is loose for any node.   *)
LEMMA LooseAny ==
    ASSUME NEW m, Sound(m), NEW m2, Sound(m2), NEW p, Loose(m, m2, Root)
    PROVE  Loose(m, m2, p)
<1>1. /\ \A q \in DirSet(m) \X Index : q # Root
      /\ \A q \in DirSet(m2) \X Index : q # Root
  BY DirAbove
<1> QED BY <1>1 DEF Loose

(* What changes no file is a change of any one file.                       *)
LEMMA LeadsLoose ==
    ASSUME NEW s, NEW t, NEW p, Good(s), Leads(s, t, Root)
    PROVE  Good(t) /\ s.mapped \subseteq t.mapped /\ Loose(V(s), V(t), p) /\ Kept(V(s), V(t), p)
  BY KeptAny DEF Leads, Good, Kept

(* A block that a place of the directory has got was nobody's.             *)
LEMMA NewDirBlock ==
    ASSUME NEW s, Good(s), NEW t, Leads(s, t, Root), NEW n \in Slot \ {-1}, Num(V(s), Root, n) = 0,
           Num(V(t), Root, n) # 0
    PROVE  Num(V(t), Root, n) \notin DirSet(V(s))
<1>1. SUFFICES ASSUME NEW k \in Slot \ {-1}, Num(V(s), Root, k) = Num(V(t), Root, n)
               PROVE  FALSE
  BY DEF DirSet
<1>2. Num(V(t), Root, k) = Num(V(s), Root, k) /\ k # n
  BY <1>1 DEF Leads, Kept, Loose
<1>3. Once(V(t)) /\ Root \in AllN(V(t))
  BY NodesType, GoodIs DEF Leads, Good, Sound
<1> QED BY <1>1, <1>2, <1>3 DEF Once

(* The directory has at most one block more, and a place for a node.       *)
Grown(s, x) ==
    /\ Good(x.s) /\ s.mapped \subseteq x.s.mapped /\ Loose(V(s), V(x.s), Root)
    /\ \A q \in DirSet(V(s)) \X Index : FileAt(V(x.s), q).f_name = FileAt(V(s), q).f_name
    /\ x.r \in Codes
    /\ x.r = "ok" => FoundIn(x.s, x.v, NoName) /\ InMem(x.s, x.v) /\ x.v # Root

TooLong(x) == x.r # "ok" /\ Node(x.s, Root).f_size = NINDIRECT + 1

(* dir_alloc_file, no free entry found: the directory gets one more block  *)
(* of unnamed nodes, or fails as it was.                                   *)
LEMMA GrowDirIs ==
    ASSUME NEW s, Good(s), NEW n, n = FileAt(V(s), Root).f_size, n # NINDIRECT, NEW x, x = GrowDir(s, n)
    PROVE  Grown(s, x)
<1>1. /\ InMem(s, Root) /\ V(s) \in [Block -> Stuff] /\ Root \in AllN(V(s)) /\ Sound(V(s))
      /\ DirSet(V(s)) \X Index \subseteq AllN(V(s))
  BY GoodIs, NodesType DEF InMem, Root, SuperBlock
<1>2. Node(s, Root) = FileAt(V(s), Root) /\ Node(s, Root) \in File
  BY <1>1, NodeIs
<1>3. n \in Nat /\ n + 1 \in 0 .. NINDIRECT
  BY <1>2, LayoutAssumption DEF File
<1>4. PICK f : f = [Node(s, Root) EXCEPT !.f_size = n + 1]
  OBVIOUS
<1>5. /\ f \in File /\ f.f_name = Node(s, Root).f_name /\ f.f_size = n + 1
      /\ f.f_direct = Node(s, Root).f_direct /\ f.f_indirect = Node(s, Root).f_indirect
  BY <1>2, <1>3, <1>4 DEF File
<1>6. PICK t : t = SetNode(s, Root, f)
  OBVIOUS
<1>7. NodeNow(s, t, Root, f)
  <2>1. f.f_name = RootName /\ f.f_size >= Node(s, Root).f_size
    BY <1>1, <1>2, <1>3, <1>5 DEF Sound
  <2>2. OwnName(V(s), Root, f.f_name)
    BY <1>2, <1>5, KeepsOwnName
  <2> QED BY <1>1, <1>5, <1>6, <2>1, <2>2, SetAttributes
<1>8. Loose(V(s), V(t), Root) /\ Good(t) /\ t.mapped = s.mapped
  BY <1>7, NodeNowLoose DEF NodeNow, NodeAt
<1>9. /\ DirSet(V(t)) = DirSet(V(s)) /\ FileAt(V(t), Root).f_size = n + 1 /\ InMem(t, Root)
      /\ \A q \in AllN(V(s)), k \in Slot : Num(V(t), q, k) = Num(V(s), q, k)
      /\ \A q \in DirSet(V(s)) \X Index : FileAt(V(t), q).f_name = FileAt(V(s), q).f_name
  BY <1>1, <1>2, <1>5, <1>7, <1>8 DEF NodeNow, NodeAt, InMem
<1>10. Below(t, Root, n)
  BY <1>3, <1>9 DEF Below
<1>11. PICK g : g = file_get_block(t, Root, n)
  OBVIOUS
<1>12. Leads(t, g.s, Root) /\ g.r \in Codes /\ GotBlock(g, Root, n)
  BY <1>3, <1>8, <1>9, <1>10, <1>11, FileGetBlock
<1>13. /\ Good(g.s) /\ s.mapped \subseteq g.s.mapped /\ Loose(V(s), V(g.s), Root)
       /\ \A q \in DirSet(V(s)) \X Index : FileAt(V(g.s), q).f_name = FileAt(V(s), q).f_name
  <2>1. Loose(V(t), V(g.s), Root) /\ NamesKept(V(t), V(g.s)) /\ Good(g.s) /\ t.mapped \subseteq g.s.mapped
    BY <1>12 DEF Leads, Kept
  <2> QED BY <1>8, <1>9, <2>1, LooseTrans DEF NamesKept
<1>14. CASE g.r # "ok"
  <2>1. x = g
    BY <1>4, <1>6, <1>11, <1>14 DEF GrowDir, Then
  <2> QED BY <1>12, <1>13, <1>14, <2>1 DEF Grown
<1>15. CASE g.r = "ok"
  <2>1. x.s = g.s /\ x.r = "ok" /\ x.v = <<g.v, 0>>
    BY <1>4, <1>6, <1>11, <1>15 DEF GrowDir, Then, Ok
  <2>2. n \in Slot \ {-1} /\ g.v = Num(V(g.s), Root, n) /\ g.v # 0 /\ g.v \in g.s.mapped
    BY <1>12, <1>15, Layout DEF GotBlock
  <2>3. Num(V(t), Root, n) = 0
    <3>1. Num(V(s), Root, n) = 0
      BY <1>1, <1>3, <2>2 DEF Sound, RootBelow
    <3> QED BY <1>1, <1>9, <2>2, <3>1
  <2>4. g.v \notin DirSet(V(t)) /\ g.v \in DirSet(V(g.s))
    BY <1>8, <1>12, <2>2, <2>3, NewDirBlock DEF DirSet
  <2>5. x.v \in DirSet(V(g.s)) \X Index /\ x.v \notin DirSet(V(t)) \X Index /\ x.v[1] = g.v
    BY <2>1, <2>4, Layout
  <2>6. FileAt(V(g.s), x.v).f_name = NoName
    BY <1>12, <2>5 DEF Leads, Kept, NamesKept
  <2>7. FoundIn(x.s, x.v, NoName)
    BY <2>1, <2>2, <2>5, <2>6 DEF FoundIn
  <2>8. InMem(x.s, x.v) /\ x.v # Root
    BY <1>13, <2>1, <2>7, DirAbove DEF FoundIn, InMem, Good
  <2> QED BY <1>13, <2>1, <2>7, <2>8 DEF Grown, Codes
<1> QED BY <1>14, <1>15

(* A directory that is as long as a file can be.                           *)
LEMMA GrowDirOver ==
    ASSUME NEW s, Good(s), NINDIRECT = FileAt(V(s), Root).f_size, NEW x, x = GrowDir(s, NINDIRECT)
    PROVE  TooLong(x)
<1>1. /\ InMem(s, Root) /\ s.mem \in [Block -> Stuff] /\ SuperBlock \in Block /\ 0 \in Index
  BY GoodIs, NodesType, Layout DEF InMem, Root, SuperBlock, State
<1>2. Node(s, Root) \in File
  BY <1>1, NodeIs
<1>3. PICK f : f = [Node(s, Root) EXCEPT !.f_size = NINDIRECT + 1]
  OBVIOUS
<1>4. f.f_size = NINDIRECT + 1
  BY <1>2, <1>3 DEF File
<1>5. PICK t : t = SetNode(s, Root, f)
  OBVIOUS
<1>6. Node(t, Root) = f
  <2>1. PICK c : c = [s.mem[SuperBlock] EXCEPT !.file[0] = f]
    OBVIOUS
  <2>2. s.mem[SuperBlock] \in Stuff
    BY <1>1
  <2>3. c.file[0] = f
    BY <1>1, <2>1, <2>2 DEF Stuff
  <2>4. PICK m : m = [s.mem EXCEPT ![SuperBlock] = c]
    OBVIOUS
  <2>5. m[SuperBlock] = c
    BY <1>1, <2>4
  <2>6. t = [s EXCEPT !.mem = m, !.dirty = @ \cup {SuperBlock}]
    BY <1>5, <2>1, <2>4 DEF SetNode, Root
  <2>7. t.mem = m
    BY <2>6, GoodIs DEF State
  <2> QED BY <2>3, <2>5, <2>7 DEF Node, Root
<1>7. NINDIRECT \notin Direct /\ NINDIRECT \notin Indirect
  BY LayoutAssumption DEF Direct, Indirect
<1>8. PICK e : e = Fail(t, "E_INVAL")
  OBVIOUS
<1>9. e.r # "ok" /\ e.s = t
  BY <1>8 DEF Fail
<1>10. e = file_block_walk(t, Root, NINDIRECT, TRUE)
  BY <1>7, <1>8 DEF file_block_walk
<1>11. e = file_map_block(t, Root, NINDIRECT, TRUE)
  BY <1>9, <1>10 DEF file_map_block, Then
<1>12. e = file_get_block(t, Root, NINDIRECT)
  BY <1>9, <1>11 DEF file_get_block, Then
<1>13. x = e
  BY <1>3, <1>5, <1>9, <1>12 DEF GrowDir, Then
<1> QED BY <1>4, <1>6, <1>9, <1>13 DEF TooLong

(* dir_alloc_file gives a node that has no name and changes no file, or    *)
(* fails and has, at most, made the directory longer.                      *)
LEMMA DirAlloc ==
    ASSUME NEW s, Good(s), NEW x, x = dir_alloc_file(s)
    PROVE  Grown(s, x) \/ TooLong(x)
<1>1. PICK g : g = Search(s, NoName)
  OBVIOUS
<1>2. /\ Leads(s, g.s, Root) /\ g.r \in Codes
      /\ g.r = "ok" => FoundIn(g.s, g.v, NoName) /\ InMem(g.s, g.v) /\ g.v # Root
  BY <1>1, SearchEnds
<1>3. Good(g.s) /\ s.mapped \subseteq g.s.mapped /\ Loose(V(s), V(g.s), Root) /\ NamesKept(V(s), V(g.s))
  BY <1>2 DEF Leads, Kept
<1>4. CASE g.r # "E_NOT_FOUND"
  <2>1. x = g
    BY <1>1, <1>4 DEF dir_alloc_file
  <2> QED BY <1>2, <1>3, <2>1 DEF Grown, NamesKept
<1>5. CASE g.r = "E_NOT_FOUND"
  <2>1. PICK n : n = FileAt(V(g.s), Root).f_size
    OBVIOUS
  <2>2. Node(g.s, Root) = FileAt(V(g.s), Root)
    BY <1>3, NodeIs, GoodIs, NodesType DEF InMem, Root, SuperBlock
  <2>3. x = GrowDir(g.s, n)
    BY <1>1, <1>5, <2>1, <2>2 DEF dir_alloc_file
  <2>4. CASE n = NINDIRECT
    BY <1>3, <2>1, <2>3, <2>4, GrowDirOver
  <2>5. CASE n # NINDIRECT
    <3>1. Grown(g.s, x)
      BY <1>3, <2>1, <2>3, <2>5, GrowDirIs
    <3>2. Loose(V(s), V(x.s), Root)
      BY <1>3, <3>1, LooseTrans DEF Grown
    <3>3. ASSUME NEW q \in DirSet(V(s)) \X Index
          PROVE  FileAt(V(x.s), q).f_name = FileAt(V(s), q).f_name
      <4>1. q \in DirSet(V(g.s)) \X Index
        BY <1>3 DEF Loose
      <4> QED BY <1>3, <3>1, <4>1 DEF NamesKept, Grown
    <3> QED BY <1>3, <3>1, <3>2, <3>3 DEF Grown
  <2> QED BY <2>4, <2>5
<1> QED BY <1>4, <1>5

(* A request about a name: only the node that has it, or gets it, changes. *)
Private(m, m2, name) ==
    \E p : /\ Loose(m, m2, p)
           /\ p \in DirSet(m) \X Index => FileAt(m, p).f_name \in {NoName, name}
           /\ p \in DirSet(m2) \X Index => FileAt(m2, p).f_name \in {NoName, name}

Ends(s, t, name) == Good(t) /\ s.mapped \subseteq t.mapped /\ Private(V(s), V(t), name)

(* What changes no named file is a change of any one name's meaning.       *)
LEMMA LooseEnds ==
    ASSUME NEW s, Good(s), NEW t, Good(t), s.mapped \subseteq t.mapped, Loose(V(s), V(t), Root), NEW name
    PROVE  Ends(s, t, name)
<1>1. Root \notin DirSet(V(s)) \X Index /\ Root \notin DirSet(V(t)) \X Index
  BY DirAbove DEF Good
<1> QED BY <1>1 DEF Ends, Private

(* file_create gives the name to a node only when no node has it, and      *)
(* changes no other name's meaning.                                        *)
LEMMA FileCreate ==
    ASSUME NEW s, Good(s), NEW path, Len(path) = 1 => path[1] \in Name, NEW x, x = file_create(s, path),
           Node(x.s, Root).f_size # NINDIRECT + 1
    PROVE  /\ Ends(s, x.s, path[1])
           /\ x.r = "ok" => InMem(x.s, x.v)
<1>1. PICK w : w = walk_path(s, path)
  OBVIOUS
<1>2. /\ Leads(s, w.s, Root) /\ w.r \in Codes
      /\ path = <<>> => w.r = "ok"
      /\ w.r = "E_NOT_FOUND" /\ Len(path) = 1 =>
             \A q \in DirSet(V(w.s)) \X Index : FileAt(V(w.s), q).f_name # path[1]
  BY <1>1, WalkPath
<1>3. Good(w.s) /\ s.mapped \subseteq w.s.mapped /\ Loose(V(s), V(w.s), Root)
  BY <1>2 DEF Leads, Kept
<1>4. CASE w.r = "ok"
  <2>1. x.s = w.s /\ x.r # "ok"
    BY <1>1, <1>4 DEF file_create, Fail
  <2> QED BY <1>3, <2>1, LooseEnds
<1>5. CASE w.r # "ok" /\ (w.r # "E_NOT_FOUND" \/ Len(path) # 1)
  <2>1. x = w
    BY <1>1, <1>5 DEF file_create
  <2> QED BY <1>3, <1>5, <2>1, LooseEnds
<1>6. CASE w.r = "E_NOT_FOUND" /\ Len(path) = 1
  <2>1. PICK d : d = dir_alloc_file(w.s)
    OBVIOUS
  <2>2. path[1] \in Name /\ path[1] # NoName
    BY <1>2, <1>6, LayoutAssumption
  <2>3. CASE d.r # "ok"
    <3>1. x.s = d.s /\ x.r = w.r
      BY <1>1, <1>6, <2>1, <2>3 DEF file_create, Fail
    <3>2. ~ TooLong(d)
      BY <3>1, LayoutAssumption DEF TooLong
    <3>3. Grown(w.s, d)
      BY <1>3, <2>1, <3>2, DirAlloc
    <3>4. Good(x.s) /\ s.mapped \subseteq x.s.mapped /\ Loose(V(s), V(x.s), Root)
      BY <1>3, <3>1, <3>3, LooseTrans DEF Grown
    <3> QED BY <1>6, <3>1, <3>4, LooseEnds
  <2>4. CASE d.r = "ok"
    <3>1. Grown(w.s, d)
      BY <1>3, <2>1, <2>4, DirAlloc DEF TooLong
    <3>2. Good(d.s) /\ InMem(d.s, d.v) /\ d.v # Root /\ FoundIn(d.s, d.v, NoName)
      BY <2>4, <3>1 DEF Grown
    <3>3. Node(d.s, d.v) = FileAt(V(d.s), d.v) /\ Node(d.s, d.v) \in File
      BY <3>2, NodeIs
    <3>4. PICK f : f = [Node(d.s, d.v) EXCEPT !.f_name = path[1]]
      OBVIOUS
    <3>5. /\ f \in File /\ f.f_name = path[1]
          /\ f.f_direct = Node(d.s, d.v).f_direct /\ f.f_indirect = Node(d.s, d.v).f_indirect
      BY <2>2, <3>3, <3>4 DEF File
    <3>6. PICK t : t = SetNode(d.s, d.v, f)
      OBVIOUS
    <3>7. x.s = t /\ x.r = "ok" /\ x.v = d.v
      BY <1>1, <1>6, <2>1, <2>4, <3>4, <3>6 DEF file_create, Ok
    <3>8. OwnName(V(d.s), d.v, f.f_name)
      <4>1. ASSUME NEW q \in DirSet(V(d.s)) \X Index, FileAt(V(d.s), q).f_name = path[1]
            PROVE  FALSE
        <5>1. CASE q \in DirSet(V(w.s)) \X Index
          BY <1>2, <1>6, <3>1, <4>1, <5>1 DEF Grown
        <5>2. CASE q \notin DirSet(V(w.s)) \X Index
          <6>1. q # Root
            BY <3>2, DirAbove DEF Good
          <6> QED BY <2>2, <3>1, <4>1, <5>2, <6>1 DEF Grown, Loose
        <5> QED BY <5>1, <5>2
      <4> QED BY <3>5, <4>1 DEF OwnName
    <3>9. NodeNow(d.s, t, d.v, f)
      BY <3>2, <3>5, <3>6, <3>8, SetAttributes
    <3>10. Good(t) /\ t.mapped = d.s.mapped /\ Loose(V(d.s), V(t), d.v)
      BY <3>2, <3>9, NodeNowLoose DEF NodeNow, NodeAt
    <3>11. Loose(V(s), V(d.s), Root)
      BY <1>3, <3>1, LooseTrans DEF Grown
    <3>12. Loose(V(s), V(t), d.v)
      BY <3>2, <3>10, <3>11, LooseAny, LooseTrans DEF Good
    <3>13. d.v \in DirSet(V(s)) \X Index => FileAt(V(s), d.v).f_name = NoName
      <4>1. ASSUME d.v \in DirSet(V(s)) \X Index
            PROVE  FileAt(V(s), d.v).f_name = NoName
        <5>1. FileAt(V(d.s), d.v).f_name = FileAt(V(s), d.v).f_name
          BY <3>2, <3>11, <4>1 DEF Loose
        <5> QED BY <3>2, <5>1 DEF FoundIn
      <4> QED BY <4>1
    <3>14. FileAt(V(t), d.v).f_name = path[1]
      BY <3>2, <3>5, <3>9 DEF NodeNow, NodeAt, InMem
    <3>15. Private(V(s), V(t), path[1])
      BY <3>12, <3>13, <3>14 DEF Private
    <3>16. s.mapped \subseteq t.mapped /\ InMem(t, d.v)
      BY <1>3, <3>1, <3>2, <3>9, <3>10 DEF Grown, InMem, NodeNow, NodeAt
    <3> QED BY <3>7, <3>10, <3>15, <3>16 DEF Ends
  <2> QED BY <2>3, <2>4
<1> QED BY <1>4, <1>5, <1>6

----------------------------------------------------------------------------
(* Sizes and removal.                                                      *)

(* A file's node gets another size: no other node changes, and no name.    *)
LEMMA SetSizeIs ==
    ASSUME NEW s, Good(s), NEW p, InMem(s, p), p # Root, NEW size \in 0 .. NINDIRECT, NEW t,
           t = SetNode(s, p, [Node(s, p) EXCEPT !.f_size = size])
    PROVE  Leads(s, t, p)
<1>1. Node(s, p) = FileAt(V(s), p) /\ Node(s, p) \in File /\ p \in AllN(V(s))
  BY NodeIs
<1>2. PICK f : f = [Node(s, p) EXCEPT !.f_size = size]
  OBVIOUS
<1>3. /\ f \in File /\ f.f_name = Node(s, p).f_name
      /\ f.f_direct = Node(s, p).f_direct /\ f.f_indirect = Node(s, p).f_indirect
  BY <1>1, <1>2 DEF File
<1>4. OwnName(V(s), p, f.f_name)
  BY <1>1, <1>3, KeepsOwnName
<1>5. t = SetNode(s, p, f)
  BY <1>2
<1>6. NodeNow(s, t, p, f)
  BY <1>3, <1>4, <1>5, SetAttributes
<1>7. Loose(V(s), V(t), p) /\ Good(t) /\ t.mapped = s.mapped
  BY <1>6, NodeNowLoose DEF NodeNow, NodeAt
<1>8. NamesKept(V(s), V(t))
  <2>1. Root \in AllN(V(s)) /\ DirSet(V(s)) \X Index \subseteq AllN(V(s))
    BY GoodIs, NodesType
  <2> QED BY <1>1, <1>3, <1>6, <2>1 DEF NamesKept, NodeNow, NodeAt
<1> QED BY <1>7, <1>8 DEF Leads, Kept

(* The blocks above the new size are given back one by one.                *)
ClearFrom(n, s, p, size) == Loop(n, LAMBDA t, k : file_clear_block(t, p, size + k), s)

(* The loop of file_truncate changes no other file.                        *)
LEMMA Cleared ==
    ASSUME NEW s, Good(s), NEW p, InMem(s, p), p # Root, NEW n \in Nat, NEW size \in Nat, NEW t,
           t = ClearFrom(n, s, p, size)
    PROVE  Leads(s, t, p)
<1>1. PICK S : S = {y \in State : Leads(s, y, p)}
  OBVIOUS
<1>2. s \in S
  BY <1>1, GoodIs, LeadsSame
<1>3. ASSUME NEW y \in S, NEW k \in Nat
      PROVE  file_clear_block(y, p, size + k) \in S
  <2>1. PICK z : z = file_clear_block(y, p, size + k)
    OBVIOUS
  <2>2. Leads(s, y, p) /\ Good(y) /\ InMem(y, p) /\ size + k \in Nat
    BY <1>1, LeadsInMem DEF Leads
  <2>3. Leads(y, z, p)
    BY <2>1, <2>2, FileClearBlock
  <2>4. Leads(s, z, p) /\ z \in State
    BY <2>2, <2>3, LeadsTrans, GoodIs DEF Leads
  <2> QED BY <1>1, <2>1, <2>4
<1>4. PICK G : G = [k \in 0 .. n - 1 |-> [y \in S |-> file_clear_block(y, p, size + k)]]
  OBVIOUS
<1>5. PICK T : T = [k \in 0 .. n |-> S]
  OBVIOUS
<1>6. Takes(n, T, G) /\ s \in T[0]
  <2>1. \A k \in 0 .. n - 1 : T[k] = S /\ T[k + 1] = S
    BY <1>5
  <2>2. \A k \in 0 .. n - 1 : G[k] \in [S -> S]
    BY <1>3, <1>4
  <2>3. T[0] = S
    BY <1>5
  <2> QED BY <1>2, <2>1, <2>2, <2>3 DEF Takes
<1>7. PICK g : Rounds(n, s, G, g) /\ Within(n, T, g)
  BY <1>6, RoundsThere
<1>8. g = [k \in 0 .. n |-> IF k = 0 THEN s ELSE file_clear_block(g[k - 1], p, size + (k - 1))]
  <2>1. \A k \in 0 .. n : k # 0 => G[k - 1][g[k - 1]] = file_clear_block(g[k - 1], p, size + (k - 1))
    BY <1>4, <1>5, <1>7 DEF Within
  <2> QED BY <1>7, <2>1 DEF Rounds
<1>9. PICK h : /\ h = [k \in 0 .. n |-> IF k = 0 THEN s ELSE file_clear_block(h[k - 1], p, size + (k - 1))]
               /\ t = h[n]
  <2>1. PICK h : h = CHOOSE f : f = [k \in 0 .. n |-> IF k = 0 THEN s ELSE file_clear_block(f[k - 1], p, size + (k - 1))]
    OBVIOUS
  <2>2. h = [k \in 0 .. n |-> IF k = 0 THEN s ELSE file_clear_block(h[k - 1], p, size + (k - 1))]
    BY <1>8, <2>1
  <2>3. t = h[n]
    BY <2>1, Zenon DEF ClearFrom, Loop
  <2> QED BY <2>2, <2>3
<1>10. Follows(n, s, T, G, h)
  <2>1. ASSUME NEW k \in 0 .. n - 1, h[k] \in S
        PROVE  h[k + 1] = G[k][h[k]]
    <3>1. PICK j \in 0 .. n : j = k + 1 /\ j # 0 /\ j - 1 = k
      OBVIOUS
    <3>2. h[j] = file_clear_block(h[j - 1], p, size + (j - 1))
      BY <1>9, <3>1
    <3>3. G[k][h[k]] = file_clear_block(h[k], p, size + k)
      BY <1>4, <2>1
    <3>4. h[j] = h[k + 1] /\ file_clear_block(h[j - 1], p, size + (j - 1)) = file_clear_block(h[k], p, size + k)
      BY <3>1, Zenon
    <3> QED BY <3>2, <3>3, <3>4, Zenon
  <2>2. \A k \in 0 .. n - 1 : T[k] = S
    BY <1>5
  <2>3. h[0] = s
    BY <1>9
  <2> QED BY <2>1, <2>2, <2>3, Zenon DEF Follows
<1>11. h[n] \in S
  BY <1>5, <1>6, <1>10, RoundsStay DEF Within
<1> QED BY <1>1, <1>9, <1>11

(* file_truncate changes no other file, when it does not cross NDIRECT.    *)
LEMMA FileTruncate ==
    ASSUME NEW s, Good(s), NEW p, InMem(s, p), p # Root, NEW size \in Nat, size <= Node(s, p).f_size,
           ~ Crosses(s, p, size), NEW t, t = file_truncate(s, p, size)
    PROVE  Leads(s, t, p)
<1>1. PICK old : old = Node(s, p).f_size
  OBVIOUS
<1>2. old \in 0 .. NINDIRECT
  BY <1>1, NodeIs DEF File
<1>3. size \in 0 .. NINDIRECT /\ old - size \in Nat
  BY <1>1, <1>2, LayoutAssumption
<1>4. PICK u : u = SetNode(s, p, [Node(s, p) EXCEPT !.f_size = size])
  OBVIOUS
<1>5. Leads(s, u, p) /\ Good(u) /\ InMem(u, p)
  BY <1>3, <1>4, SetSizeIs, LeadsInMem DEF Leads
<1>6. t = ClearFrom(old - size, u, p, size)
  <2>1. ~ (old > NDIRECT /\ size <= NDIRECT)
    BY <1>1 DEF Crosses
  <2> QED BY <1>1, <1>4, <2>1 DEF file_truncate, ClearFrom
<1>7. Leads(u, t, p)
  BY <1>3, <1>5, <1>6, Cleared
<1> QED BY <1>5, <1>7, LeadsTrans

(* Flushing the directory leaves what the server sees.                     *)
LEMMA FlushDir ==
    ASSUME NEW s, Good(s), NEW p, NEW t, t = flush_dir(s, p)
    PROVE  Flushed(s, t)
<1>1. InMem(s, Root)
  BY GoodIs, NodesType DEF InMem, Root, SuperBlock
<1>2. CASE Node(s, p).f_dir
  <2>1. t = file_flush(s, Root)
    BY <1>2 DEF flush_dir
  <2> QED BY <1>1, <2>1, FileFlush
<1>3. CASE ~ Node(s, p).f_dir
  BY <1>3 DEF flush_dir, Flushed
<1> QED BY <1>2, <1>3

(* What leaves what the server sees changes no file.                       *)
LEMMA FlushedLeads ==
    ASSUME NEW s, NEW t, NEW p, Flushed(s, t)
    PROVE  Leads(s, t, p)
  BY LeadsSame DEF Flushed

(* file_set_size changes no other file.                                    *)
LEMMA FileSetSize ==
    ASSUME NEW s, Good(s), NEW p, InMem(s, p), p # Root, NEW size \in 0 .. NINDIRECT, ~ Crosses(s, p, size),
           NEW t, t = file_set_size(s, p, size)
    PROVE  Leads(s, t, p)
<1>1. Node(s, p).f_size \in Int /\ size \in Nat /\ size \in Int
  BY NodeIs, LayoutAssumption DEF File
<1>2. PICK u : u = IF Node(s, p).f_size > size THEN file_truncate(s, p, size) ELSE s
  OBVIOUS
<1>3. Leads(s, u, p)
  <2>1. CASE Node(s, p).f_size > size
    <3>1. size <= Node(s, p).f_size /\ u = file_truncate(s, p, size)
      BY <1>1, <1>2, <2>1
    <3> QED BY <1>1, <3>1, FileTruncate
  <2>2. CASE ~ Node(s, p).f_size > size
    BY <1>2, <2>2, LeadsSame
  <2> QED BY <2>1, <2>2
<1>4. Good(u) /\ InMem(u, p)
  BY <1>3, LeadsInMem DEF Leads
<1>5. PICK w : w = SetNode(u, p, [Node(u, p) EXCEPT !.f_size = size])
  OBVIOUS
<1>6. Leads(u, w, p) /\ Good(w)
  BY <1>4, <1>5, SetSizeIs DEF Leads
<1>7. t = flush_dir(w, p)
  BY <1>2, <1>5 DEF file_set_size
<1>8. Leads(w, t, p)
  BY <1>6, <1>7, FlushDir, FlushedLeads
<1> QED BY <1>3, <1>6, <1>8, LeadsTrans

(* file_close leaves what the server sees.                                 *)
LEMMA FileClose ==
    ASSUME NEW s, Good(s), NEW p, InMem(s, p), NEW t, t = file_close(s, p)
    PROVE  Flushed(s, t)
<1>1. PICK u : u = file_flush(s, p)
  OBVIOUS
<1>2. Flushed(s, u)
  BY <1>1, FileFlush
<1>3. t = flush_dir(u, p)
  BY <1>1 DEF file_close
<1>4. Flushed(u, t)
  BY <1>2, <1>3, FlushDir DEF Flushed
<1> QED BY <1>2, <1>4 DEF Flushed

(* file_remove changes no other name's meaning.                            *)
LEMMA FileRemove ==
    ASSUME NEW s, Good(s), NEW path, path # <<>>,
           NEW w, w = walk_path(s, path), w.r = "ok" => ~ Crosses(w.s, w.v, 0),
           NEW x, x = file_remove(s, path)
    PROVE  Ends(s, x.s, path[1])
<1>1. /\ Leads(s, w.s, Root)
      /\ w.r = "ok" => InMem(w.s, w.v) /\ w.v # Root /\ FoundIn(w.s, w.v, path[1])
  BY WalkPath
<1>2. Good(w.s) /\ s.mapped \subseteq w.s.mapped /\ Loose(V(s), V(w.s), Root)
  BY <1>1 DEF Leads, Kept
<1>3. CASE w.r # "ok"
  <2>1. x = w
    BY <1>3 DEF file_remove, Then
  <2> QED BY <1>2, <2>1, LooseEnds
<1>4. CASE w.r = "ok"
  <2>1. InMem(w.s, w.v) /\ w.v # Root /\ FoundIn(w.s, w.v, path[1]) /\ ~ Crosses(w.s, w.v, 0)
    BY <1>1, <1>4
  <2>2. PICK t : t = file_truncate(w.s, w.v, 0)
    OBVIOUS
  <2>3. Leads(w.s, t, w.v)
    <3>1. 0 \in Nat /\ 0 <= Node(w.s, w.v).f_size
      BY <1>2, <2>1, NodeIs, LayoutAssumption DEF File
    <3> QED BY <1>2, <2>1, <2>2, <3>1, FileTruncate
  <2>4. Good(t) /\ InMem(t, w.v) /\ w.s.mapped \subseteq t.mapped /\ Loose(V(w.s), V(t), w.v)
    BY <2>1, <2>3, LeadsInMem DEF Leads, Kept
  <2>5. Node(t, w.v) = FileAt(V(t), w.v) /\ Node(t, w.v) \in File /\ w.v \in AllN(V(t))
    BY <2>4, NodeIs
  <2>6. PICK f : f = [Node(t, w.v) EXCEPT !.f_name = NoName]
    OBVIOUS
  <2>7. /\ f \in File /\ f.f_name = NoName
        /\ f.f_direct = Node(t, w.v).f_direct /\ f.f_indirect = Node(t, w.v).f_indirect
    BY <2>5, <2>6 DEF File
  <2>8. PICK u : u = SetNode(t, w.v, f)
    OBVIOUS
  <2>9. OwnName(V(t), w.v, f.f_name)
    BY <2>7 DEF OwnName
  <2>10. NodeNow(t, u, w.v, f)
    BY <2>1, <2>4, <2>7, <2>8, <2>9, SetAttributes
  <2>11. Good(u) /\ u.mapped = t.mapped /\ Loose(V(t), V(u), w.v) /\ FileAt(V(u), w.v).f_name = NoName
    BY <2>4, <2>5, <2>7, <2>10, NodeNowLoose DEF NodeNow, NodeAt
  <2>12. PICK y : y = file_flush(u, w.v)
    OBVIOUS
  <2>13. Flushed(u, y)
    <3>1. InMem(u, w.v)
      BY <2>4, <2>10, <2>11 DEF InMem, NodeNow, NodeAt
    <3> QED BY <2>11, <2>12, <3>1, FileFlush
  <2>14. PICK z : z = flush_dir(y, w.v)
    OBVIOUS
  <2>15. Flushed(y, z)
    BY <2>13, <2>14, FlushDir DEF Flushed
  <2>16. x.s = z
    BY <1>4, <2>2, <2>6, <2>8, <2>12, <2>14 DEF file_remove, Then, Ok
  <2>17. Good(z) /\ V(z) = V(u) /\ s.mapped \subseteq z.mapped
    BY <1>2, <2>4, <2>11, <2>13, <2>15 DEF Flushed
  <2>18. Loose(V(s), V(w.s), w.v)
    BY <1>2, LooseAny DEF Good
  <2>19. Loose(V(s), V(z), w.v)
    BY <2>4, <2>11, <2>17, <2>18, LooseTrans
  <2>20. w.v \in DirSet(V(s)) \X Index => FileAt(V(s), w.v).f_name = path[1]
    <3>1. ASSUME w.v \in DirSet(V(s)) \X Index
          PROVE  FileAt(V(s), w.v).f_name = path[1]
      <4>1. FileAt(V(w.s), w.v).f_name = FileAt(V(s), w.v).f_name
        BY <1>2, <2>1, <3>1 DEF Loose
      <4> QED BY <2>1, <4>1 DEF FoundIn
    <3> QED BY <3>1
  <2>21. Private(V(s), V(z), path[1])
    BY <2>11, <2>17, <2>19, <2>20 DEF Private
  <2> QED BY <2>16, <2>17, <2>21 DEF Ends
<1> QED BY <1>3, <1>4

----------------------------------------------------------------------------
(* The steps.                                                              *)
LEMMA BecomeIs ==
    ASSUME NEW s, Good(s), Become(s)
    PROVE  Now' = s /\ Good(Now)' /\ V(Now)' = V(s) /\ npage' = npage
<1>1. s \in State
  BY DEF Good, Cached
<1>2. Now' = s
  BY <1>1 DEF Now, Become, State
<1>3. npage' = npage
  BY DEF Become
<1>4. V(Now)' = V(s)
  BY <1>2 DEF V
<1>5. Cached(Now)'
  BY <1>2, <1>3 DEF Cached, Good, State, SameOnDisk
<1>6. Sound(V(Now))'
  BY <1>4 DEF Good, Sound
<1> QED BY <1>2, <1>3, <1>4, <1>5, <1>6 DEF Good

(* A change of one node's file is one of its name's meaning.               *)
LEMMA LeadsEnds ==
    ASSUME NEW s, Good(s), NEW t, NEW p, p \in AllN(V(s)), p # Root, Leads(s, t, p)
    PROVE  Ends(s, t, FileAt(V(s), p).f_name)
<1>1. p \in DirSet(V(s)) \X Index
  BY DEF AllN
<1>2. FileAt(V(t), p).f_name = FileAt(V(s), p).f_name
  BY <1>1 DEF Leads, Kept, NamesKept
<1> QED BY <1>2 DEF Leads, Kept, Ends, Private

(* No node goes away in a request.                                         *)
LEMMA EndsNodes ==
    ASSUME NEW s, NEW t, NEW name, Ends(s, t, name)
    PROVE  AllN(V(s)) \subseteq AllN(V(t)) /\ s.mapped \subseteq t.mapped
  BY DEF Ends, Private, Loose, AllN

(* What is known of the server when it is up, and what a request does.     *)
LEMMA UpIs ==
    ASSUME FsInv, at = "up"
    PROVE  /\ Good(Now) /\ Now.mapped = mapped /\ Now.halt = halt
           /\ \A p \in files : InMem(Now, p)
           /\ shared \subseteq Block
  BY DEF FsInv, InMem, Now

(* A request that changes one name's meaning keeps the invariant.          *)
LEMMA Request ==
    ASSUME FsInv, Up, NEW s, NEW name, Ends(Now, s, name), Become(s),
           \A p \in files' : p \in files \/ InMem(s, p), shared' \subseteq Block
    PROVE  FsInv' /\ Now' = s
<1>1. /\ Good(Now) /\ Now.mapped = mapped /\ \A p \in files : InMem(Now, p)
  BY UpIs DEF Up
<1>2. Good(s)
  BY DEF Ends
<1>3. Now' = s /\ Good(Now)' /\ V(Now)' = V(s) /\ npage' = npage /\ s \in State
  BY <1>2, BecomeIs, GoodIs
<1>4. \A p \in files' : InMem(s, p)
  BY <1>1, EndsNodes DEF InMem
<1>5. (files \subseteq AllN(V(Now)) /\ \A p \in files : p[1] \in mapped)'
  <2>1. mapped' = s.mapped
    BY DEF Become
  <2>2. AllN(V(Now))' = AllN(V(s))
    BY <1>3 DEF AllN, DirSet, Num, FileAt
  <2> QED BY <1>4, <2>1, <2>2 DEF InMem
<1>6. disk' \in [Block -> Stuff] /\ mem' \in [Block -> Stuff]
  BY <1>3 DEF Become, State
<1>7. npage' \in NPages /\ at' = "up"
  BY <1>3 DEF FsInv, Up
<1> QED BY <1>3, <1>5, <1>6, <1>7 DEF FsInv

(* A step of the running server changes what belongs to one name.          *)
OneName == \E s, name : Ends(Now, s, name) /\ Now' = s

(* Opening a file keeps the invariant and changes one name at most.        *)
LEMMA OpenStep ==
    ASSUME FsInv, NEW path, Open(path)
    PROVE  FsInv' /\ OneName
<1>1. Good(Now) /\ shared \subseteq Block /\ Up
  BY UpIs DEF Open, Up
<1>2. PICK o : /\ o = walk_path(Now, path) /\ Become(o.s)
               /\ files' = files \cup (IF o.r = "ok" THEN {o.v} ELSE {}) /\ shared' = shared
  BY DEF Open, file_open
<1>3. Leads(Now, o.s, Root) /\ (o.r = "ok" => InMem(o.s, o.v))
  BY <1>1, <1>2, WalkPath
<1>4. PICK s : s = o.s
  OBVIOUS
<1>5. Ends(Now, s, NoName)
  BY <1>1, <1>3, <1>4, LeadsLoose, LooseEnds
<1>6. FsInv' /\ Now' = s
  BY <1>1, <1>2, <1>3, <1>4, <1>5, Request
<1> QED BY <1>5, <1>6 DEF OneName

(* Creating a file does.                                                   *)
LEMMA CreateStep ==
    ASSUME FsInv, NEW path \in Path, Create(path)
    PROVE  FsInv' /\ OneName
<1>1. Good(Now) /\ shared \subseteq Block /\ Up
  BY UpIs DEF Create, Up
<1>2. PICK o : /\ o = file_create(Now, path) /\ Node(o.s, Root).f_size <= MaxDir /\ Become(o.s)
               /\ files' = files \cup (IF o.r = "ok" THEN {o.v} ELSE {}) /\ shared' = shared
  BY DEF Create
<1>3. Node(o.s, Root).f_size # NINDIRECT + 1
  <2>1. ~ NINDIRECT + 1 <= MaxDir
    BY FileSystemAssumption, LayoutAssumption
  <2> QED BY <1>2, <2>1
<1>4. Len(path) = 1 => path[1] \in Name
  BY DEF Path
<1>5. Ends(Now, o.s, path[1]) /\ (o.r = "ok" => InMem(o.s, o.v))
  BY <1>1, <1>2, <1>3, <1>4, FileCreate
<1>6. PICK s : s = o.s
  OBVIOUS
<1>7. FsInv' /\ Now' = s
  BY <1>1, <1>2, <1>5, <1>6, Request
<1> QED BY <1>5, <1>6, <1>7 DEF OneName

(* A request about a file that a client has open.                          *)
LEMMA FileStep ==
    ASSUME FsInv, Up, NEW p \in files, p # Root, NEW s, Leads(Now, s, p), Become(s),
           files' = files, shared' \subseteq Block
    PROVE  FsInv' /\ OneName
<1>1. Good(Now) /\ InMem(Now, p)
  BY UpIs DEF Up
<1>2. Ends(Now, s, FileAt(V(Now), p).f_name)
  BY <1>1, LeadsEnds DEF InMem
<1>3. FsInv' /\ Now' = s
  BY <1>2, Request
<1> QED BY <1>2, <1>3 DEF OneName

(* Mapping a block of a file does.                                         *)
LEMMA MapStep ==
    ASSUME FsInv, NEW p \in files \ {Root}, NEW n \in Sizes, Map(p, n)
    PROVE  FsInv' /\ OneName
<1>1. Good(Now) /\ InMem(Now, p) /\ shared \subseteq Block /\ Up /\ n \in Nat /\ Below(Now, p, n)
  BY UpIs, FileSystemAssumption, LayoutAssumption DEF Map, Up, Below
<1>2. PICK g : /\ g = file_get_block(Now, p, n) /\ Become(g.s)
               /\ shared' = shared \cup (IF g.r = "ok" THEN {g.v} ELSE {}) /\ files' = files
  BY DEF Map
<1>3. Leads(Now, g.s, p) /\ GotBlock(g, p, n)
  BY <1>1, <1>2, FileGetBlock
<1>4. shared' \subseteq Block
  <2>1. g.s.mapped \subseteq Block
    BY <1>3, GoodIs DEF Leads
  <2> QED BY <1>1, <1>2, <1>3, <2>1 DEF GotBlock
<1>5. PICK s : s = g.s
  OBVIOUS
<1> QED BY <1>1, <1>2, <1>3, <1>4, <1>5, FileStep

(* Marking a block of a file dirty does.                                   *)
LEMMA DirtyStep ==
    ASSUME FsInv, NEW p \in files \ {Root}, NEW n \in Sizes, Dirty(p, n)
    PROVE  FsInv' /\ OneName
<1>1. Good(Now) /\ InMem(Now, p) /\ shared \subseteq Block /\ Up /\ n \in Nat
  BY UpIs, FileSystemAssumption, LayoutAssumption DEF Dirty, Up
<1>2. PICK x : x = file_dirty(Now, p, n)
  OBVIOUS
<1>3. PICK s : s = x.s
  OBVIOUS
<1>4. Become(s) /\ files' = files /\ shared' = shared
  BY <1>2, <1>3 DEF Dirty
<1>5. Leads(Now, s, p)
  BY <1>1, <1>2, <1>3, FileDirty
<1> QED BY <1>1, <1>4, <1>5, FileStep

(* Setting a file's size does.                                             *)
LEMMA SetSizeStep ==
    ASSUME FsInv, CutIndirect = FALSE, NEW p \in files \ {Root}, NEW n \in Sizes, SetSize(p, n)
    PROVE  FsInv' /\ OneName
<1>1. /\ Good(Now) /\ InMem(Now, p) /\ shared \subseteq Block /\ Up /\ n \in 0 .. NINDIRECT
      /\ ~ Crosses(Now, p, n)
  BY UpIs, FileSystemAssumption DEF SetSize, Up
<1>2. PICK s : s = file_set_size(Now, p, n)
  OBVIOUS
<1>3. Become(s) /\ files' = files /\ shared' = shared
  BY <1>2 DEF SetSize
<1>4. Leads(Now, s, p)
  BY <1>1, <1>2, FileSetSize
<1> QED BY <1>1, <1>3, <1>4, FileStep

(* Closing a file does.                                                    *)
LEMMA CloseStep ==
    ASSUME FsInv, NEW p \in files, Close(p)
    PROVE  FsInv' /\ OneName
<1>1. Good(Now) /\ InMem(Now, p) /\ shared \subseteq Block /\ Up
  BY UpIs DEF Close, Up
<1>2. PICK s : s = file_close(Now, p)
  OBVIOUS
<1>3. Become(s) /\ files' = files /\ shared' = shared
  BY <1>2 DEF Close
<1>4. Leads(Now, s, Root)
  BY <1>1, <1>2, FileClose, FlushedLeads
<1>5. Ends(Now, s, NoName)
  BY <1>1, <1>4, LeadsLoose, LooseEnds
<1>6. FsInv' /\ Now' = s
  BY <1>1, <1>3, <1>5, Request
<1> QED BY <1>5, <1>6 DEF OneName

(* Removing a file does.                                                   *)
LEMMA RemoveStep ==
    ASSUME FsInv, CutIndirect = FALSE, NEW path, RemoveFile(path)
    PROVE  FsInv' /\ OneName
<1>1. Good(Now) /\ shared \subseteq Block /\ Up /\ path # <<>>
  BY UpIs DEF RemoveFile, Up
<1>2. PICK w : w = walk_path(Now, path)
  OBVIOUS
<1>3. w.r = "ok" => ~ Crosses(w.s, w.v, 0)
  BY <1>2 DEF RemoveFile
<1>4. PICK x : x = file_remove(Now, path)
  OBVIOUS
<1>5. PICK s : s = x.s
  OBVIOUS
<1>6. Become(s) /\ files' = files /\ shared' = shared
  BY <1>4, <1>5 DEF RemoveFile
<1>7. Ends(Now, s, path[1])
  BY <1>1, <1>2, <1>3, <1>4, <1>5, FileRemove
<1>8. FsInv' /\ Now' = s
  BY <1>1, <1>6, <1>7, Request
<1> QED BY <1>7, <1>8 DEF OneName

(* A sync does.                                                            *)
LEMMA SyncStep ==
    ASSUME FsInv, Sync
    PROVE  FsInv' /\ OneName
<1>1. Good(Now) /\ shared \subseteq Block /\ Up
  BY UpIs DEF Sync, Up
<1>2. PICK s : s = fs_sync(Now)
  OBVIOUS
<1>3. Become(s) /\ files' = files /\ shared' = shared
  BY <1>2 DEF Sync
<1>4. Copied(Now, s)
  BY <1>1, <1>2, FsSync DEF Good
<1>5. Good(s) /\ Leads(Now, s, Root)
  BY <1>1, <1>4, LeadsSame DEF Copied, Good
<1>6. Ends(Now, s, NoName)
  BY <1>1, <1>5, LeadsLoose, LooseEnds
<1>7. FsInv' /\ Now' = s
  BY <1>1, <1>3, <1>6, Request
<1> QED BY <1>6, <1>7 DEF OneName

(* A client's store: the block's word, nothing else, and it belongs to one *)
(* file at most.                                                           *)
Worded(s, b, word) == [s EXCEPT !.mem[b] = [s.mem[b] EXCEPT !.word = word]]

(* A word stored in a block changes no node, no number and no other block. *)
LEMMA StoreKeeps ==
    ASSUME NEW s, Good(s), NEW b \in Block, NEW word \in 0 .. MaxWord, NEW t, t = Worded(s, b, word)
    PROVE  /\ Good(t) /\ t.mapped = s.mapped /\ DirSet(V(t)) = DirSet(V(s))
           /\ \A q \in AllN(V(s)) : FileAt(V(t), q) = FileAt(V(s), q)
           /\ \A q \in AllN(V(s)), n \in Slot : Num(V(t), q, n) = Num(V(s), q, n)
           /\ \A c \in Block : c # b => V(t)[c].word = V(s)[c].word
<1>1. s \in State /\ Cached(s) /\ Sound(V(s)) /\ V(s) \in [Block -> Stuff]
  BY GoodIs
<1>2. PICK c : c = [s.mem[b] EXCEPT !.word = word]
  OBVIOUS
<1>3. s.mem[b] \in Stuff
  BY <1>1 DEF State
<1>4. c \in Stuff /\ c.file = s.mem[b].file /\ c.ptr = s.mem[b].ptr /\ c.free = s.mem[b].free
  BY <1>2, <1>3 DEF Stuff
<1>5. PICK m : m = [s.mem EXCEPT ![b] = c]
  OBVIOUS
<1>6. m \in [Block -> Stuff] /\ \A d \in Block : m[d] = IF d = b THEN c ELSE s.mem[d]
  BY <1>1, <1>4, <1>5 DEF State
<1>7. t = [s EXCEPT !.mem = m]
  BY <1>2, <1>5 DEF Worded
<1>8. /\ t \in State /\ t.disk = s.disk /\ t.mem = m /\ t.mapped = s.mapped /\ t.dirty = s.dirty
  BY <1>1, <1>6, <1>7 DEF State
<1>9. Cached(t)
  BY <1>1, <1>4, <1>6, <1>8 DEF Cached, SameOnDisk, State
<1>10. /\ V(t) \in [Block -> Stuff]
       /\ \A d \in Block : V(t)[d] = IF d = b /\ b \in s.mapped THEN c ELSE V(s)[d]
  BY <1>1, <1>6, <1>8, VIs
<1>11. b \in s.mapped => V(s)[b] = s.mem[b]
  BY <1>1, VIs
<1>12. \A d \in Block : /\ V(t)[d].file = V(s)[d].file /\ V(t)[d].ptr = V(s)[d].ptr
                        /\ V(t)[d].free = V(s)[d].free /\ (d # b => V(t)[d].word = V(s)[d].word)
  BY <1>4, <1>10, <1>11
<1>13. \A q \in Block \X Index : FileAt(V(t), q) = FileAt(V(s), q)
  BY <1>12 DEF FileAt
<1>14. /\ \A q \in Block \X Index, n \in Slot : Num(V(t), q, n) = Num(V(s), q, n)
       /\ DirSet(V(t)) = DirSet(V(s)) /\ AllN(V(t)) = AllN(V(s))
  <2>1. /\ \A q \in Block \X Index : /\ FileAt(V(t), q).f_direct = FileAt(V(s), q).f_direct
                                     /\ FileAt(V(t), q).f_indirect = FileAt(V(s), q).f_indirect
        /\ \A d \in Block : V(t)[d].ptr = V(s)[d].ptr
    BY <1>12, <1>13
  <2> QED BY ONLY <1>1, <1>10, <2>1, NumSame
<1>15. /\ {0, 1, 2} \cap V(t)[2].free = {}
       /\ \A p \in AllN(V(s)), n \in Slot : Num(V(s), p, n) # 0 => Num(V(s), p, n) \notin V(t)[2].free
       /\ \A d \in Block : V(t)[d].file = V(s)[d].file /\ V(t)[d].ptr = V(s)[d].ptr
  BY <1>1, <1>12, Layout DEF Sound, Held
<1>16. Sound(V(t))
  BY ONLY <1>1, <1>10, <1>15, SoundSame
<1>17. AllN(V(s)) \subseteq Block \X Index
  BY <1>1, NodesType
<1> QED BY <1>8, <1>9, <1>12, <1>13, <1>14, <1>16, <1>17 DEF Good

(* At most one name has the block, so at most one changes its meaning.     *)
LEMMA StoreOne ==
    ASSUME NEW s, Good(s), NEW b \in Block, NEW word \in 0 .. MaxWord, NEW t, t = Worded(s, b, word)
    PROVE  \E name : Ends(s, t, name)
<1>1. /\ Good(t) /\ t.mapped = s.mapped /\ DirSet(V(t)) = DirSet(V(s))
      /\ \A q \in AllN(V(s)) : FileAt(V(t), q) = FileAt(V(s), q)
      /\ \A q \in AllN(V(s)), n \in Slot : Num(V(t), q, n) = Num(V(s), q, n)
      /\ \A c \in Block : c # b => V(t)[c].word = V(s)[c].word
  BY StoreKeeps
<1>2. /\ DirSet(V(s)) \X Index \subseteq AllN(V(s)) /\ Root \in AllN(V(s))
      /\ \A q \in AllN(V(s)), n \in Slot : Num(V(s), q, n) \in Block
      /\ Once(V(s))
  BY GoodIs, NodesType, NumType DEF Sound
<1>3. \E p : \A q \in DirSet(V(s)) \X Index, n \in Slot \ {-1} :
          q # p /\ Num(V(s), q, n) # 0 => Num(V(s), q, n) # b
  <2>1. CASE \E p \in DirSet(V(s)) \X Index, n \in Slot \ {-1} : Num(V(s), p, n) = b
    <3>1. PICK p \in DirSet(V(s)) \X Index, n \in Slot \ {-1} : Num(V(s), p, n) = b
      BY <2>1
    <3>2. ASSUME NEW q \in DirSet(V(s)) \X Index, NEW k \in Slot \ {-1}, Num(V(s), q, k) # 0,
                 Num(V(s), q, k) = b
          PROVE  q = p
      BY <1>2, <3>1, <3>2 DEF Once
    <3> QED BY <3>2
  <2>2. CASE ~ \E p \in DirSet(V(s)) \X Index, n \in Slot \ {-1} : Num(V(s), p, n) = b
    BY <2>2
  <2> QED BY <2>1, <2>2
<1>4. PICK p : \A q \in DirSet(V(s)) \X Index, n \in Slot \ {-1} :
          q # p /\ Num(V(s), q, n) # 0 => Num(V(s), q, n) # b
  BY <1>3
<1>5. Loose(V(s), V(t), p)
  <2>1. ASSUME NEW q \in DirSet(V(s)) \X Index, q # p
        PROVE  /\ FileAt(V(t), q).f_name = FileAt(V(s), q).f_name /\ FileAt(V(t), q).f_size = FileAt(V(s), q).f_size
               /\ \A n \in Slot : Num(V(t), q, n) = Num(V(s), q, n)
               /\ \A n \in Slot : Num(V(s), q, n) # 0 /\ n # -1 =>
                      V(t)[Num(V(s), q, n)].word = V(s)[Num(V(s), q, n)].word
    BY <1>1, <1>2, <1>4, <2>1
  <2> QED BY <1>1, <1>2, <2>1 DEF Loose
<1>6. Private(V(s), V(t), FileAt(V(s), p).f_name)
  BY <1>1, <1>2, <1>5 DEF Private
<1> QED BY <1>1, <1>6 DEF Ends

(* A client's store keeps the invariant.                                   *)
LEMMA StoreStep ==
    ASSUME FsInv, NEW b \in shared, NEW word \in 1 .. MaxWord, Store(b, word)
    PROVE  FsInv' /\ OneName
<1>1. /\ Good(Now) /\ shared \subseteq Block /\ Up /\ b \in Block /\ word \in 0 .. MaxWord
      /\ \A p \in files : InMem(Now, p)
  BY UpIs, FileSystemAssumption DEF Store, Up
<1>2. PICK s : s = Worded(Now, b, word)
  OBVIOUS
<1>3. PICK name : Ends(Now, s, name)
  BY <1>1, <1>2, StoreOne
<1>4. s \in State /\ Now \in State
  BY <1>1, <1>3, GoodIs DEF Ends
<1>5. PICK m : m = [mem EXCEPT ![b].word = word]
  OBVIOUS
<1>6. s = [Now EXCEPT !.mem = m]
  BY <1>2, <1>5 DEF Worded, Now
<1>7. Become(s) /\ files' = files /\ shared' = shared
  <2>1. /\ s.disk = disk /\ s.mem = m /\ s.mapped = mapped /\ s.dirty = dirty /\ s.halt = halt
    BY <1>6 DEF Now
  <2> QED BY <1>5, <2>1 DEF Store, Become
<1>8. FsInv' /\ Now' = s
  BY <1>1, <1>3, <1>7, Request
<1> QED BY <1>3, <1>8 DEF OneName

(* Starting: the super block goes over to block 0 and back.                *)
LEMMA CheckWriteStep ==
    ASSUME FsInv, check_write_block
    PROVE  FsInv'
<1>1. /\ at = "boot" /\ Sound(disk) /\ files = {} /\ shared = {} /\ halt = "no" /\ npage \in NPages
      /\ disk \in [Block -> Stuff] /\ mem \in [Block -> Stuff]
  BY DEF FsInv, check_write_block
<1>2. IsSuper(disk[SuperBlock])
  BY <1>1 DEF Sound, IsSuper, FileAt, Root
<1>3. /\ disk' = [disk EXCEPT ![1] = Zeroed] /\ mem' = [mem EXCEPT ![0] = disk[1]] /\ at' = "smashed"
      /\ halt' = "no" /\ mapped' = {0, 1} /\ dirty' = {0} /\ files' = {} /\ shared' = {} /\ npage' = npage
  BY <1>1, <1>2 DEF check_write_block, SuperBlock, BootBlock
<1>4. disk[1] \in Stuff /\ 0 \in Block /\ 1 \in Block
  BY <1>1, Layout
<1>5. disk' \in [Block -> Stuff] /\ mem' \in [Block -> Stuff] /\ mem'[0] = disk[1]
  BY <1>1, <1>3, <1>4, ZeroedType
<1>6. Smashed' = disk
  BY <1>1, <1>3, <1>4, <1>5 DEF Smashed
<1>7. Sound(Smashed)'
  BY <1>1, <1>6 DEF Sound
<1> QED BY <1>1, <1>3, <1>5, <1>7 DEF FsInv

(* Block 0 has become a copy of the super block.                           *)
LEMMA BootCopied ==
    ASSUME NEW m, Sound(m), NEW m2 \in [Block -> Stuff], \A b \in Block \ {0} : m2[b] = m[b], m2[0] = m[1]
    PROVE  Sound(m2)
<1>1. /\ m \in [Block -> Stuff] /\ 0 \in Block /\ 1 \in Block /\ 2 \in Block /\ m[1] \in Stuff
      /\ PtrsApart(m) /\ Held(m) /\ RootBelow(m) /\ NamesOnce(m)
      /\ FileAt(m, Root).f_name = RootName /\ {0, 1, 2} \cap m[2].free = {}
  BY Layout DEF Sound
<1>2. /\ m2 \in [Block -> Stuff] /\ \A b \in Block : b # 0 => m2[b] = m[b]
      /\ m2[0] = m[1] /\ m2[2] = m[2]
  BY <1>1
<1>3. /\ \A p \in AllN(m) : p \in Block \X Index /\ p[1] # 0
      /\ Root \in AllN(m) /\ DirSet(m) \X Index \subseteq AllN(m)
  BY <1>1, NodesType DEF AllN, Root, SuperBlock
<1>4. m[1].ptr = m[0].ptr
  <2>1. \A p \in AllN(m) : Num(m, p, -1) # 1
    BY <1>1, Layout DEF Held
  <2> QED BY <1>1, <2>1 DEF PtrsApart
<1>5. \A b \in Block : m2[b].ptr = m[b].ptr
  BY <1>2, <1>4
<1>6. \A p \in AllN(m) : FileAt(m2, p) = FileAt(m, p)
  <2>1. \A p \in AllN(m) : p[1] \in Block /\ p[1] # 0
    BY <1>3
  <2> QED BY <1>2, <2>1 DEF FileAt
<1>7. ASSUME NEW p \in AllN(m), NEW n \in Slot
      PROVE  Num(m2, p, n) = Num(m, p, n)
  <2>1. FileAt(m, p).f_indirect \in Block
    BY <1>1, <1>3, NumType DEF File
  <2>2. m2[FileAt(m, p).f_indirect].ptr = m[FileAt(m, p).f_indirect].ptr /\ FileAt(m2, p) = FileAt(m, p)
    BY <1>5, <1>6, <2>1
  <2> QED BY ONLY <2>2 DEF Num
<1>8. DirSet(m2) = DirSet(m)
  BY <1>3, <1>7 DEF DirSet
<1>9. AllN(m2) = AllN(m)
  BY <1>8 DEF AllN
<1>10. RootBelow(m2)
  BY <1>1, <1>3, <1>6, <1>7 DEF RootBelow
<1>11. NamesOnce(m2)
  <2>1. \A p \in DirSet(m) \X Index : FileAt(m2, p).f_name = FileAt(m, p).f_name
    BY <1>3, <1>6
  <2> QED BY ONLY <1>1, <1>8, <2>1 DEF NamesOnce
<1>12. /\ FileAt(m2, Root).f_name = RootName
       /\ {0, 1, 2} \cap m2[2].free = {}
       /\ \A p \in AllN(m), n \in Slot : Num(m, p, n) # 0 => Num(m, p, n) \notin m2[2].free
       /\ \A b \in Block : b \notin {0, 1} /\ b \notin DirSet(m) => m2[b].file = m[b].file
       /\ \A p \in AllN(m), n \in Slot : Num(m2, p, n) = Num(m, p, n)
  <2>1. FileAt(m2, Root).f_name = RootName
    BY <1>1, <1>3, <1>6
  <2>2. \A p \in AllN(m), n \in Slot : Num(m, p, n) # 0 => Num(m, p, n) \notin m2[2].free
    BY ONLY <1>1, <1>2 DEF Held
  <2> QED BY ONLY <1>1, <1>2, <1>7, <2>1, <2>2
<1> QED BY ONLY Sound(m), <1>2, <1>5, <1>8, <1>9, <1>10, <1>11, <1>12, SoundStays

(* The second half of the server's start keeps the invariant.              *)
LEMMA ReadBitmapStep ==
    ASSUME FsInv, read_bitmap
    PROVE  FsInv'
<1>1. /\ at = "smashed" /\ Sound(Smashed) /\ mapped = {0, 1} /\ dirty = {0} /\ files = {} /\ shared = {}
      /\ halt = "no" /\ npage \in NPages /\ disk \in [Block -> Stuff] /\ mem \in [Block -> Stuff]
  BY DEF FsInv, read_bitmap
<1>2. 0 \in Block /\ 1 \in Block /\ 2 \in Block /\ mem[0] \in Stuff /\ disk[2] \in Stuff
  BY <1>1, Layout
<1>3. Smashed[1] = mem[0] /\ Smashed[2] = disk[2] /\ Smashed \in [Block -> Stuff]
  BY <1>1, <1>2 DEF Smashed
<1>4. {0, 1, 2} \cap disk[2].free = {}
  BY <1>1, <1>3 DEF Sound
<1>5. /\ disk' = Smashed /\ mem' = [mem EXCEPT ![1] = mem[0], ![2] = disk[2]] /\ at' = "up"
      /\ halt' = "no" /\ mapped' = {0, 1, 2} /\ dirty' = {0} /\ files' = {} /\ shared' = {} /\ npage' = npage
  <2>1. halt' = "no"
    BY <1>4 DEF read_bitmap, SuperBlock, BootBlock, BitmapBlock
  <2> QED BY <1>1, <2>1 DEF read_bitmap, SuperBlock, BootBlock, BitmapBlock, Smashed
<1>6. /\ mem' \in [Block -> Stuff] /\ mem'[0] = mem[0] /\ mem'[1] = mem[0] /\ mem'[2] = disk[2]
      /\ disk' \in [Block -> Stuff] /\ disk'[1] = mem[0] /\ disk'[2] = disk[2]
  BY <1>1, <1>2, <1>3, <1>5
<1>7. V(Now)' = [Smashed EXCEPT ![0] = Smashed[1]]
  <2>1. V(Now)' = [b \in Block |-> IF b \in mapped' THEN mem'[b] ELSE disk'[b]]
    BY DEF V, Now
  <2>2. PICK m : m = [b \in Block |-> IF b \in mapped' THEN mem'[b] ELSE disk'[b]]
    OBVIOUS
  <2>3. PICK m2 : m2 = [Smashed EXCEPT ![0] = Smashed[1]]
    OBVIOUS
  <2>4. \A b \in Block : m[b] = m2[b]
    <3>1. m[0] = m2[0] /\ m[1] = m2[1] /\ m[2] = m2[2]
      BY <1>2, <1>3, <1>5, <1>6, <2>2, <2>3
    <3>2. \A b \in Block : b \notin {0, 1, 2} => m[b] = m2[b]
      BY <1>3, <1>5, <2>2, <2>3
    <3> QED BY <3>1, <3>2
  <2>5. m = m2
    BY <1>3, <2>2, <2>3, <2>4
  <2> QED BY <2>1, <2>2, <2>3, <2>5
<1>8. Sound(V(Now))'
  <2>1. PICK m2 : m2 = [Smashed EXCEPT ![0] = Smashed[1]]
    OBVIOUS
  <2>2. /\ m2 \in [Block -> Stuff] /\ m2[0] = Smashed[1] /\ \A b \in Block \ {0} : m2[b] = Smashed[b]
    BY <1>2, <1>3, <2>1
  <2>3. Sound(m2)
    BY <1>1, <2>2, BootCopied
  <2> QED BY <1>7, <2>1, <2>3
<1>9. Cached(Now)'
  <2>1. Now' \in State
    BY <1>2, <1>5, <1>6 DEF Now, State
  <2>2. Cardinality({0, 1, 2}) <= npage
    <3>1. Cardinality({0, 1, 2}) = 3
      <4>1. IsFiniteSet({}) /\ Cardinality({}) = 0
        BY FS_EmptySet
      <4>2. IsFiniteSet({0}) /\ Cardinality({0}) = 1
        BY FS_Singleton
      <4>3. IsFiniteSet({0} \cup {1}) /\ Cardinality({0} \cup {1}) = 2
        BY <4>2, FS_AddElement
      <4>4. Cardinality(({0} \cup {1}) \cup {2}) = 3
        BY <4>3, FS_AddElement
      <4>5. {0, 1, 2} = ({0} \cup {1}) \cup {2}
        OBVIOUS
      <4> QED BY <4>4, <4>5
    <3> QED BY <1>1, <3>1, FileSystemAssumption
  <2>3. /\ Now'.mapped = {0, 1, 2} /\ Now'.dirty = {0} /\ Now'.mem = mem' /\ Now'.disk = disk'
    BY <1>5 DEF Now
  <2> QED BY <1>1, <1>5, <1>6, <2>1, <2>2, <2>3 DEF Cached, SameOnDisk, State
<1> QED BY <1>1, <1>5, <1>6, <1>8, <1>9 DEF FsInv, Good

(* The power goes when nothing is dirty: what there was is on the disk.    *)
LEMMA PowerOffStep ==
    ASSUME FsInv, OffDirty = FALSE, PowerOff
    PROVE  FsInv'
<1>1. /\ at = "up" /\ dirty = {} /\ Good(Now) /\ npage \in NPages
      /\ disk \in [Block -> Stuff] /\ mem \in [Block -> Stuff]
  BY DEF FsInv, PowerOff
<1>2. /\ disk' = disk /\ mem' = [b \in Block |-> Zeroed] /\ mapped' = {} /\ dirty' = {} /\ files' = {}
      /\ shared' = {} /\ at' = "boot" /\ halt' = "no" /\ npage' = npage
  BY DEF PowerOff
<1>3. /\ Sound(V(Now)) /\ Cached(Now) /\ V(Now) \in [Block -> Stuff] /\ mapped \subseteq Block
      /\ Now \in State /\ {0, 1, 2} \subseteq mapped /\ Now.mapped = mapped /\ Now.mem = mem
      /\ Now.disk = disk /\ Now.dirty = {}
  <2>1. Now.mapped = mapped /\ Now.mem = mem /\ Now.disk = disk /\ Now.dirty = {}
    BY <1>1 DEF Now
  <2> QED BY <1>1, <2>1, GoodIs
<1>4. \A b \in Block : V(Now)[b] = IF b \in mapped THEN mem[b] ELSE disk[b]
  BY <1>3, VIs
<1>5. /\ \A b \in mapped : disk[b].file = mem[b].file /\ disk[b].ptr = mem[b].ptr
      /\ disk[2].free = mem[2].free
  BY <1>3 DEF Cached, SameOnDisk
<1>6. /\ \A c \in Block : disk[c].file = V(Now)[c].file /\ disk[c].ptr = V(Now)[c].ptr
      /\ disk[2].free = V(Now)[2].free
  BY <1>3, <1>4, <1>5
<1>7. /\ {0, 1, 2} \cap disk[2].free = {}
      /\ \A p \in AllN(V(Now)), n \in Slot : Num(V(Now), p, n) # 0 => Num(V(Now), p, n) \notin disk[2].free
  BY <1>3, <1>6 DEF Sound, Held
<1>8. Sound(disk)
  BY <1>1, <1>3, <1>6, <1>7, SoundSame
<1>9. Sound(disk)'
  BY <1>2, <1>8 DEF Sound
<1> QED BY <1>1, <1>2, <1>9, ZeroedType DEF FsInv

(* A step of nobody keeps the invariant.                                   *)
LEMMA StayStep ==
    ASSUME FsInv, UNCHANGED vars
    PROVE  FsInv' /\ V(Now)' = V(Now)
<1>1. /\ npage' = npage /\ disk' = disk /\ mem' = mem /\ mapped' = mapped /\ dirty' = dirty
      /\ files' = files /\ shared' = shared /\ at' = at /\ halt' = halt
  BY DEF vars
<1>2. Now' = Now /\ Smashed' = Smashed
  BY <1>1 DEF Now, Smashed
<1>3. V(Now)' = V(Now)
  BY <1>2 DEF V
<1>4. Sound(disk)' = Sound(disk) /\ Sound(Smashed)' = Sound(Smashed) /\ Sound(V(Now))' = Sound(V(Now))
  BY <1>1, <1>2, <1>3 DEF Sound
<1>5. Cached(Now)' = Cached(Now)
  BY <1>1, <1>2 DEF Cached
<1>6. Good(Now)' = Good(Now)
  BY <1>4, <1>5 DEF Good
<1>7. AllN(V(Now))' = AllN(V(Now))
  BY <1>3
<1> QED BY <1>1, <1>3, <1>4, <1>6, <1>7 DEF FsInv

(* Every action keeps the invariant, and one that finds the server up and  *)
(* leaves it up is about one name at most.                                 *)
LEMMA FsStep ==
    ASSUME FsInv, [Next]_vars, CutIndirect = FALSE, OffDirty = FALSE
    PROVE  FsInv' /\ (at = "up" /\ at' = "up" => OneName \/ V(Now)' = V(Now))
<1>1. CASE check_write_block
  BY <1>1, CheckWriteStep DEF check_write_block
<1>2. CASE read_bitmap
  BY <1>2, ReadBitmapStep DEF read_bitmap
<1>3. ASSUME NEW path \in Path, Open(path) \/ Create(path) \/ RemoveFile(path)
      PROVE  FsInv' /\ OneName
  BY <1>3, OpenStep, CreateStep, RemoveStep
<1>4. ASSUME NEW p \in files \ {Root}, NEW n \in Sizes, Map(p, n) \/ Dirty(p, n) \/ SetSize(p, n)
      PROVE  FsInv' /\ OneName
  BY <1>4, MapStep, DirtyStep, SetSizeStep
<1>5. ASSUME NEW p \in files, Close(p)
      PROVE  FsInv' /\ OneName
  BY <1>5, CloseStep
<1>6. ASSUME NEW b \in shared, NEW word \in 1 .. MaxWord, Store(b, word)
      PROVE  FsInv' /\ OneName
  BY <1>6, StoreStep
<1>7. CASE Sync
  BY <1>7, SyncStep
<1>8. CASE PowerOff
  BY <1>8, PowerOffStep DEF PowerOff
<1>9. CASE UNCHANGED vars
  BY <1>9, StayStep
<1> QED BY <1>1, <1>2, <1>3, <1>4, <1>5, <1>6, <1>7, <1>8, <1>9 DEF Next

----------------------------------------------------------------------------
(* What the invariant is for.                                              *)

(* Sizes of the sets of blocks the server starts with.                     *)
LEMMA SmallSets ==
    /\ IsFiniteSet({}) /\ Cardinality({}) = 0
    /\ Cardinality({0, 1}) = 2
<1>1. IsFiniteSet({}) /\ Cardinality({}) = 0
  BY FS_EmptySet
<1>2. IsFiniteSet({0}) /\ Cardinality({0}) = 1
  BY FS_Singleton
<1>3. Cardinality({0} \cup {1}) = 2
  BY <1>2, FS_AddElement
<1>4. {0, 1} = {0} \cup {1}
  OBVIOUS
<1> QED BY <1>1, <1>3, <1>4

(* The invariant implies the types.                                        *)
LEMMA FsTyped ==
    ASSUME FsInv
    PROVE  FsTypeOK
<1>1. \A b \in Block : {disk[b], mem[b]} \subseteq
          [free : SUBSET Block, file : [Index -> File], ptr : [Indirect -> Block], word : 0 .. MaxWord]
  BY DEF FsInv, Stuff
<1>2. CASE at = "boot"
  <2>1. /\ mapped = {} /\ dirty = {} /\ files = {} /\ shared = {} /\ halt = "no" /\ npage \in NPages
    BY <1>2 DEF FsInv
  <2>2. Cardinality(mapped) <= npage
    BY <2>1, SmallSets, FileSystemAssumption
  <2> QED BY <1>1, <1>2, <2>1, <2>2 DEF FsTypeOK
<1>3. CASE at = "smashed"
  <2>1. /\ mapped = {0, 1} /\ dirty = {0} /\ files = {} /\ shared = {} /\ halt = "no" /\ npage \in NPages
    BY <1>3 DEF FsInv
  <2>2. Cardinality(mapped) <= npage /\ mapped \subseteq Block
    BY <2>1, SmallSets, FileSystemAssumption, Layout
  <2> QED BY <1>1, <1>3, <2>1, <2>2 DEF FsTypeOK
<1>4. CASE at = "up"
  <2>1. Good(Now) /\ shared \subseteq Block /\ files \subseteq AllN(V(Now))
    BY <1>4 DEF FsInv
  <2>2. Cached(Now) /\ Now \in State /\ V(Now) \in [Block -> Stuff]
    BY <2>1, GoodIs
  <2>3. Now.mapped = mapped /\ Now.dirty = dirty /\ Now.halt = halt
    BY DEF Now
  <2>4. /\ mapped \subseteq Block /\ dirty \subseteq mapped /\ Cardinality(mapped) <= npage
        /\ halt \in {"no", "garbage"}
    BY <2>2, <2>3 DEF Cached, State
  <2>5. files \subseteq Block \X Index
    BY <2>1, <2>2, NodesType
  <2> QED BY <1>1, <1>4, <2>1, <2>4, <2>5 DEF FsTypeOK
<1> QED BY <1>2, <1>3, <1>4 DEF FsInv

(* The model's words for a medium are those of the proofs.                 *)
LEMMA SameNodes ==
    ASSUME NEW m, Sound(m)
    PROVE  DirBlocks(m) = DirSet(m) /\ Nodes(m) = DirSet(m) \X Index
<1>1. m \in [Block -> Stuff] /\ PtrsApart(m) /\ m[0].ptr = Zeroed.ptr
  BY Layout DEF Sound, PtrsApart
<1>2. \A n \in Indirect : m[0].ptr[n] = 0
  BY <1>1, ZeroedType
<1>3. FileAt(m, Root) = RootOf(m)
  BY DEF FileAt, RootOf, Root
<1>4. \A n \in Direct : Num(m, Root, n) = RootOf(m).f_direct[n]
  BY <1>3 DEF Num
<1>5. \A n \in Indirect : Num(m, Root, n) = m[RootOf(m).f_indirect].ptr[n]
  BY <1>3, Layout DEF Num
<1>6. DirSet(m) = ({RootOf(m).f_direct[n] : n \in Direct} \cup {m[RootOf(m).f_indirect].ptr[n] : n \in Indirect}) \ {0}
  BY <1>4, <1>5, Layout DEF DirSet
<1>7. DirBlocks(m) = DirSet(m)
  <2>1. CASE RootOf(m).f_indirect = 0
    <3>1. \A n \in Indirect : m[RootOf(m).f_indirect].ptr[n] = 0
      BY <1>2, <2>1
    <3> QED BY <1>6, <2>1, <3>1 DEF DirBlocks
  <2>2. CASE RootOf(m).f_indirect # 0
    BY <1>6, <2>2 DEF DirBlocks
  <2> QED BY <2>1, <2>2
<1> QED BY <1>7 DEF Nodes

(* A running server's view is the medium the invariant is about.           *)
LEMMA ViewIs ==
    ASSUME FsInv, at = "up"
    PROVE  View = V(Now) /\ Sound(View)
  BY DEF FsInv, Good, View, V, Now

(* A claim is a number that is not 0, at its place in one of the nodes A.  *)
InNode(m, A) == {<<p, n, FileAt(m, p).f_direct[n]>> : p \in A, n \in Direct}
OfPtrs(m, A) == {<<p, -1, FileAt(m, p).f_indirect>> : p \in A}
InPtrs(m, A) == {<<p, n, m[FileAt(m, p).f_indirect].ptr[n]>> : p \in A, n \in Indirect}
ClaimsOf(m, A) == {c \in InNode(m, A) \cup OfPtrs(m, A) \cup InPtrs(m, A) : c[3] # 0}

(* Claims in the terms of the invariant.                                   *)
LEMMA ClaimsAre ==
    ASSUME NEW m, Sound(m)
    PROVE  Claims(m) = ClaimsOf(m, AllN(m))
<1>1. {Root} \cup Nodes(m) = AllN(m)
  BY SameNodes DEF AllN
<1>2. Claims(m) = ClaimsOf(m, {Root} \cup Nodes(m))
  BY DEF Claims, ClaimsOf, InNode, OfPtrs, InPtrs, FileAt
<1> QED BY ONLY <1>1, <1>2

(* A claim is a node's number that is not 0.                               *)
LEMMA ClaimIs ==
    ASSUME NEW m, Sound(m), NEW c, c \in Claims(m)
    PROVE  \E p \in AllN(m), n \in Slot : c = <<p, n, Num(m, p, n)>> /\ Num(m, p, n) # 0
<1>1. c[3] # 0 /\ (c \in InNode(m, AllN(m)) \/ c \in OfPtrs(m, AllN(m)) \/ c \in InPtrs(m, AllN(m)))
  BY ClaimsAre DEF ClaimsOf
<1>2. CASE c \in InNode(m, AllN(m))
  <2>1. PICK p \in AllN(m), n \in Direct : c = <<p, n, FileAt(m, p).f_direct[n]>>
    BY <1>2 DEF InNode
  <2>2. n \in Slot /\ Num(m, p, n) = FileAt(m, p).f_direct[n]
    BY Layout DEF Num
  <2> QED BY <1>1, <2>1, <2>2
<1>3. CASE c \in OfPtrs(m, AllN(m))
  <2>1. PICK p \in AllN(m) : c = <<p, -1, FileAt(m, p).f_indirect>>
    BY <1>3 DEF OfPtrs
  <2>2. -1 \in Slot /\ Num(m, p, -1) = FileAt(m, p).f_indirect
    BY Layout DEF Num
  <2> QED BY <1>1, <2>1, <2>2
<1>4. CASE c \in InPtrs(m, AllN(m))
  <2>1. PICK p \in AllN(m), n \in Indirect : c = <<p, n, m[FileAt(m, p).f_indirect].ptr[n]>>
    BY <1>4 DEF InPtrs
  <2>2. n \in Slot /\ Num(m, p, n) = m[FileAt(m, p).f_indirect].ptr[n]
    BY Layout DEF Num
  <2> QED BY <1>1, <2>1, <2>2
<1> QED BY <1>1, <1>2, <1>3, <1>4

(* The invariant implies BlocksOnce.                                       *)
LEMMA HeldOnce ==
    ASSUME FsInv
    PROVE  BlocksOnce
<1> SUFFICES ASSUME Running
             PROVE  /\ \A c, d \in Claims(View) : c[3] = d[3] => c = d
                    /\ \A c \in Claims(View) : c[3] > BitmapBlock /\ c[3] \notin View[BitmapBlock].free
                    /\ {BootBlock, SuperBlock, BitmapBlock} \cap View[BitmapBlock].free = {}
  BY DEF BlocksOnce
<1>1. Sound(View)
  BY ViewIs DEF Running
<1>2. Held(View) /\ Once(View) /\ {0, 1, 2} \cap View[2].free = {}
  BY <1>1 DEF Sound
<1>3. ASSUME NEW c \in Claims(View), NEW d \in Claims(View), c[3] = d[3]
      PROVE  c = d
  <2>1. PICK p \in AllN(View), n \in Slot : c = <<p, n, Num(View, p, n)>> /\ Num(View, p, n) # 0
    BY <1>1, ClaimIs
  <2>2. PICK q \in AllN(View), k \in Slot : d = <<q, k, Num(View, q, k)>> /\ Num(View, q, k) # 0
    BY <1>1, ClaimIs
  <2>3. p = q /\ n = k
    BY <1>2, <1>3, <2>1, <2>2 DEF Once
  <2> QED BY <2>1, <2>2, <2>3
<1>4. ASSUME NEW c \in Claims(View)
      PROVE  c[3] > 2 /\ c[3] \notin View[2].free
  <2>1. PICK p \in AllN(View), n \in Slot : c = <<p, n, Num(View, p, n)>> /\ Num(View, p, n) # 0
    BY <1>1, ClaimIs
  <2> QED BY <1>2, <2>1 DEF Held
<1> QED BY <1>2, <1>3, <1>4 DEF BootBlock, SuperBlock, BitmapBlock

(* The invariant implies NamesUnique.                                      *)
LEMMA NamedOnce ==
    ASSUME FsInv
    PROVE  NamesUnique
<1> SUFFICES ASSUME Running, NEW p \in Nodes(View), NEW q \in Nodes(View), p # q,
                    FileAt(View, p).f_name = FileAt(View, q).f_name
             PROVE  FileAt(View, p).f_name = NoName
  BY DEF NamesUnique, FileAt
<1>1. Sound(View)
  BY ViewIs DEF Running
<1>2. NamesOnce(View) /\ Nodes(View) = DirSet(View) \X Index
  BY <1>1, SameNodes DEF Sound
<1> QED BY <1>2 DEF NamesOnce

(* What a node reads as: its size and its words.                           *)
Reads(m, p) ==
    <<FileAt(m, p).f_size,
      [n \in 0 .. FileAt(m, p).f_size - 1 |-> IF Num(m, p, n) = 0 THEN 0 ELSE m[Num(m, p, n)].word]>>

Called(m, name) == {p \in DirSet(m) \X Index : FileAt(m, p).f_name = name}

(* The number the model finds for block n of a node is the one that is     *)
(* there: block 0 has no numbers for a file without an indirect block.     *)
LEMMA NumberAt ==
    ASSUME NEW m, Sound(m), NEW p \in DirSet(m) \X Index, NEW n \in 0 .. FileAt(m, p).f_size - 1
    PROVE  /\ n \in Slot /\ n # -1
           /\ Num(m, p, n) =
                  IF n \in Direct THEN FileAt(m, p).f_direct[n]
                  ELSE IF FileAt(m, p).f_indirect = 0 THEN 0 ELSE m[FileAt(m, p).f_indirect].ptr[n]
<1>1. /\ m \in [Block -> Stuff] /\ m[0].ptr = Zeroed.ptr
  BY Layout DEF Sound, PtrsApart
<1>2. FileAt(m, p).f_size \in 0 .. NINDIRECT
  BY <1>1, DirAbove, NumType DEF File
<1>3. n \in Direct \cup Indirect
  BY <1>2, Layout, LayoutAssumption
<1>4. n \in Indirect => m[0].ptr[n] = 0
  BY <1>1, ZeroedType
<1> QED BY <1>3, <1>4, Layout DEF Num

(* Meaning in the terms of the invariant.                                  *)
LEMMA MeaningIs ==
    ASSUME NEW m, Sound(m), NEW name
    PROVE  Meaning(m, name) = {Reads(m, p) : p \in Called(m, name)}
<1>1. Nodes(m) = DirSet(m) \X Index
  BY SameNodes
<1>2. DEFINE B(f, n) == IF n \in Direct THEN f.f_direct[n]
                        ELSE IF f.f_indirect = 0 THEN 0 ELSE m[f.f_indirect].ptr[n]
             R(p) == <<FileAt(m, p).f_size,
                       [n \in 0 .. FileAt(m, p).f_size - 1 |->
                           IF B(FileAt(m, p), n) = 0 THEN 0 ELSE m[B(FileAt(m, p), n)].word]>>
<1>3. Meaning(m, name) = {R(p) : p \in Called(m, name)}
  BY ONLY <1>1 DEF Meaning, Called, FileAt
<1>4. ASSUME NEW p \in Called(m, name)
      PROVE  R(p) = Reads(m, p)
  <2>1. p \in DirSet(m) \X Index
    BY DEF Called
  <2>2. \A n \in 0 .. FileAt(m, p).f_size - 1 : B(FileAt(m, p), n) = Num(m, p, n)
    BY <2>1, NumberAt
  <2> HIDE DEF B
  <2> QED BY <2>2 DEF Reads
<1> HIDE DEF R
<1> QED BY <1>3, <1>4

(* What is about one name leaves what every other name stands for.         *)
LEMMA OthersKept ==
    ASSUME NEW m, Sound(m), NEW m2, Sound(m2), NEW name, Private(m, m2, name), NEW y \in Name, y # name
    PROVE  Meaning(m2, y) = Meaning(m, y)
<1>1. PICK p : /\ Loose(m, m2, p)
               /\ p \in DirSet(m) \X Index => FileAt(m, p).f_name \in {NoName, name}
               /\ p \in DirSet(m2) \X Index => FileAt(m2, p).f_name \in {NoName, name}
  BY DEF Private
<1>2. y # NoName
  BY LayoutAssumption
<1>3. ASSUME NEW q \in DirSet(m) \X Index, q # p
      PROVE  /\ q \in DirSet(m2) \X Index /\ FileAt(m2, q).f_name = FileAt(m, q).f_name
             /\ Reads(m2, q) = Reads(m, q)
  <2>1. /\ FileAt(m2, q).f_name = FileAt(m, q).f_name /\ FileAt(m2, q).f_size = FileAt(m, q).f_size
        /\ \A n \in Slot : Num(m2, q, n) = Num(m, q, n)
        /\ \A n \in Slot : Num(m, q, n) # 0 /\ n # -1 => m2[Num(m, q, n)].word = m[Num(m, q, n)].word
    BY <1>1, <1>3 DEF Loose
  <2>2. \A n \in 0 .. FileAt(m, q).f_size - 1 :
            (IF Num(m2, q, n) = 0 THEN 0 ELSE m2[Num(m2, q, n)].word)
                = (IF Num(m, q, n) = 0 THEN 0 ELSE m[Num(m, q, n)].word)
    <3>1. ASSUME NEW n \in 0 .. FileAt(m, q).f_size - 1
          PROVE  n \in Slot /\ n # -1
      BY NumberAt
    <3> QED BY <2>1, <3>1
  <2>3. Reads(m2, q) = Reads(m, q)
    BY <2>1, <2>2 DEF Reads
  <2>4. q \in DirSet(m2) \X Index
    BY <1>1 DEF Loose
  <2> QED BY <2>1, <2>3, <2>4
<1>4. ASSUME NEW q \in Called(m, y)
      PROVE  q \in Called(m2, y) /\ Reads(m2, q) = Reads(m, q)
  BY <1>1, <1>2, <1>3 DEF Called
<1>5. ASSUME NEW q \in Called(m2, y)
      PROVE  q \in Called(m, y)
  <2>1. q \in DirSet(m2) \X Index /\ FileAt(m2, q).f_name = y /\ q # p
    BY <1>1, <1>2 DEF Called
  <2>2. q \in DirSet(m) \X Index
    BY <1>1, <1>2, <2>1 DEF Loose
  <2> QED BY <1>3, <2>1, <2>2 DEF Called
<1>6. Called(m2, y) = Called(m, y)
  BY <1>4, <1>5
<1>7. Meaning(m2, y) = {Reads(m2, q) : q \in Called(m2, y)} /\ Meaning(m, y) = {Reads(m, q) : q \in Called(m, y)}
  BY MeaningIs
<1> QED BY ONLY <1>4, <1>6, <1>7

(* A step changes what at most one name stands for.                        *)
LEMMA OneFileStep ==
    ASSUME FsInv, [Next]_vars, CutIndirect = FALSE, OffDirty = FALSE, Running, Running',
           NEW x \in Name, NEW y \in Name,
           Meaning(View, x) # Meaning(View', x), Meaning(View, y) # Meaning(View', y)
    PROVE  x = y
<1>1. FsInv' /\ (OneName \/ V(Now)' = V(Now))
  BY FsStep DEF Running
<1>2. View = V(Now) /\ Sound(View)
  BY ViewIs DEF Running
<1>3. View' = V(Now)' /\ Sound(View)'
  <2>1. (at = "up")' /\ FsInv'
    BY <1>1 DEF Running
  <2>2. Good(Now)' /\ View' = V(Now)'
    BY <2>1 DEF FsInv, View, V, Now
  <2>3. Sound(V(Now))'
    BY <2>2 DEF Good
  <2> QED BY <2>2, <2>3
<1>4. OneName
  BY <1>1, <1>2, <1>3
<1>5. PICK name : Private(V(Now), V(Now)', name)
  <2>1. PICK s, name : Ends(Now, s, name) /\ Now' = s
    BY <1>4 DEF OneName
  <2>2. V(Now)' = V(s)
    BY <2>1
  <2> QED BY <2>1, <2>2 DEF Ends
<1>6. PICK m2 : m2 = View'
  OBVIOUS
<1>7. Sound(m2) /\ Private(View, m2, name)
  BY <1>2, <1>3, <1>5, <1>6 DEF Sound
<1>8. \A z \in Name : z # name => Meaning(m2, z) = Meaning(View, z)
  BY <1>2, <1>7, OthersKept
<1> QED BY <1>6, <1>8

----------------------------------------------------------------------------
(* The disk that fsformat makes.  What it will be if the program stops     *)
(* here: the super block with the root so far, and the bitmap without what *)
(* was used.                                                               *)
Disks == [disk : [Block -> Stuff], root : File, nextb : Nat, busy : SUBSET Block, failed : BOOLEAN]

Super(r) == [Zeroed EXCEPT !.file[0] = r]
Bitmap(c, n) == [c EXCEPT !.free = Block \ (0 .. n - 1)]

Outcome(t) ==
    [b \in Block |-> IF b = 1 THEN Super(t.root)
                     ELSE IF b = 2 THEN Bitmap(t.disk[2], t.nextb)
                     ELSE t.disk[b]]

(* The content that finishfs leaves in the super block.                    *)
LEMMA SuperIs ==
    ASSUME NEW r \in File
    PROVE  /\ Super(r) \in Stuff /\ Super(r).ptr = Zeroed.ptr /\ Super(r).word = 0 /\ Super(r).free = {}
           /\ \A j \in Index : Super(r).file[j] = IF j = 0 THEN r ELSE NoFile
<1>1. PICK z : z = Zeroed
  OBVIOUS
<1>2. PICK x : x = [z EXCEPT !.file[0] = r]
  OBVIOUS
<1>3. z \in Stuff /\ z.file = [i \in Index |-> NoFile] /\ z.free = {} /\ z.word = 0 /\ 0 \in Index
  BY <1>1, ZeroedType, Layout
<1>4. /\ x \in Stuff /\ x.ptr = z.ptr /\ x.word = z.word /\ x.free = z.free
      /\ \A j \in Index : x.file[j] = IF j = 0 THEN r ELSE z.file[j]
  BY <1>2, <1>3 DEF Stuff
<1>5. x = Super(r)
  BY <1>1, <1>2 DEF Super
<1> QED BY <1>1, <1>3, <1>4, <1>5

(* The content that finishfs leaves in the bitmap.                         *)
LEMMA BitmapIs ==
    ASSUME NEW c \in Stuff, NEW n
    PROVE  /\ Bitmap(c, n) \in Stuff /\ Bitmap(c, n).free = Block \ (0 .. n - 1)
           /\ Bitmap(c, n).file = c.file /\ Bitmap(c, n).ptr = c.ptr /\ Bitmap(c, n).word = c.word
<1>1. PICK U \in SUBSET Block : U = Block \ (0 .. n - 1)
  OBVIOUS
<1>2. PICK x : x = [c EXCEPT !.free = U]
  OBVIOUS
<1>3. x \in Stuff /\ x.free = U /\ x.file = c.file /\ x.ptr = c.ptr /\ x.word = c.word
  BY <1>2 DEF Stuff
<1>4. x = Bitmap(c, n)
  BY <1>1, <1>2 DEF Bitmap
<1> QED BY <1>1, <1>3, <1>4

(* The disk that finishfs would leave.                                     *)
LEMMA OutcomeIs ==
    ASSUME NEW t \in Disks
    PROVE  /\ Outcome(t) \in [Block -> Stuff]
           /\ \A b \in Block \ {1, 2} : Outcome(t)[b] = t.disk[b]
           /\ Outcome(t)[1] = Super(t.root) /\ Outcome(t)[2] = Bitmap(t.disk[2], t.nextb)
           /\ FileAt(Outcome(t), Root) = t.root
           /\ Outcome(t)[2].free = Block \ (0 .. t.nextb - 1)
<1>1. t.disk \in [Block -> Stuff] /\ t.root \in File /\ t.disk[2] \in Stuff
  BY Layout DEF Disks
<1>2. Super(t.root) \in Stuff /\ Super(t.root).file[0] = t.root
  BY <1>1, SuperIs, Layout
<1>3. Bitmap(t.disk[2], t.nextb) \in Stuff /\ Bitmap(t.disk[2], t.nextb).free = Block \ (0 .. t.nextb - 1)
  BY <1>1, BitmapIs
<1>4. PICK m : m = Outcome(t)
  OBVIOUS
<1>5. /\ m \in [Block -> Stuff] /\ \A b \in Block \ {1, 2} : m[b] = t.disk[b]
      /\ m[1] = Super(t.root) /\ m[2] = Bitmap(t.disk[2], t.nextb)
  BY <1>1, <1>2, <1>3, <1>4, Layout DEF Outcome
<1>6. FileAt(m, Root) = t.root
  BY <1>2, <1>5 DEF FileAt, Root, SuperBlock
<1> QED BY <1>3, <1>4, <1>5, <1>6

(* A block got: what is on the disk stays, but for a block that is cleared.*)
LEMMA GotBlk ==
    ASSUME NEW t \in Disks, NEW b, NEW u, ~ u.failed, u = getblk(t, b, TRUE)
    PROVE  /\ ~ t.failed /\ b \in Block /\ u \in Disks /\ u.root = t.root /\ u.nextb = t.nextb
           /\ u.disk = [t.disk EXCEPT ![b] = Zeroed]
<1>1. ~ t.failed /\ b \in Block /\ u = [t EXCEPT !.busy = @ \cup {b}, !.disk[b] = Zeroed]
  BY ONLY t \in Disks, ~ u.failed, u = getblk(t, b, TRUE) DEF getblk, Disks
<1>2. t.disk \in [Block -> Stuff] /\ t.busy \subseteq Block
  BY DEF Disks
<1>3. PICK d \in [Block -> Stuff] : d = [t.disk EXCEPT ![b] = Zeroed]
  BY <1>2, ZeroedType
<1>4. PICK w \in SUBSET Block : w = t.busy \cup {b}
  BY <1>1, <1>2
<1>5. u = [t EXCEPT !.busy = w, !.disk = d]
  BY <1>1, <1>3, <1>4
<1>6. u \in Disks /\ u.root = t.root /\ u.nextb = t.nextb /\ u.disk = d
  BY ONLY <1>5, t \in Disks, d \in [Block -> Stuff], w \in SUBSET Block DEF Disks
<1> QED BY <1>1, <1>3, <1>6

(* A block got that is not cleared stays as it is.                         *)
LEMMA KeptBlk ==
    ASSUME NEW t \in Disks, NEW b, NEW u, ~ u.failed, u = getblk(t, b, FALSE)
    PROVE  /\ ~ t.failed /\ b \in Block /\ u \in Disks /\ u.root = t.root /\ u.nextb = t.nextb
           /\ u.disk = t.disk
<1>1. ~ t.failed /\ b \in Block /\ u = [t EXCEPT !.busy = @ \cup {b}, !.disk[b] = t.disk[b]]
  BY ONLY t \in Disks, ~ u.failed, u = getblk(t, b, FALSE) DEF getblk, Disks
<1>2. t.disk \in [Block -> Stuff] /\ t.busy \subseteq Block
  BY DEF Disks
<1>3. PICK d \in [Block -> Stuff] : d = [t.disk EXCEPT ![b] = t.disk[b]]
  BY <1>2
<1>4. PICK w \in SUBSET Block : w = t.busy \cup {b}
  BY <1>1, <1>2
<1>5. u = [t EXCEPT !.busy = w, !.disk = d]
  BY <1>1, <1>3, <1>4
<1>6. u \in Disks /\ u.root = t.root /\ u.nextb = t.nextb /\ u.disk = d
  BY ONLY <1>5, t \in Disks, d \in [Block -> Stuff], w \in SUBSET Block DEF Disks
<1>7. d = t.disk
  BY <1>2, <1>3
<1> QED BY <1>1, <1>6, <1>7

(* The names are those of the files so far, and what has none is empty.    *)
Named(m, U) ==
    \A p \in DirSet(m) \X Index :
        /\ FileAt(m, p).f_name \in U \cup {NoName}
        /\ FileAt(m, p).f_name = NoName => \A k \in Slot : Num(m, p, k) = 0

(* The directory's blocks are all there.                                   *)
DirFull(t) == t.root.f_size <= NDIRECT /\ \A n \in 0 .. t.root.f_size - 1 : t.root.f_direct[n] # 0

Made(t, U) ==
    /\ t \in Disks /\ 3 <= t.nextb /\ t.nextb <= NBlock /\ t.disk[2].free = Block
    /\ Sound(Outcome(t)) /\ Named(Outcome(t), U) /\ DirFull(t)

(* A disk with the same files is as well made.                             *)
LEMMA MadeAlike ==
    ASSUME NEW t, NEW U, Made(t, U), NEW u \in Disks, u.root = t.root, 3 <= u.nextb, u.nextb <= NBlock,
           u.disk[2].free = Block, Sound(Outcome(u)), Alike(Outcome(t), Outcome(u))
    PROVE  Made(u, U)
<1>1. PICK m : m = Outcome(t)
  OBVIOUS
<1>2. PICK m2 : m2 = Outcome(u)
  OBVIOUS
<1>3. Named(m, U) /\ Alike(m, m2) /\ DirSet(m) \X Index \subseteq AllN(m)
  BY <1>1, <1>2 DEF Made, AllN
<1>4. Named(m2, U)
  BY <1>3 DEF Named, Alike
<1> QED BY <1>2, <1>4 DEF Made, DirFull

(* The next block is free, so nobody has it, and it is empty.              *)
LEMMA NextIsEmpty ==
    ASSUME NEW t, NEW U, Made(t, U), t.nextb \in Block
    PROVE  /\ t.nextb > 2 /\ t.nextb \in Outcome(t)[2].free
           /\ \A p \in AllN(Outcome(t)), n \in Slot : Num(Outcome(t), p, n) # t.nextb
           /\ Outcome(t)[t.nextb] = t.disk[t.nextb]
           /\ t.disk[t.nextb].file = Zeroed.file /\ t.disk[t.nextb].ptr = Zeroed.ptr
<1>1. PICK m : m = Outcome(t)
  OBVIOUS
<1>2. PICK b \in Block : b = t.nextb
  OBVIOUS
<1>3. t \in Disks /\ Sound(m) /\ 3 <= b /\ b \in Int
  BY <1>1, <1>2, LayoutAssumption DEF Made, Block
<1>4. b > 2 /\ b \notin 0 .. b - 1 /\ b \in Block \ {1, 2}
  BY <1>3
<1>5. m[2].free = Block \ (0 .. b - 1) /\ m[b] = t.disk[b]
  BY <1>1, <1>2, <1>3, <1>4, OutcomeIs
<1>6. b \in m[2].free
  BY <1>4, <1>5
<1>7. m \in [Block -> Stuff] /\ Held(m) /\ FilesApart(m) /\ PtrsApart(m)
  BY <1>3 DEF Sound
<1>8. \A p \in AllN(m), n \in Slot : Num(m, p, n) # b
  BY <1>4, <1>6, <1>7 DEF Held
<1>9. b \notin DirSet(m)
  BY <1>7, <1>8, NodesType, Layout
<1>10. m[b].file = Zeroed.file /\ m[b].ptr = Zeroed.ptr
  BY <1>4, <1>7, <1>8, <1>9, Layout DEF FilesApart, PtrsApart
<1> QED BY <1>1, <1>2, <1>4, <1>5, <1>6, <1>8, <1>10

(* The next block got, and cleared: no file changes.                       *)
LEMMA ClearNext ==
    ASSUME NEW t, NEW U, Made(t, U), NEW u, u = getblk(t, t.nextb, TRUE), ~ u.failed
    PROVE  /\ Made(u, U) /\ Alike(Outcome(t), Outcome(u)) /\ u.nextb = t.nextb /\ u.nextb \in Block
           /\ u.root = t.root
<1>1. PICK b : b = t.nextb
  OBVIOUS
<1>2. t \in Disks /\ Sound(Outcome(t)) /\ 3 <= b /\ b <= NBlock /\ t.disk[2].free = Block
  BY <1>1 DEF Made
<1>3. b \in Block /\ u \in Disks /\ u.root = t.root /\ u.nextb = t.nextb /\ u.disk = [t.disk EXCEPT ![b] = Zeroed]
  <2>1. u = getblk(t, b, TRUE) /\ ~ u.failed
    BY <1>1
  <2>2. b \in Block /\ u \in Disks /\ u.root = t.root /\ u.nextb = t.nextb
    BY ONLY <1>2, <2>1, GotBlk
  <2>3. u.disk = [t.disk EXCEPT ![b] = Zeroed]
    BY ONLY <1>2, <2>1, GotBlk
  <2> QED BY <2>2, <2>3
<1>4. /\ b > 2 /\ b \in Outcome(t)[2].free /\ \A p \in AllN(Outcome(t)), n \in Slot : Num(Outcome(t), p, n) # b
      /\ Outcome(t)[b] = t.disk[b] /\ t.disk[b].file = Zeroed.file /\ t.disk[b].ptr = Zeroed.ptr
  BY <1>1, <1>3, NextIsEmpty
<1>5. t.disk \in [Block -> Stuff] /\ b # 1 /\ b # 2
  BY <1>2, <1>4 DEF Disks
<1>6. \A c \in Block : u.disk[c] = IF c = b THEN Zeroed ELSE t.disk[c]
  BY <1>3, <1>5
<1>7. PICK m : m = Outcome(t)
  OBVIOUS
<1>8. PICK m2 : m2 = Outcome(u)
  OBVIOUS
<1>9. \A c \in Block : m2[c] = IF c = b THEN Zeroed ELSE m[c]
  <2>0. u \in Disks /\ u.root = t.root /\ u.nextb = t.nextb
    BY <1>3
  <2>1. /\ \A c \in Block \ {1, 2} : m2[c] = u.disk[c]
        /\ m2[1] = Super(u.root) /\ m2[2] = Bitmap(u.disk[2], u.nextb)
    BY ONLY <1>8, <2>0, OutcomeIs
  <2>2. /\ \A c \in Block \ {1, 2} : m[c] = t.disk[c]
        /\ m[1] = Super(t.root) /\ m[2] = Bitmap(t.disk[2], t.nextb)
    BY ONLY <1>2, <1>7, OutcomeIs
  <2>3. u.disk[2] = t.disk[2]
    BY ONLY <1>5, <1>6, Layout
  <2>4. m2[1] = m[1] /\ m2[2] = m[2]
    BY ONLY <2>0, <2>1, <2>2, <2>3
  <2> QED BY ONLY <1>5, <1>6, <2>1, <2>2, <2>4
<1>10. m \in [Block -> Stuff] /\ m2 \in [Block -> Stuff] /\ Sound(m)
  BY <1>2, <1>3, <1>7, <1>8, OutcomeIs
<1>11. \A c \in Block : m2[c].file = m[c].file /\ m2[c].ptr = m[c].ptr
  BY <1>4, <1>7, <1>9
<1>12. m2[2].free = m[2].free /\ Held(m) /\ {0, 1, 2} \cap m[2].free = {}
  BY <1>5, <1>9, <1>10, Layout DEF Sound
<1>13. Alike(m, m2)
  <2>1. \A p \in AllN(m), n \in Slot : Num(m, p, n) \in Block /\ Num(m, p, n) # b
    BY <1>4, <1>7, <1>10, NodesType, NumType
  <2>2. \A p \in AllN(m), n \in Slot : Num(m, p, n) # 0 => m2[Num(m, p, n)].word = m[Num(m, p, n)].word
    BY <1>9, <2>1
  <2> QED BY ONLY <1>10, <1>11, <2>2, AlikeSame
<1>14. Sound(m2)
  <2>1. /\ {0, 1, 2} \cap m2[2].free = {}
        /\ \A p \in AllN(m), n \in Slot : Num(m, p, n) # 0 => Num(m, p, n) \notin m2[2].free
    BY <1>12 DEF Held
  <2> QED BY ONLY <1>10, <1>11, <2>1, SoundSame
<1>15. u.disk[2].free = Block
  BY <1>2, <1>5, <1>6, Layout
<1>16. Made(u, U)
  BY <1>1, <1>2, <1>3, <1>7, <1>8, <1>13, <1>14, <1>15, MadeAlike
<1> QED BY <1>1, <1>3, <1>7, <1>8, <1>13, <1>16

(* The next block counted as used: nobody has it, and no file changes.     *)
LEMMA Advance ==
    ASSUME NEW t, NEW U, Made(t, U), t.nextb \in Block, NEW u, u = [t EXCEPT !.nextb = @ + 1]
    PROVE  /\ Made(u, U) /\ Alike(Outcome(t), Outcome(u)) /\ Spare(Outcome(u), t.nextb)
           /\ u.disk = t.disk /\ u.root = t.root /\ t.nextb \notin Outcome(u)[2].free
           /\ u.failed = t.failed /\ u.nextb = t.nextb + 1
<1>1. PICK b \in Block : b = t.nextb
  OBVIOUS
<1>2. t \in Disks /\ Sound(Outcome(t)) /\ 3 <= b /\ b + 1 <= NBlock /\ b \in Nat /\ t.disk[2].free = Block
  BY <1>1, LayoutAssumption DEF Made, Block
<1>3. u \in Disks /\ u.disk = t.disk /\ u.root = t.root /\ u.nextb = b + 1 /\ u.failed = t.failed
  <2>1. u = [t EXCEPT !.nextb = b + 1] /\ b + 1 \in Nat
    BY <1>1, <1>2
  <2> QED BY <1>2, <2>1 DEF Disks
<1>4. PICK m : m = Outcome(t)
  OBVIOUS
<1>5. PICK m2 : m2 = Outcome(u)
  OBVIOUS
<1>6. /\ b > 2 /\ b \in m[2].free /\ \A p \in AllN(m), n \in Slot : Num(m, p, n) # b
  BY <1>1, <1>4, NextIsEmpty
<1>7. m \in [Block -> Stuff] /\ m2 \in [Block -> Stuff] /\ Sound(m)
  BY <1>2, <1>3, <1>4, <1>5, OutcomeIs
<1>8. \A c \in Block : m2[c].file = m[c].file /\ m2[c].ptr = m[c].ptr /\ m2[c].word = m[c].word
  <2>1. /\ \A c \in Block \ {1, 2} : m2[c] = u.disk[c]
        /\ m2[1] = Super(u.root) /\ m2[2] = Bitmap(u.disk[2], u.nextb)
    BY ONLY <1>3, <1>5, OutcomeIs
  <2>2. /\ \A c \in Block \ {1, 2} : m[c] = t.disk[c]
        /\ m[1] = Super(t.root) /\ m[2] = Bitmap(t.disk[2], t.nextb)
    BY ONLY <1>2, <1>4, OutcomeIs
  <2>3. PICK x \in Stuff : x = t.disk[2]
    BY <1>2, Layout DEF Disks
  <2>4. m2[2].file = x.file /\ m2[2].ptr = x.ptr /\ m2[2].word = x.word
    BY ONLY <1>3, <2>1, <2>3, BitmapIs
  <2>5. m[2].file = x.file /\ m[2].ptr = x.ptr /\ m[2].word = x.word
    BY ONLY <2>2, <2>3, BitmapIs
  <2>6. m2[1] = m[1] /\ \A c \in Block \ {1, 2} : m2[c] = m[c]
    BY ONLY <1>3, <2>1, <2>2
  <2> QED BY ONLY <2>4, <2>5, <2>6
<1>9. m2[2].free = Block \ (0 .. b) /\ m[2].free = Block \ (0 .. b - 1)
  <2>1. u.nextb - 1 = b
    BY <1>2, <1>3
  <2> QED BY <1>1, <1>2, <1>3, <1>4, <1>5, <2>1, OutcomeIs
<1>10. b \notin m2[2].free /\ m2[2].free \subseteq m[2].free
  BY <1>2, <1>9
<1>11. Sound(m2)
  <2>1. /\ {0, 1, 2} \cap m2[2].free = {}
        /\ \A p \in AllN(m), n \in Slot : Num(m, p, n) # 0 => Num(m, p, n) \notin m2[2].free
    BY <1>7, <1>10 DEF Held, Sound
  <2> QED BY ONLY <1>7, <1>8, <2>1, SoundSame
<1>12. Alike(m, m2)
  <2>1. \A p \in AllN(m), n \in Slot : Num(m, p, n) # 0 => m2[Num(m, p, n)].word = m[Num(m, p, n)].word
    BY <1>7, <1>8, NodesType, NumType
  <2> QED BY ONLY <1>7, <1>8, <2>1, AlikeSame
<1>13. Spare(m2, b)
  <2>1. \A p \in AllN(m2), n \in Slot : Num(m2, p, n) # b
    BY <1>6, <1>12 DEF Alike
  <2> QED BY <1>6, <1>10, <2>1 DEF Spare
<1>14. Made(u, U)
  <2>1. 3 <= u.nextb /\ u.nextb <= NBlock
    BY <1>2, <1>3, LayoutAssumption
  <2> QED BY <1>2, <1>3, <1>4, <1>5, <1>11, <1>12, <2>1, MadeAlike
<1> QED BY <1>1, <1>3, <1>4, <1>5, <1>10, <1>12, <1>13, <1>14

(* What a change of the disk, or of the root, does to the outcome.         *)
DiskSet(t, u, b, c) ==
    /\ u \in Disks /\ u.root = t.root /\ u.nextb = t.nextb /\ u.failed = t.failed
    /\ u.disk = [t.disk EXCEPT ![b] = c]

(* A content put in a block of the disk.                                   *)
LEMMA OutcomeSet ==
    ASSUME NEW t \in Disks, NEW b \in Block \ {1, 2}, NEW c \in Stuff, NEW u, DiskSet(t, u, b, c)
    PROVE  /\ Outcome(u) = [Outcome(t) EXCEPT ![b] = c] /\ Outcome(t)[b] = t.disk[b]
           /\ u \in Disks /\ u.disk[2] = t.disk[2]
<1>1. u \in Disks /\ u.root = t.root /\ u.nextb = t.nextb /\ t.disk \in [Block -> Stuff]
  BY DEF DiskSet, Disks
<1>2. \A x \in Block : u.disk[x] = IF x = b THEN c ELSE t.disk[x]
  BY <1>1 DEF DiskSet
<1>3. PICK m : m = Outcome(t)
  OBVIOUS
<1>4. PICK m2 : m2 = Outcome(u)
  OBVIOUS
<1>5. /\ \A x \in Block \ {1, 2} : m[x] = t.disk[x]
      /\ m[1] = Super(t.root) /\ m[2] = Bitmap(t.disk[2], t.nextb) /\ m \in [Block -> Stuff]
  BY ONLY <1>3, t \in Disks, OutcomeIs
<1>6. /\ \A x \in Block \ {1, 2} : m2[x] = u.disk[x]
      /\ m2[1] = Super(u.root) /\ m2[2] = Bitmap(u.disk[2], u.nextb) /\ m2 \in [Block -> Stuff]
  BY ONLY <1>1, <1>4, OutcomeIs
<1>7. u.disk[2] = t.disk[2]
  BY ONLY <1>2, Layout, b \in Block \ {1, 2}
<1>8. m2[1] = m[1] /\ m2[2] = m[2]
  BY ONLY <1>1, <1>5, <1>6, <1>7
<1>9. \A x \in Block : m2[x] = IF x = b THEN c ELSE m[x]
  BY ONLY <1>2, <1>5, <1>6, <1>8, b \in Block \ {1, 2}
<1>10. m2 = [m EXCEPT ![b] = c]
  BY ONLY <1>5, <1>6, <1>9
<1> QED BY <1>1, <1>3, <1>4, <1>5, <1>7, <1>10

(* A node rewritten on the disk.                                           *)
LEMMA SetNodeOfIs ==
    ASSUME NEW t \in Disks, NEW e \in Block \X Index, e[1] \notin {1, 2}, NEW f \in File, NEW u,
           u = SetNodeOf(t, e, f)
    PROVE  /\ u \in Disks /\ u.root = t.root /\ u.nextb = t.nextb /\ u.failed = t.failed
           /\ u.disk[2] = t.disk[2] /\ Outcome(u) = WithNode(Outcome(t), e, f)
           /\ NodeOf(t, e) = FileAt(Outcome(t), e)
<1>1. e[1] \in Block \ {1, 2} /\ e[2] \in Index /\ t.disk \in [Block -> Stuff] /\ t.disk[e[1]] \in Stuff
  BY DEF Disks
<1>2. PICK x : x = t.disk[e[1]]
  OBVIOUS
<1>3. PICK c : c = [x EXCEPT !.file[e[2]] = f]
  OBVIOUS
<1>4. c \in Stuff
  BY <1>1, <1>2, <1>3 DEF Stuff
<1>5. PICK d : d = [t.disk EXCEPT ![e[1]] = c]
  OBVIOUS
<1>6. d \in [Block -> Stuff]
  BY <1>1, <1>4, <1>5
<1>7. u = [t EXCEPT !.disk = d]
  BY <1>2, <1>3, <1>5 DEF SetNodeOf
<1>8. u \in Disks /\ u.root = t.root /\ u.nextb = t.nextb /\ u.failed = t.failed /\ u.disk = d
  BY ONLY <1>6, <1>7, t \in Disks DEF Disks
<1>9. DiskSet(t, u, e[1], c)
  BY <1>5, <1>8 DEF DiskSet
<1>10. /\ Outcome(u) = [Outcome(t) EXCEPT ![e[1]] = c] /\ Outcome(t)[e[1]] = t.disk[e[1]]
       /\ u.disk[2] = t.disk[2]
  BY ONLY <1>1, <1>4, <1>9, t \in Disks, OutcomeSet
<1>11. Outcome(u) = WithNode(Outcome(t), e, f)
  BY <1>2, <1>3, <1>10 DEF WithNode
<1> QED BY <1>8, <1>10, <1>11 DEF NodeOf, FileAt

(* A number rewritten on the disk.                                         *)
LEMMA SetPtrIs ==
    ASSUME NEW t \in Disks, NEW k \in Block \ {1, 2}, NEW n \in Indirect, NEW b \in Block, NEW u,
           u = [t EXCEPT !.disk[k].ptr[n] = b]
    PROVE  /\ u \in Disks /\ u.root = t.root /\ u.nextb = t.nextb /\ u.failed = t.failed
           /\ u.disk[2] = t.disk[2] /\ Outcome(u) = WithPtr(Outcome(t), k, n, b)
<1>1. t.disk \in [Block -> Stuff] /\ t.disk[k] \in Stuff
  BY DEF Disks
<1>2. PICK x : x = t.disk[k]
  OBVIOUS
<1>3. PICK c : c = [x EXCEPT !.ptr[n] = b]
  OBVIOUS
<1>4. c \in Stuff
  BY <1>1, <1>2, <1>3 DEF Stuff
<1>5. PICK d : d = [t.disk EXCEPT ![k] = c]
  OBVIOUS
<1>6. d \in [Block -> Stuff]
  BY <1>1, <1>4, <1>5
<1>7. u = [t EXCEPT !.disk = d]
  BY <1>2, <1>3, <1>5
<1>8. u \in Disks /\ u.root = t.root /\ u.nextb = t.nextb /\ u.failed = t.failed /\ u.disk = d
  BY ONLY <1>6, <1>7, t \in Disks DEF Disks
<1>9. DiskSet(t, u, k, c)
  BY <1>5, <1>8 DEF DiskSet
<1>10. /\ Outcome(u) = [Outcome(t) EXCEPT ![k] = c] /\ Outcome(t)[k] = t.disk[k]
       /\ u.disk[2] = t.disk[2]
  BY ONLY <1>4, <1>9, t \in Disks, k \in Block \ {1, 2}, OutcomeSet
<1>11. Outcome(u) = WithPtr(Outcome(t), k, n, b)
  BY <1>2, <1>3, <1>10 DEF WithPtr
<1> QED BY <1>8, <1>10, <1>11

RootSet(t, u, r) == u = [t EXCEPT !.root = r]

(* The root rewritten in the super block that is to be.                    *)
LEMMA SetRootIs ==
    ASSUME NEW t \in Disks, NEW r \in File, NEW u, RootSet(t, u, r)
    PROVE  /\ u \in Disks /\ u.root = r /\ u.nextb = t.nextb /\ u.failed = t.failed
           /\ u.disk = t.disk /\ Outcome(u) = WithNode(Outcome(t), Root, r)
<1>1. u \in Disks /\ u.root = r /\ u.nextb = t.nextb /\ u.failed = t.failed /\ u.disk = t.disk
  BY DEF Disks, RootSet
<1>2. PICK m : m = Outcome(t)
  OBVIOUS
<1>3. PICK m2 : m2 = Outcome(u)
  OBVIOUS
<1>4. /\ \A x \in Block \ {1, 2} : m[x] = t.disk[x]
      /\ m[1] = Super(t.root) /\ m[2] = Bitmap(t.disk[2], t.nextb) /\ m \in [Block -> Stuff]
  BY ONLY <1>2, t \in Disks, OutcomeIs
<1>5. /\ \A x \in Block \ {1, 2} : m2[x] = t.disk[x]
      /\ m2[1] = Super(r) /\ m2[2] = Bitmap(t.disk[2], t.nextb) /\ m2 \in [Block -> Stuff]
  BY ONLY <1>1, <1>3, OutcomeIs
<1>6. Super(r) = [Super(t.root) EXCEPT !.file[0] = r]
  BY DEF Super
<1>7. m2 = [m EXCEPT ![1] = Super(r)]
  <2>1. \A x \in Block : m2[x] = IF x = 1 THEN Super(r) ELSE m[x]
    BY ONLY <1>4, <1>5
  <2> QED BY ONLY <1>4, <1>5, <2>1
<1>8. m2 = WithNode(m, Root, r)
  BY ONLY <1>4, <1>6, <1>7 DEF WithNode, Root, SuperBlock
<1> QED BY <1>1, <1>2, <1>3, <1>8

(* A word written into a block that nobody has yet.                        *)
LEMMA FreshWord ==
    ASSUME NEW t, NEW U, Made(t, U), NEW b, Spare(Outcome(t), b), NEW w \in 0 .. MaxWord, NEW u,
           u = [t EXCEPT !.disk[b].word = w]
    PROVE  /\ Made(u, U) /\ Alike(Outcome(t), Outcome(u)) /\ Spare(Outcome(u), b)
           /\ u.nextb = t.nextb /\ u.failed = t.failed
<1>1. t \in Disks /\ b \in Block \ {1, 2} /\ b > 2 /\ Sound(Outcome(t))
  BY DEF Made, Spare
<1>2. PICK x \in Stuff : x = t.disk[b]
  BY <1>1 DEF Disks
<1>3. PICK c : c = [x EXCEPT !.word = w]
  OBVIOUS
<1>4. c \in Stuff /\ c.file = x.file /\ c.ptr = x.ptr
  BY <1>3 DEF Stuff
<1>5. PICK d : d = [t.disk EXCEPT ![b] = c]
  OBVIOUS
<1>6. d \in [Block -> Stuff]
  BY <1>1, <1>4, <1>5 DEF Disks
<1>7. u = [t EXCEPT !.disk = d]
  BY <1>2, <1>3, <1>5
<1>8. u \in Disks /\ u.root = t.root /\ u.nextb = t.nextb /\ u.failed = t.failed /\ u.disk = d
  BY ONLY <1>1, <1>6, <1>7 DEF Disks
<1>9. DiskSet(t, u, b, c)
  BY <1>5, <1>8 DEF DiskSet
<1>10. PICK m : m = Outcome(t)
  OBVIOUS
<1>11. PICK m2 : m2 = Outcome(u)
  OBVIOUS
<1>12. m2 = [m EXCEPT ![b] = c] /\ m[b] = x /\ u.disk[2] = t.disk[2]
  BY ONLY <1>1, <1>2, <1>4, <1>9, <1>10, <1>11, OutcomeSet
<1>13. m \in [Block -> Stuff] /\ Sound(m) /\ Spare(m, b) /\ Held(m) /\ {0, 1, 2} \cap m[2].free = {}
  BY <1>1, <1>10 DEF Sound
<1>14. \A y \in Block : m2[y] = IF y = b THEN c ELSE m[y]
  BY ONLY <1>12, <1>13
<1>15. m2 \in [Block -> Stuff]
  BY ONLY <1>4, <1>12, <1>13, <1>1
<1>16. /\ \A y \in Block : m2[y].file = m[y].file /\ m2[y].ptr = m[y].ptr
       /\ m2[2].free = m[2].free
  BY ONLY <1>1, <1>4, <1>12, <1>14, Layout
<1>17. Sound(m2)
  <2>1. /\ {0, 1, 2} \cap m2[2].free = {}
        /\ \A p \in AllN(m), n \in Slot : Num(m, p, n) # 0 => Num(m, p, n) \notin m2[2].free
    BY ONLY <1>13, <1>16 DEF Held
  <2> QED BY ONLY <1>13, <1>15, <1>16, <2>1, SoundSame
<1>18. Alike(m, m2)
  <2>1. \A p \in AllN(m), n \in Slot : Num(m, p, n) \in Block /\ Num(m, p, n) # b
    BY <1>13, NodesType, NumType DEF Spare
  <2>2. \A p \in AllN(m), n \in Slot : Num(m, p, n) # 0 => m2[Num(m, p, n)].word = m[Num(m, p, n)].word
    BY ONLY <1>14, <2>1
  <2> QED BY ONLY <1>13, <1>15, <1>16, <2>2, AlikeSame
<1>19. Spare(m2, b)
  <2>1. b \notin m2[2].free
    BY ONLY <1>13, <1>16 DEF Spare
  <2> QED BY ONLY <1>13, <1>18, <2>1, AlikeSpare
<1>20. Made(u, U)
  <2>1. u.disk[2].free = Block /\ 3 <= u.nextb /\ u.nextb <= NBlock /\ Made(t, U)
    BY <1>8, <1>12 DEF Made
  <2> QED BY ONLY <1>8, <1>10, <1>11, <1>17, <1>18, <2>1, MadeAlike
<1> QED BY <1>8, <1>10, <1>11, <1>18, <1>19, <1>20

(* A file is being written: it has a node e, and no block from n on.       *)
Clean(m, e, n) == \A k \in n .. NINDIRECT - 1 : Num(m, e, k) = 0

Writing(t, U, e, n) ==
    /\ Made(t, U) /\ e \in DirSet(Outcome(t)) \X Index /\ FileAt(Outcome(t), e).f_name # NoName
    /\ n \in 0 .. NINDIRECT /\ Clean(Outcome(t), e, n)

(* The node of the file being written is one of the directory.             *)
LEMMA WritingIs ==
    ASSUME NEW t, NEW U, NEW e, NEW n, Writing(t, U, e, n)
    PROVE  /\ t \in Disks /\ e \in Block \X Index /\ e[1] \notin {1, 2} /\ e # Root /\ e \in AllN(Outcome(t))
           /\ NodeOf(t, e) = FileAt(Outcome(t), e) /\ NodeOf(t, e) \in File
           /\ Sound(Outcome(t)) /\ Outcome(t) \in [Block -> Stuff]
<1>1. t \in Disks /\ Sound(Outcome(t)) /\ e \in DirSet(Outcome(t)) \X Index
  BY DEF Writing, Made
<1>2. PICK m : m = Outcome(t)
  OBVIOUS
<1>3. m \in [Block -> Stuff] /\ e \in AllN(m) /\ e # Root /\ e \in Block \X Index /\ e[1] > 2
  BY ONLY <1>1, <1>2, DirAbove
<1>4. e[1] \in Block \ {1, 2}
  BY <1>3
<1>5. m[e[1]] = t.disk[e[1]]
  BY ONLY <1>1, <1>2, <1>4, OutcomeIs
<1>6. NodeOf(t, e) = FileAt(m, e)
  BY <1>5 DEF NodeOf, FileAt
<1> QED BY <1>1, <1>2, <1>3, <1>4, <1>6, NumType

(* What changes no file leaves the writing where it was.                   *)
LEMMA WritingAlike ==
    ASSUME NEW t, NEW U, NEW e, NEW n, Writing(t, U, e, n), NEW u, Made(u, U), Alike(Outcome(t), Outcome(u))
    PROVE  Writing(u, U, e, n)
<1>1. PICK m : m = Outcome(t)
  OBVIOUS
<1>2. PICK m2 : m2 = Outcome(u)
  OBVIOUS
<1>3. e \in DirSet(m) \X Index /\ e \in AllN(m) /\ FileAt(m, e).f_name # NoName /\ n \in 0 .. NINDIRECT /\ Clean(m, e, n)
  BY <1>1, WritingIs DEF Writing
<1>4. Alike(m, m2)
  BY <1>1, <1>2
<1>5. \A k \in n .. NINDIRECT - 1 : k \in Slot
  BY <1>3, Layout, LayoutAssumption
<1>6. e \in DirSet(m2) \X Index /\ FileAt(m2, e).f_name # NoName /\ Clean(m2, e, n)
  BY ONLY <1>3, <1>4, <1>5 DEF Alike, Clean
<1> QED BY <1>2, <1>3, <1>6 DEF Writing

(* The file's node gets the number of a block.                             *)
LEMMA Numbered ==
    ASSUME NEW t, NEW U, NEW e, NEW n, Writing(t, U, e, n), NEW k \in Slot, Num(Outcome(t), e, k) = 0,
           k \in Indirect => Num(Outcome(t), e, -1) # 0, k \notin n + 1 .. NINDIRECT - 1,
           NEW b, Spare(Outcome(t), b), NEW u \in Disks, u.root = t.root, u.nextb = t.nextb,
           u.disk[2] = t.disk[2], Renumbered(Outcome(t), Outcome(u), e, k, b)
    PROVE  /\ Made(u, U) /\ (k # n => Writing(u, U, e, n)) /\ (k = n => Writing(u, U, e, n + 1))
           /\ Num(Outcome(u), e, k) = b
           /\ \A c : Spare(Outcome(t), c) /\ c # b => Spare(Outcome(u), c)
<1>1. PICK m : m = Outcome(t)
  OBVIOUS
<1>2. PICK m2 : m2 = Outcome(u)
  OBVIOUS
<1>3. /\ e \in DirSet(m) \X Index /\ e \in AllN(m) /\ e # Root /\ FileAt(m, e).f_name # NoName
      /\ n \in 0 .. NINDIRECT /\ Clean(m, e, n) /\ Sound(m) /\ Made(t, U) /\ m \in [Block -> Stuff]
      /\ Named(m, U) /\ e \in Block \X Index
  BY <1>1, WritingIs DEF Writing, Made
<1>4. /\ k \in Slot /\ Num(m, e, k) = 0 /\ (k \in Indirect => Num(m, e, -1) # 0) /\ Spare(m, b)
      /\ Renumbered(m, m2, e, k, b)
  BY <1>1, <1>2
<1>5. Sound(m2)
  <2>1. e = Root /\ k # -1 => k < FileAt(m, Root).f_size
    BY <1>3
  <2> QED BY ONLY <1>3, <1>4, <2>1, SoundClaim
<1>6. DirSet(m2) = DirSet(m) /\ AllN(m2) = AllN(m)
  <2>1. DirSet(m2) = DirSet(m) \cup (IF e = Root /\ k # -1 THEN {b} ELSE {})
    BY ONLY <1>3, <1>4, ClaimNodes
  <2> QED BY ONLY <1>3, <2>1 DEF AllN
<1>7. \A q \in AllN(m), j \in Slot : Num(m2, q, j) = IF q = e /\ j = k THEN b ELSE Num(m, q, j)
  BY ONLY <1>4 DEF Renumbered
<1>8. \A q \in DirSet(m) \X Index : FileAt(m2, q).f_name = FileAt(m, q).f_name /\ q \in AllN(m)
  BY ONLY <1>3, <1>4, NodesType DEF Renumbered
<1>9. Named(m2, U)
  BY ONLY <1>3, <1>6, <1>7, <1>8 DEF Named
<1>10. Made(u, U)
  BY <1>2, <1>3, <1>5, <1>9 DEF Made, DirFull
<1>11. e \in DirSet(m2) \X Index /\ FileAt(m2, e).f_name # NoName
  BY ONLY <1>3, <1>6, <1>8
<1>12. \A j \in n .. NINDIRECT - 1 : j \in Slot /\ j \in Int
  BY <1>3, Layout, LayoutAssumption
<1>13. k # n => Writing(u, U, e, n)
  <2>1. SUFFICES ASSUME k # n PROVE Clean(m2, e, n)
    BY <1>2, <1>3, <1>10, <1>11 DEF Writing
  <2>2. k \notin n .. NINDIRECT - 1
    <3>1. n \in Int /\ k \notin n + 1 .. NINDIRECT - 1 /\ k # n
      BY <1>3, <2>1
    <3>2. k \in Int
      BY Layout
    <3> QED BY <3>1, <3>2, LayoutAssumption
  <2>3. \A j \in n .. NINDIRECT - 1 : Num(m2, e, j) = Num(m, e, j)
    BY ONLY <1>3, <1>7, <1>12, <2>2
  <2> QED BY ONLY <1>3, <2>3 DEF Clean
<1>14. k = n => Writing(u, U, e, n + 1)
  <2>1. SUFFICES ASSUME k = n PROVE n + 1 \in 0 .. NINDIRECT /\ Clean(m2, e, n + 1)
    BY <1>2, <1>10, <1>11 DEF Writing
  <2>2. k # -1 /\ k \in Direct \cup Indirect
    BY <1>3, <2>1, Layout
  <2>3. n + 1 \in 0 .. NINDIRECT
    BY <1>3, <2>1, <2>2, Layout, LayoutAssumption
  <2>4. \A j \in n + 1 .. NINDIRECT - 1 : j # k /\ j \in n .. NINDIRECT - 1
    BY <1>3, <2>1, LayoutAssumption
  <2>5. \A j \in n + 1 .. NINDIRECT - 1 : Num(m2, e, j) = Num(m, e, j)
    BY ONLY <1>3, <1>7, <1>12, <2>4
  <2>6. Clean(m2, e, n + 1)
    BY ONLY <1>3, <2>4, <2>5 DEF Clean
  <2> QED BY <2>3, <2>6
<1>15. ASSUME NEW c, Spare(m, c), c # b
       PROVE  Spare(m2, c)
  <2>1. m2[2].free = m[2].free
    BY ONLY <1>4 DEF Renumbered
  <2>2. \A q \in AllN(m2), j \in Slot : Num(m2, q, j) # c
    BY ONLY <1>6, <1>7, <1>15 DEF Spare
  <2> QED BY ONLY <1>15, <2>1, <2>2 DEF Spare
<1> QED BY <1>1, <1>2, <1>3, <1>4, <1>7, <1>10, <1>13, <1>14, <1>15

(* A block put back changes only what is busy.                             *)
LEMMA PutBack ==
    ASSUME NEW t, t \in Disks, NEW b, NEW u, u = putblk(t, b)
    PROVE  /\ u \in Disks /\ u.disk = t.disk /\ u.root = t.root /\ u.nextb = t.nextb /\ u.failed = t.failed
           /\ Outcome(u) = Outcome(t)
           /\ \A U : Made(t, U) => Made(u, U)
           /\ \A U, e, n : Writing(t, U, e, n) => Writing(u, U, e, n)
<1>1. u \in Disks /\ u.disk = t.disk /\ u.root = t.root /\ u.nextb = t.nextb /\ u.failed = t.failed
  BY DEF Disks, putblk
<1>2. Outcome(u) = Outcome(t)
  BY ONLY <1>1 DEF Outcome
<1>3. \A U : Made(t, U) => Made(u, U)
  BY ONLY <1>1, <1>2 DEF Made, DirFull
<1>4. \A U, e, n : Writing(t, U, e, n) => Writing(u, U, e, n)
  BY ONLY <1>2, <1>3 DEF Writing
<1> QED BY ONLY <1>1, <1>2, <1>3, <1>4

(* The file gets a block of numbers, one that nobody has.                  *)
LEMMA NewIndirect ==
    ASSUME NEW t, NEW U, NEW e, NEW n, Writing(t, U, e, n), Num(Outcome(t), e, -1) = 0,
           NEW b, Spare(Outcome(t), b), NEW v, v = getblk(t, t.nextb, TRUE), ~ v.failed,
           NEW x, x = SetNodeOf([v EXCEPT !.nextb = @ + 1], e, [NodeOf(v, e) EXCEPT !.f_indirect = v.nextb])
    PROVE  Writing(x, U, e, n) /\ Num(Outcome(x), e, -1) # 0 /\ Spare(Outcome(x), b)
<1>1. Made(t, U)
  BY DEF Writing
<1>2. Made(v, U) /\ Alike(Outcome(t), Outcome(v)) /\ v.nextb = t.nextb /\ v.nextb \in Block
  BY ONLY <1>1, v = getblk(t, t.nextb, TRUE), ~ v.failed, ClearNext
<1>3. PICK w : w = [v EXCEPT !.nextb = @ + 1]
  OBVIOUS
<1>4. /\ Made(w, U) /\ Alike(Outcome(v), Outcome(w)) /\ Spare(Outcome(w), v.nextb) /\ w.disk = v.disk
      /\ w.failed = v.failed /\ w.nextb = v.nextb + 1
  BY ONLY <1>2, <1>3, Advance
<1>5. Alike(Outcome(t), Outcome(w))
  BY ONLY <1>2, <1>4, AlikeTrans
<1>6. Writing(w, U, e, n)
  BY <1>4, <1>5, WritingAlike
<1>7. /\ w \in Disks /\ e \in Block \X Index /\ e[1] \notin {1, 2} /\ e \in AllN(Outcome(w)) /\ Sound(Outcome(w))
      /\ NodeOf(w, e) = FileAt(Outcome(w), e) /\ NodeOf(w, e) \in File /\ Outcome(w) \in [Block -> Stuff]
  BY ONLY <1>6, WritingIs
<1>8. Spare(Outcome(w), b) /\ b # v.nextb /\ v.nextb # 0 /\ v.nextb \in Block
  <2>1. v.nextb \in Outcome(v)[2].free /\ v.nextb > 2
    BY ONLY <1>2, NextIsEmpty
  <2>2. t \in Disks /\ v \in Disks /\ w \in Disks /\ t.nextb \in Nat
    BY <1>1, <1>2, <1>7 DEF Made, Disks
  <2>3. /\ Outcome(t)[2].free = Block \ (0 .. t.nextb - 1) /\ Outcome(v)[2].free = Block \ (0 .. v.nextb - 1)
        /\ Outcome(w)[2].free = Block \ (0 .. w.nextb - 1)
    BY ONLY <2>2, OutcomeIs
  <2>4. b \notin Outcome(t)[2].free
    BY DEF Spare
  <2>5. b # v.nextb /\ b \notin Outcome(v)[2].free
    BY ONLY <1>2, <2>1, <2>3, <2>4
  <2>6. w.nextb - 1 = t.nextb
    BY <1>2, <1>4, <2>2
  <2>7. b \notin Outcome(w)[2].free
    BY ONLY <1>2, <2>2, <2>3, <2>5, <2>6
  <2>8. Spare(Outcome(t), b)
    OBVIOUS
  <2>9. Spare(Outcome(w), b)
    BY ONLY <1>5, <2>7, <2>8, AlikeSpare
  <2> QED BY ONLY <1>2, <2>1, <2>5, <2>9
<1>9. NodeOf(v, e) = NodeOf(w, e)
  BY <1>4 DEF NodeOf
<1>10. PICK f : f = [FileAt(Outcome(w), e) EXCEPT !.f_indirect = v.nextb]
  OBVIOUS
<1>11. f \in File
  BY <1>7, <1>8, <1>10 DEF File
<1>12. x = SetNodeOf(w, e, f)
  BY <1>3, <1>7, <1>9, <1>10
<1>13. /\ x \in Disks /\ x.root = w.root /\ x.nextb = w.nextb /\ x.disk[2] = w.disk[2]
       /\ Outcome(x) = WithNode(Outcome(w), e, f)
  BY ONLY <1>7, <1>11, <1>12, SetNodeOfIs
<1>14. Num(Outcome(w), e, -1) = 0
  BY <1>5, <1>7, Layout, Num(Outcome(t), e, -1) = 0 DEF Alike
<1>15. Renumbered(Outcome(w), Outcome(x), e, -1, v.nextb)
  BY ONLY <1>4, <1>7, <1>10, <1>13, <1>14, RenumberIndirect
<1>16. /\ n + 1 \in Nat /\ -1 \in Slot /\ -1 \notin Indirect /\ -1 # n /\ -1 \notin n + 1 .. NINDIRECT - 1
  BY <1>6, Layout, LayoutAssumption DEF Writing
<1>17. /\ -1 # n => Writing(x, U, e, n)
       /\ Num(Outcome(x), e, -1) = v.nextb
       /\ \A c : Spare(Outcome(w), c) /\ c # v.nextb => Spare(Outcome(x), c)
  BY ONLY <1>4, <1>6, <1>13, <1>14, <1>15, <1>16, Numbered
<1> QED BY <1>8, <1>16, <1>17

(* A number goes into the block of numbers.                                *)
LEMMA PutPtr ==
    ASSUME NEW t, NEW U, NEW e, NEW n \in Indirect, Writing(t, U, e, n), Num(Outcome(t), e, -1) # 0,
           NEW b, Spare(Outcome(t), b), NEW v, v = [t EXCEPT !.disk[NodeOf(t, e).f_indirect].ptr[n] = b],
           NEW x, x = putblk(v, NodeOf(t, e).f_indirect)
    PROVE  Writing(x, U, e, n + 1)
<1>1. /\ t \in Disks /\ e \in Block \X Index /\ e \in AllN(Outcome(t)) /\ Sound(Outcome(t))
      /\ NodeOf(t, e) = FileAt(Outcome(t), e) /\ Outcome(t) \in [Block -> Stuff] /\ Made(t, U)
  BY WritingIs DEF Writing
<1>2. PICK i : i = NodeOf(t, e).f_indirect
  OBVIOUS
<1>3. i = Num(Outcome(t), e, -1)
  BY <1>1, <1>2, Layout DEF Num
<1>4. i \in Block \ {1, 2} /\ i \in Block
  <2>1. i \in Block
    BY <1>1, <1>3, NumType, Layout
  <2>2. i > 2
    BY <1>1, <1>3, Layout DEF Sound, Held
  <2> QED BY <2>1, <2>2
<1>5. v = [t EXCEPT !.disk[i].ptr[n] = b]
  BY <1>2
<1>6. b \in Block
  BY DEF Spare
<1>7. /\ v \in Disks /\ v.root = t.root /\ v.nextb = t.nextb /\ v.disk[2] = t.disk[2]
      /\ Outcome(v) = WithPtr(Outcome(t), i, n, b)
  BY ONLY <1>1, <1>4, <1>5, <1>6, n \in Indirect, SetPtrIs
<1>8. Num(Outcome(t), e, -1) # 0 /\ n \in Indirect /\ Spare(Outcome(t), b) /\ Writing(t, U, e, n)
  OBVIOUS
<1>9. Renumbered(Outcome(t), Outcome(v), e, n, b)
  BY ONLY <1>1, <1>3, <1>6, <1>7, <1>8, RenumberPtr
<1>10. n \in Slot /\ n \notin n + 1 .. NINDIRECT - 1 /\ Num(Outcome(t), e, n) = 0
  BY Layout, LayoutAssumption DEF Writing, Clean, Indirect
<1>11. n = n => Writing(v, U, e, n + 1)
  BY ONLY <1>7, <1>8, <1>9, <1>10, Numbered
<1>12. x = putblk(v, i)
  BY <1>2
<1> QED BY ONLY <1>7, <1>11, <1>12, PutBack

(* SetBlock gives the file its block n.                                    *)
LEMMA SetBlockIs ==
    ASSUME NEW t, NEW U, NEW e, NEW n, Writing(t, U, e, n), NEW b, Spare(Outcome(t), b),
           NEW x, x = SetBlock(t, e, n, b), ~ x.failed
    PROVE  Writing(x, U, e, n + 1)
<1>1. /\ t \in Disks /\ e \in Block \X Index /\ e[1] \notin {1, 2} /\ e \in AllN(Outcome(t)) /\ Sound(Outcome(t))
      /\ NodeOf(t, e) = FileAt(Outcome(t), e) /\ NodeOf(t, e) \in File /\ Outcome(t) \in [Block -> Stuff]
      /\ Writing(t, U, e, n) /\ Spare(Outcome(t), b) /\ b \in Block
  BY WritingIs DEF Spare
<1>2. CASE n \in Direct
  <2>1. PICK f : f = [FileAt(Outcome(t), e) EXCEPT !.f_direct[n] = b]
    OBVIOUS
  <2>2. f \in File
    BY <1>1, <1>2, <2>1 DEF File
  <2>3. x = SetNodeOf(t, e, f)
    BY <1>1, <1>2, <2>1 DEF SetBlock
  <2>4. /\ x \in Disks /\ x.root = t.root /\ x.nextb = t.nextb /\ x.disk[2] = t.disk[2]
        /\ Outcome(x) = WithNode(Outcome(t), e, f)
    BY ONLY <1>1, <2>2, <2>3, SetNodeOfIs
  <2>5. Renumbered(Outcome(t), Outcome(x), e, n, b)
    BY ONLY <1>1, <1>2, <2>1, <2>4, RenumberDirect
  <2>6. n \in Slot /\ n \notin Indirect /\ n \notin n + 1 .. NINDIRECT - 1 /\ Num(Outcome(t), e, n) = 0
    BY <1>1, <1>2, Layout, LayoutAssumption DEF Writing, Clean, Direct
  <2>7. n = n => Writing(x, U, e, n + 1)
    BY ONLY <1>1, <2>4, <2>5, <2>6, Numbered
  <2> QED BY <2>7
<1>3. CASE n \notin Direct /\ n \in Indirect
  <2>1. PICK i : i = NodeOf(t, e).f_indirect
    OBVIOUS
  <2>2. i = Num(Outcome(t), e, -1)
    BY <1>1, <2>1, Layout DEF Num
  <2>3. PICK u : u = IF i # 0 THEN getblk(t, i, FALSE) ELSE NewPtrs(getblk(t, t.nextb, TRUE), e)
    OBVIOUS
  <2>4. x = IF u.failed THEN u ELSE putblk([u EXCEPT !.disk[NodeOf(u, e).f_indirect].ptr[n] = b], NodeOf(u, e).f_indirect)
    BY <1>3, <2>1, <2>3 DEF SetBlock, NewPtrs
  <2>5. ~ u.failed
    BY <2>4
  <2>6. Writing(u, U, e, n) /\ Num(Outcome(u), e, -1) # 0 /\ Spare(Outcome(u), b)
    <3>1. CASE i # 0
      <4>1. u = getblk(t, i, FALSE)
        BY <2>3, <3>1
      <4>2. u \in Disks /\ u.root = t.root /\ u.nextb = t.nextb /\ u.disk = t.disk
        BY ONLY <1>1, <2>5, <4>1, KeptBlk
      <4>3. Outcome(u) = Outcome(t)
        BY ONLY <4>2 DEF Outcome
      <4> QED BY <1>1, <2>2, <3>1, <4>2, <4>3 DEF Writing, Made, DirFull
    <3>2. CASE i = 0
      <4>1. PICK v : v = getblk(t, t.nextb, TRUE)
        OBVIOUS
      <4>2. u = IF v.failed THEN v
                ELSE SetNodeOf([v EXCEPT !.nextb = @ + 1], e, [NodeOf(v, e) EXCEPT !.f_indirect = v.nextb])
        BY <2>3, <3>2, <4>1 DEF NewPtrs
      <4>3. /\ ~ v.failed
            /\ u = SetNodeOf([v EXCEPT !.nextb = @ + 1], e, [NodeOf(v, e) EXCEPT !.f_indirect = v.nextb])
        BY <2>5, <4>2
      <4>4. Num(Outcome(t), e, -1) = 0
        BY <2>2, <3>2
      <4> QED BY ONLY <1>1, <4>1, <4>3, <4>4, NewIndirect
    <3> QED BY <3>1, <3>2
  <2>7. PICK v : v = [u EXCEPT !.disk[NodeOf(u, e).f_indirect].ptr[n] = b]
    OBVIOUS
  <2>8. x = putblk(v, NodeOf(u, e).f_indirect)
    BY <2>4, <2>5, <2>7
  <2> QED BY ONLY <1>3, <2>6, <2>7, <2>8, PutPtr
<1>4. CASE n \notin Direct /\ n \notin Indirect
  <2>1. x = [t EXCEPT !.failed = TRUE]
    BY <1>4 DEF SetBlock
  <2> QED BY <1>1, <2>1 DEF Disks
<1> QED BY <1>2, <1>3, <1>4

(* CopyBlock gives the file its block n.                                   *)
LEMMA CopyBlockIs ==
    ASSUME NEW t, NEW U, NEW e, NEW n, Writing(t, U, e, n), NEW word \in 0 .. MaxWord,
           NEW x, x = CopyBlock(t, e, n, word), ~ x.failed
    PROVE  Writing(x, U, e, n + 1)
<1>1. PICK b : b = t.nextb
  OBVIOUS
<1>2. PICK u : u = getblk(t, b, TRUE)
  OBVIOUS
<1>3. PICK y : y = [u EXCEPT !.nextb = @ + 1, !.disk[b].word = word]
  OBVIOUS
<1>4. PICK z : z = SetBlock(y, e, n, b)
  OBVIOUS
<1>5. x = IF u.failed THEN u ELSE IF z.failed THEN z ELSE putblk(z, b)
  BY <1>1, <1>2, <1>3, <1>4 DEF CopyBlock
<1>6. ~ u.failed /\ ~ z.failed /\ x = putblk(z, b)
  BY <1>5
<1>7. Made(t, U) /\ Writing(t, U, e, n)
  BY DEF Writing
<1>8. Made(u, U) /\ Alike(Outcome(t), Outcome(u)) /\ u.nextb = b /\ u.nextb \in Block
  BY ONLY <1>1, <1>2, <1>6, <1>7, ClearNext
<1>9. PICK w : w = [u EXCEPT !.nextb = @ + 1]
  OBVIOUS
<1>10. Made(w, U) /\ Alike(Outcome(u), Outcome(w)) /\ Spare(Outcome(w), u.nextb)
  BY ONLY <1>8, <1>9, Advance
<1>11. y = [w EXCEPT !.disk[b].word = word]
  BY ONLY <1>3, <1>9
<1>12. Spare(Outcome(w), b)
  BY <1>8, <1>10
<1>13. Made(y, U) /\ Alike(Outcome(w), Outcome(y)) /\ Spare(Outcome(y), b)
  BY ONLY <1>10, <1>11, <1>12, word \in 0 .. MaxWord, FreshWord
<1>14. Alike(Outcome(t), Outcome(w))
  BY ONLY <1>8, <1>10, AlikeTrans
<1>15. Alike(Outcome(t), Outcome(y))
  BY ONLY <1>13, <1>14, AlikeTrans
<1>16. Writing(y, U, e, n)
  BY ONLY <1>7, <1>13, <1>15, WritingAlike
<1>17. Writing(z, U, e, n + 1)
  BY ONLY <1>4, <1>6, <1>13, <1>16, SetBlockIs
<1>18. z \in Disks
  BY <1>17 DEF Writing, Made
<1> QED BY ONLY <1>6, <1>17, <1>18, PutBack

(* The blocks of a file, one after another.                                *)
CopyRound(n, x, e, words, h) ==
    h = [k \in 0 .. n |-> IF k = 0 THEN x ELSE CopyBlock(h[k - 1], e, k - 1, words[k])]

(* The rounds of CopyFile.                                                 *)
LEMMA CopyRounds ==
    ASSUME NEW n \in Nat, NEW x, NEW e, NEW words
    PROVE  \E h : CopyRound(n, x, e, words, h)
<1>1. PICK K : K = {j \in 0 .. n : \E h : CopyRound(j, x, e, words, h)}
  OBVIOUS
<1>2. 0 \in K
  <2>1. PICK h : h = [k \in 0 .. 0 |-> x]
    OBVIOUS
  <2>2. CopyRound(0, x, e, words, h)
    BY <2>1 DEF CopyRound
  <2> QED BY <1>1, <2>2
<1>3. ASSUME NEW i \in 0 .. n - 1, i \in K
      PROVE  i + 1 \in K
  <2>1. PICK j \in 0 .. n : j = i + 1 /\ j # 0 /\ i = j - 1
    OBVIOUS
  <2>2. PICK g : CopyRound(i, x, e, words, g)
    BY <1>1, <1>3
  <2>3. PICK h : h = [k \in 0 .. j |-> IF k = j THEN CopyBlock(g[i], e, i, words[j]) ELSE g[k]]
    OBVIOUS
  <2>4. \A k \in 0 .. i : h[k] = g[k] /\ g[k] = IF k = 0 THEN x ELSE CopyBlock(g[k - 1], e, k - 1, words[k])
    BY <2>1, <2>2, <2>3 DEF CopyRound
  <2>5. \A k \in 0 .. j : h[k] = IF k = 0 THEN x ELSE CopyBlock(h[k - 1], e, k - 1, words[k])
    <3>1. PICK y : y = CopyBlock(g[i], e, i, words[j])
      OBVIOUS
    <3>2. i \in 0 .. i /\ i \in 0 .. j /\ i # j /\ j \in 0 .. j
      BY <2>1
    <3>3. h[j] = y
      BY ONLY <2>3, <3>1, <3>2
    <3>4. h[i] = g[i]
      BY ONLY <2>4, <3>2
    <3>5. h[j] = CopyBlock(h[j - 1], e, j - 1, words[j])
      BY ONLY <2>1, <3>1, <3>3, <3>4
    <3>6. \A k \in 0 .. j : k # j => k \in 0 .. i /\ (k # 0 => k - 1 \in 0 .. i)
      BY <2>1
    <3>7. \A k \in 0 .. j : k # j => h[k] = IF k = 0 THEN x ELSE CopyBlock(h[k - 1], e, k - 1, words[k])
      BY ONLY <2>4, <3>6
    <3> QED BY ONLY <2>1, <3>5, <3>7
  <2>6. PICK f : f = [k \in 0 .. j |-> IF k = 0 THEN x ELSE CopyBlock(h[k - 1], e, k - 1, words[k])]
    OBVIOUS
  <2>7. h = f
    BY <2>3, <2>5, <2>6
  <2>8. CopyRound(j, x, e, words, h)
    BY <2>6, <2>7 DEF CopyRound
  <2> QED BY <1>1, <2>1, <2>8
<1>4. \A k \in 0 .. n : k \in K
  BY <1>2, <1>3, UpTo DEF Closed
<1> QED BY <1>1, <1>4

(* What has failed stays so.                                               *)
LEMMA CopyFailed ==
    ASSUME NEW t, t.failed, NEW e, NEW n, NEW word
    PROVE  CopyBlock(t, e, n, word).failed
  BY DEF CopyBlock, getblk

(* An element of a sequence.                                               *)
LEMMA InSeq ==
    ASSUME NEW S, NEW s \in Seq(S), NEW k \in 1 .. Len(s)
    PROVE  s[k] \in S
  OBVIOUS

(* CopyFile gives the file its blocks, one after another.                  *)
LEMMA CopyLoop ==
    ASSUME NEW t, NEW U, NEW e, Writing(t, U, e, 0), NEW words \in Seq(0 .. MaxWord),
           NEW x, x = CopyFile(t, e, words), ~ x.failed
    PROVE  Writing(x, U, e, Len(words))
<1>1. PICK n \in Nat : n = Len(words)
  OBVIOUS
<1>2. \A k \in 1 .. n : words[k] \in 0 .. MaxWord
  BY ONLY <1>1, words \in Seq(0 .. MaxWord), InSeq
<1>3. PICK g : CopyRound(n, t, e, words, g)
  BY CopyRounds
<1>4. g = [k \in 0 .. n |-> IF k = 0 THEN t ELSE CopyBlock(g[k - 1], e, k - 1, words[k - 1 + 1])]
  <2>1. \A k \in 0 .. n : k - 1 + 1 = k
    OBVIOUS
  <2> QED BY <1>3, <2>1 DEF CopyRound
<1>5. PICK h : /\ h = [k \in 0 .. n |-> IF k = 0 THEN t ELSE CopyBlock(h[k - 1], e, k - 1, words[k - 1 + 1])]
               /\ x = h[n]
  BY <1>1, <1>4 DEF Loop, CopyFile
<1>6. PICK K : K = {k \in 0 .. n : h[k].failed \/ Writing(h[k], U, e, k)}
  OBVIOUS
<1>7. 0 \in K
  BY <1>5, <1>6
<1>8. ASSUME NEW k \in 0 .. n - 1, k \in K
      PROVE  k + 1 \in K
  <2>1. PICK j \in 0 .. n : j = k + 1 /\ j # 0 /\ j - 1 = k /\ j \in 1 .. n /\ j - 1 + 1 = j
    BY <1>1
  <2>2. h[j] = CopyBlock(h[j - 1], e, j - 1, words[j - 1 + 1])
    BY <1>5, <2>1
  <2>3. h[j] = CopyBlock(h[k], e, k, words[j])
    BY <2>1, <2>2
  <2>4. PICK y : y = h[k]
    OBVIOUS
  <2>5. PICK z : z = h[j]
    OBVIOUS
  <2>6. PICK w \in 0 .. MaxWord : w = words[j]
    BY <1>2, <2>1
  <2>7. z = CopyBlock(y, e, k, w)
    BY <2>3, <2>4, <2>5, <2>6
  <2>8. y.failed \/ Writing(y, U, e, k)
    BY <1>6, <1>8, <2>4
  <2>9. z.failed \/ Writing(z, U, e, k + 1)
    <3>1. y.failed => z.failed
      BY ONLY <2>7, CopyFailed
    <3>2. Writing(y, U, e, k) /\ ~ z.failed => Writing(z, U, e, k + 1)
      BY ONLY <2>6, <2>7, CopyBlockIs
    <3> QED BY <2>8, <3>1, <3>2
  <2> QED BY <1>6, <2>1, <2>5, <2>9
<1>9. \A k \in 0 .. n : k \in K
  BY <1>7, <1>8, UpTo DEF Closed
<1>10. n \in K
  BY <1>9
<1> QED BY <1>1, <1>5, <1>6, <1>10

(* A file's node is rewritten, and has a name.                             *)
LEMMA NodeMade ==
    ASSUME NEW t, NEW U, Made(t, U), NEW e \in DirSet(Outcome(t)) \X Index, NEW f \in File,
           f.f_direct = NodeOf(t, e).f_direct, f.f_indirect = NodeOf(t, e).f_indirect,
           OwnName(Outcome(t), e, f.f_name), f.f_name # NoName,
           NEW W, U \subseteq W, f.f_name \in W, NEW u, u = SetNodeOf(t, e, f)
    PROVE  Made(u, W) /\ NodeAt(Outcome(t), Outcome(u), e, f) /\ u.failed = t.failed
<1>1. PICK m : m = Outcome(t)
  OBVIOUS
<1>2. PICK m2 : m2 = Outcome(u)
  OBVIOUS
<1>3. t \in Disks /\ Sound(m) /\ e \in DirSet(m) \X Index /\ Named(m, U) /\ DirFull(t)
      /\ 3 <= t.nextb /\ t.nextb <= NBlock /\ t.disk[2].free = Block
  BY ONLY <1>1, Made(t, U), e \in DirSet(Outcome(t)) \X Index DEF Made
<1>4. /\ m \in [Block -> Stuff] /\ e \in AllN(m) /\ e # Root /\ e \in Block \X Index /\ e[1] > 2
      /\ DirSet(m) \X Index \subseteq AllN(m)
  BY ONLY <1>3, DirAbove
<1>5. e[1] \notin {1, 2}
  BY <1>4
<1>6. /\ u \in Disks /\ u.root = t.root /\ u.nextb = t.nextb /\ u.failed = t.failed
      /\ u.disk[2] = t.disk[2] /\ m2 = WithNode(m, e, f) /\ NodeOf(t, e) = FileAt(m, e)
  BY ONLY <1>1, <1>2, <1>3, <1>4, <1>5, f \in File, u = SetNodeOf(t, e, f), SetNodeOfIs
<1>7. /\ f.f_direct = FileAt(m, e).f_direct /\ f.f_indirect = FileAt(m, e).f_indirect
      /\ OwnName(m, e, f.f_name)
  BY <1>1, <1>6
<1>8. Sound(m2) /\ NodeAt(m, m2, e, f)
  BY ONLY <1>3, <1>4, <1>6, <1>7, f \in File, SoundNode
<1>9. Named(m2, W)
  BY ONLY <1>3, <1>4, <1>8, f.f_name # NoName, f.f_name \in W, U \subseteq W DEF Named, NodeAt
<1>10. DirFull(u)
  BY <1>3, <1>6 DEF DirFull
<1> QED BY <1>1, <1>2, <1>3, <1>6, <1>8, <1>9, <1>10 DEF Made

(* A node without a name, in the directory's last block.                   *)
Unnamed(d, U) ==
    /\ Made(d.t, U) /\ d.at \in DirSet(Outcome(d.t)) \X Index
    /\ FileAt(Outcome(d.t), d.at).f_name = NoName

(* A free entry of the directory's last block is an unnamed node.          *)
LEMMA FreeEntry ==
    ASSUME NEW t, NEW U, Made(t, U), t.root.f_size # 0, NEW last, last = t.root.f_direct[t.root.f_size - 1],
           NEW i \in Index, t.disk[last].file[i].f_name = NoName, NEW d,
           d.t = getblk(t, last, FALSE), d.at = <<last, i>>, ~ d.t.failed
    PROVE  Unnamed(d, U)
<1>1. PICK m : m = Outcome(t)
  OBVIOUS
<1>2. t \in Disks /\ Sound(m) /\ DirFull(t)
  BY <1>1 DEF Made
<1>3. PICK n : n = t.root.f_size - 1
  OBVIOUS
<1>4. t.root.f_size \in 0 .. NINDIRECT /\ t.root.f_size <= NDIRECT
  BY <1>2 DEF Disks, File, DirFull
<1>5. n \in Direct /\ n \in Slot \ {-1} /\ n \in 0 .. t.root.f_size - 1
  <2>1. n \in 0 .. NDIRECT - 1 /\ n \in 0 .. t.root.f_size - 1
    BY ONLY <1>3, <1>4, t.root.f_size # 0, LayoutAssumption
  <2>2. n \in Direct
    BY ONLY <2>1 DEF Direct
  <2> QED BY <2>1, <2>2, Layout
<1>6. last # 0 /\ last = t.root.f_direct[n]
  BY ONLY <1>2, <1>3, <1>5, last = t.root.f_direct[t.root.f_size - 1] DEF DirFull
<1>7. m[1] = Super(t.root) /\ t.root \in File
  BY ONLY <1>1, <1>2, OutcomeIs DEF Disks
<1>8. FileAt(m, Root) = t.root
  BY <1>7, SuperIs, Layout DEF FileAt, Root, SuperBlock
<1>9. Num(m, Root, n) = last
  BY <1>5, <1>6, <1>8 DEF Num
<1>10. last \in DirSet(m)
  BY <1>5, <1>6, <1>9 DEF DirSet
<1>11. last \in Block /\ last > 2
  BY ONLY <1>2, <1>10, DirAbove
<1>12. last \in Block \ {1, 2}
  BY <1>11
<1>13. m[last] = t.disk[last]
  BY ONLY <1>1, <1>2, <1>12, OutcomeIs
<1>14. PICK u : u = d.t
  OBVIOUS
<1>15. u = getblk(t, last, FALSE) /\ ~ u.failed
  BY ONLY <1>14, d.t = getblk(t, last, FALSE), ~ d.t.failed
<1>16. u \in Disks /\ u.root = t.root /\ u.nextb = t.nextb /\ u.disk = t.disk
  BY ONLY <1>2, <1>15, KeptBlk
<1>17. Outcome(u) = m
  BY ONLY <1>1, <1>16 DEF Outcome
<1>18. Made(u, U)
  BY ONLY <1>1, <1>16, <1>17, Made(t, U) DEF Made, DirFull
<1>19. PICK e : e = d.at
  OBVIOUS
<1>20. e = <<last, i>> /\ FileAt(m, e).f_name = NoName
  <2>1. e = <<last, i>>
    BY ONLY <1>19, d.at = <<last, i>>
  <2>2. e[1] = last /\ e[2] = i
    BY ONLY <2>1
  <2> QED BY ONLY <1>13, <2>1, <2>2, t.disk[last].file[i].f_name = NoName DEF FileAt
<1>21. e \in DirSet(m) \X Index
  BY <1>10, <1>20
<1> QED BY ONLY <1>14, <1>17, <1>18, <1>19, <1>20, <1>21 DEF Unnamed

(* One more block for the directory.                                       *)
DirGrown(t, u, n, b, r, r2) ==
    /\ n = t.root.f_size
    /\ r = [t.root EXCEPT !.f_size = n + 1]
    /\ r2 = [r EXCEPT !.f_direct[n] = b]
    /\ u = [t EXCEPT !.root = r2]

(* A new block of the directory has unnamed nodes.                         *)
LEMMA NewEntries ==
    ASSUME NEW t, NEW U, Made(t, U), NEW n \in Direct, NEW b, Spare(Outcome(t), b),
           NEW r, NEW r2, NEW u, DirGrown(t, u, n, b, r, r2)
    PROVE  /\ Made(u, U) /\ u.failed = t.failed
           /\ \A j \in Index : <<b, j>> \in DirSet(Outcome(u)) \X Index /\ FileAt(Outcome(u), <<b, j>>) = NoFile
<1>0. /\ n = t.root.f_size /\ r = [t.root EXCEPT !.f_size = n + 1] /\ r2 = [r EXCEPT !.f_direct[n] = b]
      /\ u = [t EXCEPT !.root = r2]
  BY DEF DirGrown
<1>1. PICK m : m = Outcome(t)
  OBVIOUS
<1>2. /\ t \in Disks /\ Sound(m) /\ DirFull(t) /\ Named(m, U) /\ 3 <= t.nextb /\ t.nextb <= NBlock
      /\ t.disk[2].free = Block /\ Spare(m, b)
  BY ONLY <1>1, Made(t, U), Spare(Outcome(t), b) DEF Made
<1>3. m[1] = Super(t.root) /\ t.root \in File
  BY ONLY <1>1, <1>2, OutcomeIs DEF Disks
<1>4. FileAt(m, Root) = t.root
  BY <1>3, SuperIs, Layout DEF FileAt, Root, SuperBlock
<1>5. PICK x : x = t.root
  OBVIOUS
<1>6. n \in Nat /\ n + 1 \in 0 .. NINDIRECT /\ n + 1 <= NDIRECT /\ n \in Slot \ {-1} /\ n # -1 /\ n \notin Indirect
  BY ONLY n \in Direct, Layout, LayoutAssumption DEF Direct
<1>7. /\ r \in File /\ r.f_direct = x.f_direct /\ r.f_indirect = x.f_indirect /\ r.f_name = x.f_name
      /\ r.f_size = n + 1 /\ x.f_size = n
  BY ONLY <1>0, <1>3, <1>5, <1>6 DEF File
<1>8. b \in Block /\ b > 2
  BY <1>2 DEF Spare
<1>9. r.f_direct \in [Direct -> Block]
  BY <1>7 DEF File
<1>10. PICK v : v = [r.f_direct EXCEPT ![n] = b]
  OBVIOUS
<1>11. v \in [Direct -> Block]
  BY ONLY <1>8, <1>9, <1>10
<1>12. r2 = [r EXCEPT !.f_direct = v]
  BY ONLY <1>0, <1>10
<1>13. r2 \in File /\ r2.f_size = n + 1 /\ r2.f_direct = v
  BY ONLY <1>7, <1>11, <1>12 DEF File
<1>14. PICK w : w = [t EXCEPT !.root = r]
  OBVIOUS
<1>15. PICK m1 : m1 = Outcome(w)
  OBVIOUS
<1>16. w \in Disks /\ w.root = r /\ m1 = WithNode(m, Root, r)
  <2>1. RootSet(t, w, r)
    BY ONLY <1>14 DEF RootSet
  <2> QED BY ONLY <1>1, <1>2, <1>7, <1>15, <2>1, SetRootIs
<1>17. RootSet(w, u, r2)
  BY ONLY <1>0, <1>2, <1>14 DEF Disks, RootSet
<1>18. PICK m2 : m2 = Outcome(u)
  OBVIOUS
<1>19. /\ u \in Disks /\ u.root = r2 /\ m2 = WithNode(m1, Root, r2)
  <2>1. w \in Disks /\ r2 \in File
    BY ONLY <1>13, <1>16
  <2>2. u \in Disks /\ u.root = r2 /\ Outcome(u) = WithNode(Outcome(w), Root, r2)
    BY ONLY <1>17, <2>1, SetRootIs
  <2> QED BY ONLY <1>15, <1>18, <2>2
<1>20. u.nextb = t.nextb /\ u.failed = t.failed /\ u.disk = t.disk
  BY ONLY <1>0, <1>2 DEF Disks
<1>21. /\ m \in [Block -> Stuff] /\ Root \in AllN(m) /\ Root \notin DirSet(m) \X Index
       /\ DirSet(m) \X Index \subseteq AllN(m) /\ x.f_name = RootName
  BY ONLY <1>2, <1>4, <1>5, DirAbove, NodesType DEF Sound
<1>22. OwnName(m, Root, r.f_name)
  BY ONLY <1>21 DEF OwnName
<1>23. Sound(m1) /\ NodeAt(m, m1, Root, r)
  <2>1. /\ r.f_direct = FileAt(m, Root).f_direct /\ r.f_indirect = FileAt(m, Root).f_indirect
        /\ r.f_name = RootName /\ r.f_size >= FileAt(m, Root).f_size
    BY <1>4, <1>5, <1>6, <1>7, <1>21
  <2> QED BY ONLY <1>2, <1>7, <1>16, <1>21, <1>22, <2>1, SoundNode
<1>24. /\ FileAt(m1, Root) = r /\ Root \in AllN(m1) /\ DirSet(m1) = DirSet(m) /\ AllN(m1) = AllN(m)
       /\ m1 \in [Block -> Stuff]
  BY ONLY <1>21, <1>23, NodesType DEF NodeAt, Sound
<1>25. Num(m, Root, n) = 0
  BY ONLY <1>2, <1>4, <1>5, <1>6, <1>7 DEF Sound, RootBelow
<1>26. Num(m1, Root, n) = 0
  BY ONLY <1>6, <1>21, <1>23, <1>25 DEF NodeAt
<1>27. Spare(m1, b)
  BY ONLY <1>2, <1>23 DEF Spare, NodeAt
<1>28. m2 = WithNode(m1, Root, [FileAt(m1, Root) EXCEPT !.f_direct[n] = b])
  BY ONLY <1>0, <1>19, <1>24
<1>29. Renumbered(m1, m2, Root, n, b)
  BY ONLY <1>8, <1>24, <1>28, n \in Direct, RenumberDirect
<1>30. Root = Root /\ n # -1 => n < FileAt(m1, Root).f_size
  BY <1>6, <1>7, <1>24
<1>31. n \in Indirect => Num(m1, Root, -1) # 0
  BY <1>6
<1>32. n \in Slot
  BY <1>6
<1>33. Sound(m2)
  BY ONLY <1>23, <1>24, <1>26, <1>27, <1>29, <1>30, <1>31, <1>32, SoundClaim
<1>34. /\ DirSet(m2) = DirSet(m1) \cup {b}
       /\ \A j \in Index : FileAt(m2, <<b, j>>) = NoFile /\ \A k \in Slot : Num(m2, <<b, j>>, k) = 0
  <2>1. /\ DirSet(m2) = DirSet(m1) \cup (IF Root = Root /\ n # -1 THEN {b} ELSE {})
        /\ \A j \in Index : Root = Root /\ n # -1 =>
                  FileAt(m2, <<b, j>>) = NoFile /\ \A k \in Slot : Num(m2, <<b, j>>, k) = 0
    BY ONLY <1>23, <1>24, <1>26, <1>27, <1>29, <1>31, <1>32, ClaimNodes
  <2> QED BY <1>6, <2>1
<1>35. Named(m2, U)
  <2> SUFFICES ASSUME NEW q \in DirSet(m2) \X Index
               PROVE  /\ FileAt(m2, q).f_name \in U \cup {NoName}
                      /\ FileAt(m2, q).f_name = NoName => \A k \in Slot : Num(m2, q, k) = 0
    BY DEF Named
  <2>1. CASE q \in DirSet(m) \X Index
    <3>1. q \in AllN(m) /\ q # Root /\ q \in Block \X Index
      BY ONLY <1>2, <2>1, DirAbove
    <3>2. FileAt(m1, q) = FileAt(m, q) /\ \A k \in Slot : Num(m1, q, k) = Num(m, q, k)
      BY ONLY <1>23, <3>1 DEF NodeAt
    <3>3. FileAt(m2, q).f_name = FileAt(m1, q).f_name /\ \A k \in Slot : Num(m2, q, k) = Num(m1, q, k)
      BY ONLY <1>24, <1>29, <3>1 DEF Renumbered
    <3> QED BY ONLY <1>2, <2>1, <3>2, <3>3 DEF Named
  <2>2. CASE q \notin DirSet(m) \X Index
    <3>1. PICK j \in Index : q = <<b, j>>
      BY <1>24, <1>34, <2>2
    <3> QED BY <1>34, <3>1 DEF NoFile
  <2> QED BY <2>1, <2>2
<1>36. DirFull(u)
  <2>1. \A k \in 0 .. n : k # n => k \in 0 .. n - 1
    BY <1>6
  <2>2. \A k \in 0 .. n : k \in Direct
    BY <1>6, LayoutAssumption DEF Direct
  <2>3. \A k \in 0 .. n - 1 : x.f_direct[k] # 0
    BY <1>2, <1>5, <1>7 DEF DirFull
  <2>4. \A k \in 0 .. n : v[k] # 0
    BY ONLY <1>7, <1>8, <1>9, <1>10, <2>1, <2>2, <2>3
  <2>5. n + 1 - 1 = n
    BY <1>6
  <2>6. PICK y : y = u.root
    OBVIOUS
  <2>7. y.f_size = n + 1 /\ y.f_direct = v
    BY ONLY <1>13, <1>19, <2>6
  <2> QED BY ONLY <1>6, <2>4, <2>5, <2>6, <2>7 DEF DirFull
<1>37. Made(u, U)
  BY ONLY <1>2, <1>18, <1>19, <1>20, <1>33, <1>35, <1>36 DEF Made
<1> QED BY <1>18, <1>20, <1>34, <1>37

(* FreeNode gives an unnamed node that has no blocks.                      *)
LEMMA FreeNodeIs ==
    ASSUME NEW t, NEW U, Made(t, U), NEW d, d = FreeNode(t), ~ d.t.failed
    PROVE  Unnamed(d, U)
<1>1. PICK last : last = t.root.f_direct[t.root.f_size - 1]
  OBVIOUS
<1>2. PICK free : free = IF t.root.f_size = 0 THEN {} ELSE {i \in Index : t.disk[last].file[i].f_name = NoName}
  OBVIOUS
<1>3. PICK u : u = getblk(t, t.nextb, TRUE)
  OBVIOUS
<1>4. PICK i : i = CHOOSE k \in free : \A j \in free : k <= j
  OBVIOUS
<1>5. PICK g : g = [u EXCEPT !.root.f_direct[t.root.f_size] = t.nextb, !.root.f_size = @ + 1, !.nextb = @ + 1]
  OBVIOUS
<1>6. d = IF free # {} THEN [t |-> getblk(t, last, FALSE), at |-> <<last, i>>]
          ELSE IF u.failed \/ t.root.f_size \notin Direct THEN [t |-> [u EXCEPT !.failed = TRUE], at |-> Root]
          ELSE [t |-> g, at |-> <<t.nextb, 0>>]
  BY ONLY <1>1, <1>2, <1>3, <1>4, <1>5, d = FreeNode(t) DEF FreeNode
<1>7. CASE free # {}
  <2>1. d.t = getblk(t, last, FALSE) /\ d.at = <<last, i>>
    BY <1>6, <1>7
  <2>2. t.root.f_size # 0 /\ free \subseteq Index /\ \A j \in free : t.disk[last].file[j].f_name = NoName
    BY ONLY <1>2, <1>7
  <2>3. free \in SUBSET Nat
    BY <2>2, LayoutAssumption DEF Index
  <2>4. \E k \in free : \A j \in free : k <= j
    BY ONLY <1>7, <2>3, Smallest
  <2>5. i \in free
    BY ONLY <1>4, <2>4
  <2>6. i \in Index /\ t.disk[last].file[i].f_name = NoName
    BY ONLY <2>2, <2>5
  <2> QED BY ONLY <1>1, <2>1, <2>2, <2>6, Made(t, U), ~ d.t.failed, FreeEntry
<1>8. CASE free = {}
  <2>1. PICK n : n = t.root.f_size
    OBVIOUS
  <2>2. PICK b : b = t.nextb
    OBVIOUS
  <2>3. ~ u.failed /\ n \in Direct /\ d.t = g /\ d.at = <<b, 0>>
    <3>1. ~ (u.failed \/ t.root.f_size \notin Direct)
      <4>1. CASE u.failed \/ t.root.f_size \notin Direct
        <5>1. d.t = [u EXCEPT !.failed = TRUE]
          BY ONLY <1>6, <1>8, <4>1
        <5>2. t \in Disks
          BY DEF Made
        <5>3. [u EXCEPT !.failed = TRUE].failed
          BY ONLY <1>3, <5>2 DEF getblk, Disks
        <5> QED BY ONLY <5>1, <5>3, ~ d.t.failed
      <4> QED BY ONLY <4>1
    <3>2. d = [t |-> g, at |-> <<t.nextb, 0>>]
      BY ONLY <1>6, <1>8, <3>1
    <3> QED BY ONLY <2>1, <2>2, <3>1, <3>2
  <2>4. Made(u, U) /\ Alike(Outcome(t), Outcome(u)) /\ u.nextb = b /\ u.nextb \in Block /\ u.root = t.root
    BY ONLY <1>3, <2>2, <2>3, Made(t, U), ClearNext
  <2>5. PICK w : w = [u EXCEPT !.nextb = @ + 1]
    OBVIOUS
  <2>6. /\ Made(w, U) /\ Spare(Outcome(w), b) /\ w.root = u.root
    BY ONLY <2>4, <2>5, Advance
  <2>7. PICK r : r = [w.root EXCEPT !.f_size = n + 1]
    OBVIOUS
  <2>8. PICK r2 : r2 = [r EXCEPT !.f_direct[n] = b]
    OBVIOUS
  <2>9. PICK x : x = [w EXCEPT !.root = r2]
    OBVIOUS
  <2>10. DirGrown(w, x, n, b, r, r2)
    BY ONLY <2>1, <2>4, <2>6, <2>7, <2>8, <2>9 DEF DirGrown
  <2>11. /\ Made(x, U)
         /\ \A j \in Index : <<b, j>> \in DirSet(Outcome(x)) \X Index /\ FileAt(Outcome(x), <<b, j>>) = NoFile
    BY ONLY <2>3, <2>6, <2>10, NewEntries
  <2>12. x = g
    <3>1. u \in Disks
      BY <2>4 DEF Made
    <3>2. PICK q \in File : q = u.root
      BY <3>1 DEF Disks
    <3>3. PICK q2 : q2 = [q EXCEPT !.f_direct[n] = b, !.f_size = @ + 1]
      OBVIOUS
    <3>4. g = [u EXCEPT !.root = q2, !.nextb = @ + 1]
      BY ONLY <1>5, <2>1, <2>2, <3>1, <3>2, <3>3 DEF Disks
    <3>5. x = [u EXCEPT !.root = r2, !.nextb = @ + 1]
      BY ONLY <2>5, <2>9, <3>1 DEF Disks
    <3>6. q2 = r2
      BY ONLY <2>1, <2>4, <2>6, <2>7, <2>8, <3>2, <3>3 DEF File
    <3> QED BY ONLY <3>4, <3>5, <3>6
  <2>13. PICK e : e = <<b, 0>>
    OBVIOUS
  <2>14. e \in DirSet(Outcome(x)) \X Index /\ FileAt(Outcome(x), e).f_name = NoName
    BY ONLY <2>11, <2>13, Layout DEF NoFile
  <2> QED BY ONLY <2>3, <2>11, <2>12, <2>13, <2>14 DEF Unnamed
<1> QED BY <1>7, <1>8

(* It gets a name that no file has, and writing can start.                 *)
LEMMA NameIsNew ==
    ASSUME NEW t, NEW U, U \subseteq Name, NEW d, Unnamed(d, U), NEW e, e = d.at, t = d.t,
           NEW name \in Name \ U, NEW u, u = SetNodeOf(t, e, [NodeOf(t, e) EXCEPT !.f_name = name])
    PROVE  Writing(u, U \cup {name}, e, 0)
<1>1. PICK m : m = Outcome(t)
  OBVIOUS
<1>2. PICK m2 : m2 = Outcome(u)
  OBVIOUS
<1>3. PICK W : W = U \cup {name}
  OBVIOUS
<1>4. /\ Made(t, U) /\ Sound(m) /\ Named(m, U) /\ t \in Disks /\ e \in DirSet(m) \X Index
      /\ FileAt(m, e).f_name = NoName
  BY ONLY <1>1, Unnamed(d, U), e = d.at, t = d.t DEF Unnamed, Made
<1>5. /\ m \in [Block -> Stuff] /\ e \in AllN(m) /\ e # Root /\ e \in Block \X Index /\ e[1] > 2
      /\ DirSet(m) \X Index \subseteq AllN(m)
  BY ONLY <1>4, DirAbove
<1>6. e[1] \in Block \ {1, 2}
  BY <1>5
<1>7. m[e[1]] = t.disk[e[1]]
  BY ONLY <1>1, <1>4, <1>6, OutcomeIs
<1>8. NodeOf(t, e) = FileAt(m, e) /\ NodeOf(t, e) \in File
  BY <1>5, <1>7, NumType DEF NodeOf, FileAt
<1>9. PICK g : g = NodeOf(t, e)
  OBVIOUS
<1>10. PICK f : f = [g EXCEPT !.f_name = name]
  OBVIOUS
<1>11. f \in File /\ f.f_direct = g.f_direct /\ f.f_indirect = g.f_indirect /\ f.f_name = name
  BY ONLY <1>8, <1>9, <1>10, name \in Name \ U DEF File
<1>12. name # NoName /\ name \in W /\ U \subseteq W
  BY <1>3, LayoutAssumption
<1>13. OwnName(m, e, name)
  BY ONLY <1>4, <1>12, name \in Name \ U DEF OwnName, Named
<1>14. u = SetNodeOf(t, e, f)
  BY <1>9, <1>10
<1>15. Made(u, W) /\ NodeAt(m, m2, e, f)
  <2>1. /\ f.f_direct = NodeOf(t, e).f_direct /\ f.f_indirect = NodeOf(t, e).f_indirect
        /\ OwnName(Outcome(t), e, f.f_name) /\ f.f_name # NoName /\ f.f_name \in W
        /\ e \in DirSet(Outcome(t)) \X Index /\ f \in File
    BY ONLY <1>1, <1>4, <1>9, <1>11, <1>12, <1>13
  <2>2. Made(u, W) /\ NodeAt(Outcome(t), Outcome(u), e, f)
    BY ONLY <1>4, <1>12, <1>14, <2>1, NodeMade
  <2> QED BY ONLY <1>1, <1>2, <2>2
<1>16. e \in DirSet(m2) \X Index /\ FileAt(m2, e).f_name # NoName /\ \A k \in Slot : Num(m2, e, k) = Num(m, e, k)
  BY ONLY <1>4, <1>5, <1>11, <1>12, <1>15 DEF NodeAt
<1>17. \A k \in Slot : Num(m, e, k) = 0
  BY ONLY <1>4 DEF Named
<1>18. \A k \in 0 .. NINDIRECT - 1 : k \in Slot
  BY Layout
<1>19. Clean(m2, e, 0)
  BY ONLY <1>16, <1>17, <1>18 DEF Clean
<1>20. 0 \in 0 .. NINDIRECT
  BY LayoutAssumption
<1> QED BY ONLY <1>2, <1>3, <1>15, <1>16, <1>19, <1>20 DEF Writing

(* The size at last.                                                       *)
LEMMA SizeIsSet ==
    ASSUME NEW t, NEW U, NEW e, NEW n, Writing(t, U, e, n),
           NEW u, u = SetNodeOf(t, e, [NodeOf(t, e) EXCEPT !.f_size = n])
    PROVE  Made(u, U)
<1>1. PICK m : m = Outcome(t)
  OBVIOUS
<1>2. /\ t \in Disks /\ e \in Block \X Index /\ e[1] \notin {1, 2} /\ e # Root /\ e \in AllN(m)
      /\ NodeOf(t, e) = FileAt(m, e) /\ NodeOf(t, e) \in File /\ Sound(m)
  BY <1>1, WritingIs
<1>3. Made(t, U) /\ Named(m, U) /\ e \in DirSet(m) \X Index /\ FileAt(m, e).f_name # NoName /\ n \in 0 .. NINDIRECT
  BY ONLY <1>1, Writing(t, U, e, n) DEF Writing, Made
<1>4. PICK g : g = NodeOf(t, e)
  OBVIOUS
<1>5. PICK f : f = [g EXCEPT !.f_size = n]
  OBVIOUS
<1>6. f \in File /\ f.f_direct = g.f_direct /\ f.f_indirect = g.f_indirect /\ f.f_name = g.f_name
  BY ONLY <1>2, <1>3, <1>4, <1>5 DEF File
<1>7. f.f_name = FileAt(m, e).f_name
  BY ONLY <1>2, <1>4, <1>6
<1>8. f.f_name # NoName /\ f.f_name \in U
  BY ONLY <1>3, <1>7 DEF Named
<1>9. OwnName(m, e, f.f_name)
  <2>1. NamesOnce(m)
    BY ONLY <1>2 DEF Sound
  <2> QED BY ONLY <1>3, <1>7, <2>1 DEF OwnName, NamesOnce
<1>10. u = SetNodeOf(t, e, f)
  BY <1>4, <1>5
<1>11. /\ f.f_direct = NodeOf(t, e).f_direct /\ f.f_indirect = NodeOf(t, e).f_indirect
       /\ OwnName(Outcome(t), e, f.f_name) /\ e \in DirSet(Outcome(t)) \X Index /\ f \in File /\ U \subseteq U
  BY ONLY <1>1, <1>3, <1>4, <1>6, <1>9
<1> QED BY ONLY <1>3, <1>8, <1>10, <1>11, NodeMade

(* A file of the host goes to the disk.                                    *)
LEMMA WriteFileIs ==
    ASSUME NEW t, NEW U, U \subseteq Name, Made(t, U), NEW f, f.name \in Name \ U, f.words \in Seq(0 .. MaxWord),
           NEW x, x = writefile(t, f), ~ x.failed
    PROVE  Made(x, U \cup {f.name})
<1>1. PICK d : d = FreeNode(t)
  OBVIOUS
<1>2. PICK e : e = d.at
  OBVIOUS
<1>3. PICK t1 : t1 = d.t
  OBVIOUS
<1>4. PICK t2 : t2 = SetNodeOf(t1, e, [NodeOf(t1, e) EXCEPT !.f_name = f.name])
  OBVIOUS
<1>5. PICK t3 : t3 = CopyFile(t2, e, f.words)
  OBVIOUS
<1>6. PICK t4 : t4 = IF f.even THEN getblk(t3, t3.nextb, TRUE) ELSE t3
  OBVIOUS
<1>7. PICK t5 : t5 = SetNodeOf(t4, e, [NodeOf(t4, e) EXCEPT !.f_size = Len(f.words)])
  OBVIOUS
<1>8. x = IF t.failed THEN t ELSE IF t1.failed THEN [t EXCEPT !.failed = TRUE]
          ELSE IF t4.failed THEN [t EXCEPT !.failed = TRUE] ELSE putblk(t5, e[1])
  BY ONLY <1>1, <1>2, <1>3, <1>4, <1>5, <1>6, <1>7, x = writefile(t, f) DEF writefile
<1>9. ~ t1.failed /\ ~ t4.failed /\ x = putblk(t5, e[1])
  <2>1. t \in Disks
    BY DEF Made
  <2> QED BY ONLY <1>8, <2>1, ~ x.failed DEF Disks
<1>10. ~ t3.failed
  BY ONLY <1>6, <1>9 DEF getblk
<1>11. Unnamed(d, U)
  BY ONLY <1>1, <1>3, <1>9, Made(t, U), FreeNodeIs
<1>12. PICK name \in Name \ U : name = f.name
  OBVIOUS
<1>13. PICK W : W = U \cup {name}
  OBVIOUS
<1>14. t2 = SetNodeOf(t1, e, [NodeOf(t1, e) EXCEPT !.f_name = name])
  BY <1>4, <1>12
<1>15. Writing(t2, W, e, 0)
  BY ONLY <1>2, <1>3, <1>11, <1>13, <1>14, name \in Name \ U, U \subseteq Name, NameIsNew
<1>16. PICK words \in Seq(0 .. MaxWord) : words = f.words
  OBVIOUS
<1>17. PICK n : n = Len(words)
  OBVIOUS
<1>18. Writing(t3, W, e, n)
  BY ONLY <1>5, <1>10, <1>15, <1>16, <1>17, CopyLoop
<1>19. Writing(t4, W, e, n)
  <2>1. CASE f.even
    <3>1. t4 = getblk(t3, t3.nextb, TRUE)
      BY <1>6, <2>1
    <3>2. Made(t3, W)
      BY <1>18 DEF Writing
    <3>3. Made(t4, W) /\ Alike(Outcome(t3), Outcome(t4))
      BY ONLY <1>9, <3>1, <3>2, ClearNext
    <3> QED BY ONLY <1>18, <3>3, WritingAlike
  <2>2. CASE ~ f.even
    <3>1. t4 = t3
      BY ONLY <1>6, <2>2
    <3> QED BY ONLY <1>18, <3>1
  <2> QED BY <2>1, <2>2
<1>20. t5 = SetNodeOf(t4, e, [NodeOf(t4, e) EXCEPT !.f_size = n])
  BY <1>7, <1>16, <1>17
<1>21. Made(t5, W)
  BY ONLY <1>19, <1>20, SizeIsSet
<1>22. t5 \in Disks
  BY <1>21 DEF Made
<1>23. Made(x, W)
  BY ONLY <1>9, <1>21, <1>22, PutBack
<1> QED BY <1>12, <1>13, <1>23

(* A new disk has no files.                                                *)
LEMMA NewDisk == opendisk \in Disks /\ Made(opendisk, {})
<1>1. PICK t : t = opendisk
  OBVIOUS
<1>2. PICK z : z = Zeroed
  OBVIOUS
<1>3. PICK r : r = [NoFile EXCEPT !.f_name = RootName]
  OBVIOUS
<1>4. PICK c : c = [z EXCEPT !.free = Block]
  OBVIOUS
<1>5. PICK d : d = [b \in Block |-> IF b = 2 THEN c ELSE z]
  OBVIOUS
<1>6. t = [disk |-> d, root |-> r, nextb |-> 3, busy |-> {}, failed |-> FALSE]
  BY ONLY <1>1, <1>2, <1>3, <1>4, <1>5 DEF opendisk, BitmapBlock
<1>7. /\ z \in Stuff /\ z.file = [i \in Index |-> NoFile] /\ z.ptr = [n \in Indirect |-> 0]
      /\ z.free = {} /\ NoFile \in File
  BY <1>2, ZeroedType
<1>8. r \in File /\ r.f_name = RootName /\ r.f_size = 0 /\ r.f_indirect = 0 /\ \A n \in Direct : r.f_direct[n] = 0
  BY ONLY <1>3, <1>7 DEF File, NoFile
<1>9. c \in Stuff /\ c.free = Block /\ c.file = z.file /\ c.ptr = z.ptr
  BY ONLY <1>4, <1>7 DEF Stuff
<1>10. d \in [Block -> Stuff] /\ d[2] = c /\ \A b \in Block \ {2} : d[b] = z
  BY ONLY <1>5, <1>7, <1>9, Layout
<1>11. t \in Disks /\ t.disk = d /\ t.root = r /\ t.nextb = 3
  BY ONLY <1>6, <1>8, <1>10 DEF Disks
<1>12. PICK m : m = Outcome(t)
  OBVIOUS
<1>13. /\ m \in [Block -> Stuff] /\ m[1] = Super(r) /\ m[2] = Bitmap(c, 3) /\ FileAt(m, Root) = r
       /\ m[2].free = Block \ (0 .. 3 - 1) /\ \A b \in Block \ {1, 2} : m[b] = d[b]
  BY ONLY <1>10, <1>11, <1>12, OutcomeIs
<1>14. \A b \in Block \ {1} : m[b].file = Zeroed.file /\ m[b].ptr = Zeroed.ptr
  <2>1. m[2].file = Zeroed.file /\ m[2].ptr = Zeroed.ptr
    BY ONLY <1>2, <1>9, <1>13, BitmapIs
  <2>2. \A b \in Block \ {1, 2} : m[b] = z
    BY ONLY <1>10, <1>13
  <2> QED BY ONLY <1>2, <2>1, <2>2
<1>15. m[1].ptr = Zeroed.ptr
  BY ONLY <1>8, <1>13, SuperIs
<1>16. \A n \in Slot : Num(m, Root, n) = 0
  <2>1. m[0].ptr = [n \in Indirect |-> 0]
    BY <1>14, ZeroedType, Layout
  <2> QED BY ONLY <1>8, <1>13, <2>1, Layout DEF Num
<1>17. DirSet(m) = {}
  BY <1>16 DEF DirSet
<1>18. AllN(m) = {Root}
  BY <1>17 DEF AllN
<1>19. Sound(m)
  <2>1. FileAt(m, Root).f_name = RootName /\ {0, 1, 2} \cap m[2].free = {}
    BY <1>8, <1>13, Layout
  <2>2. Held(m) /\ Once(m) /\ RootBelow(m)
    BY ONLY <1>16, <1>18 DEF Held, Once, RootBelow
  <2>3. FilesApart(m) /\ PtrsApart(m)
    BY ONLY <1>14, <1>15, Layout DEF FilesApart, PtrsApart
  <2>4. NamesOnce(m)
    BY ONLY <1>17 DEF NamesOnce
  <2> QED BY ONLY <1>13, <2>1, <2>2, <2>3, <2>4 DEF Sound
<1>20. Named(m, {})
  BY ONLY <1>17 DEF Named
<1>21. DirFull(t)
  BY <1>8, <1>11, LayoutAssumption DEF DirFull
<1>22. 3 <= t.nextb /\ t.nextb <= NBlock /\ t.disk[2].free = Block
  BY <1>9, <1>10, <1>11, LayoutAssumption
<1> QED BY ONLY <1>1, <1>11, <1>12, <1>19, <1>20, <1>21, <1>22 DEF Made

(* The files, one after another.                                           *)
WriteRound(n, x, list, h) ==
    h = [k \in 0 .. n |-> IF k = 0 THEN x ELSE writefile(h[k - 1], list[k])]

(* The rounds of WriteFiles.                                               *)
LEMMA WriteRounds ==
    ASSUME NEW n \in Nat, NEW x, NEW list
    PROVE  \E h : WriteRound(n, x, list, h)
<1>1. PICK K : K = {j \in 0 .. n : \E h : WriteRound(j, x, list, h)}
  OBVIOUS
<1>2. 0 \in K
  <2>1. PICK h : h = [k \in 0 .. 0 |-> x]
    OBVIOUS
  <2>2. WriteRound(0, x, list, h)
    BY <2>1 DEF WriteRound
  <2> QED BY <1>1, <2>2
<1>3. ASSUME NEW i \in 0 .. n - 1, i \in K
      PROVE  i + 1 \in K
  <2>1. PICK j \in 0 .. n : j = i + 1 /\ j # 0 /\ i = j - 1
    OBVIOUS
  <2>2. PICK g : WriteRound(i, x, list, g)
    BY <1>1, <1>3
  <2>3. PICK h : h = [k \in 0 .. j |-> IF k = j THEN writefile(g[i], list[j]) ELSE g[k]]
    OBVIOUS
  <2>4. \A k \in 0 .. i : h[k] = g[k] /\ g[k] = IF k = 0 THEN x ELSE writefile(g[k - 1], list[k])
    BY <2>1, <2>2, <2>3 DEF WriteRound
  <2>5. \A k \in 0 .. j : h[k] = IF k = 0 THEN x ELSE writefile(h[k - 1], list[k])
    <3>1. PICK y : y = writefile(g[i], list[j])
      OBVIOUS
    <3>2. i \in 0 .. i /\ i \in 0 .. j /\ i # j /\ j \in 0 .. j
      BY <2>1
    <3>3. h[j] = y
      BY ONLY <2>3, <3>1, <3>2
    <3>4. h[i] = g[i]
      BY ONLY <2>4, <3>2
    <3>5. h[j] = writefile(h[j - 1], list[j])
      BY ONLY <2>1, <3>1, <3>3, <3>4
    <3>6. \A k \in 0 .. j : k # j => k \in 0 .. i /\ (k # 0 => k - 1 \in 0 .. i)
      BY <2>1
    <3>7. \A k \in 0 .. j : k # j => h[k] = IF k = 0 THEN x ELSE writefile(h[k - 1], list[k])
      BY ONLY <2>4, <3>6
    <3> QED BY ONLY <2>1, <3>5, <3>7
  <2>6. PICK f : f = [k \in 0 .. j |-> IF k = 0 THEN x ELSE writefile(h[k - 1], list[k])]
    OBVIOUS
  <2>7. h = f
    BY <2>3, <2>5, <2>6
  <2>8. WriteRound(j, x, list, h)
    BY <2>6, <2>7 DEF WriteRound
  <2> QED BY <1>1, <2>1, <2>8
<1>4. \A k \in 0 .. n : k \in K
  BY <1>2, <1>3, UpTo DEF Closed
<1> QED BY <1>1, <1>4

(* The names of the first k files.                                         *)
NamesTo(list, k) == {list[j].name : j \in 1 .. k}

(* The next file's name is not among those before it.                      *)
LEMMA OneMoreName ==
    ASSUME NEW list, NEW n \in Nat, n = Len(list), Distinct(list), NEW j \in 1 .. n, NEW k \in 0 .. n - 1,
           j = k + 1, \A i \in 1 .. n : list[i].name \in Name
    PROVE  /\ list[j].name \in Name \ NamesTo(list, k) /\ NamesTo(list, k) \subseteq Name
           /\ NamesTo(list, k) \cup {list[j].name} = NamesTo(list, j)
<1>1. \A i \in 1 .. k : i \in 1 .. n /\ i # j /\ i \in 1 .. j
  OBVIOUS
<1>2. \A i \in 1 .. n : list[i].name = list[j].name => i = j
  BY DEF Distinct
<1>3. \A i \in 1 .. j : i = j \/ i \in 1 .. k
  OBVIOUS
<1>4. j \in 1 .. j
  OBVIOUS
<1> QED BY ONLY <1>1, <1>2, <1>3, <1>4, j \in 1 .. n, \A i \in 1 .. n : list[i].name \in Name DEF NamesTo

Files == Seq([name : Name, words : Seq(0 .. MaxWord), even : BOOLEAN])

(* The files are written, each with its name.                              *)
LEMMA WriteFilesIs ==
    ASSUME NEW list \in Files, Distinct(list), NEW t, Made(t, {}),
           NEW x, x = WriteFiles(t, list), ~ x.failed
    PROVE  Made(x, NamesTo(list, Len(list)))
<1>1. PICK n \in Nat : n = Len(list)
  BY DEF Files
<1>2. \A k \in 1 .. n : list[k] \in [name : Name, words : Seq(0 .. MaxWord), even : BOOLEAN]
  BY ONLY <1>1, list \in Files, InSeq DEF Files
<1>3. \A k \in 1 .. n : list[k].name \in Name /\ list[k].words \in Seq(0 .. MaxWord)
  BY <1>2
<1>4. PICK g : WriteRound(n, t, list, g)
  BY WriteRounds
<1>5. g = [k \in 0 .. n |-> IF k = 0 THEN t ELSE writefile(g[k - 1], list[k - 1 + 1])]
  <2>1. \A k \in 0 .. n : k - 1 + 1 = k
    OBVIOUS
  <2> QED BY <1>4, <2>1 DEF WriteRound
<1>6. PICK h : /\ h = [k \in 0 .. n |-> IF k = 0 THEN t ELSE writefile(h[k - 1], list[k - 1 + 1])]
               /\ x = h[n]
  BY <1>1, <1>5 DEF Loop, WriteFiles
<1>7. PICK K : K = {k \in 0 .. n : h[k].failed \/ Made(h[k], NamesTo(list, k))}
  OBVIOUS
<1>8. 0 \in K
  <2>1. NamesTo(list, 0) = {}
    BY DEF NamesTo
  <2>2. 0 \in 0 .. n
    OBVIOUS
  <2>3. h[0] = t
    BY <1>6, <2>2
  <2>4. Made(h[0], NamesTo(list, 0))
    BY ONLY <2>1, <2>3, Made(t, {})
  <2> QED BY ONLY <1>7, <2>2, <2>4
<1>9. ASSUME NEW k \in 0 .. n - 1, k \in K
      PROVE  k + 1 \in K
  <2>1. PICK j \in 0 .. n : j = k + 1 /\ j # 0 /\ j - 1 = k /\ j \in 1 .. n /\ j - 1 + 1 = j
    BY <1>1
  <2>2. h[j] = writefile(h[j - 1], list[j - 1 + 1])
    BY <1>6, <2>1
  <2>3. h[j] = writefile(h[k], list[j])
    BY <2>1, <2>2
  <2>4. PICK y : y = h[k]
    OBVIOUS
  <2>5. PICK z : z = h[j]
    OBVIOUS
  <2>6. PICK f : f = list[j]
    OBVIOUS
  <2>7. z = writefile(y, f)
    BY <2>3, <2>4, <2>5, <2>6
  <2>8. PICK W : W = NamesTo(list, k)
    OBVIOUS
  <2>9. /\ f.name \in Name \ W /\ W \subseteq Name /\ W \cup {f.name} = NamesTo(list, j)
    BY ONLY <1>1, <1>3, <2>1, <2>6, <2>8, Distinct(list), k \in 0 .. n - 1, OneMoreName, SMTT(30)
  <2>10. f.words \in Seq(0 .. MaxWord)
    BY <1>3, <2>1, <2>6
  <2>11. y.failed \/ Made(y, W)
    BY <1>7, <1>9, <2>4, <2>8
  <2>12. z.failed \/ Made(z, NamesTo(list, j))
    <3>1. y.failed => z.failed
      BY ONLY <2>7 DEF writefile
    <3>2. Made(y, W) /\ ~ z.failed => Made(z, W \cup {f.name})
      BY ONLY <2>7, <2>9, <2>10, WriteFileIs
    <3> QED BY <2>9, <2>11, <3>1, <3>2
  <2> QED BY <1>7, <2>1, <2>5, <2>12
<1>10. \A k \in 0 .. n : k \in K
  BY <1>8, <1>9, UpTo DEF Closed
<1>11. n \in K
  BY <1>10
<1> QED BY <1>1, <1>6, <1>7, <1>11

(* The bitmap and the super block are what Outcome says.                   *)
LEMMA FinishIs ==
    ASSUME NEW t, NEW U, Made(t, U), NEW x, x = finishfs(t), ~ x.failed
    PROVE  x.disk = Outcome(t)
<1>1. t \in Disks /\ t.disk[2].free = Block
  BY DEF Made
<1>2. PICK u1 : u1 = getblk(t, 2, FALSE)
  OBVIOUS
<1>3. PICK u : u = getblk(u1, 1, TRUE)
  OBVIOUS
<1>4. PICK v : v = [u EXCEPT !.disk[2].free = @ \ (0 .. t.nextb - 1), !.disk[1].file[0] = t.root]
  OBVIOUS
<1>5. x = IF u.failed THEN u ELSE putblk(putblk(v, 1), 2)
  BY ONLY <1>2, <1>3, <1>4, x = finishfs(t) DEF finishfs, BitmapBlock, SuperBlock
<1>6. ~ u.failed /\ x = putblk(putblk(v, 1), 2)
  BY ONLY <1>5, ~ x.failed
<1>7. ~ u1.failed
  BY ONLY <1>3, <1>6 DEF getblk
<1>8. u1 \in Disks /\ u1.disk = t.disk
  <2>1. PICK b : b = 2
    OBVIOUS
  <2>2. u1 = getblk(t, b, FALSE)
    BY ONLY <1>2, <2>1
  <2> QED BY ONLY <1>1, <1>7, <2>2, KeptBlk
<1>9. u \in Disks /\ u.disk = [t.disk EXCEPT ![1] = Zeroed]
  <2>1. PICK b : b = 1
    OBVIOUS
  <2>2. u = getblk(u1, b, TRUE) /\ ~ u.failed /\ u1 \in Disks
    BY ONLY <1>3, <1>6, <1>8, <2>1
  <2>3. u \in Disks
    BY ONLY <2>2, GotBlk
  <2>4. u.disk = [u1.disk EXCEPT ![b] = Zeroed]
    BY ONLY <2>2, GotBlk
  <2> QED BY ONLY <1>8, <2>1, <2>3, <2>4
<1>10. u.disk = [t.disk EXCEPT ![1] = Zeroed]
  BY <1>9
<1>11. PICK d \in [Block -> Stuff] : d = t.disk
  BY <1>1 DEF Disks
<1>12. PICK z : z = Zeroed
  OBVIOUS
<1>13. PICK c : c = [z EXCEPT !.file[0] = t.root]
  OBVIOUS
<1>14. c = Super(t.root)
  BY <1>12, <1>13 DEF Super
<1>15. PICK e : e = [d[2] EXCEPT !.free = Block \ (0 .. t.nextb - 1)]
  OBVIOUS
<1>16. e = Bitmap(t.disk[2], t.nextb)
  BY <1>11, <1>15 DEF Bitmap
<1>17. PICK g : g = [b \in Block |-> IF b = 1 THEN c ELSE IF b = 2 THEN e ELSE d[b]]
  OBVIOUS
<1>18. g = Outcome(t)
  BY <1>11, <1>14, <1>16, <1>17 DEF Outcome
<1>19. v.disk = g
  <2>1. PICK y : y = u.disk
    OBVIOUS
  <2>2. y = [d EXCEPT ![1] = z]
    BY <1>10, <1>11, <1>12, <2>1
  <2>3. y \in [Block -> Stuff] /\ y[2] = d[2] /\ y[1] = z /\ \A b \in Block \ {1} : y[b] = d[b]
    BY <1>12, <2>2, ZeroedType, Layout
  <2>4. PICK y2 : y2 = [y EXCEPT ![2].free = @ \ (0 .. t.nextb - 1), ![1].file[0] = t.root]
    OBVIOUS
  <2>5. v.disk = y2
    BY ONLY <1>4, <1>9, <2>1, <2>4 DEF Disks
  <2>6. d[2].free = Block
    BY <1>1, <1>11
  <2>7. y2 = [[y EXCEPT ![2] = e] EXCEPT ![1] = c]
    <3>1. PICK y1 : y1 = [y EXCEPT ![2].free = @ \ (0 .. t.nextb - 1)]
      OBVIOUS
    <3>2. y1 = [y EXCEPT ![2] = e]
      BY ONLY <1>15, <2>3, <2>6, <3>1
    <3>3. y1[1] = z
      BY ONLY <2>3, <3>2, Layout
    <3>4. y2 = [y1 EXCEPT ![1].file[0] = t.root]
      BY ONLY <2>4, <3>1
    <3>5. y2 = [y1 EXCEPT ![1] = c]
      BY ONLY <1>13, <3>3, <3>4
    <3> QED BY ONLY <3>2, <3>5
  <2>8. \A b \in Block : y2[b] = g[b]
    BY ONLY <1>17, <2>3, <2>7, Layout
  <2>9. y2 = g
    BY ONLY <1>17, <2>3, <2>7, <2>8
  <2> QED BY <2>5, <2>9
<1>20. putblk(putblk(v, 1), 2).disk = v.disk
  BY ONLY <1>4, <1>9 DEF putblk, Disks
<1> QED BY <1>6, <1>18, <1>19, <1>20

(* What fsformat makes is sound.                                           *)
LEMMA FormattedIs ==
    ASSUME NEW list \in Files, Distinct(list), ~ Formatted(list).failed
    PROVE  Sound(Formatted(list).disk)
<1>1. PICK t : t = WriteFiles(opendisk, list)
  OBVIOUS
<1>2. PICK x : x = finishfs(t)
  OBVIOUS
<1>3. x = Formatted(list)
  BY <1>1, <1>2 DEF Formatted
<1>4. ~ x.failed
  BY <1>3
<1>5. ~ t.failed
  BY ONLY <1>2, <1>4 DEF finishfs, getblk
<1>6. PICK t0 : t0 = opendisk
  OBVIOUS
<1>7. Made(t0, {}) /\ t = WriteFiles(t0, list)
  BY <1>1, <1>6, NewDisk
<1>8. Made(t, NamesTo(list, Len(list)))
  BY ONLY <1>5, <1>7, list \in Files, Distinct(list), WriteFilesIs
<1>9. x.disk = Outcome(t)
  BY ONLY <1>2, <1>4, <1>8, FinishIs
<1> QED BY <1>3, <1>8, <1>9 DEF Made

(* The disk a machine starts from satisfies the invariant.                 *)
LEMMA FsInit == Init => FsInv
<1> SUFFICES ASSUME Init PROVE FsInv
  OBVIOUS
<1>1. PICK f \in Image : ~ Formatted(f).failed /\ disk = Formatted(f).disk
  BY DEF Init
<1>2. f \in Files /\ Distinct(f)
  BY FileSystemAssumption DEF Files
<1>3. Sound(disk)
  BY ONLY <1>1, <1>2, FormattedIs
<1>4. disk \in [Block -> Stuff]
  BY <1>3 DEF Sound
<1>5. mem \in [Block -> Stuff]
  BY ZeroedType DEF Init
<1> QED BY <1>3, <1>4, <1>5 DEF Init, FsInv

----------------------------------------------------------------------------
(* What a step does, when the server is up before it and after it: at most *)
(* one name changes its meaning.                                           *)
OneFileChanges ==
    Running /\ Running' =>
        \A x, y \in Name : Meaning(View, x) # Meaning(View', x) /\ Meaning(View, y) # Meaning(View', y)
            => x = y

(* The disk, what memory holds in front of it and the open files are sound *)
(* (FsInv) whatever image the machine starts from and whatever order files *)
(* are created, mapped, grown, cut, flushed and removed in, also when a    *)
(* request fails for want of room and when the server starts again.        *)
THEOREM FsInvariant ==
    ASSUME CutIndirect = FALSE, OffDirty = FALSE
    PROVE  Spec => []FsInv
<1>1. Init => FsInv
  BY FsInit
<1>2. FsInv /\ [Next]_vars => FsInv'
  BY FsStep
<1> QED BY <1>1, <1>2, PTL DEF Spec

(* The server has no more blocks in memory than it has pages, only blocks  *)
(* in memory are dirty, and what the disk and memory hold is of the layout.*)
THEOREM FileSystemTypes ==
    ASSUME CutIndirect = FALSE, OffDirty = FALSE
    PROVE  Spec => []FsTypeOK
<1>1. FsInv => FsTypeOK
  BY FsTyped
<1> QED BY <1>1, FsInvariant, PTL

(* A block is held by one node, as one of its blocks, and neither it nor   *)
(* one of the system's is free (fs.c: alloc_block, file_truncate).         *)
THEOREM BlocksHeldOnce ==
    ASSUME CutIndirect = FALSE, OffDirty = FALSE
    PROVE  Spec => []BlocksOnce
<1>1. FsInv => BlocksOnce
  BY HeldOnce
<1> QED BY <1>1, FsInvariant, PTL

(* No two files have the same name (fs.c: file_create, dir_lookup).        *)
THEOREM NamesAreUnique ==
    ASSUME CutIndirect = FALSE, OffDirty = FALSE
    PROVE  Spec => []NamesUnique
<1>1. FsInv => NamesUnique
  BY NamedOnce
<1> QED BY <1>1, FsInvariant, PTL

(* Whatever a request does to blocks, bitmap and directory, and however far*)
(* it gets, the size and the words of all files but one stay as they were. *)
THEOREM OneFileChangesAtATime ==
    ASSUME CutIndirect = FALSE, OffDirty = FALSE
    PROVE  Spec => OneFileAtATime
<1>1. FsInv /\ [Next]_vars => OneFileChanges
  BY OneFileStep DEF OneFileChanges
<1>2. OneFileAtATime <=> [][OneFileChanges]_vars
  BY DEF OneFileAtATime, OneFileChanges
<1>3. FsInv /\ [Next]_vars => [OneFileChanges]_vars
  BY <1>1
<1> QED BY <1>2, <1>3, FsInvariant, PTL DEF Spec

(* The server never comes to one of fs.c's panics: "reading free block",   *)
(* "write unmapped block", "attempt to free zero block".                   *)
THEOREM FileSystemNeverPanics ==
    ASSUME CutIndirect = FALSE, OffDirty = FALSE
    PROVE  Spec => []NeverPanics
<1>1. FsInv => NeverPanics
  BY GoodIs DEF FsInv, Now, Good, Cached, State, NeverPanics
<1> QED BY <1>1, FsInvariant, PTL

=============================================================================
