------------------------------ MODULE FsLayout ------------------------------
(***************************************************************************)
(* What a block of the file system's disk can hold (inc/fs.h).             *)
(*                                                                         *)
(* A block is only bytes: the code decides by the way it reaches a block   *)
(* whether it reads a super block, a bitmap, file nodes, block numbers or  *)
(* a program's data.  A content therefore has a part for each reading, and *)
(* a block written as one kind and read as another is told by the part     *)
(* that should be empty.  Sizes are counted in blocks, the unit in which   *)
(* every loop of the code rounds them up.                                  *)
(***************************************************************************)
EXTENDS Integers, FiniteSets

CONSTANTS
    NBlock,      \* s_nblocks
    NDIRECT,     \* block numbers in a file node
    NINDIRECT,   \* bound of the file block numbers an indirect block reaches
    FILE2BLK,    \* file nodes in a block of a directory
    Name,        \* names of files
    NoName,      \* f_name[0] = '\0'
    RootName     \* "/"

ASSUME LayoutAssumption ==
    /\ NBlock \in Nat /\ NBlock > 3
    /\ NDIRECT \in Nat \ {0} /\ NINDIRECT \in Nat /\ NINDIRECT > NDIRECT
    /\ FILE2BLK \in Nat \ {0}
    /\ NoName \notin Name /\ RootName \notin Name /\ NoName # RootName

Block == 0 .. NBlock - 1
Direct == 0 .. NDIRECT - 1
Indirect == NDIRECT .. NINDIRECT - 1
Index == 0 .. FILE2BLK - 1

BootBlock == 0
SuperBlock == 1
BitmapBlock == 2

(* f_dir is the one field that only means something in memory: whether it  *)
(* points to the root.                                                     *)
File == [f_name : Name \cup {NoName, RootName}, f_size : 0 .. NINDIRECT,
         f_direct : [Direct -> Block], f_indirect : Block, f_dir : BOOLEAN]

NoFile == [f_name |-> NoName, f_size |-> 0, f_direct |-> [n \in Direct |-> 0],
           f_indirect |-> 0, f_dir |-> FALSE]

(* free: the bits set in a bitmap; file: file nodes, the root's in entry 0 *)
(* of the super block; ptr: the numbers in an indirect block; word: 0, or  *)
(* what a program has stored.                                              *)
Content == [free : SUBSET Block, file : [Index -> File],
            ptr : [Indirect -> Block], word : Nat]

Zeroed == [free |-> {}, file |-> [i \in Index |-> NoFile],
           ptr |-> [n \in Indirect |-> 0], word |-> 0]

(* The content can be read as file nodes, or as block numbers.             *)
IsFiles(c) == c.word = 0 /\ c.ptr = Zeroed.ptr
IsPtrs(c)  == c.word = 0 /\ c.file = Zeroed.file

(* s_magic is right.                                                       *)
IsSuper(c) == c.file[0].f_name = RootName

(* A file node is known by its block and its entry there.                  *)
Root == <<SuperBlock, 0>>

(* The nodes of the root's directory, on the blocks of a medium m (memory   *)
(* or disk).                                                               *)
RootOf(m) == m[SuperBlock].file[0]

DirBlocks(m) ==
    LET r == RootOf(m)
    IN  ({r.f_direct[n] : n \in Direct}
            \cup (IF r.f_indirect = 0 THEN {} ELSE {m[r.f_indirect].ptr[n] : n \in Indirect})) \ {0}

Nodes(m) == DirBlocks(m) \X Index

(* for (k = 0; k < n; k++) x = F(x, k)                                     *)
Loop(n, F(_, _), x) ==
    LET after[k \in 0 .. n] == IF k = 0 THEN x ELSE F(after[k - 1], k - 1)
    IN  after[n]
=============================================================================
