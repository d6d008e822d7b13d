------------------------------ MODULE FsFormat ------------------------------
(***************************************************************************)
(* fs/fsformat.c, the host's program that makes the disk: a super block, a *)
(* bitmap, and the files named on its command line, one after another,     *)
(* from the first block that follows the bitmap.                           *)
(*                                                                         *)
(* The blocks it works on are in a cache of its own (getblk, putblk).  A   *)
(* block must be put back before it is got again; the cache writes blocks  *)
(* back when it needs room and at the end (flushb, flushdisk), so what it  *)
(* holds is the disk.                                                      *)
(***************************************************************************)
EXTENDS FsLayout, Sequences

(* The program's state: the disk, the super block it fills (super.s_root), *)
(* the next unused block, the blocks got and not put back, and whether it  *)
(* has stopped with an error.                                              *)
opendisk ==
    [disk  |-> [b \in Block |-> IF b = BitmapBlock THEN [Zeroed EXCEPT !.free = Block] ELSE Zeroed],
     root  |-> [NoFile EXCEPT !.f_name = RootName],
     nextb |-> BitmapBlock + 1, busy |-> {}, failed |-> FALSE]

getblk(t, b, clr) ==
    IF t.failed THEN t
    ELSE IF b \notin Block \/ b \in t.busy THEN [t EXCEPT !.failed = TRUE]
    ELSE [t EXCEPT !.busy = @ \cup {b}, !.disk[b] = IF clr THEN Zeroed ELSE @]

putblk(t, b) == [t EXCEPT !.busy = @ \ {b}]

(* The file node f, in a block that has been got.                          *)
NodeOf(t, at) == t.disk[at[1]].file[at[2]]
SetNodeOf(t, at, f) == [t EXCEPT !.disk[at[1]].file[at[2]] = f]

(* The node of the next file: a free entry of the directory's last block,  *)
(* or the first of a new one.  The directory's block stays busy.  More     *)
(* directory blocks than f_direct has numbers are counted as an error.     *)
FreeNode(t) ==
    LET last  == t.root.f_direct[t.root.f_size - 1]
        free  == IF t.root.f_size = 0 THEN {}
                 ELSE {i \in Index : t.disk[last].file[i].f_name = NoName}
    IN  IF free # {}
        THEN [t |-> getblk(t, last, FALSE),
              at |-> <<last, CHOOSE i \in free : \A j \in free : i <= j>>]
        ELSE LET u == getblk(t, t.nextb, TRUE)
             IN  IF u.failed \/ t.root.f_size \notin Direct THEN [t |-> [u EXCEPT !.failed = TRUE], at |-> Root]
                 ELSE [t  |-> [u EXCEPT !.root.f_direct[t.root.f_size] = t.nextb,
                                        !.root.f_size = @ + 1, !.nextb = @ + 1],
                       at |-> <<t.nextb, 0>>]

(* The node gets an indirect block, the one just got.                      *)
NewPtrs(v, at) ==
    IF v.failed THEN v
    ELSE SetNodeOf([v EXCEPT !.nextb = @ + 1], at, [NodeOf(v, at) EXCEPT !.f_indirect = v.nextb])

(* Block n of the file: its number in the node, or in the indirect block.  *)
SetBlock(t, at, n, b) ==
    IF n \in Direct THEN SetNodeOf(t, at, [NodeOf(t, at) EXCEPT !.f_direct[n] = b])
    ELSE IF n \notin Indirect THEN [t EXCEPT !.failed = TRUE]
    ELSE LET i == NodeOf(t, at).f_indirect
             put(u, k) == IF u.failed THEN u ELSE putblk([u EXCEPT !.disk[k].ptr[n] = b], k)
             got == IF i # 0 THEN getblk(t, i, FALSE) ELSE NewPtrs(getblk(t, t.nextb, TRUE), at)
         IN  put(got, NodeOf(got, at).f_indirect)

CopyBlock(t, at, n, word) ==
    LET b == t.nextb
        put(v) == IF v.failed THEN v ELSE putblk(v, b)
        copied(u) == IF u.failed THEN u
                     ELSE put(SetBlock([u EXCEPT !.nextb = @ + 1, !.disk[b].word = word], at, n, b))
    IN  copied(getblk(t, b, TRUE))

CopyFile(t, at, words) == Loop(Len(words), LAMBDA u, n : CopyBlock(u, at, n, words[n + 1]), t)

(* A file of blocks words: the last one is short, or, when even is TRUE,   *)
(* full.  Then the end of the file is found by one more read, into a block *)
(* that is got for it and never put back.                                  *)
writefile(t, f) ==
    LET d == FreeNode(t)
        named == SetNodeOf(d.t, d.at, [NodeOf(d.t, d.at) EXCEPT !.f_name = f.name])
        ended(u) == IF f.even THEN getblk(u, u.nextb, TRUE) ELSE u
        sized(u) == IF u.failed THEN [t EXCEPT !.failed = TRUE]
                    ELSE putblk(SetNodeOf(u, d.at, [NodeOf(u, d.at) EXCEPT !.f_size = Len(f.words)]), d.at[1])
    IN  IF t.failed THEN t
        ELSE IF d.t.failed THEN [t EXCEPT !.failed = TRUE]
        ELSE sized(ended(CopyFile(named, d.at, f.words)))

(* What was used is marked so; the super block goes out last.              *)
finishfs(t) ==
    LET u == getblk(getblk(t, BitmapBlock, FALSE), SuperBlock, TRUE)
    IN  IF u.failed THEN u
        ELSE putblk(putblk([u EXCEPT !.disk[BitmapBlock].free = @ \ (0 .. t.nextb - 1),
                                     !.disk[SuperBlock].file[0] = t.root], SuperBlock), BitmapBlock)

WriteFiles(t, files) == Loop(Len(files), LAMBDA u, k : writefile(u, files[k + 1]), t)

Formatted(files) == finishfs(WriteFiles(opendisk, files))
=============================================================================
