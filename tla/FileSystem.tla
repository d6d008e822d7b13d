----------------------------- MODULE FileSystem -----------------------------
(***************************************************************************)
(* fs/fs.c: the file system inside the file server.                        *)
(*                                                                         *)
(* Every block that is looked at is brought into memory and stays there:   *)
(* the cache is the memory of the server, a block is dirty when the        *)
(* hardware has set PTE_D in the server's own page table, and block numbers*)
(* and file nodes are read and written in place.  The server handles one   *)
(* request at a time, so a request is one step.  Its clients store into    *)
(* the blocks they have mapped at any time, and the machine may be turned  *)
(* off and on.                                                             *)
(*                                                                         *)
(* A function of the code is an operator from the state s to a result:     *)
(* the new state s, the status r and the value v it leaves in its output   *)
(* argument.                                                               *)
(***************************************************************************)
EXTENDS FsFormat

CONSTANTS
    NPages,         \* numbers of pages there may be; without one left sys_mem_alloc fails
    Image,          \* the file lists a disk may have been formatted with
    MaxWord,        \* bound: values a client stores
    Sizes,          \* bound: the sizes, and the offsets, that clients ask for
    MaxDir,         \* bound: blocks of the directory; a create that fails leaves it longer
    MaxOpen,        \* bound: file nodes clients have open at once
    MaxShared,      \* bound: blocks clients have mapped at once
    CutIndirect,    \* files are cut from more than NDIRECT blocks to fewer
    OffDirty        \* the machine may be turned off with dirty blocks

(* The files of an image have different names; fsformat does not check.    *)
Distinct(f) == \A i, j \in 1 .. Len(f) : f[i].name = f[j].name => i = j

ASSUME FileSystemAssumption ==
    /\ \A f \in Image : f \in Seq([name : Name, words : Seq(0 .. MaxWord), even : BOOLEAN]) /\ Distinct(f)
    /\ NPages \subseteq Nat \ {0, 1, 2} /\ MaxWord \in Nat /\ MaxDir \in 0 .. NINDIRECT /\ MaxOpen \in Nat /\ MaxShared \in Nat
    /\ Sizes \subseteq 0 .. NINDIRECT /\ CutIndirect \in BOOLEAN /\ OffDirty \in BOOLEAN

VARIABLES
    npage,      \* how many pages the server may have
    disk,       \* what the disk holds
    mem,        \* what memory holds for each mapped block
    mapped,     \* the blocks in memory
    dirty,      \* of those, the ones written since they were read or flushed
    files,      \* file nodes the server has found for a client (o_file)
    shared,     \* blocks some client has mapped
    at,         \* "boot", "smashed" (inside check_write_block) or "up"
    halt        \* "no", "panic", or "garbage": read as what it is not

vars == <<npage, disk, mem, mapped, dirty, files, shared, at, halt>>

Init ==
    /\ npage \in NPages
    /\ \E f \in Image :
        /\ ~ Formatted(f).failed
        /\ disk = Formatted(f).disk
    /\ mem = [b \in Block |-> Zeroed]
    /\ mapped = {} /\ dirty = {} /\ files = {} /\ shared = {}
    /\ at = "boot" /\ halt = "no"

(* What a request starts from, and the step it makes.                      *)
Now == [disk |-> disk, mem |-> mem, mapped |-> mapped, dirty |-> dirty, halt |-> halt]

Become(s) ==
    /\ UNCHANGED npage
    /\ disk' = s.disk /\ mem' = s.mem /\ mapped' = s.mapped
    /\ dirty' = s.dirty /\ halt' = s.halt

Ok(s, v) == [s |-> s, r |-> "ok", v |-> v]
Fail(s, e) == [s |-> s, r |-> e, v |-> 0]
Panic(s) == Fail([s EXCEPT !.halt = "panic"], "panic")
Garbage(s) == Fail([s EXCEPT !.halt = "garbage"], "garbage")

(* What is done with the result of a call that has succeeded.              *)
Then(x, F(_)) == IF x.r = "ok" THEN F(x) ELSE x

----------------------------------------------------------------------------
(* Blocks in memory.                                                       *)
Free(s) == s.mem[BitmapBlock].free
block_is_free(s, b) == b \in Free(s)
block_is_dirty(s, b) == b \in s.mapped /\ b \in s.dirty
MemoryIsFull(s) == Cardinality(s.mapped) = npage

(* A new page is clean, and zeroed.                                        *)
map_block(s, b) ==
    IF b \in s.mapped THEN Ok(s, b)
    ELSE IF MemoryIsFull(s) THEN Fail(s, "E_NO_MEM")
    ELSE Ok([s EXCEPT !.mapped = @ \cup {b}, !.mem[b] = Zeroed], b)

(* A mutant: memory has no end.                                            *)
ReadAnyway(s, b) ==
    IF b \in s.mapped THEN Ok(s, FALSE)
    ELSE Ok([s EXCEPT !.mapped = @ \cup {b}, !.mem[b] = s.disk[b]], TRUE)

(* The value is isnew.                                                     *)
read_block(s, b) ==
    IF block_is_free(s, b) THEN Panic(s)
    ELSE IF b \in s.mapped THEN Ok(s, FALSE)
    ELSE IF MemoryIsFull(s) THEN Fail(s, "E_NO_MEM")
    ELSE Ok([s EXCEPT !.mapped = @ \cup {b}, !.mem[b] = s.disk[b]], TRUE)

write_block(s, b) ==
    IF b \notin s.mapped THEN Panic(s).s
    ELSE IF ~ block_is_dirty(s, b) THEN s
    ELSE [s EXCEPT !.disk[b] = s.mem[b], !.dirty = @ \ {b}]

SyncBlock(s, b) == IF block_is_dirty(s, b) THEN write_block(s, b) ELSE s

free_block(s, b) ==
    IF b = 0 THEN Panic(s).s
    ELSE [s EXCEPT !.mem[BitmapBlock].free = @ \cup {b}, !.dirty = @ \cup {BitmapBlock}]

alloc_block_num(s) ==
    LET free == {b \in Free(s) : b >= 2}
        b == CHOOSE x \in free : \A y \in free : x <= y
    IN  IF free = {} THEN Fail(s, "E_NO_DISK")
        ELSE Ok([s EXCEPT !.mem[BitmapBlock].free = @ \ {b}, !.dirty = @ \cup {BitmapBlock}], b)

alloc_block(s) ==
    LET kept(a, m) == IF m.r = "ok" THEN m ELSE Fail(free_block(a.s, a.v), m.r)
    IN  Then(alloc_block_num(s), LAMBDA a : kept(a, map_block(a.s, a.v)))

----------------------------------------------------------------------------
(* File nodes, and the numbers of a file's blocks.                         *)
Node(s, p) == s.mem[p[1]].file[p[2]]
SetNode(s, p, f) == [s EXCEPT !.mem[p[1]].file[p[2]] = f, !.dirty = @ \cup {p[1]}]

(* *ppdiskbno, once file_block_walk has succeeded.                         *)
Number(s, p, n) ==
    IF n \in Direct THEN Node(s, p).f_direct[n] ELSE s.mem[Node(s, p).f_indirect].ptr[n]

SetNumber(s, p, n, b) ==
    LET i == Node(s, p).f_indirect
    IN  IF n \in Direct THEN SetNode(s, p, [Node(s, p) EXCEPT !.f_direct[n] = b])
        ELSE [s EXCEPT !.mem[i].ptr[n] = b, !.dirty = @ \cup {i}]

file_block_walk(s, p, n, alloc) ==
    LET i == Node(s, p).f_indirect
        found == IF i # 0 THEN Ok(s, i)
                 ELSE IF ~ alloc THEN Fail(s, "E_NOT_FOUND")
                 ELSE Then(alloc_block(s), LAMBDA a :
                          Ok(SetNode(a.s, p, [Node(a.s, p) EXCEPT !.f_indirect = a.v]), a.v))
        read(f) == Then(read_block(f.s, f.v), LAMBDA rd :
                       IF IsPtrs(rd.s.mem[f.v]) THEN Ok(rd.s, n) ELSE Garbage(rd.s))
    IN  IF n \in Direct THEN Ok(s, n)
        ELSE IF n \notin Indirect THEN Fail(s, "E_INVAL")
        ELSE Then(found, read)

file_map_block(s, p, n, alloc) ==
    Then(file_block_walk(s, p, n, alloc), LAMBDA w :
        IF Number(w.s, p, n) # 0 THEN Ok(w.s, Number(w.s, p, n))
        ELSE IF ~ alloc THEN Fail(w.s, "E_NOT_FOUND")
        ELSE Then(alloc_block(w.s), LAMBDA a : Ok(SetNumber(a.s, p, n, a.v), a.v)))

(* A mutant: the number of the freed block stays where it is.              *)
ClearKeepsNumber(s, p, n) ==
    LET cleared(w) ==
            IF w.r # "ok" \/ Number(w.s, p, n) = 0 THEN w.s
            ELSE free_block(w.s, Number(w.s, p, n))
    IN  cleared(file_block_walk(s, p, n, FALSE))

file_clear_block(s, p, n) ==
    LET cleared(w) ==
            IF w.r # "ok" \/ Number(w.s, p, n) = 0 THEN w.s
            ELSE SetNumber(free_block(w.s, Number(w.s, p, n)), p, n, 0)
    IN  cleared(file_block_walk(s, p, n, FALSE))

(* A block of a directory that comes in off the disk has its f_dir set.    *)
InRoot(f) == [i \in Index |-> [f[i] EXCEPT !.f_dir = TRUE]]

file_get_block(s, p, n) ==
    LET marked(t, b, isnew) ==
            IF p = Root /\ isnew THEN [t EXCEPT !.mem[b].file = InRoot(@), !.dirty = @ \cup {b}] ELSE t
        got(t, b) == IF p = Root /\ ~ IsFiles(t.mem[b]) THEN Garbage(t) ELSE Ok(t, b)
    IN  Then(file_map_block(s, p, n, TRUE), LAMBDA m :
            Then(read_block(m.s, m.v), LAMBDA rd : got(marked(rd.s, m.v, rd.v), m.v)))

file_dirty(s, p, n) ==
    Then(file_get_block(s, p, n), LAMBDA g : Ok([g.s EXCEPT !.dirty = @ \cup {g.v}], 0))

----------------------------------------------------------------------------
(* The directory.  Search goes through its blocks in order, for an entry   *)
(* with the given name; the value is the node.                             *)
SearchIn(g, name) ==
    LET hit == {j \in Index : g.s.mem[g.v].file[j].f_name = name}
    IN  IF hit = {} THEN Fail(g.s, "E_NOT_FOUND")
        ELSE Ok(g.s, <<g.v, CHOOSE j \in hit : \A k \in hit : j <= k>>)

SearchBlock(acc, i, name) ==
    IF acc.r # "E_NOT_FOUND" THEN acc
    ELSE Then(file_get_block(acc.s, Root, i), LAMBDA g : SearchIn(g, name))

Search(s, name) ==
    Loop(Node(s, Root).f_size, LAMBDA acc, i : SearchBlock(acc, i, name), Fail(s, "E_NOT_FOUND"))

dir_lookup(s, name) ==
    Then(Search(s, name), LAMBDA f :
        Ok(SetNode(f.s, f.v, [Node(f.s, f.v) EXCEPT !.f_dir = TRUE]), f.v))

(* A mutant: the first entry is taken, whatever is there.                  *)
TakeFirst(s) ==
    LET grown == IF Node(s, Root).f_size > 0 THEN s
                 ELSE SetNode(s, Root, [Node(s, Root) EXCEPT !.f_size = 1])
    IN  Then(file_get_block(grown, Root, 0), LAMBDA g : Ok(g.s, <<g.v, 0>>))

(* f_size is raised before the new block is known to exist.                *)
GrowDir(s, n) ==
    Then(file_get_block(SetNode(s, Root, [Node(s, Root) EXCEPT !.f_size = n + 1]), Root, n),
         LAMBDA g : Ok(g.s, <<g.v, 0>>))

dir_alloc_file(s) ==
    LET searched(f) == IF f.r # "E_NOT_FOUND" THEN f ELSE GrowDir(f.s, Node(f.s, Root).f_size)
    IN  searched(Search(s, NoName))

(* A path is the sequence of its elements.  There are no directories but   *)
(* the root.                                                               *)
walk_path(s, path) ==
    LET walked(f) == IF f.r = "ok" /\ Len(path) > 1 THEN Fail(f.s, "E_NOT_FOUND") ELSE f
    IN  IF path = <<>> THEN Ok(s, Root) ELSE walked(dir_lookup(s, path[1]))

file_open(s, path) == walk_path(s, path)

(* A mutant: any failure to find the name leads to a new file.             *)
CreateAnyway(s, path) ==
    LET new(w, d) == IF d.r # "ok" THEN Fail(d.s, w.r)
                     ELSE Ok(SetNode(d.s, d.v, [Node(d.s, d.v) EXCEPT !.f_name = path[1]]), d.v)
        walked(w) == IF w.r = "ok" THEN Fail(w.s, "E_FILE_EXISTS")
                     ELSE IF Len(path) # 1 THEN w
                     ELSE new(w, dir_alloc_file(w.s))
    IN  walked(walk_path(s, path))

(* pdir is set only when the last element is the one that is missing.  An  *)
(* entry that is used again keeps all but its name.                        *)
file_create(s, path) ==
    LET new(w, d) == IF d.r # "ok" THEN Fail(d.s, w.r)
                     ELSE Ok(SetNode(d.s, d.v, [Node(d.s, d.v) EXCEPT !.f_name = path[1]]), d.v)
        walked(w) == IF w.r = "ok" THEN Fail(w.s, "E_FILE_EXISTS")
                     ELSE IF w.r # "E_NOT_FOUND" \/ Len(path) # 1 THEN w
                     ELSE new(w, dir_alloc_file(w.s))
    IN  walked(walk_path(s, path))

----------------------------------------------------------------------------
(* Sizes, flushing and removal.                                            *)

(* The freed indirect block stays in f_indirect.                           *)
file_truncate(s, p, newsize) ==
    LET old == Node(s, p).f_size
        cleared == Loop(old - newsize, LAMBDA t, k : file_clear_block(t, p, newsize + k),
                        SetNode(s, p, [Node(s, p) EXCEPT !.f_size = newsize]))
        cut(t) == IF old > NDIRECT /\ newsize <= NDIRECT THEN free_block(t, Node(t, p).f_indirect) ELSE t
    IN  cut(cleared)

(* The first hole ends it.                                                 *)
FlushBlock(acc, n, p) ==
    IF acc.r # "ok" THEN acc
    ELSE Then(file_map_block(acc.s, p, n, FALSE), LAMBDA m : Ok(SyncBlock(m.s, m.v), 0))

file_flush(s, p) == Loop(Node(s, p).f_size, LAMBDA acc, n : FlushBlock(acc, n, p), Ok(s, 0)).s

flush_dir(s, p) == IF Node(s, p).f_dir THEN file_flush(s, Root) ELSE s

file_set_size(s, p, newsize) ==
    LET set(t) == flush_dir(SetNode(t, p, [Node(t, p) EXCEPT !.f_size = newsize]), p)
    IN  set(IF Node(s, p).f_size > newsize THEN file_truncate(s, p, newsize) ELSE s)

file_close(s, p) == flush_dir(file_flush(s, p), p)

file_remove(s, path) ==
    LET gone(t, p) == SetNode(t, p, [Node(t, p) EXCEPT !.f_name = NoName])
        flushed(t, p) == flush_dir(file_flush(t, p), p)
    IN  Then(walk_path(s, path), LAMBDA w :
            Ok(flushed(gone(file_truncate(w.s, w.v, 0), w.v), w.v), 0))

fs_sync(s) == Loop(NBlock, SyncBlock, s)

----------------------------------------------------------------------------
(* fs_init, cut where the super block on the disk is overwritten.          *)
check_write_block ==
    /\ at = "boot" /\ halt = "no"
    /\ IF IsSuper(disk[SuperBlock])
       THEN /\ disk' = [disk EXCEPT ![SuperBlock] = Zeroed]
            /\ mem' = [mem EXCEPT ![BootBlock] = disk[SuperBlock]]
            /\ at' = "smashed" /\ UNCHANGED halt
       ELSE halt' = "panic" /\ UNCHANGED <<disk, mem, at>>
    /\ mapped' = {BootBlock, SuperBlock} /\ dirty' = {BootBlock}
    /\ UNCHANGED <<npage, files, shared>>

read_bitmap ==
    /\ at = "smashed" /\ halt = "no"
    /\ disk' = [disk EXCEPT ![SuperBlock] = mem[BootBlock]]
    /\ mem' = [mem EXCEPT ![SuperBlock] = mem[BootBlock], ![BitmapBlock] = disk[BitmapBlock]]
    /\ mapped' = mapped \cup {BitmapBlock}
    /\ halt' = IF {BootBlock, SuperBlock} \cap disk[BitmapBlock].free = {} THEN "no" ELSE "panic"
    /\ at' = "up"
    /\ UNCHANGED <<npage, dirty, files, shared>>

Up == at = "up" /\ halt = "no" /\ UNCHANGED at

(* One path goes through what is not a directory.                          *)
Path == {<<>>} \cup {<<n>> : n \in Name} \cup {<<CHOOSE n \in Name : TRUE, RootName>>}

Open(path) ==
    /\ Up
    /\ \E o \in {file_open(Now, path)} :
        /\ Become(o.s)
        /\ files' = files \cup (IF o.r = "ok" THEN {o.v} ELSE {})
    /\ Cardinality(files') <= MaxOpen
    /\ UNCHANGED shared

Create(path) ==
    /\ Up
    /\ \E o \in {file_create(Now, path)} :
        /\ Node(o.s, Root).f_size <= MaxDir
        /\ Become(o.s)
        /\ files' = files \cup (IF o.r = "ok" THEN {o.v} ELSE {})
    /\ Cardinality(files') <= MaxOpen
    /\ UNCHANGED shared

Map(p, n) ==
    /\ Up
    /\ \E g \in {file_get_block(Now, p, n)} :
        /\ Become(g.s)
        /\ shared' = shared \cup (IF g.r = "ok" THEN {g.v} ELSE {})
    /\ Cardinality(shared') <= MaxShared
    /\ UNCHANGED files

Dirty(p, n) == Up /\ Become(file_dirty(Now, p, n).s) /\ UNCHANGED <<files, shared>>

(* A file is not cut below its direct blocks unless the run asks for it.   *)
Crosses(s, p, size) == Node(s, p).f_size > NDIRECT /\ size <= NDIRECT

SetSize(p, size) ==
    /\ Up
    /\ Crosses(Now, p, size) => CutIndirect
    /\ Become(file_set_size(Now, p, size)) /\ UNCHANGED <<files, shared>>

Close(p) == Up /\ Become(file_close(Now, p)) /\ UNCHANGED <<files, shared>>

(* Nobody removes the root.                                                *)
RemoveFile(path) ==
    /\ Up /\ path # <<>>
    /\ \A w \in {walk_path(Now, path)} : w.r = "ok" /\ Crosses(w.s, w.v, 0) => CutIndirect
    /\ Become(file_remove(Now, path).s) /\ UNCHANGED <<files, shared>>

Sync == Up /\ Become(fs_sync(Now)) /\ UNCHANGED <<files, shared>>

(* A client stores into its own mapping of the page: PTE_D is set there,   *)
(* not in the server's table.                                              *)
Store(b, word) ==
    /\ Up /\ b \in shared
    /\ mem' = [mem EXCEPT ![b].word = word]
    /\ UNCHANGED <<npage, disk, mapped, dirty, files, shared, halt>>

(* The power goes, and the server starts again.  What is on a disk that a  *)
(* server wrote to after it read garbage is anybody's guess.               *)
PowerOff ==
    /\ halt # "garbage"
    /\ OffDirty \/ (at = "up" /\ dirty = {})
    /\ mem' = [b \in Block |-> Zeroed]
    /\ mapped' = {} /\ dirty' = {} /\ files' = {} /\ shared' = {}
    /\ at' = "boot" /\ halt' = "no"
    /\ UNCHANGED <<npage, disk>>

Next ==
    \/ check_write_block \/ read_bitmap
    \/ \E path \in Path : Open(path) \/ Create(path) \/ RemoveFile(path)
    \/ \E p \in files \ {Root}, n \in Sizes : Map(p, n) \/ Dirty(p, n) \/ SetSize(p, n)
    \/ \E p \in files : Close(p)
    \/ \E b \in shared, word \in 1 .. MaxWord : Store(b, word)
    \/ Sync
    \/ PowerOff

Spec == Init /\ [][Next]_vars

----------------------------------------------------------------------------
(* The file system as it is: what is not in memory is on the disk.         *)
View == [b \in Block |-> IF b \in mapped THEN mem[b] ELSE disk[b]]

(* Who holds a block: a node p, for its block n, or (n = -1) to find them. *)
Claims(m) ==
    LET F(p) == m[p[1]].file[p[2]]
        all == {Root} \cup Nodes(m)
    IN  {c \in {<<p, n, F(p).f_direct[n]>> : p \in all, n \in Direct}
                 \cup {<<p, -1, F(p).f_indirect>> : p \in all}
                 \cup {<<p, n, m[F(p).f_indirect].ptr[n]>> : p \in all, n \in Indirect} : c[3] # 0}

(* The properties are about a server that is up, and that has not read a   *)
(* block as what it is not.                                                *)
Running == at = "up" /\ halt = "no"

(* The variables keep to what the program can hold.                        *)
FsTypeOK ==
    /\ mapped \subseteq Block /\ dirty \subseteq mapped /\ Cardinality(mapped) <= npage
    /\ shared \subseteq Block /\ files \subseteq Block \X Index
    /\ \A b \in Block : {disk[b], mem[b]} \subseteq
        [free : SUBSET Block, file : [Index -> File], ptr : [Indirect -> Block], word : 0 .. MaxWord]
    /\ at \in {"boot", "smashed", "up"} /\ halt \in {"no", "panic", "garbage"}

(* Whatever order files are created, mapped, grown, cut and removed in,    *)
(* with or without room on the disk and in memory, a block is held once,   *)
(* and no block that is held, or that the system itself needs, is free.    *)
BlocksOnce ==
    Running =>
        /\ \A c, d \in Claims(View) : c[3] = d[3] => c = d
        /\ \A c \in Claims(View) : c[3] > BitmapBlock /\ c[3] \notin View[BitmapBlock].free
        /\ {BootBlock, SuperBlock, BitmapBlock} \cap View[BitmapBlock].free = {}

(* However a request goes, and whether or not its files are still there,   *)
(* the server does not come to panic: it reads no block that is free,      *)
(* writes none that is not in memory, frees no block 0, and starts only on *)
(* a bitmap that has its own blocks in use.                                *)
NeverPanics == halt # "panic"

(* A create that cannot read the whole directory must not take that for    *)
(* "there is no such file": no two files ever have the same name.          *)
NamesUnique ==
    Running => \A p, q \in Nodes(View) :
        p # q /\ View[p[1]].file[p[2]].f_name = View[q[1]].file[q[2]].f_name
            => View[p[1]].file[p[2]].f_name = NoName

(* What a name stands for: its size and its words, block by block.         *)
Meaning(m, name) ==
    LET F(p) == m[p[1]].file[p[2]]
        B(f, n) == IF n \in Direct THEN f.f_direct[n]
                   ELSE IF f.f_indirect = 0 THEN 0 ELSE m[f.f_indirect].ptr[n]
    IN  {<<F(p).f_size, [n \in 0 .. F(p).f_size - 1 |->
             IF B(F(p), n) = 0 THEN 0 ELSE m[B(F(p), n)].word]>> :
         p \in {q \in Nodes(m) : F(q).f_name = name}}

(* A request about one file, even one that fails half-way, and a store by  *)
(* a client change what one name stands for, and leave the other files as  *)
(* they were.                                                              *)
OneFileAtATime ==
    [][Running /\ Running' =>
        \A x, y \in Name : Meaning(View, x) # Meaning(View', x) /\ Meaning(View, y) # Meaning(View', y)
            => x = y]_vars

(* fs.c:611: "Remember to clear the f->f_indirect pointer so you'll know   *)
(* whether it's valid!"  The block that f_indirect names is not free.      *)
IndirectValid ==
    Running => \A p \in Nodes(View) :
        LET i == View[p[1]].file[p[2]].f_indirect
        IN  i # 0 => i \notin View[BitmapBlock].free
=============================================================================
