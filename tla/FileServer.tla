----------------------------- MODULE FileServer -----------------------------
(***************************************************************************)
(* The file server (fs/serv.c) and its clients (user/file.c, fsipc.c).     *)
(*                                                                         *)
(* A client that opens a file gets a page of the server's, Filefd, mapped  *)
(* as its descriptor; the server knows that a file is still open by that   *)
(* page's reference count alone.  The blocks of the file are mapped into   *)
(* the client too, which stores into them directly and tells the server    *)
(* when it closes the file.  A library call is a series of requests.  The  *)
(* server takes one at a time and has no queue: a client that finds it     *)
(* busy tries again, and so does the server with its answer.               *)
(*                                                                         *)
(* The file system underneath is reduced to its directory entries; modules *)
(* FileSystem and FsLayout have the rest.  Sizes are in blocks.            *)
(***************************************************************************)
EXTENDS Integers, FiniteSets

CONSTANTS
    Client, Name, NoName,
    Program,        \* bound: the library calls a client makes
    Entry,          \* f_file nodes of the directory, 1 .. something
    MAXOPEN,        \* entries of opentab
    IdMod,          \* file ids wrap here, and are negative from IdMod \div 2 on
    NBLK,           \* bound: blocks of a file, and pages a descriptor maps
    BY2PG           \* the factor between a page's offset in bytes and its number

ASSUME FileServerAssumption ==
    /\ \A c \in Client : Program[c] \subseteq {"open", "close", "truncate", "write", "fork", "remove", "sync"}
    /\ NoName \notin Name /\ IsFiniteSet(Client) /\ Entry \subseteq Nat \ {0}
    /\ MAXOPEN \in Nat \ {0} /\ IdMod \in Nat /\ IdMod % MAXOPEN = 0 /\ IdMod > 2 * MAXOPEN
    /\ NBLK \in Nat \ {0} /\ BY2PG \in Nat /\ BY2PG >= NBLK

VARIABLES
    node,       \* the directory: name and size of each entry
    opentab,    \* o_fileid, o_file (0: none), and whether o_ff has a page
    ff,         \* the pages: f_fileid, and f_size and the entry of f_file
    fd,         \* the client's descriptor: the number of the page it maps, or -1
    data,       \* the pages mapped behind it
    pted,       \* of those, the ones the client has stored into (PTE_D)
    call,       \* the library call of each client, and where it is in it
    pc,         \* "run", "send" (trying to), "recv" (about to) or "wait"
    srv,        \* "recv", "serve" or "reply"
    req,        \* the request in hand
    ans         \* the answer to it

clientVars == <<fd, data, pted, call>>
vars == <<node, opentab, ff, fd, data, pted, call, pc, srv, req, ans>>

Slot == 0 .. MAXOPEN - 1
Page == 0 .. NBLK - 1

NoCall == [op |-> "none", type |-> "none", k |-> 0, size |-> 0, name |-> NoName, mode |-> "read",
           told |-> {}]    \* told: the blocks file_close got marked, for the record
NoReq == [from |-> "none", type |-> "none", fileid |-> 0, offset |-> 0, name |-> NoName, mode |-> "read"]

(* The server's page table entry, and those of the clients.                *)
pageref(i) == (IF opentab[i].page THEN 1 ELSE 0) + Cardinality({c \in Client : fd[c] = i})

Init ==
    /\ \E at \in Entry, n \in Name :
        node = [e \in Entry |-> IF e = at THEN [f_name |-> n, f_size |-> NBLK]
                                ELSE [f_name |-> NoName, f_size |-> 0]]
    /\ opentab = [i \in Slot |-> [o_fileid |-> i, o_file |-> 0, page |-> FALSE]]
    /\ ff = [i \in Slot |-> [f_fileid |-> 0, file |-> 0, f_size |-> 0]]
    /\ fd = [c \in Client |-> -1]
    /\ data = [c \in Client |-> {}] /\ pted = [c \in Client |-> {}]
    /\ call = [c \in Client |-> NoCall] /\ pc = [c \in Client |-> "run"]
    /\ srv = "recv" /\ req = NoReq /\ ans = [r |-> "ok", slot |-> -1, block |-> -1]

----------------------------------------------------------------------------
(* The client's library calls start with their first request.              *)
Begin(c, new) ==
    /\ pc[c] = "run"
    /\ call' = [call EXCEPT ![c] = new]
    /\ pc' = [pc EXCEPT ![c] = "send"]
    /\ UNCHANGED <<node, opentab, ff, fd, data, pted, srv, req, ans>>

open(c, name, mode) ==
    fd[c] = -1 /\ Begin(c, [NoCall EXCEPT !.op = "open", !.type = "OPEN", !.name = name, !.mode = mode])

(* The next page from k on that file_close reports, and the request.       *)
Reported(c, k) == {p \in pted[c] : p >= k /\ p < ff[fd[c]].f_size}
Closing(c, k) ==
    IF Reported(c, k) = {} THEN [NoCall EXCEPT !.op = "close", !.type = "CLOSE"]
    ELSE [NoCall EXCEPT !.op = "close", !.type = "DIRTY",
                        !.k = CHOOSE p \in Reported(c, k) : \A q \in Reported(c, k) : p <= q]

file_close(c) == fd[c] # -1 /\ Begin(c, Closing(c, 0))

(* Also file_write's, when it writes past the size in Filefd: nothing ever *)
(* changes that one.                                                       *)
ftruncate(c, size) ==
    fd[c] # -1 /\ Begin(c, [NoCall EXCEPT !.op = "truncate", !.type = "SET_SIZE", !.size = size])

remove(c, name) == Begin(c, [NoCall EXCEPT !.op = "remove", !.type = "REMOVE", !.name = name])
sync(c) == Begin(c, [NoCall EXCEPT !.op = "sync", !.type = "SYNC"])

(* file_write's bcopy, into a page that is mapped.                         *)
file_write(c, p) ==
    /\ pc[c] = "run" /\ fd[c] # -1 /\ p \in data[c]
    /\ pted' = [pted EXCEPT ![c] = @ \cup {p}]
    /\ UNCHANGED <<node, opentab, ff, fd, data, call, pc, srv, req, ans>>

(* A child that is forked has its parent's descriptor and pages.           *)
fork(c, d) ==
    /\ pc[c] = "run" /\ pc[d] = "run" /\ fd[c] # -1 /\ fd[d] = -1
    /\ fd' = [fd EXCEPT ![d] = fd[c]]
    /\ data' = [data EXCEPT ![d] = data[c]]
    /\ pted' = [pted EXCEPT ![d] = {}]
    /\ UNCHANGED <<node, opentab, ff, call, pc, srv, req, ans>>

----------------------------------------------------------------------------
(* fsipc.  The fields of a request, from where the call is.                *)
Request(c) ==
    LET k == call[c]
    IN  [from |-> c, type |-> IF k.type = "BACK" THEN "SET_SIZE" ELSE k.type,
         fileid |-> IF fd[c] = -1 THEN 0 ELSE ff[fd[c]].f_fileid,
         offset |-> CASE k.type = "MAP" /\ k.op = "truncate" -> k.k * BY2PG
                      [] k.type \in {"MAP", "DIRTY"} -> k.k
                      [] k.type = "SET_SIZE" -> k.size
                      [] k.type = "BACK" -> ff[fd[c]].f_size
                      [] OTHER -> 0,
         name |-> k.name, mode |-> k.mode]

(* A mutant: the server's state is not looked at.                          *)
SendAnyway(c) ==
    /\ pc[c] = "send"
    /\ pc' = [pc EXCEPT ![c] = "recv"]
    /\ srv' = "serve" /\ req' = Request(c)
    /\ UNCHANGED <<node, opentab, ff, clientVars, ans>>

ipc_send(c) ==
    /\ pc[c] = "send" /\ srv = "recv"
    /\ pc' = [pc EXCEPT ![c] = "recv"]
    /\ srv' = "serve" /\ req' = Request(c)
    /\ UNCHANGED <<node, opentab, ff, clientVars, ans>>

ipc_recv(c) ==
    /\ pc[c] = "recv"
    /\ pc' = [pc EXCEPT ![c] = "wait"]
    /\ UNCHANGED <<node, opentab, ff, clientVars, srv, req, ans>>

----------------------------------------------------------------------------
(* The server's handlers.  An allocation may fail at any time.             *)
Serving(type) == srv = "serve" /\ req.type = type /\ srv' = "reply" /\ UNCHANGED <<clientVars, pc, req>>
Answer(r) == ans' = [r |-> r, slot |-> -1, block |-> -1]

Named(name) == {e \in Entry : node[e].f_name = name}
FirstFree == CHOOSE e \in Named(NoName) : \A x \in Named(NoName) : e <= x

(* The first entry that is open nowhere else.                              *)
Available == {i \in Slot : pageref(i) <= 1}

(* A mutant: a file open once is taken for one that nobody has open.       *)
open_alloc_off_by_one ==
    LET some == {i \in Slot : pageref(i) <= 2}
    IN  IF Available = {} THEN 0 ELSE CHOOSE i \in some : \A j \in some : i <= j

open_alloc == CHOOSE i \in Available : \A j \in Available : i <= j

open_lookup(i, fileid) == pageref(i) # 1 /\ opentab[i].o_fileid = fileid

(* A mutant: the id does not wrap.                                         *)
NewIdUnwrapped(i) == opentab[i].o_fileid + MAXOPEN

(* What the entry i becomes, with a new id, before the file is looked for. *)
NewId(i) == (opentab[i].o_fileid + MAXOPEN) % IdMod
Taken(i) == [opentab EXCEPT ![i].o_fileid = NewId(i), ![i].page = TRUE]

(* The page is wiped as soon as the entry is taken.                        *)
Wiped(i) == [ff EXCEPT ![i] = [f_fileid |-> 0, file |-> 0, f_size |-> 0]]

Opened(i, e, nodes) ==
    /\ node' = nodes
    /\ opentab' = [Taken(i) EXCEPT ![i].o_file = e]
    /\ ff' = [ff EXCEPT ![i] = [f_fileid |-> NewId(i), file |-> e, f_size |-> nodes[e].f_size]]
    /\ ans' = [r |-> "ok", slot |-> i, block |-> -1]

serve_open ==
    /\ Serving("OPEN")
    /\ \/ /\ Available # {} => ~ opentab[open_alloc].page
          /\ Answer(IF Available = {} THEN "E_MAX_OPEN" ELSE "E_NO_MEM")
          /\ UNCHANGED <<node, opentab, ff>>
       \/ LET i == open_alloc
              found == Named(req.name)
              creates == req.mode = "create" \/ (found = {} /\ req.mode = "write")
          IN  /\ Available # {}
              /\ \/ /\ NewId(i) < IdMod \div 2 /\ ~ creates
                    /\ \E e \in found : Opened(i, e, node)
                 \/ /\ NewId(i) < IdMod \div 2 /\ creates /\ found = {} /\ Named(NoName) # {}
                    /\ Opened(i, FirstFree, [node EXCEPT ![FirstFree].f_name = req.name])
                 \/ /\ opentab' = Taken(i) /\ ff' = Wiped(i)
                    /\ Answer("error") /\ UNCHANGED node

(* file_get_block, which may have to allocate.                             *)
serve_map ==
    /\ Serving("MAP")
    /\ IF open_lookup(req.fileid % MAXOPEN, req.fileid) /\ opentab[req.fileid % MAXOPEN].o_file # 0
       THEN IF req.offset \in Page THEN \E r \in {"ok", "E_NO_DISK"} : Answer(r) ELSE Answer("E_INVAL")
       ELSE Answer("E_INVAL")
    /\ UNCHANGED <<node, opentab, ff>>

serve_set_size ==
    LET e == opentab[req.fileid % MAXOPEN].o_file
    IN  /\ Serving("SET_SIZE")
        /\ IF open_lookup(req.fileid % MAXOPEN, req.fileid) /\ e # 0
           THEN /\ node' = [node EXCEPT ![e].f_size = req.offset]
                /\ Answer("ok")
           ELSE Answer("E_INVAL") /\ UNCHANGED node
        /\ UNCHANGED <<opentab, ff>>

(* Nothing is done.                                                        *)
serve_close ==
    /\ Serving("CLOSE")
    /\ Answer(IF open_lookup(req.fileid % MAXOPEN, req.fileid) THEN "ok" ELSE "E_INVAL")
    /\ UNCHANGED <<node, opentab, ff>>

(* The offset is one in bytes here: file_dirty divides it by BY2BLK.  The  *)
(* answer's block is for the record; the code sends r alone.               *)
serve_dirty ==
    LET e == opentab[req.fileid % MAXOPEN].o_file
        n == req.offset \div BY2PG
    IN  /\ Serving("DIRTY")
        /\ IF open_lookup(req.fileid % MAXOPEN, req.fileid) /\ e # 0
           THEN \/ ans' = [r |-> "ok", slot |-> -1, block |-> n]
                \/ Answer("E_NO_DISK")
           ELSE Answer("E_INVAL")
        /\ UNCHANGED <<node, opentab, ff>>

(* A mutant: nothing is said when there is no such file.                   *)
RemoveSilently ==
    /\ srv = "serve" /\ req.type = "REMOVE"
    /\ IF Named(req.name) = {} THEN srv' = "recv" /\ req' = NoReq /\ UNCHANGED <<node, ans>>
       ELSE /\ node' = [e \in Entry |-> IF e \in Named(req.name) THEN [f_name |-> NoName, f_size |-> 0] ELSE node[e]]
            /\ Answer("ok") /\ srv' = "reply" /\ UNCHANGED req
    /\ UNCHANGED <<opentab, ff, clientVars, pc>>

(* The entries of opentab that name the file are not looked for.           *)
serve_remove ==
    /\ Serving("REMOVE")
    /\ IF Named(req.name) = {} THEN Answer("E_NOT_FOUND") /\ UNCHANGED node
       ELSE LET e == CHOOSE x \in Named(req.name) : TRUE
            IN  /\ node' = [node EXCEPT ![e] = [f_name |-> NoName, f_size |-> 0]]
                /\ Answer("ok")
    /\ UNCHANGED <<opentab, ff>>

serve_sync ==
    /\ Serving("SYNC")
    /\ Answer("ok") /\ UNCHANGED <<node, opentab, ff>>

----------------------------------------------------------------------------
(* The answer arrives, and the call goes on to its next request or ends.   *)
Goes(c, new) == call' = [call EXCEPT ![c] = new] /\ pc' = [pc EXCEPT ![c] = "send"]
Ends(c) == call' = [call EXCEPT ![c] = NoCall] /\ pc' = [pc EXCEPT ![c] = "run"]

Maps(c, p) == data' = [data EXCEPT ![c] = @ \cup {p}] /\ pted' = [pted EXCEPT ![c] = @ \ {p}]

opening(c) ==
    LET k == call[c]
        slot == IF k.type = "OPEN" THEN ans.slot ELSE fd[c]
        next == IF k.type = "OPEN" THEN 0 ELSE k.k + 1
    IN  /\ k.op = "open" /\ UNCHANGED ff
        /\ fd' = IF ans.r = "ok" THEN [fd EXCEPT ![c] = slot] ELSE fd
        /\ IF ans.r = "ok" /\ k.type = "MAP" THEN Maps(c, k.k) ELSE UNCHANGED <<data, pted>>
        /\ IF ans.r = "ok" /\ next < ff[slot].f_size
           THEN Goes(c, [k EXCEPT !.type = "MAP", !.k = next]) ELSE Ends(c)

(* After the last request the pages are unmapped, then the descriptor.     *)
(* What is in a page that only the server maps is never read: the model    *)
(* forgets it.                                                             *)
closing(c) ==
    LET k == call[c]
    IN  /\ k.op = "close"
        /\ IF k.type = "DIRTY"
           THEN /\ Goes(c, [Closing(c, k.k + 1) EXCEPT !.told = k.told \cup ({ans.block} \ {-1})])
                /\ UNCHANGED <<ff, fd, data, pted>>
           ELSE /\ Ends(c) /\ fd' = [fd EXCEPT ![c] = -1]
                /\ ff' = IF pageref(fd[c]) = 2 THEN Wiped(fd[c]) ELSE ff
                /\ IF ans.r = "ok"
                   THEN data' = [data EXCEPT ![c] = {}] /\ pted' = [pted EXCEPT ![c] = {}]
                   ELSE UNCHANGED <<data, pted>>

truncating(c) ==
    LET k == call[c]
        old == ff[fd[c]].f_size
        next == IF k.type = "SET_SIZE" THEN old ELSE k.k + 1
        left == Page \ (k.size .. old - 1)
    IN  /\ k.op = "truncate" /\ UNCHANGED <<ff, fd>>
        /\ CASE k.type \in {"SET_SIZE", "MAP"} /\ ans.r = "ok" /\ next < k.size ->
                    /\ Goes(c, [k EXCEPT !.type = "MAP", !.k = next])
                    /\ IF k.type = "MAP" THEN Maps(c, k.k) ELSE UNCHANGED <<data, pted>>
             [] k.type = "MAP" /\ ans.r = "ok" /\ next >= k.size -> Ends(c) /\ Maps(c, k.k)
             [] k.type = "MAP" /\ ans.r # "ok" ->
                    Goes(c, [k EXCEPT !.type = "BACK"]) /\ UNCHANGED <<data, pted>>
             [] k.type = "SET_SIZE" /\ ans.r = "ok" /\ next >= k.size ->
                    /\ Ends(c)
                    /\ data' = [data EXCEPT ![c] = @ \cap left] /\ pted' = [pted EXCEPT ![c] = @ \cap left]
             [] OTHER -> Ends(c) /\ UNCHANGED <<data, pted>>

removing(c) == call[c].op \in {"remove", "sync"} /\ Ends(c) /\ UNCHANGED <<ff, fd, data, pted>>

reply(c) ==
    /\ srv = "reply" /\ req.from = c /\ pc[c] = "wait"
    /\ opening(c) \/ closing(c) \/ truncating(c) \/ removing(c)
    /\ srv' = "recv" /\ req' = NoReq /\ ans' = [r |-> "ok", slot |-> -1, block |-> -1]
    /\ UNCHANGED <<node, opentab>>

Calls(c) ==
    \/ "open" \in Program[c] /\ \E n \in Name, m \in {"read", "write", "create"} : open(c, n, m)
    \/ "close" \in Program[c] /\ file_close(c)
    \/ "truncate" \in Program[c] /\ \E size \in 0 .. NBLK : ftruncate(c, size)
    \/ "write" \in Program[c] /\ \E p \in Page : file_write(c, p)
    \/ "fork" \in Program[c] /\ \E d \in Client \ {c} : fork(c, d)
    \/ "remove" \in Program[c] /\ \E n \in Name : remove(c, n)
    \/ "sync" \in Program[c] /\ sync(c)

serve ==
    \/ serve_open \/ serve_map \/ serve_set_size \/ serve_close
    \/ serve_dirty \/ serve_remove \/ serve_sync

Next == serve \/ \E c \in Client : Calls(c) \/ ipc_send(c) \/ ipc_recv(c) \/ reply(c)

Spec == Init /\ [][Next]_vars

(* The scheduler runs the server and every client that is not blocked.     *)
FairSpec ==
    /\ Spec /\ WF_vars(serve)
    /\ \A c \in Client : WF_vars(ipc_send(c)) /\ WF_vars(ipc_recv(c)) /\ WF_vars(reply(c))

----------------------------------------------------------------------------
(* The variables keep to what the programs can hold.                       *)
ServerTypeOK ==
    /\ node \in [Entry -> [f_name : Name \cup {NoName}, f_size : 0 .. NBLK]]
    /\ opentab \in [Slot -> [o_fileid : 0 .. IdMod - 1, o_file : Entry \cup {0}, page : BOOLEAN]]
    /\ ff \in [Slot -> [f_fileid : 0 .. IdMod - 1, file : Entry \cup {0}, f_size : 0 .. NBLK]]
    /\ fd \in [Client -> Slot \cup {-1}]
    /\ \A c \in Client : pted[c] \subseteq data[c] /\ data[c] \subseteq Page
    /\ pc \in [Client -> {"run", "send", "recv", "wait"}] /\ srv \in {"recv", "serve", "reply"}

(* While anyone has a file open, through open or through fork, its entry   *)
(* in the server is not given to another file, its id stays valid, and no  *)
(* other open file has it; although the server keeps no list of who has    *)
(* what open and never learns of a close.                                  *)
OpenFileKept ==
    \A c \in Client : fd[c] # -1 =>
        /\ opentab[fd[c]].o_fileid = ff[fd[c]].f_fileid
        /\ opentab[fd[c]].o_file = ff[fd[c]].file /\ ff[fd[c]].file # 0
        /\ open_lookup(ff[fd[c]].f_fileid % MAXOPEN, ff[fd[c]].f_fileid)
        /\ \A d \in Client : fd[d] # -1 /\ ff[fd[d]].f_fileid = ff[fd[c]].f_fileid => fd[d] = fd[c]

(* The server and its clients always match: what the server has in hand    *)
(* was asked by a client that waits for it and for nothing else, and a     *)
(* client whose request is not the one in hand is not waiting.             *)
OneConversation ==
    \A c \in Client :
        /\ pc[c] \in {"recv", "wait"} <=> (srv # "recv" /\ req.from = c)
        /\ pc[c] \in {"recv", "wait"} => req = Request(c)

(* A request that the server has taken is answered.                        *)
TakenIsAnswered ==
    \A c \in Client : pc[c] = "recv" ~> pc[c] \in {"run", "send"}

(* file.c:83: "notify the file server pages that has been modified".  When *)
(* the file is closed, the server has marked every block of it that the    *)
(* client has stored into, if it could mark any.                           *)
ModifiedNotified ==
    \A c \in Client :
        call[c].type = "CLOSE" /\ call[c].told # {} =>
            pted[c] \cap (0 .. ff[fd[c]].f_size - 1) \subseteq call[c].told
=============================================================================
