------------------------------- MODULE Shell -------------------------------
(***************************************************************************)
(* The shell (user/sh.c) with what it is built on: fork, spawn, wait, the  *)
(* descriptors of user/fd.c and pipes; init, which starts it again when it *)
(* ends (user/init.c); and commands that read their input to its end.      *)
(*                                                                         *)
(* A library call is one step, except those that let others run inside     *)
(* while the result depends on it: open waits for the file server, wait    *)
(* loads the id and the status of a slot one after the other, and a read   *)
(* or a write of a pipe waits for the other side.  Pipe, CowFork and       *)
(* FileServer take these calls apart.                                      *)
(***************************************************************************)
EXTENDS Integers, Sequences, FiniteSets

CONSTANTS
    NENV,           \* slots of envs[]; slot 0 is init's
    MAXFD,          \* descriptors of an environment
    MAXARGS,        \* room in argv
    BY2PIPE,        \* bytes a pipe holds
    NObj,           \* pages for descriptors, and
    NPipe,          \* for pipes; without one left open and pipe fail
    Lines,          \* bound: the lines that are typed
    MaxLines,       \* bound: how many of them
    MaxInterrupts,  \* bound: how often Ctrl-C is pressed
    Programs,       \* the words that name a program
    Files           \* the words that name a file

(* argv has one entry less than argv[argc] = 0 needs: a line with exactly  *)
(* MAXARGS words writes behind it, and is not typed here.  Lines are made  *)
(* of characters; a program has a name of one character, none of which is  *)
(* taken for a job of init, of the shell or of its child.                  *)
ASSUME ShellAssumption ==
    /\ NENV \in Nat \ {0, 1} /\ MAXFD \in Nat \ {0, 1} /\ MAXARGS \in Nat \ {0}
    /\ BY2PIPE \in Nat \ {0} /\ NObj \in Nat \ {0} /\ NPipe \in Nat \ {0}
    /\ MaxLines \in Nat /\ MaxInterrupts \in Nat /\ Programs \subseteq Files
    /\ Lines \subseteq Seq(STRING) /\ Programs \cap {"none", "init", "sh", "run"} = {}

VARIABLES
    id,         \* env_id, counted up at every use of the slot
    st,         \* env_status
    list,       \* env_free_list
    fd,         \* the descriptor page at each descriptor, 0 for none
    obj,        \* the descriptor pages: fd_dev_id, fd_omode, fd_offset
    unread,     \* bytes in each pipe
    job,        \* the program of each environment, and where it is in it
    typed, interrupts

vars == <<id, st, list, fd, obj, unread, job, typed, interrupts>>

Env == 0 .. NENV - 1
Fd == 0 .. MAXFD - 1
Obj == 1 .. NObj
PipeNo == 1 .. NPipe

NoObj == [dev |-> "none", mode |-> "rw", pipe |-> 0, offset |-> 0]
NoFds == [i \in Fd |-> 0]
NoEnv == [slot |-> 0, id |-> 0]

----------------------------------------------------------------------------
(* Words.  A line is a string with a NUL behind it; position 0 is the null *)
(* pointer.  Words keep their place in the line, and end at the NUL that   *)
(* overwrites what follows them.                                           *)
WHITESPACE == {" "}
SYMBOLS == {"<", ">", "|", "&"}

Char(j, i) == IF i > Len(j.s) \/ i \in j.nul THEN "NUL" ELSE j.s[i]

From(i, S) == CHOOSE k \in S : k >= i /\ \A l \in S : l >= i => k <= l

(* The next token from position i on, and the line as it leaves it.        *)
_gettoken(j, i) ==
    LET places == 1 .. Len(j.s) + 1
        begin == From(i, {k \in places : Char(j, k) \notin WHITESPACE})
        end == From(begin, {k \in places : Char(j, k) \in {"NUL"} \cup WHITESPACE \cup SYMBOLS})
        zeroed == j.nul \cup (i .. begin - 1)
    IN  IF i = 0 THEN [j EXCEPT !.nc = "0"]
        ELSE CASE Char(j, begin) = "NUL" -> [j EXCEPT !.nul = zeroed, !.nc = "0", !.np1 = 0, !.np2 = 0]
               [] Char(j, begin) \in SYMBOLS ->
                    [j EXCEPT !.nul = zeroed \cup {begin}, !.nc = Char(j, begin),
                              !.np1 = begin, !.np2 = begin + 1]
               [] OTHER -> [j EXCEPT !.nul = zeroed, !.nc = "w", !.np1 = begin, !.np2 = end]

(* A mutant: the next token is looked for when it is asked for, so that the*)
(* word before it has not been cut off yet.                                *)
gettoken_late(j) ==
    LET k == _gettoken(j, j.np2) IN [k EXCEPT !.c = k.nc, !.t = k.np1]

(* Hands out the token found by the call before.                           *)
gettoken(j) == _gettoken([j EXCEPT !.c = j.nc, !.t = j.np1], j.np2)

(* The string at a position: up to the first NUL.                          *)
String(j, i) ==
    LET end == From(i, {k \in 1 .. Len(j.s) + 1 : Char(j, k) = "NUL"})
    IN  SubSeq(j.s, i, end - 1)

NoJob == [prog |-> "none", at |-> "none", s |-> <<>>, nul |-> {}, c |-> "0", t |-> 0,
          nc |-> "0", np1 |-> 0, np2 |-> 0, argv |-> <<>>, fd |-> 0, p |-> <<0, 0>>,
          child |-> NoEnv, rightpipe |-> NoEnv, n |-> 0]

----------------------------------------------------------------------------
(* Descriptors.  A page nobody maps is gone, and a pipe with its pages.    *)
Descriptors(f, o) ==
    /\ fd' = f
    /\ obj' = [k \in Obj |-> IF \E e \in Env, i \in Fd : fd'[e][i] = k THEN o[k] ELSE NoObj]
    /\ unread' = [p \in PipeNo |-> IF \E k \in Obj : obj'[k].pipe = p THEN unread[p] ELSE 0]

Unchanged == UNCHANGED <<fd, obj, unread>>

FreeFds(e) == {i \in Fd : fd[e][i] = 0}
FreeObjs == {k \in Obj : obj[k] = NoObj}
FreePipes == {p \in PipeNo : \A k \in Obj : obj[k].pipe # p}
Least(S) == CHOOSE k \in S : \A l \in S : k <= l

(* Whether anybody else's descriptor of the pipe is of that mode: if not,  *)
(* _pipeisclosed finds as many references to the one page as to the other. *)
IsOpen(p, mode) == \E e \in Env, i \in Fd : fd[e][i] # 0 /\ obj[fd[e][i]].pipe = p /\ obj[fd[e][i]].mode = mode

(* What the program does next.                                             *)
In(e, at) == st[e] = "runnable" /\ job[e].at = at
Go(e, at) == job' = [job EXCEPT ![e].at = at]
Same == UNCHANGED <<id, st, list, typed, interrupts>>

dup(e, from, to, at) ==
    Descriptors([fd EXCEPT ![e][to] = fd[e][from]], obj) /\ Go(e, at) /\ Same

close(e, i, at) == Descriptors([fd EXCEPT ![e][i] = 0], obj) /\ Go(e, at) /\ Same

(* A mutant: the slot does not go back on the list.                        *)
destroy_loses_slot(e) ==
    /\ Descriptors([fd EXCEPT ![e] = NoFds], obj)
    /\ st' = [st EXCEPT ![e] = "free"]
    /\ job' = [job EXCEPT ![e] = NoJob]
    /\ UNCHANGED <<id, list>>

(* exit, or the kernel's end of an environment: its memory goes with it.   *)
destroy(e) ==
    /\ Descriptors([fd EXCEPT ![e] = NoFds], obj)
    /\ st' = [st EXCEPT ![e] = "free"]
    /\ list' = <<e>> \o list
    /\ job' = [job EXCEPT ![e] = NoJob]
    /\ UNCHANGED id

(* A new environment that runs j with the descriptors f, for e, which goes *)
(* on as k.                                                                *)
Child == [slot |-> Head(list), id |-> id[Head(list)] + 1]

Starts(e, j, f, k) ==
    /\ id' = [id EXCEPT ![Child.slot] = Child.id]
    /\ st' = [st EXCEPT ![Child.slot] = "runnable"]
    /\ list' = Tail(list)
    /\ job' = [job EXCEPT ![Child.slot] = j, ![e] = k]
    /\ Descriptors([fd EXCEPT ![e] = f, ![Child.slot] = f], obj)
    /\ UNCHANGED <<typed, interrupts>>

----------------------------------------------------------------------------
(* open: where it is called, and where it goes on.                         *)
Opens == [in    |-> [mode |-> "r", ok |-> "in_dup",    bad |-> "exit"],
          out   |-> [mode |-> "w", ok |-> "again",     bad |-> "exit"],
          again |-> [mode |-> "w", ok |-> "out_dup",   bad |-> "exit"],
          spawn |-> [mode |-> "r", ok |-> "spawn_env", bad |-> "close_all"]]

(* The request; it is not made without a free descriptor.                  *)
open(e) ==
    /\ st[e] = "runnable" /\ job[e].at \in DOMAIN Opens
    /\ IF FreeFds(e) = {}
       THEN Go(e, Opens[job[e].at].bad) /\ UNCHANGED st
       ELSE st' = [st EXCEPT ![e] = "blocked"] /\ UNCHANGED job
    /\ Unchanged /\ UNCHANGED <<id, list, typed, interrupts>>

Named(j) == IF j.at = "spawn" THEN String(j, j.argv[1]) ELSE String(j, j.t)

(* The file server's answer.  A file that is written is made if need be.   *)
opened(e) ==
    LET how == Opens[job[e].at]
        name == Named(job[e])
        i == Least(FreeFds(e))
        k == Least(FreeObjs)
    IN  /\ st[e] = "blocked"
        /\ st' = [st EXCEPT ![e] = "runnable"]
        /\ IF FreeObjs # {} /\ (how.mode = "w" \/ name \in {<<f>> : f \in Files})
           THEN /\ Descriptors([fd EXCEPT ![e][i] = k],
                               [obj EXCEPT ![k] = [NoObj EXCEPT !.dev = "file", !.mode = how.mode]])
                /\ job' = [job EXCEPT ![e].at = how.ok, ![e].fd = i]
           ELSE Go(e, how.bad) /\ Unchanged
        /\ UNCHANGED <<id, list, typed, interrupts>>

----------------------------------------------------------------------------
(* What runcmd does with token j; k is the token behind < or >.            *)
Taken(j, k) ==
    CASE j.c = "0" -> [j EXCEPT !.at = "runit"]
      [] j.c = "w" /\ Len(j.argv) = MAXARGS -> [j EXCEPT !.at = "exit"]
      [] j.c = "w" /\ Len(j.argv) # MAXARGS -> [j EXCEPT !.argv = Append(@, j.t)]
      [] j.c = "<" -> [k EXCEPT !.at = IF k.c = "w" THEN "in" ELSE "exit"]
      [] j.c = ">" -> [k EXCEPT !.at = IF k.c = "w" THEN "out" ELSE "exit"]
      [] j.c = "|" -> [j EXCEPT !.at = "pipe"]
      [] OTHER -> j

runcmd(e) ==
    /\ In(e, "token")
    /\ \E j \in {gettoken(job[e])} : \E k \in {gettoken(j)} : job' = [job EXCEPT ![e] = Taken(j, k)]
    /\ Unchanged /\ Same

redirect(e) ==
    \/ In(e, "in_dup") /\ dup(e, job[e].fd, 0, "moved")
    \/ In(e, "out_dup") /\ dup(e, job[e].fd, 1, "moved")
    \/ In(e, "moved") /\ close(e, job[e].fd, "token")

(* pipe(p): the least two descriptors.                                     *)
pipe(e) ==
    LET r == Least(FreeFds(e))
        w == Least(FreeFds(e) \ {r})
        k == Least(FreeObjs)
        l == Least(FreeObjs \ {k})
        end == [NoObj EXCEPT !.dev = "pipe", !.pipe = Least(FreePipes)]
    IN  /\ In(e, "pipe")
        /\ IF Cardinality(FreeFds(e)) < 2 \/ Cardinality(FreeObjs) < 2 \/ FreePipes = {} THEN Go(e, "exit") /\ Unchanged
           ELSE /\ Descriptors([fd EXCEPT ![e][r] = k, ![e][w] = l],
                               [obj EXCEPT ![k] = [end EXCEPT !.mode = "r"], ![l] = [end EXCEPT !.mode = "w"]])
                /\ job' = [job EXCEPT ![e].at = "pipe_fork", ![e].p = <<r, w>>]
        /\ Same

pipe_fork(e) ==
    /\ In(e, "pipe_fork")
    /\ IF list = <<>> THEN Go(e, "exit") /\ Unchanged /\ Same
       ELSE Starts(e, [job[e] EXCEPT !.at = "right_dup"], fd[e],
                   [job[e] EXCEPT !.at = "left_dup", !.rightpipe = Child])

(* The child becomes the right side, and goes on with the tokens.          *)
right_keeps_write(e) ==
    \/ In(e, "right_dup") /\ dup(e, job[e].p[1], 0, "right_r")
    \/ In(e, "right_r") /\ close(e, job[e].p[1], "right_w")
    \/ /\ In(e, "right_w")
       /\ job' = [job EXCEPT ![e].at = "token", ![e].argv = <<>>]
       /\ Unchanged /\ Same

right(e) ==
    \/ In(e, "right_dup") /\ dup(e, job[e].p[1], 0, "right_r")
    \/ In(e, "right_r") /\ close(e, job[e].p[1], "right_w")
    \/ /\ In(e, "right_w")
       /\ Descriptors([fd EXCEPT ![e][job[e].p[2]] = 0], obj)
       /\ job' = [job EXCEPT ![e].at = "token", ![e].argv = <<>>]
       /\ Same

left(e) ==
    \/ In(e, "left_dup") /\ dup(e, job[e].p[2], 1, "left_r")
    \/ In(e, "left_r") /\ close(e, job[e].p[1], "left_w")
    \/ In(e, "left_w") /\ close(e, job[e].p[2], "runit")

(* runit: nothing to run ends the environment, without a wait.             *)
runit(e) ==
    /\ In(e, "runit")
    /\ Go(e, IF job[e].argv = <<>> THEN "exit" ELSE "spawn")
    /\ Unchanged /\ Same

(* Whom the environment waits for: the command first, then the right side. *)
Awaited(j) == IF j.child # NoEnv THEN j.child ELSE j.rightpipe

(* spawn, once the file is open: it is closed unless spawn fails.  The line*)
(* goes along, for the record.                                             *)
Loads(e) == String(job[e], job[e].argv[1])[1]

spawn(e) ==
    /\ In(e, "spawn_env")
    /\ IF list = <<>> \/ Loads(e) \notin Programs THEN Go(e, "close_all") /\ Unchanged /\ Same
       ELSE Starts(e, [NoJob EXCEPT !.prog = Loads(e), !.at = "start", !.s = job[e].s],
                   [fd[e] EXCEPT ![job[e].fd] = 0],
                   [job[e] EXCEPT !.at = "close_all", !.child = Child])

(* A mutant: the descriptors are kept while the command runs.              *)
close_nothing(e) ==
    /\ In(e, "close_all")
    /\ Go(e, IF Awaited(job[e]) = NoEnv THEN "exit" ELSE "wait")
    /\ Unchanged /\ Same

close_all(e) ==
    /\ In(e, "close_all")
    /\ Go(e, IF Awaited(job[e]) = NoEnv THEN "exit" ELSE "wait")
    /\ Descriptors([fd EXCEPT ![e] = NoFds], obj) /\ Same

----------------------------------------------------------------------------
(* wait(envid), with the id and the status loaded apart.                   *)
(* A mutant: the right side is not waited for.                             *)
Waited_left(j) ==
    CASE j.prog = "init" -> [j EXCEPT !.at = "start_sh", !.child = NoEnv]
      [] j.prog = "sh" -> [j EXCEPT !.at = "readline", !.child = NoEnv]
      [] OTHER -> [j EXCEPT !.at = "exit"]

Waited(j) ==
    CASE j.prog = "init" -> [j EXCEPT !.at = "start_sh", !.child = NoEnv]
      [] j.prog = "sh" -> [j EXCEPT !.at = "readline", !.child = NoEnv]
      [] j.prog = "run" /\ j.child # NoEnv /\ j.rightpipe # NoEnv -> [j EXCEPT !.child = NoEnv, !.at = "wait"]
      [] OTHER -> [j EXCEPT !.at = "exit"]

(* A mutant: an environment that waits for an answer is taken for gone.    *)
wait_runnable(e) ==
    LET j == job[e]
        over == IF j.at = "wait" THEN id[Awaited(j).slot] # Awaited(j).id
                ELSE st[Awaited(j).slot] # "runnable"
    IN  /\ st[e] = "runnable" /\ j.at \in {"wait", "wait_status"}
        /\ job' = [job EXCEPT ![e] = IF over THEN Waited(j)
                                     ELSE [j EXCEPT !.at = IF j.at = "wait" THEN "wait_status" ELSE "wait"]]
        /\ Unchanged /\ Same

wait(e) ==
    LET j == job[e]
        over == IF j.at = "wait" THEN id[Awaited(j).slot] # Awaited(j).id
                ELSE st[Awaited(j).slot] = "free"
    IN  /\ st[e] = "runnable" /\ j.at \in {"wait", "wait_status"}
        /\ job' = [job EXCEPT ![e] = IF over THEN Waited(j)
                                     ELSE [j EXCEPT !.at = IF j.at = "wait" THEN "wait_status" ELSE "wait"]]
        /\ Unchanged /\ Same

----------------------------------------------------------------------------
(* umain of the shell.  Ctrl-D ends it.                                    *)
readline(e) ==
    /\ In(e, "readline") /\ typed < MaxLines
    /\ typed' = typed + 1
    /\ \/ \E s \in Lines : job' = [job EXCEPT ![e] = [@ EXCEPT !.at = "fork", !.s = s]]
       \/ Go(e, "exit")
    /\ Unchanged /\ UNCHANGED <<id, st, list, interrupts>>

fork(e) ==
    LET line == [NoJob EXCEPT !.prog = "run", !.at = "token", !.s = job[e].s]
    IN  /\ In(e, "fork")
        /\ IF list = <<>> THEN Go(e, "exit") /\ Unchanged /\ Same
           ELSE Starts(e, _gettoken(line, 1), fd[e], [job[e] EXCEPT !.at = "wait", !.child = Child])

(* init: without an environment it tries again.                            *)
start_sh(e) ==
    /\ In(e, "start_sh") /\ list # <<>>
    /\ Starts(e, [NoJob EXCEPT !.prog = "sh", !.at = "readline"], fd[e], [job[e] EXCEPT !.at = "wait", !.child = Child])

----------------------------------------------------------------------------
(* Commands.  "e" (echo) writes two bytes whatever write answers; "c"      *)
(* (num) copies its input byte by byte, and panics when it cannot.         *)
start(e) ==
    /\ In(e, "start")
    /\ job' = [job EXCEPT ![e].at = IF job[e].prog = "e" THEN "write" ELSE "read", ![e].n = 2]
    /\ Unchanged /\ Same

Page(e, i) == IF fd[e][i] = 0 THEN [NoObj EXCEPT !.mode = "none"] ELSE obj[fd[e][i]]

Took(e) == Go(e, "write")
Ended(e) == Go(e, "exit")
Put(e) == job' = [job EXCEPT ![e].n = @ - 1,
                             ![e].at = IF job[e].prog = "c" THEN "read"
                                       ELSE IF job[e].n = 1 THEN "exit" ELSE "write"]
NotPut(e) == IF job[e].prog = "c" THEN Ended(e) ELSE Put(e)

(* read: a pipe that is empty is waited for while it is open.  The test for*)
(* empty is made before the one for closed, so that the answer may be end  *)
(* of file although the last writer has left something (user/pipe.c:139).  *)
(* An error ends the command as well.                                      *)
AtEnd(o) ==
    \/ o.mode \in {"none", "w"}
    \/ o.dev = "pipe" /\ ~ IsOpen(o.pipe, "w")
    \/ o.dev = "file" /\ o.offset = 1

read(e) ==
    LET o == Page(e, 0)
    IN  /\ In(e, "read") /\ Same
        /\ \/ AtEnd(o) /\ Ended(e) /\ Unchanged
           \/ /\ o.dev = "pipe" /\ o.mode = "r" /\ unread[o.pipe] > 0
              /\ unread' = [unread EXCEPT ![o.pipe] = @ - 1]
              /\ Took(e) /\ UNCHANGED <<fd, obj>>
           \/ /\ o.dev = "file" /\ ~ AtEnd(o)
              /\ obj' = [obj EXCEPT ![fd[e][0]].offset = 1]
              /\ Took(e) /\ UNCHANGED <<fd, unread>>

(* cons_read polls until a key is there: Ctrl-D, here.                     *)
cons_read(e) ==
    /\ In(e, "read") /\ Page(e, 0).dev = "cons"
    /\ Ended(e) /\ Unchanged /\ Same

(* write: a full pipe is waited for while it is open.  A closed one is only*)
(* noticed when it is full.                                                *)
Refused(o) ==
    \/ o.mode \in {"none", "r"}
    \/ o.dev = "pipe" /\ unread[o.pipe] = BY2PIPE /\ ~ IsOpen(o.pipe, "r")

write(e) ==
    LET o == Page(e, 1)
    IN  /\ In(e, "write") /\ Same
        /\ \/ Refused(o) /\ NotPut(e) /\ Unchanged
           \/ o.dev \in {"cons", "file"} /\ ~ Refused(o) /\ Put(e) /\ Unchanged
           \/ /\ o.dev = "pipe" /\ o.mode = "w" /\ unread[o.pipe] < BY2PIPE
              /\ unread' = [unread EXCEPT ![o.pipe] = @ + 1]
              /\ Put(e) /\ UNCHANGED <<fd, obj>>

exit(e) == In(e, "exit") /\ destroy(e) /\ UNCHANGED <<typed, interrupts>>

(* Ctrl-C destroys whoever runs; init is left alone.                       *)
interrupt(e) ==
    /\ e # 0 /\ st[e] = "runnable" /\ interrupts < MaxInterrupts
    /\ interrupts' = interrupts + 1
    /\ destroy(e) /\ UNCHANGED typed

----------------------------------------------------------------------------
(* init has opened the console and started the shell.                      *)
Init ==
    /\ id = [e \in Env |-> IF e \in {0, 1} THEN 1 ELSE 0]
    /\ st = [e \in Env |-> IF e \in {0, 1} THEN "runnable" ELSE "free"]
    /\ list = [k \in 1 .. NENV - 2 |-> k + 1]
    /\ fd = [e \in Env |-> IF e \in {0, 1} THEN [i \in Fd |-> IF i < 2 THEN 1 ELSE 0] ELSE NoFds]
    /\ obj = [k \in Obj |-> IF k = 1 THEN [NoObj EXCEPT !.dev = "cons"] ELSE NoObj]
    /\ unread = [p \in PipeNo |-> 0]
    /\ job = [e \in Env |-> CASE e = 0 -> [NoJob EXCEPT !.prog = "init", !.at = "wait", !.child = [slot |-> 1, id |-> 1]]
                              [] e = 1 -> [NoJob EXCEPT !.prog = "sh", !.at = "readline"]
                              [] OTHER -> NoJob]
    /\ typed = 0 /\ interrupts = 0

Step(e) ==
    \/ open(e) \/ opened(e) \/ runcmd(e) \/ redirect(e) \/ pipe(e) \/ pipe_fork(e)
    \/ right(e) \/ left(e) \/ runit(e) \/ spawn(e) \/ close_all(e) \/ wait(e)
    \/ fork(e) \/ start_sh(e) \/ start(e) \/ read(e) \/ write(e) \/ exit(e)

Next == \E e \in Env : Step(e) \/ readline(e) \/ cons_read(e) \/ interrupt(e)

Spec == Init /\ [][Next]_vars

(* The kernel's scheduler runs every environment again and again (RoundRobin*)
(* of Kernel), and the file server answers.  Nobody has to type.           *)
FairSpec == Spec /\ \A e \in Env : WF_vars(Step(e))

----------------------------------------------------------------------------
Live(v) == id[v.slot] = v.id /\ st[v.slot] # "free"

(* The variables keep to what the code can hold; every page somebody maps  *)
(* is a descriptor, and the free list is the free slots.                   *)
ShellTypeOK ==
    /\ st \in [Env -> {"free", "blocked", "runnable"}]
    /\ Len(list) = Cardinality({e \in Env : st[e] = "free"})
    /\ {list[k] : k \in DOMAIN list} = {e \in Env : st[e] = "free"}
    /\ fd \in [Env -> [Fd -> Obj \cup {0}]]
    /\ \A e \in Env, i \in Fd : fd[e][i] # 0 => obj[fd[e][i]].dev \in {"cons", "pipe", "file"}
    /\ unread \in [PipeNo -> 0 .. BY2PIPE]
    /\ \A e \in Env : st[e] = "free" <=> job[e] = NoJob

(* _gettoken leaves words in place and overwrites what follows them, and a *)
(* word is used only when that has been done: the name of a program or of  *)
(* a file that is opened is all word and nothing else (sh.c:56, sh.c:62).  *)
WordsEnd ==
    \A e \in Env : job[e].at \in DOMAIN Opens =>
        LET w == Named(job[e])
        IN  w # <<>> /\ \A l \in DOMAIN w : w[l] \notin WHITESPACE \cup SYMBOLS

(* A command, or an environment that waits for one, has an end of a pipe   *)
(* only where it is its input or its output: an end kept anywhere else     *)
(* would keep the reader at the other end from ever seeing end of file.    *)
PipeEndsAreStdio ==
    \A e \in Env : job[e].prog \in Programs \/ job[e].at \in {"wait", "wait_status"} =>
        \A i \in Fd : Page(e, i).dev = "pipe" =>
            /\ <<i, Page(e, i).mode>> \in {<<0, "r">>, <<1, "w">>}
            /\ job[e].prog # "run"

(* A command on the line: a word that is not the file behind a < or a >.   *)
Command(s, i) ==
    /\ s[i] \notin WHITESPACE \cup SYMBOLS
    /\ i > 1 => s[i - 1] \in WHITESPACE \cup SYMBOLS
    /\ \A l \in 1 .. i - 1 : s[l] \in {"<", ">"} => \E m \in l + 1 .. i - 1 : s[m] \notin WHITESPACE

(* When the prompt comes back, the whole line is done: no environment of it*)
(* is left.  Not so after Ctrl-C, or for a line with nothing to run before *)
(* a "|": runcmd returns there without the wait (sh.c:216).                *)
Complete(s) ==
    \A k \in DOMAIN s : s[k] = "|" => \E i \in 1 .. k - 1 : Command(s, i) /\ \A l \in i .. k - 1 : s[l] # "|"

PromptIsClean ==
    \A e \in Env : job[e].prog = "sh" /\ job[e].at = "readline" /\ interrupts = 0 =>
        \A d \in Env : st[d] # "free" /\ Complete(job[d].s) => job[d].prog \in {"init", "sh"}

(* wait returns only when the environment it was asked about is gone, who- *)
(* ever has its slot by then.                                              *)
WaitIsOver ==
    [][\A e \in Env :
        LET j == job[e] IN
        /\ j.at \in {"wait", "wait_status"} /\ st'[e] # "free"
        /\ job'[e].at \notin {"wait", "wait_status"} \/ Awaited(job'[e]) # Awaited(j)
        => ~ Live(Awaited(j))]_vars

(* Whatever is typed and whoever is interrupted, the prompt comes back, or *)
(* some command is left waiting for the keyboard.                          *)
AtPrompt == \E e \in Env : st[e] = "runnable" /\ job[e].at = "readline"
AtKeyboard == \E e \in Env : job[e].at = "read" /\ Page(e, 0).dev = "cons"
PromptReturns == []<>(AtPrompt \/ AtKeyboard)
=============================================================================
