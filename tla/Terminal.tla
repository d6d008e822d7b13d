----------------------------- MODULE Terminal -----------------------------
(* The console from the keyboard to a line of the shell: the scan codes    *)
(* and the serial port (kbd_proc_data, serial_proc_data), the interrupt    *)
(* handler that echoes and queues each character (cons_intr), the screen   *)
(* (cga_putc), and the program that polls the queue (sys_cgetc, cons_read, *)
(* readline). The kernel runs with interrupts off, so a pass of the        *)
(* handler's loop and a system call are each one step.                     *)
EXTENDS Integers, Sequences

CONSTANTS
    BY2CONS,   \* size of the ring of keys
    CRT_COLS,  \* columns of the screen
    CRT_SIZE,  \* cells of the screen
    BufSize,   \* size of the shell's line buffer
    Keys,      \* the keys of the keyboard
    Serial,    \* the characters that arrive on the serial port
    MaxKeys    \* bound: how many characters are typed

VARIABLES
    shift,    \* the modifiers kbd_proc_data remembers
    held,     \* the modifier keys that are really down
    ring,     \* cons.buf
    rpos,     \* cons.rpos
    wpos,     \* cons.wpos
    key,      \* the last character sys_cgetc returned
    crt,      \* the screen: cells, cursor and, for the properties, where the prompt ended
    pc,       \* what the shell does
    i,        \* readline's index
    line,     \* the shell's buf
    last,     \* history: the last character that was queued
    nkeys,    \* characters typed so far
    plain,    \* history: the line so far is one the screen can show
    overrun   \* history: unread keys were lost

kbdVars == <<shift, held>>
history == <<last, nkeys, plain, overrun>>
readVars == <<pc, i, line, key>>
vars == <<shift, held, ring, rpos, wpos, key, crt, pc, i, line, last, nkeys, plain, overrun>>

Modifiers == {"ctl", "shiftl", "shiftr"} \cap Keys
Letters == {"c", "d", "C", "D"}
Char == Letters \cup {"^C", "^D", "BS", "NL", "CR", "TAB", "$", "t", " ", "hi", "NO"}

ASSUME TerminalAssumption ==
    /\ BY2CONS \in Nat \ {0, 1} /\ BufSize \in Nat \ {0}
    /\ CRT_COLS \in Nat \ {0} /\ CRT_SIZE \in Nat /\ CRT_SIZE > CRT_COLS
    /\ MaxKeys \in Nat /\ Serial \subseteq Char \ {"NO"}

-----------------------------------------------------------------------------
(* The keyboard                                                            *)

(* The modifier a key holds while it is down, and the one it switches.     *)
shiftcode(k) ==
    {s \in {"CTL", "SHIFT"} : \/ s = "CTL" /\ k = "ctl"
                              \/ s = "SHIFT" /\ k \in {"shiftl", "shiftr"}}
togglecode(k) == IF k = "caps" THEN {"CAPSLOCK"} ELSE {}

normalmap == [c |-> "c", d |-> "d", enter |-> "NL", bksp |-> "BS", tab |-> "TAB"]
shiftmap == [c |-> "C", d |-> "D", enter |-> "NL", bksp |-> "BS", tab |-> "TAB"]
ctlmap == [c |-> "^C", d |-> "^D", enter |-> "CR", bksp |-> "NO", tab |-> "NO"]

charcode(mods) ==
    IF "CTL" \in mods THEN ctlmap ELSE IF "SHIFT" \in mods THEN shiftmap ELSE normalmap

swapcase == [c |-> "C", d |-> "D", C |-> "c", D |-> "d"]

(* The character of a key that goes down under the modifiers mods; "NO"    *)
(* when it has none.                                                       *)
kbd_char(k, mods) ==
    IF k \notin DOMAIN normalmap THEN "NO"
    ELSE LET c == charcode(mods)[k]
         IN  IF "CAPSLOCK" \in mods /\ c \in Letters THEN swapcase[c] ELSE c

-----------------------------------------------------------------------------
(* The screen                                                              *)

(* Every row moves up by one, the cursor with it.                          *)
Up(s) == [cell |-> [p \in 0 .. CRT_SIZE - 1 |->
                       IF p < CRT_SIZE - CRT_COLS THEN s.cell[p + CRT_COLS] ELSE " "],
          pos |-> s.pos - CRT_COLS, home |-> s.home - CRT_COLS]

(* As a bug would have it: the screen scrolls when the cursor is past its  *)
(* last cell by one, not when it is on it.                                 *)
Scrolled_late(s) == IF s.pos <= CRT_SIZE THEN s ELSE Up(s)

Scrolled(s) == IF s.pos < CRT_SIZE THEN s ELSE Up(s)

(* The character is stored and the cursor moves, maybe past the last cell. *)
Stored(s, c) ==
    CASE c = "BS" -> IF s.pos > 0
                     THEN [s EXCEPT !.pos = @ - 1, !.cell[s.pos - 1] = " "] ELSE s
      [] c = "NL" -> [s EXCEPT !.pos = (@ + CRT_COLS) - (@ % CRT_COLS)]
      [] c = "CR" -> [s EXCEPT !.pos = @ - (@ % CRT_COLS)]
      [] OTHER -> [s EXCEPT !.pos = @ + 1, !.cell[s.pos] = c]

cga_putc_once(s, c) == Scrolled(Stored(s, c))

(* A tab is five spaces.                                                   *)
cga_putc(s, c) ==
    LET space(t) == cga_putc_once(t, " ")
    IN  IF c = "TAB" THEN space(space(space(space(space(s))))) ELSE cga_putc_once(s, c)

-----------------------------------------------------------------------------
(* The interrupt handler                                                   *)

(* A position of the ring, and the unread keys, oldest first.              *)
Wrap(n) == IF n >= BY2CONS THEN n - BY2CONS ELSE n
Pending == IF wpos >= rpos THEN wpos - rpos ELSE wpos - rpos + BY2CONS
Unread == [n \in 1 .. Pending |-> ring[Wrap(rpos + n - 1)]]

(* A character the screen and readline do not treat alike: it shows as     *)
(* nothing or as something else, or rubs out part of the prompt.           *)
Odd(c) == c \notin Letters \cup {"BS", "NL"} \/ (c = "BS" /\ (crt.pos <= crt.home \/ crt.pos = 0))

(* Ctrl-C destroys the current environment, which may be the shell or any  *)
(* other; the handler never gets back to queue the character.              *)
destroy_curenv ==
    /\ \/ pc' = "dead"
       \/ UNCHANGED pc
    /\ UNCHANGED <<ring, wpos, crt, last, plain, overrun>>

(* As a bug would have it: the position moves before the character is      *)
(* stored.                                                                 *)
queue_key_late(c) ==
    /\ ring' = [ring EXCEPT ![Wrap(wpos + 1)] = c]
    /\ wpos' = Wrap(wpos + 1)

queue_key(c) ==
    /\ ring' = [ring EXCEPT ![wpos] = c]
    /\ wpos' = Wrap(wpos + 1)

echo(c) == crt' = IF c = "hi" THEN crt ELSE cga_putc(crt, c)

(* One pass of the loop, for a character that is not 0.                    *)
cons_intr(c) ==
    /\ nkeys < MaxKeys /\ nkeys' = nkeys + 1
    /\ \/ c = "^C" /\ destroy_curenv
       \/ /\ c # "^C" /\ UNCHANGED pc
          /\ echo(c) /\ queue_key(c) /\ last' = c
          /\ overrun' = (overrun \/ wpos' = rpos)
          /\ plain' = (plain /\ ~ Odd(c) /\ wpos' # rpos)
    /\ UNCHANGED <<rpos, key, i, line>>

(* A key goes up.                                                          *)
kbd_up(k) ==
    /\ k \in held
    /\ held' = held \ {k} /\ shift' = shift \ shiftcode(k)
    /\ UNCHANGED <<ring, rpos, wpos, crt, readVars, history>>

(* A key goes down, or repeats while it is down.                           *)
kbd_down(k) ==
    LET mods == shift \cup shiftcode(k)
        now == (mods \ togglecode(k)) \cup (togglecode(k) \ mods)
        c == kbd_char(k, now)
    IN  /\ shift' = now /\ held' = held \cup ({k} \cap Modifiers)
        /\ \/ c # "NO" /\ cons_intr(c)
           \/ c = "NO" /\ UNCHANGED <<ring, rpos, wpos, crt, readVars, history>>

serial_intr(c) == cons_intr(c) /\ UNCHANGED kbdVars

-----------------------------------------------------------------------------
(* The shell: prompt, readline, and the command it then runs               *)

(* The prompt is written and readline called; keys typed before this show  *)
(* in front of the prompt.                                                 *)
prompt ==
    /\ pc \in {"start", "line"}
    /\ pc' = "read" /\ i' = 0
    /\ crt' = LET s == cga_putc(crt, "$") IN [s EXCEPT !.home = s.pos]
    /\ plain' = (wpos = rpos)
    /\ UNCHANGED <<kbdVars, ring, rpos, wpos, key, line, last, nkeys, overrun>>

(* cons_getc, when there is a character: cons_read yields until then.      *)
cons_getc ==
    /\ rpos # wpos
    /\ key' = ring[rpos]
    /\ rpos' = Wrap(rpos + 1)

(* As a bug would have it: a backspace only undoes the character before.   *)
Erased_one(n) == n - 1

(* Where a backspace read at index n takes the index, before the loop's    *)
(* increment: one before the character it rubs out, but never for the      *)
(* first of the line, which stays in the buffer.                           *)
Erased(n) == IF n > 0 THEN n - 2 ELSE 0

(* One character of readline's loop. The byte before the buffer belongs to *)
(* another variable and is not a newline.                                  *)
readline ==
    /\ pc = "read" /\ cons_getc
    /\ LET j == IF key' = "BS" THEN Erased(i) ELSE i
       IN  \/ key' = "^D" /\ pc' = "dead" /\ UNCHANGED <<crt, i, line>>
           \/ /\ key' = "NL" /\ pc' = "line"
              /\ line' = [line EXCEPT ![i] = "NO"] /\ UNCHANGED <<crt, i>>
           \/ /\ key' \notin {"^D", "NL"}
              /\ line' = [line EXCEPT ![i] = key']
              /\ i' = j + 1
              /\ \/ i' < BufSize /\ UNCHANGED <<pc, crt>>
                 \/ i' >= BufSize /\ pc' = "skip" /\ crt' = cga_putc(cga_putc(crt, "t"), "NL")
    /\ UNCHANGED <<kbdVars, ring, wpos, history>>

(* As a bug would have it: the end of file does not end a long line.       *)
skip_line_eof ==
    /\ pc = "skip" /\ cons_getc
    /\ \/ key' = "NL" /\ line' = [line EXCEPT ![0] = "NO"] /\ UNCHANGED pc
       \/ key' # "NL" /\ line' = [line EXCEPT ![0] = key'] /\ UNCHANGED pc
    /\ UNCHANGED <<kbdVars, ring, wpos, crt, i, history>>

(* The rest of a line that is too long is read and dropped.                *)
skip_line ==
    /\ pc = "skip" /\ cons_getc
    /\ \/ key' \in {"NL", "^D"} /\ pc' = "line" /\ line' = [line EXCEPT ![0] = "NO"]
       \/ key' \notin {"NL", "^D"} /\ line' = [line EXCEPT ![0] = key'] /\ UNCHANGED pc
    /\ UNCHANGED <<kbdVars, ring, wpos, crt, i, history>>

(* init starts a new shell for one that is gone.                           *)
start_sh ==
    /\ pc = "dead" /\ pc' = "start"
    /\ i' = 0 /\ line' = [n \in 0 .. BufSize - 1 |-> "NO"]
    /\ UNCHANGED <<kbdVars, ring, rpos, wpos, key, crt, history>>

Init ==
    /\ shift = {} /\ held = {}
    /\ ring = [n \in 0 .. BY2CONS - 1 |-> "NO"] /\ rpos = 0 /\ wpos = 0 /\ key = "NO"
    /\ crt = [cell |-> [p \in 0 .. CRT_SIZE - 1 |-> " "], pos |-> 0, home |-> 0]
    /\ pc = "start" /\ i = 0 /\ line = [n \in 0 .. BufSize - 1 |-> "NO"]
    /\ last = "NO" /\ nkeys = 0 /\ plain = TRUE /\ overrun = FALSE

Shell == prompt \/ readline \/ skip_line \/ start_sh

Next ==
    \/ Shell
    \/ \E k \in Keys : kbd_up(k) \/ kbd_down(k)
    \/ \E c \in Serial : serial_intr(c)

Spec == Init /\ [][Next]_vars

(* The shell gets the processor again and again; nobody has to type.       *)
FairSpec == Spec /\ WF_vars(Shell)

-----------------------------------------------------------------------------
(* Properties                                                              *)

(* Every variable has its type: both positions stay in the ring, the       *)
(* cursor on the screen and readline's index in the buffer. A modifier     *)
(* that is remembered is one whose key is down.                            *)
TerminalTypeOK ==
    /\ held \subseteq Modifiers
    /\ shift \subseteq {"CAPSLOCK"} \cup UNION {shiftcode(k) : k \in held}
    /\ ring \in [0 .. BY2CONS - 1 -> Char] /\ key \in Char
    /\ rpos \in 0 .. BY2CONS - 1 /\ wpos \in 0 .. BY2CONS - 1
    /\ crt \in [cell : [0 .. CRT_SIZE - 1 -> Char], pos : 0 .. CRT_SIZE - 1, home : Int]
    /\ crt.home < CRT_SIZE
    /\ pc \in {"start", "read", "skip", "line", "dead"}
    /\ i \in 0 .. BufSize /\ (pc = "read" => i < BufSize)
    /\ line \in [0 .. BufSize - 1 -> Char]
    /\ last \in Char /\ nkeys \in 0 .. MaxKeys /\ plain \in BOOLEAN /\ overrun \in BOOLEAN

(* Two edits of one line agree: after letters and backspaces typed at the  *)
(* prompt, in any order and at any speed, across lines of the screen and   *)
(* a scroll, what the handler left on the screen after the prompt is what  *)
(* readline, which sees the keys later, has in its buffer.                 *)
LineIsEcho ==
    pc = "read" /\ plain /\ rpos = wpos =>
        /\ crt.pos - crt.home = i
        /\ \A n \in 0 .. i - 1 : crt.home + n >= 0 => crt.cell[crt.home + n] = line[n]

KQ == INSTANCE KeyQueue WITH Size <- BY2CONS, queue <- Unread

(* The ring is a queue that loses keys only when it is filled, and then    *)
(* all of the unread ones.                                                 *)
ImplementsKeyQueue == KQ!Spec

(* A newline that is typed ends a line of the shell, unless the ring was   *)
(* filled: in a line that is too long, after end of file and after the     *)
(* shell was destroyed and started again too.                              *)
EnterIsAnswered == (\E n \in DOMAIN Unread : Unread[n] = "NL") ~> (pc = "line" \/ overrun)
=============================================================================
