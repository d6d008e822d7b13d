--------------------------- MODULE TerminalProofs ---------------------------
(***************************************************************************)
(* Proofs about Terminal, for every size of the ring, the screen and the   *)
(* line, every set of keys and any number of characters.                   *)
(***************************************************************************)
EXTENDS Terminal, TLAPS

Cell == 0 .. CRT_SIZE - 1
Screen == [cell : [Cell -> Char], pos : Cell, home : Int]

(* The screen as it is before it is scrolled.                              *)
Written == [cell : [Cell -> Char], pos : 0 .. CRT_SIZE - 1 + CRT_COLS, home : Int]

(* One scroll is enough for a cursor that is at most a row past the        *)
(* screen.                                                                 *)
LEMMA ScrolledIs ==
    ASSUME NEW s \in Written, s.home < CRT_SIZE
    PROVE  Scrolled(s) \in Screen /\ Scrolled(s).home < CRT_SIZE
<1> USE TerminalAssumption DEF Cell
<1>1. CASE s.pos < CRT_SIZE
    BY <1>1 DEF Scrolled, Screen, Written
<1>2. CASE s.pos >= CRT_SIZE
    <2>0. " " \in Char /\ s.cell \in [Cell -> Char]
        BY DEF Written, Char
    <2>1. ASSUME NEW p \in Cell, p < CRT_SIZE - CRT_COLS
          PROVE  s.cell[p + CRT_COLS] \in Char
        <3>1. p + CRT_COLS \in Cell
            BY <2>1
        <3> QED
            BY <3>1, <2>0
    <2>2. Up(s).cell \in [Cell -> Char]
        BY <2>0, <2>1 DEF Up
    <2>3. s.pos - CRT_COLS \in Cell /\ s.home - CRT_COLS \in Int /\ s.home - CRT_COLS < CRT_SIZE
        BY <1>2 DEF Written
    <2>4. Up(s) \in Screen /\ Up(s).home < CRT_SIZE
        BY <2>2, <2>3 DEF Up, Screen
    <2>5. Scrolled(s) = Up(s)
        BY <1>2 DEF Scrolled, Written
    <2> QED
        BY <2>4, <2>5
<1> QED
    BY <1>1, <1>2 DEF Written

(* A remainder, and that it is no more than the number.                    *)
LEMMA Modulo ==
    ASSUME NEW p \in Nat, NEW n \in Nat \ {0}
    PROVE  p % n \in 0 .. n - 1 /\ p % n <= p
<1>1. p % n \in 0 .. n - 1
    OBVIOUS
<1>2. p % n <= p
    OBVIOUS
<1> QED
    BY <1>1, <1>2

(* A screen with another cursor and other cells.                           *)
LEMMA Changed ==
    ASSUME NEW s \in Screen, s.home < CRT_SIZE, NEW q \in 0 .. CRT_SIZE - 1 + CRT_COLS,
           NEW k \in [Cell -> Char]
    PROVE  LET t == [[s EXCEPT !.pos = q] EXCEPT !.cell = k]
           IN  t \in Written /\ t.home < CRT_SIZE
    BY DEF Screen, Written

(* A character takes the cursor at most a row past the screen.             *)
LEMMA StoredIs ==
    ASSUME NEW s \in Screen, s.home < CRT_SIZE, NEW c \in Char
    PROVE  Stored(s, c) \in Written /\ Stored(s, c).home < CRT_SIZE
<1> USE TerminalAssumption DEF Cell, Screen, Written
<1>0. s.pos \in Nat /\ s.pos % CRT_COLS \in 0 .. CRT_COLS - 1 /\ s.pos % CRT_COLS <= s.pos
    <2>1. s.pos \in Nat /\ CRT_COLS \in Nat \ {0}
        OBVIOUS
    <2> QED
        BY <2>1, Modulo
<1>1. CASE c = "BS" /\ s.pos > 0
    <2>1. Stored(s, c) = [[s EXCEPT !.pos = @ - 1] EXCEPT !.cell = [@ EXCEPT ![s.pos - 1] = " "]]
        BY <1>1 DEF Stored
    <2>2. [s.cell EXCEPT ![s.pos - 1] = " "] \in [Cell -> Char]
        BY DEF Char
    <2>3. Stored(s, c) = [[s EXCEPT !.pos = s.pos - 1] EXCEPT !.cell = [s.cell EXCEPT ![s.pos - 1] = " "]]
        BY <2>1
    <2>4. s.pos - 1 \in 0 .. CRT_SIZE - 1 + CRT_COLS
        BY <1>1
    <2> QED
        BY ONLY Changed, <2>2, <2>3, <2>4, s \in Screen, s.home < CRT_SIZE
<1>2. CASE c = "BS" /\ s.pos = 0
    BY <1>2 DEF Stored
<1>3. CASE c = "NL"
    <2>1. Stored(s, c) = [s EXCEPT !.pos = (s.pos + CRT_COLS) - (s.pos % CRT_COLS)]
        BY <1>3 DEF Stored
    <2>2. (s.pos + CRT_COLS) - (s.pos % CRT_COLS) \in 0 .. CRT_SIZE - 1 + CRT_COLS
        BY <1>0
    <2> QED
        BY <2>1, <2>2
<1>4. CASE c = "CR"
    <2>1. Stored(s, c) = [s EXCEPT !.pos = s.pos - (s.pos % CRT_COLS)]
        BY <1>4 DEF Stored
    <2>2. s.pos - (s.pos % CRT_COLS) \in 0 .. CRT_SIZE - 1 + CRT_COLS
        BY <1>0
    <2> QED
        BY <2>1, <2>2
<1>5. CASE c \notin {"BS", "NL", "CR"}
    <2>1. Stored(s, c) = [[s EXCEPT !.pos = @ + 1] EXCEPT !.cell = [@ EXCEPT ![s.pos] = c]]
        BY <1>5 DEF Stored
    <2>2. [s.cell EXCEPT ![s.pos] = c] \in [Cell -> Char]
        OBVIOUS
    <2>3. Stored(s, c) = [[s EXCEPT !.pos = s.pos + 1] EXCEPT !.cell = [s.cell EXCEPT ![s.pos] = c]]
        BY <2>1
    <2>4. s.pos + 1 \in 0 .. CRT_SIZE - 1 + CRT_COLS
        OBVIOUS
    <2> QED
        BY ONLY Changed, <2>2, <2>3, <2>4, s \in Screen, s.home < CRT_SIZE
<1> QED
    BY <1>0, <1>1, <1>2, <1>3, <1>4, <1>5

(* A character leaves the cursor on the screen.                            *)
LEMMA PutOnce ==
    ASSUME NEW s \in Screen, s.home < CRT_SIZE, NEW c \in Char
    PROVE  cga_putc_once(s, c) \in Screen /\ cga_putc_once(s, c).home < CRT_SIZE
    BY StoredIs, ScrolledIs DEF cga_putc_once

(* So does a tab, after each of its five spaces.                           *)
LEMMA Put ==
    ASSUME NEW s \in Screen, s.home < CRT_SIZE, NEW c \in Char
    PROVE  cga_putc(s, c) \in Screen /\ cga_putc(s, c).home < CRT_SIZE
<1>1. CASE c # "TAB"
    BY <1>1, PutOnce DEF cga_putc
<1>2. CASE c = "TAB"
    <2> DEFINE a == cga_putc_once(s, " ")
               b == cga_putc_once(a, " ")
               d == cga_putc_once(b, " ")
               e == cga_putc_once(d, " ")
    <2>0. " " \in Char
        BY DEF Char
    <2>1. a \in Screen /\ a.home < CRT_SIZE
        BY <2>0, PutOnce
    <2>2. b \in Screen /\ b.home < CRT_SIZE
        BY <2>0, <2>1, PutOnce
    <2>3. d \in Screen /\ d.home < CRT_SIZE
        BY <2>0, <2>2, PutOnce
    <2>4. e \in Screen /\ e.home < CRT_SIZE
        BY <2>0, <2>3, PutOnce
    <2>5. cga_putc(s, c) = cga_putc_once(e, " ")
        BY <1>2 DEF cga_putc
    <2> QED
        BY <2>0, <2>4, <2>5, PutOnce
<1> QED
    BY <1>1, <1>2

----------------------------------------------------------------------------
(* The keyboard.                                                           *)

(* Every key stands for a character.                                       *)
LEMMA KbdChar ==
    ASSUME NEW k, NEW mods
    PROVE  kbd_char(k, mods) \in Char
<1>1. CASE k \notin DOMAIN normalmap
    BY <1>1 DEF kbd_char, Char
<1>2. CASE k \in DOMAIN normalmap
    <2> DEFINE c == charcode(mods)[k]
    <2>1. k \in {"c", "d", "enter", "bksp", "tab"}
        BY <1>2 DEF normalmap
    <2>2. c \in {"c", "d", "C", "D", "^C", "^D", "NL", "BS", "TAB", "CR", "NO"}
        BY <2>1 DEF charcode, ctlmap, shiftmap, normalmap
    <2>3. c \in Letters => swapcase[c] \in Letters
        BY DEF swapcase, Letters
    <2>4. kbd_char(k, mods) \in {c, swapcase[c]} /\ (kbd_char(k, mods) = swapcase[c] => c \in Letters \/ kbd_char(k, mods) = c)
        BY <1>2 DEF kbd_char
    <2> QED
        BY <2>2, <2>3, <2>4 DEF Char, Letters
<1> QED
    BY <1>1, <1>2

(* A modifier that is remembered is one whose key is down.                 *)
Remembered(m, h) == m = "CAPSLOCK" \/ \E k \in h : m \in shiftcode(k)
ShiftOK == \A m \in shift : Remembered(m, held)

(* The modifiers remembered, written as one inclusion.                     *)
LEMMA ShiftIs == ShiftOK <=> shift \subseteq {"CAPSLOCK"} \cup UNION {shiftcode(k) : k \in held}
    BY DEF ShiftOK, Remembered

(* What does not change with the modifiers, in two parts.                  *)
RingOK ==
    /\ ring \in [0 .. BY2CONS - 1 -> Char] /\ key \in Char
    /\ rpos \in 0 .. BY2CONS - 1 /\ wpos \in 0 .. BY2CONS - 1
    /\ last \in Char /\ nkeys \in 0 .. MaxKeys /\ plain \in BOOLEAN /\ overrun \in BOOLEAN
CrtOK == crt \in Screen /\ crt.home < CRT_SIZE
LineOK ==
    /\ pc \in {"start", "read", "skip", "line", "dead"}
    /\ i \in 0 .. BufSize /\ (pc = "read" => i < BufSize)
    /\ line \in [0 .. BufSize - 1 -> Char]

(* The type invariant, part by part.                                       *)
LEMMA Parts == TerminalTypeOK <=> held \subseteq Modifiers /\ ShiftOK /\ RingOK /\ CrtOK /\ LineOK
    BY ShiftIs DEF TerminalTypeOK, RingOK, CrtOK, LineOK, Screen, Cell

TInv == held \subseteq Modifiers /\ ShiftOK /\ RingOK /\ CrtOK /\ LineOK

(* What is 0 at the start is in its range.                                 *)
LEMMA Zeros ==
    /\ 0 \in 0 .. BY2CONS - 1 /\ 0 \in 0 .. MaxKeys /\ 0 \in 0 .. BufSize
    /\ 0 \in 0 .. CRT_SIZE - 1 /\ 0 < CRT_SIZE /\ 0 < BufSize
    /\ "NO" \in Char /\ " " \in Char
<1>1. "NO" \in Char /\ " " \in Char
    BY DEF Char
<1>2. 0 \in 0 .. BY2CONS - 1 /\ 0 \in 0 .. MaxKeys /\ 0 \in 0 .. BufSize
    BY TerminalAssumption
<1>3. 0 \in 0 .. CRT_SIZE - 1 /\ 0 < CRT_SIZE /\ 0 < BufSize
    BY TerminalAssumption
<1> QED
    BY <1>1, <1>2, <1>3

(* The invariant holds at the start.                                       *)
LEMMA InitInv == Init => TInv
<1> SUFFICES ASSUME Init PROVE TInv
    OBVIOUS
<1>1. held \subseteq Modifiers /\ ShiftOK
    BY DEF ShiftOK, Init
<1>2. RingOK
    BY Zeros DEF RingOK, Init
<1>3. CrtOK
    <2> DEFINE c == [p \in 0 .. CRT_SIZE - 1 |-> " "]
    <2>1. c \in [Cell -> Char]
        BY Zeros DEF Cell
    <2>2. crt = [cell |-> c, pos |-> 0, home |-> 0]
        BY DEF Init
    <2>3. 0 \in Cell /\ 0 \in Int /\ 0 < CRT_SIZE
        BY TerminalAssumption DEF Cell
    <2> HIDE DEF c
    <2>4. crt \in Screen /\ crt.home = 0
        BY <2>1, <2>2, <2>3 DEF Screen
    <2> QED
        BY <2>3, <2>4 DEF CrtOK
<1>4. LineOK
    BY Zeros DEF LineOK, Init
<1> QED
    BY <1>1, <1>2, <1>3, <1>4 DEF TInv

(* A character is echoed and queued, or destroys an environment.           *)
LEMMA IntrInv ==
    ASSUME TInv, NEW c \in Char, cons_intr(c)
    PROVE  RingOK' /\ CrtOK' /\ LineOK'
<1> USE TerminalAssumption
<1>0. nkeys' \in 0 .. MaxKeys
    BY DEF TInv, RingOK, cons_intr
<1>1. CASE c = "^C"
    BY <1>0, <1>1 DEF cons_intr, destroy_curenv, TInv, RingOK, CrtOK, LineOK
<1>2. CASE c # "^C"
    <2>1. CrtOK'
        <3>1. crt' = crt \/ crt' = cga_putc(crt, c)
            BY <1>2 DEF cons_intr, echo
        <3> QED
            BY <3>1, Put DEF TInv, CrtOK
    <2>2. ring' = [ring EXCEPT ![wpos] = c] /\ wpos' = Wrap(wpos + 1) /\ last' = c /\ UNCHANGED <<rpos, key>>
        BY <1>2 DEF cons_intr, queue_key
    <2>3. ring' \in [0 .. BY2CONS - 1 -> Char] /\ wpos' \in 0 .. BY2CONS - 1
        BY <2>2 DEF TInv, RingOK, Wrap
    <2>4. plain' \in BOOLEAN /\ overrun' \in BOOLEAN
        BY <1>2 DEF cons_intr
    <2>5. RingOK'
        BY <1>0, <2>2, <2>3, <2>4 DEF TInv, RingOK
    <2>6. LineOK'
        BY <1>2 DEF cons_intr, TInv, LineOK
    <2> QED
        BY <2>1, <2>5, <2>6
<1> QED
    BY <1>1, <1>2

(* A key that comes up.                                                    *)
LEMMA UpInv ==
    ASSUME TInv, NEW k \in Keys, kbd_up(k)
    PROVE  TInv'
<1>1. RingOK' /\ CrtOK' /\ LineOK'
    BY DEF TInv, kbd_up, readVars, history, RingOK, CrtOK, LineOK
<1>2. ASSUME NEW m \in shift'
      PROVE  Remembered(m, held')
    <2>1. m \in shift /\ m \notin shiftcode(k) /\ held' = held \ {k}
        BY <1>2 DEF kbd_up
    <2> QED
        BY <2>1 DEF TInv, ShiftOK, Remembered
<1> QED
    BY <1>1, <1>2 DEF TInv, ShiftOK, kbd_up

(* A key that goes down.                                                   *)
LEMMA DownInv ==
    ASSUME TInv, NEW k \in Keys, kbd_down(k)
    PROVE  TInv'
<1>1. RingOK' /\ CrtOK' /\ LineOK'
    <2> DEFINE mods == shift \cup shiftcode(k)
               now == (mods \ togglecode(k)) \cup (togglecode(k) \ mods)
    <2>1. CASE cons_intr(kbd_char(k, now))
        BY <2>1, KbdChar, IntrInv
    <2>2. CASE UNCHANGED <<ring, rpos, wpos, crt, readVars, history>>
        BY <2>2 DEF TInv, readVars, history, RingOK, CrtOK, LineOK
    <2> QED
        BY <2>1, <2>2 DEF kbd_down
<1>2. ASSUME NEW m \in shift'
      PROVE  Remembered(m, held')
    <2>1. m \in shift \/ m \in shiftcode(k) \/ m = "CAPSLOCK"
        BY <1>2 DEF kbd_down, togglecode
    <2>2. held' = held \cup ({k} \cap Modifiers)
        BY DEF kbd_down
    <2>3. m \in shiftcode(k) => k \in Modifiers
        BY DEF shiftcode, Modifiers
    <2> QED
        BY <2>1, <2>2, <2>3 DEF TInv, ShiftOK, Remembered
<1>3. held' \subseteq Modifiers
    BY DEF TInv, kbd_down
<1> QED
    BY <1>1, <1>2, <1>3 DEF TInv, ShiftOK

(* What a program reads comes out of the ring.                             *)
LEMMA GetcIs ==
    ASSUME TInv, cons_getc
    PROVE  rpos # wpos /\ key' = ring[rpos] /\ key' \in Char /\ rpos' \in 0 .. BY2CONS - 1
    BY TerminalAssumption DEF TInv, RingOK, cons_getc, Wrap

(* A character that readline reads.                                        *)
LEMMA ReadlineInv ==
    ASSUME TInv, readline
    PROVE  TInv'
<1> USE TerminalAssumption
<1>1. cons_getc /\ UNCHANGED <<shift, held, ring, wpos, last, nkeys, plain, overrun>> /\ pc = "read"
    BY DEF readline, kbdVars, history
<1>2. ShiftOK' /\ held' \subseteq Modifiers
    BY <1>1 DEF TInv, ShiftOK
<1>3. RingOK'
    BY <1>1, GetcIs DEF TInv, RingOK
<1>4. i \in 0 .. BufSize - 1 /\ line \in [0 .. BufSize - 1 -> Char]
    BY <1>1 DEF TInv, LineOK
<1>5. CASE key' = "^D" /\ pc' = "dead" /\ UNCHANGED <<crt, i, line>>
    BY <1>2, <1>3, <1>5 DEF TInv, CrtOK, LineOK
<1>6. CASE /\ key' = "NL" /\ pc' = "line"
           /\ line' = [line EXCEPT ![i] = "NO"] /\ UNCHANGED <<crt, i>>
    <2>1. line' \in [0 .. BufSize - 1 -> Char]
        BY <1>4, <1>6, Zeros
    <2>2. i' \in 0 .. BufSize /\ pc' = "line"
        BY <1>4, <1>6
    <2>3. LineOK'
        BY <2>1, <2>2 DEF LineOK
    <2> QED
        BY <1>2, <1>3, <1>6, <2>3 DEF TInv, CrtOK
<1>7. CASE /\ line' = [line EXCEPT ![i] = key']
           /\ i' = (IF key' = "BS" THEN Erased(i) ELSE i) + 1
           /\ \/ i' < BufSize /\ UNCHANGED <<pc, crt>>
              \/ i' >= BufSize /\ pc' = "skip" /\ crt' = cga_putc(cga_putc(crt, "t"), "NL")
    <2>1. line' \in [0 .. BufSize - 1 -> Char]
        BY <1>1, <1>4, <1>7, GetcIs
    <2>2. i' \in 0 .. BufSize
        BY <1>4, <1>7 DEF Erased
    <2>3. LineOK'
        BY <1>1, <1>7, <2>1, <2>2 DEF LineOK
    <2>4. "t" \in Char /\ "NL" \in Char
        BY DEF Char
    <2>5. CrtOK'
        <3>1. cga_putc(crt, "t") \in Screen /\ cga_putc(crt, "t").home < CRT_SIZE
            BY <2>4, Put DEF TInv, CrtOK
        <3>2. crt' = crt \/ crt' = cga_putc(cga_putc(crt, "t"), "NL")
            BY <1>7
        <3> QED
            BY <2>4, <3>1, <3>2, Put DEF TInv, CrtOK
    <2> QED
        BY <1>2, <1>3, <2>3, <2>5 DEF TInv
<1> QED
    BY <1>5, <1>6, <1>7 DEF readline

(* The steps of the shell between lines.                                   *)
LEMMA ShellInv ==
    ASSUME TInv, prompt \/ skip_line \/ start_sh
    PROVE  TInv'
<1> USE TerminalAssumption
<1>1. CASE prompt
    <2>1. CrtOK'
        <3>1. "$" \in Char
            BY DEF Char
        <3>2. cga_putc(crt, "$") \in Screen /\ cga_putc(crt, "$").home < CRT_SIZE
            BY <3>1, Put DEF TInv, CrtOK
        <3>3. crt' = [cga_putc(crt, "$") EXCEPT !.home = cga_putc(crt, "$").pos]
            BY <1>1 DEF prompt
        <3> QED
            BY <3>2, <3>3 DEF CrtOK, Screen, Cell
    <2>2. LineOK' /\ RingOK' /\ ShiftOK' /\ held' \subseteq Modifiers
        BY <1>1 DEF prompt, TInv, LineOK, RingOK, ShiftOK, kbdVars
    <2> QED
        BY <2>1, <2>2 DEF TInv
<1>2. CASE skip_line
    <2>1. cons_getc /\ UNCHANGED <<shift, held, ring, wpos, crt, i, last, nkeys, plain, overrun>>
        BY <1>2 DEF skip_line, kbdVars, history
    <2>2. RingOK'
        BY <2>1, GetcIs DEF TInv, RingOK
    <2>3. LineOK'
        <3>1. line' = [line EXCEPT ![0] = "NO"] \/ line' = [line EXCEPT ![0] = key']
            BY <1>2 DEF skip_line
        <3>2. line' \in [0 .. BufSize - 1 -> Char]
            BY <2>1, <3>1, GetcIs DEF TInv, LineOK, Char
        <3>3. pc' \in {"line", "skip"}
            BY <1>2 DEF skip_line
        <3> QED
            BY <2>1, <3>2, <3>3 DEF TInv, LineOK
    <2> QED
        BY <2>1, <2>2, <2>3 DEF TInv, CrtOK, ShiftOK
<1>3. CASE start_sh
    <2>1. LineOK'
        <3>1. "NO" \in Char
            BY DEF Char
        <3>2. line' \in [0 .. BufSize - 1 -> Char]
            BY <1>3, <3>1 DEF start_sh
        <3>3. pc' = "start" /\ i' = 0
            BY <1>3 DEF start_sh
        <3> QED
            BY <3>2, <3>3 DEF LineOK
    <2>2. RingOK' /\ ShiftOK' /\ CrtOK' /\ held' \subseteq Modifiers
        BY <1>3 DEF start_sh, TInv, RingOK, ShiftOK, CrtOK, kbdVars, history
    <2> QED
        BY <2>1, <2>2 DEF TInv
<1> QED
    BY <1>1, <1>2, <1>3

(* Every step keeps the invariant.                                         *)
LEMMA StepInv == TInv /\ [Next]_vars => TInv'
<1> SUFFICES ASSUME TInv, [Next]_vars PROVE TInv'
    OBVIOUS
<1>1. CASE readline \/ prompt \/ skip_line \/ start_sh
    BY <1>1, ReadlineInv, ShellInv
<1>2. ASSUME NEW k \in Keys, kbd_up(k) \/ kbd_down(k)
      PROVE  TInv'
    BY <1>2, UpInv, DownInv
<1>3. ASSUME NEW c \in Serial, serial_intr(c)
      PROVE  TInv'
    BY <1>3, TerminalAssumption, IntrInv DEF serial_intr, kbdVars, TInv, ShiftOK
<1>4. CASE UNCHANGED vars
    BY <1>4 DEF vars, TInv, LineOK, RingOK, ShiftOK, CrtOK
<1> QED
    BY <1>1, <1>2, <1>3, <1>4 DEF Next, Shell

(* What the theorems below rest on holds in every reachable state.         *)
THEOREM TerminalInvariant == Spec => []TInv
    BY InitInv, StepInv, PTL DEF Spec

(* However many keys are typed, and however they are held, the positions   *)
(* stay in the ring, the cursor is back on the screen when cga_putc        *)
(* returns, readline's index stays in the buffer, and a modifier that is   *)
(* remembered is one whose key is down.                                    *)
THEOREM TerminalTypes == Spec => []TerminalTypeOK
<1>1. TInv => TerminalTypeOK
    BY Parts DEF TInv
<1> QED
    BY <1>1, TerminalInvariant, PTL

----------------------------------------------------------------------------
(* The ring is a queue.                                                    *)

(* It holds Pending keys: none if the positions are equal, and wpos comes  *)
(* after the last of them.                                                 *)
Queued ==
    /\ Pending \in 0 .. BY2CONS - 1
    /\ (Pending = 0 <=> rpos = wpos)
    /\ Wrap(rpos + Pending) = wpos
    /\ Unread \in Seq(Char) /\ Len(Unread) = Pending

(* The unread keys are as many as the positions are apart.                 *)
LEMMA UnreadIs == RingOK => Queued
<1> USE TerminalAssumption
<1> SUFFICES ASSUME RingOK PROVE Queued
    OBVIOUS
<1>1. Pending \in 0 .. BY2CONS - 1 /\ (Pending = 0 <=> rpos = wpos) /\ Wrap(rpos + Pending) = wpos
    BY DEF RingOK, Pending, Wrap
<1>2. ASSUME NEW n \in 1 .. Pending
      PROVE  ring[Wrap(rpos + n - 1)] \in Char
    <2>1. Wrap(rpos + n - 1) \in 0 .. BY2CONS - 1
        BY <1>1 DEF RingOK, Wrap
    <2> QED
        BY <2>1 DEF RingOK
<1>3. Unread \in [1 .. Pending -> Char]
    BY <1>2 DEF Unread
<1> QED
    BY <1>1, <1>3 DEF Queued

(* The same after a step.                                                  *)
LEMMA UnreadIsNext == RingOK' => Queued'
    BY UnreadIs, PTL

(* A character is queued: it is the last of the unread ones, or fills the  *)
(* ring, which is empty from then on.                                      *)
LEMMA QueueKey ==
    ASSUME RingOK, NEW c \in Char, queue_key(c), UNCHANGED rpos, RingOK'
    PROVE  Unread' = IF Len(Unread) + 1 = BY2CONS THEN <<>> ELSE Append(Unread, c)
<1> USE TerminalAssumption
<1>0. /\ Len(Unread) = Pending /\ Pending \in 0 .. BY2CONS - 1 /\ Unread \in Seq(Char)
      /\ Unread' \in Seq(Char) /\ Len(Unread') = Pending'
    BY UnreadIs, UnreadIsNext DEF Queued
<1>1. Pending' = IF Pending + 1 = BY2CONS THEN 0 ELSE Pending + 1
    BY DEF RingOK, queue_key, Pending, Wrap
<1>2. CASE Pending + 1 = BY2CONS
    BY <1>0, <1>1, <1>2
<1>3. CASE Pending + 1 # BY2CONS
    <2>1. Len(Unread') = Len(Append(Unread, c)) /\ Append(Unread, c) \in Seq(Char)
        BY <1>0, <1>1, <1>3
    <2>2. ASSUME NEW n \in 1 .. Pending + 1
          PROVE  Unread'[n] = Append(Unread, c)[n]
        <3>1. Unread'[n] = ring'[Wrap(rpos + n - 1)]
            BY <1>1, <1>3 DEF Unread
        <3>2. ring' = [ring EXCEPT ![wpos] = c] /\ ring \in [0 .. BY2CONS - 1 -> Char]
            BY DEF queue_key, RingOK
        <3>3. CASE n = Pending + 1
            <4>1. Wrap(rpos + n - 1) = wpos
                BY <3>3, UnreadIs DEF RingOK, Queued
            <4>2. wpos \in 0 .. BY2CONS - 1
                BY DEF RingOK
            <4>3. Append(Unread, c)[n] = c
                BY <1>0, <3>3
            <4> QED
                BY <3>1, <3>2, <4>1, <4>2, <4>3
        <3>4. CASE n \in 1 .. Pending
            <4>1. Wrap(rpos + n - 1) # wpos /\ Wrap(rpos + n - 1) \in 0 .. BY2CONS - 1
                BY <1>0, <3>4 DEF RingOK, Wrap, Pending
            <4>2. Append(Unread, c)[n] = Unread[n]
                BY <1>0, <3>4
            <4>3. Unread[n] = ring[Wrap(rpos + n - 1)]
                BY <3>4 DEF Unread
            <4> QED
                BY <3>1, <3>2, <4>1, <4>2, <4>3
        <3> QED
            BY <1>0, <3>3, <3>4
    <2>3. Len(Unread') = Pending + 1
        BY <1>0, <1>1, <1>3
    <2>4. Unread' = Append(Unread, c)
        BY <1>0, <2>1, <2>2, <2>3
    <2> QED
        BY <1>0, <1>3, <2>4
<1> QED
    BY <1>2, <1>3

(* A key is read: it is the first of the unread ones.                      *)
LEMMA TakeKey ==
    ASSUME RingOK, cons_getc, UNCHANGED <<ring, wpos>>, RingOK'
    PROVE  Unread # <<>> /\ key' = Head(Unread) /\ Unread' = Tail(Unread)
<1> USE TerminalAssumption
<1>0. /\ Len(Unread) = Pending /\ Pending \in 0 .. BY2CONS - 1 /\ Unread \in Seq(Char)
      /\ Unread' \in Seq(Char) /\ Len(Unread') = Pending'
    BY UnreadIs, UnreadIsNext DEF Queued
<1>1. rpos # wpos /\ key' = ring[rpos] /\ rpos' = Wrap(rpos + 1)
    BY DEF cons_getc
<1>2. Pending # 0 /\ Pending' = Pending - 1
    BY <1>1 DEF RingOK, Pending, Wrap
<1>3. Unread # <<>>
    BY <1>0, <1>2
<1>4. key' = Head(Unread)
    <2>1. Unread[1] = ring[Wrap(rpos + 1 - 1)] /\ Wrap(rpos + 1 - 1) = rpos
        BY <1>0, <1>2 DEF Unread, Wrap, RingOK
    <2> QED
        BY <1>0, <1>1, <1>3, <2>1
<1>5. Unread' = Tail(Unread)
    <2>1. Tail(Unread) \in Seq(Char) /\ Len(Tail(Unread)) = Pending - 1
        BY <1>0, <1>3
    <2>2. ASSUME NEW n \in 1 .. Pending - 1
          PROVE  Unread'[n] = Tail(Unread)[n]
        <3>1. Unread'[n] = ring[Wrap(Wrap(rpos + 1) + n - 1)]
            BY <1>1, <1>2 DEF Unread
        <3>2. Tail(Unread)[n] = Unread[n + 1]
            BY <1>0, <1>3
        <3>3. Unread[n + 1] = ring[Wrap(rpos + (n + 1) - 1)]
            <4>1. n + 1 \in 1 .. Pending
                BY <1>0
            <4> QED
                BY <4>1 DEF Unread
        <3>4. Wrap(Wrap(rpos + 1) + n - 1) = Wrap(rpos + (n + 1) - 1)
            BY <1>0 DEF Wrap, RingOK
        <3> QED
            BY <3>1, <3>2, <3>3, <3>4
    <2>3. Len(Unread') = Len(Tail(Unread)) /\ Len(Unread') = Pending - 1
        BY <1>0, <1>2, <2>1
    <2> QED
        BY <1>0, <2>1, <2>2, <2>3
<1> QED
    BY <1>1, <1>3, <1>4, <1>5

(* A character of the handler is typed, or destroys an environment.        *)
LEMMA IntrTypes ==
    ASSUME TInv, TInv', NEW c \in Char, cons_intr(c)
    PROVE  KQ!Type(c) \/ UNCHANGED <<Unread, last, key>>
<1>1. CASE UNCHANGED <<ring, wpos, last>>
    BY <1>1 DEF cons_intr, Unread, Pending
<1>2. CASE queue_key(c) /\ last' = c
    <2>1. Unread' = IF Len(Unread) + 1 = BY2CONS THEN <<>> ELSE Append(Unread, c)
        BY <1>2, QueueKey DEF cons_intr, TInv
    <2> QED
        BY <1>2, <2>1 DEF cons_intr, KQ!Type
<1> QED
    BY <1>1, <1>2 DEF cons_intr, destroy_curenv

(* Every step is one of the queue, or leaves it alone.                     *)
LEMMA StepImplements ==
    TInv /\ TInv' /\ [Next]_vars => [KQ!Next]_<<Unread, last, key>>
<1> SUFFICES ASSUME TInv, TInv', [Next]_vars
             PROVE  [KQ!Next]_<<Unread, last, key>>
    OBVIOUS
<1>1. CASE UNCHANGED <<ring, rpos, wpos, last, key>>
    BY <1>1 DEF Unread, Pending
<1>2. ASSUME NEW c \in Char, cons_intr(c)
      PROVE  [KQ!Next]_<<Unread, last, key>>
    BY <1>2, IntrTypes DEF KQ!Next
<1>3. CASE cons_getc /\ UNCHANGED <<ring, wpos, last>>
    <2>1. Unread # <<>> /\ key' = Head(Unread) /\ Unread' = Tail(Unread)
        BY <1>3, TakeKey DEF TInv
    <2> QED
        BY <1>3, <2>1 DEF KQ!Next, KQ!Take
<1>4. CASE readline \/ skip_line
    BY <1>3, <1>4 DEF readline, skip_line, history
<1>5. CASE prompt \/ start_sh
    BY <1>1, <1>5 DEF prompt, start_sh, history
<1>6. ASSUME NEW k \in Keys, kbd_up(k) \/ kbd_down(k)
      PROVE  [KQ!Next]_<<Unread, last, key>>
    <2>1. CASE kbd_up(k)
        BY <1>1, <2>1 DEF kbd_up, readVars, history
    <2>2. CASE kbd_down(k)
        <3> DEFINE mods == shift \cup shiftcode(k)
                   now == (mods \ togglecode(k)) \cup (togglecode(k) \ mods)
        <3>1. CASE cons_intr(kbd_char(k, now))
            BY <3>1, <1>2, KbdChar
        <3>2. CASE UNCHANGED <<ring, rpos, wpos, crt, readVars, history>>
            BY <1>1, <3>2 DEF readVars, history
        <3> QED
            BY <2>2, <3>1, <3>2 DEF kbd_down
    <2> QED
        BY <1>6, <2>1, <2>2
<1>7. ASSUME NEW c \in Serial, serial_intr(c)
      PROVE  [KQ!Next]_<<Unread, last, key>>
    BY <1>2, <1>7, TerminalAssumption DEF serial_intr
<1>8. CASE UNCHANGED vars
    BY <1>1, <1>8 DEF vars
<1> QED
    BY <1>4, <1>5, <1>6, <1>7, <1>8 DEF Next, Shell

(* The ring without a test for full is a queue: keys come out once each,   *)
(* in the order they were typed, and none is lost except all the unread    *)
(* ones at once, when the key that fills the ring is queued.               *)
THEOREM TerminalImplements == Spec => ImplementsKeyQueue
<1>1. Init => KQ!Init
    <2> SUFFICES ASSUME Init PROVE Unread = <<>> /\ last = "NO" /\ key = "NO"
        BY DEF KQ!Init
    <2>1. rpos = 0 /\ wpos = 0 /\ last = "NO" /\ key = "NO"
        BY DEF Init
    <2>2. Pending = 0
        BY <2>1 DEF Pending
    <2>3. Unread = <<>>
        BY <2>2 DEF Unread
    <2> QED
        BY <2>1, <2>3
<1> QED
    BY <1>1, StepImplements, TerminalInvariant, PTL DEF Spec, ImplementsKeyQueue, KQ!Spec

----------------------------------------------------------------------------
(* The line on the screen and the line of the shell.  The handler has      *)
(* edited the one when readline has yet to edit the other: it comes to the *)
(* same when it has read what is unread.                                   *)

(* What a letter or a backspace does to the first n characters of t.       *)
Edit(n, t, c, m, u) ==
    \/ c \in Letters /\ m = n + 1 /\ u = [t EXCEPT ![n] = c]
    \/ c = "BS" /\ n > 0 /\ m = n - 1 /\ u = t

(* The lengths and the texts of a line that the keys of q edit, one after  *)
(* the other.                                                              *)
Edited(q, ns, ts) ==
    /\ ns \in [0 .. Len(q) -> Nat] /\ ts \in [0 .. Len(q) -> [Nat -> Char]]
    /\ \A k \in 1 .. Len(q) : Edit(ns[k - 1], ts[k - 1], q[k], ns[k], ts[k])

(* The keys of q make the line n, t the line m, u.                         *)
EditsTo(q, n, t, m, u) ==
    \E ns \in [0 .. Len(q) -> Nat], ts \in [0 .. Len(q) -> [Nat -> Char]] :
        Edited(q, ns, ts) /\ ns[0] = n /\ ts[0] = t /\ ns[Len(q)] = m /\ ts[Len(q)] = u

(* A screen shows the text after the prompt; what has left it at the top   *)
(* is not asked for.                                                       *)
Shows(s, n, t) ==
    /\ s.pos - s.home = n
    /\ \A m \in 0 .. n - 1 : s.home + m >= 0 => s.cell[s.home + m] = t[m]

(* The line of readline is n characters long and has the text t.           *)
Holds(n, t) == n = i /\ \A m \in 0 .. i - 1 : t[m] = line[m]

Echoed ==
    pc = "read" /\ plain /\ (\A k \in 1 .. Len(Unread) : Unread[k] # "NL") =>
        \E n, m \in Nat, t, u \in [Nat -> Char] : EditsTo(Unread, n, t, m, u) /\ Holds(n, t) /\ Shows(crt, m, u)

(* Scrolling takes the text along.                                         *)
LEMMA UpIs ==
    ASSUME NEW s \in Written
    PROVE  /\ Up(s).pos = s.pos - CRT_COLS /\ Up(s).home = s.home - CRT_COLS
           /\ \A p \in Cell : p < CRT_SIZE - CRT_COLS => Up(s).cell[p] = s.cell[p + CRT_COLS]
    BY DEF Up, Cell

(* A scroll moves the text up with the place where the prompt ended.       *)
LEMMA ScrolledShows ==
    ASSUME NEW s \in Written, s.pos <= CRT_SIZE, NEW n \in Nat, NEW t, Shows(s, n, t)
    PROVE  Shows(Scrolled(s), n, t)
<1> USE TerminalAssumption
<1>1. CASE s.pos < CRT_SIZE
    BY <1>1 DEF Scrolled
<1>2. CASE ~ (s.pos < CRT_SIZE)
    <2>1. Scrolled(s) = Up(s)
        BY <1>2 DEF Scrolled
    <2>2. s.pos \in Int /\ s.home \in Int /\ s.pos = CRT_SIZE /\ s.pos - s.home = n
        BY <1>2 DEF Shows, Written
    <2>3. ASSUME NEW m \in 0 .. n - 1, Up(s).home + m >= 0
          PROVE  Up(s).cell[Up(s).home + m] = t[m]
        <3>1. Up(s).home + m \in Cell /\ Up(s).home + m < CRT_SIZE - CRT_COLS
            BY <2>2, <2>3, UpIs DEF Cell
        <3>2. (Up(s).home + m) + CRT_COLS = s.home + m /\ s.home + m >= 0
            BY <2>2, <2>3, UpIs
        <3>3. Up(s).cell[Up(s).home + m] = s.cell[(Up(s).home + m) + CRT_COLS]
            BY <3>1, UpIs
        <3> QED
            BY <3>2, <3>3 DEF Shows
    <2> QED
        BY <2>1, <2>2, <2>3, UpIs DEF Shows
<1> QED
    BY <1>1, <1>2

(* The handler's echo edits the text on the screen.                        *)
LEMMA EchoShows ==
    ASSUME NEW s \in Screen, s.home < CRT_SIZE, NEW n \in Nat, NEW t \in [Nat -> Char], Shows(s, n, t),
           NEW c \in Letters \cup {"BS"}, c = "BS" => s.pos > s.home /\ s.pos # 0
    PROVE  \E m \in Nat, u \in [Nat -> Char] : Edit(n, t, c, m, u) /\ Shows(cga_putc(s, c), m, u)
<1> USE TerminalAssumption
<1>0. s.pos \in Cell /\ s.home \in Int /\ s.pos - s.home = n /\ s.cell \in [Cell -> Char]
    BY DEF Screen, Shows
<1>c. c \in Char /\ c # "TAB" /\ cga_putc(s, c) = Scrolled(Stored(s, c))
    BY DEF cga_putc, cga_putc_once, Letters, Char
<1>w. Stored(s, c) \in Written
    BY <1>c, StoredIs
<1>1. CASE c \in Letters
    <2> DEFINE u == [t EXCEPT ![n] = c]
    <2>1. Stored(s, c) = [s EXCEPT !.pos = @ + 1, !.cell[s.pos] = c]
        BY <1>1 DEF Stored, Letters
    <2>2. /\ Stored(s, c).pos = s.pos + 1 /\ Stored(s, c).home = s.home
          /\ Stored(s, c).cell = [s.cell EXCEPT ![s.pos] = c]
        BY <2>1 DEF Screen
    <2>3. u \in [Nat -> Char] /\ \A m \in Nat : u[m] = IF m = n THEN c ELSE t[m]
        BY <1>c
    <2> HIDE DEF u
    <2>4. \A p \in Cell : Stored(s, c).cell[p] = IF p = s.pos THEN c ELSE s.cell[p]
        BY <1>0, <2>2
    <2>5. ASSUME NEW m \in 0 .. n, s.home + m >= 0
          PROVE  Stored(s, c).cell[s.home + m] = u[m]
        <3>1. s.home + m \in Cell /\ (s.home + m = s.pos <=> m = n)
            BY <1>0, <2>5 DEF Cell
        <3>2. m # n => s.cell[s.home + m] = t[m]
            BY <2>5 DEF Shows
        <3> QED
            BY <2>3, <2>4, <3>1, <3>2
    <2>6. Shows(Stored(s, c), n + 1, u)
        BY <1>0, <2>2, <2>5 DEF Shows, Cell
    <2>7. Stored(s, c).pos <= CRT_SIZE
        BY <1>0, <2>2 DEF Cell
    <2>8. Shows(cga_putc(s, c), n + 1, u)
        BY <1>c, <1>w, <2>6, <2>7, ScrolledShows
    <2>9. Edit(n, t, c, n + 1, u)
        BY <1>1 DEF Edit, u
    <2> QED
        BY <2>3, <2>8, <2>9
<1>2. CASE c = "BS"
    <2>0. s.pos > 0 /\ n > 0
        BY <1>0, <1>2 DEF Cell
    <2>1. Stored(s, c) = [s EXCEPT !.pos = @ - 1, !.cell[s.pos - 1] = " "]
        BY <1>2, <2>0 DEF Stored
    <2>2. /\ Stored(s, c).pos = s.pos - 1 /\ Stored(s, c).home = s.home
          /\ \A p \in Cell : p # s.pos - 1 => Stored(s, c).cell[p] = s.cell[p]
        BY <1>0, <2>1 DEF Screen
    <2>3. ASSUME NEW m \in 0 .. n - 2, s.home + m >= 0
          PROVE  Stored(s, c).cell[s.home + m] = t[m]
        <3>1. s.home + m \in Cell /\ s.home + m # s.pos - 1
            BY <1>0, <2>3 DEF Cell
        <3>2. s.cell[s.home + m] = t[m]
            BY <2>3 DEF Shows
        <3> QED
            BY <2>2, <3>1, <3>2
    <2>4. Shows(Stored(s, c), n - 1, t)
        BY <1>0, <2>2, <2>3 DEF Shows, Cell
    <2>5. Stored(s, c).pos <= CRT_SIZE
        BY <1>0, <2>2 DEF Cell
    <2>6. Shows(cga_putc(s, c), n - 1, t)
        BY <1>c, <1>w, <2>0, <2>4, <2>5, ScrolledShows
    <2>7. Edit(n, t, c, n - 1, t)
        BY <1>2, <2>0 DEF Edit
    <2> QED
        BY <2>0, <2>6, <2>7
<1> QED
    BY <1>1, <1>2

(* A key at the end of the queue: the line is edited once more.            *)
LEMMA EditedMore ==
    ASSUME NEW q \in Seq(Char), NEW c \in Char, NEW n, NEW t, NEW l, NEW s, NEW m \in Nat, NEW u \in [Nat -> Char],
           EditsTo(q, n, t, l, s), Edit(l, s, c, m, u)
    PROVE  EditsTo(Append(q, c), n, t, m, u)
<1>e. PICK ns \in [0 .. Len(q) -> Nat], ts \in [0 .. Len(q) -> [Nat -> Char]] :
        Edited(q, ns, ts) /\ ns[0] = n /\ ts[0] = t /\ ns[Len(q)] = l /\ ts[Len(q)] = s
    BY DEF EditsTo
<1> DEFINE ms == [k \in 0 .. Len(q) + 1 |-> IF k = Len(q) + 1 THEN m ELSE ns[k]]
           us == [k \in 0 .. Len(q) + 1 |-> IF k = Len(q) + 1 THEN u ELSE ts[k]]
<1>0. /\ Len(q) \in Nat /\ Len(Append(q, c)) = Len(q) + 1
      /\ \A k \in 1 .. Len(q) : Append(q, c)[k] = q[k]
      /\ Append(q, c)[Len(q) + 1] = c
    OBVIOUS
<1>1. /\ ms \in [0 .. Len(q) + 1 -> Nat] /\ us \in [0 .. Len(q) + 1 -> [Nat -> Char]]
      /\ \A k \in 0 .. Len(q) : ms[k] = ns[k] /\ us[k] = ts[k]
      /\ ms[Len(q) + 1] = m /\ us[Len(q) + 1] = u
    BY <1>0 DEF Edited
<1> HIDE DEF ms, us
<1>2. ASSUME NEW k \in 1 .. Len(q) + 1
      PROVE  Edit(ms[k - 1], us[k - 1], Append(q, c)[k], ms[k], us[k])
    <2>1. CASE k = Len(q) + 1
        <3>1. k - 1 = Len(q) /\ k - 1 \in 0 .. Len(q)
            BY <1>0, <2>1
        <3> QED
            BY <1>0, <1>1, <1>e, <2>1, <3>1
    <2>2. CASE k # Len(q) + 1
        <3>1. k \in 1 .. Len(q) /\ k \in 0 .. Len(q) /\ k - 1 \in 0 .. Len(q)
            BY <1>0, <2>2
        <3>2. Edit(ns[k - 1], ts[k - 1], q[k], ns[k], ts[k])
            BY <1>e, <3>1 DEF Edited
        <3> QED
            BY <1>0, <1>1, <3>1, <3>2
    <2> QED
        BY <2>1, <2>2
<1>3. Edited(Append(q, c), ms, us)
    BY <1>0, <1>1, <1>2 DEF Edited
<1>4. ms[0] = n /\ us[0] = t
    BY <1>0, <1>1, <1>e
<1>5. Len(Append(q, c)) = Len(q) + 1
    BY <1>0
<1> QED
    BY <1>1, <1>3, <1>4, <1>5 DEF EditsTo

(* The key at the front is read: the line starts one edit later.           *)
LEMMA EditedLess ==
    ASSUME NEW q \in Seq(Char), q # <<>>, NEW n, NEW t, NEW l, NEW s, EditsTo(q, n, t, l, s)
    PROVE  \E m \in Nat, u \in [Nat -> Char] : Edit(n, t, Head(q), m, u) /\ EditsTo(Tail(q), m, u, l, s)
<1>e. PICK ns \in [0 .. Len(q) -> Nat], ts \in [0 .. Len(q) -> [Nat -> Char]] :
        Edited(q, ns, ts) /\ ns[0] = n /\ ts[0] = t /\ ns[Len(q)] = l /\ ts[Len(q)] = s
    BY DEF EditsTo
<1> DEFINE ms == [k \in 0 .. Len(q) - 1 |-> ns[k + 1]]
           us == [k \in 0 .. Len(q) - 1 |-> ts[k + 1]]
<1>0. /\ Len(q) \in Nat \ {0} /\ Len(Tail(q)) = Len(q) - 1
      /\ \A k \in 1 .. Len(q) - 1 : Tail(q)[k] = q[k + 1]
    OBVIOUS
<1>1. /\ ms \in [0 .. Len(q) - 1 -> Nat] /\ us \in [0 .. Len(q) - 1 -> [Nat -> Char]]
      /\ \A k \in 0 .. Len(q) - 1 : ms[k] = ns[k + 1] /\ us[k] = ts[k + 1]
    <2>1. ASSUME NEW k \in 0 .. Len(q) - 1 PROVE ns[k + 1] \in Nat /\ ts[k + 1] \in [Nat -> Char]
        <3>1. k + 1 \in 0 .. Len(q)
            BY <1>0
        <3> QED
            BY <3>1 DEF Edited
    <2> QED
        BY <2>1
<1> HIDE DEF ms, us
<1>2. ASSUME NEW k \in 1 .. Len(q) - 1
      PROVE  Edit(ms[k - 1], us[k - 1], Tail(q)[k], ms[k], us[k])
    <2>1. k + 1 \in 1 .. Len(q) /\ k \in 0 .. Len(q) - 1 /\ k - 1 \in 0 .. Len(q) - 1
        BY <1>0
    <2>2. Edit(ns[(k + 1) - 1], ts[(k + 1) - 1], q[k + 1], ns[k + 1], ts[k + 1])
        BY <1>e, <2>1 DEF Edited
    <2>3. (k + 1) - 1 = k /\ (k - 1) + 1 = k
        OBVIOUS
    <2>4. ms[k - 1] = ns[k] /\ us[k - 1] = ts[k] /\ ms[k] = ns[k + 1] /\ us[k] = ts[k + 1]
        BY <1>1, <2>1, <2>3
    <2> QED
        BY <1>0, <2>2, <2>3, <2>4
<1>3. Edited(Tail(q), ms, us)
    BY <1>0, <1>1, <1>2 DEF Edited
<1>4. /\ ms[0] = ns[1] /\ us[0] = ts[1]
      /\ ms[Len(q) - 1] = l /\ us[Len(q) - 1] = s
    <2>1. 0 \in 0 .. Len(q) - 1 /\ Len(q) - 1 \in 0 .. Len(q) - 1 /\ 0 + 1 = 1 /\ (Len(q) - 1) + 1 = Len(q)
        BY <1>0
    <2> QED
        BY <1>1, <1>e, <2>1
<1>5. EditsTo(Tail(q), ns[1], ts[1], l, s)
    BY <1>0, <1>1, <1>3, <1>4 DEF EditsTo
<1>6. Edit(n, t, Head(q), ns[1], ts[1]) /\ ns[1] \in Nat /\ ts[1] \in [Nat -> Char]
    <2>1. 1 \in 1 .. Len(q) /\ 1 \in 0 .. Len(q) /\ 1 - 1 = 0 /\ Head(q) = q[1]
        BY <1>0
    <2>2. Edit(ns[1 - 1], ts[1 - 1], q[1], ns[1], ts[1])
        BY <1>e, <2>1 DEF Edited
    <2> QED
        BY <1>e, <2>1, <2>2
<1> QED
    BY <1>5, <1>6

(* The handler echoes and queues a character.                              *)
LEMMA IntrEchoed ==
    ASSUME TInv, TInv', Echoed, NEW c \in Char, cons_intr(c)
    PROVE  Echoed'
<1> SUFFICES ASSUME pc' = "read", plain', \A k \in 1 .. Len(Unread') : Unread'[k] # "NL"
             PROVE  \E n, m \in Nat, t, u \in [Nat -> Char] :
                        EditsTo(Unread', n, t, m, u) /\ Holds(n, t)' /\ Shows(crt', m, u)
    BY DEF Echoed
<1>0. UNCHANGED <<rpos, key, i, line>>
    BY DEF cons_intr
<1>1. CASE c = "^C"
    <2>1. UNCHANGED <<ring, wpos, crt, plain>> /\ pc = "read"
        BY <1>1 DEF cons_intr, destroy_curenv
    <2>2. Unread' = Unread
        BY <1>0, <2>1 DEF Unread, Pending
    <2> QED
        BY <1>0, <2>1, <2>2 DEF Echoed, Holds
<1>2. CASE c # "^C"
    <2>1. pc = "read" /\ echo(c) /\ queue_key(c) /\ plain /\ ~ Odd(c) /\ wpos' # rpos
        BY <1>2 DEF cons_intr
    <2>q. Unread \in Seq(Char) /\ RingOK /\ RingOK'
        BY UnreadIs DEF TInv, Queued
    <2>2. Unread' = Append(Unread, c)
        <3>1. Unread' = IF Len(Unread) + 1 = BY2CONS THEN <<>> ELSE Append(Unread, c)
            BY <1>0, <2>1, <2>q, QueueKey
        <3>2. Unread' # <<>>
            <4>1. Pending' # 0 /\ Len(Unread') = Pending'
                BY <1>0, <2>1, <2>q, UnreadIsNext DEF Queued
            <4> QED
                BY <4>1
        <3> QED
            BY <3>1, <3>2
    <2>3. /\ Len(Unread') = Len(Unread) + 1 /\ Unread'[Len(Unread) + 1] = c
          /\ Len(Unread) \in Nat /\ \A k \in 1 .. Len(Unread) : Unread'[k] = Unread[k]
        BY <2>q, <2>2
    <2>4. c # "NL" /\ c \in Letters \cup {"BS"} /\ (c = "BS" => ~ (crt.pos <= crt.home) /\ crt.pos # 0)
        BY <2>1, <2>3 DEF Odd
    <2>5. \A k \in 1 .. Len(Unread) : Unread[k] # "NL"
        BY <2>3
    <2>6. PICK n, l \in Nat, t, s \in [Nat -> Char] : EditsTo(Unread, n, t, l, s) /\ Holds(n, t) /\ Shows(crt, l, s)
        BY <2>1, <2>5 DEF Echoed
    <2>7. crt \in Screen /\ crt.home < CRT_SIZE /\ crt.pos \in Int /\ crt.home \in Int
        BY DEF TInv, CrtOK, Screen, Cell
    <2>8. c = "BS" => crt.pos > crt.home /\ crt.pos # 0
        BY <2>4, <2>7
    <2>9. PICK m \in Nat, u \in [Nat -> Char] : Edit(l, s, c, m, u) /\ Shows(cga_putc(crt, c), m, u)
        BY <2>4, <2>6, <2>7, <2>8, EchoShows
    <2>10. crt' = cga_putc(crt, c)
        BY <2>1, <2>4 DEF echo, Letters
    <2>11. EditsTo(Unread', n, t, m, u)
        BY <2>q, <2>2, <2>6, <2>9, EditedMore
    <2>12. Holds(n, t)'
        BY <1>0, <2>6 DEF Holds
    <2> QED
        BY <2>9, <2>10, <2>11, <2>12
<1> QED
    BY <1>1, <1>2

(* readline reads the next key, and edits its line.                        *)
LEMMA ReadEchoed ==
    ASSUME TInv, TInv', Echoed, readline
    PROVE  Echoed'
<1> USE TerminalAssumption
<1> SUFFICES ASSUME pc' = "read", plain', \A k \in 1 .. Len(Unread') : Unread'[k] # "NL"
             PROVE  \E n, m \in Nat, t, u \in [Nat -> Char] :
                        EditsTo(Unread', n, t, m, u) /\ Holds(n, t)' /\ Shows(crt', m, u)
    BY DEF Echoed
<1>1. /\ cons_getc /\ UNCHANGED <<ring, wpos, crt, plain>> /\ pc = "read" /\ key' \notin {"^D", "NL"}
      /\ line' = [line EXCEPT ![i] = key']
      /\ i' = (IF key' = "BS" THEN Erased(i) ELSE i) + 1
    BY DEF readline, history
<1>2. Unread # <<>> /\ key' = Head(Unread) /\ Unread' = Tail(Unread) /\ Unread \in Seq(Char)
    BY <1>1, TakeKey, UnreadIs DEF TInv, Queued
<1>3. /\ Len(Unread) \in Nat \ {0} /\ Len(Unread') = Len(Unread) - 1 /\ key' = Unread[1]
      /\ \A k \in 2 .. Len(Unread) : k - 1 \in 1 .. Len(Unread') /\ Unread'[k - 1] = Unread[k]
    BY <1>2
<1>4. \A k \in 1 .. Len(Unread) : Unread[k] # "NL"
    BY <1>1, <1>3
<1>5. PICK n, l \in Nat, t, s \in [Nat -> Char] : EditsTo(Unread, n, t, l, s) /\ Holds(n, t) /\ Shows(crt, l, s)
    BY <1>1, <1>4 DEF Echoed
<1>6. PICK m \in Nat, u \in [Nat -> Char] : Edit(n, t, key', m, u) /\ EditsTo(Unread', m, u, l, s)
    BY <1>2, <1>5, EditedLess
<1>8. n = i /\ i \in 0 .. BufSize - 1 /\ (\A k \in 0 .. i - 1 : t[k] = line[k]) /\ line \in [0 .. BufSize - 1 -> Char]
    BY <1>1, <1>5 DEF Holds, TInv, LineOK
<1>9. \A k \in 0 .. i : line'[k] = (IF k = i THEN key' ELSE line[k])
    BY <1>1, <1>8
<1>10. Holds(m, u)'
    <2>1. CASE key' \in Letters
        <3>1. key' # "BS" /\ i' = i + 1 /\ m = i + 1 /\ u = [t EXCEPT ![i] = key']
            BY <1>1, <1>6, <1>8, <2>1 DEF Edit, Letters
        <3>2. \A k \in 0 .. i : u[k] = (IF k = i THEN key' ELSE t[k])
            BY <1>8, <3>1
        <3> QED
            BY <1>8, <1>9, <3>1, <3>2 DEF Holds
    <2>2. CASE key' = "BS"
        <3>1. i > 0 /\ m = i - 1 /\ u = t
            BY <1>6, <1>8, <2>2 DEF Edit, Letters
        <3>2. i' = i - 1
            BY <1>1, <1>8, <2>2, <3>1 DEF Erased
        <3> QED
            BY <1>8, <1>9, <3>1, <3>2 DEF Holds
    <2> QED
        BY <1>6, <2>1, <2>2 DEF Edit
<1>11. crt' = crt
    BY <1>1
<1> QED
    BY <1>5, <1>6, <1>10, <1>11

(* The prompt starts a new line; what was typed before shows in front.     *)
LEMMA PromptEchoed ==
    ASSUME TInv, TInv', prompt
    PROVE  Echoed'
<1> SUFFICES ASSUME plain'
             PROVE  \E n, m \in Nat, t, u \in [Nat -> Char] :
                        EditsTo(Unread', n, t, m, u) /\ Holds(n, t)' /\ Shows(crt', m, u)
    BY DEF Echoed
<1>1. rpos' = wpos' /\ i' = 0 /\ crt' = [cga_putc(crt, "$") EXCEPT !.home = cga_putc(crt, "$").pos]
    BY DEF prompt
<1>2. Len(Unread') = 0
    BY <1>1, UnreadIsNext DEF Queued, TInv
<1>3. crt'.pos = crt'.home /\ crt'.pos \in Int
    <2>1. "$" \in Char
        BY DEF Char
    <2>2. cga_putc(crt, "$") \in Screen
        BY <2>1, Put DEF TInv, CrtOK
    <2> QED
        BY <1>1, <2>2 DEF Screen, Cell
<1> DEFINE none == [m \in Nat |-> "NO"]
           ns == [k \in 0 .. 0 |-> 0]
           ts == [k \in 0 .. 0 |-> none]
<1>4. none \in [Nat -> Char]
    BY DEF Char
<1> HIDE DEF none
<1>5. ns \in [0 .. 0 -> Nat] /\ ts \in [0 .. 0 -> [Nat -> Char]] /\ ns[0] = 0 /\ ts[0] = none
    BY <1>4
<1> HIDE DEF ns, ts
<1>6. Edited(Unread', ns, ts)
    BY <1>2, <1>5 DEF Edited
<1>7. EditsTo(Unread', 0, none, 0, none)
    BY <1>2, <1>5, <1>6 DEF EditsTo
<1>8. Holds(0, none)' /\ Shows(crt', 0, none)
    BY <1>1, <1>3 DEF Holds, Shows
<1> QED
    BY <1>4, <1>7, <1>8

(* Nothing else edits the line while readline reads it.                    *)
LEMMA StepEchoed == TInv /\ TInv' /\ Echoed /\ [Next]_vars => Echoed'
<1> SUFFICES ASSUME TInv, TInv', Echoed, [Next]_vars PROVE Echoed'
    OBVIOUS
<1>1. CASE UNCHANGED <<ring, rpos, wpos, crt, pc, i, line, plain>>
    <2>1. Unread' = Unread
        BY <1>1 DEF Unread, Pending
    <2> QED
        BY <1>1, <2>1 DEF Echoed, Holds
<1>2. CASE readline \/ prompt
    BY <1>2, ReadEchoed, PromptEchoed
<1>3. CASE skip_line \/ start_sh
    BY <1>3 DEF skip_line, start_sh, Echoed
<1>4. ASSUME NEW k \in Keys, kbd_up(k) \/ kbd_down(k)
      PROVE  Echoed'
    <2> DEFINE mods == shift \cup shiftcode(k)
               now == (mods \ togglecode(k)) \cup (togglecode(k) \ mods)
    <2>1. CASE cons_intr(kbd_char(k, now))
        BY <2>1, KbdChar, IntrEchoed
    <2>2. CASE UNCHANGED <<ring, rpos, wpos, crt, readVars, history>>
        BY <1>1, <2>2 DEF readVars, history
    <2> QED
        BY <1>4, <2>1, <2>2 DEF kbd_up, kbd_down
<1>5. ASSUME NEW c \in Serial, serial_intr(c)
      PROVE  Echoed'
    BY <1>5, TerminalAssumption, IntrEchoed DEF serial_intr
<1>6. CASE UNCHANGED vars
    BY <1>1, <1>6 DEF vars
<1> QED
    BY <1>2, <1>3, <1>4, <1>5, <1>6 DEF Next, Shell

(* Two edits of one line agree: what the handler has echoed of the letters *)
(* and backspaces typed at the prompt is what readline has in its buffer   *)
(* when it has read them all (cga_putc in kern/console.c, readline in      *)
(* user/sh.c).                                                             *)
THEOREM TerminalEcho == Spec => []LineIsEcho
<1>1. Init => Echoed
    BY DEF Init, Echoed
<1>2. TInv /\ Echoed => LineIsEcho
    <2> SUFFICES ASSUME TInv, Echoed, pc = "read", plain, rpos = wpos
                 PROVE  /\ crt.pos - crt.home = i
                        /\ \A n \in 0 .. i - 1 : crt.home + n >= 0 => crt.cell[crt.home + n] = line[n]
        BY DEF LineIsEcho
    <2>1. Len(Unread) = 0
        BY UnreadIs DEF TInv, Queued
    <2>2. PICK n, m \in Nat, t, u \in [Nat -> Char] : EditsTo(Unread, n, t, m, u) /\ Holds(n, t) /\ Shows(crt, m, u)
        BY <2>1 DEF Echoed
    <2>3. n = m /\ t = u
        BY <2>1, <2>2 DEF EditsTo
    <2> QED
        BY <2>2, <2>3 DEF Holds, Shows
<1> QED
    BY <1>1, <1>2, StepEchoed, TerminalInvariant, PTL DEF Spec
=============================================================================
