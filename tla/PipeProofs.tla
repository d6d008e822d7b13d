----------------------------- MODULE PipeProofs -----------------------------
(***************************************************************************)
(* Proofs about Pipe, for any number of environments and descriptors, any  *)
(* capacity and any number of bytes.                                       *)
(***************************************************************************)
EXTENDS Pipe, FiniteSetTheorems, SequenceTheorems, TLAPS

Ops == {"none", "read", "write", "check", "close", "dup", "fork"}

RegType ==
    [op : Ops, slot : Slot, arg : Nat \cup Env, i : Nat, at : 0 .. PosMod - 1,
     val : -2 .. PosMod - 1, moved : BOOLEAN, refs : Nat, same : BOOLEAN]

(* What holds of each environment.                                         *)

(* The counter of a fork starts at 0 and stays within the descriptors.     *)
Counter(e) ==
    /\ pc[e] = "user" => reg[e].i = 0
    /\ pc[e] \in {"fork_fd", "fork_data"} => reg[e].i \in Slot

(* Only what is alive runs; what does not exist has nothing open.          *)
Exists(e) ==
    /\ pc[e] # "user" => life[e] = "alive"
    /\ life[e] = "none" => \A s \in Slot : fd[e][s] = "none"

(* Where memory may run out in a fork nothing is claimed of the pipe's     *)
(* page, which the child may then lack.                                    *)
Backed(e) ==
    ForkMayFail \/ \A s \in Slot : life[e] = "alive" /\ fd[e][s] # "none" => data[e][s]

(* The descriptor a call works on stays open; the one dup or close works   *)
(* towards is closed in between.                                           *)
InLoop == {"room", "load", "byte", "position", "advance", "yield", "runs"} \cup Checking

Ends(e) ==
    /\ pc[e] \in InLoop => fd[e][reg[e].slot] # "none"
    /\ pc[e] \in {"close_fd", "close_data", "dup_data", "dup_fd"} =>
        /\ reg[e].arg \in Slot /\ reg[e].op \in {"close", "dup"}
        /\ reg[e].op = "dup" => reg[e].slot # reg[e].arg /\ fd[e][reg[e].slot] # "none"
        /\ pc[e] # "close_fd" => fd[e][reg[e].arg] = "none"
        /\ pc[e] \in {"dup_data", "dup_fd"} => reg[e].op = "dup"
        /\ pc[e] = "dup_fd" => ForkMayFail \/ data[e][reg[e].arg]

(* What a fork has copied so far, into a child nobody else knows of.       *)
Forks(e) ==
    pc[e] \in {"fork_fd", "fork_data", "fork_run"} =>
        /\ reg[e].arg \in Env /\ life[reg[e].arg] = "making" /\ parent[reg[e].arg] = e
        /\ ForkMayFail \/ \A s \in Slot :
            /\ pc[e] # "fork_fd" \/ s < reg[e].i => fd[reg[e].arg][s] = fd[e][s]
            /\ pc[e] = "fork_run" \/ (pc[e] = "fork_data" /\ s < reg[e].i) =>
                data[reg[e].arg][s] = data[e][s]

(* As long as it has not lost the processor, what a check has loaded is    *)
(* still true.                                                             *)
Counts(e) ==
    cur = e /\ ~ reg[e].moved => \A kind : fd[e][reg[e].slot] = kind =>
        /\ pc[e] = "pageref_p" => reg[e].refs = FdRefs(kind)
        /\ pc[e] = "again" /\ reg[e].same => ForkMayFail \/ FdRefs(kind) = DataRefs

Good(e) == Counter(e) /\ Exists(e) /\ Backed(e) /\ Ends(e) /\ Forks(e) /\ Counts(e)

IInv ==
    /\ PipeTypeOK
    /\ cur # NoEnv => life[cur] = "alive"
    /\ \A e \in Env : Good(e)

(***************************************************************************)
(* Types.                                                                  *)
(***************************************************************************)

(* What follows from the assumptions on the constants.                     *)
LEMMA ConstantTypes ==
    /\ 0 \in Slot /\ 1 \in Slot /\ Slot \subseteq Nat
    /\ 0 \in 0 .. PosMod - 1 /\ NoReg \in RegType
    /\ \A n \in Nat : n % PosMod \in 0 .. PosMod - 1 /\ n % BY2PIPE \in 0 .. BY2PIPE - 1
BY PipeAssumption, Z3 DEF PipeAssumption, Slot, NoReg, RegType, Ops, NoVal

(* Reference counts are numbers: there are finitely many descriptors.      *)
LEMMA CountTypes ==
    ASSUME PipeTypeOK
    PROVE  DataRefs \in Nat /\ \A k : FdRefs(k) \in Nat
<1>1. IsFiniteSet(Env \X Slot)
  <2>1. IsFiniteSet(Slot)
    BY PipeAssumption, FS_Interval DEF PipeAssumption, Slot
  <2> QED
    BY <2>1, PipeAssumption, FS_Product DEF PipeAssumption
<1>2. \A k : IsFiniteSet({x \in Env \X Slot : fd[x[1]][x[2]] = k})
  BY <1>1, FS_Subset
<1>3. IsFiniteSet({x \in Env \X Slot : data[x[1]][x[2]]})
  BY <1>1, FS_Subset
<1> QED
  BY <1>2, <1>3, FS_CardinalityType DEF DataRefs, FdRefs

(* Setting one local variable.                                             *)
LEMMA RegSet ==
    ASSUME NEW r \in RegType
    PROVE  /\ \A v \in Ops : [r EXCEPT !.op = v] \in RegType
           /\ \A v \in Slot : [r EXCEPT !.slot = v] \in RegType
           /\ \A v \in Nat \cup Env : [r EXCEPT !.arg = v] \in RegType
           /\ \A v \in Nat : [r EXCEPT !.i = v] \in RegType
           /\ \A v \in 0 .. PosMod - 1 : [r EXCEPT !.at = v] \in RegType
           /\ \A v \in -2 .. PosMod - 1 : [r EXCEPT !.val = v] \in RegType
           /\ \A v \in BOOLEAN : [r EXCEPT !.moved = v] \in RegType
           /\ \A v \in Nat : [r EXCEPT !.refs = v] \in RegType
           /\ \A v \in BOOLEAN : [r EXCEPT !.same = v] \in RegType
BY DEF RegType

(* The same for one environment's variables among all.                     *)
LEMMA RegsSet ==
    ASSUME NEW r \in [Env -> RegType], NEW e \in Env
    PROVE  /\ \A v \in Ops : [r EXCEPT ![e].op = v] \in [Env -> RegType]
           /\ \A v \in Slot : [r EXCEPT ![e].slot = v] \in [Env -> RegType]
           /\ \A v \in Nat \cup Env : [r EXCEPT ![e].arg = v] \in [Env -> RegType]
           /\ \A v \in Nat : [r EXCEPT ![e].i = v] \in [Env -> RegType]
           /\ \A v \in 0 .. PosMod - 1 : [r EXCEPT ![e].at = v] \in [Env -> RegType]
           /\ \A v \in -2 .. PosMod - 1 : [r EXCEPT ![e].val = v] \in [Env -> RegType]
           /\ \A v \in BOOLEAN : [r EXCEPT ![e].moved = v] \in [Env -> RegType]
           /\ \A v \in Nat : [r EXCEPT ![e].refs = v] \in [Env -> RegType]
           /\ \A v \in BOOLEAN : [r EXCEPT ![e].same = v] \in [Env -> RegType]
<1>1. ASSUME NEW v \in Ops PROVE [r EXCEPT ![e].op = v] \in [Env -> RegType]
  <2>1. [r[e] EXCEPT !.op = v] \in RegType
    BY RegSet
  <2> QED
    BY <2>1
<1>2. ASSUME NEW v \in Slot PROVE [r EXCEPT ![e].slot = v] \in [Env -> RegType]
  <2>1. [r[e] EXCEPT !.slot = v] \in RegType
    BY RegSet
  <2> QED
    BY <2>1
<1>3. ASSUME NEW v \in Nat \cup Env PROVE [r EXCEPT ![e].arg = v] \in [Env -> RegType]
  <2>1. [r[e] EXCEPT !.arg = v] \in RegType
    BY RegSet
  <2> QED
    BY <2>1
<1>4. ASSUME NEW v \in Nat PROVE [r EXCEPT ![e].i = v] \in [Env -> RegType]
  <2>1. [r[e] EXCEPT !.i = v] \in RegType
    BY RegSet
  <2> QED
    BY <2>1
<1>5. ASSUME NEW v \in 0 .. PosMod - 1 PROVE [r EXCEPT ![e].at = v] \in [Env -> RegType]
  <2>1. [r[e] EXCEPT !.at = v] \in RegType
    BY RegSet
  <2> QED
    BY <2>1
<1>6. ASSUME NEW v \in -2 .. PosMod - 1 PROVE [r EXCEPT ![e].val = v] \in [Env -> RegType]
  <2>1. [r[e] EXCEPT !.val = v] \in RegType
    BY RegSet
  <2> QED
    BY <2>1
<1>7. ASSUME NEW v \in BOOLEAN PROVE [r EXCEPT ![e].moved = v] \in [Env -> RegType]
  <2>1. [r[e] EXCEPT !.moved = v] \in RegType
    BY RegSet
  <2> QED
    BY <2>1
<1>8. ASSUME NEW v \in Nat PROVE [r EXCEPT ![e].refs = v] \in [Env -> RegType]
  <2>1. [r[e] EXCEPT !.refs = v] \in RegType
    BY RegSet
  <2> QED
    BY <2>1
<1>9. ASSUME NEW v \in BOOLEAN PROVE [r EXCEPT ![e].same = v] \in [Env -> RegType]
  <2>1. [r[e] EXCEPT !.same = v] \in RegType
    BY RegSet
  <2> QED
    BY <2>1
<1> QED
  BY <1>1, <1>2, <1>3, <1>4, <1>5, <1>6, <1>7, <1>8, <1>9

(* The record of PipeTypeOK, by its name here.                             *)
LEMMA RegTypes == PipeTypeOK => reg \in [Env -> RegType]
BY DEF PipeTypeOK, RegType, Ops

(***************************************************************************)
(* The inductive invariant.                                                *)
(***************************************************************************)

(* It holds before there is any pipe.                                      *)
LEMMA InitInv == Init => IInv
<1> SUFFICES ASSUME Init PROVE IInv
  OBVIOUS
<1>1. PipeTypeOK
  <2>1. reg \in [Env -> RegType]
    BY ConstantTypes DEF Init
  <2> QED
    BY <2>1, PipeAssumption DEF Init, PipeTypeOK, PipeAssumption, RegType, Ops, Label, NoByte
<1>2. cur # NoEnv => life[cur] = "alive"
  BY DEF Init
<1>3. ASSUME NEW e \in Env PROVE Good(e)
  <2>1. pc[e] = "user" /\ reg[e].i = 0 /\ \A s \in Slot : fd[e][s] = "none"
    BY DEF Init, NoReg
  <2> QED
    BY <2>1 DEF Good, Counter, Exists, Backed, Ends, InLoop, Checking, Forks, Counts
<1> QED
  BY <1>1, <1>2, <1>3 DEF IInv

(* What e may write to: its own descriptors and those of a child in the    *)
(* making.                                                                 *)
Mine(e) == {e} \cup {c \in Env : life[c] = "making" /\ parent[c] = e}

(* A step of e inside the library disturbs nobody else.                    *)
LEMMA OwnStep ==
    ASSUME IInv, PipeTypeOK', NEW e \in Env, cur = e, UNCHANGED <<life, parent, cur>>,
           \A f \in Env \ {e} : pc'[f] = pc[f] /\ reg'[f] = reg[f],
           \A f \in Env \ Mine(e) : fd'[f] = fd[f] /\ data'[f] = data[f],
           Good(e)'
    PROVE  IInv'
<1>1. cur' # NoEnv => life'[cur'] = "alive"
  BY DEF IInv
<1>2. life[e] = "alive"
  BY PipeAssumption DEF IInv, PipeAssumption
<1>3. ASSUME NEW f \in Env, f # e PROVE Good(f)'
  <2>1. Good(f) /\ pc'[f] = pc[f] /\ reg'[f] = reg[f] /\ life'[f] = life[f]
    BY <1>3 DEF IInv
  <2>2. Counts(f)'
    BY <1>3 DEF Counts
  <2>3. CASE f \in Mine(e)
    <3>1. life[f] = "making" /\ pc[f] = "user"
      BY <2>1, <2>3, <1>3 DEF Mine, Good, Exists
    <3> QED
      BY <3>1, <2>1, <2>2 DEF Good, Counter, Exists, Backed, Ends, InLoop, Checking, Forks
  <2>4. CASE f \notin Mine(e)
    <3>1. fd'[f] = fd[f] /\ data'[f] = data[f]
      BY <2>4
    <3>2. Counter(f)' /\ Exists(f)' /\ Backed(f)'
      BY <2>1, <3>1 DEF Good, Counter, Exists, Backed
    <3>3. Ends(f)'
      <4>1. reg[f].slot \in Slot
        BY RegTypes DEF IInv, RegType
      <4> QED
        BY <4>1, <2>1, <3>1 DEF Good, Ends
    <3>4. Forks(f)'
      <4>1. CASE pc[f] \in {"fork_fd", "fork_data", "fork_run"}
        <5>1. reg[f].arg \in Env \ Mine(e)
          BY <4>1, <2>1, <1>2, <1>3 DEF Good, Forks, Mine
        <5>2. fd'[reg[f].arg] = fd[reg[f].arg] /\ data'[reg[f].arg] = data[reg[f].arg]
          BY <5>1
        <5> QED
          BY <5>1, <5>2, <2>1, <3>1, <4>1 DEF Good, Forks
      <4>2. CASE pc[f] \notin {"fork_fd", "fork_data", "fork_run"}
        BY <4>2, <2>1 DEF Forks
      <4> QED
        BY <4>1, <4>2
    <3> QED
      BY <2>2, <3>2, <3>3, <3>4 DEF Good
  <2> QED
    BY <2>3, <2>4
<1> QED
  BY <1>1, <1>3 DEF IInv

(* A step that only moves e along in the library.                          *)
Moves(e) ==
    /\ cur = e /\ UNCHANGED <<envVars, cur>>
    /\ slice' \in 0 .. Slice /\ pc' \in [Env -> Label] /\ reg' \in [Env -> RegType]
    /\ \A f \in Env \ {e} : pc'[f] = pc[f] /\ reg'[f] = reg[f]

PipeTypes ==
    /\ rpos' \in 0 .. PosMod - 1 /\ wpos' \in 0 .. PosMod - 1
    /\ buf' \in [0 .. BY2PIPE - 1 -> -1 .. PosMod - 1]

(* A step that only moves e along keeps the invariant if what it says of e *)
(* still holds.                                                            *)
LEMMA LocalStep ==
    ASSUME IInv, NEW e \in Env, Moves(e), UNCHANGED memVars, PipeTypes,
           Counter(e)', Ends(e)', Forks(e)', Counts(e)'
    PROVE  IInv'
<1>1. PipeTypeOK'
  BY DEF IInv, PipeTypeOK, Moves, PipeTypes, memVars, envVars, RegType, Ops
<1>2. Good(e)'
  <2>1. life[e] = "alive" /\ life' = life /\ fd' = fd /\ data' = data
    BY PipeAssumption DEF IInv, Moves, memVars, envVars, PipeAssumption
  <2> QED
    BY <2>1 DEF IInv, Good, Exists, Backed
<1> QED
  BY <1>1, <1>2, OwnStep DEF Moves, memVars, envVars

(* The parts of a step.                                                    *)
LEMMA AtTypes ==
    ASSUME PipeTypeOK, NEW e \in Env, NEW l, At(e, l)
    PROVE  cur = e /\ pc[e] = l /\ slice' \in 0 .. Slice
BY PipeAssumption DEF PipeTypeOK, At, PipeAssumption

(* Going to a label changes the place of e alone.                          *)
LEMMA GotoTypes ==
    ASSUME PipeTypeOK, NEW e \in Env, NEW l \in Label, Goto(e, l)
    PROVE  /\ pc' \in [Env -> Label] /\ pc'[e] = l
           /\ \A f \in Env \ {e} : pc'[f] = pc[f]
BY DEF PipeTypeOK, Goto

(* So does returning, which forgets e's variables.                         *)
LEMMA ReturnTypes ==
    ASSUME PipeTypeOK, NEW e \in Env, Return(e)
    PROVE  /\ pc' \in [Env -> Label] /\ pc'[e] = "user"
           /\ reg' \in [Env -> RegType] /\ reg'[e] = NoReg /\ reg'[e].i = 0
           /\ \A f \in Env \ {e} : pc'[f] = pc[f] /\ reg'[f] = reg[f]
<1>1. Goto(e, "user") /\ "user" \in Label /\ reg' = [reg EXCEPT ![e] = NoReg]
  BY DEF Return, Label
<1>2. reg \in [Env -> RegType] /\ NoReg \in RegType /\ NoReg.i = 0
  BY RegTypes, ConstantTypes DEF NoReg
<1> QED
  BY <1>1, <1>2, GotoTypes

(* Wherever an operation returns from, nothing is pending.                 *)
LEMMA ReturnStep ==
    ASSUME IInv, NEW e \in Env, NEW l, At(e, l), Return(e), UNCHANGED <<envVars, cur>>
    PROVE  Moves(e) /\ Counter(e)' /\ Ends(e)' /\ Forks(e)' /\ Counts(e)'
<1>1. Moves(e)
  BY AtTypes, ReturnTypes DEF IInv, Moves
<1>2. pc'[e] = "user" /\ reg'[e].i = 0
  BY ReturnTypes DEF IInv
<1> QED
  BY <1>1, <1>2 DEF Counter, Ends, Forks, Counts, InLoop, Checking

(* Wherever it goes on inside a loop, its descriptor is still open.        *)
LEMMA LoopStep ==
    ASSUME IInv, NEW e \in Env, Moves(e), UNCHANGED memVars, pc[e] \in InLoop,
           pc'[e] \in InLoop \ {"pageref_p", "again"}, reg'[e].slot = reg[e].slot
    PROVE  Counter(e)' /\ Ends(e)' /\ Forks(e)' /\ Counts(e)'
<1>1. fd'[e][reg'[e].slot] # "none"
  BY DEF IInv, Good, Ends, memVars
<1> QED
  BY <1>1 DEF Counter, Ends, Forks, Counts, InLoop, Checking

(***************************************************************************)
(* The loops of read and write.                                            *)
(***************************************************************************)

(* Positions and the ring stay of their types where they are not touched.  *)
LEMMA PipeSame ==
    ASSUME PipeTypeOK, UNCHANGED pipeVars
    PROVE  PipeTypes
BY DEF PipeTypeOK, PipeTypes, pipeVars

(* The look at the positions keeps the invariant.                          *)
LEMMA RoomInv == ASSUME IInv, NEW e \in Env, room(e) PROVE IInv'
<1>1. PICK l \in {"runs", "load"} : Goto(e, l)
  BY DEF room
<1>2. Moves(e) /\ pc'[e] = l /\ pc[e] = "room" /\ reg' = reg
  BY <1>1, AtTypes, GotoTypes, RegTypes DEF room, IInv, Moves, Label
<1>3. Counter(e)' /\ Ends(e)' /\ Forks(e)' /\ Counts(e)'
  BY <1>2, LoopStep DEF InLoop, Checking, room
<1> QED
  BY <1>2, <1>3, LocalStep, PipeSame DEF room, IInv

(* A fault at the pipe's page keeps the invariant.                         *)
LEMMA PageFaultInv == ASSUME IInv, NEW e \in Env, page_fault(e) PROVE IInv'
BY ReturnStep, LocalStep, PipeSame DEF page_fault, IInv

(* Loading the position keeps the invariant.                               *)
LEMMA LoadInv == ASSUME IInv, NEW e \in Env, load(e) PROVE IInv'
<1>1. PICK l \in {"position", "byte"} : Goto(e, l)
  BY DEF load
<1>2. reg' \in [Env -> RegType] /\ \A f \in Env \ {e} : reg'[f] = reg[f]
  BY RegTypes, RegsSet DEF load, IInv, PipeTypeOK
<1>3. reg'[e].slot = reg[e].slot
  BY RegTypes DEF load, IInv, RegType
<1>4. Moves(e) /\ pc'[e] = l /\ pc[e] = "load"
  BY <1>1, <1>2, AtTypes, GotoTypes DEF load, IInv, Moves, Label
<1>5. Counter(e)' /\ Ends(e)' /\ Forks(e)' /\ Counts(e)'
  BY <1>3, <1>4, LoopStep DEF InLoop, Checking, load
<1> QED
  BY <1>4, <1>5, LocalStep, PipeSame DEF load, IInv

(* A position loaded is a place in the ring.                               *)
LEMMA PlaceTypes ==
    ASSUME PipeTypeOK, NEW e \in Env
    PROVE  /\ reg[e].at \in 0 .. PosMod - 1 /\ reg[e].at \in -1 .. PosMod - 1
           /\ (reg[e].at + 1) % PosMod \in 0 .. PosMod - 1
           /\ reg[e].at % BY2PIPE \in 0 .. BY2PIPE - 1
           /\ buf[reg[e].at % BY2PIPE] \in -2 .. PosMod - 1
<1>1. reg[e].at \in 0 .. PosMod - 1
  BY RegTypes DEF RegType
<1>2. reg[e].at \in Nat /\ reg[e].at + 1 \in Nat /\ reg[e].at \in -1 .. PosMod - 1
  BY <1>1, PipeAssumption DEF PipeAssumption
<1>3. reg[e].at % BY2PIPE \in 0 .. BY2PIPE - 1 /\ (reg[e].at + 1) % PosMod \in 0 .. PosMod - 1
  BY <1>2, ConstantTypes
<1>4. buf[reg[e].at % BY2PIPE] \in -1 .. PosMod - 1
  BY <1>3 DEF PipeTypeOK
<1>5. buf[reg[e].at % BY2PIPE] \in -2 .. PosMod - 1
  BY <1>4, PipeAssumption DEF PipeAssumption
<1> QED
  BY <1>1, <1>2, <1>3, <1>5

(* Copying the byte keeps the invariant.                                   *)
LEMMA ByteInv == ASSUME IInv, NEW e \in Env, byte(e) PROVE IInv'
<1>1. PICK l \in {"advance", "position"} : Goto(e, l)
  BY DEF byte
<1>2. /\ reg' \in [Env -> RegType] /\ \A f \in Env \ {e} : reg'[f] = reg[f]
      /\ reg'[e].slot = reg[e].slot
  <2>1. CASE reg' = reg
    BY <2>1, RegTypes DEF IInv
  <2>2. CASE reg' = [reg EXCEPT ![e].val = buf[reg[e].at % BY2PIPE]]
    <3>1. reg' \in [Env -> RegType] /\ \A f \in Env \ {e} : reg'[f] = reg[f]
      BY <2>2, RegTypes, RegsSet, PlaceTypes DEF IInv
    <3>2. reg'[e].slot = reg[e].slot
      BY <2>2, RegTypes DEF IInv, RegType
    <3> QED
      BY <3>1, <3>2
  <2> QED
    BY <2>1, <2>2 DEF byte
<1>3. PipeTypes
  BY PlaceTypes DEF byte, IInv, PipeTypeOK, PipeTypes
<1>4. Moves(e) /\ pc'[e] = l /\ pc[e] = "byte"
  BY <1>1, <1>2, AtTypes, GotoTypes DEF byte, IInv, Moves, Label
<1>5. Counter(e)' /\ Ends(e)' /\ Forks(e)' /\ Counts(e)'
  BY <1>2, <1>4, LoopStep DEF InLoop, Checking, byte
<1> QED
  BY <1>3, <1>4, <1>5, LocalStep DEF byte

(* Storing the position keeps the invariant.                               *)
LEMMA PositionInv == ASSUME IInv, NEW e \in Env, position(e) PROVE IInv'
<1>1. PICK l \in {"byte", "advance"} : Goto(e, l)
  BY DEF position
<1>2. PipeTypes
  BY PlaceTypes DEF position, IInv, PipeTypeOK, PipeTypes
<1>3. Moves(e) /\ pc'[e] = l /\ pc[e] = "position" /\ reg' = reg
  BY <1>1, AtTypes, GotoTypes, RegTypes DEF position, IInv, Moves, Label
<1>4. Counter(e)' /\ Ends(e)' /\ Forks(e)' /\ Counts(e)'
  BY <1>3, LoopStep DEF InLoop, Checking, position
<1> QED
  BY <1>2, <1>3, <1>4, LocalStep DEF position

(* The end of an iteration keeps the invariant.                            *)
LEMMA AdvanceInv == ASSUME IInv, NEW e \in Env, advance(e) PROVE IInv'
<1>1. CASE Return(e)
  BY <1>1, ReturnStep, LocalStep, PipeSame DEF advance, IInv
<1>2. CASE /\ reg' = [reg EXCEPT ![e].i = @ + 1, ![e].at = 0, ![e].val = NoVal]
           /\ Goto(e, "room")
  <2> DEFINE r1 == [reg EXCEPT ![e].i = @ + 1]
             r2 == [r1 EXCEPT ![e].at = 0]
  <2>1. reg' = [r2 EXCEPT ![e].val = NoVal]
    BY <1>2, RegTypes DEF IInv
  <2>2. r1 \in [Env -> RegType] /\ \A f \in Env \ {e} : r1[f] = reg[f]
    <3>1. reg[e].i + 1 \in Nat /\ reg \in [Env -> RegType]
      BY RegTypes DEF IInv, RegType
    <3> QED
      BY <3>1, RegsSet
  <2>3. r1[e].slot = reg[e].slot
    BY RegTypes DEF IInv, RegType
  <2> HIDE DEF r1
  <2>4. r2 \in [Env -> RegType] /\ \A f \in Env \ {e} : r2[f] = reg[f]
    BY <2>2, RegsSet, ConstantTypes
  <2>5. r2[e].slot = reg[e].slot
    BY <2>2, <2>3 DEF RegType
  <2> HIDE DEF r2
  <2>6. reg' \in [Env -> RegType] /\ \A f \in Env \ {e} : reg'[f] = reg[f]
    <3>1. NoVal \in -2 .. PosMod - 1
      BY PipeAssumption DEF NoVal, PipeAssumption
    <3> QED
      BY <3>1, <2>1, <2>4, RegsSet
  <2>7. reg'[e].slot = reg[e].slot
    BY <2>1, <2>4, <2>5 DEF RegType
  <2>8. Moves(e) /\ pc'[e] = "room" /\ pc[e] = "advance"
    BY <1>2, <2>6, AtTypes, GotoTypes DEF advance, IInv, Moves, Label
  <2>9. Counter(e)' /\ Ends(e)' /\ Forks(e)' /\ Counts(e)'
    BY <2>7, <2>8, LoopStep DEF InLoop, Checking, advance
  <2> QED
    BY <2>8, <2>9, LocalStep, PipeSame DEF advance, IInv
<1> QED
  BY <1>1, <1>2 DEF advance

(***************************************************************************)
(* The check of the counts.                                                *)
(***************************************************************************)

(* The counts are what the mappings make them.                             *)
LEMMA CountsSame ==
    ASSUME UNCHANGED memVars
    PROVE  DataRefs' = DataRefs /\ \A k : FdRefs(k)' = FdRefs(k)
<1>1. fd' = fd /\ data' = data
  BY DEF memVars
<1> QED
  BY <1>1 DEF DataRefs, FdRefs

(* Reading env_runs keeps the invariant.                                   *)
LEMMA RunsInv == ASSUME IInv, NEW e \in Env, runs(e) PROVE IInv'
<1>1. reg' \in [Env -> RegType] /\ \A f \in Env \ {e} : reg'[f] = reg[f]
  BY RegTypes, RegsSet DEF runs, IInv
<1>2. reg'[e].slot = reg[e].slot
  BY RegTypes DEF runs, IInv, RegType
<1>3. Moves(e) /\ pc'[e] = "pageref_fd" /\ pc[e] = "runs"
  BY <1>1, AtTypes, GotoTypes DEF runs, IInv, Moves, Label, Checking
<1>4. Counter(e)' /\ Ends(e)' /\ Forks(e)' /\ Counts(e)'
  BY <1>2, <1>3, LoopStep DEF InLoop, Checking, runs
<1> QED
  BY <1>3, <1>4, LocalStep, PipeSame DEF runs, IInv

(* Reading the descriptor's count keeps the invariant.                     *)
LEMMA PagerefFdInv == ASSUME IInv, NEW e \in Env, pageref_fd(e) PROVE IInv'
<1>0. PICK k : k = fd[e][reg[e].slot]
  OBVIOUS
<1>1. FdRefs(k) \in Nat
  BY CountTypes DEF IInv
<1>2. reg' = [reg EXCEPT ![e].refs = FdRefs(k)]
  BY <1>0 DEF pageref_fd
<1>3. fd'[e][reg[e].slot] = k /\ FdRefs(k)' = FdRefs(k)
  BY <1>0, CountsSame DEF pageref_fd, memVars
<1>4. pc[e] = "pageref_fd" /\ k # "none"
  BY <1>0 DEF pageref_fd, At, IInv, Good, Ends, InLoop, Checking
<1>5. reg' \in [Env -> RegType] /\ \A f \in Env \ {e} : reg'[f] = reg[f]
  BY <1>1, <1>2, RegTypes, RegsSet DEF IInv
<1>6. reg'[e].slot = reg[e].slot /\ reg'[e].refs = FdRefs(k)
  BY <1>2, RegTypes DEF IInv, RegType
<1>7. Moves(e) /\ pc'[e] = "pageref_p"
  BY <1>5, AtTypes, GotoTypes DEF pageref_fd, IInv, Moves, Label, Checking
<1>8. fd'[e][reg'[e].slot] = k
  BY <1>3, <1>6
<1>9. Counter(e)' /\ Ends(e)' /\ Forks(e)'
  BY <1>4, <1>7, <1>8 DEF Counter, Ends, Forks, InLoop, Checking
<1>10. Counts(e)'
  BY <1>3, <1>6, <1>7, <1>8 DEF Counts
<1> QED
  BY <1>7, <1>9, <1>10, LocalStep, PipeSame DEF pageref_fd, IInv

(* Reading the pipe's count keeps the invariant: the two are compared with *)
(* nothing in between, or the check knows better.                          *)
LEMMA PagerefPInv == ASSUME IInv, NEW e \in Env, pageref_p(e) PROVE IInv'
<1>0. PICK k : k = fd[e][reg[e].slot]
  OBVIOUS
<1> DEFINE v == reg[e].refs = IF data[e][reg[e].slot] THEN DataRefs ELSE 0
<1>1. v \in BOOLEAN /\ reg' = [reg EXCEPT ![e].same = v]
  BY DEF pageref_p
<1>2. fd'[e][reg[e].slot] = k /\ FdRefs(k)' = FdRefs(k) /\ DataRefs' = DataRefs
  BY <1>0, CountsSame DEF pageref_p, memVars
<1>3. pc[e] = "pageref_p" /\ k # "none"
  BY <1>0 DEF pageref_p, At, IInv, Good, Ends, InLoop, Checking
<1>4. ~ reg[e].moved /\ v => ForkMayFail \/ FdRefs(k) = DataRefs
  <2>1. ForkMayFail \/ data[e][reg[e].slot]
    <3>1. life[e] = "alive" /\ reg[e].slot \in Slot
      <4>1. reg[e].slot \in Slot
        BY RegTypes DEF IInv, RegType
      <4>2. life[e] = "alive"
        BY <1>3 DEF IInv, Good, Exists
      <4> QED
        BY <4>1, <4>2
    <3> QED
      BY <1>0, <1>3, <3>1 DEF IInv, Good, Backed
  <2>2. ~ reg[e].moved => reg[e].refs = FdRefs(k)
    BY <1>0, <1>3 DEF IInv, Good, Counts, pageref_p, At
  <2> QED
    BY <2>1, <2>2
<1> HIDE DEF v
<1>5. reg' \in [Env -> RegType] /\ \A f \in Env \ {e} : reg'[f] = reg[f]
  BY <1>1, RegTypes, RegsSet DEF IInv
<1>6. reg'[e].slot = reg[e].slot /\ reg'[e].moved = reg[e].moved /\ reg'[e].same = v
  BY <1>1, RegTypes DEF IInv, RegType
<1>7. Moves(e) /\ pc'[e] = "again"
  BY <1>5, AtTypes, GotoTypes DEF pageref_p, IInv, Moves, Label, Checking
<1>8. fd'[e][reg'[e].slot] = k
  BY <1>2, <1>6
<1>9. Counter(e)' /\ Ends(e)' /\ Forks(e)'
  BY <1>3, <1>7, <1>8 DEF Counter, Ends, Forks, InLoop, Checking
<1>10. Counts(e)'
  BY <1>2, <1>4, <1>6, <1>7, <1>8 DEF Counts
<1> QED
  BY <1>7, <1>9, <1>10, LocalStep, PipeSame DEF pageref_p, IInv

(* The end of the check keeps the invariant.                               *)
LEMMA AgainInv == ASSUME IInv, NEW e \in Env, again(e) PROVE IInv'
<1>1. CASE Return(e)
  BY <1>1, ReturnStep, LocalStep, PipeSame DEF again, IInv
<1>2. ASSUME NEW l \in {"runs", "yield"}, Goto(e, l),
             \/ reg' = [reg EXCEPT ![e].moved = FALSE, ![e].refs = 0, ![e].same = FALSE]
             \/ reg' = [reg EXCEPT ![e].refs = 0, ![e].same = FALSE]
      PROVE  IInv'
  <2>1. PICK r0 \in [Env -> RegType] :
            /\ reg' = [[r0 EXCEPT ![e].refs = 0] EXCEPT ![e].same = FALSE]
            /\ r0[e].slot = reg[e].slot /\ \A f \in Env \ {e} : r0[f] = reg[f]
    <3>1. CASE reg' = [reg EXCEPT ![e].refs = 0, ![e].same = FALSE]
      BY <3>1, RegTypes DEF IInv
    <3>2. CASE reg' = [reg EXCEPT ![e].moved = FALSE, ![e].refs = 0, ![e].same = FALSE]
      <4> DEFINE r0 == [reg EXCEPT ![e].moved = FALSE]
      <4>1. r0 \in [Env -> RegType] /\ \A f \in Env \ {e} : r0[f] = reg[f]
        BY RegTypes, RegsSet DEF IInv
      <4>2. r0[e].slot = reg[e].slot
        BY RegTypes DEF IInv, RegType
      <4>3. reg' = [[r0 EXCEPT ![e].refs = 0] EXCEPT ![e].same = FALSE]
        BY <3>2
      <4> HIDE DEF r0
      <4> QED
        BY <4>1, <4>2, <4>3
    <3> QED
      BY <1>2, <3>1, <3>2
  <2> DEFINE r1 == [r0 EXCEPT ![e].refs = 0]
  <2>2. r1 \in [Env -> RegType] /\ \A f \in Env \ {e} : r1[f] = r0[f]
    <3>1. \A n \in Nat : [r0 EXCEPT ![e].refs = n] \in [Env -> RegType]
      BY ONLY r0 \in [Env -> RegType], e \in Env, RegsSet
    <3> QED
      BY ONLY r0 \in [Env -> RegType], <3>1
  <2>3. r1[e].slot = r0[e].slot
    <3>1. r1[e] = [r0[e] EXCEPT !.refs = 0] /\ r0[e] \in RegType
      BY ONLY r0 \in [Env -> RegType], e \in Env
    <3> QED
      BY ONLY <3>1 DEF RegType
  <2>4. reg' = [r1 EXCEPT ![e].same = FALSE]
    BY ONLY <2>1
  <2> HIDE DEF r1
  <2>5. reg' \in [Env -> RegType] /\ \A f \in Env \ {e} : reg'[f] = reg[f]
    <3>1. reg' \in [Env -> RegType]
      BY <2>2, <2>4, RegsSet
    <3> QED
      BY <3>1, <2>1, <2>2, <2>4
  <2>6. reg'[e].slot = reg[e].slot
    BY <2>1, <2>2, <2>3, <2>4 DEF RegType
  <2>7. Moves(e) /\ pc'[e] = l /\ pc[e] = "again"
    BY <1>2, <2>5, AtTypes, GotoTypes DEF again, IInv, Moves, Label
  <2>8. Counter(e)' /\ Ends(e)' /\ Forks(e)' /\ Counts(e)'
    BY <2>6, <2>7, LoopStep DEF InLoop, Checking, again
  <2> QED
    BY <2>7, <2>8, LocalStep, PipeSame DEF again, IInv
<1> QED
  BY <1>1, <1>2 DEF again

(***************************************************************************)
(* Starting an operation.                                                  *)
(***************************************************************************)

(* What the library knows when it is entered.                              *)
LEMMA EnterTypes ==
    ASSUME IInv, NEW e \in Env, NEW l \in Label, NEW o \in Ops, NEW s \in Slot,
           NEW a \in Nat \cup Env, Enter(e, l, o, s, a)
    PROVE  /\ cur = e /\ cur' = cur /\ pc[e] = "user" /\ pc'[e] = l /\ PipeTypes
           /\ slice' \in 0 .. Slice /\ pc' \in [Env -> Label] /\ reg' \in [Env -> RegType]
           /\ \A f \in Env \ {e} : pc'[f] = pc[f] /\ reg'[f] = reg[f]
           /\ reg'[e].op = o /\ reg'[e].slot = s /\ reg'[e].arg = a /\ reg'[e].i = 0
<1> DEFINE r1 == [reg EXCEPT ![e].op = o]
           r2 == [r1 EXCEPT ![e].slot = s]
<1>1. reg' = [r2 EXCEPT ![e].arg = a]
  BY RegTypes DEF IInv, Enter
<1>2. r1 \in [Env -> RegType] /\ \A f \in Env \ {e} : r1[f] = reg[f]
  BY RegTypes, RegsSet DEF IInv
<1>3. r1[e].op = o /\ r1[e].i = reg[e].i
  BY RegTypes DEF IInv, RegType
<1> HIDE DEF r1
<1>4. r2 \in [Env -> RegType] /\ \A f \in Env \ {e} : r2[f] = reg[f]
  BY <1>2, RegsSet
<1>5. r2[e].op = o /\ r2[e].slot = s /\ r2[e].i = reg[e].i
  BY <1>2, <1>3 DEF RegType
<1> HIDE DEF r2
<1>6. reg' \in [Env -> RegType] /\ \A f \in Env \ {e} : reg'[f] = reg[f]
  BY <1>1, <1>4, RegsSet
<1>7. reg'[e].op = o /\ reg'[e].slot = s /\ reg'[e].arg = a /\ reg'[e].i = reg[e].i
  <2>1. reg'[e] = [r2[e] EXCEPT !.arg = a] /\ r2[e] \in RegType
    BY ONLY <1>1, <1>4, e \in Env
  <2> QED
    BY ONLY <1>5, <2>1 DEF RegType
<1>8. cur = e /\ pc[e] = "user" /\ slice' \in 0 .. Slice
  BY AtTypes DEF IInv, Enter
<1>9. reg[e].i = 0
  BY <1>8 DEF IInv, Good, Counter
<1> QED
  BY <1>6, <1>7, <1>8, <1>9, GotoTypes, PipeSame DEF IInv, Enter

(* Entering the library with an open descriptor keeps the invariant.       *)
LEMMA LookInv ==
    ASSUME IInv, NEW e \in Env, NEW s \in Slot, fd[e][s] # "none", UNCHANGED <<memVars, envVars>>,
           NEW l \in {"runs", "room"}, NEW o \in Ops, NEW a \in Nat, Enter(e, l, o, s, a)
    PROVE  IInv'
<1>1. Moves(e) /\ PipeTypes /\ pc'[e] = l /\ reg'[e].slot = s
  BY EnterTypes DEF Moves, Label
<1>2. Counter(e)' /\ Ends(e)' /\ Forks(e)' /\ Counts(e)'
  BY <1>1 DEF memVars, Counter, Ends, Forks, Counts, InLoop, Checking
<1> QED
  BY <1>1, <1>2, LocalStep

(* Starting pipeisclosed keeps the invariant.                              *)
LEMMA PipeIsClosedInv == ASSUME IInv, NEW e \in Env, NEW s \in Slot, pipeisclosed(e, s) PROVE IInv'
BY LookInv DEF pipeisclosed, Ops

(* Starting a read keeps the invariant.                                    *)
LEMMA ReadInv ==
    ASSUME IInv, NEW e \in Env, NEW s \in Slot, NEW n \in Nat, read(e, s, n)
    PROVE  IInv'
BY LookInv DEF read, Ops

(* Starting a write keeps the invariant.                                   *)
LEMMA WriteInv ==
    ASSUME IInv, NEW e \in Env, NEW s \in Slot, NEW n \in Nat, write(e, s, n)
    PROVE  IInv'
BY LookInv DEF write, Ops

(* Starting a close keeps the invariant.                                   *)
LEMMA CloseInv == ASSUME IInv, NEW e \in Env, NEW s \in Slot, close(e, s) PROVE IInv'
<1>1. s \in Nat \cup Env
  BY ConstantTypes
<1>2. Moves(e) /\ PipeTypes /\ pc'[e] = "close_fd" /\ reg'[e].op = "close" /\ reg'[e].arg = s
  <2>1. Enter(e, "close_fd", "close", s, s) /\ UNCHANGED envVars
    BY DEF close
  <2>2. "close_fd" \in Label /\ "close" \in Ops
    BY DEF Label, Ops
  <2>3. /\ cur = e /\ cur' = cur /\ pc'[e] = "close_fd" /\ PipeTypes
        /\ slice' \in 0 .. Slice /\ pc' \in [Env -> Label] /\ reg' \in [Env -> RegType]
        /\ \A f \in Env \ {e} : pc'[f] = pc[f] /\ reg'[f] = reg[f]
        /\ reg'[e].op = "close" /\ reg'[e].arg = s
    BY ONLY IInv, e \in Env, s \in Slot, <1>1, <2>1, <2>2, EnterTypes
  <2> QED
    BY ONLY <2>1, <2>3 DEF Moves
<1>3. Counter(e)' /\ Ends(e)' /\ Forks(e)' /\ Counts(e)'
  <2>1. pc'[e] = "close_fd"
    BY <1>2
  <2>2. Counter(e)' /\ Forks(e)' /\ Counts(e)'
    BY ONLY <2>1 DEF Counter, Forks, Counts
  <2>3. Ends(e)'
    BY ONLY <1>2, <2>1 DEF Ends, InLoop, Checking
  <2> QED
    BY <2>2, <2>3
<1> QED
  BY <1>2, <1>3, LocalStep DEF close

(* Starting a dup keeps the invariant.                                     *)
LEMMA DupInv ==
    ASSUME IInv, NEW e \in Env, NEW s \in Slot, NEW new \in Slot, dup(e, s, new)
    PROVE  IInv'
<1>1. new \in Nat \cup Env
  BY ConstantTypes
<1>2. PICK l \in {"dup_data", "close_fd"} :
        Enter(e, l, "dup", s, new) /\ (l = "dup_data" => fd[e][new] = "none")
  BY DEF dup
<1>3. /\ Moves(e) /\ PipeTypes /\ pc'[e] = l
      /\ reg'[e].op = "dup" /\ reg'[e].slot = s /\ reg'[e].arg = new
  BY <1>1, <1>2, EnterTypes DEF dup, Moves, Label, Ops
<1>4. s # new /\ fd'[e][s] # "none" /\ fd' = fd /\ data' = data
  BY DEF dup, memVars
<1>5. Counter(e)' /\ Ends(e)' /\ Forks(e)' /\ Counts(e)'
  BY <1>2, <1>3, <1>4 DEF Counter, Ends, Forks, Counts, InLoop, Checking
<1> QED
  BY <1>3, <1>5, LocalStep DEF dup

(***************************************************************************)
(* Opening and closing descriptors.                                        *)
(***************************************************************************)

Kinds == {"rd", "wr", "none"}

(* A step of e that maps and unmaps pages where e may.                     *)
LEMMA RowStep ==
    ASSUME IInv, NEW e \in Env, Moves(e), PipeTypes,
           fd' \in [Env -> [Slot -> Kinds]], data' \in [Env -> [Slot -> BOOLEAN]],
           \A f \in Env \ Mine(e) : fd'[f] = fd[f] /\ data'[f] = data[f],
           Counter(e)', Backed(e)', Ends(e)', Forks(e)', Counts(e)'
    PROVE  IInv'
<1>1. PipeTypeOK'
  BY DEF IInv, PipeTypeOK, Moves, PipeTypes, envVars, RegType, Ops, Kinds
<1>2. Good(e)'
  <2>1. life[e] = "alive" /\ life' = life
    BY PipeAssumption DEF IInv, Moves, envVars, PipeAssumption
  <2> QED
    BY <2>1 DEF Good, Exists
<1> QED
  BY <1>1, <1>2, OwnStep DEF Moves, envVars

(* What a step of e leaves alone of its own rows.                          *)
LEMMA RowTypes ==
    ASSUME IInv, NEW e \in Env
    PROVE  /\ fd \in [Env -> [Slot -> Kinds]] /\ data \in [Env -> [Slot -> BOOLEAN]]
           /\ reg[e].slot \in Slot
           /\ cur = e => life[e] = "alive" /\ Backed(e)
<1>1. reg[e].slot \in Slot
  BY RegTypes DEF IInv, RegType
<1> QED
  BY <1>1, PipeAssumption DEF IInv, PipeTypeOK, Kinds, Good, PipeAssumption

(* Making the pipe keeps the invariant.                                    *)
LEMMA PipeInv == ASSUME IInv, NEW e \in Env, pipe(e) PROVE IInv'
<1>1. Moves(e) /\ pc'[e] = "user" /\ reg'[e].i = 0
  <2>1. cur = e /\ pc[e] = "user" /\ slice' \in 0 .. Slice
    BY AtTypes DEF pipe, IInv
  <2>2. reg[e].i = 0
    BY <2>1 DEF IInv, Good, Counter
  <2> QED
    BY <2>1, <2>2, RegTypes DEF pipe, IInv, Moves, PipeTypeOK
<1>2. PipeTypes
  BY PipeAssumption, ConstantTypes DEF pipe, PipeTypes, PipeAssumption, NoByte
<1>3. /\ fd' \in [Env -> [Slot -> Kinds]] /\ data' \in [Env -> [Slot -> BOOLEAN]]
      /\ \A f \in Env \ Mine(e) : fd'[f] = fd[f] /\ data'[f] = data[f]
  BY ConstantTypes, RowTypes DEF pipe, Kinds, Mine
<1>4. Backed(e)'
  BY ConstantTypes, RowTypes DEF pipe, Backed
<1>5. Counter(e)' /\ Ends(e)' /\ Forks(e)' /\ Counts(e)'
  BY <1>1 DEF Counter, Ends, Forks, Counts, InLoop, Checking
<1> QED
  BY <1>1, <1>2, <1>3, <1>4, <1>5, RowStep

(* Unmapping the descriptor keeps the invariant.                           *)
LEMMA CloseFdInv == ASSUME IInv, NEW e \in Env, close_fd(e) PROVE IInv'
<1>1. Moves(e) /\ pc[e] = "close_fd" /\ pc'[e] = "close_data" /\ reg' = reg
  BY AtTypes, GotoTypes, RegTypes DEF close_fd, IInv, Moves, Label
<1>2. /\ reg[e].arg \in Slot /\ reg[e].op \in {"close", "dup"}
      /\ reg[e].op = "dup" => reg[e].slot # reg[e].arg /\ fd[e][reg[e].slot] # "none"
  BY <1>1 DEF IInv, Good, Ends
<1>3. /\ fd' \in [Env -> [Slot -> Kinds]] /\ data' = data
      /\ \A f \in Env \ Mine(e) : fd'[f] = fd[f]
  BY <1>2, RowTypes DEF close_fd, Kinds, Mine
<1>4. fd'[e] = [fd[e] EXCEPT ![reg[e].arg] = "none"]
  BY RowTypes DEF close_fd
<1>5. Backed(e)'
  BY <1>1, <1>2, <1>3, <1>4, RowTypes DEF Backed, Moves, envVars
<1>6. /\ fd'[e][reg[e].arg] = "none"
      /\ reg[e].op = "dup" => fd'[e][reg[e].slot] # "none"
  BY <1>2, <1>4, RowTypes
<1>7. Counter(e)' /\ Ends(e)' /\ Forks(e)' /\ Counts(e)'
  BY <1>1, <1>2, <1>6 DEF Counter, Ends, Forks, Counts, InLoop, Checking
<1> QED
  BY <1>1, <1>3, <1>5, <1>7, RowStep, RowTypes, PipeSame DEF close_fd, IInv

(* Unmapping the pipe keeps the invariant: its descriptor is gone already. *)
LEMMA CloseDataInv == ASSUME IInv, NEW e \in Env, close_data(e) PROVE IInv'
<1>1. cur = e /\ pc[e] = "close_data" /\ slice' \in 0 .. Slice
  BY AtTypes DEF close_data, IInv
<1>2. /\ reg[e].arg \in Slot /\ fd[e][reg[e].arg] = "none"
      /\ reg[e].op = "dup" => reg[e].slot # reg[e].arg /\ fd[e][reg[e].slot] # "none"
  BY <1>1 DEF IInv, Good, Ends
<1>3. /\ data' \in [Env -> [Slot -> BOOLEAN]] /\ fd' = fd
      /\ \A f \in Env \ Mine(e) : data'[f] = data[f]
  BY <1>2, RowTypes DEF close_data, Mine
<1>4. Backed(e)'
  BY <1>1, <1>2, <1>3, RowTypes DEF close_data, Backed, envVars
<1>5. Moves(e) /\ Counter(e)' /\ Ends(e)' /\ Forks(e)' /\ Counts(e)'
  <2>1. CASE Return(e)
    BY <2>1, ReturnStep DEF close_data
  <2>2. CASE reg[e].op = "dup" /\ Goto(e, "dup_data") /\ reg' = reg
    <3>1. Moves(e) /\ pc'[e] = "dup_data"
      BY <2>2, <1>1, GotoTypes, RegTypes DEF close_data, IInv, Moves, Label
    <3> QED
      BY <2>2, <3>1, <1>2, <1>3 DEF Counter, Ends, Forks, Counts, InLoop, Checking
  <2> QED
    BY <2>1, <2>2 DEF close_data
<1> QED
  BY <1>3, <1>4, <1>5, RowStep, RowTypes, PipeSame DEF close_data, IInv

(* Mapping the pipe for a new descriptor keeps the invariant.              *)
LEMMA DupDataInv == ASSUME IInv, NEW e \in Env, dup_data(e) PROVE IInv'
<1>1. cur = e /\ pc[e] = "dup_data" /\ slice' \in 0 .. Slice
  BY AtTypes DEF dup_data, IInv
<1>2. /\ reg[e].arg \in Slot /\ reg[e].op = "dup" /\ fd[e][reg[e].arg] = "none"
      /\ reg[e].slot # reg[e].arg /\ fd[e][reg[e].slot] # "none"
  BY <1>1 DEF IInv, Good, Ends
<1>3. data[e][reg[e].slot] \in BOOLEAN /\ (ForkMayFail \/ data[e][reg[e].slot] = TRUE)
  BY <1>1, <1>2, RowTypes DEF Backed
<1>4. CASE Return(e) /\ data' = data
  BY <1>4, ReturnStep, LocalStep, PipeSame DEF dup_data, IInv, memVars
<1>5. CASE /\ data' = [data EXCEPT ![e][reg[e].arg] = data[e][reg[e].slot]]
           /\ Goto(e, "dup_fd") /\ reg' = reg
  <2>1. /\ data' \in [Env -> [Slot -> BOOLEAN]] /\ fd' = fd
        /\ \A f \in Env \ Mine(e) : data'[f] = data[f]
    BY <1>2, <1>3, <1>5, RowTypes DEF dup_data, Mine
  <2>2. ForkMayFail \/ data'[e] = [data[e] EXCEPT ![reg[e].arg] = TRUE]
    BY <1>3, <1>5, RowTypes
  <2>3. Backed(e)' /\ (ForkMayFail \/ data'[e][reg[e].arg])
    BY <1>1, <1>2, <2>1, <2>2, RowTypes DEF Backed, dup_data, envVars
  <2>4. Moves(e) /\ pc'[e] = "dup_fd"
    BY <1>1, <1>5, GotoTypes, RegTypes DEF dup_data, IInv, Moves, Label
  <2>5. Counter(e)' /\ Ends(e)' /\ Forks(e)' /\ Counts(e)'
    BY <1>2, <1>5, <2>1, <2>3, <2>4 DEF Counter, Ends, Forks, Counts, InLoop, Checking
  <2> QED
    BY <2>1, <2>3, <2>4, <2>5, RowStep, RowTypes, PipeSame DEF dup_data, IInv
<1> QED
  BY <1>4, <1>5 DEF dup_data

(* Mapping the new descriptor keeps the invariant: the pipe is there       *)
(* already.                                                                *)
LEMMA DupFdInv == ASSUME IInv, NEW e \in Env, dup_fd(e) PROVE IInv'
<1>1. cur = e /\ pc[e] = "dup_fd"
  BY AtTypes DEF dup_fd, IInv
<1>2. reg[e].arg \in Slot /\ (ForkMayFail \/ data[e][reg[e].arg])
  BY <1>1 DEF IInv, Good, Ends
<1>3. /\ fd' \in [Env -> [Slot -> Kinds]] /\ data' = data
      /\ \A f \in Env \ Mine(e) : fd'[f] = fd[f]
  BY <1>2, RowTypes DEF dup_fd, Mine
<1>4. Backed(e)'
  BY <1>1, <1>2, <1>3, RowTypes DEF dup_fd, Backed, envVars
<1>5. Moves(e) /\ Counter(e)' /\ Ends(e)' /\ Forks(e)' /\ Counts(e)'
  BY ReturnStep DEF dup_fd
<1> QED
  BY <1>3, <1>4, <1>5, RowStep, RowTypes, PipeSame DEF dup_fd, IInv

(***************************************************************************)
(* Forking.                                                                *)
(***************************************************************************)

(* Starting a fork keeps the invariant.                                    *)
LEMMA ForkInv == ASSUME IInv, NEW e \in Env, NEW c \in Env, fork(e, c) PROVE IInv'
<1>1. /\ cur = e /\ cur' = cur /\ PipeTypes /\ slice' \in 0 .. Slice
      /\ pc' \in [Env -> Label] /\ pc'[e] = "fork_fd"
      /\ reg' \in [Env -> RegType] /\ reg'[e].arg = c /\ reg'[e].i = 0
      /\ \A f \in Env \ {e} : pc'[f] = pc[f] /\ reg'[f] = reg[f]
  BY ConstantTypes, EnterTypes DEF fork, Label, Ops
<1>2. fd' = fd /\ data' = data
  BY DEF fork, memVars
<1>3. PipeTypeOK'
  BY <1>1, <1>2 DEF fork, IInv, PipeTypeOK, PipeTypes, RegType, Ops
<1>4. life[e] = "alive" /\ life[c] = "none" /\ c # e
  BY <1>1, PipeAssumption DEF fork, IInv, PipeAssumption
<1>5. /\ life'[c] = "making" /\ parent'[c] = e
      /\ \A f \in Env \ {c} : life'[f] = life[f] /\ parent'[f] = parent[f]
  BY DEF fork, IInv, PipeTypeOK
<1>6. cur' # NoEnv => life'[cur'] = "alive"
  BY <1>1, <1>4, <1>5
<1>7. Good(e)'
  <2>1. 0 \in Slot
    BY ConstantTypes
  <2>2. \A s \in Slot : ~ (s < 0)
    BY DEF Slot
  <2>3. Counter(e)' /\ Ends(e)' /\ Counts(e)'
    BY <1>1, <2>1 DEF Counter, Ends, Counts, InLoop, Checking
  <2>4. Exists(e)' /\ Backed(e)'
    BY <1>2, <1>4, <1>5 DEF IInv, Good, Exists, Backed
  <2>5. Forks(e)'
    BY <1>1, <1>5, <2>2 DEF Forks
  <2> QED
    BY <2>3, <2>4, <2>5 DEF Good
<1>8. Good(c)'
  <2>1. pc[c] = "user" /\ reg[c].i = 0
    BY <1>4 DEF IInv, Good, Exists, Counter
  <2> QED
    BY <2>1, <1>1, <1>4, <1>5
    DEF Good, Counter, Exists, Backed, Ends, Forks, Counts, InLoop, Checking
<1>9. ASSUME NEW f \in Env \ {e, c} PROVE Good(f)'
  <2>1. /\ pc'[f] = pc[f] /\ reg'[f] = reg[f] /\ life'[f] = life[f] /\ Good(f)
    BY <1>1, <1>5, <1>9 DEF IInv
  <2>2. Counter(f)' /\ Exists(f)' /\ Backed(f)' /\ Ends(f)'
    BY <2>1, <1>2 DEF Good, Counter, Exists, Backed, Ends
  <2>3. Forks(f)'
    BY <2>1, <1>2, <1>4, <1>5 DEF Good, Forks
  <2>4. Counts(f)'
    BY <1>1, <1>9 DEF Counts
  <2> QED
    BY <2>2, <2>3, <2>4 DEF Good
<1> QED
  BY <1>3, <1>6, <1>7, <1>8, <1>9 DEF IInv

(* Forks speaks of the child's rows as they are filled, from below.        *)
LEMMA ForkFdInv == ASSUME IInv, NEW e \in Env, fork_fd(e) PROVE IInv'
<1>1. cur = e /\ pc[e] = "fork_fd" /\ slice' \in 0 .. Slice
  BY AtTypes DEF fork_fd, IInv
<1>2. PICK c \in Env, i \in Slot :
        /\ reg[e].arg = c /\ reg[e].i = i /\ life[c] = "making" /\ parent[c] = e
        /\ ForkMayFail \/ \A s \in Slot : s < i => fd[c][s] = fd[e][s]
  BY <1>1 DEF IInv, Good, Forks, Counter
<1>3. c # e /\ e \in Mine(e) /\ c \in Mine(e)
  BY <1>1, <1>2, RowTypes DEF Mine
<1>4. /\ fd' \in [Env -> [Slot -> Kinds]] /\ data' = data
      /\ \A f \in Env \ {c} : fd'[f] = fd[f]
      /\ ForkMayFail \/ fd'[c] = [fd[c] EXCEPT ![i] = fd[e][i]]
  <2>1. \/ fd' = [fd EXCEPT ![c][i] = fd[e][i]]
        \/ ForkMayFail /\ fd' = fd
    BY <1>2 DEF fork_fd
  <2>2. fd \in [Env -> [Slot -> Kinds]] /\ fd[e][i] \in Kinds /\ data' = data
    BY RowTypes DEF fork_fd
  <2> QED
    BY <2>1, <2>2
<1>5. fd'[e] = fd[e]
  BY <1>3, <1>4
<1>6. ForkMayFail \/ \A s \in Slot : s < i + 1 => fd'[c][s] = fd'[e][s]
  <2>1. fd[c] \in [Slot -> Kinds] /\ \A s \in Slot : s < i + 1 => s < i \/ s = i
    BY RowTypes DEF Slot
  <2> QED
    BY <1>2, <1>4, <1>5, <2>1
<1>7. PICK l \in {"fork_fd", "fork_data"}, j \in Slot :
        /\ pc' \in [Env -> Label] /\ pc'[e] = l
        /\ reg' = [reg EXCEPT ![e].i = j]
        /\ \A f \in Env \ {e} : pc'[f] = pc[f]
        /\ (l = "fork_fd" /\ j = i + 1) \/ (l = "fork_data" /\ j = 0 /\ i + 1 = NSlot)
  <2>1. CASE i + 1 < NSlot /\ reg' = [reg EXCEPT ![e].i = i + 1] /\ pc' = pc
    <3>1. i + 1 \in Slot
      BY <2>1, PipeAssumption DEF Slot, PipeAssumption
    <3> QED
      BY <1>1, <2>1, <3>1 DEF IInv, PipeTypeOK
  <2>2. CASE i + 1 = NSlot /\ reg' = [reg EXCEPT ![e].i = 0] /\ Goto(e, "fork_data")
    <3>1. "fork_data" \in Label /\ 0 \in Slot
      BY ConstantTypes DEF Label
    <3> QED
      BY <2>2, <3>1, GotoTypes DEF IInv
  <2> QED
    BY <1>2, <2>1, <2>2, RegTypes DEF fork_fd, IInv
<1>8. reg' \in [Env -> RegType] /\ \A f \in Env \ {e} : reg'[f] = reg[f]
  <2>1. j \in Nat
    BY ConstantTypes
  <2> QED
    BY <1>7, <2>1, RegsSet, RegTypes DEF IInv
<1>9. reg'[e].i = j /\ reg'[e].arg = c
  BY <1>2, <1>7, RegTypes DEF IInv, RegType
<1>10. Moves(e)
  BY <1>1, <1>7, <1>8 DEF Moves, fork_fd
<1>11. Backed(e)'
  BY <1>1, <1>4, <1>5, RowTypes DEF Backed, fork_fd, envVars
<1>12. Counter(e)' /\ Ends(e)' /\ Counts(e)'
  BY <1>7, <1>9 DEF Counter, Ends, Counts, InLoop, Checking
<1>13. Forks(e)'
  <2>1. life'[c] = "making" /\ parent'[c] = e
    BY <1>2 DEF fork_fd, envVars
  <2>2. CASE l = "fork_fd" /\ j = i + 1
    BY <2>1, <2>2, <1>6, <1>7, <1>9 DEF Forks
  <2>3. CASE l = "fork_data" /\ j = 0 /\ i + 1 = NSlot
    <3>1. \A s \in Slot : s < i + 1 /\ ~ (s < 0)
      BY <2>3, PipeAssumption DEF Slot, PipeAssumption
    <3> QED
      BY <2>1, <2>3, <3>1, <1>6, <1>7, <1>9 DEF Forks
  <2> QED
    BY <1>7, <2>2, <2>3
<1> QED
  BY <1>3, <1>4, <1>10, <1>11, <1>12, <1>13, RowStep, RowTypes, PipeSame DEF fork_fd, IInv

(* The same for the pipe's pages.                                          *)
LEMMA ForkDataInv == ASSUME IInv, NEW e \in Env, fork_data(e) PROVE IInv'
<1>1. cur = e /\ pc[e] = "fork_data" /\ slice' \in 0 .. Slice
  BY AtTypes DEF fork_data, IInv
<1>2. PICK c \in Env, i \in Slot :
        /\ reg[e].arg = c /\ reg[e].i = i /\ life[c] = "making" /\ parent[c] = e
        /\ ForkMayFail \/ \A s \in Slot :
             fd[c][s] = fd[e][s] /\ (s < i => data[c][s] = data[e][s])
  BY <1>1 DEF IInv, Good, Forks, Counter
<1>3. c # e /\ e \in Mine(e) /\ c \in Mine(e)
  BY <1>1, <1>2, RowTypes DEF Mine
<1>4. /\ data' \in [Env -> [Slot -> BOOLEAN]] /\ fd' = fd
      /\ \A f \in Env \ {c} : data'[f] = data[f]
      /\ ForkMayFail \/ data'[c] = [data[c] EXCEPT ![i] = data[e][i]]
  <2>1. \/ data' = [data EXCEPT ![c][i] = data[e][i]]
        \/ ForkMayFail /\ data' = data
    BY <1>2 DEF fork_data
  <2>2. data \in [Env -> [Slot -> BOOLEAN]] /\ data[e][i] \in BOOLEAN /\ fd' = fd
    BY RowTypes DEF fork_data
  <2> QED
    BY <2>1, <2>2
<1>5. data'[e] = data[e]
  BY <1>3, <1>4
<1>6. ForkMayFail \/ \A s \in Slot : 
            fd'[c][s] = fd'[e][s] /\ (s < i + 1 => data'[c][s] = data'[e][s])
  <2>1. data[c] \in [Slot -> BOOLEAN] /\ \A s \in Slot : s < i + 1 => s < i \/ s = i
    BY RowTypes DEF Slot
  <2> QED
    BY <1>2, <1>4, <1>5, <2>1
<1>7. PICK l \in {"fork_data", "fork_run"}, j \in Slot :
        /\ pc' \in [Env -> Label] /\ pc'[e] = l
        /\ reg' = [reg EXCEPT ![e].i = j]
        /\ \A f \in Env \ {e} : pc'[f] = pc[f]
        /\ (l = "fork_data" /\ j = i + 1) \/ (l = "fork_run" /\ j = 0 /\ i + 1 = NSlot)
  <2>1. CASE i + 1 < NSlot /\ reg' = [reg EXCEPT ![e].i = i + 1] /\ pc' = pc
    <3>1. i + 1 \in Slot
      BY <2>1, PipeAssumption DEF Slot, PipeAssumption
    <3> QED
      BY <1>1, <2>1, <3>1 DEF IInv, PipeTypeOK
  <2>2. CASE i + 1 = NSlot /\ reg' = [reg EXCEPT ![e].i = 0] /\ Goto(e, "fork_run")
    <3>1. "fork_run" \in Label /\ 0 \in Slot
      BY ConstantTypes DEF Label
    <3> QED
      BY <2>2, <3>1, GotoTypes DEF IInv
  <2> QED
    BY <1>2, <2>1, <2>2, RegTypes DEF fork_data, IInv
<1>8. reg' \in [Env -> RegType] /\ \A f \in Env \ {e} : reg'[f] = reg[f]
  <2>1. j \in Nat
    BY ConstantTypes
  <2> QED
    BY <1>7, <2>1, RegsSet, RegTypes DEF IInv
<1>9. reg'[e].i = j /\ reg'[e].arg = c
  BY <1>2, <1>7, RegTypes DEF IInv, RegType
<1>10. Moves(e)
  BY <1>1, <1>7, <1>8 DEF Moves, fork_data
<1>11. Backed(e)'
  BY <1>1, <1>4, <1>5, RowTypes DEF Backed, fork_data, envVars
<1>12. Counter(e)' /\ Ends(e)' /\ Counts(e)'
  BY <1>7, <1>9 DEF Counter, Ends, Counts, InLoop, Checking
<1>13. Forks(e)'
  <2>1. life'[c] = "making" /\ parent'[c] = e
    BY <1>2 DEF fork_data, envVars
  <2>2. CASE l = "fork_data" /\ j = i + 1
    BY <2>1, <2>2, <1>6, <1>7, <1>9 DEF Forks
  <2>3. CASE l = "fork_run" /\ j = 0 /\ i + 1 = NSlot
    <3>1. \A s \in Slot : s < i + 1 /\ ~ (s < 0)
      BY <2>3, PipeAssumption DEF Slot, PipeAssumption
    <3> QED
      BY <2>1, <2>3, <3>1, <1>6, <1>7, <1>9 DEF Forks
  <2> QED
    BY <1>7, <2>2, <2>3
<1> QED
  BY <1>3, <1>4, <1>10, <1>11, <1>12, <1>13, RowStep, RowTypes, PipeSame DEF fork_data, IInv

(* The child is complete when it is let run.                               *)
LEMMA ForkRunInv == ASSUME IInv, NEW e \in Env, fork_run(e) PROVE IInv'
<1>1. cur = e /\ pc[e] = "fork_run" /\ slice' \in 0 .. Slice
  BY AtTypes DEF fork_run, IInv
<1>2. PICK c \in Env :
        /\ reg[e].arg = c /\ life[c] = "making" /\ parent[c] = e
        /\ ForkMayFail \/ \A s \in Slot : fd[c][s] = fd[e][s] /\ data[c][s] = data[e][s]
  BY <1>1 DEF IInv, Good, Forks
<1>3. /\ pc' \in [Env -> Label] /\ pc'[e] = "user"
      /\ reg' \in [Env -> RegType] /\ reg'[e].i = 0
      /\ \A f \in Env \ {e} : pc'[f] = pc[f] /\ reg'[f] = reg[f]
  BY ReturnTypes DEF fork_run, IInv
<1>4. fd' = fd /\ data' = data /\ parent' = parent /\ cur' = cur
  BY DEF fork_run, memVars
<1>5. /\ life' \in [Env -> {"none", "making", "alive"}] /\ life'[c] = "alive"
      /\ \A f \in Env \ {c} : life'[f] = life[f]
  BY <1>2 DEF fork_run, IInv, PipeTypeOK
<1>6. PipeTypeOK'
  BY <1>1, <1>3, <1>4, <1>5 DEF fork_run, IInv, PipeTypeOK, pipeVars, RegType, Ops
<1>7. life[e] = "alive" /\ Backed(e) /\ c # e
  BY <1>1, <1>2, RowTypes
<1>8. cur' # NoEnv => life'[cur'] = "alive"
  BY <1>1, <1>4, <1>5, <1>7
<1>9. Good(e)'
  BY <1>3, <1>4, <1>5, <1>7
  DEF Good, Counter, Exists, Backed, Ends, Forks, Counts, InLoop, Checking
<1>10. Good(c)'
  <2>1. pc[c] = "user" /\ reg[c].i = 0
    BY <1>2 DEF IInv, Good, Exists, Counter
  <2>2. Backed(c)'
    BY <1>2, <1>4, <1>5, <1>7 DEF Backed
  <2> QED
    BY <2>1, <2>2, <1>3, <1>5, <1>7
    DEF Good, Counter, Exists, Ends, Forks, Counts, InLoop, Checking
<1>11. ASSUME NEW f \in Env \ {e, c} PROVE Good(f)'
  <2>1. /\ pc'[f] = pc[f] /\ reg'[f] = reg[f] /\ life'[f] = life[f] /\ Good(f)
    BY <1>3, <1>5, <1>11 DEF IInv
  <2>2. Counter(f)' /\ Exists(f)' /\ Backed(f)' /\ Ends(f)'
    BY <2>1, <1>4 DEF Good, Counter, Exists, Backed, Ends
  <2>3. Forks(f)'
    <3>1. pc[f] \in {"fork_fd", "fork_data", "fork_run"} => reg[f].arg \in Env \ {c}
      BY <2>1, <1>2, <1>11 DEF Good, Forks
    <3> QED
      BY <2>1, <3>1, <1>4, <1>5 DEF Good, Forks
  <2>4. Counts(f)'
    BY <1>1, <1>4, <1>11 DEF Counts
  <2> QED
    BY <2>2, <2>3, <2>4 DEF Good
<1> QED
  BY <1>6, <1>8, <1>9, <1>10, <1>11 DEF IInv

(***************************************************************************)
(* Scheduling and death.                                                   *)
(***************************************************************************)

(* Who gets the processor knows whether a check was interrupted.           *)
LEMMA RunTypes ==
    ASSUME PipeTypeOK, NEW r \in [Env -> RegType], NEW f \in Env, env_run(f, r)
    PROVE  /\ cur' = f /\ slice' \in 0 .. Slice /\ reg' \in [Env -> RegType]
           /\ reg'[f].moved = (pc[f] \in Checking)
           /\ \A g \in Env : reg'[g].op = r[g].op /\ reg'[g].slot = r[g].slot
                            /\ reg'[g].arg = r[g].arg /\ reg'[g].i = r[g].i
<1> DEFINE v == pc[f] \in Checking
<1>1. v \in BOOLEAN /\ reg' = [r EXCEPT ![f].moved = v] /\ cur' = f /\ slice' = Slice
  BY DEF env_run
<1>2. slice' \in 0 .. Slice
  BY <1>1, PipeAssumption DEF PipeAssumption
<1> HIDE DEF v
<1>3. reg' \in [Env -> RegType]
  BY <1>1, RegsSet
<1>4. /\ reg'[f].moved = v
      /\ \A g \in Env : reg'[g].op = r[g].op /\ reg'[g].slot = r[g].slot
                       /\ reg'[g].arg = r[g].arg /\ reg'[g].i = r[g].i
  BY <1>1 DEF RegType
<1> QED
  BY <1>1, <1>2, <1>3, <1>4 DEF v

(* The processor goes to f, e going on where it will.                      *)
LEMMA SwitchInv ==
    ASSUME IInv, NEW f \in Env, life[f] = "alive", env_run(f, reg),
           UNCHANGED <<memVars, pipeVars, envVars>>,
           pc' = pc \/ \E e \in Env : pc[e] = "yield" /\ Goto(e, "room")
    PROVE  IInv'
<1>1. /\ cur' = f /\ slice' \in 0 .. Slice /\ reg' \in [Env -> RegType]
      /\ reg'[f].moved = (pc[f] \in Checking)
      /\ \A g \in Env : reg'[g].op = reg[g].op /\ reg'[g].slot = reg[g].slot
                       /\ reg'[g].arg = reg[g].arg /\ reg'[g].i = reg[g].i
  BY RunTypes, RegTypes DEF IInv
<1>2. fd' = fd /\ data' = data /\ life' = life /\ parent' = parent
  BY DEF memVars, envVars
<1>3. /\ pc' \in [Env -> Label]
      /\ \A g \in Env : pc'[g] = pc[g] \/ (pc[g] = "yield" /\ pc'[g] = "room")
  <2>1. "room" \in Label
    BY DEF Label
  <2> QED
    BY <2>1, GotoTypes DEF IInv, PipeTypeOK
<1>4. PipeTypeOK'
  BY <1>1, <1>2, <1>3 DEF IInv, PipeTypeOK, pipeVars, RegType, Ops
<1>5. ASSUME NEW g \in Env PROVE Good(g)'
  <2>1. Counter(g)' /\ Exists(g)' /\ Backed(g)'
    BY <1>1, <1>2, <1>3 DEF IInv, Good, Counter, Exists, Backed
  <2>2. Ends(g)'
    BY <1>1, <1>2, <1>3 DEF IInv, Good, Ends, InLoop, Checking
  <2>3. Forks(g)'
    BY <1>1, <1>2, <1>3 DEF IInv, Good, Forks
  <2>4. Counts(g)'
    BY <1>1, <1>3 DEF Counts, Checking
  <2> QED
    BY <2>1, <2>2, <2>3, <2>4 DEF Good
<1> QED
  BY <1>1, <1>2, <1>4, <1>5 DEF IInv

(* sys_yield keeps the invariant.                                          *)
LEMMA YieldInv == ASSUME IInv, NEW e \in Env, NEW f \in Env, yield(e, f) PROVE IInv'
BY SwitchInv DEF yield

(* The clock keeps the invariant.                                          *)
LEMMA ClockInv == ASSUME IInv, NEW f \in Env, clock(f) PROVE IInv'
BY SwitchInv DEF clock

(* Whoever goes on running after a death is outside the library, or knows  *)
(* it was interrupted.                                                     *)
LEMMA EnvDestroyInv == ASSUME IInv, NEW e \in Env, env_destroy(e) PROVE IInv'
<1> DEFINE left == [reg EXCEPT ![e] = NoReg]
<1>1. /\ left \in [Env -> RegType] /\ left[e].i = 0
      /\ \A g \in Env \ {e} : left[g] = reg[g]
  <2>1. NoReg \in RegType /\ NoReg.i = 0
    BY ConstantTypes DEF NoReg
  <2> QED
    BY <2>1, RegTypes DEF IInv
<1>2. /\ life[e] = "alive" /\ life' \in [Env -> {"none", "making", "alive"}]
      /\ life'[e] = "none" /\ \A g \in Env \ {e} : life'[g] = life[g]
  BY DEF env_destroy, IInv, PipeTypeOK
<1>3. /\ parent' \in [Env -> Env \cup {NoEnv}]
      /\ \A g \in Env : e \notin {g, parent[g]} => parent'[g] = parent[g]
  BY DEF env_destroy, IInv, PipeTypeOK
<1>4. /\ fd' \in [Env -> [Slot -> Kinds]] /\ data' \in [Env -> [Slot -> BOOLEAN]]
      /\ \A s \in Slot : fd'[e][s] = "none"
      /\ \A g \in Env \ {e} : fd'[g] = fd[g] /\ data'[g] = data[g]
  BY RowTypes DEF env_destroy, Kinds
<1>5. /\ pc' \in [Env -> Label] /\ pc'[e] = "user"
      /\ \A g \in Env \ {e} : pc'[g] = pc[g]
  <2>1. "user" \in Label
    BY DEF Label
  <2> QED
    BY <2>1, GotoTypes DEF env_destroy, IInv
<1> DEFINE Switched ==
      /\ reg' \in [Env -> RegType] /\ slice' \in 0 .. Slice /\ cur' \in Env \cup {NoEnv}
      /\ cur' # NoEnv => life'[cur'] = "alive"
      /\ \A g \in Env : reg'[g].op = left[g].op /\ reg'[g].slot = left[g].slot
                       /\ reg'[g].arg = left[g].arg /\ reg'[g].i = left[g].i
      /\ \A g \in Env \ {e} : cur' = g => pc[g] = "user" \/ reg'[g].moved = (pc[g] \in Checking)
<1>6. Switched
  <2>1. CASE cur # e /\ reg' = left /\ UNCHANGED <<cur, slice>>
    <3>1. cur # NoEnv => life'[cur] = "alive"
      BY <2>1, <1>2 DEF IInv, PipeTypeOK
    <3>2. pc[cur] = "user"
      BY <2>1 DEF env_destroy, MayDestroy
    <3> QED
      BY <2>1, <3>1, <3>2, <1>1 DEF IInv, PipeTypeOK
  <2>2. ASSUME NEW f \in Env, life'[f] = "alive", env_run(f, left) PROVE Switched
    <3>1. PipeTypeOK
      BY DEF IInv
    <3> HIDE DEF left
    <3> QED
      BY <2>2, <3>1, <1>1, RunTypes
  <2>3. CASE cur = e /\ cur' = NoEnv /\ reg' = left /\ slice' = slice
    BY <2>3, <1>1, PipeAssumption DEF IInv, PipeTypeOK, PipeAssumption
  <2> QED
    BY <2>1, <2>2, <2>3 DEF env_destroy
<1> HIDE DEF left
<1>7. PipeTypeOK'
  BY <1>2, <1>3, <1>4, <1>5, <1>6
  DEF env_destroy, IInv, PipeTypeOK, pipeVars, RegType, Ops, Kinds
<1>8. Good(e)'
  <2>1. reg'[e].i = 0
    BY <1>1, <1>6
  <2> QED
    BY <2>1, <1>2, <1>4, <1>5, <1>6
    DEF Good, Counter, Exists, Backed, Ends, Forks, Counts, InLoop, Checking
<1>9. ASSUME NEW g \in Env \ {e} PROVE Good(g)'
  <2>1. /\ reg'[g].op = reg[g].op /\ reg'[g].slot = reg[g].slot
        /\ reg'[g].arg = reg[g].arg /\ reg'[g].i = reg[g].i
    BY <1>1, <1>6, <1>9
  <2>2. pc'[g] = pc[g] /\ life'[g] = life[g] /\ fd'[g] = fd[g] /\ data'[g] = data[g] /\ Good(g)
    BY <1>2, <1>4, <1>5, <1>9 DEF IInv
  <2>3. Counter(g)' /\ Exists(g)' /\ Backed(g)' /\ Ends(g)'
    BY <2>1, <2>2 DEF Good, Counter, Exists, Backed, Ends
  <2>4. Forks(g)'
    <3>1. CASE pc[g] \in {"fork_fd", "fork_data", "fork_run"}
      <4>1. /\ reg[g].arg \in Env \ {e} /\ life[reg[g].arg] = "making"
            /\ parent[reg[g].arg] = g
        BY <3>1, <2>2, <1>2 DEF Good, Forks
      <4>2. parent'[reg[g].arg] = g
        BY <4>1, <1>3, <1>9
      <4> QED
        BY <3>1, <4>1, <4>2, <2>1, <2>2, <1>2, <1>4 DEF Good, Forks
    <3>2. CASE pc[g] \notin {"fork_fd", "fork_data", "fork_run"}
      BY <3>2, <2>2 DEF Forks
    <3> QED
      BY <3>1, <3>2
  <2>5. Counts(g)'
    BY <2>2, <1>6, <1>9 DEF Counts, Checking
  <2> QED
    BY <2>3, <2>4, <2>5 DEF Good
<1> QED
  BY <1>6, <1>7, <1>8, <1>9 DEF IInv

(***************************************************************************)
(* The specification.                                                      *)
(***************************************************************************)

(* The invariant speaks of the variables alone.                            *)
LEMMA StutterInv == ASSUME IInv, UNCHANGED vars PROVE IInv'
<1>1. /\ life' = life /\ parent' = parent /\ fd' = fd /\ data' = data /\ cur' = cur
      /\ pc' = pc /\ reg' = reg /\ rpos' = rpos /\ wpos' = wpos /\ buf' = buf
      /\ slice' = slice
  BY DEF vars, memVars, envVars, pipeVars
<1>2. PipeTypeOK'
  BY <1>1 DEF IInv, PipeTypeOK
<1>3. ASSUME NEW e \in Env PROVE Good(e)'
  <2>1. Counter(e)' /\ Exists(e)' /\ Backed(e)' /\ Ends(e)' /\ Forks(e)'
    BY <1>1 DEF IInv, Good, Counter, Exists, Backed, Ends, Forks
  <2>2. Counts(e)'
    BY <1>1, CountsSame DEF memVars, IInv, Good, Counts
  <2> QED
    BY <2>1, <2>2 DEF Good
<1> QED
  BY <1>1, <1>2, <1>3 DEF IInv

(* Every step keeps the invariant.                                         *)
LEMMA NextInv == IInv /\ [Next]_vars => IInv'
<1> SUFFICES ASSUME IInv, [Next]_vars PROVE IInv'
  OBVIOUS
<1>1. ASSUME NEW e \in Env, Start(e) PROVE IInv'
  <2>1. 1 .. MaxRequest \subseteq Nat
    BY PipeAssumption DEF PipeAssumption
  <2> QED
    BY <1>1, <2>1, PipeInv, PipeIsClosedInv, CloseInv, ReadInv, WriteInv, DupInv DEF Start
<1>2. ASSUME NEW e \in Env, Continue(e) PROVE IInv'
  <2>1. CASE room(e) \/ page_fault(e) \/ load(e) \/ byte(e) \/ position(e) \/ advance(e)
    BY <2>1, RoomInv, PageFaultInv, LoadInv, ByteInv, PositionInv, AdvanceInv
  <2>2. CASE runs(e) \/ pageref_fd(e) \/ pageref_p(e) \/ again(e)
    BY <2>2, RunsInv, PagerefFdInv, PagerefPInv, AgainInv
  <2>3. CASE close_fd(e) \/ close_data(e) \/ dup_data(e) \/ dup_fd(e)
    BY <2>3, CloseFdInv, CloseDataInv, DupDataInv, DupFdInv
  <2>4. CASE fork_fd(e) \/ fork_data(e) \/ fork_run(e)
    BY <2>4, ForkFdInv, ForkDataInv, ForkRunInv
  <2> QED
    BY <1>2, <2>1, <2>2, <2>3, <2>4 DEF Continue
<1>3. ASSUME NEW f \in Env, Schedule(f) PROVE IInv'
  BY <1>3, ClockInv, YieldInv DEF Schedule
<1>4. CASE UNCHANGED vars
  BY <1>4, StutterInv
<1> QED
  BY <1>1, <1>2, <1>3, <1>4, EnvDestroyInv, ForkInv DEF Next

(* The invariant holds for ever.                                           *)
LEMMA SpecInv == Spec => []IInv
BY InitInv, NextInv, PTL DEF Spec

(* Whatever happens the state stays well formed: positions below their     *)
(* modulus, places in the ring, slots and counters of the operations       *)
(* within their ranges.                                                    *)
THEOREM PipeTypeCorrect == Spec => []PipeTypeOK
<1>1. IInv => PipeTypeOK
  BY DEF IInv
<1> QED
  BY <1>1, SpecInv, PTL

(* As long as memory for page tables does not run out in a fork, every     *)
(* open descriptor of every running environment has the pipe behind it:    *)
(* the orders of pipeclose, dup and fork keep it so at every interleaving. *)
THEOREM PipeBacked == ASSUME ForkMayFail = FALSE PROVE Spec => []OpenIsBacked
<1>1. IInv => OpenIsBacked
  BY DEF IInv, Good, Backed, OpenIsBacked
<1> QED
  BY <1>1, SpecInv, PTL

(* When no fork is half done, _pipeisclosed says closed only when nobody   *)
(* has the other end open.  The descriptors of its kind are among the      *)
(* places where the pipe is mapped; if there are as many of one as of the  *)
(* other they are the same, and none is left for the other kind.           *)
LEMMA ClosedFromCounts ==
    ASSUME ForkMayFail = FALSE, IInv
    PROVE  ClosedUnlessForking
<1> SUFFICES ASSUME ~ ForkPending, NEW e \in Env, SaysClosed(e)
             PROVE  Mapped(Other(fd[e][reg[e].slot])) = {}
  BY DEF ClosedUnlessForking, ClosedMeansClosed
<1>1. PICK k : k = fd[e][reg[e].slot]
  OBVIOUS
<1> DEFINE A == {x \in Env \X Slot : fd[x[1]][x[2]] = k}
           B == {x \in Env \X Slot : data[x[1]][x[2]]}
<1>2. k \in {"rd", "wr"}
  <2>1. k # "none"
    BY <1>1 DEF SaysClosed, IInv, Good, Ends, InLoop, Checking
  <2>2. k \in Kinds
    BY <1>1, RowTypes
  <2> QED
    BY <2>1, <2>2 DEF Kinds
<1>3. Cardinality(A) = Cardinality(B)
  BY <1>1 DEF SaysClosed, IInv, Good, Counts, FdRefs, DataRefs
<1>4. ASSUME NEW f \in Env, NEW s \in Slot, fd[f][s] # "none" PROVE data[f][s]
  <2>1. life[f] \in {"none", "alive"}
    BY DEF ForkPending, IInv, PipeTypeOK
  <2>2. Exists(f) /\ Backed(f)
    BY DEF IInv, Good
  <2> QED
    BY <1>4, <2>1, <2>2 DEF Exists, Backed
<1>5. A \subseteq B
  BY <1>2, <1>4
<1>6. IsFiniteSet(B)
  <2>1. IsFiniteSet(Slot)
    BY PipeAssumption, FS_Interval DEF PipeAssumption, Slot
  <2>2. IsFiniteSet(Env \X Slot)
    BY <2>1, PipeAssumption, FS_Product DEF PipeAssumption
  <2> QED
    BY <2>2, FS_Subset
<1>7. A = B
  <2> HIDE DEF A, B
  <2> QED
    BY <1>3, <1>5, <1>6, FS_Subset
<1>8. ASSUME NEW x \in Env \X Slot, fd[x[1]][x[2]] = Other(k) PROVE FALSE
  <2>1. Other(k) # "none" /\ Other(k) # k
    BY <1>2 DEF Other
  <2>2. x \in B
    BY <1>4, <1>8, <2>1
  <2> QED
    BY <1>7, <1>8, <2>1, <2>2
<1> QED
  BY <1>1, <1>8 DEF Mapped

(* The answer of _pipeisclosed that the other end is closed is right when  *)
(* it is given, for any number of environments, at any interleaving, until *)
(* one of them forks.                                                      *)
THEOREM PipeClosed == ASSUME ForkMayFail = FALSE PROVE Spec => []ClosedUnlessForking
BY ClosedFromCounts, SpecInv, PTL

(***************************************************************************)
(* The bytes, with one reader and one writer at a time.                    *)
(***************************************************************************)

(* A byte is touched before its position is stored, and the positions stay *)
(* below their modulus, so that p_rpos + BY2PIPE does not wrap.            *)
Plain == PositionFirst = FALSE /\ MaxBytes + BY2PIPE < PosMod

Copying == {"load", "byte", "position"}

(* The positions, and what lies between them in the ring.                  *)
Stream ==
    /\ rpos <= wpos /\ wpos <= rpos + BY2PIPE /\ wpos <= MaxBytes
    /\ \A k \in Nat : rpos <= k /\ k < wpos => buf[k % BY2PIPE] = k

(* A byte that was loaded is the one of the position that was.             *)
Loaded(e) ==
    reg[e].val # NoVal =>
        reg[e].op = "read" /\ pc[e] \in {"position", "advance"} /\ reg[e].val = reg[e].at

(* Where a read is, the byte it goes for is there.                         *)
Reads(e) ==
    reg[e].op = "read" =>
        /\ pc[e] \in Copying => rpos < wpos
        /\ pc[e] \in {"byte", "position"} => reg[e].at = rpos

(* Where a write is, there is room for its byte, and for those that follow *)
(* below MaxBytes.                                                         *)
Left(e) == reg[e].arg - reg[e].i - (IF pc[e] = "advance" THEN 1 ELSE 0)

Writes(e) ==
    reg[e].op = "write" =>
        /\ pc[e] \in Copying => wpos < rpos + BY2PIPE
        /\ pc[e] \in {"byte", "position"} => reg[e].at = wpos
        /\ pc[e] = "position" => buf[wpos % BY2PIPE] = wpos
        /\ pc[e] \in InLoop => reg[e].arg \in Nat /\ reg[e].i < reg[e].arg /\ wpos + Left(e) <= MaxBytes

Flows(e) == Loaded(e) /\ Reads(e) /\ Writes(e)

StreamInv == Stream /\ \A e \in Env : Flows(e)

(* What a step leaves of e's variables that the invariant speaks of.       *)
Kept(e) ==
    /\ reg'[e].op = reg[e].op /\ reg'[e].arg = reg[e].arg /\ reg'[e].i = reg[e].i
    /\ reg'[e].at = reg[e].at /\ reg'[e].val = reg[e].val

(* Bytes and positions stay, and so does what is said of who does nothing. *)
LEMMA FlowsSame ==
    ASSUME NEW f \in Env, Flows(f), UNCHANGED pipeVars, pc'[f] = pc[f], Kept(f)
    PROVE  Flows(f)'
<1>1. rpos' = rpos /\ wpos' = wpos /\ buf' = buf
  BY DEF pipeVars
<1>2. Loaded(f)'
  BY DEF Flows, Loaded, Kept
<1>3. Reads(f)'
  BY <1>1 DEF Flows, Reads, Kept
<1>4. Writes(f)'
  BY <1>1 DEF Flows, Writes, Kept, Left
<1> QED
  BY <1>2, <1>3, <1>4 DEF Flows

(* A step of e alone that leaves the pipe's page as it is.                 *)
LEMMA FlowStep ==
    ASSUME StreamInv, NEW e \in Env, UNCHANGED pipeVars,
           \A f \in Env \ {e} : pc'[f] = pc[f] /\ Kept(f), Flows(e)'
    PROVE  StreamInv'
<1>1. Stream'
  BY DEF StreamInv, Stream, pipeVars
<1>2. ASSUME NEW f \in Env, f # e PROVE Flows(f)'
  BY <1>2, FlowsSame DEF StreamInv
<1> QED
  BY <1>1, <1>2 DEF StreamInv

(* Outside the loops nothing is said but that no byte is held.             *)
LEMMA AwayFlows ==
    ASSUME NEW e \in Env, pc'[e] \notin InLoop, reg'[e].val = NoVal
    PROVE  Flows(e)'
BY DEF Flows, Loaded, Reads, Writes, InLoop, Copying, Checking

(* Nor is it in the loops before the room or the byte has been seen.       *)
LEMMA RoundFlows ==
    ASSUME NEW e \in Env, Flows(e), UNCHANGED pipeVars, pc[e] \in InLoop \ {"position", "advance"},
           pc'[e] \in InLoop \ (Copying \cup {"advance"}), Kept(e)
    PROVE  Flows(e)'
<1>1. reg[e].val = NoVal /\ Loaded(e)'
  BY DEF Flows, Loaded, Kept
<1>2. Reads(e)'
  BY DEF Reads, Copying
<1>3. Writes(e)'
  <2>1. wpos' = wpos /\ Left(e)' = Left(e)
    BY DEF pipeVars, Left, Kept
  <2> QED
    BY <2>1 DEF Flows, Writes, Kept, Copying
<1> QED
  BY <1>1, <1>2, <1>3 DEF Flows

(* Who holds a byte is about to store its position, or has just done it.   *)
LEMMA HoldsNone ==
    ASSUME StreamInv, NEW e \in Env, pc[e] \notin {"position", "advance"}
    PROVE  reg[e].val = NoVal
BY DEF StreamInv, Flows, Loaded

(* Returning lets go of everything.                                        *)
LEMMA ReturnFlow ==
    ASSUME IInv, StreamInv, NEW e \in Env, Return(e), UNCHANGED pipeVars
    PROVE  StreamInv'
<1>1. /\ pc'[e] = "user" /\ reg'[e].val = NoVal
      /\ \A f \in Env \ {e} : pc'[f] = pc[f] /\ Kept(f)
  BY ReturnTypes DEF IInv, NoReg, Kept
<1>2. Flows(e)'
  BY <1>1, AwayFlows DEF InLoop, Checking
<1> QED
  BY <1>1, <1>2, FlowStep

(* A step towards another place outside the loops.                         *)
LEMMA AwayFlow ==
    ASSUME IInv, StreamInv, NEW e \in Env, pc[e] \notin {"position", "advance"},
           pc'[e] \notin InLoop, \A f \in Env \ {e} : pc'[f] = pc[f] /\ Kept(f),
           reg'[e].val = reg[e].val, UNCHANGED pipeVars
    PROVE  StreamInv'
<1>1. Flows(e)'
  BY HoldsNone, AwayFlows
<1> QED
  BY <1>1, FlowStep

(* What is less than the modulus is its own remainder.                     *)
LEMMA Small ==
    ASSUME NEW m \in Nat, NEW x \in 0 .. m - 1
    PROVE  x % m = x
OBVIOUS

(* A number is its quotient times the divisor, and the remainder.          *)
LEMMA Division ==
    ASSUME NEW b \in Nat \ {0}, NEW x \in Nat
    PROVE  x \div b \in Int /\ x = b * (x \div b) + (x % b)
BY Z3

(* Between 0 and b there is no multiple of b.                              *)
LEMMA NoMultiple ==
    ASSUME NEW b \in Nat \ {0}, NEW d \in Int, 0 < b * d, b * d < b
    PROVE  FALSE
<1>1. CASE d <= 0
  BY <1>1
<1>2. CASE d >= 1
  BY <1>2
<1> QED
  BY <1>1, <1>2

(* Two places less than a turn of the ring apart are not the same.         *)
LEMMA Apart ==
    ASSUME NEW b \in Nat \ {0}, NEW x \in Nat, NEW y \in Nat, x < y, y < x + b
    PROVE  x % b # y % b
<1> SUFFICES ASSUME x % b = y % b PROVE FALSE
  OBVIOUS
<1>1. PICK p \in Int : x = b * p + (x % b)
  BY Division
<1>2. PICK q \in Int : y = b * q + (y % b)
  BY Division
<1>3. PICK r \in Int : r = x % b
  OBVIOUS
<1>4. PICK d \in Int : d = q - p
  OBVIOUS
<1>5. b * d = b * q - b * p
  BY ONLY <1>4, p \in Int, q \in Int, b \in Nat \ {0}
<1>6. 0 < b * d /\ b * d < b
  BY <1>1, <1>2, <1>3, <1>5
<1> QED
  BY <1>6, NoMultiple

(* The positions are numbers, below their modulus even a turn ahead.       *)
LEMMA Positions ==
    ASSUME IInv, StreamInv, Plain
    PROVE  /\ rpos \in Nat /\ wpos \in Nat /\ BY2PIPE \in Nat \ {0} /\ MaxBytes \in Nat
           /\ (rpos + BY2PIPE) % PosMod = rpos + BY2PIPE
           /\ (rpos + 1) % PosMod = rpos + 1
           /\ wpos < MaxBytes => (wpos + 1) % PosMod = wpos + 1
<1>1. rpos \in Nat /\ wpos \in Nat /\ BY2PIPE \in Nat \ {0} /\ MaxBytes \in Nat /\ PosMod \in Nat
  BY PipeAssumption DEF IInv, PipeTypeOK, PipeAssumption
<1>2. /\ rpos + BY2PIPE \in 0 .. PosMod - 1 /\ rpos + 1 \in 0 .. PosMod - 1
      /\ wpos < MaxBytes => wpos + 1 \in 0 .. PosMod - 1
  BY <1>1 DEF StreamInv, Stream, Plain
<1> QED
  BY <1>1, <1>2, Small

(* The look at the positions finds a byte, or room for one.                *)
LEMMA RoomFlow == ASSUME IInv, StreamInv, Plain, NEW e \in Env, room(e) PROVE StreamInv'
<1>1. /\ pc[e] = "room" /\ reg' = reg /\ UNCHANGED pipeVars
      /\ \A f \in Env \ {e} : pc'[f] = pc[f] /\ Kept(f)
      /\ Kept(e) /\ Flows(e)
  BY DEF room, At, Goto, Kept, IInv, PipeTypeOK, StreamInv
<1>2. CASE pc'[e] = "runs"
  <2>1. Flows(e)'
    BY <1>1, <1>2, RoundFlows DEF InLoop, Copying, Checking
  <2> QED
    BY <1>1, <2>1, FlowStep
<1>3. CASE /\ pc'[e] = "load"
           /\ reg[e].op = "read" => ~ Empty
           /\ reg[e].op = "write" => ~ Full
  <2>1. rpos' = rpos /\ wpos' = wpos
    BY <1>1 DEF pipeVars
  <2>2. reg[e].op = "read" => rpos < wpos
    BY <1>3, Positions DEF Empty
  <2>3. reg[e].op = "write" => wpos < rpos + BY2PIPE
    BY <1>3, Positions DEF Full
  <2>4. Loaded(e)'
    BY <1>1 DEF Flows, Loaded
  <2>5. Reads(e)'
    BY <1>1, <1>3, <2>1, <2>2 DEF Reads
  <2>6. Writes(e)'
    BY <1>1, <1>3, <2>1, <2>3 DEF Flows, Writes, Left, InLoop
  <2> QED
    BY <1>1, <2>4, <2>5, <2>6, FlowStep DEF Flows
<1>4. \/ pc'[e] = "runs"
      \/ /\ pc'[e] = "load"
         /\ reg[e].op = "read" => ~ Empty
         /\ reg[e].op = "write" => ~ Full
  BY DEF room, Goto, IInv, PipeTypeOK
<1> QED
  BY <1>2, <1>3, <1>4

(* The position loaded is the one the look was at: nobody else moves it.   *)
LEMMA LoadFlow == ASSUME IInv, StreamInv, Plain, NEW e \in Env, load(e) PROVE StreamInv'
<1>1. PICK p : p = IF reg[e].op = "read" THEN rpos ELSE wpos
  OBVIOUS
<1>2. pc[e] = "load" /\ reg' = [reg EXCEPT ![e].at = p] /\ UNCHANGED pipeVars /\ reg[e] \in RegType
  BY <1>1, RegTypes DEF load, At, IInv
<1>3. pc'[e] = "byte" /\ \A f \in Env \ {e} : pc'[f] = pc[f]
  BY DEF load, Goto, IInv, PipeTypeOK, Plain
<1>4. /\ reg'[e].at = p /\ reg'[e].op = reg[e].op /\ reg'[e].arg = reg[e].arg
      /\ reg'[e].i = reg[e].i /\ reg'[e].val = reg[e].val
      /\ \A f \in Env \ {e} : Kept(f)
  BY <1>2, RegTypes DEF Kept, IInv, RegType
<1>5. rpos' = rpos /\ wpos' = wpos /\ buf' = buf /\ Flows(e)
  BY <1>2 DEF pipeVars, StreamInv
<1>6. Loaded(e)'
  BY <1>2, <1>4, <1>5 DEF Flows, Loaded
<1>7. Reads(e)'
  BY <1>1, <1>2, <1>3, <1>4, <1>5 DEF Flows, Reads, Copying
<1>8. Writes(e)'
  <2>1. Left(e)' = Left(e)
    BY <1>2, <1>3, <1>4 DEF Left
  <2> QED
    BY <1>1, <1>2, <1>3, <1>4, <1>5, <2>1 DEF Flows, Writes, Copying, InLoop
<1> QED
  BY <1>2, <1>3, <1>4, <1>6, <1>7, <1>8, FlowStep DEF Flows

(* A byte read is the one of its position; a byte written goes where no    *)
(* unread byte is.                                                         *)
LEMMA ByteFlow ==
    ASSUME IInv, StreamInv, Plain, OneEach, NEW e \in Env, byte(e)
    PROVE  StreamInv'
<1>1. /\ pc[e] = "byte" /\ pc'[e] = "position" /\ rpos' = rpos /\ wpos' = wpos
      /\ \A f \in Env \ {e} : pc'[f] = pc[f]
  BY DEF byte, At, Goto, IInv, PipeTypeOK, Plain
<1>2. reg \in [Env -> RegType] /\ reg[e] \in RegType /\ Flows(e) /\ Stream
  BY RegTypes DEF IInv, StreamInv
<1>3. CASE reg[e].op = "read" /\ reg' = [reg EXCEPT ![e].val = buf[reg[e].at % BY2PIPE]] /\ buf' = buf
  <2>1. reg[e].at = rpos /\ rpos < wpos
    BY <1>1, <1>2, <1>3 DEF Flows, Reads, Copying
  <2>2. buf[reg[e].at % BY2PIPE] = reg[e].at
    BY <1>2, <2>1, Positions DEF Stream
  <2>3. /\ reg'[e].op = "read" /\ reg'[e].at = reg[e].at /\ reg'[e].val = reg[e].at
        /\ \A f \in Env \ {e} : Kept(f)
    BY <1>2, <1>3, <2>2 DEF RegType, Kept
  <2>4. Flows(e)'
    BY <1>1, <2>1, <2>3 DEF Flows, Loaded, Reads, Writes
  <2> QED
    BY <1>1, <1>3, <2>3, <2>4, FlowStep DEF pipeVars
<1>4. CASE reg[e].op = "write" /\ reg' = reg /\ buf' = [buf EXCEPT ![reg[e].at % BY2PIPE] = reg[e].at]
  <2>1. reg[e].at = wpos /\ wpos < rpos + BY2PIPE
    BY <1>1, <1>2, <1>4 DEF Flows, Writes, Copying
  <2>2. PICK w : w = wpos % BY2PIPE
    OBVIOUS
  <2>3. buf'[w] = wpos /\ \A x \in 0 .. BY2PIPE - 1 : x # w => buf'[x] = buf[x]
    BY <1>4, <2>1, <2>2, Positions, ConstantTypes DEF IInv, PipeTypeOK
  <2>4. Stream'
    <3>1. ASSUME NEW k \in Nat, rpos <= k, k < wpos PROVE buf'[k % BY2PIPE] = k
      <4>1. k % BY2PIPE # w
        <5>1. wpos < k + BY2PIPE
          BY <2>1, <3>1, Positions
        <5> QED
          BY <2>2, <3>1, <5>1, Apart, Positions
      <4>2. k % BY2PIPE \in 0 .. BY2PIPE - 1
        BY ConstantTypes
      <4>3. buf[k % BY2PIPE] = k
        BY <1>2, <3>1 DEF Stream
      <4> QED
        BY <2>3, <4>1, <4>2, <4>3
    <3> QED
      BY <1>1, <1>2, <3>1 DEF Stream
  <2>5. Flows(e)'
    <3>1. Loaded(e)' /\ Reads(e)'
      BY <1>1, <1>2, <1>4 DEF Flows, Loaded, Reads
    <3>2. Writes(e)'
      BY <1>1, <1>2, <1>4, <2>1, <2>2, <2>3 DEF Flows, Writes, Left, InLoop, Copying
    <3> QED
      BY <3>1, <3>2 DEF Flows
  <2>6. ASSUME NEW f \in Env, f # e PROVE Flows(f)'
    <3>1. reg[f].op # "write"
      BY <1>4, <2>6 DEF OneEach
    <3>2. Flows(f)
      BY DEF StreamInv
    <3> QED
      BY <1>1, <1>4, <2>6, <3>1, <3>2 DEF Flows, Loaded, Reads, Writes
  <2> QED
    BY <2>4, <2>5, <2>6 DEF StreamInv
<1> QED
  BY <1>3, <1>4 DEF byte

(* The position stored hands over the byte, or the room for one.           *)
LEMMA PositionFlow ==
    ASSUME IInv, StreamInv, Plain, OneEach, NEW e \in Env, position(e)
    PROVE  StreamInv'
<1>1. /\ pc[e] = "position" /\ pc'[e] = "advance" /\ reg' = reg /\ buf' = buf
      /\ \A f \in Env \ {e} : pc'[f] = pc[f]
  BY DEF position, At, Goto, IInv, PipeTypeOK, Plain
<1>2. reg[e] \in RegType /\ Flows(e) /\ Stream
  BY RegTypes DEF IInv, StreamInv
<1>3. CASE reg[e].op = "read" /\ rpos' = (reg[e].at + 1) % PosMod /\ wpos' = wpos
  <2>1. reg[e].at = rpos /\ rpos < wpos
    BY <1>1, <1>2, <1>3 DEF Flows, Reads, Copying
  <2>2. rpos' = rpos + 1
    BY <1>3, <2>1, Positions
  <2>3. Stream'
    BY <1>1, <1>2, <1>3, <2>1, <2>2, Positions DEF Stream
  <2>4. Flows(e)'
    BY <1>1, <1>2, <1>3 DEF Flows, Loaded, Reads, Writes, Copying
  <2>5. ASSUME NEW f \in Env, f # e PROVE Flows(f)'
    <3>1. reg[f].op # "read" /\ Flows(f)
      BY <1>3, <2>5 DEF OneEach, StreamInv
    <3>2. Writes(f)'
      BY <1>1, <1>3, <2>2, <2>5, <3>1, Positions DEF Flows, Writes, Left
    <3> QED
      BY <1>1, <2>5, <3>1, <3>2 DEF Flows, Loaded, Reads
  <2> QED
    BY <2>3, <2>4, <2>5 DEF StreamInv
<1>4. CASE reg[e].op = "write" /\ wpos' = (reg[e].at + 1) % PosMod /\ rpos' = rpos
  <2>1. /\ reg[e].at = wpos /\ wpos < rpos + BY2PIPE /\ buf[wpos % BY2PIPE] = wpos
        /\ reg[e].arg \in Nat /\ reg[e].i < reg[e].arg /\ wpos + (reg[e].arg - reg[e].i) <= MaxBytes
    <3>1. Left(e) = reg[e].arg - reg[e].i - 0
      BY <1>1 DEF Left
    <3> QED
      BY <1>1, <1>2, <1>4, <3>1 DEF Flows, Writes, Copying, InLoop, RegType
  <2>2. reg[e].i \in Nat
    BY <1>2 DEF RegType
  <2>3. wpos' = wpos + 1 /\ wpos + 1 <= MaxBytes
    BY <1>4, <2>1, <2>2, Positions
  <2>4. Stream'
    BY <1>1, <1>2, <1>4, <2>1, <2>3, Positions DEF Stream
  <2>5. Flows(e)'
    <3>1. Loaded(e)' /\ Reads(e)'
      BY <1>1, <1>2, <1>4 DEF Flows, Loaded, Reads
    <3>2. Left(e)' = reg[e].arg - reg[e].i - 1
      BY <1>1 DEF Left
    <3>3. Writes(e)'
      BY <1>1, <2>1, <2>2, <2>3, <3>2, Positions DEF Writes, Copying
    <3> QED
      BY <3>1, <3>3 DEF Flows
  <2>6. ASSUME NEW f \in Env, f # e PROVE Flows(f)'
    <3>1. reg[f].op # "write" /\ Flows(f)
      BY <1>4, <2>6 DEF OneEach, StreamInv
    <3>2. Reads(f)'
      BY <1>1, <1>4, <2>3, <2>6, <3>1, Positions DEF Flows, Reads
    <3> QED
      BY <1>1, <2>6, <3>1, <3>2 DEF Flows, Loaded, Writes
  <2> QED
    BY <2>4, <2>5, <2>6 DEF StreamInv
<1> QED
  BY <1>3, <1>4 DEF position

(* One byte less is left; the room for the others stays.                   *)
LEMMA AdvanceFlow == ASSUME IInv, StreamInv, NEW e \in Env, advance(e) PROVE StreamInv'
<1>1. pc[e] = "advance" /\ reg[e] \in RegType /\ Flows(e) /\ UNCHANGED pipeVars
  BY RegTypes DEF advance, At, IInv, StreamInv
<1>2. CASE Return(e)
  BY <1>1, <1>2, ReturnFlow
<1>3. CASE /\ reg[e].i + 1 < reg[e].arg
           /\ reg' = [reg EXCEPT ![e].i = @ + 1, ![e].at = 0, ![e].val = NoVal]
           /\ Goto(e, "room")
  <2>1. pc'[e] = "room" /\ \A f \in Env \ {e} : pc'[f] = pc[f]
    BY <1>3 DEF Goto, IInv, PipeTypeOK
  <2>2. /\ reg'[e].op = reg[e].op /\ reg'[e].arg = reg[e].arg /\ reg'[e].i = reg[e].i + 1
        /\ reg'[e].val = NoVal /\ \A f \in Env \ {e} : Kept(f)
    BY <1>1, <1>3, RegTypes DEF RegType, Kept, IInv
  <2>3. Loaded(e)' /\ Reads(e)'
    BY <2>1, <2>2 DEF Loaded, Reads, Copying
  <2>4. Writes(e)'
    <3>1. CASE reg[e].op = "write"
      <4>1. Left(e) = reg[e].arg - reg[e].i - 1 /\ Left(e)' = reg[e].arg - (reg[e].i + 1) - 0
        BY <1>1, <2>1, <2>2 DEF Left
      <4>2. reg[e].i \in Nat /\ reg[e].arg \in Nat /\ wpos + Left(e) <= MaxBytes /\ wpos' = wpos
        BY <1>1, <3>1 DEF Flows, Writes, InLoop, RegType, pipeVars
      <4>3. Left(e)' = Left(e)
        BY <4>1, <4>2
      <4> QED
        BY <1>3, <2>1, <2>2, <4>2, <4>3 DEF Writes, Copying
    <3>2. CASE reg[e].op # "write"
      BY <2>2, <3>2 DEF Writes
    <3> QED
      BY <3>1, <3>2
  <2> QED
    BY <1>1, <2>1, <2>2, <2>3, <2>4, FlowStep DEF Flows
<1> QED
  BY <1>2, <1>3 DEF advance

(* The check of the counts leaves the bytes alone.                         *)
LEMMA CheckFlow ==
    ASSUME IInv, StreamInv, NEW e \in Env, runs(e) \/ pageref_fd(e) \/ pageref_p(e) \/ again(e)
    PROVE  StreamInv'
<1>1. UNCHANGED pipeVars /\ pc[e] \in {"runs", "pageref_fd", "pageref_p", "again"} /\ Flows(e)
  BY DEF runs, pageref_fd, pageref_p, again, At, StreamInv
<1>2. CASE Return(e)
  BY <1>1, <1>2, ReturnFlow
<1>3. CASE ~ Return(e)
  <2>1. PICK l \in {"pageref_fd", "pageref_p", "again", "runs", "yield"} : Goto(e, l)
    BY <1>3 DEF runs, pageref_fd, pageref_p, again
  <2>2. pc'[e] = l /\ \A f \in Env \ {e} : pc'[f] = pc[f]
    BY <2>1 DEF Goto, IInv, PipeTypeOK
  <2>3. reg \in [Env -> RegType]
    BY RegTypes DEF IInv
  <2>4. \A f \in Env : Kept(f)
    <3>1. CASE reg' = [reg EXCEPT ![e].moved = FALSE]
      BY <2>3, <3>1 DEF RegType, Kept
    <3>2. CASE reg' = [reg EXCEPT ![e].refs = FdRefs(fd[e][reg[e].slot])]
      BY <2>3, <3>2 DEF RegType, Kept
    <3>3. CASE reg' = [reg EXCEPT ![e].same = (reg[e].refs = IF data[e][reg[e].slot] THEN DataRefs ELSE 0)]
      BY <2>3, <3>3 DEF RegType, Kept
    <3>4. CASE reg' = [reg EXCEPT ![e].moved = FALSE, ![e].refs = 0, ![e].same = FALSE]
      BY <2>3, <3>4 DEF RegType, Kept
    <3>5. CASE reg' = [reg EXCEPT ![e].refs = 0, ![e].same = FALSE]
      BY <2>3, <3>5 DEF RegType, Kept
    <3> QED
      BY <1>3, <3>1, <3>2, <3>3, <3>4, <3>5 DEF runs, pageref_fd, pageref_p, again
  <2>5. Flows(e)'
    BY <1>1, <2>2, <2>4, RoundFlows DEF InLoop, Copying, Checking
  <2> QED
    BY <1>1, <2>2, <2>4, <2>5, FlowStep
<1> QED
  BY <1>2, <1>3

(* What entering the library leaves of e's variables.                      *)
LEMMA EnterKeeps ==
    ASSUME IInv, StreamInv, NEW e \in Env, NEW l \in Label, NEW o \in Ops, NEW s \in Slot,
           NEW a \in Nat \cup Env, Enter(e, l, o, s, a)
    PROVE  /\ pc[e] = "user" /\ pc'[e] = l /\ UNCHANGED pipeVars
           /\ reg'[e].op = o /\ reg'[e].arg = a /\ reg'[e].i = 0 /\ reg'[e].val = NoVal
           /\ \A f \in Env \ {e} : pc'[f] = pc[f] /\ Kept(f)
<1>1. /\ pc[e] = "user" /\ pc'[e] = l /\ UNCHANGED pipeVars
      /\ reg'[e].op = o /\ reg'[e].arg = a /\ reg'[e].i = 0
      /\ \A f \in Env \ {e} : pc'[f] = pc[f] /\ Kept(f)
  <2>1. /\ pc[e] = "user" /\ pc'[e] = l /\ reg'[e].op = o /\ reg'[e].arg = a /\ reg'[e].i = 0
        /\ \A f \in Env \ {e} : pc'[f] = pc[f] /\ reg'[f] = reg[f]
    BY EnterTypes
  <2>2. UNCHANGED pipeVars
    BY DEF Enter
  <2> QED
    BY ONLY <2>1, <2>2 DEF Kept
<1>2. reg[e].val = NoVal
  BY <1>1, HoldsNone
<1>3. reg'[e].val = reg[e].val
  BY RegTypes DEF Enter, IInv, RegType
<1> QED
  BY <1>1, <1>2, <1>3

(* Entering anything but read and write leaves the bytes alone.            *)
LEMMA EnterFlow ==
    ASSUME IInv, StreamInv, NEW e \in Env, NEW l \in Label \ Copying, NEW o \in Ops \ {"write"},
           NEW s \in Slot, NEW a \in Nat \cup Env, Enter(e, l, o, s, a)
    PROVE  StreamInv'
<1>1. /\ pc'[e] = l /\ UNCHANGED pipeVars /\ reg'[e].op = o /\ reg'[e].val = NoVal
      /\ \A f \in Env \ {e} : pc'[f] = pc[f] /\ Kept(f)
  BY EnterKeeps
<1>2. Flows(e)'
  BY <1>1 DEF Flows, Loaded, Reads, Writes, Copying
<1> QED
  BY <1>1, <1>2, FlowStep

(* A write begins when there are places below MaxBytes for its bytes.      *)
LEMMA WriteFlow ==
    ASSUME IInv, StreamInv, NEW e \in Env, NEW s \in Slot, NEW n \in Nat \ {0}, write(e, s, n)
    PROVE  StreamInv'
<1>1. /\ pc'[e] = "room" /\ UNCHANGED pipeVars
      /\ reg'[e].op = "write" /\ reg'[e].arg = n /\ reg'[e].i = 0 /\ reg'[e].val = NoVal
      /\ \A f \in Env \ {e} : pc'[f] = pc[f] /\ Kept(f)
  BY EnterKeeps DEF write, Label, Ops
<1>2. Left(e)' = n - 0 - 0 /\ wpos + n <= MaxBytes /\ wpos' = wpos
  BY <1>1 DEF Left, write, pipeVars
<1>3. Flows(e)'
  BY <1>1, <1>2 DEF Flows, Loaded, Reads, Writes, Copying
<1> QED
  BY <1>1, <1>3, FlowStep

(* Whatever else is begun leaves the bytes alone.                          *)
LEMMA StartFlow ==
    ASSUME IInv, StreamInv, NEW e \in Env, NEW s \in Slot,
           \/ pipeisclosed(e, s) \/ close(e, s)
           \/ \E n \in Nat : read(e, s, n)
           \/ \E new \in Slot : dup(e, s, new)
           \/ \E c \in Env : fork(e, c)
    PROVE  StreamInv'
<1>1. Slot \subseteq Nat \cup Env /\ 0 \in Slot
  BY ConstantTypes
<1>2. PICK l \in {"runs", "close_fd", "room", "dup_data", "fork_fd"}, o \in {"check", "close", "read", "dup", "fork"},
           t \in Slot, a \in Nat \cup Env : Enter(e, l, o, t, a)
  <2>1. CASE pipeisclosed(e, s)
    BY <2>1 DEF pipeisclosed
  <2>2. CASE close(e, s)
    BY <1>1, <2>2 DEF close
  <2>3. CASE \E n \in Nat : read(e, s, n)
    BY <2>3 DEF read
  <2>4. CASE \E new \in Slot : dup(e, s, new)
    BY <1>1, <2>4 DEF dup
  <2>5. CASE \E c \in Env : fork(e, c)
    BY <1>1, <2>5 DEF fork
  <2> QED
    BY <2>1, <2>2, <2>3, <2>4, <2>5
<1>3. l \in Label \ Copying /\ o \in Ops \ {"write"}
  BY DEF Label, Copying, Ops, Checking
<1> QED
  BY <1>2, <1>3, EnterFlow

(* Closing, duplicating and forking copy descriptors, never bytes.         *)
LEMMA DescriptorFlow ==
    ASSUME IInv, StreamInv, NEW e \in Env,
           \/ close_fd(e) \/ close_data(e) \/ dup_data(e) \/ dup_fd(e)
           \/ fork_fd(e) \/ fork_data(e) \/ fork_run(e)
    PROVE  StreamInv'
<1> DEFINE Away == {"close_fd", "close_data", "dup_data", "dup_fd", "fork_fd", "fork_data", "fork_run"}
<1>1. UNCHANGED pipeVars /\ pc[e] \in Away
  BY DEF close_fd, close_data, dup_data, dup_fd, fork_fd, fork_data, fork_run, At
<1>2. CASE Return(e)
  BY <1>1, <1>2, ReturnFlow
<1>3. CASE ~ Return(e)
  <2>1. pc' = pc \/ \E l \in Away : Goto(e, l)
    BY <1>3 DEF close_fd, close_data, dup_data, dup_fd, fork_fd, fork_data, fork_run
  <2>2. pc'[e] \in Away /\ \A f \in Env \ {e} : pc'[f] = pc[f]
    BY <1>1, <2>1 DEF Goto, IInv, PipeTypeOK
  <2>3. reg' = reg \/ \E n : reg' = [reg EXCEPT ![e].i = n]
    <3>1. CASE close_fd(e) \/ close_data(e) \/ dup_data(e) \/ dup_fd(e)
      BY <1>3, <3>1 DEF close_fd, close_data, dup_data, dup_fd
    <3>2. CASE fork_fd(e) \/ fork_data(e) \/ fork_run(e)
      BY <1>3, <3>2 DEF fork_fd, fork_data, fork_run
    <3> QED
      BY <3>1, <3>2
  <2>4. reg'[e].val = reg[e].val /\ \A f \in Env \ {e} : Kept(f)
    BY <2>3, RegTypes DEF IInv, RegType, Kept
  <2> QED
    BY <1>1, <2>2, <2>4, AwayFlow DEF InLoop, Checking
<1> QED
  BY <1>2, <1>3

(* A pipe is made when nobody is at the old one any more.                  *)
LEMMA PipeFlow == ASSUME IInv, StreamInv, NEW e \in Env, pipe(e) PROVE StreamInv'
<1>1. rpos' = 0 /\ wpos' = 0 /\ pc' = pc /\ reg' = reg
  BY DEF pipe
<1>2. Stream'
  <2>1. BY2PIPE \in Nat /\ MaxBytes \in Nat
    BY PipeAssumption DEF PipeAssumption
  <2> QED
    BY <1>1, <2>1 DEF Stream
<1>3. ASSUME NEW f \in Env PROVE Flows(f)'
  <2>1. reg[f].slot \in Slot
    BY RowTypes
  <2>2. pc[f] \notin InLoop
    BY <2>1 DEF pipe, IInv, Good, Ends
  <2>3. reg[f].val = NoVal
    BY <2>2, HoldsNone DEF InLoop
  <2> QED
    BY <1>1, <2>2, <2>3, AwayFlows
<1> QED
  BY <1>2, <1>3 DEF StreamInv

(* What env_run leaves of the variables.                                   *)
LEMMA RunKeeps ==
    ASSUME NEW r \in [Env -> RegType], NEW f \in Env, env_run(f, r)
    PROVE  \A g \in Env : /\ reg'[g].op = r[g].op /\ reg'[g].arg = r[g].arg /\ reg'[g].i = r[g].i
                          /\ reg'[g].at = r[g].at /\ reg'[g].val = r[g].val
BY DEF env_run, RegType

(* The processor goes to f, in the middle of whatever is being done.       *)
LEMMA SwitchFlow ==
    ASSUME IInv, StreamInv, NEW f \in Env, env_run(f, reg), UNCHANGED pipeVars,
           pc' = pc \/ \E e \in Env : pc[e] = "yield" /\ Goto(e, "room")
    PROVE  StreamInv'
<1>1. \A g \in Env : Kept(g)
  BY RunKeeps, RegTypes DEF IInv, Kept
<1>2. Stream'
  BY DEF StreamInv, Stream, pipeVars
<1>3. ASSUME NEW g \in Env PROVE Flows(g)'
  <2>1. Flows(g)
    BY DEF StreamInv
  <2>2. CASE pc'[g] = pc[g]
    BY <1>1, <2>1, <2>2, FlowsSame
  <2>3. CASE pc[g] = "yield" /\ pc'[g] = "room"
    BY <1>1, <2>1, <2>3, RoundFlows DEF InLoop, Copying
  <2>4. pc'[g] = pc[g] \/ (pc[g] = "yield" /\ pc'[g] = "room")
    BY DEF Goto, IInv, PipeTypeOK
  <2> QED
    BY <2>2, <2>3, <2>4
<1> QED
  BY <1>2, <1>3 DEF StreamInv

(* Who dies in the middle of a read or a write leaves the ring in order.   *)
LEMMA DestroyFlow == ASSUME IInv, StreamInv, NEW e \in Env, env_destroy(e) PROVE StreamInv'
<1> DEFINE left == [reg EXCEPT ![e] = NoReg]
<1>1. left \in [Env -> RegType] /\ left[e] = NoReg /\ \A g \in Env \ {e} : left[g] = reg[g]
  BY ConstantTypes, RegTypes DEF IInv
<1>2. /\ UNCHANGED pipeVars /\ pc'[e] = "user" /\ \A g \in Env \ {e} : pc'[g] = pc[g]
      /\ reg' = left \/ \E f \in Env : env_run(f, left)
  BY DEF env_destroy, Goto, IInv, PipeTypeOK
<1> HIDE DEF left
<1>3. \A g \in Env : /\ reg'[g].op = left[g].op /\ reg'[g].arg = left[g].arg /\ reg'[g].i = left[g].i
                     /\ reg'[g].at = left[g].at /\ reg'[g].val = left[g].val
  BY <1>1, <1>2, RunKeeps
<1>4. reg'[e].val = NoVal /\ \A g \in Env \ {e} : Kept(g)
  BY <1>1, <1>3 DEF Kept, NoReg
<1>5. Flows(e)'
  BY <1>2, <1>4, AwayFlows DEF InLoop, Checking
<1> QED
  BY <1>2, <1>4, <1>5, FlowStep

(* There is nothing in the pipe before it is made.                         *)
LEMMA StreamInit == Init => StreamInv
<1> SUFFICES ASSUME Init PROVE StreamInv
  OBVIOUS
<1>1. Stream
  BY PipeAssumption DEF PipeAssumption, Init, Stream
<1>2. ASSUME NEW e \in Env PROVE Flows(e)
  BY DEF Init, NoReg, Flows, Loaded, Reads, Writes, InLoop, Copying, Checking
<1> QED
  BY <1>1, <1>2 DEF StreamInv

(* Every step keeps the bytes in order.                                    *)
LEMMA StreamNext ==
    ASSUME Plain
    PROVE  IInv /\ StreamInv /\ OneEach /\ [Next]_vars => StreamInv'
<1> SUFFICES ASSUME IInv, StreamInv, OneEach, [Next]_vars PROVE StreamInv'
  OBVIOUS
<1>1. ASSUME NEW e \in Env, Start(e) PROVE StreamInv'
  <2>1. 1 .. MaxRequest \subseteq Nat \ {0}
    BY PipeAssumption DEF PipeAssumption
  <2> QED
    BY <1>1, <2>1, PipeFlow, WriteFlow, StartFlow DEF Start
<1>2. ASSUME NEW e \in Env, Continue(e) PROVE StreamInv'
  <2>1. CASE room(e) \/ load(e) \/ byte(e) \/ position(e) \/ advance(e)
    BY <2>1, RoomFlow, LoadFlow, ByteFlow, PositionFlow, AdvanceFlow
  <2>2. CASE page_fault(e)
    BY <2>2, ReturnFlow DEF page_fault
  <2> QED
    BY <1>2, <2>1, <2>2, CheckFlow, DescriptorFlow DEF Continue
<1>3. ASSUME NEW f \in Env, Schedule(f) PROVE StreamInv'
  BY <1>3, SwitchFlow DEF Schedule, clock, yield
<1>4. ASSUME NEW e \in Env, NEW c \in Env, fork(e, c) PROVE StreamInv'
  BY <1>4, StartFlow, ConstantTypes
<1>5. CASE UNCHANGED vars
  <2>1. UNCHANGED pipeVars /\ pc' = pc /\ reg' = reg
    BY <1>5 DEF vars
  <2>2. \A f \in Env : Flows(f)'
    BY <2>1, FlowsSame DEF StreamInv, Kept
  <2> QED
    BY <2>1, <2>2 DEF StreamInv, Stream, pipeVars
<1> QED
  BY <1>1, <1>2, <1>3, <1>4, <1>5, DestroyFlow DEF Next

(* With one reader and one writer at a time a reader gets the bytes in the *)
(* order they were written, however the two are interleaved and whoever    *)
(* forks, closes, dies or runs out of memory meanwhile: InOrder.           *)
THEOREM PipeInOrder == ASSUME Plain PROVE Spec /\ []OneEach => []InOrder
<1>1. StreamInv => InOrder
  BY DEF StreamInv, Flows, Loaded, InOrder
<1>2. IInv /\ StreamInv /\ OneEach /\ [Next]_vars => StreamInv'
  BY StreamNext
<1> QED
  BY <1>1, <1>2, StreamInit, SpecInv, PTL DEF Spec

(***************************************************************************)
(* The bounded queue.                                                      *)
(***************************************************************************)

(* The bytes of the places r up to w.                                      *)
Bytes(r, w) == [k \in 1 .. w - r |-> r + k - 1]

(* Taking the first and adding the next.                                   *)
LEMMA BytesSeq ==
    ASSUME NEW r \in Nat, NEW w \in Nat, r <= w
    PROVE  /\ Len(Bytes(r, w)) = w - r
           /\ r = w => Bytes(r, w) = <<>>
           /\ Append(Bytes(r, w), w) = Bytes(r, w + 1)
           /\ r < w => Bytes(r, w) # <<>> /\ Tail(Bytes(r, w)) = Bytes(r + 1, w)
<1>1. PICK n \in Nat : n = w - r
  OBVIOUS
<1>2. PICK b : b = Bytes(r, w)
  OBVIOUS
<1>3. b = [k \in 1 .. n |-> r + k - 1] /\ b \in Seq(Nat) /\ Len(b) = n
  BY <1>1, <1>2 DEF Bytes
<1>4. n = 0 => b = <<>>
  BY <1>3
<1>5. Append(b, w) = Bytes(r, w + 1)
  <2>1. Bytes(r, w + 1) = [k \in 1 .. n + 1 |-> r + k - 1]
    BY <1>1 DEF Bytes
  <2>2. PICK c : c = Append(b, w)
    OBVIOUS
  <2>3. c \in Seq(Nat) /\ Len(c) = n + 1 /\ DOMAIN c = 1 .. n + 1
    BY <1>3, <2>2
  <2>4. ASSUME NEW k \in 1 .. n + 1 PROVE c[k] = r + k - 1
    BY <1>1, <1>3, <2>2
  <2>5. c = [k \in 1 .. n + 1 |-> r + k - 1]
    BY <2>3, <2>4
  <2> QED
    BY <2>1, <2>2, <2>5
<1>6. ASSUME n > 0 PROVE b # <<>> /\ Tail(b) = Bytes(r + 1, w)
  <2>1. Bytes(r + 1, w) = [k \in 1 .. n - 1 |-> r + k]
    <3>1. w - (r + 1) = n - 1 /\ \A k \in 1 .. n - 1 : (r + 1) + k - 1 = r + k
      BY <1>1
    <3> QED
      BY <3>1 DEF Bytes
  <2>2. PICK c : c = Tail(b)
    OBVIOUS
  <2>3. b # <<>>
    BY <1>3, <1>6, EmptySeq
  <2>4. /\ c \in Seq(Nat) /\ Len(c) = n - 1 /\ DOMAIN c = 1 .. n - 1
        /\ \A k \in 1 .. n - 1 : c[k] = r + k
    <3>1. c \in Seq(Nat) /\ Len(c) = n - 1 /\ \A k \in 1 .. n - 1 : c[k] = b[k + 1]
      BY ONLY <1>3, <2>2, <2>3, HeadTailProperties
    <3>2. DOMAIN c = 1 .. n - 1
      BY ONLY <3>1, LenProperties
    <3>3. \A k \in 1 .. n - 1 : b[k + 1] = r + k
      BY <1>3
    <3> QED
      BY ONLY <3>1, <3>2, <3>3
  <2>5. c = [k \in 1 .. n - 1 |-> r + k]
    BY ONLY <2>4
  <2> QED
    BY <2>1, <2>2, <2>3, <2>5
<1>7. (r = w => n = 0) /\ (r < w => n > 0)
  BY <1>1
<1>8. Len(b) = w - r
  BY <1>1, <1>3
<1> QED
  BY ONLY <1>2, <1>4, <1>5, <1>6, <1>7, <1>8

(* What lies in the ring are the bytes between the positions: r and w with *)
(* ring b.                                                                 *)
LEMMA RingIs ==
    ASSUME NEW r \in Nat, NEW w \in Nat, r <= w, w < PosMod, NEW b,
           \A k \in Nat : r <= k /\ k < w => b[k % BY2PIPE] = k
    PROVE  [k \in 1 .. (w - r) % PosMod |-> b[(r + k - 1) % BY2PIPE]] = Bytes(r, w)
<1>1. (w - r) % PosMod = w - r
  <2>1. PosMod \in Nat /\ w - r \in 0 .. PosMod - 1
    BY PipeAssumption DEF PipeAssumption
  <2> QED
    BY <2>1, Small
<1>2. ASSUME NEW k \in 1 .. w - r PROVE b[(r + k - 1) % BY2PIPE] = r + k - 1
  <2>1. PICK x : x = r + k - 1
    OBVIOUS
  <2>2. x \in Nat /\ r <= x /\ x < w
    BY <2>1
  <2> QED
    BY <2>1, <2>2
<1> QED
  BY ONLY <1>1, <1>2 DEF Bytes

(* So it is in every state, and in the next one.                           *)
LEMMA QueueIs == ASSUME IInv, StreamInv PROVE Queue = Bytes(rpos, wpos)
<1>1. rpos \in Nat /\ wpos \in Nat /\ wpos < PosMod
  BY PipeAssumption DEF IInv, PipeTypeOK, PipeAssumption
<1> QED
  BY <1>1, RingIs DEF StreamInv, Stream, Queue, Unread

(* The same of the state after a step.                                     *)
LEMMA QueueNext == ASSUME IInv', StreamInv' PROVE Queue' = Bytes(rpos', wpos')
<1>1. rpos' \in Nat /\ wpos' \in Nat /\ wpos' < PosMod
  BY PipeAssumption DEF IInv, PipeTypeOK, PipeAssumption
<1>2. /\ rpos' <= wpos'
      /\ \A k \in Nat : rpos' <= k /\ k < wpos' => buf'[k % BY2PIPE] = k
  BY DEF StreamInv, Stream
<1>3. Queue' = [k \in 1 .. (wpos' - rpos') % PosMod |-> buf'[(rpos' + k - 1) % BY2PIPE]]
  BY DEF Queue, Unread
<1> QED
  BY <1>1, <1>2, <1>3, RingIs

(* What a step does to the positions.                                      *)
LEMMA PositionSteps ==
    ASSUME IInv, StreamInv, Plain, [Next]_vars
    PROVE  \/ rpos' = rpos /\ wpos' = wpos
           \/ rpos' = 0 /\ wpos' = 0
           \/ rpos < wpos /\ rpos' = rpos + 1 /\ wpos' = wpos
           \/ wpos < rpos + BY2PIPE /\ wpos' = (wpos + 1) % PosMod /\ wpos' = wpos + 1 /\ rpos' = rpos
<1> DEFINE Same == rpos' = rpos /\ wpos' = wpos
<1>1. ASSUME NEW e \in Env, Start(e), ~ pipe(e) PROVE Same
  <2>1. UNCHANGED pipeVars
    <3>1. PICK l, o, s, a : Enter(e, l, o, s, a)
      BY <1>1 DEF Start, pipeisclosed, close, read, write, dup
    <3> QED
      BY <3>1 DEF Enter
  <2> QED
    BY <2>1 DEF pipeVars
<1>2. ASSUME NEW e \in Env, Continue(e), ~ position(e) PROVE Same
  <2>1. CASE room(e) \/ page_fault(e) \/ load(e) \/ byte(e) \/ advance(e)
    BY <2>1 DEF room, page_fault, load, byte, advance, pipeVars
  <2>2. CASE runs(e) \/ pageref_fd(e) \/ pageref_p(e) \/ again(e)
    BY <2>2 DEF runs, pageref_fd, pageref_p, again, pipeVars
  <2>3. CASE close_fd(e) \/ close_data(e) \/ dup_data(e) \/ dup_fd(e)
    BY <2>3 DEF close_fd, close_data, dup_data, dup_fd, pipeVars
  <2>4. CASE fork_fd(e) \/ fork_data(e) \/ fork_run(e)
    BY <2>4 DEF fork_fd, fork_data, fork_run, pipeVars
  <2> QED
    BY <1>2, <2>1, <2>2, <2>3, <2>4 DEF Continue
<1>3. ASSUME NEW f \in Env, Schedule(f) PROVE Same
  BY <1>3 DEF Schedule, clock, yield, pipeVars
<1>4. ASSUME NEW e \in Env, env_destroy(e) PROVE Same
  BY <1>4 DEF env_destroy, pipeVars
<1>5. ASSUME NEW e \in Env, NEW c \in Env, fork(e, c) PROVE Same
  BY <1>5 DEF fork, Enter, pipeVars
<1>6. ASSUME NEW e \in Env, pipe(e) PROVE rpos' = 0 /\ wpos' = 0
  BY <1>6 DEF pipe
<1>7. ASSUME NEW e \in Env, position(e), reg[e].op = "read"
      PROVE  rpos < wpos /\ rpos' = rpos + 1 /\ wpos' = wpos
  <2>1. reg[e].at = rpos /\ rpos < wpos
    BY <1>7 DEF position, At, StreamInv, Flows, Reads, Copying
  <2> QED
    BY <1>7, <2>1, Positions DEF position
<1>8. ASSUME NEW e \in Env, position(e), reg[e].op # "read"
      PROVE  /\ wpos < rpos + BY2PIPE /\ wpos' = (wpos + 1) % PosMod
             /\ wpos' = wpos + 1 /\ rpos' = rpos
  <2>1. pc[e] = "position" /\ reg[e].op = "write" /\ Left(e) = reg[e].arg - reg[e].i - 0
    BY <1>8 DEF position, At, Left
  <2>2. /\ reg[e].at = wpos /\ wpos < rpos + BY2PIPE
        /\ reg[e].arg \in Nat /\ reg[e].i < reg[e].arg /\ wpos + Left(e) <= MaxBytes
    BY <2>1 DEF StreamInv, Flows, Writes, Copying, InLoop
  <2>3. reg[e].i \in Nat
    BY RegTypes DEF IInv, RegType
  <2>4. wpos < MaxBytes
    BY <2>1, <2>2, <2>3, Positions
  <2> QED
    BY <1>8, <2>2, <2>4, Positions DEF position
<1>9. CASE UNCHANGED vars
  BY <1>9 DEF vars, pipeVars
<1> QED
  BY <1>1, <1>2, <1>3, <1>4, <1>5, <1>6, <1>7, <1>8, <1>9 DEF Next

(* A step puts a byte, takes one, starts a new pipe or leaves the queue    *)
(* alone.                                                                  *)
LEMMA QueueStep ==
    ASSUME IInv, StreamInv, IInv', StreamInv', Plain, [Next]_vars
    PROVE  [BS!Next]_(BS!bsVars)
<1>1. Queue = Bytes(rpos, wpos) /\ Queue' = Bytes(rpos', wpos')
  BY QueueIs, QueueNext
<1>2. rpos \in Nat /\ wpos \in Nat /\ rpos <= wpos
  BY Positions DEF StreamInv, Stream
<1>3. CASE rpos' = rpos /\ wpos' = wpos
  BY <1>1, <1>3 DEF BS!bsVars
<1>4. CASE rpos' = 0 /\ wpos' = 0
  <2>1. Bytes(0, 0) = <<>>
    BY BytesSeq
  <2> QED
    BY <1>1, <1>4, <2>1 DEF BS!Next, BS!Fresh
<1>5. CASE rpos < wpos /\ rpos' = rpos + 1 /\ wpos' = wpos
  BY <1>1, <1>2, <1>5, BytesSeq DEF BS!Next, BS!Get
<1>6. CASE wpos < rpos + BY2PIPE /\ wpos' = (wpos + 1) % PosMod /\ wpos' = wpos + 1 /\ rpos' = rpos
  <2>1. Len(Queue) < BY2PIPE
    <3>1. Len(Queue) = wpos - rpos
      BY <1>1, <1>2, BytesSeq
    <3> QED
      BY <1>2, <1>6, <3>1, Positions
  <2>2. Queue' = Append(Queue, wpos)
    BY <1>1, <1>2, <1>6, BytesSeq
  <2> QED
    BY <1>6, <2>1, <2>2 DEF BS!Next, BS!Put
<1> QED
  BY <1>3, <1>4, <1>5, <1>6, PositionSteps

(* With one reader and one writer at a time the pipe is a bounded          *)
(* first-in first-out queue, whatever happens to the descriptors and the   *)
(* environments: ImplementsByteStream.                                     *)
THEOREM PipeByteStream == ASSUME Plain PROVE Spec /\ []OneEach => ImplementsByteStream
<1>1. Init => BS!Init
  <2> SUFFICES ASSUME Init PROVE BS!Init
    OBVIOUS
  <2>1. Queue = Bytes(0, 0)
    <3>1. Queue = Bytes(rpos, wpos)
      BY InitInv, StreamInit, QueueIs
    <3> QED
      BY <3>1 DEF Init
  <2>2. Bytes(0, 0) = <<>>
    BY BytesSeq
  <2> QED
    BY <2>1, <2>2 DEF Init, BS!Init
<1>2. IInv /\ StreamInv /\ OneEach /\ [Next]_vars => StreamInv'
  BY StreamNext
<1>3. IInv /\ IInv' /\ StreamInv /\ StreamInv' /\ [Next]_vars => [BS!Next]_(BS!bsVars)
  BY QueueStep
<1> QED
  BY <1>1, <1>2, <1>3, StreamInit, SpecInv, PTL DEF Spec, ImplementsByteStream, BS!Spec

=============================================================================
