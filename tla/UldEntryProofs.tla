--------------------------- MODULE UldEntryProofs ---------------------------
(***************************************************************************)
(* Proof that memmove moves, for every memory and every two regions, and   *)
(* that an application is entered with its arguments intact, for every     *)
(* number and length of arguments, every sp_base and every overlap of the  *)
(* new stack with the place the arguments come from.                       *)
(***************************************************************************)
EXTENDS UldEntry, TLAPS

(* Nothing is moved yet when memmove has been called. *)
LEMMA MoveInvInit == MoveInit => MoveInv
<1> SUFFICES ASSUME MoveInit PROVE MoveInv
  OBVIOUS
<1>1. mem = MovedBytes(Region(d0, 0)) /\ mem = MovedBytes(Region(d0 + n0, 0))
  BY DEF MoveInit, MovedBytes, Region
<1>2. n0 - n0 = 0 /\ n \in 0 .. n0
  BY DEF MoveInit
<1> QED
  BY <1>1, <1>2 DEF MoveInit, MoveInv, Direction

(* Moving forward overwrites only what is moved already: the source lies above. *)
LEMMA ForwardKeeps == ASSUME MoveInv, CopyForward PROVE MoveInv'
<1> DEFINE k == n0 - n
<1>1. /\ d0 \in Int /\ s0 \in Int /\ n0 \in Nat /\ n \in 1 .. n0 /\ k \in 0 .. n0 - 1
      /\ d = d0 + k /\ s = s0 + k /\ s0 > d0
      /\ mem0 \in [Addr -> Byte] /\ mem = MovedBytes(Region(d0, k))
  BY DEF MoveInv, CopyForward, Direction
<1>2. /\ n' = n - 1 /\ n0' - n' = k + 1 /\ n' \in 0 .. n0
      /\ d' = d0 + (k + 1) /\ s' = s0 + (k + 1)
  BY <1>1 DEF CopyForward
<1> HIDE DEF k
<1>3. d \in Addr /\ s \in Addr
  BY <1>1 DEF MoveInv, Region
<1>4. mem[s] = mem0[s]
  BY <1>1, <1>3 DEF MovedBytes, Region
<1>5. mem' = MovedBytes(Region(d0, k + 1))
  <2>1. mem' = [a \in Addr |-> IF a = d THEN mem0[s] ELSE mem[a]]
    BY <1>1, <1>3, <1>4 DEF CopyForward, MovedBytes
  <2>2. \A a \in Addr : (IF a = d THEN mem0[s] ELSE mem[a])
                        = IF a \in Region(d0, k + 1) THEN mem0[s0 + (a - d0)] ELSE mem0[a]
    <3> SUFFICES ASSUME NEW a \in Addr
                 PROVE  (IF a = d THEN mem0[s] ELSE mem[a])
                        = IF a \in Region(d0, k + 1) THEN mem0[s0 + (a - d0)] ELSE mem0[a]
      OBVIOUS
    <3>1. a \in Int
      BY AddrAssumption
    <3>2. CASE a = d
      BY <1>1, <3>1, <3>2 DEF Region
    <3>3. CASE a # d
      <4>1. a \in Region(d0, k) <=> a \in Region(d0, k + 1)
        BY <1>1, <3>1, <3>3 DEF Region
      <4> QED
        BY <1>1, <3>3, <4>1 DEF MovedBytes
    <3> QED
      BY <3>2, <3>3
  <2> QED
    BY <2>1, <2>2 DEF MovedBytes
<1>6. mem' \in [Addr -> Byte]
  BY <1>3, <1>4 DEF MoveInv, CopyForward
<1>7. mem' = MovedBytes(Region(d0, n0 - n))'
  <2>1. /\ mem0' = mem0 /\ d0' = d0 /\ s0' = s0 /\ n0' - n' = k + 1
    BY <1>2 DEF CopyForward
  <2> QED
    BY <1>5, <2>1 DEF MovedBytes
<1>8. /\ mem0' = mem0 /\ d0' = d0 /\ s0' = s0 /\ n0' = n0 /\ way' = way /\ way = "forward"
  BY DEF CopyForward
<1> QED
  BY <1>2, <1>6, <1>7, <1>8 DEF MoveInv, Region, Direction

(* Moving backward, too: the source lies below. *)
LEMMA BackwardKeeps == ASSUME MoveInv, CopyBackward PROVE MoveInv'
<1>1. /\ d0 \in Int /\ s0 \in Int /\ n0 \in Nat /\ n \in 1 .. n0
      /\ d = d0 + n /\ s = s0 + n /\ s0 < d0
      /\ mem0 \in [Addr -> Byte] /\ mem = MovedBytes(Region(d0 + n, n0 - n))
  BY DEF MoveInv, CopyBackward, Direction
<1>2. n' = n - 1 /\ n' \in 0 .. n0 /\ d' = d0 + (n - 1) /\ s' = s0 + (n - 1)
  BY <1>1 DEF CopyBackward
<1>3. d - 1 \in Addr /\ s - 1 \in Addr
  BY <1>1 DEF MoveInv, Region
<1>4. mem[s - 1] = mem0[s - 1]
  BY <1>1, <1>3 DEF MovedBytes, Region
<1>5. mem' = MovedBytes(Region(d0 + (n - 1), n0 - (n - 1)))
  <2>1. mem' = [a \in Addr |-> IF a = d - 1 THEN mem0[s - 1] ELSE mem[a]]
    BY <1>1, <1>3, <1>4 DEF CopyBackward, MovedBytes
  <2>2. \A a \in Addr : (IF a = d - 1 THEN mem0[s - 1] ELSE mem[a])
                        = IF a \in Region(d0 + (n - 1), n0 - (n - 1))
                          THEN mem0[s0 + (a - d0)] ELSE mem0[a]
    <3> SUFFICES ASSUME NEW a \in Addr
                 PROVE  (IF a = d - 1 THEN mem0[s - 1] ELSE mem[a])
                        = IF a \in Region(d0 + (n - 1), n0 - (n - 1))
                          THEN mem0[s0 + (a - d0)] ELSE mem0[a]
      OBVIOUS
    <3>1. a \in Int
      BY AddrAssumption
    <3>2. CASE a = d - 1
      BY <1>1, <3>1, <3>2 DEF Region
    <3>3. CASE a # d - 1
      <4>1. a \in Region(d0 + n, n0 - n) <=> a \in Region(d0 + (n - 1), n0 - (n - 1))
        BY <1>1, <3>1, <3>3 DEF Region
      <4> QED
        BY <1>1, <3>3, <4>1 DEF MovedBytes
    <3> QED
      BY <3>2, <3>3
  <2> QED
    BY <2>1, <2>2 DEF MovedBytes
<1>6. mem' \in [Addr -> Byte]
  BY <1>3, <1>4 DEF MoveInv, CopyBackward
<1>7. mem' = MovedBytes(Region(d0 + n, n0 - n))'
  <2>1. mem0' = mem0 /\ d0' = d0 /\ s0' = s0 /\ n0' = n0 /\ n' = n - 1
    BY DEF CopyBackward
  <2> QED
    BY <1>5, <2>1 DEF MovedBytes
<1>8. /\ mem0' = mem0 /\ d0' = d0 /\ s0' = s0 /\ n0' = n0 /\ way' = way /\ way = "backward"
  BY DEF CopyBackward
<1>9. d' = d0' + n' /\ s' = s0' + n'
  BY <1>2, <1>8
<1> QED
  BY <1>2, <1>6, <1>7, <1>8, <1>9 DEF MoveInv, Region, Direction

LEMMA MoveInvExact == MoveInv => MoveExact
<1> SUFFICES ASSUME MoveInv, n = 0
             PROVE  mem = MovedBytes(Region(d0, n0))
  BY DEF MoveExact, Moved
<1>1. CASE way = "forward"
  BY <1>1 DEF MoveInv
<1>2. CASE way = "backward"
  BY <1>2 DEF MoveInv
<1>3. CASE way = "none"
  <2>1. s0 = d0 /\ d0 \in Int /\ mem = mem0 /\ mem0 \in [Addr -> Byte]
    BY <1>3 DEF MoveInv, Direction
  <2>2. \A a \in Addr : s0 + (a - d0) = a
    BY <2>1, AddrAssumption
  <2> QED
    BY <2>1, <2>2 DEF MovedBytes
<1> QED
  BY <1>1, <1>2, <1>3 DEF MoveInv, Direction

(* When memmove returns, the destination holds what the source held and
   nothing else has changed, for every memory, length and overlap. *)
THEOREM MemmoveIsExact == MoveSpec => []MoveExact
<1>1. MoveInit => MoveInv
  BY MoveInvInit
<1>2. MoveInv /\ [Moving]_moveVars => MoveInv'
  <2> SUFFICES ASSUME MoveInv, [Moving]_moveVars PROVE MoveInv'
    OBVIOUS
  <2>1. CASE UNCHANGED moveVars
    BY <2>1 DEF moveVars, MoveInv, MovedBytes, Region, Direction
  <2> QED
    BY <2>1, ForwardKeeps, BackwardKeeps DEF Moving
<1>3. MoveInv => MoveExact
  BY MoveInvExact
<1> QED
  BY <1>1, <1>2, <1>3, PTL DEF MoveSpec

-----------------------------------------------------------------------------
(* The inductive invariant of the entry *)

(* A word and an argument's string, as they lie in memory m. *)
WordAt(m, a, word) == \A k \in 0 .. 3 : a + k \in Addr /\ m[a + k] = WordByte(word, k)
StringIs(m, p, i) ==
    /\ Region(p, args[i] + 1) \subseteq Addr
    /\ \A k \in 0 .. args[i] - 1 : m[p + k] = Chr(i, k)
    /\ m[p + args[i]] = Nul

(* Argument i is on the stack, at or above lo and below argv, which ends at
   top; its slot points at where it will be when the stack has moved by off. *)
Slot(top, i) == top - 4 * (Argc + 1) + 4 * (i - 1)
ArgAt(m, top, lo, off, i) ==
    \E p \in Int : /\ lo <= p /\ p + args[i] < top - 4 * (Argc + 1)
                   /\ WordAt(m, Slot(top, i), Ptr(p + off))
                   /\ StringIs(m, p, i)

(* The arguments after k are on the stack, the first of them at lo. *)
StackAt(m, top, lo, off, k) ==
    /\ WordAt(m, top - 4, Null)
    /\ \A i \in k + 1 .. Argc : ArgAt(m, top, lo, off, i)
    /\ k < Argc => WordAt(m, Slot(top, k + 1), Ptr(lo + off))

Shift == IF spBase = 0 THEN 0 ELSE spBase - (Caller - 40)
CallerKept(m, from) == \A a \in Addr : a >= from => m[a] = CallerMem(args)[a]
RegsKept(m) == \A i \in 0 .. 9 : WordAt(m, Caller - 40 + 4 * i, Saved(i))

(* The caller's stack, down to lo, holds the arguments after k. *)
Copied(m, lo, k) ==
    /\ CallerKept(m, Caller) /\ RegsKept(m)
    /\ lo % 8 = 0
    /\ lo <= Caller - 40 - 4 * ArgvWords
    /\ Caller - 40 - 4 * ArgvWords - (Argc - k) * Padded(MaxLen) <= lo
    /\ k = Argc => lo = Caller - 40 - 4 * ArgvWords
    /\ StackAt(m, Caller - 40, lo, Shift, k)

(* What an application is entered with: its stack, from lo to top, and what is
   kept of the caller when the stack has moved by off. *)
Entered(m, top, lo, off) ==
    /\ top = IF spBase = 0 THEN Caller - 40 ELSE spBase
    /\ lo % 8 = 0 /\ lo + 4 * ArgvWords <= top
    /\ Argc = 0 => lo = top - 8
    /\ StackAt(m, top, lo, 0, 0)
    /\ IF off = 0 THEN top = Caller - 40 /\ CallerKept(m, Caller) /\ RegsKept(m)
       ELSE spBase # 0

(* CallerRestored, but for the return address after a reset. *)
FrameRestored ==
    pc = "returned" =>
        IF r11 = 0
        THEN /\ sp = Caller /\ \A i \in 0 .. 9 : regs[i] = Saved(i)
             /\ LET before == CallerMem(args)
                IN  \A a \in Addr : a >= Caller => mem[a] = before[a]
        ELSE sp = spBase + 40

(* The bounds that the arguments and sp_base keep. *)
ArgsOK == args \in Seq(ArgLens) /\ Argc <= MaxArgs
BaseOK == \E base \in SpBases : spBase = Align8(base)
CommonInv == TypeOK /\ ArgsOK /\ BaseOK

InCall ==
    /\ pc = "call" => mem = CallerMem(args) /\ sp = Caller /\ r11 = 0 /\ way = "idle"
    /\ pc = "args" => r7 = Caller - 40 /\ r10 <= Argc /\ Copied(mem, sp, r10)
    /\ pc = "move" => /\ MoveInv /\ Copied(mem0, sp, 0) /\ r7 = Caller - 40
                      /\ s0 = sp /\ d0 = sp + r11 /\ n0 = r7 - sp /\ r11 # 0
    /\ pc \in {"call", "args", "entry", "ran", "returned"} => way = "idle"
    /\ pc # "call" => r11 = Shift
    /\ pc \in {"move", "entry", "ran"} => r9 = <<"base", 0>>
    /\ pc \in {"entry", "ran"} => Entered(mem, r7, sp, r11)
    /\ FrameRestored

EInv == CommonInv /\ InCall

-----------------------------------------------------------------------------
(* Arithmetic *)

LEMMA TimesMono == ASSUME NEW j \in Nat, NEW k \in Nat, NEW w \in Nat, j <= k
                   PROVE  j * w \in Nat /\ j * w <= k * w
<1>1. (k - j) * w \in Nat /\ j * w \in Nat /\ k * w = j * w + (k - j) * w
  BY SMTT(30)
<1> QED
  BY <1>1

LEMMA TimesStep == ASSUME NEW j \in Nat, NEW w \in Nat
                   PROVE  (j + 1) * w = j * w + w
  BY SMTT(30)

(* The copy of an argument takes whole double words, enough for its null byte. *)
LEMMA PaddedFacts == ASSUME NEW l \in 0 .. MaxLen
                     PROVE  /\ Padded(l) \in Nat /\ Padded(MaxLen) \in Nat
                            /\ Padded(l) % 8 = 0
                            /\ l + 1 <= Padded(l) /\ Padded(l) <= Padded(MaxLen)
  BY BoundAssumption DEF Padded

LEMMA Align8Facts == ASSUME NEW a \in Nat
                     PROVE  Align8(a) \in Nat /\ Align8(a) % 8 = 0 /\ (a % 8 = 0 => Align8(a) = a)
  BY DEF Align8

LEMMA Mod8Sums == ASSUME NEW a \in Int, NEW b \in Int, a % 8 = 0, b % 8 = 0
                  PROVE  (a + b) % 8 = 0 /\ (a - b) % 8 = 0
  BY SMTT(30)

(* argv with its null pointer takes an even number of words. *)
LEMMA ArgvWordsFacts == ASSUME Argc \in Nat
                        PROVE  /\ ArgvWords \in Nat /\ Argc + 1 <= ArgvWords /\ ArgvWords <= Argc + 2
                               /\ (4 * ArgvWords) % 8 = 0
                               /\ Argc = 0 => ArgvWords = 2
  BY DEF ArgvWords
-----------------------------------------------------------------------------
(* What the caller has in memory *)

LEMMA ArgsFacts == ASSUME ArgsOK
                   PROVE  /\ Argc \in Nat /\ Argc <= MaxArgs /\ MaxArgs \in Nat
                          /\ DOMAIN args = 1 .. Argc
                          /\ \A i \in 1 .. Argc : args[i] \in 0 .. MaxLen
<1>1. Argc \in Nat /\ DOMAIN args = 1 .. Argc /\ \A i \in 1 .. Argc : args[i] \in ArgLens
  BY DEF ArgsOK, Argc
<1> QED
  BY <1>1, BoundAssumption DEF ArgsOK

(* The strings lie one after the other, behind argv and in memory. *)
LEMMA StringRoom == ASSUME ArgsOK, NEW i \in 1 .. Argc
                    PROVE  /\ StringAt(args, i) \in Nat
                           /\ CallerArgv + 4 * Argc <= StringAt(args, i)
                           /\ Region(StringAt(args, i), MaxLen + 1) \subseteq Addr
<1> DEFINE w == MaxLen + 1
           o == (i - 1) * w
           t == MaxArgs * w
<1>1. Argc \in Nat /\ Argc <= MaxArgs /\ MaxArgs \in Nat /\ w \in Nat
  BY ArgsFacts, BoundAssumption
<1>2. o \in Nat /\ o + w <= t /\ t \in Nat
  <2>1. i - 1 \in Nat /\ (i - 1) + 1 <= MaxArgs
    BY <1>1
  <2>2. ((i - 1) + 1) * w = o + w
    BY <1>1, <2>1, TimesStep
  <2>3. ((i - 1) + 1) * w <= t /\ MaxArgs * w <= MaxArgs * w /\ t \in Nat
    BY <1>1, <2>1, TimesMono
  <2>4. o \in Nat
    BY <1>1, <2>1, TimesMono
  <2> QED
    BY <2>2, <2>3, <2>4
<1>3. StringAt(args, i) = CallerArgv + 4 * Argc + o
  <2>1. (MaxLen + 1) * (i - 1) = (i - 1) * (MaxLen + 1)
    BY <1>1, BoundAssumption
  <2> QED
    BY <2>1 DEF StringAt, Argc
<1>4. MaxArgs * (4 + MaxLen + 1) = 4 * MaxArgs + t
  BY BoundAssumption, SMTT(30)
<1> HIDE DEF o, t
<1>5. Region(Caller, CallerArgv - Caller + (4 * MaxArgs + t)) \subseteq Addr
  BY <1>4, RoomAssumption
<1>6. Caller \in Nat /\ CallerArgv \in Nat /\ CallerArgv > Caller + 4
  BY CallerAssumption
<1>7. Region(StringAt(args, i), MaxLen + 1) \subseteq Addr
  <2> SUFFICES ASSUME NEW a \in Region(StringAt(args, i), MaxLen + 1) PROVE a \in Addr
    OBVIOUS
  <2>1. a \in Region(Caller, CallerArgv - Caller + (4 * MaxArgs + t))
    BY <1>1, <1>2, <1>3, <1>6, BoundAssumption DEF Region
  <2> QED
    BY <1>5, <2>1
<1> QED
  BY <1>1, <1>2, <1>3, <1>6, <1>7

(* Two strings have no byte in common. *)
LEMMA StringsApart ==
    ASSUME ArgsOK, NEW i \in 1 .. Argc, NEW j \in 1 .. Argc, NEW a \in Int,
           a \in Region(StringAt(args, i), args[i] + 1),
           a \in Region(StringAt(args, j), args[j] + 1)
    PROVE  i = j
<1>1. ASSUME NEW x \in 1 .. Argc, NEW y \in 1 .. Argc, x < y
      PROVE  StringAt(args, x) + (MaxLen + 1) <= StringAt(args, y)
  <2> DEFINE w == MaxLen + 1
  <2>1. Argc \in Nat /\ w \in Nat /\ x - 1 \in Nat /\ y - 1 \in Nat /\ (x - 1) + 1 <= y - 1
    BY <1>1, ArgsFacts, BoundAssumption
  <2>2. ((x - 1) + 1) * w = (x - 1) * w + w /\ ((x - 1) + 1) * w <= (y - 1) * w
    BY <2>1, TimesStep, TimesMono
  <2>3. w * (x - 1) = (x - 1) * w /\ w * (y - 1) = (y - 1) * w
    BY <2>1
  <2>4. /\ StringAt(args, x) = CallerArgv + 4 * Argc + w * (x - 1)
        /\ StringAt(args, y) = CallerArgv + 4 * Argc + w * (y - 1)
    BY DEF StringAt, Argc
  <2>5. (x - 1) * w \in Nat /\ (y - 1) * w \in Nat
    BY <2>1, TimesMono
  <2>6. ASSUME NEW p \in Nat, NEW q \in Nat, NEW b \in Nat, NEW c \in Nat, p + c <= q
        PROVE  (b + p) + c <= b + q
    BY <2>6
  <2>7. CallerArgv + 4 * Argc \in Nat
    BY <2>1, CallerAssumption
  <2> QED
    BY <2>1, <2>2, <2>3, <2>4, <2>5, <2>6, <2>7
<1>2. args[i] \in 0 .. MaxLen /\ args[j] \in 0 .. MaxLen /\ MaxLen \in Nat
  BY ArgsFacts, BoundAssumption
<1>3. StringAt(args, i) \in Nat /\ StringAt(args, j) \in Nat
  BY StringRoom
<1>4. ~(i < j) /\ ~(j < i)
  BY <1>1, <1>2, <1>3 DEF Region
<1> QED
  BY <1>4, ArgsFacts

(* The fifth argument, each pointer of argv and each string. *)
LEMMA CallerMemBase == ASSUME ArgsOK
                       PROVE  WordAt(CallerMem(args), Caller, <<"base", 0>>)
<1> SUFFICES ASSUME NEW k \in 0 .. 3
             PROVE  /\ Caller + k \in Addr
                    /\ CallerMem(args)[Caller + k] = WordByte(<<"base", 0>>, k)
  BY DEF WordAt
<1>1. MaxArgs * (4 + MaxLen + 1) \in Nat
  BY BoundAssumption, TimesMono
<1>2. Caller + k \in Addr
  <2> DEFINE t == MaxArgs * (4 + MaxLen + 1)
  <2>1. t \in Nat
    BY <1>1
  <2> HIDE DEF t
  <2>2. Caller + k \in Region(Caller, CallerArgv - Caller + t)
    BY <2>1, CallerAssumption DEF Region
  <2> QED
    BY <2>2, RoomAssumption DEF t
<1>3. Caller + k \in Region(Caller, 4) /\ (Caller + k) - Caller = k
  BY CallerAssumption DEF Region
<1> QED
  BY <1>2, <1>3 DEF CallerMem, WordByte

LEMMA CallerMemArgv == ASSUME ArgsOK, NEW i \in 1 .. Argc
                       PROVE  WordAt(CallerMem(args), CallerArgv + 4 * (i - 1), Ptr(StringAt(args, i)))
<1> SUFFICES ASSUME NEW k \in 0 .. 3
             PROVE  /\ CallerArgv + 4 * (i - 1) + k \in Addr
                    /\ CallerMem(args)[CallerArgv + 4 * (i - 1) + k] = WordByte(Ptr(StringAt(args, i)), k)
  BY DEF WordAt
<1> DEFINE a == CallerArgv + 4 * (i - 1) + k
<1>1. /\ Argc \in Nat /\ Argc <= MaxArgs /\ MaxArgs \in Nat
      /\ Caller \in Nat /\ CallerArgv \in Nat /\ CallerArgv > Caller + 4
  BY ArgsFacts, CallerAssumption
<1>2. a \in Addr
  <2> DEFINE t == MaxArgs * (MaxLen + 1)
  <2>1. t \in Nat
    BY BoundAssumption, TimesMono
  <2>2. MaxArgs * (4 + MaxLen + 1) = 4 * MaxArgs + t
    BY BoundAssumption, SMTT(30)
  <2> HIDE DEF t
  <2>3. a \in Region(Caller, CallerArgv - Caller + (4 * MaxArgs + t))
    BY <1>1, <2>1 DEF Region
  <2> QED
    BY <2>2, <2>3, RoomAssumption
<1>3. /\ a \notin Region(Caller, 4) /\ a \in Region(CallerArgv, 4 * Argc)
  BY <1>1 DEF Region
<1>4. (a - CallerArgv) \div 4 + 1 = i /\ (a - CallerArgv) % 4 = k
  <2>1. a - CallerArgv = 4 * (i - 1) + k
    BY <1>1
  <2>2. (4 * (i - 1) + k) \div 4 = i - 1 /\ (4 * (i - 1) + k) % 4 = k
    BY <1>1
  <2> QED
    BY <1>1, <2>1, <2>2
<1> HIDE DEF a
<1>5. CallerMem(args)[a] = <<"ptr", StringAt(args, i), k>>
  BY <1>2, <1>3, <1>4 DEF CallerMem, Argc
<1> QED
  BY <1>2, <1>5 DEF a, Ptr, WordByte

LEMMA CallerMemString == ASSUME ArgsOK, NEW i \in 1 .. Argc
                         PROVE  StringIs(CallerMem(args), StringAt(args, i), i)
<1> DEFINE p == StringAt(args, i)
<1>1. /\ Argc \in Nat /\ args[i] \in 0 .. MaxLen /\ MaxLen \in Nat /\ DOMAIN args = 1 .. Argc
      /\ Caller \in Nat /\ CallerArgv \in Nat /\ CallerArgv > Caller + 4
  BY ArgsFacts, CallerAssumption, BoundAssumption
<1>2. p \in Nat /\ CallerArgv + 4 * Argc <= p /\ Region(p, MaxLen + 1) \subseteq Addr
  BY StringRoom
<1>3. ASSUME NEW k \in 0 .. args[i]
      PROVE  p + k \in Addr /\ CallerMem(args)[p + k] = IF k = args[i] THEN Nul ELSE Chr(i, k)
  <2> DEFINE a == p + k
  <2> HIDE DEF p
  <2>1. /\ a \in Region(p, MaxLen + 1) /\ a \in Region(p, args[i] + 1) /\ a - p = k /\ a \in Int
        /\ a \notin Region(Caller, 4) /\ a \notin Region(CallerArgv, 4 * Argc)
    BY <1>1, <1>2 DEF Region
  <2>2. a \in Addr
    BY <1>2, <2>1
  <2> HIDE DEF a
  <2>3. i \in DOMAIN args /\ a \in Region(StringAt(args, i), args[i] + 1)
    BY <1>1, <2>1 DEF p
  <2>4. (CHOOSE j \in DOMAIN args : a \in Region(StringAt(args, j), args[j] + 1)) = i
    <3>1. \A j \in DOMAIN args : a \in Region(StringAt(args, j), args[j] + 1) => j = i
      BY <1>1, <2>1, <2>3, StringsApart
    <3> QED
      BY <2>3, <3>1
  <2>5. CallerMem(args)[a] = IF a - p = args[i] THEN Nul ELSE Chr(i, a - p)
    BY <2>1, <2>2, <2>3, <2>4 DEF CallerMem, p, Argc
  <2> QED
    BY <2>1, <2>2, <2>5 DEF a
<1>4. Region(p, args[i] + 1) \subseteq Addr
  BY <1>1, <1>2 DEF Region
<1>5. \A k \in 0 .. args[i] - 1 : CallerMem(args)[p + k] = Chr(i, k)
  BY <1>1, <1>3
<1>6. CallerMem(args)[p + args[i]] = Nul
  BY <1>1, <1>3
<1> QED
  BY <1>4, <1>5, <1>6 DEF StringIs

(* The caller's memory holds no saved register. *)
LEMMA CallerMemType == ASSUME ArgsOK
                       PROVE  /\ CallerMem(args) \in [Addr -> Byte]
                              /\ \A a \in Addr : CallerMem(args)[a][1] # "reg"
<1> SUFFICES ASSUME NEW a \in Addr
             PROVE  CallerMem(args)[a] \in Byte /\ CallerMem(args)[a][1] # "reg"
  BY DEF CallerMem
<1>1. a \in Nat /\ Caller \in Nat /\ CallerArgv \in Nat /\ Argc \in Nat /\ DOMAIN args = 1 .. Argc
  BY RoomAssumption, CallerAssumption, ArgsFacts
<1>2. CASE a \in Region(Caller, 4)
  <2>1. a - Caller \in 0 .. 3
    BY <1>1, <1>2 DEF Region
  <2>2. CallerMem(args)[a] = WordByte(<<"base", 0>>, a - Caller)
    BY <1>2 DEF CallerMem, WordByte
  <2>3. <<"base", 0>> \in Words
    BY DEF Words
  <2>4. CallerMem(args)[a] \in Byte
    BY <2>1, <2>2, <2>3, ByteAssumption
  <2> QED
    BY <2>2, <2>4 DEF WordByte
<1>3. CASE a \notin Region(Caller, 4) /\ a \in Region(CallerArgv, 4 * Argc)
  <2> DEFINE i == (a - CallerArgv) \div 4 + 1
             k == (a - CallerArgv) % 4
  <2>1. i \in 1 .. Argc /\ k \in 0 .. 3
    BY <1>1, <1>3 DEF Region
  <2>2. CallerMem(args)[a] = <<"ptr", StringAt(args, i), k>>
    BY <1>3 DEF CallerMem, Argc
  <2> HIDE DEF i, k
  <2>3. StringAt(args, i) \in Addr
    <3>1. StringAt(args, i) \in Region(StringAt(args, i), MaxLen + 1)
      BY <2>1, StringRoom, BoundAssumption DEF Region
    <3> QED
      BY <2>1, <3>1, StringRoom
  <2>4. Ptr(StringAt(args, i)) \in Words /\ CallerMem(args)[a] = WordByte(Ptr(StringAt(args, i)), k)
    BY <2>2, <2>3 DEF Words, Ptr, WordByte
  <2> QED
    BY <2>1, <2>2, <2>4, ByteAssumption
<1>4. CASE /\ a \notin Region(Caller, 4) /\ a \notin Region(CallerArgv, 4 * Argc)
           /\ \E i \in DOMAIN args : a \in Region(StringAt(args, i), args[i] + 1)
  <2>1. PICK i \in 1 .. Argc : a \in Region(StringAt(args, i), args[i] + 1)
    BY <1>1, <1>4
  <2>2. args[i] \in 0 .. MaxLen /\ i \in 1 .. MaxArgs
    BY ArgsFacts
  <2> DEFINE k == a - StringAt(args, i)
  <2>3. k \in 0 .. args[i] /\ a = StringAt(args, i) + k
    BY <1>1, <2>1, <2>2, StringRoom DEF Region
  <2>4. CallerMem(args)[a] = IF k = args[i] THEN Nul ELSE Chr(i, k)
    <3>1. /\ \A x \in 0 .. args[i] - 1 : CallerMem(args)[StringAt(args, i) + x] = Chr(i, x)
          /\ CallerMem(args)[StringAt(args, i) + args[i]] = Nul
      BY CallerMemString DEF StringIs
    <3> QED
      BY <2>2, <2>3, <3>1
  <2> HIDE DEF k
  <2>5. k \in 0 .. MaxLen
    BY <2>2, <2>3, BoundAssumption
  <2> QED
    BY <2>2, <2>4, <2>5, ByteAssumption DEF Nul, Chr
<1>5. CASE /\ a \notin Region(Caller, 4) /\ a \notin Region(CallerArgv, 4 * Argc)
           /\ ~ \E i \in DOMAIN args : a \in Region(StringAt(args, i), args[i] + 1)
  <2>1. CallerMem(args)[a] = Any
    BY <1>5 DEF CallerMem, Argc
  <2> QED
    BY <2>1, ByteAssumption DEF Any
<1> QED
  BY <1>2, <1>3, <1>4, <1>5
-----------------------------------------------------------------------------
(* Reading memory *)

LEMMA LdrWord == ASSUME NEW a \in Int, NEW word, WordAt(mem, a, word)
                 PROVE  Ldr(a) = <<word[1], word[2]>>
<1>1. \A k \in 0 .. 3 : a + k \in Addr /\ mem[a + k] = <<word[1], word[2], k>>
  BY DEF WordAt, WordByte
<1>2. a \in Addr /\ a + 3 \in Addr /\ mem[a] = <<word[1], word[2], 0>>
  <2>1. a + 0 = a
    OBVIOUS
  <2> QED
    BY <1>1, <2>1
<1>3. mem[a][1] = word[1] /\ mem[a][2] = word[2]
  BY <1>2
<1> QED
  BY <1>1, <1>2, <1>3 DEF Ldr, WordByte

LEMMA StrLenFound == ASSUME ArgsOK, NEW p \in Int, NEW i \in 1 .. Argc, StringIs(mem, p, i)
                     PROVE  StrLen(p) = args[i]
<1> DEFINE K == {b - p : b \in Addr}
           Ends(k) == /\ k >= 0 /\ mem[p + k] = Nul
                      /\ \A j \in 0 .. k - 1 : mem[p + j] # Nul
<1>1. args[i] \in Nat /\ Addr \subseteq Int
  BY ArgsFacts, AddrAssumption, BoundAssumption
<1>2. p + args[i] \in Addr /\ (p + args[i]) - p = args[i]
  BY <1>1 DEF StringIs, Region
<1>3. args[i] \in K
  BY <1>2
<1>4. \A k \in 0 .. args[i] - 1 : mem[p + k] # Nul
  <2>1. \A k \in 0 .. args[i] - 1 : Chr(i, k) # Nul
    BY DEF Chr, Nul
  <2> QED
    BY <2>1 DEF StringIs
<1>5. Ends(args[i])
  BY <1>1, <1>4 DEF StringIs
<1>6. ASSUME NEW k \in K, Ends(k) PROVE k = args[i]
  <2>1. k \in Int
    BY <1>1
  <2>2. ~(k < args[i])
    BY <1>1, <1>4, <1>6, <2>1
  <2>3. ~(args[i] < k)
    BY <1>1, <1>5, <1>6, <2>1
  <2> QED
    BY <1>1, <2>1, <2>2, <2>3
<1> HIDE DEF K, Ends
<1>7. (CHOOSE k \in K : Ends(k)) = args[i]
  BY <1>3, <1>5, <1>6
<1> QED
  BY <1>7 DEF StrLen, K, Ends

-----------------------------------------------------------------------------
(* Room on the stack *)

LEMMA NeedCovers ==
    ASSUME ArgsOK, NEW k \in 0 .. Argc
    PROVE  /\ Need \in Nat /\ (Argc - k) * Padded(MaxLen) \in Nat
           /\ 4 * ArgvWords + (Argc - k) * Padded(MaxLen) <= Need
<1>1. /\ Argc \in Nat /\ Argc <= MaxArgs /\ MaxArgs \in Nat /\ Argc - k \in Nat /\ Argc - k <= MaxArgs
      /\ ArgvWords \in Nat /\ ArgvWords <= Argc + 2
  BY ArgsFacts, ArgvWordsFacts
<1>2. Padded(MaxLen) \in Nat
  BY BoundAssumption, PaddedFacts
<1>3. /\ (Argc - k) * Padded(MaxLen) \in Nat /\ MaxArgs * Padded(MaxLen) \in Nat
      /\ (Argc - k) * Padded(MaxLen) <= MaxArgs * Padded(MaxLen)
  BY <1>1, <1>2, TimesMono
<1> DEFINE x == (Argc - k) * Padded(MaxLen)
           y == MaxArgs * Padded(MaxLen)
<1>4. x \in Nat /\ y \in Nat /\ x <= y /\ Need = 4 * (MaxArgs + 2) + y
  BY <1>3 DEF Need
<1> HIDE DEF x, y
<1>5. Need \in Nat /\ 4 * ArgvWords + x <= Need
  BY <1>1, <1>4
<1> QED
  BY <1>3, <1>5 DEF x

(* Both the stack of the caller and the place it is moved to are memory. *)
LEMMA Room == ASSUME BaseOK, Need \in Nat, NEW a \in Int, Caller - 40 - Need <= a, a < Caller
              PROVE  /\ a \in Addr
                     /\ a < Caller - 40 => a + Shift \in Addr
                     /\ Shift \in Int /\ spBase \in Nat /\ spBase % 8 = 0
<1>1. Caller \in Nat
  BY CallerAssumption
<1>2. a \in Addr
  <2>1. a \in Region(Caller - 40 - Need, 40 + Need)
    BY <1>1 DEF Region
  <2> QED
    BY <2>1, RoomAssumption
<1>3. PICK base \in SpBases : spBase = Align8(base)
  BY DEF BaseOK
<1>4. spBase \in Nat /\ spBase % 8 = 0
  BY <1>3, RoomAssumption, Align8Facts
<1>5. Shift \in Int
  BY <1>1, <1>4 DEF Shift
<1>6. ASSUME a < Caller - 40 PROVE a + Shift \in Addr
  <2>1. CASE spBase = 0
    BY <1>2, <2>1 DEF Shift
  <2>2. CASE spBase # 0
    <3>1. Region(spBase - Need, Need) \subseteq Addr
      BY <1>3, <2>2, RoomAssumption
    <3>2. a + Shift \in Region(spBase - Need, Need)
      BY <1>1, <1>4, <1>6, <2>2 DEF Shift, Region
    <3> QED
      BY <3>1, <3>2
  <2> QED
    BY <2>1, <2>2
<1> QED
  BY <1>2, <1>4, <1>5, <1>6
-----------------------------------------------------------------------------
(* What a change of memory leaves alone *)

LEMMA WordKeeps ==
    ASSUME NEW m, NEW m2, NEW a \in Int, NEW word, WordAt(m, a, word),
           \A b \in Addr : b \in Region(a, 4) => m2[b] = m[b]
    PROVE  WordAt(m2, a, word)
<1> SUFFICES ASSUME NEW k \in 0 .. 3
             PROVE  a + k \in Addr /\ m2[a + k] = WordByte(word, k)
  BY DEF WordAt
<1>1. a + k \in Region(a, 4)
  BY DEF Region
<1> QED
  BY <1>1 DEF WordAt

LEMMA StrWord ==
    ASSUME NEW m, NEW a \in Int, NEW word, Region(a, 4) \subseteq Addr
    PROVE  WordAt(Str(m, a, word), a, word)
<1> SUFFICES ASSUME NEW k \in 0 .. 3
             PROVE  a + k \in Addr /\ Str(m, a, word)[a + k] = WordByte(word, k)
  BY DEF WordAt
<1>1. a + k \in Region(a, 4) /\ (a + k) - a = k
  BY DEF Region
<1> QED
  BY <1>1 DEF Str

LEMMA ArgKeeps ==
    ASSUME ArgsOK, NEW m, NEW m2, NEW top \in Int, NEW lo \in Int, NEW lo2 \in Int, NEW off,
           NEW i \in 1 .. Argc, ArgAt(m, top, lo, off, i), lo2 <= lo,
           \A b \in Addr : b \in Region(Slot(top, i), 4) => m2[b] = m[b],
           \A b \in Addr : lo <= b /\ b < top - 4 * (Argc + 1) => m2[b] = m[b]
    PROVE  ArgAt(m2, top, lo2, off, i)
<1>1. Argc \in Nat /\ args[i] \in Nat
  BY ArgsFacts, BoundAssumption
<1>2. PICK p \in Int : /\ lo <= p /\ p + args[i] < top - 4 * (Argc + 1)
                       /\ WordAt(m, Slot(top, i), Ptr(p + off))
                       /\ StringIs(m, p, i)
  BY DEF ArgAt
<1>3. Slot(top, i) \in Int
  BY <1>1 DEF Slot
<1>4. WordAt(m2, Slot(top, i), Ptr(p + off))
  BY <1>2, <1>3, WordKeeps
<1>5. ASSUME NEW k \in 0 .. args[i] PROVE m2[p + k] = m[p + k]
  <2>1. p + k \in Region(p, args[i] + 1)
    BY <1>1 DEF Region
  <2>2. p + k \in Addr /\ lo <= p + k /\ p + k < top - 4 * (Argc + 1)
    BY <1>1, <1>2, <2>1 DEF StringIs
  <2> QED
    BY <2>2
<1>6. StringIs(m2, p, i)
  <2>1. \A k \in 0 .. args[i] - 1 : m2[p + k] = Chr(i, k)
    BY <1>1, <1>2, <1>5 DEF StringIs
  <2>2. m2[p + args[i]] = Nul
    BY <1>1, <1>2, <1>5 DEF StringIs
  <2> QED
    BY <1>2, <2>1, <2>2 DEF StringIs
<1>7. lo2 <= p
  BY <1>2
<1> QED
  BY <1>2, <1>4, <1>6, <1>7 DEF ArgAt

(* The bytes from lo on are all there is to the arguments on the stack. *)
LEMMA StackKeeps ==
    ASSUME ArgsOK, NEW m, NEW m2, NEW top \in Int, NEW lo \in Int, NEW off,
           StackAt(m, top, lo, off, 0), lo <= top - 4 * (Argc + 1),
           \A b \in Addr : lo <= b /\ b < top => m2[b] = m[b]
    PROVE  StackAt(m2, top, lo, off, 0)
<1>1. Argc \in Nat
  BY ArgsFacts
<1>2. WordAt(m2, top - 4, Null)
  <2>1. \A b \in Addr : b \in Region(top - 4, 4) => m2[b] = m[b]
    BY <1>1 DEF Region
  <2> QED
    BY <2>1, WordKeeps DEF StackAt
<1>3. ASSUME NEW i \in 1 .. Argc
      PROVE  Slot(top, i) \in Int /\ \A b \in Addr : b \in Region(Slot(top, i), 4) => m2[b] = m[b]
  BY <1>1 DEF Slot, Region
<1>4. ASSUME NEW i \in 0 + 1 .. Argc PROVE ArgAt(m2, top, lo, off, i)
  <2>1. \A b \in Addr : lo <= b /\ b < top - 4 * (Argc + 1) => m2[b] = m[b]
    BY <1>1, AddrAssumption
  <2>2. i \in 1 .. Argc /\ ArgAt(m, top, lo, off, i) /\ lo <= lo
    BY DEF StackAt
  <2> QED
    BY <1>3, <2>1, <2>2, ArgKeeps
<1>5. 0 < Argc => WordAt(m2, Slot(top, 0 + 1), Ptr(lo + off))
  <2> SUFFICES ASSUME 0 < Argc PROVE WordAt(m2, Slot(top, 1), Ptr(lo + off))
    OBVIOUS
  <2>1. 1 \in 1 .. Argc /\ WordAt(m, Slot(top, 1), Ptr(lo + off))
    BY <1>1 DEF StackAt
  <2> QED
    BY <1>3, <2>1, WordKeeps
<1> QED
  BY <1>2, <1>4, <1>5 DEF StackAt

(* When the bytes below top have moved by off, so have the arguments. *)
LEMMA WordMoves ==
    ASSUME NEW m, NEW m2, NEW a \in Int, NEW off \in Int, NEW word, WordAt(m, a, word),
           \A b \in Int : b \in Region(a, 4) => b + off \in Addr /\ m2[b + off] = m[b]
    PROVE  WordAt(m2, a + off, word)
<1> SUFFICES ASSUME NEW k \in 0 .. 3
             PROVE  (a + off) + k \in Addr /\ m2[(a + off) + k] = WordByte(word, k)
  BY DEF WordAt
<1>1. a + k \in Region(a, 4) /\ (a + off) + k = (a + k) + off /\ a + k \in Int
  BY DEF Region
<1> QED
  BY <1>1 DEF WordAt

LEMMA ArgMoves ==
    ASSUME ArgsOK, NEW m, NEW m2, NEW top \in Int, NEW lo \in Int, NEW off \in Int,
           NEW i \in 1 .. Argc, ArgAt(m, top, lo, off, i), lo <= top - 4 * (Argc + 1),
           \A b \in Int : lo <= b /\ b < top => b + off \in Addr /\ m2[b + off] = m[b]
    PROVE  ArgAt(m2, top + off, lo + off, 0, i)
<1>1. Argc \in Nat /\ args[i] \in Nat
  BY ArgsFacts, BoundAssumption
<1>2. PICK p \in Int : /\ lo <= p /\ p + args[i] < top - 4 * (Argc + 1)
                       /\ WordAt(m, Slot(top, i), Ptr(p + off))
                       /\ StringIs(m, p, i)
  BY DEF ArgAt
<1>3. Slot(top, i) \in Int /\ Slot(top + off, i) = Slot(top, i) + off /\ (p + off) + 0 = p + off
  BY <1>1 DEF Slot
<1>4. \A b \in Int : b \in Region(Slot(top, i), 4) => b + off \in Addr /\ m2[b + off] = m[b]
  BY <1>1 DEF Slot, Region
<1>5. WordAt(m2, Slot(top + off, i), Ptr((p + off) + 0))
  BY <1>2, <1>3, <1>4, WordMoves
<1>6. ASSUME NEW k \in 0 .. args[i]
      PROVE  (p + off) + k \in Addr /\ m2[(p + off) + k] = m[p + k]
  <2>1. p + k \in Int /\ lo <= p + k /\ p + k < top /\ (p + k) + off = (p + off) + k
    BY <1>1, <1>2
  <2> QED
    BY <2>1
<1>7. StringIs(m2, p + off, i)
  <2>1. \A k \in 0 .. args[i] - 1 : m2[(p + off) + k] = Chr(i, k)
    BY <1>1, <1>2, <1>6 DEF StringIs
  <2>2. m2[(p + off) + args[i]] = Nul
    BY <1>1, <1>2, <1>6 DEF StringIs
  <2>3. Region(p + off, args[i] + 1) \subseteq Addr
    <3> SUFFICES ASSUME NEW b \in Region(p + off, args[i] + 1) PROVE b \in Addr
      OBVIOUS
    <3>1. b - (p + off) \in 0 .. args[i] /\ (p + off) + (b - (p + off)) = b
      BY <1>1 DEF Region
    <3> QED
      BY <1>6, <3>1
  <2> QED
    BY <2>1, <2>2, <2>3 DEF StringIs
<1>8. p + off \in Int /\ lo + off <= p + off /\ (p + off) + args[i] < (top + off) - 4 * (Argc + 1)
  BY <1>1, <1>2
<1> QED
  BY <1>5, <1>7, <1>8 DEF ArgAt

LEMMA StackMoves ==
    ASSUME ArgsOK, NEW m, NEW m2, NEW top \in Int, NEW lo \in Int, NEW off \in Int,
           StackAt(m, top, lo, off, 0), lo <= top - 4 * (Argc + 1),
           \A b \in Int : lo <= b /\ b < top => b + off \in Addr /\ m2[b + off] = m[b]
    PROVE  StackAt(m2, top + off, lo + off, 0, 0)
<1>1. Argc \in Nat
  BY ArgsFacts
<1>2. WordAt(m2, (top + off) - 4, Null)
  <2>1. \A b \in Int : b \in Region(top - 4, 4) => b + off \in Addr /\ m2[b + off] = m[b]
    BY <1>1 DEF Region
  <2>2. (top + off) - 4 = (top - 4) + off /\ WordAt(m, top - 4, Null)
    BY DEF StackAt
  <2> QED
    BY <2>1, <2>2, WordMoves
<1>3. ASSUME NEW i \in 0 + 1 .. Argc PROVE ArgAt(m2, top + off, lo + off, 0, i)
  <2>1. i \in 1 .. Argc /\ ArgAt(m, top, lo, off, i)
    BY DEF StackAt
  <2> QED
    BY <2>1, ArgMoves
<1>4. 0 < Argc => WordAt(m2, Slot(top + off, 0 + 1), Ptr((lo + off) + 0))
  <2> SUFFICES ASSUME 0 < Argc PROVE WordAt(m2, Slot(top + off, 1), Ptr(lo + off))
    OBVIOUS
  <2>1. /\ Slot(top, 1) \in Int /\ Slot(top + off, 1) = Slot(top, 1) + off
        /\ \A b \in Int : b \in Region(Slot(top, 1), 4) => b + off \in Addr /\ m2[b + off] = m[b]
    BY <1>1 DEF Slot, Region
  <2>2. WordAt(m, Slot(top, 1), Ptr(lo + off))
    BY DEF StackAt
  <2> QED
    BY <2>1, <2>2, WordMoves
<1> QED
  BY <1>2, <1>3, <1>4 DEF StackAt

-----------------------------------------------------------------------------
(* What is said of the stack depends on the arguments and sp_base alone. *)

LEMMA SameArgs == ASSUME args' = args, spBase' = spBase
                  PROVE  Argc' = Argc /\ ArgvWords' = ArgvWords /\ Shift' = Shift
  BY DEF Argc, ArgvWords, Shift

LEMMA SameArgAt ==
    ASSUME args' = args, NEW m, NEW top, NEW lo, NEW off, NEW i
    PROVE  ArgAt(m, top, lo, off, i)' <=> ArgAt(m, top, lo, off, i)
<1>1. Argc' = Argc /\ Slot(top, i)' = Slot(top, i)
  BY DEF Argc, Slot
<1>2. ASSUME NEW p PROVE StringIs(m, p, i)' <=> StringIs(m, p, i)
  BY DEF StringIs
<1>3. ASSUME NEW a, NEW w PROVE WordAt(m, a, w)' <=> WordAt(m, a, w)
  BY DEF WordAt
<1> QED
  BY <1>1, <1>2, <1>3 DEF ArgAt

LEMMA SameStackAt ==
    ASSUME args' = args, NEW m, NEW top, NEW lo, NEW off, NEW k
    PROVE  StackAt(m, top, lo, off, k)' <=> StackAt(m, top, lo, off, k)
<1>1. Argc' = Argc /\ Slot(top, k + 1)' = Slot(top, k + 1)
  BY DEF Argc, Slot
<1>2. \A i : ArgAt(m, top, lo, off, i)' <=> ArgAt(m, top, lo, off, i)
  BY SameArgAt
<1> QED
  BY <1>1, <1>2 DEF StackAt

LEMMA SameCopied ==
    ASSUME args' = args, spBase' = spBase, NEW m, NEW lo, NEW k
    PROVE  Copied(m, lo, k)' <=> Copied(m, lo, k)
<1>1. Argc' = Argc /\ ArgvWords' = ArgvWords /\ Shift' = Shift
  BY SameArgs
<1>2. StackAt(m, Caller - 40, lo, Shift, k)' <=> StackAt(m, Caller - 40, lo, Shift, k)
  BY <1>1, SameStackAt
<1>3. (CallerKept(m, Caller)' <=> CallerKept(m, Caller)) /\ (RegsKept(m)' <=> RegsKept(m))
  BY DEF CallerKept, RegsKept
<1> QED
  BY <1>1, <1>2, <1>3 DEF Copied
-----------------------------------------------------------------------------
(* Each step keeps the invariant *)

LEMMA InitEInv == Init => EInv
<1> SUFFICES ASSUME Init PROVE EInv
  OBVIOUS
<1>1. PICK k \in 0 .. MaxArgs : args \in [1 .. k -> ArgLens]
  BY DEF Init
<1>2. ArgsOK
  <2>1. k \in Nat
    BY BoundAssumption
  <2>2. args \in Seq(ArgLens) /\ Len(args) = k
    BY <1>1, <2>1
  <2> QED
    BY <2>2, BoundAssumption DEF ArgsOK, Argc
<1>3. BaseOK
  BY DEF Init, BaseOK
<1>4. spBase \in Nat
  BY <1>3, RoomAssumption, Align8Facts DEF BaseOK
<1>5. mem \in [Addr -> Byte]
  BY <1>2, CallerMemType DEF Init
<1>6. TypeOK
  BY <1>2, <1>4, <1>5, BoundAssumption, CallerAssumption DEF Init, TypeOK, ArgsOK
<1> QED
  BY <1>2, <1>3, <1>6 DEF Init, EInv, CommonInv, InCall, FrameRestored

LEMMA PrologueKeeps == ASSUME EInv, Prologue PROVE EInv'
<1> USE DEF Saved
<1>1. ArgsOK /\ BaseOK /\ TypeOK /\ mem = CallerMem(args) /\ sp = Caller /\ way = "idle"
  BY DEF EInv, CommonInv, InCall, Prologue
<1>2. /\ Argc \in Nat /\ Argc <= MaxArgs /\ Caller \in Nat /\ Caller % 8 = 0 /\ Addr \subseteq Nat
      /\ ArgvWords \in Nat /\ Argc + 1 <= ArgvWords /\ (4 * ArgvWords) % 8 = 0
  BY <1>1, ArgsFacts, ArgvWordsFacts, CallerAssumption, RoomAssumption
<1>3. Need \in Nat /\ 4 * ArgvWords + 0 <= Need
  <2>1. Argc \in 0 .. Argc /\ Argc - Argc = 0 /\ 0 * Padded(MaxLen) = 0
    BY <1>2, BoundAssumption, PaddedFacts
  <2> QED
    BY <1>1, <2>1, NeedCovers
<1> DEFINE top == Caller - 40
           lo == top - 4 * ArgvWords
<1>4. top \in Int /\ lo \in Int /\ lo + 8 <= top + 4 /\ top - Need <= lo
  BY <1>2, <1>3
<1>5. /\ r7' = top /\ sp' = lo /\ mem' = Str(Pushed(mem, top), top - 4, Null)
      /\ r11' = Shift /\ r10' = Argc /\ pc' = "args"
      /\ way' = way /\ args' = args /\ spBase' = spBase /\ r9' = r9 /\ regs' = regs
  BY <1>1 DEF Prologue, Shift, moveUnused
<1>6. ASSUME NEW a \in Int, top - Need <= a, a < Caller PROVE a \in Addr
  BY <1>1, <1>3, <1>6, Room
<1>7. lo \in Addr /\ lo \in Nat /\ top \in Addr /\ top \in Nat
  BY <1>2, <1>3, <1>4, <1>6
<1>8. Shift \in Int
  BY <1>1, <1>2, <1>3, <1>4, Room
<1>9. Region(top - 4, 4) \subseteq Addr /\ Region(top, 40) \subseteq Addr
  BY <1>2, <1>3, <1>4, <1>6 DEF Region
<1>10. /\ \A b \in Addr : b \notin Region(top - 4, 4) => mem'[b] = Pushed(mem, top)[b]
       /\ \A b \in Addr : b \notin Region(top, 40) => Pushed(mem, top)[b] = mem[b]
  BY <1>5 DEF Str, Pushed
<1>11. WordAt(mem', top - 4, Null)
  BY <1>4, <1>5, <1>9, StrWord
<1>12. CallerKept(mem', Caller)
  <2> SUFFICES ASSUME NEW a \in Addr, a >= Caller PROVE mem'[a] = mem[a]
    BY <1>1 DEF CallerKept
  <2>1. a \notin Region(top - 4, 4) /\ a \notin Region(top, 40)
    BY <1>2 DEF Region
  <2> QED
    BY <1>10, <2>1
<1>13. RegsKept(mem')
  <2> SUFFICES ASSUME NEW i \in 0 .. 9, NEW k \in 0 .. 3
               PROVE  /\ (Caller - 40 + 4 * i) + k \in Addr
                      /\ mem'[(Caller - 40 + 4 * i) + k] = WordByte(Saved(i), k)
    BY DEF RegsKept, WordAt
  <2> DEFINE b == (Caller - 40 + 4 * i) + k
  <2>1. /\ b \in Region(top, 40) /\ b \notin Region(top - 4, 4) /\ b - top = 4 * i + k
    BY <1>2 DEF Region
  <2>2. (4 * i + k) \div 4 = i /\ (4 * i + k) % 4 = k
    OBVIOUS
  <2>3. b \in Addr
    BY <1>9, <2>1
  <2> HIDE DEF b, top
  <2>4. Pushed(mem, top)[b] = WordByte(Saved(i), k)
    BY <2>1, <2>2, <2>3 DEF Pushed
  <2> QED
    BY <1>10, <2>1, <2>3, <2>4 DEF b
<1>14. mem' \in [Addr -> Byte]
  <2> SUFFICES ASSUME NEW b \in Addr PROVE mem'[b] \in Byte
    BY <1>5 DEF Str
  <2>1. CASE b \in Region(top - 4, 4)
    <3>1. b - (top - 4) \in 0 .. 3
      BY <1>4, <2>1 DEF Region
    <3>2. mem'[b] = WordByte(Null, b - (top - 4)) /\ Null \in Words
      BY <1>5, <2>1 DEF Str, Words
    <3> QED
      BY <3>1, <3>2, ByteAssumption
  <2>2. CASE b \notin Region(top - 4, 4) /\ b \in Region(top, 40)
    <3>1. (b - top) \div 4 \in 0 .. 9 /\ (b - top) % 4 \in 0 .. 3
      BY <1>4, <2>2 DEF Region
    <3>2. mem'[b] = WordByte(Saved((b - top) \div 4), (b - top) % 4)
      BY <1>10, <2>2 DEF Pushed
    <3>3. Saved((b - top) \div 4) \in Words
      BY <3>1 DEF Words
    <3> QED
      BY <3>1, <3>2, <3>3, ByteAssumption
  <2>3. CASE b \notin Region(top - 4, 4) /\ b \notin Region(top, 40)
    BY <1>1, <1>10, <2>3 DEF TypeOK
  <2> QED
    BY <2>1, <2>2, <2>3
<1>15. lo % 8 = 0
  <2>1. top % 8 = 0
    BY <1>2
  <2> QED
    BY <1>2, <1>4, <2>1, Mod8Sums
<1>16. Copied(mem', lo, Argc)
  <2>1. StackAt(mem', Caller - 40, lo, Shift, Argc)
    BY <1>2, <1>11 DEF StackAt
  <2>2. (Argc - Argc) * Padded(MaxLen) = 0
    BY <1>2, BoundAssumption, PaddedFacts
  <2>3. lo = Caller - 40 - 4 * ArgvWords /\ lo <= lo /\ lo - 0 <= lo
    BY <1>4
  <2> QED
    BY <1>12, <1>13, <1>15, <2>1, <2>2, <2>3 DEF Copied
<1>17. Copied(mem, sp, r10)' /\ r11' = Shift' /\ (r10 <= Argc)'
  BY <1>2, <1>5, <1>16, SameArgs, SameCopied
<1>18. CommonInv'
  <2>1. TypeOK'
    BY <1>1, <1>2, <1>5, <1>7, <1>8, <1>14 DEF TypeOK
  <2> QED
    BY <1>1, <1>5, <2>1 DEF CommonInv, ArgsOK, BaseOK, Argc
<1> QED
  BY <1>1, <1>5, <1>17, <1>18 DEF EInv, InCall, FrameRestored

(* What a step of the copying reads and where it writes. *)
LEMMA CopyReads ==
    ASSUME ArgsOK, CallerKept(mem, Caller), NEW i \in 1 .. Argc
    PROVE  /\ Ldr(CallerArgv + 4 * (i - 1))[2] = StringAt(args, i)
           /\ StrLen(StringAt(args, i)) = args[i]
           /\ StringIs(mem, StringAt(args, i), i)
<1>1. /\ Argc \in Nat /\ args[i] \in 0 .. MaxLen /\ MaxLen \in Nat
      /\ Caller \in Nat /\ CallerArgv \in Nat /\ CallerArgv > Caller + 4
      /\ StringAt(args, i) \in Nat /\ CallerArgv + 4 * Argc <= StringAt(args, i)
      /\ Addr \subseteq Nat
  BY ArgsFacts, CallerAssumption, BoundAssumption, RoomAssumption, StringRoom
<1>2. WordAt(mem, CallerArgv + 4 * (i - 1), Ptr(StringAt(args, i)))
  <2>1. \A b \in Addr : b \in Region(CallerArgv + 4 * (i - 1), 4) => mem[b] = CallerMem(args)[b]
    BY <1>1 DEF CallerKept, Region
  <2>2. CallerArgv + 4 * (i - 1) \in Int
    BY <1>1
  <2> QED
    BY <2>1, <2>2, CallerMemArgv, WordKeeps
<1>3. Ldr(CallerArgv + 4 * (i - 1)) = Ptr(StringAt(args, i))
  <2>1. CallerArgv + 4 * (i - 1) \in Int
    BY <1>1
  <2> QED
    BY <1>2, <2>1, LdrWord DEF Ptr
<1>4. StringIs(mem, StringAt(args, i), i)
  <2> DEFINE p == StringAt(args, i)
  <2>1. StringIs(CallerMem(args), p, i)
    BY CallerMemString
  <2>2. ASSUME NEW k \in 0 .. args[i] PROVE mem[p + k] = CallerMem(args)[p + k]
    <3>1. p + k \in Region(p, args[i] + 1) /\ p + k >= Caller
      BY <1>1 DEF Region
    <3> QED
      BY <2>1, <3>1 DEF CallerKept, StringIs
  <2> HIDE DEF p
  <2>3. \A k \in 0 .. args[i] - 1 : mem[p + k] = Chr(i, k)
    BY <1>1, <2>1, <2>2 DEF StringIs
  <2>4. mem[p + args[i]] = Nul
    BY <1>1, <2>1, <2>2 DEF StringIs
  <2> QED
    BY <2>1, <2>3, <2>4 DEF StringIs, p
<1> QED
  BY <1>1, <1>3, <1>4, StrLenFound DEF Ptr

LEMMA CopyArgvKeeps == ASSUME EInv, CopyArgv PROVE EInv'
<1> DEFINE top == Caller - 40
           i == r10
           len == args[r10]
           from == StringAt(args, r10)
           to == sp - Padded(len)
           slot == Slot(top, r10)
           m1 == Str(mem, slot, Ptr(to + Shift))
<1>1. /\ ArgsOK /\ BaseOK /\ TypeOK /\ r7 = top /\ r10 \in 1 .. Argc /\ Copied(mem, sp, r10)
      /\ way = "idle" /\ r11 = Shift /\ pc = "args" /\ r10 > 0
  BY DEF EInv, CommonInv, InCall, CopyArgv, TypeOK
<1>2. /\ Argc \in Nat /\ Argc <= MaxArgs /\ Caller \in Nat /\ Addr \subseteq Nat
      /\ ArgvWords \in Nat /\ Argc + 1 <= ArgvWords /\ MaxLen \in Nat
      /\ len \in 0 .. MaxLen /\ len \in Nat
      /\ sp \in Nat /\ sp % 8 = 0 /\ sp <= top - 4 * ArgvWords
  BY <1>1, ArgsFacts, ArgvWordsFacts, CallerAssumption, RoomAssumption, BoundAssumption DEF Copied, TypeOK
<1>3. /\ Padded(len) \in Nat /\ Padded(MaxLen) \in Nat /\ Padded(len) % 8 = 0
      /\ len + 1 <= Padded(len) /\ Padded(len) <= Padded(MaxLen)
  BY <1>2, PaddedFacts
<1>4. /\ to \in Int /\ to % 8 = 0 /\ to + len < sp /\ to <= sp /\ to <= top - 4 * ArgvWords
      /\ top - 4 * ArgvWords - (Argc - (r10 - 1)) * Padded(MaxLen) <= to
  <2>1. to % 8 = 0
    <3>1. sp \in Int /\ Padded(len) \in Int
      BY <1>2, <1>3
    <3> QED
      BY <1>2, <1>3, <3>1, Mod8Sums
  <2>2. Argc - r10 \in Nat /\ Argc - (r10 - 1) = (Argc - r10) + 1
    BY <1>1, <1>2
  <2>3. ((Argc - r10) + 1) * Padded(MaxLen) = (Argc - r10) * Padded(MaxLen) + Padded(MaxLen)
    BY <1>3, <2>2, TimesStep
  <2>4. (Argc - r10) * Padded(MaxLen) \in Nat
    BY <1>3, <2>2, TimesMono
  <2>5. top - 4 * ArgvWords - (Argc - r10) * Padded(MaxLen) <= sp
    BY <1>1 DEF Copied
  <2>6. ASSUME NEW x \in Int, NEW y \in Nat, NEW z \in Nat, NEW q \in Nat, NEW v \in Int,
               x - y <= v, q <= z
        PROVE  x - (y + z) <= v - q
    BY <2>6
  <2>7. top - 4 * ArgvWords - ((Argc - r10) * Padded(MaxLen) + Padded(MaxLen)) <= sp - Padded(len)
    BY <1>2, <1>3, <2>4, <2>5, <2>6
  <2> QED
    BY <1>2, <1>3, <2>1, <2>2, <2>3, <2>7
<1>5. Need \in Nat /\ top - Need <= to
  <2>1. r10 - 1 \in 0 .. Argc
    BY <1>1, <1>2
  <2>2. /\ Need \in Nat /\ (Argc - (r10 - 1)) * Padded(MaxLen) \in Nat
        /\ 4 * ArgvWords + (Argc - (r10 - 1)) * Padded(MaxLen) <= Need
    BY <1>1, <2>1, NeedCovers
  <2>3. ASSUME NEW x \in Int, NEW y \in Nat, NEW z \in Nat, NEW q \in Nat, NEW v \in Int,
               x - y - z <= v, y + z <= q
        PROVE  x - q <= v
    BY <2>3
  <2>4. 4 * ArgvWords \in Nat /\ top \in Int
    BY <1>2
  <2> QED
    BY <1>4, <2>2, <2>3, <2>4
<1>6. ASSUME NEW a \in Int, to <= a, a < Caller
      PROVE  a \in Addr /\ (a < top => a + Shift \in Addr)
  BY <1>1, <1>2, <1>4, <1>5, <1>6, Room
<1>7. Shift \in Int /\ to \in Addr /\ to \in Nat /\ to + Shift \in Addr
  BY <1>1, <1>2, <1>4, <1>5, <1>6, Room
<1>8. /\ slot \in Int /\ top - 4 * (Argc + 1) <= slot /\ slot + 4 <= top - 4 /\ sp <= slot
      /\ slot = r7 - 4 * (Argc + 1) + 4 * (r10 - 1)
  BY <1>1, <1>2 DEF Slot
<1>9. Region(slot, 4) \subseteq Addr
  BY <1>2, <1>4, <1>6, <1>8 DEF Region
<1>10. /\ Ldr(CallerArgv + 4 * (r10 - 1))[2] = from /\ StrLen(from) = len
       /\ StringIs(mem, from, r10)
  BY <1>1, CopyReads DEF Copied
<1>11. /\ sp' = to /\ mem' = StrCpy(m1, to, from) /\ r10' = r10 - 1
       /\ args' = args /\ spBase' = spBase /\ r7' = r7 /\ r9' = r9 /\ r11' = r11 /\ pc' = pc
       /\ way' = way /\ regs' = regs
  BY <1>1, <1>8, <1>10 DEF CopyArgv, moveUnused
<1>12. from \in Nat /\ Caller + 4 < from
  BY <1>1, <1>2, StringRoom, CallerAssumption
<1> HIDE DEF len, from, to, slot, top
(* The memory after the step, byte by byte. *)
<1>13. ASSUME NEW k \in 0 .. len PROVE mem'[to + k] = mem[from + k]
  <2>1. to + k \in Region(to, len + 1) /\ (to + k) - to = k
    BY <1>2, <1>4 DEF Region
  <2>2. to + k \in Addr
    BY <1>2, <1>4, <1>6 DEF top
  <2>3. from + k \in Addr /\ from + k \notin Region(slot, 4)
    BY <1>2, <1>8, <1>10, <1>12 DEF StringIs, Region, len, top
  <2> QED
    BY <1>10, <1>11, <2>1, <2>2, <2>3 DEF StrCpy, Str
<1>14. ASSUME NEW b \in Addr, b < to \/ b > to + len
       PROVE  mem'[b] = m1[b]
  <2>1. b \notin Region(to, len + 1)
    BY <1>2, <1>4, <1>14 DEF Region
  <2> QED
    BY <1>10, <1>11, <2>1 DEF StrCpy
<1>15. ASSUME NEW b \in Addr, b >= sp, b \notin Region(slot, 4)
       PROVE  mem'[b] = mem[b]
  BY <1>2, <1>4, <1>14, <1>15 DEF Str
<1>16. WordAt(mem', slot, Ptr(to + Shift))
  <2>1. WordAt(m1, slot, Ptr(to + Shift))
    BY <1>8, <1>9, StrWord
  <2>2. \A b \in Addr : b \in Region(slot, 4) => mem'[b] = m1[b]
    BY <1>2, <1>4, <1>8, <1>14 DEF Region
  <2> QED
    BY <1>8, <2>1, <2>2, WordKeeps
<1>17. StringIs(mem', to, r10)
  <2>1. \A k \in 0 .. len - 1 : mem'[to + k] = Chr(r10, k)
    BY <1>2, <1>10, <1>13 DEF StringIs, len
  <2>2. mem'[to + len] = Nul
    BY <1>2, <1>10, <1>13 DEF StringIs, len
  <2>3. Region(to, len + 1) \subseteq Addr
    BY <1>2, <1>4, <1>6 DEF Region, top
  <2> QED
    BY <2>1, <2>2, <2>3 DEF StringIs, len
<1>18. ArgAt(mem', top, to, Shift, r10)
  <2>1. to <= to /\ to + args[r10] < top - 4 * (Argc + 1) /\ to \in Int
    BY <1>2, <1>4 DEF len, top
  <2> QED
    BY <1>16, <1>17, <2>1 DEF ArgAt, slot
<1>19. ASSUME NEW j \in r10 + 1 .. Argc PROVE ArgAt(mem', top, to, Shift, j)
  <2>1. ArgAt(mem, top, sp, Shift, j) /\ j \in 1 .. Argc
    BY <1>1, <1>2 DEF Copied, StackAt, top
  <2>2. \A b \in Addr : b \in Region(Slot(top, j), 4) => mem'[b] = mem[b]
    <3> SUFFICES ASSUME NEW b \in Addr, b \in Region(Slot(top, j), 4) PROVE mem'[b] = mem[b]
      OBVIOUS
    <3>1. b >= sp /\ b \notin Region(slot, 4)
      BY <1>1, <1>2, <1>8 DEF Slot, slot, Region, top
    <3> QED
      BY <1>15, <3>1
  <2>3. \A b \in Addr : sp <= b /\ b < top - 4 * (Argc + 1) => mem'[b] = mem[b]
    <3> SUFFICES ASSUME NEW b \in Addr, sp <= b, b < top - 4 * (Argc + 1) PROVE mem'[b] = mem[b]
      OBVIOUS
    <3>1. b >= sp /\ b \notin Region(slot, 4)
      BY <1>2, <1>8 DEF Region, top
    <3> QED
      BY <1>15, <3>1
  <2>4. top \in Int /\ sp \in Int
    BY <1>2 DEF top
  <2> QED
    BY <1>1, <1>4, <2>1, <2>2, <2>3, <2>4, ArgKeeps
<1>20. StackAt(mem', top, to, Shift, r10 - 1)
  <2>1. WordAt(mem', top - 4, Null)
    <3>1. \A b \in Addr : b \in Region(top - 4, 4) => mem'[b] = mem[b]
      BY <1>2, <1>8, <1>15 DEF Region, top
    <3>2. WordAt(mem, top - 4, Null) /\ top - 4 \in Int
      BY <1>1, <1>2 DEF Copied, StackAt, top
    <3> QED
      BY <3>1, <3>2, WordKeeps
  <2>2. \A j \in (r10 - 1) + 1 .. Argc : ArgAt(mem', top, to, Shift, j)
    <3>1. \A j \in (r10 - 1) + 1 .. Argc : j = r10 \/ j \in r10 + 1 .. Argc
      BY <1>1, <1>2
    <3> QED
      BY <1>18, <1>19, <3>1
  <2>3. Slot(top, (r10 - 1) + 1) = slot
    BY <1>1, <1>2 DEF slot
  <2> QED
    BY <1>16, <2>1, <2>2, <2>3 DEF StackAt
<1>21. CallerKept(mem', Caller)
  <2> SUFFICES ASSUME NEW a \in Addr, a >= Caller PROVE mem'[a] = CallerMem(args)[a]
    BY DEF CallerKept
  <2>1. a >= sp /\ a \notin Region(slot, 4)
    BY <1>2, <1>8 DEF Region, top
  <2>2. mem[a] = CallerMem(args)[a]
    BY <1>1 DEF Copied, CallerKept
  <2> QED
    BY <1>15, <2>1, <2>2
<1>22. RegsKept(mem')
  <2> SUFFICES ASSUME NEW j \in 0 .. 9 PROVE WordAt(mem', Caller - 40 + 4 * j, Saved(j))
    BY DEF RegsKept
  <2>1. WordAt(mem, Caller - 40 + 4 * j, Saved(j)) /\ Caller - 40 + 4 * j \in Int
    BY <1>1, <1>2 DEF Copied, RegsKept
  <2>2. \A b \in Addr : b \in Region(Caller - 40 + 4 * j, 4) => mem'[b] = mem[b]
    BY <1>2, <1>8, <1>15 DEF Region, top
  <2> QED
    BY <2>1, <2>2, WordKeeps
<1>23. Copied(mem', to, r10 - 1)
  <2>1. r10 - 1 # Argc
    BY <1>1, <1>2
  <2> QED
    BY <1>4, <1>20, <1>21, <1>22, <2>1 DEF Copied, top
<1>24. mem' \in [Addr -> Byte]
  <2> SUFFICES ASSUME NEW b \in Addr PROVE mem'[b] \in Byte
    BY <1>11 DEF StrCpy
  <2>1. CASE b \in Region(to, len + 1)
    <3>1. b - to \in 0 .. len /\ to + (b - to) = b
      BY <1>2, <1>4, <2>1 DEF Region
    <3>2. mem'[b] = mem[from + (b - to)]
      BY <1>13, <3>1
    <3>3. from + (b - to) \in Addr
      BY <1>2, <1>10, <1>12, <3>1 DEF StringIs, Region, len
    <3> QED
      BY <1>1, <3>2, <3>3 DEF TypeOK
  <2>2. CASE b \notin Region(to, len + 1)
    <3>1. mem'[b] = m1[b]
      BY <1>2, <1>4, <1>14, <2>2 DEF Region
    <3>2. CASE b \in Region(slot, 4)
      <4>1. b - slot \in 0 .. 3
        BY <1>2, <1>8, <3>2 DEF Region
      <4>2. m1[b] = WordByte(Ptr(to + Shift), b - slot)
        BY <3>2 DEF Str
      <4>3. Ptr(to + Shift) \in Words
        BY <1>7 DEF Words
      <4> QED
        BY <3>1, <4>1, <4>2, <4>3, ByteAssumption
    <3>3. CASE b \notin Region(slot, 4)
      BY <1>1, <3>1, <3>3 DEF Str, TypeOK
    <3> QED
      BY <3>2, <3>3
  <2> QED
    BY <2>1, <2>2
<1>25. Copied(mem, sp, r10)' /\ r11' = Shift' /\ (r10 <= Argc)'
  <2>1. Copied(mem', sp', r10')
    BY <1>11, <1>23
  <2>2. r10' <= Argc
    BY <1>1, <1>2, <1>11
  <2> QED
    BY <1>1, <1>11, <2>1, <2>2, SameArgs, SameCopied
<1>26. CommonInv'
  <2>1. r10' \in 0 .. MaxArgs
    BY <1>1, <1>2, <1>11, BoundAssumption
  <2>2. TypeOK'
    BY <1>1, <1>7, <1>11, <1>24, <2>1 DEF TypeOK
  <2> QED
    BY <1>1, <1>11, <2>2 DEF CommonInv, ArgsOK, BaseOK, Argc
<1> QED
  BY <1>1, <1>11, <1>25, <1>26 DEF EInv, InCall, FrameRestored, top

LEMMA SameEntered ==
    ASSUME args' = args, spBase' = spBase, NEW m, NEW top, NEW lo, NEW off
    PROVE  Entered(m, top, lo, off)' <=> Entered(m, top, lo, off)
<1>1. Argc' = Argc /\ ArgvWords' = ArgvWords
  BY SameArgs
<1>2. StackAt(m, top, lo, 0, 0)' <=> StackAt(m, top, lo, 0, 0)
  BY SameStackAt
<1>3. /\ RegsKept(m)' <=> RegsKept(m)
      /\ CallerKept(m, Caller)' <=> CallerKept(m, Caller)
  BY DEF CallerKept, RegsKept
<1> QED
  BY <1>1, <1>2, <1>3 DEF Entered

(* r9 is loaded while the caller's stack still holds fdpic_base. *)
LEMMA ArgvCopiedKeeps == ASSUME EInv, ArgvCopied PROVE EInv'
<1> DEFINE top == Caller - 40
<1>1. /\ ArgsOK /\ BaseOK /\ TypeOK /\ r7 = top /\ r10 = 0 /\ Copied(mem, sp, 0)
      /\ way = "idle" /\ r11 = Shift /\ pc = "args"
  BY DEF EInv, CommonInv, InCall, ArgvCopied
<1>2. /\ Argc \in Nat /\ Caller \in Nat /\ Addr \subseteq Nat
      /\ ArgvWords \in Nat /\ Argc + 1 <= ArgvWords /\ (Argc = 0 => ArgvWords = 2)
      /\ sp \in Nat /\ sp % 8 = 0 /\ sp <= top - 4 * ArgvWords /\ StackAt(mem, top, sp, Shift, 0)
      /\ CallerKept(mem, Caller) /\ RegsKept(mem)
  BY <1>1, ArgsFacts, ArgvWordsFacts, CallerAssumption, RoomAssumption DEF Copied, TypeOK
<1>3. /\ r9' = FdpicBase /\ args' = args /\ spBase' = spBase /\ sp' = sp /\ r7' = r7
      /\ r10' = r10 /\ r11' = r11 /\ regs' = regs
  BY DEF ArgvCopied
<1>4. r9' = <<"base", 0>>
  <2>1. \A b \in Addr : b \in Region(Caller, 4) => mem[b] = CallerMem(args)[b]
    BY <1>2 DEF CallerKept, Region
  <2>2. WordAt(mem, Caller, <<"base", 0>>)
    BY <1>1, <1>2, <2>1, CallerMemBase, WordKeeps
  <2>3. Caller \in Int /\ r7 + 40 = Caller
    BY <1>1, <1>2
  <2>4. Ldr(Caller) = <<"base", 0>>
    BY <2>2, <2>3, LdrWord
  <2> QED
    BY <1>3, <2>3, <2>4 DEF FdpicBase
<1>5. CASE r11 = 0 /\ pc' = "entry" /\ UNCHANGED moveVars
  <2>1. mem' = mem /\ way' = way
    BY <1>5 DEF moveVars
  <2>2. Entered(mem, r7, sp, r11)
    <3>1. top = IF spBase = 0 THEN Caller - 40 ELSE spBase
      <4>1. spBase \in Nat
        BY <1>1 DEF TypeOK
      <4> QED
        BY <1>1, <1>2, <1>5, <4>1 DEF Shift
    <3>2. Argc = 0 => sp = top - 8
      BY <1>1, <1>2 DEF Copied
    <3>3. sp + 4 * ArgvWords <= top /\ StackAt(mem, top, sp, 0, 0)
      BY <1>1, <1>2, <1>5
    <3> QED
      BY <1>1, <1>2, <1>5, <3>1, <3>2, <3>3 DEF Entered
  <2>3. Entered(mem, r7, sp, r11)' /\ Shift' = Shift
    BY <1>3, <2>1, <2>2, SameArgs, SameEntered
  <2>4. CommonInv'
    BY <1>1, <1>3, <1>4, <1>5, <2>1 DEF CommonInv, TypeOK, ArgsOK, BaseOK, Argc
  <2> QED
    BY <1>1, <1>3, <1>4, <1>5, <2>1, <2>3, <2>4 DEF EInv, InCall, FrameRestored
<1>6. CASE r11 # 0 /\ Call(sp + r11, sp, r7 - sp) /\ pc' = "move"
  <2> DEFINE dest == sp + r11
             len == top - sp
  <2>1. /\ way' = Direction(dest, sp) /\ mem' = mem /\ mem0' = mem
        /\ d0' = dest /\ s0' = sp /\ n0' = len
        /\ d' = IF way' = "backward" THEN dest + len ELSE dest
        /\ s' = IF way' = "backward" THEN sp + len ELSE sp
        /\ n' = IF way' = "none" THEN 0 ELSE len
    BY <1>1, <1>6 DEF Call
  <2>2. Need \in Nat /\ top - Need <= sp
    <3>1. 0 \in 0 .. Argc
      BY <1>2
    <3>2. /\ Need \in Nat /\ (Argc - 0) * Padded(MaxLen) \in Nat
          /\ 4 * ArgvWords + (Argc - 0) * Padded(MaxLen) <= Need
      BY <1>1, <3>1, NeedCovers
    <3>3. top - 4 * ArgvWords - (Argc - 0) * Padded(MaxLen) <= sp
      BY <1>1 DEF Copied
    <3>4. ASSUME NEW x \in Int, NEW y \in Nat, NEW z \in Nat, NEW q \in Nat, NEW v \in Int,
                 x - y - z <= v, y + z <= q
          PROVE  x - q <= v
      BY <3>4
    <3>5. 4 * ArgvWords \in Nat /\ top \in Int /\ sp \in Int
      BY <1>2
    <3> QED
      BY <3>2, <3>3, <3>4, <3>5
  <2>3. ASSUME NEW a \in Int, sp <= a, a < top PROVE a \in Addr /\ a + r11 \in Addr
    BY <1>1, <1>2, <2>2, <2>3, Room
  <2>4. r11 \in Int /\ len \in Nat /\ dest \in Int /\ len + sp = top
    BY <1>1, <1>2 DEF TypeOK
  <2>5. Region(dest, len) \subseteq Addr /\ Region(sp, len) \subseteq Addr
    <3>1. ASSUME NEW a \in Region(dest, len) PROVE a \in Addr
      <4>1. a - r11 \in Int /\ sp <= a - r11 /\ a - r11 < top /\ (a - r11) + r11 = a
        BY <1>2, <2>4 DEF Region
      <4> QED
        BY <2>3, <4>1
    <3>2. Region(sp, len) \subseteq Addr
      BY <1>2, <2>3, <2>4 DEF Region
    <3> QED
      BY <3>1, <3>2
  <2> HIDE DEF dest, len
  <2>6. MoveInit'
    BY <1>1, <1>2, <2>1, <2>4, <2>5 DEF MoveInit, Direction, Region, TypeOK
  <2>7. MoveInv'
    BY <2>6, MoveInvInit, PTL
  <2>8. Copied(mem0, sp, 0)' /\ Shift' = Shift
    BY <1>1, <1>3, <2>1, SameArgs, SameCopied
  <2>9. CommonInv'
    BY <1>1, <1>3, <1>4, <1>6, <2>1 DEF CommonInv, TypeOK, ArgsOK, BaseOK, Argc
  <2>10. s0' = sp' /\ d0' = sp' + r11' /\ n0' = r7' - sp' /\ r11' # 0 /\ r7' = Caller - 40
    BY <1>1, <1>3, <1>6, <2>1 DEF dest, len
  <2> QED
    BY <1>1, <1>3, <1>4, <1>6, <2>7, <2>8, <2>9, <2>10 DEF EInv, InCall, FrameRestored
<1> QED
  BY <1>5, <1>6 DEF ArgvCopied

LEMMA MoveKeeps == ASSUME EInv, Move PROVE EInv'
<1>1. /\ pc = "move" /\ MoveInv /\ Copied(mem0, sp, 0) /\ CommonInv /\ Moving
      /\ r7 = Caller - 40 /\ s0 = sp /\ d0 = sp + r11 /\ n0 = r7 - sp /\ r11 # 0
      /\ r11 = Shift /\ r9 = <<"base", 0>>
  BY DEF EInv, InCall, Move
<1>2. MoveInv'
  BY <1>1, ForwardKeeps, BackwardKeeps DEF Moving
<1>3. /\ args' = args /\ spBase' = spBase /\ sp' = sp /\ r7' = r7 /\ r9' = r9 /\ r10' = r10
      /\ r11' = r11 /\ pc' = pc /\ regs' = regs
  BY DEF Move
<1>4. mem0' = mem0 /\ d0' = d0 /\ s0' = s0 /\ n0' = n0
  BY <1>1 DEF Moving, CopyForward, CopyBackward
<1>5. Copied(mem0, sp, 0)' /\ Shift' = Shift
  BY <1>1, <1>3, <1>4, SameArgs, SameCopied
<1>6. mem' \in [Addr -> Byte]
  BY <1>2 DEF MoveInv
<1>7. CommonInv'
  BY <1>1, <1>3, <1>6 DEF CommonInv, TypeOK, ArgsOK, BaseOK, Argc
<1> QED
  BY <1>1, <1>2, <1>3, <1>4, <1>5, <1>7 DEF EInv, InCall, FrameRestored

LEMMA StackResetKeeps == ASSUME EInv, StackReset PROVE EInv'
<1> DEFINE top == Caller - 40
<1>1. /\ pc = "move" /\ MoveInv /\ Copied(mem0, sp, 0) /\ TypeOK /\ ArgsOK /\ BaseOK /\ n = 0
      /\ r7 = top /\ s0 = sp /\ d0 = sp + r11 /\ n0 = r7 - sp /\ r11 # 0
      /\ r11 = Shift /\ r9 = <<"base", 0>>
  BY DEF EInv, CommonInv, InCall, StackReset, Moved
<1>2. /\ r7' = r7 + r11 /\ sp' = NewStack /\ way' = "idle" /\ pc' = "entry" /\ mem' = mem
      /\ args' = args /\ spBase' = spBase /\ r9' = r9 /\ r10' = r10 /\ r11' = r11 /\ regs' = regs
  BY DEF StackReset
<1>3. /\ Argc \in Nat /\ Caller \in Nat /\ Caller % 8 = 0 /\ Addr \subseteq Nat
      /\ ArgvWords \in Nat /\ Argc + 1 <= ArgvWords /\ (Argc = 0 => ArgvWords = 2)
      /\ sp \in Nat /\ r11 \in Int /\ spBase \in Nat
      /\ sp % 8 = 0 /\ sp <= top - 4 * ArgvWords /\ StackAt(mem0, top, sp, r11, 0)
      /\ CallerKept(mem0, Caller)
  BY <1>1, ArgsFacts, ArgvWordsFacts, CallerAssumption, RoomAssumption DEF Copied, TypeOK
<1>4. /\ spBase # 0 /\ top + r11 = spBase /\ spBase % 8 = 0
  <2>1. spBase # 0 /\ top + r11 = spBase
    BY <1>1, <1>3 DEF Shift
  <2>2. spBase % 8 = 0
    BY <1>1, RoomAssumption, Align8Facts DEF BaseOK
  <2> QED
    BY <2>1, <2>2
<1>5. mem = MovedBytes(Region(d0, n0))
  BY <1>1, MoveInvExact DEF MoveExact, Moved, MoveInv, Direction
<1>6. Region(d0, n0) \subseteq Addr
  BY <1>1 DEF MoveInv
<1>7. ASSUME NEW b \in Int, sp <= b, b < top
      PROVE  b + r11 \in Addr /\ mem[b + r11] = mem0[b]
  <2>1. b + r11 \in Region(d0, n0) /\ s0 + ((b + r11) - d0) = b
    BY <1>1, <1>3, <1>7 DEF Region
  <2> QED
    BY <1>5, <1>6, <2>1 DEF MovedBytes
<1>8. StackAt(mem, top + r11, sp + r11, 0, 0)
  <2>1. top \in Int /\ sp \in Int /\ sp <= top - 4 * (Argc + 1)
    BY <1>3
  <2> QED
    BY <1>1, <1>3, <1>7, <2>1, StackMoves
<1>9. sp + r11 \in Nat /\ (sp + r11) % 8 = 0 /\ NewStack = sp + r11
  <2>1. sp + r11 \in Addr
    BY <1>3, <1>7
  <2>2. top % 8 = 0
    BY <1>3
  <2>3. r11 % 8 = 0
    <3>1. r11 = spBase - top /\ spBase \in Int /\ top \in Int
      BY <1>3, <1>4
    <3>2. (spBase - top) % 8 = 0
      BY <1>4, <2>2, <3>1, Mod8Sums
    <3> QED
      BY <3>1, <3>2
  <2>4. (sp + r11) % 8 = 0
    BY <1>3, <2>3, Mod8Sums
  <2> QED
    BY <1>3, <2>1, <2>4, Align8Facts DEF NewStack
<1>11. Entered(mem', r7', sp', r11')
  <2>1. Argc = 0 => sp + r11 = spBase - 8
    BY <1>1, <1>3, <1>4 DEF Copied
  <2>2. (sp + r11) + 4 * ArgvWords <= spBase
    BY <1>3, <1>4
  <2> QED
    BY <1>1, <1>2, <1>4, <1>8, <1>9, <2>1, <2>2 DEF Entered
<1>12. Entered(mem, r7, sp, r11)' /\ Shift' = Shift
  BY <1>2, <1>11, SameArgs, SameEntered
<1>13. CommonInv'
  BY <1>1, <1>2, <1>4, <1>9 DEF CommonInv, TypeOK, ArgsOK, BaseOK, Argc
<1> QED
  BY <1>1, <1>2, <1>12, <1>13 DEF EInv, InCall, FrameRestored

(* The application uses what lies below its stack pointer. *)
LEMMA EntryKeeps == ASSUME EInv, Entry PROVE EInv'
<1>1. /\ pc = "entry" /\ TypeOK /\ ArgsOK /\ BaseOK /\ Entered(mem, r7, sp, r11)
      /\ way = "idle" /\ r11 = Shift /\ r9 = <<"base", 0>>
  BY DEF EInv, CommonInv, InCall, Entry
<1>2. /\ mem' = [a \in Addr |-> IF a < sp THEN Any ELSE mem[a]] /\ pc' = "ran"
      /\ args' = args /\ spBase' = spBase /\ sp' = sp /\ r7' = r7 /\ r9' = r9 /\ r10' = r10
      /\ r11' = r11 /\ regs' = regs /\ way' = way
  BY DEF Entry, moveUnused
<1>3. /\ Argc \in Nat /\ ArgvWords \in Nat /\ Argc + 1 <= ArgvWords /\ Caller \in Nat
      /\ Addr \subseteq Nat /\ sp \in Nat /\ r7 \in Nat /\ spBase \in Nat
      /\ sp + 4 * ArgvWords <= r7 /\ StackAt(mem, r7, sp, 0, 0)
  BY <1>1, ArgsFacts, ArgvWordsFacts, CallerAssumption, RoomAssumption DEF Entered, TypeOK
<1>4. \A a \in Addr : a >= sp => mem'[a] = mem[a]
  BY <1>2, <1>3
<1>5. StackAt(mem', r7, sp, 0, 0)
  <2>1. sp \in Int /\ r7 \in Int /\ sp <= r7 - 4 * (Argc + 1)
    BY <1>3
  <2>2. \A b \in Addr : sp <= b /\ b < r7 => mem'[b] = mem[b]
    BY <1>3, <1>4
  <2> QED
    BY <1>1, <1>3, <2>1, <2>2, StackKeeps
<1>6. ASSUME r11 = 0 PROVE CallerKept(mem', Caller) /\ RegsKept(mem')
  <2>1. r7 = Caller - 40 /\ CallerKept(mem, Caller) /\ RegsKept(mem)
    BY <1>1, <1>6 DEF Entered
  <2>2. CallerKept(mem', Caller)
    BY <1>3, <1>4, <2>1 DEF CallerKept
  <2>3. ASSUME NEW j \in 0 .. 9 PROVE WordAt(mem', Caller - 40 + 4 * j, Saved(j))
    <3>1. WordAt(mem, Caller - 40 + 4 * j, Saved(j)) /\ Caller - 40 + 4 * j \in Int
      BY <1>3, <2>1 DEF RegsKept
    <3>2. \A b \in Addr : b \in Region(Caller - 40 + 4 * j, 4) => mem'[b] = mem[b]
      BY <1>3, <1>4, <2>1 DEF Region
    <3> QED
      BY <3>1, <3>2, WordKeeps
  <2> QED
    BY <2>2, <2>3 DEF RegsKept
<1>8. Entered(mem', r7, sp, r11)
  BY <1>1, <1>5, <1>6 DEF Entered
<1>9. Entered(mem, r7, sp, r11)' /\ Shift' = Shift
  BY <1>2, <1>8, SameArgs, SameEntered
<1>10. mem' \in [Addr -> Byte]
  BY <1>1, <1>2, ByteAssumption DEF TypeOK
<1>11. CommonInv'
  BY <1>1, <1>2, <1>10 DEF CommonInv, TypeOK, ArgsOK, BaseOK, Argc
<1> QED
  BY <1>1, <1>2, <1>9, <1>11 DEF EInv, InCall, FrameRestored

(* The pop finds the saved registers, or after a reset what is above sp_base. *)
LEMMA ReturnKeeps == ASSUME EInv, Return PROVE EInv'
<1>1. /\ pc = "ran" /\ TypeOK /\ ArgsOK /\ BaseOK /\ Entered(mem, r7, sp, r11)
      /\ way = "idle" /\ r11 = Shift
  BY DEF EInv, CommonInv, InCall, Return
<1>2. /\ regs' = [i \in 0 .. 9 |-> Ldr(r7 + 4 * i)] /\ sp' = r7 + 40 /\ pc' = "returned"
      /\ mem' = mem /\ way' = way
      /\ args' = args /\ spBase' = spBase /\ r7' = r7 /\ r9' = r9 /\ r10' = r10 /\ r11' = r11
  BY DEF Return, Cleanup, moveVars
<1>3. r7 \in Nat /\ Caller \in Nat /\ spBase \in Nat /\ Addr \subseteq Nat /\ r11 \in Int
  BY <1>1, CallerAssumption, RoomAssumption DEF TypeOK
<1>4. ASSUME r11 = 0
      PROVE  /\ sp' = Caller /\ \A i \in 0 .. 9 : regs'[i] = Saved(i)
             /\ \A a \in Addr : a >= Caller => mem'[a] = CallerMem(args)[a]
  <2>1. r7 = Caller - 40 /\ CallerKept(mem, Caller) /\ RegsKept(mem)
    BY <1>1, <1>4 DEF Entered
  <2>2. ASSUME NEW i \in 0 .. 9 PROVE regs'[i] = Saved(i)
    <3>1. WordAt(mem, r7 + 4 * i, Saved(i)) /\ r7 + 4 * i \in Int
      BY <1>3, <2>1 DEF RegsKept
    <3>2. Ldr(r7 + 4 * i) = Saved(i)
      BY <3>1, LdrWord DEF Saved
    <3> QED
      BY <1>2, <3>2
  <2>3. sp' = Caller
    BY <1>2, <1>3, <2>1
  <2>4. \A a \in Addr : a >= Caller => mem'[a] = CallerMem(args)[a]
    BY <1>2, <2>1 DEF CallerKept
  <2> QED
    BY <2>2, <2>3, <2>4
<1>5. ASSUME r11 # 0 PROVE sp' = spBase + 40
  BY <1>1, <1>2, <1>5 DEF Entered
<1>6. FrameRestored'
  BY <1>2, <1>4, <1>5 DEF FrameRestored
<1>7. Shift' = Shift
  BY <1>2, SameArgs
<1>8. CommonInv'
  <2>1. sp' \in Nat
    BY <1>2, <1>3
  <2>2. /\ mem' = mem /\ args' = args /\ spBase' = spBase /\ r7' = r7 /\ r9' = r9 /\ r10' = r10
        /\ r11' = r11 /\ pc' = "returned"
    BY <1>2
  <2> QED
    BY <1>1, <2>1, <2>2 DEF CommonInv, TypeOK, ArgsOK, BaseOK, Argc
<1> QED
  BY <1>1, <1>2, <1>6, <1>7, <1>8 DEF EInv, InCall

LEMMA EInvNext == EInv /\ [Next]_entryVars => EInv'
<1> SUFFICES ASSUME EInv, [Next]_entryVars PROVE EInv'
  OBVIOUS
<1>1. CASE UNCHANGED entryVars
  <2>1. /\ mem' = mem /\ way' = way /\ d' = d /\ s' = s /\ n' = n /\ mem0' = mem0
        /\ d0' = d0 /\ s0' = s0 /\ n0' = n0 /\ args' = args /\ spBase' = spBase /\ sp' = sp
        /\ r7' = r7 /\ r9' = r9 /\ r10' = r10 /\ r11' = r11 /\ pc' = pc /\ regs' = regs
    BY <1>1 DEF entryVars, moveVars
  <2>2. CommonInv'
    BY <2>1 DEF EInv, CommonInv, TypeOK, ArgsOK, BaseOK, Argc
  <2>3. MoveInv => MoveInv'
    BY <2>1 DEF MoveInv, MovedBytes
  <2>4. Argc' = Argc /\ Shift' = Shift
    BY <2>1, SameArgs
  <2>5. /\ Copied(mem, sp, r10) => Copied(mem, sp, r10)'
        /\ Copied(mem0, sp, 0) => Copied(mem0, sp, 0)'
        /\ Entered(mem, r7, sp, r11) => Entered(mem, r7, sp, r11)'
    BY <2>1, SameCopied, SameEntered
  <2>6. FrameRestored => FrameRestored'
    BY <2>1 DEF FrameRestored
  <2> QED
    BY <2>1, <2>2, <2>3, <2>4, <2>5, <2>6 DEF EInv, InCall
<1>2. CASE Next
  BY <1>2, PrologueKeeps, CopyArgvKeeps, ArgvCopiedKeeps, MoveKeeps, StackResetKeeps,
     EntryKeeps, ReturnKeeps DEF Next
<1> QED
  BY <1>1, <1>2

(* The invariant says what the application finds. *)
LEMMA EInvEntry == EInv => EntryInv
<1> SUFFICES ASSUME EInv PROVE EntryInv
  OBVIOUS
<1>1. TypeOK /\ ArgsOK
  BY DEF EInv, CommonInv
<1>2. ASSUME pc \in {"entry", "ran"}
      PROVE  /\ Entered(mem, r7, sp, r11) /\ r9 = <<"base", 0>> /\ r7 \in Nat /\ Argc \in Nat
             /\ DOMAIN args = 1 .. Argc /\ StackAt(mem, r7, sp, 0, 0) /\ sp \in Nat
  BY <1>1, <1>2, ArgsFacts DEF EInv, InCall, Entered, TypeOK
<1>3. ArgsIntact
  <2> SUFFICES ASSUME pc \in {"entry", "ran"}
               PROVE  /\ \A i \in DOMAIN args :
                             LET p == Ldr(Argv + 4 * (i - 1))
                             IN  /\ p[1] = "ptr" /\ p[2] \in Addr
                                 /\ \A k \in 0 .. args[i] - 1 : mem[p[2] + k] = Chr(i, k)
                                 /\ mem[p[2] + args[i]] = Nul
                      /\ Ldr(Argv + 4 * Argc) = Null
                      /\ r9 = <<"base", 0>>
    BY DEF ArgsIntact
  <2>1. ASSUME NEW i \in DOMAIN args
        PROVE  LET p == Ldr(Argv + 4 * (i - 1))
               IN  /\ p[1] = "ptr" /\ p[2] \in Addr
                   /\ \A k \in 0 .. args[i] - 1 : mem[p[2] + k] = Chr(i, k)
                   /\ mem[p[2] + args[i]] = Nul
    <3>1. i \in 1 .. Argc /\ i \in 0 + 1 .. Argc /\ ArgAt(mem, r7, sp, 0, i)
      BY <1>2 DEF StackAt
    <3>2. PICK p \in Int : /\ sp <= p
                           /\ WordAt(mem, Slot(r7, i), Ptr(p + 0)) /\ StringIs(mem, p, i)
      BY <3>1 DEF ArgAt
    <3>3. Slot(r7, i) = Argv + 4 * (i - 1) /\ Slot(r7, i) \in Int /\ p + 0 = p
      BY <1>2, <3>1 DEF Slot, Argv
    <3>4. Ldr(Argv + 4 * (i - 1)) = <<"ptr", p>>
      BY <3>2, <3>3, LdrWord DEF Ptr
    <3>5. p \in Addr
      <4>1. args[i] \in Nat
        BY <1>1, <3>1, ArgsFacts, BoundAssumption
      <4> QED
        BY <3>2, <4>1 DEF StringIs, Region
    <3> QED
      BY <3>2, <3>4, <3>5 DEF StringIs
  <2>2. Ldr(Argv + 4 * Argc) = Null
    <3>1. Argv + 4 * Argc = r7 - 4 /\ r7 - 4 \in Int
      BY <1>2 DEF Argv
    <3>2. WordAt(mem, r7 - 4, Null)
      BY <1>2 DEF StackAt
    <3> QED
      BY <3>1, <3>2, LdrWord DEF Null, Ptr
  <2> QED
    BY <1>2, <2>1, <2>2
<1>4. StackReady
  <2> SUFFICES ASSUME pc = "entry"
               PROVE  /\ sp % 8 = 0
                      /\ sp = IF Argc = 0 THEN r7 - 8 ELSE Ldr(Argv)[2]
                      /\ r7 = IF spBase = 0 THEN Caller - 40 ELSE spBase
    BY DEF StackReady
  <2>1. Argc # 0 => sp = Ldr(Argv)[2]
    <3> SUFFICES ASSUME Argc # 0 PROVE sp = Ldr(Argv)[2]
      OBVIOUS
    <3>1. 0 < Argc /\ Slot(r7, 0 + 1) = Argv /\ Argv \in Int /\ sp + 0 = sp
      BY <1>2 DEF Slot, Argv
    <3>2. WordAt(mem, Argv, Ptr(sp + 0))
      BY <1>2, <3>1 DEF StackAt
    <3>3. Ldr(Argv) = <<"ptr", sp>>
      BY <3>1, <3>2, LdrWord DEF Ptr
    <3> QED
      BY <3>3
  <2> QED
    BY <1>2, <2>1 DEF Entered
<1> QED
  BY <1>1, <1>3, <1>4 DEF EntryInv

(* An application is entered with its arguments, a null pointer after them, the
   base of its data and an aligned stack that ends where it was asked to, for
   every number and length of arguments, every sp_base and every overlap of the
   two stacks, and still has them when it has used its stack. *)
THEOREM EntryIsRight == Spec => []EntryInv
  BY InitEInv, EInvNext, EInvEntry, PTL DEF Spec

-----------------------------------------------------------------------------
(* The return address *)

(* The saved return address begins in one place of memory only. *)
PcOnce(m) == \A a \in Addr : m[a] = WordByte(Saved(9), 0) => a = Caller - 4

QInv ==
    /\ PcOnce(mem)
    /\ pc = "move" => PcOnce(mem0)
    /\ (pc = "returned" /\ r11 # 0) => regs[9] # Saved(9)

LEMMA InitQInv == Init => QInv
<1> SUFFICES ASSUME Init PROVE QInv
  OBVIOUS
<1>1. ArgsOK
  BY InitEInv DEF EInv, CommonInv
<1>2. PcOnce(mem)
  BY <1>1, CallerMemType DEF Init, PcOnce, WordByte, Saved
<1> QED
  BY <1>2 DEF Init, QInv

LEMMA PushedOnce == ASSUME EInv, QInv, Prologue PROVE PcOnce(mem')
<1> DEFINE top == Caller - 40
<1>1. /\ mem' = Str(Pushed(mem, top), top - 4, Null) /\ Caller \in Nat /\ Addr \subseteq Nat
  BY CallerAssumption, RoomAssumption DEF EInv, InCall, Prologue
<1> SUFFICES ASSUME NEW a \in Addr, mem'[a] = <<"reg", 9, 0>> PROVE a = Caller - 4
  BY DEF PcOnce, WordByte, Saved
<1>2. a \notin Region(top - 4, 4) /\ Pushed(mem, top)[a] = <<"reg", 9, 0>>
  BY <1>1 DEF Str, WordByte, Null, Ptr
<1>3. CASE a \in Region(top, 40)
  <2>1. (a - top) \div 4 = 9 /\ ((a - top) % 4) = 0
    BY <1>2, <1>3 DEF Pushed, WordByte, Saved
  <2>2. a \in Nat /\ top \in Int /\ a - top \in 0 .. 39
    BY <1>1, <1>3 DEF Region
  <2> HIDE DEF top
  <2>3. a - top = 36
    BY <2>1, <2>2
  <2> QED
    BY <1>1, <2>2, <2>3 DEF top
<1>4. CASE a \notin Region(top, 40)
  BY <1>2, <1>4 DEF Pushed, QInv, PcOnce, WordByte, Saved
<1> QED
  BY <1>3, <1>4

LEMMA CopiedOnce == ASSUME EInv, QInv, CopyArgv PROVE PcOnce(mem')
<1> DEFINE from == StringAt(args, r10)
<1>1. /\ ArgsOK /\ r10 \in 1 .. Argc /\ CallerKept(mem, Caller)
  BY DEF EInv, CommonInv, InCall, CopyArgv, TypeOK, Copied
<1>2. /\ Ldr(CallerArgv + 4 * (r10 - 1))[2] = from /\ StrLen(from) = args[r10]
      /\ Region(from, args[r10] + 1) \subseteq Addr
  BY <1>1, CopyReads DEF StringIs
<1>3. /\ from \in Nat /\ from > Caller /\ args[r10] \in Nat /\ Caller \in Nat /\ Addr \subseteq Nat
  BY <1>1, StringRoom, ArgsFacts, CallerAssumption, RoomAssumption, BoundAssumption
<1> HIDE DEF from
<1>4. PICK to, slot, p : /\ to = sp - Padded(args[r10])
                         /\ mem' = StrCpy(Str(mem, slot, Ptr(p)), to, from)
  BY <1>2 DEF CopyArgv
<1>5. to \in Int
  BY <1>1, <1>4, ArgsFacts, PaddedFacts DEF EInv, CommonInv, TypeOK
<1> DEFINE m1 == Str(mem, slot, Ptr(p))
<1>6. \A a \in Addr : m1[a] = <<"reg", 9, 0>> => a = Caller - 4
  BY DEF Str, WordByte, Ptr, QInv, PcOnce, Saved
<1>7. \A a \in Addr : mem'[a] = IF a \in Region(to, args[r10] + 1) THEN m1[from + (a - to)] ELSE m1[a]
  BY <1>2, <1>4 DEF StrCpy
<1> HIDE DEF m1
<1> SUFFICES ASSUME NEW a \in Addr, mem'[a] = <<"reg", 9, 0>> PROVE a = Caller - 4
  BY DEF PcOnce, WordByte, Saved
<1>8. a \notin Region(to, args[r10] + 1)
  <2> SUFFICES ASSUME a \in Region(to, args[r10] + 1) PROVE FALSE
    OBVIOUS
  <2>1. PICK b : b = from + (a - to)
    OBVIOUS
  <2>2. b \in Region(from, args[r10] + 1) /\ b > Caller /\ b \in Int
    BY <1>3, <1>5, <2>1 DEF Region
  <2>3. b \in Addr /\ m1[b] = <<"reg", 9, 0>>
    BY <1>2, <1>7, <2>1, <2>2
  <2> QED
    BY <1>3, <1>6, <2>2, <2>3
<1> QED
  BY <1>6, <1>7, <1>8

LEMMA RegionPart ==
    ASSUME NEW x \in Int, NEW y \in Nat, NEW k \in 0 .. y
    PROVE  Region(x, y - k) \subseteq Region(x, y) /\ Region(x + k, y - k) \subseteq Region(x, y)
BY DEF Region

(* Only what lies below the saved registers is moved. *)
LEMMA MovedOnce == ASSUME EInv, QInv, Move PROVE PcOnce(mem')
<1>1. /\ MoveInv' /\ pc = "move" /\ PcOnce(mem0)
      /\ mem0' = mem0 /\ d0' = d0 /\ s0' = s0 /\ n0' = n0
      /\ s0 + n0 = Caller - 40 /\ Caller \in Nat
  <2>1. pc = "move" /\ pc' = "move"
    BY DEF Move
  <2>2. MoveInv'
    BY <2>1, MoveKeeps DEF EInv, InCall
  <2>3. s0 = sp /\ n0 = r7 - sp /\ r7 = Caller - 40 /\ sp \in Nat
    BY <2>1 DEF EInv, InCall, CommonInv, TypeOK
  <2> QED
    BY <2>1, <2>2, <2>3, CallerAssumption DEF Move, Moving, CopyForward, CopyBackward, QInv
<1>2. /\ d0 \in Int /\ s0 \in Int /\ n0 \in Nat /\ n' \in 0 .. n0
      /\ Region(s0, n0) \subseteq Addr /\ Addr \subseteq Nat
  BY <1>1, RoomAssumption DEF MoveInv
<1>3. PICK done : done \subseteq Region(d0, n0) /\ mem' = MovedBytes(done)
  <2>1. Region(d0, n0 - n') \subseteq Region(d0, n0) /\ Region(d0 + n', n0 - n') \subseteq Region(d0, n0)
    BY <1>2, RegionPart
  <2>2. way' \in {"forward", "backward", "none"}
    BY <1>1 DEF MoveInv, Direction
  <2>3. CASE way' = "forward"
    <3>1. mem' = MovedBytes(Region(d0, n0 - n'))
      BY <1>1, <2>3 DEF MoveInv, MovedBytes
    <3> QED
      BY <2>1, <3>1
  <2>4. CASE way' = "backward"
    <3>1. mem' = MovedBytes(Region(d0 + n', n0 - n'))
      BY <1>1, <2>4 DEF MoveInv, MovedBytes
    <3> QED
      BY <2>1, <3>1
  <2>5. CASE way' = "none"
    <3>1. mem' = mem0 /\ mem0 \in [Addr -> Byte]
      BY <1>1, <2>5 DEF MoveInv
    <3>2. mem' = MovedBytes({})
      BY <3>1 DEF MovedBytes
    <3> QED
      BY <3>2
  <2> QED
    BY <2>2, <2>3, <2>4, <2>5
<1> SUFFICES ASSUME NEW a \in Addr, mem'[a] = <<"reg", 9, 0>> PROVE a = Caller - 4
  BY DEF PcOnce, WordByte, Saved
<1>4. mem'[a] = IF a \in done THEN mem0[s0 + (a - d0)] ELSE mem0[a]
  BY <1>3 DEF MovedBytes
<1>5. ASSUME a \in done PROVE s0 + (a - d0) \in Addr /\ s0 + (a - d0) < Caller - 40
  <2>1. a \in Region(d0, n0)
    BY <1>3, <1>5
  <2>2. s0 + (a - d0) \in Region(s0, n0) /\ s0 + (a - d0) < s0 + n0
    BY <1>2, <2>1 DEF Region
  <2> QED
    BY <1>1, <1>2, <2>2
<1> QED
  BY <1>1, <1>2, <1>4, <1>5 DEF PcOnce, WordByte, Saved

(* After a reset the pop reads the return address from another place. *)
LEMMA ReturnElsewhere == ASSUME EInv, QInv, Return, r11 # 0 PROVE regs'[9] # Saved(9)
<1>1. /\ r7 = spBase /\ r11 = spBase - (Caller - 40) /\ Caller \in Nat /\ spBase \in Nat
  BY CallerAssumption DEF EInv, CommonInv, TypeOK, InCall, Return, Entered, Shift
<1> DEFINE a == r7 + 4 * 9
<1>2. regs'[9] = Ldr(a)
  BY DEF Return, Cleanup
<1>3. a # Caller - 4 /\ a \in Nat
  BY <1>1
<1> HIDE DEF a
<1>4. ASSUME Ldr(a) = Saved(9) PROVE FALSE
  <2>1. /\ a \in Addr /\ \A k \in 0 .. 3 : mem[a + k] = WordByte(mem[a], k)
        /\ mem[a][1] = "reg" /\ mem[a][2] = 9
    BY <1>4 DEF Ldr, Saved
  <2>2. mem[a] = <<"reg", 9, 0>>
    <3>1. mem[a + 0] = WordByte(mem[a], 0) /\ a + 0 = a
      BY <1>3, <2>1
    <3> QED
      BY <2>1, <3>1 DEF WordByte
  <2> QED
    BY <1>3, <2>1, <2>2 DEF QInv, PcOnce, WordByte, Saved
<1> QED
  BY <1>2, <1>4

LEMMA QInvNext == EInv /\ QInv /\ [Next]_entryVars => QInv'
<1> SUFFICES ASSUME EInv, QInv, [Next]_entryVars PROVE QInv'
  OBVIOUS
<1>1. CASE UNCHANGED entryVars
  BY <1>1 DEF entryVars, moveVars, QInv, PcOnce
<1>2. CASE Prologue
  BY <1>2, PushedOnce DEF Prologue, QInv, PcOnce
<1>3. CASE CopyArgv
  BY <1>3, CopiedOnce DEF CopyArgv, QInv, PcOnce
<1>4. CASE ArgvCopied
  BY <1>4 DEF ArgvCopied, QInv, PcOnce, moveVars, Call
<1>5. CASE Move
  <2>1. mem0' = mem0 /\ pc = "move" /\ pc' = "move"
    BY <1>5 DEF Move, Moving, CopyForward, CopyBackward
  <2> QED
    BY <1>5, <2>1, MovedOnce DEF QInv, PcOnce
<1>6. CASE StackReset
  BY <1>6 DEF StackReset, QInv, PcOnce
<1>7. CASE Entry
  BY <1>7 DEF Entry, QInv, PcOnce, Any, WordByte, Saved
<1>8. CASE Return
  BY <1>8, ReturnElsewhere DEF Return, QInv, PcOnce, moveVars
<1> QED
  BY <1>1, <1>2, <1>3, <1>4, <1>5, <1>6, <1>7, <1>8 DEF Next

(* When an application returns, the caller has its registers, its stack pointer
   and its frame back if the stack was not moved, and does not find its return
   address if it was, wherever to. *)
THEOREM CallerIsRestored == Spec => []CallerRestored
<1>1. EInv /\ QInv => CallerRestored
  BY DEF EInv, InCall, FrameRestored, QInv, CallerRestored
<1> QED
  BY <1>1, InitEInv, EInvNext, InitQInv, QInvNext, PTL DEF Spec

(* memmove moves the stack exactly, in the states it is called in. *)
THEOREM StackMoveIsExact == Spec => []MoveExact
<1>1. EInv => MoveExact
  <2> SUFFICES ASSUME EInv, way # "idle" PROVE MoveExact
    BY DEF MoveExact
  <2>1. pc = "move"
    BY DEF EInv, CommonInv, TypeOK, InCall
  <2>2. MoveInv
    BY <2>1 DEF EInv, InCall
  <2> QED
    BY <2>2, MoveInvExact
<1> QED
  BY <1>1, InitEInv, EInvNext, PTL DEF Spec
=============================================================================
