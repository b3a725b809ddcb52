------------------------------ MODULE UldEntry ------------------------------
(***************************************************************************)
(* uld_exec_file and uld_exec_elf_call_entry: the arguments of an          *)
(* application are copied to the stack, the stack is moved to sp_base if   *)
(* the caller gives one, and the application is called and may return.     *)
(*                                                                         *)
(* Memory is a function of byte addresses.  A byte is <<kind, value, k>>:  *)
(* character k of argument value, or byte k of a word; "any" is what       *)
(* nobody has written.  The caller's argv, its strings and the fifth       *)
(* argument lie above the stack pointer, where a reset of the stack may    *)
(* overwrite them.                                                         *)
(*                                                                         *)
(* A definition X_Y is the definition X with the mistake Y in it; it is    *)
(* used by no specification, only to see that a property rejects it.       *)
(***************************************************************************)
EXTENDS Memmove, Sequences

CONSTANTS Caller,       \* the stack pointer of the caller, uld_exec_file
          CallerArgv,   \* where the caller's argv is
          ArgLens,      \* the lengths of the arguments that are tried
          MaxArgs,      \* bound: arguments
          MaxLen,       \* bound: the length of an argument
          SpBases       \* the values of sp_base that are tried; 0 is NULL

ASSUME BoundAssumption == MaxArgs \in Nat /\ MaxLen \in Nat /\ ArgLens \subseteq 0 .. MaxLen

(* The stack pointer is aligned at a call, and argv lies above the fifth
   argument. *)
ASSUME CallerAssumption ==
    Caller \in Nat /\ CallerArgv \in Nat /\ Caller % 8 = 0 /\ CallerArgv > Caller + 4

VARIABLES
    args,        \* the lengths of the caller's arguments
    spBase,      \* sp_base, as uld_exec_file has aligned it
    sp, r7, r9, r10, r11,
    pc,
    regs         \* r4 to r12 and the program counter, as they are popped

entryVars == <<moveVars, args, spBase, sp, r7, r9, r10, r11, pc, regs>>
moveUnused == <<way, d, s, n, mem0, d0, s0, n0>>

Argc == Len(args)
Align8(a) == (a \div 8) * 8

(* Words and strings in memory. *)
Any == <<"any", 0, 0>>
Nul == <<"chr", 0, 0>>
Chr(i, j) == <<"chr", i, j>>
WordByte(word, k) == <<word[1], word[2], k>>
Str(m, a, word) == [b \in Addr |-> IF b \in Region(a, 4) THEN WordByte(word, b - a) ELSE m[b]]
Ldr(a) ==
    IF a \in Addr /\ a + 3 \in Addr /\ \A k \in 0 .. 3 : mem[a + k] = WordByte(mem[a], k)
    THEN <<mem[a][1], mem[a][2]>>
    ELSE <<"any", 0>>
Ptr(a) == <<"ptr", a>>
Null == Ptr(0)
StrLen(a) == CHOOSE k \in {b - a : b \in Addr} :
                 /\ k >= 0 /\ mem[a + k] = Nul
                 /\ \A j \in 0 .. k - 1 : mem[a + j] # Nul
StrCpy(m, dest, src) ==
    LET to == Region(dest, StrLen(src) + 1)
    IN  [a \in Addr |-> IF a \in to THEN m[src + (a - dest)] ELSE m[a]]

(* What the caller has in memory: fdpic_base, argv and the strings behind it. *)
StringAt(lens, i) == CallerArgv + 4 * Len(lens) + (MaxLen + 1) * (i - 1)
CallerMem(lens) ==
    [a \in Addr |->
        IF a \in Region(Caller, 4) THEN <<"base", 0, a - Caller>>
        ELSE IF a \in Region(CallerArgv, 4 * Len(lens))
        THEN <<"ptr", StringAt(lens, (a - CallerArgv) \div 4 + 1), (a - CallerArgv) % 4>>
        ELSE IF \E i \in DOMAIN lens : a \in Region(StringAt(lens, i), lens[i] + 1)
        THEN LET i == CHOOSE j \in DOMAIN lens : a \in Region(StringAt(lens, j), lens[j] + 1)
                 k == a - StringAt(lens, i)
             IN  IF k = lens[i] THEN Nul ELSE Chr(i, k)
        ELSE Any]

(* The room there is: for what the caller has, for the registers and the
   arguments below the caller, and for the arguments below each sp_base. *)
Padded(len) == ((len + 8) \div 8) * 8
Need == 4 * (MaxArgs + 2) + MaxArgs * Padded(MaxLen)
ASSUME RoomAssumption ==
    /\ Addr \subseteq Nat
    /\ Region(Caller, CallerArgv - Caller + MaxArgs * (4 + MaxLen + 1)) \subseteq Addr
    /\ Region(Caller - 40 - Need, 40 + Need) \subseteq Addr
    /\ SpBases \subseteq Nat
    /\ \A base \in SpBases :
           Align8(base) = 0 \/ Region(Align8(base) - Need, Need) \subseteq Addr

(* A byte can hold a character and a byte of each word that is written. *)
Words == {Null, <<"base", 0>>} \cup {Ptr(a) : a \in Addr} \cup {<<"reg", i>> : i \in 0 .. 9}
ASSUME ByteAssumption ==
    /\ Any \in Byte /\ Nul \in Byte
    /\ \A i \in 1 .. MaxArgs, j \in 0 .. MaxLen : Chr(i, j) \in Byte
    /\ \A word \in Words, k \in 0 .. 3 : WordByte(word, k) \in Byte

(* uld_exec_file: sp_base is aligned.  Its early return, for no file, a negative
   argc or arguments without argv, is never taken: uld_dyn_exec_fse has a file,
   and uld_main passes an argc that counts the argv it passes. *)
Init ==
    /\ args \in UNION {[1 .. k -> ArgLens] : k \in 0 .. MaxArgs}
    /\ \E base \in SpBases : spBase = Align8(base)
    /\ mem = CallerMem(args)
    /\ way = "idle" /\ d = 0 /\ s = 0 /\ n = 0 /\ mem0 = mem /\ d0 = 0 /\ s0 = 0 /\ n0 = 0
    /\ sp = Caller /\ r7 = 0 /\ r9 = <<"any", 0>> /\ r10 = 0 /\ r11 = 0
    /\ pc = "call" /\ regs = <<>>

(* The registers are pushed, and there is room for argv with its null pointer,
   an even number of words.  r11 is how far the stack will be moved. *)
Saved(i) == <<"reg", i>>
Pushed(m, a) == [b \in Addr |-> IF b \in Region(a, 40) THEN WordByte(Saved((b - a) \div 4), (b - a) % 4)
                                ELSE m[b]]
ArgvWords_NoNull == ((Argc + 1) \div 2) * 2
ArgvWords == ((Argc + 2) \div 2) * 2
Prologue ==
    /\ pc = "call"
    /\ r7' = sp - 40
    /\ sp' = r7' - 4 * ArgvWords
    /\ mem' = Str(Pushed(mem, r7'), r7' - 4, Null)
    /\ r11' = IF spBase = 0 THEN 0 ELSE spBase - r7'
    /\ r10' = Argc
    /\ pc' = "args"
    /\ UNCHANGED <<moveUnused, args, spBase, r9, regs>>

(* One argument, the last one first: its copy takes whole double words. *)
CopyArgv ==
    /\ pc = "args" /\ r10 > 0
    /\ LET from == Ldr(CallerArgv + 4 * (r10 - 1))[2]
           to   == sp - Padded(StrLen(from))
           slot == r7 - 4 * (Argc + 1) + 4 * (r10 - 1)
       IN  /\ sp' = to
           /\ mem' = StrCpy(Str(mem, slot, Ptr(to + r11)), to, from)
    /\ r10' = r10 - 1
    /\ UNCHANGED <<moveUnused, args, spBase, r7, r9, r11, pc, regs>>

(* fdpic_base is read before the stack it is on may be overwritten. *)
FdpicBase == Ldr(r7 + 40)
ArgvCopied ==
    /\ pc = "args" /\ r10 = 0
    /\ r9' = FdpicBase
    /\ \/ /\ r11 = 0
          /\ pc' = "entry"
          /\ UNCHANGED moveVars
       \/ /\ r11 # 0
          /\ Call(sp + r11, sp, r7 - sp)
          /\ pc' = "move"
    /\ UNCHANGED <<args, spBase, sp, r7, r10, r11, regs>>

Move ==
    /\ pc = "move"
    /\ Moving
    /\ UNCHANGED <<args, spBase, sp, r7, r9, r10, r11, pc, regs>>

(* The new stack begins where argv was moved to. *)
NewStack == Align8(sp + r11)
StackReset ==
    /\ pc = "move" /\ Moved
    /\ r7' = r7 + r11
    /\ sp' = NewStack
    /\ way' = "idle"
    /\ pc' = "entry"
    /\ UNCHANGED <<mem, d, s, n, mem0, d0, s0, n0, args, spBase, r9, r10, r11, regs>>

(* The application runs.  Its stack is what lies below the stack pointer. *)
Entry ==
    /\ pc = "entry"
    /\ mem' = [a \in Addr |-> IF a < sp THEN Any ELSE mem[a]]
    /\ pc' = "ran"
    /\ UNCHANGED <<moveUnused, args, spBase, sp, r7, r9, r10, r11, regs>>

(* The application returns: mov sp, r7 and pop. *)
Cleanup_Sp == sp
Cleanup == r7
Return ==
    /\ pc = "ran"
    /\ regs' = [i \in 0 .. 9 |-> Ldr(Cleanup + 4 * i)]
    /\ sp' = Cleanup + 40
    /\ pc' = "returned"
    /\ UNCHANGED <<moveVars, args, spBase, r7, r9, r10, r11>>

Next == Prologue \/ CopyArgv \/ ArgvCopied \/ Move \/ StackReset \/ Entry \/ Return

Spec == Init /\ [][Next]_entryVars
-----------------------------------------------------------------------------
(* Properties *)

TypeOK ==
    /\ args \in Seq(ArgLens) /\ spBase \in Nat
    /\ sp \in Nat /\ r7 \in Nat /\ r10 \in 0 .. MaxArgs /\ r11 \in Int
    /\ r9 \in {<<"any", 0>>, <<"base", 0>>}
    /\ pc \in {"call", "args", "move", "entry", "ran", "returned"}
    /\ mem \in [Addr -> Byte]

(* argv, as it is passed in r1. *)
Argv == r7 - 4 * (Argc + 1)

(* The application finds its arguments, whether or not the stack was moved over
   the place they come from, and still finds them when it has used its stack:
   argv holds a pointer to each string and a null pointer, and r9 the base of
   its data. *)
ArgsIntact ==
    pc \in {"entry", "ran"} =>
        /\ \A i \in DOMAIN args :
               LET p == Ldr(Argv + 4 * (i - 1))
               IN  /\ p[1] = "ptr" /\ p[2] \in Addr
                   /\ \A k \in 0 .. args[i] - 1 : mem[p[2] + k] = Chr(i, k)
                   /\ mem[p[2] + args[i]] = Nul
        /\ Ldr(Argv + 4 * Argc) = Null
        /\ r9 = <<"base", 0>>

(* It starts with an aligned stack right below its arguments, and a reset leaves
   nothing of the linker on the stack: the arguments end at sp_base. *)
StackReady ==
    pc = "entry" => /\ sp % 8 = 0
                    /\ sp = IF Argc = 0 THEN r7 - 8 ELSE Ldr(Argv)[2]
                    /\ r7 = IF spBase = 0 THEN Caller - 40 ELSE spBase

(* Without a reset the caller gets its registers, its stack pointer and its
   frame back.  After a reset nothing returns to the linker: the registers were
   not moved, and the pop reads what lies above sp_base. *)
CallerRestored ==
    pc = "returned" =>
        IF r11 = 0
        THEN /\ sp = Caller /\ \A i \in 0 .. 9 : regs[i] = Saved(i)
             /\ LET before == CallerMem(args)
                IN  \A a \in Addr : a >= Caller => mem[a] = before[a]
        ELSE /\ sp = spBase + 40
             /\ regs[9] # Saved(9)

(* What the application is entered with: its arguments, an aligned stack and
   its base. *)
EntryInv == TypeOK /\ ArgsIntact /\ StackReady
=============================================================================
