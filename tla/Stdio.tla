------------------------------- MODULE Stdio --------------------------------
(***************************************************************************)
(* The output functions of libc.c over swi_write: vfprintf with its        *)
(* conversions and padding, and puts, fputs, fputc, write and fwrite.      *)
(* Every one of them is a sequence of calls of swi_write, each of which    *)
(* the host may take in part or refuse.                                    *)
(*                                                                         *)
(* A character is a number: a digit is its value, the others are named     *)
(* below.  A number has Bits bits (32 in the code).  A format is a         *)
(* sequence of rounds of the loop in vfprintf: text, then a conversion.    *)
(*                                                                         *)
(* A definition X_Y is the definition X with the mistake Y in it; it is    *)
(* used by no specification, only to see that a property rejects it.       *)
(***************************************************************************)
EXTENDS SwiWrite, Sequences, SequencesExt

CONSTANTS Calls,      \* the calls that are tried
          Bits,       \* bits of a number, a multiple of four
          PadChunk    \* how many characters of padding one write prints (10 in the code)

ASSUME StdioAssumption == Bits % 4 = 0 /\ Bits > 0 /\ PadChunk > 0

Minus == 20
Space == 21
Percent == 22
Ell == 23       \* the modifier l
Newline == 24

VARIABLES
    call,       \* the call: its function, descriptor, arguments
    round,      \* the next round of the format
    todo,       \* the writes that are left of this round
    sum,        \* count, or what the last write returned
    result,     \* what the function returned
    at,         \* "next", "write" while swi_write runs, "done"
    host,       \* history: what each descriptor of the host was given
    trouble     \* history: what has gone wrong on the way

stdioVars == <<call, round, todo, sum, result, at, host, trouble>>
vars == <<writeVars, stdioVars>>

(* utohex: leading zeros are left out, all of them. *)
Nibbles == Bits \div 4
Utohex(v) ==
    LET all   == [i \in 1 .. Nibbles |-> (v \div 16 ^ (Nibbles - i)) % 16]
        first == SelectInSeq(all, LAMBDA x : x # 0)
    IN  IF first = 0 THEN <<>> ELSE SubSeq(all, first, Nibbles)

(* uitoa: the digits from the last to the first, and the sign. *)
Digits[v \in 0 .. 2 ^ Bits - 1] == IF v < 10 THEN <<v>> ELSE Digits[v \div 10] \o <<v % 10>>
Negative(v) == v >= 2 ^ (Bits - 1)
Uitoa_OneComplement(v, signed) ==
    IF signed /\ Negative(v) THEN <<Minus>> \o Digits[2 ^ Bits - 1 - v] ELSE Digits[v]
Uitoa(v, signed) ==
    IF signed /\ Negative(v) THEN <<Minus>> \o Digits[2 ^ Bits - v] ELSE Digits[v]

(* The flags, modifiers and width of a conversion, one character at a time.  At
   a second 'l' the code stops at a swbkpt(), and prints on from there as after
   the first: breakpoints are not recorded in this module. *)
NoFlags == [ljust |-> FALSE, lspace |-> FALSE, zero |-> FALSE, width |-> 0]
Flag(fl, ch) ==
    CASE ch = Space -> [fl EXCEPT !.lspace = TRUE]
      [] ch = Minus -> [fl EXCEPT !.ljust = TRUE]
      [] ch = Ell -> fl
      [] ch = 0 /\ fl.width = 0 -> [fl EXCEPT !.zero = TRUE]
      [] OTHER -> [fl EXCEPT !.width = 10 * fl.width + ch]
Flags(conv) ==
    IF conv.c = "p" THEN [NoFlags EXCEPT !.zero = TRUE, !.width = Nibbles]
    ELSE FoldLeft(Flag, NoFlags, conv.mods)

(* What is written before the padding and after it, and the number of characters. *)
Sign(conv) ==
    LET num == Uitoa(conv.arg, TRUE)
    IN  CASE conv.c = "d" /\ num[1] = Minus -> <<Minus>>
          [] conv.c = "d" /\ num[1] # Minus /\ Flags(conv).lspace -> <<Space>>
          [] OTHER -> <<>>
Body(conv) ==
    CASE conv.c = "s" -> conv.arg
      [] conv.c \in {"x", "p"} -> Utohex(conv.arg)
      [] conv.c = "u" -> Uitoa(conv.arg, FALSE)
      [] conv.c = "d" -> LET num == Uitoa(conv.arg, TRUE)
                         IN  IF num[1] = Minus THEN Tail(num) ELSE num
Width(conv) == Len(Sign(conv)) + Len(Body(conv))

(* The writes of a function.  The kind of a write says what becomes of its
   result; "add" is not a write but the count that a finished field returns. *)
Op(kind, chars) == [kind |-> kind, chars |-> chars, n |-> 0]
Add(n) == [kind |-> "add", chars |-> <<>>, n |-> n]
Copies(ch, k) == [j \in 1 .. k |-> ch]
Pad(conv, left) ==
    LET fl == Flags(conv)
    IN  IF fl.ljust # left /\ fl.width > Width(conv)
        THEN <<Op("pad", Copies(IF fl.zero /\ left THEN 0 ELSE Space, fl.width - Width(conv)))>>
        ELSE <<>>
FieldCount(conv) == Max({Width(conv), Flags(conv).width})
Field(conv) ==
    (IF Sign(conv) = <<>> THEN <<>> ELSE <<Op("putc", Sign(conv))>>)
    \o Pad(conv, TRUE) \o <<Op("field", Body(conv))>> \o Pad(conv, FALSE)
    \o <<Add(FieldCount(conv))>>

(* One round of the loop in vfprintf.  Other conversions stop in the debugger
   and print nothing. *)
Round(r) ==
    <<Op("text", r.text)>>
    \o CASE r.conv.c = "end" -> <<>>
         [] r.conv.c = "%" -> <<Op("percent", <<Percent>>), Add(1)>>
         [] r.conv.c \in {"d", "u", "x", "p", "s"} -> Field(r.conv)
         [] OTHER -> <<>>

IsPrintf == call.f \in {"fprintf", "dprintf", "swi_dprintf"}
NumRounds == IF IsPrintf THEN Len(call.args) ELSE 1
Ops(i) ==
    CASE IsPrintf -> Round(call.args[i])
      [] call.f = "fputs" -> <<Op("all", call.args)>>
      [] call.f = "puts" -> <<Op("all", call.args), Op("putc", <<Newline>>), Add(1)>>
      [] call.f = "fputc" -> <<Op("putc", call.args), Add(call.args[1])>>
      [] call.f \in {"write", "fwrite"} -> <<Op("text", call.args)>>

(* write and swi_dprintf print to stdout whatever descriptor they are given. *)
Stream == IF call.f \in {"write", "swi_dprintf"} THEN 1 ELSE call.fd

Init ==
    /\ NoWrite
    /\ call \in Calls
    /\ round = 1 /\ todo = <<>> /\ sum = 0 /\ result = 0 /\ at = "next"
    /\ host = [f \in 1 .. 2 |-> <<>>] /\ trouble = {}

NextRound ==
    /\ at = "next" /\ todo = <<>> /\ round <= NumRounds
    /\ todo' = Ops(round)
    /\ round' = round + 1
    /\ UNCHANGED <<writeVars, call, sum, result, at, host, trouble>>

AddCount ==
    /\ at = "next" /\ todo # <<>> /\ Head(todo).kind = "add"
    /\ sum' = sum + Head(todo).n
    /\ todo' = Tail(todo)
    /\ UNCHANGED <<writeVars, call, round, result, at, host, trouble>>

(* The characters the next write is for. *)
Buffer ==
    LET op == Head(todo)
    IN  IF op.kind = "pad" THEN SubSeq(op.chars, 1, Min({PadChunk, Len(op.chars)})) ELSE op.chars

StartWrite ==
    /\ at = "next" /\ todo # <<>> /\ Head(todo).kind # "add"
    /\ Begin(Stream, "data", Len(Buffer))
    /\ at' = "write"
    /\ UNCHANGED <<call, round, todo, sum, result, host, trouble>>

SwiStep ==
    /\ at = "write"
    /\ WriteStep
    /\ UNCHANGED stdioVars

HostTakes(left) ==
    /\ at = "write"
    /\ HostWrites(left)
    /\ host' = [host EXCEPT ![fd] = @ \o SubSeq(Buffer, 1, count - left)]
    /\ trouble' = IF left = 0 THEN trouble ELSE trouble \cup {"partial"}
    /\ UNCHANGED <<call, round, todo, sum, result, at>>

HostTooFast ==
    /\ at = "write"
    /\ HostRefuses
    /\ trouble' = trouble \cup {"refused"}
    /\ UNCHANGED <<call, round, todo, sum, result, at, host>>

(* What the caller of swi_write or swi_dputchar takes for an error. *)
Failed(op) == CASE op.kind \in {"putc", "percent"} -> ret # 1
                [] op.kind = "all" -> ret # Len(op.chars)
                [] OTHER -> ret = SWI_EOF
(* The padding that is left after a write. *)
PadLeft(op) == SubSeq(op.chars, ret + 1, Len(op.chars))
WriteReturns ==
    /\ at = "write" /\ pc = "done"
    /\ LET op   == Head(todo)
           rest == Tail(todo)
       IN  /\ trouble' = IF Failed(op) THEN trouble \cup {"eof"} ELSE trouble
           /\ \/ /\ op.kind \in {"text", "all"} /\ (op.kind = "all" => ~Failed(op))
                 /\ sum' = sum + ret /\ todo' = rest
              \/ /\ op.kind = "percent" \/ (op.kind \in {"field", "putc"} /\ ~Failed(op))
                 /\ todo' = rest /\ UNCHANGED sum
              \/ /\ op.kind = "pad" /\ ~Failed(op)
                 /\ todo' = IF PadLeft(op) = <<>> THEN rest
                            ELSE <<[op EXCEPT !.chars = PadLeft(op)]>> \o rest
                 /\ UNCHANGED sum
              \/ /\ op.kind \in {"field", "putc", "pad", "all"} /\ Failed(op)
                 /\ sum' = IF IsPrintf THEN sum + SWI_EOF ELSE SWI_EOF
                 /\ todo' = <<>>
    /\ pc' = "idle"
    /\ at' = "next"
    /\ UNCHANGED <<fd, buf, count, ret, retries, elapsed, written, refused,
                   call, round, result, host>>

(* fwrite returns the number of whole items. *)
Finish ==
    /\ at = "next" /\ todo = <<>> /\ round > NumRounds
    /\ result' = IF call.f = "fwrite" /\ sum >= 0 THEN sum \div call.size ELSE sum
    /\ at' = "done"
    /\ UNCHANGED <<writeVars, call, round, todo, sum, host, trouble>>

ClockTick == Tick /\ UNCHANGED stdioVars

Program == NextRound \/ AddCount \/ StartWrite \/ SwiStep \/ WriteReturns \/ Finish
Host == (\E left \in 0 .. MaxCount : HostTakes(left)) \/ HostTooFast

Next == Program \/ Host \/ ClockTick

Spec == Init /\ [][Next]_vars

(* The program runs on, the host answers and its clock advances. *)
FairSpec == Spec /\ WF_vars(Program) /\ WF_vars(Host) /\ WF_vars(ClockTick)
-----------------------------------------------------------------------------
(* Properties *)

TypeOK ==
    /\ WriteTypeOK
    /\ call \in Calls /\ round \in 1 .. NumRounds + 1
    /\ sum \in Int /\ result \in Int
    /\ at \in {"next", "write", "done"}
    /\ \A f \in 1 .. 2 : host[f] \in Seq(0 .. 40)
    /\ trouble \subseteq {"partial", "refused", "eof"}
    /\ at = "write" => count = Len(Buffer)

(* What C says a conversion prints. *)
RefDigits(v, b) ==
    LET k == CHOOSE m \in 1 .. Bits : v < b ^ m /\ (m = 1 \/ v >= b ^ (m - 1))
    IN  [i \in 1 .. k |-> (v \div b ^ (k - i)) % b]
RefField(conv) ==
    LET fl     == Flags(conv)
        neg    == conv.c = "d" /\ Negative(conv.arg)
        num    == CASE conv.c = "s" -> conv.arg
                    [] conv.c \in {"x", "p"} -> RefDigits(conv.arg, 16)
                    [] OTHER -> RefDigits(IF neg THEN 2 ^ Bits - conv.arg ELSE conv.arg, 10)
        sign   == IF neg THEN <<Minus>> ELSE IF conv.c = "d" /\ fl.lspace THEN <<Space>> ELSE <<>>
        fill   == fl.width - Len(sign) - Len(num)
    IN  CASE fl.ljust -> sign \o num \o Copies(Space, fill)
          [] ~fl.ljust /\ fl.zero -> sign \o Copies(0, fill) \o num
          [] OTHER -> Copies(Space, fill) \o sign \o num
Reference ==
    IF IsPrintf
    THEN FlattenSeq([i \in DOMAIN call.args |->
             call.args[i].text
             \o CASE call.args[i].conv.c \in {"end", "bad"} -> <<>>
                  [] call.args[i].conv.c = "%" -> <<Percent>>
                  [] OTHER -> RefField(call.args[i].conv)])
    ELSE IF call.f = "puts" THEN call.args \o <<Newline>> ELSE call.args

(* Where the conversions print something else: nothing for a zero in hexadecimal,
   and the sign before the spaces that fill the field. *)
Deviates(conv) ==
    \/ conv.c = "x" /\ conv.arg = 0 /\ ~(Flags(conv).zero /\ Flags(conv).width > 0 /\ ~Flags(conv).ljust)
    \/ /\ conv.c = "d" /\ Negative(conv.arg)
       /\ ~Flags(conv).ljust /\ ~Flags(conv).zero /\ Flags(conv).width > Width(conv)

(* When the host takes what it is given, every function prints what C says, but
   for the two deviations, and returns the number of characters (fputc the
   character, fwrite the items).  A third deviation is not one of text: write
   and swi_dprintf print to standard output whatever descriptor they are given,
   which Stream says for both sides. *)
PrintsAsC ==
    (at = "done" /\ trouble = {} /\ (IsPrintf => \A i \in DOMAIN call.args : ~Deviates(call.args[i].conv)))
    => /\ host[Stream] = Reference
       /\ result = CASE call.f = "fputc" -> call.args[1]
                     [] call.f = "fwrite" -> Len(Reference) \div call.size
                     [] OTHER -> Len(Reference)

(* All that the writes of a function are about, in order. *)
Intended ==
    LET chars(ops) == FlattenSeq([j \in DOMAIN ops |-> ops[j].chars])
    IN  FlattenSeq([i \in 1 .. NumRounds |-> chars(Ops(i))])
Matched(out, all) ==
    FoldLeft(LAMBDA k, ch : IF k < Len(out) /\ out[k + 1] = ch THEN k + 1 ELSE k, 0, all)

(* However the host takes the writes in parts or refuses them, nothing reaches
   it twice, out of order or on another descriptor: retries and the loop that
   pads go on where the host stopped. *)
InOrder ==
    /\ at = "done" /\ Stream \in 1 .. 2 => Matched(host[Stream], Intended) = Len(host[Stream])
    /\ \A f \in 1 .. 2 : f # Stream => host[f] = <<>>

(* printf returns at least as many characters as were printed, unless a field
   failed, for which it takes one off. *)
AllCounted ==
    (at = "done" /\ IsPrintf /\ Stream \in 1 .. 2 /\ "eof" \notin trouble) => result >= Len(host[Stream])

(* A success of fputs, puts and fputc means that all was written, if no write
   was refused. *)
SuccessMeansPrinted ==
    (at = "done" /\ call.f \in {"fputs", "puts", "fputc"} /\ result # SWI_EOF
        /\ "refused" \notin trouble)
    => Stream \in 1 .. 2 /\ host[Stream] = Reference

(* Every function returns, however often the host refuses a write or takes it
   in part, unless it takes nothing again and again: then the loop that pads
   does not end. *)
TakesNothing == HostTakes(count)
Returns == <>[][~TakesNothing]_vars => <>(at = "done")

(* What a caller may conclude from a return value: printf counts no less than
   was printed, and a success of the others means all of it and a write reports
   what was written, where the host did not refuse (RefusalsRetried is what
   would be right there). *)
ResultTells == AllCounted /\ SuccessMeansPrinted /\ CountReported

(* The host never gets anything twice, out of order or on another descriptor. *)
StdioInv == TypeOK /\ InOrder
=============================================================================
