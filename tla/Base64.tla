------------------------------- MODULE Base64 -------------------------------
(***************************************************************************)
(* The base64 encoder: base64_encode and the two pairs of functions that   *)
(* hand its lines to a callback.  The caller feeds any number of chunks    *)
(* and then ends the stream; what does not fill a line, or a group of      *)
(* three bytes, is kept in the state between calls.                        *)
(*                                                                         *)
(* A character is its index in base64_char, or one of Pad, Nul and Junk    *)
(* (what an uninitialized buffer holds).                                   *)
(*                                                                         *)
(* A definition X_Y is the definition X with the mistake Y in it; it is    *)
(* used by no specification, only to see that a property rejects it.       *)
(***************************************************************************)
EXTENDS Integers, Sequences, FiniteSets

CONSTANTS Caps,       \* the sizes of the caller's buffer that are tried
          Bytes,      \* the bytes that are encoded
          MaxBytes    \* bound: bytes of a stream

ASSUME CapsAssumption == Caps \subseteq 1 .. 255      \* dest_len has 8 bits
ASSUME BytesAssumption == Bytes \subseteq 0 .. 255
ASSUME MaxAssumption == MaxBytes \in Nat

Pad == 64
Nul == 65
Junk == 66
Char == 0 .. 66

VARIABLES
    via,        \* the callback of this stream: "puts" or "write"
    cap,        \* the size of the caller's buffer
    destLen, destPos, brem, bremLen, init, final,    \* struct base64_state
    dest,       \* the buffer
    src,        \* what is left of the chunk: *src and n
    pos, rem,   \* destp - dest and dest_rem of the call that is under way
    pc, ret,
    fed,        \* history: all bytes of the stream
    out,        \* history: all characters the callback was given
    cuts        \* history: after how many bytes a chunk ended that was not the last

state == <<destLen, destPos, brem, bremLen, init, final>>
vars == <<via, cap, state, dest, src, pos, rem, pc, ret, fed, out, cuts>>

Init ==
    /\ via \in {"puts", "write"} /\ cap \in Caps
    /\ destLen = cap /\ destPos = 0 /\ brem = 0 /\ bremLen = 0 /\ init = 0 /\ final = 0
    /\ dest = [k \in 0 .. cap - 1 |-> Junk]
    /\ src = <<>> /\ pos = 0 /\ rem = 0 /\ pc = "idle" /\ ret = 0
    /\ fed = <<>> /\ out = <<>> /\ cuts = {}

(* Characters cs written from destp on. *)
Put(d, p, cs) == [k \in DOMAIN d |-> IF k >= p /\ k < p + Len(cs) THEN cs[k - p + 1] ELSE d[k]]

(* base64_encode_cb_puts and base64_encode_cb_write are called. *)
Feed(chunk) ==
    /\ pc = "idle"
    /\ Len(fed) + Len(chunk) <= MaxBytes
    /\ src' = chunk
    /\ fed' = IF final = 1 THEN fed ELSE fed \o chunk
    /\ cuts' = IF final = 1 THEN cuts ELSE cuts \cup {Len(fed)}
    /\ pc' = "encode"
    /\ UNCHANGED <<via, cap, state, dest, pos, rem, ret, out>>

(* base64_final_cb_puts and base64_final_cb_write are called. *)
End ==
    /\ pc = "idle"
    /\ src' = <<>>
    /\ pc' = "encode"
    /\ UNCHANGED <<via, cap, state, dest, pos, rem, ret, fed, out, cuts>>

(* A line has room for whole groups of four and the null character. *)
WholeLines_NoNul(len) == (len \div 4) * 4
WholeLines(len) == ((len - 1) \div 4) * 4 + 1

(* The beginning of base64_encode. *)
Refuse ==
    /\ pc = "encode"
    /\ final = 1 \/ (init = 0 /\ destLen < 5)
    /\ ret' = -1
    /\ pc' = "idle"
    /\ UNCHANGED <<via, cap, state, dest, src, pos, rem, fed, out, cuts>>

LineStart == IF init = 1 /\ destPos = destLen THEN 0 ELSE destPos
Encode ==
    /\ pc = "encode"
    /\ final = 0 /\ (init = 1 \/ destLen >= 5)
    /\ init' = 1
    /\ destLen' = IF init = 1 THEN destLen ELSE WholeLines(destLen)
    /\ destPos' = LineStart
    /\ pos' = destPos'
    /\ rem' = destLen' - destPos'
    /\ pc' = IF src = <<>> THEN "final" ELSE "byte"
    /\ UNCHANGED <<via, cap, brem, bremLen, final, dest, src, ret, fed, out, cuts>>

(* One byte in: the characters it completes, and the bits that are left over. *)
Chars(b) ==
    CASE bremLen = 0 -> <<b \div 4>>
      [] bremLen = 1 -> <<brem * 16 + b \div 16>>
      [] bremLen = 2 -> <<brem * 4 + b \div 64, b % 64>>
Left_Shifted(b) == CASE bremLen = 0 -> b % 4 [] bremLen = 1 -> b % 8 [] bremLen = 2 -> 0
Left(b) == CASE bremLen = 0 -> b % 4 [] bremLen = 1 -> b % 16 [] bremLen = 2 -> 0

(* The line is full when only the null character's place is left. *)
Full_Early(r) == r <= 3
Full(r) == r = 1
EncodeByte ==
    /\ pc = "byte"
    /\ LET b == Head(src)
           p == pos + Len(Chars(b))
           r == rem - Len(Chars(b))
           d == Put(dest, pos, Chars(b))
       IN  /\ dest' = IF Full(r) THEN Put(d, p, <<Nul>>) ELSE d
           /\ rem' = IF Full(r) THEN 0 ELSE r
           /\ pos' = p
           /\ brem' = Left(b)
    /\ bremLen' = (bremLen + 1) % 3
    /\ src' = Tail(src)
    /\ pc' = IF src' # <<>> /\ rem' > 0 THEN "byte" ELSE "encoded"
    /\ UNCHANGED <<via, cap, destLen, destPos, init, final, ret, fed, out, cuts>>

(* base64_encode returns what is left of the chunk.  The callback gets a line
   only if that is not nothing: a line that the last byte of a chunk completes
   stays in the buffer. *)
Delivers == src # <<>>
Encoded ==
    /\ pc = "encoded"
    /\ destPos' = destLen - rem
    /\ ret' = Len(src)
    /\ pc' = IF Delivers THEN "callback" ELSE "idle"
    /\ UNCHANGED <<via, cap, destLen, brem, bremLen, init, final, dest, src, pos, rem, fed, out,
                   cuts>>

(* base64_encode with n = 0.  A buffer that is just full holds a whole line. *)
Tails == << <<Nul>>, <<brem * 16, Pad, Pad, Nul>>, <<brem * 4, Pad, Nul>> >>
EncodeFinal ==
    /\ pc = "final"
    /\ final' = 1
    /\ IF destPos = 0
       THEN UNCHANGED <<dest, destPos>>
       ELSE /\ dest' = Put(dest, pos, Tails[bremLen + 1])
            /\ destPos' = destPos + Len(Tails[bremLen + 1])
    /\ ret' = 0
    /\ pc' = "callback"
    /\ UNCHANGED <<via, cap, destLen, brem, bremLen, init, src, pos, rem, fed, out, cuts>>

(* What the callback is given: to puts a string, to write a number of bytes. *)
Given ==
    CASE via = "puts" -> CHOOSE k \in DOMAIN dest : dest[k] = Nul /\ \A j \in 0 .. k - 1 : dest[j] # Nul
      [] via = "write" /\ final = 1 /\ destPos # 0 -> destPos - 1
      [] OTHER -> destLen - 1
Line(n) == [k \in 1 .. n |-> dest[k - 1]]
(* Nothing was ever encoded: the buffer has no null character puts could stop at. *)
Unwritten == \A k \in DOMAIN dest : dest[k] # Nul
Callback ==
    /\ pc = "callback"
    /\ out' = IF via = "puts" /\ Unwritten THEN out ELSE out \o Line(Given)
    /\ ret' = 0
    /\ pc' = IF final = 1 THEN "idle" ELSE "encode"
    /\ UNCHANGED <<via, cap, state, dest, src, pos, rem, fed, cuts>>

(* The call returns what the callback returned.  The rest of the chunk is then
   known to nobody: the line and what follows it in the chunk have not been
   delivered.  The code keeps no note of it and would encode another chunk after
   it; what a stream with such a hole should be is nowhere said, so it ends here. *)
CallbackFails ==
    /\ pc = "callback"
    /\ ret' = -1
    /\ pc' = "failed"
    /\ UNCHANGED <<via, cap, state, dest, src, pos, rem, fed, out, cuts>>

Chunks == UNION {[1 .. n -> Bytes] : n \in 1 .. MaxBytes}

Next ==
    \/ (\E chunk \in Chunks : Feed(chunk)) \/ End
    \/ Refuse \/ Encode \/ EncodeByte \/ Encoded \/ EncodeFinal \/ Callback \/ CallbackFails

Spec == Init /\ [][Next]_vars
-----------------------------------------------------------------------------
(* Properties *)

TypeOK ==
    /\ via \in {"puts", "write"} /\ cap \in Caps
    /\ destLen \in 0 .. 255 /\ destPos \in 0 .. 255
    /\ brem \in 0 .. 15 /\ bremLen \in 0 .. 2
    /\ init \in 0 .. 1 /\ final \in 0 .. 1
    /\ dest \in [0 .. cap - 1 -> Char]
    /\ src \in Seq(Bytes) /\ fed \in Seq(Bytes) /\ out \in Seq(Char)
    /\ pos \in 0 .. 255 /\ rem \in 0 .. 255
    /\ pc \in {"idle", "encode", "byte", "encoded", "final", "callback", "failed"}
    /\ ret \in Int
    /\ cuts \subseteq 0 .. MaxBytes

(* base64 of a sequence of bytes, from its bits: every six are a character, the
   last ones filled up with zeros, and Pad up to a multiple of four. *)
Pow2 == <<1, 2, 4, 8, 16, 32, 64, 128>>
Bit(s, j) == IF j \div 8 < Len(s) THEN (s[j \div 8 + 1] \div Pow2[8 - (j % 8)]) % 2 ELSE 0
Sextet(s, i) == 32 * Bit(s, 6 * i) + 16 * Bit(s, 6 * i + 1) + 8 * Bit(s, 6 * i + 2)
                + 4 * Bit(s, 6 * i + 3) + 2 * Bit(s, 6 * i + 4) + Bit(s, 6 * i + 5)
Reference(s) ==
    [i \in 1 .. 4 * ((Len(s) + 2) \div 3) |-> IF 6 * (i - 1) < 8 * Len(s) THEN Sextet(s, i - 1) ELSE Pad]

Ended == pc = "idle" /\ final = 1

(* Whatever the size of the buffer, both callbacks have been given a beginning
   of the base64 of the stream, and all of it when the stream has ended: unless
   a chunk that is not the last ends where a line does, for then that line is
   overwritten before a callback gets it. *)
BytesPerLine == 3 * ((destLen - 1) \div 4)
LineLost == \E n \in cuts : n # 0 /\ n % BytesPerLine = 0
StreamEncoded ==
    (init = 1 /\ fed # <<>> /\ ~LineLost) =>
        /\ out = SubSeq(Reference(fed), 1, Len(out))
        /\ Ended => out = Reference(fed)

(* And then that line, and only it, is missing. *)
OnlyLineLost ==
    (Ended /\ fed # <<>>) =>
        Len(out) = Len(Reference(fed))
                   - (destLen - 1) * Cardinality({n \in cuts : n # 0 /\ n % BytesPerLine = 0})

(* No character is written outside the line: before a byte there is room for
   what it completes and for the null character, and the rest of a group and
   its padding end where the line does. *)
InBounds ==
    /\ pc = "byte" => /\ pos + (IF bremLen = 2 THEN 2 ELSE 1) < destLen
                      /\ destLen <= cap
    /\ pc = "final" /\ destPos # 0 => pos + Len(Tails[bremLen + 1]) <= destLen

(* Why: between calls the line holds whole characters of the group that bremLen
   counts, and a line that is full holds whole groups. *)
InLine(p) == p < destLen - 1 /\ p % 4 = bremLen
FullLine(p) == p = destLen /\ bremLen = 0
LineInv ==
    /\ init = 1 => /\ destLen \in 5 .. cap /\ destLen % 4 = 1
                   /\ destPos <= destLen
                   /\ final = 0 => (InLine(destPos) \/ FullLine(destPos) \/ pc \in {"byte", "encoded"})
    /\ init = 0 => destLen = cap /\ destPos = 0 /\ bremLen = 0 /\ pc \in {"idle", "encode"}
    /\ brem < (IF bremLen = 0 THEN 1 ELSE IF bremLen = 1 THEN 4 ELSE 16)
    /\ pc \in {"byte", "encoded", "final"} => final = 0
    /\ pc = "byte" => src # <<>> /\ InLine(pos) /\ rem = destLen - pos
    /\ pc = "encoded" => \/ InLine(pos) /\ rem = destLen - pos /\ src = <<>>
                         \/ bremLen = 0 /\ rem = 0
    /\ pc = "final" => InLine(destPos) /\ pos = destPos
BInv == TypeOK /\ LineInv

(* A string that the callback puts gets ends within the buffer. *)
StringEnds == (pc = "callback" /\ fed # <<>>) => ~Unwritten

(* What the callbacks get: strings, which make up the encoding of the stream
   but for the lines that a chunk ends at. *)
Delivered == StreamEncoded /\ OnlyLineLost /\ StringEnds
=============================================================================
