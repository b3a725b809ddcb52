---------------------------- MODULE Base64Proofs ----------------------------
(***************************************************************************)
(* Proofs about Base64: whatever the size of the buffer, the bytes and the *)
(* way the stream is cut into chunks, the encoder stays inside the line,   *)
(* and the callbacks get the encoding of the stream but for the lines that *)
(* a chunk ends at.                                                        *)
(***************************************************************************)
EXTENDS Base64, WellFoundedInduction, FiniteSetTheorems, TLAPS

(* A set of natural numbers that is not empty has a least element. *)
LEMMA LeastNat ==
    ASSUME NEW T, T \subseteq Nat, T # {}
    PROVE  \E x \in T : \A y \in T : ~(y < x)
<1>1. \E x \in T : \A y \in T : ~(<<y, x>> \in OpToRel(<, Nat))
  BY NatLessThanWellFounded, WFMin, Zenon
<1> QED
  BY <1>1 DEF OpToRel

(* Overwriting characters of the buffer with characters leaves a buffer. *)
LEMMA PutType ==
    ASSUME NEW n \in Nat, NEW d \in [0 .. n - 1 -> Char], NEW p \in Nat, NEW cs \in Seq(Char)
    PROVE  Put(d, p, cs) \in [0 .. n - 1 -> Char]
BY DEF Put

(* The buffer of a line ends behind whole groups and the null character. *)
LEMMA WholeLinesFit ==
    ASSUME NEW n \in 5 .. 255
    PROVE  WholeLines(n) \in 5 .. n /\ WholeLines(n) % 4 = 1
BY DEF WholeLines

(* One byte completes one character or, with the third byte of a group, two. *)
LEMMA CharsType ==
    ASSUME TypeOK, LineInv, NEW b \in 0 .. 255
    PROVE  /\ Chars(b) \in Seq(Char)
           /\ Len(Chars(b)) = IF bremLen = 2 THEN 2 ELSE 1
           /\ Left(b) \in 0 .. 15
           /\ Left(b) < IF bremLen = 0 THEN 4 ELSE IF bremLen = 1 THEN 16 ELSE 1
<1>1. brem \in 0 .. 15 /\ bremLen \in 0 .. 2
  BY DEF TypeOK
<1>2. brem < IF bremLen = 0 THEN 1 ELSE IF bremLen = 1 THEN 4 ELSE 16
  BY DEF LineInv
<1>3. /\ b \div 4 \in 0 .. 63 /\ b \div 16 \in 0 .. 15 /\ b \div 64 \in 0 .. 3
      /\ b % 4 \in 0 .. 3 /\ b % 16 \in 0 .. 15 /\ b % 64 \in 0 .. 63
  OBVIOUS
<1>4. CASE bremLen = 0
  <2>1. Chars(b) = <<b \div 4>> /\ Left(b) = b % 4
    BY <1>4 DEF Chars, Left
  <2> QED
    BY <1>3, <1>4, <2>1 DEF Char
<1>5. CASE bremLen = 1
  <2>1. Chars(b) = <<brem * 16 + b \div 16>> /\ Left(b) = b % 16
    BY <1>5 DEF Chars, Left
  <2>2. brem * 16 + b \div 16 \in Char
    BY <1>1, <1>2, <1>3, <1>5 DEF Char
  <2> QED
    BY <1>3, <1>5, <2>1, <2>2
<1>6. CASE bremLen = 2
  <2>1. Chars(b) = <<brem * 4 + b \div 64, b % 64>> /\ Left(b) = 0
    BY <1>6 DEF Chars, Left
  <2>2. brem * 4 + b \div 64 \in Char /\ b % 64 \in Char
    BY <1>1, <1>2, <1>3, <1>6 DEF Char
  <2> QED
    BY <1>6, <2>1, <2>2
<1> QED
  BY <1>1, <1>4, <1>5, <1>6

LEMMA TailsType ==
    ASSUME TypeOK, LineInv
    PROVE  /\ Tails[bremLen + 1] \in Seq(Char)
           /\ Len(Tails[bremLen + 1]) = IF bremLen = 0 THEN 1 ELSE IF bremLen = 1 THEN 4 ELSE 3
<1> USE DEF TypeOK, LineInv, Tails, Char, Pad, Nul
<1>1. CASE bremLen = 0
  BY <1>1
<1>2. CASE bremLen = 1
  BY <1>2
<1>3. CASE bremLen = 2
  BY <1>3
<1> QED
  BY <1>1, <1>2, <1>3

(* What is left of a line and how far it has come are within the field's range. *)
LEMMA LineRest ==
    ASSUME NEW len \in Int, len <= 255, NEW p \in Int, p >= 0, p < len - 1
    PROVE  len - p \in 0 .. 255 /\ p \in 0 .. 255 /\ len \in 0 .. 255
OBVIOUS

(* The end of a group, with its padding and the null character, ends in the line. *)
LEMMA TailStep ==
    ASSUME NEW len \in 5 .. 255, len % 4 = 1, NEW k \in 0 .. 2,
           NEW p \in 0 .. 255, p < len - 1, p % 4 = k
    PROVE  p + (IF k = 0 THEN 1 ELSE IF k = 1 THEN 4 ELSE 3) <= len
<1>1. CASE k = 0
  BY <1>1
<1>2. CASE k = 1
  BY <1>2
<1>3. CASE k = 2
  BY <1>3
<1> QED
  BY <1>1, <1>2, <1>3

(* What a callback is given is part of the buffer. *)
LEMMA LineType ==
    ASSUME TypeOK, LineInv, pc = "callback", ~(via = "puts" /\ Unwritten)
    PROVE  Line(Given) \in Seq(Char)
<1>1. via = "puts" => Given \in 0 .. cap - 1
  <2> SUFFICES ASSUME via = "puts"
               PROVE  Given \in 0 .. cap - 1
    OBVIOUS
  <2> DEFINE T == {k \in DOMAIN dest : dest[k] = Nul}
  <2>1. DOMAIN dest = 0 .. cap - 1 /\ cap \in Nat
    BY CapsAssumption DEF TypeOK
  <2>2. T # {} /\ T \subseteq Nat
    BY <2>1 DEF Unwritten
  <2>3. PICK x \in T : \A y \in T : ~(y < x)
    BY <2>2, LeastNat
  <2>4. x \in DOMAIN dest /\ dest[x] = Nul /\ \A j \in 0 .. x - 1 : dest[j] # Nul
    BY <2>1, <2>3
  <2> QED
    BY <2>1, <2>4 DEF Given
<1>2. via = "write" => Given \in Int /\ Given <= cap
  <2>1. init = 1 /\ destLen \in 5 .. cap /\ destPos <= destLen /\ destPos \in Nat /\ cap \in Nat
    BY CapsAssumption DEF TypeOK, LineInv
  <2> QED
    BY <2>1 DEF Given
<1>3. Given \in Int /\ Given <= cap /\ dest \in [0 .. cap - 1 -> Char] /\ cap \in Nat
  BY <1>1, <1>2, CapsAssumption DEF TypeOK
<1>4. \A k \in 1 .. Given : dest[k - 1] \in Char
  BY <1>3
<1>5. CASE Given >= 0
  BY <1>3, <1>4, <1>5 DEF Line
<1>6. CASE Given < 0
  <2>1. Line(Given) = [k \in 1 .. 0 |-> dest[k - 1]]
    BY <1>3, <1>6 DEF Line
  <2> QED
    BY <2>1
<1> QED
  BY <1>3, <1>5, <1>6

LEMMA BInvInit == Init => BInv
<1> SUFFICES ASSUME Init PROVE BInv
  OBVIOUS
<1>1. cap \in 1 .. 255
  BY CapsAssumption DEF Init
<1>2. TypeOK
  BY <1>1, MaxAssumption DEF Init, TypeOK, Char, Junk
<1>3. LineInv
  BY <1>1 DEF Init, LineInv
<1> QED
  BY <1>2, <1>3 DEF BInv

LEMMA BInvFeed == ASSUME BInv, NEW chunk \in Chunks, Feed(chunk) PROVE BInv'
<1> USE DEF BInv
<1>1. chunk \in Seq(Bytes)
  BY DEF Chunks
<1>2. Len(fed) \in 0 .. MaxBytes
  BY <1>1, MaxAssumption DEF Feed, TypeOK
<1>3. TypeOK'
  <2>1. fed' \in Seq(Bytes) /\ src' \in Seq(Bytes)
    BY <1>1 DEF Feed, TypeOK
  <2>2. cuts' \subseteq 0 .. MaxBytes
    BY <1>2 DEF Feed, TypeOK
  <2> QED
    BY <2>1, <2>2 DEF Feed, TypeOK, state
<1>4. LineInv'
  BY DEF Feed, LineInv, InLine, FullLine, state
<1> QED
  BY <1>3, <1>4

LEMMA BInvEnd == ASSUME BInv, End PROVE BInv'
<1>1. TypeOK'
  BY DEF BInv, End, TypeOK, state
<1>2. LineInv'
  BY DEF BInv, End, LineInv, InLine, FullLine, state
<1> QED
  BY <1>1, <1>2 DEF BInv

LEMMA BInvRefuse == ASSUME BInv, Refuse PROVE BInv'
<1>1. TypeOK'
  BY DEF BInv, Refuse, TypeOK, state
<1>2. LineInv'
  BY DEF BInv, Refuse, LineInv, InLine, FullLine, state
<1> QED
  BY <1>1, <1>2 DEF BInv

LEMMA BInvEncode == ASSUME BInv, Encode PROVE BInv'
<1>1. cap \in 1 .. 255 /\ destLen \in 0 .. 255 /\ destPos \in 0 .. 255 /\ bremLen \in 0 .. 2
  BY CapsAssumption DEF BInv, TypeOK
<1>2. destLen' \in 5 .. cap /\ destLen' % 4 = 1
  <2>1. CASE init = 0
    <3>1. destLen = cap /\ destLen \in 5 .. 255 /\ destLen' = WholeLines(destLen)
      BY <1>1, <2>1 DEF BInv, LineInv, Encode
    <3> QED
      BY <3>1, WholeLinesFit
  <2>2. CASE init = 1
    BY <2>2 DEF BInv, LineInv, Encode
  <2> QED
    BY <2>1, <2>2 DEF BInv, TypeOK
<1>3. destPos' < destLen' - 1 /\ destPos' % 4 = bremLen /\ destPos' \in 0 .. 255
  <2>1. CASE init = 0
    BY <1>1, <1>2, <2>1 DEF BInv, LineInv, Encode, LineStart
  <2>2. CASE init = 1
    BY <1>1, <1>2, <2>2 DEF BInv, LineInv, Encode, LineStart, InLine, FullLine
  <2> QED
    BY <2>1, <2>2 DEF BInv, TypeOK
<1>4. pos' = destPos' /\ rem' = destLen' - pos' /\ rem' \in 0 .. 255
  <2>1. pos' = destPos' /\ rem' = destLen' - destPos'
    BY DEF Encode
  <2>2. destLen' \in Int /\ destLen' <= 255
    BY <1>1, <1>2
  <2>3. destPos' \in Int /\ destPos' >= 0 /\ destPos' < destLen' - 1
    BY <1>3
  <2>4. destLen' - destPos' \in 0 .. 255
    BY <2>2, <2>3, LineRest
  <2> QED
    BY <2>1, <2>4
<1>5. TypeOK'
  <2>1. destLen' \in 0 .. 255
    BY <1>1, <1>2
  <2>2. destPos' \in 0 .. 255 /\ pos' \in 0 .. 255
    BY <1>3, <1>4
  <2> QED
    BY <1>4, <2>1, <2>2 DEF BInv, TypeOK, Encode
<1>6. LineInv'
  BY <1>1, <1>2, <1>3, <1>4 DEF BInv, LineInv, InLine, FullLine, Encode
<1> QED
  BY <1>5, <1>6 DEF BInv

(* What a byte does: the place in the line and the place in the group agree, and
   with whole groups per line a byte either completes the line together with its
   group or leaves room for another. *)
BytePlace ==
    /\ cap \in 1 .. 255 /\ destLen \in 5 .. cap /\ destLen % 4 = 1 /\ bremLen \in 0 .. 2
    /\ pos \in 0 .. 255 /\ pos < destLen - 1 /\ pos % 4 = bremLen /\ rem = destLen - pos
    /\ src \in Seq(Bytes) /\ src # <<>> /\ init = 1 /\ final = 0
ByteChars(b, w) ==
    /\ Chars(b) \in Seq(Char) /\ w = (IF bremLen = 2 THEN 2 ELSE 1)
    /\ Left(b) \in 0 .. 15
    /\ Left(b) < IF bremLen = 0 THEN 4 ELSE IF bremLen = 1 THEN 16 ELSE 1
ByteFits(w) ==
    /\ w \in 1 .. 2 /\ pos + w < destLen
    /\ rem - w = 1 => bremLen = 2
    /\ rem - w # 1 => pos + w < destLen - 1 /\ (pos + w) % 4 = (bremLen + 1) % 3
ByteDone(b, w) ==
    /\ pos' = pos + w
    /\ rem' = IF Full(rem - w) THEN 0 ELSE rem - w
    /\ brem' = Left(b)
    /\ dest' = IF Full(rem - w) THEN Put(Put(dest, pos, Chars(b)), pos + w, <<Nul>>)
               ELSE Put(dest, pos, Chars(b))
    /\ bremLen' = (bremLen + 1) % 3
LEMMA ByteFacts ==
    ASSUME BInv, EncodeByte
    PROVE  LET b == Head(src)
               w == Len(Chars(b))
           IN  /\ BytePlace /\ b \in 0 .. 255 /\ src' \in Seq(Bytes)
               /\ ByteChars(b, w) /\ ByteFits(w) /\ ByteDone(b, w)
<1> DEFINE b == Head(src)
           w == Len(Chars(b))
<1>1. /\ cap \in 1 .. 255 /\ destLen \in 5 .. cap /\ destLen % 4 = 1 /\ bremLen \in 0 .. 2
      /\ pos \in 0 .. 255 /\ pos < destLen - 1 /\ pos % 4 = bremLen /\ rem = destLen - pos
      /\ src \in Seq(Bytes) /\ src # <<>> /\ init = 1 /\ final = 0
  BY CapsAssumption DEF BInv, TypeOK, LineInv, InLine, EncodeByte
<1>2. b \in 0 .. 255 /\ src' \in Seq(Bytes)
  <2>1. b \in Bytes /\ Tail(src) \in Seq(Bytes)
    BY <1>1
  <2> QED
    BY <2>1, BytesAssumption DEF EncodeByte
<1>3. /\ Chars(b) \in Seq(Char) /\ w = (IF bremLen = 2 THEN 2 ELSE 1)
      /\ Left(b) \in 0 .. 15
      /\ Left(b) < IF bremLen = 0 THEN 4 ELSE IF bremLen = 1 THEN 16 ELSE 1
  BY <1>2, CharsType DEF BInv
<1> HIDE DEF b, w
<1>4. /\ pos' = pos + w
      /\ rem' = IF Full(rem - w) THEN 0 ELSE rem - w
      /\ brem' = Left(b)
      /\ dest' = IF Full(rem - w) THEN Put(Put(dest, pos, Chars(b)), pos + w, <<Nul>>)
                 ELSE Put(dest, pos, Chars(b))
      /\ bremLen' = (bremLen + 1) % 3
  BY DEF EncodeByte, b, w
<1>s. /\ w \in 1 .. 2 /\ pos + w < destLen
      /\ rem - w = 1 => bremLen = 2
      /\ rem - w # 1 => pos + w < destLen - 1 /\ (pos + w) % 4 = (bremLen + 1) % 3
  <2>1. w \in 1 .. 2 /\ destLen \in 5 .. 255
    BY <1>1, <1>3
  <2>2. rem - w = destLen - pos - w
    BY <1>1, <2>1
  <2>3. pos \in Nat /\ pos < destLen - 1 /\ pos % 4 = bremLen /\ destLen % 4 = 1
    BY <1>1
  <2>4. pos \in Nat /\ destLen \in Nat /\ rem \in Int /\ rem = destLen - pos
    BY <1>1
  <2>5. CASE bremLen = 0
    <3>1. w = 1 /\ pos % 4 = 0
      BY <1>3, <2>3, <2>5
    <3>2. (pos + 1) % 4 = 1 /\ destLen - pos # 2
      BY <2>1, <2>3, <3>1
    <3>3. (bremLen + 1) % 3 = 1
      BY <2>5
    <3>4. rem - w = destLen - pos - 1 /\ destLen - pos > 1
      BY <2>1, <2>2, <2>3, <3>1
    <3>5. /\ pos + w < destLen - 1 /\ rem - w # 1
      BY <2>1, <2>4, <3>1, <3>2, <3>4
    <3> QED
      BY <2>1, <2>4, <3>1, <3>2, <3>3, <3>5
  <2>6. CASE bremLen = 1
    <3>1. w = 1 /\ pos % 4 = 1
      BY <1>3, <2>3, <2>6
    <3>2. (pos + 1) % 4 = 2 /\ destLen - pos # 2
      BY <2>1, <2>3, <3>1
    <3>3. (bremLen + 1) % 3 = 2
      BY <2>6
    <3>4. rem - w = destLen - pos - 1 /\ destLen - pos > 1
      BY <2>1, <2>2, <2>3, <3>1
    <3>5. /\ pos + w < destLen - 1 /\ rem - w # 1
      BY <2>1, <2>4, <3>1, <3>2, <3>4
    <3> QED
      BY <2>1, <2>4, <3>1, <3>2, <3>3, <3>5
  <2>7. CASE bremLen = 2
    <3>1. w = 2 /\ pos % 4 = 2
      BY <1>3, <2>3, <2>7
    <3>2. (pos + 2) % 4 = 0
      BY <2>3, <3>1
    <3>3. (bremLen + 1) % 3 = 0
      BY <2>7
    <3>4. rem - w = destLen - pos - 2 /\ destLen - pos > 1
      BY <2>1, <2>2, <2>3, <3>1
    <3>5. pos + w < destLen /\ (rem - w # 1 => pos + w < destLen - 1)
      <4>1. destLen - pos # 2
        BY <2>1, <2>3, <3>1
      <4>2. w = 2
        BY <3>1
      <4>3. destLen - pos > 2
        BY <2>4, <3>4, <4>1
      <4> QED
        BY <2>4, <4>2, <4>3
    <3> QED
      BY <2>1, <2>7, <3>1, <3>2, <3>3, <3>5
  <2> QED
    BY <1>1, <2>5, <2>6, <2>7
<1> QED
  BY <1>1, <1>2, <1>3, <1>4, <1>s DEF BytePlace, ByteChars, ByteFits, ByteDone, b, w

LEMMA BInvEncodeByte == ASSUME BInv, EncodeByte PROVE BInv'
<1> DEFINE b == Head(src)
           w == Len(Chars(b))
<1>0. /\ BytePlace /\ b \in 0 .. 255 /\ src' \in Seq(Bytes)
      /\ ByteChars(b, w) /\ ByteFits(w) /\ ByteDone(b, w)
  BY ByteFacts
<1> HIDE DEF b, w
<1>1. /\ cap \in 1 .. 255 /\ destLen \in 5 .. cap /\ destLen % 4 = 1 /\ bremLen \in 0 .. 2
      /\ pos \in 0 .. 255 /\ pos < destLen - 1 /\ pos % 4 = bremLen /\ rem = destLen - pos
      /\ src \in Seq(Bytes) /\ src # <<>> /\ init = 1 /\ final = 0
  BY <1>0 DEF BytePlace
<1>2. b \in 0 .. 255 /\ src' \in Seq(Bytes)
  BY <1>0
<1>3. /\ Chars(b) \in Seq(Char) /\ w = (IF bremLen = 2 THEN 2 ELSE 1)
      /\ Left(b) \in 0 .. 15
      /\ Left(b) < IF bremLen = 0 THEN 4 ELSE IF bremLen = 1 THEN 16 ELSE 1
  BY <1>0 DEF ByteChars
<1>4. /\ pos' = pos + w
      /\ rem' = IF Full(rem - w) THEN 0 ELSE rem - w
      /\ brem' = Left(b)
      /\ dest' = IF Full(rem - w) THEN Put(Put(dest, pos, Chars(b)), pos + w, <<Nul>>)
                 ELSE Put(dest, pos, Chars(b))
      /\ bremLen' = (bremLen + 1) % 3
  BY <1>0 DEF ByteDone
<1>s. /\ w \in 1 .. 2 /\ pos + w < destLen
      /\ rem - w = 1 => bremLen = 2
      /\ rem - w # 1 => pos + w < destLen - 1 /\ (pos + w) % 4 = (bremLen + 1) % 3
  BY <1>0 DEF ByteFits
<1>5. dest' \in [0 .. cap - 1 -> Char]
  <2> DEFINE cs == Chars(b)
             d  == Put(dest, pos, cs)
  <2>0. cap \in Nat /\ pos \in Nat /\ pos + w \in Nat /\ cs \in Seq(Char)
    BY <1>1, <1>3
  <2> HIDE DEF cs
  <2>1. d \in [0 .. cap - 1 -> Char]
    <3>1. dest \in [0 .. cap - 1 -> Char]
      BY DEF BInv, TypeOK
    <3> QED
      BY <2>0, <3>1, PutType
  <2>2. <<Nul>> \in Seq(Char)
    BY DEF Char, Nul
  <2> HIDE DEF d
  <2>3. Put(d, pos + w, <<Nul>>) \in [0 .. cap - 1 -> Char]
    BY <2>0, <2>1, <2>2, PutType
  <2> QED
    BY <1>4, <2>1, <2>3 DEF d, cs
<1>6. CASE rem - w = 1
  <2>1. rem' = 0 /\ bremLen' = 0 /\ pos' = pos + w /\ pos' \in 0 .. 255 /\ brem' = 0
    <3>1. bremLen = 2 /\ Left(b) = 0
      BY <1>3, <1>6, <1>s
    <3> QED
      BY <1>1, <1>4, <1>6, <1>s, <3>1 DEF Full
  <2>2. pc' = "encoded"
    BY <2>1 DEF EncodeByte
  <2>3. TypeOK'
    BY <1>2, <1>5, <2>1, <2>2 DEF BInv, TypeOK, EncodeByte
  <2>4. LineInv'
    BY <1>1, <2>1, <2>2 DEF BInv, LineInv, EncodeByte
  <2> QED
    BY <2>3, <2>4 DEF BInv
<1>7. CASE rem - w # 1
  <2>1. /\ rem' = destLen - pos' /\ rem' > 1 /\ pos' % 4 = bremLen' /\ pos' \in 0 .. 255
        /\ bremLen' \in 0 .. 2 /\ rem' \in 0 .. 255
        /\ brem' < IF bremLen' = 0 THEN 1 ELSE IF bremLen' = 1 THEN 4 ELSE 16
    <3>1. rem' = rem - w /\ pos' = pos + w /\ bremLen' = (bremLen + 1) % 3 /\ brem' = Left(b)
      BY <1>4, <1>7 DEF Full
    <3>2. /\ bremLen' \in 0 .. 2
          /\ brem' < IF bremLen' = 0 THEN 1 ELSE IF bremLen' = 1 THEN 4 ELSE 16
      BY <1>1, <1>3, <3>1
    <3> QED
      BY <1>1, <1>7, <1>s, <3>1, <3>2
  <2>2. TypeOK'
    <3>1. brem' \in 0 .. 15 /\ bremLen' \in 0 .. 2 /\ pos' \in 0 .. 255 /\ rem' \in 0 .. 255
      BY <1>3, <1>4, <2>1
    <3> QED
      BY <1>2, <1>5, <3>1 DEF BInv, TypeOK, EncodeByte
  <2>3. pos' < destLen' - 1 /\ destLen' = destLen /\ rem' > 0
    <3>1. destLen' = destLen /\ pos' = pos + w /\ pos + w < destLen - 1
      BY <1>4, <1>7, <1>s DEF EncodeByte
    <3>2. rem' > 0
      BY <2>1
    <3> QED
      BY <3>1, <3>2
  <2>4. LineInv'
    BY <1>1, <2>1, <2>3 DEF BInv, LineInv, InLine, EncodeByte
  <2> QED
    BY <2>2, <2>4 DEF BInv
<1> QED
  BY <1>6, <1>7

LEMMA BInvEncoded == ASSUME BInv, Encoded PROVE BInv'
<1>1. /\ cap \in 1 .. 255 /\ destLen \in 5 .. cap /\ destLen % 4 = 1 /\ bremLen \in 0 .. 2
      /\ pos \in 0 .. 255 /\ rem \in 0 .. 255 /\ src \in Seq(Bytes)
      /\ init = 1 /\ final = 0
      /\ \/ pos < destLen - 1 /\ pos % 4 = bremLen /\ rem = destLen - pos /\ src = <<>>
         \/ bremLen = 0 /\ rem = 0
  BY CapsAssumption DEF BInv, TypeOK, LineInv, InLine, Encoded
<1>2. destPos' = destLen - rem /\ destPos' \in 0 .. 255 /\ destPos' <= destLen
  BY <1>1 DEF Encoded
<1>3. TypeOK'
  BY <1>1, <1>2 DEF BInv, TypeOK, Encoded, Delivers
<1>4. LineInv'
  BY <1>1, <1>2 DEF BInv, LineInv, InLine, FullLine, Encoded, Delivers
<1> QED
  BY <1>3, <1>4 DEF BInv

LEMMA BInvEncodeFinal == ASSUME BInv, EncodeFinal PROVE BInv'
<1>1. /\ cap \in 1 .. 255 /\ destLen \in 5 .. cap /\ destLen % 4 = 1 /\ bremLen \in 0 .. 2
      /\ pos \in 0 .. 255 /\ pos < destLen - 1 /\ pos % 4 = bremLen /\ pos = destPos /\ init = 1
  BY CapsAssumption DEF BInv, TypeOK, LineInv, InLine, EncodeFinal
<1> DEFINE t == Tails[bremLen + 1]
<1>2. t \in Seq(Char) /\ Len(t) = (IF bremLen = 0 THEN 1 ELSE IF bremLen = 1 THEN 4 ELSE 3)
  BY TailsType DEF BInv
<1> HIDE DEF t
<1>3. \/ dest' = dest /\ destPos' = destPos
      \/ dest' = Put(dest, pos, t) /\ destPos' = destPos + Len(t)
  BY DEF EncodeFinal, t
<1>4. dest' \in [0 .. cap - 1 -> Char]
  <2>1. dest \in [0 .. cap - 1 -> Char] /\ cap \in Nat /\ pos \in Nat
    BY <1>1 DEF BInv, TypeOK
  <2>2. Put(dest, pos, t) \in [0 .. cap - 1 -> Char]
    BY <1>2, <2>1, PutType
  <2> QED
    BY <1>3, <2>1, <2>2
<1>5. destPos' \in 0 .. 255 /\ destPos' <= destLen
  <2>1. destLen \in 5 .. 255 /\ pos + Len(t) <= destLen
    BY <1>1, <1>2, TailStep
  <2>2. Len(t) \in Nat /\ destPos \in 0 .. 255 /\ pos = destPos /\ destPos <= destLen
    BY <1>1, <1>2
  <2>3. /\ destPos \in 0 .. 255 /\ destPos + Len(t) \in 0 .. 255
        /\ destPos <= destLen /\ destPos + Len(t) <= destLen
    <3> DEFINE n == Len(t)
    <3>1. n \in Nat /\ destPos + n <= destLen /\ destLen \in 5 .. 255 /\ destPos \in 0 .. 255
      BY <2>1, <2>2
    <3> HIDE DEF n
    <3>2. destPos + n \in 0 .. 255 /\ destPos <= destLen
      BY <3>1
    <3> QED
      BY <3>1, <3>2 DEF n
  <2> QED
    BY <1>3, <2>3
<1>6. TypeOK'
  BY <1>4, <1>5 DEF BInv, TypeOK, EncodeFinal
<1>7. LineInv'
  BY <1>1, <1>5 DEF BInv, LineInv, EncodeFinal
<1> QED
  BY <1>6, <1>7 DEF BInv

LEMMA BInvCallback == ASSUME BInv, Callback PROVE BInv'
<1>1. out' \in Seq(Char)
  <2>1. CASE via = "puts" /\ Unwritten
    BY <2>1 DEF Callback, BInv, TypeOK
  <2>2. CASE ~(via = "puts" /\ Unwritten)
    <3>1. Line(Given) \in Seq(Char)
      BY <2>2, LineType DEF BInv, Callback
    <3> QED
      BY <2>2, <3>1 DEF Callback, BInv, TypeOK
  <2> QED
    BY <2>1, <2>2
<1>2. TypeOK'
  BY <1>1 DEF BInv, TypeOK, Callback, state
<1>3. LineInv'
  BY DEF BInv, LineInv, InLine, FullLine, Callback, state
<1> QED
  BY <1>2, <1>3 DEF BInv

LEMMA BInvCallbackFails == ASSUME BInv, CallbackFails PROVE BInv'
<1>1. TypeOK'
  BY DEF BInv, TypeOK, CallbackFails, state
<1>2. LineInv'
  BY DEF BInv, LineInv, InLine, FullLine, CallbackFails, state
<1> QED
  BY <1>1, <1>2 DEF BInv

LEMMA BInvStutters == ASSUME BInv, UNCHANGED vars PROVE BInv'
<1>1. TypeOK'
  BY DEF BInv, TypeOK, vars, state
<1>2. LineInv'
  BY DEF BInv, LineInv, InLine, FullLine, vars, state
<1> QED
  BY <1>1, <1>2 DEF BInv

(* What is written stays in the line: with whole groups per line, the place
   the group is at and the place the line is at agree, so neither a byte nor
   the padding crosses the end. *)
LEMMA BInvKeepsInBounds == BInv => InBounds
<1> SUFFICES ASSUME BInv PROVE InBounds
  OBVIOUS
<1>1. cap \in 1 .. 255 /\ bremLen \in 0 .. 2 /\ pos \in 0 .. 255
  BY CapsAssumption DEF BInv, TypeOK
<1>2. ASSUME pc \in {"byte", "final"}
      PROVE  /\ destLen \in 5 .. 255 /\ destLen <= cap /\ destLen % 4 = 1
             /\ pos < destLen - 1 /\ pos % 4 = bremLen
  BY <1>1, <1>2 DEF BInv, TypeOK, LineInv, InLine
<1>3. ASSUME pc = "byte"
      PROVE  pos + (IF bremLen = 2 THEN 2 ELSE 1) < destLen /\ destLen <= cap
  <2>1. destLen \in Nat /\ destLen % 4 = 1 /\ pos < destLen - 1 /\ pos % 4 = bremLen /\ destLen <= cap
    BY <1>2, <1>3
  <2>2. CASE bremLen = 2
    <3>1. destLen - pos # 2
      BY <1>1, <2>1, <2>2
    <3> QED
      BY <1>1, <2>1, <2>2, <3>1
  <2>3. CASE bremLen # 2
    BY <1>1, <2>1, <2>3
  <2> QED
    BY <2>2, <2>3
<1>4. ASSUME pc = "final"
      PROVE  pos + Len(Tails[bremLen + 1]) <= destLen
  BY <1>1, <1>2, <1>4, TailsType, TailStep DEF BInv
<1> QED
  BY <1>3, <1>4 DEF InBounds

(* BInv is an invariant of the encoder for every buffer size, every stream
   and every way to cut it. *)
THEOREM BInvAlways == Spec => []BInv
<1>1. Init => BInv
  BY BInvInit
<1>2. BInv /\ [Next]_vars => BInv'
  BY BInvFeed, BInvEnd, BInvRefuse, BInvEncode, BInvEncodeByte, BInvEncoded, BInvEncodeFinal,
     BInvCallback, BInvCallbackFails, BInvStutters DEF Next
<1> QED
  BY <1>1, <1>2, PTL DEF Spec

(* base64_encode never writes outside the line it was given, and the state it
   keeps between calls fits its fields. *)
THEOREM EncoderStaysInBounds == Spec => [](TypeOK /\ InBounds)
<1>1. BInv => TypeOK /\ InBounds
  BY BInvKeepsInBounds DEF BInv
<1> QED
  BY <1>1, BInvAlways, PTL

-----------------------------------------------------------------------------
(* What the callbacks get *)

(* The characters that n bytes complete, and the bits that are left of them. *)
NumChars(n) == 4 * (n \div 3) + (n % 3)
Rest(s, n) == IF n % 3 = 0 THEN 0 ELSE IF n % 3 = 1 THEN s[n] % 4 ELSE s[n] % 16

Octet == 0 .. 255

(* Byte w of s, counted from 0, with zeros behind the last. *)
ByteAt(s, w) == IF w < Len(s) THEN s[w + 1] ELSE 0

LEMMA ByteAtType ==
    ASSUME NEW s \in Seq(Octet), NEW w \in Nat
    PROVE  ByteAt(s, w) \in 0 .. 255
<1>1. CASE w < Len(s)
  <2>1. s[w + 1] \in Octet
    BY <1>1
  <2> QED
    BY <1>1, <2>1 DEF ByteAt, Octet
<1>2. CASE ~(w < Len(s))
  BY <1>2 DEF ByteAt
<1> QED
  BY <1>1, <1>2

LEMMA BitIs ==
    ASSUME NEW s \in Seq(Octet), NEW w \in Nat, NEW k \in 0 .. 7, NEW j \in Nat, j = 8 * w + k
    PROVE  Bit(s, j) = (ByteAt(s, w) \div Pow2[8 - k]) % 2
<1>1. j \div 8 = w /\ j % 8 = k
  OBVIOUS
<1>2. Pow2[8 - k] \in {1, 2, 4, 8, 16, 32, 64, 128}
  BY DEF Pow2
<1>3. (0 \div Pow2[8 - k]) % 2 = 0
  BY <1>2
<1> QED
  BY <1>1, <1>3 DEF Bit, ByteAt

(* The eight bits of a byte, and the parts of it that go into a character. *)
LEMMA BitsOf ==
    ASSUME NEW x \in 0 .. 255
    PROVE  /\ x \div 4 = 32 * ((x \div 128) % 2) + 16 * ((x \div 64) % 2) + 8 * ((x \div 32) % 2)
                         + 4 * ((x \div 16) % 2) + 2 * ((x \div 8) % 2) + ((x \div 4) % 2)
           /\ (x % 4) = 2 * ((x \div 2) % 2) + ((x \div 1) % 2)
           /\ x \div 16 = 8 * ((x \div 128) % 2) + 4 * ((x \div 64) % 2) + 2 * ((x \div 32) % 2)
                          + ((x \div 16) % 2)
           /\ (x % 16) = 8 * ((x \div 8) % 2) + 4 * ((x \div 4) % 2) + 2 * ((x \div 2) % 2) + ((x \div 1) % 2)
           /\ x \div 64 = 2 * ((x \div 128) % 2) + ((x \div 64) % 2)
           /\ (x % 64) = 32 * ((x \div 32) % 2) + 16 * ((x \div 16) % 2) + 8 * ((x \div 8) % 2)
                       + 4 * ((x \div 4) % 2) + 2 * ((x \div 2) % 2) + ((x \div 1) % 2)
OBVIOUS

BitsRight(s, w) ==
    LET x == ByteAt(s, w)
    IN  /\ Bit(s, 8 * w) = (x \div 128) % 2 /\ Bit(s, 8 * w + 1) = (x \div 64) % 2
        /\ Bit(s, 8 * w + 2) = (x \div 32) % 2 /\ Bit(s, 8 * w + 3) = (x \div 16) % 2
        /\ Bit(s, 8 * w + 4) = (x \div 8) % 2 /\ Bit(s, 8 * w + 5) = (x \div 4) % 2
        /\ Bit(s, 8 * w + 6) = (x \div 2) % 2 /\ Bit(s, 8 * w + 7) = (x \div 1) % 2

LEMMA BitsAt == ASSUME NEW s \in Seq(Octet), NEW w \in Nat PROVE BitsRight(s, w)
<1>0. /\ Pow2[8 - 0] = 128 /\ Pow2[8 - 1] = 64 /\ Pow2[8 - 2] = 32 /\ Pow2[8 - 3] = 16
      /\ Pow2[8 - 4] = 8 /\ Pow2[8 - 5] = 4 /\ Pow2[8 - 6] = 2 /\ Pow2[8 - 7] = 1
  BY DEF Pow2
<1>1. Bit(s, 8 * w) = (ByteAt(s, w) \div Pow2[8 - 0]) % 2
  BY BitIs
<1>2. Bit(s, 8 * w + 1) = (ByteAt(s, w) \div Pow2[8 - 1]) % 2
  BY BitIs
<1>3. Bit(s, 8 * w + 2) = (ByteAt(s, w) \div Pow2[8 - 2]) % 2
  BY BitIs
<1>4. Bit(s, 8 * w + 3) = (ByteAt(s, w) \div Pow2[8 - 3]) % 2
  BY BitIs
<1>5. Bit(s, 8 * w + 4) = (ByteAt(s, w) \div Pow2[8 - 4]) % 2
  BY BitIs
<1>6. Bit(s, 8 * w + 5) = (ByteAt(s, w) \div Pow2[8 - 5]) % 2
  BY BitIs
<1>7. Bit(s, 8 * w + 6) = (ByteAt(s, w) \div Pow2[8 - 6]) % 2
  BY BitIs
<1>8. Bit(s, 8 * w + 7) = (ByteAt(s, w) \div Pow2[8 - 7]) % 2
  BY BitIs
<1> QED
  BY <1>0, <1>1, <1>2, <1>3, <1>4, <1>5, <1>6, <1>7, <1>8 DEF BitsRight

(* The four characters of a group are made from its three bytes. *)
GroupRight(s, a) ==
    LET x == ByteAt(s, 3 * a)
        y == ByteAt(s, 3 * a + 1)
        z == ByteAt(s, 3 * a + 2)
    IN  /\ Sextet(s, 4 * a) = x \div 4
        /\ Sextet(s, 4 * a + 1) = (x % 4) * 16 + y \div 16
        /\ Sextet(s, 4 * a + 2) = (y % 16) * 4 + z \div 64
        /\ Sextet(s, 4 * a + 3) = z % 64

LEMMA SextetFacts == ASSUME NEW s \in Seq(Octet), NEW a \in Nat PROVE GroupRight(s, a)
<1> DEFINE x == ByteAt(s, 3 * a)
           y == ByteAt(s, 3 * a + 1)
           z == ByteAt(s, 3 * a + 2)
<1>0. x \in 0 .. 255 /\ y \in 0 .. 255 /\ z \in 0 .. 255
  BY ByteAtType
<1>1. /\ Bit(s, 24 * a) = ((x \div 128) % 2) /\ Bit(s, 24 * a + 1) = ((x \div 64) % 2)
      /\ Bit(s, 24 * a + 2) = ((x \div 32) % 2) /\ Bit(s, 24 * a + 3) = ((x \div 16) % 2)
      /\ Bit(s, 24 * a + 4) = ((x \div 8) % 2) /\ Bit(s, 24 * a + 5) = ((x \div 4) % 2)
      /\ Bit(s, 24 * a + 6) = ((x \div 2) % 2) /\ Bit(s, 24 * a + 7) = ((x \div 1) % 2)
  <2>1. 3 * a \in Nat /\ 8 * (3 * a) = 24 * a
    OBVIOUS
  <2>2. BitsRight(s, 3 * a)
    BY <2>1, BitsAt
  <2> QED
    BY <2>1, <2>2 DEF BitsRight
<1>2. /\ Bit(s, 24 * a + 8) = ((y \div 128) % 2) /\ Bit(s, 24 * a + 9) = ((y \div 64) % 2)
      /\ Bit(s, 24 * a + 10) = ((y \div 32) % 2) /\ Bit(s, 24 * a + 11) = ((y \div 16) % 2)
      /\ Bit(s, 24 * a + 12) = ((y \div 8) % 2) /\ Bit(s, 24 * a + 13) = ((y \div 4) % 2)
      /\ Bit(s, 24 * a + 14) = ((y \div 2) % 2) /\ Bit(s, 24 * a + 15) = ((y \div 1) % 2)
  <2> DEFINE w == 3 * a + 1
  <2>1. /\ w \in Nat /\ 8 * w = 24 * a + 8 /\ 8 * w + 1 = 24 * a + 9 /\ 8 * w + 2 = 24 * a + 10
        /\ 8 * w + 3 = 24 * a + 11 /\ 8 * w + 4 = 24 * a + 12 /\ 8 * w + 5 = 24 * a + 13
        /\ 8 * w + 6 = 24 * a + 14 /\ 8 * w + 7 = 24 * a + 15
    OBVIOUS
  <2>2. y = ByteAt(s, w)
    OBVIOUS
  <2> HIDE DEF w, x, y, z
  <2>3. BitsRight(s, w)
    BY <2>1, BitsAt
  <2> QED
    BY <2>1, <2>2, <2>3, SMTT(20) DEF BitsRight
<1>3. /\ Bit(s, 24 * a + 16) = ((z \div 128) % 2) /\ Bit(s, 24 * a + 17) = ((z \div 64) % 2)
      /\ Bit(s, 24 * a + 18) = ((z \div 32) % 2) /\ Bit(s, 24 * a + 19) = ((z \div 16) % 2)
      /\ Bit(s, 24 * a + 20) = ((z \div 8) % 2) /\ Bit(s, 24 * a + 21) = ((z \div 4) % 2)
      /\ Bit(s, 24 * a + 22) = ((z \div 2) % 2) /\ Bit(s, 24 * a + 23) = ((z \div 1) % 2)
  <2> DEFINE w == 3 * a + 2
  <2>1. /\ w \in Nat /\ 8 * w = 24 * a + 16 /\ 8 * w + 1 = 24 * a + 17 /\ 8 * w + 2 = 24 * a + 18
        /\ 8 * w + 3 = 24 * a + 19 /\ 8 * w + 4 = 24 * a + 20 /\ 8 * w + 5 = 24 * a + 21
        /\ 8 * w + 6 = 24 * a + 22 /\ 8 * w + 7 = 24 * a + 23
    OBVIOUS
  <2>2. z = ByteAt(s, w)
    OBVIOUS
  <2> HIDE DEF w, x, y, z
  <2>3. BitsRight(s, w)
    BY <2>1, BitsAt
  <2> QED
    BY <2>1, <2>2, <2>3, SMTT(20) DEF BitsRight
<1> HIDE DEF x, y, z
<1>4. Sextet(s, 4 * a) = x \div 4
  <2>1. /\ 6 * (4 * a) = 24 * a /\ 6 * (4 * a) + 1 = 24 * a + 1 /\ 6 * (4 * a) + 2 = 24 * a + 2
        /\ 6 * (4 * a) + 3 = 24 * a + 3 /\ 6 * (4 * a) + 4 = 24 * a + 4 /\ 6 * (4 * a) + 5 = 24 * a + 5
    OBVIOUS
  <2>2. Sextet(s, 4 * a) = 32 * ((x \div 128) % 2) + 16 * ((x \div 64) % 2) + 8 * ((x \div 32) % 2)
                         + 4 * ((x \div 16) % 2) + 2 * ((x \div 8) % 2) + ((x \div 4) % 2)
    BY <1>1, <2>1 DEF Sextet
  <2> QED
    BY <1>0, <2>2, BitsOf
<1>5. Sextet(s, 4 * a + 1) = (x % 4) * 16 + y \div 16
  <2> DEFINE i == 4 * a + 1
  <2>1. /\ 6 * i = 24 * a + 6 /\ 6 * i + 1 = 24 * a + 7 /\ 6 * i + 2 = 24 * a + 8
        /\ 6 * i + 3 = 24 * a + 9 /\ 6 * i + 4 = 24 * a + 10 /\ 6 * i + 5 = 24 * a + 11
    OBVIOUS
  <2> HIDE DEF i
  <2>2. Sextet(s, i) = 32 * ((x \div 2) % 2) + 16 * ((x \div 1) % 2) + 8 * ((y \div 128) % 2)
                         + 4 * ((y \div 64) % 2) + 2 * ((y \div 32) % 2) + ((y \div 16) % 2)
    BY <1>1, <1>2, <2>1 DEF Sextet
  <2>3. /\ (x % 4) = 2 * ((x \div 2) % 2) + ((x \div 1) % 2)
        /\ y \div 16 = 8 * ((y \div 128) % 2) + 4 * ((y \div 64) % 2) + 2 * ((y \div 32) % 2)
                       + ((y \div 16) % 2)
    BY <1>0, BitsOf
  <2>4. (x % 4) * 16 = 32 * ((x \div 2) % 2) + 16 * ((x \div 1) % 2)
    BY <1>0, <2>3
  <2>5. Sextet(s, i) = (x % 4) * 16 + y \div 16
    BY <1>0, <2>2, <2>3, <2>4
  <2> QED
    BY <2>5 DEF i
<1>6. Sextet(s, 4 * a + 2) = (y % 16) * 4 + z \div 64
  <2> DEFINE i == 4 * a + 2
  <2>1. /\ 6 * i = 24 * a + 12 /\ 6 * i + 1 = 24 * a + 13 /\ 6 * i + 2 = 24 * a + 14
        /\ 6 * i + 3 = 24 * a + 15 /\ 6 * i + 4 = 24 * a + 16 /\ 6 * i + 5 = 24 * a + 17
    OBVIOUS
  <2> HIDE DEF i
  <2>2. Sextet(s, i) = 32 * ((y \div 8) % 2) + 16 * ((y \div 4) % 2) + 8 * ((y \div 2) % 2)
                         + 4 * ((y \div 1) % 2) + 2 * ((z \div 128) % 2) + ((z \div 64) % 2)
    BY <1>2, <1>3, <2>1 DEF Sextet
  <2>3. /\ (y % 16) = 8 * ((y \div 8) % 2) + 4 * ((y \div 4) % 2) + 2 * ((y \div 2) % 2) + ((y \div 1) % 2)
        /\ z \div 64 = 2 * ((z \div 128) % 2) + ((z \div 64) % 2)
    BY <1>0, BitsOf
  <2>4. (y % 16) * 4 = 32 * ((y \div 8) % 2) + 16 * ((y \div 4) % 2) + 8 * ((y \div 2) % 2) + 4 * ((y \div 1) % 2)
    BY <1>0, <2>3
  <2>5. Sextet(s, i) = (y % 16) * 4 + z \div 64
    BY <1>0, <2>2, <2>3, <2>4
  <2> QED
    BY <2>5 DEF i
<1>7. Sextet(s, 4 * a + 3) = z % 64
  <2> DEFINE i == 4 * a + 3
  <2>1. /\ 6 * i = 24 * a + 18 /\ 6 * i + 1 = 24 * a + 19 /\ 6 * i + 2 = 24 * a + 20
        /\ 6 * i + 3 = 24 * a + 21 /\ 6 * i + 4 = 24 * a + 22 /\ 6 * i + 5 = 24 * a + 23
    OBVIOUS
  <2> HIDE DEF i
  <2>2. Sextet(s, i) = 32 * ((z \div 32) % 2) + 16 * ((z \div 16) % 2) + 8 * ((z \div 8) % 2)
                         + 4 * ((z \div 4) % 2) + 2 * ((z \div 2) % 2) + ((z \div 1) % 2)
    BY <1>3, <2>1 DEF Sextet
  <2>3. Sextet(s, i) = z % 64
    BY <1>0, <2>2, BitsOf
  <2> QED
    BY <2>3 DEF i
<1> QED
  BY <1>4, <1>5, <1>6, <1>7 DEF x, y, z, GroupRight

(* Every number is three and four times something and a rest. *)
LEMMA ByThree == ASSUME NEW n \in Nat
    PROVE \E a \in Nat : \E k \in 0 .. 2 :
            n = 3 * a + k /\ n \div 3 = a /\ n % 3 = k /\ NumChars(n) = 4 * a + k
<1>1. n \div 3 \in Nat /\ n % 3 \in 0 .. 2 /\ n = 3 * (n \div 3) + (n % 3)
  OBVIOUS
<1> QED
  BY <1>1 DEF NumChars

LEMMA ByFour == ASSUME NEW i \in Nat PROVE \E a \in Nat : \E r \in 0 .. 3 : i = 4 * a + r
<1>1. i \div 4 \in Nat /\ i % 4 \in 0 .. 3 /\ i = 4 * (i \div 4) + (i % 4)
  OBVIOUS
<1> QED
  BY <1>1

LEMMA SextetType ==
    ASSUME NEW s \in Seq(Octet), NEW i \in Nat
    PROVE  Sextet(s, i) \in 0 .. 63
<1>1. PICK a \in Nat, r \in 0 .. 3 : i = 4 * a + r
  BY ByFour
<1> DEFINE x == ByteAt(s, 3 * a)
           y == ByteAt(s, 3 * a + 1)
           z == ByteAt(s, 3 * a + 2)
<1>2. x \in 0 .. 255 /\ y \in 0 .. 255 /\ z \in 0 .. 255
  <2>1. 3 * a \in Nat /\ 3 * a + 1 \in Nat /\ 3 * a + 2 \in Nat
    OBVIOUS
  <2> QED
    BY <2>1, ByteAtType
<1>3. /\ Sextet(s, 4 * a) = x \div 4 /\ Sextet(s, 4 * a + 1) = (x % 4) * 16 + y \div 16
      /\ Sextet(s, 4 * a + 2) = (y % 16) * 4 + z \div 64 /\ Sextet(s, 4 * a + 3) = z % 64
  BY SextetFacts DEF GroupRight
<1> HIDE DEF x, y, z
<1>4. /\ x \div 4 \in 0 .. 63 /\ (x % 4) * 16 + y \div 16 \in 0 .. 63
      /\ (y % 16) * 4 + z \div 64 \in 0 .. 63 /\ z % 64 \in 0 .. 63
  BY <1>2
<1>5. i = 4 * a \/ i = 4 * a + 1 \/ i = 4 * a + 2 \/ i = 4 * a + 3
  BY <1>1
<1> QED
  BY <1>3, <1>4, <1>5

(* The characters that are complete do not depend on what follows. *)
LEMMA SextetKept ==
    ASSUME NEW s \in Seq(Octet), NEW t \in Seq(Octet), NEW i \in Nat,
           i < NumChars(Len(s)), Len(s) <= Len(t), \A j \in 1 .. Len(s) : t[j] = s[j]
    PROVE  Sextet(t, i) = Sextet(s, i)
<1>1. PICK a \in Nat, r \in 0 .. 3 : i = 4 * a + r
  BY ByFour
<1>n. Len(s) \in Nat
  OBVIOUS
<1>2. PICK m \in Nat, k \in 0 .. 2 : Len(s) = 3 * m + k /\ NumChars(Len(s)) = 4 * m + k
  BY <1>n, ByThree
<1>3. \A w \in Nat : w < Len(s) => ByteAt(t, w) = ByteAt(s, w)
  BY DEF ByteAt
<1>4. 3 * a < Len(s) /\ (r >= 1 => 3 * a + 1 < Len(s)) /\ (r >= 2 => 3 * a + 2 < Len(s))
  <2> DEFINE n == Len(s)
  <2>1. n \in Nat /\ n = 3 * m + k /\ 4 * a + r < 4 * m + k
    BY <1>1, <1>2
  <2> HIDE DEF n
  <2>2. 3 * a < n /\ (r >= 1 => 3 * a + 1 < n) /\ (r >= 2 => 3 * a + 2 < n)
    BY <2>1
  <2> QED
    BY <2>2 DEF n
<1>5. 3 * a \in Nat /\ 3 * a + 1 \in Nat /\ 3 * a + 2 \in Nat
  OBVIOUS
<1>6. CASE r = 0
  BY <1>1, <1>3, <1>4, <1>5, <1>6, SextetFacts DEF GroupRight
<1>7. CASE r = 1
  BY <1>1, <1>3, <1>4, <1>5, <1>7, SextetFacts DEF GroupRight
<1>8. CASE r = 2
  BY <1>1, <1>3, <1>4, <1>5, <1>8, SextetFacts DEF GroupRight
<1>9. CASE r = 3
  BY <1>1, <1>3, <1>4, <1>5, <1>9, SextetFacts DEF GroupRight
<1> QED
  BY <1>6, <1>7, <1>8, <1>9

(* With the bits that are left over, a byte gives the next characters. *)
LEMMA ByteStep ==
    ASSUME NEW s \in Seq(Octet), NEW n \in Nat, n < Len(s),
           bremLen = n % 3, brem = Rest(s, n), NEW b, b = s[n + 1]
    PROVE  /\ NumChars(n + 1) = NumChars(n) + Len(Chars(b))
           /\ \A j \in 1 .. Len(Chars(b)) : Chars(b)[j] = Sextet(s, NumChars(n) + j - 1)
           /\ Left(b) = Rest(s, n + 1)
           /\ bremLen \in 0 .. 2
<1>1. PICK a \in Nat, k \in 0 .. 2 : n = 3 * a + k /\ n % 3 = k /\ NumChars(n) = 4 * a + k
  BY ByThree
<1>2. b \in 0 .. 255 /\ ByteAt(s, n) = b
  <2>1. ByteAt(s, n) = b
    BY DEF ByteAt
  <2> QED
    BY <2>1, ByteAtType
<1>3. bremLen = k
  BY <1>1
<1>4. CASE k = 0
  <2>1. NumChars(n + 1) = 4 * a + 1 /\ (n + 1) % 3 = 1 /\ n = 3 * a /\ NumChars(n) = 4 * a
    BY <1>1, <1>4 DEF NumChars
  <2>2. Chars(b) = <<b \div 4>> /\ Left(b) = b % 4
    BY <1>3, <1>4 DEF Chars, Left
  <2>3. Sextet(s, 4 * a) = b \div 4
    BY <1>2, <2>1, SextetFacts DEF GroupRight
  <2>4. Rest(s, n + 1) = b % 4
    BY <2>1 DEF Rest
  <2>5. Len(Chars(b)) = 1 /\ Chars(b)[1] = Sextet(s, NumChars(n) + 1 - 1)
    BY <2>1, <2>2, <2>3
  <2>6. \A j \in 1 .. 1 : Chars(b)[j] = Sextet(s, NumChars(n) + j - 1)
    BY <2>5
  <2>7. NumChars(n + 1) = NumChars(n) + 1
    BY <2>1
  <2> QED
    BY <1>3, <2>2, <2>4, <2>5, <2>6, <2>7
<1>5. CASE k = 1
  <2>1. NumChars(n + 1) = 4 * a + 2 /\ (n + 1) % 3 = 2 /\ n = 3 * a + 1 /\ NumChars(n) = 4 * a + 1
    BY <1>1, <1>5 DEF NumChars
  <2>2. Chars(b) = <<brem * 16 + b \div 16>> /\ Left(b) = b % 16
    BY <1>3, <1>5 DEF Chars, Left
  <2>3. brem = ByteAt(s, 3 * a) % 4
    BY <1>1, <1>5, <2>1 DEF Rest, ByteAt
  <2>4. Sextet(s, 4 * a + 1) = brem * 16 + b \div 16
    BY <1>2, <2>1, <2>3, SextetFacts DEF GroupRight
  <2>5. Rest(s, n + 1) = b % 16
    BY <2>1 DEF Rest
  <2>6. Len(Chars(b)) = 1 /\ Chars(b)[1] = Sextet(s, NumChars(n) + 1 - 1)
    BY <2>1, <2>2, <2>4
  <2>7. \A j \in 1 .. 1 : Chars(b)[j] = Sextet(s, NumChars(n) + j - 1)
    BY <2>6
  <2>8. NumChars(n + 1) = NumChars(n) + 1
    BY <2>1
  <2> QED
    BY <1>3, <2>2, <2>5, <2>6, <2>7, <2>8
<1>6. CASE k = 2
  <2>1. NumChars(n + 1) = 4 * a + 4 /\ (n + 1) % 3 = 0 /\ n = 3 * a + 2 /\ NumChars(n) = 4 * a + 2
    BY <1>1, <1>6 DEF NumChars
  <2>2. Chars(b) = <<brem * 4 + b \div 64, b % 64>> /\ Left(b) = 0
    BY <1>3, <1>6 DEF Chars, Left
  <2>3. brem = ByteAt(s, 3 * a + 1) % 16
    BY <1>1, <1>6, <2>1 DEF Rest, ByteAt
  <2>4. Sextet(s, 4 * a + 2) = brem * 4 + b \div 64 /\ Sextet(s, 4 * a + 3) = b % 64
    BY <1>2, <2>1, <2>3, SextetFacts DEF GroupRight
  <2>5. Rest(s, n + 1) = 0
    BY <2>1 DEF Rest
  <2>6. /\ Len(Chars(b)) = 2 /\ Chars(b)[1] = Sextet(s, NumChars(n) + 1 - 1)
        /\ Chars(b)[2] = Sextet(s, NumChars(n) + 2 - 1)
    BY <2>1, <2>2, <2>4
  <2>7. \A j \in 1 .. 2 : Chars(b)[j] = Sextet(s, NumChars(n) + j - 1)
    BY <2>6
  <2>8. NumChars(n + 1) = NumChars(n) + 2
    BY <2>1
  <2> QED
    BY <1>3, <2>2, <2>5, <2>6, <2>7, <2>8
<1> QED
  BY <1>4, <1>5, <1>6

(* The reference begins with the characters that are complete. *)
LEMMA ReferenceFacts ==
    ASSUME NEW s \in Seq(Octet)
    PROVE  /\ Reference(s) \in Seq(Char) /\ \A i \in 1 .. Len(Reference(s)) : Reference(s)[i] # Nul
           /\ Len(Reference(s)) = 4 * ((Len(s) + 2) \div 3)
           /\ NumChars(Len(s)) <= Len(Reference(s))
           /\ \A i \in Nat : i < NumChars(Len(s)) => Reference(s)[i + 1] = Sextet(s, i)
<1> DEFINE n == Len(s)
           L == 4 * ((n + 2) \div 3)
<1>1. n \in Nat /\ L \in Nat
  OBVIOUS
<1>2. PICK a \in Nat, k \in 0 .. 2 : n = 3 * a + k /\ NumChars(n) = 4 * a + k
  BY <1>1, ByThree
<1> HIDE DEF n
<1>3. L \in Nat /\ NumChars(n) <= L /\ \A i \in Nat : i < NumChars(n) => 6 * i < 8 * n
  BY <1>2
<1>4. Reference(s) = [i \in 1 .. L |-> IF 6 * (i - 1) < 8 * n THEN Sextet(s, i - 1) ELSE Pad]
  BY DEF Reference, n
<1> HIDE DEF L
<1>5. ASSUME NEW i \in 1 .. L PROVE Sextet(s, i - 1) \in 0 .. 64
  <2>1. i - 1 \in Nat
    BY <1>3
  <2>2. Sextet(s, i - 1) \in 0 .. 63
    BY <2>1, SextetType
  <2> QED
    BY <2>2
<1>6. \A i \in 1 .. L : (IF 6 * (i - 1) < 8 * n THEN Sextet(s, i - 1) ELSE Pad) \in 0 .. 64
  BY <1>5 DEF Pad
<1>7. Reference(s) \in Seq(Char) /\ Len(Reference(s)) = L /\ \A i \in 1 .. L : Reference(s)[i] # Nul
  <2>1. \A x \in 0 .. 64 : x \in Char /\ x # Nul
    BY DEF Char, Nul
  <2>2. \A i \in 1 .. L : Reference(s)[i] \in 0 .. 64
    BY <1>4, <1>6
  <2>3. \A i \in 1 .. L : Reference(s)[i] \in Char /\ Reference(s)[i] # Nul
    BY <2>1, <2>2
  <2>4. Reference(s) \in [1 .. L -> Char]
    BY <1>4, <2>3
  <2> QED
    BY <1>3, <2>3, <2>4
<1>8. ASSUME NEW i \in Nat, i < NumChars(n) PROVE Reference(s)[i + 1] = Sextet(s, i)
  <2>1. i + 1 \in 1 .. L /\ 6 * i < 8 * n /\ i + 1 - 1 = i
    BY <1>2, <1>3, <1>8
  <2> QED
    BY <1>4, <2>1
<1> QED
  BY <1>3, <1>7, <1>8 DEF n, L

(* The end of the last group is what base64_encode writes for n = 0. *)
LEMMA TailIsReference ==
    ASSUME NEW s \in Seq(Octet), bremLen = Len(s) % 3, brem = Rest(s, Len(s)),
           NEW t, t = Tails[bremLen + 1]
    PROVE  /\ Len(Reference(s)) = NumChars(Len(s)) + Len(t) - 1
           /\ t[Len(t)] = Nul
           /\ \A j \in 1 .. Len(t) - 1 : t[j] = Reference(s)[NumChars(Len(s)) + j]
<1> DEFINE n == Len(s)
<1>0. n \in Nat
  OBVIOUS
<1>1. PICK a \in Nat, k \in 0 .. 2 : n = 3 * a + k /\ n % 3 = k /\ NumChars(n) = 4 * a + k
  <2> HIDE DEF n
  <2> QED
    BY <1>0, ByThree
<1>2. bremLen = k /\ n \in Nat
  BY <1>1
<1>3. \A i \in 1 .. 4 * ((n + 2) \div 3) :
         Reference(s)[i] = IF 6 * (i - 1) < 8 * n THEN Sextet(s, i - 1) ELSE Pad
  BY DEF Reference
<1>4. Len(Reference(s)) = 4 * ((n + 2) \div 3)
  BY ReferenceFacts
<1>5. \A w \in Nat : w >= n => ByteAt(s, w) = 0
  BY DEF ByteAt
<1>6. brem = Rest(s, n)
  OBVIOUS
<1>r. n > 0 => ByteAt(s, n - 1) = s[n]
  BY <1>2 DEF ByteAt
<1>7. CASE k = 0
  <2>1. t = <<Nul>>
    BY <1>2, <1>7 DEF Tails
  <2> HIDE DEF n
  <2>2. 4 * ((n + 2) \div 3) = NumChars(n)
    BY <1>1, <1>7
  <2>3. Len(t) = 1 /\ t[1] = Nul
    BY <2>1
  <2>4. Len(Reference(s)) = NumChars(n) + 1 - 1
    BY <1>1, <1>4, <2>2
  <2> QED
    BY <2>3, <2>4 DEF n
<1>8. CASE k = 1
  <2>1. t = <<brem * 16, Pad, Pad, Nul>>
    BY <1>2, <1>8 DEF Tails
  <2> HIDE DEF n
  <2>2. 4 * ((n + 2) \div 3) = 4 * a + 4 /\ n = 3 * a + 1
    BY <1>1, <1>8
  <2>3. brem = ByteAt(s, 3 * a) % 4
    BY <1>1, <1>6, <1>8, <1>r, <2>2 DEF Rest
  <2>4. Sextet(s, 4 * a + 1) = brem * 16
    <3>1. ByteAt(s, 3 * a + 1) = 0 /\ 0 \div 16 = 0
      BY <1>5, <2>2
    <3>2. ByteAt(s, 3 * a) \in 0 .. 255
      BY ByteAtType, 3 * a \in Nat
    <3>3. brem * 16 + 0 = brem * 16
      BY <2>3, <3>2
    <3> QED
      BY <2>3, <3>1, <3>3, SextetFacts DEF GroupRight
  <2>5. Reference(s)[4 * a + 2] = brem * 16
    BY <1>3, <2>2, <2>4
  <2>6. Reference(s)[4 * a + 3] = Pad /\ Reference(s)[4 * a + 4] = Pad
    BY <1>3, <2>2
  <2>7. NumChars(n) = 4 * a + 1
    BY <1>1, <1>8
  <2>8. Len(t) = 4 /\ t[1] = brem * 16 /\ t[2] = Pad /\ t[3] = Pad /\ t[4] = Nul
    BY <2>1
  <2>9. \A j \in 1 .. 3 : t[j] = Reference(s)[4 * a + 1 + j]
    BY <2>5, <2>6, <2>8
  <2>10. Len(Reference(s)) = NumChars(n) + 4 - 1
    BY <1>4, <2>2, <2>7
  <2>11. \A j \in 1 .. 4 - 1 : t[j] = Reference(s)[NumChars(n) + j]
    BY <2>7, <2>9
  <2> QED
    BY <2>8, <2>10, <2>11 DEF n
<1>9. CASE k = 2
  <2>1. t = <<brem * 4, Pad, Nul>>
    BY <1>2, <1>9 DEF Tails
  <2> HIDE DEF n
  <2>2. 4 * ((n + 2) \div 3) = 4 * a + 4 /\ n = 3 * a + 2
    BY <1>1, <1>9
  <2>3. brem = ByteAt(s, 3 * a + 1) % 16
    BY <1>1, <1>6, <1>9, <1>r, <2>2 DEF Rest
  <2>4. Sextet(s, 4 * a + 2) = brem * 4
    <3>1. ByteAt(s, 3 * a + 2) = 0 /\ 0 \div 64 = 0
      BY <1>5, <2>2
    <3>2. ByteAt(s, 3 * a + 1) \in 0 .. 255
      BY ByteAtType, 3 * a + 1 \in Nat
    <3>3. brem * 4 + 0 = brem * 4
      BY <2>3, <3>2
    <3> QED
      BY <2>3, <3>1, <3>3, SextetFacts DEF GroupRight
  <2>5. Reference(s)[4 * a + 3] = brem * 4
    BY <1>3, <2>2, <2>4
  <2>6. Reference(s)[4 * a + 4] = Pad
    BY <1>3, <2>2
  <2>7. NumChars(n) = 4 * a + 2
    BY <1>1, <1>9
  <2>8. Len(t) = 3 /\ t[1] = brem * 4 /\ t[2] = Pad /\ t[3] = Nul
    BY <2>1
  <2>9. \A j \in 1 .. 2 : t[j] = Reference(s)[4 * a + 2 + j]
    BY <2>5, <2>6, <2>8
  <2>10. Len(Reference(s)) = NumChars(n) + 3 - 1
    BY <1>4, <2>2, <2>7
  <2>11. \A j \in 1 .. 3 - 1 : t[j] = Reference(s)[NumChars(n) + j]
    BY <2>7, <2>9
  <2> QED
    BY <2>8, <2>10, <2>11 DEF n
<1> QED
  BY <1>7, <1>8, <1>9

(* A multiple of d leaves nothing, and what leaves nothing is a multiple. *)
LEMMA ModMultiple ==
    ASSUME NEW d \in Nat, d # 0, NEW n \in Nat, n % d = 0
    PROVE  \E m \in Nat : n = d * m
<1>1. n = d * (n \div d) + (n % d) /\ n \div d \in Nat
  OBVIOUS
<1> QED
  BY <1>1

LEMMA MultipleMod ==
    ASSUME NEW d \in Nat, d # 0, NEW m \in Nat, NEW n, n = d * m
    PROVE  n % d = 0
<1>0. n \in Nat
  OBVIOUS
<1>1. n = d * (n \div d) + (n % d) /\ n \div d \in Nat /\ n % d \in Nat /\ n % d < d
  BY <1>0
<1> DEFINE c == n \div d
           r == n % d
<1>2. c \in Nat /\ r \in Nat /\ r < d /\ d * m = d * c + r
  BY <1>1
<1> HIDE DEF c, r
<1>3. c <= m
  <2> SUFFICES ASSUME c >= m + 1 PROVE FALSE
    BY <1>2
  <2>1. d * c >= d * (m + 1)
    BY <1>2
  <2> QED
    BY <1>2, <2>1
<1>4. c >= m
  <2> SUFFICES ASSUME c + 1 <= m PROVE FALSE
    BY <1>2
  <2>1. d * m >= d * (c + 1)
    BY <1>2
  <2>2. d * (c + 1) = d * c + d
    BY <1>2
  <2> QED
    BY <1>2, <2>1, <2>2
<1>5. r = 0
  BY <1>2, <1>3, <1>4
<1> QED
  BY <1>5 DEF r

(* n bytes are q lines of v groups, and f characters of the next line. *)
LineAt(n, v, q, f) == NumChars(n) = (4 * v) * q + f

(* A line of v groups is full exactly after a multiple of 3 * v bytes. *)
LEMMA FullAtMultiple ==
    ASSUME NEW n \in Nat, NEW v \in Nat, v # 0, NEW q \in Nat, NEW f \in Nat, f # 0, f <= 4 * v,
           LineAt(n, v, q, f)
    PROVE  n # 0 /\ (n % (3 * v) = 0 <=> f = 4 * v)
<1> USE DEF LineAt
<1>1. PICK a \in Nat, k \in 0 .. 2 : n = 3 * a + k /\ n % 3 = k /\ NumChars(n) = 4 * a + k
  BY ByThree
<1>2. v * q \in Nat /\ (4 * v) * q = 4 * (v * q) /\ v * (q + 1) = v * q + v
  OBVIOUS
<1>d. 3 * v \in Nat /\ 3 * v # 0
  OBVIOUS
<1>3. n # 0
  BY <1>1, <1>2
<1>4. ASSUME f = 4 * v PROVE n % (3 * v) = 0
  <2>1. n = 3 * (v * q + v)
    <3> DEFINE x == v * q
    <3>1. x \in Nat /\ 4 * a + k = 4 * x + 4 * v
      BY <1>1, <1>2, <1>4
    <3> HIDE DEF x
    <3>2. 3 * a + k = 3 * (x + v)
      BY <3>1
    <3> QED
      BY <1>1, <3>2 DEF x
  <2>2. n = (3 * v) * (q + 1)
    BY <2>1
  <2> QED
    <3> DEFINE d == 3 * v
               m == q + 1
    <3>1. d \in Nat /\ d # 0 /\ m \in Nat /\ n = d * m
      BY <1>d, <2>2
    <3> HIDE DEF d, m
    <3>2. n % d = 0
      BY <3>1, MultipleMod
    <3> QED
      BY <3>2 DEF d
<1>5. ASSUME n % (3 * v) = 0 PROVE f = 4 * v
  <2>1. PICK m \in Nat : n = (3 * v) * m
    BY <1>5, <1>d, ModMultiple
  <2>2. n = 3 * (v * m) /\ v * m \in Nat
    BY <2>1
  <2>3. 4 * (v * m) = 4 * (v * q) + f
    <3> DEFINE x == v * q
               y == v * m
    <3>1. x \in Nat /\ y \in Nat /\ 3 * a + k = 3 * y /\ 4 * a + k = 4 * x + f
      BY <1>1, <1>2, <2>2
    <3> HIDE DEF x, y
    <3>2. 4 * y = 4 * x + f
      BY <3>1
    <3> QED
      BY <3>2 DEF x, y
  <2>4. m > q
    <3> SUFFICES ASSUME m <= q PROVE FALSE
      OBVIOUS
    <3>1. v * m <= v * q
      OBVIOUS
    <3> QED
      BY <1>2, <2>2, <2>3, <3>1
  <2>5. v * m >= v * (q + 1)
    BY <2>4
  <2> QED
    BY <1>2, <2>2, <2>3, <2>5
<1> QED
  BY <1>3, <1>4, <1>5

-----------------------------------------------------------------------------
(* The stream, from its first byte to its last line *)

(* The characters of a line, how many the buffer holds, the bytes that are
   encoded, and the lines that are overwritten. *)
Wide == destLen - 1
Fill ==
    IF pc \in {"byte", "encoded"} THEN pos
    ELSE IF pc = "final" /\ destPos = 0 /\ Len(fed) > 0 THEN Wide
    ELSE IF destPos = destLen THEN Wide ELSE destPos
Seen == Len(fed) - Len(src)
Lost == {n \in cuts : n # 0 /\ n % BytesPerLine = 0}

(* The line in the buffer has been given to the callback, or never will be. *)
Past == pc = "encode" /\ src # <<>> /\ Fill = Wide

(* The buffer holds line q, as far as it goes. *)
InBuffer(q) ==
    /\ NumChars(Seen) = Wide * q + Fill
    /\ Fill \in 0 .. Wide /\ (Fill = 0 => Seen = 0 \/ pc = "byte")
    /\ \A j \in 0 .. Fill - 1 : dest[j] = Sextet(fed, Wide * q + j)
    /\ Fill = Wide => dest[Wide] = Nul

(* The callback has had the first q lines, but for those that were lost. *)
Had(q) ==
    /\ Len(out) + Wide * Cardinality(Lost) = Wide * q
    /\ Lost = {} => \A j \in 1 .. Len(out) : out[j] = Sextet(fed, j - 1)

(* What is left of the chunk is the end of the stream, and the bits that are
   left over are those of the bytes before it. *)
Taken ==
    /\ Len(src) <= Len(fed) /\ \A j \in 1 .. Len(src) : src[j] = fed[Seen + j]
    /\ bremLen = Seen % 3 /\ brem = Rest(fed, Seen)
Between ==
    /\ pc \in {"idle", "final"} => src = <<>>
    /\ pc = "callback" => src # <<>> /\ destPos = destLen
    /\ pc = "encoded" /\ rem = 0 => pos = Wide
CutsBehind ==
    /\ \A n \in cuts : n <= Seen
    /\ pc \in {"idle", "final", "encoded", "callback"} \/ (pc = "encode" /\ src = <<>>) =>
          \A n \in cuts : n < Seen
Streaming ==
    /\ Taken /\ Between /\ CutsBehind
    /\ \E q \in Nat : InBuffer(q) /\ Had(IF Past THEN q + 1 ELSE q)

(* The last line, with its padding, is in the buffer. *)
LastLine(q, g) ==
    /\ Len(Reference(fed)) = Wide * q + g
    /\ \A j \in 0 .. g - 1 : dest[j] = Reference(fed)[Wide * q + j + 1]
    /\ dest[g] = Nul
    /\ destPos = g + 1 \/ (destPos = 0 /\ g = Wide)
    /\ Len(out) + Wide * Cardinality(Lost) = Wide * q
OutRight == Lost = {} => \A j \in 1 .. Len(out) : j <= Len(Reference(fed)) /\ out[j] = Reference(fed)[j]
Ending ==
    /\ init = 1
    /\ fed # <<>> =>
          /\ pc = "callback" => \E q \in Nat : \E g \in 1 .. Wide : LastLine(q, g)
          /\ pc \in {"idle", "encode"} => Len(out) + Wide * Cardinality(Lost) = Len(Reference(fed))
          /\ OutRight

(* Before the first call, and in a buffer that is too small, nothing happens. *)
Beginning ==
    /\ out = <<>>
    /\ cap >= 5 =>
          /\ src = fed
          /\ pc = "idle" => fed = <<>> /\ cuts = {}
          /\ pc = "encode" => cuts \subseteq {0} /\ (src = <<>> => cuts = {})

SInv ==
    /\ init = 0 => Beginning
    /\ init = 1 /\ final = 0 => Streaming
    /\ final = 1 => Ending

LEMMA PutIs ==
    ASSUME NEW n \in Nat, NEW d \in [0 .. n - 1 -> Char], NEW p \in Nat, NEW cs \in Seq(Char)
    PROVE  /\ \A j \in 0 .. n - 1 : (j < p \/ j >= p + Len(cs)) => Put(d, p, cs)[j] = d[j]
           /\ \A j \in 0 .. n - 1 : j >= p /\ j < p + Len(cs) => Put(d, p, cs)[j] = cs[j - p + 1]
<1>1. DOMAIN d = 0 .. n - 1 /\ Len(cs) \in Nat
  OBVIOUS
<1> QED
  BY <1>1 DEF Put

LEMMA Octets == ASSUME TypeOK PROVE fed \in Seq(Octet) /\ Len(fed) \in Nat /\ Len(src) \in Nat
<1>1. fed \in Seq(Bytes) /\ src \in Seq(Bytes) /\ Bytes \subseteq Octet
  BY BytesAssumption DEF TypeOK, Octet
<1> QED
  BY <1>1

(* A line is v groups, of three bytes and of four characters each. *)
LEMMA LineIs ==
    ASSUME BInv, init = 1
    PROVE  /\ destLen \in 5 .. 255 /\ destLen <= cap /\ cap \in 1 .. 255
           /\ Wide \in Nat /\ Wide >= 4 /\ Wide < destLen /\ destLen = Wide + 1
           /\ \E v \in Nat : v # 0 /\ Wide = 4 * v /\ BytesPerLine = 3 * v
<1>1. destLen \in 5 .. cap /\ destLen % 4 = 1 /\ cap \in 1 .. 255
  BY CapsAssumption DEF BInv, TypeOK, LineInv
<1>2. destLen \in 5 .. 255 /\ destLen <= cap
  BY <1>1
<1>3. destLen - 1 = 4 * ((destLen - 1) \div 4) /\ (destLen - 1) \div 4 \in Nat /\ (destLen - 1) \div 4 # 0
  BY <1>1, <1>2
<1> QED
  BY <1>1, <1>2, <1>3 DEF Wide, BytesPerLine

LEMMA LostFinite == ASSUME TypeOK PROVE IsFiniteSet(cuts) /\ IsFiniteSet(Lost) /\ Cardinality(Lost) \in Nat
<1>1. IsFiniteSet(0 .. MaxBytes)
  BY MaxAssumption, FS_Interval
<1>2. cuts \subseteq 0 .. MaxBytes /\ Lost \subseteq cuts
  BY DEF TypeOK, Lost
<1>3. IsFiniteSet(cuts) /\ IsFiniteSet(Lost)
  BY <1>1, <1>2, FS_Subset
<1> QED
  BY <1>3, FS_CardinalityType

(* The callback has had no more than has been encoded. *)
LEMMA HadNoMore ==
    ASSUME NEW W \in Nat, NEW q \in Nat, NEW f \in 0 .. W, NEW n \in Nat, NumChars(n) = W * q + f,
           NEW k \in Nat, n <= k
    PROVE  /\ W * q \in Nat /\ W * q <= NumChars(n) /\ NumChars(n) \in Nat /\ NumChars(n) <= NumChars(k)
           /\ W * (q + 1) = W * q + W
           /\ \A j \in 0 .. f - 1 : W * q + j \in Nat /\ W * q + j < NumChars(n)
<1>1. W * q \in Nat /\ W * (q + 1) = W * q + W
  OBVIOUS
<1>2. NumChars(n) \in Nat /\ NumChars(n) <= NumChars(k)
  BY DEF NumChars
<1> QED
  BY <1>1, <1>2

LEMMA SInvInit == Init => SInv
BY DEF Init, SInv, Beginning

LEMMA SInvStutters == ASSUME SInv, UNCHANGED vars PROVE SInv'
<1>1. /\ via' = via /\ cap' = cap /\ destLen' = destLen /\ destPos' = destPos /\ brem' = brem
      /\ bremLen' = bremLen /\ init' = init /\ final' = final /\ dest' = dest /\ src' = src
      /\ pos' = pos /\ rem' = rem /\ pc' = pc /\ fed' = fed /\ out' = out /\ cuts' = cuts
  BY DEF vars, state
<1>2. Fill' = Fill /\ Wide' = Wide /\ Seen' = Seen /\ Lost' = Lost /\ Past' = Past
  BY <1>1 DEF Fill, Wide, Seen, Lost, BytesPerLine, Past
<1>3. Beginning' <=> Beginning
  BY <1>1 DEF Beginning
<1>4. (Taken /\ Between /\ CutsBehind)' <=> (Taken /\ Between /\ CutsBehind)
  BY <1>1, <1>2 DEF Taken, Between, CutsBehind, Rest
<1>5. \A q : (InBuffer(q)' <=> InBuffer(q)) /\ (Had(q)' <=> Had(q))
  BY <1>1, <1>2 DEF InBuffer, Had
<1>6. Streaming => Streaming'
  BY <1>2, <1>4, <1>5 DEF Streaming
<1>7. Ending => Ending'
  <2>1. \A q, g : LastLine(q, g) => LastLine(q, g)'
    BY <1>1, <1>2 DEF LastLine
  <2>2. OutRight => OutRight'
    BY <1>1, <1>2 DEF OutRight
  <2> QED
    BY <1>1, <1>2, <2>1, <2>2 DEF Ending
<1> QED
  BY <1>1, <1>3, <1>6, <1>7 DEF SInv

LEMMA SInvRefuse == ASSUME BInv, SInv, Refuse PROVE SInv'
<1>1. init' = init /\ final' = final /\ out' = out /\ fed' = fed /\ cap' = cap
  BY DEF Refuse, state
<1>2. CASE final = 1
  <2>1. Ending'
    BY <1>2 DEF SInv, Ending, OutRight, Lost, BytesPerLine, Wide, Refuse, state
  <2> QED
    BY <1>1, <1>2, <2>1 DEF SInv, Ending
<1>3. CASE final # 1
  <2>1. init = 0 /\ cap < 5 /\ cap \in 1 .. 255
    BY <1>3, CapsAssumption DEF Refuse, BInv, LineInv, TypeOK
  <2> QED
    BY <1>1, <1>3, <2>1 DEF SInv, Beginning
<1> QED
  BY <1>2, <1>3

LEMMA SInvEnd == ASSUME BInv, SInv, End PROVE SInv'
<1>1. init' = init /\ final' = final /\ out' = out /\ fed' = fed /\ cap' = cap /\ cuts' = cuts
  BY DEF End, state
<1>2. CASE final = 1
  <2>1. Ending'
    BY <1>2 DEF SInv, Ending, OutRight, Lost, BytesPerLine, Wide, End, state
  <2> QED
    BY <1>1, <1>2, <2>1 DEF SInv, Ending
<1>3. CASE final = 0 /\ init = 1
  <2>1. Streaming
    BY <1>3 DEF SInv
  <2>2. src = <<>> /\ src' = src /\ pc = "idle" /\ pc' = "encode"
    BY <2>1 DEF End, Streaming, Between
  <2>3. Taken' /\ Between' /\ CutsBehind'
    BY <1>1, <2>1, <2>2 DEF Streaming, Taken, Between, CutsBehind, Seen, Rest, End, state
  <2>4. PICK q \in Nat : InBuffer(q) /\ Had(q)
    BY <2>1, <2>2 DEF Streaming, Past
  <2>5. Fill' = Fill /\ Wide' = Wide /\ Seen' = Seen /\ Lost' = Lost /\ dest' = dest
    BY <1>1, <2>2 DEF End, state, Fill, Wide, Seen, Lost, BytesPerLine
  <2>6. InBuffer(q)' /\ Had(q)' /\ ~Past'
    BY <1>1, <2>2, <2>4, <2>5 DEF InBuffer, Had, Past
  <2>7. Streaming'
    BY <2>3, <2>6 DEF Streaming
  <2> QED
    BY <1>1, <1>3, <2>7 DEF SInv
<1>4. CASE final = 0 /\ init = 0
  <2>1. Beginning'
    BY <1>1, <1>4 DEF SInv, Beginning, End
  <2> QED
    BY <1>1, <1>4, <2>1 DEF SInv
<1> QED
  BY <1>2, <1>3, <1>4 DEF BInv, TypeOK

(* A chunk that begins where a line ends is a cut that was not there before. *)
LEMMA CutCounts ==
    ASSUME BInv, NEW n \in Nat, n # 0, n % BytesPerLine = 0, \A c \in cuts : c < n,
           NEW L, L = {c \in cuts \cup {n} : c # 0 /\ c % BytesPerLine = 0}
    PROVE  L # {} /\ Cardinality(L) = Cardinality(Lost) + 1
<1>1. n \notin Lost /\ L = Lost \cup {n}
  BY DEF Lost
<1>2. IsFiniteSet(Lost)
  BY LostFinite DEF BInv
<1> QED
  BY <1>1, <1>2, FS_AddElement

LEMMA SInvFeed == ASSUME BInv, SInv, NEW chunk \in Chunks, Feed(chunk) PROVE SInv'
<1>1. /\ init' = init /\ final' = final /\ out' = out /\ cap' = cap /\ destLen' = destLen /\ src' = chunk
      /\ destPos' = destPos /\ dest' = dest /\ pc = "idle" /\ pc' = "encode" /\ brem' = brem
      /\ bremLen' = bremLen /\ pos' = pos /\ rem' = rem
  BY DEF Feed, state
<1>2. chunk \in Seq(Bytes) /\ chunk # <<>> /\ Len(chunk) \in Nat /\ Len(chunk) # 0
  BY MaxAssumption DEF Chunks
<1>3. CASE final = 1
  <2>1. Ending'
    BY <1>1, <1>3 DEF SInv, Ending, OutRight, Lost, BytesPerLine, Wide, Feed
  <2> QED
    BY <1>1, <1>3, <2>1 DEF SInv, Ending
<1>4. CASE final = 0 /\ init = 0
  <2>1. fed' = fed \o chunk /\ cuts' = cuts \cup {Len(fed)} /\ out = <<>>
    BY <1>4 DEF Feed, SInv, Beginning
  <2>2. cap >= 5 => src' = fed' /\ cuts' \subseteq {0}
    <3> SUFFICES ASSUME cap >= 5 PROVE src' = fed' /\ cuts' \subseteq {0}
      OBVIOUS
    <3>1. fed = <<>> /\ cuts = {}
      BY <1>1, <1>4 DEF SInv, Beginning
    <3> QED
      BY <1>1, <1>2, <2>1, <3>1
  <2>3. Beginning'
    BY <1>1, <1>2, <2>1, <2>2 DEF Beginning
  <2> QED
    BY <1>1, <1>4, <2>3 DEF SInv
<1>5. CASE final = 0 /\ init = 1
  <2> DEFINE n == Len(fed)
  <2>1. Streaming
    BY <1>5 DEF SInv
  <2>2. fed' = fed \o chunk /\ cuts' = cuts \cup {n} /\ src = <<>>
    BY <1>1, <1>5, <2>1 DEF Feed, Streaming, Between
  <2>3. fed \in Seq(Octet) /\ n \in Nat /\ fed \in Seq(Bytes) /\ fed' \in Seq(Octet)
    <3>1. fed \in Seq(Octet) /\ n \in Nat /\ fed \in Seq(Bytes)
      BY Octets DEF BInv, TypeOK
    <3>2. chunk \in Seq(Octet)
      <4>1. Bytes \subseteq Octet
        BY BytesAssumption DEF Octet
      <4> QED
        BY <1>2, <4>1
    <3> QED
      BY <2>2, <3>1, <3>2
  <2>4. Len(fed') = n + Len(chunk) /\ \A j \in 1 .. n : fed'[j] = fed[j]
    BY <1>2, <2>2, <2>3
  <2>5. Seen = n /\ Seen' = n
    BY <1>1, <1>2, <2>2, <2>3, <2>4 DEF Seen
  <2>6. PICK q \in Nat : InBuffer(q) /\ Had(q)
    BY <1>1, <2>1 DEF Streaming, Past
  <2>7. Fill' = Fill /\ Wide' = Wide /\ BytesPerLine' = BytesPerLine
    BY <1>1 DEF Fill, Wide, BytesPerLine
  <2> HIDE DEF n
  <2>8. ASSUME NEW i \in Nat, i < NumChars(n) PROVE Sextet(fed', i) = Sextet(fed, i)
    <3>1. n <= Len(fed')
      BY <1>2, <2>3, <2>4
    <3> QED
      BY <2>3, <2>4, <2>8, <3>1, SextetKept DEF n
  <2>w. /\ Wide \in Nat /\ Wide >= 4 /\ Fill \in 0 .. Wide /\ NumChars(n) = Wide * q + Fill
        /\ \E v \in Nat : v # 0 /\ Wide = 4 * v /\ BytesPerLine = 3 * v
    BY <1>5, <2>5, <2>6, LineIs DEF InBuffer
  <2>9. /\ Wide * q \in Nat /\ Wide * q <= NumChars(n) /\ Wide * (q + 1) = Wide * q + Wide
        /\ \A j \in 0 .. Fill - 1 : Wide * q + j \in Nat /\ Wide * q + j < NumChars(n)
    BY <2>3, <2>w, HadNoMore
  <2>10. InBuffer(q)'
    <3>1. \A j \in 0 .. Fill - 1 : dest[j] = Sextet(fed', Wide * q + j)
      BY <2>6, <2>8, <2>9 DEF InBuffer
    <3> QED
      BY <1>1, <2>5, <2>6, <2>7, <3>1 DEF InBuffer
  <2>11. \A c \in cuts : c < n /\ c \in Nat
    BY <1>1, <2>1, <2>5 DEF Streaming, CutsBehind, BInv, TypeOK
  <2>12. CutsBehind'
    BY <1>1, <1>2, <2>2, <2>3, <2>5, <2>11 DEF CutsBehind
  <2>13. Between'
    BY <1>1 DEF Between
  <2>14. Taken'
    <3>1. Len(src') <= Len(fed') /\ \A j \in 1 .. Len(src') : src'[j] = fed'[n + j]
      BY <1>1, <1>2, <2>2, <2>3, <2>4 DEF n
    <3>2. bremLen = n % 3 /\ brem = Rest(fed, n)
      BY <2>1, <2>5 DEF Streaming, Taken
    <3>3. Rest(fed', n) = Rest(fed, n)
      <4>1. n % 3 # 0 => n \in 1 .. n
        BY <2>3
      <4> QED
        BY <2>4, <4>1 DEF Rest
    <3> QED
      BY <1>1, <2>5, <3>1, <3>2, <3>3 DEF Taken
  <2>15. CASE Fill = Wide
    <3>1. PICK v \in Nat : v # 0 /\ Wide = 4 * v /\ BytesPerLine = 3 * v
      BY <2>w
    <3>2. n # 0 /\ n % BytesPerLine = 0
      <4>1. LineAt(n, v, q, 4 * v) /\ 4 * v \in Nat /\ 4 * v # 0
        BY <2>w, <2>15, <3>1 DEF LineAt
      <4> QED
        BY <2>3, <3>1, <4>1, FullAtMultiple
    <3>3. Lost' # {} /\ Cardinality(Lost') = Cardinality(Lost) + 1
      <4>1. Lost' = {c \in cuts \cup {n} : c # 0 /\ c % BytesPerLine = 0}
        BY <2>2, <2>7 DEF Lost
      <4> QED
        BY <2>3, <2>11, <3>2, <4>1, CutCounts
    <3>4. Len(out) + Wide * (Cardinality(Lost) + 1) = Wide * (q + 1)
      <4>1. Cardinality(Lost) \in Nat /\ Len(out) \in Nat
        BY LostFinite DEF BInv, TypeOK
      <4>2. Len(out) + Wide * Cardinality(Lost) = Wide * q
        BY <2>6 DEF Had
      <4>3. Wide * (Cardinality(Lost) + 1) = Wide * Cardinality(Lost) + Wide /\ Wide * Cardinality(Lost) \in Nat
        BY <2>w, <4>1
      <4> QED
        BY <2>9, <2>w, <4>1, <4>2, <4>3
    <3>5. Had(q + 1)'
      BY <1>1, <2>7, <3>3, <3>4 DEF Had
    <3>6. Past'
      BY <1>1, <1>2, <2>7, <2>15 DEF Past
    <3>7. Streaming'
      BY <2>10, <2>12, <2>13, <2>14, <3>5, <3>6 DEF Streaming
    <3> QED
      BY <1>1, <1>5, <3>7 DEF SInv
  <2>16. CASE Fill # Wide
    <3>1. PICK v \in Nat : v # 0 /\ Wide = 4 * v /\ BytesPerLine = 3 * v
      BY <2>w
    <3>2. n = 0 \/ n % BytesPerLine # 0
      <4>1. CASE Fill = 0
        BY <1>1, <2>5, <2>6, <4>1 DEF InBuffer
      <4>2. CASE Fill # 0
        <5> DEFINE f == Fill
        <5>1. f \in 1 .. 4 * v /\ f # 4 * v /\ NumChars(n) = (4 * v) * q + f
          BY <2>w, <2>16, <3>1, <4>2
        <5> HIDE DEF f
        <5>2. n % (3 * v) = 0 <=> f = 4 * v
          <6>1. n \in Nat /\ v # 0 /\ f \in Nat /\ f # 0 /\ f <= 4 * v /\ LineAt(n, v, q, f)
            BY <2>3, <3>1, <5>1 DEF LineAt
          <6> QED
            BY <6>1, FullAtMultiple
        <5> QED
          BY <3>1, <5>1, <5>2
      <4> QED
        BY <4>1, <4>2
    <3>3. Lost' = Lost
      BY <2>2, <2>7, <3>2 DEF Lost
    <3>4. Had(q)'
      <4>1. ASSUME Lost = {}, NEW j \in 1 .. Len(out) PROVE out[j] = Sextet(fed', j - 1)
        <5>1. Len(out) = Wide * q
          BY <2>6, <2>9, <2>w, <4>1, FS_EmptySet DEF Had, BInv, TypeOK
        <5>2. j - 1 \in Nat /\ j - 1 < NumChars(n) /\ out[j] = Sextet(fed, j - 1)
          BY <2>6, <2>9, <2>w, <4>1, <5>1 DEF Had
        <5> QED
          BY <2>8, <5>2
      <4> QED
        BY <1>1, <2>6, <2>7, <3>3, <4>1 DEF Had
    <3>5. ~Past'
      BY <2>7, <2>16 DEF Past
    <3>6. Streaming'
      BY <2>10, <2>12, <2>13, <2>14, <3>4, <3>5 DEF Streaming
    <3> QED
      BY <1>1, <1>5, <3>6 DEF SInv
  <2> QED
    BY <2>15, <2>16
<1> QED
  BY <1>3, <1>4, <1>5 DEF BInv, TypeOK

LEMMA NothingYet ==
    NumChars(0) = 0 /\ \A w \in Nat : w * 0 = 0 /\ w * 0 + 0 = 0 /\ 0 + w * 0 = 0
BY DEF NumChars

LEMMA SInvEncode == ASSUME BInv, SInv, Encode PROVE SInv'
<1>1. /\ init' = 1 /\ final' = final /\ final = 0 /\ out' = out /\ cap' = cap /\ src' = src /\ fed' = fed
      /\ dest' = dest /\ pc = "encode" /\ brem' = brem /\ bremLen' = bremLen /\ cuts' = cuts
      /\ destPos' = LineStart /\ pos' = destPos'
      /\ pc' = IF src = <<>> THEN "final" ELSE "byte"
  BY DEF Encode
<1> SUFFICES Streaming'
  BY <1>1 DEF SInv
<1>2. fed \in Seq(Octet) /\ Len(fed) \in Nat /\ Len(src) \in Nat /\ src \in Seq(Bytes)
  BY Octets DEF BInv, TypeOK
<1>3. CASE init = 0
  <2>1. cap >= 5 /\ out = <<>> /\ src = fed /\ cuts \subseteq {0} /\ (src = <<>> => cuts = {})
    BY <1>1, <1>3 DEF SInv, Beginning, Encode, BInv, LineInv
  <2>2. /\ bremLen = 0 /\ brem = 0 /\ destPos = 0 /\ destPos' = 0
    BY <1>1, <1>3 DEF BInv, LineInv, TypeOK, LineStart
  <2>3. Seen' = 0
    BY <1>1, <1>2, <2>1 DEF Seen
  <2>4. Wide' \in Nat /\ Wide' >= 4
    <3>1. destLen' = WholeLines(destLen) /\ destLen \in 5 .. 255
      BY <1>3, <2>1, CapsAssumption DEF Encode, BInv, LineInv, TypeOK
    <3>2. WholeLines(destLen) \in 5 .. destLen
      BY <3>1, WholeLinesFit
    <3> QED
      BY <3>1, <3>2 DEF Wide
  <2>5. Fill' = 0
    <3>1. src = <<>> => Len(fed) = 0
      BY <2>1
    <3>2. destPos' # destLen'
      BY <2>2, <2>4 DEF Wide
    <3> QED
      BY <1>1, <2>2, <3>1, <3>2 DEF Fill
  <2>6. Taken'
    BY <1>1, <1>2, <2>1, <2>2, <2>3 DEF Taken, Rest
  <2>7. Between'
    BY <1>1 DEF Between
  <2>8. CutsBehind'
    BY <1>1, <2>1, <2>3 DEF CutsBehind
  <2>9. InBuffer(0)'
    <3>1. NumChars(0) = 0 /\ Wide' * 0 + 0 = 0
      BY <2>4, NothingYet
    <3> QED
      BY <2>3, <2>4, <2>5, <3>1 DEF InBuffer
  <2>10. Had(0)'
    <3>1. Lost' = {}
      BY <1>1, <2>1 DEF Lost
    <3>2. Cardinality({}) = 0 /\ Wide' * 0 = 0 /\ 0 + Wide' * 0 = 0
      BY <2>4, NothingYet, FS_EmptySet
    <3>3. Len(out') = 0
      BY <1>1, <2>1
    <3> QED
      BY <3>1, <3>2, <3>3 DEF Had
  <2>11. ~Past'
    BY <1>1 DEF Past
  <2> QED
    BY <2>6, <2>7, <2>8, <2>9, <2>10, <2>11 DEF Streaming
<1>4. CASE init = 1
  <2>1. Streaming
    BY <1>1, <1>4 DEF SInv
  <2>2. destLen' = destLen /\ Wide' = Wide /\ Lost' = Lost /\ Seen' = Seen
    BY <1>1, <1>4 DEF Encode, Wide, Lost, BytesPerLine, Seen
  <2>3. Wide \in Nat /\ Wide >= 4 /\ destLen = Wide + 1 /\ destPos \in Nat
    BY <1>4, LineIs DEF BInv, TypeOK
  <2>4. PICK q \in Nat : InBuffer(q) /\ Had(IF Past THEN q + 1 ELSE q)
    BY <2>1 DEF Streaming
  <2>5. Taken'
    BY <1>1, <2>1, <2>2 DEF Streaming, Taken, Rest
  <2>6. Between'
    BY <1>1 DEF Between
  <2>7. CutsBehind'
    BY <1>1, <2>1, <2>2 DEF Streaming, CutsBehind
  <2>8. ~Past'
    BY <1>1 DEF Past
  <2>9. Fill = (IF destPos = destLen THEN Wide ELSE destPos)
    BY <1>1 DEF Fill
  <2>10. destPos' = IF destPos = destLen THEN 0 ELSE destPos
    BY <1>1, <1>4 DEF LineStart
  <2>11. destPos = destLen \/ Fill # Wide
    <3>1. destPos < destLen - 1 \/ destPos = destLen
      BY <1>1, <1>4 DEF BInv, LineInv, InLine, FullLine
    <3> QED
      BY <2>3, <2>9, <3>1
  <2>12. CASE Past
    <3>1. src # <<>> /\ Fill = Wide /\ destPos = destLen /\ Had(q + 1)
      BY <2>4, <2>11, <2>12 DEF Past
    <3>2. pc' = "byte" /\ Fill' = 0
      BY <1>1, <2>10, <3>1 DEF Fill
    <3>3. NumChars(Seen) = Wide * (q + 1) + 0
      <4>1. NumChars(Seen) = Wide * q + Wide
        BY <2>4, <3>1 DEF InBuffer
      <4> QED
        BY <2>3, <4>1
    <3>4. InBuffer(q + 1)'
      BY <2>2, <2>3, <3>2, <3>3 DEF InBuffer
    <3>5. Had(q + 1)'
      BY <1>1, <2>2, <3>1 DEF Had
    <3> QED
      BY <2>5, <2>6, <2>7, <2>8, <3>4, <3>5 DEF Streaming
  <2>13. CASE ~Past
    <3>1. Had(q)
      BY <2>4, <2>13
    <3>2. Fill' = Fill
      <4>1. CASE src # <<>>
        <5>1. destPos # destLen
          BY <1>1, <2>9, <2>13, <4>1 DEF Past
        <5> QED
          BY <1>1, <2>9, <2>10, <4>1, <5>1 DEF Fill
      <4>2. CASE src = <<>>
        <5>1. pc' = "final" /\ Seen = Len(fed)
          BY <1>1, <1>2, <4>2 DEF Seen
        <5>2. CASE destPos = destLen
          <6>1. Fill = Wide /\ destPos' = 0
            BY <2>9, <2>10, <5>2
          <6>2. Len(fed) > 0
            <7>1. Seen # 0
              <8>1. NumChars(0) = 0
                BY DEF NumChars
              <8>2. NumChars(Seen) = Wide * q + Wide
                BY <2>4, <6>1 DEF InBuffer
              <8>3. Wide * q \in Nat
                BY <2>3
              <8> QED
                BY <2>3, <8>1, <8>2, <8>3
            <7> QED
              BY <1>2, <5>1, <7>1
          <6> QED
            BY <1>1, <2>2, <5>1, <6>1, <6>2 DEF Fill
        <5>3. CASE destPos # destLen
          <6>1. Fill = destPos /\ destPos' = destPos
            BY <2>9, <2>10, <5>3
          <6>2. ~(destPos = 0 /\ Len(fed) > 0)
            BY <1>1, <1>2, <2>4, <5>1, <6>1 DEF InBuffer
          <6> QED
            BY <1>1, <2>2, <5>1, <5>3, <6>1, <6>2 DEF Fill
        <5> QED
          BY <5>2, <5>3
      <4> QED
        BY <4>1, <4>2
    <3>3. Fill = 0 => Seen = 0
      BY <1>1, <2>4 DEF InBuffer
    <3>4. InBuffer(q)'
      BY <1>1, <2>2, <2>4, <3>2, <3>3 DEF InBuffer
    <3>5. Had(q)'
      BY <1>1, <2>2, <3>1 DEF Had
    <3> QED
      BY <2>5, <2>6, <2>7, <2>8, <3>4, <3>5 DEF Streaming
  <2> QED
    BY <2>12, <2>13
<1> QED
  BY <1>3, <1>4 DEF BInv, TypeOK

LEMMA SInvEncoded == ASSUME BInv, SInv, Encoded PROVE SInv'
<1>1. /\ init' = init /\ final' = final /\ out' = out /\ src' = src /\ fed' = fed /\ destLen' = destLen
      /\ dest' = dest /\ pc = "encoded" /\ brem' = brem /\ bremLen' = bremLen /\ cuts' = cuts
      /\ destPos' = destLen - rem /\ pc' = IF src # <<>> THEN "callback" ELSE "idle"
  BY DEF Encoded, Delivers
<1>2. /\ init = 1 /\ final = 0 /\ rem \in 0 .. 255 /\ pos \in 0 .. 255
      /\ (pos < destLen - 1 /\ rem = destLen - pos /\ src = <<>>) \/ rem = 0
  BY <1>1 DEF BInv, TypeOK, LineInv, InLine
<1>3. Wide \in Nat /\ Wide >= 4 /\ destLen = Wide + 1
  BY <1>2, LineIs
<1>4. Streaming
  BY <1>2 DEF SInv
<1>5. PICK q \in Nat : InBuffer(q) /\ Had(q)
  BY <1>1, <1>4 DEF Streaming, Past
<1>6. Wide' = Wide /\ Lost' = Lost /\ Seen' = Seen
  BY <1>1 DEF Wide, Lost, BytesPerLine, Seen
<1>7. Fill = pos
  BY <1>1 DEF Fill
<1>8. rem = 0 => pos = Wide
  BY <1>1, <1>4 DEF Streaming, Between
<1>9. destPos' = IF rem = 0 THEN destLen ELSE pos
  BY <1>1, <1>2, <1>3
<1>10. Fill' = Fill
  <2>1. rem # 0 => pos # destLen
    BY <1>2, <1>3
  <2> QED
    BY <1>1, <1>6, <1>7, <1>8, <1>9, <2>1 DEF Fill
<1>11. Taken'
  BY <1>1, <1>4, <1>6 DEF Streaming, Taken, Rest
<1>12. Between'
  BY <1>1, <1>2, <1>9 DEF Between
<1>13. CutsBehind'
  BY <1>1, <1>4, <1>6 DEF Streaming, CutsBehind
<1>14. InBuffer(q)' /\ Had(q)' /\ ~Past'
  BY <1>1, <1>5, <1>6, <1>10 DEF InBuffer, Had, Past
<1>15. Streaming'
  BY <1>11, <1>12, <1>13, <1>14 DEF Streaming
<1> QED
  BY <1>1, <1>2, <1>15 DEF SInv

LEMMA SInvEncodeByte == ASSUME BInv, SInv, EncodeByte PROVE SInv'
<1> DEFINE b == Head(src)
           w == Len(Chars(b))
           n == Seen
<1>1. /\ init' = init /\ final' = final /\ out' = out /\ fed' = fed /\ destLen' = destLen
      /\ pc = "byte" /\ cuts' = cuts /\ destPos' = destPos /\ src' = Tail(src)
      /\ pc' = IF src' # <<>> /\ rem' > 0 THEN "byte" ELSE "encoded"
  BY DEF EncodeByte
<1>2. BytePlace /\ b \in 0 .. 255 /\ ByteChars(b, w) /\ ByteFits(w) /\ ByteDone(b, w)
  BY ByteFacts
<1>3. src \in Seq(Bytes) /\ src # <<>> /\ init = 1 /\ final = 0
  BY <1>2 DEF BytePlace
<1>4. Streaming
  BY <1>3 DEF SInv
<1>5. fed \in Seq(Octet) /\ Len(fed) \in Nat /\ Len(src) \in Nat /\ fed \in Seq(Bytes)
  BY Octets DEF BInv, TypeOK
<1>6. /\ Len(src') = Len(src) - 1 /\ Len(src) >= 1 /\ b = src[1]
      /\ \A j \in 1 .. Len(src') : src'[j] = src[j + 1]
  BY <1>1, <1>3
<1>7. n \in Nat /\ n < Len(fed) /\ Len(src) <= Len(fed) /\ Seen' = n + 1
  <2>1. Len(src) <= Len(fed) /\ Len(fed') = Len(fed)
    BY <1>1, <1>4 DEF Streaming, Taken
  <2> DEFINE x == Len(src)
             y == Len(fed)
             z == Len(src')
  <2>2. x \in Nat /\ y \in Nat /\ z = x - 1 /\ x >= 1 /\ x <= y /\ Seen = y - x /\ Seen' = y - z
    BY <1>5, <1>6, <2>1 DEF Seen
  <2> HIDE DEF x, y, z
  <2>3. Seen \in Nat /\ Seen < y /\ Seen' = Seen + 1
    BY <2>2
  <2> QED
    BY <2>1, <2>3 DEF y
<1>8. b = fed[n + 1] /\ bremLen = n % 3 /\ brem = Rest(fed, n)
  BY <1>4, <1>5, <1>6 DEF Streaming, Taken
<1> HIDE DEF b, n
<1>9. /\ NumChars(n + 1) = NumChars(n) + w
      /\ \A j \in 1 .. w : Chars(b)[j] = Sextet(fed, NumChars(n) + j - 1)
      /\ Left(b) = Rest(fed, n + 1)
  BY <1>5, <1>7, <1>8, ByteStep
<1>10. Taken'
  <2>1. (n + 1) % 3 = (bremLen + 1) % 3
    BY <1>7, <1>8
  <2>2. bremLen' = (n + 1) % 3 /\ brem' = Rest(fed, n + 1)
    BY <1>2, <1>9, <2>1 DEF ByteDone
  <2>3. \A j \in 1 .. Len(src') : src'[j] = fed[n + 1 + j]
    <3>1. \A j \in 1 .. Len(src) : src[j] = fed[n + j]
      BY <1>4 DEF Streaming, Taken, n
    <3> QED
      BY <1>5, <1>6, <1>7, <3>1
  <2> QED
    BY <1>1, <1>5, <1>6, <1>7, <2>2, <2>3 DEF Taken
<1> HIDE DEF w
<1>11. PICK q \in Nat : InBuffer(q) /\ Had(q)
  BY <1>1, <1>4 DEF Streaming, Past
<1>12. Wide' = Wide /\ Lost' = Lost /\ Fill = pos /\ Fill' = pos'
  BY <1>1 DEF Wide, Lost, BytesPerLine, Fill
<1>13. /\ Wide \in Nat /\ Wide >= 4 /\ destLen = Wide + 1 /\ destLen <= cap /\ cap \in 1 .. 255
  BY <1>3, LineIs
<1>14. /\ w \in 1 .. 2 /\ pos \in Nat /\ pos' = pos + w /\ pos + w <= Wide
       /\ rem' = (IF rem - w = 1 THEN 0 ELSE rem - w) /\ (rem - w = 1 <=> pos + w = Wide)
  BY <1>2, <1>13 DEF BytePlace, ByteFits, ByteDone, Full
<1> DEFINE d == Put(dest, pos, Chars(b))
<1>15. /\ dest \in [0 .. cap - 1 -> Char] /\ Chars(b) \in Seq(Char) /\ cap \in Nat /\ Len(Chars(b)) = w
       /\ <<Nul>> \in Seq(Char) /\ Len(<<Nul>>) = 1 /\ <<Nul>>[1] = Nul
  BY <1>2, <1>13 DEF BInv, TypeOK, ByteChars, w, Char, Nul
<1>16. d \in [0 .. cap - 1 -> Char]
  BY <1>14, <1>15, PutType
<1>17. /\ \A j \in 0 .. pos - 1 : d[j] = dest[j]
       /\ \A j \in pos .. pos + w - 1 : d[j] = Chars(b)[j - pos + 1]
  <2>1. /\ \A j \in 0 .. cap - 1 : (j < pos \/ j >= pos + w) => d[j] = dest[j]
        /\ \A j \in 0 .. cap - 1 : j >= pos /\ j < pos + w => d[j] = Chars(b)[j - pos + 1]
    BY <1>14, <1>15, PutIs
  <2> HIDE DEF d
  <2> QED
    BY <1>13, <1>14, <2>1
<1>18. /\ dest' = IF rem - w = 1 THEN Put(d, pos + w, <<Nul>>) ELSE d
  BY <1>2 DEF ByteDone, Full
<1> HIDE DEF d
<1>19. /\ \A j \in 0 .. pos + w - 1 : dest'[j] = d[j]
       /\ pos + w = Wide => dest'[Wide] = Nul
  <2>1. CASE rem - w = 1
    <3> DEFINE p == pos + w
    <3>1. p \in Nat /\ p = Wide /\ p <= cap - 1
      BY <1>13, <1>14, <2>1
    <3> HIDE DEF p
    <3> DEFINE N == <<Nul>>
    <3>n. N \in Seq(Char) /\ Len(N) = 1 /\ N[1] = Nul
      BY <1>15
    <3> HIDE DEF N
    <3>2. /\ \A j \in 0 .. cap - 1 : (j < p \/ j >= p + 1) => Put(d, p, N)[j] = d[j]
          /\ \A j \in 0 .. cap - 1 : j >= p /\ j < p + 1 => Put(d, p, N)[j] = N[j - p + 1]
      <4>1. /\ \A j \in 0 .. cap - 1 : (j < p \/ j >= p + Len(N)) => Put(d, p, N)[j] = d[j]
            /\ \A j \in 0 .. cap - 1 : j >= p /\ j < p + Len(N) => Put(d, p, N)[j] = N[j - p + 1]
        <5>1. cap \in Nat /\ d \in [0 .. cap - 1 -> Char] /\ p \in Nat /\ N \in Seq(Char)
          BY <1>15, <1>16, <3>1, <3>n
        <5> QED
          BY <5>1, PutIs
      <4> QED
        BY <3>n, <4>1
    <3>3. \A j \in 0 .. p - 1 : Put(d, p, N)[j] = d[j]
      BY <1>15, <3>1, <3>2
    <3>4. Put(d, p, N)[p] = Nul
      <4>1. p \in 0 .. cap - 1 /\ p >= p /\ p < p + 1 /\ p - p + 1 = 1
        BY <1>15, <3>1
      <4> QED
        BY <3>n, <3>2, <4>1
    <3>5. dest' = Put(d, p, N)
      BY <1>18, <2>1 DEF p, N
    <3>6. (\A j \in 0 .. p - 1 : dest'[j] = d[j]) /\ dest'[Wide] = Nul
      BY <3>1, <3>3, <3>4, <3>5
    <3> QED
      <4>1. \A j \in 0 .. p - 1 : dest'[j] = d[j]
        BY <3>6
      <4>2. \A j \in 0 .. pos + w - 1 : dest'[j] = d[j]
        BY <1>14, <3>1, <4>1 DEF p
      <4> QED
        BY <3>6, <4>2
  <2>2. CASE rem - w # 1
    BY <1>14, <1>18, <2>2
  <2> QED
    BY <2>1, <2>2
<1>20. InBuffer(q)'
  <2>1. NumChars(n) = Wide * q + pos /\ Wide * q \in Nat
    BY <1>11, <1>12, <1>13 DEF InBuffer, n
  <2>2. NumChars(n + 1) = Wide * q + (pos + w)
    BY <1>9, <1>14, <2>1
  <2>3. ASSUME NEW j \in 0 .. pos + w - 1 PROVE dest'[j] = Sextet(fed, Wide * q + j)
    <3>1. CASE j < pos
      <4>1. dest[j] = Sextet(fed, Wide * q + j)
        BY <1>11, <1>12, <1>14, <3>1 DEF InBuffer
      <4> QED
        BY <1>14, <1>17, <1>19, <3>1, <4>1
    <3>2. CASE j >= pos
      <4> DEFINE i == j - pos + 1
      <4>1. i \in 1 .. w /\ NumChars(n) + i - 1 = Wide * q + j /\ j \in pos .. pos + w - 1
        BY <1>14, <2>1, <3>2
      <4>2. dest'[j] = Chars(b)[i]
        BY <1>17, <1>19, <4>1
      <4> HIDE DEF i
      <4> QED
        BY <1>9, <4>1, <4>2
    <3> QED
      BY <1>14, <3>1, <3>2
  <2>4. pos + w \in 0 .. Wide /\ pos + w # 0
    BY <1>13, <1>14
  <2> QED
    BY <1>1, <1>7, <1>12, <1>14, <1>19, <2>2, <2>3, <2>4 DEF InBuffer
<1>21. Had(q)' /\ ~Past'
  BY <1>1, <1>11, <1>12 DEF Had, Past
<1>22. Between'
  <2>1. rem \in Int
    BY <1>2 DEF BInv, TypeOK
  <2>2. rem' = 0 => pos' = Wide'
    BY <1>12, <1>13, <1>14, <1>2, <2>1 DEF BytePlace
  <2> QED
    BY <1>1, <2>2 DEF Between
<1>23. CutsBehind'
  <2>1. \A c \in cuts : c \in Nat /\ c <= n
    BY <1>4 DEF Streaming, CutsBehind, BInv, TypeOK, n
  <2>2. \A c \in cuts : c < n + 1 /\ c <= n + 1
    BY <1>7, <2>1
  <2> QED
    BY <1>1, <1>7, <2>2 DEF CutsBehind
<1>24. Streaming'
  BY <1>10, <1>20, <1>21, <1>22, <1>23 DEF Streaming
<1> QED
  BY <1>1, <1>3, <1>24 DEF SInv

LEMMA SInvEncodeFinal == ASSUME BInv, SInv, EncodeFinal PROVE SInv'
<1> DEFINE t == Tails[bremLen + 1]
           n == Len(fed)
           R == Reference(fed)
<1>1. /\ init' = init /\ final' = 1 /\ out' = out /\ fed' = fed /\ destLen' = destLen
      /\ pc = "final" /\ cuts' = cuts /\ src' = src /\ pc' = "callback"
      /\ IF destPos = 0 THEN dest' = dest /\ destPos' = destPos
         ELSE dest' = Put(dest, pos, t) /\ destPos' = destPos + Len(t)
  BY DEF EncodeFinal
<1>2. /\ init = 1 /\ final = 0 /\ bremLen \in 0 .. 2 /\ destPos \in 0 .. 255 /\ pos = destPos
      /\ destPos < destLen - 1 /\ destPos % 4 = bremLen /\ destLen % 4 = 1
  BY <1>1 DEF BInv, TypeOK, LineInv, InLine
<1>3. Streaming
  BY <1>2 DEF SInv
<1>4. src = <<>> /\ fed \in Seq(Octet) /\ n \in Nat /\ Seen = n
  <2>1. src = <<>> /\ fed \in Seq(Octet) /\ n \in Nat
    BY <1>1, <1>3, Octets DEF Streaming, Between, BInv
  <2> QED
    BY <2>1 DEF Seen
<1>5. PICK q \in Nat : InBuffer(q) /\ Had(q)
  BY <1>1, <1>3 DEF Streaming, Past
<1>6. Wide' = Wide /\ Lost' = Lost
  BY <1>1 DEF Wide, Lost, BytesPerLine
<1>7. /\ Wide \in Nat /\ Wide >= 4 /\ destLen = Wide + 1 /\ destLen <= cap /\ cap \in 1 .. 255
      /\ destLen \in 5 .. 255 /\ \E v \in Nat : v # 0 /\ Wide = 4 * v
  BY <1>2, LineIs
<1>8. SUFFICES ASSUME fed # <<>>
               PROVE  (\E p \in Nat : \E g \in 1 .. Wide' : LastLine(p, g)') /\ OutRight'
  BY <1>1, <1>2 DEF SInv, Ending
<1>9. n > 0
  BY <1>4, <1>8
<1>10. /\ R \in Seq(Char) /\ NumChars(n) <= Len(R)
       /\ \A i \in Nat : i < NumChars(n) => R[i + 1] = Sextet(fed, i)
  BY <1>4, ReferenceFacts
<1>11. /\ Len(R) = NumChars(n) + Len(t) - 1 /\ t[Len(t)] = Nul
       /\ \A j \in 1 .. Len(t) - 1 : t[j] = R[NumChars(n) + j]
  <2>1. bremLen = n % 3 /\ brem = Rest(fed, n)
    BY <1>3, <1>4 DEF Streaming, Taken
  <2> QED
    BY <1>4, <2>1, TailIsReference
<1>12. t \in Seq(Char) /\ Len(t) = (IF bremLen = 0 THEN 1 ELSE IF bremLen = 1 THEN 4 ELSE 3)
  BY TailsType DEF BInv
<1> HIDE DEF t, n, R
<1>13. Fill \in 0 .. Wide /\ NumChars(n) = Wide * q + Fill
  BY <1>4, <1>5 DEF InBuffer
<1>14. /\ Wide * q \in Nat /\ Wide * q <= NumChars(n) /\ NumChars(n) \in Nat
       /\ \A j \in 0 .. Fill - 1 : Wide * q + j \in Nat /\ Wide * q + j < NumChars(n)
  BY <1>4, <1>7, <1>13, HadNoMore
<1>15. \A j \in 0 .. Fill - 1 : dest[j] = R[Wide * q + j + 1]
  BY <1>5, <1>10, <1>14 DEF InBuffer
<1>16. OutRight'
  <2> SUFFICES ASSUME Lost = {}, NEW j \in 1 .. Len(out)
               PROVE  j <= Len(R) /\ out[j] = R[j]
    BY <1>1, <1>6 DEF OutRight, R
  <2>1. Len(out) = Wide * q /\ Len(out) \in Nat
    BY <1>5, <1>7, <1>14, FS_EmptySet DEF Had, BInv, TypeOK
  <2>2. j - 1 \in Nat /\ j - 1 < NumChars(n) /\ out[j] = Sextet(fed, j - 1) /\ j - 1 + 1 = j
    BY <1>5, <1>14, <2>1 DEF Had
  <2>3. Len(R) \in Nat
    BY <1>10
  <2> QED
    BY <1>10, <1>14, <2>2, <2>3
<1>17. Len(out) + Wide * Cardinality(Lost) = Wide * q
  BY <1>5 DEF Had
<1>18. CASE destPos = 0
  <2>1. Fill = Wide
    BY <1>1, <1>9, <1>18 DEF Fill, n
  <2>2. bremLen = 0 /\ Len(t) = 1
    BY <1>2, <1>12, <1>18
  <2>3. Len(R) = Wide * q + Wide
    BY <1>7, <1>11, <1>13, <1>14, <2>1, <2>2
  <2>4. dest' = dest /\ destPos' = 0
    BY <1>1, <1>18
  <2>5. dest[Wide] = Nul
    BY <1>5, <2>1 DEF InBuffer
  <2>6. LastLine(q, Wide)'
    BY <1>1, <1>6, <1>15, <1>17, <2>1, <2>3, <2>4, <2>5 DEF LastLine, R
  <2>7. Wide \in 1 .. Wide
    BY <1>7
  <2> QED
    BY <1>6, <1>16, <2>6, <2>7
<1>19. CASE destPos # 0
  <2> DEFINE g == destPos + Len(t) - 1
             p == pos
  <2>1. Fill = p /\ p \in Nat /\ p = destPos /\ p < Wide /\ p # 0
    BY <1>1, <1>2, <1>7, <1>19 DEF Fill
  <2>2. dest' = Put(dest, p, t) /\ destPos' = p + Len(t)
    BY <1>1, <1>2, <1>19
  <2>3. p + Len(t) <= destLen
    BY <1>2, <1>7, <1>12, TailStep
  <2>4. dest \in [0 .. cap - 1 -> Char] /\ cap \in Nat
    BY <1>7 DEF BInv, TypeOK
  <2> HIDE DEF p
  <2>5. /\ \A j \in 0 .. cap - 1 : (j < p \/ j >= p + Len(t)) => dest'[j] = dest[j]
        /\ \A j \in 0 .. cap - 1 : j >= p /\ j < p + Len(t) => dest'[j] = t[j - p + 1]
    BY <1>12, <2>1, <2>2, <2>4, PutIs
  <2> DEFINE l == Len(t)
  <2>6. l \in 1 .. 4
    BY <1>2, <1>12
  <2>7. /\ Len(R) = NumChars(n) + l - 1 /\ t[l] = Nul
        /\ \A j \in 1 .. l - 1 : t[j] = R[NumChars(n) + j]
        /\ \A j \in 0 .. cap - 1 : (j < p \/ j >= p + l) => dest'[j] = dest[j]
        /\ \A j \in 0 .. cap - 1 : j >= p /\ j < p + l => dest'[j] = t[j - p + 1]
        /\ g = p + l - 1 /\ p + l <= destLen /\ destPos' = p + l
    BY <1>11, <2>1, <2>2, <2>3, <2>5
  <2> HIDE DEF g, l
  <2>8. g \in 1 .. Wide /\ g <= cap - 1 /\ destPos' = g + 1 /\ g \in 0 .. cap - 1
    BY <1>7, <2>1, <2>6, <2>7
  <2>9. Len(R) = Wide * q + g
    BY <1>13, <1>14, <2>1, <2>6, <2>7
  <2>10. dest'[g] = Nul
    <3>1. g - p + 1 = l /\ g >= p /\ g < p + l
      BY <2>1, <2>6, <2>7
    <3> QED
      BY <2>7, <2>8, <3>1
  <2>11. ASSUME NEW j \in 0 .. g - 1 PROVE dest'[j] = R[Wide * q + j + 1]
    <3>0. j \in 0 .. cap - 1
      BY <2>4, <2>8
    <3>1. CASE j < p
      BY <1>15, <2>1, <2>7, <3>0, <3>1
    <3>2. CASE j >= p
      <4> DEFINE i == j - p + 1
      <4>1. i \in 1 .. l - 1 /\ NumChars(n) + i = Wide * q + j + 1 /\ j < p + l
        BY <1>13, <1>14, <2>1, <2>6, <2>7, <3>2
      <4>2. dest'[j] = t[i]
        BY <2>7, <3>0, <3>2, <4>1
      <4> HIDE DEF i
      <4> QED
        BY <2>7, <4>1, <4>2
    <3> QED
      BY <2>1, <3>1, <3>2
  <2>12. PICK h \in 1 .. Wide : h = g
    BY <2>8
  <2>13. LastLine(q, h)'
    BY <1>1, <1>6, <1>17, <2>8, <2>9, <2>10, <2>11, <2>12 DEF LastLine, R
  <2> QED
    BY <1>6, <1>16, <2>12, <2>13
<1> QED
  BY <1>18, <1>19

(* The string in the buffer ends at its first null character. *)
LEMMA FirstNul ==
    ASSUME TypeOK, NEW g \in 0 .. cap - 1, dest[g] = Nul, \A j \in 0 .. g - 1 : dest[j] # Nul
    PROVE  /\ ~Unwritten
           /\ (CHOOSE k \in DOMAIN dest : dest[k] = Nul /\ \A j \in 0 .. k - 1 : dest[j] # Nul) = g
<1>1. DOMAIN dest = 0 .. cap - 1 /\ cap \in Nat
  BY CapsAssumption DEF TypeOK
<1>2. ~Unwritten
  BY <1>1 DEF Unwritten
<1>3. ASSUME NEW k \in DOMAIN dest, dest[k] = Nul, \A j \in 0 .. k - 1 : dest[j] # Nul PROVE k = g
  <2>1. k \in 0 .. cap - 1
    BY <1>1
  <2>2. ~(g < k)
    <3> SUFFICES ASSUME g < k PROVE FALSE
      OBVIOUS
    <3>1. g \in 0 .. k - 1
      BY <1>1, <2>1
    <3> QED
      BY <1>3, <3>1
  <2>3. ~(k < g)
    <3> SUFFICES ASSUME k < g PROVE FALSE
      OBVIOUS
    <3>1. k \in 0 .. g - 1
      BY <1>1, <2>1
    <3> QED
      BY <1>3, <3>1
  <2> QED
    BY <1>1, <2>1, <2>2, <2>3
<1>4. g \in DOMAIN dest
  BY <1>1
<1> QED
  BY <1>2, <1>3, <1>4

LEMMA ConcatIs ==
    ASSUME NEW o \in Seq(Char), NEW l \in Seq(Char)
    PROVE  /\ Len(o \o l) = Len(o) + Len(l) /\ \A j \in 1 .. Len(o) : (o \o l)[j] = o[j]
           /\ \A j \in 1 .. Len(l) : (o \o l)[Len(o) + j] = l[j]
<1>1. Len(o \o l) = Len(o) + Len(l)
  OBVIOUS
<1>2. \A j \in 1 .. Len(o) : (o \o l)[j] = o[j]
  OBVIOUS
<1>3. ASSUME NEW j \in 1 .. Len(l) PROVE (o \o l)[Len(o) + j] = l[j]
  <2>1. Len(o) + j \in 1 .. Len(o) + Len(l) /\ ~(Len(o) + j <= Len(o)) /\ Len(o) + j - Len(o) = j
    OBVIOUS
  <2> QED
    BY <2>1
<1> QED
  BY <1>1, <1>2, <1>3

(* The callback is given g characters of the buffer. *)
LEMMA GivesLine ==
    ASSUME BInv, Callback, NEW g \in Nat, g \in 0 .. cap - 1, dest[g] = Nul,
           \A j \in 0 .. g - 1 : dest[j] # Nul,
           via = "write" => g = IF final = 1 /\ destPos # 0 THEN destPos - 1 ELSE destLen - 1
    PROVE  /\ Len(out') = Len(out) + g
           /\ \A j \in 1 .. Len(out) : out'[j] = out[j]
           /\ \A j \in 1 .. g : out'[Len(out) + j] = dest[j - 1]
<1>1. TypeOK
  BY DEF BInv
<1>2. /\ ~Unwritten
      /\ (CHOOSE k \in DOMAIN dest : dest[k] = Nul /\ \A j \in 0 .. k - 1 : dest[j] # Nul) = g
  BY <1>1, FirstNul
<1>3. Given = g
  <2>1. CASE via = "puts"
    BY <1>2, <2>1 DEF Given
  <2>2. CASE via = "write"
    BY <2>2 DEF Given
  <2> QED
    BY <1>1, <2>1, <2>2 DEF TypeOK
<1>4. out' = out \o Line(g)
  BY <1>2, <1>3 DEF Callback
<1>5. Line(g) \in Seq(Char) /\ Len(Line(g)) = g /\ \A j \in 1 .. g : Line(g)[j] = dest[j - 1]
  <2>1. \A j \in 1 .. g : dest[j - 1] \in Char
    BY <1>1, CapsAssumption DEF TypeOK
  <2> QED
    BY <2>1 DEF Line
<1>6. out \in Seq(Char)
  BY <1>1 DEF TypeOK
<1> DEFINE l == Line(g)
           m == Len(out)
<1>7. m \in Nat /\ l \in Seq(Char) /\ Len(l) = g /\ out' = out \o l /\ \A j \in 1 .. g : l[j] = dest[j - 1]
  BY <1>4, <1>5, <1>6
<1> HIDE DEF l
<1>8. /\ Len(out') = m + g /\ \A j \in 1 .. m : out'[j] = out[j]
      /\ \A j \in 1 .. g : out'[m + j] = l[j]
  <2>1. /\ Len(out \o l) = Len(out) + Len(l) /\ \A j \in 1 .. Len(out) : (out \o l)[j] = out[j]
        /\ \A j \in 1 .. Len(l) : (out \o l)[Len(out) + j] = l[j]
    <3>1. out \in Seq(Char) /\ l \in Seq(Char)
      BY <1>6, <1>7
    <3> QED
      BY <3>1, ConcatIs
  <2> DEFINE o == out \o l
  <2>2. out' = o /\ Len(l) = g
    BY <1>7
  <2> HIDE DEF o
  <2>3. /\ Len(o) = m + Len(l) /\ \A j \in 1 .. m : o[j] = out[j]
        /\ \A j \in 1 .. Len(l) : o[m + j] = l[j]
    BY <2>1 DEF o
  <2> HIDE DEF m
  <2> QED
    BY <2>2, <2>3
<1> QED
  BY <1>7, <1>8

LEMMA SInvCallback == ASSUME BInv, SInv, Callback PROVE SInv'
<1>1. /\ init' = init /\ final' = final /\ fed' = fed /\ destLen' = destLen /\ dest' = dest
      /\ pc = "callback" /\ cuts' = cuts /\ src' = src /\ destPos' = destPos /\ brem' = brem
      /\ bremLen' = bremLen /\ pos' = pos /\ rem' = rem
      /\ pc' = IF final = 1 THEN "idle" ELSE "encode"
  BY DEF Callback, state
<1>2. init = 1 /\ final \in 0 .. 1
  BY <1>1 DEF BInv, TypeOK, LineInv
<1>3. Wide' = Wide /\ Lost' = Lost /\ Seen' = Seen
  BY <1>1 DEF Wide, Lost, BytesPerLine, Seen
<1>4. /\ Wide \in Nat /\ Wide >= 4 /\ destLen = Wide + 1 /\ destLen <= cap /\ cap \in 1 .. 255
  BY <1>2, LineIs
<1>5. fed \in Seq(Octet) /\ Len(fed) \in Nat /\ Len(src) \in Nat /\ Len(out) \in Nat
  BY Octets DEF BInv, TypeOK
<1>c. Cardinality(Lost) \in Nat /\ Wide * Cardinality(Lost) \in Nat
  BY <1>4, LostFinite DEF BInv
<1>6. CASE final = 0
  <2>1. Streaming
    BY <1>2, <1>6 DEF SInv
  <2>2. src # <<>> /\ destPos = destLen
    BY <1>1, <2>1 DEF Streaming, Between
  <2>3. PICK q \in Nat : InBuffer(q) /\ Had(q)
    BY <1>1, <2>1 DEF Streaming, Past
  <2>4. Fill = Wide /\ Fill' = Wide
    BY <1>1, <1>3, <1>6, <2>2 DEF Fill
  <2>5. dest[Wide] = Nul /\ NumChars(Seen) = Wide * q + Wide
    BY <2>3, <2>4 DEF InBuffer
  <2>6. Wide * q \in Nat /\ Wide * (q + 1) = Wide * q + Wide
    BY <1>4
  <2>7. ASSUME NEW j \in 0 .. Wide - 1
        PROVE  dest[j] = Sextet(fed, Wide * q + j) /\ dest[j] # Nul
    <3>1. dest[j] = Sextet(fed, Wide * q + j)
      BY <2>3, <2>4 DEF InBuffer
    <3>2. Wide * q + j \in Nat
      BY <2>6
    <3>3. dest[j] \in 0 .. 63
      BY <1>5, <3>1, <3>2, SextetType
    <3> QED
      BY <3>1, <3>3 DEF Nul
  <2>8. /\ Len(out') = Len(out) + Wide
        /\ \A j \in 1 .. Len(out) : out'[j] = out[j]
        /\ \A j \in 1 .. Wide : out'[Len(out) + j] = dest[j - 1]
    <3>1. Wide \in 0 .. cap - 1 /\ Wide = destLen - 1
      BY <1>4
    <3> QED
      BY <1>4, <1>6, <2>5, <2>7, <3>1, GivesLine
  <2>9. Had(q + 1)'
    <3> DEFINE x == Wide * Cardinality(Lost)
               m == Len(out)
    <3>1. m + x = Wide * q /\ m \in Nat /\ x \in Nat
      BY <1>5, <1>c, <2>3 DEF Had
    <3>2. Len(out') + x = Wide * (q + 1)
      <4>1. Len(out') = m + Wide
        BY <2>8
      <4> HIDE DEF x, m
      <4> QED
        BY <1>4, <2>6, <3>1, <4>1
    <3>3. ASSUME Lost = {}, NEW j \in 1 .. Len(out') PROVE out'[j] = Sextet(fed, j - 1)
      <4>1. m = Wide * q
        BY <1>4, <3>1, <3>3, FS_EmptySet
      <4>2. CASE j \in 1 .. m
        BY <2>3, <2>8, <3>3, <4>2 DEF Had
      <4>3. CASE ~(j \in 1 .. m)
        <5> DEFINE i == j - m
        <5>0. j \in 1 .. m + Wide
          BY <2>8, <3>3
        <5> HIDE DEF m
        <5>1. i \in 1 .. Wide /\ m + i = j /\ i - 1 \in 0 .. Wide - 1 /\ Wide * q + (i - 1) = j - 1
          BY <1>4, <2>6, <3>1, <4>1, <4>3, <5>0
        <5> HIDE DEF i
        <5>2. out'[j] = dest[i - 1]
          BY <2>8, <5>1 DEF m
        <5>3. dest[i - 1] = Sextet(fed, Wide * q + (i - 1))
          BY <2>7, <5>1
        <5> QED
          BY <5>1, <5>2, <5>3
      <4> QED
        BY <4>2, <4>3
    <3> QED
      BY <1>1, <1>3, <3>2, <3>3 DEF Had
  <2>10. InBuffer(q)'
    BY <1>1, <1>3, <1>4, <2>3, <2>4 DEF InBuffer
  <2>11. Past'
    BY <1>1, <1>3, <1>6, <2>2, <2>4 DEF Past
  <2>12. Taken'
    BY <1>1, <1>3, <2>1 DEF Streaming, Taken, Rest
  <2>13. Between'
    BY <1>1, <1>6 DEF Between
  <2>14. CutsBehind'
    BY <1>1, <1>3, <1>6, <2>1, <2>2 DEF Streaming, CutsBehind
  <2>15. Streaming'
    BY <2>9, <2>10, <2>11, <2>12, <2>13, <2>14 DEF Streaming
  <2> QED
    BY <1>1, <1>2, <1>6, <2>15 DEF SInv
<1>7. CASE final = 1
  <2>1. Ending
    BY <1>7 DEF SInv
  <2>2. CASE fed = <<>>
    BY <1>1, <1>2, <1>7, <2>2 DEF SInv, Ending
  <2>3. CASE fed # <<>>
    <3> DEFINE R == Reference(fed)
               x == Wide * Cardinality(Lost)
               m == Len(out)
    <3>1. PICK q \in Nat, g \in 1 .. Wide : LastLine(q, g)
      BY <1>1, <2>1, <2>3 DEF Ending
    <3>2. /\ R \in Seq(Char) /\ Len(R) = Wide * q + g /\ Wide * q \in Nat /\ m + x = Wide * q
          /\ \A i \in 1 .. Len(R) : R[i] # Nul
      <4>1. R \in Seq(Char) /\ \A i \in 1 .. Len(R) : R[i] # Nul
        BY <1>5, ReferenceFacts
      <4> QED
        BY <1>4, <3>1, <4>1 DEF LastLine
    <3>3. x \in Nat /\ m \in Nat /\ g \in Nat
      BY <1>4, <1>5, <1>c
    <3> HIDE DEF R, x, m
    <3>4. ASSUME NEW j \in 0 .. g - 1 PROVE dest[j] = R[Wide * q + j + 1] /\ dest[j] # Nul
      <4>1. dest[j] = R[Wide * q + j + 1]
        BY <3>1 DEF LastLine, R
      <4>2. Wide * q + j + 1 \in 1 .. Len(R)
        BY <3>2, <3>3
      <4> QED
        BY <3>2, <4>1, <4>2
    <3>5. /\ Len(out') = m + g
          /\ \A j \in 1 .. m : out'[j] = out[j]
          /\ \A j \in 1 .. g : out'[m + j] = dest[j - 1]
      <4>1. g \in Nat /\ g \in 0 .. cap - 1 /\ dest[g] = Nul
        BY <1>4, <3>1, <3>3 DEF LastLine
      <4>2. g = IF final = 1 /\ destPos # 0 THEN destPos - 1 ELSE destLen - 1
        BY <1>4, <1>7, <3>1, <3>3 DEF LastLine
      <4> QED
        BY <3>4, <4>1, <4>2, GivesLine DEF m
    <3>6. Len(out') + x = Len(R)
      BY <3>2, <3>3, <3>5
    <3>7. OutRight'
      <4> SUFFICES ASSUME Lost = {}, NEW j \in 1 .. Len(out') PROVE j <= Len(R) /\ out'[j] = R[j]
        BY <1>1, <1>3 DEF OutRight, R
      <4>1. m = Wide * q /\ x = 0
        BY <1>4, <3>2, <3>3, FS_EmptySet DEF x
      <4>2. CASE j \in 1 .. m
        <5>1. out[j] = R[j]
          BY <2>1, <2>3, <4>2 DEF Ending, OutRight, R, m
        <5> QED
          BY <3>2, <3>3, <3>5, <4>1, <4>2, <5>1
      <4>3. CASE ~(j \in 1 .. m)
        <5> DEFINE i == j - m
        <5>0. j \in 1 .. m + g
          BY <3>5
        <5>1. /\ i \in 1 .. g /\ m + i = j /\ i - 1 \in 0 .. g - 1 /\ Wide * q + (i - 1) + 1 = j
              /\ j <= Wide * q + g
          BY <3>2, <3>3, <4>1, <4>3, <5>0
        <5> HIDE DEF i
        <5>2. out'[j] = dest[i - 1]
          BY <3>5, <5>1
        <5>3. dest[i - 1] = R[Wide * q + (i - 1) + 1]
          BY <3>4, <5>1
        <5> QED
          BY <3>2, <5>1, <5>2, <5>3
      <4> QED
        BY <4>2, <4>3
    <3>8. Ending'
      BY <1>1, <1>2, <1>3, <1>7, <3>6, <3>7 DEF Ending, R, x
    <3> QED
      BY <1>1, <1>2, <1>7, <3>8 DEF SInv
  <2> QED
    BY <2>2, <2>3
<1> QED
  BY <1>2, <1>6, <1>7

LEMMA SInvCallbackFails == ASSUME BInv, SInv, CallbackFails PROVE SInv'
<1>1. /\ init' = init /\ final' = final /\ fed' = fed /\ destLen' = destLen /\ dest' = dest
      /\ pc = "callback" /\ cuts' = cuts /\ src' = src /\ destPos' = destPos /\ brem' = brem
      /\ bremLen' = bremLen /\ pos' = pos /\ rem' = rem /\ out' = out /\ pc' = "failed"
  BY DEF CallbackFails, state
<1>2. init = 1
  BY <1>1 DEF BInv, LineInv, TypeOK
<1>3. Wide' = Wide /\ Lost' = Lost /\ Seen' = Seen /\ Fill' = Fill
  BY <1>1 DEF Wide, Lost, BytesPerLine, Seen, Fill
<1>4. CASE final = 0
  <2>1. Streaming
    BY <1>2, <1>4 DEF SInv
  <2>2. PICK q \in Nat : InBuffer(q) /\ Had(q)
    BY <1>1, <2>1 DEF Streaming, Past
  <2>3. InBuffer(q)' /\ Had(q)' /\ ~Past'
    BY <1>1, <1>3, <2>2 DEF InBuffer, Had, Past
  <2>4. Taken' /\ Between' /\ CutsBehind'
    BY <1>1, <1>3, <2>1 DEF Streaming, Taken, Between, CutsBehind, Rest
  <2>5. Streaming'
    BY <2>3, <2>4 DEF Streaming
  <2> QED
    BY <1>1, <1>2, <1>4, <2>5 DEF SInv
<1>5. CASE final = 1
  <2>1. Ending'
    BY <1>1, <1>3, <1>5 DEF SInv, Ending, OutRight
  <2> QED
    BY <1>1, <1>2, <1>5, <2>1 DEF SInv
<1> QED
  BY <1>4, <1>5 DEF BInv, TypeOK

(* What the callback has been given are the first characters of the encoding. *)
LEMMA OutIsPrefix ==
    ASSUME NEW S, NEW o \in Seq(S), NEW r \in Seq(S), Len(o) <= Len(r), \A j \in 1 .. Len(o) : o[j] = r[j]
    PROVE  o = SubSeq(r, 1, Len(o)) /\ (Len(o) = Len(r) => o = r)
<1> DEFINE m == Len(o)
<1>1. m \in Nat /\ o \in [1 .. m -> S] /\ Len(r) \in Nat /\ m <= Len(r) /\ r \in [1 .. Len(r) -> S]
  OBVIOUS
<1>2. SubSeq(r, 1, m) = [j \in 1 .. m |-> r[j]]
  BY <1>1
<1>3. o = [j \in 1 .. m |-> o[j]]
  BY <1>1
<1>4. m = Len(r) => r = [j \in 1 .. m |-> r[j]]
  BY <1>1
<1> QED
  BY <1>2, <1>3, <1>4

LEMMA SInvDelivers == BInv /\ SInv => Delivered
<1> SUFFICES ASSUME BInv, SInv PROVE Delivered
  OBVIOUS
<1> DEFINE R == Reference(fed)
<1>1. fed \in Seq(Octet) /\ Len(fed) \in Nat /\ Len(src) \in Nat /\ out \in Seq(Char) /\ Len(out) \in Nat
  BY Octets DEF BInv, TypeOK
<1>2. /\ R \in Seq(Char) /\ NumChars(Len(fed)) <= Len(R)
      /\ \A i \in Nat : i < NumChars(Len(fed)) => R[i + 1] = Sextet(fed, i)
  BY <1>1, ReferenceFacts
<1>3. final \in 0 .. 1 /\ init \in 0 .. 1 /\ (final = 1 => Ending /\ init = 1) /\ (pc = "callback" => init = 1)
  BY DEF BInv, TypeOK, SInv, Ending, LineInv
<1>4. Cardinality(Lost) \in Nat
  BY LostFinite DEF BInv
<1>5. LineLost <=> Lost # {}
  BY DEF LineLost, Lost
<1> HIDE DEF R
<1>6. StreamEncoded
  <2> SUFFICES ASSUME init = 1, fed # <<>>, Lost = {}
               PROVE  out = SubSeq(R, 1, Len(out)) /\ (Ended => out = R)
    BY <1>5 DEF StreamEncoded, R
  <2>1. Wide \in Nat /\ Wide >= 4
    BY LineIs
  <2>2. Cardinality(Lost) = 0 /\ Wide * Cardinality(Lost) = 0
    BY <2>1, FS_EmptySet
  <2>3. CASE final = 0
    <3>1. Streaming
      BY <2>3 DEF SInv
    <3>2. PICK q \in Nat : InBuffer(q) /\ Had(IF Past THEN q + 1 ELSE q)
      BY <3>1 DEF Streaming
    <3>3. Seen \in Nat /\ Seen <= Len(fed)
      BY <1>1, <3>1 DEF Streaming, Taken, Seen
    <3>4. Fill \in 0 .. Wide /\ NumChars(Seen) = Wide * q + Fill
      BY <3>2 DEF InBuffer
    <3>5. /\ Wide * q \in Nat /\ NumChars(Seen) \in Nat /\ NumChars(Seen) <= NumChars(Len(fed))
          /\ Wide * (q + 1) = Wide * q + Wide /\ NumChars(Len(fed)) \in Nat
      <4>1. NumChars(Len(fed)) \in Nat
        BY <1>1 DEF NumChars
      <4>2. Wide * q \in Nat /\ Wide * (q + 1) = Wide * q + Wide
        BY <2>1
      <4>3. NumChars(Seen) \in Nat /\ NumChars(Seen) <= NumChars(Len(fed))
        BY <1>1, <3>3 DEF NumChars
      <4> QED
        BY <4>1, <4>2, <4>3
    <3>6. Len(out) <= NumChars(Len(fed)) /\ \A j \in 1 .. Len(out) : out[j] = Sextet(fed, j - 1)
      <4>1. CASE Past
        <5>1. Had(q + 1) /\ Fill = Wide
          BY <3>2, <4>1 DEF Past
        <5>2. Len(out) = Wide * q + Wide
          BY <1>1, <2>2, <3>5, <5>1 DEF Had
        <5> QED
          BY <2>1, <3>4, <3>5, <5>1, <5>2 DEF Had
      <4>2. CASE ~Past
        <5>1. Had(q)
          BY <3>2, <4>2
        <5>2. Len(out) = Wide * q
          BY <1>1, <2>2, <3>5, <5>1 DEF Had
        <5> QED
          BY <2>1, <3>4, <3>5, <5>1, <5>2 DEF Had
      <4> QED
        BY <4>1, <4>2
    <3>7. Len(out) <= Len(R) /\ \A j \in 1 .. Len(out) : out[j] = R[j]
      <4>1. Len(R) \in Nat
        BY <1>2
      <4>2. ASSUME NEW j \in 1 .. Len(out) PROVE out[j] = R[j]
        <5>1. j - 1 \in Nat /\ j - 1 < NumChars(Len(fed)) /\ j - 1 + 1 = j
          BY <1>1, <3>5, <3>6
        <5> QED
          BY <1>2, <3>6, <5>1
      <4> QED
        BY <1>1, <1>2, <3>5, <3>6, <4>1, <4>2
    <3> QED
      BY <1>1, <1>2, <2>3, <3>7, OutIsPrefix DEF Ended
  <2>4. CASE final = 1
    <3>1. Ending /\ OutRight
      BY <1>3, <2>4 DEF Ending
    <3>2. \A j \in 1 .. Len(out) : j <= Len(R) /\ out[j] = R[j]
      BY <3>1 DEF OutRight, R
    <3>3. Len(out) <= Len(R) /\ Len(R) \in Nat
      <4>1. Len(R) \in Nat
        BY <1>2
      <4>2. Len(out) # 0 => Len(out) \in 1 .. Len(out)
        BY <1>1
      <4> QED
        BY <1>1, <3>2, <4>1, <4>2
    <3>4. Ended => Len(out) = Len(R)
      BY <1>1, <2>2, <3>1 DEF Ended, Ending, R
    <3> QED
      BY <1>1, <1>2, <3>2, <3>3, <3>4, OutIsPrefix
  <2> QED
    BY <1>3, <2>3, <2>4
<1>7. OnlyLineLost
  <2> SUFFICES ASSUME Ended, fed # <<>>
               PROVE  Len(out) = Len(R) - (destLen - 1) * Cardinality(Lost)
    BY DEF OnlyLineLost, Lost, R
  <2>1. Len(out) + Wide * Cardinality(Lost) = Len(R)
    BY <1>3 DEF Ended, Ending, R
  <2>2. Wide * Cardinality(Lost) \in Nat /\ Wide = destLen - 1
    <3>1. Wide \in Nat
      BY <1>3, LineIs DEF Ended
    <3> QED
      BY <1>4, <3>1 DEF Wide
  <2> QED
    BY <1>1, <2>1, <2>2
<1>8. StringEnds
  <2> SUFFICES ASSUME pc = "callback", fed # <<>> PROVE \E k \in DOMAIN dest : dest[k] = Nul
    BY DEF StringEnds, Unwritten
  <2>1. init = 1 /\ Wide \in Nat /\ destLen = Wide + 1 /\ destLen <= cap /\ cap \in 1 .. 255
    BY <1>3, LineIs
  <2>2. DOMAIN dest = 0 .. cap - 1
    BY DEF BInv, TypeOK
  <2>3. CASE final = 0
    <3>1. Streaming
      BY <2>1, <2>3 DEF SInv
    <3>2. PICK q \in Nat : InBuffer(q)
      BY <3>1 DEF Streaming
    <3>3. Fill = Wide
      BY <3>1 DEF Streaming, Between, Fill
    <3>4. dest[Wide] = Nul
      BY <3>2, <3>3 DEF InBuffer
    <3> QED
      BY <2>1, <2>2, <3>4
  <2>4. CASE final = 1
    <3>1. PICK q \in Nat, g \in 1 .. Wide : LastLine(q, g)
      BY <1>3, <2>4 DEF Ending
    <3>2. dest[g] = Nul
      BY <3>1 DEF LastLine
    <3> QED
      BY <2>1, <2>2, <3>2
  <2> QED
    BY <1>3, <2>3, <2>4
<1> QED
  BY <1>6, <1>7, <1>8 DEF Delivered

(* Whatever the size of the buffer, the bytes and the way the stream is cut into
   chunks, the callbacks of base64_encode_cb_puts and base64_encode_cb_write get
   the base64 of the stream, line by line, but for each line that a chunk ends
   at; and puts never runs past the end of the buffer. *)
THEOREM StreamIsDelivered == Spec => []Delivered
<1>1. Init => SInv
  BY SInvInit
<1>2. BInv /\ SInv /\ [Next]_vars => SInv'
  BY SInvFeed, SInvEnd, SInvRefuse, SInvEncode, SInvEncodeByte, SInvEncoded, SInvEncodeFinal,
     SInvCallback, SInvCallbackFails, SInvStutters DEF Next
<1> QED
  BY <1>1, <1>2, BInvAlways, SInvDelivers, PTL DEF Spec
=============================================================================
