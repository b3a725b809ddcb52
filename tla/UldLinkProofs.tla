---------------------------- MODULE UldLinkProofs ---------------------------
(***************************************************************************)
(* Proofs about UldLink, for every set of symbols and every list of files. *)
(***************************************************************************)
EXTENDS UldLink, SequenceTheorems, WellFoundedInduction, TLAPS

(* The relocations that have been linked. *)
Done(k, n) == k < i \/ (k = i /\ n < r)

(* The shape of the state, beyond TypeOK.  Only a descriptor value can be read
   through a pointer; every other word that is linked is set to an address. *)
MatchOK(m) == m = <<>> \/ (m \in (1 .. Len(files)) \X Symbols)
Shape ==
    /\ res = [ptr |-> res.ptr, base |-> res.base, file |-> res.file, match |-> res.match]
    /\ MatchOK(res.match)
    /\ \A k \in 1 .. Len(files) :
          /\ DOMAIN slot[k] = 1 .. Len(files[k].rels)
          /\ \A n \in 1 .. Len(files[k].rels) :
                files[k].rels[n].type # "FUNCDESC_VALUE" => slot[k][n] # Null
    /\ ret = -1 => pc = "done"
    /\ PoolStart <= dlBase

LInv == TypeOK /\ PoolDisjoint /\ Shape

(* A set of numbers that is not empty has a lowest member, and a highest one if
   it is bounded. *)
LEMMA LowestIs ==
    ASSUME NEW S, S \subseteq Nat, S # {}
    PROVE  Lowest(S) \in S /\ \A m \in S : m >= Lowest(S)
<1>1. IsWellFoundedOn(OpToRel(<, Nat), Nat)
  BY NatLessThanWellFounded
<1>2. PICK p \in S : \A q \in S : ~(<<q, p>> \in OpToRel(<, Nat))
  BY <1>1, WFMin
<1>3. ASSUME NEW q \in S
      PROVE  q >= p
  <2>1. p \in Nat /\ q \in Nat
    OBVIOUS
  <2>2. ~(q < p)
    BY <1>2, <2>1 DEF OpToRel
  <2>3. QED
    BY <2>1, <2>2
<1>4. QED
  BY <1>3 DEF Lowest

LEMMA HighestIs ==
    ASSUME NEW S, NEW b \in Nat, S \subseteq 1 .. b, S # {}
    PROVE  Highest(S) \in S /\ \A m \in S : m <= Highest(S)
<1> DEFINE U == {b - t : t \in S}
<1>1. U \subseteq Nat /\ U # {}
  <2>1. \A t \in S : b - t \in Nat
    OBVIOUS
  <2>2. PICK t \in S : TRUE
    OBVIOUS
  <2>3. b - t \in U
    OBVIOUS
  <2>4. QED
    BY <2>1, <2>3
<1>2. Lowest(U) \in U /\ \A v \in U : v >= Lowest(U)
  BY <1>1, LowestIs
<1>3. PICK p \in S : Lowest(U) = b - p
  BY <1>2
<1>4. ASSUME NEW q \in S
      PROVE  q <= p
  <2>1. b - q >= b - p
    BY <1>2, <1>3
  <2>2. p \in Nat /\ q \in Nat
    OBVIOUS
  <2>3. QED
    BY <2>1, <2>2
<1>5. QED
  BY <1>4 DEF Highest

(* Types of what a step reads. *)
LEMMA FileTypes ==
    ASSUME files \in Lists
    PROVE  /\ Len(files) \in Nat
           /\ \A k \in 1 .. Len(files) :
                /\ files[k] \in File /\ Len(files[k].rels) \in Nat
                /\ files[k].syms \in [Symbols -> SymStates]
                /\ \A n \in 1 .. Len(files[k].rels) :
                     /\ files[k].rels[n].sym \in Symbols
                     /\ files[k].rels[n].type \in RelTypes
<1>1. files \in Seq(File)
  BY ListsAssumption
<1>2. ASSUME NEW k \in 1 .. Len(files)
      PROVE  /\ files[k] \in File /\ Len(files[k].rels) \in Nat
             /\ files[k].syms \in [Symbols -> SymStates]
             /\ \A n \in 1 .. Len(files[k].rels) :
                  /\ files[k].rels[n].sym \in Symbols
                  /\ files[k].rels[n].type \in RelTypes
  <2>1. files[k] \in File
    BY <1>1, ElementOfSeq
  <2>2. files[k].rels \in Seq(Rel) /\ files[k].syms \in [Symbols -> SymStates]
    BY <2>1 DEF File
  <2>3. \A n \in 1 .. Len(files[k].rels) : files[k].rels[n] \in Rel
    BY <2>2, ElementOfSeq
  <2>4. QED
    BY <2>1, <2>2, <2>3, LenProperties DEF Rel
<1>3. QED
  BY <1>1, <1>2, LenProperties

(* A relocation to link. *)
Linking == pc = "link" /\ i \in 1 .. Len(files) /\ r \in 1 .. Len(files[i].rels)

LEMMA AtRelLinking ==
    ASSUME LInv, NEW types, AtRel(types)
    PROVE  /\ Linking /\ Type \in types /\ Sym \in Symbols /\ i \in Nat /\ Len(files) \in Nat
           /\ files[i].tables # "none"
<1>1. TypeOK /\ files \in Lists
  BY DEF LInv, TypeOK
<1>2. Len(files) \in Nat
  BY <1>1, FileTypes
<1>3. i \in 1 .. Len(files) /\ i \in Nat
  BY <1>1, <1>2 DEF TypeOK, AtRel
<1>4. Len(files[i].rels) \in Nat
  BY <1>1, <1>3, FileTypes
<1>5. r \in 1 .. Len(files[i].rels)
  BY <1>1, <1>4 DEF TypeOK, AtRel
<1>6. Sym \in Symbols
  BY <1>1, <1>3, <1>5, FileTypes DEF Sym, ThisRel
<1>7. QED
  BY <1>2, <1>3, <1>5, <1>6 DEF AtRel, Linking

(* What a search sees: its own file, unless it is for a descriptor, and those
   before it. *)
LEMMA SearchSets ==
    ASSUME LInv, Linking
    PROVE  /\ i \in Nat /\ i \in 1 .. i /\ 1 .. i \subseteq 1 .. Len(files)
           /\ Answering \subseteq 1 .. i /\ Seen \subseteq 1 .. i /\ Defining \subseteq Seen
           /\ Type # "FUNCDESC" => i \in Seen
           /\ \A S : S \subseteq 1 .. i => S \subseteq Nat
<1>1. Len(files) \in Nat
  BY FileTypes DEF LInv, TypeOK
<1>2. i \in Nat /\ i \in 1 .. i /\ 1 .. i \subseteq 1 .. Len(files)
  BY <1>1 DEF Linking
<1>3. QED
  BY <1>2 DEF Answering, Seen, Defining, Searched

(* The three ways a search ends: with nothing, with a symbol, or with what an
   earlier relocation holds. *)
NotFoundCase ==
    /\ Resolution.ptr = Null
    /\ BadType \/ \A k \in 1 .. i : Searched(k) => ~Defined(k) /\ Providers(k) = {}
    /\ (Type = "GLOB_DAT" /\ ~BadType) =>
          Resolution = [Failed EXCEPT !.file = Lowest(Seen), !.match = MatchDownTo(1)]
    /\ (Type # "GLOB_DAT" \/ BadType) => Resolution = Failed
SymCase(k) ==
    /\ Searched(k) /\ ~BadType
    /\ Defined(k) \/ (BySection /\ k = i)
    /\ Resolution = FromSym(k)
    /\ Type # "FUNCDESC" => \A m \in k + 1 .. i : ~Answers(m)
RelCase(k) ==
    /\ Searched(k) /\ ~BadType /\ ~BySection
    /\ Providers(k) # {} /\ (Type = "FUNCDESC" \/ ~Defined(k))
    /\ Resolution = FromRel(k)
    /\ \A m \in k + 1 .. i : ~Answers(m)

LEMMA ResolutionCases ==
    ASSUME LInv, Linking
    PROVE  NotFoundCase \/ \E k \in 1 .. i : SymCase(k) \/ RelCase(k)
<1>0. /\ i \in Nat /\ i \in 1 .. i /\ Answering \subseteq 1 .. i
      /\ Seen \subseteq 1 .. i /\ Defining \subseteq Seen
      /\ \A S : S \subseteq 1 .. i => S \subseteq Nat
  BY SearchSets
<1>1. Failed.ptr = Null
  BY DEF Failed, LInv, Shape
<1>2. CASE Answering # {}
  <2> DEFINE k == Highest(Answering)
  <2>1. k \in Answering /\ \A m \in Answering : m <= k
    BY <1>0, <1>2, HighestIs
  <2>2. k \in 1 .. i /\ Answers(k) /\ Searched(k)
    BY <2>1 DEF Answering, Answers
  <2>3. \A m \in k + 1 .. i : ~Answers(m)
    <3> SUFFICES ASSUME NEW m \in k + 1 .. i, Answers(m) PROVE FALSE
      OBVIOUS
    <3>1. m \in 1 .. i
      BY <1>0, <2>2
    <3>2. m <= k
      BY <2>1, <3>1 DEF Answering
    <3>3. QED
      BY <1>0, <2>2, <3>2
  <2> HIDE DEF k
  <2>4. CASE BadType
    <3>1. Resolution = Failed
      BY <1>2, <2>4 DEF Resolution
    <3>2. QED
      BY <1>1, <2>4, <3>1 DEF NotFoundCase
  <2>5. CASE ~BadType /\ (BySection \/ (Defined(k) /\ Type # "FUNCDESC"))
    <3>1. Resolution = FromSym(k)
      BY <1>2, <2>5 DEF Resolution, k
    <3>2. BySection => k = i
      <4> SUFFICES ASSUME BySection PROVE k = i
        OBVIOUS
      <4>1. Answers(i)
        BY DEF Answers, Searched, BySection
      <4>2. i \in Answering
        BY <1>0, <4>1 DEF Answering
      <4>3. i <= k
        BY <2>1, <4>2 DEF k
      <4>4. QED
        BY <1>0, <2>2, <4>3
    <3>3. SymCase(k)
      BY <2>2, <2>3, <2>5, <3>1, <3>2 DEF SymCase
    <3>4. QED
      BY <2>2, <3>3
  <2>6. CASE ~BadType /\ ~(BySection \/ (Defined(k) /\ Type # "FUNCDESC"))
    <3>1. Resolution = FromRel(k)
      BY <1>2, <2>6 DEF Resolution, k
    <3>2. Providers(k) # {}
      BY <2>2, <2>6 DEF Answers
    <3>3. RelCase(k)
      BY <2>2, <2>3, <2>6, <3>1, <3>2 DEF RelCase
    <3>4. QED
      BY <2>2, <3>3
  <2>7. QED
    BY <2>4, <2>5, <2>6
<1>3. CASE Answering = {}
  <2>1. \A k \in 1 .. i : ~Answers(k)
    BY <1>3 DEF Answering
  <2>2. Type # "FUNCDESC" => ~BadType /\ ~BySection
    BY <1>0, <2>1 DEF Answers, Searched
  <2>3. \A k \in 1 .. i : Searched(k) => Providers(k) = {}
    BY <2>1 DEF Answers
  <2>4. CASE Type = "FUNCDESC" /\ Defining # {}
    <3> DEFINE k == Lowest(Defining)
    <3>1. k \in Defining
      BY <1>0, <2>4, LowestIs
    <3>2. k \in 1 .. i /\ Searched(k) /\ Defined(k)
      BY <1>0, <3>1 DEF Defining, Seen
    <3>3. Resolution = FromSym(k)
      BY <1>3, <2>4 DEF Resolution
    <3>4. ~BadType
      BY <2>1, <3>2 DEF Answers
    <3> HIDE DEF k
    <3>5. SymCase(k)
      BY <2>4, <3>2, <3>3, <3>4 DEF SymCase
    <3>6. QED
      BY <3>2, <3>5
  <2>5. CASE ~(Type = "FUNCDESC" /\ Defining # {})
    <3>1. \A k \in 1 .. i : Searched(k) => ~Defined(k)
      <4>1. CASE Type = "FUNCDESC"
        BY <2>5, <4>1 DEF Defining, Seen
      <4>2. CASE Type # "FUNCDESC"
        BY <2>1, <4>2 DEF Answers
      <4>3. QED
        BY <4>1, <4>2
    <3>2. CASE Type = "GLOB_DAT"
      <4>1. Resolution = [Failed EXCEPT !.file = Lowest(Seen), !.match = MatchDownTo(1)]
        BY <1>3, <3>2 DEF Resolution
      <4>2. Resolution.ptr = Null
        BY <1>1, <4>1 DEF Failed, LInv, Shape
      <4>3. QED
        BY <2>2, <2>3, <3>1, <3>2, <4>1, <4>2 DEF NotFoundCase
    <3>3. CASE Type # "GLOB_DAT"
      <4>1. Resolution = Failed
        BY <1>3, <2>5, <3>3 DEF Resolution
      <4>2. QED
        BY <1>1, <2>3, <3>1, <3>3, <4>1 DEF NotFoundCase
    <3>4. QED
      BY <3>2, <3>3
  <2>6. QED
    BY <2>4, <2>5
<1>4. QED
  BY <1>2, <1>3

(* A search that ends with a symbol or a relocation has found something. *)
LEMMA FoundIsResolved ==
    ASSUME LInv, Linking, NEW k \in 1 .. i
    PROVE  /\ SymCase(k) => /\ Resolution.ptr = LinkAddr(k, Sym) /\ Resolution.base = Base(k)
                            /\ Resolution.file = k
                            /\ Resolved
           /\ RelCase(k) => \E n \in Providers(k) :
                /\ Resolution.base = 0 /\ Resolution.file = k
                /\ n \in 1 .. Len(files[k].rels)
                /\ Resolution.ptr = IF files[k].rels[n].type = "FUNCDESC_VALUE"
                                    THEN SlotAddr(k, n) ELSE slot[k][n]
                /\ Resolved
<1>0. k \in 1 .. Len(files) /\ files \in Lists /\ Len(files[k].rels) \in Nat
  BY SearchSets, FileTypes DEF LInv, TypeOK
<1>1. ASSUME SymCase(k)
      PROVE  /\ Resolution.ptr = LinkAddr(k, Sym) /\ Resolution.base = Base(k)
             /\ Resolution.file = k /\ Resolved
  <2>1. Resolution = FromSym(k)
    BY <1>1 DEF SymCase
  <2>2. LinkAddr(k, Sym) # Null
    BY DEF LinkAddr, Null
  <2>3. QED
    BY <2>1, <2>2 DEF FromSym, Resolved
<1>2. ASSUME RelCase(k)
      PROVE  \E n \in Providers(k) :
                /\ Resolution.base = 0 /\ Resolution.file = k
                /\ n \in 1 .. Len(files[k].rels)
                /\ Resolution.ptr = IF files[k].rels[n].type = "FUNCDESC_VALUE"
                                    THEN SlotAddr(k, n) ELSE slot[k][n]
                /\ Resolved
  <2> DEFINE n == Highest(Providers(k))
  <2>1. Providers(k) \subseteq 1 .. Len(files[k].rels) /\ Providers(k) # {}
    BY <1>2 DEF RelCase, Providers
  <2>2. n \in Providers(k)
    BY <1>0, <2>1, HighestIs
  <2>3. Resolution = FromRel(k)
    BY <1>2 DEF RelCase
  <2>4. /\ Resolution.base = 0 /\ Resolution.file = k
        /\ Resolution.ptr = IF files[k].rels[n].type = "FUNCDESC_VALUE"
                            THEN SlotAddr(k, n) ELSE slot[k][n]
    BY <2>3 DEF FromRel
  <2> HIDE DEF n
  <2>5. SlotAddr(k, n) # Null
    BY DEF SlotAddr, Null
  <2>6. files[k].rels[n].type # "FUNCDESC_VALUE" => slot[k][n] # Null
    BY <1>0, <2>1, <2>2 DEF LInv, Shape
  <2>7. Resolved
    BY <2>4, <2>5, <2>6 DEF Resolved
  <2>8. QED
    BY <2>1, <2>2, <2>4, <2>7
<1>3. QED
  BY <1>1, <1>2

LEMMA MatchDownToOK ==
    ASSUME LInv, Linking, Sym \in Symbols, NEW k
    PROVE  MatchOK(MatchDownTo(k))
<1> DEFINE passed == {m \in Seen \ Defining : m >= k}
<1>1. CASE Type = "GLOB_DAT" /\ passed # {}
  <2>1. passed \subseteq 1 .. i /\ passed \subseteq Nat
    BY SearchSets
  <2>2. Lowest(passed) \in passed
    BY <1>1, <2>1, LowestIs
  <2>3. Lowest(passed) \in 1 .. Len(files)
    BY <2>1, <2>2, SearchSets
  <2>4. MatchDownTo(k) = <<Lowest(passed), Sym>>
    BY <1>1 DEF MatchDownTo
  <2>5. QED
    BY <2>3, <2>4 DEF MatchOK
<1>2. CASE ~(Type = "GLOB_DAT" /\ passed # {})
  <2>1. MatchDownTo(k) = res.match
    BY <1>2 DEF MatchDownTo
  <2>2. QED
    BY <2>1 DEF LInv, Shape
<1>3. QED
  BY <1>1, <1>2

(* What a search returns is well formed. *)
LEMMA ResolutionTypes ==
    ASSUME LInv, Linking, Sym \in Symbols
    PROVE  /\ Resolution = [ptr |-> Resolution.ptr, base |-> Resolution.base,
                            file |-> Resolution.file, match |-> Resolution.match]
           /\ Resolution.base \in 0 .. Len(files) /\ Resolution.file \in 0 .. Len(files)
           /\ MatchOK(Resolution.match)
<1>0. /\ i \in Nat /\ Len(files) \in Nat /\ 1 .. i \subseteq 1 .. Len(files)
      /\ 1 .. Len(files) \subseteq 0 .. Len(files)
  BY SearchSets, FileTypes DEF LInv, TypeOK
<1>1. /\ Failed = [ptr |-> Null, base |-> res.base, file |-> res.file, match |-> res.match]
      /\ res.base \in 0 .. Len(files) /\ res.file \in 0 .. Len(files) /\ MatchOK(res.match)
  BY DEF Failed, LInv, Shape, TypeOK
<1>2. CASE NotFoundCase
  <2>1. CASE Type = "GLOB_DAT" /\ ~BadType
    <3>1. Resolution = [Failed EXCEPT !.file = Lowest(Seen), !.match = MatchDownTo(1)]
      BY <1>2, <2>1 DEF NotFoundCase
    <3>2. Lowest(Seen) \in 1 .. i
      <4>1. Seen \subseteq Nat /\ Seen \subseteq 1 .. i /\ Seen # {}
        BY <2>1, SearchSets
      <4>2. QED
        BY <4>1, LowestIs
    <3>3. MatchOK(MatchDownTo(1))
      BY MatchDownToOK
    <3>4. Resolution = [ptr |-> Null, base |-> res.base, file |-> Lowest(Seen),
                        match |-> MatchDownTo(1)]
      BY <1>1, <3>1
    <3>5. QED
      BY <1>0, <1>1, <3>2, <3>3, <3>4
  <2>2. CASE ~(Type = "GLOB_DAT" /\ ~BadType)
    <3>1. Resolution = Failed
      BY <1>2, <2>2 DEF NotFoundCase
    <3>2. QED
      BY <1>1, <3>1
  <2>3. QED
    BY <2>1, <2>2
<1>3. ASSUME NEW k \in 1 .. i, SymCase(k)
      PROVE  /\ Resolution = [ptr |-> Resolution.ptr, base |-> Resolution.base,
                              file |-> Resolution.file, match |-> Resolution.match]
             /\ Resolution.base \in 0 .. Len(files) /\ Resolution.file \in 0 .. Len(files)
             /\ MatchOK(Resolution.match)
  <2>1. Resolution = [ptr |-> LinkAddr(k, Sym), base |-> Base(k), file |-> k,
                      match |-> MatchDownTo(k)]
    BY <1>3 DEF SymCase, FromSym
  <2>2. k \in 0 .. Len(files) /\ 0 \in 0 .. Len(files)
    BY <1>0
  <2>3. Base(k) \in 0 .. Len(files)
    BY <2>2 DEF Base
  <2>4. MatchOK(MatchDownTo(k))
    BY MatchDownToOK
  <2>5. QED
    BY <2>1, <2>2, <2>3, <2>4
<1>4. ASSUME NEW k \in 1 .. i, RelCase(k)
      PROVE  /\ Resolution = [ptr |-> Resolution.ptr, base |-> Resolution.base,
                              file |-> Resolution.file, match |-> Resolution.match]
             /\ Resolution.base \in 0 .. Len(files) /\ Resolution.file \in 0 .. Len(files)
             /\ MatchOK(Resolution.match)
  <2>1. PICK ptr : Resolution = [ptr |-> ptr, base |-> 0, file |-> k, match |-> MatchDownTo(k)]
    BY <1>4 DEF RelCase, FromRel
  <2>2. k \in 0 .. Len(files) /\ 0 \in 0 .. Len(files)
    BY <1>0
  <2>3. MatchOK(MatchDownTo(k))
    BY MatchDownToOK
  <2>4. QED
    BY <2>1, <2>2, <2>3
<1>5. QED
  BY <1>2, <1>3, <1>4, ResolutionCases

(* An allocation goes above all earlier ones. *)
LEMMA AllocDisjoint ==
    ASSUME LInv, NEW size \in Nat, NEW v, Alloc(size, v)
    PROVE  /\ PoolDisjoint' /\ dlBase' \in Nat /\ dlBase' >= dlBase + size
           /\ \A a \in pool' : a.at \in Nat /\ a.size \in Nat
<1> DEFINE b == [at |-> dlBase, size |-> size, val |-> v]
           pad == IF "fn" \in DOMAIN v THEN 0 ELSE (-(dlBase + size)) % 4
<1>1. dlBase \in Nat /\ PoolStart \in Nat /\ \A a \in pool : a.at \in Nat /\ a.size \in Nat
  BY SizeAssumption DEF LInv, TypeOK
<1>2. pad \in Nat
  <2>1. \A x \in Int : x % 4 \in Nat
    OBVIOUS
  <2>2. -(dlBase + size) \in Int
    BY <1>1
  <2>3. QED
    BY <2>1, <2>2
<1>3. pool' = pool \cup {b} /\ dlBase' = dlBase + size + pad
  BY DEF Alloc
<1>4. b.at = dlBase /\ b.size = size
  OBVIOUS
<1> HIDE DEF b, pad
<1>5. dlBase' \in Nat /\ dlBase' >= dlBase + size
  BY <1>1, <1>2, <1>3
<1>6. PoolStart <= dlBase
  BY DEF LInv, Shape
<1>7. \A a \in pool' : /\ a.at \in Nat /\ a.size \in Nat
                       /\ PoolStart <= a.at /\ a.at + a.size <= dlBase'
  <2> SUFFICES ASSUME NEW a \in pool'
               PROVE  /\ a.at \in Nat /\ a.size \in Nat
                      /\ PoolStart <= a.at /\ a.at + a.size <= dlBase'
    OBVIOUS
  <2>1. CASE a = b
    BY <1>1, <1>4, <1>5, <1>6, <2>1
  <2>2. CASE a \in pool
    <3>1. a.at \in Nat /\ a.size \in Nat /\ PoolStart <= a.at /\ a.at + a.size <= dlBase
      BY <1>1, <2>2 DEF LInv, PoolDisjoint
    <3>2. QED
      BY <1>1, <1>5, <3>1
  <2>3. QED
    BY <1>3, <2>1, <2>2
<1>8. \A a, c \in pool' : a # c => a.at + a.size <= c.at \/ c.at + c.size <= a.at
  <2>1. \A a \in pool : a.at + a.size <= b.at
    BY <1>1, <1>4 DEF LInv, PoolDisjoint
  <2>2. \A a, c \in pool : a # c => a.at + a.size <= c.at \/ c.at + c.size <= a.at
    BY DEF LInv, PoolDisjoint
  <2>3. QED
    BY <1>3, <2>1, <2>2
<1>9. QED
  BY <1>5, <1>7, <1>8 DEF PoolDisjoint

(* The part of the invariant about the words, and the part about the resolution;
   LInv is these, the pool and the counters. *)
SlotsOK ==
    /\ DOMAIN slot = 1 .. Len(files)
    /\ \A k \in 1 .. Len(files) :
          /\ DOMAIN slot[k] = 1 .. Len(files[k].rels)
          /\ \A n \in 1 .. Len(files[k].rels) :
                files[k].rels[n].type # "FUNCDESC_VALUE" => slot[k][n] # Null
ResOK ==
    /\ res = [ptr |-> res.ptr, base |-> res.base, file |-> res.file, match |-> res.match]
    /\ MatchOK(res.match)
    /\ res.base \in 0 .. Len(files) /\ res.file \in 0 .. Len(files)
PoolOK ==
    /\ PoolDisjoint /\ dlBase \in Nat /\ PoolStart <= dlBase
    /\ \A a \in pool : a.at \in Nat /\ a.size \in Nat
CountersOK ==
    /\ files \in Lists
    /\ i \in 1 .. Len(files) + 1 /\ r \in Nat \ {0}
    /\ pc \in {"link", "done"} /\ ret \in {-1, 0} /\ (ret = -1 => pc = "done")
    /\ trapped \in BOOLEAN

LEMMA LInvParts == LInv <=> (SlotsOK /\ ResOK /\ PoolOK /\ CountersOK)
BY DEF LInv, TypeOK, Shape, SlotsOK, ResOK, PoolOK, CountersOK

LEMMA WriteKeeps ==
    ASSUME LInv, Linking, NEW v, Write(v), Type # "FUNCDESC_VALUE" => v # Null, files' = files
    PROVE  SlotsOK'
<1>1. i \in 1 .. Len(files) /\ r \in 1 .. Len(files[i].rels)
  BY DEF Linking
<1>2. slot' = [slot EXCEPT ![i][r] = v]
  BY DEF Write
<1>3. SlotsOK
  BY LInvParts
<1>4. \A k \in 1 .. Len(files) : slot'[k] = IF k = i THEN [slot[i] EXCEPT ![r] = v] ELSE slot[k]
  BY <1>1, <1>2, <1>3 DEF SlotsOK
<1>5. DOMAIN slot' = 1 .. Len(files)
  BY <1>2, <1>3 DEF SlotsOK
<1>6. ASSUME NEW k \in 1 .. Len(files)
      PROVE  /\ DOMAIN slot'[k] = 1 .. Len(files[k].rels)
             /\ \A n \in 1 .. Len(files[k].rels) :
                   files[k].rels[n].type # "FUNCDESC_VALUE" => slot'[k][n] # Null
  <2>1. CASE k # i
    BY <1>3, <1>4, <2>1 DEF SlotsOK
  <2>2. CASE k = i
    <3>1. slot'[k] = [slot[i] EXCEPT ![r] = v]
      BY <1>4, <2>2
    <3>2. \A n \in 1 .. Len(files[k].rels) : slot'[k][n] = IF n = r THEN v ELSE slot[i][n]
      BY <1>3, <2>2, <3>1 DEF SlotsOK
    <3>3. files[i].rels[r].type # "FUNCDESC_VALUE" => v # Null
      BY DEF Type, ThisRel
    <3>4. QED
      BY <1>3, <2>2, <3>1, <3>2, <3>3 DEF SlotsOK
  <2>3. QED
    BY <2>1, <2>2
<1>7. QED
  BY <1>5, <1>6 DEF SlotsOK

LEMMA ResolvingKeeps ==
    ASSUME LInv, Linking, Sym \in Symbols, res' = Resolution, files' = files
    PROVE  ResOK'
BY ResolutionTypes DEF ResOK, MatchOK

LEMMA NoAllocKeeps ==
    ASSUME LInv, NoAlloc
    PROVE  PoolOK'
<1>1. PoolOK
  BY LInvParts
<1>2. QED
  BY <1>1 DEF NoAlloc, PoolOK, PoolDisjoint

LEMMA AllocKeeps ==
    ASSUME LInv, NEW size \in Nat, NEW v, Alloc(size, v)
    PROVE  PoolOK'
<1>1. PoolOK /\ PoolStart \in Nat
  BY LInvParts, SizeAssumption
<1>2. /\ PoolDisjoint' /\ dlBase' \in Nat /\ dlBase' >= dlBase + size
      /\ \A a \in pool' : a.at \in Nat /\ a.size \in Nat
  BY AllocDisjoint
<1>3. PoolStart <= dlBase'
  BY <1>1, <1>2 DEF PoolOK
<1>4. QED
  BY <1>2, <1>3 DEF PoolOK

LEMMA CountersKept ==
    ASSUME LInv, files' = files, i' = i, r' = r \/ r' = r + 1, trapped' \in BOOLEAN,
           (pc' = pc /\ ret' = ret) \/ (pc' = "done" /\ ret' = -1)
    PROVE  CountersOK'
<1>1. CountersOK
  BY LInvParts
<1>2. QED
  BY <1>1 DEF CountersOK

(* A step that fails changes nothing but the resolution and the outcome. *)
LEMMA FailKeeps ==
    ASSUME LInv, Fail, files' = files, i' = i, ResOK'
    PROVE  LInv'
<1>1. SlotsOK /\ PoolOK
  BY LInvParts
<1>2. SlotsOK'
  BY <1>1 DEF SlotsOK, Fail
<1>3. PoolOK'
  BY NoAllocKeeps DEF Fail, NoAlloc
<1>4. CountersOK'
  BY CountersKept DEF Fail
<1>5. QED
  BY <1>2, <1>3, <1>4, LInvParts, PTL

LEMMA WordNotNull ==
    ASSUME Resolved, NEW b
    PROVE  Adjusted(Resolution.ptr, b) # Null
BY DEF Resolved, Adjusted, SymAddr, Null

LEMMA PoolAddrNotNull ==
    ASSUME NEW a
    PROVE  PoolAddr(a) # Null
BY DEF PoolAddr, Null

LEMMA SizesAreNat ==
    ASSUME NEW m, MatchOK(m)
    PROVE  MatchSizes(m) \subseteq Nat
<1>1. CASE m = <<>>
  BY <1>1 DEF MatchSizes, AnySize
<1>2. CASE m # <<>>
  <2>1. m[2] \in Symbols
    BY <1>2 DEF MatchOK
  <2>2. ObjSize[m[2]] \in Nat
    BY <2>1, SizeAssumption
  <2>3. CASE files[m[1]].syms[m[2]] = "ref"
    BY <1>2, <2>3 DEF MatchSizes
  <2>4. CASE files[m[1]].syms[m[2]] # "ref"
    <3>1. MatchSizes(m) = {ObjSize[m[2]]}
      BY <1>2, <2>4 DEF MatchSizes
    <3>2. QED
      BY <2>2, <3>1
  <2>5. QED
    BY <2>3, <2>4
<1>3. QED
  BY <1>1, <1>2

(* A step that writes a word: the parts of the invariant side by side. *)
LEMMA WritingKeeps ==
    ASSUME LInv, Linking, NEW v, Write(v), Type # "FUNCDESC_VALUE" => v # Null,
           files' = files, i' = i, ResOK', PoolOK', trapped' \in BOOLEAN
    PROVE  LInv'
<1>1. SlotsOK'
  BY WriteKeeps
<1>2. CountersOK'
  BY CountersKept DEF Write
<1>3. QED
  BY <1>1, <1>2, LInvParts, PTL

LEMMA RelativeKeeps ==
    ASSUME LInv, LinkRelative
    PROVE  LInv'
<1>1. Linking /\ Type \in {"RELATIVE"}
  BY AtRelLinking DEF LinkRelative
<1>2. SymAddr(i, Sym) # Null
  BY DEF SymAddr, Null
<1>3. ResOK /\ CountersOK
  BY LInvParts
<1>4. ResOK'
  BY <1>3 DEF LinkRelative, ResOK, MatchOK
<1>5. PoolOK'
  BY NoAllocKeeps DEF LinkRelative
<1>6. trapped' \in BOOLEAN
  BY <1>3 DEF LinkRelative, CountersOK
<1>7. QED
  BY <1>1, <1>2, <1>4, <1>5, <1>6, WritingKeeps DEF LinkRelative

LEMMA Abs32Keeps ==
    ASSUME LInv, LinkAbs32
    PROVE  LInv'
<1>1. Linking /\ Sym \in Symbols
  BY AtRelLinking DEF LinkAbs32
<1>2. ResOK'
  BY <1>1, ResolvingKeeps DEF LinkAbs32
<1>3. CountersOK
  BY LInvParts
<1>4. CASE Resolved /\ Write(Adjusted(res'.ptr, res'.base)) /\ NoAlloc /\ UNCHANGED trapped
  <2>1. Adjusted(res'.ptr, res'.base) # Null
    BY <1>4, WordNotNull DEF LinkAbs32
  <2>2. PoolOK'
    BY <1>4, NoAllocKeeps
  <2>3. trapped' \in BOOLEAN
    BY <1>3, <1>4 DEF CountersOK
  <2>4. QED
    BY <1>1, <1>2, <1>4, <2>1, <2>2, <2>3, WritingKeeps DEF LinkAbs32
<1>5. CASE ~Resolved /\ Fail
  BY <1>2, <1>5, FailKeeps DEF LinkAbs32
<1>6. QED
  BY <1>4, <1>5 DEF LinkAbs32

LEMMA GlobDatKeeps ==
    ASSUME LInv, LinkGlobDat
    PROVE  LInv'
<1>1. Linking /\ Sym \in Symbols
  BY AtRelLinking DEF LinkGlobDat
<1>2. ResOK'
  BY <1>1, ResolvingKeeps DEF LinkGlobDat
<1>3. CountersOK
  BY LInvParts
<1>4. CASE /\ Resolved /\ Write(Adjusted(res'.ptr, res'.base)) /\ NoAlloc /\ UNCHANGED trapped
  <2>1. Adjusted(res'.ptr, res'.base) # Null
    BY <1>4, WordNotNull DEF LinkGlobDat
  <2>2. PoolOK'
    BY <1>4, NoAllocKeeps
  <2>3. trapped' \in BOOLEAN
    BY <1>3, <1>4 DEF CountersOK
  <2>4. QED
    BY <1>1, <1>2, <1>4, <2>1, <2>2, <2>3, WritingKeeps DEF LinkGlobDat
<1>5. CASE /\ ~Resolved
           /\ Write(PoolAddr(dlBase))
           /\ \E size \in MatchSizes(res'.match) : Alloc(size, [obj |-> Sym])
           /\ trapped' = (trapped \/ BadType \/ OnlyReferrer)
  <2>1. MatchOK(Resolution.match)
    BY <1>1, ResolutionTypes
  <2>2. PICK size \in MatchSizes(Resolution.match) : Alloc(size, [obj |-> Sym])
    BY <1>5 DEF LinkGlobDat
  <2>3. size \in Nat
    BY <2>1, <2>2, SizesAreNat
  <2>4. PoolOK'
    BY <2>2, <2>3, AllocKeeps
  <2>5. trapped' \in BOOLEAN
    BY <1>5
  <2>6. PoolAddr(dlBase) # Null
    BY PoolAddrNotNull
  <2>7. QED
    BY <1>1, <1>2, <1>5, <2>4, <2>5, <2>6, WritingKeeps DEF LinkGlobDat
<1>6. QED
  BY <1>4, <1>5 DEF LinkGlobDat

LEMMA FuncdescKeeps ==
    ASSUME LInv, LinkFuncdesc
    PROVE  LInv'
<1>1. Linking /\ Sym \in Symbols
  BY AtRelLinking DEF LinkFuncdesc
<1>2. ResOK'
  BY <1>1, ResolvingKeeps DEF LinkFuncdesc
<1>3. CountersOK
  BY LInvParts
<1>4. CASE /\ Resolved /\ res'.base # 0
           /\ Write(PoolAddr(dlBase))
           /\ Alloc(8, Desc(res'.base, Sym))
           /\ UNCHANGED trapped
  <2>1. PoolAddr(dlBase) # Null
    BY PoolAddrNotNull
  <2>2. PoolOK'
    BY <1>4, AllocKeeps
  <2>3. trapped' \in BOOLEAN
    BY <1>3, <1>4 DEF CountersOK
  <2>4. QED
    BY <1>1, <1>2, <1>4, <2>1, <2>2, <2>3, WritingKeeps DEF LinkFuncdesc
<1>5. CASE Resolved /\ res'.base = 0 /\ Write(res'.ptr) /\ NoAlloc /\ UNCHANGED trapped
  <2>1. res'.ptr # Null
    BY <1>5 DEF LinkFuncdesc, Resolved
  <2>2. PoolOK'
    BY <1>5, NoAllocKeeps
  <2>3. trapped' \in BOOLEAN
    BY <1>3, <1>5 DEF CountersOK
  <2>4. QED
    BY <1>1, <1>2, <1>5, <2>1, <2>2, <2>3, WritingKeeps DEF LinkFuncdesc
<1>6. CASE ~Resolved /\ Fail
  BY <1>2, <1>6, FailKeeps DEF LinkFuncdesc
<1>7. QED
  BY <1>4, <1>5, <1>6 DEF LinkFuncdesc

LEMMA FuncdescValueKeeps ==
    ASSUME LInv, LinkFuncdescValue
    PROVE  LInv'
<1>1. Linking /\ Sym \in Symbols /\ Type \in {"FUNCDESC_VALUE"}
  BY AtRelLinking DEF LinkFuncdescValue
<1>2. ResOK'
  BY <1>1, ResolvingKeeps DEF LinkFuncdescValue
<1>3. CountersOK
  BY LInvParts
<1>4. ASSUME NEW v, Write(v), NoAlloc, UNCHANGED trapped
      PROVE  LInv'
  <2>1. PoolOK'
    BY <1>4, NoAllocKeeps
  <2>2. trapped' \in BOOLEAN
    BY <1>3, <1>4 DEF CountersOK
  <2>3. QED
    BY <1>1, <1>2, <1>4, <2>1, <2>2, WritingKeeps DEF LinkFuncdescValue
<1>5. CASE ~Resolved /\ Fail
  BY <1>2, <1>5, FailKeeps DEF LinkFuncdescValue
<1>6. QED
  BY <1>4, <1>5 DEF LinkFuncdescValue

LEMMA MisplacedKeeps ==
    ASSUME LInv, LinkMisplaced
    PROVE  LInv'
<1>1. Linking /\ Sym \in Symbols
  BY AtRelLinking DEF LinkMisplaced
<1>2. SlotsOK /\ ResOK /\ CountersOK
  BY LInvParts
<1>3. ResOK'
  <2>1. CASE Type = "RELATIVE"
    BY <1>2, <2>1 DEF LinkMisplaced, ResOK, MatchOK
  <2>2. CASE Type # "RELATIVE"
    BY <1>1, <2>2, ResolvingKeeps DEF LinkMisplaced
  <2> QED
    BY <2>1, <2>2
<1>4. CASE r' = r + 1 /\ trapped' = TRUE /\ UNCHANGED <<slot, dlBase, pool, pc, ret>>
  <2>1. SlotsOK'
    BY <1>2, <1>4 DEF SlotsOK, LinkMisplaced
  <2>2. PoolOK'
    BY <1>4, NoAllocKeeps DEF NoAlloc
  <2>3. CountersOK'
    BY <1>4, CountersKept DEF LinkMisplaced
  <2> QED
    BY <1>3, <2>1, <2>2, <2>3, LInvParts, PTL
<1>5. CASE Fail
  BY <1>3, <1>5, FailKeeps DEF LinkMisplaced
<1> QED
  BY <1>4, <1>5 DEF LinkMisplaced

LEMMA OtherStepsKeep ==
    ASSUME LInv, LinkUnsupported \/ NoTables \/ NextFile \/ LinkDone \/ UNCHANGED vars
    PROVE  LInv'
<1>1. SlotsOK /\ ResOK /\ PoolOK /\ CountersOK /\ Len(files) \in Nat
  BY LInvParts, FileTypes DEF CountersOK
<1>2. UNCHANGED <<files, slot, res, dlBase, pool>>
  BY DEF LinkUnsupported, Fail, NoTables, NextFile, LinkDone, vars
<1>3. SlotsOK' /\ ResOK' /\ PoolOK'
  BY <1>1, <1>2 DEF SlotsOK, ResOK, MatchOK, PoolOK, PoolDisjoint
<1>4. CASE LinkUnsupported
  <2>1. CountersOK'
    BY <1>1, <1>4 DEF LinkUnsupported, Fail, CountersOK
  <2>2. QED
    BY <1>3, <2>1, LInvParts, PTL
<1>5. CASE ~LinkUnsupported
  <2>1. CountersOK'
    BY <1>1, <1>2, <1>5 DEF NoTables, NextFile, LinkDone, CountersOK, vars
  <2>2. QED
    BY <1>3, <2>1, LInvParts, PTL
<1>6. QED
  BY <1>4, <1>5

(* The inductive invariant of the link: the counters of the loops stay in range and
   the pool only grows, every allocation below its end. *)
THEOREM LInvAlways == Spec => []LInv
<1>1. Init => LInv
  <2> SUFFICES ASSUME Init PROVE LInv
    OBVIOUS
  <2>1. files \in Lists /\ Len(files) \in Nat
    BY FileTypes DEF Init
  <2>2. SlotsOK
    <3>1. Unset # Null /\ Garbage # Null
      BY DEF Unset, Garbage, Null
    <3>2. \A k \in 1 .. Len(files) : slot[k] = [n \in 1 .. Len(files[k].rels) |->
                 IF files[k].rels[n].type = "FUNCDESC_VALUE" THEN Unset ELSE Garbage]
      BY DEF Init
    <3>3. QED
      BY <3>1, <3>2 DEF Init, SlotsOK
  <2>3. ResOK
    <3>1. res = [ptr |-> Garbage, base |-> 0, file |-> 0, match |-> <<>>]
      BY DEF Init
    <3>2. res.ptr = Garbage /\ res.base = 0 /\ res.file = 0 /\ res.match = <<>>
      BY <3>1
    <3>3. QED
      BY <2>1, <3>1, <3>2 DEF ResOK, MatchOK
  <2>4. PoolOK
    BY SizeAssumption DEF Init, PoolOK, PoolDisjoint
  <2>5. CountersOK
    <3>1. i = 1 /\ r = 1 /\ pc = "link" /\ ret = 0 /\ trapped = FALSE
      BY DEF Init
    <3>2. i \in 1 .. Len(files) + 1 /\ r \in Nat \ {0}
      BY <2>1, <3>1
    <3>3. pc \in {"link", "done"} /\ ret \in {-1, 0} /\ trapped \in BOOLEAN
      BY <3>1, Zenon
    <3>4. ret # -1
      BY <3>1
    <3>5. QED
      BY <2>1, <3>2, <3>3, <3>4 DEF CountersOK
  <2>6. QED
    BY <2>2, <2>3, <2>4, <2>5, LInvParts
<1>2. LInv /\ [Next]_vars => LInv'
  BY RelativeKeeps, Abs32Keeps, GlobDatKeeps, FuncdescKeeps, FuncdescValueKeeps,
     MisplacedKeeps, OtherStepsKeep DEF Next
<1>3. QED
  BY <1>1, <1>2, PTL DEF Spec

(* No two allocations of a link share a byte, and none reaches into the loaded
   files (uld_dyn_write_reso_glob_dat and uld_dyn_write_reso_funcdesc
   advance dl_alloc_base past what they hand out), for every list of files. *)
THEOREM PoolNeverOverlaps == Spec => []LinkInv
<1>1. LInv => LinkInv
  BY DEF LInv, LinkInv
<1>2. QED
  BY <1>1, LInvAlways, PTL

-----------------------------------------------------------------------------
(* Failures *)

(* Every step is taken while the link runs, and only a failing one sets ret. *)
LEMMA StepsRun ==
    ASSUME Next
    PROVE  /\ pc = "link" /\ files' = files
           /\ ret' = ret \/ (ret' = -1 /\ UNCHANGED <<i, r>>)
BY DEF Next, LinkRelative, LinkAbs32, LinkGlobDat, LinkFuncdesc, LinkFuncdescValue, AtRel,
       LinkMisplaced, LinkUnsupported, NoTables, NextFile, LinkDone, Write, Fail

(* A search that finds nothing: no file it could have looked into defines the
   symbol. *)
LEMMA UnresolvedJustified ==
    ASSUME LInv, Linking, ~Resolved
    PROVE  \/ BadType
           \/ \A k \in 1 .. i :
                 (files[k].tables = "all" /\ (Kind[Sym] = "section" => k = i)) => ~Defined(k)
<1>1. NotFoundCase
  BY ResolutionCases, FoundIsResolved
<1>2. SUFFICES ASSUME ~BadType, NEW k \in 1 .. i, files[k].tables = "all",
                      Kind[Sym] = "section" => k = i, Defined(k)
               PROVE  FALSE
  OBVIOUS
<1>3. ~Searched(k)
  BY <1>1, <1>2 DEF NotFoundCase
<1>4. files[k].syms[Sym] # "absent"
  BY <1>2 DEF Defined
<1>5. Type = "FUNCDESC" => Kind[Sym] # "section"
  BY <1>2 DEF BadType, BySection
<1>6. QED
  BY <1>2, <1>3, <1>4, <1>5 DEF Searched

LEMMA FailuresKeep ==
    ASSUME LInv, FailureJustified, [Next]_vars
    PROVE  FailureJustified'
<1>1. CASE UNCHANGED vars
  BY <1>1 DEF vars, FailureJustified, Type, Sym, ThisRel, BadType, BySection, Defined
<1>2. CASE Next
  <2>1. /\ pc = "link" /\ files' = files
        /\ ret' = ret \/ (ret' = -1 /\ UNCHANGED <<i, r>>)
    BY <1>2, StepsRun
  <2>2. CASE ret' = ret
    <3>1. ret # -1
      BY <2>1 DEF LInv, Shape
    <3>2. QED
      BY <2>2, <3>1 DEF FailureJustified
  <2>3. CASE ret' = -1 /\ UNCHANGED <<i, r>>
    <3> DEFINE Justified ==
            \/ files[i].tables = "none"
            \/ Type = "other"
            \/ BadType
            \/ ~ThisRel.placed
            \/ files[i].tables = "nohash" /\ Type = "FUNCDESC"
            \/ \A k \in 1 .. i :
                  (files[k].tables = "all" /\ (Kind[Sym] = "section" => k = i)) => ~Defined(k)
    <3>1. ret # -1
      BY <2>1 DEF LInv, Shape
    <3>2. ASSUME ~Resolved /\ (LinkAbs32 \/ LinkFuncdesc \/ LinkFuncdescValue) PROVE Justified
      <4>1. Linking
        BY <3>2, AtRelLinking DEF LinkAbs32, LinkFuncdesc, LinkFuncdescValue
      <4>2. QED
        BY <3>2, <4>1, UnresolvedJustified
    <3>3. ASSUME LinkUnsupported PROVE Justified
      BY <3>3 DEF LinkUnsupported, AtRel
    <3>4. ASSUME NoTables PROVE Justified
      BY <3>4 DEF NoTables
    <3>7. ASSUME LinkMisplaced PROVE Justified
      BY <3>7 DEF LinkMisplaced
    <3>5. Justified
      <4>1. ~LinkRelative /\ ~LinkGlobDat /\ ~NextFile /\ ~LinkDone
        BY <2>3, <3>1 DEF LinkRelative, LinkGlobDat, NextFile, LinkDone, Write
      <4>2. ~(Resolved /\ (LinkAbs32 \/ LinkFuncdesc \/ LinkFuncdescValue))
        BY <2>3, <3>1 DEF LinkAbs32, LinkFuncdesc, LinkFuncdescValue, Write
      <4>3. QED
        BY <1>2, <3>2, <3>3, <3>4, <3>7, <4>1, <4>2 DEF Next
    <3>6. QED
      BY <2>1, <2>3, <3>5
      DEF FailureJustified, Type, Sym, ThisRel, BadType, BySection, Defined
  <2>4. QED
    BY <2>1, <2>2, <2>3
<1>3. QED
  BY <1>1, <1>2

(* uld_dyn_link_file_list returns -1 only over a relocation that has no right
   answer in the list: never because the backwards search passed over a file
   that defines the symbol. *)
THEOREM FailuresAreJustified == Spec => []FailureJustified
<1>1. Init => FailureJustified
  BY DEF Init, FailureJustified
<1>2. LInv /\ FailureJustified /\ [Next]_vars => FailureJustified'
  BY FailuresKeep
<1>3. QED
  BY <1>1, <1>2, LInvAlways, PTL DEF Spec

-----------------------------------------------------------------------------
(* Invariants over the relocations that have been linked *)
DoneRels == {p \in Rels : Done(p[1], p[2])}

(* What is clean so far, as long as no breakpoint has been reached. *)
CleanRel(p) ==
    /\ RelOf(p).placed
    /\ RelOf(p).type = "GLOB_DAT" => Kind[RelOf(p).sym] = "object"
    /\ (RelOf(p).type # "RELATIVE" /\ Kind[RelOf(p).sym] = "object") => ObjectKnown(p)
CleanInv == (ret = 0 /\ ~trapped) => \A p \in DoneRels : CleanRel(p)
Finished == Linked => i = Len(files) + 1

(* A descriptor for s with a definition of it in one of the files up to lim, and
   a pointer to one: in the pool, or the word of a FUNCDESC_VALUE, which may be
   linked yet or not. *)
IsDesc(d, lim, s) == \E k \in 1 .. lim : d = Desc(k, s) /\ k \in Definers(s)
IsDescPtr(v, lim, s) ==
    \/ \E a \in pool : v = PoolAddr(a.at) /\ a.size > 0 /\ IsDesc(a.val, lim, s)
    \/ \E q \in Rels : /\ v = SlotAddr(q[1], q[2]) /\ q[1] <= lim
                       /\ RelOf(q).type = "FUNCDESC_VALUE" /\ RelOf(q).sym = s
FuncRelOK(p) ==
    /\ RelOf(p).type # "other"
    /\ RelOf(p).type = "FUNCDESC_VALUE" => IsDesc(Value(p), p[1], RelOf(p).sym)
    /\ RelOf(p).type = "FUNCDESC" => IsDescPtr(Value(p), p[1], RelOf(p).sym)
FuncInv == \A p \in DoneRels : FuncRelOK(p)

(* The relocations of a shared object have one value. *)
Shared(s) == Kind[s] = "object" /\ Exported(s)
DataRel(p) == RelOf(p).type # "RELATIVE" /\ Shared(RelOf(p).sym)
DataWord(s, v) ==
    /\ \A k \in Definers(s) : v = SymAddr(k, s)
    /\ Definers(s) = {} => \E a \in pool : /\ v = PoolAddr(a.at)
                                           /\ a.val = [obj |-> s] /\ a.size = ObjSize[s]
DataInv ==
    \A p \in DoneRels : DataRel(p) =>
        /\ RelOf(p).type \in {"GLOB_DAT", "ABS32"}
        /\ DataWord(RelOf(p).sym, Value(p))
        /\ \A q \in DoneRels : (DataRel(q) /\ RelOf(q).sym = RelOf(p).sym) => Value(q) = Value(p)

LEMMA RelsAre ==
    ASSUME files \in Lists
    PROVE  /\ \A p \in Rels : /\ p = <<p[1], p[2]>> /\ p[1] \in 1 .. Len(files)
                              /\ p[2] \in 1 .. Len(files[p[1]].rels)
                              /\ RelOf(p).sym \in Symbols
           /\ \A k \in 1 .. Len(files) : \A n \in 1 .. Len(files[k].rels) : <<k, n>> \in Rels
<1>1. ASSUME NEW p \in Rels
      PROVE  /\ p = <<p[1], p[2]>> /\ p[1] \in 1 .. Len(files)
             /\ p[2] \in 1 .. Len(files[p[1]].rels)
             /\ RelOf(p).sym \in Symbols
  <2>1. PICK k \in 1 .. Len(files) : p \in {k} \X (1 .. Len(files[k].rels))
    BY DEF Rels, RelsOf
  <2>2. p = <<p[1], p[2]>> /\ p[1] = k /\ p[2] \in 1 .. Len(files[k].rels)
    BY <2>1
  <2>3. QED
    BY <2>2, FileTypes DEF RelOf
<1>2. ASSUME NEW k \in 1 .. Len(files), NEW n \in 1 .. Len(files[k].rels)
      PROVE  <<k, n>> \in Rels
  BY DEF Rels, RelsOf
<1>3. QED
  BY <1>1, <1>2

(* A step that writes a word adds its relocation to those that are linked and
   leaves the words of the others alone. *)
LEMMA WrittenRels ==
    ASSUME LInv, Linking, NEW v, Write(v), files' = files, i' = i
    PROVE  /\ <<i, r>> \in Rels /\ <<i, r>> \notin DoneRels
           /\ Rels' = Rels /\ DoneRels' = DoneRels \cup {<<i, r>>}
           /\ \A p \in Rels : p # <<i, r>> => slot'[p[1]][p[2]] = slot[p[1]][p[2]]
           /\ slot'[i][r] = v
<1>1. /\ files \in Lists /\ Len(files) \in Nat /\ i \in 1 .. Len(files) /\ i \in Nat
      /\ Len(files[i].rels) \in Nat /\ r \in 1 .. Len(files[i].rels) /\ r \in Nat
      /\ SlotsOK
  <2>1. files \in Lists /\ SlotsOK
    BY LInvParts DEF CountersOK
  <2>2. QED
    BY <2>1, FileTypes DEF Linking
<1>2. <<i, r>> \in Rels
  BY <1>1, RelsAre
<1>3. Rels' = Rels
  BY DEF Rels, RelsOf
<1>4. <<i, r>> \notin DoneRels
  <2>1. ~Done(i, r)
    BY <1>1 DEF Done
  <2>2. QED
    BY <2>1 DEF DoneRels
<1>5. r' = r + 1 /\ slot' = [slot EXCEPT ![i][r] = v]
  BY DEF Write
<1>6. ASSUME NEW p \in Rels
      PROVE  Done(p[1], p[2])' <=> (Done(p[1], p[2]) \/ p = <<i, r>>)
  <2>1. p = <<p[1], p[2]>> /\ p[1] \in Nat /\ p[2] \in Nat
    <3>1. p = <<p[1], p[2]>> /\ p[1] \in 1 .. Len(files) /\ p[2] \in 1 .. Len(files[p[1]].rels)
      BY <1>1, RelsAre
    <3>2. QED
      BY <1>1, <3>1, FileTypes
  <2>2. p = <<i, r>> <=> (p[1] = i /\ p[2] = r)
    BY <2>1
  <2>3. QED
    BY <1>1, <1>5, <2>1, <2>2 DEF Done
<1>7. DoneRels' = DoneRels \cup {<<i, r>>}
  <2>1. \A p : p \in DoneRels' <=> (p \in Rels /\ Done(p[1], p[2])')
    BY <1>3 DEF DoneRels
  <2>2. \A p : p \in DoneRels <=> (p \in Rels /\ Done(p[1], p[2]))
    BY DEF DoneRels
  <2>3. QED
    BY <1>2, <1>6, <2>1, <2>2
<1>8. \A k \in 1 .. Len(files) : slot'[k] = IF k = i THEN [slot[i] EXCEPT ![r] = v] ELSE slot[k]
  BY <1>1, <1>5 DEF SlotsOK
<1>9. ASSUME NEW p \in Rels, p # <<i, r>>
      PROVE  slot'[p[1]][p[2]] = slot[p[1]][p[2]]
  <2>1. p = <<p[1], p[2]>> /\ p[1] \in 1 .. Len(files) /\ p[2] \in 1 .. Len(files[p[1]].rels)
    BY <1>1, RelsAre
  <2>2. CASE p[1] # i
    BY <1>8, <2>1, <2>2
  <2>3. CASE p[1] = i
    <3>1. p[2] # r
      BY <1>9, <2>1, <2>3
    <3>2. slot'[i] = [slot[i] EXCEPT ![r] = v]
      BY <1>1, <1>8
    <3>3. p[2] \in DOMAIN slot[i]
      BY <1>1, <2>1, <2>3 DEF SlotsOK
    <3>4. QED
      BY <2>3, <3>1, <3>2, <3>3
  <2>4. QED
    BY <2>2, <2>3
<1>10. slot'[i][r] = v
  <2>1. r \in DOMAIN slot[i]
    BY <1>1 DEF SlotsOK
  <2>2. slot'[i] = [slot[i] EXCEPT ![r] = v]
    BY <1>1, <1>8
  <2>3. QED
    BY <2>1, <2>2
<1>11. QED
  BY <1>2, <1>3, <1>4, <1>7, <1>9, <1>10

(* Any other step changes neither the words nor what is linked. *)
LEMMA IdleRels ==
    ASSUME LInv, files' = files, slot' = slot, UNCHANGED <<i, r>> \/ NextFile
    PROVE  Rels' = Rels /\ DoneRels' = DoneRels
<1>1. Rels' = Rels
  BY DEF Rels, RelsOf
<1>2. CASE UNCHANGED <<i, r>>
  BY <1>1, <1>2 DEF DoneRels, Done
<1>3. CASE NextFile
  <2>1. /\ files \in Lists /\ Len(files) \in Nat /\ i \in 1 .. Len(files) /\ i \in Nat
        /\ Len(files[i].rels) \in Nat /\ r \in Nat
        /\ r > Len(files[i].rels) /\ i' = i + 1 /\ r' = 1
    <3>1. files \in Lists /\ i \in 1 .. Len(files) + 1 /\ r \in Nat
      BY LInvParts DEF CountersOK
    <3>2. Len(files) \in Nat
      BY <3>1, FileTypes
    <3>3. i \in 1 .. Len(files) /\ i \in Nat
      BY <1>3, <3>1, <3>2 DEF NextFile
    <3>4. QED
      BY <1>3, <3>1, <3>2, <3>3, FileTypes DEF NextFile
  <2>2. ASSUME NEW p \in Rels
        PROVE  Done(p[1], p[2])' <=> Done(p[1], p[2])
    <3>1. p[1] \in 1 .. Len(files) /\ p[2] \in 1 .. Len(files[p[1]].rels)
      BY <2>1, RelsAre
    <3>2. p[1] \in Nat /\ p[2] \in Nat /\ p[2] >= 1 /\ (p[1] = i => p[2] <= Len(files[i].rels))
      BY <2>1, <3>1, FileTypes
    <3>3. QED
      BY <2>1, <3>2 DEF Done
  <2>3. QED
    BY <1>1, <2>2 DEF DoneRels
<1>4. QED
  BY <1>2, <1>3

(* The three kinds of step. *)
LEMMA StepKinds ==
    ASSUME LInv, [Next]_vars
    PROVE  /\ files' = files
           /\ \/ /\ slot' = slot /\ pool' = pool /\ (UNCHANGED <<i, r>> \/ NextFile)
                 /\ ret' = -1 \/ UNCHANGED <<trapped, ret>>
              \/ /\ LinkRelative \/ LinkAbs32 \/ LinkGlobDat \/ LinkFuncdesc \/ LinkFuncdescValue
                 /\ Linking /\ i' = i /\ UNCHANGED ret /\ \E v : Write(v)
              \/ Linking /\ ~ThisRel.placed /\ UNCHANGED ret /\ trapped'
<1>1. CASE UNCHANGED vars
  BY <1>1 DEF vars
<1>9. CASE LinkMisplaced
  <2>1. Linking
    BY <1>9, AtRelLinking DEF LinkMisplaced
  <2>2. QED
    BY <1>9, <2>1 DEF LinkMisplaced, Fail
<1>2. CASE LinkUnsupported \/ NoTables \/ NextFile \/ LinkDone
  BY <1>2 DEF LinkUnsupported, NoTables, NextFile, LinkDone, Fail
<1>3. CASE LinkRelative
  BY <1>3, AtRelLinking DEF LinkRelative, Write
<1>4. CASE LinkAbs32
  <2>1. Linking
    BY <1>4, AtRelLinking DEF LinkAbs32
  <2>2. QED
    BY <1>4, <2>1 DEF LinkAbs32, Write, Fail
<1>5. CASE LinkGlobDat
  <2>1. Linking
    BY <1>5, AtRelLinking DEF LinkGlobDat
  <2>2. QED
    BY <1>5, <2>1 DEF LinkGlobDat, Write
<1>6. CASE LinkFuncdesc
  <2>1. Linking
    BY <1>6, AtRelLinking DEF LinkFuncdesc
  <2>2. QED
    BY <1>6, <2>1 DEF LinkFuncdesc, Write, Fail
<1>7. CASE LinkFuncdescValue
  <2>1. Linking
    BY <1>7, AtRelLinking DEF LinkFuncdescValue
  <2>2. QED
    BY <1>7, <2>1 DEF LinkFuncdescValue, Write, Fail
<1>8. QED
  BY <1>1, <1>2, <1>3, <1>4, <1>5, <1>6, <1>7, <1>9 DEF Next

LEMMA PlacedHere ==
    ASSUME LInv, Linking, WordsPlaced(files)
    PROVE  ThisRel.placed
<1>1. files \in Lists
  BY LInvParts DEF CountersOK
<1>2. i \in 1 .. Len(files) /\ r \in 1 .. Len(files[i].rels)
  BY DEF Linking
<1>3. <<i, r>> \in RelsOf(files)
  BY <1>1, <1>2, RelsAre DEF Rels
<1>4. QED
  BY <1>3 DEF WordsPlaced, ThisRel

-----------------------------------------------------------------------------
(* The end of a link, and breakpoints *)

LEMMA FinishedKeeps ==
    ASSUME LInv, Finished, [Next]_vars
    PROVE  Finished'
<1>1. Len(files) \in Nat /\ i \in 1 .. Len(files) + 1 /\ (ret = -1 => pc = "done")
  BY LInvParts, FileTypes DEF CountersOK
<1>2. CASE LinkDone
  BY <1>1, <1>2 DEF LinkDone, Finished, Linked
<1>3. CASE UNCHANGED vars
  BY <1>3 DEF vars, Finished, Linked
<1>4. CASE Next /\ ~LinkDone
  <2>1. pc' # "done" \/ ret' = -1
    BY <1>4, <1>1 DEF Next, LinkRelative, LinkAbs32, LinkGlobDat, LinkFuncdesc,
       LinkFuncdescValue, AtRel, LinkMisplaced, LinkUnsupported, NoTables, NextFile, Write, Fail
  <2>2. QED
    BY <2>1 DEF Finished, Linked
<1>5. QED
  BY <1>2, <1>3, <1>4

(* A link that succeeds has linked every relocation. *)
LEMMA LinkedIsDone ==
    ASSUME LInv, Finished, Linked
    PROVE  DoneRels = Rels
<1>1. files \in Lists /\ Len(files) \in Nat /\ i = Len(files) + 1
  BY LInvParts, FileTypes DEF CountersOK, Finished
<1>2. ASSUME NEW p \in Rels
      PROVE  Done(p[1], p[2])
  <2>1. p[1] \in 1 .. Len(files)
    BY <1>1, RelsAre
  <2>2. QED
    BY <1>1, <2>1 DEF Done
<1>3. QED
  BY <1>2 DEF DoneRels

(* At the start nothing is linked. *)
LEMMA NothingDone ==
    ASSUME Init
    PROVE  DoneRels = {}
<1>1. files \in Lists /\ i = 1 /\ r = 1
  BY DEF Init
<1>2. ASSUME NEW p \in DoneRels PROVE FALSE
  <2>1. p[1] \in 1 .. Len(files) /\ p[2] \in 1 .. Len(files[p[1]].rels) /\ Len(files) \in Nat
    BY <1>1, RelsAre, FileTypes DEF DoneRels
  <2>2. Len(files[p[1]].rels) \in Nat
    BY <1>1, <2>1, FileTypes
  <2>3. Done(p[1], p[2])
    BY DEF DoneRels
  <2>4. QED
    BY <1>1, <2>1, <2>2, <2>3 DEF Done
<1>3. QED
  BY <1>2

(* What a relocation takes its value from has been linked; only a FUNCDESC may
   point to a FUNCDESC_VALUE of its file that has not. *)
LEMMA ProviderDone ==
    ASSUME LInv, Linking, NEW k \in 1 .. i, NEW n \in Providers(k)
    PROVE  /\ n \in 1 .. Len(files[k].rels) /\ <<k, n>> \in Rels
           /\ RelOf(<<k, n>>) = files[k].rels[n]
           /\ files[k].rels[n].sym = Sym /\ files[k].rels[n].type # "RELATIVE"
           /\ (k # i \/ Type # "FUNCDESC") => <<k, n>> \in DoneRels
           /\ (k = i /\ Type = "FUNCDESC") => files[k].rels[n].type = "FUNCDESC_VALUE"
           /\ (k = i /\ Type = "FUNCDESC_VALUE") => files[k].rels[n].type # "FUNCDESC"
<1>1. /\ n \in 1 .. Len(files[k].rels)
      /\ files[k].rels[n].sym = Sym /\ files[k].rels[n].type # "RELATIVE"
      /\ k = i => /\ Type = "FUNCDESC" => files[k].rels[n].type = "FUNCDESC_VALUE"
                  /\ Type = "FUNCDESC_VALUE" => files[k].rels[n].type # "FUNCDESC"
                  /\ Type # "FUNCDESC" => n < r
  BY DEF Providers
<1>2. i \in Nat /\ k \in 1 .. Len(files) /\ files \in Lists
  BY SearchSets, LInvParts DEF CountersOK
<1>3. <<k, n>> \in Rels
  BY <1>1, <1>2, RelsAre
<1>4. (k # i \/ Type # "FUNCDESC") => Done(k, n)
  BY <1>1, <1>2 DEF Done
<1>5. QED
  BY <1>1, <1>3, <1>4 DEF DoneRels, RelOf

(* A file before this one that the search has looked into knows of the symbol. *)
LEMMA SearchedKnows ==
    ASSUME LInv, Linking, Type # "FUNCDESC", NEW k \in 1 .. i, Searched(k), k # i \/ Defined(k)
    PROVE  ObjectKnown(<<i, r>>)
<1>1. i \in Nat /\ <<i, r>>[1] = i /\ RelOf(<<i, r>>).sym = Sym
  BY SearchSets DEF RelOf, Sym, ThisRel
<1>2. CASE k = i
  BY <1>1, <1>2 DEF ObjectKnown, Defined
<1>3. CASE k # i
  <2>1. k \in 1 .. i - 1 /\ files[k].tables = "all" /\ files[k].syms[Sym] # "absent"
    BY <1>1, <1>3 DEF Searched
  <2> QED
    BY <1>1, <2>1 DEF ObjectKnown
<1> QED
  BY <1>2, <1>3

(* An object that the search resolves, or sees in another file, is known; where
   an earlier relocation of the file resolves it, that one has been clean. *)
LEMMA ObjectIsKnown ==
    ASSUME LInv, CleanInv, Linking, ret = 0, ~trapped, Type \in {"GLOB_DAT", "ABS32"},
           ~BadType, Kind[Sym] = "object", Resolved \/ (Type = "GLOB_DAT" /\ ~OnlyReferrer)
    PROVE  ObjectKnown(<<i, r>>)
<1>0. ~BySection /\ i \in Nat /\ i \in 1 .. i
  BY SearchSets DEF BySection
<1>1. ASSUME NEW k \in 1 .. i, SymCase(k) PROVE ObjectKnown(<<i, r>>)
  BY <1>0, <1>1, SearchedKnows DEF SymCase
<1>2. ASSUME NEW k \in 1 .. i, RelCase(k) PROVE ObjectKnown(<<i, r>>)
  <2>1. CASE k # i
    BY <1>2, <2>1, SearchedKnows DEF RelCase
  <2>2. CASE k = i
    <3>1. PICK n : n \in Providers(i)
      BY <1>2, <2>2 DEF RelCase
    <3>2. /\ <<i, n>> \in DoneRels /\ RelOf(<<i, n>>) = files[i].rels[n]
          /\ files[i].rels[n].sym = Sym /\ files[i].rels[n].type # "RELATIVE"
      BY <1>0, <3>1, ProviderDone
    <3>3. ObjectKnown(<<i, n>>)
      BY <3>2 DEF CleanInv, CleanRel
    <3>4. RelOf(<<i, r>>).sym = RelOf(<<i, n>>).sym /\ <<i, r>>[1] = i /\ <<i, n>>[1] = i
      BY <3>2 DEF RelOf, Sym, ThisRel
    <3> QED
      BY <3>3, <3>4 DEF ObjectKnown
  <2> QED
    BY <2>1, <2>2
<1>3. ASSUME NotFoundCase PROVE ObjectKnown(<<i, r>>)
  <2>1. Type = "GLOB_DAT" /\ ~OnlyReferrer
    BY <1>3 DEF NotFoundCase, Resolved
  <2>2. Resolution = [Failed EXCEPT !.file = Lowest(Seen), !.match = MatchDownTo(1)]
    BY <1>3, <2>1 DEF NotFoundCase
  <2>3. Resolution.file = Lowest(Seen)
    BY <2>2 DEF Failed, LInv, Shape
  <2>4. Seen \subseteq Nat /\ Seen \subseteq 1 .. i /\ i \in Seen
    BY <2>1, SearchSets
  <2>5. Lowest(Seen) \in Seen
    BY <2>4, LowestIs
  <2>6. Lowest(Seen) # i /\ Lowest(Seen) \in 1 .. i /\ Searched(Lowest(Seen))
    BY <2>1, <2>3, <2>4, <2>5 DEF OnlyReferrer, Seen
  <2> QED
    BY <2>1, <2>6, SearchedKnows
<1> QED
  BY <1>1, <1>2, <1>3, ResolutionCases

LEMMA BadIsUnresolved ==
    ASSUME LInv, Linking, BadType
    PROVE  ~Resolved
BY ResolutionCases DEF NotFoundCase, SymCase, RelCase, Resolved

(* A relocation that is written without a breakpoint is clean. *)
LEMMA CleanStep ==
    ASSUME LInv, CleanInv, Linking, ret = 0, ret' = 0, ~trapped, ~trapped',
           LinkRelative \/ LinkAbs32 \/ LinkGlobDat \/ LinkFuncdesc \/ LinkFuncdescValue
    PROVE  CleanRel(<<i, r>>)
<1>1. RelOf(<<i, r>>) = ThisRel
  BY DEF RelOf, ThisRel
<1>2. ThisRel.placed
  BY DEF LinkRelative, LinkAbs32, LinkGlobDat, LinkFuncdesc, LinkFuncdescValue
<1>3. CASE LinkRelative
  BY <1>1, <1>2, <1>3 DEF LinkRelative, AtRel, CleanRel, Type
<1>4. CASE LinkFuncdesc \/ LinkFuncdescValue
  <2>1. Type \in {"FUNCDESC", "FUNCDESC_VALUE"} /\ Resolved
    BY <1>4 DEF LinkFuncdesc, LinkFuncdescValue, AtRel, Fail
  <2>2. Kind[Sym] # "object"
    BY <2>1, BadIsUnresolved DEF BadType, BySection
  <2> QED
    BY <1>1, <1>2, <2>1, <2>2 DEF CleanRel, Type, Sym
<1>5. CASE LinkAbs32
  <2>1. Type = "ABS32" /\ Resolved
    BY <1>5 DEF LinkAbs32, AtRel, Fail
  <2>2. Kind[Sym] = "object" => ObjectKnown(<<i, r>>)
    BY <2>1, ObjectIsKnown, BadIsUnresolved
  <2> QED
    BY <1>1, <1>2, <2>1, <2>2 DEF CleanRel, Type, Sym
<1>6. CASE LinkGlobDat
  <2>1. Type = "GLOB_DAT"
    BY <1>6 DEF LinkGlobDat, AtRel
  <2>2. ~BadType /\ (Resolved \/ ~OnlyReferrer)
    <3>1. CASE Resolved
      BY <3>1, BadIsUnresolved
    <3>2. CASE ~Resolved
      BY <1>6, <3>2 DEF LinkGlobDat
    <3> QED
      BY <3>1, <3>2
  <2>3. Kind[Sym] = "object"
    BY <2>1, <2>2 DEF BadType
  <2>4. ObjectKnown(<<i, r>>)
    BY <2>1, <2>2, <2>3, ObjectIsKnown
  <2> QED
    BY <1>1, <1>2, <2>1, <2>3, <2>4 DEF CleanRel, Type, Sym
<1> QED
  BY <1>3, <1>4, <1>5, <1>6

LEMMA CleanKeeps ==
    ASSUME LInv, CleanInv, [Next]_vars
    PROVE  CleanInv'
<1>0. files' = files /\ \A p : CleanRel(p)' <=> CleanRel(p)
  <2>1. files' = files
    BY StepKinds
  <2>2. \A p : RelOf(p)' = RelOf(p) /\ (ObjectKnown(p)' <=> ObjectKnown(p))
    BY <2>1 DEF RelOf, ObjectKnown
  <2> QED
    BY <2>1, <2>2 DEF CleanRel
<1>1. CASE /\ slot' = slot /\ pool' = pool /\ (UNCHANGED <<i, r>> \/ NextFile)
           /\ ret' = -1 \/ UNCHANGED <<trapped, ret>>
  <2>1. DoneRels' = DoneRels
    BY <1>0, <1>1, IdleRels
  <2> QED
    BY <1>0, <1>1, <2>1 DEF CleanInv
<1>2. CASE /\ LinkRelative \/ LinkAbs32 \/ LinkGlobDat \/ LinkFuncdesc \/ LinkFuncdescValue
           /\ Linking /\ i' = i /\ UNCHANGED ret /\ \E v : Write(v)
  <2> SUFFICES ASSUME ret = 0, ~trapped' PROVE \A p \in DoneRels' : CleanRel(p)
    BY <1>0, <1>2 DEF CleanInv
  <2>1. DoneRels' = DoneRels \cup {<<i, r>>}
    BY <1>0, <1>2, WrittenRels
  <2>2. ~trapped
    BY <1>2 DEF LinkRelative, LinkAbs32, LinkGlobDat, LinkFuncdesc, LinkFuncdescValue, Fail
  <2>3. CleanRel(<<i, r>>)
    BY <1>2, <2>2, CleanStep
  <2> QED
    BY <2>1, <2>2, <2>3 DEF CleanInv
<1>3. CASE trapped'
  BY <1>3 DEF CleanInv
<1> QED
  BY <1>1, <1>2, <1>3, StepKinds

LEMMA FilesStay ==
    ASSUME LInv, [Next]_vars
    PROVE  files' = files
BY StepKinds

(* A link that has returned 0 has been through every relocation of every file. *)
THEOREM FinishedAlways == Spec => []Finished
<1>1. Init => Finished
  BY DEF Init, Finished, Linked
<1>2. LInv /\ Finished /\ [Next]_vars => Finished'
  BY FinishedKeeps
<1>3. QED
  BY <1>1, <1>2, LInvAlways, PTL DEF Spec

(* Breakpoints miss nothing: a link that returns 0 and has stopped nowhere has
   written every word, and each GLOB_DAT of it is of an object that has space
   in the file or is known to an earlier one.  uld_dyn_link_file_list overwrites
   the -1 of the type test and drops that of three writers, so the return value
   alone does not say so. *)
THEOREM SilentLinksAreClean == Spec => []CleanLink
<1>1. Init => CleanInv
  BY NothingDone DEF CleanInv
<1>2. LInv /\ CleanInv /\ [Next]_vars => CleanInv'
  BY CleanKeeps
<1>3. LInv /\ Finished /\ CleanInv => CleanLink
  <2> SUFFICES ASSUME LInv, Finished, CleanInv, Linked, ~trapped, NEW p \in Rels
               PROVE  /\ RelOf(p).placed
                      /\ RelOf(p).type = "GLOB_DAT" =>
                           Kind[RelOf(p).sym] = "object" /\ ObjectKnown(p)
    BY DEF CleanLink
  <2>1. CleanRel(p)
    BY LinkedIsDone DEF CleanInv, Linked
  <2> QED
    BY <2>1 DEF CleanRel
<1> QED
  BY <1>1, <1>2, <1>3, LInvAlways, FinishedAlways, PTL DEF Spec

-----------------------------------------------------------------------------
(* Functions *)

(* Blocks that hold anything begin at different addresses. *)
LEMMA DescInPool ==
    ASSUME LInv, NEW a \in pool, a.size > 0
    PROVE  Deref(PoolAddr(a.at)) = a.val
<1>1. \A c \in pool : c.at \in Nat /\ c.size \in Nat
  BY LInvParts DEF PoolOK
<1>2. \A c \in pool : (c.at = a.at /\ c.size > 0) => c = a
  <2> SUFFICES ASSUME NEW c \in pool, c.at = a.at, c.size > 0, c # a PROVE FALSE
    OBVIOUS
  <2>1. c.at + c.size <= a.at \/ a.at + a.size <= c.at
    BY DEF LInv, PoolDisjoint
  <2>2. QED
    BY <1>1, <2>1
<1>3. (CHOOSE c \in pool : c.at = a.at /\ c.size > 0) = a
  BY <1>2
<1>4. PoolAddr(a.at).to = "pool" /\ PoolAddr(a.at).at = a.at
  BY DEF PoolAddr
<1>5. QED
  BY <1>3, <1>4 DEF Deref

LEMMA DescInSlot ==
    ASSUME NEW k, NEW n
    PROVE  Deref(SlotAddr(k, n)) = slot[k][n]
BY DEF Deref, SlotAddr

LEMMA DescWeaken ==
    ASSUME NEW d, NEW lo \in Nat, NEW hi \in Nat, lo <= hi, NEW s, IsDesc(d, lo, s)
    PROVE  IsDesc(d, hi, s)
BY DEF IsDesc

(* A pointer to a descriptor leads to one once the words it can point to are
   linked. *)
LEMMA PtrLeadsToDesc ==
    ASSUME LInv, FuncInv, NEW lim \in Nat, NEW v, NEW s, IsDescPtr(v, lim, s),
           \A q \in Rels : q[1] <= lim => q \in DoneRels
    PROVE  IsDesc(Deref(v), lim, s)
<1>0. files \in Lists /\ Len(files) \in Nat
  BY LInvParts, FileTypes DEF CountersOK
<1>1. ASSUME NEW a \in pool, v = PoolAddr(a.at), a.size > 0, IsDesc(a.val, lim, s)
      PROVE  IsDesc(Deref(v), lim, s)
  BY <1>1, DescInPool
<1>2. ASSUME NEW q \in Rels, v = SlotAddr(q[1], q[2]), q[1] <= lim,
             RelOf(q).type = "FUNCDESC_VALUE", RelOf(q).sym = s
      PROVE  IsDesc(Deref(v), lim, s)
  <2>1. q \in DoneRels
    BY <1>2
  <2>2. IsDesc(Value(q), q[1], s)
    BY <1>2, <2>1 DEF FuncInv, FuncRelOK
  <2>3. Deref(v) = Value(q)
    BY <1>2, DescInSlot DEF Value
  <2>4. q[1] \in Nat
    BY <1>0, RelsAre
  <2>5. QED
    BY <1>2, <2>2, <2>3, <2>4, DescWeaken
<1>3. QED
  BY <1>1, <1>2 DEF IsDescPtr

(* The provider of a descriptor is itself a descriptor or a pointer to one. *)
LEMMA ProviderType ==
    ASSUME LInv, Linking, CalledByDescriptor(files), FuncInv,
           Type \in {"FUNCDESC", "FUNCDESC_VALUE"}, NEW k \in 1 .. i, RelCase(k),
           NEW n \in Providers(k)
    PROVE  files[k].rels[n].type \in {"FUNCDESC", "FUNCDESC_VALUE"}
<1>0. /\ <<k, n>> \in Rels /\ files[k].rels[n].sym = Sym /\ files[k].rels[n].type # "RELATIVE"
      /\ RelOf(<<k, n>>) = files[k].rels[n] /\ n \in 1 .. Len(files[k].rels)
  BY ProviderDone
<1>1. k \in 1 .. Len(files) /\ files \in Lists
  BY SearchSets, LInvParts DEF CountersOK
<1>2. files[k].rels[n].type \in RelTypes
  BY <1>0, <1>1, FileTypes
<1>3. Kind[Sym] = "func"
  BY DEF RelCase, BadType, BySection
<1>4. files[k].rels[n].type \notin {"ABS32", "GLOB_DAT"}
  <2>1. \A q \in Rels : RelOf(q).sym = Sym => RelOf(q).type \notin {"ABS32", "GLOB_DAT"}
    BY <1>3 DEF CalledByDescriptor, Linking, Type, Sym, ThisRel, Rels, RelOf
  <2>2. QED
    BY <1>0, <2>1
<1>5. files[k].rels[n].type # "other"
  <2>1. CASE k # i \/ Type # "FUNCDESC"
    BY <1>0, <2>1, ProviderDone DEF FuncInv, FuncRelOK
  <2>2. CASE k = i /\ Type = "FUNCDESC"
    BY <2>2, ProviderDone
  <2>3. QED
    BY <2>1, <2>2
<1>6. QED
  BY <1>0, <1>2, <1>4, <1>5 DEF RelTypes

(* A resolution with a symbol has the base of the file that defines it. *)
LEMMA SymbolHasBase ==
    ASSUME LInv, Linking, DefinersInMemory(files), CalledByDescriptor(files), Sym \in Symbols,
           Type \in {"FUNCDESC", "FUNCDESC_VALUE"}, NEW k \in 1 .. i, SymCase(k)
    PROVE  Resolution.base = k /\ k # 0 /\ k \in Definers(Sym)
<1>1. i \in Nat /\ k \in 1 .. Len(files)
  BY SearchSets
<1>2. files[k].syms[Sym] = "def"
  <2>1. CASE Defined(k)
    BY <2>1 DEF Defined
  <2>2. CASE BySection /\ k = i
    BY <2>2 DEF SymCase, BadType, Defined
  <2>3. QED
    BY <2>1, <2>2 DEF SymCase
<1>3. files[k].inMem
  BY <1>1, <1>2 DEF DefinersInMemory
<1>4. Resolution.base = k
  BY <1>3, FoundIsResolved DEF Base
<1>5. QED
  BY <1>1, <1>2, <1>4 DEF Definers

LEMMA ValueLinked ==
    ASSUME LInv, FuncInv, DefinersInMemory(files), CalledByDescriptor(files),
           LinkFuncdescValue, ret' = 0
    PROVE  \E v : Write(v) /\ IsDesc(v, i, Sym)
<1>0. /\ Linking /\ Sym \in Symbols /\ Type = "FUNCDESC_VALUE" /\ i \in Nat
      /\ Len(files) \in Nat /\ files \in Lists
  BY AtRelLinking, LInvParts DEF LinkFuncdescValue, CountersOK
<1>1. Resolved
  BY DEF LinkFuncdescValue, Fail
<1>2. ~NotFoundCase
  BY <1>1 DEF NotFoundCase, Resolved
<1>3. ASSUME NEW k \in 1 .. i, SymCase(k)
      PROVE  \E v : Write(v) /\ IsDesc(v, i, Sym)
  <2>1. Resolution.base = k /\ k # 0 /\ k \in Definers(Sym)
    BY <1>0, <1>3, SymbolHasBase
  <2>2. Write(Desc(k, Sym))
    BY <1>1, <2>1 DEF LinkFuncdescValue, DescValue
  <2>3. QED
    BY <2>1, <2>2 DEF IsDesc
<1>4. ASSUME NEW k \in 1 .. i, RelCase(k)
      PROVE  \E v : Write(v) /\ IsDesc(v, i, Sym)
  <2>1. PICK n \in Providers(k) :
           /\ Resolution.base = 0
           /\ Resolution.ptr = IF files[k].rels[n].type = "FUNCDESC_VALUE"
                               THEN SlotAddr(k, n) ELSE slot[k][n]
    BY <1>0, <1>4, FoundIsResolved
  <2>2. /\ <<k, n>> \in DoneRels /\ RelOf(<<k, n>>) = files[k].rels[n]
        /\ files[k].rels[n].sym = Sym
        /\ k = i => files[k].rels[n].type # "FUNCDESC"
    BY <1>0, ProviderDone
  <2>3. files[k].rels[n].type \in {"FUNCDESC", "FUNCDESC_VALUE"}
    BY <1>0, <1>4, ProviderType
  <2>4. Write(Deref(Resolution.ptr))
    BY <1>1, <2>1 DEF LinkFuncdescValue
  <2>5. FuncRelOK(<<k, n>>) /\ Value(<<k, n>>) = slot[k][n]
    BY <2>2 DEF FuncInv, Value
  <2>6. k \in Nat /\ k <= i
    BY <1>0
  <2>7. IsDesc(Deref(Resolution.ptr), k, Sym)
    <3>1. CASE files[k].rels[n].type = "FUNCDESC_VALUE"
      BY <2>1, <2>2, <2>5, <3>1, DescInSlot DEF FuncRelOK
    <3>2. CASE files[k].rels[n].type = "FUNCDESC"
      <4>1. IsDescPtr(slot[k][n], k, Sym) /\ k < i
        BY <1>0, <2>2, <2>5, <2>6, <3>2 DEF FuncRelOK
      <4>2. \A q \in Rels : q[1] <= k => q \in DoneRels
        BY <1>0, <2>6, <4>1, RelsAre DEF DoneRels, Done
      <4>3. Resolution.ptr = slot[k][n]
        BY <2>1, <3>2
      <4>4. QED
        BY <2>6, <4>1, <4>2, <4>3, PtrLeadsToDesc
    <3>3. QED
      BY <2>3, <3>1, <3>2
  <2>8. IsDesc(Deref(Resolution.ptr), i, Sym)
    BY <1>0, <2>6, <2>7, DescWeaken
  <2>9. QED
    BY <2>4, <2>8
<1>5. QED
  BY <1>0, <1>2, <1>3, <1>4, ResolutionCases

LEMMA PoolGrows ==
    ASSUME LInv, [Next]_vars
    PROVE  pool \subseteq pool'
BY DEF Next, LinkRelative, LinkAbs32, LinkGlobDat, LinkFuncdesc, LinkFuncdescValue,
       LinkMisplaced, LinkUnsupported, NoTables, NextFile, LinkDone, NoAlloc, Alloc, Fail, vars

LEMMA DescStays ==
    ASSUME files' = files, pool \subseteq pool', NEW v, NEW lim, NEW s
    PROVE  /\ IsDesc(v, lim, s) => IsDesc(v, lim, s)'
           /\ IsDescPtr(v, lim, s) => IsDescPtr(v, lim, s)'
<1>1. \A d : IsDesc(d, lim, s) => IsDesc(d, lim, s)'
  BY DEF IsDesc, Definers
<1>2. ASSUME NEW a \in pool, v = PoolAddr(a.at), a.size > 0, IsDesc(a.val, lim, s)
      PROVE  IsDescPtr(v, lim, s)'
  BY <1>1, <1>2 DEF IsDescPtr
<1>3. ASSUME NEW q \in Rels, v = SlotAddr(q[1], q[2]), q[1] <= lim,
             RelOf(q).type = "FUNCDESC_VALUE", RelOf(q).sym = s
      PROVE  IsDescPtr(v, lim, s)'
  <2>1. q \in Rels' /\ RelOf(q)' = RelOf(q)
    BY DEF Rels, RelOf, RelsOf
  <2>2. QED
    BY <1>3, <2>1 DEF IsDescPtr
<1>4. QED
  BY <1>1, <1>2, <1>3 DEF IsDescPtr

LEMMA DescriptorLinked ==
    ASSUME LInv, FuncInv, DefinersInMemory(files), CalledByDescriptor(files),
           LinkFuncdesc, ret' = 0, NEW s, s = Sym, NEW lim, lim = i
    PROVE  \E v : Write(v) /\ IsDescPtr(v, lim, s)'
<1>0. /\ Linking /\ Sym \in Symbols /\ Type = "FUNCDESC" /\ i \in Nat
      /\ Len(files) \in Nat /\ files \in Lists /\ files' = files /\ i' = i /\ pool \subseteq pool'
  BY AtRelLinking, LInvParts, PoolGrows DEF LinkFuncdesc, CountersOK, Next
<1>1. Resolved
  BY DEF LinkFuncdesc, Fail
<1>2. ~NotFoundCase
  BY <1>1 DEF NotFoundCase, Resolved
<1>3. ASSUME NEW k \in 1 .. i, SymCase(k)
      PROVE  \E v : Write(v) /\ IsDescPtr(v, lim, s)'
  <2>1. Resolution.base = k /\ k # 0 /\ k \in Definers(Sym)
    BY <1>0, <1>3, SymbolHasBase
  <2>2. Write(PoolAddr(dlBase)) /\ Alloc(8, Desc(k, Sym))
    BY <1>1, <2>1 DEF LinkFuncdesc
  <2>3. PICK b \in pool' : b.at = dlBase /\ b.size > 0 /\ b.val = Desc(k, Sym)
    <3>1. [at |-> dlBase, size |-> 8, val |-> Desc(k, Sym)] \in pool'
      BY <2>2 DEF Alloc
    <3>2. QED
      BY <3>1
  <2>4. IsDesc(b.val, lim, s)'
    BY <1>0, <2>1, <2>3 DEF IsDesc, Definers
  <2>5. IsDescPtr(PoolAddr(b.at), lim, s)'
    BY <2>3, <2>4 DEF IsDescPtr
  <2>6. Write(PoolAddr(b.at))
    BY <2>2, <2>3
  <2>7. QED
    BY <2>5, <2>6
<1>4. ASSUME NEW k \in 1 .. i, RelCase(k)
      PROVE  \E v : Write(v) /\ IsDescPtr(v, lim, s)'
  <2>1. PICK n \in Providers(k) :
           /\ Resolution.base = 0
           /\ Resolution.ptr = IF files[k].rels[n].type = "FUNCDESC_VALUE"
                               THEN SlotAddr(k, n) ELSE slot[k][n]
    BY <1>0, <1>4, FoundIsResolved
  <2>2. /\ <<k, n>> \in Rels /\ RelOf(<<k, n>>) = files[k].rels[n]
        /\ files[k].rels[n].sym = Sym
        /\ k # i => <<k, n>> \in DoneRels
        /\ k = i => files[k].rels[n].type = "FUNCDESC_VALUE"
    BY <1>0, ProviderDone
  <2>3. files[k].rels[n].type \in {"FUNCDESC", "FUNCDESC_VALUE"}
    BY <1>0, <1>4, ProviderType
  <2>4. Write(Resolution.ptr)
    BY <1>1, <2>1 DEF LinkFuncdesc
  <2>5. k \in Nat /\ k <= i
    BY <1>0
  <2>6. IsDescPtr(Resolution.ptr, i, Sym)
    <3>1. CASE files[k].rels[n].type = "FUNCDESC_VALUE"
      BY <2>1, <2>2, <2>5, <3>1 DEF IsDescPtr
    <3>2. CASE files[k].rels[n].type = "FUNCDESC"
      <4>1. IsDescPtr(slot[k][n], k, Sym)
        BY <2>2, <3>2 DEF FuncInv, FuncRelOK, Value
      <4>2. IsDescPtr(slot[k][n], i, Sym)
        BY <1>0, <2>5, <4>1, DescWeaken, RelsAre DEF IsDescPtr
      <4>3. QED
        BY <2>1, <3>2, <4>2
    <3>3. QED
      BY <2>3, <3>1, <3>2
  <2>7. PICK v : v = Resolution.ptr
    OBVIOUS
  <2>8. IsDescPtr(v, lim, s)'
    BY <1>0, <2>6, <2>7, DescStays
  <2>9. QED
    BY <2>4, <2>7, <2>8
<1>5. QED
  BY <1>0, <1>2, <1>3, <1>4, ResolutionCases

LEMMA FuncsKeep ==
    ASSUME LInv, DefinersInMemory(files), WordsPlaced(files), CalledByDescriptor(files), FuncInv,
           [Next]_vars
    PROVE  FuncInv'
<1>0. files' = files /\ pool \subseteq pool' /\ \A p : RelOf(p)' = RelOf(p)
  BY StepKinds, PoolGrows DEF RelOf
<1>1. ASSUME NEW p \in DoneRels, Value(p)' = Value(p)
      PROVE  FuncRelOK(p)'
  <2>1. FuncRelOK(p)
    BY DEF FuncInv
  <2>2. PICK v, lim, s : v = Value(p) /\ lim = p[1] /\ s = RelOf(p).sym
    OBVIOUS
  <2>3. /\ IsDesc(v, lim, s) => IsDesc(v, lim, s)'
        /\ IsDescPtr(v, lim, s) => IsDescPtr(v, lim, s)'
    BY <1>0, DescStays
  <2>4. v = Value(p)' /\ s = RelOf(p).sym' /\ RelOf(p).type' = RelOf(p).type
    BY <1>0, <1>1, <2>2
  <2>5. QED
    BY <2>1, <2>2, <2>3, <2>4 DEF FuncRelOK
<1>2. CASE slot' = slot /\ (UNCHANGED <<i, r>> \/ NextFile)
  <2>1. DoneRels' = DoneRels
    BY <1>0, <1>2, IdleRels
  <2>2. \A p : Value(p)' = Value(p)
    BY <1>2 DEF Value
  <2>3. QED
    BY <1>1, <2>1, <2>2 DEF FuncInv
<1>3. CASE /\ LinkRelative \/ LinkAbs32 \/ LinkGlobDat \/ LinkFuncdesc \/ LinkFuncdescValue
           /\ Linking /\ i' = i /\ UNCHANGED ret /\ \E v : Write(v)
  <2>1. /\ <<i, r>> \notin DoneRels /\ DoneRels' = DoneRels \cup {<<i, r>>}
        /\ \A p \in DoneRels : Value(p)' = Value(p)
        /\ \A v : Write(v) => slot'[i][r] = v
    BY <1>0, <1>3, WrittenRels DEF DoneRels, Value
  <2>2. PICK p : p = <<i, r>>
    OBVIOUS
  <2>3. RelOf(p) = ThisRel /\ Value(p)' = slot'[i][r] /\ p[1] = i
    BY <1>3, <2>2 DEF RelOf, ThisRel, Value
  <2>4. ret = 0
    BY <1>3, LInvParts DEF CountersOK, Linking
  <2>5. PICK s : s = Sym
    OBVIOUS
  <2>6. RelOf(p).sym' = s /\ RelOf(p).type' = Type
    BY <1>0, <2>3, <2>5 DEF Type, Sym
  <2>7. FuncRelOK(p)'
    <3>1. CASE LinkFuncdescValue
      <4>1. Type = "FUNCDESC_VALUE"
        BY <3>1, AtRelLinking DEF LinkFuncdescValue
      <4>2. PICK v : Write(v) /\ IsDesc(v, i, Sym)
        BY <1>3, <2>4, <3>1, ValueLinked
      <4>3. IsDesc(v, p[1], s)
        BY <2>3, <2>5, <4>2
      <4>4. IsDesc(v, p[1], s)'
        BY <1>0, <4>3, DescStays
      <4>5. Value(p)' = v
        BY <2>1, <2>3, <4>2
      <4>6. QED
        BY <2>6, <4>1, <4>4, <4>5 DEF FuncRelOK
    <3>2. CASE LinkFuncdesc
      <4>1. Type = "FUNCDESC"
        BY <3>2, AtRelLinking DEF LinkFuncdesc
      <4>2. PICK v : Write(v) /\ IsDescPtr(v, p[1], s)'
        BY <1>3, <2>3, <2>4, <2>5, <3>2, DescriptorLinked
      <4>3. Value(p)' = v
        BY <2>1, <2>3, <4>2
      <4>4. QED
        BY <2>6, <4>1, <4>2, <4>3 DEF FuncRelOK
    <3>3. CASE LinkRelative \/ LinkAbs32 \/ LinkGlobDat
      <4>1. Type \in {"RELATIVE", "ABS32", "GLOB_DAT"}
        BY <3>3 DEF LinkRelative, LinkAbs32, LinkGlobDat, AtRel
      <4>2. QED
        BY <2>6, <4>1 DEF FuncRelOK
    <3>4. QED
      BY <1>3, <3>1, <3>2, <3>3
  <2>8. \A q \in DoneRels' : FuncRelOK(q)'
    BY <1>1, <2>1, <2>2, <2>7
  <2>9. QED
    BY <2>8 DEF FuncInv
<1>4. QED
  BY <1>2, <1>3, StepKinds, PlacedHere

LEMMA FuncsAtEnd ==
    ASSUME LInv, Finished, FuncInv
    PROVE  FuncsLinked
<1> SUFFICES ASSUME Linked, NEW p \in FuncRels
             PROVE  IsDesc(DescOf(p), p[1], RelOf(p).sym)
  BY DEF FuncsLinked, IsDesc
<1>1. DoneRels = Rels /\ p \in Rels /\ p[1] \in Nat
  <2>1. files \in Lists
    BY LInvParts DEF CountersOK
  <2>2. QED
    BY <2>1, LinkedIsDone, RelsAre, FileTypes DEF FuncRels
<1>2. FuncRelOK(p)
  BY <1>1 DEF FuncInv
<1>3. CASE RelOf(p).type = "FUNCDESC_VALUE"
  BY <1>2, <1>3 DEF FuncRelOK, DescOf
<1>4. CASE RelOf(p).type = "FUNCDESC"
  <2>1. IsDescPtr(Value(p), p[1], RelOf(p).sym)
    BY <1>2, <1>4 DEF FuncRelOK
  <2>2. IsDesc(Deref(Value(p)), p[1], RelOf(p).sym)
    BY <1>1, <2>1, PtrLeadsToDesc
  <2>3. QED
    BY <1>4, <2>2 DEF DescOf
<1>5. QED
  BY <1>3, <1>4 DEF FuncRels

(* Of a list whose definers have memory, whose relocations are of words in
   sections and whose functions are referred to by descriptor: after uld_dyn_link_file_list every descriptor that a relocation
   holds or points to pairs a definition of the function, in a file no later in
   the list, with the base of that file, however many files and relocations
   there are, and in whatever order. *)
THEOREM CallsReachDefinitions ==
    Spec => []((DefinersInMemory(files) /\ WordsPlaced(files) /\ CalledByDescriptor(files)) => FuncsLinked)
<1> DEFINE Cond == DefinersInMemory(files) /\ WordsPlaced(files) /\ CalledByDescriptor(files)
<1>1. Init => (Cond => FuncInv)
  BY NothingDone DEF FuncInv
<1>2. LInv /\ (Cond => FuncInv) /\ [Next]_vars => (Cond => FuncInv)'
  <2> SUFFICES ASSUME LInv, Cond => FuncInv, [Next]_vars, Cond'
               PROVE  FuncInv'
    OBVIOUS
  <2>1. Cond
    BY FilesStay
  <2>2. QED
    BY <2>1, FuncsKeep
<1>3. LInv /\ Finished /\ FuncInv => FuncsLinked
  BY FuncsAtEnd
<1> HIDE DEF Cond
<1>4. Spec => [](Cond => FuncsLinked)
  BY <1>1, <1>2, <1>3, LInvAlways, FinishedAlways, PTL DEF Spec
<1>5. QED
  BY <1>4 DEF Cond

-----------------------------------------------------------------------------
(* Objects *)

(* A relocation by which data is referred to: the file can be searched for it. *)
LEMMA DataRelSearched ==
    ASSUME LInv, Linking, ObjectsExported(files), DataInv, Shared(Sym),
           Type \in {"GLOB_DAT", "ABS32"}, NEW p \in DoneRels, DataRel(p), RelOf(p).sym = Sym
    PROVE  p[1] \in 1 .. i /\ Searched(p[1]) /\ p[2] \in Providers(p[1])
<1>0. /\ files \in Lists /\ Len(files) \in Nat /\ i \in Nat
      /\ p \in Rels /\ p[1] \in 1 .. Len(files)
      /\ p[2] \in 1 .. Len(files[p[1]].rels) /\ Done(p[1], p[2])
  BY LInvParts, SearchSets, FileTypes, RelsAre DEF CountersOK, DoneRels
<1>1. RelOf(p).type \in {"GLOB_DAT", "ABS32"} /\ Kind[Sym] = "object"
  BY DEF DataInv, Shared
<1>2. files[p[1]].rels[p[2]] = RelOf(p)
  BY DEF RelOf
<1>3. files[p[1]].tables = "all" /\ files[p[1]].syms[Sym] # "absent"
  BY <1>0, <1>1, <1>2 DEF ObjectsExported
<1>4. p[1] \in 1 .. i /\ (p[1] = i => p[2] < r)
  BY <1>0 DEF Done
<1>5. Searched(p[1])
  BY <1>1, <1>3 DEF Searched
<1>6. p[2] \in Providers(p[1])
  BY <1>0, <1>1, <1>2, <1>4 DEF Providers
<1>7. QED
  BY <1>4, <1>5, <1>6

(* If the object has space in a file, the search of a relocation finds it. *)
LEMMA DefinerFound ==
    ASSUME LInv, Linking, ObjectsExported(files), Shared(Sym), Sym \in Symbols,
           Type \in {"GLOB_DAT", "ABS32"}, NotFoundCase
    PROVE  Definers(Sym) = {}
<1>0. /\ i \in Nat /\ i \in 1 .. i /\ 1 .. i \subseteq 1 .. Len(files) /\ i \in 1 .. Len(files)
      /\ r \in 1 .. Len(files[i].rels) /\ files \in Lists
  BY SearchSets, LInvParts DEF Linking, CountersOK
<1>1. Kind[Sym] = "object" /\ Exported(Sym) /\ ~BadType
  BY DEF Shared, BadType, BySection
<1>2. \A k \in 1 .. i : Searched(k) => ~Defined(k)
  BY <1>1 DEF NotFoundCase
<1>3. SUFFICES ASSUME Definers(Sym) # {} PROVE FALSE
  OBVIOUS
<1>4. PICK d \in Definers(Sym) : \A m \in (1 .. Len(files)) \ {d} : files[m].syms[Sym] \in {"absent", "ref"}
  BY <1>1, <1>3 DEF Exported
<1>5. files[i].tables = "all" /\ files[i].syms[Sym] # "absent"
  BY <1>0, <1>1 DEF ObjectsExported, Type, Sym, ThisRel
<1>6. ~Defined(i)
  BY <1>0, <1>2 DEF Searched
<1>7. i # d /\ files[i].syms[Sym] = "ref"
  BY <1>0, <1>4, <1>5, <1>6 DEF Definers, Defined
<1>8. PICK m \in 1 .. i - 1 : Exports(files[m], Sym)
  BY <1>0, <1>1, <1>5, <1>7 DEF ObjectsExported
<1>9. m \in 1 .. i /\ m \in 1 .. Len(files)
  BY <1>0
<1>10. files[m].tables = "all" /\ files[m].syms[Sym] \in {"gone", "def"}
  BY <1>8 DEF Exports
<1>11. m = d
  BY <1>4, <1>9, <1>10
<1>12. Defined(m)
  BY <1>4, <1>11 DEF Definers, Defined
<1>13. Searched(m)
  BY <1>1, <1>10 DEF Searched
<1>14. QED
  BY <1>2, <1>9, <1>12, <1>13

(* What the search saw last is a file that exports the object: its size is that
   of the object. *)
LEMMA SizeIsFull ==
    ASSUME LInv, Linking, ObjectsExported(files), Shared(Sym), Sym \in Symbols,
           Type = "GLOB_DAT", NotFoundCase
    PROVE  MatchSizes(Resolution.match) = {ObjSize[Sym]}
<1>0. /\ i \in Nat /\ i \in 1 .. i /\ 1 .. i \subseteq 1 .. Len(files) /\ i \in 1 .. Len(files)
      /\ r \in 1 .. Len(files[i].rels) /\ i \in Seen /\ Seen \subseteq 1 .. i /\ Seen \subseteq Nat
  BY SearchSets DEF Linking
<1>1. Kind[Sym] = "object" /\ ~BadType
  BY DEF Shared, BadType, BySection
<1>2. Resolution.match = MatchDownTo(1)
  <2>1. Resolution = [Failed EXCEPT !.file = Lowest(Seen), !.match = MatchDownTo(1)]
    BY <1>1 DEF NotFoundCase
  <2>2. QED
    BY <2>1 DEF Failed, LInv, Shape
<1>3. Defining = {}
  BY <1>0, <1>1 DEF NotFoundCase, Defining, Seen
<1>4. {m \in Seen \ Defining : m >= 1} = Seen
  <2>1. \A m \in Seen : m >= 1
    BY <1>0
  <2>2. QED
    BY <1>3, <2>1
<1>5. Resolution.match = <<Lowest(Seen), Sym>>
  BY <1>0, <1>2, <1>4 DEF MatchDownTo
<1> DEFINE w == Lowest(Seen)
<1>6. w \in Seen /\ \A m \in Seen : m >= w
  BY <1>0, LowestIs
<1> HIDE DEF w
<1>7. files[i].tables = "all" /\ files[i].syms[Sym] # "absent"
  BY <1>0, <1>1 DEF ObjectsExported, Type, Sym, ThisRel
<1>8. files[w].tables = "all" /\ w \in 1 .. Len(files) /\ w \in Nat /\ w <= i
  BY <1>0, <1>6, <1>7 DEF Seen, Searched
<1>9. files[w].syms[Sym] # "ref"
  <2> SUFFICES ASSUME files[w].syms[Sym] = "ref" PROVE FALSE
    OBVIOUS
  <2>1. PICK m \in 1 .. w - 1 : Exports(files[m], Sym)
    BY <1>1, <1>8 DEF ObjectsExported
  <2>2. m \in 1 .. i /\ m < w
    BY <1>0, <1>8
  <2>3. m \in Seen
    BY <1>1, <2>1, <2>2 DEF Seen, Searched, Exports
  <2>4. QED
    BY <1>6, <1>8, <2>2, <2>3
<1>10. <<w, Sym>>[1] = w /\ <<w, Sym>>[2] = Sym /\ <<w, Sym>> # << >>
  OBVIOUS
<1>11. QED
  BY <1>5, <1>9, <1>10 DEF MatchSizes, w

LEMMA DataWordStays ==
    ASSUME files' = files, pool \subseteq pool', NEW s, NEW v, DataWord(s, v)
    PROVE  DataWord(s, v)'
<1>1. Definers(s)' = Definers(s)
  BY DEF Definers
<1>2. QED
  BY <1>1 DEF DataWord

LEMMA DataLinked ==
    ASSUME LInv, DefinersInMemory(files), ObjectsExported(files), DataInv,
           LinkGlobDat \/ LinkAbs32, ret' = 0, NEW s, s = Sym, Shared(s)
    PROVE  \E v : /\ Write(v) /\ DataWord(s, v)'
                  /\ \A q \in DoneRels : (DataRel(q) /\ RelOf(q).sym = s) => Value(q) = v
<1>0. /\ Linking /\ Sym \in Symbols /\ Type \in {"GLOB_DAT", "ABS32"} /\ i \in Nat
      /\ Len(files) \in Nat /\ files \in Lists /\ files' = files /\ pool \subseteq pool'
  <2>1. Linking /\ Sym \in Symbols /\ Type \in {"GLOB_DAT", "ABS32"} /\ i \in Nat
    BY AtRelLinking DEF LinkGlobDat, LinkAbs32
  <2>2. files' = files /\ files \in Lists /\ Len(files) \in Nat
    BY LInvParts, FileTypes DEF LinkGlobDat, LinkAbs32, CountersOK
  <2>3. QED
    BY <2>1, <2>2, PoolGrows DEF Next
<1>1. Kind[Sym] = "object" /\ Exported(Sym) /\ ~BySection
  BY DEF Shared, BySection
<1>2. Definers(s)' = Definers(s)
  BY <1>0 DEF Definers
<1>3. ASSUME NEW k \in 1 .. i, SymCase(k)
      PROVE  \E v : /\ Write(v) /\ DataWord(s, v)'
                    /\ \A q \in DoneRels : (DataRel(q) /\ RelOf(q).sym = s) => Value(q) = v
  <2>1. k \in 1 .. Len(files) /\ k # 0 /\ Resolved /\ Defined(k)
    BY <1>0, <1>1, <1>3, SearchSets, FoundIsResolved DEF SymCase
  <2>2. Definers(s) = {k}
    <3>1. k \in Definers(s)
      BY <2>1 DEF Definers, Defined
    <3>2. PICK d \in Definers(s) :
             \A m \in (1 .. Len(files)) \ {d} : files[m].syms[s] \in {"absent", "ref"}
      BY <1>1, <3>1 DEF Exported
    <3>3. \A m \in Definers(s) : m = d
      BY <3>2 DEF Definers
    <3>4. QED
      BY <3>1, <3>3
  <2>3. files[k].inMem
    BY <1>0, <2>1 DEF DefinersInMemory, Defined
  <2>4. Resolution.ptr = LinkAddr(k, Sym) /\ Resolution.base = k
    BY <1>0, <1>3, <2>3, FoundIsResolved DEF Base
  <2>5. Adjusted(Resolution.ptr, Resolution.base) = SymAddr(k, s)
    BY <2>1, <2>4 DEF Adjusted, LinkAddr
  <2>6. Write(SymAddr(k, s))
    BY <2>1, <2>5 DEF LinkGlobDat, LinkAbs32
  <2>7. DataWord(s, SymAddr(k, s))'
    BY <1>2, <2>2 DEF DataWord
  <2>8. ASSUME NEW q \in DoneRels, DataRel(q), RelOf(q).sym = s
        PROVE  Value(q) = SymAddr(k, s)
    BY <2>2, <2>8 DEF DataInv, DataWord
  <2>9. QED
    BY <2>6, <2>7, <2>8
<1>4. ASSUME NEW k \in 1 .. i, RelCase(k)
      PROVE  \E v : /\ Write(v) /\ DataWord(s, v)'
                    /\ \A q \in DoneRels : (DataRel(q) /\ RelOf(q).sym = s) => Value(q) = v
  <2>1. PICK n \in Providers(k) :
           /\ Resolution.base = 0 /\ Resolved
           /\ Resolution.ptr = IF files[k].rels[n].type = "FUNCDESC_VALUE"
                               THEN SlotAddr(k, n) ELSE slot[k][n]
    BY <1>0, <1>4, FoundIsResolved
  <2>2. /\ <<k, n>> \in DoneRels /\ RelOf(<<k, n>>) = files[k].rels[n]
        /\ files[k].rels[n].sym = Sym /\ files[k].rels[n].type # "RELATIVE"
    BY <1>0, ProviderDone
  <2>3. DataRel(<<k, n>>)
    BY <2>2 DEF DataRel
  <2>4. files[k].rels[n].type \in {"GLOB_DAT", "ABS32"}
    BY <2>2, <2>3 DEF DataInv
  <2>5. PICK v : v = slot[k][n]
    OBVIOUS
  <2>6. Value(<<k, n>>) = v
    BY <2>5 DEF Value
  <2>7. Adjusted(Resolution.ptr, Resolution.base) = v
    BY <2>1, <2>4, <2>5 DEF Adjusted
  <2>8. Write(v)
    BY <2>1, <2>7 DEF LinkGlobDat, LinkAbs32
  <2>9. DataWord(s, v)
    BY <2>2, <2>3, <2>6 DEF DataInv
  <2>10. DataWord(s, v)'
    BY <1>0, <2>9, DataWordStays
  <2>11. \A q \in DoneRels : (DataRel(q) /\ RelOf(q).sym = s) => Value(q) = v
    BY <2>2, <2>3, <2>6 DEF DataInv
  <2>12. QED
    BY <2>8, <2>10, <2>11
<1>5. ASSUME NotFoundCase
      PROVE  \E v : /\ Write(v) /\ DataWord(s, v)'
                    /\ \A q \in DoneRels : (DataRel(q) /\ RelOf(q).sym = s) => Value(q) = v
  <2>1. ~Resolved
    BY <1>5 DEF NotFoundCase, Resolved
  <2>2. LinkGlobDat
    BY <2>1 DEF LinkAbs32, Fail
  <2>3. Type = "GLOB_DAT"
    BY <2>2, AtRelLinking DEF LinkGlobDat
  <2>4. MatchSizes(Resolution.match) = {ObjSize[Sym]}
    BY <1>0, <1>5, <2>3, SizeIsFull
  <2>5. Definers(s) = {}
    BY <1>0, <1>5, DefinerFound
  <2>6. Write(PoolAddr(dlBase)) /\ Alloc(ObjSize[Sym], [obj |-> Sym])
    BY <2>1, <2>2, <2>4 DEF LinkGlobDat
  <2>7. PICK b \in pool' : b.at = dlBase /\ b.size = ObjSize[s] /\ b.val = [obj |-> s]
    <3>1. [at |-> dlBase, size |-> ObjSize[Sym], val |-> [obj |-> Sym]] \in pool'
      BY <2>6 DEF Alloc
    <3>2. QED
      BY <3>1
  <2>8. DataWord(s, PoolAddr(b.at))'
    BY <1>2, <2>5, <2>7 DEF DataWord
  <2>9. ASSUME NEW q \in DoneRels, DataRel(q), RelOf(q).sym = s
        PROVE  FALSE
    <3>1. q[1] \in 1 .. i /\ Searched(q[1]) /\ q[2] \in Providers(q[1])
      BY <1>0, <2>9, DataRelSearched
    <3>2. ~BadType
      BY <1>0, <1>1 DEF BadType
    <3>3. QED
      BY <1>5, <3>1, <3>2 DEF NotFoundCase
  <2>10. QED
    BY <2>6, <2>7, <2>8, <2>9
<1>6. QED
  BY <1>0, <1>3, <1>4, <1>5, ResolutionCases

LEMMA DataKeeps ==
    ASSUME LInv, DefinersInMemory(files), WordsPlaced(files), ObjectsExported(files), DataInv,
           [Next]_vars
    PROVE  DataInv'
<1>0. /\ files' = files /\ pool \subseteq pool'
      /\ \A p : RelOf(p)' = RelOf(p) /\ (DataRel(p)' <=> DataRel(p))
  BY StepKinds, PoolGrows DEF RelOf, DataRel, Shared, Exported, Definers
<1>1. CASE slot' = slot /\ (UNCHANGED <<i, r>> \/ NextFile)
  <2>1. DoneRels' = DoneRels
    BY <1>0, <1>1, IdleRels
  <2>2. \A p : Value(p)' = Value(p)
    BY <1>1 DEF Value
  <2>3. \A s, v : DataWord(s, v) => DataWord(s, v)'
    BY <1>0, DataWordStays
  <2>4. ASSUME NEW p \in DoneRels, DataRel(p)
        PROVE  DataWord(RelOf(p).sym, Value(p))'
    <3>1. PICK s, v : s = RelOf(p).sym /\ v = Value(p)
      OBVIOUS
    <3>2. DataWord(s, v)
      BY <2>4, <3>1 DEF DataInv
    <3>3. DataWord(s, v)' /\ s = RelOf(p).sym' /\ v = Value(p)'
      BY <1>0, <2>2, <2>3, <3>1, <3>2
    <3>4. QED
      BY <3>3
  <2>5. QED
    BY <1>0, <2>1, <2>2, <2>4 DEF DataInv
<1>2. CASE /\ LinkRelative \/ LinkAbs32 \/ LinkGlobDat \/ LinkFuncdesc \/ LinkFuncdescValue
           /\ Linking /\ i' = i /\ UNCHANGED ret /\ \E v : Write(v)
  <2>1. /\ <<i, r>> \notin DoneRels /\ DoneRels' = DoneRels \cup {<<i, r>>}
        /\ \A p \in DoneRels : Value(p)' = Value(p)
        /\ \A v : Write(v) => slot'[i][r] = v
    BY <1>0, <1>2, WrittenRels DEF DoneRels, Value
  <2>2. PICK p : p = <<i, r>>
    OBVIOUS
  <2>3. PICK s : s = Sym
    OBVIOUS
  <2>4. RelOf(p).sym = s /\ RelOf(p).type = Type /\ Value(p)' = slot'[i][r]
    BY <1>2, <2>2, <2>3 DEF RelOf, ThisRel, Value, Type, Sym
  <2>5. ret = 0
    BY <1>2, LInvParts DEF CountersOK, Linking
  <2>6. ASSUME NEW q \in DoneRels, DataRel(q)
        PROVE  /\ RelOf(q).type \in {"GLOB_DAT", "ABS32"}
               /\ DataWord(RelOf(q).sym, Value(q))'
               /\ \A t \in DoneRels : (DataRel(t) /\ RelOf(t).sym = RelOf(q).sym) => Value(t) = Value(q)
    <3>1. PICK u, v : u = RelOf(q).sym /\ v = Value(q)
      OBVIOUS
    <3>2. DataWord(u, v)
      BY <2>6, <3>1 DEF DataInv
    <3>3. DataWord(u, v)' /\ u = RelOf(q).sym' /\ v = Value(q)'
      BY <1>0, <2>1, <3>1, <3>2, DataWordStays
    <3>4. QED
      BY <2>6, <3>3 DEF DataInv
  <2>7. ASSUME DataRel(p)
        PROVE  /\ RelOf(p).type \in {"GLOB_DAT", "ABS32"}
               /\ DataWord(RelOf(p).sym, Value(p))'
               /\ \A q \in DoneRels : (DataRel(q) /\ RelOf(q).sym = RelOf(p).sym) => Value(q) = Value(p)'
    <3>1. Shared(s) /\ Kind[Sym] = "object" /\ Type # "RELATIVE"
      BY <2>3, <2>4, <2>7 DEF DataRel, Shared
    <3>2. LinkGlobDat \/ LinkAbs32
      <4>1. ~LinkRelative
        BY <3>1 DEF LinkRelative, AtRel
      <4>2. ASSUME LinkFuncdesc \/ LinkFuncdescValue PROVE FALSE
        <5>1. Type \in {"FUNCDESC", "FUNCDESC_VALUE"}
          BY <4>2 DEF LinkFuncdesc, LinkFuncdescValue, AtRel
        <5>2. BadType
          BY <3>1, <5>1 DEF BadType, BySection
        <5>3. ~Resolved
          BY <1>2, <5>2, ResolutionCases DEF NotFoundCase, SymCase, RelCase, Resolved
        <5>4. QED
          BY <1>2, <2>5, <4>2, <5>3 DEF LinkFuncdesc, LinkFuncdescValue, Fail
      <4>3. QED
        BY <1>2, <4>1, <4>2
    <3>3. PICK v : /\ Write(v) /\ DataWord(s, v)'
                   /\ \A q \in DoneRels : (DataRel(q) /\ RelOf(q).sym = s) => Value(q) = v
      BY <1>2, <2>3, <2>5, <3>1, <3>2, DataLinked
    <3>4. Value(p)' = v /\ s = RelOf(p).sym'
      BY <1>0, <2>1, <2>4, <3>3
    <3>5. RelOf(p).type \in {"GLOB_DAT", "ABS32"}
      BY <2>4, <3>2 DEF LinkGlobDat, LinkAbs32, AtRel
    <3>6. QED
      BY <2>4, <3>3, <3>4, <3>5
  <2>8. QED
    BY <1>0, <2>1, <2>2, <2>6, <2>7 DEF DataInv
<1>3. QED
  BY <1>1, <1>2, StepKinds, PlacedHere

LEMMA DataAtEnd ==
    ASSUME LInv, Finished, DataInv
    PROVE  DataShared
<1> SUFFICES ASSUME Linked, NEW p \in Rels, NEW q \in Rels, RelOf(p).sym = RelOf(q).sym,
                    {RelOf(p).type, RelOf(q).type} \subseteq {"GLOB_DAT", "ABS32"},
                    Kind[RelOf(p).sym] = "object", Exported(RelOf(p).sym)
             PROVE  Value(p) = Value(q) /\ DataWord(RelOf(p).sym, Value(p))
  BY DEF DataShared, DataWord
<1>1. DoneRels = Rels
  BY LinkedIsDone
<1>2. DataRel(p) /\ DataRel(q)
  BY DEF DataRel, Shared
<1>3. QED
  BY <1>1, <1>2 DEF DataInv

(* Of a list whose definers have memory, whose relocations are of words in
   sections, and in which a file that refers to an
   object comes after one that exports it: after uld_dyn_link_file_list all
   relocations of an object lead to one instance of it, its definition or, where
   the build has dropped that, one object in the pool, of its full size. *)
THEOREM DataIsShared ==
    Spec => []((DefinersInMemory(files) /\ WordsPlaced(files) /\ ObjectsExported(files)) => DataShared)
<1> DEFINE Cond == DefinersInMemory(files) /\ WordsPlaced(files) /\ ObjectsExported(files)
<1>1. Init => (Cond => DataInv)
  BY NothingDone DEF DataInv
<1>2. LInv /\ (Cond => DataInv) /\ [Next]_vars => (Cond => DataInv)'
  <2> SUFFICES ASSUME LInv, Cond => DataInv, [Next]_vars, Cond'
               PROVE  DataInv'
    OBVIOUS
  <2>1. Cond
    BY FilesStay
  <2>2. QED
    BY <2>1, DataKeeps
<1>3. LInv /\ Finished /\ DataInv => DataShared
  BY DataAtEnd
<1> HIDE DEF Cond
<1>4. Spec => [](Cond => DataShared)
  BY <1>1, <1>2, <1>3, LInvAlways, FinishedAlways, PTL DEF Spec
<1>5. QED
  BY <1>4 DEF Cond
=============================================================================
