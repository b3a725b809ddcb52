---------------------------- MODULE UldLoadProofs ---------------------------
(***************************************************************************)
(* Proofs about UldLoad, for every list of files.                          *)
(***************************************************************************)
EXTENDS UldLoad, FiniteSetTheorems, SequenceTheorems, WellFoundedInduction, TLAPS

(* A set of numbers that is not empty has a lowest member. *)
LEMMA LowestExists ==
    ASSUME NEW S, S \subseteq Nat, S # {}
    PROVE  \E x \in S : \A y \in S : x <= y
<1>1. IsWellFoundedOn(OpToRel(<, Nat), Nat)
  BY NatLessThanWellFounded
<1>2. PICK x \in S : \A y \in S : ~(<<y, x>> \in OpToRel(<, Nat))
  BY <1>1, WFMin
<1>3. ASSUME NEW y \in S
      PROVE  x <= y
  <2>1. x \in Nat /\ y \in Nat
    OBVIOUS
  <2>2. ~(y < x)
    BY <1>2, <2>1 DEF OpToRel
  <2>3. QED
    BY <2>1, <2>2
<1>4. QED
  BY <1>3
-----------------------------------------------------------------------------
(* Running sums *)

IsSum(f, n, g) == f = [k \in 0 .. n |-> IF k = 0 THEN 0 ELSE f[k - 1] + g[k]]

LEMMA SumExists ==
    ASSUME NEW n \in Nat, NEW g \in [1 .. n -> Nat]
    PROVE  \E f : IsSum(f, n, g)
<1> DEFINE S == {m \in 0 .. n : ~ \E f : IsSum(f, m, g)}
<1>1. CASE S = {}
  <2>1. n \in 0 .. n
    OBVIOUS
  <2>2. n \notin S
    BY <1>1, Zenon
  <2>3. QED
    BY <2>1, <2>2, Zenon
<1>2. CASE S # {}
  <2>1. PICK x \in S : \A y \in S : x <= y
    <3>1. S \subseteq Nat
      OBVIOUS
    <3>2. QED
      BY <1>2, <3>1, LowestExists
  <2>2. x \in 0 .. n /\ x \in Nat /\ ~ \E f : IsSum(f, x, g)
    BY <2>1
  <2>3. CASE x = 0
    <3> DEFINE f == [k \in 0 .. 0 |-> 0]
    <3>1. IsSum(f, 0, g)
      BY DEF IsSum
    <3>2. QED
      BY <2>2, <2>3, <3>1
  <2>4. CASE x # 0
    <3>1. x - 1 \in 0 .. n /\ x - 1 < x /\ x - 1 \in Nat
      BY <2>2, <2>4
    <3>2. x - 1 \notin S
      BY <2>1, <2>2, <3>1
    <3>3. PICK f : IsSum(f, x - 1, g)
      BY <3>1, <3>2
    <3> DEFINE h == [k \in 0 .. x |-> IF k = x THEN f[x - 1] + g[x] ELSE f[k]]
    <3>4. \A k \in 0 .. x - 1 : f[k] = IF k = 0 THEN 0 ELSE f[k - 1] + g[k]
      BY <3>3 DEF IsSum
    <3>5. \A k \in 0 .. x : h[k] = IF k = 0 THEN 0 ELSE h[k - 1] + g[k]
      <4> SUFFICES ASSUME NEW k \in 0 .. x PROVE h[k] = IF k = 0 THEN 0 ELSE h[k - 1] + g[k]
        OBVIOUS
      <4>1. CASE k = x
        BY <2>2, <2>4, <4>1
      <4>2. CASE k # x
        BY <2>2, <3>4, <4>2
      <4>3. QED
        BY <4>1, <4>2
    <3>6. IsSum(h, x, g)
      BY <3>5 DEF IsSum
    <3>7. QED
      BY <2>2, <3>6
  <2>5. QED
    BY <2>3, <2>4
<1>3. QED
  BY <1>1, <1>2

LEMMA SumFacts ==
    ASSUME NEW n \in Nat, NEW g \in [1 .. n -> Nat], NEW f, IsSum(f, n, g)
    PROVE  /\ f[0] = 0
           /\ \A k \in 0 .. n : f[k] \in Nat /\ f[k] <= f[n]
           /\ \A k \in 1 .. n : f[k] = f[k - 1] + g[k]
<1>0. /\ f[0] = 0
      /\ \A k \in 1 .. n : f[k] = f[k - 1] + g[k] /\ g[k] \in Nat /\ k - 1 \in 0 .. n
  BY DEF IsSum
<1>1. \A k \in 0 .. n : f[k] \in Nat
  <2> DEFINE S == {k \in 0 .. n : f[k] \notin Nat}
  <2> SUFFICES ASSUME S # {} PROVE FALSE
    OBVIOUS
  <2>1. PICK x \in S : \A y \in S : x <= y
    <3>1. S \subseteq Nat
      OBVIOUS
    <3>2. QED
      BY <3>1, LowestExists
  <2>2. x \in 1 .. n
    BY <1>0, <2>1
  <2>3. x - 1 \notin S /\ x - 1 \in 0 .. n
    BY <2>1, <2>2
  <2>4. QED
    BY <1>0, <2>1, <2>2, <2>3
<1>2. \A k \in 0 .. n : f[k] <= f[n]
  <2> DEFINE S == {d \in 0 .. n : ~(f[n - d] <= f[n])}
  <2>1. CASE S # {}
    <3>1. PICK x \in S : \A y \in S : x <= y
      <4>1. S \subseteq Nat
        OBVIOUS
      <4>2. QED
        BY <2>1, <4>1, LowestExists
    <3>2. x \in 1 .. n
      <4>1. n - 0 = n /\ n \in 0 .. n /\ x \in 0 .. n
        OBVIOUS
      <4>2. f[n] <= f[n]
        BY <1>1, <4>1
      <4>3. x # 0
        BY <3>1, <4>1, <4>2
      <4>4. QED
        BY <4>1, <4>3
    <3>3. x - 1 \notin S /\ x - 1 \in 0 .. n
      BY <3>1, <3>2
    <3>4. f[n - (x - 1)] <= f[n] /\ n - x \in 0 .. n /\ n - (x - 1) \in 1 .. n
      BY <3>2, <3>3
    <3>5. f[n - (x - 1)] = f[n - (x - 1) - 1] + g[n - (x - 1)] /\ g[n - (x - 1)] \in Nat
      BY <1>0, <3>4
    <3>6. n - (x - 1) - 1 = n - x
      BY <3>2
    <3>7. f[n - x] \in Nat /\ f[n] \in Nat /\ f[n - (x - 1)] \in Nat
      BY <1>1, <3>4
    <3>8. f[n - x] <= f[n]
      BY <3>4, <3>5, <3>6, <3>7
    <3>9. QED
      BY <3>1, <3>8
  <2>2. CASE S = {}
    <3> SUFFICES ASSUME NEW k \in 0 .. n PROVE f[k] <= f[n]
      OBVIOUS
    <3>1. n - k \in 0 .. n /\ n - (n - k) = k
      OBVIOUS
    <3>2. n - k \notin S
      BY <2>2
    <3>3. QED
      BY <3>1, <3>2
  <2>3. QED
    BY <2>1, <2>2
<1>3. QED
  BY <1>0, <1>1, <1>2

-----------------------------------------------------------------------------
(* The sorted lists *)

Rank(f, S, a) == Cardinality({b \in S : Before(f, b, a)})
At(f, S, k) == CHOOSE a \in S : Rank(f, S, a) = k - 1

LEMMA SecTypes ==
    ASSUME NEW f \in File
    PROVE  /\ Len(f.secs) \in Nat
           /\ \A k \in 1 .. Len(f.secs) :
                 f.secs[k] \in Section /\ f.secs[k].addr \in Nat /\ f.secs[k].size \in Nat \ {0}
                 /\ f.secs[k].ptr \in Nat /\ f.secs[k].nobits \in BOOLEAN
<1>1. f.secs \in Seq(Section)
  BY DEF File
<1>2. \A k \in 1 .. Len(f.secs) : f.secs[k] \in Section
  BY <1>1, ElementOfSeq
<1>3. QED
  BY <1>1, <1>2, LenProperties DEF Section

(* Before is a strict total order on the sections of a file. *)
LEMMA BeforeOrders ==
    ASSUME NEW f \in File
    PROVE  /\ \A a, b, c \in 1 .. Len(f.secs) :
                 Before(f, a, b) /\ Before(f, b, c) => Before(f, a, c)
           /\ \A a \in 1 .. Len(f.secs) : ~Before(f, a, a)
           /\ \A a, b \in 1 .. Len(f.secs) : a = b \/ Before(f, a, b) \/ Before(f, b, a)
BY SecTypes DEF Before

LEMMA RankFacts ==
    ASSUME NEW f \in File, NEW S, S \subseteq 1 .. Len(f.secs)
    PROVE  /\ IsFiniteSet(S) /\ Cardinality(S) \in Nat
           /\ \A a \in S : Rank(f, S, a) \in 0 .. Cardinality(S) - 1
           /\ \A a, b \in S : Before(f, a, b) => Rank(f, S, a) < Rank(f, S, b)
<1>0. Len(f.secs) \in Nat
  BY SecTypes
<1>1. IsFiniteSet(1 .. Len(f.secs))
  BY <1>0, FS_Interval
<1>2. IsFiniteSet(S) /\ Cardinality(S) \in Nat
  BY <1>1, FS_Subset, FS_CardinalityType
<1> DEFINE Lower(a) == {b \in S : Before(f, b, a)}
<1>3. ASSUME NEW a \in S
      PROVE  IsFiniteSet(Lower(a)) /\ Rank(f, S, a) \in Nat /\ Rank(f, S, a) = Cardinality(Lower(a))
  <2>1. Lower(a) \in SUBSET S
    OBVIOUS
  <2>2. IsFiniteSet(Lower(a))
    BY <1>2, <2>1, FS_Subset
  <2>3. QED
    BY <2>2, FS_CardinalityType DEF Rank
<1>4. ASSUME NEW a \in S
      PROVE  Rank(f, S, a) \in 0 .. Cardinality(S) - 1
  <2>1. a \notin Lower(a)
    BY BeforeOrders
  <2>2. Lower(a) \in SUBSET S /\ Lower(a) # S
    BY <2>1
  <2>3. Cardinality(Lower(a)) <= Cardinality(S) /\ Cardinality(Lower(a)) # Cardinality(S)
    BY <1>2, <2>2, FS_Subset
  <2>4. ASSUME NEW x \in Nat, NEW y \in Nat, x <= y, x # y PROVE x \in 0 .. y - 1
    BY <2>4
  <2>5. Rank(f, S, a) \in Nat /\ Rank(f, S, a) <= Cardinality(S) /\ Rank(f, S, a) # Cardinality(S)
    BY <1>3, <2>3
  <2>6. QED
    BY <1>2, <2>4, <2>5
<1>5. ASSUME NEW a \in S, NEW b \in S, Before(f, a, b)
      PROVE  Rank(f, S, a) < Rank(f, S, b)
  <2>1. Lower(a) \subseteq Lower(b) /\ a \in Lower(b) /\ a \notin Lower(a)
    <3>1. \A c \in S : Before(f, c, a) => Before(f, c, b)
      <4>1. \A c \in S : c \in 1 .. Len(f.secs)
        OBVIOUS
      <4>2. QED
        BY <1>5, <4>1, BeforeOrders
    <3>2. ~Before(f, a, a)
      BY BeforeOrders
    <3>3. QED
      BY <1>5, <3>1, <3>2
  <2>2. Lower(a) \in SUBSET Lower(b) /\ Lower(a) # Lower(b)
    BY <2>1
  <2>3. Cardinality(Lower(a)) <= Cardinality(Lower(b)) /\ Cardinality(Lower(a)) # Cardinality(Lower(b))
    BY <1>3, <2>2, FS_Subset
  <2>4. Rank(f, S, a) <= Rank(f, S, b) /\ Rank(f, S, a) # Rank(f, S, b)
    BY <1>3, <2>3
  <2>5. Rank(f, S, a) \in Nat /\ Rank(f, S, b) \in Nat
    BY <1>3
  <2>6. ASSUME NEW x \in Nat, NEW y \in Nat, x <= y, x # y PROVE x < y
    BY <2>6
  <2>7. QED
    BY <2>4, <2>5, <2>6
<1>6. QED
  BY <1>2, <1>4, <1>5

(* Every position of a sorted list holds a section, every section has a position,
   and positions ascend with the order. *)
LEMMA SortedFacts ==
    ASSUME NEW f \in File, NEW S, S \subseteq 1 .. Len(f.secs)
    PROVE  /\ Cardinality(S) \in Nat
           /\ Sorted(f, S) = [k \in 1 .. Cardinality(S) |-> f.secs[At(f, S, k)]]
           /\ Len(Sorted(f, S)) = Cardinality(S)
           /\ \A k \in 1 .. Cardinality(S) : At(f, S, k) \in S
           /\ \A a \in S : \E k \in 1 .. Cardinality(S) : At(f, S, k) = a
           /\ \A k, m \in 1 .. Cardinality(S) : k < m => Before(f, At(f, S, k), At(f, S, m))
<1> DEFINE n == Cardinality(S)
<1>0. /\ IsFiniteSet(S) /\ n \in Nat
      /\ \A a \in S : Rank(f, S, a) \in 0 .. n - 1
      /\ \A a, b \in S : Before(f, a, b) => Rank(f, S, a) < Rank(f, S, b)
  BY RankFacts
<1>1. Sorted(f, S) = [k \in 1 .. n |-> f.secs[At(f, S, k)]]
  BY DEF Sorted, At, Rank
<1>2. Len(Sorted(f, S)) = n
  BY <1>0, <1>1
<1> HIDE DEF n
<1>3. \A a, b \in S : a # b => Rank(f, S, a) # Rank(f, S, b)
  <2> SUFFICES ASSUME NEW a \in S, NEW b \in S, a # b PROVE Rank(f, S, a) # Rank(f, S, b)
    OBVIOUS
  <2>1. Before(f, a, b) \/ Before(f, b, a)
    BY BeforeOrders
  <2>2. Rank(f, S, a) < Rank(f, S, b) \/ Rank(f, S, b) < Rank(f, S, a)
    BY <1>0, <2>1
  <2>3. Rank(f, S, a) \in Int /\ Rank(f, S, b) \in Int
    BY <1>0
  <2>4. QED
    BY <2>2, <2>3
<1>4. \A k \in 1 .. n : \E a \in S : Rank(f, S, a) = k - 1
  <2> DEFINE g == [a \in S |-> Rank(f, S, a)]
  <2>1. g \in Injection(S, 0 .. n - 1)
    BY <1>0, <1>3 DEF Injection, IsInjective
  <2>2. IsFiniteSet(0 .. n - 1) /\ Cardinality(0 .. n - 1) = n
    BY <1>0, FS_Interval
  <2>3. g \in Surjection(S, 0 .. n - 1)
    BY <2>1, <2>2, FS_Injection DEF n
  <2>4. \A x \in 0 .. n - 1 : \E a \in S : g[a] = x
    BY <2>3 DEF Surjection
  <2>5. ASSUME NEW k \in 1 .. n PROVE \E a \in S : Rank(f, S, a) = k - 1
    <3>1. k - 1 \in 0 .. n - 1
      BY <1>0
    <3>2. QED
      BY <2>4, <3>1
  <2>6. QED
    BY <2>5
<1>5. \A k \in 1 .. n : At(f, S, k) \in S /\ Rank(f, S, At(f, S, k)) = k - 1
  BY <1>4 DEF At
<1>6. ASSUME NEW a \in S PROVE \E k \in 1 .. n : At(f, S, k) = a
  <2> DEFINE k == Rank(f, S, a) + 1
  <2>1. k \in 1 .. n /\ k - 1 = Rank(f, S, a)
    BY <1>0
  <2>2. At(f, S, k) \in S /\ Rank(f, S, At(f, S, k)) = Rank(f, S, a)
    BY <1>5, <2>1
  <2>3. At(f, S, k) = a
    BY <1>3, <2>2
  <2>4. QED
    BY <2>1, <2>3
<1>7. ASSUME NEW k \in 1 .. n, NEW m \in 1 .. n, k < m
      PROVE  Before(f, At(f, S, k), At(f, S, m))
  <2> DEFINE a == At(f, S, k)
             b == At(f, S, m)
  <2>1. a \in S /\ b \in S /\ Rank(f, S, a) = k - 1 /\ Rank(f, S, b) = m - 1
    BY <1>5
  <2> HIDE DEF a, b
  <2>2. k \in Int /\ m \in Int
    BY <1>0
  <2>3. Rank(f, S, a) < Rank(f, S, b)
    BY <1>7, <2>1, <2>2
  <2>4. a # b /\ ~Before(f, b, a)
    BY <1>0, <2>1, <2>2, <2>3
  <2>5. Before(f, a, b)
    BY <2>1, <2>4, BeforeOrders
  <2>6. QED
    BY <2>5 DEF a, b
<1>8. QED
  BY <1>0, <1>1, <1>2, <1>5, <1>6, <1>7 DEF n

-----------------------------------------------------------------------------
(* The section array *)

SecSum(l) ==
    CHOOSE f : f = [k \in 0 .. Len(l) |-> IF k = 0 THEN 0 ELSE f[k - 1] + Len(l[k].secs)]

LEMMA SecSumFacts ==
    ASSUME NEW l \in Seq(File)
    PROVE  /\ SecCount(l) = SecSum(l)[Len(l)]
           /\ SecSum(l)[0] = 0
           /\ \A k \in 0 .. Len(l) : SecSum(l)[k] \in Nat /\ SecSum(l)[k] <= SecCount(l)
           /\ \A k \in 1 .. Len(l) : /\ l[k] \in File
                                     /\ Len(l[k].secs) \in Nat
                                     /\ SecSum(l)[k] = SecSum(l)[k - 1] + Len(l[k].secs)
<1> DEFINE n == Len(l)
           g == [k \in 1 .. n |-> Len(l[k].secs)]
           P(f) == f = [k \in 0 .. n |-> IF k = 0 THEN 0 ELSE f[k - 1] + Len(l[k].secs)]
<1>0. n \in Nat /\ \A k \in 1 .. n : l[k] \in File
  BY LenProperties, ElementOfSeq
<1>1. \A k \in 1 .. n : Len(l[k].secs) \in Nat
  BY <1>0, SecTypes
<1>2. g \in [1 .. n -> Nat]
  BY <1>1
<1>3. \A f : P(f) <=> IsSum(f, n, g)
  <2> SUFFICES ASSUME NEW f PROVE P(f) <=> IsSum(f, n, g)
    OBVIOUS
  <2>1. [k \in 0 .. n |-> IF k = 0 THEN 0 ELSE f[k - 1] + Len(l[k].secs)]
          = [k \in 0 .. n |-> IF k = 0 THEN 0 ELSE f[k - 1] + g[k]]
    <3>1. \A k \in 0 .. n : k # 0 => g[k] = Len(l[k].secs)
      BY <1>0
    <3>2. QED
      BY <3>1
  <2>2. QED
    BY <2>1 DEF IsSum
<1>4. \E f : P(f)
  BY <1>0, <1>2, <1>3, SumExists
<1>5. P(SecSum(l))
  BY <1>4 DEF SecSum
<1>6. IsSum(SecSum(l), n, g)
  BY <1>3, <1>5
<1>7. SecCount(l) = SecSum(l)[n]
  BY DEF SecCount, SecSum
<1>8. \A k \in 1 .. n : g[k] = Len(l[k].secs)
  OBVIOUS
<1> HIDE DEF g
<1>9. /\ SecSum(l)[0] = 0
      /\ \A k \in 0 .. n : SecSum(l)[k] \in Nat /\ SecSum(l)[k] <= SecSum(l)[n]
      /\ \A k \in 1 .. n : SecSum(l)[k] = SecSum(l)[k - 1] + g[k]
  BY <1>0, <1>2, <1>6, SumFacts
<1>10. QED
  BY <1>0, <1>1, <1>7, <1>8, <1>9

-----------------------------------------------------------------------------
(* The inductive invariants *)

Full(f) == [mem |-> Sorted(f, OfKind(f, TRUE)), flash |-> Sorted(f, OfKind(f, FALSE))]

(* The section array: the files up to the one being loaded have used exactly
   the entries their sections were counted for. *)
SInv ==
    /\ list \in Lists
    /\ pc \in {"file", "alloc", "fixup", "done"}
    /\ i \in 1 .. Len(list) + 1
    /\ pc # "done" => ret = 0
    /\ pc \in {"alloc", "fixup"} => i <= Len(list)
    /\ pc = "done" => (ret \in {-1, 1} /\ i <= Len(list)) \/ (ret = 0 /\ i = Len(list) + 1)
    /\ pc = "done" /\ ret = -1 => Len(list[i].secs) = 0
    /\ secCount = SecCount(list)
    /\ secIdx = SecSum(list)[i - 1]
    /\ DOMAIN lists = 1 .. Len(list)
    /\ \A k \in 1 .. Len(list) : (k < i \/ (k = i /\ pc # "file" /\ ret # -1)) => lists[k] = Full(list[k])

(* The place of each section, and what has been placed. *)
FM(k) == Full(list[k]).mem
Off(k, m) == fileBase[k] + FM(k)[m].addr - FM(k)[1].addr
Begun(k) == k \in 1 .. Len(list) /\ FM(k) # <<>> /\ (k < i \/ (k = i /\ pc # "file"))
Placed(k, m) ==
    k \in 1 .. Len(list) /\ m \in 1 .. Len(FM(k)) /\ (k < i \/ (k = i /\ pc # "file" /\ m < j))
Entry(k, m) == [file |-> k, name |-> FM(k)[m].name, at |-> Off(k, m)]
AllPacked == \A k \in 1 .. Len(list) : Packed(list[k])
AllGood == \A k \in 1 .. Len(list) : PointersGood(list[k])

(* Where the next section goes: the sections of a packed file keep their distances. *)
Here == membase + (IF j <= Len(FM(i)) THEN FM(i)[j].addr ELSE EndOf(FM(i)[Len(FM(i))]))
                - FM(i)[1].addr

Numbers ==
    /\ {base0, membase, allocated, ptr, dlAllocBase} \subseteq Nat
    /\ start \in Int /\ j \in Nat
    /\ membase >= BssEnd
    /\ DOMAIN mem = BssEnd .. RamEnd
    /\ fileBase \in [1 .. Len(list) -> Nat]
    /\ trapped \in BOOLEAN
Filling ==
    /\ pc \in {"alloc", "fixup"} \/ (pc = "done" /\ ret = 1) =>
          /\ FM(i) # <<>> /\ j \in 1 .. Len(FM(i)) + 1
          /\ membase = fileBase[i] /\ start = membase
          /\ ptr = Here
    /\ pc \in {"fixup", "done"} /\ ret # -1 /\ i <= Len(list) => j = Len(FM(i)) + 1 /\ membase + allocated = ptr
    /\ pc = "done" /\ ret = 0 => dlAllocBase = membase + allocated
Places ==
    /\ \A p \in vma : \E k \in 1 .. Len(list) : \E m \in 1 .. Len(FM(k)) :
          Placed(k, m) /\ p = Entry(k, m)
    /\ \A k \in 1 .. Len(list) : \A m \in 1 .. Len(FM(k)) : Placed(k, m) => Entry(k, m) \in vma
Bases ==
    /\ \A k \in 1 .. Len(list) : Begun(k) => fileBase[k] >= BssEnd /\ fileBase[k] % Align = 0
    /\ \A k, h \in 1 .. Len(list) : \A m \in 1 .. Len(FM(k)) :
          k < h /\ Begun(h) => Off(k, m) + FM(k)[m].size <= fileBase[h]
    /\ \A k \in 1 .. Len(list) : \A m \in 1 .. Len(FM(k)) :
          k < i => Off(k, m) + FM(k)[m].size
                     <= IF pc = "alloc" THEN membase ELSE membase + allocated
VInv == AllPacked => Numbers /\ Filling /\ Places /\ Bases

(* What the memory holds. *)
Into(k, p) == {m \in 1 .. Len(FM(k)) : p \in FM(k)[m].addr .. FM(k)[m].addr + FM(k)[m].size - 1}
IsGotPlt(k, p) == \E m \in 1 .. Len(FM(k)) : FM(k)[m].name = ".got.plt" /\ p = FM(k)[m].addr
FixedVal(k, s, p) ==
    IF p = 0 \/ Into(k, p) = {} THEN p
    ELSE IF s.name = ".got" /\ IsGotPlt(k, p) THEN fileBase[k]
    ELSE LET t == CHOOSE t \in Into(k, p) : TRUE IN p - FM(k)[t].addr + Off(k, t)
First(k, m) == Word(k, FM(k)[m], 0).val
Held(k, m, o) ==
    IF o = 0 /\ k < i /\ NeedsFixup(FM(k)[m])
    THEN [Word(k, FM(k)[m], 0) EXCEPT !.val = FixedVal(k, FM(k)[m], First(k, m))]
    ELSE Word(k, FM(k)[m], o)
Contents ==
    \A k \in 1 .. Len(list) : \A m \in 1 .. Len(FM(k)) : \A o \in 0 .. FM(k)[m].size - 1 :
        Placed(k, m) /\ Off(k, m) + o <= RamEnd => mem[Off(k, m) + o] = Held(k, m, o)
MInv == AllPacked => Contents
TInv == AllPacked /\ AllGood /\ Fits /\ ret = 0 => ~trapped

-----------------------------------------------------------------------------
(* The section array is cut exactly *)

LEMMA KindFacts ==
    ASSUME NEW f \in File
    PROVE  /\ \A b \in BOOLEAN : /\ OfKind(f, b) \subseteq 1 .. Len(f.secs)
                                 /\ IsFiniteSet(OfKind(f, b))
                                 /\ Cardinality(OfKind(f, b)) \in Nat
           /\ Cardinality(OfKind(f, TRUE)) + Cardinality(OfKind(f, FALSE)) = Len(f.secs)
<1> DEFINE A == OfKind(f, TRUE)
           B == OfKind(f, FALSE)
           N == 1 .. Len(f.secs)
<1>0. Len(f.secs) \in Nat /\ IsFiniteSet(N) /\ Cardinality(N) = Len(f.secs)
  BY SecTypes, FS_Interval
<1>1. \A b \in BOOLEAN : OfKind(f, b) \subseteq N
  BY DEF OfKind
<1>2. \A b \in BOOLEAN : IsFiniteSet(OfKind(f, b)) /\ Cardinality(OfKind(f, b)) \in Nat
  BY <1>0, <1>1, FS_Subset, FS_CardinalityType
<1>3. A \cup B = N /\ A \cap B = {}
  BY DEF OfKind, IsMem
<1> HIDE DEF A, B, N
<1>4. IsFiniteSet(A) /\ IsFiniteSet(B)
  BY <1>2 DEF A, B
<1>5. Cardinality(A \cup B) = Cardinality(A) + Cardinality(B) - Cardinality(A \cap B)
  BY <1>4, FS_Union
<1>6. Cardinality({}) = 0
  BY FS_EmptySet
<1>7. Cardinality(A) \in Nat /\ Cardinality(B) \in Nat
  BY <1>4, FS_CardinalityType
<1>8. Cardinality(A) + Cardinality(B) = Len(f.secs)
  <2>1. Len(f.secs) = Cardinality(A) + Cardinality(B) - 0
    BY <1>0, <1>3, <1>5, <1>6, Zenon
  <2>2. ASSUME NEW x \in Nat, NEW y \in Nat, NEW z, z = x + y - 0 PROVE x + y = z
    BY <2>2
  <2>3. QED
    BY <1>7, <2>1, <2>2
<1>9. QED
  BY <1>1, <1>2, <1>8 DEF A, B, N

LEMMA TakenAll ==
    ASSUME NEW f \in File, NEW b \in BOOLEAN, NEW snum \in Int,
           Cardinality(OfKind(f, b)) <= snum
    PROVE  Taken(f, snum, b) = OfKind(f, b)
<1> DEFINE S == OfKind(f, b)
<1>1. IsFiniteSet(S) /\ Cardinality(S) \in Nat
  BY KindFacts
<1>2. ASSUME NEW k \in S
      PROVE  Cardinality({m \in S : m <= k}) <= snum
  <2> DEFINE T == {m \in S : m <= k}
  <2>1. T \in SUBSET S
    OBVIOUS
  <2>2. IsFiniteSet(T) /\ Cardinality(T) <= Cardinality(S)
    BY <1>1, <2>1, FS_Subset
  <2>3. Cardinality(T) \in Nat
    BY <2>2, FS_CardinalityType
  <2> HIDE DEF T, S
  <2>4. Cardinality(T) <= snum
    BY <1>1, <2>2, <2>3 DEF S
  <2>5. QED
    BY <2>4 DEF T
<1>3. QED
  BY <1>2 DEF Taken

(* With room for all its sections, a file's lists hold all of them. *)
LEMMA CreateFileFull ==
    ASSUME NEW f \in File, NEW snum \in Int, Len(f.secs) <= snum
    PROVE  /\ CreateFile(f, snum) = Full(f)
           /\ Len(Full(f).mem) \in Nat /\ Len(Full(f).flash) \in Nat
           /\ Len(Full(f).mem) + Len(Full(f).flash) = Len(f.secs)
<1> DEFINE a == Cardinality(OfKind(f, TRUE))
           b == Cardinality(OfKind(f, FALSE))
           memList == Sorted(f, OfKind(f, TRUE))
           flashList == Sorted(f, OfKind(f, FALSE))
<1>1. a \in Nat /\ b \in Nat /\ a + b = Len(f.secs) /\ Len(f.secs) \in Nat
  BY KindFacts, SecTypes
<1>2. /\ OfKind(f, TRUE) \subseteq 1 .. Len(f.secs)
      /\ OfKind(f, FALSE) \subseteq 1 .. Len(f.secs)
  BY KindFacts
<1>3. Len(memList) = a /\ Len(flashList) = b
  BY <1>2, SortedFacts
<1>4. a <= snum /\ b <= snum - a /\ snum - a \in Int
  <2>1. ASSUME NEW x \in Nat, NEW y \in Nat, NEW z \in Nat, x + y = z, z <= snum
        PROVE  x <= snum /\ y <= snum - x /\ snum - x \in Int
    BY <2>1
  <2> HIDE DEF a, b
  <2>2. QED
    BY <1>1, <2>1
<1>5. Taken(f, snum, TRUE) = OfKind(f, TRUE)
  BY <1>4, TakenAll
<1>6. Taken(f, snum - a, FALSE) = OfKind(f, FALSE)
  BY <1>4, TakenAll
<1>7. CreateFile(f, snum) = [mem |-> memList, flash |-> flashList]
  BY <1>3, <1>5, <1>6 DEF CreateFile
<1>8. Full(f).mem = memList /\ Full(f).flash = flashList
  BY DEF Full
<1> HIDE DEF a, b, memList, flashList
<1>9. QED
  BY <1>1, <1>3, <1>7, <1>8 DEF Full, memList, flashList

LEMMA ListFacts ==
    ASSUME NEW l \in Lists
    PROVE  l \in Seq(File) /\ Len(l) \in Nat /\ \A k \in 1 .. Len(l) : l[k] \in File
BY ListsAssumption, LenProperties, ElementOfSeq

(* The file being loaded finds room for all its sections. *)
LEMMA RoomLeft ==
    ASSUME SInv, i <= Len(list)
    PROVE  /\ i \in 1 .. Len(list) /\ list[i] \in File
           /\ CreateFile(list[i], secCount - secIdx) = Full(list[i])
           /\ Len(Full(list[i]).mem) \in Nat /\ Len(Full(list[i]).flash) \in Nat
           /\ SecSum(list)[(i + 1) - 1]
                = secIdx + Len(Full(list[i]).mem) + Len(Full(list[i]).flash)
           /\ Full(list[i]).mem = <<>> => Len(Full(list[i]).mem) = 0
           /\ Len(list[i].secs) \in Nat /\ secIdx + Len(list[i].secs) <= secCount
           /\ secIdx \in Nat /\ secCount \in Nat
           /\ Len(Full(list[i]).mem) <= Len(list[i].secs)
<1> DEFINE n == Len(list)
<1>0. list \in Seq(File) /\ n \in Nat /\ i \in 1 .. n + 1 /\ list \in Lists
  BY ListFacts DEF SInv
<1>1. i \in 1 .. n /\ list[i] \in File
  BY <1>0, ListFacts
<1>2. secCount = SecCount(list) /\ secIdx = SecSum(list)[i - 1]
  BY DEF SInv
<1> DEFINE x == SecSum(list)[i - 1]
           y == SecSum(list)[i]
           c == SecCount(list)
           w == Len(list[i].secs)
<1>3. x \in Nat /\ y \in Nat /\ y <= c /\ y = x + w /\ w \in Nat /\ c \in Nat
  <2>1. i - 1 \in 0 .. n /\ i \in 0 .. n /\ n \in 0 .. n
    BY <1>0, <1>1
  <2>2. QED
    BY <1>0, <1>1, <2>1, SecSumFacts
<1> HIDE DEF x, y, c, w
<1>4. w <= c - x /\ c - x \in Int
  BY <1>3
<1>5. /\ CreateFile(list[i], c - x) = Full(list[i])
      /\ Len(Full(list[i]).mem) \in Nat /\ Len(Full(list[i]).flash) \in Nat
      /\ Len(Full(list[i]).mem) + Len(Full(list[i]).flash) = w
  BY <1>1, <1>4, CreateFileFull DEF w
<1>6. (i + 1) - 1 = i
  BY <1>0
<1>7. secIdx = x /\ secCount = c
  BY <1>2 DEF x, c
<1>8. SecSum(list)[(i + 1) - 1] = secIdx + Len(Full(list[i]).mem) + Len(Full(list[i]).flash)
  <2>0. ASSUME NEW u \in Nat, NEW v \in Nat, u + v = w PROVE y = x + u + v
    BY <1>3, <2>0
  <2>1. y = x + Len(Full(list[i]).mem) + Len(Full(list[i]).flash)
    BY <1>5, <2>0
  <2>2. QED
    BY <1>6, <1>7, <2>1 DEF y
<1>9. w \in Nat /\ x + w <= c /\ x \in Nat /\ c \in Nat /\ Len(Full(list[i]).mem) <= w
  <2>1. ASSUME NEW u \in Nat, NEW v \in Nat, u + v = w PROVE u <= w
    BY <2>1, <1>3
  <2>2. QED
    BY <1>3, <1>5, <2>1
<1>10. QED
  BY <1>1, <1>5, <1>7, <1>8, <1>9 DEF w

LEMMA SInvInit == Init => SInv
<1> SUFFICES ASSUME Init PROVE SInv
  OBVIOUS
<1>0. list \in Seq(File) /\ Len(list) \in Nat
  BY ListFacts DEF Init
<1>1. SecSum(list)[1 - 1] = 0
  BY <1>0, SecSumFacts
<1>2. QED
  BY <1>0, <1>1 DEF Init, SInv

(* A file that finds the array used up has no sections. *)
LEMMA NoneLeft ==
    ASSUME SInv, NoEntries
    PROVE  i \in 1 .. Len(list) /\ Len(list[i].secs) = 0 /\ Len(Full(list[i]).mem) = 0
<1>0. i <= Len(list) /\ secIdx >= secCount
  BY DEF NoEntries
<1> DEFINE w == Len(list[i].secs)
           m == Len(Full(list[i]).mem)
<1>1. /\ i \in 1 .. Len(list) /\ w \in Nat /\ secIdx + w <= secCount /\ secIdx \in Nat
      /\ secCount \in Nat /\ m \in Nat /\ m <= w
  BY <1>0, RoomLeft
<1> HIDE DEF w, m
<1>2. w = 0 /\ m = 0
  BY <1>0, <1>1
<1>3. QED
  BY <1>1, <1>2 DEF w, m

LEMMA SInvNext == SInv /\ [Next]_vars => SInv'
<1> SUFFICES ASSUME SInv, [Next]_vars PROVE SInv'
  OBVIOUS
<1>0. list \in Lists /\ Len(list) \in Nat
  BY ListFacts DEF SInv
<1>1. CASE LoadFile
  <2>0. pc = "file" /\ i <= Len(list) /\ i \in 1 .. Len(list) + 1 /\ list' = list
    BY <1>1 DEF LoadFile, SInv
  <2> DEFINE F == Full(list[i])
  <2>1. /\ i \in 1 .. Len(list)
        /\ CreateFile(list[i], secCount - secIdx) = F
        /\ SecSum(list)[(i + 1) - 1] = secIdx + Len(F.mem) + Len(F.flash)
        /\ F.mem = <<>> => Len(F.mem) = 0
        /\ Len(F.mem) \in Nat /\ Len(F.flash) \in Nat
    BY <2>0, RoomLeft
  <2> HIDE DEF F
  <2>2. lists' = [lists EXCEPT ![i] = F]
    BY <1>1, <2>1 DEF LoadFile
  <2>3. \A k \in 1 .. Len(list) : k <= i => lists'[k] = Full(list[k])
    BY <2>0, <2>1, <2>2, <1>0 DEF SInv, F
  <2>4. CASE F.mem = <<>>
    <3>1. i' = i + 1 /\ secIdx' = secIdx + Len(F.flash) /\ pc' = pc
      BY <1>1, <2>1, <2>4 DEF LoadFile
    <3>2. secIdx' = SecSum(list)[i' - 1]
      <4>1. secIdx \in Nat
        <5>1. i - 1 \in 0 .. Len(list) /\ list \in Seq(File)
          BY <2>1, <1>0, ListFacts
        <5>2. QED
          BY <5>1, SecSumFacts DEF SInv
      <4>2. QED
        BY <2>1, <2>4, <3>1, <4>1
    <3>3. i' \in 1 .. Len(list) + 1
      BY <2>0, <2>1, <3>1, <1>0
    <3>4. \A k \in 1 .. Len(list) : k < i' => lists'[k] = Full(list[k])
      BY <2>3, <3>1, <2>1, <1>0
    <3>5. QED
      BY <1>0, <1>1, <2>0, <2>2, <3>1, <3>2, <3>3, <3>4 DEF LoadFile, SInv
  <2>5. CASE F.mem # <<>>
    <3>1. pc' = "alloc" /\ i' = i /\ secIdx' = secIdx
      BY <1>1, <2>1, <2>5 DEF LoadFile
    <3>2. \A k \in 1 .. Len(list) : (k < i' \/ k = i') => lists'[k] = Full(list[k])
      BY <2>3, <3>1, <2>1, <1>0
    <3>3. QED
      BY <1>0, <1>1, <2>0, <2>2, <3>1, <3>2 DEF LoadFile, SInv
  <2>6. QED
    BY <2>4, <2>5
<1>2. CASE PlaceSection
  BY <1>2 DEF PlaceSection, SInv
<1>3. CASE AllocDone
  BY <1>3 DEF AllocDone, SInv
<1>4. CASE ApplyFixups
  <2>0. pc = "fixup" /\ i <= Len(list) /\ i \in 1 .. Len(list) + 1 /\ list' = list
    BY <1>4 DEF ApplyFixups, SInv
  <2>1. SecSum(list)[(i + 1) - 1]
          = secIdx + Len(Full(list[i]).mem) + Len(Full(list[i]).flash)
    BY <2>0, RoomLeft
  <2>2. lists[i] = Full(list[i])
    BY <2>0, <1>0 DEF SInv
  <2>3. secIdx' = SecSum(list)[i' - 1] /\ i' = i + 1
    BY <1>4, <2>1, <2>2 DEF ApplyFixups
  <2>4. \A k \in 1 .. Len(list) : k < i' => lists[k] = Full(list[k])
    BY <2>0, <2>2, <2>3, <1>0 DEF SInv
  <2>5. QED
    BY <1>0, <1>4, <2>0, <2>3, <2>4 DEF ApplyFixups, SInv
<1>5. CASE NoRofixup
  BY <1>5 DEF NoRofixup, SInv
<1>6. CASE LoadDone
  BY <1>0, <1>6 DEF LoadDone, SInv
<1>7. CASE NoEntries
  <2>1. Len(list[i].secs) = 0
    BY <1>7, NoneLeft
  <2>2. QED
    BY <1>0, <1>7, <2>1 DEF NoEntries, SInv
<1>8. CASE UNCHANGED vars
  BY <1>8 DEF vars, SInv
<1>9. QED
  BY <1>1, <1>2, <1>3, <1>4, <1>5, <1>6, <1>7, <1>8 DEF Next

LEMMA SInvAlways == Spec => []SInv
<1>1. QED
  BY SInvInit, SInvNext, PTL DEF Spec

(* The array of section records that all the files share is counted over the
   list and handed to uld_load_file piece by piece: whatever the files, each one
   finds room for all its sections, and a load that succeeds uses all of it. *)
THEOREM ArrayIsExact == Spec => []SecListExact
<1>1. SInv => SecListExact
  <2> SUFFICES ASSUME SInv, Loaded PROVE
        /\ secIdx = secCount
        /\ \A k \in 1 .. Len(list) :
              Len(lists[k].mem) + Len(lists[k].flash) = Len(list[k].secs)
    BY DEF SecListExact, SInv
  <2>0. list \in Seq(File) /\ Len(list) \in Nat /\ \A k \in 1 .. Len(list) : list[k] \in File
    BY ListFacts DEF SInv
  <2>1. i = Len(list) + 1
    BY DEF SInv, Loaded
  <2>2. secIdx = secCount
    <3>1. i - 1 = Len(list)
      BY <2>0, <2>1
    <3>2. QED
      BY <2>0, <3>1, SecSumFacts DEF SInv
  <2>3. ASSUME NEW k \in 1 .. Len(list)
        PROVE  Len(lists[k].mem) + Len(lists[k].flash) = Len(list[k].secs)
    <3>1. lists[k] = Full(list[k])
      BY <2>0, <2>1 DEF SInv
    <3>2. list[k] \in File /\ Len(list[k].secs) \in Int
      BY <2>0, SecTypes
    <3>3. Len(list[k].secs) <= Len(list[k].secs)
      BY <3>2
    <3>4. QED
      BY <3>1, <3>2, <3>3, CreateFileFull
  <2>4. QED
    BY <2>2, <2>3
<1>2. QED
  BY <1>1, SInvAlways, PTL

-----------------------------------------------------------------------------
(* Packed files *)

(* The sorted list of a file's memory sections holds each of them, and nothing
   else. *)
LEMMA MemListFacts ==
    ASSUME NEW f \in File
    PROVE  LET L == Full(f).mem
           IN  /\ Len(L) \in Nat /\ DOMAIN L = 1 .. Len(L)
               /\ L = <<>> <=> Len(L) = 0
               /\ \A k \in 1 .. Len(L) : /\ L[k] \in Section /\ L[k].addr \in Nat
                                         /\ L[k].size \in Nat \ {0} /\ L[k].ptr \in Nat
                                         /\ L[k].nobits \in BOOLEAN /\ IsMem(L[k])
               /\ \A k \in 1 .. Len(L) : \E a \in MemIdx(f) : L[k] = f.secs[a]
               /\ \A a \in MemIdx(f) : \E k \in 1 .. Len(L) : L[k] = f.secs[a]
               /\ \A k, m \in 1 .. Len(L) : k < m =>
                     /\ L[k].addr <= L[m].addr
                     /\ \E a, b \in MemIdx(f) : a # b /\ L[k] = f.secs[a] /\ L[m] = f.secs[b]
<1> DEFINE L == Full(f).mem
           S == MemIdx(f)
           n == Cardinality(S)
<1>1. S = OfKind(f, TRUE)
  BY DEF OfKind, MemIdx, IsMem
<1>2. S \subseteq 1 .. Len(f.secs) /\ \A a \in S : IsMem(f.secs[a])
  BY DEF MemIdx
<1>3. L = Sorted(f, S)
  BY <1>1 DEF Full
<1> HIDE DEF L, S
<1>4. /\ n \in Nat
      /\ L = [k \in 1 .. n |-> f.secs[At(f, S, k)]]
      /\ Len(L) = n
      /\ \A k \in 1 .. n : At(f, S, k) \in S
      /\ \A a \in S : \E k \in 1 .. n : At(f, S, k) = a
      /\ \A k, m \in 1 .. n : k < m => Before(f, At(f, S, k), At(f, S, m))
  BY <1>2, <1>3, SortedFacts, ZenonT(40)
<1> HIDE DEF n
<1>5. \A k \in 1 .. n : L[k] = f.secs[At(f, S, k)] /\ At(f, S, k) \in S
  BY <1>4
<1>6. \A k \in 1 .. n : /\ L[k] \in Section /\ L[k].addr \in Nat
                        /\ L[k].size \in Nat \ {0} /\ L[k].ptr \in Nat
                        /\ L[k].nobits \in BOOLEAN /\ IsMem(L[k])
  BY <1>2, <1>5, SecTypes
<1>7. \A a \in S : \E k \in 1 .. n : L[k] = f.secs[a]
  BY <1>4, <1>5
<1>8. ASSUME NEW k \in 1 .. n, NEW m \in 1 .. n, k < m
      PROVE  /\ L[k].addr <= L[m].addr
             /\ \E a, b \in S : a # b /\ L[k] = f.secs[a] /\ L[m] = f.secs[b]
  <2> DEFINE a == At(f, S, k)
             b == At(f, S, m)
  <2>1. a \in S /\ b \in S /\ L[k] = f.secs[a] /\ L[m] = f.secs[b] /\ Before(f, a, b)
    BY <1>4, <1>5, <1>8
  <2> HIDE DEF a, b
  <2>2. a \in 1 .. Len(f.secs) /\ b \in 1 .. Len(f.secs)
    BY <1>2, <2>1
  <2>3. a # b
    BY <2>1, <2>2, BeforeOrders
  <2>4. f.secs[a].addr <= f.secs[b].addr
    <3>1. f.secs[a].addr \in Nat /\ f.secs[b].addr \in Nat
      BY <2>2, SecTypes
    <3>2. QED
      BY <2>1, <3>1 DEF Before
  <2>5. QED
    BY <2>1, <2>3, <2>4
<1>9. L = <<>> <=> Len(L) = 0
  BY <1>4
<1>10. DOMAIN L = 1 .. n
  BY <1>4
<1>11. Len(L) = n
  BY <1>4
<1>12. \A k \in 1 .. n : \E a \in S : L[k] = f.secs[a]
  BY <1>5
<1>13. \A k, m \in 1 .. n : k < m =>
          /\ L[k].addr <= L[m].addr
          /\ \E a, b \in S : a # b /\ L[k] = f.secs[a] /\ L[m] = f.secs[b]
  BY <1>8
<1>14. /\ Len(L) \in Nat /\ DOMAIN L = 1 .. Len(L)
       /\ L = <<>> <=> Len(L) = 0
       /\ \A k \in 1 .. Len(L) : /\ L[k] \in Section /\ L[k].addr \in Nat
                                  /\ L[k].size \in Nat \ {0} /\ L[k].ptr \in Nat
                                  /\ L[k].nobits \in BOOLEAN /\ IsMem(L[k])
  BY <1>4, <1>6, <1>9, <1>10, <1>11
<1>15. /\ \A k \in 1 .. Len(L) : \E a \in S : L[k] = f.secs[a]
       /\ \A a \in S : \E k \in 1 .. Len(L) : L[k] = f.secs[a]
  BY <1>7, <1>11, <1>12
<1>16. \A k, m \in 1 .. Len(L) : k < m =>
          /\ L[k].addr <= L[m].addr
          /\ \E a, b \in S : a # b /\ L[k] = f.secs[a] /\ L[m] = f.secs[b]
  BY <1>11, <1>13
<1>17. QED
  BY <1>14, <1>15, <1>16 DEF L, S

(* In a packed file each section of the list begins where the one before it
   ends, and no two of them share a name or a word. *)
LEMMA PackedFacts ==
    ASSUME NEW f \in File, Packed(f)
    PROVE  LET L == Full(f).mem
           IN  /\ \A k, m \in 1 .. Len(L) : k # m => L[k].name # L[m].name
               /\ \A k, m \in 1 .. Len(L) : k < m => EndOf(L[k]) <= L[m].addr
               /\ \A k \in 1 .. Len(L) : k + 1 <= Len(L) => L[k + 1].addr = EndOf(L[k])
               /\ \A k \in 1 .. Len(L) : L[1].addr <= L[k].addr
<1> DEFINE L == Full(f).mem
           n == Len(L)
<1>0. /\ n \in Nat
      /\ \A k \in 1 .. n : L[k].addr \in Nat /\ L[k].size \in Nat \ {0}
      /\ \A k \in 1 .. n : \E a \in MemIdx(f) : L[k] = f.secs[a]
      /\ \A a \in MemIdx(f) : \E k \in 1 .. n : L[k] = f.secs[a]
      /\ \A k, m \in 1 .. n : k < m =>
            /\ L[k].addr <= L[m].addr
            /\ \E a, b \in MemIdx(f) : a # b /\ L[k] = f.secs[a] /\ L[m] = f.secs[b]
  BY MemListFacts
<1> HIDE DEF L
<1>1. ASSUME NEW k \in 1 .. n, NEW m \in 1 .. n, k < m
      PROVE  L[k].name # L[m].name /\ EndOf(L[k]) <= L[m].addr
  <2>1. PICK a \in MemIdx(f), b \in MemIdx(f) : a # b /\ L[k] = f.secs[a] /\ L[m] = f.secs[b]
    BY <1>0, <1>1
  <2>2. /\ L[k].name # L[m].name
        /\ EndOf(L[k]) <= L[m].addr \/ EndOf(L[m]) <= L[k].addr
    BY <2>1 DEF Packed
  <2>3. L[k].addr <= L[m].addr /\ L[k].addr \in Nat /\ L[m].addr \in Nat /\ L[m].size \in Nat \ {0}
    BY <1>0, <1>1
  <2>4. QED
    BY <2>2, <2>3 DEF EndOf
<1>2. \A k, m \in 1 .. n : k # m => L[k].name # L[m].name
  <2> SUFFICES ASSUME NEW k \in 1 .. n, NEW m \in 1 .. n, k # m PROVE L[k].name # L[m].name
    OBVIOUS
  <2>1. k < m \/ m < k
    BY <1>0
  <2>2. QED
    BY <1>1, <2>1
<1>3. ASSUME NEW k \in 1 .. n, k + 1 <= n
      PROVE  L[k + 1].addr = EndOf(L[k])
  <2> DEFINE h == k + 1
  <2>0. h \in 1 .. n /\ k < h
    BY <1>0, <1>3
  <2>1. PICK b \in MemIdx(f) : L[h] = f.secs[b]
    BY <1>0, <2>0
  <2>2. PICK c \in MemIdx(f) : L[k] = f.secs[c]
    BY <1>0
  <2>3. EndOf(L[k]) <= L[h].addr
    BY <1>1, <2>0
  <2>4. L[k].addr \in Nat /\ L[h].addr \in Nat /\ L[k].size \in Nat \ {0}
    BY <1>0, <2>0
  <2>5. ~(L[h].addr <= L[k].addr)
    BY <2>3, <2>4 DEF EndOf
  <2>6. PICK a \in MemIdx(f) : EndOf(f.secs[a]) = L[h].addr
    BY <2>1, <2>2, <2>5 DEF Packed
  <2>7. PICK m \in 1 .. n : L[m] = f.secs[a]
    BY <1>0
  <2>8. EndOf(L[m]) = L[h].addr /\ L[m].addr \in Nat /\ L[m].size \in Nat \ {0}
    BY <1>0, <2>6, <2>7
  <2>9. ~(h < m)
    <3> SUFFICES ASSUME h < m PROVE FALSE
      OBVIOUS
    <3>1. EndOf(L[h]) <= L[m].addr /\ L[h].size \in Nat \ {0}
      BY <1>0, <1>1, <2>0
    <3>2. QED
      BY <2>4, <2>8, <3>1 DEF EndOf
  <2>10. m # h
    BY <2>4, <2>8 DEF EndOf
  <2>11. ~(m < k)
    <3> SUFFICES ASSUME m < k PROVE FALSE
      OBVIOUS
    <3>1. EndOf(L[m]) <= L[k].addr
      BY <1>1
    <3>2. L[k].addr < EndOf(L[k]) /\ EndOf(L[k]) \in Nat
      BY <2>4 DEF EndOf
    <3>3. L[h].addr <= L[k].addr
      BY <2>8, <3>1
    <3>4. QED
      BY <2>5, <3>3
  <2>12. m = k
    BY <1>0, <2>9, <2>10, <2>11
  <2>13. QED
    BY <2>8, <2>12
<1>4. ASSUME NEW k \in 1 .. n PROVE L[1].addr <= L[k].addr
  <2>1. 1 \in 1 .. n /\ (k = 1 \/ 1 < k)
    BY <1>0
  <2>2. L[1].addr \in Nat
    BY <1>0, <2>1
  <2>3. QED
    BY <1>0, <2>1, <2>2
<1>5. QED
  BY <1>1, <1>2, <1>3, <1>4 DEF L

-----------------------------------------------------------------------------
(* The places of the sections *)

LEMMA AlignUpFacts ==
    ASSUME NEW n \in Nat
    PROVE  AlignUp(n) \in Nat /\ AlignUp(n) >= n /\ AlignUp(n) % Align = 0
<1>0. Align \in Nat \ {0}
  BY AddressAssumption
<1> DEFINE q == (-n) \div Align
           r == (-n) % Align
<1>1. -n = Align * q + r /\ q \in Int /\ r \in 0 .. Align - 1
  <2>1. -n \in Int
    OBVIOUS
  <2>2. ASSUME NEW x \in Int
        PROVE  /\ x = Align * (x \div Align) + (x % Align)
               /\ x \div Align \in Int /\ x % Align \in 0 .. Align - 1
    BY <1>0
  <2>3. QED
    BY <2>1, <2>2
<1>2. AlignUp(n) = n + r
  BY DEF AlignUp
<1> HIDE DEF q, r
<1>3. Align * q \in Int /\ Align * (-q) = -(Align * q)
  BY <1>0, <1>1
<1>4. n + r = Align * (-q)
  BY <1>0, <1>1, <1>3
<1>5. (Align * (-q)) % Align = 0
  <2>1. ASSUME NEW a \in Nat \ {0}, NEW x \in Int PROVE (a * x) % a = 0
    OBVIOUS
  <2>2. -q \in Int
    BY <1>1
  <2>3. QED
    BY <1>0, <2>1, <2>2
<1>6. QED
  BY <1>0, <1>1, <1>2, <1>4, <1>5

LEMMA FMFacts ==
    ASSUME SInv, NEW k \in 1 .. Len(list)
    PROVE  /\ Len(FM(k)) \in Nat /\ (FM(k) = <<>> <=> Len(FM(k)) = 0)
           /\ \A m \in 1 .. Len(FM(k)) :
                 /\ FM(k)[m].addr \in Nat /\ FM(k)[m].size \in Nat \ {0}
                 /\ FM(k)[m].ptr \in Nat /\ FM(k)[m].nobits \in BOOLEAN /\ IsMem(FM(k)[m])
<1>1. list[k] \in File
  BY ListFacts DEF SInv
<1>2. QED
  BY <1>1, MemListFacts DEF FM

LEMMA FMPacked ==
    ASSUME SInv, AllPacked, NEW k \in 1 .. Len(list)
    PROVE  /\ \A m, h \in 1 .. Len(FM(k)) : m # h => FM(k)[m].name # FM(k)[h].name
           /\ \A m, h \in 1 .. Len(FM(k)) : m < h => EndOf(FM(k)[m]) <= FM(k)[h].addr
           /\ \A m \in 1 .. Len(FM(k)) :
                 m + 1 <= Len(FM(k)) => FM(k)[m + 1].addr = EndOf(FM(k)[m])
           /\ \A m \in 1 .. Len(FM(k)) : FM(k)[1].addr <= FM(k)[m].addr
<1>1. list[k] \in File /\ Packed(list[k])
  BY ListFacts DEF SInv, AllPacked
<1>2. QED
  BY <1>1, PackedFacts DEF FM

(* The sections of a file lie one after the other from its base on. *)
LEMMA OffFacts ==
    ASSUME SInv, AllPacked, Numbers, NEW k \in 1 .. Len(list), NEW m \in 1 .. Len(FM(k))
    PROVE  /\ Off(k, m) \in Nat /\ fileBase[k] <= Off(k, m) /\ fileBase[k] \in Nat
           /\ Off(k, m) = fileBase[k] + FM(k)[m].addr - FM(k)[1].addr
           /\ \A h \in 1 .. Len(FM(k)) : m < h => Off(k, m) + FM(k)[m].size <= Off(k, h)
           /\ m = 1 => Off(k, m) = fileBase[k]
<1>0. fileBase[k] \in Nat /\ 1 \in 1 .. Len(FM(k))
  BY FMFacts DEF Numbers
<1>1. /\ FM(k)[m].addr \in Nat /\ FM(k)[1].addr \in Nat /\ FM(k)[m].size \in Nat
      /\ FM(k)[1].addr <= FM(k)[m].addr
  BY <1>0, FMFacts, FMPacked
<1>2. ASSUME NEW h \in 1 .. Len(FM(k)), m < h
      PROVE  Off(k, m) + FM(k)[m].size <= Off(k, h)
  <2>1. EndOf(FM(k)[m]) <= FM(k)[h].addr /\ FM(k)[h].addr \in Nat
    BY <1>2, FMFacts, FMPacked
  <2>2. ASSUME NEW b \in Nat, NEW x \in Nat, NEW y \in Nat, NEW z \in Nat, NEW s \in Nat, y + s <= z
        PROVE  (b + y - x) + s <= b + z - x
    BY <2>2
  <2>3. QED
    BY <1>0, <1>1, <2>1, <2>2 DEF Off, EndOf
<1>3. ASSUME NEW b \in Nat, NEW x \in Nat, NEW y \in Nat, x <= y
      PROVE  b + y - x \in Nat /\ b <= b + y - x /\ b + x - x = b
  BY <1>3
<1>4. Off(k, m) = fileBase[k] + FM(k)[m].addr - FM(k)[1].addr
  BY DEF Off
<1>5. Off(k, m) \in Nat /\ fileBase[k] <= Off(k, m) /\ (m = 1 => Off(k, m) = fileBase[k])
  BY <1>0, <1>1, <1>3, <1>4
<1>6. QED
  BY <1>0, <1>2, <1>4, <1>5

LEMMA MemListIs ==
    ASSUME SInv, i <= Len(list), pc # "file", ret # -1
    PROVE  i \in 1 .. Len(list) /\ MemList = FM(i)
<1>1. i \in 1 .. Len(list)
  BY ListFacts DEF SInv
<1>2. QED
  BY <1>1 DEF SInv, MemList, FM

LEMMA PlacesKept ==
    ASSUME Places, list' = list, vma' = vma,
           \A k \in 1 .. Len(list) : \A m \in 1 .. Len(FM(k)) :
               /\ Placed(k, m)' <=> Placed(k, m)
               /\ Placed(k, m) => Off(k, m)' = Off(k, m)
    PROVE  Places'
<1>0. \A k : FM(k)' = FM(k)
  BY DEF FM
<1>1. ASSUME NEW p \in vma
      PROVE  \E k \in 1 .. Len(list) : \E m \in 1 .. Len(FM(k)) :
                 Placed(k, m)' /\ p = Entry(k, m)'
  <2>0. PICK k \in 1 .. Len(list) : \E m \in 1 .. Len(FM(k)) : Placed(k, m) /\ p = Entry(k, m)
    BY DEF Places
  <2>1. PICK m \in 1 .. Len(FM(k)) : Placed(k, m) /\ p = Entry(k, m)
    BY <2>0
  <2>2. Placed(k, m)' /\ Entry(k, m)' = Entry(k, m)
    BY <1>0, <2>1 DEF Entry
  <2>3. QED
    BY <2>1, <2>2
<1>2. ASSUME NEW k \in 1 .. Len(list), NEW m \in 1 .. Len(FM(k)), Placed(k, m)'
      PROVE  Entry(k, m)' \in vma
  <2>1. Placed(k, m) /\ Entry(k, m)' = Entry(k, m)
    BY <1>0, <1>2 DEF Entry
  <2>2. QED
    BY <2>1 DEF Places
<1>3. QED
  BY <1>0, <1>1, <1>2 DEF Places

LEMMA NextMembaseFacts ==
    ASSUME NEW a \in Nat, NEW s \in Nat
    PROVE  /\ NextMembase(a, s) \in Nat /\ NextMembase(a, s) >= BssEnd
           /\ NextMembase(a, s) % Align = 0
           /\ a >= BssEnd => NextMembase(a, s) >= a + s
<1>0. BssEnd \in Nat
  BY AddressAssumption
<1> DEFINE n == IF a >= BssEnd THEN a + s ELSE BssEnd
<1>1. n \in Nat /\ n >= BssEnd /\ (a >= BssEnd => n >= a + s)
  BY <1>0
<1>2. NextMembase(a, s) = AlignUp(n)
  BY DEF NextMembase
<1> HIDE DEF n
<1>3. AlignUp(n) \in Nat /\ AlignUp(n) >= n /\ AlignUp(n) % Align = 0
  BY <1>1, AlignUpFacts
<1>4. ASSUME NEW x \in Nat, NEW y \in Nat, NEW z \in Nat, x >= y, y >= z PROVE x >= z
  BY <1>4
<1>5. a >= BssEnd => AlignUp(n) >= a + s
  <2>1. a + s \in Nat
    OBVIOUS
  <2>2. QED
    BY <1>1, <1>3, <1>4, <2>1
<1>6. QED
  BY <1>0, <1>1, <1>2, <1>3, <1>4, <1>5

LEMMA VInvInit == Init => VInv
<1> SUFFICES ASSUME Init, AllPacked PROVE Numbers /\ Filling /\ Places /\ Bases
  BY DEF VInv
<1>0. Len(list) \in Nat
  BY ListFacts DEF Init
<1>1. base0 \in Nat /\ base0 >= BssEnd
  BY NextMembaseFacts DEF Init
<1>2. Numbers
  <2>1. /\ membase = base0 /\ allocated = 0 /\ ptr = 0 /\ dlAllocBase = 0 /\ start = 0 /\ j = 1
        /\ mem = [a \in BssEnd .. RamEnd |-> Untouched] /\ trapped = FALSE
        /\ fileBase = [k \in 1 .. Len(list) |-> 0]
    BY DEF Init
  <2>2. {base0, membase, allocated, ptr, dlAllocBase} \subseteq Nat /\ start \in Int /\ j \in Nat
    BY <1>1, <2>1
  <2>3. DOMAIN mem = BssEnd .. RamEnd /\ fileBase \in [1 .. Len(list) -> Nat]
    BY <2>1
  <2>4. QED
    BY <1>1, <2>1, <2>2, <2>3 DEF Numbers
<1>3. Filling
  BY DEF Init, Filling
<1>4. \A k \in 1 .. Len(list) : ~(k < i) /\ ~(k = i /\ pc # "file")
  BY <1>0 DEF Init
<1>5. Places
  BY <1>4 DEF Init, Places, Placed
<1>6. Bases
  BY <1>4 DEF Bases, Begun
<1>7. QED
  BY <1>2, <1>3, <1>5, <1>6

(* uld_load_file finds no memory sections in the file. *)
LEMMA VSkipFile ==
    ASSUME SInv, AllPacked, Numbers, Filling, Places, Bases, LoadFile, FM(i) = <<>>
    PROVE  Numbers' /\ Filling' /\ Places' /\ Bases'
<1>0. /\ pc = "file" /\ i <= Len(list) /\ i \in 1 .. Len(list) /\ Len(list) \in Nat
      /\ CreateFile(list[i], secCount - secIdx).mem = FM(i)
  <2>1. pc = "file" /\ i <= Len(list)
    BY DEF LoadFile
  <2>2. QED
    BY <2>1, RoomLeft, ListFacts DEF FM, SInv
<1>1. /\ i' = i + 1
      /\ UNCHANGED <<pc, j, membase, start, ptr, fileBase, list, ret, base0, allocated, mem, vma,
                     dlAllocBase, trapped>>
  BY <1>0 DEF LoadFile
<1>2. Numbers'
  BY <1>1 DEF Numbers
<1>3. Filling'
  BY <1>0, <1>1 DEF Filling
<1>4. \A k : FM(k)' = FM(k)
  BY <1>1 DEF FM
<1>5. \A k, m : Off(k, m)' = Off(k, m)
  BY <1>1, <1>4 DEF Off
<1>6. \A m : m \notin 1 .. Len(FM(i))
  BY <1>0, FMFacts
<1>7. ASSUME NEW k \in 1 .. Len(list), NEW m \in 1 .. Len(FM(k))
      PROVE  (k < i' <=> k < i) /\ (Placed(k, m)' <=> Placed(k, m))
  <2>1. k # i
    BY <1>6
  <2>2. k < i + 1 <=> k < i
    BY <1>0, <2>1
  <2>3. QED
    BY <1>0, <1>1, <1>4, <2>2 DEF Placed
<1>8. Places'
  BY <1>1, <1>5, <1>7, PlacesKept
<1>9. ASSUME NEW k \in 1 .. Len(list) PROVE Begun(k)' <=> Begun(k)
  <2>1. k # i => (k < i + 1 <=> k < i)
    BY <1>0
  <2>2. QED
    BY <1>0, <1>1, <1>4, <2>1 DEF Begun
<1>10. Bases'
  BY <1>0, <1>1, <1>4, <1>5, <1>7, <1>9 DEF Bases
<1>11. QED
  BY <1>2, <1>3, <1>8, <1>10

(* uld_load_file chooses the base of a file, above all the files before it. *)
LEMMA VBeginFile ==
    ASSUME SInv, AllPacked, Numbers, Filling, Places, Bases, LoadFile, FM(i) # <<>>
    PROVE  Numbers' /\ Filling' /\ Places' /\ Bases'
<1>0. /\ pc = "file" /\ i <= Len(list) /\ i \in 1 .. Len(list) /\ Len(list) \in Nat
      /\ CreateFile(list[i], secCount - secIdx).mem = FM(i)
  <2>1. pc = "file" /\ i <= Len(list)
    BY DEF LoadFile
  <2>2. QED
    BY <2>1, RoomLeft, ListFacts DEF FM, SInv
<1> DEFINE next == NextMembase(membase, allocated)
<1>1. /\ membase' = next /\ start' = next /\ ptr' = next /\ j' = 1 /\ pc' = "alloc"
      /\ fileBase' = [fileBase EXCEPT ![i] = next]
      /\ UNCHANGED <<i, list, ret, base0, allocated, mem, vma, dlAllocBase, trapped>>
  BY <1>0 DEF LoadFile
<1>2. /\ membase \in Nat /\ allocated \in Nat /\ membase >= BssEnd
      /\ next \in Nat /\ next >= BssEnd /\ next >= membase + allocated /\ next % Align = 0
  BY NextMembaseFacts DEF Numbers
<1> HIDE DEF next
<1>3. \A k : FM(k)' = FM(k)
  BY <1>1 DEF FM
<1>4. /\ fileBase \in [1 .. Len(list) -> Nat] /\ fileBase'[i] = next
      /\ \A k \in 1 .. Len(list) : k # i => fileBase'[k] = fileBase[k]
  BY <1>0, <1>1 DEF Numbers
<1>5. \A k \in 1 .. Len(list) : k # i => \A m : Off(k, m)' = Off(k, m)
  BY <1>3, <1>4 DEF Off
<1>6. Numbers'
  BY <1>0, <1>1, <1>2, <1>4 DEF Numbers
<1>7. Len(FM(i)) \in Nat /\ 1 \in 1 .. Len(FM(i)) /\ FM(i)[1].addr \in Nat
  BY <1>0, FMFacts
<1>8. Filling'
  <2>1. Here' = next
    <3>1. Here' = next + FM(i)[1].addr - FM(i)[1].addr
      BY <1>1, <1>3, <1>7 DEF Here
    <3>2. QED
      BY <1>2, <1>7, <3>1
  <2>2. j' \in 1 .. Len(FM(i)) + 1
    BY <1>1, <1>7
  <2>3. QED
    BY <1>1, <1>3, <1>4, <2>1, <2>2 DEF Filling
<1>9. ASSUME NEW k \in 1 .. Len(list), NEW m \in 1 .. Len(FM(k))
      PROVE  (Placed(k, m)' <=> Placed(k, m)) /\ (Placed(k, m) => k # i)
  <2>1. ~(m < 1)
    BY FMFacts
  <2>2. k < i => k # i
    BY <1>0
  <2>3. QED
    BY <1>0, <1>1, <1>3, <2>1, <2>2 DEF Placed
<1>10. Places'
  BY <1>1, <1>5, <1>9, PlacesKept
<1>11. ASSUME NEW k \in 1 .. Len(list)
       PROVE  Begun(k)' <=> Begun(k) \/ k = i
  BY <1>0, <1>1, <1>3 DEF Begun
<1>12. ASSUME NEW k \in 1 .. Len(list), Begun(k)'
       PROVE  fileBase'[k] >= BssEnd /\ fileBase'[k] % Align = 0
  <2>1. CASE k = i
    BY <1>2, <1>4, <2>1
  <2>2. CASE k # i
    BY <1>4, <1>11, <1>12, <2>2 DEF Bases
  <2>3. QED
    BY <2>1, <2>2
<1>13. ASSUME NEW k \in 1 .. Len(list), NEW m \in 1 .. Len(FM(k)), k < i
       PROVE  Off(k, m)' + FM(k)[m].size <= next
  <2>1. Off(k, m) + FM(k)[m].size <= membase + allocated
    BY <1>0, <1>13 DEF Bases
  <2>2. Off(k, m) \in Nat /\ FM(k)[m].size \in Nat /\ Off(k, m)' = Off(k, m)
    BY <1>0, <1>5, <1>13, OffFacts, FMFacts
  <2>3. QED
    BY <1>2, <2>1, <2>2
<1>14. ASSUME NEW k \in 1 .. Len(list), NEW h \in 1 .. Len(list), NEW m \in 1 .. Len(FM(k)),
              k < h, Begun(h)'
       PROVE  Off(k, m)' + FM(k)[m].size <= fileBase'[h]
  <2>1. CASE h = i
    BY <1>4, <1>13, <1>14, <2>1
  <2>2. CASE h # i
    <3>1. h < i /\ Begun(h)
      BY <1>0, <1>11, <1>14, <2>2 DEF Begun
    <3>2. k # i
      BY <1>0, <1>14, <3>1
    <3>3. Off(k, m) + FM(k)[m].size <= fileBase[h]
      BY <1>14, <3>1 DEF Bases
    <3>4. QED
      BY <1>4, <1>5, <2>2, <3>2, <3>3
  <2>3. QED
    BY <2>1, <2>2
<1>15. Bases'
  BY <1>1, <1>3, <1>12, <1>13, <1>14 DEF Bases
<1>16. QED
  BY <1>6, <1>8, <1>10, <1>15

(* In a packed file a section is placed where the file's layout has it. *)
LEMMA PlaceFacts ==
    ASSUME SInv, AllPacked, Numbers, Filling, PlaceSection
    PROVE  /\ pc = "alloc" /\ i \in 1 .. Len(list) /\ MemList = FM(i) /\ Len(FM(i)) \in Nat
           /\ j \in 1 .. Len(FM(i)) /\ GapAt = 0
           /\ ptr = Off(i, j) /\ ptr' = Off(i, j) + FM(i)[j].size /\ ptr' = Here'
           /\ j' = j + 1 /\ start' = start /\ trapped' = trapped
           /\ vma' = vma \cup {Entry(i, j)}
           /\ mem' = [a \in DOMAIN mem |->
                        IF a \in Off(i, j) .. Off(i, j) + FM(i)[j].size - 1
                        THEN Word(i, FM(i)[j], a - Off(i, j)) ELSE mem[a]]
           /\ UNCHANGED <<list, pc, ret, i, base0, membase, allocated, fileBase, dlAllocBase>>
<1>0. pc = "alloc" /\ i \in 1 .. Len(list) /\ MemList = FM(i)
  <2>1. pc = "alloc"
    BY DEF PlaceSection
  <2>2. QED
    BY <2>1, MemListIs DEF SInv
<1> DEFINE L == FM(i)
           n == Len(FM(i))
<1>1. n \in Nat /\ j \in 1 .. n /\ j <= n /\ 1 \in 1 .. n
  <2>1. n \in Nat /\ L # <<>> /\ j \in 1 .. n + 1 /\ j <= n
    BY <1>0, FMFacts DEF Filling, PlaceSection
  <2>2. QED
    BY <2>1
<1>2. /\ \A m \in 1 .. n : L[m].addr \in Nat /\ L[m].size \in Nat \ {0}
      /\ \A m \in 1 .. n : m + 1 <= n => L[m + 1].addr = EndOf(L[m])
  BY <1>0, FMFacts, FMPacked
<1>3. membase \in Nat /\ membase = fileBase[i] /\ ptr = Here
  BY <1>0 DEF Numbers, Filling
<1> HIDE DEF L
<1>4. GapAt = 0
  <2>1. CASE j = 1
    BY <2>1 DEF GapAt
  <2>2. CASE j # 1
    <3>1. j - 1 \in 1 .. n /\ (j - 1) + 1 = j
      BY <1>1, <2>2
    <3>2. L[j].addr = L[j - 1].addr + L[j - 1].size
      BY <1>1, <1>2, <3>1 DEF EndOf
    <3>3. L[j - 1].addr \in Nat /\ L[j - 1].size \in Nat
      BY <1>2, <3>1
    <3>4. GapAt = IF L[j - 1].nobits THEN 0 ELSE L[j].addr - L[j - 1].addr - L[j - 1].size
      BY <1>0, <2>2 DEF GapAt, Gap, L
    <3>5. ASSUME NEW x \in Nat, NEW y \in Nat, NEW z, z = x + y PROVE z - x - y = 0
      BY <3>5
    <3>6. L[j].addr - L[j - 1].addr - L[j - 1].size = 0
      BY <3>2, <3>3, <3>5
    <3>7. QED
      BY <3>4, <3>6
  <2>3. QED
    BY <2>1, <2>2
<1>5. ptr = Off(i, j)
  BY <1>1, <1>3 DEF Here, Off
<1>6. /\ j' = j + 1 /\ start' = start /\ trapped' = trapped /\ ptr' = ptr + L[j].size
      /\ vma' = vma \cup {[file |-> i, name |-> L[j].name, at |-> ptr]}
      /\ mem' = [a \in DOMAIN mem |->
                   IF a \in ptr .. ptr + L[j].size - 1 THEN Word(i, L[j], a - ptr) ELSE mem[a]]
      /\ UNCHANGED <<list, pc, ret, i, base0, membase, allocated, fileBase, dlAllocBase>>
  <2>1. ~(0 > 0) /\ ~(0 < 0)
    OBVIOUS
  <2>2. trapped \in BOOLEAN
    BY DEF Numbers
  <2>3. start' = start
    BY <1>4, <2>1 DEF PlaceSection
  <2>4. trapped' = trapped
    BY <1>4, <2>1, <2>2 DEF PlaceSection
  <2>5. QED
    BY <1>0, <2>3, <2>4 DEF PlaceSection, L
<1>7. ptr' = Here'
  <2>1. L' = L
    BY <1>6 DEF L, FM
  <2>2. Here' = membase + (IF j + 1 <= n THEN L[j + 1].addr ELSE EndOf(L[n])) - L[1].addr
    BY <1>6, <2>1 DEF Here, L
  <2>3. ptr = membase + L[j].addr - L[1].addr
    BY <1>3, <1>5 DEF Off, L
  <2>4. (IF j + 1 <= n THEN L[j + 1].addr ELSE EndOf(L[n])) = L[j].addr + L[j].size
    <3>1. ~(j + 1 <= n) => j = n
      BY <1>1
    <3>2. QED
      BY <1>1, <1>2, <3>1 DEF EndOf
  <2>5. ASSUME NEW a \in Nat, NEW b \in Nat, NEW c \in Nat, NEW d \in Nat
        PROVE  a + b - c + d = a + (b + d) - c
    OBVIOUS
  <2>6. L[j].addr \in Nat /\ L[j].size \in Nat /\ L[1].addr \in Nat
    BY <1>1, <1>2
  <2>7. QED
    BY <1>3, <1>6, <2>2, <2>3, <2>4, <2>5, <2>6, SMTT(30)
<1>8. QED
  BY <1>0, <1>1, <1>4, <1>5, <1>6, <1>7 DEF L, Entry

LEMMA VPlaceSection ==
    ASSUME SInv, AllPacked, Numbers, Filling, Places, Bases, PlaceSection
    PROVE  Numbers' /\ Filling' /\ Places' /\ Bases'
<1>0. /\ pc = "alloc" /\ i \in 1 .. Len(list) /\ Len(FM(i)) \in Nat
      /\ j \in 1 .. Len(FM(i))
      /\ ptr' = Off(i, j) + FM(i)[j].size /\ ptr' = Here'
      /\ j' = j + 1 /\ start' = start /\ trapped' = trapped
      /\ vma' = vma \cup {Entry(i, j)} /\ DOMAIN mem' = DOMAIN mem
      /\ UNCHANGED <<list, pc, ret, i, base0, membase, allocated, fileBase, dlAllocBase>>
  BY PlaceFacts
<1>1. \A k : FM(k)' = FM(k)
  BY <1>0 DEF FM
<1>2. \A k, m : Off(k, m)' = Off(k, m) /\ Entry(k, m)' = Entry(k, m)
  BY <1>0, <1>1 DEF Off, Entry
<1>3. Numbers'
  <2>1. Off(i, j) \in Nat /\ FM(i)[j].size \in Nat
    BY <1>0, OffFacts, FMFacts
  <2>2. ptr' \in Nat /\ j' \in Nat
    BY <1>0, <2>1
  <2>3. QED
    BY <1>0, <2>2 DEF Numbers
<1>4. Filling'
  <2>1. j' \in 1 .. Len(FM(i)) + 1
    BY <1>0
  <2>2. QED
    BY <1>0, <1>1, <2>1 DEF Filling
<1>5. ASSUME NEW k \in 1 .. Len(list), NEW m \in 1 .. Len(FM(k))
      PROVE  Placed(k, m)' <=> Placed(k, m) \/ (k = i /\ m = j)
  <2>1. Len(FM(k)) \in Nat
    BY FMFacts
  <2>2. m < j + 1 <=> m < j \/ m = j
    BY <1>0, <2>1
  <2>3. QED
    BY <1>0, <1>1, <2>2 DEF Placed
<1>6. Places'
  <2>1. ASSUME NEW p \in vma'
        PROVE  \E k \in 1 .. Len(list) : \E m \in 1 .. Len(FM(k)) :
                   Placed(k, m)' /\ p = Entry(k, m)'
    <3>1. CASE p = Entry(i, j)
      <4>1. PICK k, m : k = i /\ m = j
        OBVIOUS
      <4>2. k \in 1 .. Len(list) /\ m \in 1 .. Len(FM(k)) /\ p = Entry(k, m)
        BY <1>0, <3>1, <4>1
      <4>3. Placed(k, m)' /\ p = Entry(k, m)'
        BY <1>2, <1>5, <4>1, <4>2
      <4>4. QED
        BY <4>2, <4>3
    <3>2. CASE p \in vma
      <4>1. PICK k \in 1 .. Len(list) : \E m \in 1 .. Len(FM(k)) : Placed(k, m) /\ p = Entry(k, m)
        BY <3>2 DEF Places
      <4>2. PICK m \in 1 .. Len(FM(k)) : Placed(k, m) /\ p = Entry(k, m)
        BY <4>1
      <4>3. QED
        BY <1>2, <1>5, <4>2
    <3>3. QED
      BY <1>0, <3>1, <3>2
  <2>2. ASSUME NEW k \in 1 .. Len(list), NEW m \in 1 .. Len(FM(k)), Placed(k, m)'
        PROVE  Entry(k, m)' \in vma'
    BY <1>0, <1>2, <1>5, <2>2 DEF Places
  <2>3. QED
    BY <1>0, <1>1, <2>1, <2>2 DEF Places
<1>7. \A k : Begun(k)' <=> Begun(k)
  BY <1>0, <1>1 DEF Begun
<1>8. Bases'
  BY <1>0, <1>1, <1>2, <1>7 DEF Bases
<1>9. QED
  BY <1>3, <1>4, <1>6, <1>8

LEMMA VAllocDone ==
    ASSUME SInv, AllPacked, Numbers, Filling, Places, Bases, AllocDone
    PROVE  Numbers' /\ Filling' /\ Places' /\ Bases'
<1>0. /\ pc = "alloc" /\ i \in 1 .. Len(list) /\ Len(FM(i)) \in Nat /\ MemList = FM(i)
      /\ allocated' = ptr - start /\ pc' = "fixup"
      /\ UNCHANGED <<list, ret, i, j, base0, membase, start, ptr, mem, vma, fileBase,
                     dlAllocBase, trapped>>
  <2>1. pc = "alloc"
    BY DEF AllocDone
  <2>2. i \in 1 .. Len(list) /\ MemList = FM(i)
    BY <2>1, MemListIs DEF SInv
  <2>3. QED
    BY <2>1, <2>2, FMFacts DEF AllocDone
<1> DEFINE n == Len(FM(i))
<1>1. j = n + 1 /\ n \in 1 .. n /\ FM(i) # <<>>
  <2>1. j \in 1 .. n + 1 /\ j > n /\ FM(i) # <<>>
    BY <1>0 DEF Filling, AllocDone
  <2>2. QED
    BY <1>0, <2>1, FMFacts
<1>2. \A k : FM(k)' = FM(k)
  BY <1>0 DEF FM
<1>3. \A k, m : Off(k, m)' = Off(k, m)
  BY <1>0, <1>2 DEF Off
<1>4. start = membase /\ ptr = Here /\ membase = fileBase[i]
  BY <1>0 DEF Filling
<1>5. ptr \in Nat /\ membase \in Nat /\ ptr >= membase
  <2>1. ptr \in Nat /\ membase \in Nat
    BY DEF Numbers
  <2>2. ~(j <= n)
    BY <1>0, <1>1
  <2>3. ptr = membase + EndOf(FM(i)[n]) - FM(i)[1].addr
    BY <1>4, <2>2 DEF Here
  <2>4. /\ FM(i)[n].addr \in Nat /\ FM(i)[n].size \in Nat /\ FM(i)[1].addr <= FM(i)[n].addr
        /\ FM(i)[1].addr \in Nat
    <3>1. 1 \in 1 .. n
      BY <1>0, <1>1
    <3>2. QED
      BY <1>0, <1>1, <3>1, FMFacts, FMPacked
  <2>5. ASSUME NEW a \in Nat, NEW b \in Nat, NEW c \in Nat, NEW d \in Nat, c <= b
        PROVE  a + (b + d) - c >= a
    BY <2>5
  <2>6. QED
    BY <2>1, <2>3, <2>4, <2>5 DEF EndOf
<1>6. allocated' \in Nat /\ membase + allocated' = ptr
  BY <1>0, <1>4, <1>5, SMTT(30)
<1>7. Numbers'
  BY <1>0, <1>6 DEF Numbers
<1>8. Filling'
  <2>1. Here' = Here
    BY <1>0, <1>2 DEF Here
  <2>2. QED
    BY <1>0, <1>1, <1>2, <1>4, <1>6, <2>1 DEF Filling
<1>9. Places'
  <2>1. \A k, m : Placed(k, m)' <=> Placed(k, m)
    BY <1>0, <1>2 DEF Placed
  <2>2. QED
    BY <1>0, <1>3, <2>1, PlacesKept
<1>10. \A k : Begun(k)' <=> Begun(k)
  BY <1>0, <1>2 DEF Begun
<1>11. ASSUME NEW k \in 1 .. Len(list), NEW m \in 1 .. Len(FM(k)), k < i
       PROVE  Off(k, m) + FM(k)[m].size <= membase + allocated'
  <2>1. Off(k, m) + FM(k)[m].size <= membase
    BY <1>0, <1>11 DEF Bases
  <2>2. Off(k, m) \in Nat /\ FM(k)[m].size \in Nat
    BY OffFacts, FMFacts
  <2>3. QED
    BY <1>5, <1>6, <2>1, <2>2
<1>12. Bases'
  BY <1>0, <1>2, <1>3, <1>10, <1>11 DEF Bases
<1>13. QED
  BY <1>7, <1>8, <1>9, <1>12

(* All of a file's sections are placed when its fixups are applied. *)
LEMMA FixupFacts ==
    ASSUME SInv, AllPacked, Numbers, Filling, pc = "fixup"
    PROVE  /\ i \in 1 .. Len(list) /\ MemList = FM(i) /\ Len(FM(i)) \in Nat /\ FM(i) # <<>>
           /\ j = Len(FM(i)) + 1
           /\ \A m \in 1 .. Len(FM(i)) :
                 Placed(i, m) /\ Off(i, m) + FM(i)[m].size <= membase + allocated
<1>0. i \in 1 .. Len(list) /\ MemList = FM(i)
  BY MemListIs DEF SInv
<1> DEFINE n == Len(FM(i))
<1>1. n \in Nat /\ FM(i) # <<>> /\ j = n + 1 /\ membase + allocated = ptr /\ ptr = Here
      /\ membase = fileBase[i] /\ membase \in Nat
  <2>1. i <= Len(list) /\ ret # -1
    BY DEF SInv
  <2>2. QED
    BY <1>0, <2>1, FMFacts DEF Filling, Numbers
<1>2. n \in 1 .. n /\ 1 \in 1 .. n
  BY <1>0, <1>1, FMFacts
<1>3. ptr = Off(i, n) + FM(i)[n].size /\ Off(i, n) \in Nat
  <2>1. ~(j <= n)
    BY <1>1
  <2>2. ptr = membase + EndOf(FM(i)[n]) - FM(i)[1].addr
    BY <1>1, <2>1 DEF Here
  <2>3. FM(i)[n].addr \in Nat /\ FM(i)[n].size \in Nat /\ FM(i)[1].addr \in Nat
    BY <1>0, <1>2, FMFacts
  <2>4. Off(i, n) = membase + FM(i)[n].addr - FM(i)[1].addr /\ Off(i, n) \in Nat
    BY <1>0, <1>1, <1>2, OffFacts
  <2>5. ASSUME NEW a \in Nat, NEW b \in Nat, NEW c \in Nat, NEW d \in Nat
        PROVE  a + (b + d) - c = a + b - c + d
    OBVIOUS
  <2>6. QED
    BY <1>1, <2>2, <2>3, <2>4, <2>5, SMTT(30) DEF EndOf
<1>4. ASSUME NEW m \in 1 .. n
      PROVE  Placed(i, m) /\ Off(i, m) + FM(i)[m].size <= membase + allocated
  <2>1. m < j /\ (m < n \/ m = n)
    BY <1>1
  <2>2. Placed(i, m)
    BY <1>0, <2>1 DEF Placed
  <2>3. Off(i, m) \in Nat /\ FM(i)[m].size \in Nat /\ FM(i)[n].size \in Nat
    BY <1>0, <1>2, OffFacts, FMFacts
  <2>4. CASE m = n
    BY <1>1, <1>3, <2>2, <2>3, <2>4
  <2>5. CASE m < n
    <3>1. Off(i, m) + FM(i)[m].size <= Off(i, n)
      BY <1>0, <1>2, <2>5, OffFacts
    <3>2. QED
      BY <1>1, <1>3, <2>2, <2>3, <3>1, SMTT(30)
  <2>6. QED
    BY <2>1, <2>4, <2>5
<1>5. QED
  BY <1>0, <1>1, <1>4

LEMMA VApplyFixups ==
    ASSUME SInv, AllPacked, Numbers, Filling, Places, Bases, ApplyFixups
    PROVE  Numbers' /\ Filling' /\ Places' /\ Bases'
<1>0. /\ pc = "fixup" /\ i' = i + 1 /\ pc' = "file" /\ DOMAIN mem' = DOMAIN mem
      /\ UNCHANGED <<list, ret, j, base0, membase, allocated, start, ptr, vma, fileBase,
                     dlAllocBase>>
  BY DEF ApplyFixups
<1>1. /\ i \in 1 .. Len(list) /\ Len(list) \in Nat
      /\ \A m \in 1 .. Len(FM(i)) :
            Placed(i, m) /\ Off(i, m) + FM(i)[m].size <= membase + allocated
  BY <1>0, FixupFacts, ListFacts DEF SInv
<1>2. \A k : FM(k)' = FM(k)
  BY <1>0 DEF FM
<1>3. \A k, m : Off(k, m)' = Off(k, m)
  BY <1>0, <1>2 DEF Off
<1>4. \A k \in 1 .. Len(list) : k < i' <=> k < i \/ k = i
  BY <1>0, <1>1
<1>5. Numbers'
  <2>1. trapped' \in BOOLEAN
    BY DEF ApplyFixups, Numbers
  <2>2. QED
    BY <1>0, <2>1 DEF Numbers
<1>6. Filling'
  BY <1>0 DEF Filling
<1>7. Places'
  <2>1. ASSUME NEW k \in 1 .. Len(list), NEW m \in 1 .. Len(FM(k))
        PROVE  Placed(k, m)' <=> Placed(k, m)
    BY <1>0, <1>1, <1>2, <1>4 DEF Placed
  <2>2. QED
    BY <1>0, <1>3, <2>1, PlacesKept
<1>8. \A k \in 1 .. Len(list) : Begun(k)' <=> Begun(k)
  BY <1>0, <1>2, <1>4 DEF Begun
<1>9. Bases'
  BY <1>0, <1>1, <1>2, <1>3, <1>4, <1>8 DEF Bases
<1>10. QED
  BY <1>5, <1>6, <1>7, <1>9

LEMMA VFinish ==
    ASSUME SInv, AllPacked, Numbers, Filling, Places, Bases, NoRofixup \/ NoEntries \/ LoadDone
    PROVE  Numbers' /\ Filling' /\ Places' /\ Bases'
<1>0. /\ pc' = "done"
      /\ UNCHANGED <<list, i, j, base0, membase, allocated, start, ptr, mem, vma, fileBase>>
  BY DEF NoRofixup, NoEntries, LoadDone
<1>1. \A k : FM(k)' = FM(k)
  BY <1>0 DEF FM
<1>2. \A k, m : Off(k, m)' = Off(k, m)
  BY <1>0, <1>1 DEF Off
<1>3. {base0, membase, allocated} \subseteq Nat /\ Len(list) \in Nat /\ i \in 1 .. Len(list) + 1
  BY ListFacts DEF Numbers, SInv
<1>4. LoadDone => dlAllocBase' = membase + allocated
  <2>1. ASSUME NEW x \in Nat, NEW y \in Nat, NEW z \in Nat PROVE x + (y - x + z) = y + z
    OBVIOUS
  <2>2. QED
    BY <1>3, <2>1 DEF LoadDone, DlAllocBase
<1>5. Numbers'
  <2>1. dlAllocBase' \in Nat
    <3>1. LoadDone => dlAllocBase' \in Nat
      BY <1>3, <1>4
    <3>2. NoRofixup \/ NoEntries => dlAllocBase' \in Nat
      BY <1>3 DEF NoRofixup, NoEntries
    <3>3. QED
      BY <3>1, <3>2
  <2>2. trapped' \in BOOLEAN
    BY DEF NoRofixup, NoEntries, LoadDone, Numbers
  <2>3. QED
    BY <1>0, <2>1, <2>2 DEF Numbers
<1>6. Filling'
  <2>0. Here' = Here
    BY <1>0, <1>1 DEF Here
  <2>1. CASE NoRofixup
    <3>1. pc = "fixup" /\ i <= Len(list) /\ ret' = 1 /\ ret # -1
      BY <2>1 DEF NoRofixup, SInv
    <3>2. QED
      BY <1>0, <1>1, <2>0, <3>1 DEF Filling
  <2>2. CASE LoadDone
    <3>1. ~(i <= Len(list)) /\ pc = "file" /\ ret = 0 /\ ret' = ret
      BY <1>3, <2>2 DEF LoadDone, SInv
    <3>2. QED
      BY <1>0, <1>4, <2>2, <3>1 DEF Filling
  <2>3. CASE NoEntries
    <3>1. ret' = -1
      BY <2>3 DEF NoEntries
    <3>2. QED
      BY <1>0, <3>1 DEF Filling
  <2>4. QED
    BY <2>1, <2>2, <2>3
<1>7. (pc = "file" => \A k \in 1 .. Len(list) : k # i \/ Len(FM(k)) = 0) /\ pc # "done"
  <2>1. CASE NoEntries
    BY <2>1, NoneLeft DEF NoEntries, FM
  <2>2. CASE NoRofixup \/ LoadDone
    BY <1>3, <2>2 DEF NoRofixup, LoadDone
  <2>3. QED
    BY <2>1, <2>2
<1>8. Places'
  <2>1. ASSUME NEW k \in 1 .. Len(list), NEW m \in 1 .. Len(FM(k))
        PROVE  Placed(k, m)' <=> Placed(k, m)
    BY <1>0, <1>1, <1>7 DEF Placed
  <2>2. QED
    BY <1>0, <1>2, <2>1, PlacesKept
<1>9. \A k \in 1 .. Len(list) : Begun(k)' <=> Begun(k)
  BY <1>0, <1>1, <1>7 DEF Begun
<1>10. pc # "alloc"
  BY DEF NoRofixup, NoEntries, LoadDone
<1>11. Bases'
  BY <1>0, <1>1, <1>2, <1>9, <1>10 DEF Bases
<1>12. QED
  BY <1>5, <1>6, <1>8, <1>11

LEMMA VInvNext == SInv /\ VInv /\ [Next]_vars => VInv'
<1> SUFFICES ASSUME SInv, VInv, [Next]_vars, AllPacked' PROVE Numbers' /\ Filling' /\ Places' /\ Bases'
  BY DEF VInv
<1>0. list' = list
  BY DEF Next, vars, LoadFile, PlaceSection, AllocDone, ApplyFixups, NoRofixup, NoEntries, LoadDone
<1>1. AllPacked /\ Numbers /\ Filling /\ Places /\ Bases
  BY <1>0 DEF VInv, AllPacked
<1>2. CASE UNCHANGED vars
  <2>1. \A k : FM(k)' = FM(k)
    BY <1>2 DEF FM, vars
  <2>2. \A k, m : /\ Off(k, m)' = Off(k, m) /\ (Begun(k)' <=> Begun(k))
                  /\ (Placed(k, m)' <=> Placed(k, m))
    BY <1>2, <2>1 DEF Off, Begun, Placed, vars
  <2>3. Places'
    BY <1>1, <1>2, <2>2, PlacesKept DEF vars
  <2>4. Numbers' /\ Bases'
    BY <1>1, <1>2, <2>1, <2>2 DEF Numbers, Bases, vars
  <2>5. Filling'
    <3>1. Here' = Here
      BY <1>2, <2>1 DEF Here, vars
    <3>2. QED
      BY <1>1, <1>2, <2>1, <3>1 DEF Filling, vars
  <2>6. QED
    BY <2>3, <2>4, <2>5
<1>3. QED
  BY <1>1, <1>2, VSkipFile, VBeginFile, VPlaceSection, VAllocDone, VApplyFixups, VFinish DEF Next

-----------------------------------------------------------------------------
(* What the memory holds *)

(* No two words that have been placed are in the same place. *)
LEMMA WordsApart ==
    ASSUME SInv, AllPacked, Numbers, Bases,
           NEW k \in 1 .. Len(list), NEW m \in 1 .. Len(FM(k)), NEW o \in 0 .. FM(k)[m].size - 1,
           NEW h \in 1 .. Len(list), NEW g \in 1 .. Len(FM(h)), NEW q \in 0 .. FM(h)[g].size - 1,
           Begun(k), Begun(h), Off(k, m) + o = Off(h, g) + q
    PROVE  k = h /\ m = g /\ o = q
<1>0. /\ Off(k, m) \in Nat /\ FM(k)[m].size \in Nat /\ fileBase[k] <= Off(k, m) /\ fileBase[k] \in Nat
      /\ Off(h, g) \in Nat /\ FM(h)[g].size \in Nat /\ fileBase[h] <= Off(h, g) /\ fileBase[h] \in Nat
  BY OffFacts, FMFacts
<1>1. ASSUME NEW a \in Nat, NEW s \in Nat, NEW x \in 0 .. s - 1,
             NEW b \in Nat, NEW t \in Nat, NEW y \in 0 .. t - 1, a + x = b + y
      PROVE  ~(a + s <= b) /\ ~(b + t <= a) /\ (a = b => x = y)
  BY <1>1
<1>2. /\ ~(Off(k, m) + FM(k)[m].size <= Off(h, g)) /\ ~(Off(h, g) + FM(h)[g].size <= Off(k, m))
      /\ Off(k, m) = Off(h, g) => o = q
  <2> DEFINE a == Off(k, m)
             s == FM(k)[m].size
             b == Off(h, g)
             t == FM(h)[g].size
  <2>1. a \in Nat /\ s \in Nat /\ b \in Nat /\ t \in Nat /\ a + o = b + q
        /\ o \in 0 .. s - 1 /\ q \in 0 .. t - 1
    BY <1>0
  <2> HIDE DEF a, s, b, t
  <2>2. ~(a + s <= b) /\ ~(b + t <= a) /\ (a = b => o = q)
    BY <1>1, <2>1
  <2>3. QED
    BY <2>2 DEF a, s, b, t
<1>3. ASSUME NEW a \in Nat, NEW b \in Nat, NEW c \in Nat, NEW d \in Nat, a + b <= c, c <= d
      PROVE  a + b <= d
  BY <1>3
<1>4. ~(k < h)
  <2> SUFFICES ASSUME k < h PROVE FALSE
    OBVIOUS
  <2>1. Off(k, m) + FM(k)[m].size <= fileBase[h]
    BY DEF Bases
  <2>2. QED
    BY <1>0, <1>2, <1>3, <2>1
<1>5. ~(h < k)
  <2> SUFFICES ASSUME h < k PROVE FALSE
    OBVIOUS
  <2>1. Off(h, g) + FM(h)[g].size <= fileBase[k]
    BY DEF Bases
  <2>2. QED
    BY <1>0, <1>2, <1>3, <2>1
<1>6. Len(list) \in Nat /\ Len(FM(k)) \in Nat
  BY ListFacts, FMFacts DEF SInv
<1>7. k = h
  BY <1>4, <1>5, <1>6
<1>8. ~(m < g) /\ ~(g < m)
  <2>1. \A x, y \in 1 .. Len(FM(k)) : x < y => Off(k, x) + FM(k)[x].size <= Off(k, y)
    BY OffFacts
  <2>2. QED
    BY <1>2, <1>7, <2>1
<1>9. m = g
  BY <1>6, <1>7, <1>8
<1>10. QED
  BY <1>2, <1>7, <1>9

LEMMA PlacedBegun ==
    ASSUME SInv, NEW k \in 1 .. Len(list), NEW m \in 1 .. Len(FM(k)), Placed(k, m)
    PROVE  Begun(k)
BY FMFacts DEF Placed, Begun

(* What a word of a file holds depends on nothing but the file and its base. *)
LEMMA HeldKept ==
    ASSUME list' = list, NEW k, fileBase'[k] = fileBase[k]
    PROVE  /\ FM(k)' = FM(k) /\ \A h : Off(k, h)' = Off(k, h)
           /\ \A s, p : FixedVal(k, s, p)' = FixedVal(k, s, p)
           /\ \A m, o : (k < i' <=> k < i) => Held(k, m, o)' = Held(k, m, o)
<1>0. FM(k)' = FM(k)
  BY DEF FM
<1>1. \A h : Off(k, h)' = Off(k, h)
  BY <1>0 DEF Off
<1>2. ASSUME NEW s, NEW p PROVE FixedVal(k, s, p)' = FixedVal(k, s, p)
  <2>1. Into(k, p)' = Into(k, p)
    BY <1>0 DEF Into
  <2>2. IsGotPlt(k, p)' <=> IsGotPlt(k, p)
    BY <1>0 DEF IsGotPlt
  <2>3. QED
    BY <1>0, <1>1, <2>1, <2>2 DEF FixedVal
<1>3. ASSUME NEW m, NEW o, k < i' <=> k < i PROVE Held(k, m, o)' = Held(k, m, o)
  BY <1>0, <1>2, <1>3 DEF Held, First, Word
<1>4. QED
  BY <1>0, <1>1, <1>2, <1>3

(* A step that changes neither the memory nor how far the files have come. *)
LEMMA ContentsKept ==
    ASSUME Contents, list' = list, mem' = mem,
           \A k \in 1 .. Len(list) : \A m \in 1 .. Len(FM(k)) :
               /\ Placed(k, m)' <=> Placed(k, m)
               /\ k < i' <=> k < i
               /\ Placed(k, m) => fileBase'[k] = fileBase[k]
    PROVE  Contents'
<1>0. \A k : FM(k)' = FM(k)
  BY DEF FM
<1> SUFFICES ASSUME NEW k \in 1 .. Len(list), NEW m \in 1 .. Len(FM(k)),
                    NEW o \in 0 .. FM(k)[m].size - 1, Placed(k, m)', Off(k, m)' + o <= RamEnd
             PROVE  mem[Off(k, m)' + o] = Held(k, m, o)'
  BY <1>0 DEF Contents
<1>1. Placed(k, m) /\ fileBase'[k] = fileBase[k] /\ (k < i' <=> k < i)
  OBVIOUS
<1>2. Off(k, m)' = Off(k, m) /\ Held(k, m, o)' = Held(k, m, o)
  BY <1>1, HeldKept
<1>3. mem[Off(k, m) + o] = Held(k, m, o)
  BY <1>1, <1>2 DEF Contents
<1>4. QED
  BY <1>2, <1>3

(* Looking up adjusted_vma by name finds the section's place. *)
LEMMA VmaIs ==
    ASSUME SInv, AllPacked, Places, NEW k \in 1 .. Len(list), NEW m \in 1 .. Len(FM(k)),
           Placed(k, m)
    PROVE  Vma(k, FM(k)[m].name) = Off(k, m)
<1>1. Entry(k, m) \in vma /\ Entry(k, m).file = k /\ Entry(k, m).name = FM(k)[m].name
  BY DEF Places, Entry
<1>2. ASSUME NEW p \in vma, p.file = k, p.name = FM(k)[m].name
      PROVE  p.at = Off(k, m)
  <2>1. PICK h \in 1 .. Len(list) : \E g \in 1 .. Len(FM(h)) : p = Entry(h, g)
    BY DEF Places
  <2>2. PICK g \in 1 .. Len(FM(h)) : p = Entry(h, g)
    BY <2>1
  <2>3. h = k /\ FM(h)[g].name = FM(k)[m].name /\ p.at = Off(h, g)
    BY <1>2, <2>2 DEF Entry
  <2>4. g = m
    BY <2>3, FMPacked
  <2>5. QED
    BY <2>3, <2>4
<1>3. QED
  BY <1>1, <1>2 DEF Vma

LEMMA CPlaceSection ==
    ASSUME SInv, AllPacked, Numbers, Filling, Bases, Contents, PlaceSection
    PROVE  Contents'
<1>0. /\ pc = "alloc" /\ i \in 1 .. Len(list) /\ Len(FM(i)) \in Nat
      /\ j \in 1 .. Len(FM(i)) /\ j' = j + 1
      /\ mem' = [a \in DOMAIN mem |->
                        IF a \in Off(i, j) .. Off(i, j) + FM(i)[j].size - 1
                        THEN Word(i, FM(i)[j], a - Off(i, j)) ELSE mem[a]]
      /\ UNCHANGED <<list, pc, i, fileBase>>
  BY PlaceFacts
<1>1. \A k : FM(k)' = FM(k)
  BY <1>0 DEF FM
<1> SUFFICES ASSUME NEW k \in 1 .. Len(list), NEW m \in 1 .. Len(FM(k)),
                    NEW o \in 0 .. FM(k)[m].size - 1, Placed(k, m)', Off(k, m)' + o <= RamEnd
             PROVE  mem'[Off(k, m)' + o] = Held(k, m, o)'
  BY <1>0, <1>1, ZenonT(40) DEF Contents
<1>2. Off(k, m)' = Off(k, m) /\ Held(k, m, o)' = Held(k, m, o)
  BY <1>0, HeldKept
<1>3. Len(FM(k)) \in Nat /\ FM(k)[m].size \in Nat \ {0} /\ FM(i)[j].size \in Nat \ {0}
  BY <1>0, FMFacts
<1>4. Begun(k) /\ Begun(i)
  <2>1. FM(k) # <<>> /\ FM(i) # <<>>
    BY <1>0, <1>3, FMFacts
  <2>2. k < i \/ k = i
    BY <1>0 DEF Placed
  <2>3. QED
    BY <1>0, <2>1, <2>2 DEF Begun
<1> DEFINE a == Off(k, m) + o
<1>5. Off(k, m) \in Nat /\ Off(i, j) \in Nat /\ a \in Nat /\ a \in DOMAIN mem
  <2>1. Off(k, m) \in Nat /\ Off(i, j) \in Nat /\ fileBase[k] <= Off(k, m) /\ fileBase[k] \in Nat
    BY <1>0, OffFacts
  <2>2. fileBase[k] >= BssEnd /\ BssEnd \in Nat /\ RamEnd \in Nat
    BY <1>4, AddressAssumption DEF Bases
  <2>3. ASSUME NEW x \in Nat, NEW y \in Nat, NEW z \in Nat, NEW s \in Nat, NEW u \in 0 .. s - 1,
               x >= z, x <= y
        PROVE  y + u \in Nat /\ y + u >= z
    BY <2>3
  <2>4. a \in Nat /\ a >= BssEnd
    BY <1>3, <2>1, <2>2, <2>3
  <2>5. a \in BssEnd .. RamEnd
    BY <1>2, <2>2, <2>4
  <2>6. QED
    BY <2>1, <2>4, <2>5 DEF Numbers
<1>6. CASE k = i /\ m = j
  <2>1. o \in Nat /\ a \in Off(i, j) .. Off(i, j) + FM(i)[j].size - 1 /\ a - Off(i, j) = o
    <3>1. ASSUME NEW x \in Nat, NEW s \in Nat, NEW u \in 0 .. s - 1
          PROVE  u \in Nat /\ x + u \in x .. x + s - 1 /\ (x + u) - x = u
      OBVIOUS
    <3>2. QED
      BY <1>3, <1>5, <1>6, <3>1
  <2> HIDE DEF a
  <2>2. mem'[a] = Word(i, FM(i)[j], o)
    BY <1>0, <1>5, <2>1
  <2>3. Held(k, m, o) = Word(i, FM(i)[j], o)
    <3>1. ~(k < i)
      BY <1>0, <1>6
    <3>2. QED
      BY <1>6, <3>1 DEF Held
  <2>4. QED
    BY <1>2, <2>2, <2>3 DEF a
<1>7. CASE ~(k = i /\ m = j)
  <2>1. Placed(k, m)
    <3>1. m < j + 1 <=> m < j \/ m = j
      BY <1>0, <1>3
    <3>2. QED
      BY <1>0, <1>1, <1>7, <3>1 DEF Placed
  <2>2. mem[a] = Held(k, m, o)
    BY <1>2, <2>1 DEF Contents
  <2>3. a \notin Off(i, j) .. Off(i, j) + FM(i)[j].size - 1
    <3> SUFFICES ASSUME a \in Off(i, j) .. Off(i, j) + FM(i)[j].size - 1 PROVE FALSE
      OBVIOUS
    <3> DEFINE q == a - Off(i, j)
    <3>1. q \in 0 .. FM(i)[j].size - 1 /\ Off(i, j) + q = a
      <4>1. ASSUME NEW x \in Nat, NEW s \in Nat, NEW b \in x .. x + s - 1
            PROVE  b - x \in 0 .. s - 1 /\ x + (b - x) = b
        OBVIOUS
      <4> HIDE DEF a
      <4>2. QED
        BY <1>3, <1>5, <4>1
    <3> HIDE DEF q
    <3>2. k = i /\ m = j
      BY <1>0, <1>4, <3>1, WordsApart
    <3>3. QED
      BY <1>7, <3>2
  <2> HIDE DEF a
  <2>4. mem'[a] = mem[a]
    BY <1>0, <1>5, <2>3
  <2>5. QED
    BY <1>2, <2>2, <2>4 DEF a
<1>8. QED
  BY <1>6, <1>7

(* uld_rofixup_do_mem_fixup moves a pointer as FixedVal says. *)
LEMMA FixedIs ==
    ASSUME SInv, AllPacked, Numbers, Filling, Places, pc = "fixup"
    PROVE  /\ i \in 1 .. Len(list)
           /\ Slots = {m \in 1 .. Len(FM(i)) : NeedsFixup(FM(i)[m])}
           /\ \A m \in Slots : SlotAt(m) = Off(i, m) /\ MemList[m] = FM(i)[m]
           /\ \A p : TargetOf(p) = Into(i, p)
           /\ \A s, p : Fixed(s, p) = FixedVal(i, s, p)
<1>0. /\ i \in 1 .. Len(list) /\ MemList = FM(i)
      /\ \A m \in 1 .. Len(FM(i)) : Placed(i, m)
  BY FixupFacts
<1>1. \A m \in 1 .. Len(FM(i)) : Vma(i, FM(i)[m].name) = Off(i, m)
  BY <1>0, VmaIs
<1>2. Slots = {m \in 1 .. Len(FM(i)) : NeedsFixup(FM(i)[m])}
  BY <1>0 DEF Slots
<1>3. \A m \in Slots : SlotAt(m) = Off(i, m) /\ MemList[m] = FM(i)[m]
  BY <1>0, <1>1, <1>2 DEF SlotAt
<1>4. \A p : TargetOf(p) = Into(i, p)
  BY <1>0 DEF TargetOf, Into
<1>5. ASSUME NEW s, NEW p PROVE Fixed(s, p) = FixedVal(i, s, p)
  <2>1. GotPltBase(p) <=> IsGotPlt(i, p)
    BY <1>0 DEF GotPltBase, IsGotPlt
  <2>2. CASE Into(i, p) = {}
    BY <1>4, <2>2 DEF Fixed, FixedVal
  <2>3. CASE Into(i, p) # {}
    <3> DEFINE t == CHOOSE t \in Into(i, p) : TRUE
    <3>1. t \in Into(i, p)
      BY <2>3
    <3>2. t \in 1 .. Len(FM(i))
      BY <3>1 DEF Into
    <3>3. (CHOOSE k \in TargetOf(p) : TRUE) = t
      BY <1>4
    <3> HIDE DEF t
    <3>4. Vma(i, FM(i)[t].name) = Off(i, t)
      BY <1>1, <3>2
    <3>5. FixedVal(i, s, p) = IF p = 0 \/ Into(i, p) = {} THEN p
                              ELSE IF s.name = ".got" /\ IsGotPlt(i, p) THEN fileBase[i]
                              ELSE p - FM(i)[t].addr + Off(i, t)
      BY DEF FixedVal, t
    <3>6. Fixed(s, p) = IF p = 0 \/ TargetOf(p) = {} THEN p
                        ELSE IF s.name = ".got" /\ GotPltBase(p) THEN fileBase[i]
                        ELSE p - FM(i)[t].addr + Vma(i, FM(i)[t].name)
      <4>1. Fixed(s, p) = IF p = 0 \/ TargetOf(p) = {} THEN p
                          ELSE IF s.name = ".got" /\ GotPltBase(p) THEN fileBase[i]
                          ELSE p - MemList[CHOOSE k \in TargetOf(p) : TRUE].addr
                                 + Vma(i, MemList[CHOOSE k \in TargetOf(p) : TRUE].name)
        BY DEF Fixed
      <4>2. QED
        BY <1>0, <3>3, <4>1
    <3>7. QED
      BY <1>4, <2>1, <3>4, <3>5, <3>6
  <2>4. QED
    BY <2>2, <2>3
<1>6. QED
  BY <1>0, <1>2, <1>3, <1>4, <1>5

LEMMA CApplyFixups ==
    ASSUME SInv, AllPacked, Numbers, Filling, Places, Bases, Contents, ApplyFixups
    PROVE  Contents'
<1>0. /\ pc = "fixup" /\ i' = i + 1 /\ pc' = "file"
      /\ mem' = [a \in DOMAIN mem |->
                   IF \E k \in Slots : SlotAt(k) = a
                   THEN LET k == CHOOSE k \in Slots : SlotAt(k) = a
                        IN  [mem[a] EXCEPT !.val = Fixed(MemList[k], @)]
                   ELSE mem[a]]
      /\ UNCHANGED <<list, fileBase>>
  BY DEF ApplyFixups
<1>1. /\ i \in 1 .. Len(list) /\ Len(list) \in Nat
      /\ \A m \in 1 .. Len(FM(i)) : Placed(i, m)
  BY <1>0, FixupFacts, ListFacts DEF SInv
<1>2. /\ Slots = {m \in 1 .. Len(FM(i)) : NeedsFixup(FM(i)[m])}
      /\ \A m \in Slots : SlotAt(m) = Off(i, m) /\ MemList[m] = FM(i)[m]
      /\ \A s, p : Fixed(s, p) = FixedVal(i, s, p)
  BY <1>0, FixedIs
<1>3. \A k : FM(k)' = FM(k)
  BY <1>0 DEF FM
<1> SUFFICES ASSUME NEW k \in 1 .. Len(list), NEW m \in 1 .. Len(FM(k)),
                    NEW o \in 0 .. FM(k)[m].size - 1, Placed(k, m)', Off(k, m)' + o <= RamEnd
             PROVE  mem'[Off(k, m)' + o] = Held(k, m, o)'
  BY <1>0, <1>3 DEF Contents
<1>4. /\ Off(k, m)' = Off(k, m)
      /\ \A s, p : FixedVal(k, s, p)' = FixedVal(k, s, p)
  BY <1>0, HeldKept
<1>5. k < i' <=> k < i \/ k = i
  BY <1>0, <1>1
<1>6. Placed(k, m) /\ Begun(k)
  BY <1>0, <1>1, <1>3, <1>5, PlacedBegun DEF Placed
<1> DEFINE a == Off(k, m) + o
<1>7. a \in DOMAIN mem
  <2>1. /\ Off(k, m) \in Nat /\ fileBase[k] <= Off(k, m) /\ fileBase[k] \in Nat
        /\ FM(k)[m].size \in Nat
    BY OffFacts, FMFacts
  <2>2. fileBase[k] >= BssEnd /\ BssEnd \in Nat /\ RamEnd \in Nat
    BY <1>6, AddressAssumption DEF Bases
  <2>3. ASSUME NEW x \in Nat, NEW y \in Nat, NEW z \in Nat, NEW s \in Nat, NEW u \in 0 .. s - 1,
               x >= z, x <= y
        PROVE  y + u \in Nat /\ y + u >= z
    BY <2>3
  <2>4. a \in Nat /\ a >= BssEnd
    BY <2>1, <2>2, <2>3
  <2>5. a \in BssEnd .. RamEnd
    BY <1>4, <2>2, <2>4
  <2>6. QED
    BY <2>5 DEF Numbers
<1>8. mem[a] = Held(k, m, o)
  BY <1>4, <1>6 DEF Contents
(* Only the first word of a slot is where a slot is. *)
<1>9. ASSUME NEW s \in Slots, SlotAt(s) = a
      PROVE  k = i /\ m = s /\ o = 0
  <2>1. s \in 1 .. Len(FM(i)) /\ SlotAt(s) = Off(i, s)
    BY <1>2
  <2>2. Off(i, s) \in Nat /\ FM(i)[s].size \in Nat \ {0} /\ Begun(i)
    BY <1>1, <2>1, OffFacts, FMFacts, PlacedBegun
  <2>3. 0 \in 0 .. FM(i)[s].size - 1 /\ Off(k, m) + o = Off(i, s) + 0
    <3>1. ASSUME NEW x \in Nat, NEW y \in Nat \ {0} PROVE x + 0 = x /\ 0 \in 0 .. y - 1
      OBVIOUS
    <3>2. QED
      BY <1>9, <2>1, <2>2, <3>1
  <2>4. QED
    BY <1>1, <1>6, <2>1, <2>2, <2>3, WordsApart
<1>10. CASE k = i /\ o = 0 /\ NeedsFixup(FM(k)[m])
  <2>1. m \in Slots /\ SlotAt(m) = a
    <3>1. m \in Slots /\ SlotAt(m) = Off(k, m)
      BY <1>2, <1>10
    <3>2. Off(k, m) + 0 = Off(k, m)
      BY OffFacts
    <3>3. QED
      BY <1>10, <3>1, <3>2
  <2>2. (CHOOSE s \in Slots : SlotAt(s) = a) = m
    BY <1>9, <2>1
  <2> HIDE DEF a
  <2>3. mem'[a] = [mem[a] EXCEPT !.val = FixedVal(k, FM(k)[m], @)]
    BY <1>0, <1>2, <1>7, <1>10, <2>1, <2>2
  <2>4. mem[a] = Word(k, FM(k)[m], 0)
    <3>1. ~(k < i)
      BY <1>1, <1>10
    <3>2. QED
      BY <1>8, <1>10, <3>1 DEF Held
  <2>5. mem'[a] = [Word(k, FM(k)[m], 0) EXCEPT !.val = FixedVal(k, FM(k)[m], First(k, m))]
    BY <2>3, <2>4 DEF First
  <2>6. Held(k, m, o)' = [Word(k, FM(k)[m], 0) EXCEPT !.val = FixedVal(k, FM(k)[m], First(k, m))]
    BY <1>3, <1>4, <1>5, <1>10 DEF Held, First, Word
  <2>7. QED
    BY <1>4, <2>5, <2>6 DEF a
<1>11. CASE ~(k = i /\ o = 0 /\ NeedsFixup(FM(k)[m]))
  <2>1. ~ \E s \in Slots : SlotAt(s) = a
    BY <1>2, <1>9, <1>11
  <2>2. Held(k, m, o)' = Held(k, m, o)
    <3>1. (o = 0 /\ k < i' /\ NeedsFixup(FM(k)[m])) <=> (o = 0 /\ k < i /\ NeedsFixup(FM(k)[m]))
      BY <1>5, <1>11
    <3>2. QED
      BY <1>3, <1>4, <3>1 DEF Held, First, Word
  <2> HIDE DEF a
  <2>3. mem'[a] = mem[a]
    BY <1>0, <1>7, <2>1
  <2>4. QED
    BY <1>4, <1>8, <2>2, <2>3 DEF a
<1>12. QED
  BY <1>10, <1>11

LEMMA MInvInit == Init => MInv
<1> SUFFICES ASSUME Init, AllPacked PROVE Contents
  BY DEF MInv
<1>0. Len(list) \in Nat /\ i = 1 /\ pc = "file"
  BY ListFacts DEF Init
<1>1. \A k \in 1 .. Len(list) : ~(k < i)
  BY <1>0
<1>2. QED
  BY <1>0, <1>1 DEF Contents, Placed

LEMMA MInvNext == SInv /\ VInv /\ MInv /\ [Next]_vars => MInv'
<1> SUFFICES ASSUME SInv, VInv, MInv, [Next]_vars, AllPacked' PROVE Contents'
  BY DEF MInv
<1>0. list' = list
  BY DEF Next, vars, LoadFile, PlaceSection, AllocDone, ApplyFixups, NoRofixup, NoEntries, LoadDone
<1>1. AllPacked /\ Numbers /\ Filling /\ Places /\ Bases /\ Contents
  BY <1>0 DEF VInv, MInv, AllPacked
<1>2. Len(list) \in Nat /\ i \in 1 .. Len(list) + 1
  BY ListFacts DEF SInv
<1>3. \A k : FM(k)' = FM(k)
  BY <1>0 DEF FM
<1>4. CASE LoadFile
  <2>0. /\ pc = "file" /\ i \in 1 .. Len(list) /\ mem' = mem
        /\ CreateFile(list[i], secCount - secIdx).mem = FM(i)
    <3>1. pc = "file" /\ i <= Len(list) /\ mem' = mem
      BY <1>4 DEF LoadFile
    <3>2. QED
      BY <3>1, RoomLeft DEF FM
  <2>1. CASE FM(i) = <<>>
    <3>1. i' = i + 1 /\ pc' = pc /\ j' = j /\ fileBase' = fileBase
      BY <1>4, <2>0, <2>1 DEF LoadFile
    <3>2. ASSUME NEW k \in 1 .. Len(list), NEW m \in 1 .. Len(FM(k))
          PROVE  (Placed(k, m)' <=> Placed(k, m)) /\ (k < i' <=> k < i)
      <4>1. k # i
        BY <2>0, <2>1, FMFacts
      <4>2. k < i + 1 <=> k < i
        BY <2>0, <4>1
      <4>3. QED
        BY <1>0, <1>3, <2>0, <3>1, <4>2 DEF Placed
    <3>3. QED
      BY <1>0, <1>1, <2>0, <3>1, <3>2, ContentsKept
  <2>2. CASE FM(i) # <<>>
    <3>1. /\ i' = i /\ pc' = "alloc" /\ j' = 1
          /\ fileBase' = [fileBase EXCEPT ![i] = NextMembase(membase, allocated)]
      BY <1>4, <2>0, <2>2 DEF LoadFile
    <3>2. ASSUME NEW k \in 1 .. Len(list), NEW m \in 1 .. Len(FM(k))
          PROVE  /\ (Placed(k, m)' <=> Placed(k, m)) /\ (k < i' <=> k < i)
                 /\ Placed(k, m) => fileBase'[k] = fileBase[k]
      <4>1. ~(m < 1)
        BY FMFacts
      <4>2. Placed(k, m)' <=> Placed(k, m)
        BY <1>0, <1>3, <2>0, <3>1, <4>1 DEF Placed
      <4>3. Placed(k, m) => k # i
        BY <1>2, <2>0 DEF Placed
      <4>4. k # i => fileBase'[k] = fileBase[k]
        BY <1>1, <3>1 DEF Numbers
      <4>5. QED
        BY <3>1, <4>2, <4>3, <4>4
    <3>3. QED
      BY <1>0, <1>1, <2>0, <3>2, ContentsKept
  <2>3. QED
    BY <2>1, <2>2
<1>5. CASE PlaceSection
  BY <1>1, <1>5, CPlaceSection
<1>6. CASE ApplyFixups
  BY <1>1, <1>6, CApplyFixups
<1>7. CASE AllocDone \/ NoRofixup \/ NoEntries \/ LoadDone \/ UNCHANGED vars
  <2>1. /\ mem' = mem /\ i' = i /\ j' = j /\ fileBase' = fileBase
        /\ pc' = pc \/ pc' \in {"fixup", "done"}
        /\ pc = "file" /\ pc' # pc => \A k \in 1 .. Len(list) : k # i \/ Len(FM(k)) = 0
        /\ pc' # pc => pc' # "file"
    <3>1. CASE NoEntries
      BY <3>1, NoneLeft DEF NoEntries, FM
    <3>2. CASE AllocDone \/ NoRofixup \/ LoadDone \/ UNCHANGED vars
      BY <1>2, <3>2 DEF AllocDone, NoRofixup, LoadDone, vars
    <3>3. QED
      BY <1>7, <3>1, <3>2
  <2>2. ASSUME NEW k \in 1 .. Len(list), NEW m \in 1 .. Len(FM(k))
        PROVE  (Placed(k, m)' <=> Placed(k, m))
    BY <1>0, <1>3, <2>1 DEF Placed
  <2>3. QED
    BY <1>0, <1>1, <2>1, <2>2, ContentsKept
<1>8. QED
  BY <1>4, <1>5, <1>6, <1>7 DEF Next

-----------------------------------------------------------------------------
(* The properties of the loader *)

(* A section with the name of one that has been placed is that section. *)
LEMMA SectionOf ==
    ASSUME SInv, AllPacked, Places, NEW p \in vma, NEW s \in Secs(p.file), s.name = p.name
    PROVE  \E k \in 1 .. Len(list) : \E m \in 1 .. Len(FM(k)) :
               Placed(k, m) /\ p.file = k /\ p.at = Off(k, m) /\ s = FM(k)[m]
<1>1. PICK k \in 1 .. Len(list) : \E m \in 1 .. Len(FM(k)) : Placed(k, m) /\ p = Entry(k, m)
  BY DEF Places
<1>2. PICK m \in 1 .. Len(FM(k)) : Placed(k, m) /\ p = Entry(k, m)
  BY <1>1
<1>3. p.file = k /\ p.name = FM(k)[m].name /\ p.at = Off(k, m)
  BY <1>2 DEF Entry
<1>4. IsMem(s)
  <2>1. IsMem(FM(k)[m])
    BY FMFacts
  <2>2. QED
    BY <1>3, <2>1 DEF IsMem
<1>5. PICK a \in MemIdx(list[k]) : s = list[k].secs[a]
  BY <1>3, <1>4 DEF Secs, MemIdx
<1>6. PICK g \in 1 .. Len(FM(k)) : FM(k)[g] = s
  <2>1. list[k] \in File
    BY ListFacts DEF SInv
  <2>2. QED
    BY <1>5, <2>1, MemListFacts DEF FM
<1>7. g = m
  BY <1>3, <1>6, FMPacked
<1>8. QED
  BY <1>2, <1>3, <1>6, <1>7

(* The memory sections of a file are those of its list. *)
LEMMA MemSecsAre ==
    ASSUME SInv, NEW k \in 1 .. Len(list)
    PROVE  MemSecs(k) = {FM(k)[m] : m \in 1 .. Len(FM(k))}
<1>0. list[k] \in File
  BY ListFacts DEF SInv
<1>1. ASSUME NEW s \in MemSecs(k) PROVE \E m \in 1 .. Len(FM(k)) : s = FM(k)[m]
  <2>1. PICK a \in MemIdx(list[k]) : s = list[k].secs[a]
    BY DEF MemSecs, Secs, MemIdx
  <2>2. QED
    BY <1>0, <2>1, MemListFacts DEF FM
<1>2. ASSUME NEW m \in 1 .. Len(FM(k)) PROVE FM(k)[m] \in MemSecs(k)
  <2>1. PICK a \in MemIdx(list[k]) : FM(k)[m] = list[k].secs[a]
    BY <1>0, MemListFacts DEF FM
  <2>2. QED
    BY <2>1 DEF MemSecs, Secs, MemIdx
<1>3. QED
  BY <1>1, <1>2

(* A placed section ends within the memory modelled. *)
LEMMA FitsFacts ==
    ASSUME SInv, AllPacked, Numbers, Places, Bases, Fits,
           NEW k \in 1 .. Len(list), NEW m \in 1 .. Len(FM(k)), Placed(k, m),
           NEW o \in 0 .. FM(k)[m].size - 1
    PROVE  Off(k, m) + o \in BssEnd .. RamEnd
<1>1. Entry(k, m) \in vma /\ Entry(k, m).file = k /\ Entry(k, m).at = Off(k, m)
      /\ Entry(k, m).name = FM(k)[m].name
  BY DEF Places, Entry
<1>2. FM(k)[m] \in Secs(k)
  BY MemSecsAre DEF MemSecs
<1>3. Off(k, m) + FM(k)[m].size <= RamEnd + 1
  BY <1>1, <1>2 DEF Fits
<1>4. /\ Off(k, m) \in Nat /\ FM(k)[m].size \in Nat /\ fileBase[k] \in Nat
      /\ fileBase[k] <= Off(k, m)
  BY OffFacts, FMFacts
<1>5. fileBase[k] >= BssEnd /\ BssEnd \in Nat /\ RamEnd \in Nat
  BY PlacedBegun, AddressAssumption DEF Bases
<1>6. ASSUME NEW x \in Nat, NEW s \in Nat, NEW e \in Nat, NEW b \in Nat, NEW f \in Nat,
             x + s <= e + 1, NEW u \in 0 .. s - 1, f >= b, f <= x
      PROVE  x + u \in b .. e
  BY <1>6
<1>7. QED
  BY <1>3, <1>4, <1>5, <1>6

LEMMA TInvInit == Init => TInv
BY DEF Init, TInv

LEMMA TInvNext == SInv /\ VInv /\ MInv /\ TInv /\ [Next]_vars => TInv'
<1> SUFFICES ASSUME SInv, VInv, MInv, TInv, [Next]_vars, AllPacked', AllGood', Fits', ret' = 0
             PROVE  ~trapped'
  BY DEF TInv
<1>0. list' = list /\ vma \subseteq vma' /\ ret = 0
  <2>1. list' = list /\ vma \subseteq vma'
    BY DEF Next, vars, LoadFile, PlaceSection, AllocDone, ApplyFixups, NoRofixup, NoEntries, LoadDone
  <2>2. pc # "done" => ret = 0
    BY DEF SInv
  <2>3. QED
    BY <2>1, <2>2
       DEF Next, vars, LoadFile, PlaceSection, AllocDone, ApplyFixups, NoRofixup, NoEntries, LoadDone
<1>1. AllPacked /\ AllGood
  BY <1>0 DEF AllPacked, AllGood
<1>2. Fits
  BY <1>0 DEF Fits, Secs
<1>3. Numbers /\ Filling /\ Places /\ Bases /\ Contents /\ ~trapped
  BY <1>0, <1>1, <1>2 DEF VInv, MInv, TInv
<1>4. CASE LoadFile \/ AllocDone \/ LoadDone \/ UNCHANGED vars
  BY <1>3, <1>4 DEF LoadFile, AllocDone, LoadDone, vars
<1>5. CASE NoRofixup \/ NoEntries
  BY <1>5 DEF NoRofixup, NoEntries
<1>6. CASE PlaceSection
  BY <1>1, <1>3, <1>6, PlaceFacts
<1>7. CASE ApplyFixups
  <2>0. pc = "fixup" /\ i \in 1 .. Len(list) /\ \A m \in 1 .. Len(FM(i)) : Placed(i, m)
    <3>1. pc = "fixup"
      BY <1>7 DEF ApplyFixups
    <3>2. QED
      BY <1>1, <1>3, <3>1, FixupFacts
  <2>1. ASSUME NEW m \in Slots
        PROVE  LET p == mem[SlotAt(m)].val
               IN  ~(p \in 1 .. FlashBase - 1 /\ TargetOf(p) = {})
    <3>1. m \in 1 .. Len(FM(i)) /\ SlotAt(m) = Off(i, m) /\ \A p : TargetOf(p) = Into(i, p)
      BY <1>1, <1>3, <2>0, FixedIs
    <3>2. /\ FM(i)[m].size \in Nat \ {0} /\ Off(i, m) \in Nat /\ FM(i)[m].ptr \in Nat
          /\ FM(i)[m].nobits \in BOOLEAN
      BY <1>1, <1>3, <2>0, <3>1, FMFacts, OffFacts
    <3>3. 0 \in 0 .. FM(i)[m].size - 1 /\ Off(i, m) + 0 = Off(i, m)
      BY <3>2
    <3>4. mem[Off(i, m)] = Held(i, m, 0)
      <4>1. Off(i, m) + 0 \in BssEnd .. RamEnd
        BY <1>1, <1>2, <1>3, <2>0, <3>1, <3>3, FitsFacts
      <4>2. Off(i, m) + 0 <= RamEnd
        BY <4>1, AddressAssumption
      <4>3. mem[Off(i, m) + 0] = Held(i, m, 0)
        BY <1>3, <2>0, <3>1, <3>3, <4>2 DEF Contents
      <4>4. QED
        BY <3>3, <4>3
    <3>5. mem[Off(i, m)].val = IF ~FM(i)[m].nobits THEN FM(i)[m].ptr ELSE 0
      <4>1. ~(i < i)
        BY <2>0
      <4>2. QED
        BY <3>4, <4>1 DEF Held, Word
    <3>6. \/ FM(i)[m].nobits \/ FM(i)[m].ptr = 0 \/ FM(i)[m].ptr >= FlashBase
          \/ Into(i, FM(i)[m].ptr) # {}
      <4>1. list[i] \in File /\ PointersGood(list[i])
        BY <1>1, <2>0, ListFacts DEF AllGood, SInv
      <4>2. PICK a \in MemIdx(list[i]) : FM(i)[m] = list[i].secs[a]
        BY <3>1, <4>1, MemListFacts DEF FM
      <4>3. CASE \E b \in MemIdx(list[i]) :
                    FM(i)[m].ptr \in list[i].secs[b].addr .. EndOf(list[i].secs[b]) - 1
        <5>1. PICK b \in MemIdx(list[i]) :
                    FM(i)[m].ptr \in list[i].secs[b].addr .. EndOf(list[i].secs[b]) - 1
          BY <4>3
        <5>2. PICK g \in 1 .. Len(FM(i)) : FM(i)[g] = list[i].secs[b]
          BY <4>1, MemListFacts DEF FM
        <5>3. g \in Into(i, FM(i)[m].ptr)
          <6>1. FM(i)[m].ptr \in FM(i)[g].addr .. FM(i)[g].addr + FM(i)[g].size - 1
            <7>1. FM(i)[m].ptr \in FM(i)[g].addr .. EndOf(FM(i)[g]) - 1
              BY <5>1, <5>2, Zenon
            <7>2. FM(i)[g].addr \in Nat /\ FM(i)[g].size \in Nat
              BY <2>0, FMFacts
            <7>3. QED
              BY <7>1, <7>2 DEF EndOf
          <6>2. QED
            BY <6>1 DEF Into
        <5>4. QED
          BY <5>3
      <4>4. QED
        BY <4>1, <4>2, <4>3 DEF PointersGood
    <3>7. ASSUME NEW x \in Nat, x \in 1 .. FlashBase - 1 PROVE x # 0 /\ ~(x >= FlashBase)
      BY <3>7, AddressAssumption
    <3>8. QED
      BY <3>1, <3>2, <3>5, <3>6, <3>7
  <2>2. QED
    BY <1>3, <1>7, <2>1 DEF ApplyFixups
<1>8. QED
  BY <1>4, <1>5, <1>6, <1>7 DEF Next

LEMMA LoadInvariants == Spec => [](SInv /\ VInv /\ MInv /\ TInv)
<1>1. Init => SInv /\ VInv /\ MInv /\ TInv
  BY SInvInit, VInvInit, MInvInit, TInvInit
<1>2. SInv /\ VInv /\ MInv /\ TInv /\ [Next]_vars => (SInv /\ VInv /\ MInv /\ TInv)'
  BY SInvNext, VInvNext, MInvNext, TInvNext
<1>3. QED
  BY <1>1, <1>2, PTL DEF Spec

LEMMA HeldFacts ==
    ASSUME NEW k, NEW m, NEW o
    PROVE  /\ Held(k, m, o).file = k /\ Held(k, m, o).name = FM(k)[m].name
           /\ Held(k, m, o).off = o
BY DEF Held, Word

(* uld_load_alloc_mem_sections writes over nothing: whatever the files and their
   number, as long as each one's memory sections are packed, every word placed
   keeps its place to the end, through the placement of the later sections and
   files and through the fixups. *)
THEOREM NothingIsOverwritten == Spec => [](AllPacked /\ Fits => MemoryIntact)
<1>1. SInv /\ VInv /\ MInv => (AllPacked /\ Fits => MemoryIntact)
  <2> SUFFICES ASSUME SInv, VInv, MInv, AllPacked, Fits,
                      NEW p \in vma, NEW s \in Secs(p.file), s.name = p.name,
                      NEW o \in 0 .. s.size - 1
               PROVE  LET w == mem[p.at + o]
                      IN  w.file = p.file /\ w.name = p.name /\ w.off = o
    BY DEF MemoryIntact
  <2>0. Numbers /\ Places /\ Bases /\ Contents
    BY DEF VInv, MInv
  <2>1. PICK k \in 1 .. Len(list) : \E m \in 1 .. Len(FM(k)) :
               Placed(k, m) /\ p.file = k /\ p.at = Off(k, m) /\ s = FM(k)[m]
    BY <2>0, SectionOf
  <2>2. PICK m \in 1 .. Len(FM(k)) :
               Placed(k, m) /\ p.file = k /\ p.at = Off(k, m) /\ s = FM(k)[m]
    BY <2>1
  <2>3. Off(k, m) + o \in BssEnd .. RamEnd
    BY <2>0, <2>2, FitsFacts
  <2>4. Off(k, m) + o <= RamEnd
    BY <2>3, AddressAssumption
  <2>5. mem[Off(k, m) + o] = Held(k, m, o)
    BY <2>0, <2>2, <2>4 DEF Contents
  <2>6. QED
    BY <2>2, <2>5, HeldFacts
<1>2. QED
  BY <1>1, LoadInvariants, PTL

(* What is loaded is laid out as it was linked, from an aligned base, the pool of
   the link begins above all of it, and no breakpoint has been passed, for lists
   of any number of packed files whose pointers lead to one of their sections or
   to flash. *)
THEOREM LoadsAsLinked == Spec => [](AllPacked /\ AllGood /\ Fits => LoadInv)
<1>1. SInv /\ VInv /\ MInv /\ TInv => (AllPacked /\ AllGood /\ Fits => LoadInv)
  <2> SUFFICES ASSUME SInv, VInv, MInv, TInv, AllPacked, AllGood, Fits PROVE LoadInv
    OBVIOUS
  <2>0. Numbers /\ Filling /\ Places /\ Bases
    BY DEF VInv
  <2>1. Len(list) \in Nat /\ list \in Seq(File) /\ i \in 1 .. Len(list) + 1
    BY ListFacts DEF SInv
  <2>2. TypeOK
    <3>1. secIdx \in 0 .. secCount
      <4>1. i - 1 \in 0 .. Len(list)
        BY <2>1
      <4>2. secIdx \in Nat /\ secIdx <= secCount
        BY <2>1, <4>1, SecSumFacts DEF SInv
      <4>3. secCount \in Nat
        <5>1. Len(list) \in 0 .. Len(list)
          BY <2>1
        <5>2. QED
          BY <2>1, <5>1, SecSumFacts DEF SInv
      <4>4. QED
        BY <4>2, <4>3
    <3>2. ret \in {-1, 0, 1}
      BY DEF SInv
    <3>3. QED
      BY <2>0, <2>1, <3>1, <3>2 DEF TypeOK, SInv, Numbers
  <2>3. ASSUME Loaded, NEW k \in 1 .. Len(list), NEW m \in 1 .. Len(FM(k))
        PROVE  k < i /\ Placed(k, m) /\ Begun(k)
    <3>1. i = Len(list) + 1
      BY <2>3 DEF Loaded, SInv
    <3>2. k < i
      BY <2>1, <3>1
    <3>3. QED
      BY <3>2, PlacedBegun DEF Placed
  <2>4. ASSUME Loaded, NEW k \in 1 .. Len(list), NEW s \in MemSecs(k), NEW t \in MemSecs(k),
               \A u \in MemSecs(k) : t.addr <= u.addr
        PROVE  fileBase[k] % Align = 0 /\ Vma(k, s.name) = fileBase[k] + s.addr - t.addr
    <3>1. PICK m \in 1 .. Len(FM(k)) : s = FM(k)[m]
      BY MemSecsAre
    <3>2. PICK g \in 1 .. Len(FM(k)) : t = FM(k)[g]
      BY MemSecsAre
    <3>3. Placed(k, m) /\ Begun(k)
      BY <2>3, <2>4
    <3>4. fileBase[k] % Align = 0
      BY <2>0, <3>3 DEF Bases
    <3>5. Vma(k, s.name) = fileBase[k] + s.addr - FM(k)[1].addr
      BY <2>0, <3>1, <3>3, VmaIs, OffFacts
    <3>6. t.addr = FM(k)[1].addr
      <4>1. 1 \in 1 .. Len(FM(k))
        BY FMFacts
      <4>2. t.addr <= FM(k)[1].addr
        BY <2>4, <4>1, MemSecsAre
      <4>3. FM(k)[1].addr <= t.addr /\ FM(k)[1].addr \in Nat /\ t.addr \in Nat
        BY <3>2, <4>1, FMFacts, FMPacked
      <4>4. QED
        BY <4>2, <4>3
    <3>7. QED
      BY <3>4, <3>5, <3>6
  <2>5. LayoutKept
    BY <2>4 DEF LayoutKept
  <2>6. PoolAbove
    <3> SUFFICES ASSUME Loaded, NEW p \in vma, NEW s \in Secs(p.file), s.name = p.name
                 PROVE  p.at + s.size <= dlAllocBase
      BY DEF PoolAbove
    <3>1. PICK k \in 1 .. Len(list) : \E m \in 1 .. Len(FM(k)) :
                 Placed(k, m) /\ p.file = k /\ p.at = Off(k, m) /\ s = FM(k)[m]
      BY <2>0, SectionOf
    <3>2. PICK m \in 1 .. Len(FM(k)) : p.at = Off(k, m) /\ s = FM(k)[m]
      BY <3>1
    <3>3. k < i /\ pc = "done" /\ ret = 0
      BY <2>3 DEF Loaded
    <3>4. Off(k, m) + FM(k)[m].size <= membase + allocated /\ dlAllocBase = membase + allocated
      BY <2>0, <3>3 DEF Bases, Filling
    <3>5. QED
      BY <3>2, <3>4
  <2>7. NoTrap
    BY DEF NoTrap, Loaded, TInv
  <2>8. QED
    BY <2>2, <2>5, <2>6, <2>7 DEF LoadInv
<1>2. QED
  BY <1>1, LoadInvariants, PTL

(* uld_rofixup_apply_mem_fixups leads every pointer to the word it was linked to,
   wherever that word has been placed; flash pointers stay, and the .got entry
   for .got.plt holds the value of the base register. *)
THEOREM PointersReachTheirWords == Spec => [](AllPacked /\ AllGood /\ Fits => PointersLand)
<1>1. SInv /\ VInv /\ MInv => (AllPacked /\ AllGood /\ Fits => PointersLand)
  <2> SUFFICES ASSUME SInv, VInv, MInv, AllPacked, AllGood, Fits, Loaded,
                      NEW k \in 1 .. Len(list), NEW s \in MemSecs(k), ~s.nobits, s.ptr # 0
               PROVE  LET now == mem[Vma(k, s.name)].val
                          into == {t \in MemSecs(k) : s.ptr \in t.addr .. t.addr + t.size - 1}
                      IN  IF into = {} THEN now = s.ptr
                          ELSE \E t \in into :
                                 IF s.name = ".got" /\ t.name = ".got.plt" /\ s.ptr = t.addr
                                 THEN now = fileBase[k]
                                 ELSE /\ now \in BssEnd .. RamEnd
                                      /\ mem[now].file = k /\ mem[now].name = t.name
                                      /\ mem[now].off = s.ptr - t.addr
    BY DEF PointersLand
  <2>0. Numbers /\ Filling /\ Places /\ Bases /\ Contents
    BY DEF VInv, MInv
  <2>1. k < i /\ \A g \in 1 .. Len(FM(k)) : Placed(k, g)
    <3>1. i = Len(list) + 1 /\ Len(list) \in Nat
      BY ListFacts DEF Loaded, SInv
    <3>2. k < i
      BY <3>1
    <3>3. QED
      BY <3>2 DEF Placed
  <2>2. PICK m \in 1 .. Len(FM(k)) : s = FM(k)[m]
    BY MemSecsAre
  <2>3. /\ s.addr \in Nat /\ s.size \in Nat \ {0} /\ s.ptr \in Nat /\ Off(k, m) \in Nat
        /\ IsMem(s) /\ Vma(k, s.name) = Off(k, m)
    BY <2>0, <2>1, <2>2, FMFacts, OffFacts, VmaIs
  <2>4. NeedsFixup(s)
    <3>1. list[k] \in File /\ PointersGood(list[k])
      BY ListFacts DEF AllGood, SInv
    <3>2. PICK a \in MemIdx(list[k]) : FM(k)[m] = list[k].secs[a]
      BY <3>1, MemListFacts DEF FM
    <3>3. s.name # ".bss"
      BY <2>2, <3>1, <3>2 DEF PointersGood
    <3>4. QED
      BY <2>3, <3>3 DEF NeedsFixup, IsMem
  <2> DEFINE now == mem[Off(k, m)].val
             into == {t \in MemSecs(k) : s.ptr \in t.addr .. t.addr + t.size - 1}
  <2>5. now = FixedVal(k, s, s.ptr)
    <3>1. 0 \in 0 .. FM(k)[m].size - 1 /\ Off(k, m) + 0 = Off(k, m)
      BY <2>2, <2>3
    <3>2. Off(k, m) + 0 \in BssEnd .. RamEnd
      BY <2>0, <2>1, <3>1, FitsFacts
    <3>3. Off(k, m) + 0 <= RamEnd
      BY <3>2, AddressAssumption
    <3>4. mem[Off(k, m) + 0] = Held(k, m, 0)
      BY <2>0, <2>1, <3>1, <3>3 DEF Contents
    <3>5. Held(k, m, 0).val = FixedVal(k, s, First(k, m))
      BY <2>1, <2>2, <2>4 DEF Held, Word
    <3>6. First(k, m) = s.ptr
      BY <2>2 DEF First, Word
    <3>7. QED
      BY <3>1, <3>4, <3>5, <3>6
  <2>6. /\ \A g \in Into(k, s.ptr) : FM(k)[g] \in into
        /\ \A t \in into : \E g \in Into(k, s.ptr) : t = FM(k)[g]
    BY MemSecsAre DEF Into
  <2> HIDE DEF into
  <2>7. CASE Into(k, s.ptr) = {}
    <3>1. into = {} /\ now = s.ptr
      BY <2>5, <2>6, <2>7 DEF FixedVal
    <3>2. QED
      BY <2>3, <3>1 DEF into
  <2>8. CASE Into(k, s.ptr) # {}
    <3> DEFINE g == CHOOSE g \in Into(k, s.ptr) : TRUE
               t == FM(k)[g]
    <3>1. g \in Into(k, s.ptr)
      BY <2>8
    <3>2. FixedVal(k, s, s.ptr) = IF s.name = ".got" /\ IsGotPlt(k, s.ptr) THEN fileBase[k]
                                  ELSE s.ptr - FM(k)[g].addr + Off(k, g)
      BY <2>8 DEF FixedVal
    <3> HIDE DEF g
    <3>3. g \in 1 .. Len(FM(k)) /\ t \in into /\ s.ptr \in t.addr .. t.addr + t.size - 1
      BY <2>6, <3>1 DEF Into
    <3>4. t.addr \in Nat /\ t.size \in Nat \ {0} /\ Off(k, g) \in Nat
      BY <2>0, <3>3, FMFacts, OffFacts
    (* The entry that begins at the pointer is the one that holds it. *)
    <3>5. ASSUME NEW h \in 1 .. Len(FM(k)), s.ptr = FM(k)[h].addr
          PROVE  h = g
      <4>0. FM(k)[h].addr \in Nat /\ FM(k)[h].size \in Nat \ {0} /\ Len(FM(k)) \in Nat
        BY FMFacts
      <4>1. ~(h < g)
        <5> SUFFICES ASSUME h < g PROVE FALSE
          OBVIOUS
        <5>1. EndOf(FM(k)[h]) <= t.addr
          BY <3>3, FMPacked
        <5>2. QED
          BY <3>3, <3>4, <3>5, <4>0, <5>1, SMTT(30) DEF EndOf
      <4>2. ~(g < h)
        <5> SUFFICES ASSUME g < h PROVE FALSE
          OBVIOUS
        <5>1. EndOf(t) <= FM(k)[h].addr
          BY <3>3, FMPacked
        <5>2. QED
          BY <3>3, <3>4, <3>5, <4>0, <5>1, SMTT(30) DEF EndOf
      <4>3. QED
        BY <3>3, <4>0, <4>1, <4>2
    <3>6. IsGotPlt(k, s.ptr) <=> t.name = ".got.plt" /\ s.ptr = t.addr
      BY <3>3, <3>5 DEF IsGotPlt
    <3>7. IF s.name = ".got" /\ t.name = ".got.plt" /\ s.ptr = t.addr
          THEN now = fileBase[k]
          ELSE /\ now \in BssEnd .. RamEnd
               /\ mem[now].file = k /\ mem[now].name = t.name
               /\ mem[now].off = s.ptr - t.addr
      <4>1. CASE s.name = ".got" /\ t.name = ".got.plt" /\ s.ptr = t.addr
        BY <2>5, <3>2, <3>6, <4>1
      <4>2. CASE ~(s.name = ".got" /\ t.name = ".got.plt" /\ s.ptr = t.addr)
        <5> DEFINE o == s.ptr - t.addr
        <5>1. now = o + Off(k, g)
          BY <2>5, <3>2, <3>6, <4>2
        <5>2. o \in 0 .. t.size - 1
          <6>1. ASSUME NEW a \in Nat, NEW z \in Nat, NEW p \in a .. a + z - 1
                PROVE  p - a \in 0 .. z - 1
            OBVIOUS
          <6>2. QED
            BY <3>3, <3>4, <6>1
        <5> HIDE DEF o
        <5>3. now = Off(k, g) + o
          BY <3>4, <5>1, <5>2
        <5>4. Off(k, g) + o \in BssEnd .. RamEnd
          BY <2>0, <2>1, <3>3, <5>2, FitsFacts
        <5>5. Off(k, g) + o <= RamEnd
          BY <5>4, AddressAssumption
        <5>6. mem[Off(k, g) + o] = Held(k, g, o)
          BY <2>0, <2>1, <3>3, <5>2, <5>5 DEF Contents
        <5>7. mem[now].file = k /\ mem[now].name = t.name /\ mem[now].off = o
          BY <5>3, <5>6, HeldFacts
        <5>8. QED
          BY <4>2, <5>3, <5>4, <5>7 DEF o
      <4>3. QED
        BY <4>1, <4>2
    <3> HIDE DEF t
    <3>8. QED
      BY <2>3, <3>3, <3>7 DEF into
  <2>9. QED
    BY <2>7, <2>8
<1>2. QED
  BY <1>1, LoadInvariants, PTL
=============================================================================
