---------------------------- MODULE UldExecProofs ---------------------------
(***************************************************************************)
(* Proofs about UldExec, for every file system table and every list.       *)
(***************************************************************************)
EXTENDS UldExec, FiniteSetTheorems, SequenceTheorems, WellFoundedInduction, TLAPS

-----------------------------------------------------------------------------
(* Sums *)

(* A set of numbers that is not empty has a lowest member. *)
LEMMA LowestExists ==
    ASSUME NEW S, S \subseteq Nat, S # {}
    PROVE  \E x \in S : \A y \in S : x <= y
<1>1. IsWellFoundedOn(OpToRel(<, Nat), Nat)
  BY NatLessThanWellFounded
<1>2. PICK x \in S : \A y \in S : ~(<<y, x>> \in OpToRel(<, Nat))
  BY <1>1, WFMin
<1>3. ASSUME NEW y \in S
      PROVE  x <= y
  <2>1. x \in Nat /\ y \in Nat
    OBVIOUS
  <2>2. ~(y < x)
    BY <1>2, <2>1 DEF OpToRel
  <2>3. QED
    BY <2>1, <2>2
<1>4. QED
  BY <1>3
-----------------------------------------------------------------------------
(* Running sums *)

IsSum(f, n, g) == f = [k \in 0 .. n |-> IF k = 0 THEN 0 ELSE f[k - 1] + g[k]]

LEMMA SumExists ==
    ASSUME NEW n \in Nat, NEW g \in [1 .. n -> Nat]
    PROVE  \E f : IsSum(f, n, g)
<1> DEFINE S == {m \in 0 .. n : ~ \E f : IsSum(f, m, g)}
<1>1. CASE S = {}
  <2>1. n \in 0 .. n
    OBVIOUS
  <2>2. n \notin S
    BY <1>1, Zenon
  <2>3. QED
    BY <2>1, <2>2, Zenon
<1>2. CASE S # {}
  <2>1. PICK x \in S : \A y \in S : x <= y
    <3>1. S \subseteq Nat
      OBVIOUS
    <3>2. QED
      BY <1>2, <3>1, LowestExists
  <2>2. x \in 0 .. n /\ x \in Nat /\ ~ \E f : IsSum(f, x, g)
    BY <2>1
  <2>3. CASE x = 0
    <3> DEFINE f == [k \in 0 .. 0 |-> 0]
    <3>1. IsSum(f, 0, g)
      BY DEF IsSum
    <3>2. QED
      BY <2>2, <2>3, <3>1
  <2>4. CASE x # 0
    <3>1. x - 1 \in 0 .. n /\ x - 1 < x /\ x - 1 \in Nat
      BY <2>2, <2>4
    <3>2. x - 1 \notin S
      BY <2>1, <2>2, <3>1
    <3>3. PICK f : IsSum(f, x - 1, g)
      BY <3>1, <3>2
    <3> DEFINE h == [k \in 0 .. x |-> IF k = x THEN f[x - 1] + g[x] ELSE f[k]]
    <3>4. \A k \in 0 .. x - 1 : f[k] = IF k = 0 THEN 0 ELSE f[k - 1] + g[k]
      BY <3>3 DEF IsSum
    <3>5. \A k \in 0 .. x : h[k] = IF k = 0 THEN 0 ELSE h[k - 1] + g[k]
      <4> SUFFICES ASSUME NEW k \in 0 .. x PROVE h[k] = IF k = 0 THEN 0 ELSE h[k - 1] + g[k]
        OBVIOUS
      <4>1. CASE k = x
        BY <2>2, <2>4, <4>1
      <4>2. CASE k # x
        BY <2>2, <3>4, <4>2
      <4>3. QED
        BY <4>1, <4>2
    <3>6. IsSum(h, x, g)
      BY <3>5 DEF IsSum
    <3>7. QED
      BY <2>2, <3>6
  <2>5. QED
    BY <2>3, <2>4
<1>3. QED
  BY <1>1, <1>2

LEMMA SumFacts ==
    ASSUME NEW n \in Nat, NEW g \in [1 .. n -> Nat], NEW f, IsSum(f, n, g)
    PROVE  /\ f[0] = 0
           /\ \A k \in 0 .. n : f[k] \in Nat /\ f[k] <= f[n]
           /\ \A k \in 1 .. n : f[k] = f[k - 1] + g[k]
<1>0. /\ f[0] = 0
      /\ \A k \in 1 .. n : f[k] = f[k - 1] + g[k] /\ g[k] \in Nat /\ k - 1 \in 0 .. n
  BY DEF IsSum
<1>1. \A k \in 0 .. n : f[k] \in Nat
  <2> DEFINE S == {k \in 0 .. n : f[k] \notin Nat}
  <2> SUFFICES ASSUME S # {} PROVE FALSE
    OBVIOUS
  <2>1. PICK x \in S : \A y \in S : x <= y
    <3>1. S \subseteq Nat
      OBVIOUS
    <3>2. QED
      BY <3>1, LowestExists
  <2>2. x \in 1 .. n
    BY <1>0, <2>1
  <2>3. x - 1 \notin S /\ x - 1 \in 0 .. n
    BY <2>1, <2>2
  <2>4. QED
    BY <1>0, <2>1, <2>2, <2>3
<1>2. \A k \in 0 .. n : f[k] <= f[n]
  <2> DEFINE S == {d \in 0 .. n : ~(f[n - d] <= f[n])}
  <2>1. CASE S # {}
    <3>1. PICK x \in S : \A y \in S : x <= y
      <4>1. S \subseteq Nat
        OBVIOUS
      <4>2. QED
        BY <2>1, <4>1, LowestExists
    <3>2. x \in 1 .. n
      <4>1. n - 0 = n /\ n \in 0 .. n /\ x \in 0 .. n
        OBVIOUS
      <4>2. f[n] <= f[n]
        BY <1>1, <4>1
      <4>3. x # 0
        BY <3>1, <4>1, <4>2
      <4>4. QED
        BY <4>1, <4>3
    <3>3. x - 1 \notin S /\ x - 1 \in 0 .. n
      BY <3>1, <3>2
    <3>4. f[n - (x - 1)] <= f[n] /\ n - x \in 0 .. n /\ n - (x - 1) \in 1 .. n
      BY <3>2, <3>3
    <3>5. f[n - (x - 1)] = f[n - (x - 1) - 1] + g[n - (x - 1)] /\ g[n - (x - 1)] \in Nat
      BY <1>0, <3>4
    <3>6. n - (x - 1) - 1 = n - x
      BY <3>2
    <3>7. f[n - x] \in Nat /\ f[n] \in Nat /\ f[n - (x - 1)] \in Nat
      BY <1>1, <3>4
    <3>8. f[n - x] <= f[n]
      BY <3>4, <3>5, <3>6, <3>7
    <3>9. QED
      BY <3>1, <3>8
  <2>2. CASE S = {}
    <3> SUFFICES ASSUME NEW k \in 0 .. n PROVE f[k] <= f[n]
      OBVIOUS
    <3>1. n - k \in 0 .. n /\ n - (n - k) = k
      OBVIOUS
    <3>2. n - k \notin S
      BY <2>2
    <3>3. QED
      BY <3>1, <3>2
  <2>3. QED
    BY <2>1, <2>2
<1>3. QED
  BY <1>0, <1>1, <1>2

-----------------------------------------------------------------------------
(* The sorted lists *)

Rank(f, S, a) == Cardinality({b \in S : Before(f, b, a)})
At(f, S, k) == CHOOSE a \in S : Rank(f, S, a) = k - 1

SecsIn(f, S) == [k \in 1 .. Cardinality(S) |-> CreateSection(f, At(f, S, k))]

LEMMA ImageFacts ==
    ASSUME NEW f \in Image
    PROVE  /\ Len(f.secs) \in Nat
           /\ \A k \in 1 .. Len(f.secs) :
                 f.secs[k].addr \in Nat /\ f.secs[k].size \in Nat /\ f.secs[k].alloc \in BOOLEAN
<1>1. f.secs \in Seq(Section)
  BY DEF Image
<1>2. \A k \in 1 .. Len(f.secs) : f.secs[k] \in Section
  BY <1>1, ElementOfSeq
<1>3. QED
  BY <1>1, <1>2, LenProperties DEF Section

(* Before is a strict total order on the sections of a file. *)
LEMMA BeforeOrders ==
    ASSUME NEW f \in Image
    PROVE  /\ \A a, b, c1 \in 1 .. Len(f.secs) :
                 Before(f, a, b) /\ Before(f, b, c1) => Before(f, a, c1)
           /\ \A a \in 1 .. Len(f.secs) : ~Before(f, a, a)
           /\ \A a, b \in 1 .. Len(f.secs) : a = b \/ Before(f, a, b) \/ Before(f, b, a)
BY ImageFacts DEF Before

LEMMA RankFacts ==
    ASSUME NEW f \in Image, NEW S, S \subseteq 1 .. Len(f.secs)
    PROVE  /\ IsFiniteSet(S) /\ Cardinality(S) \in Nat
           /\ \A a \in S : Rank(f, S, a) \in 0 .. Cardinality(S) - 1
           /\ \A a, b \in S : Before(f, a, b) => Rank(f, S, a) < Rank(f, S, b)
<1>0. Len(f.secs) \in Nat
  BY ImageFacts
<1>1. IsFiniteSet(1 .. Len(f.secs))
  BY <1>0, FS_Interval
<1>2. IsFiniteSet(S) /\ Cardinality(S) \in Nat
  BY <1>1, FS_Subset, FS_CardinalityType
<1> DEFINE Lower(a) == {b \in S : Before(f, b, a)}
<1>3. ASSUME NEW a \in S
      PROVE  IsFiniteSet(Lower(a)) /\ Rank(f, S, a) \in Nat /\ Rank(f, S, a) = Cardinality(Lower(a))
  <2>1. Lower(a) \in SUBSET S
    OBVIOUS
  <2>2. IsFiniteSet(Lower(a))
    BY <1>2, <2>1, FS_Subset
  <2>3. QED
    BY <2>2, FS_CardinalityType DEF Rank
<1>4. ASSUME NEW a \in S
      PROVE  Rank(f, S, a) \in 0 .. Cardinality(S) - 1
  <2>1. a \notin Lower(a)
    BY BeforeOrders
  <2>2. Lower(a) \in SUBSET S /\ Lower(a) # S
    BY <2>1
  <2>3. Cardinality(Lower(a)) <= Cardinality(S) /\ Cardinality(Lower(a)) # Cardinality(S)
    BY <1>2, <2>2, FS_Subset
  <2>4. ASSUME NEW x \in Nat, NEW y \in Nat, x <= y, x # y PROVE x \in 0 .. y - 1
    BY <2>4
  <2>5. Rank(f, S, a) \in Nat /\ Rank(f, S, a) <= Cardinality(S) /\ Rank(f, S, a) # Cardinality(S)
    BY <1>3, <2>3
  <2>6. QED
    BY <1>2, <2>4, <2>5
<1>5. ASSUME NEW a \in S, NEW b \in S, Before(f, a, b)
      PROVE  Rank(f, S, a) < Rank(f, S, b)
  <2>1. Lower(a) \subseteq Lower(b) /\ a \in Lower(b) /\ a \notin Lower(a)
    <3>1. \A d \in S : Before(f, d, a) => Before(f, d, b)
      <4>1. \A d \in S : d \in 1 .. Len(f.secs)
        OBVIOUS
      <4>2. QED
        BY <1>5, <4>1, BeforeOrders
    <3>2. ~Before(f, a, a)
      BY BeforeOrders
    <3>3. QED
      BY <1>5, <3>1, <3>2
  <2>2. Lower(a) \in SUBSET Lower(b) /\ Lower(a) # Lower(b)
    BY <2>1
  <2>3. Cardinality(Lower(a)) <= Cardinality(Lower(b)) /\ Cardinality(Lower(a)) # Cardinality(Lower(b))
    BY <1>3, <2>2, FS_Subset
  <2>4. Rank(f, S, a) <= Rank(f, S, b) /\ Rank(f, S, a) # Rank(f, S, b)
    BY <1>3, <2>3
  <2>5. Rank(f, S, a) \in Nat /\ Rank(f, S, b) \in Nat
    BY <1>3
  <2>6. ASSUME NEW x \in Nat, NEW y \in Nat, x <= y, x # y PROVE x < y
    BY <2>6
  <2>7. QED
    BY <2>4, <2>5, <2>6
<1>6. QED
  BY <1>2, <1>4, <1>5

(* Every position of a sorted list holds a section, every section has a position,
   and positions ascend with the order. *)
LEMMA SortedFacts ==
    ASSUME NEW f \in Image, NEW S, S \subseteq 1 .. Len(f.secs)
    PROVE  /\ Cardinality(S) \in Nat
           /\ SecsIn(f, S) = [k \in 1 .. Cardinality(S) |-> CreateSection(f, At(f, S, k))]
           /\ Len(SecsIn(f, S)) = Cardinality(S)
           /\ \A k \in 1 .. Cardinality(S) : At(f, S, k) \in S
           /\ \A a \in S : \E k \in 1 .. Cardinality(S) : At(f, S, k) = a
           /\ \A k, m \in 1 .. Cardinality(S) : k < m => Before(f, At(f, S, k), At(f, S, m))
<1> DEFINE n == Cardinality(S)
<1>0. /\ IsFiniteSet(S) /\ n \in Nat
      /\ \A a \in S : Rank(f, S, a) \in 0 .. n - 1
      /\ \A a, b \in S : Before(f, a, b) => Rank(f, S, a) < Rank(f, S, b)
  BY RankFacts
<1>1. SecsIn(f, S) = [k \in 1 .. n |-> CreateSection(f, At(f, S, k))]
  BY DEF SecsIn
<1>2. Len(SecsIn(f, S)) = n
  BY <1>0, <1>1
<1> HIDE DEF n
<1>3. \A a, b \in S : a # b => Rank(f, S, a) # Rank(f, S, b)
  <2> SUFFICES ASSUME NEW a \in S, NEW b \in S, a # b PROVE Rank(f, S, a) # Rank(f, S, b)
    OBVIOUS
  <2>1. Before(f, a, b) \/ Before(f, b, a)
    BY BeforeOrders
  <2>2. Rank(f, S, a) < Rank(f, S, b) \/ Rank(f, S, b) < Rank(f, S, a)
    BY <1>0, <2>1
  <2>3. Rank(f, S, a) \in Int /\ Rank(f, S, b) \in Int
    BY <1>0
  <2>4. QED
    BY <2>2, <2>3
<1>4. \A k \in 1 .. n : \E a \in S : Rank(f, S, a) = k - 1
  <2> DEFINE g == [a \in S |-> Rank(f, S, a)]
  <2>1. g \in Injection(S, 0 .. n - 1)
    BY <1>0, <1>3 DEF Injection, IsInjective
  <2>2. IsFiniteSet(0 .. n - 1) /\ Cardinality(0 .. n - 1) = n
    BY <1>0, FS_Interval
  <2>3. g \in Surjection(S, 0 .. n - 1)
    BY <2>1, <2>2, FS_Injection DEF n
  <2>4. \A x \in 0 .. n - 1 : \E a \in S : g[a] = x
    BY <2>3 DEF Surjection
  <2>5. ASSUME NEW k \in 1 .. n PROVE \E a \in S : Rank(f, S, a) = k - 1
    <3>1. k - 1 \in 0 .. n - 1
      BY <1>0
    <3>2. QED
      BY <2>4, <3>1
  <2>6. QED
    BY <2>5
<1>5. \A k \in 1 .. n : At(f, S, k) \in S /\ Rank(f, S, At(f, S, k)) = k - 1
  BY <1>4 DEF At
<1>6. ASSUME NEW a \in S PROVE \E k \in 1 .. n : At(f, S, k) = a
  <2> DEFINE k == Rank(f, S, a) + 1
  <2>1. k \in 1 .. n /\ k - 1 = Rank(f, S, a)
    BY <1>0
  <2>2. At(f, S, k) \in S /\ Rank(f, S, At(f, S, k)) = Rank(f, S, a)
    BY <1>5, <2>1
  <2>3. At(f, S, k) = a
    BY <1>3, <2>2
  <2>4. QED
    BY <2>1, <2>3
<1>7. ASSUME NEW k \in 1 .. n, NEW m \in 1 .. n, k < m
      PROVE  Before(f, At(f, S, k), At(f, S, m))
  <2> DEFINE a == At(f, S, k)
             b == At(f, S, m)
  <2>1. a \in S /\ b \in S /\ Rank(f, S, a) = k - 1 /\ Rank(f, S, b) = m - 1
    BY <1>5
  <2> HIDE DEF a, b
  <2>2. k \in Int /\ m \in Int
    BY <1>0
  <2>3. Rank(f, S, a) < Rank(f, S, b)
    BY <1>7, <2>1, <2>2
  <2>4. a # b /\ ~Before(f, b, a)
    BY <1>0, <2>1, <2>2, <2>3
  <2>5. Before(f, a, b)
    BY <2>1, <2>4, BeforeOrders
  <2>6. QED
    BY <2>5 DEF a, b
<1>8. QED
  BY <1>0, <1>1, <1>2, <1>5, <1>6, <1>7 DEF n

-----------------------------------------------------------------------------
(* Code of the files runs only when all is ready, or the debugger knows *)

(* How far the load and the link have come, and what a failure leaves behind. *)
RInv ==
    /\ prog \in Programs /\ Len(Files) \in Nat
    /\ pc \in {"count", "build", "load", "link", "gdb", "init", "entered", "wild"}
    /\ trapped \in BOOLEAN
    /\ i \in Nat \ {0}
    /\ pc \in {"build", "load", "link", "gdb", "init", "entered"} => depCount = Len(Files)
    /\ pc \in {"load", "link", "gdb", "init", "entered"} => DOMAIN ufiles = 1 .. depCount
    /\ pc \in {"count", "build"} => i = 1 /\ loadRet = 0
    /\ pc \in {"count", "build", "load"} => linked = {} /\ linkRet = 0
    /\ pc \in {"load", "link"} => i <= depCount + 1
    /\ loadRet # 0 => trapped
    /\ pc = "load" => \A k \in 1 .. depCount : k < i => Loaded(k)
    /\ pc \in {"link", "gdb", "init", "entered"} /\ loadRet = 0 => \A k \in 1 .. depCount : Loaded(k)
    /\ pc = "link" => linked = 1 .. i - 1
    /\ linkRet # 0 => trapped \/ \E k \in 1 .. Len(Files) : Rels(k) = "notables"
    /\ pc \in {"gdb", "init", "entered"} /\ linkRet = 0 => linked = 1 .. Len(Files)
    /\ calls # <<>> => pc \in {"init", "entered", "wild"}
    /\ RunsReady

LEMMA RInvInit == Init => RInv
<1> SUFFICES ASSUME Init PROVE RInv
  OBVIOUS
<1>1. prog \in Programs /\ Len(Files) \in Nat
  BY ProgramsAssumption, LenProperties DEF Init, Files
<1>2. RunsReady /\ calls = <<>>
  BY DEF Init, RunsReady
<1>3. i = 1 /\ linked = {} /\ linkRet = 0 /\ loadRet = 0 /\ trapped \in BOOLEAN /\ pc = "count"
  BY DEF Init
<1>4. i \in Nat \ {0}
  BY <1>3
<1>5. QED
  BY <1>1, <1>2, <1>3, <1>4 DEF RInv

(* The record of a file does not change once it is loaded. *)
LEMMA LoadedKept ==
    ASSUME ufiles' = ufiles, prog' = prog, NEW k
    PROVE  Loaded(k)' <=> Loaded(k)
BY DEF Loaded, HasRofixup, Elf, Files

LEMMA RLoad ==
    ASSUME RInv, LoadFile \/ NoRoom
    PROVE  RInv'
<1>0. /\ pc = "load" /\ pc' = pc /\ loadRet = 0 /\ i <= depCount /\ calls' = calls
      /\ UNCHANGED <<prog, depCount, linkRet, linked>>
  BY DEF LoadFile, NoRoom, listVars, linkVars
<1>1. /\ depCount = Len(Files) /\ Len(Files) \in Nat /\ DOMAIN ufiles = 1 .. depCount
      /\ i \in Nat \ {0} /\ linked = {} /\ linkRet = 0 /\ calls = <<>> /\ prog \in Programs
      /\ \A k \in 1 .. depCount : k < i => Loaded(k)
  BY <1>0 DEF RInv
<1>2. i \in 1 .. depCount
  BY <1>0, <1>1
<1>3. Files' = Files
  BY <1>0 DEF Files
<1>4. RunsReady'
  BY <1>0, <1>1 DEF RunsReady
<1>5. CASE NoRoom
  <2>1. UNCHANGED <<i, ufiles>> /\ loadRet' = -1 /\ trapped' = TRUE
    BY <1>5 DEF NoRoom
  <2>2. \A k \in 1 .. depCount : k < i => Loaded(k)'
    BY <1>0, <1>1, <2>1, LoadedKept
  <2>3. QED
    BY <1>0, <1>1, <1>3, <1>4, <2>1, <2>2 DEF RInv
<1>6. CASE LoadFile
  <2> DEFINE u == CreateFile(i, secCount - secIdx)
             at == NextMembase(membase, allocated)
             p == Placed(u, at)
  <2>1. u.fse = i /\ p.fse = i /\ p.flash = u.flash /\ (p.mem # <<>> => u.mem # <<>>)
    <3>1. u.fse = i
      BY DEF CreateFile, NoFile
    <3>2. p.fse = u.fse /\ p.flash = u.flash
      BY DEF Placed, CreateFile, NoFile
    <3>3. u.mem = <<>> => p.mem = <<>>
      <4> DEFINE n == Len(u.mem)
                 w == [k \in 1 .. n |-> [u.mem[k] EXCEPT !.adjVma = at + SizeUpTo(u.mem, k - 1),
                                                        !.loaded = TRUE]]
      <4>1. p.mem = w
        BY DEF Placed, CreateFile, NoFile
      <4>2. u.mem = <<>> => n = 0
        OBVIOUS
      <4> HIDE DEF n
      <4>3. n = 0 => w = <<>>
        OBVIOUS
      <4>4. QED
        BY <4>1, <4>2, <4>3
    <3>4. QED
      BY <3>1, <3>2, <3>3
  <2> HIDE DEF u, at
  <2>2. \/ /\ u.mem = <<>> /\ ufiles' = [ufiles EXCEPT ![i] = u] /\ i' = i + 1
           /\ UNCHANGED <<loadRet, trapped>>
        \/ /\ u.mem # <<>> /\ ufiles' = [ufiles EXCEPT ![i] = p]
           /\ \/ HasRofixup(i) /\ i' = i + 1 /\ UNCHANGED <<loadRet, trapped>>
              \/ loadRet' = 1 /\ trapped' = TRUE /\ i' = i
    BY <1>6 DEF LoadFile, u, at
  <2> HIDE DEF p
  <2>3. /\ DOMAIN ufiles' = 1 .. depCount /\ i' \in Nat \ {0} /\ i' <= depCount + 1
        /\ \A k \in 1 .. depCount : k < i => k # i /\ ufiles'[k] = ufiles[k]
    BY <1>0, <1>1, <1>2, <2>2
  <2>4. \A k \in 1 .. depCount : k < i => Loaded(k)'
    BY <1>0, <1>1, <2>3 DEF Loaded, HasRofixup, Elf, Files
  <2>5. i' = i + 1 => Loaded(i)' \/ ufiles'[i].fse = i
    BY <1>1, <1>2, <2>1, <2>2
  <2>6. ASSUME NEW k \in 1 .. depCount, k < i' PROVE Loaded(k)'
    <3>1. k < i \/ (k = i /\ i' = i + 1)
      BY <1>1, <2>2, <2>6
    <3>2. CASE k = i /\ i' = i + 1
      <4>1. (ufiles'[k] = u /\ u.mem = <<>>) \/ (ufiles'[k] = p /\ HasRofixup(k))
        BY <1>1, <1>2, <2>2, <3>2
      <4>2. ufiles'[k].fse = k
        BY <2>1, <3>2, <4>1
      <4>3. ufiles'[k].mem # <<>> => HasRofixup(k)'
        BY <1>0, <4>1 DEF HasRofixup, Elf, Files
      <4>4. QED
        BY <4>2, <4>3 DEF Loaded
    <3>3. QED
      BY <2>4, <3>1, <3>2
  <2>7. (loadRet' # 0 => trapped') /\ trapped' \in BOOLEAN
    BY <1>0, <2>2 DEF RInv
  <2>8. QED
    BY <1>0, <1>1, <1>3, <1>4, <2>3, <2>6, <2>7 DEF RInv
<1>7. QED
  BY <1>5, <1>6

LEMMA RLink ==
    ASSUME RInv, LinkFile \/ LinkFails
    PROVE  RInv'
<1>0. /\ pc = "link" /\ pc' = pc /\ linkRet = 0 /\ i <= depCount /\ calls' = calls
      /\ UNCHANGED <<prog, depCount, ufiles, loadRet>>
  BY DEF LinkFile, LinkFails, listVars, loadVars
<1>1. /\ depCount = Len(Files) /\ Len(Files) \in Nat /\ i \in Nat \ {0} /\ calls = <<>>
      /\ linked = 1 .. i - 1
  BY <1>0 DEF RInv
<1>2. i \in 1 .. Len(Files)
  BY <1>0, <1>1
<1>3. Files' = Files /\ \A k : Rels(k)' = Rels(k)
  BY <1>0 DEF Files, Rels
<1>4. RunsReady'
  BY <1>0, <1>1 DEF RunsReady
<1>5. \A k : Loaded(k)' <=> Loaded(k)
  BY <1>0, LoadedKept
<1>6. CASE LinkFile
  <2>1. linked' = linked \cup {i} /\ i' = i + 1 /\ UNCHANGED <<linkRet, trapped>>
    BY <1>6 DEF LinkFile
  <2>2. linked' = 1 .. i' - 1 /\ i' \in Nat \ {0} /\ i' <= depCount + 1
    BY <1>0, <1>1, <2>1
  <2>3. QED
    BY <1>0, <1>1, <1>3, <1>4, <1>5, <2>1, <2>2 DEF RInv
<1>7. CASE LinkFails
  <2>1. /\ Rels(i) \in {"bad", "notables"} /\ linkRet' = -1
        /\ trapped' = (trapped \/ Traps(i)) /\ UNCHANGED <<i, linked>>
    BY <1>7 DEF LinkFails
  <2>2. trapped' \in BOOLEAN /\ (trapped => trapped') /\ (Rels(i) = "bad" => trapped')
    BY <2>1 DEF RInv, Traps
  <2>3. trapped' \/ \E k \in 1 .. Len(Files) : Rels(k) = "notables"
    BY <1>2, <2>1, <2>2
  <2>4. QED
    BY <1>0, <1>1, <1>3, <1>4, <1>5, <2>1, <2>2, <2>3 DEF RInv
<1>8. QED
  BY <1>6, <1>7

(* The steps that change neither the files nor what is linked. *)
LEMMA ROther ==
    ASSUME RInv, [Next]_vars, ~LoadFile, ~NoRoom, ~LinkFile, ~LinkFails
    PROVE  RInv'
<1>0. prog' = prog /\ Files' = Files /\ prog \in Programs /\ Len(Files) \in Nat
      /\ \A k : Rels(k)' = Rels(k)
  BY DEF RInv, Next, vars, CountDeps, BuildList, LoadDone, LinkDone, PrintGdbSymCmd,
         PrintGdbDone, NoSuchFile, CallInitFunc, NextInitFile, ExecFile, Stopped, listVars, Files, Rels
<1>1. CASE CountDeps
  <2>1. /\ pc = "count" /\ UNCHANGED <<i, calls, trapped, loadRet, linkRet, linked, ufiles>>
        /\ pc' = "wild" \/ (pc' = "build" /\ depCount' = Len(Files))
    BY <1>1 DEF CountDeps, loadVars, linkVars
  <2>2. RunsReady' /\ calls = <<>>
    BY <2>1 DEF RInv, RunsReady
  <2>3. QED
    BY <1>0, <2>1, <2>2 DEF RInv
<1>2. CASE BuildList
  <2>1. /\ pc = "build" /\ pc' = "load" /\ UNCHANGED <<depCount, i, calls, trapped, loadRet, linkRet, linked>>
        /\ ufiles' = [k \in 1 .. depCount |-> NoFile]
    BY <1>2 DEF BuildList, linkVars
  <2>2. i = 1 /\ calls = <<>> /\ depCount = Len(Files) /\ loadRet = 0 /\ linkRet = 0 /\ linked = {}
    BY <2>1 DEF RInv
  <2>3. \A k \in 1 .. depCount : ~(k < i)
    BY <1>0, <2>2
  <2>4. RunsReady'
    BY <2>1, <2>2 DEF RunsReady
  <2>5. i <= depCount + 1 /\ DOMAIN ufiles' = 1 .. depCount
    BY <1>0, <2>1, <2>2
  <2>6. QED
    BY <1>0, <2>1, <2>2, <2>3, <2>4, <2>5 DEF RInv
<1>3. CASE LoadDone
  <2>1. /\ pc = "load" /\ pc' = "link" /\ (loadRet # 0 \/ i > depCount) /\ i' = 1
        /\ UNCHANGED <<depCount, ufiles, calls, trapped, loadRet, linkRet, linked>>
    BY <1>3 DEF LoadDone, listVars
  <2>2. /\ calls = <<>> /\ depCount = Len(Files) /\ linkRet = 0 /\ linked = {} /\ i \in Nat \ {0}
        /\ \A k \in 1 .. depCount : k < i => Loaded(k)
    BY <2>1 DEF RInv
  <2>3. loadRet = 0 => \A k \in 1 .. depCount : Loaded(k)'
    <3>1. loadRet = 0 => \A k \in 1 .. depCount : k < i
      BY <1>0, <2>1, <2>2
    <3>2. QED
      BY <1>0, <2>1, <2>2, <3>1, LoadedKept
  <2>4. linked' = 1 .. i' - 1 /\ i' <= depCount + 1
    BY <1>0, <2>1, <2>2
  <2>5. RunsReady'
    BY <2>1, <2>2 DEF RunsReady
  <2>6. QED
    BY <1>0, <2>1, <2>2, <2>3, <2>4, <2>5 DEF RInv
<1>4. CASE LinkDone
  <2>1. /\ pc = "link" /\ pc' = "gdb" /\ (linkRet # 0 \/ i > depCount) /\ i' = 1
        /\ UNCHANGED <<depCount, ufiles, calls, trapped, loadRet, linkRet, linked>>
    BY <1>4 DEF LinkDone, listVars, loadVars, linkVars
  <2>2. /\ calls = <<>> /\ depCount = Len(Files) /\ linked = 1 .. i - 1 /\ i <= depCount + 1
        /\ i \in Nat \ {0}
    BY <2>1 DEF RInv
  <2>3. linkRet = 0 => linked = 1 .. Len(Files)
    BY <1>0, <2>1, <2>2
  <2>4. RunsReady'
    BY <2>1, <2>2 DEF RunsReady
  <2>5. \A k : Loaded(k)' <=> Loaded(k)
    BY <1>0, <2>1, LoadedKept
  <2>6. QED
    BY <1>0, <2>1, <2>2, <2>3, <2>4, <2>5 DEF RInv
<1>5. CASE PrintGdbSymCmd \/ PrintGdbDone \/ NoSuchFile \/ NextInitFile \/ UNCHANGED vars \/ Stopped
  <2>1. /\ UNCHANGED <<depCount, ufiles, calls, trapped, loadRet, linkRet, linked>>
        /\ \/ pc \in {"gdb", "init"} /\ pc' \in {"gdb", "init", "wild"} /\ pc' \in {pc, "init", "wild"}
           \/ pc' = pc /\ i' = i
        /\ i' = i \/ i' = 1 \/ i' = i + 1
    BY <1>5 DEF PrintGdbSymCmd, PrintGdbDone, NoSuchFile, NextInitFile, Stopped, vars, listVars,
                loadVars, linkVars
  <2>2. \A k : Loaded(k)' <=> Loaded(k)
    BY <1>0, <2>1, LoadedKept
  <2>3. RunsReady'
    BY <1>0, <2>1, <2>2 DEF RInv, RunsReady
  <2>4. i' \in Nat \ {0}
    BY <2>1 DEF RInv
  <2>5. QED
    BY <1>0, <2>1, <2>2, <2>3, <2>4 DEF RInv
<1>6. CASE CallInitFunc \/ ExecFile
  <2>1. /\ UNCHANGED <<depCount, ufiles, trapped, loadRet, linkRet, linked, i>>
        /\ pc = "init" /\ pc' \in {"init", "entered"}
    BY <1>6 DEF CallInitFunc, ExecFile, listVars, loadVars, linkVars
  <2>2. \A k : Loaded(k)' <=> Loaded(k)
    BY <1>0, <2>1, LoadedKept
  <2>3. depCount = Len(Files) /\ (loadRet # 0 => trapped)
        /\ (linkRet # 0 => trapped \/ \E k \in 1 .. Len(Files) : Rels(k) = "notables")
        /\ (loadRet = 0 => \A k \in 1 .. depCount : Loaded(k))
        /\ (linkRet = 0 => linked = 1 .. Len(Files))
    BY <2>1 DEF RInv
  <2>4. RunsReady'
    BY <1>0, <2>1, <2>2, <2>3 DEF RunsReady
  <2>5. QED
    BY <1>0, <2>1, <2>2, <2>3, <2>4 DEF RInv
<1>7. QED
  BY <1>1, <1>2, <1>3, <1>4, <1>5, <1>6 DEF Next

-----------------------------------------------------------------------------
(* The memory of the files *)

Later == {"load", "link", "gdb", "init", "entered"}

(* Every file ends below what the load has handed out, and the pool of a load
   that succeeded begins there. *)
KInv ==
    /\ {first, membase, allocated, poolAt} \subseteq Nat
    /\ pc \in {"count", "build", "load"} => clobbered = {}
    /\ pc \in Later =>
          /\ membase >= BssEnd
          /\ \A k \in 1 .. depCount :
                /\ ufiles[k].membase \in Nat /\ ufiles[k].memsz \in Nat
                /\ ufiles[k].memsz # 0 => ufiles[k].membase + ufiles[k].memsz <= membase + allocated
    /\ pc = "link" /\ loadRet = 0 => poolAt >= membase + allocated
    /\ MemoryKept

LEMMA NextMembaseFacts ==
    ASSUME NEW a \in Nat, NEW s \in Nat
    PROVE  /\ NextMembase(a, s) \in Nat /\ NextMembase(a, s) >= BssEnd
           /\ a >= BssEnd => NextMembase(a, s) >= a + s
<1>0. BssEnd \in Nat /\ Align \in Nat \ {0}
  BY AddressAssumption
<1> DEFINE n == IF a >= BssEnd THEN a + s ELSE BssEnd
           r == (-n) % Align
<1>1. n \in Nat /\ n >= BssEnd /\ (a >= BssEnd => n >= a + s)
  BY <1>0
<1>2. NextMembase(a, s) = n + r
  BY DEF NextMembase
<1> HIDE DEF n
<1>3. r \in Nat
  <2>1. -n \in Int
    BY <1>1
  <2>2. ASSUME NEW x \in Int PROVE x % Align \in 0 .. Align - 1
    BY <1>0
  <2>3. QED
    BY <1>0, <2>1, <2>2
<1> HIDE DEF r
<1>4. ASSUME NEW x \in Nat, NEW y \in Nat, NEW z \in Nat, x >= z PROVE x + y \in Nat /\ x + y >= z
  BY <1>4
<1>5. a + s \in Nat
  OBVIOUS
<1>6. QED
  BY <1>0, <1>1, <1>2, <1>3, <1>4, <1>5

LEMMA FileFacts ==
    ASSUME NEW p \in Programs, NEW k \in 1 .. Len(p.list)
    PROVE  /\ p.list[k] \in Table /\ File[p.list[k]].elf \in Image
           /\ File[p.list[k]].pool \in Nat
           /\ File[p.list[k]].rels \in {"none", "good", "bad", "notables"}
<1>1. p.list \in Seq(Table)
  BY ProgramsAssumption
<1>2. p.list[k] \in Table
  BY <1>1, ElementOfSeq
<1>3. File[p.list[k]] \in [elf : Image, rels : {"none", "good", "bad", "notables"}, pool : Nat]
  BY <1>2, FileAssumption
<1>4. QED
  BY <1>2, <1>3

(* The sections of a list have their sizes. *)
LEMMA ListSizes ==
    ASSUME NEW f \in Image, NEW snum, NEW type
    PROVE  LET l == CreateSecList(f, snum, type)
           IN  /\ Len(l) \in Nat /\ l = SecsIn(f, TakenSecs(f, snum, type))
               /\ Len(l) = Cardinality(TakenSecs(f, snum, type))
               /\ \A k \in 1 .. Len(l) : l[k].size \in Nat
<1> DEFINE S == TakenSecs(f, snum, type)
           l == SecsIn(f, S)
<1>1. S \subseteq 1 .. Len(f.secs)
  BY DEF TakenSecs, OfType
<1>2. CreateSecList(f, snum, type) = l
  BY DEF CreateSecList, SecsIn, At, Rank
<1> HIDE DEF S
<1>3. /\ Cardinality(S) \in Nat /\ Len(l) = Cardinality(S)
      /\ l = [k \in 1 .. Cardinality(S) |-> CreateSection(f, At(f, S, k))]
      /\ \A k \in 1 .. Cardinality(S) : At(f, S, k) \in S
  BY <1>1, SortedFacts
<1>4. \A k : CreateSection(f, k).size = f.secs[k].size
  BY DEF CreateSection
<1> HIDE DEF l
<1>5. ASSUME NEW k \in 1 .. Len(l) PROVE l[k].size \in Nat
  <2>1. k \in 1 .. Cardinality(S)
    BY <1>3
  <2>2. l[k] = CreateSection(f, At(f, S, k)) /\ At(f, S, k) \in 1 .. Len(f.secs)
    BY <1>1, <1>3, <2>1
  <2>3. QED
    BY <1>4, <2>2, ImageFacts
<1>6. QED
  BY <1>2, <1>3, <1>5 DEF S, l

LEMMA SizeUpToNat ==
    ASSUME NEW l, Len(l) \in Nat, \A k \in 1 .. Len(l) : l[k].size \in Nat
    PROVE  SizeUpTo(l, Len(l)) \in Nat
<1> DEFINE n == Len(l)
           g == [k \in 1 .. n |-> l[k].size]
           Q(f) == f = [k \in 0 .. n |-> IF k = 0 THEN 0 ELSE f[k - 1] + l[k].size]
           f0 == CHOOSE f : Q(f)
<1>1. g \in [1 .. n -> Nat]
  OBVIOUS
<1>2. \A f : Q(f) <=> IsSum(f, n, g)
  <2> SUFFICES ASSUME NEW f PROVE Q(f) <=> IsSum(f, n, g)
    OBVIOUS
  <2>1. [k \in 0 .. n |-> IF k = 0 THEN 0 ELSE f[k - 1] + l[k].size]
          = [k \in 0 .. n |-> IF k = 0 THEN 0 ELSE f[k - 1] + g[k]]
    <3>1. \A k \in 0 .. n : k # 0 => g[k] = l[k].size
      OBVIOUS
    <3>2. QED
      BY <3>1
  <2>2. QED
    BY <2>1 DEF IsSum
<1>3. \E f : Q(f)
  BY <1>1, <1>2, SumExists
<1>4. IsSum(f0, n, g)
  BY <1>2, <1>3
<1>5. SizeUpTo(l, n) = f0[n]
  BY DEF SizeUpTo
<1> HIDE DEF f0, g
<1>6. n \in 0 .. n
  OBVIOUS
<1>7. QED
  BY <1>1, <1>4, <1>5, <1>6, SumFacts

LEMMA KInvInit == Init => KInv
<1> SUFFICES ASSUME Init PROVE KInv
  OBVIOUS
<1>1. pc = "count" /\ clobbered = {} /\ first = 0 /\ membase = 0 /\ allocated = 0 /\ poolAt = 0
  BY DEF Init
<1>2. {first, membase, allocated, poolAt} \subseteq Nat
  BY <1>1
<1>3. QED
  BY <1>1, <1>2 DEF KInv, MemoryKept, Later

LEMMA KLoadFile ==
    ASSUME RInv, KInv, LoadFile
    PROVE  KInv'
<1>0. /\ pc = "load" /\ pc' = pc /\ loadRet = 0 /\ i <= depCount
      /\ UNCHANGED <<prog, depCount, first, clobbered, poolAt>>
  BY DEF LoadFile, listVars, linkVars
<1>1. /\ depCount = Len(Files) /\ Len(Files) \in Nat /\ DOMAIN ufiles = 1 .. depCount
      /\ i \in Nat \ {0} /\ prog \in Programs
  BY <1>0 DEF RInv
<1>2. i \in 1 .. depCount
  BY <1>0, <1>1
<1>3. Elf(i) \in Image
  BY <1>1, <1>2, FileFacts DEF Elf, Files
<1> DEFINE u == CreateFile(i, secCount - secIdx)
           at == NextMembase(membase, allocated)
           p == Placed(u, at)
<1>4. {first, membase, allocated, poolAt} \subseteq Nat /\ membase >= BssEnd /\ clobbered = {}
  BY <1>0 DEF KInv, Later
<1>5. at \in Nat /\ at >= BssEnd /\ at >= membase + allocated
  BY <1>4, NextMembaseFacts
<1>6. u.membase = 0 /\ u.memsz = 0 /\ p.membase = at /\ p.memsz \in Nat
  <2> DEFINE l == CreateSecList(Elf(i), secCount - secIdx, "mem")
  <2>1. u.membase = 0 /\ u.memsz = 0 /\ u.mem = l
    BY DEF CreateFile, NoFile
  <2>2. p.membase = at /\ p.memsz = SizeUpTo(u.mem, Len(u.mem))
    BY DEF Placed, CreateFile, NoFile
  <2>3. Len(l) \in Nat /\ \A k \in 1 .. Len(l) : l[k].size \in Nat
    BY <1>3, ListSizes
  <2> HIDE DEF l
  <2>4. SizeUpTo(l, Len(l)) \in Nat
    BY <2>3, SizeUpToNat
  <2>5. QED
    BY <2>1, <2>2, <2>4
<1>7. \/ /\ ufiles' = [ufiles EXCEPT ![i] = u] /\ UNCHANGED <<membase, allocated>>
      \/ /\ ufiles' = [ufiles EXCEPT ![i] = p] /\ membase' = at /\ allocated' = p.memsz
  BY DEF LoadFile
<1> HIDE DEF u, at, p
<1>8. /\ membase' \in Nat /\ allocated' \in Nat /\ membase' >= BssEnd
      /\ membase' + allocated' >= membase + allocated
  BY <1>4, <1>5, <1>6, <1>7
<1>9. ASSUME NEW k \in 1 .. depCount
      PROVE  /\ ufiles'[k].membase \in Nat /\ ufiles'[k].memsz \in Nat
             /\ ufiles'[k].memsz # 0 =>
                   ufiles'[k].membase + ufiles'[k].memsz <= membase' + allocated'
  <2>1. CASE k # i
    <3>1. ufiles'[k] = ufiles[k]
      BY <1>1, <1>7, <2>1
    <3>2. /\ ufiles[k].membase \in Nat /\ ufiles[k].memsz \in Nat
          /\ ufiles[k].memsz # 0 => ufiles[k].membase + ufiles[k].memsz <= membase + allocated
      BY <1>0 DEF KInv, Later
    <3> DEFINE x == ufiles[k].membase
               y == ufiles[k].memsz
               e == membase + allocated
               f == membase' + allocated'
    <3>3. e \in Nat /\ f \in Nat /\ e <= f
      <4>1. ASSUME NEW a \in Nat, NEW b \in Nat, NEW d \in Nat, NEW g \in Nat, d + g >= a + b
            PROVE  a + b \in Nat /\ d + g \in Nat /\ a + b <= d + g
        BY <4>1
      <4>2. membase \in Nat /\ allocated \in Nat /\ membase' \in Nat /\ allocated' \in Nat
        BY <1>4, <1>8
      <4>3. QED
        BY <1>8, <4>1, <4>2
    <3>4. x \in Nat /\ y \in Nat /\ (y # 0 => x + y <= e)
      BY <3>2
    <3> HIDE DEF x, y, e, f
    <3>5. y # 0 => x + y <= f
      BY <3>3, <3>4
    <3>6. QED
      BY <3>1, <3>4, <3>5 DEF x, y, e, f
  <2>2. CASE k = i
    <3>1. (ufiles'[k] = u) \/ (ufiles'[k] = p /\ membase' = at /\ allocated' = p.memsz)
      BY <1>1, <1>2, <1>7, <2>2
    <3>2. CASE ufiles'[k] = u
      BY <1>6, <3>2
    <3>3. CASE ufiles'[k] = p /\ membase' = at /\ allocated' = p.memsz
      <4>1. at + p.memsz <= at + p.memsz
        BY <1>5, <1>6
      <4>2. QED
        BY <1>5, <1>6, <3>3, <4>1
    <3>4. QED
      BY <3>1, <3>2, <3>3
  <2>3. QED
    BY <2>1, <2>2
<1>10. {first, membase', allocated', poolAt} \subseteq Nat
  BY <1>4, <1>8
<1>11. QED
  BY <1>0, <1>4, <1>8, <1>9, <1>10 DEF KInv, Later, MemoryKept

(* uld_dyn_alloc_desc takes its words above all the files. *)
LEMMA KLinkFile ==
    ASSUME RInv, KInv, LinkFile
    PROVE  KInv'
<1>0. /\ pc = "link" /\ pc' = pc /\ i <= depCount /\ i' = i + 1
      /\ UNCHANGED <<prog, depCount, ufiles, first, membase, allocated, loadRet>>
  BY DEF LinkFile, listVars, loadVars
<1>1. /\ depCount = Len(Files) /\ Len(Files) \in Nat /\ i \in Nat \ {0} /\ prog \in Programs
  BY <1>0 DEF RInv
<1>2. i \in 1 .. depCount
  BY <1>0, <1>1
<1> DEFINE n == IF HasRels(i) THEN File[Files[i]].pool ELSE 0
<1>3. n \in Nat
  BY <1>1, <1>2, FileFacts DEF Files
<1>4. /\ poolAt' = poolAt + n
      /\ clobbered' = clobbered \cup {k \in 1 .. depCount :
                                        Memory(k) \cap (poolAt .. poolAt + n - 1) # {}}
  BY DEF LinkFile
<1> HIDE DEF n
<1>5. /\ {first, membase, allocated, poolAt} \subseteq Nat /\ membase >= BssEnd
      /\ \A k \in 1 .. depCount :
            /\ ufiles[k].membase \in Nat /\ ufiles[k].memsz \in Nat
            /\ ufiles[k].memsz # 0 => ufiles[k].membase + ufiles[k].memsz <= membase + allocated
      /\ loadRet = 0 => poolAt >= membase + allocated
      /\ clobbered # {} => loadRet # 0
  BY <1>0 DEF KInv, Later, MemoryKept
<1>6. ASSUME loadRet = 0, NEW k \in 1 .. depCount
      PROVE  Memory(k) \cap (poolAt .. poolAt + n - 1) = {}
  <2> SUFFICES ASSUME NEW x \in Memory(k), x \in poolAt .. poolAt + n - 1 PROVE FALSE
    OBVIOUS
  <2> DEFINE b == ufiles[k].membase
             s == ufiles[k].memsz
  <2>1. x \in b .. b + s - 1
    BY DEF Memory
  <2>2. /\ b \in Nat /\ s \in Nat /\ (s # 0 => b + s <= membase + allocated)
        /\ membase \in Nat /\ allocated \in Nat /\ poolAt \in Nat /\ poolAt >= membase + allocated
    BY <1>5, <1>6
  <2> HIDE DEF b, s
  <2>3. x \in Int /\ x >= poolAt /\ x < b + s /\ x >= b
    BY <1>3, <2>1, <2>2
  <2>4. s # 0
    BY <2>2, <2>3
  <2>5. QED
    BY <2>2, <2>3, <2>4
<1>7. clobbered' # {} => loadRet # 0
  BY <1>4, <1>5, <1>6
<1>8. poolAt' \in Nat /\ (loadRet = 0 => poolAt' >= membase + allocated) /\ i' # 1
  <2>1. poolAt \in Nat /\ membase \in Nat /\ allocated \in Nat
    BY <1>5
  <2>2. QED
    BY <1>0, <1>1, <1>3, <1>4, <1>5, <2>1
<1>9. {first, membase, allocated, poolAt'} \subseteq Nat
  BY <1>5, <1>8
<1>10. QED
  BY <1>0, <1>5, <1>7, <1>8, <1>9 DEF KInv, Later, MemoryKept

LEMMA KOther ==
    ASSUME RInv, KInv, [Next]_vars, ~LoadFile, ~LinkFile
    PROVE  KInv'
<1>0. /\ {first, membase, allocated, poolAt} \subseteq Nat
      /\ first \in Nat /\ membase \in Nat /\ allocated \in Nat /\ poolAt \in Nat
  BY DEF KInv
<1>1. CASE CountDeps
  <2>1. /\ pc = "count" /\ pc' \in {"wild", "build"}
        /\ UNCHANGED <<first, membase, allocated, poolAt, clobbered>>
    BY <1>1 DEF CountDeps, loadVars, linkVars
  <2>2. QED
    BY <1>0, <2>1 DEF KInv, Later, MemoryKept
<1>2. CASE BuildList
  <2>1. /\ pc = "build" /\ pc' = "load" /\ UNCHANGED <<depCount, allocated, poolAt, clobbered>>
        /\ ufiles' = [k \in 1 .. depCount |-> NoFile]
        /\ first' = NextMembase(0, 0) /\ membase' = first'
    BY <1>2 DEF BuildList, linkVars
  <2>2. membase' \in Nat /\ membase' >= BssEnd /\ first' \in Nat
    BY <2>1, NextMembaseFacts
  <2>3. \A k \in 1 .. depCount : ufiles'[k].membase = 0 /\ ufiles'[k].memsz = 0
    BY <2>1 DEF NoFile
  <2>4. {first', membase', allocated, poolAt} \subseteq Nat
    BY <1>0, <2>2
  <2>5. clobbered = {}
    BY <2>1 DEF KInv
  <2>6. QED
    BY <2>1, <2>2, <2>3, <2>4, <2>5 DEF KInv, Later, MemoryKept
<1>3. CASE NoRoom
  <2>1. /\ pc = "load" /\ pc' = pc
        /\ UNCHANGED <<depCount, ufiles, first, membase, allocated, poolAt, clobbered>>
    BY <1>3 DEF NoRoom, listVars, linkVars
  <2>2. QED
    BY <1>0, <2>1 DEF KInv, Later, MemoryKept
<1>4. CASE LoadDone
  <2>1. /\ pc = "load" /\ pc' = "link" /\ poolAt' = PoolBase
        /\ UNCHANGED <<depCount, ufiles, first, membase, allocated, clobbered, loadRet>>
    BY <1>4 DEF LoadDone, listVars
  <2>2. PoolBase = IF loadRet = 0 THEN membase + allocated ELSE first
    <3>1. ASSUME NEW x \in Nat, NEW y \in Nat, NEW z \in Nat PROVE x + (y - x + z) = y + z
      OBVIOUS
    <3>2. QED
      BY <1>0, <3>1 DEF PoolBase
  <2>3. poolAt' \in Nat /\ (loadRet = 0 => poolAt' >= membase + allocated)
        /\ (loadRet # 0 => poolAt' = first)
    BY <1>0, <2>1, <2>2
  <2>4. {first, membase, allocated, poolAt'} \subseteq Nat /\ clobbered = {}
    BY <1>0, <2>1, <2>3 DEF KInv
  <2>5. QED
    BY <2>1, <2>3, <2>4 DEF KInv, Later, MemoryKept
<1>5. CASE LinkFails \/ UNCHANGED vars \/ Stopped
  <2>1. pc' = pc /\ i' = i
        /\ UNCHANGED <<depCount, ufiles, first, membase, allocated, poolAt, clobbered, loadRet>>
    BY <1>5 DEF LinkFails, Stopped, vars, listVars, loadVars
  <2>2. QED
    BY <2>1 DEF KInv, Later, MemoryKept
<1>6. CASE \/ LinkDone \/ PrintGdbSymCmd \/ PrintGdbDone \/ NoSuchFile
           \/ CallInitFunc \/ NextInitFile \/ ExecFile
  <2>1. /\ pc \in {"link", "gdb", "init"} /\ pc' \in {"gdb", "init", "entered", "wild"}
        /\ UNCHANGED <<depCount, ufiles, first, membase, allocated, poolAt, clobbered, loadRet>>
    BY <1>6 DEF LinkDone, PrintGdbSymCmd, PrintGdbDone, NoSuchFile, CallInitFunc,
                NextInitFile, ExecFile, listVars, loadVars, linkVars
  <2>2. QED
    BY <1>0, <2>1 DEF KInv, Later, MemoryKept
<1>7. QED
  BY <1>1, <1>2, <1>3, <1>4, <1>5, <1>6 DEF Next

LEMMA ExecInvariants == Spec => [](RInv /\ KInv)
<1>1. RInv /\ KInv /\ [Next]_vars => (RInv /\ KInv)'
  BY RLoad, RLink, ROther, KLoadFile, KLinkFile, KOther
<1>2. QED
  BY RInvInit, KInvInit, <1>1, PTL DEF Spec

(* What the link takes from its pool is laid over no file, whatever the files and
   their sizes, unless the load has failed: then the pool begins where the first
   file was loaded. *)
THEOREM PoolSparesTheFiles == Spec => []MemoryKept
<1>1. KInv => MemoryKept
  BY DEF KInv
<1>2. QED
  BY <1>1, ExecInvariants, PTL
-----------------------------------------------------------------------------
(* A sound program *)

DepSum(l) ==
    CHOOSE f : f = [k \in 0 .. Len(l) |-> IF k = 0 THEN 0 ELSE f[k - 1] + SecCount(File[l[k]].elf)]

(* With nothing wrong in the program, the array of section records has room for
   the file being loaded, and nothing fails. *)
GInv ==
    Sound =>
        /\ ~trapped /\ pc # "wild" /\ loadRet = 0 /\ linkRet = 0
        /\ pc \in {"count", "build"} => secIdx = 0
        /\ pc = "load" => secCount = DepListSecCount(Files) /\ secIdx = DepSum(Files)[i - 1]
        /\ pc \in Later => idx = depCount

(* The sections a file has at run time are those of its two lists. *)
LEMMA TypeFacts ==
    ASSUME NEW f \in Image
    PROVE  /\ \A t : /\ OfType(f, t) \subseteq 1 .. Len(f.secs)
                     /\ IsFiniteSet(OfType(f, t)) /\ Cardinality(OfType(f, t)) \in Nat
           /\ SecCount(f) \in Nat
           /\ Cardinality(OfType(f, {"mem"})) + Cardinality(OfType(f, {"flash"})) = SecCount(f)
<1> DEFINE A == OfType(f, {"mem"})
           B == OfType(f, {"flash"})
           N == OfType(f, {"flash", "mem"})
<1>0. Len(f.secs) \in Nat /\ IsFiniteSet(1 .. Len(f.secs))
  BY ImageFacts, FS_Interval
<1>1. \A t : OfType(f, t) \subseteq 1 .. Len(f.secs)
  BY DEF OfType
<1>2. \A t : IsFiniteSet(OfType(f, t)) /\ Cardinality(OfType(f, t)) \in Nat
  BY <1>0, <1>1, FS_Subset, FS_CardinalityType
<1>3. A \cup B = N /\ A \cap B = {}
  BY DEF OfType
<1>4. SecCount(f) = Cardinality(N)
  BY DEF SecCount
<1> HIDE DEF A, B, N
<1>5. IsFiniteSet(A) /\ IsFiniteSet(B)
  BY <1>2 DEF A, B
<1>6. Cardinality(A \cup B) = Cardinality(A) + Cardinality(B) - Cardinality(A \cap B)
  BY <1>5, FS_Union
<1>7. Cardinality({}) = 0
  BY FS_EmptySet
<1>8. Cardinality(A) \in Nat /\ Cardinality(B) \in Nat /\ Cardinality(N) \in Nat
  BY <1>2 DEF A, B, N
<1>9. Cardinality(A) + Cardinality(B) = SecCount(f)
  <2>1. SecCount(f) = Cardinality(A) + Cardinality(B) - 0
    BY <1>3, <1>4, <1>6, <1>7, Zenon
  <2>2. ASSUME NEW x \in Nat, NEW y \in Nat, NEW z, z = x + y - 0 PROVE x + y = z
    BY <2>2
  <2>3. QED
    BY <1>8, <2>1, <2>2
<1>10. QED
  BY <1>1, <1>2, <1>4, <1>8, <1>9 DEF A, B

LEMMA TakenAll ==
    ASSUME NEW f \in Image, NEW t, NEW snum \in Int, Cardinality(OfType(f, {t})) <= snum
    PROVE  TakenSecs(f, snum, t) = OfType(f, {t})
<1> DEFINE S == OfType(f, {t})
<1>1. IsFiniteSet(S) /\ Cardinality(S) \in Nat
  BY TypeFacts
<1>2. ASSUME NEW k \in S
      PROVE  Cardinality({m \in S : m <= k}) <= snum
  <2> DEFINE T == {m \in S : m <= k}
  <2>1. T \in SUBSET S
    OBVIOUS
  <2>2. IsFiniteSet(T) /\ Cardinality(T) <= Cardinality(S)
    BY <1>1, <2>1, FS_Subset
  <2>3. Cardinality(T) \in Nat
    BY <2>2, FS_CardinalityType
  <2> HIDE DEF T, S
  <2>4. Cardinality(T) <= snum
    BY <1>1, <2>2, <2>3 DEF S
  <2>5. QED
    BY <2>4 DEF T
<1>3. QED
  BY <1>2 DEF TakenSecs

(* With room for all its sections, the lists of a file hold all of them. *)
LEMMA CreateFileFull ==
    ASSUME NEW k, Elf(k) \in Image, NEW snum \in Int, SecCount(Elf(k)) <= snum
    PROVE  LET u == CreateFile(k, snum)
           IN  /\ u.flash = SecsIn(Elf(k), OfType(Elf(k), {"flash"}))
               /\ u.mem = SecsIn(Elf(k), OfType(Elf(k), {"mem"}))
               /\ Len(u.mem) \in Nat /\ Len(u.flash) \in Nat
               /\ Len(u.mem) + Len(u.flash) = SecCount(Elf(k))
<1> DEFINE f == Elf(k)
           a == Cardinality(OfType(f, {"mem"}))
           b == Cardinality(OfType(f, {"flash"}))
           m == CreateSecList(f, snum, "mem")
           u == CreateFile(k, snum)
<1>1. a \in Nat /\ b \in Nat /\ a + b = SecCount(f) /\ SecCount(f) \in Nat
  BY TypeFacts
<1>2. a <= snum /\ b <= snum - a /\ snum - a \in Int
  <2>1. ASSUME NEW x \in Nat, NEW y \in Nat, NEW z \in Nat, x + y = z, z <= snum
        PROVE  x <= snum /\ y <= snum - x /\ snum - x \in Int
    BY <2>1
  <2> HIDE DEF a, b
  <2>2. QED
    BY <1>1, <2>1
<1>3. TakenSecs(f, snum, "mem") = OfType(f, {"mem"})
  BY <1>2, TakenAll
<1>4. Len(m) = a /\ m = SecsIn(f, OfType(f, {"mem"}))
  BY <1>3, ListSizes
<1>5. TakenSecs(f, snum - a, "flash") = OfType(f, {"flash"})
  BY <1>2, TakenAll
<1>6. u.mem = m /\ u.flash = CreateSecList(f, snum - Len(m), "flash")
  BY DEF CreateFile, NoFile
<1> HIDE DEF m, u
<1>7. u.flash = CreateSecList(f, snum - a, "flash")
  BY <1>4, <1>6
<1>8. u.flash = SecsIn(f, OfType(f, {"flash"})) /\ Len(u.flash) = b
  BY <1>5, <1>7, ListSizes
<1> HIDE DEF f, a, b
<1>9. QED
  BY <1>1, <1>4, <1>6, <1>8 DEF f, u

(* The search for a name in the headers finds a section that has it. *)
LEMMA FoundByName ==
    ASSUME NEW f \in Image, NEW name, NEW m \in 1 .. Len(f.secs), f.secs[m].name = name
    PROVE  SectionByName(f, name) # 0
<1> DEFINE l == f.secs
           I == {n \in 1 .. Len(l) : l[n].name = name}
<1>1. m \in I /\ I \subseteq Nat
  OBVIOUS
<1>2. SectionByName(f, name) = Min(I)
  BY <1>1 DEF SectionByName, SelectInSeq
<1>3. \E x \in I : \A y \in I : x <= y
  BY <1>1, LowestExists
<1>4. Min(I) \in I
  BY <1>3 DEF Min
<1>5. QED
  BY <1>2, <1>4

(* The fixups find the .rofixup section of a file, which is one to be listed. *)
LEMMA RofixupFound ==
    ASSUME NEW f \in Image, NEW n \in 1 .. Len(f.secs),
           f.secs[n].name = ".rofixup", f.secs[n].alloc
    PROVE  /\ SectionByName(f, ".rofixup") # 0
           /\ SecCount(f) > 0
<1> DEFINE S == OfType(f, {"flash"})
<1>1. n \in S
  BY DEF OfType, SecType, MemNames
<1>2. S \subseteq 1 .. Len(f.secs) /\ IsFiniteSet(S) /\ Cardinality(S) \in Nat
  BY TypeFacts
<1>3. SectionByName(f, ".rofixup") # 0
  BY FoundByName
<1>4. SecCount(f) > 0
  <2>1. Cardinality(S) > 0
    BY <1>1, <1>2, FS_EmptySet
  <2>2. Cardinality(OfType(f, {"mem"})) \in Nat /\ SecCount(f) \in Nat
        /\ Cardinality(OfType(f, {"mem"})) + Cardinality(S) = SecCount(f)
    BY TypeFacts
  <2>3. ASSUME NEW x \in Nat, NEW y \in Nat, NEW z \in Nat, x + y = z, y > 0 PROVE z > 0
    BY <2>3
  <2>4. QED
    BY <1>2, <2>1, <2>2, <2>3
<1>5. QED
  BY <1>3, <1>4

LEMMA DepSumFacts ==
    ASSUME NEW p \in Programs
    PROVE  LET l == p.list
           IN  /\ DepListSecCount(l) = DepSum(l)[Len(l)]
               /\ DepSum(l)[0] = 0
               /\ \A k \in 0 .. Len(l) :
                     DepSum(l)[k] \in Nat /\ DepSum(l)[k] <= DepListSecCount(l)
               /\ \A k \in 1 .. Len(l) :
                     DepSum(l)[k] = DepSum(l)[k - 1] + SecCount(File[l[k]].elf)
<1> DEFINE l == p.list
           n == Len(l)
           Count(k) == SecCount(File[l[k]].elf)
           g == [k \in 1 .. n |-> Count(k)]
           Q(f) == f = [k \in 0 .. n |-> IF k = 0 THEN 0 ELSE f[k - 1] + Count(k)]
<1>0. n \in Nat
  BY ProgramsAssumption, LenProperties
<1>1. ASSUME NEW k \in 1 .. n PROVE Count(k) \in Nat
  <2>1. File[l[k]].elf \in Image
    BY FileFacts
  <2>2. QED
    BY <2>1, TypeFacts
<1> HIDE DEF Count
<1>2. g \in [1 .. n -> Nat]
  BY <1>1
<1>3. \A f : Q(f) <=> IsSum(f, n, g)
  <2> SUFFICES ASSUME NEW f PROVE Q(f) <=> IsSum(f, n, g)
    OBVIOUS
  <2>1. [k \in 0 .. n |-> IF k = 0 THEN 0 ELSE f[k - 1] + Count(k)]
          = [k \in 0 .. n |-> IF k = 0 THEN 0 ELSE f[k - 1] + g[k]]
    <3>1. \A k \in 0 .. n : k # 0 => g[k] = Count(k)
      BY <1>0
    <3>2. QED
      BY <3>1
  <2>2. QED
    BY <2>1 DEF IsSum
<1>4. \E f : Q(f)
  BY <1>0, <1>2, <1>3, SumExists
<1>5. Q(DepSum(l))
  BY <1>4 DEF DepSum, Count
<1>6. IsSum(DepSum(l), n, g)
  BY <1>3, <1>5
<1>7. DepListSecCount(l) = DepSum(l)[n]
  BY DEF DepListSecCount, DepSum
<1>8. \A k \in 1 .. n : g[k] = Count(k)
  OBVIOUS
<1> HIDE DEF g
<1>9. /\ DepSum(l)[0] = 0
      /\ \A k \in 0 .. n : DepSum(l)[k] \in Nat /\ DepSum(l)[k] <= DepSum(l)[n]
      /\ \A k \in 1 .. n : DepSum(l)[k] = DepSum(l)[k - 1] + g[k]
  BY <1>0, <1>2, <1>6, SumFacts
<1>10. QED
  BY <1>7, <1>8, <1>9 DEF Count

LEMMA GLoadFile ==
    ASSUME RInv, GInv, Sound, LoadFile \/ NoRoom
    PROVE  LoadFile /\ UNCHANGED <<trapped, loadRet>> /\ secIdx' = DepSum(Files)[i' - 1]
<1>0. pc = "load" /\ i <= depCount
  BY DEF LoadFile, NoRoom
<1>1. /\ depCount = Len(Files) /\ Len(Files) \in Nat /\ i \in Nat \ {0} /\ prog \in Programs
      /\ secCount = DepListSecCount(Files) /\ secIdx = DepSum(Files)[i - 1]
  BY <1>0 DEF RInv, GInv
<1>2. i \in 1 .. Len(Files) /\ i \in 0 .. Len(Files) /\ i - 1 \in 0 .. Len(Files)
  BY <1>0, <1>1
<1> DEFINE f == Elf(i)
<1>3. f \in Image
  BY <1>1, <1>2, FileFacts DEF Elf, Files
<1>4. PICK n \in 1 .. Len(f.secs) : f.secs[n].name = ".rofixup" /\ f.secs[n].alloc
  BY <1>2 DEF Sound
<1>5. SectionByName(f, ".rofixup") # 0 /\ SecCount(f) > 0
  BY <1>3, <1>4, RofixupFound
<1>6. SecCount(f) \in Nat
  BY <1>3, TypeFacts
<1>7. /\ DepSum(Files)[i] = secIdx + SecCount(f) /\ DepSum(Files)[i] <= secCount
      /\ secIdx \in Nat /\ secCount \in Nat
  <2>1. Len(Files) \in 0 .. Len(Files)
    BY <1>1
  <2>2. QED
    BY <1>1, <1>2, <2>1, DepSumFacts DEF Files, Elf
<1> DEFINE snum == secCount - secIdx
           u == CreateFile(i, snum)
<1>8. snum \in Int /\ SecCount(f) <= snum /\ snum > 0
  <2> HIDE DEF f
  <2>1. ASSUME NEW x \in Nat, NEW y \in Nat, NEW z \in Nat, x + y <= z, y > 0
        PROVE  z - x \in Int /\ y <= z - x /\ z - x > 0
    BY <2>1
  <2>2. secIdx + SecCount(f) <= secCount
    BY <1>7
  <2>3. QED
    BY <1>5, <1>6, <1>7, <2>1, <2>2
<1>9. LoadFile
  BY <1>7, <1>8 DEF NoRoom
<1>10. /\ Len(u.mem) \in Nat /\ Len(u.flash) \in Nat
       /\ Len(u.mem) + Len(u.flash) = SecCount(f)
  <2> HIDE DEF snum
  <2>1. QED
    BY <1>3, <1>8, CreateFileFull
<1>11. HasRofixup(i)
  BY <1>5 DEF HasRofixup
<1>12. /\ i' = i + 1 /\ UNCHANGED <<trapped, loadRet>>
       /\ \/ u.mem = <<>> /\ secIdx' = secIdx + Len(u.flash)
          \/ secIdx' = secIdx + Len(u.flash) + Len(u.mem)
  BY <1>9, <1>11 DEF LoadFile
<1>13. u.mem = <<>> => Len(u.mem) = 0
  OBVIOUS
<1> HIDE DEF u, f, snum
<1>14. secIdx' = secIdx + SecCount(f)
  <2> DEFINE y == Len(u.mem)
             z == Len(u.flash)
             w == SecCount(f)
  <2>1. /\ y \in Nat /\ z \in Nat /\ w \in Nat /\ secIdx \in Nat /\ y + z = w
        /\ (y = 0 /\ secIdx' = secIdx + z) \/ secIdx' = secIdx + z + y
    BY <1>6, <1>7, <1>10, <1>12, <1>13
  <2> HIDE DEF y, z, w
  <2>2. secIdx' = secIdx + w
    BY <2>1
  <2>3. QED
    BY <2>2 DEF w
<1>15. i' - 1 = i
  BY <1>1, <1>12
<1>16. QED
  BY <1>7, <1>9, <1>12, <1>14, <1>15

LEMMA GInvNext ==
    ASSUME RInv, GInv, [Next]_vars
    PROVE  GInv'
<1>0. prog' = prog /\ Files' = Files /\ prog \in Programs
  BY DEF RInv, Next, vars, CountDeps, BuildList, LoadFile, NoRoom, LoadDone, LinkFile, LinkFails,
         LinkDone, PrintGdbSymCmd, PrintGdbDone, NoSuchFile, CallInitFunc, NextInitFile, ExecFile,
         Stopped, listVars, Files
<1>1. Sound' => Sound
  BY <1>0 DEF Sound, Rels, Elf, Files
<1> SUFFICES ASSUME Sound PROVE GInv'
  BY <1>1 DEF GInv
<1>2. /\ ~trapped /\ pc # "wild" /\ loadRet = 0 /\ linkRet = 0
      /\ pc \in {"count", "build"} => secIdx = 0
      /\ pc = "load" => secCount = DepListSecCount(Files) /\ secIdx = DepSum(Files)[i - 1]
      /\ pc \in Later => idx = depCount
  BY DEF GInv
<1>3. CASE CountDeps
  <2>1. pc = "count" /\ pc' = "build" /\ UNCHANGED <<trapped, loadRet, linkRet, secIdx>>
    BY <1>3 DEF CountDeps, Sound, loadVars, linkVars
  <2>2. QED
    BY <1>2, <2>1 DEF GInv, Later
<1>4. CASE BuildList
  <2>1. /\ pc = "build" /\ pc' = "load" /\ idx' = depCount /\ secCount' = DepListSecCount(Files)
        /\ UNCHANGED <<trapped, loadRet, linkRet, secIdx, depCount, i>>
    BY <1>4 DEF BuildList, linkVars
  <2>2. i' - 1 = 0 /\ secIdx' = 0
    BY <1>2, <2>1 DEF RInv
  <2>3. DepSum(Files)[0] = 0
    BY <1>0, DepSumFacts DEF Files
  <2>4. QED
    BY <1>0, <1>2, <2>1, <2>2, <2>3 DEF GInv, Later
<1>5. CASE LoadFile \/ NoRoom
  <2>1. LoadFile /\ UNCHANGED <<trapped, loadRet>> /\ secIdx' = DepSum(Files)[i' - 1]
    BY <1>5, GLoadFile
  <2>2. pc = "load" /\ pc' = pc /\ UNCHANGED <<linkRet, secCount, idx, depCount>>
    BY <2>1 DEF LoadFile, listVars, linkVars
  <2>3. QED
    BY <1>0, <1>2, <2>1, <2>2 DEF GInv, Later
<1>6. CASE LoadDone \/ LinkFile \/ LinkDone \/ PrintGdbSymCmd \/ PrintGdbDone
           \/ CallInitFunc \/ NextInitFile \/ ExecFile
  <2>1. /\ pc \in {"load", "link", "gdb", "init"} /\ pc' \in {"link", "gdb", "init", "entered"}
        /\ UNCHANGED <<trapped, loadRet, linkRet, idx, depCount>>
    BY <1>6 DEF LoadDone, LinkFile, LinkDone, PrintGdbSymCmd, PrintGdbDone, CallInitFunc,
                NextInitFile, ExecFile, listVars, loadVars, linkVars
  <2>2. QED
    BY <1>2, <2>1 DEF GInv, Later
<1>7. CASE LinkFails
  <2>1. pc = "link" /\ i <= depCount /\ Rels(i) \in {"bad", "notables"}
    BY <1>7 DEF LinkFails
  <2>2. i \in 1 .. Len(Files)
    BY <2>1 DEF RInv
  <2>3. QED
    BY <2>1, <2>2 DEF Sound
<1>8. CASE NoSuchFile
  <2>1. pc \in {"gdb", "init"} /\ (i <= idx \/ i <= depCount) /\ ufiles[i].fse = 0
    BY <1>8 DEF NoSuchFile
  <2>2. idx = depCount /\ depCount = Len(Files) /\ Len(Files) \in Nat /\ i \in Nat \ {0}
        /\ \A k \in 1 .. depCount : Loaded(k)
    BY <1>2, <2>1 DEF RInv, Later
  <2>3. i \in 1 .. depCount /\ i # 0
    BY <2>1, <2>2
  <2>4. QED
    BY <2>1, <2>2, <2>3 DEF Loaded
<1>9. CASE Stopped \/ UNCHANGED vars
  <2>1. UNCHANGED vars
    BY <1>9 DEF Stopped
  <2>2. QED
    BY <1>0, <1>2, <2>1 DEF GInv, vars
<1>10. QED
  BY <1>3, <1>4, <1>5, <1>6, <1>7, <1>8, <1>9 DEF Next

(* uld_dyn_exec_fse looks at no return value.  Still, code of the files runs only
   if all are loaded and linked, or a swbkpt() was passed, or a file had no tables
   to link with; and with nothing wrong in the files the room that
   uld_dyn_get_dep_list_sec_count counted suffices, no swbkpt() is met and no
   record is read that was never filled. *)
THEOREM FailuresAreSeen == Spec => []FailuresSeen
<1>1. Init => GInv
  BY DEF Init, GInv, Later
<1>2. RInv /\ GInv /\ [Next]_vars => (RInv /\ GInv)'
  BY RLoad, RLink, ROther, GInvNext
<1>3. RInv /\ GInv => FailuresSeen
  BY DEF RInv, GInv, FailuresSeen, SoundStarts
<1>4. QED
  BY RInvInit, <1>1, <1>2, <1>3, PTL DEF Spec

-----------------------------------------------------------------------------
(* Constructors and entry *)

(* The searches in the section headers find the first that fits, or nothing. *)
LEMMA ByNameFacts ==
    ASSUME NEW f \in Image, NEW name
    PROVE  LET n == SectionByName(f, name)
           IN  /\ n \in 0 .. Len(f.secs)
               /\ n # 0 => f.secs[n].name = name
               /\ n = 0 => \A m \in 1 .. Len(f.secs) : f.secs[m].name # name
<1> DEFINE I == {n \in 1 .. Len(f.secs) : f.secs[n].name = name}
<1>0. Len(f.secs) \in Nat
  BY ImageFacts
<1>1. CASE I = {}
  <2>1. SectionByName(f, name) = 0
    BY <1>1 DEF SectionByName, SelectInSeq
  <2>2. QED
    BY <1>0, <1>1, <2>1
<1>2. CASE I # {}
  <2>1. SectionByName(f, name) = Min(I)
    BY <1>2 DEF SectionByName, SelectInSeq
  <2>2. \E x \in I : \A y \in I : x <= y
    <3>1. I \subseteq Nat
      OBVIOUS
    <3>2. QED
      BY <1>2, <3>1, LowestExists
  <2>3. Min(I) \in I
    BY <2>2 DEF Min
  <2>4. QED
    BY <1>0, <2>1, <2>3
<1>3. QED
  BY <1>1, <1>2

LEMMA ByVmaFacts ==
    ASSUME NEW f \in Image, NEW a
    PROVE  LET n == SectionByVma(f, a)
           IN  /\ n \in 0 .. Len(f.secs)
               /\ n # 0 => Within(a, f.secs[n].addr, f.secs[n].size)
               /\ n = 0 => \A m \in 1 .. Len(f.secs) : ~Within(a, f.secs[m].addr, f.secs[m].size)
<1> DEFINE I == {n \in 1 .. Len(f.secs) : Within(a, f.secs[n].addr, f.secs[n].size)}
<1>0. Len(f.secs) \in Nat
  BY ImageFacts
<1>1. CASE I = {}
  <2>1. SectionByVma(f, a) = 0
    BY <1>1 DEF SectionByVma, SelectInSeq
  <2>2. QED
    BY <1>0, <1>1, <2>1
<1>2. CASE I # {}
  <2>1. SectionByVma(f, a) = Min(I)
    BY <1>2 DEF SectionByVma, SelectInSeq
  <2>2. \E x \in I : \A y \in I : x <= y
    <3>1. I \subseteq Nat
      OBVIOUS
    <3>2. QED
      BY <1>2, <3>1, LowestExists
  <2>3. Min(I) \in I
    BY <2>2 DEF Min
  <2>4. QED
    BY <1>0, <2>1, <2>3
<1>3. QED
  BY <1>1, <1>2

LEMMA SectionFacts ==
    ASSUME NEW f \in Image, NEW n \in 1 .. Len(f.secs)
    PROVE  /\ f.secs[n].off \in Nat /\ f.secs[n].size \in Nat /\ f.secs[n].addr \in Nat
           /\ f.base \in Nat \ {0} /\ f.entry \in Nat
<1>1. f.secs \in Seq(Section) /\ f.base \in Nat \ {0} /\ f.entry \in Nat
  BY DEF Image
<1>2. f.secs[n] \in Section
  BY <1>1, ElementOfSeq
<1>3. QED
  BY <1>1, <1>2 DEF Section

(* A word of an array of file k, and the section it is in. *)
IsCall(k, call, name, n, j) ==
    /\ n \in 1 .. Len(Elf(k).secs) /\ Elf(k).secs[n].name = name
    /\ Elf(k).secs[n].type = "INIT_ARRAY"
    /\ j \in 1 .. Elf(k).secs[n].size
    /\ call = [file |-> k, sec |-> name, at |-> Elf(k).base + Elf(k).secs[n].off + j - 1,
               base |-> ufiles[k].membase]

LEMMA ArrayFacts ==
    ASSUME NEW k, Elf(k) \in Image, WellLinked(Elf(k)),
           NEW name \in {".preinit_array", ".init_array"}
    PROVE  LET n == SectionByName(Elf(k), name)
               l == Array(k, name)
           IN  /\ n = 0 => l = <<>>
               /\ Len(l) \in Nat /\ l = [j \in 1 .. Len(l) |-> l[j]]
               /\ n # 0 => Len(l) = Elf(k).secs[n].size
               /\ \A j \in 1 .. Len(l) : n # 0 /\ IsCall(k, l[j], name, n, j)
<1> DEFINE f == Elf(k)
           n == SectionByName(f, name)
           l == Array(k, name)
<1>1. /\ n \in 0 .. Len(f.secs) /\ (n # 0 => f.secs[n].name = name) /\ Len(f.secs) \in Nat
  BY ByNameFacts, ImageFacts
<1>2. CASE n = 0
  <2>1. l = <<>>
    BY <1>2 DEF Array
  <2>2. QED
    BY <1>2, <2>1
<1>3. CASE n # 0
  <2>1. n \in 1 .. Len(f.secs)
    BY <1>1, <1>3
  <2>2. f.secs[n].size \in Nat /\ f.secs[n].off \in Nat /\ f.base \in Nat
    BY <2>1, SectionFacts
  <2>3. f.secs[n].type = "INIT_ARRAY"
    BY <1>1, <1>3, <2>1 DEF WellLinked
  <2>4. l = [j \in 1 .. f.secs[n].size |->
               [file |-> k, sec |-> name, at |-> f.base + f.secs[n].off + j - 1,
                base |-> ufiles[k].membase]]
    BY <1>3 DEF Array, ArrayLen, FlashAddr
  <2> HIDE DEF f, n, l
  <2>5. Len(l) = f.secs[n].size /\ l = [j \in 1 .. Len(l) |-> l[j]]
    BY <2>2, <2>4
  <2>6. ASSUME NEW j \in 1 .. Len(l) PROVE IsCall(k, l[j], name, n, j)
    BY <1>1, <1>3, <2>1, <2>3, <2>4, <2>5 DEF IsCall, f
  <2>7. QED
    BY <1>3, <2>2, <2>5, <2>6 DEF f, n, l
<1>4. QED
  BY <1>2, <1>3

(* Each constructor of a file is one of its calls, and no two of these are the
   same word; those of .preinit_array come first. *)
LEMMA InitFuncsFacts ==
    ASSUME NEW k, Elf(k) \in Image, WellLinked(Elf(k))
    PROVE  LET l == InitFuncs(k)
           IN  /\ Len(l) \in Nat
               /\ \A j \in 1 .. Len(l) :
                     /\ l[j].file = k /\ l[j].base = ufiles[k].membase
                     /\ l[j].sec \in {".preinit_array", ".init_array"} /\ l[j].at \in Nat
                     /\ \E n \in 1 .. Len(Elf(k).secs) :
                           Elf(k).secs[n].type = "INIT_ARRAY" /\ l[j].at \in Contents(Elf(k), n)
               /\ \A j, m \in 1 .. Len(l) : l[j].at = l[m].at => j = m
               /\ \A j, m \in 1 .. Len(l) :
                     j < m /\ l[m].sec = ".preinit_array" => l[j].sec = ".preinit_array"
               /\ \A a \in Constructors(k) : \E j \in 1 .. Len(l) : l[j].at = a
<1> DEFINE f == Elf(k)
           n1 == SectionByName(f, ".preinit_array")
           n2 == SectionByName(f, ".init_array")
           A == Array(k, ".preinit_array")
           B == Array(k, ".init_array")
           l == InitFuncs(k)
           Len1 == Len(A)
           Len2 == Len(B)
<1>1. /\ Len1 \in Nat /\ Len2 \in Nat
      /\ A = [j \in 1 .. Len1 |-> A[j]] /\ B = [j \in 1 .. Len2 |-> B[j]]
      /\ \A j \in 1 .. Len1 : n1 # 0 /\ IsCall(k, A[j], ".preinit_array", n1, j)
      /\ \A j \in 1 .. Len2 : n2 # 0 /\ IsCall(k, B[j], ".init_array", n2, j)
      /\ n1 # 0 => Len1 = f.secs[n1].size
      /\ n2 # 0 => Len2 = f.secs[n2].size
  BY ArrayFacts
<1>2. l = A \o B
  BY DEF InitFuncs, InitSections
<1>3. /\ Len(l) = Len1 + Len2
      /\ \A j \in 1 .. Len1 : l[j] = A[j]
      /\ \A j \in 1 .. Len2 : l[Len1 + j] = B[j]
  <2>1. A \in Seq({A[j] : j \in 1 .. Len1} \cup {B[j] : j \in 1 .. Len2})
        /\ B \in Seq({A[j] : j \in 1 .. Len1} \cup {B[j] : j \in 1 .. Len2})
    <3> DEFINE S == {A[j] : j \in 1 .. Len1} \cup {B[j] : j \in 1 .. Len2}
    <3>1. A = [j \in 1 .. Len1 |-> A[j]] /\ B = [j \in 1 .. Len2 |-> B[j]]
      BY <1>1
    <3>2. (\A j \in 1 .. Len1 : A[j] \in S) /\ (\A j \in 1 .. Len2 : B[j] \in S)
      OBVIOUS
    <3> HIDE DEF S, A, B
    <3>3. A \in [1 .. Len1 -> S] /\ B \in [1 .. Len2 -> S]
      BY <3>1, <3>2
    <3>4. QED
      BY <1>1, <3>3, SeqDef DEF S
  <2> HIDE DEF A, B, l
  <2>2. QED
    BY <1>1, <1>2, <2>1, ConcatProperties
<1> HIDE DEF A, B, l, Len1, Len2, n1, n2
(* What the word at position j of the calls is. *)
<1>4. ASSUME NEW j \in 1 .. Len(l)
      PROVE  \/ j \in 1 .. Len1 /\ n1 # 0 /\ IsCall(k, l[j], ".preinit_array", n1, j)
             \/ /\ j > Len1 /\ j - Len1 \in 1 .. Len2 /\ n2 # 0
                /\ IsCall(k, l[j], ".init_array", n2, j - Len1)
  <2>1. CASE j <= Len1
    <3>1. j \in 1 .. Len1
      BY <1>1, <1>3, <2>1
    <3>2. QED
      BY <1>1, <1>3, <3>1
  <2>2. CASE ~(j <= Len1)
    <3>1. j - Len1 \in 1 .. Len2 /\ Len1 + (j - Len1) = j /\ j > Len1
      BY <1>1, <1>3, <2>2
    <3>2. l[j] = B[j - Len1]
      BY <1>3, <3>1
    <3>3. QED
      BY <1>1, <3>1, <3>2
  <2>3. QED
    BY <2>1, <2>2
<1>5. ASSUME NEW j \in 1 .. Len(l), NEW name, NEW n, NEW o, IsCall(k, l[j], name, n, o)
      PROVE  /\ n \in Held(f) /\ n \in 1 .. Len(f.secs) /\ f.secs[n].type = "INIT_ARRAY"
             /\ f.secs[n].name = name
             /\ l[j].at = f.base + f.secs[n].off + o - 1 /\ l[j].at \in Contents(f, n) /\ l[j].at \in Nat
             /\ l[j].file = k /\ l[j].base = ufiles[k].membase /\ l[j].sec = name /\ o \in Nat
  <2>1. /\ n \in 1 .. Len(f.secs) /\ f.secs[n].type = "INIT_ARRAY" /\ f.secs[n].name = name
        /\ o \in 1 .. f.secs[n].size
        /\ l[j] = [file |-> k, sec |-> name, at |-> f.base + f.secs[n].off + o - 1,
                   base |-> ufiles[k].membase]
    BY <1>5 DEF IsCall
  <2>2. f.secs[n].off \in Nat /\ f.secs[n].size \in Nat /\ f.base \in Nat
    BY <2>1, SectionFacts
  <2> DEFINE x == f.base
             y == f.secs[n].off
             z == f.secs[n].size
  <2>3. o \in 1 .. z /\ x \in Nat /\ y \in Nat /\ z \in Nat
    BY <2>1, <2>2
  <2>4. x + y + o - 1 \in x + y .. x + y + z - 1 /\ o \in Nat /\ x + y + o - 1 \in Nat
    <3> HIDE DEF x, y, z
    <3>1. QED
      BY <2>3
  <2>5. n \in Held(f)
    BY <2>1 DEF Held
  <2>6. l[j].at = x + y + o - 1
    BY <2>1
  <2>7. QED
    BY <2>1, <2>4, <2>5, <2>6 DEF Contents
<1>6. ASSUME NEW j \in 1 .. Len(l)
      PROVE  /\ l[j].file = k /\ l[j].base = ufiles[k].membase
             /\ l[j].sec \in {".preinit_array", ".init_array"} /\ l[j].at \in Nat
             /\ \E n \in 1 .. Len(f.secs) : f.secs[n].type = "INIT_ARRAY" /\ l[j].at \in Contents(f, n)
  BY <1>4, <1>5, ZenonT(40)
<1>7. ASSUME NEW j \in 1 .. Len(l), NEW m \in 1 .. Len(l), l[j].at = l[m].at
      PROVE  j = m
  <2>1. PICK nj, namej, oj : /\ IsCall(k, l[j], namej, nj, oj)
                             /\ \/ nj = n1 /\ oj = j /\ namej = ".preinit_array"
                                \/ nj = n2 /\ oj = j - Len1 /\ namej = ".init_array"
    BY <1>4
  <2>2. PICK nm, namem, om : /\ IsCall(k, l[m], namem, nm, om)
                             /\ \/ nm = n1 /\ om = m /\ namem = ".preinit_array"
                                \/ nm = n2 /\ om = m - Len1 /\ namem = ".init_array"
    BY <1>4
  <2>3. nj = nm
    <3>1. nj \in Held(f) /\ nm \in Held(f) /\ l[j].at \in Contents(f, nj) /\ l[m].at \in Contents(f, nm)
      BY <1>5, <2>1, <2>2
    <3>2. \A x, y \in Held(f) : x # y => Contents(f, x) \cap Contents(f, y) = {}
      BY DEF WellLinked
    <3>3. QED
      BY <1>7, <3>1, <3>2
  <2>4. f.secs[nj].name = namej /\ f.secs[nm].name = namem
    BY <2>1, <2>2 DEF IsCall
  <2>5. namej = namem
    BY <2>3, <2>4
  <2>6. oj = om
    <3>1. /\ l[j].at = f.base + f.secs[nj].off + oj - 1 /\ l[m].at = f.base + f.secs[nm].off + om - 1
          /\ oj \in Nat /\ om \in Nat /\ nj \in 1 .. Len(f.secs)
      <4>1. /\ nj \in 1 .. Len(f.secs) /\ oj \in 1 .. f.secs[nj].size
            /\ l[j].at = f.base + f.secs[nj].off + oj - 1
        BY <2>1 DEF IsCall
      <4>2. /\ nm \in 1 .. Len(f.secs) /\ om \in 1 .. f.secs[nm].size
            /\ l[m].at = f.base + f.secs[nm].off + om - 1
        BY <2>2 DEF IsCall
      <4>3. QED
        BY <4>1, <4>2, SectionFacts
    <3>2. f.base \in Nat /\ f.secs[nj].off \in Nat
      BY <3>1, SectionFacts
    <3>3. ASSUME NEW x \in Nat, NEW y \in Nat, NEW a \in Nat, NEW b \in Nat,
                 x + y + a - 1 = x + y + b - 1
          PROVE  a = b
      BY <3>3
    <3>4. f.base + f.secs[nj].off + oj - 1 = f.base + f.secs[nj].off + om - 1
      BY <1>7, <2>3, <3>1
    <3>5. QED
      BY <3>1, <3>2, <3>3, <3>4
  <2>7. QED
    BY <1>1, <1>3, <2>1, <2>2, <2>5, <2>6
<1>8. ASSUME NEW j \in 1 .. Len(l), NEW m \in 1 .. Len(l), j < m, l[m].sec = ".preinit_array"
      PROVE  l[j].sec = ".preinit_array"
  <2>1. m \in 1 .. Len1
    BY <1>4, <1>5, <1>8
  <2>2. j \in 1 .. Len1
    BY <1>1, <1>3, <1>8, <2>1
  <2>3. ~(j > Len1)
    BY <1>1, <2>2
  <2>4. QED
    BY <1>4, <1>5, <2>3
<1>9. ASSUME NEW a \in Constructors(k) PROVE \E j \in 1 .. Len(l) : l[j].at = a
  <2>1. PICK n \in 1 .. Len(f.secs) : \E o \in 0 .. f.secs[n].size - 1 :
            f.secs[n].type = "INIT_ARRAY" /\ a = FlashAddr(f, f.secs[n]) + o
    BY <1>9 DEF Constructors
  <2>2. PICK o \in 0 .. f.secs[n].size - 1 :
            f.secs[n].type = "INIT_ARRAY" /\ a = f.base + f.secs[n].off + o
    BY <2>1 DEF FlashAddr
  <2>3. f.secs[n].name \in {".preinit_array", ".init_array"}
    BY <2>2 DEF WellLinked
  <2>4. \A x, y \in 1 .. Len(f.secs) : f.secs[x].name = f.secs[y].name => x = y
    BY DEF WellLinked
  <2>5. f.base \in Nat /\ f.secs[n].off \in Nat /\ f.secs[n].size \in Nat
    BY SectionFacts
  <2>6. o + 1 \in 1 .. f.secs[n].size /\ a = f.base + f.secs[n].off + (o + 1) - 1
    <3>1. ASSUME NEW x \in Nat, NEW y \in Nat, NEW z \in Nat, NEW w \in 0 .. z - 1
          PROVE  w + 1 \in 1 .. z /\ x + y + w = x + y + (w + 1) - 1
      OBVIOUS
    <3>2. QED
      BY <2>2, <2>5, <3>1
  <2>7. CASE f.secs[n].name = ".preinit_array"
    <3>1. n = n1 /\ n1 # 0
      BY <2>4, <2>7, ByNameFacts DEF n1
    <3>2. o + 1 \in 1 .. Len1
      BY <1>1, <2>6, <3>1
    <3>3. o + 1 \in 1 .. Len(l) /\ ~(o + 1 > Len1)
      BY <1>1, <1>3, <3>2
    <3>4. IsCall(k, l[o + 1], ".preinit_array", n1, o + 1)
      BY <1>4, <3>3
    <3>5. l[o + 1].at = f.base + f.secs[n1].off + (o + 1) - 1
      BY <3>4 DEF IsCall
    <3>6. QED
      BY <2>6, <3>1, <3>3, <3>5
  <2>8. CASE f.secs[n].name = ".init_array"
    <3>1. n = n2 /\ n2 # 0
      BY <2>4, <2>8, ByNameFacts DEF n2
    <3>2. o + 1 \in 1 .. Len2
      BY <1>1, <2>6, <3>1
    <3> DEFINE j == Len1 + (o + 1)
    <3>3. j \in 1 .. Len(l) /\ j \notin 1 .. Len1 /\ j - Len1 = o + 1
      BY <1>1, <1>3, <3>2
    <3> HIDE DEF j
    <3>4. IsCall(k, l[j], ".init_array", n2, o + 1)
      BY <1>4, <3>3
    <3>5. l[j].at = f.base + f.secs[n2].off + (o + 1) - 1
      BY <3>4 DEF IsCall
    <3>6. QED
      BY <2>6, <3>1, <3>3, <3>5
  <2>9. QED
    BY <2>3, <2>7, <2>8
<1>10. Len(l) \in Nat
  BY <1>1, <1>3
<1>11. QED
  BY <1>6, <1>7, <1>8, <1>9, <1>10 DEF l

-----------------------------------------------------------------------------
(* Types, and how much of the array of section records is used up *)

LEMMA NextMembaseAligned ==
    ASSUME NEW a \in Nat, NEW s \in Nat
    PROVE  NextMembase(a, s) % Align = 0
<1>0. BssEnd \in Nat /\ Align \in Nat \ {0}
  BY AddressAssumption
<1> DEFINE n == IF a >= BssEnd THEN a + s ELSE BssEnd
           q == (-n) \div Align
           r == (-n) % Align
<1>1. n \in Nat
  BY <1>0
<1>2. NextMembase(a, s) = n + r
  BY DEF NextMembase
<1> HIDE DEF n
<1>3. -n = Align * q + r /\ q \in Int /\ r \in Int
  <2>1. -n \in Int
    BY <1>1
  <2>2. ASSUME NEW x \in Int
        PROVE  x = Align * (x \div Align) + (x % Align) /\ x \div Align \in Int /\ x % Align \in Int
    BY <1>0
  <2>3. QED
    BY <2>1, <2>2
<1> HIDE DEF q, r
<1>4. Align * q \in Int /\ Align * (-q) = -(Align * q) /\ -q \in Int
  BY <1>0, <1>3
<1>5. n + r = Align * (-q)
  BY <1>0, <1>1, <1>3, <1>4
<1>6. ASSUME NEW d \in Nat \ {0}, NEW x \in Int PROVE (d * x) % d = 0
  OBVIOUS
<1>7. QED
  BY <1>0, <1>2, <1>4, <1>5, <1>6

(* The first file is the lowest, the records of the files loaded so far are all
   the sections that these have, and nothing is called before the constructors. *)
RecordsOK(u) == \A k \in 1 .. Len(u) : u[k].fse \in {0, k} /\ u[k].membase % Align = 0
TInv ==
    /\ depCount \in {-1} \cup 0 .. Len(Files) /\ idx \in 0 .. Len(Files)
    /\ secCount \in Nat /\ secIdx \in Nat /\ secIdx <= secCount
    /\ i <= Len(Files) + 1 /\ c \in Nat \ {0} /\ total \in Nat
    /\ loadRet \in {-1, 0, 1} /\ linkRet \in {-1, 0}
    /\ linked \subseteq 1 .. Len(Files) /\ clobbered \subseteq 1 .. Len(Files)
    /\ RecordsOK(ufiles)
    /\ pc \in {"count", "build"} => secIdx = 0
    /\ pc \in Later => secCount = DepListSecCount(Files) /\ idx = depCount /\ first <= membase
    /\ pc = "load" => secIdx = DepSum(Files)[i - 1]
    /\ pc \notin {"init", "entered", "wild"} => c = 1 /\ calls = <<>>

LEMMA TInvInit == Init => TInv
<1> SUFFICES ASSUME Init PROVE TInv
  OBVIOUS
<1>1. Len(Files) \in Nat
  BY RInvInit DEF RInv
<1>2. ufiles = <<>> /\ Len(ufiles) = 0
  BY DEF Init
<1>3. RecordsOK(ufiles)
  BY <1>2 DEF RecordsOK
<1>4. /\ pc = "count" /\ depCount = 0 /\ idx = 0 /\ secCount = 0 /\ secIdx = 0 /\ i = 1 /\ c = 1
      /\ total = 0 /\ loadRet = 0 /\ linkRet = 0 /\ linked = {} /\ clobbered = {} /\ calls = <<>>
  BY DEF Init
<1>5. 0 \in 0 .. Len(Files) /\ 1 <= Len(Files) + 1
  BY <1>1
<1>6. QED
  BY <1>3, <1>4, <1>5 DEF TInv, Later

LEMMA TLoadFile ==
    ASSUME RInv, KInv, TInv, LoadFile
    PROVE  TInv'
<1>0. /\ pc = "load" /\ pc' = pc /\ loadRet = 0 /\ i <= depCount
      /\ UNCHANGED <<prog, depCount, idx, secCount, first, c, total, linkRet, linked, clobbered, calls>>
  BY DEF LoadFile, listVars, linkVars
<1>1. /\ depCount = Len(Files) /\ Len(Files) \in Nat /\ DOMAIN ufiles = 1 .. depCount
      /\ i \in Nat \ {0} /\ prog \in Programs /\ Files' = Files
      /\ secCount = DepListSecCount(Files) /\ secIdx = DepSum(Files)[i - 1] /\ first <= membase
      /\ secIdx \in Nat /\ secCount \in Nat /\ secIdx <= secCount
      /\ first \in Nat /\ membase \in Nat /\ allocated \in Nat /\ membase >= BssEnd
      /\ BssEnd \in Nat /\ Align \in Nat \ {0}
  BY <1>0, AddressAssumption DEF RInv, KInv, TInv, Later, Files
<1>2. i \in 1 .. Len(Files) /\ i - 1 \in 0 .. Len(Files) /\ i \in 0 .. Len(Files)
  BY <1>0, <1>1
<1> DEFINE f == Elf(i)
           snum == secCount - secIdx
           u == CreateFile(i, snum)
           at == NextMembase(membase, allocated)
           p == Placed(u, at)
<1>3. f \in Image /\ SecCount(f) \in Nat
  BY <1>1, <1>2, FileFacts, TypeFacts DEF Elf, Files
<1>4. DepSum(Files)[i] = secIdx + SecCount(f) /\ DepSum(Files)[i] <= secCount
  BY <1>1, <1>2, DepSumFacts DEF Files, Elf
<1>5. snum \in Int /\ SecCount(f) <= snum
  <2> HIDE DEF f
  <2>1. ASSUME NEW x \in Nat, NEW y \in Nat, NEW z \in Nat, x + y <= z
        PROVE  z - x \in Int /\ y <= z - x
    BY <2>1
  <2>2. secIdx + SecCount(f) <= secCount
    BY <1>4
  <2>3. QED
    BY <1>1, <1>3, <2>1, <2>2
<1>6. Len(u.mem) \in Nat /\ Len(u.flash) \in Nat /\ Len(u.mem) + Len(u.flash) = SecCount(f)
  <2> HIDE DEF snum
  <2>1. QED
    BY <1>3, <1>5, CreateFileFull
<1>7. /\ u.fse = i /\ u.membase = 0 /\ p.fse = i /\ p.membase = at
  BY DEF CreateFile, NoFile, Placed
<1>8. /\ at % Align = 0 /\ 0 % Align = 0 /\ at \in Nat /\ at >= membase + allocated
  <2>1. at % Align = 0
    BY <1>1, NextMembaseAligned
  <2>2. at \in Nat /\ at >= membase + allocated
    BY <1>1, NextMembaseFacts
  <2>3. ASSUME NEW d \in Nat \ {0} PROVE 0 % d = 0
    OBVIOUS
  <2>4. QED
    BY <1>1, <2>1, <2>2, <2>3
<1>9. /\ ufiles' = [ufiles EXCEPT ![i] = u] \/ ufiles' = [ufiles EXCEPT ![i] = p]
      /\ membase' = membase \/ membase' = at
      /\ loadRet' \in {0, 1}
      /\ \/ i' = i + 1 /\ u.mem = <<>> /\ secIdx' = secIdx + Len(u.flash)
         \/ i' = i + 1 /\ secIdx' = secIdx + Len(u.flash) + Len(u.mem)
         \/ i' = i /\ secIdx' = secIdx
  BY <1>0 DEF LoadFile
<1>10. u.mem = <<>> => Len(u.mem) = 0
  OBVIOUS
<1> HIDE DEF u, f, snum, at, p
<1>11. /\ secIdx' \in Nat /\ secIdx' <= secCount /\ i' \in Nat \ {0} /\ i' <= Len(Files) + 1
       /\ secIdx' = DepSum(Files)[i' - 1]
  <2>1. CASE i' = i + 1 /\ secIdx' = secIdx + SecCount(f)
    <3>1. i' - 1 = i
      BY <1>1, <2>1
    <3>2. QED
      BY <1>0, <1>1, <1>3, <1>4, <2>1, <3>1
  <2>2. CASE i' = i /\ secIdx' = secIdx
    BY <1>0, <1>1, <2>2
  <2>3. (i' = i + 1 /\ secIdx' = secIdx + SecCount(f)) \/ (i' = i /\ secIdx' = secIdx)
    <3>1. ASSUME NEW a \in Nat, NEW x \in Nat, NEW y \in Nat
          PROVE  a + y + x = a + (x + y) /\ (x = 0 => a + y = a + (x + y))
      OBVIOUS
    <3> DEFINE x == Len(u.mem)
               y == Len(u.flash)
    <3>2. x \in Nat /\ y \in Nat /\ x + y = SecCount(f)
      BY <1>6
    <3>3. \/ i' = i + 1 /\ x = 0 /\ secIdx' = secIdx + y
          \/ i' = i + 1 /\ secIdx' = secIdx + y + x
          \/ i' = i /\ secIdx' = secIdx
      BY <1>9, <1>10, Zenon
    <3> HIDE DEF x, y
    <3>4. secIdx + y + x = secIdx + SecCount(f) /\ (x = 0 => secIdx + y = secIdx + SecCount(f))
      BY <1>1, <3>1, <3>2
    <3>5. QED
      BY <3>3, <3>4
  <2>4. QED
    BY <2>1, <2>2, <2>3
<1>12. first <= membase'
  BY <1>1, <1>8, <1>9
<1>13. Len(ufiles) = depCount /\ Len(ufiles') = depCount
  <2>1. DOMAIN ufiles' = 1 .. depCount
    BY <1>1, <1>9
  <2>2. QED
    BY <1>1, <2>1
<1>14. RecordsOK(ufiles')
  <2> SUFFICES ASSUME NEW k \in 1 .. depCount
               PROVE  ufiles'[k].fse \in {0, k} /\ ufiles'[k].membase % Align = 0
    BY <1>13 DEF RecordsOK
  <2>1. CASE k = i
    BY <1>1, <1>7, <1>8, <1>9, <2>1
  <2>2. CASE k # i
    <3>1. ufiles'[k] = ufiles[k]
      BY <1>1, <1>9, <2>2
    <3>2. QED
      BY <1>13, <3>1 DEF TInv, RecordsOK
  <2>3. QED
    BY <2>1, <2>2
<1>15. QED
  BY <1>0, <1>1, <1>9, <1>11, <1>12, <1>14 DEF TInv, Later

LEMMA TOther ==
    ASSUME RInv, KInv, TInv, [Next]_vars, ~LoadFile
    PROVE  TInv'
<1>0. prog' = prog /\ Files' = Files /\ prog \in Programs /\ Len(Files) \in Nat
  BY DEF RInv, Next, vars, CountDeps, BuildList, LoadFile, NoRoom, LoadDone, LinkFile, LinkFails,
         LinkDone, PrintGdbSymCmd, PrintGdbDone, NoSuchFile, CallInitFunc, NextInitFile, ExecFile,
         Stopped, listVars, Files
<1>1. CASE CountDeps
  <2>1. /\ pc = "count" /\ pc' \in {"wild", "build"} /\ depCount' \in {-1, Len(Files)}
        /\ UNCHANGED <<idx, secCount, secIdx, i, c, total, loadRet, linkRet, linked, clobbered,
                       ufiles, calls>>
    BY <1>1 DEF CountDeps, loadVars, linkVars
  <2>2. Len(Files) \in 0 .. Len(Files)
    BY <1>0
  <2>3. QED
    BY <1>0, <2>1, <2>2 DEF TInv, Later
<1>2. CASE BuildList
  <2>1. /\ pc = "build" /\ pc' = "load" /\ idx' = depCount /\ secCount' = DepListSecCount(Files)
        /\ ufiles' = [k \in 1 .. depCount |-> NoFile] /\ membase' = first' /\ first' = NextMembase(0, 0)
        /\ UNCHANGED <<depCount, secIdx, i, c, total, loadRet, linkRet, linked, clobbered, calls>>
    BY <1>2 DEF BuildList, linkVars
  <2>2. depCount = Len(Files) /\ i = 1 /\ secIdx = 0
    BY <2>1 DEF RInv, TInv
  <2>3. /\ DepSum(Files)[0] = 0 /\ i - 1 = 0 /\ Len(Files) \in 0 .. Len(Files)
        /\ DepListSecCount(Files) \in Nat
    BY <1>0, <2>2, DepSumFacts DEF Files
  <2>4. first' <= membase'
    BY <2>1, NextMembaseFacts
  <2>5. RecordsOK(ufiles')
    <3>1. Len(ufiles') = depCount
      BY <1>0, <2>1, <2>2
    <3>2. Align \in Nat \ {0}
      BY AddressAssumption
    <3>3. ASSUME NEW d \in Nat \ {0} PROVE 0 % d = 0
      OBVIOUS
    <3>4. NoFile.fse = 0 /\ NoFile.membase = 0 /\ 0 % Align = 0
      BY <3>2, <3>3 DEF NoFile
    <3>5. QED
      BY <2>1, <3>1, <3>4 DEF RecordsOK
  <2>6. QED
    BY <1>0, <2>1, <2>2, <2>3, <2>4, <2>5 DEF TInv, Later
<1>3. CASE NoRoom
  <2>1. /\ pc = "load" /\ pc' = pc /\ loadRet' = -1
        /\ UNCHANGED <<depCount, idx, secCount, secIdx, i, c, total, linkRet, linked, clobbered,
                       ufiles, calls, first, membase>>
    BY <1>3 DEF NoRoom, listVars, linkVars
  <2>2. QED
    BY <1>0, <2>1 DEF TInv, Later
<1>4. CASE LoadDone
  <2>1. /\ pc = "load" /\ pc' = "link" /\ i' = 1 /\ total' = PoolBase - first
        /\ UNCHANGED <<depCount, idx, secCount, secIdx, c, loadRet, linkRet, linked, clobbered,
                       ufiles, calls, first, membase>>
    BY <1>4 DEF LoadDone, listVars
  <2>2. first \in Nat /\ membase \in Nat /\ allocated \in Nat /\ first <= membase
    BY <2>1 DEF KInv, TInv, Later
  <2>3. total' \in Nat
    BY <2>1, <2>2 DEF PoolBase
  <2>4. 1 <= Len(Files) + 1
    BY <1>0
  <2>5. QED
    BY <1>0, <2>1, <2>3, <2>4 DEF TInv, Later
<1>5. CASE LinkFile
  <2>1. /\ pc = "link" /\ pc' = pc /\ i <= depCount /\ i' = i + 1 /\ linked' = linked \cup {i}
        /\ UNCHANGED <<depCount, idx, secCount, secIdx, c, total, loadRet, linkRet, ufiles, calls,
                       first, membase>>
        /\ clobbered' \subseteq clobbered \cup 1 .. depCount
    BY <1>5 DEF LinkFile, listVars, loadVars
  <2>2. depCount = Len(Files) /\ i \in Nat \ {0}
    BY <2>1 DEF RInv
  <2>3. i \in 1 .. Len(Files) /\ i' <= Len(Files) + 1
    BY <1>0, <2>1, <2>2
  <2>4. linked' \subseteq 1 .. Len(Files) /\ clobbered' \subseteq 1 .. Len(Files)
    BY <2>1, <2>2, <2>3 DEF TInv
  <2>5. QED
    BY <1>0, <2>1, <2>3, <2>4 DEF TInv, Later
<1>6. CASE LinkFails
  <2>1. /\ pc = "link" /\ pc' = pc /\ linkRet' = -1
        /\ UNCHANGED <<depCount, idx, secCount, secIdx, i, c, total, loadRet, linked, clobbered,
                       ufiles, calls, first, membase>>
    BY <1>6 DEF LinkFails, listVars, loadVars
  <2>2. QED
    BY <1>0, <2>1 DEF TInv, Later
<1>7. CASE LinkDone \/ PrintGdbSymCmd \/ PrintGdbDone
  <2>1. /\ pc \in {"link", "gdb"} /\ pc' \in {"gdb", "init"}
        /\ i' = 1 \/ (pc = "gdb" /\ i <= idx /\ i' = i + 1)
        /\ UNCHANGED <<depCount, idx, secCount, secIdx, c, total, loadRet, linkRet, linked, clobbered,
                       ufiles, calls, first, membase>>
    BY <1>7 DEF LinkDone, PrintGdbSymCmd, PrintGdbDone, listVars, loadVars, linkVars
  <2>2. idx \in 0 .. Len(Files) /\ i \in Nat \ {0}
    BY DEF TInv, RInv
  <2>3. i' <= Len(Files) + 1
    BY <1>0, <2>1, <2>2
  <2>4. QED
    BY <1>0, <2>1, <2>3 DEF TInv, Later
<1>8. CASE NoSuchFile
  <2>1. /\ pc \in {"gdb", "init"} /\ pc' = "wild"
        /\ UNCHANGED <<depCount, idx, secCount, secIdx, i, c, total, loadRet, linkRet, linked,
                       clobbered, ufiles, calls>>
    BY <1>8 DEF NoSuchFile, listVars, loadVars, linkVars
  <2>2. QED
    BY <1>0, <2>1 DEF TInv, Later
<1>9. CASE CallInitFunc \/ NextInitFile \/ ExecFile
  <2>1. /\ pc = "init" /\ pc' \in {"init", "entered"}
        /\ i' = i \/ (i <= depCount /\ i' = i + 1)
        /\ c' \in {c, c + 1, 1}
        /\ UNCHANGED <<depCount, idx, secCount, secIdx, total, loadRet, linkRet, linked, clobbered,
                       ufiles, first, membase>>
    BY <1>9 DEF CallInitFunc, NextInitFile, ExecFile, listVars, loadVars, linkVars
  <2>2. depCount = Len(Files) /\ i \in Nat \ {0} /\ c \in Nat \ {0} /\ i <= Len(Files) + 1
    BY <2>1 DEF TInv, RInv
  <2>3. i' <= Len(Files) + 1 /\ c' \in Nat \ {0}
    BY <1>0, <2>1, <2>2
  <2>4. QED
    BY <1>0, <2>1, <2>3 DEF TInv, Later
<1>10. CASE Stopped \/ UNCHANGED vars
  <2>1. UNCHANGED vars
    BY <1>10 DEF Stopped
  <2>2. QED
    BY <1>0, <2>1 DEF TInv, vars
<1>11. QED
  BY <1>1, <1>2, <1>3, <1>4, <1>5, <1>6, <1>7, <1>8, <1>9, <1>10 DEF Next

LEMMA TypeOKHolds ==
    ASSUME RInv, KInv, TInv
    PROVE  TypeOK
<1>1. /\ pc \in {"count", "build", "load", "link", "gdb", "init", "entered", "wild"}
      /\ trapped \in BOOLEAN /\ Len(Files) \in Nat /\ i \in Nat \ {0}
  BY DEF RInv
<1>2. first \in Nat /\ membase \in Nat /\ allocated \in Nat /\ poolAt \in Nat
  BY DEF KInv
<1>3. secCount \in Nat /\ secIdx \in Nat /\ secIdx <= secCount /\ i <= Len(Files) + 1
      /\ total \in Nat
  BY DEF TInv
<1>4. secIdx \in 0 .. secCount /\ i \in 1 .. Len(Files) + 1
  BY <1>1, <1>3
<1>5. {secCount, first, membase, allocated, total, poolAt} \subseteq Nat
  BY <1>2, <1>3
<1>6. QED
  BY <1>1, <1>4, <1>5 DEF TypeOK, TInv, RecordsOK

-----------------------------------------------------------------------------
(* What has been called *)

LEMMA AppendFacts ==
    ASSUME NEW l, NEW e, Len(l) \in Nat, l = [n \in 1 .. Len(l) |-> l[n]]
    PROVE  LET m == Append(l, e)
           IN  /\ Len(m) = Len(l) + 1 /\ m = [n \in 1 .. Len(m) |-> m[n]]
               /\ \A n \in 1 .. Len(l) : m[n] = l[n]
               /\ m[Len(l) + 1] = e
<1> DEFINE S == {l[n] : n \in 1 .. Len(l)} \cup {e}
<1>1. \A n \in 1 .. Len(l) : l[n] \in S
  OBVIOUS
<1>2. e \in S
  OBVIOUS
<1> HIDE DEF S
<1>3. l \in [1 .. Len(l) -> S]
  BY <1>1
<1>4. l \in Seq(S)
  BY <1>3, SeqDef
<1>5. /\ Append(l, e) \in Seq(S) /\ Len(Append(l, e)) = Len(l) + 1
      /\ \A n \in 1 .. Len(l) : Append(l, e)[n] = l[n]
      /\ Append(l, e)[Len(l) + 1] = e
  BY <1>2, <1>4, AppendProperties
<1> DEFINE m == Append(l, e)
<1>6. m = [n \in 1 .. Len(m) |-> m[n]]
  <2> HIDE DEF m
  <2>1. m \in [1 .. Len(m) -> S]
    BY <1>5, LenProperties DEF m
  <2>2. QED
    BY <2>1
<1>7. QED
  BY <1>5, <1>6

LEMMA FileAt ==
    ASSUME RInv, NEW k \in 1 .. Len(Files)
    PROVE  Elf(k) \in Image /\ WellLinked(Elf(k))
<1>1. Files[k] \in Table /\ Elf(k) \in Image
  BY FileFacts DEF RInv, Files, Elf
<1>2. QED
  BY <1>1, LayoutAssumption DEF Elf

(* Two sections that are in flash lie apart, in a file or in two. *)
LEMMA FlashApart ==
    ASSUME RInv, NEW m \in 1 .. Len(Files), NEW k \in 1 .. Len(Files),
           NEW n \in Held(Elf(m)), NEW o \in Held(Elf(k)), m # k \/ n # o
    PROVE  Contents(Elf(m), n) \cap Contents(Elf(k), o) = {}
<1>1. Files[m] \in Table /\ Files[k] \in Table /\ WellLinked(Elf(m))
  BY FileAt, FileFacts DEF RInv, Files
<1>2. CASE m = k
  BY <1>1, <1>2 DEF WellLinked
<1>3. CASE m # k
  <2>1. Files[m] # Files[k]
    BY <1>3, LayoutAssumption DEF RInv, Files
  <2>2. QED
    BY <1>1, <2>1, LayoutAssumption DEF Elf
<1>4. QED
  BY <1>2, <1>3

(* A call of a constructor of file m and one of file k are of different words. *)
LEMMA CallsApart ==
    ASSUME RInv, NEW m \in 1 .. Len(Files), NEW k \in 1 .. Len(Files), m # k,
           NEW j \in 1 .. Len(InitFuncs(m)), NEW o \in 1 .. Len(InitFuncs(k))
    PROVE  InitFuncs(m)[j].at # InitFuncs(k)[o].at
<1>1. PICK a \in 1 .. Len(Elf(m).secs) :
          Elf(m).secs[a].type = "INIT_ARRAY" /\ InitFuncs(m)[j].at \in Contents(Elf(m), a)
  BY FileAt, InitFuncsFacts
<1>2. PICK b \in 1 .. Len(Elf(k).secs) :
          Elf(k).secs[b].type = "INIT_ARRAY" /\ InitFuncs(k)[o].at \in Contents(Elf(k), b)
  BY FileAt, InitFuncsFacts
<1>3. a \in Held(Elf(m)) /\ b \in Held(Elf(k))
  BY <1>1, <1>2 DEF Held
<1>4. Contents(Elf(m), a) \cap Contents(Elf(k), b) = {}
  BY <1>3, FlashApart
<1>5. QED
  BY <1>1, <1>2, <1>4

(* The entry is no constructor, and it is where the word linked at it is. *)
LEMMA EntryFacts ==
    ASSUME RInv, NEW k \in 1 .. Len(Files)
    PROVE  /\ \A m \in 1 .. Len(Files) : \A j \in 1 .. Len(InitFuncs(m)) :
                 InitFuncs(m)[j].at # AdjustedEntry(Elf(k))
           /\ \A s \in AllocSecs(k) :
                 Elf(k).entry \in Words(s) => AdjustedEntry(Elf(k)) = WordAt(k, s, Elf(k).entry)
<1> DEFINE f == Elf(k)
           e == f.entry
           x == SectionByVma(f, e)
           at == AdjustedEntry(f)
<1>0. f \in Image /\ WellLinked(f) /\ f.entry \in Nat /\ f.base \in Nat \ {0}
  BY FileAt DEF Image
<1>1. /\ x \in 0 .. Len(f.secs) /\ Len(f.secs) \in Nat
      /\ x # 0 => Within(e, f.secs[x].addr, f.secs[x].size)
  BY <1>0, ByVmaFacts, ImageFacts
<1>2. /\ x # 0 => x \in Held(f) /\ f.secs[x].type # "INIT_ARRAY"
      /\ \A n \in 1 .. Len(f.secs) :
            f.secs[n].alloc /\ Within(e, f.secs[n].addr, f.secs[n].size)
            => n = x /\ SecType(f.secs[n]) = "flash"
  BY <1>0 DEF WellLinked
<1>3. /\ x = 0 => at = 0
      /\ x # 0 => at = f.base + f.secs[x].off + e - f.secs[x].addr
  BY DEF AdjustedEntry, AdjustVma
<1>4. x # 0 => at \in Contents(f, x)
  <2> SUFFICES ASSUME x # 0 PROVE at \in Contents(f, x)
    OBVIOUS
  <2>1. x \in 1 .. Len(f.secs)
    BY <1>1
  <2> HIDE DEF x, f, at
  <2>2. f.secs[x].off \in Nat /\ f.secs[x].size \in Nat /\ f.secs[x].addr \in Nat
    BY <1>0, <2>1, SectionFacts
  <2>3. ASSUME NEW p \in Nat, NEW q \in Nat, NEW r \in Nat, NEW s \in Nat, NEW t \in Nat,
               r <= t, t < r + s
        PROVE  p + q + t - r \in p + q .. p + q + s - 1
    BY <2>3
  <2>4. f.secs[x].addr <= e /\ e < f.secs[x].addr + f.secs[x].size
    BY <1>1 DEF Within
  <2>5. f.base + f.secs[x].off + e - f.secs[x].addr
          \in f.base + f.secs[x].off .. f.base + f.secs[x].off + f.secs[x].size - 1
    BY <1>0, <2>2, <2>3, <2>4
  <2>6. QED
    BY <1>3, <2>5 DEF Contents
<1>5. ASSUME NEW m \in 1 .. Len(Files), NEW j \in 1 .. Len(InitFuncs(m))
      PROVE  InitFuncs(m)[j].at # at
  <2>1. PICK a \in 1 .. Len(Elf(m).secs) :
            Elf(m).secs[a].type = "INIT_ARRAY" /\ InitFuncs(m)[j].at \in Contents(Elf(m), a)
    BY FileAt, InitFuncsFacts
  <2>2. a \in Held(Elf(m))
    BY <2>1 DEF Held
  <2>3. CASE x # 0
    <3>1. m # k \/ a # x
      BY <1>2, <2>1, <2>3
    <3>2. Contents(Elf(m), a) \cap Contents(f, x) = {}
      BY <1>2, <2>2, <2>3, <3>1, FlashApart
    <3>3. QED
      BY <1>4, <2>1, <2>3, <3>2
  <2>4. CASE x = 0
    <3>1. Elf(m).base \in Nat \ {0} /\ Elf(m).secs[a].off \in Nat /\ Elf(m).secs[a].size \in Nat
      BY FileAt, SectionFacts
    <3>2. ASSUME NEW p \in Nat \ {0}, NEW q \in Nat, NEW s \in Nat
          PROVE  0 \notin p + q .. p + q + s - 1
      OBVIOUS
    <3>3. 0 \notin Contents(Elf(m), a)
      BY <3>1, <3>2 DEF Contents
    <3>4. QED
      BY <1>3, <2>1, <2>4, <3>3
  <2>5. QED
    BY <2>3, <2>4
<1>6. ASSUME NEW s \in AllocSecs(k), e \in Words(s)
      PROVE  at = WordAt(k, s, e)
  <2>1. PICK n \in 1 .. Len(f.secs) : s = f.secs[n] /\ s.alloc
    BY DEF AllocSecs
  <2>2. s.addr \in Nat /\ s.size \in Nat
    BY <1>0, <2>1, SectionFacts
  <2>3. Within(e, s.addr, s.size)
    <3>1. ASSUME NEW p \in Nat, NEW q \in Nat, NEW r \in Nat, r \in p .. p + q - 1
          PROVE  p <= r /\ r < p + q
      BY <3>1
    <3>2. e \in s.addr .. s.addr + s.size - 1
      BY <1>6 DEF Words
    <3>3. QED
      BY <1>0, <2>2, <3>1, <3>2 DEF Within
  <2>4. n = x /\ SecType(s) = "flash" /\ x # 0
    BY <1>2, <2>1, <2>3
  <2>5. WordAt(k, s, e) = f.base + s.off + e - s.addr
    BY <2>4 DEF WordAt
  <2>6. QED
    BY <1>3, <2>1, <2>4, <2>5
<1>7. QED
  BY <1>5, <1>6

(* The constructors called so far are those of the files before file i and the
   first c - 1 of file i; the rest of the invariant is what is to be shown. *)
Reached(m, j) == m < i \/ (m = i /\ j < c)
InOrder ==
    /\ \A n \in 1 .. Len(calls) : \E m \in 1 .. Len(Files) : \E j \in 1 .. Len(InitFuncs(m)) :
          Reached(m, j) /\ calls[n] = InitFuncs(m)[j]
    /\ \A m \in 1 .. Len(Files) : \A j \in 1 .. Len(InitFuncs(m)) :
          Reached(m, j) => \E n \in 1 .. Len(calls) : calls[n] = InitFuncs(m)[j]
CInv ==
    /\ Len(calls) \in Nat /\ calls = [n \in 1 .. Len(calls) |-> calls[n]]
    /\ pc = "init" => InOrder
    /\ NeedsInitialised
    /\ EntryRight

(* The condition of NeedsInitialised on the n-th call of the list l. *)
NeededBefore(l, n) ==
    /\ \A m \in 1 .. l[n].file - 1 : \A a \in Constructors(m) :
          \E b \in 1 .. n - 1 : l[b].at = a /\ l[b].base = ufiles[m].membase
    /\ \A b \in 1 .. n - 1 : l[b].at # l[n].at
    /\ l[n].sec = ".preinit_array" =>
          \A b \in 1 .. n - 1 : l[b].file = l[n].file => l[b].sec = ".preinit_array"

(* A call more leaves the conditions on the earlier ones as they are. *)
LEMMA CallsGrow ==
    ASSUME NEW l, NEW e, Len(l) \in Nat, l = [n \in 1 .. Len(l) |-> l[n]],
           \A n \in 1 .. Len(l) : NeededBefore(l, n),
           NeededBefore(Append(l, e), Len(l) + 1)
    PROVE  \A n \in 1 .. Len(Append(l, e)) : NeededBefore(Append(l, e), n)
<1> DEFINE m == Append(l, e)
<1>1. Len(m) = Len(l) + 1 /\ \A n \in 1 .. Len(l) : m[n] = l[n]
  BY AppendFacts
<1>2. ASSUME NEW n \in 1 .. Len(l) PROVE NeededBefore(m, n)
  <2> HIDE DEF m
  <2>1. m[n] = l[n] /\ \A b \in 1 .. n - 1 : m[b] = l[b]
    <3>1. \A b \in 1 .. n - 1 : b \in 1 .. Len(l)
      OBVIOUS
    <3>2. QED
      BY <1>1, <3>1
  <2>2. NeededBefore(l, n)
    OBVIOUS
  <2>3. ASSUME NEW q \in 1 .. m[n].file - 1, NEW a \in Constructors(q)
        PROVE  \E b \in 1 .. n - 1 : m[b].at = a /\ m[b].base = ufiles[q].membase
    <3>1. q \in 1 .. l[n].file - 1
      BY <2>1, Zenon
    <3>2. PICK b \in 1 .. n - 1 : l[b].at = a /\ l[b].base = ufiles[q].membase
      BY <2>2, <3>1, Zenon DEF NeededBefore
    <3>3. QED
      BY <2>1, <3>2, Zenon
  <2>4. ASSUME NEW b \in 1 .. n - 1 PROVE m[b].at # m[n].at
    BY <2>1, <2>2, Zenon DEF NeededBefore
  <2>5. ASSUME NEW b \in 1 .. n - 1, m[n].sec = ".preinit_array", m[b].file = m[n].file
        PROVE  m[b].sec = ".preinit_array"
    BY <2>1, <2>2, <2>5, Zenon DEF NeededBefore
  <2>6. QED
    BY <2>3, <2>4, <2>5, Zenon DEF NeededBefore
<1>3. \A n \in 1 .. Len(m) : n \in 1 .. Len(l) \/ n = Len(l) + 1
  BY <1>1
<1>4. QED
  BY <1>2, <1>3

LEMMA NeedsInitialisedNow ==
    NeedsInitialised <=> \A n \in 1 .. Len(calls) : NeededBefore(calls, n)
BY DEF NeedsInitialised, NeededBefore

LEMMA NeedsInitialisedThen ==
    ASSUME UNCHANGED <<prog, ufiles>>
    PROVE  NeedsInitialised' <=> \A n \in 1 .. Len(calls') : NeededBefore(calls', n)
<1>1. \A k : Constructors(k)' = Constructors(k)
  BY DEF Constructors, Elf, Files
<1>2. QED
  BY <1>1 DEF NeedsInitialised, NeededBefore

LEMMA SameFuncs ==
    ASSUME UNCHANGED <<prog, ufiles>>, NEW k
    PROVE  InitFuncs(k)' = InitFuncs(k) /\ Elf(k)' = Elf(k) /\ Files' = Files
BY DEF InitFuncs, Array, Elf, Files, InitSections

(* Every constructor of a file that has been gone through has been called, with
   the base of its file. *)
LEMMA AllCalled ==
    ASSUME RInv, InOrder, NEW m \in 1 .. Len(Files), \A j \in 1 .. Len(InitFuncs(m)) : Reached(m, j),
           NEW a \in Constructors(m)
    PROVE  \E b \in 1 .. Len(calls) : calls[b].at = a /\ calls[b].base = ufiles[m].membase
<1>1. PICK j \in 1 .. Len(InitFuncs(m)) : InitFuncs(m)[j].at = a
  BY FileAt, InitFuncsFacts
<1>2. InitFuncs(m)[j].base = ufiles[m].membase
  BY FileAt, InitFuncsFacts
<1>3. PICK b \in 1 .. Len(calls) : calls[b] = InitFuncs(m)[j]
  BY DEF InOrder
<1>4. QED
  BY <1>1, <1>2, <1>3

LEMMA CCallInitFunc ==
    ASSUME RInv, KInv, TInv, CInv, CallInitFunc
    PROVE  CInv'
<1> DEFINE e == InitFuncs(i)[c]
           n == Len(calls) + 1
<1>0. /\ pc = "init" /\ pc' = pc /\ i <= depCount /\ c <= Len(InitFuncs(i)) /\ calls' = Append(calls, e)
      /\ c' = c + 1 /\ UNCHANGED <<i, prog, ufiles>>
  BY DEF CallInitFunc, listVars, loadVars
<1>1. /\ depCount = Len(Files) /\ Len(Files) \in Nat /\ i \in Nat \ {0} /\ c \in Nat \ {0}
      /\ Len(calls) \in Nat /\ calls = [x \in 1 .. Len(calls) |-> calls[x]]
      /\ InOrder /\ NeedsInitialised
  BY <1>0 DEF RInv, TInv, CInv
<1>2. i \in 1 .. Len(Files)
  BY <1>0, <1>1
<1>3. Elf(i) \in Image /\ WellLinked(Elf(i))
  BY <1>2, FileAt
<1>4. c \in 1 .. Len(InitFuncs(i))
  BY <1>0, <1>1, <1>3, InitFuncsFacts
<1>5. e.file = i /\ e.base = ufiles[i].membase
  BY <1>3, <1>4, InitFuncsFacts
<1>6. /\ Len(calls') = n /\ calls' = [x \in 1 .. Len(calls') |-> calls'[x]]
      /\ \A x \in 1 .. Len(calls) : calls'[x] = calls[x]
      /\ calls'[n] = e
  BY <1>0, <1>1, AppendFacts
<1>7. n - 1 = Len(calls) /\ n \in 1 .. Len(calls') /\ \A x \in 1 .. Len(calls) : x \in 1 .. Len(calls')
  BY <1>1, <1>6
<1> HIDE DEF e, n
<1>8. NeededBefore(calls', n)
  <2>1. ASSUME NEW m \in 1 .. i - 1, NEW a \in Constructors(m)
        PROVE  \E b \in 1 .. n - 1 : calls'[b].at = a /\ calls'[b].base = ufiles[m].membase
    <3>1. m \in 1 .. Len(Files) /\ m < i
      BY <1>1, <1>2
    <3>2. \A j \in 1 .. Len(InitFuncs(m)) : Reached(m, j)
      BY <3>1 DEF Reached
    <3>3. PICK b \in 1 .. Len(calls) : calls[b].at = a /\ calls[b].base = ufiles[m].membase
      BY <1>1, <3>1, <3>2, AllCalled
    <3>4. QED
      BY <1>6, <1>7, <3>3
  <2>2. ASSUME NEW b \in 1 .. n - 1
        PROVE  /\ calls'[b].at # e.at
               /\ e.sec = ".preinit_array" /\ calls'[b].file = i => calls'[b].sec = ".preinit_array"
    <3>1. b \in 1 .. Len(calls) /\ calls'[b] = calls[b]
      BY <1>6, <1>7
    <3>2. PICK m \in 1 .. Len(Files) : \E j \in 1 .. Len(InitFuncs(m)) :
              Reached(m, j) /\ calls[b] = InitFuncs(m)[j]
      BY <1>1, <3>1 DEF InOrder
    <3>3. PICK j \in 1 .. Len(InitFuncs(m)) : Reached(m, j) /\ calls[b] = InitFuncs(m)[j]
      BY <3>2
    <3>4. Elf(m) \in Image /\ WellLinked(Elf(m))
      BY FileAt
    <3>5. calls[b].file = m
      BY <3>3, <3>4, InitFuncsFacts
    <3>6. CASE m = i
      <4>1. j < c /\ j \in 1 .. Len(InitFuncs(i)) /\ calls[b] = InitFuncs(i)[j] /\ j # c
        BY <1>1, <3>3, <3>6 DEF Reached
      <4>2. InitFuncs(i)[j].at # InitFuncs(i)[c].at
        BY <1>3, <1>4, <4>1, InitFuncsFacts
      <4>3. e.sec = ".preinit_array" => InitFuncs(i)[j].sec = ".preinit_array"
        BY <1>3, <1>4, <4>1, InitFuncsFacts DEF e
      <4>4. QED
        BY <3>1, <4>1, <4>2, <4>3 DEF e
    <3>7. CASE m # i
      <4>1. InitFuncs(m)[j].at # InitFuncs(i)[c].at
        BY <1>2, <1>4, <3>7, CallsApart
      <4>2. QED
        BY <3>1, <3>3, <3>5, <3>7, <4>1 DEF e
    <3>8. QED
      BY <3>6, <3>7
  <2>3. QED
    BY <1>5, <1>6, <2>1, <2>2, ZenonT(40) DEF NeededBefore
<1>9. NeedsInitialised'
  <2>1. \A x \in 1 .. Len(calls) : NeededBefore(calls, x)
    BY <1>1, NeedsInitialisedNow
  <2>2. \A x \in 1 .. Len(calls') : NeededBefore(calls', x)
    BY <1>0, <1>1, <1>8, <2>1, CallsGrow DEF n
  <2>3. QED
    BY <1>0, <2>2, NeedsInitialisedThen
<1>10. \A m : \A j \in 1 .. Len(InitFuncs(m)) : Reached(m, j) => Reached(m, j)'
  <2>1. SUFFICES ASSUME NEW m, NEW j \in 1 .. Len(InitFuncs(m)), m = i, j < c PROVE j < c + 1
    BY <1>0 DEF Reached
  <2>2. j \in Int
    OBVIOUS
  <2>3. QED
    BY <1>1, <2>1, <2>2
<1>11. InOrder'
  <2>0. \A k : InitFuncs(k)' = InitFuncs(k)
    BY <1>0, SameFuncs
  <2>1. ASSUME NEW x \in 1 .. Len(calls')
        PROVE  \E m \in 1 .. Len(Files) : \E j \in 1 .. Len(InitFuncs(m)) :
                  Reached(m, j)' /\ calls'[x] = InitFuncs(m)[j]
    <3>1. CASE x = n
      <4>1. PICK m \in 1 .. Len(Files) : m = i
        BY <1>2
      <4>2. PICK j \in 1 .. Len(InitFuncs(m)) : j = c
        BY <1>4, <4>1
      <4>3. Reached(m, j)'
        BY <1>0, <1>1, <4>1, <4>2 DEF Reached
      <4>4. calls'[x] = InitFuncs(m)[j]
        BY <1>6, <3>1, <4>1, <4>2 DEF e
      <4>5. QED
        BY <4>3, <4>4
    <3>2. CASE x # n
      <4>1. x \in 1 .. Len(calls) /\ calls'[x] = calls[x]
        BY <1>1, <1>6, <1>7, <3>2
      <4>2. QED
        BY <1>1, <1>10, <4>1, ZenonT(40) DEF InOrder
    <3>3. QED
      BY <3>1, <3>2
  <2>2. ASSUME NEW m \in 1 .. Len(Files), NEW j \in 1 .. Len(InitFuncs(m)), Reached(m, j)'
        PROVE  \E x \in 1 .. Len(calls') : calls'[x] = InitFuncs(m)[j]
    <3>1. CASE Reached(m, j)
      <4>1. PICK x \in 1 .. Len(calls) : calls[x] = InitFuncs(m)[j]
        BY <1>1, <3>1 DEF InOrder
      <4>2. QED
        BY <1>6, <1>7, <4>1
    <3>2. CASE ~Reached(m, j)
      <4>1. m = i /\ j = c
        <5>1. Len(InitFuncs(m)) \in Nat
          BY FileAt, InitFuncsFacts
        <5>2. QED
          BY <1>0, <1>1, <2>2, <3>2, <5>1 DEF Reached
      <4>2. QED
        BY <1>6, <1>7, <4>1 DEF e
    <3>3. QED
      BY <3>1, <3>2
  <2>3. Files' = Files
    BY <1>0 DEF Files
  <2>4. QED
    BY <2>0, <2>1, <2>2, <2>3 DEF InOrder
<1>12. EntryRight'
  BY <1>0 DEF EntryRight
<1>13. QED
  BY <1>1, <1>6, <1>7, <1>9, <1>11, <1>12 DEF CInv, n

LEMMA CNextInitFile ==
    ASSUME RInv, KInv, TInv, CInv, NextInitFile
    PROVE  CInv'
<1>0. /\ pc = "init" /\ pc' = pc /\ i <= depCount /\ c > Len(InitFuncs(i)) /\ c' = 1 /\ i' = i + 1
      /\ UNCHANGED <<prog, ufiles, calls>>
  BY DEF NextInitFile, listVars, loadVars
<1>1. /\ depCount = Len(Files) /\ Len(Files) \in Nat /\ i \in Nat \ {0} /\ c \in Nat \ {0}
      /\ InOrder /\ NeedsInitialised /\ Files' = Files
  BY <1>0 DEF RInv, TInv, CInv, Files
<1>2. ASSUME NEW m \in 1 .. Len(Files), NEW j \in 1 .. Len(InitFuncs(m))
      PROVE  Reached(m, j)' <=> Reached(m, j)
  <2>1. Len(InitFuncs(m)) \in Nat
    BY FileAt, InitFuncsFacts
  <2>2. CASE m = i
    <3>1. j < c
      BY <1>0, <1>1, <2>1, <2>2
    <3>2. QED
      BY <1>0, <1>1, <2>2, <3>1 DEF Reached
  <2>3. CASE m # i
    BY <1>0, <1>1, <2>1, <2>3 DEF Reached
  <2>4. QED
    BY <2>2, <2>3
<1>3. InOrder'
  <2>1. \A k : InitFuncs(k)' = InitFuncs(k)
    BY <1>0, SameFuncs
  <2>2. QED
    BY <1>0, <1>1, <1>2, <2>1, ZenonT(40) DEF InOrder
<1>4. NeedsInitialised'
  BY <1>0, <1>1, NeedsInitialisedNow, NeedsInitialisedThen
<1>5. EntryRight'
  BY <1>0 DEF EntryRight
<1>6. QED
  BY <1>0, <1>3, <1>4, <1>5 DEF CInv

LEMMA CExecFile ==
    ASSUME RInv, KInv, TInv, CInv, ExecFile
    PROVE  CInv'
<1> DEFINE k == Len(Files)
           e == [file |-> k, sec |-> "entry", at |-> AdjustedEntry(Elf(k)), base |-> ufiles[k].membase]
           n == Len(calls) + 1
<1>1. /\ pc = "init" /\ idx = depCount /\ depCount = k /\ k \in Nat /\ i \in Nat \ {0}
      /\ Len(calls) \in Nat /\ calls = [x \in 1 .. Len(calls) |-> calls[x]]
      /\ InOrder /\ NeedsInitialised /\ prog \in Programs
  BY DEF ExecFile, RInv, TInv, CInv, Later
<1>0. /\ pc' = "entered" /\ i > k /\ calls' = Append(calls, e) /\ UNCHANGED <<prog, ufiles>>
  BY <1>1 DEF ExecFile, Started, listVars, loadVars
<1>2. k \in 1 .. Len(Files)
  <2>1. Len(Files) > 0
    BY <1>1, ProgramsAssumption DEF Files
  <2>2. QED
    BY <1>1, <2>1
<1>3. /\ Len(calls') = n /\ calls' = [x \in 1 .. Len(calls') |-> calls'[x]]
      /\ \A x \in 1 .. Len(calls) : calls'[x] = calls[x]
      /\ calls'[n] = e
  BY <1>0, <1>1, AppendFacts
<1>4. n - 1 = Len(calls) /\ n \in Nat /\ Len(calls') - 1 = Len(calls)
  BY <1>1, <1>3
<1>5. e.file = k /\ e.sec = "entry" /\ e.at = AdjustedEntry(Elf(k)) /\ e.base = ufiles[k].membase
  OBVIOUS
<1>6. ASSUME NEW m \in 1 .. k, NEW a \in Constructors(m)
      PROVE  \E b \in 1 .. Len(calls) : /\ calls[b].at = a /\ calls[b].base = ufiles[m].membase
                                        /\ calls'[b] = calls[b]
  <2>1. m < i
    BY <1>0, <1>1
  <2>2. \A j \in 1 .. Len(InitFuncs(m)) : Reached(m, j)
    BY <2>1 DEF Reached
  <2>3. PICK b \in 1 .. Len(calls) : calls[b].at = a /\ calls[b].base = ufiles[m].membase
    BY <1>1, <2>2, AllCalled
  <2>4. QED
    BY <1>3, <2>3
<1> HIDE DEF e, n, k
<1>7. NeededBefore(calls', n)
  <2>1. ASSUME NEW m \in 1 .. k - 1, NEW a \in Constructors(m)
        PROVE  \E b \in 1 .. n - 1 : calls'[b].at = a /\ calls'[b].base = ufiles[m].membase
    <3>1. m \in 1 .. k
      BY <1>1
    <3>2. QED
      BY <1>4, <1>6, <3>1
  <2>2. ASSUME NEW b \in 1 .. n - 1 PROVE calls'[b].at # e.at
    <3>1. b \in 1 .. Len(calls) /\ calls'[b] = calls[b]
      BY <1>3, <1>4
    <3>2. PICK m \in 1 .. Len(Files) : \E j \in 1 .. Len(InitFuncs(m)) : calls[b] = InitFuncs(m)[j]
      BY <1>1, <3>1 DEF InOrder
    <3>3. PICK j \in 1 .. Len(InitFuncs(m)) : calls[b] = InitFuncs(m)[j]
      BY <3>2
    <3>4. InitFuncs(m)[j].at # AdjustedEntry(Elf(k))
      BY <1>2, EntryFacts
    <3>5. QED
      BY <1>5, <3>1, <3>3, <3>4
  <2>3. QED
    BY <1>3, <1>5, <2>1, <2>2 DEF NeededBefore
<1>8. NeedsInitialised'
  <2>1. \A x \in 1 .. Len(calls) : NeededBefore(calls, x)
    BY <1>1, NeedsInitialisedNow
  <2>2. \A x \in 1 .. Len(calls') : NeededBefore(calls', x)
    BY <1>0, <1>1, <1>7, <2>1, CallsGrow DEF n
  <2>3. QED
    BY <1>0, <2>2, NeedsInitialisedThen
<1>9. EntryRight'
  <2>1. /\ Files' = Files /\ \A m : Elf(m)' = Elf(m) /\ AllocSecs(m)' = AllocSecs(m)
                                    /\ Constructors(m)' = Constructors(m)
        /\ \A m, s, a : WordAt(m, s, a)' = WordAt(m, s, a)
    BY <1>0 DEF Files, Elf, AllocSecs, Constructors, WordAt, MemLink
  <2>2. ASSUME NEW s \in AllocSecs(k), Elf(k).entry \in Words(s)
        PROVE  e.at = WordAt(k, s, Elf(k).entry)
    BY <1>2, <1>5, <2>2, EntryFacts
  <2>3. ASSUME NEW m \in 1 .. k
        PROVE  Constructors(m) \subseteq {calls'[x].at : x \in 1 .. Len(calls') - 1}
    BY <1>4, <1>6
  <2>4. calls'[Len(calls')] = e /\ k = Len(Files)
    BY <1>3 DEF k
  <2>5. QED
    BY <1>0, <1>5, <2>1, <2>2, <2>3, <2>4 DEF EntryRight
<1>10. QED
  BY <1>0, <1>3, <1>4, <1>8, <1>9 DEF CInv

LEMMA COther ==
    ASSUME RInv, KInv, TInv, CInv, [Next]_vars, ~CallInitFunc, ~NextInitFile, ~ExecFile
    PROVE  CInv'
<1>1. CASE Stopped \/ UNCHANGED vars
  <2>1. UNCHANGED vars
    BY <1>1 DEF Stopped
  <2>2. UNCHANGED <<prog, ufiles, calls, i, c, pc>> /\ Files' = Files
    BY <2>1 DEF vars, Files
  <2>3. NeedsInitialised'
    BY <2>2, NeedsInitialisedNow, NeedsInitialisedThen DEF CInv
  <2>4. /\ \A m : InitFuncs(m)' = InitFuncs(m) /\ Elf(m)' = Elf(m)
        /\ \A m, j : Reached(m, j)' <=> Reached(m, j)
    BY <2>2, SameFuncs DEF Reached
  <2>5. pc = "init" => InOrder'
    BY <2>2, <2>4 DEF CInv, InOrder
  <2>6. EntryRight'
    <3>1. \A m : AllocSecs(m)' = AllocSecs(m) /\ Constructors(m)' = Constructors(m)
      BY <2>2 DEF AllocSecs, Constructors, Elf
    <3>2. \A m, s, a : WordAt(m, s, a)' = WordAt(m, s, a)
      BY <2>2 DEF WordAt, MemLink, AllocSecs, Elf
    <3>3. QED
      BY <2>2, <2>4, <3>1, <3>2 DEF CInv, EntryRight
  <2>7. QED
    BY <2>2, <2>3, <2>5, <2>6 DEF CInv
<1>2. CASE NoSuchFile
  <2>1. pc' = "wild" /\ UNCHANGED <<prog, ufiles, calls>>
    BY <1>2 DEF NoSuchFile, listVars, loadVars
  <2>2. NeedsInitialised'
    BY <2>1, NeedsInitialisedNow, NeedsInitialisedThen DEF CInv
  <2>3. QED
    BY <2>1, <2>2 DEF CInv, EntryRight
<1>3. CASE ~(Stopped \/ UNCHANGED vars \/ NoSuchFile)
  <2>1. /\ pc \notin {"init", "entered", "wild"} /\ pc' # "entered" /\ calls' = calls /\ c' = c
        /\ pc' = "init" => i' = 1
    BY <1>3 DEF Next, CountDeps, BuildList, LoadFile, NoRoom, LoadDone, LinkFile, LinkFails,
                LinkDone, PrintGdbSymCmd, PrintGdbDone
  <2>2. calls = <<>> /\ c = 1
    BY <2>1 DEF TInv
  <2>3. calls' = <<>> /\ Len(calls') = 0
    BY <2>1, <2>2
  <2>4. NeedsInitialised' /\ EntryRight'
    BY <2>1, <2>3 DEF NeedsInitialised, EntryRight
  <2>5. pc' = "init" => InOrder'
    <3>1. ASSUME pc' = "init", NEW m \in Nat, NEW j \in Nat, m >= 1, j >= 1, Reached(m, j)'
          PROVE  FALSE
      BY <2>1, <2>2, <3>1 DEF Reached
    <3>2. ASSUME pc' = "init" PROVE InOrder'
      <4>1. ASSUME NEW m \in 1 .. Len(Files'), NEW j \in 1 .. Len(InitFuncs(m)') PROVE ~Reached(m, j)'
        <5>1. m \in Nat /\ j \in Nat /\ m >= 1 /\ j >= 1
          OBVIOUS
        <5>2. QED
          BY <3>1, <3>2, <5>1
      <4>2. QED
        BY <2>3, <4>1 DEF InOrder
    <3>3. QED
      BY <3>2
  <2>6. QED
    BY <2>1, <2>3, <2>4, <2>5 DEF CInv
<1>4. QED
  BY <1>1, <1>2, <1>3

(* uld_exec_elf_call_init_funcs and uld_exec_file: whatever the files and the
   list, each constructor is called once, with the base of its file, after those
   of every file its file may need and .preinit_array before .init_array; and the
   program is entered last, at the word its entry was linked at.  The types of the
   variables come with it, among them that the records never outrun the array
   that uld_dyn_get_dep_list_sec_count sized. *)
THEOREM ConstructorsRunInOrder == Spec => []InitInv
<1> DEFINE I == RInv /\ KInv /\ TInv /\ CInv
<1>1. Init => I
  <2>1. Init => CInv
    <3> SUFFICES ASSUME Init PROVE CInv
      OBVIOUS
    <3>1. calls = <<>> /\ Len(calls) = 0 /\ pc = "count"
      BY DEF Init
    <3>2. QED
      BY <3>1 DEF CInv, NeedsInitialised, EntryRight
  <2>2. QED
    BY <2>1, RInvInit, KInvInit, TInvInit
<1>2. I /\ [Next]_vars => I'
  <2> SUFFICES ASSUME I, [Next]_vars PROVE I'
    OBVIOUS
  <2>1. RInv'
    BY RLoad, RLink, ROther
  <2>2. KInv'
    BY KLoadFile, KLinkFile, KOther
  <2>3. TInv'
    BY TLoadFile, TOther
  <2>4. CInv'
    BY CCallInitFunc, CNextInitFile, CExecFile, COther
  <2>5. QED
    BY <2>1, <2>2, <2>3, <2>4
<1>3. I => InitInv
  BY TypeOKHolds DEF InitInv, CInv
<1>4. QED
  BY <1>1, <1>2, <1>3, PTL DEF Spec

-----------------------------------------------------------------------------
(* Where the words of a loaded file are *)

LEMMA SegmentFacts ==
    ASSUME NEW f \in Image, NEW s
    PROVE  LET g == SegmentBySection(f, s)
           IN  /\ g \in 0 .. Len(f.segs) /\ Len(f.segs) \in Nat
               /\ g # 0 => Holds(f.segs[g], s) /\ f.segs[g] \in Segment
<1> DEFINE g == SegmentBySection(f, s)
           T(h) == /\ s.alloc /\ h.load
                   /\ h.vaddr <= s.addr /\ s.addr + s.size <= h.vaddr + h.memsz
                   /\ ~(s.type # "NOBITS" /\ s.off < h.off /\ s.off + s.size > h.off + h.filesz)
           I == {n \in 1 .. Len(f.segs) : T(f.segs[n])}
<1>0. f.segs \in Seq(Segment) /\ Len(f.segs) \in Nat
  BY LenProperties DEF Image
<1>1. CASE I = {}
  <2>1. g = 0
    BY <1>1 DEF SegmentBySection, SelectInSeq
  <2>2. QED
    BY <1>0, <2>1
<1>2. CASE I # {}
  <2>1. g = Min(I)
    BY <1>2 DEF SegmentBySection, SelectInSeq
  <2>2. \E x \in I : \A y \in I : x <= y
    <3>1. I \subseteq Nat
      OBVIOUS
    <3>2. QED
      BY <1>2, <3>1, LowestExists
  <2>3. Min(I) \in I
    BY <2>2 DEF Min
  <2>4. g \in 1 .. Len(f.segs) /\ T(f.segs[g])
    BY <2>1, <2>3
  <2>5. f.segs[g] \in Segment
    BY <1>0, <2>4, ElementOfSeq
  <2>6. Holds(f.segs[g], s)
    BY <2>4 DEF Holds, EndOf
  <2>7. QED
    BY <1>0, <2>4, <2>5, <2>6
<1>3. QED
  BY <1>1, <1>2

(* A section is looked for at its load address, and linked there. *)
LEMMA LmaIsAddr ==
    ASSUME NEW f \in Image, WellPlaced(f), NEW n \in OfType(f, {"flash", "mem"})
    PROVE  SectionLma(f, f.secs[n]) = f.secs[n].addr
<1> DEFINE s == f.secs[n]
           k == SegmentBySection(f, s)
           g == f.segs[k]
<1>1. n \in 1 .. Len(f.secs)
  BY TypeFacts
<1>2. s.addr \in Nat /\ s.off \in Nat
  BY <1>1, SectionFacts
<1>3. k \in 0 .. Len(f.segs) /\ Len(f.segs) \in Nat /\ (k # 0 => Holds(g, s) /\ g \in Segment)
  BY SegmentFacts
<1>4. CASE k = 0
  BY <1>4 DEF SectionLma
<1>5. CASE k # 0
  <2>1. k \in 1 .. Len(f.segs) /\ Holds(g, s)
    BY <1>3, <1>5
  <2>2. g.paddr = g.vaddr /\ (s.type # "NOBITS" => s.off - g.off = s.addr - g.vaddr)
    BY <2>1 DEF WellPlaced
  <2>3. g.paddr \in Nat /\ g.vaddr \in Nat /\ g.off \in Nat
    BY <1>3, <1>5 DEF Segment
  <2>4. ASSUME NEW x \in Nat, NEW y \in Nat, NEW z \in Nat, NEW w \in Nat
        PROVE  x - y + y = x /\ (z - w = x - y => z - w + y = x)
    OBVIOUS
  <2>5. s.addr - g.vaddr + g.paddr = s.addr /\ (s.type # "NOBITS" => s.off - g.off + g.paddr = s.addr)
    BY <1>2, <2>2, <2>3, <2>4
  <2>6. QED
    BY <1>5, <2>5 DEF SectionLma
<1>6. QED
  BY <1>4, <1>5

(* A search by address finds the one section that has it. *)
LEMMA FoundByLma ==
    ASSUME NEW l, NEW a, Len(l) \in Nat, NEW m \in 1 .. Len(l), Within(a, l[m].lma, l[m].size),
           \A n \in 1 .. Len(l) : Within(a, l[n].lma, l[n].size) => n = m
    PROVE  FindByLma(l, a) = m
<1> DEFINE I == {n \in 1 .. Len(l) : Within(a, l[n].lma, l[n].size)}
<1>1. I = {m} /\ m \in Int
  OBVIOUS
<1>2. FindByLma(l, a) = Min(I)
  BY <1>1 DEF FindByLma, SelectInSeq
<1> HIDE DEF I
<1>3. Min(I) = m
  <2>1. \E x \in I : \A y \in I : x <= y
    BY <1>1
  <2>2. Min(I) \in I
    BY <2>1 DEF Min
  <2>3. QED
    BY <1>1, <2>2
<1>4. QED
  BY <1>2, <1>3

LEMMA NotFoundByLma ==
    ASSUME NEW l, NEW a, \A n \in 1 .. Len(l) : ~Within(a, l[n].lma, l[n].size)
    PROVE  FindByLma(l, a) = 0
BY DEF FindByLma, SelectInSeq

(* A sum of sizes is the running sum that grows by each of them. *)
LEMMA SizeUpToIs ==
    ASSUME NEW l, NEW n \in Nat, \A k \in 1 .. n : l[k].size \in Nat,
           NEW h, h[0] = 0, \A k \in 1 .. n : h[k] = h[k - 1] + l[k].size
    PROVE  SizeUpTo(l, n) = h[n]
<1> DEFINE g == [k \in 1 .. n |-> l[k].size]
           Q(f) == f = [k \in 0 .. n |-> IF k = 0 THEN 0 ELSE f[k - 1] + l[k].size]
           f0 == CHOOSE f : Q(f)
<1>1. g \in [1 .. n -> Nat]
  OBVIOUS
<1>2. \A f : Q(f) <=> IsSum(f, n, g)
  <2> SUFFICES ASSUME NEW f PROVE Q(f) <=> IsSum(f, n, g)
    OBVIOUS
  <2>1. [k \in 0 .. n |-> IF k = 0 THEN 0 ELSE f[k - 1] + l[k].size]
          = [k \in 0 .. n |-> IF k = 0 THEN 0 ELSE f[k - 1] + g[k]]
    <3>1. \A k \in 0 .. n : k # 0 => g[k] = l[k].size
      OBVIOUS
    <3>2. QED
      BY <3>1
  <2>2. QED
    BY <2>1 DEF IsSum
<1>3. \E f : Q(f)
  BY <1>1, <1>2, SumExists
<1>4. IsSum(f0, n, g)
  BY <1>2, <1>3
<1>5. SizeUpTo(l, n) = f0[n]
  BY DEF SizeUpTo
<1>6. \A k \in 1 .. n : g[k] = l[k].size
  OBVIOUS
<1> HIDE DEF f0, g
<1>7. f0[0] = 0 /\ \A k \in 1 .. n : f0[k] = f0[k - 1] + g[k]
  BY <1>1, <1>4, SumFacts
<1> DEFINE S == {k \in 0 .. n : f0[k] # h[k]}
<1>8. CASE S # {}
  <2>1. PICK x \in S : \A y \in S : x <= y
    <3>1. S \subseteq Nat
      OBVIOUS
    <3>2. QED
      BY <1>8, <3>1, LowestExists
  <2>2. x \in 1 .. n
    BY <1>7, <2>1
  <2>3. x - 1 \in 0 .. n /\ ~(x <= x - 1)
    BY <2>2
  <2>4. f0[x - 1] = h[x - 1]
    BY <2>1, <2>3
  <2>5. f0[x] = h[x]
    BY <1>6, <1>7, <2>2, <2>4
  <2>6. QED
    BY <2>1, <2>5
<1>9. CASE S = {}
  <2>1. n \in 0 .. n
    OBVIOUS
  <2>2. QED
    BY <1>5, <1>9, <2>1
<1>10. QED
  BY <1>8, <1>9

(* The memory sections in the order of the list: each begins where the one before
   it ends. *)
MemSec(f, n) == f.secs[At(f, OfType(f, {"mem"}), n)]

LEMMA MemSecFacts ==
    ASSUME NEW f \in Image, WellPlaced(f)
    PROVE  LET N == Cardinality(OfType(f, {"mem"}))
           IN  /\ N \in Nat
               /\ \A k \in 1 .. N : MemSec(f, k).addr \in Nat /\ MemSec(f, k).size \in Nat \ {0}
               /\ \A k, m \in 1 .. N : k < m => EndOf(MemSec(f, k)) <= MemSec(f, m).addr
               /\ \A k \in 1 .. N : k + 1 <= N => MemSec(f, k + 1).addr = EndOf(MemSec(f, k))
               /\ \A k \in 1 .. N : MemSec(f, 1).addr <= MemSec(f, k).addr
<1> DEFINE S == OfType(f, {"mem"})
           N == Cardinality(S)
           T == OfType(f, {"flash", "mem"})
<1>1. S \subseteq 1 .. Len(f.secs) /\ S \subseteq T
  BY TypeFacts DEF OfType
<1>2. /\ N \in Nat
      /\ \A k \in 1 .. N : At(f, S, k) \in S
      /\ \A a \in S : \E k \in 1 .. N : At(f, S, k) = a
      /\ \A k, m \in 1 .. N : k < m => Before(f, At(f, S, k), At(f, S, m))
  <2> HIDE DEF S
  <2>1. QED
    BY <1>1, SortedFacts
<1>3. /\ \A a \in S : f.secs[a].addr \in Nat /\ f.secs[a].size \in Nat /\ f.secs[a].size > 0
      /\ \A a, b \in S : a # b => \/ EndOf(f.secs[a]) <= f.secs[b].addr
                                  \/ EndOf(f.secs[b]) <= f.secs[a].addr
      /\ \A a, b \in S : f.secs[a].addr < f.secs[b].addr => \E q \in S : EndOf(f.secs[q]) = f.secs[b].addr
  <2>1. \A a \in S : f.secs[a].addr \in Nat /\ f.secs[a].size \in Nat
    BY <1>1, SectionFacts
  <2>2. \A a \in S : f.secs[a].size > 0
    BY <1>1 DEF WellPlaced
  <2>3. \A a, b \in S : a # b => \/ EndOf(f.secs[a]) <= f.secs[b].addr
                                 \/ EndOf(f.secs[b]) <= f.secs[a].addr
    BY <1>1 DEF WellPlaced
  <2>4. \A a, b \in S : f.secs[a].addr < f.secs[b].addr => \E q \in S : EndOf(f.secs[q]) = f.secs[b].addr
    BY DEF WellPlaced
  <2>5. QED
    BY <2>1, <2>2, <2>3, <2>4
<1>4. \A k \in 1 .. N : /\ MemSec(f, k).addr \in Nat /\ MemSec(f, k).size \in Nat
                        /\ MemSec(f, k).size > 0 /\ MemSec(f, k) = f.secs[At(f, S, k)]
  BY <1>2, <1>3 DEF MemSec
<1> HIDE DEF S, N
<1>5. ASSUME NEW k \in 1 .. N, NEW m \in 1 .. N, k < m
      PROVE  EndOf(MemSec(f, k)) <= MemSec(f, m).addr
  <2> DEFINE a == At(f, S, k)
             b == At(f, S, m)
  <2>1. a \in S /\ b \in S /\ Before(f, a, b)
    BY <1>2, <1>5
  <2>2. MemSec(f, k) = f.secs[a] /\ MemSec(f, m) = f.secs[b]
    BY <1>4
  <2> HIDE DEF a, b
  <2>3. a # b
    BY <1>1, <2>1, BeforeOrders
  <2>4. f.secs[a].addr <= f.secs[b].addr
    <3>1. f.secs[a].addr \in Nat /\ f.secs[b].addr \in Nat
      BY <1>3, <2>1
    <3>2. QED
      BY <2>1, <3>1 DEF Before
  <2>5. EndOf(f.secs[a]) <= f.secs[b].addr \/ EndOf(f.secs[b]) <= f.secs[a].addr
    BY <1>3, <2>1, <2>3
  <2>6. f.secs[b].size \in Nat /\ f.secs[b].size > 0 /\ f.secs[a].addr \in Nat /\ f.secs[b].addr \in Nat
    BY <1>3, <2>1
  <2>7. QED
    BY <2>2, <2>4, <2>5, <2>6 DEF EndOf
<1>6. ASSUME NEW k \in 1 .. N, k + 1 <= N
      PROVE  MemSec(f, k + 1).addr = EndOf(MemSec(f, k))
  <2> DEFINE h == k + 1
             x == MemSec(f, k)
             y == MemSec(f, h)
  <2>0. h \in 1 .. N /\ k < h
    BY <1>2, <1>6
  <2>1. EndOf(x) <= y.addr
    BY <1>5, <2>0
  <2>2. /\ x.addr \in Nat /\ y.addr \in Nat /\ x.size \in Nat /\ x.size > 0
        /\ y.size \in Nat /\ y.size > 0
    BY <1>4, <2>0
  <2>3. x.addr < y.addr
    <3> HIDE DEF x, y
    <3>1. QED
      BY <2>1, <2>2 DEF EndOf
  <2>4. PICK q \in S : EndOf(f.secs[q]) = y.addr
    <3>1. At(f, S, k) \in S /\ At(f, S, h) \in S
      BY <1>2, <2>0
    <3>2. x = f.secs[At(f, S, k)] /\ y = f.secs[At(f, S, h)]
      BY <1>4, <2>0
    <3>3. QED
      BY <1>3, <2>3, <3>1, <3>2
  <2>5. PICK m \in 1 .. N : At(f, S, m) = q
    BY <1>2
  <2> DEFINE z == MemSec(f, m)
  <2>6. EndOf(z) = y.addr /\ z.addr \in Nat /\ z.size \in Nat /\ z.size > 0
    BY <1>4, <2>4, <2>5
  <2>7. h < m => EndOf(y) <= z.addr
    BY <1>5, <2>0
  <2>8. m < k => EndOf(z) <= x.addr
    BY <1>5
  <2>9. m = h => z = y
    OBVIOUS
  <2> HIDE DEF x, y, z, h
  <2>10. ~(h < m)
    BY <2>2, <2>6, <2>7 DEF EndOf
  <2>11. m # h
    BY <2>2, <2>6, <2>9 DEF EndOf
  <2>12. ~(m < k)
    BY <2>2, <2>3, <2>6, <2>8 DEF EndOf
  <2>13. m = k
    BY <1>2, <2>10, <2>11, <2>12 DEF h
  <2>14. QED
    BY <2>6, <2>13 DEF x, y, z, h
<1>7. ASSUME NEW k \in 1 .. N PROVE MemSec(f, 1).addr <= MemSec(f, k).addr
  <2>1. 1 \in 1 .. N /\ (k = 1 \/ 1 < k)
    BY <1>2
  <2> DEFINE x == MemSec(f, 1)
             y == MemSec(f, k)
  <2>2. x.addr \in Nat /\ x.size \in Nat /\ y.addr \in Nat
    BY <1>4, <2>1
  <2>3. 1 < k => EndOf(x) <= y.addr
    BY <1>5, <2>1
  <2>4. k = 1 => x = y
    OBVIOUS
  <2> HIDE DEF x, y
  <2>5. x.addr <= y.addr
    BY <2>1, <2>2, <2>3, <2>4 DEF EndOf
  <2>6. QED
    BY <2>5 DEF x, y
<1>8. QED
  BY <1>2, <1>4, <1>5, <1>6, <1>7 DEF N, S

LEMMA MemSums ==
    ASSUME NEW f \in Image, WellPlaced(f), NEW n \in 1 .. Cardinality(OfType(f, {"mem"}))
    PROVE  SizeUpTo(SecsIn(f, OfType(f, {"mem"})), n - 1) = MemSec(f, n).addr - MemSec(f, 1).addr
<1> DEFINE S == OfType(f, {"mem"})
           N == Cardinality(S)
           l == SecsIn(f, S)
           o == n - 1
           h == [k \in 0 .. o |-> MemSec(f, k + 1).addr - MemSec(f, 1).addr]
<1>1. /\ N \in Nat
      /\ \A k \in 1 .. N : MemSec(f, k).addr \in Nat /\ MemSec(f, k).size \in Nat
      /\ \A k \in 1 .. N : k + 1 <= N => MemSec(f, k + 1).addr = EndOf(MemSec(f, k))
  BY MemSecFacts
<1>2. S \subseteq 1 .. Len(f.secs)
  BY TypeFacts
<1>3. \A k \in 1 .. N : l[k].size = MemSec(f, k).size
  <2> HIDE DEF S
  <2>1. l = [k \in 1 .. N |-> CreateSection(f, At(f, S, k))]
    BY <1>2, SortedFacts
  <2>2. QED
    BY <2>1 DEF MemSec, S, CreateSection
<1>4. o \in Nat /\ o + 1 = n /\ 0 \in 0 .. o /\ o \in 0 .. o /\ \A k \in 1 .. o : k \in 1 .. N /\ k + 1 \in 1 .. N
  BY <1>1
<1>5. h[0] = 0
  <2>1. 1 \in 1 .. N
    BY <1>1
  <2>2. MemSec(f, 1).addr \in Nat
    BY <1>1, <2>1
  <2>3. h[0] = MemSec(f, 0 + 1).addr - MemSec(f, 1).addr
    BY <1>4
  <2>4. QED
    BY <2>2, <2>3
<1>6. ASSUME NEW k \in 1 .. o PROVE h[k] = h[k - 1] + l[k].size
  <2>1. k \in 1 .. N /\ k + 1 \in 1 .. N /\ k + 1 <= N /\ 1 \in 1 .. N
    BY <1>1, <1>4
  <2>2. h[k] = MemSec(f, k + 1).addr - MemSec(f, 1).addr
    OBVIOUS
  <2>3. k - 1 \in 0 .. o /\ (k - 1) + 1 = k
    BY <1>4
  <2>4. h[k - 1] = MemSec(f, k).addr - MemSec(f, 1).addr
    BY <2>3
  <2>5. MemSec(f, k + 1).addr = MemSec(f, k).addr + MemSec(f, k).size
    BY <1>1, <2>1 DEF EndOf
  <2>6. ASSUME NEW x \in Nat, NEW y \in Nat, NEW z \in Nat PROVE (x + y) - z = (x - z) + y
    OBVIOUS
  <2>7. MemSec(f, k).addr \in Nat /\ MemSec(f, k).size \in Nat /\ MemSec(f, 1).addr \in Nat
    BY <1>1, <2>1
  <2> HIDE DEF h, l
  <2>8. l[k].size = MemSec(f, k).size
    BY <1>3, <2>1
  <2>9. QED
    BY <2>2, <2>4, <2>5, <2>6, <2>7, <2>8
<1>7. h[o] = MemSec(f, n).addr - MemSec(f, 1).addr
  BY <1>4
<1>8. \A k \in 1 .. o : l[k].size \in Nat
  BY <1>1, <1>3, <1>4
<1> HIDE DEF h, l, o
<1>9. SizeUpTo(l, o) = h[o]
  BY <1>4, <1>5, <1>6, <1>8, SizeUpToIs
<1>10. QED
  BY <1>7, <1>9 DEF l, o

(* The record u of a file that is in place. *)
InPlace(k, u) ==
    LET mem == SecsIn(Elf(k), OfType(Elf(k), {"mem"}))
    IN  /\ u.flash = SecsIn(Elf(k), OfType(Elf(k), {"flash"}))
        /\ u.mem = [n \in 1 .. Len(mem) |->
                      [mem[n] EXCEPT !.adjVma = u.membase + SizeUpTo(mem, n - 1), !.loaded = TRUE]]

IsFlashRecord(f, r, s) ==
    /\ r.name = s.name /\ r.lma = s.addr /\ r.size = s.size
    /\ r.adjVma = f.base + s.off /\ ~r.nobits
IsMemRecord(f, membase0, r, s) ==
    /\ r.name = s.name /\ r.lma = s.addr /\ r.size = s.size
    /\ r.adjVma = membase0 + s.addr - MemSec(f, 1).addr /\ r.loaded

LEMMA FlashRecords ==
    ASSUME NEW k, Elf(k) \in Image, WellPlaced(Elf(k)), NEW u, InPlace(k, u)
    PROVE  LET f == Elf(k)
               S == OfType(f, {"flash"})
           IN  /\ Len(u.flash) = Cardinality(S) /\ Cardinality(S) \in Nat
               /\ u.flash = [n \in 1 .. Cardinality(S) |-> u.flash[n]]
               /\ \A n \in 1 .. Cardinality(S) :
                     At(f, S, n) \in S /\ IsFlashRecord(f, u.flash[n], f.secs[At(f, S, n)])
<1> DEFINE f == Elf(k)
           S == OfType(f, {"flash"})
           N == Cardinality(S)
<1>1. S \subseteq 1 .. Len(f.secs) /\ S \subseteq OfType(f, {"flash", "mem"})
  BY TypeFacts DEF OfType
<1>2. \A x \in S : f.secs[x].type # "NOBITS"
  <2>1. \A x \in S : x \notin OfType(f, {"mem"})
    BY DEF OfType
  <2>2. QED
    BY <1>1, <2>1 DEF WellPlaced
<1>3. u.flash = SecsIn(f, S)
  BY DEF InPlace
<1> HIDE DEF S, f
<1>4. f \in Image /\ WellPlaced(f)
  BY DEF f
<1>5. /\ N \in Nat /\ u.flash = [n \in 1 .. N |-> CreateSection(f, At(f, S, n))] /\ Len(u.flash) = N
      /\ \A n \in 1 .. N : At(f, S, n) \in S
  BY <1>1, <1>3, <1>4, SortedFacts
<1> HIDE DEF N
<1>6. ASSUME NEW n \in 1 .. N
      PROVE  At(f, S, n) \in S /\ IsFlashRecord(f, u.flash[n], f.secs[At(f, S, n)])
  <2> DEFINE x == At(f, S, n)
             s == f.secs[x]
             r == u.flash[n]
  <2>1. x \in S /\ r = CreateSection(f, x)
    BY <1>5
  <2>2. SectionLma(f, s) = s.addr
    BY <1>1, <1>4, <2>1, LmaIsAddr
  <2>3. s.type # "NOBITS"
    BY <1>2, <2>1
  <2> HIDE DEF x
  <2>4. /\ r.name = s.name /\ r.lma = SectionLma(f, s) /\ r.size = s.size
        /\ r.adjVma = f.base + s.off /\ r.nobits = (s.type = "NOBITS")
    BY <2>1 DEF CreateSection, AdjustVma
  <2>5. QED
    BY <2>1, <2>2, <2>3, <2>4 DEF x, IsFlashRecord
<1>7. u.flash = [n \in 1 .. N |-> u.flash[n]]
  BY <1>5
<1>8. QED
  BY <1>5, <1>6, <1>7 DEF f, S, N

LEMMA MemRecords ==
    ASSUME NEW k, Elf(k) \in Image, WellPlaced(Elf(k)), NEW u, InPlace(k, u), u.membase \in Nat
    PROVE  LET f == Elf(k)
               S == OfType(f, {"mem"})
           IN  /\ Len(u.mem) = Cardinality(S) /\ Cardinality(S) \in Nat
               /\ u.mem = [n \in 1 .. Cardinality(S) |-> u.mem[n]]
               /\ \A n \in 1 .. Cardinality(S) :
                     At(f, S, n) \in S /\ IsMemRecord(f, u.membase, u.mem[n], f.secs[At(f, S, n)])
<1> DEFINE f == Elf(k)
           S == OfType(f, {"mem"})
           N == Cardinality(S)
           M == SecsIn(f, S)
<1>1. S \subseteq 1 .. Len(f.secs) /\ S \subseteq OfType(f, {"flash", "mem"})
  BY TypeFacts DEF OfType
<1>3. u.mem = [n \in 1 .. Len(M) |->
                 [M[n] EXCEPT !.adjVma = u.membase + SizeUpTo(M, n - 1), !.loaded = TRUE]]
  BY DEF InPlace
<1>2. \A n \in 1 .. N : SizeUpTo(M, n - 1) = MemSec(f, n).addr - MemSec(f, 1).addr
  BY MemSums
<1>4. /\ \A n \in 1 .. N : MemSec(f, n).addr \in Nat /\ MemSec(f, n) = f.secs[At(f, S, n)]
      /\ N \in Nat
  BY MemSecFacts DEF MemSec
<1> HIDE DEF S, f
<1>5. f \in Image /\ WellPlaced(f)
  BY DEF f
<1>6. /\ N \in Nat /\ M = [n \in 1 .. N |-> CreateSection(f, At(f, S, n))] /\ Len(M) = N
      /\ \A n \in 1 .. N : At(f, S, n) \in S
  BY <1>1, <1>5, SortedFacts
<1> HIDE DEF N, M
<1>7. ASSUME NEW n \in 1 .. N
      PROVE  At(f, S, n) \in S /\ IsMemRecord(f, u.membase, u.mem[n], f.secs[At(f, S, n)])
  <2> DEFINE x == At(f, S, n)
             s == f.secs[x]
             r == u.mem[n]
             v == u.membase + SizeUpTo(M, n - 1)
  <2>1. x \in S /\ M[n] = CreateSection(f, x) /\ r = [M[n] EXCEPT !.adjVma = v, !.loaded = TRUE]
    BY <1>3, <1>6
  <2>2. SectionLma(f, s) = s.addr
    BY <1>1, <1>5, <2>1, LmaIsAddr
  <2>3. v = u.membase + s.addr - MemSec(f, 1).addr
    <3>1. 1 \in 1 .. N
      BY <1>4
    <3>2. s.addr \in Nat /\ MemSec(f, 1).addr \in Nat /\ MemSec(f, n) = s
      BY <1>4, <3>1
    <3>3. ASSUME NEW a \in Nat, NEW b \in Nat, NEW d \in Nat PROVE a + (b - d) = a + b - d
      OBVIOUS
    <3>4. SizeUpTo(M, n - 1) = s.addr - MemSec(f, 1).addr
      BY <1>2, <3>2
    <3>5. QED
      BY <3>2, <3>3, <3>4
  <2> HIDE DEF x, v
  <2>4. /\ r.name = s.name /\ r.lma = SectionLma(f, s) /\ r.size = s.size
        /\ r.adjVma = v /\ r.loaded
    <3>1. r = [CreateSection(f, x) EXCEPT !.adjVma = v, !.loaded = TRUE]
      BY <2>1
    <3> HIDE DEF r
    <3>2. QED
      BY <3>1 DEF CreateSection
  <2>5. QED
    BY <2>1, <2>2, <2>3, <2>4 DEF x, IsMemRecord
<1>8. u.mem = [n \in 1 .. N |-> u.mem[n]] /\ Len(u.mem) = N
  <2> DEFINE R(n) == [M[n] EXCEPT !.adjVma = u.membase + SizeUpTo(M, n - 1), !.loaded = TRUE]
  <2>1. u.mem = [n \in 1 .. N |-> R(n)]
    BY <1>3, <1>6
  <2> HIDE DEF R
  <2>2. QED
    BY <1>6, <2>1
<1>9. QED
  BY <1>6, <1>7, <1>8 DEF f, S, N

LEMMA MemLinkIs ==
    ASSUME RInv, NEW k \in 1 .. Len(Files), WellPlaced(Elf(k)), OfType(Elf(k), {"mem"}) # {}
    PROVE  MemLink(k) = MemSec(Elf(k), 1).addr
<1> DEFINE f == Elf(k)
           S == OfType(f, {"mem"})
           N == Cardinality(S)
           A == {s.addr : s \in {t \in AllocSecs(k) : SecType(t) = "mem"}}
           x == MemSec(f, 1).addr
<1>0. f \in Image
  BY FileAt
<1>1. A = {f.secs[n].addr : n \in S}
  BY DEF AllocSecs, OfType, SecType
<1>2. /\ N \in Nat /\ \A n \in 1 .. N : MemSec(f, n).addr \in Nat /\ x <= MemSec(f, n).addr
  BY <1>0, MemSecFacts
<1>3. S \subseteq 1 .. Len(f.secs)
  BY <1>0, TypeFacts
<1>4. /\ \A n \in 1 .. N : At(f, S, n) \in S
      /\ \A a \in S : \E n \in 1 .. N : At(f, S, n) = a
  <2> HIDE DEF S
  <2>1. QED
    BY <1>0, <1>3, SortedFacts
<1>5. 1 \in 1 .. N
  BY <1>2, <1>4
<1>6. x \in A /\ x \in Nat
  BY <1>1, <1>2, <1>4, <1>5 DEF MemSec
<1>7. ASSUME NEW b \in A PROVE x <= b /\ b \in Nat
  <2>1. PICK a \in S : b = f.secs[a].addr
    BY <1>1
  <2>2. PICK n \in 1 .. N : At(f, S, n) = a
    BY <1>4
  <2>3. b = MemSec(f, n).addr
    BY <2>1, <2>2 DEF MemSec
  <2>4. QED
    BY <1>2, <2>3
<1>8. MemLink(k) = CHOOSE a \in A : \A b \in A : a <= b
  BY DEF MemLink
<1> HIDE DEF A, x
<1>9. (CHOOSE a \in A : \A b \in A : a <= b) = x
  <2>1. \E a \in A : \A b \in A : a <= b
    BY <1>6, <1>7
  <2> DEFINE c0 == CHOOSE a \in A : \A b \in A : a <= b
  <2>2. c0 \in A /\ \A b \in A : c0 <= b
    BY <2>1
  <2> HIDE DEF c0
  <2>3. c0 <= x /\ x <= c0 /\ c0 \in Nat
    BY <1>6, <1>7, <2>2
  <2>4. c0 = x
    BY <1>6, <2>3
  <2>5. QED
    BY <2>4 DEF c0
<1>10. QED
  BY <1>8, <1>9 DEF x

(* No two positions of a sorted list hold the same section. *)
LEMMA AtInjective ==
    ASSUME NEW f \in Image, NEW S, S \subseteq 1 .. Len(f.secs),
           NEW k \in 1 .. Cardinality(S), NEW m \in 1 .. Cardinality(S), At(f, S, k) = At(f, S, m)
    PROVE  k = m
<1>1. /\ Cardinality(S) \in Nat /\ At(f, S, k) \in 1 .. Len(f.secs)
      /\ k < m => Before(f, At(f, S, k), At(f, S, m))
      /\ m < k => Before(f, At(f, S, m), At(f, S, k))
  BY SortedFacts
<1>2. ~Before(f, At(f, S, k), At(f, S, m)) /\ ~Before(f, At(f, S, m), At(f, S, k))
  BY <1>1, BeforeOrders
<1>3. QED
  BY <1>1, <1>2

(* Only one section that is there at run time has the address. *)
LEMMA OneSection ==
    ASSUME NEW f \in Image, WellPlaced(f),
           NEW x \in OfType(f, {"flash", "mem"}), NEW y \in OfType(f, {"flash", "mem"}), NEW a \in Nat,
           Within(a, f.secs[x].addr, f.secs[x].size), Within(a, f.secs[y].addr, f.secs[y].size)
    PROVE  x = y
<1> DEFINE s == f.secs[x]
           t == f.secs[y]
<1>1. x \in 1 .. Len(f.secs) /\ y \in 1 .. Len(f.secs)
  BY TypeFacts
<1>2. s.addr \in Nat /\ s.size \in Nat /\ t.addr \in Nat /\ t.size \in Nat
  BY <1>1, SectionFacts
<1>3. x # y => EndOf(s) <= t.addr \/ EndOf(t) <= s.addr
  BY DEF WellPlaced
<1>4. s.addr <= a /\ a < s.addr + s.size /\ t.addr <= a /\ a < t.addr + t.size
  BY DEF Within
<1> HIDE DEF s, t
<1>5. QED
  BY <1>2, <1>3, <1>4 DEF EndOf

(* uld_file_lma_to_adjusted_vma leads to the word. *)
LEMMA WordFound ==
    ASSUME RInv, NEW k \in 1 .. Len(Files), InPlace(k, ufiles[k]), ufiles[k].membase \in Nat,
           NEW s \in AllocSecs(k), NEW a \in Words(s)
    PROVE  LmaToAdjustedVma(ufiles[k], a) = WordAt(k, s, a)
<1> DEFINE f == Elf(k)
           u == ufiles[k]
           F == OfType(f, {"flash"})
           M == OfType(f, {"mem"})
           T == OfType(f, {"flash", "mem"})
<1>0. f \in Image /\ WellPlaced(f)
  <2>1. Files[k] \in Table
    BY FileFacts DEF RInv, Files
  <2>2. QED
    BY <2>1, FileAt, LayoutAssumption DEF Elf
<1>1. PICK x \in 1 .. Len(f.secs) : s = f.secs[x] /\ s.alloc
  BY DEF AllocSecs
<1>2. /\ s.addr \in Nat /\ s.size \in Nat /\ s.off \in Nat /\ f.base \in Nat /\ s.addr # 0
  <2>1. f.secs[x] \in Section
    BY <1>0, ElementOfSeq DEF Image
  <2>2. s.alloc => s.addr # 0
    BY <1>1, <2>1 DEF Section
  <2>3. QED
    BY <1>0, <1>1, <2>2, SectionFacts
<1>3. a \in Nat /\ a # 0 /\ Within(a, s.addr, s.size)
  <2>1. ASSUME NEW p \in Nat, NEW q \in Nat, NEW r \in p .. p + q - 1, p # 0
        PROVE  r \in Nat /\ r # 0 /\ p <= r /\ r < p + q
    BY <2>1
  <2>2. a \in s.addr .. s.addr + s.size - 1
    BY DEF Words
  <2>3. QED
    BY <1>2, <2>1, <2>2 DEF Within
<1>4. /\ x \in T /\ (x \in F <=> SecType(s) = "flash") /\ (x \in M <=> SecType(s) = "mem")
      /\ x \in F \/ x \in M
  BY <1>1 DEF OfType, SecType
<1>5. F \subseteq T /\ M \subseteq T /\ F \cap M = {} /\ T \subseteq 1 .. Len(f.secs)
  BY DEF OfType
<1>6. /\ Len(u.flash) = Cardinality(F) /\ Cardinality(F) \in Nat
      /\ \A n \in 1 .. Cardinality(F) :
            At(f, F, n) \in F /\ IsFlashRecord(f, u.flash[n], f.secs[At(f, F, n)])
  BY <1>0, FlashRecords
<1>7. /\ Len(u.mem) = Cardinality(M) /\ Cardinality(M) \in Nat
      /\ \A n \in 1 .. Cardinality(M) :
            At(f, M, n) \in M /\ IsMemRecord(f, u.membase, u.mem[n], f.secs[At(f, M, n)])
  BY <1>0, MemRecords
<1>8. x \in M => MemLink(k) = MemSec(f, 1).addr /\ MemSec(f, 1).addr \in Nat
  <2> SUFFICES ASSUME x \in M PROVE MemLink(k) = MemSec(f, 1).addr /\ MemSec(f, 1).addr \in Nat
    OBVIOUS
  <2>1. M # {}
    OBVIOUS
  <2>2. MemLink(k) = MemSec(f, 1).addr
    BY <1>0, <2>1, MemLinkIs
  <2>3. \E n \in 1 .. Cardinality(M) : At(f, M, n) = x
    BY <1>0, <1>5, SortedFacts
  <2>4. 1 \in 1 .. Cardinality(M)
    BY <1>7, <2>3
  <2>5. QED
    BY <1>0, <2>2, <2>4, MemSecFacts
<1> HIDE DEF f, u, F, M, T
<1>9. CASE x \in F
  <2>1. PICK n \in 1 .. Cardinality(F) : At(f, F, n) = x
    BY <1>0, <1>5, <1>9, SortedFacts
  <2>2. ASSUME NEW m \in 1 .. Cardinality(F), Within(a, u.flash[m].lma, u.flash[m].size)
        PROVE  m = n
    <3>1. At(f, F, m) = x
      BY <1>0, <1>1, <1>3, <1>4, <1>5, <1>6, <2>2, OneSection DEF T, IsFlashRecord
    <3>2. QED
      BY <1>0, <1>5, <2>1, <3>1, AtInjective
  <2>3. /\ u.flash[n].lma = s.addr /\ u.flash[n].size = s.size
        /\ u.flash[n].adjVma = f.base + s.off /\ ~u.flash[n].nobits
    BY <1>1, <1>6, <2>1 DEF IsFlashRecord
  <2>4. FindByLma(u.flash, a) = n /\ n # 0
    <3> DEFINE l == u.flash
    <3>1. n \in 1 .. Len(l) /\ Len(l) \in Nat /\ n # 0
      BY <1>6
    <3>2. \A m \in 1 .. Len(l) : Within(a, l[m].lma, l[m].size) => m = n
      BY <1>6, <2>2
    <3>3. Within(a, l[n].lma, l[n].size)
      BY <1>3, <2>3
    <3> HIDE DEF l
    <3>4. FindByLma(l, a) = n
      BY <3>1, <3>2, <3>3, FoundByLma
    <3>5. QED
      BY <3>1, <3>4 DEF l
  <2>5. LmaToAdjustedVma(u, a) = SecToAdjustedVma(u.flash[n], a)
    BY <2>4 DEF LmaToAdjustedVma
  <2>6. SecToAdjustedVma(u.flash[n], a) = a - s.addr + (f.base + s.off)
    BY <1>3, <2>3 DEF SecToAdjustedVma
  <2>7. WordAt(k, s, a) = f.base + s.off + a - s.addr
    BY <1>4, <1>9 DEF WordAt, f
  <2> DEFINE p == s.addr
             q == f.base
             r == s.off
  <2>8. p \in Nat /\ q \in Nat /\ r \in Nat
    BY <1>2
  <2>9. a - p + (q + r) = q + r + a - p
    <3> HIDE DEF p, q, r
    <3>1. QED
      BY <1>3, <2>8
  <2>10. QED
    BY <2>5, <2>6, <2>7, <2>9 DEF u
<1>10. CASE x \in M
  <2>1. PICK n \in 1 .. Cardinality(M) : At(f, M, n) = x
    BY <1>0, <1>5, <1>10, SortedFacts
  <2>2. ASSUME NEW m \in 1 .. Cardinality(M), Within(a, u.mem[m].lma, u.mem[m].size)
        PROVE  m = n
    <3>1. At(f, M, m) = x
      BY <1>0, <1>1, <1>3, <1>4, <1>5, <1>7, <2>2, OneSection DEF T, IsMemRecord
    <3>2. QED
      BY <1>0, <1>5, <2>1, <3>1, AtInjective
  <2>3. /\ u.mem[n].lma = s.addr /\ u.mem[n].size = s.size
        /\ u.mem[n].adjVma = u.membase + s.addr - MemSec(f, 1).addr /\ u.mem[n].loaded
    BY <1>1, <1>7, <2>1 DEF IsMemRecord
  <2>4. FindByLma(u.mem, a) = n /\ n # 0
    <3> DEFINE l == u.mem
    <3>1. n \in 1 .. Len(l) /\ Len(l) \in Nat /\ n # 0
      BY <1>7
    <3>2. \A m \in 1 .. Len(l) : Within(a, l[m].lma, l[m].size) => m = n
      BY <1>7, <2>2
    <3>3. Within(a, l[n].lma, l[n].size)
      BY <1>3, <2>3
    <3> HIDE DEF l
    <3>4. FindByLma(l, a) = n
      BY <3>1, <3>2, <3>3, FoundByLma
    <3>5. QED
      BY <3>1, <3>4 DEF l
  <2>5. FindByLma(u.flash, a) = 0
    <3>1. ASSUME NEW m \in 1 .. Cardinality(F), Within(a, u.flash[m].lma, u.flash[m].size)
          PROVE  FALSE
      <4>1. At(f, F, m) = x /\ At(f, F, m) \in F
        BY <1>0, <1>1, <1>3, <1>4, <1>5, <1>6, <3>1, OneSection DEF T, IsFlashRecord
      <4>2. QED
        BY <1>5, <1>10, <4>1
    <3>2. QED
      BY <1>6, <3>1, NotFoundByLma
  <2>6. LmaToAdjustedVma(u, a) = SecToAdjustedVma(u.mem[n], a)
    BY <2>4, <2>5 DEF LmaToAdjustedVma
  <2>7. SecToAdjustedVma(u.mem[n], a) = a - s.addr + (u.membase + s.addr - MemSec(f, 1).addr)
    BY <1>3, <2>3 DEF SecToAdjustedVma
  <2>8. WordAt(k, s, a) = u.membase + a - MemSec(f, 1).addr
    BY <1>4, <1>8, <1>10 DEF WordAt, f, u
  <2>9. ASSUME NEW p \in Nat, NEW q \in Nat, NEW r \in Nat, NEW t \in Nat
        PROVE  p - q + (r + q - t) = r + p - t
    OBVIOUS
  <2>10. u.membase \in Nat
    BY DEF u
  <2>11. QED
    BY <1>2, <1>3, <1>8, <1>10, <2>6, <2>7, <2>8, <2>9, <2>10 DEF u
<1>11. QED
  BY <1>4, <1>9, <1>10

(* What is recorded of a file stays in place once it is there. *)
WInv == pc \in Later => \A k \in 1 .. depCount : ufiles[k].fse # 0 => InPlace(k, ufiles[k])

LEMMA WLoadFile ==
    ASSUME RInv, KInv, TInv, WInv, LoadFile
    PROVE  WInv'
<1>0. /\ pc = "load" /\ pc' = pc /\ i <= depCount /\ UNCHANGED <<prog, depCount>>
  BY DEF LoadFile, listVars
<1>1. /\ depCount = Len(Files) /\ Len(Files) \in Nat /\ DOMAIN ufiles = 1 .. depCount
      /\ i \in Nat \ {0} /\ prog \in Programs
      /\ secCount = DepListSecCount(Files) /\ secIdx = DepSum(Files)[i - 1]
      /\ secIdx \in Nat /\ secCount \in Nat
  BY <1>0 DEF RInv, TInv, Later
<1>2. i \in 1 .. Len(Files) /\ i \in 0 .. Len(Files)
  BY <1>0, <1>1
<1> DEFINE f == Elf(i)
           snum == secCount - secIdx
           u == CreateFile(i, snum)
           at == NextMembase(membase, allocated)
           p == Placed(u, at)
           M == SecsIn(f, OfType(f, {"mem"}))
<1>3. f \in Image /\ SecCount(f) \in Nat
  BY <1>2, FileAt, TypeFacts
<1>4. DepSum(Files)[i] = secIdx + SecCount(f) /\ DepSum(Files)[i] <= secCount
  BY <1>1, <1>2, DepSumFacts DEF Files, Elf
<1>5. snum \in Int /\ SecCount(f) <= snum
  <2> HIDE DEF f
  <2>1. ASSUME NEW x \in Nat, NEW y \in Nat, NEW z \in Nat, x + y <= z
        PROVE  z - x \in Int /\ y <= z - x
    BY <2>1
  <2>2. secIdx + SecCount(f) <= secCount
    BY <1>4
  <2>3. QED
    BY <1>1, <1>3, <2>1, <2>2
<1>6. u.flash = SecsIn(f, OfType(f, {"flash"})) /\ u.mem = M
  <2> HIDE DEF snum
  <2>1. QED
    BY <1>3, <1>5, CreateFileFull
<1>7. p.flash = u.flash /\ p.membase = at
      /\ p.mem = [n \in 1 .. Len(u.mem) |->
                    [u.mem[n] EXCEPT !.adjVma = at + SizeUpTo(u.mem, n - 1), !.loaded = TRUE]]
  BY DEF Placed, CreateFile, NoFile
<1>8. \/ ufiles' = [ufiles EXCEPT ![i] = u] /\ u.mem = <<>>
      \/ ufiles' = [ufiles EXCEPT ![i] = p]
  BY DEF LoadFile
<1> HIDE DEF u, p, at
<1>9. InPlace(i, p)
  BY <1>6, <1>7 DEF InPlace
<1>10. u.mem = <<>> => InPlace(i, u)
  <2> SUFFICES ASSUME u.mem = <<>> PROVE InPlace(i, u)
    OBVIOUS
  <2>1. M = <<>> /\ Len(M) = 0
    BY <1>6
  <2> DEFINE R(n) == [M[n] EXCEPT !.adjVma = u.membase + SizeUpTo(M, n - 1), !.loaded = TRUE]
  <2>2. u.mem = [n \in 1 .. Len(M) |-> R(n)]
    <3> HIDE DEF R, M
    <3>1. QED
      BY <2>1
  <2>3. QED
    BY <1>6, <2>2 DEF InPlace
<1>11. ASSUME NEW k \in 1 .. depCount, ufiles'[k].fse # 0 PROVE InPlace(k, ufiles'[k])
  <2>1. CASE k = i
    <3>1. (ufiles'[k] = u /\ u.mem = <<>>) \/ ufiles'[k] = p
      BY <1>1, <1>8, <2>1
    <3>2. QED
      BY <1>9, <1>10, <2>1, <3>1
  <2>2. CASE k # i
    <3>1. ufiles'[k] = ufiles[k]
      BY <1>1, <1>8, <2>2
    <3>2. QED
      BY <1>0, <1>11, <3>1 DEF WInv, Later
  <2>3. QED
    BY <2>1, <2>2
<1>12. \A k : InPlace(k, ufiles[k])' <=> InPlace(k, ufiles'[k])
  BY <1>0 DEF InPlace, Elf, Files
<1>13. QED
  BY <1>0, <1>11, <1>12 DEF WInv

LEMMA WOther ==
    ASSUME RInv, KInv, TInv, WInv, [Next]_vars, ~LoadFile
    PROVE  WInv'
<1>1. CASE CountDeps
  BY <1>1 DEF CountDeps, WInv, Later
<1>2. CASE BuildList
  <2>1. ufiles' = [k \in 1 .. depCount |-> NoFile] /\ depCount' = depCount
    BY <1>2 DEF BuildList
  <2>2. \A k \in 1 .. depCount : ufiles'[k].fse = 0
    BY <2>1 DEF NoFile
  <2>3. QED
    BY <2>1, <2>2 DEF WInv
<1>3. CASE ~CountDeps /\ ~BuildList
  <2>1. /\ UNCHANGED <<prog, ufiles, depCount>>
        /\ pc' \in Later => pc \in Later
    BY <1>3 DEF Next, vars, NoRoom, LoadDone, LinkFile, LinkFails, LinkDone, PrintGdbSymCmd,
                PrintGdbDone, NoSuchFile, CallInitFunc, NextInitFile, ExecFile, Stopped, listVars,
                loadVars, Later
  <2>2. \A k : InPlace(k, ufiles[k])' <=> InPlace(k, ufiles[k])
    BY <2>1 DEF InPlace, Elf, Files
  <2>3. QED
    BY <2>1, <2>2 DEF WInv
<1>4. QED
  BY <1>1, <1>2, <1>3

LEMMA PlaceInvariants == Spec => [](RInv /\ KInv /\ TInv /\ WInv)
<1> DEFINE I == RInv /\ KInv /\ TInv /\ WInv
<1>1. Init => I
  <2>1. Init => WInv
    BY DEF Init, WInv, Later
  <2>2. QED
    BY <2>1, RInvInit, KInvInit, TInvInit
<1>2. I /\ [Next]_vars => I'
  <2> SUFFICES ASSUME I, [Next]_vars PROVE I'
    OBVIOUS
  <2>1. RInv'
    BY RLoad, RLink, ROther
  <2>2. KInv'
    BY KLoadFile, KLinkFile, KOther
  <2>3. TInv'
    BY TLoadFile, TOther
  <2>4. WInv'
    BY WLoadFile, WOther
  <2>5. QED
    BY <2>1, <2>2, <2>3, <2>4
<1>3. QED
  BY <1>1, <1>2, PTL DEF Spec

(* uld_file_lma_to_adjusted_vma: once a file is loaded the link finds every word
   of it where the word is now, in flash or in memory, from the address it was
   linked at; for every file whose memory sections leave no gap. *)
THEOREM LinkFindsEveryWord == Spec => []WordsFound
<1>1. RInv /\ KInv /\ TInv /\ WInv => WordsFound
  <2> SUFFICES ASSUME RInv, KInv, TInv, WInv, pc = "link",
                      NEW k \in 1 .. Len(ufiles), ufiles[k].fse = k
               PROVE  \A s \in AllocSecs(k) : \A a \in Words(s) :
                         LmaToAdjustedVma(ufiles[k], a) = WordAt(k, s, a)
    BY DEF WordsFound
  <2>1. depCount = Len(Files) /\ Len(Files) \in Nat /\ DOMAIN ufiles = 1 .. depCount
    BY DEF RInv
  <2>2. k \in 1 .. Len(Files) /\ k # 0
    BY <2>1
  <2>3. InPlace(k, ufiles[k]) /\ ufiles[k].membase \in Nat
    BY <2>1, <2>2 DEF WInv, KInv, Later
  <2>4. QED
    BY <2>2, <2>3, WordFound
<1>2. QED
  BY <1>1, PlaceInvariants, PTL

-----------------------------------------------------------------------------
(* What the debugger is told *)

PickNext(l, before, k) == IF l[k].name = ".text" THEN before ELSE Append(before, l[k])
IsPick(f, l, n) == f = [k \in 0 .. n |-> IF k = 0 THEN <<>> ELSE PickNext(l, f[k - 1], k)]

LEMMA PickExists ==
    ASSUME NEW n \in Nat, NEW l
    PROVE  \E f : IsPick(f, l, n)
<1> DEFINE S == {m \in 0 .. n : ~ \E f : IsPick(f, l, m)}
<1>1. CASE S = {}
  <2>1. n \in 0 .. n
    OBVIOUS
  <2>2. n \notin S
    BY <1>1, Zenon
  <2>3. QED
    BY <2>1, <2>2, Zenon
<1>2. CASE S # {}
  <2>1. PICK x \in S : \A y \in S : x <= y
    <3>1. S \subseteq Nat
      OBVIOUS
    <3>2. QED
      BY <1>2, <3>1, LowestExists
  <2>2. x \in 0 .. n /\ x \in Nat /\ ~ \E f : IsPick(f, l, x)
    BY <2>1
  <2>3. CASE x = 0
    <3> DEFINE f == [k \in 0 .. 0 |-> <<>>]
    <3>1. IsPick(f, l, 0)
      BY DEF IsPick
    <3>2. QED
      BY <2>2, <2>3, <3>1
  <2>4. CASE x # 0
    <3>1. x - 1 \in 0 .. n /\ x - 1 < x /\ x - 1 \in Nat
      BY <2>2, <2>4
    <3>2. x - 1 \notin S
      BY <2>1, <2>2, <3>1
    <3>3. PICK f : IsPick(f, l, x - 1)
      BY <3>1, <3>2
    <3> DEFINE h == [k \in 0 .. x |-> IF k = x THEN PickNext(l, f[x - 1], x) ELSE f[k]]
    <3>4. \A k \in 0 .. x - 1 : f[k] = IF k = 0 THEN <<>> ELSE PickNext(l, f[k - 1], k)
      BY <3>3 DEF IsPick
    <3>5. \A k \in 0 .. x : h[k] = IF k = 0 THEN <<>> ELSE PickNext(l, h[k - 1], k)
      <4> SUFFICES ASSUME NEW k \in 0 .. x
                   PROVE  h[k] = IF k = 0 THEN <<>> ELSE PickNext(l, h[k - 1], k)
        OBVIOUS
      <4>1. CASE k = x
        BY <2>2, <2>4, <4>1
      <4>2. CASE k # x
        BY <2>2, <3>4, <4>2
      <4>3. QED
        BY <4>1, <4>2
    <3>6. IsPick(h, l, x)
      BY <3>5 DEF IsPick
    <3>7. QED
      BY <2>2, <3>6
  <2>5. QED
    BY <2>3, <2>4
<1>3. QED
  BY <1>1, <1>2

(* Without its .text, the list is one shorter and keeps its order. *)
LEMMA ButTextFacts ==
    ASSUME NEW l, Len(l) \in Nat, NEW t \in 1 .. Len(l),
           \A n \in 1 .. Len(l) : l[n].name = ".text" <=> n = t
    PROVE  LET m == ButText(l)
           IN  /\ Len(m) = Len(l) - 1 /\ m = [x \in 1 .. Len(m) |-> m[x]]
               /\ \A x \in 1 .. Len(m) : m[x] = IF x < t THEN l[x] ELSE l[x + 1]
<1> DEFINE n == Len(l)
           Q(f) == f = [k \in 0 .. n |-> IF k = 0 THEN <<>>
                                         ELSE IF l[k].name = ".text" THEN f[k - 1]
                                         ELSE Append(f[k - 1], l[k])]
           f0 == CHOOSE f : Q(f)
<1>1. \A f : Q(f) <=> IsPick(f, l, n)
  BY DEF IsPick, PickNext
<1>2. \E f : Q(f)
  BY <1>1, PickExists
<1>3. IsPick(f0, l, n)
  BY <1>1, <1>2
<1>4. ButText(l) = f0[n]
  BY DEF ButText
<1> HIDE DEF f0
<1>5. /\ f0[0] = <<>>
      /\ \A k \in 1 .. n : f0[k] = PickNext(l, f0[k - 1], k)
  BY <1>3 DEF IsPick
<1> DEFINE Size(k) == IF k < t THEN k ELSE k - 1
           Good(k) == /\ Len(f0[k]) = Size(k) /\ f0[k] = [x \in 1 .. Len(f0[k]) |-> f0[k][x]]
                      /\ \A x \in 1 .. Len(f0[k]) : f0[k][x] = IF x < t THEN l[x] ELSE l[x + 1]
           S == {k \in 0 .. n : ~Good(k)}
<1>6. CASE S # {}
  <2>1. PICK k \in S : \A y \in S : k <= y
    <3>1. S \subseteq Nat
      OBVIOUS
    <3>2. QED
      BY <1>6, <3>1, LowestExists
  <2>2. k # 0
    <3>1. Len(<<>>) = 0 /\ Size(0) = 0
      OBVIOUS
    <3>2. Good(0)
      BY <1>5, <3>1
    <3>3. QED
      BY <2>1, <3>2
  <2>3. k \in 1 .. n /\ k - 1 \in 0 .. n /\ ~(k <= k - 1)
    BY <2>1, <2>2
  <2>4. k - 1 \notin S
    BY <2>1, <2>3, Zenon
  <2>5. Good(k - 1)
    BY <2>3, <2>4
  <2> DEFINE p == f0[k - 1]
             q == f0[k]
  <2>6. /\ Len(p) = Size(k - 1) /\ p = [x \in 1 .. Len(p) |-> p[x]] /\ Len(p) \in Nat
        /\ \A x \in 1 .. Len(p) : p[x] = IF x < t THEN l[x] ELSE l[x + 1]
    BY <2>3, <2>5
  <2>7. q = IF k = t THEN p ELSE Append(p, l[k])
    BY <1>5, <2>3 DEF PickNext
  <2> HIDE DEF p, q
  <2>8. CASE k = t
    <3>1. Size(k - 1) = Size(k)
      BY <2>3, <2>8
    <3>2. QED
      BY <2>1, <2>6, <2>7, <2>8, <3>1 DEF q
  <2>9. CASE k # t
    <3>1. /\ Len(q) = Len(p) + 1 /\ q = [x \in 1 .. Len(q) |-> q[x]]
          /\ \A x \in 1 .. Len(p) : q[x] = p[x]
          /\ q[Len(p) + 1] = l[k]
      BY <2>6, <2>7, <2>9, AppendFacts
    <3>2. Size(k) = Len(p) + 1 /\ (k < t => Len(p) + 1 = k) /\ (~(k < t) => Len(p) + 1 = k - 1 /\ k > t)
      BY <2>3, <2>6, <2>9
    <3>3. ASSUME NEW x \in 1 .. Len(q) PROVE q[x] = IF x < t THEN l[x] ELSE l[x + 1]
      <4>1. CASE x \in 1 .. Len(p)
        BY <2>6, <3>1, <4>1
      <4>2. CASE x = Len(p) + 1
        <5>1. k < t => x = k /\ x < t
          BY <3>2, <4>2
        <5>2. ~(k < t) => x + 1 = k /\ ~(x < t)
          BY <2>3, <3>2, <4>2
        <5>3. QED
          BY <3>1, <4>2, <5>1, <5>2
      <4>3. x \in 1 .. Len(p) \/ x = Len(p) + 1
        BY <2>6, <3>1
      <4>4. QED
        BY <4>1, <4>2, <4>3
    <3>4. Good(k)
      BY <3>1, <3>2, <3>3 DEF q
    <3>5. QED
      BY <2>1, <3>4
  <2>10. QED
    BY <2>8, <2>9
<1>7. CASE S = {}
  <2>1. n \in 0 .. n /\ Size(n) = n - 1
    OBVIOUS
  <2>2. Good(n)
    BY <1>7, <2>1
  <2>3. QED
    BY <1>4, <2>1, <2>2
<1>8. QED
  BY <1>6, <1>7

IsConcat(q, l, m) ==
    /\ Len(q) = Len(l) + Len(m) /\ q = [x \in 1 .. Len(q) |-> q[x]]
    /\ \A x \in 1 .. Len(l) : q[x] = l[x]
    /\ \A x \in 1 .. Len(m) : q[Len(l) + x] = m[x]

LEMMA ConcatFacts ==
    ASSUME NEW l, NEW m, Len(l) \in Nat, l = [x \in 1 .. Len(l) |-> l[x]],
           Len(m) \in Nat, m = [x \in 1 .. Len(m) |-> m[x]]
    PROVE  IsConcat(l \o m, l, m)
<1> DEFINE S == {l[x] : x \in 1 .. Len(l)} \cup {m[x] : x \in 1 .. Len(m)}
           q == l \o m
<1>1. (\A x \in 1 .. Len(l) : l[x] \in S) /\ (\A x \in 1 .. Len(m) : m[x] \in S)
  OBVIOUS
<1> HIDE DEF S
<1>2. l \in [1 .. Len(l) -> S] /\ m \in [1 .. Len(m) -> S]
  BY <1>1
<1>3. l \in Seq(S) /\ m \in Seq(S)
  BY <1>2, SeqDef
<1>4. /\ q \in Seq(S) /\ Len(q) = Len(l) + Len(m)
      /\ \A x \in 1 .. Len(l) : q[x] = l[x]
      /\ \A x \in 1 .. Len(m) : q[Len(l) + x] = m[x]
  BY <1>3, ConcatProperties
<1> HIDE DEF q
<1>5. q \in [1 .. Len(q) -> S]
  BY <1>4, LenProperties
<1>6. q = [x \in 1 .. Len(q) |-> q[x]]
  BY <1>5
<1>7. IsConcat(q, l, m)
  BY <1>4, <1>6 DEF IsConcat
<1>8. QED
  BY <1>7 DEF q

(* A file has as many sections at run time as its two lists have records. *)
LEMMA AllocCount ==
    ASSUME NEW k, Elf(k) \in Image, WellLinked(Elf(k))
    PROVE  Cardinality(AllocSecs(k))
             = Cardinality(OfType(Elf(k), {"mem"})) + Cardinality(OfType(Elf(k), {"flash"}))
<1> DEFINE f == Elf(k)
           T == OfType(f, {"flash", "mem"})
           g == [n \in T |-> f.secs[n]]
<1>1. AllocSecs(k) = {f.secs[n] : n \in T}
  BY DEF AllocSecs, OfType, SecType
<1>2. \A m, n \in T : f.secs[m] = f.secs[n] => m = n
  BY DEF WellLinked, OfType
<1>3. IsFiniteSet(T) /\ Cardinality(OfType(f, {"mem"})) + Cardinality(OfType(f, {"flash"})) = Cardinality(T)
  BY TypeFacts DEF SecCount
<1> DEFINE A == AllocSecs(k)
<1> HIDE DEF T, f
<1>4. g \in Bijection(T, A)
  <2>1. g \in [T -> A] /\ (\A m, n \in T : g[m] = g[n] => m = n) /\ (\A s \in A : \E n \in T : g[n] = s)
    BY <1>1, <1>2
  <2>2. QED
    BY <2>1 DEF Bijection, Injection, Surjection, IsInjective
<1>5. Cardinality(A) = Cardinality(T)
  <2>1. ExistsBijection(T, A)
    BY <1>4 DEF ExistsBijection
  <2> HIDE DEF A
  <2>2. QED
    BY <1>3, <2>1, FS_Bijection
<1>6. QED
  BY <1>3, <1>5 DEF f

(* A record of a loaded file says where the beginning of its section is. *)
LEMMA RecordPlaces ==
    ASSUME RInv, NEW k \in 1 .. Len(Files), InPlace(k, ufiles[k]), ufiles[k].membase \in Nat
    PROVE  LET f == Elf(k)
               F == OfType(f, {"flash"})
               M == OfType(f, {"mem"})
               u == ufiles[k]
           IN  /\ \A n \in 1 .. Cardinality(F) :
                     LET s == f.secs[At(f, F, n)]
                     IN  s \in AllocSecs(k) /\ u.flash[n].name = s.name
                         /\ u.flash[n].adjVma = WordAt(k, s, s.addr)
               /\ \A n \in 1 .. Cardinality(M) :
                     LET s == f.secs[At(f, M, n)]
                     IN  s \in AllocSecs(k) /\ u.mem[n].name = s.name
                         /\ u.mem[n].adjVma = WordAt(k, s, s.addr)
<1> DEFINE f == Elf(k)
           F == OfType(f, {"flash"})
           M == OfType(f, {"mem"})
           u == ufiles[k]
<1>0. f \in Image /\ WellPlaced(f)
  <2>1. Files[k] \in Table
    BY FileFacts DEF RInv, Files
  <2>2. QED
    BY <2>1, FileAt, LayoutAssumption DEF Elf
<1>1. \A n \in 1 .. Cardinality(F) :
          At(f, F, n) \in F /\ IsFlashRecord(f, u.flash[n], f.secs[At(f, F, n)])
  BY <1>0, FlashRecords
<1>2. \A n \in 1 .. Cardinality(M) :
          At(f, M, n) \in M /\ IsMemRecord(f, u.membase, u.mem[n], f.secs[At(f, M, n)])
  BY <1>0, MemRecords
<1>3. /\ \A x \in F : x \in 1 .. Len(f.secs) /\ f.secs[x] \in AllocSecs(k) /\ SecType(f.secs[x]) = "flash"
      /\ \A x \in M : x \in 1 .. Len(f.secs) /\ f.secs[x] \in AllocSecs(k) /\ SecType(f.secs[x]) = "mem"
  BY DEF OfType, AllocSecs, SecType
<1>4. \A x \in M : MemLink(k) = MemSec(f, 1).addr
  BY <1>0, MemLinkIs
<1> HIDE DEF F, M
<1>5. ASSUME NEW n \in 1 .. Cardinality(F)
      PROVE  LET s == f.secs[At(f, F, n)]
             IN  s \in AllocSecs(k) /\ u.flash[n].name = s.name
                 /\ u.flash[n].adjVma = WordAt(k, s, s.addr)
  <2> DEFINE x == At(f, F, n)
             s == f.secs[x]
  <2>1. x \in F /\ u.flash[n].name = s.name /\ u.flash[n].adjVma = f.base + s.off
    BY <1>1 DEF IsFlashRecord
  <2> HIDE DEF x
  <2>2. s \in AllocSecs(k) /\ WordAt(k, s, s.addr) = f.base + s.off + s.addr - s.addr
    BY <1>3, <2>1 DEF WordAt
  <2>3. f.base \in Nat /\ s.off \in Nat /\ s.addr \in Nat
    BY <1>0, <1>3, <2>1, SectionFacts
  <2>4. ASSUME NEW a \in Nat, NEW b \in Nat, NEW d \in Nat PROVE a + b + d - d = a + b
    OBVIOUS
  <2>5. f.base + s.off + s.addr - s.addr = f.base + s.off
    BY <2>3, <2>4
  <2>6. QED
    BY <2>1, <2>2, <2>5 DEF x
<1>6. ASSUME NEW n \in 1 .. Cardinality(M)
      PROVE  LET s == f.secs[At(f, M, n)]
             IN  s \in AllocSecs(k) /\ u.mem[n].name = s.name
                 /\ u.mem[n].adjVma = WordAt(k, s, s.addr)
  <2> DEFINE x == At(f, M, n)
             s == f.secs[x]
  <2>1. x \in M /\ u.mem[n].name = s.name /\ u.mem[n].adjVma = u.membase + s.addr - MemSec(f, 1).addr
    BY <1>2 DEF IsMemRecord
  <2> HIDE DEF x
  <2>2. s \in AllocSecs(k) /\ WordAt(k, s, s.addr) = u.membase + s.addr - MemLink(k)
    BY <1>3, <2>1 DEF WordAt
  <2>3. QED
    BY <1>4, <2>1, <2>2 DEF x
<1>7. QED
  BY <1>5, <1>6 DEF F, M

(* The search in a list finds a record with the name, or there is none. *)
LEMMA FindFacts ==
    ASSUME NEW l, NEW name, Len(l) \in Nat
    PROVE  LET m == FindByName(l, name)
           IN  /\ m # 0 => m \in 1 .. Len(l) /\ l[m].name = name
               /\ m = 0 => \A n \in 1 .. Len(l) : l[n].name # name
<1> DEFINE I == {n \in 1 .. Len(l) : l[n].name = name}
<1>1. CASE I = {}
  <2>1. FindByName(l, name) = 0
    BY <1>1 DEF FindByName, SelectInSeq
  <2>2. QED
    BY <1>1, <2>1
<1>2. CASE I # {}
  <2>1. FindByName(l, name) = Min(I)
    BY <1>2 DEF FindByName, SelectInSeq
  <2>2. I \subseteq Nat
    OBVIOUS
  <2>3. \E x \in I : \A y \in I : x <= y
    BY <1>2, <2>2, LowestExists
  <2>4. Min(I) \in I
    BY <2>3 DEF Min
  <2>5. QED
    BY <2>1, <2>4
<1>3. QED
  BY <1>1, <1>2

(* In a loaded file the copy of .text is the one record of that name among those
   of its flash sections; there is none where the file has no .text. *)
HasText(k) == SectionByName(Elf(k), ".text") # 0
IsText(l, t) == t \in 1 .. Len(l) /\ \A n \in 1 .. Len(l) : l[n].name = ".text" <=> n = t

LEMMA TextFound ==
    ASSUME RInv, NEW k \in 1 .. Len(Files), InPlace(k, ufiles[k]), ufiles[k].membase \in Nat
    PROVE  LET text == CopySecByName(ufiles[k], Elf(k), ".text")
           IN  /\ ~HasText(k) => text = <<>>
               /\ HasText(k) => \E t : IsText(ufiles[k].flash, t) /\ text = <<ufiles[k].flash[t]>>
<1> DEFINE f == Elf(k)
           F == OfType(f, {"flash"})
           l == ufiles[k].flash
           h == SectionByName(f, ".text")
           t == FindByName(l, ".text")
<1>1. f \in Image /\ WellPlaced(f) /\ WellLinked(f)
  <2>1. Files[k] \in Table
    BY FileFacts DEF RInv, Files
  <2>2. QED
    BY <2>1, FileAt, LayoutAssumption DEF Elf
<1>2. /\ Len(l) = Cardinality(F) /\ Cardinality(F) \in Nat
      /\ \A n \in 1 .. Cardinality(F) : At(f, F, n) \in F /\ l[n].name = f.secs[At(f, F, n)].name
  BY <1>1, FlashRecords, ZenonT(40) DEF IsFlashRecord
<1>3. F \subseteq 1 .. Len(f.secs) /\ \A a \in F : \E n \in 1 .. Cardinality(F) : At(f, F, n) = a
  <2>1. F \subseteq 1 .. Len(f.secs)
    BY DEF OfType
  <2> HIDE DEF F
  <2>2. QED
    BY <1>1, <2>1, SortedFacts
<1>4. /\ h # 0 => h \in 1 .. Len(f.secs) /\ f.secs[h].name = ".text"
      /\ h = 0 => \A m \in 1 .. Len(f.secs) : f.secs[m].name # ".text"
  <2>1. Len(f.secs) \in Nat
    BY <1>1, ImageFacts
  <2>2. QED
    BY <1>1, <2>1, ByNameFacts
<1>5. /\ t # 0 => t \in 1 .. Len(l) /\ l[t].name = ".text"
      /\ t = 0 => \A n \in 1 .. Len(l) : l[n].name # ".text"
  BY <1>2, FindFacts
<1>6. h # 0 => h \in F
  <2>1. h # 0 => f.secs[h].alloc
    BY <1>1, <1>4 DEF WellPlaced
  <2>2. QED
    BY <1>4, <2>1 DEF OfType, SecType, MemNames
<1>7. \A m, n \in 1 .. Len(f.secs) : f.secs[m].name = f.secs[n].name => m = n
  BY <1>1 DEF WellLinked
<1>8. HasText(k) <=> h # 0
  BY DEF HasText
<1>9. CopySecByName(ufiles[k], f, ".text")
        = IF t # 0 THEN <<l[t]>> ELSE IF h # 0 THEN <<CreateSection(f, h)>> ELSE <<>>
  BY DEF CopySecByName
<1> HIDE DEF F, f, h, t, l
<1>10. CASE h = 0
  <2>1. t = 0
    BY <1>2, <1>3, <1>4, <1>5, <1>10
  <2>2. QED
    BY <1>8, <1>9, <1>10, <2>1 DEF f
<1>11. CASE h # 0
  <2>1. PICK n \in 1 .. Cardinality(F) : At(f, F, n) = h
    BY <1>3, <1>6, <1>11
  <2>2. t # 0
    <3>1. n \in 1 .. Len(l) /\ l[n].name = f.secs[h].name
      BY <1>2, <2>1
    <3>2. l[n].name = ".text"
      BY <1>4, <1>11, <3>1
    <3>3. QED
      BY <1>5, <3>1, <3>2
  <2>3. ASSUME NEW m \in 1 .. Len(l), l[m].name = ".text" PROVE At(f, F, m) = h
    <3> DEFINE x == At(f, F, m)
    <3>1. x \in F /\ l[m].name = f.secs[x].name
      BY <1>2
    <3> HIDE DEF x
    <3>2. x \in 1 .. Len(f.secs) /\ f.secs[x].name = ".text"
      BY <1>3, <2>3, <3>1
    <3>3. x = h
      BY <1>4, <1>7, <1>11, <3>2
    <3>4. QED
      BY <3>3 DEF x
  <2>4. \A m \in 1 .. Len(l) : l[m].name = ".text" => m = t
    BY <1>1, <1>2, <1>3, <1>5, <2>2, <2>3, AtInjective
  <2>5. IsText(l, t)
    BY <1>5, <2>2, <2>4 DEF IsText
  <2>6. QED
    BY <1>8, <1>9, <1>11, <2>2, <2>5 DEF f, l
<1>12. QED
  BY <1>10, <1>11

(* The command g says of file k what it should. *)
Told(k, g) ==
    /\ g.file = k
    /\ Len(g.secs) = Cardinality(AllocSecs(k))
    /\ g.secs[1][1] = ".text"
    /\ {g.secs[n] : n \in 1 .. Len(g.secs)} = {<<s.name, WordAt(k, s, s.addr)>> : s \in AllocSecs(k)}

(* Each record of a file is in its command once, in the order of the two lists but
   for .text, which is first. *)
Ordered(q, l, m, t) ==
    /\ Len(q) = Len(l) + Len(m) /\ q[1] = l[t]
    /\ \A n \in 1 .. Len(q) : \/ \E x \in 1 .. Len(l) : q[n] = l[x]
                              \/ \E x \in 1 .. Len(m) : q[n] = m[x]
    /\ \A x \in 1 .. Len(l) : \E n \in 1 .. Len(q) : q[n] = l[x]
    /\ \A x \in 1 .. Len(m) : \E n \in 1 .. Len(q) : q[n] = m[x]

LEMMA CommandOrder ==
    ASSUME NEW l, Len(l) \in Nat, l = [n \in 1 .. Len(l) |-> l[n]],
           NEW m, Len(m) \in Nat, m = [n \in 1 .. Len(m) |-> m[n]],
           NEW t, IsText(l, t)
    PROVE  Ordered(<<l[t]>> \o ButText(l) \o m, l, m, t)
<1> DEFINE a == <<l[t]>>
           b == ButText(l)
           d == a \o b
           q == d \o m
<1>1. t \in 1 .. Len(l) /\ \A n \in 1 .. Len(l) : l[n].name = ".text" <=> n = t
  BY DEF IsText
<1>2. /\ Len(b) = Len(l) - 1 /\ b = [x \in 1 .. Len(b) |-> b[x]]
      /\ \A x \in 1 .. Len(b) : b[x] = IF x < t THEN l[x] ELSE l[x + 1]
  BY <1>1, ButTextFacts
<1>3. Len(a) = 1 /\ a[1] = l[t] /\ a = [x \in 1 .. Len(a) |-> a[x]]
  OBVIOUS
<1>4. Len(b) \in Nat
  BY <1>1, <1>2
<1> HIDE DEF a, b
<1>5. Len(a) \in Nat
  BY <1>3
<1>6. IsConcat(d, a, b)
  BY <1>2, <1>3, <1>4, <1>5, ConcatFacts
<1> HIDE DEF d
<1>7. /\ Len(d) = Len(a) + Len(b) /\ d = [x \in 1 .. Len(d) |-> d[x]]
      /\ \A x \in 1 .. Len(a) : d[x] = a[x]
      /\ \A x \in 1 .. Len(b) : d[Len(a) + x] = b[x]
  BY <1>6 DEF IsConcat
<1>8. Len(d) = Len(l) /\ d[1] = l[t] /\ \A x \in 1 .. Len(b) : d[1 + x] = b[x]
  BY <1>1, <1>2, <1>3, <1>7
<1>9. IsConcat(q, d, m)
  BY <1>7, <1>8, ConcatFacts
<1> HIDE DEF q
<1>10. /\ Len(q) = Len(l) + Len(m)
       /\ \A x \in 1 .. Len(l) : q[x] = d[x]
       /\ \A x \in 1 .. Len(m) : q[Len(l) + x] = m[x]
  BY <1>8, <1>9 DEF IsConcat
<1>11. q[1] = l[t]
  BY <1>1, <1>8, <1>10
<1>12. ASSUME NEW n \in 1 .. Len(l) PROVE \E x \in 1 .. Len(l) : d[n] = l[x]
  <2>1. CASE n = 1
    BY <1>1, <1>8, <2>1
  <2>2. CASE n # 1
    <3>1. n - 1 \in 1 .. Len(b) /\ 1 + (n - 1) = n
      BY <1>2, <2>2
    <3>2. d[n] = b[n - 1]
      BY <1>8, <3>1
    <3>3. d[n] = l[n - 1] \/ d[n] = l[n]
      BY <1>2, <3>1, <3>2
    <3>4. n - 1 \in 1 .. Len(l)
      BY <2>2
    <3>5. QED
      BY <3>3, <3>4
  <2>3. QED
    BY <2>1, <2>2
<1>13. ASSUME NEW x \in 1 .. Len(l) PROVE \E n \in 1 .. Len(l) : d[n] = l[x]
  <2>1. CASE x = t
    BY <1>1, <1>8, <2>1
  <2>2. CASE x < t
    <3>1. x \in 1 .. Len(b) /\ 1 + x \in 1 .. Len(l)
      BY <1>1, <1>2, <2>2
    <3>2. d[1 + x] = l[x]
      BY <1>2, <1>8, <2>2, <3>1
    <3>3. QED
      BY <3>1, <3>2
  <2>3. CASE t < x
    <3>1. x - 1 \in 1 .. Len(b) /\ 1 + (x - 1) = x /\ x - 1 + 1 = x /\ ~(x - 1 < t)
      BY <1>1, <1>2, <2>3
    <3>2. b[x - 1] = l[x]
      BY <1>2, <3>1
    <3>3. d[x] = l[x]
      BY <1>8, <3>1, <3>2
    <3>4. QED
      BY <3>3
  <2>4. QED
    BY <1>1, <2>1, <2>2, <2>3
<1>14. ASSUME NEW n \in 1 .. Len(q)
       PROVE  \/ \E x \in 1 .. Len(l) : q[n] = l[x]
              \/ \E x \in 1 .. Len(m) : q[n] = m[x]
  <2>1. CASE n \in 1 .. Len(l)
    BY <1>10, <1>12, <2>1
  <2>2. CASE n \notin 1 .. Len(l)
    <3>1. ASSUME NEW a0 \in Nat, NEW b0 \in Nat, NEW j \in 1 .. a0 + b0, j \notin 1 .. a0
          PROVE  j - a0 \in 1 .. b0 /\ a0 + (j - a0) = j
      BY <3>1
    <3>2. n \in 1 .. Len(l) + Len(m)
      BY <1>10
    <3>3. n - Len(l) \in 1 .. Len(m) /\ Len(l) + (n - Len(l)) = n
      BY <2>2, <3>1, <3>2
    <3> DEFINE z == n - Len(l)
    <3> HIDE DEF z
    <3>4. z \in 1 .. Len(m) /\ Len(l) + z = n
      BY <3>3 DEF z
    <3>5. \A x \in 1 .. Len(m) : q[Len(l) + x] = m[x]
      BY <1>10, Zenon
    <3>6. q[Len(l) + z] = m[z]
      BY <3>4, <3>5, Zenon
    <3>7. QED
      BY <3>4, <3>6
  <2>3. QED
    BY <2>1, <2>2
<1>15. ASSUME NEW x \in 1 .. Len(l) PROVE \E n \in 1 .. Len(q) : q[n] = l[x]
  <2>1. PICK n \in 1 .. Len(l) : d[n] = l[x]
    BY <1>13
  <2>2. n \in 1 .. Len(q) /\ q[n] = l[x]
    BY <1>10, <2>1
  <2>3. QED
    BY <2>2
<1>16. ASSUME NEW x \in 1 .. Len(m) PROVE \E n \in 1 .. Len(q) : q[n] = m[x]
  <2>1. ASSUME NEW a0 \in Nat, NEW b0 \in Nat, NEW j \in 1 .. b0
        PROVE  a0 + j \in 1 .. a0 + b0
    OBVIOUS
  <2>2. Len(l) + x \in 1 .. Len(q)
    BY <1>10, <2>1
  <2>3. q[Len(l) + x] = m[x]
    BY <1>10, Zenon
  <2>4. QED
    BY <2>2, <2>3
<1>17. Ordered(q, l, m, t)
  BY <1>10, <1>11, <1>14, <1>15, <1>16 DEF Ordered
<1>18. QED
  BY <1>17 DEF q, d, a, b

(* uld_fprint_gdb_sym_cmd: the command for a loaded file says what it should. *)
LEMMA CommandTold ==
    ASSUME RInv, NEW k \in 1 .. Len(Files), InPlace(k, ufiles[k]), ufiles[k].membase \in Nat,
           HasText(k)
    PROVE  Told(k, GdbCommand(k, CopySecByName(ufiles[k], Elf(k), ".text")[1]))
<1> DEFINE f == Elf(k)
           F == OfType(f, {"flash"})
           M == OfType(f, {"mem"})
           l == ufiles[k].flash
           m == ufiles[k].mem
           A == AllocSecs(k)
           W(s) == <<s.name, WordAt(k, s, s.addr)>>
           P(r) == <<r.name, r.adjVma>>
<1>1. PICK t : IsText(l, t) /\ CopySecByName(ufiles[k], f, ".text") = <<l[t]>>
  BY TextFound
<1>2. CopySecByName(ufiles[k], f, ".text")[1] = l[t]
  BY <1>1
<1> DEFINE q == <<l[t]>> \o ButText(l) \o m
           g == [file |-> k, secs |-> [n \in 1 .. Len(q) |-> P(q[n])]]
<1>3. GdbCommand(k, CopySecByName(ufiles[k], f, ".text")[1]) = g
  BY <1>2 DEF GdbCommand, Command
<1>4. f \in Image /\ WellPlaced(f) /\ WellLinked(f)
  <2>1. Files[k] \in Table
    BY FileFacts DEF RInv, Files
  <2>2. QED
    BY <2>1, FileAt, LayoutAssumption DEF Elf
<1>5. Len(l) = Cardinality(F) /\ Cardinality(F) \in Nat /\ l = [n \in 1 .. Len(l) |-> l[n]]
  BY <1>4, FlashRecords
<1>6. Len(m) = Cardinality(M) /\ Cardinality(M) \in Nat /\ m = [n \in 1 .. Len(m) |-> m[n]]
  BY <1>4, MemRecords
<1>7. Cardinality(A) = Len(l) + Len(m)
  <2>1. Cardinality(A) = Cardinality(M) + Cardinality(F)
    BY <1>4, AllocCount
  <2> HIDE DEF F, M
  <2>2. ASSUME NEW x \in Nat, NEW y \in Nat PROVE x + y = y + x
    OBVIOUS
  <2>3. QED
    BY <1>5, <1>6, <2>1, <2>2
<1>8. /\ \A n \in 1 .. Cardinality(F) : f.secs[At(f, F, n)] \in A /\ P(l[n]) = W(f.secs[At(f, F, n)])
      /\ \A n \in 1 .. Cardinality(M) : f.secs[At(f, M, n)] \in A /\ P(m[n]) = W(f.secs[At(f, M, n)])
  BY RecordPlaces
<1>9. \A s \in A : \E x : x \in F \cup M /\ s = f.secs[x]
  BY DEF AllocSecs, OfType, SecType
<1>10. /\ F \subseteq 1 .. Len(f.secs) /\ M \subseteq 1 .. Len(f.secs)
  BY DEF OfType
<1>11. /\ \A a \in F : \E n \in 1 .. Cardinality(F) : At(f, F, n) = a
       /\ \A a \in M : \E n \in 1 .. Cardinality(M) : At(f, M, n) = a
  <2> HIDE DEF F, M
  <2>1. QED
    BY <1>4, <1>10, SortedFacts, ZenonT(40)
<1> HIDE DEF F, M, A, W, f
<1>12. /\ \A n \in 1 .. Len(l) : \E s \in A : P(l[n]) = W(s)
       /\ \A n \in 1 .. Len(m) : \E s \in A : P(m[n]) = W(s)
  BY <1>5, <1>6, <1>8
<1>13. ASSUME NEW s \in A
       PROVE  \/ \E n \in 1 .. Len(l) : P(l[n]) = W(s)
              \/ \E n \in 1 .. Len(m) : P(m[n]) = W(s)
  <2>1. PICK x : x \in F \cup M /\ s = f.secs[x]
    BY <1>9
  <2>2. CASE x \in F
    <3>1. PICK n \in 1 .. Cardinality(F) : At(f, F, n) = x
      BY <1>11, <2>2
    <3>2. P(l[n]) = W(s)
      BY <1>8, <2>1, <3>1
    <3>3. QED
      BY <1>5, <3>2
  <2>3. CASE x \in M
    <3>1. PICK n \in 1 .. Cardinality(M) : At(f, M, n) = x
      BY <1>11, <2>3
    <3>2. P(m[n]) = W(s)
      BY <1>8, <2>1, <3>1
    <3>3. QED
      BY <1>6, <3>2
  <2>4. QED
    BY <2>1, <2>2, <2>3
<1>14. Len(l) \in Nat /\ Len(m) \in Nat /\ t \in 1 .. Len(l) /\ l[t].name = ".text"
  BY <1>1, <1>5, <1>6 DEF IsText
<1> HIDE DEF l, m
<1>15. Ordered(q, l, m, t)
  BY <1>1, <1>5, <1>6, <1>14, CommandOrder
<1> HIDE DEF q
<1>16. /\ Len(q) = Len(l) + Len(m) /\ q[1] = l[t]
       /\ \A n \in 1 .. Len(q) : \/ \E x \in 1 .. Len(l) : q[n] = l[x]
                                 \/ \E x \in 1 .. Len(m) : q[n] = m[x]
       /\ \A x \in 1 .. Len(l) : \E n \in 1 .. Len(q) : q[n] = l[x]
       /\ \A x \in 1 .. Len(m) : \E n \in 1 .. Len(q) : q[n] = m[x]
  BY <1>15 DEF Ordered
<1>17. Len(q) \in Nat /\ 1 \in 1 .. Len(q)
  BY <1>16, <1>14
<1> DEFINE w == [n \in 1 .. Len(q) |-> P(q[n])]
<1>18. g.file = k /\ g.secs = w
  OBVIOUS
<1>19. Len(w) = Len(q) /\ \A n \in 1 .. Len(w) : w[n] = P(q[n])
  <2> HIDE DEF P
  <2>1. QED
    BY <1>17
<1> HIDE DEF w, g
<1>20. w[1][1] = ".text"
  <2>1. w[1] = P(l[t])
    BY <1>16, <1>17, <1>19
  <2>2. P(l[t])[1] = l[t].name
    OBVIOUS
  <2>3. QED
    BY <1>14, <2>1, <2>2
<1> HIDE DEF P
<1>21. {w[n] : n \in 1 .. Len(w)} = {W(s) : s \in A}
  <2>1. ASSUME NEW n \in 1 .. Len(w) PROVE \E s \in A : w[n] = W(s)
    <3>1. n \in 1 .. Len(q) /\ w[n] = P(q[n])
      BY <1>19
    <3>2. CASE \E x \in 1 .. Len(l) : q[n] = l[x]
      BY <1>12, <3>1, <3>2
    <3>3. CASE \E x \in 1 .. Len(m) : q[n] = m[x]
      BY <1>12, <3>1, <3>3
    <3>4. QED
      BY <1>16, <3>1, <3>2, <3>3
  <2>2. ASSUME NEW s \in A PROVE \E n \in 1 .. Len(w) : w[n] = W(s)
    <3>1. CASE \E n \in 1 .. Len(l) : P(l[n]) = W(s)
      BY <1>16, <1>19, <3>1, SMTT(20)
    <3>2. CASE \E n \in 1 .. Len(m) : P(m[n]) = W(s)
      BY <1>16, <1>19, <3>2
    <3>3. QED
      BY <1>13, <3>1, <3>2
  <2>3. QED
    BY <2>1, <2>2
<1>22. Told(k, g)
  BY <1>7, <1>16, <1>18, <1>19, <1>20, <1>21 DEF Told, A, W
<1>23. QED
  BY <1>3, <1>22 DEF f

(* The first file of the list that has no .text, or 0. *)
Bare == SelectInSeq(Files, LAMBDA t : SectionByName(File[t].elf, ".text") = 0)
Due == IF Bare = 0 THEN Len(Files) ELSE Bare - 1

LEMMA BareFacts ==
    ASSUME RInv
    PROVE  /\ (\A k \in 1 .. Len(Files) : HasText(k)) => Bare = 0
           /\ \A k \in 1 .. Len(Files) :
                 ~HasText(k) /\ (\A m \in 1 .. Len(Files) : m < k => HasText(m)) => Bare = k
<1> DEFINE I == {k \in 1 .. Len(Files) : SectionByName(File[Files[k]].elf, ".text") = 0}
<1>0. Len(Files) \in Nat
  BY DEF RInv
<1>1. \A k \in 1 .. Len(Files) : k \in I <=> ~HasText(k)
  BY DEF HasText, Elf
<1>2. Bare = IF I = {} THEN 0 ELSE Min(I)
  BY DEF Bare, SelectInSeq
<1>3. I \subseteq 1 .. Len(Files)
  OBVIOUS
<1> HIDE DEF I
<1>4. ASSUME NEW k \in I, \A m \in I : k <= m PROVE Min(I) = k
  <2>1. Min(I) \in I /\ \A m \in I : Min(I) <= m
    BY <1>4 DEF Min
  <2> DEFINE a == Min(I)
  <2>2. a \in I /\ \A m \in I : a <= m
    BY <2>1
  <2> HIDE DEF a
  <2>3. a <= k /\ k <= a
    BY <1>4, <2>2
  <2>4. a = k
    BY <1>3, <1>4, <2>2, <2>3
  <2>5. QED
    BY <2>4 DEF a
<1>5. ASSUME NEW k \in 1 .. Len(Files), ~HasText(k),
             \A m \in 1 .. Len(Files) : m < k => HasText(m)
      PROVE  Bare = k
  <2>1. k \in I
    BY <1>1, <1>5
  <2>2. ASSUME NEW m \in I PROVE k <= m
    <3>1. m \in 1 .. Len(Files) /\ ~HasText(m)
      BY <1>1, <1>3
    <3>2. ~(m < k)
      BY <1>5, <3>1
    <3>3. QED
      BY <1>0, <3>1, <3>2
  <2>3. QED
    BY <1>2, <1>4, <2>1, <2>2
<1>6. (\A k \in 1 .. Len(Files) : HasText(k)) => I = {}
  BY <1>1, <1>3
<1>7. QED
  BY <1>2, <1>5, <1>6

(* The commands so far are for the first files, which all have a .text, and no
   code of a file runs before the last one is printed. *)
DInv ==
    /\ Len(gdb) \in Nat /\ gdb = [n \in 1 .. Len(gdb) |-> gdb[n]]
    /\ \A k \in 1 .. Len(gdb) : Told(k, gdb[k])
    /\ pc \in {"count", "build", "load", "link"} => gdb = <<>>
    /\ pc = "gdb" => Len(gdb) = i - 1 /\ \A k \in 1 .. i - 1 : HasText(k)
    /\ pc \in {"init", "entered"} \/ calls # <<>> => Len(gdb) = Due

LEMMA ToldKept ==
    ASSUME UNCHANGED <<prog, ufiles>>
    PROVE  /\ \A k, g : Told(k, g)' <=> Told(k, g)
           /\ \A k : HasText(k)' <=> HasText(k)
           /\ Due' = Due /\ Bare' = Bare
<1>1. Files' = Files /\ \A k : Elf(k)' = Elf(k)
  BY DEF Files, Elf
<1>2. \A k : AllocSecs(k)' = AllocSecs(k)
  BY <1>1 DEF AllocSecs
<1>3. \A k : MemLink(k)' = MemLink(k)
  BY <1>2 DEF MemLink
<1>4. \A k, s, a : WordAt(k, s, a)' = WordAt(k, s, a)
  BY <1>1, <1>3 DEF WordAt
<1>5. Bare' = Bare
  BY <1>1 DEF Bare, SelectInSeq
<1>6. \A k, g : Told(k, g)' <=> Told(k, g)
  BY <1>2, <1>4 DEF Told
<1>7. QED
  BY <1>1, <1>5, <1>6 DEF HasText, Due

LEMMA DPrint ==
    ASSUME RInv, KInv, TInv, WInv, DInv, PrintGdbSymCmd
    PROVE  DInv'
<1>1. /\ pc = "gdb" /\ i <= idx /\ ufiles[i].fse # 0
      /\ UNCHANGED <<prog, ufiles, calls>>
  BY DEF PrintGdbSymCmd, listVars, loadVars
<1>2. /\ i \in Nat \ {0} /\ idx = depCount /\ depCount = Len(Files) /\ Len(Files) \in Nat
      /\ calls = <<>>
  BY <1>1 DEF RInv, TInv, Later
<1>3. i \in 1 .. Len(Files) /\ i \in 1 .. depCount
  BY <1>1, <1>2
<1>4. InPlace(i, ufiles[i]) /\ ufiles[i].membase \in Nat
  BY <1>1, <1>3 DEF WInv, KInv, Later
<1> DEFINE text == CopySecByName(ufiles[i], Elf(i), ".text")
           g == GdbCommand(i, text[1])
<1>5. (~HasText(i) => text = <<>>) /\ (HasText(i) => text # <<>>)
  <2>1. /\ ~HasText(i) => text = <<>>
        /\ HasText(i) => \E t : IsText(ufiles[i].flash, t) /\ text = <<ufiles[i].flash[t]>>
    BY <1>3, <1>4, TextFound
  <2>2. \A r : <<r>> # <<>>
    OBVIOUS
  <2> HIDE DEF text
  <2>3. QED
    BY <2>1, <2>2
<1>6. /\ Len(gdb) \in Nat /\ gdb = [n \in 1 .. Len(gdb) |-> gdb[n]]
      /\ \A k \in 1 .. Len(gdb) : Told(k, gdb[k])
      /\ Len(gdb) = i - 1 /\ \A k \in 1 .. i - 1 : HasText(k)
  BY <1>1 DEF DInv
<1>7. /\ \A k, e : Told(k, e)' <=> Told(k, e)
      /\ \A k : HasText(k)' <=> HasText(k)
      /\ Due' = Due
  BY <1>1, ToldKept
<1>8. CASE text # <<>>
  <2>1. gdb' = Append(gdb, g) /\ i' = i + 1 /\ pc' = pc
    BY <1>8 DEF PrintGdbSymCmd
  <2>2. HasText(i)
    BY <1>5, <1>8
  <2>3. Told(i, g)
    BY <1>3, <1>4, <2>2, CommandTold
  <2> HIDE DEF g
  <2>4. /\ Len(gdb') = Len(gdb) + 1 /\ gdb' = [n \in 1 .. Len(gdb') |-> gdb'[n]]
        /\ \A n \in 1 .. Len(gdb) : gdb'[n] = gdb[n]
        /\ gdb'[Len(gdb) + 1] = g
    BY <1>6, <2>1, AppendFacts
  <2>5. Len(gdb') = i /\ gdb'[i] = g /\ \A n \in 1 .. i - 1 : gdb'[n] = gdb[n]
    BY <1>2, <1>6, <2>4
  <2>6. ASSUME NEW k \in 1 .. Len(gdb') PROVE Told(k, gdb'[k])
    <3>1. CASE k = i
      BY <2>3, <2>5, <3>1
    <3>2. CASE k # i
      <4>1. k \in 1 .. i - 1
        BY <1>2, <2>5, <3>2
      <4>2. QED
        BY <1>6, <2>5, <4>1
    <3>3. QED
      BY <3>1, <3>2
  <2>7. ASSUME NEW k \in 1 .. i' - 1 PROVE HasText(k)
    BY <1>2, <1>6, <2>1, <2>2
  <2>8. Len(gdb') \in Nat /\ Len(gdb') = i' - 1
    BY <1>2, <2>1, <2>5
  <2>9. \A k \in 1 .. Len(gdb') : Told(k, gdb[k])'
    BY <1>7, <2>6
  <2>10. QED
    BY <1>1, <1>2, <1>7, <2>1, <2>4, <2>7, <2>8, <2>9 DEF DInv
<1>9. CASE text = <<>>
  <2>1. gdb' = gdb /\ pc' = "init"
    BY <1>9 DEF PrintGdbSymCmd
  <2>2. \A m \in 1 .. Len(Files) : m < i => HasText(m)
    BY <1>2, <1>6
  <2>3. Bare = i
    BY <1>3, <1>5, <1>9, <2>2, BareFacts
  <2>4. Len(gdb) = Due
    BY <1>2, <1>6, <2>3 DEF Due
  <2>5. QED
    BY <1>6, <1>7, <2>1, <2>4 DEF DInv
<1>10. QED
  BY <1>8, <1>9

LEMMA DOther ==
    ASSUME RInv, KInv, TInv, WInv, DInv, [Next]_vars, ~PrintGdbSymCmd
    PROVE  DInv'
<1>1. CASE pc \in {"count", "build", "load", "link"}
  <2>1. /\ gdb' = gdb /\ calls' = calls
        /\ pc' \in {"count", "build", "load", "link", "gdb", "wild"}
        /\ pc' = "gdb" => i' = 1
    BY <1>1 DEF Next, vars, CountDeps, BuildList, LoadFile, NoRoom, LoadDone, LinkFile, LinkFails,
                LinkDone, PrintGdbSymCmd, PrintGdbDone, NoSuchFile, CallInitFunc, NextInitFile,
                ExecFile, Stopped
  <2>2. gdb = <<>> /\ calls = <<>>
    BY <1>1 DEF DInv, TInv
  <2>3. gdb' = <<>> /\ calls' = <<>> /\ Len(gdb') = 0 /\ gdb' = [n \in 1 .. Len(gdb') |-> gdb'[n]]
    BY <2>1, <2>2
  <2>4. QED
    BY <2>1, <2>3 DEF DInv
<1>2. CASE pc \notin {"count", "build", "load", "link"}
  <2>1. /\ UNCHANGED <<prog, ufiles, gdb>>
        /\ pc' \notin {"count", "build", "load", "link"}
        /\ pc' = "gdb" => pc = "gdb" /\ i' = i
        /\ pc' \in {"init", "entered"} => pc \in {"init", "entered"} \/ PrintGdbDone
        /\ calls' # <<>> => calls # <<>> \/ pc = "init"
    BY <1>2 DEF Next, vars, CountDeps, BuildList, LoadFile, NoRoom, LoadDone, LinkFile, LinkFails,
                LinkDone, PrintGdbDone, NoSuchFile, CallInitFunc, NextInitFile, ExecFile, Stopped,
                listVars, loadVars
  <2>2. /\ \A k, e : Told(k, e)' <=> Told(k, e)
        /\ \A k : HasText(k)' <=> HasText(k)
        /\ Due' = Due
    BY <2>1, ToldKept
  <2>3. PrintGdbDone => Len(gdb) = Due
    <3> SUFFICES ASSUME PrintGdbDone PROVE Len(gdb) = Due
      OBVIOUS
    <3>1. pc = "gdb" /\ i > idx
      BY DEF PrintGdbDone
    <3>2. /\ i \in Nat \ {0} /\ idx = depCount /\ depCount = Len(Files) /\ Len(Files) \in Nat
          /\ i <= Len(Files) + 1
      BY <3>1 DEF RInv, TInv, Later
    <3>3. Len(gdb) = i - 1 /\ \A k \in 1 .. i - 1 : HasText(k)
      BY <3>1 DEF DInv
    <3>4. i - 1 = Len(Files)
      BY <3>1, <3>2
    <3>5. Bare = 0
      BY <3>3, <3>4, BareFacts
    <3>6. QED
      BY <3>3, <3>4, <3>5 DEF Due
  <2>4. QED
    BY <2>1, <2>2, <2>3 DEF DInv
<1>3. QED
  BY <1>1, <1>2

(* uld_fprint_gdb_sym_cmd: before any code of the files runs the debugger has a
   command for each file up to the first without a .text, and each command names
   every section of the file once, .text first, with the place it is at. *)
THEOREM DebuggerIsTold == Spec => []GdbRight
<1>1. Init => DInv
  <2> SUFFICES ASSUME Init PROVE DInv
    OBVIOUS
  <2>1. gdb = <<>> /\ calls = <<>> /\ pc = "count"
    BY DEF Init
  <2>2. Len(gdb) = 0 /\ gdb = [n \in 1 .. Len(gdb) |-> gdb[n]]
    BY <2>1
  <2>3. QED
    BY <2>1, <2>2 DEF DInv
<1>2. RInv /\ KInv /\ TInv /\ WInv /\ DInv /\ [Next]_vars => DInv'
  BY DPrint, DOther
<1>3. DInv => GdbRight
  <2> SUFFICES ASSUME DInv, Len(calls) = 1 PROVE GdbRight
    BY DEF GdbRight
  <2>1. calls # <<>>
    OBVIOUS
  <2>2. Len(gdb) = Due /\ \A k \in 1 .. Len(gdb) : Told(k, gdb[k])
    BY <2>1 DEF DInv
  <2>3. QED
    BY <2>2 DEF GdbRight, Told, Due, Bare
<1>4. QED
  BY <1>1, <1>2, <1>3, PlaceInvariants, PTL DEF Spec
=============================================================================
