---------------------------- MODULE UldDepProofs ----------------------------
(***************************************************************************)
(* Proofs about UldDep, for every file table, every dependency graph over  *)
(* it (cycles and missing libraries included) and every stack depth.       *)
(***************************************************************************)
EXTENDS UldDep, FiniteSetTheorems, SequenceTheorems, TLAPS

(* f is listed once the step has been taken. *)
ListedAfter(f) == \E i \in 1 .. Len(depList') : depList'[i] = f

(* What a call that returns 0 does to the stack: the top frame goes, and its
   caller, if there is one, moves on to its next DT_NEEDED entry. *)
LEMMA ReturnOKShape ==
    ASSUME TypeOK, Walking, ReturnOK
    PROVE  /\ stack' \in Seq(Frame)
           /\ Len(stack') = Len(stack) - 1
           /\ \A k \in 1 .. Len(stack') :
                /\ stack'[k].fse = stack[k].fse
                /\ stack'[k].at = IF k = Len(stack) - 1 THEN stack[k].at + 1
                                  ELSE stack[k].at
<1> DEFINE n == Len(stack) - 1
<1>1. stack \in Seq(Frame) /\ Len(stack) \in Nat /\ n \in Nat
  BY DEF TypeOK, Walking
<1>2. ASSUME NEW k \in 1 .. n
      PROVE  stack[k] \in Frame /\ stack[k].at \in Nat
  <2>1. stack[k] \in Frame
    BY <1>1, <1>2, ElementOfSeq
  <2>2. QED
    BY <2>1 DEF Frame
<1>3. stack' = [k \in 1 .. n |->
                  IF k = n THEN [stack[k] EXCEPT !.at = @ + 1] ELSE stack[k]]
  BY DEF ReturnOK, Advance
<1>4. ASSUME NEW k \in 1 .. n
      PROVE  /\ stack'[k] \in Frame
             /\ stack'[k].fse = stack[k].fse
             /\ stack'[k].at = IF k = n THEN stack[k].at + 1 ELSE stack[k].at
  BY <1>2, <1>3, <1>4 DEF Frame
<1>5. stack' \in Seq(Frame) /\ Len(stack') = n
  <2>1. stack' \in [1 .. n -> Frame]
    BY <1>3, <1>4
  <2>2. QED
    BY <1>1, <2>1, IsASeq, LenProperties
<1>6. QED
  BY <1>4, <1>5

(* The initial state: one call, for the root, and an empty list. *)
LEMMA InitIInv == Init => IInv
<1> SUFFICES ASSUME Init PROVE IInv
  OBVIOUS
<1>1. Cardinality(Files) \in Int
  BY FilesAssumption, FS_CardinalityType
<1>2. TypeOK
  BY <1>1, StoresAssumption DEF Init, TypeOK, Call, Frame
<1>3. Len(stack) = 1 /\ stack[1] = Call(root) /\ Len(depList) = 0
  BY DEF Init
<1>4. DepsFirst /\ NoDuplicates /\ RootLast
  BY <1>3 DEF Init, DepsFirst, NoDuplicates, RootLast
<1>5. StackInv
  <2>1. \A k \in 1 .. Len(stack) : k = 1
    BY <1>3
  <2>2. Len(needed[root]) \in Nat
    BY <1>2 DEF TypeOK
  <2>3. QED
    BY <1>3, <2>1, <2>2 DEF Init, StackInv, FrameInv, CallInv, Call
<1>6. QED
  BY <1>2, <1>4, <1>5 DEF IInv

(* Types of what a walking step reads. *)
LEMMA WalkTypes ==
    ASSUME TypeOK, Walking
    PROVE  /\ Len(stack) \in Nat \ {0} /\ Len(depList) \in Nat
           /\ Len(stack) \in 1 .. Len(stack)
           /\ \A k \in 1 .. Len(stack) :
                stack[k] \in Frame /\ stack[k].fse \in Files /\ stack[k].at \in Nat
           /\ \A f \in Files : /\ Len(needed[f]) \in Nat
                               /\ \A j \in 1 .. Len(needed[f]) :
                                    needed[f][j] \in Files \cup {Missing}
           /\ \A i \in 1 .. Len(depList) : depList[i] \in Files
<1>1. /\ stack \in Seq(Frame) /\ depList \in Seq(Files)
      /\ needed \in [Files -> Seq(Files \cup {Missing})] /\ Len(stack) > 0
  BY DEF TypeOK, Walking
<1>2. Len(stack) \in Nat \ {0} /\ Len(depList) \in Nat
  BY <1>1
<1>3. ASSUME NEW k \in 1 .. Len(stack)
      PROVE  stack[k] \in Frame /\ stack[k].fse \in Files /\ stack[k].at \in Nat
  <2>1. stack[k] \in Frame
    BY <1>1, ElementOfSeq
  <2>2. QED
    BY <2>1 DEF Frame
<1>4. ASSUME NEW f \in Files
      PROVE  /\ Len(needed[f]) \in Nat
             /\ \A j \in 1 .. Len(needed[f]) : needed[f][j] \in Files \cup {Missing}
  <2>1. needed[f] \in Seq(Files \cup {Missing})
    BY <1>1
  <2>2. QED
    BY <2>1, ElementOfSeq, LenProperties
<1>5. \A i \in 1 .. Len(depList) : depList[i] \in Files
  BY <1>1, ElementOfSeq
<1>6. QED
  BY <1>2, <1>3, <1>4, <1>5

(* An error unwinds every call and leaves the list as it is. *)
LEMMA ErrorIInv ==
    ASSUME IInv, Walking, NEW code \in {-2, -1}, ReturnError(code),
           UNCHANGED <<fsVars, pass, listSize, depCount>>
    PROVE  IInv'
<1>1. /\ stack' = <<>> /\ Len(stack') = 0 /\ pc' = "returned" /\ ret' # 0
      /\ depList' = depList /\ needed' = needed /\ root' = root
  BY DEF ReturnError, fsVars
<1>2. TypeOK'
  BY <1>1 DEF IInv, TypeOK, ReturnError, fsVars
<1>3. DepsFirst' /\ NoDuplicates'
  BY <1>1 DEF IInv, DepsFirst, NoDuplicates
<1>4. StackInv' /\ RootLast'
  BY <1>1 DEF StackInv, RootLast
<1>5. QED
  BY <1>2, <1>3, <1>4 DEF IInv

(* Returning 0 to a caller keeps the stack invariant, if the file returned for
   is listed and none of the files below it is. *)
LEMMA PopStackInv ==
    ASSUME IInv, Walking, ReturnOK, needed' = needed, root' = root, Len(stack) > 1,
           \A f : Listed(f) => ListedAfter(f), ListedAfter(Top.fse),
           \A k \in 1 .. Len(stack) - 1 : ~ListedAfter(stack[k].fse)
    PROVE  StackInv'
<1> DEFINE n == Len(stack)
<1>0. TypeOK
  BY DEF IInv
<1>1. /\ Len(stack') = n - 1
      /\ \A k \in 1 .. n - 1 :
           /\ stack'[k].fse = stack[k].fse
           /\ stack'[k].at = IF k = n - 1 THEN stack[k].at + 1 ELSE stack[k].at
  BY <1>0, ReturnOKShape
<1>2. n \in Nat /\ n > 1 /\ pc' = "walk"
  <2>1. Len(stack) \in Nat \ {0}
    BY <1>0, WalkTypes
  <2>2. n \in Nat /\ n > 1
    BY <2>1
  <2>3. pc' = "walk"
    BY <2>2 DEF ReturnOK
  <2>4. QED
    BY <2>2, <2>3
<1>3. ASSUME NEW k \in 1 .. n - 1
      PROVE  /\ stack[k].at \in Nat /\ Len(needed[stack[k].fse]) \in Nat
             /\ k \in 1 .. n /\ FrameInv(k) /\ CallInv(k)
  <2>1. k \in 1 .. n
    BY <1>2
  <2>2. QED
    BY <1>0, <2>1, WalkTypes DEF IInv, StackInv
<1>4. ASSUME NEW k \in 1 .. n - 1
      PROVE  FrameInv(k)'
  <2>1. stack'[k].at <= Len(needed[stack[k].fse]) + 1
    <3>1. stack[k].at \in 1 .. Len(needed[stack[k].fse])
      BY <1>3 DEF CallInv
    <3>2. stack'[k].at = stack[k].at + 1 \/ stack'[k].at = stack[k].at
      BY <1>1
    <3>3. QED
      BY <1>3, <3>1, <3>2
  <2>2. ASSUME NEW j \in 1 .. stack'[k].at - 1
        PROVE  ListedAfter(needed[stack[k].fse][j])
    <3>1. CASE k = n - 1 /\ j = stack[k].at
      <4>1. needed[stack[k].fse][j] = stack[n].fse
        BY <1>2, <1>3, <3>1 DEF CallInv
      <4>2. QED
        BY <4>1 DEF Top
    <3>2. CASE ~(k = n - 1 /\ j = stack[k].at)
      <4>1. j \in 1 .. stack[k].at - 1
        BY <1>1, <1>3, <3>2
      <4>2. QED
        BY <1>3, <4>1 DEF FrameInv
    <3>3. QED
      BY <3>1, <3>2
  <2>3. stack'[k].fse = stack[k].fse /\ ~ListedAfter(stack[k].fse)
    BY <1>1
  <2>4. QED
    BY <2>1, <2>2, <2>3, Zenon DEF FrameInv, Listed, ListedAfter
<1>5. ASSUME NEW k \in 1 .. n - 2
      PROVE  CallInv(k)'
  <2>1. k \in 1 .. n - 1 /\ k + 1 \in 1 .. n - 1 /\ k # n - 1
    BY <1>2
  <2>2. stack'[k].at = stack[k].at /\ stack'[k].fse = stack[k].fse
        /\ stack'[k + 1].fse = stack[k + 1].fse
    BY <1>1, <2>1
  <2>3. QED
    BY <1>3, <2>1, <2>2 DEF CallInv
<1>6. stack'[1].at # 0 /\ stack'[1].fse = root
  <2>1. 1 \in 1 .. n - 1
    BY <1>2
  <2>2. stack[1].at # 0 /\ stack[1].fse = root
    BY <1>2, <1>3, <2>1 DEF IInv, StackInv, CallInv
  <2>3. QED
    BY <1>1, <1>3, <2>1, <2>2
<1>7. (Len(stack') - 1) = n - 2
  BY <1>1, <1>2
<1>8. QED
  BY <1>1, <1>2, <1>4, <1>5, <1>6, <1>7 DEF StackInv

(* A call for a listed file changes nothing but its caller's position. *)
LEMMA AlreadyListedIInv ==
    ASSUME IInv, AlreadyListed
    PROVE  IInv'
<1> DEFINE n == Len(stack)
<1>0. TypeOK /\ Walking /\ ReturnOK
  BY DEF IInv, AlreadyListed
<1>1. /\ depList' = depList /\ needed' = needed /\ root' = root /\ ret' = 0
      /\ noDynstr' = noDynstr /\ pass' = pass /\ listSize' = listSize /\ depCount' = depCount
      /\ stack[n].at = 0 /\ Listed(Top.fse)
  BY DEF AlreadyListed, fsVars, Top, ReturnOK
<1>2. n > 1 /\ n \in Nat /\ pc' = "walk"
  <2>1. n = 1 => depList = <<>>
    BY <1>1 DEF IInv, StackInv
  <2>2. depList # <<>>
    BY <1>1 DEF Listed
  <2>3. n \in Nat /\ n > 0 /\ n # 1
    BY <1>0, <2>1, <2>2, WalkTypes DEF Walking
  <2>4. n > 1
    <3>1. \A m \in Nat : m > 0 /\ m # 1 => m > 1
      OBVIOUS
    <3>2. QED
      BY <2>3, <3>1
  <2>5. pc' = "walk"
    BY <1>0, <2>3 DEF ReturnOK
  <2>6. QED
    BY <2>3, <2>4, <2>5
<1>3. TypeOK'
  BY <1>0, <1>1, <1>2, ReturnOKShape DEF TypeOK
<1>4. DepsFirst' /\ NoDuplicates' /\ RootLast'
  BY <1>1, <1>2 DEF IInv, DepsFirst, NoDuplicates, RootLast
<1>5. \A f : ListedAfter(f) <=> Listed(f)
  BY <1>1 DEF Listed, ListedAfter
<1>6. \A k \in 1 .. n - 1 : ~Listed(stack[k].fse)
  <2> SUFFICES ASSUME NEW k \in 1 .. n - 1 PROVE ~Listed(stack[k].fse)
    OBVIOUS
  <2>1. k \in 1 .. n /\ FrameInv(k) /\ CallInv(k)
    BY <1>2 DEF IInv, StackInv
  <2>2. QED
    BY <1>0, <2>1, WalkTypes DEF FrameInv, CallInv
<1>7. StackInv'
  BY <1>0, <1>1, <1>2, <1>5, <1>6, PopStackInv
<1>8. QED
  BY <1>3, <1>4, <1>7 DEF IInv

(* Entering a call for an unlisted file starts it at its first entry. *)
LEMMA GetSectionsIInv ==
    ASSUME IInv, GetSections
    PROVE  IInv'
<1> DEFINE n == Len(stack)
<1>0. TypeOK /\ Walking /\ UNCHANGED <<fsVars, pass, listSize, depCount>>
  BY DEF IInv, GetSections
<1>1. CASE ReturnError(-1)
  BY <1>0, <1>1, ErrorIInv
<1>2. CASE ~ReturnError(-1)
  <2>1. /\ stack' = [stack EXCEPT ![n] = [stack[n] EXCEPT !.at = 1]]
        /\ UNCHANGED <<fsVars, pass, depList, listSize, depCount, ret, pc>>
        /\ stack[n].at = 0 /\ ~Listed(stack[n].fse)
    BY <1>2 DEF GetSections, Top, Enter
  <2>2. n \in Nat /\ n > 0 /\ n \in 1 .. n
    BY <1>0, WalkTypes DEF Walking
  <2>3. /\ stack \in Seq(Frame) /\ [stack[n] EXCEPT !.at = 1] \in Frame
        /\ stack' = [stack EXCEPT ![n] = [stack[n] EXCEPT !.at = 1]]
    BY <1>0, <2>1, <2>2, WalkTypes DEF TypeOK, Frame
  <2>4. /\ stack' \in Seq(Frame) /\ Len(stack') = n
        /\ \A k \in 1 .. n : stack'[k] = IF k = n THEN [stack[n] EXCEPT !.at = 1] ELSE stack[k]
    BY <2>2, <2>3, ExceptSeq
  <2>5. \A k \in 1 .. n : /\ stack'[k].fse = stack[k].fse
                          /\ stack'[k].at = IF k = n THEN 1 ELSE stack[k].at
    BY <1>0, <2>2, <2>4, WalkTypes DEF Frame
  <2>6. /\ depList' = depList /\ needed' = needed /\ root' = root /\ ret' = ret /\ pc' = pc
        /\ pc = "walk"
    BY <1>0, <2>1 DEF fsVars, Walking
  <2>7. TypeOK'
    BY <1>0, <2>1, <2>4 DEF TypeOK, fsVars
  <2>8. DepsFirst' /\ NoDuplicates' /\ RootLast'
    BY <2>6 DEF IInv, DepsFirst, NoDuplicates, RootLast
  <2>9. ASSUME NEW k \in 1 .. n
        PROVE  FrameInv(k)'
    <3>1. CASE k = n
      <4>1. stack'[k].at = 1 /\ stack'[k].fse = stack[k].fse
        BY <2>5, <3>1
      <4>2. Len(needed[stack[k].fse]) \in Nat
        BY <1>0, WalkTypes
      <4>3. QED
        BY <2>1, <2>6, <3>1, <4>1, <4>2 DEF FrameInv, Listed
    <3>2. CASE k # n
      <4>1. stack'[k].at = stack[k].at /\ stack'[k].fse = stack[k].fse
        BY <2>5, <3>2
      <4>2. FrameInv(k)
        BY DEF IInv, StackInv
      <4>3. QED
        BY <2>6, <4>1, <4>2 DEF FrameInv, Listed
    <3>3. QED
      BY <3>1, <3>2
  <2>10. ASSUME NEW k \in 1 .. n - 1
         PROVE  CallInv(k)'
    <3>1. k \in 1 .. n /\ k + 1 \in 1 .. n /\ k # n
      BY <2>2
    <3>2. /\ stack'[k].at = stack[k].at /\ stack'[k].fse = stack[k].fse
          /\ stack'[k + 1].fse = stack[k + 1].fse
      BY <2>5, <3>1
    <3>3. CallInv(k)
      BY DEF IInv, StackInv
    <3>4. QED
      BY <2>6, <3>2, <3>3 DEF CallInv
  <2>11. stack'[1].fse = root /\ (stack'[1].at = 0 => depList' = <<>>)
    <3>1. 1 \in 1 .. n
      BY <2>2
    <3>2. stack[1].fse = root /\ (stack[1].at = 0 => depList = <<>>)
      BY <2>2 DEF IInv, StackInv
    <3>3. QED
      BY <2>5, <2>6, <3>1, <3>2
  <2>12. StackInv'
    BY <2>2, <2>4, <2>6, <2>9, <2>10, <2>11 DEF StackInv
  <2>13. QED
    BY <2>7, <2>8, <2>12 DEF IInv
<1>3. QED
  BY <1>1, <1>2

(* Calling for a dependency pushes a frame for the entry the caller is at. *)
LEMMA VisitNeededIInv ==
    ASSUME IInv, VisitNeeded
    PROVE  IInv'
<1> DEFINE n == Len(stack)
           dep == needed[Top.fse][Top.at]
<1>0. TypeOK /\ Walking /\ UNCHANGED <<fsVars, pass, listSize, depCount>>
  BY DEF IInv, VisitNeeded
<1>1. n \in Nat /\ n > 0 /\ n \in 1 .. n
  BY <1>0, WalkTypes DEF Walking
<1>2. CASE ReturnError(-1)
  BY <1>0, <1>2, ErrorIInv
<1>3. CASE pc' = "fault" /\ UNCHANGED <<stack, depList, ret>>
  <2>1. /\ needed' = needed /\ root' = root /\ stack' = stack /\ depList' = depList
        /\ pc' = "fault" /\ pc = "walk"
    BY <1>0, <1>3 DEF fsVars, Walking
  <2>2. TypeOK'
    BY <1>0, <1>3 DEF TypeOK, fsVars
  <2>3. DepsFirst' /\ NoDuplicates' /\ RootLast'
    BY <2>1 DEF IInv, DepsFirst, NoDuplicates, RootLast
  <2>4. StackInv'
    BY <1>1, <2>1 DEF IInv, StackInv, FrameInv, CallInv, Listed
  <2>5. QED
    BY <2>2, <2>3, <2>4 DEF IInv
<1>4. CASE /\ dep # Missing
           /\ stack' = Append(stack, Call(dep))
           /\ UNCHANGED <<depList, ret, pc>>
  <2>1. /\ needed' = needed /\ root' = root /\ depList' = depList /\ pc' = "walk" /\ pc = "walk"
        /\ ret' = ret
    BY <1>0, <1>4 DEF fsVars, Walking
  <2>2. /\ stack[n].at \in 1 .. Len(needed[stack[n].fse])
        /\ dep = needed[stack[n].fse][stack[n].at]
    BY DEF VisitNeeded, Top
  <2>3. dep \in Files
    BY <1>0, <1>1, <1>4, <2>2, WalkTypes
  <2>4. Call(dep) \in Frame /\ Call(dep).fse = dep /\ Call(dep).at = 0
    BY <2>3 DEF Call, Frame
  <2>5. /\ stack' \in Seq(Frame) /\ Len(stack') = n + 1
        /\ \A k \in 1 .. n : stack'[k] = stack[k]
        /\ stack'[n + 1] = Call(dep)
    BY <1>0, <1>4, <2>4, AppendProperties DEF TypeOK
  <2>6. TypeOK'
    BY <1>0, <1>4, <2>5 DEF TypeOK, fsVars
  <2>7. DepsFirst' /\ NoDuplicates' /\ RootLast'
    BY <2>1 DEF IInv, DepsFirst, NoDuplicates, RootLast
  <2>8. ASSUME NEW k \in 1 .. n + 1
        PROVE  FrameInv(k)'
    <3>1. CASE k = n + 1
      <4>1. stack'[k].at = 0 /\ stack'[k].fse = dep
        BY <2>4, <2>5, <3>1
      <4>2. Len(needed[dep]) \in Nat
        BY <1>0, <2>3, WalkTypes
      <4>3. QED
        BY <2>1, <4>1, <4>2 DEF FrameInv
    <3>2. CASE k # n + 1
      <4>1. k \in 1 .. n
        BY <1>1, <3>2
      <4>2. FrameInv(k) /\ stack'[k] = stack[k]
        BY <2>5, <4>1 DEF IInv, StackInv
      <4>3. QED
        BY <2>1, <4>2 DEF FrameInv, Listed
    <3>3. QED
      BY <3>1, <3>2
  <2>9. ASSUME NEW k \in 1 .. n
        PROVE  CallInv(k)'
    <3>1. CASE k = n
      BY <1>1, <2>1, <2>2, <2>4, <2>5, <3>1 DEF CallInv
    <3>2. CASE k # n
      <4>1. k \in 1 .. n - 1 /\ k + 1 \in 1 .. n
        BY <1>1, <3>2
      <4>2. CallInv(k) /\ stack'[k] = stack[k] /\ stack'[k + 1] = stack[k + 1]
        BY <1>1, <2>5, <4>1 DEF IInv, StackInv
      <4>3. QED
        BY <2>1, <4>2 DEF CallInv
    <3>3. QED
      BY <3>1, <3>2
  <2>10. stack'[1].fse = root /\ (stack'[1].at = 0 => depList' = <<>>)
    <3>1. 1 \in 1 .. n
      BY <1>1
    <3>2. QED
      BY <1>1, <2>1, <2>5, <3>1 DEF IInv, StackInv
  <2>11. (n + 1) - 1 = n /\ n + 1 > 0
    BY <1>1
  <2>12. StackInv'
    BY <2>1, <2>5, <2>8, <2>9, <2>10, <2>11 DEF StackInv
  <2>13. QED
    BY <2>6, <2>7, <2>12 DEF IInv
<1>5. QED
  BY <1>2, <1>3, <1>4 DEF VisitNeeded, DepOf, Found

(* When a call reaches the end of its entries all of them are listed, and its
   file is on no other frame: were it, the call above that frame would be for
   a listed file past its first test. *)
LEMMA AddFseFacts ==
    ASSUME IInv, Walking, Top.at > Len(needed[Top.fse])
    PROVE  /\ Top.fse \in Files
           /\ ~Listed(Top.fse)
           /\ \A j \in 1 .. Len(needed[Top.fse]) : Listed(needed[Top.fse][j])
           /\ \A k \in 1 .. Len(stack) - 1 : stack[k].fse # Top.fse /\ ~Listed(stack[k].fse)
<1> DEFINE n == Len(stack)
<1>0. TypeOK
  BY DEF IInv
<1>1. /\ n \in Nat /\ n > 0 /\ n \in 1 .. n /\ FrameInv(n)
      /\ Top.fse \in Files /\ Top.at \in Nat /\ Len(needed[Top.fse]) \in Nat
  BY <1>0, WalkTypes DEF Walking, IInv, StackInv, Top
<1>2. ~Listed(Top.fse)
  BY <1>1 DEF FrameInv, Top
<1>3. \A j \in 1 .. Len(needed[Top.fse]) : Listed(needed[Top.fse][j])
  <2>1. Top.at = Len(needed[Top.fse]) + 1
    BY <1>1 DEF FrameInv, Top
  <2>2. QED
    BY <1>1, <2>1 DEF FrameInv, Top
<1>4. ASSUME NEW k \in 1 .. n - 1
      PROVE  stack[k].fse # Top.fse /\ ~Listed(stack[k].fse)
  <2>1. k \in 1 .. n /\ k + 1 \in 1 .. n
    BY <1>1
  <2>2. CallInv(k) /\ FrameInv(k) /\ FrameInv(k + 1) /\ stack[k].at \in Nat
    BY <1>0, <1>1, <2>1, WalkTypes DEF IInv, StackInv
  <2>3. ~Listed(stack[k].fse)
    BY <2>2 DEF CallInv, FrameInv
  <2>4. ASSUME stack[k].fse = Top.fse
        PROVE  FALSE
    <3>1. Listed(stack[k + 1].fse)
      BY <1>3, <2>2, <2>4 DEF CallInv
    <3>2. CASE k + 1 = n
      BY <1>2, <3>1, <3>2 DEF Top
    <3>3. CASE k + 1 # n
      <4>1. k + 1 \in 1 .. n - 1
        BY <1>1, <2>1, <3>3
      <4>2. CallInv(k + 1)
        BY <4>1 DEF IInv, StackInv
      <4>3. stack[k + 1].at > 0
        BY <1>0, <2>1, <4>2, WalkTypes DEF CallInv
      <4>4. QED
        BY <2>2, <3>1, <4>3 DEF FrameInv
    <3>4. QED
      BY <3>2, <3>3
  <2>5. QED
    BY <2>3, <2>4
<1>5. QED
  BY <1>1, <1>2, <1>3, <1>4

(* Listing a file after everything it needs. *)
LEMMA AddFseIInv ==
    ASSUME IInv, AddFse
    PROVE  IInv'
<1> DEFINE n == Len(stack)
           m == Len(depList)
<1>0. TypeOK /\ Walking /\ UNCHANGED <<fsVars, pass, listSize, depCount>>
      /\ Top.at > Len(needed[Top.fse])
  BY DEF IInv, AddFse
<1>1. CASE ReturnError(-2)
  BY <1>0, <1>1, ErrorIInv
<1>2. CASE depList' = Append(depList, Top.fse) /\ ReturnOK
  <2>1. /\ Top.fse \in Files /\ ~Listed(Top.fse)
        /\ \A j \in 1 .. Len(needed[Top.fse]) : Listed(needed[Top.fse][j])
        /\ \A k \in 1 .. n - 1 : stack[k].fse # Top.fse /\ ~Listed(stack[k].fse)
    BY <1>0, AddFseFacts
  <2>2. n \in Nat /\ n > 0 /\ m \in Nat
    BY <1>0, WalkTypes DEF Walking
  <2>3. /\ depList' \in Seq(Files) /\ Len(depList') = m + 1
        /\ \A i \in 1 .. m : depList'[i] = depList[i]
        /\ depList'[m + 1] = Top.fse
    BY <1>0, <1>2, <2>1, AppendProperties DEF TypeOK
  <2>4. needed' = needed /\ root' = root /\ ret' = 0
    BY <1>0, <1>2 DEF fsVars, ReturnOK
  <2>5. TypeOK'
    <3>1. stack' \in Seq(Frame)
      BY <1>0, <1>2, ReturnOKShape
    <3>2. QED
      BY <1>0, <1>2, <2>3, <3>1 DEF TypeOK, fsVars, ReturnOK
  <2>6. NoDuplicates'
    <3> SUFFICES ASSUME NEW i \in 1 .. m + 1, NEW j \in 1 .. m + 1,
                        depList'[i] = depList'[j]
                 PROVE  i = j
      BY <2>3 DEF NoDuplicates
    <3>1. CASE i = m + 1 /\ j = m + 1
      BY <3>1
    <3>2. CASE i # m + 1 /\ j # m + 1
      <4>1. i \in 1 .. m /\ j \in 1 .. m
        BY <2>2, <3>2
      <4>2. QED
        BY <2>3, <4>1 DEF IInv, NoDuplicates
    <3>3. CASE i = m + 1 /\ j # m + 1
      <4>1. j \in 1 .. m
        BY <2>2, <3>3
      <4>2. QED
        BY <2>1, <2>3, <3>3, <4>1 DEF Listed
    <3>4. CASE i # m + 1 /\ j = m + 1
      <4>1. i \in 1 .. m
        BY <2>2, <3>4
      <4>2. QED
        BY <2>1, <2>3, <3>4, <4>1 DEF Listed
    <3>5. QED
      BY <3>1, <3>2, <3>3, <3>4
  <2>7. DepsFirst'
    <3> SUFFICES ASSUME NEW i \in 1 .. m + 1, NEW j \in 1 .. Len(needed[depList'[i]])
                 PROVE  \E l \in 1 .. i - 1 : depList'[l] = needed[depList'[i]][j]
      BY <2>3, <2>4 DEF DepsFirst
    <3>1. CASE i = m + 1
      <4>1. Listed(needed[Top.fse][j]) /\ depList'[i] = Top.fse
        BY <2>1, <2>3, <3>1
      <4>2. PICK l \in 1 .. m : depList[l] = needed[Top.fse][j]
        BY <4>1 DEF Listed
      <4>3. l \in 1 .. i - 1
        BY <2>2, <3>1
      <4>4. QED
        BY <2>3, <4>1, <4>2, <4>3
    <3>2. CASE i # m + 1
      <4>1. i \in 1 .. m
        BY <2>2, <3>2
      <4>2. depList'[i] = depList[i]
        BY <2>3, <4>1
      <4>3. PICK l \in 1 .. i - 1 : depList[l] = needed[depList[i]][j]
        BY <4>1, <4>2 DEF IInv, DepsFirst
      <4>4. l \in 1 .. m
        BY <2>2, <4>1
      <4>5. QED
        BY <2>3, <4>2, <4>3, <4>4
    <3>3. QED
      BY <3>1, <3>2
  <2>8. RootLast' /\ StackInv'
    <3>1. CASE n = 1
      <4>1. Len(stack') = 0 /\ pc' = "returned"
        BY <1>0, <1>2, <3>1, ReturnOKShape DEF ReturnOK
      <4>2. Top.fse = root
        BY <2>2, <3>1 DEF IInv, StackInv, Top
      <4>3. RootLast'
        BY <2>2, <2>3, <2>4, <4>2 DEF RootLast
      <4>4. StackInv'
        BY <4>1 DEF StackInv
      <4>5. QED
        BY <4>3, <4>4
    <3>2. CASE n # 1
      <4>1. n > 1
        <5>1. \A x \in Nat : x > 0 /\ x # 1 => x > 1
          OBVIOUS
        <5>2. QED
          BY <2>2, <3>2, <5>1
      <4>2. pc' = "walk"
        BY <1>2, <3>2 DEF ReturnOK
      <4>3. \A f : Listed(f) => ListedAfter(f)
        BY <2>2, <2>3 DEF Listed, ListedAfter
      <4>4. ListedAfter(Top.fse)
        BY <2>2, <2>3 DEF ListedAfter
      <4>5. ASSUME NEW k \in 1 .. n - 1, ListedAfter(stack[k].fse)
            PROVE  FALSE
        <5>1. PICK i \in 1 .. m + 1 : depList'[i] = stack[k].fse
          BY <2>3, <4>5 DEF ListedAfter
        <5>2. i # m + 1
          BY <2>1, <2>3, <5>1
        <5>3. i \in 1 .. m
          BY <2>2, <5>2
        <5>4. Listed(stack[k].fse)
          BY <2>3, <5>1, <5>3 DEF Listed
        <5>5. QED
          BY <2>1, <5>4
      <4>6. StackInv'
        BY <1>0, <1>2, <2>4, <4>1, <4>3, <4>4, <4>5, PopStackInv
      <4>7. QED
        BY <4>2, <4>6 DEF RootLast
    <3>3. QED
      BY <3>1, <3>2
  <2>9. QED
    BY <2>5, <2>6, <2>7, <2>8 DEF IInv
<1>3. QED
  BY <1>1, <1>2 DEF AddFse

(* The second walk starts from an empty list; its end only marks the list. *)
LEMMA ReturnedIInv ==
    ASSUME IInv, CountReturned \/ BuildReturned
    PROVE  IInv'
<1>1. CASE CountReturned
  <2>1. /\ needed' = needed /\ root' = root /\ noDynstr' = noDynstr /\ pass' = "build"
        /\ stack' = <<Call(root)>> /\ depList' = <<>> /\ ret' = 0 /\ pc' = "walk"
    BY <1>1 DEF CountReturned, fsVars
  <2>2. TypeOK'
    <3>1. depCount' \in Int /\ listSize' \in Int
      BY <1>1 DEF CountReturned, DepCount, IInv, TypeOK
    <3>2. Call(root) \in Frame
      BY DEF Call, Frame, IInv, TypeOK
    <3>3. QED
      BY <2>1, <3>1, <3>2 DEF IInv, TypeOK
  <2>3. Len(stack') = 1 /\ stack'[1].fse = root /\ stack'[1].at = 0 /\ Len(depList') = 0
    BY <2>1 DEF Call
  <2>4. DepsFirst' /\ NoDuplicates' /\ RootLast'
    BY <2>1, <2>3 DEF DepsFirst, NoDuplicates, RootLast
  <2>5. StackInv'
    <3>1. Len(needed[root]) \in Nat
      BY DEF IInv, TypeOK
    <3>2. \A k \in 1 .. Len(stack') : k = 1
      BY <2>3
    <3>3. QED
      BY <2>1, <2>3, <3>1, <3>2 DEF StackInv, FrameInv, CallInv
  <2>6. QED
    BY <2>2, <2>4, <2>5 DEF IInv
<1>2. CASE BuildReturned
  <2>1. /\ needed' = needed /\ root' = root /\ depList' = depList /\ stack' = stack
        /\ ret' = ret /\ pc = "returned" /\ pc' = "done"
    BY <1>2 DEF BuildReturned, fsVars
  <2>2. TypeOK'
    BY <1>2 DEF BuildReturned, fsVars, IInv, TypeOK
  <2>3. DepsFirst' /\ NoDuplicates' /\ RootLast'
    <3>1. DepsFirst'
      BY <2>1 DEF IInv, DepsFirst
    <3>2. NoDuplicates'
      BY <2>1 DEF IInv, NoDuplicates
    <3>3. RootLast'
      BY <2>1 DEF IInv, RootLast
    <3>4. QED
      BY <3>1, <3>2, <3>3
  <2>4. StackInv'
    <3>1. Len(stack) = 0
      BY <2>1 DEF IInv, TypeOK, StackInv
    <3>2. QED
      BY <2>1, <3>1 DEF StackInv
  <2>5. QED
    BY <2>2, <2>3, <2>4 DEF IInv
<1>3. QED
  BY <1>1, <1>2

(* IInv is inductive. *)
LEMMA NextIInv == IInv /\ [Next]_vars => IInv'
<1> SUFFICES ASSUME IInv, [Next]_vars PROVE IInv'
  OBVIOUS
<1>1. CASE AlreadyListed
  BY <1>1, AlreadyListedIInv
<1>2. CASE GetSections
  BY <1>2, GetSectionsIInv
<1>3. CASE VisitNeeded
  BY <1>3, VisitNeededIInv
<1>4. CASE AddFse
  BY <1>4, AddFseIInv
<1>5. CASE CountReturned \/ BuildReturned
  BY <1>5, ReturnedIInv
<1>6. CASE UNCHANGED vars
  BY <1>6 DEF vars, IInv, TypeOK, DepsFirst, NoDuplicates, RootLast, StackInv,
              FrameInv, CallInv, Listed
<1>7. QED
  BY <1>1, <1>2, <1>3, <1>4, <1>5, <1>6 DEF Next

(* The inductive invariant holds in every reachable state of both walks. *)
THEOREM IInvAlways == Spec => []IInv
  BY InitIInv, NextIInv, PTL DEF Spec

(* dep_list is a load order for every dependency graph: files after what they
   need, no file twice, and the requested file last. *)
THEOREM DepListIsLoadOrder == Spec => [](DepsFirst /\ NoDuplicates /\ RootLast)
<1>1. IInv => DepsFirst /\ NoDuplicates /\ RootLast
  BY DEF IInv
<1>2. QED
  BY <1>1, IInvAlways, PTL

(* Type correctness of the walk. *)
THEOREM TypeCorrect == Spec => []TypeOK
<1>1. IInv => TypeOK
  BY DEF IInv
<1>2. QED
  BY <1>1, IInvAlways, PTL

-----------------------------------------------------------------------------
(* The list uld_dyn_exec_fse loads from, as the abstract specification sees it. *)
orderBar == IF pass = "build" THEN depList ELSE <<>>
closedBar == pc = "done" /\ ret = 0

(* A step that leaves the loaded list and its status alone is a stutter. *)
LEMMA StutterStep ==
    ASSUME UNCHANGED fsVars, orderBar' = orderBar, closedBar' = closedBar
    PROVE  UNCHANGED LO!loVars
  BY DEF LO!loVars, fsVars, orderBar, closedBar

(* Every step of the walk is a step of LoadOrder or leaves its state alone. *)
LEMMA NextRefines == IInv /\ [Next]_vars => [LO!LoadOrderNext]_LO!loVars
<1> SUFFICES ASSUME IInv, [Next]_vars PROVE [LO!LoadOrderNext]_LO!loVars
  OBVIOUS
<1>1. CASE AlreadyListed \/ GetSections \/ VisitNeeded
  <2>1. UNCHANGED <<fsVars, pass, depList>> /\ pc # "done" /\ pc' # "done"
    BY <1>1 DEF AlreadyListed, GetSections, VisitNeeded, ReturnOK, ReturnError, Walking
  <2>2. QED
    BY <2>1, StutterStep DEF orderBar, closedBar
<1>2. CASE AddFse
  <2>1. /\ UNCHANGED <<fsVars, pass>> /\ pc # "done" /\ pc' # "done" /\ Walking
        /\ Top.at > Len(needed[Top.fse])
    BY <1>2 DEF AddFse, ReturnOK, ReturnError, Walking
  <2>2. CASE pass # "build" \/ depList' = depList
    BY <2>1, <2>2, StutterStep DEF orderBar, closedBar
  <2>3. CASE pass = "build" /\ depList' # depList
    <3>1. depList' = Append(depList, Top.fse)
      BY <1>2, <2>3 DEF AddFse, ReturnError
    <3>2. /\ Top.fse \in Files /\ ~Listed(Top.fse)
          /\ \A j \in 1 .. Len(needed[Top.fse]) : Listed(needed[Top.fse][j])
      BY <2>1, AddFseFacts
    <3>3. LO!List(Top.fse)
      BY <2>1, <2>3, <3>1, <3>2 DEF LO!List, LO!Listed, Listed, fsVars
    <3>4. QED
      BY <3>2, <3>3 DEF LO!LoadOrderNext
  <2>4. QED
    BY <2>2, <2>3
<1>3. CASE CountReturned
  BY <1>3, StutterStep DEF CountReturned, orderBar, closedBar
<1>4. CASE BuildReturned
  <2>1. /\ UNCHANGED <<fsVars, pass, depList, ret>>
        /\ pc = "returned" /\ pc' = "done" /\ pass = "build"
    BY <1>4 DEF BuildReturned
  <2>2. CASE ret = 0
    <3>1. Len(depList) > 0 /\ depList[Len(depList)] = root
      BY <2>1, <2>2 DEF IInv, RootLast
    <3>2. LO!Close
      BY <2>1, <2>2, <3>1 DEF LO!Close, fsVars
    <3>3. QED
      BY <3>2 DEF LO!LoadOrderNext
  <2>3. CASE ret # 0
    BY <2>1, <2>3, StutterStep DEF orderBar, closedBar
  <2>4. QED
    BY <2>2, <2>3
<1>5. CASE UNCHANGED vars
  BY <1>5, StutterStep DEF vars, fsVars, orderBar, closedBar
<1>6. QED
  BY <1>1, <1>2, <1>3, <1>4, <1>5 DEF Next

(* The walk implements the abstract load order for every file table, every
   dependency graph and every stack depth. *)
THEOREM WalkImplementsLoadOrder == Spec => RefinesLoadOrder
<1>1. Init => LO!LoadOrderInit
  <2> SUFFICES ASSUME Init PROVE LO!LoadOrderInit
    OBVIOUS
  <2>1. TypeOK
    BY InitIInv DEF IInv
  <2>2. QED
    BY <2>1 DEF Init, TypeOK, LO!LoadOrderInit
<1>2. QED
  BY <1>1, NextRefines, IInvAlways, PTL DEF Spec, RefinesLoadOrder, LO!LoadOrderSpec

-----------------------------------------------------------------------------
(* A wanted file stays wanted when the list only grows, and every call either
   stays at or past the entry it was at, has passed no entry yet, or returns
   and leaves its file in the list. *)
LEMMA WantedKept ==
    ASSUME Walking, TypeOK, needed' = needed, NEW i \in 1 .. Len(depList), Wanted(i),
           Len(depList') \in Nat, Len(stack') \in Nat, Len(depList) <= Len(depList'),
           \A l \in 1 .. Len(depList) : depList'[l] = depList[l],
           \A k \in 1 .. Len(stack) :
              \/ stack[k].at <= 1
              \/ /\ k <= Len(stack') /\ stack'[k].fse = stack[k].fse
                 /\ stack'[k].at \in Nat /\ stack[k].at <= stack'[k].at
              \/ /\ stack[k].at - 1 <= Len(needed[stack[k].fse])
                 /\ \E j \in Len(depList) + 1 .. Len(depList') : depList'[j] = stack[k].fse
    PROVE  Wanted(i)'
<1>1. /\ Len(depList) \in Nat /\ Len(stack) \in Nat
      /\ \A k \in 1 .. Len(stack) : stack[k].at \in Nat /\ Len(needed[stack[k].fse]) \in Nat
  BY WalkTypes
<1>2. depList'[i] = depList[i]
  OBVIOUS
<1>3. CASE \E j \in i + 1 .. Len(depList) :
             \E m \in 1 .. Len(needed[depList[j]]) : needed[depList[j]][m] = depList[i]
  <2>1. PICK j \in i + 1 .. Len(depList) :
               \E m \in 1 .. Len(needed[depList[j]]) : needed[depList[j]][m] = depList[i]
    BY <1>3
  <2>2. j \in 1 .. Len(depList) /\ j \in i + 1 .. Len(depList')
    BY <1>1
  <2>3. depList'[j] = depList[j]
    BY <2>2
  <2>4. QED
    BY <1>2, <2>1, <2>2, <2>3 DEF Wanted
<1>4. CASE \E k \in 1 .. Len(stack) :
             \E m \in 1 .. stack[k].at - 1 : needed[stack[k].fse][m] = depList[i]
  <2>0. PICK k \in 1 .. Len(stack) :
               \E m \in 1 .. stack[k].at - 1 : needed[stack[k].fse][m] = depList[i]
    BY <1>4
  <2>1. PICK m \in 1 .. stack[k].at - 1 : needed[stack[k].fse][m] = depList[i]
    BY <2>0
  <2>2. stack[k].at \in Nat /\ Len(needed[stack[k].fse]) \in Nat /\ stack[k].at > 1
    BY <1>1, <2>1
  <2>3. CASE /\ k <= Len(stack') /\ stack'[k].fse = stack[k].fse
             /\ stack'[k].at \in Nat /\ stack[k].at <= stack'[k].at
    <3>1. k \in 1 .. Len(stack') /\ m \in 1 .. stack'[k].at - 1
      BY <1>1, <2>1, <2>2, <2>3
    <3>2. needed'[stack'[k].fse][m] = depList'[i]
      BY <1>2, <2>1, <2>3
    <3>3. QED
      BY <3>1, <3>2 DEF Wanted
  <2>4. CASE /\ stack[k].at - 1 <= Len(needed[stack[k].fse])
             /\ \E j \in Len(depList) + 1 .. Len(depList') : depList'[j] = stack[k].fse
    <3>1. PICK j \in Len(depList) + 1 .. Len(depList') : depList'[j] = stack[k].fse
      BY <2>4
    <3>2. j \in i + 1 .. Len(depList') /\ m \in 1 .. Len(needed[stack[k].fse])
      BY <1>1, <2>2, <2>4, <3>1, SMTT(30)
    <3>3. QED
      BY <1>2, <2>1, <3>1, <3>2 DEF Wanted
  <2>5. ~(stack[k].at <= 1)
    BY <2>2
  <2>6. QED
    BY <2>3, <2>4, <2>5, ZenonT(40)
<1>5. QED
  BY <1>3, <1>4 DEF Wanted

(* Returns to a caller: the frames below the caller stay, the caller moves on. *)
LEMMA AlreadyListedWInv ==
    ASSUME WInv, AlreadyListed
    PROVE  WantedInv' /\ NoStrays'
<1> DEFINE n == Len(stack)
<1>0. TypeOK /\ Walking /\ ReturnOK /\ IInv
  BY DEF WInv, IInv, AlreadyListed
<1>1. /\ depList' = depList /\ needed' = needed /\ stack[n].at = 0 /\ Listed(Top.fse)
  BY DEF AlreadyListed, fsVars, Top
<1>2. /\ n \in Nat /\ n > 0 /\ Len(depList) \in Nat
      /\ \A k \in 1 .. n : stack[k].at \in Nat
  BY <1>0, WalkTypes
<1>3. n # 1
  <2>1. n = 1 => depList = <<>>
    BY <1>0, <1>1 DEF IInv, StackInv
  <2>2. depList # <<>>
    BY <1>1 DEF Listed
  <2>3. QED
    BY <2>1, <2>2
<1>4. pc' = "walk"
  BY <1>0, <1>3 DEF ReturnOK
<1>5. /\ Len(stack') = n - 1
      /\ \A k \in 1 .. n - 1 :
           /\ stack'[k].fse = stack[k].fse
           /\ stack'[k].at = IF k = n - 1 THEN stack[k].at + 1 ELSE stack[k].at
  BY <1>0, ReturnOKShape
<1>6. ASSUME NEW k \in 1 .. n
      PROVE  \/ stack[k].at <= 1
             \/ /\ k <= Len(stack') /\ stack'[k].fse = stack[k].fse
                /\ stack'[k].at \in Nat /\ stack[k].at <= stack'[k].at
  <2>1. CASE k = n
    BY <1>1, <2>1
  <2>2. CASE k # n
    <3>1. k \in 1 .. n - 1 /\ stack[k].at \in Nat
      BY <1>2, <2>2
    <3>2. stack'[k].fse = stack[k].fse
          /\ (stack'[k].at = stack[k].at + 1 \/ stack'[k].at = stack[k].at)
      BY <1>5, <3>1
    <3>3. QED
      BY <1>2, <1>5, <3>1, <3>2
  <2>3. QED
    BY <2>1, <2>2
<1>7. ASSUME NEW i \in 1 .. Len(depList)
      PROVE  Wanted(i)'
  <2>1. Wanted(i)
    BY <1>2 DEF WInv, WantedInv
  <2>2. Len(stack') \in Nat
    BY <1>2, <1>5
  <2>3. QED
    BY <1>0, <1>1, <1>2, <1>6, <2>1, <2>2, WantedKept
<1>8. QED
  BY <1>1, <1>4, <1>7 DEF WantedInv, NoStrays

(* An error empties the stack and is no success. *)
LEMMA ErrorWInv ==
    ASSUME NEW code \in {-2, -1}, ReturnError(code)
    PROVE  WantedInv' /\ NoStrays'
  BY DEF ReturnError, WantedInv, NoStrays

(* Entering a call passes no DT_NEEDED entry yet. *)
LEMMA GetSectionsWInv ==
    ASSUME WInv, GetSections
    PROVE  WantedInv' /\ NoStrays'
<1> DEFINE n == Len(stack)
<1>0. TypeOK /\ Walking
  BY DEF WInv, IInv, GetSections
<1>1. CASE ReturnError(-1)
  BY <1>1, ErrorWInv
<1>2. CASE ~ReturnError(-1)
  <2>1. /\ stack' = [stack EXCEPT ![n] = [stack[n] EXCEPT !.at = 1]]
        /\ depList' = depList /\ needed' = needed /\ pc' = "walk" /\ stack[n].at = 0
    BY <1>0, <1>2 DEF GetSections, Top, Enter, fsVars, Walking
  <2>2. /\ n \in Nat /\ n > 0 /\ n \in 1 .. n /\ Len(depList) \in Nat
        /\ stack \in Seq(Frame) /\ \A k \in 1 .. n : stack[k].at \in Nat
    BY <1>0, WalkTypes DEF TypeOK
  <2>3. Len(stack') = n /\ \A k \in 1 .. n : k # n => stack'[k] = stack[k]
    BY <2>1, <2>2, ExceptSeq
  <2>4. \A k \in 1 .. n : \/ stack[k].at <= 1
                          \/ /\ k <= Len(stack') /\ stack'[k].fse = stack[k].fse
                             /\ stack'[k].at \in Nat /\ stack[k].at <= stack'[k].at
    <3> SUFFICES ASSUME NEW k \in 1 .. n, k # n
                 PROVE  /\ k <= Len(stack') /\ stack'[k].fse = stack[k].fse
                        /\ stack'[k].at \in Nat /\ stack[k].at <= stack'[k].at
      BY <2>1
    <3>1. stack'[k] = stack[k] /\ stack[k].at \in Nat
      BY <2>2, <2>3
    <3>2. QED
      BY <2>2, <2>3, <3>1
  <2>5. ASSUME NEW i \in 1 .. Len(depList)
        PROVE  Wanted(i)'
    <3>1. Wanted(i)
      BY <2>2 DEF WInv, WantedInv
    <3>2. QED
      BY <1>0, <2>1, <2>2, <2>3, <2>4, <3>1, WantedKept
  <2>6. QED
    BY <2>1, <2>5 DEF WantedInv, NoStrays
<1>3. QED
  BY <1>1, <1>2

(* A new call has passed no entry, and its caller stays where it is. *)
LEMMA VisitNeededWInv ==
    ASSUME WInv, VisitNeeded
    PROVE  WantedInv' /\ NoStrays'
<1> DEFINE n == Len(stack)
           dep == needed[Top.fse][Top.at]
<1>0. TypeOK /\ Walking /\ needed' = needed
  BY DEF WInv, IInv, VisitNeeded, fsVars
<1>1. CASE ReturnError(-1)
  BY <1>1, ErrorWInv
<1>2. CASE pc' = "fault" /\ UNCHANGED <<stack, depList, ret>>
  <2>1. WantedInv'
    BY <1>0, <1>2 DEF WInv, WantedInv, Wanted
  <2>2. QED
    BY <1>2, <2>1 DEF NoStrays
<1>3. CASE /\ dep # Missing
           /\ stack' = Append(stack, Call(dep))
           /\ UNCHANGED <<depList, ret, pc>>
  <2>1. depList' = depList /\ pc' = "walk"
    BY <1>0, <1>3 DEF Walking
  <2>2. /\ n \in Nat /\ n > 0 /\ Len(depList) \in Nat
        /\ \A k \in 1 .. n : stack[k].at \in Nat
    BY <1>0, WalkTypes
  <2>3. Len(stack') = n + 1 /\ \A k \in 1 .. n : stack'[k] = stack[k]
    <3>1. Top.at \in 1 .. Len(needed[Top.fse]) /\ n \in 1 .. n
      BY <2>2 DEF VisitNeeded
    <3>2. dep \in Files
      BY <1>0, <1>3, <3>1, WalkTypes DEF Top
    <3>3. Call(dep) \in Frame
      BY <3>2 DEF Call, Frame
    <3>4. QED
      BY <1>0, <1>3, <3>3, AppendProperties DEF TypeOK
  <2>4. ASSUME NEW i \in 1 .. Len(depList)
        PROVE  Wanted(i)'
    <3>1. Wanted(i)
      BY <2>2 DEF WInv, WantedInv
    <3>2. \A k \in 1 .. n : /\ k <= Len(stack') /\ stack'[k].fse = stack[k].fse
                            /\ stack'[k].at \in Nat /\ stack[k].at <= stack'[k].at
      BY <2>2, <2>3
    <3>3. QED
      BY <1>0, <2>1, <2>2, <2>3, <3>1, <3>2, WantedKept
  <2>5. QED
    BY <2>1, <2>4 DEF WantedInv, NoStrays
<1>4. QED
  BY <1>1, <1>2, <1>3 DEF VisitNeeded, DepOf, Found

(* A file is listed while its caller stands at the entry that names it, and the
   entries it passed itself are now wanted by a listed file. *)
LEMMA AddFseWInv ==
    ASSUME WInv, AddFse
    PROVE  WantedInv' /\ NoStrays'
<1> DEFINE n == Len(stack)
           m == Len(depList)
<1>0. TypeOK /\ Walking /\ needed' = needed /\ IInv /\ Top.at > Len(needed[Top.fse])
  BY DEF WInv, IInv, AddFse, fsVars
<1>1. CASE ReturnError(-2)
  BY <1>1, ErrorWInv
<1>2. CASE depList' = Append(depList, Top.fse) /\ ReturnOK
  <2>1. /\ n \in Nat /\ n > 0 /\ m \in Nat /\ n \in 1 .. n
        /\ \A k \in 1 .. n : stack[k].at \in Nat /\ Len(needed[stack[k].fse]) \in Nat
    BY <1>0, WalkTypes
  <2>2. Top.fse \in Files
    BY <1>0, AddFseFacts
  <2>3. /\ Len(depList') = m + 1 /\ \A l \in 1 .. m : depList'[l] = depList[l]
        /\ depList'[m + 1] = Top.fse
    BY <1>0, <1>2, <2>2, AppendProperties DEF TypeOK
  <2>4. /\ Len(stack') = n - 1
        /\ \A k \in 1 .. n - 1 :
             /\ stack'[k].fse = stack[k].fse
             /\ stack'[k].at = IF k = n - 1 THEN stack[k].at + 1 ELSE stack[k].at
    BY <1>0, <1>2, ReturnOKShape
  <2>5. ASSUME NEW k \in 1 .. n
        PROVE  \/ /\ k <= Len(stack') /\ stack'[k].fse = stack[k].fse
                  /\ stack'[k].at \in Nat /\ stack[k].at <= stack'[k].at
               \/ /\ stack[k].at - 1 <= Len(needed[stack[k].fse])
                  /\ \E j \in m + 1 .. Len(depList') : depList'[j] = stack[k].fse
    <3>1. CASE k = n
      <4>1. stack[k].at <= Len(needed[stack[k].fse]) + 1
        BY <1>0 DEF IInv, StackInv, FrameInv
      <4>2. m + 1 \in m + 1 .. Len(depList') /\ depList'[m + 1] = stack[k].fse
        BY <2>1, <2>3, <3>1, SMTT(30) DEF Top
      <4>3. QED
        BY <2>1, <4>1, <4>2
    <3>2. CASE k # n
      <4>1. k \in 1 .. n - 1 /\ stack[k].at \in Nat
        BY <2>1, <3>2
      <4>2. stack'[k].fse = stack[k].fse
            /\ (stack'[k].at = stack[k].at + 1 \/ stack'[k].at = stack[k].at)
        BY <2>4, <4>1
      <4>3. QED
        BY <2>1, <2>4, <4>1, <4>2
    <3>3. QED
      BY <3>1, <3>2
  <2>6. ASSUME NEW i \in 1 .. m
        PROVE  Wanted(i)'
    <3>1. Wanted(i)
      BY <2>1 DEF WInv, WantedInv
    <3>2. Len(depList') \in Nat /\ Len(stack') \in Nat /\ m <= Len(depList')
      BY <2>1, <2>3, <2>4
    <3>3. QED
      BY <1>0, <2>3, <2>5, <3>1, <3>2, WantedKept
  <2>7. CASE n = 1
    <3>1. Len(stack') = 0 /\ Len(depList') - 1 = m
      BY <2>1, <2>3, <2>4, <2>7
    <3>2. WantedInv'
      BY <3>1 DEF WantedInv
    <3>3. ASSUME NEW i \in 1 .. m
          PROVE  \E j \in i + 1 .. Len(depList') :
                    \E l \in 1 .. Len(needed'[depList'[j]]) : needed'[depList'[j]][l] = depList'[i]
      <4>1. Wanted(i)'
        BY <2>6
      <4>2. ~\E q \in 1 .. Len(stack') : TRUE
        BY <3>1
      <4>3. QED
        BY <4>1, <4>2, Zenon DEF Wanted
    <3>4. QED
      BY <3>1, <3>2, <3>3 DEF NoStrays
  <2>8. CASE n # 1
    <3>1. pc' = "walk"
      BY <1>2, <2>8 DEF ReturnOK
    <3>2. ASSUME NEW i \in {m + 1}
          PROVE  Wanted(i)'
      <4>1. n - 1 \in 1 .. n - 1 /\ (n - 1) + 1 = n
        <5>1. \A x \in Nat : x > 0 /\ x # 1 => x - 1 \in 1 .. x - 1 /\ (x - 1) + 1 = x
          OBVIOUS
        <5>2. QED
          BY <2>1, <2>8, <5>1
      <4>2. /\ stack[n - 1].at \in 1 .. Len(needed[stack[n - 1].fse])
            /\ needed[stack[n - 1].fse][stack[n - 1].at] = stack[n].fse
        BY <1>0, <4>1 DEF IInv, StackInv, CallInv
      <4>3. stack'[n - 1].fse = stack[n - 1].fse /\ stack'[n - 1].at = stack[n - 1].at + 1
        BY <2>4, <4>1
      <4>4. stack[n - 1].at \in 1 .. stack'[n - 1].at - 1 /\ n - 1 \in 1 .. Len(stack')
        BY <2>1, <2>4, <4>1, <4>2, <4>3
      <4>5. needed'[stack'[n - 1].fse][stack[n - 1].at] = depList'[i]
        BY <1>0, <2>3, <4>2, <4>3 DEF Top
      <4>6. QED
        BY <4>4, <4>5 DEF Wanted
    <3>3. \A i \in 1 .. Len(depList') : i \in 1 .. m \/ i \in {m + 1}
      BY <2>1, <2>3
    <3>4. WantedInv'
      BY <2>6, <3>2, <3>3 DEF WantedInv
    <3>5. QED
      BY <3>1, <3>4 DEF NoStrays
  <2>9. QED
    BY <2>7, <2>8
<1>3. QED
  BY <1>1, <1>2 DEF AddFse

(* WInv is inductive. *)
LEMMA NextWInv == WInv /\ [Next]_vars => WInv'
<1> SUFFICES ASSUME WInv, [Next]_vars PROVE WInv'
  OBVIOUS
<1>0. IInv'
  BY NextIInv DEF WInv
<1>1. CASE AlreadyListed
  BY <1>0, <1>1, AlreadyListedWInv DEF WInv
<1>2. CASE GetSections
  BY <1>0, <1>2, GetSectionsWInv DEF WInv
<1>3. CASE VisitNeeded
  BY <1>0, <1>3, VisitNeededWInv DEF WInv
<1>4. CASE AddFse
  BY <1>0, <1>4, AddFseWInv DEF WInv
<1>5. CASE CountReturned
  <2>1. depList' = <<>> /\ pc' = "walk"
    BY <1>5 DEF CountReturned
  <2>2. WantedInv' /\ NoStrays'
    BY <2>1 DEF WantedInv, NoStrays
  <2>3. QED
    BY <1>0, <2>2 DEF WInv
<1>6. CASE BuildReturned
  <2>1. /\ needed' = needed /\ depList' = depList /\ stack' = stack /\ ret' = ret
        /\ pc = "returned"
    BY <1>6 DEF BuildReturned, fsVars
  <2>2. WantedInv' /\ NoStrays'
    BY <2>1 DEF WInv, WantedInv, Wanted, NoStrays
  <2>3. QED
    BY <1>0, <2>2 DEF WInv
<1>7. CASE UNCHANGED vars
  <2>1. WantedInv' /\ NoStrays'
    BY <1>7 DEF vars, WInv, WantedInv, Wanted, NoStrays
  <2>2. QED
    BY <1>0, <2>1 DEF WInv
<1>8. QED
  BY <1>1, <1>2, <1>3, <1>4, <1>5, <1>6, <1>7 DEF Next

(* A finished walk lists no file that neither is the root nor is needed by a
   file listed after it. *)
THEOREM NothingStrays == Spec => []WInv
<1>1. Init => WInv
  <2> SUFFICES ASSUME Init PROVE WInv
    OBVIOUS
  <2>1. IInv
    BY InitIInv
  <2>2. depList = <<>> /\ pc = "walk"
    BY DEF Init
  <2>3. QED
    BY <2>1, <2>2 DEF WInv, WantedInv, NoStrays
<1>2. QED
  BY <1>1, NextWInv, PTL DEF Spec

-----------------------------------------------------------------------------
(* What the two passes share.  Both see only files that the root leads to, an
   error says that one of those is broken, and the count is the number of them. *)
Seen ==
    /\ \A i \in 1 .. Len(depList) : depList[i] \in Reach /\ depList[i] \notin noDynstr
    /\ \A k \in 1 .. Len(stack) :
          /\ stack[k].fse \in Reach
          /\ stack[k].at > 0 => stack[k].fse \notin noDynstr

SomeBroken == \E f \in Reach : Broken(f)

Counted ==
    /\ ret # -2 /\ (ret = -1 => SomeBroken)
    /\ pc = "done" => pass = "build"
    /\ pass = "count" => depCount = 0 /\ listSize = Cardinality(Files)
    /\ pass = "build" =>
         /\ listSize = depCount
         /\ \/ depCount = -1 /\ SomeBroken
            \/ depCount = Cardinality(Reach) /\ ~SomeBroken

RInv == IInv /\ Seen /\ Counted

(* A list without repetitions is no longer than any finite set it lies in,
   shorter if the set holds another file, and as long if it holds no other. *)
LEMMA ListFits ==
    ASSUME TypeOK, NoDuplicates, NEW S, IsFiniteSet(S),
           \A i \in 1 .. Len(depList) : depList[i] \in S
    PROVE  /\ Cardinality(S) \in Nat /\ Len(depList) \in Nat
           /\ Len(depList) <= Cardinality(S)
           /\ (\A f \in S : Listed(f)) <=> Len(depList) = Cardinality(S)
<1> DEFINE m == Len(depList)
           g == [i \in 1 .. m |-> depList[i]]
<1>1. m \in Nat
  BY DEF TypeOK
<1>2. Cardinality(1 .. m) = m /\ IsFiniteSet(1 .. m)
  <2>1. /\ IsFiniteSet(1 .. m)
        /\ Cardinality(1 .. m) = IF 1 > m THEN 0 ELSE m - 1 + 1
    <3>1. 1 \in Int /\ m \in Int
      BY <1>1
    <3>2. QED
      BY ONLY <3>1, FS_Interval
  <2>2. QED
    BY <1>1, <2>1
<1>3. g \in Injection(1 .. m, S)
  <2>1. g \in [1 .. m -> S]
    OBVIOUS
  <2>2. \A i, j \in 1 .. m : g[i] = g[j] => i = j
    BY DEF NoDuplicates
  <2>3. QED
    BY <2>1, <2>2 DEF Injection, IsInjective
<1>4. /\ Cardinality(1 .. m) <= Cardinality(S)
      /\ Cardinality(1 .. m) = Cardinality(S) <=> g \in Surjection(1 .. m, S)
  BY <1>3, FS_Injection
<1>5. g \in Surjection(1 .. m, S) <=> \A f \in S : Listed(f)
  <2>1. g \in [1 .. m -> S]
    OBVIOUS
  <2>2. g \in Surjection(1 .. m, S) <=> \A f \in S : \E i \in 1 .. m : g[i] = f
    BY <2>1 DEF Surjection
  <2>3. QED
    BY <2>2 DEF Listed
<1>6. Cardinality(S) \in Nat
  BY FS_CardinalityType
<1>7. QED
  BY <1>1, <1>2, <1>4, <1>5, <1>6

(* The root leads to itself and to the dependencies of what it leads to. *)
LEMMA ReachClosed ==
    ASSUME TypeOK
    PROVE  /\ Reach \subseteq Files /\ root \in Reach
           /\ \A f \in Reach : \A j \in 1 .. Len(needed[f]) :
                needed[f][j] # Missing => needed[f][j] \in Reach
<1>1. Reach \subseteq Files /\ root \in Reach
  BY DEF Reach, TypeOK
<1>2. ASSUME NEW f \in Reach, NEW j \in 1 .. Len(needed[f]), needed[f][j] # Missing
      PROVE  needed[f][j] \in Reach
  <2>1. needed[f][j] \in Files
    <3>1. needed[f] \in Seq(Files \cup {Missing})
      BY <1>1 DEF TypeOK
    <3>2. needed[f][j] \in Files \cup {Missing}
      BY <3>1, ElementOfSeq
    <3>3. QED
      BY <1>2, <3>2
  <2>2. ASSUME NEW C \in SUBSET Files, root \in C, Closed(C)
        PROVE  needed[f][j] \in C
    <3>1. f \in C
      BY <2>2 DEF Reach
    <3>2. QED
      BY <1>2, <2>2, <3>1 DEF Closed, Found
  <2>3. QED
    BY <2>1, <2>2 DEF Reach
<1>3. QED
  BY <1>1, <1>2

(* A walk that returned 0 has listed exactly the files the root leads to, and
   none of them is broken. *)
LEMMA FinishedList ==
    ASSUME IInv, Seen, pc \in {"returned", "done"}, ret = 0
    PROVE  /\ \A f \in Reach : Listed(f)
           /\ {depList[i] : i \in 1 .. Len(depList)} = Reach
           /\ ~SomeBroken
           /\ Len(depList) = Cardinality(Reach)
<1> DEFINE L == {depList[i] : i \in 1 .. Len(depList)}
           m == Len(depList)
<1>1. /\ TypeOK /\ DepsFirst /\ NoDuplicates
      /\ m > 0 /\ depList[m] = root
  BY DEF IInv, RootLast
<1>2. m \in Nat /\ depList \in Seq(Files) /\ \A i \in 1 .. m : depList[i] \in Files
  BY <1>1, ElementOfSeq DEF TypeOK
<1>3. L \in SUBSET Files
  BY <1>2
<1>4. root \in L
  <2>1. m \in 1 .. m
    BY <1>1, <1>2
  <2>2. QED
    BY <1>1, <2>1
<1>5. ASSUME NEW i \in 1 .. m, NEW j \in 1 .. Len(needed[depList[i]])
      PROVE  needed[depList[i]][j] \in L
  <2>1. PICK l \in 1 .. i - 1 : depList[l] = needed[depList[i]][j]
    BY <1>1 DEF DepsFirst
  <2>2. l \in 1 .. m
    BY <1>2
  <2>3. QED
    BY <2>1, <2>2
<1>6. Closed(L)
  BY <1>5 DEF Closed
<1>7. \A f \in Reach : f \in L
  BY <1>3, <1>4, <1>6 DEF Reach
<1>8. \A f \in Reach : Listed(f)
  BY <1>7 DEF Listed
<1>9. L = Reach
  BY <1>7 DEF Seen
<1>10. ASSUME NEW f \in Reach
       PROVE  ~Broken(f)
  <2>1. PICK i \in 1 .. m : depList[i] = f
    BY <1>8 DEF Listed
  <2>2. f \notin noDynstr
    BY <2>1 DEF Seen
  <2>3. \A j \in 1 .. Len(needed[f]) : needed[f][j] # Missing
    BY <1>3, <1>5, <2>1, FilesAssumption
  <2>4. QED
    BY <2>2, <2>3 DEF Broken, Found
<1>11. m = Cardinality(Reach)
  <2>1. IsFiniteSet(Reach)
    BY <1>1, FilesAssumption, FS_Subset, ReachClosed
  <2>2. \A i \in 1 .. m : depList[i] \in Reach
    BY DEF Seen
  <2>3. QED
    BY <1>1, <1>8, <2>1, <2>2, ListFits
<1>12. QED
  BY <1>8, <1>9, <1>10, <1>11 DEF SomeBroken

(* What the root leads to is a matter of the file system only. *)
LEMMA ReachKept ==
    ASSUME needed' = needed, noDynstr' = noDynstr, root' = root
    PROVE  Reach' = Reach /\ SomeBroken' = SomeBroken
<1>1. Reach' = Reach
  BY DEF Reach, Closed
<1>2. QED
  BY <1>1 DEF SomeBroken, Broken

(* Every step but the two returns keeps the counts and what they mean. *)
LEMMA CountedKept ==
    ASSUME Counted, UNCHANGED <<fsVars, pass, listSize, depCount>>, pc' # "done",
           ret' # -2, ret' = -1 => SomeBroken
    PROVE  Counted'
<1>1. Reach' = Reach /\ SomeBroken' = SomeBroken
  BY ReachKept DEF fsVars
<1>2. QED
  BY <1>1 DEF Counted

(* A walk never sees a file that the root does not lead to. *)
LEMMA VisitSeen ==
    ASSUME RInv, AlreadyListed \/ GetSections \/ VisitNeeded
    PROVE  Seen' /\ Counted'
<1> DEFINE n == Len(stack)
<1>0. /\ TypeOK /\ Walking /\ IInv /\ Seen /\ Counted /\ pc # "done"
      /\ needed' = needed /\ noDynstr' = noDynstr /\ root' = root
      /\ UNCHANGED <<fsVars, pass, listSize, depCount>> /\ depList' = depList
  BY DEF RInv, IInv, AlreadyListed, GetSections, VisitNeeded, fsVars, Walking, ReturnError
<1>1. Reach' = Reach
  BY <1>0, ReachKept
<1>2. \A i \in 1 .. Len(depList') : depList'[i] \in Reach' /\ depList'[i] \notin noDynstr'
  BY <1>0, <1>1 DEF Seen
<1>3. /\ n \in Nat /\ n > 0 /\ n \in 1 .. n /\ stack \in Seq(Frame)
      /\ \A k \in 1 .. n : stack[k] \in Frame /\ stack[k].at \in Nat
  BY <1>0, WalkTypes DEF TypeOK
<1>4. CASE AlreadyListed
  <2>1. ReturnOK
    BY <1>4 DEF AlreadyListed
  <2>2. /\ Len(stack') = n - 1
        /\ \A k \in 1 .. n - 1 : stack'[k].fse = stack[k].fse
    BY <1>0, <2>1, ReturnOKShape
  <2>3. ASSUME NEW k \in 1 .. n - 1
        PROVE  stack[k].fse \in Reach /\ stack[k].fse \notin noDynstr
    <3>1. k \in 1 .. n /\ CallInv(k)
      BY <1>0, <1>3 DEF IInv, StackInv
    <3>2. stack[k].at > 0
      BY <1>3, <3>1 DEF CallInv
    <3>3. QED
      BY <1>0, <3>1, <3>2 DEF Seen
  <2>4. Seen'
    BY <1>0, <1>1, <1>2, <2>2, <2>3 DEF Seen
  <2>5. pc' # "done" /\ ret' = 0
    BY <2>1 DEF ReturnOK
  <2>6. QED
    BY <1>0, <2>4, <2>5, CountedKept
<1>5. CASE ReturnError(-1)
  <2>1. Seen'
    BY <1>0, <1>1, <1>2, <1>5 DEF Seen, ReturnError
  <2>2. Top.fse \in Reach
    BY <1>0, <1>3 DEF Seen, Top
  <2>3. Broken(Top.fse)
    <3>1. CASE AlreadyListed
      BY <1>5, <3>1 DEF AlreadyListed, ReturnOK, ReturnError
    <3>2. CASE GetSections
      <4>1. CASE NoSections(Top.fse)
        BY <4>1 DEF NoSections, Broken
      <4>2. CASE ~NoSections(Top.fse)
        BY <1>0, <1>5, <3>2, <4>2 DEF GetSections, ReturnError, Walking
      <4>3. QED
        BY <4>1, <4>2
    <3>3. CASE VisitNeeded
      <4>1. CASE ~Found(DepOf(Top))
        BY <3>3, <4>1 DEF VisitNeeded, Broken, DepOf
      <4>2. CASE Found(DepOf(Top))
        BY <1>0, <1>5, <3>3, <4>2 DEF VisitNeeded, ReturnError, Walking
      <4>3. QED
        BY <4>1, <4>2
    <3>4. QED
      BY <3>1, <3>2, <3>3
  <2>4. pc' # "done" /\ ret' = -1 /\ SomeBroken
    BY <1>5, <2>2, <2>3 DEF ReturnError, SomeBroken
  <2>5. QED
    BY <1>0, <2>1, <2>4, CountedKept
<1>6. CASE GetSections /\ ~ReturnError(-1)
  <2>1. /\ stack' = [stack EXCEPT ![n] = [stack[n] EXCEPT !.at = 1]]
        /\ stack[n].fse \notin noDynstr /\ UNCHANGED <<ret, pc>>
    BY <1>6 DEF GetSections, Top, Enter, NoSections
  <2>2. /\ Len(stack') = n
        /\ \A k \in 1 .. n : stack'[k] = IF k = n THEN [stack[n] EXCEPT !.at = 1] ELSE stack[k]
    BY <1>3, <2>1, ExceptSeq
  <2>3. ASSUME NEW k \in 1 .. n
        PROVE  /\ stack'[k].fse \in Reach
               /\ stack'[k].at > 0 => stack'[k].fse \notin noDynstr
    <3>1. CASE k = n
      BY <1>0, <1>3, <2>1, <2>2, <3>1 DEF Seen, Frame
    <3>2. CASE k # n
      BY <1>0, <2>2, <3>2 DEF Seen
    <3>3. QED
      BY <3>1, <3>2
  <2>4. Seen'
    BY <1>0, <1>1, <1>2, <2>2, <2>3 DEF Seen
  <2>5. pc' # "done" /\ ret' # -2 /\ (ret' = -1 => SomeBroken)
    BY <1>0, <2>1 DEF Counted
  <2>6. QED
    BY <1>0, <2>4, <2>5, CountedKept
<1>7. CASE VisitNeeded /\ ~ReturnError(-1)
  <2>1. CASE pc' = "fault"
    <3>1. UNCHANGED <<stack, ret>>
      BY <1>0, <1>7, <2>1 DEF VisitNeeded, Walking
    <3>2. Seen'
      BY <1>0, <1>1, <1>2, <3>1 DEF Seen
    <3>3. pc' # "done" /\ ret' # -2 /\ (ret' = -1 => SomeBroken)
      BY <1>0, <2>1, <3>1 DEF Counted
    <3>4. QED
      BY <1>0, <3>2, <3>3, CountedKept
  <2>2. CASE pc' # "fault"
    <3>1. /\ Top.at \in 1 .. Len(needed[Top.fse]) /\ DepOf(Top) # Missing
          /\ stack' = Append(stack, Call(DepOf(Top))) /\ UNCHANGED <<ret, pc>>
      BY <1>7, <2>2 DEF VisitNeeded, Found
    <3>2. DepOf(Top) \in Reach /\ DepOf(Top) \in Files
      <4>1. Top.fse \in Reach
        BY <1>0, <1>3 DEF Seen, Top
      <4>2. QED
        BY <1>0, <3>1, <4>1, ReachClosed DEF DepOf
    <3>3. Call(DepOf(Top)) \in Frame /\ Call(DepOf(Top)).fse = DepOf(Top)
          /\ Call(DepOf(Top)).at = 0
      BY <3>2 DEF Call, Frame
    <3>4. /\ Len(stack') = n + 1
          /\ \A k \in 1 .. n : stack'[k] = stack[k]
          /\ stack'[n + 1] = Call(DepOf(Top))
      BY <1>3, <3>1, <3>3, AppendProperties
    <3>5. \A k \in 1 .. n + 1 : k \in 1 .. n \/ k = n + 1
      BY <1>3
    <3>6. ASSUME NEW k \in 1 .. n + 1
          PROVE  /\ stack'[k].fse \in Reach
                 /\ stack'[k].at > 0 => stack'[k].fse \notin noDynstr
      <4>1. CASE k = n + 1
        BY <3>2, <3>3, <3>4, <4>1
      <4>2. CASE k \in 1 .. n
        BY <1>0, <3>4, <4>2 DEF Seen
      <4>3. QED
        BY <3>5, <4>1, <4>2
    <3>7. Seen'
      BY <1>0, <1>1, <1>2, <3>4, <3>6 DEF Seen
    <3>8. pc' # "done" /\ ret' # -2 /\ (ret' = -1 => SomeBroken)
      BY <1>0, <3>1 DEF Counted
    <3>9. QED
      BY <1>0, <3>7, <3>8, CountedKept
  <2>3. QED
    BY <2>1, <2>2
<1>8. QED
  BY <1>4, <1>5, <1>6, <1>7

(* There is room for a file whose dependencies are all listed: the list lies in
   Files, and in what the root leads to, without that file. *)
LEMMA RoomLeft ==
    ASSUME RInv, Walking, Top.at > Len(needed[Top.fse])
    PROVE  Len(depList) # listSize
<1>1. /\ TypeOK /\ NoDuplicates /\ Top.fse \in Files /\ ~Listed(Top.fse)
  BY AddFseFacts DEF RInv, IInv
<1>2. Top.fse \in Reach
  BY <1>1, WalkTypes DEF RInv, Seen, Top
<1>3. \A i \in 1 .. Len(depList) : depList[i] \in Files /\ depList[i] \in Reach
  BY <1>1, WalkTypes DEF RInv, Seen
<1>4. CASE pass = "count"
  <2>1. Len(depList) # Cardinality(Files)
    BY <1>1, <1>3, FilesAssumption, ListFits
  <2>2. QED
    BY <1>4, <2>1 DEF RInv, Counted
<1>5. CASE pass = "build"
  <2>1. IsFiniteSet(Reach)
    BY <1>1, FilesAssumption, FS_Subset, ReachClosed
  <2>2. Len(depList) # Cardinality(Reach) /\ Len(depList) \in Nat
    BY <1>1, <1>2, <1>3, <2>1, ListFits
  <2>3. Len(depList) # -1
    BY <2>2
  <2>4. QED
    BY <1>5, <2>2, <2>3 DEF RInv, Counted
<1>6. QED
  BY <1>1, <1>4, <1>5 DEF TypeOK

(* Listing a file: it is one the root leads to, and its sections are there. *)
LEMMA AddFseSeen ==
    ASSUME RInv, AddFse
    PROVE  Seen' /\ Counted'
<1> DEFINE n == Len(stack)
           m == Len(depList)
<1>0. /\ TypeOK /\ Walking /\ IInv /\ Seen /\ Counted /\ pc # "done"
      /\ needed' = needed /\ noDynstr' = noDynstr /\ root' = root
      /\ UNCHANGED <<fsVars, pass, listSize, depCount>> /\ Top.at > Len(needed[Top.fse])
  BY DEF RInv, IInv, AddFse, fsVars, Walking
<1>1. Reach' = Reach
  BY <1>0, ReachKept
<1>2. depList' = Append(depList, Top.fse) /\ ReturnOK
  BY <1>0, RoomLeft DEF AddFse
<1>3. /\ n \in Nat /\ n > 0 /\ n \in 1 .. n /\ m \in Nat
      /\ \A k \in 1 .. n : stack[k].at \in Nat /\ Len(needed[stack[k].fse]) \in Nat
  BY <1>0, WalkTypes
<1>4. Top.fse \in Files /\ Top.fse \in Reach /\ Top.fse \notin noDynstr
  <2>1. stack[n].at > 0
    BY <1>0, <1>3 DEF Top
  <2>2. QED
    BY <1>0, <1>3, <2>1, AddFseFacts DEF Seen, Top
<1>5. /\ Len(depList') = m + 1 /\ \A l \in 1 .. m : depList'[l] = depList[l]
      /\ depList'[m + 1] = Top.fse
  BY <1>0, <1>2, <1>4, AppendProperties DEF TypeOK
<1>6. ASSUME NEW i \in 1 .. m + 1
      PROVE  depList'[i] \in Reach /\ depList'[i] \notin noDynstr
  <2>1. i \in 1 .. m \/ i = m + 1
    BY <1>3
  <2>2. QED
    BY <1>0, <1>4, <1>5, <2>1 DEF Seen
<1>7. /\ Len(stack') = n - 1
      /\ \A k \in 1 .. n - 1 : stack'[k].fse = stack[k].fse
  BY <1>0, <1>2, ReturnOKShape
<1>8. ASSUME NEW k \in 1 .. n - 1
      PROVE  stack[k].fse \in Reach /\ stack[k].fse \notin noDynstr
  <2>1. k \in 1 .. n /\ CallInv(k)
    BY <1>0, <1>3 DEF IInv, StackInv
  <2>2. stack[k].at > 0
    BY <1>3, <2>1 DEF CallInv
  <2>3. QED
    BY <1>0, <2>1, <2>2 DEF Seen
<1>9. Seen'
  BY <1>0, <1>1, <1>5, <1>6, <1>7, <1>8 DEF Seen
<1>10. pc' # "done" /\ ret' = 0
  BY <1>2 DEF ReturnOK
<1>11. QED
  BY <1>0, <1>9, <1>10, CountedKept

(* The count that the second pass starts from is the number of files the root
   leads to, or the error of the first pass. *)
LEMMA ReturnedSeen ==
    ASSUME RInv, CountReturned \/ BuildReturned
    PROVE  Seen' /\ Counted'
<1>0. /\ IInv /\ TypeOK /\ Seen /\ Counted /\ pc = "returned"
      /\ needed' = needed /\ noDynstr' = noDynstr /\ root' = root
  BY DEF RInv, IInv, CountReturned, BuildReturned, fsVars
<1>1. Reach' = Reach /\ SomeBroken' = SomeBroken
  BY <1>0, ReachKept
<1>2. CASE CountReturned
  <2>1. /\ depCount' = DepCount /\ listSize' = DepCount /\ pass' = "build"
        /\ stack' = <<Call(root)>> /\ depList' = <<>> /\ ret' = 0 /\ pc' = "walk"
    BY <1>2 DEF CountReturned
  <2>2. Len(stack') = 1 /\ stack'[1].fse = root /\ stack'[1].at = 0 /\ Len(depList') = 0
    BY <2>1 DEF Call
  <2>3. root \in Reach
    BY <1>0, ReachClosed
  <2>4. Seen'
    BY <1>0, <1>1, <2>2, <2>3 DEF Seen
  <2>5. CASE ret = 0
    <3>1. ~SomeBroken /\ DepCount = Cardinality(Reach)
      BY <1>0, <2>5, FinishedList DEF DepCount
    <3>2. QED
      BY <1>1, <2>1, <2>4, <3>1 DEF Counted
  <2>6. CASE ret # 0
    <3>1. ret = -1 /\ SomeBroken
      BY <1>0, <2>6 DEF Counted, TypeOK
    <3>2. DepCount = -1
      BY <2>6, <3>1 DEF DepCount
    <3>3. QED
      BY <1>1, <2>1, <2>4, <3>1, <3>2 DEF Counted
  <2>7. QED
    BY <2>5, <2>6
<1>3. CASE BuildReturned
  <2>1. UNCHANGED <<pass, stack, depList, listSize, depCount, ret>> /\ pass = "build"
    BY <1>3 DEF BuildReturned
  <2>2. Seen'
    BY <1>0, <1>1, <2>1 DEF Seen
  <2>3. Counted'
    BY <1>0, <1>1, <2>1 DEF Counted
  <2>4. QED
    BY <2>2, <2>3
<1>4. QED
  BY <1>2, <1>3

(* RInv is inductive. *)
LEMMA NextRInv == RInv /\ [Next]_vars => RInv'
<1> SUFFICES ASSUME RInv, [Next]_vars PROVE RInv'
  OBVIOUS
<1>0. IInv'
  BY NextIInv DEF RInv
<1>1. CASE AlreadyListed \/ GetSections \/ VisitNeeded
  BY <1>0, <1>1, VisitSeen DEF RInv
<1>2. CASE AddFse
  BY <1>0, <1>2, AddFseSeen DEF RInv
<1>3. CASE CountReturned \/ BuildReturned
  BY <1>0, <1>3, ReturnedSeen DEF RInv
<1>4. CASE UNCHANGED vars
  <2>1. Reach' = Reach /\ SomeBroken' = SomeBroken
    BY <1>4, ReachKept DEF vars
  <2>2. Seen'
    BY <1>4, <2>1 DEF vars, RInv, Seen
  <2>3. Counted'
    BY <1>4, <2>1 DEF vars, RInv, Counted
  <2>4. QED
    BY <1>0, <2>2, <2>3 DEF RInv
<1>5. QED
  BY <1>1, <1>2, <1>3, <1>4 DEF Next

(* Both passes see only what the root leads to, and agree on it. *)
THEOREM PassesAgree == Spec => []RInv
<1>1. Init => RInv
  <2> SUFFICES ASSUME Init PROVE RInv
    OBVIOUS
  <2>1. IInv /\ TypeOK
    BY InitIInv DEF IInv
  <2>2. Len(stack) = 1 /\ stack[1].fse = root /\ stack[1].at = 0 /\ Len(depList) = 0
    BY DEF Init, Call
  <2>3. root \in Reach
    BY <2>1, ReachClosed
  <2>4. Seen
    BY <2>2, <2>3 DEF Seen
  <2>5. Counted
    BY DEF Init, Counted
  <2>6. QED
    BY <2>1, <2>4, <2>5 DEF RInv
<1>2. QED
  BY <1>1, NextRInv, PTL DEF Spec

(* The array uld_dyn_exec_fse allocates always fits: the count pass returns the
   number of files the build pass lists, for every graph, and -2 never occurs. *)
THEOREM ArrayNeverOverflows == Spec => []CountSuffices
<1>1. RInv => CountSuffices
  <2> SUFFICES ASSUME RInv PROVE CountSuffices
    OBVIOUS
  <2>1. IInv /\ TypeOK /\ NoDuplicates /\ Seen /\ Counted
    BY DEF RInv, IInv
  <2>2. IsFiniteSet(Reach) /\ Reach \subseteq Files
    BY <2>1, FilesAssumption, FS_Subset, ReachClosed
  <2>3. /\ Len(depList) <= Cardinality(Reach) /\ Cardinality(Reach) \in Nat
        /\ Len(depList) <= Cardinality(Files)
    BY <2>1, <2>2, FilesAssumption, ListFits DEF Seen
  <2>4. depCount >= 0 => Len(depList) <= listSize
    BY <2>1, <2>3 DEF Counted, TypeOK
  <2>5. ASSUME pc = "done"
        PROVE  (ret = 0 /\ Len(depList) = depCount) \/ (ret = depCount /\ ret < 0)
    <3>1. pass = "build"
      BY <2>1, <2>5 DEF Counted
    <3>2. CASE ret = 0
      BY <2>1, <2>5, <3>1, <3>2, FinishedList DEF Counted
    <3>3. CASE ret = -1
      BY <2>1, <3>1, <3>3 DEF Counted
    <3>4. QED
      BY <2>1, <3>2, <3>3 DEF Counted, TypeOK
  <2>6. QED
    BY <2>1, <2>4, <2>5 DEF CountSuffices, Counted
<1>2. QED
  BY <1>1, PassesAgree, PTL

(* The walk fails exactly where the executed file leads to a broken one, and
   otherwise lists exactly the files it leads to. *)
THEOREM ErrorsAreExact == Spec => []ErrorIffBroken
<1>1. RInv => ErrorIffBroken
  <2> SUFFICES ASSUME RInv, pc \in {"returned", "done"}
               PROVE  IF SomeBroken THEN ret = -1
                      ELSE ret = 0 /\ {depList[i] : i \in 1 .. Len(depList)} = Reach
    BY DEF ErrorIffBroken, SomeBroken
  <2>1. IInv /\ TypeOK /\ Seen /\ Counted
    BY DEF RInv, IInv
  <2>2. CASE ret = 0
    BY <2>1, <2>2, FinishedList
  <2>3. CASE ret # 0
    BY <2>1, <2>3 DEF Counted, TypeOK
  <2>4. QED
    BY <2>2, <2>3
<1>2. QED
  BY <1>1, PassesAgree, PTL
=============================================================================
