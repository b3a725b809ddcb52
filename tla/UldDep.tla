------------------------------- MODULE UldDep -------------------------------
(***************************************************************************)
(* The dependency walk of uld_dyn.c.  uld_dyn_exec_fse walks the DT_NEEDED *)
(* graph twice: uld_dyn_get_fse_dep_count sizes the list (pass "count")    *)
(* and uld_dyn_create_fse_dep_list fills an array of that size (pass       *)
(* "build").  The walk is a recursive C function; its call stack is state  *)
(* here, one frame per active call.  frame.at is 0 when the call has just  *)
(* been made, and otherwise the index of the DT_NEEDED entry it is at.     *)
(*                                                                         *)
(* A definition X_Y is the definition X with the mistake Y in it; it is    *)
(* used by no specification, only to see that a property rejects it.       *)
(***************************************************************************)
EXTENDS Integers, Sequences, FiniteSets

CONSTANTS Files,       \* entries of the file system table
          Missing,     \* a DT_NEEDED name that no entry of the table carries
          Stores,      \* the contents the file system may have
          StackDepth   \* calls the RAM below the linker's data leaves room for

ASSUME FilesAssumption == IsFiniteSet(Files) /\ Missing \notin Files
ASSUME StoresAssumption ==
    \A s \in Stores : /\ s.needed \in [Files -> Seq(Files \cup {Missing})]
                      /\ s.noDynstr \subseteq Files
ASSUME StackDepthAssumption == StackDepth \in Nat \ {0}

VARIABLES needed,     \* the DT_NEEDED entries of each file; <<>> without .dynamic
          noDynstr,   \* the files with a .dynamic section and no .dynstr section
          root,       \* the file to execute
          pass,       \* which of the two walks is running
          stack,      \* the active calls, the innermost last
          depList,    \* dep_list[0 .. idx - 1]
          listSize,   \* list_size
          depCount,   \* what the count pass returned
          ret,        \* what the walk returned
          pc          \* "walk", "returned", "done", or "fault": out of stack

fsVars == <<needed, noDynstr, root>>
vars == <<needed, noDynstr, root, pass, stack, depList, listSize, depCount, ret, pc>>

Frame == [fse : Files, at : Nat]
Listed_SkipsFirst(f) == \E i \in 2 .. Len(depList) : depList[i] = f
Listed(f) == \E i \in 1 .. Len(depList) : depList[i] = f
Top == stack[Len(stack)]
Call(f) == [fse |-> f, at |-> 0]

(* The first DT_NEEDED entry of the call, and the one after the current. *)
Enter_SkipsFirst(fr) == [fr EXCEPT !.at = 2]
Enter(fr) == [fr EXCEPT !.at = 1]
Advance_Stays(fr) == fr
Advance(fr) == [fr EXCEPT !.at = @ + 1]

(* The name at the entry the call is at, and whether the table has it. *)
DepOf(fr) == needed[fr.fse][fr.at]
Found(dep) == dep # Missing

(* get_sections fails: .dynamic is there, .dynstr is not. *)
NoSections_NeedsDynamic(f) == needed[f] = <<>>
NoSections(f) == f \in noDynstr

(* The processor has stack for another call. *)
StackLeft == Len(stack) < StackDepth

(* What uld_dyn_get_fse_dep_count returns. *)
DepCount_OffByOne == IF ret = 0 THEN Len(depList) - 1 ELSE ret
DepCount == IF ret = 0 THEN Len(depList) ELSE ret

TypeOK ==
    /\ needed \in [Files -> Seq(Files \cup {Missing})]
    /\ noDynstr \subseteq Files
    /\ root \in Files
    /\ pass \in {"count", "build"}
    /\ stack \in Seq(Frame)
    /\ depList \in Seq(Files)
    /\ listSize \in Int
    /\ depCount \in Int
    /\ ret \in {-2, -1, 0}
    /\ pc \in {"walk", "returned", "done", "fault"}

(* uld_dyn_get_fse_dep_count: an empty list as long as the file table.  The -1
   for no entry at all is left out: main stops at a swbkpt() where the table has
   no such file, and the walk calls itself only for entries it has found. *)
Init ==
    /\ \E s \in Stores : needed = s.needed /\ noDynstr = s.noDynstr
    /\ root \in Files
    /\ pass = "count"
    /\ stack = <<Call(root)>>
    /\ depList = <<>>
    /\ listSize = Cardinality(Files)
    /\ depCount = 0
    /\ ret = 0
    /\ pc = "walk"

Walking == pc = "walk" /\ Len(stack) > 0

(* A nonzero return is returned by every active call in turn. *)
ReturnError(code) ==
    /\ ret' = code
    /\ stack' = <<>>
    /\ pc' = "returned"
    /\ UNCHANGED depList

(* The innermost call returns 0: its caller goes on to its next entry. *)
ReturnOK ==
    /\ stack' = [k \in 1 .. Len(stack) - 1 |->
                   IF k = Len(stack) - 1 THEN Advance(stack[k]) ELSE stack[k]]
    /\ pc' = IF Len(stack) = 1 THEN "returned" ELSE "walk"
    /\ ret' = 0

(* The call is made for a file that dep_list holds already. *)
AlreadyListed ==
    /\ Walking
    /\ Top.at = 0
    /\ Listed(Top.fse)
    /\ ReturnOK
    /\ UNCHANGED <<fsVars, pass, depList, listSize, depCount>>

(* A file without .dynamic has no entries to visit: needed is <<>>. *)
GetSections ==
    /\ Walking
    /\ Top.at = 0
    /\ ~Listed(Top.fse)
    /\ \/ /\ NoSections(Top.fse)
          /\ ReturnError(-1)
       \/ /\ ~NoSections(Top.fse)
          /\ stack' = [stack EXCEPT ![Len(stack)] = Enter(@)]
          /\ UNCHANGED <<depList, ret, pc>>
    /\ UNCHANGED <<fsVars, pass, listSize, depCount>>

(* Look the next DT_NEEDED name up and call for the file it names. *)
VisitNeeded ==
    /\ Walking
    /\ Top.at \in 1 .. Len(needed[Top.fse])
    /\ \/ /\ ~Found(DepOf(Top))
          /\ ReturnError(-1)
       \/ /\ Found(DepOf(Top)) /\ StackLeft
          /\ stack' = Append(stack, Call(DepOf(Top)))
          /\ UNCHANGED <<depList, ret, pc>>
       \/ /\ Found(DepOf(Top)) /\ ~StackLeft
          /\ pc' = "fault"
          /\ UNCHANGED <<stack, depList, ret>>
    /\ UNCHANGED <<fsVars, pass, listSize, depCount>>

(* All dependencies are listed: list the file itself, if there is room. *)
AddFse ==
    /\ Walking
    /\ Top.at > Len(needed[Top.fse])
    /\ \/ /\ Len(depList) = listSize
          /\ ReturnError(-2)
       \/ /\ Len(depList) # listSize
          /\ depList' = Append(depList, Top.fse)
          /\ ReturnOK
    /\ UNCHANGED <<fsVars, pass, listSize, depCount>>

(* uld_dyn_exec_fse takes the count, or the error code it got in its place,
   and walks again with an array of that size. *)
CountReturned ==
    /\ pc = "returned"
    /\ pass = "count"
    /\ depCount' = DepCount
    /\ listSize' = DepCount
    /\ pass' = "build"
    /\ stack' = <<Call(root)>>
    /\ depList' = <<>>
    /\ ret' = 0
    /\ pc' = "walk"
    /\ UNCHANGED fsVars

BuildReturned ==
    /\ pc = "returned"
    /\ pass = "build"
    /\ pc' = "done"
    /\ UNCHANGED <<fsVars, pass, stack, depList, listSize, depCount, ret>>

Next ==
    \/ AlreadyListed
    \/ GetSections
    \/ VisitNeeded
    \/ AddFse
    \/ CountReturned
    \/ BuildReturned

Spec == Init /\ [][Next]_vars

(* The linker is a single thread that nothing preempts. *)
FairSpec == Spec /\ WF_vars(Next)
-----------------------------------------------------------------------------
(* Properties *)

(* Every file is listed after all the files its DT_NEEDED entries name, which
   is what lets uld_dyn_link_file_list resolve against lower indexes only and
   uld_dyn_exec_fse run constructors in list order. *)
DepsFirst ==
    \A i \in 1 .. Len(depList) : \A j \in 1 .. Len(needed[depList[i]]) :
        \E m \in 1 .. i - 1 : depList[m] = needed[depList[i]][j]

(* No file is listed, and so loaded and constructed, twice, not even where two
   libraries share a dependency or the dependencies form a cycle. *)
NoDuplicates ==
    \A i, j \in 1 .. Len(depList) : depList[i] = depList[j] => i = j

(* "On return dep_list[idx - 1] == fse": the last file of a finished walk is
   the one uld_dyn_exec_fse will enter. *)
RootLast ==
    (pc \in {"returned", "done"} /\ ret = 0) =>
        Len(depList) > 0 /\ depList[Len(depList)] = root

(* A finished walk lists nothing it need not: every file but the root is there
   because a later file of the list needs it. *)
NoStrays ==
    (pc \in {"returned", "done"} /\ ret = 0) =>
        \A i \in 1 .. Len(depList) - 1 : \E j \in i + 1 .. Len(depList) :
            \E m \in 1 .. Len(needed[depList[j]]) : needed[depList[j]][m] = depList[i]

(* Neither array overflows: the file table bounds the count pass, and the count
   it returns is exactly what the build pass needs, which never gives -2. *)
CountSuffices ==
    /\ ret # -2
    /\ depCount >= 0 => Len(depList) <= listSize
    /\ pc = "done" => (ret = 0 /\ Len(depList) = depCount) \/ (ret = depCount /\ ret < 0)

(* The files that calling for the root leads to, over names that are found: the
   least set with the root in it that is closed under DT_NEEDED. *)
Closed(C) == \A f \in C : \A j \in 1 .. Len(needed[f]) :
                Found(needed[f][j]) => needed[f][j] \in C
Reach == {f \in Files : \A C \in SUBSET Files : root \in C /\ Closed(C) => f \in C}
Broken(f) == \/ f \in noDynstr
             \/ \E j \in 1 .. Len(needed[f]) : ~Found(needed[f][j])

(* An error is never spurious and never missed: a walk fails if and only if a
   file that the root leads to is broken, and one that does not fail has listed
   exactly the files the root leads to. *)
ErrorIffBroken ==
    pc \in {"returned", "done"} =>
        IF \E f \in Reach : Broken(f) THEN ret = -1
        ELSE ret = 0 /\ {depList[i] : i \in 1 .. Len(depList)} = Reach

(* The strengthening that makes the properties above inductive: what the call
   stack of the recursion knows about the list.  A call has listed the entries
   before the one it is at, the call above it is for the entry it is at, and
   no file on the stack is listed while its call is past the first test. *)
FrameInv(k) ==
    /\ stack[k].at <= Len(needed[stack[k].fse]) + 1
    /\ \A j \in 1 .. stack[k].at - 1 : Listed(needed[stack[k].fse][j])
    /\ stack[k].at > 0 => ~Listed(stack[k].fse)

CallInv(k) ==
    /\ stack[k].at \in 1 .. Len(needed[stack[k].fse])
    /\ needed[stack[k].fse][stack[k].at] = stack[k + 1].fse

StackInv ==
    /\ (pc \in {"walk", "fault"}) <=> (Len(stack) > 0)
    /\ \A k \in 1 .. Len(stack) : FrameInv(k)
    /\ \A k \in 1 .. Len(stack) - 1 : CallInv(k)
    /\ Len(stack) > 0 => stack[1].fse = root
    /\ (Len(stack) > 0 /\ stack[1].at = 0) => depList = <<>>

(* Every listed file is wanted: by a later file of the list, or by an active
   call that has passed the entry that names it. *)
Wanted(i) ==
    \/ \E j \in i + 1 .. Len(depList) :
          \E m \in 1 .. Len(needed[depList[j]]) : needed[depList[j]][m] = depList[i]
    \/ \E k \in 1 .. Len(stack) :
          \E m \in 1 .. stack[k].at - 1 : needed[stack[k].fse][m] = depList[i]

WantedInv ==
    Len(stack) > 0 => \A i \in 1 .. Len(depList) : Wanted(i)

IInv == TypeOK /\ DepsFirst /\ NoDuplicates /\ StackInv /\ RootLast
WInv == IInv /\ WantedInv /\ NoStrays

(* The walk implements the abstract load order: seen from the array that
   uld_dyn_exec_fse loads from, each step lists one file after all it needs. *)
LO == INSTANCE LoadOrder WITH
        order <- IF pass = "build" THEN depList ELSE <<>>,
        closed <- pc = "done" /\ ret = 0
RefinesLoadOrder == LO!LoadOrderSpec
=============================================================================
