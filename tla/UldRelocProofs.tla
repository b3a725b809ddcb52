--------------------------- MODULE UldRelocProofs ---------------------------
(***************************************************************************)
(* Proofs about UldReloc, for every file table, every placement of its     *)
(* files and every pattern of power cuts.                                  *)
(***************************************************************************)
EXTENDS UldReloc, WellFoundedInduction, TLAPS

(* A set of addresses that is not empty has a lowest member. *)
LEMMA LeastAddress ==
    ASSUME NEW T, T \subseteq Nat, T # {}
    PROVE  \E p \in T : \A q \in T : p <= q
<1>1. IsWellFoundedOn(OpToRel(<, Nat), Nat)
  BY NatLessThanWellFounded
<1>2. PICK p \in T : \A q \in T : ~(<<q, p>> \in OpToRel(<, Nat))
  BY <1>1, WFMin
<1>3. ASSUME NEW q \in T
      PROVE  p <= q
  <2>1. p \in Nat /\ q \in Nat
    OBVIOUS
  <2>2. ~(q < p)
    BY <1>2, <2>1 DEF OpToRel
  <2>3. QED
    BY <2>1, <2>2
<1>4. QED
  BY <1>2, <1>3

(* Rounding up never rounds down. *)
LEMMA AlignUpGrows ==
    ASSUME NEW n \in Nat
    PROVE  AlignUp(n) \in Nat /\ AlignUp(n) >= n
<1>1. Align \in Nat /\ Align > 0
  BY RegionAssumption
<1>2. (-n) % Align \in 0 .. Align - 1
  BY <1>1
<1>3. QED
  BY <1>1, <1>2 DEF AlignUp

(* Every gap uld_fs_find_free_space considers is inside the region and apart
   from every file: what lies below the gap ends where it starts, and what
   lies above starts where it ends. *)
LEMMA FreeStartIsFree ==
    ASSUME NoOverlap, base \in [Files -> Nat], NEW f \in Files,
           NEW size \in Nat, size >= Size[f], NEW p \in FreeStarts(size)
    PROVE  /\ p \in Nat /\ FilesBase <= p /\ p + Size[f] <= FilesBase + FilesSize
           /\ \A h \in Files : Apart(p, f, base[h], h)
<1>1. /\ FilesBase \in Nat /\ FilesSize \in Nat
      /\ \A h \in Files : Size[h] \in Nat /\ Size[h] > 0 /\ base[h] \in Nat
  BY RegionAssumption, SizeAssumption
<1>2. \A h \in Files : /\ End(h) \in Nat /\ End(h) = base[h] + Size[h]
                       /\ FilesBase <= base[h] /\ End(h) <= FilesBase + FilesSize
  BY <1>1 DEF End, NoOverlap
<1>3. \A g, h \in Files : g # h => End(g) <= base[h] \/ End(h) <= base[g]
  BY DEF NoOverlap, Apart, End
<1>4. CASE \E g \in Files : First(g) /\ base[g] - FilesBase >= size /\ p = FilesBase
  <2>1. PICK g \in Files : First(g) /\ base[g] - FilesBase >= size /\ p = FilesBase
    BY <1>4
  <2>2. \A h \in Files : p + Size[f] <= base[h]
    BY <1>1, <2>1 DEF First
  <2>3. p + Size[f] <= FilesBase + FilesSize
    <3>1. p + Size[f] <= base[f] /\ base[f] <= FilesBase + FilesSize
      BY <1>1, <1>2, <2>2
    <3>2. QED
      BY <1>1, <2>1, <3>1
  <2>4. QED
    BY <1>1, <2>1, <2>2, <2>3 DEF Apart
<1>5. CASE \E g, h \in Files : NextAbove(g, h) /\ base[h] - End(g) >= size /\ p = End(g)
  <2>1. PICK g \in Files, h \in Files :
            NextAbove(g, h) /\ base[h] - End(g) >= size /\ p = End(g)
    BY <1>5
  <2>2. p \in Nat /\ FilesBase <= p /\ p + Size[f] <= base[h] /\ base[h] <= FilesBase + FilesSize
    BY <1>1, <1>2, <2>1
  <2>3. ASSUME NEW k \in Files
        PROVE  Apart(p, f, base[k], k)
    <3>1. CASE base[k] >= base[h]
      BY <1>1, <2>2, <3>1 DEF Apart
    <3>2. CASE base[k] <= base[g]
      <4>1. End(k) <= p
        BY <1>1, <1>2, <1>3, <2>1, <3>2
      <4>2. QED
        BY <1>2, <4>1 DEF Apart
    <3>3. QED
      BY <2>1, <3>1, <3>2 DEF NextAbove
  <2>4. QED
    BY <1>1, <2>2, <2>3
<1>6. CASE \E g \in Files : Last(g) /\ FilesBase + FilesSize - End(g) >= size /\ p = End(g)
  <2>1. PICK g \in Files : Last(g) /\ FilesBase + FilesSize - End(g) >= size /\ p = End(g)
    BY <1>6
  <2>2. p \in Nat /\ FilesBase <= p /\ p + Size[f] <= FilesBase + FilesSize
    BY <1>1, <1>2, <2>1
  <2>3. ASSUME NEW k \in Files
        PROVE  Apart(p, f, base[k], k)
    <3>1. base[k] <= base[g]
      BY <2>1 DEF Last
    <3>2. End(k) <= p
      BY <1>1, <1>2, <1>3, <2>1, <3>1
    <3>3. QED
      BY <1>2, <3>2 DEF Apart
  <2>4. QED
    BY <2>2, <2>3
<1>7. QED
  BY <1>4, <1>5, <1>6 DEF FreeStarts

(* What uld_fs_find_free_space returns is free space for the file. *)
LEMMA FoundSpaceIsFree ==
    ASSUME NoOverlap, base \in [Files -> Nat], NEW f \in Files,
           FindFreeSpace(Size[f]) # NULL
    PROVE  LET p == FindFreeSpace(Size[f])
           IN  /\ p \in Nat /\ FilesBase <= p /\ p + Size[f] <= FilesBase + FilesSize
               /\ \A h \in Files : Apart(p, f, base[h], h)
<1> DEFINE size == AlignUp(Size[f])
           starts == FreeStarts(size)
<1>1. Size[f] \in Nat /\ size \in Nat /\ size >= Size[f]
  BY SizeAssumption, AlignUpGrows
<1>2. starts # {} /\ FindFreeSpace(Size[f]) = CHOOSE p \in starts : \A q \in starts : p <= q
  BY DEF FindFreeSpace
<1>3. starts \subseteq Nat
  BY <1>1, FreeStartIsFree
<1>4. \E p \in starts : \A q \in starts : p <= q
  BY <1>2, <1>3, LeastAddress
<1>5. FindFreeSpace(Size[f]) \in starts
  BY <1>2, <1>4
<1>6. QED
  BY <1>1, <1>5, FreeStartIsFree

-----------------------------------------------------------------------------
(* The image of a file, cell by cell. *)
Whole(f) == \A o \in 0 .. Size[f] - 1 :
               flash[base[f] + o] = [file |-> f, off |-> o, base |-> base[f]]

LEMMA IntactCells == ImagesIntact <=> \A f \in Files : Whole(f)
  BY DEF ImagesIntact, Image, Linked, Whole

(* Constants and variables as the steps below use them. *)
LEMMA RelocTypes ==
    ASSUME TypeOK
    PROVE  /\ FilesBase \in Nat /\ FilesSize \in Nat
           /\ \A f \in Files : Size[f] \in Nat /\ Size[f] > 0 /\ base[f] \in Nat
           /\ cur \in Files /\ dest \in Nat /\ at \in Nat
  BY RegionAssumption, SizeAssumption DEF TypeOK

(* A step that touches neither the flash nor the table, and leaves the move
   states, keeps the invariant. *)
LEMMA LeaveMove ==
    ASSUME RelocInv, TypeOK', flash' = flash, base' = base,
           pc' \in {"boot", "exec", "done", "crcfse", "crcfst"}
    PROVE  RelocInv'
<1>1. NoOverlap'
  BY DEF RelocInv, NoOverlap, Apart, End
<1>2. ImagesIntact'
  BY DEF RelocInv, ImagesIntact, Image, Linked
<1>3. MoveInv'
  BY DEF MoveInv
<1>4. QED
  BY <1>1, <1>2, <1>3 DEF RelocInv

LEMMA BootMoveInv ==
    ASSUME RelocInv, NEW f \in Files, BootMove(f), TypeOK'
    PROVE  RelocInv'
<1>0. flash' = flash /\ base' = base
  BY DEF BootMove, persistent
<1>1. CASE pc' = "exec"
  BY <1>0, <1>1, LeaveMove
<1>2. CASE pc' # "exec"
  <2>1. /\ cur' = f /\ dest' = FindFreeSpace(Size[f]) /\ at' = 0 /\ pc' = "copy"
        /\ FindFreeSpace(Size[f]) # NULL
    BY <1>2 DEF BootMove, ToExec
  <2>2. /\ dest' \in Nat /\ FilesBase <= dest' /\ dest' + Size[f] <= FilesBase + FilesSize
        /\ \A h \in Files : Apart(dest', f, base[h], h)
    BY <2>1, FoundSpaceIsFree DEF RelocInv, TypeOK
  <2>3. NoOverlap' /\ ImagesIntact'
    BY <1>0 DEF RelocInv, NoOverlap, Apart, End, ImagesIntact, Image, Linked
  <2>4. DestFree'
    BY <1>0, <2>1, <2>2 DEF DestFree, Apart
  <2>5. MoveInv'
    <3>1. at' < Size[cur'] /\ 0 .. at' - 1 = {}
      BY <2>1, SizeAssumption
    <3>2. QED
      BY <2>1, <2>4, <3>1 DEF MoveInv
  <2>6. QED
    BY <2>3, <2>5 DEF RelocInv
<1>3. QED
  BY <1>1, <1>2

(* Writing a cell of the destination leaves every file the table names, and
   every other cell of the destination, as it was. *)
LEMMA WriteKeepsImages ==
    ASSUME RelocInv, DestFree, base' = base, NEW o \in Nat, o < Size[cur], NEW c,
           flash' = [flash EXCEPT ![dest + o] = c]
    PROVE  /\ NoOverlap' /\ ImagesIntact'
           /\ \A k \in 0 .. Size[cur] - 1 :
                flash'[dest + k] = IF k = o THEN c ELSE flash[dest + k]
<1>0. TypeOK /\ flash \in [Cells -> Content]
  BY DEF RelocInv, TypeOK
<1>1. /\ FilesBase \in Nat /\ FilesSize \in Nat
      /\ \A f \in Files : Size[f] \in Nat /\ Size[f] > 0 /\ base[f] \in Nat
      /\ cur \in Files /\ dest \in Nat
  BY <1>0, RelocTypes
<1>2. NoOverlap'
  BY DEF RelocInv, NoOverlap, Apart, End
<1>3. ASSUME NEW k \in 0 .. Size[cur] - 1
      PROVE  dest + k \in Cells
  BY <1>1 DEF DestFree, Cells
<1>4. \A k \in 0 .. Size[cur] - 1 :
         flash'[dest + k] = IF k = o THEN c ELSE flash[dest + k]
  BY <1>0, <1>1, <1>3
<1>5. ASSUME NEW f \in Files, NEW k \in 0 .. Size[f] - 1
      PROVE  flash'[base[f] + k] = [file |-> f, off |-> k, base |-> base[f]]
  <2>1. Apart(dest, cur, base[f], f)
    BY DEF DestFree
  <2>2. base[f] + k # dest + o
    BY <1>1, <2>1 DEF Apart
  <2>3. base[f] + k \in Cells
    BY <1>1 DEF RelocInv, NoOverlap, End, Cells
  <2>4. flash'[base[f] + k] = flash[base[f] + k]
    BY <1>0, <2>2, <2>3
  <2>5. Whole(f)
    BY IntactCells DEF RelocInv
  <2>6. QED
    BY <2>4, <2>5 DEF Whole
<1>6. ImagesIntact'
  BY <1>5 DEF ImagesIntact, Image, Linked
<1>7. QED
  BY <1>2, <1>4, <1>6

LEMMA CopyCellInv ==
    ASSUME RelocInv, CopyCell, TypeOK', ~locked
    PROVE  RelocInv'
<1>0. TypeOK /\ DestFree /\ at < Size[cur]
      /\ \A o \in 0 .. at - 1 : CellIs(dest, o, base[cur])
  BY DEF RelocInv, CopyCell, MoveInv
<1>1. /\ base' = base /\ cur' = cur /\ dest' = dest
      /\ flash' = [flash EXCEPT ![dest + at] = flash[base[cur] + at]]
  BY DEF CopyCell
<1>2. at \in Nat /\ Size[cur] \in Nat /\ cur \in Files
  BY <1>0, RelocTypes
<1>3. /\ NoOverlap' /\ ImagesIntact'
      /\ \A k \in 0 .. Size[cur] - 1 :
           flash'[dest + k] = IF k = at THEN flash[base[cur] + at] ELSE flash[dest + k]
  BY <1>0, <1>1, <1>2, WriteKeepsImages
<1>4. flash[base[cur] + at] = [file |-> cur, off |-> at, base |-> base[cur]]
  <2>1. Whole(cur) /\ at \in 0 .. Size[cur] - 1
    BY <1>0, <1>2, IntactCells DEF RelocInv
  <2>2. QED
    BY <2>1 DEF Whole
<1>5. \A o \in 0 .. at : flash'[dest + o] = [file |-> cur, off |-> o, base |-> base[cur]]
  BY <1>0, <1>2, <1>3, <1>4 DEF CellIs
<1>6. DestFree'
  BY <1>0, <1>1 DEF DestFree, Apart
<1>7. CASE MoreToCopy
  <2>1. at' = at + 1 /\ pc' = "copy"
    BY <1>7 DEF CopyCell
  <2>2. at' < Size[cur'] /\ at' - 1 = at
    BY <1>1, <1>2, <1>7, <2>1 DEF MoreToCopy
  <2>3. MoveInv'
    BY <1>1, <1>5, <1>6, <2>1, <2>2 DEF MoveInv, CellIs
  <2>4. QED
    BY <1>3, <2>3 DEF RelocInv
<1>8. CASE ~MoreToCopy
  <2>1. at' = 0 /\ pc' = "fixup"
    BY <1>8 DEF CopyCell
  <2>2. at = Size[cur] - 1
    BY <1>0, <1>2, <1>8 DEF MoreToCopy
  <2>3. at' <= Size[cur'] /\ 0 .. at' - 1 = {} /\ at' .. Size[cur'] - 1 = 0 .. at
    BY <1>1, <1>2, <2>1, <2>2
  <2>4. MoveInv'
    BY <1>1, <1>5, <1>6, <2>1, <2>3 DEF MoveInv, CellIs
  <2>5. QED
    BY <1>3, <2>4 DEF RelocInv
<1>9. QED
  BY <1>7, <1>8

LEMMA FixupCellInv ==
    ASSUME RelocInv, FixupCell, TypeOK'
    PROVE  RelocInv'
<1>0. /\ TypeOK /\ DestFree /\ at < Size[cur]
      /\ \A o \in 0 .. at - 1 : CellIs(dest, o, dest)
      /\ \A o \in at .. Size[cur] - 1 : CellIs(dest, o, base[cur])
  BY DEF RelocInv, FixupCell, MoveInv
<1>1. /\ base' = base /\ cur' = cur /\ dest' = dest /\ at' = at + 1 /\ pc' = "fixup"
      /\ flash' = [flash EXCEPT ![dest + at] = Fixed(flash[dest + at])]
  BY DEF FixupCell
<1>2. at \in Nat /\ Size[cur] \in Nat /\ cur \in Files /\ base[cur] \in Nat /\ dest \in Nat
  BY <1>0, RelocTypes
<1>3. /\ NoOverlap' /\ ImagesIntact'
      /\ \A k \in 0 .. Size[cur] - 1 :
           flash'[dest + k] = IF k = at THEN Fixed(flash[dest + at]) ELSE flash[dest + k]
  BY <1>0, <1>1, <1>2, WriteKeepsImages
<1>4. flash[dest + at] = [file |-> cur, off |-> at, base |-> base[cur]]
  BY <1>0, <1>2 DEF CellIs
<1>5. Fixed(flash[dest + at]) = [file |-> cur, off |-> at, base |-> dest]
  BY <1>4 DEF Fixed, Resolvable, Blank
<1>6. DestFree'
  BY <1>0, <1>1 DEF DestFree, Apart
<1>7. \A o \in 0 .. at : flash'[dest + o] = [file |-> cur, off |-> o, base |-> dest]
  BY <1>0, <1>2, <1>3, <1>5 DEF CellIs
<1>8. \A o \in at + 1 .. Size[cur] - 1 :
         flash'[dest + o] = [file |-> cur, off |-> o, base |-> base[cur]]
  BY <1>0, <1>2, <1>3 DEF CellIs
<1>9. at' <= Size[cur] /\ at' - 1 = at
  BY <1>0, <1>1, <1>2
<1>10. MoveInv'
  BY <1>1, <1>6, <1>7, <1>8, <1>9 DEF MoveInv, CellIs
<1>11. QED
  BY <1>3, <1>10 DEF RelocInv

(* The write of fse->base hands the file over to its new image. *)
LEMMA WriteBaseInv ==
    ASSUME RelocInv, WriteBase, TypeOK', ~locked
    PROVE  RelocInv'
<1>0. TypeOK /\ DestFree /\ \A o \in 0 .. Size[cur] - 1 : CellIs(dest, o, dest)
  BY DEF RelocInv, WriteBase, MoveInv
<1>1. flash' = flash /\ base' = [base EXCEPT ![cur] = dest] /\ pc' = "crcfse"
  BY DEF WriteBase
<1>2. cur \in Files /\ base \in [Files -> Nat] /\ base'[cur] = dest
      /\ \A f \in Files : f # cur => base'[f] = base[f]
  BY <1>0, <1>1 DEF TypeOK
<1>3. NoOverlap'
  <2>1. \A f \in Files : FilesBase <= base'[f] /\ base'[f] + Size[f] <= FilesBase + FilesSize
    BY <1>0, <1>2 DEF DestFree, RelocInv, NoOverlap, End
  <2>2. ASSUME NEW f \in Files, NEW g \in Files, f # g
        PROVE  Apart(base'[f], f, base'[g], g)
    <3>1. CASE f = cur
      BY <1>0, <1>2, <2>2, <3>1 DEF DestFree
    <3>2. CASE g = cur
      BY <1>0, <1>2, <2>2, <3>2 DEF DestFree, Apart
    <3>3. CASE f # cur /\ g # cur
      BY <1>2, <2>2, <3>3 DEF RelocInv, NoOverlap
    <3>4. QED
      BY <3>1, <3>2, <3>3
  <2>3. QED
    BY <2>1, <2>2 DEF NoOverlap, End, Apart
<1>4. ImagesIntact'
  <2>1. ASSUME NEW f \in Files, NEW o \in 0 .. Size[f] - 1
        PROVE  flash[base'[f] + o] = [file |-> f, off |-> o, base |-> base'[f]]
    <3>1. CASE f = cur
      BY <1>0, <1>2, <3>1 DEF CellIs
    <3>2. CASE f # cur
      <4>1. Whole(f)
        BY IntactCells DEF RelocInv
      <4>2. QED
        BY <1>2, <3>2, <4>1 DEF Whole
    <3>3. QED
      BY <3>1, <3>2
  <2>2. QED
    BY <1>1, <2>1 DEF ImagesIntact, Image, Linked
<1>5. MoveInv'
  BY <1>1 DEF MoveInv
<1>6. QED
  BY <1>3, <1>4, <1>5 DEF RelocInv

LEMMA FixupDoneInv ==
    ASSUME RelocInv, FixupDone, TypeOK'
    PROVE  RelocInv'
<1>1. flash' = flash /\ base' = base /\ cur' = cur /\ dest' = dest
  BY DEF FixupDone, persistent
<1>2. CASE pc' = "done"
  BY <1>1, <1>2, LeaveMove
<1>3. CASE pc' # "done"
  <2>1. pc' = "base" /\ at >= Size[cur] /\ pc = "fixup"
    BY <1>3 DEF FixupDone, Fail, FixupsEnd
  <2>2. /\ DestFree /\ at <= Size[cur] /\ at \in Nat /\ Size[cur] \in Nat
        /\ \A o \in 0 .. at - 1 : CellIs(dest, o, dest)
    BY <2>1, RelocTypes DEF RelocInv, MoveInv
  <2>3. \A o \in 0 .. Size[cur] - 1 : CellIs(dest, o, dest)
    BY <2>1, <2>2
  <2>4. MoveInv'
    BY <1>1, <2>1, <2>2, <2>3 DEF MoveInv, DestFree, Apart, CellIs
  <2>5. NoOverlap' /\ ImagesIntact'
    BY <1>1 DEF RelocInv, NoOverlap, Apart, End, ImagesIntact, Image, Linked
  <2>6. QED
    BY <2>4, <2>5 DEF RelocInv
<1>4. QED
  BY <1>2, <1>3

(* Every step keeps the types. *)
LEMMA NextType == RelocInv /\ [Next]_vars => TypeOK'
<1> SUFFICES ASSUME RelocInv, [Next]_vars PROVE TypeOK'
  OBVIOUS
<1>0. TypeOK
  BY DEF RelocInv
<1>1. CASE BootWithoutMove
  BY <1>0, <1>1 DEF TypeOK, BootWithoutMove, persistent, ToExec
<1>2. ASSUME NEW f \in Files, BootMove(f) PROVE TypeOK'
  <2>1. FindFreeSpace(Size[f]) \in Nat
    <3>1. CASE FindFreeSpace(Size[f]) = NULL
      BY <3>1 DEF NULL
    <3>2. CASE FindFreeSpace(Size[f]) # NULL
      BY <3>2, FoundSpaceIsFree DEF RelocInv, TypeOK
    <3>3. QED
      BY <3>1, <3>2
  <2>2. /\ flash' = flash /\ base' = base /\ crc' = crc /\ fstCrc' = fstCrc
        /\ resets' = resets /\ torn' = torn
        /\ cur' = f /\ dest' = FindFreeSpace(Size[f]) /\ at' = 0
    BY <1>2 DEF BootMove, persistent
  <2>3. /\ locked' \in BOOLEAN /\ trapped' \in BOOLEAN
        /\ pc' \in {"exec", "copy"} /\ ret' \in {-1, 0, 1}
    BY <1>0, <1>2 DEF BootMove, ToExec, Unlock, TypeOK
  <2>4. QED
    BY <1>0, <2>1, <2>2, <2>3 DEF TypeOK
<1>3. CASE CopyCell
  <2>1. DestFree /\ at < Size[cur]
    BY <1>3 DEF CopyCell, RelocInv, MoveInv
  <2>2. base[cur] + at \in Cells
    BY <1>0, <2>1, RelocTypes DEF RelocInv, NoOverlap, End, Cells
  <2>3. flash' \in [Cells -> Content]
    BY <1>0, <1>3, <2>2 DEF CopyCell, TypeOK
  <2>4. QED
    BY <1>0, <1>3, <2>3 DEF TypeOK, CopyCell, Fail
<1>4. CASE FixupCell
  <2>1. ASSUME NEW c \in Content
        PROVE  Fixed(c) \in Content
    BY <1>0 DEF Fixed, Resolvable, Content, TypeOK
  <2>2. flash' \in [Cells -> Content]
    BY <1>0, <1>4, <2>1 DEF FixupCell, TypeOK
  <2>3. QED
    BY <1>0, <1>4, <2>2 DEF TypeOK, FixupCell
<1>5. CASE FixupDone
  BY <1>0, <1>5 DEF TypeOK, FixupDone, persistent, Fail
<1>6. CASE WriteBase
  BY <1>0, <1>6 DEF TypeOK, WriteBase, Fail
<1>7. CASE UpdateFseCrc
  BY <1>0, <1>7 DEF TypeOK, UpdateFseCrc, NewCrc
<1>8. CASE UpdateFstCrc
  BY <1>0, <1>8 DEF TypeOK, UpdateFstCrc, Table
<1>9. CASE MoveReturn
  BY <1>0, <1>9 DEF TypeOK, MoveReturn, persistent, Unlock
<1>10. CASE Reset
  <2>1. resets' \in 0 .. MaxResets
    BY <1>0, <1>10, RegionAssumption DEF Reset, TypeOK
  <2>2. torn' \subseteq Files \cup {"fst"}
    BY <1>0, <1>10 DEF Reset, TypeOK
  <2>3. QED
    BY <1>0, <1>10, <2>1, <2>2 DEF TypeOK, Reset, persistent, NULL
<1>11. CASE UNCHANGED vars
  BY <1>0, <1>11 DEF TypeOK, vars
<1>12. QED
  BY <1>1, <1>2, <1>3, <1>4, <1>5, <1>6, <1>7, <1>8, <1>9, <1>10, <1>11 DEF Next, Step

(* RelocInv is inductive. *)
LEMMA NextRelocInv == RelocInv /\ [Next]_vars => RelocInv'
<1> SUFFICES ASSUME RelocInv, [Next]_vars PROVE RelocInv'
  OBVIOUS
<1>0. TypeOK'
  BY NextType
<1>1. CASE BootWithoutMove \/ UpdateFseCrc \/ UpdateFstCrc \/ MoveReturn \/ Reset
  <2>1. /\ flash' = flash /\ base' = base
        /\ pc' \in {"boot", "exec", "done", "crcfse", "crcfst"}
    BY <1>1 DEF BootWithoutMove, UpdateFseCrc, UpdateFstCrc, MoveReturn, Reset, persistent, ToExec
  <2>2. QED
    BY <1>0, <2>1, LeaveMove
<1>2. ASSUME NEW f \in Files, BootMove(f) PROVE RelocInv'
  BY <1>0, <1>2, BootMoveInv
<1>3. CASE CopyCell
  <2>1. CASE locked
    <3>1. flash' = flash /\ base' = base /\ pc' = "done"
      BY <1>3, <2>1 DEF CopyCell, Fail
    <3> QED
      BY <1>0, <3>1, LeaveMove
  <2> QED
    BY <1>0, <1>3, <2>1, CopyCellInv
<1>4. CASE FixupCell
  BY <1>0, <1>4, FixupCellInv
<1>5. CASE FixupDone
  BY <1>0, <1>5, FixupDoneInv
<1>6. CASE WriteBase
  <2>1. CASE locked
    <3>1. flash' = flash /\ base' = base /\ pc' = "done"
      BY <1>6, <2>1 DEF WriteBase, Fail
    <3> QED
      BY <1>0, <3>1, LeaveMove
  <2> QED
    BY <1>0, <1>6, <2>1, WriteBaseInv
<1>7. CASE UNCHANGED vars
  BY <1>7 DEF vars, RelocInv, TypeOK, NoOverlap, End, Apart, ImagesIntact, Image, Linked,
              MoveInv, DestFree, CellIs
<1>8. QED
  BY <1>1, <1>2, <1>3, <1>4, <1>5, <1>6, <1>7 DEF Next, Step

(* The build leaves every file whole and apart from the others. *)
LEMMA InitRelocInv == Init => RelocInv
<1> SUFFICES ASSUME Init PROVE RelocInv
  OBVIOUS
<1>1. /\ base = InitBase /\ base \in [Files -> Nat]
      /\ FilesBase \in Nat /\ FilesSize \in Nat
      /\ \A f \in Files : Size[f] \in Nat /\ Size[f] > 0
  BY InitBaseAssumption, RegionAssumption, SizeAssumption DEF Init
<1>2. NoOverlap
  BY <1>1, InitBaseAssumption DEF NoOverlap, End
<1>3. ASSUME NEW f \in Files, NEW o \in 0 .. Size[f] - 1
      PROVE  flash[base[f] + o] = [file |-> f, off |-> o, base |-> base[f]]
  <2> DEFINE c == base[f] + o
             In(g) == c \in InitBase[g] .. InitBase[g] + Size[g] - 1
  <2>1. c \in Cells
    BY <1>1, <1>2 DEF NoOverlap, End, Cells
  <2>2. In(f)
    BY <1>1
  <2>3. \A g \in Files : In(g) => g = f
    BY <1>1, <1>2, <2>2 DEF NoOverlap, Apart
  <2>4. (CHOOSE g \in Files : In(g)) = f
    BY <2>2, <2>3
  <2>5. flash[c] = [file |-> f, off |-> c - InitBase[f], base |-> InitBase[f]]
    BY <2>1, <2>2, <2>4 DEF Init
  <2>6. c - InitBase[f] = o
    BY <1>1
  <2>7. QED
    BY <1>1, <2>5, <2>6
<1>4. ImagesIntact
  BY <1>3 DEF ImagesIntact, Image, Linked
<1>5. flash \in [Cells -> Content]
  <2>1. ASSUME NEW c \in Cells
        PROVE  flash[c] \in Content
    <3> DEFINE In(g) == c \in InitBase[g] .. InitBase[g] + Size[g] - 1
    <3>1. CASE \E f \in Files : In(f)
      <4>1. PICK f \in Files : In(f) /\ f = CHOOSE g \in Files : In(g)
        BY <3>1
      <4>2. flash[c] = [file |-> f, off |-> c - InitBase[f], base |-> InitBase[f]]
        BY <4>1 DEF Init
      <4>3. c - InitBase[f] \in Nat /\ InitBase[f] \in Nat
        BY <1>1, <4>1 DEF Cells
      <4>4. QED
        BY <4>2, <4>3 DEF Content
    <3>2. CASE ~\E f \in Files : In(f)
      BY <3>2 DEF Init, Content
    <3>3. QED
      BY <3>1, <3>2
  <2>2. QED
    BY <2>1 DEF Init
<1>6. TypeOK
  <2>1. crc = [f \in Files |-> Linked(f, InitBase[f])] /\ fstCrc = [base |-> base, crc |-> crc]
    BY DEF Init, Table
  <2>2. DOMAIN crc = Files
    BY <2>1
  <2>3. DOMAIN fstCrc = {"base", "crc"}
    BY <2>1
  <2>4. /\ pc = "boot" /\ cur \in Files /\ dest = 0 /\ at = 0 /\ ret = 0
        /\ locked = TRUE /\ trapped = FALSE /\ resets = 0 /\ torn = {}
    BY DEF Init, NULL
  <2>5. resets \in 0 .. MaxResets
    BY <2>4, RegionAssumption
  <2>6. locked \in BOOLEAN /\ trapped \in BOOLEAN
    BY <2>4
  <2>7. QED
    BY <1>1, <1>5, <2>2, <2>3, <2>4, <2>5, <2>6 DEF TypeOK
<1>7. MoveInv
  BY DEF Init, MoveInv
<1>8. QED
  BY <1>2, <1>4, <1>6, <1>7 DEF RelocInv

(* The inductive invariant of moves and resets. *)
THEOREM RelocInvAlways == Spec => []RelocInv
  BY InitRelocInv, NextRelocInv, PTL DEF Spec

(* Power-cut safety: at every moment of every move, for any number of resets,
   each file the table names is whole, linked for its base, inside the region
   and apart from the others. *)
THEOREM MovesArePowerSafe == Spec => [](ImagesIntact /\ NoOverlap)
<1>1. RelocInv => ImagesIntact /\ NoOverlap
  BY DEF RelocInv
<1>2. QED
  BY <1>1, RelocInvAlways, PTL

-----------------------------------------------------------------------------
(* CRCs.  A CRC goes stale in one step only, the write of the base, and what a
   reset leaves of the update is recorded: CrcFresh is inductive, given that
   the images are intact before and after every step. *)

(* As the images are intact, the image of a file changes only with its base. *)
LEMMA ImageFollowsBase ==
    ASSUME RelocInv, RelocInv', NEW f \in Files, base'[f] = base[f]
    PROVE  Image(f)' = Image(f)
<1>1. Image(f) = Linked(f, base[f])
  BY DEF RelocInv, ImagesIntact
<1>2. Image(f)' = Linked(f, base'[f])
  BY DEF RelocInv, ImagesIntact, Linked
<1> QED
  BY <1>1, <1>2

(* A step that writes neither table nor CRCs, and is not taken in the middle of
   their update. *)
LEMMA CrcsUntouched ==
    ASSUME RelocInv, RelocInv', CrcFresh, base' = base, crc' = crc, fstCrc' = fstCrc,
           torn' = torn, pc \notin {"crcfse", "crcfst"}
    PROVE  CrcFresh'
<1>1. ASSUME NEW f \in Files, crc'[f] # Image(f)'
      PROVE  f \in torn'
  <2>1. crc[f] # Image(f)
    BY <1>1, ImageFollowsBase
  <2> QED
    BY <2>1 DEF CrcFresh
<1>2. ASSUME fstCrc' # Table'
      PROVE  "fst" \in torn'
  BY <1>2 DEF CrcFresh, Table
<1> QED
  BY <1>1, <1>2 DEF CrcFresh

(* The flash is unlocked while the CRCs are written. *)
Unlocked == pc \in {"crcfse", "crcfst"} => ~locked

LEMMA NextUnlocked ==
    ASSUME TypeOK, Unlocked, [Next]_vars
    PROVE  Unlocked'
<1>1. CASE BootWithoutMove \/ CopyCell \/ FixupCell \/ FixupDone \/ MoveReturn \/ Reset
  BY <1>1 DEF BootWithoutMove, CopyCell, FixupCell, FixupDone, MoveReturn, Reset, ToExec, Fail,
              Unlocked
<1>2. ASSUME NEW f \in Files, BootMove(f) PROVE Unlocked'
  BY <1>2 DEF BootMove, ToExec, Unlocked
<1>3. CASE WriteBase \/ UpdateFseCrc \/ UpdateFstCrc
  BY <1>3 DEF WriteBase, UpdateFseCrc, UpdateFstCrc, Fail, Unlocked
<1>4. CASE UNCHANGED vars
  BY <1>4 DEF vars, Unlocked
<1> QED
  BY <1>1, <1>2, <1>3, <1>4 DEF Next, Step

LEMMA NextCrcFresh ==
    ASSUME RelocInv, RelocInv', CrcFresh, Unlocked, [Next]_vars
    PROVE  CrcFresh'
<1>0. TypeOK /\ cur \in Files /\ base \in [Files -> Nat] /\ DOMAIN crc = Files
  BY DEF RelocInv, TypeOK
<1>1. CASE BootWithoutMove \/ CopyCell \/ FixupCell \/ FixupDone \/ MoveReturn
  <2>1. /\ base' = base /\ crc' = crc /\ fstCrc' = fstCrc /\ torn' = torn
        /\ pc \notin {"crcfse", "crcfst"}
    BY <1>1 DEF BootWithoutMove, CopyCell, FixupCell, FixupDone, MoveReturn, persistent
  <2> QED
    BY <2>1, CrcsUntouched
<1>2. ASSUME NEW f \in Files, BootMove(f) PROVE CrcFresh'
  <2>1. /\ base' = base /\ crc' = crc /\ fstCrc' = fstCrc /\ torn' = torn
        /\ pc \notin {"crcfse", "crcfst"}
    BY <1>2 DEF BootMove, persistent
  <2> QED
    BY <2>1, CrcsUntouched
<1>3. CASE WriteBase /\ locked
  <2>1. /\ base' = base /\ crc' = crc /\ fstCrc' = fstCrc /\ torn' = torn
        /\ pc \notin {"crcfse", "crcfst"}
    BY <1>3 DEF WriteBase
  <2> QED
    BY <2>1, CrcsUntouched
<1>8. CASE WriteBase /\ ~locked
  <2>1. /\ pc = "base" /\ pc' = "crcfse" /\ cur' = cur /\ crc' = crc /\ torn' = torn
        /\ \A f \in Files : f # cur => base'[f] = base[f]
    BY <1>0, <1>8 DEF WriteBase
  <2>2. ASSUME NEW f \in Files, f # cur, crc'[f] # Image(f)'
        PROVE  f \in torn'
    BY <2>1, <2>2, ImageFollowsBase DEF CrcFresh
  <2> QED
    BY <2>1, <2>2 DEF CrcFresh
<1>4. CASE UpdateFseCrc
  <2>1. /\ pc' = "crcfst" /\ base' = base /\ torn' = torn \ {cur}
        /\ crc' = [crc EXCEPT ![cur] = Image(cur)]
    BY <1>4 DEF UpdateFseCrc, NewCrc, Unlocked
  <2>2. ASSUME NEW f \in Files, crc'[f] # Image(f)'
        PROVE  f \in torn'
    <3>1. Image(f)' = Image(f)
      BY <2>1, ImageFollowsBase
    <3>2. f # cur
      BY <1>0, <2>1, <2>2, <3>1
    <3>3. crc'[f] = crc[f]
      BY <1>0, <2>1, <3>2
    <3> QED
      BY <2>1, <2>2, <3>1, <3>2, <3>3 DEF CrcFresh
  <2> QED
    BY <2>1, <2>2 DEF CrcFresh
<1>5. CASE UpdateFstCrc
  <2>1. /\ pc = "crcfst" /\ pc' = "done" /\ base' = base /\ crc' = crc /\ fstCrc' = Table
        /\ torn' = torn \ {"fst"}
    BY <1>5 DEF UpdateFstCrc, Unlocked
  <2>2. ASSUME NEW f \in Files, crc'[f] # Image(f)'
        PROVE  f \in torn'
    <3>1. crc[f] # Image(f)
      BY <2>1, <2>2, ImageFollowsBase
    <3> QED
      BY <2>1, <3>1, FilesAssumption DEF CrcFresh
  <2>3. fstCrc' = Table'
    BY <2>1 DEF Table
  <2> QED
    BY <2>2, <2>3 DEF CrcFresh
<1>6. CASE Reset
  <2>1. /\ base' = base /\ crc' = crc /\ fstCrc' = fstCrc /\ torn \subseteq torn'
        /\ pc = "crcfse" => cur \in torn' /\ "fst" \in torn'
        /\ pc = "crcfst" => "fst" \in torn'
    BY <1>6 DEF Reset, persistent
  <2>2. ASSUME NEW f \in Files, crc'[f] # Image(f)'
        PROVE  f \in torn'
    <3>1. crc[f] # Image(f)
      BY <2>1, <2>2, ImageFollowsBase
    <3> QED
      BY <2>1, <3>1 DEF CrcFresh
  <2>3. fstCrc' # Table' => "fst" \in torn'
    BY <2>1 DEF CrcFresh, Table
  <2> QED
    BY <2>2, <2>3 DEF CrcFresh
<1>7. CASE UNCHANGED vars
  BY <1>7 DEF vars, CrcFresh, Image, Table
<1> QED
  BY <1>1, <1>2, <1>3, <1>4, <1>5, <1>6, <1>7, <1>8 DEF Next, Step

(* A CRC in the table is stale only while it is being updated, or where the
   power was cut during the update, however often that happens. *)
THEOREM CrcsAreFresh == Spec => []CrcFresh
<1>1. Init => CrcFresh
  <2> SUFFICES ASSUME Init PROVE CrcFresh
    OBVIOUS
  <2>1. \A f \in Files : Image(f) = Linked(f, base[f])
    BY InitRelocInv DEF RelocInv, ImagesIntact
  <2>2. \A f \in Files : crc[f] = Image(f)
    BY <2>1 DEF Init
  <2> QED
    BY <2>2 DEF Init, CrcFresh
<1>2. RelocInv /\ RelocInv' /\ CrcFresh /\ Unlocked /\ [Next]_vars => CrcFresh'
  BY NextCrcFresh
<1>3. Init => Unlocked
  BY DEF Init, Unlocked
<1>4. RelocInv /\ Unlocked /\ [Next]_vars => Unlocked'
  BY NextUnlocked DEF RelocInv
<1> QED
  BY <1>1, <1>2, <1>3, <1>4, RelocInvAlways, PTL DEF Spec

-----------------------------------------------------------------------------
(* Alignment.  Sums and differences of multiples are multiples. *)
LEMMA MultipleOf ==
    ASSUME NEW n \in Nat \ {0}, NEW a \in Int, a % n = 0
    PROVE  \E k \in Int : a = n * k
<1>1. n \in Int /\ n > 0
  OBVIOUS
<1>2. a \div n \in Int /\ a = n * (a \div n) + (a % n)
  BY <1>1
<1>3. a = n * (a \div n)
  BY <1>1, <1>2
<1> QED
  BY <1>2, <1>3

LEMMA MultipleMod ==
    ASSUME NEW n \in Nat \ {0}, NEW k \in Int
    PROVE  (n * k) % n = 0
OBVIOUS

LEMMA SumOfMultiples ==
    ASSUME NEW n \in Nat \ {0}, NEW a \in Int, NEW b \in Int, a % n = 0, b % n = 0
    PROVE  (a + b) % n = 0
<1>1. PICK k \in Int : a = n * k
  BY MultipleOf
<1>2. PICK l \in Int : b = n * l
  BY MultipleOf
<1>3. k + l \in Int /\ a + b = n * (k + l)
  BY <1>1, <1>2
<1> QED
  BY <1>3, MultipleMod

LEMMA NegativeMultiple ==
    ASSUME NEW n \in Nat \ {0}, NEW a \in Int, a % n = 0
    PROVE  (-a) % n = 0
<1>1. PICK k \in Int : a = n * k
  BY MultipleOf
<1>2. -k \in Int /\ -a = n * (-k)
  BY <1>1
<1>3. (n * (-k)) % n = 0
  BY <1>2, MultipleMod
<1> QED
  BY <1>2, <1>3, Zenon

(* The build pads the files, so that the rounding in uld_fs_find_free_space
   adds nothing. *)
LEMMA SizesAreAligned ==
    ASSUME NEW f \in Files
    PROVE  AlignUp(Size[f]) = Size[f]
<1>1. Size[f] \in Int /\ Size[f] % Align = 0 /\ Align \in Nat \ {0}
  BY SizeAssumption, RegionAssumption
<1>2. (-Size[f]) % Align = 0
  BY <1>1, NegativeMultiple
<1> QED
  BY <1>1, <1>2 DEF AlignUp

(* What keeps the move from its breakpoints: every file starts at a multiple of
   the alignment, and so does every place a file is moved to. *)
AlignInv ==
    /\ \A f \in Files : base[f] % Align = 0
    /\ pc \in {"copy", "fixup", "base"} => dest % Align = 0
    /\ ~trapped

LEMMA FreeStartsAreAligned ==
    ASSUME base \in [Files -> Nat], \A f \in Files : base[f] % Align = 0,
           NEW size \in Nat, NEW p \in FreeStarts(size)
    PROVE  p % Align = 0
<1>1. FilesBase % Align = 0 /\ Align \in Nat \ {0}
  BY RegionAssumption
<1>2. ASSUME NEW f \in Files
      PROVE  End(f) % Align = 0
  <2>1. base[f] \in Int /\ Size[f] \in Int /\ base[f] % Align = 0 /\ Size[f] % Align = 0
    BY SizeAssumption
  <2> QED
    BY <1>1, <2>1, SumOfMultiples DEF End
<1>3. p = FilesBase \/ \E f \in Files : p = End(f)
  BY DEF FreeStarts
<1> QED
  BY <1>1, <1>2, <1>3

LEMMA FoundSpaceIsAligned ==
    ASSUME TypeOK, NoOverlap, \A f \in Files : base[f] % Align = 0, NEW f \in Files,
           FindFreeSpace(Size[f]) # NULL
    PROVE  FindFreeSpace(Size[f]) % Align = 0
<1> DEFINE size == AlignUp(Size[f])
           starts == FreeStarts(size)
<1>1. Size[f] \in Nat /\ size \in Nat /\ size >= Size[f] /\ base \in [Files -> Nat]
  BY SizeAssumption, AlignUpGrows DEF TypeOK
<1>2. starts # {} /\ FindFreeSpace(Size[f]) = CHOOSE p \in starts : \A q \in starts : p <= q
  BY DEF FindFreeSpace
<1>3. \E p \in starts : \A q \in starts : p <= q
  BY <1>1, <1>2, FreeStartIsFree, LeastAddress
<1>4. FindFreeSpace(Size[f]) \in starts
  BY <1>2, <1>3
<1> QED
  BY <1>1, <1>4, FreeStartsAreAligned

LEMMA NextAlignInv ==
    ASSUME RelocInv, AlignInv, [Next]_vars
    PROVE  AlignInv'
<1>0. TypeOK
  BY DEF RelocInv
<1>1. CASE BootWithoutMove \/ FixupDone \/ UpdateFseCrc \/ UpdateFstCrc \/ MoveReturn \/ Reset
  <2>1. /\ base' = base /\ trapped' = trapped
        /\ pc' \in {"copy", "fixup", "base"} => pc = "fixup" /\ dest' = dest
    BY <1>1 DEF BootWithoutMove, FixupDone, UpdateFseCrc, UpdateFstCrc, MoveReturn, Reset,
                persistent, ToExec, Fail
  <2> QED
    BY <2>1 DEF AlignInv
<1>2. ASSUME NEW f \in Files, BootMove(f) PROVE AlignInv'
  <2> DEFINE p == FindFreeSpace(Size[f])
  <2>1. /\ base' = base /\ dest' = p
        /\ pc' \in {"copy", "fixup", "base"} => p # NULL
        /\ trapped' = (trapped \/ (p # NULL /\ p % Align # 0))
    BY <1>2 DEF BootMove, persistent, ToExec
  <2>2. p # NULL => p % Align = 0
    BY <1>0, FoundSpaceIsAligned DEF RelocInv, AlignInv
  <2> HIDE DEF p
  <2> QED
    BY <2>1, <2>2 DEF AlignInv
<1>3. CASE CopyCell
  BY <1>3 DEF CopyCell, Fail, AlignInv
<1>4. CASE FixupCell
  <2>1. /\ base' = base /\ dest' = dest /\ pc = "fixup" /\ pc' = pc /\ at < Size[cur]
        /\ trapped' = (trapped \/ ~Resolvable(flash[dest + at]))
    BY <1>4 DEF FixupCell
  <2>2. CellIs(dest, at, base[cur])
    <3>1. at \in at .. Size[cur] - 1
      BY <1>0, <2>1, RelocTypes
    <3> QED
      BY <2>1, <3>1 DEF RelocInv, MoveInv
  <2>3. Resolvable(flash[dest + at])
    BY <2>2 DEF CellIs, Resolvable, Blank
  <2> QED
    BY <2>1, <2>3 DEF AlignInv
<1>5. CASE WriteBase
  <2>1. /\ pc = "base" /\ pc' \in {"crcfse", "done"} /\ trapped' = trapped
        /\ base' \in {base, [base EXCEPT ![cur] = dest]}
    BY <1>5 DEF WriteBase, Fail
  <2>2. \A f \in Files : base'[f] % Align = 0
    BY <1>0, <2>1 DEF AlignInv, TypeOK
  <2> QED
    BY <2>1, <2>2 DEF AlignInv
<1>6. CASE UNCHANGED vars
  BY <1>6 DEF vars, AlignInv
<1> QED
  BY <1>1, <1>2, <1>3, <1>4, <1>5, <1>6 DEF Next, Step

(* No move reaches one of its breakpoints: the destination is always aligned
   and every pointer of the copy can be resolved against the old image. *)
THEOREM MovesNeverTrap == Spec => []NeverTrapped
<1>1. Init => AlignInv
  BY InitBaseAssumption DEF Init, AlignInv
<1>2. RelocInv /\ AlignInv /\ [Next]_vars => AlignInv'
  BY NextAlignInv
<1>3. AlignInv => NeverTrapped
  BY DEF AlignInv, NeverTrapped
<1> QED
  BY <1>1, <1>2, <1>3, RelocInvAlways, PTL DEF Spec

-----------------------------------------------------------------------------
(* First fit.  A set of addresses below a bound has a highest member. *)
LEMMA GreatestAddress ==
    ASSUME NEW T, NEW b \in Nat, T \subseteq 0 .. b, T # {}
    PROVE  \E p \in T : \A q \in T : q <= p
<1> DEFINE U == {b - t : t \in T}
<1>1. U \subseteq Nat /\ U # {}
  <2>1. \A t \in T : b - t \in Nat
    OBVIOUS
  <2>2. PICK t \in T : TRUE
    OBVIOUS
  <2>3. b - t \in U
    OBVIOUS
  <2> QED
    BY <2>1, <2>3
<1>2. PICK u \in U : \A v \in U : u <= v
  BY <1>1, LeastAddress
<1>3. PICK p \in T : u = b - p
  OBVIOUS
<1>4. ASSUME NEW q \in T PROVE q <= p
  <2>1. b - p <= b - q
    <3>1. b - q \in U
      OBVIOUS
    <3> QED
      BY <1>2, <1>3, <3>1
  <2>2. p \in Nat /\ q \in Nat
    OBVIOUS
  <2> QED
    BY <2>1, <2>2
<1> QED
  BY <1>4

(* Of the files in a set that is not empty one is the lowest and one the
   highest. *)
LEMMA LowestFile ==
    ASSUME base \in [Files -> Nat], NEW S, S \subseteq Files, S # {}
    PROVE  \E f \in S : \A g \in S : base[f] <= base[g]
<1> DEFINE T == {base[f] : f \in S}
<1>1. T \subseteq Nat /\ T # {}
  OBVIOUS
<1>2. PICK p \in T : \A q \in T : p <= q
  BY <1>1, LeastAddress
<1> QED
  BY <1>2

LEMMA HighestFile ==
    ASSUME base \in [Files -> Nat], NoOverlap, NEW S, S \subseteq Files, S # {}
    PROVE  \E f \in S : \A g \in S : base[g] <= base[f]
<1> DEFINE T == {base[f] : f \in S}
           b == FilesBase + FilesSize
<1>0. FilesBase \in Nat /\ FilesSize \in Nat /\ \A f \in Files : Size[f] \in Nat
  BY RegionAssumption, SizeAssumption
<1>1. b \in Nat /\ T # {}
  BY <1>0
<1>2. T \subseteq 0 .. b
  BY <1>0 DEF NoOverlap, End
<1>3. PICK p \in T : \A q \in T : q <= p
  BY <1>1, <1>2, GreatestAddress
<1> QED
  BY <1>3

(* Where a file fits apart from all others there is a gap that begins at or
   below: before the first file, between two, or behind the last. *)
LEMMA GapIsConsidered ==
    ASSUME base \in [Files -> Nat], NoOverlap, NEW f \in Files, NEW p \in Nat,
           FilesBase <= p, p + Size[f] <= FilesBase + FilesSize,
           \A g \in Files : Apart(p, f, base[g], g)
    PROVE  FreeStarts(Size[f]) # {}
<1> DEFINE below == {g \in Files : End(g) <= p}
           above == {g \in Files : p + Size[f] <= base[g]}
<1>1. /\ FilesBase \in Nat /\ FilesSize \in Nat
      /\ \A g \in Files : Size[g] \in Nat /\ Size[g] > 0 /\ base[g] \in Nat
      /\ \A g \in Files : End(g) \in Nat /\ End(g) = base[g] + Size[g]
  BY RegionAssumption, SizeAssumption DEF End
<1>2. \A g \in Files : g \in below \/ g \in above
  BY <1>1 DEF Apart
<1>3. CASE below = {}
  <2>1. PICK g \in Files : \A h \in Files : base[g] <= base[h]
    BY LowestFile, FilesAssumption
  <2>2. First(g)
    BY <1>1, <2>1 DEF First
  <2>3. base[g] - FilesBase >= Size[f]
    BY <1>1, <1>2, <1>3
  <2> QED
    BY <2>2, <2>3 DEF FreeStarts
<1>4. CASE above = {}
  <2>1. PICK g \in Files : \A h \in Files : base[h] <= base[g]
    BY HighestFile, FilesAssumption
  <2>2. Last(g)
    BY <2>1 DEF Last
  <2>3. FilesBase + FilesSize - End(g) >= Size[f]
    BY <1>1, <1>2, <1>4
  <2> QED
    BY <2>2, <2>3 DEF FreeStarts
<1>5. CASE below # {} /\ above # {}
  <2>1. PICK g \in below : \A h \in below : base[h] <= base[g]
    BY <1>5, HighestFile
  <2>2. PICK h \in above : \A k \in above : base[h] <= base[k]
    BY <1>5, LowestFile
  <2>3. g \in Files /\ h \in Files /\ End(g) <= p /\ p + Size[f] <= base[h]
    OBVIOUS
  <2>4. base[g] < base[h] /\ base[h] - End(g) >= Size[f]
    BY <1>1, <2>3
  <2>5. ASSUME NEW k \in Files
        PROVE  base[k] <= base[g] \/ base[k] >= base[h]
    <3>1. CASE k \in below
      BY <2>1, <3>1
    <3>2. CASE k \in above
      <4>1. base[h] <= base[k]
        BY <2>2, <3>2
      <4> QED
        BY <1>1, <2>3, <4>1
    <3> QED
      BY <1>2, <3>1, <3>2
  <2>6. NextAbove(g, h)
    BY <2>4, <2>5 DEF NextAbove
  <2> QED
    BY <2>3, <2>4, <2>6 DEF FreeStarts
<1> QED
  BY <1>3, <1>4, <1>5

(* uld_fs_find_free_space gives up only if there is no place for the file at
   all, at an aligned address or not. *)
THEOREM FirstFitIsComplete == Spec => []FreeSpaceComplete
<1>1. ASSUME RelocInv PROVE FreeSpaceComplete
  <2> SUFFICES ASSUME NEW f \in Files, FindFreeSpace(Size[f]) = NULL, NEW p \in Cells,
                      p + Size[f] <= FilesBase + FilesSize,
                      \A g \in Files : Apart(p, f, base[g], g)
               PROVE  FALSE
    <3>1. FilesBase \in Nat /\ FilesSize \in Nat /\ Size \in [Files -> Nat \ {0}]
      BY RegionAssumption, SizeAssumption
    <3> QED
      BY <3>1 DEF FreeSpaceComplete, Cells
  <2> DEFINE starts == FreeStarts(AlignUp(Size[f]))
  <2>1. /\ base \in [Files -> Nat] /\ NoOverlap /\ Size[f] \in Nat
        /\ FilesBase \in Nat \ {0} /\ FilesSize \in Nat
    BY <1>1, RegionAssumption, SizeAssumption DEF RelocInv, TypeOK
  <2>2. p \in Nat /\ FilesBase <= p
    BY <2>1 DEF Cells
  <2>3. starts # {}
    BY <2>1, <2>2, GapIsConsidered, SizesAreAligned
  <2>4. \A q \in starts : q \in Nat /\ FilesBase <= q
    BY <2>1, FreeStartIsFree, SizesAreAligned
  <2>5. \E q \in starts : \A r \in starts : q <= r
    BY <2>3, <2>4, LeastAddress
  <2>6. FindFreeSpace(Size[f]) \in starts
    BY <2>3, <2>5 DEF FindFreeSpace
  <2> QED
    BY <2>1, <2>4, <2>6 DEF NULL
<1> QED
  BY <1>1, RelocInvAlways, PTL
=============================================================================
