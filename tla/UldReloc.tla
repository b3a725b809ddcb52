------------------------------ MODULE UldReloc ------------------------------
(***************************************************************************)
(* Moving a file within flash: uld_fs_find_free_space, uld_reloc_move_fse, *)
(* the flash fixups it applies and the CRC updates, driven by uld_main at  *)
(* each boot.  The flash and the file system table persist; power can be   *)
(* cut between any two flash writes, after which uld_main starts again.    *)
(*                                                                         *)
(* A cell is the unit a flash write or a fixup stores.  Its content is the *)
(* file and offset it was built from and the base its pointers are linked  *)
(* for.  A CRC stands for the contents it was computed over.               *)
(*                                                                         *)
(* A definition X_Y is the definition X with the mistake Y in it; it is    *)
(* used by no specification, only to see that a property rejects it.       *)
(***************************************************************************)
EXTENDS Integers, FiniteSets

CONSTANTS Files,       \* entries of the file system table
          Size,        \* Size[f]: cells of f, padded by gen-uld-files.py
          FlashLen,    \* FlashLen[f]: cells of f before its memory sections
          NoRofixup,   \* files without a .rofixup section
          InitBase,    \* where the build placed each file
          FilesBase,   \* pstore.files_base
          FilesSize,   \* pstore.files_size
          Align,       \* cells per 8 bytes
          MaxResets    \* bound: how often power is cut

Cells == FilesBase .. FilesBase + FilesSize - 1
Blank == [file |-> "none"]
Content == [file : Files, off : Nat, base : Nat] \cup {Blank}
NULL == 0

(* The cells [p, p + Size[f]) and [q, q + Size[g]) have none in common. *)
Apart(p, f, q, g) == p + Size[f] <= q \/ q + Size[g] <= p

ASSUME FilesAssumption == IsFiniteSet(Files) /\ Files # {} /\ "fst" \notin Files
ASSUME SizeAssumption ==
    /\ Size \in [Files -> Nat \ {0}]
    /\ FlashLen \in [Files -> Nat \ {0}]
    /\ \A f \in Files : FlashLen[f] <= Size[f] /\ Size[f] % Align = 0
    /\ NoRofixup \subseteq Files
ASSUME RegionAssumption ==
    /\ FilesBase \in Nat \ {0} /\ FilesSize \in Nat /\ Align \in Nat \ {0}
    /\ FilesBase % Align = 0 /\ MaxResets \in Nat
ASSUME InitBaseAssumption ==
    /\ InitBase \in [Files -> Nat]
    /\ \A f \in Files : /\ FilesBase <= InitBase[f]
                        /\ InitBase[f] + Size[f] <= FilesBase + FilesSize
                        /\ InitBase[f] % Align = 0
    /\ \A f, g \in Files : f # g => Apart(InitBase[f], f, InitBase[g], g)

VARIABLES
    \* persistent
    flash,      \* the contents of the file region
    base,       \* fse->base
    crc,        \* fse->crc
    fstCrc,     \* fs_table_pri.crc
    \* volatile
    pc, cur, dest, at, ret, locked,
    trapped,    \* a swbkpt() of the move has been reached
    \* history
    resets, torn

persistent == <<flash, base, crc, fstCrc>>
vars == <<flash, base, crc, fstCrc, pc, cur, dest, at, ret, locked, trapped, resets, torn>>

Image(f) == [o \in 0 .. Size[f] - 1 |-> flash[base[f] + o]]
Linked(f, b) == [o \in 0 .. Size[f] - 1 |-> [file |-> f, off |-> o, base |-> b]]
Table == [base |-> base, crc |-> crc]

TypeOK ==
    /\ flash \in [Cells -> Content]
    /\ base \in [Files -> Nat]
    /\ DOMAIN crc = Files
    /\ DOMAIN fstCrc = {"base", "crc"}
    /\ pc \in {"boot", "copy", "fixup", "base", "crcfse", "crcfst", "done", "exec"}
    /\ cur \in Files
    /\ dest \in Nat
    /\ at \in Nat
    /\ ret \in {-1, 0, 1}
    /\ locked \in BOOLEAN /\ trapped \in BOOLEAN
    /\ resets \in 0 .. MaxResets
    /\ torn \subseteq Files \cup {"fst"}

Init ==
    /\ base = InitBase
    /\ flash = [c \in Cells |->
          IF \E f \in Files : c \in InitBase[f] .. InitBase[f] + Size[f] - 1
          THEN LET f == CHOOSE f \in Files : c \in InitBase[f] .. InitBase[f] + Size[f] - 1
               IN  [file |-> f, off |-> c - InitBase[f], base |-> InitBase[f]]
          ELSE Blank]
    /\ crc = [f \in Files |-> Linked(f, InitBase[f])]
    /\ fstCrc = Table
    /\ pc = "boot"
    /\ cur \in Files
    /\ dest = NULL /\ at = 0 /\ ret = 0
    /\ locked = TRUE /\ trapped = FALSE
    /\ resets = 0 /\ torn = {}
-----------------------------------------------------------------------------
(* uld_fs_find_free_space.  The code sorts the entries by base and walks the
   gaps in that order; the gaps of the sorted list are the ones between a file
   and the file next above it, before the first and after the last. *)
AlignUp(n) == n + ((-n) % Align)
End_PlusOne(f) == base[f] + Size[f] + 1
End(f) == base[f] + Size[f]
NextAbove(f, g) ==
    base[f] < base[g] /\ \A h \in Files : base[h] <= base[f] \/ base[h] >= base[g]
First(f) == \A h \in Files : base[h] >= base[f]
Last(f) == \A h \in Files : base[h] <= base[f]

FreeStarts_IgnoresTail(size) ==
    {FilesBase : f \in {f \in Files : First(f) /\ base[f] - FilesBase >= size}}
    \cup {End(f) : f \in {f \in Files : \E g \in Files : NextAbove(f, g) /\ base[g] - End(f) >= size}}
FreeStarts(size) ==
    {FilesBase : f \in {f \in Files : First(f) /\ base[f] - FilesBase >= size}}
    \cup {End(f) : f \in {f \in Files : \E g \in Files : NextAbove(f, g) /\ base[g] - End(f) >= size}}
    \cup {End(f) : f \in {f \in Files : Last(f) /\ FilesBase + FilesSize - End(f) >= size}}

FindFreeSpace(size) ==
    LET starts == FreeStarts(AlignUp(size))
    IN  IF starts = {} THEN NULL ELSE CHOOSE p \in starts : \A q \in starts : p <= q

(* "Only simple check done for move to ensure src and dest do not overlap." *)
Overlaps(f, p) ==
    LET newEnd == p + Size[f] - 1
        fseEnd == End(f) - 1
    IN  \/ p >= base[f] /\ p <= fseEnd
        \/ newEnd >= base[f] /\ newEnd <= fseEnd

(* cpu_flash_unlock. *)
Unlock_Skipped == UNCHANGED locked
Unlock == locked' = FALSE

(* Execution goes on whatever the move returned: uld_main does not look. *)
ToExec(code) == pc' = "exec" /\ ret' = code
Fail(code) == pc' = "done" /\ ret' = code

BootWithoutMove ==
    /\ pc = "boot"
    /\ ToExec(0)
    /\ UNCHANGED <<persistent, cur, dest, at, locked, trapped, resets, torn>>

(* uld_main picks the file to move; the move fails if there is no room. *)
BootMove(f) ==
    /\ pc = "boot"
    /\ LET p == FindFreeSpace(Size[f])
       IN  /\ cur' = f
           /\ dest' = p
           /\ at' = 0
           /\ \/ /\ p = NULL \/ Overlaps(f, p)
                 /\ ToExec(-1)
                 /\ UNCHANGED locked
              \/ /\ p # NULL /\ ~Overlaps(f, p)
                 /\ Unlock
                 /\ pc' = "copy"
                 /\ UNCHANGED ret
           /\ trapped' = (trapped \/ (p # NULL /\ p % Align # 0))
    /\ UNCHANGED <<persistent, resets, torn>>

(* cpu_flash_write of the image, a cell at a time.  While the flash is locked
   every cpu_flash_write returns -1, and the move goes to its exit. *)
MoreToCopy_Short == at + 1 < Size[cur] - 1
MoreToCopy == at + 1 < Size[cur]
CopyCell ==
    /\ pc = "copy"
    /\ IF locked
       THEN Fail(-1) /\ UNCHANGED <<flash, at>>
       ELSE /\ flash' = [flash EXCEPT ![dest + at] = flash[base[cur] + at]]
            /\ at' = IF MoreToCopy THEN at + 1 ELSE 0
            /\ pc' = IF MoreToCopy THEN "copy" ELSE "fixup"
            /\ UNCHANGED ret
    /\ UNCHANGED <<base, crc, fstCrc, cur, dest, locked, trapped, resets, torn>>

(* uld_rofixup_do_flash_fixup: a pointer into the image at its old base is
   rewritten for the new one; a pointer that the section lists of the old
   image do not cover is an error the code stops at and then skips. *)
Resolvable(c) == c # Blank /\ c.base = base[cur]
Fixed(c) == IF Resolvable(c) THEN [c EXCEPT !.base = dest] ELSE c

(* uld_rofixup_apply_flash_fixups: the flash sections, then the sections that
   are copied to memory at load time.  The list of the latter is refused when
   it is empty, and both are when the file has no .rofixup section.  A fixup
   stores through the pointer: the lock is not asked. *)
FixupCell ==
    /\ pc = "fixup"
    /\ cur \notin NoRofixup
    /\ at < Size[cur]
    /\ flash' = [flash EXCEPT ![dest + at] = Fixed(@)]
    /\ trapped' = (trapped \/ ~Resolvable(flash[dest + at]))
    /\ at' = at + 1
    /\ UNCHANGED <<base, crc, fstCrc, pc, cur, dest, ret, locked, resets, torn>>

FixupsEnd_Early == at + 1 >= Size[cur]
FixupsEnd == at >= Size[cur]
FixupDone ==
    /\ pc = "fixup"
    /\ \/ /\ cur \in NoRofixup
          /\ Fail(1)
       \/ /\ cur \notin NoRofixup /\ FixupsEnd /\ FlashLen[cur] = Size[cur]
          /\ Fail(-1)
       \/ /\ cur \notin NoRofixup /\ FixupsEnd /\ FlashLen[cur] < Size[cur]
          /\ pc' = "base"
          /\ UNCHANGED ret
    /\ UNCHANGED <<persistent, cur, dest, at, locked, trapped, resets, torn>>

(* The table's pointer is a cell: it is written at once.  This port's
   cpu_flash_write copies its four bytes one by one, and what a cut between
   two of them would leave is outside this model. *)
WriteBase ==
    /\ pc = "base"
    /\ IF locked
       THEN Fail(-1) /\ UNCHANGED base
       ELSE /\ base' = [base EXCEPT ![cur] = dest]
            /\ ret' = 0
            /\ pc' = "crcfse"
    /\ UNCHANGED <<flash, crc, fstCrc, cur, dest, at, locked, trapped, resets, torn>>

(* uld_crc_update_fse and then uld_crc_update_fst: the CRC of the table covers
   the CRCs of its entries.  Their results are ignored: a refused write leaves
   the old CRC and the update goes on. *)
NewCrc_OldImage == [crc EXCEPT ![cur] = Linked(cur, InitBase[cur])]
NewCrc == [crc EXCEPT ![cur] = Image(cur)]
UpdateFseCrc ==
    /\ pc = "crcfse"
    /\ IF locked
       THEN UNCHANGED <<crc, torn>>
       ELSE crc' = NewCrc /\ torn' = torn \ {cur}
    /\ pc' = "crcfst"
    /\ UNCHANGED <<flash, base, fstCrc, cur, dest, at, ret, locked, trapped, resets>>

UpdateFstCrc ==
    /\ pc = "crcfst"
    /\ IF locked
       THEN UNCHANGED <<fstCrc, torn>>
       ELSE fstCrc' = Table /\ torn' = torn \ {"fst"}
    /\ pc' = "done"
    /\ UNCHANGED <<flash, base, crc, cur, dest, at, ret, locked, trapped, resets>>

(* The exit of the move unlocks the flash once more, where it would be
   expected to lock it: the applications run with the flash unlocked. *)
MoveReturn ==
    /\ pc = "done"
    /\ Unlock
    /\ pc' = "exec"
    /\ UNCHANGED <<persistent, cur, dest, at, ret, trapped, resets, torn>>

(* Power is cut, or the board is reset.  The lock state is a RAM variable. *)
Reset ==
    /\ resets < MaxResets
    /\ pc # "boot"
    /\ resets' = resets + 1
    /\ pc' = "boot"
    /\ dest' = NULL /\ at' = 0 /\ ret' = 0 /\ locked' = TRUE
    /\ torn' = torn \cup (IF pc = "crcfse" THEN {cur, "fst"}
                          ELSE IF pc = "crcfst" THEN {"fst"} ELSE {})
    /\ UNCHANGED <<persistent, cur, trapped>>

Step ==
    \/ BootWithoutMove \/ (\E f \in Files : BootMove(f))
    \/ CopyCell \/ FixupCell \/ FixupDone
    \/ WriteBase \/ UpdateFseCrc \/ UpdateFstCrc \/ MoveReturn

Next == Step \/ Reset

Spec == Init /\ [][Next]_vars

(* One thread, never preempted; nothing obliges the power to be cut. *)
FairSpec == Spec /\ WF_vars(Step)
-----------------------------------------------------------------------------
(* Properties *)

(* Whatever write the power is cut at, every file the table names is complete
   and its pointers are linked for the base the table gives. *)
ImagesIntact == \A f \in Files : Image(f) = Linked(f, base[f])

(* The files stay inside the region and apart from each other. *)
NoOverlap ==
    /\ \A f \in Files : FilesBase <= base[f] /\ End(f) <= FilesBase + FilesSize
    /\ \A f, g \in Files : f # g => Apart(base[f], f, base[g], g)

(* What makes ImagesIntact and NoOverlap inductive: until the table points to
   it, the destination lies in the region, apart from every file, and holds
   what has been copied and fixed up so far. *)
DestFree ==
    /\ FilesBase <= dest /\ dest + Size[cur] <= FilesBase + FilesSize
    /\ \A g \in Files : Apart(dest, cur, base[g], g)
CellIs(p, o, b) == flash[p + o] = [file |-> cur, off |-> o, base |-> b]
MoveInv ==
    /\ pc \in {"copy", "fixup", "base"} => DestFree
    /\ pc = "copy" => /\ at < Size[cur]
                      /\ \A o \in 0 .. at - 1 : CellIs(dest, o, base[cur])
    /\ pc = "fixup" => /\ at <= Size[cur]
                       /\ \A o \in 0 .. at - 1 : CellIs(dest, o, dest)
                       /\ \A o \in at .. Size[cur] - 1 : CellIs(dest, o, base[cur])
    /\ pc = "base" => \A o \in 0 .. Size[cur] - 1 : CellIs(dest, o, dest)
RelocInv == TypeOK /\ NoOverlap /\ ImagesIntact /\ MoveInv

(* No move meets a misaligned destination or a pointer it cannot resolve: the
   swbkpt() calls of the move are never reached. *)
NeverTrapped == ~trapped

(* A stored CRC is stale only while it is being updated, or where a reset cut
   the update short; the next complete move of the file makes it good. *)
CrcFresh ==
    /\ \A f \in Files :
         crc[f] # Image(f) => f \in torn \/ (pc = "crcfse" /\ cur = f)
    /\ fstCrc # Table => "fst" \in torn \/ pc \in {"crcfse", "crcfst"}

(* First fit misses no gap: a move is refused only if no aligned place in the
   region holds the file without touching another. *)
FreeSpaceComplete ==
    pc = "boot" => \A f \in Files :
        FindFreeSpace(Size[f]) = NULL =>
            \A p \in Cells : \/ p + Size[f] > FilesBase + FilesSize
                             \/ \E g \in Files : ~Apart(p, f, base[g], g)

(* A file the move can handle: it has a .rofixup section and sections in
   memory. *)
Movable(f) == f \notin NoRofixup /\ FlashLen[f] < Size[f]

(* However often the power is cut, and with the flash locked again at every
   reset, once the power stays on the boot gets to the execution of the file;
   and a move that it began and can handle has been carried out: no write of it
   was refused, the table names the new place and the move returned 0. *)
ReachesExec ==
    <>[](pc = "exec" /\ (dest # NULL /\ Movable(cur) => base[cur] = dest /\ ret = 0))
=============================================================================
