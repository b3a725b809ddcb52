------------------------------ MODULE PatchElf ------------------------------
(***************************************************************************)
(* Build time: scripts/patch-uld-elf.py patches the files embedded in      *)
(* uld.elf in place, one after the other: the pointers listed in .rofixup  *)
(* that lead to flash, the GOT offsets in .plt, then the CRC of the file,  *)
(* and at the end the CRC of the file system table.  An exception, or the  *)
(* interruption of the build, leaves uld.elf as it is then, and as         *)
(* .uld.elf.patched has not been touched the next make runs the script on  *)
(* it again.                                                               *)
(*                                                                         *)
(* A pointer is given by the section it leads to and, in the image, by how *)
(* often it has been adjusted; a .plt entry by how often its offset has.   *)
(*                                                                         *)
(* A definition X_Y is the definition X with the mistake Y in it; it is    *)
(* used by no specification, only to see that a property rejects it.       *)
(***************************************************************************)
EXTENDS Integers, Sequences

CONSTANTS Tables,   \* file system tables: sequences of files
          MaxRuns   \* bound: how often make runs the script

(* What a pointer leads to: a section that stays in flash, one of
   ROFIXUP_MEM_SEC_LIST with contents in the file, or .bss, which has none; a
   blank word leads to no section either.  "astray": the list names an address
   that is in no section, so that there is no pointer. *)
Targets == {"flash", "mem", "bss", "astray"}
(* plt: the number of entries; got: the distance of .got.plt from .got, or Bad
   where there is no .got.plt or the size is not that of whole entries. *)
Bad == -1
File == [fixups : Seq(Targets), plt : Nat, got : Nat \cup {Bad}]

ASSUME TablesAssumption == \A t \in Tables : t \in Seq(File)
ASSUME RunsAssumption == MaxRuns \in Nat \ {0}

VARIABLES
    files,     \* fs_table, with the .elf files as they were linked
    fixed,     \* fixed[k][n]: adjustments of the n-th pointer of file k
    plt,       \* plt[k][n]: what has been added to the n-th offset of file k
    crc,       \* the CRC fields of the table
    tableCrc,  \* the CRC of the table, in the persistent store
    pc,
    k, n,      \* the file, and the pointer or .plt entry of it
    skip,      \* the local variable of apply_rofixups
    runs,      \* how often the script has been started
    left       \* pointers that earlier runs have adjusted

vars == <<files, fixed, plt, crc, tableCrc, pc, k, n, skip, runs, left>>
image == <<fixed, plt, crc, tableCrc>>

Zeroes(m) == [j \in 1 .. m |-> 0]

Init ==
    /\ files \in Tables
    /\ fixed = [j \in 1 .. Len(files) |-> Zeroes(Len(files[j].fixups))]
    /\ plt = [j \in 1 .. Len(files) |-> Zeroes(files[j].plt)]
    /\ crc = [j \in 1 .. Len(files) |-> <<fixed[j], plt[j]>>]   \* gen-uld-files.py
    /\ tableCrc = <<>>
    /\ pc = "open" /\ k = 1 /\ n = 1 /\ skip = "unbound"
    /\ runs = 1 /\ left = 0

(* patch_uld_elf: find and open the next file, or end with the table's CRC. *)
OpenElf ==
    /\ pc = "open" /\ k <= Len(files)
    /\ pc' = "fixups" /\ n' = 1 /\ skip' = "unbound"
    /\ UNCHANGED <<files, k, runs, left, image>>

NotFound ==
    /\ pc = "open" /\ k <= Len(files)
    /\ pc' = "stopped"
    /\ UNCHANGED <<files, k, n, skip, runs, left, image>>
-----------------------------------------------------------------------------
(* apply_rofixups.  lma_to_sec raises for an address in no section.  Of the
   pointer's own address that ends the run; of what it points to, as for .bss,
   what was decided for the pointer before tells if that is an error. *)
Target == files[k].fixups[n]
HasSection(t) == t # "bss"
RaisesOnMiss == skip # "yes"
InPlace_Unchecked == TRUE
InPlace == fixed[k][n] = 0     \* the value in uld.elf is the one that was linked

AtFixup == pc = "fixups" /\ n <= Len(files[k].fixups)

ApplyFixup ==
    /\ AtFixup /\ Target = "flash" /\ InPlace
    /\ fixed' = [fixed EXCEPT ![k][n] = @ + 1]
    /\ skip' = "no" /\ n' = n + 1
    /\ UNCHANGED <<files, plt, crc, tableCrc, pc, k, runs, left>>

SkipFixup ==
    /\ AtFixup
    /\ Target = "mem" \/ (~HasSection(Target) /\ ~RaisesOnMiss)
    /\ skip' = "yes" /\ n' = n + 1
    /\ UNCHANGED <<files, pc, k, runs, left, image>>

FixupRaises ==
    /\ AtFixup
    /\ \/ Target = "astray"
       \/ ~HasSection(Target) /\ RaisesOnMiss
       \/ Target = "flash" /\ ~InPlace
    /\ pc' = "stopped"
    /\ UNCHANGED <<files, k, n, skip, runs, left, image>>

FixupsDone ==
    /\ pc = "fixups" /\ n > Len(files[k].fixups)
    /\ pc' = "plt" /\ n' = 1
    /\ UNCHANGED <<files, k, skip, runs, left, image>>
-----------------------------------------------------------------------------
(* patch_plt_gotofffuncdesc: no sanity check here. *)
PicregOffset_Word(f) == 1
PicregOffset(f) == IF f.plt = 0 THEN 0 ELSE f.got

PltRaises ==
    /\ pc = "plt" /\ PicregOffset(files[k]) = Bad
    /\ pc' = "stopped"
    /\ UNCHANGED <<files, k, n, skip, runs, left, image>>

PatchPlt ==
    /\ pc = "plt" /\ PicregOffset(files[k]) \notin {0, Bad} /\ n <= files[k].plt
    /\ plt' = [plt EXCEPT ![k][n] = @ + PicregOffset(files[k])]
    /\ n' = n + 1
    /\ UNCHANGED <<files, fixed, crc, tableCrc, pc, k, skip, runs, left>>

Contents_Linked(j) == <<Zeroes(Len(files[j].fixups)), Zeroes(files[j].plt)>>
Contents(j) == <<fixed[j], plt[j]>>

(* write_elf_file_crc *)
WriteCrc ==
    /\ pc = "plt"
    /\ PicregOffset(files[k]) = 0 \/ (PicregOffset(files[k]) # Bad /\ n > files[k].plt)
    /\ crc' = [crc EXCEPT ![k] = Contents(k)]
    /\ pc' = "open" /\ k' = k + 1
    /\ UNCHANGED <<files, fixed, plt, tableCrc, n, skip, runs, left>>

(* write_fs_table_crc *)
WriteFstCrc ==
    /\ pc = "open" /\ k > Len(files)
    /\ tableCrc' = crc
    /\ pc' = "done"
    /\ UNCHANGED <<files, fixed, plt, crc, k, n, skip, runs, left>>
-----------------------------------------------------------------------------
Interrupt ==
    /\ pc \in {"open", "fixups", "plt"}
    /\ pc' = "stopped"
    /\ UNCHANGED <<files, k, n, skip, runs, left, image>>

Adjusted ==
    LET ones == {p \in UNION {{j} \X DOMAIN fixed[j] : j \in 1 .. Len(files)} : fixed[p[1]][p[2]] > 0}
    IN  IF ones = {} THEN 0 ELSE 1
MakeAgain ==
    /\ pc = "stopped" /\ runs < MaxRuns
    /\ runs' = runs + 1 /\ left' = Adjusted
    /\ pc' = "open" /\ k' = 1 /\ n' = 1 /\ skip' = "unbound"
    /\ UNCHANGED <<files, image>>

Next ==
    \/ OpenElf \/ NotFound
    \/ ApplyFixup \/ SkipFixup \/ FixupRaises \/ FixupsDone
    \/ PltRaises \/ PatchPlt \/ WriteCrc \/ WriteFstCrc
    \/ Interrupt \/ MakeAgain

Spec == Init /\ [][Next]_vars
-----------------------------------------------------------------------------
(* Properties *)
TypeOK ==
    /\ DOMAIN fixed = 1 .. Len(files) /\ DOMAIN plt = 1 .. Len(files) /\ DOMAIN crc = 1 .. Len(files)
    /\ \A j \in 1 .. Len(files) :
          /\ fixed[j] \in [1 .. Len(files[j].fixups) -> Nat]
          /\ plt[j] \in [1 .. files[j].plt -> Nat]
    /\ pc \in {"open", "fixups", "plt", "stopped", "done"}
    /\ k \in 1 .. Len(files) + 1 /\ n \in Nat \ {0}
    /\ skip \in {"unbound", "yes", "no"}
    /\ runs \in 1 .. MaxRuns /\ left \in {0, 1}

(* However often the build is stopped and run again, no pointer is adjusted
   twice, and none that is left to the loader at all. *)
PointersOnce ==
    \A j \in 1 .. Len(files) : \A m \in DOMAIN fixed[j] :
        fixed[j][m] <= (IF files[j].fixups[m] = "flash" THEN 1 ELSE 0)

(* When the script has finished, every pointer to flash is adjusted; and the
   offsets in .plt are too, once, unless an earlier run was stopped: those of a
   file without pointers to flash may then have been adjusted in each run. *)
FlashFree(j) == \A m \in DOMAIN files[j].fixups : files[j].fixups[m] # "flash"
PatchedOnce ==
    pc = "done" => \A j \in 1 .. Len(files) :
        /\ \A m \in DOMAIN fixed[j] : files[j].fixups[m] = "flash" => fixed[j][m] = 1
        /\ \A m \in DOMAIN plt[j] :
              \/ plt[j][m] = files[j].got
              \/ runs > 1 /\ FlashFree(j) /\ plt[j][m] \in {r * files[j].got : r \in 1 .. runs}

(* The CRCs of a finished build are those of the patched files and of the table
   that holds them. *)
CrcsMatch ==
    pc = "done" => /\ \A j \in 1 .. Len(files) : crc[j] = <<fixed[j], plt[j]>>
                   /\ tableCrc = crc

(* Once a run has adjusted a pointer and stopped, no later run finishes: uld.elf
   has to be linked again. *)
NoResume == left = 1 => pc # "done"

(* However often the script is stopped and run again. *)
RerunInv == TypeOK /\ PointersOnce /\ NoResume
=============================================================================
