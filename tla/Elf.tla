-------------------------------- MODULE Elf ---------------------------------
(***************************************************************************)
(* Looking things up in the files: the accessors of elf.c, the section     *)
(* records made from the headers (uld_load_create_section), the section    *)
(* lists of a loaded file (uld_load_create_sec_list, uld_file.c) and the   *)
(* searches in them (uld_sal.c).                                           *)
(*                                                                         *)
(* Addresses, offsets and sizes count words.  Sections are numbered from   *)
(* 1, as the loops over the headers leave out the NULL section; 0 stands   *)
(* for NULL, for "not found" and for ELF_SEC_HAS_NO_SEGMENT.               *)
(*                                                                         *)
(* A definition X_Y is the definition X with the mistake Y in it; it is    *)
(* used by no specification, only to see that a property rejects it.       *)
(***************************************************************************)
EXTENDS Integers, Sequences, FiniteSets, SequencesExt

SecTypes == {"PROGBITS", "NOBITS", "INIT_ARRAY", "REL"}
(* Only a section that is not allocated has the address 0: where the file begins
   its header is. *)
Section ==
    {s \in [name : STRING, type : SecTypes, alloc : BOOLEAN, addr : Nat, off : Nat, size : Nat] :
        s.alloc => s.addr # 0}
Segment == [load : BOOLEAN, vaddr : Nat, paddr : Nat, memsz : Nat, off : Nat, filesz : Nat]
Image == [base : Nat \ {0}, entry : Nat, secs : Seq(Section), segs : Seq(Segment)]

Within(a, start, size) == start <= a /\ a < start + size

SectionByName(f, name) == SelectInSeq(f.secs, LAMBDA s : s.name = name)
SectionByVma(f, a) == SelectInSeq(f.secs, LAMBDA s : Within(a, s.addr, s.size))

(* Only loadable segments hold sections.  The file offsets are compared with
   "and" where the comment asks for a section that is outside on either side. *)
SegmentBySection_AnyType(f, s) ==
    SelectInSeq(f.segs, LAMBDA g :
        s.alloc /\ g.vaddr <= s.addr /\ s.addr + s.size <= g.vaddr + g.memsz)
SegmentBySection(f, s) ==
    SelectInSeq(f.segs, LAMBDA g :
        /\ s.alloc /\ g.load
        /\ g.vaddr <= s.addr /\ s.addr + s.size <= g.vaddr + g.memsz
        /\ ~(s.type # "NOBITS" /\ s.off < g.off /\ s.off + s.size > g.off + g.filesz))

SectionLma(f, s) ==
    LET k == SegmentBySection(f, s)
    IN  CASE k = 0 -> s.addr
          [] k # 0 /\ s.type # "NOBITS" -> s.off - f.segs[k].off + f.segs[k].paddr
          [] k # 0 /\ s.type = "NOBITS" -> s.addr - f.segs[k].vaddr + f.segs[k].paddr

FlashAddr(f, s) == f.base + s.off
AdjustLma(f, s) == IF s.type # "NOBITS" /\ s.alloc THEN f.base + s.off ELSE 0
AdjustVma(f, s) == f.base + s.off

AdjustedEntry(f) ==
    LET k == SectionByVma(f, f.entry)
    IN  IF k = 0 THEN 0 ELSE AdjustVma(f, f.secs[k]) + f.entry - f.secs[k].addr
-----------------------------------------------------------------------------
(* Section records and the lists of them. *)
MemNames == {".got", ".got.plt", ".data", ".bss"}
SecType(s) == CASE ~s.alloc -> "other"
                [] s.alloc /\ s.name \in MemNames -> "mem"
                [] s.alloc /\ s.name \notin MemNames -> "flash"

CreateSection(f, k) ==
    LET s == f.secs[k]
    IN  [shidx |-> k, phidx |-> SegmentBySection(f, s), name |-> s.name, size |-> s.size,
         lma |-> SectionLma(f, s), adjLma |-> AdjustLma(f, s), adjVma |-> AdjustVma(f, s),
         nobits |-> s.type = "NOBITS", loaded |-> FALSE]

(* The first snum sections of a type, in ascending order of address; of two at
   the same address the one whose header comes first is first. *)
OfType(f, types) == {k \in 1 .. Len(f.secs) : SecType(f.secs[k]) \in types}
TakenSecs(f, snum, type) ==
    {k \in OfType(f, {type}) : Cardinality({m \in OfType(f, {type}) : m <= k}) <= snum}
Before(f, b, a) ==
    f.secs[b].addr < f.secs[a].addr \/ (f.secs[b].addr = f.secs[a].addr /\ b < a)
CreateSecList(f, snum, type) ==
    LET taken == TakenSecs(f, snum, type)
    IN  [k \in 1 .. Cardinality(taken) |->
           CreateSection(f, CHOOSE a \in taken : Cardinality({b \in taken : Before(f, b, a)}) = k - 1)]
SecCount(f) == Cardinality(OfType(f, {"flash", "mem"}))

(* A file of the list: struct uld_file.  Where a file is not in the list of the
   loaded ones, its record is all zero. *)
NoFile == [fse |-> 0, flash |-> <<>>, mem |-> <<>>, membase |-> 0, memsz |-> 0]

FindByName(list, name) == SelectInSeq(list, LAMBDA s : s.name = name)
FindByLma(list, a) == SelectInSeq(list, LAMBDA s : Within(a, s.lma, s.size))

(* uld_file_copy_sec_by_name: in a list of the file, or else in the headers. *)
CopySecByName(u, f, name) ==
    LET k == FindByName(u.flash, name)
        h == SectionByName(f, name)
    IN  CASE k # 0 -> <<u.flash[k]>>
          [] k = 0 /\ h # 0 -> <<CreateSection(f, h)>>
          [] OTHER -> <<>>

(* Where the word linked at a is now: uld_file_lma_to_adjusted_vma. *)
SecToAdjustedVma(s, a) ==
    IF a = 0 \/ ~Within(a, s.lma, s.size) \/ (s.nobits /\ ~s.loaded) THEN 0 ELSE a - s.lma + s.adjVma
LmaToAdjustedVma(u, a) ==
    LET k == FindByLma(u.flash, a)
        m == FindByLma(u.mem, a)
    IN  CASE k # 0 -> SecToAdjustedVma(u.flash[k], a)
          [] k = 0 /\ m # 0 -> SecToAdjustedVma(u.mem[m], a)
          [] OTHER -> 0
=============================================================================
