------------------------------ MODULE UldLoad -------------------------------
(***************************************************************************)
(* Loading the dependency list into memory: uld_dyn_load_fse_dep_list,     *)
(* uld_load_file, the section lists it cuts out of one shared array, the   *)
(* placement of the memory sections and their fixups.                      *)
(*                                                                         *)
(* Addresses and sizes count words.  A section record holds its name, its  *)
(* link address, its size, whether it is loaded to memory, whether it is   *)
(* NOBITS, and the pointer in its first word (0: none): the link address   *)
(* of a word of a memory section, or a flash address, which the build or   *)
(* the last move of the file has adjusted already.                         *)
(*                                                                         *)
(* A definition X_Y is the definition X with the mistake Y in it; it is    *)
(* used by no specification, only to see that a property rejects it.       *)
(***************************************************************************)
EXTENDS Integers, Sequences, FiniteSets

CONSTANTS Lists,     \* the dependency lists to load
          BssEnd,    \* &__bss_end__, where the linker's own memory ends
          RamEnd,    \* bound: the words of memory modelled
          Align,     \* words per 8 bytes, ULD_LOAD_MEMBASE_ALIGNMENT
          FlashBase  \* addresses from here on are flash, those below are not

Names == {".got", ".got.plt", ".data", ".bss", ".text", ".hash"}
MemNames == {".got", ".got.plt", ".data", ".bss"}
Section == [name : Names, addr : Nat \ {0}, size : Nat \ {0}, nobits : BOOLEAN, ptr : Nat]
File == [secs : Seq(Section), rofixup : BOOLEAN]

ASSUME AddressAssumption ==
    /\ BssEnd \in Nat \ {0} /\ RamEnd \in Nat /\ Align \in Nat \ {0} /\ FlashBase \in Nat
ASSUME ListsAssumption == \A l \in Lists : l \in Seq(File)

VARIABLES
    list,        \* dep_list, one record per file
    pc, ret,
    i, j,        \* the file being loaded and the section being placed
    secIdx,      \* sec_idx: entries of sec_list used up
    secCount,    \* sec_count: entries it has
    lists,       \* the section lists cut out of it for each file
    base0,       \* *membase
    membase,     \* load_file_membase
    allocated,   \* load_file_allocated
    start,       \* membase inside uld_load_alloc_mem_sections
    ptr,         \* where it places the next section
    mem,         \* the memory above the linker's own
    vma,         \* adjusted_vma of each placed section
    fileBase,    \* ufile->membase
    dlAllocBase, \* where uld_dyn_exec_fse lets the pool of the link begin
    trapped      \* a swbkpt() has been reached

vars == <<list, pc, ret, i, j, secIdx, secCount, lists, base0, membase, allocated,
          start, ptr, mem, vma, fileBase, dlAllocBase, trapped>>
-----------------------------------------------------------------------------
(* uld_section_get_type and uld_section_is_mem_sec_fixup_by_name. *)
IsMem(s) == s.name \in MemNames
NeedsFixup_NotData(s) == s.name \in {".got", ".got.plt"}
NeedsFixup(s) == s.name \in MemNames \ {".bss"}

(* uld_load_get_sec_count over the list, for flash and memory sections. *)
SecCount_LastFile(l) == Len(l[Len(l)].secs)
SecCount(l) ==
    LET upto[k \in 0 .. Len(l)] == IF k = 0 THEN 0 ELSE upto[k - 1] + Len(l[k].secs)
    IN  upto[Len(l)]

(* uld_load_create_sec_list: the first snum sections of a kind in the order of
   the headers, kept in ascending order of address; of two at the same address
   the one whose header comes first is first.  (A section at address 0 would be
   put by its offset; where the file begins its header is, and no section.) *)
OfKind(f, isMem) == {k \in 1 .. Len(f.secs) : IsMem(f.secs[k]) = isMem}
Taken(f, snum, isMem) ==
    {k \in OfKind(f, isMem) : Cardinality({m \in OfKind(f, isMem) : m <= k}) <= snum}
Before(f, b, a) ==
    f.secs[b].addr < f.secs[a].addr \/ (f.secs[b].addr = f.secs[a].addr /\ b < a)
Sorted(f, S) ==
    [k \in 1 .. Cardinality(S) |->
        f.secs[CHOOSE a \in S : Cardinality({b \in S : Before(f, b, a)}) = k - 1]]

(* uld_load_create_file with snum > 0: the memory list first, the flash list from
   what is left; a list that gets no room is left out. *)
CreateFile(f, snum) ==
    LET memList == Sorted(f, Taken(f, snum, TRUE))
    IN  [mem   |-> memList,
         flash |-> Sorted(f, Taken(f, snum - Len(memList), FALSE))]

(* uld_load_get_next_membase. *)
AlignUp(n) == n + ((-n) % Align)
NextMembase_Reset(last, size) == AlignUp(BssEnd)
NextMembase(last, size) == AlignUp(IF last >= BssEnd THEN last + size ELSE BssEnd)

MemList == lists[i].mem
TypeOK ==
    /\ list \in Lists
    /\ pc \in {"file", "alloc", "fixup", "done"}
    /\ ret \in {-1, 0, 1}
    /\ i \in 1 .. Len(list) + 1 /\ j \in Nat
    /\ secIdx \in 0 .. secCount
    /\ DOMAIN lists = 1 .. Len(list)
    /\ {base0, membase, allocated, ptr, dlAllocBase} \subseteq Nat
    /\ start \in Int
    /\ DOMAIN mem = BssEnd .. RamEnd
    /\ fileBase \in [1 .. Len(list) -> Nat]
    /\ trapped \in BOOLEAN

Untouched == [file |-> 0]

Init ==
    /\ list \in Lists
    /\ pc = "file" /\ ret = 0 /\ i = 1 /\ j = 1
    /\ secIdx = 0 /\ secCount = SecCount(list)
    /\ lists = [k \in 1 .. Len(list) |-> [mem |-> <<>>, flash |-> <<>>]]
    /\ base0 = NextMembase(0, 0) /\ membase = base0 /\ allocated = 0
    /\ start = 0 /\ ptr = 0
    /\ mem = [a \in BssEnd .. RamEnd |-> Untouched]
    /\ vma = {}
    /\ fileBase = [k \in 1 .. Len(list) |-> 0]
    /\ dlAllocBase = 0
    /\ trapped = FALSE

(* What a section's words hold once placed: its own contents, or zeroes. *)
Word(k, s, o) == [file |-> k, name |-> s.name, off |-> o,
                  val  |-> IF o = 0 /\ ~s.nobits THEN s.ptr ELSE 0]
Vma(k, name) == (CHOOSE p \in vma : p.file = k /\ p.name = name).at

(* uld_load_file up to the placement of the sections.  A file without memory
   sections leaves the base and the size of the one before it in place. *)
LoadFile ==
    /\ pc = "file"
    /\ i <= Len(list)
    /\ secIdx < secCount
    /\ LET made == CreateFile(list[i], secCount - secIdx)
           next == NextMembase(membase, allocated)
       IN  /\ lists' = [lists EXCEPT ![i] = made]
           /\ \/ /\ made.mem = <<>>
                 /\ i' = i + 1
                 /\ secIdx' = secIdx + Len(made.flash)
                 /\ UNCHANGED <<pc, j, membase, start, ptr, fileBase>>
              \/ /\ made.mem # <<>>
                 /\ membase' = next /\ start' = next /\ ptr' = next
                 /\ fileBase' = [fileBase EXCEPT ![i] = next]
                 /\ j' = 1
                 /\ pc' = "alloc"
                 /\ UNCHANGED <<i, secIdx>>
    /\ UNCHANGED <<list, ret, secCount, base0, allocated, mem, vma, dlAllocBase, trapped>>

(* uld_load_create_file refuses a file when the array is used up, even one that
   needs none of it; uld_dyn_load_fse_dep_list stops there. *)
NoEntries ==
    /\ pc = "file"
    /\ i <= Len(list)
    /\ secIdx >= secCount
    /\ ret' = -1
    /\ trapped' = TRUE
    /\ dlAllocBase' = base0
    /\ pc' = "done"
    /\ UNCHANGED <<list, i, j, secIdx, secCount, lists, base0, membase, allocated, start,
                   ptr, mem, vma, fileBase>>

(* uld_load_alloc_mem_sections, a section at a time.  Unused words before a
   section move the start of the file, not the place of the section.  The code
   takes the gap from the offsets in the file; ld gives the memory sections one
   segment, in which addresses and offsets differ by a constant.  (Memory sections
   of two segments would stop at a swbkpt() and be placed all the same.) *)
Gap(a, b) == IF a.nobits THEN 0 ELSE b.addr - a.addr - a.size
GapAt == IF j = 1 THEN 0 ELSE Gap(MemList[j - 1], MemList[j])

PlaceSection ==
    /\ pc = "alloc"
    /\ j <= Len(MemList)
    /\ LET s == MemList[j]
       IN  /\ start' = IF GapAt > 0 THEN start + GapAt ELSE start
           /\ trapped' = (trapped \/ GapAt < 0)
           /\ mem' = [a \in DOMAIN mem |->
                        IF a \in ptr .. ptr + s.size - 1 THEN Word(i, s, a - ptr) ELSE mem[a]]
           /\ vma' = vma \cup {[file |-> i, name |-> s.name, at |-> ptr]}
           /\ ptr' = ptr + s.size
           /\ j' = j + 1
    /\ UNCHANGED <<list, pc, ret, i, secIdx, secCount, lists, base0, membase, allocated,
                   fileBase, dlAllocBase>>

AllocDone ==
    /\ pc = "alloc"
    /\ j > Len(MemList)
    /\ allocated' = ptr - start
    /\ pc' = "fixup"
    /\ UNCHANGED <<list, ret, i, j, secIdx, secCount, lists, base0, membase, start, ptr,
                   mem, vma, fileBase, dlAllocBase, trapped>>

(* uld_rofixup_do_mem_fixup: a pointer to a memory section is moved to where
   the section is now.  The .got entry for .got.plt gets the file's base. *)
TargetOf(p) ==
    {k \in 1 .. Len(MemList) : p \in MemList[k].addr .. MemList[k].addr + MemList[k].size - 1}
GotPltBase(p) ==
    \E k \in 1 .. Len(MemList) : MemList[k].name = ".got.plt" /\ p = MemList[k].addr
Fixed(s, p) ==
    IF p = 0 \/ TargetOf(p) = {} THEN p
    ELSE IF s.name = ".got" /\ GotPltBase(p) THEN fileBase[i]
    ELSE LET t == MemList[CHOOSE k \in TargetOf(p) : TRUE]
         IN  p - t.addr + Vma(i, t.name)

Slots == {k \in 1 .. Len(MemList) : NeedsFixup(MemList[k])}
SlotAt(k) == Vma(i, MemList[k].name)

(* uld_rofixup_apply_mem_fixups, and uld_load_file returns.  The loop over the
   list stops at the first nonzero return; uld_dyn_exec_fse goes on even then,
   with the pool at the base it started from. *)
ApplyFixups ==
    /\ pc = "fixup"
    /\ list[i].rofixup
    /\ mem' = [a \in DOMAIN mem |->
                 IF \E k \in Slots : SlotAt(k) = a
                 THEN LET k == CHOOSE k \in Slots : SlotAt(k) = a
                      IN  [mem[a] EXCEPT !.val = Fixed(MemList[k], @)]
                 ELSE mem[a]]
    /\ trapped' = (trapped \/ \E k \in Slots : LET p == mem[SlotAt(k)].val
                                               IN  p \in 1 .. FlashBase - 1 /\ TargetOf(p) = {})
    /\ secIdx' = secIdx + Len(lists[i].mem) + Len(lists[i].flash)
    /\ i' = i + 1
    /\ pc' = "file"
    /\ UNCHANGED <<list, ret, j, secCount, lists, base0, membase, allocated, start, ptr,
                   vma, fileBase, dlAllocBase>>

NoRofixup ==
    /\ pc = "fixup"
    /\ ~list[i].rofixup
    /\ ret' = 1
    /\ trapped' = TRUE
    /\ dlAllocBase' = base0
    /\ pc' = "done"
    /\ UNCHANGED <<list, i, j, secIdx, secCount, lists, base0, membase, allocated, start,
                   ptr, mem, vma, fileBase>>

DlAllocBase_LastFile == base0 + allocated
DlAllocBase == base0 + (membase - base0 + allocated)
LoadDone ==
    /\ pc = "file"
    /\ i > Len(list)
    /\ dlAllocBase' = DlAllocBase
    /\ pc' = "done"
    /\ UNCHANGED <<list, ret, i, j, secIdx, secCount, lists, base0, membase, allocated,
                   start, ptr, mem, vma, fileBase, trapped>>

Next == LoadFile \/ NoEntries \/ PlaceSection \/ AllocDone \/ ApplyFixups \/ NoRofixup \/ LoadDone

Spec == Init /\ [][Next]_vars
-----------------------------------------------------------------------------
(* Properties *)
Secs(k) == {list[k].secs[m] : m \in 1 .. Len(list[k].secs)}
MemSecs(k) == {s \in Secs(k) : IsMem(s)}
Loaded == pc = "done" /\ ret = 0

(* Everything placed stays: no section, of this or of a later file, is written
   over one that has been placed before. *)
MemoryIntact ==
    \A p \in vma : \A s \in Secs(p.file) :
        s.name = p.name => \A o \in 0 .. s.size - 1 :
            LET w == mem[p.at + o] IN w.file = p.file /\ w.name = p.name /\ w.off = o

(* The pool of the link starts above all that is loaded. *)
PoolAbove ==
    Loaded => \A p \in vma : \A s \in Secs(p.file) :
                 s.name = p.name => p.at + s.size <= dlAllocBase

(* Code reaches its data relative to the base register: every section is as
   far from the file's base as it was from the first section at link time. *)
LayoutKept ==
    Loaded => \A k \in 1 .. Len(list) : \A s, t \in MemSecs(k) :
                 (\A u \in MemSecs(k) : t.addr <= u.addr) =>
                     /\ fileBase[k] % Align = 0
                     /\ Vma(k, s.name) = fileBase[k] + s.addr - t.addr

(* The shared section array is neither overrun nor cut short: when all files
   are loaded it is used up, and every section of every file is in a list; it is
   used up before only where a file without sections comes last. *)
SecListExact ==
    /\ Loaded => /\ secIdx = secCount
                 /\ \A k \in 1 .. Len(list) :
                       Len(lists[k].mem) + Len(lists[k].flash) = Len(list[k].secs)
    /\ pc = "done" /\ ret = -1 => Len(list[i].secs) = 0

(* Once loaded, each pointer of the file points to the word it was linked to,
   wherever that word is now; flash pointers are as they were; the .got entry
   for .got.plt holds the base register's value. *)
PointersLand ==
    Loaded => \A k \in 1 .. Len(list) : \A s \in MemSecs(k) :
        (~s.nobits /\ s.ptr # 0) =>
            LET now == mem[Vma(k, s.name)].val
                into == {t \in MemSecs(k) : s.ptr \in t.addr .. t.addr + t.size - 1}
            IN  IF into = {} THEN now = s.ptr
                ELSE \E t \in into :
                       IF s.name = ".got" /\ t.name = ".got.plt" /\ s.ptr = t.addr
                       THEN now = fileBase[k]
                       ELSE /\ now \in BssEnd .. RamEnd
                            /\ mem[now].file = k /\ mem[now].name = t.name
                            /\ mem[now].off = s.ptr - t.addr

(* A load that succeeds has met no overlapping sections and no pointer that
   leads to no section: none of its swbkpt() calls has been reached. *)
NoTrap == Loaded => ~trapped

(* What the loader relies on in a file and does not check: no two memory
   sections share a name or a word, each but the lowest begins where another one
   ends (a gap breaks the load), .bss has no contents, and every pointer leads
   to a memory section or to flash. *)
MemIdx(f) == {k \in 1 .. Len(f.secs) : IsMem(f.secs[k])}
EndOf(s) == s.addr + s.size
Packed(f) ==
    /\ \A a, b \in MemIdx(f) : a # b =>
          /\ f.secs[a].name # f.secs[b].name
          /\ EndOf(f.secs[a]) <= f.secs[b].addr \/ EndOf(f.secs[b]) <= f.secs[a].addr
    /\ \A b \in MemIdx(f) : \/ \A a \in MemIdx(f) : f.secs[b].addr <= f.secs[a].addr
                            \/ \E a \in MemIdx(f) : EndOf(f.secs[a]) = f.secs[b].addr
PointersGood(f) ==
    \A a \in MemIdx(f) :
        LET s == f.secs[a]
        IN  /\ s.name = ".bss" => s.nobits
            /\ \/ s.nobits \/ s.ptr = 0 \/ s.ptr >= FlashBase
               \/ \E b \in MemIdx(f) : s.ptr \in f.secs[b].addr .. EndOf(f.secs[b]) - 1
(* What has been placed is in the memory modelled. *)
Fits ==
    \A p \in vma : \A s \in Secs(p.file) : s.name = p.name => p.at + s.size <= RamEnd + 1

(* A load that succeeds leaves each file laid out as its code expects, and the
   pool above them all, and has passed no breakpoint. *)
LoadInv == TypeOK /\ LayoutKept /\ PoolAbove /\ NoTrap
=============================================================================
