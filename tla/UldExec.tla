------------------------------ MODULE UldExec -------------------------------
(***************************************************************************)
(* Running a file: uld_dyn_exec_fse counts and lists the dependencies,     *)
(* loads and links the list, prints the commands that tell the debugger    *)
(* where everything is, calls the constructors of every file and enters    *)
(* the one it was asked for.  It looks at none of the return values.       *)
(*                                                                         *)
(* The phases have modules of their own (UldDep, UldLoad, UldLink,         *)
(* UldEntry); here each is as coarse as its effect on the others: the      *)
(* list, what of each file is in memory and where, which files are linked  *)
(* and what the link's pool overwrites.                                    *)
(*                                                                         *)
(* A definition X_Y is the definition X with the mistake Y in it; it is    *)
(* used by no specification, only to see that a property rejects it.       *)
(***************************************************************************)
EXTENDS Elf

CONSTANTS Table,     \* the files of the file system table
          File,      \* File[t]: what the file t is, see FileAssumption
          Programs,  \* the programs to run, see ProgramsAssumption
          BssEnd,    \* &__bss_end__
          Align      \* words per 8 bytes, ULD_LOAD_MEMBASE_ALIGNMENT

(* A program is the dependency list of a file, or broken where none can be made.
   The list is what UldDep shows it to be: a file may need any of those before
   it, and needs no other.  A file has its image; its dynamic relocations: none,
   good, one that cannot be resolved, or without the symbol and string tables;
   and the words its link takes from the pool. *)
ASSUME ProgramsAssumption ==
    \A p \in Programs : p.list \in Seq(Table) /\ Len(p.list) > 0 /\ p.broken \in BOOLEAN
ASSUME FileAssumption ==
    File \in [Table -> [elf : Image, rels : {"none", "good", "bad", "notables"}, pool : Nat]]
ASSUME AddressAssumption == BssEnd \in Nat \ {0} /\ Align \in Nat \ {0}

(* What ld and the packing of the files make sure of.  In a file every section
   has a name of its own and, but for .bss, a place of its own; the two arrays of
   constructors are the only ones of their type; and the entry point is not in
   them, nor in memory.  The files lie apart in flash, and a list holds none of
   them twice. *)
Held(f) == {n \in 1 .. Len(f.secs) : f.secs[n].type # "NOBITS"}
Contents(f, n) == f.base + f.secs[n].off .. f.base + f.secs[n].off + f.secs[n].size - 1
WellLinked(f) ==
    /\ \A m, n \in 1 .. Len(f.secs) : f.secs[m].name = f.secs[n].name => m = n
    /\ \A m, n \in Held(f) : m # n => Contents(f, m) \cap Contents(f, n) = {}
    /\ \A n \in 1 .. Len(f.secs) :
           f.secs[n].type = "INIT_ARRAY" <=> f.secs[n].name \in {".preinit_array", ".init_array"}
    /\ LET k == SectionByVma(f, f.entry)
       IN  /\ k # 0 => k \in Held(f) /\ f.secs[k].type # "INIT_ARRAY"
           /\ \A n \in 1 .. Len(f.secs) :
                 f.secs[n].alloc /\ Within(f.entry, f.secs[n].addr, f.secs[n].size)
                 => n = k /\ SecType(f.secs[n]) = "flash"
(* What is there at run time has words of its own, where a loadable segment has
   it to be loaded where it was linked; .bss is the only such section without
   contents, .text is one, and the memory sections follow each other without a
   gap. *)
EndOf(s) == s.addr + s.size
Holds(g, s) == g.load /\ g.vaddr <= s.addr /\ EndOf(s) <= g.vaddr + g.memsz
WellPlaced(f) ==
    LET here == OfType(f, {"flash", "mem"})
        mem == OfType(f, {"mem"})
    IN  /\ \A n \in here : f.secs[n].size > 0 /\ (f.secs[n].type = "NOBITS" => n \in mem)
        /\ \A n \in here : \A g \in 1 .. Len(f.segs) : Holds(f.segs[g], f.secs[n]) =>
              /\ f.segs[g].paddr = f.segs[g].vaddr
              /\ f.secs[n].type # "NOBITS" =>
                    f.secs[n].off - f.segs[g].off = f.secs[n].addr - f.segs[g].vaddr
        /\ \A m, n \in here : m # n =>
              EndOf(f.secs[m]) <= f.secs[n].addr \/ EndOf(f.secs[n]) <= f.secs[m].addr
        /\ \A m, n \in mem : f.secs[m].addr < f.secs[n].addr =>
              \E q \in mem : EndOf(f.secs[q]) = f.secs[n].addr
        /\ \A n \in 1 .. Len(f.secs) : f.secs[n].name = ".text" => f.secs[n].alloc
ASSUME LayoutAssumption ==
    /\ \A t \in Table : WellLinked(File[t].elf) /\ WellPlaced(File[t].elf)
    /\ \A t, u \in Table : t # u =>
          \A m \in Held(File[t].elf), n \in Held(File[u].elf) :
              Contents(File[t].elf, m) \cap Contents(File[u].elf, n) = {}
    /\ \A p \in Programs : \A j, k \in 1 .. Len(p.list) : p.list[j] = p.list[k] => j = k

VARIABLES
    prog, pc,
    depCount,    \* dep_count
    idx,         \* idx
    secCount,    \* sec_count
    secIdx,      \* sec_idx: entries of sec_list used up
    i,           \* the file a loop is at
    c,           \* the next constructor of file i
    ufiles,      \* ufile_list
    first,       \* *membase: where the first file is loaded
    membase,     \* load_file_membase
    allocated,   \* load_file_allocated
    total,       \* allocated, which the load sets when it succeeds
    loadRet, linkRet,
    linked,      \* the files whose relocations are done
    poolAt,      \* dl_alloc_base as the link moves it
    clobbered,   \* files whose memory the pool has been laid over
    gdb,         \* the add-symbol-file commands printed
    calls,       \* the code of the files that has been called
    trapped      \* a swbkpt() has been reached, and the debugger went on from it

vars == <<prog, pc, depCount, idx, secCount, secIdx, i, c, ufiles, first, membase, allocated,
          total, loadRet, linkRet, linked, poolAt, clobbered, gdb, calls, trapped>>

loadVars == <<secIdx, ufiles, first, membase, allocated, total, loadRet>>
linkVars == <<linkRet, linked, poolAt, clobbered>>
listVars == <<prog, depCount, idx, secCount>>

Files == prog.list
Rels(k) == File[Files[k]].rels
Elf(k) == File[Files[k]].elf
-----------------------------------------------------------------------------
Init ==
    /\ prog \in Programs
    /\ pc = "count" /\ depCount = 0 /\ idx = 0 /\ secCount = 0 /\ secIdx = 0
    /\ i = 1 /\ c = 1
    /\ ufiles = <<>>
    /\ first = 0 /\ membase = 0 /\ allocated = 0 /\ total = 0
    /\ loadRet = 0 /\ linkRet = 0 /\ linked = {} /\ poolAt = 0 /\ clobbered = {}
    /\ gdb = <<>> /\ calls = <<>>
    /\ trapped = FALSE

(* A count of -1 sizes the arrays on the stack and then the loop that counts the
   sections, which runs through memory from below the list. *)
CountDeps ==
    /\ pc = "count"
    /\ \/ prog.broken /\ depCount' = -1 /\ pc' = "wild"
       \/ ~prog.broken /\ depCount' = Len(Files) /\ pc' = "build"
    /\ UNCHANGED <<prog, idx, secCount, i, c, gdb, calls, trapped, loadVars, linkVars>>

(* uld_dyn_create_fse_dep_list once more, now to keep the list, and
   uld_dyn_get_dep_list_sec_count. *)
DepListSecCount(l) ==
    LET upto[k \in 0 .. Len(l)] == IF k = 0 THEN 0 ELSE upto[k - 1] + SecCount(File[l[k]].elf)
    IN  upto[Len(l)]
NextMembase(last, size) ==
    LET a == IF last >= BssEnd THEN last + size ELSE BssEnd
    IN  a + ((-a) % Align)

BuildList ==
    /\ pc = "build"
    /\ idx' = depCount
    /\ secCount' = DepListSecCount(Files)
    /\ ufiles' = [k \in 1 .. depCount |-> NoFile]
    /\ first' = NextMembase(0, 0) /\ membase' = first'
    /\ pc' = "load"
    /\ UNCHANGED <<prog, depCount, secIdx, i, c, allocated, total, loadRet, gdb, calls,
                   trapped, linkVars>>
-----------------------------------------------------------------------------
(* uld_dyn_load_fse_dep_list, a file at a time. *)
CreateFile(k, snum) ==
    LET mem == CreateSecList(Elf(k), snum, "mem")
    IN  [NoFile EXCEPT !.fse = k, !.mem = mem,
                       !.flash = CreateSecList(Elf(k), snum - Len(mem), "flash")]

SizeUpTo(list, n) ==
    LET upto[k \in 0 .. n] == IF k = 0 THEN 0 ELSE upto[k - 1] + list[k].size
    IN  upto[n]

(* uld_load_alloc_mem_sections: the memory sections one after the other.  Its
   checks of their segments and of what lies between them do nothing where
   LayoutAssumption holds; UldLoad has the gaps. *)
Placed(u, at) ==
    [u EXCEPT !.membase = at, !.memsz = SizeUpTo(u.mem, Len(u.mem)),
              !.mem = [k \in 1 .. Len(u.mem) |->
                         [u.mem[k] EXCEPT !.adjVma = at + SizeUpTo(u.mem, k - 1), !.loaded = TRUE]]]

(* uld_rofixup_apply_fixups looks for the section in the headers of the file. *)
HasRofixup(k) == SectionByName(Elf(k), ".rofixup") # 0

LoadFile ==
    /\ pc = "load" /\ loadRet = 0 /\ i <= depCount
    /\ secCount - secIdx > 0
    /\ LET u == CreateFile(i, secCount - secIdx)
           at == NextMembase(membase, allocated)
           p == Placed(u, at)
       IN  \/ /\ u.mem = <<>>
              /\ ufiles' = [ufiles EXCEPT ![i] = u]
              /\ secIdx' = secIdx + Len(u.flash)
              /\ i' = i + 1
              /\ UNCHANGED <<membase, allocated, loadRet, trapped>>
           \/ /\ u.mem # <<>>
              /\ ufiles' = [ufiles EXCEPT ![i] = p]
              /\ membase' = at /\ allocated' = p.memsz
              /\ \/ HasRofixup(i) /\ secIdx' = secIdx + Len(u.flash) + Len(u.mem) /\ i' = i + 1
                    /\ UNCHANGED <<loadRet, trapped>>
                 \/ ~HasRofixup(i) /\ loadRet' = 1 /\ trapped' = TRUE /\ UNCHANGED <<secIdx, i>>
    /\ UNCHANGED <<pc, c, first, total, gdb, calls, listVars, linkVars>>

(* uld_load_create_file has no room for the sections of the file: it leaves the
   record of the file as it was. *)
NoRoom ==
    /\ pc = "load" /\ loadRet = 0 /\ i <= depCount
    /\ secCount - secIdx <= 0
    /\ loadRet' = -1 /\ trapped' = TRUE
    /\ UNCHANGED <<pc, i, c, secIdx, ufiles, first, membase, allocated, total, gdb, calls,
                   listVars, linkVars>>

PoolBase_Last == first + allocated
PoolBase == IF loadRet = 0 THEN first + (membase - first + allocated) ELSE first
LoadDone ==
    /\ pc = "load"
    /\ loadRet # 0 \/ i > depCount
    /\ total' = PoolBase - first
    /\ poolAt' = PoolBase
    /\ i' = 1 /\ pc' = "link"
    /\ UNCHANGED <<c, secIdx, ufiles, first, membase, allocated, loadRet, linkRet, linked,
                   clobbered, gdb, calls, trapped, listVars>>
-----------------------------------------------------------------------------
(* uld_dyn_link_file_list.  A record that is all zero has no relocations. *)
HasRels(k) == FindByName(ufiles[k].flash, ".rel.dyn") # 0
Memory(k) == ufiles[k].membase .. ufiles[k].membase + ufiles[k].memsz - 1

LinkFile ==
    /\ pc = "link" /\ linkRet = 0 /\ i <= depCount
    /\ HasRels(i) => Rels(i) \notin {"bad", "notables"}
    /\ linked' = linked \cup {i}
    /\ LET n == IF HasRels(i) THEN File[Files[i]].pool ELSE 0
       IN  /\ poolAt' = poolAt + n
           /\ clobbered' = clobbered \cup {k \in 1 .. depCount :
                                             Memory(k) \cap (poolAt .. poolAt + n - 1) # {}}
    /\ i' = i + 1
    /\ UNCHANGED <<pc, c, linkRet, gdb, calls, trapped, listVars, loadVars>>

(* A relocation that fails stops at a swbkpt(), a missing table does not. *)
Traps_Never(k) == FALSE
Traps(k) == Rels(k) = "bad"
LinkFails ==
    /\ pc = "link" /\ linkRet = 0 /\ i <= depCount
    /\ HasRels(i) /\ Rels(i) \in {"bad", "notables"}
    /\ linkRet' = -1
    /\ trapped' = (trapped \/ Traps(i))
    /\ UNCHANGED <<pc, i, c, linked, poolAt, clobbered, gdb, calls, listVars, loadVars>>

LinkDone ==
    /\ pc = "link"
    /\ linkRet # 0 \/ i > depCount
    /\ i' = 1 /\ pc' = "gdb"
    /\ UNCHANGED <<c, gdb, calls, trapped, listVars, loadVars, linkVars>>
-----------------------------------------------------------------------------
(* uld_fprint_gdb_sym_cmd: the file, where its .text is, then its other flash
   sections and its memory sections.  (For a file without a flash list the flash
   sections come from the headers; a .text that is found is in the list, and the
   list then holds all flash sections, so that case never arises.) *)
ButText(list) ==
    LET upto[n \in 0 .. Len(list)] ==
            IF n = 0 THEN <<>>
            ELSE IF list[n].name = ".text" THEN upto[n - 1]
            ELSE Append(upto[n - 1], list[n])
    IN  upto[Len(list)]
Command(k, secs) ==
    [file |-> k, secs |-> [n \in 1 .. Len(secs) |-> <<secs[n].name, secs[n].adjVma>>]]
GdbCommand_NoMem(k, text) == Command(k, <<text>> \o ButText(ufiles[k].flash))
GdbCommand(k, text) == Command(k, <<text>> \o ButText(ufiles[k].flash) \o ufiles[k].mem)

PrintGdbSymCmd ==
    /\ pc = "gdb" /\ i <= idx
    /\ ufiles[i].fse # 0
    /\ LET text == CopySecByName(ufiles[i], Elf(i), ".text")
       IN  \/ /\ text # <<>>
              /\ gdb' = Append(gdb, GdbCommand(i, text[1]))
              /\ i' = i + 1
              /\ UNCHANGED pc
           \/ /\ text = <<>>
              /\ i' = 1 /\ pc' = "init"
              /\ UNCHANGED gdb
    /\ UNCHANGED <<c, calls, trapped, listVars, loadVars, linkVars>>

PrintGdbDone ==
    /\ pc = "gdb" /\ i > idx
    /\ i' = 1 /\ pc' = "init"
    /\ UNCHANGED <<c, gdb, calls, trapped, listVars, loadVars, linkVars>>

(* The file entry of a record that is all zero is read from address 0. *)
NoSuchFile ==
    /\ \/ pc = "gdb" /\ i <= idx /\ ufiles[i].fse = 0
       \/ pc = "init" /\ i <= depCount /\ ufiles[i].fse = 0
    /\ pc' = "wild"
    /\ UNCHANGED <<i, c, gdb, calls, trapped, listVars, loadVars, linkVars>>
-----------------------------------------------------------------------------
(* uld_exec_elf_call_init_funcs: the words of the two arrays, where the file is
   in flash, called with the memory base of the file in r9. *)
InitSections_Reversed == <<".init_array", ".preinit_array">>
InitSections == <<".preinit_array", ".init_array">>

ArrayLen(s) == s.size
Array(k, name) ==
    LET n == SectionByName(Elf(k), name)
    IN  IF n = 0 THEN <<>>
        ELSE [j \in 1 .. ArrayLen(Elf(k).secs[n]) |->
                [file |-> k, sec |-> name, at |-> FlashAddr(Elf(k), Elf(k).secs[n]) + j - 1,
                 base |-> ufiles[k].membase]]
InitFuncs(k) == Array(k, InitSections[1]) \o Array(k, InitSections[2])

CallInitFunc ==
    /\ pc = "init" /\ i <= depCount
    /\ ufiles[i].fse # 0
    /\ c <= Len(InitFuncs(i))
    /\ calls' = Append(calls, InitFuncs(i)[c])
    /\ c' = c + 1
    /\ UNCHANGED <<pc, i, gdb, trapped, listVars, loadVars, linkVars>>

NextInitFile ==
    /\ pc = "init" /\ i <= depCount
    /\ ufiles[i].fse # 0
    /\ c > Len(InitFuncs(i))
    /\ c' = 1 /\ i' = i + 1
    /\ UNCHANGED <<pc, gdb, calls, trapped, listVars, loadVars, linkVars>>

(* uld_exec_file for the last file of the list. *)
Started == idx
ExecFile ==
    /\ pc = "init" /\ i > depCount
    /\ LET k == Started
       IN  calls' = Append(calls, [file |-> k, sec |-> "entry", at |-> AdjustedEntry(Elf(k)),
                                   base |-> ufiles[k].membase])
    /\ pc' = "entered"
    /\ UNCHANGED <<i, c, gdb, trapped, listVars, loadVars, linkVars>>

(* The program runs, or nothing can be said of what runs. *)
Stopped == pc \in {"entered", "wild"} /\ UNCHANGED vars

Next ==
    \/ CountDeps \/ BuildList \/ LoadFile \/ NoRoom \/ LoadDone
    \/ LinkFile \/ LinkFails \/ LinkDone
    \/ PrintGdbSymCmd \/ PrintGdbDone \/ NoSuchFile
    \/ CallInitFunc \/ NextInitFile \/ ExecFile
    \/ Stopped

Spec == Init /\ [][Next]_vars
-----------------------------------------------------------------------------
(* Properties *)
TypeOK ==
    /\ pc \in {"count", "build", "load", "link", "gdb", "init", "entered", "wild"}
    /\ depCount \in {-1} \cup 0 .. Len(Files) /\ idx \in 0 .. Len(Files)
    /\ secIdx \in 0 .. secCount
    /\ i \in 1 .. Len(Files) + 1 /\ c \in Nat \ {0}
    /\ \A k \in 1 .. Len(ufiles) : ufiles[k].fse \in {0, k} /\ ufiles[k].membase % Align = 0
    /\ {secCount, first, membase, allocated, total, poolAt} \subseteq Nat
    /\ linked \subseteq 1 .. Len(Files) /\ clobbered \subseteq 1 .. Len(Files)
    /\ loadRet \in {-1, 0, 1} /\ linkRet \in {-1, 0} /\ trapped \in BOOLEAN

(* The words of the arrays of a file, whatever the order. *)
Constructors(k) ==
    UNION {{FlashAddr(Elf(k), s) + o : o \in 0 .. s.size - 1} :
             s \in {t \in {Elf(k).secs[n] : n \in 1 .. Len(Elf(k).secs)} : t.type = "INIT_ARRAY"}}

(* No code of a file runs before everything it needs is initialised: whenever
   a constructor or the entry is called, each constructor of every file that it
   can need, those before it in the list, has been called before it.  None is
   called twice, each gets the base of its own file, and those in
   .preinit_array go first. *)
NeedsInitialised ==
    \A n \in 1 .. Len(calls) :
        LET call == calls[n]
        IN  /\ \A m \in 1 .. call.file - 1 : \A a \in Constructors(m) :
                  \E b \in 1 .. n - 1 : calls[b].at = a /\ calls[b].base = ufiles[m].membase
            /\ \A b \in 1 .. n - 1 : calls[b].at # call.at
            /\ call.sec = ".preinit_array" =>
                  \A b \in 1 .. n - 1 : calls[b].file = call.file => calls[b].sec = ".preinit_array"

(* Whatever goes wrong in a phase, code of the files runs only if every file is
   loaded and linked, or the debugger has been told (a swbkpt() was passed), or
   a file came without the tables to link it with, which goes unnoticed. *)
Loaded(k) == ufiles[k].fse = k /\ (ufiles[k].mem # <<>> => HasRofixup(k))
RunsReady ==
    calls # <<>> =>
        \/ /\ \A k \in 1 .. Len(Files) : Loaded(k)
           /\ linked = 1 .. Len(Files)
        \/ trapped
        \/ \E k \in 1 .. Len(Files) : Rels(k) = "notables"

(* The pool of the link is laid over no loaded file, unless the load failed:
   then it begins where the first file with memory sections is. *)
MemoryKept ==
    /\ clobbered # {} => loadRet # 0
    /\ (pc = "link" /\ i = 1 /\ loadRet # 0) => poolAt = first

(* Where the word linked at a really is: memory keeps its distances. *)
Words(s) == s.addr .. s.addr + s.size - 1
AllocSecs(k) == {s \in {Elf(k).secs[n] : n \in 1 .. Len(Elf(k).secs)} : s.alloc}
MemLink(k) ==
    LET addrs == {s.addr : s \in {t \in AllocSecs(k) : SecType(t) = "mem"}}
    IN  CHOOSE a \in addrs : \A b \in addrs : a <= b
WordAt(k, s, a) ==
    IF SecType(s) = "flash" THEN Elf(k).base + s.off + a - s.addr
    ELSE ufiles[k].membase + a - MemLink(k)

(* In a file that is loaded, the link address of every word leads to the word:
   the link finds everything where it is now, by a search for load addresses
   with what are virtual addresses. *)
WordsFound ==
    pc = "link" => \A k \in 1 .. Len(ufiles) :
        (ufiles[k].fse = k) => \A s \in AllocSecs(k) : \A a \in Words(s) :
            LmaToAdjustedVma(ufiles[k], a) = WordAt(k, s, a)

(* Before any code of the files runs the debugger has been given a command for
   each file up to the first that has no .text, and each command names every
   section that the file has at run time once, with the place it is at. *)
GdbRight ==
    Len(calls) = 1 =>
        LET bare == SelectInSeq(Files, LAMBDA t : SectionByName(File[t].elf, ".text") = 0)
        IN  /\ Len(gdb) = (IF bare = 0 THEN Len(Files) ELSE bare - 1)
            /\ \A k \in 1 .. Len(gdb) :
                  /\ gdb[k].file = k
                  /\ Len(gdb[k].secs) = Cardinality(AllocSecs(k))
                  /\ gdb[k].secs[1][1] = ".text"
                  /\ {gdb[k].secs[n] : n \in 1 .. Len(gdb[k].secs)}
                       = {<<s.name, WordAt(k, s, s.addr)>> : s \in AllocSecs(k)}

(* The file that was asked for is entered last, at the word its entry point was
   linked at, with its own base, after all constructors of all files. *)
EntryRight ==
    pc = "entered" =>
        LET call == calls[Len(calls)]
            k == Len(Files)
        IN  /\ call.file = k /\ call.base = ufiles[k].membase
            /\ \A s \in AllocSecs(k) : Elf(k).entry \in Words(s) => call.at = WordAt(k, s, Elf(k).entry)
            /\ \A m \in 1 .. k : Constructors(m) \subseteq {calls[n].at : n \in 1 .. Len(calls) - 1}

(* A program with nothing wrong in it meets no swbkpt() and is not lost. *)
Sound ==
    /\ ~prog.broken
    /\ \A k \in 1 .. Len(Files) :
          /\ Rels(k) \in {"none", "good"}
          /\ \E n \in 1 .. Len(Elf(k).secs) : Elf(k).secs[n].name = ".rofixup" /\ Elf(k).secs[n].alloc
SoundStarts == Sound => ~trapped /\ pc # "wild"

(* Constructors and entry run in an order in which each finds what it needs. *)
InitInv == TypeOK /\ NeedsInitialised /\ EntryRight

(* No failure of a phase goes unseen but for the missing tables, and nothing is
   taken for a failure that is none. *)
FailuresSeen == RunsReady /\ SoundStarts
=============================================================================
