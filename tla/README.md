# Verification of uld-fdpic

uld-fdpic is a small dynamic linker for ARM FDPIC ELF files that are executed in
place from flash. This directory holds TLA+ models of it, from the patching of
the firmware at build time to the entry of an application, the TLC
configurations that check them on small instances, and TLAPS proofs, for inputs
of every size, about the patching of the image, the relocation of files in flash,
the dependency walk, the loader, the linker, the execution of files down to the
entry of an application, the base64 encoder and memmove.

Paths below are relative to the root of the repository.

## The system

| Part | State | Operations | Talks to |
| --- | --- | --- | --- |
| Build (`scripts/patch-uld-elf.py`, `scripts/gen-uld-files.py`) | `uld.elf` on disk | fix up pointers and `.plt` offsets of the embedded files, CRCs; run again by make | produces the flash image everything else starts from |
| Boot (`src/uld.c`) | the `boot_action` in the persistent store | `uld_main`: choose what to move, what to execute, with which arguments | file system, relocation, execution |
| File system table (`src/uld_fs.c`) | entries with base, size and CRC, in flash | lookup by name, `uld_fs_find_free_space` | read by everything, written by relocation |
| Relocation in flash (`src/uld_reloc.c`, `src/uld_rofixup.c`, `src/uld_sal.c`, `src/cpu.c`) | flash, base and CRCs of the table, lock state | copy, fix up pointers, switch the base, update CRCs | survives resets; the table is what the next boot reads |
| Execution (`src/uld_dyn.c` 1049-1135, `src/uld_exec.c`) | the phases' results, which it does not look at | count, list, load, link, tell the debugger, constructors, entry | all parts below |
| Dependency list (`src/uld_dyn.c` 201-319) | the recursion's stack, the list and its index | count pass, build pass | table by name; the list drives load, link and constructors |
| Loader (`src/uld_load.c`, `src/uld_file.c`, `src/uld_sal.c`, `src/uld_rofixup.c`) | memory, section lists cut from one array, memory base | count, sort and place sections, memory fixups | gives the linker section lists and the base of its pool |
| Dynamic linker (`src/uld_dyn.c` 380-1047) | the relocated words, one resolution variable, the pool | search, five relocation types | reads what it wrote for earlier relocations |
| Entry of a file (`src/uld_exec_asm.S`) | stack, r7, r9, r11 | argument copy, stack reset with `memmove`, call, return | the application |
| ELF accessors (`src/elf.c`) | none | lookups of sections, segments, addresses | loader, linker, execution |
| Output (`src/libc.c`, `src/util.c`, `src/swi.c`) | the writes under way, the retry count | `vfprintf` and the other output functions over `swi_write` | QEMU, which may refuse a write or take a part |
| base64 (`src/base64.c`) | `struct base64_state` between calls, the line | encode a chunk, end the stream | a callback that prints |
| Table dumps, start-up, debugger scripts, examples | none of their own | | |

It is one thread that nothing preempts. What is hard in it is not concurrency
but: power that can be cut between any two flash writes of a move, and a build
that can be stopped between any two writes to `uld.elf`; a recursion over a graph
the linker does not control; tables that are sized in one pass and filled in
another; resolutions that are copied from relocation to relocation over several
files, some of them before they are resolved; a stack that is moved over itself;
encoder and printing state that lives across calls and partial writes; and
return values that callers do not look at. `PROJECT.json` lists these places as
hazards, each with the properties that watch it.

What makes each part correct:

- build: every pointer and offset is patched once, CRCs cover what was patched;
- dependency list: dependencies first, nothing twice, the root last, nothing
  that is not needed, both passes agree, an error only for a broken file;
- relocation: every file the table names is complete and linked for its base at
  every instant, files never meet, free space is found if there is any, CRCs
  are good again after a complete move, a boot always gets through;
- loader: nothing is overwritten, distances between sections are kept (code
  addresses data relative to r9), every pointer leads to the word it was linked
  to, the shared section array comes out even, the pool starts above it all;
- linker: every descriptor pairs a definition of its function with the base of
  the defining file, data has one instance, pool allocations are disjoint, a
  failure has a reason;
- execution: nothing runs before what it needs is initialised, nor unloaded or
  unlinked without notice; the debugger is told the truth; the entry is the
  entry, with its arguments, an aligned stack and its own base;
- output: what C says, nothing twice or out of order, the call ends;
- base64: the stream's encoding, however it is cut into chunks, inside the buffer.

## Modules

| Module | Models | Notes |
| --- | --- | --- |
| `LoadOrder` | what `include/uld_dyn.h` 55-59 promises of the list | abstract: any file whose needs are listed may be listed next; the list may be closed once the root is last |
| `UldDep`, `MCUldDep`, `UldDepProofs` | `uld_dyn_create_fse_dep_list`, both passes | the C call stack is a sequence of frames; each action is one test, call or return |
| `UldReloc`, `MCUldReloc`, `UldRelocProofs` | `uld_main`'s move, `uld_fs_find_free_space`, `uld_reloc_move_fse`, flash fixups, CRC updates, resets | one action per flash write, so a reset can fall between any two |
| `UldLoad`, `MCUldLoad`, `UldLoadProofs` | `uld_dyn_load_fse_dep_list`, `uld_load_file` and all they call | one action per section placed |
| `UldLink`, `MCUldLink`, `UldLinkProofs` | `uld_dyn_link_file_list`, `uld_dyn_resolve_rel`, the writers | one action per relocation, one per type |
| `Elf` | the accessors of `elf.c`, section records and lists, searches in them | operators only |
| `UldExec`, `MCUldExec`, `UldExecProofs` | `uld_dyn_exec_fse` with all phases, constructors, the gdb commands | composes the phases over one list of files, each as coarse as its effect on the others; extends `Elf` |
| `Memmove` | `memmove` | one byte a step |
| `UldEntry`, `MCUldEntry`, `UldEntryProofs` | `uld_exec_file`, `uld_exec_elf_call_entry` | extends `Memmove`; one action per loop round or block of the assembly |
| `SwiWrite` | `swi_write` beside the host and its clock | a component without a specification of its own |
| `Stdio`, `MCStdio` | `vfprintf`, `puts`, `fputs`, `fputc`, `write`, `fwrite`, the conversions | composes the functions with `SwiWrite` |
| `Base64`, `Base64Proofs` | `base64.c` | one action per byte, per callback and per return |
| `PatchElf`, `MCPatchElf`, `PatchElfProofs` | `patch-uld-elf.py` and its rerun by make | one action per write to `uld.elf` |
| `UldBoot` | the switch in `uld_main` | one action per case label, fall-through included |

Correspondence of state. `UldDep`: `depList`/`listSize` are `dep_list[0..idx-1]`
and `list_size`; `needed` is what iterating DT_NEEDED and looking names up in
`.dynstr` yields; a file without `.dynamic` has none. `UldReloc`: a *cell* is the
unit one write or one fixup stores; its content is (file, offset, base its
pointers are linked for), so a torn or half-fixed image is visible in it; a CRC
is represented by the very content it was computed over. A cell stands for a
pointer into the image; words that do not depend on the base are left out.
`UldLoad`: addresses count words; each section's first word holds one pointer.
`UldLink`: a pointer is a record that says what it points to, a descriptor is a
pair of code and file base; base 0 is NULL. `UldExec`: `ufiles` is `ufile_list`
with its section lists; `calls` records every call into code of the files with
its address and r9; `pc = "wild"` is where the code goes on with an address or a
size that means nothing. A `swbkpt()` is recorded in `trapped`; the debugger is
taken to go on from it. `UldEntry`: memory is a function of byte addresses, and
each byte says what it is a byte of, so that a half-overwritten pointer or a
register popped from the wrong place is seen. `Stdio`: a function is the sequence
of writes it makes, with what becomes of each result; `host` is what has arrived.
`Base64`: the fields of the state as they are, and what the callback was given.
`PatchElf`: a pointer is the section it leads to and how often it was adjusted.

In every module a definition named `X_Y` is `X` with the mistake `Y`; no
specification uses it. The mutants in `PROJECT.json` put it in the place of `X`
and name the property that then fails, which shows that the property depends on
the code it is about.

## Runs

Passing runs, all states explored. Where one property of a run is a conjunction
of named parts, the parts are given with it; each includes the module's `TypeOK`
where it ends in `Inv`:

- **dep** (`UldDep.cfg`): every graph of three files with up to two DT_NEEDED
  entries each, missing names included, any root, at most one file without
  `.dynstr`; stack for four calls. Three files give chains, diamonds in the
  second pass over a shared library, self-dependencies and cycles of every
  length, before or behind other entries. The inductive invariant `WInv`, which
  holds `TypeOK`, `NoDuplicates`, `RootLast` and `NoStrays`; `DepsFirst`,
  `CountSuffices` (both passes agree and -2 never happens), `ErrorIffBroken`
  (an error exactly where the root leads to a broken file, and else all it leads to),
  the refinement `RefinesLoadOrder`, and `Terminates` (only a cycle exhausts the
  stack; the code has no other guard).
- **reloc** (`UldReloc.cfg`): four files, one of twice the size, one without
  memory sections, one without `.rofixup`; fourteen cells of flash, so that
  moves succeed, use gaps that other moves left, and run out of space; up to
  four resets, so that several moves and several interrupted moves follow each
  other. `RelocInv` (with `TypeOK` and `NoOverlap`), `ImagesIntact`,
  `NeverTrapped`, `CrcFresh`, `FreeSpaceComplete`, `ReachesExec` (the boot gets
  through, and a move it began, of a file that can be moved, has been carried
  out: a write of locked flash, which would end the move with -1 and go unseen,
  does not happen).
- **load** (`UldLoad.cfg`): lists of up to three files with five sets of memory
  sections, headers in either order, four kinds of pointers, and lists that end in
  a file without sections, which the load refuses. `MemoryIntact`, `SecListExact`
  (only such a file finds the array used up), `PointersLand`, and `LoadInv`: `LayoutKept`, `PoolAbove` and
  `NoTrap`.
- **link** (`UldLink.cfg`): lists of three files with up to two relocations and
  of two files with up to three for one function; lists of three files around
  one object that is defined, garbage collected or referenced; mixed lists with
  a library; relocations that cannot be linked, whose word lies in no section,
  whose section is missing, whose object only their own file knows, or whose
  GLOB_DAT names no object. `FuncsLinked`, `DataShared`, `LinkInv` (`PoolDisjoint`),
  `FailureJustified`, `CleanLink` (a link that returns 0 and met no breakpoint had
  every word in a section, and every GLOB_DAT named an object that its file defines
  or an earlier one knows).
  Three files are the fewest in which a resolution is copied through a file that
  does not define the symbol.
- **exec** (`UldExec.cfg`): all lists of up to three different files out of nine
  (complete, with headers in another order, without memory sections, `.text`,
  `.rofixup` or anything to load, with relocations that are good, cannot be
  resolved, or lack their tables), and a list that cannot be made. Three files
  let a failure fall before, on and behind the others. `InitInv`:
  `NeedsInitialised` and `EntryRight`; `FailuresSeen`: `RunsReady` (code runs with a file unloaded or unlinked only past a breakpoint,
  or if tables are missing) and `SoundStarts`; `MemoryKept` (the pool is laid over loaded files only
  after a failed load), `WordsFound` (every link address leads to its word),
  `GdbRight`. Deadlock is checked: the only states
  without a next phase are those where the program runs or is lost.
- **entry** (`UldEntry.cfg`): up to three arguments with lengths around the
  rounding to eight bytes (0, 1, 7, 8), no stack reset, or one to bases (aligned
  and not) below, at and above the saved registers up to the end of memory: the
  stack is moved down and up, over its old place and clear of it, or stays.
  `EntryInv`: `ArgsIntact` and `StackReady`; `CallerRestored`, `MoveExact`.
- **stdio** (`Stdio.cfg`): every conversion with eight sets of flags and six
  numbers at the boundaries of eight bits, formats of two rounds, the other
  functions, each descriptor; the host takes any part of any write or refuses it.
  `PrintsAsC` (with the deviations it names), `StdioInv` (`InOrder`), `ResultTells`:
  `AllCounted`, `SuccessMeansPrinted` and `CountReported` (of writes that do not end
  refused; **stdio_refused** is about those); `Returns`. Eight bits give two
  hexadecimal and three decimal digits; `PadChunk` is 3, so that padding takes
  more than one write.
- **base64** (`Base64.cfg`): every stream of up to seven bytes over two values, in
  every way to cut it into chunks, for buffers too small, of one group exactly and
  not, and of two groups; callbacks that fail, streams that go on after their end.
  `BInv`, `InBounds`, and `Delivered`: `StreamEncoded`, `OnlyLineLost` and
  `StringEnds`. Seven bytes
  are more than two lines of one group and one of two.
- **patch** (`PatchElf.cfg`): every table of two files with up to two pointers, or
  of one with up to four, with a good, a superfluous or a broken `.plt`; up to
  three runs of the script, each stopped anywhere. `RerunInv`: `PointersOnce`
  and `NoResume`; `PatchedOnce`, `CrcsMatch`.

Runs whose property is what a comment or a document says and that TLC finds
violated by what the code does (details and quotations under "findings"):

- **boot**: example 1 falls through into example 2 (`uld.c:55`).
- **load_gap**: unused bytes between sections make the size of a file too small,
  and the next file is loaded over its end.
- **stdio_refused**: a refused write is not tried again and is reported as
  complete: the wait destroys the -1 that the retry at `swi.c:120` looks at.

### Met while modelling

Facts that a property states or a definition carries, without a run of their own:

- A NULL base means "found by relocation" to the writers, and it also is the base of
  a library without memory sections. A FUNCDESC to a function of such a library
  stores the link address of the function as if a descriptor were there
  (`uld_dyn.c:887`), and a FUNCDESC_VALUE copies two words from that address
  (919); the table of resolutions, at lines 74 and 77, says of both "fptr to func /
  file base set". `DefinersInMemory` keeps such
  libraries out of the lists.
- A GLOB_DAT to a symbol of the wrong type stops at a breakpoint and is then linked
  all the same, with what an earlier relocation left: `uld_dyn.c:1000` overwrites
  the -1 of the resolution, although lines 517-518 say that the test catches the
  bug and line 1034 "Catch all for failed resolution.". `CleanLink` therefore asks
  for a return of 0 *and* no breakpoint.
- A pointer to `.bss` that is listed first, or behind a pointer to flash, stops the
  build at `patch-uld-elf.py:299`, although lines 294-295 say that it "should
  already be set as skip" (`FixupRaises`).
- A move of a file without memory sections fails after the copy, although
  `uld_rofixup.c:275` and `uld_reloc.c:41` allow such files: the fixups refuse an
  empty list (`UldReloc!FixupDone`). A file without `.rofixup` fails its move and
  its load, although `uld_rofixup.c:84` says it may lack one.
- The -1 of a writer that finds no word to write is looked at for RELATIVE and
  GLOB_DAT only (`uld_dyn.c:985`, 1010, 1021); for the others its breakpoint is all
  that tells (`LinkMisplaced`, `CleanLink`).
- A file without sections at the end of a list fails the load, as the shared array
  is used up (`NoEntries`).
- A FUNCDESC takes the definition of the lowest file and every other relocation
  the nearest (`Resolution`); no FUNCDESC looks for a descriptor in the pool
  before it allocates one (`LinkFuncdesc`).
- The move leaves the flash unlocked (`MoveReturn`).
- `%x` prints nothing for 0, and the minus sign goes before the spaces that fill a
  field (`Deviates`). `write` and `swi_dprintf` print to standard output whatever
  descriptor they get (`Stream`). If the host keeps taking nothing, the padding
  loop does not end (`Returns` excludes it). A field that was written in part
  counts in full (`AllCounted` is an inequality).
- base64: a line completed by the last byte of a chunk is never delivered unless
  the stream ends there (`OnlyLineLost`); an empty stream hands `puts` a buffer
  nobody wrote (`StringEnds` excludes it).
- A return after a stack reset pops what lies above `sp_base`, which is the end of
  RAM when `uld.c:93` passes ESTACK; the caller's return address is never there
  (`CallerRestored`).
- Files whose `.rel.dyn` comes without `.dynsym` or `.dynstr` run unlinked without
  a breakpoint (`RunsReady`). The gdb commands end at the first file without
  `.text` (`GdbRight`). A NULL entry in an array of constructors is called: the
  test in `uld_exec.c:56` is of the pointer to the entry (`CallInitFunc`).
- `elf.c:158` joins the two sides of a test with *and* where its comment asks for
  *or* (`SegmentBySection`); the load segments of the files the build makes do
  not overlap, so it decides nothing there.
- A build stopped in `patch-uld-elf.py` cannot be resumed, and where nothing stops the second run, `.plt` offsets are
  shifted again (`NoResume`, `PatchedOnce`).

Fairness. The linker is a single thread and nothing preempts it: weak fairness of
its steps in `UldDep`, `UldReloc` and `Stdio`. Nothing obliges the power to be
cut: resets are not fair, and they are bounded by `MaxResets`, without which no
boot need ever get through. The host answers and its clock advances (weak
fairness of `Host` and `ClockTick`): they are QEMU's, outside the program. The
other modules claim no liveness. CHECK_DEADLOCK is off where a run ends in
execution, at an error, with the return of a function, or, after a stack
overflow, nowhere; in **exec**, where all ends are known, it is on.

Bounds: `MaxResets`, `StackDepth` (one more than the files, so that an acyclic
graph always fits), `MaxNeeded`, `RamEnd`, `MaxFiles`, `MaxCount`, `Wait`,
`Retries` (5, as in the code), `MaxAction`, `MaxBytes`, `MaxArgs`, `MaxLen`, `MaxRuns`,
`MaxFixups`, `Bits`, `PadChunk`, and the lists enumerated in the MC modules.

## Proofs

The proofs hold for every value of the constants that meets the assumptions the
modules state. Each rests on an inductive invariant that TLC has checked on the
instance of the run as well; what is said below is why the property alone is not
inductive.

`UldDepProofs`, for every finite file table, every DT_NEEDED graph and every
stack depth:

- `IInvAlways`: `IInv` is inductive. The interesting part is `StackInv`, what
  the recursion knows about the list: a call has listed all entries before the
  one it is at (`FrameInv`), the call above it is for that entry (`CallInv`), and
  a file is not listed while its call is past the first test. The last is why a
  cycle cannot list a file twice: a file on the stack is entered again at most as
  a fresh call, and by the time an outer call would list it, it is listed only if
  that inner call returned, which it cannot have without the outer's entries.
- `DepListIsLoadOrder`: DepsFirst, NoDuplicates and RootLast. `TypeCorrect`.
- `WalkImplementsLoadOrder`: the refinement of `LoadOrder`, each step a step or a
  stutter.
- `NothingStrays`: `WInv`. A listed file is needed by a later one, or by a call on
  the stack, whose file will be listed (`Wanted`).
- `PassesAgree`, and from it `ArrayNeverOverflows` (`CountSuffices`) and
  `ErrorsAreExact` (`ErrorIffBroken`): `RInv` relates both passes to a third
  thing, the set of files the root leads to. Every file on the stack or in the
  list is in it, what a returned call has listed is closed under need, and so the
  list of a pass that succeeds is that set, without repetition. Two such lists
  have the same length.

`UldRelocProofs`, for every set of files, sizes, initial layout, region and any
number of resets:

- `FreeStartIsFree`, `FoundSpaceIsFree`: what the search returns lies in the
  region and apart from every file.
- `RelocInvAlways`: `RelocInv` is inductive. `MoveInv` says what a move knows of
  the copy: until the table points to it, it lies apart from every file
  (`DestFree`), and its cells up to `at` hold what the phase has written.
- `MovesArePowerSafe`: ImagesIntact and NoOverlap, whatever write the power is
  cut at. `CrcsAreFresh`: `CrcFresh`.
- `MovesNeverTrap`: `NeverTrapped`, from `AlignInv` (all bases are aligned) and from
  what `MoveInv` says of the cell a fixup reads.
- `FirstFitIsComplete`: `FreeSpaceComplete`. Where a file fits, take the highest
  file below the place, or the head of the region: the gap above it is long
  enough, is one of those the search looks at, and still is after the alignment,
  as sizes and the region are multiples of it.

`PatchElfProofs`, for every table of files and any number of runs:

- `PInvAlways`: `PInv` says for every pointer and every `.plt` entry how often it
  has been adjusted, from where this run is and what earlier runs left, and that a
  pointer an earlier run adjusted lies ahead and will stop this one.
- `RerunsAreSafe`, `FinishedIsPatched`, `FinishedCrcsMatch`: the three invariants
  of the run **patch**.

`UldLoadProofs`, for lists of any number of files with any number of sections:

- `ArrayIsExact`: `SecListExact`, of every list. `SInv`: the entries used up are
  the sum of the section counts of the files before, so a file that finds none left
  has no sections (`NoneLeft`).
- `NothingIsOverwritten`: `MemoryIntact`, of lists of packed files (`Packed`: the
  memory sections of a file have distinct names and no gaps; **load_gap** shows
  why). `VInv` holds where each section of each file is, relative to the base of
  its file, and that bases ascend; `MInv` what each placed word holds, in every
  phase, fixups before, during and after.
- `LoadsAsLinked` (`LoadInv`) and `PointersReachTheirWords` (`PointersLand`), if
  also every pointer leads to a section of its file or to flash (`PointersGood`).
- That the sorted list holds each section once, in order, is proved from ranks:
  the number of sections before one is an injection into positions, and on a
  finite set therefore onto them (`SortedFacts`). Sums over lists, which the code
  makes by loops, exist and have their recurrence by a minimal counterexample
  (`SumExists`, `SumFacts`).
- All but the first are about memory that is large enough (`Fits`: what has been
  placed is in the memory modelled); the code does not look.

`UldLinkProofs`, for lists of any number of files, relocations and symbols:

- `LInvAlways`, `PoolNeverOverlaps` (`LinkInv`), `FailuresAreJustified`
  (`FailureJustified`): of every list.
- `SilentLinksAreClean` (`CleanLink`), of every list; by `CleanInv`, the property for
  the relocations done so far, and `FinishedAlways`: a link that returns 0 has done
  all.
- `CallsReachDefinitions` (`FuncsLinked`), of lists whose defining files have
  memory (`DefinersInMemory`; see "Met while modelling"), whose functions are
  referred to by descriptor and whose words lie in a section (`WordsPlaced`). `FuncInv`: every word a relocation has written is a
  descriptor with the base of the defining file, or points to one, which may be
  a FUNCDESC_VALUE that is still to be linked. Such a pointer is good in the end
  because that relocation is done in the end.
- `DataIsShared` (`DataShared`), of lists in which a file that refers to an object
  comes after one that exports it, and with `WordsPlaced` too, by `DataInv`: all relocations of an object so
  far hold one value, its definition or one object of the pool, of its full size.
- `MCUldLink` and `MCUldLoad` state in an `ASSUME` that the lists of the passing runs
  meet these conditions (but for the last two, which lists made not to link miss), so
  that the theorems speak of what the runs explore.

`UldExecProofs`, for every file system table and every list:

- `FailuresAreSeen`: `FailuresSeen`. `RInv` says how far load and link have come and
  that every failure has passed a breakpoint or missed a table; `GInv`, of a program
  with nothing wrong, that the entries of the section array used up are the sum
  of the counts of the files before (`DepSum`), so that the file being loaded finds
  room for both its lists, and its `.rofixup` section is found.
- `PoolSparesTheFiles`: `MemoryKept`. `KInv`: every file ends below what the load has
  handed out, and the pool of a load that succeeded begins there.
- `ConstructorsRunInOrder`: `InitInv`. That no constructor runs twice is a matter of
  places: two calls differ in their file, array or index, and the contents of
  sections and files lie apart in flash (`CallsApart`). `CInv` says which calls have
  been made: exactly those of the files before the one the loop is at, and of this
  file those before `c` (`InOrder`, `Reached`), each after all its file may need.
  `TInv` has the types, and the count of the section array that keeps `secIdx`
  within `secCount` also for lists of which a file fails to load.
- `LinkFindsEveryWord`: `WordsFound`. The linker looks link addresses up among load
  addresses. They agree, as the segments are loaded where they were linked
  (`LmaIsAddr`); the search then finds the only section around the address
  (`OneSection`). In memory the place of a section is a sum of sizes, which is the
  distance from the first section as there are no gaps (`MemSums`). `WInv`: a record
  that is there is in place (`InPlace`), at load and ever after.
- `DebuggerIsTold`: `GdbRight`. `DInv`: the commands so far are for the files before
  the one the loop is at, all with a `.text`, and each is right (`Told`); code runs
  only when the last is printed. A command is right because the two lists hold each
  section once (`AllocCount`, `RecordPlaces`) and leaving out `.text` leaves out one
  record (`ButTextFacts`).

`Base64Proofs`, for every set of buffer sizes of eight bits, every stream and
every way to cut it:

- `BInvAlways`: `BInv`, the type invariant with `LineInv`, is inductive. `LineInv`
  ties the position in the line to the bits that are left over: between calls the
  position modulo 4 is `bremLen`, and a line is full only between groups. Without
  it the padding, which is written without a test for room, could not be shown to
  fit.
- `EncoderStaysInBounds`: nothing is written past the caller's buffer.
- `StreamIsDelivered`: `Delivered`. `SInv` ties the three ends of the stream
  together. The bytes not yet encoded are the end of the stream and the bits left
  over are those of the byte before them (`Taken`); the buffer holds line q as far
  as it goes (`InBuffer`); and what the callback has had, with a line for each lost
  one, makes up the q lines before it (`Had`). Whether the line in the buffer is still
  to come or is `Past`, delivered or about to be overwritten, is not in the state of
  the encoder but in where the call is, which is why the property alone is not
  inductive. After the end (`Ending`) the same is said of the padded reference.
  `SextetFacts` takes the reference apart, from bits to the three bytes of a group;
  `ByteStep` and `TailIsReference` show that a byte and the end of the stream give
  its next characters; `FullAtMultiple` that a line is full exactly after a multiple
  of `BytesPerLine` bytes, so that a lost line is counted once.

`UldEntryProofs`, for every memory, any number and length of arguments, every place
of the caller's stack and every `sp_base`:

- `MemmoveIsExact`: the destination gets what the source held when it was called,
  and nothing else changes. `MoveInv` says what has been moved so far and that
  what is still to be moved has not been overwritten, which depends on the
  direction.
- `EntryIsRight` (`EntryInv`), `CallerIsRestored`, and `StackMoveIsExact` (`MoveExact`
  where the entry code calls it). `EInv` follows the stack through the call. While
  arguments are copied (`Copied`) every argument from the last down to `r10` has its
  string and its pointer, which is the address *after* the move, and neither the
  copies nor the pointers have touched the caller's frame, from which the rest is
  still to be copied. Through the move `MoveInv` carries this over from the memory
  the move began with, to the new place (`Entered`), and it holds when the
  application has used all that lies below its stack pointer.
  That no return after a reset finds the caller's return address (`CallerRestored`)
  takes `QInv`: the saved address lies in one place only (`PcOnce`), the pop after a
  reset reads from another, and the move, which may copy over the frame, never
  copies it (`MovedOnce`, `ReturnElsewhere`).

Assumptions are those the modules state: what gen-uld-files.py lays out (files
padded to the alignment, inside the region, apart), a finite table whose files
are not called "fst" (the name `UldReloc` uses for the table itself), at least one
frame of stack, allocated sections linked above address 0 (where the ELF header
is), and the eight bits of `dest_len`. `UldEntry` assumes the calling convention
(a stack pointer that is a multiple of 8, argv above the fifth argument) and room for
what is pushed and copied, below the caller and below `sp_base`, of which the code
makes sure no more than of the end of RAM. `LayoutAssumption` of `UldExec` is what ld
and the packing of the files do: in a file each section has a name and, but for
`.bss`, contents of its own; sections that are there at run time have words, do not
overlap and are loaded where they are linked; `.preinit_array` and `.init_array` are
the only arrays of constructors, and the entry point is in neither; files lie apart
in flash and a list, as `UldDepProofs` shows, holds none twice. That memory sections
leave no gap is a condition, not a fact of ld: **load_gap** shows what a gap does.
TLC evaluates all of them on the instances of the runs.

Only model-checked: liveness (`Terminates`, `ReachesExec`, `Returns`), which the
prover does not handle; and `Stdio`. `PrintsAsC`, `InOrder` in `StdioInv` and
`SuccessMeansPrinted` in `ResultTells` compare what was printed with digits, fields
and concatenations that are recursive over data; the rest of `ResultTells`,
`AllCounted` and `CountReported`, is not proved yet.

## Not modelled

The ELF hash and its chain walk are membership in the table, and CRC-32 is
represented by the data it covers. The dumps of headers and tables
(`uld_print.c`, but for the gdb commands), start-up assembly, the debugger scripts
and the example applications keep no state that matters here. `patch-uld-elf.py`
parses the output of objdump and readelf: text in, sections out. The section
lists of a move, and with them the limit of 20 sections (`uld_reloc.c:67`), are
below the level of `UldReloc`. Where the linker goes on with a size or an address
that means nothing (a negative count, a record that is all zero), `UldExec` stops
at `"wild"`. Checks of arguments for NULL that no caller can fail are left out, and
so are breakpoints of the debug build that nothing depends on: that of two memory
sections in different segments (`uld_load.c:236`; ld gives them one) and that of a
second `l` in a conversion (`libc.c:360`; no format has one). A flash write is made
in cells: the four bytes of a base that `memmove` writes one by one (`cpu.c:76`)
change at once. What base64 makes of a stream whose callback has failed is not
followed further. Nothing in the code checks for the end of RAM. Addends of ABS32 and
the widths of addresses are left out.

## Plan

1. Done: all modules above; proofs of every invariant of the walk, the move, the
   patching, the loader, the linker, the execution and the entry, under the conditions
   named, and of the encoder.
2. Proofs next: `AllCounted` and `CountReported` of `Stdio`.
3. Fixups at section level through build, move and load, with the 20-section
   limit; ELF hash and chain walk against linear search; CRC-32 against its
   polynomial.
