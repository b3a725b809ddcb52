----------------------------- MODULE MCUldExec ------------------------------
(* Lists of up to MaxFiles files, in any order.  A file is described by the
   sections it has, in the order of its headers, and by its relocations.  The
   flash sections are linked from TextLink on in one segment, the memory sections
   from DataLink on in another; the segment that gives the size of the stack,
   which is not loadable, lies over both, and a .comment that is not loaded has an
   address range over the link addresses. *)
EXTENDS UldExec, TLC

CONSTANT MaxFiles

TextLink == 20
DataLink == 40
SizeOf == (".rel.dyn" :> 1 @@ ".text" :> 2 @@ ".preinit_array" :> 1 @@ ".init_array" :> 2
           @@ ".rofixup" :> 1 @@ ".got" :> 3 @@ ".bss" :> 2)
TypeOf(n) == CASE n = ".bss" -> "NOBITS"
               [] n \in {".preinit_array", ".init_array"} -> "INIT_ARRAY"
               [] n = ".rel.dyn" -> "REL"
               [] OTHER -> "PROGBITS"

(* Headers come in any order; what they describe is laid out in this one. *)
Layout == <<".rel.dyn", ".text", ".preinit_array", ".init_array", ".rofixup", ".got", ".bss">>
OffOf(n, S) ==
    LET before == {m \in 1 .. Len(Layout) : Layout[m] \in S /\
                     \A q \in 1 .. Len(Layout) : Layout[q] = n => m < q}
        sum[k \in 0 .. Len(Layout)] ==
            IF k = 0 THEN 1 ELSE sum[k - 1] + (IF k \in before THEN SizeOf[Layout[k]] ELSE 0)
    IN  sum[Len(Layout)]
Header(n, S) ==
    [name |-> n, type |-> TypeOf(n), alloc |-> TRUE, off |-> OffOf(n, S), size |-> SizeOf[n],
     addr |-> OffOf(n, S) + (IF n \in MemNames THEN DataLink ELSE TextLink)]
Comment == [name |-> ".comment", type |-> "PROGBITS", alloc |-> FALSE, addr |-> 0, off |-> 18, size |-> 60]

Elfs(names, base) ==
    LET S == {names[k] : k \in 1 .. Len(names)}
        end == OffOf(".got", S)
    IN  [base |-> base, entry |-> IF ".text" \in S THEN TextLink + OffOf(".text", S) + 1 ELSE 0,
         secs |-> [k \in 1 .. Len(names) + 1 |->
                     IF k > Len(names) THEN Comment ELSE Header(names[k], S)],
         segs |-> << [load |-> FALSE, vaddr |-> 0, paddr |-> 0, memsz |-> 90, off |-> 0, filesz |-> 0],
                     [load |-> TRUE, vaddr |-> TextLink, paddr |-> TextLink, memsz |-> end,
                      off |-> 0, filesz |-> end],
                     [load |-> TRUE, vaddr |-> DataLink + end, paddr |-> DataLink + end, memsz |-> 5,
                      off |-> end, filesz |-> 3] >>]

(* The files: complete, in header order and not, without memory, without .text,
   without .rofixup, and one with nothing to load; and how they are linked. *)
Full == <<".rel.dyn", ".text", ".preinit_array", ".init_array", ".rofixup", ".got", ".bss">>
Shapes == <<
    <<Full, "good", 3>>, <<Full, "bad", 0>>, <<Full, "notables", 0>>,
    << <<".bss", ".init_array", ".got", ".rofixup", ".text">>, "none", 0 >>,
    << <<".rel.dyn", ".text", ".init_array", ".rofixup", ".bss">>, "good", 1 >>,
    << <<".text", ".preinit_array", ".rofixup">>, "none", 0 >>,
    << <<".init_array", ".rofixup", ".got">>, "none", 0 >>,
    << <<".rel.dyn", ".text", ".init_array", ".got">>, "good", 2 >>,
    << <<>>, "none", 0 >> >>

MCTable == 1 .. Len(Shapes)
MCFile == [t \in MCTable |->
             [elf |-> Elfs(Shapes[t][1], 100 * t), rels |-> Shapes[t][2], pool |-> Shapes[t][3]]]

Orders(n) == {l \in [1 .. n -> MCTable] : \A a, b \in 1 .. n : l[a] = l[b] => a = b}
MCPrograms ==
    UNION {[list : Orders(n), broken : {FALSE}] : n \in 1 .. MaxFiles}
    \cup [list : Orders(1), broken : {TRUE}]
=============================================================================
