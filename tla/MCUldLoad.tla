----------------------------- MODULE MCUldLoad ------------------------------
(* Dependency lists of up to three files.  A file has one of several sets of
   memory sections, at link addresses in the order of the linker script with
   the given gap after the first, and its headers in that order or reversed.
   The pointers of a file's sections are none, the second word of the last
   section, the first word of the next section, or a flash address. *)
EXTENDS UldLoad, SequencesExt, TLC

CONSTANTS Gaps,      \* words that may be unused after a file's first section
          Bare,      \* the sets of memory sections a file without .rofixup may have
          MaxFiles

LinkBase == 2
Order == <<".got", ".got.plt", ".data", ".bss">>
SizeOf == (".got" :> 3 @@ ".got.plt" :> 2 @@ ".data" :> 1 @@ ".bss" :> 2)
Shapes == {{}, {".bss"}, {".data", ".bss"}, {".got.plt", ".data"},
           {".got", ".got.plt", ".data", ".bss"}}

Present(shape) == SelectSeq(Order, LAMBDA n : n \in shape)
AddrOf(ns, k, gap) ==
    LinkBase + FoldFunctionOnSet(LAMBDA a, b : a + b, 0, SizeOf, {ns[m] : m \in 1 .. k - 1})
             + (IF k > 1 THEN gap ELSE 0)
PtrOf(ns, k, gap, mode) ==
    CASE ns[k] = ".bss" \/ mode = "none" -> 0
      [] mode = "flash" -> FlashBase + 1
      [] mode = "last" -> AddrOf(ns, Len(ns), gap) + SizeOf[ns[Len(ns)]] - 1
      [] mode = "next" -> IF k = Len(ns) THEN 0 ELSE AddrOf(ns, k + 1, gap)

MemHeaders(ns, gap, mode) ==
    [k \in 1 .. Len(ns) |-> [name |-> ns[k], addr |-> AddrOf(ns, k, gap), size |-> SizeOf[ns[k]],
                             nobits |-> ns[k] = ".bss", ptr |-> PtrOf(ns, k, gap, mode)]]
Text == [name |-> ".text", addr |-> 1, size |-> 1, nobits |-> FALSE, ptr |-> 0]
Made(shape, gap, rev, mode, rofixup) ==
    LET hs == <<Text>> \o MemHeaders(Present(shape), gap, mode)
    IN  [secs |-> IF rev THEN Reverse(hs) ELSE hs, rofixup |-> rofixup]

MadeFiles(mode) ==
    {Made(shape, gap, rev, mode, TRUE) : shape \in Shapes, gap \in Gaps, rev \in BOOLEAN}
    \cup {Made(shape, 0, FALSE, mode, FALSE) : shape \in Bare}
(* A file without sections is the last of its list, where the array is used up. *)
Empty == [secs |-> <<>>, rofixup |-> TRUE]
MCLists == UNION {[1 .. n -> MadeFiles(mode)] :
                    n \in 1 .. MaxFiles, mode \in {"none", "flash", "last", "next"}}
           \cup {<<f, Empty>> : f \in MadeFiles("last")}

(* Without gaps the files meet the conditions of the theorems in UldLoadProofs. *)
ASSUME MCListsAssumption ==
    Gaps = {0} => \A l \in MCLists : \A k \in 1 .. Len(l) : Packed(l[k]) /\ PointersGood(l[k])
=============================================================================
