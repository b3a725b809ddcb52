----------------------------- MODULE MCPatchElf -----------------------------
(* Every table of two files with up to two pointers each and a .plt of two entries
   or none, and every single file with more pointers. *)
EXTENDS PatchElf

CONSTANT MaxFixups   \* pointers of a file that is alone in its table

Fixups(m) == UNION {[1 .. j -> Targets] : j \in 0 .. m}
Plts == {<<0, 0>>, <<2, 0>>, <<2, 3>>, <<2, Bad>>}
MCFiles(m) == {[fixups |-> f, plt |-> p[1], got |-> p[2]] : f \in Fixups(m), p \in Plts}
MCTables == [1 .. 2 -> MCFiles(2)] \cup [1 .. 1 -> MCFiles(MaxFixups)]
=============================================================================
