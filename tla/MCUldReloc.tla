----------------------------- MODULE MCUldReloc -----------------------------
(* Four files in a region with two small gaps' worth of free space: a and d move
   among the gaps they leave behind, and a has no room once d has split them;
   b has no memory sections, c no .rofixup section. *)
EXTENDS UldReloc

CONSTANTS a, b, c, d

MCSize == [f \in Files |-> IF f = a THEN 4 ELSE 2]
MCFlashLen == [f \in Files |-> IF f = b THEN 2 ELSE 1]
MCInitBase == [f \in Files |-> CASE f = a -> 2 [] f = b -> 6 [] f = c -> 8 [] f = d -> 10]
=============================================================================
