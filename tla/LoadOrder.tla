----------------------------- MODULE LoadOrder -----------------------------
(***************************************************************************)
(* What uld_dyn_create_fse_dep_list promises (include/uld_dyn.h): a list   *)
(* "in order that they should be loaded, linked and initialized" that ends *)
(* with the file it was asked for.  How the list is found is left open: a  *)
(* step may list any file whose DT_NEEDED entries are all listed already.  *)
(***************************************************************************)
EXTENDS Integers, Sequences

CONSTANTS Files,    \* entries of the file system table
          Missing   \* a DT_NEEDED name that no entry of the table carries

VARIABLES needed,   \* the DT_NEEDED entries of each file, in .dynamic order
          root,     \* the file to load
          order,    \* the files listed so far
          closed    \* the list has been handed to its caller

loVars == <<needed, root, order, closed>>

Listed(f) == \E i \in 1 .. Len(order) : order[i] = f

LoadOrderInit ==
    /\ needed \in [Files -> Seq(Files \cup {Missing})]
    /\ root \in Files
    /\ order = <<>>
    /\ closed = FALSE

(* List a file after everything it needs, and list it once. *)
List(f) ==
    /\ ~closed
    /\ ~Listed(f)
    /\ \A j \in 1 .. Len(needed[f]) : Listed(needed[f][j])
    /\ order' = Append(order, f)
    /\ UNCHANGED <<needed, root, closed>>

(* Hand over the list: it ends with the file that was asked for. *)
Close ==
    /\ ~closed
    /\ Len(order) > 0
    /\ order[Len(order)] = root
    /\ closed' = TRUE
    /\ UNCHANGED <<needed, root, order>>

LoadOrderNext == (\E f \in Files : List(f)) \/ Close

LoadOrderSpec == LoadOrderInit /\ [][LoadOrderNext]_loVars
=============================================================================
