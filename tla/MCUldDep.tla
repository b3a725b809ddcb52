------------------------------ MODULE MCUldDep ------------------------------
(* Every dependency graph over Files with at most MaxNeeded DT_NEEDED entries
   per file: chains, diamonds, cycles, self-dependencies, missing libraries,
   and none or one file whose .dynstr section is missing. *)
EXTENDS UldDep, Relation

CONSTANTS MaxNeeded, BadDynstr

NeededSeqs == UNION {[1 .. n -> Files \cup {Missing}] : n \in 0 .. MaxNeeded}
MCStores == [needed : [Files -> NeededSeqs], noDynstr : BadDynstr]
OneMayBeBad == SUBSET {CHOOSE f \in Files : TRUE}   \* any file can be the root

(* The files that calling for f leads to. *)
Reaches(f, g) ==
    LET direct == [p \in Files \X Files |-> \E j \in 1 .. Len(needed[p[1]]) : needed[p[1]][j] = p[2]]
    IN  TransitiveClosure(direct, Files)[<<f, g>>]

Cyclic == \E f \in Files : (f = root \/ Reaches(root, f)) /\ Reaches(f, f)

(* Both walks end, and uld_dyn_exec_fse gets its list or an error code, unless
   the dependencies of the file it executes form a cycle. *)
Terminates == ~Cyclic => <>(pc = "done")
=============================================================================
