------------------------------ MODULE UldLink -------------------------------
(***************************************************************************)
(* Linking the loaded files: uld_dyn_link_file_list with                   *)
(* uld_dyn_resolve_rel and the functions that write a resolution.  The     *)
(* files are linked in list order, the relocations of a file in table      *)
(* order; a resolution is searched for backwards from the relocation, in   *)
(* dynamic symbols first and then in what earlier relocations hold.        *)
(*                                                                         *)
(* A pointer is a record that says what it points to: the link address of  *)
(* a symbol, the symbol where its file is loaded, the word of a            *)
(* relocation, or an address in the pool of the link.  A function          *)
(* descriptor pairs code with the memory base of a file, given by the      *)
(* file's index (0: NULL, the base of a file without memory sections).     *)
(*                                                                         *)
(* A definition X_Y is the definition X with the mistake Y in it; it is    *)
(* used by no specification, only to see that a property rejects it.       *)
(***************************************************************************)
EXTENDS Integers, Sequences, FiniteSets

CONSTANTS Symbols,   \* names in the dynamic symbol tables
          Kind,      \* Kind[s]: "func", "object" or "section" (STT_*)
          ObjSize,   \* ObjSize[s]: bytes of the object s
          Lists,     \* the file lists to link
          PoolStart  \* dl_alloc_base, where the pool begins

(* "ref": referenced and undefined; "gone": exported, but its space was garbage
   collected at build time; "def": defined.  "other" is any relocation type
   the linker does not know.  A relocation is placed if its offset lies in a
   section of its file. *)
SymStates == {"absent", "ref", "gone", "def"}
RelTypes == {"ABS32", "RELATIVE", "GLOB_DAT", "FUNCDESC", "FUNCDESC_VALUE", "other"}
Rel == [type : RelTypes, sym : Symbols, placed : BOOLEAN]
File == [syms : [Symbols -> SymStates], tables : {"all", "nohash", "none"},
         rels : Seq(Rel), inMem : BOOLEAN]
AnySize == {0, 5}    \* what an uninitialized symbol pointer may give as a size

ASSUME KindAssumption == Kind \in [Symbols -> {"func", "object", "section"}]
ASSUME SizeAssumption == ObjSize \in [Symbols -> Nat \ {0}] /\ PoolStart \in Nat
ASSUME ListsAssumption == \A l \in Lists : l \in Seq(File)

VARIABLES
    files,    \* ufile_list
    i, r,     \* file_idx and rd_idx + 1
    slot,     \* slot[k][n]: what the n-th relocation of file k has at its offset
    res,      \* the resolution, one variable for all relocations
    dlBase,   \* dl_alloc_base
    pool,     \* what has been allocated from it
    pc, ret,
    trapped   \* a swbkpt() has been reached

vars == <<files, i, r, slot, res, dlBase, pool, pc, ret, trapped>>

Null == [to |-> "null"]
Garbage == [to |-> "garbage"]
LinkAddr(k, s) == [to |-> "lma", file |-> k, sym |-> s]
SymAddr(k, s) == [to |-> "sym", file |-> k, sym |-> s]
SlotAddr(k, n) == [to |-> "slot", file |-> k, rel |-> n]
PoolAddr(a) == [to |-> "pool", at |-> a]
Desc(k, s) == [fn |-> SymAddr(k, s), base |-> k]
Unset == [fn |-> Garbage, base |-> 0]
-----------------------------------------------------------------------------
(* uld_dyn_resolve_rel *)
ThisRel == files[i].rels[r]
Type == ThisRel.type
Sym == ThisRel.sym

(* The file of the relocation is searched with the symbol it names, any other
   file, and for FUNCDESC every file, through the hash table. *)
Searched_OwnFile(k) == k = i
Searched(k) ==
    \/ k = i /\ Type # "FUNCDESC"
    \/ /\ files[k].tables = "all"
       /\ files[k].syms[Sym] # "absent"
       /\ Kind[Sym] # "section"
Defined(k) == files[k].syms[Sym] = "def"

(* The switch on the relocation type.  A section symbol names a section by its
   index: the file must have it.  Such a symbol is only met in its own file. *)
BySection == Type = "FUNCDESC_VALUE" /\ Kind[Sym] = "section"
BadType ==
    \/ Type = "GLOB_DAT" /\ Kind[Sym] # "object"
    \/ Type \in {"FUNCDESC", "FUNCDESC_VALUE"} /\ Kind[Sym] # "func" /\ ~BySection
    \/ BySection /\ ~Defined(i)

(* The relocations of file k that can provide the resolution.  In the same file
   those before this one; but a FUNCDESC may point to any FUNCDESC_VALUE, so
   that a FUNCDESC_VALUE never takes its value from a FUNCDESC. *)
Providers_SelfReferring(k) ==
    {n \in 1 .. Len(files[k].rels) :
        /\ files[k].rels[n].sym = Sym /\ files[k].rels[n].type # "RELATIVE"
        /\ k = i => IF Type = "FUNCDESC" THEN files[k].rels[n].type = "FUNCDESC_VALUE" ELSE n < r}
Providers(k) ==
    {n \in 1 .. Len(files[k].rels) :
        /\ files[k].rels[n].sym = Sym /\ files[k].rels[n].type # "RELATIVE"
        /\ k = i => /\ Type = "FUNCDESC" => files[k].rels[n].type = "FUNCDESC_VALUE"
                    /\ Type = "FUNCDESC_VALUE" => files[k].rels[n].type # "FUNCDESC"
                    /\ Type # "FUNCDESC" => n < r}

(* The search ends at the first file that gives an answer; a FUNCDESC goes on
   past a defined symbol in search of a descriptor that exists already. *)
Answers(k) ==
    /\ Searched(k)
    /\ \/ BadType
       \/ BySection
       \/ Defined(k) /\ Type # "FUNCDESC"
       \/ Providers(k) # {}
Highest(S) == CHOOSE k \in S : \A m \in S : m <= k
Lowest(S) == CHOOSE k \in S : \A m \in S : m >= k

Answering == {k \in 1 .. i : Answers(k)}
Seen == {k \in 1 .. i : Searched(k)}
Defining == {k \in Seen : Defined(k)}

(* For objects, the symbol of the last file down to k that has no space for it. *)
MatchDownTo(k) ==
    LET passed == {m \in Seen \ Defining : m >= k}
    IN  IF Type = "GLOB_DAT" /\ passed # {} THEN <<Lowest(passed), Sym>> ELSE res.match

Base(k) == IF files[k].inMem THEN k ELSE 0
FromSym(k) == [ptr |-> LinkAddr(k, Sym), base |-> Base(k), file |-> k, match |-> MatchDownTo(k)]
FromRel(k) ==
    LET n == Highest(Providers(k))
    IN  [ptr  |-> IF files[k].rels[n].type = "FUNCDESC_VALUE" THEN SlotAddr(k, n) ELSE slot[k][n],
         base |-> 0, file |-> k, match |-> MatchDownTo(k)]
(* Not found, or a symbol of the wrong type: only ptr has been reset. *)
Failed == [res EXCEPT !.ptr = Null]

Resolution ==
    IF Answering # {}
    THEN LET k == Highest(Answering)
         IN  CASE BadType -> Failed
               [] ~BadType /\ (BySection \/ (Defined(k) /\ Type # "FUNCDESC")) -> FromSym(k)
               [] OTHER -> FromRel(k)
    ELSE CASE Type = "FUNCDESC" /\ Defining # {} -> FromSym(Lowest(Defining))
           [] Type = "GLOB_DAT" -> [Failed EXCEPT !.file = Lowest(Seen), !.match = MatchDownTo(1)]
           [] OTHER -> Failed
Resolved == Resolution.ptr # Null
-----------------------------------------------------------------------------
Init ==
    /\ files \in Lists
    /\ i = 1 /\ r = 1
    /\ slot = [k \in 1 .. Len(files) |-> [n \in 1 .. Len(files[k].rels) |->
                 IF files[k].rels[n].type = "FUNCDESC_VALUE" THEN Unset ELSE Garbage]]
    /\ res = [ptr |-> Garbage, base |-> 0, file |-> 0, match |-> <<>>]
    /\ dlBase = PoolStart
    /\ pool = {}
    /\ pc = "link" /\ ret = 0
    /\ trapped = FALSE

AtRel(types) ==
    /\ pc = "link" /\ i <= Len(files) /\ r <= Len(files[i].rels)
    /\ files[i].tables # "none"
    /\ Type \in types

(* Every failure stops at a swbkpt() and then ends the link. *)
Fail == pc' = "done" /\ ret' = -1 /\ trapped' = TRUE /\ UNCHANGED <<r, slot, dlBase, pool>>
Write(v) == slot' = [slot EXCEPT ![i][r] = v] /\ r' = r + 1 /\ UNCHANGED <<pc, ret>>

Alloc_FixedStep(size, v) ==
    /\ pool' = pool \cup {[at |-> dlBase, size |-> size, val |-> v]}
    /\ dlBase' = dlBase + 4
(* Objects keep the pool aligned; a descriptor takes its 8 bytes as they come. *)
Alloc(size, v) ==
    /\ pool' = pool \cup {[at |-> dlBase, size |-> size, val |-> v]}
    /\ dlBase' = dlBase + size + (IF "fn" \in DOMAIN v THEN 0 ELSE (-(dlBase + size)) % 4)
NoAlloc == UNCHANGED <<dlBase, pool>>

(* The words a pointer to a descriptor leads to; an object of size 0 has none. *)
Deref(p) == CASE p.to = "slot" -> slot[p.file][p.rel]
              [] p.to = "pool" -> (CHOOSE a \in pool : a.at = p.at /\ a.size > 0).val
              [] OTHER -> Unset

(* A symbol's address is adjusted to where its file is loaded only if there is a
   base: without one the pointer is taken to come from a relocation. *)
Adjusted(p, b) == IF b # 0 THEN SymAddr(p.file, p.sym) ELSE p

(* uld_dyn_update_relative: the word holds the link address of something in the
   same file and gets its present address. *)
LinkRelative ==
    /\ AtRel({"RELATIVE"}) /\ ThisRel.placed
    /\ Write(SymAddr(i, Sym))
    /\ NoAlloc
    /\ UNCHANGED <<files, i, res, trapped>>

LinkAbs32 ==
    /\ AtRel({"ABS32"}) /\ ThisRel.placed
    /\ res' = Resolution
    /\ \/ Resolved /\ Write(Adjusted(res'.ptr, res'.base)) /\ NoAlloc /\ UNCHANGED trapped
       \/ ~Resolved /\ Fail
    /\ UNCHANGED <<files, i>>

(* An object that no file has space for is given some in the pool; its size is
   that in the file the search saw last.  The return value of the search is
   overwritten: the failure of the symbol type test goes unnoticed here. *)
MatchSizes_OfThisFile(m) == {IF files[i].syms[Sym] = "ref" THEN 0 ELSE ObjSize[Sym]}
MatchSizes(m) == CASE m = <<>> -> AnySize
                   [] m # <<>> /\ files[m[1]].syms[m[2]] = "ref" -> {0}
                   [] OTHER -> {ObjSize[m[2]]}
(* No file before this one knows of the object. *)
OnlyReferrer_Later == Resolution.file > i
OnlyReferrer == Resolution.file = i
LinkGlobDat ==
    /\ AtRel({"GLOB_DAT"}) /\ ThisRel.placed
    /\ res' = Resolution
    /\ \/ /\ Resolved
          /\ Write(Adjusted(res'.ptr, res'.base))
          /\ NoAlloc
          /\ UNCHANGED trapped
       \/ /\ ~Resolved
          /\ Write(PoolAddr(dlBase))
          /\ \E size \in MatchSizes(res'.match) : Alloc(size, [obj |-> Sym])
          /\ trapped' = (trapped \/ BadType \/ OnlyReferrer)
    /\ UNCHANGED <<files, i>>

(* A descriptor is made in the pool unless a relocation holds one. *)
LinkFuncdesc ==
    /\ AtRel({"FUNCDESC"}) /\ ThisRel.placed
    /\ res' = Resolution
    /\ \/ /\ Resolved /\ res'.base # 0
          /\ Write(PoolAddr(dlBase))
          /\ Alloc(8, Desc(res'.base, Sym))
          /\ UNCHANGED trapped
       \/ /\ Resolved /\ res'.base = 0
          /\ Write(res'.ptr)
          /\ NoAlloc
          /\ UNCHANGED trapped
       \/ ~Resolved /\ Fail
    /\ UNCHANGED <<files, i>>

DescValue(k) == Desc(k, Sym)
LinkFuncdescValue ==
    /\ AtRel({"FUNCDESC_VALUE"}) /\ ThisRel.placed
    /\ res' = Resolution
    /\ \/ Resolved /\ res'.base # 0 /\ Write(DescValue(res'.base)) /\ NoAlloc /\ UNCHANGED trapped
       \/ Resolved /\ res'.base = 0 /\ Write(Deref(res'.ptr)) /\ NoAlloc /\ UNCHANGED trapped
       \/ ~Resolved /\ Fail
    /\ UNCHANGED <<files, i>>

LinkUnsupported ==
    /\ AtRel({"other"})
    /\ Fail
    /\ UNCHANGED <<files, i, res>>

(* The word of the relocation lies in no section: the writer stops at a swbkpt()
   and returns -1 before it allocates or writes anything.  That is looked at for
   RELATIVE and GLOB_DAT only; after the others the link goes on. *)
LinkMisplaced ==
    /\ AtRel(RelTypes \ {"other"}) /\ ~ThisRel.placed
    /\ res' = IF Type = "RELATIVE" THEN res ELSE Resolution
    /\ \/ /\ Type \notin {"RELATIVE", "GLOB_DAT"} /\ Resolved
          /\ r' = r + 1 /\ trapped' = TRUE
          /\ UNCHANGED <<slot, dlBase, pool, pc, ret>>
       \/ /\ Type \in {"RELATIVE", "GLOB_DAT"} \/ ~Resolved
          /\ Fail
    /\ UNCHANGED <<files, i>>

(* Relocations and no symbol or string table to link them with. *)
NoTables ==
    /\ pc = "link" /\ i <= Len(files) /\ r = 1
    /\ files[i].rels # <<>> /\ files[i].tables = "none"
    /\ pc' = "done" /\ ret' = -1
    /\ UNCHANGED <<files, i, r, slot, res, dlBase, pool, trapped>>

NextFile ==
    /\ pc = "link" /\ i <= Len(files) /\ r > Len(files[i].rels)
    /\ i' = i + 1 /\ r' = 1
    /\ UNCHANGED <<files, slot, res, dlBase, pool, pc, ret, trapped>>

LinkDone ==
    /\ pc = "link" /\ i > Len(files)
    /\ pc' = "done"
    /\ UNCHANGED <<files, i, r, slot, res, dlBase, pool, ret, trapped>>

Next ==
    \/ LinkRelative \/ LinkAbs32 \/ LinkGlobDat \/ LinkFuncdesc \/ LinkFuncdescValue
    \/ LinkMisplaced \/ LinkUnsupported \/ NoTables \/ NextFile \/ LinkDone

Spec == Init /\ [][Next]_vars
-----------------------------------------------------------------------------
(* Properties *)

TypeOK ==
    /\ files \in Lists
    /\ i \in 1 .. Len(files) + 1 /\ r \in Nat \ {0}
    /\ DOMAIN slot = 1 .. Len(files)
    /\ res.base \in 0 .. Len(files) /\ res.file \in 0 .. Len(files)
    /\ dlBase \in Nat
    /\ \A a \in pool : a.at \in Nat /\ a.size \in Nat
    /\ pc \in {"link", "done"} /\ ret \in {-1, 0}
    /\ trapped \in BOOLEAN

Linked == pc = "done" /\ ret = 0
RelsOf(l) == UNION {{k} \X (1 .. Len(l[k].rels)) : k \in 1 .. Len(l)}
Rels == RelsOf(files)
RelOf(p) == files[p[1]].rels[p[2]]
Value(p) == slot[p[1]][p[2]]
Definers(s) == {k \in 1 .. Len(files) : files[k].syms[s] = "def"}

(* The descriptor a function relocation ends up with. *)
DescOf(p) == IF RelOf(p).type = "FUNCDESC" THEN Deref(Value(p)) ELSE Value(p)
FuncRels == {p \in Rels : RelOf(p).type \in {"FUNCDESC", "FUNCDESC_VALUE"}}

(* Every call through a descriptor enters a definition of the function that was
   named, in a file no later in the list, with the memory base of that very
   file: also where the pointer to a descriptor was set before the descriptor,
   and where a value was copied from file to file. *)
FuncsLinked ==
    Linked => \A p \in FuncRels : \E k \in 1 .. p[1] :
                 /\ DescOf(p) = Desc(k, RelOf(p).sym)
                 /\ k \in Definers(RelOf(p).sym)

(* All files that share an object share one instance of it: the definition, if
   one file exports it and has space for it, and if no file has any, one object
   in the pool, of its full size. *)
Exported(s) ==
    \/ Definers(s) = {}
    \/ \E k \in Definers(s) : \A m \in (1 .. Len(files)) \ {k} : files[m].syms[s] \in {"absent", "ref"}
DataShared ==
    Linked => \A p, q \in Rels :
        (/\ RelOf(p).sym = RelOf(q).sym
         /\ {RelOf(p).type, RelOf(q).type} \subseteq {"GLOB_DAT", "ABS32"}
         /\ Kind[RelOf(p).sym] = "object"
         /\ Exported(RelOf(p).sym)) =>
             LET s == RelOf(p).sym
             IN  /\ Value(p) = Value(q)
                 /\ \A k \in Definers(s) : Value(p) = SymAddr(k, s)
                 /\ Definers(s) = {} =>
                      \E a \in pool : /\ Value(p) = PoolAddr(a.at)
                                      /\ a.val = [obj |-> s] /\ a.size = ObjSize[s]

(* The allocations from the pool lie above the loaded files and below what is
   still free, and have no byte in common. *)
PoolDisjoint ==
    /\ \A a \in pool : PoolStart <= a.at /\ a.at + a.size <= dlBase
    /\ \A a, b \in pool : a # b => a.at + a.size <= b.at \/ b.at + b.size <= a.at

(* The link fails only over a relocation that has no right answer: nothing
   defines its symbol up to its file, its type or symbol is of no use, or its
   word does not exist.  The symbol of a section is that of its own file only. *)
FailureJustified ==
    ret = -1 => \/ files[i].tables = "none"
                \/ Type = "other"
                \/ BadType
                \/ ~ThisRel.placed
                \/ files[i].tables = "nohash" /\ Type = "FUNCDESC"
                \/ \A k \in 1 .. i :
                      (files[k].tables = "all" /\ (Kind[Sym] = "section" => k = i)) => ~Defined(k)

(* A link that returns 0 and has stopped at no breakpoint is clean: every word
   was there to be written, every GLOB_DAT names an object, and the object has
   its space in the file itself or is known to a file before it.  Where the
   code overwrites or drops a -1, its swbkpt() is what catches the file. *)
ObjectKnown(p) ==
    LET s == RelOf(p).sym
    IN  \/ files[p[1]].syms[s] = "def"
        \/ \E m \in 1 .. p[1] - 1 : files[m].tables = "all" /\ files[m].syms[s] # "absent"
CleanLink ==
    (Linked /\ ~trapped) =>
        \A p \in Rels : /\ RelOf(p).placed
                        /\ RelOf(p).type = "GLOB_DAT" =>
                             Kind[RelOf(p).sym] = "object" /\ ObjectKnown(p)

(* What the linker relies on in a list and does not check.  A file that defines
   anything has memory sections, and so a base.  A function that is called by
   descriptor is referred to in no other way. *)
DefinersInMemory(l) ==
    \A k \in 1 .. Len(l) : \A s \in Symbols : l[k].syms[s] = "def" => l[k].inMem
CalledByDescriptor(l) ==
    \A k \in 1 .. Len(l) : \A n \in 1 .. Len(l[k].rels) :
        LET s == l[k].rels[n].sym
        IN  (l[k].rels[n].type \in {"FUNCDESC", "FUNCDESC_VALUE"} /\ Kind[s] = "func") =>
               \A q \in RelsOf(l) : l[q[1]].rels[q[2]].sym = s =>
                  l[q[1]].rels[q[2]].type \notin {"ABS32", "GLOB_DAT"}

(* Every relocation is of a word in a section of its file. *)
WordsPlaced(l) == \A q \in RelsOf(l) : l[q[1]].rels[q[2]].placed

(* A file that refers to an object can be searched for it, and comes after a
   file that exports the object. *)
Exports(file, s) == file.tables = "all" /\ file.syms[s] \in {"gone", "def"}
ObjectsExported(l) ==
    \A k \in 1 .. Len(l) :
        /\ \A s \in Symbols :
              (Kind[s] = "object" /\ l[k].tables = "all" /\ l[k].syms[s] = "ref") =>
                 \E m \in 1 .. k - 1 : Exports(l[m], s)
        /\ \A n \in 1 .. Len(l[k].rels) :
              (l[k].rels[n].type \in {"GLOB_DAT", "ABS32"} /\ Kind[l[k].rels[n].sym] = "object") =>
                 l[k].tables = "all" /\ l[k].syms[l[k].rels[n].sym] # "absent"

(* At every relocation the pool is in order: nothing allocated for an earlier
   one is given out again. *)
LinkInv == TypeOK /\ PoolDisjoint
=============================================================================
