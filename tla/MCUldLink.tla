----------------------------- MODULE MCUldLink ------------------------------
(* Lists of files that reference, define or no longer hold a function f and the
   objects x and y, with every choice of relocations to them up to a length. *)
EXTENDS UldLink, TLC

CONSTANTS f, x, y, sec

MCSymbols == {f, x, y, sec}
MCKind == (f :> "func" @@ x :> "object" @@ y :> "object" @@ sec :> "section")
MCObjSize == (f :> 1 @@ x :> 5 @@ y :> 4 @@ sec :> 1)

FuncTypes == {"FUNCDESC", "FUNCDESC_VALUE"}
DataTypes == {"GLOB_DAT", "ABS32"}
RelOn(type, sym) == [type |-> type, sym |-> sym, placed |-> TRUE]
RelsOn(types, syms) == [type : types, sym : syms, placed : {TRUE}]
RelSeqs(S, n) == UNION {[1 .. m -> S] : m \in 0 .. n}

Syms(fs, xs, ys) == [s \in Symbols |-> CASE s = f -> fs [] s = x -> xs [] s = y -> ys [] s = sec -> "def"]
Entry(syms, rels, tables) == [syms |-> syms, rels |-> rels, tables |-> tables, inMem |-> TRUE]

(* Files that have to do with one symbol only. *)
FuncFiles(n) == {Entry(Syms(st, "absent", "absent"), rels, tables) :
                   st \in {"ref", "def"}, rels \in RelSeqs(RelsOn(FuncTypes, {f}), n),
                   tables \in {"all", "nohash"}}
Stranger == Entry(Syms("absent", "absent", "absent"), <<>>, "none")
DataFiles(n) == {Entry(Syms("absent", st, "absent"), rels, "all") :
                   st \in {"ref", "def"}, rels \in RelSeqs(RelsOn(DataTypes, {x}), n)}
Exporter == Entry(Syms("absent", "gone", "absent"), <<>>, "all")

FuncLists == [1 .. 3 -> FuncFiles(2) \cup {Stranger}]
LongFuncLists == [1 .. 2 -> FuncFiles(3)]
DataLists == {l \in [1 .. 3 -> DataFiles(2) \cup {Exporter, Stranger}] :
                \A k \in 1 .. 3 : l[k].syms[x] = "ref" =>
                    \E m \in 1 .. k - 1 : l[m].syms[x] \in {"gone", "def"}}

(* A library that exports all, and two files with relocations of every kind. *)
Library == {Entry(Syms(fs, xs, "gone"), <<>>, "all") : fs \in {"def"}, xs \in {"gone", "def"}}
User(n) == {Entry(Syms("ref", "ref", "ref"), rels, "all") :
              rels \in RelSeqs({RelOn("GLOB_DAT", x), RelOn("GLOB_DAT", y), RelOn("FUNCDESC", f),
                                RelOn("FUNCDESC_VALUE", f), RelOn("FUNCDESC_VALUE", sec),
                                RelOn("RELATIVE", sec)}, n)}
MixedLists == {<<a, b, c>> : a \in Library, b \in User(2), c \in User(2)}

(* Relocations that cannot be linked: undefined, of an unknown type, without
   tables, through the symbol of a section that the file does not have; or of a
   word outside the sections, where an ABS32 of f is passed over. *)
BrokenLists ==
    {<<Entry(Syms("ref", "ref", "absent"), <<RelOn(t, s)>>, tables)>> :
        t \in {"ABS32", "FUNCDESC", "FUNCDESC_VALUE", "other"}, s \in {f, x, sec},
        tables \in {"all", "none"}}
NoSectionLists ==
    {<<Entry([Syms("ref", "absent", "absent") EXCEPT ![sec] = "ref"], <<RelOn("FUNCDESC_VALUE", sec)>>, "all")>>}
MisplacedLists ==
    {<<Entry(Syms(st, "gone", "absent"), <<[type |-> t[1], sym |-> t[2], placed |-> FALSE]>>, "all")>> :
        st \in {"ref", "def"},
        t \in {<<"ABS32", f>>, <<"FUNCDESC", x>>, <<"FUNCDESC_VALUE", x>>, <<"GLOB_DAT", x>>, <<"RELATIVE", sec>>}}

(* An object that the build dropped, referred to by the file that exports it. *)
LonelyLists ==
    {<<a, Entry(Syms("absent", "gone", "absent"), rels, "all")>> :
        a \in {Stranger, Exporter}, rels \in RelSeqs(RelsOn(DataTypes, {x}), 2)}

(* ld refers to a section symbol, or to a function, where an object was meant. *)
WrongTypeLists ==
    {<<a, Entry(Syms("ref", "ref", "ref"), rels, "all")>> :
        a \in Library, rels \in RelSeqs(RelsOn({"GLOB_DAT"}, {f, x, sec}), 2)}

MCLists == FuncLists \cup LongFuncLists \cup DataLists \cup MixedLists \cup BrokenLists
           \cup NoSectionLists \cup MisplacedLists \cup LonelyLists \cup WrongTypeLists

(* The lists meet the conditions of the theorems in UldLinkProofs. *)
ASSUME MCListsAssumption ==
    LET linkable == MCLists \ (BrokenLists \cup NoSectionLists \cup MisplacedLists)
    IN  /\ \A l \in MCLists : DefinersInMemory(l) /\ CalledByDescriptor(l)
        /\ \A l \in linkable : WordsPlaced(l) /\ ObjectsExported(l)
=============================================================================
