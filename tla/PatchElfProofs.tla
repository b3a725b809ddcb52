--------------------------- MODULE PatchElfProofs ---------------------------
(***************************************************************************)
(* Proofs about PatchElf, for every file system table and however often    *)
(* the build is stopped and run again.                                     *)
(***************************************************************************)
EXTENDS PatchElf, SequenceTheorems, TLAPS

(* What the run in progress, or the one that finished, has behind it. *)
FixupPassed(j, m) == j < k \/ (j = k /\ (pc = "plt" \/ (pc = "fixups" /\ m < n)))
PltPassed(j, m) == j < k \/ (j = k /\ pc = "plt" /\ m < n)
NotStopped == pc # "stopped"

(* Where the script is. *)
Position ==
    /\ files \in Seq(File)
    /\ pc \in {"fixups", "plt"} => k \in 1 .. Len(files)
    /\ pc = "done" => k = Len(files) + 1

(* The pointers a run has passed. *)
FixupsPassed ==
    NotStopped => \A j \in 1 .. Len(files) : \A m \in 1 .. Len(files[j].fixups) :
        (FixupPassed(j, m) /\ files[j].fixups[m] = "flash") => fixed[j][m] = 1

(* A run that found a pointer adjusted has one of them before it. *)
StopsAhead ==
    (NotStopped /\ left = 1) =>
        \E j \in 1 .. Len(files) : \E m \in 1 .. Len(files[j].fixups) :
            fixed[j][m] > 0 /\ ~FixupPassed(j, m)

(* .plt is patched after all the pointers of the file have been. *)
PltAfterFixups ==
    \A j \in 1 .. Len(files) : \A m \in 1 .. files[j].plt : plt[j][m] # 0 =>
        \A q \in 1 .. Len(files[j].fixups) : files[j].fixups[q] = "flash" => fixed[j][q] = 1

(* How often an offset has been adjusted: at most once in each run. *)
Multiple(x, c, got) == \E r \in 1 .. c : x = r * got
PltOf(j, m) ==
    /\ pc = "stopped" => plt[j][m] = 0 \/ Multiple(plt[j][m], runs, files[j].got)
    /\ (NotStopped /\ ~PltPassed(j, m)) =>
          \/ plt[j][m] = 0
          \/ (FlashFree(j) \/ left = 1) /\ Multiple(plt[j][m], runs - 1, files[j].got)
    /\ (NotStopped /\ PltPassed(j, m)) =>
          \/ plt[j][m] = files[j].got
          \/ /\ runs > 1 /\ (FlashFree(j) \/ left = 1)
             /\ Multiple(plt[j][m], runs, files[j].got)
PltCounts == \A j \in 1 .. Len(files) : \A m \in 1 .. files[j].plt : PltOf(j, m)

(* The files a run has finished have their CRC. *)
CrcsWritten ==
    /\ NotStopped => \A j \in 1 .. Len(files) : j < k => crc[j] = Contents(j)
    /\ pc = "done" => tableCrc = crc

PInv == /\ TypeOK /\ PointersOnce /\ Position /\ FixupsPassed /\ StopsAhead
        /\ PltAfterFixups /\ PltCounts /\ CrcsWritten

(* Types of what a step reads. *)
LEMMA Types ==
    ASSUME TypeOK, Position
    PROVE  /\ Len(files) \in Nat /\ k \in Nat /\ n \in Nat /\ n > 0 /\ runs \in Nat /\ runs > 0
           /\ \A j \in 1 .. Len(files) :
                /\ files[j] \in File /\ Len(files[j].fixups) \in Nat
                /\ DOMAIN files[j].fixups = 1 .. Len(files[j].fixups)
                /\ \A m \in 1 .. Len(files[j].fixups) : files[j].fixups[m] \in Targets
                /\ files[j].plt \in Nat /\ files[j].got \in Int
                /\ DOMAIN fixed[j] = 1 .. Len(files[j].fixups)
                /\ DOMAIN plt[j] = 1 .. files[j].plt
                /\ \A m \in 1 .. Len(files[j].fixups) : fixed[j][m] \in Nat
                /\ \A m \in 1 .. files[j].plt : plt[j][m] \in Nat
<1>1. Len(files) \in Nat /\ files \in Seq(File)
  BY DEF Position
<1>2. k \in Nat /\ n \in Nat /\ n > 0 /\ runs \in Nat /\ runs > 0
  <2>1. runs \in 1 .. MaxRuns /\ k \in 1 .. Len(files) + 1 /\ n \in Nat \ {0}
    BY DEF TypeOK
  <2>2. QED
    BY <1>1, <2>1, RunsAssumption
<1>3. ASSUME NEW j \in 1 .. Len(files)
      PROVE  /\ files[j] \in File /\ Len(files[j].fixups) \in Nat
             /\ DOMAIN files[j].fixups = 1 .. Len(files[j].fixups)
             /\ \A m \in 1 .. Len(files[j].fixups) : files[j].fixups[m] \in Targets
             /\ files[j].plt \in Nat /\ files[j].got \in Int
             /\ DOMAIN fixed[j] = 1 .. Len(files[j].fixups)
             /\ DOMAIN plt[j] = 1 .. files[j].plt
             /\ \A m \in 1 .. Len(files[j].fixups) : fixed[j][m] \in Nat
             /\ \A m \in 1 .. files[j].plt : plt[j][m] \in Nat
  <2>1. files[j] \in File
    BY <1>1, ElementOfSeq
  <2>2. /\ files[j].fixups \in Seq(Targets) /\ files[j].plt \in Nat
        /\ files[j].got \in Nat \cup {-1}
    BY <2>1 DEF File, Bad
  <2>3. /\ Len(files[j].fixups) \in Nat
        /\ DOMAIN files[j].fixups = 1 .. Len(files[j].fixups)
        /\ \A m \in 1 .. Len(files[j].fixups) : files[j].fixups[m] \in Targets
    BY <2>2, ElementOfSeq, LenProperties
  <2>4. /\ fixed[j] \in [1 .. Len(files[j].fixups) -> Nat]
        /\ plt[j] \in [1 .. files[j].plt -> Nat]
    BY DEF TypeOK
  <2>5. QED
    BY <2>1, <2>2, <2>3, <2>4
<1>4. QED
  BY <1>1, <1>2, <1>3

(* Ending a run early leaves the image and the files as they are. *)
LEMMA StopStep ==
    ASSUME PInv, pc \in {"open", "fixups", "plt"}, pc' = "stopped",
           UNCHANGED <<files, k, n, skip, runs, left, image>>
    PROVE  PInv'
<1>1. /\ files' = files /\ k' = k /\ n' = n /\ skip' = skip /\ runs' = runs /\ left' = left
      /\ fixed' = fixed /\ plt' = plt /\ crc' = crc /\ tableCrc' = tableCrc
  BY DEF image
<1>2. TypeOK' /\ PointersOnce'
  BY <1>1 DEF PInv, TypeOK, PointersOnce
<1>3. Position' /\ FixupsPassed' /\ StopsAhead' /\ CrcsWritten'
  BY <1>1 DEF PInv, Position, FixupsPassed, StopsAhead, CrcsWritten, NotStopped
<1>4. PltAfterFixups'
  BY <1>1 DEF PInv, PltAfterFixups
<1>5. ASSUME NEW j \in 1 .. Len(files), NEW m \in 1 .. files[j].plt
      PROVE  plt[j][m] = 0 \/ Multiple(plt[j][m], runs, files[j].got)
  <2>1. PltOf(j, m) /\ NotStopped /\ runs \in Nat /\ runs > 0 /\ files[j].got \in Int
    BY Types DEF PInv, PltCounts, NotStopped
  <2>2. Multiple(plt[j][m], runs - 1, files[j].got) => Multiple(plt[j][m], runs, files[j].got)
    <3>1. \A r \in 1 .. runs - 1 : r \in 1 .. runs
      BY <2>1
    <3>2. QED
      BY <3>1 DEF Multiple
  <2>3. plt[j][m] = files[j].got => Multiple(plt[j][m], runs, files[j].got)
    <3>1. 1 \in 1 .. runs /\ files[j].got = 1 * files[j].got
      BY <2>1
    <3>2. QED
      BY <3>1 DEF Multiple
  <2>4. QED
    BY <2>1, <2>2, <2>3 DEF PltOf
<1>6. PltCounts'
  <2> SUFFICES ASSUME NEW j \in 1 .. Len(files'), NEW m \in 1 .. files'[j].plt
               PROVE  PltOf(j, m)'
    BY DEF PltCounts
  <2>1. plt[j][m] = 0 \/ Multiple(plt[j][m], runs, files[j].got)
    BY <1>1, <1>5
  <2>2. QED
    BY <1>1, <2>1 DEF PltOf, NotStopped, Multiple
<1>7. QED
  BY <1>2, <1>3, <1>4, <1>6 DEF PInv

(* The next file: nothing of it has been passed yet. *)
LEMMA OpenStep ==
    ASSUME PInv, OpenElf
    PROVE  PInv'
<1>1. /\ files' = files /\ k' = k /\ n' = 1 /\ skip' = "unbound" /\ runs' = runs
      /\ left' = left /\ fixed' = fixed /\ plt' = plt /\ crc' = crc /\ tableCrc' = tableCrc
      /\ pc = "open" /\ pc' = "fixups" /\ k <= Len(files)
  BY DEF OpenElf, image
<1>2. TypeOK' /\ PointersOnce'
  BY <1>1 DEF PInv, TypeOK, PointersOnce
<1>3. Position'
  BY <1>1, Types DEF PInv, Position, TypeOK
<1>4. \A j, m \in Nat \ {0} : /\ FixupPassed(j, m)' <=> FixupPassed(j, m)
                              /\ PltPassed(j, m)' <=> PltPassed(j, m)
  BY <1>1 DEF FixupPassed, PltPassed
<1>5. \A x \in Nat : \A j \in 1 .. x : j \in Nat \ {0}
  OBVIOUS
<1>6. FixupsPassed' /\ StopsAhead'
  BY <1>1, <1>4, <1>5, Types DEF PInv, FixupsPassed, StopsAhead, NotStopped
<1>7. PltAfterFixups' /\ CrcsWritten'
  BY <1>1 DEF PInv, PltAfterFixups, CrcsWritten, Contents, NotStopped
<1>8. PltCounts'
  <2> SUFFICES ASSUME NEW j \in 1 .. Len(files), NEW m \in 1 .. files[j].plt
               PROVE  PltOf(j, m)'
    BY <1>1 DEF PltCounts
  <2>1. PltPassed(j, m)' <=> PltPassed(j, m)
    BY <1>4, <1>5, Types DEF PInv
  <2>2. PltOf(j, m)
    BY DEF PInv, PltCounts
  <2>3. QED
    BY <1>1, <2>1, <2>2 DEF PltOf, NotStopped, Multiple, FlashFree
<1>9. QED
  BY <1>2, <1>3, <1>6, <1>7, <1>8 DEF PInv

(* A pointer to flash that is in place is adjusted, once. *)
LEMMA ApplyStep ==
    ASSUME PInv, ApplyFixup
    PROVE  PInv'
<1> DEFINE len == Len(files[k].fixups)
<1>1. /\ files' = files /\ k' = k /\ n' = n + 1 /\ skip' = "no" /\ runs' = runs
      /\ left' = left /\ plt' = plt /\ crc' = crc /\ tableCrc' = tableCrc
      /\ pc = "fixups" /\ pc' = "fixups" /\ n <= len
      /\ files[k].fixups[n] = "flash" /\ fixed[k][n] = 0
      /\ fixed' = [fixed EXCEPT ![k] = [fixed[k] EXCEPT ![n] = fixed[k][n] + 1]]
  BY DEF ApplyFixup, AtFixup, Target, InPlace
<1>2. /\ TypeOK /\ Position /\ k \in 1 .. Len(files) /\ len \in Nat /\ n \in 1 .. len
      /\ DOMAIN fixed = 1 .. Len(files)
  <2>1. TypeOK /\ Position /\ k \in 1 .. Len(files)
    BY <1>1 DEF PInv, Position
  <2>2. len \in Nat /\ n \in Nat /\ n > 0
    BY <2>1, Types
  <2>3. QED
    BY <1>1, <2>1, <2>2 DEF TypeOK
<1>3. ASSUME NEW j \in 1 .. Len(files)
      PROVE  /\ DOMAIN fixed'[j] = DOMAIN fixed[j]
             /\ \A m \in 1 .. Len(files[j].fixups) :
                  fixed'[j][m] = IF j = k /\ m = n THEN 1 ELSE fixed[j][m]
  BY <1>1, <1>2, Types
<1>4. TypeOK'
  <2>1. fixed'[k] \in [1 .. len -> Nat]
    <3>1. fixed[k] \in [1 .. len -> Nat]
      BY <1>2 DEF TypeOK
    <3>2. fixed'[k] = [fixed[k] EXCEPT ![n] = fixed[k][n] + 1]
      BY <1>1, <1>2
    <3>3. QED
      BY <1>2, <3>1, <3>2
  <2>2. \A j \in 1 .. Len(files) : j # k => fixed'[j] = fixed[j]
    BY <1>1, <1>2
  <2>3. DOMAIN fixed' = 1 .. Len(files)
    BY <1>1, <1>2
  <2>4. QED
    BY <1>1, <1>2, <2>1, <2>2, <2>3 DEF TypeOK
<1>5. PointersOnce'
  <2> SUFFICES ASSUME NEW j \in 1 .. Len(files), NEW m \in DOMAIN fixed'[j]
               PROVE  fixed'[j][m] <= IF files[j].fixups[m] = "flash" THEN 1 ELSE 0
    BY <1>1 DEF PointersOnce
  <2>1. m \in 1 .. Len(files[j].fixups) /\ m \in DOMAIN fixed[j]
    BY <1>2, <1>3, Types
  <2>2. CASE j = k /\ m = n
    BY <1>1, <1>3, <2>1, <2>2
  <2>3. CASE ~(j = k /\ m = n)
    BY <1>3, <2>1, <2>3 DEF PInv, PointersOnce
  <2>4. QED
    BY <2>2, <2>3
<1>6. Position'
  BY <1>1, <1>2 DEF Position
<1>7. ASSUME NEW j \in 1 .. Len(files), NEW m \in 1 .. Len(files[j].fixups)
      PROVE  FixupPassed(j, m)' <=> FixupPassed(j, m) \/ (j = k /\ m = n)
  <2>1. m \in Nat /\ n \in Nat
    BY <1>2, Types
  <2>2. m < n + 1 <=> m < n \/ m = n
    BY <2>1
  <2>3. QED
    BY <1>1, <1>2, <2>2 DEF FixupPassed
<1>8. FixupsPassed'
  <2> SUFFICES ASSUME NEW j \in 1 .. Len(files), NEW m \in 1 .. Len(files[j].fixups),
                      FixupPassed(j, m)', files[j].fixups[m] = "flash"
               PROVE  fixed'[j][m] = 1
    BY <1>1 DEF FixupsPassed
  <2>1. CASE j = k /\ m = n
    BY <1>1, <1>3, <2>1
  <2>2. CASE ~(j = k /\ m = n)
    BY <1>1, <1>3, <1>7, <2>2 DEF PInv, FixupsPassed, NotStopped
  <2>3. QED
    BY <2>1, <2>2
<1>9. StopsAhead'
  <2> SUFFICES ASSUME left = 1
               PROVE  \E j \in 1 .. Len(files) : \E m \in 1 .. Len(files[j].fixups) :
                        fixed'[j][m] > 0 /\ ~FixupPassed(j, m)'
    BY <1>1 DEF StopsAhead
  <2>1. PICK j \in 1 .. Len(files) : \E m \in 1 .. Len(files[j].fixups) :
               fixed[j][m] > 0 /\ ~FixupPassed(j, m)
    BY <1>1 DEF PInv, StopsAhead, NotStopped
  <2>2. PICK m \in 1 .. Len(files[j].fixups) : fixed[j][m] > 0 /\ ~FixupPassed(j, m)
    BY <2>1
  <2>3. ~(j = k /\ m = n)
    BY <1>1, <2>2
  <2>4. fixed'[j][m] > 0 /\ ~FixupPassed(j, m)'
    BY <1>3, <1>7, <2>2, <2>3
  <2>5. QED
    BY <2>4
<1>10. PltAfterFixups'
  <2> SUFFICES ASSUME NEW j \in 1 .. Len(files), NEW m \in 1 .. files[j].plt, plt[j][m] # 0,
                      NEW q \in 1 .. Len(files[j].fixups), files[j].fixups[q] = "flash"
               PROVE  fixed'[j][q] = 1
    BY <1>1 DEF PltAfterFixups
  <2>1. fixed[j][q] = 1
    BY DEF PInv, PltAfterFixups
  <2>2. QED
    BY <1>3, <2>1
<1>11. PltCounts'
  <2> SUFFICES ASSUME NEW j \in 1 .. Len(files), NEW m \in 1 .. files[j].plt
               PROVE  PltOf(j, m)'
    BY <1>1 DEF PltCounts
  <2>1. PltPassed(j, m)' <=> PltPassed(j, m)
    BY <1>1 DEF PltPassed
  <2>2. PltOf(j, m)
    BY DEF PInv, PltCounts
  <2>3. QED
    BY <1>1, <2>1, <2>2 DEF PltOf, NotStopped, Multiple, FlashFree
<1>12. CrcsWritten'
  <2>1. \A j \in 1 .. Len(files) : j < k => j # k
    BY <1>2
  <2>2. \A j \in 1 .. Len(files) : j < k => fixed'[j] = fixed[j]
    BY <1>1, <1>2, <2>1
  <2>3. QED
    BY <1>1, <2>2 DEF PInv, CrcsWritten, Contents, NotStopped
<1>13. QED
  BY <1>4, <1>5, <1>6, <1>8, <1>9, <1>10, <1>11, <1>12 DEF PInv

(* A pointer that is left to the loader. *)
LEMMA SkipStep ==
    ASSUME PInv, SkipFixup
    PROVE  PInv'
<1> DEFINE len == Len(files[k].fixups)
<1>1. /\ files' = files /\ k' = k /\ n' = n + 1 /\ skip' = "yes" /\ runs' = runs
      /\ left' = left /\ fixed' = fixed /\ plt' = plt /\ crc' = crc /\ tableCrc' = tableCrc
      /\ pc = "fixups" /\ pc' = "fixups" /\ n <= len
      /\ files[k].fixups[n] = "mem" \/ (files[k].fixups[n] = "bss" /\ skip = "yes")
  BY DEF SkipFixup, AtFixup, Target, HasSection, RaisesOnMiss, image
<1>2. TypeOK /\ Position /\ k \in 1 .. Len(files) /\ len \in Nat /\ n \in 1 .. len
  <2>1. TypeOK /\ Position /\ k \in 1 .. Len(files)
    BY <1>1 DEF PInv, Position
  <2>2. len \in Nat /\ n \in Nat /\ n > 0
    BY <2>1, Types
  <2>3. QED
    BY <1>1, <2>1, <2>2
<1>3. TypeOK' /\ PointersOnce'
  BY <1>1, <1>2 DEF PInv, TypeOK, PointersOnce
<1>4. Position'
  BY <1>1, <1>2 DEF Position
<1>5. ASSUME NEW j \in 1 .. Len(files), NEW m \in 1 .. Len(files[j].fixups)
      PROVE  FixupPassed(j, m)' <=> FixupPassed(j, m) \/ (j = k /\ m = n)
  <2>1. m \in Nat /\ n \in Nat
    BY <1>2, Types
  <2>2. m < n + 1 <=> m < n \/ m = n
    BY <2>1
  <2>3. QED
    BY <1>1, <1>2, <2>2 DEF FixupPassed
<1>6. FixupsPassed'
  <2> SUFFICES ASSUME NEW j \in 1 .. Len(files), NEW m \in 1 .. Len(files[j].fixups),
                      FixupPassed(j, m)', files[j].fixups[m] = "flash"
               PROVE  fixed[j][m] = 1
    BY <1>1 DEF FixupsPassed
  <2>1. CASE j = k /\ m = n
    BY <1>1, <2>1
  <2>2. CASE ~(j = k /\ m = n)
    BY <1>1, <1>5, <2>2 DEF PInv, FixupsPassed, NotStopped
  <2>3. QED
    BY <2>1, <2>2
<1>7. StopsAhead'
  <2> SUFFICES ASSUME left = 1
               PROVE  \E j \in 1 .. Len(files) : \E m \in 1 .. Len(files[j].fixups) :
                        fixed[j][m] > 0 /\ ~FixupPassed(j, m)'
    BY <1>1 DEF StopsAhead
  <2>1. PICK j \in 1 .. Len(files) : \E m \in 1 .. Len(files[j].fixups) :
               fixed[j][m] > 0 /\ ~FixupPassed(j, m)
    BY <1>1 DEF PInv, StopsAhead, NotStopped
  <2>2. PICK m \in 1 .. Len(files[j].fixups) : fixed[j][m] > 0 /\ ~FixupPassed(j, m)
    BY <2>1
  <2>3. fixed[k][n] <= 0 /\ fixed[k][n] \in Nat
    <3>1. n \in DOMAIN fixed[k] /\ fixed[k][n] \in Nat
      BY <1>2, Types
    <3>2. QED
      BY <1>1, <1>2, <3>1 DEF PInv, PointersOnce
  <2>4. ~(j = k /\ m = n)
    BY <2>2, <2>3
  <2>5. QED
    BY <1>5, <2>2, <2>4
<1>8. PltAfterFixups' /\ CrcsWritten'
  BY <1>1 DEF PInv, PltAfterFixups, CrcsWritten, Contents, NotStopped
<1>9. PltCounts'
  <2> SUFFICES ASSUME NEW j \in 1 .. Len(files), NEW m \in 1 .. files[j].plt
               PROVE  PltOf(j, m)'
    BY <1>1 DEF PltCounts
  <2>1. PltPassed(j, m)' <=> PltPassed(j, m)
    BY <1>1 DEF PltPassed
  <2>2. PltOf(j, m)
    BY DEF PInv, PltCounts
  <2>3. QED
    BY <1>1, <2>1, <2>2 DEF PltOf, NotStopped, Multiple, FlashFree
<1>10. QED
  BY <1>3, <1>4, <1>6, <1>7, <1>8, <1>9 DEF PInv

(* All pointers of the file are behind the script when it turns to .plt. *)
LEMMA FixupsDoneStep ==
    ASSUME PInv, FixupsDone
    PROVE  PInv'
<1>1. /\ files' = files /\ k' = k /\ n' = 1 /\ skip' = skip /\ runs' = runs
      /\ left' = left /\ fixed' = fixed /\ plt' = plt /\ crc' = crc /\ tableCrc' = tableCrc
      /\ pc = "fixups" /\ pc' = "plt" /\ n > Len(files[k].fixups)
  BY DEF FixupsDone, image
<1>2. TypeOK /\ Position /\ k \in 1 .. Len(files) /\ Len(files[k].fixups) \in Nat /\ n \in Nat
  <2>1. TypeOK /\ Position /\ k \in 1 .. Len(files)
    BY <1>1 DEF PInv, Position
  <2>2. QED
    BY <2>1, Types
<1>3. TypeOK' /\ PointersOnce' /\ Position'
  BY <1>1, <1>2 DEF PInv, TypeOK, PointersOnce, Position
<1>4. ASSUME NEW j \in 1 .. Len(files), NEW m \in 1 .. Len(files[j].fixups)
      PROVE  FixupPassed(j, m)' <=> FixupPassed(j, m)
  <2>1. j = k => m < n
    BY <1>1, <1>2
  <2>2. QED
    BY <1>1, <2>1 DEF FixupPassed
<1>5. FixupsPassed' /\ StopsAhead'
  BY <1>1, <1>4 DEF PInv, FixupsPassed, StopsAhead, NotStopped
<1>6. PltAfterFixups' /\ CrcsWritten'
  BY <1>1 DEF PInv, PltAfterFixups, CrcsWritten, Contents, NotStopped
<1>7. PltCounts'
  <2> SUFFICES ASSUME NEW j \in 1 .. Len(files), NEW m \in 1 .. files[j].plt
               PROVE  PltOf(j, m)'
    BY <1>1 DEF PltCounts
  <2>1. m > 0 /\ m \in Nat
    BY <1>2, Types
  <2>2. PltPassed(j, m)' <=> PltPassed(j, m)
    BY <1>1, <2>1 DEF PltPassed
  <2>3. PltOf(j, m)
    BY DEF PInv, PltCounts
  <2>4. QED
    BY <1>1, <2>2, <2>3 DEF PltOf, NotStopped, Multiple, FlashFree
<1>8. QED
  BY <1>3, <1>5, <1>6, <1>7 DEF PInv

(* An offset in .plt is adjusted: the first time, or once more in this run. *)
LEMMA PatchPltStep ==
    ASSUME PInv, PatchPlt
    PROVE  PInv'
<1> DEFINE got == files[k].got
<1>1. /\ files' = files /\ k' = k /\ n' = n + 1 /\ skip' = skip /\ runs' = runs
      /\ left' = left /\ fixed' = fixed /\ crc' = crc /\ tableCrc' = tableCrc
      /\ pc = "plt" /\ pc' = "plt" /\ n <= files[k].plt
      /\ PicregOffset(files[k]) \notin {0, Bad}
      /\ plt' = [plt EXCEPT ![k] = [plt[k] EXCEPT ![n] = plt[k][n] + PicregOffset(files[k])]]
  BY DEF PatchPlt
<1>2. /\ TypeOK /\ Position /\ k \in 1 .. Len(files) /\ files[k].plt \in Nat
      /\ n \in 1 .. files[k].plt /\ DOMAIN plt = 1 .. Len(files)
      /\ runs \in Nat /\ runs > 0
  <2>1. TypeOK /\ Position /\ k \in 1 .. Len(files)
    BY <1>1 DEF PInv, Position
  <2>2. files[k].plt \in Nat /\ n \in Nat /\ n > 0 /\ runs \in Nat /\ runs > 0
    BY <2>1, Types
  <2>3. QED
    BY <1>1, <2>1, <2>2 DEF TypeOK
<1>3. PicregOffset(files[k]) = got /\ got \in Nat
  <2>1. PicregOffset(files[k]) = got
    BY <1>1 DEF PicregOffset
  <2>2. files[k] \in File
    BY <1>2, Types
  <2>3. got \in Nat \cup {Bad}
    BY <2>2 DEF File
  <2>4. QED
    BY <1>1, <2>1, <2>3
<1>4. ASSUME NEW j \in 1 .. Len(files)
      PROVE  \A m \in 1 .. files[j].plt :
                  plt'[j][m] = IF j = k /\ m = n THEN plt[j][m] + got ELSE plt[j][m]
  BY <1>1, <1>2, <1>3, Types
<1>5. TypeOK'
  <2>1. plt'[k] \in [1 .. files[k].plt -> Nat]
    <3>1. plt[k] \in [1 .. files[k].plt -> Nat]
      BY <1>2 DEF TypeOK
    <3>2. plt'[k] = [plt[k] EXCEPT ![n] = plt[k][n] + got]
      BY <1>1, <1>2, <1>3
    <3>3. QED
      BY <1>2, <1>3, <3>1, <3>2
  <2>2. \A j \in 1 .. Len(files) : j # k => plt'[j] = plt[j]
    BY <1>1, <1>2
  <2>3. DOMAIN plt' = 1 .. Len(files)
    BY <1>1, <1>2
  <2>4. QED
    BY <1>1, <1>2, <2>1, <2>2, <2>3 DEF TypeOK
<1>6. PointersOnce' /\ Position'
  BY <1>1 DEF PInv, PointersOnce, Position
<1>7. \A j, m : FixupPassed(j, m)' <=> FixupPassed(j, m)
  BY <1>1 DEF FixupPassed
<1>8. FixupsPassed' /\ StopsAhead'
  BY <1>1, <1>7 DEF PInv, FixupsPassed, StopsAhead, NotStopped
<1>9. PltAfterFixups'
  <2> SUFFICES ASSUME NEW j \in 1 .. Len(files), NEW m \in 1 .. files[j].plt, plt'[j][m] # 0,
                      NEW q \in 1 .. Len(files[j].fixups), files[j].fixups[q] = "flash"
               PROVE  fixed[j][q] = 1
    BY <1>1 DEF PltAfterFixups
  <2>1. CASE j = k
    <3>1. FixupPassed(j, q) /\ NotStopped
      BY <1>1, <2>1 DEF FixupPassed, NotStopped
    <3>2. QED
      BY <3>1 DEF PInv, FixupsPassed
  <2>2. CASE j # k
    BY <1>4, <2>2 DEF PInv, PltAfterFixups
  <2>3. QED
    BY <2>1, <2>2
<1>10. ASSUME NEW j \in 1 .. Len(files), NEW m \in 1 .. files[j].plt
       PROVE  PltPassed(j, m)' <=> PltPassed(j, m) \/ (j = k /\ m = n)
  <2>1. m \in Nat /\ n \in Nat
    BY <1>2, Types
  <2>2. m < n + 1 <=> m < n \/ m = n
    BY <2>1
  <2>3. QED
    BY <1>1, <2>2 DEF PltPassed
<1>11. \/ plt[k][n] + got = got
       \/ /\ runs > 1 /\ (FlashFree(k) \/ left = 1)
          /\ Multiple(plt[k][n] + got, runs, got)
  <2>1. PltOf(k, n)
    BY <1>2 DEF PInv, PltCounts
  <2>2. NotStopped /\ ~PltPassed(k, n)
    BY <1>1, <1>2 DEF NotStopped, PltPassed
  <2>3. CASE plt[k][n] = 0
    BY <1>3, <2>3
  <2>4. CASE (FlashFree(k) \/ left = 1) /\ Multiple(plt[k][n], runs - 1, got)
    <3>1. PICK r \in 1 .. runs - 1 : plt[k][n] = r * got
      BY <2>4 DEF Multiple
    <3>2. r \in Nat /\ r + 1 \in 1 .. runs /\ runs > 1
      BY <1>2
    <3>3. \A a, b \in Nat : a * b + b = (a + 1) * b
      OBVIOUS
    <3>4. plt[k][n] + got = (r + 1) * got
      BY <1>3, <3>1, <3>2, <3>3
    <3>5. Multiple(plt[k][n] + got, runs, got)
      BY <3>2, <3>4 DEF Multiple
    <3>6. QED
      BY <2>4, <3>2, <3>5
  <2>5. QED
    BY <2>1, <2>2, <2>3, <2>4 DEF PltOf
<1>12. PltCounts'
  <2> SUFFICES ASSUME NEW j \in 1 .. Len(files), NEW m \in 1 .. files[j].plt
               PROVE  PltOf(j, m)'
    BY <1>1 DEF PltCounts
  <2>1. CASE j = k /\ m = n
    <3>1. PltPassed(j, m)' /\ plt'[j][m] = plt[k][n] + got
      BY <1>4, <1>10, <2>1
    <3>2. QED
      BY <1>1, <1>11, <2>1, <3>1 DEF PltOf, NotStopped, Multiple, FlashFree
  <2>2. CASE ~(j = k /\ m = n)
    <3>1. plt'[j][m] = plt[j][m] /\ (PltPassed(j, m)' <=> PltPassed(j, m))
      BY <1>4, <1>10, <2>2
    <3>2. PltOf(j, m)
      BY DEF PInv, PltCounts
    <3>3. QED
      BY <1>1, <3>1, <3>2 DEF PltOf, NotStopped, Multiple, FlashFree
  <2>3. QED
    BY <2>1, <2>2
<1>13. CrcsWritten'
  <2>1. \A j \in 1 .. Len(files) : j < k => j # k
    BY <1>2
  <2>2. \A j \in 1 .. Len(files) : j < k => plt'[j] = plt[j]
    BY <1>1, <1>2, <2>1
  <2>3. QED
    BY <1>1, <2>2 DEF PInv, CrcsWritten, Contents, NotStopped
<1>14. QED
  BY <1>5, <1>6, <1>8, <1>9, <1>12, <1>13 DEF PInv

(* The CRC of a file covers what the script has made of it. *)
LEMMA WriteCrcStep ==
    ASSUME PInv, WriteCrc
    PROVE  PInv'
<1>1. /\ files' = files /\ k' = k + 1 /\ n' = n /\ skip' = skip /\ runs' = runs
      /\ left' = left /\ fixed' = fixed /\ plt' = plt /\ tableCrc' = tableCrc
      /\ pc = "plt" /\ pc' = "open"
      /\ PicregOffset(files[k]) = 0 \/ n > files[k].plt
      /\ crc' = [crc EXCEPT ![k] = Contents(k)]
  BY DEF WriteCrc
<1>2. /\ TypeOK /\ Position /\ k \in 1 .. Len(files) /\ DOMAIN crc = 1 .. Len(files)
      /\ n \in Nat /\ Len(files) \in Nat /\ runs \in Nat
  <2>1. TypeOK /\ Position /\ k \in 1 .. Len(files)
    BY <1>1 DEF PInv, Position
  <2>2. QED
    BY <2>1, Types DEF TypeOK
<1>3. TypeOK'
  <2>1. DOMAIN crc' = 1 .. Len(files) /\ k + 1 \in 1 .. Len(files) + 1
    BY <1>1, <1>2
  <2>2. QED
    BY <1>1, <1>2, <2>1 DEF TypeOK
<1>4. PointersOnce' /\ PltAfterFixups'
  BY <1>1 DEF PInv, PointersOnce, PltAfterFixups
<1>5. Position'
  BY <1>1, <1>2 DEF Position
<1>6. \A j \in 1 .. Len(files) : j < k + 1 <=> j < k \/ j = k
  BY <1>2
<1>7. \A j \in 1 .. Len(files) : \A m : FixupPassed(j, m)' <=> FixupPassed(j, m)
  BY <1>1, <1>6 DEF FixupPassed
<1>8. FixupsPassed' /\ StopsAhead'
  BY <1>1, <1>7 DEF PInv, FixupsPassed, StopsAhead, NotStopped
<1>9. PltCounts'
  <2> SUFFICES ASSUME NEW j \in 1 .. Len(files), NEW m \in 1 .. files[j].plt
               PROVE  PltOf(j, m)'
    BY <1>1 DEF PltCounts
  <2>1. PltPassed(j, m)' <=> j < k \/ j = k
    BY <1>1, <1>6 DEF PltPassed
  <2>2. PltOf(j, m) /\ NotStopped
    BY <1>1 DEF PInv, PltCounts, NotStopped
  <2>3. /\ files[j].got \in Int /\ plt[j][m] \in Nat /\ files[j].plt \in Nat
        /\ m \in Nat /\ m > 0 /\ m <= files[j].plt
    BY <1>2, Types
  <2>4. CASE PltPassed(j, m) \/ ~PltPassed(j, m)'
    <3>1. PltPassed(j, m)' <=> PltPassed(j, m)
      BY <2>1, <2>4 DEF PltPassed
    <3>2. QED
      BY <1>1, <2>2, <3>1 DEF PltOf, NotStopped, Multiple, FlashFree
  <2>5. CASE ~PltPassed(j, m) /\ PltPassed(j, m)'
    <3>1. j = k /\ ~(m < n)
      BY <1>1, <2>1, <2>5 DEF PltPassed
    <3>2. ~(n > files[k].plt)
      BY <1>2, <2>3, <3>1
    <3>3. files[j].got = 0
      BY <1>1, <2>3, <3>1, <3>2 DEF PicregOffset
    <3>4. plt[j][m] = 0
      <4>1. CASE plt[j][m] = 0
        BY <4>1
      <4>2. CASE Multiple(plt[j][m], runs - 1, files[j].got)
        BY <1>2, <3>3, <4>2 DEF Multiple
      <4>3. QED
        BY <2>2, <2>5, <4>1, <4>2 DEF PltOf
    <3>5. QED
      BY <1>1, <2>5, <3>3, <3>4 DEF PltOf, NotStopped
  <2>6. QED
    BY <2>4, <2>5
<1>10. CrcsWritten'
  <2> SUFFICES ASSUME NEW j \in 1 .. Len(files), j < k \/ j = k
               PROVE  crc'[j] = Contents(j)
    BY <1>1, <1>6 DEF CrcsWritten, Contents
  <2>1. CASE j = k
    BY <1>1, <1>2, <2>1
  <2>2. CASE j # k
    BY <1>1, <1>2, <2>2 DEF PInv, CrcsWritten, NotStopped
  <2>3. QED
    BY <2>1, <2>2
<1>11. QED
  BY <1>3, <1>4, <1>5, <1>8, <1>9, <1>10 DEF PInv

(* The CRC of the table comes after those of all the files. *)
LEMMA WriteFstCrcStep ==
    ASSUME PInv, WriteFstCrc
    PROVE  PInv'
<1>1. /\ files' = files /\ k' = k /\ n' = n /\ skip' = skip /\ runs' = runs
      /\ left' = left /\ fixed' = fixed /\ plt' = plt /\ crc' = crc /\ tableCrc' = crc
      /\ pc = "open" /\ pc' = "done" /\ k > Len(files)
  BY DEF WriteFstCrc
<1>2. TypeOK' /\ PointersOnce' /\ PltAfterFixups'
  BY <1>1 DEF PInv, TypeOK, PointersOnce, PltAfterFixups
<1>3. Position'
  <2>1. k \in 1 .. Len(files) + 1 /\ Len(files) \in Nat
    BY Types DEF PInv, TypeOK
  <2>2. k = Len(files) + 1
    BY <1>1, <2>1
  <2>3. QED
    BY <1>1, <2>2 DEF PInv, Position
<1>4. \A j, m : /\ FixupPassed(j, m)' <=> FixupPassed(j, m)
                /\ PltPassed(j, m)' <=> PltPassed(j, m)
  BY <1>1 DEF FixupPassed, PltPassed
<1>5. FixupsPassed' /\ StopsAhead'
  BY <1>1, <1>4 DEF PInv, FixupsPassed, StopsAhead, NotStopped
<1>6. CrcsWritten'
  BY <1>1 DEF PInv, CrcsWritten, Contents, NotStopped
<1>7. PltCounts'
  <2> SUFFICES ASSUME NEW j \in 1 .. Len(files), NEW m \in 1 .. files[j].plt
               PROVE  PltOf(j, m)'
    BY <1>1 DEF PltCounts
  <2>1. PltOf(j, m)
    BY DEF PInv, PltCounts
  <2>2. QED
    BY <1>1, <1>4, <2>1 DEF PltOf, NotStopped, Multiple, FlashFree
<1>8. QED
  BY <1>2, <1>3, <1>5, <1>6, <1>7 DEF PInv

(* A new run has nothing behind it; if an earlier one adjusted the offsets of a
   file, the file has no pointer to flash or the run will stop at one. *)
LEMMA MakeAgainStep ==
    ASSUME PInv, MakeAgain
    PROVE  PInv'
<1>1. /\ files' = files /\ k' = 1 /\ n' = 1 /\ skip' = "unbound" /\ runs' = runs + 1
      /\ left' = Adjusted /\ fixed' = fixed /\ plt' = plt /\ crc' = crc /\ tableCrc' = tableCrc
      /\ pc = "stopped" /\ pc' = "open" /\ runs < MaxRuns
  BY DEF MakeAgain, image
<1>2. TypeOK /\ Position
  BY DEF PInv
<1>3. /\ Adjusted \in {0, 1}
      /\ Adjusted = 1 <=> \E j \in 1 .. Len(files) : \E m \in 1 .. Len(files[j].fixups) :
                            fixed[j][m] > 0
  <2> DEFINE all == UNION {{j} \X DOMAIN fixed[j] : j \in 1 .. Len(files)}
             ones == {p \in all : fixed[p[1]][p[2]] > 0}
  <2>1. Adjusted = IF ones = {} THEN 0 ELSE 1
    BY DEF Adjusted
  <2>2. \A j \in 1 .. Len(files) : DOMAIN fixed[j] = 1 .. Len(files[j].fixups)
    BY <1>2, Types
  <2>3. ASSUME NEW j \in 1 .. Len(files), NEW m \in 1 .. Len(files[j].fixups), fixed[j][m] > 0
        PROVE  <<j, m>> \in ones
    BY <2>2, <2>3
  <2>4. ASSUME NEW p \in ones
        PROVE  \E j \in 1 .. Len(files) : \E m \in 1 .. Len(files[j].fixups) : fixed[j][m] > 0
    <3>1. PICK j \in 1 .. Len(files) : p \in {j} \X DOMAIN fixed[j]
      OBVIOUS
    <3>2. p[1] = j /\ p[2] \in 1 .. Len(files[j].fixups) /\ fixed[p[1]][p[2]] > 0
      BY <2>2, <3>1
    <3>3. QED
      BY <3>2
  <2>5. ones # {} <=> \E j \in 1 .. Len(files) : \E m \in 1 .. Len(files[j].fixups) :
                        fixed[j][m] > 0
    <3> HIDE DEF ones
    <3>1. QED
      BY <2>3, <2>4
  <2>6. QED
    <3> HIDE DEF ones
    <3>1. QED
      BY <2>1, <2>5
<1>4. TypeOK'
  <2>1. runs + 1 \in 1 .. MaxRuns /\ 1 \in 1 .. Len(files) + 1
    BY <1>1, <1>2, RunsAssumption, Types
  <2>2. QED
    BY <1>1, <1>2, <1>3, <2>1 DEF TypeOK
<1>5. PointersOnce' /\ PltAfterFixups' /\ Position'
  BY <1>1 DEF PInv, PointersOnce, PltAfterFixups, Position
<1>6. \A j \in 1 .. Len(files) : \A m : ~FixupPassed(j, m)' /\ ~PltPassed(j, m)'
  BY <1>1 DEF FixupPassed, PltPassed
<1>7. FixupsPassed' /\ StopsAhead'
  BY <1>1, <1>3, <1>6 DEF FixupsPassed, StopsAhead
<1>8. CrcsWritten'
  BY <1>1 DEF CrcsWritten
<1>9. ASSUME NEW j \in 1 .. Len(files), NEW m \in 1 .. files[j].plt, plt[j][m] # 0
      PROVE  /\ FlashFree(j) \/ Adjusted = 1
             /\ Multiple(plt[j][m], (runs + 1) - 1, files[j].got)
  <2>1. Multiple(plt[j][m], (runs + 1) - 1, files[j].got)
    <3>1. (runs + 1) - 1 = runs
      BY <1>2, Types
    <3>2. QED
      BY <1>1, <1>9, <3>1 DEF PInv, PltCounts, PltOf
  <2>2. ASSUME ~FlashFree(j)
        PROVE  Adjusted = 1
    <3>1. DOMAIN files[j].fixups = 1 .. Len(files[j].fixups)
      BY <1>2, Types
    <3>2. PICK q \in 1 .. Len(files[j].fixups) : files[j].fixups[q] = "flash"
      BY <2>2, <3>1 DEF FlashFree
    <3>3. fixed[j][q] = 1
      BY <1>9, <3>2 DEF PInv, PltAfterFixups
    <3>4. fixed[j][q] > 0
      BY <3>3
    <3>5. QED
      BY <1>3, <3>4
  <2>3. QED
    BY <2>1, <2>2
<1>10. PltCounts'
  <2> SUFFICES ASSUME NEW j \in 1 .. Len(files), NEW m \in 1 .. files[j].plt
               PROVE  PltOf(j, m)'
    BY <1>1 DEF PltCounts
  <2>1. ~PltPassed(j, m)' /\ (FlashFree(j)' <=> FlashFree(j))
    BY <1>1, <1>6 DEF FlashFree
  <2>2. QED
    BY <1>1, <1>9, <2>1 DEF PltOf, Multiple
<1>11. QED
  BY <1>4, <1>5, <1>7, <1>8, <1>10 DEF PInv

(* PInv is inductive. *)
LEMMA NextPInv == PInv /\ [Next]_vars => PInv'
<1> SUFFICES ASSUME PInv, [Next]_vars PROVE PInv'
  OBVIOUS
<1>1. CASE NotFound \/ FixupRaises \/ PltRaises \/ Interrupt
  <2>1. /\ pc \in {"open", "fixups", "plt"} /\ pc' = "stopped"
        /\ UNCHANGED <<files, k, n, skip, runs, left, image>>
    BY <1>1 DEF NotFound, FixupRaises, PltRaises, Interrupt, AtFixup
  <2>2. QED
    BY <2>1, StopStep
<1>2. CASE OpenElf
  BY <1>2, OpenStep
<1>3. CASE ApplyFixup
  BY <1>3, ApplyStep
<1>4. CASE SkipFixup
  BY <1>4, SkipStep
<1>5. CASE FixupsDone
  BY <1>5, FixupsDoneStep
<1>6. CASE PatchPlt
  BY <1>6, PatchPltStep
<1>7. CASE WriteCrc
  BY <1>7, WriteCrcStep
<1>8. CASE WriteFstCrc
  BY <1>8, WriteFstCrcStep
<1>9. CASE MakeAgain
  BY <1>9, MakeAgainStep
<1>10. CASE UNCHANGED vars
  <2>1. /\ files' = files /\ k' = k /\ n' = n /\ skip' = skip /\ runs' = runs /\ pc' = pc
        /\ left' = left /\ fixed' = fixed /\ plt' = plt /\ crc' = crc /\ tableCrc' = tableCrc
    BY <1>10 DEF vars
  <2>2. TypeOK' /\ PointersOnce' /\ Position' /\ PltAfterFixups'
    BY <2>1 DEF PInv, TypeOK, PointersOnce, Position, PltAfterFixups
  <2>3. FixupsPassed' /\ StopsAhead' /\ CrcsWritten'
    BY <2>1 DEF PInv, FixupsPassed, StopsAhead, CrcsWritten, Contents, NotStopped, FixupPassed
  <2>4. PltCounts'
    BY <2>1 DEF PInv, PltCounts, PltOf, NotStopped, PltPassed, FlashFree, Multiple
  <2>5. QED
    BY <2>2, <2>3, <2>4 DEF PInv
<1>11. QED
  BY <1>1, <1>2, <1>3, <1>4, <1>5, <1>6, <1>7, <1>8, <1>9, <1>10 DEF Next

(* The image as it was linked: nothing is adjusted. *)
LEMMA InitPInv == Init => PInv
<1> SUFFICES ASSUME Init PROVE PInv
  OBVIOUS
<1>1. /\ files \in Seq(File) /\ pc = "open" /\ k = 1 /\ n = 1 /\ skip = "unbound"
      /\ runs = 1 /\ left = 0
      /\ fixed = [j \in 1 .. Len(files) |-> [m \in 1 .. Len(files[j].fixups) |-> 0]]
      /\ plt = [j \in 1 .. Len(files) |-> [m \in 1 .. files[j].plt |-> 0]]
      /\ DOMAIN crc = 1 .. Len(files)
  BY TablesAssumption DEF Init, Zeroes
<1>2. ASSUME NEW j \in 1 .. Len(files)
      PROVE  /\ fixed[j] = [m \in 1 .. Len(files[j].fixups) |-> 0]
             /\ plt[j] = [m \in 1 .. files[j].plt |-> 0]
  BY <1>1
<1>3. TypeOK
  <2>1. 1 \in 1 .. MaxRuns /\ 1 \in 1 .. Len(files) + 1
    BY <1>1, RunsAssumption
  <2>2. ASSUME NEW j \in 1 .. Len(files)
        PROVE  /\ fixed[j] \in [1 .. Len(files[j].fixups) -> Nat]
               /\ plt[j] \in [1 .. files[j].plt -> Nat]
    <3>1. [m \in 1 .. Len(files[j].fixups) |-> 0] \in [1 .. Len(files[j].fixups) -> Nat]
      OBVIOUS
    <3>2. [m \in 1 .. files[j].plt |-> 0] \in [1 .. files[j].plt -> Nat]
      OBVIOUS
    <3>3. QED
      BY <1>2, <3>1, <3>2, Zenon
  <2>3. QED
    BY <1>1, <2>1, <2>2 DEF TypeOK
<1>4. PointersOnce /\ PltAfterFixups
  <2>1. ASSUME NEW j \in 1 .. Len(files)
        PROVE  /\ \A m \in DOMAIN fixed[j] : fixed[j][m] = 0
               /\ \A m \in 1 .. files[j].plt : plt[j][m] = 0
    <3>1. fixed[j] = [m \in 1 .. Len(files[j].fixups) |-> 0]
      BY <1>2
    <3>2. plt[j] = [m \in 1 .. files[j].plt |-> 0]
      BY <1>2
    <3>3. QED
      BY <3>1, <3>2
  <2>2. QED
    BY <2>1 DEF PointersOnce, PltAfterFixups
<1>5. Position /\ StopsAhead
  BY <1>1 DEF Position, StopsAhead
<1>6. \A j \in 1 .. Len(files) : \A m : ~FixupPassed(j, m) /\ ~PltPassed(j, m) /\ ~(j < k)
  BY <1>1 DEF FixupPassed, PltPassed
<1>7. FixupsPassed /\ CrcsWritten
  BY <1>1, <1>6 DEF FixupsPassed, CrcsWritten
<1>8. PltCounts
  BY <1>1, <1>2, <1>6 DEF PltCounts, PltOf
<1>9. QED
  BY <1>3, <1>4, <1>5, <1>7, <1>8 DEF PInv

(* The inductive invariant of the script, stopped and run again or not. *)
THEOREM PInvAlways == Spec => []PInv
  BY InitPInv, NextPInv, PTL DEF Spec

(* At the end of a run every pointer and every .plt entry is behind it. *)
LEMMA AllPassed ==
    ASSUME PInv, pc = "done"
    PROVE  /\ NotStopped
           /\ \A j \in 1 .. Len(files) : \A m : FixupPassed(j, m) /\ PltPassed(j, m)
           /\ \A j \in 1 .. Len(files) : j < k
           /\ left # 1
<1>1. k = Len(files) + 1 /\ Len(files) \in Nat
  BY Types DEF PInv, Position
<1>2. \A j \in 1 .. Len(files) : j < k
  BY <1>1
<1>3. \A j \in 1 .. Len(files) : \A m : FixupPassed(j, m) /\ PltPassed(j, m)
  BY <1>2 DEF FixupPassed, PltPassed
<1>4. NotStopped
  BY DEF NotStopped
<1>5. left # 1
  BY <1>3, <1>4 DEF PInv, StopsAhead
<1>6. QED
  BY <1>2, <1>3, <1>4, <1>5

(* No pointer is ever adjusted twice, and no run finishes over pointers that an
   earlier run left adjusted. *)
THEOREM RerunsAreSafe == Spec => []RerunInv
<1>1. PInv => RerunInv
  BY AllPassed DEF PInv, RerunInv, NoResume
<1>2. QED
  BY <1>1, PInvAlways, PTL

(* A finished build has every pointer to flash adjusted once, and the offsets in
   .plt too, but for what repeated runs may add to files without such pointers. *)
THEOREM FinishedIsPatched == Spec => []PatchedOnce
<1>1. PInv => PatchedOnce
  <2> SUFFICES ASSUME PInv, pc = "done", NEW j \in 1 .. Len(files)
               PROVE  /\ \A m \in DOMAIN fixed[j] : files[j].fixups[m] = "flash" => fixed[j][m] = 1
                      /\ \A m \in DOMAIN plt[j] :
                           \/ plt[j][m] = files[j].got
                           \/ /\ runs > 1 /\ FlashFree(j)
                              /\ plt[j][m] \in {r * files[j].got : r \in 1 .. runs}
    BY DEF PatchedOnce
  <2>1. /\ DOMAIN fixed[j] = 1 .. Len(files[j].fixups) /\ DOMAIN plt[j] = 1 .. files[j].plt
    BY Types DEF PInv
  <2>2. \A m \in 1 .. Len(files[j].fixups) : files[j].fixups[m] = "flash" => fixed[j][m] = 1
    BY AllPassed DEF PInv, FixupsPassed
  <2>3. ASSUME NEW m \in 1 .. files[j].plt
        PROVE  \/ plt[j][m] = files[j].got
               \/ /\ runs > 1 /\ FlashFree(j)
                  /\ plt[j][m] \in {r * files[j].got : r \in 1 .. runs}
    <3>1. PltOf(j, m) /\ NotStopped /\ PltPassed(j, m) /\ left # 1
      BY AllPassed DEF PInv, PltCounts
    <3>2. QED
      BY <3>1 DEF PltOf, Multiple
  <2>4. QED
    BY <2>1, <2>2, <2>3
<1>2. QED
  BY <1>1, PInvAlways, PTL

(* The CRCs of a finished build are those of the image it leaves. *)
THEOREM FinishedCrcsMatch == Spec => []CrcsMatch
<1>1. PInv => CrcsMatch
  BY AllPassed DEF PInv, CrcsMatch, CrcsWritten, Contents
<1>2. QED
  BY <1>1, PInvAlways, PTL
=============================================================================
