-------------------------- MODULE IorErrorsProofs --------------------------
(***************************************************************************)
(* A check of IOR finds no error the storage has not made, for every       *)
(* number of ranks and all sound options: whatever rank wrote a block, in  *)
(* whichever phase, repetition or execution, it is there as far as it is   *)
(* read.                                                                   *)
(***************************************************************************)
EXTENDS IorFilesProofs

----------------------------------------------------------------------------
(***************************************************************************)
(* Options for which a check is to find what it expects.                   *)
(***************************************************************************)
Sound == \A o \in Options : SoundOption(o)

(***************************************************************************)
(* Whose block a rank accesses, and the time stamp of a repetition.        *)
(***************************************************************************)
AtName(r) ==
    /\ opt.reorder = "none" => rankOffset[r] = 0
    /\ Pos(r) = 23 => name[r] = TestFileName(r, rankOffset[r])
    /\ Pos(r) \in {4, 5, 15, 24, 25} => openFile[r] = TestFileName(r, rankOffset[r])
AtNameInv == \A r \in Ranks : AtName(r)

StampOK(r) ==
    /\ opt.signature => stamp[r] = 0
    /\ 1 < Pos(r) => \/ Round(0) = Round(r) + 1
                     \/ Round(0) = Round(r) /\ 1 < Pos(0) /\ stamp[r] = stamp[0]
StampInv == \A r \in Ranks : StampOK(r)

(***************************************************************************)
(* How much the ranks have accessed.                                       *)
(***************************************************************************)
Gathered(r) == \A s \in Ranks : Round(s) = Round(r) /\ Pos(r) <= Pos(s)

CountOK(r) ==
    /\ Pos(r) \in {3, 4, 13} /\ Gathered(r) => count[r] = 0
    /\ Pos(r) \in {5, 15} /\ iterations[r] # 0 => count[r] <= iterations[r]
    /\ Pos(r) = 5 /\ Exec.wearOut => \A s \in returned : count[r] <= count[s]
    /\ Pos(r) \in {3, 4, 5} =>
          \A s \in Ranks : Round(s) = Round(r) /\ 5 < Pos(s) =>
              s \in returned /\ results[s][rep[s]] = count[s]
CountInv == \A r \in Ranks : CountOK(r)

\* What a rank has written of its block, once it has.
Through(r) == 6 <= Pos(r) \/ pc[r] \in {"finish", "end"}
Written(r) ==
    IF Pos(r) \in 6 .. 11 THEN results[r][rep[r]]
    ELSE IF Exec.deadline THEN iterations[r] ELSE Transfers

WrittenOK(r) ==
    /\ Pos(r) \in 3 .. 11 => iterations[r] = 0
    /\ Through(r) => Written(r) \in 1 .. Transfers /\ (Exec.deadline \/ Written(r) = Transfers)
    /\ Exec.wearOut /\ Through(r) =>
          \A s \in Ranks : rep[s] = rep[r] /\ Through(s) => Written(s) = Written(r)
WrittenInv == Exec.write => \A r \in Ranks : WrittenOK(r)

(***************************************************************************)
(* What is in the files, as long as the storage spoils nothing.            *)
(***************************************************************************)
ThereInv == \A w \in Ranks : Pos(w) \in 4 .. 9 => FileOf(w, rep[w]) \in DOMAIN files

Sofar(w) == IF Pos(w) = 5 THEN count[w] ELSE Written(w)

DataOK(w) ==
    5 <= Pos(w) /\ FileOf(w, rep[w]) \in DOMAIN files =>
        \A k \in 1 .. Sofar(w) : files[FileOf(w, rep[w])][w][k] = stamp[w]
DataInv == ~spoilt /\ Exec.write => \A w \in Ranks : DataOK(w)

SignedInv ==
    ~spoilt /\ opt.signature =>
        \A n \in DOMAIN files : \A w \in Ranks, k \in Positions : files[n][w][k] \in {Hole, 0}

\* The first m transfers of the block of rank w in repetition c are there.
Whole(w, c, m) ==
    FileOf(w, c) \in DOMAIN files => \A k \in 1 .. m : files[FileOf(w, c)][w][k] # Hole

\* Whether rank w has done with the file of repetition c, and how much of
\* its block it has left there.
Over(w, c) == IF opt.multiFile THEN c < Round(w) ELSE pc[w] \in {"finish", "end"}
Kept(w) == IF Exec.deadline THEN iterations[w] ELSE Transfers

KeptInv ==
    ~spoilt /\ Exec.write /\ (Exec.deadline => opt.repetitions = 1) =>
        \A w \in Ranks, c \in Repetitions : Over(w, c) => Whole(w, c, Kept(w))

(***************************************************************************)
(* What earlier executions have left, as far as the status file tells.     *)
(***************************************************************************)
Writers == {m \in 1 .. execution - 1 : opt.executions[m].write}
CutBefore == \E m \in Writers : opt.executions[m].deadline
Told == \A m \in Writers : opt.executions[m].deadline => opt.executions[m].status
Left == IF CutBefore THEN status ELSE Transfers

LeftInv ==
    /\ CutBefore /\ Told => status # 0
    /\ ~spoilt /\ opt.keepFile /\ ~Exec.write /\ Told =>
          \A w \in Ranks, c \in Repetitions : Whole(w, c, Left)

\* The status file never says more than there is.
StatusInv ==
    Exec.status =>
      IF Exec.write
      THEN /\ 12 <= Pos(0) \/ pc[0] \in {"finish", "end"} => results[0][0] \in 1 .. iterations[0]
           /\ pc[0] = "end" => status \in 1 .. iterations[0]
      ELSE \A r \in Ranks : Pos(r) \in 22 .. 31 => iterations[r] = status

CleanInv == ~spoilt => \A r \in Ranks : ~errors[r] /\ ~errorFound[r]

----------------------------------------------------------------------------
(***************************************************************************)
(* From where to where each step takes its rank.                           *)
(***************************************************************************)
(* Before a phase. *)
LEMMA WaysBefore ==
    ASSUME TypeOK, TypeOK', ~opt.timeLimit, NEW r \in Ranks
    PROVE  /\ StartRep(r) => Pos(r) = 0 /\ Pos(r)' = IF r = 0 THEN 2 ELSE 1
           /\ StampKnown(r) => Pos(r) = 1 /\ Pos(r)' = 2
           /\ Skip(r) => \/ Pos(r) = 2 /\ Pos(r)' = 12 /\ ~Exec.write
                         \/ Pos(r) = 12 /\ Pos(r)' = 20 /\ ~Exec.checkWrite
                         \/ Pos(r) = 20 /\ Pos(r)' = 32 /\ ~Reads(Exec)
           /\ BeginWrite(r) => Pos(r) = 2 /\ Pos(r)' = 3 /\ Exec.write
           /\ BeginCheck(r) => Pos(r) = 12 /\ Pos(r)' = 13 /\ Exec.checkWrite
           /\ BeginRead(r) => /\ Pos(r) = 20 /\ Reads(Exec)
                              /\ Pos(r)' = IF Exec.status /\ r # 0 THEN 21 ELSE 22
           /\ StatusKnown(r) => Pos(r) = 21 /\ Pos(r)' = 22
           /\ Reorder(r) => Pos(r) = 22 /\ Pos(r)' = 23
<1>1. PlacesKnown /\ PlacesKnown'
  BY Places, NextPlaces
<1>2. StartRep(r) => Pos(r) = 0 /\ Pos(r)' = IF r = 0 THEN 2 ELSE 1
  BY <1>1, OthersAre DEF StartRep, PlacesKnown
<1>3. StampKnown(r) => Pos(r) = 1 /\ Pos(r)' = 2
  BY <1>1, OthersAre DEF StampKnown, PlacesKnown
<1>4. ASSUME Skip(r)
      PROVE  \/ Pos(r) = 2 /\ Pos(r)' = 12 /\ ~Exec.write
             \/ Pos(r) = 12 /\ Pos(r)' = 20 /\ ~Exec.checkWrite
             \/ Pos(r) = 20 /\ Pos(r)' = 32 /\ ~Reads(Exec)
  <2>1. pc[r] \in {"write", "check", "read"} /\ ~Wanted(pc[r])
    BY <1>4 DEF Skip
  <2>2. CASE pc[r] = "write"
    BY <1>1, <1>4, <2>1, <2>2, OthersAre DEF Skip, Wanted, PlacesKnown
  <2>3. CASE pc[r] = "check"
    BY <1>1, <1>4, <2>1, <2>3, OthersAre DEF Skip, Wanted, PlacesKnown
  <2>4. CASE pc[r] = "read"
    BY <1>1, <1>4, <2>1, <2>4, OthersAre DEF Skip, Wanted, PlacesKnown
  <2> QED
    BY <2>1, <2>2, <2>3, <2>4
<1>5. BeginWrite(r) => Pos(r) = 2 /\ Pos(r)' = 3 /\ Exec.write
  BY <1>1, OthersAre DEF BeginWrite, Takes, Wanted, PlacesKnown
<1>6. BeginCheck(r) => Pos(r) = 12 /\ Pos(r)' = 13 /\ Exec.checkWrite
  BY <1>1, OthersAre DEF BeginCheck, Takes, Wanted, PlacesKnown
<1>7. BeginRead(r) => /\ Pos(r) = 20 /\ Reads(Exec)
                      /\ Pos(r)' = IF Exec.status /\ r # 0 THEN 21 ELSE 22
  <2> SUFFICES ASSUME BeginRead(r)
               PROVE  /\ Pos(r) = 20 /\ Reads(Exec)
                      /\ Pos(r)' = IF Exec.status /\ r # 0 THEN 21 ELSE 22
    OBVIOUS
  <2>1. pc[r] = "read" /\ Reads(Exec)
    BY DEF BeginRead, Takes, Wanted
  <2>2. pc'[r] = IF Exec.status /\ r # 0 THEN "statusWait" ELSE "reorder"
    BY OthersAre DEF BeginRead
  <2> QED
    BY <1>1, <2>1, <2>2 DEF PlacesKnown
<1>8. StatusKnown(r) => Pos(r) = 21 /\ Pos(r)' = 22
  BY <1>1, OthersAre DEF StatusKnown, PlacesKnown
<1>9. Reorder(r) => Pos(r) = 22 /\ Pos(r)' = 23
  BY <1>1, OthersAre DEF Reorder, PlacesKnown
<1> QED
  BY <1>2, <1>3, <1>4, <1>5, <1>6, <1>7, <1>8, <1>9

(* Where a file is opened. *)
LEMMA WaysOpening ==
    ASSUME TypeOK, TypeOK', PlaceInv, NEW r \in Ranks
    PROVE  /\ Create(r) => /\ Pos(r) = 3 /\ Exec.write /\ access'[r] = "write"
                           /\ Pos(r)' = IF opt.barriers THEN 4 ELSE 5
           /\ OpenCheck(r) => /\ Pos(r) = 13 /\ Pos(r)' = 15 /\ access'[r] = "check"
                              /\ Exec.checkWrite
           /\ OpenRead(r) => /\ Pos(r) = 23 /\ Reads(Exec) /\ access'[r] = "read"
                             /\ Pos(r)' = IF opt.barriers THEN 24 ELSE 25
           /\ OpenDone(r) => \/ Pos(r) = 4 /\ Pos(r)' = 5 /\ Exec.write
                             \/ Pos(r) = 24 /\ Pos(r)' = 25 /\ Reads(Exec)
<1>1. PlacesKnown /\ PlacesKnown' /\ PlaceOK(r)
  BY Places, NextPlaces DEF PlaceInv
<1>2. ASSUME Create(r)
      PROVE  /\ Pos(r) = 3 /\ Exec.write /\ access'[r] = "write"
             /\ Pos(r)' = IF opt.barriers THEN 4 ELSE 5
  <2>1. /\ pc[r] = "writeWait" /\ access'[r] = "write"
        /\ pc'[r] = IF opt.barriers THEN "openWait" ELSE "access"
    BY <1>2, OpenedPlaces DEF Create
  <2> QED
    BY <1>1, <2>1 DEF PlacesKnown, PlaceOK
<1>3. ASSUME OpenCheck(r)
      PROVE  Pos(r) = 13 /\ Pos(r)' = 15 /\ access'[r] = "check" /\ Exec.checkWrite
  <2>1. pc[r] = "checkWait" /\ access'[r] = "check" /\ pc'[r] = "access"
    BY <1>3, OpenedPlaces DEF OpenCheck
  <2> QED
    BY <1>1, <2>1 DEF PlacesKnown, PlaceOK
<1>4. ASSUME OpenRead(r)
      PROVE  /\ Pos(r) = 23 /\ Reads(Exec) /\ access'[r] = "read"
             /\ Pos(r)' = IF opt.barriers THEN 24 ELSE 25
  <2>1. /\ pc[r] = "readWait" /\ access'[r] = "read"
        /\ pc'[r] = IF opt.barriers THEN "openWait" ELSE "access"
    BY <1>4, OpenedPlaces DEF OpenRead
  <2> QED
    BY <1>1, <2>1 DEF PlacesKnown, PlaceOK
<1>5. ASSUME OpenDone(r)
      PROVE  \/ Pos(r) = 4 /\ Pos(r)' = 5 /\ Exec.write
             \/ Pos(r) = 24 /\ Pos(r)' = 25 /\ Reads(Exec)
  <2>1. pc[r] = "openWait" /\ pc'[r] = "access" /\ access' = access
    BY <1>5, OthersAre DEF OpenDone, Passes, open
  <2>2. access[r] \in {"write", "read"}
    BY <1>1, <2>1 DEF PlacesKnown, PlaceOK
  <2>3. /\ access[r] = "write" => Exec.write
        /\ access[r] = "read" => Reads(Exec)
    BY <1>1, <2>1 DEF PlaceOK, Inner
  <2> QED
    BY <1>1, <2>1, <2>2, <2>3 DEF PlacesKnown
<1> QED
  BY <1>2, <1>3, <1>4, <1>5

(* Within the access of a file, what is accessed, and the place. *)
LEMMA WaysWithin ==
    ASSUME TypeOK, TypeOK', PlaceInv, NEW r \in Ranks, pc[r] = "access"
    PROVE  \/ access[r] = "write" /\ Pos(r) = 5 /\ Exec.write
           \/ access[r] = "check" /\ Pos(r) = 15 /\ Exec.checkWrite
           \/ access[r] = "read" /\ Pos(r) = 25 /\ Reads(Exec)
<1>1. PlacesKnown /\ PlaceOK(r)
  BY Places DEF PlaceInv
<1>2. /\ access[r] = "write" => Exec.write
      /\ access[r] = "check" => Exec.checkWrite
      /\ access[r] = "read" => Reads(Exec)
  BY <1>1 DEF PlaceOK, Inner
<1> QED
  BY <1>1, <1>2 DEF PlacesKnown

(* The access and its end. *)
LEMMA WaysAccessing ==
    ASSUME TypeOK, TypeOK', PlaceInv, NEW r \in Ranks
    PROVE  /\ Transfer(r) => Pos(r) \in {5, 15, 25} /\ Pos(r)' = Pos(r)
           /\ Return(r) => \/ Pos(r) = 5 /\ Pos(r)' \in {6, 7}
                           \/ Pos(r) = 15 /\ Pos(r)' \in {16, 17}
                           \/ Pos(r) = 25 /\ Pos(r)' \in {26, 27}
           /\ ErrorsKnown(r) => Pos(r) \in {6, 16, 26} /\ Pos(r)' = Pos(r) + 1
           /\ AccessDone(r) => \/ Pos(r) = 7 /\ Pos(r)' = 8
                               \/ Pos(r) = 27 /\ Pos(r)' = 28
<1>1. PlacesKnown /\ PlacesKnown' /\ PlaceOK(r)
  BY Places, NextPlaces DEF PlaceInv
<1>2. ASSUME Transfer(r)
      PROVE  Pos(r) \in {5, 15, 25} /\ Pos(r)' = Pos(r)
  <2>1. pc[r] = "access" /\ pc' = pc /\ access' = access
    BY <1>2 DEF Transfer, open
  <2>2. Pos(r)' = Pos(r)
    BY <2>1 DEF Pos
  <2> QED
    BY <1>1, <2>1, <2>2 DEF PlacesKnown
<1>3. ASSUME Return(r)
      PROVE  \/ Pos(r) = 5 /\ Pos(r)' \in {6, 7}
             \/ Pos(r) = 15 /\ Pos(r)' \in {16, 17}
             \/ Pos(r) = 25 /\ Pos(r)' \in {26, 27}
  <2>1. pc[r] = "access" /\ access' = access /\ pc'[r] \in {"errorsWait", "returned"}
    BY <1>3, OthersAre DEF Return, open
  <2> QED
    BY <1>1, <2>1 DEF PlacesKnown
<1>4. ASSUME ErrorsKnown(r)
      PROVE  Pos(r) \in {6, 16, 26} /\ Pos(r)' = Pos(r) + 1
  <2>1. pc[r] = "errorsWait" /\ access' = access /\ pc'[r] = "returned"
    BY <1>4, OthersAre DEF ErrorsKnown, open
  <2> QED
    BY <1>1, <2>1 DEF PlacesKnown
<1>5. ASSUME AccessDone(r)
      PROVE  \/ Pos(r) = 7 /\ Pos(r)' = 8
             \/ Pos(r) = 27 /\ Pos(r)' = 28
  <2>1. pc[r] = "returned" /\ access[r] # "check" /\ access' = access /\ pc'[r] = "closeWait"
    BY <1>5, OthersAre DEF AccessDone, open
  <2> QED
    BY <1>1, <2>1 DEF PlacesKnown
<1> QED
  BY <1>2, <1>3, <1>4, <1>5

(* After it. *)
LEMMA WaysAfter ==
    ASSUME TypeOK, TypeOK', PlaceInv, NEW r \in Ranks
    PROVE  /\ Close(r) => \/ Pos(r) \in {7, 8} /\ Pos(r)' = 9 /\ access[r] = "write"
                          \/ Pos(r) = 17 /\ Pos(r)' = 20 /\ access[r] = "check"
                          \/ Pos(r) \in {27, 28} /\ Pos(r)' = 30 /\ access[r] = "read"
           /\ Closed(r) => Pos(r) = 9 /\ Pos(r)' = 10
           /\ SizeKnown(r) => \/ Pos(r) = 10 /\ Pos(r)' = 11
                              \/ Pos(r) = 30 /\ Pos(r)' = 31
           /\ Reported(r) => \/ Pos(r) = 11 /\ Pos(r)' = 12 /\ access[r] = "write"
                             \/ Pos(r) = 31 /\ Pos(r)' = 32 /\ access[r] = "read"
           /\ BeforeRemove(r) => Pos(r) = 32 /\ Pos(r)' \in {33, 34}
           /\ Remove(r) => Pos(r) = 33 /\ Pos(r)' = 34
           /\ EndRep(r) => Pos(r) = 34 /\ Pos(r)' = 0
           /\ ShowTestEnd(r) => Pos(r) = 0 /\ Pos(r)' = 0
<1>1. PlacesKnown /\ PlacesKnown' /\ PlaceOK(r)
  BY Places, NextPlaces DEF PlaceInv
<1>2. ASSUME Close(r)
      PROVE  \/ Pos(r) \in {7, 8} /\ Pos(r)' = 9 /\ access[r] = "write"
             \/ Pos(r) = 17 /\ Pos(r)' = 20 /\ access[r] = "check"
             \/ Pos(r) \in {27, 28} /\ Pos(r)' = 30 /\ access[r] = "read"
  <2>1. /\ pc[r] \in {"returned", "closeWait"} /\ access' = access
        /\ pc[r] = "closeWait" => access[r] # "check"
    BY <1>1, <1>2 DEF Close, PlaceOK
  <2>2. CASE access[r] = "write"
    <3>1. pc'[r] = "closed"
      BY <1>2, <2>2, OthersAre DEF Close
    <3> QED
      BY <1>1, <2>1, <2>2, <3>1 DEF PlacesKnown
  <2>3. CASE access[r] = "check"
    <3>1. pc'[r] = "read"
      BY <1>2, <2>3, OthersAre DEF Close
    <3> QED
      BY <1>1, <2>1, <2>3, <3>1 DEF PlacesKnown
  <2>4. CASE access[r] = "read"
    <3>1. pc'[r] = "sizeWait"
      BY <1>2, <2>4, OthersAre DEF Close
    <3> QED
      BY <1>1, <2>1, <2>4, <3>1 DEF PlacesKnown
  <2> QED
    BY <1>1, <2>2, <2>3, <2>4 DEF PlacesKnown
<1>3. ASSUME Closed(r)
      PROVE  Pos(r) = 9 /\ Pos(r)' = 10
  <2>1. pc[r] = "closed" /\ pc'[r] = "sizeWait" /\ access' = access /\ access[r] = "write"
    BY <1>1, <1>3, OthersAre DEF Closed, Passes, open, PlaceOK
  <2> QED
    BY <1>1, <2>1 DEF PlacesKnown
<1>4. ASSUME SizeKnown(r)
      PROVE  \/ Pos(r) = 10 /\ Pos(r)' = 11
             \/ Pos(r) = 30 /\ Pos(r)' = 31
  <2>1. pc[r] = "sizeWait" /\ pc'[r] = "report" /\ access' = access /\ access[r] # "check"
    BY <1>1, <1>4, OthersAre DEF SizeKnown, Passes, open, PlaceOK
  <2> QED
    BY <1>1, <2>1 DEF PlacesKnown
<1>5. ASSUME Reported(r)
      PROVE  \/ Pos(r) = 11 /\ Pos(r)' = 12 /\ access[r] = "write"
             \/ Pos(r) = 31 /\ Pos(r)' = 32 /\ access[r] = "read"
  <2>1. /\ pc[r] = "report" /\ access[r] # "check"
        /\ pc'[r] = IF access[r] = "write" THEN "check" ELSE "remove"
    BY <1>1, <1>5, OthersAre DEF Reported, PlaceOK
  <2> QED
    BY <1>1, <2>1 DEF PlacesKnown
<1>6. BeforeRemove(r) => Pos(r) = 32 /\ Pos(r)' \in {33, 34}
  BY <1>1, OthersAre DEF BeforeRemove, PlacesKnown
<1>7. Remove(r) => Pos(r) = 33 /\ Pos(r)' = 34
  BY <1>1, OthersAre DEF Remove, PlacesKnown
<1>8. EndRep(r) => Pos(r) = 34 /\ Pos(r)' = 0
  <2> SUFFICES ASSUME EndRep(r)
               PROVE  Pos(r) = 34 /\ Pos(r)' = 0
    OBVIOUS
  <2>1. pc[r] = "repWait" /\ pc'[r] \in {"start", "finish"}
    BY OthersAre DEF EndRep
  <2> QED
    BY <1>1, <2>1 DEF PlacesKnown
<1>9. ShowTestEnd(r) => Pos(r) = 0 /\ Pos(r)' = 0
  BY <1>1, OthersAre DEF ShowTestEnd, PlacesKnown
<1> QED
  BY <1>2, <1>3, <1>4, <1>5, <1>6, <1>7, <1>8, <1>9

----------------------------------------------------------------------------
(***************************************************************************)
(* Nothing has been accessed when all ranks are in a barrier.              *)
(***************************************************************************)
MetAll ==
    \A r, t \in Ranks : \A a \in Full :
        Pos(r) = a /\ Asked(r, a) /\ KeepsUp(t, r) =>
            \/ Round(t) = Round(r) /\ a <= Pos(t)
            \/ Round(t) = Round(r) + 1 /\ a = 34

\* Who meets, for all ranks and places.
LEMMA MetAnywhere == SInv => MetAll
BY MetOne DEF SInv, MetAll

\* And after a step.
LEMMA NextMetAnywhere == SInv' => MetAll'
BY MetAnywhere, PTL

\* How rank r is in the barrier at place b, which it has just entered.
EntersAt(r, b) ==
    /\ Moves(r) /\ EnterBarrier(r)
    /\ b \in Full /\ Pos(r) < b /\ Pos(r)' = b /\ Asked(r, b)'

(* Nobody in the repetition is past a barrier a rank enters now. *)
LEMMA NobodyPast ==
    ASSUME SInv, NEW r \in Ranks, NEW b, EntersAt(r, b), b # 33, NEW t \in Ranks
    PROVE  Round(t)' = Round(r)' => Pos(t)' <= b
<1>1. TypeOK /\ SameOptions /\ OthersStay(r) /\ Round(r)' = Round(r) /\ Near(r, t)
  BY DEF SInv, NearInv, EntersAt, Moves
<1>2. CASE t = r
  BY <1>2 DEF EntersAt, Full
<1>3. CASE t # r
  <2>1. Pos(t)' = Pos(t) /\ Round(t)' = Round(t) /\ Pos(t) \in 0 .. 34
    BY <1>1, <1>3, OthersFacts, PlaceTypes
  <2>2. b \in Full /\ b \in 0 .. 34 /\ Pos(r) < b /\ Pos(r) \in 0 .. 34
    BY <1>1, PlaceTypes DEF EntersAt, Full
  <2>3. Asked(t, b)
    <3>1. Active(b)
      BY <1>1, SameActive DEF EntersAt, Asked
    <3> QED
      BY <3>1 DEF Asked
  <2> SUFFICES ASSUME Round(t) = Round(r), b < Pos(t)
               PROVE  FALSE
    BY <1>1, <2>1, <2>2
  <2>4. b <= Pos(r)
    BY <1>1, <2>2, <2>3 DEF Near, Behind
  <2> QED
    BY <2>2, <2>4
<1> QED
  BY <1>2, <1>3

\* Whether rank r is the last one to enter the barrier.
LastIn(r) == \A s \in Ranks \ {r} : Len(calls[s]) > Len(calls[r])

(* The last one to enter it finds the others there. *)
LEMMA LastGathers ==
    ASSUME SInv, SInv', NEW r \in Ranks, NEW b, EntersAt(r, b), LastIn(r)
    PROVE  Gathered(r)'
<1>1. TypeOK /\ TypeOK' /\ NearInv /\ MetAll'
  BY NextMetAnywhere DEF SInv
<1>2. /\ SameOptions /\ OthersStay(r) /\ Round(r)' = Round(r)
      /\ b \in Full /\ Pos(r) < b /\ Pos(r)' = b /\ Asked(r, b)'
  BY DEF EntersAt, Moves
<1>3. Len(calls'[r]) = Len(calls[r]) + 1 /\ \A s \in Ranks : s # r => calls'[s] = calls[s]
  BY <1>1, BarrierEntered DEF EntersAt
<1>4. ASSUME NEW t \in Ranks
      PROVE  Round(t)' = Round(r)' /\ Pos(r)' <= Pos(t)'
  <2>1. Pos(t)' \in 0 .. 34 /\ Pos(r)' \in 0 .. 34
    BY <1>1, NextPlaceTypes DEF AllPlacesOK
  <2>2. CASE t = r
    BY <2>1, <2>2
  <2>3. CASE t # r
    <3>1. KeepsUp(t, r)'
      <4>1. Len(calls[t]) > Len(calls[r])
        BY <2>3 DEF LastIn
      <4>2. Len(calls[t]) \in Nat /\ Len(calls[r]) \in Nat
        BY <1>1, SeenFacts
      <4>3. Len(calls'[t]) = Len(calls[t])
        BY <1>3, <2>3
      <4> QED
        BY <1>3, <4>1, <4>2, <4>3 DEF KeepsUp
    <3>2. \/ Round(t)' = Round(r)' /\ b <= Pos(t)'
          \/ Round(t)' = Round(r)' + 1 /\ b = 34
      BY <1>1, <1>2, <3>1 DEF MetAll
    <3>3. Round(t)' = Round(t) /\ Round(t) \in Nat /\ Round(r) \in Nat
      BY <1>1, <1>2, <2>3, OthersFacts, PlaceTypes
    <3>4. Round(t) # Round(r) + 1
      <4>1. Near(r, t) /\ Pos(r) # 34
        BY <1>1, <1>2 DEF NearInv, Full
      <4> QED
        BY <4>1 DEF Near
    <3> QED
      BY <1>2, <3>2, <3>3, <3>4
  <2> QED
    BY <2>2, <2>3
<1> QED
  BY <1>4 DEF Gathered

(* Who finds the others there is the last one to enter it. *)
LEMMA GatheredLast ==
    ASSUME SInv, SInv', NEW r \in Ranks, NEW b, EntersAt(r, b), b # 33, Gathered(r)'
    PROVE  LastIn(r)
<1>1. TypeOK /\ ErrorInv /\ NearInv
  BY DEF SInv
<1>2. /\ SameOptions /\ OthersStay(r) /\ Round(r)' = Round(r)
      /\ b \in Full /\ Pos(r) < b /\ Pos(r)' = b /\ Asked(r, b)'
  BY DEF EntersAt, Moves
<1> SUFFICES ASSUME NEW t \in Ranks, t # r
             PROVE  Len(calls[t]) > Len(calls[r])
  BY DEF LastIn
<1>3. Pos(t)' = Pos(t) /\ Round(t)' = Round(t)
  BY <1>2, OthersFacts
<1>4. Round(t) = Round(r) /\ b <= Pos(t)
  BY <1>2, <1>3 DEF Gathered
<1>5. b \in 1 .. 34 /\ Pos(t) \in 0 .. 34
  BY <1>1, <1>2, PlaceTypes DEF Full
<1>6. b \in Seen(t)
  <2>1. Active(b)
    BY <1>2, SameActive DEF Asked
  <2>2. Asked(t, b)
    BY <2>1 DEF Asked
  <2> QED
    BY <1>4, <1>5, <2>2, SeenElements
<1>7. Cardinality(Seen(r)) < Cardinality(Seen(t))
  BY <1>1, <1>2, <1>4, <1>6, FewerSeen
<1>8. Anchor(t) = Anchor(r)
  BY <1>1, <1>4 DEF NearInv, Near
<1>9. /\ Len(calls[r]) = Anchor(r) + Cardinality(Seen(r))
      /\ Len(calls[t]) = Anchor(t) + Cardinality(Seen(t))
      /\ Anchor(r) \in Int /\ Cardinality(Seen(r)) \in Nat /\ Cardinality(Seen(t)) \in Nat
  BY <1>1, SeenFacts
<1> QED
  BY <1>7, <1>8, <1>9

NothingAccessed == (\A s \in Ranks : count'[s] = 0) /\ returned' = {}

(* The barrier begins another access for all, or for nobody. *)
LEMMA BarrierPhase ==
    ASSUME SInv, SInv', NEW r \in Ranks, NEW b, EntersAt(r, b)
    PROVE  /\ \/ count' = count /\ returned' = returned
              \/ Gathered(r)' /\ NothingAccessed
           /\ b # 33 /\ Gathered(r)' => NothingAccessed
<1>1. EnterBarrier(r)
  BY DEF EntersAt
<1>2. LastIn(r) => NothingAccessed
  BY <1>1 DEF EnterBarrier, LastIn, NothingAccessed
<1>3. ~LastIn(r) => count' = count /\ returned' = returned
  BY <1>1 DEF EnterBarrier, LastIn, phase
<1> QED
  BY <1>2, <1>3, LastGathers, GatheredLast

(* The steps that enter a barrier. *)
LEMMA Enterings ==
    ASSUME SInv, SInv', ~opt.timeLimit, NEW r \in Ranks, RankStep(r)
    PROVE  \/ \E b \in Full : EntersAt(r, b)
           \/ count' = count /\ returned' = returned /\ Pos(r)' \notin {3, 4, 13}
           \/ Transfer(r)
           \/ Return(r)
<1>1. TypeOK /\ TypeOK' /\ PlaceInv /\ PlaceInv'
  BY DEF SInv
<1>2. PlacesKnown /\ PlacesKnown' /\ PlaceOK(r) /\ PlaceOK(r)'
  BY <1>1, Places, NextPlaces DEF PlaceInv
<1>3. SameOptions /\ (\A a : Active(a)' <=> Active(a))
  BY <1>1, RankPlaces, SameActive DEF Moves, Turns
<1>4. ASSUME NEW b \in Full, Moves(r), EnterBarrier(r), Pos(r) < b, Pos(r)' = b, Active(b)
      PROVE  \E a \in Full : EntersAt(r, a)
  BY <1>3, <1>4 DEF EntersAt, Asked
<1>5. CASE StartRep(r) \/ StampKnown(r) \/ Skip(r) \/ BeginRead(r) \/ StatusKnown(r)
  <2>1. count' = count /\ returned' = returned
    BY <1>5 DEF StartRep, StampKnown, Skip, BeginRead, StatusKnown, phase
  <2>2. Pos(r)' \notin {3, 4, 13}
    BY <1>1, <1>5, WaysBefore
  <2> QED
    BY <2>1, <2>2
<1>6. CASE BeginWrite(r)
  <2>1. Pos(r) = 2 /\ Pos(r)' = 3 /\ Exec.write /\ EnterBarrier(r) /\ Moves(r)
    BY <1>1, <1>6, WaysBefore, BeginWriteMoves DEF BeginWrite
  <2>2. 3 \in Full /\ Active(3) /\ 2 < 3
    BY <2>1 DEF Full, Active
  <2> QED
    BY <1>4, <2>1, <2>2
<1>7. CASE BeginCheck(r)
  <2>1. Pos(r) = 12 /\ Pos(r)' = 13 /\ Exec.checkWrite /\ EnterBarrier(r) /\ Moves(r)
    BY <1>1, <1>7, WaysBefore, BeginCheckMoves DEF BeginCheck
  <2>2. 13 \in Full /\ Active(13) /\ 12 < 13
    BY <2>1 DEF Full, Active
  <2> QED
    BY <1>4, <2>1, <2>2
<1>8. CASE Reorder(r)
  <2>1. Pos(r) = 22 /\ Pos(r)' = 23 /\ EnterBarrier(r) /\ Moves(r) /\ Reads(Exec)
    BY <1>1, <1>2, <1>8, WaysBefore, ReorderMoves DEF Reorder, PlaceOK
  <2>2. 23 \in Full /\ Active(23) /\ 22 < 23
    BY <2>1 DEF Full, Active
  <2> QED
    BY <1>4, <2>1, <2>2
<1>9. CASE Create(r)
  <2>1. /\ Pos(r) = 3 /\ Exec.write /\ Moves(r)
        /\ Pos(r)' = IF opt.barriers THEN 4 ELSE 5
    BY <1>1, <1>9, WaysOpening, CreateMoves
  <2>2. CASE opt.barriers
    <3>1. EnterBarrier(r) /\ 4 \in Full /\ Active(4) /\ 3 < 4
      BY <1>9, <2>1, <2>2 DEF Create, Opened, Full, Active
    <3> QED
      BY <1>4, <2>1, <2>2, <3>1
  <2>3. CASE ~opt.barriers
    BY <1>9, <2>1, <2>3 DEF Create, Opened, phase
  <2> QED
    BY <2>2, <2>3
<1>10. CASE OpenRead(r)
  <2>1. /\ Pos(r) = 23 /\ Reads(Exec) /\ Moves(r)
        /\ Pos(r)' = IF opt.barriers THEN 24 ELSE 25
    BY <1>1, <1>10, WaysOpening, OpenReadMoves
  <2>2. CASE opt.barriers
    <3>1. EnterBarrier(r) /\ 24 \in Full /\ Active(24) /\ 23 < 24
      BY <1>10, <2>1, <2>2 DEF OpenRead, Opened, Full, Active
    <3> QED
      BY <1>4, <2>1, <2>2, <3>1
  <2>3. CASE ~opt.barriers
    BY <1>10, <2>1, <2>3 DEF OpenRead, Opened, phase
  <2> QED
    BY <2>2, <2>3
<1>11. CASE OpenCheck(r) \/ OpenDone(r)
  <2>1. count' = count /\ returned' = returned
    BY <1>11 DEF OpenCheck, Opened, OpenDone, Passes, phase
  <2>2. Pos(r)' \notin {3, 4, 13}
    BY <1>1, <1>11, WaysOpening
  <2> QED
    BY <2>1, <2>2
<1>12. CASE ErrorsKnown(r)
  <2>1. count' = count /\ returned' = returned
    BY <1>12 DEF ErrorsKnown, phase
  <2>2. Pos(r)' \notin {3, 4, 13}
    BY <1>1, <1>12, WaysAccessing
  <2> QED
    BY <2>1, <2>2
<1>13. CASE AccessDone(r)
  <2>1. EnterBarrier(r) /\ Moves(r) /\ opt.barriers /\ pc'[r] = "closeWait" /\ access' = access
        /\ pc[r] = "returned"
    BY <1>1, <1>13, AccessDoneMoves, OthersAre DEF AccessDone, open
  <2>2. /\ access[r] = "write" => Exec.write
        /\ access[r] = "read" => Reads(Exec)
    BY <1>2, <2>1 DEF PlaceOK, Inner
  <2>3. \/ Pos(r) = 7 /\ Pos(r)' = 8 /\ access[r] = "write"
        \/ Pos(r) = 27 /\ Pos(r)' = 28 /\ access[r] = "read"
    BY <1>1, <1>2, <1>13, <2>1, WaysAccessing DEF PlacesKnown
  <2>4. 8 \in Full /\ 28 \in Full /\ 7 < 8 /\ 27 < 28
    BY DEF Full
  <2>5. (Pos(r)' = 8 => Active(8)) /\ (Pos(r)' = 28 => Active(28))
    BY <2>1, <2>2, <2>3 DEF Active
  <2> QED
    BY <1>4, <2>1, <2>3, <2>4, <2>5
<1>14. CASE Close(r)
  <2>1. CASE access[r] = "write"
    <3>1. Pos(r) \in {7, 8} /\ Pos(r)' = 9 /\ EnterBarrier(r) /\ Moves(r)
      BY <1>1, <1>14, <2>1, WaysAfter, CloseMoves DEF Close
    <3>2. Exec.write
      BY <1>2, <1>14, <2>1 DEF Close, PlaceOK, Inner
    <3>3. 9 \in Full /\ Active(9) /\ 7 < 9 /\ 8 < 9
      BY <3>2 DEF Full, Active
    <3> QED
      BY <1>4, <3>1, <3>3
  <2>2. CASE access[r] # "write"
    <3>1. count' = count /\ returned' = returned
      BY <1>1, <1>14, <2>2 DEF Close, phase, TypeOK
    <3>2. Pos(r)' \notin {3, 4, 13}
      BY <1>1, <1>14, WaysAfter
    <3> QED
      BY <3>1, <3>2
  <2> QED
    BY <2>1, <2>2
<1>15. CASE Closed(r) \/ SizeKnown(r) \/ Reported(r) \/ EndRep(r) \/ ShowTestEnd(r)
  <2>1. count' = count /\ returned' = returned
    BY <1>15 DEF Closed, SizeKnown, Passes, Reported, EndRep, ShowTestEnd, phase
  <2>2. Pos(r)' \notin {3, 4, 13}
    BY <1>1, <1>15, WaysAfter
  <2> QED
    BY <2>1, <2>2
<1>16. CASE BeforeRemove(r)
  <2>1. /\ EnterBarrier(r) /\ Moves(r) /\ Pos(r) = 32
        /\ Pos(r)' = IF Removes(r) THEN 33 ELSE 34
    <3>1. pc'[r] = IF Removes(r) THEN "removeWait" ELSE "repWait"
      BY <1>1, <1>16, OthersAre DEF BeforeRemove
    <3> QED
      BY <1>1, <1>2, <1>16, <3>1, WaysAfter, BeforeRemoveMoves DEF BeforeRemove, PlacesKnown
  <2>2. 33 \in Full /\ 34 \in Full /\ 32 < 33 /\ 32 < 34
    BY DEF Full
  <2>3. (Removes(r)' <=> Removes(r)) /\ Active(34)
    BY <1>16 DEF BeforeRemove, Removes, loop, fixed, Active
  <2>4. CASE Removes(r)
    <3>1. Asked(r, 33)'
      BY <2>3, <2>4 DEF Asked
    <3>2. EntersAt(r, 33)
      BY <2>1, <2>2, <2>4, <3>1 DEF EntersAt
    <3> QED
      BY <2>2, <3>2
  <2>5. CASE ~Removes(r)
    <3>1. EntersAt(r, 34)
      BY <1>4, <2>1, <2>2, <2>3, <2>5, <1>3 DEF EntersAt, Asked
    <3> QED
      BY <2>2, <3>1
  <2> QED
    BY <2>4, <2>5
<1>17. CASE Remove(r)
  <2>1. EnterBarrier(r) /\ Moves(r) /\ Pos(r) = 33 /\ Pos(r)' = 34
    BY <1>1, <1>17, WaysAfter, RemoveMoves DEF Remove
  <2>2. 34 \in Full /\ Active(34) /\ 33 < 34
    BY DEF Full, Active
  <2> QED
    BY <1>4, <2>1, <2>2
<1> QED
  BY <1>5, <1>6, <1>7, <1>8, <1>9, <1>10, <1>11, <1>12, <1>13, <1>14, <1>15, <1>16, <1>17
     DEF RankStep

----------------------------------------------------------------------------
(***************************************************************************)
(* Which steps change what.                                                *)
(***************************************************************************)
\* The first half of the variables.
LEMMA ChangesOfRun ==
    ASSUME NEW r \in Ranks, RankStep(r)
    PROVE  /\ opt' = opt /\ execution' = execution /\ spoilt' = spoilt
           /\ rep' = rep \/ EndRep(r)
           /\ stamp' = stamp \/ StartRep(r) \/ StampKnown(r)
           /\ iterations' = iterations \/ BeginWrite(r) \/ BeginRead(r) \/ StatusKnown(r)
                                       \/ Reported(r)
           /\ results' = results \/ Return(r)
           /\ status' = status \/ ShowTestEnd(r)
<1>1. CASE StartRep(r) \/ StampKnown(r) \/ Skip(r)
  BY <1>1 DEF StartRep, StampKnown, Skip, fixed, sizes
<1>2. CASE BeginWrite(r) \/ BeginCheck(r) \/ BeginRead(r)
  BY <1>2 DEF BeginWrite, BeginCheck, BeginRead, fixed, sizes
<1>3. CASE StatusKnown(r) \/ Reorder(r) \/ OpenDone(r) \/ Return(r)
  BY <1>3 DEF StatusKnown, Reorder, OpenDone, Passes, Return, fixed, sizes, loop
<1>4. CASE Create(r) \/ OpenCheck(r) \/ OpenRead(r) \/ Transfer(r) \/ ErrorsKnown(r)
  BY <1>4 DEF Create, OpenCheck, OpenRead, Transfer, ErrorsKnown, fixed, sizes, loop
<1>5. CASE AccessDone(r) \/ Close(r) \/ Closed(r) \/ SizeKnown(r) \/ Reported(r)
  BY <1>5 DEF AccessDone, Close, Closed, SizeKnown, Passes, Reported, fixed, sizes, loop
<1>6. CASE BeforeRemove(r) \/ Remove(r) \/ EndRep(r) \/ ShowTestEnd(r)
  BY <1>6 DEF BeforeRemove, Remove, EndRep, ShowTestEnd, fixed, sizes, loop
<1> QED
  BY <1>1, <1>2, <1>3, <1>4, <1>5, <1>6 DEF RankStep

\* The other half.
LEMMA ChangesOfFiles ==
    ASSUME TypeOK, NEW r \in Ranks, RankStep(r)
    PROVE  /\ files' = files \/ BeginWrite(r) \/ Create(r) \/ Transfer(r) \/ Remove(r)
           /\ errors' = errors \/ Create(r) \/ OpenCheck(r) \/ OpenRead(r) \/ Transfer(r)
           /\ errorFound' = errorFound \/ ErrorsKnown(r) \/ EndRep(r)
           /\ openFile' = openFile \/ Create(r) \/ OpenCheck(r) \/ OpenRead(r) \/ Close(r)
           /\ name' = name \/ BeginWrite(r) \/ OpenCheck(r) \/ Reorder(r)
           /\ rankOffset' = rankOffset \/ OpenCheck(r) \/ Reorder(r) \/ Close(r) \/ EndRep(r)
<1>1. CASE StartRep(r) \/ StampKnown(r) \/ Skip(r)
  BY <1>1 DEF StartRep, StampKnown, Skip, checks, open, naming
<1>2. CASE BeginWrite(r) \/ BeginCheck(r) \/ BeginRead(r)
  BY <1>2 DEF BeginWrite, BeginCheck, BeginRead, checks, open, naming
<1>3. CASE StatusKnown(r) \/ Reorder(r) \/ OpenDone(r) \/ Return(r)
  BY <1>3 DEF StatusKnown, Reorder, OpenDone, Passes, Return, checks, open, naming, loop
<1>4. CASE Create(r) \/ OpenCheck(r) \/ OpenRead(r) \/ Transfer(r) \/ ErrorsKnown(r)
  BY <1>4 DEF Create, OpenCheck, OpenRead, Transfer, ErrorsKnown, checks, open, naming, loop
<1>5. CASE AccessDone(r) \/ Close(r) \/ Closed(r) \/ SizeKnown(r) \/ Reported(r)
  BY <1>5 DEF AccessDone, Close, Closed, SizeKnown, Passes, Reported, checks, open, naming, loop
<1>6. CASE BeforeRemove(r) \/ Remove(r) \/ EndRep(r) \/ ShowTestEnd(r)
  BY <1>6 DEF BeforeRemove, Remove, EndRep, ShowTestEnd, checks, open, naming, loop
<1> QED
  BY <1>1, <1>2, <1>3, <1>4, <1>5, <1>6 DEF RankStep

\* Where the ranks are after a step of one of them.
LEMMA AfterStep ==
    ASSUME SInv, SInv', ~opt.timeLimit, NEW r \in Ranks, RankStep(r)
    PROVE  /\ TypeOK /\ TypeOK' /\ PlaceInv /\ PlaceInv' /\ SameOptions
           /\ \A q \in Ranks : /\ Pos(q) \in 0 .. 34 /\ Pos(q)' \in 0 .. 34
                               /\ Round(q) \in Nat /\ Round(q)' \in Nat
           /\ \A q \in Ranks : q # r => /\ Pos(q)' = Pos(q) /\ Round(q)' = Round(q)
                                        /\ pc'[q] = pc[q] /\ rep'[q] = rep[q]
                                        /\ access'[q] = access[q]
           /\ Moves(r) \/ EndRep(r)
           /\ Moves(r) => Round(r)' = Round(r) /\ Pos(r) <= Pos(r)'
           /\ EndRep(r) => Pos(r)' = 0 /\ Pos(r) = 34
<1>1. TypeOK /\ TypeOK' /\ PlaceInv /\ PlaceInv'
  BY DEF SInv
<1>2. Moves(r) \/ EndRep(r)
  <2>1. Moves(r) \/ Turns(r)
    BY <1>1, RankPlaces
  <2>2. CASE Quiet(r)
    BY <1>1, <2>2, QuietMoves
  <2>3. CASE Create(r) \/ OpenCheck(r) \/ OpenRead(r)
    BY <1>1, <2>3, CreateMoves, OpenCheckMoves, OpenReadMoves
  <2>4. CASE Transfer(r) \/ ErrorsKnown(r) \/ EndRep(r)
    BY <1>1, <2>4, TransferMoves, ErrorsKnownMoves
  <2> QED
    BY <2>2, <2>3, <2>4 DEF RankStep, Quiet
<1>3. SameOptions /\ OthersStay(r)
  BY <1>1, RankPlaces DEF Moves, Turns
<1>4. \A q \in Ranks : /\ Pos(q) \in 0 .. 34 /\ Pos(q)' \in 0 .. 34
                       /\ Round(q) \in Nat /\ Round(q)' \in Nat
  BY <1>1, PlaceTypes, NextPlaceTypes DEF AllPlacesOK
<1>5. \A q \in Ranks : q # r => /\ Pos(q)' = Pos(q) /\ Round(q)' = Round(q)
                                /\ pc'[q] = pc[q] /\ rep'[q] = rep[q]
                                /\ access'[q] = access[q]
  BY <1>3, OthersFacts DEF OthersStay
<1>6. Moves(r) => Round(r)' = Round(r) /\ Pos(r) <= Pos(r)'
  BY DEF Moves
<1>7. EndRep(r) => Pos(r)' = 0 /\ Pos(r) = 34
  BY <1>1, WaysAfter
<1> QED
  BY <1>1, <1>2, <1>3, <1>4, <1>5, <1>6, <1>7

\* The repetition a rank in a phase is in.
LEMMA RoundIs ==
    ASSUME TypeOK, NEW r \in Ranks, 0 < Pos(r)
    PROVE  Round(r) = rep[r] /\ pc[r] \notin {"finish", "end"}
<1>1. pc[r] \notin {"finish", "end"}
  BY Places DEF PlacesKnown
<1> QED
  BY <1>1 DEF Round

(* The places within a phase, and whose file is open there. *)
InsideKnown ==
    \A r \in Ranks :
        /\ Pos(r) = 4 => pc[r] = "openWait"
        /\ Pos(r) = 24 => pc[r] = "openWait"
        /\ Pos(r) \in {5, 15, 25} <=> pc[r] = "access"
        /\ Pos(r) \in 4 .. 11 => access[r] = "write"
        /\ Pos(r) \in 14 .. 17 => access[r] = "check"
        /\ Pos(r) \in 24 .. 31 => access[r] = "read"
        /\ Pos(r) = 0 => pc[r] \in {"start", "finish", "end"}

\* The places within a phase, by number.
LEMMA Insides == TypeOK => InsideKnown
<1> SUFFICES ASSUME TypeOK, NEW r \in Ranks
             PROVE  /\ Pos(r) = 4 => pc[r] = "openWait"
                    /\ Pos(r) = 24 => pc[r] = "openWait"
                    /\ Pos(r) \in {5, 15, 25} <=> pc[r] = "access"
                    /\ Pos(r) \in 4 .. 11 => access[r] = "write"
                    /\ Pos(r) \in 14 .. 17 => access[r] = "check"
                    /\ Pos(r) \in 24 .. 31 => access[r] = "read"
                    /\ Pos(r) = 0 => pc[r] \in {"start", "finish", "end"}
  BY DEF InsideKnown
<1>1. pc[r] \in PCs /\ access[r] \in {"write", "check", "read"}
  BY DEF TypeOK
<1>2. CASE pc[r] \in {"start", "finish", "end", "stampWait", "write", "writeWait", "check",
                      "checkWait", "read", "statusWait", "reorder", "readWait", "remove",
                      "removeWait", "repWait"}
  BY <1>2, OuterPlaces
<1>3. CASE pc[r] \in {"openWait", "access", "errorsWait", "returned", "closeWait", "closed",
                      "sizeWait", "report"}
  BY <1>1, <1>3, InnerPlaces
<1> QED
  BY <1>1, <1>2, <1>3 DEF PCs

\* And after a step.
LEMMA NextInsides == TypeOK' => InsideKnown'
BY Insides, PTL

\* A rank in a phase has been asked for it.
LEMMA PhaseAsked ==
    ASSUME TypeOK, PlaceInv, NEW r \in Ranks
    PROVE  /\ Pos(r) \in 3 .. 11 => Exec.write
           /\ Pos(r) \in 13 .. 17 => Exec.checkWrite
           /\ Pos(r) \in 21 .. 31 => Reads(Exec)
           /\ Pos(r) \in {4, 24} => opt.barriers
           /\ Pos(r) \in {1, 21} => r # 0
<1>1. pc[r] \in PCs /\ access[r] \in {"write", "check", "read"} /\ PlaceOK(r)
  BY DEF TypeOK, PlaceInv
<1>2. CASE pc[r] \in {"start", "finish", "end", "stampWait", "write", "writeWait", "check",
                      "checkWait", "read", "statusWait", "reorder", "readWait", "remove",
                      "removeWait", "repWait"}
  BY <1>1, <1>2, OuterPlaces DEF PlaceOK
<1>3. CASE pc[r] \in {"openWait", "access", "errorsWait", "returned", "closeWait", "closed",
                      "sizeWait", "report"}
  <2>1. /\ access[r] = "write" => Exec.write
        /\ access[r] = "check" => Exec.checkWrite
        /\ access[r] = "read" => Reads(Exec)
        /\ pc[r] = "openWait" => opt.barriers
        /\ pc[r] \in {"sizeWait", "report"} => access[r] # "check"
    BY <1>1, <1>3 DEF PlaceOK, Inner
  <2>2. CASE access[r] = "write"
    BY <1>3, <2>1, <2>2, InnerPlaces
  <2>3. CASE access[r] = "check"
    BY <1>3, <2>1, <2>3, InnerPlaces
  <2>4. CASE access[r] = "read"
    BY <1>3, <2>1, <2>4, InnerPlaces
  <2> QED
    BY <1>1, <2>2, <2>3, <2>4
<1> QED
  BY <1>1, <1>2, <1>3 DEF PCs

----------------------------------------------------------------------------
(***************************************************************************)
(* How much the ranks have accessed, step by step.                         *)
(***************************************************************************)
(* Who leaves the barrier before an access finds all ranks gathered. *)
LEMMA AllGathered ==
    ASSUME SInv, NEW r \in Ranks, NEW a \in {3, 4, 13, 23, 24}, Pos(r) = a, Active(a), AllArrived(r)
    PROVE  Gathered(r)
<1>1. TypeOK /\ ErrorInv /\ NearInv /\ a \in Full /\ Asked(r, a) /\ a # 34
  BY DEF SInv, Full, Asked
<1>2. \A t \in Ranks : \/ Round(t) = Round(r) /\ a <= Pos(t)
                       \/ Round(t) = Round(r) + 1 /\ a = 34
  BY <1>1, Met
<1> QED
  BY <1>1, <1>2 DEF Gathered

(* So it begins with nothing accessed. *)
LEMMA BeginsAtZero ==
    ASSUME SInv, SInv', CountInv, NEW r \in Ranks, Create(r) \/ OpenCheck(r) \/ OpenDone(r),
           Pos(r)' \in {5, 15}
    PROVE  count[r] = 0 /\ Gathered(r)
<1>1. TypeOK /\ TypeOK' /\ PlaceInv /\ AllArrived(r)
  BY DEF SInv, Create, OpenCheck, OpenDone, Passes
<1>2. \/ Pos(r) = 3 /\ Active(3)
      \/ Pos(r) = 13 /\ Active(13)
      \/ Pos(r) = 4 /\ Active(4)
  <2>1. CASE Create(r)
    BY <1>1, <2>1, WaysOpening DEF Active
  <2>2. CASE OpenCheck(r)
    BY <1>1, <2>2, WaysOpening DEF Active
  <2>3. CASE OpenDone(r)
    <3>1. Pos(r) = 4 /\ Exec.write
      BY <1>1, <2>3, WaysOpening
    <3>2. opt.barriers
      BY <1>1, <2>3 DEF OpenDone, Passes, PlaceInv, PlaceOK
    <3> QED
      BY <3>1, <3>2 DEF Active
  <2> QED
    BY <2>1, <2>2, <2>3
<1>3. Gathered(r)
  BY <1>1, <1>2, AllGathered
<1> QED
  BY <1>2, <1>3 DEF CountInv, CountOK

(* Ranks newly gathered are so by one that has entered their barrier. *)
LEMMA NewlyGathered ==
    ASSUME SInv, SInv', ~opt.timeLimit, NEW r \in Ranks, RankStep(r), NEW q \in Ranks,
           Pos(q)' \in {3, 4, 13}, Gathered(q)'
    PROVE  \/ q # r /\ Gathered(q)
           \/ Pos(r)' = Pos(q)' /\ Gathered(r)'
<1>1. /\ PlaceInv' /\ TypeOK'
      /\ \A t \in Ranks : /\ Pos(t) \in 0 .. 34 /\ Pos(t)' \in 0 .. 34
                          /\ Round(t) \in Nat /\ Round(t)' \in Nat
      /\ \A t \in Ranks : t # r => Pos(t)' = Pos(t) /\ Round(t)' = Round(t)
      /\ Moves(r) \/ EndRep(r)
      /\ Moves(r) => Round(r)' = Round(r) /\ Pos(r) <= Pos(r)'
      /\ EndRep(r) => Pos(r)' = 0
  BY AfterStep
<1>2. \A s \in Ranks : Round(s)' = Round(q)' /\ Pos(q)' <= Pos(s)'
  BY DEF Gathered
<1>3. ~EndRep(r) /\ Moves(r)
  BY <1>1, <1>2
<1>4. CASE q = r
  BY <1>4
<1>5. CASE q # r /\ Pos(r) < Pos(q) /\ Pos(q) < Pos(r)'
  <2>1. Pos(q)' = Pos(q) /\ Pos(q) \in {3, 4, 13} /\ Pos(q) \in Full
    BY <1>1, <1>5 DEF Full
  <2>2. Active(Pos(q))
    <3>1. PlaceOK(q)' /\ SameOptions
      BY <1>1, <1>3 DEF PlaceInv, Moves
    <3>2. /\ Pos(q)' = 3 => pc'[q] = "writeWait"
          /\ Pos(q)' = 13 => pc'[q] = "checkWait"
          /\ Pos(q)' = 4 => pc'[q] = "openWait" /\ access'[q] = "write"
      BY <1>1, NextWaits, NextInsides DEF WaitsKnown, InsideKnown
    <3>3. PlaceOK(q)' => /\ Pos(q)' = 3 => (Exec.write)'
                         /\ Pos(q)' = 13 => (Exec.checkWrite)'
                         /\ Pos(q)' = 4 => (Exec.write)' /\ (opt.barriers)'
      BY <3>2 DEF PlaceOK, Inner
    <3>4. (Exec.write)' = Exec.write /\ (Exec.checkWrite)' = Exec.checkWrite /\ opt' = opt
      BY <3>1 DEF SameOptions, Exec
    <3> QED
      BY <2>1, <3>1, <3>3, <3>4 DEF Active
  <2>3. Asked(r, Pos(q))'
    <3>1. \A a : Active(a)' <=> Active(a)
      BY <1>3, SameActive DEF Moves
    <3> QED
      BY <2>1, <2>2, <3>1 DEF Asked
  <2>4. Pos(q) = Pos(r)
    <3>1. \A a \in Full : Asked(r, a)' /\ Pos(r) <= a /\ a < Pos(r)' => a = Pos(r)
      BY <1>3 DEF Moves
    <3>2. Pos(r) <= Pos(q)
      BY <1>1, <1>5
    <3> QED
      BY <1>5, <2>1, <2>3, <3>1, <3>2
  <2> QED
    BY <1>1, <1>5, <2>4
<1>6. CASE q # r /\ Pos(q) <= Pos(r)
  <2>1. \A s \in Ranks : Round(s) = Round(q) /\ Pos(q) <= Pos(s)
    BY <1>1, <1>2, <1>3, <1>6
  <2> QED
    BY <1>6, <2>1 DEF Gathered
<1>7. CASE q # r /\ Pos(r) < Pos(q) /\ Pos(q) = Pos(r)'
  <2>1. Pos(r)' = Pos(q)'
    BY <1>1, <1>7
  <2>2. Round(r)' = Round(q)'
    BY <1>2
  <2>3. \A s \in Ranks : Round(s)' = Round(r)' /\ Pos(r)' <= Pos(s)'
    BY <1>2, <2>1, <2>2
  <2> QED
    BY <2>1, <2>3 DEF Gathered
<1> QED
  <2>1. Pos(q)' <= Pos(r)'
    BY <1>2
  <2>2. q # r => Pos(q) <= Pos(r)'
    BY <1>1, <2>1
  <2> QED
    BY <1>1, <1>4, <1>5, <1>6, <1>7, <2>2

\* Counts and limits are numbers.
LEMMA NumbersKnown ==
    ASSUME TypeOK, TypeOK', NEW t \in Ranks
    PROVE  /\ count[t] \in Nat /\ iterations[t] \in Nat
           /\ count'[t] \in Nat /\ iterations'[t] \in Nat
<1>1. 0 .. Transfers \subseteq Nat
  BY Numbers
<1>2. /\ count \in [Ranks -> 0 .. Transfers] /\ iterations \in [Ranks -> 0 .. Transfers]
      /\ count' \in [Ranks -> 0 .. Transfers] /\ iterations' \in [Ranks -> 0 .. Transfers]
  BY DEF TypeOK
<1> QED
  BY <1>1, <1>2

\* What the others have is theirs to change.
LEMMA OthersKeep ==
    ASSUME TypeOK, NEW r \in Ranks, RankStep(r), NEW q \in Ranks, q # r
    PROVE  /\ iterations'[q] = iterations[q] /\ results'[q] = results[q]
           /\ stamp'[q] = stamp[q] /\ rankOffset'[q] = rankOffset[q] /\ name'[q] = name[q]
           /\ openFile'[q] = openFile[q] /\ errors'[q] = errors[q]
           /\ errorFound'[q] = errorFound[q]
<1>1. /\ iterations'[q] = iterations[q] /\ results'[q] = results[q] /\ stamp'[q] = stamp[q]
  <2>1. CASE StartRep(r) \/ StampKnown(r) \/ BeginWrite(r) \/ BeginRead(r)
    BY <2>1 DEF TypeOK, StartRep, StampKnown, BeginWrite, BeginRead, sizes
  <2>2. CASE StatusKnown(r) \/ Return(r) \/ Reported(r)
    BY <2>2 DEF TypeOK, StatusKnown, Return, Reported, loop
  <2> QED
    BY <2>1, <2>2, ChangesOfRun
<1>2. /\ rankOffset'[q] = rankOffset[q] /\ name'[q] = name[q] /\ openFile'[q] = openFile[q]
  <2>1. CASE BeginWrite(r) \/ Create(r) \/ OpenCheck(r) \/ OpenRead(r)
    BY <2>1 DEF TypeOK, BeginWrite, Create, OpenCheck, OpenRead, Opened, naming, open
  <2>2. CASE Reorder(r) \/ Close(r) \/ EndRep(r)
    BY <2>2 DEF TypeOK, Reorder, Close, EndRep, open
  <2> QED
    BY <2>1, <2>2, ChangesOfFiles
<1>3. errors'[q] = errors[q] /\ errorFound'[q] = errorFound[q]
  <2>1. CASE Create(r) \/ OpenCheck(r) \/ OpenRead(r)
    BY <2>1 DEF TypeOK, Create, OpenCheck, OpenRead, Opened, loop
  <2>2. CASE Transfer(r) \/ ErrorsKnown(r) \/ EndRep(r)
    BY <2>2 DEF TypeOK, Transfer, ErrorsKnown, EndRep, loop, checks
  <2> QED
    BY <2>1, <2>2, ChangesOfFiles
<1> QED
  BY <1>1, <1>2, <1>3

\* Where a rank begins an access, and which ranks come past a write.
LEMMA IntoAccess ==
    ASSUME TypeOK, TypeOK', PlaceInv, ~opt.timeLimit, NEW r \in Ranks, RankStep(r)
    PROVE  /\ Pos(r)' \in {5, 15, 25} =>
                 Create(r) \/ OpenCheck(r) \/ OpenRead(r) \/ OpenDone(r) \/ Transfer(r)
           /\ Pos(r) <= 5 /\ 5 < Pos(r)' => (Return(r) /\ Pos(r) = 5) \/ ~Exec.write
           /\ Pos(r)' \in {4, 24} => Create(r) \/ OpenRead(r)
           /\ Pos(r)' \in 6 .. 11 => Return(r) \/ Pos(r) \in 6 .. 10
           /\ Pos(r)' \in 12 .. 34 => Pos(r) \in 11 .. 34 \/ ~Exec.write
           /\ Pos(r)' = 3 => BeginWrite(r)
           /\ Pos(r)' = 23 => Reorder(r)
           /\ Pos(r)' = 0 => EndRep(r) \/ ShowTestEnd(r)
<1>1. CASE \/ StartRep(r) \/ StampKnown(r) \/ Skip(r) \/ BeginWrite(r) \/ BeginCheck(r)
           \/ BeginRead(r) \/ StatusKnown(r) \/ Reorder(r)
  BY <1>1, WaysBefore
<1>2. CASE Create(r) \/ OpenCheck(r) \/ OpenRead(r) \/ OpenDone(r)
  BY <1>2, WaysOpening
<1>3. CASE Transfer(r) \/ Return(r) \/ ErrorsKnown(r) \/ AccessDone(r)
  BY <1>3, WaysAccessing
<1>4. CASE \/ Close(r) \/ Closed(r) \/ SizeKnown(r) \/ Reported(r) \/ BeforeRemove(r)
           \/ Remove(r) \/ EndRep(r) \/ ShowTestEnd(r)
  BY <1>4, WaysAfter
<1> QED
  BY <1>1, <1>2, <1>3, <1>4 DEF RankStep

\* A rank reports its write and goes on to the check.
LEMMA From11 ==
    ASSUME TypeOK, TypeOK', PlaceInv, ~opt.timeLimit, NEW r \in Ranks, RankStep(r), Pos(r) = 11
    PROVE  Reported(r) /\ Pos(r)' = 12
<1>1. CASE \/ StartRep(r) \/ StampKnown(r) \/ Skip(r) \/ BeginWrite(r) \/ BeginCheck(r)
           \/ BeginRead(r) \/ StatusKnown(r) \/ Reorder(r)
  BY <1>1, WaysBefore
<1>2. CASE Create(r) \/ OpenCheck(r) \/ OpenRead(r) \/ OpenDone(r)
  BY <1>2, WaysOpening
<1>3. CASE Transfer(r) \/ Return(r) \/ ErrorsKnown(r) \/ AccessDone(r)
  BY <1>3, WaysAccessing
<1>4. CASE \/ Close(r) \/ Closed(r) \/ SizeKnown(r) \/ Reported(r) \/ BeforeRemove(r)
           \/ Remove(r) \/ EndRep(r) \/ ShowTestEnd(r)
  BY <1>4, WaysAfter
<1> QED
  BY <1>1, <1>2, <1>3, <1>4 DEF RankStep

\* What a rank has accessed when it returns.
LEMMA ReturnFacts ==
    ASSUME TypeOK, NEW r \in Ranks, Return(r)
    PROVE  /\ count' = count /\ returned' = returned \cup {r} /\ r \notin returned
           /\ Exec.wearOut => \A s \in Ranks : count[s] <= count[r]
           /\ results'[r][rep[r]] = IF access[r] = "read" THEN results[r][rep[r]] ELSE count[r]
           /\ \A c \in Repetitions : c # rep[r] => results'[r][c] = results[r][c]
           /\ count[r] \in 1 .. Transfers
           /\ Exec.deadline \/ count[r] \in {Transfers, iterations[r]}
           /\ iterations' = iterations
<1>1. /\ results \in [Ranks -> [Repetitions -> 0 .. Transfers]] /\ rep[r] \in Repetitions
      /\ count[r] \in 0 .. Transfers
  BY DEF TypeOK
<1>2. /\ results'[r][rep[r]] = IF access[r] = "read" THEN results[r][rep[r]] ELSE count[r]
      /\ \A c \in Repetitions : c # rep[r] => results'[r][c] = results[r][c]
  BY <1>1 DEF Return
<1>3. count[r] \in 1 .. Transfers
  BY <1>1 DEF Return
<1> QED
  BY <1>2, <1>3 DEF Return, Call!Return, Call!Ranks, Ranks

(* Nothing but a barrier, an access and its end tells how much. *)
LEMMA CountStays ==
    ASSUME SInv, SInv', ~opt.timeLimit, CountInv, NEW r \in Ranks, RankStep(r), ~Return(r),
           ~Transfer(r), count' = count, returned' = returned,
           Pos(r)' \in {3, 4, 13} => ~Gathered(r)',
           Pos(r)' \in {3, 4} =>
               \A t \in Ranks : Round(t)' = Round(r)' => Pos(t)' <= Pos(r)'
    PROVE  CountInv'
<1>1. /\ PlaceInv /\ PlaceInv' /\ TypeOK /\ TypeOK' /\ SameOptions
      /\ \A t \in Ranks : /\ Pos(t) \in 0 .. 34 /\ Pos(t)' \in 0 .. 34
                          /\ Round(t) \in Nat /\ Round(t)' \in Nat
      /\ \A t \in Ranks : t # r => Pos(t)' = Pos(t) /\ Round(t)' = Round(t) /\ rep'[t] = rep[t]
      /\ Moves(r) \/ EndRep(r)
      /\ Moves(r) => Round(r)' = Round(r) /\ Pos(r) <= Pos(r)'
      /\ EndRep(r) => Pos(r)' = 0
  BY AfterStep
<1>2. /\ results' = results /\ Exec' = Exec
      /\ \A t \in Ranks : t # r => iterations'[t] = iterations[t]
      /\ rep' = rep \/ EndRep(r)
      /\ \A t \in Ranks : count[t] \in Nat /\ iterations'[t] \in Nat
  <2>1. \A t \in Ranks : count[t] \in Nat /\ iterations'[t] \in Nat
    BY <1>1, NumbersKnown
  <2>2. Exec' = Exec
    BY <1>1 DEF SameOptions, Exec
  <2> QED
    BY <1>1, <2>1, <2>2, ChangesOfRun, OthersKeep
<1>3. ASSUME Pos(r)' \in {5, 15}
      PROVE  count[r] = 0 /\ Gathered(r) /\ Moves(r)
  BY <1>1, <1>3, IntoAccess, BeginsAtZero, WaysOpening
<1> SUFFICES ASSUME NEW q \in Ranks
             PROVE  CountOK(q)'
  BY DEF CountInv
<1>4. CountOK(q) /\ CountOK(r)
  BY DEF CountInv
<1>5. Pos(q)' \in {3, 4, 13} /\ Gathered(q)' => count'[q] = 0
  <2> SUFFICES ASSUME Pos(q)' \in {3, 4, 13}, Gathered(q)'
               PROVE  count[q] = 0
    OBVIOUS
  <2>1. (q # r /\ Gathered(q)) \/ (Pos(r)' = Pos(q)' /\ Gathered(r)')
    BY NewlyGathered
  <2> QED
    BY <1>1, <1>4, <2>1 DEF CountOK
<1>6. Pos(q)' \in {5, 15} /\ iterations'[q] # 0 => count'[q] <= iterations'[q]
  <2>1. CASE q = r
    BY <1>2, <1>3, <2>1
  <2>2. CASE q # r
    BY <1>1, <1>2, <1>4, <2>2 DEF CountOK
  <2> QED
    BY <2>1, <2>2
<1>7. Pos(q)' = 5 /\ (Exec.wearOut)' => \A s \in returned' : count'[q] <= count'[s]
  <2>1. CASE q = r
    <3> SUFFICES ASSUME Pos(r)' = 5, NEW s \in returned
                 PROVE  count[r] <= count[s]
      BY <2>1
    <3>1. s \in Ranks /\ count[r] = 0
      BY <1>1, <1>3 DEF TypeOK
    <3> QED
      BY <1>2, <3>1
  <2>2. CASE q # r
    BY <1>1, <1>2, <1>4, <2>2 DEF CountOK
  <2> QED
    BY <2>1, <2>2
<1>8. ASSUME Pos(q)' \in {3, 4, 5}, NEW s \in Ranks, Round(s)' = Round(q)', 5 < Pos(s)'
      PROVE  s \in returned /\ results[s][rep'[s]] = count[s]
  <2>1. CASE q = r
    <3>1. Pos(r)' = 5 /\ s # r
      BY <1>1, <1>8, <2>1
    <3>2. Pos(r) \in {3, 4, 5} /\ Round(r)' = Round(r)
      BY <1>1, <1>3, <3>1, IntoAccess, WaysOpening
    <3> QED
      BY <1>1, <1>4, <1>8, <2>1, <3>1, <3>2 DEF CountOK
  <2>2. CASE q # r /\ s # r
    BY <1>1, <1>4, <1>8, <2>2 DEF CountOK
  <2>3. CASE q # r /\ s = r
    <3>1. Moves(r) /\ Round(r)' = Round(r) /\ ~EndRep(r) /\ rep' = rep
      BY <1>1, <1>2, <1>8, <2>3
    <3>2. Exec.write
      BY <1>1, <1>8, <2>3, PhaseAsked
    <3>3. 5 < Pos(r)
      BY <1>1, <1>8, <2>3, <3>2, IntoAccess
    <3> QED
      BY <1>1, <1>4, <1>8, <2>3, <3>1, <3>3 DEF CountOK
  <2> QED
    BY <2>1, <2>2, <2>3
<1> QED
  BY <1>2, <1>5, <1>6, <1>7, <1>8 DEF CountOK

(* What the ranks have accessed fits, whatever step a rank takes. *)
LEMMA CountStep ==
    ASSUME SInv, SInv', ~opt.timeLimit, CountInv, NEW r \in Ranks, RankStep(r)
    PROVE  CountInv'
<1>1. /\ PlaceInv /\ PlaceInv' /\ TypeOK /\ TypeOK' /\ SameOptions
      /\ \A t \in Ranks : /\ Pos(t) \in 0 .. 34 /\ Pos(t)' \in 0 .. 34
                          /\ Round(t) \in Nat /\ Round(t)' \in Nat
      /\ \A t \in Ranks : t # r => Pos(t)' = Pos(t) /\ Round(t)' = Round(t) /\ rep'[t] = rep[t]
      /\ Moves(r) \/ EndRep(r)
      /\ Moves(r) => Round(r)' = Round(r) /\ Pos(r) <= Pos(r)'
      /\ EndRep(r) => Pos(r)' = 0
  BY AfterStep
<1>2. /\ \A t \in Ranks : t # r => iterations'[t] = iterations[t] /\ results'[t] = results[t]
      /\ \A t \in Ranks : count[t] \in Nat /\ iterations'[t] \in Nat
      /\ Exec' = Exec /\ returned \subseteq Ranks
  <2>1. \A t \in Ranks : count[t] \in Nat /\ iterations'[t] \in Nat
    BY <1>1, NumbersKnown
  <2>2. Exec' = Exec
    BY <1>1 DEF SameOptions, Exec
  <2>3. returned \subseteq Ranks
    BY <1>1 DEF TypeOK
  <2> QED
    BY <1>1, <2>1, <2>2, <2>3, OthersKeep
<1>3. ASSUME NEW b \in Full, EntersAt(r, b)
      PROVE  CountInv'
  <2>1. /\ Moves(r) /\ Pos(r)' = b /\ ~Return(r) /\ ~Transfer(r)
    <3>1. Moves(r) /\ Pos(r)' = b /\ Pos(r) < b /\ b \in Full
      BY <1>3 DEF EntersAt
    <3>2. Return(r) => b \in {6, 7, 16, 17, 26, 27} /\ ~EnterBarrier(r)
      <4> SUFFICES ASSUME Return(r)
                   PROVE  b \in {6, 7, 16, 17, 26, 27} /\ ~EnterBarrier(r)
        OBVIOUS
      <4>1. b \in {6, 7, 16, 17, 26, 27}
        BY <1>1, <3>1, WaysAccessing
      <4>2. returned' # {} /\ returned' # returned
        BY <1>1, ReturnFacts
      <4> QED
        BY <4>1, <4>2 DEF EnterBarrier, phase
    <3>3. Transfer(r) => Pos(r)' = Pos(r)
      BY <1>1, WaysAccessing
    <3> QED
      BY <1>1, <1>3, <3>1, <3>2, <3>3 DEF EntersAt
  <2>2. /\ \/ count' = count /\ returned' = returned
           \/ Gathered(r)' /\ NothingAccessed
        /\ b # 33 /\ Gathered(r)' => NothingAccessed
    BY <1>3, BarrierPhase
  <2>3. b # 33 => \A t \in Ranks : Round(t)' = Round(r)' => Pos(t)' <= b
    BY <1>3, NobodyPast
  <2>4. CASE Gathered(r)' /\ NothingAccessed
    <3>1. \A t \in Ranks : Round(t)' = Round(r)' /\ b <= Pos(t)'
      BY <2>1, <2>4 DEF Gathered
    <3> SUFFICES ASSUME NEW q \in Ranks
                 PROVE  CountOK(q)'
      BY DEF CountInv
    <3>2. Pos(q)' \in {3, 4, 5} => \A s \in Ranks : ~(5 < Pos(s)')
      <4> SUFFICES ASSUME Pos(q)' \in {3, 4, 5}, NEW s \in Ranks
                   PROVE  ~(5 < Pos(s)')
        OBVIOUS
      <4>1. b \in 0 .. 34 /\ b <= Pos(q)' /\ b # 33
        BY <1>1, <2>1, <3>1
      <4>2. Pos(s)' <= b
        BY <2>3, <3>1, <4>1
      <4> QED
        BY <1>1, <4>1, <4>2
    <3>3. count'[q] = 0 /\ \A s \in Ranks : s \notin returned'
      BY <2>4 DEF NothingAccessed
    <3>4. \A s \in returned' : s \in Ranks
      BY <1>1 DEF TypeOK
    <3>5. iterations'[q] \in Nat
      BY <1>2
    <3> QED
      BY <3>2, <3>3, <3>4, <3>5 DEF CountOK
  <2>5. CASE ~(Gathered(r)' /\ NothingAccessed)
    BY <2>1, <2>2, <2>3, <2>5, CountStays
  <2> QED
    BY <2>4, <2>5
<1>4. ASSUME Transfer(r)
      PROVE  CountInv'
  <2>1. /\ count'[r] = count[r] + 1 /\ returned' = returned /\ r \notin returned
        /\ \A t \in Ranks : t # r => count'[t] = count[t]
        /\ iterations[r] # 0 => count[r] < iterations[r]
        /\ Exec.wearOut => \A s \in returned : count[r] < count[s]
        /\ iterations' = iterations /\ results' = results /\ rep' = rep
    <3>1. count' = [count EXCEPT ![r] = count[r] + 1] /\ count'[r] = count[r] + 1
      BY <1>1, <1>4, AccessTypes
    <3> QED
      BY <1>1, <1>4, <3>1 DEF Transfer, Call!Access, sizes, loop, TypeOK
  <2>2. \A t \in Ranks : Pos(t)' = Pos(t) /\ Round(t)' = Round(t)
    BY <1>4 DEF Transfer, open, loop, Pos, Round
  <2>3. Pos(r) \in {5, 15, 25}
    BY <1>1, <1>4, WaysAccessing
  <2> SUFFICES ASSUME NEW q \in Ranks
               PROVE  CountOK(q)'
    BY DEF CountInv
  <2>4. CountOK(q)
    BY DEF CountInv
  <2>5. Gathered(q)' => Gathered(q)
    BY <2>2 DEF Gathered
  <2>6. \A s \in returned : s \in Ranks /\ count'[s] = count[s]
    BY <1>2, <2>1
  <2>7. Pos(q)' \in {3, 4, 13} /\ Gathered(q)' => count'[q] = 0
    BY <2>1, <2>2, <2>3, <2>4, <2>5 DEF CountOK
  <2>8. Pos(q)' \in {5, 15} /\ iterations'[q] # 0 => count'[q] <= iterations'[q]
    <3>1. CASE q = r
      BY <1>2, <2>1, <3>1
    <3>2. CASE q # r
      BY <1>2, <2>1, <2>2, <2>4, <3>2 DEF CountOK
    <3> QED
      BY <3>1, <3>2
  <2>9. Pos(q)' = 5 /\ (Exec.wearOut)' => \A s \in returned' : count'[q] <= count'[s]
    <3>1. CASE q = r
      BY <1>2, <2>1, <2>6, <3>1
    <3>2. CASE q # r
      BY <1>2, <2>1, <2>2, <2>4, <2>6, <3>2 DEF CountOK
    <3> QED
      BY <3>1, <3>2
  <2>10. Pos(q)' \in {3, 4, 5} =>
           \A s \in Ranks : Round(s)' = Round(q)' /\ 5 < Pos(s)' =>
               s \in returned' /\ results'[s][rep'[s]] = count'[s]
    BY <2>1, <2>2, <2>4, <2>6 DEF CountOK
  <2> QED
    BY <2>7, <2>8, <2>9, <2>10 DEF CountOK
<1>5. ASSUME Return(r)
      PROVE  CountInv'
  <2>1. /\ count' = count /\ returned' = returned \cup {r} /\ r \notin returned
        /\ Exec.wearOut => \A s \in Ranks : count[s] <= count[r]
        /\ results'[r][rep[r]] = IF access[r] = "read" THEN results[r][rep[r]] ELSE count[r]
        /\ iterations' = iterations
    BY <1>1, <1>5, ReturnFacts
  <2>2. /\ rep' = rep /\ Moves(r) /\ Round(r)' = Round(r)
        /\ \/ Pos(r) = 5 /\ Pos(r)' \in {6, 7} /\ access[r] = "write"
           \/ Pos(r) = 15 /\ Pos(r)' \in {16, 17}
           \/ Pos(r) = 25 /\ Pos(r)' \in {26, 27}
    BY <1>1, <1>5, WaysAccessing, Insides DEF InsideKnown, Return, loop
  <2> SUFFICES ASSUME NEW q \in Ranks
               PROVE  CountOK(q)'
    BY DEF CountInv
  <2>3. CountOK(q)
    BY DEF CountInv
  <2>4. Pos(q)' \in {3, 4, 13} /\ Gathered(q)' => count'[q] = 0
    <3> SUFFICES ASSUME Pos(q)' \in {3, 4, 13}, Gathered(q)'
                 PROVE  count[q] = 0
      BY <2>1
    <3>1. (q # r /\ Gathered(q)) \/ (Pos(r)' = Pos(q)' /\ Gathered(r)')
      BY NewlyGathered
    <3>2. q # r /\ Gathered(q) /\ Pos(q)' = Pos(q)
      BY <1>1, <2>2, <3>1
    <3> QED
      BY <2>3, <3>2 DEF CountOK
  <2>5. Pos(q)' \in {5, 15} /\ iterations'[q] # 0 => count'[q] <= iterations'[q]
    BY <1>1, <2>1, <2>2, <2>3 DEF CountOK
  <2>6. Pos(q)' = 5 /\ (Exec.wearOut)' => \A s \in returned' : count'[q] <= count'[s]
    BY <1>1, <1>2, <2>1, <2>2, <2>3 DEF CountOK
  <2>7. ASSUME Pos(q)' \in {3, 4, 5}, NEW s \in Ranks, Round(s)' = Round(q)', 5 < Pos(s)'
        PROVE  s \in returned' /\ results'[s][rep'[s]] = count'[s]
    <3>1. q # r /\ Pos(q)' = Pos(q) /\ Round(q)' = Round(q)
      BY <1>1, <2>2, <2>7
    <3>2. CASE s # r
      BY <1>1, <1>2, <2>1, <2>3, <2>7, <3>1, <3>2 DEF CountOK
    <3>3. CASE s = r
      <4>1. ~(5 < Pos(r))
        BY <2>1, <2>2, <2>3, <2>7, <3>1, <3>3 DEF CountOK
      <4> QED
        BY <1>1, <2>1, <2>2, <3>3, <4>1
    <3> QED
      BY <3>2, <3>3
  <2> QED
    BY <2>4, <2>5, <2>6, <2>7 DEF CountOK
<1>6. ASSUME count' = count, returned' = returned, Pos(r)' \notin {3, 4, 13}, ~Return(r), ~Transfer(r)
      PROVE  CountInv'
  BY <1>6, CountStays
<1> QED
  BY <1>3, <1>4, <1>5, <1>6, Enterings

----------------------------------------------------------------------------
(***************************************************************************)
(* Whose block a rank accesses.                                            *)
(***************************************************************************)
\* An offset moves only where the options ask for it.
LEMMA OffsetsMove ==
    ASSUME TypeOK, TypeOK', PlaceInv, NEW r \in Ranks, RankStep(r), AtName(r)
    PROVE  opt.reorder = "none" => rankOffset'[r] = 0
<1>1. rankOffset \in [Ranks -> 1 - NumTasks .. NumTasks - 1]
  BY DEF TypeOK
<1>2. opt.reorder = "none" => rankOffset[r] = 0
  BY DEF AtName
<1>3. CASE OpenCheck(r)
  BY <1>1, <1>2, <1>3 DEF OpenCheck
<1>4. CASE Reorder(r)
  BY <1>1, <1>4 DEF Reorder, ReadOffsets
<1>5. CASE Close(r)
  <2>1. access[r] \in {"write", "check", "read"}
    BY DEF TypeOK
  <2>2. rankOffset' = rankOffset \/ rankOffset' = [rankOffset EXCEPT ![r] = 0]
    BY <1>5, <2>1 DEF Close
  <2> QED
    BY <1>1, <1>2, <2>2
<1>6. CASE EndRep(r)
  BY <1>1, <1>6 DEF EndRep
<1> QED
  BY <1>2, <1>3, <1>4, <1>5, <1>6, ChangesOfFiles

(* The file a rank has open is that of the rank whose block it accesses. *)
LEMMA AtNameStep ==
    ASSUME SInv, SInv', ~opt.timeLimit, NameInv, AtNameInv, NEW r \in Ranks, RankStep(r)
    PROVE  AtNameInv'
<1>1. /\ PlaceInv /\ TypeOK /\ TypeOK' /\ SameOptions /\ opt' = opt
      /\ \A t \in Ranks : t # r => Pos(t)' = Pos(t) /\ rep'[t] = rep[t]
  BY AfterStep DEF SameOptions
<1>2. /\ \A t \in Ranks : t # r => /\ rankOffset'[t] = rankOffset[t] /\ name'[t] = name[t]
                                   /\ openFile'[t] = openFile[t]
      /\ opt.reorder = "none" => rankOffset'[r] = 0
  BY <1>1, OthersKeep, OffsetsMove DEF AtNameInv
<1> SUFFICES ASSUME NEW q \in Ranks
             PROVE  AtName(q)'
  BY DEF AtNameInv
<1>3. AtName(q) /\ NameOK(q)
  BY DEF AtNameInv, NameInv
<1>4. ASSUME rep'[q] = rep[q], rankOffset'[q] = rankOffset[q]
      PROVE  TestFileName(q, rankOffset[q])' = TestFileName(q, rankOffset[q])
  BY <1>1, <1>4 DEF TestFileName, PretendRank
<1>5. CASE q # r
  BY <1>1, <1>2, <1>3, <1>4, <1>5 DEF AtName
<1>6. CASE q = r /\ Reorder(r)
  <2>1. Pos(r)' = 23
    BY <1>1, <1>6, WaysBefore
  <2>2. rep' = rep
    BY <1>6 DEF Reorder, loop
  <2>3. name'[r] = TestFileName(r, rankOffset[r])'
    <3>1. PICK off \in ReadOffsets(r) : /\ rankOffset' = [rankOffset EXCEPT ![r] = off]
                                        /\ name' = [name EXCEPT ![r] = TestFileName(r, off)]
      BY <1>6 DEF Reorder
    <3>2. rankOffset'[r] = off /\ name'[r] = TestFileName(r, off)
      BY <1>1, <3>1 DEF TypeOK
    <3> QED
      BY <1>1, <2>2, <3>2 DEF TestFileName, PretendRank
  <2> QED
    BY <1>1, <1>2, <1>6, <2>1, <2>3 DEF AtName
<1>7. CASE q = r /\ Create(r)
  <2>1. Pos(r) = 3 /\ Pos(r)' \in {4, 5}
    BY <1>1, <1>7, WaysOpening
  <2>2. rep' = rep /\ rankOffset' = rankOffset /\ openFile'[r] = name[r]
    BY <1>1, <1>7 DEF Create, Opened, loop, naming, TypeOK
  <2>3. name[r] = TestFileName(r, rankOffset[r])
    BY <1>3, <1>7, <2>1 DEF NameOK
  <2> QED
    BY <1>1, <1>2, <1>4, <1>7, <2>1, <2>2, <2>3 DEF AtName
<1>8. CASE q = r /\ OpenCheck(r)
  <2>1. Pos(r)' = 15
    BY <1>1, <1>8, WaysOpening
  <2>2. rep' = rep /\ openFile'[r] = TestFileName(r, rankOffset'[r])
    <3>1. name'[r] = TestFileName(r, rankOffset'[r])
      BY <1>1, <1>8 DEF OpenCheck, TypeOK
    <3> QED
      BY <1>1, <1>8, <3>1 DEF OpenCheck, Opened, loop, TypeOK
  <2>3. openFile'[r] = TestFileName(r, rankOffset[r])'
    BY <1>1, <2>2 DEF TestFileName, PretendRank
  <2> QED
    BY <1>1, <1>2, <1>8, <2>1, <2>3 DEF AtName
<1>9. CASE q = r /\ OpenRead(r)
  <2>1. Pos(r) = 23 /\ Pos(r)' \in {24, 25}
    BY <1>1, <1>9, WaysOpening
  <2>2. rep' = rep /\ rankOffset' = rankOffset /\ openFile'[r] = name[r]
    BY <1>1, <1>9 DEF OpenRead, Opened, loop, naming, TypeOK
  <2> QED
    BY <1>1, <1>2, <1>3, <1>4, <1>9, <2>1, <2>2 DEF AtName
<1>10. CASE q = r /\ OpenDone(r)
  <2>1. Pos(r) \in {4, 24} /\ Pos(r)' \in {5, 25}
    BY <1>1, <1>10, WaysOpening
  <2>2. rep' = rep /\ rankOffset' = rankOffset /\ openFile' = openFile
    BY <1>1, <1>10 DEF OpenDone, Passes, loop, naming, open
  <2> QED
    BY <1>1, <1>2, <1>3, <1>4, <1>10, <2>1, <2>2 DEF AtName
<1>11. CASE q = r /\ Transfer(r)
  <2>1. Pos(r)' = Pos(r) /\ Pos(r) \in {5, 15, 25}
    BY <1>1, <1>11, WaysAccessing
  <2>2. rep' = rep /\ rankOffset' = rankOffset /\ openFile' = openFile
    BY <1>1, <1>11 DEF Transfer, loop, naming, open
  <2> QED
    BY <1>1, <1>2, <1>3, <1>4, <1>11, <2>1, <2>2 DEF AtName
<1>12. CASE q = r /\ ~(\/ Reorder(r) \/ Create(r) \/ OpenCheck(r) \/ OpenRead(r) \/ OpenDone(r)
                       \/ Transfer(r))
  <2>1. Pos(r)' \notin {23, 4, 5, 15, 24, 25}
    BY <1>1, <1>12, IntoAccess
  <2> QED
    BY <1>1, <1>2, <1>12, <2>1 DEF AtName
<1> QED
  BY <1>5, <1>6, <1>7, <1>8, <1>9, <1>10, <1>11, <1>12

----------------------------------------------------------------------------
(***************************************************************************)
(* The time stamps.                                                        *)
(***************************************************************************)
(* Who has got the stamp of a repetition, or the number in the status file,*)
(* from rank 0 is behind it.                                               *)
LEMMA RootFirst ==
    ASSUME SInv, NEW q \in Ranks, NEW a \in {1, 21}, Pos(q) = a, Active(a), RootArrived(q)
    PROVE  \/ Round(0) = Round(q) + 1
           \/ Round(0) = Round(q) /\ a < Pos(0)
<1>1. TypeOK /\ ErrorInv /\ PlaceInv /\ 0 \in Ranks /\ Near(0, q) /\ Near(q, 0)
  BY Numbers DEF SInv, NearInv
<1>2. /\ Len(calls[q]) \in Nat /\ Len(calls[0]) \in Nat /\ Anchor(q) \in Int /\ Anchor(0) \in Int
      /\ Len(calls[q]) = Anchor(q) + Cardinality(Seen(q))
      /\ Len(calls[0]) = Anchor(0) + Cardinality(Seen(0))
      /\ Cardinality(Seen(q)) \in Nat /\ Cardinality(Seen(0)) \in Nat
      /\ IsFiniteSet(Seen(q))
  BY <1>1, SeenFacts
<1>3. Len(calls[q]) <= Len(calls[0])
  BY <1>2 DEF RootArrived, InSameCall
<1>4. Round(q) \in Nat /\ Round(0) \in Nat /\ Pos(0) \in 0 .. 34 /\ Pos(0) # a
  BY <1>1, PlaceTypes, PhaseAsked
<1>5. a \in Seen(q)
  BY SeenElements DEF Asked
<1>6. Cardinality(Seen(q)) # 0
  BY <1>2, <1>5, FS_EmptySet
<1>7. Round(q) # Round(0) + 1
  BY <1>1, <1>2, <1>3, <1>6 DEF Near
<1>8. ASSUME Round(0) = Round(q)
      PROVE  a < Pos(0)
  <2>1. Anchor(0) = Anchor(q)
    BY <1>1, <1>8 DEF Near
  <2>2. ~(Pos(0) < a)
    <3>1. Cardinality(Seen(q)) <= Cardinality(Seen(0))
      BY <1>2, <1>3, <2>1
    <3>2. Pos(0) < a => Cardinality(Seen(0)) < Cardinality(Seen(q))
      BY <1>1, <1>5, <1>8, FewerSeen
    <3> QED
      BY <1>2, <3>1, <3>2
  <2> QED
    BY <1>4, <2>2
<1>9. Round(q) <= Round(0) + 1 /\ Round(0) <= Round(q) + 1
  BY <1>1 DEF Near
<1> QED
  BY <1>4, <1>7, <1>8, <1>9

\* Where a repetition ends all ranks are at its end, or in the next one.
LEMMA EndTogether ==
    ASSUME SInv, NEW r \in Ranks, EndRep(r), NEW t \in Ranks
    PROVE  /\ Pos(r) = 34
           /\ \/ Round(t) = Round(r) /\ Pos(t) = 34
              \/ Round(t) = Round(r) + 1
<1>1. TypeOK /\ NearInv /\ ErrorInv
  BY DEF SInv
<1>2. Pos(r) = 34 /\ AllArrived(r)
  BY <1>1, Places DEF PlacesKnown, EndRep
<1>3. 34 \in Full /\ Asked(r, 34)
  BY DEF Full, Asked, Active
<1>4. (Round(t) = Round(r) /\ 34 <= Pos(t)) \/ (Round(t) = Round(r) + 1 /\ 34 = 34)
  BY <1>1, <1>2, <1>3, Met
<1> QED
  BY <1>1, <1>2, <1>4, PlaceTypes

\* The repetition after the end of one.
LEMMA EndRepRound ==
    ASSUME TypeOK, NEW r \in Ranks, EndRep(r)
    PROVE  Round(r)' = Round(r) + 1 /\ Round(r) = rep[r]
<1>1. rep[r] \in Nat /\ pc[r] = "repWait" /\ Round(r) = rep[r]
  BY DEF TypeOK, Repetitions, EndRep, Round
<1>2. CASE rep[r] + 1 \in Repetitions
  <2>1. rep'[r] = rep[r] + 1 /\ pc'[r] = "start"
    BY <1>2, OthersAre DEF EndRep, TypeOK
  <2> QED
    BY <1>1, <2>1 DEF Round
<1>3. CASE rep[r] + 1 \notin Repetitions
  <2>1. rep' = rep /\ pc'[r] = "finish"
    BY <1>3, OthersAre DEF EndRep
  <2> QED
    BY <1>1, <2>1 DEF Round
<1> QED
  BY <1>2, <1>3

\* How a stamp changes.
LEMMA StampChanges ==
    ASSUME TypeOK, NEW r \in Ranks, RankStep(r), \A t \in Ranks : StampOK(t)
    PROVE  /\ opt.signature => stamp'[r] = 0
           /\ StampKnown(r) => stamp'[r] = stamp[0]
<1>1. stamp \in [Ranks -> Nat] /\ 0 \in Ranks
  BY Numbers DEF TypeOK
<1>2. StampOK(r) /\ StampOK(0)
  BY <1>1
<1>3. CASE StartRep(r)
  BY <1>1, <1>2, <1>3 DEF StartRep, StampOK, StampKnown
<1>4. CASE StampKnown(r)
  BY <1>1, <1>2, <1>4 DEF StampKnown, StampOK
<1>5. CASE stamp' = stamp /\ ~StampKnown(r)
  BY <1>2, <1>5 DEF StampOK
<1> QED
  BY <1>3, <1>4, <1>5, ChangesOfRun

\* The steps from the beginning of a repetition.
LEMMA FromStart ==
    ASSUME TypeOK, TypeOK', PlaceInv, ~opt.timeLimit, NEW r \in Ranks, RankStep(r)
    PROVE  1 < Pos(r) \/ StartRep(r) \/ StampKnown(r) \/ ShowTestEnd(r)
<1>1. CASE \/ Skip(r) \/ BeginWrite(r) \/ BeginCheck(r) \/ BeginRead(r) \/ StatusKnown(r)
           \/ Reorder(r)
  BY <1>1, WaysBefore
<1>2. CASE Create(r) \/ OpenCheck(r) \/ OpenRead(r) \/ OpenDone(r)
  BY <1>2, WaysOpening
<1>3. CASE Transfer(r) \/ Return(r) \/ ErrorsKnown(r) \/ AccessDone(r)
  BY <1>3, WaysAccessing
<1>4. CASE \/ Close(r) \/ Closed(r) \/ SizeKnown(r) \/ Reported(r) \/ BeforeRemove(r)
           \/ Remove(r) \/ EndRep(r)
  BY <1>4, WaysAfter
<1> QED
  BY <1>1, <1>2, <1>3, <1>4 DEF RankStep

(* All ranks in a repetition have the stamp rank 0 has given it. *)
LEMMA StampStep ==
    ASSUME SInv, SInv', ~opt.timeLimit, StampInv, NEW r \in Ranks, RankStep(r)
    PROVE  StampInv'
<1>1. /\ PlaceInv /\ PlaceInv' /\ TypeOK /\ TypeOK' /\ opt' = opt /\ 0 \in Ranks
      /\ \A t \in Ranks : /\ Pos(t) \in 0 .. 34 /\ Pos(t)' \in 0 .. 34
                          /\ Round(t) \in Nat /\ Round(t)' \in Nat
      /\ \A t \in Ranks : t # r => Pos(t)' = Pos(t) /\ Round(t)' = Round(t)
      /\ Moves(r) \/ EndRep(r)
      /\ Moves(r) => Round(r)' = Round(r) /\ Pos(r) <= Pos(r)'
      /\ EndRep(r) => Pos(r)' = 0
  BY AfterStep, Numbers DEF SameOptions
<1>2. /\ \A t \in Ranks : t # r => stamp'[t] = stamp[t]
      /\ opt.signature => stamp'[r] = 0
      /\ StampKnown(r) => stamp'[r] = stamp[0]
      /\ stamp' = stamp \/ StartRep(r) \/ StampKnown(r)
  BY <1>1, OthersKeep, StampChanges, ChangesOfRun DEF StampInv
<1> SUFFICES ASSUME NEW q \in Ranks
             PROVE  StampOK(q)'
  BY DEF StampInv
<1>3. StampOK(q)
  BY DEF StampInv
<1>4. opt.signature => stamp'[q] = 0
  BY <1>2, <1>3 DEF StampOK
<1> SUFFICES ASSUME 1 < Pos(q)'
             PROVE  \/ Round(0)' = Round(q)' + 1
                    \/ Round(0)' = Round(q)' /\ 1 < Pos(0)' /\ stamp'[q] = stamp'[0]
  BY <1>1, <1>4 DEF StampOK
<1>5. CASE q = 0
  BY <1>5
<1>6. CASE q # 0 /\ q # r /\ 0 # r
  BY <1>1, <1>2, <1>3, <1>6 DEF StampOK
<1>7. CASE q # 0 /\ r = 0 /\ StartRep(r)
  <2>1. Pos(r) = 0
    BY <1>1, <1>7, WaysBefore
  <2>2. Round(0) = Round(q) + 1
    BY <1>1, <1>3, <1>7, <2>1 DEF StampOK
  <2>3. Moves(r)
    BY <1>1, <1>7, WaysBefore, WaysAfter
  <2> QED
    BY <1>1, <1>7, <2>2, <2>3
<1>8. CASE q # 0 /\ r = 0 /\ EndRep(r)
  <2>1. Round(r)' = Round(r) + 1
    BY <1>1, <1>8, EndRepRound
  <2>2. Round(q) = Round(r) \/ Round(q) = Round(r) + 1
    BY <1>8, EndTogether
  <2> QED
    BY <1>1, <1>3, <1>8, <2>1, <2>2 DEF StampOK
<1>9. CASE q # 0 /\ r = 0 /\ ~StartRep(r) /\ ~EndRep(r)
  <2>1. ~StampKnown(r)
    BY <1>1, <1>9, WaysBefore, PhaseAsked
  <2>2. stamp' = stamp
    BY <1>2, <1>9, <2>1
  <2> QED
    BY <1>1, <1>3, <1>9, <2>2 DEF StampOK
<1>10. CASE q # 0 /\ q = r /\ StampKnown(r)
  <2>1. Pos(r) = 1 /\ Pos(r)' = 2 /\ RootArrived(r)
    BY <1>1, <1>10, WaysBefore DEF StampKnown
  <2>2. \/ Round(0) = Round(q) + 1
        \/ Round(0) = Round(q) /\ 1 < Pos(0)
    <3>1. Active(1)
      BY DEF Active
    <3> QED
      BY <1>10, <2>1, <3>1, RootFirst
  <2> QED
    BY <1>1, <1>2, <1>10, <2>1, <2>2
<1>11. CASE q # 0 /\ q = r /\ ~StampKnown(r)
  <2>1. Moves(r) /\ 1 < Pos(r)
    <3>1. Moves(r)
      BY <1>1, <1>11
    <3>2. ~StartRep(r) /\ ~ShowTestEnd(r)
      BY <1>1, <1>11, WaysBefore, WaysAfter
    <3>3. 1 < Pos(r)
      BY <1>1, <1>11, <3>2, FromStart
    <3> QED
      BY <3>1, <3>3
  <2>2. stamp' = stamp
    BY <1>1, <1>2, <1>11, WaysBefore
  <2> QED
    BY <1>1, <1>3, <1>11, <2>1, <2>2 DEF StampOK
<1> QED
  BY <1>5, <1>6, <1>7, <1>8, <1>9, <1>10, <1>11

----------------------------------------------------------------------------
(***************************************************************************)
(* What the sound options exclude.                                         *)
(***************************************************************************)
\* In this execution.
LEMMA SoundHere ==
    ASSUME Sound, TypeOK
    PROVE  /\ ~opt.timeLimit
           /\ ~Exec.write => opt.keepFile /\ Writers # {}
           /\ ~Exec.write /\ Exec.checkWrite => opt.signature
           /\ Exec.write /\ Exec.deadline /\ ~Exec.wearOut => opt.reorder = "none"
           /\ ~Exec.write => \A m \in Writers : opt.executions[m].deadline =>
                  ~Exec.checkWrite /\ Exec.status /\ opt.executions[m].status
           /\ Exec.status /\ Exec.write => opt.repetitions = 1 /\ ~Reads(Exec)
           /\ Exec.status /\ Exec.wearOut => Exec.write
<1>1. opt \in Options /\ execution \in DOMAIN opt.executions /\ SoundOption(opt)
  BY DEF TypeOK, Sound
<1>2. Earlier(opt, execution) = Writers
  BY DEF Earlier, Writers
<1>3. opt.repetitions \in Nat \ {0}
  BY <1>1, OptionTypes
<1>4. ~opt.timeLimit
  BY <1>1 DEF SoundOption, ByClock
<1>5. ~Exec.write => opt.keepFile /\ Writers # {}
  BY <1>1, <1>2 DEF SoundOption, NothingToRead, Exec
<1>6. ~Exec.write /\ Exec.checkWrite => opt.signature
  BY <1>1 DEF SoundOption, UnknownStamp, Exec
<1>7. Exec.write /\ Exec.deadline /\ ~Exec.wearOut => opt.reorder = "none"
  BY <1>1 DEF SoundOption, UnknownLength, Exec
<1>8. ~Exec.write => \A m \in Writers : opt.executions[m].deadline =>
         ~Exec.checkWrite /\ Exec.status /\ opt.executions[m].status
  BY <1>1, <1>2 DEF SoundOption, UnknownLength, Exec
<1>9. Exec.status /\ Exec.write => ~(opt.repetitions > 1) /\ ~Reads(Exec)
  BY <1>1 DEF SoundOption, StaleStatus, Exec
<1>10. Exec.status /\ Exec.wearOut => Exec.write
  BY <1>1 DEF SoundOption, StaleStatus, Exec
<1>11. Exec.status /\ Exec.write => opt.repetitions = 1 /\ ~Reads(Exec)
  BY <1>3, <1>9
<1> QED
  BY <1>4, <1>5, <1>6, <1>7, <1>8, <1>10, <1>11

----------------------------------------------------------------------------
(***************************************************************************)
(* How much the ranks have written.                                        *)
(***************************************************************************)
\* While it writes, no limit of another phase holds for a rank.
LEMMA NoLimit ==
    ASSUME SInv, SInv', ~opt.timeLimit, NEW r \in Ranks, RankStep(r),
           Pos(r) \in 3 .. 11 => iterations[r] = 0
    PROVE  Pos(r)' \in 3 .. 11 => iterations'[r] = 0
<1>1. TypeOK /\ TypeOK' /\ PlaceInv /\ Pos(r) \in 0 .. 34 /\ Pos(r)' \in 0 .. 34
  BY AfterStep
<1>2. CASE BeginWrite(r)
  BY <1>1, <1>2 DEF BeginWrite, TypeOK
<1>3. CASE BeginRead(r) \/ StatusKnown(r) \/ Reported(r)
  BY <1>1, <1>3, WaysBefore, WaysAfter
<1>4. CASE iterations' = iterations /\ ~BeginWrite(r)
  <2> SUFFICES ASSUME Pos(r)' \in 3 .. 11
               PROVE  Pos(r) \in 3 .. 11
    BY <1>4
  <2>1. CASE Pos(r)' \in {3, 4, 5}
    BY <1>1, <1>4, <2>1, IntoAccess, WaysOpening, WaysAccessing
  <2>2. CASE Pos(r)' \in 6 .. 11
    BY <1>1, <2>2, IntoAccess, WaysAccessing
  <2> QED
    BY <2>1, <2>2
<1> QED
  BY <1>2, <1>3, <1>4, ChangesOfRun

(* A rank has written what it has, or it has just come to its end. *)
LEMMA WrittenStays ==
    ASSUME Sound, SInv, SInv', Exec.write, NEW r \in Ranks, RankStep(r), WrittenOK(r), Through(r)'
    PROVE  /\ rep'[r] = rep[r]
           /\ \/ Through(r) /\ Written(r)' = Written(r)
              \/ Return(r) /\ Pos(r) = 5 /\ ~Through(r) /\ Written(r)' = count[r]
<1>1. /\ ~opt.timeLimit /\ (Exec.status => ~Reads(Exec))
  BY SoundHere DEF SInv
<1>2. /\ TypeOK /\ TypeOK' /\ PlaceInv /\ PlaceInv' /\ SameOptions
      /\ Pos(r) \in 0 .. 34 /\ Pos(r)' \in 0 .. 34
  BY <1>1, AfterStep
<1>3. (Exec.deadline)' = Exec.deadline
  BY <1>2 DEF SameOptions, Exec
<1>4. Pos(r) \in 1 .. 34 => pc[r] \notin {"finish", "end"}
  BY <1>2, OuterPlaces
<1>5. Pos(r)' \in 1 .. 34 => pc'[r] \notin {"finish", "end"}
  BY <1>2, NextPlaces DEF PlacesKnown
<1>6. CASE Return(r)
  <2>1. /\ rep' = rep /\ iterations' = iterations
        /\ \/ Pos(r) = 5 /\ Pos(r)' \in {6, 7} /\ access[r] = "write"
           \/ Pos(r) = 15 /\ Pos(r)' \in {16, 17}
           \/ Pos(r) = 25 /\ Pos(r)' \in {26, 27}
    BY <1>1, <1>2, <1>6, WaysAccessing, Insides DEF InsideKnown, Return, loop
  <2>2. results'[r][rep[r]] = IF access[r] = "read" THEN results[r][rep[r]] ELSE count[r]
    BY <1>2, <1>6, ReturnFacts
  <2>3. CASE Pos(r) = 5
    <3>1. Written(r)' = results'[r][rep[r]]
      BY <2>1, <2>3 DEF Written
    <3>2. ~Through(r)
      BY <1>4, <2>3 DEF Through
    <3> QED
      BY <1>6, <2>1, <2>2, <2>3, <3>1, <3>2
  <2>4. CASE Pos(r) \in {15, 25}
    <3>1. Written(r)' = Written(r)
      BY <1>3, <2>1, <2>4 DEF Written
    <3>2. Through(r)
      BY <2>4 DEF Through
    <3> QED
      BY <2>1, <3>1, <3>2
  <2> QED
    BY <2>1, <2>3, <2>4
<1>7. CASE Reported(r)
  <2>1. /\ rep' = rep /\ results' = results
        /\ \/ Pos(r) = 11 /\ Pos(r)' = 12 /\ access[r] = "write"
           \/ Pos(r) = 31 /\ Pos(r)' = 32 /\ access[r] = "read"
    BY <1>1, <1>2, <1>7, WaysAfter DEF Reported, loop
  <2>2. iterations'[r] = IF access[r] = "write" /\ Exec.deadline THEN results[r][rep[r]]
                         ELSE iterations[r]
    BY <1>2, <1>7 DEF Reported, Limit, TypeOK
  <2>3. Through(r)
    BY <2>1 DEF Through
  <2>4. CASE Pos(r) = 11
    <3>1. Written(r) = results[r][rep[r]] /\ (Exec.deadline \/ Written(r) = Transfers)
      BY <2>3, <2>4 DEF WrittenOK, Written
    <3>2. Written(r)' = IF Exec.deadline THEN iterations'[r] ELSE Transfers
      BY <1>3, <2>1, <2>4 DEF Written
    <3> QED
      BY <2>1, <2>2, <2>3, <2>4, <3>1, <3>2
  <2>5. CASE Pos(r) = 31
    <3>1. Written(r)' = Written(r)
      BY <1>3, <2>1, <2>2, <2>5 DEF Written
    <3> QED
      BY <2>1, <2>3, <3>1
  <2> QED
    BY <2>1, <2>4, <2>5
<1>8. CASE EndRep(r) \/ ShowTestEnd(r)
  <2>1. Pos(r)' = 0 /\ Pos(r) \in {34, 0}
    BY <1>1, <1>2, <1>8, WaysAfter
  <2>2. pc'[r] \in {"finish", "end"}
    BY <2>1 DEF Through
  <2>3. rep' = rep
    BY <1>2, <1>8, <2>2, OthersAre DEF EndRep, ShowTestEnd, loop
  <2>4. Through(r)
    BY <1>8, <2>1, <1>1, <1>2, WaysAfter DEF Through, ShowTestEnd
  <2>5. iterations' = iterations
    BY <1>8 DEF EndRep, ShowTestEnd, sizes
  <2>6. Written(r)' = Written(r)
    BY <1>3, <2>1, <2>5 DEF Written
  <2> QED
    BY <2>3, <2>4, <2>6
<1>9. CASE ~Return(r) /\ ~Reported(r) /\ ~EndRep(r) /\ ~ShowTestEnd(r)
  <2>1. rep' = rep /\ results' = results
    BY <1>9, ChangesOfRun
  <2>2. Pos(r)' \in 6 .. 34
    <3>1. Pos(r)' # 0
      BY <1>1, <1>2, <1>9, IntoAccess
    <3> QED
      BY <1>2, <1>5, <3>1 DEF Through
  <2>3. CASE Pos(r)' \in 6 .. 11
    <3>1. Pos(r) \in 6 .. 10
      BY <1>1, <1>2, <1>9, <2>3, IntoAccess
    <3> QED
      BY <2>1, <2>3, <3>1 DEF Written, Through
  <2>4. CASE Pos(r)' \in 12 .. 34
    <3>1. Pos(r) \in 11 .. 34
      BY <1>1, <1>2, <2>4, IntoAccess
    <3>2. Pos(r) # 11
      BY <1>1, <1>2, <1>9, <2>4, From11
    <3>3. iterations' = iterations
      <4>1. ~BeginWrite(r) /\ ~StatusKnown(r)
        BY <1>1, <1>2, <2>4, WaysBefore, PhaseAsked DEF StatusKnown, PlaceInv, PlaceOK
      <4>2. BeginRead(r) => iterations' = iterations
        BY <1>1, <1>2, WaysBefore DEF BeginRead
      <4> QED
        BY <1>9, <4>1, <4>2, ChangesOfRun
    <3> QED
      BY <1>3, <2>1, <2>4, <3>1, <3>2, <3>3 DEF Written, Through
  <2> QED
    BY <2>2, <2>3, <2>4
<1> QED
  BY <1>6, <1>7, <1>8, <1>9

(* What the ranks have written fits, whatever step a rank takes. *)
LEMMA WrittenStep ==
    ASSUME Sound, SInv, SInv', CountInv, WrittenInv, NEW r \in Ranks, RankStep(r)
    PROVE  WrittenInv'
<1>1. ~opt.timeLimit
  BY SoundHere DEF SInv
<1>2. /\ TypeOK /\ TypeOK' /\ PlaceInv /\ PlaceInv' /\ SameOptions /\ NearInv
      /\ \A t \in Ranks : /\ Pos(t) \in 0 .. 34 /\ Round(t) \in Nat
                          /\ t # r => /\ Pos(t)' = Pos(t) /\ pc'[t] = pc[t] /\ rep'[t] = rep[t]
                                      /\ Round(t)' = Round(t)
  BY <1>1, AfterStep DEF SInv
<1>3. Exec' = Exec
  BY <1>2 DEF SameOptions, Exec
<1> SUFFICES ASSUME Exec.write, NEW q \in Ranks
             PROVE  WrittenOK(q)'
  BY <1>3 DEF WrittenInv
<1>4. \A t \in Ranks : WrittenOK(t)
  BY DEF WrittenInv
<1>5. ASSUME NEW t \in Ranks, t # r
      PROVE  (Through(t)' <=> Through(t)) /\ Written(t)' = Written(t) /\ rep'[t] = rep[t]
  <2>1. iterations'[t] = iterations[t] /\ results'[t] = results[t]
    BY <1>2, <1>5, OthersKeep
  <2> QED
    BY <1>2, <1>3, <1>5, <2>1 DEF Through, Written
<1>6. ASSUME Through(r)'
      PROVE  /\ rep'[r] = rep[r]
             /\ \/ Through(r) /\ Written(r)' = Written(r)
                \/ Return(r) /\ Pos(r) = 5 /\ ~Through(r) /\ Written(r)' = count[r]
  BY <1>4, <1>6, WrittenStays
<1>7. ASSUME Return(r), Pos(r) = 5, Exec.wearOut, NEW t \in Ranks, t # r, rep[t] = rep[r], Through(t)
      PROVE  Written(t) = count[r]
  <2>1. Round(r) = rep[r] /\ Near(r, t)
    BY <1>2, <1>7, RoundIs DEF NearInv
  <2>2. pc[t] \notin {"finish", "end"}
    <3>1. pc[t] \in {"finish", "end"} => Round(t) = Round(r) + 1
      BY <1>7, <2>1 DEF Round
    <3> QED
      BY <1>7, <2>1, <3>1 DEF Near
  <2>3. 6 <= Pos(t) /\ Round(t) = Round(r)
    BY <1>7, <2>1, <2>2 DEF Through, Round
  <2>4. 9 \in Full /\ Asked(t, 9)
    BY DEF Full, Asked, Active
  <2>5. Pos(t) \in 6 .. 9
    BY <1>2, <1>7, <2>1, <2>3, <2>4 DEF Near, Behind
  <2>6. t \in returned /\ Written(t) = count[t] /\ count[r] <= count[t]
    <3>1. CountOK(r)
      BY DEF CountInv
    <3> QED
      BY <1>7, <2>3, <2>5, <3>1 DEF CountOK, Written
  <2>7. count[t] <= count[r]
    BY <1>2, <1>7, ReturnFacts
  <2>8. count[t] \in Nat /\ count[r] \in Nat
    BY <1>2, NumbersKnown
  <2> QED
    BY <2>6, <2>7, <2>8
<1>8. Pos(q)' \in 3 .. 11 => iterations'[q] = 0
  <2>1. CASE q = r
    BY <1>1, <1>4, <2>1, NoLimit DEF WrittenOK
  <2>2. CASE q # r
    BY <1>2, <1>4, <2>2, OthersKeep DEF WrittenOK
  <2> QED
    BY <2>1, <2>2
<1>9. Through(q)' => /\ Written(q)' \in 1 .. Transfers
                     /\ Exec.deadline \/ Written(q)' = Transfers
  <2>1. CASE q # r
    BY <1>4, <1>5, <2>1 DEF WrittenOK
  <2>2. CASE q = r /\ Through(r)' /\ Through(r) /\ Written(r)' = Written(r)
    BY <1>4, <2>2 DEF WrittenOK
  <2>3. CASE q = r /\ Return(r) /\ Pos(r) = 5 /\ Written(r)' = count[r]
    <3>1. count[r] \in 1 .. Transfers /\ (Exec.deadline \/ count[r] \in {Transfers, iterations[r]})
      BY <1>2, <2>3, ReturnFacts
    <3>2. iterations[r] = 0
      BY <1>4, <2>3 DEF WrittenOK
    <3> QED
      BY <2>3, <3>1, <3>2
  <2> QED
    BY <1>6, <2>1, <2>2, <2>3
<1>10. ASSUME Exec.wearOut, Through(q)', NEW s \in Ranks, rep'[s] = rep'[q], Through(s)'
       PROVE  Written(s)' = Written(q)'
  <2>1. \A t, u \in Ranks : Through(t) /\ Through(u) /\ rep[t] = rep[u] => Written(t) = Written(u)
    BY <1>4, <1>10 DEF WrittenOK
  <2>2. CASE q # r /\ s # r
    BY <1>5, <1>10, <2>1, <2>2
  <2>3. CASE q = r /\ s = r
    BY <2>3
  <2>4. CASE q = r /\ s # r
    BY <1>5, <1>6, <1>7, <1>10, <2>1, <2>4
  <2>5. CASE q # r /\ s = r
    BY <1>5, <1>6, <1>7, <1>10, <2>1, <2>5
  <2> QED
    BY <2>2, <2>3, <2>4, <2>5
<1> QED
  BY <1>3, <1>8, <1>9, <1>10 DEF WrittenOK

----------------------------------------------------------------------------
(***************************************************************************)
(* What is in the files.                                                   *)
(***************************************************************************)
(* Who begins to write is the first one in the repetition, or meets others *)
(* before the write.                                                       *)
LEMMA NobodyBeyondWrite ==
    ASSUME SInv, ~opt.timeLimit, NEW r \in Ranks, BeginWrite(r), NEW s \in Ranks
    PROVE  Pos(s) \in (0 .. 3) \cup {34}
<1>1. TypeOK /\ NearInv /\ Near(r, s) /\ Near(s, r)
  BY DEF SInv, NearInv
<1>2. Pos(r) = 2 /\ Exec.write
  BY <1>1, Places DEF PlacesKnown, BeginWrite, Takes, Wanted
<1>3. 3 \in Full /\ Asked(s, 3)
  BY <1>2 DEF Full, Asked, Active
<1>4. Pos(s) \in 0 .. 34 /\ Round(s) \in Nat /\ Round(r) \in Nat
  BY <1>1, PlaceTypes
<1> SUFFICES ASSUME 3 < Pos(s), Pos(s) # 34
             PROVE  FALSE
  BY <1>4
<1>5. Round(s) = Round(r)
  BY <1>1, <1>2, <1>4 DEF Near
<1> QED
  BY <1>1, <1>2, <1>3, <1>5 DEF Near, Behind

\* Who makes a file meets nobody who has come to the end of the write.
LEMMA NobodyBeyondCreate ==
    ASSUME SInv, NEW r \in Ranks, Create(r), NEW s \in Ranks
    PROVE  Round(s) = Round(r) /\ Pos(s) \in 3 .. 9
<1>1. TypeOK /\ PlaceInv /\ Near(r, s) /\ AllArrived(r) /\ pc[r] = "writeWait"
  BY DEF SInv, NearInv, Create
<1>2. Pos(r) = 3 /\ Exec.write /\ Active(3) /\ Active(9) /\ 9 \in Full
  BY <1>1, Places DEF PlacesKnown, PlaceInv, PlaceOK, Active, Full
<1>3. Round(s) = Round(r) /\ 3 <= Pos(s)
  BY <1>1, <1>2, AllGathered DEF Gathered
<1>4. ~(9 < Pos(s))
  BY <1>1, <1>2, <1>3 DEF Near, Behind, Asked
<1> QED
  BY <1>1, <1>3, <1>4, PlaceTypes

\* What an access does to the files.
LEMMA WritesOwn ==
    ASSUME SInv, TypeOK', NameInv, AtNameInv, NEW r \in Ranks, Transfer(r)
    PROVE  /\ DOMAIN files' = DOMAIN files
           /\ access[r] # "write" => files' = files
           /\ access[r] = "write" =>
                /\ Pos(r) = 5 /\ openFile[r] = FileOf(r, rep[r])
                /\ \A n \in DOMAIN files, w \in Ranks, j \in Positions :
                     files'[n][w][j] = IF n = openFile[r] /\ w = r /\ j = count[r] + 1
                                       THEN stamp[r] ELSE files[n][w][j]
<1>1. TypeOK /\ PlaceInv /\ pc[r] = "access"
  BY DEF SInv, Transfer
<1>2. access[r] # "write" => files' = files
  BY DEF Transfer
<1>3. ASSUME access[r] = "write"
      PROVE  /\ Pos(r) = 5 /\ openFile[r] = FileOf(r, rep[r])
             /\ DOMAIN files' = DOMAIN files
             /\ \A n \in DOMAIN files, w \in Ranks, j \in Positions :
                  files'[n][w][j] = IF n = openFile[r] /\ w = r /\ j = count[r] + 1
                                    THEN stamp[r] ELSE files[n][w][j]
  <2>1. Pos(r) = 5 /\ NameOK(r) /\ AtName(r)
    BY <1>1, <1>3, WaysWithin DEF NameInv, AtNameInv
  <2>2. rankOffset[r] = 0 /\ openFile[r] = TestFileName(r, rankOffset[r])
    BY <2>1 DEF NameOK, AtName
  <2>3. PretendRank(r, rankOffset[r]) = r
    <3>1. r \in Int
      BY Numbers
    <3> QED
      BY <2>2, <3>1, RankIsReduced DEF PretendRank
  <2>4. openFile[r] = FileOf(r, rep[r])
    BY <1>1, <2>2, NameFacts
  <2>5. count'[r] = count[r] + 1
    BY <1>1, AccessTypes
  <2>6. files' = IF openFile[r] \in DOMAIN files
                 THEN [files EXCEPT ![openFile[r]][r][count[r] + 1] = stamp[r]] ELSE files
    BY <1>3, <2>3, <2>5 DEF Transfer
  <2>7. \A n \in DOMAIN files : files[n] \in [Ranks -> [Positions -> Cells]]
    BY <1>1 DEF TypeOK
  <2>8. \A n \in DOMAIN files, w \in Ranks, j \in Positions :
            files'[n][w][j] = IF n = openFile[r] /\ w = r /\ j = count[r] + 1
                              THEN stamp[r] ELSE files[n][w][j]
    <3>1. CASE openFile[r] \in DOMAIN files
      <4> DEFINE n0 == openFile[r]
                 k0 == count[r] + 1
      <4>1. ASSUME NEW n \in DOMAIN files
            PROVE  files'[n] = IF n = n0
                               THEN [files[n0] EXCEPT ![r] = [files[n0][r] EXCEPT ![k0] = stamp[r]]]
                               ELSE files[n]
        BY <2>6, <3>1
      <4>2. files[n0] \in [Ranks -> [Positions -> Cells]]
        BY <2>7, <3>1
      <4> HIDE DEF n0, k0
      <4>3. ASSUME NEW n \in DOMAIN files, NEW w \in Ranks, NEW j \in Positions
            PROVE  files'[n][w][j] = IF n = n0 /\ w = r /\ j = k0 THEN stamp[r] ELSE files[n][w][j]
        BY <4>1, <4>2
      <4> QED
        BY <4>3 DEF n0, k0
    <3>2. CASE openFile[r] \notin DOMAIN files
      BY <2>6, <3>2
    <3> QED
      BY <3>1, <3>2
  <2> QED
    BY <2>1, <2>4, <2>6, <2>8
<1> QED
  BY <1>2, <1>3

\* What other steps do to them.
LEMMA FilesGo ==
    ASSUME SInv, NEW r \in Ranks, RankStep(r), ~Transfer(r)
    PROVE  /\ \A n \in DOMAIN files \cap DOMAIN files' : files'[n] = files[n]
           /\ ~Create(r) => DOMAIN files' \subseteq DOMAIN files
           /\ Create(r) => /\ DOMAIN files' = DOMAIN files \cup {name[r]}
                           /\ name[r] \notin DOMAIN files => files'[name[r]] = Empty
           /\ ~BeginWrite(r) /\ ~Remove(r) => DOMAIN files \subseteq DOMAIN files'
<1>1. CASE BeginWrite(r)
  <2>1. files' = files \/ files' = Without(Removed(r, name'[r]))
    BY <1>1 DEF BeginWrite
  <2>2. ~Create(r)
    BY <1>1 DEF BeginWrite, Create, Takes
  <2> QED
    BY <1>1, <2>1, <2>2 DEF Without
<1>2. CASE Remove(r)
  <2>1. files' = Without(Removed(r, name[r]))
    BY <1>2 DEF Remove
  <2>2. ~Create(r)
    BY <1>2 DEF Remove, Create
  <2> QED
    BY <1>2, <2>1, <2>2 DEF Without
<1>3. CASE Create(r)
  BY <1>3 DEF Create, With
<1>4. CASE files' = files /\ ~Create(r)
  BY <1>4
<1> QED
  BY <1>1, <1>2, <1>3, <1>4, ChangesOfFiles DEF SInv

(* The file a rank writes is there till it has done. *)
LEMMA ThereStep ==
    ASSUME SInv, SInv', ~opt.timeLimit, NameInv, AtNameInv, ThereInv, NEW r \in Ranks, RankStep(r)
    PROVE  ThereInv'
<1>1. /\ TypeOK /\ TypeOK' /\ PlaceInv /\ opt' = opt
      /\ \A t \in Ranks : Pos(t) \in 0 .. 34 /\ Pos(t)' \in 0 .. 34
      /\ \A t \in Ranks : t # r => Pos(t)' = Pos(t) /\ rep'[t] = rep[t]
  BY AfterStep DEF SameOptions
<1> SUFFICES ASSUME NEW w \in Ranks, Pos(w)' \in 4 .. 9
             PROVE  FileOf(w, rep[w])' \in DOMAIN files'
  BY DEF ThereInv
<1>2. CASE w # r
  <2>1. FileOf(w, rep[w]) \in DOMAIN files /\ FileOf(w, rep[w])' = FileOf(w, rep[w])
        /\ Pos(w) \in 4 .. 9
    BY <1>1, <1>2 DEF ThereInv, FileOf
  <2>2. ~BeginWrite(r)
    BY <2>1, NobodyBeyondWrite
  <2>3. ~Remove(r)
    <3>1. ASSUME Remove(r)
          PROVE  33 <= Pos(w)
      <4>1. TypeOK /\ NearInv /\ ErrorInv /\ PlaceOK(r)
        BY DEF SInv, PlaceInv
      <4>2. Pos(r) = 33 /\ AllArrived(r) /\ Removes(r)
        BY <3>1, <4>1, Places DEF PlacesKnown, Remove, PlaceOK
      <4>3. 33 \in Full /\ Asked(r, 33)
        BY <4>2 DEF Full, Asked
      <4>4. (Round(w) = Round(r) /\ 33 <= Pos(w)) \/ (Round(w) = Round(r) + 1 /\ 33 = 34)
        BY <4>1, <4>2, <4>3, Met
      <4> QED
        BY <4>4
    <3> QED
      BY <2>1, <3>1
  <2>4. DOMAIN files \subseteq DOMAIN files'
    BY <1>1, <2>2, <2>3, FilesGo, WritesOwn
  <2> QED
    BY <2>1, <2>4
<1>3. CASE w = r /\ Create(r)
  <2>1. name[r] = FileOf(r, rep[r])
    <3>1. Pos(r) = 3 /\ NameOK(r)
      BY <1>1, <1>3, WaysOpening DEF NameInv
    <3> QED
      BY <1>1, <3>1, NameFacts DEF NameOK
  <2>2. rep' = rep /\ ~Transfer(r)
    BY <1>3 DEF Create, loop, Transfer
  <2>3. FileOf(r, rep[r])' = FileOf(r, rep[r])
    BY <1>1, <2>2 DEF FileOf
  <2> QED
    BY <1>3, <2>1, <2>2, <2>3, FilesGo
<1>4. CASE w = r /\ ~Create(r)
  <2>1. Pos(r) \in 4 .. 9 /\ ~EndRep(r) /\ ~BeginWrite(r) /\ ~Remove(r)
    <3>1. ~EndRep(r) /\ ~BeginWrite(r) /\ ~Remove(r)
      BY <1>1, <1>4, WaysBefore, WaysAfter
    <3>2. CASE Pos(r)' \in {4, 5}
      BY <1>1, <1>4, <3>1, <3>2, IntoAccess, WaysOpening, WaysAccessing
    <3>3. CASE Pos(r)' \in 6 .. 9
      <4>1. Return(r) \/ Pos(r) \in 6 .. 10
        BY <1>1, <3>3, IntoAccess
      <4>2. Return(r) => Pos(r) = 5
        BY <1>1, <3>3, WaysAccessing
      <4>3. Pos(r) <= Pos(r)'
        BY <3>1, AfterStep
      <4> QED
        BY <3>1, <3>3, <4>1, <4>2, <4>3
    <3> QED
      BY <1>4, <3>1, <3>2, <3>3
  <2>2. rep' = rep /\ FileOf(r, rep[r]) \in DOMAIN files
    BY <2>1, ChangesOfRun DEF ThereInv
  <2>3. FileOf(r, rep[r])' = FileOf(r, rep[r])
    BY <1>1, <2>2 DEF FileOf
  <2>4. DOMAIN files \subseteq DOMAIN files'
    BY <1>1, <2>1, FilesGo, WritesOwn
  <2> QED
    BY <1>4, <2>2, <2>3, <2>4
<1> QED
  BY <1>2, <1>3, <1>4

\* The others' accesses go on.
LEMMA OthersCount ==
    ASSUME SInv, SInv', ~opt.timeLimit, NEW r \in Ranks, RankStep(r), NEW w \in Ranks, w # r,
           Pos(w) = 5
    PROVE  count'[w] = count[w]
<1>1. /\ TypeOK /\ TypeOK' /\ Pos(w)' = Pos(w)
  BY AfterStep
<1>2. ASSUME NEW b \in Full, EntersAt(r, b)
      PROVE  count' = count
  <2>1. ASSUME Gathered(r)'
        PROVE  FALSE
    <3>1. Pos(r)' = b /\ Round(w)' = Round(r)' /\ b <= 5
      BY <1>1, <1>2, <2>1 DEF Gathered, EntersAt
    <3>2. 5 <= b
      <4>1. b # 33
        BY <3>1
      <4> QED
        BY <1>1, <1>2, <3>1, <4>1, NobodyPast
    <3> QED
      BY <3>1, <3>2 DEF Full
  <2> QED
    BY <1>2, <2>1, BarrierPhase
<1>3. Transfer(r) => count'[w] = count[w]
  <2>1. count \in [Ranks -> 0 .. Transfers]
    BY <1>1 DEF TypeOK
  <2>2. Transfer(r) => count' = [count EXCEPT ![r] = count[r] + 1]
    BY <1>1, AccessTypes
  <2> QED
    BY <2>1, <2>2
<1>4. Return(r) => count' = count
  BY <1>1, ReturnFacts
<1> QED
  BY <1>2, <1>3, <1>4, Enterings

\* A rank has not written beyond its block.
LEMMA SofarTypes ==
    ASSUME TypeOK, NEW w \in Ranks
    PROVE  Sofar(w) \in 0 .. Transfers /\ 1 .. Sofar(w) \subseteq Positions /\ Sofar(w) \in Nat
<1>1. /\ results[w][rep[w]] \in 0 .. Transfers /\ iterations[w] \in 0 .. Transfers
      /\ count[w] \in 0 .. Transfers
  BY DEF TypeOK
<1>2. Transfers \in 0 .. Transfers /\ Transfers \in Nat /\ Positions = 1 .. Transfers
  BY Numbers
<1>3. Sofar(w) \in 0 .. Transfers
  BY <1>1, <1>2 DEF Sofar, Written
<1> QED
  BY <1>2, <1>3

SofarFits == \A w \in Ranks : Sofar(w) \in Nat /\ 1 .. Sofar(w) \subseteq Positions

\* For all ranks.
LEMMA SofarTypesAll == TypeOK => SofarFits
BY SofarTypes DEF SofarFits

\* And after a step.
LEMMA NextSofarTypes == TypeOK' => SofarFits'
BY SofarTypesAll, PTL

\* Where rank w has been before a step after which it has written.
LEMMA SofarStays ==
    ASSUME Sound, SInv, SInv', CountInv, WrittenInv, Exec.write, NEW r \in Ranks, RankStep(r),
           NEW w \in Ranks, 5 <= Pos(w)', Sofar(w)' # 0
    PROVE  /\ 5 <= Pos(w) /\ rep'[w] = rep[w] /\ stamp'[w] = stamp[w]
           /\ \/ Sofar(w)' = Sofar(w)
              \/ w = r /\ Transfer(r) /\ access[r] = "write" /\ Pos(r) = 5
                 /\ Sofar(r) = count[r] /\ Sofar(r)' = count[r] + 1
<1>1. ~opt.timeLimit
  BY SoundHere DEF SInv
<1>2. /\ TypeOK /\ TypeOK' /\ PlaceInv /\ SameOptions
      /\ \A t \in Ranks : /\ Pos(t) \in 0 .. 34 /\ Pos(t)' \in 0 .. 34
                          /\ t # r => /\ Pos(t)' = Pos(t) /\ pc'[t] = pc[t] /\ rep'[t] = rep[t]
  BY <1>1, AfterStep
<1>3. Exec' = Exec
  BY <1>2 DEF SameOptions, Exec
<1>4. CASE w # r
  <2>1. /\ iterations'[w] = iterations[w] /\ results'[w] = results[w] /\ stamp'[w] = stamp[w]
        /\ Pos(w) = 5 => count'[w] = count[w]
    BY <1>1, <1>2, <1>4, OthersKeep, OthersCount
  <2>2. Written(w)' = Written(w)
    BY <1>2, <1>3, <1>4, <2>1 DEF Written
  <2>3. Sofar(w)' = Sofar(w)
    BY <1>2, <1>4, <2>1, <2>2 DEF Sofar
  <2> QED
    BY <1>2, <1>4, <2>1, <2>3
<1>5. CASE w = r /\ Transfer(r)
  <2>1. Pos(r)' = Pos(r) /\ Pos(r) \in {5, 15, 25} /\ rep' = rep /\ stamp' = stamp
        /\ iterations' = iterations /\ results' = results
    BY <1>1, <1>2, <1>5, WaysAccessing DEF Transfer, loop, sizes
  <2>2. count'[r] = count[r] + 1
    BY <1>2, <1>5, AccessTypes
  <2>3. Written(r)' = Written(r)
    BY <1>3, <2>1 DEF Written
  <2>4. Pos(r) = 5 => access[r] = "write"
    BY <1>2, Insides DEF InsideKnown
  <2> QED
    BY <1>5, <2>1, <2>2, <2>3, <2>4 DEF Sofar
<1>6. CASE w = r /\ Pos(r)' = 5 /\ ~Transfer(r)
  <2>1. Create(r) \/ OpenDone(r)
    BY <1>1, <1>2, <1>6, IntoAccess, WaysOpening
  <2>2. count[r] = 0
    BY <1>2, <1>6, <2>1, BeginsAtZero
  <2>3. count' = count
    <3>1. CASE Create(r)
      <4>1. ~opt.barriers
        BY <1>2, <1>6, <3>1, WaysOpening
      <4> QED
        BY <3>1, <4>1 DEF Create, Opened, phase
    <3>2. CASE OpenDone(r)
      BY <3>2 DEF OpenDone, Passes, phase
    <3> QED
      BY <2>1, <3>1, <3>2
  <2>4. Sofar(r)' = 0
    BY <1>6, <2>2, <2>3 DEF Sofar
  <2> QED
    BY <1>6, <2>4
<1>7. CASE w = r /\ Pos(r)' # 5 /\ ~Transfer(r)
  <2>1. Through(r)' /\ Sofar(r)' = Written(r)'
    BY <1>2, <1>7 DEF Through, Sofar
  <2>2. /\ rep'[r] = rep[r]
        /\ \/ Through(r) /\ Written(r)' = Written(r)
           \/ Return(r) /\ Pos(r) = 5 /\ ~Through(r) /\ Written(r)' = count[r]
    BY <2>1, WrittenStays DEF WrittenInv
  <2>3. ~StartRep(r) /\ ~StampKnown(r) /\ ~ShowTestEnd(r)
    BY <1>1, <1>2, <1>7, WaysBefore, WaysAfter
  <2>4. 1 < Pos(r) /\ stamp' = stamp
    BY <1>1, <1>2, <2>3, FromStart, ChangesOfRun
  <2>5. Through(r) => 6 <= Pos(r) /\ Sofar(r) = Written(r)
    <3>1. pc[r] \notin {"finish", "end"}
      BY <2>4, OuterPlaces
    <3> QED
      BY <1>2, <3>1 DEF Through, Sofar
  <2> QED
    BY <1>2, <1>7, <2>1, <2>2, <2>4, <2>5 DEF Sofar
<1> QED
  BY <1>4, <1>5, <1>6, <1>7

(* What a rank has written is in its file. *)
LEMMA DataStep ==
    ASSUME Sound, SInv, SInv', NameInv, AtNameInv, CountInv, WrittenInv, ThereInv, DataInv,
           NEW r \in Ranks, RankStep(r)
    PROVE  DataInv'
<1>1. ~opt.timeLimit
  BY SoundHere DEF SInv
<1>2. /\ TypeOK /\ TypeOK' /\ PlaceInv /\ SameOptions /\ opt' = opt /\ spoilt' = spoilt
  BY <1>1, AfterStep, ChangesOfRun
<1>3. Exec' = Exec
  BY <1>2 DEF SameOptions, Exec
<1> SUFFICES ASSUME ~spoilt, Exec.write, NEW w \in Ranks, 5 <= Pos(w)',
                    FileOf(w, rep[w])' \in DOMAIN files', NEW k \in 1 .. Sofar(w)'
             PROVE  files'[FileOf(w, rep[w])'][w][k] = stamp'[w]
  BY <1>2, <1>3 DEF DataInv, DataOK
<1>4. Sofar(w)' \in Nat /\ Sofar(w) \in Nat /\ 1 .. Sofar(w) \subseteq Positions
      /\ 1 .. Sofar(w)' \subseteq Positions
  BY <1>2, SofarTypesAll, NextSofarTypes DEF SofarFits
<1>5. /\ 5 <= Pos(w) /\ rep'[w] = rep[w] /\ stamp'[w] = stamp[w]
      /\ \/ Sofar(w)' = Sofar(w)
         \/ w = r /\ Transfer(r) /\ access[r] = "write" /\ Pos(r) = 5
            /\ Sofar(r) = count[r] /\ Sofar(r)' = count[r] + 1
  BY <1>4, SofarStays
<1> DEFINE n == FileOf(w, rep[w])
<1>6. FileOf(w, rep[w])' = n
  BY <1>2, <1>5 DEF FileOf
<1>7. n \in DOMAIN files
  <2>1. CASE Create(r)
    <3>1. Pos(w) \in 4 .. 9
      BY <1>5, <2>1, NobodyBeyondCreate
    <3> QED
      BY <3>1 DEF ThereInv
  <2>2. CASE ~Create(r)
    BY <1>2, <1>6, <2>2, FilesGo, WritesOwn
  <2> QED
    BY <2>1, <2>2
<1>8. \A j \in 1 .. Sofar(w) : files[n][w][j] = stamp[w]
  BY <1>5, <1>7 DEF DataInv, DataOK
<1> HIDE DEF n
<1>9. CASE ~Transfer(r)
  <2>1. files'[n] = files[n]
    BY <1>6, <1>7, <1>9, FilesGo
  <2> QED
    BY <1>5, <1>6, <1>8, <1>9, <2>1
<1>10. CASE Transfer(r) /\ access[r] # "write"
  <2>1. files' = files
    BY <1>2, <1>10, WritesOwn
  <2> QED
    BY <1>5, <1>6, <1>8, <1>10, <2>1
<1>11. CASE Transfer(r) /\ access[r] = "write"
  <2>1. openFile[r] = FileOf(r, rep[r])
    BY <1>2, <1>11, WritesOwn
  <2>2. k \in Positions
    BY <1>4
  <2>3. files'[n][w][k] = IF n = openFile[r] /\ w = r /\ k = count[r] + 1
                          THEN stamp[r] ELSE files[n][w][k]
    BY <1>2, <1>7, <1>11, <2>2, WritesOwn
  <2>4. CASE w = r
    <3>1. n = openFile[r]
      BY <2>1, <2>4 DEF n
    <3>2. k # count[r] + 1 => k \in 1 .. Sofar(w)
      BY <1>4, <1>5
    <3> QED
      BY <1>5, <1>6, <1>8, <2>3, <2>4, <3>1, <3>2
  <2>5. CASE w # r
    BY <1>5, <1>6, <1>8, <2>3, <2>5
  <2> QED
    BY <2>4, <2>5
<1> QED
  BY <1>9, <1>10, <1>11

(* With a time stamp given, no other one is in the files. *)
LEMMA SignedStep ==
    ASSUME SInv, SInv', NameInv, AtNameInv, StampInv, SignedInv, NEW r \in Ranks, RankStep(r)
    PROVE  SignedInv'
<1>1. /\ TypeOK /\ TypeOK' /\ opt' = opt /\ spoilt' = spoilt
  BY ChangesOfRun DEF SInv
<1> SUFFICES ASSUME ~spoilt, opt.signature, NEW n \in DOMAIN files', NEW w \in Ranks, NEW k \in Positions
             PROVE  files'[n][w][k] \in {Hole, 0}
  BY <1>1 DEF SignedInv
<1>2. \A m \in DOMAIN files : \A v \in Ranks, j \in Positions : files[m][v][j] \in {Hole, 0}
  BY DEF SignedInv
<1>3. CASE Transfer(r)
  <2>1. stamp[r] = 0
    BY DEF StampInv, StampOK
  <2> QED
    BY <1>1, <1>2, <1>3, <2>1, WritesOwn
<1>4. CASE ~Transfer(r) /\ n \in DOMAIN files
  <2>1. files'[n] = files[n]
    BY <1>4, FilesGo
  <2> QED
    BY <1>2, <1>4, <2>1
<1>5. CASE ~Transfer(r) /\ n \notin DOMAIN files
  <2>1. files'[n] = Empty
    BY <1>5, FilesGo
  <2> QED
    BY <2>1 DEF Empty
<1> QED
  BY <1>3, <1>4, <1>5

----------------------------------------------------------------------------
(***************************************************************************)
(* What stays in the files when a rank has done with them.                 *)
(***************************************************************************)
\* Nothing becomes a hole again.
LEMMA NoNewHoles ==
    ASSUME SInv, TypeOK', NameInv, AtNameInv, NEW r \in Ranks, RankStep(r),
           NEW n \in DOMAIN files, n \in DOMAIN files', NEW w \in Ranks, NEW k \in Positions,
           files[n][w][k] # Hole
    PROVE  files'[n][w][k] # Hole
<1>1. stamp[r] # Hole
  BY DEF SInv, TypeOK, Hole
<1>2. CASE Transfer(r) /\ access[r] = "write"
  <2>1. files'[n][w][k] = IF n = openFile[r] /\ w = r /\ k = count[r] + 1
                          THEN stamp[r] ELSE files[n][w][k]
    BY <1>2, WritesOwn
  <2> QED
    BY <1>1, <2>1
<1>3. CASE Transfer(r) /\ access[r] # "write"
  <2>1. files' = files
    BY <1>3, WritesOwn
  <2> QED
    BY <2>1
<1>4. CASE ~Transfer(r)
  <2>1. files'[n] = files[n]
    BY <1>4, FilesGo
  <2> QED
    BY <2>1
<1> QED
  BY <1>2, <1>3, <1>4

\* With one repetition only, a rank is over with a file in the end.
LEMMA OverAtEnd ==
    ASSUME TypeOK, opt.repetitions = 1, NEW w \in Ranks, NEW c \in Repetitions, Over(w, c)
    PROVE  pc[w] \in {"finish", "end"}
<1>1. rep[w] = 0 /\ c = 0
  BY DEF TypeOK, Repetitions
<1> QED
  BY <1>1 DEF Over, Round

\* How much is kept of a block that is over.
LEMMA KeptStays ==
    ASSUME Sound, SInv, SInv', Exec.write, Exec.deadline => opt.repetitions = 1,
           NEW r \in Ranks, RankStep(r),
           NEW w \in Ranks, NEW c \in Repetitions, Over(w, c)
    PROVE  Kept(w)' = Kept(w)
<1>1. ~opt.timeLimit /\ (Exec.status => ~Reads(Exec))
  BY SoundHere DEF SInv
<1>2. /\ TypeOK /\ TypeOK' /\ PlaceInv /\ SameOptions
  BY <1>1, AfterStep
<1>3. Exec' = Exec
  BY <1>2 DEF SameOptions, Exec
<1>4. CASE ~Exec.deadline
  BY <1>3, <1>4 DEF Kept
<1>5. CASE Exec.deadline /\ w # r
  BY <1>2, <1>3, <1>5, OthersKeep DEF Kept
<1>6. CASE Exec.deadline /\ w = r
  <2>1. Pos(r) = 0
    <3>1. pc[r] \in {"finish", "end"}
      BY <1>2, <1>6, OverAtEnd
    <3> QED
      BY <3>1, OuterPlaces
  <2>2. ~BeginWrite(r) /\ ~BeginRead(r) /\ ~StatusKnown(r) /\ ~Reported(r)
    BY <1>1, <1>2, <2>1, WaysBefore, WaysAfter
  <2>3. iterations' = iterations
    BY <2>2, ChangesOfRun
  <2> QED
    BY <1>3, <1>6, <2>3 DEF Kept
<1> QED
  BY <1>4, <1>5, <1>6

\* A rank is over with a file when the repetition ends.
LEMMA OverStays ==
    ASSUME SInv, SInv', ~opt.timeLimit, NEW r \in Ranks, RankStep(r),
           NEW w \in Ranks, NEW c \in Repetitions, Over(w, c)'
    PROVE  Over(w, c) \/ (w = r /\ EndRep(r) /\ (opt.multiFile => c = rep[r]))
<1>1. /\ TypeOK /\ TypeOK' /\ PlaceInv /\ opt' = opt
      /\ \A t \in Ranks : t # r => /\ pc'[t] = pc[t] /\ Round(t)' = Round(t)
      /\ Moves(r) \/ EndRep(r)
      /\ Moves(r) => Round(r)' = Round(r)
  BY AfterStep DEF SameOptions
<1>2. CASE w # r
  BY <1>1, <1>2 DEF Over
<1>3. CASE w = r /\ EndRep(r)
  <2>1. Round(r)' = Round(r) + 1 /\ Round(r) = rep[r]
    BY <1>1, <1>3, EndRepRound
  <2>2. rep[r] \in Int /\ c \in Int
    BY <1>1 DEF TypeOK, Repetitions
  <2> QED
    BY <1>1, <1>3, <2>1, <2>2 DEF Over
<1>4. CASE w = r /\ ~EndRep(r)
  <2>1. CASE opt.multiFile
    BY <1>1, <1>4, <2>1 DEF Over
  <2>2. CASE ~opt.multiFile
    <3>1. pc'[r] \in {"finish", "end"}
      BY <1>1, <1>4, <2>2 DEF Over
    <3>2. Pos(r)' = 0
      BY <1>1, <3>1, NextPlaces DEF PlacesKnown
    <3>3. ShowTestEnd(r)
      BY <1>1, <1>4, <3>2, IntoAccess
    <3> QED
      BY <1>4, <2>2, <3>3 DEF ShowTestEnd, Over
  <2> QED
    BY <2>1, <2>2
<1> QED
  BY <1>2, <1>3, <1>4

\* An access makes and removes no file.
LEMMA TransferDomain ==
    ASSUME NEW r \in Ranks, Transfer(r)
    PROVE  DOMAIN files' = DOMAIN files
BY DEF Transfer

\* No file is made of a block that is over.
LEMMA NotMadeAgain ==
    ASSUME SInv, SInv', ~opt.timeLimit, NameInv, NEW r \in Ranks, RankStep(r),
           NEW w \in Ranks, NEW c \in Repetitions, Over(w, c), FileOf(w, c) \in DOMAIN files'
    PROVE  FileOf(w, c) \in DOMAIN files
<1>1. /\ TypeOK /\ TypeOK' /\ PlaceInv
  BY DEF SInv
<1>2. CASE Create(r)
  <2>1. Round(w) = Round(r) /\ Pos(w) \in 3 .. 9 /\ Pos(r) = 3
    BY <1>1, <1>2, NobodyBeyondCreate, WaysOpening
  <2>2. Round(r) = rep[r] /\ rep[r] \in Nat /\ pc[w] \notin {"finish", "end"}
    <3>1. pc[w] \notin {"finish", "end"}
      BY <2>1, OuterPlaces
    <3>2. rep[r] \in Nat
      BY <1>1 DEF TypeOK, Repetitions
    <3>3. Round(r) = rep[r]
      BY <1>1, <2>1, RoundIs
    <3> QED
      BY <3>1, <3>2, <3>3
  <2>3. name[r] = FileOf(r, rep[r])
    <3>1. NameOK(r)
      BY DEF NameInv
    <3> QED
      BY <1>1, <2>1, <3>1, NameFacts DEF NameOK
  <2>4. opt.multiFile /\ c < rep[r] /\ c \in Int
    BY <1>1, <2>1, <2>2 DEF Over, Repetitions
  <2>5. FileOf(w, c) # name[r]
    BY <2>2, <2>3, <2>4 DEF FileOf
  <2>6. ~Transfer(r)
    BY <1>2 DEF Create, Transfer
  <2> QED
    BY <1>2, <2>5, <2>6, FilesGo
<1>3. CASE ~Create(r)
  BY <1>3, FilesGo, TransferDomain
<1> QED
  BY <1>2, <1>3

(* What a rank has left of its block stays there. *)
LEMMA WholeStep ==
    ASSUME Sound, SInv, SInv', NameInv, AtNameInv, DataInv, KeptInv, NEW r \in Ranks, RankStep(r)
    PROVE  KeptInv'
<1>1. ~opt.timeLimit
  BY SoundHere DEF SInv
<1>2. /\ TypeOK /\ TypeOK' /\ PlaceInv /\ SameOptions /\ opt' = opt /\ spoilt' = spoilt
      /\ Repetitions' = Repetitions
  BY <1>1, AfterStep, ChangesOfRun DEF Repetitions
<1>3. Exec' = Exec
  BY <1>2 DEF SameOptions, Exec
<1> SUFFICES ASSUME ~spoilt, Exec.write, Exec.deadline => opt.repetitions = 1,
                    NEW w \in Ranks, NEW c \in Repetitions, Over(w, c)'
             PROVE  Whole(w, c, Kept(w))'
  BY <1>2, <1>3 DEF KeptInv
<1> DEFINE n == FileOf(w, c)
<1>4. FileOf(w, c)' = n
  BY <1>2 DEF FileOf
<1> SUFFICES ASSUME n \in DOMAIN files', NEW k \in 1 .. Kept(w)'
             PROVE  files'[n][w][k] # Hole
  BY <1>4 DEF Whole
<1>5. k \in Positions
  <2>1. iterations'[w] \in 0 .. Transfers /\ Positions = 1 .. Transfers /\ Transfers \in Nat
    BY <1>2, Numbers DEF TypeOK
  <2> QED
    BY <2>1 DEF Kept
<1>6. CASE Over(w, c)
  <2>1. Kept(w)' = Kept(w)
    BY <1>6, KeptStays
  <2>2. n \in DOMAIN files
    BY <1>1, <1>6, NotMadeAgain
  <2>3. files[n][w][k] # Hole
    BY <1>6, <2>1, <2>2 DEF KeptInv, Whole
  <2> HIDE DEF n
  <2> QED
    BY <1>2, <1>5, <2>2, <2>3, NoNewHoles
<1>7. CASE w = r /\ EndRep(r) /\ (opt.multiFile => c = rep[r])
  <2>1. Pos(r) = 34 /\ files' = files /\ iterations' = iterations
    BY <1>1, <1>2, <1>7, WaysAfter DEF EndRep, sizes
  <2>2. n = FileOf(r, rep[r])
    BY <1>7 DEF FileOf
  <2>3. Kept(r)' = Written(r) /\ Sofar(r) = Written(r)
    BY <1>3, <2>1 DEF Kept, Written, Sofar
  <2>4. files[n][r][k] = stamp[r]
    BY <1>7, <2>1, <2>2, <2>3 DEF DataInv, DataOK
  <2>5. stamp[r] # Hole
    BY <1>2 DEF TypeOK, Hole
  <2> QED
    BY <1>7, <2>1, <2>4, <2>5
<1> QED
  BY <1>1, <1>6, <1>7, OverStays

----------------------------------------------------------------------------
(***************************************************************************)
(* What the status file says.                                              *)
(***************************************************************************)
\* Which steps lead into a read.
LEMMA IntoRead ==
    ASSUME TypeOK, TypeOK', PlaceInv, ~opt.timeLimit, NEW r \in Ranks, RankStep(r)
    PROVE  Pos(r)' \in 22 .. 31 => Pos(r) \in 22 .. 31 \/ StatusKnown(r) \/ BeginRead(r)
<1>1. CASE \/ StartRep(r) \/ StampKnown(r) \/ Skip(r) \/ BeginWrite(r) \/ BeginCheck(r)
           \/ BeginRead(r) \/ StatusKnown(r) \/ Reorder(r)
  BY <1>1, WaysBefore
<1>2. CASE Create(r) \/ OpenCheck(r) \/ OpenRead(r) \/ OpenDone(r)
  BY <1>2, WaysOpening
<1>3. CASE Transfer(r) \/ Return(r) \/ ErrorsKnown(r) \/ AccessDone(r)
  BY <1>3, WaysAccessing
<1>4. CASE \/ Close(r) \/ Closed(r) \/ SizeKnown(r) \/ Reported(r) \/ BeforeRemove(r)
           \/ Remove(r) \/ EndRep(r) \/ ShowTestEnd(r)
  BY <1>4, WaysAfter
<1> QED
  BY <1>1, <1>2, <1>3, <1>4 DEF RankStep

\* Whoever waits for the number in the status file gets it from rank 0,
\* which is about to read.
LEMMA StatusFromRoot ==
    ASSUME SInv, NEW r \in Ranks, StatusKnown(r)
    PROVE  Pos(0) \in 22 .. 31
<1>1. TypeOK /\ PlaceInv /\ 0 \in Ranks /\ Near(0, r) /\ Near(r, 0) /\ PlaceOK(r)
  BY Numbers DEF SInv, NearInv, PlaceInv
<1>2. Pos(r) = 21 /\ RootArrived(r) /\ Exec.status /\ Reads(Exec)
  BY <1>1, Places DEF PlacesKnown, StatusKnown, PlaceOK
<1>3. Active(21) /\ 23 \in Full /\ Asked(0, 23)
  BY <1>2 DEF Active, Full, Asked
<1>4. \/ Round(0) = Round(r) + 1
      \/ Round(0) = Round(r) /\ 21 < Pos(0)
  BY <1>2, <1>3, RootFirst
<1>5. Round(0) # Round(r) + 1
  BY <1>1, <1>2 DEF Near
<1>6. ~(23 < Pos(0))
  BY <1>1, <1>2, <1>3, <1>4, <1>5 DEF Near, Behind
<1> QED
  BY <1>1, <1>4, <1>5, <1>6, PlaceTypes

\* Rank 0 stores what it has written, and nobody less.
LEMMA StatusWritten ==
    ASSUME Sound, SInv, SInv', CountInv, WrittenInv, StatusInv, Exec.status, Exec.write,
           NEW r \in Ranks, RankStep(r)
    PROVE  /\ 12 <= Pos(0)' \/ pc'[0] \in {"finish", "end"} => results'[0][0] \in 1 .. iterations'[0]
           /\ pc'[0] = "end" => status' \in 1 .. iterations'[0]
<1>1. ~opt.timeLimit /\ ~Reads(Exec) /\ opt.repetitions = 1 /\ 0 \in Ranks
  BY SoundHere, Numbers DEF SInv
<1>2. /\ TypeOK /\ TypeOK' /\ PlaceInv /\ SameOptions
      /\ Pos(0) \in 0 .. 34 /\ Pos(0)' \in 0 .. 34
      /\ r # 0 => Pos(0)' = Pos(0) /\ pc'[0] = pc[0]
  BY <1>1, AfterStep
<1>3. Exec.wearOut /\ Exec.deadline /\ rep[0] = 0
  <2>1. opt \in Options /\ execution \in DOMAIN opt.executions /\ rep[0] \in Repetitions
    BY <1>1, <1>2 DEF TypeOK
  <2>2. Exec.wearOut /\ Exec.deadline
    BY <2>1, ExecTypes
  <2> QED
    BY <1>1, <2>1, <2>2 DEF Repetitions
<1>4. /\ 12 <= Pos(0) \/ pc[0] \in {"finish", "end"} => results[0][0] \in 1 .. iterations[0]
      /\ pc[0] = "end" => status \in 1 .. iterations[0]
  BY DEF StatusInv
<1>5. iterations[0] \in Nat /\ iterations'[0] \in Nat /\ WrittenOK(0)
  BY <1>1, <1>2, NumbersKnown DEF WrittenInv
<1>6. CASE r # 0
  <2>1. iterations'[0] = iterations[0] /\ results'[0] = results[0]
    BY <1>1, <1>2, <1>6, OthersKeep
  <2>2. status' = status
    BY <1>6, ChangesOfRun DEF ShowTestEnd
  <2> QED
    BY <1>2, <1>4, <1>6, <2>1, <2>2
<1>7. CASE r = 0 /\ ShowTestEnd(r)
  <2>1. pc[0] = "finish" /\ iterations' = iterations /\ results' = results
    BY <1>7 DEF ShowTestEnd, sizes
  <2>2. status' = results[0][0]
    BY <1>3, <1>7 DEF ShowTestEnd
  <2> QED
    BY <1>4, <2>1, <2>2
<1>8. CASE r = 0 /\ Reported(r) /\ Pos(0) = 11
  <2>1. /\ iterations'[0] = results[0][0] /\ results' = results
        /\ pc'[0] \notin {"finish", "end"}
    <3>1. access[0] = "write"
      BY <1>1, <1>2, <1>8, WaysAfter
    <3>2. iterations' = [iterations EXCEPT ![0] = results[0][0]] /\ results' = results
      BY <1>3, <1>8, <3>1 DEF Reported, Limit
    <3>3. pc'[0] \notin {"finish", "end"}
      BY <1>1, <1>2, <1>8, OthersAre DEF Reported
    <3> QED
      BY <1>1, <1>2, <3>2, <3>3 DEF TypeOK
  <2>2. results[0][0] \in 1 .. Transfers
    <3>1. Through(0) /\ Written(0) = results[0][0]
      BY <1>3, <1>8 DEF Through, Written
    <3> QED
      BY <1>5, <3>1 DEF WrittenOK
  <2> QED
    BY <2>1, <2>2
<1>9. CASE r = 0 /\ Return(r)
  <2>1. /\ iterations' = iterations /\ count[0] \in 1 .. Transfers
        /\ results'[0][0] = IF access[0] = "read" THEN results[0][0] ELSE count[0]
    BY <1>1, <1>2, <1>3, <1>9, ReturnFacts
  <2>2. /\ \/ Pos(0) = 5 /\ Pos(0)' \in {6, 7}
           \/ Pos(0) = 15 /\ Pos(0)' \in {16, 17} /\ access[0] = "check"
        /\ pc'[0] \notin {"finish", "end"}
    <3>1. \/ Pos(0) = 5 /\ Pos(0)' \in {6, 7}
          \/ Pos(0) = 15 /\ Pos(0)' \in {16, 17}
          \/ Pos(0) = 25 /\ Pos(0)' \in {26, 27}
      BY <1>1, <1>2, <1>9, WaysAccessing
    <3>2. Pos(0) # 25
      BY <1>1, <1>2, PhaseAsked
    <3>3. Pos(0) = 15 => access[0] = "check"
      BY <1>1, <1>2, Insides DEF InsideKnown
    <3>4. pc'[0] \notin {"finish", "end"}
      BY <1>1, <1>2, <3>1, NextPlaces DEF PlacesKnown
    <3> QED
      BY <3>1, <3>2, <3>3, <3>4
  <2>3. CASE Pos(0) = 5
    BY <2>2, <2>3
  <2>4. CASE Pos(0) = 15
    <3>1. results[0][0] \in 1 .. iterations[0]
      BY <1>4, <2>4
    <3>2. iterations[0] # 0
      BY <1>5, <3>1
    <3>3. count[0] <= iterations[0]
      <4>1. CountOK(0)
        BY <1>1 DEF CountInv
      <4> QED
        BY <2>4, <3>2, <4>1 DEF CountOK
    <3> QED
      BY <1>5, <2>1, <2>2, <2>4, <3>3
  <2> QED
    BY <2>2, <2>3, <2>4
<1>10. CASE r = 0 /\ ~ShowTestEnd(r) /\ ~(Reported(r) /\ Pos(0) = 11) /\ ~Return(r)
  <2>1. results' = results /\ status' = status
    BY <1>10, ChangesOfRun
  <2>2. ASSUME 12 <= Pos(0)' \/ pc'[0] \in {"finish", "end"}
        PROVE  (12 <= Pos(0) \/ pc[0] \in {"finish", "end"}) /\ iterations' = iterations
    <3>1. 12 <= Pos(0)
      <4>1. CASE 12 <= Pos(0)'
        <5>1. Pos(0) \in 11 .. 34
          BY <1>1, <1>2, <1>10, <4>1, IntoAccess
        <5>2. Pos(0) # 11
          BY <1>1, <1>2, <1>10, From11
        <5> QED
          BY <5>1, <5>2
      <4>2. CASE pc'[0] \in {"finish", "end"}
        <5>1. Pos(0)' = 0
          BY <1>1, <1>2, <4>2, NextPlaces DEF PlacesKnown
        <5>2. EndRep(r)
          BY <1>1, <1>2, <1>10, <5>1, IntoAccess
        <5> QED
          BY <1>1, <1>2, <1>10, <5>2, WaysAfter
      <4> QED
        BY <2>2, <4>1, <4>2
    <3>2. ~BeginWrite(r) /\ ~BeginRead(r) /\ ~StatusKnown(r)
      BY <1>1, <1>2, <1>10, <3>1, WaysBefore, PhaseAsked
    <3>3. Reported(r) => iterations' = iterations
      <4> SUFFICES ASSUME Reported(r)
                   PROVE  iterations' = iterations
        OBVIOUS
      <4>1. access[r] = "read"
        BY <1>1, <1>2, <1>10, WaysAfter
      <4> QED
        BY <1>2, <4>1 DEF Reported, TypeOK
    <3> QED
      BY <3>1, <3>2, <3>3, ChangesOfRun
  <2>3. pc'[0] # "end"
    <3>1. pc'[0] = "end" => Pos(0)' = 0
      BY <1>1, <1>2, NextPlaces DEF PlacesKnown
    <3>2. EndRep(r) => pc'[0] # "end"
      BY <1>1, <1>2, <1>10, OthersAre DEF EndRep
    <3> QED
      BY <1>1, <1>2, <1>10, <3>1, <3>2, IntoAccess
  <2> QED
    BY <1>4, <2>1, <2>2, <2>3
<1> QED
  BY <1>6, <1>7, <1>8, <1>9, <1>10

\* A read that goes by the status file goes by what is in it.
LEMMA StatusRead ==
    ASSUME Sound, SInv, SInv', StatusInv, Exec.status, ~Exec.write,
           NEW r \in Ranks, RankStep(r), NEW q \in Ranks, Pos(q)' \in 22 .. 31
    PROVE  iterations'[q] = status'
<1>1. ~opt.timeLimit /\ ~Exec.wearOut /\ 0 \in Ranks
  BY SoundHere, Numbers DEF SInv
<1>2. /\ TypeOK /\ TypeOK' /\ PlaceInv
      /\ \A t \in Ranks : t # r => Pos(t)' = Pos(t)
      /\ Pos(r) \in 0 .. 34
  BY <1>1, AfterStep
<1>3. status' = status
  BY <1>1, ChangesOfRun DEF ShowTestEnd
<1>4. \A t \in Ranks : Pos(t) \in 22 .. 31 => iterations[t] = status
  BY DEF StatusInv
<1>5. iterations \in [Ranks -> 0 .. Transfers]
  BY <1>2 DEF TypeOK
<1>6. CASE q # r
  BY <1>2, <1>3, <1>4, <1>6, OthersKeep
<1>7. CASE q = r /\ StatusKnown(r)
  <2>1. iterations[0] = status
    BY <1>1, <1>4, <1>7, StatusFromRoot
  <2> QED
    BY <1>3, <1>5, <1>7, <2>1 DEF StatusKnown
<1>8. CASE q = r /\ BeginRead(r)
  <2>1. r = 0
    BY <1>1, <1>2, <1>8, WaysBefore
  <2> QED
    BY <1>3, <1>5, <1>8, <2>1 DEF BeginRead
<1>9. CASE q = r /\ ~StatusKnown(r) /\ ~BeginRead(r)
  <2>1. Pos(r) \in 22 .. 31
    BY <1>1, <1>2, <1>9, IntoRead
  <2>2. ~BeginWrite(r)
    BY <1>1, <1>2, <2>1, WaysBefore
  <2>3. ~Reported(r)
    BY <1>1, <1>2, <1>9, WaysAfter
  <2> QED
    BY <1>3, <1>4, <1>9, <2>1, <2>2, <2>3, ChangesOfRun
<1> QED
  BY <1>6, <1>7, <1>8, <1>9

(* The number in the status file is right, whatever step a rank takes. *)
LEMMA StatusStep ==
    ASSUME Sound, SInv, SInv', CountInv, WrittenInv, StatusInv, NEW r \in Ranks, RankStep(r)
    PROVE  StatusInv'
<1>1. Exec' = Exec
  BY ChangesOfRun DEF Exec
<1>2. CASE Exec.status /\ Exec.write
  BY <1>1, <1>2, StatusWritten DEF StatusInv
<1>3. CASE Exec.status /\ ~Exec.write
  BY <1>1, <1>3, StatusRead DEF StatusInv
<1>4. CASE ~Exec.status
  BY <1>1, <1>4 DEF StatusInv
<1> QED
  BY <1>2, <1>3, <1>4

----------------------------------------------------------------------------
(***************************************************************************)
(* What earlier executions have left.                                      *)
(***************************************************************************)
\* Who the earlier writers are does not change within an execution.
LEMMA SameWriters ==
    ASSUME SameOptions
    PROVE  /\ Writers' = Writers /\ (CutBefore' <=> CutBefore) /\ (Told' <=> Told)
           /\ status' = status => Left' = Left
<1>1. Writers' = Writers
  BY DEF SameOptions, Writers
<1> QED
  BY <1>1 DEF SameOptions, CutBefore, Told, Left

\* An execution that does not write leaves the files that are kept as they are.
LEMMA OnlyReads ==
    ASSUME SInv, SInv', ~opt.timeLimit, ~Exec.write, opt.keepFile, NEW r \in Ranks, RankStep(r)
    PROVE  files' = files
<1>1. TypeOK /\ TypeOK' /\ PlaceInv /\ PlaceOK(r)
  BY DEF SInv, PlaceInv
<1>2. ~BeginWrite(r) /\ ~Create(r)
  BY <1>1, WaysBefore, WaysOpening
<1>3. ~Remove(r)
  BY <1>1 DEF Remove, PlaceOK, Removes
<1>4. Transfer(r) => files' = files
  <2> SUFFICES ASSUME Transfer(r)
               PROVE  files' = files
    OBVIOUS
  <2>1. pc[r] = "access"
    BY DEF Transfer
  <2>2. access[r] # "write"
    BY <1>1, <2>1, WaysWithin
  <2> QED
    BY <2>2 DEF Transfer
<1> QED
  BY <1>1, <1>2, <1>3, <1>4, ChangesOfFiles

(* What earlier executions have left stays, as far as the status file says.*)
LEMMA LeftStep ==
    ASSUME Sound, SInv, SInv', StatusInv, LeftInv, NEW r \in Ranks, RankStep(r)
    PROVE  LeftInv'
<1>1. ~opt.timeLimit /\ (Exec.status /\ Exec.wearOut => Exec.write)
  BY SoundHere DEF SInv
<1>2. /\ TypeOK /\ TypeOK' /\ SameOptions /\ opt' = opt /\ spoilt' = spoilt
      /\ Repetitions' = Repetitions
  BY <1>1, AfterStep, ChangesOfRun DEF Repetitions
<1>3. Exec' = Exec
  BY <1>2 DEF SameOptions, Exec
<1>4. /\ (CutBefore' <=> CutBefore) /\ (Told' <=> Told)
      /\ status' = status => Left' = Left
  BY <1>2, SameWriters
<1>5. status' = status \/ (status' # 0 /\ Exec.write)
  <2>1. CASE ShowTestEnd(r) /\ r = 0 /\ Exec.wearOut /\ Exec.status
    <3>1. status' = results[0][0] /\ pc[0] = "finish" /\ Exec.write
      BY <1>1, <2>1 DEF ShowTestEnd
    <3>2. results[0][0] \in 1 .. iterations[0]
      BY <2>1, <3>1 DEF StatusInv
    <3>3. iterations[0] \in Nat
      BY <1>2, <2>1, NumbersKnown
    <3> QED
      BY <3>1, <3>2, <3>3
  <2>2. CASE ~(ShowTestEnd(r) /\ r = 0 /\ Exec.wearOut /\ Exec.status)
    BY <2>2, ChangesOfRun DEF ShowTestEnd
  <2> QED
    BY <2>1, <2>2
<1>6. (CutBefore /\ Told => status # 0)'
  BY <1>4, <1>5 DEF LeftInv
<1>7. ASSUME ~spoilt, opt.keepFile, ~Exec.write, Told
      PROVE  \A w \in Ranks, c \in Repetitions : Whole(w, c, Left)'
  <2>1. files' = files /\ status' = status
    BY <1>1, <1>5, <1>7, OnlyReads
  <2>2. Left' = Left
    BY <1>4, <2>1
  <2>3. \A w \in Ranks, c \in Repetitions : Whole(w, c, Left)
    BY <1>7 DEF LeftInv
  <2> QED
    BY <1>2, <2>1, <2>2, <2>3 DEF Whole, FileOf
<1> QED
  BY <1>2, <1>3, <1>4, <1>6, <1>7 DEF LeftInv

----------------------------------------------------------------------------
(***************************************************************************)
(* A rank that checks finds what it expects.                               *)
(***************************************************************************)
\* The block a rank accesses, and the file it is in.
LEMMA BlockRead ==
    ASSUME SInv, SInv', OpenInv, AtNameInv, NEW r \in Ranks, Transfer(r), access[r] # "write",
           NEW w, w = PretendRank(r, rankOffset[r])
    PROVE  /\ w \in Ranks /\ rep[r] \in Repetitions
           /\ Pos(r) \in {15, 25} /\ pc[r] = "access"
           /\ access[r] = "check" => Exec.checkWrite
           /\ access[r] \in {"check", "read"} /\ (access[r] = "read" => Pos(r) = 25)
           /\ openFile[r] = FileOf(w, rep[r]) /\ openFile[r] \in DOMAIN files
           /\ \A k : Found(r, k) = files[FileOf(w, rep[r])][w][k]
           /\ opt.reorder = "none" => w = r
<1>1. TypeOK /\ TypeOK' /\ PlaceInv /\ pc[r] = "access"
  BY DEF SInv, Transfer
<1>2. /\ rankOffset[r] \in Int /\ r \in Int /\ rep[r] \in Repetitions
      /\ access[r] \in {"write", "check", "read"}
  BY <1>1, Numbers DEF TypeOK
<1>3. w \in Ranks
  BY <1>2, ReducedIsRank DEF PretendRank
<1>4. /\ Pos(r) \in {15, 25} /\ (access[r] = "check" => Exec.checkWrite)
      /\ access[r] \in {"check", "read"} /\ (access[r] = "read" => Pos(r) = 25)
  BY <1>1, <1>2, WaysWithin
<1>5. AtName(r) /\ OpenOK(r)
  BY DEF AtNameInv, OpenInv
<1>6. openFile[r] = TestFileName(r, rankOffset[r]) /\ openFile[r] \in DOMAIN files
  BY <1>4, <1>5 DEF AtName, OpenOK, OpenPlaces
<1>7. TestFileName(r, rankOffset[r]) = FileOf(w, rep[r])
  BY DEF TestFileName, FileOf
<1>8. \A k : Found(r, k) = files[FileOf(w, rep[r])][w][k]
  BY <1>6, <1>7 DEF Found
<1>9. opt.reorder = "none" => w = r
  <2>1. opt.reorder = "none" => rankOffset[r] = 0
    BY <1>5 DEF AtName
  <2>2. PretendRank(r, 0) = r
    BY <1>2, RankIsReduced DEF PretendRank
  <2> QED
    BY <2>1, <2>2
<1> QED
  BY <1>1, <1>2, <1>3, <1>4, <1>6, <1>7, <1>8, <1>9

\* All ranks are in the same repetition then.
LEMMA FindsRound ==
    ASSUME SInv, NEW r \in Ranks, pc[r] = "access", access[r] \in {"check", "read"},
           NEW s \in Ranks
    PROVE  Round(s) = Round(r) /\ 13 <= Pos(s)
<1>1. TypeOK /\ Near(r, s) /\ Near(s, r) /\ PlaceInv
  BY DEF SInv, NearInv
<1>2. /\ Pos(r) \in {15, 25} /\ 13 <= Pos(s) /\ Pos(s) \in 0 .. 34
      /\ Round(r) \in Nat /\ Round(s) \in Nat
      /\ Pos(r) = 15 => Active(13)
      /\ Pos(r) = 25 => Active(23)
  BY <1>1, FindsTogether, PlaceTypes, PhaseAsked DEF Active
<1>3. 13 \in Full /\ 23 \in Full /\ Asked(r, IF Pos(r) = 15 THEN 13 ELSE 23)
  BY <1>2 DEF Full, Asked
<1>4. Round(r) # Round(s) + 1
  BY <1>1, <1>2, <1>3 DEF Near
<1>5. Round(s) # Round(r) + 1
  BY <1>1, <1>2 DEF Near
<1>6. Round(s) <= Round(r) + 1 /\ Round(r) <= Round(s) + 1
  BY <1>1 DEF Near
<1> QED
  BY <1>2, <1>4, <1>5, <1>6

(* What this execution has written is found. *)
LEMMA FindsWritten ==
    ASSUME Sound, SInv, SInv', OpenInv, AtNameInv, StampInv, CountInv, WrittenInv, DataInv,
           ~spoilt, Exec.write, NEW r \in Ranks, Transfer(r), access[r] # "write"
    PROVE  ~Wrong(r, count[r] + 1)
<1> DEFINE w == PretendRank(r, rankOffset[r])
           k == count[r] + 1
           n == FileOf(w, rep[r])
<1>1. /\ w \in Ranks /\ pc[r] = "access" /\ Pos(r) \in {15, 25}
      /\ access[r] \in {"check", "read"}
      /\ openFile[r] = n /\ n \in DOMAIN files
      /\ Found(r, k) = files[n][w][k]
      /\ opt.reorder = "none" => w = r
  BY BlockRead
<1> HIDE DEF w
<1>2. TypeOK /\ PlaceInv /\ NearInv /\ 0 \in Ranks
  BY Numbers DEF SInv
<1>3. /\ Round(w) = Round(r) /\ 13 <= Pos(w) /\ Round(0) = Round(r)
  BY <1>1, <1>2, FindsRound
<1>4. /\ rep[w] = rep[r] /\ Round(w) \in Nat /\ Pos(w) \in 0 .. 34
  BY <1>1, <1>2, <1>3, RoundIs, PlaceTypes
<1>5. stamp[w] = stamp[r]
  <2>1. StampOK(w) /\ StampOK(r)
    BY <1>1 DEF StampInv
  <2> QED
    BY <1>1, <1>3, <1>4, <2>1 DEF StampOK
<1>6. Through(w) /\ Through(r) /\ WrittenOK(r) /\ WrittenOK(w)
  BY <1>1, <1>3, <1>4 DEF Through, WrittenInv
<1>7. Written(w) = Written(r)
  <2>1. CASE Exec.wearOut
    BY <1>1, <1>4, <1>6, <2>1 DEF WrittenOK
  <2>2. CASE ~Exec.wearOut /\ Exec.deadline
    <3>1. w = r
      BY <1>1, <1>2, <2>2, SoundHere
    <3> QED
      BY <3>1
  <2>3. CASE ~Exec.deadline
    BY <1>1, <1>3, <1>4, <2>3 DEF Written
  <2> QED
    BY <2>1, <2>2, <2>3
<1>8. k \in 1 .. Written(r)
  <2>1. count[r] \in 0 .. Transfers - 1 /\ Transfers \in Nat
    BY <1>2, AccessTypes, Numbers
  <2>2. Written(r) = (IF Exec.deadline THEN iterations[r] ELSE Transfers) /\ Written(r) \in 1 .. Transfers
    BY <1>1, <1>6 DEF Written, WrittenOK
  <2>3. iterations[r] # 0 => count[r] < iterations[r]
    BY DEF Transfer, Call!Access
  <2>4. iterations[r] \in Nat
    BY <1>2, NumbersKnown DEF SInv
  <2> QED
    BY <2>1, <2>2, <2>3, <2>4
<1>9. files[n][w][k] = stamp[w]
  <2>1. Sofar(w) = Written(w) /\ 5 <= Pos(w)
    BY <1>3, <1>4 DEF Sofar
  <2>2. DataOK(w)
    BY <1>1 DEF DataInv
  <2> QED
    BY <1>1, <1>4, <1>7, <1>8, <2>1, <2>2 DEF DataOK
<1>10. stamp[r] # Hole
  BY <1>2 DEF TypeOK, Hole
<1> QED
  BY <1>1, <1>5, <1>9, <1>10 DEF Wrong

(* What an earlier execution has written is found. *)
LEMMA FindsLeft ==
    ASSUME Sound, SInv, SInv', OpenInv, AtNameInv, StampInv, SignedInv, StatusInv, LeftInv,
           ~spoilt, ~Exec.write, NEW r \in Ranks, Transfer(r), access[r] # "write"
    PROVE  ~Wrong(r, count[r] + 1)
<1> DEFINE w == PretendRank(r, rankOffset[r])
           k == count[r] + 1
           n == FileOf(w, rep[r])
<1>1. /\ w \in Ranks /\ rep[r] \in Repetitions
      /\ Pos(r) \in {15, 25} /\ access[r] \in {"check", "read"}
      /\ access[r] = "check" => Exec.checkWrite
      /\ access[r] = "read" => Pos(r) = 25
      /\ n \in DOMAIN files
      /\ Found(r, k) = files[n][w][k]
  BY BlockRead
<1> HIDE DEF w
<1>2. TypeOK /\ TypeOK' /\ opt \in Options /\ execution \in DOMAIN opt.executions
  BY DEF SInv, TypeOK
<1>3. opt.keepFile /\ Told
  BY <1>2, SoundHere DEF Told
<1>4. \A j \in 1 .. Left : files[n][w][j] # Hole
  <2>1. Whole(w, rep[r], Left)
    BY <1>1, <1>3 DEF LeftInv
  <2> QED
    BY <1>1, <2>1 DEF Whole
<1>5. count[r] \in 0 .. Transfers - 1 /\ Transfers \in Nat /\ k \in Positions
  BY <1>2, AccessTypes, Numbers
<1>6. k \in 1 .. Left
  <2>1. CASE ~CutBefore
    BY <1>5, <2>1 DEF Left
  <2>2. CASE CutBefore
    <3>1. ~Exec.checkWrite /\ Exec.status
      BY <1>2, <2>2, SoundHere DEF CutBefore
    <3>2. iterations[r] = status
      BY <1>1, <3>1 DEF StatusInv
    <3>3. status # 0 /\ Left = status /\ status \in Nat
      BY <1>2, <1>3, <2>2, Numbers DEF LeftInv, Left, TypeOK
    <3>4. iterations[r] # 0 => count[r] < iterations[r]
      BY DEF Transfer, Call!Access
    <3> QED
      BY <1>5, <3>2, <3>3, <3>4
  <2> QED
    BY <2>1, <2>2
<1>7. files[n][w][k] # Hole
  BY <1>4, <1>6
<1>8. access[r] = "check" \/ Exec.checkRead => opt.signature
  BY <1>1, <1>2, SoundHere, ExecTypes
<1>9. opt.signature => files[n][w][k] \in {Hole, 0} /\ stamp[r] = 0
  BY <1>1, <1>5 DEF SignedInv, StampInv, StampOK
<1> QED
  BY <1>1, <1>7, <1>8, <1>9 DEF Wrong

(* No rank finds an error, or is told of one. *)
LEMMA CleanStep ==
    ASSUME Sound, SInv, SInv', OpenInv, AtNameInv, StampInv, CountInv, WrittenInv, DataInv,
           SignedInv, StatusInv, LeftInv, CleanInv, NEW r \in Ranks, RankStep(r)
    PROVE  CleanInv'
<1>1. /\ TypeOK /\ TypeOK' /\ spoilt' = spoilt
  BY ChangesOfRun DEF SInv
<1> SUFFICES ASSUME ~spoilt, NEW q \in Ranks
             PROVE  ~errors'[q] /\ ~errorFound'[q]
  BY <1>1 DEF CleanInv
<1>2. \A t \in Ranks : ~errors[t] /\ ~errorFound[t]
  BY DEF CleanInv
<1>3. CASE q # r
  BY <1>1, <1>2, <1>3, OthersKeep
<1>4. ~errors'[r]
  <2>1. errors \in [Ranks -> BOOLEAN]
    BY <1>1 DEF TypeOK
  <2>2. CASE Create(r) \/ OpenCheck(r) \/ OpenRead(r)
    BY <2>1, <2>2 DEF Create, OpenCheck, OpenRead, Opened
  <2>3. CASE Transfer(r) /\ access[r] # "write"
    <3>1. count'[r] = count[r] + 1
      BY <1>1, <2>3, AccessTypes
    <3>2. errors' = [errors EXCEPT ![r] = errors[r] \/ Wrong(r, count[r] + 1)]
      BY <2>3, <3>1 DEF Transfer
    <3>3. ~Wrong(r, count[r] + 1)
      BY <2>3, FindsWritten, FindsLeft
    <3> QED
      BY <1>2, <2>1, <3>2, <3>3
  <2>4. CASE Transfer(r) /\ access[r] = "write"
    BY <1>2, <2>4 DEF Transfer, checks
  <2>5. CASE errors' = errors
    BY <1>2, <2>5
  <2> QED
    BY <1>1, <2>2, <2>3, <2>4, <2>5, ChangesOfFiles
<1>5. ~errorFound'[r]
  <2>1. errorFound \in [Ranks -> BOOLEAN]
    BY <1>1 DEF TypeOK
  <2>2. CASE ErrorsKnown(r)
    <3>1. errorFound'[r] = (errorFound[r] \/ \E s \in Ranks : errors[s])
      BY <2>1, <2>2 DEF ErrorsKnown
    <3> QED
      BY <1>2, <3>1
  <2>3. CASE EndRep(r)
    BY <2>1, <2>3 DEF EndRep
  <2>4. CASE errorFound' = errorFound
    BY <1>2, <2>4
  <2> QED
    BY <1>1, <2>2, <2>3, <2>4, ChangesOfFiles
<1> QED
  BY <1>3, <1>4, <1>5


----------------------------------------------------------------------------
(***************************************************************************)
(* What is no rank's step.                                                 *)
(***************************************************************************)
\* No rank moves, and at most what is in a file changes.
StandStill ==
    /\ UNCHANGED <<opt, execution, status, pc, rep, rankOffset, stamp, iterations, results,
                   access, openFile, name, count, returned>>
    /\ DOMAIN files' = DOMAIN files
    /\ spoilt' \/ UNCHANGED <<files, spoilt, errors, errorFound>>

\* How far the ranks are, and with what, has nothing to do with the contents.
LEMMA StillCounts ==
    ASSUME StandStill, AtNameInv, StampInv, CountInv, WrittenInv, ThereInv, StatusInv
    PROVE  AtNameInv' /\ StampInv' /\ CountInv' /\ WrittenInv' /\ ThereInv' /\ StatusInv'
<1>1. /\ opt' = opt /\ execution' = execution /\ status' = status /\ pc' = pc /\ rep' = rep
      /\ rankOffset' = rankOffset /\ stamp' = stamp /\ iterations' = iterations
      /\ results' = results /\ access' = access /\ openFile' = openFile /\ name' = name
      /\ count' = count /\ returned' = returned /\ DOMAIN files' = DOMAIN files
  BY DEF StandStill
<1>2. \A r \in Ranks : Pos(r)' = Pos(r) /\ Round(r)' = Round(r)
  BY <1>1 DEF Pos, Round
<1>3. Exec' = Exec
  BY <1>1 DEF Exec
<1>4. AtNameInv'
  BY <1>1, <1>2 DEF AtNameInv, AtName, TestFileName
<1>5. StampInv'
  BY <1>1, <1>2, Numbers DEF StampInv, StampOK
<1>6. CountInv'
  BY <1>1, <1>2, <1>3 DEF CountInv, CountOK, Gathered
<1>7. WrittenInv'
  <2>1. \A r \in Ranks : (Through(r)' <=> Through(r)) /\ Written(r)' = Written(r)
    BY <1>1, <1>2, <1>3 DEF Through, Written
  <2> QED
    BY <1>1, <1>2, <1>3, <2>1 DEF WrittenInv, WrittenOK
<1>8. ThereInv'
  BY <1>1, <1>2 DEF ThereInv, FileOf
<1>9. StatusInv'
  BY <1>1, <1>2, <1>3, Numbers DEF StatusInv
<1> QED
  BY <1>4, <1>5, <1>6, <1>7, <1>8, <1>9

\* Nor do the contents change, unless the storage spoils them.
LEMMA StillFiles ==
    ASSUME StandStill, DataInv, SignedInv, KeptInv, LeftInv, CleanInv
    PROVE  DataInv' /\ SignedInv' /\ KeptInv' /\ LeftInv' /\ CleanInv'
<1>1. /\ opt' = opt /\ execution' = execution /\ status' = status /\ pc' = pc /\ rep' = rep
      /\ stamp' = stamp /\ iterations' = iterations /\ results' = results /\ access' = access
      /\ count' = count
  BY DEF StandStill
<1>2. Exec' = Exec /\ Repetitions' = Repetitions
  BY <1>1 DEF Exec, Repetitions
<1>3. /\ (CutBefore' <=> CutBefore) /\ (Told' <=> Told) /\ Left' = Left
  BY <1>1, SameWriters DEF SameOptions
<1>4. (CutBefore /\ Told => status # 0)'
  BY <1>1, <1>3 DEF LeftInv
<1>5. CASE spoilt'
  BY <1>4, <1>5 DEF DataInv, SignedInv, KeptInv, LeftInv, CleanInv
<1>6. CASE UNCHANGED <<files, spoilt, errors, errorFound>>
  <2>1. files' = files /\ spoilt' = spoilt /\ errors' = errors /\ errorFound' = errorFound
    BY <1>6
  <2>2. \A w \in Ranks : /\ Pos(w)' = Pos(w) /\ Round(w)' = Round(w)
                         /\ Sofar(w)' = Sofar(w) /\ Kept(w)' = Kept(w)
    BY <1>1, <1>2 DEF Pos, Round, Sofar, Written, Kept
  <2>3. DataInv'
    BY <1>1, <1>2, <2>1, <2>2 DEF DataInv, DataOK, FileOf
  <2>4. SignedInv'
    BY <1>1, <2>1 DEF SignedInv
  <2>5. KeptInv'
    <3>1. \A w \in Ranks, c \in Repetitions : Over(w, c)' <=> Over(w, c)
      BY <1>1, <2>2 DEF Over
    <3>2. \A w \in Ranks, c \in Repetitions : Whole(w, c, Kept(w))' <=> Whole(w, c, Kept(w))
      BY <1>1, <2>1, <2>2 DEF Whole, FileOf
    <3> QED
      BY <1>1, <1>2, <2>1, <3>1, <3>2 DEF KeptInv
  <2>6. LeftInv'
    <3>1. \A w \in Ranks, c \in Repetitions : Whole(w, c, Left)' <=> Whole(w, c, Left)
      BY <1>1, <1>3, <2>1 DEF Whole, FileOf
    <3> QED
      BY <1>1, <1>2, <1>3, <1>4, <2>1, <3>1 DEF LeftInv
  <2>7. CleanInv'
    BY <2>1 DEF CleanInv
  <2> QED
    BY <2>3, <2>4, <2>5, <2>6, <2>7
<1> QED
  BY <1>5, <1>6 DEF StandStill

----------------------------------------------------------------------------
(***************************************************************************)
(* The next execution.                                                     *)
(***************************************************************************)
\* All are at its beginning.
LEMMA NextBegins ==
    ASSUME NextExecution
    PROVE  /\ \A r \in Ranks : /\ Pos(r) = 0 /\ Pos(r)' = 0 /\ Round(r)' = 0
                               /\ pc[r] = "end" /\ pc'[r] = "start" /\ rep'[r] = 0
           /\ opt' = opt /\ execution' = execution + 1 /\ files' = files /\ status' = status
           /\ rankOffset' = rankOffset /\ stamp' = stamp /\ spoilt' = spoilt
           /\ errors' = errors /\ errorFound' = errorFound
<1>1. \A r \in Ranks : pc[r] = "end" /\ pc'[r] = "start" /\ rep'[r] = 0
  BY DEF NextExecution, AllEnded, Each
<1>2. \A r \in Ranks : Pos(r) = 0
  BY <1>1, OuterPlaces
<1>3. \A r \in Ranks : Pos(r)' = 0
  BY <1>1 DEF Pos, Inner, Outer
<1>4. \A r \in Ranks : Round(r)' = 0
  BY <1>1 DEF Round
<1> QED
  BY <1>1, <1>2, <1>3, <1>4 DEF NextExecution, naming, checks

\* There nobody has accessed anything.
LEMMA NextCounts ==
    ASSUME NextExecution, AtNameInv, StampInv
    PROVE  /\ AtNameInv' /\ StampInv' /\ CountInv' /\ WrittenInv' /\ ThereInv' /\ StatusInv'
           /\ DataInv'
<1>1. /\ \A r \in Ranks : /\ Pos(r)' = 0 /\ pc'[r] = "start" /\ rep'[r] = 0 /\ Round(r)' = 0
      /\ opt' = opt /\ rankOffset' = rankOffset /\ stamp' = stamp
  BY NextBegins
<1>2. AtNameInv'
  BY <1>1 DEF AtNameInv, AtName
<1>3. StampInv'
  BY <1>1 DEF StampInv, StampOK
<1>4. CountInv'
  BY <1>1 DEF CountInv, CountOK
<1>5. \A r \in Ranks : ~Through(r)'
  BY <1>1 DEF Through
<1>6. WrittenInv'
  BY <1>1, <1>5 DEF WrittenInv, WrittenOK
<1>7. ThereInv'
  BY <1>1 DEF ThereInv
<1>8. StatusInv'
  BY <1>1, Numbers DEF StatusInv
<1>9. DataInv'
  BY <1>1 DEF DataInv, DataOK
<1> QED
  BY <1>2, <1>3, <1>4, <1>6, <1>7, <1>8, <1>9

\* Who has written before it.
LEMMA NextWriters ==
    ASSUME TypeOK, NextExecution
    PROVE  /\ Exec.write => execution \in Writers'
           /\ Writers \subseteq Writers'
           /\ \A m \in Writers' : m \in Writers \/ (m = execution /\ Exec.write)
<1>1. execution \in Nat /\ 1 <= execution
  <2>1. opt \in Options /\ execution \in DOMAIN opt.executions
    BY DEF TypeOK
  <2>2. opt.executions \in Seq(ExecutionRecord)
    BY <2>1, OptionTypes DEF OptionRecord
  <2> QED
    BY <2>1, <2>2
<1>2. opt' = opt /\ execution' = execution + 1
  BY NextBegins
<1> QED
  BY <1>1, <1>2 DEF Writers, Exec

\* What the execution that ends has told, and what the earlier ones have.
LEMMA NextTold ==
    ASSUME TypeOK, NextExecution
    PROVE  /\ Told' => Told /\ (Exec.write /\ Exec.deadline => Exec.status)
           /\ CutBefore' <=> CutBefore \/ (Exec.write /\ Exec.deadline)
           /\ ~Exec.write => (Left' = Left)
<1>1. opt' = opt /\ status' = status
  BY NextBegins
<1>2. Told' => Told /\ (Exec.write /\ Exec.deadline => Exec.status)
  BY <1>1, NextWriters DEF Told, Exec
<1>3. CutBefore' <=> CutBefore \/ (Exec.write /\ Exec.deadline)
  BY <1>1, NextWriters DEF CutBefore, Exec
<1>4. ~Exec.write => (Left' = Left)
  BY <1>1, <1>3 DEF Left
<1> QED
  BY <1>2, <1>3, <1>4

\* An execution that has written leaves all the status file tells of.
LEMMA NextLeft ==
    ASSUME Sound, TypeOK, PlaceInv, KeptInv, WrittenInv, StatusInv, NextExecution,
           ~spoilt, Exec.write, Exec.deadline => Exec.status,
           NEW w \in Ranks, NEW c \in Repetitions
    PROVE  Whole(w, c, Left')
<1>1. opt \in Options /\ execution \in DOMAIN opt.executions /\ pc[w] = "end" /\ pc[0] = "end"
      /\ Pos(0) = 0 /\ Pos(w) = 0 /\ 0 \in Ranks /\ status' = status
  BY NextBegins, Numbers DEF TypeOK
<1>2. Exec.deadline => opt.repetitions = 1 /\ Exec.wearOut
  BY <1>1, SoundHere, ExecTypes
<1>3. \A r \in Ranks : rep[r] \in Int /\ rep[r] >= opt.repetitions - 1 /\ rep[r] <= opt.repetitions - 1
  <2> SUFFICES ASSUME NEW r \in Ranks
               PROVE  rep[r] \in Int /\ rep[r] >= opt.repetitions - 1 /\ rep[r] <= opt.repetitions - 1
    OBVIOUS
  <2>1. pc[r] = "end" /\ PlaceOK(r)
    BY NextBegins DEF PlaceInv
  <2>2. rep[r] \in Repetitions /\ rep[r] + 1 \notin Repetitions /\ opt.repetitions \in Nat
    BY <1>1, <2>1, OptionTypes DEF PlaceOK, TypeOK
  <2> QED
    BY <2>2 DEF Repetitions
<1>4. Over(w, c)
  <2>1. Round(w) = rep[w] + 1 /\ rep[w] \in Int /\ c <= rep[w] /\ c \in Int
    <3>1. c \in Int /\ c <= opt.repetitions - 1 /\ opt.repetitions \in Nat
      BY <1>1, OptionTypes DEF Repetitions
    <3> QED
      BY <1>1, <1>3, <3>1 DEF Round
  <2> QED
    BY <1>1, <2>1 DEF Over
<1>5. Whole(w, c, Kept(w))
  BY <1>2, <1>4 DEF KeptInv
<1>6. 1 .. Left' \subseteq 1 .. Kept(w)
  <2>1. status \in 0 .. Transfers /\ Transfers \in Nat
    BY Numbers DEF TypeOK
  <2>2. CASE ~Exec.deadline
    <3>1. Kept(w) = Transfers /\ Left' \in {status, Transfers}
      BY <1>1, <2>2 DEF Kept, Left
    <3> QED
      BY <2>1, <3>1
  <2>3. CASE Exec.deadline
    <3>1. CutBefore'
      BY <2>3, NextTold
    <3>2. Left' = status
      BY <1>1, <3>1 DEF Left
    <3>3. status \in 1 .. iterations[0] /\ iterations[0] \in Int
      <4>1. iterations \in [Ranks -> 0 .. Transfers]
        BY DEF TypeOK
      <4> QED
        BY <1>1, <2>1, <2>3, <4>1 DEF StatusInv
    <3>4. iterations[w] = iterations[0]
      <4>1. Written(w) = iterations[w] /\ Written(0) = iterations[0] /\ Through(0) /\ Through(w)
        BY <1>1, <2>3 DEF Written, Through
      <4>2. rep[w] = rep[0]
        BY <1>1, <1>2, <1>3, <2>3
      <4>3. WrittenOK(0)
        BY <1>1 DEF WrittenInv
      <4> QED
        BY <1>2, <2>3, <4>1, <4>2, <4>3 DEF WrittenOK
    <3>5. Kept(w) = iterations[0]
      BY <2>3, <3>4 DEF Kept
    <3> QED
      BY <3>2, <3>3, <3>5
  <2> QED
    BY <2>2, <2>3
<1> QED
  BY <1>5, <1>6 DEF Whole

\* The files are as the last execution has left them.
LEMMA NextContents ==
    ASSUME Sound, TypeOK, PlaceInv, WrittenInv, SignedInv, KeptInv, StatusInv, LeftInv, CleanInv,
           NextExecution
    PROVE  SignedInv' /\ KeptInv' /\ LeftInv' /\ CleanInv'
<1>1. /\ \A r \in Ranks : pc[r] = "end" /\ pc'[r] = "start" /\ Round(r)' = 0
      /\ opt' = opt /\ files' = files /\ status' = status /\ spoilt' = spoilt
      /\ errors' = errors /\ errorFound' = errorFound
      /\ opt \in Options /\ execution \in DOMAIN opt.executions /\ 0 \in Ranks
  BY NextBegins, Numbers DEF TypeOK
<1>2. SignedInv'
  BY <1>1 DEF SignedInv
<1>3. KeptInv'
  <2>1. \A w \in Ranks, c \in Repetitions' : ~Over(w, c)'
    <3> SUFFICES ASSUME NEW w \in Ranks, NEW c \in Repetitions'
                 PROVE  ~Over(w, c)'
      OBVIOUS
    <3>1. c \in Int /\ 0 <= c
      <4>1. opt.repetitions \in Nat
        BY <1>1, OptionTypes
      <4> QED
        BY <1>1, <4>1 DEF Repetitions
    <3> QED
      BY <1>1, <3>1 DEF Over
  <2> QED
    BY <2>1 DEF KeptInv
<1>4. CleanInv'
  BY <1>1 DEF CleanInv
<1>5. (CutBefore /\ Told => status # 0)'
  <2> SUFFICES ASSUME CutBefore', Told'
               PROVE  status # 0
    BY <1>1
  <2>1. CASE CutBefore
    BY <2>1, NextTold DEF LeftInv
  <2>2. CASE Exec.write /\ Exec.deadline
    <3>1. Exec.status
      BY <2>2, NextTold
    <3>2. status \in 1 .. iterations[0]
      BY <1>1, <2>2, <3>1 DEF StatusInv
    <3>3. iterations \in [Ranks -> 0 .. Transfers]
      BY DEF TypeOK
    <3> QED
      BY <1>1, <3>2, <3>3, Numbers
  <2> QED
    BY <2>1, <2>2, NextTold
<1>6. ASSUME ~spoilt, opt.keepFile, Told', NEW w \in Ranks, NEW c \in Repetitions
      PROVE  Whole(w, c, Left)'
  <2>1. Told /\ (Exec.write /\ Exec.deadline => Exec.status)
    BY <1>6, NextTold
  <2>2. Whole(w, c, Left')
    <3>1. CASE Exec.write
      BY <1>6, <2>1, <3>1, NextLeft
    <3>2. CASE ~Exec.write
      <4>1. Whole(w, c, Left) /\ Left' = Left
        BY <1>6, <2>1, <3>2, NextTold DEF LeftInv
      <4> QED
        BY <4>1
    <3> QED
      BY <3>1, <3>2
  <2> QED
    BY <1>1, <2>2 DEF Whole, FileOf
<1>7. Repetitions' = Repetitions
  BY <1>1 DEF Repetitions
<1>8. LeftInv'
  BY <1>1, <1>5, <1>6, <1>7 DEF LeftInv
<1> QED
  BY <1>2, <1>3, <1>4, <1>8

----------------------------------------------------------------------------
(***************************************************************************)
(* The inductive invariant.                                                *)
(***************************************************************************)
\* Where the ranks are, what they have open, and under which name.
PlacesInv == SInv /\ OpenInv /\ NameInv

\* How far they are, and what the status file says of it.
CountsInv == AtNameInv /\ StampInv /\ CountInv /\ WrittenInv /\ ThereInv /\ StatusInv

\* What is in the files.
ContentsInv == DataInv /\ SignedInv /\ KeptInv /\ LeftInv /\ CleanInv

EInv == PlacesInv /\ CountsInv /\ ContentsInv

\* Sound options know no time limit and have something to read.
LEMMA SoundIsUntimed ==
    ASSUME Sound
    PROVE  Untimed /\ Provided
BY DEF Sound, SoundOption, ByClock, Untimed, Provided

\* At the beginning nothing has been accessed and there is no file.
LEMMA InitErrors ==
    ASSUME Init
    PROVE  EInv
<1>1. PlacesInv
  BY InitSInv, InitOpen, InitNames DEF PlacesInv
<1>2. /\ \A r \in Ranks : /\ pc[r] = "start" /\ rep[r] = 0 /\ rankOffset[r] = 0 /\ stamp[r] = 0
                          /\ ~errors[r] /\ ~errorFound[r]
      /\ execution = 1 /\ files = << >> /\ opt \in Options
  BY DEF Init, Each
<1>3. \A r \in Ranks : Pos(r) = 0 /\ Round(r) = 0
  BY <1>2, OuterPlaces DEF Round
<1>4. DOMAIN files = {}
  BY <1>2
<1>5. CountsInv
  <2>1. AtNameInv
    BY <1>2, <1>3 DEF AtNameInv, AtName
  <2>2. StampInv
    BY <1>2, <1>3 DEF StampInv, StampOK
  <2>3. CountInv
    BY <1>3 DEF CountInv, CountOK
  <2>4. \A r \in Ranks : ~Through(r)
    BY <1>2, <1>3 DEF Through
  <2>5. WrittenInv
    BY <1>3, <2>4 DEF WrittenInv, WrittenOK
  <2>6. ThereInv
    BY <1>3 DEF ThereInv
  <2>7. StatusInv
    BY <1>2, <1>3, Numbers DEF StatusInv
  <2> QED
    BY <2>1, <2>2, <2>3, <2>5, <2>6, <2>7 DEF CountsInv
<1>6. ContentsInv
  <2>1. DataInv /\ SignedInv
    BY <1>3, <1>4 DEF DataInv, DataOK, SignedInv
  <2>2. \A w \in Ranks, c \in Repetitions : \A m : Whole(w, c, m)
    BY <1>4 DEF Whole
  <2>3. KeptInv
    BY <2>2 DEF KeptInv
  <2>4. ~CutBefore
    BY <1>2 DEF CutBefore, Writers
  <2>5. LeftInv
    BY <2>2, <2>4 DEF LeftInv
  <2>6. CleanInv
    BY <1>2 DEF CleanInv
  <2> QED
    BY <2>1, <2>3, <2>5, <2>6 DEF ContentsInv
<1> QED
  BY <1>1, <1>5, <1>6 DEF EInv

\* Every step keeps the invariant.
LEMMA ErrorsStep ==
    ASSUME Sound, EInv, [Next]_vars
    PROVE  EInv'
<1>1. /\ SInv /\ OpenInv /\ NameInv
      /\ AtNameInv /\ StampInv /\ CountInv /\ WrittenInv /\ ThereInv /\ StatusInv
      /\ DataInv /\ SignedInv /\ KeptInv /\ LeftInv /\ CleanInv
  BY DEF EInv, PlacesInv, CountsInv, ContentsInv
<1>2. SInv' /\ PlacesInv'
  <2>1. Untimed
    BY SoundIsUntimed
  <2> QED
    BY <1>1, <2>1, SStep, OpenStep, NameStep DEF PlacesInv
<1>3. CASE UNCHANGED vars
  <2>1. StandStill
    BY <1>3 DEF vars, StandStill
  <2> QED
    BY <1>1, <1>2, <2>1, StillCounts, StillFiles DEF EInv, CountsInv, ContentsInv
<1>4. ASSUME NEW n \in DOMAIN files, NEW w \in Ranks, NEW k \in Positions, Spoil(n, w, k)
      PROVE  EInv'
  <2>1. StandStill
    BY <1>4 DEF Spoil, StandStill, loop, naming, sizes, open, phase
  <2> QED
    BY <1>1, <1>2, <2>1, StillCounts, StillFiles DEF EInv, CountsInv, ContentsInv
<1>5. ASSUME NEW r \in Ranks, RankStep(r)
      PROVE  EInv'
  <2>1. ~opt.timeLimit
    BY <1>1, SoundHere DEF SInv
  <2>2. CountsInv'
    BY <1>1, <1>2, <1>5, <2>1, AtNameStep, StampStep, CountStep, WrittenStep, ThereStep,
       StatusStep DEF CountsInv
  <2>3. ContentsInv'
    BY <1>1, <1>2, <1>5, DataStep, SignedStep, WholeStep, LeftStep, CleanStep DEF ContentsInv
  <2> QED
    BY <1>2, <2>2, <2>3 DEF EInv
<1>6. CASE NextExecution
  <2>1. TypeOK /\ PlaceInv
    BY <1>1 DEF SInv
  <2>2. CountsInv' /\ DataInv'
    BY <1>1, <1>6, NextCounts DEF CountsInv
  <2>3. ContentsInv'
    BY <1>1, <1>6, <2>1, <2>2, NextContents DEF ContentsInv
  <2> QED
    BY <1>2, <2>2, <2>3 DEF EInv
<1> QED
  BY <1>3, <1>4, <1>5, <1>6 DEF Next

\* So it holds throughout.
LEMMA ErrorsInvariant ==
    ASSUME Sound
    PROVE  Spec => []EInv
<1>1. Init => EInv
  BY InitErrors
<1>2. EInv /\ [Next]_vars => EInv'
  BY ErrorsStep
<1> QED
  BY <1>1, <1>2, PTL DEF Spec

(***************************************************************************)
(* A check finds an error, or is told of one, only when the storage has    *)
(* spoilt something: WriteOrRead() meets in every block the data of the    *)
(* time stamp it expects, as far as the stonewall has let its writer come, *)
(* whoever the writer is, in whichever repetition or execution it wrote.   *)
(***************************************************************************)
THEOREM NoFalseErrorsHolds ==
    ASSUME Sound
    PROVE  Spec => []NoFalseErrors
<1>1. EInv => NoFalseErrors
  BY DEF EInv, ContentsInv, CleanInv, NoFalseErrors
<1> QED
  BY <1>1, ErrorsInvariant, PTL

(***************************************************************************)
(* An execution that only reads, or checks, finds the blocks of earlier    *)
(* ones as far as the status file tells how far a stonewall let them come. *)
(***************************************************************************)
THEOREM LeftForReaders ==
    ASSUME Sound
    PROVE  Spec => []LeftInv
<1>1. EInv => LeftInv
  BY DEF EInv, ContentsInv
<1> QED
  BY <1>1, ErrorsInvariant, PTL
=============================================================================
