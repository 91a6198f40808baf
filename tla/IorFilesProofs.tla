--------------------------- MODULE IorFilesProofs ---------------------------
(***************************************************************************)
(* What becomes of the files of an IOR test, for every number of ranks and *)
(* all options without a time limit: an open file is not removed, a file   *)
(* in which a check has found an error is kept when it is to be, and in    *)
(* the end the files are those that are asked for.                         *)
(***************************************************************************)
EXTENDS IorOrderProofs

----------------------------------------------------------------------------
(***************************************************************************)
(* A file that is open is there.                                           *)
(***************************************************************************)
OpenPlaces == (4 .. 8) \cup (14 .. 17) \cup (24 .. 28)

OpenOK(r) ==
    /\ openFile[r] # NoFile => Pos(r) \in OpenPlaces
    /\ Pos(r) \in OpenPlaces => openFile[r] \in DOMAIN files
OpenInv == \A r \in Ranks : OpenOK(r)

(* Nobody has a file open when a rank begins to write. *)
LEMMA NoneOpenAtWrite ==
    ASSUME SInv, NEW r \in Ranks, BeginWrite(r), NEW s \in Ranks
    PROVE  Pos(s) \notin OpenPlaces
<1>1. TypeOK /\ NearInv /\ Near(r, s) /\ Near(s, r)
  BY DEF SInv, NearInv
<1>2. Pos(r) = 2 /\ Exec.write
  BY <1>1, Places DEF PlacesKnown, BeginWrite, Takes, Wanted
<1>3. 3 \in Full /\ Asked(s, 3)
  BY <1>2 DEF Full, Asked, Active
<1> SUFFICES ASSUME Pos(s) \in OpenPlaces
             PROVE  FALSE
  OBVIOUS
<1>4. 3 < Pos(s) /\ Pos(s) # 34 /\ Round(s) \in Nat /\ Round(r) \in Nat
  BY <1>1, PlaceTypes DEF OpenPlaces
<1>5. Round(s) = Round(r)
  BY <1>1, <1>2, <1>4 DEF Near
<1> QED
  BY <1>1, <1>2, <1>3, <1>4, <1>5 DEF Near, Behind

(* Nor when a rank removes a file. *)
LEMMA NoneOpenAtRemove ==
    ASSUME SInv, NEW r \in Ranks, Remove(r), NEW s \in Ranks
    PROVE  Pos(s) \notin OpenPlaces
<1>1. TypeOK /\ NearInv /\ ErrorInv /\ PlaceOK(r)
  BY DEF SInv, PlaceInv
<1>2. Pos(r) = 33 /\ AllArrived(r) /\ Removes(r)
  BY <1>1, Places DEF PlacesKnown, Remove, PlaceOK
<1>3. 33 \in Full /\ Asked(r, 33)
  BY <1>2 DEF Full, Asked
<1>4. (Round(s) = Round(r) /\ 33 <= Pos(s)) \/ (Round(s) = Round(r) + 1 /\ 33 = 34)
  BY <1>1, <1>2, <1>3, Met
<1> QED
  BY <1>4 DEF OpenPlaces

(* The files that are open stay, and the rank is still in the phase. *)
LEMMA OpenStays ==
    ASSUME OpenInv, NEW r \in Ranks, Moves(r) \/ Turns(r), openFile' = openFile,
           DOMAIN files' = DOMAIN files,
           Pos(r)' \in OpenPlaces <=> Pos(r) \in OpenPlaces
    PROVE  OpenInv'
<1>1. SameOptions /\ OthersStay(r)
  BY DEF Moves, Turns
<1>2. \A s \in Ranks : s # r => Pos(s)' = Pos(s)
  BY <1>1, OthersFacts
<1>3. \A s \in Ranks : OpenOK(s)
  BY DEF OpenInv
<1> QED
  BY <1>2, <1>3 DEF OpenInv, OpenOK

(* When nobody has a file open, a step that opens none may remove any. *)
LEMMA NoneOpenAfter ==
    ASSUME OpenInv, NEW r \in Ranks, Moves(r), \A s \in Ranks : Pos(s) \notin OpenPlaces,
           openFile' = openFile, Pos(r)' \notin OpenPlaces
    PROVE  OpenInv'
<1>1. SameOptions /\ OthersStay(r)
  BY DEF Moves
<1>2. \A s \in Ranks : s # r => Pos(s)' = Pos(s)
  BY <1>1, OthersFacts
<1> QED
  BY <1>2 DEF OpenInv, OpenOK

(* A rank opens a file that is there. *)
LEMMA OpenOpens ==
    ASSUME SInv, TypeOK', OpenInv, NEW r \in Ranks, NEW n, NEW a \in {"write", "check", "read"},
           Opened(r, a, n), Moves(r), n \in DOMAIN files',
           DOMAIN files \subseteq DOMAIN files'
    PROVE  OpenInv'
<1>1. TypeOK /\ SameOptions /\ OthersStay(r)
  BY DEF SInv, Moves
<1>2. \A s \in Ranks : s # r => Pos(s)' = Pos(s)
  BY <1>1, OthersFacts
<1>3. /\ openFile'[r] = n
      /\ \A s \in Ranks : s # r => openFile'[s] = openFile[s]
  <2>1. openFile \in [Ranks -> Names]
    BY <1>1 DEF TypeOK
  <2> QED
    BY <2>1 DEF Opened
<1>4. access'[r] = a /\ pc'[r] \in {"openWait", "access"}
  BY <1>1, OpenedPlaces
<1>5. Pos(r)' \in OpenPlaces
  <2>1. PlacesKnown'
    BY NextPlaces
  <2>2. Pos(r)' \in {4, 5, 14, 15, 24, 25}
    BY <1>4, <2>1 DEF PlacesKnown
  <2> QED
    BY <2>2 DEF OpenPlaces
<1>6. ASSUME NEW s \in Ranks
      PROVE  OpenOK(s)'
  <2>1. OpenOK(s)
    BY DEF OpenInv
  <2> QED
    BY <1>2, <1>3, <1>5, <2>1 DEF OpenOK
<1> QED
  BY <1>6 DEF OpenInv

\* The steps by which a rank goes on in a phase, or outside of one.
Inside(r) ==
    \/ StartRep(r) \/ StampKnown(r) \/ Skip(r) \/ BeginCheck(r) \/ BeginRead(r)
    \/ StatusKnown(r) \/ Reorder(r) \/ OpenDone(r) \/ Transfer(r) \/ Return(r)
    \/ ErrorsKnown(r) \/ AccessDone(r) \/ Closed(r) \/ SizeKnown(r) \/ Reported(r)
    \/ BeforeRemove(r) \/ EndRep(r) \/ ShowTestEnd(r)

\* These steps neither open nor close a file, nor change what files there are.
LEMMA InsideFiles ==
    ASSUME TypeOK, NEW r \in Ranks, Inside(r)
    PROVE  DOMAIN files' = DOMAIN files /\ openFile' = openFile /\ access' = access
<1>1. CASE StartRep(r) \/ StampKnown(r) \/ Skip(r)
  BY <1>1 DEF StartRep, StampKnown, Skip, open
<1>2. CASE BeginCheck(r) \/ BeginRead(r) \/ StatusKnown(r) \/ Reorder(r) \/ OpenDone(r)
  BY <1>2 DEF BeginCheck, BeginRead, StatusKnown, Reorder, OpenDone, Passes, open
<1>3. CASE Transfer(r)
  BY <1>3 DEF Transfer, open
<1>4. CASE Return(r) \/ ErrorsKnown(r) \/ AccessDone(r)
  BY <1>4 DEF Return, ErrorsKnown, AccessDone, open
<1>5. CASE Closed(r) \/ SizeKnown(r) \/ Reported(r)
  BY <1>5 DEF Closed, SizeKnown, Passes, Reported, open
<1>6. CASE BeforeRemove(r) \/ EndRep(r) \/ ShowTestEnd(r)
  BY <1>6 DEF BeforeRemove, EndRep, ShowTestEnd, open
<1> QED
  BY <1>1, <1>2, <1>3, <1>4, <1>5, <1>6 DEF Inside

\* The places outside of a phase, or at its end.
PlaceTop(p) == p \in {0, 1, 2, 12, 20, 32, 13, 21, 22, 23, 10, 20, 30, 11, 21, 31, 33, 34}

\* Nor do they lead into the places where a file is open, or out of them.
LEMMA InsidePlaces ==
    ASSUME TypeOK, TypeOK', NEW r \in Ranks, Inside(r)
    PROVE  Pos(r)' \in OpenPlaces <=> Pos(r) \in OpenPlaces
<1>1. access'[r] = access[r] /\ PlacesKnown /\ PlacesKnown'
  BY InsideFiles, Places, NextPlaces
<1>2. CASE pc[r] \in {"openWait", "access", "errorsWait", "returned"}
  <2>1. pc'[r] \in {"access", "errorsWait", "returned", "closeWait"}
    <3>1. CASE Transfer(r)
      BY <1>2, <3>1 DEF Transfer
    <3>2. CASE OpenDone(r) \/ Return(r) \/ ErrorsKnown(r) \/ AccessDone(r)
      BY <3>2, OthersAre DEF OpenDone, Passes, Return, ErrorsKnown, AccessDone
    <3> QED
      BY <1>2, <3>1, <3>2 DEF Inside, StartRep, StampKnown, Skip, BeginCheck, BeginRead, Takes,
         StatusKnown, Reorder, Closed, SizeKnown, Passes, Reported, BeforeRemove, EndRep,
         ShowTestEnd
  <2>2. Pos(r)' \in (5 .. 8) \cup (15 .. 18) \cup (25 .. 28)
    BY <1>1, <2>1 DEF PlacesKnown
  <2>3. pc'[r] = "closeWait" => Pos(r)' \in {8, 28} \/ access[r] = "check"
    BY <1>1 DEF PlacesKnown
  <2>4. pc'[r] = "closeWait" => access[r] # "check"
    <3>1. CASE AccessDone(r)
      BY <3>1 DEF AccessDone
    <3>2. CASE Transfer(r)
      BY <1>2, <3>2 DEF Transfer
    <3>3. CASE OpenDone(r) \/ Return(r) \/ ErrorsKnown(r)
      BY <3>3, OthersAre DEF OpenDone, Passes, Return, ErrorsKnown
    <3> QED
      BY <1>2, <3>1, <3>2, <3>3 DEF Inside, StartRep, StampKnown, Skip, BeginCheck, BeginRead,
         Takes, StatusKnown, Reorder, Closed, SizeKnown, Passes, Reported, BeforeRemove, EndRep,
         ShowTestEnd
  <2>5. Pos(r)' \in {5, 6, 7, 8, 15, 16, 17, 25, 26, 27, 28}
    BY <1>1, <2>1, <2>4 DEF PlacesKnown
  <2>6. Pos(r) \in {4, 5, 6, 7, 14, 15, 16, 17, 24, 25, 26, 27}
    BY <1>1, <1>2 DEF PlacesKnown
  <2> QED
    BY <2>5, <2>6 DEF OpenPlaces
<1>3. CASE pc[r] = "closeWait"
  BY <1>3 DEF Inside, StartRep, StampKnown, Skip, BeginCheck, BeginRead, Takes, StatusKnown,
     Reorder, OpenDone, Transfer, Return, ErrorsKnown, AccessDone, Closed, SizeKnown, Passes,
     Reported, BeforeRemove, EndRep, ShowTestEnd
<1>4. CASE pc[r] \notin {"openWait", "access", "errorsWait", "returned", "closeWait"}
  <2>1. pc[r] \in PCs
    BY DEF TypeOK
  <2>2. Pos(r) \notin OpenPlaces
    BY <1>1, <1>4, <2>1 DEF PlacesKnown, PCs, OpenPlaces
  <2>3. pc'[r] \in {"stampWait", "write", "check", "read", "remove", "checkWait",
                    "statusWait", "reorder", "readWait", "sizeWait", "report",
                    "removeWait", "repWait", "start", "finish", "end"}
    <3>1. CASE StartRep(r) \/ StampKnown(r) \/ Skip(r)
      BY <3>1, OthersAre DEF StartRep, StampKnown, Skip
    <3>2. CASE BeginCheck(r) \/ BeginRead(r) \/ StatusKnown(r) \/ Reorder(r)
      BY <3>2, OthersAre DEF BeginCheck, BeginRead, StatusKnown, Reorder
    <3>3. CASE Closed(r) \/ SizeKnown(r) \/ Reported(r)
      BY <3>3, OthersAre DEF Closed, SizeKnown, Passes, Reported
    <3>4. CASE BeforeRemove(r) \/ EndRep(r) \/ ShowTestEnd(r)
      BY <3>4, OthersAre DEF BeforeRemove, EndRep, ShowTestEnd
    <3> QED
      BY <1>4, <3>1, <3>2, <3>3, <3>4 DEF Inside, OpenDone, Passes, Transfer, Return,
         ErrorsKnown, AccessDone
  <2>4. PlaceTop(Pos(r)')
    BY <1>1, <2>3 DEF PlacesKnown, PlaceTop
  <2> QED
    BY <2>2, <2>4 DEF PlaceTop, OpenPlaces
<1> QED
  BY <1>2, <1>3, <1>4

\* Every step keeps the files that are open.
LEMMA OpenStep ==
    ASSUME Untimed, SInv, OpenInv, [Next]_vars
    PROVE  OpenInv'
<1>1. TypeOK /\ PlaceInv /\ SInv' /\ TypeOK' /\ \A s \in Ranks : OpenOK(s)
  BY SStep DEF SInv, OpenInv
<1>2. ~opt.timeLimit
  BY <1>1 DEF Untimed, TypeOK
<1>3. CASE UNCHANGED vars
  <2>1. \A s \in Ranks : Pos(s)' = Pos(s)
    BY <1>3 DEF vars, Pos
  <2> QED
    BY <1>1, <1>3, <2>1 DEF vars, OpenInv, OpenOK
<1>4. ASSUME NEW r \in Ranks, RankStep(r)
      PROVE  OpenInv'
  <2>1. Moves(r) \/ Turns(r)
    BY <1>1, <1>2, <1>4, RankPlaces
  <2>2. CASE Inside(r)
    BY <1>1, <2>1, <2>2, InsideFiles, InsidePlaces, OpenStays DEF OpenOK
  <2>3. CASE BeginWrite(r)
    <3>1. openFile' = openFile /\ Moves(r)
      BY <1>1, <2>3, BeginWriteMoves DEF BeginWrite, open
    <3>2. Pos(r)' = 3
      BY <1>1, <2>3, OthersAre, NextPlaces DEF PlacesKnown, BeginWrite
    <3> QED
      BY <2>3, <3>1, <3>2, NoneOpenAtWrite, NoneOpenAfter DEF OpenPlaces
  <2>4. CASE Remove(r)
    <3>1. openFile' = openFile /\ Moves(r)
      BY <1>1, <2>4, RemoveMoves DEF Remove, open
    <3>2. Pos(r)' = 34
      BY <1>1, <2>4, OthersAre, NextPlaces DEF PlacesKnown, Remove
    <3> QED
      BY <2>4, <3>1, <3>2, NoneOpenAtRemove, NoneOpenAfter DEF OpenPlaces
  <2>5. CASE Create(r)
    <3>1. Opened(r, "write", name[r]) /\ files' = With(name[r]) /\ Moves(r)
      BY <1>1, <2>5, CreateMoves DEF Create
    <3>2. name[r] \in DOMAIN files' /\ DOMAIN files \subseteq DOMAIN files'
      BY <3>1 DEF With
    <3> QED
      BY <1>1, <3>1, <3>2, OpenOpens
  <2>6. CASE OpenCheck(r)
    <3>1. Opened(r, "check", name'[r]) /\ files' = files /\ Moves(r) /\ name'[r] \in DOMAIN files
      BY <1>1, <2>6, OpenCheckMoves DEF OpenCheck
    <3> QED
      BY <1>1, <3>1, OpenOpens
  <2>7. CASE OpenRead(r)
    <3>1. Opened(r, "read", name[r]) /\ files' = files /\ Moves(r) /\ name[r] \in DOMAIN files
      BY <1>1, <2>7, OpenReadMoves DEF OpenRead
    <3> QED
      BY <1>1, <3>1, OpenOpens
  <2>8. CASE Close(r)
    <3>1. /\ openFile'[r] = NoFile /\ files' = files
          /\ \A s \in Ranks : s # r => openFile'[s] = openFile[s]
      <4>1. openFile \in [Ranks -> Names]
        BY <1>1 DEF TypeOK
      <4> QED
        BY <2>8, <4>1 DEF Close
    <3>2. SameOptions /\ OthersStay(r)
      BY <2>1 DEF Moves, Turns
    <3>3. \A s \in Ranks : s # r => Pos(s)' = Pos(s)
      BY <3>2, OthersFacts
    <3>4. Pos(r)' \in {9, 20, 30}
      <4>1. PlacesKnown' /\ access' = access /\ access[r] \in {"write", "check", "read"}
        BY <1>1, <2>8, NextPlaces DEF TypeOK, Close
      <4>2. CASE access[r] = "write"
        BY <1>1, <2>8, <4>1, <4>2, OthersAre DEF PlacesKnown, Close
      <4>3. CASE access[r] = "check"
        BY <1>1, <2>8, <4>1, <4>3, OthersAre DEF PlacesKnown, Close
      <4>4. CASE access[r] = "read"
        BY <1>1, <2>8, <4>1, <4>4, OthersAre DEF PlacesKnown, Close
      <4> QED
        BY <4>1, <4>2, <4>3, <4>4
    <3>5. Pos(r)' \notin OpenPlaces
      BY <3>4 DEF OpenPlaces
    <3> QED
      BY <1>1, <3>1, <3>3, <3>5 DEF OpenInv, OpenOK
  <2> QED
    BY <1>4, <2>2, <2>3, <2>4, <2>5, <2>6, <2>7, <2>8 DEF RankStep, Inside
<1>5. ASSUME NEW n \in DOMAIN files, NEW w \in Ranks, NEW k \in Positions, Spoil(n, w, k)
      PROVE  OpenInv'
  <2>1. /\ pc' = pc /\ access' = access /\ openFile' = openFile
        /\ DOMAIN files' = DOMAIN files
    BY <1>5 DEF Spoil, open
  <2>2. \A s \in Ranks : Pos(s)' = Pos(s)
    BY <2>1 DEF Pos
  <2> QED
    BY <1>1, <2>1, <2>2 DEF OpenInv, OpenOK
<1>6. CASE NextExecution
  <2>1. \A s \in Ranks : pc[s] = "end"
    BY <1>6 DEF NextExecution, AllEnded
  <2>2. \A s \in Ranks : Pos(s) = 0
    BY <2>1, OuterPlaces
  <2>3. \A s \in Ranks : openFile[s] = NoFile
    BY <1>1, <2>2 DEF OpenOK, OpenPlaces
  <2>4. \A s \in Ranks : Pos(s)' = 0
    BY <1>1, <1>6, NextPlaces DEF PlacesKnown, NextExecution, Each
  <2> QED
    BY <1>6, <2>3, <2>4 DEF NextExecution, open, OpenInv, OpenOK, OpenPlaces
<1> QED
  BY <1>3, <1>4, <1>5, <1>6 DEF Next


\* At the beginning none is.
LEMMA InitOpen ==
    ASSUME Init
    PROVE  OpenInv
<1>1. \A r \in Ranks : Pos(r) = 0 /\ openFile[r] = NoFile
  BY OuterPlaces DEF Init, Each
<1> QED
  BY <1>1 DEF OpenInv, OpenOK, OpenPlaces

(***************************************************************************)
(* No rank removes a file that any rank has open: the removal before a     *)
(* write comes after the last close of the repetition before, and the one  *)
(* at the end of a repetition after the barrier in front of it.            *)
(***************************************************************************)
THEOREM OpenFilesExistHolds ==
    ASSUME Untimed
    PROVE  Spec => []OpenFilesExist
<1>1. Init => SInv /\ OpenInv
  BY InitSInv, InitOpen
<1>2. SInv /\ OpenInv /\ [Next]_vars => SInv' /\ OpenInv'
  BY SStep, OpenStep
<1>3. OpenInv => OpenFilesExist
  BY DEF OpenInv, OpenOK, OpenFilesExist
<1> QED
  BY <1>1, <1>2, <1>3, PTL DEF Spec

----------------------------------------------------------------------------
(***************************************************************************)
(* What a check has found is known to all ranks before they remove a file. *)
(***************************************************************************)
\* Rank s is going to be told what rank t has found.
Pending(s, t) ==
    /\ errors[t]
    /\ \/ access[t] = "check" /\ Active(16) /\ 14 <= Pos(t) /\ Pos(s) <= 16
       \/ access[t] = "read" /\ Active(26) /\ 24 <= Pos(t) /\ Pos(s) <= 26

Known(s) == errorFound[s] \/ \E t \in Ranks : Pending(s, t)

EvidenceInv ==
    evidence # {} => /\ Checking \/ Exec.read
                     /\ \A s \in Ranks : 13 <= Pos(s) /\ (Checking => Known(s))

(* A rank that goes on, while nothing is found or told. *)
LEMMA EvidenceStays ==
    ASSUME TypeOK, TypeOK', EvidenceInv, NEW r \in Ranks, Moves(r), pc[r] # "errorsWait",
           errorFound' = errorFound, evidence' = evidence,
           \A t \in Ranks : \/ errors'[t] = errors[t] /\ access'[t] = access[t]
                            \/ \A s \in Ranks : ~Pending(s, t)
    PROVE  EvidenceInv'
<1>1. SameOptions /\ OthersStay(r)
  BY DEF Moves
<1>2. /\ \A a : Active(a)' <=> Active(a)
      /\ (Checking' <=> Checking) /\ (Exec.read)' = Exec.read
  BY <1>1, SameActive DEF SameOptions, Checking, Exec
<1>3. \A s \in Ranks : Pos(s) \in 0 .. 34 /\ Pos(s)' \in 0 .. 34 /\ Pos(s) <= Pos(s)'
  <2> TAKE s \in Ranks
  <2>1. Pos(s) \in 0 .. 34 /\ Pos(s)' \in 0 .. 34
    BY PlaceTypes, NextPlaceTypes DEF AllPlacesOK
  <2>2. CASE s = r
    BY <2>1, <2>2 DEF Moves
  <2>3. CASE s # r
    BY <1>1, <2>1, <2>3, OthersFacts
  <2> QED
    BY <2>2, <2>3
<1>4. ASSUME NEW a \in Sums, Active(a), NEW s \in Ranks, Pos(s) <= a
      PROVE  Pos(s)' <= a
  <2>1. Passed(s)' = Passed(s)
    BY <1>1, PassedStays, OthersFacts
  <2>2. a \in {6, 16, 26}
    BY DEF Sums
  <2>3. a \notin Passed(s)
    BY <1>3, <1>4, <2>2, PassedElements
  <2>4. ~(a < Pos(s)')
    BY <1>2, <1>4, <2>1, <2>3, PassedElements
  <2>5. Pos(s)' \in 0 .. 34
    BY <1>3
  <2> HIDE DEF Pos
  <2> QED
    BY <2>2, <2>4, <2>5
<1>5. ASSUME NEW s \in Ranks, NEW t \in Ranks, Pending(s, t)
      PROVE  Pending(s, t)'
  <2>1. errors'[t] = errors[t] /\ access'[t] = access[t]
    BY <1>5
  <2>2. 16 \in Sums /\ 26 \in Sums
    BY DEF Sums
  <2>3. Active(16) /\ Pos(s) <= 16 => Pos(s)' <= 16
    BY <1>4, <2>2
  <2>4. Active(26) /\ Pos(s) <= 26 => Pos(s)' <= 26
    BY <1>4, <2>2
  <2>5. (14 <= Pos(t) => 14 <= Pos(t)') /\ (24 <= Pos(t) => 24 <= Pos(t)')
    <3> DEFINE m == Pos(t)
               n == Pos(t)'
    <3>1. m \in 0 .. 34 /\ n \in 0 .. 34 /\ m <= n
      BY <1>3
    <3> HIDE DEF m, n
    <3>2. (14 <= m => 14 <= n) /\ (24 <= m => 24 <= n)
      BY <3>1
    <3> QED
      BY <3>2 DEF m, n
  <2> QED
    BY <1>2, <1>5, <2>1, <2>3, <2>4, <2>5 DEF Pending
<1>6. \A s \in Ranks : 13 <= Pos(s) => 13 <= Pos(s)'
  <2> TAKE s \in Ranks
  <2> DEFINE m == Pos(s)
             n == Pos(s)'
  <2>1. m \in 0 .. 34 /\ n \in 0 .. 34 /\ m <= n
    BY <1>3
  <2> HIDE DEF m, n
  <2>2. 13 <= m => 13 <= n
    BY <2>1
  <2> QED
    BY <2>2 DEF m, n
<1>7. \A s \in Ranks : Known(s) => Known(s)'
  BY <1>5 DEF Known
<1> QED
  BY <1>2, <1>6, <1>7 DEF EvidenceInv

(* All are in the same phase when a rank finds something. *)
LEMMA FindsTogether ==
    ASSUME SInv, NEW r \in Ranks, pc[r] = "access", NEW s \in Ranks
    PROVE  /\ access[r] = "check" => /\ Active(16) /\ Checking /\ Pos(r) = 15
                                     /\ 13 <= Pos(s) /\ Pos(s) <= 16
           /\ access[r] = "read" => /\ Checking \/ Exec.read
                                    /\ Pos(r) = 25 /\ 23 <= Pos(s)
                                    /\ Checking => Active(26) /\ Pos(s) <= 26
<1>1. /\ TypeOK /\ PlaceOK(r) /\ Near(r, s) /\ Near(s, r)
  BY DEF SInv, PlaceInv, NearInv
<1>2. /\ Pos(s) \in 0 .. 34 /\ Round(r) \in Nat /\ Round(s) \in Nat
      /\ access[r] = "check" => Pos(r) = 15
      /\ access[r] = "read" => Pos(r) = 25
  BY <1>1, PlaceTypes, Places DEF PlacesKnown
<1>3. ASSUME access[r] = "check"
      PROVE  /\ Active(16) /\ Checking /\ Pos(r) = 15
             /\ 13 <= Pos(s) /\ Pos(s) <= 16
  <2>1. Exec.checkWrite
    BY <1>1, <1>3 DEF PlaceOK, Inner
  <2>2. Active(16) /\ Active(13) /\ Checking
    BY <2>1 DEF Active, Checking
  <2>3. 13 \in Full /\ 16 \in Full /\ Asked(r, 13) /\ Asked(s, 16)
    BY <2>2 DEF Full, Asked
  <2>4. Round(s) = Round(r)
    BY <1>1, <1>2, <1>3, <2>3 DEF Near
  <2>5. 13 <= Pos(s) /\ ~(16 < Pos(s))
    BY <1>1, <1>2, <1>3, <2>3, <2>4 DEF Near, Behind
  <2> QED
    BY <1>2, <1>3, <2>2, <2>5
<1>4. ASSUME access[r] = "read"
      PROVE  /\ Checking \/ Exec.read
             /\ Pos(r) = 25 /\ 23 <= Pos(s)
             /\ Checking => Active(26) /\ Pos(s) <= 26
  <2>1. Reads(Exec)
    BY <1>1, <1>4 DEF PlaceOK, Inner
  <2>2. Active(23) /\ (Checking \/ Exec.read) /\ (Checking => Active(26))
    BY <2>1 DEF Active, Checking, Reads
  <2>3. 23 \in Full /\ 26 \in Full /\ Asked(r, 23) /\ (Checking => Asked(s, 26))
    BY <2>2 DEF Full, Asked
  <2>4. Round(s) = Round(r)
    BY <1>1, <1>2, <1>4, <2>3 DEF Near
  <2>5. 23 <= Pos(s) /\ (Checking => ~(26 < Pos(s)))
    BY <1>1, <1>2, <1>4, <2>3, <2>4 DEF Near, Behind
  <2> QED
    BY <1>2, <1>4, <2>2, <2>5
<1> QED
  BY <1>3, <1>4

\* Who finds an error is about to tell all ranks of it.
LEMMA TransferEvidence ==
    ASSUME SInv, TypeOK', EvidenceInv, NEW r \in Ranks, Transfer(r)
    PROVE  EvidenceInv'
<1>1. /\ TypeOK /\ SameOptions /\ pc' = pc /\ pc[r] = "access" /\ access' = access
      /\ errorFound' = errorFound
  BY DEF SInv, Transfer, fixed, loop, open, SameOptions
<1>2. /\ \A s \in Ranks : Pos(s)' = Pos(s)
      /\ \A a : Active(a)' <=> Active(a)
      /\ (Checking' <=> Checking) /\ (Exec.read)' = Exec.read
  BY <1>1, SameActive DEF SameOptions, Checking, Exec, Pos
<1>3. \/ errors' = errors /\ evidence' = evidence
      \/ /\ access[r] \in {"check", "read"}
         /\ \A t \in Ranks : errors[t] => errors'[t]
         /\ evidence' = evidence \/ errors'[r]
  <2>1. access[r] \in {"write", "check", "read"} /\ errors \in [Ranks -> BOOLEAN]
    BY <1>1 DEF TypeOK
  <2>2. CASE access[r] = "write"
    BY <2>2 DEF Transfer, checks
  <2>3. CASE access[r] # "write"
    <3> DEFINE wrong == Wrong(r, count'[r])
    <3>1. errors' = [errors EXCEPT ![r] = @ \/ wrong] /\ (evidence' = evidence \/ wrong)
      BY <2>3 DEF Transfer
    <3> HIDE DEF wrong
    <3> QED
      BY <2>1, <2>3, <3>1
  <2> QED
    BY <2>2, <2>3
<1>4. \A t \in Ranks : errors[t] => errors'[t]
  BY <1>3
<1>5. \A s, t \in Ranks : Pending(s, t) => Pending(s, t)'
  BY <1>1, <1>2, <1>4 DEF Pending
<1>6. \A s \in Ranks : Known(s) => Known(s)'
  BY <1>1, <1>5 DEF Known
<1>7. CASE evidence' = evidence
  BY <1>2, <1>6, <1>7 DEF EvidenceInv
<1>8. CASE evidence' # evidence
  <2>1. access[r] \in {"check", "read"} /\ errors'[r]
    BY <1>3, <1>8
  <2>2. Checking \/ Exec.read
    BY <1>1, <2>1, FindsTogether
  <2>3. ASSUME NEW s \in Ranks
        PROVE  13 <= Pos(s) /\ (Checking => Pending(s, r)')
    <3>1. Pos(s) \in 0 .. 34
      BY <1>1, PlaceTypes
    <3>2. CASE access[r] = "check"
      <4>1. Active(16) /\ Pos(r) = 15 /\ 13 <= Pos(s) /\ Pos(s) <= 16
        BY <1>1, <3>2, FindsTogether
      <4> QED
        BY <1>1, <1>2, <2>1, <3>2, <4>1 DEF Pending
    <3>3. CASE access[r] = "read"
      <4>1. Pos(r) = 25 /\ 23 <= Pos(s) /\ (Checking => Active(26) /\ Pos(s) <= 26)
        BY <1>1, <3>3, FindsTogether
      <4>2. 13 <= Pos(s)
        BY <3>1, <4>1
      <4> QED
        BY <1>1, <1>2, <2>1, <3>3, <4>1, <4>2 DEF Pending
    <3> QED
      BY <2>1, <3>2, <3>3
  <2> QED
    BY <1>2, <2>2, <2>3 DEF EvidenceInv, Known
<1> QED
  BY <1>7, <1>8

\* Who is told of errors knows of those found.
LEMMA ErrorsKnownEvidence ==
    ASSUME SInv, TypeOK', EvidenceInv, NEW r \in Ranks, ErrorsKnown(r)
    PROVE  EvidenceInv'
<1>1. TypeOK /\ PlaceInv
  BY DEF SInv
<1>2. Moves(r)
  BY <1>1, ErrorsKnownMoves
<1>3. /\ SameOptions /\ OthersStay(r) /\ errors' = errors /\ access' = access
      /\ evidence' = evidence
      /\ errorFound'[r] = (errorFound[r] \/ SomeError)
      /\ \A s \in Ranks : s # r => errorFound'[s] = errorFound[s]
  <2>1. errorFound \in [Ranks -> BOOLEAN]
    BY <1>1 DEF TypeOK
  <2> QED
    BY <1>2, <2>1 DEF Moves, ErrorsKnown, SomeError, checks, open
<1>4. /\ \A a : Active(a)' <=> Active(a)
      /\ (Checking' <=> Checking) /\ (Exec.read)' = Exec.read
  BY <1>3, SameActive DEF SameOptions, Checking, Exec
<1>5. \A s \in Ranks : s # r => Pos(s)' = Pos(s)
  BY <1>3, OthersFacts
<1>6. /\ 13 <= Pos(r) => 13 <= Pos(r)'
      /\ 14 <= Pos(r) => 14 <= Pos(r)'
      /\ 24 <= Pos(r) => 24 <= Pos(r)'
  <2> DEFINE m == Pos(r)
             n == Pos(r)'
  <2>1. m \in 0 .. 34 /\ n \in 0 .. 34 /\ m <= n
    BY <1>1, <1>2, PlaceTypes, NextPlaceTypes DEF AllPlacesOK, Moves
  <2> HIDE DEF m, n
  <2>2. (13 <= m => 13 <= n) /\ (14 <= m => 14 <= n) /\ (24 <= m => 24 <= n)
    BY <2>1
  <2> QED
    BY <2>2 DEF m, n
<1>7. \A s, t \in Ranks : s # r /\ Pending(s, t) => Pending(s, t)'
  BY <1>3, <1>4, <1>5, <1>6 DEF Pending
<1>8. \A s \in Ranks : s # r /\ Known(s) => Known(s)'
  BY <1>3, <1>7 DEF Known
<1>9. Known(r) => Known(r)'
  BY <1>3 DEF Known, Pending, SomeError
<1> QED
  BY <1>3, <1>4, <1>5, <1>6, <1>8, <1>9 DEF EvidenceInv

(* Opening clears the errors of a rank, which all have been told. *)
LEMMA OpensEvidence ==
    ASSUME SInv, TypeOK', EvidenceInv, NEW r \in Ranks,
           Create(r) \/ OpenCheck(r) \/ OpenRead(r)
    PROVE  EvidenceInv'
<1>1. TypeOK /\ PlaceOK(r) /\ NearInv /\ ErrorInv /\ PlaceInv
  BY DEF SInv, PlaceInv
<1>2. Moves(r) /\ evidence' = evidence /\ errorFound' = errorFound /\ pc[r] # "errorsWait"
  BY <1>1, CreateMoves, OpenCheckMoves, OpenReadMoves DEF Create, OpenCheck, OpenRead, loop
<1>3. \A t \in Ranks : t # r => errors'[t] = errors[t] /\ access'[t] = access[t]
  <2>1. errors \in [Ranks -> BOOLEAN] /\ access \in [Ranks -> {"write", "check", "read"}]
    BY <1>1 DEF TypeOK
  <2>2. /\ \E b : errors' = [errors EXCEPT ![r] = b]
        /\ \E a : access' = [access EXCEPT ![r] = a]
    BY DEF Create, OpenCheck, OpenRead, Opened
  <2> QED
    BY <2>1, <2>2
<1>4. CASE Create(r)
  <2>1. Pos(r) = 3
    BY <1>1, <1>4, Places DEF PlacesKnown, Create
  <2>2. \A s \in Ranks : ~Pending(s, r)
    BY <2>1 DEF Pending
  <2> QED
    BY <1>1, <1>2, <1>3, <2>2, EvidenceStays
<1>5. CASE OpenCheck(r)
  <2>1. Pos(r) = 13
    BY <1>1, <1>5, Places DEF PlacesKnown, OpenCheck
  <2>2. \A s \in Ranks : ~Pending(s, r)
    BY <2>1 DEF Pending
  <2> QED
    BY <1>1, <1>2, <1>3, <2>2, EvidenceStays
<1>6. CASE OpenRead(r)
  <2>1. Pos(r) = 23 /\ AllArrived(r) /\ Reads(Exec)
    BY <1>1, <1>6, Places DEF PlacesKnown, OpenRead, PlaceOK
  <2>2. 23 \in Full /\ Asked(r, 23)
    BY <2>1 DEF Full, Asked, Active
  <2>3. \A s \in Ranks : ~(Pos(s) <= 16)
    <3> TAKE s \in Ranks
    <3>1. (Round(s) = Round(r) /\ 23 <= Pos(s)) \/ (Round(s) = Round(r) + 1 /\ 23 = 34)
      BY <1>1, <2>1, <2>2, Met
    <3>2. Pos(s) \in 0 .. 34
      BY <1>1, PlaceTypes
    <3> QED
      BY <3>1, <3>2
  <2>4. \A s \in Ranks : ~Pending(s, r)
    BY <2>1, <2>3 DEF Pending
  <2> QED
    BY <1>1, <1>2, <1>3, <2>4, EvidenceStays
<1> QED
  BY <1>4, <1>5, <1>6

\* The other steps leave what is found, and who knows.
LEMMA QuietEvidence ==
    ASSUME NEW r \in Ranks, Quiet(r)
    PROVE  evidence' = evidence /\ access' = access
<1>1. CASE StartRep(r) \/ StampKnown(r) \/ Skip(r)
  BY <1>1 DEF StartRep, StampKnown, Skip, checks, open
<1>2. CASE BeginWrite(r) \/ BeginCheck(r) \/ BeginRead(r)
  BY <1>2 DEF BeginWrite, BeginCheck, BeginRead, checks, open
<1>3. CASE StatusKnown(r) \/ Reorder(r) \/ OpenDone(r) \/ Return(r)
  BY <1>3 DEF StatusKnown, Reorder, OpenDone, Passes, Return, checks, open
<1>4. CASE AccessDone(r) \/ Close(r) \/ Closed(r) \/ SizeKnown(r) \/ Reported(r)
  BY <1>4 DEF AccessDone, Close, Closed, SizeKnown, Passes, Reported, checks, open
<1>5. CASE BeforeRemove(r) \/ Remove(r) \/ ShowTestEnd(r)
  BY <1>5 DEF BeforeRemove, Remove, ShowTestEnd, checks, open
<1> QED
  BY <1>1, <1>2, <1>3, <1>4, <1>5 DEF Quiet

(* A step that concerns no rank's place and no error. *)
LEMMA SamePlaces ==
    ASSUME UNCHANGED <<opt, execution, pc, access, errors, errorFound, evidence>>, EvidenceInv
    PROVE  EvidenceInv'
<1>1. /\ \A s \in Ranks : Pos(s)' = Pos(s)
      /\ \A a : Active(a)' <=> Active(a)
      /\ (Checking' <=> Checking) /\ (Exec.read)' = Exec.read
  BY SameActive DEF SameOptions, Checking, Exec, Pos
<1>2. \A s \in Ranks : Known(s)' <=> Known(s)
  BY <1>1 DEF Known, Pending
<1> QED
  BY <1>1, <1>2 DEF EvidenceInv

\* Every step keeps that what is found is known or will be told.
LEMMA EvidenceStep ==
    ASSUME Untimed, SInv, EvidenceInv, [Next]_vars
    PROVE  EvidenceInv'
<1>1. TypeOK /\ PlaceInv /\ NearInv /\ ErrorInv /\ TypeOK'
  BY TypeStep DEF SInv
<1>2. ~opt.timeLimit
  BY <1>1 DEF Untimed, TypeOK
<1>3. CASE UNCHANGED vars
  BY <1>3, SamePlaces DEF vars
<1>4. ASSUME NEW r \in Ranks, RankStep(r)
      PROVE  EvidenceInv'
  <2>1. CASE Quiet(r)
    <3>1. /\ Moves(r) /\ pc[r] # "errorsWait" /\ errorFound' = errorFound
          /\ errors' = errors /\ evidence' = evidence /\ access' = access
      BY <1>1, <1>2, <2>1, QuietMoves, QuietFacts, QuietEvidence
    <3> QED
      BY <1>1, <3>1, EvidenceStays
  <2>2. CASE Create(r) \/ OpenCheck(r) \/ OpenRead(r)
    BY <1>1, <2>2, OpensEvidence
  <2>3. CASE Transfer(r) \/ ErrorsKnown(r)
    BY <1>1, <2>3, TransferEvidence, ErrorsKnownEvidence
  <2>4. CASE EndRep(r)
    BY <2>4 DEF EndRep, EvidenceInv
  <2> QED
    BY <1>4, <2>1, <2>2, <2>3, <2>4 DEF RankStep, Quiet
<1>5. ASSUME NEW n \in DOMAIN files, NEW w \in Ranks, NEW k \in Positions, Spoil(n, w, k)
      PROVE  EvidenceInv'
  BY <1>5, SamePlaces DEF Spoil, loop, open, checks
<1>6. CASE NextExecution
  <2>1. 0 \in Ranks
    BY Numbers
  <2>2. Pos(0) = 0
    BY <1>6, <2>1, OuterPlaces DEF NextExecution, AllEnded
  <2>3. evidence = {}
    BY <2>1, <2>2 DEF EvidenceInv
  <2> QED
    BY <1>6, <2>3 DEF NextExecution, checks, EvidenceInv
<1> QED
  BY <1>3, <1>4, <1>5, <1>6 DEF Next

\* With -K every execution that reads compares what it reads: only then the
\* ranks tell each other of errors.
ErrorsTold ==
    \A o \in Options :
        ~o.keepFile /\ o.keepWithError =>
            \A k \in DOMAIN o.executions :
                LET e == o.executions[k] IN e.read => e.checkWrite \/ e.checkRead

(* When a rank removes a file nothing has been found. *)
LEMMA NothingFound ==
    ASSUME ErrorsTold, SInv, EvidenceInv, opt.keepFile \/ opt.keepWithError,
           NEW r \in Ranks, BeginWrite(r) \/ Remove(r)
    PROVE  evidence = {}
<1> SUFFICES ASSUME evidence # {}
             PROVE  FALSE
  OBVIOUS
<1>1. TypeOK /\ PlaceOK(r) /\ 13 <= Pos(r) /\ (Checking \/ Exec.read) /\ (Checking => Known(r))
  BY DEF SInv, PlaceInv, EvidenceInv
<1>2. CASE BeginWrite(r)
  <2>1. Pos(r) = 2
    BY <1>1, <1>2, Places DEF PlacesKnown, BeginWrite, Takes
  <2> QED
    BY <1>1, <2>1
<1>3. CASE Remove(r)
  <2>1. Pos(r) = 33 /\ Removes(r)
    BY <1>1, <1>3, Places DEF PlacesKnown, Remove, PlaceOK
  <2>2. ~opt.keepFile /\ opt.keepWithError /\ ~errorFound[r]
    BY <2>1 DEF Removes
  <2>3. opt \in Options /\ execution \in DOMAIN opt.executions
    BY <1>1 DEF TypeOK
  <2>4. Exec.read => Checking
    BY <2>2, <2>3 DEF ErrorsTold, Checking, Exec
  <2>5. \A t \in Ranks : ~Pending(r, t)
    BY <2>1 DEF Pending
  <2> QED
    BY <1>1, <2>2, <2>4, <2>5 DEF Known
<1> QED
  BY <1>2, <1>3

(* The options are those of the beginning. *)
LEMMA OptionsStay ==
    ASSUME Untimed, SInv, [Next]_vars
    PROVE  opt' = opt
<1>1. TypeOK /\ TypeOK' /\ PlaceInv /\ ~opt.timeLimit
  BY TypeStep DEF SInv, Untimed, TypeOK
<1>2. ASSUME NEW r \in Ranks, RankStep(r)
      PROVE  opt' = opt
  <2>1. Moves(r) \/ Turns(r)
    BY <1>1, <1>2, RankPlaces
  <2> QED
    BY <2>1 DEF Moves, Turns, SameOptions
<1>3. CASE UNCHANGED vars
  BY <1>3 DEF vars
<1>4. ASSUME NEW n \in DOMAIN files, NEW w \in Ranks, NEW k \in Positions, Spoil(n, w, k)
      PROVE  opt' = opt
  BY <1>4 DEF Spoil
<1>5. CASE NextExecution
  BY <1>5 DEF NextExecution
<1> QED
  BY <1>2, <1>3, <1>4, <1>5 DEF Next

\* No step removes a file in which an error has been found.
LEMMA KeptStep ==
    ASSUME Untimed, ErrorsTold, SInv, OpenInv, EvidenceInv, EvidenceKept, [Next]_vars
    PROVE  EvidenceKept'
<1> SUFFICES ASSUME opt'.keepFile \/ opt'.keepWithError
             PROVE  evidence' \subseteq DOMAIN files'
  BY DEF EvidenceKept
<1>1. TypeOK /\ PlaceInv
  BY DEF SInv
<1>2. opt' = opt
  BY OptionsStay
<1>3. evidence \subseteq DOMAIN files
  BY <1>2 DEF EvidenceKept
<1>4. CASE UNCHANGED vars
  BY <1>3, <1>4 DEF vars
<1>5. ASSUME NEW r \in Ranks, RankStep(r)
      PROVE  evidence' \subseteq DOMAIN files'
  <2>1. CASE BeginWrite(r) \/ Remove(r)
    BY <1>2, <2>1, NothingFound, QuietEvidence DEF Quiet
  <2>2. CASE Create(r)
    <3>1. files' = With(name[r]) /\ evidence' = evidence
      BY <2>2 DEF Create
    <3> QED
      BY <1>3, <3>1 DEF With
  <2>3. CASE Transfer(r)
    <3>1. pc[r] = "access" /\ evidence' \subseteq evidence \cup {openFile[r]}
      BY <2>3 DEF Transfer, checks
    <3>2. DOMAIN files' = DOMAIN files
      BY <1>1, <2>3, InsideFiles DEF Inside
    <3>3. Pos(r) \in {5, 15, 25}
      BY <1>1, <3>1, Places DEF PlacesKnown
    <3>4. openFile[r] \in DOMAIN files
      BY <3>3 DEF OpenInv, OpenOK, OpenPlaces
    <3> QED
      BY <1>3, <3>1, <3>2, <3>4
  <2>4. CASE EndRep(r)
    BY <2>4 DEF EndRep
  <2>5. CASE OpenCheck(r) \/ OpenRead(r) \/ Close(r)
    BY <1>3, <2>5 DEF OpenCheck, OpenRead, Close, checks
  <2>6. CASE Inside(r) /\ ~Transfer(r) /\ ~EndRep(r)
    <3>1. DOMAIN files' = DOMAIN files
      BY <1>1, <2>6, InsideFiles
    <3>2. evidence' = evidence
      <4>1. CASE ErrorsKnown(r)
        BY <4>1 DEF ErrorsKnown, checks
      <4>2. CASE ~ErrorsKnown(r)
        BY <2>6, <4>2, QuietEvidence DEF Inside, Quiet
      <4> QED
        BY <4>1, <4>2
    <3> QED
      BY <1>3, <3>1, <3>2
  <2> QED
    BY <1>5, <2>1, <2>2, <2>3, <2>4, <2>5, <2>6 DEF RankStep, Inside
<1>6. ASSUME NEW n \in DOMAIN files, NEW w \in Ranks, NEW k \in Positions, Spoil(n, w, k)
      PROVE  evidence' \subseteq DOMAIN files'
  BY <1>3, <1>6 DEF Spoil, checks
<1>7. CASE NextExecution
  BY <1>3, <1>7 DEF NextExecution, checks
<1> QED
  BY <1>4, <1>5, <1>6, <1>7 DEF Next

(***************************************************************************)
(* A file in which a check has found an error outlives the repetition when *)
(* it is to be kept, although it is another rank that would remove it.     *)
(***************************************************************************)
THEOREM EvidenceKeptHolds ==
    ASSUME Untimed, ErrorsTold
    PROVE  Spec => []EvidenceKept
<1>1. Init => SInv /\ OpenInv /\ EvidenceInv /\ EvidenceKept
  BY InitSInv, InitOpen DEF Init, EvidenceInv, EvidenceKept
<1>2. SInv /\ OpenInv /\ EvidenceInv /\ EvidenceKept /\ [Next]_vars
      => SInv' /\ OpenInv' /\ EvidenceInv' /\ EvidenceKept'
  BY SStep, OpenStep, EvidenceStep, KeptStep
<1> QED
  BY <1>1, <1>2, PTL DEF Spec

----------------------------------------------------------------------------
(***************************************************************************)
(* Whose files there are.                                                  *)
(***************************************************************************)
\* The file of rank w's block in repetition c, which rank w makes.
FileOf(w, c) == <<IF opt.filePerProc THEN w ELSE 0, IF opt.multiFile THEN c ELSE 0>>
Owner(w) == opt.filePerProc \/ w = 0

\* The rankOffset rank r has at the end of a repetition, as far as the
\* removal goes by it.
FinalOffset(r) ==
    IF opt.reorder = "random" THEN 0
    ELSE IF Reads(Exec)
         THEN IF opt.reorder = "constant" THEN opt.offset % NumTasks
              ELSE IF opt.reorder = "shuffle" THEN opt.perm[r] - r ELSE 0
         ELSE IF Exec.checkWrite /\ opt.reorder = "constant" THEN CheckOffset ELSE 0

\* The place from which on a rank has the name it had last.
Last == IF Reads(Exec) THEN 23 ELSE IF Exec.checkWrite THEN 14 ELSE 3

NameOK(r) ==
    /\ Pos(r) <= 13 => rankOffset[r] = 0
    /\ Pos(r) = 3 => name[r] = TestFileName(r, 0)
    /\ ~(opt.filePerProc /\ opt.reorder = "random") /\ Last <= Pos(r) /\ Pos(r) <= 33 =>
          name[r] = TestFileName(r, FinalOffset(r))

NameInv == \A r \in Ranks : NameOK(r)

\* Whether rank w has made its file of repetition c, and is not about to make
\* it again.
Made(w, c) ==
    \/ ~Exec.write
    \/ opt.multiFile /\ (c < Round(w) \/ (c = Round(w) /\ 4 <= Pos(w)))
    \/ ~opt.multiFile /\ (4 <= Pos(w) \/ pc[w] \in {"finish", "end"})

MadeInv ==
    opt.keepFile =>
        \A w \in Ranks, c \in Repetitions :
            Owner(w) /\ Made(w, c) => FileOf(w, c) \in DOMAIN files

\* Rank r is going to remove file n.
Removing(r, n) ==
    /\ Owner(r) /\ 3 <= Pos(r) /\ Pos(r) <= 33
    /\ n = TestFileName(r, FinalOffset(r))

GoneInv ==
    ~opt.keepFile /\ ~opt.keepWithError =>
        \A n \in DOMAIN files : \E r \in Ranks : Removing(r, n)

FilesInv ==
    /\ files = [n \in DOMAIN files |-> files[n]]
    /\ DOMAIN files \subseteq AllNames
    /\ MadeInv /\ GoneInv

----------------------------------------------------------------------------
(* Integer division, in the words of the quotient. *)
LEMMA Remainder ==
    ASSUME NEW n \in Nat \ {0}, NEW x \in Int, NEW z \in Int, NEW m \in 0 .. n - 1,
           x = n * z + m
    PROVE  x % n = m
OBVIOUS

\* Every number has a quotient and a remainder.
LEMMA Quotient ==
    ASSUME NEW n \in Nat \ {0}, NEW x \in Int
    PROVE  \E z \in Int, m \in 0 .. n - 1 : x = n * z + m /\ x % n = m
<1> DEFINE z == x \div n
           m == x - n * z
<1>1. n * z <= x /\ x < n * z + n /\ z \in Int
  OBVIOUS
<1> HIDE DEF z
<1>2. m \in 0 .. n - 1 /\ x = n * z + m
  BY <1>1
<1> HIDE DEF m
<1>3. x % n = m
  BY <1>1, <1>2, Remainder
<1> QED
  BY <1>1, <1>2, <1>3

(* An offset shared by all ranks is a permutation of them. *)
LEMMA ShiftedOnto ==
    ASSUME NEW s \in Int, NEW t \in Ranks
    PROVE  \E a \in Ranks : t = (a + s) % NumTasks
<1>1. NumTasks \in Nat \ {0} /\ t \in Int /\ Ranks = 0 .. NumTasks - 1
  BY Numbers
<1>2. t - s \in Int
  BY <1>1
<1>3. PICK z \in Int, a \in Ranks : t - s = NumTasks * z + a
  <2>1. \E z \in Int, m \in 0 .. NumTasks - 1 : t - s = NumTasks * z + m
    <3> DEFINE x == t - s
               n == NumTasks
    <3>1. x \in Int /\ n \in Nat \ {0}
      BY <1>1, <1>2
    <3> HIDE DEF x, n
    <3>2. \E z \in Int, m \in 0 .. n - 1 : x = n * z + m
      BY <3>1, Quotient, Zenon
    <3> QED
      BY <3>2 DEF x, n
  <2> QED
    BY <1>1, <2>1
<1>4. NumTasks * z \in Int /\ NumTasks * (-z) = -(NumTasks * z)
  BY <1>1
<1>5. a + s = NumTasks * (-z) + t /\ a + s \in Int /\ -z \in Int
  BY <1>1, <1>3, <1>4
<1>6. (a + s) % NumTasks = t
  BY <1>1, <1>5, Remainder
<1> QED
  BY <1>3, <1>6

(* A rank is its own remainder. *)
LEMMA RankIsReduced ==
    ASSUME NEW r \in Ranks
    PROVE  r % NumTasks = r
<1>1. NumTasks \in Nat \ {0} /\ r \in Int /\ r \in 0 .. NumTasks - 1
  BY Numbers
<1>2. r = NumTasks * 0 + r
  BY <1>1
<1> QED
  BY <1>1, <1>2, Remainder

(* Every block is that of one rank's last access. *)
LEMMA FinalOnto ==
    ASSUME TypeOK, NEW w \in Ranks
    PROVE  \E r \in Ranks : PretendRank(r, FinalOffset(r)) = w
<1>1. opt \in Options /\ Ranks \subseteq Int
  BY Numbers DEF TypeOK
<1>2. ASSUME NEW s \in Int, \A r \in Ranks : FinalOffset(r) = s
      PROVE  \E r \in Ranks : PretendRank(r, FinalOffset(r)) = w
  <2>1. PICK r \in Ranks : w = (r + s) % NumTasks
    BY ShiftedOnto
  <2> QED
    BY <1>2, <2>1 DEF PretendRank
<1>3. CASE opt.reorder = "shuffle" /\ Reads(Exec)
  <2>1. PICK r \in Ranks : opt.perm[r] = w
    BY <1>1, OptionsAssumption DEF IsPermutation
  <2>2. r + (opt.perm[r] - r) = w
    BY <1>1, <2>1
  <2>3. FinalOffset(r) = opt.perm[r] - r
    BY <1>3 DEF FinalOffset
  <2>4. PretendRank(r, FinalOffset(r)) = w
    BY <2>2, <2>3, RankIsReduced DEF PretendRank
  <2> QED
    BY <2>4
<1>4. CASE ~(opt.reorder = "shuffle" /\ Reads(Exec))
  <2>1. CASE opt.reorder = "constant" /\ Reads(Exec)
    <3>1. \A r \in Ranks : FinalOffset(r) = opt.offset % NumTasks
      BY <2>1 DEF FinalOffset
    <3>2. opt.offset % NumTasks \in Ranks
      BY <1>1, OptionTypes, ReducedIsRank
    <3> QED
      BY <1>1, <1>2, <3>1, <3>2
  <2>2. CASE opt.reorder = "constant" /\ ~Reads(Exec) /\ Exec.checkWrite
    <3>1. \A r \in Ranks : FinalOffset(r) = CheckOffset
      BY <2>2 DEF FinalOffset
    <3>2. CheckOffset \in Int
      BY <1>1, OffsetTypes
    <3> QED
      BY <1>2, <3>1, <3>2
  <2>3. CASE /\ ~(opt.reorder = "constant" /\ Reads(Exec))
             /\ ~(opt.reorder = "constant" /\ ~Reads(Exec) /\ Exec.checkWrite)
    <3>1. \A r \in Ranks : FinalOffset(r) = 0
      BY <1>4, <2>3 DEF FinalOffset
    <3> QED
      BY <1>2, <3>1
  <2> QED
    BY <2>1, <2>2, <2>3
<1> QED
  BY <1>3, <1>4

----------------------------------------------------------------------------
(* The names of the files there may be. *)
LEMMA NameFacts ==
    ASSUME TypeOK, NEW r \in Ranks
    PROVE  /\ TestFileName(r, 0) = FileOf(r, rep[r])
           /\ FileOf(r, rep[r]) \in AllNames
           /\ \A off : opt.filePerProc \/ TestFileName(r, off) = TestFileName(r, 0)
           /\ \A off : opt.filePerProc =>
                 TestFileName(r, off) = FileOf(PretendRank(r, off), rep[r])
<1>1. rep[r] \in Repetitions /\ r \in Int
  BY Numbers DEF TypeOK
<1>2. PretendRank(r, 0) = r
  BY <1>1, RankIsReduced DEF PretendRank
<1> QED
  BY <1>1, <1>2 DEF TestFileName, FileOf, AllNames

\* Every name is that of a rank's block.
LEMMA EveryName ==
    ASSUME TypeOK, NEW n \in AllNames
    PROVE  \E w \in Ranks, c \in Repetitions : Owner(w) /\ n = FileOf(w, c)
<1>1. 0 \in Ranks /\ 0 \in Repetitions
  BY Numbers, OptionTypes DEF TypeOK
<1> QED
  BY <1>1 DEF AllNames, FileOf, Owner

(* The places where ranks wait before a phase and before the removal. *)
WaitsKnown ==
    \A r \in Ranks : /\ Pos(r) = 3 => pc[r] = "writeWait"
                     /\ Pos(r) = 13 => pc[r] = "checkWait"
                     /\ Pos(r) = 23 => pc[r] = "readWait"
                     /\ Pos(r) = 33 => pc[r] = "removeWait"

\* The waiting places, by name.
LEMMA Waits == TypeOK => WaitsKnown
<1> SUFFICES ASSUME TypeOK, NEW r \in Ranks
             PROVE  /\ Pos(r) = 3 => pc[r] = "writeWait"
                    /\ Pos(r) = 13 => pc[r] = "checkWait"
                    /\ Pos(r) = 23 => pc[r] = "readWait"
                    /\ Pos(r) = 33 => pc[r] = "removeWait"
  BY DEF WaitsKnown
<1>1. pc[r] \in PCs /\ access[r] \in {"write", "check", "read"}
  BY DEF TypeOK
<1> QED
  BY <1>1, OuterPlaces, InnerPlaces DEF PCs

\* And after a step.
LEMMA NextWaits == TypeOK' => WaitsKnown'
BY Waits, PTL

----------------------------------------------------------------------------
(***************************************************************************)
(* The names, step by step.                                                *)
(***************************************************************************)
\* The last name is set at one place, which the options tell.
LEMMA LastPlace ==
    ASSUME TypeOK
    PROVE  \/ Last = 3 /\ Active(3) /\ ~Reads(Exec) /\ ~Exec.checkWrite
           \/ Last = 14 /\ Active(13) /\ ~Reads(Exec) /\ Exec.checkWrite
           \/ Last = 23 /\ Active(23) /\ Reads(Exec)
<1>1. opt \in Options /\ execution \in DOMAIN opt.executions
  BY DEF TypeOK
<1>2. ValidOption(opt)
  BY <1>1, OptionsAssumption
<1>3. Exec.write \/ Exec.checkWrite \/ Reads(Exec)
  BY <1>1, <1>2 DEF ValidOption, Exec
<1> QED
  BY <1>3 DEF Last, Active

\* What the names go by.
SameNames(s) ==
    /\ SameOptions
    /\ rep'[s] = rep[s]
    /\ rankOffset'[s] = rankOffset[s] \/ rankOffset'[s] = 0
    /\ name'[s] = name[s]

\* The names of a rank that stays in its repetition.
LEMMA SameNamesFacts ==
    ASSUME SameOptions, NEW s \in Ranks, rep'[s] = rep[s]
    PROVE  /\ \A off : TestFileName(s, off)' = TestFileName(s, off)
           /\ \A c : FileOf(s, c)' = FileOf(s, c)
           /\ FinalOffset(s)' = FinalOffset(s)
           /\ Last' = Last /\ (Owner(s)' <=> Owner(s))
<1>1. /\ \A off : TestFileName(s, off)' = TestFileName(s, off)
      /\ \A c : FileOf(s, c)' = FileOf(s, c)
  BY DEF SameOptions, TestFileName, PretendRank, FileOf
<1>2. FinalOffset(s)' = FinalOffset(s) /\ Last' = Last /\ (Owner(s)' <=> Owner(s))
  BY DEF SameOptions, FinalOffset, Last, Reads, Exec, CheckOffset, Owner
<1> QED
  BY <1>1, <1>2

\* A rank that does not move keeps its name.
LEMMA OtherName ==
    ASSUME NEW s \in Ranks, SameNames(s), Pos(s)' = Pos(s), NameOK(s)
    PROVE  NameOK(s)'
<1>1. /\ \A off : TestFileName(s, off)' = TestFileName(s, off)
      /\ FinalOffset(s)' = FinalOffset(s) /\ Last' = Last
      /\ opt' = opt
  BY SameNamesFacts DEF SameNames, SameOptions
<1>2. TestFileName(s, FinalOffset(s))' = TestFileName(s, FinalOffset(s))
  BY <1>1 DEF SameNames, SameOptions, TestFileName, PretendRank
<1>3. TestFileName(s, 0)' = TestFileName(s, 0)
  BY <1>1
<1> QED
  BY <1>1, <1>2, <1>3 DEF NameOK, SameNames

\* So does one that moves, unless it takes another.
LEMMA NameKeeps ==
    ASSUME TypeOK, TypeOK', NEW r \in Ranks, Moves(r), NameOK(r), SameNames(r),
           pc[r] # "checkWait", pc'[r] \notin {"writeWait", "readWait"}
    PROVE  NameOK(r)'
<1> DEFINE m == Pos(r)
           n == Pos(r)'
<1>1. /\ \A off : TestFileName(r, off)' = TestFileName(r, off)
      /\ FinalOffset(r)' = FinalOffset(r) /\ Last' = Last
      /\ opt' = opt
  BY SameNamesFacts DEF SameNames, SameOptions
<1>2. TestFileName(r, FinalOffset(r))' = TestFileName(r, FinalOffset(r))
  BY <1>1 DEF SameNames, SameOptions, TestFileName, PretendRank
<1>3. m \in 0 .. 34 /\ n \in 0 .. 34 /\ m <= n
  BY PlaceTypes, NextPlaceTypes DEF AllPlacesOK, Moves
<1>4. m # 13 /\ n # 3 /\ n # 23
  BY Waits, NextWaits DEF WaitsKnown
<1>5. \A a \in Full : Active(a) /\ m <= a /\ a < n => a = m
  <2>1. \A a : Active(a)' <=> Active(a)
    BY SameActive DEF Moves
  <2> QED
    BY <2>1 DEF Moves, Asked
<1>6. /\ m <= 13 => rankOffset[r] = 0
      /\ ~(opt.filePerProc /\ opt.reorder = "random") /\ Last <= m /\ m <= 33 =>
            name[r] = TestFileName(r, FinalOffset(r))
  BY DEF NameOK
<1> HIDE DEF m, n
<1>7. Last <= n => Last <= m
  <2>1. CASE Last = 3 /\ Active(3)
    <3>1. 3 \in Full
      BY DEF Full
    <3> QED
      BY <1>3, <1>4, <1>5, <2>1, <3>1
  <2>2. CASE Last = 14 /\ Active(13)
    <3>1. 13 \in Full
      BY DEF Full
    <3> QED
      BY <1>3, <1>4, <1>5, <2>2, <3>1
  <2>3. CASE Last = 23 /\ Active(23)
    <3>1. 23 \in Full
      BY DEF Full
    <3> QED
      BY <1>3, <1>4, <1>5, <2>3, <3>1
  <2> QED
    BY <2>1, <2>2, <2>3, LastPlace
<1>8. n <= 13 => rankOffset'[r] = 0
  BY <1>3, <1>6 DEF SameNames
<1>9. ~(opt.filePerProc /\ opt.reorder = "random") /\ Last <= n /\ n <= 33 =>
          name'[r] = TestFileName(r, FinalOffset(r))
  BY <1>3, <1>6, <1>7 DEF SameNames
<1> QED
  BY <1>1, <1>2, <1>4, <1>8, <1>9 DEF NameOK, n

\* The steps that give no rank a name.
Nameless(r) ==
    \/ StartRep(r) \/ StampKnown(r) \/ Skip(r) \/ BeginCheck(r) \/ BeginRead(r)
    \/ StatusKnown(r) \/ Create(r) \/ OpenRead(r) \/ OpenDone(r) \/ Transfer(r) \/ Return(r)
    \/ ErrorsKnown(r) \/ AccessDone(r) \/ Close(r) \/ Closed(r) \/ SizeKnown(r) \/ Reported(r)
    \/ BeforeRemove(r) \/ Remove(r) \/ ShowTestEnd(r)

\* What the nameless steps leave.
LEMMA NamelessFacts ==
    ASSUME TypeOK, NEW r \in Ranks, Nameless(r)
    PROVE  /\ name' = name /\ rep' = rep
           /\ \A s \in Ranks : \/ rankOffset'[s] = rankOffset[s]
                               \/ s = r /\ rankOffset'[s] = 0
           /\ pc[r] # "checkWait" /\ pc'[r] \notin {"writeWait", "readWait"}
           /\ pc'[r] \in {"finish", "end"} => pc[r] = "finish"
<1>1. CASE StartRep(r) \/ StampKnown(r) \/ Skip(r) \/ BeginCheck(r)
  BY <1>1, OthersAre DEF StartRep, StampKnown, Skip, BeginCheck, Takes, naming, loop
<1>2. CASE BeginRead(r) \/ StatusKnown(r)
  BY <1>2, OthersAre DEF BeginRead, Takes, StatusKnown, naming, loop
<1>3. CASE Create(r) \/ OpenRead(r)
  <2>1. pc'[r] \in {"openWait", "access"}
    BY <1>3, OpenedPlaces DEF Create, OpenRead
  <2> QED
    BY <1>3, <2>1 DEF Create, OpenRead, naming, loop
<1>4. CASE Transfer(r)
  BY <1>4 DEF Transfer, naming, loop
<1>5. CASE OpenDone(r) \/ Return(r) \/ ErrorsKnown(r) \/ AccessDone(r)
  BY <1>5, OthersAre DEF OpenDone, Passes, Return, ErrorsKnown, AccessDone, naming, loop
<1>6. CASE Close(r)
  <2>1. /\ name' = name /\ rep' = rep /\ pc[r] # "checkWait"
        /\ access[r] \in {"write", "check", "read"} /\ rankOffset \in [Ranks -> Int]
    BY <1>6, Numbers DEF Close, loop, TypeOK
  <2>2. CASE access[r] = "write"
    BY <1>6, <2>1, <2>2, OthersAre DEF Close
  <2>3. CASE access[r] = "check"
    BY <1>6, <2>1, <2>3, OthersAre DEF Close
  <2>4. CASE access[r] = "read"
    BY <1>6, <2>1, <2>4, OthersAre DEF Close
  <2> QED
    BY <2>1, <2>2, <2>3, <2>4
<1>7. CASE Closed(r) \/ SizeKnown(r) \/ Reported(r)
  BY <1>7, OthersAre DEF Closed, SizeKnown, Passes, Reported, naming, loop
<1>8. CASE BeforeRemove(r) \/ Remove(r) \/ ShowTestEnd(r)
  BY <1>8, OthersAre DEF BeforeRemove, Remove, ShowTestEnd, naming, loop
<1> QED
  BY <1>1, <1>2, <1>3, <1>4, <1>5, <1>6, <1>7, <1>8 DEF Nameless

\* They move one rank on.
LEMMA NamelessMoves ==
    ASSUME TypeOK, TypeOK', PlaceInv, ~opt.timeLimit, NEW r \in Ranks, Nameless(r)
    PROVE  Moves(r)
<1>1. CASE Quiet(r)
  BY <1>1, QuietMoves
<1>2. CASE Create(r) \/ OpenRead(r) \/ Transfer(r) \/ ErrorsKnown(r)
  BY <1>2, CreateMoves, OpenReadMoves, TransferMoves, ErrorsKnownMoves
<1> QED
  BY <1>1, <1>2 DEF Nameless, Quiet

(* Only one rank's name is concerned by a step of it. *)
LEMMA NameAlone ==
    ASSUME NameInv, NEW r \in Ranks, Moves(r) \/ Turns(r), NameOK(r)',
           \A s \in Ranks : s # r => SameNames(s)
    PROVE  NameInv'
<1>1. \A s \in Ranks : s # r => Pos(s)' = Pos(s)
  BY OthersFacts DEF Moves, Turns
<1>2. \A s \in Ranks : s # r => NameOK(s)'
  BY <1>1, OtherName DEF NameInv
<1> QED
  BY <1>2 DEF NameInv

\* They keep the names right.
LEMMA NamelessNames ==
    ASSUME TypeOK, TypeOK', PlaceInv, ~opt.timeLimit, NameInv, NEW r \in Ranks, Nameless(r)
    PROVE  NameInv'
<1>1. Moves(r)
  BY NamelessMoves
<1>2. \A s \in Ranks : SameNames(s)
  BY <1>1, NamelessFacts DEF SameNames, Moves
<1>3. NameOK(r)'
  BY <1>1, <1>2, NamelessFacts, NameKeeps DEF NameInv
<1> QED
  BY <1>1, <1>2, <1>3, NameAlone

\* At the write a rank takes the name of its own block.
LEMMA BeginWriteNames ==
    ASSUME TypeOK, TypeOK', PlaceInv, NameInv, NEW r \in Ranks, BeginWrite(r)
    PROVE  NameInv'
<1>1. Moves(r) /\ SameOptions /\ rep' = rep /\ rankOffset' = rankOffset
  BY BeginWriteMoves DEF Moves, BeginWrite
<1>2. Pos(r) = 2 /\ Pos(r)' = 3
  <2>1. pc[r] = "write" /\ pc'[r] = "writeWait"
    BY OthersAre DEF BeginWrite, Takes
  <2> QED
    BY <2>1, Places, NextPlaces DEF PlacesKnown
<1>3. rankOffset[r] = 0
  BY <1>2 DEF NameInv, NameOK
<1>4. /\ name'[r] = TestFileName(r, rankOffset[r])
      /\ \A s \in Ranks : s # r => name'[s] = name[s]
  <2>1. name \in [Ranks -> Names]
    BY DEF TypeOK
  <2> QED
    BY <2>1 DEF BeginWrite
<1>5. /\ TestFileName(r, 0)' = TestFileName(r, 0) /\ Last' = Last
  BY <1>1, SameNamesFacts
<1>6. Last = 3 => FinalOffset(r)' = 0
  <2>1. FinalOffset(r)' = FinalOffset(r)
    BY <1>1, SameNamesFacts
  <2>2. Last = 3 => FinalOffset(r) = 0
    BY LastPlace DEF FinalOffset
  <2> QED
    BY <2>1, <2>2
<1>7. Last <= 3 => TestFileName(r, FinalOffset(r))' = TestFileName(r, 0)'
  <2>1. Last <= 3 => Last = 3
    BY LastPlace
  <2> QED
    BY <1>6, <2>1 DEF TestFileName, PretendRank
<1>8. NameOK(r)'
  BY <1>1, <1>2, <1>3, <1>4, <1>5, <1>7 DEF NameOK
<1>9. \A s \in Ranks : s # r => SameNames(s)
  BY <1>1, <1>4 DEF SameNames
<1> QED
  BY <1>1, <1>8, <1>9, NameAlone

\* At the check it takes that of the next node's.
LEMMA OpenCheckNames ==
    ASSUME TypeOK, TypeOK', PlaceInv, NameInv, NEW r \in Ranks, OpenCheck(r)
    PROVE  NameInv'
<1>1. Moves(r) /\ SameOptions /\ rep' = rep /\ Exec.checkWrite
  BY OpenCheckMoves DEF Moves, OpenCheck, loop, PlaceInv, PlaceOK
<1>2. Pos(r) = 13 /\ Pos(r)' = 15
  <2>1. pc[r] = "checkWait" /\ pc'[r] = "access" /\ access'[r] = "check"
    BY OpenedPlaces DEF OpenCheck
  <2> QED
    BY <2>1, Places, NextPlaces DEF PlacesKnown
<1>3. rankOffset[r] = 0
  BY <1>2 DEF NameInv, NameOK
<1>4. /\ rankOffset'[r] = IF opt.reorder = "constant" THEN CheckOffset ELSE 0
      /\ name'[r] = TestFileName(r, rankOffset'[r])
      /\ \A s \in Ranks : s # r => name'[s] = name[s] /\ rankOffset'[s] = rankOffset[s]
  <2>1. name \in [Ranks -> Names] /\ rankOffset \in [Ranks -> 1 - NumTasks .. NumTasks - 1]
    BY DEF TypeOK
  <2>2. rankOffset' = [rankOffset EXCEPT ![r] = IF opt.reorder = "constant" THEN CheckOffset
                                                ELSE rankOffset[r]]
    BY DEF OpenCheck
  <2>3. name' = [name EXCEPT ![r] = TestFileName(r, rankOffset'[r])]
    BY DEF OpenCheck
  <2> QED
    BY <1>3, <2>1, <2>2, <2>3
<1>5. /\ Last' = Last /\ FinalOffset(r)' = FinalOffset(r) /\ opt' = opt
      /\ TestFileName(r, FinalOffset(r))' = TestFileName(r, FinalOffset(r))
  <2>1. Last' = Last /\ FinalOffset(r)' = FinalOffset(r) /\ opt' = opt
    BY <1>1, SameNamesFacts DEF SameOptions
  <2> QED
    BY <1>1, <2>1 DEF TestFileName, PretendRank
<1>6. ~(opt.filePerProc /\ opt.reorder = "random") /\ Last <= 15 =>
          name'[r] = TestFileName(r, FinalOffset(r))
  <2> SUFFICES ASSUME ~(opt.filePerProc /\ opt.reorder = "random"), Last <= 15
               PROVE  name'[r] = TestFileName(r, FinalOffset(r))
    OBVIOUS
  <2>1. ~Reads(Exec)
    BY LastPlace
  <2>2. CASE opt.reorder = "random"
    BY <1>4, <2>2, NameFacts
  <2>3. CASE opt.reorder # "random"
    <3>1. FinalOffset(r) = rankOffset'[r]
      BY <1>1, <1>4, <2>1, <2>3 DEF FinalOffset
    <3> QED
      BY <1>4, <3>1
  <2> QED
    BY <2>2, <2>3
<1>7. NameOK(r)'
  BY <1>2, <1>5, <1>6 DEF NameOK
<1>8. \A s \in Ranks : s # r => SameNames(s)
  BY <1>1, <1>4 DEF SameNames
<1> QED
  BY <1>1, <1>7, <1>8, NameAlone

\* At the read it takes that of the rank it pretends to be.
LEMMA ReorderNames ==
    ASSUME TypeOK, TypeOK', PlaceInv, NameInv, NEW r \in Ranks, Reorder(r)
    PROVE  NameInv'
<1>1. Moves(r) /\ SameOptions /\ rep' = rep /\ Reads(Exec)
  BY ReorderMoves DEF Moves, Reorder, loop, PlaceInv, PlaceOK
<1>2. Pos(r)' = 23
  <2>1. pc'[r] = "readWait"
    BY OthersAre DEF Reorder
  <2> QED
    BY <2>1, NextPlaces DEF PlacesKnown
<1>3. PICK off \in ReadOffsets(r) :
         /\ rankOffset' = [rankOffset EXCEPT ![r] = off]
         /\ name' = [name EXCEPT ![r] = TestFileName(r, off)]
  BY DEF Reorder
<1>4. /\ name'[r] = TestFileName(r, off)
      /\ \A s \in Ranks : s # r => name'[s] = name[s] /\ rankOffset'[s] = rankOffset[s]
  <2>1. name \in [Ranks -> Names] /\ rankOffset \in [Ranks -> 1 - NumTasks .. NumTasks - 1]
    BY DEF TypeOK
  <2> QED
    BY <1>3, <2>1
<1>5. /\ Last' = Last /\ FinalOffset(r)' = FinalOffset(r) /\ opt' = opt
      /\ TestFileName(r, FinalOffset(r))' = TestFileName(r, FinalOffset(r))
  <2>1. Last' = Last /\ FinalOffset(r)' = FinalOffset(r) /\ opt' = opt
    BY <1>1, SameNamesFacts DEF SameOptions
  <2> QED
    BY <1>1, <2>1 DEF TestFileName, PretendRank
<1>6. ~(opt.filePerProc /\ opt.reorder = "random") =>
          name'[r] = TestFileName(r, FinalOffset(r))
  <2> SUFFICES ASSUME ~(opt.filePerProc /\ opt.reorder = "random")
               PROVE  name'[r] = TestFileName(r, FinalOffset(r))
    OBVIOUS
  <2>1. CASE ~opt.filePerProc
    BY <1>4, <2>1, NameFacts
  <2>2. CASE opt.reorder # "random"
    <3>1. opt.reorder \in {"none", "constant", "shuffle"}
      BY <2>2, OptionTypes DEF TypeOK
    <3>2. off = FinalOffset(r)
      BY <1>1, <3>1 DEF FinalOffset, ReadOffsets
    <3> QED
      BY <1>4, <3>2
  <2> QED
    BY <2>1, <2>2
<1>7. NameOK(r)'
  BY <1>2, <1>5, <1>6 DEF NameOK
<1>8. \A s \in Ranks : s # r => SameNames(s)
  BY <1>1, <1>4 DEF SameNames
<1> QED
  BY <1>1, <1>7, <1>8, NameAlone

\* The next repetition begins without an offset.
LEMMA EndRepNames ==
    ASSUME TypeOK, TypeOK', PlaceInv, NameInv, NEW r \in Ranks, EndRep(r)
    PROVE  NameInv'
<1>1. Turns(r) /\ SameOptions /\ Pos(r)' = 0
  BY EndRepTurns DEF Turns
<1>2. rankOffset'[r] = 0 /\ \A s \in Ranks : s # r => SameNames(s)
  <2>1. /\ rankOffset \in [Ranks -> 1 - NumTasks .. NumTasks - 1]
        /\ rep \in [Ranks -> Repetitions]
    BY DEF TypeOK
  <2>2. /\ rankOffset' = [rankOffset EXCEPT ![r] = 0] /\ name' = name
        /\ \A s \in Ranks : s # r => rep'[s] = rep[s]
    BY <2>1 DEF EndRep
  <2> QED
    BY <1>1, <2>1, <2>2 DEF SameNames
<1>3. Last' = Last /\ 3 <= Last /\ Last \in Nat
  <2>1. Last' = Last
    BY <1>1 DEF SameOptions, Last, Reads, Exec
  <2> QED
    BY <2>1, LastPlace
<1>4. NameOK(r)'
  BY <1>1, <1>2, <1>3 DEF NameOK
<1> QED
  BY <1>1, <1>2, <1>4, NameAlone

\* Every step keeps the names right.
LEMMA NameStep ==
    ASSUME Untimed, SInv, NameInv, [Next]_vars
    PROVE  NameInv'
<1>1. TypeOK /\ TypeOK' /\ PlaceInv
  BY TypeStep DEF SInv
<1>2. ~opt.timeLimit
  BY <1>1 DEF Untimed, TypeOK
<1>3. CASE UNCHANGED <<opt, execution, pc, access, rep, rankOffset, name>>
  <2>1. \A s \in Ranks : SameNames(s) /\ Pos(s)' = Pos(s)
    BY <1>3 DEF SameNames, SameOptions, Pos
  <2> QED
    BY <2>1, OtherName DEF NameInv
<1>4. ASSUME NEW r \in Ranks, RankStep(r)
      PROVE  NameInv'
  <2>1. CASE Nameless(r)
    BY <1>1, <1>2, <2>1, NamelessNames
  <2>2. CASE BeginWrite(r) \/ OpenCheck(r) \/ Reorder(r) \/ EndRep(r)
    BY <1>1, <2>2, BeginWriteNames, OpenCheckNames, ReorderNames, EndRepNames
  <2> QED
    BY <1>4, <2>1, <2>2 DEF RankStep, Nameless
<1>5. CASE NextExecution
  <2>1. \A s \in Ranks : pc[s] = "end" /\ pc'[s] = "start"
    BY <1>5 DEF NextExecution, AllEnded, Each
  <2>2. \A s \in Ranks : Pos(s) = 0 /\ Pos(s)' = 0
    BY <1>1, <2>1, Places, NextPlaces DEF PlacesKnown
  <2>3. rankOffset' = rankOffset
    BY <1>5 DEF NextExecution, naming
  <2>4. Last' \in {3, 14, 23}
    BY DEF Last
  <2> QED
    BY <2>2, <2>3, <2>4 DEF NameInv, NameOK
<1>6. ASSUME NEW n \in DOMAIN files, NEW w \in Ranks, NEW k \in Positions, Spoil(n, w, k)
      PROVE  NameInv'
  BY <1>3, <1>6 DEF Spoil, loop, naming, open
<1> QED
  BY <1>3, <1>4, <1>5, <1>6 DEF Next, vars

----------------------------------------------------------------------------
(***************************************************************************)
(* The files, step by step.                                                *)
(***************************************************************************)

\* The names there may be depend on the options only.
LEMMA SameAllNames ==
    ASSUME SameOptions
    PROVE  AllNames' = AllNames /\ Repetitions' = Repetitions
BY DEF SameOptions, AllNames, Repetitions

\* A rank passes a collective that waits for all from it only.
LEMMA CrossesFrom ==
    ASSUME TypeOK, TypeOK', NEW r \in Ranks, Moves(r), NEW a \in Full, Asked(r, a)',
           Pos(r) <= a, ~(Pos(r)' <= a)
    PROVE  Pos(r) = a
<1> DEFINE m == Pos(r)
           n == Pos(r)'
<1>1. m \in 0 .. 34 /\ n \in 0 .. 34 /\ a \in 1 .. 34
  BY PlaceTypes, NextPlaceTypes DEF AllPlacesOK, Full
<1>2. m <= a /\ a < n => a = m
  BY DEF Moves
<1>3. m <= a /\ ~(n <= a)
  OBVIOUS
<1> HIDE DEF m, n
<1>4. m = a
  BY <1>1, <1>2, <1>3
<1> QED
  BY <1>4 DEF m

\* Nobody makes a file but at the place for it.
LEMMA MadeBefore ==
    ASSUME TypeOK, TypeOK', NEW r \in Ranks, Moves(r), pc[r] # "writeWait",
           pc'[r] \in {"finish", "end"} => pc[r] = "finish",
           NEW w \in Ranks, NEW c \in Repetitions, Made(w, c)'
    PROVE  Made(w, c)
<1>1. SameOptions /\ OthersStay(r) /\ Round(r)' = Round(r)
  BY DEF Moves
<1>2. /\ \A a : Active(a)' <=> Active(a)
      /\ (Exec.write)' = Exec.write /\ opt' = opt
  BY <1>1, SameActive DEF SameOptions, Exec
<1>3. CASE w # r
  <2>1. Pos(w)' = Pos(w) /\ Round(w)' = Round(w) /\ pc'[w] = pc[w]
    BY <1>1, <1>3, OthersFacts DEF OthersStay
  <2> QED
    BY <1>2, <2>1 DEF Made
<1>4. CASE w = r
  <2>1. Exec.write /\ 4 <= Pos(r)' => 4 <= Pos(r)
    <3> SUFFICES ASSUME Exec.write, 4 <= Pos(r)', ~(4 <= Pos(r))
                 PROVE  FALSE
      OBVIOUS
    <3>1. 3 \in Full /\ Asked(r, 3)'
      BY <1>2 DEF Full, Active, Asked
    <3>2. Pos(r) <= 3 /\ ~(Pos(r)' <= 3)
      <4> DEFINE m == Pos(r)
                 n == Pos(r)'
      <4>1. m \in 0 .. 34 /\ n \in 0 .. 34 /\ 4 <= n /\ ~(4 <= m)
        BY PlaceTypes, NextPlaceTypes DEF AllPlacesOK
      <4> HIDE DEF m, n
      <4>2. m <= 3 /\ ~(n <= 3)
        BY <4>1
      <4> QED
        BY <4>2 DEF m, n
    <3>3. Pos(r) = 3
      BY <3>1, <3>2, CrossesFrom
    <3> QED
      BY <3>3, Waits DEF WaitsKnown
  <2> QED
    BY <1>1, <1>2, <1>4, <2>1 DEF Made
<1> QED
  BY <1>3, <1>4

\* A rank that is going to remove a file is so until it does.
LEMMA StillRemoving ==
    ASSUME TypeOK, TypeOK', ~opt.keepFile, ~opt.keepWithError, NEW r \in Ranks,
           Moves(r) \/ Turns(r), rep' = rep \/ Turns(r),
           NEW s \in Ranks, NEW n, Removing(s, n), pc[r] # "removeWait" \/ s # r
    PROVE  Removing(s, n)'
<1>1. SameOptions /\ OthersStay(r)
  BY DEF Moves, Turns
<1>2. CASE s # r
  <2>1. Pos(s)' = Pos(s) /\ rep'[s] = rep[s]
    BY <1>1, <1>2, OthersFacts DEF OthersStay
  <2>2. /\ FinalOffset(s)' = FinalOffset(s) /\ (Owner(s)' <=> Owner(s))
        /\ \A off : TestFileName(s, off)' = TestFileName(s, off)
    BY <1>1, <2>1, SameNamesFacts
  <2>3. TestFileName(s, FinalOffset(s))' = TestFileName(s, FinalOffset(s))
    BY <1>1, <2>1, <2>2 DEF SameOptions, TestFileName, PretendRank
  <2> QED
    BY <2>1, <2>2, <2>3 DEF Removing
<1>3. CASE s = r
  <2>1. Moves(r) /\ rep' = rep
    BY <1>3 DEF Turns, Removing
  <2>2. /\ FinalOffset(s)' = FinalOffset(s) /\ (Owner(s)' <=> Owner(s))
        /\ \A off : TestFileName(s, off)' = TestFileName(s, off)
    BY <1>1, <2>1, SameNamesFacts
  <2>3. TestFileName(s, FinalOffset(s))' = TestFileName(s, FinalOffset(s))
    BY <1>1, <2>1, <2>2 DEF SameOptions, TestFileName, PretendRank
  <2>4. 3 <= Pos(r)'
    <3> DEFINE m == Pos(r)
               n2 == Pos(r)'
    <3>1. m \in 0 .. 34 /\ n2 \in 0 .. 34 /\ m <= n2 /\ 3 <= m
      BY <1>3, <2>1, PlaceTypes, NextPlaceTypes DEF AllPlacesOK, Moves, Removing
    <3> HIDE DEF m, n2
    <3>2. 3 <= n2
      BY <3>1
    <3> QED
      BY <3>2 DEF n2
  <2>5. Pos(r)' <= 33
    <3> SUFFICES ASSUME ~(Pos(r)' <= 33)
                 PROVE  FALSE
      OBVIOUS
    <3>1. 33 \in Full /\ Asked(r, 33)' /\ Pos(r) <= 33
      BY <1>1, <1>3 DEF Full, Asked, Removes, Removing, SameOptions
    <3>2. Pos(r) = 33
      BY <2>1, <3>1, CrossesFrom
    <3> QED
      BY <1>3, <3>2, Waits DEF WaitsKnown
  <2> QED
    BY <1>3, <2>2, <2>3, <2>4, <2>5 DEF Removing
<1> QED
  BY <1>2, <1>3

\* What a step leaves that removes no file and makes none.
LEMMA FilesStay ==
    ASSUME TypeOK, TypeOK', FilesInv, NEW r \in Ranks, Moves(r), rep' = rep,
           pc[r] \notin {"writeWait", "removeWait"},
           pc'[r] \in {"finish", "end"} => pc[r] = "finish",
           files' = [n \in DOMAIN files' |-> files'[n]],
           DOMAIN files' = DOMAIN files
    PROVE  FilesInv'
<1>1. SameOptions /\ AllNames' = AllNames /\ Repetitions' = Repetitions /\ opt' = opt
  BY SameAllNames DEF Moves, SameOptions
<1>2. MadeInv'
  <2> SUFFICES ASSUME opt.keepFile, NEW w \in Ranks, NEW c \in Repetitions, Owner(w)',
                      Made(w, c)'
               PROVE  FileOf(w, c)' \in DOMAIN files
    BY <1>1, Zenon DEF MadeInv
  <2>1. Made(w, c)
    BY MadeBefore
  <2>2. Owner(w) /\ FileOf(w, c)' = FileOf(w, c)
    BY <1>1, SameNamesFacts
  <2> QED
    BY <2>1, <2>2 DEF FilesInv, MadeInv
<1>3. GoneInv'
  <2> SUFFICES ASSUME ~opt.keepFile, ~opt.keepWithError, NEW n \in DOMAIN files
               PROVE  \E s \in Ranks : Removing(s, n)'
    BY <1>1, Zenon DEF GoneInv
  <2>1. PICK s \in Ranks : Removing(s, n)
    BY DEF FilesInv, GoneInv
  <2>2. Removing(s, n)'
    BY <2>1, StillRemoving
  <2> QED
    BY <2>2
<1> QED
  BY <1>1, <1>2, <1>3 DEF FilesInv

(* The old file of a rank is its own; the others are in the way of nobody. *)
LEMMA BeginWriteFiles ==
    ASSUME SInv, TypeOK', NameInv, FilesInv, NEW r \in Ranks, BeginWrite(r)
    PROVE  FilesInv'
<1>1. TypeOK /\ PlaceInv /\ Moves(r) /\ SameOptions /\ rep' = rep /\ opt' = opt
  BY BeginWriteMoves DEF SInv, Moves, BeginWrite, SameOptions
<1>2. AllNames' = AllNames /\ Repetitions' = Repetitions
  BY <1>1, SameAllNames
<1>3. Pos(r) = 2 /\ pc[r] = "write" /\ pc'[r] = "writeWait" /\ Exec.write
  <2>1. pc[r] = "write" /\ pc'[r] = "writeWait" /\ Exec.write
    BY <1>1, OthersAre DEF BeginWrite, Takes, Wanted
  <2> QED
    BY <1>1, <2>1, Places DEF PlacesKnown
<1>4. /\ DOMAIN files' \subseteq DOMAIN files
      /\ files' = [n \in DOMAIN files' |-> files'[n]]
      /\ \A n \in DOMAIN files : n \in DOMAIN files' \/ (Owner(r) /\ n = FileOf(r, rep[r]))
  <2>1. name'[r] = TestFileName(r, 0)
    <3>1. rankOffset[r] = 0
      BY <1>3 DEF NameInv, NameOK
    <3>2. name \in [Ranks -> Names]
      BY <1>1 DEF TypeOK
    <3> QED
      BY <3>1, <3>2 DEF BeginWrite
  <2>2. name'[r] = FileOf(r, rep[r])
    BY <1>1, <2>1, NameFacts
  <2>3. \A n \in Removed(r, name'[r]) : Owner(r) /\ n = FileOf(r, rep[r])
    BY <2>1, <2>2 DEF Removed, Owner
  <2>4. CASE opt.useExisting
    BY <2>4 DEF BeginWrite, FilesInv
  <2>5. CASE ~opt.useExisting
    <3>1. files' = Without(Removed(r, name'[r]))
      BY <2>5 DEF BeginWrite
    <3>2. DOMAIN files' = DOMAIN files \ Removed(r, name'[r])
      BY <3>1 DEF Without
    <3>3. files' = [n \in DOMAIN files' |-> files'[n]]
      BY <3>1 DEF Without
    <3> QED
      BY <2>3, <3>2, <3>3
  <2> QED
    BY <2>4, <2>5
<1>5. MadeInv'
  <2> SUFFICES ASSUME opt.keepFile, NEW w \in Ranks, NEW c \in Repetitions, Owner(w)',
                      Made(w, c)'
               PROVE  FileOf(w, c)' \in DOMAIN files'
    BY <1>1, <1>2, Zenon DEF MadeInv
  <2>1. Made(w, c)
    BY <1>1, <1>3, MadeBefore
  <2>2. Owner(w) /\ FileOf(w, c)' = FileOf(w, c)
    BY <1>1, SameNamesFacts
  <2>3. FileOf(w, c) \in DOMAIN files
    BY <2>1, <2>2 DEF FilesInv, MadeInv
  <2>4. ~(Owner(r) /\ FileOf(w, c) = FileOf(r, rep[r]))
    <3> SUFFICES ASSUME Owner(r), FileOf(w, c) = FileOf(r, rep[r])
                 PROVE  FALSE
      OBVIOUS
    <3>1. w = r
      BY <2>2 DEF Owner, FileOf
    <3>2. ~(4 <= Pos(r)) /\ Round(r) = rep[r]
      BY <1>3 DEF Round
    <3>3. opt.multiFile => c = rep[r]
      BY DEF FileOf
    <3>4. c \in Nat /\ rep[r] \in Nat
      BY <1>1 DEF Repetitions, TypeOK
    <3> QED
      BY <1>3, <2>1, <3>1, <3>2, <3>3, <3>4 DEF Made
  <2> QED
    BY <1>4, <2>2, <2>3, <2>4
<1>6. GoneInv'
  <2> SUFFICES ASSUME ~opt.keepFile, ~opt.keepWithError, NEW n \in DOMAIN files'
               PROVE  \E s \in Ranks : Removing(s, n)'
    BY <1>1, Zenon DEF GoneInv
  <2>1. PICK s \in Ranks : Removing(s, n)
    BY <1>4 DEF FilesInv, GoneInv
  <2>2. Removing(s, n)'
    BY <1>1, <1>3, <2>1, StillRemoving
  <2> QED
    BY <2>2
<1> QED
  BY <1>2, <1>4, <1>5, <1>6 DEF FilesInv

(* Who makes a file finds all in the repetition, one of whom is going to   *)
(* remove it.                                                              *)
LEMMA RemoverIsThere ==
    ASSUME SInv, ~opt.keepFile, ~opt.keepWithError, NEW r \in Ranks, Create(r),
           NEW s \in Ranks
    PROVE  3 <= Pos(s) /\ Pos(s) <= 33 /\ rep[s] = rep[r]
<1>1. TypeOK /\ PlaceOK(r) /\ NearInv /\ ErrorInv /\ Near(r, s)
  BY DEF SInv, PlaceInv, NearInv
<1>2. Pos(r) = 3 /\ AllArrived(r) /\ Exec.write /\ pc[r] = "writeWait"
  BY <1>1, Places DEF PlacesKnown, Create, PlaceOK
<1>3. 3 \in Full /\ Asked(r, 3) /\ 33 \in Full /\ Asked(s, 33)
  BY <1>2 DEF Full, Asked, Active, Removes
<1>4. Round(s) = Round(r) /\ 3 <= Pos(s)
  <2>1. (Round(s) = Round(r) /\ 3 <= Pos(s)) \/ (Round(s) = Round(r) + 1 /\ 3 = 34)
    BY <1>1, <1>2, <1>3, Met
  <2> QED
    BY <2>1
<1>5. Pos(s) \in 0 .. 34
  BY <1>1, PlaceTypes
<1>6. ~(33 < Pos(s))
  BY <1>1, <1>2, <1>3, <1>4 DEF Near, Behind
<1>7. pc[s] \notin {"finish", "end"}
  BY <1>1, <1>4, Places DEF PlacesKnown
<1>8. rep[s] = rep[r]
  BY <1>2, <1>4, <1>7 DEF Round
<1> QED
  BY <1>4, <1>5, <1>6, <1>8

\* A file is made in its place, and somebody will remove it.
LEMMA CreateFiles ==
    ASSUME SInv, TypeOK', NameInv, FilesInv, NEW r \in Ranks, Create(r)
    PROVE  FilesInv'
<1>1. TypeOK /\ PlaceInv /\ Moves(r) /\ SameOptions /\ rep' = rep /\ opt' = opt
  BY CreateMoves DEF SInv, Moves, Create, SameOptions, loop
<1>2. AllNames' = AllNames /\ Repetitions' = Repetitions
  BY <1>1, SameAllNames
<1>3. /\ Pos(r) = 3 /\ pc[r] = "writeWait"
      /\ pc'[r] \in {"openWait", "access"} /\ access'[r] = "write"
  BY <1>1, OpenedPlaces, Places DEF PlacesKnown, Create
<1>4. name[r] = FileOf(r, rep[r]) /\ name[r] \in AllNames
  BY <1>1, <1>3, NameFacts DEF NameInv, NameOK
<1>5. DOMAIN files' = DOMAIN files \cup {FileOf(r, rep[r])}
  <2>1. files' = With(name[r])
    BY DEF Create
  <2> QED
    BY <1>4, <2>1 DEF With
<1>6. files' = [n \in DOMAIN files' |-> files'[n]]
  <2>1. files' = With(name[r])
    BY DEF Create
  <2> QED
    BY <2>1 DEF With
<1>7. MadeInv'
  <2> SUFFICES ASSUME opt.keepFile, NEW w \in Ranks, NEW c \in Repetitions, Owner(w)',
                      Made(w, c)'
               PROVE  FileOf(w, c)' \in DOMAIN files'
    BY <1>1, <1>2, Zenon DEF MadeInv
  <2>1. Owner(w) /\ FileOf(w, c)' = FileOf(w, c)
    BY <1>1, SameNamesFacts
  <2>2. CASE Made(w, c)
    BY <1>5, <2>1, <2>2 DEF FilesInv, MadeInv
  <2>3. CASE ~Made(w, c)
    <3>1. w = r
      <4> SUFFICES ASSUME w # r
                   PROVE  FALSE
        OBVIOUS
      <4>1. Pos(w)' = Pos(w) /\ Round(w)' = Round(w) /\ pc'[w] = pc[w]
        BY <1>1, OthersFacts DEF Moves, OthersStay
      <4>2. (Exec.write)' = Exec.write
        BY <1>1 DEF SameOptions, Exec
      <4> QED
        BY <1>1, <2>3, <4>1, <4>2 DEF Made
    <3>2. Round(r) = rep[r] /\ Round(r)' = rep[r]
      BY <1>1, <1>3 DEF Round
    <3>3. (Exec.write)' = Exec.write
      BY <1>1 DEF SameOptions, Exec
    <3>4. ~opt.multiFile \/ c = rep[r]
      BY <1>1, <2>3, <3>1, <3>2, <3>3 DEF Made
    <3>5. FileOf(w, c) = FileOf(r, rep[r])
      BY <3>1, <3>4 DEF FileOf
    <3> QED
      BY <1>5, <2>1, <3>5
  <2> QED
    BY <2>2, <2>3
<1>8. GoneInv'
  <2> SUFFICES ASSUME ~opt.keepFile, ~opt.keepWithError, NEW n \in DOMAIN files'
               PROVE  \E s \in Ranks : Removing(s, n)'
    BY <1>1, Zenon DEF GoneInv
  <2>1. \E s \in Ranks : Removing(s, n)
    <3>1. CASE n \in DOMAIN files
      BY <3>1 DEF FilesInv, GoneInv
    <3>2. CASE n = FileOf(r, rep[r])
      <4>1. \A s \in Ranks : 3 <= Pos(s) /\ Pos(s) <= 33 /\ rep[s] = rep[r]
        BY RemoverIsThere
      <4>2. CASE opt.filePerProc
        <5>1. PICK s \in Ranks : PretendRank(s, FinalOffset(s)) = r
          BY <1>1, FinalOnto
        <5>2. TestFileName(s, FinalOffset(s)) = FileOf(r, rep[s])
          BY <1>1, <4>2, <5>1, NameFacts
        <5> QED
          BY <3>2, <4>1, <4>2, <5>2 DEF Removing, Owner
      <4>3. CASE ~opt.filePerProc
        <5>1. 0 \in Ranks
          BY Numbers
        <5>2. TestFileName(0, FinalOffset(0)) = FileOf(0, rep[0])
          BY <1>1, <4>3, <5>1, NameFacts
        <5>3. FileOf(0, rep[0]) = FileOf(r, rep[r])
          BY <4>1, <4>3, <5>1 DEF FileOf
        <5> QED
          BY <3>2, <4>1, <5>1, <5>2, <5>3 DEF Removing, Owner
      <4> QED
        BY <4>2, <4>3
    <3> QED
      BY <1>5, <3>1, <3>2
  <2>2. PICK s \in Ranks : Removing(s, n)
    BY <2>1
  <2>3. Removing(s, n)'
    BY <1>1, <1>3, <2>2, StillRemoving
  <2> QED
    BY <2>3
<1> QED
  BY <1>2, <1>4, <1>5, <1>6, <1>7, <1>8 DEF FilesInv

\* A rank removes what it was to remove and nothing else.
LEMMA RemoveFiles ==
    ASSUME SInv, TypeOK', NameInv, FilesInv, NEW r \in Ranks, Remove(r)
    PROVE  FilesInv'
<1>1. /\ TypeOK /\ PlaceInv /\ PlaceOK(r) /\ Moves(r) /\ SameOptions /\ rep' = rep
      /\ opt' = opt
  BY RemoveMoves DEF SInv, PlaceInv, Moves, Remove, SameOptions, loop
<1>2. AllNames' = AllNames /\ Repetitions' = Repetitions
  BY <1>1, SameAllNames
<1>3. Pos(r) = 33 /\ pc[r] = "removeWait" /\ Removes(r)
  BY <1>1, Places DEF PlacesKnown, Remove, PlaceOK
<1>4. files' = Without(Removed(r, name[r]))
  BY DEF Remove
<1>5. DOMAIN files' = DOMAIN files \ Removed(r, name[r])
  BY <1>4 DEF Without
<1>6. files' = [n \in DOMAIN files' |-> files'[n]]
  BY <1>4 DEF Without
<1>7. MadeInv'
  BY <1>1, <1>3 DEF Removes, MadeInv
<1>8. GoneInv'
  <2> SUFFICES ASSUME ~opt.keepFile, ~opt.keepWithError, NEW n \in DOMAIN files'
               PROVE  \E s \in Ranks : Removing(s, n)'
    BY <1>1, Zenon DEF GoneInv
  <2>1. PICK s \in Ranks : Removing(s, n)
    BY <1>5 DEF FilesInv, GoneInv
  <2>2. s # r
    <3> SUFFICES ASSUME s = r
                 PROVE  FALSE
      OBVIOUS
    <3>1. Owner(r) /\ n = TestFileName(r, FinalOffset(r))
      BY <2>1 DEF Removing
    <3>2. CASE opt.filePerProc /\ opt.reorder = "random"
      <4>1. FinalOffset(r) = 0
        BY <3>2 DEF FinalOffset
      <4>2. Removed(r, name[r]) = {TestFileName(r, 0)}
        BY <3>2 DEF Removed
      <4> QED
        BY <1>5, <3>1, <4>1, <4>2
    <3>3. CASE ~(opt.filePerProc /\ opt.reorder = "random")
      <4>1. Last <= 33
        BY <1>1, LastPlace
      <4>2. name[r] = TestFileName(r, FinalOffset(r))
        BY <1>3, <3>3, <4>1 DEF NameInv, NameOK
      <4>3. Removed(r, name[r]) = {name[r]}
        BY <3>1, <3>3 DEF Removed, Owner
      <4> QED
        BY <1>5, <3>1, <4>2, <4>3
    <3> QED
      BY <3>2, <3>3
  <2>3. Removing(s, n)'
    BY <1>1, <2>1, <2>2, StillRemoving
  <2> QED
    BY <2>3
<1> QED
  BY <1>2, <1>5, <1>6, <1>7, <1>8 DEF FilesInv

\* The next repetition begins with the files of the last one.
LEMMA EndRepFiles ==
    ASSUME SInv, TypeOK', FilesInv, NEW r \in Ranks, EndRep(r)
    PROVE  FilesInv'
<1>1. TypeOK /\ PlaceInv /\ Turns(r) /\ SameOptions /\ opt' = opt /\ files' = files
  BY EndRepTurns DEF SInv, Turns, EndRep, SameOptions
<1>2. AllNames' = AllNames /\ Repetitions' = Repetitions
  BY <1>1, SameAllNames
<1>3. /\ Pos(r) = 34 /\ Pos(r)' = 0 /\ Round(r)' = Round(r) + 1 /\ Round(r) \in Nat
      /\ (Exec.write)' = Exec.write /\ OthersStay(r)
  BY <1>1, PlaceTypes DEF Turns, SameOptions, Exec
<1>4. MadeInv'
  <2> SUFFICES ASSUME opt.keepFile, NEW w \in Ranks, NEW c \in Repetitions, Owner(w)',
                      Made(w, c)'
               PROVE  FileOf(w, c)' \in DOMAIN files'
    BY <1>1, <1>2, Zenon DEF MadeInv
  <2>1. Owner(w) /\ FileOf(w, c)' = FileOf(w, c)
    BY <1>1 DEF SameOptions, Owner, FileOf
  <2>2. CASE w # r
    <3>1. Pos(w)' = Pos(w) /\ Round(w)' = Round(w) /\ pc'[w] = pc[w]
      BY <1>1, <1>3, <2>2, OthersFacts DEF OthersStay
    <3>2. Made(w, c)
      BY <1>1, <1>3, <3>1 DEF Made
    <3> QED
      BY <1>1, <2>1, <3>2 DEF FilesInv, MadeInv
  <2>3. CASE w = r
    <3>1. c \in Nat
      BY <1>1, OptionTypes DEF TypeOK
    <3>2. opt.multiFile => c < Round(r) \/ c = Round(r) \/ ~Exec.write
      BY <1>1, <1>3, <2>3, <3>1 DEF Made
    <3>3. Made(w, c)
      BY <1>3, <2>3, <3>2 DEF Made
    <3> QED
      BY <1>1, <2>1, <3>3 DEF FilesInv, MadeInv
  <2> QED
    BY <2>2, <2>3
<1>5. GoneInv'
  <2> SUFFICES ASSUME ~opt.keepFile, ~opt.keepWithError, NEW n \in DOMAIN files'
               PROVE  \E s \in Ranks : Removing(s, n)'
    BY <1>1, Zenon DEF GoneInv
  <2>1. PICK s \in Ranks : Removing(s, n)
    BY <1>1 DEF FilesInv, GoneInv
  <2>2. pc[r] # "removeWait"
    BY DEF EndRep
  <2>3. Removing(s, n)'
    BY <1>1, <2>1, <2>2, StillRemoving
  <2> QED
    BY <2>3
<1> QED
  BY <1>1, <1>2, <1>4, <1>5 DEF FilesInv

\* The steps that remove no file and make none.
Filing(r) ==
    \/ StartRep(r) \/ StampKnown(r) \/ Skip(r) \/ BeginCheck(r) \/ BeginRead(r)
    \/ StatusKnown(r) \/ Reorder(r) \/ OpenCheck(r) \/ OpenRead(r) \/ OpenDone(r)
    \/ Transfer(r) \/ Return(r) \/ ErrorsKnown(r) \/ AccessDone(r) \/ Close(r) \/ Closed(r)
    \/ SizeKnown(r) \/ Reported(r) \/ BeforeRemove(r) \/ ShowTestEnd(r)

\* What such steps leave.
LEMMA FilingFacts ==
    ASSUME TypeOK, NEW r \in Ranks, Filing(r)
    PROVE  /\ pc[r] \notin {"writeWait", "removeWait"}
           /\ rep' = rep /\ (pc'[r] \in {"finish", "end"} => pc[r] = "finish")
           /\ files' = files \/ Transfer(r)
<1>1. CASE StartRep(r) \/ StampKnown(r) \/ Skip(r) \/ BeginCheck(r)
  <2>1. pc[r] \notin {"writeWait", "removeWait"} /\ files' = files
    BY <1>1 DEF StartRep, StampKnown, Skip, BeginCheck, Takes
  <2> QED
    BY <1>1, <2>1, NamelessFacts DEF Nameless
<1>2. CASE BeginRead(r) \/ StatusKnown(r) \/ OpenRead(r) \/ OpenDone(r)
  <2>1. pc[r] \notin {"writeWait", "removeWait"} /\ files' = files
    BY <1>2 DEF BeginRead, Takes, StatusKnown, OpenRead, OpenDone, Passes
  <2> QED
    BY <1>2, <2>1, NamelessFacts DEF Nameless
<1>3. CASE Transfer(r) \/ Return(r) \/ ErrorsKnown(r) \/ AccessDone(r)
  <2>1. pc[r] \notin {"writeWait", "removeWait"} /\ (files' = files \/ Transfer(r))
    BY <1>3 DEF Transfer, Return, ErrorsKnown, AccessDone
  <2> QED
    BY <1>3, <2>1, NamelessFacts DEF Nameless
<1>4. CASE Close(r) \/ Closed(r) \/ SizeKnown(r) \/ Reported(r)
  <2>1. pc[r] \notin {"writeWait", "removeWait"} /\ files' = files
    BY <1>4 DEF Close, Closed, SizeKnown, Passes, Reported
  <2> QED
    BY <1>4, <2>1, NamelessFacts DEF Nameless
<1>5. CASE BeforeRemove(r) \/ ShowTestEnd(r)
  <2>1. pc[r] \notin {"writeWait", "removeWait"} /\ files' = files
    BY <1>5 DEF BeforeRemove, ShowTestEnd
  <2> QED
    BY <1>5, <2>1, NamelessFacts DEF Nameless
<1>6. CASE Reorder(r) \/ OpenCheck(r)
  <2>1. pc'[r] \in {"readWait", "openWait", "access"}
    BY <1>6, OthersAre, OpenedPlaces DEF Reorder, OpenCheck
  <2> QED
    BY <1>6, <2>1 DEF Reorder, OpenCheck, loop
<1> QED
  BY <1>1, <1>2, <1>3, <1>4, <1>5, <1>6 DEF Filing

\* They keep the files as they have to be.
LEMMA FilingFiles ==
    ASSUME SInv, TypeOK', ~opt.timeLimit, FilesInv, NEW r \in Ranks, Filing(r)
    PROVE  FilesInv'
<1>1. TypeOK /\ PlaceInv
  BY DEF SInv
<1>2. Moves(r)
  BY <1>1, NamelessMoves, ReorderMoves, OpenCheckMoves DEF Filing, Nameless
<1>3. files = [n \in DOMAIN files |-> files[n]]
  BY DEF FilesInv
<1>4. DOMAIN files' = DOMAIN files /\ files' = [n \in DOMAIN files' |-> files'[n]]
  <2>1. CASE files' = files
    BY <1>3, <2>1
  <2>2. CASE Transfer(r)
    <3>1. DOMAIN files' = DOMAIN files
      BY <1>1, <2>2, InsideFiles DEF Inside
    <3>2. files' = files \/ \E n, f : files' = [files EXCEPT ![n] = f]
      BY <2>2 DEF Transfer
    <3> QED
      BY <1>3, <3>1, <3>2
  <2> QED
    BY <1>1, <2>1, <2>2, FilingFacts
<1> QED
  BY <1>1, <1>2, <1>4, FilingFacts, FilesStay

(* A step that moves no rank. *)
LEMMA UnmovedFiles ==
    ASSUME FilesInv, UNCHANGED <<opt, execution, pc, access, rep>>,
           DOMAIN files' = DOMAIN files, files' = [n \in DOMAIN files' |-> files'[n]]
    PROVE  FilesInv'
<1>1. SameOptions /\ AllNames' = AllNames /\ Repetitions' = Repetitions /\ opt' = opt
  BY SameAllNames DEF SameOptions
<1>2. \A s \in Ranks : /\ Pos(s)' = Pos(s) /\ Round(s)' = Round(s)
                        /\ rep'[s] = rep[s] /\ pc'[s] = pc[s]
  BY DEF Pos, Round
<1>3. MadeInv'
  <2> SUFFICES ASSUME opt.keepFile, NEW w \in Ranks, NEW c \in Repetitions, Owner(w)',
                      Made(w, c)'
               PROVE  FileOf(w, c)' \in DOMAIN files
    BY <1>1, Zenon DEF MadeInv
  <2>1. Made(w, c)
    BY <1>1, <1>2 DEF Made, SameOptions, Exec
  <2>2. Owner(w) /\ FileOf(w, c)' = FileOf(w, c)
    BY <1>1, <1>2, SameNamesFacts
  <2> QED
    BY <2>1, <2>2 DEF FilesInv, MadeInv
<1>4. GoneInv'
  <2> SUFFICES ASSUME ~opt.keepFile, ~opt.keepWithError, NEW n \in DOMAIN files
               PROVE  \E s \in Ranks : Removing(s, n)'
    BY <1>1, Zenon DEF GoneInv
  <2>1. PICK s \in Ranks : Removing(s, n)
    BY DEF FilesInv, GoneInv
  <2>2. /\ FinalOffset(s)' = FinalOffset(s) /\ (Owner(s)' <=> Owner(s))
        /\ \A off : TestFileName(s, off)' = TestFileName(s, off)
    BY <1>1, <1>2, SameNamesFacts
  <2>3. TestFileName(s, FinalOffset(s))' = TestFileName(s, FinalOffset(s))
    BY <1>1, <1>2, <2>2 DEF SameOptions, TestFileName, PretendRank
  <2>4. Removing(s, n)'
    BY <1>2, <2>1, <2>2, <2>3 DEF Removing
  <2> QED
    BY <2>4
<1> QED
  BY <1>1, <1>3, <1>4 DEF FilesInv

(* At the end of an execution the files are as they were asked for. *)
LEMMA FilesAtEnd ==
    ASSUME TypeOK, PlaceInv, FilesInv, AllEnded
    PROVE  /\ opt.keepFile => DOMAIN files = AllNames
           /\ opt.keepFile => \A w \in Ranks, c \in Repetitions :
                                 Owner(w) => FileOf(w, c) \in DOMAIN files
           /\ ~opt.keepFile /\ ~opt.keepWithError => DOMAIN files = {}
<1>1. ASSUME opt.keepFile, NEW w \in Ranks, NEW c \in Repetitions, Owner(w)
      PROVE  FileOf(w, c) \in DOMAIN files
  <2>1. pc[w] = "end" /\ rep[w] + 1 \notin Repetitions
    BY DEF AllEnded, PlaceInv, PlaceOK
  <2>2. c < Round(w)
    <3>1. /\ rep[w] \in 0 .. opt.repetitions - 1 /\ rep[w] + 1 \notin 0 .. opt.repetitions - 1
          /\ c \in 0 .. opt.repetitions - 1 /\ opt.repetitions \in Nat
      BY <2>1, OptionTypes DEF TypeOK, Repetitions
    <3> DEFINE m == opt.repetitions
               k == rep[w]
    <3> HIDE DEF m, k
    <3>2. k \in 0 .. m - 1 /\ k + 1 \notin 0 .. m - 1 /\ c \in 0 .. m - 1 /\ m \in Nat
      BY <3>1 DEF m, k
    <3>3. c < k + 1
      BY <3>2
    <3> QED
      BY <2>1, <3>3 DEF Round, k
  <2>3. Made(w, c)
    BY <2>1, <2>2 DEF Made
  <2> QED
    BY <1>1, <2>3 DEF FilesInv, MadeInv
<1>2. ASSUME opt.keepFile
      PROVE  DOMAIN files = AllNames
  <2>1. ASSUME NEW n \in AllNames
        PROVE  n \in DOMAIN files
    <3>1. PICK w \in Ranks, c \in Repetitions : Owner(w) /\ n = FileOf(w, c)
      BY EveryName
    <3> QED
      BY <1>1, <1>2, <3>1
  <2> QED
    BY <2>1 DEF FilesInv
<1>3. ASSUME ~opt.keepFile, ~opt.keepWithError
      PROVE  DOMAIN files = {}
  <2> SUFFICES ASSUME NEW n \in DOMAIN files
               PROVE  FALSE
    OBVIOUS
  <2>1. PICK s \in Ranks : Removing(s, n)
    BY <1>3 DEF FilesInv, GoneInv
  <2>2. Pos(s) = 0
    BY OuterPlaces DEF AllEnded
  <2> QED
    BY <2>1, <2>2 DEF Removing
<1> QED
  BY <1>1, <1>2, <1>3

\* The next execution begins with the files of the last one.
LEMMA NextFiles ==
    ASSUME TypeOK, PlaceInv, FilesInv, NextExecution
    PROVE  FilesInv'
<1>1. /\ AllEnded /\ opt' = opt /\ files' = files
      /\ \A s \in Ranks : pc'[s] = "start" /\ rep'[s] = 0
  BY DEF NextExecution, Each
<1>2. AllNames' = AllNames /\ Repetitions' = Repetitions
  BY <1>1 DEF AllNames, Repetitions
<1>3. MadeInv'
  <2> SUFFICES ASSUME opt.keepFile, NEW w \in Ranks, NEW c \in Repetitions, Owner(w)'
               PROVE  FileOf(w, c)' \in DOMAIN files
    BY <1>1, <1>2, Zenon DEF MadeInv
  <2>1. Owner(w) /\ FileOf(w, c)' = FileOf(w, c)
    BY <1>1 DEF Owner, FileOf
  <2> QED
    BY <1>1, <2>1, FilesAtEnd
<1>4. GoneInv'
  <2> SUFFICES ASSUME ~opt.keepFile, ~opt.keepWithError, NEW n \in DOMAIN files
               PROVE  FALSE
    BY <1>1, Zenon DEF GoneInv
  <2> QED
    BY <1>1, FilesAtEnd
<1> QED
  BY <1>1, <1>2, <1>3, <1>4 DEF FilesInv

\* Every step keeps the files as they have to be.
LEMMA FilesStep ==
    ASSUME Untimed, SInv, NameInv, FilesInv, [Next]_vars
    PROVE  FilesInv'
<1>1. TypeOK /\ TypeOK' /\ PlaceInv /\ files = [n \in DOMAIN files |-> files[n]]
  BY TypeStep DEF SInv, FilesInv
<1>2. ~opt.timeLimit
  BY <1>1 DEF Untimed, TypeOK
<1>3. CASE UNCHANGED vars
  BY <1>1, <1>3, UnmovedFiles DEF vars
<1>4. ASSUME NEW r \in Ranks, RankStep(r)
      PROVE  FilesInv'
  <2>1. CASE Filing(r)
    BY <1>1, <1>2, <2>1, FilingFiles
  <2>2. CASE BeginWrite(r) \/ Create(r) \/ Remove(r) \/ EndRep(r)
    BY <1>1, <2>2, BeginWriteFiles, CreateFiles, RemoveFiles, EndRepFiles
  <2> QED
    BY <1>4, <2>1, <2>2 DEF RankStep, Filing
<1>5. CASE NextExecution
  BY <1>1, <1>5, NextFiles
<1>6. ASSUME NEW n \in DOMAIN files, NEW w \in Ranks, NEW k \in Positions, Spoil(n, w, k)
      PROVE  FilesInv'
  <2>1. UNCHANGED <<opt, execution, pc, access, rep>>
    BY <1>6 DEF Spoil, loop, open
  <2>2. \E f : files' = [files EXCEPT ![n] = f]
    BY <1>6 DEF Spoil
  <2>3. DOMAIN files' = DOMAIN files /\ files' = [m \in DOMAIN files' |-> files'[m]]
    BY <1>1, <2>2
  <2> QED
    BY <2>1, <2>3, UnmovedFiles
<1> QED
  BY <1>3, <1>4, <1>5, <1>6 DEF Next

\* The first execution writes.
Provided == \A o \in Options : ~NothingToRead(o)

\* At the beginning no rank has a name.
LEMMA InitNames ==
    ASSUME Init
    PROVE  NameInv
<1>1. \A r \in Ranks : Pos(r) = 0 /\ rankOffset[r] = 0
  BY OuterPlaces DEF Init, Each
<1>2. Last \in {3, 14, 23}
  BY DEF Last
<1> QED
  BY <1>1, <1>2 DEF NameInv, NameOK

\* At the beginning there is no file, and if files are kept the first
\* execution writes.
LEMMA InitFiles ==
    ASSUME Provided, Init
    PROVE  FilesInv
<1>1. opt \in Options /\ execution = 1 /\ files = << >>
  BY DEF Init
<1>2. DOMAIN files = {} /\ files = [n \in DOMAIN files |-> files[n]]
  BY <1>1
<1>3. opt.keepFile => Exec.write
  <2>1. opt.executions \in Seq(ExecutionRecord) /\ opt.executions # << >>
    BY <1>1, OptionsAssumption DEF OptionRecord, ValidOption
  <2>2. 1 \in DOMAIN opt.executions
    BY <2>1
  <2>3. Earlier(opt, 1) = {}
    BY DEF Earlier
  <2> QED
    BY <1>1, <2>2, <2>3 DEF Provided, NothingToRead, Exec
<1>4. \A w \in Ranks, c \in Repetitions : Exec.write => ~Made(w, c)
  <2> SUFFICES ASSUME NEW w \in Ranks, NEW c \in Repetitions, Exec.write
               PROVE  ~Made(w, c)
    OBVIOUS
  <2>1. pc[w] = "start" /\ rep[w] = 0
    BY DEF Init, Each
  <2>2. Pos(w) = 0 /\ Round(w) = 0
    BY <2>1, OuterPlaces DEF Round
  <2>3. c \in Nat
    BY <1>1, OptionTypes DEF Repetitions
  <2> QED
    BY <2>1, <2>2, <2>3 DEF Made
<1> QED
  BY <1>2, <1>3, <1>4 DEF FilesInv, MadeInv, GoneInv

(***************************************************************************)
(* In the end the files are those that are asked for: all of them when     *)
(* they are kept, and none when not, although it depends on the order of   *)
(* the reads which rank has which file to remove.                          *)
(***************************************************************************)
THEOREM FilesAsAskedHolds ==
    ASSUME Untimed, Provided
    PROVE  Spec => []FilesAsAsked
<1>1. Init => SInv /\ NameInv /\ FilesInv
  BY InitSInv, InitNames, InitFiles
<1>2. SInv /\ NameInv /\ FilesInv /\ [Next]_vars => SInv' /\ NameInv' /\ FilesInv'
  BY SStep, NameStep, FilesStep
<1>3. SInv /\ FilesInv => FilesAsAsked
  <2> SUFFICES ASSUME SInv, FilesInv, AllEnded
               PROVE  /\ opt.keepFile => DOMAIN files = AllNames
                      /\ ~opt.keepFile /\ ~opt.keepWithError => files = << >>
    BY DEF FilesAsAsked
  <2>1. /\ opt.keepFile => DOMAIN files = AllNames
        /\ ~opt.keepFile /\ ~opt.keepWithError => DOMAIN files = {}
    BY FilesAtEnd DEF SInv
  <2>2. DOMAIN files = {} => files = << >>
    BY DEF FilesInv
  <2> QED
    BY <2>1, <2>2
<1> QED
  BY <1>1, <1>2, <1>3, PTL DEF Spec
=============================================================================
