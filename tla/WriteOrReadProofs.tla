------------------------- MODULE WriteOrReadProofs -------------------------
(***************************************************************************)
(* What WriteOrRead keeps for every number of ranks and every parameter    *)
(* set: its types, the wear-out's equal work, the bound a former phase     *)
(* sets, the order of the accesses, and that it implements AccessPhase.    *)
(***************************************************************************)
EXTENDS WriteOrRead, FiniteSetTheorems, SequenceTheorems, TLAPS

----------------------------------------------------------------------------
(***************************************************************************)
(* The inductive invariants, one for each property that is not inductive   *)
(* as it stands.                                                           *)
(***************************************************************************)
InMainLoop(r) == pc[r] \in {"segment", "segmentWait", "block", "bcastWait"}

\* Where the broadcasts of hitStonewall are among the collectives c.
Bcasts(c) == {n \in 1 .. Len(c) : c[n] = "bcast"}

\* Rank 0 logs what it broadcasts, a rank in the loop has entered a broadcast
\* for each of its transfers, and each has met one of rank 0's, but for the one
\* it waits in: that is why hitLog[pairCnt[r]] is the value rank r receives.
BcastInv ==
    /\ Broadcasts => Len(hitLog) = Cardinality(Bcasts(calls[0]))
    /\ \A r \in Ranks :
          /\ pc[r] \in {"prefill", "prefillWait"} => ~Broadcasts
          /\ pc[r] = "bcastWait" => /\ Broadcasts
                                    /\ pairCnt[r] > 0
                                    /\ calls[r][Len(calls[r])] = "bcast"
          /\ Broadcasts /\ InMainLoop(r) => pairCnt[r] = Cardinality(Bcasts(calls[r]))
          /\ Broadcasts => \A n \in Bcasts(calls[r]) :
                n \in Bcasts(calls[0]) \/ (pc[r] = "bcastWait" /\ n = Len(calls[r]))

AfterAgree(r) == pc[r] \in {"resume", "wearSegment", "wearBlock"} \cup Finished

Past(r) == pc[r] = "agreeWait" \/ AfterAgree(r)

\* What the allreduce has to have told rank r.
Agreed(r) == /\ \A s \in Ranks : Past(s) /\ sent[s] <= pairsAccessed[r]
             /\ \E s \in Ranks : sent[s] = pairsAccessed[r]

\* The counts are final when they are exchanged, and nobody is told the
\* largest before all are in.
AgreeInv ==
    /\ \A r \in Ranks : \A n \in 1 .. Len(calls[r]) :
          calls[r][n] = "allreduce" => Past(r)
    /\ \A r \in Ranks : pc[r] = "agreeWait" =>
          /\ test.wearOut /\ sent[r] = pairCnt[r]
          /\ Len(calls[r]) > 0 /\ calls[r][Len(calls[r])] = "allreduce"
    /\ \A r \in Ranks : AfterAgree(r) /\ test.wearOut => Agreed(r)
    /\ \A r \in Ranks : pc[r] \in {"resume", "wearSegment", "wearBlock"} =>
          test.wearOut /\ pairCnt[r] <= pairsAccessed[r]
    /\ \A r \in Ranks : pc[r] \in Finished => pairCnt[r] = pairsAccessed[r]

\* No rank is past the iterations it was given, and one that has reached
\* them has its stonewall hit, whoever evaluated it.
WithinInv ==
    /\ \A r \in Ranks : test.iterations[r] # 0 =>
          /\ pairCnt[r] <= test.iterations[r] /\ sent[r] <= test.iterations[r]
          /\ pc[r] \in {"segment", "segmentWait", "block"}
                /\ pairCnt[r] = test.iterations[r] => hit[r]
          /\ pc[r] \in {"prefill", "prefillWait"} => pairCnt[r] = 0
    /\ LET n == test.iterations[0]
       IN  n # 0 /\ n <= Len(hitLog) => hitLog[n] = TRUE

\* <<a, b>> is the position rank r has to access next, or accessed last.
NextIs(r, a, b) == IF pairCnt[r] = 0 THEN a = 0 /\ b = 0
                                     ELSE Following(r, last[r]) = <<a, b>>
LastWas(r, a, b) == pairCnt[r] > 0 /\ last[r] = <<a, b>>

\* Rank r has left its loops one step after its last access, or it has
\* spun past its stonewall with all the iterations it was given done.
StoppedAt(r) ==
    /\ i[r] \in 0 .. test.segmentCount
    /\ i[r] > 0 => /\ j[r] \in 1 .. test.offsets[r]
                    /\ LastWas(r, i[r] - 1, j[r] - 1)

AllIterations(r) == test.iterations[r] # 0 /\ pairCnt[r] = test.iterations[r]

OrderAt(r) ==
    LET S == test.segmentCount
        O == test.offsets[r]
    IN  /\ pc[r] \in {"prefill", "prefillWait"} =>
              pairCnt[r] = 0 /\ i[r] = 0 /\ ~hit[r]
        /\ InMainLoop(r) /\ hit[r] =>
              \/ test.deadline # 0 /\ now[r] > test.deadline
              \/ AllIterations(r)
              \/ Broadcasts
        /\ O > 0 =>
              /\ pc[r] = "segment" =>
                    /\ StoppedAt(r)
                    /\ i[r] > 0 /\ ~hit[r] => j[r] = O
                    /\ i[r] = 0 /\ ~hit[r] => NextIs(r, 0, 0)
                    /\ i[r] = 0 /\ hit[r] /\ test.wearOut => AllIterations(r)
              /\ pc[r] = "segmentWait" =>
                    i[r] \in 0 .. S - 1 /\ ~hit[r] /\ NextIs(r, i[r], 0)
              /\ pc[r] \in {"block", "bcastWait"} =>
                    /\ i[r] \in 0 .. S - 1 /\ j[r] \in 0 .. O
                    /\ j[r] > 0 => LastWas(r, i[r], j[r] - 1)
                    /\ j[r] = 0 => ~hit[r] /\ NextIs(r, i[r], 0) /\ pc[r] = "block"
              /\ pc[r] \in {"agreeWait", "resume"} =>
                    StoppedAt(r) /\ (i[r] = 0 => AllIterations(r))
              /\ pc[r] = "wearSegment" /\ pairCnt[r] < pairsAccessed[r] =>
                    /\ i[r] \in 0 .. S /\ j[r] \in 0 .. O - 1
                    /\ i[r] = S => j[r] = 0 /\ NextIs(r, 0, 0)
                    /\ i[r] < S => NextIs(r, i[r], j[r])
              /\ pc[r] = "wearBlock" =>
                    /\ i[r] \in 0 .. S - 1 /\ j[r] \in 0 .. O
                    /\ j[r] < O => NextIs(r, i[r], j[r])
                    /\ j[r] = O => LastWas(r, i[r], O - 1)

OrderInv == \A r \in Ranks : OrderAt(r)

----------------------------------------------------------------------------
(***************************************************************************)
(* Rank r goes to p and enters the collectives k, none of them the         *)
(* broadcast of hitStonewall: what all steps but a transfer of the main    *)
(* loop have in common.                                                    *)
(***************************************************************************)
Moves(r, p, k) ==
    /\ p \in PCs /\ p # "bcastWait" /\ k \in Seq(Kinds)
    /\ pc' = [pc EXCEPT ![r] = p]
    /\ Enter(r, k)
    /\ \A n \in 1 .. Len(k) : k[n] # "bcast" /\ (k[n] = "allreduce" => p = "agreeWait")
    /\ test' = test /\ hitLog' = hitLog

\* ... and no transfer is done.
MovesOnly(r, p, k) == Moves(r, p, k) /\ pairCnt' = pairCnt

(* A test's parameters have their types. *)
LEMMA TestType ==
    ASSUME NEW t \in Tests
    PROVE  /\ t.segmentCount \in Nat \ {0}
           /\ t.offsets \in [Ranks -> Nat]
           /\ t.deadline \in Nat /\ t.minTime \in Nat
           /\ t.iterations \in [Ranks -> Nat]
           /\ t.wearOut \in BOOLEAN /\ t.sync \in BOOLEAN /\ t.collective \in BOOLEAN
           /\ t.prefill \in BOOLEAN /\ t.check \in BOOLEAN
           /\ ValidTest(t)
BY TestsAssumption DEF TestRecord

(* Where ranks have to agree on a limit they have the same one. *)
LEMMA SameLimit ==
    ASSUME test \in Tests, NEW r \in Ranks, NEW s \in Ranks, test.sync \/ test.wearOut
    PROVE  test.iterations[r] = test.iterations[s]
BY TestType DEF ValidTest, SameForAll

(* Rank 0 is a rank. *)
LEMMA RootRank == 0 \in Ranks
BY NumTasksAssumption DEF Ranks

(* The places of the program are places; the set itself stays folded. *)
LEMMA PCNames ==
    /\ "prefill" \in PCs /\ "prefillWait" \in PCs /\ "segment" \in PCs
    /\ "segmentWait" \in PCs /\ "block" \in PCs /\ "bcastWait" \in PCs
    /\ "agreeWait" \in PCs /\ "resume" \in PCs /\ "wearSegment" \in PCs
    /\ "wearBlock" \in PCs /\ "errors" \in PCs /\ "errorsWait" \in PCs
    /\ "done" \in PCs
BY DEF PCs

(* The sequences the actions enter are sequences of collectives. *)
LEMMA KindNames ==
    /\ <<"barrier">> \in Seq(Kinds) /\ <<"allreduce">> \in Seq(Kinds)
    /\ <<"reduce">> \in Seq(Kinds) /\ <<"errReduce">> \in Seq(Kinds)
    /\ <<"errBcast">> \in Seq(Kinds) /\ <<"errReduce", "errBcast">> \in Seq(Kinds)
    /\ <<"xfer">> \in Seq(Kinds) /\ << >> \in Seq(Kinds)
    /\ <<"xfer", "bcast">> \in Seq(Kinds) /\ <<"bcast">> \in Seq(Kinds)
BY DEF Kinds

(* The broadcasts of a sequence can be counted. *)
LEMMA BcastsFinite ==
    ASSUME NEW c \in Seq(Kinds)
    PROVE  IsFiniteSet(Bcasts(c)) /\ Cardinality(Bcasts(c)) \in Nat
<1>1. IsFiniteSet(1 .. Len(c))
  BY FS_Interval
<1>2. Bcasts(c) \subseteq 1 .. Len(c)
  BY DEF Bcasts
<1>3. IsFiniteSet(Bcasts(c))
  BY <1>1, <1>2, FS_Subset
<1> QED
  BY <1>3, FS_CardinalityType

(* A rank that leaves its wait for the broadcast finds a value there. *)
LEMMA BcastValue ==
    ASSUME TypeOK, BcastInv, NEW r \in Ranks, BcastDone(r)
    PROVE  pairCnt[r] \in 1 .. Len(hitLog) /\ hitLog[pairCnt[r]] \in BOOLEAN
<1>1. 0 \in Ranks /\ calls \in [Ranks -> Seq(Kinds)]
  BY NumTasksAssumption DEF Ranks, TypeOK
<1>2. pc[r] = "bcastWait" /\ RootArrived(r)
  BY DEF BcastDone
<1>3. /\ Broadcasts /\ pairCnt[r] > 0 /\ calls[r][Len(calls[r])] = "bcast"
      /\ pairCnt[r] = Cardinality(Bcasts(calls[r]))
      /\ Len(hitLog) = Cardinality(Bcasts(calls[0]))
  BY <1>2 DEF BcastInv, InMainLoop
<1>4. Len(calls[r]) \in Bcasts(calls[0])
  BY <1>2, <1>3 DEF RootArrived, InSameCall, Bcasts
<1>5. Bcasts(calls[r]) \subseteq Bcasts(calls[0])
  BY <1>3, <1>4 DEF BcastInv
<1>6. Cardinality(Bcasts(calls[r])) <= Cardinality(Bcasts(calls[0]))
  BY <1>1, <1>5, BcastsFinite, FS_Subset
<1>7. pairCnt[r] \in Nat /\ hitLog \in Seq(BOOLEAN)
  BY DEF TypeOK
<1>8. pairCnt[r] \in 1 .. Len(hitLog)
  BY <1>3, <1>6, <1>7
<1> QED
  BY <1>7, <1>8

(* Every step keeps the types. *)
LEMMA TypeStep == TypeOK /\ BcastInv /\ [Next]_vars => TypeOK'
<1> SUFFICES ASSUME TypeOK, BcastInv, [Next]_vars PROVE TypeOK'
  OBVIOUS
<1>1. test.segmentCount \in Nat /\ test.offsets \in [Ranks -> Nat]
  BY TestType DEF TypeOK
<1>2. /\ i \in [Ranks -> Int] /\ j \in [Ranks -> Nat]
      /\ hit \in [Ranks -> BOOLEAN] /\ hitLog \in Seq(BOOLEAN)
  BY DEF TypeOK
<1>3. calls \in [Ranks -> Seq(Kinds)]
  BY DEF TypeOK
<1>4. ASSUME NEW r \in Ranks, Tick(r) PROVE TypeOK'
  <2>1. /\ test' = test /\ pc' = pc /\ i' = i /\ j' = j /\ pairCnt' = pairCnt
       /\ hit' = hit /\ sent' = sent /\ pairsAccessed' = pairsAccessed
       /\ calls' = calls /\ hitLog' = hitLog /\ last' = last
       /\ prefilled' = prefilled /\ touched' = touched
    BY <1>4 DEF Tick, position, history, result
  <2>2. now' \in [Ranks -> Nat]
    BY <1>4 DEF Tick, TypeOK
  <2> QED
    BY <2>1, <2>2 DEF TypeOK
<1>5. ASSUME NEW r \in Ranks, PrefillAll(r) PROVE TypeOK'
  <2>1. /\ test' = test /\ i' = i /\ j' = j /\ pairCnt' = pairCnt
       /\ hit' = hit /\ now' = now /\ sent' = sent
       /\ pairsAccessed' = pairsAccessed /\ hitLog' = hitLog /\ last' = last
       /\ touched' = touched
    BY <1>5 DEF PrefillAll, position, history, result
  <2>2. pc' \in [Ranks -> PCs]
    BY <1>5, PCNames DEF PrefillAll, TypeOK
  <2>3. calls' \in [Ranks -> Seq(Kinds)]
    BY <1>5, <1>3, KindNames DEF PrefillAll, Enter
  <2>4. prefilled' \in [Ranks -> SUBSET Int]
    BY <1>5, <1>1 DEF PrefillAll, TypeOK
  <2> QED
    BY <2>1, <2>2, <2>3, <2>4 DEF TypeOK
<1>6. ASSUME NEW r \in Ranks, PrefillAllDone(r) PROVE TypeOK'
  <2>1. /\ test' = test /\ i' = i /\ j' = j /\ pairCnt' = pairCnt
       /\ hit' = hit /\ now' = now /\ sent' = sent
       /\ pairsAccessed' = pairsAccessed /\ calls' = calls
       /\ hitLog' = hitLog /\ last' = last /\ prefilled' = prefilled
       /\ touched' = touched
    BY <1>6 DEF PrefillAllDone, position, history, result
  <2>2. pc' \in [Ranks -> PCs]
    BY <1>6, PCNames DEF PrefillAllDone, TypeOK
  <2>3. /\ test' \in Tests /\ i' \in [Ranks -> Int] /\ j' \in [Ranks -> Nat]
        /\ hit' \in [Ranks -> BOOLEAN] /\ calls' \in [Ranks -> Seq(Kinds)]
        /\ hitLog' \in Seq(BOOLEAN)
    BY <2>1, <1>2, <1>3 DEF TypeOK
  <2>4. /\ pairCnt' \in [Ranks -> Nat] /\ now' \in [Ranks -> Nat]
        /\ sent' \in [Ranks -> Nat] /\ pairsAccessed' \in [Ranks -> Nat]
    BY <2>1 DEF TypeOK
  <2>5. /\ last' \in [Ranks -> Int \X Int] /\ prefilled' \in [Ranks -> SUBSET Int]
        /\ touched' \in SUBSET Int
    BY <2>1 DEF TypeOK
  <2> QED
    BY <2>2, <2>3, <2>4, <2>5 DEF TypeOK
<1>7. ASSUME NEW r \in Ranks, PrefillSegment(r) PROVE TypeOK'
  <2>1. /\ test' = test /\ i' = i /\ j' = j /\ pairCnt' = pairCnt
       /\ hit' = hit /\ now' = now /\ sent' = sent
       /\ pairsAccessed' = pairsAccessed /\ hitLog' = hitLog /\ last' = last
       /\ touched' = touched
    BY <1>7 DEF PrefillSegment, position, history, result
  <2>2. pc' \in [Ranks -> PCs]
    BY <1>7, PCNames DEF PrefillSegment, TypeOK
  <2>3. calls' \in [Ranks -> Seq(Kinds)]
    BY <1>7, <1>3, KindNames DEF PrefillSegment, Enter
  <2>4. prefilled' \in [Ranks -> SUBSET Int]
    <3>1. prefilled' = [prefilled EXCEPT ![r] = @ \cup {i[r]}]
      BY <1>7 DEF PrefillSegment
    <3>2. i[r] \in Int
      BY <1>2
    <3>3. prefilled \in [Ranks -> SUBSET Int]
      BY DEF TypeOK
    <3> QED
      BY <3>1, <3>2, <3>3
  <2> QED
    BY <2>1, <2>2, <2>3, <2>4 DEF TypeOK
<1>8. ASSUME NEW r \in Ranks, EnterBlock(r) PROVE TypeOK'
  <2>1. /\ test' = test /\ i' = i /\ pairCnt' = pairCnt /\ hit' = hit
       /\ now' = now /\ sent' = sent /\ pairsAccessed' = pairsAccessed
       /\ calls' = calls /\ hitLog' = hitLog /\ last' = last
       /\ prefilled' = prefilled /\ touched' = touched
    BY <1>8 DEF EnterBlock, position, history, result
  <2>2. pc' \in [Ranks -> PCs]
    BY <1>8, PCNames DEF EnterBlock, TypeOK
  <2>3. j' \in [Ranks -> Nat]
    BY <1>8, <1>2 DEF EnterBlock
  <2> QED
    BY <2>1, <2>2, <2>3 DEF TypeOK
<1>9. ASSUME NEW r \in Ranks, Transfer(r) PROVE TypeOK'
  <2>1. /\ test' = test /\ i' = i /\ now' = now /\ sent' = sent
       /\ pairsAccessed' = pairsAccessed /\ prefilled' = prefilled
    BY <1>9 DEF Transfer, Access, position, history, result
  <2>2. pc' \in [Ranks -> PCs]
    BY <1>9, PCNames DEF Transfer, TypeOK
  <2>3. j' \in [Ranks -> Nat]
    BY <1>9, <1>2 DEF Transfer, Access
  <2>4. pairCnt' \in [Ranks -> Nat]
    BY <1>9 DEF Transfer, TypeOK, Access
  <2>5. hit' \in [Ranks -> BOOLEAN]
    BY <1>9, <1>2 DEF Transfer, HitStonewall
  <2>6. calls' \in [Ranks -> Seq(Kinds)]
    BY <1>9, <1>3, KindNames DEF Transfer, Enter, TransferCalls
  <2>7. hitLog' \in Seq(BOOLEAN)
    <3>1. hit'[r] \in BOOLEAN
      BY <2>5
    <3>2. hitLog' = hitLog \/ hitLog' = Append(hitLog, hit'[r])
      BY <1>9 DEF Transfer
    <3>3. Append(hitLog, hit'[r]) \in Seq(BOOLEAN)
      BY <3>1, <1>2, AppendProperties
    <3> QED
      BY <3>2, <3>3, <1>2
  <2>8. last' \in [Ranks -> Int \X Int]
    BY <1>9 DEF Transfer, TypeOK, Access
  <2>9. touched' \in SUBSET Int
    BY <1>9 DEF Transfer, TypeOK, Access
  <2> QED
    BY <2>1, <2>2, <2>3, <2>4, <2>5, <2>6, <2>7, <2>8, <2>9 DEF TypeOK
<1>10. ASSUME NEW r \in Ranks, BcastDone(r) PROVE TypeOK'
  <2>1. /\ test' = test /\ i' = i /\ j' = j /\ pairCnt' = pairCnt
       /\ now' = now /\ sent' = sent /\ pairsAccessed' = pairsAccessed
       /\ calls' = calls /\ hitLog' = hitLog /\ last' = last
       /\ prefilled' = prefilled /\ touched' = touched
    BY <1>10 DEF BcastDone, position, history, result
  <2>2. pc' \in [Ranks -> PCs]
    BY <1>10, PCNames DEF BcastDone, TypeOK
  <2>3. hit' \in [Ranks -> BOOLEAN]
    BY <1>10, <1>2, BcastValue DEF BcastDone, TypeOK
  <2> QED
    BY <2>1, <2>2, <2>3 DEF TypeOK
<1>11. ASSUME NEW r \in Ranks, LeaveBlock(r) PROVE TypeOK'
  <2>1. /\ test' = test /\ j' = j /\ pairCnt' = pairCnt /\ hit' = hit
       /\ now' = now /\ sent' = sent /\ pairsAccessed' = pairsAccessed
       /\ calls' = calls /\ hitLog' = hitLog /\ last' = last
       /\ prefilled' = prefilled /\ touched' = touched
    BY <1>11 DEF LeaveBlock, position, history, result
  <2>2. pc' \in [Ranks -> PCs]
    BY <1>11, PCNames DEF LeaveBlock, TypeOK
  <2>3. i' \in [Ranks -> Int]
    BY <1>11, <1>2 DEF LeaveBlock
  <2> QED
    BY <2>1, <2>2, <2>3 DEF TypeOK
<1>12. ASSUME NEW r \in Ranks, Repeat(r) PROVE TypeOK'
  <2>1. /\ test' = test /\ pc' = pc /\ j' = j /\ pairCnt' = pairCnt
       /\ hit' = hit /\ now' = now /\ sent' = sent
       /\ pairsAccessed' = pairsAccessed /\ calls' = calls
       /\ hitLog' = hitLog /\ last' = last /\ prefilled' = prefilled
       /\ touched' = touched
    BY <1>12 DEF Repeat, position, history, result
  <2>2. i' \in [Ranks -> Int]
    BY <1>12, <1>2 DEF Repeat
  <2> QED
    BY <2>1, <2>2 DEF TypeOK
<1>13. ASSUME NEW r \in Ranks, LeaveLoop(r) PROVE TypeOK'
  <2>1. /\ test' = test /\ i' = i /\ j' = j /\ pairCnt' = pairCnt
       /\ hit' = hit /\ now' = now /\ hitLog' = hitLog /\ last' = last
       /\ prefilled' = prefilled /\ touched' = touched
    BY <1>13 DEF LeaveLoop, position, history, result
  <2>2. pc' \in [Ranks -> PCs]
    BY <1>13, PCNames DEF LeaveLoop, TypeOK
  <2>3. sent' \in [Ranks -> Nat]
    BY <1>13 DEF LeaveLoop, TypeOK
  <2>4. pairsAccessed' \in [Ranks -> Nat]
    BY <1>13 DEF LeaveLoop, TypeOK
  <2>5. calls' \in [Ranks -> Seq(Kinds)]
    <3>1. \/ calls' = calls
          \/ calls' = [calls EXCEPT ![r] = @ \o <<"allreduce">>]
      BY <1>13 DEF LeaveLoop, Enter
    <3>2. calls[r] \o <<"allreduce">> \in Seq(Kinds)
      BY <1>3, KindNames
    <3> QED
      BY <3>1, <3>2, <1>3
  <2> QED
    BY <2>1, <2>2, <2>3, <2>4, <2>5 DEF TypeOK
<1>14. ASSUME NEW r \in Ranks, AgreeDone(r) PROVE TypeOK'
  <2>1. /\ test' = test /\ i' = i /\ j' = j /\ pairCnt' = pairCnt
       /\ hit' = hit /\ now' = now /\ sent' = sent /\ hitLog' = hitLog
       /\ last' = last /\ prefilled' = prefilled /\ touched' = touched
    BY <1>14 DEF AgreeDone, position, history, result
  <2>2. pc' \in [Ranks -> PCs]
    BY <1>14, PCNames DEF AgreeDone, TypeOK
  <2>3. pairsAccessed' \in [Ranks -> Nat]
    BY <1>14 DEF AgreeDone, TypeOK
  <2>4. calls' \in [Ranks -> Seq(Kinds)]
    BY <1>14, <1>3, KindNames DEF AgreeDone, Enter
  <2> QED
    BY <2>1, <2>2, <2>3, <2>4 DEF TypeOK
<1>15. ASSUME NEW r \in Ranks, Resume(r) PROVE TypeOK'
  <2>1. /\ test' = test /\ pairCnt' = pairCnt /\ hit' = hit /\ now' = now
       /\ sent' = sent /\ pairsAccessed' = pairsAccessed /\ calls' = calls
       /\ hitLog' = hitLog /\ last' = last /\ prefilled' = prefilled
       /\ touched' = touched
    BY <1>15 DEF Resume, position, history, result
  <2>2. pc' \in [Ranks -> PCs]
    BY <1>15, PCNames DEF Resume, TypeOK
  <2>3. i' \in [Ranks -> Int]
    BY <1>15, <1>2 DEF Resume, position
  <2>4. j' \in [Ranks -> Nat]
    <3>1. j' = j \/ j' = [j EXCEPT ![r] = 0]
      BY <1>15 DEF Resume, position
    <3> QED
      BY <3>1, <1>2
  <2>5. /\ test' \in Tests /\ hit' \in [Ranks -> BOOLEAN]
        /\ calls' \in [Ranks -> Seq(Kinds)] /\ hitLog' \in Seq(BOOLEAN)
    BY <2>1, <1>2, <1>3 DEF TypeOK
  <2>6. /\ pairCnt' \in [Ranks -> Nat] /\ now' \in [Ranks -> Nat]
        /\ sent' \in [Ranks -> Nat] /\ pairsAccessed' \in [Ranks -> Nat]
    BY <2>1 DEF TypeOK
  <2>7. /\ last' \in [Ranks -> Int \X Int] /\ prefilled' \in [Ranks -> SUBSET Int]
        /\ touched' \in SUBSET Int
    BY <2>1 DEF TypeOK
  <2> QED
    BY <2>2, <2>3, <2>4, <2>5, <2>6, <2>7 DEF TypeOK
<1>16. ASSUME NEW r \in Ranks, WearSegment(r) PROVE TypeOK'
  <2>1. /\ test' = test /\ j' = j /\ pairCnt' = pairCnt /\ hit' = hit
       /\ now' = now /\ sent' = sent /\ pairsAccessed' = pairsAccessed
       /\ calls' = calls /\ hitLog' = hitLog /\ last' = last
       /\ prefilled' = prefilled /\ touched' = touched
    BY <1>16 DEF WearSegment, position, history, result
  <2>2. pc' \in [Ranks -> PCs]
    <3>1. \E p \in PCs : pc' = [pc EXCEPT ![r] = p]
      BY <1>16, PCNames DEF WearSegment
    <3>2. pc \in [Ranks -> PCs]
      BY DEF TypeOK
    <3> QED
      BY <3>1, <3>2
  <2>3. i' \in [Ranks -> Int]
    BY <1>16, <1>2 DEF WearSegment
  <2> QED
    BY <2>1, <2>2, <2>3 DEF TypeOK
<1>17. ASSUME NEW r \in Ranks, WearTransfer(r) PROVE TypeOK'
  <2>1. /\ test' = test /\ pc' = pc /\ i' = i /\ hit' = hit /\ now' = now
       /\ sent' = sent /\ pairsAccessed' = pairsAccessed /\ hitLog' = hitLog
       /\ prefilled' = prefilled
    BY <1>17 DEF WearTransfer, Access, position, history, result
  <2>2. j' \in [Ranks -> Nat]
    BY <1>17, <1>2 DEF WearTransfer, Access
  <2>3. pairCnt' \in [Ranks -> Nat]
    BY <1>17 DEF WearTransfer, TypeOK, Access
  <2>4. calls' \in [Ranks -> Seq(Kinds)]
    BY <1>17, <1>3, KindNames DEF WearTransfer, Enter
  <2>5. last' \in [Ranks -> Int \X Int]
    BY <1>17 DEF WearTransfer, TypeOK, Access
  <2>6. touched' \in SUBSET Int
    BY <1>17 DEF WearTransfer, TypeOK, Access
  <2> QED
    BY <2>1, <2>2, <2>3, <2>4, <2>5, <2>6 DEF TypeOK
<1>18. ASSUME NEW r \in Ranks, LeaveWearBlock(r) PROVE TypeOK'
  <2>1. /\ test' = test /\ pairCnt' = pairCnt /\ hit' = hit /\ now' = now
       /\ sent' = sent /\ pairsAccessed' = pairsAccessed /\ calls' = calls
       /\ hitLog' = hitLog /\ last' = last /\ prefilled' = prefilled
       /\ touched' = touched
    BY <1>18 DEF LeaveWearBlock, position, history, result
  <2>2. pc' \in [Ranks -> PCs]
    BY <1>18, PCNames DEF LeaveWearBlock, TypeOK
  <2>3. i' \in [Ranks -> Int]
    BY <1>18, <1>2 DEF LeaveWearBlock
  <2>4. j' \in [Ranks -> Nat]
    BY <1>18, <1>2 DEF LeaveWearBlock
  <2> QED
    BY <2>1, <2>2, <2>3, <2>4 DEF TypeOK
<1>19. ASSUME NEW r \in Ranks, CountErrors(r) PROVE TypeOK'
  <2>1. /\ test' = test /\ i' = i /\ j' = j /\ pairCnt' = pairCnt
       /\ hit' = hit /\ now' = now /\ sent' = sent
       /\ pairsAccessed' = pairsAccessed /\ hitLog' = hitLog /\ last' = last
       /\ prefilled' = prefilled /\ touched' = touched
    BY <1>19 DEF CountErrors, position, history, result
  <2>2. pc' \in [Ranks -> PCs]
    BY <1>19, PCNames DEF CountErrors, TypeOK
  <2>3. calls' \in [Ranks -> Seq(Kinds)]
    <3>1. \/ calls' = calls
          \/ calls' = [calls EXCEPT ![r] = @ \o <<"errReduce">>]
          \/ calls' = [calls EXCEPT ![r] = @ \o <<"errReduce", "errBcast">>]
      BY <1>19 DEF CountErrors, Enter
    <3>2. calls[r] \o <<"errReduce">> \in Seq(Kinds) /\ calls[r] \o <<"errReduce", "errBcast">> \in Seq(Kinds)
      BY <1>3, KindNames
    <3> QED
      BY <3>1, <3>2, <1>3
  <2> QED
    BY <2>1, <2>2, <2>3 DEF TypeOK
<1>20. ASSUME NEW r \in Ranks, CountErrorsDone(r) PROVE TypeOK'
  <2>1. /\ test' = test /\ i' = i /\ j' = j /\ pairCnt' = pairCnt
       /\ hit' = hit /\ now' = now /\ sent' = sent
       /\ pairsAccessed' = pairsAccessed /\ hitLog' = hitLog /\ last' = last
       /\ prefilled' = prefilled /\ touched' = touched
    BY <1>20 DEF CountErrorsDone, position, history, result
  <2>2. pc' \in [Ranks -> PCs]
    BY <1>20, PCNames DEF CountErrorsDone, TypeOK
  <2>3. calls' \in [Ranks -> Seq(Kinds)]
    <3>1. \/ calls' = calls
          \/ calls' = [calls EXCEPT ![r] = @ \o <<"errBcast">>]
      BY <1>20 DEF CountErrorsDone, Enter
    <3>2. calls[r] \o <<"errBcast">> \in Seq(Kinds)
      BY <1>3, KindNames
    <3> QED
      BY <3>1, <3>2, <1>3
  <2> QED
    BY <2>1, <2>2, <2>3 DEF TypeOK
<1>21. CASE UNCHANGED vars
  BY <1>21 DEF vars, TypeOK
<1> QED
  BY <1>4, <1>5, <1>6, <1>7, <1>8, <1>9, <1>10, <1>11, <1>12, <1>13, <1>14, <1>15, <1>16, <1>17, <1>18, <1>19, <1>20, <1>21
     DEF Next, RankStep, Returned

----------------------------------------------------------------------------
(* Entering collectives appends to the rank's own calls only. *)
LEMMA EnterCalls ==
    ASSUME calls \in [Ranks -> Seq(Kinds)], NEW r \in Ranks,
           NEW k \in Seq(Kinds), Enter(r, k)
    PROVE  /\ \A s \in Ranks : s # r => calls'[s] = calls[s]
           /\ calls[r] \in Seq(Kinds) /\ calls'[r] \in Seq(Kinds)
           /\ Len(calls'[r]) = Len(calls[r]) + Len(k)
           /\ \A n \in 1 .. Len(calls[r]) : calls'[r][n] = calls[r][n]
           /\ \A n \in 1 .. Len(k) : calls'[r][Len(calls[r]) + n] = k[n]
<1>1. calls'[r] = calls[r] \o k /\ \A s \in Ranks : s # r => calls'[s] = calls[s]
  BY DEF Enter
<1>2. calls[r] \in Seq(Kinds)
  OBVIOUS
<1> QED
  BY <1>1, <1>2, ConcatProperties

(* A new call in calls[r] is one of those just entered. *)
LEMMA NewCall ==
    ASSUME calls \in [Ranks -> Seq(Kinds)], NEW r \in Ranks,
           NEW k \in Seq(Kinds), Enter(r, k),
           NEW n \in 1 .. Len(calls'[r]), n \notin 1 .. Len(calls[r])
    PROVE  n - Len(calls[r]) \in 1 .. Len(k) /\ calls'[r][n] = k[n - Len(calls[r])]
<1>1. Len(calls[r]) \in Nat /\ Len(k) \in Nat
  OBVIOUS
<1> DEFINE m == n - Len(calls[r])
<1>2. m \in 1 .. Len(k) /\ n = Len(calls[r]) + m
  BY <1>1, EnterCalls
<1> HIDE DEF m
<1>3. calls'[r][n] = k[m]
  BY <1>2, EnterCalls
<1> QED
  BY <1>2, <1>3 DEF m

(* To enter no collective is to leave the calls as they are. *)
LEMMA EnterNothing ==
    ASSUME calls \in [Ranks -> Seq(Kinds)], NEW r \in Ranks, calls' = calls
    PROVE  Enter(r, << >>) /\ << >> \in Seq(Kinds) /\ Len(<< >>) = 0
<1>1. calls[r] \o << >> = calls[r]
  BY ConcatEmptySeq
<1> QED
  BY <1>1 DEF Enter

(* How each action moves its rank. *)
LEMMA Shapes ==
    ASSUME TypeOK, NEW r \in Ranks
    PROVE  /\ PrefillAll(r) =>
                MovesOnly(r, "prefillWait", <<"barrier">>)
           /\ PrefillAllDone(r) =>
                MovesOnly(r, "segment", << >>)
           /\ PrefillSegment(r) =>
                MovesOnly(r, "segmentWait", <<"barrier">>)
           /\ EnterBlock(r) =>
                MovesOnly(r, "block", << >>)
           /\ BcastDone(r) =>
                MovesOnly(r, "block", << >>)
           /\ LeaveBlock(r) =>
                MovesOnly(r, "segment", << >>)
           /\ LeaveLoop(r) =>
                \/ MovesOnly(r, "agreeWait", <<"allreduce">>)
                \/ MovesOnly(r, "errors", << >>)
           /\ AgreeDone(r) =>
                MovesOnly(r, "resume", <<"reduce">>)
           /\ Resume(r) =>
                \/ MovesOnly(r, "errors", << >>)
                \/ MovesOnly(r, "wearSegment", << >>)
           /\ WearSegment(r) =>
                \/ MovesOnly(r, "wearBlock", << >>)
                \/ MovesOnly(r, "errors", << >>)
           /\ LeaveWearBlock(r) =>
                MovesOnly(r, "wearSegment", << >>)
           /\ CountErrors(r) =>
                \/ MovesOnly(r, "errorsWait", <<"errReduce">>)
                \/ MovesOnly(r, "errorsWait", <<"errReduce", "errBcast">>)
                \/ MovesOnly(r, "done", << >>)
           /\ CountErrorsDone(r) =>
                \/ MovesOnly(r, "done", <<"errBcast">>)
                \/ MovesOnly(r, "done", << >>)
<1>1. /\ calls \in [Ranks -> Seq(Kinds)]
      /\ \A k \in {<<"barrier">>, <<"allreduce">>, <<"reduce">>, <<"errReduce">>,
                   <<"errBcast">>, <<"errReduce", "errBcast">>, << >>} :
            k \in Seq(Kinds) /\ \A n \in 1 .. Len(k) :
                k[n] # "bcast" /\ (k # <<"allreduce">> => k[n] # "allreduce")
  BY KindNames DEF TypeOK
<1>2. ASSUME PrefillAll(r) PROVE MovesOnly(r, "prefillWait", <<"barrier">>)
  <2>1. test' = test /\ hitLog' = hitLog /\ pairCnt' = pairCnt
    BY <1>2 DEF PrefillAll, position, history, result
  <2>2. pc' = [pc EXCEPT ![r] = "prefillWait"] /\ Enter(r, <<"barrier">>)
    BY <1>2 DEF PrefillAll
  <2> QED
    BY <1>1, <2>1, <2>2, PCNames DEF MovesOnly, Moves
<1>3. ASSUME PrefillAllDone(r) PROVE MovesOnly(r, "segment", << >>)
  <2>1. test' = test /\ hitLog' = hitLog /\ pairCnt' = pairCnt
    BY <1>3 DEF PrefillAllDone, position, history, result
  <2>2. pc' = [pc EXCEPT ![r] = "segment"] /\ calls' = calls
    BY <1>3 DEF PrefillAllDone
  <2>3. Enter(r, << >>)
    BY <2>2, <1>1, EnterNothing
  <2> QED
    BY <1>1, <2>1, <2>2, <2>3, PCNames DEF MovesOnly, Moves
<1>4. ASSUME PrefillSegment(r) PROVE MovesOnly(r, "segmentWait", <<"barrier">>)
  <2>1. test' = test /\ hitLog' = hitLog /\ pairCnt' = pairCnt
    BY <1>4 DEF PrefillSegment, position, history, result, MoreSegments
  <2>2. pc' = [pc EXCEPT ![r] = "segmentWait"] /\ Enter(r, <<"barrier">>)
    BY <1>4 DEF PrefillSegment, MoreSegments
  <2> QED
    BY <1>1, <2>1, <2>2, PCNames DEF MovesOnly, Moves
<1>5. ASSUME EnterBlock(r) PROVE MovesOnly(r, "block", << >>)
  <2>1. test' = test /\ hitLog' = hitLog /\ pairCnt' = pairCnt
    BY <1>5 DEF EnterBlock, position, history, result, MoreSegments
  <2>2. pc' = [pc EXCEPT ![r] = "block"] /\ calls' = calls
    BY <1>5 DEF EnterBlock, MoreSegments
  <2>3. Enter(r, << >>)
    BY <2>2, <1>1, EnterNothing
  <2> QED
    BY <1>1, <2>1, <2>2, <2>3, PCNames DEF MovesOnly, Moves
<1>6. ASSUME BcastDone(r) PROVE MovesOnly(r, "block", << >>)
  <2>1. test' = test /\ hitLog' = hitLog /\ pairCnt' = pairCnt
    BY <1>6 DEF BcastDone, position, history, result
  <2>2. pc' = [pc EXCEPT ![r] = "block"] /\ calls' = calls
    BY <1>6 DEF BcastDone
  <2>3. Enter(r, << >>)
    BY <2>2, <1>1, EnterNothing
  <2> QED
    BY <1>1, <2>1, <2>2, <2>3, PCNames DEF MovesOnly, Moves
<1>7. ASSUME LeaveBlock(r) PROVE MovesOnly(r, "segment", << >>)
  <2>1. test' = test /\ hitLog' = hitLog /\ pairCnt' = pairCnt
    BY <1>7 DEF LeaveBlock, position, history, result
  <2>2. pc' = [pc EXCEPT ![r] = "segment"] /\ calls' = calls
    BY <1>7 DEF LeaveBlock
  <2>3. Enter(r, << >>)
    BY <2>2, <1>1, EnterNothing
  <2> QED
    BY <1>1, <2>1, <2>2, <2>3, PCNames DEF MovesOnly, Moves
<1>8. ASSUME LeaveLoop(r)
      PROVE  \/ MovesOnly(r, "agreeWait", <<"allreduce">>)
             \/ MovesOnly(r, "errors", << >>)
  <2>1. test' = test /\ hitLog' = hitLog /\ pairCnt' = pairCnt
    BY <1>8 DEF LeaveLoop, position, history, result
  <2>2. \/ pc' = [pc EXCEPT ![r] = "agreeWait"] /\ Enter(r, <<"allreduce">>)
        \/ pc' = [pc EXCEPT ![r] = "errors"] /\ calls' = calls
    BY <1>8 DEF LeaveLoop
  <2>3. CASE pc' = [pc EXCEPT ![r] = "agreeWait"] /\ Enter(r, <<"allreduce">>)
    BY <1>1, <2>1, <2>3, PCNames DEF MovesOnly, Moves
  <2>4. CASE pc' = [pc EXCEPT ![r] = "errors"] /\ calls' = calls
    <3>1. Enter(r, << >>)
      BY <2>4, <1>1, EnterNothing
    <3> QED
      BY <1>1, <2>1, <2>4, <3>1, PCNames DEF MovesOnly, Moves
  <2> QED
    BY <2>2, <2>3, <2>4
<1>9. ASSUME AgreeDone(r) PROVE MovesOnly(r, "resume", <<"reduce">>)
  <2>1. test' = test /\ hitLog' = hitLog /\ pairCnt' = pairCnt
    BY <1>9 DEF AgreeDone, position, history, result
  <2>2. pc' = [pc EXCEPT ![r] = "resume"] /\ Enter(r, <<"reduce">>)
    BY <1>9 DEF AgreeDone
  <2> QED
    BY <1>1, <2>1, <2>2, PCNames DEF MovesOnly, Moves
<1>10. ASSUME Resume(r)
      PROVE  \/ MovesOnly(r, "errors", << >>)
             \/ MovesOnly(r, "wearSegment", << >>)
  <2>1. test' = test /\ hitLog' = hitLog /\ pairCnt' = pairCnt
    BY <1>10 DEF Resume, position, history, result
  <2>2. \/ pc' = [pc EXCEPT ![r] = "errors"] /\ calls' = calls
        \/ pc' = [pc EXCEPT ![r] = "wearSegment"] /\ calls' = calls
    BY <1>10 DEF Resume
  <2>3. CASE pc' = [pc EXCEPT ![r] = "errors"] /\ calls' = calls
    <3>1. Enter(r, << >>)
      BY <2>3, <1>1, EnterNothing
    <3> QED
      BY <1>1, <2>1, <2>3, <3>1, PCNames DEF MovesOnly, Moves
  <2>4. CASE pc' = [pc EXCEPT ![r] = "wearSegment"] /\ calls' = calls
    <3>1. Enter(r, << >>)
      BY <2>4, <1>1, EnterNothing
    <3> QED
      BY <1>1, <2>1, <2>4, <3>1, PCNames DEF MovesOnly, Moves
  <2> QED
    BY <2>2, <2>3, <2>4
<1>11. ASSUME WearSegment(r)
      PROVE  \/ MovesOnly(r, "wearBlock", << >>)
             \/ MovesOnly(r, "errors", << >>)
  <2>1. test' = test /\ hitLog' = hitLog /\ pairCnt' = pairCnt
    BY <1>11 DEF WearSegment, position, history, result
  <2>2. \/ pc' = [pc EXCEPT ![r] = "wearBlock"] /\ calls' = calls
        \/ pc' = [pc EXCEPT ![r] = "errors"] /\ calls' = calls
    BY <1>11 DEF WearSegment
  <2>3. CASE pc' = [pc EXCEPT ![r] = "wearBlock"] /\ calls' = calls
    <3>1. Enter(r, << >>)
      BY <2>3, <1>1, EnterNothing
    <3> QED
      BY <1>1, <2>1, <2>3, <3>1, PCNames DEF MovesOnly, Moves
  <2>4. CASE pc' = [pc EXCEPT ![r] = "errors"] /\ calls' = calls
    <3>1. Enter(r, << >>)
      BY <2>4, <1>1, EnterNothing
    <3> QED
      BY <1>1, <2>1, <2>4, <3>1, PCNames DEF MovesOnly, Moves
  <2> QED
    BY <2>2, <2>3, <2>4
<1>12. ASSUME LeaveWearBlock(r) PROVE MovesOnly(r, "wearSegment", << >>)
  <2>1. test' = test /\ hitLog' = hitLog /\ pairCnt' = pairCnt
    BY <1>12 DEF LeaveWearBlock, position, history, result
  <2>2. pc' = [pc EXCEPT ![r] = "wearSegment"] /\ calls' = calls
    BY <1>12 DEF LeaveWearBlock
  <2>3. Enter(r, << >>)
    BY <2>2, <1>1, EnterNothing
  <2> QED
    BY <1>1, <2>1, <2>2, <2>3, PCNames DEF MovesOnly, Moves
<1>13. ASSUME CountErrors(r)
      PROVE  \/ MovesOnly(r, "errorsWait", <<"errReduce">>)
             \/ MovesOnly(r, "errorsWait", <<"errReduce", "errBcast">>)
             \/ MovesOnly(r, "done", << >>)
  <2>1. test' = test /\ hitLog' = hitLog /\ pairCnt' = pairCnt
    BY <1>13 DEF CountErrors, position, history, result
  <2>2. \/ pc' = [pc EXCEPT ![r] = "errorsWait"] /\ Enter(r, <<"errReduce">>)
        \/ pc' = [pc EXCEPT ![r] = "errorsWait"] /\ Enter(r, <<"errReduce", "errBcast">>)
        \/ pc' = [pc EXCEPT ![r] = "done"] /\ calls' = calls
    BY <1>13 DEF CountErrors
  <2>3. CASE pc' = [pc EXCEPT ![r] = "errorsWait"] /\ Enter(r, <<"errReduce">>)
    BY <1>1, <2>1, <2>3, PCNames DEF MovesOnly, Moves
  <2>4. CASE pc' = [pc EXCEPT ![r] = "errorsWait"] /\ Enter(r, <<"errReduce", "errBcast">>)
    BY <1>1, <2>1, <2>4, PCNames DEF MovesOnly, Moves
  <2>5. CASE pc' = [pc EXCEPT ![r] = "done"] /\ calls' = calls
    <3>1. Enter(r, << >>)
      BY <2>5, <1>1, EnterNothing
    <3> QED
      BY <1>1, <2>1, <2>5, <3>1, PCNames DEF MovesOnly, Moves
  <2> QED
    BY <2>2, <2>3, <2>4, <2>5
<1>14. ASSUME CountErrorsDone(r)
      PROVE  \/ MovesOnly(r, "done", <<"errBcast">>)
             \/ MovesOnly(r, "done", << >>)
  <2>1. test' = test /\ hitLog' = hitLog /\ pairCnt' = pairCnt
    BY <1>14 DEF CountErrorsDone, position, history, result
  <2>2. \/ pc' = [pc EXCEPT ![r] = "done"] /\ Enter(r, <<"errBcast">>)
        \/ pc' = [pc EXCEPT ![r] = "done"] /\ calls' = calls
    BY <1>14 DEF CountErrorsDone
  <2>3. CASE pc' = [pc EXCEPT ![r] = "done"] /\ Enter(r, <<"errBcast">>)
    BY <1>1, <2>1, <2>3, PCNames DEF MovesOnly, Moves
  <2>4. CASE pc' = [pc EXCEPT ![r] = "done"] /\ calls' = calls
    <3>1. Enter(r, << >>)
      BY <2>4, <1>1, EnterNothing
    <3> QED
      BY <1>1, <2>1, <2>4, <3>1, PCNames DEF MovesOnly, Moves
  <2> QED
    BY <2>2, <2>3, <2>4
<1> QED
  BY <1>2, <1>3, <1>4, <1>5, <1>6, <1>7, <1>8, <1>9, <1>10, <1>11, <1>12, <1>13, <1>14

(* How the broadcasts of a rank grow with what it enters. *)
LEMMA BcastsGrow ==
    ASSUME calls \in [Ranks -> Seq(Kinds)], NEW r \in Ranks,
           NEW k \in Seq(Kinds), Enter(r, k)
    PROVE  /\ Bcasts(calls[r]) \subseteq Bcasts(calls'[r])
           /\ (\A n \in 1 .. Len(k) : k[n] # "bcast") => Bcasts(calls'[r]) = Bcasts(calls[r])
           /\ Len(k) > 0 /\ k[Len(k)] = "bcast" /\ (\A n \in 1 .. Len(k) - 1 : k[n] # "bcast")
              => /\ calls'[r][Len(calls'[r])] = "bcast"
                 /\ Bcasts(calls'[r]) = Bcasts(calls[r]) \cup {Len(calls'[r])}
                 /\ Cardinality(Bcasts(calls'[r])) = Cardinality(Bcasts(calls[r])) + 1
<1>1. /\ calls[r] \in Seq(Kinds) /\ calls'[r] \in Seq(Kinds)
      /\ Len(calls'[r]) = Len(calls[r]) + Len(k)
      /\ Len(calls[r]) \in Nat /\ Len(k) \in Nat
      /\ \A n \in 1 .. Len(calls[r]) : calls'[r][n] = calls[r][n]
      /\ \A n \in 1 .. Len(k) : calls'[r][Len(calls[r]) + n] = k[n]
  BY EnterCalls
<1>2. Bcasts(calls[r]) \subseteq Bcasts(calls'[r])
  BY <1>1 DEF Bcasts
<1>3. ASSUME NEW n \in Bcasts(calls'[r]), n \notin Bcasts(calls[r])
      PROVE  n - Len(calls[r]) \in 1 .. Len(k) /\ k[n - Len(calls[r])] = "bcast"
  <2>1. n \in 1 .. Len(calls'[r]) /\ calls'[r][n] = "bcast"
    BY <1>3 DEF Bcasts
  <2>2. n \notin 1 .. Len(calls[r])
    BY <1>1, <1>3, <2>1 DEF Bcasts
  <2> QED
    BY <2>1, <2>2, NewCall
<1>4. ASSUME Len(k) > 0, k[Len(k)] = "bcast", \A n \in 1 .. Len(k) - 1 : k[n] # "bcast"
      PROVE  /\ calls'[r][Len(calls'[r])] = "bcast"
             /\ Bcasts(calls'[r]) = Bcasts(calls[r]) \cup {Len(calls'[r])}
             /\ Cardinality(Bcasts(calls'[r])) = Cardinality(Bcasts(calls[r])) + 1
  <2>1. calls'[r][Len(calls'[r])] = "bcast" /\ Len(calls'[r]) \in 1 .. Len(calls'[r])
    <3>1. Len(k) \in 1 .. Len(k)
      BY <1>1, <1>4
    <3>2. calls'[r][Len(calls[r]) + Len(k)] = k[Len(k)]
      BY <1>1, <3>1
    <3>3. Len(calls[r]) + Len(k) \in 1 .. Len(calls[r]) + Len(k)
      BY <1>1, <3>1
    <3> QED
      BY <1>1, <1>4, <3>2, <3>3
  <2>2. Len(calls'[r]) \in Bcasts(calls'[r]) /\ Len(calls'[r]) \notin Bcasts(calls[r])
    BY <1>1, <1>4, <2>1 DEF Bcasts
  <2>3. ASSUME NEW n \in Bcasts(calls'[r]), n \notin Bcasts(calls[r])
        PROVE  n = Len(calls'[r])
    <3>1. n - Len(calls[r]) \in 1 .. Len(k) /\ k[n - Len(calls[r])] = "bcast" /\ n \in Nat
      BY <1>3, <2>3 DEF Bcasts
    <3>2. n - Len(calls[r]) = Len(k)
      BY <1>1, <1>4, <3>1
    <3> QED
      BY <1>1, <3>1, <3>2
  <2>4. Bcasts(calls'[r]) = Bcasts(calls[r]) \cup {Len(calls'[r])}
    BY <1>2, <2>2, <2>3
  <2>5. IsFiniteSet(Bcasts(calls[r]))
    BY <1>1, BcastsFinite
  <2>6. Cardinality(Bcasts(calls[r]) \cup {Len(calls'[r])}) = Cardinality(Bcasts(calls[r])) + 1
    BY <2>2, <2>5, FS_AddElement
  <2> QED
    BY <2>1, <2>4, <2>6
<1>5. ASSUME \A n \in 1 .. Len(k) : k[n] # "bcast"
      PROVE  Bcasts(calls'[r]) = Bcasts(calls[r])
  BY <1>2, <1>3, <1>5
<1> QED
  BY <1>2, <1>4, <1>5

(* A step that broadcasts nothing keeps the broadcasts in step. *)
LEMMA BcastQuiet ==
    ASSUME TypeOK, BcastInv, NEW r \in Ranks, NEW p, NEW k, Moves(r, p, k),
           \A s \in Ranks : s # r => pairCnt'[s] = pairCnt[s],
           pc[r] = "bcastWait" => RootArrived(r),
           p \in {"prefill", "prefillWait"} => ~Broadcasts,
           p \in {"segment", "segmentWait", "block"} =>
               ~Broadcasts \/ (InMainLoop(r) /\ pairCnt'[r] = pairCnt[r])
    PROVE  BcastInv'
<1>1. /\ calls \in [Ranks -> Seq(Kinds)] /\ pc \in [Ranks -> PCs]
      /\ test' = test /\ hitLog' = hitLog /\ k \in Seq(Kinds) /\ Enter(r, k)
      /\ p # "bcastWait" /\ \A n \in 1 .. Len(k) : k[n] # "bcast"
  BY DEF TypeOK, Moves
<1>2. pc'[r] = p /\ \A s \in Ranks : s # r => pc'[s] = pc[s]
  BY <1>1 DEF Moves
<1>3. (Broadcasts' <=> Broadcasts) /\ 0 \in Ranks
  BY <1>1, RootRank DEF Broadcasts
<1>4. \A s \in Ranks : s # r => calls'[s] = calls[s]
  BY <1>1, EnterCalls
<1>5. \A s \in Ranks : Bcasts(calls'[s]) = Bcasts(calls[s])
  <2>1. Bcasts(calls'[r]) = Bcasts(calls[r])
    BY <1>1, BcastsGrow
  <2> QED
    BY <1>4, <2>1
<1>6. Broadcasts' => Len(hitLog') = Cardinality(Bcasts(calls'[0]))
  BY <1>1, <1>3, <1>5 DEF BcastInv
<1> SUFFICES ASSUME NEW s \in Ranks
    PROVE /\ pc'[s] \in {"prefill", "prefillWait"} => ~Broadcasts'
          /\ pc'[s] = "bcastWait" => /\ Broadcasts'
                                     /\ pairCnt'[s] > 0
                                     /\ calls'[s][Len(calls'[s])] = "bcast"
          /\ Broadcasts' /\ InMainLoop(s)' => pairCnt'[s] = Cardinality(Bcasts(calls'[s]))
          /\ Broadcasts' => \A n \in Bcasts(calls'[s]) :
                n \in Bcasts(calls'[0]) \/ (pc'[s] = "bcastWait" /\ n = Len(calls'[s]))
  BY <1>6 DEF BcastInv
<1>7. CASE s # r
  <2>1. /\ calls'[s] = calls[s] /\ pc'[s] = pc[s] /\ pairCnt'[s] = pairCnt[s]
        /\ InMainLoop(s)' <=> InMainLoop(s)
    BY <1>2, <1>4, <1>7 DEF InMainLoop
  <2> QED
    BY <2>1, <1>3, <1>5 DEF BcastInv
<1>8. CASE s = r
  <2>1. Broadcasts /\ InMainLoop(s)' => InMainLoop(r) /\ pairCnt'[r] = pairCnt[r]
    BY <1>1, <1>2, <1>8 DEF InMainLoop
  <2>2. ASSUME Broadcasts, NEW n \in Bcasts(calls[r]) PROVE n \in Bcasts(calls[0])
    <3>1. CASE pc[r] = "bcastWait"
      <4>1. calls[r][Len(calls[r])] = "bcast" /\ InSameCall(r, 0)
        BY <3>1 DEF BcastInv, RootArrived
      <4>2. Len(calls[r]) \in Bcasts(calls[0])
        BY <4>1 DEF InSameCall, Bcasts
      <4> QED
        BY <2>2, <4>2 DEF BcastInv
    <3>2. CASE pc[r] # "bcastWait"
      BY <2>2, <3>2 DEF BcastInv
    <3> QED
      BY <3>1, <3>2
  <2>3. Broadcasts' /\ InMainLoop(s)' => pairCnt'[s] = Cardinality(Bcasts(calls'[s]))
    BY <2>1, <1>3, <1>5, <1>8 DEF BcastInv
  <2>4. Broadcasts' => \A n \in Bcasts(calls'[s]) : n \in Bcasts(calls'[0])
    BY <2>2, <1>3, <1>5, <1>8
  <2> QED
    BY <2>3, <2>4, <1>1, <1>2, <1>3, <1>8
<1> QED
  BY <1>7, <1>8

(* Every step keeps the broadcasts in step. *)
LEMMA BcastStep == TypeOK /\ BcastInv /\ [Next]_vars => BcastInv'
<1> SUFFICES ASSUME TypeOK, BcastInv, [Next]_vars PROVE BcastInv'
  OBVIOUS
<1>1. /\ test \in Tests /\ pc \in [Ranks -> PCs] /\ calls \in [Ranks -> Seq(Kinds)]
      /\ pairCnt \in [Ranks -> Nat] /\ hitLog \in Seq(BOOLEAN)
  BY DEF TypeOK
<1>2. \A r \in Ranks : pc[r] \in {"prefill", "prefillWait"} => ~Broadcasts
  BY DEF BcastInv
<1>3. ASSUME UNCHANGED <<test, pc, calls, pairCnt, hitLog>> PROVE BcastInv'
  BY <1>3 DEF BcastInv, InMainLoop, Broadcasts
\* A rank that goes where no broadcast is pending.
<1>4. ASSUME NEW r \in Ranks, NEW p, NEW k, MovesOnly(r, p, k), pc[r] # "bcastWait",
             p \notin {"prefill", "prefillWait", "segment", "segmentWait", "block"}
      PROVE  BcastInv'
  BY <1>4, BcastQuiet DEF MovesOnly
\* A rank that stays in the main loop.
<1>5. ASSUME NEW r \in Ranks, NEW p, NEW k, MovesOnly(r, p, k), InMainLoop(r),
             pc[r] = "bcastWait" => RootArrived(r),
             p \notin {"prefill", "prefillWait"}
      PROVE  BcastInv'
  BY <1>5, BcastQuiet DEF MovesOnly
\* A rank that prefills the whole file.
<1>6. ASSUME NEW r \in Ranks, NEW p, NEW k, MovesOnly(r, p, k), ~Broadcasts,
             pc[r] # "bcastWait"
      PROVE  BcastInv'
  BY <1>6, <1>2, BcastQuiet DEF MovesOnly
<1>7. ASSUME NEW r \in Ranks, Tick(r) PROVE BcastInv'
  BY <1>3, <1>7 DEF Tick, position, history, result
<1>8. ASSUME NEW r \in Ranks, Repeat(r) PROVE BcastInv'
  BY <1>3, <1>8 DEF Repeat, position, history, result
<1>9. ASSUME NEW r \in Ranks, PrefillAll(r) PROVE BcastInv'
  BY <1>2, <1>6, <1>9, Shapes DEF PrefillAll
<1>10. ASSUME NEW r \in Ranks, PrefillAllDone(r) PROVE BcastInv'
  BY <1>2, <1>6, <1>10, Shapes DEF PrefillAllDone
<1>11. ASSUME NEW r \in Ranks, PrefillSegment(r) PROVE BcastInv'
  <2>1. /\ pc[r] = "segment" /\ InMainLoop(r)
        /\ MovesOnly(r, "segmentWait", <<"barrier">>)
    BY <1>11, Shapes DEF PrefillSegment, MoreSegments, InMainLoop
  <2> QED
    BY <1>5, <2>1
<1>12. ASSUME NEW r \in Ranks, EnterBlock(r) PROVE BcastInv'
  <2>1. InMainLoop(r) /\ MovesOnly(r, "block", << >>) /\ pc[r] # "bcastWait"
    BY <1>12, Shapes DEF EnterBlock, MoreSegments, InMainLoop
  <2> QED
    BY <1>5, <2>1
<1>13. ASSUME NEW r \in Ranks, BcastDone(r) PROVE BcastInv'
  <2>1. InMainLoop(r) /\ MovesOnly(r, "block", << >>) /\ RootArrived(r)
    BY <1>13, Shapes DEF BcastDone, InMainLoop
  <2> QED
    BY <1>5, <2>1
<1>14. ASSUME NEW r \in Ranks, LeaveBlock(r) PROVE BcastInv'
  <2>1. InMainLoop(r) /\ MovesOnly(r, "segment", << >>) /\ pc[r] # "bcastWait"
    BY <1>14, Shapes DEF LeaveBlock, InMainLoop
  <2> QED
    BY <1>5, <2>1
<1>15. ASSUME NEW r \in Ranks, LeaveLoop(r) PROVE BcastInv'
  BY <1>4, <1>15, Shapes DEF LeaveLoop
<1>16. ASSUME NEW r \in Ranks, AgreeDone(r) PROVE BcastInv'
  BY <1>4, <1>16, Shapes DEF AgreeDone
<1>17. ASSUME NEW r \in Ranks, Resume(r) PROVE BcastInv'
  BY <1>4, <1>17, Shapes DEF Resume
<1>18. ASSUME NEW r \in Ranks, WearSegment(r) PROVE BcastInv'
  BY <1>4, <1>18, Shapes DEF WearSegment
<1>19. ASSUME NEW r \in Ranks, LeaveWearBlock(r) PROVE BcastInv'
  BY <1>4, <1>19, Shapes DEF LeaveWearBlock
<1>20. ASSUME NEW r \in Ranks, CountErrors(r) PROVE BcastInv'
  BY <1>4, <1>20, Shapes DEF CountErrors
<1>21. ASSUME NEW r \in Ranks, CountErrorsDone(r) PROVE BcastInv'
  BY <1>4, <1>21, Shapes DEF CountErrorsDone
<1>22. ASSUME NEW r \in Ranks, WearTransfer(r) PROVE BcastInv'
  <2>1. /\ test' = test /\ hitLog' = hitLog /\ pc' = pc /\ pc[r] = "wearBlock"
        /\ Enter(r, IF test.collective THEN <<"xfer">> ELSE << >>)
        /\ \A s \in Ranks : s # r => pairCnt'[s] = pairCnt[s]
    BY <1>22, <1>1 DEF WearTransfer, Access
  <2>2. pc' = [pc EXCEPT ![r] = "wearBlock"]
    BY <2>1, <1>1
  <2>3. <<"xfer">> \in Seq(Kinds) /\ << >> \in Seq(Kinds) /\ "wearBlock" \in PCs
    BY KindNames, PCNames
  <2>4. CASE test.collective
    <3>1. Enter(r, <<"xfer">>)
      BY <2>1, <2>4
    <3>2. \A n \in 1 .. Len(<<"xfer">>) : <<"xfer">>[n] \notin {"bcast", "allreduce"}
      OBVIOUS
    <3>3. Moves(r, "wearBlock", <<"xfer">>)
      BY <2>1, <2>2, <2>3, <3>1, <3>2 DEF Moves
    <3> QED
      BY <2>1, <3>3, BcastQuiet
  <2>5. CASE ~test.collective
    <3>1. Enter(r, << >>)
      BY <2>1, <2>5
    <3>2. \A n \in 1 .. Len(<< >>) : << >>[n] \notin {"bcast", "allreduce"}
      OBVIOUS
    <3>3. Moves(r, "wearBlock", << >>)
      BY <2>1, <2>2, <2>3, <3>1, <3>2 DEF Moves
    <3> QED
      BY <2>1, <3>3, BcastQuiet
  <2> QED
    BY <2>4, <2>5
<1>23. ASSUME NEW r \in Ranks, Transfer(r) PROVE BcastInv'
  <2>1. /\ test' = test /\ pc[r] = "block" /\ Enter(r, TransferCalls)
        /\ pairCnt' = [pairCnt EXCEPT ![r] = @ + 1]
        /\ hitLog' = IF Broadcasts /\ r = 0 THEN Append(hitLog, hit'[r]) ELSE hitLog
        /\ pc' = IF Broadcasts /\ r # 0 THEN [pc EXCEPT ![r] = "bcastWait"] ELSE pc
    BY <1>23 DEF Transfer, Access
  <2>2. CASE ~Broadcasts
    <3>1. pc' = [pc EXCEPT ![r] = "block"] /\ hitLog' = hitLog
          /\ \A s \in Ranks : s # r => pairCnt'[s] = pairCnt[s]
      BY <2>1, <2>2, <1>1
    <3>2. "block" \in PCs /\ TransferCalls \in Seq(Kinds)
          /\ \A n \in 1 .. Len(TransferCalls) :
                TransferCalls[n] \notin {"bcast", "allreduce"}
      BY <2>2, KindNames, PCNames DEF TransferCalls
    <3>3. Moves(r, "block", TransferCalls)
      BY <2>1, <3>1, <3>2 DEF Moves
    <3> QED
      BY <2>1, <2>2, <3>1, <3>3, BcastQuiet
  <2>3. CASE Broadcasts
    <3>1. PICK k \in Seq(Kinds) : /\ TransferCalls = k /\ Len(k) > 0 /\ k[Len(k)] = "bcast"
                                  /\ \A n \in 1 .. Len(k) - 1 : k[n] # "bcast"
      <4>1. CASE test.collective
        <5> DEFINE k == <<"xfer", "bcast">>
        <5>1. /\ k \in Seq(Kinds) /\ TransferCalls = k
              /\ Len(k) = 2 /\ k[1] = "xfer" /\ k[2] = "bcast"
          BY <2>3, <4>1, KindNames DEF TransferCalls
        <5> HIDE DEF k
        <5>2. k[Len(k)] = "bcast" /\ Len(k) > 0 /\ 1 .. Len(k) - 1 = {1}
          BY <5>1
        <5>3. \A n \in 1 .. Len(k) - 1 : k[n] # "bcast"
          BY <5>1, <5>2
        <5> QED
          BY <5>1, <5>2, <5>3
      <4>2. CASE ~test.collective
        <5> DEFINE k == <<"bcast">>
        <5>1. k \in Seq(Kinds) /\ TransferCalls = k /\ Len(k) = 1 /\ k[1] = "bcast"
          BY <2>3, <4>2, KindNames DEF TransferCalls
        <5> HIDE DEF k
        <5>2. k[Len(k)] = "bcast" /\ Len(k) > 0 /\ \A n \in 1 .. Len(k) - 1 : FALSE
          BY <5>1
        <5> QED
          BY <5>1, <5>2
      <4> QED
        BY <4>1, <4>2
    <3>2. /\ calls'[r][Len(calls'[r])] = "bcast"
          /\ Bcasts(calls'[r]) = Bcasts(calls[r]) \cup {Len(calls'[r])}
          /\ Cardinality(Bcasts(calls'[r])) = Cardinality(Bcasts(calls[r])) + 1
      BY <1>1, <2>1, <3>1, BcastsGrow
    <3>3. pairCnt[r] = Cardinality(Bcasts(calls[r])) /\ pairCnt'[r] = pairCnt[r] + 1
          /\ pairCnt[r] \in Nat
      BY <1>1, <2>1, <2>3 DEF BcastInv, InMainLoop
    <3>4. \A s \in Ranks : s # r =>
             calls'[s] = calls[s] /\ pairCnt'[s] = pairCnt[s] /\ pc'[s] = pc[s]
      BY <3>1, <2>1, <1>1, EnterCalls
    <3>5. Broadcasts' /\ 0 \in Ranks
      BY <2>1, <2>3, RootRank DEF Broadcasts
    <3>6. \A n \in Bcasts(calls[r]) : n \in Bcasts(calls[0])
      BY <2>1, <2>3 DEF BcastInv
    <3>7. Bcasts(calls[0]) \subseteq Bcasts(calls'[0])
      BY <3>2, <3>4, <3>5
    <3>8. Len(hitLog') = Cardinality(Bcasts(calls'[0]))
      <4>1. Len(hitLog) = Cardinality(Bcasts(calls[0]))
        BY <2>3 DEF BcastInv
      <4>2. CASE r = 0
        <5>1. hitLog' = Append(hitLog, hit'[r])
          BY <4>2, <2>1, <2>3
        <5>2. hit'[r] \in BOOLEAN
          BY TypeStep DEF TypeOK
        <5>3. Len(hitLog') = Len(hitLog) + 1
          BY <5>1, <5>2, <1>1, AppendProperties
        <5> QED
          BY <4>1, <4>2, <5>3, <3>2
      <4>3. CASE r # 0
        BY <4>1, <4>3, <2>1, <2>3, <3>4, <3>5
      <4> QED
        BY <4>2, <4>3
    <3>9. r # 0 => pc'[r] = "bcastWait"
      BY <1>1, <2>1, <2>3
    <3>10. r = 0 => pc'[r] = "block"
      BY <2>1
    <3>11. ASSUME NEW s \in Ranks
           PROVE  /\ pc'[s] \notin {"prefill", "prefillWait"}
                  /\ pc'[s] = "bcastWait" => /\ pairCnt'[s] > 0
                                             /\ calls'[s][Len(calls'[s])] = "bcast"
                  /\ InMainLoop(s)' => pairCnt'[s] = Cardinality(Bcasts(calls'[s]))
                  /\ \A n \in Bcasts(calls'[s]) :
                        n \in Bcasts(calls'[0]) \/ (pc'[s] = "bcastWait" /\ n = Len(calls'[s]))
      <4>1. CASE s # r
        BY <4>1, <2>3, <3>4, <3>7 DEF BcastInv, InMainLoop
      <4>2. CASE s = r
        <5>1. pc'[s] \in {"block", "bcastWait"} /\ pairCnt'[s] > 0
          BY <4>2, <3>3, <3>9, <3>10
        <5>2. pairCnt'[s] = Cardinality(Bcasts(calls'[s]))
          BY <4>2, <3>2, <3>3
        <5>3. ASSUME NEW n \in Bcasts(calls'[s])
              PROVE  n \in Bcasts(calls'[0]) \/ (pc'[s] = "bcastWait" /\ n = Len(calls'[s]))
          BY <4>2, <5>3, <3>2, <3>6, <3>7, <3>9
        <5> QED
          BY <4>2, <5>1, <5>2, <5>3, <3>2
      <4> QED
        BY <4>1, <4>2
    <3> QED
      BY <3>5, <3>8, <3>11 DEF BcastInv
  <2> QED
    BY <2>2, <2>3
<1>24. CASE UNCHANGED vars
  BY <1>24, <1>3 DEF vars
<1> QED
  BY <1>7, <1>8, <1>9, <1>10, <1>11, <1>12, <1>13, <1>14, <1>15, <1>16, <1>17,
     <1>18, <1>19, <1>20, <1>21, <1>22, <1>23, <1>24, <1>3
     DEF Next, RankStep, Returned

(* At the start of the call the types hold and nothing is broadcast. *)
LEMMA TypeInit == Init => TypeOK /\ BcastInv
<1> SUFFICES ASSUME Init PROVE TypeOK /\ BcastInv
  OBVIOUS
<1>1. TypeOK
  BY PCNames, KindNames DEF Init, TypeOK, NoPosition
<1>2. BcastInv
  <2>1. Bcasts(<< >>) = {} /\ Cardinality({}) = 0 /\ 0 \in Ranks
    BY FS_EmptySet, RootRank DEF Bcasts
  <2>2. /\ test.prefill /\ test.deadline = 0 => ~Broadcasts
        /\ hitLog = << >> /\ Len(hitLog) = 0
        /\ \A r \in Ranks :
              /\ calls[r] = << >> /\ pairCnt[r] = 0
              /\ pc[r] = IF test.prefill /\ test.deadline = 0 THEN "prefill" ELSE "segment"
    BY DEF Init, Broadcasts
  <2> QED
    BY <2>1, <2>2 DEF BcastInv
<1> QED
  BY <1>1, <1>2

(* The state variables always have their types. *)
THEOREM TypeCorrect == Spec => []TypeOK
<1>1. TypeOK /\ BcastInv /\ [Next]_vars => (TypeOK /\ BcastInv)'
  BY TypeStep, BcastStep
<1> QED
  BY <1>1, TypeInit, PTL DEF Spec

----------------------------------------------------------------------------
(* A rank that entered no allreduce keeps the first part of AgreeInv. *)
LEMMA AgreeCalls ==
    ASSUME TypeOK, AgreeInv, NEW r \in Ranks, NEW k \in Seq(Kinds), Enter(r, k),
           \A n \in 1 .. Len(k) : k[n] = "allreduce" => Past(r)',
           \A s \in Ranks : Past(s) => Past(s)'
    PROVE  \A s \in Ranks : \A n \in 1 .. Len(calls'[s]) :
               calls'[s][n] = "allreduce" => Past(s)'
<1> SUFFICES ASSUME NEW s \in Ranks, NEW n \in 1 .. Len(calls'[s]),
                    calls'[s][n] = "allreduce"
             PROVE  Past(s)'
  OBVIOUS
<1>1. calls \in [Ranks -> Seq(Kinds)]
  BY DEF TypeOK
<1>2. CASE s # r
  <2>1. calls'[s] = calls[s]
    BY <1>1, <1>2, EnterCalls
  <2> QED
    BY <2>1 DEF AgreeInv
<1>3. CASE s = r /\ n \in 1 .. Len(calls[r])
  <2>1. calls'[r][n] = calls[r][n]
    BY <1>1, <1>3, EnterCalls
  <2> QED
    BY <2>1, <1>3 DEF AgreeInv
<1>4. CASE s = r /\ n \notin 1 .. Len(calls[r])
  <2>1. n \in 1 .. Len(calls'[r])
    BY <1>4
  <2>2. n - Len(calls[r]) \in 1 .. Len(k) /\ calls'[r][n] = k[n - Len(calls[r])]
    BY <1>1, <1>4, <2>1, NewCall
  <2> QED
    BY <2>2, <1>4
<1> QED
  BY <1>2, <1>3, <1>4

(* Every step keeps the agreement on the largest count. *)
LEMMA AgreeStep == TypeOK /\ BcastInv /\ AgreeInv /\ [Next]_vars => AgreeInv'
<1> SUFFICES ASSUME TypeOK, BcastInv, AgreeInv, [Next]_vars PROVE AgreeInv'
  OBVIOUS
<1>1. /\ pc \in [Ranks -> PCs] /\ calls \in [Ranks -> Seq(Kinds)]
      /\ pairCnt \in [Ranks -> Nat] /\ sent \in [Ranks -> Nat]
      /\ pairsAccessed \in [Ranks -> Nat]
  BY DEF TypeOK
<1>2. ASSUME UNCHANGED <<test, pc, calls, pairCnt, sent, pairsAccessed>>
      PROVE  AgreeInv'
  BY <1>2 DEF AgreeInv, Past, AfterAgree, Agreed
\* A rank moves before its allreduce, perhaps after a transfer.
<1>3. ASSUME NEW r \in Ranks, NEW p, NEW k \in Seq(Kinds), Enter(r, k), ~Past(r),
             pc' = [pc EXCEPT ![r] = p],
             p \notin {"agreeWait", "resume", "wearSegment", "wearBlock"} \cup Finished,
             \A n \in 1 .. Len(k) : k[n] # "allreduce",
             \A s \in Ranks : s # r => pairCnt'[s] = pairCnt[s],
             UNCHANGED <<test, sent, pairsAccessed>>
      PROVE  AgreeInv'
  <2>1. pc'[r] = p /\ \A s \in Ranks : s # r => pc'[s] = pc[s]
    BY <1>1, <1>3
  <2>2. \A s \in Ranks : s # r => calls'[s] = calls[s]
    BY <1>1, <1>3, EnterCalls
  <2>3. ~Past(r)' /\ \A s \in Ranks : s # r => (Past(s)' <=> Past(s))
    BY <2>1, <1>3 DEF Past, AfterAgree
  <2>4. \A s \in Ranks : \A n \in 1 .. Len(calls'[s]) :
            calls'[s][n] = "allreduce" => Past(s)'
    BY <1>3, <2>3, AgreeCalls
  <2>5. \A q \in Ranks : ~(AfterAgree(q)' /\ test'.wearOut)
    <3> SUFFICES ASSUME NEW q \in Ranks, AfterAgree(q)', test'.wearOut PROVE FALSE
      OBVIOUS
    <3>1. q # r /\ AfterAgree(q) /\ test.wearOut
      BY <1>3, <2>1, <2>3 DEF Past, AfterAgree
    <3> QED
      BY <3>1, <1>3 DEF AgreeInv, Agreed
  <2> QED
    BY <1>3, <2>1, <2>2, <2>4, <2>5 DEF AgreeInv, AfterAgree
\* A rank moves after its allreduce.
<1>4. ASSUME NEW r \in Ranks, NEW p, NEW k, Moves(r, p, k), AfterAgree(r),
             p \in {"resume", "wearSegment", "wearBlock"} \cup Finished,
             \A s \in Ranks : s # r => pairCnt'[s] = pairCnt[s],
             UNCHANGED <<test, sent, pairsAccessed>>,
             p \in {"resume", "wearSegment", "wearBlock"} =>
                 test.wearOut /\ pairCnt'[r] <= pairsAccessed[r],
             p \in Finished => pairCnt'[r] = pairsAccessed[r]
      PROVE  AgreeInv'
  <2>1. pc'[r] = p /\ (\A s \in Ranks : s # r => pc'[s] = pc[s])
        /\ k \in Seq(Kinds) /\ Enter(r, k)
        /\ \A n \in 1 .. Len(k) : k[n] # "allreduce"
    BY <1>1, <1>4 DEF Moves, Finished
  <2>2. \A s \in Ranks : s # r => calls'[s] = calls[s]
    BY <1>1, <2>1, EnterCalls
  <2>3. \A s \in Ranks : (Past(s)' <=> Past(s)) /\ (AfterAgree(s)' <=> AfterAgree(s))
    BY <2>1, <1>4 DEF Past, AfterAgree
  <2>4. \A s \in Ranks : \A n \in 1 .. Len(calls'[s]) :
            calls'[s][n] = "allreduce" => Past(s)'
    BY <2>1, <2>3, AgreeCalls
  <2>5. \A q \in Ranks : AfterAgree(q)' /\ test'.wearOut => Agreed(q)'
    BY <1>4, <2>3 DEF AgreeInv, Agreed
  <2>6. p # "agreeWait"
    BY <1>4 DEF Finished
  <2> QED
    BY <1>4, <2>1, <2>2, <2>4, <2>5, <2>6 DEF AgreeInv
<1>5. ASSUME NEW r \in Ranks, Tick(r) PROVE AgreeInv'
  BY <1>2, <1>5 DEF Tick, position, history, result
<1>6. ASSUME NEW r \in Ranks, Repeat(r) PROVE AgreeInv'
  BY <1>2, <1>6 DEF Repeat, position, history, result
<1>7. ASSUME NEW r \in Ranks, PrefillAll(r) PROVE AgreeInv'
  <2>1. ~Past(r) /\ UNCHANGED <<sent, pairsAccessed>>
    BY <1>7 DEF PrefillAll, MoreSegments, Past, AfterAgree, Finished, result
  <2>2. MovesOnly(r, "prefillWait", <<"barrier">>)
    BY <1>7, Shapes
  <2> QED
    BY <1>3, <2>1, <2>2 DEF MovesOnly, Moves, Finished
<1>8. ASSUME NEW r \in Ranks, PrefillAllDone(r) PROVE AgreeInv'
  <2>1. ~Past(r) /\ UNCHANGED <<sent, pairsAccessed>>
    BY <1>8 DEF PrefillAllDone, MoreSegments, Past, AfterAgree, Finished, result
  <2>2. MovesOnly(r, "segment", << >>)
    BY <1>8, Shapes
  <2> QED
    BY <1>3, <2>1, <2>2 DEF MovesOnly, Moves, Finished
<1>9. ASSUME NEW r \in Ranks, PrefillSegment(r) PROVE AgreeInv'
  <2>1. ~Past(r) /\ UNCHANGED <<sent, pairsAccessed>>
    BY <1>9 DEF PrefillSegment, MoreSegments, Past, AfterAgree, Finished, result
  <2>2. MovesOnly(r, "segmentWait", <<"barrier">>)
    BY <1>9, Shapes
  <2> QED
    BY <1>3, <2>1, <2>2 DEF MovesOnly, Moves, Finished
<1>10. ASSUME NEW r \in Ranks, EnterBlock(r) PROVE AgreeInv'
  <2>1. ~Past(r) /\ UNCHANGED <<sent, pairsAccessed>>
    BY <1>10 DEF EnterBlock, MoreSegments, Past, AfterAgree, Finished, result
  <2>2. MovesOnly(r, "block", << >>)
    BY <1>10, Shapes
  <2> QED
    BY <1>3, <2>1, <2>2 DEF MovesOnly, Moves, Finished
<1>11. ASSUME NEW r \in Ranks, BcastDone(r) PROVE AgreeInv'
  <2>1. ~Past(r) /\ UNCHANGED <<sent, pairsAccessed>>
    BY <1>11 DEF BcastDone, MoreSegments, Past, AfterAgree, Finished, result
  <2>2. MovesOnly(r, "block", << >>)
    BY <1>11, Shapes
  <2> QED
    BY <1>3, <2>1, <2>2 DEF MovesOnly, Moves, Finished
<1>12. ASSUME NEW r \in Ranks, LeaveBlock(r) PROVE AgreeInv'
  <2>1. ~Past(r) /\ UNCHANGED <<sent, pairsAccessed>>
    BY <1>12 DEF LeaveBlock, MoreSegments, Past, AfterAgree, Finished, result
  <2>2. MovesOnly(r, "segment", << >>)
    BY <1>12, Shapes
  <2> QED
    BY <1>3, <2>1, <2>2 DEF MovesOnly, Moves, Finished
<1>13. ASSUME NEW r \in Ranks, Transfer(r) PROVE AgreeInv'
  <2>1. /\ test' = test /\ pc[r] = "block" /\ Enter(r, TransferCalls)
        /\ pairCnt' = [pairCnt EXCEPT ![r] = @ + 1]
        /\ pc' = IF Broadcasts /\ r # 0 THEN [pc EXCEPT ![r] = "bcastWait"] ELSE pc
        /\ UNCHANGED <<sent, pairsAccessed>>
    BY <1>13 DEF Transfer, Access, result
  <2>2. /\ ~Past(r) /\ \A s \in Ranks : s # r => pairCnt'[s] = pairCnt[s]
        /\ pc' = [pc EXCEPT ![r] = "bcastWait"] \/ pc' = [pc EXCEPT ![r] = "block"]
    BY <2>1, <1>1 DEF Past, AfterAgree, Finished
  <2>3. TransferCalls \in Seq(Kinds)
        /\ \A n \in 1 .. Len(TransferCalls) : TransferCalls[n] # "allreduce"
    BY KindNames DEF TransferCalls
  <2> QED
    BY <1>3, <2>1, <2>2, <2>3 DEF Finished
<1>14. ASSUME NEW r \in Ranks, Resume(r) PROVE AgreeInv'
  <2>1. /\ pc[r] = "resume" /\ AfterAgree(r)
        /\ UNCHANGED <<test, pairCnt, sent, pairsAccessed>>
    BY <1>14 DEF Resume, AfterAgree, Finished, result
  <2>2. pc'[r] = "errors" => pairCnt[r] = pairsAccessed[r]
    BY <1>14, <1>1, <2>1 DEF Resume, AgreeInv
  <2>3. CASE MovesOnly(r, "errors", << >>)
    <3>1. Moves(r, "errors", << >>) /\ pc'[r] = "errors"
      BY <2>3, <1>1 DEF MovesOnly, Moves
    <3> QED
      BY <1>4, <2>1, <2>2, <3>1 DEF AgreeInv, Finished
  <2>4. CASE MovesOnly(r, "wearSegment", << >>)
    <3>1. Moves(r, "wearSegment", << >>) /\ pc'[r] = "wearSegment"
      BY <2>4, <1>1 DEF MovesOnly, Moves
    <3> QED
      BY <1>4, <2>1, <2>2, <3>1 DEF AgreeInv, Finished
  <2> QED
    BY <1>14, Shapes, <2>3, <2>4
<1>15. ASSUME NEW r \in Ranks, WearSegment(r) PROVE AgreeInv'
  <2>1. /\ pc[r] = "wearSegment" /\ AfterAgree(r)
        /\ UNCHANGED <<test, pairCnt, sent, pairsAccessed>>
    BY <1>15 DEF WearSegment, AfterAgree, Finished, result
  <2>2. pc'[r] = "errors" => pairCnt[r] = pairsAccessed[r]
    BY <1>15, <1>1, <2>1 DEF WearSegment, AgreeInv
  <2>3. CASE MovesOnly(r, "wearBlock", << >>)
    <3>1. Moves(r, "wearBlock", << >>) /\ pc'[r] = "wearBlock"
      BY <2>3, <1>1 DEF MovesOnly, Moves
    <3> QED
      BY <1>4, <2>1, <2>2, <3>1 DEF AgreeInv, Finished
  <2>4. CASE MovesOnly(r, "errors", << >>)
    <3>1. Moves(r, "errors", << >>) /\ pc'[r] = "errors"
      BY <2>4, <1>1 DEF MovesOnly, Moves
    <3> QED
      BY <1>4, <2>1, <2>2, <3>1 DEF AgreeInv, Finished
  <2> QED
    BY <1>15, Shapes, <2>3, <2>4
<1>16. ASSUME NEW r \in Ranks, LeaveWearBlock(r) PROVE AgreeInv'
  <2>1. /\ pc[r] = "wearBlock" /\ AfterAgree(r)
        /\ UNCHANGED <<test, pairCnt, sent, pairsAccessed>>
    BY <1>16 DEF LeaveWearBlock, AfterAgree, Finished, result
  <2>2. pc'[r] # "errors"
    BY <1>16, <1>1 DEF LeaveWearBlock
  <2>3. CASE MovesOnly(r, "wearSegment", << >>)
    <3>1. Moves(r, "wearSegment", << >>) /\ pc'[r] = "wearSegment"
      BY <2>3, <1>1 DEF MovesOnly, Moves
    <3> QED
      BY <1>4, <2>1, <2>2, <3>1 DEF AgreeInv, Finished
  <2> QED
    BY <1>16, Shapes, <2>3
<1>17. ASSUME NEW r \in Ranks, CountErrors(r) PROVE AgreeInv'
  <2>1. /\ pc[r] = "errors" /\ AfterAgree(r)
        /\ UNCHANGED <<test, pairCnt, sent, pairsAccessed>>
    BY <1>17 DEF CountErrors, AfterAgree, Finished, result
  <2>2. pairCnt[r] = pairsAccessed[r]
    BY <2>1 DEF AgreeInv, Finished
  <2>3. CASE MovesOnly(r, "errorsWait", <<"errReduce">>)
    <3>1. Moves(r, "errorsWait", <<"errReduce">>) /\ pc'[r] = "errorsWait"
      BY <2>3, <1>1 DEF MovesOnly, Moves
    <3> QED
      BY <1>4, <2>1, <2>2, <3>1 DEF AgreeInv, Finished
  <2>4. CASE MovesOnly(r, "errorsWait", <<"errReduce", "errBcast">>)
    <3>1. Moves(r, "errorsWait", <<"errReduce", "errBcast">>) /\ pc'[r] = "errorsWait"
      BY <2>4, <1>1 DEF MovesOnly, Moves
    <3> QED
      BY <1>4, <2>1, <2>2, <3>1 DEF AgreeInv, Finished
  <2>5. CASE MovesOnly(r, "done", << >>)
    <3>1. Moves(r, "done", << >>) /\ pc'[r] = "done"
      BY <2>5, <1>1 DEF MovesOnly, Moves
    <3> QED
      BY <1>4, <2>1, <2>2, <3>1 DEF AgreeInv, Finished
  <2> QED
    BY <1>17, Shapes, <2>3, <2>4, <2>5
<1>18. ASSUME NEW r \in Ranks, CountErrorsDone(r) PROVE AgreeInv'
  <2>1. /\ pc[r] = "errorsWait" /\ AfterAgree(r)
        /\ UNCHANGED <<test, pairCnt, sent, pairsAccessed>>
    BY <1>18 DEF CountErrorsDone, AfterAgree, Finished, result
  <2>2. pairCnt[r] = pairsAccessed[r]
    BY <2>1 DEF AgreeInv, Finished
  <2>3. CASE MovesOnly(r, "done", <<"errBcast">>)
    <3>1. Moves(r, "done", <<"errBcast">>) /\ pc'[r] = "done"
      BY <2>3, <1>1 DEF MovesOnly, Moves
    <3> QED
      BY <1>4, <2>1, <2>2, <3>1 DEF AgreeInv, Finished
  <2>4. CASE MovesOnly(r, "done", << >>)
    <3>1. Moves(r, "done", << >>) /\ pc'[r] = "done"
      BY <2>4, <1>1 DEF MovesOnly, Moves
    <3> QED
      BY <1>4, <2>1, <2>2, <3>1 DEF AgreeInv, Finished
  <2> QED
    BY <1>18, Shapes, <2>3, <2>4
<1>19. ASSUME NEW r \in Ranks, WearTransfer(r) PROVE AgreeInv'
  <2>1. /\ pc[r] = "wearBlock" /\ AfterAgree(r) /\ pairCnt[r] < pairsAccessed[r]
        /\ UNCHANGED <<test, sent, pairsAccessed, hitLog>>
        /\ pc' = [pc EXCEPT ![r] = "wearBlock"]
        /\ Enter(r, IF test.collective THEN <<"xfer">> ELSE << >>)
        /\ pairCnt' = [pairCnt EXCEPT ![r] = @ + 1]
    BY <1>19, <1>1 DEF WearTransfer, Access, AfterAgree, result
  <2>2. test.wearOut /\ pairCnt'[r] <= pairsAccessed[r]
        /\ \A s \in Ranks : s # r => pairCnt'[s] = pairCnt[s]
    BY <2>1, <1>1 DEF AgreeInv
  <2>3. \E k \in {<<"xfer">>, << >>} : Moves(r, "wearBlock", k)
    <3>1. /\ <<"xfer">> \in Seq(Kinds) /\ << >> \in Seq(Kinds) /\ "wearBlock" \in PCs
          /\ \A n \in 1 .. Len(<<"xfer">>) : <<"xfer">>[n] \notin {"bcast", "allreduce"}
          /\ \A n \in 1 .. Len(<< >>) : << >>[n] \notin {"bcast", "allreduce"}
      BY KindNames, PCNames
    <3>2. Enter(r, <<"xfer">>) \/ Enter(r, << >>)
      BY <2>1
    <3> QED
      BY <2>1, <3>1, <3>2 DEF Moves
  <2> QED
    BY <1>4, <2>1, <2>2, <2>3 DEF Finished
<1>20. ASSUME NEW r \in Ranks, AgreeDone(r) PROVE AgreeInv'
  <2>1. /\ pc[r] = "agreeWait" /\ AllArrived(r)
        /\ UNCHANGED <<test, pairCnt, sent>>
    BY <1>20 DEF AgreeDone, result
  <2>2. PICK top \in Ranks :
          /\ \A s \in Ranks : sent[s] <= sent[top]
          /\ pairsAccessed' = [pairsAccessed EXCEPT ![r] = sent[top]]
    BY <1>20 DEF AgreeDone
  <2>3. MovesOnly(r, "resume", <<"reduce">>)
    BY <1>20, Shapes
  <2>4. /\ pc'[r] = "resume" /\ (\A s \in Ranks : s # r => pc'[s] = pc[s])
        /\ <<"reduce">> \in Seq(Kinds) /\ Enter(r, <<"reduce">>)
        /\ \A n \in 1 .. Len(<<"reduce">>) : <<"reduce">>[n] # "allreduce"
    BY <2>3, <1>1 DEF MovesOnly, Moves
  <2>5. \A s \in Ranks : Past(s)' <=> Past(s)
    BY <2>1, <2>4 DEF Past, AfterAgree
  <2>6. \A s \in Ranks : Past(s)
    BY <2>1 DEF AllArrived, InSameCall, AgreeInv
  <2>7. pairsAccessed'[r] = sent[top]
        /\ \A s \in Ranks : s # r => pairsAccessed'[s] = pairsAccessed[s]
    BY <2>2, <1>1
  <2>8. Agreed(r)'
    BY <2>1, <2>2, <2>5, <2>6, <2>7 DEF Agreed
  <2>9. \A q \in Ranks : AfterAgree(q)' /\ test'.wearOut => Agreed(q)'
    <3> SUFFICES ASSUME NEW q \in Ranks, q # r, AfterAgree(q)', test'.wearOut
                 PROVE  Agreed(q)'
      BY <2>8
    <3>1. AfterAgree(q) /\ test.wearOut
      BY <2>1, <2>4 DEF AfterAgree
    <3> QED
      BY <3>1, <2>1, <2>5, <2>7 DEF AgreeInv, Agreed
  <2>10. test.wearOut /\ pairCnt[r] <= sent[top]
    BY <2>1, <2>2 DEF AgreeInv
  <2>11. \A s \in Ranks : \A n \in 1 .. Len(calls'[s]) :
            calls'[s][n] = "allreduce" => Past(s)'
    BY <2>4, <2>5, AgreeCalls
  <2>12. \A s \in Ranks : s # r => calls'[s] = calls[s]
    BY <1>1, <2>4, EnterCalls
  <2> QED
    BY <2>1, <2>4, <2>7, <2>9, <2>10, <2>11, <2>12 DEF AgreeInv, Finished
<1>21. ASSUME NEW r \in Ranks, LeaveLoop(r) PROVE AgreeInv'
  <2>1. ~Past(r) /\ UNCHANGED <<test, pairCnt>>
    BY <1>21 DEF LeaveLoop, Past, AfterAgree, Finished
  <2>2. \A q \in Ranks : ~(AfterAgree(q) /\ test.wearOut)
    BY <2>1 DEF AgreeInv, Agreed
  <2>3. CASE test.wearOut
    <3>1. MovesOnly(r, "agreeWait", <<"allreduce">>) /\ UNCHANGED pairsAccessed
          /\ sent' = [sent EXCEPT ![r] = pairCnt[r]]
      <4>1. Enter(r, <<"allreduce">>) /\ pc' = [pc EXCEPT ![r] = "agreeWait"]
            /\ UNCHANGED <<pairsAccessed, hitLog>>
            /\ sent' = [sent EXCEPT ![r] = pairCnt[r]]
        BY <1>21, <2>3 DEF LeaveLoop
      <4>2. <<"allreduce">> \in Seq(Kinds) /\ "agreeWait" \in PCs
            /\ \A n \in 1 .. Len(<<"allreduce">>) : <<"allreduce">>[n] # "bcast"
        BY KindNames, PCNames
      <4> QED
        BY <4>1, <4>2, <2>1 DEF MovesOnly, Moves
    <3>2. /\ pc'[r] = "agreeWait" /\ (\A s \in Ranks : s # r => pc'[s] = pc[s])
          /\ <<"allreduce">> \in Seq(Kinds) /\ Enter(r, <<"allreduce">>)
          /\ sent'[r] = pairCnt[r] /\ (\A s \in Ranks : s # r => sent'[s] = sent[s])
      BY <3>1, <1>1, KindNames DEF MovesOnly, Moves
    <3>3. Past(r)' /\ \A s \in Ranks : (Past(s) => Past(s)')
                                       /\ (AfterAgree(s)' => AfterAgree(s))
      BY <3>2 DEF Past, AfterAgree, Finished
    <3>4. \A s \in Ranks : \A n \in 1 .. Len(calls'[s]) :
              calls'[s][n] = "allreduce" => Past(s)'
      BY <3>2, <3>3, AgreeCalls
    <3>5. Len(calls'[r]) > 0 /\ calls'[r][Len(calls'[r])] = "allreduce"
      <4> DEFINE k == <<"allreduce">>
      <4>1. k \in Seq(Kinds) /\ Len(k) = 1 /\ k[1] = "allreduce" /\ Enter(r, k)
        BY <3>2
      <4> HIDE DEF k
      <4>2. Len(calls[r]) \in Nat /\ Len(calls'[r]) = Len(calls[r]) + Len(k)
            /\ \A n \in 1 .. Len(k) : calls'[r][Len(calls[r]) + n] = k[n]
        <5>1. calls[r] \in Seq(Kinds) /\ k \in Seq(Kinds) /\ Enter(r, k)
          BY <4>1, <1>1
        <5>2. calls \in [Ranks -> Seq(Kinds)]
          BY <1>1
        <5> QED
          BY <5>1, <5>2, EnterCalls
      <4> QED
        BY <4>1, <4>2
    <3>6. \A s \in Ranks : s # r => calls'[s] = calls[s]
      BY <1>1, <3>2, EnterCalls
    <3> QED
      BY <2>1, <2>2, <2>3, <3>1, <3>2, <3>3, <3>4, <3>5, <3>6
         DEF AgreeInv, Finished
  <2>4. CASE ~test.wearOut
    <3>1. MovesOnly(r, "errors", << >>) /\ UNCHANGED sent
          /\ pairsAccessed' = [pairsAccessed EXCEPT ![r] = pairCnt[r]]
      <4>1. calls' = calls /\ pc' = [pc EXCEPT ![r] = "errors"]
            /\ UNCHANGED <<sent, hitLog>>
            /\ pairsAccessed' = [pairsAccessed EXCEPT ![r] = pairCnt[r]]
        BY <1>21, <2>4 DEF LeaveLoop
      <4>2. Enter(r, << >>) /\ << >> \in Seq(Kinds) /\ "errors" \in PCs
            /\ \A n \in 1 .. Len(<< >>) : << >>[n] \notin {"bcast", "allreduce"}
        BY <4>1, <1>1, EnterNothing, PCNames
      <4> QED
        BY <4>1, <4>2, <2>1 DEF MovesOnly, Moves
    <3>2. /\ pc'[r] = "errors" /\ (\A s \in Ranks : s # r => pc'[s] = pc[s])
          /\ << >> \in Seq(Kinds) /\ Enter(r, << >>)
          /\ pairsAccessed'[r] = pairCnt[r]
          /\ \A s \in Ranks : s # r => pairsAccessed'[s] = pairsAccessed[s]
      BY <3>1, <1>1 DEF MovesOnly, Moves
    <3>3. Past(r)' /\ \A s \in Ranks : Past(s) => Past(s)'
      BY <3>2 DEF Past, AfterAgree, Finished
    <3>4. \A s \in Ranks : \A n \in 1 .. Len(calls'[s]) :
              calls'[s][n] = "allreduce" => Past(s)'
      BY <3>2, <3>3, AgreeCalls
    <3>5. \A s \in Ranks : s # r => calls'[s] = calls[s]
      BY <1>1, <3>2, EnterCalls
    <3> QED
      BY <2>1, <2>4, <3>1, <3>2, <3>4, <3>5 DEF AgreeInv, Finished
  <2> QED
    BY <2>3, <2>4
<1>22. CASE UNCHANGED vars
  BY <1>22, <1>2 DEF vars
<1> QED
  BY <1>5, <1>6, <1>7, <1>8, <1>9, <1>10, <1>11, <1>12, <1>13,
     <1>14, <1>15, <1>16, <1>17, <1>18, <1>19, <1>20, <1>21, <1>22, <1>2
     DEF Next, RankStep, Returned

(* After the wear-out a finished rank has done as much as any rank ever    *)
(* will, and reports what it did: the stonewalling promise of ior.c.       *)
THEOREM EqualWorkHolds == Spec => []EqualWork
<1>1. Init => TypeOK /\ BcastInv /\ AgreeInv
  <2> SUFFICES ASSUME Init PROVE AgreeInv
    BY TypeInit
  <2> QED
    BY DEF Init, AgreeInv, AfterAgree, Finished
<1>2. TypeOK /\ BcastInv /\ AgreeInv /\ [Next]_vars => (TypeOK /\ BcastInv /\ AgreeInv)'
  BY TypeStep, BcastStep, AgreeStep
<1>3. TypeOK /\ AgreeInv => EqualWork
  <2> SUFFICES ASSUME TypeOK, AgreeInv, NEW r \in Ranks, pc[r] \in Finished
               PROVE  /\ pairsAccessed[r] = pairCnt[r]
                      /\ test.wearOut => \A s \in Ranks : pairCnt[s] <= pairCnt[r]
    BY DEF EqualWork
  <2>1. pairsAccessed[r] = pairCnt[r]
    BY DEF AgreeInv
  <2>2. ASSUME test.wearOut, NEW s \in Ranks PROVE pairCnt[s] <= pairCnt[r]
    <3>1. Agreed(r)
      BY <2>2 DEF AgreeInv, AfterAgree
    <3>2. /\ pairCnt[s] \in Nat /\ pairsAccessed[s] \in Nat /\ sent[s] \in Nat
          /\ pairCnt[r] \in Nat
      BY DEF TypeOK
    <3>3. CASE pc[s] = "agreeWait"
      BY <2>1, <3>1, <3>2, <3>3 DEF AgreeInv, Agreed
    <3>4. CASE AfterAgree(s)
      <4>1. pairCnt[s] <= pairsAccessed[s]
        BY <3>2, <3>4 DEF AgreeInv, AfterAgree
      <4>2. \E top \in Ranks : sent[top] = pairsAccessed[s]
        BY <2>2, <3>4 DEF AgreeInv, Agreed
      <4>3. pairsAccessed[s] <= pairsAccessed[r]
        BY <3>1, <4>2 DEF Agreed
      <4> QED
        BY <2>1, <3>2, <4>1, <4>3
    <3> QED
      BY <3>1, <3>3, <3>4 DEF Agreed, Past
  <2> QED
    BY <2>1, <2>2
<1> QED
  BY <1>1, <1>2, <1>3, PTL DEF Spec

----------------------------------------------------------------------------
(* A step of one rank leaves the others' variables alone. *)
LEMMA OthersUntouched ==
    ASSUME TypeOK, NEW r \in Ranks, RankStep(r) \/ Tick(r), NEW s \in Ranks, s # r
    PROVE  /\ test' = test /\ pc'[s] = pc[s] /\ i'[s] = i[s] /\ j'[s] = j[s]
           /\ pairCnt'[s] = pairCnt[s] /\ hit'[s] = hit[s] /\ now'[s] = now[s]
           /\ sent'[s] = sent[s] /\ pairsAccessed'[s] = pairsAccessed[s]
           /\ last'[s] = last[s]
<1> DEFINE Goal == /\ test' = test /\ pc'[s] = pc[s] /\ i'[s] = i[s] /\ j'[s] = j[s]
                   /\ pairCnt'[s] = pairCnt[s] /\ hit'[s] = hit[s] /\ now'[s] = now[s]
                   /\ sent'[s] = sent[s] /\ pairsAccessed'[s] = pairsAccessed[s]
                   /\ last'[s] = last[s]
<1>1. /\ pc \in [Ranks -> PCs] /\ i \in [Ranks -> Int] /\ j \in [Ranks -> Nat]
      /\ pairCnt \in [Ranks -> Nat] /\ hit \in [Ranks -> BOOLEAN]
      /\ now \in [Ranks -> Nat] /\ sent \in [Ranks -> Nat]
      /\ pairsAccessed \in [Ranks -> Nat] /\ last \in [Ranks -> Int \X Int]
  BY DEF TypeOK
<1>2. CASE Tick(r)
  BY <1>1, <1>2 DEF Tick, position, history, result
<1>3. CASE PrefillAll(r)
  BY <1>1, <1>3 DEF PrefillAll, position, history, result
<1>4. CASE PrefillAllDone(r)
  BY <1>1, <1>4 DEF PrefillAllDone, position, history, result
<1>5. CASE PrefillSegment(r)
  BY <1>1, <1>5 DEF PrefillSegment, position, history, result
<1>6. CASE EnterBlock(r)
  BY <1>1, <1>6 DEF EnterBlock, position, history, result
<1>7. CASE Transfer(r)
  BY <1>1, <1>7 DEF Transfer, Access, position, history, result
<1>8. CASE BcastDone(r)
  BY <1>1, <1>8 DEF BcastDone, position, history, result
<1>9. CASE LeaveBlock(r)
  BY <1>1, <1>9 DEF LeaveBlock, position, history, result
<1>10. CASE Repeat(r)
  BY <1>1, <1>10 DEF Repeat, position, history, result
<1>11. CASE LeaveLoop(r)
  BY <1>1, <1>11 DEF LeaveLoop, position, history, result
<1>12. CASE AgreeDone(r)
  BY <1>1, <1>12 DEF AgreeDone, position, history, result
<1>13. CASE Resume(r)
  BY <1>1, <1>13 DEF Resume, position, history, result
<1>14. CASE WearSegment(r)
  BY <1>1, <1>14 DEF WearSegment, position, history, result
<1>15. CASE WearTransfer(r)
  BY <1>1, <1>15 DEF WearTransfer, Access, position, history, result
<1>16. CASE LeaveWearBlock(r)
  BY <1>1, <1>16 DEF LeaveWearBlock, position, history, result
<1>17. CASE CountErrors(r)
  BY <1>1, <1>17 DEF CountErrors, position, history, result
<1>18. CASE CountErrorsDone(r)
  BY <1>1, <1>18 DEF CountErrorsDone, position, history, result
<1> QED
  BY <1>2, <1>3, <1>4, <1>5, <1>6, <1>7, <1>8, <1>9, <1>10,
     <1>11, <1>12, <1>13, <1>14, <1>15, <1>16, <1>17, <1>18 DEF RankStep

(* Every step keeps the bound on the transfers of a phase. *)
LEMMA WithinStep ==
    TypeOK /\ BcastInv /\ AgreeInv /\ WithinInv /\ [Next]_vars => WithinInv'
<1> SUFFICES ASSUME TypeOK, BcastInv, AgreeInv, WithinInv, [Next]_vars PROVE WithinInv'
  OBVIOUS
<1>1. /\ pc \in [Ranks -> PCs] /\ pairCnt \in [Ranks -> Nat]
      /\ sent \in [Ranks -> Nat] /\ pairsAccessed \in [Ranks -> Nat]
      /\ hit \in [Ranks -> BOOLEAN] /\ hitLog \in Seq(BOOLEAN)
      /\ test.iterations \in [Ranks -> Nat] /\ 0 \in Ranks
      /\ test \in Tests
  BY TestType, RootRank DEF TypeOK
<1>2. ASSUME UNCHANGED <<test, pc, pairCnt, sent, hit, hitLog>> PROVE WithinInv'
  BY <1>2 DEF WithinInv
\* A rank moves without a transfer, and into the loop only from inside it.
<1>3. ASSUME NEW r \in Ranks, NEW p, NEW k, MovesOnly(r, p, k),
             UNCHANGED <<sent, hit>>,
             p \in {"segment", "segmentWait", "block"} =>
                 \/ pc[r] \in {"segment", "segmentWait", "block"}
                 \/ pc[r] = "prefillWait",
             p \in {"prefill", "prefillWait"} => pc[r] = "prefill"
      PROVE  WithinInv'
  <2>1. /\ pc'[r] = p /\ \A s \in Ranks : s # r => pc'[s] = pc[s]
        /\ UNCHANGED <<test, pairCnt, hitLog, sent, hit>>
    BY <1>1, <1>3 DEF MovesOnly, Moves
  <2> QED
    BY <1>3, <2>1 DEF WithinInv
<1>4. ASSUME NEW r \in Ranks, Tick(r) PROVE WithinInv'
  BY <1>2, <1>4 DEF Tick, position, history, result
<1>5. ASSUME NEW r \in Ranks, Repeat(r) PROVE WithinInv'
  BY <1>2, <1>5 DEF Repeat, position, history, result
<1>6. ASSUME NEW r \in Ranks, PrefillAll(r) PROVE WithinInv'
  <2>1. pc[r] = "prefill" /\ UNCHANGED <<sent, hit>>
    BY <1>6 DEF PrefillAll, result
  <2> QED
    BY <1>6, <1>3, <2>1, Shapes
<1>7. ASSUME NEW r \in Ranks, PrefillAllDone(r) PROVE WithinInv'
  <2>1. pc[r] = "prefillWait" /\ UNCHANGED <<sent, hit>>
    BY <1>7 DEF PrefillAllDone, result
  <2> QED
    BY <1>7, <1>3, <2>1, Shapes
<1>8. ASSUME NEW r \in Ranks, PrefillSegment(r) PROVE WithinInv'
  <2>1. pc[r] = "segment" /\ UNCHANGED <<sent, hit>>
    BY <1>8 DEF PrefillSegment, result, MoreSegments
  <2> QED
    BY <1>8, <1>3, <2>1, Shapes
<1>9. ASSUME NEW r \in Ranks, LeaveBlock(r) PROVE WithinInv'
  <2>1. pc[r] = "block" /\ UNCHANGED <<sent, hit>>
    BY <1>9 DEF LeaveBlock, result
  <2> QED
    BY <1>9, <1>3, <2>1, Shapes
<1>10. ASSUME NEW r \in Ranks, AgreeDone(r) PROVE WithinInv'
  <2>1. pc[r] = "agreeWait" /\ UNCHANGED <<sent, hit>>
    BY <1>10 DEF AgreeDone, result
  <2> QED
    BY <1>10, <1>3, <2>1, Shapes
<1>11. ASSUME NEW r \in Ranks, Resume(r) PROVE WithinInv'
  <2>1. pc[r] = "resume" /\ UNCHANGED <<sent, hit>>
    BY <1>11 DEF Resume, result
  <2> QED
    BY <1>11, <1>3, <2>1, Shapes
<1>12. ASSUME NEW r \in Ranks, WearSegment(r) PROVE WithinInv'
  <2>1. pc[r] = "wearSegment" /\ UNCHANGED <<sent, hit>>
    BY <1>12 DEF WearSegment, result
  <2> QED
    BY <1>12, <1>3, <2>1, Shapes
<1>13. ASSUME NEW r \in Ranks, LeaveWearBlock(r) PROVE WithinInv'
  <2>1. pc[r] = "wearBlock" /\ UNCHANGED <<sent, hit>>
    BY <1>13 DEF LeaveWearBlock, result
  <2> QED
    BY <1>13, <1>3, <2>1, Shapes
<1>14. ASSUME NEW r \in Ranks, CountErrors(r) PROVE WithinInv'
  <2>1. pc[r] = "errors" /\ UNCHANGED <<sent, hit>>
    BY <1>14 DEF CountErrors, result
  <2> QED
    BY <1>14, <1>3, <2>1, Shapes
<1>15. ASSUME NEW r \in Ranks, CountErrorsDone(r) PROVE WithinInv'
  <2>1. pc[r] = "errorsWait" /\ UNCHANGED <<sent, hit>>
    BY <1>15 DEF CountErrorsDone, result
  <2> QED
    BY <1>15, <1>3, <2>1, Shapes
<1>16. ASSUME NEW r \in Ranks, EnterBlock(r) PROVE WithinInv'
  <2>1. pc[r] \in {"segment", "segmentWait"} /\ UNCHANGED <<sent, hit>>
    BY <1>16 DEF EnterBlock, MoreSegments, result
  <2> QED
    BY <1>16, <1>3, <2>1, Shapes
<1>17. ASSUME NEW r \in Ranks, LeaveLoop(r) PROVE WithinInv'
  <2>1. /\ pc[r] = "segment" /\ UNCHANGED <<test, pairCnt, hit, hitLog>>
        /\ pc' = [pc EXCEPT ![r] = "agreeWait"] \/ pc' = [pc EXCEPT ![r] = "errors"]
        /\ sent' = sent \/ sent' = [sent EXCEPT ![r] = pairCnt[r]]
    BY <1>17 DEF LeaveLoop
  <2> QED
    BY <1>1, <2>1 DEF WithinInv
<1>18. ASSUME NEW r \in Ranks, BcastDone(r) PROVE WithinInv'
  <2>1. /\ UNCHANGED <<test, pairCnt, sent, hitLog>>
        /\ hit' = [hit EXCEPT ![r] = hitLog[pairCnt[r]]]
        /\ pc' = [pc EXCEPT ![r] = "block"]
    BY <1>18 DEF BcastDone, result
  <2>2. pairCnt[r] \in 1 .. Len(hitLog)
    BY <1>18, BcastValue
  <2>a. test.iterations[r] = test.iterations[0]
    <3>1. Broadcasts
      BY <1>18 DEF BcastDone, BcastInv
    <3> QED
      BY <1>1, <3>1, SameLimit DEF Broadcasts
  <2>3. test.iterations[r] # 0 /\ pairCnt[r] = test.iterations[r] => hit'[r]
    BY <1>1, <2>1, <2>2, <2>a DEF WithinInv
  <2>4. \A s \in Ranks : s # r => pc'[s] = pc[s] /\ hit'[s] = hit[s]
    BY <1>1, <2>1
  <2>5. pc'[r] = "block"
    BY <1>1, <2>1
  <2> QED
    BY <2>1, <2>3, <2>4, <2>5 DEF WithinInv
<1>19. ASSUME NEW r \in Ranks, WearTransfer(r) PROVE WithinInv'
  <2>1. /\ pc[r] = "wearBlock" /\ pairCnt[r] < pairsAccessed[r]
        /\ UNCHANGED <<test, pc, sent, hit, hitLog>>
        /\ pairCnt' = [pairCnt EXCEPT ![r] = @ + 1]
    BY <1>19 DEF WearTransfer, Access, result
  <2>2. test.iterations[r] # 0 => pairCnt[r] + 1 <= test.iterations[r]
    <3>1. test.wearOut /\ \E s \in Ranks : sent[s] = pairsAccessed[r]
      BY <2>1 DEF AgreeInv, AfterAgree, Agreed
    <3>2. PICK s \in Ranks : sent[s] = pairsAccessed[r]
      BY <3>1
    <3>3. test.iterations[s] = test.iterations[r]
      BY <1>1, <3>1, SameLimit
    <3> QED
      BY <1>1, <2>1, <3>2, <3>3 DEF WithinInv
  <2> QED
    BY <1>1, <2>1, <2>2 DEF WithinInv
<1>20. ASSUME NEW r \in Ranks, Transfer(r) PROVE WithinInv'
  <2>1. /\ pc[r] = "block" /\ ~hit[r] /\ UNCHANGED <<test, sent, now>>
        /\ pairCnt' = [pairCnt EXCEPT ![r] = @ + 1]
        /\ hit' = [hit EXCEPT ![r] = HitStonewall(r, pairCnt'[r])]
        /\ hitLog' = IF Broadcasts /\ r = 0 THEN Append(hitLog, hit'[r]) ELSE hitLog
        /\ pc' = IF Broadcasts /\ r # 0 THEN [pc EXCEPT ![r] = "bcastWait"] ELSE pc
    BY <1>20 DEF Transfer, Access, result
  <2>2. pairCnt'[r] = pairCnt[r] + 1 /\ hit'[r] = HitStonewall(r, pairCnt'[r])
        /\ pc'[r] \in {"block", "bcastWait"}
    BY <1>1, <2>1
  <2>3. \A s \in Ranks : s # r =>
            pairCnt'[s] = pairCnt[s] /\ hit'[s] = hit[s] /\ pc'[s] = pc[s]
    BY <1>1, <2>1
  <2>4. test.iterations[r] # 0 /\ pairCnt'[r] = test.iterations[r] => hit'[r] = TRUE
    BY <2>2 DEF HitStonewall
  <2>5. test.iterations[r] # 0 => pairCnt'[r] <= test.iterations[r]
    BY <1>1, <2>1, <2>2 DEF WithinInv
  <2>6. test.iterations[0] # 0 /\ test.iterations[0] <= Len(hitLog') =>
            hitLog'[test.iterations[0]] = TRUE
    <3>1. CASE hitLog' = hitLog
      BY <3>1 DEF WithinInv
    <3>2. CASE hitLog' # hitLog
      <4>1. Broadcasts /\ r = 0 /\ hitLog' = Append(hitLog, hit'[r])
        BY <2>1, <3>2
      <4>2. Len(hitLog) = pairCnt[r]
        BY <1>1, <2>1, <4>1 DEF BcastInv, InMainLoop
      <4>3. hit'[r] \in BOOLEAN
        BY TypeStep DEF TypeOK
      <4>4. /\ Len(hitLog') = Len(hitLog) + 1 /\ hitLog'[Len(hitLog) + 1] = hit'[r]
            /\ \A n \in 1 .. Len(hitLog) : hitLog'[n] = hitLog[n]
        BY <4>1, <4>3, <1>1, AppendProperties
      <4>5. Len(hitLog) \in Nat
        BY <1>1
      <4>6. CASE test.iterations[0] = Len(hitLog) + 1
        BY <1>1, <2>2, <2>4, <4>1, <4>2, <4>4, <4>6
      <4>7. CASE test.iterations[0] # 0 /\ test.iterations[0] <= Len(hitLog)
        BY <1>1, <4>4, <4>5, <4>7 DEF WithinInv
      <4>8. test.iterations[0] <= Len(hitLog') =>
               test.iterations[0] = Len(hitLog) + 1 \/ test.iterations[0] <= Len(hitLog)
        <5>1. Len(hitLog') = Len(hitLog) + 1 /\ test.iterations[0] \in Nat
          BY <1>1, <4>4
        <5> QED
          BY <5>1, <4>5
      <4> QED
        BY <4>6, <4>7, <4>8
    <3> QED
      BY <3>1, <3>2
  <2>7. \A s \in Ranks : s # r /\ test.iterations[s] # 0 =>
            /\ pairCnt'[s] <= test.iterations[s] /\ sent'[s] <= test.iterations[s]
            /\ pc'[s] \in {"segment", "segmentWait", "block"}
                  /\ pairCnt'[s] = test.iterations[s] => hit'[s]
            /\ pc'[s] \in {"prefill", "prefillWait"} => pairCnt'[s] = 0
    BY <2>1, <2>3 DEF WithinInv
  <2>8. test.iterations[r] # 0 =>
            /\ pairCnt'[r] <= test.iterations[r] /\ sent'[r] <= test.iterations[r]
            /\ pc'[r] \in {"segment", "segmentWait", "block"}
                  /\ pairCnt'[r] = test.iterations[r] => hit'[r]
            /\ pc'[r] \notin {"prefill", "prefillWait"}
    <3>1. test.iterations[r] # 0 => sent'[r] <= test.iterations[r]
      BY <2>1 DEF WithinInv
    <3>2. pc'[r] \notin {"prefill", "prefillWait"}
      BY <2>2
    <3> QED
      BY <3>1, <3>2, <2>4, <2>5
  <2>9. \A s \in Ranks : test.iterations[s] # 0 =>
            /\ pairCnt'[s] <= test.iterations[s] /\ sent'[s] <= test.iterations[s]
            /\ pc'[s] \in {"segment", "segmentWait", "block"}
                  /\ pairCnt'[s] = test.iterations[s] => hit'[s]
            /\ pc'[s] \in {"prefill", "prefillWait"} => pairCnt'[s] = 0
    BY <2>7, <2>8
  <2>10. test' = test
    BY <2>1
  <2> QED
    BY <2>6, <2>9, <2>10 DEF WithinInv
<1>21. CASE UNCHANGED vars
  BY <1>21, <1>2 DEF vars
<1> QED
  BY <1>4, <1>5, <1>6, <1>7, <1>8, <1>9, <1>10, <1>11, <1>12,
     <1>13, <1>14, <1>15, <1>16, <1>17, <1>18, <1>19, <1>20, <1>21, <1>2
     DEF Next, RankStep, Returned

(* At the start of the call nobody has agreed on a count yet. *)
LEMMA AgreeInit == Init => AgreeInv
BY DEF Init, AgreeInv, AfterAgree, Finished

(* At the start of the call no transfer is done, whatever the limit. *)
LEMMA WithinInit == Init => WithinInv
<1> SUFFICES ASSUME Init PROVE WithinInv
  OBVIOUS
<1>1. test.iterations \in [Ranks -> Nat] /\ 0 \in Ranks
  BY TestType, RootRank DEF Init
<1> QED
  BY <1>1 DEF Init, WithinInv

(* No rank accesses more than the iterations it was given: a read-back     *)
(* does not run past what the write phase has written.                     *)
THEOREM WithinIterationsHolds == Spec => []WithinIterations
<1> DEFINE IInv == TypeOK /\ BcastInv /\ AgreeInv /\ WithinInv
<1>1. IInv /\ [Next]_vars => IInv'
  BY TypeStep, BcastStep, AgreeStep, WithinStep
<1>2. Init => IInv
  BY TypeInit, AgreeInit, WithinInit
<1>3. IInv => WithinIterations
  BY DEF WithinInv, WithinIterations
<1> QED
  BY <1>1, <1>2, <1>3, PTL DEF Spec
----------------------------------------------------------------------------
(* The options whose combination loses a rank's place. *)
OrderSafe == \A t \in Tests : ~CollectiveRepeat(t) /\ ~SpinsPastStonewall(t)

(* A rank that does not move keeps its place. *)
LEMMA OrderFrame ==
    ASSUME NEW s \in Ranks, OrderAt(s), test' = test, pc'[s] = pc[s],
           i'[s] = i[s], j'[s] = j[s], pairCnt'[s] = pairCnt[s],
           hit'[s] = hit[s], now'[s] = now[s],
           pairsAccessed'[s] = pairsAccessed[s], last'[s] = last[s]
    PROVE  OrderAt(s)'
BY DEF OrderAt, StoppedAt, NextIs, LastWas, Following, AllIterations, InMainLoop, Broadcasts

(* Every step of a rank keeps its place in the cyclic order. *)
LEMMA OrderStep ==
    ASSUME OrderSafe, TypeOK, BcastInv, AgreeInv, WithinInv, OrderInv, NEW r \in Ranks,
           RankStep(r) \/ Tick(r)
    PROVE  OrderAt(r)'
<1>1. /\ pc \in [Ranks -> PCs] /\ i \in [Ranks -> Int] /\ j \in [Ranks -> Nat]
      /\ pairCnt \in [Ranks -> Nat] /\ hit \in [Ranks -> BOOLEAN]
      /\ now \in [Ranks -> Nat] /\ sent \in [Ranks -> Nat]
      /\ pairsAccessed \in [Ranks -> Nat] /\ last \in [Ranks -> Int \X Int]
  BY DEF TypeOK
<1>2. /\ test.segmentCount \in Nat \ {0} /\ test.offsets[r] \in Nat
      /\ test.deadline \in Nat /\ test.minTime \in Nat
      /\ test.iterations \in [Ranks -> Nat] /\ test \in Tests
      /\ test.wearOut => test.deadline # 0 /\ test.minTime <= test.deadline
      /\ Broadcasts => test.minTime = 0
  <2>1. test \in Tests
    BY DEF TypeOK
  <2> QED
    BY <2>1, TestType DEF OrderSafe, CollectiveRepeat, InStep, Broadcasts, SpinsPastStonewall, ValidTest
<1>3. OrderAt(r)
  BY DEF OrderInv
<1>4. /\ i[r] \in Int /\ j[r] \in Nat /\ pairCnt[r] \in Nat
      /\ now[r] \in Nat /\ pairsAccessed[r] \in Nat
  BY <1>1
<1>5. CASE Tick(r)
  <2>1. /\ test' = test /\ pc'[r] = pc[r] /\ i'[r] = i[r] /\ j'[r] = j[r]
        /\ pairCnt'[r] = pairCnt[r] /\ hit'[r] = hit[r]
        /\ now'[r] = now[r] + 1 /\ pairsAccessed'[r] = pairsAccessed[r]
        /\ last'[r] = last[r]
    BY <1>1, <1>5 DEF Tick, position, history, result
  <2> QED
    BY <1>2, <1>3, <1>4, <2>1 DEF OrderAt, StoppedAt, NextIs, LastWas, Following, AllIterations, InMainLoop, Broadcasts
<1>6. CASE PrefillAll(r)
  <2>1. /\ test' = test /\ pc'[r] = "prefillWait" /\ i'[r] = i[r]
        /\ j'[r] = j[r] /\ pairCnt'[r] = pairCnt[r] /\ hit'[r] = hit[r]
        /\ now'[r] = now[r] /\ pairsAccessed'[r] = pairsAccessed[r]
        /\ last'[r] = last[r]
    BY <1>1, <1>6 DEF PrefillAll, position, history, result
  <2>2. pc[r] = "prefill"
    BY <1>6 DEF PrefillAll
  <2> QED
    BY <1>2, <1>3, <1>4, <2>1, <2>2 DEF OrderAt, StoppedAt, NextIs, LastWas, Following, AllIterations, InMainLoop, Broadcasts
<1>7. CASE PrefillAllDone(r)
  <2>1. /\ test' = test /\ pc'[r] = "segment" /\ i'[r] = i[r]
        /\ j'[r] = j[r] /\ pairCnt'[r] = pairCnt[r] /\ hit'[r] = hit[r]
        /\ now'[r] = now[r] /\ pairsAccessed'[r] = pairsAccessed[r]
        /\ last'[r] = last[r]
    BY <1>1, <1>7 DEF PrefillAllDone, position, history, result
  <2>2. pc[r] = "prefillWait"
    BY <1>7 DEF PrefillAllDone
  <2> QED
    BY <1>2, <1>3, <1>4, <2>1, <2>2 DEF OrderAt, StoppedAt, NextIs, LastWas, Following, AllIterations, InMainLoop, Broadcasts
<1>8. CASE PrefillSegment(r)
  <2>1. /\ test' = test /\ pc'[r] = "segmentWait" /\ i'[r] = i[r]
        /\ j'[r] = j[r] /\ pairCnt'[r] = pairCnt[r] /\ hit'[r] = hit[r]
        /\ now'[r] = now[r] /\ pairsAccessed'[r] = pairsAccessed[r]
        /\ last'[r] = last[r]
    BY <1>1, <1>8 DEF PrefillSegment, position, history, result
  <2>2. pc[r] = "segment" /\ i[r] < test.segmentCount /\ ~hit[r]
    BY <1>8 DEF PrefillSegment, MoreSegments
  <2>3. test.offsets[r] > 0 => i[r] \in 0 .. test.segmentCount - 1 /\ NextIs(r, i[r], 0)
    BY <1>2, <1>3, <1>4, <2>2 DEF OrderAt, StoppedAt, NextIs, LastWas, Following, AllIterations, InMainLoop, Broadcasts
  <2> QED
    BY <1>2, <1>3, <1>4, <2>1, <2>2, <2>3 DEF OrderAt, StoppedAt, NextIs, LastWas, Following, AllIterations, InMainLoop, Broadcasts
<1>9. CASE EnterBlock(r)
  <2>1. /\ test' = test /\ pc'[r] = "block" /\ i'[r] = i[r] /\ j'[r] = 0
        /\ pairCnt'[r] = pairCnt[r] /\ hit'[r] = hit[r] /\ now'[r] = now[r]
        /\ pairsAccessed'[r] = pairsAccessed[r] /\ last'[r] = last[r]
    BY <1>1, <1>9 DEF EnterBlock, position, history, result
  <2>2. /\ pc[r] \in {"segment", "segmentWait"}
        /\ pc[r] = "segment" => i[r] < test.segmentCount /\ ~hit[r]
    BY <1>9 DEF EnterBlock, MoreSegments
  <2>3. test.offsets[r] > 0 => i[r] \in 0 .. test.segmentCount - 1 /\ NextIs(r, i[r], 0)
                               /\ ~hit[r]
    BY <1>2, <1>3, <1>4, <2>2 DEF OrderAt, StoppedAt, NextIs, LastWas, Following, AllIterations, InMainLoop, Broadcasts
  <2> QED
    BY <1>2, <1>3, <1>4, <2>1, <2>2, <2>3 DEF OrderAt, StoppedAt, NextIs, LastWas, Following, AllIterations, InMainLoop, Broadcasts
<1>10. CASE Transfer(r)
  <2>1. /\ test' = test /\ i'[r] = i[r] /\ j'[r] = j[r] + 1
        /\ pairCnt'[r] = pairCnt[r] + 1
        /\ hit'[r] = HitStonewall(r, pairCnt[r] + 1) /\ now'[r] = now[r]
        /\ pairsAccessed'[r] = pairsAccessed[r]
        /\ last'[r] = <<i[r], j[r]>>
        /\ pc'[r] \in {"block", "bcastWait"}
    BY <1>1, <1>10 DEF Transfer, Access, position, history, result
  <2>2. pc[r] = "block" /\ j[r] < test.offsets[r] /\ ~hit[r]
    BY <1>10 DEF Transfer
  <2>3. hit'[r] => \/ test'.deadline # 0 /\ now'[r] > test'.deadline
                   \/ AllIterations(r)'
    BY <2>1 DEF HitStonewall, AllIterations
  <2> QED
    BY <1>2, <1>3, <1>4, <2>1, <2>2, <2>3 DEF OrderAt, StoppedAt, NextIs, LastWas, Following, AllIterations, InMainLoop, Broadcasts
<1>11. CASE BcastDone(r)
  <2>1. /\ test' = test /\ pc'[r] = "block" /\ i'[r] = i[r] /\ j'[r] = j[r]
        /\ pairCnt'[r] = pairCnt[r] /\ now'[r] = now[r]
        /\ pairsAccessed'[r] = pairsAccessed[r] /\ last'[r] = last[r]
    BY <1>1, <1>11 DEF BcastDone, position, history, result
  <2>2. pc[r] = "bcastWait" /\ Broadcasts
    BY <1>11 DEF BcastDone, BcastInv
  <2> QED
    BY <1>2, <1>3, <1>4, <2>1, <2>2 DEF OrderAt, StoppedAt, NextIs, LastWas, Following, AllIterations, InMainLoop, Broadcasts
<1>12. CASE LeaveBlock(r)
  <2>1. /\ test' = test /\ pc'[r] = "segment" /\ i'[r] = i[r] + 1
        /\ j'[r] = j[r] /\ pairCnt'[r] = pairCnt[r] /\ hit'[r] = hit[r]
        /\ now'[r] = now[r] /\ pairsAccessed'[r] = pairsAccessed[r]
        /\ last'[r] = last[r]
    BY <1>1, <1>12 DEF LeaveBlock, position, history, result
  <2>2. pc[r] = "block" /\ (j[r] >= test.offsets[r] \/ hit[r])
    BY <1>12 DEF LeaveBlock
  <2> QED
    BY <1>2, <1>3, <1>4, <2>1, <2>2 DEF OrderAt, StoppedAt, NextIs, LastWas, Following, AllIterations, InMainLoop, Broadcasts
<1>13. CASE Repeat(r)
  <2>1. /\ test' = test /\ pc'[r] = pc[r] /\ i'[r] = 0 /\ j'[r] = j[r]
        /\ pairCnt'[r] = pairCnt[r] /\ hit'[r] = hit[r] /\ now'[r] = now[r]
        /\ pairsAccessed'[r] = pairsAccessed[r] /\ last'[r] = last[r]
    BY <1>1, <1>13 DEF Repeat, position, history, result
  <2>2. /\ pc[r] = "segment" /\ (i[r] >= test.segmentCount \/ hit[r])
        /\ now[r] < test.minTime
    BY <1>2, <1>4, <1>13 DEF Repeat, MoreSegments
  <2>3. test.offsets[r] > 0 /\ ~hit[r] => LastWas(r, test.segmentCount - 1, test.offsets[r] - 1)
    BY <1>2, <1>3, <1>4, <2>2 DEF OrderAt, StoppedAt, NextIs, LastWas, Following, AllIterations, InMainLoop, Broadcasts
  <2> QED
    BY <1>2, <1>3, <1>4, <2>1, <2>2, <2>3 DEF OrderAt, StoppedAt, NextIs, LastWas, Following, AllIterations, InMainLoop, Broadcasts
<1>14. CASE LeaveLoop(r)
  <2>1. /\ test' = test /\ i'[r] = i[r] /\ j'[r] = j[r]
        /\ pairCnt'[r] = pairCnt[r] /\ hit'[r] = hit[r] /\ now'[r] = now[r]
        /\ last'[r] = last[r]
        /\ pc'[r] \in {"agreeWait", "errors"}
        /\ pc'[r] = "agreeWait" => test.wearOut
    BY <1>1, <1>14 DEF LeaveLoop, position, history, result
  <2>2. /\ pc[r] = "segment" /\ (i[r] >= test.segmentCount \/ hit[r])
    BY <1>2, <1>4, <1>14 DEF LeaveLoop, MoreSegments
  <2> QED
    BY <1>2, <1>3, <1>4, <2>1, <2>2 DEF OrderAt, StoppedAt, NextIs, LastWas, Following, AllIterations, InMainLoop, Broadcasts
<1>15. CASE AgreeDone(r)
  <2>1. /\ test' = test /\ pc'[r] = "resume" /\ i'[r] = i[r]
        /\ j'[r] = j[r] /\ pairCnt'[r] = pairCnt[r] /\ hit'[r] = hit[r]
        /\ now'[r] = now[r] /\ last'[r] = last[r]
    BY <1>1, <1>15 DEF AgreeDone, position, history, result
  <2>2. pc[r] = "agreeWait"
    BY <1>15 DEF AgreeDone
  <2> QED
    BY <1>2, <1>3, <1>4, <2>1, <2>2 DEF OrderAt, StoppedAt, NextIs, LastWas, Following, AllIterations, InMainLoop, Broadcasts
<1>16. CASE Resume(r)
  <2>1. /\ test' = test /\ pairCnt'[r] = pairCnt[r] /\ hit'[r] = hit[r]
        /\ now'[r] = now[r] /\ pairsAccessed'[r] = pairsAccessed[r]
        /\ last'[r] = last[r]
        /\ \/ pc'[r] = "errors"
           \/ /\ pc'[r] = "wearSegment" /\ pairCnt[r] # pairsAccessed[r]
              /\ IF j[r] = test.offsets[r] THEN j'[r] = 0 /\ i'[r] = i[r]
                                            ELSE i'[r] = i[r] - 1 /\ j'[r] = j[r]
    BY <1>1, <1>16 DEF Resume, position, history, result
  <2>2. pc[r] = "resume"
    BY <1>16 DEF Resume
  <2>3. pairCnt[r] # pairsAccessed[r] => ~AllIterations(r)
    <3>1. /\ pairCnt[r] <= pairsAccessed[r]
          /\ test.wearOut /\ \E s \in Ranks : sent[s] = pairsAccessed[r]
      BY <2>2 DEF AgreeInv, AfterAgree, Agreed
    <3>2. test.iterations[r] # 0 => pairsAccessed[r] <= test.iterations[r]
      <4>1. PICK s \in Ranks : sent[s] = pairsAccessed[r]
        BY <3>1
      <4>2. test.iterations[s] = test.iterations[r]
        BY <3>1, SameLimit DEF TypeOK
      <4> QED
        BY <4>1, <4>2 DEF WithinInv
    <3> QED
      BY <1>2, <1>4, <3>1, <3>2 DEF AllIterations
  <2> QED
    BY <1>2, <1>3, <1>4, <2>1, <2>2, <2>3 DEF OrderAt, StoppedAt, NextIs, LastWas, Following, AllIterations, InMainLoop, Broadcasts
<1>17. CASE WearSegment(r)
  <2>1. /\ test' = test /\ j'[r] = j[r] /\ pairCnt'[r] = pairCnt[r]
        /\ hit'[r] = hit[r] /\ now'[r] = now[r]
        /\ pairsAccessed'[r] = pairsAccessed[r] /\ last'[r] = last[r]
        /\ \/ pc'[r] = "errors"
           \/ /\ pc'[r] = "wearBlock" /\ pairCnt[r] < pairsAccessed[r]
              /\ i'[r] = IF i[r] = test.segmentCount THEN 0 ELSE i[r]
    BY <1>1, <1>17 DEF WearSegment, position, history, result
  <2>2. pc[r] = "wearSegment"
    BY <1>17 DEF WearSegment
  <2> QED
    BY <1>2, <1>3, <1>4, <2>1, <2>2 DEF OrderAt, StoppedAt, NextIs, LastWas, Following, AllIterations, InMainLoop, Broadcasts
<1>18. CASE WearTransfer(r)
  <2>1. /\ test' = test /\ pc'[r] = pc[r] /\ i'[r] = i[r]
        /\ j'[r] = j[r] + 1 /\ pairCnt'[r] = pairCnt[r] + 1
        /\ hit'[r] = hit[r] /\ now'[r] = now[r]
        /\ pairsAccessed'[r] = pairsAccessed[r]
        /\ last'[r] = <<i[r], j[r]>>
    BY <1>1, <1>18 DEF WearTransfer, Access, position, history, result
  <2>2. pc[r] = "wearBlock" /\ j[r] < test.offsets[r]
    BY <1>18 DEF WearTransfer
  <2> QED
    BY <1>2, <1>3, <1>4, <2>1, <2>2 DEF OrderAt, StoppedAt, NextIs, LastWas, Following, AllIterations, InMainLoop, Broadcasts
<1>19. CASE LeaveWearBlock(r)
  <2>1. /\ test' = test /\ pc'[r] = "wearSegment" /\ i'[r] = i[r] + 1
        /\ j'[r] = 0 /\ pairCnt'[r] = pairCnt[r] /\ hit'[r] = hit[r]
        /\ now'[r] = now[r] /\ pairsAccessed'[r] = pairsAccessed[r]
        /\ last'[r] = last[r]
    BY <1>1, <1>19 DEF LeaveWearBlock, position, history, result
  <2>2. pc[r] = "wearBlock" /\ (j[r] >= test.offsets[r] \/ pairCnt[r] >= pairsAccessed[r])
    BY <1>19 DEF LeaveWearBlock
  <2> QED
    BY <1>2, <1>3, <1>4, <2>1, <2>2 DEF OrderAt, StoppedAt, NextIs, LastWas, Following, AllIterations, InMainLoop, Broadcasts
<1>20. CASE CountErrors(r)
  <2>1. /\ test' = test /\ i'[r] = i[r] /\ j'[r] = j[r]
        /\ pairCnt'[r] = pairCnt[r] /\ hit'[r] = hit[r] /\ now'[r] = now[r]
        /\ pairsAccessed'[r] = pairsAccessed[r] /\ last'[r] = last[r]
        /\ pc'[r] \in {"errorsWait", "done"}
    BY <1>1, <1>20 DEF CountErrors, position, history, result
  <2> QED
    BY <1>2, <1>3, <1>4, <2>1 DEF OrderAt, StoppedAt, NextIs, LastWas, Following, AllIterations, InMainLoop, Broadcasts
<1>21. CASE CountErrorsDone(r)
  <2>1. /\ test' = test /\ pc'[r] = "done" /\ i'[r] = i[r] /\ j'[r] = j[r]
        /\ pairCnt'[r] = pairCnt[r] /\ hit'[r] = hit[r] /\ now'[r] = now[r]
        /\ pairsAccessed'[r] = pairsAccessed[r] /\ last'[r] = last[r]
    BY <1>1, <1>21 DEF CountErrorsDone, position, history, result
  <2> QED
    BY <1>2, <1>3, <1>4, <2>1 DEF OrderAt, StoppedAt, NextIs, LastWas, Following, AllIterations, InMainLoop, Broadcasts
<1> QED
  BY <1>5, <1>6, <1>7, <1>8, <1>9, <1>10, <1>11, <1>12, <1>13,
     <1>14, <1>15, <1>16, <1>17, <1>18, <1>19, <1>20, <1>21 DEF RankStep

(* Every step keeps every rank's place. *)
LEMMA OrderInvStep ==
    ASSUME OrderSafe, TypeOK, BcastInv, AgreeInv, WithinInv, OrderInv, [Next]_vars
    PROVE  OrderInv'
<1>1. CASE UNCHANGED vars
  BY <1>1, OrderFrame DEF vars, OrderInv
<1>2. ASSUME NEW r \in Ranks, RankStep(r) \/ Tick(r) PROVE OrderInv'
  <2>1. OrderAt(r)'
    BY <1>2, OrderStep
  <2>2. ASSUME NEW s \in Ranks, s # r PROVE OrderAt(s)'
    BY <1>2, <2>2, OthersUntouched, OrderFrame DEF OrderInv
  <2> QED
    BY <2>1, <2>2 DEF OrderInv
<1> QED
  BY <1>1, <1>2 DEF Next, Returned

(* At the start of the call every rank is at the first access. *)
LEMMA OrderInit == Init => OrderInv
<1> SUFFICES ASSUME Init, NEW r \in Ranks PROVE OrderAt(r)
  BY DEF OrderInv
<1>1. test.segmentCount \in Nat \ {0}
  BY TestType DEF Init
<1> QED
  BY <1>1 DEF Init, OrderAt, StoppedAt, NextIs, LastWas, InMainLoop

(* A rank accesses its blocks in cyclic order, none twice and none left    *)
(* out, whatever stops its loop: the wear-out finds the place again.       *)
THEOREM InOrderHolds == ASSUME OrderSafe PROVE Spec => InOrder
<1> DEFINE IInv == TypeOK /\ BcastInv /\ AgreeInv /\ WithinInv /\ OrderInv
<1>1. IInv /\ [Next]_vars => IInv'
  BY TypeStep, BcastStep, AgreeStep, WithinStep, OrderInvStep
<1>2. Init => IInv
  BY TypeInit, AgreeInit, WithinInit, OrderInit
<1>3. IInv /\ [Next]_vars =>
          [\A r \in Ranks : pairCnt'[r] # pairCnt[r] =>
              last'[r] = IF pairCnt[r] = 0 THEN <<0, 0>> ELSE Following(r, last[r])]_vars
  <2> SUFFICES ASSUME IInv, [Next]_vars, NEW r \in Ranks, pairCnt'[r] # pairCnt[r]
               PROVE  last'[r] = IF pairCnt[r] = 0 THEN <<0, 0>> ELSE Following(r, last[r])
    OBVIOUS
  <2>1. Transfer(r) \/ WearTransfer(r)
    <3>1. PICK s \in Ranks : RankStep(s) \/ Tick(s)
      BY DEF Next, Returned, vars
    <3>2. s = r
      BY <3>1, OthersUntouched
    <3> QED
      BY <3>1, <3>2 DEF RankStep, Tick, PrefillAll, PrefillAllDone, PrefillSegment,
            EnterBlock, BcastDone, LeaveBlock, Repeat, LeaveLoop, AgreeDone, Resume,
            WearSegment, LeaveWearBlock, CountErrors, CountErrorsDone
  <2>2. /\ j[r] < test.offsets[r] /\ last'[r] = <<i[r], j[r]>>
        /\ \/ pc[r] = "block" /\ ~hit[r]
           \/ pc[r] = "wearBlock"
    BY <2>1 DEF Transfer, WearTransfer, Access, TypeOK
  <2>3. test.offsets[r] \in Nat /\ j[r] \in Nat
    BY TestType DEF TypeOK
  <2>4. OrderAt(r)
    BY DEF OrderInv
  <2>5. NextIs(r, i[r], j[r])
    BY <2>2, <2>3, <2>4 DEF OrderAt, NextIs, LastWas, Following
  <2> QED
    BY <2>2, <2>5 DEF NextIs
<1> QED
  BY <1>1, <1>2, <1>3, PTL DEF Spec, InOrder

----------------------------------------------------------------------------
(***************************************************************************)
(* WriteOrRead implements AccessPhase, for every number of ranks and every *)
(* parameter set.                                                          *)
(***************************************************************************)

Through(r) == pc[r] \in Finished

\* The steps of a rank AccessPhase can see, and the others.
Accesses(r) ==
    /\ ~Through(r)
    /\ pc' \in {pc, [pc EXCEPT ![r] = "bcastWait"]}
    /\ pairCnt' = [pairCnt EXCEPT ![r] = @ + 1]
    /\ UNCHANGED <<test, pairsAccessed>>

Finishes(r) ==
    /\ ~Through(r)
    /\ pc' = [pc EXCEPT ![r] = "errors"]
    /\ UNCHANGED <<test, pairCnt>>
    /\ \A s \in Ranks : s # r => pairsAccessed'[s] = pairsAccessed[s]

Unseen(r) ==
    /\ \A s \in Ranks : Through(s)' <=> Through(s)
    /\ \A s \in Ranks : Through(s) => pairsAccessed'[s] = pairsAccessed[s]
    /\ UNCHANGED <<test, pairCnt>>

(* The three kinds are all there are. *)
LEMMA StepKinds ==
    ASSUME TypeOK, NEW r \in Ranks, RankStep(r) \/ Tick(r)
    PROVE  Accesses(r) \/ Finishes(r) \/ Unseen(r)
<1> USE DEF Through, Finished
<1> pc \in [Ranks -> PCs] /\ pairsAccessed \in [Ranks -> Nat]
  BY DEF TypeOK
<1>1. CASE Tick(r) \/ PrefillAll(r) \/ PrefillAllDone(r) \/ PrefillSegment(r) \/ EnterBlock(r)
  <2>1. Unseen(r)
    BY <1>1 DEF Tick, PrefillAll, PrefillAllDone, PrefillSegment, EnterBlock, MoreSegments,
                result, Unseen
  <2> QED BY <2>1
<1>2. CASE Transfer(r) \/ WearTransfer(r)
  <2>1. Accesses(r)
    BY <1>2 DEF Transfer, WearTransfer, Access, result, Accesses
  <2> QED BY <2>1
<1>3. CASE BcastDone(r) \/ LeaveBlock(r) \/ Repeat(r) \/ LeaveWearBlock(r)
  <2>1. Unseen(r)
    BY <1>3 DEF BcastDone, LeaveBlock, Repeat, LeaveWearBlock, MoreSegments, result, Unseen
  <2> QED BY <2>1
<1>4. CASE LeaveLoop(r)
  <2>1. CASE pc' = [pc EXCEPT ![r] = "agreeWait"] /\ UNCHANGED pairsAccessed
    BY <1>4, <2>1 DEF LeaveLoop, Unseen
  <2>2. CASE /\ pc' = [pc EXCEPT ![r] = "errors"]
             /\ pairsAccessed' = [pairsAccessed EXCEPT ![r] = pairCnt[r]]
    BY <1>4, <2>2 DEF LeaveLoop, Finishes
  <2> QED
    BY <1>4, <2>1, <2>2 DEF LeaveLoop
<1>5. CASE AgreeDone(r)
  <2>1. /\ pc[r] = "agreeWait" /\ pc' = [pc EXCEPT ![r] = "resume"]
        /\ UNCHANGED <<test, pairCnt>>
        /\ \E top \in Ranks : pairsAccessed' = [pairsAccessed EXCEPT ![r] = sent[top]]
    BY <1>5 DEF AgreeDone
  <2>2. Unseen(r)
    BY <2>1 DEF Unseen
  <2> QED BY <2>2
<1>6. CASE Resume(r) \/ WearSegment(r)
  <2>1. CASE pc' = [pc EXCEPT ![r] = "errors"]
    BY <1>6, <2>1 DEF Resume, WearSegment, result, Finishes
  <2>2. CASE pc' \in {[pc EXCEPT ![r] = "wearSegment"], [pc EXCEPT ![r] = "wearBlock"]}
    BY <1>6, <2>2 DEF Resume, WearSegment, result, Unseen
  <2> QED
    BY <1>6, <2>1, <2>2 DEF Resume, WearSegment
<1>7. CASE CountErrors(r) \/ CountErrorsDone(r)
  <2>1. Unseen(r)
    BY <1>7 DEF CountErrors, CountErrorsDone, result, Unseen
  <2> QED BY <2>1
<1> QED
  BY <1>1, <1>2, <1>3, <1>4, <1>5, <1>6, <1>7 DEF RankStep

TestIsRecord == test.wearOut \in BOOLEAN /\ test.iterations \in [Ranks -> Nat]

ReturnedRanks == {r \in Ranks : Through(r)}

Reports == [r \in Ranks |-> IF Through(r) THEN pairsAccessed[r] ELSE 0]

(* What AccessPhase's definitions say of this module's variables. *)
LEMMA PhaseRanks == Phase!Ranks = Ranks
BY DEF Phase!Ranks, Ranks

\* An access is one of the abstract phase.
LEMMA PhaseAccess ==
    ASSUME NEW r \in Ranks
    PROVE  Phase!Access(r) <=>
              /\ r \notin ReturnedRanks
              /\ test.iterations[r] # 0 => pairCnt[r] < test.iterations[r]
              /\ test.wearOut => \A s \in ReturnedRanks : pairCnt[r] < pairCnt[s]
              /\ pairCnt' = [pairCnt EXCEPT ![r] = @ + 1]
              /\ UNCHANGED <<test.wearOut, test.iterations, ReturnedRanks, Reports>>
BY DEF Phase!Access, ReturnedRanks, Reports, Through

\* So is a return.
LEMMA PhaseReturn ==
    ASSUME NEW r \in Ranks
    PROVE  Phase!Return(r) <=>
              /\ r \notin ReturnedRanks
              /\ test.wearOut => \A s \in Ranks : pairCnt[s] <= pairCnt[r]
              /\ ReturnedRanks' = ReturnedRanks \cup {r}
              /\ Reports' = [Reports EXCEPT ![r] = pairCnt[r]]
              /\ UNCHANGED <<test.wearOut, test.iterations, pairCnt>>
BY PhaseRanks DEF Phase!Return, ReturnedRanks, Reports, Through

\* The abstract variables, as the refinement maps them.
LEMMA PhaseVars ==
    UNCHANGED <<test, pairCnt, ReturnedRanks, Reports>> => UNCHANGED Phase!vars
BY DEF Phase!vars, ReturnedRanks, Reports, Through

(* An access respects what the ranks that have returned were promised,     *)
(* because EqualWork and WithinIterations hold after it.                   *)
LEMMA AccessAllowed ==
    ASSUME TypeOK, EqualWork', WithinIterations', NEW r \in Ranks, Accesses(r)
    PROVE  Phase!Access(r)
<1>1. pc \in [Ranks -> PCs] /\ pairCnt \in [Ranks -> Nat]
  BY DEF TypeOK
<1>2. \A s \in Ranks : Through(s)' <=> Through(s)
  BY <1>1 DEF Accesses, Through, Finished
<1>3. ReturnedRanks' = ReturnedRanks /\ Reports' = Reports /\ r \notin ReturnedRanks
  BY <1>2 DEF Accesses, ReturnedRanks, Reports
<1>4. pairCnt'[r] = pairCnt[r] + 1 /\ \A s \in Ranks : s # r => pairCnt'[s] = pairCnt[s]
  BY <1>1 DEF Accesses
<1>5. pairCnt[r] \in Nat /\ test' = test
  BY <1>1 DEF Accesses
<1>6. ASSUME test.iterations[r] # 0 PROVE pairCnt[r] < test.iterations[r]
  <2>1. TestIsRecord
    BY TestType, TestsAssumption DEF TestIsRecord, TypeOK, TestRecord
  <2>2. pairCnt'[r] <= test.iterations[r]
    BY <1>5, <1>6 DEF WithinIterations
  <2> QED
    BY <1>4, <1>5, <2>1, <2>2 DEF TestIsRecord
<1>7. ASSUME test.wearOut, NEW s \in ReturnedRanks PROVE pairCnt[r] < pairCnt[s]
  <2>1. s \in Ranks /\ s # r /\ pc'[s] \in Finished /\ pairCnt[s] \in Nat
    BY <1>1, <1>2, <1>3, <1>7 DEF ReturnedRanks, Through
  <2>2. pairCnt'[r] <= pairCnt'[s]
    BY <1>5, <1>7, <2>1 DEF EqualWork
  <2> QED
    BY <1>4, <1>5, <2>1, <2>2
<1> QED
  BY <1>3, <1>5, <1>6, <1>7, PhaseAccess DEF Accesses

\* What a rank returns with is what the phase allows.
LEMMA ReturnAllowed ==
    ASSUME TypeOK, TypeOK', EqualWork', NEW r \in Ranks, Finishes(r)
    PROVE  Phase!Return(r)
<1>1. pc \in [Ranks -> PCs]
  BY DEF TypeOK
<1>2. /\ Through(r)' /\ ~Through(r)
      /\ \A s \in Ranks : s # r => (Through(s)' <=> Through(s))
  BY <1>1 DEF Finishes, Through, Finished
<1>3. ReturnedRanks' = ReturnedRanks \cup {r} /\ r \notin ReturnedRanks
  BY <1>2 DEF ReturnedRanks
<1>4. test' = test /\ pairCnt' = pairCnt
  BY DEF Finishes
<1>5. pairsAccessed'[r] = pairCnt[r]
  BY <1>2, <1>4 DEF EqualWork, Through
<1>6. Reports' = [Reports EXCEPT ![r] = pairCnt[r]]
  BY <1>2, <1>5 DEF Reports, Finishes
<1>7. test.wearOut => \A s \in Ranks : pairCnt[s] <= pairCnt[r]
  BY <1>2, <1>4 DEF EqualWork, Through
<1> QED
  BY <1>3, <1>4, <1>6, <1>7, PhaseReturn

(* Every step is one of AccessPhase's or none. *)
LEMMA PhaseStep ==
    ASSUME TypeOK, TypeOK', EqualWork', WithinIterations', [Next]_vars
    PROVE  [Phase!Next]_Phase!vars
<1>1. CASE UNCHANGED vars
  BY <1>1, PhaseVars DEF vars, ReturnedRanks, Reports, Through
<1>2. ASSUME NEW r \in Ranks, RankStep(r) \/ Tick(r) PROVE [Phase!Next]_Phase!vars
  <2>1. CASE Accesses(r)
    BY <2>1, AccessAllowed, PhaseRanks DEF Phase!Next
  <2>2. CASE Finishes(r)
    BY <2>2, ReturnAllowed, PhaseRanks DEF Phase!Next
  <2>3. CASE Unseen(r)
    <3>1. ReturnedRanks' = ReturnedRanks /\ Reports' = Reports
      BY <2>3 DEF Unseen, ReturnedRanks, Reports
    <3> QED
      BY <2>3, <3>1, PhaseVars DEF Unseen
  <2> QED
    BY <1>2, <2>1, <2>2, <2>3, StepKinds
<1> QED
  BY <1>1, <1>2 DEF Next, Returned

\* The beginning is one of the abstract phase.
LEMMA PhaseInit == Init => Phase!Init
<1> SUFFICES ASSUME Init PROVE Phase!Init
  OBVIOUS
<1>1. test \in TestRecord
  BY TestsAssumption DEF Init
<1>2. test.wearOut \in BOOLEAN /\ test.iterations \in [Ranks -> Nat]
  BY <1>1 DEF TestRecord
<1>3. \A r \in Ranks : pc[r] \notin Finished
  BY DEF Init, Finished
<1> QED
  BY <1>2, <1>3, PhaseRanks DEF Init, Phase!Init

\* The loops of WriteOrRead with their clocks and collectives implement the
\* phase TestIoSys relies on, for every number of ranks.
THEOREM WriteOrReadImplements == Spec => ImplementsPhase
<1>1. TypeOK /\ TypeOK' /\ EqualWork' /\ WithinIterations' /\ [Next]_vars
          => [Phase!Next]_Phase!vars
  BY PhaseStep
<1> QED
  BY <1>1, PhaseInit, TypeCorrect, EqualWorkHolds, WithinIterationsHolds, PTL
     DEF Spec, ImplementsPhase, Phase!Spec
=============================================================================
