------------------------- MODULE CollectivesProofs -------------------------
(***************************************************************************)
(* No rank of WriteOrRead waits in another collective than the others, for *)
(* any number of ranks and segments: the lengths of the ranks' loops agree *)
(* wherever a transfer or a prefill is collective.  On the way: a segment  *)
(* is prefilled by all before anybody writes to it.                        *)
(***************************************************************************)
EXTENDS WriteOrReadProofs

----------------------------------------------------------------------------
(***************************************************************************)
(* What a rank has entered is spelled out by where it is: an opening, made *)
(* of the barriers of the prefill and of what its transfers enter, then a  *)
(* closing.  With the options below, ranks that have come to the same      *)
(* transfer have the same opening, and leave their loops after the same.   *)
(***************************************************************************)
CollectivesSafe == \A t \in Tests :
    ~CollectiveRepeat(t) /\ ~UnevenBroadcasts(t) /\ ~PrefillByClock(t)

Locked == InStep(test)

PrefillPerSegment == test.prefill /\ test.deadline # 0

\* The barriers of the prefill stand between the broadcasts.
Segmented == PrefillPerSegment /\ Broadcasts

\* Rank r has not yet come to the barrier after its prefill.
Unopened(r) == \/ pc[r] = "prefill"
               \/ pc[r] = "segment" /\ PrefillPerSegment /\ i[r] = 0

\* How many barriers of the prefill rank r has entered: unless segments are
\* closed by broadcasts, only one is prefilled, or the whole file at once.
Barriers(r) ==
    IF ~test.prefill THEN 0
    ELSE IF Segmented
    THEN IF pc[r] \in {"segmentWait", "block", "bcastWait"} THEN i[r] + 1 ELSE i[r]
    ELSE IF Unopened(r) THEN 0 ELSE 1

\* How many collectives n transfers of the main loop enter.
Entered(n) == IF test.collective /\ Broadcasts THEN 2 * n
              ELSE IF Locked THEN n ELSE 0

Opening(r) == Barriers(r) + Entered(pairCnt[r])

\* Where the barrier of segment k comes, and all the transfers before it.
BarrierAt(k) == k * (test.offsets[0] + 1) + 1

OpeningKind(n) ==
    IF Segmented THEN IF \E k \in Nat : n = BarrierAt(k) THEN "barrier" ELSE "bcast"
    ELSE IF test.prefill THEN "barrier"
    ELSE IF ~test.collective \/ (Broadcasts /\ n % 2 = 0) THEN "bcast" ELSE "xfer"

\* How many of the closing collectives are the wear-out's.
Wear == IF test.wearOut THEN 2 ELSE 0

ClosingKind(n) == IF n = Wear - 1 THEN "allreduce"
                  ELSE IF n = Wear THEN "reduce"
                  ELSE IF n = Wear + 1 THEN "errReduce" ELSE "errBcast"

\* The n-th collective of a phase with an opening of m.
KindAt(m, n) == IF n <= m THEN OpeningKind(n) ELSE ClosingKind(n - m)

\* How many collectives rank r has entered.
LengthAt(r) ==
    LET L == Len(calls[r])
        M == Opening(r)
    IN  /\ pc[r] \in {"prefill", "prefillWait"} \/ InMainLoop(r) => L = M
        /\ pc[r] = "agreeWait" => L = M + 1
        /\ pc[r] \in {"resume", "wearSegment", "wearBlock"} => L = M + 2
        /\ pc[r] = "errors" => L = M + Wear
        /\ pc[r] = "errorsWait" /\ r = 0 => L = M + Wear + 1

\* Where a rank is when it prefills.
PrefillAt(r) ==
    /\ pc[r] \in {"prefill", "prefillWait"} => test.prefill /\ test.deadline = 0
    /\ pc[r] = "segmentWait" => PrefillPerSegment
    /\ PrefillPerSegment /\ ~Segmented =>
          /\ pc[r] = "segment" => i[r] \in {0, 1} /\ (i[r] = 0 => ~hit[r])
          /\ pc[r] \in {"segmentWait", "block"} => i[r] = 0

\* Which they are.
KindsAt(r) ==
    \A n \in 1 .. Len(calls[r]) : calls[r][n] = KindAt(Opening(r), n)

TraceAt(r) == LengthAt(r) /\ PrefillAt(r) /\ KindsAt(r)

\* Whether the ranks stop their transfers after the n-th.
StopsAt(n) == IF Broadcasts THEN n \in 1 .. Len(hitLog) /\ hitLog[n]
              ELSE test.iterations[0] # 0 /\ n = test.iterations[0]

\* The last transfer of rank r was in the segment before i[r].
StoppedIn(r) ==
    LET O == test.offsets[r]
    IN  /\ i[r] \in 1 .. test.segmentCount
        /\ (i[r] - 1) * O < pairCnt[r] /\ pairCnt[r] <= i[r] * O

\* When ranks transfer in step, a rank's position is what its count says, it
\* has not passed a stop, and once out of the loop it is at a stop or has
\* done all.
CountAt(r) ==
    LET S == test.segmentCount
        O == test.offsets[r]
        n == pairCnt[r]
    IN  /\ pc[r] \notin {"wearSegment", "wearBlock"}
        /\ n <= S * O
        /\ \A m \in 1 .. n - 1 : ~StopsAt(m)
        /\ Broadcasts => n <= Len(hitLog) \/ (pc[r] = "bcastWait" /\ n <= Len(hitLog) + 1)
        /\ pc[r] = "segment" =>
              /\ hit[r] <=> StopsAt(n)
              /\ hit[r] => StoppedIn(r)
              /\ ~hit[r] => i[r] \in 0 .. S /\ n = i[r] * O
        /\ pc[r] = "segmentWait" =>
              ~hit[r] /\ ~StopsAt(n) /\ i[r] \in 0 .. S - 1 /\ n = i[r] * O
        /\ pc[r] \in {"block", "bcastWait"} =>
              /\ i[r] \in 0 .. S - 1 /\ j[r] \in 0 .. O /\ n = i[r] * O + j[r]
              /\ j[r] = 0 => pc[r] = "block" /\ ~StopsAt(n)
              /\ pc[r] = "block" => (hit[r] <=> StopsAt(n))
        /\ Past(r) => (n = S * O /\ i[r] = S) \/ (StopsAt(n) /\ StoppedIn(r))
        /\ Past(r) /\ test.wearOut => sent[r] = n

TraceInv == \A r \in Ranks : TraceAt(r)
CountInv == Locked => \A r \in Ranks : CountAt(r)

\* Who prefills does so before the barrier, and who is past the barrier has
\* met everybody there: the whole file at once, or its only segment.
Opened == \A s \in Ranks : Len(calls[s]) > 0

PrefillInv ==
    test.prefill /\ ~Segmented =>
        /\ \A s \in Ranks : Len(calls[s]) > 0 => 0 .. test.segmentCount - 1 \subseteq prefilled[s]
        /\ \A r \in Ranks : \/ Unopened(r) \/ pc[r] \in {"prefillWait", "segmentWait"}
                            \/ Opened
        /\ touched \subseteq 0 .. test.segmentCount - 1
        /\ touched # {} => Opened

\* ... or one segment after the other.
SegmentsInv ==
    Segmented =>
        /\ \A s \in Ranks : \A k \in Nat : k < Barriers(s) => k \in prefilled[s]
        /\ \A r \in Ranks : pc[r] \in {"block", "bcastWait"} =>
              \A s \in Ranks : i[r] < Barriers(s)
        /\ \A k \in touched : k \in Nat /\ \A s \in Ranks : k < Barriers(s)

----------------------------------------------------------------------------
(* The parameters the count of collectives depends on. *)
LEMMA OpeningType ==
    ASSUME TypeOK, NEW r \in Ranks
    PROVE  /\ Opening(r) \in Int /\ Barriers(r) \in Int /\ Entered(pairCnt[r]) \in Nat
           /\ Wear \in {0, 2} /\ Len(calls[r]) \in Nat
           /\ test.wearOut => Wear = 2
           /\ ~test.wearOut => Wear = 0
<1>1. pairCnt[r] \in Nat /\ i[r] \in Int /\ Len(calls[r]) \in Nat
  BY DEF TypeOK
<1>2. Barriers(r) \in Int /\ Entered(pairCnt[r]) \in Nat
  BY <1>1 DEF Barriers, Entered
<1> QED
  BY <1>1, <1>2 DEF Opening, Wear

(* What the options excluded leave of a prefill. *)
LEMMA PrefillTest ==
    ASSUME CollectivesSafe, TypeOK
    PROVE  /\ test.prefill /\ ~Segmented => ~Locked /\ ~Broadcasts
           /\ test.prefill => ~test.collective
           /\ PrefillPerSegment /\ ~Segmented => test.segmentCount = 1 /\ test.minTime = 0
           /\ Locked => test.minTime = 0 /\ test.sync
           /\ Broadcasts => Locked
<1>1. /\ ~CollectiveRepeat(test) /\ ~PrefillByClock(test) /\ ValidTest(test)
      /\ test.segmentCount \in Nat \ {0} /\ test.minTime \in Nat
  BY TestType DEF TypeOK, CollectivesSafe
<1>2. test.prefill => ~test.collective
  BY <1>1 DEF ValidTest
<1>3. test.prefill /\ ~Segmented => ~Locked /\ ~Broadcasts
  BY <1>2 DEF Segmented, PrefillPerSegment, Locked, InStep, Broadcasts
<1>4. PrefillPerSegment /\ ~Segmented => test.segmentCount = 1 /\ test.minTime = 0
  BY <1>1 DEF Segmented, PrefillPerSegment, PrefillByClock, Broadcasts
<1>5. (Locked => test.minTime = 0 /\ test.sync) /\ (Broadcasts => Locked)
  BY <1>1 DEF Locked, CollectiveRepeat, InStep, Broadcasts, ValidTest
<1> QED
  BY <1>2, <1>3, <1>4, <1>5

(* When ranks transfer in step the options and the former phase are the    *)
(* same for all of them.                                                   *)
LEMMA LockedTest ==
    ASSUME CollectivesSafe, TypeOK, Locked, NEW r \in Ranks
    PROVE  /\ test.minTime = 0
           /\ test.segmentCount \in Nat \ {0} /\ test.deadline \in Nat
           /\ test.offsets[r] \in Nat /\ test.iterations[r] \in Nat
           /\ test.offsets[0] \in Nat
           /\ test.offsets[r] = test.offsets[0]
           /\ test.iterations[r] = test.iterations[0]
           /\ ~Broadcasts => test.deadline = 0
           /\ test.prefill => Segmented
<1>1. ~UnevenBroadcasts(test) /\ ValidTest(test)
      /\ test.segmentCount \in Nat \ {0} /\ test.deadline \in Nat
      /\ test.offsets \in [Ranks -> Nat] /\ test.iterations \in [Ranks -> Nat]
  BY TestType DEF TypeOK, CollectivesSafe
<1>2. 0 \in Ranks
  BY RootRank
<1>3. test.minTime = 0 /\ test.sync /\ (test.prefill => Segmented)
  BY PrefillTest
<1>4. test.offsets[r] = test.offsets[0]
  BY <1>1, <1>2 DEF UnevenBroadcasts, Locked, SameForAll
<1>5. test.iterations[r] = test.iterations[0]
  BY <1>1, <1>2, <1>3 DEF ValidTest, SameForAll
<1>6. ~Broadcasts => test.deadline = 0
  BY <1>3 DEF Broadcasts
<1> QED
  BY <1>1, <1>2, <1>3, <1>4, <1>5, <1>6

(* The options stay what they are, and with them what is due. *)
LEMMA TestFrame ==
    ASSUME test' = test
    PROVE  /\ Broadcasts' <=> Broadcasts
           /\ Locked' <=> Locked
           /\ PrefillPerSegment' <=> PrefillPerSegment
           /\ Segmented' <=> Segmented
           /\ Wear' = Wear
           /\ \A n : Entered(n)' = Entered(n)
           /\ \A n : OpeningKind(n)' = OpeningKind(n)
           /\ \A n : ClosingKind(n)' = ClosingKind(n)
<1>1. /\ Broadcasts' <=> Broadcasts
      /\ Locked' <=> Locked
      /\ PrefillPerSegment' <=> PrefillPerSegment
      /\ Segmented' <=> Segmented
      /\ Wear' = Wear
  BY DEF Broadcasts, Locked, InStep, PrefillPerSegment, Segmented, Wear
<1>2. \A n : Entered(n)' = Entered(n)
  BY <1>1 DEF Entered
<1>3. \A n : OpeningKind(n)' = OpeningKind(n)
  BY <1>1 DEF OpeningKind, BarrierAt
<1>4. \A n : ClosingKind(n)' = ClosingKind(n)
  BY <1>1 DEF ClosingKind
<1> QED
  BY <1>1, <1>2, <1>3, <1>4

(* Multiples of M keep their distance. *)
LEMMA Multiples ==
    ASSUME NEW M \in Nat, NEW a \in Nat, NEW b \in Nat
    PROVE  /\ a * M \in Nat /\ b * M \in Nat
           /\ a * (M + 1) = a * M + a /\ (a + 1) * M = a * M + M
           /\ a < b => a * M + M <= b * M
           /\ a <= b => a * M <= b * M
<1>1. a * M \in Nat /\ b * M \in Nat
  OBVIOUS
<1>3. a * (M + 1) = a * M + a /\ (a + 1) * M = a * M + M
  OBVIOUS
<1>2. ASSUME a < b PROVE a * M + M <= b * M
  <2>1. PICK d \in Nat : b = a + 1 + d
    <3>1. b - (a + 1) \in Nat /\ b = a + 1 + (b - (a + 1))
      BY <1>2
    <3> QED
      BY <3>1
  <2>2. b * M = a * M + M + d * M /\ d * M \in Nat
    BY <2>1
  <2> QED
    BY <1>1, <2>2
<1> QED
  BY <1>1, <1>2, <1>3

(* A transfer does not come where a barrier does. *)
LEMMA BarrierPlaces ==
    ASSUME NEW M \in Nat, NEW a \in Nat, NEW b \in Nat, b < M,
           NEW k \in Nat, k * M = a * M + b
    PROVE  k = a
<1>1. a * M \in Nat /\ k * M \in Nat
  BY Multiples
<1>2. a < k => a * M + M <= k * M
  BY Multiples
<1>3. k < a => k * M + M <= a * M
  BY Multiples
<1> QED
  BY <1>1, <1>2, <1>3

(* Even positions are broadcasts, odd ones transfers. *)
LEMMA Parity ==
    ASSUME NEW n \in Nat
    PROVE  (2 * n + 1) % 2 = 1 /\ (2 * n + 2) % 2 = 0
OBVIOUS

(* What is due next, after a step: KindAt with its arguments in the new    *)
(* state.                                                                  *)
LEMMA KindFrame ==
    ASSUME test' = test, NEW r \in Ranks
    PROVE  \A n : KindAt(Opening(r), n)' =
                     IF n <= Opening(r)' THEN OpeningKind(n) ELSE ClosingKind(n - Opening(r)')
BY TestFrame DEF KindAt, OpeningKind, ClosingKind, BarrierAt

(* A rank that enters what continues its opening. *)
LEMMA Opens ==
    ASSUME TypeOK, NEW r \in Ranks, NEW k \in Seq(Kinds), Enter(r, k), test' = test,
           KindsAt(r), Len(calls[r]) = Opening(r), Opening(r)' = Opening(r) + Len(k),
           \A n \in 1 .. Len(k) : k[n] = OpeningKind(Opening(r) + n)
    PROVE  KindsAt(r)' /\ Len(calls'[r]) = Opening(r)'
<1>1. /\ calls \in [Ranks -> Seq(Kinds)] /\ Len(calls[r]) \in Nat /\ Len(k) \in Nat
  BY DEF TypeOK
<1>2. /\ Len(calls'[r]) = Len(calls[r]) + Len(k)
      /\ \A n \in 1 .. Len(calls[r]) : calls'[r][n] = calls[r][n]
  BY <1>1, EnterCalls
<1>3. Len(calls'[r]) = Opening(r)'
  BY <1>2
<1> SUFFICES ASSUME NEW n \in 1 .. Len(calls'[r])
             PROVE  calls'[r][n] = OpeningKind(n)
  <2>1. \A n \in 1 .. Len(calls'[r]) : KindAt(Opening(r), n)' = OpeningKind(n)
    BY <1>1, <1>2, <1>3, KindFrame
  <2> QED
    BY <1>3, <2>1 DEF KindsAt
<1>4. CASE n \in 1 .. Len(calls[r])
  BY <1>1, <1>2, <1>4 DEF KindsAt, KindAt
<1>5. CASE n \notin 1 .. Len(calls[r])
  <2>1. /\ n - Len(calls[r]) \in 1 .. Len(k)
        /\ calls'[r][n] = k[n - Len(calls[r])]
    BY <1>1, <1>5, NewCall
  <2>2. Opening(r) + (n - Len(calls[r])) = n
    BY <1>1
  <2> QED
    BY <2>1, <2>2
<1> QED
  BY <1>4, <1>5

(* A rank that moves without a transfer and enters what is due next. *)
LEMMA Moved ==
    ASSUME TypeOK, NEW r \in Ranks, NEW p, NEW k, MovesOnly(r, p, k), KindsAt(r),
           Barriers(r)' = Barriers(r),
           \A n \in 1 .. Len(k) : k[n] = KindAt(Opening(r), Len(calls[r]) + n)
    PROVE  /\ KindsAt(r)' /\ pc'[r] = p /\ test' = test
           /\ Len(calls'[r]) = Len(calls[r]) + Len(k)
           /\ Opening(r)' = Opening(r)
<1>1. /\ test' = test /\ pairCnt' = pairCnt /\ k \in Seq(Kinds) /\ Enter(r, k)
      /\ pc' = [pc EXCEPT ![r] = p]
  BY DEF MovesOnly, Moves
<1>2. calls \in [Ranks -> Seq(Kinds)] /\ pc \in [Ranks -> PCs]
  BY DEF TypeOK
<1>3. Opening(r)' = Opening(r)
  BY <1>1, TestFrame DEF Opening, Entered
<1>4. Len(calls'[r]) = Len(calls[r]) + Len(k) /\ pc'[r] = p
  BY <1>1, <1>2, EnterCalls
<1>5. KindsAt(r)'
  <2> SUFFICES ASSUME NEW n \in 1 .. Len(calls'[r])
               PROVE  calls'[r][n] = KindAt(Opening(r), n)
    <3>1. \A n : KindAt(Opening(r), n)' = KindAt(Opening(r), n)
      BY <1>1, <1>3, KindFrame DEF KindAt
    <3> QED
      BY <3>1 DEF KindsAt
  <2>1. CASE n \in 1 .. Len(calls[r])
    <3>1. calls'[r][n] = calls[r][n]
      BY <1>1, <1>2, <2>1, EnterCalls
    <3> QED
      BY <2>1, <3>1 DEF KindsAt
  <2>2. CASE n \notin 1 .. Len(calls[r])
    <3>1. /\ n - Len(calls[r]) \in 1 .. Len(k)
          /\ calls'[r][n] = k[n - Len(calls[r])]
      BY <1>1, <1>2, <2>2, NewCall
    <3>2. Len(calls[r]) + (n - Len(calls[r])) = n
      BY <1>2
    <3> QED
      BY <3>1, <3>2
  <2> QED
    BY <2>1, <2>2
<1> QED
  BY <1>1, <1>3, <1>4, <1>5

(* A rank's trace is its own. *)
LEMMA TraceFrame ==
    ASSUME NEW s \in Ranks, TraceAt(s), test' = test, pc'[s] = pc[s], i'[s] = i[s],
           hit'[s] = hit[s], pairCnt'[s] = pairCnt[s], calls'[s] = calls[s]
    PROVE  TraceAt(s)'
<1>1. /\ Wear' = Wear
      /\ Segmented' <=> Segmented
      /\ PrefillPerSegment' <=> PrefillPerSegment
      /\ Broadcasts' <=> Broadcasts
      /\ Locked' <=> Locked
  BY TestFrame
<1>2. Opening(s)' = Opening(s)
  BY <1>1 DEF Opening, Barriers, Entered, Unopened
<1>3. \A n : KindAt(Opening(s), n)' = KindAt(Opening(s), n)
  BY <1>2, KindFrame DEF KindAt
<1>4. LengthAt(s)'
  BY <1>1, <1>2 DEF TraceAt, LengthAt, InMainLoop
<1>5. PrefillAt(s)'
  BY <1>1 DEF TraceAt, PrefillAt
<1>6. KindsAt(s)'
  BY <1>3 DEF TraceAt, KindsAt
<1> QED
  BY <1>4, <1>5, <1>6 DEF TraceAt

(* A rank enters collectives for itself only. *)
LEMMA OthersCalls ==
    ASSUME TypeOK, NEW r \in Ranks, RankStep(r) \/ Tick(r), NEW s \in Ranks, s # r
    PROVE  calls'[s] = calls[s]
<1>1. calls \in [Ranks -> Seq(Kinds)]
  BY DEF TypeOK
<1>2. ASSUME NEW p, NEW k, MovesOnly(r, p, k) PROVE calls'[s] = calls[s]
  BY <1>1, <1>2 DEF MovesOnly, Moves, Enter
<1>3. CASE Transfer(r) \/ WearTransfer(r) \/ Repeat(r) \/ Tick(r)
  BY <1>1, <1>3 DEF Transfer, WearTransfer, Repeat, Tick, Enter
<1> QED
  BY <1>2, <1>3, Shapes DEF RankStep

(* Only rank 0 decides for all, in a transfer. *)
LEMMA StepLog ==
    ASSUME TypeOK, NEW r \in Ranks, RankStep(r) \/ Tick(r)
    PROVE  \/ hitLog' = hitLog
           \/ /\ Transfer(r) /\ Broadcasts /\ r = 0
              /\ hitLog' = Append(hitLog, hit'[r])
<1>1. ASSUME NEW p, NEW k, MovesOnly(r, p, k) PROVE hitLog' = hitLog
  BY <1>1 DEF MovesOnly, Moves
<1>2. CASE WearTransfer(r) \/ Repeat(r) \/ Tick(r)
  BY <1>2 DEF WearTransfer, Repeat, Tick
<1>3. CASE Transfer(r)
  BY <1>3 DEF Transfer
<1> QED
  BY <1>1, <1>2, <1>3, Shapes DEF RankStep

(* What a transfer of the main loop enters continues the opening. *)
LEMMA TransferOpens ==
    ASSUME CollectivesSafe, TypeOK, NEW r \in Ranks, TraceAt(r), pc[r] = "block",
           Locked => CountAt(r), j[r] < test.offsets[r]
    PROVE  /\ TransferCalls \in Seq(Kinds) /\ Len(TransferCalls) \in Nat
           /\ Entered(pairCnt[r] + 1) = Entered(pairCnt[r]) + Len(TransferCalls)
           /\ \A n \in 1 .. Len(TransferCalls) :
                 TransferCalls[n] = OpeningKind(Opening(r) + n)
<1>1. pairCnt[r] \in Nat /\ i[r] \in Int /\ j[r] \in Nat
  BY DEF TypeOK
<1>2. TransferCalls \in Seq(Kinds)
  BY KindNames DEF TransferCalls
<1>3. CASE ~Locked
  <2>1. TransferCalls = << >> /\ ~(test.collective /\ Broadcasts)
    BY <1>3, PrefillTest DEF TransferCalls, Locked, InStep
  <2> QED
    BY <1>1, <1>2, <1>3, <2>1 DEF Entered
<1>4. CASE test.collective /\ Broadcasts
  <2>1. ~test.prefill /\ ~Segmented /\ Opening(r) = 2 * pairCnt[r]
    BY <1>1, <1>4, PrefillTest DEF Opening, Barriers, Entered, Segmented, PrefillPerSegment
  <2>2. OpeningKind(2 * pairCnt[r] + 1) = "xfer" /\ OpeningKind(2 * pairCnt[r] + 2) = "bcast"
    BY <1>1, <1>4, <2>1, Parity DEF OpeningKind
  <2>3. TransferCalls = <<"xfer", "bcast">>
    BY <1>4 DEF TransferCalls
  <2>4. Entered(pairCnt[r] + 1) = Entered(pairCnt[r]) + 2
    BY <1>1, <1>4 DEF Entered
  <2> QED
    BY <1>2, <2>1, <2>2, <2>3, <2>4
<1>5. CASE Locked /\ ~(test.collective /\ Broadcasts)
  <2>1. Entered(pairCnt[r] + 1) = Entered(pairCnt[r]) + 1 /\ Entered(pairCnt[r]) = pairCnt[r]
    BY <1>1, <1>5 DEF Entered
  <2>2. CASE test.collective
    <3>1. TransferCalls = <<"xfer">> /\ ~test.prefill /\ ~Segmented /\ ~Broadcasts
      BY <1>5, <2>2, PrefillTest DEF TransferCalls, Segmented
    <3>2. OpeningKind(Opening(r) + 1) = "xfer"
      BY <2>2, <3>1 DEF OpeningKind
    <3> QED
      BY <1>2, <2>1, <3>1, <3>2
  <2>3. CASE ~test.collective
    <3>1. TransferCalls = <<"bcast">> /\ Broadcasts
      BY <1>5, <2>3 DEF TransferCalls, Locked, InStep, Broadcasts
    <3>2. CASE ~Segmented
      <4>1. ~test.prefill
        BY <1>5, <3>2, PrefillTest
      <4>2. OpeningKind(Opening(r) + 1) = "bcast"
        BY <2>3, <3>2, <4>1 DEF OpeningKind
      <4> QED
        BY <1>2, <2>1, <3>1, <4>2
    <3>3. CASE Segmented
      <4>1. /\ test.prefill /\ test.offsets[0] \in Nat
            /\ test.offsets[r] = test.offsets[0] /\ test.segmentCount \in Nat \ {0}
        BY <1>5, <3>3, LockedTest DEF Segmented, PrefillPerSegment
      <4> DEFINE O == test.offsets[0]
      <4>2. i[r] \in Nat /\ j[r] < O /\ pairCnt[r] = i[r] * O + j[r]
        BY <1>5, <4>1 DEF CountAt
      <4>3. Opening(r) = i[r] + 1 + (i[r] * O + j[r])
        BY <1>1, <2>1, <3>3, <4>1, <4>2 DEF Opening, Barriers
      <4>4. i[r] * (O + 1) = i[r] * O + i[r] /\ i[r] * O \in Nat
        BY <4>1, <4>2
      <4>5. ASSUME NEW k \in Nat, Opening(r) + 1 = BarrierAt(k) PROVE FALSE
        <5>1. k * (O + 1) + 1 = i[r] + 1 + (i[r] * O + j[r]) + 1
          BY <4>3, <4>5 DEF BarrierAt
        <5>2. k * (O + 1) \in Nat /\ O + 1 \in Nat /\ j[r] + 1 \in Nat /\ j[r] + 1 < O + 1
          BY <1>1, <4>1, <4>2
        <5>3. k * (O + 1) = i[r] * (O + 1) + (j[r] + 1)
          <6> DEFINE A == k * (O + 1)
                     B == i[r] * O
          <6>1. A + 1 = i[r] + 1 + (B + j[r]) + 1 /\ A \in Nat /\ B \in Nat
                /\ i[r] * (O + 1) = B + i[r]
            BY <4>4, <5>1, <5>2
          <6> HIDE DEF A, B
          <6>2. A = (B + i[r]) + (j[r] + 1)
            BY <1>1, <4>2, <6>1
          <6> QED
            BY <6>1, <6>2 DEF A
        <5>4. k = i[r]
          BY <4>2, <5>2, <5>3, BarrierPlaces
        <5>5. k * (O + 1) = i[r] * (O + 1)
          BY <5>4
        <5> HIDE DEF O
        <5> QED
          BY <1>1, <5>2, <5>3, <5>5
      <4>6. OpeningKind(Opening(r) + 1) = "bcast"
        BY <3>3, <4>5 DEF OpeningKind
      <4> QED
        BY <1>2, <2>1, <3>1, <4>6
    <3> QED
      BY <3>2, <3>3
  <2> QED
    BY <2>2, <2>3
<1> QED
  BY <1>3, <1>4, <1>5

(* A transfer of the main loop makes the opening longer by its own         *)
(* collectives.                                                            *)
LEMMA TransferTrace ==
    ASSUME CollectivesSafe, TypeOK, NEW r \in Ranks, TraceAt(r), Locked => CountAt(r),
           Transfer(r)
    PROVE  TraceAt(r)'
<1>1. /\ test' = test /\ i' = i /\ pc[r] = "block" /\ Enter(r, TransferCalls)
      /\ pairCnt' = [pairCnt EXCEPT ![r] = @ + 1] /\ j[r] < test.offsets[r]
      /\ pc' = IF Broadcasts /\ r # 0 THEN [pc EXCEPT ![r] = "bcastWait"] ELSE pc
  BY DEF Transfer, Access
<1>2. pc \in [Ranks -> PCs] /\ pairCnt \in [Ranks -> Nat]
  BY DEF TypeOK
<1>3. pairCnt'[r] = pairCnt[r] + 1 /\ pc'[r] \in {"block", "bcastWait"}
      /\ (pc'[r] = "bcastWait" => Broadcasts)
  BY <1>1, <1>2
<1>4. /\ TransferCalls \in Seq(Kinds) /\ Len(TransferCalls) \in Nat
      /\ Entered(pairCnt[r] + 1) = Entered(pairCnt[r]) + Len(TransferCalls)
      /\ \A n \in 1 .. Len(TransferCalls) : TransferCalls[n] = OpeningKind(Opening(r) + n)
  BY <1>1, TransferOpens
<1>5. Opening(r)' = Opening(r) + Len(TransferCalls)
  <2>1. Barriers(r)' = Barriers(r)
    BY <1>1, <1>3, TestFrame DEF Barriers, Unopened
  <2>2. Opening(r)' = Barriers(r) + Entered(pairCnt[r] + 1)
    BY <1>1, <1>3, <2>1, TestFrame DEF Opening, Entered
  <2> QED
    BY <1>4, <2>2, OpeningType DEF Opening
<1>6. Len(calls[r]) = Opening(r) /\ KindsAt(r)
  BY <1>1 DEF TraceAt, LengthAt, InMainLoop
<1>7. KindsAt(r)' /\ Len(calls'[r]) = Opening(r)'
  BY <1>1, <1>4, <1>5, <1>6, Opens
<1>8. LengthAt(r)'
  BY <1>3, <1>7 DEF LengthAt
<1>9. PrefillAt(r)'
  BY <1>1, <1>3, TestFrame DEF TraceAt, PrefillAt
<1> QED
  BY <1>7, <1>8, <1>9 DEF TraceAt

(* Ranks in step have all done the same when they are out of their loops,  *)
(* so nobody has anything to make up for.                                  *)
LEMMA NoWear ==
    ASSUME CollectivesSafe, TypeOK, AgreeInv, Locked, \A s \in Ranks : CountAt(s),
           NEW r \in Ranks, Resume(r)
    PROVE  MovesOnly(r, "errors", << >>) /\ UNCHANGED position
<1>1. /\ pc \in [Ranks -> PCs] /\ pairCnt \in [Ranks -> Nat]
      /\ pairsAccessed \in [Ranks -> Nat]
  BY DEF TypeOK
<1>2. pc[r] = "resume" /\ test.wearOut /\ Past(r)
  BY DEF Resume, AgreeInv, Past, AfterAgree, result
<1>3. PICK s \in Ranks : Past(s) /\ sent[s] = pairsAccessed[r]
  BY <1>2 DEF AgreeInv, AfterAgree, Agreed
<1> DEFINE N == test.segmentCount * test.offsets[r]
<1>4. N \in Nat /\ test.offsets[s] = test.offsets[r]
  <2>1. test.segmentCount \in Nat /\ test.offsets[r] \in Nat
    BY LockedTest
  <2> QED
    BY <2>1, LockedTest, Multiples
<1>5. /\ pairCnt[r] = N \/ StopsAt(pairCnt[r])
      /\ pairCnt[s] = N \/ StopsAt(pairCnt[s])
      /\ pairCnt[r] <= N /\ pairCnt[s] <= N
      /\ \A m \in 1 .. pairCnt[r] - 1 : ~StopsAt(m)
      /\ \A m \in 1 .. pairCnt[s] - 1 : ~StopsAt(m)
      /\ pairCnt[s] = sent[s]
  BY <1>2, <1>3, <1>4 DEF CountAt
<1>6. \A m \in Nat : StopsAt(m) => m > 0
  BY DEF StopsAt
<1> HIDE DEF N
<1>7. pairCnt[s] = pairCnt[r]
  BY <1>1, <1>4, <1>5, <1>6
<1>8. pc' = [pc EXCEPT ![r] = "errors"] /\ UNCHANGED position
  BY <1>1, <1>3, <1>5, <1>7 DEF Resume
<1>9. ~MovesOnly(r, "wearSegment", << >>)
  BY <1>1, <1>8 DEF MovesOnly, Moves
<1> QED
  BY <1>8, <1>9, Shapes

(* Every step of a rank keeps its trace. *)
LEMMA TraceStep ==
    ASSUME CollectivesSafe, TypeOK, BcastInv, AgreeInv, NEW r \in Ranks, TraceAt(r),
           CountInv, RankStep(r) \/ Tick(r)
    PROVE  TraceAt(r)'
<1>1. /\ test \in Tests /\ pc \in [Ranks -> PCs] /\ i \in [Ranks -> Int]
      /\ pairCnt \in [Ranks -> Nat] /\ hit \in [Ranks -> BOOLEAN]
      /\ now \in [Ranks -> Nat] /\ calls \in [Ranks -> Seq(Kinds)]
  BY DEF TypeOK
<1>2. /\ test.minTime \in Nat /\ test.deadline \in Nat /\ test.segmentCount \in Nat \ {0}
      /\ test.wearOut \in BOOLEAN /\ test.collective \in BOOLEAN /\ test.prefill \in BOOLEAN
  BY <1>1, TestType
<1>3. /\ test.prefill /\ ~Segmented => ~Locked /\ ~Broadcasts
      /\ PrefillPerSegment /\ ~Segmented => test.segmentCount = 1 /\ test.minTime = 0
      /\ Locked => test.minTime = 0
      /\ Broadcasts => Locked
      /\ Segmented => Locked /\ Broadcasts /\ test.prefill /\ ~test.collective
                      /\ PrefillPerSegment /\ test.deadline # 0
  BY PrefillTest DEF Segmented, PrefillPerSegment
<1>4. LengthAt(r) /\ PrefillAt(r) /\ KindsAt(r) /\ (Locked => CountAt(r))
  BY DEF TraceAt, CountInv
<1>5. /\ Opening(r) \in Int /\ Len(calls[r]) \in Nat /\ Wear \in {0, 2}
      /\ test.wearOut => Wear = 2
      /\ ~test.wearOut => Wear = 0
      /\ i[r] \in Int
  BY <1>1, OpeningType
\* A rank that enters nothing.
<1>6. ASSUME NEW p, MovesOnly(r, p, << >>), Barriers(r)' = Barriers(r)
      PROVE  /\ KindsAt(r)' /\ pc'[r] = p /\ test' = test
             /\ Len(calls'[r]) = Len(calls[r])
             /\ Opening(r)' = Opening(r)
             /\ Wear' = Wear
             /\ PrefillPerSegment' <=> PrefillPerSegment
             /\ Segmented' <=> Segmented
  <2>1. \A n \in 1 .. Len(<< >>) : << >>[n] = KindAt(Opening(r), Len(calls[r]) + n)
    OBVIOUS
  <2>2. Len(calls[r]) + Len(<< >>) = Len(calls[r])
    BY <1>5
  <2> QED
    BY <1>4, <1>6, <2>1, <2>2, Moved, TestFrame
\* A rank that enters one collective of the closing.
<1>7. ASSUME NEW p, NEW x, MovesOnly(r, p, <<x>>), Barriers(r)' = Barriers(r),
             x = KindAt(Opening(r), Len(calls[r]) + 1)
      PROVE  /\ KindsAt(r)' /\ pc'[r] = p /\ test' = test
             /\ Len(calls'[r]) = Len(calls[r]) + 1
             /\ Opening(r)' = Opening(r)
             /\ Wear' = Wear
             /\ PrefillPerSegment' <=> PrefillPerSegment
             /\ Segmented' <=> Segmented
  <2>1. \A n \in 1 .. Len(<<x>>) : <<x>>[n] = KindAt(Opening(r), Len(calls[r]) + n)
    BY <1>7
  <2>2. Len(<<x>>) = 1
    OBVIOUS
  <2> QED
    BY <1>4, <1>7, <2>1, <2>2, Moved, TestFrame
\* A rank that enters the barrier of its prefill.
<1>8. ASSUME NEW p, MovesOnly(r, p, <<"barrier">>), Len(calls[r]) = Opening(r),
             Barriers(r)' = Barriers(r) + 1, OpeningKind(Opening(r) + 1) = "barrier"
      PROVE  /\ KindsAt(r)' /\ pc'[r] = p /\ test' = test
             /\ Len(calls'[r]) = Opening(r)'
             /\ PrefillPerSegment' <=> PrefillPerSegment
             /\ Segmented' <=> Segmented
  <2>1. /\ test' = test /\ pairCnt' = pairCnt /\ pc'[r] = p
        /\ Enter(r, <<"barrier">>) /\ <<"barrier">> \in Seq(Kinds)
    BY <1>1, <1>8, KindNames DEF MovesOnly, Moves
  <2>2. Opening(r)' = Opening(r) + 1
    <3>1. Opening(r)' = Barriers(r)' + Entered(pairCnt[r])
      BY <2>1, TestFrame DEF Opening, Entered
    <3> QED
      BY <1>8, <3>1, OpeningType DEF Opening
  <2>3. Len(<<"barrier">>) = 1 /\ \A n \in 1 .. 1 : <<"barrier">>[n] = OpeningKind(Opening(r) + n)
    BY <1>8
  <2>4. KindsAt(r)' /\ Len(calls'[r]) = Opening(r)'
    BY <1>4, <1>8, <2>1, <2>2, <2>3, Opens
  <2> QED
    BY <2>1, <2>4, TestFrame
<1>9. CASE Tick(r)
  BY <1>9, TraceFrame DEF Tick, position
<1>10. CASE PrefillAll(r)
  <2>1. /\ pc[r] = "prefill" /\ MovesOnly(r, "prefillWait", <<"barrier">>)
        /\ pc'[r] = "prefillWait" /\ test' = test
    BY <1>1, <1>10, Shapes DEF PrefillAll
  <2>2. test.prefill /\ test.deadline = 0 /\ Len(calls[r]) = Opening(r)
        /\ ~PrefillPerSegment /\ ~Segmented
    BY <1>4, <2>1 DEF PrefillAt, LengthAt, PrefillPerSegment, Segmented
  <2>3. Barriers(r)' = Barriers(r) + 1
    BY <2>1, <2>2, TestFrame DEF Barriers, Unopened
  <2>4. OpeningKind(Opening(r) + 1) = "barrier"
    BY <2>2 DEF OpeningKind
  <2>5. /\ KindsAt(r)' /\ pc'[r] = "prefillWait" /\ test' = test
        /\ Len(calls'[r]) = Opening(r)'
        /\ PrefillPerSegment' <=> PrefillPerSegment
        /\ Segmented' <=> Segmented
    BY <1>8, <2>1, <2>2, <2>3, <2>4
  <2> QED
    BY <2>2, <2>5 DEF TraceAt, LengthAt, PrefillAt, InMainLoop
<1>11. CASE PrefillAllDone(r)
  <2>1. /\ pc[r] = "prefillWait" /\ MovesOnly(r, "segment", << >>)
        /\ pc'[r] = "segment" /\ test' = test
    BY <1>1, <1>11, Shapes DEF PrefillAllDone
  <2>2. test.prefill /\ test.deadline = 0 /\ Len(calls[r]) = Opening(r)
        /\ ~PrefillPerSegment /\ ~Segmented
    BY <1>4, <2>1 DEF PrefillAt, LengthAt, PrefillPerSegment, Segmented
  <2>3. Barriers(r)' = Barriers(r)
    BY <2>1, <2>2, TestFrame DEF Barriers, Unopened
  <2> QED
    BY <1>6, <2>1, <2>2, <2>3 DEF TraceAt, LengthAt, PrefillAt, InMainLoop
<1>12. CASE PrefillSegment(r)
  <2>1. /\ pc[r] = "segment" /\ MovesOnly(r, "segmentWait", <<"barrier">>)
        /\ PrefillPerSegment /\ i[r] < test.segmentCount /\ i'[r] = i[r] /\ ~hit[r]
        /\ pc'[r] = "segmentWait" /\ test' = test
    BY <1>1, <1>12, Shapes DEF PrefillSegment, MoreSegments, PrefillPerSegment, position
  <2>2. Len(calls[r]) = Opening(r) /\ test.prefill
    BY <1>4, <2>1 DEF LengthAt, InMainLoop, PrefillPerSegment
  <2>3. ~Segmented => i[r] = 0
    BY <1>3, <1>4, <2>1 DEF PrefillAt
  <2>4. Barriers(r)' = Barriers(r) + 1
    BY <2>1, <2>2, <2>3, TestFrame DEF Barriers, Unopened
  <2>5. OpeningKind(Opening(r) + 1) = "barrier"
    <3>1. CASE ~Segmented
      BY <2>2, <3>1 DEF OpeningKind
    <3>2. CASE Segmented
      <4> DEFINE O == test.offsets[0]
      <4>1. O \in Nat /\ test.offsets[r] = O
        BY <1>3, <3>2, LockedTest
      <4>2. i[r] \in Nat /\ pairCnt[r] = i[r] * O
        BY <1>2, <1>3, <1>4, <2>1, <3>2, <4>1 DEF CountAt
      <4>3. Opening(r) = i[r] + i[r] * O
        BY <1>3, <2>1, <3>2, <4>2 DEF Opening, Barriers, Entered
      <4>4. i[r] * (O + 1) = i[r] * O + i[r] /\ i[r] * O \in Nat
        BY <4>1, <4>2, Multiples
      <4>5. Opening(r) + 1 = BarrierAt(i[r])
        BY <4>2, <4>3, <4>4 DEF BarrierAt
      <4> QED
        BY <3>2, <4>2, <4>5 DEF OpeningKind
    <3> QED
      BY <3>1, <3>2
  <2>6. /\ KindsAt(r)' /\ pc'[r] = "segmentWait" /\ test' = test
        /\ Len(calls'[r]) = Opening(r)'
        /\ PrefillPerSegment' <=> PrefillPerSegment
        /\ Segmented' <=> Segmented
    BY <1>8, <2>1, <2>2, <2>4, <2>5
  <2> QED
    BY <2>1, <2>3, <2>6 DEF TraceAt, LengthAt, PrefillAt, InMainLoop
<1>13. CASE EnterBlock(r)
  <2>1. /\ MovesOnly(r, "block", << >>) /\ i' = i /\ pc'[r] = "block" /\ test' = test
        /\ \/ pc[r] = "segment" /\ ~PrefillPerSegment
           \/ pc[r] = "segmentWait"
    BY <1>1, <1>13, Shapes DEF EnterBlock, MoreSegments, PrefillPerSegment
  <2>2. /\ Len(calls[r]) = Opening(r)
        /\ PrefillPerSegment /\ ~Segmented => i[r] = 0
    BY <1>4, <2>1 DEF PrefillAt, LengthAt, InMainLoop
  <2>3. Barriers(r)' = Barriers(r)
    BY <1>3, <2>1, TestFrame DEF Barriers, Unopened
  <2> QED
    BY <1>6, <2>1, <2>2, <2>3 DEF TraceAt, LengthAt, PrefillAt, InMainLoop
<1>14. CASE Transfer(r)
  BY <1>4, <1>14, TransferTrace
<1>15. CASE BcastDone(r)
  <2>a. /\ pc[r] = "bcastWait" /\ pc'[r] = "block" /\ test' = test /\ i' = i
    BY <1>1, <1>15 DEF BcastDone, position
  <2>1. /\ pc[r] = "bcastWait" /\ Broadcasts /\ MovesOnly(r, "block", << >>)
        /\ pc'[r] = "block" /\ test' = test /\ i' = i
    BY <1>15, <2>a, Shapes DEF BcastInv
  <2>2. Len(calls[r]) = Opening(r) /\ (PrefillPerSegment => Segmented)
    BY <1>3, <1>4, <2>1 DEF LengthAt, InMainLoop, Segmented
  <2>3. Barriers(r)' = Barriers(r)
    BY <2>1, TestFrame DEF Barriers, Unopened
  <2> QED
    BY <1>6, <2>1, <2>2, <2>3 DEF TraceAt, LengthAt, PrefillAt, InMainLoop
<1>16. CASE LeaveBlock(r)
  <2>1. /\ pc[r] = "block" /\ MovesOnly(r, "segment", << >>) /\ i'[r] = i[r] + 1
        /\ pc'[r] = "segment" /\ test' = test
    BY <1>1, <1>16, Shapes DEF LeaveBlock
  <2>2. /\ Len(calls[r]) = Opening(r)
        /\ PrefillPerSegment /\ ~Segmented => i'[r] = 1
    BY <1>4, <2>1 DEF LengthAt, PrefillAt, InMainLoop
  <2>3. Barriers(r)' = Barriers(r)
    BY <2>1, <2>2, TestFrame DEF Barriers, Unopened
  <2> QED
    BY <1>6, <2>1, <2>2, <2>3 DEF TraceAt, LengthAt, PrefillAt, InMainLoop
<1>17. CASE Repeat(r)
  <2>1. /\ UNCHANGED <<test, pc, hit, pairCnt, calls>> /\ pc[r] = "segment"
        /\ now[r] < test.minTime
    BY <1>17 DEF Repeat
  <2>2. ~PrefillPerSegment /\ ~Segmented
    <3>1. test.minTime # 0
      BY <1>1, <1>2, <2>1
    <3> QED
      BY <1>3, <3>1
  <2>3. Opening(r)' = Opening(r)
    BY <2>1, <2>2, TestFrame DEF Opening, Barriers, Entered, Unopened
  <2>4. \A n : KindAt(Opening(r), n)' = KindAt(Opening(r), n)
    BY <2>1, <2>3, KindFrame DEF KindAt
  <2>5. KindsAt(r)'
    BY <1>4, <2>1, <2>4 DEF KindsAt
  <2>6. LengthAt(r)' /\ PrefillAt(r)'
    BY <1>4, <2>1, <2>2, <2>3, TestFrame DEF LengthAt, PrefillAt, InMainLoop
  <2> QED
    BY <2>5, <2>6 DEF TraceAt
<1>18. CASE LeaveLoop(r)
  <2>1. /\ pc[r] = "segment" /\ (i[r] >= test.segmentCount \/ hit[r])
        /\ i' = i /\ test' = test
        /\ \/ test.wearOut /\ pc'[r] = "agreeWait"
           \/ ~test.wearOut /\ pc'[r] = "errors"
    BY <1>1, <1>2, <1>18 DEF LeaveLoop, MoreSegments, position
  <2>2. Len(calls[r]) = Opening(r)
    BY <1>4, <2>1 DEF LengthAt, InMainLoop
  <2>3. \/ test.wearOut /\ MovesOnly(r, "agreeWait", <<"allreduce">>)
        \/ ~test.wearOut /\ MovesOnly(r, "errors", << >>)
    <3>1. \/ MovesOnly(r, "agreeWait", <<"allreduce">>)
          \/ MovesOnly(r, "errors", << >>)
      BY <1>18, Shapes
    <3>2. /\ MovesOnly(r, "agreeWait", <<"allreduce">>) => pc'[r] = "agreeWait"
          /\ MovesOnly(r, "errors", << >>) => pc'[r] = "errors"
      BY <1>1 DEF MovesOnly, Moves
    <3> QED
      BY <2>1, <3>1, <3>2
  <2>4. Barriers(r)' = Barriers(r)
    <3>1. CASE Segmented
      BY <2>1, <3>1, TestFrame DEF Barriers
    <3>2. CASE ~Segmented
      <4>1. ~Unopened(r)
        BY <1>2, <1>4, <1>5, <2>1, <3>2 DEF Unopened, PrefillAt
      <4> QED
        BY <2>1, <3>2, <4>1, TestFrame DEF Barriers, Unopened
    <3> QED
      BY <3>1, <3>2
  <2>5. CASE test.wearOut /\ MovesOnly(r, "agreeWait", <<"allreduce">>)
    <3>1. "allreduce" = KindAt(Opening(r), Len(calls[r]) + 1)
      BY <1>5, <2>2, <2>5 DEF KindAt, ClosingKind
    <3> QED
      BY <1>5, <1>7, <2>2, <2>4, <2>5, <3>1 DEF TraceAt, LengthAt, PrefillAt, InMainLoop
  <2>6. CASE ~test.wearOut /\ MovesOnly(r, "errors", << >>)
    BY <1>5, <1>6, <2>2, <2>4, <2>6 DEF TraceAt, LengthAt, PrefillAt, InMainLoop
  <2> QED
    BY <2>3, <2>5, <2>6
\* Nothing is prefilled after the loop.
<1>19. ASSUME ~InMainLoop(r), pc[r] \notin {"prefill", "prefillWait"}, test' = test,
              pc'[r] \in {"resume", "wearSegment", "wearBlock", "errors", "errorsWait", "done"},
              Segmented => i'[r] = i[r]
       PROVE  Barriers(r)' = Barriers(r)
  BY <1>19, TestFrame DEF Barriers, Unopened, InMainLoop
<1>20. CASE AgreeDone(r)
  <2>1. /\ pc[r] = "agreeWait" /\ test.wearOut /\ MovesOnly(r, "resume", <<"reduce">>)
        /\ pc'[r] = "resume" /\ test' = test /\ i' = i
    BY <1>1, <1>20, Shapes DEF AgreeDone, AgreeInv, position
  <2>2. Len(calls[r]) = Opening(r) + 1
    BY <1>4, <2>1 DEF LengthAt
  <2>3. "reduce" = KindAt(Opening(r), Len(calls[r]) + 1)
    BY <1>5, <2>1, <2>2 DEF KindAt, ClosingKind
  <2>4. Barriers(r)' = Barriers(r)
    BY <1>19, <2>1 DEF InMainLoop
  <2> QED
    BY <1>5, <1>7, <2>1, <2>2, <2>3, <2>4 DEF TraceAt, LengthAt, PrefillAt, InMainLoop
\* The rest of the closing: from "resume" to the wear-out or to "errors".
<1>21. ASSUME NEW p \in {"wearSegment", "wearBlock", "errors"}, MovesOnly(r, p, << >>),
              pc[r] \in {"resume", "wearSegment", "wearBlock"},
              Segmented => i'[r] = i[r]
       PROVE  TraceAt(r)'
  <2>1. test.wearOut /\ Len(calls[r]) = Opening(r) + 2
    BY <1>4, <1>21 DEF AgreeInv, LengthAt
  <2>2. pc'[r] = p /\ test' = test
    BY <1>1, <1>21 DEF MovesOnly, Moves
  <2>3. Barriers(r)' = Barriers(r)
    BY <1>19, <1>21, <2>2 DEF InMainLoop
  <2> QED
    BY <1>5, <1>6, <1>21, <2>1, <2>3 DEF TraceAt, LengthAt, PrefillAt, InMainLoop
<1>22. Locked => pc[r] \notin {"wearSegment", "wearBlock"}
  BY <1>4 DEF CountAt
<1>23. CASE Resume(r)
  <2>1. Segmented => i'[r] = i[r]
    BY <1>3, <1>23, NoWear DEF CountInv, position
  <2> QED
    BY <1>21, <1>23, <2>1, Shapes DEF Resume
<1>24. CASE WearSegment(r)
  <2>1. pc[r] = "wearSegment" /\ ~Segmented
    BY <1>3, <1>22, <1>24 DEF WearSegment
  <2> QED
    BY <1>21, <1>24, <2>1, Shapes
<1>25. CASE LeaveWearBlock(r)
  <2>1. pc[r] = "wearBlock" /\ ~Segmented
    BY <1>3, <1>22, <1>25 DEF LeaveWearBlock
  <2> QED
    BY <1>21, <1>25, <2>1, Shapes
<1>26. CASE WearTransfer(r)
  <2>1. /\ UNCHANGED <<test, pc, i, hit>> /\ pc[r] = "wearBlock" /\ ~Locked
        /\ pairCnt'[r] = pairCnt[r] + 1
        /\ Enter(r, IF test.collective THEN <<"xfer">> ELSE << >>)
    BY <1>1, <1>22, <1>26 DEF WearTransfer, Access
  <2>2. Enter(r, << >>) /\ ~(test.collective /\ Broadcasts)
    BY <2>1 DEF Locked, InStep
  <2>3. calls'[r] = calls[r]
    <3>1. calls'[r] = calls[r] \o << >> /\ calls[r] \in Seq(Kinds)
      BY <1>1, <2>2 DEF Enter
    <3> QED
      BY <3>1, ConcatEmptySeq
  <2>4. Opening(r)' = Opening(r)
    BY <2>1, <2>2, TestFrame DEF Opening, Barriers, Entered, Unopened
  <2>5. \A n : KindAt(Opening(r), n)' = KindAt(Opening(r), n)
    BY <2>1, <2>4, KindFrame DEF KindAt
  <2>6. KindsAt(r)'
    BY <1>4, <2>3, <2>5 DEF KindsAt
  <2>7. LengthAt(r)' /\ PrefillAt(r)'
    BY <1>4, <2>1, <2>3, <2>4, TestFrame DEF LengthAt, PrefillAt, InMainLoop
  <2> QED
    BY <2>6, <2>7 DEF TraceAt
<1>27. CASE CountErrors(r)
  <2>1. /\ pc[r] = "errors" /\ i' = i /\ test' = test
        /\ \/ r = 0 /\ Enter(r, <<"errReduce">>) /\ pc'[r] = "errorsWait"
           \/ r # 0 /\ Enter(r, <<"errReduce", "errBcast">>) /\ pc'[r] = "errorsWait"
           \/ calls' = calls /\ pc'[r] = "done"
    BY <1>1, <1>27 DEF CountErrors, position
  <2>2. Len(calls[r]) = Opening(r) + Wear
    BY <1>4, <2>1 DEF LengthAt
  <2>3. /\ "errReduce" = KindAt(Opening(r), Len(calls[r]) + 1)
        /\ "errBcast" = KindAt(Opening(r), Len(calls[r]) + 2)
    BY <1>5, <2>2 DEF KindAt, ClosingKind
  <2>a. Barriers(r)' = Barriers(r)
    BY <1>19, <2>1 DEF InMainLoop
  <2>4. CASE MovesOnly(r, "errorsWait", <<"errReduce">>)
    BY <1>5, <1>7, <2>2, <2>3, <2>4, <2>a DEF TraceAt, LengthAt, PrefillAt, InMainLoop
  <2>5. CASE MovesOnly(r, "errorsWait", <<"errReduce", "errBcast">>)
    <3> DEFINE k == <<"errReduce", "errBcast">>
    <3>1. \A n \in 1 .. Len(k) : k[n] = KindAt(Opening(r), Len(calls[r]) + n)
      BY <2>3
    <3>a. MovesOnly(r, "errorsWait", k) /\ Len(k) = 2
      BY <2>5
    <3> HIDE DEF k
    <3>2. /\ KindsAt(r)' /\ pc'[r] = "errorsWait" /\ test' = test
          /\ PrefillPerSegment' <=> PrefillPerSegment
          /\ Segmented' <=> Segmented
          /\ Len(calls'[r]) = Len(calls[r]) + 2
      BY <1>4, <2>a, <3>1, <3>a, Moved, TestFrame
    <3>3. r # 0
      <4>1. Len(calls'[r]) # Len(calls[r]) + 1 /\ Len(calls'[r]) # Len(calls[r])
        BY <1>5, <3>2
      <4>2. Enter(r, <<"errReduce">>) => Len(calls'[r]) = Len(calls[r]) + 1
        BY <1>1, KindNames, EnterCalls
      <4> QED
        BY <2>1, <4>1, <4>2
    <3> QED
      BY <3>2, <3>3 DEF TraceAt, LengthAt, PrefillAt, InMainLoop
  <2>6. CASE MovesOnly(r, "done", << >>)
    BY <1>6, <2>6, <2>a DEF TraceAt, LengthAt, PrefillAt, InMainLoop
  <2> QED
    BY <1>27, <2>4, <2>5, <2>6, Shapes
<1>28. CASE CountErrorsDone(r)
  <2>a. Barriers(r)' = Barriers(r) /\ pc[r] = "errorsWait"
    <3>1. pc[r] = "errorsWait" /\ pc'[r] = "done" /\ i' = i /\ test' = test
      BY <1>1, <1>28 DEF CountErrorsDone, position
    <3> QED
      BY <1>19, <3>1 DEF InMainLoop
  <2>1. CASE MovesOnly(r, "done", << >>)
    BY <1>6, <2>1, <2>a DEF TraceAt, LengthAt, PrefillAt, InMainLoop
  <2>2. CASE MovesOnly(r, "done", <<"errBcast">>)
    <3>1. r = 0 /\ pc[r] = "errorsWait"
      <4>1. Len(calls'[r]) = Len(calls[r]) + 1
        BY <1>1, <2>2, KindNames, EnterCalls DEF MovesOnly, Moves
      <4>2. calls' # calls
        BY <1>5, <4>1
      <4> QED
        BY <1>28, <2>a, <4>2 DEF CountErrorsDone
    <3>2. Len(calls[r]) = Opening(r) + Wear + 1
      BY <1>4, <3>1 DEF LengthAt
    <3>3. "errBcast" = KindAt(Opening(r), Len(calls[r]) + 1)
      BY <1>5, <3>2 DEF KindAt, ClosingKind
    <3> QED
      BY <1>7, <2>2, <2>a, <3>3 DEF TraceAt, LengthAt, PrefillAt, InMainLoop
  <2> QED
    BY <1>28, <2>1, <2>2, Shapes
<1> QED
  BY <1>9, <1>10, <1>11, <1>12, <1>13, <1>14, <1>15, <1>16, <1>17, <1>18, <1>20,
     <1>23, <1>24, <1>25, <1>26, <1>27, <1>28 DEF RankStep

(* What has been decided stays decided. *)
LEMMA StopsKept ==
    ASSUME TypeOK, NEW r \in Ranks, RankStep(r) \/ Tick(r), test' = test,
           NEW m \in Nat, m <= Len(hitLog) \/ ~Broadcasts
    PROVE  StopsAt(m)' <=> StopsAt(m)
<1>1. Broadcasts' <=> Broadcasts
  BY DEF Broadcasts
<1>2. CASE hitLog' = hitLog
  BY <1>1, <1>2 DEF StopsAt
<1>3. CASE ~Broadcasts
  BY <1>1, <1>3 DEF StopsAt
<1>4. CASE Broadcasts /\ hitLog' = Append(hitLog, hit'[r])
  <2>1. hitLog \in Seq(BOOLEAN) /\ Len(hitLog) \in Nat
    BY DEF TypeOK
  <2>2. Len(hitLog') = Len(hitLog) + 1 /\ \A n \in 1 .. Len(hitLog) : hitLog'[n] = hitLog[n]
    BY <1>4, <2>1
  <2> QED
    BY <1>1, <1>4, <2>1, <2>2 DEF StopsAt
<1> QED
  BY <1>2, <1>3, <1>4, StepLog

(* The log of decisions only grows. *)
LEMMA LogGrows ==
    ASSUME TypeOK, NEW r \in Ranks, RankStep(r) \/ Tick(r)
    PROVE  Len(hitLog) \in Nat /\ Len(hitLog') \in Nat /\ Len(hitLog) <= Len(hitLog')
<1>1. hitLog \in Seq(BOOLEAN)
  BY DEF TypeOK
<1>2. CASE hitLog' = hitLog
  BY <1>1, <1>2
<1>3. CASE hitLog' = Append(hitLog, hit'[r])
  BY <1>1, <1>3
<1> QED
  BY <1>2, <1>3, StepLog

(* A rank that does not move keeps what its count says. *)
LEMMA CountFrame ==
    ASSUME TypeOK, NEW r \in Ranks, RankStep(r) \/ Tick(r), NEW s \in Ranks, CountAt(s),
           test' = test, pc'[s] = pc[s], i'[s] = i[s], j'[s] = j[s], hit'[s] = hit[s],
           pairCnt'[s] = pairCnt[s], sent'[s] = sent[s]
    PROVE  CountAt(s)'
<1> SUFFICES ASSUME NEW n, pairCnt[s] = n PROVE CountAt(s)'
  OBVIOUS
<1>1. n \in Nat /\ Len(hitLog) \in Nat /\ Len(hitLog') \in Nat /\ Len(hitLog) <= Len(hitLog')
  BY LogGrows DEF TypeOK
<1>2. Broadcasts' <=> Broadcasts
  BY DEF Broadcasts
<1>3. Broadcasts => n <= Len(hitLog) \/ (pc[s] = "bcastWait" /\ n <= Len(hitLog) + 1)
  BY DEF CountAt
<1>4. \A m \in 1 .. n - 1 : StopsAt(m)' <=> StopsAt(m)
  BY <1>1, <1>3, StopsKept
<1>5. pc[s] # "bcastWait" => (StopsAt(n)' <=> StopsAt(n))
  BY <1>1, <1>3, StopsKept
<1>6. Broadcasts' => n <= Len(hitLog') \/ (pc[s] = "bcastWait" /\ n <= Len(hitLog') + 1)
  BY <1>1, <1>2, <1>3
<1>7. Past(s)' <=> Past(s)
  BY DEF Past, AfterAgree
<1>8. \A m \in 1 .. n - 1 : ~StopsAt(m)'
  BY <1>4 DEF CountAt
<1>9. StoppedIn(s)' <=> StoppedIn(s)
  BY DEF StoppedIn
<1>10. Past(s) => pc[s] # "bcastWait"
  BY DEF Past, AfterAgree, Finished
<1> QED
  BY <1>5, <1>6, <1>7, <1>8, <1>9, <1>10 DEF CountAt

(* Every step of a rank keeps what its count says. *)
LEMMA CountStep ==
    ASSUME CollectivesSafe, TypeOK, BcastInv, AgreeInv, Locked, NEW r \in Ranks,
           TraceAt(r), \A s \in Ranks : CountAt(s), RankStep(r) \/ Tick(r)
    PROVE  CountAt(r)'
<1>1. /\ pc \in [Ranks -> PCs] /\ i \in [Ranks -> Int] /\ j \in [Ranks -> Nat]
      /\ pairCnt \in [Ranks -> Nat] /\ hit \in [Ranks -> BOOLEAN]
      /\ now \in [Ranks -> Nat] /\ sent \in [Ranks -> Nat] /\ hitLog \in Seq(BOOLEAN)
  BY DEF TypeOK
<1>2. /\ test.minTime = 0
      /\ test.segmentCount \in Nat \ {0} /\ test.deadline \in Nat
      /\ test.offsets[r] \in Nat /\ test.iterations[r] \in Nat
      /\ test.iterations[r] = test.iterations[0]
      /\ ~Broadcasts => test.deadline = 0
      /\ test.prefill => test.deadline # 0
  BY LockedTest DEF Segmented, PrefillPerSegment
<1> SUFFICES ASSUME NEW S, NEW O, NEW n, test.segmentCount = S, test.offsets[r] = O,
                    pairCnt[r] = n
             PROVE  CountAt(r)'
  OBVIOUS
<1>3. S \in Nat \ {0} /\ O \in Nat /\ n \in Nat
      /\ Len(hitLog) \in Nat /\ Len(hitLog') \in Nat /\ Len(hitLog) <= Len(hitLog')
  BY <1>1, <1>2, LogGrows
<1>4. CountAt(r) /\ pc[r] \notin {"prefill", "prefillWait"}
  BY <1>2 DEF TraceAt, PrefillAt
<1>5. /\ pc[r] \notin {"wearSegment", "wearBlock"} /\ n <= S * O
      /\ \A m \in 1 .. n - 1 : ~StopsAt(m)
      /\ Broadcasts => n <= Len(hitLog) \/ (pc[r] = "bcastWait" /\ n <= Len(hitLog) + 1)
  BY <1>4 DEF CountAt
\* What a rank does that neither transfers nor decides.
<1>6. ASSUME test' = test, pairCnt'[r] = n
      PROVE  /\ \A m \in 1 .. n - 1 : ~StopsAt(m)'
             /\ pc[r] # "bcastWait" => (StopsAt(n)' <=> StopsAt(n))
             /\ Broadcasts' <=> Broadcasts
  <2>1. \A m \in 1 .. n - 1 : StopsAt(m)' <=> StopsAt(m)
    BY <1>3, <1>5, <1>6, StopsKept
  <2>2. pc[r] # "bcastWait" => (StopsAt(n)' <=> StopsAt(n))
    BY <1>3, <1>5, <1>6, StopsKept
  <2> QED
    BY <1>5, <1>6, <2>1, <2>2 DEF Broadcasts
\* The closing collectives.
<1>7. ASSUME NEW p \in {"resume", "errors", "errorsWait", "done"}, NEW k,
             MovesOnly(r, p, k), Past(r), sent'[r] = sent[r], i'[r] = i[r]
      PROVE  CountAt(r)'
  <2>1. test' = test /\ pairCnt'[r] = n /\ pc'[r] = p /\ pc[r] # "bcastWait"
    BY <1>1, <1>7 DEF MovesOnly, Moves, Past, AfterAgree, Finished
  <2>2. /\ (n = S * O /\ i[r] = S) \/ (StopsAt(n) /\ StoppedIn(r))
        /\ test.wearOut => sent[r] = n
    BY <1>4, <1>7, <2>1 DEF CountAt
  <2>3. Broadcasts => n <= Len(hitLog')
    BY <1>3, <1>5, <2>1
  <2>4. StoppedIn(r)' <=> StoppedIn(r)
    BY <1>7, <2>1 DEF StoppedIn
  <2> QED
    BY <1>5, <1>6, <1>7, <2>1, <2>2, <2>3, <2>4 DEF CountAt
<1>8. CASE Tick(r)
  BY <1>4, <1>8, CountFrame DEF Tick, position, result
<1>9. CASE PrefillAll(r) \/ PrefillAllDone(r) \/ Repeat(r)
  <2>1. pc[r] \in {"prefill", "prefillWait"} \/ now[r] < test.minTime
    BY <1>9 DEF PrefillAll, PrefillAllDone, Repeat
  <2> QED
    BY <1>1, <1>2, <1>4, <2>1
<1>10. CASE PrefillSegment(r)
  <2>1. /\ pc[r] = "segment" /\ i[r] < S /\ ~hit[r] /\ pc'[r] = "segmentWait"
        /\ test' = test /\ pairCnt'[r] = n /\ i'[r] = i[r] /\ hit'[r] = hit[r]
    BY <1>1, <1>10 DEF PrefillSegment, MoreSegments, position
  <2>2. i[r] \in 0 .. S /\ n = i[r] * O /\ ~StopsAt(n)
    BY <1>4, <2>1 DEF CountAt
  <2>3. i[r] \in 0 .. S - 1
    BY <1>3, <2>1, <2>2
  <2>4. Broadcasts => n <= Len(hitLog')
    BY <1>3, <1>5, <2>1
  <2> QED
    BY <1>5, <1>6, <2>1, <2>2, <2>3, <2>4 DEF CountAt, Past, AfterAgree, Finished
<1>11. CASE EnterBlock(r)
  <2>1. /\ pc[r] \in {"segment", "segmentWait"} /\ pc'[r] = "block" /\ j'[r] = 0
        /\ pc[r] = "segment" => i[r] < S /\ ~hit[r]
        /\ test' = test /\ pairCnt'[r] = n /\ i'[r] = i[r] /\ hit'[r] = hit[r]
    BY <1>1, <1>11 DEF EnterBlock, MoreSegments
  <2>2. i[r] \in 0 .. S /\ n = i[r] * O /\ ~StopsAt(n) /\ ~hit[r] /\ i[r] < S
    BY <1>3, <1>4, <2>1 DEF CountAt
  <2>3. n = i[r] * O + 0 /\ i[r] \in 0 .. S - 1 /\ 0 \in 0 .. O
    BY <1>3, <2>1, <2>2
  <2>4. Broadcasts => n <= Len(hitLog')
    BY <1>3, <1>5, <2>1
  <2> QED
    BY <1>5, <1>6, <2>1, <2>2, <2>3, <2>4 DEF CountAt, Past, AfterAgree, Finished
<1>12. CASE Transfer(r)
  <2>1. /\ pc[r] = "block" /\ ~hit[r] /\ j[r] < O /\ test' = test /\ i'[r] = i[r]
        /\ j'[r] = j[r] + 1 /\ pairCnt'[r] = n + 1
        /\ hit'[r] = HitStonewall(r, n + 1)
        /\ hitLog' = IF Broadcasts /\ r = 0 THEN Append(hitLog, hit'[r]) ELSE hitLog
        /\ pc'[r] = IF Broadcasts /\ r # 0 THEN "bcastWait" ELSE "block"
    BY <1>1, <1>12 DEF Transfer, Access
  <2>2. /\ ~StopsAt(n) /\ n = i[r] * O + j[r] /\ i[r] \in 0 .. S - 1 /\ j[r] \in 0 .. O
        /\ Broadcasts => n <= Len(hitLog)
    BY <1>4, <1>5, <2>1 DEF CountAt
  <2>a. i[r] \in Nat /\ i[r] < S /\ j[r] \in Nat /\ j[r] < O
    BY <1>3, <2>1, <2>2
  <2>b. i[r] * O \in Nat /\ i[r] * O + j[r] + 1 <= S * O
    <3>1. i[r] * O + O <= S * O /\ i[r] * O \in Nat /\ S * O \in Nat
      BY <1>3, <2>a, Multiples
    <3> QED
      BY <1>3, <2>a, <3>1
  <2>3. n + 1 <= S * O
    BY <2>2, <2>b
  <2>4. n + 1 = i'[r] * O + j'[r] /\ i'[r] \in 0 .. S - 1 /\ j'[r] \in 0 .. O
        /\ j'[r] # 0
    <3>1. i'[r] * O = i[r] * O /\ i'[r] \in 0 .. S - 1 /\ j'[r] \in 0 .. O /\ j'[r] # 0
      BY <1>3, <2>1, <2>2, <2>a
    <3>2. n + 1 = i[r] * O + (j[r] + 1)
      BY <2>2, <2>a, <2>b
    <3> QED
      BY <2>1, <3>1, <3>2
  <2>5. \A m \in 1 .. n : ~StopsAt(m)'
    <3>1. \A m \in 1 .. n : ~StopsAt(m)
      BY <1>3, <1>5, <2>2
    <3>2. ASSUME NEW m \in 1 .. n PROVE StopsAt(m)' <=> StopsAt(m)
      <4>1. m \in Nat /\ (m <= Len(hitLog) \/ ~Broadcasts) /\ test' = test
        BY <1>3, <2>1, <2>2
      <4> QED
        BY <4>1, StopsKept
    <3> QED
      BY <3>1, <3>2
  <2>6. Broadcasts' <=> Broadcasts
    BY <2>1 DEF Broadcasts
  <2>7. Broadcasts => n + 1 <= Len(hitLog') \/ (pc'[r] = "bcastWait" /\ n + 1 <= Len(hitLog') + 1)
    <3>1. CASE Broadcasts /\ r = 0
      <4>1. Len(hitLog') = Len(hitLog) + 1
        BY <1>1, <2>1, <3>1
      <4> QED
        BY <1>3, <2>2, <4>1
    <3>2. CASE r # 0
      BY <1>3, <2>1, <2>2, <3>2
    <3> QED
      BY <3>1, <3>2
  <2>8. pc'[r] = "block" => (hit'[r] <=> StopsAt(n + 1)')
    <3>1. CASE Broadcasts /\ r = 0
      <4>1. Len(hitLog) = n
        BY <2>1, <3>1 DEF BcastInv, InMainLoop
      <4>2. hitLog' = Append(hitLog, hit'[r])
        BY <2>1, <3>1
      <4>3. Len(hitLog') = n + 1 /\ hitLog'[n + 1] = hit'[r]
        BY <1>1, <4>1, <4>2
      <4> QED
        BY <1>3, <2>6, <3>1, <4>3 DEF StopsAt
    <3>2. CASE ~Broadcasts
      <4>1. hit'[r] <=> test.iterations[r] # 0 /\ n + 1 = test.iterations[r]
        BY <1>2, <2>1, <3>2 DEF HitStonewall
      <4> QED
        BY <1>2, <2>1, <2>6, <3>2, <4>1 DEF StopsAt
    <3> QED
      BY <2>1, <3>1, <3>2
  <2>9. pc'[r] \in {"block", "bcastWait"}
    BY <2>1
  <2>10. ~Past(r)'
    BY <2>9 DEF Past, AfterAgree, Finished
  <2>11. (n + 1) - 1 = n
    BY <1>3
  <2> QED
    BY <2>1, <2>3, <2>4, <2>5, <2>6, <2>7, <2>8, <2>9, <2>10, <2>11 DEF CountAt
<1>13. CASE BcastDone(r)
  <2>1. /\ pc[r] = "bcastWait" /\ pc'[r] = "block" /\ hit'[r] = hitLog[n]
        /\ test' = test /\ pairCnt'[r] = n /\ i'[r] = i[r] /\ j'[r] = j[r]
        /\ hitLog' = hitLog
    BY <1>1, <1>13 DEF BcastDone, position
  <2>2. n \in 1 .. Len(hitLog) /\ Broadcasts
    BY <1>13, <2>1, BcastValue DEF BcastInv
  <2>3. Broadcasts' <=> Broadcasts
    BY <2>1 DEF Broadcasts
  <2>4. hit'[r] <=> StopsAt(n)'
    BY <2>1, <2>2, <2>3 DEF StopsAt
  <2>5. i[r] \in 0 .. S - 1 /\ j[r] \in 0 .. O /\ n = i[r] * O + j[r] /\ j[r] # 0
    BY <1>4, <2>1 DEF CountAt
  <2>6. n <= Len(hitLog')
    BY <2>1, <2>2
  <2> QED
    BY <1>5, <1>6, <2>1, <2>3, <2>4, <2>5, <2>6
       DEF CountAt, Past, AfterAgree, Finished
<1>14. CASE LeaveBlock(r)
  <2>1. /\ pc[r] = "block" /\ pc'[r] = "segment" /\ i'[r] = i[r] + 1
        /\ j[r] >= O \/ hit[r]
        /\ test' = test /\ pairCnt'[r] = n /\ hit'[r] = hit[r]
    BY <1>1, <1>14 DEF LeaveBlock
  <2>2. /\ i[r] \in 0 .. S - 1 /\ j[r] \in 0 .. O /\ n = i[r] * O + j[r]
        /\ hit[r] <=> StopsAt(n)
        /\ j[r] = 0 => ~StopsAt(n)
    BY <1>4, <2>1 DEF CountAt
  <2>3. /\ i[r] \in Nat /\ i'[r] \in 1 .. S /\ j[r] \in Nat /\ j[r] <= O /\ i[r] * O \in Nat
        /\ i'[r] * O = i[r] * O + O /\ i'[r] - 1 = i[r]
    <3>1. i[r] \in Nat /\ i'[r] \in 1 .. S /\ i'[r] - 1 = i[r] /\ j[r] \in Nat /\ j[r] <= O
      BY <1>3, <2>1, <2>2
    <3>2. i[r] * O \in Nat /\ (i[r] + 1) * O = i[r] * O + O
      BY <1>3, <3>1, Multiples
    <3> QED
      BY <2>1, <3>1, <3>2
  <2>4. ~hit[r] => n = i'[r] * O
    <3>1. ~hit[r] => j[r] = O
      BY <1>3, <2>1, <2>3
    <3> QED
      BY <2>2, <2>3, <3>1
  <2>5. hit[r] => StoppedIn(r)'
    <3> DEFINE P == i[r] * O
               Q == i'[r] * O
    <3>1. hit[r] => P < n /\ n <= Q
      <4>1. hit[r] => j[r] > 0
        BY <2>2, <2>3
      <4>2. n = P + j[r] /\ Q = P + O /\ P \in Nat
        BY <2>2, <2>3
      <4> HIDE DEF P, Q
      <4> QED
        BY <1>3, <2>3, <4>1, <4>2
    <3> QED
      BY <2>1, <2>3, <3>1 DEF StoppedIn
  <2>6. Broadcasts => n <= Len(hitLog')
    BY <1>3, <1>5, <2>1
  <2>7. i'[r] \in 0 .. S
    BY <2>3
  <2> QED
    BY <1>5, <1>6, <2>1, <2>2, <2>4, <2>5, <2>6, <2>7 DEF CountAt, Past, AfterAgree, Finished
<1>15. CASE LeaveLoop(r)
  <2>1. /\ pc[r] = "segment" /\ (i[r] >= S \/ hit[r]) /\ i'[r] = i[r]
        /\ test' = test /\ pairCnt'[r] = n /\ pc'[r] \in {"agreeWait", "errors"}
        /\ test.wearOut => sent'[r] = n
    BY <1>1, <1>3, <1>15 DEF LeaveLoop, MoreSegments, position
  <2>2. (n = S * O /\ i[r] = S) \/ (StopsAt(n) /\ StoppedIn(r))
    BY <1>3, <1>4, <2>1 DEF CountAt
  <2>3. Broadcasts => n <= Len(hitLog')
    BY <1>3, <1>5, <2>1
  <2>4. StoppedIn(r)' <=> StoppedIn(r)
    BY <2>1 DEF StoppedIn
  <2> QED
    BY <1>5, <1>6, <2>1, <2>2, <2>3, <2>4 DEF CountAt
<1>16. CASE AgreeDone(r)
  <2>1. Past(r) /\ sent'[r] = sent[r] /\ i'[r] = i[r] /\ MovesOnly(r, "resume", <<"reduce">>)
    BY <1>16, Shapes DEF AgreeDone, Past, position
  <2> QED
    BY <1>7, <2>1
<1>17. CASE Resume(r)
  <2>1. sent'[r] = sent[r] /\ Past(r)
    BY <1>17 DEF Resume, Past, AfterAgree, result
  <2>2. MovesOnly(r, "errors", << >>) /\ i'[r] = i[r]
    BY <1>17, NoWear DEF position
  <2> QED
    BY <1>7, <2>1, <2>2
<1>18. CASE WearSegment(r) \/ WearTransfer(r) \/ LeaveWearBlock(r)
  BY <1>5, <1>18 DEF WearSegment, WearTransfer, LeaveWearBlock
<1>19. CASE CountErrors(r)
  <2>1. Past(r) /\ sent'[r] = sent[r] /\ i'[r] = i[r]
    BY <1>19 DEF CountErrors, Past, AfterAgree, Finished, result, position
  <2> QED
    BY <1>7, <1>19, <2>1, Shapes
<1>20. CASE CountErrorsDone(r)
  <2>1. Past(r) /\ sent'[r] = sent[r] /\ i'[r] = i[r]
    BY <1>20 DEF CountErrorsDone, Past, AfterAgree, Finished, result, position
  <2> QED
    BY <1>7, <1>20, <2>1, Shapes
<1> QED
  BY <1>8, <1>9, <1>10, <1>11, <1>12, <1>13, <1>14, <1>15, <1>16, <1>17, <1>18, <1>19,
     <1>20 DEF RankStep

----------------------------------------------------------------------------
(* Every step keeps traces and counts. *)
LEMMA CollectivesStep ==
    ASSUME CollectivesSafe, TypeOK, BcastInv, AgreeInv, TraceInv, CountInv, [Next]_vars
    PROVE  TraceInv' /\ CountInv'
<1>1. CASE UNCHANGED vars
  <2>1. TraceInv'
    BY <1>1, TraceFrame DEF vars, TraceInv, position
  <2>2. ASSUME NEW s \in Ranks PROVE CountAt(s)' <=> CountAt(s)
    BY <1>1 DEF vars, position, result, CountAt, StopsAt, StoppedIn, Broadcasts, Past, AfterAgree
  <2>3. Locked' <=> Locked
    BY <1>1, TestFrame DEF vars
  <2> QED
    BY <2>1, <2>2, <2>3 DEF CountInv
<1>2. ASSUME NEW r \in Ranks, RankStep(r) \/ Tick(r) PROVE TraceInv' /\ CountInv'
  <2>1. test' = test
    BY <1>2, Shapes DEF RankStep, MovesOnly, Moves, Transfer, WearTransfer, Repeat, Tick
  <2>2. TraceAt(r)'
    BY <1>2, TraceStep DEF TraceInv
  <2>3. ASSUME NEW s \in Ranks, s # r PROVE TraceAt(s)'
    BY <1>2, <2>3, OthersUntouched, OthersCalls, TraceFrame DEF TraceInv
  <2>4. ASSUME Locked PROVE CountAt(r)'
    BY <1>2, <2>4, CountStep DEF CountInv, TraceInv
  <2>5. ASSUME Locked, NEW s \in Ranks, s # r PROVE CountAt(s)'
    BY <1>2, <2>5, OthersUntouched, CountFrame DEF CountInv
  <2>6. TraceInv'
    BY <2>2, <2>3 DEF TraceInv
  <2>7. Locked' <=> Locked
    BY <2>1, TestFrame
  <2>8. CountInv'
    BY <2>4, <2>5, <2>7 DEF CountInv
  <2> QED
    BY <2>6, <2>8
<1> QED
  BY <1>1, <1>2 DEF Next, Returned

(* At the start of the call nothing is entered and nothing counted. *)
LEMMA CollectivesInit == Init => TraceInv /\ CountInv
<1> SUFFICES ASSUME Init PROVE TraceInv /\ CountInv
  OBVIOUS
<1>1. /\ test \in Tests /\ test.segmentCount \in Nat \ {0} /\ test.deadline \in Nat
      /\ test.offsets \in [Ranks -> Nat] /\ test.iterations \in [Ranks -> Nat]
  BY TestType DEF Init, ValidTest
<1>2. TraceInv
  <2> SUFFICES ASSUME NEW r \in Ranks PROVE TraceAt(r)
    BY DEF TraceInv
  <2>1. /\ pc[r] = IF test.prefill /\ test.deadline = 0 THEN "prefill" ELSE "segment"
        /\ i[r] = 0 /\ ~hit[r] /\ pairCnt[r] = 0 /\ calls[r] = << >>
    BY DEF Init
  <2>2. Len(calls[r]) = 0 /\ KindsAt(r)
    BY <2>1 DEF KindsAt
  <2>3. Barriers(r) = 0 /\ Entered(0) = 0
    BY <2>1 DEF Barriers, Entered, Unopened, Segmented, PrefillPerSegment
  <2>4. Opening(r) = 0
    BY <2>1, <2>3 DEF Opening
  <2> QED
    BY <2>1, <2>2, <2>4 DEF TraceAt, LengthAt, PrefillAt, PrefillPerSegment, InMainLoop
<1>3. CountInv
  <2> SUFFICES ASSUME NEW r \in Ranks PROVE CountAt(r)
    BY DEF CountInv
  <2>1. /\ pc[r] \in {"prefill", "segment"} /\ i[r] = 0 /\ ~hit[r] /\ pairCnt[r] = 0
        /\ hitLog = << >> /\ test.offsets[r] \in Nat
    BY <1>1 DEF Init
  <2>2. ~StopsAt(0)
    BY <1>1, RootRank DEF StopsAt
  <2>3. 0 <= test.segmentCount * test.offsets[r] /\ 0 = 0 * test.offsets[r] /\ Len(hitLog) = 0
    BY <1>1, <2>1, Multiples
  <2>4. 0 \in 0 .. test.segmentCount /\ \A m \in 1 .. 0 - 1 : ~StopsAt(m)
    BY <1>1
  <2>5. ~Past(r) /\ pc[r] \notin {"wearSegment", "wearBlock", "segmentWait", "block", "bcastWait"}
    BY <2>1 DEF Past, AfterAgree, Finished
  <2> QED
    BY <2>1, <2>2, <2>3, <2>4, <2>5 DEF CountAt
<1> QED
  BY <1>2, <1>3

(* A rank out of its loop has done as much as any other, and a stop is the *)
(* same transfer for all.                                                  *)
LEMMA SameCount ==
    ASSUME CollectivesSafe, TypeOK, CountInv, Locked, NEW r \in Ranks, NEW s \in Ranks,
           Past(r)
    PROVE  /\ pairCnt[s] \in Nat /\ pairCnt[r] \in Nat /\ pairCnt[s] <= pairCnt[r]
           /\ Past(s) \/ StopsAt(pairCnt[s]) => pairCnt[s] = pairCnt[r]
<1>1. CountAt(r) /\ CountAt(s) /\ test.offsets[s] = test.offsets[r]
      /\ pairCnt[r] \in Nat /\ pairCnt[s] \in Nat
  BY LockedTest DEF CountInv, TypeOK
<1> DEFINE N == test.segmentCount * test.offsets[r]
<1>2. N \in Nat
  <2>1. test.segmentCount \in Nat /\ test.offsets[r] \in Nat
    BY LockedTest
  <2> QED
    BY <2>1, Multiples
<1>3. /\ pairCnt[r] <= N /\ pairCnt[s] <= N
      /\ pairCnt[r] = N \/ StopsAt(pairCnt[r])
      /\ Past(s) => pairCnt[s] = N \/ StopsAt(pairCnt[s])
      /\ \A m \in 1 .. pairCnt[r] - 1 : ~StopsAt(m)
      /\ \A m \in 1 .. pairCnt[s] - 1 : ~StopsAt(m)
  BY <1>1 DEF CountAt
<1>4. \A m \in Nat : StopsAt(m) => m > 0
  BY DEF StopsAt
<1> HIDE DEF N
<1> QED
  BY <1>1, <1>2, <1>3, <1>4

(* What is beyond a segment's start is in a later segment. *)
LEMMA LaterSegment ==
    ASSUME NEW M \in Nat, NEW a \in Nat, NEW b \in Nat, NEW n \in Nat, a * M < n, n <= b * M
    PROVE  a < b
<1>1. a * M \in Nat /\ b * M \in Nat /\ (b <= a => b * M <= a * M)
  BY Multiples
<1> QED
  BY <1>1

(* ... and has met the barrier of every segment that any other has met.    *)
LEMMA SameBarriers ==
    ASSUME CollectivesSafe, TypeOK, CountInv, TraceInv, Segmented, Locked,
           NEW r \in Ranks, NEW s \in Ranks, Past(r)
    PROVE  Barriers(s) <= i[r] /\ Barriers(s) \in Nat /\ i[r] \in Nat
<1> SUFFICES ASSUME NEW S, NEW O, test.segmentCount = S, test.offsets[r] = O
             PROVE  Barriers(s) <= i[r] /\ Barriers(s) \in Nat /\ i[r] \in Nat
  OBVIOUS
<1>1. S \in Nat \ {0} /\ O \in Nat /\ test.offsets[s] = O /\ test.prefill
      /\ test.deadline # 0
  BY LockedTest DEF Segmented, PrefillPerSegment
<1>2. /\ pairCnt[s] \in Nat /\ pairCnt[r] \in Nat /\ pairCnt[s] <= pairCnt[r]
      /\ Past(s) \/ StopsAt(pairCnt[s]) => pairCnt[s] = pairCnt[r]
  BY SameCount
<1>3. /\ pc \in [Ranks -> PCs] /\ j[s] \in Nat /\ CountAt(r) /\ CountAt(s) /\ TraceAt(s)
  BY DEF TypeOK, CountInv, TraceInv
<1>4. (pairCnt[r] = S * O /\ i[r] = S) \/ (StopsAt(pairCnt[r]) /\ StoppedIn(r))
  BY <1>3 DEF CountAt
\* Where the other may be, and what is known of it there.
<1>5. \/ pc[s] = "segment" /\ ~hit[s] /\ ~StopsAt(pairCnt[s]) /\ i[s] \in 0 .. S
         /\ pairCnt[s] = i[s] * O /\ Barriers(s) = i[s]
      \/ pc[s] = "segment" /\ StopsAt(pairCnt[s]) /\ StoppedIn(s) /\ Barriers(s) = i[s]
      \/ i[s] \in 0 .. S - 1 /\ ~StopsAt(pairCnt[s]) /\ pairCnt[s] = i[s] * O
         /\ Barriers(s) = i[s] + 1
      \/ i[s] \in 0 .. S - 1 /\ i[s] * O < pairCnt[s] /\ Barriers(s) = i[s] + 1
      \/ Past(s) /\ pairCnt[s] = S * O /\ i[s] = S /\ Barriers(s) = i[s]
      \/ Past(s) /\ StoppedIn(s) /\ Barriers(s) = i[s]
  <2>1. pc[s] \notin {"prefill", "prefillWait"}
    BY <1>1, <1>3 DEF TraceAt, PrefillAt
  <2>2. CASE pc[s] = "segment"
    BY <1>1, <1>3, <2>2 DEF CountAt, Barriers
  <2>3. CASE pc[s] = "segmentWait"
    BY <1>1, <1>3, <2>3 DEF CountAt, Barriers
  <2>4. CASE pc[s] \in {"block", "bcastWait"}
    <3>1. /\ i[s] \in 0 .. S - 1 /\ pairCnt[s] = i[s] * O + j[s] /\ Barriers(s) = i[s] + 1
          /\ j[s] = 0 => ~StopsAt(pairCnt[s])
      BY <1>1, <1>3, <2>4 DEF CountAt, Barriers
    <3>2. i[s] * O \in Nat
      <4>1. i[s] \in Nat
        BY <1>1, <3>1
      <4> QED
        BY <1>1, <4>1, Multiples
    <3> DEFINE P == i[s] * O
    <3>3. (j[s] = 0 => pairCnt[s] = P) /\ (j[s] # 0 => P < pairCnt[s])
      <4>1. P \in Nat /\ pairCnt[s] = P + j[s]
        BY <3>1, <3>2
      <4> HIDE DEF P
      <4> QED
        BY <1>3, <4>1
    <3> QED
      BY <3>1, <3>3
  <2>5. CASE Past(s)
    BY <1>1, <1>3, <2>5 DEF CountAt, Barriers, Past, AfterAgree, Finished
  <2> QED
    BY <1>3, <2>1, <2>2, <2>3, <2>4, <2>5 DEF PCs, Past, AfterAgree, Finished
<1>6. Barriers(s) \in 0 .. S /\ i[r] \in 0 .. S /\ i[s] \in Int
  BY <1>1, <1>4, <1>5 DEF StoppedIn
<1>7. CASE i[r] = S
  BY <1>1, <1>6, <1>7
<1>8. CASE StopsAt(pairCnt[r]) /\ StoppedIn(r)
  <2>1. /\ i[r] \in Nat /\ i[r] - 1 \in Nat /\ i[r] <= S
        /\ (i[r] - 1) * O < pairCnt[r] /\ pairCnt[r] <= i[r] * O
    BY <1>1, <1>8 DEF StoppedIn
  <2>2. ASSUME NEW a \in Nat, a * O < pairCnt[r] PROVE a < i[r]
    BY <1>1, <1>2, <2>1, <2>2, LaterSegment
  \* Nobody stands still where the ranks have stopped.
  <2>3. CASE ~StopsAt(pairCnt[s]) /\ i[s] \in Nat /\ pairCnt[s] = i[s] * O
             /\ Barriers(s) <= i[s] + 1
    <3>1. i[s] * O < pairCnt[r]
      BY <1>2, <1>8, <2>3
    <3>2. i[s] < i[r]
      BY <2>2, <2>3, <3>1
    <3> QED
      BY <1>6, <2>1, <2>3, <3>2
  <2>4. CASE i[s] \in Nat /\ i[s] * O < pairCnt[s] /\ Barriers(s) = i[s] + 1
    <3>1. i[s] * O < pairCnt[r]
      <4>1. i[s] * O \in Nat
        BY <1>1, <2>4, Multiples
      <4> QED
        BY <1>2, <2>4, <4>1
    <3>2. i[s] < i[r]
      BY <2>2, <2>4, <3>1
    <3> QED
      BY <1>6, <2>1, <2>4, <3>2
  <2>5. CASE StoppedIn(s) /\ pairCnt[s] = pairCnt[r] /\ Barriers(s) = i[s]
    <3>1. i[s] - 1 \in Nat /\ (i[s] - 1) * O < pairCnt[r]
      BY <1>1, <2>5 DEF StoppedIn
    <3>2. i[s] - 1 < i[r]
      BY <2>2, <3>1
    <3> QED
      BY <1>6, <2>1, <2>5, <3>2
  <2>6. CASE pairCnt[r] = S * O /\ Barriers(s) = S
    <3>1. S - 1 \in Nat /\ S = (S - 1) + 1
      BY <1>1
    <3>2. (S - 1) * O + O = S * O /\ (S - 1) * O \in Nat
      BY <1>1, <3>1, Multiples
    <3>3. O # 0
      BY <1>1, <2>1, <2>6
    <3> DEFINE P == (S - 1) * O
               Q == S * O
    <3>4. P < pairCnt[r]
      <4>1. P + O = Q /\ P \in Nat /\ pairCnt[r] = Q
        BY <2>6, <3>2
      <4> HIDE DEF P, Q
      <4> QED
        BY <1>1, <3>3, <4>1
    <3>5. S - 1 < i[r]
      BY <2>2, <3>1, <3>4
    <3> QED
      BY <1>1, <2>1, <2>6, <3>5
  <2>7. i[s] \in 0 .. S => i[s] \in Nat
    BY <1>1
  <2>8. i[s] \in 0 .. S - 1 => i[s] \in Nat
    BY <1>1
  <2>9. i[s] <= i[s] + 1
    BY <1>6
  <2> QED
    BY <1>2, <1>5, <1>6, <2>1, <2>3, <2>4, <2>5, <2>6, <2>7, <2>8, <2>9
<1> QED
  BY <1>1, <1>4, <1>6, <1>7, <1>8

(* Two ranks out of their collective loops have entered the same, and one  *)
(* that is still in it not more.                                           *)
LEMMA SameOpening ==
    ASSUME CollectivesSafe, TypeOK, CountInv, TraceInv, Locked, NEW r \in Ranks,
           NEW s \in Ranks, Past(r)
    PROVE  Opening(s) <= Opening(r) /\ (Past(s) => Opening(s) = Opening(r))
<1>1. /\ pairCnt[s] \in Nat /\ pairCnt[r] \in Nat /\ pairCnt[s] <= pairCnt[r]
      /\ Past(s) => pairCnt[s] = pairCnt[r]
  BY SameCount
<1>2. /\ Entered(pairCnt[s]) \in Nat /\ Entered(pairCnt[r]) \in Nat
      /\ Entered(pairCnt[s]) <= Entered(pairCnt[r])
      /\ Past(s) => Entered(pairCnt[s]) = Entered(pairCnt[r])
  BY <1>1 DEF Entered
<1>3. /\ Barriers(s) \in Nat /\ Barriers(r) \in Nat /\ Barriers(s) <= Barriers(r)
      /\ Past(s) => Barriers(s) = Barriers(r)
  <2>1. CASE ~test.prefill
    BY <2>1 DEF Barriers
  <2>2. CASE Segmented
    <3>1. \A q \in Ranks : Past(q) => Barriers(q) = i[q]
      BY <2>2 DEF Barriers, Past, AfterAgree, Finished, Segmented, PrefillPerSegment
    <3>2. Barriers(s) <= i[r] /\ Barriers(s) \in Nat /\ i[r] \in Nat
      BY <2>2, SameBarriers
    <3>3. Past(s) => Barriers(r) <= i[s]
      BY <2>2, SameBarriers
    <3> QED
      BY <3>1, <3>2, <3>3
  <2>3. test.prefill => Segmented
    BY LockedTest
  <2> QED
    BY <2>1, <2>2, <2>3
<1> QED
  BY <1>2, <1>3 DEF Opening

(* What two ranks have entered agrees as far as it goes. *)
LEMMA TracesAgree ==
    ASSUME CollectivesSafe, TypeOK, TraceInv, CountInv
    PROVE  SameCollectives
<1> SUFFICES ASSUME NEW r \in Ranks, NEW s \in Ranks, NEW n \in 1 .. Len(calls[r]),
                    n <= Len(calls[s])
             PROVE  calls[r][n] = calls[s][n]
  BY DEF SameCollectives
<1> DEFINE a == Opening(r)
           b == Opening(s)
<1>1. n \in 1 .. Len(calls[s]) /\ a \in Int /\ b \in Int
  BY OpeningType
<1>2. calls[r][n] = KindAt(a, n) /\ calls[s][n] = KindAt(b, n)
  BY <1>1 DEF TraceInv, TraceAt, KindsAt
<1>3. CASE ~Locked
  <2>1. ASSUME NEW q \in Ranks, n <= Len(calls[q])
        PROVE  Opening(q) = IF test.prefill THEN 1 ELSE 0
    <3>1. Opening(q) = Barriers(q) /\ ~Segmented
      <4>1. ~Segmented /\ ~(test.collective /\ Broadcasts)
        BY <1>3, PrefillTest DEF Segmented, Locked, InStep
      <4>2. Entered(pairCnt[q]) = 0
        BY <1>3, <4>1 DEF Entered
      <4>3. Barriers(q) \in Int
        BY OpeningType
      <4> QED
        BY <4>1, <4>2, <4>3 DEF Opening
    <3>2. Unopened(q) => Len(calls[q]) = Opening(q)
      BY DEF Unopened, TraceInv, TraceAt, LengthAt, InMainLoop
    <3>3. Len(calls[q]) # 0
      BY <2>1, OpeningType
    <3> QED
      BY <3>1, <3>2, <3>3 DEF Barriers
  <2> QED
    BY <1>1, <1>2, <2>1
<1>4. CASE Locked
  <2>1. ASSUME NEW q \in Ranks, n <= Len(calls[q]), n > Opening(q)
        PROVE  Past(q)
    <3>1. pc[q] \in {"prefill", "prefillWait"} \/ InMainLoop(q) => Len(calls[q]) = Opening(q)
      BY DEF TraceInv, TraceAt, LengthAt
    <3>2. Opening(q) \in Int /\ pc[q] \in PCs
      BY OpeningType DEF TypeOK
    <3>3. ~(pc[q] \in {"prefill", "prefillWait"} \/ InMainLoop(q))
      BY <2>1, <3>1, <3>2
    <3> QED
      BY <3>2, <3>3 DEF PCs, InMainLoop, Past, AfterAgree, Finished
  <2>2. CASE n <= a /\ n <= b
    BY <1>2, <2>2 DEF KindAt
  <2>3. CASE n > a
    <3>1. Past(r) /\ b <= a
      BY <1>4, <2>1, <2>3, SameOpening
    <3>2. Past(s)
      BY <1>1, <2>1, <2>3, <3>1
    <3>3. a = b
      BY <1>4, <3>1, <3>2, SameOpening
    <3> QED
      BY <1>2, <3>3
  <2>4. CASE n > b
    <3>1. Past(s) /\ a <= b
      BY <1>1, <1>4, <2>1, <2>4, SameOpening
    <3>2. Past(r)
      BY <1>1, <2>1, <2>4, <3>1
    <3>3. a = b
      BY <1>4, <3>1, <3>2, SameOpening
    <3> QED
      BY <1>2, <3>3
  <2> QED
    BY <1>1, <2>2, <2>3, <2>4
<1> QED
  BY <1>3, <1>4

(* All ranks of a phase enter the same collectives in the same order, for  *)
(* any number of ranks, whatever their clocks say: a rank never waits in a *)
(* transfer, a broadcast, a barrier or the wear-out's allreduce for one    *)
(* that has left its loop.                                                 *)
THEOREM SameCollectivesHolds == ASSUME CollectivesSafe PROVE Spec => []SameCollectives
<1> DEFINE IInv == TypeOK /\ BcastInv /\ AgreeInv /\ TraceInv /\ CountInv
<1>1. IInv /\ [Next]_vars => IInv'
  BY TypeStep, BcastStep, AgreeStep, CollectivesStep
<1>2. Init => IInv
  BY TypeInit, AgreeInit, CollectivesInit
<1>3. IInv => SameCollectives
  BY TracesAgree
<1> QED
  BY <1>1, <1>2, <1>3, PTL DEF Spec

----------------------------------------------------------------------------
(* Collectives once entered stay entered. *)
LEMMA CallsGrow ==
    ASSUME TypeOK, [Next]_vars, NEW s \in Ranks
    PROVE  Len(calls[s]) \in Nat /\ Len(calls'[s]) \in Nat /\ Len(calls[s]) <= Len(calls'[s])
<1>1. calls \in [Ranks -> Seq(Kinds)] /\ Len(calls[s]) \in Nat
  BY DEF TypeOK
<1>2. CASE calls' = calls
  BY <1>1, <1>2
<1>3. ASSUME NEW r \in Ranks, NEW k \in Seq(Kinds), Enter(r, k)
      PROVE  Len(calls'[s]) \in Nat /\ Len(calls[s]) <= Len(calls'[s])
  <2>1. CASE s = r
    <3>1. Len(calls'[r]) = Len(calls[r]) + Len(k)
      BY <1>1, <1>3, EnterCalls
    <3>2. Len(k) \in Nat
      OBVIOUS
    <3> QED
      BY <1>1, <2>1, <3>1, <3>2
  <2>2. CASE s # r
    BY <1>1, <1>3, <2>2 DEF Enter
  <2> QED
    BY <2>1, <2>2
<1>4. ASSUME NEW r \in Ranks, RankStep(r) \/ Tick(r)
      PROVE  Len(calls'[s]) \in Nat /\ Len(calls[s]) <= Len(calls'[s])
  <2>1. ASSUME NEW p, NEW k, MovesOnly(r, p, k)
        PROVE  Len(calls'[s]) \in Nat /\ Len(calls[s]) <= Len(calls'[s])
    BY <1>3, <2>1 DEF MovesOnly, Moves
  <2>2. CASE Transfer(r)
    BY <1>3, <2>2, KindNames DEF Transfer, TransferCalls
  <2>3. CASE WearTransfer(r)
    BY <1>3, <2>3, KindNames DEF WearTransfer
  <2>4. CASE Repeat(r) \/ Tick(r)
    BY <1>2, <2>4 DEF Repeat, Tick
  <2> QED
    BY <1>4, <2>1, <2>2, <2>3, <2>4, Shapes DEF RankStep
<1> QED
  BY <1>1, <1>2, <1>4 DEF Next, Returned, vars

(* What is prefilled stays so, and only transfers touch a segment. *)
LEMMA PrefillFrame ==
    ASSUME TypeOK, NEW r \in Ranks, RankStep(r) \/ Tick(r)
    PROVE  /\ \A s \in Ranks : \/ prefilled[s] \subseteq prefilled'[s]
                              \/ prefilled'[s] = 0 .. test.segmentCount - 1
           /\ \/ touched' = touched
              \/ /\ Transfer(r) \/ WearTransfer(r)
                 /\ touched' = touched \cup {i[r]}
<1>1. prefilled \in [Ranks -> SUBSET Int]
  BY DEF TypeOK
<1>2. CASE PrefillAll(r)
  <2>1. prefilled' = [prefilled EXCEPT ![r] = 0 .. test.segmentCount - 1] /\ touched' = touched
        /\ pc[r] = "prefill"
    BY <1>2 DEF PrefillAll, history
  <2> QED
    BY <1>1, <2>1
<1>3. CASE PrefillSegment(r)
  BY <1>1, <1>3 DEF PrefillSegment, history
<1>4. CASE Tick(r) \/ PrefillAllDone(r) \/ EnterBlock(r) \/ BcastDone(r) \/ LeaveBlock(r)
           \/ Repeat(r) \/ LeaveLoop(r) \/ AgreeDone(r)
  BY <1>4 DEF Tick, PrefillAllDone, EnterBlock, BcastDone, LeaveBlock, Repeat, LeaveLoop,
              AgreeDone, history
<1>5. CASE Resume(r) \/ WearSegment(r) \/ LeaveWearBlock(r) \/ CountErrors(r)
           \/ CountErrorsDone(r)
  BY <1>5 DEF Resume, WearSegment, LeaveWearBlock, CountErrors, CountErrorsDone, history
<1>6. CASE Transfer(r) \/ WearTransfer(r)
  BY <1>6 DEF Transfer, WearTransfer, Access
<1> QED
  BY <1>2, <1>3, <1>4, <1>5, <1>6 DEF RankStep

(* Only the prefill itself changes what is prefilled. *)
LEMMA PrefillQuiet ==
    ASSUME NEW r \in Ranks, RankStep(r) \/ Tick(r), ~PrefillAll(r), ~PrefillSegment(r)
    PROVE  prefilled' = prefilled
<1>1. CASE Tick(r) \/ PrefillAllDone(r) \/ EnterBlock(r) \/ Transfer(r) \/ BcastDone(r)
           \/ LeaveBlock(r) \/ Repeat(r) \/ LeaveLoop(r) \/ AgreeDone(r)
  BY <1>1 DEF Tick, PrefillAllDone, EnterBlock, Transfer, BcastDone, LeaveBlock, Repeat,
              LeaveLoop, AgreeDone
<1>2. CASE Resume(r) \/ WearSegment(r) \/ WearTransfer(r) \/ LeaveWearBlock(r)
           \/ CountErrors(r) \/ CountErrorsDone(r)
  BY <1>2 DEF Resume, WearSegment, WearTransfer, LeaveWearBlock, CountErrors, CountErrorsDone
<1> QED
  BY <1>1, <1>2 DEF RankStep

\* The options under which each rank's place is known, too.
PrefillSafe == CollectivesSafe /\ OrderSafe

(* A rank that prefills per segment does so once when nothing is broadcast. *)
LEMMA OnePrefill ==
    ASSUME CollectivesSafe, TypeOK, ~Segmented, NEW r \in Ranks, TraceAt(r), Unopened(r),
           RankStep(r) \/ Tick(r)
    PROVE  \/ UNCHANGED <<calls, touched>> /\ Unopened(r)'
           \/ PrefillAll(r) \/ PrefillSegment(r)
<1>1. pc[r] = "prefill" \/ (pc[r] = "segment" /\ PrefillPerSegment /\ i[r] = 0 /\ ~hit[r])
  BY DEF Unopened, TraceAt, PrefillAt
<1>2. PrefillPerSegment => test.segmentCount = 1 /\ test.minTime = 0
  BY PrefillTest
<1>3. now[r] \in Nat
  BY DEF TypeOK
<1>4. CASE Tick(r)
  BY <1>4 DEF Tick, Unopened, PrefillPerSegment, position, history
<1>5. ~Repeat(r) /\ ~LeaveLoop(r)
  BY <1>1, <1>2, <1>3 DEF Repeat, LeaveLoop, MoreSegments
<1>6. ~EnterBlock(r)
  BY <1>1 DEF EnterBlock, PrefillPerSegment, MoreSegments
<1>7. ~PrefillAllDone(r) /\ ~Transfer(r) /\ ~BcastDone(r) /\ ~LeaveBlock(r) /\ ~AgreeDone(r)
  BY <1>1 DEF PrefillAllDone, Transfer, BcastDone, LeaveBlock, AgreeDone
<1>8. ~Resume(r) /\ ~WearSegment(r) /\ ~WearTransfer(r) /\ ~LeaveWearBlock(r)
      /\ ~CountErrors(r) /\ ~CountErrorsDone(r)
  BY <1>1 DEF Resume, WearSegment, WearTransfer, LeaveWearBlock, CountErrors, CountErrorsDone
<1> QED
  BY <1>4, <1>5, <1>6, <1>7, <1>8 DEF RankStep

(* Every step keeps the prefill ahead of the transfers. *)
LEMMA PrefillStep ==
    ASSUME CollectivesSafe, TypeOK, TraceInv, OrderInv, PrefillInv, [Next]_vars
    PROVE  PrefillInv'
<1>1. CASE UNCHANGED vars
  <2>1. /\ Segmented' <=> Segmented
        /\ PrefillPerSegment' <=> PrefillPerSegment
        /\ Opened' <=> Opened
        /\ \A q : Unopened(q)' <=> Unopened(q)
    BY <1>1, TestFrame DEF vars, position, Opened, Unopened
  <2> QED
    BY <1>1, <2>1 DEF vars, history, PrefillInv
<1>2. ASSUME NEW r \in Ranks, RankStep(r) \/ Tick(r) PROVE PrefillInv'
  <2>1. test' = test
    BY <1>2, Shapes DEF RankStep, MovesOnly, Moves, Transfer, WearTransfer, Repeat, Tick
  <2> SUFFICES ASSUME test.prefill, ~Segmented PROVE PrefillInv'
    BY <2>1, TestFrame DEF PrefillInv
  <2> DEFINE All == 0 .. test.segmentCount - 1
  <2>2. /\ test.segmentCount \in Nat \ {0} /\ TraceAt(r)
        /\ test.offsets \in [Ranks -> Nat] /\ pc \in [Ranks -> PCs]
    BY TestType DEF TypeOK, TraceInv
  <2>3. \A q \in Ranks : Unopened(q) \/ pc[q] \in {"prefillWait", "segmentWait"} \/ Opened
    BY DEF PrefillInv
  <2>4. Opened => Opened'
    BY CallsGrow DEF Opened
  <2>5. \A s \in Ranks : s # r =>
            /\ pc'[s] = pc[s] /\ calls'[s] = calls[s]
            /\ Unopened(s)' <=> Unopened(s)
    BY <1>2, <2>1, OthersUntouched, OthersCalls, TestFrame DEF Unopened
  \* Who has entered a collective has prefilled.
  <2>6. ASSUME NEW s \in Ranks, Len(calls'[s]) > 0 PROVE All \subseteq prefilled'[s]
    <3>1. CASE Len(calls[s]) > 0
      BY <1>2, <3>1, PrefillFrame DEF PrefillInv
    <3>2. CASE ~(Len(calls[s]) > 0)
      <4>1. s = r
        BY <2>5, <2>6, <3>2
      <4>2. Unopened(r)
        <5>1. ~Opened
          BY <3>2 DEF Opened
        <5>2. pc[r] \in {"prefillWait", "segmentWait"} /\ ~Unopened(r) =>
                  Len(calls[r]) = Opening(r)
          BY <2>2 DEF TraceAt, LengthAt, InMainLoop
        <5>3. ~Unopened(r) => Opening(r) = 1
          <6>1. ~Locked /\ ~Broadcasts
            BY PrefillTest
          <6> QED
            BY <6>1 DEF Opening, Barriers, Entered
        <5>4. Unopened(r) \/ pc[r] \in {"prefillWait", "segmentWait"}
          BY <2>3, <5>1
        <5>5. Len(calls[r]) # 1
          <6>1. ~(Len(calls[r]) > 0)
            BY <3>2, <4>1
          <6> HIDE <3>2, <4>1
          <6>2. 1 > 0
            OBVIOUS
          <6> QED
            BY <6>1, <6>2
        <5> QED
          BY <5>2, <5>3, <5>4, <5>5
      <4>3. PrefillAll(r) \/ PrefillSegment(r)
        <5>1. calls'[r] # calls[r]
          BY <2>6, <3>2, <4>1
        <5> QED
          BY <1>2, <2>2, <4>2, <5>1, OnePrefill
      <4>4. CASE PrefillAll(r)
        BY <4>1, <4>4 DEF PrefillAll, TypeOK
      <4>5. CASE PrefillSegment(r)
        <5>1. PrefillPerSegment /\ i[r] = 0
          <6>1. PrefillPerSegment /\ pc[r] = "segment"
            BY <4>5 DEF PrefillSegment, MoreSegments, PrefillPerSegment
          <6> QED
            BY <4>2, <6>1 DEF Unopened
        <5>2. test.segmentCount = 1
          BY <5>1, PrefillTest
        <5>3. 0 \in prefilled'[r]
          BY <4>5, <5>1 DEF PrefillSegment, TypeOK
        <5> QED
          BY <4>1, <5>2, <5>3
      <4> QED
        BY <4>3, <4>4, <4>5
    <3> QED
      BY <3>1, <3>2
  \* Who is beyond the barrier has met all in it.
  <2>7. Unopened(r)' \/ pc'[r] \in {"prefillWait", "segmentWait"} \/ Opened'
    <3>1. CASE Opened
      BY <2>4, <3>1
    <3>2. CASE Unopened(r)
      <4>1. CASE PrefillAll(r)
        BY <2>2, <4>1 DEF PrefillAll
      <4>2. CASE PrefillSegment(r)
        BY <2>2, <4>2 DEF PrefillSegment
      <4> QED
        BY <1>2, <2>2, <3>2, <4>1, <4>2, OnePrefill
    <3>3. CASE pc[r] \in {"prefillWait", "segmentWait"}
      <4>1. PrefillAllDone(r) \/ EnterBlock(r) \/ Tick(r)
        BY <1>2, <3>3 DEF RankStep, PrefillAll, PrefillSegment, MoreSegments, Transfer, BcastDone,
           LeaveBlock, Repeat, LeaveLoop, AgreeDone, Resume, WearSegment, WearTransfer,
           LeaveWearBlock, CountErrors, CountErrorsDone
      <4>2. CASE Tick(r)
        BY <3>3, <4>2 DEF Tick
      <4>3. CASE PrefillAllDone(r) \/ EnterBlock(r)
        <5>1. AllArrived(r) /\ calls' = calls
          BY <3>3, <4>3 DEF PrefillAllDone, EnterBlock, MoreSegments
        <5>2. \A s \in Ranks : Len(calls[s]) \in Nat
          BY DEF TypeOK
        <5>3. Opened
          BY <2>2, <5>1, <5>2 DEF AllArrived, InSameCall, Opened
        <5> QED
          BY <2>4, <5>3
      <4> QED
        BY <4>1, <4>2, <4>3
    <3> QED
      BY <2>3, <3>1, <3>2, <3>3
  \* Who transfers is in the file, and beyond the barrier.
  <2>8. touched' = touched \/ (touched' = touched \cup {i[r]} /\ i[r] \in All /\ Opened)
    <3>1. CASE Transfer(r) \/ WearTransfer(r)
      <4>1. pc[r] \in {"block", "wearBlock"} /\ j[r] < test.offsets[r] /\ j[r] \in Nat
        BY <3>1 DEF Transfer, WearTransfer, TypeOK
      <4>2. test.offsets[r] > 0
        BY <2>2, <4>1
      <4>3. OrderAt(r)
        BY DEF OrderInv
      <4>4. i[r] \in All
        BY <4>1, <4>2, <4>3 DEF OrderAt
      <4>5. Opened
        BY <2>3, <4>1 DEF Unopened
      <4> QED
        BY <1>2, <4>4, <4>5, PrefillFrame
    <3> QED
      BY <1>2, <3>1, PrefillFrame
  <2>9. ASSUME NEW s \in Ranks
        PROVE  Unopened(s)' \/ pc'[s] \in {"prefillWait", "segmentWait"} \/ Opened'
    BY <2>3, <2>4, <2>5, <2>7
  <2>10. touched' \subseteq All /\ (touched' # {} => Opened')
    BY <2>4, <2>8 DEF PrefillInv
  <2> HIDE DEF All
  <2>11. PrefillInv' <=>
           /\ \A s \in Ranks : Len(calls'[s]) > 0 => All \subseteq prefilled'[s]
           /\ \A s \in Ranks : Unopened(s)' \/ pc'[s] \in {"prefillWait", "segmentWait"} \/ Opened'
           /\ touched' \subseteq All
           /\ touched' # {} => Opened'
    BY <2>1, TestFrame DEF PrefillInv, All
  <2> QED
    BY <2>6, <2>9, <2>10, <2>11
<1> QED
  BY <1>1, <1>2 DEF Next, Returned

(* With broadcasts in between, each segment has a barrier of its own: no   *)
(* rank has done more transfers than fit between those it has met.         *)
LEMMA BarrierBound ==
    ASSUME CollectivesSafe, TypeOK, Segmented, Locked, NEW s \in Ranks, TraceAt(s), CountAt(s)
    PROVE  /\ Barriers(s) \in Nat /\ Opening(s) = Barriers(s) + pairCnt[s]
           /\ pairCnt[s] <= Barriers(s) * test.offsets[0]
<1> SUFFICES ASSUME NEW S, NEW O, test.segmentCount = S, test.offsets[0] = O
             PROVE  /\ Barriers(s) \in Nat /\ Opening(s) = Barriers(s) + pairCnt[s]
                    /\ pairCnt[s] <= Barriers(s) * O
  OBVIOUS
<1>1. /\ S \in Nat \ {0} /\ O \in Nat /\ test.offsets[s] = O
      /\ test.prefill /\ test.deadline # 0 /\ ~test.collective
  BY LockedTest, PrefillTest DEF Segmented, PrefillPerSegment
<1>2. pc \in [Ranks -> PCs] /\ j[s] \in Nat /\ pairCnt[s] \in Nat
  BY DEF TypeOK
<1>3. pc[s] \notin {"prefill", "prefillWait"}
  BY <1>1 DEF TraceAt, PrefillAt
<1>4. CASE pc[s] = "segment"
  <2>1. Barriers(s) = i[s] /\ i[s] \in 0 .. S /\ pairCnt[s] <= i[s] * O
    <3>1. Barriers(s) = i[s]
      BY <1>1, <1>4 DEF Barriers
    <3>2. (~hit[s] /\ i[s] \in 0 .. S /\ pairCnt[s] = i[s] * O) \/ StoppedIn(s)
      BY <1>1, <1>4 DEF CountAt
    <3>3. CASE StoppedIn(s)
      BY <1>1, <3>1, <3>3 DEF StoppedIn
    <3>4. CASE ~hit[s] /\ i[s] \in 0 .. S /\ pairCnt[s] = i[s] * O
      BY <1>2, <3>1, <3>4
    <3> QED
      BY <3>2, <3>3, <3>4
  <2>2. i[s] \in Nat
    BY <1>1, <2>1
  <2> QED
    BY <1>1, <2>1, <2>2 DEF Opening, Entered, Segmented
<1>5. CASE pc[s] \in {"segmentWait", "block", "bcastWait"}
  <2>1. /\ Barriers(s) = i[s] + 1 /\ i[s] \in 0 .. S - 1
        /\ (pairCnt[s] = i[s] * O) \/ (j[s] <= O /\ pairCnt[s] = i[s] * O + j[s])
    BY <1>1, <1>5 DEF CountAt, Barriers
  <2>2. i[s] \in Nat
    BY <1>1, <2>1
  <2>3. (i[s] + 1) * O = i[s] * O + O /\ i[s] * O \in Nat
    BY <1>1, <2>2, Multiples
  <2> DEFINE P == i[s] * O
  <2>4. pairCnt[s] <= P + O
    <3>1. P \in Nat /\ (pairCnt[s] = P \/ (j[s] <= O /\ pairCnt[s] = P + j[s]))
      BY <2>1, <2>3
    <3> HIDE DEF P
    <3> QED
      BY <1>1, <1>2, <3>1
  <2> QED
    BY <1>1, <2>1, <2>2, <2>3, <2>4 DEF Opening, Entered, Segmented
<1>6. CASE Past(s)
  <2>1. Barriers(s) = i[s] /\ ((pairCnt[s] = S * O /\ i[s] = S) \/ StoppedIn(s))
    BY <1>1, <1>6 DEF CountAt, Barriers, Past, AfterAgree, Finished
  <2>2. i[s] \in Nat /\ pairCnt[s] <= i[s] * O
    <3>1. CASE StoppedIn(s)
      BY <1>1, <3>1 DEF StoppedIn
    <3>2. CASE pairCnt[s] = S * O /\ i[s] = S
      BY <1>1, <1>2, <3>2
    <3> QED
      BY <2>1, <3>1, <3>2
  <2> QED
    BY <1>1, <2>1, <2>2 DEF Opening, Entered, Segmented
<1> QED
  BY <1>2, <1>3, <1>4, <1>5, <1>6 DEF PCs, Past, AfterAgree, Finished

(* Barriers once met stay met, and a rank meets the next by prefilling.    *)
LEMMA BarriersGrow ==
    ASSUME CollectivesSafe, TypeOK, BcastInv, AgreeInv, TraceInv, CountInv, Segmented, Locked,
           NEW r \in Ranks, RankStep(r) \/ Tick(r)
    PROVE  /\ test' = test
           /\ \A s \in Ranks : s # r => Barriers(s)' = Barriers(s)
           /\ \/ Barriers(r)' = Barriers(r)
              \/ /\ PrefillSegment(r) /\ Barriers(r) = i[r] /\ Barriers(r)' = i[r] + 1
<1>1. pc \in [Ranks -> PCs] /\ i \in [Ranks -> Int] /\ now[r] \in Nat
  BY DEF TypeOK
<1>2. /\ test.minTime = 0 /\ test.prefill /\ test.deadline # 0 /\ PrefillPerSegment
      /\ TraceAt(r) /\ CountAt(r) /\ \A s \in Ranks : CountAt(s)
  BY PrefillTest DEF Segmented, PrefillPerSegment, TraceInv, CountInv
<1>3. pc[r] \notin {"prefill", "prefillWait", "wearSegment", "wearBlock"}
  BY <1>2 DEF TraceAt, PrefillAt, CountAt
<1>4. test' = test
  BY Shapes DEF RankStep, MovesOnly, Moves, Transfer, WearTransfer, Repeat, Tick
<1>5. ASSUME NEW s \in Ranks, s # r PROVE Barriers(s)' = Barriers(s)
  BY <1>2, <1>4, <1>5, OthersUntouched, TestFrame DEF Barriers
<1>6. ASSUME pc'[r] \in {"segmentWait", "block", "bcastWait"} <=>
                pc[r] \in {"segmentWait", "block", "bcastWait"},
             i'[r] = i[r]
      PROVE  Barriers(r)' = Barriers(r)
  BY <1>2, <1>4, <1>6, TestFrame DEF Barriers
<1>7. CASE Tick(r)
  BY <1>4, <1>5, <1>6, <1>7 DEF Tick, position
<1>8. CASE PrefillAll(r) \/ PrefillAllDone(r) \/ Repeat(r) \/ WearSegment(r)
           \/ WearTransfer(r) \/ LeaveWearBlock(r)
  BY <1>1, <1>2, <1>3, <1>8 DEF PrefillAll, PrefillAllDone, Repeat, WearSegment, WearTransfer,
                                LeaveWearBlock
<1>9. CASE PrefillSegment(r)
  <2>1. pc[r] = "segment" /\ pc'[r] = "segmentWait" /\ i'[r] = i[r]
    BY <1>1, <1>9 DEF PrefillSegment, MoreSegments, position
  <2>2. Barriers(r) = i[r] /\ Barriers(r)' = i[r] + 1
    BY <1>2, <1>4, <2>1, TestFrame DEF Barriers
  <2> QED
    BY <1>4, <1>5, <1>9, <2>2
<1>10. CASE EnterBlock(r)
  <2>1. pc[r] = "segmentWait" /\ pc'[r] = "block" /\ i'[r] = i[r]
    BY <1>1, <1>2, <1>10 DEF EnterBlock, MoreSegments
  <2> QED
    BY <1>4, <1>5, <1>6, <2>1
<1>11. CASE Transfer(r) \/ BcastDone(r)
  <2>1. /\ pc[r] \in {"block", "bcastWait"} /\ pc'[r] \in {"block", "bcastWait"}
        /\ i'[r] = i[r]
    BY <1>1, <1>11 DEF Transfer, BcastDone, Access, position
  <2> QED
    BY <1>4, <1>5, <1>6, <2>1
<1>12. CASE LeaveBlock(r)
  <2>1. pc[r] = "block" /\ pc'[r] = "segment" /\ i'[r] = i[r] + 1
    BY <1>1, <1>12 DEF LeaveBlock
  <2>2. Barriers(r)' = Barriers(r)
    BY <1>2, <1>4, <2>1, TestFrame DEF Barriers
  <2> QED
    BY <1>4, <1>5, <2>2
<1>13. CASE LeaveLoop(r) \/ AgreeDone(r) \/ CountErrors(r) \/ CountErrorsDone(r)
  <2>1. /\ pc[r] \in {"segment", "agreeWait", "errors", "errorsWait"}
        /\ pc'[r] \in {"agreeWait", "resume", "errors", "errorsWait", "done"}
        /\ i'[r] = i[r]
    BY <1>1, <1>13 DEF LeaveLoop, AgreeDone, CountErrors, CountErrorsDone, position
  <2> QED
    BY <1>4, <1>5, <1>6, <2>1
<1>14. CASE Resume(r)
  <2>1. pc[r] = "resume" /\ pc'[r] = "errors" /\ i'[r] = i[r]
    BY <1>1, <1>2, <1>14, NoWear DEF Resume, MovesOnly, Moves, position
  <2> QED
    BY <1>4, <1>5, <1>6, <2>1
<1> QED
  BY <1>4, <1>5, <1>7, <1>8, <1>9, <1>10, <1>11, <1>12, <1>13, <1>14 DEF RankStep

(* A rank that goes on from a barrier knows all the others at it, too.     *)
LEMMA BarrierMet ==
    ASSUME CollectivesSafe, TypeOK, TraceInv, CountInv, Segmented, Locked,
           NEW r \in Ranks, pc[r] = "segmentWait", AllArrived(r), NEW s \in Ranks
    PROVE  i[r] < Barriers(s)
<1>1. /\ TraceAt(r) /\ TraceAt(s) /\ CountAt(r) /\ CountAt(s)
      /\ Len(calls[r]) \in Nat /\ Len(calls[s]) \in Nat /\ pairCnt[s] \in Nat
      /\ test.prefill
  BY DEF TraceInv, CountInv, TypeOK, Segmented, PrefillPerSegment
<1> SUFFICES ASSUME NEW O, test.offsets[0] = O PROVE i[r] < Barriers(s)
  OBVIOUS
<1>2. O \in Nat /\ test.offsets[r] = O /\ test.segmentCount \in Nat \ {0}
  BY LockedTest
<1>3. i[r] \in Nat /\ pairCnt[r] = i[r] * O /\ Barriers(r) = i[r] + 1
  BY <1>1, <1>2 DEF CountAt, Barriers
<1> DEFINE L == Len(calls[r])
<1>4. L = i[r] * (O + 1) + 1 /\ i[r] * (O + 1) \in Nat
  <2>1. L = Opening(r)
    BY <1>1 DEF TraceAt, LengthAt, InMainLoop
  <2>2. Opening(r) = i[r] + 1 + i[r] * O
    BY <1>1, <1>3, BarrierBound
  <2>3. i[r] * (O + 1) = i[r] * O + i[r] /\ i[r] * O \in Nat
    BY <1>2, <1>3, Multiples
  <2> DEFINE P == i[r] * O
             Q == i[r] * (O + 1)
  <2>4. L = i[r] + 1 + P /\ Q = P + i[r] /\ P \in Nat
    BY <2>1, <2>2, <2>3
  <2>5. L = Q + 1 /\ Q \in Nat
    <3> HIDE DEF P, Q, L
    <3> QED
      BY <1>3, <2>4
  <2> QED
    BY <2>5
<1>5. L = BarrierAt(i[r]) /\ L \in 1 .. Len(calls[r])
  BY <1>1, <1>4 DEF BarrierAt
<1>6. calls[r][L] = "barrier"
  <2>1. calls[r][L] = KindAt(Opening(r), L) /\ L = Opening(r)
    BY <1>1, <1>5 DEF TraceAt, KindsAt, LengthAt, InMainLoop
  <2>2. OpeningKind(L) = "barrier"
    BY <1>3, <1>5 DEF OpeningKind
  <2>3. L <= Opening(r)
    BY <1>1, <2>1
  <2> QED
    BY <2>1, <2>2, <2>3 DEF KindAt
<1>7. L \in 1 .. Len(calls[s]) /\ calls[s][L] = "barrier"
  BY <1>1, <1>5, <1>6 DEF AllArrived, InSameCall
<1>8. L <= Opening(s)
  <2>1. calls[s][L] = KindAt(Opening(s), L)
    BY <1>1, <1>7 DEF TraceAt, KindsAt
  <2>2. ClosingKind(L - Opening(s)) # "barrier"
    BY DEF ClosingKind
  <2> QED
    BY <1>7, <2>1, <2>2 DEF KindAt
<1>9. /\ Barriers(s) \in Nat /\ Opening(s) = Barriers(s) + pairCnt[s]
      /\ pairCnt[s] <= Barriers(s) * O
  BY <1>1, BarrierBound
<1>10. Barriers(s) * (O + 1) = Barriers(s) * O + Barriers(s) /\ Barriers(s) * O \in Nat
  BY <1>2, <1>9, Multiples
<1>11. i[r] * (O + 1) < Barriers(s) * (O + 1) /\ Barriers(s) * (O + 1) \in Nat
  <2> DEFINE P == i[r] * (O + 1)
             Q == Barriers(s) * (O + 1)
             R == Barriers(s) * O
  <2>1. P + 1 <= Barriers(s) + pairCnt[s] /\ pairCnt[s] <= R /\ Q = R + Barriers(s)
        /\ P \in Nat /\ R \in Nat
    BY <1>4, <1>8, <1>9, <1>10
  <2> HIDE DEF P, Q, R
  <2>2. P < Q /\ Q \in Nat
    BY <1>1, <1>9, <2>1
  <2> QED
    BY <2>2 DEF P, Q
<1> QED
  <2> DEFINE Q == Barriers(s) * (O + 1)
  <2>1. Q \in Nat /\ i[r] * (O + 1) < Q /\ Q <= Barriers(s) * (O + 1) /\ O + 1 \in Nat
    BY <1>2, <1>11
  <2> HIDE DEF Q
  <2> QED
    BY <1>3, <1>9, <2>1, LaterSegment

(* Every step keeps the prefill of each segment ahead of its transfers.    *)
LEMMA SegmentsStep ==
    ASSUME CollectivesSafe, TypeOK, BcastInv, AgreeInv, TraceInv, CountInv, SegmentsInv,
           [Next]_vars
    PROVE  SegmentsInv'
<1>1. CASE UNCHANGED vars
  <2>1. /\ Segmented' <=> Segmented
        /\ \A s : Barriers(s)' = Barriers(s)
    BY <1>1, TestFrame DEF vars, position, Barriers, Unopened
  <2> QED
    BY <1>1, <2>1 DEF vars, position, history, SegmentsInv
<1>2. ASSUME NEW r \in Ranks, RankStep(r) \/ Tick(r) PROVE SegmentsInv'
  <2>1. test' = test
    BY <1>2, Shapes DEF RankStep, MovesOnly, Moves, Transfer, WearTransfer, Repeat, Tick
  <2> SUFFICES ASSUME Segmented PROVE SegmentsInv'
    BY <2>1, TestFrame DEF SegmentsInv
  <2>2. /\ Locked /\ pc \in [Ranks -> PCs] /\ i \in [Ranks -> Int] /\ TraceAt(r)
        /\ prefilled \in [Ranks -> SUBSET Int] /\ test.deadline # 0
        /\ pc[r] \notin {"prefill", "wearBlock"}
    <3>1. Locked /\ test.deadline # 0
      BY PrefillTest DEF Segmented, PrefillPerSegment
    <3> QED
      BY <3>1 DEF TypeOK, TraceInv, CountInv, TraceAt, CountAt, PrefillAt
  <2>3. /\ \A s \in Ranks : s # r => Barriers(s)' = Barriers(s)
        /\ \/ Barriers(r)' = Barriers(r)
           \/ /\ PrefillSegment(r) /\ Barriers(r) = i[r] /\ Barriers(r)' = i[r] + 1
    BY <1>2, <2>2, BarriersGrow
  <2>4. /\ \A s \in Ranks : Barriers(s) \in Int
        /\ i[r] \in Int
    BY <2>2, OpeningType
  <2>5. \A s \in Ranks : \A k \in Int : k < Barriers(s) => k < Barriers(s)'
    BY <2>3, <2>4
  <2>6. ~PrefillAll(r) /\ ~WearTransfer(r)
    BY <2>2 DEF PrefillAll, WearTransfer
  <2>7. \A s \in Ranks : prefilled[s] \subseteq prefilled'[s]
    <3>1. CASE PrefillSegment(r)
      BY <2>2, <3>1 DEF PrefillSegment
    <3>2. CASE ~PrefillSegment(r)
      BY <1>2, <2>6, <3>2, PrefillQuiet
    <3> QED
      BY <3>1, <3>2
  <2>8. ASSUME NEW s \in Ranks, NEW k \in Nat, k < Barriers(s)' PROVE k \in prefilled'[s]
    <3>1. CASE k < Barriers(s)
      BY <2>7, <3>1 DEF SegmentsInv
    <3>2. CASE ~(k < Barriers(s))
      <4>1. s = r /\ PrefillSegment(r) /\ k < i[r] + 1 /\ ~(k < i[r])
        BY <2>3, <2>8, <3>2
      <4>2. k = i[r]
        BY <2>4, <4>1
      <4> QED
        BY <2>2, <4>1, <4>2 DEF PrefillSegment
    <3> QED
      BY <3>1, <3>2
  <2>9. ASSUME NEW s \in Ranks, pc'[r] \in {"block", "bcastWait"} PROVE i'[r] < Barriers(s)'
    <3>1. CASE pc[r] \in {"block", "bcastWait"} /\ i'[r] = i[r]
      BY <2>4, <2>5, <3>1 DEF SegmentsInv
    <3>2. CASE EnterBlock(r)
      <4>1. pc[r] = "segmentWait" /\ AllArrived(r) /\ i'[r] = i[r]
        BY <2>2, <3>2 DEF EnterBlock, MoreSegments, Segmented, PrefillPerSegment
      <4>2. i[r] < Barriers(s)
        BY <2>2, <4>1, BarrierMet
      <4> QED
        BY <2>4, <2>5, <4>1, <4>2
    <3>3. CASE Tick(r) \/ Transfer(r) \/ BcastDone(r)
      <4>1. pc[r] \in {"block", "bcastWait"} /\ i'[r] = i[r]
        BY <2>2, <2>9, <3>3 DEF Tick, Transfer, BcastDone, Access, position
      <4> QED
        BY <3>1, <4>1
    <3>4. Tick(r) \/ Transfer(r) \/ BcastDone(r) \/ EnterBlock(r)
      BY <1>2, <2>2, <2>9 DEF RankStep, PrefillAll, PrefillAllDone, PrefillSegment, LeaveBlock,
         Repeat, LeaveLoop, AgreeDone, Resume, WearSegment, WearTransfer, LeaveWearBlock,
         CountErrors, CountErrorsDone
    <3> QED
      BY <3>2, <3>3, <3>4
  <2>10. ASSUME NEW q \in Ranks, NEW s \in Ranks, pc'[q] \in {"block", "bcastWait"}
         PROVE  i'[q] < Barriers(s)'
    <3>1. CASE q # r
      <4>1. pc'[q] = pc[q] /\ i'[q] = i[q] /\ i[q] \in Int
        BY <1>2, <2>2, <3>1, OthersUntouched
      <4> QED
        BY <2>5, <2>10, <4>1 DEF SegmentsInv
    <3> QED
      BY <2>9, <2>10, <3>1
  <2>11. ASSUME NEW k \in touched' PROVE k \in Nat /\ \A s \in Ranks : k < Barriers(s)'
    <3>1. CASE k \in touched
      BY <2>5, <3>1 DEF SegmentsInv
    <3>2. CASE k \notin touched
      <4>1. Transfer(r) /\ k = i[r]
        BY <1>2, <2>6, <2>11, <3>2, PrefillFrame
      <4>2. pc[r] = "block" /\ j[r] \in Nat
        BY <4>1 DEF Transfer, TypeOK
      <4>3. i[r] \in Nat
        BY <2>2, <4>2, LockedTest DEF CountInv, CountAt
      <4> QED
        BY <2>5, <4>1, <4>2, <4>3 DEF SegmentsInv
    <3> QED
      BY <3>1, <3>2
  <2> QED
    BY <2>8, <2>10, <2>11 DEF SegmentsInv
<1> QED
  BY <1>1, <1>2 DEF Next, Returned

(* No segment is written to before every rank has prefilled it, whether    *)
(* the file is prefilled at once or, against a deadline, by segment: the   *)
(* barrier after it separates the two on all ranks.                        *)
THEOREM PrefillFirstHolds == ASSUME PrefillSafe PROVE Spec => []PrefillFirst
<1> DEFINE IInv == TypeOK /\ BcastInv /\ AgreeInv /\ WithinInv /\ OrderInv
                   /\ TraceInv /\ CountInv /\ PrefillInv /\ SegmentsInv
<1> USE DEF PrefillSafe
<1>1. IInv /\ [Next]_vars => IInv'
  <2> SUFFICES ASSUME IInv, [Next]_vars PROVE OrderInv' /\ PrefillInv' /\ SegmentsInv'
    BY TypeStep, BcastStep, AgreeStep, WithinStep, CollectivesStep
  <2> QED
    BY OrderInvStep, PrefillStep, SegmentsStep
<1>2. Init => IInv
  <2> SUFFICES ASSUME Init PROVE PrefillInv /\ SegmentsInv
    BY TypeInit, AgreeInit, WithinInit, OrderInit, CollectivesInit
  <2>1. \A r \in Ranks : /\ pc[r] \in {"prefill", "segment"} /\ i[r] = 0 /\ calls[r] = << >>
                         /\ pc[r] = "prefill" <=> test.prefill /\ test.deadline = 0
    BY DEF Init
  <2>2. touched = {} /\ \A r \in Ranks : Len(calls[r]) = 0
    BY <2>1 DEF Init
  <2>3. PrefillInv
    BY <2>1, <2>2 DEF PrefillInv, Unopened, PrefillPerSegment
  <2>4. Segmented => \A r \in Ranks : Barriers(r) = 0
    BY <2>1 DEF Barriers, Segmented, PrefillPerSegment
  <2>5. SegmentsInv
    BY <2>1, <2>2, <2>4 DEF SegmentsInv
  <2> QED
    BY <2>3, <2>5
<1>3. IInv => PrefillFirst
  <2> SUFFICES ASSUME IInv, test.prefill, NEW k \in touched, NEW r \in Ranks
               PROVE  k \in prefilled[r]
    BY DEF PrefillFirst
  <2>1. CASE Segmented
    BY <2>1 DEF SegmentsInv
  <2>2. CASE ~Segmented
    BY <2>2 DEF PrefillInv, Opened
  <2> QED
    BY <2>1, <2>2
<1> QED
  BY <1>1, <1>2, <1>3, PTL DEF Spec
=============================================================================
