---------------------------- MODULE WriteOrRead ----------------------------
(***************************************************************************)
(* One call of WriteOrRead() in ior.c by all the ranks of testComm.        *)
(*                                                                         *)
(* Every rank walks its segments (i) and the transfers of a block (j),     *)
(* leaves the loop when its stonewall is hit, and, with the wear-out       *)
(* option, agrees with the others on the largest number of transfers and   *)
(* completes its own up to it.  Ranks share nothing but MPI collectives.   *)
(*                                                                         *)
(* What a transfer moves is left out: a transfer is its position <<i, j>>. *)
(* A rank's steps between two collectives are local, so one action takes   *)
(* a rank from one test of a loop to the next.                             *)
(***************************************************************************)
EXTENDS Mpi

CONSTANTS Tests,      \* the parameter sets a behaviour may start with
          MaxTime,    \* bound: clocks stop here, above every time of a test
          MaxPairs    \* bound: no new round of the do-while from here on

(***************************************************************************)
(* What WriteOrRead reads of IOR_param_t.  offsets[r] is the number of     *)
(* transfers per block of rank r: blockSize / transferSize, or the count   *)
(* GetOffsetArrayRandom draws for rank r of a shared file.  sync is        *)
(* synchronizedTransferBoundaries, which -c sets for every backend;        *)
(* collective that a transfer is itself a collective of testComm, as in a  *)
(* shared file of HDF5, NCMPI or MPIIO with -c, or with strided views of   *)
(* MPIIO; prefill that there is a randomPrefillBuffer, check that          *)
(* CountErrors communicates.                                               *)
(***************************************************************************)
TestRecord ==
    [segmentCount : Nat \ {0}, offsets : [Ranks -> Nat],
     deadline : Nat, minTime : Nat, wearOut : BOOLEAN, iterations : [Ranks -> Nat],
     sync : BOOLEAN, collective : BOOLEAN, prefill : BOOLEAN, check : BOOLEAN]

SameForAll(f) == \A r, s \in Ranks : f[r] = f[s]

\* What ValidateTests and MPIIO_check_params let through: wear-out needs a
\* deadline; the three backends whose transfers are collective refuse random
\* offsets with them, hence both a prefill and blocks of different lengths.
\* All the others take -c together with random offsets.  Iterations come from
\* an option, from the status file or, with a deadline, from this rank's write
\* phase: they differ only after one in which ranks stopped each at its own
\* stonewall.
ValidTest(t) ==
    /\ t.wearOut => t.deadline # 0
    /\ t.collective => t.sync /\ ~t.prefill /\ SameForAll(t.offsets)
    /\ t.sync \/ t.wearOut \/ t.deadline = 0 => SameForAll(t.iterations)

ASSUME TestsAssumption ==
    /\ MaxTime \in Nat /\ MaxPairs \in Nat
    /\ \A t \in Tests : t \in TestRecord /\ ValidTest(t)

VARIABLES
    test,       \* the parameters of this call
    pc,         \* where each rank is
    i, j,       \* segment and transfer counters of each rank
    pairCnt,    \* transfers done by each rank
    hit,        \* hitStonewall of each rank
    now,        \* whole time units since each rank's startForStonewall
    sent,       \* the count each rank puts into the allreduce
    pairsAccessed, \* point->pairs_accessed of each rank
    hitLog,     \* the values rank 0 has broadcast for hitStonewall
    last,       \* position of each rank's latest transfer
    prefilled,  \* the segments each rank has prefilled
    touched     \* the segments some rank has transferred to

result == <<sent, pairsAccessed>>
position == <<i, j>>
history == <<last, touched>>
vars == <<test, pc, i, j, pairCnt, hit, now, sent, pairsAccessed, calls,
          hitLog, last, prefilled, touched>>

NoPosition == <<-1, -1>>

\* The collectives of this call.
Kinds == {"barrier", "xfer", "bcast", "allreduce", "reduce", "errReduce", "errBcast"}

----------------------------------------------------------------------------
Init ==
    /\ test \in Tests
    /\ pc = [r \in Ranks |-> IF test.prefill /\ test.deadline = 0
                             THEN "prefill" ELSE "segment"]
    /\ i = [r \in Ranks |-> 0]
    /\ j = [r \in Ranks |-> 0]
    /\ pairCnt = [r \in Ranks |-> 0]
    /\ hit = [r \in Ranks |-> FALSE]
    /\ now = [r \in Ranks |-> 0]
    /\ sent = [r \in Ranks |-> 0]
    /\ pairsAccessed = [r \in Ranks |-> 0]
    /\ calls = [r \in Ranks |-> << >>]
    /\ hitLog = << >>
    /\ last = [r \in Ranks |-> NoPosition]
    /\ prefilled = [r \in Ranks |-> {}]
    /\ touched = {}

\* A rank's clock; one tick is a unit of deadlineForStonewalling.
Tick(r) ==
    /\ now[r] < MaxTime
    /\ now' = [now EXCEPT ![r] = @ + 1]
    /\ UNCHANGED <<test, pc, position, pairCnt, hit, result, calls,
                   hitLog, history, prefilled>>

\* Without a deadline the whole file is prefilled before the first transfer.
PrefillAll(r) ==
    /\ pc[r] = "prefill"
    /\ prefilled' = [prefilled EXCEPT ![r] = 0 .. test.segmentCount - 1]
    /\ Enter(r, <<"barrier">>)
    /\ pc' = [pc EXCEPT ![r] = "prefillWait"]
    /\ UNCHANGED <<test, position, pairCnt, hit, now, result,
                   hitLog, history>>

\* Mutant: the barrier after the prefill is dropped.
PrefillAllDoneAlone(r) ==
    /\ pc[r] = "prefillWait"
    /\ pc' = [pc EXCEPT ![r] = "segment"]
    /\ UNCHANGED <<test, position, pairCnt, hit, now, result, calls,
                   hitLog, history, prefilled>>

PrefillAllDone(r) ==
    /\ pc[r] = "prefillWait"
    /\ AllArrived(r)
    /\ pc' = [pc EXCEPT ![r] = "segment"]
    /\ UNCHANGED <<test, position, pairCnt, hit, now, result, calls,
                   hitLog, history, prefilled>>

\* The head of the loop over segments.
MoreSegments(r) == pc[r] = "segment" /\ i[r] < test.segmentCount /\ ~hit[r]

PrefillSegment(r) ==
    /\ MoreSegments(r)
    /\ test.prefill /\ test.deadline # 0
    /\ prefilled' = [prefilled EXCEPT ![r] = @ \cup {i[r]}]
    /\ Enter(r, <<"barrier">>)
    /\ pc' = [pc EXCEPT ![r] = "segmentWait"]
    /\ UNCHANGED <<test, position, pairCnt, hit, now, result,
                   hitLog, history>>

EnterBlock(r) ==
    /\ \/ MoreSegments(r) /\ ~(test.prefill /\ test.deadline # 0)
       \/ pc[r] = "segmentWait" /\ AllArrived(r)
    /\ j' = [j EXCEPT ![r] = 0]
    /\ pc' = [pc EXCEPT ![r] = "block"]
    /\ UNCHANGED <<test, i, pairCnt, hit, now, result, calls,
                   hitLog, history, prefilled>>

\* One WriteOrReadSingle() at the rank's position.
Access(r) ==
    /\ pairCnt' = [pairCnt EXCEPT ![r] = @ + 1]
    /\ j' = [j EXCEPT ![r] = @ + 1]
    /\ last' = [last EXCEPT ![r] = <<i[r], j[r]>>]
    /\ touched' = touched \cup {i[r]}

\* Mutant: the iterations of the write phase are ignored.
HitStonewallByClock(r, n) == test.deadline # 0 /\ now[r] > test.deadline

\* The stonewall as rank r sees it after its n-th transfer.
HitStonewall(r, n) ==
    \/ test.deadline # 0 /\ now[r] > test.deadline
    \/ test.iterations[r] # 0 /\ n = test.iterations[r]

\* Mutant: every rank decides for itself.
BroadcastsNever == FALSE

\* Whether rank 0 decides for all that the stonewall is hit.
Broadcasts == test.sync /\ test.deadline # 0

\* The collectives of one transfer: the transfer itself when it is
\* collective, then the broadcast of hitStonewall.
TransferCalls ==
    IF test.collective
    THEN IF Broadcasts THEN <<"xfer", "bcast">> ELSE <<"xfer">>
    ELSE IF Broadcasts THEN <<"bcast">> ELSE << >>

Transfer(r) ==
    /\ pc[r] = "block"
    /\ j[r] < test.offsets[r]
    /\ ~hit[r]
    /\ Access(r)
    /\ Enter(r, TransferCalls)
    /\ hit' = [hit EXCEPT ![r] = HitStonewall(r, pairCnt'[r])]
    /\ hitLog' = IF Broadcasts /\ r = 0 THEN Append(hitLog, hit'[r]) ELSE hitLog
    /\ pc' = IF Broadcasts /\ r # 0 THEN [pc EXCEPT ![r] = "bcastWait"] ELSE pc
    /\ UNCHANGED <<test, i, now, result, prefilled>>

\* Rank 0's broadcast overwrites the rank's own hitStonewall.
BcastDone(r) ==
    /\ pc[r] = "bcastWait"
    /\ RootArrived(r)
    /\ hit' = [hit EXCEPT ![r] = hitLog[pairCnt[r]]]
    /\ pc' = [pc EXCEPT ![r] = "block"]
    /\ UNCHANGED <<test, position, pairCnt, now, result, calls,
                   hitLog, history, prefilled>>

LeaveBlock(r) ==
    /\ pc[r] = "block"
    /\ j[r] >= test.offsets[r] \/ hit[r]
    /\ i' = [i EXCEPT ![r] = @ + 1]
    /\ pc' = [pc EXCEPT ![r] = "segment"]
    /\ UNCHANGED <<test, j, pairCnt, hit, now, result, calls,
                   hitLog, history, prefilled>>

\* The do-while: start over at segment 0 while the minimum time is not over.
Repeat(r) ==
    /\ pc[r] = "segment" /\ ~MoreSegments(r)
    /\ now[r] < test.minTime
    /\ pairCnt[r] < MaxPairs
    /\ i' = [i EXCEPT ![r] = 0]
    /\ UNCHANGED <<test, pc, j, pairCnt, hit, now, result, calls,
                   hitLog, history, prefilled>>

LeaveLoop(r) ==
    /\ pc[r] = "segment" /\ ~MoreSegments(r)
    /\ now[r] >= test.minTime
    /\ UNCHANGED <<test, position, pairCnt, hit, now, hitLog, history, prefilled>>
    /\ \/ /\ test.wearOut
          /\ Enter(r, <<"allreduce">>)
          /\ sent' = [sent EXCEPT ![r] = pairCnt[r]]
          /\ pc' = [pc EXCEPT ![r] = "agreeWait"]
          /\ UNCHANGED pairsAccessed
       \/ /\ ~test.wearOut
          /\ pairsAccessed' = [pairsAccessed EXCEPT ![r] = pairCnt[r]]
          /\ pc' = [pc EXCEPT ![r] = "errors"]
          /\ UNCHANGED <<sent, calls>>

\* Mutant: everyone learns the smallest count.
AgreeDoneMin(r) ==
    /\ pc[r] = "agreeWait"
    /\ AllArrived(r)
    /\ \E low \in Ranks :
         /\ \A s \in Ranks : sent[low] <= sent[s]
         /\ pairsAccessed' = [pairsAccessed EXCEPT ![r] = sent[low]]
    /\ Enter(r, <<"reduce">>)
    /\ pc' = [pc EXCEPT ![r] = "resume"]
    /\ UNCHANGED <<test, position, pairCnt, hit, now, sent, hitLog, history,
                   prefilled>>

\* All counts are in: everyone learns the largest, then the statistics are
\* reduced to rank 0 (three MPI_Reduce in a row, one call here).
AgreeDone(r) ==
    /\ pc[r] = "agreeWait"
    /\ AllArrived(r)
    /\ \E top \in Ranks :
         /\ \A s \in Ranks : sent[s] <= sent[top]
         /\ pairsAccessed' = [pairsAccessed EXCEPT ![r] = sent[top]]
    /\ Enter(r, <<"reduce">>)
    /\ pc' = [pc EXCEPT ![r] = "resume"]
    /\ UNCHANGED <<test, position, pairCnt, hit, now, sent, hitLog, history,
                   prefilled>>

\* Where a mutated Resume goes on.
ResumeAt(r, ni, nj) ==
    /\ pc[r] = "resume"
    /\ r = 0 => AllArrived(r)
    /\ IF pairCnt[r] = pairsAccessed[r]
       THEN pc' = [pc EXCEPT ![r] = "errors"] /\ UNCHANGED position
       ELSE /\ pc' = [pc EXCEPT ![r] = "wearSegment"]
            /\ i' = [i EXCEPT ![r] = ni]
            /\ j' = [j EXCEPT ![r] = nj]
    /\ UNCHANGED <<test, pairCnt, hit, now, result, calls, hitLog, history,
                   prefilled>>

\* Mutant: the i-- is missing, the rest of the block is skipped.
ResumeNextBlock(r) == ResumeAt(r, i[r], IF j[r] = test.offsets[r] THEN 0 ELSE j[r])

\* Mutant: after a finished block j is set as if a j++ followed.
ResumeBeforeBlock(r) ==
    IF j[r] = test.offsets[r] THEN ResumeAt(r, i[r], -1) ELSE ResumeAt(r, i[r] - 1, j[r])

\* "complete the current block": undo the last i++, and step to the next
\* segment if the block was finished.
Resume(r) ==
    /\ pc[r] = "resume"
    /\ r = 0 => AllArrived(r)
    /\ IF pairCnt[r] = pairsAccessed[r]
       THEN /\ pc' = [pc EXCEPT ![r] = "errors"]
            /\ UNCHANGED position
       ELSE /\ pc' = [pc EXCEPT ![r] = "wearSegment"]
            /\ IF j[r] = test.offsets[r]
               THEN /\ j' = [j EXCEPT ![r] = 0]
                    /\ UNCHANGED i
               ELSE /\ i' = [i EXCEPT ![r] = @ - 1]
                    /\ UNCHANGED j
    /\ UNCHANGED <<test, pairCnt, hit, now, result, calls, hitLog, history,
                   prefilled>>

\* The head of the wear-out loop over segments, with its wrap over.
WearSegment(r) ==
    /\ pc[r] = "wearSegment"
    /\ IF pairCnt[r] < pairsAccessed[r]
       THEN /\ i' = [i EXCEPT ![r] = IF @ = test.segmentCount THEN 0 ELSE @]
            /\ pc' = [pc EXCEPT ![r] = "wearBlock"]
       ELSE /\ pc' = [pc EXCEPT ![r] = "errors"]
            /\ UNCHANGED i
    /\ UNCHANGED <<test, j, pairCnt, hit, now, result, calls, hitLog, history,
                   prefilled>>

\* Mutant: a block once begun is completed, whatever the others did.
WearTransferWholeBlock(r) ==
    /\ pc[r] = "wearBlock"
    /\ j[r] < test.offsets[r]
    /\ Access(r)
    /\ Enter(r, IF test.collective THEN <<"xfer">> ELSE << >>)
    /\ UNCHANGED <<test, pc, i, hit, now, result, hitLog, prefilled>>

\* A collective transfer is a collective here too.
WearTransfer(r) ==
    /\ pc[r] = "wearBlock"
    /\ j[r] < test.offsets[r]
    /\ pairCnt[r] < pairsAccessed[r]
    /\ Access(r)
    /\ Enter(r, IF test.collective THEN <<"xfer">> ELSE << >>)
    /\ UNCHANGED <<test, pc, i, hit, now, result, hitLog, prefilled>>

\* Mutant: j is not reset for the next block.
LeaveWearBlockKeepsJ(r) ==
    /\ pc[r] = "wearBlock"
    /\ j[r] >= test.offsets[r] \/ pairCnt[r] >= pairsAccessed[r]
    /\ i' = [i EXCEPT ![r] = @ + 1]
    /\ pc' = [pc EXCEPT ![r] = "wearSegment"]
    /\ UNCHANGED <<test, j, pairCnt, hit, now, result, calls, hitLog, history,
                   prefilled>>

LeaveWearBlock(r) ==
    /\ pc[r] = "wearBlock"
    /\ j[r] >= test.offsets[r] \/ pairCnt[r] >= pairsAccessed[r]
    /\ i' = [i EXCEPT ![r] = @ + 1]
    /\ j' = [j EXCEPT ![r] = 0]
    /\ pc' = [pc EXCEPT ![r] = "wearSegment"]
    /\ UNCHANGED <<test, pairCnt, hit, now, result, calls, hitLog, history,
                   prefilled>>

\* CountErrors: the errors are summed at rank 0, which broadcasts the sum.
CountErrors(r) ==
    /\ pc[r] = "errors"
    /\ IF test.check
       THEN /\ Enter(r, IF r = 0 THEN <<"errReduce">>
                        ELSE <<"errReduce", "errBcast">>)
            /\ pc' = [pc EXCEPT ![r] = "errorsWait"]
       ELSE /\ pc' = [pc EXCEPT ![r] = "done"]
            /\ UNCHANGED calls
    /\ UNCHANGED <<test, position, pairCnt, hit, now, result, hitLog, history,
                   prefilled>>

CountErrorsDone(r) ==
    /\ pc[r] = "errorsWait"
    /\ \/ r = 0 /\ AllArrived(r) /\ Enter(r, <<"errBcast">>)
       \/ r # 0 /\ RootArrived(r) /\ UNCHANGED calls
    /\ pc' = [pc EXCEPT ![r] = "done"]
    /\ UNCHANGED <<test, position, pairCnt, hit, now, result, hitLog, history,
                   prefilled>>

RankStep(r) ==
    \/ PrefillAll(r) \/ PrefillAllDone(r)
    \/ PrefillSegment(r) \/ EnterBlock(r)
    \/ Transfer(r) \/ BcastDone(r) \/ LeaveBlock(r)
    \/ Repeat(r) \/ LeaveLoop(r)
    \/ AgreeDone(r) \/ Resume(r)
    \/ WearSegment(r) \/ WearTransfer(r) \/ LeaveWearBlock(r)
    \/ CountErrors(r) \/ CountErrorsDone(r)

\* All ranks have returned: the model stops here, TestIoSys goes on.
Returned ==
    /\ \A r \in Ranks : pc[r] = "done"
    /\ UNCHANGED vars

Next == \/ \E r \in Ranks : RankStep(r) \/ Tick(r)
        \/ Returned

\* Every process runs until it waits in MPI, and time passes.
Fairness == \A r \in Ranks : WF_vars(RankStep(r)) /\ WF_vars(Tick(r))

Spec == Init /\ [][Next]_vars /\ Fairness

----------------------------------------------------------------------------
(***************************************************************************)
(* Parameter sets ValidateTests accepts although the code below does not   *)
(* keep the properties for them; violation runs show it for two of them.   *)
(***************************************************************************)
\* Transfers of the main loop that are collectives or are followed by one.
InStep(t) == t.collective \/ (t.sync /\ t.deadline # 0)

\* Ranks decide by their own clocks whether to repeat a collective loop.
CollectiveRepeat(t) == InStep(t) /\ t.minTime # 0

\* Each transfer is followed by the broadcast of hitStonewall, but ranks have
\* drawn different numbers of transfers: -c with -z in a shared file.
UnevenBroadcasts(t) == InStep(t) /\ ~SameForAll(t.offsets)

\* Ranks decide by their own stonewall whether to enter the next segment,
\* and then its barrier.
PrefillByClock(t) == /\ t.prefill /\ t.deadline # 0 /\ ~t.sync
                     /\ t.segmentCount > 1 \/ t.minTime # 0

\* A rank past its stonewall goes round the do-while, which resets i only.
SpinsPastStonewall(t) == t.wearOut /\ t.minTime > t.deadline

\* A rank that draws no offset can never make up for the others' transfers.
EmptyBlock(t) == t.wearOut /\ \E r \in Ranks : t.offsets[r] = 0

SoundTest(t) == ~( CollectiveRepeat(t) \/ UnevenBroadcasts(t) \/ PrefillByClock(t)
                   \/ SpinsPastStonewall(t) \/ EmptyBlock(t) )

----------------------------------------------------------------------------
PCs == {"prefill", "prefillWait", "segment", "segmentWait", "block", "bcastWait",
        "agreeWait", "resume", "wearSegment", "wearBlock", "errors",
        "errorsWait", "done"}

\* Every variable has its type; positions are in the file except that i and
\* j are one further when a loop has ended.
TypeOK ==
    /\ test \in Tests
    /\ pc \in [Ranks -> PCs]
    /\ i \in [Ranks -> Int]
    /\ j \in [Ranks -> Nat]
    /\ pairCnt \in [Ranks -> Nat]
    /\ hit \in [Ranks -> BOOLEAN]
    /\ now \in [Ranks -> Nat]
    /\ sent \in [Ranks -> Nat]
    /\ pairsAccessed \in [Ranks -> Nat]
    /\ calls \in [Ranks -> Seq(Kinds)]
    /\ hitLog \in Seq(BOOLEAN)
    /\ last \in [Ranks -> Int \X Int]
    /\ prefilled \in [Ranks -> SUBSET Int]
    /\ touched \in SUBSET Int

Following(r, p) ==
    IF p[2] + 1 < test.offsets[r] THEN <<p[1], p[2] + 1>>
    ELSE IF p[1] + 1 < test.segmentCount THEN <<p[1] + 1, 0>>
    ELSE <<0, 0>>

\* A rank accesses its blocks in order, none twice and none left out, and
\* starts over at the first only after the last - across the stonewall, the
\* repeats for the minimum time and the wear-out, which has to find the
\* place where the main loop stopped.
InOrder ==
    [][\A r \in Ranks : pairCnt'[r] # pairCnt[r] =>
          last'[r] = IF pairCnt[r] = 0 THEN <<0, 0>> ELSE Following(r, last[r])]_vars

Finished == {"errors", "errorsWait", "done"}

\* After the wear-out a rank has done as much as any rank ever will, and
\* what it reports (and stores in the status file) is what it did.
EqualWork ==
    \A r \in Ranks : pc[r] \in Finished =>
        /\ pairsAccessed[r] = pairCnt[r]
        /\ test.wearOut => \A s \in Ranks : pairCnt[s] <= pairCnt[r]

\* A phase that is told how many transfers the write phase managed accesses
\* no more than those, whoever decides that the stonewall is hit.
WithinIterations ==
    \A r \in Ranks : test.iterations[r] # 0 => pairCnt[r] <= test.iterations[r]

\* No data is written to a segment that some rank has still to prefill: the
\* prefill would overwrite it.
PrefillFirst ==
    test.prefill => \A k \in touched : \A r \in Ranks : k \in prefilled[r]

\* Every rank returns: nobody is left waiting in a collective, and the
\* wear-out comes to its end.
Returns == <>(\A r \in Ranks : pc[r] = "done")

\* The phase as TestIoSys sees it.
Phase == INSTANCE AccessPhase WITH
    wearOut <- test.wearOut, limit <- test.iterations, count <- pairCnt,
    returned <- {r \in Ranks : pc[r] \in Finished},
    reported <- [r \in Ranks |-> IF pc[r] \in Finished THEN pairsAccessed[r] ELSE 0]

\* The loops, clocks and collectives come to no more than the ranks' numbers
\* and how AccessPhase relates them.
ImplementsPhase == Phase!Spec
=============================================================================
