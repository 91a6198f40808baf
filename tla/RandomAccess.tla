---------------------------- MODULE RandomAccess ----------------------------
(***************************************************************************)
(* Random access in IOR: where the transfers of -z (shuffled), -z -z       *)
(* (drawn) and -z -z -z (permuted by LfsrRange) go, over the phases of     *)
(* TestIoSys().  Nobody tells a rank which transfers are its own or what   *)
(* an earlier phase has accessed: it follows from random numbers, which    *)
(* must be the same wherever they are drawn again.                         *)
(*                                                                         *)
(* random() is any sequence of numbers for each seed, rand64() any number. *)
(* How many transfers a rank does and that it does them in order is what   *)
(* WriteOrRead has been shown to promise.  Offsets count transfers.        *)
(***************************************************************************)
EXTENDS LfsrRange

CONSTANTS
    Options,    \* the option sets a behaviour may start with
    Times,      \* what time() may be
    RandMax     \* bound: the largest number random() yields

(***************************************************************************)
(* random is the number of -z.  transfers make a block, segments is -s,    *)
(* seed is -1 or given.  A shift of n is -C -Q n, with a task per node.    *)
(* phases are those of one repetition; the files are kept.  old is the     *)
(* size of the files that are there before, or of the shared file.         *)
(***************************************************************************)
Phases == {"write", "writecheck", "read", "readcheck"}

OptionRecord ==
    [random : 1 .. 3, filePerProc : BOOLEAN, seed : Nat \cup {-1},
     segments : (Nat \ {0}) \cup {-1}, transfers : Nat \ {0}, shift : Nat,
     stonewall : BOOLEAN, wearOut : BOOLEAN, phases : Seq(Phases),
     old : [Ranks -> Nat]]

Does(o, phase) == \E k \in DOMAIN o.phases : o.phases[k] = phase

\* What ValidateTests lets through.
ValidOption(o) ==
    /\ o.segments = -1 => o.random = 3
    /\ o.random = 1 => o.transfers > 1
    /\ o.shift # 0 => o.filePerProc
    /\ Does(o, "readcheck") => o.seed # -1
    /\ o.wearOut => o.stonewall

ASSUME OptionsAssumption ==
    /\ Times \subseteq Nat /\ Times # {}
    /\ RandMax \in Nat
    /\ \A o \in Options : o \in OptionRecord /\ ValidOption(o)

VARIABLES
    opt,            \* the options
    content,        \* from each <<file, offset>> written to who wrote it
    pc,             \* where each rank is
    done,           \* how many phases each rank has begun
    randomSeed, segmentCount, fileSizeForRead,  \* of params, which phases change
    limit,          \* stoneWallingWearOutIterations, 0 for none
    seed,           \* what a rank has given to srandom()
    draws,          \* from each seed used to what random() yields after it
    order,          \* offsets_rnd
    offset,         \* the offset of -z -z
    count, sent,    \* pairCnt, and what is sent of it
    accessed        \* where the rank has been in this phase

param == <<randomSeed, segmentCount, fileSizeForRead, limit>>
numbers == <<seed, draws, order>>
vars == <<opt, content, pc, done, randomSeed, segmentCount, fileSizeForRead, limit, seed,
          draws, order, offset, count, sent, accessed, rangeVars, calls>>

Kinds == {"barrier", "bcast", "allreduce"}

Shared == -1
None == -1
Garbage == -2   \* an element of an array nobody has set

----------------------------------------------------------------------------
Doing(r) == opt.phases[done[r]]
Reads(phase) == phase \in {"read", "readcheck"}

\* rankOffset
RankOffset(phase) ==
    IF opt.shift = 0 \/ phase = "write" THEN 0
    ELSE IF phase = "writecheck" THEN opt.shift + 1 ELSE opt.shift

PretendRank(r, phase) == (r + RankOffset(phase)) % NumTasks
Pretend(r) == PretendRank(r, Doing(r))

Name(r, phase) == IF opt.filePerProc THEN PretendRank(r, phase) ELSE Shared
Places(name) == {p \in DOMAIN content : p[1] = name}

FileSize(name) ==
    IF Places(name) = {} THEN 0
    ELSE 1 + (CHOOSE n \in {p[2] : p \in Places(name)} : \A p \in Places(name) : p[2] <= n)

\* Transfers in a file, and from one segment to the next.
SegmentSize == IF opt.filePerProc THEN opt.transfers ELSE NumTasks * opt.transfers

\* A file written in order, by an earlier execution.
Old(o) ==
    LET names == IF o.filePerProc THEN Ranks ELSE {Shared}
        size(name) == o.old[IF name = Shared THEN 0 ELSE name]
    IN  [p \in UNION {{name} \X (0 .. size(name) - 1) : name \in names} |->
            IF p[1] = Shared THEN (p[2] \div o.transfers) % NumTasks ELSE p[1]]

Init ==
    /\ opt \in Options
    /\ content = Old(opt)
    /\ pc = [r \in Ranks |-> "next"] /\ done = [r \in Ranks |-> 0]
    /\ randomSeed = [r \in Ranks |-> opt.seed]
    /\ segmentCount = [r \in Ranks |-> opt.segments]
    /\ fileSizeForRead = [r \in Ranks |-> 0]
    /\ limit = [r \in Ranks |-> 0]
    /\ seed = [r \in Ranks |-> 0] /\ draws = << >> /\ order = [r \in Ranks |-> << >>]
    /\ offset = [r \in Ranks |-> None]
    /\ count = [r \in Ranks |-> 0] /\ sent = [r \in Ranks |-> 0]
    /\ accessed = [r \in Ranks |-> {}]
    /\ calls = [r \in Ranks |-> << >>]
    /\ RangeInit

\* f with one entry more, or another.
Put(f, key, value) == [k \in DOMAIN f \cup {key} |-> IF k = key THEN value ELSE f[k]]

Go(r, where) == pc' = [pc EXCEPT ![r] = where]

----------------------------------------------------------------------------
(***************************************************************************)
(* TestIoSys(): what it does before and after WriteOrRead().               *)
(***************************************************************************)
\* The file is created or opened.  Only a read learns its size; the number
\* of segments it finds replaces the option.
Begin(r) ==
    LET phase == opt.phases[done[r] + 1]
        size == FileSize(Name(r, phase))
    IN  /\ pc[r] = "next" /\ done[r] < Len(opt.phases)
        /\ calls[r] = << >> \/ AllArrived(r)
        /\ done' = [done EXCEPT ![r] = @ + 1]
        /\ IF phase = "write"
           THEN /\ content' = [p \in DOMAIN content \ Places(Name(r, phase)) |-> content[p]]
                /\ limit' = [limit EXCEPT ![r] = 0]
           ELSE UNCHANGED <<content, limit>>
        /\ IF Reads(phase) /\ opt.random > 1
           THEN /\ fileSizeForRead' = [fileSizeForRead EXCEPT ![r] = size]
                /\ segmentCount' = [segmentCount EXCEPT ![r] =
                                       IF @ = -1 THEN size \div opt.transfers ELSE @]
           ELSE UNCHANGED <<fileSizeForRead, segmentCount>>
        /\ count' = [count EXCEPT ![r] = 0]
        /\ accessed' = [accessed EXCEPT ![r] = {}]
        /\ offset' = [offset EXCEPT ![r] = None]
        /\ Enter(r, IF Reads(phase) /\ opt.random > 1 THEN <<"allreduce", "barrier">>
                                                    ELSE <<"barrier">>)
        /\ Go(r, "open")
        /\ UNCHANGED <<opt, randomSeed, numbers, sent, rangeVars>>

----------------------------------------------------------------------------
(***************************************************************************)
(* WriteOrRead(): seeds and shuffled offsets.                              *)
(***************************************************************************)
\* All are at the barrier before the file is opened.
Opened(r) == pc[r] = "open" /\ AllArrived(r)

\* Mutant: the seed of a file is that of the rank.
OwnSeed(r) == randomSeed[r] + r

FileSeed(r) == randomSeed[r] + Pretend(r)

Srandom(r, s) == seed' = [seed EXCEPT ![r] = s]
Remember(r, s) == randomSeed' = [randomSeed EXCEPT ![r] = s]
Seeded == IF opt.random = 1 THEN "array" ELSE "access"

\* init_random_seed when it has to come from the clock.
SeedByClock(r) ==
    /\ Opened(r) /\ opt.random # 3 /\ randomSeed[r] = -1
    /\ IF opt.filePerProc \/ r = 0
       THEN /\ \E now \in Times : Srandom(r, now) /\ Remember(r, now)
            /\ Go(r, Seeded)
       ELSE Go(r, "seedWait") /\ UNCHANGED <<seed, randomSeed>>
    /\ IF opt.filePerProc THEN UNCHANGED calls ELSE Enter(r, <<"bcast">>)
    /\ UNCHANGED <<opt, content, done, segmentCount, fileSizeForRead, limit, draws, order,
                   offset, count, sent, accessed, rangeVars>>

SeedKnown(r) ==
    /\ pc[r] = "seedWait"
    /\ RootArrived(r)
    /\ Srandom(r, randomSeed[0]) /\ Remember(r, randomSeed[0])
    /\ Go(r, Seeded)
    /\ UNCHANGED <<opt, content, done, segmentCount, fileSizeForRead, limit, draws, order,
                   offset, count, sent, accessed, rangeVars, calls>>

\* init_random_seed when there is one.
SeedGiven(r) ==
    /\ Opened(r) /\ opt.random # 3 /\ randomSeed[r] # -1
    /\ Srandom(r, IF opt.filePerProc THEN FileSeed(r) ELSE randomSeed[r])
    /\ Go(r, Seeded)
    /\ UNCHANGED <<opt, content, done, param, draws, order, offset, count, sent, accessed,
                   rangeVars, calls>>

SetupRange(r) ==
    /\ Opened(r) /\ opt.random = 3
    /\ LET n == fileSizeForRead[r] \div opt.transfers
       IN  n \in 0 .. MaxBlocks /\ NewRange(r, n)
    /\ Go(r, "access")
    /\ UNCHANGED <<opt, content, done, param, numbers, offset, count, sent, accessed, calls>>

\* The draws GetOffsetArrayRandom makes: one for each transfer in a segment
\* of a shared file, and one for each offset of the array.
SharedDraws == IF opt.filePerProc THEN 0 ELSE NumTasks * opt.transfers
Draws == IF opt.filePerProc THEN opt.transfers ELSE 2 * SharedDraws
Streams == [1 .. Draws -> 0 .. RandMax]

\* The transfers of rank p in a shared file, by the draws after the first n.
Shares(s, n, p) ==
    LET taken[k \in 0 .. SharedDraws] ==
            IF k = 0 THEN << >>
            ELSE IF s[n + k] % NumTasks = p THEN Append(taken[k - 1], k - 1) ELSE taken[k - 1]
    IN  taken[SharedDraws]

\* Mutant: the second pass goes on with the draws of the first.
SecondPassOn(s, p) == Shares(s, SharedDraws, p)

\* The second pass draws the same again.
SecondPass(s, p) == Shares(s, 0, p)

Swapped(a, k, l) == [a EXCEPT ![k] = a[l], ![l] = a[k]]

\* Each offset in turn changes places with one that is drawn for it.
Exchanged(a, s) ==
    LET n == Len(a)
        shuffled[k \in 0 .. n] ==
            IF k = 0 THEN a ELSE Swapped(shuffled[k - 1], k, (s[SharedDraws + k] % n) + 1)
    IN  shuffled[n]

\* GetOffsetArrayRandom, where random() yields s.
OffsetArray(s, p) ==
    LET n == IF opt.filePerProc THEN opt.transfers ELSE Len(Shares(s, 0, p))
        filled == IF opt.filePerProc THEN [k \in 1 .. n |-> k - 1] ELSE SecondPass(s, p)
    IN  Exchanged([k \in 1 .. n |-> IF k <= Len(filled) THEN filled[k] ELSE Garbage], s)

Shuffle(r) ==
    /\ pc[r] = "array"
    /\ \E s \in IF seed[r] \in DOMAIN draws THEN {draws[seed[r]]} ELSE Streams :
          /\ draws' = Put(draws, seed[r], s)
          /\ order' = [order EXCEPT ![r] = OffsetArray(s, Pretend(r))]
    /\ Go(r, "access")
    /\ UNCHANGED <<opt, content, done, param, seed, offset, count, sent, accessed, rangeVars,
                   calls>>

----------------------------------------------------------------------------
(***************************************************************************)
(* WriteOrRead(): the transfers.                                           *)
(***************************************************************************)
Offsets(r) == IF opt.random = 1 THEN Len(order[r]) ELSE opt.transfers
OnePass(r) == IF segmentCount[r] > 0 THEN segmentCount[r] * Offsets(r) ELSE 0

Largest == CHOOSE n \in {sent[r] : r \in Ranks} : \A r \in Ranks : sent[r] <= n

More(r) ==
    \/ pc[r] = "access" /\ count[r] < OnePass(r) /\ (limit[r] # 0 => count[r] < limit[r])
    \/ pc[r] = "resume" /\ count[r] < Largest

\* WriteOrReadSingle
Access(r, o) ==
    LET place == <<Name(r, Doing(r)), o>>
    IN  /\ count' = [count EXCEPT ![r] = @ + 1]
        /\ accessed' = [accessed EXCEPT ![r] = @ \cup {place}]
        /\ content' = IF Doing(r) = "write" THEN Put(content, place, Pretend(r)) ELSE content

TransferShuffled(r) ==
    /\ opt.random = 1 /\ More(r) /\ Offsets(r) # 0
    /\ LET segment == (count[r] \div Offsets(r)) % segmentCount[r]
       IN  Access(r, order[r][(count[r] % Offsets(r)) + 1] + segment * SegmentSize)
    /\ UNCHANGED <<opt, pc, done, param, numbers, offset, sent, rangeVars, calls>>

\* A rank without offsets in the array goes through segments for ever.
Spin(r) ==
    /\ opt.random = 1 /\ More(r) /\ Offsets(r) = 0
    /\ UNCHANGED vars

\* A new block is drawn at its first transfer, and where the wear-out resumes.
DrawsBlock(r) == count[r] % opt.transfers = 0 \/ offset[r] = None

\* sizerand
RangeToDraw(r) ==
    IF pc[r] = "resume" /\ opt.filePerProc THEN fileSizeForRead[r] \div NumTasks
                                           ELSE fileSizeForRead[r]

Blocks(r) == RangeToDraw(r) \div opt.transfers

\* The writer of a file writes the last block first.
BlocksToDraw(r) ==
    IF /\ Doing(r) = "write" /\ pc[r] = "access" /\ count[r] < opt.transfers
       /\ opt.filePerProc \/ r = 0
    THEN {Blocks(r) - 1} ELSE 0 .. Blocks(r) - 1

TransferDrawn(r) ==
    /\ opt.random = 2 /\ More(r) /\ (DrawsBlock(r) => Blocks(r) # 0)
    /\ \E o \in IF DrawsBlock(r) THEN {n * opt.transfers : n \in BlocksToDraw(r)}
                                 ELSE {offset[r] + 1} :
          /\ offset' = [offset EXCEPT ![r] = o]
          /\ Access(r, o)
    /\ UNCHANGED <<opt, pc, done, param, numbers, sent, rangeVars, calls>>

\* rpos % 0
DivideByZero(r) ==
    /\ opt.random = 2 /\ More(r) /\ DrawsBlock(r) /\ Blocks(r) = 0
    /\ Go(r, "trap")
    /\ UNCHANGED <<opt, content, done, param, numbers, offset, count, sent, accessed,
                   rangeVars, calls>>

\* u_lfsr_range_step is called with a transfer to do.
AskRange(r) ==
    /\ opt.random = 3 /\ More(r)
    /\ Restart(r) \/ Draw(r)
    /\ UNCHANGED <<opt, content, pc, done, param, numbers, offset, count, sent, accessed,
                   calls>>

WithinRange(r) ==
    /\ opt.random = 3
    /\ BuildBit(r) \/ Built(r) \/ Skip(r)
    /\ UNCHANGED <<opt, content, pc, done, param, numbers, offset, count, sent, accessed,
                   calls>>

TransferPermuted(r) ==
    /\ opt.random = 3
    /\ Take(r)
    /\ Access(r, Block(r) * opt.transfers)
    /\ UNCHANGED <<opt, pc, done, param, numbers, offset, sent, calls>>

\* An offset below zero: the transfer fails, ERR ends the program.
FailBelowZero(r) ==
    /\ opt.random = 3 /\ More(r) /\ Empty(r)
    /\ Go(r, "abort")
    /\ UNCHANGED <<opt, content, done, param, numbers, offset, count, sent, accessed,
                   rangeVars, calls>>

\* The loop ends, or the stonewall is hit.  With wear-out the ranks agree.
LeaveLoop(r) ==
    /\ pc[r] = "access"
    /\ ~More(r) \/ (opt.stonewall /\ count[r] > 0)
    /\ opt.random = 3 => At(r, "ready")
    /\ IF opt.wearOut
       THEN /\ sent' = [sent EXCEPT ![r] = count[r]]
            /\ Enter(r, <<"allreduce">>)
            /\ Go(r, "agree")
       ELSE Go(r, "close") /\ UNCHANGED <<sent, calls>>
    /\ UNCHANGED <<opt, content, done, param, numbers, offset, count, accessed, rangeVars>>

Agreed(r) ==
    /\ pc[r] = "agree"
    /\ AllArrived(r)
    /\ offset' = [offset EXCEPT ![r] = None]
    /\ Go(r, "resume")
    /\ UNCHANGED <<opt, content, done, param, numbers, count, sent, accessed, rangeVars, calls>>

WornOut(r) ==
    /\ pc[r] = "resume" /\ ~More(r)
    /\ opt.random = 3 => At(r, "ready")
    /\ Go(r, "close")
    /\ UNCHANGED <<opt, content, done, param, numbers, offset, count, sent, accessed,
                   rangeVars, calls>>

\* The file is closed.  What a write with a stonewall has done is the limit
\* of the phases that follow.
Close(r) ==
    /\ pc[r] = "close"
    /\ limit' = [limit EXCEPT ![r] = IF opt.stonewall /\ Doing(r) = "write"
                                     THEN count[r] ELSE @]
    /\ IF opt.random = 3 THEN FreeRange(r) ELSE UNCHANGED rangeVars
    /\ CASE Doing(r) = "write" -> Enter(r, <<"barrier", "allreduce">>)
         [] Doing(r) = "writecheck" -> UNCHANGED calls
         [] OTHER -> Enter(r, <<"allreduce">>)
    /\ Go(r, "next")
    /\ UNCHANGED <<opt, content, done, randomSeed, segmentCount, fileSizeForRead, numbers,
                   offset, count, sent, accessed>>

RankStep(r) ==
    \/ Begin(r) \/ Close(r)
    \/ SeedByClock(r) \/ SeedKnown(r) \/ SeedGiven(r) \/ SetupRange(r) \/ Shuffle(r)
    \/ TransferShuffled(r) \/ Spin(r) \/ TransferDrawn(r) \/ DivideByZero(r)
    \/ AskRange(r) \/ WithinRange(r) \/ TransferPermuted(r) \/ FailBelowZero(r)
    \/ LeaveLoop(r) \/ Agreed(r) \/ WornOut(r)

Finished == \A r \in Ranks : pc[r] = "next" /\ done[r] = Len(opt.phases)
Stopped == \E r \in Ranks : pc[r] \in {"trap", "abort"}

Next == \/ ~Stopped /\ \E r \in Ranks : RankStep(r)
        \/ (Finished \/ Stopped) /\ UNCHANGED vars

Spec == Init /\ [][Next]_vars

----------------------------------------------------------------------------
(***************************************************************************)
(* Options for which random access does not do what it is meant to.        *)
(***************************************************************************)
\* A seed from the clock is used as it is the first time and with the rank
\* added after that, so what the stonewall left out is not the same.
Reseeded(o) ==
    /\ o.filePerProc /\ o.seed = -1 /\ o.stonewall
    /\ Does(o, "writecheck") \/ Does(o, "read")

\* A rank checks the file of another up to its own count.
OwnCounts(o) == o.stonewall /\ ~o.wearOut /\ o.shift # 0

\* The data of a shared file is checked to be the reader's.
OthersData(o) ==
    /\ ~o.filePerProc /\ Does(o, "readcheck")
    /\ o.random > 1 \/ ~Does(o, "write")

SoundOption(o) == ~(Reseeded(o) \/ OwnCounts(o) \/ OthersData(o))

----------------------------------------------------------------------------
PCs == {"next", "open", "seedWait", "array", "access", "agree", "resume",
        "close", "trap", "abort"}

\* Every variable has its type: the array of offsets is filled to its end,
\* and the choice of a range stays within elem[].
TypeOK ==
    /\ opt \in Options
    /\ \A p \in DOMAIN content : content[p] \in Ranks
    /\ pc \in [Ranks -> PCs]
    /\ done \in [Ranks -> 0 .. Len(opt.phases)]
    /\ randomSeed \in [Ranks -> Nat \cup {-1}]
    /\ segmentCount \in [Ranks -> Nat \cup {-1}]
    /\ fileSizeForRead \in [Ranks -> Nat]
    /\ limit \in [Ranks -> Nat]
    /\ seed \in [Ranks -> Nat]
    /\ \A n \in DOMAIN draws : draws[n] \in Streams
    /\ order \in [Ranks -> Seq(0 .. SegmentSize - 1)]
    /\ offset \in [Ranks -> Nat \cup {None}]
    /\ count \in [Ranks -> Nat] /\ sent \in [Ranks -> Nat]
    /\ accessed \in [Ranks -> SUBSET ((Ranks \cup {Shared}) \X Nat)]
    /\ calls \in [Ranks -> Seq(Kinds)]
    /\ RangeTypeOK /\ PicksWithin

\* Ranks that access a file in the same phase.
Together(r, s) == done[r] = done[s] /\ ~opt.filePerProc

PhaseOver == \A r \in Ranks : pc[r] = "next" /\ done[r] = done[0] /\ done[r] # 0

\* In shuffled order no transfer is done twice before all of a rank's have
\* been done, none by two ranks, and when the phase is over none has been
\* left out: "all transfers get randomly assigned to ranks", each rank
\* drawing for itself what the others leave to it.
EveryTransferOnce ==
    opt.random = 1 =>
        /\ \A r \in Ranks :
              count[r] <= OnePass(r) => Cardinality(accessed[r]) = count[r]
        /\ \A r, s \in Ranks : r # s /\ Together(r, s) =>
              accessed[r] \cap accessed[s] = {}
        /\ ~opt.stonewall /\ PhaseOver =>
              UNION {accessed[r] : r \in Ranks} =
                  {Name(r, Doing(r)) : r \in Ranks} \X (0 .. opt.segments * SegmentSize - 1)

\* Whatever a read goes to is in the file, and what a check goes to has been
\* written by the rank it pretends to be, in this phase or another, before
\* and after a stonewall: nothing but the random numbers says which.
ReadsFindData ==
    \A r \in Ranks : done[r] # 0 /\ Doing(r) # "write" =>
        \A p \in accessed[r] :
            /\ \E q \in DOMAIN content : q[1] = p[1] /\ q[2] >= p[2]
            /\ Doing(r) # "read" => p \in DOMAIN content /\ content[p] = Pretend(r)

\* "always write the last block first": a random access can be done.
NoTrap == \A r \in Ranks : pc[r] # "trap"
=============================================================================
