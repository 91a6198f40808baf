------------------------------ MODULE IorTest ------------------------------
(***************************************************************************)
(* The test loop of IOR, TestIoSys() in ior.c, by all ranks: repetitions   *)
(* of write, write check, read and removal, in one or several executions   *)
(* of the program.  Each phase relies on what an earlier one, mostly of    *)
(* another rank, has left in the files.                                    *)
(*                                                                         *)
(* A call of WriteOrRead() is taken from AccessPhase.  The content of a    *)
(* file is, for each rank whose block it is, a sequence of transfers, and  *)
(* of each transfer the time stamp signature it was written with.          *)
(***************************************************************************)
EXTENDS Mpi, FiniteSets

CONSTANTS Options,      \* the option sets a behaviour may start with
          Transfers     \* bound: transfers of one rank, segments and all

(***************************************************************************)
(* executions are the executions of the program, with the options that     *)
(* differ between them; the others are given to all.  reorder is "none",   *)
(* "constant" (-C), "random" (-Z) or "shuffle", offset is taskPerNodeOffset*)
(* (-Q) with one task on each node, perm the permutation the shuffle's     *)
(* seed makes; signature says that -G is given.  faulty is the storage's:  *)
(* it may spoil a transfer.                                                *)
(***************************************************************************)
ExecutionRecord ==
    [write : BOOLEAN, checkWrite : BOOLEAN, read : BOOLEAN, checkRead : BOOLEAN,
     deadline : BOOLEAN, wearOut : BOOLEAN, status : BOOLEAN]

OptionRecord ==
    [filePerProc : BOOLEAN, multiFile : BOOLEAN, useExisting : BOOLEAN,
     keepFile : BOOLEAN, keepWithError : BOOLEAN, repetitions : Nat \ {0},
     reorder : {"none", "constant", "random", "shuffle"}, offset : Nat,
     perm : [Ranks -> Ranks], barriers : BOOLEAN, timeLimit : BOOLEAN,
     signature : BOOLEAN, faulty : BOOLEAN, executions : Seq(ExecutionRecord)]

Reads(e) == e.read \/ e.checkRead

\* What ValidateTests lets through.
ValidOption(o) ==
    /\ o.executions # << >>
    /\ \A k \in DOMAIN o.executions :
         LET e == o.executions[k]
         IN  /\ e.write \/ e.checkWrite \/ Reads(e)
             /\ e.wearOut => e.deadline
             /\ e.status => o.keepFile /\ (e.write => e.wearOut)
             /\ e.checkRead => e.write \/ o.signature

\* The shuffle exchanges entries of the list of all ranks.
IsPermutation(f) == \A w \in Ranks : \E r \in Ranks : f[r] = w

ASSUME OptionsAssumption ==
    /\ Transfers \in Nat \ {0}
    /\ \A o \in Options : o \in OptionRecord /\ ValidOption(o) /\ IsPermutation(o.perm)

VARIABLES
    opt, execution,     \* the options, and which execution it is
    files,              \* from the names of the files there are to their contents
    status,             \* the number in the status file, 0 if there is none
    pc,                 \* where each rank is
    rep,                \* repetition, from 0
    rankOffset, name,   \* rankOffset and testFileName of each rank
    stamp,              \* timeStampSignatureValue
    iterations,         \* stoneWallingWearOutIterations, 0 for no limit
    results,            \* results[rep].write.pairs_accessed
    access, openFile,   \* the access and the file of a WriteOrRead()
    count, returned, reported, \* the call of WriteOrRead(), see AccessPhase
    errors, errorFound, \* errors in this call, and params->errorFound
    late,               \* ranks that have found the time limit to be over
    done,               \* phases each rank has begun in this repetition
    evidence,           \* files in which a check has found an error
    spoilt              \* whether the storage has spoilt a transfer

fixed == <<opt, execution, status, spoilt>>
open == <<access, openFile>>
loop == <<rep, stamp, errorFound, late, done>>
naming == <<rankOffset, name>>
sizes == <<iterations, results>>
phase == <<count, returned, reported>>
checks == <<errors, evidence>>
vars == <<opt, execution, files, status, pc, rep, rankOffset, name, stamp, iterations,
          results, access, openFile, count, returned, reported, errors, errorFound,
          late, done, evidence, spoilt, calls>>

Exec == opt.executions[execution]
Repetitions == 0 .. opt.repetitions - 1
Positions == 1 .. Transfers
NoFile == << >>
Hole == -1      \* never written
Spoilt == -2
Empty == [w \in Ranks |-> [k \in Positions |-> Hole]]

Call == INSTANCE AccessPhase WITH wearOut <- Exec.wearOut, limit <- iterations

Kinds == {"bcast", "barrier", "allreduce", "reduce", "errors"}

----------------------------------------------------------------------------
Each(x) == [r \in Ranks |-> x]

Init ==
    /\ opt \in Options
    /\ execution = 1
    /\ files = << >> /\ status = 0 /\ evidence = {} /\ spoilt = FALSE
    /\ stamp = Each(0)
    /\ pc = Each("start") /\ rep = Each(0) /\ rankOffset = Each(0) /\ name = Each(NoFile)
    /\ iterations = Each(0) /\ results = Each([n \in Repetitions |-> 0])
    /\ access = Each("write") /\ openFile = Each(NoFile)
    /\ count = Each(0) /\ returned = {} /\ reported = Each(0)
    /\ errors = Each(FALSE) /\ errorFound = Each(FALSE)
    /\ late = {} /\ done = Each({}) /\ calls = Each(<< >>)

Go(r, where) == pc' = [pc EXCEPT ![r] = where]

\* Rank r comes out of a collective and enters the next ones, no barrier.
Passes(r, from, kinds, to) ==
    /\ pc[r] = from
    /\ AllArrived(r)
    /\ Enter(r, kinds)
    /\ Go(r, to)
    /\ UNCHANGED <<fixed, files, loop, naming, sizes, open, phase, checks>>

\* When the last rank enters a barrier nobody is in WriteOrRead: the next
\* call begins with nothing accessed.
EnterBarrier(r) ==
    /\ Enter(r, <<"barrier">>)
    /\ IF \A s \in Ranks \ {r} : Len(calls[s]) > Len(calls[r])
       THEN /\ count' = [s \in Ranks |-> 0]
            /\ returned' = {}
            /\ reported' = [s \in Ranks |-> 0]
       ELSE UNCHANGED phase

PretendRank(r, off) == (r + off) % NumTasks

\* GetTestFileName
TestFileName(r, off) ==
    << IF opt.filePerProc THEN PretendRank(r, off) ELSE 0,
       IF opt.multiFile THEN rep[r] ELSE 0 >>

\* Mutant: every rank deletes the file it has last read.
RemovedLastRead(r, n) == IF opt.filePerProc \/ r = 0 THEN {n} ELSE {}

\* RemoveFile, with testFileName n: in random order a rank deletes its own.
Removed(r, n) ==
    IF ~opt.filePerProc THEN IF r = 0 THEN {n} ELSE {}
    ELSE IF opt.reorder = "random" THEN {TestFileName(r, 0)}
    ELSE {n}

\* O_CREAT leaves a file that is there as it is.
With(n) == [m \in DOMAIN files \cup {n} |-> IF m \in DOMAIN files THEN files[m] ELSE Empty]

Without(gone) == [n \in DOMAIN files \ gone |-> files[n]]

----------------------------------------------------------------------------
\* A repetition begins with a time stamp for all, unless one is given.
StartRep(r) ==
    /\ pc[r] = "start"
    /\ Enter(r, <<"bcast">>)
    /\ IF r = 0
       THEN /\ \E t \in IF opt.signature THEN {stamp[0]} ELSE {stamp[0], stamp[0] + 1} :
                  stamp' = [stamp EXCEPT ![0] = t]
            /\ Go(r, "write")
       ELSE Go(r, "stampWait") /\ UNCHANGED stamp
    /\ UNCHANGED <<fixed, files, rep, naming, sizes, open, phase, checks, errorFound,
                   late, done>>

StampKnown(r) ==
    /\ pc[r] = "stampWait"
    /\ RootArrived(r)
    /\ stamp' = [stamp EXCEPT ![r] = stamp[0]]
    /\ Go(r, "write")
    /\ UNCHANGED <<fixed, files, rep, naming, sizes, open, phase, checks, errorFound,
                   late, done, calls>>

\* Whether phase p is asked for.
Wanted(p) == CASE p = "write" -> Exec.write
               [] p = "check" -> Exec.checkWrite
               [] p = "read" -> Reads(Exec)

\* A rank takes the next phase unless its clock says the time is over.
Takes(r, p) ==
    /\ pc[r] = p
    /\ Wanted(p) /\ r \notin late
    /\ done' = [done EXCEPT ![r] = @ \cup {p}]

Skip(r) ==
    /\ pc[r] \in {"write", "check", "read"}
    /\ IF Wanted(pc[r]) THEN opt.timeLimit /\ late' = late \cup {r}
                        ELSE UNCHANGED late
    /\ Go(r, CASE pc[r] = "write" -> "check" [] pc[r] = "check" -> "read"
               [] pc[r] = "read" -> "remove")
    /\ UNCHANGED <<fixed, files, rep, naming, stamp, sizes, open, phase, checks,
                   errorFound, done, calls>>

\* An old file is removed, and whatever limited the last read forgotten.
BeginWrite(r) ==
    /\ Takes(r, "write")
    /\ name' = [name EXCEPT ![r] = TestFileName(r, rankOffset[r])]
    /\ files' = IF opt.useExisting THEN files ELSE Without(Removed(r, name'[r]))
    /\ iterations' = [iterations EXCEPT ![r] = 0]
    /\ EnterBarrier(r)
    /\ Go(r, "writeWait")
    /\ UNCHANGED <<fixed, rep, rankOffset, stamp, results, open, checks, errorFound, late>>

BeginCheck(r) ==
    /\ Takes(r, "check")
    /\ EnterBarrier(r)
    /\ Go(r, "checkWait")
    /\ UNCHANGED <<fixed, files, rep, naming, stamp, sizes, open, checks, errorFound, late>>

\* Mutant: without a number in the file rank 0 returns before its broadcast.
BeginReadUnanswered(r) ==
    /\ Takes(r, "read")
    /\ IF ~Exec.status \/ (r = 0 /\ status = 0)
       THEN Go(r, "reorder") /\ UNCHANGED <<calls, iterations>>
       ELSE /\ Enter(r, <<"bcast">>)
            /\ IF r = 0 THEN /\ iterations' = [iterations EXCEPT ![0] = status]
                             /\ Go(r, "reorder")
                        ELSE Go(r, "statusWait") /\ UNCHANGED iterations
    /\ UNCHANGED <<fixed, files, rep, naming, stamp, results, open, phase, checks,
                   errorFound, late>>

\* A read may be limited by what the status file says of another execution:
\* rank 0 reads it and broadcasts the number.
BeginRead(r) ==
    /\ Takes(r, "read")
    /\ IF ~Exec.status
       THEN Go(r, "reorder") /\ UNCHANGED <<calls, iterations>>
       ELSE /\ Enter(r, <<"bcast">>)
            /\ IF r = 0 THEN /\ iterations' = [iterations EXCEPT ![0] = status]
                             /\ Go(r, "reorder")
                        ELSE Go(r, "statusWait") /\ UNCHANGED iterations
    /\ UNCHANGED <<fixed, files, rep, naming, stamp, results, open, phase, checks,
                   errorFound, late>>

StatusKnown(r) ==
    /\ pc[r] = "statusWait"
    /\ RootArrived(r)
    /\ iterations' = [iterations EXCEPT ![r] = iterations[0]]
    /\ Go(r, "reorder")
    /\ UNCHANGED <<fixed, files, loop, naming, results, open, phase, checks, calls>>

\* Mutant: the offset is not reduced to a rank.
CheckOffsetUnreduced == opt.offset + 1

CheckOffset == (opt.offset + 1) % NumTasks

\* The rankOffset of a read; rand() may return anything.
ReadOffsets(r) ==
    CASE opt.reorder = "none" -> {0}
      [] opt.reorder = "constant" -> {opt.offset % NumTasks}
      [] opt.reorder = "random" -> {o \in Ranks : o >= opt.offset \/ o = NumTasks - 1}
      [] opt.reorder = "shuffle" -> {opt.perm[r] - r}

Reorder(r) ==
    /\ pc[r] = "reorder"
    /\ \E off \in ReadOffsets(r) :
         /\ rankOffset' = [rankOffset EXCEPT ![r] = off]
         /\ name' = [name EXCEPT ![r] = TestFileName(r, off)]
    /\ EnterBarrier(r)
    /\ Go(r, "readWait")
    /\ UNCHANGED <<fixed, files, loop, sizes, open, checks>>

\* The file is open; with intraTestBarriers the ranks wait for each other
\* before they access it.
Opened(r, a, n) ==
    /\ access' = [access EXCEPT ![r] = a]
    /\ openFile' = [openFile EXCEPT ![r] = n]
    /\ errors' = [errors EXCEPT ![r] = FALSE]
    /\ IF opt.barriers /\ a # "check"
       THEN EnterBarrier(r) /\ Go(r, "openWait")
       ELSE Go(r, "access") /\ UNCHANGED <<calls, phase>>

Create(r) ==
    /\ pc[r] = "writeWait"
    /\ AllArrived(r)
    /\ Opened(r, "write", name[r])
    /\ files' = With(name[r])
    /\ UNCHANGED <<fixed, loop, naming, sizes, evidence>>

\* The check reads the block of a rank one node further than the read will.
OpenCheck(r) ==
    /\ pc[r] = "checkWait"
    /\ AllArrived(r)
    /\ rankOffset' = [rankOffset EXCEPT ![r] = IF opt.reorder = "constant" THEN CheckOffset ELSE @]
    /\ name' = [name EXCEPT ![r] = TestFileName(r, rankOffset'[r])]
    /\ name'[r] \in DOMAIN files
    /\ Opened(r, "check", name'[r])
    /\ UNCHANGED <<fixed, files, loop, sizes, evidence>>

OpenRead(r) ==
    /\ pc[r] = "readWait"
    /\ AllArrived(r)
    /\ name[r] \in DOMAIN files
    /\ Opened(r, "read", name[r])
    /\ UNCHANGED <<fixed, files, loop, naming, sizes, evidence>>

OpenDone(r) == Passes(r, "openWait", << >>, "access")

----------------------------------------------------------------------------
\* What rank r finds at position k of the block it accesses.
Found(r, k) ==
    IF openFile[r] \in DOMAIN files THEN files[openFile[r]][PretendRank(r, rankOffset[r])][k]
    ELSE Hole

\* Whether rank r notices something wrong there: a hole in a read (the
\* transfer may fall short), other data in a check.
Wrong(r, k) ==
    \/ access[r] = "read" /\ Found(r, k) = Hole
    \/ (access[r] = "check" \/ Exec.checkRead) /\ Found(r, k) # stamp[r]

\* One WriteOrReadSingle().
Transfer(r) ==
    /\ pc[r] = "access"
    /\ count[r] < Transfers
    /\ UNCHANGED <<fixed, pc, loop, naming, sizes, open, calls>>
    /\ Call!Access(r)
    /\ LET k == count'[r]
       IN  IF access[r] = "write"
           THEN /\ files' = IF openFile[r] \in DOMAIN files
                            THEN [files EXCEPT ![openFile[r]][PretendRank(r, rankOffset[r])][k] = stamp[r]]
                            ELSE files
                /\ UNCHANGED checks
           ELSE /\ errors' = [errors EXCEPT ![r] = @ \/ Wrong(r, k)]
                /\ evidence' = IF Wrong(r, k) THEN evidence \cup {openFile[r]} ELSE evidence
                /\ UNCHANGED files

\* WriteOrRead() returns at the end of the blocks, at the limit, or after
\* any transfer when there is a stonewall.  Its check of errors is a sum at
\* rank 0 and a broadcast.
Return(r) ==
    /\ pc[r] = "access"
    /\ count[r] > 0
    /\ Exec.deadline \/ count[r] \in {Transfers, iterations[r]}
    /\ UNCHANGED <<fixed, files, loop, naming, iterations, open, checks>>
    /\ Call!Return(r)
    /\ results' = IF access[r] = "read" THEN results
                  ELSE [results EXCEPT ![r][rep[r]] = count[r]]
    /\ IF Exec.checkWrite \/ Exec.checkRead
       THEN Enter(r, <<"errors">>) /\ Go(r, "errorsWait")
       ELSE Go(r, "returned") /\ UNCHANGED calls

\* Mutant: a rank learns of its own errors only.
ErrorsKnownAlone(r) ==
    /\ pc[r] = "errorsWait"
    /\ AllArrived(r)
    /\ errorFound' = [errorFound EXCEPT ![r] = @ \/ errors[r]]
    /\ Go(r, "returned")
    /\ UNCHANGED <<fixed, files, rep, naming, stamp, sizes, open, phase, checks, late,
                   done, calls>>

\* The sum rank r learns.
ErrorsKnown(r) ==
    /\ pc[r] = "errorsWait"
    /\ AllArrived(r)
    /\ errorFound' = [errorFound EXCEPT ![r] = @ \/ \E s \in Ranks : errors[s]]
    /\ Go(r, "returned")
    /\ UNCHANGED <<fixed, files, rep, naming, stamp, sizes, open, phase, checks, late,
                   done, calls>>

AccessDone(r) ==
    /\ pc[r] = "returned" /\ opt.barriers /\ access[r] # "check"
    /\ EnterBarrier(r)
    /\ Go(r, "closeWait")
    /\ UNCHANGED <<fixed, files, loop, naming, sizes, open, checks>>

Close(r) ==
    /\ \/ pc[r] = "returned" /\ (opt.barriers => access[r] = "check")
       \/ pc[r] = "closeWait" /\ AllArrived(r)
    /\ openFile' = [openFile EXCEPT ![r] = NoFile]
    /\ CASE access[r] = "write" ->
              EnterBarrier(r) /\ Go(r, "closed") /\ UNCHANGED rankOffset
         [] access[r] = "check" ->
              /\ rankOffset' = [rankOffset EXCEPT ![r] = 0]
              /\ Go(r, "read") /\ UNCHANGED <<calls, phase>>
         [] access[r] = "read" ->
              Enter(r, <<"allreduce">>) /\ Go(r, "sizeWait") /\ UNCHANGED <<phase, rankOffset>>
    /\ UNCHANGED <<fixed, files, loop, name, sizes, access, checks>>

\* CheckFileSize begins when all have closed.
Closed(r) == Passes(r, "closed", <<"allreduce">>, "sizeWait")

SizeKnown(r) == Passes(r, "sizeWait", <<"reduce">>, "report")

\* Mutant: how far the write has come is forgotten.
LimitForgotten(r) == iterations[r]

\* After a write with a stonewall the other phases access no more than it.
Limit(r) == IF Exec.deadline THEN results[r][rep[r]] ELSE iterations[r]

Reported(r) ==
    /\ pc[r] = "report"
    /\ r = 0 => AllArrived(r)
    /\ iterations' = [iterations EXCEPT ![r] = IF access[r] = "write" THEN Limit(r) ELSE @]
    /\ Go(r, IF access[r] = "write" THEN "check" ELSE "remove")
    /\ UNCHANGED <<fixed, files, loop, naming, results, open, phase, checks, calls>>

----------------------------------------------------------------------------
\* Whether the files of this repetition are to be removed.
Removes(r) == ~opt.keepFile /\ ~(errorFound[r] /\ opt.keepWithError)

BeforeRemove(r) ==
    /\ pc[r] = "remove"
    /\ EnterBarrier(r)
    /\ Go(r, IF Removes(r) THEN "removeWait" ELSE "repWait")
    /\ UNCHANGED <<fixed, files, loop, naming, sizes, open, checks>>

\* Mutant: the barrier before the removal is dropped.
RemoveAtOnce(r) ==
    /\ pc[r] = "removeWait"
    /\ files' = Without(Removed(r, name[r]))
    /\ EnterBarrier(r)
    /\ Go(r, "repWait")
    /\ UNCHANGED <<fixed, loop, naming, sizes, open, checks>>

Remove(r) ==
    /\ pc[r] = "removeWait"
    /\ AllArrived(r)
    /\ files' = Without(Removed(r, name[r]))
    /\ EnterBarrier(r)
    /\ Go(r, "repWait")
    /\ UNCHANGED <<fixed, loop, naming, sizes, open, checks>>

EndRep(r) ==
    /\ pc[r] = "repWait"
    /\ AllArrived(r)
    /\ errorFound' = [errorFound EXCEPT ![r] = FALSE]
    /\ rankOffset' = [rankOffset EXCEPT ![r] = 0]
    /\ done' = [done EXCEPT ![r] = {}]
    /\ evidence' = {}
    /\ IF rep[r] + 1 \in Repetitions
       THEN rep' = [rep EXCEPT ![r] = @ + 1] /\ Go(r, "start")
       ELSE Go(r, "finish") /\ UNCHANGED rep
    /\ UNCHANGED <<fixed, files, name, stamp, sizes, open, phase, errors, late, calls>>

\* ShowTestEnd: rank 0 stores the count of the first repetition.
ShowTestEnd(r) ==
    /\ pc[r] = "finish"
    /\ status' = IF r = 0 /\ Exec.wearOut /\ Exec.status THEN results[r][0] ELSE status
    /\ Go(r, "end")
    /\ UNCHANGED <<opt, execution, files, loop, naming, sizes, open, phase, checks, spoilt, calls>>

RankStep(r) ==
    \/ StartRep(r) \/ StampKnown(r) \/ Skip(r)
    \/ BeginWrite(r) \/ BeginCheck(r) \/ BeginRead(r)
    \/ StatusKnown(r) \/ Reorder(r)
    \/ Create(r) \/ OpenCheck(r) \/ OpenRead(r) \/ OpenDone(r)
    \/ Transfer(r) \/ Return(r) \/ ErrorsKnown(r)
    \/ AccessDone(r) \/ Close(r) \/ Closed(r) \/ SizeKnown(r) \/ Reported(r)
    \/ BeforeRemove(r) \/ Remove(r) \/ EndRep(r) \/ ShowTestEnd(r)

\* The storage loses what was written to one place.
Spoil(n, w, k) ==
    /\ opt.faulty /\ ~spoilt
    /\ files[n][w][k] # Hole
    /\ files' = [files EXCEPT ![n][w][k] = Spoilt]
    /\ spoilt' = TRUE
    /\ UNCHANGED <<opt, execution, status, pc, loop, naming, sizes, open, phase, checks, calls>>

AllEnded == \A r \in Ranks : pc[r] = "end"

NextExecution ==
    /\ AllEnded /\ execution < Len(opt.executions)
    /\ execution' = execution + 1
    /\ pc' = Each("start") /\ rep' = Each(0) /\ calls' = Each(<< >>)
    /\ iterations' = Each(0) /\ results' = Each([n \in Repetitions |-> 0]) /\ late' = {}
    /\ UNCHANGED <<opt, files, status, naming, stamp, open, phase, checks, errorFound,
                   done, spoilt>>

Finished == AllEnded /\ execution = Len(opt.executions)

Next == \/ \E r \in Ranks : RankStep(r)
        \/ \E n \in DOMAIN files, w \in Ranks, k \in Positions : Spoil(n, w, k)
        \/ NextExecution
        \/ Finished /\ UNCHANGED vars

\* Every process runs until it waits in MPI; the next execution comes.
Fairness == (\A r \in Ranks : WF_vars(RankStep(r))) /\ WF_vars(NextExecution)

Spec == Init /\ [][Next]_vars /\ Fairness

----------------------------------------------------------------------------
(***************************************************************************)
(* Options ValidateTests accepts although a check then meets data it does  *)
(* not expect, or ranks part.                                              *)
(***************************************************************************)
Earlier(o, k) == {m \in 1 .. k - 1 : o.executions[m].write}

\* There is nothing to read: no execution has written, or the file is gone.
NothingToRead(o) ==
    \E k \in DOMAIN o.executions :
        /\ ~o.executions[k].write
        /\ Earlier(o, k) = {} \/ ~o.keepFile

\* A check of data from another execution needs to be given the time stamp.
UnknownStamp(o) ==
    ~o.signature /\ \E k \in DOMAIN o.executions :
        o.executions[k].checkWrite /\ ~o.executions[k].write

\* Blocks end where a stonewall has cut them and the reader does not know:
\* it is another rank, or another execution without the status file.
UnknownLength(o) ==
    \E k \in DOMAIN o.executions :
        LET e == o.executions[k]
        IN  \/ e.write /\ e.deadline /\ ~e.wearOut /\ o.reorder # "none"
            \/ /\ ~e.write
               /\ \E m \in Earlier(o, k) :
                    /\ o.executions[m].deadline
                    /\ e.checkWrite \/ ~e.status \/ ~o.executions[m].status

\* The status file holds the count of the first repetition only; a read in
\* the execution that writes it comes before it is written; and a read with
\* wear-out stores the count of the write it has not done.
StaleStatus(o) ==
    \E k \in DOMAIN o.executions :
        LET e == o.executions[k]
        IN  e.status /\ \/ e.write /\ (o.repetitions > 1 \/ Reads(e))
                        \/ e.wearOut /\ ~e.write

\* Every rank decides by its own clock whether a phase is begun.
ByClock(o) == o.timeLimit

SoundOption(o) == ~( NothingToRead(o) \/ UnknownStamp(o) \/ UnknownLength(o)
                     \/ StaleStatus(o) \/ ByClock(o) )

----------------------------------------------------------------------------
PCs == {"start", "stampWait", "write", "check", "read", "writeWait", "checkWait",
        "readWait", "statusWait", "reorder", "openWait", "access", "errorsWait",
        "returned", "closeWait", "closed", "sizeWait", "report", "remove",
        "removeWait", "repWait", "finish", "end"}

Names == (Ranks \X Repetitions) \cup {NoFile}
Cells == Nat \cup {Hole, Spoilt}

\* Every variable has its type; a rankOffset never points beyond the ranks.
TypeOK ==
    /\ opt \in Options /\ execution \in DOMAIN opt.executions
    /\ DOMAIN files \subseteq Names
    /\ \A n \in DOMAIN files : files[n] \in [Ranks -> [Positions -> Cells]]
    /\ status \in 0 .. Transfers
    /\ pc \in [Ranks -> PCs]
    /\ rep \in [Ranks -> Repetitions]
    /\ rankOffset \in [Ranks -> 1 - NumTasks .. NumTasks - 1]
    /\ name \in [Ranks -> Names] /\ openFile \in [Ranks -> Names]
    /\ stamp \in [Ranks -> Nat]
    /\ iterations \in [Ranks -> 0 .. Transfers]
    /\ results \in [Ranks -> [Repetitions -> 0 .. Transfers]]
    /\ access \in [Ranks -> {"write", "check", "read"}]
    /\ count \in [Ranks -> 0 .. Transfers] /\ reported \in [Ranks -> 0 .. Transfers]
    /\ returned \subseteq Ranks
    /\ errors \in [Ranks -> BOOLEAN] /\ errorFound \in [Ranks -> BOOLEAN]
    /\ late \subseteq Ranks
    /\ done \in [Ranks -> SUBSET {"write", "check", "read"}]
    /\ evidence \subseteq Names
    /\ spoilt \in BOOLEAN
    /\ calls \in [Ranks -> Seq(Kinds)]

\* A check finds an error only if the storage has spoilt something: whoever
\* wrote a block, in whichever phase, repetition or execution, it is there,
\* complete as far as it is read, and of the expected time stamp.
NoFalseErrors == (\E r \in Ranks : errors[r] \/ errorFound[r]) => spoilt

\* No file is removed while some rank has it open: removal, by rank 0 or by
\* every rank of the file it has last read, waits for all.
OpenFilesExist == \A r \in Ranks : openFile[r] # NoFile => openFile[r] \in DOMAIN files

\* With -K or -k a file in which a check has found an error outlives the
\* repetition, although another rank would remove it than has found it.
EvidenceKept == opt.keepFile \/ opt.keepWithError => evidence \subseteq DOMAIN files

AllNames == {<<k, c>> : k \in IF opt.filePerProc THEN Ranks ELSE {0},
                        c \in IF opt.multiFile THEN Repetitions ELSE {0}}

\* In the end all the files are there with -k, and without it none, in
\* whatever order the ranks have read them last.
FilesAsAsked ==
    AllEnded => /\ opt.keepFile => DOMAIN files = AllNames
                /\ ~opt.keepFile /\ ~opt.keepWithError => files = << >>

\* The program comes to its end: no rank is left waiting in a collective.
Finishes == <>Finished
=============================================================================
