------------------------------ MODULE AioQueue ------------------------------
(***************************************************************************)
(* The AIO backend (aiori-aio.c) of one rank, above the kernel's           *)
(* asynchronous I/O: operations are collected in iocbs[], submitted every  *)
(* Granularity of them, completed by the kernel in any order and reaped    *)
(* when the backend needs a buffer or has to be sure that all are done.    *)
(*                                                                         *)
(* An operation is its control block c: stage[c] says where it is and      *)
(* op[c] what it does.  The content of a transfer is one of Data, the      *)
(* place it goes to one of Places.                                         *)
(***************************************************************************)
EXTENDS Integers, FiniteSets

CONSTANTS Iocbs,        \* addresses malloc may return for an iocb
          Bufs,         \* indices of the buffer pool, max_pending of them
          Granularity,  \* submit every so many operations
          MaxReap,      \* 512: events[] of one io_getevents
          Lengths,      \* transfer lengths
          Places,       \* ranges of the file, never partly overlapping
          Data,         \* what a transfer may carry
          MaxVolume,    \* bound: no new transfer above that pendingBytes
          Overwrites    \* whether a place is written again, with other data,
                        \* before the earlier write is known to be complete

MaxPending == Cardinality(Bufs)

\* aio_check_params: granularity <= max_pending (it does not ask for more
\* than 0, nor this model for 8 pending operations).
ASSUME PendingAssumption ==
    /\ IsFiniteSet(Bufs) /\ Bufs # {} /\ IsFiniteSet(Iocbs)
    /\ Granularity \in 1 .. MaxPending
    /\ MaxReap \in Nat \ {0}

ASSUME TransferAssumption == Lengths \subseteq Nat \ {0} /\ MaxVolume \in Nat

NoData == "no data"     \* never written
Torn == "torn"          \* written in part
NoOp == [kind |-> "none"]         \* the iocb is not allocated
Contents == Data \cup {NoData, Torn}

ASSUME DataAssumption == NoData \notin Data /\ Torn \notin Data /\ Overwrites \in BOOLEAN

VARIABLES
    pc,             \* where the rank is in the backend
    call,           \* the backend function it is in, with its arguments
    stage,          \* of each iocb: "free", "queued", "kernel" or "done"
    op,             \* what each allocated iocb does
    res,            \* event->res of each completed iocb
    iocbsPos,       \* how many iocbs[] holds
    inFlight,       \* total pending ops
    pendingBytes,   \* volume of the pending ops
    free,           \* free_pool_indices
    poolBufferSize, \* size of a pool buffer, 0 when there is no pool
    batch,          \* events of the last io_getevents still to be looked at
    numEvents,      \* how many that io_getevents returned
    content,        \* what each buffer holds
    file,           \* what each place of the file holds
    written         \* what the last write to each place carried

kernelVars == <<file, res>>
client == <<call, written>>
pool == <<free, poolBufferSize>>
counters == <<iocbsPos, inFlight, pendingBytes>>
events == <<batch, numEvents>>
vars == <<pc, call, stage, op, res, iocbsPos, inFlight, pendingBytes, free,
          poolBufferSize, batch, numEvents, content, file, written>>

Allocated == {c \in Iocbs : stage[c] # "free"}
InStage(s) == {c \in Iocbs : stage[c] = s}

OpRecord == [kind : {"write", "read"}, place : Places, data : Contents,
             len : Lengths, buf : Bufs]

NoCall == [kind |-> "none"]
Transfers == [kind : {"write"}, place : Places, data : Data, len : Lengths]
             \cup [kind : {"read"}, place : Places, data : {NoData}, len : Lengths]
Drains == [kind : {"check", "flush", "finalize"}]

----------------------------------------------------------------------------
\* aio_initialize
Init ==
    /\ pc = "idle"
    /\ call = NoCall
    /\ stage = [c \in Iocbs |-> "free"]
    /\ op = [c \in Iocbs |-> NoOp]
    /\ res = [c \in Iocbs |-> 0]
    /\ iocbsPos = 0
    /\ inFlight = 0
    /\ pendingBytes = 0
    /\ free = {}
    /\ poolBufferSize = 0
    /\ batch = {}
    /\ numEvents = 0
    /\ content = [b \in Bufs |-> NoData]
    /\ file = [p \in Places |-> NoData]
    /\ written = [p \in Places |-> NoData]

\* submit_pending: iocbs[] goes to the kernel as a whole.
SubmitPending ==
    /\ stage' = [c \in Iocbs |-> IF stage[c] = "queued" THEN "kernel" ELSE stage[c]]
    /\ iocbsPos' = 0

\* The writes a later one to the same place could meet in the kernel.
Earlier(p, d) ==
    {c \in Allocated : op[c].kind = "write" /\ op[c].place = p /\ op[c].data # d}

\* aio_Xfer for WRITE and READ.
Xfer(t) ==
    /\ pc = "idle"
    /\ pendingBytes <= MaxVolume
    /\ t.kind = "write" => Overwrites \/ Earlier(t.place, t.data) = {}
    /\ call' = t
    /\ pc' = IF inFlight >= MaxPending THEN "full" ELSE "setup"
    /\ UNCHANGED <<written, stage, op, kernelVars, counters, pool, events, content>>

\* aio_Xfer for WRITECHECK and READCHECK, aio_Close, aio_Fsync, aio_Sync and
\* aio_finalize begin with complete_all.
Drain(d) ==
    /\ pc = "idle"
    /\ call' = d
    /\ SubmitPending
    /\ pc' = "drain"
    /\ UNCHANGED <<written, op, kernelVars, inFlight, pendingBytes, pool, events,
                   content>>

\* Mutant: what is pending is not submitted before the wait.
ProcessSomeSubmitted ==
    /\ \/ pc = "full"
       \/ pc = "take" /\ free = {}
    /\ inFlight > 0
    /\ pc' = IF pc = "full" THEN "fullWait" ELSE "takeWait"
    /\ UNCHANGED <<client, stage, op, kernelVars, counters, pool, events, content>>

\* process_some up to io_getevents.  With nothing in flight it returns at
\* once, and the loop for a buffer would spin: no step.
ProcessSome ==
    /\ \/ pc = "full"
       \/ pc = "take" /\ free = {}
    /\ inFlight > 0
    /\ SubmitPending
    /\ pc' = IF pc = "full" THEN "fullWait" ELSE "takeWait"
    /\ UNCHANGED <<client, op, kernelVars, inFlight, pendingBytes, pool, events,
                   content>>

Smaller(m, n) == IF m < n THEN m ELSE n

\* How many events process_some waits for.
ToReap == Smaller(Smaller(inFlight, Granularity), MaxReap)

\* io_getevents has returned the events in R, and in_flight is counted down
\* when aio_reap_one has seen them all.
Got(R, next) ==
    /\ batch' = R
    /\ numEvents' = Cardinality(R)
    /\ pc' = next
    /\ UNCHANGED <<client, stage, op, kernelVars, counters, pool, content>>

AfterWait == IF pc = "fullWait" THEN "fullReap" ELSE "takeReap"

GetSome(R) ==
    /\ pc \in {"fullWait", "takeWait"}
    /\ Cardinality(R) = ToReap
    /\ Got(R, AfterWait)

\* A signal ends the wait with the events there are, perhaps none.
Interrupted ==
    /\ pc \in {"fullWait", "takeWait"}
    /\ Cardinality(InStage("done")) < ToReap
    /\ Got(InStage("done"), AfterWait)

\* One io_getevents of complete_all: at least one event.
GetAny(R) ==
    /\ pc = "drain"
    /\ inFlight > 0
    /\ R # {}
    /\ Cardinality(R) <= Smaller(inFlight, MaxReap)
    /\ Got(R, "drainReap")

GetEvents == \E R \in SUBSET InStage("done") : GetSome(R) \/ GetAny(R)

Reaping == {"fullReap", "takeReap", "drainReap"}

\* aio_reap_one
ReapOne(c) ==
    /\ pc \in Reaping
    /\ c \in batch
    /\ IF res[c] < 0
       THEN /\ pc' = "aborted"
            /\ UNCHANGED <<stage, op, res, pendingBytes, free, batch>>
       ELSE /\ pendingBytes' = pendingBytes - res[c]
            /\ free' = free \cup {op[c].buf}
            /\ stage' = [stage EXCEPT ![c] = "free"]
            /\ op' = [op EXCEPT ![c] = NoOp]
            /\ res' = [res EXCEPT ![c] = 0]
            /\ batch' = batch \ {c}
            /\ UNCHANGED pc
    /\ UNCHANGED <<client, file, iocbsPos, inFlight, poolBufferSize, numEvents,
                   content>>

Reaped ==
    /\ pc \in Reaping
    /\ batch = {}
    /\ inFlight' = inFlight - numEvents
    /\ numEvents' = 0
    /\ pc' = CASE pc = "fullReap" -> "setup"
               [] pc = "takeReap" -> "take"
               [] pc = "drainReap" -> "drain"
    /\ UNCHANGED <<client, stage, op, kernelVars, iocbsPos, pendingBytes, pool,
                   batch, content>>

\* Mutant: the volumes are not compared.
DrainedUnchecked ==
    /\ pc = "drain"
    /\ inFlight = 0
    /\ pc' = "drained"
    /\ UNCHANGED <<client, stage, op, kernelVars, counters, pool, events, content>>

\* complete_all has nothing left to reap: the volumes have to match.
Drained ==
    /\ pc = "drain"
    /\ inFlight = 0
    /\ pc' = IF pendingBytes # 0 THEN "aborted" ELSE "drained"
    /\ UNCHANGED <<client, stage, op, kernelVars, counters, pool, events, content>>

\* Mutant: the pool is replaced without complete_all.
SetupPoolAtOnce ==
    /\ pc = "setup"
    /\ pc' = IF poolBufferSize >= call.len THEN "take" ELSE "drained"
    /\ UNCHANGED <<client, stage, op, kernelVars, counters, pool, events, content>>

\* aio_setup_pool: too small a pool is replaced, after complete_all.
SetupPool ==
    /\ pc = "setup"
    /\ IF poolBufferSize >= call.len
       THEN pc' = "take" /\ UNCHANGED <<stage, iocbsPos>>
       ELSE pc' = "drain" /\ SubmitPending
    /\ UNCHANGED <<client, op, kernelVars, inFlight, pendingBytes, pool, events,
                   content>>

NewPool ==
    /\ pc = "drained" /\ call.kind \in {"write", "read"}
    /\ free' = Bufs
    /\ poolBufferSize' = call.len
    /\ content' = [b \in Bufs |-> NoData]
    /\ pc' = "take"
    /\ UNCHANGED <<client, stage, op, kernelVars, counters, events>>

\* Mutant: the test comes before the increment.
GranularityMetLate == iocbsPos = Granularity

\* Whether the next iocb fills iocbs[].
GranularityMet == iocbsPos + 1 = Granularity

\* malloc: some iocb that is not allocated; which one makes no difference.
NewIocb == CHOOSE c \in Iocbs : stage[c] = "free"

\* The rest of aio_Xfer, with a buffer b from the pool and a new iocb c.
Enqueue(c, b) ==
    /\ pc = "take"
    /\ b \in free
    /\ c \in Iocbs /\ stage[c] = "free"
    /\ free' = free \ {b}
    /\ content' = IF call.kind = "write" THEN [content EXCEPT ![b] = call.data]
                  ELSE content
    /\ pendingBytes' = pendingBytes + call.len
    /\ op' = [op EXCEPT ![c] = [kind |-> call.kind, place |-> call.place,
                                data |-> call.data, len |-> call.len, buf |-> b]]
    /\ inFlight' = inFlight + 1
    /\ IF GranularityMet
       THEN /\ stage' = [d \in Iocbs |-> IF d = c \/ stage[d] = "queued"
                                         THEN "kernel" ELSE stage[d]]
            /\ iocbsPos' = 0
       ELSE /\ stage' = [stage EXCEPT ![c] = "queued"]
            /\ iocbsPos' = iocbsPos + 1
    /\ written' = IF call.kind = "write" THEN [written EXCEPT ![call.place] = call.data]
                  ELSE written
    /\ call' = NoCall
    /\ pc' = "idle"
    /\ UNCHANGED <<kernelVars, poolBufferSize, events>>

\* What follows complete_all in the other functions.  The read of a check is
\* synchronous; WriteOrReadSingle takes less than asked for as an error.
AfterDrain ==
    /\ pc = "drained"
    /\ \/ /\ call.kind = "check"
          /\ pc' \in {"idle", "aborted"}
          /\ UNCHANGED pool
       \/ /\ call.kind = "flush"
          /\ pc' = "idle"
          /\ UNCHANGED pool
       \/ /\ call.kind = "finalize"
          /\ pc' = "idle"
          /\ free' = {} /\ poolBufferSize' = 0
    /\ call' = NoCall
    /\ UNCHANGED <<written, stage, op, kernelVars, counters, events, content>>

\* The kernel completes an operation, in part (n < len) or not at all (-1).
Complete(c, n) ==
    /\ stage[c] = "kernel"
    /\ n \in -1 .. op[c].len
    /\ stage' = [stage EXCEPT ![c] = "done"]
    /\ res' = [res EXCEPT ![c] = n]
    /\ IF op[c].kind = "write"
       THEN /\ file' = IF n <= 0 THEN file
                       ELSE [file EXCEPT ![op[c].place] =
                               IF n = op[c].len THEN content[op[c].buf] ELSE Torn]
            /\ UNCHANGED content
       ELSE /\ content' = [content EXCEPT ![op[c].buf] = file[op[c].place]]
            /\ UNCHANGED file
    /\ UNCHANGED <<pc, client, op, counters, pool, events>>

KernelStep(c) == \E n \in -1 .. op[c].len : Complete(c, n)

\* The rank goes on with the call it is in.
InCall ==
    \/ ProcessSome \/ GetEvents \/ (\E c \in Iocbs : ReapOne(c)) \/ Reaped
    \/ Drained \/ SetupPool \/ NewPool \/ AfterDrain
    \/ \E b \in Bufs : Enqueue(NewIocb, b)

\* MPI_Abort
Aborted == pc = "aborted" /\ UNCHANGED vars

Next ==
    \/ \E t \in Transfers : Xfer(t)
    \/ \E d \in Drains : Drain(d)
    \/ InCall
    \/ Interrupted
    \/ \E c \in InStage("kernel") : KernelStep(c)
    \/ Aborted

\* The process runs until it waits for events, and the kernel completes
\* every operation it has accepted.  No signal has to come.
Fairness ==
    /\ WF_vars(InCall)
    /\ \A c \in Iocbs : WF_vars(stage[c] = "kernel" /\ KernelStep(c))

Spec == Init /\ [][Next]_vars /\ Fairness

----------------------------------------------------------------------------
PCs == {"idle", "full", "fullWait", "fullReap", "setup", "take", "takeWait",
        "takeReap", "drain", "drainReap", "drained", "aborted"}

\* Every variable has its type; iocbs[], of Granularity elements, never
\* overflows, because a full one is submitted at once.
TypeOK ==
    /\ pc \in PCs
    /\ call \in Transfers \cup Drains \cup {NoCall}
    /\ stage \in [Iocbs -> {"free", "queued", "kernel", "done"}]
    /\ op \in [Iocbs -> OpRecord \cup {NoOp}]
    /\ res \in [Iocbs -> Int]
    /\ iocbsPos \in 0 .. Granularity - 1
    /\ inFlight \in Nat
    /\ pendingBytes \in Int
    /\ free \in SUBSET Bufs
    /\ poolBufferSize \in Nat
    /\ batch \in SUBSET Iocbs
    /\ numEvents \in Nat
    /\ content \in [Bufs -> Contents]
    /\ file \in [Places -> Contents]
    /\ written \in [Places -> Contents]

\* A pool buffer belongs to one pending operation or to the free ones, and
\* until the kernel is done with a write its buffer holds what the caller
\* gave - although the caller's own buffer is filled anew for every transfer
\* and the pool is replaced when transfers get longer.
BuffersOwned ==
    \A c \in Allocated :
        /\ op[c].buf \notin free
        /\ \A d \in Allocated \ {c} : op[d].buf # op[c].buf
        /\ op[c].kind = "write" /\ stage[c] # "done" => content[op[c].buf] = op[c].data

\* The kernel never has more operations, complete or not, than io_setup
\* asked for: the EAGAIN submit_pending says should not happen does not.
NoEagain == Cardinality(InStage("kernel") \cup InStage("done")) <= MaxPending

\* When complete_all lets its caller go on, every write so far is in the
\* file: what Close and Fsync promise and a check relies on.  An operation
\* that fell short must have been noticed by then.
Durable == pc = "drained" => file = written

\* Every call of the backend returns or aborts: the backend never waits for
\* operations it has not submitted, nor for a buffer nobody will return.
CallsReturn == []<>(pc \in {"idle", "aborted"})
=============================================================================
