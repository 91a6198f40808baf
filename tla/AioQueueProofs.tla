--------------------------- MODULE AioQueueProofs ---------------------------
(***************************************************************************)
(* What the AIO backend keeps for every pool, granularity and client:      *)
(* iocbs[] never overflows, every pool buffer has one owner and keeps its  *)
(* data until it is written, and the kernel is never asked for more        *)
(* operations than io_setup announced; then what a completed call means    *)
(* for the file.                                                           *)
(***************************************************************************)
EXTENDS AioQueue, FiniteSetTheorems, TLAPS

----------------------------------------------------------------------------
(***************************************************************************)
(* The inductive invariant.  BuffersOwned fails when the pool is replaced  *)
(* unless nothing is pending then; that follows from in_flight = 0 only if *)
(* in_flight counts the allocated iocbs, those being reaped included.      *)
(***************************************************************************)
\* Exactly the allocated iocbs describe an operation.
OpsInv ==
    \A c \in Iocbs : IF stage[c] = "free" THEN op[c] = NoOp ELSE op[c] \in OpRecord

TransferPCs == {"full", "fullWait", "fullReap", "setup", "take", "takeWait", "takeReap"}
DrainPCs == {"drain", "drainReap", "drained"}

\* The arguments of the call are there while it needs them.
CallInv ==
    /\ pc \in TransferPCs => call \in Transfers
    /\ pc \in DrainPCs => call \in Transfers \cup Drains

\* in_flight counts the pending operations; while events are looked at it
\* still counts those already released.
CountInv ==
    /\ batch \subseteq InStage("done")
    /\ pc \notin Reaping \cup {"aborted"} => batch = {} /\ numEvents = 0
    /\ inFlight + Cardinality(batch) = Cardinality(Allocated) + numEvents

\* complete_all completes all.
DrainedInv == pc = "drained" => Allocated = {}

IInv == TypeOK /\ OpsInv /\ CallInv /\ CountInv /\ DrainedInv /\ BuffersOwned

----------------------------------------------------------------------------
(* NoOp is no operation. *)
LEMMA NoOpIsNone == NoOp \notin OpRecord
BY DEF NoOp, OpRecord

(* An operation's fields have their types. *)
LEMMA OpFields ==
    ASSUME NEW o \in OpRecord
    PROVE  /\ o.kind \in {"write", "read"} /\ o.place \in Places
           /\ o.data \in Contents /\ o.len \in Nat \ {0} /\ o.len \in Lengths
           /\ o.buf \in Bufs
BY TransferAssumption DEF OpRecord

(* A transfer's arguments have their types. *)
LEMMA TransferFields ==
    ASSUME NEW t \in Transfers
    PROVE  /\ t.kind \in {"write", "read"} /\ t.place \in Places
           /\ t.data \in Contents /\ t.len \in Nat \ {0} /\ t.len \in Lengths
BY TransferAssumption DEF Transfers, Contents

(* The allocated iocbs are finitely many. *)
LEMMA AllocatedFinite == IsFiniteSet(Allocated)
BY PendingAssumption, FS_Subset DEF Allocated

(* At the start nothing is pending. *)
LEMMA InitIInv == Init => IInv
<1> SUFFICES ASSUME Init PROVE IInv
  OBVIOUS
<1>1. Allocated = {}
  BY DEF Init, Allocated
<1>2. TypeOK
  BY PendingAssumption DEF Init, TypeOK, PCs, Contents
<1>3. OpsInv /\ CallInv /\ DrainedInv
  BY <1>1 DEF Init, OpsInv, CallInv, DrainedInv, TransferPCs, DrainPCs
<1>4. CountInv
  BY <1>1, FS_EmptySet DEF Init, CountInv
<1>5. BuffersOwned
  BY <1>1 DEF BuffersOwned
<1> QED
  BY <1>2, <1>3, <1>4, <1>5 DEF IInv

----------------------------------------------------------------------------
\* What a step that only submits may change of the iocbs.
Submits == stage' = stage \/ SubmitPending

(* Submitting allocates and releases nothing. *)
LEMMA SubmitKeeps ==
    ASSUME TypeOK, Submits, UNCHANGED <<op, content>>, free' \subseteq free
    PROVE  /\ Allocated' = Allocated
           /\ InStage("done") \subseteq InStage("done")'
           /\ OpsInv => OpsInv'
           /\ BuffersOwned => BuffersOwned'
<1>1. stage' = stage \/ stage' = [c \in Iocbs |-> IF stage[c] = "queued" THEN "kernel" ELSE stage[c]]
  BY DEF Submits, SubmitPending
<1>2. \A c \in Iocbs : /\ stage'[c] = "free" <=> stage[c] = "free"
                       /\ stage'[c] = "done" <=> stage[c] = "done"
  BY <1>1 DEF TypeOK
<1>3. Allocated' = Allocated
  BY <1>2 DEF Allocated
<1>4. InStage("done")' = InStage("done")
  BY <1>2 DEF InStage
<1>5. OpsInv => OpsInv'
  BY <1>2 DEF OpsInv
<1>6. BuffersOwned => BuffersOwned'
  BY <1>2, <1>3 DEF BuffersOwned, Allocated
<1> QED
  BY <1>3, <1>4, <1>5, <1>6

(* A step that only submits, or only moves on, keeps the invariant if the  *)
(* place it moves to fits.                                                 *)
LEMMA QuietStep ==
    ASSUME IInv, Submits, iocbsPos' \in {iocbsPos, 0},
           pc' \in PCs, CallInv', call' \in Transfers \cup Drains \cup {NoCall},
           pc \notin Reaping, pc # "aborted", pc' # "drained" \/ Allocated = {},
           UNCHANGED <<op, kernelVars, inFlight, pendingBytes, events, content, written>>,
           \/ UNCHANGED pool
           \/ free' = {} /\ poolBufferSize' = 0
    PROVE  IInv'
<1>1. TypeOK /\ OpsInv /\ CountInv /\ DrainedInv /\ BuffersOwned
  BY DEF IInv
<1>2. stage' \in [Iocbs -> {"free", "queued", "kernel", "done"}]
  BY <1>1 DEF TypeOK, Submits, SubmitPending
<1>3. iocbsPos' \in 0 .. Granularity - 1
  BY <1>1, PendingAssumption DEF TypeOK
<1>4. TypeOK'
  BY <1>1, <1>2, <1>3 DEF TypeOK, kernelVars, events, pool
<1>5. free' \subseteq free
  BY DEF pool
<1>6. /\ Allocated' = Allocated
      /\ InStage("done") \subseteq InStage("done")'
      /\ OpsInv' /\ BuffersOwned'
  BY <1>1, <1>5, SubmitKeeps
<1>7. CountInv'
  BY <1>1, <1>6 DEF CountInv, events
<1>8. DrainedInv'
  BY <1>6 DEF DrainedInv
<1> QED
  BY <1>4, <1>6, <1>7, <1>8 DEF IInv

----------------------------------------------------------------------------
(* A new transfer keeps the invariant. *)
LEMMA XferStep == ASSUME IInv, NEW t \in Transfers, Xfer(t) PROVE IInv'
<1>1. pc = "idle" /\ pc' \in {"full", "setup"} /\ call' = t
  BY DEF Xfer
<1>2. pc' \in PCs /\ pc \notin Reaping /\ pc # "aborted" /\ pc' # "drained"
  BY <1>1 DEF PCs, Reaping
<1>3. CallInv'
  BY <1>1 DEF CallInv, DrainPCs
<1>4. /\ Submits /\ iocbsPos' \in {iocbsPos, 0}
      /\ UNCHANGED <<op, kernelVars, inFlight, pendingBytes, events, content, written>>
      /\ UNCHANGED pool
  BY DEF Xfer, Submits, counters
<1> QED
  BY <1>1, <1>2, <1>3, <1>4, QuietStep

(* So does a call that begins with complete_all. *)
LEMMA DrainStep == ASSUME IInv, NEW d \in Drains, Drain(d) PROVE IInv'
<1>1. pc = "idle" /\ pc' = "drain" /\ call' = d
  BY DEF Drain
<1>2. pc' \in PCs /\ pc \notin Reaping /\ pc # "aborted" /\ pc' # "drained"
  BY <1>1 DEF PCs, Reaping
<1>3. CallInv'
  BY <1>1 DEF CallInv, TransferPCs
<1>4. /\ Submits /\ iocbsPos' \in {iocbsPos, 0}
      /\ UNCHANGED <<op, kernelVars, inFlight, pendingBytes, events, content, written>>
      /\ UNCHANGED pool
  BY DEF Drain, Submits, SubmitPending
<1> QED
  BY <1>1, <1>2, <1>3, <1>4, QuietStep

(* So does process_some up to its wait. *)
LEMMA ProcessSomeStep == ASSUME IInv, ProcessSome PROVE IInv'
<1>1. pc \in {"full", "take"} /\ pc' \in {"fullWait", "takeWait"}
  BY DEF ProcessSome
<1>2. pc' \in PCs /\ pc \notin Reaping /\ pc # "aborted" /\ pc' # "drained"
  BY <1>1 DEF PCs, Reaping
<1>3. call \in Transfers
  BY <1>1 DEF IInv, CallInv, TransferPCs
<1>4. CallInv' /\ call' \in Transfers \cup Drains \cup {NoCall}
  BY <1>1, <1>3 DEF ProcessSome, client, CallInv, TransferPCs, DrainPCs
<1>5. /\ Submits /\ iocbsPos' \in {iocbsPos, 0}
      /\ UNCHANGED <<op, kernelVars, inFlight, pendingBytes, events, content, written>>
      /\ UNCHANGED pool
  BY DEF ProcessSome, Submits, SubmitPending, client
<1> QED
  BY <1>2, <1>4, <1>5, QuietStep

(* So does aio_setup_pool up to complete_all. *)
LEMMA SetupPoolStep == ASSUME IInv, SetupPool PROVE IInv'
<1>1. pc = "setup" /\ pc' \in {"take", "drain"}
  BY DEF SetupPool
<1>2. pc' \in PCs /\ pc \notin Reaping /\ pc # "aborted" /\ pc' # "drained"
  BY <1>1 DEF PCs, Reaping
<1>3. call \in Transfers
  BY <1>1 DEF IInv, CallInv, TransferPCs
<1>4. CallInv' /\ call' \in Transfers \cup Drains \cup {NoCall}
  BY <1>1, <1>3 DEF SetupPool, client, CallInv, TransferPCs, DrainPCs
<1>5. /\ Submits /\ iocbsPos' \in {iocbsPos, 0}
      /\ UNCHANGED <<op, kernelVars, inFlight, pendingBytes, events, content, written>>
      /\ UNCHANGED pool
  BY DEF SetupPool, Submits, SubmitPending, client
<1> QED
  BY <1>2, <1>4, <1>5, QuietStep

(* When complete_all ends nothing is allocated: the counts agree. *)
LEMMA DrainedStep == ASSUME IInv, Drained PROVE IInv'
<1>1. pc = "drain" /\ inFlight = 0 /\ pc' \in {"aborted", "drained"}
  BY DEF Drained
<1>2. pc' \in PCs /\ pc \notin Reaping /\ pc # "aborted"
  BY <1>1 DEF PCs, Reaping
<1>3. batch = {} /\ numEvents = 0 /\ Cardinality(batch) = 0
  BY <1>2, FS_EmptySet DEF IInv, CountInv
<1>4. Cardinality(Allocated) = 0
  BY <1>1, <1>3, AllocatedFinite, FS_CardinalityType DEF IInv, CountInv
<1>5. Allocated = {}
  BY <1>4, AllocatedFinite, FS_EmptySet
<1>6. call \in Transfers \cup Drains
  BY <1>1 DEF IInv, CallInv, DrainPCs
<1>7. CallInv' /\ call' \in Transfers \cup Drains \cup {NoCall}
  BY <1>1, <1>6 DEF Drained, client, CallInv, TransferPCs, DrainPCs
<1>8. /\ Submits /\ iocbsPos' \in {iocbsPos, 0}
      /\ UNCHANGED <<op, kernelVars, inFlight, pendingBytes, events, content, written>>
      /\ UNCHANGED pool
  BY DEF Drained, Submits, client, counters
<1> QED
  BY <1>2, <1>5, <1>7, <1>8, QuietStep

(* So does the end of the functions that only complete all. *)
LEMMA AfterDrainStep == ASSUME IInv, AfterDrain PROVE IInv'
<1>1. pc = "drained" /\ pc' \in {"idle", "aborted"}
  BY DEF AfterDrain
<1>2. pc' \in PCs /\ pc \notin Reaping /\ pc # "aborted" /\ pc' # "drained"
  BY <1>1 DEF PCs, Reaping
<1>3. CallInv' /\ call' \in Transfers \cup Drains \cup {NoCall}
  BY <1>1 DEF AfterDrain, CallInv, TransferPCs, DrainPCs
<1>4. /\ Submits /\ iocbsPos' \in {iocbsPos, 0}
      /\ UNCHANGED <<op, kernelVars, inFlight, pendingBytes, events, content, written>>
  BY DEF AfterDrain, Submits, counters
<1>5. \/ UNCHANGED pool
      \/ free' = {} /\ poolBufferSize' = 0
  BY DEF AfterDrain, pool
<1> QED
  BY <1>2, <1>3, <1>4, <1>5, QuietStep

----------------------------------------------------------------------------
(* The events of an io_getevents are operations the kernel has completed. *)
LEMMA GotStep ==
    ASSUME IInv, NEW R \in SUBSET InStage("done"), NEW next \in Reaping,
           \/ pc \in {"fullWait", "takeWait"} /\ next \in {"fullReap", "takeReap"}
           \/ pc = "drain" /\ next = "drainReap",
           Got(R, next)
    PROVE  IInv'
<1>1. UNCHANGED <<call, written, stage, op, file, res, iocbsPos, inFlight,
                  pendingBytes, free, poolBufferSize, content>>
  BY DEF Got, client, kernelVars, counters, pool
<1>2. batch' = R /\ numEvents' = Cardinality(R) /\ pc' = next
  BY DEF Got
<1>3. TypeOK /\ OpsInv /\ CallInv /\ CountInv /\ DrainedInv /\ BuffersOwned
  BY DEF IInv
<1>4. IsFiniteSet(R) /\ Cardinality(R) \in Nat
  BY PendingAssumption, FS_Subset, FS_CardinalityType DEF InStage
<1>5. pc' \in PCs
  BY <1>2 DEF PCs, Reaping
<1>6. TypeOK'
  BY <1>1, <1>2, <1>3, <1>4, <1>5 DEF TypeOK, InStage
<1>7. OpsInv' /\ BuffersOwned'
  BY <1>1, <1>3 DEF OpsInv, BuffersOwned, Allocated
<1>8. CallInv'
  BY <1>1, <1>2, <1>3 DEF CallInv, TransferPCs, DrainPCs
<1>9. CountInv'
  <2>1. batch = {} /\ numEvents = 0
    BY <1>3 DEF CountInv, Reaping
  <2>2. inFlight = Cardinality(Allocated)
    BY <2>1, <1>3, FS_EmptySet, AllocatedFinite, FS_CardinalityType DEF CountInv, TypeOK
  <2>3. Allocated' = Allocated /\ InStage("done")' = InStage("done")
    BY <1>1 DEF Allocated, InStage
  <2>4. inFlight' + Cardinality(batch') = Cardinality(Allocated') + numEvents'
    BY <1>1, <1>2, <2>2, <2>3
  <2> QED
    BY <1>2, <2>3, <2>4 DEF CountInv
<1>10. DrainedInv'
  BY <1>2 DEF DrainedInv, Reaping
<1> QED
  BY <1>6, <1>7, <1>8, <1>9, <1>10 DEF IInv

(* An operation whose event is looked at gives its buffer back. *)
LEMMA ReapOneStep == ASSUME IInv, NEW c \in Iocbs, ReapOne(c) PROVE IInv'
<1>1. TypeOK /\ OpsInv /\ CallInv /\ CountInv /\ DrainedInv /\ BuffersOwned
  BY DEF IInv
<1>2. pc \in Reaping /\ c \in batch /\ stage[c] = "done" /\ c \in Allocated
  BY <1>1 DEF ReapOne, CountInv, InStage, Allocated
<1>3. op[c] \in OpRecord /\ op[c].buf \in Bufs
  BY <1>1, <1>2, OpFields DEF OpsInv
<1>4. UNCHANGED <<call, written, file, iocbsPos, inFlight, poolBufferSize, numEvents, content>>
  BY DEF ReapOne, client
<1>5. CASE pc' = "aborted"
  <2>1. UNCHANGED <<stage, op, res, pendingBytes, free, batch>>
    BY <1>2, <1>5 DEF ReapOne, Reaping
  <2>2. TypeOK'
    BY <1>1, <1>4, <1>5, <2>1 DEF TypeOK, PCs
  <2>3. OpsInv' /\ BuffersOwned'
    BY <1>1, <1>4, <2>1 DEF OpsInv, BuffersOwned, Allocated
  <2>4. CallInv' /\ DrainedInv'
    BY <1>5 DEF CallInv, DrainedInv, TransferPCs, DrainPCs
  <2>5. CountInv'
    BY <1>1, <1>4, <1>5, <2>1 DEF CountInv, InStage, Allocated
  <2> QED
    BY <2>2, <2>3, <2>4, <2>5 DEF IInv
<1>6. CASE pc' # "aborted"
  <2>1. /\ pc' = pc
        /\ pendingBytes' = pendingBytes - res[c]
        /\ free' = free \cup {op[c].buf}
        /\ stage' = [stage EXCEPT ![c] = "free"]
        /\ op' = [op EXCEPT ![c] = NoOp]
        /\ res' = [res EXCEPT ![c] = 0]
        /\ batch' = batch \ {c}
    BY <1>6 DEF ReapOne
  <2>2. TypeOK'
    BY <1>1, <1>3, <1>4, <2>1 DEF TypeOK
  <2>3. OpsInv'
    BY <1>1, <2>1 DEF OpsInv, TypeOK
  <2>4. Allocated' = Allocated \ {c}
    BY <1>1, <2>1 DEF Allocated, TypeOK
  <2>5. BuffersOwned'
    BY <1>1, <1>2, <1>4, <2>1, <2>4 DEF BuffersOwned, TypeOK, Allocated
  <2>6. CallInv' /\ DrainedInv'
    BY <1>1, <1>2, <1>4, <2>1 DEF CallInv, DrainedInv, Reaping
  <2>7. CountInv'
    <3>1. IsFiniteSet(batch) /\ Cardinality(batch) \in Nat
      BY <1>1, PendingAssumption, FS_Subset, FS_CardinalityType DEF TypeOK
    <3>2. Cardinality(batch') = Cardinality(batch) - 1
      BY <1>2, <2>1, <3>1, FS_RemoveElement
    <3>3. Cardinality(Allocated') = Cardinality(Allocated) - 1
      BY <1>2, <2>4, AllocatedFinite, FS_RemoveElement
    <3>4. Cardinality(Allocated) \in Nat
      BY AllocatedFinite, FS_CardinalityType
    <3>5. inFlight' + Cardinality(batch') = Cardinality(Allocated') + numEvents'
      BY <1>1, <1>4, <3>1, <3>2, <3>3, <3>4 DEF CountInv, TypeOK
    <3>6. batch' \subseteq InStage("done")'
      BY <1>1, <2>1 DEF CountInv, InStage, TypeOK
    <3> QED
      BY <1>2, <2>1, <3>5, <3>6 DEF CountInv
  <2> QED
    BY <2>2, <2>3, <2>5, <2>6, <2>7 DEF IInv
<1> QED
  BY <1>5, <1>6

(* After the last event in_flight is the number of pending operations. *)
LEMMA ReapedStep == ASSUME IInv, Reaped PROVE IInv'
<1>1. TypeOK /\ OpsInv /\ CallInv /\ CountInv /\ DrainedInv /\ BuffersOwned
  BY DEF IInv
<1>2. UNCHANGED <<call, written, stage, op, file, res, iocbsPos, pendingBytes,
                  free, poolBufferSize, batch, content>>
  BY DEF Reaped, client, kernelVars, pool
<1>3. batch = {} /\ inFlight' = inFlight - numEvents /\ numEvents' = 0
  BY DEF Reaped
<1>4. \/ pc = "fullReap" /\ pc' = "setup"
      \/ pc = "takeReap" /\ pc' = "take"
      \/ pc = "drainReap" /\ pc' = "drain"
  BY DEF Reaped, Reaping
<1>5. Cardinality(Allocated) \in Nat /\ Cardinality(batch) = 0
  BY <1>3, AllocatedFinite, FS_CardinalityType, FS_EmptySet
<1>6. inFlight' = Cardinality(Allocated)
  BY <1>1, <1>3, <1>5 DEF CountInv, TypeOK
<1>7. pc' \in PCs
  BY <1>4 DEF PCs
<1>8. TypeOK'
  BY <1>1, <1>2, <1>3, <1>5, <1>6, <1>7 DEF TypeOK
<1>9. Allocated' = Allocated /\ InStage("done")' = InStage("done")
  BY <1>2 DEF Allocated, InStage
<1>10. OpsInv' /\ BuffersOwned'
  BY <1>1, <1>2, <1>9 DEF OpsInv, BuffersOwned
<1>11. CallInv' /\ DrainedInv'
  BY <1>1, <1>2, <1>4 DEF CallInv, DrainedInv, TransferPCs, DrainPCs
<1>12. CountInv'
  BY <1>2, <1>3, <1>5, <1>6, <1>9 DEF CountInv
<1> QED
  BY <1>8, <1>10, <1>11, <1>12 DEF IInv

(* The pool is replaced when no operation uses it. *)
LEMMA NewPoolStep == ASSUME IInv, NewPool PROVE IInv'
<1>1. TypeOK /\ OpsInv /\ CallInv /\ CountInv /\ DrainedInv /\ BuffersOwned
  BY DEF IInv
<1>2. UNCHANGED <<call, written, stage, op, file, res, iocbsPos, inFlight,
                  pendingBytes, batch, numEvents>>
  BY DEF NewPool, client, kernelVars, counters, events
<1>3. pc = "drained" /\ pc' = "take" /\ free' = Bufs /\ poolBufferSize' = call.len
      /\ content' = [b \in Bufs |-> NoData] /\ call.kind \in {"write", "read"}
  BY DEF NewPool
<1>4. Allocated = {} /\ Allocated' = {}
  BY <1>1, <1>2, <1>3 DEF DrainedInv, Allocated
<1>5. call \in Transfers
  <2>1. call \in Transfers \cup Drains
    BY <1>1, <1>3 DEF CallInv, DrainPCs
  <2>2. call \notin Drains
    BY <1>3 DEF Drains
  <2> QED
    BY <2>1, <2>2
<1>6. TypeOK'
  BY <1>1, <1>2, <1>3, <1>5, TransferFields DEF TypeOK, PCs, Contents
<1>7. OpsInv'
  BY <1>1, <1>2 DEF OpsInv
<1>8. BuffersOwned'
  BY <1>4 DEF BuffersOwned
<1>9. CallInv' /\ DrainedInv'
  BY <1>2, <1>3, <1>5 DEF CallInv, DrainedInv, DrainPCs
<1>10. CountInv'
  BY <1>1, <1>2, <1>3 DEF CountInv, InStage, Allocated, Reaping
<1> QED
  BY <1>6, <1>7, <1>8, <1>9, <1>10 DEF IInv

(* A new operation takes a free buffer and fills it. *)
LEMMA EnqueueStep ==
    ASSUME IInv, NEW c, NEW b \in Bufs, Enqueue(c, b)
    PROVE  IInv'
<1>1. TypeOK /\ OpsInv /\ CallInv /\ CountInv /\ DrainedInv /\ BuffersOwned
  BY DEF IInv
<1>2. pc = "take" /\ pc' = "idle" /\ b \in free /\ c \in Iocbs /\ stage[c] = "free"
  BY DEF Enqueue
<1>3. call \in Transfers /\ call.kind \in {"write", "read"} /\ call.place \in Places
      /\ call.data \in Contents /\ call.len \in Nat \ {0} /\ call.len \in Lengths
  BY <1>1, <1>2, TransferFields DEF CallInv, TransferPCs
<1> DEFINE o == [kind |-> call.kind, place |-> call.place, data |-> call.data,
                 len |-> call.len, buf |-> b]
<1>4. /\ op' = [op EXCEPT ![c] = o]
      /\ free' = free \ {b}
      /\ inFlight' = inFlight + 1
      /\ pendingBytes' = pendingBytes + call.len
      /\ call' = NoCall
      /\ UNCHANGED <<file, res, poolBufferSize, batch, numEvents>>
  BY DEF Enqueue, kernelVars, events
<1>5. o \in OpRecord
  BY <1>3 DEF OpRecord
<1>6. /\ stage' \in [Iocbs -> {"free", "queued", "kernel", "done"}]
      /\ stage'[c] \in {"queued", "kernel"}
      /\ \A d \in Iocbs \ {c} : /\ stage'[d] = "free" <=> stage[d] = "free"
                                /\ stage'[d] = "done" <=> stage[d] = "done"
  <2>1. CASE GranularityMet
    BY <1>1, <1>2, <2>1 DEF Enqueue, TypeOK
  <2>2. CASE ~GranularityMet
    BY <1>1, <1>2, <2>2 DEF Enqueue, TypeOK
  <2> QED
    BY <2>1, <2>2
<1>7. iocbsPos' \in 0 .. Granularity - 1
  BY <1>1, PendingAssumption DEF Enqueue, TypeOK, GranularityMet
<1>8. content' \in [Bufs -> Contents] /\ \A a \in Bufs \ {b} : content'[a] = content[a]
  BY <1>1, <1>3 DEF Enqueue, TypeOK
<1>9. call.kind = "write" => content'[b] = call.data
  BY <1>1 DEF Enqueue, TypeOK
<1>10. written' \in [Places -> Contents]
  BY <1>1, <1>3 DEF Enqueue, TypeOK
<1>11. TypeOK'
  <2>1. op' \in [Iocbs -> OpRecord \cup {NoOp}]
    BY <1>1, <1>2, <1>4, <1>5 DEF TypeOK
  <2>2. pendingBytes' \in Int /\ inFlight' \in Nat
    BY <1>1, <1>3, <1>4 DEF TypeOK
  <2> QED
    BY <1>1, <1>2, <1>4, <1>6, <1>7, <1>8, <1>10, <2>1, <2>2 DEF TypeOK, PCs
<1>12. OpsInv'
  BY <1>1, <1>4, <1>5, <1>6 DEF OpsInv, TypeOK
<1>13. Allocated' = Allocated \cup {c} /\ c \notin Allocated
  BY <1>2, <1>6 DEF Allocated
<1>14. BuffersOwned'
  <2>1. \A d \in Allocated : op[d].buf \in Bufs /\ op[d].buf # b /\ op'[d] = op[d]
    BY <1>1, <1>2, <1>4, <1>13, OpFields DEF BuffersOwned, OpsInv, Allocated, TypeOK
  <2>2. op'[c] = o
    BY <1>1, <1>2, <1>4 DEF TypeOK
  <2>3. o.buf = b /\ o.kind = call.kind /\ o.data = call.data
    OBVIOUS
  <2> SUFFICES ASSUME NEW d \in Allocated'
               PROVE  /\ op'[d].buf \notin free'
                      /\ \A e \in Allocated' \ {d} : op'[e].buf # op'[d].buf
                      /\ op'[d].kind = "write" /\ stage'[d] # "done" =>
                             content'[op'[d].buf] = op'[d].data
    BY DEF BuffersOwned
  <2> HIDE DEF o
  <2>4. CASE d = c
    BY <1>4, <1>9, <1>13, <2>1, <2>2, <2>3, <2>4
  <2>5. CASE d # c
    <3>1. d \in Allocated /\ d \in Iocbs
      BY <1>13, <2>5 DEF Allocated
    <3>2. op'[d] = op[d] /\ op[d].buf # b /\ op[d].buf \in Bufs
      BY <3>1, <2>1
    <3>3. op'[d].buf \notin free'
      BY <1>1, <1>4, <3>1, <3>2 DEF BuffersOwned
    <3>4. ASSUME NEW e \in Allocated' \ {d} PROVE op'[e].buf # op'[d].buf
      BY <1>1, <1>13, <2>1, <2>2, <2>3, <3>1, <3>2, <3>4 DEF BuffersOwned
    <3>5. op'[d].kind = "write" /\ stage'[d] # "done" => content'[op'[d].buf] = op'[d].data
      BY <1>1, <1>6, <1>8, <2>5, <3>1, <3>2 DEF BuffersOwned
    <3> QED
      BY <3>3, <3>4, <3>5
  <2> QED
    BY <2>4, <2>5
<1>15. CallInv' /\ DrainedInv'
  BY <1>2 DEF CallInv, DrainedInv, TransferPCs, DrainPCs
<1>16. CountInv'
  <2>1. batch = {} /\ numEvents = 0
    BY <1>1, <1>2 DEF CountInv, Reaping
  <2>2. Cardinality(Allocated') = Cardinality(Allocated) + 1
    BY <1>13, AllocatedFinite, FS_AddElement
  <2>3. Cardinality(Allocated) \in Nat /\ Cardinality(batch) = 0
    BY <2>1, AllocatedFinite, FS_CardinalityType, FS_EmptySet
  <2>4. inFlight' + Cardinality(batch') = Cardinality(Allocated') + numEvents'
    BY <1>1, <1>4, <2>1, <2>2, <2>3 DEF CountInv, TypeOK
  <2> QED
    BY <1>4, <2>1, <2>4 DEF CountInv
<1> QED
  BY <1>11, <1>12, <1>14, <1>15, <1>16 DEF IInv

(* The kernel completes a read into the operation's own buffer. *)
LEMMA KernelStepStep ==
    ASSUME IInv, NEW c \in InStage("kernel"), NEW n \in -1 .. op[c].len, Complete(c, n)
    PROVE  IInv'
<1>1. TypeOK /\ OpsInv /\ CallInv /\ CountInv /\ DrainedInv /\ BuffersOwned
  BY DEF IInv
<1>2. c \in Iocbs /\ stage[c] = "kernel" /\ c \in Allocated
  BY DEF InStage, Allocated
<1>3. op[c] \in OpRecord /\ op[c].kind \in {"write", "read"} /\ op[c].place \in Places
      /\ op[c].buf \in Bufs /\ op[c].len \in Nat
  BY <1>1, <1>2, OpFields DEF OpsInv
<1>4. /\ UNCHANGED <<pc, call, written, op, iocbsPos, inFlight, pendingBytes, free,
                     poolBufferSize, batch, numEvents>>
      /\ stage' = [stage EXCEPT ![c] = "done"] /\ res' = [res EXCEPT ![c] = n]
  BY DEF Complete, client, counters, pool, events
<1>5. file' \in [Places -> Contents]
  <2>1. content[op[c].buf] \in Contents /\ Torn \in Contents
    BY <1>1, <1>3 DEF TypeOK, Contents
  <2> QED
    BY <1>1, <1>3, <2>1 DEF Complete, TypeOK
<1>6. content' \in [Bufs -> Contents]
      /\ \A a \in Bufs : a # op[c].buf => content'[a] = content[a]
  <2>1. file[op[c].place] \in Contents
    BY <1>1, <1>3 DEF TypeOK
  <2> QED
    BY <1>1, <1>3, <2>1 DEF Complete, TypeOK
<1>7. n \in Int
  BY <1>3
<1>8. TypeOK'
  BY <1>1, <1>4, <1>5, <1>6, <1>7 DEF TypeOK
<1>9. OpsInv'
  BY <1>1, <1>2, <1>3, <1>4 DEF OpsInv, TypeOK
<1>10. Allocated' = Allocated
  BY <1>1, <1>2, <1>4 DEF Allocated, TypeOK
<1>11. BuffersOwned'
  <2> SUFFICES ASSUME NEW d \in Allocated'
               PROVE  /\ op'[d].buf \notin free'
                      /\ \A e \in Allocated' \ {d} : op'[e].buf # op'[d].buf
                      /\ op'[d].kind = "write" /\ stage'[d] # "done" =>
                             content'[op'[d].buf] = op'[d].data
    BY DEF BuffersOwned
  <2>1. d \in Allocated /\ d \in Iocbs
    BY <1>10 DEF Allocated
  <2>2. op[d].buf \in Bufs
    BY <1>1, <2>1, OpFields DEF OpsInv, Allocated
  <2>3. op'[d].buf \notin free' /\ \A e \in Allocated' \ {d} : op'[e].buf # op'[d].buf
    BY <1>1, <1>4, <1>10, <2>1 DEF BuffersOwned
  <2>4. ASSUME op'[d].kind = "write", stage'[d] # "done"
        PROVE  content'[op'[d].buf] = op'[d].data
    <3>1. d # c /\ stage'[d] = stage[d]
      BY <1>1, <1>2, <1>4, <2>1, <2>4 DEF TypeOK
    <3>2. op[d].buf # op[c].buf
      BY <1>1, <1>2, <2>1, <3>1 DEF BuffersOwned
    <3>3. content'[op[d].buf] = content[op[d].buf]
      BY <1>6, <2>2, <3>2
    <3>4. content[op[d].buf] = op[d].data
      BY <1>1, <1>4, <2>1, <2>4, <3>1 DEF BuffersOwned
    <3> QED
      BY <1>4, <3>3, <3>4
  <2> QED
    BY <2>3, <2>4
<1>12. CallInv' /\ DrainedInv'
  BY <1>1, <1>4, <1>10 DEF CallInv, DrainedInv
<1>13. CountInv'
  <2>1. InStage("done") \subseteq InStage("done")'
    BY <1>1, <1>4 DEF InStage, TypeOK
  <2> QED
    BY <1>1, <1>4, <1>10, <2>1 DEF CountInv
<1> QED
  BY <1>8, <1>9, <1>11, <1>12, <1>13 DEF IInv

----------------------------------------------------------------------------
(* Every step keeps the inductive invariant. *)
LEMMA NextStep == IInv /\ [Next]_vars => IInv'
<1> SUFFICES ASSUME IInv, [Next]_vars PROVE IInv'
  OBVIOUS
<1>1. ASSUME NEW t \in Transfers, Xfer(t) PROVE IInv'
  BY <1>1, XferStep
<1>2. ASSUME NEW d \in Drains, Drain(d) PROVE IInv'
  BY <1>2, DrainStep
<1>3. ASSUME NEW R \in SUBSET InStage("done"), GetSome(R) \/ GetAny(R) PROVE IInv'
  <2>1. CASE GetSome(R)
    <3>1. AfterWait \in {"fullReap", "takeReap"} /\ AfterWait \in Reaping
      BY DEF AfterWait, Reaping
    <3>2. pc \in {"fullWait", "takeWait"} /\ Got(R, AfterWait)
      BY <2>1 DEF GetSome
    <3> QED
      BY <3>1, <3>2, GotStep
  <2>2. CASE GetAny(R)
    BY <2>2, GotStep DEF GetAny, Reaping
  <2> QED
    BY <1>3, <2>1, <2>2
<1>4. CASE Interrupted
  <2>1. AfterWait \in {"fullReap", "takeReap"} /\ AfterWait \in Reaping
    BY DEF AfterWait, Reaping
  <2>2. pc \in {"fullWait", "takeWait"} /\ Got(InStage("done"), AfterWait)
    BY <1>4 DEF Interrupted
  <2> QED
    BY <2>1, <2>2, GotStep
<1>5. ASSUME NEW c \in InStage("kernel"), KernelStep(c) PROVE IInv'
  BY <1>5, KernelStepStep DEF KernelStep
<1>6. CASE UNCHANGED vars
  BY <1>6 DEF vars, IInv, TypeOK, OpsInv, CallInv, CountInv, DrainedInv, BuffersOwned,
              Allocated, InStage
<1> QED
  BY <1>1, <1>2, <1>3, <1>4, <1>5, <1>6, ProcessSomeStep, SetupPoolStep, DrainedStep,
     AfterDrainStep, ReapOneStep, ReapedStep, NewPoolStep, EnqueueStep
     DEF Next, InCall, GetEvents, Aborted

(* The inductive invariant holds throughout. *)
LEMMA Invariance == Spec => []IInv
BY InitIInv, NextStep, PTL DEF Spec

(* The state variables always have their types; in particular iocbs[],     *)
(* allocated for granularity elements, never gets one more.                *)
THEOREM TypeCorrect == Spec => []TypeOK
<1>1. IInv => TypeOK
  BY DEF IInv
<1> QED
  BY <1>1, Invariance, PTL

(* A pool buffer has one owner, and a pending write's data stay in it      *)
(* until the kernel has written them.                                      *)
THEOREM BuffersOwnedHolds == Spec => []BuffersOwned
<1>1. IInv => BuffersOwned
  BY DEF IInv
<1> QED
  BY <1>1, Invariance, PTL

(* The kernel never holds more operations than io_setup announced.         *)
THEOREM NoEagainHolds == Spec => []NoEagain
<1>1. ASSUME IInv PROVE NoEagain
  <2> DEFINE S == InStage("kernel") \cup InStage("done")
             f == [c \in S |-> op[c].buf]
  <2>1. S \subseteq Allocated
    BY DEF InStage, Allocated
  <2>2. \A c \in S : op[c].buf \in Bufs
    BY <1>1, <2>1, OpFields DEF IInv, OpsInv, Allocated
  <2>3. \A c, d \in S : c # d => op[c].buf # op[d].buf
    BY <1>1, <2>1 DEF IInv, BuffersOwned
  <2>4. f \in Injection(S, Bufs)
    BY <2>2, <2>3 DEF Injection, IsInjective
  <2> HIDE DEF f, S
  <2>5. Cardinality(S) <= Cardinality(Bufs)
    BY <2>4, PendingAssumption, FS_Injection
  <2> QED
    BY <2>5 DEF S, NoEagain, MaxPending
<1> QED
  BY <1>1, Invariance, PTL

----------------------------------------------------------------------------
(***************************************************************************)
(* What complete_all promises for every pool, granularity and client that  *)
(* does not write a place again before it is known to be written: when it  *)
(* lets its caller go on, the data are in the file.  The only evidence the *)
(* code has of this is one number, pending_bytes.                          *)
(***************************************************************************)

(***************************************************************************)
(* The bytes of the operations not yet reaped, as a set, so that adding up *)
(* is counting.  What pendingBytes has above their number has been lost by *)
(* operations that were reaped although they fell short.                   *)
(***************************************************************************)
BytesOf(c, n) == {c} \X (1 .. n)
Owed == {b \in Iocbs \X Nat : b[1] \in Allocated /\ b[2] \in 1 .. op[b[1]].len}

OwedInv == IsFiniteSet(Owed) /\ pendingBytes >= Cardinality(Owed)

\* No operation has moved more than it was asked for.
ResInv == \A c \in InStage("done") : res[c] \in Int /\ res[c] <= op[c].len

\* All pending writes to a place carry the same data.
CarryInv ==
    \A c \in Allocated : op[c].kind = "write" =>
        /\ op[c].data = written[op[c].place]
        /\ pc \in TransferPCs /\ call.kind = "write" /\ call.place = op[c].place
           => op[c].data = call.data

\* A pending write is going to put p right, or will be found to have failed.
Pending(p) ==
    \E c \in Allocated : /\ op[c].kind = "write" /\ op[c].place = p
                         /\ stage[c] = "done" => res[c] # op[c].len

\* Nothing is lost unless pendingBytes tells.
FileInv ==
    pendingBytes = Cardinality(Owed) =>
        \A p \in Places : file[p] = written[p] \/ Pending(p)

EvenInv == pc = "drained" => pendingBytes = 0

DInv == IInv /\ OwedInv /\ ResInv /\ CarryInv /\ FileInv /\ EvenInv

----------------------------------------------------------------------------
(* An operation of n bytes has n bytes. *)
LEMMA BytesCount ==
    ASSUME NEW c, NEW n \in Nat
    PROVE  IsFiniteSet(BytesOf(c, n)) /\ Cardinality(BytesOf(c, n)) = n
<1>1. IsFiniteSet({c}) /\ Cardinality({c}) = 1
  BY FS_Singleton
<1>2. IsFiniteSet(1 .. n) /\ Cardinality(1 .. n) = n
  BY FS_Interval
<1>3. /\ IsFiniteSet({c} \X (1 .. n))
      /\ Cardinality({c} \X (1 .. n)) = Cardinality({c}) * Cardinality(1 .. n)
  BY <1>1, <1>2, FS_Product
<1> QED
  BY <1>1, <1>2, <1>3 DEF BytesOf

(* When nothing is allocated nothing is owed. *)
LEMMA NothingOwed == Allocated = {} => Owed = {}
BY DEF Owed

(* At the start nothing is pending. *)
LEMMA InitDInv == Init => DInv
<1> SUFFICES ASSUME Init PROVE DInv
  OBVIOUS
<1>1. Allocated = {} /\ InStage("done") = {}
  BY DEF Init, Allocated, InStage
<1>2. Owed = {} /\ Cardinality(Owed) = 0 /\ IsFiniteSet(Owed)
  BY <1>1, NothingOwed, FS_EmptySet
<1>3. OwedInv /\ ResInv /\ CarryInv /\ EvenInv
  BY <1>1, <1>2 DEF Init, OwedInv, ResInv, CarryInv, EvenInv
<1>4. FileInv
  BY DEF Init, FileInv
<1> QED
  BY <1>3, <1>4, InitIInv DEF DInv

----------------------------------------------------------------------------
(* A step that only submits or moves on changes no debt. *)
LEMMA QuietDebt ==
    ASSUME DInv, Submits,
           UNCHANGED <<op, res, file, written, pendingBytes>>,
           call'= call \/ pc' \notin TransferPCs,
           pc' \in TransferPCs => pc \in TransferPCs,
           pc' = "drained" => pendingBytes = 0
    PROVE  OwedInv' /\ ResInv' /\ CarryInv' /\ FileInv' /\ EvenInv'
<1>1. TypeOK /\ OwedInv /\ ResInv /\ CarryInv /\ FileInv
  BY DEF DInv, IInv
<1>2. \A c \in Iocbs : /\ stage'[c] = "free" <=> stage[c] = "free"
                       /\ stage'[c] = "done" <=> stage[c] = "done"
  BY <1>1 DEF Submits, SubmitPending, TypeOK
<1>3. Allocated' = Allocated /\ InStage("done")' = InStage("done")
  BY <1>2 DEF Allocated, InStage
<1>4. Owed' = Owed
  BY <1>3 DEF Owed
<1>5. OwedInv' /\ ResInv' /\ EvenInv'
  BY <1>1, <1>3, <1>4 DEF OwedInv, ResInv, EvenInv
<1>6. CarryInv'
  BY <1>1, <1>3 DEF CarryInv
<1>7. \A p \in Places : Pending(p) => Pending(p)'
  BY <1>2, <1>3 DEF Pending, Allocated
<1>8. FileInv'
  BY <1>1, <1>4, <1>7 DEF FileInv
<1> QED
  BY <1>5, <1>6, <1>8

(* A new write carries what the pending ones to its place carry. *)
LEMMA XferDebt ==
    ASSUME ~Overwrites, DInv, NEW t \in Transfers, Xfer(t)
    PROVE  OwedInv' /\ ResInv' /\ CarryInv' /\ FileInv' /\ EvenInv'
<1>1. TypeOK /\ OwedInv /\ ResInv /\ CarryInv /\ FileInv
  BY DEF DInv, IInv
<1>2. UNCHANGED <<written, stage, op, file, res, pendingBytes>>
  BY DEF Xfer, kernelVars, counters
<1>3. Allocated' = Allocated /\ InStage("done")' = InStage("done") /\ Owed' = Owed
  BY <1>2 DEF Allocated, InStage, Owed
<1>4. OwedInv' /\ ResInv'
  BY <1>1, <1>2, <1>3 DEF OwedInv, ResInv
<1>5. EvenInv'
  BY DEF EvenInv, Xfer
<1>6. CarryInv'
  <2>1. call' = t /\ (t.kind = "write" => Earlier(t.place, t.data) = {})
    BY DEF Xfer
  <2>2. \A c \in Allocated : op[c].kind = "write" /\ t.kind = "write" /\ t.place = op[c].place
                             => op[c].data = t.data
    BY <2>1 DEF Earlier
  <2> QED
    BY <1>1, <1>2, <1>3, <2>1, <2>2 DEF CarryInv
<1>7. FileInv'
  BY <1>1, <1>2, <1>3 DEF FileInv, Pending
<1> QED
  BY <1>4, <1>5, <1>6, <1>7

(* Releasing a complete operation pays its bytes; a short one leaves some. *)
LEMMA ReapOneDebt ==
    ASSUME DInv, NEW c \in Iocbs, ReapOne(c)
    PROVE  OwedInv' /\ ResInv' /\ CarryInv' /\ FileInv' /\ EvenInv'
<1>1. TypeOK /\ OpsInv /\ CountInv /\ OwedInv /\ ResInv /\ CarryInv /\ FileInv
  BY DEF DInv, IInv
<1>2. pc \in Reaping /\ c \in batch /\ stage[c] = "done" /\ c \in Allocated
  BY <1>1 DEF ReapOne, CountInv, InStage, Allocated
<1>3. UNCHANGED <<call, written, file>>
  BY DEF ReapOne, client
<1>4. CASE pc' = "aborted"
  <2>1. UNCHANGED <<stage, op, res, pendingBytes>>
    BY <1>2, <1>4 DEF ReapOne, Reaping
  <2>2. Allocated' = Allocated /\ InStage("done")' = InStage("done") /\ Owed' = Owed
    BY <2>1 DEF Allocated, InStage, Owed
  <2>3. OwedInv' /\ ResInv' /\ EvenInv'
    BY <1>1, <1>4, <2>1, <2>2 DEF OwedInv, ResInv, EvenInv
  <2>4. CarryInv'
    BY <1>1, <1>3, <1>4, <2>1, <2>2 DEF CarryInv, TransferPCs
  <2>5. FileInv'
    BY <1>1, <1>3, <2>1, <2>2 DEF FileInv, Pending
  <2> QED
    BY <2>3, <2>4, <2>5
<1>5. CASE pc' # "aborted"
  <2>1. /\ pc' = pc
        /\ pendingBytes' = pendingBytes - res[c]
        /\ stage' = [stage EXCEPT ![c] = "free"]
        /\ op' = [op EXCEPT ![c] = NoOp]
        /\ res' = [res EXCEPT ![c] = 0]
    BY <1>5 DEF ReapOne
  <2>2. /\ Allocated' = Allocated \ {c}
        /\ \A d \in Iocbs \ {c} : op'[d] = op[d] /\ stage'[d] = stage[d] /\ res'[d] = res[d]
    BY <1>1, <2>1 DEF Allocated, TypeOK
  <2>3. InStage("done")' \subseteq InStage("done") \ {c}
    BY <1>1, <2>1 DEF InStage, TypeOK
  <2>4. op[c].len \in Nat
    BY <1>1, <1>2, OpFields DEF OpsInv
  <2>5. res[c] \in Int /\ res[c] <= op[c].len
    BY <1>1, <1>2 DEF ResInv, InStage
  <2>6. Owed' = Owed \ BytesOf(c, op[c].len)
    <3>1. Owed' = {b \in Iocbs \X Nat : b[1] \in Allocated \ {c} /\ b[2] \in 1 .. op'[b[1]].len}
      BY <2>2 DEF Owed
    <3>2. ASSUME NEW b \in Iocbs \X Nat
          PROVE  b \in Owed' <=> b \in Owed \ BytesOf(c, op[c].len)
      <4>1. CASE b[1] = c
        <5>1. b \notin Owed'
          BY <3>1, <4>1
        <5>2. b \in Owed => b \in BytesOf(c, op[c].len)
          BY <4>1 DEF Owed, BytesOf
        <5> QED
          BY <5>1, <5>2
      <4>2. CASE b[1] # c
        <5>1. b \notin BytesOf(c, op[c].len)
          BY <4>2 DEF BytesOf
        <5>2. op'[b[1]] = op[b[1]]
          BY <2>2, <4>2
        <5> QED
          BY <3>1, <4>2, <5>1, <5>2 DEF Owed
      <4> QED
        BY <4>1, <4>2
    <3>3. Owed' \subseteq Iocbs \X Nat /\ Owed \subseteq Iocbs \X Nat
      BY DEF Owed
    <3> QED
      BY <3>2, <3>3
  <2>7. BytesOf(c, op[c].len) \subseteq Owed
    BY <1>2, <2>4 DEF BytesOf, Owed
  <2>8. /\ IsFiniteSet(Owed') /\ Cardinality(Owed) \in Nat
        /\ Cardinality(Owed') = Cardinality(Owed) - op[c].len
    <3>1. Owed \cap BytesOf(c, op[c].len) = BytesOf(c, op[c].len)
      BY <2>7
    <3>2. /\ IsFiniteSet(Owed \ BytesOf(c, op[c].len))
          /\ Cardinality(Owed \ BytesOf(c, op[c].len))
               = Cardinality(Owed) - Cardinality(Owed \cap BytesOf(c, op[c].len))
      BY <1>1, FS_Difference DEF OwedInv
    <3>3. Cardinality(BytesOf(c, op[c].len)) = op[c].len
      BY <2>4, BytesCount
    <3>4. Cardinality(Owed) \in Nat
      BY <1>1, FS_CardinalityType DEF OwedInv
    <3> QED
      BY <2>6, <3>1, <3>2, <3>3, <3>4
  <2>9. OwedInv'
    BY <1>1, <2>1, <2>4, <2>5, <2>8 DEF OwedInv, TypeOK
  <2>10. ResInv'
    BY <1>1, <2>2, <2>3 DEF ResInv, InStage
  <2>11. CarryInv'
    BY <1>1, <1>3, <2>1, <2>2 DEF CarryInv, Allocated
  <2>12. FileInv'
    <3> SUFFICES ASSUME pendingBytes' = Cardinality(Owed'), NEW p \in Places
                 PROVE  file'[p] = written'[p] \/ Pending(p)'
      BY DEF FileInv
    <3>1. pendingBytes = Cardinality(Owed) /\ res[c] = op[c].len
      <4>1. pendingBytes - res[c] = Cardinality(Owed) - op[c].len
        BY <2>1, <2>8
      <4>2. pendingBytes \in Int /\ pendingBytes >= Cardinality(Owed)
        BY <1>1 DEF OwedInv, TypeOK
      <4> QED
        BY <2>4, <2>5, <2>8, <4>1, <4>2
    <3>2. CASE file[p] = written[p]
      BY <1>3, <3>2
    <3>3. CASE Pending(p)
      <4>1. PICK d \in Allocated : /\ op[d].kind = "write" /\ op[d].place = p
                                   /\ stage[d] = "done" => res[d] # op[d].len
        BY <3>3 DEF Pending
      <4>2. d # c
        BY <1>2, <3>1, <4>1
      <4>3. d \in Allocated' /\ op'[d] = op[d] /\ stage'[d] = stage[d] /\ res'[d] = res[d]
        BY <2>2, <4>1, <4>2 DEF Allocated
      <4> QED
        BY <4>1, <4>3 DEF Pending
    <3> QED
      BY <1>1, <3>1, <3>2, <3>3 DEF FileInv
  <2>13. EvenInv'
    BY <1>2, <2>1 DEF EvenInv, Reaping
  <2> QED
    BY <2>9, <2>10, <2>11, <2>12, <2>13
<1> QED
  BY <1>4, <1>5

(* A new operation owes its bytes, and is what puts its place right. *)
LEMMA EnqueueDebt ==
    ASSUME DInv, NEW c, NEW b \in Bufs, Enqueue(c, b)
    PROVE  OwedInv' /\ ResInv' /\ CarryInv' /\ FileInv' /\ EvenInv'
<1>1. TypeOK /\ OpsInv /\ CallInv /\ OwedInv /\ ResInv /\ CarryInv /\ FileInv
  BY DEF DInv, IInv
<1>2. pc = "take" /\ pc' = "idle" /\ c \in Iocbs /\ stage[c] = "free" /\ c \notin Allocated
  BY DEF Enqueue, Allocated
<1>3. call \in Transfers /\ call.kind \in {"write", "read"} /\ call.place \in Places
      /\ call.len \in Nat \ {0}
  BY <1>1, <1>2, TransferFields DEF CallInv, TransferPCs
<1>4. /\ UNCHANGED <<file, res>>
      /\ pendingBytes' = pendingBytes + call.len
      /\ written' = IF call.kind = "write" THEN [written EXCEPT ![call.place] = call.data]
                    ELSE written
  BY DEF Enqueue, kernelVars
<1>5. /\ op'[c].kind = call.kind /\ op'[c].place = call.place
      /\ op'[c].data = call.data /\ op'[c].len = call.len
      /\ \A d \in Iocbs \ {c} : op'[d] = op[d]
  BY <1>1, <1>2 DEF Enqueue, TypeOK
<1>6. /\ stage'[c] \in {"queued", "kernel"}
      /\ \A d \in Iocbs \ {c} : /\ stage'[d] = "free" <=> stage[d] = "free"
                                /\ stage'[d] = "done" <=> stage[d] = "done"
  <2>1. CASE GranularityMet
    BY <1>1, <1>2, <2>1 DEF Enqueue, TypeOK
  <2>2. CASE ~GranularityMet
    BY <1>1, <1>2, <2>2 DEF Enqueue, TypeOK
  <2> QED
    BY <2>1, <2>2
<1>7. Allocated' = Allocated \cup {c} /\ InStage("done")' = InStage("done")
  BY <1>2, <1>6 DEF Allocated, InStage
<1>8. Owed' = Owed \cup BytesOf(c, call.len)
  <2>1. ASSUME NEW x \in Iocbs \X Nat
        PROVE  x \in Owed' <=> x \in Owed \cup BytesOf(c, call.len)
    <3>1. CASE x[1] = c
      <4>1. x \notin Owed
        BY <1>2, <3>1 DEF Owed
      <4>2. x \in Owed' <=> x[2] \in 1 .. call.len
        BY <1>5, <1>7, <3>1 DEF Owed
      <4>3. x \in BytesOf(c, call.len) <=> x[2] \in 1 .. call.len
        BY <3>1 DEF BytesOf
      <4> QED
        BY <4>1, <4>2, <4>3
    <3>2. CASE x[1] # c
      <4>1. x \notin BytesOf(c, call.len)
        BY <3>2 DEF BytesOf
      <4>2. op'[x[1]] = op[x[1]] /\ (x[1] \in Allocated' <=> x[1] \in Allocated)
        BY <1>5, <1>7, <3>2
      <4> QED
        BY <4>1, <4>2 DEF Owed
    <3> QED
      BY <3>1, <3>2
  <2>2. Owed' \subseteq Iocbs \X Nat /\ Owed \subseteq Iocbs \X Nat
    BY DEF Owed
  <2>3. BytesOf(c, call.len) \subseteq Iocbs \X Nat
    BY <1>2, <1>3 DEF BytesOf
  <2> QED
    BY <2>1, <2>2, <2>3
<1>9. Owed \cap BytesOf(c, call.len) = {}
  BY <1>2 DEF Owed, BytesOf
<1>10. /\ IsFiniteSet(Owed') /\ Cardinality(Owed) \in Nat
       /\ Cardinality(Owed') = Cardinality(Owed) + call.len
  <2>1. IsFiniteSet(BytesOf(c, call.len)) /\ Cardinality(BytesOf(c, call.len)) = call.len
    BY <1>3, BytesCount
  <2>2. IsFiniteSet(Owed) /\ Cardinality(Owed) \in Nat
    BY <1>1, FS_CardinalityType DEF OwedInv
  <2>3. /\ IsFiniteSet(Owed \cup BytesOf(c, call.len))
        /\ Cardinality(Owed \cup BytesOf(c, call.len))
             = Cardinality(Owed) + Cardinality(BytesOf(c, call.len))
               - Cardinality(Owed \cap BytesOf(c, call.len))
    BY <2>1, <2>2, FS_Union
  <2>4. Cardinality(Owed \cap BytesOf(c, call.len)) = 0
    BY <1>9, FS_EmptySet
  <2> QED
    BY <1>3, <1>8, <2>1, <2>2, <2>3, <2>4
<1>11. OwedInv' /\ EvenInv'
  BY <1>1, <1>2, <1>3, <1>4, <1>10 DEF OwedInv, EvenInv, TypeOK
<1>12. ResInv'
  BY <1>1, <1>2, <1>4, <1>5, <1>7 DEF ResInv, InStage
<1>13. CarryInv'
  <2> SUFFICES ASSUME NEW d \in Allocated', op'[d].kind = "write"
               PROVE  op'[d].data = written'[op'[d].place]
    BY <1>2 DEF CarryInv, TransferPCs
  <2>1. CASE d = c
    BY <1>1, <1>3, <1>4, <1>5, <2>1 DEF TypeOK
  <2>2. CASE d # c
    <3>1. d \in Allocated /\ d \in Iocbs /\ op'[d] = op[d]
      BY <1>5, <1>7, <2>2 DEF Allocated
    <3>2. op[d].place \in Places
      BY <1>1, <3>1, OpFields DEF OpsInv, Allocated
    <3>3. op[d].data = written[op[d].place]
      BY <1>1, <3>1 DEF CarryInv
    <3>4. call.kind = "write" /\ call.place = op[d].place => op[d].data = call.data
      BY <1>1, <1>2, <3>1 DEF CarryInv, TransferPCs
    <3> QED
      BY <1>1, <1>4, <3>1, <3>2, <3>3, <3>4 DEF TypeOK
  <2> QED
    BY <2>1, <2>2
<1>14. FileInv'
  <2> SUFFICES ASSUME pendingBytes' = Cardinality(Owed'), NEW p \in Places
               PROVE  file'[p] = written'[p] \/ Pending(p)'
    BY DEF FileInv
  <2>1. pendingBytes = Cardinality(Owed)
    <3>1. pendingBytes + call.len = Cardinality(Owed) + call.len
      BY <1>4, <1>10
    <3>2. pendingBytes \in Int
      BY <1>1 DEF TypeOK
    <3> QED
      BY <1>3, <1>10, <3>1, <3>2
  <2>2. CASE call.kind = "write" /\ call.place = p
    BY <1>5, <1>6, <1>7, <2>2 DEF Pending
  <2>3. CASE ~(call.kind = "write" /\ call.place = p)
    <3>1. written'[p] = written[p]
      BY <1>1, <1>4, <2>3 DEF TypeOK
    <3>2. CASE file[p] = written[p]
      BY <1>4, <3>1, <3>2
    <3>3. CASE Pending(p)
      <4>1. PICK d \in Allocated : /\ op[d].kind = "write" /\ op[d].place = p
                                   /\ stage[d] = "done" => res[d] # op[d].len
        BY <3>3 DEF Pending
      <4>2. d \in Iocbs \ {c} /\ d \in Allocated'
        BY <1>2, <1>7, <4>1 DEF Allocated
      <4> QED
        BY <1>4, <1>5, <1>6, <4>1, <4>2 DEF Pending
    <3> QED
      BY <1>1, <2>1, <3>2, <3>3 DEF FileInv
  <2> QED
    BY <2>2, <2>3
<1> QED
  BY <1>11, <1>12, <1>13, <1>14

(* A write completed in full has put its place right; any other is known. *)
LEMMA CompleteDebt ==
    ASSUME DInv, NEW c \in InStage("kernel"), NEW n \in -1 .. op[c].len, Complete(c, n)
    PROVE  OwedInv' /\ ResInv' /\ CarryInv' /\ FileInv' /\ EvenInv'
<1>1. TypeOK /\ OpsInv /\ BuffersOwned /\ OwedInv /\ ResInv /\ CarryInv /\ FileInv
  BY DEF DInv, IInv
<1>2. c \in Iocbs /\ stage[c] = "kernel" /\ c \in Allocated
  BY DEF InStage, Allocated
<1>3. op[c] \in OpRecord /\ op[c].kind \in {"write", "read"} /\ op[c].place \in Places
      /\ op[c].len \in Nat \ {0}
  BY <1>1, <1>2, OpFields DEF OpsInv
<1>4. /\ UNCHANGED <<pc, call, written, op, pendingBytes>>
      /\ stage' = [stage EXCEPT ![c] = "done"] /\ res' = [res EXCEPT ![c] = n]
  BY DEF Complete, client, counters
<1>5. Allocated' = Allocated /\ InStage("done")' = InStage("done") \cup {c}
  BY <1>1, <1>2, <1>4 DEF Allocated, InStage, TypeOK
<1>6. Owed' = Owed
  BY <1>4, <1>5 DEF Owed
<1>7. /\ res'[c] = n /\ stage'[c] = "done" /\ n \in Int /\ n <= op[c].len
      /\ \A d \in Iocbs \ {c} : res'[d] = res[d] /\ stage'[d] = stage[d]
  BY <1>1, <1>2, <1>3, <1>4 DEF TypeOK
<1>8. OwedInv' /\ CarryInv' /\ EvenInv'
  BY <1>1, <1>4, <1>5, <1>6 DEF DInv, OwedInv, CarryInv, EvenInv
<1>9. ResInv'
  BY <1>1, <1>4, <1>5, <1>7 DEF ResInv, InStage
<1>10. FileInv'
  <2> SUFFICES ASSUME pendingBytes' = Cardinality(Owed'), NEW p \in Places
               PROVE  file'[p] = written'[p] \/ Pending(p)'
    BY DEF FileInv
  <2>1. file[p] = written[p] \/ Pending(p)
    BY <1>1, <1>4, <1>6 DEF FileInv
  <2>2. CASE op[c].kind = "write" /\ op[c].place = p
    <3>1. CASE n = op[c].len
      <4>1. file' = [file EXCEPT ![op[c].place] = content[op[c].buf]]
        BY <1>3, <2>2, <3>1 DEF Complete
      <4>2. content[op[c].buf] = op[c].data
        BY <1>1, <1>2, <2>2 DEF BuffersOwned
      <4>3. op[c].data = written[p]
        BY <1>1, <1>2, <2>2 DEF CarryInv
      <4> QED
        BY <1>1, <1>4, <2>2, <4>1, <4>2, <4>3 DEF TypeOK
    <3>2. CASE n # op[c].len
      BY <1>2, <1>4, <1>5, <1>7, <2>2, <3>2 DEF Pending
    <3> QED
      BY <3>1, <3>2
  <2>3. CASE ~(op[c].kind = "write" /\ op[c].place = p)
    <3>1. file'[p] = file[p]
      BY <1>1, <2>3 DEF Complete, TypeOK
    <3>2. CASE file[p] = written[p]
      BY <1>4, <3>1, <3>2
    <3>3. CASE Pending(p)
      <4>1. PICK d \in Allocated : /\ op[d].kind = "write" /\ op[d].place = p
                                   /\ stage[d] = "done" => res[d] # op[d].len
        BY <3>3 DEF Pending
      <4>2. d \in Iocbs \ {c}
        BY <2>3, <4>1 DEF Allocated
      <4> QED
        BY <1>4, <1>5, <1>7, <4>1, <4>2 DEF Pending
    <3> QED
      BY <2>1, <3>2, <3>3
  <2> QED
    BY <2>2, <2>3
<1> QED
  BY <1>8, <1>9, <1>10

----------------------------------------------------------------------------
(* Every step keeps the debts in order. *)
LEMMA NextDebt ==
    ASSUME ~Overwrites, DInv, [Next]_vars
    PROVE  DInv'
<1>1. IInv'
  BY NextStep DEF DInv
<1>2. ASSUME NEW t \in Transfers, Xfer(t) PROVE DInv'
  BY <1>1, <1>2, XferDebt DEF DInv
<1>3. ASSUME NEW d \in Drains, Drain(d) PROVE DInv'
  <2>1. /\ Submits /\ UNCHANGED <<op, res, file, written, pendingBytes>>
        /\ pc' \notin TransferPCs /\ pc' # "drained"
    BY <1>3 DEF Drain, Submits, kernelVars, TransferPCs
  <2> QED
    BY <1>1, <2>1, QuietDebt DEF DInv
<1>4. CASE ProcessSome
  <2>1. /\ Submits /\ UNCHANGED <<op, res, file, written, pendingBytes, call>>
        /\ pc \in TransferPCs /\ pc' # "drained"
    BY <1>4 DEF ProcessSome, Submits, kernelVars, client, TransferPCs
  <2> QED
    BY <1>1, <2>1, QuietDebt DEF DInv
<1>5. ASSUME NEW R, NEW next, Got(R, next), next \in Reaping,
             next \in TransferPCs => pc \in TransferPCs
      PROVE  DInv'
  <2>1. /\ Submits /\ UNCHANGED <<op, res, file, written, pendingBytes, call>>
        /\ pc' \in TransferPCs => pc \in TransferPCs
        /\ pc' # "drained"
    BY <1>5 DEF Got, Submits, kernelVars, client, counters, Reaping
  <2> QED
    BY <1>1, <2>1, QuietDebt DEF DInv
<1>6. CASE GetEvents \/ Interrupted
  <2>1. PICK R, next : Got(R, next) /\ next \in Reaping
                       /\ (next \in TransferPCs => pc \in TransferPCs)
    BY <1>6 DEF GetEvents, GetSome, GetAny, Interrupted, AfterWait, Reaping, TransferPCs
  <2> QED
    BY <1>5, <2>1
<1>7. ASSUME NEW c \in Iocbs, ReapOne(c) PROVE DInv'
  BY <1>1, <1>7, ReapOneDebt DEF DInv
<1>8. CASE Reaped
  <2>1. /\ Submits /\ UNCHANGED <<op, res, file, written, pendingBytes, call>>
        /\ pc' \in TransferPCs => pc \in TransferPCs
        /\ pc' # "drained"
    BY <1>8 DEF Reaped, Submits, kernelVars, client, Reaping, TransferPCs
  <2> QED
    BY <1>1, <2>1, QuietDebt DEF DInv
<1>9. CASE Drained
  <2>1. /\ Submits /\ UNCHANGED <<op, res, file, written, pendingBytes, call>>
        /\ pc' \notin TransferPCs
        /\ pc' = "drained" => pendingBytes = 0
    BY <1>9 DEF Drained, Submits, kernelVars, client, counters, TransferPCs
  <2> QED
    BY <1>1, <2>1, QuietDebt DEF DInv
<1>10. CASE SetupPool
  <2>1. /\ Submits /\ UNCHANGED <<op, res, file, written, pendingBytes, call>>
        /\ pc \in TransferPCs /\ pc' # "drained"
    BY <1>10 DEF SetupPool, Submits, kernelVars, client, TransferPCs
  <2> QED
    BY <1>1, <2>1, QuietDebt DEF DInv
<1>11. CASE NewPool
  <2>1. /\ UNCHANGED <<op, res, file, written, pendingBytes, stage>>
        /\ pc = "drained" /\ pc' = "take"
    BY <1>11 DEF NewPool, kernelVars, client, counters
  <2>2. Allocated = {} /\ Allocated' = {} /\ Owed = {} /\ Owed' = {}
    BY <2>1, NothingOwed DEF DInv, IInv, DrainedInv, Allocated, Owed
  <2>3. InStage("done")' = InStage("done")
    BY <2>1 DEF InStage
  <2>4. OwedInv' /\ ResInv' /\ CarryInv' /\ EvenInv'
    BY <2>1, <2>2, <2>3 DEF DInv, OwedInv, ResInv, CarryInv, EvenInv
  <2>5. FileInv'
    BY <2>1, <2>2 DEF DInv, FileInv, Pending
  <2> QED
    BY <1>1, <2>4, <2>5 DEF DInv
<1>12. CASE AfterDrain
  <2>1. /\ Submits /\ UNCHANGED <<op, res, file, written, pendingBytes>>
        /\ pc' \notin TransferPCs /\ pc' # "drained"
    BY <1>12 DEF AfterDrain, Submits, kernelVars, counters, TransferPCs
  <2> QED
    BY <1>1, <2>1, QuietDebt DEF DInv
<1>13. ASSUME NEW b \in Bufs, Enqueue(NewIocb, b) PROVE DInv'
  BY <1>1, <1>13, EnqueueDebt DEF DInv
<1>14. ASSUME NEW c \in InStage("kernel"), KernelStep(c) PROVE DInv'
  BY <1>1, <1>14, CompleteDebt DEF KernelStep, DInv
<1>15. CASE UNCHANGED vars
  <2>1. Submits /\ UNCHANGED <<op, res, file, written, pendingBytes, call, pc>>
    BY <1>15 DEF vars, Submits
  <2> QED
    BY <1>1, <2>1, QuietDebt DEF DInv, EvenInv
<1> QED
  BY <1>2, <1>3, <1>4, <1>6, <1>7, <1>8, <1>9, <1>10, <1>11, <1>12, <1>13, <1>14, <1>15
     DEF Next, InCall, Aborted

(* When complete_all lets Close, Fsync or a check go on, every write is in *)
(* the file, whatever the kernel did in part and in which order, unless a  *)
(* place was written again before that was known.                          *)
THEOREM DurableHolds == ~Overwrites => (Spec => []Durable)
<1> SUFFICES ASSUME ~Overwrites PROVE Spec => []Durable
  OBVIOUS
<1>1. DInv /\ [Next]_vars => DInv'
  BY NextDebt
<1>2. ASSUME DInv PROVE Durable
  <2> SUFFICES ASSUME pc = "drained" PROVE file = written
    BY DEF Durable
  <2>1. Allocated = {} /\ pendingBytes = 0
    BY <1>2 DEF DInv, IInv, DrainedInv, EvenInv
  <2>2. Cardinality(Owed) = 0
    BY <2>1, NothingOwed, FS_EmptySet
  <2>3. \A p \in Places : file[p] = written[p]
    BY <1>2, <2>1, <2>2 DEF DInv, FileInv, Pending
  <2> QED
    BY <1>2, <2>3 DEF DInv, IInv, TypeOK
<1> QED
  BY <1>1, <1>2, InitDInv, PTL DEF Spec
=============================================================================
