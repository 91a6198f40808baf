---------------------------- MODULE MdWorkbench ----------------------------
(***************************************************************************)
(* The md-workbench benchmark (md-workbench.c): every rank keeps a FIFO of *)
(* small files in each of its data sets.  A step of the benchmark takes    *)
(* the oldest file of one rank, reads and deletes it, and creates a new    *)
(* one for another rank.  Each round ends after num steps or, with a       *)
(* stonewall, earlier; the place reached is kept for the next round and,   *)
(* in a file, for the next execution of the program.                       *)
(*                                                                         *)
(* An object is its name <<owner, data set, index>>; what is in it is the  *)
(* number and the rank its pattern was made from.  Timing is left out: a   *)
(* stonewall may be found over after any step.                             *)
(***************************************************************************)
EXTENDS Mpi, FiniteSets

CONSTANT Options    \* the option sets a behaviour may start with

(***************************************************************************)
(* The options run_benchmark and its callers read.  executions is the      *)
(* sequence of program executions, each the sequence of phases it runs:    *)
(* "benchmark" comes as often as options -R and -T make it.  Every         *)
(* execution is given the same random seed (-G), so patterns match.        *)
(***************************************************************************)
Phases == {"precreate", "benchmark", "cleanup"}

OptionRecord ==
    [dsetCount : Nat \ {0}, precreate : Nat, num : Nat \ {0}, offset : Nat,
     start : Nat, readOnly : BOOLEAN, stonewall : BOOLEAN, wearOut : BOOLEAN,
     executions : Seq(Seq(Phases))]

\* The objects are created once, by the first phase, and cleaned up by the
\* last, if at all; wear-out has no effect without a stonewall.
ValidOption(o) ==
    /\ o.executions # << >> /\ \A k \in DOMAIN o.executions : o.executions[k] # << >>
    /\ \A k \in DOMAIN o.executions : \A n \in DOMAIN o.executions[k] :
          /\ o.executions[k][n] = "precreate" <=> k = 1 /\ n = 1
          /\ o.executions[k][n] = "cleanup" =>
                k = Len(o.executions) /\ n = Len(o.executions[k])
    /\ o.wearOut => o.stonewall

ASSUME OptionsAssumption == \A o \in Options : o \in OptionRecord /\ ValidOption(o)

VARIABLES
    opt,        \* the options
    execution,  \* number of the current execution
    position,   \* the run-info file: where the next execution goes on
    dsets,      \* the directories <<owner, data set>>
    objects,    \* from the name of each object to what is in it
    pc,         \* where each rank is
    todo,       \* the phases each rank still has to do, the current one first
    index,      \* current_index
    f, d,       \* step and data set counters of run_benchmark
    totalNum,   \* total_num: how many steps this round has
    armed,      \* armed_stone_wall
    sent,       \* what each rank puts into an allreduce
    stonewallIterations, \* s->stonewall_iterations
    err         \* how many operations on objects each rank found to fail

disk == <<position, dsets, objects>>
round == <<f, d, totalNum, armed>>
agreed == <<sent, stonewallIterations>>
vars == <<opt, execution, position, dsets, objects, pc, todo, index, f, d,
          totalNum, armed, sent, stonewallIterations, err, calls>>

Kinds == {"bcast", "barrier", "allreduce", "reduce", "reduceRepeats"}

----------------------------------------------------------------------------
Init ==
    /\ opt \in Options
    /\ execution = 1
    /\ position = 0
    /\ dsets = {}
    /\ objects = << >>
    /\ pc = [r \in Ranks |-> "begin"]
    /\ todo = [r \in Ranks |-> opt.executions[1]]
    /\ index = [r \in Ranks |-> 0]
    /\ f = [r \in Ranks |-> 0]
    /\ d = [r \in Ranks |-> 0]
    /\ totalNum = [r \in Ranks |-> 0]
    /\ armed = [r \in Ranks |-> FALSE]
    /\ sent = [r \in Ranks |-> 0]
    /\ stonewallIterations = [r \in Ranks |-> 0]
    /\ err = [r \in Ranks |-> 0]
    /\ calls = [r \in Ranks |-> << >>]

Go(r, where) == pc' = [pc EXCEPT ![r] = where]

\* start_item_number replaces the position there is.
StartIndex(pos) == IF opt.start # 0 THEN opt.start ELSE pos

\* An execution without the precreation goes on where the last one stopped:
\* rank 0 reads the run-info file and broadcasts the position.
ReturnPosition(r) ==
    /\ pc[r] = "begin"
    /\ IF Head(todo[r]) = "precreate"
       THEN /\ index' = [index EXCEPT ![r] = StartIndex(0)]
            /\ Go(r, "next")
            /\ UNCHANGED calls
       ELSE /\ Enter(r, <<"bcast">>)
            /\ IF r = 0 THEN /\ index' = [index EXCEPT ![r] = StartIndex(position)]
                             /\ Go(r, "next")
                        ELSE Go(r, "positionWait") /\ UNCHANGED index
    /\ UNCHANGED <<opt, execution, disk, todo, round, agreed, err>>

PositionKnown(r) ==
    /\ pc[r] = "positionWait"
    /\ RootArrived(r)
    /\ index' = [index EXCEPT ![r] = StartIndex(position)]
    /\ Go(r, "next")
    /\ UNCHANGED <<opt, execution, disk, todo, round, agreed, err, calls>>

\* Precreation and benchmark begin with a barrier, the cleanup does not.
StartPhase(r) ==
    /\ pc[r] = "next" /\ todo[r] # << >>
    /\ stonewallIterations' = [stonewallIterations EXCEPT ![r] = 0]
    /\ IF Head(todo[r]) = "cleanup"
       THEN Go(r, "cleanup") /\ UNCHANGED calls
       ELSE Go(r, "startWait") /\ Enter(r, <<"barrier">>)
    /\ UNCHANGED <<opt, execution, disk, todo, index, round, sent, err>>

PhaseStarted(r) ==
    /\ pc[r] = "startWait"
    /\ AllArrived(r)
    /\ IF Head(todo[r]) = "precreate"
       THEN Go(r, "precreate") /\ UNCHANGED round
       ELSE /\ Go(r, "stat")
            /\ f' = [f EXCEPT ![r] = 0]
            /\ d' = [d EXCEPT ![r] = 0]
            /\ totalNum' = [totalNum EXCEPT ![r] = opt.num]
            /\ armed' = [armed EXCEPT ![r] = opt.stonewall]
    /\ UNCHANGED <<opt, execution, disk, todo, index, agreed, err, calls>>

DataSets == 0 .. opt.dsetCount - 1

\* What the pattern of object i in data set k of a rank is made from.
Pattern(rank, k, i) == <<i * opt.dsetCount + k, rank>>

Unwritten == << >>  \* created, nothing written

\* The objects there are, with those made or made again.
With(made) ==
    [o \in DOMAIN objects \cup DOMAIN made |-> IF o \in DOMAIN made THEN made[o] ELSE objects[o]]

\* run_precreate: a rank's objects are its own until the phase ends.
Precreate(r) ==
    /\ pc[r] = "precreate"
    /\ dsets' = dsets \cup ({r} \X DataSets)
    /\ objects' = With([o \in {r} \X DataSets \X (index[r] .. opt.precreate - 1)
                           |-> Pattern(o[1], o[2], o[3])])
    /\ Go(r, "ended")
    /\ UNCHANGED <<opt, execution, position, todo, index, round, agreed, err, calls>>

\* The object a step takes, and the one it makes.
PrevFile(r) == f[r] + index[r]
\* Mutant: the start index is left out.
NewFileIndexOfRound(r) == opt.precreate + f[r]

NewFileIndex(r) == opt.precreate + PrevFile(r)
ReadRank(r) == (r - opt.offset * (d[r] + 1)) % NumTasks
WriteRank(r) == (r + opt.offset * (d[r] + 1)) % NumTasks
OldObject(r) == <<ReadRank(r), d[r], PrevFile(r)>>
NewObject(r) == <<WriteRank(r), d[r], NewFileIndex(r)>>

\* The step is over for this data set.
NextDataSet(r) ==
    IF d[r] + 1 < opt.dsetCount
    THEN d' = [d EXCEPT ![r] = @ + 1] /\ Go(r, "stat")
    ELSE d' = [d EXCEPT ![r] = 0] /\ Go(r, "timer")

Fails(r) == err' = [err EXCEPT ![r] = @ + 1]

\* An object that is not there is counted, and the step given up.
Stat(r) ==
    /\ pc[r] = "stat"
    /\ IF OldObject(r) \in DOMAIN objects
       THEN Go(r, "read") /\ UNCHANGED <<d, err>>
       ELSE Fails(r) /\ NextDataSet(r)
    /\ UNCHANGED <<opt, execution, disk, todo, index, f, totalNum, armed, agreed, calls>>

\* Read and verify.  If the object went away in between, FAIL() ends the
\* program; here the rank has no step left.
Read(r) ==
    /\ pc[r] = "read"
    /\ OldObject(r) \in DOMAIN objects
    /\ IF objects[OldObject(r)] = Pattern(ReadRank(r), d[r], PrevFile(r))
       THEN UNCHANGED err ELSE Fails(r)
    /\ IF opt.readOnly THEN NextDataSet(r) ELSE Go(r, "remove") /\ UNCHANGED d
    /\ UNCHANGED <<opt, execution, disk, todo, index, f, totalNum, armed, agreed, calls>>

Without(gone) == [o \in DOMAIN objects \ gone |-> objects[o]]

Remove(r) ==
    /\ pc[r] = "remove"
    /\ objects' = Without({OldObject(r)})
    /\ Go(r, "create")
    /\ UNCHANGED <<opt, execution, position, dsets, todo, index, round, agreed, err, calls>>

Create(r) ==
    /\ pc[r] = "create"
    /\ objects' = With([o \in {NewObject(r)} |-> Unwritten])
    /\ Go(r, "write")
    /\ UNCHANGED <<opt, execution, position, dsets, todo, index, round, agreed, err, calls>>

Write(r) ==
    /\ pc[r] = "write"
    /\ objects' = [objects EXCEPT ![NewObject(r)] =
                      Pattern(WriteRank(r), d[r], NewFileIndex(r))]
    /\ NextDataSet(r)
    /\ UNCHANGED <<opt, execution, position, dsets, todo, index, f, totalNum, armed,
                   agreed, err, calls>>

----------------------------------------------------------------------------
\* Mutant: one step too many.
MoreOrLast(k, n) == k <= n

\* Whether there is a step k in a round of n.
More(k, n) == k < n

GoOn(r) ==
    /\ pc[r] = "timer"
    /\ f' = [f EXCEPT ![r] = @ + 1]
    /\ Go(r, IF More(f[r] + 1, totalNum[r]) THEN "stat" ELSE "loopEnd")
    /\ UNCHANGED <<opt, execution, disk, todo, index, d, totalNum, armed, agreed, err,
                   calls>>

\* The stonewall without wear-out: the loop is left, with f as it is.
BreakOff(r) ==
    /\ pc[r] = "timer" /\ armed[r] /\ ~opt.wearOut
    /\ stonewallIterations' = [stonewallIterations EXCEPT ![r] = f[r]]
    /\ Go(r, "loopEnd")
    /\ UNCHANGED <<opt, execution, disk, todo, index, round, sent, err, calls>>

\* Mutant: the step just done is not counted.
CurPosBefore(r) == f[r]

\* cur_pos
CurPos(r) == f[r] + 1

\* The stonewall with wear-out: agree on the number of steps.
WearOut(r) ==
    /\ pc[r] = "timer" /\ armed[r] /\ opt.wearOut
    /\ armed' = [armed EXCEPT ![r] = FALSE]
    /\ sent' = [sent EXCEPT ![r] = CurPos(r)]
    /\ Enter(r, <<"allreduce">>)
    /\ Go(r, "wearWait")
    /\ UNCHANGED <<opt, execution, disk, todo, index, f, d, totalNum,
                   stonewallIterations, err>>

\* n is the largest of what the ranks have sent.
Largest(n) == (\E r \in Ranks : sent[r] = n) /\ \A r \in Ranks : sent[r] <= n

WearOutAgreed(r) ==
    /\ pc[r] = "wearWait"
    /\ AllArrived(r)
    /\ \E n \in 0 .. opt.num :
          /\ Largest(n)
          /\ totalNum' = [totalNum EXCEPT ![r] = n]
          /\ stonewallIterations' = [stonewallIterations EXCEPT ![r] = n]
          /\ IF f[r] = n
             THEN Go(r, "loopEnd") /\ UNCHANGED f
             ELSE /\ f' = [f EXCEPT ![r] = @ + 1]
                  /\ Go(r, IF More(f[r] + 1, n) THEN "stat" ELSE "loopEnd")
    /\ UNCHANGED <<opt, execution, disk, todo, index, d, armed, sent, err, calls>>

\* A mutated LeaveLoop: another condition for the allreduce.
LeaveLoopIf(r, agrees) ==
    /\ pc[r] = "loopEnd"
    /\ IF agrees
       THEN /\ sent' = [sent EXCEPT ![r] = IF opt.wearOut THEN totalNum[r]
                                           ELSE stonewallIterations[r]]
            /\ Enter(r, <<"allreduce">>)
            /\ Go(r, "agreeWait")
       ELSE Go(r, "ended") /\ UNCHANGED <<sent, calls>>
    /\ UNCHANGED <<opt, execution, disk, todo, index, round, stonewallIterations, err>>

\* Mutant: a rank that ends before its stonewall does not join the others.
LeaveLoopAlone(r) == LeaveLoopIf(r, opt.stonewall /\ ~opt.wearOut)

\* A rank that ends its round before its stonewall joins the others'
\* allreduce; without wear-out the places of all are compared.
LeaveLoop(r) ==
    /\ pc[r] = "loopEnd"
    /\ IF opt.stonewall /\ (opt.wearOut => armed[r])
       THEN /\ sent' = [sent EXCEPT ![r] = IF opt.wearOut THEN totalNum[r]
                                           ELSE stonewallIterations[r]]
            /\ Enter(r, <<"allreduce">>)
            /\ Go(r, "agreeWait")
       ELSE Go(r, "ended") /\ UNCHANGED <<sent, calls>>
    /\ UNCHANGED <<opt, execution, disk, todo, index, round, stonewallIterations, err>>

LeaveLoopAgreed(r) ==
    /\ pc[r] = "agreeWait"
    /\ AllArrived(r)
    /\ \E n \in 0 .. opt.num :
          Largest(n) /\ stonewallIterations' = [stonewallIterations EXCEPT ![r] = n]
    /\ Go(r, "ended")
    /\ UNCHANGED <<opt, execution, disk, todo, index, round, sent, err, calls>>

\* Mutant: the cleanup begins where the precreation did.
CleanupFromStart(r) == StartIndex(0)

\* The index of the oldest object a cleanup removes.
CleanupStart(r) == index[r]

\* run_cleanup: a rank's objects are its own again.
Cleanup(r) ==
    /\ pc[r] = "cleanup"
    /\ LET old == {r} \X DataSets \X (CleanupStart(r) .. CleanupStart(r) + opt.precreate - 1)
       IN  objects' = Without(old)
    /\ dsets' = {s \in dsets : s[1] = r => \E o \in DOMAIN objects' : <<o[1], o[2]>> = s}
    /\ Go(r, "ended")
    /\ UNCHANGED <<opt, execution, position, todo, index, round, agreed, err, calls>>

\* end_phase begins with a barrier; the benchmark has moved on before.
EndPhase(r) ==
    /\ pc[r] = "ended"
    /\ index' = IF Head(todo[r]) = "benchmark" /\ ~opt.readOnly
                THEN [index EXCEPT ![r] = @ + f[r]] ELSE index
    /\ Enter(r, <<"barrier">>)
    /\ Go(r, "endWait")
    /\ UNCHANGED <<opt, execution, disk, todo, round, agreed, err>>

\* The statistics are reduced to rank 0 in a series of calls, of which the
\* one for the repeats depends on stonewall_iterations.
Report(r) ==
    /\ pc[r] = "endWait"
    /\ AllArrived(r)
    /\ Enter(r, IF stonewallIterations[r] # 0 THEN <<"reduce", "reduceRepeats">>
                ELSE <<"reduce">>)
    /\ Go(r, "report")
    /\ UNCHANGED <<opt, execution, disk, todo, index, round, agreed, err>>

Reported(r) ==
    /\ pc[r] = "report"
    /\ r = 0 => AllArrived(r)
    /\ todo' = [todo EXCEPT ![r] = Tail(@)]
    /\ Go(r, "next")
    /\ UNCHANGED <<opt, execution, disk, index, round, agreed, err, calls>>

Executed == opt.executions[execution]
CleansUp == Executed[Len(Executed)] = "cleanup"

\* Rank 0 stores its position, unless everything has been cleaned up.
StorePosition(r) ==
    /\ pc[r] = "next" /\ todo[r] = << >>
    /\ position' = IF r = 0 /\ ~CleansUp THEN index[r] ELSE position
    /\ Go(r, "end")
    /\ UNCHANGED <<opt, execution, dsets, objects, todo, index, round, agreed, err, calls>>

RankStep(r) ==
    \/ ReturnPosition(r) \/ PositionKnown(r)
    \/ StartPhase(r) \/ PhaseStarted(r) \/ Precreate(r)
    \/ Stat(r) \/ Read(r) \/ Remove(r) \/ Create(r) \/ Write(r)
    \/ GoOn(r) \/ BreakOff(r) \/ WearOut(r) \/ WearOutAgreed(r)
    \/ LeaveLoop(r) \/ LeaveLoopAgreed(r)
    \/ Cleanup(r) \/ EndPhase(r) \/ Report(r) \/ Reported(r)
    \/ StorePosition(r)

AllEnded == \A r \in Ranks : pc[r] = "end"

\* The program is started once more, with other phases.
NextExecution ==
    /\ AllEnded /\ execution < Len(opt.executions)
    /\ execution' = execution + 1
    /\ pc' = [r \in Ranks |-> "begin"]
    /\ todo' = [r \in Ranks |-> opt.executions[execution']]
    /\ calls' = [r \in Ranks |-> << >>]
    /\ UNCHANGED <<opt, disk, index, round, agreed, err>>

Finished == AllEnded /\ execution = Len(opt.executions)

Next == \/ \E r \in Ranks : RankStep(r)
        \/ NextExecution
        \/ Finished /\ UNCHANGED vars

\* Every process runs until it waits in MPI; the next execution comes.
Fairness == (\A r \in Ranks : WF_vars(RankStep(r))) /\ WF_vars(NextExecution)

Spec == Init /\ [][Next]_vars /\ Fairness

----------------------------------------------------------------------------
(***************************************************************************)
(* Options for which a rank may find no object where it expects one.       *)
(***************************************************************************)
CleansUpAtEnd(o) ==
    LET final == o.executions[Len(o.executions)] IN final[Len(final)] = "cleanup"

Rounds(o) ==
    LET Of(k) == Cardinality({n \in DOMAIN o.executions[k] : o.executions[k][n] = "benchmark"})
        upTo[k \in 0 .. Len(o.executions)] == IF k = 0 THEN 0 ELSE upTo[k - 1] + Of(k)
    IN  upTo[Len(o.executions)]

\* The code warns: the objects of this round may not have been created yet.
NumExceeds(o) == o.num > o.precreate

\* The code warns when it is told to do the phases in separate executions.
\* The loop is left before f counts the step that was done, and every rank
\* keeps its own place.
UnwornStonewall(o) ==
    o.stonewall /\ ~o.wearOut /\ ~o.readOnly /\ (Rounds(o) > 1 \/ CleansUpAtEnd(o))

\* The precreation begins at the start item but ends at the same object as
\* without, and every execution goes back to the start item.
StartsLate(o) ==
    o.start # 0 /\ (Len(o.executions) > 1 \/ o.start + Rounds(o) * o.num > o.precreate)

SoundOption(o) == ~( NumExceeds(o) \/ UnwornStonewall(o) \/ StartsLate(o) )

----------------------------------------------------------------------------
PCs == {"begin", "positionWait", "next", "startWait", "precreate", "stat", "read",
        "remove", "create", "write", "timer", "wearWait", "loopEnd", "agreeWait",
        "cleanup", "ended", "endWait", "report", "end"}

Names == Ranks \X Nat \X Nat

\* Every variable has its type, and a round has no more than num steps: the
\* arrays of the measurements are allocated for that many.
TypeOK ==
    /\ opt \in Options
    /\ execution \in DOMAIN opt.executions
    /\ position \in Nat
    /\ dsets \subseteq Ranks \X DataSets
    /\ DOMAIN objects \subseteq Names
    /\ \A o \in DOMAIN objects : objects[o] \in (Nat \X Ranks) \cup {Unwritten}
    /\ pc \in [Ranks -> PCs]
    /\ todo \in [Ranks -> Seq(Phases)]
    /\ index \in [Ranks -> Nat]
    /\ f \in [Ranks -> 0 .. opt.num]
    /\ d \in [Ranks -> DataSets]
    /\ totalNum \in [Ranks -> 0 .. opt.num]
    /\ armed \in [Ranks -> BOOLEAN]
    /\ sent \in [Ranks -> 0 .. opt.num]
    /\ stonewallIterations \in [Ranks -> 0 .. opt.num]
    /\ err \in [Ranks -> Nat]
    /\ calls \in [Ranks -> Seq(Kinds)]

\* No rank ever finds the object of a step missing or with other data than
\* its writer's, although readers and writers are different ranks, rounds
\* end early, and the program stops and goes on in between: the queue of
\* objects is first in, first out across all of that.
NoErrors == \A r \in Ranks : err[r] = 0

\* No phase is under way.
BetweenPhases == \A r \in Ranks : pc[r] = "next" /\ todo[r] = todo[0]

\* The phases before the benchmarks are over, the cleanup is not.
Populated ==
    /\ execution > 1 \/ Len(todo[0]) < Len(Executed)
    /\ todo[0] = << >> => ~CleansUp

\* Between two phases every rank is at the same place and its data sets
\* hold the precreated number of objects, complete and beginning there: with
\* wear-out "all processes perform the same number of iterations".
WorkingSet ==
    BetweenPhases /\ Populated /\ opt.start = 0 /\ (opt.stonewall => opt.wearOut) =>
        /\ \A r \in Ranks : index[r] = index[0]
        /\ objects = [o \in Ranks \X DataSets \X (index[0] .. index[0] + opt.precreate - 1)
                        |-> Pattern(o[1], o[2], o[3])]

\* After a cleanup nothing is left, whatever the executions before it did.
CleanedUp == Finished /\ CleansUp => DOMAIN objects = {} /\ dsets = {}

\* The program comes to its end: no rank is left waiting in a collective.
Finishes == <>Finished
=============================================================================
