------------------------- MODULE MdWorkbenchProofs -------------------------
(***************************************************************************)
(* md-workbench keeps its types for every number of ranks and every set of *)
(* options.  The bounds are what matters in them: no round has more steps  *)
(* than -P says, which is what the arrays of the measurements are made     *)
(* for, also when the ranks agree on a number of steps in the middle.      *)
(* And its queue is first in, first out, the second part.                  *)
(***************************************************************************)
EXTENDS MdWorkbench, TLAPS

Stepping == {"stat", "read", "remove", "create", "write", "timer"}
Outside == {"begin", "positionWait", "next", "end"}

\* A step is one of the round, and who is in a phase has one.
Bounds(r) ==
    /\ pc[r] \in Stepping => f[r] < totalNum[r]
    /\ pc[r] = "wearWait" => f[r] < opt.num
    /\ pc[r] \notin Outside => todo[r] # << >>

IInv == TypeOK /\ \A r \in Ranks : Bounds(r)

ObjectsOK ==
    /\ DOMAIN objects \subseteq Names
    /\ \A o \in DOMAIN objects : objects[o] \in (Nat \X Ranks) \cup {Unwritten}

\* The types of what belongs to a rank, but for its objects.
RanksOK ==
    /\ pc \in [Ranks -> PCs]
    /\ todo \in [Ranks -> Seq(Phases)]
    /\ index \in [Ranks -> Nat]
    /\ f \in [Ranks -> 0 .. opt.num]
    /\ d \in [Ranks -> DataSets]
    /\ totalNum \in [Ranks -> 0 .. opt.num]
    /\ armed \in [Ranks -> BOOLEAN]
    /\ sent \in [Ranks -> 0 .. opt.num]
    /\ stonewallIterations \in [Ranks -> 0 .. opt.num]
    /\ err \in [Ranks -> Nat]
    /\ calls \in [Ranks -> Seq(Kinds)]

WorldOK ==
    /\ opt \in Options
    /\ execution \in DOMAIN opt.executions
    /\ position \in Nat
    /\ dsets \subseteq Ranks \X DataSets

\* The parts of TypeOK.
LEMMA Parts == TypeOK <=> WorldOK /\ RanksOK /\ ObjectsOK
BY DEF TypeOK, WorldOK, RanksOK, ObjectsOK

\* What the options are.
LEMMA OptionTypes ==
    ASSUME opt \in Options
    PROVE  /\ opt.dsetCount \in Nat \ {0} /\ opt.num \in Nat \ {0}
           /\ opt.precreate \in Nat /\ opt.offset \in Nat /\ opt.start \in Nat
           /\ opt.executions \in Seq(Seq(Phases)) /\ opt.executions # << >>
<1>1. opt \in OptionRecord /\ ValidOption(opt)
  BY OptionsAssumption
<1> QED
  BY <1>1 DEF OptionRecord, ValidOption

\* The names of the objects a rank reads and makes, and what it puts there.
LEMMA NameTypes ==
    ASSUME WorldOK, RanksOK, NEW r \in Ranks
    PROVE  /\ OldObject(r) \in Names /\ NewObject(r) \in Names
           /\ Pattern(WriteRank(r), d[r], NewFileIndex(r)) \in Nat \X Ranks
<1>1. /\ opt.dsetCount \in Nat \ {0} /\ opt.precreate \in Nat /\ opt.offset \in Nat
      /\ opt.num \in Nat
  BY OptionTypes DEF WorldOK
<1>2. f[r] \in Nat /\ index[r] \in Nat /\ d[r] \in Nat /\ r \in Int
  BY <1>1 DEF RanksOK, DataSets, Ranks
<1>3. PrevFile(r) \in Nat /\ NewFileIndex(r) \in Nat
  BY <1>1, <1>2 DEF PrevFile, NewFileIndex
<1>4. NewFileIndex(r) * opt.dsetCount + d[r] \in Nat
  <2> HIDE DEF NewFileIndex
  <2> QED
    BY <1>1, <1>2, <1>3
<1>5. ReadRank(r) \in Ranks /\ WriteRank(r) \in Ranks
  <2> DEFINE m == opt.offset * (d[r] + 1)
  <2>1. m \in Int
    BY <1>1, <1>2
  <2> HIDE DEF m
  <2>2. (r - m) % NumTasks \in Ranks /\ (r + m) % NumTasks \in Ranks
    BY <1>2, <2>1, NumTasksAssumption DEF Ranks
  <2> QED
    BY <2>2 DEF ReadRank, WriteRank, m
<1> QED
  BY <1>2, <1>3, <1>4, <1>5 DEF OldObject, NewObject, Names, Pattern

\* Objects are made under a name, or go.
LEMMA ObjectsKept ==
    ASSUME ObjectsOK
    PROVE  /\ UNCHANGED objects => ObjectsOK'
           /\ \A gone : objects' = Without(gone) => ObjectsOK'
           /\ \A o \in Names :
                 objects' = With([q \in {o} |-> Unwritten]) => ObjectsOK'
           /\ \A o \in Names, p \in Nat \X Ranks :
                 objects' = [objects EXCEPT ![o] = p] => ObjectsOK'
<1>1. UNCHANGED objects => ObjectsOK'
  BY DEF ObjectsOK
<1>2. ASSUME NEW gone, objects' = Without(gone) PROVE ObjectsOK'
  BY <1>2 DEF ObjectsOK, Without
<1>3. ASSUME NEW o \in Names, objects' = With([q \in {o} |-> Unwritten]) PROVE ObjectsOK'
  <2>1. DOMAIN objects' = DOMAIN objects \cup {o}
    BY <1>3 DEF With
  <2>2. \A q \in DOMAIN objects' :
            objects'[q] = Unwritten \/ (q \in DOMAIN objects /\ objects'[q] = objects[q])
    BY <1>3 DEF With
  <2> QED
    BY <2>1, <2>2 DEF ObjectsOK
<1>4. ASSUME NEW o \in Names, NEW p \in Nat \X Ranks, objects' = [objects EXCEPT ![o] = p]
      PROVE  ObjectsOK'
  <2>1. DOMAIN objects' = DOMAIN objects
    BY <1>4
  <2>2. \A q \in DOMAIN objects' : objects'[q] = p \/ objects'[q] = objects[q]
    BY <1>4
  <2> QED
    BY <2>1, <2>2 DEF ObjectsOK
<1> QED
  BY <1>1, <1>2, <1>3, <1>4

\* The objects of a data set, made at once.
LEMMA PrecreateObjects ==
    ASSUME WorldOK, RanksOK, ObjectsOK, NEW r \in Ranks, Precreate(r)
    PROVE  ObjectsOK'
<1> DEFINE own == {r} \X DataSets \X (index[r] .. opt.precreate - 1)
           made == [o \in own |-> Pattern(o[1], o[2], o[3])]
<1>1. /\ opt.dsetCount \in Nat \ {0} /\ opt.precreate \in Nat /\ index[r] \in Nat
  BY OptionTypes DEF WorldOK, RanksOK
<1>2. own \subseteq Names
  BY <1>1 DEF Names, DataSets
<1>3. ASSUME NEW o \in own PROVE Pattern(o[1], o[2], o[3]) \in Nat \X Ranks
  <2>1. o[1] = r /\ o[2] \in Nat /\ o[3] \in Nat
    BY <1>1, <1>3 DEF DataSets
  <2>2. o[3] * opt.dsetCount + o[2] \in Nat
    BY <1>1, <2>1
  <2> QED
    BY <2>1, <2>2 DEF Pattern
<1>4. objects' = With(made)
  BY DEF Precreate
<1> HIDE DEF own
<1>5. DOMAIN objects' = DOMAIN objects \cup own
  BY <1>4 DEF With
<1>6. \A o \in DOMAIN objects' :
          \/ o \in own /\ objects'[o] = Pattern(o[1], o[2], o[3])
          \/ o \in DOMAIN objects /\ objects'[o] = objects[o]
  BY <1>4 DEF With
<1> QED
  BY <1>2, <1>3, <1>5, <1>6 DEF ObjectsOK

\* A rank that enters collectives.
LEMMA EnterType ==
    ASSUME RanksOK, NEW r \in Ranks,
           NEW k \in {"bcast", "barrier", "allreduce", "reduce", "reduceRepeats"},
           \/ Enter(r, <<k>>) \/ Enter(r, <<"reduce", "reduceRepeats">>) \/ UNCHANGED calls
    PROVE  calls' \in [Ranks -> Seq(Kinds)]
<1>1. calls \in [Ranks -> Seq(Kinds)]
  BY DEF RanksOK
<1>2. <<k>> \in Seq(Kinds) /\ <<"reduce", "reduceRepeats">> \in Seq(Kinds)
  BY DEF Kinds
<1>3. ASSUME NEW kinds \in Seq(Kinds), Enter(r, kinds) PROVE calls' \in [Ranks -> Seq(Kinds)]
  <2>1. calls[r] \o kinds \in Seq(Kinds)
    BY <1>1
  <2> QED
    BY <1>1, <1>3, <2>1 DEF Enter
<1> QED
  BY <1>1, <1>2, <1>3

\* The parameters, the step a rank is in and the types of all ranks, as the
\* steps below need them.
LEMMA StepTypes ==
    ASSUME IInv, NEW r \in Ranks
    PROVE  /\ WorldOK /\ RanksOK /\ ObjectsOK /\ \A s \in Ranks : Bounds(s)
           /\ opt.dsetCount \in Nat \ {0} /\ opt.num \in Nat \ {0}
           /\ opt.precreate \in Nat /\ opt.start \in Nat
           /\ f[r] \in 0 .. opt.num /\ totalNum[r] \in 0 .. opt.num
           /\ stonewallIterations[r] \in 0 .. opt.num
           /\ d[r] \in DataSets /\ index[r] \in Nat /\ err[r] \in Nat
           /\ todo[r] \in Seq(Phases) /\ position \in Nat
           /\ 0 \in 0 .. opt.num /\ opt.num \in 0 .. opt.num /\ 0 \in DataSets
<1>1. WorldOK /\ RanksOK /\ ObjectsOK /\ \A s \in Ranks : Bounds(s)
  BY Parts DEF IInv
<1>2. /\ opt.dsetCount \in Nat \ {0} /\ opt.num \in Nat \ {0}
      /\ opt.precreate \in Nat /\ opt.start \in Nat
  BY <1>1, OptionTypes DEF WorldOK
<1>3. 0 \in 0 .. opt.num /\ opt.num \in 0 .. opt.num /\ 0 \in DataSets
  BY <1>2 DEF DataSets
<1> QED
  BY <1>1, <1>2, <1>3 DEF WorldOK, RanksOK

\* The parts after a step.
LEMMA PartsNext ==
    ASSUME WorldOK', RanksOK', ObjectsOK', \A s \in Ranks : Bounds(s)'
    PROVE  IInv'
BY DEF IInv, TypeOK, WorldOK, RanksOK, ObjectsOK

\* The next data set, or the end of the step.
LEMMA NextDataSetTypes ==
    ASSUME IInv, NEW r \in Ranks, NextDataSet(r)
    PROVE  /\ d' \in [Ranks -> DataSets]
           /\ pc' = [pc EXCEPT ![r] = "stat"] \/ pc' = [pc EXCEPT ![r] = "timer"]
<1>1. /\ d \in [Ranks -> DataSets] /\ d[r] \in DataSets
      /\ opt.dsetCount \in Nat \ {0} /\ 0 \in DataSets
  BY StepTypes DEF RanksOK
<1>2. d[r] + 1 < opt.dsetCount => d[r] + 1 \in DataSets
  BY <1>1 DEF DataSets
<1> QED
  BY <1>1, <1>2 DEF NextDataSet, Go

\* The position is a number, wherever it comes from.
LEMMA ReturnPositionTypes ==
    ASSUME IInv, NEW r \in Ranks, ReturnPosition(r)
    PROVE  IInv'
<1>1. /\ WorldOK /\ RanksOK /\ ObjectsOK /\ \A s \in Ranks : Bounds(s)
      /\ opt.dsetCount \in Nat \ {0} /\ opt.num \in Nat \ {0}
      /\ opt.precreate \in Nat /\ opt.start \in Nat
      /\ f[r] \in 0 .. opt.num /\ totalNum[r] \in 0 .. opt.num
      /\ stonewallIterations[r] \in 0 .. opt.num
      /\ d[r] \in DataSets /\ index[r] \in Nat /\ err[r] \in Nat
      /\ todo[r] \in Seq(Phases) /\ position \in Nat
      /\ 0 \in 0 .. opt.num /\ opt.num \in 0 .. opt.num /\ 0 \in DataSets
  BY StepTypes
<1>2. opt' = opt /\ DataSets' = DataSets /\ calls' \in [Ranks -> Seq(Kinds)]
  BY <1>1, EnterType DEF ReturnPosition, DataSets
<1>3. WorldOK'
  BY <1>1 DEF ReturnPosition, WorldOK, DataSets, disk
<1>4. ObjectsOK'
  BY <1>1, ObjectsKept DEF ReturnPosition, disk
<1>7. /\ UNCHANGED <<todo, f, d, totalNum, armed, sent, stonewallIterations, err>>
      /\ \E where \in {"next", "positionWait"} : pc' = [pc EXCEPT ![r] = where]
  BY DEF ReturnPosition, Go, round, agreed
<1>8. index' \in [Ranks -> Nat]
  <2>1. StartIndex(0) \in Nat /\ StartIndex(position) \in Nat
    BY <1>1 DEF StartIndex
  <2>2. index' = index \/ \E n \in Nat : index' = [index EXCEPT ![r] = n]
    BY <2>1 DEF ReturnPosition
  <2> QED
    BY <1>1, <2>2 DEF RanksOK
<1>5. RanksOK'
  BY <1>1, <1>2, <1>7, <1>8 DEF RanksOK, PCs
<1>6. \A s \in Ranks : Bounds(s)'
  BY <1>1, <1>7 DEF ReturnPosition, StartIndex, RanksOK, Bounds, Stepping, Outside, Go,
                 round, agreed
<1> QED
  BY <1>3, <1>4, <1>5, <1>6, PartsNext

\* The same for the ranks that receive it.
LEMMA PositionKnownTypes ==
    ASSUME IInv, NEW r \in Ranks, PositionKnown(r)
    PROVE  IInv'
<1>1. /\ WorldOK /\ RanksOK /\ ObjectsOK /\ \A s \in Ranks : Bounds(s)
      /\ opt.dsetCount \in Nat \ {0} /\ opt.num \in Nat \ {0}
      /\ opt.precreate \in Nat /\ opt.start \in Nat
      /\ f[r] \in 0 .. opt.num /\ totalNum[r] \in 0 .. opt.num
      /\ stonewallIterations[r] \in 0 .. opt.num
      /\ d[r] \in DataSets /\ index[r] \in Nat /\ err[r] \in Nat
      /\ todo[r] \in Seq(Phases) /\ position \in Nat
      /\ 0 \in 0 .. opt.num /\ opt.num \in 0 .. opt.num /\ 0 \in DataSets
  BY StepTypes
<1>2. opt' = opt /\ DataSets' = DataSets /\ calls' \in [Ranks -> Seq(Kinds)]
  BY <1>1 DEF PositionKnown, RanksOK, DataSets
<1>3. WorldOK'
  BY <1>1 DEF PositionKnown, WorldOK, DataSets, disk
<1>4. ObjectsOK'
  BY <1>1, ObjectsKept DEF PositionKnown, disk
<1>5. RanksOK'
  BY <1>1, <1>2 DEF PositionKnown, StartIndex, RanksOK, Go, PCs, round, agreed
<1>6. \A s \in Ranks : Bounds(s)'
  BY <1>1 DEF PositionKnown, StartIndex, RanksOK, Bounds, Stepping, Outside, Go,
                 round, agreed
<1> QED
  BY <1>3, <1>4, <1>5, <1>6, PartsNext

\* There is a phase to start.
LEMMA StartPhaseTypes ==
    ASSUME IInv, NEW r \in Ranks, StartPhase(r)
    PROVE  IInv'
<1>1. /\ WorldOK /\ RanksOK /\ ObjectsOK /\ \A s \in Ranks : Bounds(s)
      /\ opt.dsetCount \in Nat \ {0} /\ opt.num \in Nat \ {0}
      /\ opt.precreate \in Nat /\ opt.start \in Nat
      /\ f[r] \in 0 .. opt.num /\ totalNum[r] \in 0 .. opt.num
      /\ stonewallIterations[r] \in 0 .. opt.num
      /\ d[r] \in DataSets /\ index[r] \in Nat /\ err[r] \in Nat
      /\ todo[r] \in Seq(Phases) /\ position \in Nat
      /\ 0 \in 0 .. opt.num /\ opt.num \in 0 .. opt.num /\ 0 \in DataSets
  BY StepTypes
<1>2. opt' = opt /\ DataSets' = DataSets /\ calls' \in [Ranks -> Seq(Kinds)]
  BY <1>1, EnterType DEF StartPhase, DataSets
<1>3. WorldOK'
  BY <1>1 DEF StartPhase, WorldOK, DataSets, disk
<1>4. ObjectsOK'
  BY <1>1, ObjectsKept DEF StartPhase, disk
<1>5. RanksOK'
  BY <1>1, <1>2 DEF StartPhase, RanksOK, Go, PCs, round, agreed
<1>6. \A s \in Ranks : Bounds(s)'
  BY <1>1 DEF StartPhase, RanksOK, Bounds, Stepping, Outside, Go,
                 round, agreed
<1> QED
  BY <1>3, <1>4, <1>5, <1>6, PartsNext

\* A round has a step at least.
LEMMA PhaseStartedTypes ==
    ASSUME IInv, NEW r \in Ranks, PhaseStarted(r)
    PROVE  IInv'
<1>1. /\ WorldOK /\ RanksOK /\ ObjectsOK /\ \A s \in Ranks : Bounds(s)
      /\ opt.dsetCount \in Nat \ {0} /\ opt.num \in Nat \ {0}
      /\ opt.precreate \in Nat /\ opt.start \in Nat
      /\ f[r] \in 0 .. opt.num /\ totalNum[r] \in 0 .. opt.num
      /\ stonewallIterations[r] \in 0 .. opt.num
      /\ d[r] \in DataSets /\ index[r] \in Nat /\ err[r] \in Nat
      /\ todo[r] \in Seq(Phases) /\ position \in Nat
      /\ 0 \in 0 .. opt.num /\ opt.num \in 0 .. opt.num /\ 0 \in DataSets
  BY StepTypes
<1>2. opt' = opt /\ DataSets' = DataSets /\ calls' \in [Ranks -> Seq(Kinds)]
  BY <1>1 DEF PhaseStarted, RanksOK, DataSets
<1>3. WorldOK'
  BY <1>1 DEF PhaseStarted, WorldOK, DataSets, disk
<1>4. ObjectsOK'
  BY <1>1, ObjectsKept DEF PhaseStarted, disk
<1>7. /\ pc[r] = "startWait" /\ UNCHANGED <<todo, index, sent, stonewallIterations, err>>
      /\ \/ pc' = [pc EXCEPT ![r] = "precreate"] /\ UNCHANGED <<f, d, totalNum, armed>>
         \/ /\ pc' = [pc EXCEPT ![r] = "stat"]
            /\ f' = [f EXCEPT ![r] = 0] /\ d' = [d EXCEPT ![r] = 0]
            /\ totalNum' = [totalNum EXCEPT ![r] = opt.num]
            /\ armed' = [armed EXCEPT ![r] = opt.stonewall]
  BY DEF PhaseStarted, Go, round, agreed
<1>8. opt.stonewall \in BOOLEAN
  BY <1>1, OptionsAssumption DEF OptionRecord, WorldOK
<1>5. CASE pc' = [pc EXCEPT ![r] = "precreate"] /\ UNCHANGED <<f, d, totalNum, armed>>
  <2>1. RanksOK'
    BY <1>1, <1>2, <1>5, <1>7 DEF RanksOK, PCs
  <2>2. \A s \in Ranks : Bounds(s)'
    BY <1>1, <1>2, <1>5, <1>7 DEF RanksOK, Bounds, Stepping, Outside
  <2> QED
    BY <1>3, <1>4, <2>1, <2>2, PartsNext
<1>6. CASE /\ pc' = [pc EXCEPT ![r] = "stat"]
           /\ f' = [f EXCEPT ![r] = 0] /\ d' = [d EXCEPT ![r] = 0]
           /\ totalNum' = [totalNum EXCEPT ![r] = opt.num]
           /\ armed' = [armed EXCEPT ![r] = opt.stonewall]
  <2>1. RanksOK'
    BY <1>1, <1>2, <1>6, <1>7, <1>8 DEF RanksOK, PCs
  <2>2. \A s \in Ranks : Bounds(s)'
    <3>1. \A s \in Ranks \ {r} : Bounds(s)'
      BY <1>1, <1>2, <1>6, <1>7 DEF RanksOK, Bounds
    <3>2. pc'[r] = "stat" /\ f'[r] = 0 /\ totalNum'[r] = opt.num /\ todo'[r] # << >>
      BY <1>1, <1>6, <1>7 DEF RanksOK, Bounds, Outside
    <3>3. Bounds(r)'
      BY <1>1, <3>2 DEF Bounds
    <3> QED
      BY <3>1, <3>3
  <2> QED
    BY <1>3, <1>4, <2>1, <2>2, PartsNext
<1> QED
  BY <1>5, <1>6, <1>7

\* A data set more, or the next step.
LEMMA StatTypes ==
    ASSUME IInv, NEW r \in Ranks, Stat(r)
    PROVE  IInv'
<1>1. /\ WorldOK /\ RanksOK /\ ObjectsOK /\ \A s \in Ranks : Bounds(s)
      /\ opt.dsetCount \in Nat \ {0} /\ opt.num \in Nat \ {0}
      /\ opt.precreate \in Nat /\ opt.start \in Nat
      /\ f[r] \in 0 .. opt.num /\ totalNum[r] \in 0 .. opt.num
      /\ stonewallIterations[r] \in 0 .. opt.num
      /\ d[r] \in DataSets /\ index[r] \in Nat /\ err[r] \in Nat
      /\ todo[r] \in Seq(Phases) /\ position \in Nat
      /\ 0 \in 0 .. opt.num /\ opt.num \in 0 .. opt.num /\ 0 \in DataSets
  BY StepTypes
<1>2. opt' = opt /\ DataSets' = DataSets /\ calls' \in [Ranks -> Seq(Kinds)]
  BY <1>1 DEF Stat, RanksOK, DataSets
<1>3. WorldOK'
  BY <1>1 DEF Stat, WorldOK, DataSets, disk
<1>4. ObjectsOK'
  BY <1>1, ObjectsKept DEF Stat, disk
<1>7. /\ d' \in [Ranks -> DataSets]
      /\ \E where \in {"stat", "timer", "read"} : pc' = [pc EXCEPT ![r] = where]
  BY <1>1, NextDataSetTypes DEF Stat, Go, RanksOK
<1>8. err' \in [Ranks -> Nat]
  <2>1. err' = err \/ err' = [err EXCEPT ![r] = err[r] + 1]
    BY <1>1 DEF Stat, Fails, RanksOK
  <2>2. err[r] + 1 \in Nat /\ err \in [Ranks -> Nat]
    BY <1>1 DEF RanksOK
  <2> QED
    BY <2>1, <2>2
<1>9. UNCHANGED <<todo, index, f, totalNum, armed, sent, stonewallIterations>>
  BY DEF Stat, agreed
<1>5. RanksOK'
  BY <1>1, <1>2, <1>7, <1>8, <1>9 DEF RanksOK, PCs
<1>6. \A s \in Ranks : Bounds(s)'
  BY <1>1, <1>7, <1>8, <1>9 DEF Stat, Fails, RanksOK, Bounds, Stepping, Outside, Go,
                 round, agreed
<1> QED
  BY <1>3, <1>4, <1>5, <1>6, PartsNext

\* The same after reading.
LEMMA ReadTypes ==
    ASSUME IInv, NEW r \in Ranks, Read(r)
    PROVE  IInv'
<1>1. /\ WorldOK /\ RanksOK /\ ObjectsOK /\ \A s \in Ranks : Bounds(s)
      /\ opt.dsetCount \in Nat \ {0} /\ opt.num \in Nat \ {0}
      /\ opt.precreate \in Nat /\ opt.start \in Nat
      /\ f[r] \in 0 .. opt.num /\ totalNum[r] \in 0 .. opt.num
      /\ stonewallIterations[r] \in 0 .. opt.num
      /\ d[r] \in DataSets /\ index[r] \in Nat /\ err[r] \in Nat
      /\ todo[r] \in Seq(Phases) /\ position \in Nat
      /\ 0 \in 0 .. opt.num /\ opt.num \in 0 .. opt.num /\ 0 \in DataSets
  BY StepTypes
<1>2. opt' = opt /\ DataSets' = DataSets /\ calls' \in [Ranks -> Seq(Kinds)]
  BY <1>1 DEF Read, RanksOK, DataSets
<1>3. WorldOK'
  BY <1>1 DEF Read, WorldOK, DataSets, disk
<1>4. ObjectsOK'
  BY <1>1, ObjectsKept DEF Read, disk
<1>7. /\ d' \in [Ranks -> DataSets]
      /\ \E where \in {"stat", "timer", "remove"} : pc' = [pc EXCEPT ![r] = where]
  BY <1>1, NextDataSetTypes DEF Read, Go, RanksOK
<1>8. err' \in [Ranks -> Nat]
  <2>1. err' = err \/ err' = [err EXCEPT ![r] = err[r] + 1]
    BY <1>1 DEF Read, Fails, RanksOK
  <2>2. err[r] + 1 \in Nat /\ err \in [Ranks -> Nat]
    BY <1>1 DEF RanksOK
  <2> QED
    BY <2>1, <2>2
<1>9. UNCHANGED <<todo, index, f, totalNum, armed, sent, stonewallIterations>>
  BY DEF Read, agreed
<1>5. RanksOK'
  BY <1>1, <1>2, <1>7, <1>8, <1>9 DEF RanksOK, PCs
<1>6. \A s \in Ranks : Bounds(s)'
  BY <1>1, <1>7, <1>8, <1>9 DEF Read, Fails, RanksOK, Bounds, Stepping, Outside, Go,
                 round, agreed
<1> QED
  BY <1>3, <1>4, <1>5, <1>6, PartsNext

\* An object less.
LEMMA RemoveTypes ==
    ASSUME IInv, NEW r \in Ranks, Remove(r)
    PROVE  IInv'
<1>1. /\ WorldOK /\ RanksOK /\ ObjectsOK /\ \A s \in Ranks : Bounds(s)
      /\ opt.dsetCount \in Nat \ {0} /\ opt.num \in Nat \ {0}
      /\ opt.precreate \in Nat /\ opt.start \in Nat
      /\ f[r] \in 0 .. opt.num /\ totalNum[r] \in 0 .. opt.num
      /\ stonewallIterations[r] \in 0 .. opt.num
      /\ d[r] \in DataSets /\ index[r] \in Nat /\ err[r] \in Nat
      /\ todo[r] \in Seq(Phases) /\ position \in Nat
      /\ 0 \in 0 .. opt.num /\ opt.num \in 0 .. opt.num /\ 0 \in DataSets
  BY StepTypes
<1>2. opt' = opt /\ DataSets' = DataSets /\ calls' \in [Ranks -> Seq(Kinds)]
  BY <1>1 DEF Remove, RanksOK, DataSets
<1>3. WorldOK'
  BY <1>1 DEF Remove, WorldOK, DataSets, disk
<1>4. ObjectsOK'
  BY <1>1, ObjectsKept DEF Remove
<1>5. RanksOK'
  BY <1>1, <1>2 DEF Remove, RanksOK, Go, PCs, round, agreed
<1>6. \A s \in Ranks : Bounds(s)'
  BY <1>1 DEF Remove, RanksOK, Bounds, Stepping, Outside, Go,
                 round, agreed
<1> QED
  BY <1>3, <1>4, <1>5, <1>6, PartsNext

\* An object more.
LEMMA CreateTypes ==
    ASSUME IInv, NEW r \in Ranks, Create(r)
    PROVE  IInv'
<1>1. /\ WorldOK /\ RanksOK /\ ObjectsOK /\ \A s \in Ranks : Bounds(s)
      /\ opt.dsetCount \in Nat \ {0} /\ opt.num \in Nat \ {0}
      /\ opt.precreate \in Nat /\ opt.start \in Nat
      /\ f[r] \in 0 .. opt.num /\ totalNum[r] \in 0 .. opt.num
      /\ stonewallIterations[r] \in 0 .. opt.num
      /\ d[r] \in DataSets /\ index[r] \in Nat /\ err[r] \in Nat
      /\ todo[r] \in Seq(Phases) /\ position \in Nat
      /\ 0 \in 0 .. opt.num /\ opt.num \in 0 .. opt.num /\ 0 \in DataSets
  BY StepTypes
<1>2. opt' = opt /\ DataSets' = DataSets /\ calls' \in [Ranks -> Seq(Kinds)]
  BY <1>1 DEF Create, RanksOK, DataSets
<1>3. WorldOK'
  BY <1>1 DEF Create, WorldOK, DataSets, disk
<1>4. ObjectsOK'
  BY <1>1, NameTypes, ObjectsKept DEF Create
<1>5. RanksOK'
  BY <1>1, <1>2 DEF Create, RanksOK, Go, PCs, round, agreed
<1>6. \A s \in Ranks : Bounds(s)'
  BY <1>1 DEF Create, RanksOK, Bounds, Stepping, Outside, Go,
                 round, agreed
<1> QED
  BY <1>3, <1>4, <1>5, <1>6, PartsNext

\* It is given its data.
LEMMA WriteTypes ==
    ASSUME IInv, NEW r \in Ranks, Write(r)
    PROVE  IInv'
<1>1. /\ WorldOK /\ RanksOK /\ ObjectsOK /\ \A s \in Ranks : Bounds(s)
      /\ opt.dsetCount \in Nat \ {0} /\ opt.num \in Nat \ {0}
      /\ opt.precreate \in Nat /\ opt.start \in Nat
      /\ f[r] \in 0 .. opt.num /\ totalNum[r] \in 0 .. opt.num
      /\ stonewallIterations[r] \in 0 .. opt.num
      /\ d[r] \in DataSets /\ index[r] \in Nat /\ err[r] \in Nat
      /\ todo[r] \in Seq(Phases) /\ position \in Nat
      /\ 0 \in 0 .. opt.num /\ opt.num \in 0 .. opt.num /\ 0 \in DataSets
  BY StepTypes
<1>2. opt' = opt /\ DataSets' = DataSets /\ calls' \in [Ranks -> Seq(Kinds)]
  BY <1>1 DEF Write, RanksOK, DataSets
<1>3. WorldOK'
  BY <1>1 DEF Write, WorldOK, DataSets, disk
<1>4. ObjectsOK'
  BY <1>1, NameTypes, ObjectsKept DEF Write
<1>7. /\ d' \in [Ranks -> DataSets]
      /\ \E where \in {"stat", "timer"} : pc' = [pc EXCEPT ![r] = where]
  BY <1>1, NextDataSetTypes DEF Write
<1>5. RanksOK'
  BY <1>1, <1>2, <1>7 DEF Write, RanksOK, Go, PCs, round, agreed
<1>6. \A s \in Ranks : Bounds(s)'
  BY <1>1, <1>7 DEF Write, RanksOK, Bounds, Stepping, Outside, Go,
                 round, agreed
<1> QED
  BY <1>3, <1>4, <1>5, <1>6, PartsNext

\* The next step is one of the round, or the loop ends.
LEMMA GoOnTypes ==
    ASSUME IInv, NEW r \in Ranks, GoOn(r)
    PROVE  IInv'
<1>1. /\ WorldOK /\ RanksOK /\ ObjectsOK /\ \A s \in Ranks : Bounds(s)
      /\ opt.dsetCount \in Nat \ {0} /\ opt.num \in Nat \ {0}
      /\ opt.precreate \in Nat /\ opt.start \in Nat
      /\ f[r] \in 0 .. opt.num /\ totalNum[r] \in 0 .. opt.num
      /\ stonewallIterations[r] \in 0 .. opt.num
      /\ d[r] \in DataSets /\ index[r] \in Nat /\ err[r] \in Nat
      /\ todo[r] \in Seq(Phases) /\ position \in Nat
      /\ 0 \in 0 .. opt.num /\ opt.num \in 0 .. opt.num /\ 0 \in DataSets
  BY StepTypes
<1>2. opt' = opt /\ DataSets' = DataSets /\ calls' \in [Ranks -> Seq(Kinds)]
  BY <1>1 DEF GoOn, RanksOK, DataSets
<1>3. WorldOK'
  BY <1>1 DEF GoOn, WorldOK, DataSets, disk
<1>4. ObjectsOK'
  BY <1>1, ObjectsKept DEF GoOn, disk
<1>7. f[r] + 1 \in 0 .. opt.num
  BY <1>1 DEF GoOn, Bounds, Stepping
<1>5. RanksOK'
  BY <1>1, <1>2, <1>7 DEF GoOn, More, RanksOK, Go, PCs, round, agreed
<1>6. \A s \in Ranks : Bounds(s)'
  BY <1>1, <1>7 DEF GoOn, More, RanksOK, Bounds, Stepping, Outside, Go,
                 round, agreed
<1> QED
  BY <1>3, <1>4, <1>5, <1>6, PartsNext

\* The loop is left with what has been done.
LEMMA BreakOffTypes ==
    ASSUME IInv, NEW r \in Ranks, BreakOff(r)
    PROVE  IInv'
<1>1. /\ WorldOK /\ RanksOK /\ ObjectsOK /\ \A s \in Ranks : Bounds(s)
      /\ opt.dsetCount \in Nat \ {0} /\ opt.num \in Nat \ {0}
      /\ opt.precreate \in Nat /\ opt.start \in Nat
      /\ f[r] \in 0 .. opt.num /\ totalNum[r] \in 0 .. opt.num
      /\ stonewallIterations[r] \in 0 .. opt.num
      /\ d[r] \in DataSets /\ index[r] \in Nat /\ err[r] \in Nat
      /\ todo[r] \in Seq(Phases) /\ position \in Nat
      /\ 0 \in 0 .. opt.num /\ opt.num \in 0 .. opt.num /\ 0 \in DataSets
  BY StepTypes
<1>2. opt' = opt /\ DataSets' = DataSets /\ calls' \in [Ranks -> Seq(Kinds)]
  BY <1>1 DEF BreakOff, RanksOK, DataSets
<1>3. WorldOK'
  BY <1>1 DEF BreakOff, WorldOK, DataSets, disk
<1>4. ObjectsOK'
  BY <1>1, ObjectsKept DEF BreakOff, disk
<1>5. RanksOK'
  BY <1>1, <1>2 DEF BreakOff, RanksOK, Go, PCs, round, agreed
<1>6. \A s \in Ranks : Bounds(s)'
  BY <1>1 DEF BreakOff, RanksOK, Bounds, Stepping, Outside, Go,
                 round, agreed
<1> QED
  BY <1>3, <1>4, <1>5, <1>6, PartsNext

\* The step just done is one of the round.
LEMMA WearOutTypes ==
    ASSUME IInv, NEW r \in Ranks, WearOut(r)
    PROVE  IInv'
<1>1. /\ WorldOK /\ RanksOK /\ ObjectsOK /\ \A s \in Ranks : Bounds(s)
      /\ opt.dsetCount \in Nat \ {0} /\ opt.num \in Nat \ {0}
      /\ opt.precreate \in Nat /\ opt.start \in Nat
      /\ f[r] \in 0 .. opt.num /\ totalNum[r] \in 0 .. opt.num
      /\ stonewallIterations[r] \in 0 .. opt.num
      /\ d[r] \in DataSets /\ index[r] \in Nat /\ err[r] \in Nat
      /\ todo[r] \in Seq(Phases) /\ position \in Nat
      /\ 0 \in 0 .. opt.num /\ opt.num \in 0 .. opt.num /\ 0 \in DataSets
  BY StepTypes
<1>2. opt' = opt /\ DataSets' = DataSets /\ calls' \in [Ranks -> Seq(Kinds)]
  BY <1>1, EnterType DEF WearOut, DataSets
<1>3. WorldOK'
  BY <1>1 DEF WearOut, WorldOK, DataSets, disk
<1>4. ObjectsOK'
  BY <1>1, ObjectsKept DEF WearOut, disk
<1>7. CurPos(r) \in 0 .. opt.num /\ f[r] < opt.num
  BY <1>1 DEF WearOut, Bounds, Stepping, CurPos
<1>5. RanksOK'
  BY <1>1, <1>2, <1>7 DEF WearOut, CurPos, RanksOK, Go, PCs, round, agreed
<1>6. \A s \in Ranks : Bounds(s)'
  BY <1>1, <1>7 DEF WearOut, CurPos, RanksOK, Bounds, Stepping, Outside, Go,
                 round, agreed
<1> QED
  BY <1>3, <1>4, <1>5, <1>6, PartsNext

\* What the ranks agree on is not more than any may do.
LEMMA WearOutAgreedTypes ==
    ASSUME IInv, NEW r \in Ranks, WearOutAgreed(r)
    PROVE  IInv'
<1>1. /\ WorldOK /\ RanksOK /\ ObjectsOK /\ \A s \in Ranks : Bounds(s)
      /\ opt.dsetCount \in Nat \ {0} /\ opt.num \in Nat \ {0}
      /\ opt.precreate \in Nat /\ opt.start \in Nat
      /\ f[r] \in 0 .. opt.num /\ totalNum[r] \in 0 .. opt.num
      /\ stonewallIterations[r] \in 0 .. opt.num
      /\ d[r] \in DataSets /\ index[r] \in Nat /\ err[r] \in Nat
      /\ todo[r] \in Seq(Phases) /\ position \in Nat
      /\ 0 \in 0 .. opt.num /\ opt.num \in 0 .. opt.num /\ 0 \in DataSets
  BY StepTypes
<1>2. opt' = opt /\ DataSets' = DataSets /\ calls' \in [Ranks -> Seq(Kinds)]
  BY <1>1 DEF WearOutAgreed, RanksOK, DataSets
<1>3. WorldOK'
  BY <1>1 DEF WearOutAgreed, WorldOK, DataSets, disk
<1>4. ObjectsOK'
  BY <1>1, ObjectsKept DEF WearOutAgreed, disk
<1>7. f[r] + 1 \in 0 .. opt.num
  <2>1. pc[r] = "wearWait"
    BY DEF WearOutAgreed
  <2>2. f[r] < opt.num
    BY <1>1, <2>1 DEF Bounds
  <2> QED
    BY <1>1, <2>2
<1>8. PICK n \in 0 .. opt.num :
        /\ totalNum' = [totalNum EXCEPT ![r] = n]
        /\ stonewallIterations' = [stonewallIterations EXCEPT ![r] = n]
        /\ \/ pc' = [pc EXCEPT ![r] = "loopEnd"] /\ f' \in {f, [f EXCEPT ![r] = f[r] + 1]}
           \/ /\ pc' = [pc EXCEPT ![r] = "stat"] /\ f' = [f EXCEPT ![r] = f[r] + 1]
              /\ f[r] + 1 < n
  BY <1>1 DEF WearOutAgreed, More, Go, RanksOK
<1>9. pc[r] = "wearWait" /\ UNCHANGED <<todo, index, d, armed, sent, err>>
  BY DEF WearOutAgreed
<1>5. RanksOK'
  <2>1. pc' \in [Ranks -> PCs]
    BY <1>1, <1>8 DEF RanksOK, PCs
  <2>2. f' \in [Ranks -> 0 .. opt.num]
    BY <1>1, <1>7, <1>8 DEF RanksOK
  <2> QED
    BY <1>1, <1>2, <1>8, <1>9, <2>1, <2>2 DEF RanksOK
<1>6. \A s \in Ranks : Bounds(s)'
  BY <1>1, <1>2, <1>7, <1>8, <1>9 DEF RanksOK, Bounds, Stepping, Outside
<1> QED
  BY <1>3, <1>4, <1>5, <1>6, PartsNext

\* What a rank sends was agreed on or is its own.
LEMMA LeaveLoopTypes ==
    ASSUME IInv, NEW r \in Ranks, LeaveLoop(r)
    PROVE  IInv'
<1>1. /\ WorldOK /\ RanksOK /\ ObjectsOK /\ \A s \in Ranks : Bounds(s)
      /\ opt.dsetCount \in Nat \ {0} /\ opt.num \in Nat \ {0}
      /\ opt.precreate \in Nat /\ opt.start \in Nat
      /\ f[r] \in 0 .. opt.num /\ totalNum[r] \in 0 .. opt.num
      /\ stonewallIterations[r] \in 0 .. opt.num
      /\ d[r] \in DataSets /\ index[r] \in Nat /\ err[r] \in Nat
      /\ todo[r] \in Seq(Phases) /\ position \in Nat
      /\ 0 \in 0 .. opt.num /\ opt.num \in 0 .. opt.num /\ 0 \in DataSets
  BY StepTypes
<1>2. opt' = opt /\ DataSets' = DataSets /\ calls' \in [Ranks -> Seq(Kinds)]
  BY <1>1, EnterType DEF LeaveLoop, DataSets
<1>3. WorldOK'
  BY <1>1 DEF LeaveLoop, WorldOK, DataSets, disk
<1>4. ObjectsOK'
  BY <1>1, ObjectsKept DEF LeaveLoop, disk
<1>5. RanksOK'
  BY <1>1, <1>2 DEF LeaveLoop, RanksOK, Go, PCs, round, agreed
<1>6. \A s \in Ranks : Bounds(s)'
  BY <1>1 DEF LeaveLoop, RanksOK, Bounds, Stepping, Outside, Go,
                 round, agreed
<1> QED
  BY <1>3, <1>4, <1>5, <1>6, PartsNext

\* The same for what it receives.
LEMMA LeaveLoopAgreedTypes ==
    ASSUME IInv, NEW r \in Ranks, LeaveLoopAgreed(r)
    PROVE  IInv'
<1>1. /\ WorldOK /\ RanksOK /\ ObjectsOK /\ \A s \in Ranks : Bounds(s)
      /\ opt.dsetCount \in Nat \ {0} /\ opt.num \in Nat \ {0}
      /\ opt.precreate \in Nat /\ opt.start \in Nat
      /\ f[r] \in 0 .. opt.num /\ totalNum[r] \in 0 .. opt.num
      /\ stonewallIterations[r] \in 0 .. opt.num
      /\ d[r] \in DataSets /\ index[r] \in Nat /\ err[r] \in Nat
      /\ todo[r] \in Seq(Phases) /\ position \in Nat
      /\ 0 \in 0 .. opt.num /\ opt.num \in 0 .. opt.num /\ 0 \in DataSets
  BY StepTypes
<1>2. opt' = opt /\ DataSets' = DataSets /\ calls' \in [Ranks -> Seq(Kinds)]
  BY <1>1 DEF LeaveLoopAgreed, RanksOK, DataSets
<1>3. WorldOK'
  BY <1>1 DEF LeaveLoopAgreed, WorldOK, DataSets, disk
<1>4. ObjectsOK'
  BY <1>1, ObjectsKept DEF LeaveLoopAgreed, disk
<1>5. RanksOK'
  BY <1>1, <1>2 DEF LeaveLoopAgreed, Largest, RanksOK, Go, PCs, round, agreed
<1>6. \A s \in Ranks : Bounds(s)'
  BY <1>1 DEF LeaveLoopAgreed, Largest, RanksOK, Bounds, Stepping, Outside, Go,
                 round, agreed
<1> QED
  BY <1>3, <1>4, <1>5, <1>6, PartsNext

\* Objects and data sets go.
LEMMA CleanupTypes ==
    ASSUME IInv, NEW r \in Ranks, Cleanup(r)
    PROVE  IInv'
<1>1. /\ WorldOK /\ RanksOK /\ ObjectsOK /\ \A s \in Ranks : Bounds(s)
      /\ opt.dsetCount \in Nat \ {0} /\ opt.num \in Nat \ {0}
      /\ opt.precreate \in Nat /\ opt.start \in Nat
      /\ f[r] \in 0 .. opt.num /\ totalNum[r] \in 0 .. opt.num
      /\ stonewallIterations[r] \in 0 .. opt.num
      /\ d[r] \in DataSets /\ index[r] \in Nat /\ err[r] \in Nat
      /\ todo[r] \in Seq(Phases) /\ position \in Nat
      /\ 0 \in 0 .. opt.num /\ opt.num \in 0 .. opt.num /\ 0 \in DataSets
  BY StepTypes
<1>2. opt' = opt /\ DataSets' = DataSets /\ calls' \in [Ranks -> Seq(Kinds)]
  BY <1>1 DEF Cleanup, RanksOK, DataSets
<1>3. WorldOK'
  BY <1>1 DEF Cleanup, WorldOK, DataSets
<1>4. ObjectsOK'
  BY <1>1, ObjectsKept DEF Cleanup
<1>5. RanksOK'
  BY <1>1, <1>2 DEF Cleanup, RanksOK, Go, PCs, round, agreed
<1>6. \A s \in Ranks : Bounds(s)'
  BY <1>1 DEF Cleanup, RanksOK, Bounds, Stepping, Outside, Go,
                 round, agreed
<1> QED
  BY <1>3, <1>4, <1>5, <1>6, PartsNext

\* The place moves on.
LEMMA EndPhaseTypes ==
    ASSUME IInv, NEW r \in Ranks, EndPhase(r)
    PROVE  IInv'
<1>1. /\ WorldOK /\ RanksOK /\ ObjectsOK /\ \A s \in Ranks : Bounds(s)
      /\ opt.dsetCount \in Nat \ {0} /\ opt.num \in Nat \ {0}
      /\ opt.precreate \in Nat /\ opt.start \in Nat
      /\ f[r] \in 0 .. opt.num /\ totalNum[r] \in 0 .. opt.num
      /\ stonewallIterations[r] \in 0 .. opt.num
      /\ d[r] \in DataSets /\ index[r] \in Nat /\ err[r] \in Nat
      /\ todo[r] \in Seq(Phases) /\ position \in Nat
      /\ 0 \in 0 .. opt.num /\ opt.num \in 0 .. opt.num /\ 0 \in DataSets
  BY StepTypes
<1>2. opt' = opt /\ DataSets' = DataSets /\ calls' \in [Ranks -> Seq(Kinds)]
  BY <1>1, EnterType DEF EndPhase, DataSets
<1>3. WorldOK'
  BY <1>1 DEF EndPhase, WorldOK, DataSets, disk
<1>4. ObjectsOK'
  BY <1>1, ObjectsKept DEF EndPhase, disk
<1>7. index[r] + f[r] \in Nat
  BY <1>1
<1>5. RanksOK'
  BY <1>1, <1>2, <1>7 DEF EndPhase, RanksOK, Go, PCs, round, agreed
<1>6. \A s \in Ranks : Bounds(s)'
  BY <1>1, <1>7 DEF EndPhase, RanksOK, Bounds, Stepping, Outside, Go,
                 round, agreed
<1> QED
  BY <1>3, <1>4, <1>5, <1>6, PartsNext

\* Statistics are reduced.
LEMMA ReportTypes ==
    ASSUME IInv, NEW r \in Ranks, Report(r)
    PROVE  IInv'
<1>1. /\ WorldOK /\ RanksOK /\ ObjectsOK /\ \A s \in Ranks : Bounds(s)
      /\ opt.dsetCount \in Nat \ {0} /\ opt.num \in Nat \ {0}
      /\ opt.precreate \in Nat /\ opt.start \in Nat
      /\ f[r] \in 0 .. opt.num /\ totalNum[r] \in 0 .. opt.num
      /\ stonewallIterations[r] \in 0 .. opt.num
      /\ d[r] \in DataSets /\ index[r] \in Nat /\ err[r] \in Nat
      /\ todo[r] \in Seq(Phases) /\ position \in Nat
      /\ 0 \in 0 .. opt.num /\ opt.num \in 0 .. opt.num /\ 0 \in DataSets
  BY StepTypes
<1>2. opt' = opt /\ DataSets' = DataSets /\ calls' \in [Ranks -> Seq(Kinds)]
  BY <1>1, EnterType DEF Report, DataSets
<1>3. WorldOK'
  BY <1>1 DEF Report, WorldOK, DataSets, disk
<1>4. ObjectsOK'
  BY <1>1, ObjectsKept DEF Report, disk
<1>5. RanksOK'
  BY <1>1, <1>2 DEF Report, RanksOK, Go, PCs, round, agreed
<1>6. \A s \in Ranks : Bounds(s)'
  BY <1>1 DEF Report, RanksOK, Bounds, Stepping, Outside, Go,
                 round, agreed
<1> QED
  BY <1>3, <1>4, <1>5, <1>6, PartsNext

\* The phase is taken off those to do.
LEMMA ReportedTypes ==
    ASSUME IInv, NEW r \in Ranks, Reported(r)
    PROVE  IInv'
<1>1. /\ WorldOK /\ RanksOK /\ ObjectsOK /\ \A s \in Ranks : Bounds(s)
      /\ opt.dsetCount \in Nat \ {0} /\ opt.num \in Nat \ {0}
      /\ opt.precreate \in Nat /\ opt.start \in Nat
      /\ f[r] \in 0 .. opt.num /\ totalNum[r] \in 0 .. opt.num
      /\ stonewallIterations[r] \in 0 .. opt.num
      /\ d[r] \in DataSets /\ index[r] \in Nat /\ err[r] \in Nat
      /\ todo[r] \in Seq(Phases) /\ position \in Nat
      /\ 0 \in 0 .. opt.num /\ opt.num \in 0 .. opt.num /\ 0 \in DataSets
  BY StepTypes
<1>2. opt' = opt /\ DataSets' = DataSets /\ calls' \in [Ranks -> Seq(Kinds)]
  BY <1>1 DEF Reported, RanksOK, DataSets
<1>3. WorldOK'
  BY <1>1 DEF Reported, WorldOK, DataSets, disk
<1>4. ObjectsOK'
  BY <1>1, ObjectsKept DEF Reported, disk
<1>7. Tail(todo[r]) \in Seq(Phases)
  BY <1>1 DEF Reported, Bounds, Outside
<1>5. RanksOK'
  BY <1>1, <1>2, <1>7 DEF Reported, RanksOK, Go, PCs, round, agreed
<1>6. \A s \in Ranks : Bounds(s)'
  BY <1>1, <1>7 DEF Reported, RanksOK, Bounds, Stepping, Outside, Go,
                 round, agreed
<1> QED
  BY <1>3, <1>4, <1>5, <1>6, PartsNext

\* The position is stored.
LEMMA StorePositionTypes ==
    ASSUME IInv, NEW r \in Ranks, StorePosition(r)
    PROVE  IInv'
<1>1. /\ WorldOK /\ RanksOK /\ ObjectsOK /\ \A s \in Ranks : Bounds(s)
      /\ opt.dsetCount \in Nat \ {0} /\ opt.num \in Nat \ {0}
      /\ opt.precreate \in Nat /\ opt.start \in Nat
      /\ f[r] \in 0 .. opt.num /\ totalNum[r] \in 0 .. opt.num
      /\ stonewallIterations[r] \in 0 .. opt.num
      /\ d[r] \in DataSets /\ index[r] \in Nat /\ err[r] \in Nat
      /\ todo[r] \in Seq(Phases) /\ position \in Nat
      /\ 0 \in 0 .. opt.num /\ opt.num \in 0 .. opt.num /\ 0 \in DataSets
  BY StepTypes
<1>2. opt' = opt /\ DataSets' = DataSets /\ calls' \in [Ranks -> Seq(Kinds)]
  BY <1>1 DEF StorePosition, RanksOK, DataSets
<1>3. WorldOK'
  BY <1>1 DEF StorePosition, WorldOK, DataSets
<1>4. ObjectsOK'
  BY <1>1, ObjectsKept DEF StorePosition, disk
<1>5. RanksOK'
  BY <1>1, <1>2 DEF StorePosition, RanksOK, Go, PCs, round, agreed
<1>6. \A s \in Ranks : Bounds(s)'
  BY <1>1 DEF StorePosition, RanksOK, Bounds, Stepping, Outside, Go,
                 round, agreed
<1> QED
  BY <1>3, <1>4, <1>5, <1>6, PartsNext


\* The precreation makes the objects of a rank.
LEMMA PrecreateTypes ==
    ASSUME IInv, NEW r \in Ranks, Precreate(r)
    PROVE  IInv'
<1>1. /\ WorldOK /\ RanksOK /\ ObjectsOK /\ \A s \in Ranks : Bounds(s)
      /\ opt.dsetCount \in Nat \ {0}
  BY StepTypes
<1>2. opt' = opt /\ DataSets' = DataSets /\ calls' \in [Ranks -> Seq(Kinds)]
  BY <1>1 DEF Precreate, RanksOK, DataSets
<1>3. WorldOK'
  <2>1. {r} \X DataSets \subseteq Ranks \X DataSets
    OBVIOUS
  <2>2. dsets' = dsets \cup ({r} \X DataSets) /\ UNCHANGED <<opt, execution, position>>
    BY DEF Precreate
  <2> QED
    BY <1>1, <1>2, <2>1, <2>2 DEF WorldOK
<1>4. ObjectsOK'
  BY <1>1, PrecreateObjects
<1>5. RanksOK'
  BY <1>1, <1>2 DEF Precreate, RanksOK, Go, PCs, round, agreed
<1>6. \A s \in Ranks : Bounds(s)'
  BY <1>1 DEF Precreate, RanksOK, Bounds, Stepping, Outside, Go,
                 round, agreed
<1> QED
  BY <1>3, <1>4, <1>5, <1>6, PartsNext

\* The next execution has its phases to do, the ranks begin anew.
LEMMA NextExecutionTypes ==
    ASSUME IInv, NextExecution
    PROVE  IInv'
<1>1. WorldOK /\ RanksOK /\ ObjectsOK /\ \A s \in Ranks : Bounds(s)
  BY Parts DEF IInv
<1>2. /\ opt.executions \in Seq(Seq(Phases)) /\ execution \in 1 .. Len(opt.executions)
      /\ execution < Len(opt.executions)
  BY <1>1, OptionTypes DEF WorldOK, NextExecution
<1>3. execution + 1 \in 1 .. Len(opt.executions)
  BY <1>2
<1>4. opt.executions[execution + 1] \in Seq(Phases) /\ << >> \in Seq(Kinds)
  BY <1>2, <1>3
<1>5. /\ execution' = execution + 1 /\ pc' = [r \in Ranks |-> "begin"]
      /\ todo' = [r \in Ranks |-> opt.executions[execution + 1]]
      /\ calls' = [r \in Ranks |-> << >>]
      /\ UNCHANGED <<opt, position, dsets, objects, index, f, d, totalNum, armed, sent,
                     stonewallIterations, err>>
  BY DEF NextExecution, disk, round, agreed
<1>6. DataSets' = DataSets
  BY <1>5 DEF DataSets
<1>7. WorldOK'
  BY <1>1, <1>2, <1>3, <1>5, <1>6 DEF WorldOK
<1>8. RanksOK'
  BY <1>1, <1>4, <1>5, <1>6 DEF RanksOK, PCs
<1>9. ObjectsOK'
  BY <1>1, <1>5, ObjectsKept
<1>10. \A s \in Ranks : Bounds(s)'
  BY <1>5 DEF Bounds, Stepping, Outside
<1> QED
  BY <1>7, <1>8, <1>9, <1>10, PartsNext

\* Nothing has been done to begin with.
LEMMA InitTypes == Init => IInv
<1> SUFFICES ASSUME Init PROVE IInv
  OBVIOUS
<1>1. /\ opt \in Options /\ opt.dsetCount \in Nat \ {0} /\ opt.num \in Nat \ {0}
      /\ opt.executions \in Seq(Seq(Phases)) /\ opt.executions # << >>
  BY OptionTypes DEF Init
<1>2. 1 \in 1 .. Len(opt.executions) /\ opt.executions[1] \in Seq(Phases) /\ << >> \in Seq(Kinds)
  BY <1>1
<1>3. WorldOK
  BY <1>1, <1>2 DEF Init, WorldOK
<1>4. 0 \in 0 .. opt.num /\ 0 \in DataSets
  BY <1>1 DEF DataSets
<1>5. RanksOK
  BY <1>2, <1>4 DEF Init, RanksOK, PCs
<1>6. ObjectsOK
  BY DEF Init, ObjectsOK
<1>7. \A r \in Ranks : Bounds(r)
  BY DEF Init, Bounds, Stepping, Outside
<1> QED
  BY <1>3, <1>5, <1>6, <1>7, Parts DEF IInv

\* Every step of a rank is one of these.
LEMMA NextTypes == IInv /\ [Next]_vars => IInv'
<1> SUFFICES ASSUME IInv, [Next]_vars PROVE IInv'
  OBVIOUS
<1>1. CASE UNCHANGED vars
  BY <1>1 DEF vars, IInv, TypeOK, DataSets, Bounds
<1>2. CASE NextExecution
  BY <1>2, NextExecutionTypes
<1>3. ASSUME NEW r \in Ranks, RankStep(r) PROVE IInv'
  <2>1. CASE \/ ReturnPosition(r) \/ PositionKnown(r) \/ StartPhase(r) \/ PhaseStarted(r)
             \/ Precreate(r)
    BY <2>1, ReturnPositionTypes, PositionKnownTypes, StartPhaseTypes, PhaseStartedTypes,
       PrecreateTypes
  <2>2. CASE Stat(r) \/ Read(r) \/ Remove(r) \/ Create(r) \/ Write(r)
    BY <2>2, StatTypes, ReadTypes, RemoveTypes, CreateTypes, WriteTypes
  <2>3. CASE \/ GoOn(r) \/ BreakOff(r) \/ WearOut(r) \/ WearOutAgreed(r)
             \/ LeaveLoop(r) \/ LeaveLoopAgreed(r)
    BY <2>3, GoOnTypes, BreakOffTypes, WearOutTypes, WearOutAgreedTypes, LeaveLoopTypes,
       LeaveLoopAgreedTypes
  <2>4. CASE \/ Cleanup(r) \/ EndPhase(r) \/ Report(r) \/ Reported(r) \/ StorePosition(r)
    BY <2>4, CleanupTypes, EndPhaseTypes, ReportTypes, ReportedTypes, StorePositionTypes
  <2> QED
    BY <1>3, <2>1, <2>2, <2>3, <2>4 DEF RankStep
<1> QED
  BY <1>1, <1>2, <1>3 DEF Next

\* Whatever the options and however the ranks are interleaved, every round
\* stays within the steps -P asks for, the wear-out included, and objects
\* have the names and contents of some rank, data set and index.
THEOREM TypeCorrect == Spec => []TypeOK
<1>1. IInv => TypeOK
  BY DEF IInv
<1> QED
  BY <1>1, InitTypes, NextTypes, PTL DEF Spec

----------------------------------------------------------------------------
(***************************************************************************)
(* The queue of md-workbench is first in, first out for every number of    *)
(* ranks: no rank finds the object of a step missing or with other data,   *)
(* between two phases every data set is the precreated number of objects,  *)
(* and a cleanup leaves nothing.  First that the ranks keep together, for  *)
(* which the number of collectives each has entered is enough, then that   *)
(* they begin every phase at the same index, then the queue itself.        *)
(***************************************************************************)

(***************************************************************************)
(* The options the theorems are about: every round finds objects of the    *)
(* round before, a round ends at the same step for all, and the queue      *)
(* begins with the first object.                                           *)
(***************************************************************************)
Plain(o) == o.start = 0 /\ o.num <= o.precreate /\ (o.stonewall => o.wearOut)

Closed == {"ended", "endWait", "report"}
InRound == Stepping \cup {"wearWait", "loopEnd", "agreeWait"}
Arriving == {"begin", "positionWait"}

----------------------------------------------------------------------------
(***************************************************************************)
(* Where a rank is, in numbers: the phases it has done, the collectives it *)
(* has entered in the current one, and the last of these it has left again *)
(* that waits for all ranks.                                               *)
(***************************************************************************)
Phase(r) == IF todo[r] = << >> THEN "none" ELSE Head(todo[r])
Done(r) == Len(Executed) - Len(todo[r])

\* The broadcast before the first phase.
Opening == IF Executed[1] = "precreate" THEN 0 ELSE 1

InLoop(r) == IF opt.stonewall /\ ~armed[r] THEN 2 ELSE 1
Before(r) == IF Phase(r) = "benchmark" THEN (IF opt.stonewall THEN 2 ELSE 1)
             ELSE IF Phase(r) = "precreate" THEN 1 ELSE 0
Repeats(r) == IF stonewallIterations[r] # 0 THEN 1 ELSE 0

Stage(r) ==
    IF pc[r] = "begin" THEN -Opening
    ELSE IF pc[r] \in {"startWait", "precreate"} THEN 1
    ELSE IF pc[r] \in Stepping \cup {"loopEnd"} THEN InLoop(r)
    ELSE IF pc[r] \in {"wearWait", "agreeWait"} THEN 2
    ELSE IF pc[r] = "ended" THEN Before(r)
    ELSE IF pc[r] = "endWait" THEN Before(r) + 1
    ELSE IF pc[r] = "report" THEN Before(r) + 2 + Repeats(r)
    ELSE 0

Left(r) ==
    IF pc[r] \in {"precreate", "wearWait", "agreeWait"} THEN 1
    ELSE IF pc[r] \in Stepping \cup {"loopEnd"} THEN InLoop(r)
    ELSE IF pc[r] \in {"ended", "endWait"} /\ Phase(r) # "cleanup" THEN Before(r)
    ELSE IF pc[r] = "report" THEN Before(r) + 1
    ELSE -1

\* What a rank had entered when the phase began.
Base(r) == Len(calls[r]) - Stage(r)

\* No rank is more than one phase ahead, and none has left a collective
\* that another has not entered.
Near(r, s) ==
    /\ Done(s) <= Done(r) + 1
    /\ Done(s) = Done(r) => Base(s) = Base(r) /\ Left(s) <= Stage(r)
    /\ Done(s) = Done(r) + 1 =>
          /\ pc[r] \in {"endWait", "report"}
          /\ Base(s) = Base(r) + Before(r) + 2 + Repeats(r)
          /\ Left(s) = -1

----------------------------------------------------------------------------
(***************************************************************************)
(* The phase, the number of steps and the agreement of a rank by where it  *)
(* is.                                                                     *)
(***************************************************************************)
Suffix(r) ==
    /\ Len(todo[r]) <= Len(Executed)
    /\ \A j \in 1 .. Len(todo[r]) : todo[r][j] = Executed[Done(r) + j]

PhaseOK(r) ==
    /\ pc[r] \in Arriving => Done(r) = 0
    /\ pc[r] = "positionWait" => Opening = 1
    /\ pc[r] = "startWait" => Phase(r) \in {"precreate", "benchmark"}
    /\ pc[r] \in {"precreate", "cleanup"} => Phase(r) = pc[r]
    /\ pc[r] \in InRound => Phase(r) = "benchmark"
    /\ pc[r] \in {"wearWait", "agreeWait"} => opt.stonewall
    /\ pc[r] = "end" => todo[r] = << >>

\* The number of steps the rank has been told, or the one it started with.
StepsOK(r) ==
    /\ pc[r] \in InRound /\ (opt.stonewall => armed[r]) => totalNum[r] = opt.num
    /\ pc[r] \in InRound /\ ~opt.stonewall => ~armed[r]
    /\ pc[r] = "wearWait" => ~armed[r] /\ sent[r] = f[r] + 1
    /\ pc[r] \in Stepping \cup {"loopEnd"} /\ opt.stonewall /\ ~armed[r] =>
          totalNum[r] = stonewallIterations[r]
    /\ pc[r] = "agreeWait" => armed[r] /\ sent[r] = opt.num
    /\ pc[r] \in {"loopEnd", "agreeWait"} => f[r] = totalNum[r]
    /\ pc[r] \in Closed /\ Phase(r) = "benchmark" =>
          f[r] = IF opt.stonewall THEN stonewallIterations[r] ELSE opt.num
    /\ pc[r] \notin Outside /\ (Phase(r) = "benchmark" => ~opt.stonewall) =>
          stonewallIterations[r] = 0

Agreed(r) == opt.stonewall /\ Phase(r) = "benchmark" /\ Left(r) >= 2

PlaceInv ==
    \A r \in Ranks : /\ Suffix(r) /\ PhaseOK(r) /\ StepsOK(r)
                     /\ Agreed(r) => Largest(stonewallIterations[r])

NearInv == \A r, s \in Ranks : Near(r, s)

----------------------------------------------------------------------------
(***************************************************************************)
(* The index a phase began at.  Who has yet to be told begins where the    *)
(* execution before has stopped.                                           *)
(***************************************************************************)
Stored == IF Executed[1] = "precreate" THEN 0 ELSE position

At(r) == IF pc[r] \in Arriving THEN Stored ELSE index[r]

\* The steps of a round are in the index already.
Counted(r) == Phase(r) = "benchmark" /\ ~opt.readOnly /\ pc[r] \in {"endWait", "report"}

Origin(r) == IF Counted(r) THEN index[r] - f[r] ELSE At(r)

SameOrigin(r, s) ==
    /\ Done(s) = Done(r) => Origin(s) = Origin(r)
    /\ Done(s) = Done(r) + 1 => Origin(s) = index[r]

OriginInv ==
    /\ \A r, s \in Ranks : SameOrigin(r, s)
    /\ pc[0] = "end" /\ ~CleansUp => position = index[0]
    /\ \A r \in Ranks : Phase(r) = "precreate" => At(r) = 0

----------------------------------------------------------------------------
(***************************************************************************)
(* The queue of a data set: what is behind the rank that takes from its    *)
(* head, and before the rank that makes at its tail.                       *)
(***************************************************************************)
Shift(k) == opt.offset * (k + 1)
Reads(a, o) == o[1] = (a - Shift(o[2])) % NumTasks
Writes(b, o) == o[1] = (b + Shift(o[2])) % NumTasks

\* The steps of this round that are over for data set k, where a rank that
\* is at one of the places is over with the current one.
Over(r, k, places) ==
    IF opt.readOnly \/ pc[r] \notin InRound \cup {"ended"} \/ Phase(r) # "benchmark" THEN 0
    ELSE IF \/ pc[r] \in {"timer", "wearWait"}
            \/ pc[r] \in Stepping /\ (k < d[r] \/ (k = d[r] /\ pc[r] \in places))
         THEN f[r] + 1
    ELSE f[r]

Taken(r, k) == At(r) + Over(r, k, {"create", "write"})
Made(r, k) == At(r) + Over(r, k, {})

\* The rank's objects are there: after the precreation, before the cleanup.
Filled(r) == execution > 1 \/ Done(r) > 0 \/ pc[r] \in Closed
Cleaned(r) == \/ Phase(r) = "cleanup" /\ pc[r] \in Closed
              \/ Phase(r) = "none" /\ CleansUp

Fresh(b, o) ==  \* created by b, but not yet written
    /\ Writes(b, o) /\ pc[b] = "write" /\ d[b] = o[2]
    /\ o[3] = opt.precreate + Made(b, o[2])

Held(o) ==
    /\ o \in Ranks \X DataSets \X Nat
    /\ Filled(o[1]) /\ ~Cleaned(o[1])
    /\ \A a \in Ranks : Reads(a, o) => Taken(a, o[2]) <= o[3]
    /\ \A b \in Ranks : Writes(b, o) => \/ o[3] < opt.precreate + Made(b, o[2])
                                       \/ Fresh(b, o)

Content(o) == IF \E b \in Ranks : Fresh(b, o) THEN Unwritten ELSE Pattern(o[1], o[2], o[3])

QueueInv ==
    /\ objects = [o \in DOMAIN objects |-> objects[o]]
    /\ \A o : o \in DOMAIN objects <=> Held(o)
    /\ \A o \in DOMAIN objects : objects[o] = Content(o)
    /\ \A r \in Ranks : /\ pc[r] \in {"timer", "wearWait"} => d[r] = 0
                        /\ pc[r] \in {"remove", "create", "write"} => ~opt.readOnly

\* The directories of a rank go with its objects.
DirsInv == \A s \in dsets : ~Cleaned(s[1])

QInv == /\ IInv /\ PlaceInv /\ NearInv /\ OriginInv /\ QueueInv /\ DirsInv
        /\ NoErrors

----------------------------------------------------------------------------
AllPlain == \A o \in Options : Plain(o)

\* What the options are, and the phases of an execution.
LEMMA OptionFacts ==
    ASSUME IInv, AllPlain
    PROVE  /\ opt.start = 0 /\ opt.num <= opt.precreate
           /\ opt.stonewall => opt.wearOut
           /\ opt.stonewall \in BOOLEAN /\ opt.wearOut \in BOOLEAN /\ opt.readOnly \in BOOLEAN
           /\ opt.dsetCount \in Nat \ {0} /\ opt.num \in Nat \ {0}
           /\ opt.precreate \in Nat /\ opt.offset \in Nat
           /\ 0 \in Ranks
<1>1. opt \in Options
  BY Parts DEF IInv, WorldOK
<1>2. opt \in OptionRecord /\ ValidOption(opt) /\ Plain(opt)
  BY <1>1, OptionsAssumption DEF AllPlain
<1> QED
  BY <1>2, NumTasksAssumption DEF OptionRecord, Plain, Ranks

\* The phases a rank has before it.
LEMMA PhaseFacts ==
    ASSUME IInv
    PROVE  /\ Executed \in Seq(Phases) /\ Executed # << >> /\ Executed[1] \in Phases
           /\ execution \in 1 .. Len(opt.executions)
           /\ \A n \in DOMAIN Executed : Executed[n] = "precreate" <=> execution = 1 /\ n = 1
           /\ \A n \in DOMAIN Executed : Executed[n] = "cleanup" =>
                 execution = Len(opt.executions) /\ n = Len(Executed)
<1>1. opt \in Options /\ execution \in DOMAIN opt.executions
  BY Parts DEF IInv, WorldOK
<1>2. opt \in OptionRecord /\ ValidOption(opt)
  BY <1>1, OptionsAssumption
<1>3. opt.executions \in Seq(Seq(Phases))
  BY <1>2 DEF OptionRecord
<1>4. Executed \in Seq(Phases) /\ Executed # << >> /\ execution \in 1 .. Len(opt.executions)
  BY <1>1, <1>2, <1>3 DEF Executed, ValidOption
<1> QED
  BY <1>1, <1>2, <1>4 DEF Executed, ValidOption

\* The numbers of a rank.
LEMMA Numbers ==
    ASSUME IInv, NEW r \in Ranks
    PROVE  /\ Len(calls[r]) \in Nat /\ Len(todo[r]) \in Nat /\ Len(Executed) \in Nat
           /\ Done(r) \in Int /\ Base(r) \in Int
           /\ Opening \in 0 .. 1 /\ InLoop(r) \in 1 .. 2 /\ Before(r) \in 0 .. 2
           /\ Repeats(r) \in 0 .. 1 /\ Stage(r) \in -1 .. 5 /\ Left(r) \in -1 .. 3
<1>1. calls[r] \in Seq(Kinds) /\ todo[r] \in Seq(Phases) /\ Executed \in Seq(Phases)
  BY Parts, PhaseFacts DEF IInv, RanksOK
<1>2. Len(calls[r]) \in Nat /\ Len(todo[r]) \in Nat /\ Len(Executed) \in Nat
  BY <1>1
<1>3. /\ Opening \in 0 .. 1 /\ InLoop(r) \in 1 .. 2 /\ Before(r) \in 0 .. 2
      /\ Repeats(r) \in 0 .. 1
  BY DEF Opening, InLoop, Before, Repeats
<1>4. Stage(r) \in -1 .. 5 /\ Left(r) \in -1 .. 3
  BY <1>3 DEF Stage, Left
<1> QED
  BY <1>2, <1>3, <1>4 DEF Done, Base

NumbersOK(r) ==
    /\ Len(calls[r]) \in Nat /\ Base(r) \in Int /\ InLoop(r) \in 1 .. 2
    /\ Before(r) \in 0 .. 2 /\ Repeats(r) \in 0 .. 1
    /\ Stage(r) \in -1 .. 5 /\ Left(r) \in -1 .. 3

AllNumbersOK == \A r \in Ranks : NumbersOK(r)

\* The numbers of all ranks.
LEMMA NumbersAll == IInv => AllNumbersOK
BY Numbers DEF NumbersOK, AllNumbersOK

\* And after a step.
LEMMA NumbersAllNext == IInv' => AllNumbersOK'
BY NumbersAll, PTL

\* The same after a step.
LEMMA NumbersNext ==
    ASSUME IInv', NEW r \in Ranks
    PROVE  /\ Len(calls[r])' \in Nat /\ Base(r)' \in Int
           /\ InLoop(r)' \in 1 .. 2 /\ Before(r)' \in 0 .. 2 /\ Repeats(r)' \in 0 .. 1
           /\ Stage(r)' \in -1 .. 5 /\ Left(r)' \in -1 .. 3
<1>2. NumbersOK(r)'
  BY NumbersAllNext DEF AllNumbersOK
<1> QED
  BY <1>2 DEF NumbersOK

\* A step of a rank is a step of its own state and the world's.
Own(r) ==
    /\ opt' = opt /\ execution' = execution
    /\ \A s \in Ranks \ {r} :
          /\ pc'[s] = pc[s] /\ todo'[s] = todo[s] /\ index'[s] = index[s]
          /\ f'[s] = f[s] /\ d'[s] = d[s] /\ totalNum'[s] = totalNum[s]
          /\ armed'[s] = armed[s] /\ sent'[s] = sent[s] /\ err'[s] = err[s]
          /\ stonewallIterations'[s] = stonewallIterations[s] /\ calls'[s] = calls[s]

\* The steps of a rank are its own.
LEMMA StepsOwn ==
    ASSUME IInv, NEW r \in Ranks, RankStep(r)
    PROVE  Own(r)
<1>1. RanksOK
  BY Parts DEF IInv
<1>2. CASE ReturnPosition(r) \/ PositionKnown(r)
  BY <1>1, <1>2 DEF ReturnPosition, PositionKnown, Own, Go, Enter, round, agreed, RanksOK
<1>8. CASE StartPhase(r) \/ PhaseStarted(r)
  <2>1. CASE StartPhase(r)
    BY <1>1, <2>1 DEF StartPhase, Own, Go, Enter, round, agreed, RanksOK
  <2>2. CASE PhaseStarted(r)
    BY <1>1, <2>2 DEF PhaseStarted, Own, Go, round, agreed, RanksOK
  <2> QED
    BY <1>8, <2>1, <2>2
<1>3. CASE Precreate(r) \/ Remove(r) \/ Create(r)
  BY <1>1, <1>3 DEF Precreate, Remove, Create, Own, Go, round, agreed, RanksOK
<1>4. CASE Stat(r) \/ Read(r) \/ Write(r)
  BY <1>1, <1>4 DEF Stat, Read, Write, NextDataSet, Fails, Own, Go, round, agreed, RanksOK
<1>5. CASE GoOn(r) \/ BreakOff(r) \/ WearOut(r) \/ WearOutAgreed(r)
  BY <1>1, <1>5 DEF GoOn, BreakOff, WearOut, WearOutAgreed, Own, Go, Enter, round, agreed,
     RanksOK
<1>6. CASE LeaveLoop(r) \/ LeaveLoopAgreed(r) \/ Cleanup(r)
  BY <1>1, <1>6 DEF LeaveLoop, LeaveLoopAgreed, Cleanup, Own, Go, Enter, round, agreed,
     RanksOK
<1>7. CASE EndPhase(r) \/ Report(r) \/ Reported(r) \/ StorePosition(r)
  BY <1>1, <1>7 DEF EndPhase, Report, Reported, StorePosition, Own, Go, Enter, round, agreed,
     RanksOK
<1> QED
  BY <1>2, <1>3, <1>4, <1>5, <1>6, <1>7, <1>8 DEF RankStep

\* The others' numbers stay.
LEMMA OthersStay ==
    ASSUME NEW r \in Ranks, Own(r), NEW s \in Ranks \ {r}
    PROVE  /\ Phase(s)' = Phase(s) /\ Done(s)' = Done(s) /\ Before(s)' = Before(s)
           /\ Repeats(s)' = Repeats(s) /\ Stage(s)' = Stage(s) /\ Left(s)' = Left(s)
           /\ Base(s)' = Base(s) /\ Counted(s)' = Counted(s) /\ Filled(s)' = Filled(s)
           /\ Cleaned(s)' = Cleaned(s)
           /\ \A k, places : Over(s, k, places)' = Over(s, k, places)
<1>1. /\ pc'[s] = pc[s] /\ todo'[s] = todo[s] /\ opt' = opt /\ execution' = execution
      /\ f'[s] = f[s] /\ d'[s] = d[s] /\ armed'[s] = armed[s]
      /\ stonewallIterations'[s] = stonewallIterations[s] /\ calls'[s] = calls[s]
  BY DEF Own
<1>2. Executed' = Executed /\ Phase(s)' = Phase(s)
  BY <1>1 DEF Executed, Phase
<1>3. /\ Done(s)' = Done(s) /\ Before(s)' = Before(s) /\ Repeats(s)' = Repeats(s)
      /\ InLoop(s)' = InLoop(s) /\ Opening' = Opening /\ CleansUp' = CleansUp
  BY <1>1, <1>2 DEF Done, Before, Repeats, InLoop, Opening, CleansUp
<1>4. Stage(s)' = Stage(s) /\ Left(s)' = Left(s)
  BY <1>1, <1>2, <1>3 DEF Stage, Left
<1>5. Base(s)' = Base(s) /\ Counted(s)' = Counted(s) /\ Filled(s)' = Filled(s)
  BY <1>1, <1>2, <1>3, <1>4 DEF Base, Counted, Filled
<1>6. Cleaned(s)' = Cleaned(s)
  BY <1>1, <1>2, <1>3 DEF Cleaned
<1>7. \A k, places : Over(s, k, places)' = Over(s, k, places)
  BY <1>1, <1>2 DEF Over
<1> QED
  BY <1>2, <1>3, <1>4, <1>5, <1>6, <1>7

----------------------------------------------------------------------------
\* Who leaves a collective that waits for all knows that they are there.
LEMMA Met ==
    ASSUME IInv, NearInv, NEW r \in Ranks, AllArrived(r), NEW s \in Ranks
    PROVE  /\ Done(s) = Done(r) => Stage(r) <= Stage(s)
           /\ Stage(r) >= 1 => Done(r) <= Done(s)
<1>1. /\ Len(calls[r]) \in Nat /\ Len(calls[s]) \in Nat /\ Done(r) \in Int /\ Done(s) \in Int
      /\ Base(r) \in Int /\ Base(s) \in Int /\ Stage(r) \in -1 .. 5 /\ Stage(s) \in -1 .. 5
      /\ Before(s) \in 0 .. 2 /\ Repeats(s) \in 0 .. 1
  BY Numbers
<1>2. Len(calls[r]) <= Len(calls[s])
  BY <1>1 DEF AllArrived, InSameCall
<1>3. \A q \in {r, s} : Len(calls[q]) = Base(q) + Stage(q)
  <2>1. \A a, b \in Int : a = a - b + b
    OBVIOUS
  <2>2. \A q \in {r, s} : Len(calls[q]) \in Int /\ Stage(q) \in Int
    BY <1>1
  <2> QED
    BY <2>1, <2>2 DEF Base
<1>4. Near(r, s) /\ Near(s, r)
  BY DEF NearInv
<1>5. Done(r) = Done(s) + 1 => Stage(s) <= Before(s) + 2 + Repeats(s)
  <2>1. Done(r) = Done(s) + 1 => pc[s] \in {"endWait", "report"}
    BY <1>4 DEF Near
  <2>2. pc[s] \in {"endWait", "report"} => Stage(s) <= Before(s) + 2 + Repeats(s)
    BY <1>1 DEF Stage, Stepping
  <2> QED
    BY <2>1, <2>2
<1> HIDE DEF Base, Stage, Done, Before, Repeats, Left
<1>6. Done(s) = Done(r) => Stage(r) <= Stage(s)
  <2>1. Done(s) = Done(r) => Base(s) = Base(r)
    BY <1>4 DEF Near
  <2>2. \A b, m, n \in Int : b + m <= b + n => m <= n
    OBVIOUS
  <2>3. Base(r) \in Int /\ Stage(r) \in Int /\ Stage(s) \in Int
    BY <1>1
  <2> QED
    BY <1>2, <1>3, <2>1, <2>2, <2>3
<1>7. Done(r) = Done(s) + 1 => Base(r) = Base(s) + Before(s) + 2 + Repeats(s)
  BY <1>4 DEF Near
<1>8. Stage(r) >= 1 => Done(r) # Done(s) + 1
  <2>1. Len(calls[r]) = Base(r) + Stage(r) /\ Len(calls[s]) = Base(s) + Stage(s)
    BY <1>3
  <2>2. \A a, b, c, k, n, m \in Int :
            a + b <= c + k /\ a = c + n + 2 + m /\ k <= n + 2 + m => ~(b >= 1)
    OBVIOUS
  <2>3. /\ Base(r) \in Int /\ Stage(r) \in Int /\ Base(s) \in Int /\ Stage(s) \in Int
        /\ Before(s) \in Int /\ Repeats(s) \in Int
    BY <1>1
  <2> QED
    BY <1>2, <1>5, <1>7, <2>1, <2>2, <2>3
<1>9. Done(r) <= Done(s) + 1
  BY <1>4 DEF Near
<1> QED
  BY <1>1, <1>6, <1>8, <1>9

\* A step within a phase: a rank enters collectives, or leaves one that all
\* the others have entered.
LEMMA NearKept ==
    ASSUME IInv, IInv', NearInv, NEW r \in Ranks, Own(r),
           Done(r)' = Done(r), Base(r)' = Base(r), Stage(r) <= Stage(r)',
           pc[r] \in {"endWait", "report"} =>
              /\ pc'[r] \in {"endWait", "report"}
              /\ Before(r)' = Before(r) /\ Repeats(r)' = Repeats(r),
           \/ Left(r)' = Left(r)
           \/ \A s \in Ranks : /\ Done(r) <= Done(s)
                               /\ Done(s) = Done(r) => Left(r)' <= Stage(s)
    PROVE  NearInv'
<1> SUFFICES ASSUME NEW p \in Ranks, NEW q \in Ranks PROVE Near(p, q)'
  BY DEF NearInv
<1>1. \A s \in Ranks : /\ Done(s) \in Int /\ Base(s) \in Int /\ Stage(s) \in -1 .. 5
                       /\ Left(s) \in -1 .. 3 /\ Before(s) \in 0 .. 2 /\ Repeats(s) \in 0 .. 1
  BY Numbers
<1>2. Stage(r)' \in -1 .. 5 /\ Left(r)' \in -1 .. 3
  BY NumbersNext
<1>3. \A s \in Ranks \ {r} :
         /\ Done(s)' = Done(s) /\ Before(s)' = Before(s) /\ Repeats(s)' = Repeats(s)
         /\ Stage(s)' = Stage(s) /\ Left(s)' = Left(s) /\ Base(s)' = Base(s)
         /\ pc'[s] = pc[s]
  BY OthersStay DEF Own
<1>4. Near(p, q) /\ Near(q, p) /\ Near(r, r)
  BY DEF NearInv
<1> HIDE DEF Done, Base, Stage, Left, Before, Repeats
<1>5. CASE p # r /\ q # r
  BY <1>3, <1>4, <1>5 DEF Near
<1>6. CASE p = r /\ q # r
  BY <1>1, <1>2, <1>3, <1>4, <1>6 DEF Near
<1>7. CASE p # r /\ q = r
  BY <1>1, <1>2, <1>3, <1>4, <1>7 DEF Near
<1>8. CASE p = r /\ q = r
  BY <1>1, <1>2, <1>4, <1>8 DEF Near
<1> QED
  BY <1>5, <1>6, <1>7, <1>8

\* Within a phase.
LEMMA SamePhase ==
    ASSUME NEW r \in Ranks, Own(r), todo'[r] = todo[r]
    PROVE  /\ Executed' = Executed /\ Phase(r)' = Phase(r) /\ Done(r)' = Done(r)
           /\ Before(r)' = Before(r) /\ Opening' = Opening /\ CleansUp' = CleansUp
           /\ armed'[r] = armed[r] => InLoop(r)' = InLoop(r)
           /\ stonewallIterations'[r] = stonewallIterations[r] => Repeats(r)' = Repeats(r)
<1>1. opt' = opt /\ execution' = execution
  BY DEF Own
<1>2. Executed' = Executed /\ Phase(r)' = Phase(r)
  BY <1>1 DEF Executed, Phase
<1> QED
  BY <1>1, <1>2 DEF Done, Before, Opening, CleansUp, InLoop, Repeats

\* A collective entered is one more.
LEMMA EnterLength ==
    ASSUME IInv, NEW r \in Ranks
    PROVE  /\ \A kind : Enter(r, <<kind>>) => Len(calls'[r]) = Len(calls[r]) + 1
           /\ \A a, b : Enter(r, <<a, b>>) => Len(calls'[r]) = Len(calls[r]) + 2
<1>1. calls \in [Ranks -> Seq(Kinds)] /\ calls[r] \in Seq(Kinds)
  BY DEF IInv, TypeOK
<1> QED
  BY <1>1 DEF Enter

\* The ranks stay together over a step that fits.
LEMMA NearStep ==
    ASSUME IInv, IInv', NearInv, NEW r \in Ranks, Own(r), todo'[r] = todo[r],
           NEW k \in 0 .. 2, Len(calls'[r]) = Len(calls[r]) + k, Stage(r)' = Stage(r) + k,
           pc[r] \in {"endWait", "report"} =>
              /\ pc'[r] \in {"endWait", "report"}
              /\ stonewallIterations'[r] = stonewallIterations[r],
           \/ Left(r)' = Left(r)
           \/ AllArrived(r) /\ 1 <= Stage(r) /\ Left(r)' <= Stage(r)
    PROVE  NearInv'
<1>1. /\ Len(calls[r]) \in Nat /\ Stage(r) \in Int /\ Left(r)' \in Int
      /\ \A s \in Ranks : Stage(s) \in Int
  <2>1. Left(r)' \in -1 .. 3
    BY NumbersNext
  <2>2. \A s \in Ranks : Len(calls[s]) \in Nat /\ Stage(s) \in -1 .. 5
    BY Numbers
  <2> HIDE DEF Left, Stage
  <2> QED
    BY <2>1, <2>2
<1>2. Base(r)' = Base(r) /\ Stage(r) <= Stage(r)'
  <2>1. \A a, b \in Int : (a + k) - (b + k) = a - b /\ b <= b + k
    OBVIOUS
  <2>2. Base(r)' = Len(calls'[r]) - Stage(r)'
    BY DEF Base
  <2> QED
    BY <1>1, <2>1, <2>2 DEF Base
<1>3. /\ Done(r)' = Done(r) /\ Before(r)' = Before(r)
      /\ stonewallIterations'[r] = stonewallIterations[r] => Repeats(r)' = Repeats(r)
  BY SamePhase
<1>4. \/ Left(r)' = Left(r)
      \/ \A s \in Ranks : /\ Done(r) <= Done(s)
                          /\ Done(s) = Done(r) => Left(r)' <= Stage(s)
  <2>1. CASE AllArrived(r) /\ 1 <= Stage(r) /\ Left(r)' <= Stage(r)
    <3>1. ASSUME NEW s \in Ranks
          PROVE  Done(r) <= Done(s) /\ (Done(s) = Done(r) => Left(r)' <= Stage(s))
      <4>1. Done(s) = Done(r) => Stage(r) <= Stage(s)
        BY <2>1, Met
      <4>2. Done(r) <= Done(s)
        BY <1>1, <2>1, Met
      <4> HIDE DEF Stage, Left, Done
      <4> QED
        BY <1>1, <2>1, <4>1, <4>2
    <3> QED
      BY <3>1
  <2> QED
    BY <2>1
<1> QED
  BY <1>2, <1>3, <1>4, NearKept

----------------------------------------------------------------------------
(***************************************************************************)
(* The ranks keep together: one lemma per action, then the move to the     *)
(* next phase.                                                             *)
(***************************************************************************)
Known == IInv /\ IInv' /\ AllPlain /\ PlaceInv /\ NearInv

\* The first phase of an execution.
LEMMA FirstPhase ==
    ASSUME IInv, PlaceInv, NEW r \in Ranks, pc[r] \in Arriving
    PROVE  /\ todo[r] # << >> /\ Head(todo[r]) = Executed[1] /\ Phase(r) = Executed[1]
           /\ Len(todo[r]) = Len(Executed)
<1>1. Done(r) = 0 /\ Suffix(r) /\ todo[r] \in Seq(Phases)
  BY Parts DEF PlaceInv, PhaseOK, IInv, RanksOK
<1>2. Executed \in Seq(Phases) /\ Executed # << >>
  BY PhaseFacts
<1>3. Len(todo[r]) = Len(Executed) /\ Len(todo[r]) >= 1
  BY <1>1, <1>2 DEF Done
<1>4. todo[r] # << >> /\ todo[r][1] = Executed[1]
  BY <1>1, <1>3 DEF Suffix
<1> QED
  BY <1>1, <1>3, <1>4 DEF Phase

\* ReturnPosition keeps the ranks together.
LEMMA ReturnPositionNear ==
    ASSUME Known, NEW r \in Ranks, ReturnPosition(r)
    PROVE  NearInv'
<1>1. RankStep(r) /\ Own(r) /\ todo'[r] = todo[r] /\ pc \in [Ranks -> PCs]
  BY StepsOwn DEF RankStep, Known, ReturnPosition, IInv, TypeOK
<1>2. Opening' = Opening /\ Opening = IF Head(todo[r]) = "precreate" THEN 0 ELSE 1
  BY <1>1, SamePhase, FirstPhase DEF Opening, Known, ReturnPosition, Arriving
<1>3. pc[r] = "begin" /\ pc'[r] \in {"next", "positionWait"}
  BY <1>1 DEF ReturnPosition, Go
<1>4. Stage(r) = -Opening /\ Stage(r)' = 0 /\ Left(r) = -1 /\ Left(r)' = -1
  BY <1>3 DEF Stage, Left, Stepping
<1>5. Len(calls'[r]) = Len(calls[r]) + Opening
  <2>1. CASE Head(todo[r]) = "precreate"
    <3>1. calls' = calls /\ Opening = 0
      BY <1>2, <2>1 DEF ReturnPosition
    <3> QED
      BY <3>1, Numbers DEF Known
  <2>2. CASE Head(todo[r]) # "precreate"
    <3>1. Enter(r, <<"bcast">>) /\ Opening = 1
      BY <1>2, <2>2 DEF ReturnPosition
    <3> QED
      BY <3>1, EnterLength DEF Known
  <2> QED
    BY <2>1, <2>2
<1>6. Opening \in 0 .. 2 /\ 0 = (-Opening) + Opening
  BY <1>2
<1> QED
  BY <1>1, <1>3, <1>4, <1>5, <1>6, NearStep DEF Known

\* PositionKnown keeps the ranks together.
LEMMA PositionKnownNear ==
    ASSUME Known, NEW r \in Ranks, PositionKnown(r)
    PROVE  NearInv'
<1>1. RankStep(r) /\ Own(r) /\ todo'[r] = todo[r] /\ pc \in [Ranks -> PCs]
  BY StepsOwn DEF RankStep, Known, PositionKnown, IInv, TypeOK
<1>2. pc[r] = "positionWait" /\ pc'[r] = "next" /\ calls' = calls
  BY <1>1 DEF PositionKnown, Go
<1>3. Stage(r) = 0 /\ Stage(r)' = 0 /\ Left(r) = -1 /\ Left(r)' = -1
  BY <1>2 DEF Stage, Left, Stepping
<1>4. Len(calls'[r]) = Len(calls[r]) + 0
  BY <1>2, Numbers DEF Known
<1> QED
  BY <1>1, <1>2, <1>3, <1>4, NearStep DEF Known

\* StartPhase keeps the ranks together.
LEMMA StartPhaseNear ==
    ASSUME Known, NEW r \in Ranks, StartPhase(r)
    PROVE  NearInv'
<1>1. RankStep(r) /\ Own(r) /\ todo'[r] = todo[r] /\ pc \in [Ranks -> PCs]
  BY StepsOwn DEF RankStep, Known, StartPhase, IInv, TypeOK
<1>2. pc[r] = "next"
  BY DEF StartPhase
<1>3. Stage(r) = 0 /\ Left(r) = -1
  BY <1>2 DEF Stage, Left, Stepping
<1>4. CASE Head(todo[r]) = "cleanup"
  <2>1. pc'[r] = "cleanup" /\ calls' = calls
    BY <1>1, <1>4 DEF StartPhase, Go
  <2>2. Stage(r)' = 0 /\ Left(r)' = -1
    BY <2>1 DEF Stage, Left, Stepping
  <2>3. Len(calls'[r]) = Len(calls[r]) + 0
    BY <2>1, Numbers DEF Known
  <2> QED
    BY <1>1, <1>2, <1>3, <2>2, <2>3, NearStep DEF Known
<1>5. CASE Head(todo[r]) # "cleanup"
  <2>1. pc'[r] = "startWait" /\ Enter(r, <<"barrier">>)
    BY <1>1, <1>5 DEF StartPhase, Go
  <2>2. Stage(r)' = 1 /\ Left(r)' = -1
    BY <2>1 DEF Stage, Left, Stepping
  <2>3. Len(calls'[r]) = Len(calls[r]) + 1
    BY <2>1, EnterLength DEF Known
  <2> QED
    BY <1>1, <1>2, <1>3, <2>2, <2>3, NearStep DEF Known
<1> QED
  BY <1>4, <1>5

\* PhaseStarted keeps the ranks together.
LEMMA PhaseStartedNear ==
    ASSUME Known, NEW r \in Ranks, PhaseStarted(r)
    PROVE  NearInv'
<1>1. RankStep(r) /\ Own(r) /\ todo'[r] = todo[r] /\ RanksOK
  BY StepsOwn, Parts DEF RankStep, Known, PhaseStarted, IInv
<1>2. /\ pc[r] = "startWait" /\ AllArrived(r) /\ calls' = calls
      /\ \/ pc'[r] = "precreate"
         \/ pc'[r] = "stat" /\ armed'[r] = opt.stonewall
  BY <1>1 DEF PhaseStarted, Go, RanksOK
<1>3. InLoop(r)' = 1 \/ pc'[r] = "precreate"
  BY <1>1, <1>2 DEF InLoop, Own
<1>4. Stage(r) = 1 /\ Stage(r)' = 1 /\ Left(r)' = 1
  BY <1>2, <1>3 DEF Stage, Left, Stepping
<1>5. Len(calls'[r]) = Len(calls[r]) + 0
  BY <1>2, Numbers DEF Known
<1> QED
  BY <1>1, <1>2, <1>4, <1>5, NearStep DEF Known

\* The steps of a round, which enter no collective.
LEMMA LoopNear ==
    ASSUME Known, NEW r \in Ranks, Own(r), todo'[r] = todo[r], armed'[r] = armed[r],
           pc[r] \in Stepping, pc'[r] \in Stepping \cup {"loopEnd"}, calls' = calls
    PROVE  NearInv'
<1>1. InLoop(r)' = InLoop(r)
  BY SamePhase
<1>2. Stage(r) = InLoop(r) /\ Stage(r)' = InLoop(r) /\ Left(r)' = Left(r)
  BY <1>1 DEF Stage, Left, Stepping
<1>3. Len(calls'[r]) = Len(calls[r]) + 0 /\ Stage(r)' = Stage(r) + 0
  BY <1>2, Numbers DEF Known
<1>4. pc[r] \notin {"endWait", "report"}
  BY DEF Stepping
<1> QED
  BY <1>2, <1>3, <1>4, NearStep DEF Known

\* Step keeps the ranks together.
LEMMA StepNear ==
    ASSUME Known, NEW r \in Ranks,
           Stat(r) \/ Read(r) \/ Remove(r) \/ Create(r) \/ Write(r) \/ GoOn(r)
    PROVE  NearInv'
<1>1. RankStep(r) /\ Own(r) /\ RanksOK
  BY StepsOwn, Parts DEF RankStep, Known, IInv
<1>2. /\ pc[r] \in Stepping /\ pc'[r] \in Stepping \cup {"loopEnd"} /\ calls' = calls
      /\ todo'[r] = todo[r] /\ armed'[r] = armed[r]
  BY <1>1 DEF Stat, Read, Remove, Create, Write, GoOn, NextDataSet, Go, round, RanksOK,
     Stepping
<1> QED
  BY <1>1, <1>2, LoopNear

\* There is no stonewall without wear-out.
LEMMA NoBreakOff ==
    ASSUME Known, NEW r \in Ranks
    PROVE  ~BreakOff(r)
<1> SUFFICES ASSUME BreakOff(r) PROVE FALSE
  OBVIOUS
<1>1. armed[r] /\ ~opt.wearOut /\ pc[r] = "timer" /\ StepsOK(r)
  BY DEF BreakOff, Known, PlaceInv
<1>2. opt.stonewall
  BY <1>1 DEF StepsOK, InRound, Stepping
<1> QED
  BY <1>1, <1>2, OptionFacts DEF Known

\* WearOut keeps the ranks together.
LEMMA WearOutNear ==
    ASSUME Known, NEW r \in Ranks, WearOut(r)
    PROVE  NearInv'
<1>1. RankStep(r) /\ Own(r) /\ todo'[r] = todo[r] /\ RanksOK
  BY StepsOwn, Parts DEF RankStep, Known, WearOut, IInv
<1>2. /\ pc[r] = "timer" /\ armed[r] /\ pc'[r] = "wearWait" /\ Enter(r, <<"allreduce">>)
  BY <1>1 DEF WearOut, Go, RanksOK
<1>3. InLoop(r) = 1
  BY <1>2 DEF InLoop
<1>4. Stage(r) = 1 /\ Stage(r)' = 2 /\ Left(r) = 1 /\ Left(r)' = 1
  BY <1>2, <1>3 DEF Stage, Left, Stepping
<1>5. Len(calls'[r]) = Len(calls[r]) + 1
  BY <1>2, EnterLength DEF Known
<1> QED
  BY <1>1, <1>2, <1>4, <1>5, NearStep DEF Known

\* WearOutAgreed keeps the ranks together.
LEMMA WearOutAgreedNear ==
    ASSUME Known, NEW r \in Ranks, WearOutAgreed(r)
    PROVE  NearInv'
<1>1. RankStep(r) /\ Own(r) /\ todo'[r] = todo[r] /\ RanksOK
  BY StepsOwn, Parts DEF RankStep, Known, WearOutAgreed, IInv
<1>2. /\ pc[r] = "wearWait" /\ AllArrived(r) /\ pc'[r] \in {"stat", "loopEnd"}
      /\ calls' = calls /\ armed'[r] = armed[r]
  BY <1>1 DEF WearOutAgreed, Go, RanksOK
<1>3. opt.stonewall /\ ~armed[r]
  BY <1>2 DEF Known, PlaceInv, PhaseOK, StepsOK
<1>4. InLoop(r)' = 2
  BY <1>1, <1>2, <1>3, SamePhase DEF InLoop
<1>5. Stage(r) = 2 /\ Stage(r)' = 2 /\ Left(r)' = 2
  BY <1>2, <1>4 DEF Stage, Left, Stepping
<1>6. Len(calls'[r]) = Len(calls[r]) + 0
  BY <1>2, Numbers DEF Known
<1> QED
  BY <1>1, <1>2, <1>5, <1>6, NearStep DEF Known

\* LeaveLoop keeps the ranks together.
LEMMA LeaveLoopNear ==
    ASSUME Known, NEW r \in Ranks, LeaveLoop(r)
    PROVE  NearInv'
<1>1. RankStep(r) /\ Own(r) /\ todo'[r] = todo[r] /\ RanksOK
  BY StepsOwn, Parts DEF RankStep, Known, LeaveLoop, IInv
<1>2. pc[r] = "loopEnd" /\ Phase(r) = "benchmark"
  BY DEF LeaveLoop, Known, PlaceInv, PhaseOK, InRound
<1>3. Stage(r) = InLoop(r) /\ Left(r) = InLoop(r)
  BY <1>2 DEF Stage, Left, Stepping
<1>4. /\ Before(r) = IF opt.stonewall THEN 2 ELSE 1
      /\ Phase(r)' = "benchmark" /\ Before(r)' = Before(r)
  BY <1>1, <1>2, SamePhase DEF Before
<1>5. CASE opt.stonewall /\ (opt.wearOut => armed[r])
  <2>1. opt.stonewall /\ armed[r] /\ InLoop(r) = 1
    BY <1>5, OptionFacts DEF Known, InLoop
  <2>2. pc'[r] = "agreeWait" /\ Enter(r, <<"allreduce">>)
    BY <1>1, <1>5 DEF LeaveLoop, Go, RanksOK
  <2>3. Stage(r)' = 2 /\ Left(r)' = 1
    BY <2>2 DEF Stage, Left, Stepping
  <2>4. Len(calls'[r]) = Len(calls[r]) + 1
    BY <2>2, EnterLength DEF Known
  <2> QED
    BY <1>1, <1>2, <1>3, <2>1, <2>3, <2>4, NearStep DEF Known
<1>6. CASE ~(opt.stonewall /\ (opt.wearOut => armed[r]))
  <2>1. InLoop(r) = Before(r)
    BY <1>4, <1>6 DEF InLoop
  <2>2. pc'[r] = "ended" /\ calls' = calls
    BY <1>1, <1>6 DEF LeaveLoop, Go, RanksOK
  <2>3. Stage(r)' = Before(r) /\ Left(r)' = Before(r)
    BY <1>4, <2>2 DEF Stage, Left, Stepping
  <2>4. Len(calls'[r]) = Len(calls[r]) + 0 /\ Before(r) + 0 = Before(r)
    BY <2>2, Numbers DEF Known
  <2> QED
    BY <1>1, <1>2, <1>3, <2>1, <2>3, <2>4, NearStep DEF Known
<1> QED
  BY <1>5, <1>6

\* LeaveLoopAgreed keeps the ranks together.
LEMMA LeaveLoopAgreedNear ==
    ASSUME Known, NEW r \in Ranks, LeaveLoopAgreed(r)
    PROVE  NearInv'
<1>1. RankStep(r) /\ Own(r) /\ todo'[r] = todo[r] /\ RanksOK
  BY StepsOwn, Parts DEF RankStep, Known, LeaveLoopAgreed, IInv
<1>2. /\ pc[r] = "agreeWait" /\ AllArrived(r) /\ pc'[r] = "ended" /\ calls' = calls
      /\ Phase(r) = "benchmark" /\ opt.stonewall
  BY <1>1 DEF LeaveLoopAgreed, Go, RanksOK, Known, PlaceInv, PhaseOK, InRound
<1>3. Before(r)' = 2 /\ Phase(r)' = "benchmark"
  BY <1>1, <1>2, SamePhase DEF Before
<1>4. Stage(r) = 2 /\ Stage(r)' = 2 /\ Left(r)' = 2
  BY <1>2, <1>3 DEF Stage, Left, Stepping
<1>5. Len(calls'[r]) = Len(calls[r]) + 0
  BY <1>2, Numbers DEF Known
<1> QED
  BY <1>1, <1>2, <1>4, <1>5, NearStep DEF Known

\* Precreation and cleanup are over.
LEMMA OwnPhaseNear ==
    ASSUME Known, NEW r \in Ranks, Precreate(r) \/ Cleanup(r)
    PROVE  NearInv'
<1>1. RankStep(r) /\ Own(r) /\ todo'[r] = todo[r] /\ RanksOK
  BY StepsOwn, Parts DEF RankStep, Known, Precreate, Cleanup, IInv
<1>2. /\ pc[r] \in {"precreate", "cleanup"} /\ Phase(r) = pc[r] /\ pc'[r] = "ended"
      /\ calls' = calls
  BY <1>1 DEF Precreate, Cleanup, Go, RanksOK, Known, PlaceInv, PhaseOK
<1>3. Before(r)' = Before(r) /\ Phase(r)' = Phase(r)
  BY <1>1, SamePhase
<1>4. Stage(r) = Before(r) /\ Stage(r)' = Before(r) /\ Left(r)' = Left(r)
  BY <1>2, <1>3 DEF Stage, Left, Before, Stepping
<1>5. Len(calls'[r]) = Len(calls[r]) + 0 /\ Before(r) + 0 = Before(r)
  BY <1>2, Numbers DEF Known
<1> QED
  BY <1>1, <1>2, <1>4, <1>5, NearStep DEF Known

\* EndPhase keeps the ranks together.
LEMMA EndPhaseNear ==
    ASSUME Known, NEW r \in Ranks, EndPhase(r)
    PROVE  NearInv'
<1>1. RankStep(r) /\ Own(r) /\ todo'[r] = todo[r] /\ RanksOK
  BY StepsOwn, Parts DEF RankStep, Known, EndPhase, IInv
<1>2. pc[r] = "ended" /\ pc'[r] = "endWait" /\ Enter(r, <<"barrier">>)
  BY <1>1 DEF EndPhase, Go, RanksOK
<1>3. Before(r)' = Before(r) /\ Phase(r)' = Phase(r)
  BY <1>1, SamePhase
<1>4. Stage(r) = Before(r) /\ Stage(r)' = Before(r) + 1 /\ Left(r)' = Left(r)
  BY <1>2, <1>3 DEF Stage, Left, Stepping
<1>5. Len(calls'[r]) = Len(calls[r]) + 1
  BY <1>2, EnterLength DEF Known
<1> QED
  BY <1>1, <1>2, <1>4, <1>5, NearStep DEF Known

\* Report keeps the ranks together.
LEMMA ReportNear ==
    ASSUME Known, NEW r \in Ranks, Report(r)
    PROVE  NearInv'
<1>1. RankStep(r) /\ Own(r) /\ todo'[r] = todo[r] /\ RanksOK
  BY StepsOwn, Parts DEF RankStep, Known, Report, IInv
<1>2. /\ pc[r] = "endWait" /\ pc'[r] = "report" /\ AllArrived(r)
      /\ stonewallIterations'[r] = stonewallIterations[r]
  BY <1>1 DEF Report, Go, RanksOK, agreed
<1>3. Before(r)' = Before(r) /\ Repeats(r)' = Repeats(r)
  BY <1>1, <1>2, SamePhase
<1>4. /\ Stage(r) = Before(r) + 1 /\ Stage(r)' = Before(r) + 2 + Repeats(r)
      /\ Left(r)' = Before(r) + 1
  BY <1>2, <1>3 DEF Stage, Left, Stepping
<1>5. /\ Len(calls'[r]) = Len(calls[r]) + (1 + Repeats(r)) /\ Before(r) \in 0 .. 2
      /\ Repeats(r) \in 0 .. 1
  <2>1. CASE stonewallIterations[r] # 0
    <3>1. Repeats(r) = 1 /\ Enter(r, <<"reduce", "reduceRepeats">>)
      BY <2>1 DEF Repeats, Report
    <3> QED
      BY <3>1, EnterLength, Numbers DEF Known
  <2>2. CASE stonewallIterations[r] = 0
    <3>1. Repeats(r) = 0 /\ Enter(r, <<"reduce">>)
      BY <2>2 DEF Repeats, Report
    <3> QED
      BY <3>1, EnterLength, Numbers DEF Known
  <2> QED
    BY <2>1, <2>2
<1>6. /\ 1 + Repeats(r) \in 0 .. 2 /\ 1 <= Before(r) + 1
      /\ Before(r) + 2 + Repeats(r) = Before(r) + 1 + (1 + Repeats(r))
  BY <1>5
<1> QED
  BY <1>1, <1>2, <1>4, <1>5, <1>6, NearStep DEF Known

\* StorePosition keeps the ranks together.
LEMMA StorePositionNear ==
    ASSUME Known, NEW r \in Ranks, StorePosition(r)
    PROVE  NearInv'
<1>1. RankStep(r) /\ Own(r) /\ todo'[r] = todo[r] /\ RanksOK
  BY StepsOwn, Parts DEF RankStep, Known, StorePosition, IInv
<1>2. pc[r] = "next" /\ pc'[r] = "end" /\ calls' = calls
  BY <1>1 DEF StorePosition, Go, RanksOK
<1>3. Stage(r) = 0 /\ Stage(r)' = 0 /\ Left(r) = -1 /\ Left(r)' = -1
  BY <1>2 DEF Stage, Left, Stepping
<1>4. Len(calls'[r]) = Len(calls[r]) + 0
  BY <1>2, Numbers DEF Known
<1> QED
  BY <1>1, <1>2, <1>3, <1>4, NearStep DEF Known

\* Ranks that are at the end of the same phase agree on how it ended.
LEMMA SameEnd ==
    ASSUME Known, NEW r \in Ranks, NEW s \in Ranks, Done(s) = Done(r),
           pc[r] = "report", pc[s] \in {"endWait", "report"}
    PROVE  /\ todo[s] = todo[r] /\ Phase(s) = Phase(r) /\ Before(s) = Before(r)
           /\ stonewallIterations[s] = stonewallIterations[r] /\ Repeats(s) = Repeats(r)
           /\ Phase(r) = "benchmark" => f[s] = f[r]
<1>1. todo[r] \in Seq(Phases) /\ todo[s] \in Seq(Phases) /\ Executed \in Seq(Phases)
  BY Parts, PhaseFacts DEF Known, IInv, RanksOK
<1>2. Len(todo[s]) = Len(todo[r])
  BY <1>1 DEF Done
<1>3. todo[s] = todo[r]
  <2>1. \A j \in 1 .. Len(todo[r]) : todo[s][j] = todo[r][j]
    BY <1>2 DEF Known, PlaceInv, Suffix
  <2> QED
    BY <1>1, <1>2, <2>1
<1>4. Phase(s) = Phase(r) /\ Before(s) = Before(r)
  BY <1>3 DEF Phase, Before
<1>5. StepsOK(r) /\ StepsOK(s)
  BY DEF Known, PlaceInv
<1>6. stonewallIterations[s] = stonewallIterations[r]
  <2>1. CASE Phase(r) = "benchmark" /\ opt.stonewall
    <3>1. Left(r) >= 2 /\ Left(s) >= 2
      BY <1>4, <2>1 DEF Left, Before, Stepping
    <3>2. Largest(stonewallIterations[r]) /\ Largest(stonewallIterations[s])
      BY <1>4, <2>1, <3>1 DEF Known, PlaceInv, Agreed
    <3>3. /\ stonewallIterations[r] \in Nat /\ stonewallIterations[s] \in Nat
          /\ \A q \in Ranks : sent[q] \in Nat
      BY OptionFacts DEF Known, IInv, TypeOK
    <3> QED
      BY <3>2, <3>3 DEF Largest
  <2>2. CASE ~(Phase(r) = "benchmark" /\ opt.stonewall)
    BY <1>4, <1>5, <2>2 DEF StepsOK, Outside
  <2> QED
    BY <2>1, <2>2
<1>7. Phase(r) = "benchmark" => f[s] = f[r]
  BY <1>4, <1>5, <1>6 DEF StepsOK, Closed
<1> QED
  BY <1>3, <1>4, <1>6, <1>7 DEF Repeats

\* A rank goes to its next phase: what its numbers are then.
LEMMA NextNumbers ==
    ASSUME Known, NEW r \in Ranks, Reported(r)
    PROVE  /\ Own(r) /\ Executed' = Executed /\ pc[r] = "report" /\ pc'[r] = "next"
           /\ todo[r] # << >> /\ todo'[r] = Tail(todo[r]) /\ todo'[r] \in Seq(Phases)
           /\ Len(todo'[r]) = Len(todo[r]) - 1
           /\ Done(r)' = Done(r) + 1 /\ Stage(r)' = 0 /\ Left(r)' = -1
           /\ Base(r)' = Base(r) + Before(r) + 2 + Repeats(r)
           /\ Left(r) = Before(r) + 1
<1>1. RankStep(r) /\ Own(r) /\ RanksOK /\ Bounds(r)
  BY StepsOwn, Parts DEF RankStep, Known, IInv
<1>2. Executed' = Executed
  BY <1>1 DEF Own, Executed
<1>3. /\ pc[r] = "report" /\ pc'[r] = "next" /\ calls' = calls
      /\ todo'[r] = Tail(todo[r]) /\ todo[r] \in Seq(Phases)
  BY <1>1 DEF Reported, Go, RanksOK
<1>4. todo[r] # << >> /\ Len(todo'[r]) = Len(todo[r]) - 1 /\ todo'[r] \in Seq(Phases)
  BY <1>1, <1>3 DEF Bounds, Outside
<1>5. Done(r)' = Done(r) + 1
  <2>1. \A a, b \in Int : a - (b - 1) = a - b + 1
    OBVIOUS
  <2>2. Len(Executed) \in Int /\ Len(todo[r]) \in Int
    BY Numbers DEF Known
  <2> QED
    BY <1>2, <1>4, <2>1, <2>2 DEF Done
<1>6. Stage(r)' = 0 /\ Left(r)' = -1
  BY <1>3 DEF Stage, Left, Stepping
<1>7. Stage(r) = Before(r) + 2 + Repeats(r) /\ Left(r) = Before(r) + 1
  BY <1>3 DEF Stage, Left, Stepping
<1>8. Base(r)' = Base(r) + Before(r) + 2 + Repeats(r)
  <2>1. \A a, b, c \in Int : a - 0 = a - (b + 2 + c) + b + 2 + c
    OBVIOUS
  <2>2. Len(calls[r]) \in Int /\ Before(r) \in Int /\ Repeats(r) \in Int
    BY Numbers DEF Known
  <2>3. Base(r)' = Len(calls[r]) - 0
    BY <1>3, <1>6 DEF Base
  <2> QED
    BY <1>7, <2>1, <2>2, <2>3 DEF Base
<1> QED
  BY <1>1, <1>2, <1>3, <1>4, <1>5, <1>6, <1>7, <1>8

\* The others are at the end of its phase, or in the next one already.
LEMMA AtTheEnd ==
    ASSUME Known, NEW r \in Ranks, Reported(r), NEW s \in Ranks
    PROVE  /\ Done(s) = Done(r) \/ Done(s) = Done(r) + 1
           /\ Done(s) = Done(r) =>
                /\ pc[s] \in {"endWait", "report"}
                /\ Base(s) = Base(r) /\ Before(s) = Before(r) /\ Repeats(s) = Repeats(r)
           /\ Done(s) = Done(r) + 1 =>
                /\ Base(s) = Base(r) + Before(r) + 2 + Repeats(r)
                /\ Left(s) = -1 /\ Stage(s) >= 0
<1>1. /\ \A q \in {r, s} : /\ Done(q) \in Int /\ Before(q) \in 0 .. 2
                           /\ Stage(q) \in -1 .. 5 /\ Left(q) \in -1 .. 3
      /\ pc[r] = "report" /\ Left(r) = Before(r) + 1
  BY Numbers, NextNumbers DEF Known
<1>2. Near(r, s) /\ Near(s, r)
  BY DEF Known, NearInv
<1>3. Done(r) # Done(s) + 1
  <2> HIDE DEF Left, Done, Before
  <2> QED
    BY <1>1, <1>2 DEF Near
<1>4. Done(s) = Done(r) \/ Done(s) = Done(r) + 1
  <2> HIDE DEF Done
  <2> QED
    BY <1>1, <1>2, <1>3 DEF Near
<1>5. ASSUME Done(s) = Done(r)
      PROVE  /\ pc[s] \in {"endWait", "report"}
             /\ Base(s) = Base(r) /\ Before(s) = Before(r) /\ Repeats(s) = Repeats(r)
  <2>1. Base(s) = Base(r) /\ Before(r) + 1 <= Stage(s)
    BY <1>1, <1>2, <1>5 DEF Near
  <2>2. todo[s] = todo[r]
    <3>1. todo[r] \in Seq(Phases) /\ todo[s] \in Seq(Phases) /\ Executed \in Seq(Phases)
      BY Parts, PhaseFacts DEF Known, IInv, RanksOK
    <3>2. Len(todo[s]) = Len(todo[r])
      BY <1>5, <3>1 DEF Done
    <3>3. \A j \in 1 .. Len(todo[r]) : todo[s][j] = todo[r][j]
      BY <1>5, <3>2 DEF Known, PlaceInv, Suffix
    <3> QED
      BY <3>1, <3>2, <3>3
  <2>3. Before(s) = Before(r) /\ Phase(s) = Phase(r)
    BY <2>2 DEF Before, Phase
  <2>4. pc[s] \in {"endWait", "report"}
    <3>1. PhaseOK(s) /\ Before(s) \in 0 .. 2 /\ Before(s) + 1 <= Stage(s)
      BY <1>1, <2>1, <2>3 DEF Known, PlaceInv
    <3>2. Opening \in 0 .. 1 /\ InLoop(s) \in 1 .. 2
      BY Numbers DEF Known
    <3>3. InLoop(s) <= IF opt.stonewall THEN 2 ELSE 1
      BY DEF InLoop
    <3>4. /\ pc[s] \in InRound => Phase(s) = "benchmark"
          /\ pc[s] \in {"precreate", "cleanup"} => Phase(s) = pc[s]
          /\ pc[s] \in {"wearWait", "agreeWait"} => opt.stonewall
          /\ pc[s] = "startWait" => Phase(s) \in {"precreate", "benchmark"}
      BY <3>1 DEF PhaseOK
    <3>5. Phase(s) \in {"precreate", "benchmark"} => Before(s) >= 1
      BY DEF Before
    <3>6. Phase(s) = "benchmark" /\ opt.stonewall => Before(s) = 2
      BY DEF Before
    <3>7. CASE pc[s] \in Stepping \cup {"loopEnd"}
      <4>1. Stage(s) = InLoop(s) /\ pc[s] \in InRound
        BY <3>7 DEF Stage, Stepping, InRound
      <4> HIDE DEF Before
      <4> QED
        BY <3>1, <3>2, <3>3, <3>4, <3>5, <3>6, <4>1
    <3>8. CASE pc[s] \in {"wearWait", "agreeWait"}
      <4>1. Stage(s) = 2 /\ pc[s] \in InRound
        BY <3>8 DEF Stage, Stepping, InRound
      <4> QED
        BY <3>1, <3>4, <3>6, <3>8, <4>1
    <3>9. CASE pc[s] \in {"startWait", "precreate"}
      <4>1. Stage(s) = 1
        BY <3>9 DEF Stage, Stepping
      <4> QED
        BY <3>1, <3>4, <3>5, <3>9, <4>1
    <3>10. CASE pc[s] \notin Stepping \cup {"loopEnd", "wearWait", "agreeWait", "startWait",
                                            "precreate"}
      BY <3>1, <3>2, <3>10 DEF Stage
    <3> QED
      BY <3>7, <3>8, <3>9, <3>10
  <2> QED
    BY <1>5, <2>1, <2>3, <2>4, <1>1, SameEnd
<1>6. ASSUME Done(s) = Done(r) + 1 PROVE Stage(s) >= 0
  <2>1. todo[r] \in Seq(Phases) /\ Executed \in Seq(Phases) /\ Len(todo[r]) <= Len(Executed)
    BY Parts, PhaseFacts DEF Known, IInv, RanksOK, PlaceInv, Suffix
  <2>2. Done(s) # 0
    <3>1. Len(todo[r]) \in Int /\ Len(Executed) \in Int
      BY <2>1
    <3>2. Done(r) >= 0 /\ Done(r) \in Int
      BY <2>1, <3>1 DEF Done
    <3> HIDE DEF Done
    <3> QED
      BY <1>6, <3>2
  <2>3. pc[s] # "begin"
    BY <2>2 DEF Known, PlaceInv, PhaseOK, Arriving
  <2> QED
    BY <2>3, Numbers DEF Stage, Known
<1> QED
  BY <1>2, <1>4, <1>5, <1>6 DEF Near

\* Reported keeps the ranks together.
LEMMA ReportedNear ==
    ASSUME Known, NEW r \in Ranks, Reported(r)
    PROVE  NearInv'
<1> SUFFICES ASSUME NEW p \in Ranks, NEW q \in Ranks PROVE Near(p, q)'
  BY DEF NearInv
<1>1. \A s \in Ranks : /\ Done(s) \in Int /\ Base(s) \in Int /\ Stage(s) \in -1 .. 5
                       /\ Left(s) \in -1 .. 3 /\ Before(s) \in 0 .. 2 /\ Repeats(s) \in 0 .. 1
  BY Numbers DEF Known
<1>2. /\ Own(r) /\ Done(r)' = Done(r) + 1 /\ Stage(r)' = 0 /\ Left(r)' = -1
      /\ Base(r)' = Base(r) + Before(r) + 2 + Repeats(r)
  BY NextNumbers
<1>3. \A s \in Ranks \ {r} :
         /\ Done(s)' = Done(s) /\ Before(s)' = Before(s) /\ Repeats(s)' = Repeats(s)
         /\ Stage(s)' = Stage(s) /\ Left(s)' = Left(s) /\ Base(s)' = Base(s)
         /\ pc'[s] = pc[s]
  BY <1>2, OthersStay DEF Own
<1>4. \A s \in Ranks :
         /\ Done(s) = Done(r) \/ Done(s) = Done(r) + 1
         /\ Done(s) = Done(r) =>
              /\ pc[s] \in {"endWait", "report"}
              /\ Base(s) = Base(r) /\ Before(s) = Before(r) /\ Repeats(s) = Repeats(r)
         /\ Done(s) = Done(r) + 1 =>
              /\ Base(s) = Base(r) + Before(r) + 2 + Repeats(r)
              /\ Left(s) = -1 /\ Stage(s) >= 0
  BY AtTheEnd
<1> HIDE DEF Done, Base, Stage, Left, Before, Repeats
<1>5. CASE p # r /\ q # r
  BY <1>3, <1>5 DEF Near, Known, NearInv
<1>6. CASE p = r /\ q # r
  BY <1>1, <1>2, <1>3, <1>4, <1>6 DEF Near
<1>7. CASE p # r /\ q = r
  BY <1>1, <1>2, <1>3, <1>4, <1>7 DEF Near
<1>8. CASE p = r /\ q = r
  BY <1>1, <1>2, <1>8 DEF Near
<1> QED
  BY <1>5, <1>6, <1>7, <1>8

\* Every step of a rank.
LEMMA RankNear ==
    ASSUME Known, NEW r \in Ranks, RankStep(r)
    PROVE  NearInv'
<1>1. CASE ReturnPosition(r) \/ PositionKnown(r) \/ StartPhase(r) \/ PhaseStarted(r)
  BY <1>1, ReturnPositionNear, PositionKnownNear, StartPhaseNear, PhaseStartedNear
<1>2. CASE Precreate(r) \/ Cleanup(r)
  BY <1>2, OwnPhaseNear
<1>3. CASE Stat(r) \/ Read(r) \/ Remove(r) \/ Create(r) \/ Write(r) \/ GoOn(r)
  BY <1>3, StepNear
<1>4. CASE \/ BreakOff(r) \/ WearOut(r) \/ WearOutAgreed(r) \/ LeaveLoop(r)
           \/ LeaveLoopAgreed(r)
  BY <1>4, NoBreakOff, WearOutNear, WearOutAgreedNear, LeaveLoopNear, LeaveLoopAgreedNear
<1>5. CASE EndPhase(r) \/ Report(r) \/ Reported(r) \/ StorePosition(r)
  BY <1>5, EndPhaseNear, ReportNear, ReportedNear, StorePositionNear
<1> QED
  BY <1>1, <1>2, <1>3, <1>4, <1>5 DEF RankStep

----------------------------------------------------------------------------
(***************************************************************************)
(* What a rank does by where it is: again one lemma per action.            *)
(***************************************************************************)
Placed(r) == /\ Suffix(r) /\ PhaseOK(r) /\ StepsOK(r)
             /\ Agreed(r) => Largest(stonewallIterations[r])

\* The places of all ranks, one by one.
LEMMA PlacedAll == PlaceInv <=> \A r \in Ranks : Placed(r)
BY DEF PlaceInv, Placed

\* The others stay where they are; what they have agreed on is not sent anew.
LEMMA OthersPlaced ==
    ASSUME Known, NEW r \in Ranks, Own(r), NEW s \in Ranks \ {r},
           UNCHANGED sent \/ ~Agreed(s)
    PROVE  Placed(s)'
<1>1. /\ pc'[s] = pc[s] /\ todo'[s] = todo[s] /\ opt' = opt /\ execution' = execution
      /\ f'[s] = f[s] /\ totalNum'[s] = totalNum[s] /\ armed'[s] = armed[s]
      /\ sent'[s] = sent[s] /\ stonewallIterations'[s] = stonewallIterations[s]
  BY DEF Own
<1>2. Executed' = Executed /\ Opening' = Opening
  BY <1>1 DEF Executed, Opening
<1>3. Phase(s)' = Phase(s) /\ Done(s)' = Done(s) /\ Left(s)' = Left(s)
  BY OthersStay
<1>4. Placed(s)
  BY PlacedAll DEF Known
<1>5. Suffix(s)'
  BY <1>1, <1>2, <1>3, <1>4 DEF Placed, Suffix
<1>6. PhaseOK(s)' /\ StepsOK(s)'
  BY <1>1, <1>2, <1>3, <1>4 DEF Placed, PhaseOK, StepsOK
<1>7. Agreed(s)' => Largest(stonewallIterations[s])'
  <2>1. Agreed(s)' = Agreed(s)
    BY <1>1, <1>3 DEF Agreed
  <2>2. CASE UNCHANGED sent
    BY <1>1, <1>4, <2>1, <2>2 DEF Placed, Largest
  <2>3. CASE ~Agreed(s)
    BY <2>1, <2>3
  <2> QED
    BY <2>2, <2>3
<1> QED
  BY <1>5, <1>6, <1>7 DEF Placed

\* What a lemma of this part has to show of a step within a phase.
LEMMA PlaceStep ==
    ASSUME Known, NEW r \in Ranks, Own(r), todo'[r] = todo[r],
           UNCHANGED sent \/ \A s \in Ranks : ~Agreed(s),
           PhaseOK(r)', StepsOK(r)', Agreed(r)' => Largest(stonewallIterations[r])'
    PROVE  PlaceInv'
<1>1. Suffix(r)'
  <2>1. Suffix(r)
    BY DEF Known, PlaceInv
  <2>2. Executed' = Executed /\ Done(r)' = Done(r)
    BY SamePhase
  <2> QED
    BY <2>1, <2>2 DEF Suffix
<1>2. Placed(r)'
  BY <1>1 DEF Placed
<1>3. \A s \in Ranks \ {r} : Placed(s)'
  BY OthersPlaced
<1> QED
  BY <1>2, <1>3 DEF PlaceInv, Placed

\* The value a rank has been told stays the largest.
LEMMA StillLargest ==
    ASSUME Known, NEW r \in Ranks, UNCHANGED <<opt, sent>>,
           stonewallIterations'[r] = stonewallIterations[r], Phase(r)' = Phase(r),
           Left(r)' >= 2 => Left(r) >= 2
    PROVE  Agreed(r)' => Largest(stonewallIterations[r])'
<1>1. Agreed(r)' => Agreed(r)
  BY DEF Agreed
<1>2. Agreed(r) => Largest(stonewallIterations[r])
  BY DEF Known, PlaceInv
<1> QED
  BY <1>1, <1>2 DEF Largest

\* Nothing is agreed upon as long as a rank has not sent its number.
LEMMA NotYetAgreed ==
    ASSUME Known, NEW r \in Ranks, pc[r] \in {"timer", "loopEnd"}, armed[r]
    PROVE  \A s \in Ranks : ~Agreed(s)
<1> TAKE s \in Ranks
<1>1. Stage(r) = 1 /\ Left(r) = 1
  BY DEF Stage, Left, Stepping, InLoop
<1>2. Near(r, s) /\ Near(s, r)
  BY DEF Known, NearInv
<1>3. Done(r) \in Int /\ Done(s) \in Int /\ Left(s) \in Int
  BY Numbers DEF Known
<1>4. pc[r] \notin {"endWait", "report"}
  OBVIOUS
<1>5. ~(Left(s) >= 2)
  <2> HIDE DEF Done, Left, Stage
  <2> QED
    BY <1>1, <1>2, <1>3, <1>4 DEF Near
<1> QED
  BY <1>5 DEF Agreed

\* Outside the phases nothing is asked of a rank.
LEMMA OutsidePlaced ==
    ASSUME Known, NEW r \in Ranks, Own(r), todo'[r] = todo[r], UNCHANGED sent,
           pc'[r] \in {"positionWait", "next", "end"}, PhaseOK(r)'
    PROVE  PlaceInv'
<1>1. StepsOK(r)'
  BY DEF StepsOK, InRound, Stepping, Closed, Outside
<1>2. ~Agreed(r)'
  BY DEF Agreed, Left, Stepping
<1> QED
  BY <1>1, <1>2, PlaceStep

\* Begin keeps the places.
LEMMA BeginPlaced ==
    ASSUME Known, NEW r \in Ranks, ReturnPosition(r) \/ PositionKnown(r) \/ StorePosition(r)
    PROVE  PlaceInv'
<1>1. RankStep(r) /\ Own(r) /\ RanksOK
  BY StepsOwn, Parts DEF RankStep, Known, IInv
<1>2. todo' = todo /\ sent' = sent
  BY DEF ReturnPosition, PositionKnown, StorePosition, agreed
<1>3. /\ pc'[r] \in {"positionWait", "next", "end"}
      /\ pc'[r] = "positionWait" => pc[r] = "begin" /\ Head(todo[r]) # "precreate"
      /\ pc'[r] = "end" => todo[r] = << >>
  BY <1>1 DEF ReturnPosition, PositionKnown, StorePosition, Go, RanksOK
<1>4. /\ Done(r)' = Done(r) /\ Opening' = Opening
      /\ pc[r] = "begin" => Done(r) = 0 /\ Head(todo[r]) = Executed[1]
  BY <1>1, <1>2, SamePhase, FirstPhase DEF Known, PlaceInv, PhaseOK, Arriving
<1>5. PhaseOK(r)'
  BY <1>2, <1>3, <1>4 DEF PhaseOK, Opening, Arriving, InRound, Stepping
<1> QED
  BY <1>1, <1>2, <1>3, <1>5, OutsidePlaced

\* StartPhase keeps the places.
LEMMA StartPhasePlaced ==
    ASSUME Known, NEW r \in Ranks, StartPhase(r)
    PROVE  PlaceInv'
<1>1. RankStep(r) /\ Own(r) /\ RanksOK /\ todo' = todo /\ sent' = sent
  BY StepsOwn, Parts DEF RankStep, Known, IInv, StartPhase
<1>2. /\ todo[r] # << >> /\ stonewallIterations'[r] = 0
      /\ \/ pc'[r] = "cleanup" /\ Head(todo[r]) = "cleanup"
         \/ pc'[r] = "startWait" /\ Head(todo[r]) # "cleanup"
  BY <1>1 DEF StartPhase, Go, RanksOK
<1>3. todo[r] \in Seq(Phases) /\ Head(todo[r]) \in Phases
  BY <1>1, <1>2 DEF RanksOK
<1>4. Phase(r)' = Head(todo[r])
  BY <1>1, <1>2 DEF Phase
<1>5. PhaseOK(r)' /\ StepsOK(r)'
  BY <1>2, <1>3, <1>4
  DEF PhaseOK, StepsOK, Phases, Arriving, InRound, Stepping, Closed, Outside
<1>6. ~Agreed(r)'
  BY <1>2 DEF Agreed, Left, Stepping
<1> QED
  BY <1>1, <1>5, <1>6, PlaceStep

\* PhaseStarted keeps the places.
LEMMA PhaseStartedPlaced ==
    ASSUME Known, NEW r \in Ranks, PhaseStarted(r)
    PROVE  PlaceInv'
<1>1. RankStep(r) /\ Own(r) /\ RanksOK /\ todo' = todo /\ Bounds(r)
  BY StepsOwn, Parts DEF RankStep, Known, IInv, PhaseStarted
<1>2. /\ pc[r] = "startWait" /\ opt' = opt
      /\ sent' = sent /\ stonewallIterations' = stonewallIterations
      /\ \/ pc'[r] = "precreate" /\ Head(todo[r]) = "precreate"
         \/ /\ pc'[r] = "stat" /\ Head(todo[r]) # "precreate"
            /\ totalNum'[r] = opt.num /\ armed'[r] = opt.stonewall /\ f'[r] = 0
  BY <1>1 DEF PhaseStarted, Go, RanksOK, agreed
<1>3. PhaseOK(r) /\ StepsOK(r) /\ todo[r] # << >>
  BY <1>1, <1>2 DEF Known, PlaceInv, Bounds, Outside
<1>4. /\ Phase(r) = Head(todo[r]) /\ Phase(r)' = Head(todo[r])
      /\ Phase(r) \in {"precreate", "benchmark"}
  BY <1>1, <1>2, <1>3 DEF Phase, PhaseOK
<1>5. (Phase(r) = "benchmark" => ~opt.stonewall) => stonewallIterations[r] = 0
  BY <1>2, <1>3 DEF StepsOK, Outside
<1>6. PhaseOK(r)'
  BY <1>2, <1>4 DEF PhaseOK, Arriving, InRound, Stepping
<1>7. StepsOK(r)'
  BY <1>2, <1>4, <1>5 DEF StepsOK, InRound, Stepping, Closed
<1>8. ~Agreed(r)'
  BY <1>2 DEF Agreed, Left, Stepping, InLoop
<1> QED
  BY <1>1, <1>2, <1>6, <1>7, <1>8, PlaceStep

\* OwnPhase keeps the places.
LEMMA OwnPhasePlaced ==
    ASSUME Known, NEW r \in Ranks, Precreate(r) \/ Cleanup(r)
    PROVE  PlaceInv'
<1>1. RankStep(r) /\ Own(r) /\ RanksOK /\ todo' = todo
  BY StepsOwn, Parts DEF RankStep, Known, IInv, Precreate, Cleanup
<1>2. /\ pc[r] \in {"precreate", "cleanup"} /\ pc'[r] = "ended"
      /\ sent' = sent /\ stonewallIterations' = stonewallIterations
  BY <1>1 DEF Precreate, Cleanup, Go, RanksOK, agreed
<1>3. PhaseOK(r) /\ StepsOK(r)
  BY DEF Known, PlaceInv
<1>4. Phase(r) \in {"precreate", "cleanup"} /\ Phase(r)' = Phase(r)
  BY <1>1, <1>2, <1>3, SamePhase DEF PhaseOK
<1>5. stonewallIterations[r] = 0
  BY <1>2, <1>3, <1>4 DEF StepsOK, Outside
<1>6. PhaseOK(r)'
  BY <1>2 DEF PhaseOK, Arriving, InRound, Stepping
<1>7. StepsOK(r)'
  BY <1>2, <1>4, <1>5 DEF StepsOK, InRound, Stepping
<1>8. ~Agreed(r)'
  BY <1>4 DEF Agreed
<1> QED
  BY <1>1, <1>2, <1>6, <1>7, <1>8, PlaceStep

\* Step keeps the places.
LEMMA StepPlaced ==
    ASSUME Known, NEW r \in Ranks,
           Stat(r) \/ Read(r) \/ Remove(r) \/ Create(r) \/ Write(r) \/ GoOn(r)
    PROVE  PlaceInv'
<1>1. RankStep(r) /\ Own(r) /\ RanksOK /\ Bounds(r)
  BY StepsOwn, Parts DEF RankStep, Known, IInv
<1>2. /\ pc[r] \in Stepping /\ UNCHANGED <<opt, todo, totalNum, armed, sent>>
      /\ stonewallIterations' = stonewallIterations
  BY DEF Stat, Read, Remove, Create, Write, GoOn, Stepping, round, agreed
<1>3. \/ pc'[r] \in Stepping
      \/ pc'[r] = "loopEnd" /\ f'[r] = f[r] + 1 /\ ~(f[r] + 1 < totalNum[r])
  BY <1>1 DEF Stat, Read, Remove, Create, Write, GoOn, NextDataSet, Go, round, RanksOK,
     Stepping, More
<1>4. PhaseOK(r) /\ StepsOK(r)
  BY DEF Known, PlaceInv
<1>5. Phase(r) = "benchmark" /\ Phase(r)' = "benchmark"
  BY <1>1, <1>2, <1>4, SamePhase DEF PhaseOK, InRound
<1>6. PhaseOK(r)'
  BY <1>3, <1>5 DEF PhaseOK, Arriving, InRound, Stepping
<1>7. pc'[r] = "loopEnd" => f'[r] = totalNum[r]
  <2>1. f[r] \in Int /\ totalNum[r] \in Int /\ f[r] < totalNum[r]
    BY <1>1, <1>2, OptionFacts DEF RanksOK, Bounds, Known
  <2> QED
    BY <1>3, <2>1 DEF Stepping
<1>8. StepsOK(r)'
  BY <1>2, <1>3, <1>4, <1>5, <1>7 DEF StepsOK, InRound, Stepping, Closed, Outside
<1>9. Left(r)' = Left(r)
  BY <1>2, <1>3 DEF Left, Stepping, InLoop
<1> QED
  BY <1>1, <1>2, <1>5, <1>6, <1>8, <1>9, StillLargest, PlaceStep

\* WearOut keeps the places.
LEMMA WearOutPlaced ==
    ASSUME Known, NEW r \in Ranks, WearOut(r)
    PROVE  PlaceInv'
<1>1. RankStep(r) /\ Own(r) /\ RanksOK /\ todo' = todo
  BY StepsOwn, Parts DEF RankStep, Known, IInv, WearOut
<1>2. /\ pc[r] = "timer" /\ armed[r] /\ pc'[r] = "wearWait" /\ ~armed'[r]
      /\ sent'[r] = f[r] + 1 /\ f'[r] = f[r] /\ opt' = opt
  BY <1>1 DEF WearOut, CurPos, Go, RanksOK
<1>3. PhaseOK(r) /\ StepsOK(r)
  BY DEF Known, PlaceInv
<1>4. Phase(r) = "benchmark" /\ Phase(r)' = "benchmark" /\ opt.stonewall
  BY <1>1, <1>2, <1>3, SamePhase DEF PhaseOK, StepsOK, InRound, Stepping
<1>5. PhaseOK(r)'
  BY <1>2, <1>4 DEF PhaseOK, Arriving, InRound, Stepping
<1>6. StepsOK(r)'
  BY <1>2, <1>4 DEF StepsOK, InRound, Stepping, Closed, Outside
<1>7. ~Agreed(r)'
  BY <1>2 DEF Agreed, Left, Stepping
<1>8. \A s \in Ranks : ~Agreed(s)
  BY <1>2, NotYetAgreed
<1> QED
  BY <1>1, <1>5, <1>6, <1>7, <1>8, PlaceStep

\* WearOutAgreed keeps the places.
LEMMA WearOutAgreedPlaced ==
    ASSUME Known, NEW r \in Ranks, WearOutAgreed(r)
    PROVE  PlaceInv'
<1>1. RankStep(r) /\ Own(r) /\ RanksOK /\ todo' = todo
  BY StepsOwn, Parts DEF RankStep, Known, IInv, WearOutAgreed
<1>2. PICK n \in 0 .. opt.num :
          /\ Largest(n) /\ totalNum'[r] = n /\ stonewallIterations'[r] = n
          /\ IF f[r] = n THEN pc'[r] = "loopEnd" /\ f'[r] = f[r]
             ELSE f'[r] = f[r] + 1 /\ pc'[r] = IF f[r] + 1 < n THEN "stat" ELSE "loopEnd"
  BY <1>1 DEF WearOutAgreed, Go, RanksOK, More
<1>3. pc[r] = "wearWait" /\ armed'[r] = armed[r] /\ sent' = sent /\ opt' = opt
  BY DEF WearOutAgreed
<1>4. PhaseOK(r) /\ StepsOK(r)
  BY DEF Known, PlaceInv
<1>5. /\ Phase(r) = "benchmark" /\ Phase(r)' = "benchmark" /\ opt.stonewall /\ ~armed[r]
      /\ sent[r] = f[r] + 1
  BY <1>1, <1>3, <1>4, SamePhase DEF PhaseOK, StepsOK, InRound
<1>6. pc'[r] = "stat" \/ (pc'[r] = "loopEnd" /\ f'[r] = n)
  <2>1. f[r] \in Int /\ n \in Int /\ f[r] + 1 <= n
    BY <1>1, <1>2, <1>5, OptionFacts DEF RanksOK, Known, Largest
  <2> QED
    BY <1>2, <2>1
<1>7. PhaseOK(r)'
  BY <1>5, <1>6 DEF PhaseOK, Arriving, InRound, Stepping
<1>8. StepsOK(r)'
  BY <1>2, <1>3, <1>5, <1>6 DEF StepsOK, InRound, Stepping, Closed, Outside
<1>9. Largest(stonewallIterations[r])'
  BY <1>2, <1>3 DEF Largest
<1> QED
  BY <1>1, <1>3, <1>7, <1>8, <1>9, PlaceStep

\* LeaveLoop keeps the places.
LEMMA LeaveLoopPlaced ==
    ASSUME Known, NEW r \in Ranks, LeaveLoop(r)
    PROVE  PlaceInv'
<1>1. RankStep(r) /\ Own(r) /\ RanksOK /\ todo' = todo
  BY StepsOwn, Parts DEF RankStep, Known, IInv, LeaveLoop
<1>2. /\ pc[r] = "loopEnd" /\ UNCHANGED <<opt, f, totalNum, armed>>
      /\ stonewallIterations' = stonewallIterations
  BY DEF LeaveLoop, round
<1>3. PhaseOK(r) /\ StepsOK(r)
  BY DEF Known, PlaceInv
<1>4. Phase(r) = "benchmark" /\ Phase(r)' = "benchmark" /\ f[r] = totalNum[r]
  BY <1>1, <1>2, <1>3, SamePhase DEF PhaseOK, StepsOK, InRound
<1>5. opt.stonewall => opt.wearOut
  BY OptionFacts DEF Known
<1>6. CASE opt.stonewall /\ armed[r]
  <2>1. pc'[r] = "agreeWait" /\ sent'[r] = totalNum[r]
    BY <1>1, <1>5, <1>6 DEF LeaveLoop, Go, RanksOK
  <2>2. totalNum[r] = opt.num
    BY <1>2, <1>3, <1>6 DEF StepsOK, InRound
  <2>3. PhaseOK(r)'
    BY <1>2, <1>4, <1>6, <2>1 DEF PhaseOK, Arriving, InRound, Stepping
  <2>4. StepsOK(r)'
    BY <1>2, <1>4, <1>6, <2>1, <2>2 DEF StepsOK, InRound, Stepping, Closed, Outside
  <2>5. ~Agreed(r)'
    BY <2>1 DEF Agreed, Left, Stepping
  <2>6. \A s \in Ranks : ~Agreed(s)
    BY <1>2, <1>6, NotYetAgreed
  <2> QED
    BY <1>1, <2>3, <2>4, <2>5, <2>6, PlaceStep
<1>7. CASE ~(opt.stonewall /\ armed[r])
  <2>1. pc'[r] = "ended" /\ sent' = sent
    BY <1>1, <1>5, <1>7 DEF LeaveLoop, Go, RanksOK
  <2>2. totalNum[r] = IF opt.stonewall THEN stonewallIterations[r] ELSE opt.num
    BY <1>2, <1>3, <1>7 DEF StepsOK, InRound
  <2>3. PhaseOK(r)'
    BY <2>1 DEF PhaseOK, Arriving, InRound, Stepping
  <2>4. ~opt.stonewall => stonewallIterations[r] = 0
    BY <1>2, <1>3 DEF StepsOK, Outside
  <2>5. StepsOK(r)'
    BY <1>2, <1>4, <2>1, <2>2, <2>4 DEF StepsOK, InRound, Stepping, Closed, Outside
  <2>6. Left(r)' = Left(r)
    BY <1>2, <1>4, <1>7, <2>1 DEF Left, Stepping, InLoop, Before
  <2> QED
    BY <1>1, <1>2, <1>4, <2>1, <2>3, <2>5, <2>6, StillLargest, PlaceStep
<1> QED
  BY <1>6, <1>7

\* LeaveLoopAgreed keeps the places.
LEMMA LeaveLoopAgreedPlaced ==
    ASSUME Known, NEW r \in Ranks, LeaveLoopAgreed(r)
    PROVE  PlaceInv'
<1>1. RankStep(r) /\ Own(r) /\ RanksOK /\ todo' = todo
  BY StepsOwn, Parts DEF RankStep, Known, IInv, LeaveLoopAgreed
<1>2. PICK n \in 0 .. opt.num : Largest(n) /\ stonewallIterations'[r] = n
  BY <1>1 DEF LeaveLoopAgreed, RanksOK
<1>3. /\ pc[r] = "agreeWait" /\ pc'[r] = "ended" /\ UNCHANGED <<opt, f, totalNum, armed, sent>>
  BY <1>1 DEF LeaveLoopAgreed, Go, RanksOK, round
<1>4. PhaseOK(r) /\ StepsOK(r)
  BY DEF Known, PlaceInv
<1>5. /\ Phase(r) = "benchmark" /\ Phase(r)' = "benchmark" /\ opt.stonewall /\ armed[r]
      /\ sent[r] = opt.num /\ totalNum[r] = opt.num /\ f[r] = opt.num
  BY <1>1, <1>3, <1>4, SamePhase DEF PhaseOK, StepsOK, InRound
<1>6. n = opt.num
  BY <1>2, <1>5, OptionFacts DEF Largest, Known
<1>7. PhaseOK(r)'
  BY <1>3 DEF PhaseOK, Arriving, InRound, Stepping
<1>8. StepsOK(r)'
  BY <1>2, <1>3, <1>5, <1>6 DEF StepsOK, InRound, Stepping, Closed, Outside
<1>9. Largest(stonewallIterations[r])'
  BY <1>2, <1>3 DEF Largest
<1> QED
  BY <1>1, <1>3, <1>7, <1>8, <1>9, PlaceStep

\* Close keeps the places.
LEMMA ClosePlaced ==
    ASSUME Known, NEW r \in Ranks, EndPhase(r) \/ Report(r)
    PROVE  PlaceInv'
<1>1. RankStep(r) /\ Own(r) /\ RanksOK /\ todo' = todo
  BY StepsOwn, Parts DEF RankStep, Known, IInv, EndPhase, Report
<1>2. /\ pc[r] \in {"ended", "endWait"} /\ pc'[r] \in {"endWait", "report"}
      /\ UNCHANGED <<opt, f, sent>> /\ stonewallIterations' = stonewallIterations
  BY <1>1 DEF EndPhase, Report, Go, RanksOK, round, agreed
<1>3. PhaseOK(r) /\ StepsOK(r)
  BY DEF Known, PlaceInv
<1>4. Phase(r)' = Phase(r) /\ Before(r)' = Before(r)
  BY <1>1, SamePhase
<1>5. PhaseOK(r)'
  BY <1>2 DEF PhaseOK, Arriving, InRound, Stepping
<1>6. StepsOK(r)'
  BY <1>2, <1>3, <1>4 DEF StepsOK, InRound, Stepping, Closed, Outside
<1>7. Agreed(r)' => Largest(stonewallIterations[r])'
  <2>1. Agreed(r)' => Agreed(r)
    BY <1>2, <1>4 DEF Agreed, Left, Stepping, Before
  <2> QED
    BY <1>2, <2>1 DEF Largest, Known, PlaceInv
<1> QED
  BY <1>1, <1>2, <1>5, <1>6, <1>7, PlaceStep

\* Reported keeps the places.
LEMMA ReportedPlaced ==
    ASSUME Known, NEW r \in Ranks, Reported(r)
    PROVE  PlaceInv'
<1>1. /\ Own(r) /\ Executed' = Executed /\ pc'[r] = "next" /\ todo[r] # << >>
      /\ todo'[r] = Tail(todo[r]) /\ Len(todo'[r]) = Len(todo[r]) - 1
      /\ Done(r)' = Done(r) + 1
  BY NextNumbers
<1>2. sent' = sent
  BY DEF Reported, agreed
<1>3. todo[r] \in Seq(Phases) /\ Executed \in Seq(Phases) /\ Done(r) \in Int
  BY Parts, PhaseFacts, Numbers DEF Known, IInv, RanksOK
<1>4. Suffix(r)'
  <2>1. Suffix(r)
    BY DEF Known, PlaceInv
  <2>2. Len(todo'[r]) <= Len(Executed')
    BY <1>1, <1>3, <2>1 DEF Suffix
  <2>3. ASSUME NEW j \in 1 .. Len(todo'[r])
        PROVE  todo'[r][j] = Executed'[Done(r)' + j]
    <3>1. j + 1 \in 1 .. Len(todo[r]) /\ todo'[r][j] = todo[r][j + 1]
      BY <1>1, <1>3
    <3>2. todo[r][j + 1] = Executed[Done(r) + (j + 1)]
      BY <2>1, <3>1 DEF Suffix
    <3>3. Done(r) + (j + 1) = Done(r) + 1 + j
      <4> HIDE DEF Done
      <4> QED
        BY <1>3
    <3> QED
      BY <1>1, <3>1, <3>2, <3>3
  <2> QED
    BY <2>2, <2>3 DEF Suffix
<1>5. PhaseOK(r)' /\ StepsOK(r)'
  BY <1>1 DEF PhaseOK, StepsOK, Arriving, InRound, Stepping, Closed, Outside
<1>6. ~Agreed(r)'
  BY <1>1 DEF Agreed, Left, Stepping
<1>7. Placed(r)'
  BY <1>4, <1>5, <1>6 DEF Placed
<1>8. \A s \in Ranks \ {r} : Placed(s)'
  BY <1>1, <1>2, OthersPlaced
<1> QED
  BY <1>7, <1>8 DEF PlaceInv, Placed

\* Every step of a rank keeps the places.
LEMMA RankPlaced ==
    ASSUME Known, NEW r \in Ranks, RankStep(r)
    PROVE  PlaceInv'
<1>1. CASE \/ ReturnPosition(r) \/ PositionKnown(r) \/ StorePosition(r) \/ StartPhase(r)
           \/ PhaseStarted(r)
  BY <1>1, BeginPlaced, StartPhasePlaced, PhaseStartedPlaced
<1>2. CASE Precreate(r) \/ Cleanup(r)
  BY <1>2, OwnPhasePlaced
<1>3. CASE Stat(r) \/ Read(r) \/ Remove(r) \/ Create(r) \/ Write(r) \/ GoOn(r)
  BY <1>3, StepPlaced
<1>4. CASE \/ BreakOff(r) \/ WearOut(r) \/ WearOutAgreed(r) \/ LeaveLoop(r)
           \/ LeaveLoopAgreed(r)
  BY <1>4, NoBreakOff, WearOutPlaced, WearOutAgreedPlaced, LeaveLoopPlaced,
     LeaveLoopAgreedPlaced
<1>5. CASE EndPhase(r) \/ Report(r) \/ Reported(r)
  BY <1>5, ClosePlaced, ReportedPlaced
<1> QED
  BY <1>1, <1>2, <1>3, <1>4, <1>5 DEF RankStep

----------------------------------------------------------------------------
(***************************************************************************)
(* All ranks begin a phase at the same index.                              *)
(***************************************************************************)
Aligned == Known /\ OriginInv

\* The index before the first phase is no other rank's to change.
LEMMA StoredStays ==
    ASSUME Aligned, NEW r \in Ranks, RankStep(r), NEW s \in Ranks, pc[s] \in Arriving
    PROVE  position' = position /\ Stored' = Stored
<1>1. RankStep(r) /\ Own(r)
  BY StepsOwn DEF Aligned, Known
<1>2. position' = position \/ StorePosition(r)
  <2>1. CASE ReturnPosition(r) \/ PositionKnown(r) \/ StartPhase(r) \/ PhaseStarted(r)
    BY <2>1 DEF ReturnPosition, PositionKnown, StartPhase, PhaseStarted, disk
  <2>2. CASE Precreate(r) \/ Cleanup(r) \/ EndPhase(r) \/ Report(r) \/ Reported(r)
    BY <2>2 DEF Precreate, Cleanup, EndPhase, Report, Reported, disk
  <2>3. CASE Stat(r) \/ Read(r) \/ Remove(r) \/ Create(r) \/ Write(r) \/ GoOn(r)
    BY <2>3 DEF Stat, Read, Remove, Create, Write, GoOn, disk
  <2>4. CASE \/ BreakOff(r) \/ WearOut(r) \/ WearOutAgreed(r) \/ LeaveLoop(r)
             \/ LeaveLoopAgreed(r)
    BY <2>4 DEF BreakOff, WearOut, WearOutAgreed, LeaveLoop, LeaveLoopAgreed, disk
  <2> QED
    BY <1>1, <2>1, <2>2, <2>3, <2>4 DEF RankStep
<1>3. ~StorePosition(r)
  <2> SUFFICES ASSUME StorePosition(r) PROVE FALSE
    OBVIOUS
  <2>1. todo[r] = << >> /\ Executed \in Seq(Phases) /\ Executed # << >>
    BY PhaseFacts DEF StorePosition, Aligned, Known
  <2>2. Done(r) >= 1 /\ Done(r) \in Int
    BY <2>1 DEF Done
  <2>3. Done(s) = 0 /\ pc[s] \notin {"endWait", "report"}
    BY DEF Aligned, Known, PlaceInv, PhaseOK, Arriving
  <2>4. Near(s, r)
    BY DEF Aligned, Known, NearInv
  <2> HIDE DEF Done
  <2> QED
    BY <2>2, <2>3, <2>4 DEF Near
<1>4. position' = position
  BY <1>2, <1>3
<1>5. Executed' = Executed
  BY <1>1 DEF Own, Executed
<1> QED
  BY <1>4, <1>5 DEF Stored

\* A step of one rank leaves the others and their indices where they are.
LEMMA OthersAt ==
    ASSUME Aligned, NEW r \in Ranks, RankStep(r), NEW s \in Ranks \ {r}
    PROVE  /\ At(s)' = At(s) /\ Origin(s)' = Origin(s) /\ index'[s] = index[s]
           /\ Done(s)' = Done(s) /\ Phase(s)' = Phase(s)
<1>1. Own(r) /\ Counted(s)' = Counted(s) /\ Done(s)' = Done(s) /\ Phase(s)' = Phase(s)
  BY StepsOwn, OthersStay DEF Aligned, Known
<1>2. pc'[s] = pc[s] /\ index'[s] = index[s] /\ f'[s] = f[s]
  BY <1>1 DEF Own
<1>3. At(s)' = At(s)
  BY <1>2, StoredStays DEF At
<1> QED
  BY <1>1, <1>2, <1>3 DEF Origin

\* A step within a phase, which leaves the index it began at.
LEMMA OriginStep ==
    ASSUME Aligned, NEW r \in Ranks, RankStep(r), todo'[r] = todo[r],
           Origin(r)' = Origin(r),
           pc[r] \in {"endWait", "report"} => index'[r] = index[r],
           Phase(r) = "precreate" => At(r)' = 0,
           pc'[r] = "end" /\ r = 0 /\ ~CleansUp => position' = index'[r],
           r = 0 \/ position' = position
    PROVE  OriginInv'
<1>1. Own(r) /\ Done(r)' = Done(r) /\ Phase(r)' = Phase(r) /\ CleansUp' = CleansUp
  BY StepsOwn, SamePhase DEF Aligned, Known
<1>2. \A s \in Ranks \ {r} :
         /\ At(s)' = At(s) /\ Origin(s)' = Origin(s) /\ index'[s] = index[s]
         /\ Done(s)' = Done(s) /\ Phase(s)' = Phase(s)
  BY OthersAt
<1>3. ASSUME NEW p \in Ranks, NEW q \in Ranks PROVE SameOrigin(p, q)'
  <2>1. SameOrigin(p, q) /\ SameOrigin(r, r)
    BY DEF Aligned, OriginInv
  <2>2. Near(p, q) /\ Done(p) \in Int
    BY Numbers DEF Aligned, Known, NearInv
  <2>3. Done(q)' = Done(q) /\ Done(p)' = Done(p) /\ Origin(q)' = Origin(q)
    BY <1>1, <1>2
  <2>4. Origin(p)' = Origin(p)
    BY <1>2
  <2>5. Done(q) = Done(p) + 1 => index'[p] = index[p]
    BY <1>2, <2>2 DEF Near
  <2> QED
    BY <2>1, <2>3, <2>4, <2>5 DEF SameOrigin
<1>4. pc'[0] = "end" /\ ~CleansUp' => position' = index'[0]
  <2>1. CASE r = 0
    BY <1>1, <2>1
  <2>2. CASE r # 0
    <3>1. 0 \in Ranks \ {r}
      BY <2>2, OptionFacts DEF Aligned, Known
    <3>2. pc'[0] = pc[0] /\ index'[0] = index[0]
      BY <1>1, <3>1 DEF Own
    <3> QED
      BY <1>1, <2>2, <3>2 DEF Aligned, OriginInv
  <2> QED
    BY <2>1, <2>2
<1>5. \A s \in Ranks : Phase(s)' = "precreate" => At(s)' = 0
  BY <1>1, <1>2 DEF Aligned, OriginInv
<1> QED
  BY <1>3, <1>4, <1>5 DEF OriginInv

\* Most steps have nothing to do with the index.
LEMMA IndexAlone ==
    ASSUME Aligned, NEW r \in Ranks, RankStep(r), todo'[r] = todo[r],
           index'[r] = index[r], UNCHANGED position,
           pc[r] \notin Arriving, pc'[r] \notin Arriving \cup {"end"},
           \/ pc[r] \notin {"endWait", "report"} /\ pc'[r] \notin {"endWait", "report"}
           \/ /\ pc[r] \in {"endWait", "report"} /\ pc'[r] \in {"endWait", "report"}
              /\ f'[r] = f[r]
    PROVE  OriginInv'
<1>1. Own(r) /\ Phase(r)' = Phase(r)
  BY StepsOwn, SamePhase DEF Aligned, Known
<1>2. At(r) = index[r] /\ At(r)' = index[r]
  BY DEF At
<1>3. Counted(r)' = Counted(r) /\ (Counted(r) => f'[r] = f[r])
  BY <1>1 DEF Counted, Own
<1>4. Origin(r)' = Origin(r)
  BY <1>2, <1>3 DEF Origin
<1>5. Phase(r) = "precreate" => At(r)' = 0
  BY <1>2 DEF Aligned, OriginInv
<1> QED
  BY <1>4, <1>5, OriginStep

\* Phase keeps the origin of the indices.
LEMMA PhaseOrigin ==
    ASSUME Aligned, NEW r \in Ranks,
           \/ StartPhase(r) \/ PhaseStarted(r) \/ Precreate(r) \/ Cleanup(r) \/ Report(r)
    PROVE  OriginInv'
<1>1. RankStep(r) /\ RanksOK
  BY Parts DEF RankStep, Aligned, Known, IInv
<1>2. /\ UNCHANGED <<index, position, todo>>
      /\ pc[r] \in {"next", "startWait", "precreate", "cleanup", "endWait"}
      /\ pc'[r] \in {"startWait", "precreate", "stat", "cleanup", "ended", "report"}
      /\ pc[r] = "endWait" <=> pc'[r] = "report"
      /\ pc[r] = "endWait" => f' = f
  BY <1>1 DEF StartPhase, PhaseStarted, Precreate, Cleanup, Report, Go, RanksOK, disk, round
<1> QED
  BY <1>1, <1>2, IndexAlone DEF Arriving

\* Round keeps the origin of the indices.
LEMMA RoundOrigin ==
    ASSUME Aligned, NEW r \in Ranks,
           \/ Stat(r) \/ Read(r) \/ Remove(r) \/ Create(r) \/ Write(r) \/ GoOn(r)
           \/ WearOut(r) \/ WearOutAgreed(r) \/ LeaveLoop(r) \/ LeaveLoopAgreed(r)
    PROVE  OriginInv'
<1>1. RankStep(r) /\ RanksOK
  BY Parts DEF RankStep, Aligned, Known, IInv
<1>2. /\ UNCHANGED <<index, position, todo>>
      /\ pc[r] \in InRound
  BY DEF Stat, Read, Remove, Create, Write, GoOn, WearOut, WearOutAgreed, LeaveLoop,
     LeaveLoopAgreed, disk, round, InRound, Stepping
<1>3. CASE Stat(r) \/ Read(r) \/ Remove(r) \/ Create(r) \/ Write(r) \/ GoOn(r)
  <2>1. pc'[r] \in InRound
    BY <1>1, <1>3 DEF Stat, Read, Remove, Create, Write, GoOn, NextDataSet, Go, RanksOK,
       InRound, Stepping
  <2> QED
    BY <1>1, <1>2, <2>1, IndexAlone DEF InRound, Stepping, Arriving
<1>4. CASE WearOut(r) \/ WearOutAgreed(r) \/ LeaveLoop(r) \/ LeaveLoopAgreed(r)
  <2>1. pc'[r] \in InRound \cup {"ended"}
    BY <1>1, <1>4 DEF WearOut, WearOutAgreed, LeaveLoop, LeaveLoopAgreed, Go, RanksOK,
       InRound, Stepping
  <2> QED
    BY <1>1, <1>2, <2>1, IndexAlone DEF InRound, Stepping, Arriving
<1> QED
  BY <1>3, <1>4

\* Begin keeps the origin of the indices.
LEMMA BeginOrigin ==
    ASSUME Aligned, NEW r \in Ranks, ReturnPosition(r) \/ PositionKnown(r)
    PROVE  OriginInv'
<1>1. RankStep(r) /\ RanksOK /\ Own(r) /\ StartIndex(0) = 0 /\ StartIndex(position) = position
  BY Parts, StepsOwn, OptionFacts DEF RankStep, Aligned, Known, IInv, StartIndex
<1>2. UNCHANGED <<position, todo>> /\ pc[r] \in Arriving
  BY DEF ReturnPosition, PositionKnown, disk, Arriving
<1>3. Phase(r) = Executed[1] /\ Head(todo[r]) = Executed[1] /\ Executed' = Executed
  BY <1>1, <1>2, FirstPhase, SamePhase DEF Aligned, Known
<1>4. pc[r] = "positionWait" => Executed[1] # "precreate"
  BY DEF Aligned, Known, PlaceInv, PhaseOK, Opening
<1>5. /\ pc'[r] \in {"next", "positionWait"}
      /\ pc'[r] = "next" => index'[r] = Stored
  BY <1>1, <1>3, <1>4 DEF ReturnPosition, PositionKnown, Stored, Go, RanksOK
<1>6. At(r) = Stored /\ Stored' = Stored
  BY <1>2, <1>3 DEF At, Stored
<1>7. At(r)' = Stored
  BY <1>5, <1>6 DEF At, Arriving
<1>8. ~Counted(r) /\ ~Counted(r)'
  BY <1>2, <1>5 DEF Counted, Arriving
<1>9. Phase(r) = "precreate" => At(r)' = 0
  BY <1>3, <1>7 DEF Stored
<1> QED
  BY <1>1, <1>2, <1>5, <1>6, <1>7, <1>8, <1>9, OriginStep DEF Origin, Arriving

\* EndPhase keeps the origin of the indices.
LEMMA EndPhaseOrigin ==
    ASSUME Aligned, NEW r \in Ranks, EndPhase(r)
    PROVE  OriginInv'
<1>1. RankStep(r) /\ RanksOK /\ Own(r) /\ Bounds(r)
  BY Parts, StepsOwn DEF RankStep, Aligned, Known, IInv
<1>2. /\ UNCHANGED <<position, todo, f>> /\ pc[r] = "ended" /\ pc'[r] = "endWait"
      /\ index'[r] = IF Head(todo[r]) = "benchmark" /\ ~opt.readOnly
                     THEN index[r] + f[r] ELSE index[r]
  BY <1>1 DEF EndPhase, Go, RanksOK, disk, round
<1>3. Phase(r) = Head(todo[r]) /\ Phase(r)' = Phase(r) /\ opt' = opt
  BY <1>1, <1>2, SamePhase DEF Bounds, Outside, Phase, Own
<1>4. At(r) = index[r] /\ At(r)' = index'[r] /\ ~Counted(r) /\ Origin(r) = index[r]
  BY <1>2 DEF At, Counted, Origin, Arriving
<1>5. Origin(r)' = index[r]
  <2>1. index[r] \in Int /\ f[r] \in Int
    BY <1>1, OptionFacts DEF RanksOK, Aligned, Known
  <2>2. CASE Phase(r) = "benchmark" /\ ~opt.readOnly
    <3>1. Counted(r)' /\ index'[r] = index[r] + f[r] /\ f'[r] = f[r]
      BY <1>2, <1>3, <2>2 DEF Counted
    <3> QED
      BY <2>1, <3>1 DEF Origin
  <2>3. CASE ~(Phase(r) = "benchmark" /\ ~opt.readOnly)
    BY <1>2, <1>3, <1>4, <2>3 DEF Counted, Origin
  <2> QED
    BY <2>2, <2>3
<1>6. Phase(r) = "precreate" => At(r)' = 0
  BY <1>2, <1>3, <1>4 DEF Aligned, OriginInv
<1> QED
  BY <1>1, <1>2, <1>4, <1>5, <1>6, OriginStep

\* StorePosition keeps the origin of the indices.
LEMMA StorePositionOrigin ==
    ASSUME Aligned, NEW r \in Ranks, StorePosition(r)
    PROVE  OriginInv'
<1>1. RankStep(r) /\ RanksOK /\ Own(r)
  BY Parts, StepsOwn DEF RankStep, Aligned, Known, IInv
<1>2. /\ UNCHANGED <<index, todo>> /\ pc[r] = "next" /\ pc'[r] = "end" /\ todo[r] = << >>
      /\ position' = IF r = 0 /\ ~CleansUp THEN index[r] ELSE position
  BY <1>1 DEF StorePosition, Go, RanksOK, round
<1>3. At(r) = index[r] /\ At(r)' = index[r] /\ ~Counted(r) /\ ~Counted(r)'
  BY <1>2 DEF At, Counted, Arriving
<1>4. Phase(r) = "none"
  BY <1>2 DEF Phase
<1> QED
  BY <1>1, <1>2, <1>3, <1>4, OriginStep DEF Origin

\* Who goes to the next phase begins it where all the others do.
LEMMA ReportedOrigin ==
    ASSUME Aligned, NEW r \in Ranks, Reported(r)
    PROVE  OriginInv'
<1>1. RankStep(r) /\ RanksOK
  BY Parts DEF RankStep, Aligned, Known, IInv
<1>2. /\ Own(r) /\ Done(r)' = Done(r) + 1 /\ pc[r] = "report" /\ pc'[r] = "next"
      /\ todo[r] # << >> /\ todo'[r] = Tail(todo[r]) /\ todo'[r] \in Seq(Phases)
      /\ Executed' = Executed
  BY NextNumbers DEF Aligned
<1>3. index' = index /\ position' = position
  BY DEF Reported, disk
<1>4. \A s \in Ranks \ {r} :
         /\ At(s)' = At(s) /\ Origin(s)' = Origin(s) /\ index'[s] = index[s]
         /\ Done(s)' = Done(s) /\ Phase(s)' = Phase(s)
  BY <1>1, OthersAt
<1>5. Origin(r)' = index[r] /\ At(r)' = index[r]
  BY <1>2, <1>3 DEF Origin, Counted, At, Arriving
<1>6. ASSUME NEW s \in Ranks
      PROVE  /\ Done(s) \in Int
             /\ Done(s) = Done(r) => index[s] = index[r]
             /\ Done(s) = Done(r) + 1 => Origin(s) = index[r]
             /\ Done(s) = Done(r) \/ Done(s) = Done(r) + 1
  <2>1. Done(s) \in Int /\ SameOrigin(r, s)
    BY Numbers DEF Aligned, Known, OriginInv
  <2>2. Done(s) = Done(r) \/ Done(s) = Done(r) + 1
    BY AtTheEnd DEF Aligned
  <2>3. ASSUME Done(s) = Done(r) PROVE index[s] = index[r]
    <3>1. pc[s] \in {"endWait", "report"}
      BY <2>3, AtTheEnd DEF Aligned
    <3>2. Phase(s) = Phase(r) /\ (Phase(r) = "benchmark" => f[s] = f[r])
      BY <1>2, <2>3, <3>1, SameEnd DEF Aligned
    <3>3. Origin(s) = Origin(r)
      BY <2>1, <2>3 DEF SameOrigin
    <3>4. Counted(s) = Counted(r) /\ At(s) = index[s] /\ At(r) = index[r]
      BY <1>2, <3>1, <3>2 DEF Counted, At, Arriving
    <3>5. index[s] \in Int /\ index[r] \in Int /\ f[s] \in Int /\ f[r] \in Int
      BY <1>1, OptionFacts DEF RanksOK, Aligned, Known
    <3>6. CASE Counted(r)
      <4>1. index[s] - f[s] = index[r] - f[r] /\ f[s] = f[r]
        BY <3>2, <3>3, <3>4, <3>6 DEF Origin, Counted
      <4> QED
        BY <3>5, <4>1
    <3>7. CASE ~Counted(r)
      BY <3>3, <3>4, <3>7 DEF Origin
    <3> QED
      BY <3>6, <3>7
  <2> QED
    BY <2>1, <2>2, <2>3 DEF SameOrigin
<1>7. ASSUME NEW p \in Ranks, NEW q \in Ranks PROVE SameOrigin(p, q)'
  <2>1. SameOrigin(p, q) /\ Done(r) \in Int
    BY Numbers DEF Aligned, OriginInv, Known
  <2> HIDE DEF Done, Origin
  <2>2. CASE p # r /\ q # r
    BY <1>4, <2>1, <2>2 DEF SameOrigin
  <2>3. CASE p = r /\ q # r
    BY <1>2, <1>3, <1>4, <1>5, <1>6, <2>1, <2>3 DEF SameOrigin
  <2>4. CASE p # r /\ q = r
    <3>1. Done(p) = Done(r) => index[p] = index[r]
      BY <1>6
    <3>2. Done(p) = Done(r) + 1 => Origin(p) = index[r]
      BY <1>6
    <3> QED
      BY <1>2, <1>3, <1>4, <1>5, <1>6, <2>1, <2>4, <3>1, <3>2 DEF SameOrigin
  <2>5. CASE p = r /\ q = r
    BY <1>2, <2>1, <2>5 DEF SameOrigin
  <2> QED
    BY <2>2, <2>3, <2>4, <2>5
<1>8. pc'[0] = "end" /\ ~CleansUp' => position' = index'[0]
  <2>1. CleansUp' = CleansUp
    BY <1>2 DEF CleansUp
  <2>2. 0 = r \/ pc'[0] = pc[0]
    BY <1>2, OptionFacts DEF Own, Aligned, Known
  <2> QED
    BY <1>2, <1>3, <2>1, <2>2 DEF Aligned, OriginInv
<1>9. Phase(r)' # "precreate"
  <2> SUFFICES ASSUME Phase(r)' = "precreate" PROVE FALSE
    OBVIOUS
  <2>1. Suffix(r)' /\ Executed \in Seq(Phases)
    BY <1>1, RankPlaced, PhaseFacts DEF PlaceInv, Aligned, Known
  <2>2. todo'[r] # << >> /\ todo'[r][1] = "precreate"
    BY <1>2 DEF Phase
  <2>3. 1 \in 1 .. Len(todo'[r]) /\ Len(todo'[r]) \in Nat
    BY <1>2, <2>2
  <2>4. Executed[Done(r)' + 1] = "precreate" /\ Len(todo'[r]) <= Len(Executed)
    BY <1>2, <2>1, <2>2, <2>3 DEF Suffix
  <2>5. Done(r)' = Len(Executed) - Len(todo'[r])
    BY <1>2 DEF Done
  <2>6. Done(r)' + 1 \in DOMAIN Executed
    <3>1. Len(Executed) \in Nat /\ DOMAIN Executed = 1 .. Len(Executed)
      BY <2>1
    <3>2. \A a, b \in Nat : b >= 1 /\ b <= a => (a - b) + 1 \in 1 .. a
      OBVIOUS
    <3> QED
      BY <2>3, <2>4, <2>5, <3>1, <3>2
  <2>7. Done(r)' + 1 = 1
    BY <2>4, <2>6, PhaseFacts DEF Aligned, Known
  <2>8. Done(r) >= 0 /\ Done(r) \in Int
    <3>1. Len(todo[r]) <= Len(Executed) /\ Len(todo[r]) \in Int /\ Len(Executed) \in Int
      BY Numbers DEF Aligned, Known, PlaceInv, Suffix
    <3> QED
      BY <3>1 DEF Done
  <2> HIDE DEF Done
  <2> QED
    BY <1>2, <2>7, <2>8
<1>10. \A s \in Ranks : Phase(s)' = "precreate" => At(s)' = 0
  BY <1>4, <1>9 DEF Aligned, OriginInv
<1> QED
  BY <1>7, <1>8, <1>10 DEF OriginInv

\* Every step of a rank keeps the origins.
LEMMA RankOrigin ==
    ASSUME Aligned, NEW r \in Ranks, RankStep(r)
    PROVE  OriginInv'
<1>1. CASE ReturnPosition(r) \/ PositionKnown(r)
  BY <1>1, BeginOrigin
<1>2. CASE \/ StartPhase(r) \/ PhaseStarted(r) \/ Precreate(r) \/ Cleanup(r) \/ Report(r)
  BY <1>2, PhaseOrigin
<1>3. CASE \/ Stat(r) \/ Read(r) \/ Remove(r) \/ Create(r) \/ Write(r) \/ GoOn(r)
           \/ WearOut(r) \/ WearOutAgreed(r) \/ LeaveLoop(r) \/ LeaveLoopAgreed(r)
  BY <1>3, RoundOrigin
<1>4. CASE BreakOff(r) \/ EndPhase(r) \/ Reported(r) \/ StorePosition(r)
  BY <1>4, NoBreakOff, EndPhaseOrigin, ReportedOrigin, StorePositionOrigin DEF Aligned
<1> QED
  BY <1>1, <1>2, <1>3, <1>4 DEF RankStep

----------------------------------------------------------------------------
(***************************************************************************)
(* Every data set has one rank that reads it and one that writes it.       *)
(***************************************************************************)
LEMMA Remainder ==
    ASSUME NEW n \in Nat \ {0}, NEW x \in Int, NEW z \in Int, NEW m \in 0 .. n - 1,
           x = n * z + m
    PROVE  x % n = m
OBVIOUS

\* Every number has a quotient and a remainder.
LEMMA Quotient ==
    ASSUME NEW n \in Nat \ {0}, NEW x \in Int
    PROVE  \E z \in Int, m \in 0 .. n - 1 : x = n * z + m /\ x % n = m
<1> DEFINE z == x \div n
           m == x - n * z
<1>1. n * z <= x /\ x < n * z + n /\ z \in Int
  OBVIOUS
<1> HIDE DEF z
<1>2. m \in 0 .. n - 1 /\ x = n * z + m
  BY <1>1
<1> HIDE DEF m
<1>3. x % n = m
  BY <1>1, <1>2, Remainder
<1> QED
  BY <1>1, <1>2, <1>3

\* A multiple leaves nothing over.
LEMMA Multiple ==
    ASSUME NEW n \in Nat \ {0}, NEW z \in Int, -n < n * z, n * z < n
    PROVE  z = 0
<1>1. z >= 1 => n * z >= n
  OBVIOUS
<1>2. z <= -1 => n * z <= -n
  OBVIOUS
<1> QED
  BY <1>1, <1>2

\* Of all the ranks exactly one comes to a given place of the circle.
LEMMA OneOfAll ==
    ASSUME NEW s \in Int, NEW t \in Ranks
    PROVE  /\ \E a \in Ranks : t = (a + s) % NumTasks
           /\ \A a, b \in Ranks : (a + s) % NumTasks = (b + s) % NumTasks => a = b
<1>1. NumTasks \in Nat \ {0} /\ t \in Int /\ Ranks = 0 .. NumTasks - 1
  BY NumTasksAssumption DEF Ranks
<1>2. \E a \in Ranks : t = (a + s) % NumTasks
  <2>1. t - s \in Int
    BY <1>1
  <2>2. PICK z \in Int, a \in Ranks : t - s = NumTasks * z + a
    <3>1. \E z \in Int, m \in 0 .. NumTasks - 1 : t - s = NumTasks * z + m
      <4> DEFINE x == t - s
                 n == NumTasks
      <4>1. x \in Int /\ n \in Nat \ {0}
        BY <1>1, <2>1
      <4> HIDE DEF x, n
      <4>2. \E z \in Int, m \in 0 .. n - 1 : x = n * z + m
        BY <4>1, Quotient, Zenon
      <4> QED
        BY <4>2 DEF x, n
    <3> QED
      BY <1>1, <3>1
  <2>3. NumTasks * z \in Int /\ NumTasks * (-z) = -(NumTasks * z)
    BY <1>1
  <2>4. a + s = NumTasks * (-z) + t /\ a + s \in Int /\ -z \in Int
    BY <1>1, <2>2, <2>3
  <2>5. (a + s) % NumTasks = t
    BY <1>1, <2>4, Remainder
  <2> QED
    BY <2>2, <2>5
<1>3. ASSUME NEW a \in Ranks, NEW b \in Ranks, (a + s) % NumTasks = (b + s) % NumTasks
      PROVE  a = b
  <2>0. a \in Int /\ b \in Int /\ a + s \in Int /\ b + s \in Int
    BY <1>1
  <2>1. PICK y \in Int, m \in Ranks : a + s = NumTasks * y + m /\ (a + s) % NumTasks = m
    BY <1>1, <2>0, Quotient
  <2>2. PICK z \in Int, k \in Ranks : b + s = NumTasks * z + k /\ (b + s) % NumTasks = k
    BY <1>1, <2>0, Quotient
  <2>3. NumTasks * (y - z) = a - b
    <3>1. NumTasks * (y - z) = NumTasks * y - NumTasks * z
      BY <1>1
    <3>2. NumTasks * y \in Int /\ NumTasks * z \in Int
      BY <1>1
    <3>3. m = k /\ m \in Int
      BY <1>1, <1>3, <2>1, <2>2
    <3> QED
      BY <2>0, <2>1, <2>2, <3>1, <3>2, <3>3
  <2>4. -NumTasks < a - b /\ a - b < NumTasks
    BY <1>1
  <2>5. y - z = 0
    BY <1>1, <2>3, <2>4, Multiple
  <2> QED
    BY <1>1, <2>0, <2>3, <2>5
<1> QED
  BY <1>2, <1>3

\* Who reads an object and who has written it.
LEMMA ReadersWriters ==
    ASSUME IInv, AllPlain, NEW o \in Ranks \X DataSets \X Nat
    PROVE  /\ \E a \in Ranks : Reads(a, o)
           /\ \E b \in Ranks : Writes(b, o)
           /\ \A b, c \in Ranks : Writes(b, o) /\ Writes(c, o) => b = c
           /\ \A b, c \in Ranks : Reads(b, o) /\ Reads(c, o) => b = c
<1>1. o[1] \in Ranks /\ o[2] \in Nat
  BY OptionFacts DEF DataSets
<1>2. Shift(o[2]) \in Int
  BY <1>1, OptionFacts DEF Shift
<1>3. \A a \in Ranks : a - Shift(o[2]) = a + (-Shift(o[2]))
  BY <1>2 DEF Ranks
<1>4. -Shift(o[2]) \in Int
  BY <1>2
<1>5. /\ \E a \in Ranks : o[1] = (a + (-Shift(o[2]))) % NumTasks
      /\ \A b, c \in Ranks :
            (b + (-Shift(o[2]))) % NumTasks = (c + (-Shift(o[2]))) % NumTasks => b = c
  BY <1>1, <1>4, OneOfAll
<1>6. /\ \E b \in Ranks : o[1] = (b + Shift(o[2])) % NumTasks
      /\ \A b, c \in Ranks :
            (b + Shift(o[2])) % NumTasks = (c + Shift(o[2])) % NumTasks => b = c
  BY <1>1, <1>2, OneOfAll
<1>7. /\ \E a \in Ranks : Reads(a, o)
      /\ \A b, c \in Ranks : Reads(b, o) /\ Reads(c, o) => b = c
  BY <1>3, <1>5 DEF Reads
<1>8. /\ \E b \in Ranks : Writes(b, o)
      /\ \A b, c \in Ranks : Writes(b, o) /\ Writes(c, o) => b = c
  BY <1>6 DEF Writes
<1> QED
  BY <1>7, <1>8

----------------------------------------------------------------------------
(***************************************************************************)
(* The queue: what the ranks around a step have taken and made.            *)
(***************************************************************************)
Ready == Aligned /\ QueueInv /\ DirsInv /\ NoErrors

\* Ranks at the same phase have the same before them.
LEMMA SameTodo ==
    ASSUME Known, NEW r \in Ranks, NEW s \in Ranks, Done(s) = Done(r)
    PROVE  todo[s] = todo[r] /\ Phase(s) = Phase(r)
<1>1. todo[r] \in Seq(Phases) /\ todo[s] \in Seq(Phases) /\ Executed \in Seq(Phases)
  BY Parts, PhaseFacts DEF Known, IInv, RanksOK
<1>2. Len(todo[s]) = Len(todo[r])
  BY <1>1 DEF Done
<1>3. \A j \in 1 .. Len(todo[r]) : todo[s][j] = todo[r][j]
  BY <1>2 DEF Known, PlaceInv, Suffix
<1>4. todo[s] = todo[r]
  BY <1>1, <1>2, <1>3
<1> QED
  BY <1>4 DEF Phase

\* The phase a rank is in is one of the execution.
LEMMA PhaseOfExecution ==
    ASSUME Known, NEW r \in Ranks, Phase(r) # "none"
    PROVE  /\ Done(r) \in 0 .. Len(Executed) - 1
           /\ Phase(r) = Executed[Done(r) + 1] /\ Done(r) + 1 \in DOMAIN Executed
<1>1. todo[r] \in Seq(Phases) /\ Executed \in Seq(Phases) /\ todo[r] # << >> /\ Suffix(r)
  BY Parts, PhaseFacts DEF Known, IInv, RanksOK, Phase, PlaceInv
<1>2. Len(todo[r]) \in Nat \ {0} /\ Len(Executed) \in Nat /\ Len(todo[r]) <= Len(Executed)
  BY <1>1 DEF Suffix
<1>3. Done(r) \in 0 .. Len(Executed) - 1
  BY <1>2 DEF Done
<1>4. todo[r][1] = Executed[Done(r) + 1]
  BY <1>1, <1>2 DEF Suffix
<1>5. Phase(r) = todo[r][1]
  BY <1>1 DEF Phase
<1>6. Done(r) + 1 \in DOMAIN Executed
  <2>1. DOMAIN Executed = 1 .. Len(Executed)
    BY <1>1
  <2> HIDE DEF Done
  <2> QED
    BY <1>2, <1>3, <2>1
<1> QED
  BY <1>3, <1>4, <1>5, <1>6

\* The precreation is over in every other phase.
LEMMA LaterPhase ==
    ASSUME Known, NEW r \in Ranks, Phase(r) \in {"benchmark", "cleanup"}
    PROVE  execution > 1 \/ Done(r) > 0
<1>1. /\ Done(r) \in 0 .. Len(Executed) - 1 /\ Phase(r) = Executed[Done(r) + 1]
      /\ Done(r) + 1 \in DOMAIN Executed
  BY PhaseOfExecution
<1>2. execution \in Nat \ {0} /\ Len(Executed) \in Nat
  <2>1. opt.executions \in Seq(Seq(Phases))
    BY Parts, OptionTypes DEF Known, IInv, WorldOK
  <2> QED
    BY <2>1, PhaseFacts, Numbers DEF Known
<1>3. Done(r) = 0 => execution # 1
  <2>1. Done(r) = 0 => Phase(r) = Executed[1] /\ 1 \in DOMAIN Executed
    BY <1>1
  <2> QED
    BY <2>1, PhaseFacts DEF Known
<1> HIDE DEF Done
<1> QED
  BY <1>1, <1>2, <1>3

\* The types the queue relies on.
LEMMA QueueTypes ==
    ASSUME Known, NEW r \in Ranks, NEW k \in DataSets
    PROVE  /\ At(r) \in Nat /\ index[r] \in Nat /\ f[r] \in Nat /\ d[r] \in Nat /\ k \in Nat
           /\ \A places : Over(r, k, places) \in Nat
           /\ Taken(r, k) \in Nat /\ Made(r, k) \in Nat /\ Origin(r) \in Int
<1>1. index[r] \in Nat /\ f[r] \in Nat /\ d[r] \in Nat /\ position \in Nat /\ k \in Nat
  BY Parts, OptionFacts DEF Known, IInv, RanksOK, WorldOK, DataSets
<1>2. At(r) \in Nat
  BY <1>1 DEF At, Stored
<1>3. \A places : Over(r, k, places) \in Nat
  BY <1>1 DEF Over
<1> QED
  BY <1>1, <1>2, <1>3 DEF Taken, Made, Origin

\* In a round the ranks are all in the same phase.
LEMMA Together ==
    ASSUME Aligned, NEW r \in Ranks, pc[r] \in InRound \cup {"ended"},
           Phase(r) = "benchmark", NEW s \in Ranks
    PROVE  /\ Done(s) = Done(r) /\ Phase(s) = "benchmark" /\ Origin(s) = index[r]
           /\ Filled(s) /\ ~Cleaned(s)
<1>1. Left(r) >= 1
  BY DEF Left, InRound, Stepping, InLoop, Before
<1>2. Near(r, s) /\ Near(s, r) /\ Done(r) \in Int /\ Done(s) \in Int
  BY Numbers DEF Aligned, Known, NearInv
<1>3. pc[r] \notin {"endWait", "report"}
  BY DEF InRound, Stepping
<1>4. Done(s) = Done(r)
  <2> HIDE DEF Done, Left
  <2> QED
    BY <1>1, <1>2, <1>3 DEF Near
<1>5. Phase(s) = "benchmark"
  BY <1>4, SameTodo DEF Aligned
<1>6. Origin(r) = index[r]
  BY <1>3 DEF Origin, Counted, At, Arriving, InRound, Stepping
<1>7. Origin(s) = index[r]
  BY <1>4, <1>6 DEF Aligned, OriginInv, SameOrigin
<1>8. Filled(s) /\ ~Cleaned(s)
  BY <1>5, LaterPhase DEF Filled, Cleaned, Aligned
<1> QED
  BY <1>4, <1>5, <1>7, <1>8

\* No round takes or makes more than num objects of a data set.
LEMMA WithinRound ==
    ASSUME Aligned, NEW s \in Ranks, Phase(s) = "benchmark", NEW k \in DataSets
    PROVE  /\ Taken(s, k) <= Origin(s) + opt.num
           /\ Origin(s) <= Made(s, k)
<1>1. /\ At(s) \in Nat /\ index[s] \in Nat /\ f[s] \in Nat /\ d[s] \in Nat /\ k \in Nat
      /\ opt.num \in Nat /\ f[s] <= opt.num /\ totalNum[s] \in 0 .. opt.num
      /\ opt.readOnly \in BOOLEAN
  <2>1. /\ At(s) \in Nat /\ index[s] \in Nat /\ f[s] \in Nat /\ d[s] \in Nat /\ k \in Nat
    BY QueueTypes DEF Aligned
  <2>2. f[s] \in 0 .. opt.num /\ totalNum[s] \in 0 .. opt.num
    BY Parts DEF Aligned, Known, IInv, RanksOK
  <2>3. opt.num \in Nat /\ opt.readOnly \in BOOLEAN
    BY OptionFacts DEF Aligned, Known
  <2> QED
    BY <2>1, <2>2, <2>3
<1>2. ASSUME NEW places
      PROVE  /\ At(s) + Over(s, k, places) <= Origin(s) + opt.num
             /\ Origin(s) <= At(s) + Over(s, k, places)
  <2>1. CASE opt.readOnly
    BY <1>1, <2>1 DEF Over, Origin, Counted
  <2>2. CASE ~opt.readOnly /\ pc[s] \in InRound \cup {"ended"}
    <3>1. Origin(s) = At(s)
      BY <2>2 DEF Origin, Counted, InRound, Stepping
    <3>2. Bounds(s)
      BY Parts DEF Aligned, Known, IInv
    <3>3. pc[s] \in Stepping \cup {"wearWait"} => f[s] + 1 <= opt.num
      BY <1>1, <3>2 DEF Bounds
    <3>4. Over(s, k, places) \in {f[s], f[s] + 1}
      BY <2>2 DEF Over
    <3>5. Over(s, k, places) = f[s] + 1 => pc[s] \in Stepping \cup {"wearWait"}
      BY <1>1, <2>2 DEF Over, Stepping
    <3> HIDE DEF Over
    <3> QED
      BY <1>1, <3>1, <3>3, <3>4, <3>5
  <2>3. CASE ~opt.readOnly /\ pc[s] \in {"endWait", "report"}
    <3>1. Over(s, k, places) = 0
      BY <2>3 DEF Over, InRound, Stepping
    <3>2. Origin(s) = index[s] - f[s] /\ At(s) = index[s]
      BY <2>3 DEF Origin, Counted, At, Arriving
    <3> QED
      BY <1>1, <3>1, <3>2
  <2>4. CASE pc[s] \notin InRound \cup Closed
    <3>1. Over(s, k, places) = 0
      BY <2>4 DEF Over, Closed
    <3>2. Origin(s) = At(s)
      BY <2>4 DEF Origin, Counted, Closed
    <3> QED
      BY <1>1, <3>1, <3>2
  <2> QED
    BY <2>1, <2>2, <2>3, <2>4 DEF Closed
<1> QED
  BY <1>2 DEF Taken, Made

\* What stays of the other ranks.
LEMMA OthersQueue ==
    ASSUME Aligned, NEW r \in Ranks, RankStep(r)
    PROVE  /\ opt' = opt /\ DataSets' = DataSets
           /\ \A a, o : Reads(a, o)' = Reads(a, o) /\ Writes(a, o)' = Writes(a, o)
           /\ \A s \in Ranks \ {r} :
                 /\ Filled(s)' = Filled(s) /\ Cleaned(s)' = Cleaned(s)
                 /\ pc'[s] = pc[s] /\ d'[s] = d[s] /\ err'[s] = err[s]
                 /\ \A k : Taken(s, k)' = Taken(s, k) /\ Made(s, k)' = Made(s, k)
                 /\ \A o : Fresh(s, o)' = Fresh(s, o)
<1>1. Own(r)
  BY StepsOwn DEF Aligned, Known
<1>2. opt' = opt /\ DataSets' = DataSets
  BY <1>1 DEF Own, DataSets
<1>3. \A a, o : Reads(a, o)' = Reads(a, o) /\ Writes(a, o)' = Writes(a, o)
  BY <1>2 DEF Reads, Writes, Shift
<1>4. ASSUME NEW s \in Ranks \ {r}
      PROVE  /\ Filled(s)' = Filled(s) /\ Cleaned(s)' = Cleaned(s)
             /\ pc'[s] = pc[s] /\ d'[s] = d[s] /\ err'[s] = err[s]
             /\ \A k : Taken(s, k)' = Taken(s, k) /\ Made(s, k)' = Made(s, k)
             /\ \A o : Fresh(s, o)' = Fresh(s, o)
  <2>1. /\ Filled(s)' = Filled(s) /\ Cleaned(s)' = Cleaned(s)
        /\ \A k, places : Over(s, k, places)' = Over(s, k, places)
        /\ At(s)' = At(s)
    BY <1>1, OthersStay, OthersAt
  <2>2. pc'[s] = pc[s] /\ d'[s] = d[s] /\ err'[s] = err[s]
    BY <1>1 DEF Own
  <2>3. \A k : Taken(s, k)' = Taken(s, k) /\ Made(s, k)' = Made(s, k)
    BY <2>1 DEF Taken, Made
  <2>4. \A o : Fresh(s, o)' = Fresh(s, o)
    BY <1>2, <1>3, <2>2, <2>3 DEF Fresh
  <2> QED
    BY <2>1, <2>2, <2>3, <2>4
<1> QED
  BY <1>2, <1>3, <1>4

\* The parts of an object's name.
LEMMA NameParts ==
    ASSUME NEW o \in Ranks \X DataSets \X Nat
    PROVE  o[1] \in Ranks /\ o[2] \in DataSets /\ o[3] \in Nat /\ o = <<o[1], o[2], o[3]>>
OBVIOUS

\* Steps that neither take nor make an object.
LEMMA QueueQuiet ==
    ASSUME Ready, NEW r \in Ranks, RankStep(r), objects' = objects,
           \A k \in DataSets : Taken(r, k)' = Taken(r, k) /\ Made(r, k)' = Made(r, k),
           Filled(r)' = Filled(r), Cleaned(r)' = Cleaned(r),
           pc[r] # "write", pc'[r] # "write",
           pc'[r] \in {"timer", "wearWait"} => d'[r] = 0,
           pc'[r] \in {"remove", "create"} => ~opt.readOnly
    PROVE  QueueInv'
<1>1. /\ opt' = opt /\ DataSets' = DataSets
      /\ \A a, o : Reads(a, o)' = Reads(a, o) /\ Writes(a, o)' = Writes(a, o)
      /\ \A s \in Ranks \ {r} :
            /\ Filled(s)' = Filled(s) /\ Cleaned(s)' = Cleaned(s)
            /\ pc'[s] = pc[s] /\ d'[s] = d[s] /\ err'[s] = err[s]
            /\ \A k : Taken(s, k)' = Taken(s, k) /\ Made(s, k)' = Made(s, k)
            /\ \A o : Fresh(s, o)' = Fresh(s, o)
  BY OthersQueue DEF Ready
<1>2. \A o : Fresh(r, o)' = Fresh(r, o)
  BY DEF Fresh
<1>3. \A s \in Ranks : \A o : Fresh(s, o)' = Fresh(s, o)
  BY <1>1, <1>2
<1>4. \A s \in Ranks : Filled(s)' = Filled(s) /\ Cleaned(s)' = Cleaned(s)
  BY <1>1
<1>5. \A s \in Ranks, k \in DataSets : Taken(s, k)' = Taken(s, k) /\ Made(s, k)' = Made(s, k)
  BY <1>1
<1>6. ASSUME NEW o PROVE Held(o)' <=> Held(o)
  <2>1. CASE o \in Ranks \X DataSets \X Nat
    <3>1. o[1] \in Ranks /\ o[2] \in DataSets
      BY <2>1
    <3>2. Filled(o[1])' = Filled(o[1]) /\ Cleaned(o[1])' = Cleaned(o[1])
      BY <1>4, <3>1
    <3>3. \A s \in Ranks : Taken(s, o[2])' = Taken(s, o[2]) /\ Made(s, o[2])' = Made(s, o[2])
      BY <1>5, <3>1
    <3> QED
      BY <1>1, <1>3, <2>1, <3>2, <3>3 DEF Held
  <2>2. CASE o \notin Ranks \X DataSets \X Nat
    BY <1>1, <2>2 DEF Held
  <2> QED
    BY <2>1, <2>2
<1>7. \A o : Content(o)' = Content(o)
  BY <1>1, <1>3 DEF Content, Pattern
<1>8. \A s \in Ranks : /\ pc'[s] \in {"timer", "wearWait"} => d'[s] = 0
                       /\ pc'[s] \in {"remove", "create", "write"} => ~opt.readOnly
  BY <1>1 DEF Ready, QueueInv
<1> QED
  BY <1>1, <1>6, <1>7, <1>8 DEF Ready, QueueInv

\* Whether a rank's objects are there changes with its precreation and cleanup.
LEMMA SameStanding ==
    ASSUME Known, NEW r \in Ranks, RankStep(r), todo'[r] = todo[r],
           (pc'[r] \in Closed <=> pc[r] \in Closed) \/ Phase(r) = "benchmark"
    PROVE  Filled(r)' = Filled(r) /\ Cleaned(r)' = Cleaned(r)
<1>1. Own(r) /\ Phase(r)' = Phase(r) /\ Done(r)' = Done(r) /\ CleansUp' = CleansUp
  BY StepsOwn, SamePhase DEF Known
<1>2. execution' = execution
  BY <1>1 DEF Own
<1>3. CASE pc'[r] \in Closed <=> pc[r] \in Closed
  BY <1>1, <1>2, <1>3 DEF Filled, Cleaned
<1>4. CASE Phase(r) = "benchmark"
  BY <1>1, <1>2, <1>4, LaterPhase DEF Filled, Cleaned
<1> QED
  BY <1>3, <1>4

----------------------------------------------------------------------------
(***************************************************************************)
(* The queue, one lemma per action or group of actions.                    *)
(***************************************************************************)
LEMMA BeginQueue ==
    ASSUME Ready, NEW r \in Ranks, ReturnPosition(r) \/ PositionKnown(r)
    PROVE  QueueInv' /\ Cleaned(r)' = Cleaned(r)
<1>1. RankStep(r) /\ RanksOK /\ Own(r) /\ StartIndex(0) = 0 /\ StartIndex(position) = position
  BY Parts, StepsOwn, OptionFacts DEF RankStep, Ready, Aligned, Known, IInv, StartIndex
<1>2. UNCHANGED <<position, todo, objects>> /\ pc[r] \in Arriving
  BY DEF ReturnPosition, PositionKnown, disk, Arriving
<1>3. Head(todo[r]) = Executed[1] /\ Executed' = Executed
  BY <1>1, <1>2, FirstPhase, SamePhase DEF Ready, Aligned, Known
<1>4. pc[r] = "positionWait" => Executed[1] # "precreate"
  BY DEF Ready, Aligned, Known, PlaceInv, PhaseOK, Opening
<1>5. /\ pc'[r] \in {"next", "positionWait"}
      /\ pc'[r] = "next" => index'[r] = Stored
  BY <1>1, <1>3, <1>4 DEF ReturnPosition, PositionKnown, Stored, Go, RanksOK
<1>6. At(r) = Stored /\ At(r)' = Stored
  BY <1>2, <1>3, <1>5 DEF At, Stored, Arriving
<1>7. \A k, places : Over(r, k, places) = 0 /\ Over(r, k, places)' = 0
  BY <1>2, <1>5 DEF Over, Arriving, InRound, Stepping
<1>8. Filled(r)' = Filled(r) /\ Cleaned(r)' = Cleaned(r)
  BY <1>1, <1>2, <1>5, SameStanding DEF Ready, Aligned, Closed, Arriving
<1>9. \A k : Taken(r, k)' = Taken(r, k) /\ Made(r, k)' = Made(r, k)
  BY <1>6, <1>7 DEF Taken, Made
<1> QED
  BY <1>1, <1>2, <1>5, <1>8, <1>9, QueueQuiet DEF Arriving

\* A rank whose index and steps stay.
LEMMA SameOver ==
    ASSUME Ready, NEW r \in Ranks, RankStep(r), todo'[r] = todo[r], index'[r] = index[r],
           pc[r] \notin Arriving, pc'[r] \notin Arriving,
           \A k \in DataSets, places \in {{"create", "write"}, {}} :
               Over(r, k, places)' = Over(r, k, places)
    PROVE  \A k \in DataSets : Taken(r, k)' = Taken(r, k) /\ Made(r, k)' = Made(r, k)
<1>1. At(r)' = At(r)
  BY DEF At
<1> QED
  BY <1>1 DEF Taken, Made

\* A phase begins, or its results are reported; the place is stored.
LEMMA PhaseQueue ==
    ASSUME Ready, NEW r \in Ranks,
           StartPhase(r) \/ PhaseStarted(r) \/ Report(r) \/ StorePosition(r)
    PROVE  QueueInv' /\ Cleaned(r)' = Cleaned(r)
<1>1. RankStep(r) /\ RanksOK /\ Own(r)
  BY Parts, StepsOwn DEF RankStep, Ready, Aligned, Known, IInv
<1>2. UNCHANGED <<index, todo, objects>>
  BY DEF StartPhase, PhaseStarted, Report, StorePosition, disk
<1>3. \/ pc[r] = "next" /\ pc'[r] \in {"startWait", "cleanup", "end"}
      \/ pc[r] = "startWait" /\ pc'[r] = "precreate"
      \/ pc[r] = "startWait" /\ pc'[r] = "stat" /\ f'[r] = 0 /\ d'[r] = 0
      \/ pc[r] = "endWait" /\ pc'[r] = "report"
  BY <1>1 DEF StartPhase, PhaseStarted, Report, StorePosition, Go, RanksOK
<1>4. ASSUME NEW k \in DataSets, NEW places \in {{"create", "write"}, {}}
      PROVE  Over(r, k, places)' = Over(r, k, places)
  <2>1. Over(r, k, places) = 0
    BY <1>3 DEF Over, InRound, Stepping
  <2>2. Over(r, k, places)' = 0 \/ pc'[r] = "stat"
    BY <1>3 DEF Over, InRound, Stepping
  <2>3. CASE pc'[r] = "stat"
    <3>1. f'[r] = 0 /\ d'[r] = 0 /\ ~(k < 0)
      BY <1>3, <2>3, QueueTypes DEF Ready, Aligned
    <3> QED
      BY <2>1, <2>3, <3>1 DEF Over, Stepping
  <2> QED
    BY <2>1, <2>2, <2>3
<1>5. Filled(r)' = Filled(r) /\ Cleaned(r)' = Cleaned(r)
  BY <1>1, <1>2, <1>3, SameStanding DEF Ready, Aligned, Closed
<1> QED
  BY <1>1, <1>2, <1>3, <1>4, <1>5, SameOver, QueueQuiet DEF Arriving

\* What there is to know of a rank in a round.
LEMMA RoundFacts ==
    ASSUME Ready, NEW r \in Ranks, pc[r] \in InRound
    PROVE  /\ Phase(r) = "benchmark" /\ pc[r] \notin Arriving /\ At(r) = index[r]
           /\ index[r] \in Nat /\ f[r] \in Nat /\ d[r] \in DataSets /\ d[r] \in Nat
           /\ f[r] < opt.num \/ pc[r] \in {"loopEnd", "agreeWait"}
           /\ opt.precreate \in Nat /\ opt.num \in Nat /\ opt.num <= opt.precreate
           /\ opt.dsetCount \in Nat \ {0} /\ DataSets \subseteq Nat
<1>1. RanksOK /\ Bounds(r)
  BY Parts DEF Ready, Aligned, Known, IInv
<1>2. PhaseOK(r)
  BY DEF Ready, Aligned, Known, PlaceInv
<1>3. /\ opt.precreate \in Nat /\ opt.num \in Nat /\ opt.num <= opt.precreate
      /\ opt.dsetCount \in Nat \ {0} /\ DataSets \subseteq Nat
  BY OptionFacts DEF Ready, Aligned, Known, DataSets
<1>4. index[r] \in Nat /\ f[r] \in Nat /\ d[r] \in DataSets /\ totalNum[r] \in 0 .. opt.num
  BY <1>1, <1>3 DEF RanksOK
<1>5. f[r] < opt.num \/ pc[r] \in {"loopEnd", "agreeWait"}
  BY <1>1, <1>3, <1>4 DEF Bounds, InRound
<1>6. Phase(r) = "benchmark" /\ pc[r] \notin Arriving
  BY <1>2 DEF PhaseOK, InRound, Stepping, Arriving
<1> QED
  BY <1>3, <1>4, <1>5, <1>6 DEF At

\* The object a step takes is there, with what its writer has put into it.
LEMMA OldIsThere ==
    ASSUME Ready, NEW r \in Ranks, pc[r] \in {"stat", "read", "remove"}
    PROVE  /\ OldObject(r) \in Ranks \X DataSets \X Nat
           /\ OldObject(r) \in DOMAIN objects
           /\ objects[OldObject(r)] = Pattern(ReadRank(r), d[r], PrevFile(r))
           /\ Reads(r, OldObject(r))
<1> DEFINE o == OldObject(r)
<1>1. /\ Phase(r) = "benchmark" /\ At(r) = index[r] /\ pc[r] \in InRound
      /\ index[r] \in Nat /\ f[r] \in Nat /\ d[r] \in DataSets /\ d[r] \in Nat
      /\ f[r] < opt.num /\ opt.precreate \in Nat /\ opt.num \in Nat
      /\ opt.num <= opt.precreate
  BY RoundFacts DEF InRound, Stepping
<1>2. o \in Names
  BY NameTypes, Parts DEF Ready, Aligned, Known, IInv
<1>3. o = <<ReadRank(r), d[r], PrevFile(r)>> /\ PrevFile(r) = f[r] + index[r]
  BY DEF OldObject, PrevFile
<1>4. ReadRank(r) \in Ranks /\ PrevFile(r) \in Nat
  BY <1>1, <1>2, <1>3 DEF Names
<1>5. o \in Ranks \X DataSets \X Nat
  BY <1>1, <1>3, <1>4
<1>6. o[1] = ReadRank(r) /\ o[2] = d[r] /\ o[3] = f[r] + index[r]
  BY <1>3
<1>7. Reads(r, o)
  BY <1>6 DEF Reads, Shift, ReadRank
<1> HIDE DEF o
<1>8. ASSUME NEW a \in Ranks, Reads(a, o) PROVE Taken(a, o[2]) <= o[3]
  <2>1. a = r
    BY <1>5, <1>7, <1>8, ReadersWriters DEF Ready, Aligned, Known
  <2>2. Over(r, d[r], {"create", "write"}) \in {0, f[r]}
    BY <1>1 DEF Over
  <2>3. Taken(r, d[r]) <= f[r] + index[r]
    <3> HIDE DEF Over
    <3> QED
      BY <1>1, <2>2 DEF Taken
  <2> QED
    BY <1>6, <2>1, <2>3
<1>9. ASSUME NEW b \in Ranks PROVE o[3] < opt.precreate + Made(b, o[2])
  <2>1. Phase(b) = "benchmark" /\ Origin(b) = index[r]
    BY <1>1, Together DEF Ready
  <2>2. index[r] <= Made(b, o[2]) /\ Made(b, o[2]) \in Nat
    BY <1>1, <1>6, <2>1, WithinRound, QueueTypes DEF Ready, Aligned
  <2> QED
    BY <1>1, <1>6, <2>2
<1>10. Filled(o[1]) /\ ~Cleaned(o[1])
  BY <1>1, <1>4, <1>6, Together DEF Ready
<1>11. Held(o)
  BY <1>5, <1>8, <1>9, <1>10 DEF Held
<1>12. \A b \in Ranks : ~Fresh(b, o)
  <2> TAKE b \in Ranks
  <2>1. o[3] < opt.precreate + Made(b, o[2]) /\ Made(b, o[2]) \in Nat
    BY <1>1, <1>6, <1>9, QueueTypes DEF Ready, Aligned
  <2>2. o[3] # opt.precreate + Made(b, o[2])
    BY <1>1, <1>6, <2>1
  <2> QED
    BY <2>2 DEF Fresh
<1>13. Content(o) = Pattern(ReadRank(r), d[r], PrevFile(r))
  BY <1>3, <1>6, <1>12 DEF Content
<1> QED
  BY <1>5, <1>7, <1>11, <1>13 DEF o, Ready, QueueInv

\* A step that leaves the queue alone, within a round.
LEMMA StatQueue ==
    ASSUME Ready, NEW r \in Ranks, Stat(r)
    PROVE  QueueInv' /\ Cleaned(r)' = Cleaned(r) /\ err' = err
<1>1. RankStep(r) /\ RanksOK /\ Own(r) /\ pc[r] = "stat"
  BY Parts, StepsOwn DEF RankStep, Ready, Aligned, Known, IInv, Stat
<1>2. UNCHANGED <<index, f, todo, objects>> /\ pc'[r] = "read" /\ UNCHANGED <<d, err>>
  BY <1>1, OldIsThere DEF Stat, Go, RanksOK, disk
<1>3. Phase(r)' = Phase(r) /\ opt' = opt
  BY <1>1, <1>2, SamePhase DEF Own
<1>4. ASSUME NEW k \in DataSets, NEW places \in {{"create", "write"}, {}}
      PROVE  Over(r, k, places)' = Over(r, k, places)
  BY <1>1, <1>2, <1>3 DEF Over, InRound, Stepping
<1>5. Filled(r)' = Filled(r) /\ Cleaned(r)' = Cleaned(r)
  BY <1>1, <1>2, SameStanding DEF Ready, Aligned, Closed
<1> QED
  BY <1>1, <1>2, <1>4, <1>5, SameOver, QueueQuiet DEF Arriving

\* Read keeps the queue.
LEMMA ReadQueue ==
    ASSUME Ready, NEW r \in Ranks, Read(r)
    PROVE  QueueInv' /\ Cleaned(r)' = Cleaned(r) /\ err' = err
<1>1. RankStep(r) /\ RanksOK /\ Own(r) /\ pc[r] = "read"
  BY Parts, StepsOwn DEF RankStep, Ready, Aligned, Known, IInv, Read
<1>2. UNCHANGED <<index, f, todo, objects, err>>
  BY <1>1, OldIsThere DEF Read, disk
<1>3. IF opt.readOnly THEN NextDataSet(r) ELSE pc'[r] = "remove" /\ UNCHANGED d
  BY <1>1 DEF Read, Go, RanksOK
<1>4. /\ pc'[r] \in {"stat", "timer", "remove"}
      /\ pc'[r] = "timer" => d'[r] = 0
      /\ pc'[r] = "remove" => ~opt.readOnly
  BY <1>1, <1>3 DEF NextDataSet, Go, RanksOK
<1>5. Phase(r)' = Phase(r) /\ opt' = opt
  BY <1>1, <1>2, SamePhase DEF Own
<1>6. ASSUME NEW k \in DataSets, NEW places \in {{"create", "write"}, {}}
      PROVE  Over(r, k, places)' = Over(r, k, places)
  BY <1>1, <1>2, <1>3, <1>5 DEF Over, InRound, Stepping
<1>7. Filled(r)' = Filled(r) /\ Cleaned(r)' = Cleaned(r)
  BY <1>1, <1>2, <1>4, SameStanding DEF Ready, Aligned, Closed
<1> QED
  BY <1>1, <1>2, <1>4, <1>6, <1>7, SameOver, QueueQuiet DEF Arriving

\* The step is over for all data sets, and the next one begins.
LEMMA GoOnQueue ==
    ASSUME Ready, NEW r \in Ranks, GoOn(r) \/ WearOut(r) \/ WearOutAgreed(r)
    PROVE  QueueInv' /\ Cleaned(r)' = Cleaned(r)
<1>1. RankStep(r) /\ RanksOK /\ Own(r) /\ pc[r] \in {"timer", "wearWait"}
  BY Parts, StepsOwn DEF RankStep, Ready, Aligned, Known, IInv, GoOn, WearOut, WearOutAgreed
<1>2. UNCHANGED <<index, todo, objects, d>>
  BY DEF GoOn, WearOut, WearOutAgreed, disk
<1>3. /\ Phase(r) = "benchmark" /\ f[r] \in Nat /\ d[r] = 0 /\ DataSets \subseteq Nat
  BY <1>1, RoundFacts DEF Ready, QueueInv, InRound, Stepping
<1>4. \/ pc'[r] \in {"stat", "loopEnd"} /\ f'[r] = f[r] + 1
      \/ pc'[r] = "wearWait" /\ f'[r] = f[r]
  <2>1. CASE GoOn(r) \/ WearOut(r)
    BY <1>1, <2>1 DEF GoOn, WearOut, Go, RanksOK
  <2>2. CASE WearOutAgreed(r)
    <3>1. pc[r] = "wearWait" /\ sent[r] = f[r] + 1
      BY <2>2 DEF WearOutAgreed, Ready, Aligned, Known, PlaceInv, StepsOK
    <3>2. PICK n \in 0 .. opt.num :
            /\ Largest(n)
            /\ IF f[r] = n THEN TRUE
               ELSE f'[r] = f[r] + 1 /\ pc'[r] \in {"stat", "loopEnd"}
      BY <1>1, <2>2 DEF WearOutAgreed, Go, RanksOK
    <3>3. f[r] # n
      BY <1>3, <3>1, <3>2 DEF Largest
    <3> QED
      BY <3>2, <3>3
  <2> QED
    BY <2>1, <2>2
<1>5. Phase(r)' = Phase(r) /\ opt' = opt
  BY <1>1, <1>2, SamePhase DEF Own
<1>6. ASSUME NEW k \in DataSets, NEW places \in {{"create", "write"}, {}}
      PROVE  Over(r, k, places)' = Over(r, k, places)
  <2>1. ~(k < 0)
    BY <1>3
  <2>2. Over(r, k, places) = IF opt.readOnly THEN 0 ELSE f[r] + 1
    BY <1>1, <1>3 DEF Over, InRound, Stepping
  <2>3. CASE pc'[r] = "stat" /\ f'[r] = f[r] + 1
    BY <1>2, <1>3, <1>5, <2>1, <2>2, <2>3 DEF Over, InRound, Stepping
  <2>4. CASE pc'[r] = "loopEnd" /\ f'[r] = f[r] + 1
    BY <1>3, <1>5, <2>2, <2>4 DEF Over, InRound, Stepping
  <2>5. CASE pc'[r] = "wearWait" /\ f'[r] = f[r]
    BY <1>3, <1>5, <2>2, <2>5 DEF Over, InRound, Stepping
  <2> QED
    BY <1>4, <2>3, <2>4, <2>5
<1>7. Filled(r)' = Filled(r) /\ Cleaned(r)' = Cleaned(r)
  BY <1>1, <1>2, <1>3, SameStanding DEF Ready, Aligned
<1>8. /\ pc[r] \notin Arriving /\ pc'[r] \notin Arriving
      /\ index'[r] = index[r] /\ todo'[r] = todo[r]
  BY <1>1, <1>2, <1>4 DEF Arriving
<1>9. \A k \in DataSets : Taken(r, k)' = Taken(r, k) /\ Made(r, k)' = Made(r, k)
  BY <1>1, <1>6, <1>8, SameOver
<1> QED
  BY <1>1, <1>2, <1>3, <1>4, <1>7, <1>9, QueueQuiet

\* The loop is left, and the ranks agree on its steps.
LEMMA LeaveLoopQueue ==
    ASSUME Ready, NEW r \in Ranks, LeaveLoop(r) \/ LeaveLoopAgreed(r)
    PROVE  QueueInv' /\ Cleaned(r)' = Cleaned(r)
<1>1. RankStep(r) /\ RanksOK /\ Own(r) /\ pc[r] \in {"loopEnd", "agreeWait"}
  BY Parts, StepsOwn DEF RankStep, Ready, Aligned, Known, IInv, LeaveLoop, LeaveLoopAgreed
<1>2. UNCHANGED <<index, f, todo, objects>> /\ pc'[r] \in {"agreeWait", "ended"}
  BY <1>1 DEF LeaveLoop, LeaveLoopAgreed, Go, RanksOK, disk, round
<1>3. Phase(r) = "benchmark"
  BY <1>1, RoundFacts DEF InRound
<1>4. Phase(r)' = Phase(r) /\ opt' = opt
  BY <1>1, <1>2, SamePhase DEF Own
<1>5. ASSUME NEW k \in DataSets, NEW places \in {{"create", "write"}, {}}
      PROVE  Over(r, k, places)' = Over(r, k, places)
  BY <1>1, <1>2, <1>4 DEF Over, InRound, Stepping
<1>6. Filled(r)' = Filled(r) /\ Cleaned(r)' = Cleaned(r)
  BY <1>1, <1>2, <1>3, SameStanding DEF Ready, Aligned
<1> QED
  BY <1>1, <1>2, <1>5, <1>6, SameOver, QueueQuiet DEF Arriving

\* The steps of the round go into the index.
LEMMA EndPhaseQueue ==
    ASSUME Ready, NEW r \in Ranks, EndPhase(r)
    PROVE  QueueInv' /\ Cleaned(r)' = Cleaned(r)
<1>1. RankStep(r) /\ RanksOK /\ Own(r) /\ Bounds(r)
  BY Parts, StepsOwn DEF RankStep, Ready, Aligned, Known, IInv
<1>2. /\ UNCHANGED <<todo, f, objects>> /\ pc[r] = "ended" /\ pc'[r] = "endWait"
      /\ index'[r] = IF Head(todo[r]) = "benchmark" /\ ~opt.readOnly
                     THEN index[r] + f[r] ELSE index[r]
  BY <1>1 DEF EndPhase, Go, RanksOK, disk, round
<1>3. Phase(r) = Head(todo[r]) /\ Phase(r)' = Phase(r) /\ opt' = opt
  BY <1>1, <1>2, SamePhase DEF Bounds, Outside, Phase, Own
<1>4. At(r) = index[r] /\ At(r)' = index'[r] /\ index[r] \in Nat /\ f[r] \in Nat
  BY <1>1, <1>2, OptionFacts DEF At, Arriving, RanksOK, Ready, Aligned, Known
<1>5. ASSUME NEW k, NEW places
      PROVE  At(r)' + Over(r, k, places)' = At(r) + Over(r, k, places)
  <2>1. Over(r, k, places)' = 0
    BY <1>2 DEF Over, InRound, Stepping
  <2>2. Over(r, k, places) = IF Phase(r) = "benchmark" /\ ~opt.readOnly THEN f[r] ELSE 0
    BY <1>2 DEF Over, InRound, Stepping
  <2> HIDE DEF Over
  <2> QED
    BY <1>2, <1>3, <1>4, <2>1, <2>2
<1>6. \A k \in DataSets : Taken(r, k)' = Taken(r, k) /\ Made(r, k)' = Made(r, k)
  BY <1>5 DEF Taken, Made
<1>7. Filled(r)' = Filled(r) /\ Cleaned(r)' = Cleaned(r)
  BY <1>1, <1>2, SameStanding DEF Ready, Aligned, Closed
<1> QED
  BY <1>1, <1>2, <1>6, <1>7, QueueQuiet

\* After a cleanup there is no phase; and no other ends the execution that cleans up.
LEMMA ReportedQueue ==
    ASSUME Ready, NEW r \in Ranks, Reported(r)
    PROVE  QueueInv' /\ Cleaned(r)' = Cleaned(r)
<1>1. RankStep(r) /\ Known
  BY DEF RankStep, Ready, Aligned
<1>2. /\ Own(r) /\ Executed' = Executed /\ pc[r] = "report" /\ pc'[r] = "next"
      /\ todo[r] # << >> /\ todo'[r] \in Seq(Phases) /\ Done(r)' = Done(r) + 1
  BY <1>1, NextNumbers
<1>3. UNCHANGED <<index, objects>> /\ CleansUp' = CleansUp
  BY <1>2 DEF Reported, disk, CleansUp
<1>4. todo[r] \in Seq(Phases) /\ Executed \in Seq(Phases) /\ Executed # << >>
  BY <1>1, Parts, PhaseFacts DEF Known, IInv, RanksOK
<1>5. Phase(r) # "none"
  BY <1>2, <1>4 DEF Phase, Phases
<1>6. /\ Done(r) \in 0 .. Len(Executed) - 1 /\ Phase(r) = Executed[Done(r) + 1]
      /\ Done(r) + 1 \in DOMAIN Executed
  BY <1>1, <1>5, PhaseOfExecution
<1>7. Filled(r) /\ Filled(r)'
  <2>1. Done(r)' > 0
    <3> HIDE DEF Done
    <3> QED
      BY <1>2, <1>6
  <2> QED
    BY <1>2, <2>1 DEF Filled, Closed
<1>8. Phase(r)' = "none" <=> Done(r) + 1 = Len(Executed)
  <2>1. Phase(r)' = "none" <=> todo'[r] = << >>
    BY <1>2 DEF Phase, Phases
  <2>2. todo'[r] = << >> <=> Len(todo'[r]) = 0
    BY <1>2
  <2>3. Done(r)' = Len(Executed) - Len(todo'[r])
    BY <1>2 DEF Done
  <2>4. Len(todo'[r]) \in Int /\ Len(Executed) \in Int /\ Done(r) \in Int
    BY <1>2, <1>4, <1>6
  <2> HIDE DEF Done
  <2> QED
    BY <1>2, <2>1, <2>2, <2>3, <2>4
<1>9. Phase(r) = "cleanup" <=> Done(r) + 1 = Len(Executed) /\ CleansUp
  <2>1. Phase(r) = "cleanup" => Done(r) + 1 = Len(Executed)
    BY <1>1, <1>6, PhaseFacts DEF Known
  <2> QED
    BY <1>6, <2>1 DEF CleansUp
<1>10. Cleaned(r)' = Cleaned(r)
  <2>1. Cleaned(r) <=> Phase(r) = "cleanup"
    BY <1>2, <1>5 DEF Cleaned, Closed
  <2>2. Cleaned(r)' <=> Phase(r)' = "none" /\ CleansUp
    BY <1>2, <1>3 DEF Cleaned, Closed
  <2>3. Cleaned(r) \in BOOLEAN /\ Cleaned(r)' \in BOOLEAN
    BY DEF Cleaned
  <2> QED
    BY <1>8, <1>9, <2>1, <2>2, <2>3
<1>11. \A k, places : Over(r, k, places) = 0 /\ Over(r, k, places)' = 0
  BY <1>2 DEF Over, InRound, Stepping
<1>12. At(r)' = At(r)
  BY <1>2, <1>3 DEF At, Arriving
<1>13. \A k \in DataSets : Taken(r, k)' = Taken(r, k) /\ Made(r, k)' = Made(r, k)
  BY <1>11, <1>12 DEF Taken, Made
<1>14. Filled(r)' = Filled(r)
  BY <1>7 DEF Filled
<1> QED
  BY <1>1, <1>2, <1>3, <1>10, <1>13, <1>14, QueueQuiet

----------------------------------------------------------------------------
(***************************************************************************)
(* The steps that take and make objects.                                   *)
(***************************************************************************)
\* What is held after a step, by what the rank that makes it has to do with it.
LEMMA HeldNext ==
    ASSUME Ready, NEW r \in Ranks, RankStep(r),
           Filled(r)' = Filled(r), Cleaned(r)' = Cleaned(r)
    PROVE  /\ \A o : Held(o) \/ Held(o)' => o \in Ranks \X DataSets \X Nat
           /\ \A o \in Ranks \X DataSets \X Nat : Held(o)' <=>
                 /\ Filled(o[1]) /\ ~Cleaned(o[1])
                 /\ \A a \in Ranks \ {r} : Reads(a, o) => Taken(a, o[2]) <= o[3]
                 /\ \A b \in Ranks \ {r} : Writes(b, o) =>
                       o[3] < opt.precreate + Made(b, o[2]) \/ Fresh(b, o)
                 /\ Reads(r, o) => Taken(r, o[2])' <= o[3]
                 /\ Writes(r, o) =>
                       o[3] < opt.precreate + Made(r, o[2])' \/ Fresh(r, o)'
<1>1. /\ opt' = opt /\ DataSets' = DataSets
      /\ \A a, o : Reads(a, o)' = Reads(a, o) /\ Writes(a, o)' = Writes(a, o)
      /\ \A s \in Ranks \ {r} :
            /\ Filled(s)' = Filled(s) /\ Cleaned(s)' = Cleaned(s)
            /\ \A k : Taken(s, k)' = Taken(s, k) /\ Made(s, k)' = Made(s, k)
            /\ \A o : Fresh(s, o)' = Fresh(s, o)
  BY OthersQueue DEF Ready
<1>2. \A o : Held(o) \/ Held(o)' => o \in Ranks \X DataSets \X Nat
  BY <1>1 DEF Held
<1>3. ASSUME NEW o \in Ranks \X DataSets \X Nat
      PROVE  Held(o)' <=>
                /\ Filled(o[1]) /\ ~Cleaned(o[1])
                /\ \A a \in Ranks \ {r} : Reads(a, o) => Taken(a, o[2]) <= o[3]
                /\ \A b \in Ranks \ {r} : Writes(b, o) =>
                      o[3] < opt.precreate + Made(b, o[2]) \/ Fresh(b, o)
                /\ Reads(r, o) => Taken(r, o[2])' <= o[3]
                /\ Writes(r, o) =>
                      o[3] < opt.precreate + Made(r, o[2])' \/ Fresh(r, o)'
  <2>1. o[1] \in Ranks
    BY <1>3
  <2>2. Filled(o[1])' = Filled(o[1]) /\ Cleaned(o[1])' = Cleaned(o[1])
    BY <1>1, <2>1
  <2>3. Held(o)' <=>
          /\ Filled(o[1])' /\ ~Cleaned(o[1])'
          /\ \A a \in Ranks : Reads(a, o)' => Taken(a, o[2])' <= o[3]
          /\ \A b \in Ranks : Writes(b, o)' =>
                o[3] < opt.precreate + Made(b, o[2])' \/ Fresh(b, o)'
    BY <1>1, <1>3 DEF Held
  <2>4. (\A a \in Ranks : Reads(a, o)' => Taken(a, o[2])' <= o[3]) <=>
          /\ \A a \in Ranks \ {r} : Reads(a, o) => Taken(a, o[2]) <= o[3]
          /\ Reads(r, o) => Taken(r, o[2])' <= o[3]
    BY <1>1
  <2>5. (\A b \in Ranks : Writes(b, o)' =>
            o[3] < opt.precreate + Made(b, o[2])' \/ Fresh(b, o)') <=>
          /\ \A b \in Ranks \ {r} : Writes(b, o) =>
                o[3] < opt.precreate + Made(b, o[2]) \/ Fresh(b, o)
          /\ Writes(r, o) =>
                o[3] < opt.precreate + Made(r, o[2])' \/ Fresh(r, o)'
    BY <1>1
  <2> QED
    BY <2>2, <2>3, <2>4, <2>5
<1> QED
  BY <1>2, <1>3

\* The same before the step.
LEMMA HeldNow ==
    ASSUME NEW r \in Ranks
    PROVE  \A o \in Ranks \X DataSets \X Nat : Held(o) <=>
              /\ Filled(o[1]) /\ ~Cleaned(o[1])
              /\ \A a \in Ranks \ {r} : Reads(a, o) => Taken(a, o[2]) <= o[3]
              /\ \A b \in Ranks \ {r} : Writes(b, o) =>
                    o[3] < opt.precreate + Made(b, o[2]) \/ Fresh(b, o)
              /\ Reads(r, o) => Taken(r, o[2]) <= o[3]
              /\ Writes(r, o) =>
                    o[3] < opt.precreate + Made(r, o[2]) \/ Fresh(r, o)
<1> SUFFICES ASSUME NEW o \in Ranks \X DataSets \X Nat
             PROVE  Held(o) <=>
              /\ Filled(o[1]) /\ ~Cleaned(o[1])
              /\ \A a \in Ranks \ {r} : Reads(a, o) => Taken(a, o[2]) <= o[3]
              /\ \A b \in Ranks \ {r} : Writes(b, o) =>
                    o[3] < opt.precreate + Made(b, o[2]) \/ Fresh(b, o)
              /\ Reads(r, o) => Taken(r, o[2]) <= o[3]
              /\ Writes(r, o) =>
                    o[3] < opt.precreate + Made(r, o[2]) \/ Fresh(r, o)
  OBVIOUS
<1>1. (\A a \in Ranks : Reads(a, o) => Taken(a, o[2]) <= o[3]) <=>
        /\ \A a \in Ranks \ {r} : Reads(a, o) => Taken(a, o[2]) <= o[3]
        /\ Reads(r, o) => Taken(r, o[2]) <= o[3]
  OBVIOUS
<1>2. (\A b \in Ranks : Writes(b, o) =>
          o[3] < opt.precreate + Made(b, o[2]) \/ Fresh(b, o)) <=>
        /\ \A b \in Ranks \ {r} : Writes(b, o) =>
              o[3] < opt.precreate + Made(b, o[2]) \/ Fresh(b, o)
        /\ Writes(r, o) =>
              o[3] < opt.precreate + Made(r, o[2]) \/ Fresh(r, o)
  OBVIOUS
<1> QED
  BY <1>1, <1>2 DEF Held

\* What a rank that changes the queue is in the middle of.
LEMMA ChangeFacts ==
    ASSUME Ready, NEW r \in Ranks, Remove(r) \/ Create(r) \/ Write(r)
    PROVE  /\ RankStep(r) /\ Own(r) /\ RanksOK /\ pc[r] \in {"remove", "create", "write"}
           /\ UNCHANGED <<index, f, todo, err>> /\ ~opt.readOnly
           /\ Phase(r) = "benchmark" /\ Phase(r)' = "benchmark"
           /\ Filled(r)' = Filled(r) /\ Cleaned(r)' = Cleaned(r)
           /\ At(r) = index[r] /\ At(r)' = index[r]
<1>1. RankStep(r) /\ Own(r) /\ RanksOK
  BY Parts, StepsOwn DEF RankStep, Ready, Aligned, Known, IInv
<1>2. pc[r] \in {"remove", "create", "write"} /\ UNCHANGED <<index, f, todo, err>>
  BY DEF Remove, Create, Write, round
<1>3. ~opt.readOnly
  BY <1>2 DEF Ready, QueueInv
<1>4. /\ Remove(r) => pc'[r] = "create"
      /\ Create(r) => pc'[r] = "write"
      /\ Write(r) => pc'[r] \in {"stat", "timer"}
  BY <1>1 DEF Remove, Create, Write, NextDataSet, Go, RanksOK
<1>5. Phase(r) = "benchmark" /\ At(r) = index[r]
  BY <1>2, RoundFacts DEF InRound, Stepping
<1>6. Phase(r)' = "benchmark"
  BY <1>1, <1>2, <1>5, SamePhase
<1>7. Filled(r)' = Filled(r) /\ Cleaned(r)' = Cleaned(r)
  BY <1>1, <1>2, <1>5, SameStanding DEF Ready, Aligned
<1>8. At(r)' = index[r]
  BY <1>2, <1>4 DEF At, Arriving
<1> QED
  BY <1>1, <1>2, <1>3, <1>4, <1>5, <1>6, <1>7, <1>8 DEF Arriving

\* Remove keeps the queue.
LEMMA RemoveQueue ==
    ASSUME Ready, NEW r \in Ranks, Remove(r)
    PROVE  QueueInv' /\ Cleaned(r)' = Cleaned(r)
<1> DEFINE old == OldObject(r)
<1>1. /\ RankStep(r) /\ Own(r) /\ RanksOK /\ ~opt.readOnly
      /\ Phase(r) = "benchmark" /\ Phase(r)' = "benchmark"
      /\ Filled(r)' = Filled(r) /\ Cleaned(r)' = Cleaned(r)
      /\ At(r) = index[r] /\ At(r)' = index[r]
  BY ChangeFacts
<1>2. /\ UNCHANGED <<index, f, d, todo, opt>> /\ pc[r] = "remove" /\ pc'[r] = "create"
      /\ objects' = Without({old})
  BY <1>1 DEF Remove, Go, RanksOK, round
<1>3. /\ index[r] \in Nat /\ f[r] \in Nat /\ d[r] \in DataSets /\ d[r] \in Nat
      /\ DataSets \subseteq Nat
  BY <1>2, RoundFacts DEF InRound, Stepping
<1>4. /\ old \in Ranks \X DataSets \X Nat /\ Reads(r, old)
      /\ old = <<ReadRank(r), d[r], f[r] + index[r]>>
  BY <1>2, OldIsThere DEF OldObject, PrevFile
<1>5. ASSUME NEW k \in DataSets
      PROVE  /\ Made(r, k)' = Made(r, k)
             /\ Taken(r, k)' = IF k = d[r] THEN index[r] + f[r] + 1 ELSE Taken(r, k)
             /\ k = d[r] => Taken(r, k) = index[r] + f[r]
  <2>1. ~(d[r] < d[r])
    BY <1>3
  <2>2. Over(r, k, {})' = Over(r, k, {})
    BY <1>1, <1>2 DEF Over, InRound, Stepping
  <2>3. k # d[r] => Over(r, k, {"create", "write"})' = Over(r, k, {"create", "write"})
    BY <1>1, <1>2 DEF Over, InRound, Stepping
  <2>4. k = d[r] => /\ Over(r, k, {"create", "write"})' = f[r] + 1
                    /\ Over(r, k, {"create", "write"}) = f[r]
    BY <1>1, <1>2, <2>1 DEF Over, InRound, Stepping
  <2>5. index[r] + (f[r] + 1) = index[r] + f[r] + 1
    BY <1>3
  <2> HIDE DEF Over
  <2> QED
    BY <1>1, <2>2, <2>3, <2>4, <2>5 DEF Taken, Made
<1>6. \A o : ~Fresh(r, o) /\ ~Fresh(r, o)'
  BY <1>2 DEF Fresh
<1>7. ASSUME NEW o PROVE Held(o)' <=> Held(o) /\ o # old
  <2>1. CASE o \in Ranks \X DataSets \X Nat
    <3>1. o[2] \in DataSets /\ o[3] \in Nat /\ o = <<o[1], o[2], o[3]>>
      BY <2>1
    <3>2. /\ Made(r, o[2])' = Made(r, o[2])
          /\ Taken(r, o[2])' =
                IF o[2] = d[r] THEN index[r] + f[r] + 1 ELSE Taken(r, o[2])
          /\ o[2] = d[r] => Taken(r, o[2]) = index[r] + f[r]
      BY <1>5, <3>1
    <3>3. o = old <=> Reads(r, o) /\ o[2] = d[r] /\ o[3] = f[r] + index[r]
      <4>1. Reads(r, o) /\ o[2] = d[r] => o[1] = ReadRank(r)
        BY DEF Reads, ReadRank, Shift
      <4> QED
        BY <1>4, <3>1, <4>1
    <3>4. (Reads(r, o) => Taken(r, o[2])' <= o[3]) <=>
             (Reads(r, o) => Taken(r, o[2]) <= o[3]) /\ o # old
      <4> HIDE DEF old
      <4> QED
        BY <1>3, <3>1, <3>2, <3>3
    <3>5. Held(o)' <=>
             /\ Filled(o[1]) /\ ~Cleaned(o[1])
             /\ \A a \in Ranks \ {r} : Reads(a, o) => Taken(a, o[2]) <= o[3]
             /\ \A b \in Ranks \ {r} : Writes(b, o) =>
                   o[3] < opt.precreate + Made(b, o[2]) \/ Fresh(b, o)
             /\ Reads(r, o) => Taken(r, o[2])' <= o[3]
             /\ Writes(r, o) =>
                   o[3] < opt.precreate + Made(r, o[2])' \/ Fresh(r, o)'
      BY <1>1, <2>1, HeldNext
    <3>6. Held(o) <=>
             /\ Filled(o[1]) /\ ~Cleaned(o[1])
             /\ \A a \in Ranks \ {r} : Reads(a, o) => Taken(a, o[2]) <= o[3]
             /\ \A b \in Ranks \ {r} : Writes(b, o) =>
                   o[3] < opt.precreate + Made(b, o[2]) \/ Fresh(b, o)
             /\ Reads(r, o) => Taken(r, o[2]) <= o[3]
             /\ Writes(r, o) =>
                   o[3] < opt.precreate + Made(r, o[2]) \/ Fresh(r, o)
      BY <2>1, HeldNow
    <3> HIDE DEF old
    <3> QED
      BY <1>6, <3>2, <3>4, <3>5, <3>6
  <2>2. CASE o \notin Ranks \X DataSets \X Nat
    BY <1>1, <2>2, HeldNext
  <2> QED
    BY <2>1, <2>2
<1> HIDE DEF old
<1>8. ASSUME NEW o PROVE Content(o)' = Content(o)
  <2>1. \A b \in Ranks : Fresh(b, o)' <=> Fresh(b, o)
    <3>1. \A b \in Ranks \ {r} : Fresh(b, o)' = Fresh(b, o)
      BY <1>1, OthersQueue DEF Ready
    <3> QED
      BY <1>6, <3>1
  <2> QED
    BY <1>2, <2>1 DEF Content, Pattern
<1>9. /\ DOMAIN objects' = DOMAIN objects \ {old}
      /\ \A o \in DOMAIN objects' : objects'[o] = objects[o]
  BY <1>2 DEF Without
<1>10. objects' = [o \in DOMAIN objects' |-> objects'[o]]
  BY <1>2 DEF Without
<1>11. QueueInv
  BY DEF Ready
<1>12. \A s \in Ranks : /\ pc'[s] \in {"timer", "wearWait"} => d'[s] = 0
                        /\ pc'[s] \in {"remove", "create", "write"} => ~opt.readOnly
  BY <1>1, <1>2, <1>11 DEF QueueInv, Own
<1>13. \A o : o \in DOMAIN objects' <=> Held(o)'
  BY <1>7, <1>9, <1>11 DEF QueueInv
<1>14. \A o \in DOMAIN objects' : objects'[o] = Content(o)'
  BY <1>8, <1>9, <1>11 DEF QueueInv
<1> QED
  BY <1>1, <1>2, <1>10, <1>12, <1>13, <1>14 DEF QueueInv

\* There is room for the object a step makes: no rank is so far behind that
\* it has yet to take what comes at that place.
LEMMA NewFits ==
    ASSUME Ready, NEW r \in Ranks, pc[r] \in {"create", "write"}
    PROVE  /\ NewObject(r) \in Ranks \X DataSets \X Nat
           /\ NewObject(r) = <<WriteRank(r), d[r], opt.precreate + Made(r, d[r])>>
           /\ Made(r, d[r]) = index[r] + f[r]
           /\ Filled(WriteRank(r)) /\ ~Cleaned(WriteRank(r))
           /\ \A a \in Ranks : Taken(a, d[r]) <= opt.precreate + Made(r, d[r])
           /\ Writes(r, NewObject(r))
           /\ \A b \in Ranks : Writes(b, NewObject(r)) => b = r
           /\ \A o \in Ranks \X DataSets \X Nat :
                 o = NewObject(r) <=>
                    Writes(r, o) /\ o[2] = d[r] /\ o[3] = opt.precreate + Made(r, d[r])
<1> DEFINE new == NewObject(r)
<1>1. /\ Phase(r) = "benchmark" /\ At(r) = index[r] /\ pc[r] \in InRound
      /\ index[r] \in Nat /\ f[r] \in Nat /\ d[r] \in DataSets /\ d[r] \in Nat
      /\ opt.precreate \in Nat /\ opt.num \in Nat /\ opt.num <= opt.precreate
  BY RoundFacts DEF InRound, Stepping
<1>2. ~opt.readOnly
  BY DEF Ready, QueueInv
<1>3. new \in Names
  BY NameTypes, Parts DEF Ready, Aligned, Known, IInv
<1>4. Made(r, d[r]) = index[r] + f[r]
  <2>1. ~(d[r] < d[r])
    BY <1>1
  <2>2. Over(r, d[r], {}) = f[r]
    BY <1>1, <1>2, <2>1 DEF Over
  <2> QED
    BY <1>1, <2>2 DEF Made
<1>5. new = <<WriteRank(r), d[r], opt.precreate + Made(r, d[r])>>
  <2>1. NewFileIndex(r) = opt.precreate + (index[r] + f[r])
    BY <1>1 DEF NewFileIndex, PrevFile
  <2> QED
    BY <1>4, <2>1 DEF NewObject
<1>6. WriteRank(r) \in Ranks /\ opt.precreate + Made(r, d[r]) \in Nat
  <2> HIDE DEF new
  <2> QED
    BY <1>3, <1>5 DEF Names
<1>7. new \in Ranks \X DataSets \X Nat
  <2> HIDE DEF new
  <2> QED
    BY <1>1, <1>5, <1>6
<1> HIDE DEF new
<1>8. new[1] = WriteRank(r) /\ new[2] = d[r] /\ new[3] = opt.precreate + Made(r, d[r])
  BY <1>5
<1>9. Writes(r, new)
  BY <1>8 DEF Writes, Shift, WriteRank
<1>10. \A b \in Ranks : Writes(b, new) => b = r
  BY <1>7, <1>9, ReadersWriters DEF Ready, Aligned, Known
<1>11. Filled(WriteRank(r)) /\ ~Cleaned(WriteRank(r))
  BY <1>1, <1>6, Together DEF Ready
<1>12. ASSUME NEW a \in Ranks PROVE Taken(a, d[r]) <= opt.precreate + Made(r, d[r])
  <2>1. Phase(a) = "benchmark" /\ Origin(a) = index[r]
    BY <1>1, Together DEF Ready
  <2>2. Taken(a, d[r]) <= index[r] + opt.num /\ Taken(a, d[r]) \in Nat
    BY <1>1, <2>1, WithinRound, QueueTypes DEF Ready, Aligned
  <2>3. index[r] + opt.num <= opt.precreate + (index[r] + f[r])
    BY <1>1
  <2> HIDE DEF Taken
  <2> QED
    BY <1>1, <1>4, <2>2, <2>3
<1>13. ASSUME NEW o \in Ranks \X DataSets \X Nat
       PROVE  o = new <=>
                 Writes(r, o) /\ o[2] = d[r] /\ o[3] = opt.precreate + Made(r, d[r])
  <2>1. o = <<o[1], o[2], o[3]>>
    BY <1>13
  <2>2. Writes(r, o) /\ o[2] = d[r] => o[1] = WriteRank(r)
    BY DEF Writes, WriteRank, Shift
  <2> QED
    BY <1>5, <1>8, <1>9, <2>1, <2>2
<1> QED
  BY <1>4, <1>5, <1>7, <1>9, <1>10, <1>11, <1>12, <1>13 DEF new

\* Create keeps the queue.
LEMMA CreateQueue ==
    ASSUME Ready, NEW r \in Ranks, Create(r)
    PROVE  QueueInv' /\ Cleaned(r)' = Cleaned(r)
<1> DEFINE new == NewObject(r)
           names == Ranks \X DataSets \X Nat
<1>1. /\ RankStep(r) /\ Own(r) /\ RanksOK /\ ~opt.readOnly
      /\ Phase(r) = "benchmark" /\ Phase(r)' = "benchmark"
      /\ Filled(r)' = Filled(r) /\ Cleaned(r)' = Cleaned(r)
      /\ At(r) = index[r] /\ At(r)' = index[r]
  BY ChangeFacts
<1>2. /\ UNCHANGED <<index, f, d, todo, opt>> /\ pc[r] = "create" /\ pc'[r] = "write"
      /\ objects' = With([o \in {new} |-> Unwritten])
  BY <1>1 DEF Create, Go, RanksOK, round
<1>3. /\ new \in names /\ Writes(r, new)
      /\ new = <<WriteRank(r), d[r], opt.precreate + Made(r, d[r])>>
      /\ Filled(WriteRank(r)) /\ ~Cleaned(WriteRank(r))
      /\ \A a \in Ranks : Taken(a, d[r]) <= opt.precreate + Made(r, d[r])
      /\ \A b \in Ranks : Writes(b, new) => b = r
      /\ \A o \in names : o = new <=>
            Writes(r, o) /\ o[2] = d[r] /\ o[3] = opt.precreate + Made(r, d[r])
  BY <1>2, NewFits
<1> HIDE DEF new
<1>4. ASSUME NEW k \in DataSets
      PROVE  Made(r, k)' = Made(r, k) /\ Taken(r, k)' = Taken(r, k)
  <2>1. /\ Over(r, k, {})' = Over(r, k, {})
        /\ Over(r, k, {"create", "write"})' = Over(r, k, {"create", "write"})
    BY <1>1, <1>2 DEF Over, InRound, Stepping
  <2> QED
    BY <1>1, <2>1 DEF Taken, Made
<1>5. \A o : ~Fresh(r, o)
  BY <1>2 DEF Fresh
<1>6. \A o \in names : Fresh(r, o)' <=> o = new
  <2> SUFFICES ASSUME NEW o \in names PROVE Fresh(r, o)' <=> o = new
    OBVIOUS
  <2>1. Writes(r, o)' = Writes(r, o) /\ o[2] \in DataSets
    BY <1>2 DEF Writes, Shift
  <2>2. Made(r, o[2])' = Made(r, o[2])
    BY <1>4, <2>1
  <2>3. Fresh(r, o)' <=>
           Writes(r, o) /\ d[r] = o[2] /\ o[3] = opt.precreate + Made(r, o[2])
    BY <1>2, <2>1, <2>2 DEF Fresh
  <2> QED
    BY <1>3, <2>3
<1>7. new[1] = WriteRank(r) /\ new[2] = d[r] /\ new[3] = opt.precreate + Made(r, d[r])
  BY <1>3
<1>8. ASSUME NEW o PROVE Held(o)' <=> Held(o) \/ o = new
  <2>1. CASE o \in names
    <3>1. o[2] \in DataSets
      BY <2>1
    <3>2. Made(r, o[2])' = Made(r, o[2]) /\ Taken(r, o[2])' = Taken(r, o[2])
      BY <1>4, <3>1
    <3>3. Held(o)' <=>
             /\ Filled(o[1]) /\ ~Cleaned(o[1])
             /\ \A a \in Ranks \ {r} : Reads(a, o) => Taken(a, o[2]) <= o[3]
             /\ \A b \in Ranks \ {r} : Writes(b, o) =>
                   o[3] < opt.precreate + Made(b, o[2]) \/ Fresh(b, o)
             /\ Reads(r, o) => Taken(r, o[2])' <= o[3]
             /\ Writes(r, o) =>
                   o[3] < opt.precreate + Made(r, o[2])' \/ Fresh(r, o)'
      BY <1>1, <2>1, HeldNext
    <3>4. Held(o) <=>
             /\ Filled(o[1]) /\ ~Cleaned(o[1])
             /\ \A a \in Ranks \ {r} : Reads(a, o) => Taken(a, o[2]) <= o[3]
             /\ \A b \in Ranks \ {r} : Writes(b, o) =>
                   o[3] < opt.precreate + Made(b, o[2]) \/ Fresh(b, o)
             /\ Reads(r, o) => Taken(r, o[2]) <= o[3]
             /\ Writes(r, o) =>
                   o[3] < opt.precreate + Made(r, o[2]) \/ Fresh(r, o)
      BY <2>1, HeldNow
    <3>5. CASE o = new
      BY <1>3, <1>6, <1>7, <2>1, <3>2, <3>3, <3>5
    <3>6. CASE o # new
      <4>1. ~Fresh(r, o)'
        BY <1>6, <2>1, <3>6
      <4> QED
        BY <1>5, <3>2, <3>3, <3>4, <3>6, <4>1
    <3> QED
      BY <3>5, <3>6
  <2>2. CASE o \notin names
    BY <1>1, <1>3, <2>2, HeldNext
  <2> QED
    BY <2>1, <2>2
<1>9. ASSUME NEW o \in names
      PROVE  Content(o)' = IF o = new THEN Unwritten ELSE Content(o)
  <2>1. \A b \in Ranks \ {r} : Fresh(b, o)' = Fresh(b, o)
    BY <1>1, OthersQueue DEF Ready
  <2>2. CASE o = new
    BY <1>6, <2>2 DEF Content
  <2>3. CASE o # new
    <3>1. \A b \in Ranks : Fresh(b, o)' <=> Fresh(b, o)
      BY <1>5, <1>6, <2>1, <2>3
    <3> QED
      BY <1>2, <2>3, <3>1 DEF Content, Pattern
  <2> QED
    BY <2>2, <2>3
<1>10. QueueInv
  BY DEF Ready
<1>11. /\ DOMAIN objects' = DOMAIN objects \cup {new}
       /\ objects' = [o \in DOMAIN objects' |-> objects'[o]]
       /\ objects'[new] = Unwritten
       /\ \A o \in DOMAIN objects \ {new} : objects'[o] = objects[o]
  BY <1>2 DEF With
<1>12. \A o : o \in DOMAIN objects' <=> Held(o)'
  BY <1>8, <1>10, <1>11 DEF QueueInv
<1>13. \A o \in DOMAIN objects' : objects'[o] = Content(o)'
  <2> SUFFICES ASSUME NEW o \in DOMAIN objects' PROVE objects'[o] = Content(o)'
    OBVIOUS
  <2>1. o \in names
    BY <1>1, <1>12, HeldNext
  <2>2. CASE o = new
    BY <1>9, <1>11, <2>1, <2>2
  <2>3. CASE o # new
    <3>1. o \in DOMAIN objects /\ objects'[o] = objects[o]
      BY <1>11, <2>3
    <3>2. objects[o] = Content(o)
      BY <1>10, <3>1 DEF QueueInv
    <3> QED
      BY <1>9, <2>1, <2>3, <3>1, <3>2
  <2> QED
    BY <2>2, <2>3
<1>14. \A s \in Ranks : /\ pc'[s] \in {"timer", "wearWait"} => d'[s] = 0
                        /\ pc'[s] \in {"remove", "create", "write"} => ~opt.readOnly
  BY <1>1, <1>2, <1>10 DEF QueueInv, Own
<1> QED
  BY <1>1, <1>2, <1>11, <1>12, <1>13, <1>14 DEF QueueInv

\* Write keeps the queue.
LEMMA WriteQueue ==
    ASSUME Ready, NEW r \in Ranks, Write(r)
    PROVE  QueueInv' /\ Cleaned(r)' = Cleaned(r)
<1> DEFINE new == NewObject(r)
           names == Ranks \X DataSets \X Nat
<1>1. /\ RankStep(r) /\ Own(r) /\ RanksOK /\ ~opt.readOnly
      /\ Phase(r) = "benchmark" /\ Phase(r)' = "benchmark"
      /\ Filled(r)' = Filled(r) /\ Cleaned(r)' = Cleaned(r)
      /\ At(r) = index[r] /\ At(r)' = index[r]
  BY ChangeFacts
<1>2. /\ UNCHANGED <<index, f, todo, opt>> /\ pc[r] = "write" /\ NextDataSet(r)
      /\ objects' = [objects EXCEPT ![new] = Pattern(WriteRank(r), d[r], NewFileIndex(r))]
  BY <1>1 DEF Write
<1>3. /\ new \in names /\ Writes(r, new)
      /\ new = <<WriteRank(r), d[r], opt.precreate + Made(r, d[r])>>
      /\ Made(r, d[r]) = index[r] + f[r]
      /\ Filled(WriteRank(r)) /\ ~Cleaned(WriteRank(r))
      /\ \A a \in Ranks : Taken(a, d[r]) <= opt.precreate + Made(r, d[r])
      /\ \A b \in Ranks : Writes(b, new) => b = r
      /\ \A o \in names : o = new <=>
            Writes(r, o) /\ o[2] = d[r] /\ o[3] = opt.precreate + Made(r, d[r])
  BY <1>2, NewFits
<1>4. /\ index[r] \in Nat /\ f[r] \in Nat /\ d[r] \in DataSets /\ d[r] \in Nat
      /\ DataSets \subseteq Nat /\ opt.dsetCount \in Nat \ {0} /\ opt.precreate \in Nat
  BY <1>2, RoundFacts DEF InRound, Stepping
<1>5. new[1] = WriteRank(r) /\ new[2] = d[r] /\ new[3] = NewFileIndex(r)
  BY DEF NewObject
<1> HIDE DEF new
<1>6. \/ pc'[r] = "stat" /\ d'[r] = d[r] + 1
      \/ pc'[r] = "timer" /\ d'[r] = 0 /\ \A k \in DataSets : k <= d[r]
  <2>1. ~(d[r] + 1 < opt.dsetCount) => \A k \in DataSets : k <= d[r]
    BY <1>4 DEF DataSets
  <2> QED
    BY <1>1, <1>2, <2>1 DEF NextDataSet, Go, RanksOK
<1>7. ASSUME NEW k \in DataSets
      PROVE  /\ Taken(r, k)' = Taken(r, k)
             /\ k # d[r] => Made(r, k)' = Made(r, k)
             /\ k = d[r] => Made(r, k)' = Made(r, k) + 1
  <2>1. k \in Nat
    BY <1>4
  <2>2. ASSUME NEW places
        PROVE  Over(r, k, places)' = IF k <= d[r] \/ (k = d[r] + 1 /\ "stat" \in places)
                                     THEN f[r] + 1 ELSE f[r]
    <3>1. CASE pc'[r] = "stat" /\ d'[r] = d[r] + 1
      <4>1. k < d[r] + 1 <=> k <= d[r]
        BY <1>4, <2>1
      <4>2. Over(r, k, places)' =
              IF k < d'[r] \/ (k = d'[r] /\ "stat" \in places) THEN f[r] + 1 ELSE f[r]
        BY <1>1, <1>2, <3>1 DEF Over, InRound, Stepping
      <4> QED
        BY <3>1, <4>1, <4>2
    <3>2. CASE pc'[r] = "timer" /\ \A j \in DataSets : j <= d[r]
      <4>1. Over(r, k, places)' = f[r] + 1
        BY <1>1, <1>2, <3>2 DEF Over, InRound, Stepping
      <4> QED
        BY <3>2, <4>1
    <3> QED
      BY <1>6, <3>1, <3>2
  <2>3. ASSUME NEW places
        PROVE  Over(r, k, places) = IF k < d[r] \/ (k = d[r] /\ "write" \in places)
                                    THEN f[r] + 1 ELSE f[r]
    BY <1>1, <1>2 DEF Over, InRound, Stepping
  <2>4. k <= d[r] <=> k < d[r] \/ k = d[r]
    BY <1>4, <2>1
  <2>5. Over(r, k, {"create", "write"})' = Over(r, k, {"create", "write"})
    BY <2>2, <2>3, <2>4
  <2>6. Over(r, k, {})' = IF k <= d[r] THEN f[r] + 1 ELSE f[r]
    BY <2>2
  <2>7. Over(r, k, {}) = IF k < d[r] THEN f[r] + 1 ELSE f[r]
    BY <2>3
  <2> HIDE DEF Over
  <2>8. Taken(r, k)' = Taken(r, k)
    BY <1>1, <2>5 DEF Taken
  <2>9. /\ k # d[r] => Made(r, k)' = Made(r, k)
        /\ k = d[r] => Made(r, k)' = Made(r, k) + 1
    BY <1>1, <1>4, <2>1, <2>6, <2>7 DEF Made
  <2> QED
    BY <2>8, <2>9
<1>8. \A o \in names : Fresh(r, o) <=> o = new
  <2> SUFFICES ASSUME NEW o \in names PROVE Fresh(r, o) <=> o = new
    OBVIOUS
  <2>1. Fresh(r, o) <=>
           Writes(r, o) /\ d[r] = o[2] /\ o[3] = opt.precreate + Made(r, o[2])
    BY <1>2 DEF Fresh
  <2> QED
    BY <1>3, <2>1
<1>9. \A o : ~Fresh(r, o)'
  BY <1>6 DEF Fresh
<1>10. ASSUME NEW o PROVE Held(o)' <=> Held(o)
  <2>1. CASE o \in names
    <3>1. o[2] \in DataSets /\ o[3] \in Nat /\ Made(r, o[2]) \in Nat
      BY <2>1, QueueTypes DEF Ready, Aligned
    <3>2. /\ Taken(r, o[2])' = Taken(r, o[2])
          /\ o[2] # d[r] => Made(r, o[2])' = Made(r, o[2])
          /\ o[2] = d[r] => Made(r, o[2])' = Made(r, o[2]) + 1
      BY <1>7, <3>1
    <3>3. Held(o)' <=>
             /\ Filled(o[1]) /\ ~Cleaned(o[1])
             /\ \A a \in Ranks \ {r} : Reads(a, o) => Taken(a, o[2]) <= o[3]
             /\ \A b \in Ranks \ {r} : Writes(b, o) =>
                   o[3] < opt.precreate + Made(b, o[2]) \/ Fresh(b, o)
             /\ Reads(r, o) => Taken(r, o[2])' <= o[3]
             /\ Writes(r, o) =>
                   o[3] < opt.precreate + Made(r, o[2])' \/ Fresh(r, o)'
      BY <1>1, <2>1, HeldNext
    <3>4. Held(o) <=>
             /\ Filled(o[1]) /\ ~Cleaned(o[1])
             /\ \A a \in Ranks \ {r} : Reads(a, o) => Taken(a, o[2]) <= o[3]
             /\ \A b \in Ranks \ {r} : Writes(b, o) =>
                   o[3] < opt.precreate + Made(b, o[2]) \/ Fresh(b, o)
             /\ Reads(r, o) => Taken(r, o[2]) <= o[3]
             /\ Writes(r, o) =>
                   o[3] < opt.precreate + Made(r, o[2]) \/ Fresh(r, o)
      BY <2>1, HeldNow
    <3>5. Fresh(r, o) <=>
             Writes(r, o) /\ o[2] = d[r] /\ o[3] = opt.precreate + Made(r, o[2])
      BY <1>3, <1>8, <2>1
    <3>6. Writes(r, o) =>
             (o[3] < opt.precreate + Made(r, o[2])' <=>
                 o[3] < opt.precreate + Made(r, o[2]) \/ Fresh(r, o))
      <4>1. \A a, b, c \in Nat : a < b + (c + 1) <=> a < b + c \/ a = b + c
        OBVIOUS
      <4> HIDE DEF Fresh, Made
      <4> QED
        BY <1>4, <3>1, <3>2, <3>5, <4>1
    <3> QED
      BY <1>9, <3>2, <3>3, <3>4, <3>6
  <2>2. CASE o \notin names
    BY <1>1, <2>2, HeldNext
  <2> QED
    BY <2>1, <2>2
<1>11. ASSUME NEW o \in names
       PROVE  Content(o)' = IF o = new THEN Pattern(o[1], o[2], o[3]) ELSE Content(o)
  <2>1. \A b \in Ranks \ {r} : Fresh(b, o)' = Fresh(b, o)
    BY <1>1, OthersQueue DEF Ready
  <2>2. CASE o = new
    <3>1. \A b \in Ranks : ~Fresh(b, o)'
      BY <1>3, <1>9, <2>1, <2>2 DEF Fresh
    <3> QED
      BY <1>2, <2>2, <3>1 DEF Content, Pattern
  <2>3. CASE o # new
    <3>1. \A b \in Ranks : Fresh(b, o)' <=> Fresh(b, o)
      BY <1>8, <1>9, <2>1, <2>3
    <3> QED
      BY <1>2, <2>3, <3>1 DEF Content, Pattern
  <2> QED
    BY <2>2, <2>3
<1>12. QueueInv
  BY DEF Ready
<1>13. /\ DOMAIN objects' = DOMAIN objects
       /\ objects' = [o \in DOMAIN objects' |-> objects'[o]]
       /\ new \in DOMAIN objects => objects'[new] = Pattern(WriteRank(r), d[r], NewFileIndex(r))
       /\ \A o \in DOMAIN objects \ {new} : objects'[o] = objects[o]
  BY <1>2
<1>14. \A o : o \in DOMAIN objects' <=> Held(o)'
  BY <1>10, <1>12, <1>13 DEF QueueInv
<1>15. \A o \in DOMAIN objects' : objects'[o] = Content(o)'
  <2> SUFFICES ASSUME NEW o \in DOMAIN objects' PROVE objects'[o] = Content(o)'
    OBVIOUS
  <2>1. o \in names
    BY <1>1, <1>14, HeldNext
  <2>2. CASE o = new
    BY <1>5, <1>11, <1>13, <2>1, <2>2
  <2>3. CASE o # new
    <3>1. o \in DOMAIN objects /\ objects'[o] = objects[o]
      BY <1>13, <2>3
    <3>2. objects[o] = Content(o)
      BY <1>12, <3>1 DEF QueueInv
    <3> QED
      BY <1>11, <2>1, <2>3, <3>1, <3>2
  <2> QED
    BY <2>2, <2>3
<1>16. \A s \in Ranks : /\ pc'[s] \in {"timer", "wearWait"} => d'[s] = 0
                        /\ pc'[s] \in {"remove", "create", "write"} => ~opt.readOnly
  BY <1>1, <1>6, <1>12 DEF QueueInv, Own
<1> QED
  BY <1>1, <1>2, <1>13, <1>14, <1>15, <1>16 DEF QueueInv

----------------------------------------------------------------------------
(***************************************************************************)
(* The queue when no rank is in the middle of a step.                      *)
(***************************************************************************)
Settled(n) ==
    \A s \in Ranks : /\ pc[s] # "write"
                     /\ \A k \in DataSets : Taken(s, k) = n /\ Made(s, k) = n

Whole(n) ==  \* every data set that there is has its objects, the oldest of them n
    \A o : /\ Held(o) <=> /\ o \in Ranks \X DataSets \X Nat
                          /\ Filled(o[1]) /\ ~Cleaned(o[1])
                          /\ n <= o[3] /\ o[3] < opt.precreate + n
           /\ Content(o) = Pattern(o[1], o[2], o[3])

\* A data set nobody works on is whole.
LEMMA SettledWhole == IInv /\ AllPlain => \A n \in Nat : Settled(n) => Whole(n)
<1> SUFFICES ASSUME IInv, AllPlain, NEW n \in Nat, Settled(n) PROVE Whole(n)
  OBVIOUS
<1> SUFFICES ASSUME NEW o
             PROVE  /\ Held(o) <=> /\ o \in Ranks \X DataSets \X Nat
                                   /\ Filled(o[1]) /\ ~Cleaned(o[1])
                                   /\ n <= o[3] /\ o[3] < opt.precreate + n
                    /\ Content(o) = Pattern(o[1], o[2], o[3])
  BY DEF Whole
<1>1. \A b \in Ranks : ~Fresh(b, o)
  BY DEF Settled, Fresh
<1>2. Content(o) = Pattern(o[1], o[2], o[3])
  BY <1>1 DEF Content
<1>3. CASE o \in Ranks \X DataSets \X Nat
  <2>1. /\ \E a \in Ranks : Reads(a, o)
        /\ \E b \in Ranks : Writes(b, o)
    BY <1>3, ReadersWriters
  <2>2. \A s \in Ranks : Taken(s, o[2]) = n /\ Made(s, o[2]) = n
    BY <1>3 DEF Settled
  <2> QED
    BY <1>1, <1>2, <1>3, <2>1, <2>2 DEF Held
<1>4. CASE o \notin Ranks \X DataSets \X Nat
  BY <1>2, <1>4 DEF Held
<1> QED
  BY <1>3, <1>4

\* And after a step.
LEMMA SettledWholeNext == IInv' /\ AllPlain => \A n \in Nat : Settled(n)' => Whole(n)'
<1>1. (IInv /\ AllPlain => \A n \in Nat : Settled(n) => Whole(n))'
  BY SettledWhole, PTL
<1> QED
  BY <1>1 DEF AllPlain

\* What a rank has done, in terms of the index its phase began at.
LEMMA OutOfRound ==
    ASSUME NEW r \in Ranks, Phase(r) # "benchmark" \/ pc[r] \notin InRound \cup {"ended"}
    PROVE  \A k : Taken(r, k) = At(r) + 0 /\ Made(r, k) = At(r) + 0
BY DEF Taken, Made, Over

\* During the precreation nobody has done anything else.
LEMMA PrecreateFacts ==
    ASSUME Ready, NEW r \in Ranks, Precreate(r)
    PROVE  /\ RankStep(r) /\ Own(r) /\ RanksOK /\ index[r] = 0
           /\ Settled(0) /\ Settled(0)'
           /\ ~Filled(r) /\ Filled(r)' /\ ~Cleaned(r) /\ ~Cleaned(r)'
           /\ \A s \in Ranks : Done(s) = 0 /\ Phase(s) = "precreate"
<1>1. RankStep(r) /\ Own(r) /\ RanksOK
  BY Parts, StepsOwn DEF RankStep, Ready, Aligned, Known, IInv
<1>2. /\ UNCHANGED <<index, todo>> /\ pc[r] = "precreate" /\ pc'[r] = "ended"
  BY <1>1 DEF Precreate, Go, RanksOK
<1>3. Phase(r) = "precreate" /\ Phase(r)' = "precreate"
  BY <1>1, <1>2, SamePhase DEF Ready, Aligned, Known, PlaceInv, PhaseOK
<1>4. At(r) = 0 /\ index[r] = 0
  BY <1>2, <1>3 DEF Ready, Aligned, OriginInv, At, Arriving
<1>5. Done(r) = 0 /\ execution = 1
  <2>1. /\ Done(r) \in 0 .. Len(Executed) - 1 /\ Executed[Done(r) + 1] = "precreate"
        /\ Done(r) + 1 \in DOMAIN Executed
    BY <1>3, PhaseOfExecution DEF Ready, Aligned
  <2>2. Done(r) + 1 = 1 /\ execution = 1
    BY <2>1, PhaseFacts DEF Ready, Aligned, Known
  <2> HIDE DEF Done
  <2> QED
    BY <2>1, <2>2
<1>6. ASSUME NEW s \in Ranks PROVE Done(s) = 0 /\ Phase(s) = "precreate"
  <2>1. Done(s) >= 0 /\ Done(s) \in Int
    <3>1. Len(todo[s]) <= Len(Executed) /\ Len(todo[s]) \in Int /\ Len(Executed) \in Int
      BY Numbers DEF Ready, Aligned, Known, PlaceInv, Suffix
    <3> QED
      BY <3>1 DEF Done
  <2>2. Near(r, s) /\ pc[r] \notin {"endWait", "report"}
    BY <1>2 DEF Ready, Aligned, Known, NearInv
  <2>3. Done(s) = 0
    <3> HIDE DEF Done
    <3> QED
      BY <1>5, <2>1, <2>2 DEF Near
  <2> QED
    BY <1>3, <1>5, <2>3, SameTodo DEF Ready, Aligned
<1>7. \A s \in Ranks : pc[s] # "write"
  BY <1>6 DEF Ready, Aligned, Known, PlaceInv, PhaseOK, InRound, Stepping
<1>8. Settled(0)
  <2>1. \A s \in Ranks : At(s) = 0
    BY <1>6 DEF Ready, Aligned, OriginInv
  <2> QED
    BY <1>6, <1>7, <2>1, OutOfRound DEF Settled
<1>9. Settled(0)'
  <2>1. opt' = opt /\ DataSets' = DataSets
        /\ \A s \in Ranks \ {r} :
              /\ pc'[s] = pc[s]
              /\ \A k : Taken(s, k)' = Taken(s, k) /\ Made(s, k)' = Made(s, k)
    BY <1>1, OthersQueue DEF Ready
  <2>2. \A k : Taken(r, k)' = 0 /\ Made(r, k)' = 0
    <3>1. \A k, places : Over(r, k, places)' = 0
      BY <1>3 DEF Over
    <3>2. At(r)' = 0
      BY <1>2, <1>4 DEF At, Arriving
    <3> QED
      BY <3>1, <3>2 DEF Taken, Made
  <2> QED
    BY <1>2, <1>8, <2>1, <2>2 DEF Settled
<1>10. ~Filled(r) /\ Filled(r)'
  BY <1>2, <1>5 DEF Filled, Closed
<1>11. ~Cleaned(r) /\ ~Cleaned(r)'
  BY <1>3 DEF Cleaned
<1> QED
  BY <1>1, <1>4, <1>6, <1>8, <1>9, <1>10, <1>11

\* Precreate keeps the queue.
LEMMA PrecreateQueue ==
    ASSUME Ready, NEW r \in Ranks, Precreate(r)
    PROVE  QueueInv'
<1> DEFINE own == {r} \X DataSets \X (0 .. opt.precreate - 1)
           names == Ranks \X DataSets \X Nat
<1>1. /\ RankStep(r) /\ Own(r) /\ RanksOK /\ index[r] = 0
      /\ Settled(0) /\ Settled(0)'
      /\ ~Filled(r) /\ Filled(r)' /\ ~Cleaned(r) /\ ~Cleaned(r)'
  BY PrecreateFacts
<1>2. IInv /\ IInv' /\ AllPlain /\ opt.precreate \in Nat
  BY OptionFacts DEF Ready, Aligned, Known
<1>3. Whole(0) /\ Whole(0)'
  BY <1>1, <1>2, SettledWhole, SettledWholeNext
<1>4. /\ opt' = opt /\ DataSets' = DataSets
      /\ \A s \in Ranks \ {r} : Filled(s)' = Filled(s) /\ Cleaned(s)' = Cleaned(s)
  BY <1>1, OthersQueue DEF Ready
<1>5. ASSUME NEW o PROVE Held(o)' <=> Held(o) \/ o \in own
  <2>1. Held(o) <=> /\ o \in names /\ Filled(o[1]) /\ ~Cleaned(o[1])
                    /\ 0 <= o[3] /\ o[3] < opt.precreate + 0
    BY <1>3 DEF Whole
  <2>2. Held(o)' <=> /\ o \in names /\ Filled(o[1])' /\ ~Cleaned(o[1])'
                     /\ 0 <= o[3] /\ o[3] < opt.precreate + 0
    BY <1>3, <1>4 DEF Whole
  <2>3. o \in own <=> o \in names /\ o[1] = r /\ 0 <= o[3] /\ o[3] < opt.precreate + 0
    BY <1>2
  <2>4. CASE o \in names /\ o[1] = r
    BY <1>1, <2>1, <2>2, <2>3, <2>4
  <2>5. CASE o \in names /\ o[1] # r
    <3>1. o[1] \in Ranks \ {r}
      BY <2>5
    <3>2. Filled(o[1])' = Filled(o[1]) /\ Cleaned(o[1])' = Cleaned(o[1])
      BY <1>4, <3>1
    <3> QED
      BY <2>1, <2>2, <2>3, <2>5, <3>2
  <2>6. CASE o \notin names
    BY <2>1, <2>2, <2>3, <2>6
  <2> QED
    BY <2>4, <2>5, <2>6
<1>6. \A o : /\ Content(o) = Pattern(o[1], o[2], o[3])
             /\ Content(o)' = Pattern(o[1], o[2], o[3])
  BY <1>3, <1>4 DEF Whole, Pattern
<1>7. QueueInv
  BY DEF Ready
<1>8. objects' = With([o \in own |-> Pattern(o[1], o[2], o[3])])
  BY <1>1 DEF Precreate
<1> HIDE DEF own
<1>9. /\ DOMAIN objects' = DOMAIN objects \cup own
      /\ objects' = [o \in DOMAIN objects' |-> objects'[o]]
      /\ \A o \in own : objects'[o] = Pattern(o[1], o[2], o[3])
      /\ \A o \in DOMAIN objects \ own : objects'[o] = objects[o]
  BY <1>8 DEF With
<1>10. \A o : o \in DOMAIN objects' <=> Held(o)'
  BY <1>5, <1>7, <1>9 DEF QueueInv
<1>11. \A o \in DOMAIN objects' : objects'[o] = Content(o)'
  BY <1>6, <1>7, <1>9 DEF QueueInv
<1>12. \A s \in Ranks : /\ pc'[s] \in {"timer", "wearWait"} => d'[s] = 0
                        /\ pc'[s] \in {"remove", "create", "write"} => ~opt.readOnly
  <2>1. pc'[r] = "ended"
    BY <1>1 DEF Precreate, Go, RanksOK
  <2> QED
    BY <1>1, <1>7, <2>1 DEF QueueInv, Own
<1> QED
  BY <1>4, <1>9, <1>10, <1>11, <1>12 DEF QueueInv

\* During the cleanup everybody has got to the same place.
LEMMA CleanupFacts ==
    ASSUME Ready, NEW r \in Ranks, Cleanup(r)
    PROVE  /\ RankStep(r) /\ Own(r) /\ RanksOK /\ index[r] \in Nat
           /\ Settled(index[r]) /\ Settled(index[r])' /\ index'[r] = index[r]
           /\ Filled(r) /\ Filled(r)' /\ ~Cleaned(r) /\ Cleaned(r)'
<1>1. RankStep(r) /\ Own(r) /\ RanksOK
  BY Parts, StepsOwn DEF RankStep, Ready, Aligned, Known, IInv
<1>2. /\ UNCHANGED <<index, todo>> /\ pc[r] = "cleanup" /\ pc'[r] = "ended"
  BY <1>1 DEF Cleanup, Go, RanksOK
<1>3. Phase(r) = "cleanup" /\ Phase(r)' = "cleanup" /\ Done(r)' = Done(r)
  BY <1>1, <1>2, SamePhase DEF Ready, Aligned, Known, PlaceInv, PhaseOK
<1>4. At(r) = index[r] /\ At(r)' = index[r] /\ Origin(r) = index[r] /\ index[r] \in Nat
  BY <1>1, <1>2, <1>3 DEF At, Arriving, Origin, Counted, RanksOK
<1>5. ASSUME NEW s \in Ranks
      PROVE  /\ pc[s] # "write"
             /\ \A k : Taken(s, k) = index[r] + 0 /\ Made(s, k) = index[r] + 0
  <2>1. /\ Near(r, s) /\ Near(s, r) /\ SameOrigin(r, s) /\ SameOrigin(s, r)
        /\ Done(r) \in Int /\ Done(s) \in Int /\ pc[r] \notin {"endWait", "report"}
    BY <1>2, Numbers DEF Ready, Aligned, Known, NearInv, OriginInv
  <2>2. Done(s) = Done(r) \/ Done(r) = Done(s) + 1
    <3> HIDE DEF Done
    <3> QED
      BY <2>1 DEF Near
  <2>3. CASE Done(s) = Done(r)
    <3>1. Phase(s) = "cleanup"
      BY <1>3, <2>3, SameTodo DEF Ready, Aligned
    <3>2. At(s) = index[r]
      BY <1>4, <2>1, <2>3, <3>1 DEF SameOrigin, Origin, Counted
    <3>3. pc[s] # "write"
      BY <3>1 DEF Ready, Aligned, Known, PlaceInv, PhaseOK, InRound, Stepping
    <3> QED
      BY <3>1, <3>2, <3>3, OutOfRound
  <2>4. CASE Done(r) = Done(s) + 1
    <3>1. pc[s] \in {"endWait", "report"}
      BY <2>1, <2>4 DEF Near
    <3>2. At(s) = index[r]
      BY <1>4, <2>1, <2>4, <3>1 DEF SameOrigin, At, Arriving
    <3> QED
      BY <3>1, <3>2, OutOfRound DEF InRound, Stepping
  <2> QED
    BY <2>2, <2>3, <2>4
<1>6. Settled(index[r])
  <2>1. index[r] + 0 = index[r]
    BY <1>4
  <2> QED
    BY <1>5, <2>1 DEF Settled
<1>7. Settled(index[r])'
  <2>1. opt' = opt /\ DataSets' = DataSets
        /\ \A s \in Ranks \ {r} :
              /\ pc'[s] = pc[s]
              /\ \A k : Taken(s, k)' = Taken(s, k) /\ Made(s, k)' = Made(s, k)
    BY <1>1, OthersQueue DEF Ready
  <2>2. \A k : Taken(r, k)' = index[r] /\ Made(r, k)' = index[r]
    <3>1. \A k, places : Over(r, k, places)' = 0
      BY <1>3 DEF Over
    <3> QED
      BY <1>4, <3>1 DEF Taken, Made
  <2>3. \A s \in Ranks :
          /\ pc'[s] # "write"
          /\ \A k \in DataSets' : Taken(s, k)' = index[r] /\ Made(s, k)' = index[r]
    BY <1>2, <1>6, <2>1, <2>2 DEF Settled
  <2>4. index'[r] = index[r]
    BY <1>2
  <2> QED
    BY <2>3, <2>4 DEF Settled
<1>8. Filled(r) /\ Filled(r)'
  BY <1>1, <1>2, <1>3, LaterPhase DEF Filled, Closed, Ready, Aligned, Own
<1>9. ~Cleaned(r) /\ Cleaned(r)'
  BY <1>2, <1>3 DEF Cleaned, Closed
<1> QED
  BY <1>1, <1>2, <1>4, <1>6, <1>7, <1>8, <1>9

\* Cleanup keeps the queue.
LEMMA CleanupQueue ==
    ASSUME Ready, NEW r \in Ranks, Cleanup(r)
    PROVE  QueueInv' /\ \A o \in DOMAIN objects' : o[1] # r
<1> DEFINE n == index[r]
           old == {r} \X DataSets \X (n .. n + opt.precreate - 1)
           names == Ranks \X DataSets \X Nat
<1>1. /\ RankStep(r) /\ Own(r) /\ RanksOK /\ n \in Nat
      /\ Settled(n) /\ Settled(n)' /\ n' = n
      /\ Filled(r) /\ Filled(r)' /\ ~Cleaned(r) /\ Cleaned(r)'
  BY CleanupFacts
<1>2. IInv /\ IInv' /\ AllPlain /\ opt.precreate \in Nat
  BY OptionFacts DEF Ready, Aligned, Known
<1>3. Whole(n)
  BY <1>1, <1>2, SettledWhole
<1>4. Whole(n)'
  <2>1. \A m \in Nat : Settled(m)' => Whole(m)'
    BY <1>2, SettledWholeNext
  <2> QED
    BY <1>1, <2>1
<1>5. /\ opt' = opt /\ DataSets' = DataSets
      /\ \A s \in Ranks \ {r} : Filled(s)' = Filled(s) /\ Cleaned(s)' = Cleaned(s)
  BY <1>1, OthersQueue DEF Ready
<1>6. objects' = Without(old)
  BY DEF Cleanup, CleanupStart
<1>7. \A o : Held(o) <=> /\ o \in names /\ Filled(o[1]) /\ ~Cleaned(o[1])
                         /\ n <= o[3] /\ o[3] < opt.precreate + n
  BY <1>3 DEF Whole
<1>8. \A o : Held(o)' <=> /\ o \in names /\ Filled(o[1])' /\ ~Cleaned(o[1])'
                          /\ n <= o[3] /\ o[3] < opt.precreate + n
  BY <1>1, <1>4, <1>5 DEF Whole
<1>9. \A o : /\ Content(o) = Pattern(o[1], o[2], o[3])
             /\ Content(o)' = Pattern(o[1], o[2], o[3])
  BY <1>3, <1>4, <1>5 DEF Whole, Pattern
<1> HIDE DEF n
<1>10. ASSUME NEW o PROVE Held(o)' <=> Held(o) /\ o \notin old
  <2>1. o \in old <=> o \in names /\ o[1] = r /\ n <= o[3] /\ o[3] < opt.precreate + n
    BY <1>1, <1>2
  <2>2. CASE o \in names /\ o[1] = r
    BY <1>1, <1>7, <1>8, <2>1, <2>2
  <2>3. CASE o \in names /\ o[1] # r
    <3>1. o[1] \in Ranks \ {r}
      BY <2>3
    <3>2. Filled(o[1])' = Filled(o[1]) /\ Cleaned(o[1])' = Cleaned(o[1])
      BY <1>5, <3>1
    <3> QED
      BY <1>7, <1>8, <2>1, <2>3, <3>2
  <2>4. CASE o \notin names
    BY <1>7, <1>8, <2>1, <2>4
  <2> QED
    BY <2>2, <2>3, <2>4
<1> HIDE DEF old
<1>11. QueueInv
  BY DEF Ready
<1>12. /\ DOMAIN objects' = DOMAIN objects \ old
       /\ objects' = [o \in DOMAIN objects' |-> objects'[o]]
       /\ \A o \in DOMAIN objects' : objects'[o] = objects[o]
  BY <1>6 DEF Without
<1>13. \A o : o \in DOMAIN objects' <=> Held(o)'
  BY <1>10, <1>11, <1>12 DEF QueueInv
<1>14. \A o \in DOMAIN objects' : objects'[o] = Content(o)'
  BY <1>9, <1>11, <1>12 DEF QueueInv
<1>15. \A s \in Ranks : /\ pc'[s] \in {"timer", "wearWait"} => d'[s] = 0
                        /\ pc'[s] \in {"remove", "create", "write"} => ~opt.readOnly
  <2>1. pc'[r] = "ended"
    BY <1>1 DEF Cleanup, Go, RanksOK
  <2> QED
    BY <1>1, <1>11, <2>1 DEF QueueInv, Own
<1>16. \A o \in DOMAIN objects' : o[1] # r
  BY <1>1, <1>8, <1>13
<1> QED
  BY <1>5, <1>12, <1>13, <1>14, <1>15, <1>16 DEF QueueInv

----------------------------------------------------------------------------
(***************************************************************************)
(* Every step keeps the queue.                                             *)
(***************************************************************************)
LEMMA RankQueue ==
    ASSUME Ready, NEW r \in Ranks, RankStep(r)
    PROVE  QueueInv' /\ DirsInv' /\ NoErrors'
<1>1. Own(r) /\ RanksOK /\ dsets \subseteq Ranks \X DataSets
  BY Parts, StepsOwn DEF Ready, Aligned, Known, IInv, WorldOK
<1>2. \A s \in Ranks \ {r} : Cleaned(s)' = Cleaned(s)
  BY OthersQueue DEF Ready
<1>3. \A s \in dsets : s[1] \in Ranks /\ ~Cleaned(s[1])
  BY <1>1 DEF Ready, DirsInv
<1>4. ASSUME UNCHANGED <<dsets, err>>, Cleaned(r)' = Cleaned(r) PROVE DirsInv' /\ NoErrors'
  <2>1. \A s \in Ranks : Cleaned(s)' = Cleaned(s)
    BY <1>2, <1>4
  <2>2. DirsInv'
    BY <1>3, <1>4, <2>1 DEF DirsInv
  <2> QED
    BY <1>4, <2>2 DEF Ready, NoErrors
<1>5. CASE Precreate(r)
  <2>1. QueueInv' /\ ~Cleaned(r)'
    BY <1>5, PrecreateQueue, PrecreateFacts
  <2>2. dsets' = dsets \cup ({r} \X DataSets) /\ err' = err
    BY <1>5 DEF Precreate
  <2>3. \A s \in dsets' : s[1] \in Ranks /\ ~Cleaned(s[1])'
    BY <1>2, <1>3, <2>1, <2>2
  <2> QED
    BY <2>1, <2>2, <2>3 DEF DirsInv, NoErrors, Ready
<1>6. CASE Cleanup(r)
  <2>1. QueueInv' /\ \A o \in DOMAIN objects' : o[1] # r
    BY <1>6, CleanupQueue
  <2>2. /\ dsets' = {s \in dsets : s[1] = r => \E o \in DOMAIN objects' : <<o[1], o[2]>> = s}
        /\ err' = err
    BY <1>6 DEF Cleanup
  <2>3. \A s \in dsets' : s \in dsets /\ s[1] # r
    BY <2>1, <2>2
  <2>4. \A s \in dsets' : ~Cleaned(s[1])'
    BY <1>2, <1>3, <2>3
  <2> QED
    BY <2>1, <2>2, <2>4 DEF DirsInv, NoErrors, Ready
<1>7. CASE ReturnPosition(r) \/ PositionKnown(r)
  <2>1. UNCHANGED <<dsets, err>>
    BY <1>7 DEF ReturnPosition, PositionKnown, disk
  <2> QED
    BY <1>4, <1>7, <2>1, BeginQueue
<1>8. CASE StartPhase(r) \/ PhaseStarted(r) \/ Report(r) \/ StorePosition(r)
  <2>1. UNCHANGED <<dsets, err>>
    BY <1>8 DEF StartPhase, PhaseStarted, Report, StorePosition, disk
  <2> QED
    BY <1>4, <1>8, <2>1, PhaseQueue
<1>9. CASE Stat(r)
  <2>1. dsets' = dsets
    BY <1>9 DEF Stat, disk
  <2> QED
    BY <1>4, <1>9, <2>1, StatQueue
<1>10. CASE Read(r)
  <2>1. dsets' = dsets
    BY <1>10 DEF Read, disk
  <2> QED
    BY <1>4, <1>10, <2>1, ReadQueue
<1>11. CASE Remove(r) \/ Create(r) \/ Write(r)
  <2>1. UNCHANGED <<dsets, err>>
    BY <1>11 DEF Remove, Create, Write
  <2> QED
    BY <1>4, <1>11, <2>1, RemoveQueue, CreateQueue, WriteQueue
<1>12. CASE GoOn(r) \/ WearOut(r) \/ WearOutAgreed(r)
  <2>1. UNCHANGED <<dsets, err>>
    BY <1>12 DEF GoOn, WearOut, WearOutAgreed, disk
  <2> QED
    BY <1>4, <1>12, <2>1, GoOnQueue
<1>13. CASE LeaveLoop(r) \/ LeaveLoopAgreed(r)
  <2>1. UNCHANGED <<dsets, err>>
    BY <1>13 DEF LeaveLoop, LeaveLoopAgreed, disk
  <2> QED
    BY <1>4, <1>13, <2>1, LeaveLoopQueue
<1>14. CASE EndPhase(r) \/ Reported(r)
  <2>1. UNCHANGED <<dsets, err>>
    BY <1>14 DEF EndPhase, Reported, disk
  <2> QED
    BY <1>4, <1>14, <2>1, EndPhaseQueue, ReportedQueue
<1>15. CASE BreakOff(r)
  BY <1>15, NoBreakOff DEF Ready, Aligned
<1> QED
  BY <1>5, <1>6, <1>7, <1>8, <1>9, <1>10, <1>11, <1>12, <1>13, <1>14, <1>15 DEF RankStep

\* The ranks have ended, and begin anew where rank 0 has stored that they were.
LEMMA NextExecutionQueue ==
    ASSUME Ready, NextExecution
    PROVE  PlaceInv' /\ NearInv' /\ OriginInv' /\ QueueInv' /\ DirsInv' /\ NoErrors'
<1>1. /\ WorldOK /\ RanksOK /\ IInv /\ IInv' /\ AllPlain /\ 0 \in Ranks
      /\ opt.precreate \in Nat
  BY Parts, OptionFacts DEF Ready, Aligned, Known, IInv
<1>2. /\ opt' = opt /\ execution' = execution + 1 /\ execution < Len(opt.executions)
      /\ UNCHANGED <<position, dsets, objects, index, err>>
      /\ \A r \in Ranks : /\ pc[r] = "end" /\ pc'[r] = "begin"
                          /\ todo'[r] = Executed' /\ calls'[r] = << >>
  BY DEF NextExecution, AllEnded, Executed, disk
<1>3. /\ opt.executions \in Seq(Seq(Phases)) /\ ValidOption(opt)
      /\ execution \in 1 .. Len(opt.executions)
  BY <1>1, OptionTypes, OptionsAssumption DEF WorldOK
<1>4. /\ Executed' = opt.executions[execution + 1]
      /\ execution + 1 \in DOMAIN opt.executions /\ execution + 1 # 1
  BY <1>2, <1>3 DEF Executed
<1>5. /\ Executed' \in Seq(Phases) /\ Executed' # << >>
      /\ Executed'[1] \in Phases /\ Executed'[1] # "precreate"
  <2>1. Executed' \in Seq(Phases) /\ Executed' # << >>
    BY <1>3, <1>4 DEF ValidOption
  <2>2. 1 \in DOMAIN Executed'
    BY <2>1
  <2> QED
    BY <1>3, <1>4, <2>1, <2>2 DEF ValidOption
<1>6. \A r \in Ranks : Phase(r)' = Executed'[1]
  BY <1>2, <1>5 DEF Phase
<1>7. \A r \in Ranks : Done(r)' = 0
  BY <1>2, <1>5 DEF Done
<1>8. \A r \in Ranks : Stage(r)' = -Opening' /\ Left(r)' = -1 /\ Base(r)' = Opening'
  <2>1. \A r \in Ranks : Stage(r)' = -Opening' /\ Left(r)' = -1
    BY <1>2 DEF Stage, Left, Stepping
  <2>2. Opening' \in 0 .. 1 /\ Len(<< >>) = 0
    BY DEF Opening
  <2>3. \A r \in Ranks : Base(r)' = 0 - (-Opening')
    BY <1>2, <2>1, <2>2 DEF Base
  <2> QED
    BY <2>1, <2>2, <2>3
<1>9. PlaceInv'
  <2> SUFFICES ASSUME NEW r \in Ranks
               PROVE  Suffix(r)' /\ PhaseOK(r)' /\ StepsOK(r)' /\ ~Agreed(r)'
    BY DEF PlaceInv
  <2>1. Suffix(r)'
    <3>1. Len(Executed') \in Nat
      BY <1>5
    <3> QED
      BY <1>2, <1>7, <3>1 DEF Suffix
  <2>2. PhaseOK(r)' /\ StepsOK(r)'
    BY <1>2, <1>7 DEF PhaseOK, StepsOK, InRound, Stepping, Closed, Outside
  <2>3. ~Agreed(r)'
    BY <1>8 DEF Agreed
  <2> QED
    BY <2>1, <2>2, <2>3
<1>10. NearInv'
  <2>1. Opening' \in 0 .. 1
    BY DEF Opening
  <2>2. ASSUME NEW r \in Ranks, NEW s \in Ranks PROVE Near(r, s)'
    BY <1>7, <1>8, <2>1, <2>2 DEF Near
  <2> QED
    BY <2>2 DEF NearInv
<1>11. Stored' = position
  BY <1>2, <1>5 DEF Stored
<1>12. \A r \in Ranks : At(r)' = position /\ Origin(r)' = position
  BY <1>2, <1>11 DEF At, Origin, Counted, Arriving
<1>13. OriginInv'
  <2>1. \A r, s \in Ranks : SameOrigin(r, s)'
    BY <1>7, <1>12 DEF SameOrigin
  <2>2. pc'[0] # "end"
    BY <1>1, <1>2
  <2> QED
    BY <1>5, <1>6, <2>1, <2>2 DEF OriginInv
<1>14. \A r \in Ranks : todo[r] = << >> /\ Phase(r) = "none" /\ Done(r) = Len(Executed)
  <2>1. \A r \in Ranks : todo[r] = << >>
    BY <1>2 DEF Ready, Aligned, Known, PlaceInv, PhaseOK
  <2>2. Len(Executed) \in Nat
    BY <1>1, PhaseFacts
  <2> QED
    BY <2>1, <2>2 DEF Phase, Done
<1>15. ~CleansUp
  <2>1. /\ Executed \in Seq(Phases) /\ Executed # << >>
        /\ \A n \in DOMAIN Executed : Executed[n] = "cleanup" => execution = Len(opt.executions)
    BY <1>1, PhaseFacts
  <2>2. Len(Executed) \in DOMAIN Executed
    BY <2>1
  <2> QED
    BY <1>2, <1>3, <2>1, <2>2 DEF CleansUp
<1>16. position = index[0] /\ position \in Nat
  BY <1>1, <1>2, <1>15 DEF Ready, Aligned, OriginInv, WorldOK
<1>17. Settled(position)
  <2>1. \A r \in Ranks : At(r) = index[r] /\ Origin(r) = index[r]
    BY <1>2, <1>14 DEF At, Origin, Counted, Arriving
  <2>2. \A r \in Ranks : At(r) = position
    <3>1. \A r \in Ranks : Origin(r) = Origin(0)
      BY <1>1, <1>14 DEF Ready, Aligned, OriginInv, SameOrigin
    <3> QED
      BY <1>1, <1>16, <2>1, <3>1
  <2>3. position + 0 = position
    BY <1>16
  <2> QED
    BY <1>2, <1>14, <2>2, <2>3, OutOfRound DEF Settled
<1>18. Settled(position)'
  <2>1. \A r \in Ranks : \A k, places : Over(r, k, places)' = 0
    BY <1>2 DEF Over, InRound, Stepping
  <2>2. \A r \in Ranks : \A k : Taken(r, k)' = position /\ Made(r, k)' = position
    <3>1. position + 0 = position
      BY <1>16
    <3> QED
      BY <1>12, <2>1, <3>1 DEF Taken, Made
  <2> QED
    BY <1>2, <2>2 DEF Settled
<1>19. Whole(position) /\ Whole(position)'
  <2>1. Whole(position)
    BY <1>1, <1>16, <1>17, SettledWhole
  <2>2. \A m \in Nat : Settled(m)' => Whole(m)'
    BY <1>1, SettledWholeNext
  <2>3. Whole(position)'
    BY <1>2, <1>16, <1>18, <2>2
  <2> QED
    BY <2>1, <2>3
<1>20. \A r \in Ranks : Filled(r) /\ Filled(r)' /\ ~Cleaned(r) /\ ~Cleaned(r)'
  <2>1. Len(Executed) > 0
    BY <1>1, PhaseFacts
  <2>2. \A r \in Ranks : Filled(r) /\ ~Cleaned(r)
    BY <1>14, <1>15, <2>1 DEF Filled, Cleaned
  <2>3. execution' > 1
    BY <1>2, <1>3
  <2>4. \A r \in Ranks : Filled(r)' /\ ~Cleaned(r)'
    BY <1>2, <1>5, <1>6, <2>3 DEF Filled, Cleaned, Closed, Phases
  <2> QED
    BY <2>2, <2>4
<1>21. DataSets' = DataSets
  BY <1>2 DEF DataSets
<1>22. ASSUME NEW o
       PROVE  /\ Held(o)' <=> Held(o)
              /\ Content(o)' = Content(o)
  <2> DEFINE inside == o \in Ranks \X DataSets \X Nat
             place == position <= o[3] /\ o[3] < opt.precreate + position
  <2>1. Held(o) <=> inside /\ Filled(o[1]) /\ ~Cleaned(o[1]) /\ place
    BY <1>19 DEF Whole
  <2>2. Held(o)' <=> inside /\ Filled(o[1])' /\ ~Cleaned(o[1])' /\ place
    BY <1>2, <1>19, <1>21 DEF Whole
  <2>3. inside => o[1] \in Ranks
    OBVIOUS
  <2>4. Content(o) = Pattern(o[1], o[2], o[3]) /\ Content(o)' = Pattern(o[1], o[2], o[3])
    BY <1>2, <1>19 DEF Whole, Pattern
  <2> HIDE DEF inside, place
  <2> QED
    BY <1>20, <2>1, <2>2, <2>3, <2>4
<1>23. QueueInv'
  <2>1. QueueInv
    BY DEF Ready
  <2>2. \A o : o \in DOMAIN objects' <=> Held(o)'
    BY <1>2, <1>22, <2>1 DEF QueueInv
  <2>3. \A o \in DOMAIN objects' : objects'[o] = Content(o)'
    BY <1>2, <1>22, <2>1 DEF QueueInv
  <2>4. objects' = [o \in DOMAIN objects' |-> objects'[o]]
    BY <1>2, <2>1 DEF QueueInv
  <2>5. \A s \in Ranks : /\ pc'[s] \in {"timer", "wearWait"} => d'[s] = 0
                         /\ pc'[s] \in {"remove", "create", "write"} => ~opt.readOnly
    BY <1>2
  <2> QED
    BY <1>2, <2>2, <2>3, <2>4, <2>5 DEF QueueInv
<1>24. DirsInv'
  <2>1. \A s \in dsets : s[1] \in Ranks
    BY <1>1 DEF WorldOK
  <2> QED
    BY <1>2, <1>20, <2>1 DEF DirsInv
<1>25. NoErrors'
  BY <1>2 DEF Ready, NoErrors
<1> QED
  BY <1>9, <1>10, <1>13, <1>23, <1>24, <1>25

----------------------------------------------------------------------------
(***************************************************************************)
(* The invariant, from the beginning and through every step.               *)
(***************************************************************************)
LEMMA InitQueue ==
    ASSUME AllPlain, Init
    PROVE  QInv
<1>1. IInv /\ WorldOK
  BY InitTypes, Parts DEF IInv
<1>2. /\ opt.executions \in Seq(Seq(Phases)) /\ opt.executions # << >> /\ ValidOption(opt)
      /\ execution = 1
  BY <1>1, OptionTypes, OptionsAssumption DEF WorldOK, Init
<1>3. /\ Executed \in Seq(Phases) /\ Executed # << >> /\ Executed[1] = "precreate"
      /\ Executed = opt.executions[1]
  <2>1. 1 \in DOMAIN opt.executions
    BY <1>2
  <2>2. Executed = opt.executions[1] /\ Executed \in Seq(Phases) /\ Executed # << >>
    BY <1>2, <2>1 DEF Executed, ValidOption
  <2>3. 1 \in DOMAIN Executed
    BY <2>2
  <2> QED
    BY <1>2, <2>1, <2>2, <2>3 DEF ValidOption
<1>4. \A r \in Ranks : /\ pc[r] = "begin" /\ todo[r] = Executed /\ calls[r] = << >>
                       /\ index[r] = 0 /\ err[r] = 0
  BY <1>3 DEF Init
<1>5. Opening = 0 /\ Stored = 0
  BY <1>3 DEF Opening, Stored
<1>6. \A r \in Ranks : Done(r) = 0 /\ Phase(r) = "precreate"
  BY <1>3, <1>4 DEF Done, Phase
<1>7. \A r \in Ranks : Stage(r) = -Opening /\ Left(r) = -1 /\ Base(r) = Opening
  <2>1. \A r \in Ranks : Stage(r) = -Opening /\ Left(r) = -1
    BY <1>4 DEF Stage, Left, Stepping
  <2>2. Len(<< >>) = 0 /\ Opening \in 0 .. 1
    BY <1>5
  <2> HIDE DEF Opening
  <2>3. \A x \in 0 .. 1 : 0 - (-x) = x
    OBVIOUS
  <2> QED
    BY <1>4, <2>1, <2>2, <2>3 DEF Base
<1>8. PlaceInv
  <2> SUFFICES ASSUME NEW r \in Ranks
               PROVE  Suffix(r) /\ PhaseOK(r) /\ StepsOK(r) /\ ~Agreed(r)
    BY DEF PlaceInv
  <2>1. Suffix(r)
    <3>1. Len(Executed) \in Nat
      BY <1>3
    <3> QED
      BY <1>4, <1>6, <3>1 DEF Suffix
  <2>2. PhaseOK(r) /\ StepsOK(r)
    BY <1>4, <1>6 DEF PhaseOK, StepsOK, InRound, Stepping, Closed, Outside
  <2>3. ~Agreed(r)
    BY <1>7 DEF Agreed
  <2> QED
    BY <2>1, <2>2, <2>3
<1>9. NearInv
  <2>1. Opening \in 0 .. 1
    BY <1>5
  <2> HIDE DEF Opening
  <2> QED
    BY <1>6, <1>7, <2>1 DEF NearInv, Near
<1>10. \A r \in Ranks : At(r) = 0 /\ Origin(r) = 0
  BY <1>4, <1>5 DEF At, Origin, Counted, Arriving
<1>11. OriginInv
  <2>1. \A r, s \in Ranks : SameOrigin(r, s)
    BY <1>6, <1>10 DEF SameOrigin
  <2>2. pc[0] # "end"
    BY <1>1, <1>4, OptionFacts
  <2> QED
    BY <1>10, <2>1, <2>2 DEF OriginInv
<1>12. QueueInv
  <2>1. \A r \in Ranks : ~Filled(r)
    BY <1>2, <1>4, <1>6 DEF Filled, Closed
  <2>2. \A o : ~Held(o)
    BY <2>1 DEF Held
  <2>3. objects = << >> /\ DOMAIN objects = {}
    BY DEF Init
  <2>4. objects = [o \in DOMAIN objects |-> objects[o]]
    BY <2>3
  <2>5. \A o : o \in DOMAIN objects <=> Held(o)
    BY <2>2, <2>3
  <2>6. \A o \in DOMAIN objects : objects[o] = Content(o)
    BY <2>3
  <2>7. \A r \in Ranks : /\ pc[r] \in {"timer", "wearWait"} => d[r] = 0
                         /\ pc[r] \in {"remove", "create", "write"} => ~opt.readOnly
    BY <1>4
  <2> QED
    BY <2>4, <2>5, <2>6, <2>7 DEF QueueInv
<1>13. DirsInv /\ NoErrors
  BY <1>4 DEF Init, DirsInv, NoErrors
<1> QED
  BY <1>1, <1>8, <1>9, <1>11, <1>12, <1>13 DEF QInv

\* A step that changes nothing keeps the queue.
LEMMA StutterQueue ==
    ASSUME QInv, IInv', UNCHANGED vars
    PROVE  QInv'
<1>1. UNCHANGED <<opt, execution, position, dsets, objects, pc, todo, index, f, d,
                  totalNum, armed, sent, stonewallIterations, err, calls>>
  BY DEF vars
<1>2. Executed' = Executed /\ CleansUp' = CleansUp /\ Opening' = Opening /\ Stored' = Stored
  BY <1>1 DEF Executed, CleansUp, Opening, Stored
<1>3. \A r : /\ Phase(r)' = Phase(r) /\ Done(r)' = Done(r) /\ InLoop(r)' = InLoop(r)
             /\ Repeats(r)' = Repeats(r) /\ At(r)' = At(r)
  BY <1>1, <1>2 DEF Phase, Done, InLoop, Repeats, At
<1>4. \A r : /\ Before(r)' = Before(r) /\ Counted(r)' = Counted(r)
             /\ \A k, places : Over(r, k, places)' = Over(r, k, places)
  BY <1>1, <1>3 DEF Before, Counted, Over
<1>5. \A r : /\ Stage(r)' = Stage(r) /\ Left(r)' = Left(r) /\ Origin(r)' = Origin(r)
             /\ Filled(r)' = Filled(r) /\ Cleaned(r)' = Cleaned(r)
             /\ \A k : Taken(r, k)' = Taken(r, k) /\ Made(r, k)' = Made(r, k)
  BY <1>1, <1>2, <1>3, <1>4 DEF Stage, Left, Origin, Filled, Cleaned, Taken, Made
<1>6. \A r : Base(r)' = Base(r) /\ Suffix(r)' = Suffix(r)
  BY <1>1, <1>2, <1>3, <1>5 DEF Base, Suffix
<1>7. PlaceInv'
  <2>1. \A r : PhaseOK(r)' = PhaseOK(r)
    BY <1>1, <1>2, <1>3 DEF PhaseOK
  <2>2. \A r : StepsOK(r)' = StepsOK(r)
    BY <1>1, <1>3 DEF StepsOK
  <2>3. \A r : (Agreed(r) => Largest(stonewallIterations[r]))'
                  = (Agreed(r) => Largest(stonewallIterations[r]))
    BY <1>1, <1>3, <1>5 DEF Agreed, Largest
  <2> QED
    BY <1>6, <2>1, <2>2, <2>3 DEF PlaceInv, QInv
<1>8. NearInv'
  <2>1. \A r, s : Near(r, s)' = Near(r, s)
    BY <1>1, <1>3, <1>4, <1>5, <1>6 DEF Near
  <2> QED
    BY <2>1 DEF NearInv, QInv
<1>9. OriginInv'
  BY <1>1, <1>2, <1>3, <1>5 DEF OriginInv, SameOrigin, QInv
<1>10. \A a, o : Reads(a, o)' = Reads(a, o) /\ Writes(a, o)' = Writes(a, o)
  BY <1>1 DEF Reads, Writes, Shift
<1>11. \A r, o : Fresh(r, o)' = Fresh(r, o)
  BY <1>1, <1>5, <1>10 DEF Fresh
<1>12. \A o : Held(o)' <=> Held(o)
  BY <1>1, <1>5, <1>10, <1>11 DEF Held, DataSets
<1>13. \A o : Content(o)' = Content(o)
  BY <1>1, <1>11 DEF Content, Pattern
<1>14. QueueInv'
  BY <1>1, <1>12, <1>13 DEF QueueInv, QInv
<1>15. DirsInv' /\ NoErrors'
  BY <1>1, <1>5 DEF DirsInv, NoErrors, QInv
<1> QED
  BY <1>7, <1>8, <1>9, <1>14, <1>15 DEF QInv

\* Every step keeps the queue.
LEMMA NextQueue ==
    ASSUME AllPlain
    PROVE  QInv /\ [Next]_vars => QInv'
<1> SUFFICES ASSUME QInv, [Next]_vars PROVE QInv'
  OBVIOUS
<1>1. IInv'
  BY NextTypes DEF QInv
<1>2. Known /\ Aligned /\ Ready
  BY <1>1 DEF Known, Aligned, Ready, QInv
<1>3. CASE UNCHANGED vars
  BY <1>1, <1>3, StutterQueue
<1>4. CASE NextExecution
  BY <1>1, <1>2, <1>4, NextExecutionQueue DEF QInv
<1>5. ASSUME NEW r \in Ranks, RankStep(r) PROVE QInv'
  BY <1>1, <1>2, <1>5, RankNear, RankPlaced, RankOrigin, RankQueue DEF QInv
<1> QED
  BY <1>3, <1>4, <1>5 DEF Next

----------------------------------------------------------------------------
(***************************************************************************)
(* What follows from the invariant.                                        *)
(***************************************************************************)
\* No rank finds the object of a step missing, or with other data than its
\* writer's: however many ranks there are, however the steps of readers and
\* writers are interleaved, and wherever a stonewall ends a round.
THEOREM NoErrorsHolds ==
    ASSUME AllPlain
    PROVE  Spec => []NoErrors
<1>1. Init => QInv
  BY InitQueue
<1>2. QInv => NoErrors
  BY DEF QInv
<1> QED
  BY <1>1, <1>2, NextQueue, PTL DEF Spec

\* The queue is the working set between the phases.
LEMMA WorkingSetInv == AllPlain /\ QInv => WorkingSet
<1> SUFFICES ASSUME AllPlain, QInv, BetweenPhases, Populated
             PROVE  /\ \A r \in Ranks : index[r] = index[0]
                    /\ objects = [o \in Ranks \X DataSets
                                          \X (index[0] .. index[0] + opt.precreate - 1)
                                     |-> Pattern(o[1], o[2], o[3])]
  BY DEF WorkingSet
<1> DEFINE n == index[0]
           names == Ranks \X DataSets \X (n .. n + opt.precreate - 1)
<1>1. /\ IInv /\ RanksOK /\ 0 \in Ranks /\ opt.precreate \in Nat
      /\ PlaceInv /\ OriginInv /\ QueueInv
  BY Parts, OptionFacts DEF QInv, IInv
<1>2. \A r \in Ranks : pc[r] = "next" /\ todo[r] = todo[0]
  BY DEF BetweenPhases
<1>3. \A r \in Ranks : /\ Done(r) = Done(0) /\ Phase(r) = Phase(0)
                       /\ At(r) = index[r] /\ Origin(r) = index[r]
  BY <1>2 DEF Done, Phase, At, Origin, Counted, Arriving
<1>4. \A r \in Ranks : index[r] = n
  BY <1>1, <1>3 DEF OriginInv, SameOrigin
<1>5. n \in Nat
  BY <1>1 DEF RanksOK
<1>6. Settled(n)
  <2>1. n + 0 = n
    BY <1>5
  <2> QED
    BY <1>2, <1>3, <1>4, <2>1, OutOfRound DEF Settled, InRound, Stepping
<1>7. Whole(n)
  BY <1>1, <1>5, <1>6, SettledWhole
<1>8. \A r \in Ranks : Filled(r) /\ ~Cleaned(r)
  <2>1. execution > 1 \/ Done(0) > 0
    <3>1. Len(todo[0]) \in Int /\ Len(Executed) \in Int
      BY <1>1, Numbers
    <3> QED
      BY <3>1 DEF Populated, Done
  <2>2. Phase(0) = "none" => ~CleansUp
    <3>1. todo[0] \in Seq(Phases)
      BY <1>1 DEF RanksOK
    <3>2. todo[0] # << >> => Phase(0) \in Phases
      BY <3>1 DEF Phase
    <3> QED
      BY <3>2 DEF Populated, Phases
  <2> QED
    BY <1>2, <1>3, <2>1, <2>2 DEF Filled, Cleaned, Closed
<1>9. \A o : o \in DOMAIN objects <=> o \in names
  <2> SUFFICES ASSUME NEW o PROVE Held(o) <=> o \in names
    BY <1>1 DEF QueueInv
  <2>1. Held(o) <=> /\ o \in Ranks \X DataSets \X Nat /\ Filled(o[1]) /\ ~Cleaned(o[1])
                    /\ n <= o[3] /\ o[3] < opt.precreate + n
    BY <1>7 DEF Whole
  <2> HIDE DEF n
  <2>2. o \in names <=> /\ o \in Ranks \X DataSets \X Nat
                        /\ n <= o[3] /\ o[3] < opt.precreate + n
    BY <1>1, <1>5
  <2>3. o \in Ranks \X DataSets \X Nat => o[1] \in Ranks
    OBVIOUS
  <2> HIDE DEF names
  <2> QED
    BY <1>8, <2>1, <2>2, <2>3
<1> HIDE DEF names
<1>10. DOMAIN objects = names
  BY <1>9
<1>11. \A o \in DOMAIN objects : objects[o] = Pattern(o[1], o[2], o[3])
  BY <1>1, <1>7 DEF QueueInv, Whole
<1>12. objects = [o \in DOMAIN objects |-> objects[o]]
  BY <1>1 DEF QueueInv
<1>13. objects = [o \in names |-> Pattern(o[1], o[2], o[3])]
  BY <1>10, <1>11, <1>12
<1> QED
  BY <1>4, <1>13 DEF names

\* Between two phases all ranks are at the same index, and every data set
\* holds the precreated number of complete objects beginning there.
THEOREM WorkingSetHolds ==
    ASSUME AllPlain
    PROVE  Spec => []WorkingSet
<1>1. Init => QInv
  BY InitQueue
<1>2. QInv => WorkingSet
  BY WorkingSetInv
<1> QED
  BY <1>1, <1>2, NextQueue, PTL DEF Spec

\* Nothing is left of it in the end.
LEMMA CleanedUpInv == AllPlain /\ QInv => CleanedUp
<1> SUFFICES ASSUME AllPlain, QInv, Finished, CleansUp
             PROVE  DOMAIN objects = {} /\ dsets = {}
  BY DEF CleanedUp
<1>1. PlaceInv /\ QueueInv /\ DirsInv /\ dsets \subseteq Ranks \X DataSets
  BY Parts DEF QInv, IInv, WorldOK
<1>2. \A r \in Ranks : pc[r] = "end" /\ todo[r] = << >>
  BY <1>1 DEF Finished, AllEnded, PlaceInv, PhaseOK
<1>3. \A r \in Ranks : Cleaned(r)
  BY <1>2 DEF Cleaned, Phase
<1>4. \A o : ~Held(o)
  BY <1>3 DEF Held
<1>5. DOMAIN objects = {}
  BY <1>1, <1>4 DEF QueueInv
<1>6. dsets = {}
  BY <1>1, <1>3 DEF DirsInv
<1> QED
  BY <1>5, <1>6

\* When the program is over and has cleaned up, nothing is left, whatever
\* rounds and executions there were before.
THEOREM CleanedUpHolds ==
    ASSUME AllPlain
    PROVE  Spec => []CleanedUp
<1>1. Init => QInv
  BY InitQueue
<1>2. QInv => CleanedUp
  BY CleanedUpInv
<1> QED
  BY <1>1, <1>2, NextQueue, PTL DEF Spec
=============================================================================
