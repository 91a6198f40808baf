-------------------------- MODULE IorOrderProofs ---------------------------
(***************************************************************************)
(* The types of the test loop of IOR, for every number of ranks and all    *)
(* options, one lemma for each step; and that the ranks keep together      *)
(* unless there is a time limit: nobody passes a collective another rank   *)
(* has not come to, though they come to the removal knowing of errors what *)
(* they were told, and each decides for itself whether it removes.         *)
(***************************************************************************)
EXTENDS IorTest, FiniteSetTheorems, TLAPS

----------------------------------------------------------------------------
(***************************************************************************)
(* The types.                                                              *)
(***************************************************************************)
(* The numbers of ranks and transfers. *)
LEMMA Numbers == /\ NumTasks \in Nat \ {0} /\ Ranks = 0 .. NumTasks - 1 /\ 0 \in Ranks
                 /\ Transfers \in Nat \ {0} /\ Positions = 1 .. Transfers
BY NumTasksAssumption, OptionsAssumption DEF Ranks, Positions

(* The options have their types. *)
LEMMA OptionTypes ==
    ASSUME opt \in Options
    PROVE  /\ opt \in OptionRecord
           /\ opt.filePerProc \in BOOLEAN /\ opt.multiFile \in BOOLEAN
           /\ opt.useExisting \in BOOLEAN /\ opt.keepFile \in BOOLEAN
           /\ opt.keepWithError \in BOOLEAN /\ opt.repetitions \in Nat \ {0}
           /\ opt.reorder \in {"none", "constant", "random", "shuffle"}
           /\ opt.offset \in Nat /\ opt.perm \in [Ranks -> Ranks] /\ opt.barriers \in BOOLEAN
           /\ opt.timeLimit \in BOOLEAN /\ opt.signature \in BOOLEAN /\ opt.faulty \in BOOLEAN
           /\ opt.executions \in Seq(ExecutionRecord)
           /\ Len(opt.executions) \in Nat
           /\ DOMAIN opt.executions = 1 .. Len(opt.executions)
           /\ Repetitions = 0 .. opt.repetitions - 1 /\ 0 \in Repetitions
<1>1. opt \in OptionRecord
  BY OptionsAssumption
<1>2. /\ opt.executions \in Seq(ExecutionRecord)
      /\ Len(opt.executions) \in Nat
      /\ DOMAIN opt.executions = 1 .. Len(opt.executions)
  BY <1>1 DEF OptionRecord
<1>3. opt.repetitions \in Nat \ {0}
  BY <1>1 DEF OptionRecord
<1>4. Repetitions = 0 .. opt.repetitions - 1 /\ 0 \in Repetitions
  BY <1>3 DEF Repetitions
<1> QED
  BY <1>1, <1>2, <1>3, <1>4 DEF OptionRecord

(* The options of this execution have their types and are valid. *)
LEMMA ExecTypes ==
    ASSUME opt \in Options, execution \in DOMAIN opt.executions
    PROVE  /\ Exec.write \in BOOLEAN /\ Exec.checkWrite \in BOOLEAN /\ Exec.read \in BOOLEAN
           /\ Exec.checkRead \in BOOLEAN /\ Exec.deadline \in BOOLEAN
           /\ Exec.wearOut \in BOOLEAN /\ Exec.status \in BOOLEAN
           /\ Exec.wearOut => Exec.deadline
           /\ Exec.status => opt.keepFile /\ (Exec.write => Exec.wearOut)
           /\ Exec.checkRead => Exec.write \/ opt.signature
<1>1. Exec \in ExecutionRecord
  BY OptionTypes DEF Exec
<1>2. ValidOption(opt)
  BY OptionsAssumption
<1> QED
  BY <1>1, <1>2 DEF Exec, ExecutionRecord, ValidOption

(* The remainder of a division is a rank. *)
LEMMA ReducedIsRank ==
    ASSUME NEW x \in Int
    PROVE  x % NumTasks \in Ranks
BY NumTasksAssumption DEF Ranks

(* What a name may be. *)
LEMMA NameTypes ==
    ASSUME opt \in Options, rep \in [Ranks -> Repetitions],
           NEW r \in Ranks, NEW off \in Int
    PROVE  /\ PretendRank(r, off) \in Ranks
           /\ TestFileName(r, off) \in Names
           /\ \A n \in Names : Removed(r, n) \subseteq Names
<1>1. PretendRank(r, off) \in Ranks
  <2>1. r + off \in Int
    BY Numbers
  <2> QED
    BY <2>1, ReducedIsRank DEF PretendRank
<1>2. \A o \in Int : PretendRank(r, o) \in Ranks
  <2> TAKE o \in Int
  <2>1. r + o \in Int
    BY Numbers
  <2> QED
    BY <2>1, ReducedIsRank DEF PretendRank
<1>3. \A o \in Int : TestFileName(r, o) \in Names
  BY <1>2, Numbers, OptionTypes DEF TestFileName, Names
<1> QED
  BY <1>1, <1>3 DEF Removed

(* A rankOffset never points beyond the ranks. *)
LEMMA OffsetTypes ==
    ASSUME opt \in Options, NEW r \in Ranks
    PROVE  /\ ReadOffsets(r) \subseteq 1 - NumTasks .. NumTasks - 1
           /\ CheckOffset \in 1 - NumTasks .. NumTasks - 1
           /\ 0 \in 1 - NumTasks .. NumTasks - 1
<1>1. opt.offset % NumTasks \in Ranks /\ (opt.offset + 1) % NumTasks \in Ranks
  BY OptionTypes, ReducedIsRank
<1>2. opt.perm[r] \in Ranks
  BY OptionTypes
<1>3. CheckOffset \in 1 - NumTasks .. NumTasks - 1 /\ 0 \in 1 - NumTasks .. NumTasks - 1
  BY <1>1, Numbers DEF CheckOffset
<1>4. ASSUME NEW o \in ReadOffsets(r)
      PROVE  o \in 1 - NumTasks .. NumTasks - 1
  <2>1. CASE opt.reorder = "none"
    BY <1>4, <2>1, Numbers DEF ReadOffsets
  <2>2. CASE opt.reorder = "constant"
    BY <1>1, <1>4, <2>2, Numbers DEF ReadOffsets
  <2>3. CASE opt.reorder = "random"
    BY <1>4, <2>3, Numbers DEF ReadOffsets
  <2>4. CASE opt.reorder = "shuffle"
    BY <1>2, <1>4, <2>4, Numbers DEF ReadOffsets
  <2> QED
    BY <2>1, <2>2, <2>3, <2>4, OptionTypes
<1> QED
  BY <1>3, <1>4

(* Entering a collective adds it to the calls of the rank. *)
LEMMA EnterFacts ==
    ASSUME calls \in [Ranks -> Seq(Kinds)], NEW r \in Ranks, NEW k \in Kinds,
           Enter(r, <<k>>)
    PROVE  /\ calls' \in [Ranks -> Seq(Kinds)]
           /\ Len(calls'[r]) = Len(calls[r]) + 1
           /\ \A s \in Ranks : s # r => calls'[s] = calls[s]
<1>1. <<k>> \in Seq(Kinds) /\ Len(<<k>>) = 1
  OBVIOUS
<1>2. calls[r] \in Seq(Kinds)
  OBVIOUS
<1>3. calls[r] \o <<k>> \in Seq(Kinds) /\ Len(calls[r] \o <<k>>) = Len(calls[r]) + 1
  BY <1>1, <1>2
<1> QED
  BY <1>3 DEF Enter

PhaseTypes ==
    /\ count \in [Ranks -> 0 .. Transfers] /\ reported \in [Ranks -> 0 .. Transfers]
    /\ returned \subseteq Ranks

\* What the barrier a rank enters does to the call of WriteOrRead().
LEMMA EnterBarrierFacts ==
    ASSUME calls \in [Ranks -> Seq(Kinds)], PhaseTypes, NEW r \in Ranks,
           EnterBarrier(r)
    PROVE  /\ calls' \in [Ranks -> Seq(Kinds)]
           /\ Len(calls'[r]) = Len(calls[r]) + 1
           /\ \A s \in Ranks : s # r => calls'[s] = calls[s]
           /\ PhaseTypes'
<1>1. "barrier" \in Kinds
  BY DEF Kinds
<1>2. \/ count' = [s \in Ranks |-> 0] /\ returned' = {} /\ reported' = [s \in Ranks |-> 0]
      \/ UNCHANGED phase
  BY Zenon DEF EnterBarrier
<1>3. PhaseTypes'
  <2>1. 0 \in 0 .. Transfers
    BY Numbers
  <2> QED
    BY <1>2, <2>1 DEF PhaseTypes, phase
<1> QED
  BY <1>1, <1>3, EnterFacts DEF EnterBarrier

FileTypes ==
    /\ DOMAIN files \subseteq Names
    /\ \A n \in DOMAIN files : files[n] \in [Ranks -> [Positions -> Cells]]

(* The names depend on the options. *)
LEMMA NamesStay ==
    ASSUME opt' = opt
    PROVE  Names' = Names /\ Repetitions' = Repetitions
BY DEF Names, Repetitions

(* Removal and creation leave files. *)
LEMMA FileFacts ==
    ASSUME FileTypes, opt' = opt, NEW n \in Names, NEW gone
    PROVE  /\ files' = Without(gone) => FileTypes'
           /\ files' = With(n) => FileTypes'
<1>1. Empty \in [Ranks -> [Positions -> Cells]]
  BY DEF Empty, Cells, Hole
<1>2. ASSUME files' = Without(gone)
      PROVE  FileTypes'
  BY <1>2, NamesStay DEF FileTypes, Without
<1>3. ASSUME files' = With(n)
      PROVE  FileTypes'
  BY <1>1, <1>3, NamesStay DEF FileTypes, With
<1> QED
  BY <1>2, <1>3

(* So does a change of one transfer. *)
LEMMA CellFacts ==
    ASSUME FileTypes, opt' = opt, NEW n \in DOMAIN files, NEW w \in Ranks, NEW k \in Positions,
           NEW v \in Cells, files' = [files EXCEPT ![n][w][k] = v]
    PROVE  FileTypes'
<1>1. DOMAIN files' = DOMAIN files
  OBVIOUS
<1>2. ASSUME NEW m \in DOMAIN files
      PROVE  files'[m] \in [Ranks -> [Positions -> Cells]]
  <2>1. files[m] \in [Ranks -> [Positions -> Cells]]
    BY DEF FileTypes
  <2>2. files[n] \in [Ranks -> [Positions -> Cells]]
    BY DEF FileTypes
  <2>3. files'[m] = IF m = n THEN [files[n] EXCEPT ![w] = [files[n][w] EXCEPT ![k] = v]]
                    ELSE files[m]
    OBVIOUS
  <2>4. [files[n][w] EXCEPT ![k] = v] \in [Positions -> Cells]
    BY <2>2
  <2> QED
    BY <2>1, <2>2, <2>3, <2>4
<1> QED
  BY <1>1, <1>2, NamesStay DEF FileTypes

\* StartRep keeps the types.
LEMMA StartRepTypes ==
    ASSUME TypeOK, NEW r \in Ranks, StartRep(r)
    PROVE  TypeOK'
<1>1. calls' \in [Ranks -> Seq(Kinds)]
  BY EnterFacts DEF StartRep, TypeOK, Kinds
<1>2. stamp' \in [Ranks -> Nat]
  <2>1. CASE r = 0
    <3>1. PICK t \in {stamp[0], stamp[0] + 1} : stamp' = [stamp EXCEPT ![0] = t]
      BY <2>1 DEF StartRep
    <3>2. t \in Nat
      <4>1. stamp[0] \in Nat
        BY Numbers DEF TypeOK
      <4> QED
        BY <3>1, <4>1
    <3> QED
      BY <3>1, <3>2 DEF TypeOK
  <2>2. CASE r # 0
    BY <2>2 DEF StartRep, TypeOK
  <2> QED
    BY <2>1, <2>2
<1> QED
  BY <1>1, <1>2 DEF StartRep, Go, PCs, TypeOK, Names, Repetitions, Exec, fixed, naming, sizes,
     open, phase, checks

\* StampKnown keeps the types.
LEMMA StampKnownTypes ==
    ASSUME TypeOK, NEW r \in Ranks, StampKnown(r)
    PROVE  TypeOK'
<1>1. stamp' \in [Ranks -> Nat]
  BY Numbers DEF StampKnown, TypeOK
<1> QED
  BY <1>1 DEF StampKnown, Go, PCs, TypeOK, Names, Repetitions, Exec, fixed, naming, sizes,
              open, phase, checks

\* Skip keeps the types.
LEMMA SkipTypes ==
    ASSUME TypeOK, NEW r \in Ranks, Skip(r)
    PROVE  TypeOK'
<1>1. late' \subseteq Ranks
  BY DEF Skip, TypeOK
<1>2. pc' \in [Ranks -> PCs]
  BY DEF Skip, Go, PCs, TypeOK
<1>3. UNCHANGED <<fixed, files, rep, naming, stamp, sizes, open, phase, checks, errorFound,
                  done, calls>>
  BY DEF Skip
<1> QED
  BY <1>1, <1>2, <1>3 DEF TypeOK, Names, Repetitions, Exec, fixed, naming, sizes, open, phase,
     checks

\* BeginWrite keeps the types.
LEMMA BeginWriteTypes ==
    ASSUME TypeOK, NEW r \in Ranks, BeginWrite(r)
    PROVE  TypeOK'
<1>1. rankOffset[r] \in Int /\ rep \in [Ranks -> Repetitions] /\ opt \in Options
  <2>1. rankOffset[r] \in 1 - NumTasks .. NumTasks - 1
    BY DEF TypeOK
  <2>2. rankOffset[r] \in Int
    BY <2>1, Numbers
  <2> QED
    BY <2>2 DEF TypeOK
<1>2. TestFileName(r, rankOffset[r]) \in Names
  BY <1>1, NameTypes
<1>3. name' \in [Ranks -> Names]
  BY <1>2 DEF BeginWrite, TypeOK
<1>4. FileTypes'
  <2>1. files' = files \/ files' = Without(Removed(r, name'[r]))
    BY DEF BeginWrite
  <2>2. FileTypes
    BY DEF FileTypes, TypeOK
  <2>3. CASE files' = files
    BY <2>2, <2>3 DEF FileTypes, Names, Repetitions, BeginWrite, fixed
  <2>4. CASE files' = Without(Removed(r, name'[r]))
    BY <1>2, <2>2, <2>4, FileFacts DEF BeginWrite, fixed
  <2> QED
    BY <2>1, <2>3, <2>4
<1>5. iterations' \in [Ranks -> 0 .. Transfers]
  <2>1. iterations \in [Ranks -> 0 .. Transfers]
    BY DEF TypeOK
  <2>2. 0 \in 0 .. Transfers
    BY Numbers
  <2> QED
    BY <2>1, <2>2 DEF BeginWrite
<1>6. done' \in [Ranks -> SUBSET {"write", "check", "read"}]
  BY DEF BeginWrite, Takes, TypeOK
<1>7. calls' \in [Ranks -> Seq(Kinds)] /\ PhaseTypes'
  BY EnterBarrierFacts DEF BeginWrite, TypeOK, PhaseTypes
<1> QED
  BY <1>3, <1>4, <1>5, <1>6, <1>7 DEF BeginWrite, Takes, Go, PCs, TypeOK, FileTypes, PhaseTypes,
      Names, Repetitions, Exec, fixed, open, checks

\* BeginCheck keeps the types.
LEMMA BeginCheckTypes ==
    ASSUME TypeOK, NEW r \in Ranks, BeginCheck(r)
    PROVE  TypeOK'
<1>1. calls' \in [Ranks -> Seq(Kinds)] /\ PhaseTypes'
  BY EnterBarrierFacts DEF BeginCheck, TypeOK, PhaseTypes
<1>2. done' \in [Ranks -> SUBSET {"write", "check", "read"}]
  BY DEF BeginCheck, Takes, TypeOK
<1> QED
  BY <1>1, <1>2 DEF BeginCheck, Go, PCs, TypeOK, FileTypes, PhaseTypes,
      Names, Repetitions, Exec,
      Takes, fixed, loop, naming, sizes, open, phase, checks

\* BeginRead keeps the types.
LEMMA BeginReadTypes ==
    ASSUME TypeOK, NEW r \in Ranks, BeginRead(r)
    PROVE  TypeOK'
<1>1. calls' \in [Ranks -> Seq(Kinds)]
  BY EnterFacts DEF BeginRead, TypeOK, Kinds
<1>2. done' \in [Ranks -> SUBSET {"write", "check", "read"}]
  BY DEF BeginRead, Takes, TypeOK
<1>3. iterations' \in [Ranks -> 0 .. Transfers]
  <2>1. iterations \in [Ranks -> 0 .. Transfers] /\ status \in 0 .. Transfers
    BY DEF TypeOK
  <2> QED
    BY <2>1 DEF BeginRead
<1>4. pc' \in [Ranks -> PCs]
  BY DEF BeginRead, Go, PCs, TypeOK
<1> QED
  BY <1>1, <1>2, <1>3, <1>4 DEF BeginRead, Go, PCs, TypeOK, FileTypes, PhaseTypes,
      Names, Repetitions, Exec,
      Takes, fixed, loop, naming, sizes, open, phase, checks

\* StatusKnown keeps the types.
LEMMA StatusKnownTypes ==
    ASSUME TypeOK, NEW r \in Ranks, StatusKnown(r)
    PROVE  TypeOK'
<1>1. iterations' \in [Ranks -> 0 .. Transfers]
  <2>1. iterations \in [Ranks -> 0 .. Transfers] /\ iterations[0] \in 0 .. Transfers
    BY Numbers DEF TypeOK
  <2> QED
    BY <2>1 DEF StatusKnown
<1> QED
  BY <1>1 DEF StatusKnown, Go, PCs, TypeOK, FileTypes, PhaseTypes,
      Names, Repetitions, Exec,
      fixed, loop, naming, sizes, open, phase, checks

\* Reorder keeps the types.
LEMMA ReorderTypes ==
    ASSUME TypeOK, NEW r \in Ranks, Reorder(r)
    PROVE  TypeOK'
<1>1. calls' \in [Ranks -> Seq(Kinds)] /\ PhaseTypes'
  BY EnterBarrierFacts DEF Reorder, TypeOK, PhaseTypes
<1>2. PICK off \in ReadOffsets(r) :
             /\ rankOffset' = [rankOffset EXCEPT ![r] = off]
             /\ name' = [name EXCEPT ![r] = TestFileName(r, off)]
  BY DEF Reorder
<1>3. opt \in Options /\ rep \in [Ranks -> Repetitions]
  BY DEF TypeOK
<1>4. off \in 1 - NumTasks .. NumTasks - 1 /\ off \in Int
  BY <1>3, OffsetTypes, Numbers
<1>5. TestFileName(r, off) \in Names
  BY <1>3, <1>4, NameTypes
<1>6. /\ rankOffset' \in [Ranks -> 1 - NumTasks .. NumTasks - 1]
      /\ name' \in [Ranks -> Names]
  BY <1>2, <1>4, <1>5 DEF TypeOK
<1> QED
  BY <1>1, <1>6 DEF Reorder, Go, PCs, TypeOK, FileTypes, PhaseTypes,
      Names, Repetitions, Exec,
      fixed, loop, naming, sizes, open, phase, checks

\* Opening keeps the types of what it changes.
LEMMA OpenedTypes ==
    ASSUME TypeOK, opt' = opt, NEW r \in Ranks, NEW a \in {"write", "check", "read"},
           NEW n \in Names, Opened(r, a, n)
    PROVE  /\ access' \in [Ranks -> {"write", "check", "read"}]
           /\ openFile' \in [Ranks -> Names]
           /\ errors' \in [Ranks -> BOOLEAN]
           /\ pc' \in [Ranks -> PCs]
           /\ calls' \in [Ranks -> Seq(Kinds)] /\ PhaseTypes'
<1>1. calls' \in [Ranks -> Seq(Kinds)] /\ PhaseTypes'
  <2>1. calls \in [Ranks -> Seq(Kinds)] /\ PhaseTypes
    BY DEF TypeOK, PhaseTypes
  <2>2. CASE opt.barriers /\ a # "check"
    BY <2>1, <2>2, EnterBarrierFacts DEF Opened
  <2>3. CASE ~(opt.barriers /\ a # "check")
    BY <2>1, <2>3 DEF Opened, PhaseTypes, phase
  <2> QED
    BY <2>2, <2>3
<1>2. pc' \in [Ranks -> PCs]
  BY DEF Opened, Go, PCs, TypeOK
<1>3. /\ access' \in [Ranks -> {"write", "check", "read"}]
      /\ openFile' \in [Ranks -> Names]
      /\ errors' \in [Ranks -> BOOLEAN]
  BY DEF Opened, TypeOK
<1> QED
  BY <1>1, <1>2, <1>3

\* Create keeps the types.
LEMMA CreateTypes ==
    ASSUME TypeOK, NEW r \in Ranks, Create(r)
    PROVE  TypeOK'
<1>1. name[r] \in Names /\ FileTypes /\ opt' = opt
  BY DEF Create, fixed, TypeOK, FileTypes
<1>2. FileTypes'
  BY <1>1, FileFacts DEF Create
<1>3. /\ access' \in [Ranks -> {"write", "check", "read"}]
      /\ openFile' \in [Ranks -> Names]
      /\ errors' \in [Ranks -> BOOLEAN]
      /\ pc' \in [Ranks -> PCs]
      /\ calls' \in [Ranks -> Seq(Kinds)] /\ PhaseTypes'
  BY <1>1, OpenedTypes DEF Create
<1>4. UNCHANGED <<fixed, loop, naming, sizes, evidence>>
  BY DEF Create
<1> QED
  BY <1>2, <1>3, <1>4 DEF TypeOK, FileTypes, PhaseTypes,
      Names, Repetitions, Exec,
      fixed, loop, naming, sizes, open, phase, checks

\* OpenCheck keeps the types.
LEMMA OpenCheckTypes ==
    ASSUME TypeOK, NEW r \in Ranks, OpenCheck(r)
    PROVE  TypeOK'
<1>0. opt \in Options /\ rep \in [Ranks -> Repetitions] /\ opt' = opt
  BY DEF TypeOK, OpenCheck, fixed
<1>1. rankOffset' \in [Ranks -> 1 - NumTasks .. NumTasks - 1]
  BY <1>0, OffsetTypes DEF OpenCheck, TypeOK
<1>2. rankOffset'[r] \in Int
  BY <1>1, Numbers
<1>3. TestFileName(r, rankOffset'[r]) \in Names
  BY <1>0, <1>2, NameTypes
<1>4. name' \in [Ranks -> Names] /\ name'[r] \in Names
  BY <1>3 DEF OpenCheck, TypeOK
<1>5. /\ access' \in [Ranks -> {"write", "check", "read"}]
      /\ openFile' \in [Ranks -> Names]
      /\ errors' \in [Ranks -> BOOLEAN]
      /\ pc' \in [Ranks -> PCs]
      /\ calls' \in [Ranks -> Seq(Kinds)] /\ PhaseTypes'
  BY <1>0, <1>4, OpenedTypes DEF OpenCheck
<1>6. UNCHANGED <<fixed, files, loop, sizes, evidence>>
  BY DEF OpenCheck
<1> QED
  BY <1>1, <1>4, <1>5, <1>6 DEF TypeOK, FileTypes, PhaseTypes,
      Names, Repetitions, Exec,
      fixed, loop, naming, sizes, open, phase, checks

\* OpenRead keeps the types.
LEMMA OpenReadTypes ==
    ASSUME TypeOK, NEW r \in Ranks, OpenRead(r)
    PROVE  TypeOK'
<1>0. name[r] \in Names /\ opt' = opt
  BY DEF OpenRead, fixed, TypeOK
<1>5. /\ access' \in [Ranks -> {"write", "check", "read"}]
      /\ openFile' \in [Ranks -> Names]
      /\ errors' \in [Ranks -> BOOLEAN]
      /\ pc' \in [Ranks -> PCs]
      /\ calls' \in [Ranks -> Seq(Kinds)] /\ PhaseTypes'
  BY <1>0, OpenedTypes DEF OpenRead
<1>6. UNCHANGED <<fixed, files, loop, naming, sizes, evidence>>
  BY DEF OpenRead
<1> QED
  BY <1>5, <1>6 DEF TypeOK, FileTypes, PhaseTypes,
      Names, Repetitions, Exec,
      fixed, loop, naming, sizes, open, phase, checks

\* Closed keeps the types.
LEMMA ClosedTypes ==
    ASSUME TypeOK, NEW r \in Ranks, Closed(r)
    PROVE  TypeOK'
<1>1. calls' \in [Ranks -> Seq(Kinds)]
  BY EnterFacts DEF Closed, Passes, TypeOK, Kinds
<1> QED
  BY <1>1 DEF Closed, Go, PCs, TypeOK, FileTypes, PhaseTypes,
      Names, Repetitions, Exec,
      Passes, fixed, loop, naming, sizes, open, phase, checks

\* SizeKnown keeps the types.
LEMMA SizeKnownTypes ==
    ASSUME TypeOK, NEW r \in Ranks, SizeKnown(r)
    PROVE  TypeOK'
<1>1. calls' \in [Ranks -> Seq(Kinds)]
  BY EnterFacts DEF SizeKnown, Passes, TypeOK, Kinds
<1> QED
  BY <1>1 DEF SizeKnown, Go, PCs, TypeOK, FileTypes, PhaseTypes,
      Names, Repetitions, Exec,
      Passes, fixed, loop, naming, sizes, open, phase, checks

\* OpenDone keeps the types.
LEMMA OpenDoneTypes ==
    ASSUME TypeOK, NEW r \in Ranks, OpenDone(r)
    PROVE  TypeOK'
<1>1. calls' = calls
  BY DEF OpenDone, Passes, Enter, TypeOK
<1> QED
  BY <1>1 DEF OpenDone, Go, PCs, TypeOK, FileTypes, PhaseTypes,
      Names, Repetitions, Exec,
      Passes, fixed, loop, naming, sizes, open, phase, checks

\* AccessDone keeps the types.
LEMMA AccessDoneTypes ==
    ASSUME TypeOK, NEW r \in Ranks, AccessDone(r)
    PROVE  TypeOK'
<1>1. calls' \in [Ranks -> Seq(Kinds)] /\ PhaseTypes'
  BY EnterBarrierFacts DEF AccessDone, TypeOK, PhaseTypes
<1> QED
  BY <1>1 DEF AccessDone, Go, PCs, TypeOK, FileTypes, PhaseTypes,
      Names, Repetitions, Exec,
      fixed, loop, naming, sizes, open, phase, checks

\* BeforeRemove keeps the types.
LEMMA BeforeRemoveTypes ==
    ASSUME TypeOK, NEW r \in Ranks, BeforeRemove(r)
    PROVE  TypeOK'
<1>1. calls' \in [Ranks -> Seq(Kinds)] /\ PhaseTypes'
  BY EnterBarrierFacts DEF BeforeRemove, TypeOK, PhaseTypes
<1> QED
  BY <1>1 DEF BeforeRemove, Go, PCs, TypeOK, FileTypes, PhaseTypes,
      Names, Repetitions, Exec,
      fixed, loop, naming, sizes, open, phase, checks

\* Remove keeps the types.
LEMMA RemoveTypes ==
    ASSUME TypeOK, NEW r \in Ranks, Remove(r)
    PROVE  TypeOK'
<1>1. calls' \in [Ranks -> Seq(Kinds)] /\ PhaseTypes'
  BY EnterBarrierFacts DEF Remove, TypeOK, PhaseTypes
<1>2. FileTypes'
  <2>1. FileTypes /\ opt' = opt /\ name[r] \in Names
    BY DEF FileTypes, TypeOK, Remove, fixed
  <2> QED
    BY <2>1, FileFacts DEF Remove
<1> QED
  BY <1>1, <1>2 DEF Remove, Go, PCs, TypeOK, FileTypes, PhaseTypes,
      Names, Repetitions, Exec,
      fixed, loop, naming, sizes, open, phase, checks

(* A rank accesses nothing beyond its blocks. *)
LEMMA AccessTypes ==
    ASSUME TypeOK, NEW r \in Ranks, Transfer(r)
    PROVE  /\ count' = [count EXCEPT ![r] = count[r] + 1]
           /\ count'[r] = count[r] + 1 /\ count[r] \in 0 .. Transfers - 1
           /\ count'[r] \in Positions
           /\ returned' = returned /\ reported' = reported
           /\ PhaseTypes'
<1>1. count \in [Ranks -> 0 .. Transfers]
  BY DEF TypeOK
<1>2. count[r] \in 0 .. Transfers /\ count[r] < Transfers
  BY <1>1 DEF Transfer
<1>3. /\ count' = [count EXCEPT ![r] = count[r] + 1]
      /\ returned' = returned /\ reported' = reported
  BY DEF Transfer, Call!Access
<1>4. /\ count[r] \in 0 .. Transfers - 1
      /\ count[r] + 1 \in 1 .. Transfers /\ count[r] + 1 \in 0 .. Transfers
  BY <1>2, Numbers
<1>5. count'[r] = count[r] + 1
  BY <1>1, <1>3
<1>6. PhaseTypes'
  BY <1>1, <1>3, <1>4 DEF PhaseTypes, TypeOK
<1> QED
  BY <1>3, <1>4, <1>5, <1>6, Numbers

\* Transfer keeps the types.
LEMMA TransferTypes ==
    ASSUME TypeOK, NEW r \in Ranks, Transfer(r)
    PROVE  TypeOK'
<1>1. PhaseTypes' /\ count'[r] \in Positions
  BY AccessTypes
<1>2. opt' = opt /\ access \in [Ranks -> {"write", "check", "read"}]
  BY DEF Transfer, fixed, TypeOK
<1>3. FileTypes
  BY DEF FileTypes, TypeOK
<1>4. UNCHANGED <<fixed, pc, loop, naming, sizes, open, calls>>
  BY DEF Transfer
<1>5. FileTypes' /\ errors' \in [Ranks -> BOOLEAN] /\ evidence' \subseteq Names
  <2>0. errors \in [Ranks -> BOOLEAN] /\ evidence \subseteq Names /\ openFile[r] \in Names
    BY DEF TypeOK
  <2>1. CASE access[r] = "write"
    <3>1. errors' = errors /\ evidence' = evidence
      BY <2>1 DEF Transfer, checks
    <3>2. stamp[r] \in Cells
      BY DEF TypeOK, Cells
    <3>3. PretendRank(r, rankOffset[r]) \in Ranks
      <4>1. rankOffset[r] \in 1 - NumTasks .. NumTasks - 1
        BY DEF TypeOK
      <4>2. rankOffset[r] \in Int
        BY <4>1, Numbers
      <4>3. opt \in Options /\ rep \in [Ranks -> Repetitions]
        BY DEF TypeOK
      <4> QED
        BY <4>2, <4>3, NameTypes
    <3>4. CASE openFile[r] \in DOMAIN files
      <4>1. files' = [files EXCEPT ![openFile[r]][PretendRank(r, rankOffset[r])][count'[r]]
                                      = stamp[r]]
        BY <2>1, <3>4 DEF Transfer
      <4>2. FileTypes'
        BY <1>1, <1>2, <1>3, <3>2, <3>3, <3>4, <4>1, CellFacts
      <4> QED
        BY <2>0, <3>1, <4>2
    <3>5. CASE openFile[r] \notin DOMAIN files
      <4>1. files' = files
        BY <2>1, <3>5 DEF Transfer
      <4>2. FileTypes'
        BY <1>2, <1>3, <4>1, NamesStay DEF FileTypes
      <4> QED
        BY <2>0, <3>1, <4>2
    <3> QED
      BY <3>4, <3>5
  <2>2. CASE access[r] # "write"
    <3>1. files' = files
      BY <2>2 DEF Transfer
    <3>2. FileTypes'
      BY <1>2, <1>3, <3>1, NamesStay DEF FileTypes
    <3>3. /\ errors' = [errors EXCEPT ![r] = errors[r] \/ Wrong(r, count'[r])]
          /\ evidence' = evidence \/ evidence' = evidence \cup {openFile[r]}
      BY <2>2 DEF Transfer
    <3>4. errors' \in [Ranks -> BOOLEAN]
      BY <2>0, <3>3, Zenon
    <3>5. evidence' \subseteq Names
      BY <2>0, <3>3
    <3> QED
      BY <3>2, <3>4, <3>5
  <2> QED
    BY <2>1, <2>2
<1> QED
  BY <1>1, <1>4, <1>5 DEF TypeOK, FileTypes, PhaseTypes,
      Names, Repetitions, Exec,
      fixed, loop, naming, sizes, open, phase, checks

\* Return keeps the types.
LEMMA ReturnTypes ==
    ASSUME TypeOK, NEW r \in Ranks, Return(r)
    PROVE  TypeOK'
<1>1. count[r] \in 0 .. Transfers /\ r \in Ranks
  BY DEF TypeOK
<1>2. PhaseTypes'
  <2>1. PhaseTypes
    BY DEF TypeOK, PhaseTypes
  <2>2. /\ returned' = returned \cup {r} /\ reported' = [reported EXCEPT ![r] = count[r]]
        /\ count' = count
    BY DEF Return, Call!Return
  <2> QED
    BY <1>1, <2>1, <2>2 DEF PhaseTypes
<1>3. results' \in [Ranks -> [Repetitions -> 0 .. Transfers]]
  <2>1. results \in [Ranks -> [Repetitions -> 0 .. Transfers]] /\ rep[r] \in Repetitions
    BY DEF TypeOK
  <2>2. \/ results' = results
        \/ results' = [results EXCEPT ![r] = [results[r] EXCEPT ![rep[r]] = count[r]]]
    BY DEF Return
  <2>3. [results[r] EXCEPT ![rep[r]] = count[r]] \in [Repetitions -> 0 .. Transfers]
    BY <1>1, <2>1
  <2> QED
    BY <2>1, <2>2, <2>3
<1>4. calls' \in [Ranks -> Seq(Kinds)]
  BY EnterFacts DEF Return, TypeOK, Kinds
<1>5. pc' \in [Ranks -> PCs]
  BY DEF Return, Go, PCs, TypeOK
<1>6. UNCHANGED <<fixed, files, loop, naming, iterations, open, checks>>
  BY DEF Return
<1> QED
  BY <1>2, <1>3, <1>4, <1>5, <1>6 DEF TypeOK, FileTypes, PhaseTypes,
      Names, Repetitions, Exec,
      fixed, loop, naming, sizes, open, phase, checks

\* ErrorsKnown keeps the types.
LEMMA ErrorsKnownTypes ==
    ASSUME TypeOK, NEW r \in Ranks, ErrorsKnown(r)
    PROVE  TypeOK'
<1>1. errorFound' \in [Ranks -> BOOLEAN]
  <2>1. errorFound \in [Ranks -> BOOLEAN]
    BY DEF TypeOK
  <2>2. errorFound' = [errorFound EXCEPT ![r] = errorFound[r] \/ \E s \in Ranks : errors[s]]
    BY DEF ErrorsKnown
  <2> QED
    BY <2>1, <2>2, Zenon
<1> QED
  BY <1>1 DEF ErrorsKnown, Go, PCs, TypeOK, FileTypes, PhaseTypes,
      Names, Repetitions, Exec,
      fixed, loop, naming, sizes, open, phase, checks

\* Close keeps the types.
LEMMA CloseTypes ==
    ASSUME TypeOK, NEW r \in Ranks, Close(r)
    PROVE  TypeOK'
<1>1. access[r] \in {"write", "check", "read"}
  BY DEF TypeOK
<1>2. openFile' \in [Ranks -> Names]
  BY DEF Close, TypeOK, Names
<1>3. /\ calls' \in [Ranks -> Seq(Kinds)] /\ PhaseTypes'
      /\ pc' \in [Ranks -> PCs]
      /\ rankOffset' \in [Ranks -> 1 - NumTasks .. NumTasks - 1]
  <2>0. /\ calls \in [Ranks -> Seq(Kinds)] /\ PhaseTypes /\ pc \in [Ranks -> PCs]
        /\ rankOffset \in [Ranks -> 1 - NumTasks .. NumTasks - 1]
    BY DEF TypeOK, PhaseTypes
  <2>z. 0 \in 1 - NumTasks .. NumTasks - 1
    BY Numbers
  <2>1. CASE access[r] = "write"
    <3>1. EnterBarrier(r) /\ Go(r, "closed") /\ UNCHANGED rankOffset
      BY <2>1 DEF Close
    <3> QED
      BY <2>0, <3>1, EnterBarrierFacts DEF Go, PCs
  <2>2. CASE access[r] = "check"
    <3>1. /\ rankOffset' = [rankOffset EXCEPT ![r] = 0]
          /\ Go(r, "read") /\ UNCHANGED <<calls, phase>>
      BY <2>2 DEF Close
    <3> QED
      BY <2>0, <2>z, <3>1 DEF Go, PCs, phase, PhaseTypes
  <2>3. CASE access[r] = "read"
    <3>1. Enter(r, <<"allreduce">>) /\ Go(r, "sizeWait") /\ UNCHANGED <<phase, rankOffset>>
      BY <2>3 DEF Close
    <3>2. "allreduce" \in Kinds
      BY DEF Kinds
    <3> QED
      BY <2>0, <3>1, <3>2, EnterFacts DEF Go, PCs, phase, PhaseTypes
  <2> QED
    BY <1>1, <2>1, <2>2, <2>3
<1>4. UNCHANGED <<fixed, files, loop, name, sizes, access, checks>>
  BY DEF Close
<1> QED
  BY <1>2, <1>3, <1>4 DEF TypeOK, FileTypes, PhaseTypes,
      Names, Repetitions, Exec,
      fixed, loop, naming, sizes, open, phase, checks

\* Reported keeps the types.
LEMMA ReportedTypes ==
    ASSUME TypeOK, NEW r \in Ranks, Reported(r)
    PROVE  TypeOK'
<1>1. iterations' \in [Ranks -> 0 .. Transfers]
  <2>1. /\ results \in [Ranks -> [Repetitions -> 0 .. Transfers]] /\ rep[r] \in Repetitions
        /\ iterations \in [Ranks -> 0 .. Transfers]
    BY DEF TypeOK
  <2> QED
    BY <2>1 DEF Reported, Limit
<1>2. pc' \in [Ranks -> PCs]
  BY DEF Reported, Go, PCs, TypeOK
<1>3. UNCHANGED <<fixed, files, loop, naming, results, open, phase, checks, calls>>
  BY DEF Reported
<1> QED
  BY <1>1, <1>2, <1>3 DEF TypeOK, FileTypes, PhaseTypes,
      Names, Repetitions, Exec,
      fixed, loop, naming, sizes, open, phase, checks

\* EndRep keeps the types.
LEMMA EndRepTypes ==
    ASSUME TypeOK, NEW r \in Ranks, EndRep(r)
    PROVE  TypeOK'
<1>1. rep' \in [Ranks -> Repetitions] /\ pc' \in [Ranks -> PCs]
  <2>1. rep \in [Ranks -> Repetitions] /\ pc \in [Ranks -> PCs] /\ UNCHANGED Repetitions
    BY NamesStay DEF TypeOK, EndRep, fixed
  <2>2. CASE rep[r] + 1 \in Repetitions
    <3>1. rep' = [rep EXCEPT ![r] = rep[r] + 1] /\ Go(r, "start")
      BY <2>2 DEF EndRep
    <3> QED
      BY <2>1, <2>2, <3>1 DEF Go, PCs
  <2>3. CASE rep[r] + 1 \notin Repetitions
    <3>1. UNCHANGED rep /\ Go(r, "finish")
      BY <2>3 DEF EndRep
    <3> QED
      BY <2>1, <3>1 DEF Go, PCs
  <2> QED
    BY <2>2, <2>3
<1>2. /\ errorFound' \in [Ranks -> BOOLEAN]
      /\ done' \in [Ranks -> SUBSET {"write", "check", "read"}]
      /\ evidence' \subseteq Names
  BY DEF EndRep, TypeOK
<1>3. rankOffset' \in [Ranks -> 1 - NumTasks .. NumTasks - 1]
  <2>1. 0 \in 1 - NumTasks .. NumTasks - 1
    BY Numbers
  <2> QED
    BY <2>1 DEF EndRep, TypeOK
<1>4. UNCHANGED <<fixed, files, name, stamp, sizes, open, phase, errors, late, calls>>
  BY DEF EndRep
<1> QED
  BY <1>1, <1>2, <1>3, <1>4 DEF TypeOK, FileTypes, PhaseTypes,
      Names, Repetitions, Exec,
      fixed, loop, naming, sizes, open, phase, checks

\* ShowTestEnd keeps the types.
LEMMA ShowTestEndTypes ==
    ASSUME TypeOK, NEW r \in Ranks, ShowTestEnd(r)
    PROVE  TypeOK'
<1>1. status' \in 0 .. Transfers
  <2>1. /\ results \in [Ranks -> [Repetitions -> 0 .. Transfers]] /\ opt \in Options
        /\ status \in 0 .. Transfers
    BY DEF TypeOK
  <2>2. results[r][0] \in 0 .. Transfers
    BY <2>1, OptionTypes
  <2> QED
    BY <2>1, <2>2 DEF ShowTestEnd
<1>2. pc' \in [Ranks -> PCs]
  BY DEF ShowTestEnd, Go, PCs, TypeOK
<1>3. UNCHANGED <<opt, execution, files, loop, naming, sizes, open, phase, checks, spoilt,
                  calls>>
  BY DEF ShowTestEnd
<1> QED
  BY <1>1, <1>2, <1>3 DEF TypeOK, FileTypes, PhaseTypes,
      Names, Repetitions, Exec,
      fixed, loop, naming, sizes, open, phase, checks

\* Spoil keeps the types.
LEMMA SpoilTypes ==
    ASSUME TypeOK, NEW n \in DOMAIN files, NEW w \in Ranks, NEW k \in Positions, Spoil(n, w, k)
    PROVE  TypeOK'
<1>1. FileTypes /\ opt' = opt /\ Spoilt \in Cells
  BY DEF Spoil, FileTypes, TypeOK, Cells
<1>2. FileTypes'
  BY <1>1, CellFacts DEF Spoil
<1> QED
  BY <1>2 DEF Spoil, TypeOK, FileTypes, Names, Repetitions, loop, naming, sizes, open, phase,
     checks

\* NextExecution keeps the types.
LEMMA NextExecutionTypes ==
    ASSUME TypeOK, NextExecution
    PROVE  TypeOK'
<1>1. opt' = opt /\ opt \in Options /\ Names' = Names /\ Repetitions' = Repetitions
  BY NamesStay DEF NextExecution, TypeOK
<1>2. execution' \in DOMAIN opt.executions
  <2>1. execution \in DOMAIN opt.executions
    BY DEF TypeOK
  <2> QED
    BY <1>1, <2>1, OptionTypes DEF NextExecution
<1>3. 0 \in Repetitions /\ 0 \in 0 .. Transfers /\ << >> \in Seq(Kinds)
  BY <1>1, OptionTypes, Numbers
<1>4. /\ pc' \in [Ranks -> PCs] /\ rep' \in [Ranks -> Repetitions]
      /\ calls' \in [Ranks -> Seq(Kinds)]
  BY <1>3 DEF NextExecution, Each, PCs
<1>5. /\ iterations' \in [Ranks -> 0 .. Transfers]
      /\ results' \in [Ranks -> [Repetitions -> 0 .. Transfers]]
  BY <1>3 DEF NextExecution, Each
<1>6. UNCHANGED <<opt, files, status, naming, stamp, open, phase, checks, errorFound,
                   done, spoilt>> /\ late' = {}
  BY DEF NextExecution
<1> QED
  BY <1>1, <1>2, <1>4, <1>5, <1>6 DEF TypeOK, naming, open, phase, checks

\* They hold at the beginning.
LEMMA InitTypes ==
    ASSUME Init
    PROVE  TypeOK
<1>1. opt \in Options /\ execution = 1
  BY DEF Init
<1>2. execution \in DOMAIN opt.executions
  <2>1. ValidOption(opt)
    BY <1>1, OptionsAssumption
  <2>2. opt.executions # << >> /\ opt.executions \in Seq(ExecutionRecord)
    BY <1>1, <2>1, OptionTypes DEF ValidOption
  <2>3. Len(opt.executions) # 0
    BY <2>2
  <2> QED
    BY <1>1, <2>3, OptionTypes
<1>3. 0 \in Repetitions /\ 0 \in 0 .. Transfers /\ << >> \in Seq(Kinds)
      /\ 0 \in 1 - NumTasks .. NumTasks - 1
  BY <1>1, OptionTypes, Numbers
<1>4. /\ pc \in [Ranks -> PCs] /\ rep \in [Ranks -> Repetitions]
      /\ calls \in [Ranks -> Seq(Kinds)] /\ stamp \in [Ranks -> Nat]
      /\ rankOffset \in [Ranks -> 1 - NumTasks .. NumTasks - 1]
      /\ name \in [Ranks -> Names] /\ openFile \in [Ranks -> Names]
  BY <1>3 DEF Init, Each, PCs, Names
<1>5. /\ iterations \in [Ranks -> 0 .. Transfers]
      /\ results \in [Ranks -> [Repetitions -> 0 .. Transfers]]
      /\ count \in [Ranks -> 0 .. Transfers] /\ reported \in [Ranks -> 0 .. Transfers]
  BY <1>3 DEF Init, Each
<1>6. DOMAIN files = {}
  BY DEF Init
<1> QED
  BY <1>1, <1>2, <1>3, <1>4, <1>5, <1>6 DEF TypeOK, Init, Each

\* Every step keeps the types.
LEMMA TypeStep ==
    ASSUME TypeOK, [Next]_vars
    PROVE  TypeOK'
<1>1. CASE UNCHANGED vars
  BY <1>1 DEF vars, TypeOK, Names, Repetitions
<1>2. ASSUME NEW r \in Ranks, RankStep(r)
      PROVE  TypeOK'
  BY <1>2, StartRepTypes, StampKnownTypes, SkipTypes, BeginWriteTypes, BeginCheckTypes,
     BeginReadTypes, StatusKnownTypes, ReorderTypes, CreateTypes, OpenCheckTypes, OpenReadTypes,
     OpenDoneTypes, TransferTypes, ReturnTypes, ErrorsKnownTypes, AccessDoneTypes, CloseTypes,
     ClosedTypes, SizeKnownTypes, ReportedTypes, BeforeRemoveTypes, RemoveTypes, EndRepTypes,
     ShowTestEndTypes DEF RankStep
<1>3. ASSUME NEW n \in DOMAIN files, NEW w \in Ranks, NEW k \in Positions, Spoil(n, w, k)
      PROVE  TypeOK'
  BY <1>3, SpoilTypes
<1>4. CASE NextExecution
  BY <1>4, NextExecutionTypes
<1> QED
  BY <1>1, <1>2, <1>3, <1>4 DEF Next

(***************************************************************************)
(* The test loop keeps its types, whatever the options: a rankOffset never *)
(* points beyond the ranks, no limit or result exceeds a rank's transfers, *)
(* and files, names and repetitions are those there may be.                *)
(***************************************************************************)
THEOREM TypeCorrect == Spec => []TypeOK
<1>1. Init => TypeOK
  BY InitTypes
<1>2. TypeOK /\ [Next]_vars => TypeOK'
  BY TypeStep
<1> QED
  BY <1>1, <1>2, PTL DEF Spec

----------------------------------------------------------------------------
(***************************************************************************)
(* Where a rank is, in numbers: how far it has come in its repetition,     *)
(* every phase at its place whether it is asked for or not.                *)
(***************************************************************************)
\* Within a phase, the write being the first one.
Inner(p) ==
    CASE p = "openWait" -> 4 [] p = "access" -> 5 [] p = "errorsWait" -> 6
      [] p = "returned" -> 7 [] p = "closeWait" -> 8 [] p = "closed" -> 9
      [] p = "sizeWait" -> 10 [] p = "report" -> 11
      [] OTHER -> 0

Outer(p) ==
    CASE p = "stampWait" -> 1 [] p = "write" -> 2 [] p = "writeWait" -> 3
      [] p = "check" -> 12 [] p = "checkWait" -> 13
      [] p = "read" -> 20 [] p = "statusWait" -> 21 [] p = "reorder" -> 22
      [] p = "readWait" -> 23
      [] p = "remove" -> 32 [] p = "removeWait" -> 33 [] p = "repWait" -> 34
      [] OTHER -> 0

PhasePlace(a) == CASE a = "write" -> 0 [] a = "check" -> 10 [] a = "read" -> 20

Pos(r) == IF Inner(pc[r]) # 0 THEN Inner(pc[r]) + PhasePlace(access[r]) ELSE Outer(pc[r])

\* The repetition a rank is in; after the last one it is at the beginning of
\* another.
Round(r) == IF pc[r] \in {"finish", "end"} THEN rep[r] + 1 ELSE rep[r]

(***************************************************************************)
(* The collectives of a repetition, by the place where a rank waits in     *)
(* them: those the options ask for, and among them those that wait for all *)
(* ranks.  Only the barrier before the removal, at 33, depends on what a   *)
(* rank knows of errors.                                                   *)
(***************************************************************************)
Checking == Exec.checkWrite \/ Exec.checkRead

Active(a) ==
    \/ a \in {1, 34}
    \/ a \in {3, 9, 10, 11} /\ Exec.write
    \/ a \in {4, 8} /\ Exec.write /\ opt.barriers
    \/ a = 6 /\ Exec.write /\ Checking
    \/ a \in {13, 16} /\ Exec.checkWrite
    \/ a \in {23, 30, 31} /\ Reads(Exec)
    \/ a = 21 /\ Reads(Exec) /\ Exec.status
    \/ a \in {24, 28} /\ Reads(Exec) /\ opt.barriers
    \/ a = 26 /\ Reads(Exec) /\ Checking

Asked(r, a) == Active(a) \/ (a = 33 /\ Removes(r))

Full == {3, 4, 6, 8, 9, 10, 13, 16, 23, 24, 26, 28, 30, 33, 34}

\* What a rank has entered in its repetition, and how many it had entered
\* before it.
Seen(r) == {a \in 1 .. Pos(r) : Asked(r, a)}
Anchor(r) == Len(calls[r]) - Cardinality(Seen(r))

(***************************************************************************)
(* How two ranks may be apart: nobody is past a collective another rank    *)
(* has not come to, and a rank in the next repetition is before the first  *)
(* collective that waits for all.                                          *)
(***************************************************************************)
Behind(r, s) == \A a \in Full : Asked(s, a) /\ a < Pos(s) => a <= Pos(r)

Near(r, s) ==
    /\ Round(s) <= Round(r) + 1
    /\ Round(s) = Round(r) => Anchor(s) = Anchor(r) /\ Behind(r, s)
    /\ Round(s) = Round(r) + 1 =>
          /\ Pos(r) = 34
          /\ Anchor(s) = Len(calls[r])
          /\ \A a \in Full : Asked(s, a) => Pos(s) <= a

NearInv == \A r, s \in Ranks : Near(r, s)

\* A rank is only in phases that are asked for.
PlaceOK(r) ==
    /\ pc[r] = "writeWait" => Exec.write
    /\ pc[r] = "checkWait" => Exec.checkWrite
    /\ pc[r] \in {"statusWait", "reorder", "readWait"} => Reads(Exec)
    /\ pc[r] = "statusWait" => Exec.status
    /\ pc[r] \in {"stampWait", "statusWait"} => r # 0
    /\ Inner(pc[r]) # 0 => /\ access[r] = "write" => Exec.write
                           /\ access[r] = "check" => Exec.checkWrite
                           /\ access[r] = "read" => Reads(Exec)
    /\ pc[r] \in {"openWait", "closeWait"} => opt.barriers /\ access[r] # "check"
    /\ pc[r] = "errorsWait" => Checking
    /\ pc[r] = "closed" => access[r] = "write"
    /\ pc[r] \in {"sizeWait", "report"} => access[r] # "check"
    /\ pc[r] = "removeWait" => Removes(r)
    /\ pc[r] \in {"finish", "end"} => rep[r] + 1 \notin Repetitions

PlaceInv == late = {} /\ \A r \in Ranks : PlaceOK(r)

(***************************************************************************)
(* The ranks agree on the errors found: those that have been told of the   *)
(* same phases know the same, and one that has been told of a phase more   *)
(* knows what the others are going to be told.                             *)
(***************************************************************************)
Sums == {6, 16, 26}
Passed(r) == {a \in Sums : Active(a) /\ a < Pos(r)}
SomeError == \E t \in Ranks : errors[t]

Agree(r, s) ==
    /\ Passed(r) = Passed(s) => errorFound[r] = errorFound[s]
    /\ ~(Passed(r) \subseteq Passed(s)) => errorFound[r] = (errorFound[s] \/ SomeError)

ErrorInv ==
    /\ \A r \in Ranks : Passed(r) = {} => ~errorFound[r]
    /\ \A r, s \in Ranks : Round(r) = Round(s) => Agree(r, s)

SInv == TypeOK /\ PlaceInv /\ NearInv /\ ErrorInv
----------------------------------------------------------------------------
(* The places, by name. *)
LEMMA OuterPlaces ==
    ASSUME NEW r \in Ranks
    PROVE  /\ pc[r] \in {"start", "finish", "end"} => Pos(r) = 0
           /\ pc[r] = "stampWait" => Pos(r) = 1
           /\ pc[r] = "write" => Pos(r) = 2
           /\ pc[r] = "writeWait" => Pos(r) = 3
           /\ pc[r] = "check" => Pos(r) = 12
           /\ pc[r] = "checkWait" => Pos(r) = 13
           /\ pc[r] = "read" => Pos(r) = 20
           /\ pc[r] = "statusWait" => Pos(r) = 21
           /\ pc[r] = "reorder" => Pos(r) = 22
           /\ pc[r] = "readWait" => Pos(r) = 23
           /\ pc[r] = "remove" => Pos(r) = 32
           /\ pc[r] = "removeWait" => Pos(r) = 33
           /\ pc[r] = "repWait" => Pos(r) = 34
BY DEF Pos, Inner, Outer

\* The places within a phase, by name.
LEMMA InnerPlaces ==
    ASSUME NEW r \in Ranks, access[r] \in {"write", "check", "read"}
    PROVE  /\ PhasePlace(access[r]) \in {0, 10, 20}
           /\ access[r] = "write" => PhasePlace(access[r]) = 0
           /\ access[r] = "check" => PhasePlace(access[r]) = 10
           /\ access[r] = "read" => PhasePlace(access[r]) = 20
           /\ pc[r] = "openWait" => Pos(r) = 4 + PhasePlace(access[r])
           /\ pc[r] = "access" => Pos(r) = 5 + PhasePlace(access[r])
           /\ pc[r] = "errorsWait" => Pos(r) = 6 + PhasePlace(access[r])
           /\ pc[r] = "returned" => Pos(r) = 7 + PhasePlace(access[r])
           /\ pc[r] = "closeWait" => Pos(r) = 8 + PhasePlace(access[r])
           /\ pc[r] = "closed" => Pos(r) = 9 + PhasePlace(access[r])
           /\ pc[r] = "sizeWait" => Pos(r) = 10 + PhasePlace(access[r])
           /\ pc[r] = "report" => Pos(r) = 11 + PhasePlace(access[r])
<1>1. PhasePlace(access[r]) \in {0, 10, 20}
  BY DEF PhasePlace
<1>2. /\ access[r] = "write" => PhasePlace(access[r]) = 0
      /\ access[r] = "check" => PhasePlace(access[r]) = 10
      /\ access[r] = "read" => PhasePlace(access[r]) = 20
  BY DEF PhasePlace
<1>3. /\ pc[r] = "openWait" => Pos(r) = 4 + PhasePlace(access[r])
      /\ pc[r] = "access" => Pos(r) = 5 + PhasePlace(access[r])
      /\ pc[r] = "errorsWait" => Pos(r) = 6 + PhasePlace(access[r])
      /\ pc[r] = "returned" => Pos(r) = 7 + PhasePlace(access[r])
      /\ pc[r] = "closeWait" => Pos(r) = 8 + PhasePlace(access[r])
      /\ pc[r] = "closed" => Pos(r) = 9 + PhasePlace(access[r])
      /\ pc[r] = "sizeWait" => Pos(r) = 10 + PhasePlace(access[r])
      /\ pc[r] = "report" => Pos(r) = 11 + PhasePlace(access[r])
  BY DEF Pos, Inner
<1> QED
  BY <1>1, <1>2, <1>3

(* They are few. *)
LEMMA PlaceTypes ==
    ASSUME TypeOK, NEW r \in Ranks
    PROVE  /\ Pos(r) \in 0 .. 34
           /\ Round(r) \in Nat
           /\ Pos(r) = 34 <=> pc[r] = "repWait"
           /\ Pos(r) = 33 <=> pc[r] = "removeWait"
<1>1. pc[r] \in PCs /\ access[r] \in {"write", "check", "read"} /\ rep[r] \in Nat
  BY DEF TypeOK, Repetitions
<1>2. Round(r) \in Nat
  BY <1>1 DEF Round
<1> QED
  BY <1>1, <1>2, OuterPlaces, InnerPlaces DEF PCs

AllPlacesOK == \A r \in Ranks : Pos(r) \in 0 .. 34 /\ Round(r) \in Nat

\* The places of all ranks.
LEMMA PlaceTypesAll == TypeOK => AllPlacesOK
BY PlaceTypes DEF AllPlacesOK

\* And those after a step.
LEMMA NextPlaceTypes == TypeOK' => AllPlacesOK'
BY PlaceTypesAll, PTL

\* What a rank has entered is finite, and its number fits.
LEMMA SeenFacts ==
    ASSUME TypeOK, NEW r \in Ranks
    PROVE  /\ IsFiniteSet(Seen(r)) /\ Cardinality(Seen(r)) \in Nat
           /\ Len(calls[r]) \in Nat /\ Anchor(r) \in Int
           /\ Len(calls[r]) = Anchor(r) + Cardinality(Seen(r))
<1>1. IsFiniteSet(1 .. Pos(r)) /\ Seen(r) \subseteq 1 .. Pos(r)
  <2>1. 1 \in Int /\ Pos(r) \in Int
    BY PlaceTypes
  <2>2. IsFiniteSet(1 .. Pos(r))
    BY <2>1, FS_Interval, Zenon
  <2> QED
    BY <2>2 DEF Seen
<1>2. IsFiniteSet(Seen(r)) /\ Cardinality(Seen(r)) \in Nat
  BY <1>1, FS_Subset, FS_CardinalityType
<1>3. Len(calls[r]) \in Nat
  BY DEF TypeOK
<1> QED
  BY <1>2, <1>3 DEF Anchor

(* What has been entered, element by element. *)
LEMMA SeenElements ==
    ASSUME NEW r \in Ranks
    PROVE  /\ \A a : a \in Seen(r) <=> a \in 1 .. Pos(r) /\ Asked(r, a)
           /\ \A a : a \in Seen(r)' <=> a \in 1 .. Pos(r)' /\ Asked(r, a)'
BY DEF Seen

----------------------------------------------------------------------------
(***************************************************************************)
(* A rank that goes on.  Everything but the beginning of a repetition or   *)
(* of an execution is such a step.                                         *)
(***************************************************************************)
SameOptions == opt' = opt /\ execution' = execution

\* The other ranks stay where they are.
OthersStay(r) ==
    \A s \in Ranks \ {r} :
        /\ pc'[s] = pc[s] /\ access'[s] = access[s] /\ rep'[s] = rep[s]
        /\ calls'[s] = calls[s] /\ errorFound'[s] = errorFound[s]

\* A rank leaves a collective that waits for all only when all are in it.
Moves(r) ==
    /\ SameOptions /\ OthersStay(r)
    /\ Round(r)' = Round(r)
    /\ Pos(r) <= Pos(r)'
    /\ Pos(r) >= 33 => Removes(r)' = Removes(r)
    /\ Anchor(r)' = Anchor(r)
    /\ \A a \in Full : Asked(r, a)' /\ Pos(r) <= a /\ a < Pos(r)' => a = Pos(r) /\ AllArrived(r)

(* The collectives asked for are those of the options. *)
LEMMA SameActive ==
    ASSUME SameOptions
    PROVE  \A a : Active(a)' = Active(a)
BY DEF SameOptions, Active, Exec, Checking, Reads

(* What another rank's step does not change. *)
LEMMA OthersFacts ==
    ASSUME SameOptions, NEW r \in Ranks, OthersStay(r), NEW s \in Ranks, s # r
    PROVE  /\ Pos(s)' = Pos(s) /\ Round(s)' = Round(s) /\ Removes(s)' = Removes(s)
           /\ \A a : Asked(s, a)' = Asked(s, a)
           /\ Seen(s)' = Seen(s) /\ Anchor(s)' = Anchor(s) /\ calls'[s] = calls[s]
           /\ Passed(s)' = Passed(s) /\ errorFound'[s] = errorFound[s]
           /\ PlaceOK(s)' = PlaceOK(s)
<1>1. pc'[s] = pc[s] /\ access'[s] = access[s] /\ rep'[s] = rep[s]
      /\ calls'[s] = calls[s] /\ errorFound'[s] = errorFound[s]
  BY DEF OthersStay
<1>2. Pos(s)' = Pos(s)
  BY <1>1 DEF Pos
<1>3. Round(s)' = Round(s)
  BY <1>1 DEF Round
<1>4. Removes(s)' = Removes(s)
  BY <1>1 DEF Removes, SameOptions
<1>5. \A a : Active(a)' = Active(a)
  BY SameActive
<1>6. \A a : Asked(s, a)' = Asked(s, a)
  BY <1>4, <1>5 DEF Asked
<1>7. Seen(s)' = Seen(s)
  BY <1>2, <1>6 DEF Seen
<1>8. Anchor(s)' = Anchor(s)
  BY <1>1, <1>7 DEF Anchor
<1>9. Passed(s)' = Passed(s)
  BY <1>2, <1>5 DEF Passed
<1>10. PlaceOK(s)' = PlaceOK(s)
  BY <1>1, <1>4 DEF PlaceOK, SameOptions, Checking, Exec, Reads, Repetitions
<1> QED
  BY <1>1, <1>2, <1>3, <1>4, <1>6, <1>7, <1>8, <1>9, <1>10

(* A rank that enters nothing, and is asked for nothing on its way. *)
LEMMA AnchorStays ==
    ASSUME TypeOK, TypeOK', SameOptions, NEW r \in Ranks, Pos(r) <= Pos(r)',
           Pos(r) >= 33 => Removes(r)' = Removes(r),
           Len(calls'[r]) = Len(calls[r]),
           \A a \in Pos(r) + 1 .. Pos(r)' : ~Asked(r, a)'
    PROVE  Anchor(r)' = Anchor(r) /\ Seen(r)' = Seen(r)
<1>1. \A a : Active(a)' = Active(a)
  BY SameActive
<1>2. Pos(r) \in 0 .. 34 /\ Pos(r)' \in 0 .. 34
  <2>1. Pos(r) \in 0 .. 34
    BY PlaceTypes
  <2>2. Pos(r)' \in 0 .. 34
    BY NextPlaceTypes DEF AllPlacesOK
  <2> QED
    BY <2>1, <2>2
<1>3. \A a \in 1 .. Pos(r) : Asked(r, a)' = Asked(r, a)
  BY <1>1, <1>2 DEF Asked
<1>4. \A a : a \in Seen(r)' <=> a \in Seen(r)
  <2> DEFINE m == Pos(r)
             n == Pos(r)'
  <2>1. /\ m \in 0 .. 34 /\ n \in 0 .. 34 /\ m <= n
        /\ \A a \in m + 1 .. n : ~Asked(r, a)'
        /\ \A a \in 1 .. m : Asked(r, a)' = Asked(r, a)
        /\ \A a : a \in Seen(r) <=> a \in 1 .. m /\ Asked(r, a)
        /\ \A a : a \in Seen(r)' <=> a \in 1 .. n /\ Asked(r, a)'
    BY <1>2, <1>3, SeenElements
  <2> HIDE DEF m, n
  <2>2. 1 .. n = (1 .. m) \cup (m + 1 .. n)
    BY <2>1
  <2> QED
    BY <2>1, <2>2, Zenon
<1>5. Seen(r)' = Seen(r)
  BY <1>4
<1> QED
  BY <1>5 DEF Anchor

(* A rank that enters the only collective asked for on its way. *)
LEMMA AnchorEnters ==
    ASSUME TypeOK, TypeOK', SameOptions, NEW r \in Ranks, Pos(r) <= Pos(r)',
           Pos(r) >= 33 => Removes(r)' = Removes(r),
           Len(calls'[r]) = Len(calls[r]) + 1,
           NEW b \in Pos(r) + 1 .. Pos(r)', Asked(r, b)',
           \A a \in Pos(r) + 1 .. Pos(r)' : Asked(r, a)' => a = b
    PROVE  Anchor(r)' = Anchor(r) /\ Seen(r)' = Seen(r) \cup {b}
<1>1. \A a : Active(a)' = Active(a)
  BY SameActive
<1>2. Pos(r) \in 0 .. 34 /\ Pos(r)' \in 0 .. 34
  <2>1. Pos(r) \in 0 .. 34
    BY PlaceTypes
  <2>2. Pos(r)' \in 0 .. 34
    BY NextPlaceTypes DEF AllPlacesOK
  <2> QED
    BY <2>1, <2>2
<1>3. \A a \in 1 .. Pos(r) : Asked(r, a)' = Asked(r, a)
  BY <1>1, <1>2 DEF Asked
<1>4. Seen(r)' = Seen(r) \cup {b}
  <2> DEFINE m == Pos(r)
             n == Pos(r)'
  <2>1. /\ m \in 0 .. 34 /\ n \in 0 .. 34 /\ m <= n
        /\ b \in m + 1 .. n /\ Asked(r, b)'
        /\ \A a \in m + 1 .. n : Asked(r, a)' => a = b
        /\ \A a \in 1 .. m : Asked(r, a)' = Asked(r, a)
        /\ \A a : a \in Seen(r) <=> a \in 1 .. m /\ Asked(r, a)
        /\ \A a : a \in Seen(r)' <=> a \in 1 .. n /\ Asked(r, a)'
    BY <1>2, <1>3, SeenElements
  <2> HIDE DEF m, n
  <2>2. 1 .. n = (1 .. m) \cup (m + 1 .. n)
    BY <2>1
  <2>3. \A a : a \in Seen(r)' <=> a \in Seen(r) \/ a = b
    BY <2>1, <2>2, Zenon
  <2> QED
    BY <2>3
<1>5. b \notin Seen(r)
  <2> DEFINE m == Pos(r)
             n == Pos(r)'
  <2>1. m \in 0 .. 34 /\ n \in 0 .. 34 /\ b \in m + 1 .. n /\ (b \in Seen(r) => b \in 1 .. m)
    BY <1>2, SeenElements
  <2> HIDE DEF m, n
  <2> QED
    BY <2>1
<1>6. Cardinality(Seen(r)') = Cardinality(Seen(r)) + 1
  BY <1>4, <1>5, SeenFacts, FS_AddElement
<1>7. Len(calls[r]) \in Nat /\ Cardinality(Seen(r)) \in Nat
  BY SeenFacts
<1> QED
  BY <1>4, <1>6, <1>7 DEF Anchor

----------------------------------------------------------------------------
(***************************************************************************)
(* What a collective that waits for all tells of the others.               *)
(***************************************************************************)
(* At the removal the ranks agree whether there is to be one. *)
LEMMA SameRemoval ==
    ASSUME TypeOK, ErrorInv, NEW r \in Ranks, NEW s \in Ranks, Round(r) = Round(s),
           Pos(r) >= 33, Pos(s) >= 33
    PROVE  errorFound[r] = errorFound[s] /\ Removes(r) = Removes(s)
<1>1. Pos(r) \in 0 .. 34 /\ Pos(s) \in 0 .. 34
  BY PlaceTypes
<1>2. Passed(r) = Passed(s)
  BY <1>1 DEF Passed, Sums
<1>3. errorFound[r] = errorFound[s]
  BY <1>2 DEF ErrorInv, Agree
<1> QED
  BY <1>3 DEF Removes

\* Ranks of one repetition are asked for the same collectives.
LEMMA SameAsked ==
    ASSUME TypeOK, ErrorInv, NEW r \in Ranks, NEW s \in Ranks, Round(r) = Round(s),
           NEW a, a <= Pos(r), a <= Pos(s), a \in Nat
    PROVE  Asked(r, a) = Asked(s, a)
<1>1. CASE a # 33
  BY <1>1 DEF Asked
<1>2. CASE a = 33
  BY <1>2, SameRemoval DEF Asked
<1> QED
  BY <1>1, <1>2

(* Of two ranks in a repetition the one that has entered more is further. *)
LEMMA FewerSeen ==
    ASSUME TypeOK, ErrorInv, NEW r \in Ranks, NEW s \in Ranks, Round(r) = Round(s),
           NEW a \in Seen(r), Pos(s) < a
    PROVE  Cardinality(Seen(s)) < Cardinality(Seen(r))
<1>1. Pos(r) \in 0 .. 34 /\ Pos(s) \in 0 .. 34
  BY PlaceTypes
<1>2. a \in 1 .. Pos(r) /\ Asked(r, a)
  BY SeenElements
<1>3. a \notin Seen(s)
  <2>1. a \in Seen(s) => a \in 1 .. Pos(s)
    BY SeenElements
  <2> QED
    BY <1>1, <2>1
<1>4. Seen(s) \subseteq Seen(r)
  <2> SUFFICES ASSUME NEW b \in Seen(s)
               PROVE  b \in Seen(r)
    OBVIOUS
  <2>1. b \in 1 .. Pos(s) /\ Asked(s, b)
    BY SeenElements
  <2>2. b \in 1 .. Pos(r) /\ b \in Nat /\ b <= Pos(r) /\ b <= Pos(s)
    BY <1>1, <1>2, <2>1
  <2>3. Asked(r, b)
    BY <2>1, <2>2, SameAsked
  <2> QED
    BY <2>2, <2>3, SeenElements
<1>5. /\ IsFiniteSet(Seen(r)) /\ Cardinality(Seen(r)) \in Nat
      /\ IsFiniteSet(Seen(s)) /\ Cardinality(Seen(s)) \in Nat
  BY SeenFacts
<1>6. /\ Cardinality(Seen(s)) <= Cardinality(Seen(r))
      /\ Cardinality(Seen(s)) = Cardinality(Seen(r)) => Seen(s) = Seen(r)
  BY <1>4, <1>5, FS_Subset
<1> QED
  BY <1>3, <1>5, <1>6

\* Rank t has entered as many collectives as rank r.
KeepsUp(t, r) == Len(calls[r]) <= Len(calls[t])

(* Who has entered as much as a rank in the collective at a is not before  *)
(* it, and in the next repetition only if it is the last one of this.      *)
LEMMA MetOne ==
    ASSUME TypeOK, ErrorInv, NearInv, NEW r \in Ranks, NEW t \in Ranks,
           NEW a \in Full, Pos(r) = a, Asked(r, a), KeepsUp(t, r)
    PROVE  \/ Round(t) = Round(r) /\ a <= Pos(t)
           \/ Round(t) = Round(r) + 1 /\ a = 34
<1>1. /\ Len(calls[r]) \in Nat /\ Len(calls[t]) \in Nat /\ Anchor(r) \in Int /\ Anchor(t) \in Int
      /\ Len(calls[r]) = Anchor(r) + Cardinality(Seen(r))
      /\ Len(calls[t]) = Anchor(t) + Cardinality(Seen(t))
      /\ Cardinality(Seen(r)) \in Nat /\ Cardinality(Seen(t)) \in Nat
      /\ IsFiniteSet(Seen(r))
  BY SeenFacts
<1>2. Round(r) \in Nat /\ Round(t) \in Nat /\ Pos(t) \in 0 .. 34 /\ a \in 1 .. 34
  BY PlaceTypes DEF Full
<1>3. Len(calls[r]) <= Len(calls[t])
  BY DEF KeepsUp
<1>4. a \in Seen(r)
  BY <1>2, SeenElements
<1>5. Cardinality(Seen(r)) # 0
  BY <1>1, <1>4, FS_EmptySet
<1>6. Near(r, t) /\ Near(t, r)
  BY DEF NearInv
<1>7. Round(r) # Round(t) + 1
  BY <1>1, <1>3, <1>5, <1>6 DEF Near
<1>8. ASSUME Round(t) = Round(r)
      PROVE  a <= Pos(t)
  <2>1. Anchor(t) = Anchor(r)
    BY <1>6, <1>8 DEF Near
  <2>2. Cardinality(Seen(r)) <= Cardinality(Seen(t))
    BY <1>1, <1>3, <2>1
  <2>3. ~(Pos(t) < a)
    BY <1>1, <1>4, <1>8, <2>2, FewerSeen
  <2> QED
    BY <1>2, <2>3
<1>9. ASSUME Round(t) = Round(r) + 1
      PROVE  a = 34
  BY <1>6, <1>9 DEF Near
<1>10. Round(t) <= Round(r) + 1 /\ Round(r) <= Round(t) + 1
  BY <1>6 DEF Near
<1> QED
  BY <1>2, <1>7, <1>8, <1>9, <1>10

(* When all are in the collective at a, nobody is before it. *)
LEMMA Met ==
    ASSUME TypeOK, ErrorInv, NearInv, NEW r \in Ranks, NEW t \in Ranks,
           NEW a \in Full, Pos(r) = a, Asked(r, a), AllArrived(r)
    PROVE  \/ Round(t) = Round(r) /\ a <= Pos(t)
           \/ Round(t) = Round(r) + 1 /\ a = 34
<1>1. Len(calls[r]) \in Nat /\ Len(calls[t]) \in Nat
  BY SeenFacts
<1>2. KeepsUp(t, r)
  BY <1>1 DEF AllArrived, InSameCall, KeepsUp
<1> QED
  BY <1>2, MetOne

----------------------------------------------------------------------------
(* A rank that goes on leaves the ranks as near as they were. *)
LEMMA MovesNear ==
    ASSUME TypeOK, TypeOK', ErrorInv, NearInv, NEW r \in Ranks, Moves(r)
    PROVE  NearInv'
<1> DEFINE m == Pos(r)
           n == Pos(r)'
<1>1. m \in 0 .. 34 /\ n \in 0 .. 34 /\ m <= n
  BY PlaceTypes, NextPlaceTypes DEF AllPlacesOK, Moves
<1>2. /\ SameOptions /\ OthersStay(r) /\ Round(r)' = Round(r) /\ Anchor(r)' = Anchor(r)
      /\ m >= 33 => Removes(r)' = Removes(r)
      /\ \A a \in Full : Asked(r, a)' /\ m <= a /\ a < n => a = m /\ AllArrived(r)
  BY DEF Moves
<1>3. \A a : Active(a)' = Active(a)
  BY <1>2, SameActive
<1>4. \A a \in Full : a \in 1 .. 34
  BY DEF Full
<1>5. \A a \in Full : a <= m => Asked(r, a)' = Asked(r, a)
  BY <1>1, <1>2, <1>3 DEF Asked
<1> HIDE DEF m, n
<1>6. \A s \in Ranks \ {r} :
        /\ Pos(s)' = Pos(s) /\ Round(s)' = Round(s) /\ Anchor(s)' = Anchor(s)
        /\ \A a : Asked(s, a)' = Asked(s, a)
        /\ calls'[s] = calls[s]
  BY <1>2, OthersFacts
<1>7. ASSUME NEW s \in Ranks \ {r}, NEW t \in Ranks \ {r}
      PROVE  Near(s, t)'
  <2>1. Near(s, t)
    BY DEF NearInv
  <2> QED
    BY <1>6, <2>1 DEF Near, Behind
<1>8. ASSUME NEW t \in Ranks \ {r}
      PROVE  Near(r, t)'
  <2>1. Near(r, t) /\ Pos(t) \in 0 .. 34
    BY PlaceTypes DEF NearInv
  <2>2. Round(t)' <= Round(r)' + 1
    BY <1>2, <1>6, <2>1 DEF Near
  <2>3. ASSUME Round(t)' = Round(r)'
        PROVE  Anchor(t)' = Anchor(r)' /\ Behind(r, t)'
    <3>1. Round(t) = Round(r)
      BY <1>2, <1>6, <2>3
    <3>2. Anchor(t)' = Anchor(r)'
      BY <1>2, <1>6, <2>1, <3>1 DEF Near
    <3>3. \A a \in Full : Asked(t, a)' /\ a < Pos(t)' => a <= m
      BY <1>6, <2>1, <3>1 DEF Near, Behind, m
    <3>4. \A a \in Full : Asked(t, a)' /\ a < Pos(t)' => a <= n
      BY <1>1, <1>4, <3>3
    <3> QED
      BY <3>2, <3>4 DEF Behind, n
  <2>4. ASSUME Round(t)' = Round(r)' + 1
        PROVE  /\ Pos(r)' = 34
               /\ Anchor(t)' = Len(calls[r])'
               /\ \A a \in Full : Asked(t, a)' => Pos(t)' <= a
    <3>1. Round(t) = Round(r) + 1
      BY <1>2, <1>6, <2>4
    <3>2. m = 34 /\ Anchor(t) = Len(calls[r]) /\ \A a \in Full : Asked(t, a) => Pos(t) <= a
      BY <2>1, <3>1 DEF Near, m
    <3>3. n = 34
      BY <1>1, <3>2
    <3>4. \A a : a \in Seen(r)' <=> a \in Seen(r)
      <4>1. \A a \in 1 .. 34 : Asked(r, a)' = Asked(r, a)
        BY <1>2, <1>3, <3>2 DEF Asked
      <4>2. /\ \A a : a \in Seen(r) <=> a \in 1 .. m /\ Asked(r, a)
            /\ \A a : a \in Seen(r)' <=> a \in 1 .. n /\ Asked(r, a)'
        BY SeenElements DEF m, n
      <4> QED
        BY <3>2, <3>3, <4>1, <4>2
    <3>5. Seen(r)' = Seen(r)
      BY <3>4
    <3>6. Len(calls[r])' = Len(calls[r])
      <4>1. Len(calls[r])' - Cardinality(Seen(r)') = Len(calls[r]) - Cardinality(Seen(r))
        BY <1>2 DEF Anchor
      <4>2. Len(calls[r]) \in Nat /\ Cardinality(Seen(r)) \in Nat
        BY SeenFacts
      <4>3. calls' \in [Ranks -> Seq(Kinds)]
        BY DEF TypeOK
      <4>4. Len(calls'[r]) \in Nat
        BY <4>3
      <4> QED
        BY <3>5, <4>1, <4>2, <4>4
    <3> QED
      BY <1>6, <3>2, <3>3, <3>6 DEF n
  <2> QED
    BY <2>2, <2>3, <2>4 DEF Near
<1>9. ASSUME NEW t \in Ranks \ {r}
      PROVE  Near(t, r)'
  <2>1. Near(t, r) /\ Pos(t) \in 0 .. 34
    BY PlaceTypes DEF NearInv
  <2>2. Round(r)' <= Round(t)' + 1
    BY <1>2, <1>6, <2>1 DEF Near
  <2>3. ASSUME NEW a \in Full, Asked(r, a)', m <= a, a < n
        PROVE  (Round(t) = Round(r) /\ a <= Pos(t)) \/ Round(t) = Round(r) + 1
    <3>1. a = m /\ AllArrived(r)
      BY <1>2, <2>3
    <3>2. Asked(r, a) /\ Pos(r) = a
      BY <1>1, <1>5, <2>3, <3>1 DEF m
    <3> QED
      BY <3>1, <3>2, Met
  <2>4. ASSUME Round(r)' = Round(t)'
        PROVE  Anchor(r)' = Anchor(t)' /\ Behind(t, r)'
    <3>1. Round(r) = Round(t) /\ Round(t) \in Nat
      BY <1>2, <1>6, <2>4, PlaceTypes
    <3>2. Anchor(r)' = Anchor(t)'
      BY <1>2, <1>6, <2>1, <3>1 DEF Near
    <3>3. ASSUME NEW a \in Full, Asked(r, a)', a < n
          PROVE  a <= Pos(t)
      <4>1. CASE m <= a
        BY <2>3, <3>1, <3>3, <4>1
      <4>2. CASE a < m
        <5>1. Asked(r, a)
          BY <1>1, <1>4, <1>5, <3>3, <4>2
        <5> QED
          BY <2>1, <3>1, <4>2, <5>1 DEF Near, Behind, m
      <4> QED
        BY <1>1, <1>4, <4>1, <4>2
    <3> QED
      BY <1>6, <3>2, <3>3 DEF Behind, n
  <2>5. ASSUME Round(r)' = Round(t)' + 1
        PROVE  /\ Pos(t)' = 34
               /\ Anchor(r)' = Len(calls[t])'
               /\ \A a \in Full : Asked(r, a)' => Pos(r)' <= a
    <3>1. Round(r) = Round(t) + 1 /\ Round(t) \in Nat
      BY <1>2, <1>6, <2>5, PlaceTypes
    <3>2. Pos(t) = 34 /\ Anchor(r) = Len(calls[t]) /\ \A a \in Full : Asked(r, a) => m <= a
      BY <2>1, <3>1 DEF Near, m
    <3>3. ASSUME NEW a \in Full, Asked(r, a)'
          PROVE  n <= a
      <4>1. m <= a
        <5>1. ASSUME a < m
              PROVE  FALSE
          <6>1. Asked(r, a)
            BY <1>1, <1>4, <1>5, <3>3, <5>1
          <6>2. m <= a
            BY <3>2, <3>3, <6>1
          <6>3. a \in 1 .. 34
            BY <1>4, <3>3
          <6> QED
            BY <1>1, <5>1, <6>2, <6>3
        <5> QED
          BY <1>1, <1>4, <5>1
      <4>2. ~(a < n)
        BY <2>3, <3>1, <3>3, <4>1
      <4> QED
        BY <1>1, <1>4, <4>2
    <3> QED
      BY <1>2, <1>6, <3>2, <3>3 DEF n
  <2> QED
    BY <2>2, <2>4, <2>5 DEF Near
<1>10. Near(r, r)'
  <2>1. Round(r)' \in Nat /\ Pos(r)' \in 0 .. 34
    BY NextPlaceTypes DEF AllPlacesOK
  <2>2. Behind(r, r)'
    BY <1>1, <1>4 DEF Behind, n
  <2> QED
    BY <2>1, <2>2 DEF Near
<1> QED
  BY <1>7, <1>8, <1>9, <1>10 DEF NearInv

(***************************************************************************)
(* A rank that begins another repetition.                                  *)
(***************************************************************************)
Turns(r) ==
    /\ SameOptions /\ OthersStay(r)
    /\ Pos(r) = 34 /\ AllArrived(r) /\ Pos(r)' = 0
    /\ Round(r)' = Round(r) + 1
    /\ calls'[r] = calls[r]
    /\ ~errorFound'[r]

\* A rank that begins a repetition stays together with the others.
LEMMA TurnsNear ==
    ASSUME TypeOK, TypeOK', ErrorInv, NearInv, NEW r \in Ranks, Turns(r)
    PROVE  NearInv'
<1>1. /\ SameOptions /\ OthersStay(r)
      /\ Pos(r) = 34 /\ AllArrived(r) /\ Pos(r)' = 0
      /\ Round(r)' = Round(r) + 1 /\ calls'[r] = calls[r]
  BY DEF Turns
<1>2. \A s \in Ranks \ {r} :
        /\ Pos(s)' = Pos(s) /\ Round(s)' = Round(s) /\ Anchor(s)' = Anchor(s)
        /\ \A a : Asked(s, a)' = Asked(s, a)
        /\ calls'[s] = calls[s]
  BY <1>1, OthersFacts
<1>3. /\ Len(calls[r]) \in Nat /\ Anchor(r) \in Int /\ Cardinality(Seen(r)) \in Nat
      /\ Len(calls[r]) = Anchor(r) + Cardinality(Seen(r))
      /\ Round(r) \in Nat
  BY SeenFacts, PlaceTypes
<1>4. Anchor(r)' = Len(calls[r])
  <2>1. \A a : a \notin Seen(r)'
    BY <1>1, SeenElements
  <2>2. Seen(r)' = {}
    BY <2>1
  <2>3. Cardinality(Seen(r)') = 0
    BY <2>2, FS_EmptySet
  <2>4. Anchor(r)' = Len(calls'[r]) - Cardinality(Seen(r)')
    BY DEF Anchor
  <2> QED
    BY <1>1, <1>3, <2>3, <2>4
<1>5. \A a \in Full : a \in 1 .. 34
  BY DEF Full
<1>6. Active(34) /\ 34 \in Full
  BY DEF Active, Full
<1>7. \A t \in Ranks : \/ Round(t) = Round(r) /\ Pos(t) = 34
                       \/ Round(t) = Round(r) + 1
  <2> TAKE t \in Ranks
  <2>1. Asked(r, 34)
    BY <1>6 DEF Asked
  <2>2. (Round(t) = Round(r) /\ 34 <= Pos(t)) \/ Round(t) = Round(r) + 1
    BY <1>1, <1>6, <2>1, Met
  <2> QED
    BY <2>2, PlaceTypes
<1>8. ASSUME NEW s \in Ranks \ {r}, NEW t \in Ranks \ {r}
      PROVE  Near(s, t)'
  <2>1. Near(s, t)
    BY DEF NearInv
  <2> QED
    BY <1>2, <2>1 DEF Near, Behind
<1>9. ASSUME NEW t \in Ranks \ {r}, Round(t) = Round(r)
      PROVE  Near(r, t)' /\ Near(t, r)'
  <2>1. Pos(t) = 34 /\ Round(t) \in Nat
    BY <1>3, <1>7, <1>9
  <2>2. Near(r, t)'
    BY <1>1, <1>2, <1>9, <2>1 DEF Near
  <2>3. Seen(t) = Seen(r)
    <3>1. \A a \in 1 .. 34 : Asked(r, a) = Asked(t, a)
      BY <1>1, <1>9, <2>1, SameAsked
    <3>2. \A a : a \in Seen(r) <=> a \in Seen(t)
      BY <1>1, <2>1, <3>1, SeenElements
    <3> QED
      BY <3>2
  <2>4. Anchor(t) = Anchor(r)
    BY <1>9 DEF NearInv, Near
  <2>5. Len(calls[t]) = Len(calls[r])
    BY <1>3, <2>3, <2>4, SeenFacts
  <2>6. Round(r)' = Round(t)' + 1
    BY <1>1, <1>2, <1>9
  <2>7. Pos(t)' = 34 /\ Anchor(r)' = Len(calls[t])'
    BY <1>2, <1>4, <2>1, <2>5
  <2>8. \A a \in Full : Pos(r)' <= a
    BY <1>1, <1>5
  <2> QED
    BY <1>2, <2>1, <2>2, <2>6, <2>7, <2>8 DEF Near
<1>10. ASSUME NEW t \in Ranks \ {r}, Round(t) = Round(r) + 1
       PROVE  Near(r, t)' /\ Near(t, r)'
  <2>1. Anchor(t) = Len(calls[r]) /\ \A a \in Full : Asked(t, a) => Pos(t) <= a
    BY <1>10 DEF NearInv, Near
  <2>2. Pos(t) \in 0 .. 34 /\ Round(t)' = Round(r)'
    BY <1>1, <1>2, <1>10, PlaceTypes
  <2>3. Anchor(t)' = Anchor(r)'
    BY <1>2, <1>4, <2>1
  <2>4. Behind(t, r)'
    BY <1>1, <1>5 DEF Behind
  <2>5. Behind(r, t)'
    <3>1. ASSUME NEW a \in Full, Asked(t, a), a < Pos(t)
          PROVE  FALSE
      <4>1. Pos(t) <= a /\ a \in 1 .. 34
        BY <1>5, <2>1, <3>1
      <4> QED
        BY <2>2, <3>1, <4>1
    <3> QED
      BY <1>2, <3>1 DEF Behind
  <2>6. Round(r)' \in Nat
    BY <1>1, <1>3
  <2> QED
    BY <2>2, <2>3, <2>4, <2>5, <2>6 DEF Near
<1>11. Near(r, r)'
  <2>1. Round(r)' \in Nat
    BY <1>1, <1>3
  <2>2. Behind(r, r)'
    BY <1>1, <1>5 DEF Behind
  <2> QED
    BY <2>1, <2>2 DEF Near
<1> QED
  BY <1>7, <1>8, <1>9, <1>10, <1>11 DEF NearInv

----------------------------------------------------------------------------
(* Who has been told of which phases. *)
LEMMA PassedElements ==
    ASSUME NEW r \in Ranks
    PROVE  /\ \A a : a \in Passed(r) <=> a \in Sums /\ Active(a) /\ a < Pos(r)
           /\ \A a : a \in Passed(r)' <=> a \in Sums /\ Active(a)' /\ a < Pos(r)'
BY DEF Passed

(* A rank that learns nothing of errors, while they stay what they are. *)
LEMMA QuietErrors ==
    ASSUME ErrorInv, NEW r \in Ranks, SameOptions, OthersStay(r),
           Round(r)' = Round(r), Passed(r)' = Passed(r), errorFound'[r] = errorFound[r],
           \/ errors' = errors
           \/ \A s, t \in Ranks : Round(s) = Round(t) => Passed(s) \subseteq Passed(t)
    PROVE  ErrorInv'
<1>1. \A s \in Ranks : /\ Round(s)' = Round(s) /\ Passed(s)' = Passed(s)
                       /\ errorFound'[s] = errorFound[s]
  BY OthersFacts
<1>2. \A s \in Ranks : Passed(s)' = {} => ~errorFound'[s]
  BY <1>1 DEF ErrorInv
<1>3. ASSUME NEW s \in Ranks, NEW t \in Ranks, Round(s)' = Round(t)'
      PROVE  Agree(s, t)'
  <2>1. Round(s) = Round(t) /\ Agree(s, t)
    BY <1>1, <1>3 DEF ErrorInv
  <2>2. CASE errors' = errors
    BY <1>1, <2>1, <2>2 DEF Agree, SomeError
  <2>3. CASE Passed(s) \subseteq Passed(t)
    BY <1>1, <2>1, <2>3 DEF Agree
  <2> QED
    BY <2>1, <2>2, <2>3
<1> QED
  BY <1>2, <1>3 DEF ErrorInv

(* Nobody has been told of a phase another rank has yet to be told of when *)
(* a rank has opened its file in a phase or is about to.                   *)
LEMMA NobodyAhead ==
    ASSUME TypeOK, NearInv, ErrorInv, NEW r \in Ranks, NEW b \in {3, 13, 23}, Active(b),
           Pos(r) \in b .. b + 2, b = Pos(r) => AllArrived(r),
           NEW s \in Ranks, NEW t \in Ranks, Round(s) = Round(t)
    PROVE  Passed(s) \subseteq Passed(t)
<1> SUFFICES ASSUME NEW a \in Passed(s), a \notin Passed(t)
             PROVE  FALSE
  OBVIOUS
<1>1. a \in {6, 16, 26} /\ Active(a) /\ a < Pos(s) /\ ~(a < Pos(t))
  BY PassedElements DEF Sums
<1>2. Pos(s) \in 0 .. 34 /\ Pos(t) \in 0 .. 34 /\ Pos(r) \in 0 .. 34
      /\ Round(r) \in Nat /\ Round(t) \in Nat
  BY PlaceTypes
<1>3. Near(r, s) /\ Near(r, t) /\ Near(t, r)
  BY DEF NearInv
<1>4. a \in Full /\ b \in Full /\ Asked(s, a) /\ Asked(r, b)
  BY <1>1 DEF Full, Asked
<1>5. Pos(t) <= a /\ Pos(t) # 34 /\ Pos(r) # 34
  BY <1>1, <1>2
<1>6. Round(t) = Round(r)
  BY <1>2, <1>3, <1>5 DEF Near
<1>7. a <= Pos(r)
  BY <1>1, <1>3, <1>4, <1>6 DEF Near, Behind
<1>8. b <= Pos(t)
  <2>1. CASE b = Pos(r)
    <3>1. \/ Round(t) = Round(r) /\ b <= Pos(t)
          \/ Round(t) = Round(r) + 1 /\ b = 34
      BY <1>4, <2>1, Met
    <3> QED
      BY <3>1
  <2>2. CASE b < Pos(r)
    BY <1>3, <1>4, <1>6, <2>2 DEF Near, Behind
  <2> QED
    BY <1>2, <2>1, <2>2
<1> QED
  BY <1>1, <1>2, <1>5, <1>7, <1>8

(* A rank learns what all have found. *)
LEMMA ToldErrors ==
    ASSUME TypeOK, TypeOK', NearInv, ErrorInv, NEW r \in Ranks, SameOptions, OthersStay(r),
           Round(r)' = Round(r), Pos(r) \in Sums, Active(Pos(r)), AllArrived(r),
           Passed(r)' = Passed(r) \cup {Pos(r)}, errors' = errors,
           errorFound'[r] = (errorFound[r] \/ SomeError)
    PROVE  ErrorInv'
<1>1. \A s \in Ranks \ {r} : /\ Round(s)' = Round(s) /\ Passed(s)' = Passed(s)
                             /\ errorFound'[s] = errorFound[s]
  BY OthersFacts
<1>2. SomeError' = SomeError
  BY DEF SomeError
<1>3. \A s \in Ranks : Passed(s)' = {} => ~errorFound'[s]
  BY <1>1 DEF ErrorInv
<1>4. ASSUME NEW s \in Ranks \ {r}, NEW t \in Ranks \ {r}, Round(s)' = Round(t)'
      PROVE  Agree(s, t)'
  <2>1. Agree(s, t)
    BY <1>1, <1>4 DEF ErrorInv
  <2> QED
    BY <1>1, <1>2, <2>1 DEF Agree
<1>5. ASSUME NEW t \in Ranks \ {r}, Round(t) = Round(r)
      PROVE  Agree(r, t)' /\ Agree(t, r)'
  <2>1. Pos(r) \in 0 .. 34 /\ Pos(t) \in 0 .. 34 /\ Round(r) \in Nat
    BY PlaceTypes
  <2>2. Pos(r) \in Full /\ Asked(r, Pos(r)) /\ Pos(r) \in {6, 16, 26}
    BY DEF Asked, Sums, Full
  <2>3. Pos(r) <= Pos(t)
    BY <1>5, <2>1, <2>2, Met
  <2>4. Passed(r) \subseteq Passed(t)
    <3> SUFFICES ASSUME NEW a \in Passed(r)
                 PROVE  a \in Passed(t)
      OBVIOUS
    <3>1. a \in Sums /\ Active(a) /\ a < Pos(r) /\ a \in {6, 16, 26}
      BY PassedElements DEF Sums
    <3>2. a < Pos(t)
      BY <2>1, <2>3, <3>1
    <3> QED
      BY <3>1, <3>2, PassedElements
  <2>5. Passed(t) \subseteq Passed(r) \cup {Pos(r)}
    <3> SUFFICES ASSUME NEW a \in Passed(t)
                 PROVE  a \in Passed(r) \/ a = Pos(r)
      OBVIOUS
    <3>1. a \in Sums /\ Active(a) /\ a < Pos(t) /\ a \in {6, 16, 26}
      BY PassedElements DEF Sums
    <3>2. a \in Full /\ Asked(t, a)
      BY <3>1 DEF Full, Asked
    <3>3. Near(r, t)
      BY DEF NearInv
    <3>4. a <= Pos(r)
      BY <1>5, <3>1, <3>2, <3>3 DEF Near, Behind
    <3>5. a < Pos(r) \/ a = Pos(r)
      BY <2>1, <3>1, <3>4
    <3> QED
      BY <3>1, <3>5, PassedElements
  <2>6. Agree(r, t) /\ Agree(t, r)
    BY <1>5 DEF ErrorInv
  <2>7. Pos(r) \notin Passed(r)
    BY <2>1, PassedElements
  <2>8. Passed(t)' = Passed(t) /\ errorFound'[t] = errorFound[t]
    BY <1>1
  <2>9. errorFound[r] \in BOOLEAN /\ errorFound[t] \in BOOLEAN /\ SomeError \in BOOLEAN
    BY DEF TypeOK, SomeError
  <2>10. CASE Pos(r) \in Passed(t)
    <3>1. Passed(t) = Passed(r)'
      BY <2>4, <2>5, <2>10
    <3>2. errorFound[t] = (errorFound[r] \/ SomeError)
      BY <2>6, <2>7, <2>10 DEF Agree
    <3> QED
      BY <2>8, <3>1, <3>2 DEF Agree
  <2>11. CASE Pos(r) \notin Passed(t)
    <3>1. Passed(t) = Passed(r)
      BY <2>4, <2>5, <2>11
    <3>2. errorFound[t] = errorFound[r]
      BY <2>6, <3>1 DEF Agree
    <3>3. Passed(t)' # Passed(r)' /\ Passed(t)' \subseteq Passed(r)'
      BY <2>7, <2>8, <3>1
    <3> QED
      BY <1>2, <2>8, <3>2, <3>3 DEF Agree
  <2> QED
    BY <2>10, <2>11
<1>6. Agree(r, r)'
  <2>1. errorFound'[r] = errorFound'[r] /\ Passed(r)' \subseteq Passed(r)'
    OBVIOUS
  <2> QED
    BY <2>1 DEF Agree
<1> QED
  BY <1>1, <1>3, <1>4, <1>5, <1>6 DEF ErrorInv

(* In a new repetition nobody has been told of errors. *)
LEMMA TurnsErrors ==
    ASSUME TypeOK, TypeOK', NearInv, ErrorInv, NEW r \in Ranks, Turns(r), errors' = errors
    PROVE  ErrorInv'
<1>1. /\ SameOptions /\ OthersStay(r) /\ Pos(r) = 34 /\ Pos(r)' = 0
      /\ Round(r)' = Round(r) + 1 /\ ~errorFound'[r]
  BY DEF Turns
<1>2. \A s \in Ranks \ {r} : /\ Round(s)' = Round(s) /\ Passed(s)' = Passed(s)
                             /\ errorFound'[s] = errorFound[s] /\ Pos(s)' = Pos(s)
  BY <1>1, OthersFacts
<1>3. SomeError' = SomeError
  BY DEF SomeError
<1>4. Passed(r)' = {}
  <2>1. \A a \in Sums : ~(a < 0)
    BY DEF Sums
  <2> QED
    BY <1>1, <2>1, PassedElements
<1>5. \A s \in Ranks : Passed(s)' = {} => ~errorFound'[s]
  BY <1>1, <1>2 DEF ErrorInv
<1>6. ASSUME NEW s \in Ranks \ {r}, NEW t \in Ranks \ {r}, Round(s)' = Round(t)'
      PROVE  Agree(s, t)'
  <2>1. Agree(s, t)
    BY <1>2, <1>6 DEF ErrorInv
  <2> QED
    BY <1>2, <1>3, <2>1 DEF Agree
<1>7. ASSUME NEW t \in Ranks \ {r}, Round(t)' = Round(r)'
      PROVE  Agree(r, t)' /\ Agree(t, r)'
  <2>1. Round(t) = Round(r) + 1 /\ Near(r, t)
    BY <1>1, <1>2, <1>7 DEF NearInv
  <2>2. \A a \in Full : Asked(t, a) => Pos(t) <= a
    BY <2>1 DEF Near
  <2>3. Passed(t) = {}
    <3> SUFFICES ASSUME NEW a \in Passed(t)
                 PROVE  FALSE
      OBVIOUS
    <3>1. a \in {6, 16, 26} /\ a \in Full /\ Asked(t, a) /\ a < Pos(t) /\ Pos(t) \in 0 .. 34
      BY PassedElements, PlaceTypes DEF Sums, Full, Asked
    <3> QED
      BY <2>2, <3>1
  <2>4. Passed(t)' = {} /\ errorFound'[t] = errorFound[t] /\ ~errorFound[t]
    BY <1>2, <2>3 DEF ErrorInv
  <2>5. errorFound'[r] \in BOOLEAN /\ errorFound'[t] \in BOOLEAN
    BY DEF TypeOK
  <2> QED
    BY <1>1, <1>4, <2>4, <2>5 DEF Agree
<1>8. Agree(r, r)'
  <2>1. errorFound'[r] = errorFound'[r] /\ Passed(r)' \subseteq Passed(r)'
    OBVIOUS
  <2> QED
    BY <2>1 DEF Agree
<1> QED
  BY <1>5, <1>6, <1>7, <1>8 DEF ErrorInv

----------------------------------------------------------------------------
(***************************************************************************)
(* The steps of a rank, one by one: each goes on, in a phase asked for.    *)
(***************************************************************************)
PlacesKnown ==
    \A r \in Ranks :
        /\ pc[r] \in {"start", "finish", "end"} => Pos(r) = 0
        /\ pc[r] = "stampWait" => Pos(r) = 1
        /\ pc[r] = "write" => Pos(r) = 2
        /\ pc[r] = "writeWait" => Pos(r) = 3
        /\ pc[r] = "check" => Pos(r) = 12
        /\ pc[r] = "checkWait" => Pos(r) = 13
        /\ pc[r] = "read" => Pos(r) = 20
        /\ pc[r] = "statusWait" => Pos(r) = 21
        /\ pc[r] = "reorder" => Pos(r) = 22
        /\ pc[r] = "readWait" => Pos(r) = 23
        /\ pc[r] = "remove" => Pos(r) = 32
        /\ pc[r] = "removeWait" => Pos(r) = 33
        /\ pc[r] = "repWait" => Pos(r) = 34
        /\ access[r] \in {"write", "check", "read"}
        /\ access[r] = "write" => PhasePlace(access[r]) = 0
        /\ access[r] = "check" => PhasePlace(access[r]) = 10
        /\ access[r] = "read" => PhasePlace(access[r]) = 20
        /\ pc[r] = "openWait" => Pos(r) = 4 + PhasePlace(access[r])
        /\ pc[r] = "access" => Pos(r) = 5 + PhasePlace(access[r])
        /\ pc[r] = "errorsWait" => Pos(r) = 6 + PhasePlace(access[r])
        /\ pc[r] = "returned" => Pos(r) = 7 + PhasePlace(access[r])
        /\ pc[r] = "closeWait" => Pos(r) = 8 + PhasePlace(access[r])
        /\ pc[r] = "closed" => Pos(r) = 9 + PhasePlace(access[r])
        /\ pc[r] = "sizeWait" => Pos(r) = 10 + PhasePlace(access[r])
        /\ pc[r] = "report" => Pos(r) = 11 + PhasePlace(access[r])

\* The places by name, for all ranks.
LEMMA Places == TypeOK => PlacesKnown
<1> SUFFICES ASSUME TypeOK, NEW r \in Ranks
             PROVE  access[r] \in {"write", "check", "read"}
  BY OuterPlaces, InnerPlaces, ZenonT(40) DEF PlacesKnown
<1> QED
  BY DEF TypeOK

\* And after a step.
LEMMA NextPlaces == TypeOK' => PlacesKnown'
BY Places, PTL

\* What a rank is asked for on its way from place m to place n.
FreeNext(r, m, n) == \A a \in m + 1 .. n : ~Asked(r, a)'
OnlyNext(r, m, n) ==
    \E b \in m + 1 .. n : Asked(r, b)' /\ \A a \in m + 1 .. n : Asked(r, a)' => a = b
WaitedNext(r, m, n) ==
    \A a \in Full : Asked(r, a)' /\ m <= a /\ a < n => a = m /\ AllArrived(r)

(* A rank goes from place m to place n, past collectives it is not in. *)
LEMMA GoesOn ==
    ASSUME TypeOK, TypeOK', SameOptions, NEW r \in Ranks, OthersStay(r), Round(r)' = Round(r),
           NEW m \in 0 .. 34, NEW n \in 0 .. 34, Pos(r) = m, Pos(r)' = n, m <= n,
           m >= 33 => Removes(r)' = Removes(r),
           \/ Len(calls'[r]) = Len(calls[r]) /\ FreeNext(r, m, n)
           \/ Len(calls'[r]) = Len(calls[r]) + 1 /\ OnlyNext(r, m, n),
           WaitedNext(r, m, n)
    PROVE  Moves(r)
<1>1. Anchor(r)' = Anchor(r)
  BY AnchorStays, AnchorEnters DEF FreeNext, OnlyNext
<1> QED
  BY <1>1 DEF Moves, WaitedNext

\* Whether collectives are asked for on the way from m to n.
Free(m, n) == \A a \in m + 1 .. n : ~Active(a)
Only(m, n) == \E b \in m + 1 .. n : Active(b) /\ \A a \in m + 1 .. n : Active(a) => a = b
Waited(r, m, n) == \A a \in Full : Active(a) /\ m <= a /\ a < n => a = m /\ AllArrived(r)

\* The same before the removal, where errors do not matter.
LEMMA Goes ==
    ASSUME TypeOK, TypeOK', SameOptions, NEW r \in Ranks, OthersStay(r), Round(r)' = Round(r),
           NEW m \in 0 .. 32, NEW n \in 0 .. 32, Pos(r) = m, Pos(r)' = n, m <= n,
           \/ Len(calls'[r]) = Len(calls[r]) /\ Free(m, n)
           \/ Len(calls'[r]) = Len(calls[r]) + 1 /\ Only(m, n),
           Waited(r, m, n)
    PROVE  Moves(r)
<1>1. \A a \in 0 .. 32 : Asked(r, a)' <=> Active(a)
  BY SameActive DEF Asked
<1>2. \A a \in m + 1 .. n : a \in 0 .. 32
  OBVIOUS
<1>3. \A a \in Full : a < n => a \in 0 .. 32
  BY DEF Full
<1>4. m \in 0 .. 34 /\ n \in 0 .. 34 /\ ~(m >= 33)
  OBVIOUS
<1>5. WaitedNext(r, m, n)
  BY <1>1, <1>3 DEF Waited, WaitedNext
<1>6. \/ Len(calls'[r]) = Len(calls[r]) /\ FreeNext(r, m, n)
      \/ Len(calls'[r]) = Len(calls[r]) + 1 /\ OnlyNext(r, m, n)
  BY <1>1, <1>2, Zenon DEF Free, Only, FreeNext, OnlyNext
<1> QED
  BY <1>4, <1>5, <1>6, GoesOn

(* Entering a collective, seen from the ranks. *)
LEMMA Entered ==
    ASSUME TypeOK, NEW r \in Ranks, NEW k \in Kinds, Enter(r, <<k>>)
    PROVE  Len(calls'[r]) = Len(calls[r]) + 1 /\ \A s \in Ranks : s # r => calls'[s] = calls[s]
BY EnterFacts DEF TypeOK

\* A barrier is one more collective.
LEMMA BarrierEntered ==
    ASSUME TypeOK, NEW r \in Ranks, EnterBarrier(r)
    PROVE  Len(calls'[r]) = Len(calls[r]) + 1 /\ \A s \in Ranks : s # r => calls'[s] = calls[s]
<1>1. "barrier" \in Kinds
  BY DEF Kinds
<1> QED
  BY <1>1, Entered DEF EnterBarrier

\* A step of one rank leaves the others in their phases.
LEMMA PlaceStays ==
    ASSUME PlaceInv, SameOptions, NEW r \in Ranks, OthersStay(r), late' = {}, PlaceOK(r)'
    PROVE  PlaceInv'
BY OthersFacts DEF PlaceInv

(* The steps that leave the phases' loop over the repetitions alone. *)
LEMMA OthersAre ==
    ASSUME TypeOK, NEW r \in Ranks, NEW w, Go(r, w)
    PROVE  pc'[r] = w /\ \A s \in Ranks : s # r => pc'[s] = pc[s]
BY DEF Go, TypeOK

\* StampKnown moves one rank on, to a place where it is asked for.
LEMMA StampKnownMoves ==
    ASSUME TypeOK, TypeOK', PlaceInv, NEW r \in Ranks, StampKnown(r)
    PROVE  Moves(r) /\ PlaceInv'
<1>1. /\ SameOptions /\ late' = late /\ rep' = rep /\ access' = access
      /\ errorFound' = errorFound
  BY DEF StampKnown, Takes, Wanted, fixed, loop, naming, sizes, open, phase, checks, SameOptions
<1>2. calls' = calls
  BY DEF StampKnown, Takes, Wanted
<1>3. pc[r] = "stampWait" /\ pc'[r] = "write" /\ \A s \in Ranks : s # r => pc'[s] = pc[s]
  BY OthersAre DEF StampKnown, Takes, Wanted
<1>4. OthersStay(r) /\ Round(r)' = Round(r) /\ PlaceOK(r)
  BY <1>1, <1>2, <1>3 DEF OthersStay, Round, PlaceInv
<1>5. Pos(r) = 1 /\ Pos(r)' = 2
  BY <1>3, Places, NextPlaces DEF PlacesKnown
<1>6. Free(1, 2)
  BY DEF Free, Active, Reads
<1>7. Waited(r, 1, 2)
  BY DEF Waited, Full, Active, Reads
<1>8. Moves(r)
  BY <1>1, <1>2, <1>4, <1>5, <1>6, <1>7, Goes
<1>9. PlaceOK(r)'
  BY <1>1, <1>3, <1>4 DEF PlaceOK, Inner, Checking, Reads, Exec, SameOptions
<1> QED
  BY <1>1, <1>4, <1>8, <1>9, PlaceStays DEF PlaceInv

\* BeginWrite moves one rank on, to a place where it is asked for.
LEMMA BeginWriteMoves ==
    ASSUME TypeOK, TypeOK', PlaceInv, NEW r \in Ranks, BeginWrite(r)
    PROVE  Moves(r) /\ PlaceInv'
<1>1. /\ SameOptions /\ late' = late /\ rep' = rep /\ access' = access
      /\ errorFound' = errorFound
  BY DEF BeginWrite, Takes, Wanted, fixed, loop, naming, sizes, open, phase, checks, SameOptions
<1>2. Len(calls'[r]) = Len(calls[r]) + 1 /\ \A s \in Ranks : s # r => calls'[s] = calls[s]
  BY BarrierEntered DEF BeginWrite, Takes, Wanted
<1>3. pc[r] = "write" /\ pc'[r] = "writeWait" /\ \A s \in Ranks : s # r => pc'[s] = pc[s]
  BY OthersAre DEF BeginWrite, Takes, Wanted
<1>4. OthersStay(r) /\ Round(r)' = Round(r) /\ PlaceOK(r)
  BY <1>1, <1>2, <1>3 DEF OthersStay, Round, PlaceInv
<1>5. Pos(r) = 2 /\ Pos(r)' = 3
  BY <1>3, Places, NextPlaces DEF PlacesKnown
<1>w. Exec.write
  BY <1>3, <1>4 DEF BeginWrite, Takes, Wanted
<1>6. Only(2, 3)
  BY <1>w DEF Only, Active, Reads
<1>7. Waited(r, 2, 3)
  BY <1>w DEF Waited, Full, Active, Reads
<1>8. Moves(r)
  BY <1>1, <1>2, <1>4, <1>5, <1>6, <1>7, Goes
<1>9. PlaceOK(r)'
  BY <1>1, <1>3, <1>4, <1>w DEF PlaceOK, Inner, Checking, Reads, Exec, SameOptions
<1> QED
  BY <1>1, <1>4, <1>8, <1>9, PlaceStays DEF PlaceInv

\* BeginCheck moves one rank on, to a place where it is asked for.
LEMMA BeginCheckMoves ==
    ASSUME TypeOK, TypeOK', PlaceInv, NEW r \in Ranks, BeginCheck(r)
    PROVE  Moves(r) /\ PlaceInv'
<1>1. /\ SameOptions /\ late' = late /\ rep' = rep /\ access' = access
      /\ errorFound' = errorFound
  BY DEF BeginCheck, Takes, Wanted, fixed, loop, naming, sizes, open, phase, checks, SameOptions
<1>2. Len(calls'[r]) = Len(calls[r]) + 1 /\ \A s \in Ranks : s # r => calls'[s] = calls[s]
  BY BarrierEntered DEF BeginCheck, Takes, Wanted
<1>3. pc[r] = "check" /\ pc'[r] = "checkWait" /\ \A s \in Ranks : s # r => pc'[s] = pc[s]
  BY OthersAre DEF BeginCheck, Takes, Wanted
<1>4. OthersStay(r) /\ Round(r)' = Round(r) /\ PlaceOK(r)
  BY <1>1, <1>2, <1>3 DEF OthersStay, Round, PlaceInv
<1>5. Pos(r) = 12 /\ Pos(r)' = 13
  BY <1>3, Places, NextPlaces DEF PlacesKnown
<1>w. Exec.checkWrite
  BY <1>3, <1>4 DEF BeginCheck, Takes, Wanted
<1>6. Only(12, 13)
  BY <1>w DEF Only, Active, Reads
<1>7. Waited(r, 12, 13)
  BY <1>w DEF Waited, Full, Active, Reads
<1>8. Moves(r)
  BY <1>1, <1>2, <1>4, <1>5, <1>6, <1>7, Goes
<1>9. PlaceOK(r)'
  BY <1>1, <1>3, <1>4, <1>w DEF PlaceOK, Inner, Checking, Reads, Exec, SameOptions
<1> QED
  BY <1>1, <1>4, <1>8, <1>9, PlaceStays DEF PlaceInv

\* StatusKnown moves one rank on, to a place where it is asked for.
LEMMA StatusKnownMoves ==
    ASSUME TypeOK, TypeOK', PlaceInv, NEW r \in Ranks, StatusKnown(r)
    PROVE  Moves(r) /\ PlaceInv'
<1>1. /\ SameOptions /\ late' = late /\ rep' = rep /\ access' = access
      /\ errorFound' = errorFound
  BY DEF StatusKnown, Takes, Wanted, fixed, loop, naming, sizes, open, phase, checks, SameOptions
<1>2. calls' = calls
  BY DEF StatusKnown, Takes, Wanted
<1>3. pc[r] = "statusWait" /\ pc'[r] = "reorder" /\ \A s \in Ranks : s # r => pc'[s] = pc[s]
  BY OthersAre DEF StatusKnown, Takes, Wanted
<1>4. OthersStay(r) /\ Round(r)' = Round(r) /\ PlaceOK(r)
  BY <1>1, <1>2, <1>3 DEF OthersStay, Round, PlaceInv
<1>5. Pos(r) = 21 /\ Pos(r)' = 22
  BY <1>3, Places, NextPlaces DEF PlacesKnown
<1>6. Free(21, 22)
  BY DEF Free, Active, Reads
<1>7. Waited(r, 21, 22)
  BY DEF Waited, Full, Active, Reads
<1>8. Moves(r)
  BY <1>1, <1>2, <1>4, <1>5, <1>6, <1>7, Goes
<1>9. PlaceOK(r)'
  BY <1>1, <1>3, <1>4 DEF PlaceOK, Inner, Checking, Reads, Exec, SameOptions
<1> QED
  BY <1>1, <1>4, <1>8, <1>9, PlaceStays DEF PlaceInv

\* Reorder moves one rank on, to a place where it is asked for.
LEMMA ReorderMoves ==
    ASSUME TypeOK, TypeOK', PlaceInv, NEW r \in Ranks, Reorder(r)
    PROVE  Moves(r) /\ PlaceInv'
<1>1. /\ SameOptions /\ late' = late /\ rep' = rep /\ access' = access
      /\ errorFound' = errorFound
  BY DEF Reorder, Takes, Wanted, fixed, loop, naming, sizes, open, phase, checks, SameOptions
<1>2. Len(calls'[r]) = Len(calls[r]) + 1 /\ \A s \in Ranks : s # r => calls'[s] = calls[s]
  BY BarrierEntered DEF Reorder, Takes, Wanted
<1>3. pc[r] = "reorder" /\ pc'[r] = "readWait" /\ \A s \in Ranks : s # r => pc'[s] = pc[s]
  BY OthersAre DEF Reorder, Takes, Wanted
<1>4. OthersStay(r) /\ Round(r)' = Round(r) /\ PlaceOK(r)
  BY <1>1, <1>2, <1>3 DEF OthersStay, Round, PlaceInv
<1>5. Pos(r) = 22 /\ Pos(r)' = 23
  BY <1>3, Places, NextPlaces DEF PlacesKnown
<1>w. Reads(Exec)
  BY <1>3, <1>4 DEF PlaceOK
<1>6. Only(22, 23)
  BY <1>w DEF Only, Active, Reads
<1>7. Waited(r, 22, 23)
  BY <1>w DEF Waited, Full, Active, Reads
<1>8. Moves(r)
  BY <1>1, <1>2, <1>4, <1>5, <1>6, <1>7, Goes
<1>9. PlaceOK(r)'
  BY <1>1, <1>3, <1>4, <1>w DEF PlaceOK, Inner, Checking, Reads, Exec, SameOptions
<1> QED
  BY <1>1, <1>4, <1>8, <1>9, PlaceStays DEF PlaceInv

\* OpenDone moves one rank on, to a place where it is asked for.
LEMMA OpenDoneMoves ==
    ASSUME TypeOK, TypeOK', PlaceInv, NEW r \in Ranks, OpenDone(r)
    PROVE  Moves(r) /\ PlaceInv'
<1>1. /\ SameOptions /\ late' = late /\ rep' = rep /\ access' = access
      /\ errorFound' = errorFound
  BY DEF OpenDone, Passes, fixed, loop, naming, sizes, open, phase, checks, SameOptions
<1>2. calls' = calls
  BY DEF OpenDone, Passes, Enter, TypeOK
<1>3. pc[r] = "openWait" /\ pc'[r] = "access" /\ \A s \in Ranks : s # r => pc'[s] = pc[s]
  BY OthersAre DEF OpenDone, Passes
<1>4. OthersStay(r) /\ Round(r)' = Round(r) /\ PlaceOK(r)
  BY <1>1, <1>2, <1>3 DEF OthersStay, Round, PlaceInv
<1>5. access[r] = "write" \/ access[r] = "read"
  BY <1>3, <1>4, Places DEF PlacesKnown, PlaceOK
<1>6. Moves(r)
  <2>1. CASE access[r] = "write"
    <3>1. Pos(r) = 4 /\ Pos(r)' = 5
      BY <1>1, <1>2, <1>3, <2>1, Places, NextPlaces DEF PlacesKnown
    <3>w. Exec.write /\ opt.barriers
      BY <1>3, <1>4, <2>1 DEF PlaceOK, Inner
    <3>2. Free(4, 5)
      BY <3>w DEF Free, Active, Reads, Checking
    <3>3. Waited(r, 4, 5)
      BY <3>w DEF Waited, Full, Active, Reads, OpenDone, Passes
    <3> QED
      BY <1>1, <1>2, <1>4, <3>1, <3>2, <3>3, Goes
  <2>2. CASE access[r] = "read"
    <3>1. Pos(r) = 24 /\ Pos(r)' = 25
      BY <1>1, <1>2, <1>3, <2>2, Places, NextPlaces DEF PlacesKnown
    <3>w. Reads(Exec) /\ opt.barriers
      BY <1>3, <1>4, <2>2 DEF PlaceOK, Inner
    <3>2. Free(24, 25)
      BY <3>w DEF Free, Active, Reads, Checking
    <3>3. Waited(r, 24, 25)
      BY <3>w DEF Waited, Full, Active, Reads, OpenDone, Passes
    <3> QED
      BY <1>1, <1>2, <1>4, <3>1, <3>2, <3>3, Goes
  <2> QED
    BY <1>5, <2>1, <2>2
<1>7. PlaceOK(r)'
  BY <1>1, <1>3, <1>4, <1>5 DEF PlaceOK, Inner, Checking, Reads, Exec, SameOptions
<1> QED
  BY <1>1, <1>4, <1>6, <1>7, PlaceStays DEF PlaceInv

\* AccessDone moves one rank on, to a place where it is asked for.
LEMMA AccessDoneMoves ==
    ASSUME TypeOK, TypeOK', PlaceInv, NEW r \in Ranks, AccessDone(r)
    PROVE  Moves(r) /\ PlaceInv'
<1>1. /\ SameOptions /\ late' = late /\ rep' = rep /\ access' = access
      /\ errorFound' = errorFound
  BY DEF AccessDone, fixed, loop, naming, sizes, open, phase, checks, SameOptions
<1>2. Len(calls'[r]) = Len(calls[r]) + 1 /\ \A s \in Ranks : s # r => calls'[s] = calls[s]
  BY BarrierEntered DEF AccessDone
<1>3. pc[r] = "returned" /\ pc'[r] = "closeWait" /\ \A s \in Ranks : s # r => pc'[s] = pc[s]
  BY OthersAre DEF AccessDone
<1>4. OthersStay(r) /\ Round(r)' = Round(r) /\ PlaceOK(r)
  BY <1>1, <1>2, <1>3 DEF OthersStay, Round, PlaceInv
<1>5. access[r] = "write" \/ access[r] = "read"
  BY <1>3, <1>4, Places DEF PlacesKnown, PlaceOK, AccessDone
<1>6. Moves(r)
  <2>1. CASE access[r] = "write"
    <3>1. Pos(r) = 7 /\ Pos(r)' = 8
      BY <1>1, <1>2, <1>3, <2>1, Places, NextPlaces DEF PlacesKnown
    <3>w. Exec.write /\ opt.barriers
      BY <1>3, <1>4, <2>1 DEF PlaceOK, Inner, AccessDone
    <3>2. Only(7, 8)
      BY <3>w DEF Only, Active, Reads, Checking
    <3>3. Waited(r, 7, 8)
      BY <3>w DEF Waited, Full, Active, Reads
    <3> QED
      BY <1>1, <1>2, <1>4, <3>1, <3>2, <3>3, Goes
  <2>2. CASE access[r] = "read"
    <3>1. Pos(r) = 27 /\ Pos(r)' = 28
      BY <1>1, <1>2, <1>3, <2>2, Places, NextPlaces DEF PlacesKnown
    <3>w. Reads(Exec) /\ opt.barriers
      BY <1>3, <1>4, <2>2 DEF PlaceOK, Inner, AccessDone
    <3>2. Only(27, 28)
      BY <3>w DEF Only, Active, Reads, Checking
    <3>3. Waited(r, 27, 28)
      BY <3>w DEF Waited, Full, Active, Reads
    <3> QED
      BY <1>1, <1>2, <1>4, <3>1, <3>2, <3>3, Goes
  <2> QED
    BY <1>5, <2>1, <2>2
<1>7. PlaceOK(r)'
  BY <1>1, <1>3, <1>4, <1>5 DEF PlaceOK, Inner, Checking, Reads, Exec, SameOptions, AccessDone
<1> QED
  BY <1>1, <1>4, <1>6, <1>7, PlaceStays DEF PlaceInv

\* Closed moves one rank on, to a place where it is asked for.
LEMMA ClosedMoves ==
    ASSUME TypeOK, TypeOK', PlaceInv, NEW r \in Ranks, Closed(r)
    PROVE  Moves(r) /\ PlaceInv'
<1>1. /\ SameOptions /\ late' = late /\ rep' = rep /\ access' = access
      /\ errorFound' = errorFound
  BY DEF Closed, Passes, fixed, loop, naming, sizes, open, phase, checks, SameOptions
<1>2. Len(calls'[r]) = Len(calls[r]) + 1 /\ \A s \in Ranks : s # r => calls'[s] = calls[s]
  BY Entered DEF Closed, Passes, Kinds
<1>3. pc[r] = "closed" /\ pc'[r] = "sizeWait" /\ \A s \in Ranks : s # r => pc'[s] = pc[s]
  BY OthersAre DEF Closed, Passes
<1>4. OthersStay(r) /\ Round(r)' = Round(r) /\ PlaceOK(r)
  BY <1>1, <1>2, <1>3 DEF OthersStay, Round, PlaceInv
<1>5. access[r] = "write"
  BY <1>3, <1>4, Places DEF PlacesKnown, PlaceOK
<1>6. Moves(r)
  <2>1. CASE access[r] = "write"
    <3>1. Pos(r) = 9 /\ Pos(r)' = 10
      BY <1>1, <1>2, <1>3, <2>1, Places, NextPlaces DEF PlacesKnown
    <3>w. Exec.write
      BY <1>3, <1>4, <2>1 DEF PlaceOK, Inner
    <3>2. Only(9, 10)
      BY <3>w DEF Only, Active, Reads, Checking
    <3>3. Waited(r, 9, 10)
      BY <3>w DEF Waited, Full, Active, Reads, Closed, Passes
    <3> QED
      BY <1>1, <1>2, <1>4, <3>1, <3>2, <3>3, Goes
  <2> QED
    BY <1>5, <2>1
<1>7. PlaceOK(r)'
  BY <1>1, <1>3, <1>4, <1>5 DEF PlaceOK, Inner, Checking, Reads, Exec, SameOptions
<1> QED
  BY <1>1, <1>4, <1>6, <1>7, PlaceStays DEF PlaceInv

\* SizeKnown moves one rank on, to a place where it is asked for.
LEMMA SizeKnownMoves ==
    ASSUME TypeOK, TypeOK', PlaceInv, NEW r \in Ranks, SizeKnown(r)
    PROVE  Moves(r) /\ PlaceInv'
<1>1. /\ SameOptions /\ late' = late /\ rep' = rep /\ access' = access
      /\ errorFound' = errorFound
  BY DEF SizeKnown, Passes, fixed, loop, naming, sizes, open, phase, checks, SameOptions
<1>2. Len(calls'[r]) = Len(calls[r]) + 1 /\ \A s \in Ranks : s # r => calls'[s] = calls[s]
  BY Entered DEF SizeKnown, Passes, Kinds
<1>3. pc[r] = "sizeWait" /\ pc'[r] = "report" /\ \A s \in Ranks : s # r => pc'[s] = pc[s]
  BY OthersAre DEF SizeKnown, Passes
<1>4. OthersStay(r) /\ Round(r)' = Round(r) /\ PlaceOK(r)
  BY <1>1, <1>2, <1>3 DEF OthersStay, Round, PlaceInv
<1>5. access[r] = "write" \/ access[r] = "read"
  BY <1>3, <1>4, Places DEF PlacesKnown, PlaceOK
<1>6. Moves(r)
  <2>1. CASE access[r] = "write"
    <3>1. Pos(r) = 10 /\ Pos(r)' = 11
      BY <1>1, <1>2, <1>3, <2>1, Places, NextPlaces DEF PlacesKnown
    <3>w. Exec.write
      BY <1>3, <1>4, <2>1 DEF PlaceOK, Inner
    <3>2. Only(10, 11)
      BY <3>w DEF Only, Active, Reads, Checking
    <3>3. Waited(r, 10, 11)
      BY <3>w DEF Waited, Full, Active, Reads, SizeKnown, Passes
    <3> QED
      BY <1>1, <1>2, <1>4, <3>1, <3>2, <3>3, Goes
  <2>2. CASE access[r] = "read"
    <3>1. Pos(r) = 30 /\ Pos(r)' = 31
      BY <1>1, <1>2, <1>3, <2>2, Places, NextPlaces DEF PlacesKnown
    <3>w. Reads(Exec)
      BY <1>3, <1>4, <2>2 DEF PlaceOK, Inner
    <3>2. Only(30, 31)
      BY <3>w DEF Only, Active, Reads, Checking
    <3>3. Waited(r, 30, 31)
      BY <3>w DEF Waited, Full, Active, Reads, SizeKnown, Passes
    <3> QED
      BY <1>1, <1>2, <1>4, <3>1, <3>2, <3>3, Goes
  <2> QED
    BY <1>5, <2>1, <2>2
<1>7. PlaceOK(r)'
  BY <1>1, <1>3, <1>4, <1>5 DEF PlaceOK, Inner, Checking, Reads, Exec, SameOptions
<1> QED
  BY <1>1, <1>4, <1>6, <1>7, PlaceStays DEF PlaceInv

\* StartRep moves one rank on, to a place where it is asked for.
LEMMA StartRepMoves ==
    ASSUME TypeOK, TypeOK', PlaceInv, NEW r \in Ranks, StartRep(r)
    PROVE  Moves(r) /\ PlaceInv'
<1>1. /\ SameOptions /\ late' = late /\ rep' = rep /\ access' = access
      /\ errorFound' = errorFound
  BY DEF StartRep, fixed, loop, naming, sizes, open, phase, checks, SameOptions
<1>2. Len(calls'[r]) = Len(calls[r]) + 1 /\ \A s \in Ranks : s # r => calls'[s] = calls[s]
  BY Entered DEF StartRep, Kinds
<1>3. /\ pc[r] = "start" /\ \A s \in Ranks : s # r => pc'[s] = pc[s]
      /\ (r = 0 /\ pc'[r] = "write") \/ (r # 0 /\ pc'[r] = "stampWait")
  BY OthersAre DEF StartRep
<1>4. OthersStay(r) /\ Round(r)' = Round(r) /\ PlaceOK(r)
  BY <1>1, <1>2, <1>3 DEF OthersStay, Round, PlaceInv
<1>5. Pos(r) = 0 /\ (Pos(r)' = 1 \/ Pos(r)' = 2)
  BY <1>3, Places, NextPlaces DEF PlacesKnown
<1>6. Only(0, 1) /\ Only(0, 2)
  BY DEF Only, Active
<1>7. Waited(r, 0, 1) /\ Waited(r, 0, 2)
  BY DEF Waited, Full
<1>8. Moves(r)
  BY <1>1, <1>2, <1>4, <1>5, <1>6, <1>7, Goes
<1>9. PlaceOK(r)'
  BY <1>1, <1>3, <1>4 DEF PlaceOK, Inner, Checking, Reads, Exec, SameOptions
<1> QED
  BY <1>1, <1>4, <1>8, <1>9, PlaceStays DEF PlaceInv

\* Skip moves one rank on, to a place where it is asked for.
LEMMA SkipMoves ==
    ASSUME TypeOK, TypeOK', PlaceInv, ~opt.timeLimit, NEW r \in Ranks, Skip(r)
    PROVE  Moves(r) /\ PlaceInv'
<1>1. /\ SameOptions /\ late' = late /\ rep' = rep /\ access' = access
      /\ errorFound' = errorFound /\ calls' = calls
  BY DEF Skip, fixed, loop, naming, sizes, open, phase, checks, SameOptions
<1>2. ~Wanted(pc[r])
  BY DEF Skip
<1>3. /\ \A s \in Ranks : s # r => pc'[s] = pc[s]
      /\ \/ pc[r] = "write" /\ pc'[r] = "check"
         \/ pc[r] = "check" /\ pc'[r] = "read"
         \/ pc[r] = "read" /\ pc'[r] = "remove"
  BY OthersAre DEF Skip
<1>4. OthersStay(r) /\ Round(r)' = Round(r) /\ PlaceOK(r)
  BY <1>1, <1>3 DEF OthersStay, Round, PlaceInv
<1>5. Moves(r)
  <2>1. CASE pc[r] = "write"
    <3>1. Pos(r) = 2 /\ Pos(r)' = 12
      BY <1>3, <2>1, Places, NextPlaces DEF PlacesKnown
    <3>2. ~Exec.write
      BY <1>2, <2>1 DEF Wanted
    <3>3. Free(2, 12) /\ Waited(r, 2, 12)
      BY <3>2 DEF Free, Waited, Active, Full
    <3> QED
      BY <1>1, <1>4, <3>1, <3>3, Goes
  <2>2. CASE pc[r] = "check"
    <3>1. Pos(r) = 12 /\ Pos(r)' = 20
      BY <1>3, <2>2, Places, NextPlaces DEF PlacesKnown
    <3>2. ~Exec.checkWrite
      BY <1>2, <2>2 DEF Wanted
    <3>3. Free(12, 20) /\ Waited(r, 12, 20)
      BY <3>2 DEF Free, Waited, Active, Full
    <3> QED
      BY <1>1, <1>4, <3>1, <3>3, Goes
  <2>3. CASE pc[r] = "read"
    <3>1. Pos(r) = 20 /\ Pos(r)' = 32
      BY <1>3, <2>3, Places, NextPlaces DEF PlacesKnown
    <3>2. ~Reads(Exec)
      BY <1>2, <2>3 DEF Wanted
    <3>3. Free(20, 32) /\ Waited(r, 20, 32)
      BY <3>2 DEF Free, Waited, Active, Full
    <3> QED
      BY <1>1, <1>4, <3>1, <3>3, Goes
  <2> QED
    BY <1>3, <2>1, <2>2, <2>3
<1>6. PlaceOK(r)'
  BY <1>1, <1>3, <1>4 DEF PlaceOK, Inner, Checking, Reads, Exec, SameOptions
<1> QED
  BY <1>1, <1>4, <1>5, <1>6, PlaceStays DEF PlaceInv

\* BeginRead moves one rank on, to a place where it is asked for.
LEMMA BeginReadMoves ==
    ASSUME TypeOK, TypeOK', PlaceInv, NEW r \in Ranks, BeginRead(r)
    PROVE  Moves(r) /\ PlaceInv'
<1>1. /\ SameOptions /\ late' = late /\ rep' = rep /\ access' = access
      /\ errorFound' = errorFound
  BY DEF BeginRead, Takes, fixed, loop, naming, sizes, open, phase, checks, SameOptions
<1>2. pc[r] = "read" /\ Reads(Exec)
  BY DEF BeginRead, Takes, Wanted
<1>3. \/ ~Exec.status /\ Go(r, "reorder") /\ calls' = calls
      \/ Exec.status /\ Enter(r, <<"bcast">>)
         /\ ((r = 0 /\ Go(r, "reorder")) \/ (r # 0 /\ Go(r, "statusWait")))
  BY DEF BeginRead
<1>4. /\ \A s \in Ranks : s # r => calls'[s] = calls[s] /\ pc'[s] = pc[s]
      /\ \/ ~Exec.status /\ pc'[r] = "reorder" /\ Len(calls'[r]) = Len(calls[r])
         \/ /\ Exec.status /\ Len(calls'[r]) = Len(calls[r]) + 1
            /\ pc'[r] = "reorder" \/ (r # 0 /\ pc'[r] = "statusWait")
  <2>1. "bcast" \in Kinds
    BY DEF Kinds
  <2> QED
    BY <1>3, <2>1, Entered, OthersAre
<1>5. OthersStay(r) /\ Round(r)' = Round(r) /\ PlaceOK(r)
  BY <1>1, <1>2, <1>4 DEF OthersStay, Round, PlaceInv
<1>6. /\ Pos(r) = 20
      /\ pc'[r] = "reorder" => Pos(r)' = 22
      /\ pc'[r] = "statusWait" => Pos(r)' = 21
  BY <1>2, Places, NextPlaces DEF PlacesKnown
<1>7. /\ Waited(r, 20, 21) /\ Waited(r, 20, 22)
      /\ Exec.status => Only(20, 21) /\ Only(20, 22)
      /\ ~Exec.status => Free(20, 22)
  BY <1>2 DEF Waited, Full, Active, Only, Free
<1>8. Moves(r)
  <2>1. /\ 20 \in 0 .. 32 /\ 21 \in 0 .. 32 /\ 22 \in 0 .. 32
        /\ 20 <= 21 /\ 20 <= 22
    OBVIOUS
  <2>2. CASE ~Exec.status
    BY <1>1, <1>4, <1>5, <1>6, <1>7, <2>1, <2>2, Goes, Zenon
  <2>3. CASE Exec.status /\ pc'[r] = "reorder"
    BY <1>1, <1>4, <1>5, <1>6, <1>7, <2>1, <2>3, Goes, Zenon
  <2>4. CASE Exec.status /\ pc'[r] = "statusWait"
    BY <1>1, <1>4, <1>5, <1>6, <1>7, <2>1, <2>4, Goes, Zenon
  <2> QED
    BY <1>4, <2>2, <2>3, <2>4
<1>9. PlaceOK(r)'
  BY <1>1, <1>2, <1>4, <1>5 DEF PlaceOK, Inner, Checking, Reads, Exec, SameOptions
<1> QED
  BY <1>1, <1>5, <1>8, <1>9, PlaceStays DEF PlaceInv

(* Opening a file takes a rank to the access, or to the barrier before it. *)
LEMMA OpenedPlaces ==
    ASSUME TypeOK, NEW r \in Ranks, NEW a \in {"write", "check", "read"}, NEW n, Opened(r, a, n)
    PROVE  /\ access'[r] = a
           /\ \A s \in Ranks : s # r => /\ calls'[s] = calls[s] /\ pc'[s] = pc[s]
                                        /\ access'[s] = access[s]
           /\ \/ /\ opt.barriers /\ a # "check" /\ pc'[r] = "openWait"
                 /\ Len(calls'[r]) = Len(calls[r]) + 1
              \/ /\ ~(opt.barriers /\ a # "check") /\ pc'[r] = "access"
                 /\ Len(calls'[r]) = Len(calls[r])
<1>1. access'[r] = a /\ \A s \in Ranks : s # r => access'[s] = access[s]
  <2>1. access \in [Ranks -> {"write", "check", "read"}]
    BY DEF TypeOK
  <2> QED
    BY <2>1 DEF Opened
<1>2. CASE opt.barriers /\ a # "check"
  <2>1. EnterBarrier(r) /\ Go(r, "openWait")
    BY <1>2 DEF Opened
  <2> QED
    BY <1>1, <1>2, <2>1, BarrierEntered, OthersAre
<1>3. CASE ~(opt.barriers /\ a # "check")
  <2>1. Go(r, "access") /\ calls' = calls
    BY <1>3 DEF Opened
  <2> QED
    BY <1>1, <1>3, <2>1, OthersAre
<1> QED
  BY <1>2, <1>3

\* Create moves one rank on, to a place where it is asked for.
LEMMA CreateMoves ==
    ASSUME TypeOK, TypeOK', PlaceInv, NEW r \in Ranks, Create(r)
    PROVE  Moves(r) /\ PlaceInv'
<1>1. /\ SameOptions /\ late' = late /\ rep' = rep /\ errorFound' = errorFound
      /\ pc[r] = "writeWait" /\ AllArrived(r)
  BY DEF Create, fixed, loop, SameOptions
<1>2. /\ access'[r] = "write"
      /\ \A s \in Ranks : s # r => /\ calls'[s] = calls[s] /\ pc'[s] = pc[s]
                                   /\ access'[s] = access[s]
      /\ \/ opt.barriers /\ pc'[r] = "openWait" /\ Len(calls'[r]) = Len(calls[r]) + 1
         \/ ~opt.barriers /\ pc'[r] = "access" /\ Len(calls'[r]) = Len(calls[r])
  BY OpenedPlaces DEF Create
<1>3. OthersStay(r) /\ Round(r)' = Round(r) /\ PlaceOK(r) /\ Exec.write
  BY <1>1, <1>2 DEF OthersStay, Round, PlaceInv, PlaceOK
<1>4. /\ Pos(r) = 3
      /\ pc'[r] = "openWait" => Pos(r)' = 4
      /\ pc'[r] = "access" => Pos(r)' = 5
  BY <1>1, <1>2, Places, NextPlaces DEF PlacesKnown
<1>5. opt.barriers => Only(3, 4) /\ Waited(r, 3, 4)
  BY <1>1, <1>3 DEF Only, Waited, Full, Active
<1>6. ~opt.barriers => Free(3, 5) /\ Waited(r, 3, 5)
  BY <1>1, <1>3 DEF Free, Waited, Full, Active
<1>7. Moves(r)
  <2>1. /\ 3 \in 0 .. 32 /\ 4 \in 0 .. 32 /\ 5 \in 0 .. 32
        /\ 3 <= 4 /\ 3 <= 5
    OBVIOUS
  <2>2. CASE opt.barriers
    BY <1>1, <1>2, <1>3, <1>4, <1>5, <2>1, <2>2, Goes, Zenon
  <2>3. CASE ~opt.barriers
    BY <1>1, <1>2, <1>3, <1>4, <1>6, <2>1, <2>3, Goes, Zenon
  <2> QED
    BY <2>2, <2>3
<1>8. PlaceOK(r)'
  BY <1>1, <1>2, <1>3 DEF PlaceOK, Inner, Checking, Reads, Exec, SameOptions
<1> QED
  BY <1>1, <1>3, <1>7, <1>8, PlaceStays DEF PlaceInv

\* OpenCheck moves one rank on, to a place where it is asked for.
LEMMA OpenCheckMoves ==
    ASSUME TypeOK, TypeOK', PlaceInv, NEW r \in Ranks, OpenCheck(r)
    PROVE  Moves(r) /\ PlaceInv'
<1>1. /\ SameOptions /\ late' = late /\ rep' = rep /\ errorFound' = errorFound
      /\ pc[r] = "checkWait" /\ AllArrived(r)
  BY DEF OpenCheck, fixed, loop, SameOptions
<1>2. /\ access'[r] = "check"
      /\ \A s \in Ranks : s # r => /\ calls'[s] = calls[s] /\ pc'[s] = pc[s]
                                   /\ access'[s] = access[s]
      /\ pc'[r] = "access" /\ Len(calls'[r]) = Len(calls[r])
  BY OpenedPlaces DEF OpenCheck
<1>3. OthersStay(r) /\ Round(r)' = Round(r) /\ PlaceOK(r) /\ Exec.checkWrite
  BY <1>1, <1>2 DEF OthersStay, Round, PlaceInv, PlaceOK
<1>4. Pos(r) = 13 /\ Pos(r)' = 15
  BY <1>1, <1>2, Places, NextPlaces DEF PlacesKnown
<1>5. Free(13, 15) /\ Waited(r, 13, 15)
  BY <1>1, <1>3 DEF Free, Waited, Full, Active
<1>6. Moves(r)
  BY <1>1, <1>2, <1>3, <1>4, <1>5, Goes
<1>7. PlaceOK(r)'
  BY <1>1, <1>2, <1>3 DEF PlaceOK, Inner, Checking, Reads, Exec, SameOptions
<1> QED
  BY <1>1, <1>3, <1>6, <1>7, PlaceStays DEF PlaceInv

\* OpenRead moves one rank on, to a place where it is asked for.
LEMMA OpenReadMoves ==
    ASSUME TypeOK, TypeOK', PlaceInv, NEW r \in Ranks, OpenRead(r)
    PROVE  Moves(r) /\ PlaceInv'
<1>1. /\ SameOptions /\ late' = late /\ rep' = rep /\ errorFound' = errorFound
      /\ pc[r] = "readWait" /\ AllArrived(r)
  BY DEF OpenRead, fixed, loop, SameOptions
<1>2. /\ access'[r] = "read"
      /\ \A s \in Ranks : s # r => /\ calls'[s] = calls[s] /\ pc'[s] = pc[s]
                                   /\ access'[s] = access[s]
      /\ \/ opt.barriers /\ pc'[r] = "openWait" /\ Len(calls'[r]) = Len(calls[r]) + 1
         \/ ~opt.barriers /\ pc'[r] = "access" /\ Len(calls'[r]) = Len(calls[r])
  BY OpenedPlaces DEF OpenRead
<1>3. OthersStay(r) /\ Round(r)' = Round(r) /\ PlaceOK(r) /\ Reads(Exec)
  BY <1>1, <1>2 DEF OthersStay, Round, PlaceInv, PlaceOK
<1>4. /\ Pos(r) = 23
      /\ pc'[r] = "openWait" => Pos(r)' = 24
      /\ pc'[r] = "access" => Pos(r)' = 25
  BY <1>1, <1>2, Places, NextPlaces DEF PlacesKnown
<1>5. opt.barriers => Only(23, 24) /\ Waited(r, 23, 24)
  BY <1>1, <1>3 DEF Only, Waited, Full, Active
<1>6. ~opt.barriers => Free(23, 25) /\ Waited(r, 23, 25)
  BY <1>1, <1>3 DEF Free, Waited, Full, Active
<1>7. Moves(r)
  <2>1. /\ 23 \in 0 .. 32 /\ 24 \in 0 .. 32 /\ 25 \in 0 .. 32
        /\ 23 <= 24 /\ 23 <= 25
    OBVIOUS
  <2>2. CASE opt.barriers
    BY <1>1, <1>2, <1>3, <1>4, <1>5, <2>1, <2>2, Goes, Zenon
  <2>3. CASE ~opt.barriers
    BY <1>1, <1>2, <1>3, <1>4, <1>6, <2>1, <2>3, Goes, Zenon
  <2> QED
    BY <2>2, <2>3
<1>8. PlaceOK(r)'
  BY <1>1, <1>2, <1>3 DEF PlaceOK, Inner, Checking, Reads, Exec, SameOptions
<1> QED
  BY <1>1, <1>3, <1>7, <1>8, PlaceStays DEF PlaceInv

\* Transfer moves one rank on, to a place where it is asked for.
LEMMA TransferMoves ==
    ASSUME TypeOK, TypeOK', PlaceInv, NEW r \in Ranks, Transfer(r)
    PROVE  Moves(r) /\ PlaceInv'
<1>1. /\ SameOptions /\ late' = late /\ rep' = rep /\ access' = access
      /\ errorFound' = errorFound /\ calls' = calls /\ pc' = pc /\ pc[r] = "access"
  BY DEF Transfer, fixed, loop, open, SameOptions
<1>2. OthersStay(r) /\ Round(r)' = Round(r) /\ PlaceOK(r)
  BY <1>1 DEF OthersStay, Round, PlaceInv
<1>3. Pos(r)' = Pos(r)
  BY <1>1 DEF Pos
<1>4. Pos(r) \in {5, 15, 25}
  BY <1>1, Places DEF PlacesKnown
<1>5. Free(Pos(r), Pos(r)) /\ Waited(r, Pos(r), Pos(r))
  BY <1>4 DEF Free, Waited, Full
<1>6. Moves(r)
  BY <1>1, <1>2, <1>3, <1>4, <1>5, Goes
<1>7. PlaceOK(r)'
  BY <1>1, <1>2 DEF PlaceOK, Inner, Checking, Reads, Exec, SameOptions
<1> QED
  BY <1>1, <1>2, <1>6, <1>7, PlaceStays DEF PlaceInv

\* ShowTestEnd moves one rank on, to a place where it is asked for.
LEMMA ShowTestEndMoves ==
    ASSUME TypeOK, TypeOK', PlaceInv, NEW r \in Ranks, ShowTestEnd(r)
    PROVE  Moves(r) /\ PlaceInv'
<1>1. /\ SameOptions /\ late' = late /\ rep' = rep /\ access' = access
      /\ errorFound' = errorFound /\ calls' = calls
  BY DEF ShowTestEnd, loop, open, SameOptions
<1>2. pc[r] = "finish" /\ pc'[r] = "end" /\ \A s \in Ranks : s # r => pc'[s] = pc[s]
  BY OthersAre DEF ShowTestEnd
<1>3. OthersStay(r) /\ Round(r)' = Round(r) /\ PlaceOK(r)
  BY <1>1, <1>2 DEF OthersStay, Round, PlaceInv
<1>4. Pos(r) = 0 /\ Pos(r)' = 0
  BY <1>2, Places, NextPlaces DEF PlacesKnown
<1>5. Free(0, 0) /\ Waited(r, 0, 0)
  BY DEF Free, Waited, Full
<1>6. Moves(r)
  BY <1>1, <1>3, <1>4, <1>5, Goes
<1>7. PlaceOK(r)'
  BY <1>1, <1>2, <1>3 DEF PlaceOK, Inner, Checking, Reads, Exec, SameOptions, Repetitions
<1> QED
  BY <1>1, <1>3, <1>6, <1>7, PlaceStays DEF PlaceInv

\* Return moves one rank on, to a place where it is asked for.
LEMMA ReturnMoves ==
    ASSUME TypeOK, TypeOK', PlaceInv, NEW r \in Ranks, Return(r)
    PROVE  Moves(r) /\ PlaceInv'
<1>1. /\ SameOptions /\ late' = late /\ rep' = rep /\ access' = access
      /\ errorFound' = errorFound /\ pc[r] = "access"
  BY DEF Return, fixed, loop, open, SameOptions
<1>2. \/ Checking /\ Enter(r, <<"errors">>) /\ Go(r, "errorsWait")
      \/ ~Checking /\ Go(r, "returned") /\ calls' = calls
  BY DEF Return, Checking
<1>3. /\ \A s \in Ranks : s # r => calls'[s] = calls[s] /\ pc'[s] = pc[s]
      /\ \/ Checking /\ pc'[r] = "errorsWait" /\ Len(calls'[r]) = Len(calls[r]) + 1
         \/ ~Checking /\ pc'[r] = "returned" /\ Len(calls'[r]) = Len(calls[r])
  <2>1. "errors" \in Kinds
    BY DEF Kinds
  <2> QED
    BY <1>2, <2>1, Entered, OthersAre
<1>4. OthersStay(r) /\ Round(r)' = Round(r) /\ PlaceOK(r)
  BY <1>1, <1>3 DEF OthersStay, Round, PlaceInv
<1>5. access[r] = "write" \/ access[r] = "check" \/ access[r] = "read"
  BY Places DEF PlacesKnown
<1>6. Moves(r)
  <2>1. CASE access[r] = "write"
    <3>1. /\ Pos(r) = 5
          /\ pc'[r] = "errorsWait" => Pos(r)' = 6
          /\ pc'[r] = "returned" => Pos(r)' = 7
      BY <1>1, <2>1, Places, NextPlaces DEF PlacesKnown
    <3>2. Exec.write
      BY <1>1, <1>4, <2>1 DEF PlaceOK, Inner
    <3>3. Checking => Only(5, 6) /\ Waited(r, 5, 6)
      BY <3>2 DEF Only, Waited, Full, Active
    <3>4. ~Checking => Free(5, 7) /\ Waited(r, 5, 7)
      BY DEF Free, Waited, Full, Active
    <3> QED
      BY <1>1, <1>3, <1>4, <3>1, <3>3, <3>4, Goes
  <2>2. CASE access[r] = "check"
    <3>1. /\ Pos(r) = 15
          /\ pc'[r] = "errorsWait" => Pos(r)' = 16
          /\ pc'[r] = "returned" => Pos(r)' = 17
      BY <1>1, <2>2, Places, NextPlaces DEF PlacesKnown
    <3>2. Exec.checkWrite
      BY <1>1, <1>4, <2>2 DEF PlaceOK, Inner
    <3>3. Checking => Only(15, 16) /\ Waited(r, 15, 16)
      BY <3>2 DEF Only, Waited, Full, Active
    <3>4. Checking
      BY <3>2 DEF Checking
    <3> QED
      BY <1>1, <1>3, <1>4, <3>1, <3>3, <3>4, Goes
  <2>3. CASE access[r] = "read"
    <3>1. /\ Pos(r) = 25
          /\ pc'[r] = "errorsWait" => Pos(r)' = 26
          /\ pc'[r] = "returned" => Pos(r)' = 27
      BY <1>1, <2>3, Places, NextPlaces DEF PlacesKnown
    <3>2. Reads(Exec)
      BY <1>1, <1>4, <2>3 DEF PlaceOK, Inner
    <3>3. Checking => Only(25, 26) /\ Waited(r, 25, 26)
      BY <3>2 DEF Only, Waited, Full, Active
    <3>4. ~Checking => Free(25, 27) /\ Waited(r, 25, 27)
      BY DEF Free, Waited, Full, Active
    <3> QED
      BY <1>1, <1>3, <1>4, <3>1, <3>3, <3>4, Goes
  <2> QED
    BY <1>5, <2>1, <2>2, <2>3
<1>7. PlaceOK(r)'
  BY <1>1, <1>3, <1>4, <1>5 DEF PlaceOK, Inner, Checking, Reads, Exec, SameOptions
<1> QED
  BY <1>1, <1>4, <1>6, <1>7, PlaceStays DEF PlaceInv

\* ErrorsKnown moves one rank on, to a place where it is asked for.
LEMMA ErrorsKnownMoves ==
    ASSUME TypeOK, TypeOK', PlaceInv, NEW r \in Ranks, ErrorsKnown(r)
    PROVE  /\ Moves(r) /\ PlaceInv'
           /\ Pos(r) \in Sums /\ Active(Pos(r)) /\ Pos(r)' = Pos(r) + 1
<1>1. /\ SameOptions /\ late' = late /\ rep' = rep /\ access' = access
      /\ calls' = calls /\ AllArrived(r)
  BY DEF ErrorsKnown, fixed, open, SameOptions
<1>2. /\ pc[r] = "errorsWait" /\ pc'[r] = "returned" /\ \A s \in Ranks : s # r => pc'[s] = pc[s]
      /\ \A s \in Ranks : s # r => errorFound'[s] = errorFound[s]
  <2>1. \A s \in Ranks : s # r => errorFound'[s] = errorFound[s]
    BY DEF ErrorsKnown, TypeOK
  <2> QED
    BY <2>1, OthersAre DEF ErrorsKnown
<1>3. OthersStay(r) /\ Round(r)' = Round(r) /\ PlaceOK(r)
  BY <1>1, <1>2 DEF OthersStay, Round, PlaceInv
<1>4. access[r] = "write" \/ access[r] = "check" \/ access[r] = "read"
  BY Places DEF PlacesKnown
<1>5. Moves(r) /\ Pos(r) \in Sums /\ Active(Pos(r)) /\ Pos(r)' = Pos(r) + 1
  <2>1. CASE access[r] = "write"
    <3>1. Pos(r) = 6 /\ Pos(r)' = 7
      BY <1>1, <1>2, <2>1, Places, NextPlaces DEF PlacesKnown
    <3>2. Exec.write /\ Checking
      BY <1>2, <1>3, <2>1 DEF PlaceOK, Inner
    <3>3. Free(6, 7) /\ Waited(r, 6, 7) /\ Active(6) /\ 6 \in Sums
      BY <1>1, <3>2 DEF Free, Waited, Full, Active, Sums
    <3> QED
      BY <1>1, <1>3, <3>1, <3>3, Goes
  <2>2. CASE access[r] = "check"
    <3>1. Pos(r) = 16 /\ Pos(r)' = 17
      BY <1>1, <1>2, <2>2, Places, NextPlaces DEF PlacesKnown
    <3>2. Exec.checkWrite
      BY <1>2, <1>3, <2>2 DEF PlaceOK, Inner
    <3>3. Free(16, 17) /\ Waited(r, 16, 17) /\ Active(16) /\ 16 \in Sums
      BY <1>1, <3>2 DEF Free, Waited, Full, Active, Sums
    <3> QED
      BY <1>1, <1>3, <3>1, <3>3, Goes
  <2>3. CASE access[r] = "read"
    <3>1. Pos(r) = 26 /\ Pos(r)' = 27
      BY <1>1, <1>2, <2>3, Places, NextPlaces DEF PlacesKnown
    <3>2. Reads(Exec) /\ Checking
      BY <1>2, <1>3, <2>3 DEF PlaceOK, Inner
    <3>3. Free(26, 27) /\ Waited(r, 26, 27) /\ Active(26) /\ 26 \in Sums
      BY <1>1, <3>2 DEF Free, Waited, Full, Active, Sums
    <3> QED
      BY <1>1, <1>3, <3>1, <3>3, Goes
  <2> QED
    BY <1>4, <2>1, <2>2, <2>3
<1>6. PlaceOK(r)'
  BY <1>1, <1>2, <1>3, <1>4 DEF PlaceOK, Inner, Checking, Reads, Exec, SameOptions
<1> QED
  BY <1>1, <1>3, <1>5, <1>6, PlaceStays DEF PlaceInv

\* Close moves one rank on, to a place where it is asked for.
LEMMA CloseMoves ==
    ASSUME TypeOK, TypeOK', PlaceInv, NEW r \in Ranks, Close(r)
    PROVE  Moves(r) /\ PlaceInv'
<1>1. /\ SameOptions /\ late' = late /\ rep' = rep /\ access' = access
      /\ errorFound' = errorFound
      /\ \/ pc[r] = "returned" /\ (opt.barriers => access[r] = "check")
         \/ pc[r] = "closeWait" /\ AllArrived(r)
  BY DEF Close, fixed, loop, SameOptions
<1>2. PlaceOK(r)
  BY DEF PlaceInv
<1>3. access[r] = "write" \/ access[r] = "check" \/ access[r] = "read"
  BY Places DEF PlacesKnown
<1>4. CASE access[r] = "write"
  <2>1. EnterBarrier(r) /\ Go(r, "closed")
    BY <1>4 DEF Close
  <2>2. /\ Len(calls'[r]) = Len(calls[r]) + 1
        /\ \A s \in Ranks : s # r => calls'[s] = calls[s] /\ pc'[s] = pc[s]
        /\ pc'[r] = "closed"
    BY <2>1, BarrierEntered, OthersAre
  <2>3. OthersStay(r) /\ Round(r)' = Round(r)
    BY <1>1, <2>2 DEF OthersStay, Round
  <2>4. Exec.write
    BY <1>1, <1>2, <1>4 DEF PlaceOK, Inner
  <2>5. /\ Pos(r)' = 9
        /\ pc[r] = "returned" => Pos(r) = 7
        /\ pc[r] = "closeWait" => Pos(r) = 8
    BY <1>1, <1>4, <2>2, Places, NextPlaces DEF PlacesKnown
  <2>6. (Only(7, 9) /\ Waited(r, 7, 9)) \/ pc[r] # "returned"
    BY <1>1, <1>4, <2>4 DEF Only, Waited, Full, Active
  <2>7. (Only(8, 9) /\ Waited(r, 8, 9)) \/ pc[r] # "closeWait"
    BY <1>1, <2>4 DEF Only, Waited, Full, Active
  <2>8. Moves(r)
    <3>1. /\ 7 \in 0 .. 32 /\ 8 \in 0 .. 32 /\ 9 \in 0 .. 32
          /\ 7 <= 9 /\ 8 <= 9
      OBVIOUS
    <3>2. CASE pc[r] = "returned"
      BY <1>1, <2>2, <2>3, <2>5, <2>6, <3>1, <3>2, Goes, Zenon
    <3>3. CASE pc[r] = "closeWait"
      BY <1>1, <2>2, <2>3, <2>5, <2>7, <3>1, <3>3, Goes, Zenon
    <3> QED
      BY <1>1, <3>2, <3>3
  <2>9. PlaceOK(r)'
    BY <1>1, <1>2, <1>4, <2>2, <2>4 DEF PlaceOK, Inner, Checking, Reads, Exec, SameOptions
  <2> QED
    BY <1>1, <2>3, <2>8, <2>9, PlaceStays DEF PlaceInv
<1>5. CASE access[r] = "check"
  <2>1. Go(r, "read") /\ calls' = calls
    BY <1>5 DEF Close
  <2>2. /\ \A s \in Ranks : s # r => pc'[s] = pc[s]
        /\ pc'[r] = "read" /\ pc[r] = "returned"
    BY <1>1, <1>2, <1>5, <2>1, OthersAre DEF PlaceOK
  <2>3. OthersStay(r) /\ Round(r)' = Round(r)
    BY <1>1, <2>1, <2>2 DEF OthersStay, Round
  <2>4. Pos(r) = 17 /\ Pos(r)' = 20
    BY <1>1, <1>5, <2>2, Places, NextPlaces DEF PlacesKnown
  <2>5. Free(17, 20) /\ Waited(r, 17, 20)
    BY DEF Free, Waited, Full, Active
  <2>6. Moves(r)
    BY <1>1, <2>1, <2>3, <2>4, <2>5, Goes
  <2>7. PlaceOK(r)'
    BY <1>1, <1>2, <2>2 DEF PlaceOK, Inner, Checking, Reads, Exec, SameOptions
  <2> QED
    BY <1>1, <2>3, <2>6, <2>7, PlaceStays DEF PlaceInv
<1>6. CASE access[r] = "read"
  <2>1. Enter(r, <<"allreduce">>) /\ Go(r, "sizeWait") /\ "allreduce" \in Kinds
    BY <1>6 DEF Close, Kinds
  <2>2. /\ Len(calls'[r]) = Len(calls[r]) + 1
        /\ \A s \in Ranks : s # r => calls'[s] = calls[s] /\ pc'[s] = pc[s]
        /\ pc'[r] = "sizeWait"
    BY <2>1, Entered, OthersAre
  <2>3. OthersStay(r) /\ Round(r)' = Round(r)
    BY <1>1, <2>2 DEF OthersStay, Round
  <2>4. Reads(Exec)
    BY <1>1, <1>2, <1>6 DEF PlaceOK, Inner
  <2>5. /\ Pos(r)' = 30
        /\ pc[r] = "returned" => Pos(r) = 27
        /\ pc[r] = "closeWait" => Pos(r) = 28
    BY <1>1, <1>6, <2>2, Places, NextPlaces DEF PlacesKnown
  <2>6. (Only(27, 30) /\ Waited(r, 27, 30)) \/ pc[r] # "returned"
    BY <1>1, <1>6, <2>4 DEF Only, Waited, Full, Active
  <2>7. (Only(28, 30) /\ Waited(r, 28, 30)) \/ pc[r] # "closeWait"
    BY <1>1, <2>4 DEF Only, Waited, Full, Active
  <2>8. Moves(r)
    <3>1. /\ 27 \in 0 .. 32 /\ 28 \in 0 .. 32 /\ 30 \in 0 .. 32
          /\ 27 <= 30 /\ 28 <= 30
      OBVIOUS
    <3>2. CASE pc[r] = "returned"
      BY <1>1, <2>2, <2>3, <2>5, <2>6, <3>1, <3>2, Goes, Zenon
    <3>3. CASE pc[r] = "closeWait"
      BY <1>1, <2>2, <2>3, <2>5, <2>7, <3>1, <3>3, Goes, Zenon
    <3> QED
      BY <1>1, <3>2, <3>3
  <2>9. PlaceOK(r)'
    BY <1>1, <1>2, <1>6, <2>2, <2>4 DEF PlaceOK, Inner, Checking, Reads, Exec, SameOptions
  <2> QED
    BY <1>1, <2>3, <2>8, <2>9, PlaceStays DEF PlaceInv
<1> QED
  BY <1>3, <1>4, <1>5, <1>6

\* Reported moves one rank on, to a place where it is asked for.
LEMMA ReportedMoves ==
    ASSUME TypeOK, TypeOK', PlaceInv, NEW r \in Ranks, Reported(r)
    PROVE  Moves(r) /\ PlaceInv'
<1>1. /\ SameOptions /\ late' = late /\ rep' = rep /\ access' = access
      /\ errorFound' = errorFound /\ calls' = calls /\ pc[r] = "report"
  BY DEF Reported, fixed, loop, open, SameOptions
<1>2. /\ \A s \in Ranks : s # r => pc'[s] = pc[s]
      /\ pc'[r] = IF access[r] = "write" THEN "check" ELSE "remove"
  BY OthersAre DEF Reported
<1>3. OthersStay(r) /\ Round(r)' = Round(r) /\ PlaceOK(r)
  BY <1>1, <1>2 DEF OthersStay, Round, PlaceInv
<1>4. access[r] = "write" \/ access[r] = "read"
  BY <1>1, <1>3, Places DEF PlacesKnown, PlaceOK
<1>5. \/ access[r] = "write" /\ Pos(r) = 11 /\ Pos(r)' = 12
      \/ access[r] = "read" /\ Pos(r) = 31 /\ Pos(r)' = 32
  BY <1>1, <1>2, <1>4, Places, NextPlaces DEF PlacesKnown
<1>6. Free(11, 12) /\ Waited(r, 11, 12) /\ Free(31, 32) /\ Waited(r, 31, 32)
  BY DEF Free, Waited, Full, Active
<1>7. Moves(r)
  BY <1>1, <1>3, <1>5, <1>6, Goes
<1>8. PlaceOK(r)'
  BY <1>1, <1>2, <1>3 DEF PlaceOK, Inner, Checking, Reads, Exec, SameOptions
<1> QED
  BY <1>1, <1>3, <1>7, <1>8, PlaceStays DEF PlaceInv

\* BeforeRemove moves one rank on, to a place where it is asked for.
LEMMA BeforeRemoveMoves ==
    ASSUME TypeOK, TypeOK', PlaceInv, NEW r \in Ranks, BeforeRemove(r)
    PROVE  Moves(r) /\ PlaceInv'
<1>1. /\ SameOptions /\ late' = late /\ rep' = rep /\ access' = access
      /\ errorFound' = errorFound /\ pc[r] = "remove"
  BY DEF BeforeRemove, fixed, loop, open, SameOptions
<1>2. Len(calls'[r]) = Len(calls[r]) + 1 /\ \A s \in Ranks : s # r => calls'[s] = calls[s]
  BY BarrierEntered DEF BeforeRemove
<1>3. /\ \A s \in Ranks : s # r => pc'[s] = pc[s]
      /\ \/ Removes(r) /\ pc'[r] = "removeWait"
         \/ ~Removes(r) /\ pc'[r] = "repWait"
  BY OthersAre DEF BeforeRemove
<1>4. OthersStay(r) /\ Round(r)' = Round(r) /\ PlaceOK(r)
  BY <1>1, <1>2, <1>3 DEF OthersStay, Round, PlaceInv
<1>5. Removes(r)' <=> Removes(r)
  BY <1>1 DEF Removes, SameOptions
<1>6. /\ Pos(r) = 32
      /\ pc'[r] = "removeWait" => Pos(r)' = 33
      /\ pc'[r] = "repWait" => Pos(r)' = 34
  BY <1>1, Places, NextPlaces DEF PlacesKnown
<1>7. \A a \in Full : 32 <= a /\ a < 34 => a = 33
  BY DEF Full
<1>8. /\ \A a : Active(a)' = Active(a)
      /\ Active(34) /\ ~Active(33)
  BY <1>1, SameActive DEF Active
<1>9. Asked(r, 34)' /\ (Asked(r, 33)' <=> Removes(r))
  BY <1>5, <1>8 DEF Asked
<1>10. Moves(r)
  <2>1. CASE Removes(r)
    <3>1. Pos(r)' = 33
      BY <1>3, <1>6, <2>1
    <3>2. OnlyNext(r, 32, 33)
      BY <1>9, <2>1 DEF OnlyNext
    <3>3. WaitedNext(r, 32, 33)
      BY DEF Full, WaitedNext
    <3>4. 32 \in 0 .. 34 /\ 33 \in 0 .. 34 /\ 32 <= 33 /\ ~(32 >= 33)
      OBVIOUS
    <3> QED
      BY <1>1, <1>2, <1>4, <1>6, <3>1, <3>2, <3>3, <3>4, GoesOn, Zenon
  <2>2. CASE ~Removes(r)
    <3>1. Pos(r)' = 34
      BY <1>3, <1>6, <2>2
    <3>2. OnlyNext(r, 32, 34)
      BY <1>9, <2>2 DEF OnlyNext
    <3>3. WaitedNext(r, 32, 34)
      BY <1>7, <1>9, <2>2 DEF WaitedNext
    <3>4. 32 \in 0 .. 34 /\ 34 \in 0 .. 34 /\ 32 <= 34 /\ ~(32 >= 33)
      OBVIOUS
    <3> QED
      BY <1>1, <1>2, <1>4, <1>6, <3>1, <3>2, <3>3, <3>4, GoesOn, Zenon
  <2> QED
    BY <2>1, <2>2
<1>11. PlaceOK(r)'
  BY <1>1, <1>3, <1>4, <1>5 DEF PlaceOK, Inner, Checking, Reads, Exec, SameOptions
<1> QED
  BY <1>1, <1>4, <1>10, <1>11, PlaceStays DEF PlaceInv

\* Remove moves one rank on, to a place where it is asked for.
LEMMA RemoveMoves ==
    ASSUME TypeOK, TypeOK', PlaceInv, NEW r \in Ranks, Remove(r)
    PROVE  Moves(r) /\ PlaceInv'
<1>1. /\ SameOptions /\ late' = late /\ rep' = rep /\ access' = access
      /\ errorFound' = errorFound /\ pc[r] = "removeWait" /\ AllArrived(r)
  BY DEF Remove, fixed, loop, open, SameOptions
<1>2. Len(calls'[r]) = Len(calls[r]) + 1 /\ \A s \in Ranks : s # r => calls'[s] = calls[s]
  BY BarrierEntered DEF Remove
<1>3. pc'[r] = "repWait" /\ \A s \in Ranks : s # r => pc'[s] = pc[s]
  BY OthersAre DEF Remove
<1>4. OthersStay(r) /\ Round(r)' = Round(r) /\ PlaceOK(r)
  BY <1>1, <1>2, <1>3 DEF OthersStay, Round, PlaceInv
<1>5. Removes(r)' = Removes(r)
  BY <1>1 DEF Removes, SameOptions
<1>6. Pos(r) = 33 /\ Pos(r)' = 34
  BY <1>1, <1>3, Places, NextPlaces DEF PlacesKnown
<1>7. Asked(r, 34)'
  BY DEF Asked, Active
<1>8. OnlyNext(r, 33, 34)
  BY <1>7 DEF OnlyNext
<1>9. WaitedNext(r, 33, 34)
  BY <1>1 DEF Full, WaitedNext
<1>10. Moves(r)
  <2>1. 33 \in 0 .. 34 /\ 34 \in 0 .. 34 /\ 33 <= 34
    OBVIOUS
  <2> QED
    BY <1>1, <1>2, <1>4, <1>5, <1>6, <1>8, <1>9, <2>1, GoesOn, Zenon
<1>11. PlaceOK(r)'
  BY <1>1, <1>3, <1>4, <1>5 DEF PlaceOK, Inner, Checking, Reads, Exec, SameOptions
<1> QED
  BY <1>1, <1>4, <1>10, <1>11, PlaceStays DEF PlaceInv

\* EndRep turns to the next repetition.
LEMMA EndRepTurns ==
    ASSUME TypeOK, TypeOK', PlaceInv, NEW r \in Ranks, EndRep(r)
    PROVE  Turns(r) /\ PlaceInv'
<1>1. /\ SameOptions /\ late' = late /\ access' = access /\ calls' = calls
      /\ pc[r] = "repWait" /\ AllArrived(r)
  BY DEF EndRep, fixed, open, SameOptions
<1>2. /\ \A s \in Ranks : s # r => errorFound'[s] = errorFound[s]
      /\ errorFound'[r] = FALSE
  BY DEF EndRep, TypeOK
<1>3. /\ \A s \in Ranks : s # r => pc'[s] = pc[s] /\ rep'[s] = rep[s]
      /\ \/ pc'[r] = "start" /\ rep'[r] = rep[r] + 1
         \/ pc'[r] = "finish" /\ rep'[r] = rep[r] /\ rep[r] + 1 \notin Repetitions
  <2>1. CASE rep[r] + 1 \in Repetitions
    <3>1. rep' = [rep EXCEPT ![r] = rep[r] + 1] /\ Go(r, "start")
      BY <2>1 DEF EndRep
    <3>2. rep \in [Ranks -> Repetitions]
      BY DEF TypeOK
    <3> QED
      BY <3>1, <3>2, OthersAre
  <2>2. CASE rep[r] + 1 \notin Repetitions
    <3>1. rep' = rep /\ Go(r, "finish")
      BY <2>2 DEF EndRep
    <3> QED
      BY <2>2, <3>1, OthersAre
  <2> QED
    BY <2>1, <2>2
<1>4. OthersStay(r) /\ PlaceOK(r)
  BY <1>1, <1>2, <1>3 DEF OthersStay, PlaceInv
<1>5. Pos(r) = 34 /\ Pos(r)' = 0
  BY <1>1, <1>3, Places, NextPlaces DEF PlacesKnown
<1>6. Round(r)' = Round(r) + 1
  BY <1>1, <1>3 DEF Round
<1>7. Turns(r)
  BY <1>1, <1>2, <1>4, <1>5, <1>6 DEF Turns
<1>8. PlaceOK(r)'
  BY <1>1, <1>3, <1>4 DEF PlaceOK, Inner, Checking, Reads, Exec, SameOptions, Repetitions
<1> QED
  BY <1>1, <1>4, <1>7, <1>8, PlaceStays DEF PlaceInv

----------------------------------------------------------------------------
(***************************************************************************)
(* The agreement on errors, step by step.                                  *)
(***************************************************************************)
\* A rank opens a file in a phase all have come to, or has just done so.
Fresh(r) ==
    \E b \in {3, 13, 23} : Active(b) /\ Pos(r) \in b .. b + 2 /\ (b = Pos(r) => AllArrived(r))

(* Only the exchange of errors tells a rank of them. *)
LEMMA PassedStays ==
    ASSUME TypeOK, TypeOK', NEW r \in Ranks, Moves(r), pc[r] # "errorsWait"
    PROVE  Passed(r)' = Passed(r)
<1> DEFINE m == Pos(r)
           n == Pos(r)'
<1>1. m \in 0 .. 34 /\ n \in 0 .. 34 /\ m <= n
  BY PlaceTypes, NextPlaceTypes DEF AllPlacesOK, Moves
<1>2. m \notin Sums
  <2>1. pc[r] \in PCs /\ access[r] \in {"write", "check", "read"}
    BY DEF TypeOK
  <2> QED
    BY <2>1, OuterPlaces, InnerPlaces DEF PCs, Sums
<1>3. \A a \in Full : Asked(r, a)' /\ m <= a /\ a < n => a = m
  BY DEF Moves
<1>4. \A a : Active(a)' <=> Active(a)
  BY SameActive DEF Moves
<1>5. /\ \A a : a \in Passed(r) <=> a \in Sums /\ Active(a) /\ a < m
      /\ \A a : a \in Passed(r)' <=> a \in Sums /\ Active(a)' /\ a < n
  BY PassedElements
<1> HIDE DEF m, n
<1>6. ASSUME NEW a \in Sums, Active(a)
      PROVE  a < m <=> a < n
  <2>1. a \in Full /\ a \in 1 .. 34 /\ Asked(r, a)'
    BY <1>4, <1>6 DEF Sums, Full, Asked
  <2> QED
    BY <1>1, <1>2, <1>3, <2>1
<1>7. \A a : a \in Passed(r)' <=> a \in Passed(r)
  BY <1>4, <1>5, <1>6
<1> QED
  BY <1>7

\* A step that passes no sum leaves the knowledge of errors.
LEMMA MovesErrors ==
    ASSUME SInv, TypeOK', NEW r \in Ranks, Moves(r), pc[r] # "errorsWait",
           errorFound' = errorFound, errors' = errors \/ Fresh(r)
    PROVE  ErrorInv'
<1>1. TypeOK /\ NearInv /\ ErrorInv
  BY DEF SInv
<1>2. Passed(r)' = Passed(r)
  BY <1>1, PassedStays
<1>3. SameOptions /\ OthersStay(r) /\ Round(r)' = Round(r) /\ errorFound'[r] = errorFound[r]
  BY DEF Moves
<1>4. ASSUME Fresh(r), NEW s \in Ranks, NEW t \in Ranks, Round(s) = Round(t)
      PROVE  Passed(s) \subseteq Passed(t)
  <2>1. PICK b \in {3, 13, 23} :
            Active(b) /\ Pos(r) \in b .. b + 2 /\ (b = Pos(r) => AllArrived(r))
    BY <1>4 DEF Fresh
  <2> QED
    BY <1>1, <1>4, <2>1, NobodyAhead
<1> QED
  BY <1>1, <1>2, <1>3, <1>4, QuietErrors

(* Opening a file clears the errors of a rank, and an access adds to them. *)
LEMMA OpensFresh ==
    ASSUME SInv, NEW r \in Ranks, Create(r) \/ OpenCheck(r) \/ OpenRead(r)
    PROVE  Fresh(r) /\ pc[r] # "errorsWait" /\ errorFound' = errorFound
<1>1. PlaceOK(r) /\ TypeOK
  BY DEF SInv, PlaceInv
<1>2. /\ errorFound' = errorFound /\ AllArrived(r)
      /\ \/ pc[r] = "writeWait"
         \/ pc[r] = "checkWait"
         \/ pc[r] = "readWait"
  BY DEF Create, OpenCheck, OpenRead, loop
<1>3. \/ Pos(r) = 3 /\ Exec.write
      \/ Pos(r) = 13 /\ Exec.checkWrite
      \/ Pos(r) = 23 /\ Reads(Exec)
  BY <1>1, <1>2, Places DEF PlacesKnown, PlaceOK
<1>4. Exec.write => Active(3)
  BY DEF Active
<1>5. Exec.checkWrite => Active(13)
  BY DEF Active
<1>6. Reads(Exec) => Active(23)
  BY DEF Active
<1> QED
  BY <1>2, <1>3, <1>4, <1>5, <1>6 DEF Fresh

\* While a rank accesses its file nobody has been told of the phase.
LEMMA TransferFresh ==
    ASSUME SInv, NEW r \in Ranks, Transfer(r)
    PROVE  /\ Fresh(r) \/ errors' = errors
           /\ pc[r] # "errorsWait" /\ errorFound' = errorFound
<1>1. PlaceOK(r) /\ TypeOK
  BY DEF SInv, PlaceInv
<1>2. /\ errorFound' = errorFound /\ pc[r] = "access"
      /\ access[r] = "write" => errors' = errors
  BY DEF Transfer, loop, checks
<1>3. \/ access[r] = "write"
      \/ access[r] = "check" /\ Pos(r) = 15 /\ Exec.checkWrite
      \/ access[r] = "read" /\ Pos(r) = 25 /\ Reads(Exec)
  BY <1>1, <1>2, Places DEF PlacesKnown, PlaceOK, Inner
<1>4. Exec.checkWrite => Active(13)
  BY DEF Active
<1>5. Reads(Exec) => Active(23)
  BY DEF Active
<1>6. access[r] = "check" => Fresh(r)
  BY <1>3, <1>4 DEF Fresh
<1>7. access[r] = "read" => Fresh(r)
  BY <1>3, <1>5 DEF Fresh
<1> QED
  BY <1>2, <1>3, <1>6, <1>7

\* The steps in which no rank learns or finds anything.
Quiet(r) ==
    \/ StartRep(r) \/ StampKnown(r) \/ Skip(r)
    \/ BeginWrite(r) \/ BeginCheck(r) \/ BeginRead(r)
    \/ StatusKnown(r) \/ Reorder(r) \/ OpenDone(r) \/ Return(r)
    \/ AccessDone(r) \/ Close(r) \/ Closed(r) \/ SizeKnown(r) \/ Reported(r)
    \/ BeforeRemove(r) \/ Remove(r) \/ ShowTestEnd(r)

\* A quiet step changes nothing that is known of errors.
LEMMA QuietFacts ==
    ASSUME NEW r \in Ranks, Quiet(r)
    PROVE  pc[r] # "errorsWait" /\ errorFound' = errorFound /\ errors' = errors
<1>1. CASE StartRep(r) \/ StampKnown(r) \/ Skip(r)
  BY <1>1 DEF StartRep, StampKnown, Skip, checks
<1>2. CASE BeginWrite(r) \/ BeginCheck(r) \/ BeginRead(r)
  BY <1>2 DEF BeginWrite, BeginCheck, BeginRead, Takes, checks
<1>3. CASE StatusKnown(r) \/ Reorder(r) \/ OpenDone(r) \/ Return(r)
  BY <1>3 DEF StatusKnown, Reorder, OpenDone, Passes, Return, loop, checks
<1>4. CASE AccessDone(r) \/ Close(r) \/ Closed(r) \/ SizeKnown(r) \/ Reported(r)
  BY <1>4 DEF AccessDone, Close, Closed, SizeKnown, Passes, Reported, loop, checks
<1>5. CASE BeforeRemove(r) \/ Remove(r) \/ ShowTestEnd(r)
  BY <1>5 DEF BeforeRemove, Remove, ShowTestEnd, loop, checks
<1> QED
  BY <1>1, <1>2, <1>3, <1>4, <1>5 DEF Quiet

\* A quiet step moves one rank on.
LEMMA QuietMoves ==
    ASSUME TypeOK, TypeOK', PlaceInv, ~opt.timeLimit, NEW r \in Ranks, Quiet(r)
    PROVE  Moves(r) /\ PlaceInv'
<1>1. CASE StartRep(r) \/ StampKnown(r) \/ Skip(r)
  BY <1>1, StartRepMoves, StampKnownMoves, SkipMoves
<1>2. CASE BeginWrite(r) \/ BeginCheck(r) \/ BeginRead(r)
  BY <1>2, BeginWriteMoves, BeginCheckMoves, BeginReadMoves
<1>3. CASE StatusKnown(r) \/ Reorder(r) \/ OpenDone(r) \/ Return(r)
  BY <1>3, StatusKnownMoves, ReorderMoves, OpenDoneMoves, ReturnMoves
<1>4. CASE AccessDone(r) \/ Close(r) \/ Closed(r) \/ SizeKnown(r) \/ Reported(r)
  BY <1>4, AccessDoneMoves, CloseMoves, ClosedMoves, SizeKnownMoves, ReportedMoves
<1>5. CASE BeforeRemove(r) \/ Remove(r) \/ ShowTestEnd(r)
  BY <1>5, BeforeRemoveMoves, RemoveMoves, ShowTestEndMoves
<1> QED
  BY <1>1, <1>2, <1>3, <1>4, <1>5 DEF Quiet

----------------------------------------------------------------------------
(***************************************************************************)
(* The invariant: a step of a rank, of the storage, or of the executions.  *)
(***************************************************************************)
(* A step of the program is one of a rank that goes on, or begins another  *)
(* repetition.                                                             *)
LEMMA RankPlaces ==
    ASSUME TypeOK, TypeOK', PlaceInv, ~opt.timeLimit, NEW r \in Ranks, RankStep(r)
    PROVE  PlaceInv' /\ (Moves(r) \/ Turns(r))
<1>1. CASE Quiet(r)
  BY <1>1, QuietMoves
<1>2. CASE Create(r) \/ OpenCheck(r) \/ OpenRead(r)
  BY <1>2, CreateMoves, OpenCheckMoves, OpenReadMoves
<1>3. CASE Transfer(r) \/ ErrorsKnown(r) \/ EndRep(r)
  BY <1>3, TransferMoves, ErrorsKnownMoves, EndRepTurns
<1> QED
  BY <1>1, <1>2, <1>3 DEF RankStep, Quiet

\* A rank told of the errors knows what all will be told.
LEMMA ErrorsKnownErrors ==
    ASSUME SInv, TypeOK', NEW r \in Ranks, ErrorsKnown(r)
    PROVE  ErrorInv'
<1>1. TypeOK /\ NearInv /\ ErrorInv /\ PlaceInv
  BY DEF SInv
<1>2. /\ Moves(r) /\ Pos(r) \in Sums /\ Active(Pos(r)) /\ Pos(r)' = Pos(r) + 1
  BY <1>1, ErrorsKnownMoves
<1>3. SameOptions /\ OthersStay(r) /\ Round(r)' = Round(r)
  BY <1>2 DEF Moves
<1>4. AllArrived(r) /\ errors' = errors /\ errorFound'[r] = (errorFound[r] \/ SomeError)
  <2>1. errorFound \in [Ranks -> BOOLEAN]
    BY <1>1 DEF TypeOK
  <2> QED
    BY <2>1 DEF ErrorsKnown, SomeError, checks
<1>5. Passed(r)' = Passed(r) \cup {Pos(r)}
  <2>1. \A a : Active(a)' <=> Active(a)
    BY <1>3, SameActive
  <2>2. \A a \in Sums : a < Pos(r) + 1 <=> a < Pos(r) \/ a = Pos(r)
    BY <1>2 DEF Sums
  <2>3. \A a : a \in Passed(r)' <=> a \in Passed(r) \/ a = Pos(r)
    BY <1>2, <2>1, <2>2, PassedElements
  <2> QED
    BY <2>3
<1> QED
  BY <1>1, <1>2, <1>3, <1>4, <1>5, ToldErrors

\* Every step of a rank keeps the agreement on errors.
LEMMA RankErrors ==
    ASSUME SInv, TypeOK', ~opt.timeLimit, NEW r \in Ranks, RankStep(r)
    PROVE  ErrorInv'
<1>1. TypeOK /\ NearInv /\ ErrorInv /\ PlaceInv
  BY DEF SInv
<1>2. CASE Quiet(r)
  BY <1>1, <1>2, QuietMoves, QuietFacts, MovesErrors
<1>3. CASE Create(r) \/ OpenCheck(r) \/ OpenRead(r)
  BY <1>1, <1>3, CreateMoves, OpenCheckMoves, OpenReadMoves, OpensFresh, MovesErrors
<1>4. CASE Transfer(r)
  BY <1>1, <1>4, TransferMoves, TransferFresh, MovesErrors
<1>5. CASE ErrorsKnown(r)
  BY <1>5, ErrorsKnownErrors
<1>6. CASE EndRep(r)
  <2>1. errors' = errors
    BY <1>6 DEF EndRep
  <2> QED
    BY <1>1, <1>6, <2>1, EndRepTurns, TurnsErrors
<1> QED
  BY <1>2, <1>3, <1>4, <1>5, <1>6 DEF RankStep, Quiet

(* What the storage loses concerns no rank's place. *)
LEMMA SpoilSInv ==
    ASSUME SInv, TypeOK',
           UNCHANGED <<opt, execution, pc, access, rep, calls, errors, errorFound, late>>
    PROVE  SInv'
<1>1. \A r \in Ranks : /\ Pos(r)' = Pos(r) /\ Round(r)' = Round(r) /\ Anchor(r)' = Anchor(r)
                       /\ Passed(r)' = Passed(r) /\ (PlaceOK(r)' <=> PlaceOK(r))
                       /\ \A a : Asked(r, a)' <=> Asked(r, a)
  <2> TAKE r \in Ranks
  <2>1. SameOptions /\ Pos(r)' = Pos(r) /\ Round(r)' = Round(r) /\ (Removes(r)' <=> Removes(r))
    BY DEF SameOptions, Pos, Round, Removes
  <2>2. \A a : Active(a)' <=> Active(a)
    BY <2>1, SameActive
  <2>3. \A a : Asked(r, a)' <=> Asked(r, a)
    BY <2>1, <2>2 DEF Asked
  <2>4. Seen(r)' = Seen(r)
    BY <2>1, <2>3 DEF Seen
  <2>5. Anchor(r)' = Anchor(r)
    BY <2>4 DEF Anchor
  <2>6. Passed(r)' = Passed(r)
    BY <2>1, <2>2 DEF Passed
  <2>7. PlaceOK(r)' <=> PlaceOK(r)
    BY <2>1 DEF PlaceOK, SameOptions, Checking, Exec, Reads, Repetitions
  <2> QED
    BY <2>1, <2>3, <2>5, <2>6, <2>7
<1>2. PlaceInv'
  BY <1>1 DEF SInv, PlaceInv
<1>3. NearInv'
  BY <1>1 DEF SInv, NearInv, Near, Behind
<1>4. ErrorInv'
  BY <1>1 DEF SInv, ErrorInv, Agree, SomeError
<1> QED
  BY <1>2, <1>3, <1>4 DEF SInv

(* All ranks are at the beginning of an execution. *)
LEMMA Beginning ==
    ASSUME TypeOK, late = {},
           \A r \in Ranks : pc[r] = "start" /\ rep[r] = 0 /\ calls[r] = << >> /\ ~errorFound[r]
    PROVE  SInv
<1>1. \A r \in Ranks : Pos(r) = 0 /\ Round(r) = 0
  BY OuterPlaces DEF Round
<1>2. \A r \in Ranks : Anchor(r) = 0
  <2> TAKE r \in Ranks
  <2>1. \A a : a \notin Seen(r)
    BY <1>1, SeenElements
  <2>2. Seen(r) = {}
    BY <2>1
  <2>3. Cardinality(Seen(r)) = 0
    BY <2>2, FS_EmptySet
  <2> QED
    BY <2>3 DEF Anchor
<1>3. \A r \in Ranks : Passed(r) = {}
  <2> TAKE r \in Ranks
  <2>1. \A a \in Sums : ~(a < 0)
    BY DEF Sums
  <2> QED
    BY <1>1, <2>1, PassedElements
<1>4. \A a \in Full : ~(a < 0)
  BY DEF Full
<1>5. NearInv
  BY <1>1, <1>2, <1>4 DEF NearInv, Near, Behind
<1>6. errorFound \in [Ranks -> BOOLEAN]
  BY DEF TypeOK
<1>7. ErrorInv
  BY <1>3, <1>6 DEF ErrorInv, Agree
<1>8. PlaceInv
  BY DEF PlaceInv, PlaceOK, Inner
<1> QED
  BY <1>5, <1>7, <1>8 DEF SInv

BeginningAll ==
    TypeOK /\ late = {} /\
    (\A r \in Ranks : pc[r] = "start" /\ rep[r] = 0 /\ calls[r] = << >> /\ ~errorFound[r])

\* The invariant holds where an execution begins.
LEMMA BeginningIs == BeginningAll => SInv
BY Beginning DEF BeginningAll

\* And at the beginning of the next one.
LEMMA NextBeginning == BeginningAll' => SInv'
BY BeginningIs, PTL

\* No option gives the phases a time limit, the minutes of -T: with one,
\* every rank asks a clock of its own.
Untimed == \A o \in Options : ~o.timeLimit

\* Every step keeps the invariant.
LEMMA SStep ==
    ASSUME Untimed, SInv, [Next]_vars
    PROVE  SInv'
<1>1. TypeOK /\ PlaceInv /\ NearInv /\ ErrorInv
  BY DEF SInv
<1>2. ~opt.timeLimit
  BY <1>1 DEF Untimed, TypeOK
<1>3. TypeOK'
  BY <1>1, TypeStep
<1>4. CASE UNCHANGED vars
  BY <1>3, <1>4, SpoilSInv DEF vars
<1>5. ASSUME NEW r \in Ranks, RankStep(r)
      PROVE  SInv'
  <2>1. PlaceInv' /\ (Moves(r) \/ Turns(r))
    BY <1>1, <1>2, <1>3, <1>5, RankPlaces
  <2>2. NearInv'
    BY <1>1, <1>3, <2>1, MovesNear, TurnsNear
  <2>3. ErrorInv'
    BY <1>2, <1>3, <1>5, RankErrors
  <2> QED
    BY <1>3, <2>1, <2>2, <2>3 DEF SInv
<1>6. ASSUME NEW n \in DOMAIN files, NEW w \in Ranks, NEW k \in Positions, Spoil(n, w, k)
      PROVE  SInv'
  <2>1. UNCHANGED <<opt, execution, pc, access, rep, calls, errors, errorFound, late>>
    BY <1>6 DEF Spoil, loop, open, checks
  <2> QED
    BY <1>3, <2>1, SpoilSInv
<1>7. CASE NextExecution
  <2>1. \A r \in Ranks : ~errorFound[r]
    <3> TAKE r \in Ranks
    <3>1. Pos(r) = 0
      BY <1>7, OuterPlaces DEF NextExecution, AllEnded
    <3>2. \A a \in Sums : ~(a < 0)
      BY DEF Sums
    <3>3. Passed(r) = {}
      BY <3>1, <3>2, PassedElements
    <3> QED
      BY <1>1, <3>3 DEF ErrorInv
  <2>2. BeginningAll'
    BY <1>3, <1>7, <2>1 DEF NextExecution, Each, BeginningAll
  <2> QED
    BY <2>2, NextBeginning
<1> QED
  BY <1>4, <1>5, <1>6, <1>7 DEF Next

\* It holds at the beginning.
LEMMA InitSInv ==
    ASSUME Init
    PROVE  SInv
<1>1. TypeOK
  BY InitTypes
<1> QED
  BY <1>1, Beginning DEF Init, Each

(***************************************************************************)
(* Whatever the options but a time limit, the ranks stay together: their   *)
(* places, the numbers of their collectives and their knowledge of errors  *)
(* fit.                                                                    *)
(***************************************************************************)
THEOREM RanksTogether ==
    ASSUME Untimed
    PROVE  Spec => []SInv
<1>1. Init => SInv
  BY InitSInv
<1>2. SInv /\ [Next]_vars => SInv'
  BY SStep
<1> QED
  BY <1>1, <1>2, PTL DEF Spec
=============================================================================
