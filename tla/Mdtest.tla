------------------------------- MODULE Mdtest -------------------------------
(***************************************************************************)
(* The mdtest benchmark (mdtest.c): every rank creates, stats, reads,      *)
(* renames and removes items, directories first and files then, in the     *)
(* directories of a tree.  The phases shift: a rank stats, reads and       *)
(* removes what the ranks next to it created.                              *)
(*                                                                         *)
(* What a rank does between two decisions is fixed by its options, so a    *)
(* rank keeps it as a sequence of steps, todo: the calls of the backend    *)
(* and of MPI in the order of the code.  A decision, where the stonewall   *)
(* is over or a count of items arrives, is a step that changes the rest.   *)
(*                                                                         *)
(* A directory is <<path>>, the test directory <<path, iteration, loop>>   *)
(* in it, or <<path, iteration, loop, tree, nodes>>, where nodes are the   *)
(* pairs <<tree, number>> that lead down from the tree's root.  An item is *)
(* <<directory, kind, name, number>>.                                      *)
(***************************************************************************)
EXTENDS Mpi, FiniteSets, SequencesExt

CONSTANT Options    \* the option sets a behaviour may start with

Phases == {"create", "stat", "read", "rename", "remove"}

\* executions: the phases (-C, -T, -E, -U, -r) of each run of the program.
\* barriers is -B off; data is -w and -e with the same size, 0 if not.
OptionRecord ==
    [items : Nat, perDir : Nat, depth : Nat, branch : Nat \ {0}, leafOnly : BOOLEAN,
     unique : BOOLEAN, sharedFile : BOOLEAN, collective : BOOLEAN, barriers : BOOLEAN,
     random : BOOLEAN, mknod : BOOLEAN, data : BOOLEAN, verifyRead : BOOLEAN,
     verifyWrite : BOOLEAN, stride : Nat, stonewall : BOOLEAN, statusFile : BOOLEAN,
     iterations : Nat \ {0}, paths : Nat \ {0}, kinds : SUBSET {"dir", "file"},
     executions : Seq(SUBSET Phases)]

\* md_validate_tests: what the program does not refuse.
ValidOption(o) ==
    /\ o.stonewall => o.branch = 1 /\ o.barriers
    /\ ~o.barriers => o.stride = 0 /\ ~o.collective
    /\ o.collective => ~o.sharedFile /\ o.paths = 1
    /\ o.unique => ~o.sharedFile /\ (o.items = 0 \/ o.perDir = 0)
    /\ o.paths > 1 => o.stride = 0 /\ o.unique
    /\ o.paths <= NumTasks
    /\ o.perDir > 0 => o.items % o.perDir = 0
    /\ o.mknod => ~o.data
    /\ o.verifyRead => o.data /\ \A k \in DOMAIN o.executions : "read" \in o.executions[k]
    /\ o.sharedFile => o.kinds = {"file"}
    /\ o.kinds # {} /\ o.executions # << >>

\* Not modelled: -c with -u, where the paths of the unique directories are
\* replaced by ones that have the test directory in them twice.
ASSUME OptionsAssumption ==
    \A o \in Options : o \in OptionRecord /\ ValidOption(o) /\ ~(o.collective /\ o.unique)

Shared == -1        \* the name of a shared file, the tree of all ranks
Renamed == -1       \* the number of the item called <first item>-XX
Unwritten == << >>  \* the content of a file nothing was written to

VARIABLES
    opt,            \* the options
    execution,      \* number of the current execution
    dirs, items,    \* the directories; from every item to its content
    status,         \* the stonewall status file, -1 if there is none
    pc, todo,       \* where each rank is, and the steps before it
    iteration,      \* the iteration of the test each rank is in
    count, loops,   \* o.items, o.directory_loops
    order,          \* o.rand_array
    done, perDir,   \* of rank_progress_t: items_done, items_per_dir
    over,           \* the stonewall timer has been found over
    madeRoot,       \* created_root_dir
    err             \* how many operations each rank found to fail

storage == <<dirs, items, status>>
progress == <<done, perDir, over>>
setup == <<iteration, count, loops, order, madeRoot>>
vars == <<opt, execution, dirs, items, status, pc, todo, iteration, count, loops,
          order, done, perDir, over, madeRoot, err, calls>>

----------------------------------------------------------------------------
(***************************************************************************)
(* The size of the test.                                                   *)
(***************************************************************************)
NumDirs ==
    IF opt.depth = 0 THEN 1
    ELSE IF opt.branch = 1 THEN opt.depth + 1
    ELSE (opt.branch ^ (opt.depth + 1) - 1) \div (opt.branch - 1)

Leaves == opt.branch ^ opt.depth
HoldingDirs == IF opt.leafOnly THEN Leaves ELSE NumDirs

\* num_dirs_in_tree_calc, which is not 0 if -n and -I are given.
NumDirsCalc == IF opt.items > 0 /\ opt.perDir > 0 THEN NumDirs ELSE 1

ItemsPerDir == IF opt.perDir > 0 THEN opt.perDir ELSE opt.items \div HoldingDirs
ItemsAtStart ==
    IF opt.items > 0 /\ opt.perDir > 0 THEN opt.items ELSE ItemsPerDir * HoldingDirs

DirectoryLoops ==
    IF opt.items > 0 /\ opt.perDir > 0 /\ ~opt.unique THEN opt.items \div opt.perDir ELSE 1

(***************************************************************************)
(* Names.  A rank goes k strides further in each phase, and in unique      *)
(* directories one more than for the names.                                *)
(***************************************************************************)
Shift(r, k) == (r + k * opt.stride) % NumTasks
Name(r, k) == IF opt.sharedFile THEN Shared ELSE Shift(r, k)
Tree(r, k) == IF opt.unique THEN Shift(r, k + 1) ELSE Shared
BaseTree(r) == IF opt.unique THEN r ELSE Shared

TestDir(r, loop) == <<r % opt.paths, iteration[r], loop>>
Below(dir, tree) == Append(dir, tree) \o << << >> >>
TreeDir(dir, nodes) == [dir EXCEPT ![5] = nodes]

Parent(dir) ==
    CASE Len(dir) = 3 -> <<dir[1]>>
      [] Len(dir) = 5 /\ dir[5] = << >> -> SubSeq(dir, 1, 3)
      [] Len(dir) = 5 /\ dir[5] # << >> -> TreeDir(dir, Front(dir[5]))

(***************************************************************************)
(* The directories of a tree below one, in the order the recursions come   *)
(* to them: before what is below them, or after.                           *)
(***************************************************************************)
Walk(base, before) ==
    LET walk[level \in Nat, nodes \in Seq(Seq(Int)), first \in Nat] ==
            IF level > opt.depth THEN << >>
            ELSE FlattenSeq([b \in 1 .. opt.branch |->
                    LET dir   == first + b - 1
                        here  == Append(nodes, <<base, dir>>)
                        below == walk[level + 1, here, dir * opt.branch + 1]
                        node  == <<[nodes |-> here, number |-> dir, level |-> level]>>
                    IN  IF before THEN node \o below ELSE below \o node])
        root == <<[nodes |-> << >>, number |-> 0, level |-> 0]>>
    IN  IF before THEN root \o walk[1, << >>, 1] ELSE walk[1, << >>, 1] \o root

\* The directories that hold items.
Holding(base) ==
    SelectSeq(Walk(base, TRUE), LAMBDA n : opt.leafOnly => n.level = opt.depth)

\* Mutant: the climb goes on one step too far.
ClimbShort(base, number) ==
    LET up[p \in Nat] == IF p >= opt.branch THEN Append(up[(p - 1) \div opt.branch], <<base, p>>)
                         ELSE <<(<<base, p>>)>>
        dir == number \div ItemsPerDir
    IN  IF dir = 0 THEN << >> ELSE up[dir]

\* The way to an item, from its number: up to the root by divisions.
Climb(base, number) ==
    LET up[p \in Nat] == IF p > opt.branch THEN Append(up[(p - 1) \div opt.branch], <<base, p>>)
                         ELSE <<(<<base, p>>)>>
        dir == number \div ItemsPerDir
    IN  IF dir = 0 THEN << >> ELSE up[dir]

----------------------------------------------------------------------------
(***************************************************************************)
(* Steps.                                                                  *)
(***************************************************************************)
Call(kind) == <<[op |-> "call", kind |-> kind]>>
Barrier == Call("barrier")
On(op, where) == <<[op |-> op, at |-> where]>>
Sign(op) == <<[op |-> op]>>
PhaseBarrier == IF opt.barriers THEN Barrier ELSE << >>

\* The steps S(1) \o ... \o S(n), and S(a) \o ... \o S(b - 1).
Each(n, S(_)) == FlattenSeq([k \in 1 .. n |-> S(k)])
From(a, b, S(_)) == Each(b - a, LAMBDA k : S(a + k - 1))

Executed == opt.executions[execution]

Item(dir, kind, name, number) == <<dir, kind, name, number>>

\* create_file and create_remove_dirs
CreateItem(item, collective) ==
    IF item[2] = "dir" \/ collective THEN On("create", item)
    ELSE IF opt.mknod THEN On("mknod", item)
    ELSE On("create", item)
         \o (IF opt.data THEN On("write", item) ELSE << >>)
         \o (IF opt.data /\ opt.verifyWrite THEN On("verify", item) ELSE << >>)

\* The items a rank makes in the tree below dir, with the marks a stonewall
\* needs: a check after every item, and the end of each directory.
CreateItems(r, kind, dir, base, name, from, to, collective) ==
    LET holding == Holding(base)
        InNode(k) ==
            From(from, to, LAMBDA i :
                CreateItem(Item(TreeDir(dir, holding[k].nodes), kind, name,
                                holding[k].number * ItemsPerDir + i), collective)
                \o IF opt.stonewall /\ (collective => kind = "file")
                   THEN <<[op |-> "check", collective |-> collective, n |-> i + 1]>>
                   ELSE << >>)
            \o IF opt.stonewall THEN Sign("dirDone") ELSE << >>
    IN  Each(Len(holding), InNode)

RemoveItems(r, kind, dir, base, name, from, to) ==
    LET holding == Holding(base)
    IN  IF kind = "file" /\ opt.sharedFile /\ r # 0 THEN << >>
        ELSE Each(Len(holding), LAMBDA k : From(from, to, LAMBDA i :
                On("remove", Item(TreeDir(dir, holding[k].nodes), kind, name,
                                  holding[k].number * ItemsPerDir + i))))

ForAllRanks(S(_)) == Each(NumTasks, LAMBDA k : S(k - 1))

\* collective_create_remove: rank 0 acts for every rank.
CreateForAll(r, kind, dir) ==
    ForAllRanks(LAMBDA s :
        CreateItems(r, kind, dir, BaseTree(s), Name(s, 0), 0, ItemsPerDir, TRUE))

\* Creation of the items of one kind in one loop.
CreateLoop(r, kind, loop) ==
    LET dir  == Below(TestDir(r, loop), Tree(r, 0))
        own  == CreateItems(r, kind, dir, BaseTree(r), Name(r, 0), 0, ItemsPerDir, FALSE)
        all  == IF r = 0 THEN CreateForAll(r, kind, dir) ELSE << >>
    IN  (IF opt.unique THEN Barrier ELSE << >>)
        \o (IF ~opt.collective THEN own
            ELSE IF kind = "dir" THEN all
            ELSE all \o Barrier \o own)

\* Where the stat, read and rename loops end.
StopItems(r) == IF loops[r] # 1 THEN ItemsPerDir ELSE count[r]
LeafOffset == IF opt.leafOnly THEN ItemsPerDir * (NumDirs - Leaves) ELSE 0

\* The item number i of a loop.
NumberedItem(r, kind, loop, k, number) ==
    LET dir == Below(TestDir(r, loop), Tree(r, k))
    IN  Item(TreeDir(dir, Climb(BaseTree(r), number)), kind, Name(r, k), number)

\* mdtest_stat, mdtest_read
AccessLoop(op, r, kind, loop, k) ==
    From(0, StopItems(r), LAMBDA i :
        On(op, NumberedItem(r, kind, loop, k,
                            LeafOffset + IF opt.random THEN order[r][i] ELSE i)))

\* rename_dir_test: the first item makes room, the others move up, and the
\* first takes the last free place.
RenameLoop(r, loop) ==
    LET stop    == StopItems(r)
        Nth(i)  == NumberedItem(r, "dir", loop, 1, LeafOffset + i)
        first   == [Nth(0) EXCEPT ![4] = Renamed]
        Move(i) == <<[op |-> "rename",
                      at |-> IF i = stop - 1 THEN first ELSE Nth(i),
                      to |-> IF i = 0 THEN first ELSE Nth(i - 1)]>>
    IN  IF stop = 1 THEN << >> ELSE From(0, stop, Move)

RemoveLoop(r, kind, loop, from, to) ==
    LET dir == Below(TestDir(r, loop), Tree(r, 3))
        Of(s) == RemoveItems(r, kind, dir, BaseTree(s), Name(s, 3), from, to)
    IN  IF ~opt.collective THEN Of(r)
        ELSE IF r = 0 THEN ForAllRanks(Of) ELSE << >>

\* Mutant: items_start stays as the stonewall left it.
RemovalStartKept(r) == done[r]

\* items_start of the removal of files.
RemovalStart(r) == 0

\* One phase, if it is asked for, between its barriers.
Phase(name, r, Loop(_)) ==
    IF name \in Executed
    THEN PhaseBarrier \o From(0, loops[r], Loop) \o PhaseBarrier
    ELSE << >>

\* directory_test: the stonewall holds for the creation, nothing follows it.
DirectoryTest(r) ==
    Barrier
    \o (IF "create" \in Executed /\ opt.stonewall THEN Sign("arm") ELSE << >>)
    \o Phase("create", r, LAMBDA loop : CreateLoop(r, "dir", loop))
    \o Phase("stat", r, LAMBDA loop : AccessLoop("stat", r, "dir", loop, 1))
    \o Phase("read", r, LAMBDA loop : << >>)
    \o (IF count[r] > 1 THEN Phase("rename", r, LAMBDA loop : RenameLoop(r, loop)) ELSE << >>)
    \o Phase("remove", r, LAMBDA loop : RemoveLoop(r, "dir", loop, 0, ItemsPerDir))

\* Mutant: rank 0 tells the others of a status file only if there is one.
StatusCallIfThere(r) == IF r = 0 /\ status = -1 THEN << >> ELSE Call("bcast")

\* ReadStoneWallingIterations
StatusCall(r) == Call("bcast")

\* file_test up to where the number of items is known.  The break after the
\* agreement leaves the other loops out.
FileCreation(r) ==
    Barrier
    \o (IF "create" \in Executed
        THEN IF opt.stonewall
             THEN PhaseBarrier \o Sign("arm") \o CreateLoop(r, "file", 0) \o Sign("agree")
                  \o PhaseBarrier
             ELSE Phase("create", r, LAMBDA loop : CreateLoop(r, "file", loop))
        ELSE IF opt.statusFile THEN StatusCall(r) \o Sign("readStatus") ELSE << >>)

FileTest(r) ==
    Phase("stat", r, LAMBDA loop : AccessLoop("stat", r, "file", loop, 1))
    \o Phase("read", r, LAMBDA loop : AccessLoop("read", r, "file", loop, 2))
    \o Phase("remove", r, LAMBDA loop :
          RemoveLoop(r, "file", loop, RemovalStart(r), perDir[r]))

\* The trees one rank makes and removes.
OwnTrees(r) ==
    IF ~opt.unique THEN (IF r = 0 THEN <<Shared>> ELSE << >>) ELSE <<r>>

TreeSteps(op, r) ==
    From(0, loops[r], LAMBDA loop : Each(Len(OwnTrees(r)), LAMBDA t :
        LET walk == Walk(BaseTree(r), op = "mkdir")
        IN  Each(Len(walk), LAMBDA n :
                On(op, TreeDir(Below(TestDir(r, loop), OwnTrees(r)[t]), walk[n].nodes)))))

TestDirSteps(op, r) ==
    IF r < opt.paths THEN From(0, loops[r], LAMBDA loop : On(op, TestDir(r, loop))) ELSE << >>
----------------------------------------------------------------------------
Roots == {<<p>> : p \in 0 .. opt.paths - 1}

Init ==
    /\ opt \in Options
    /\ execution = 1
    /\ dirs \in {{}, Roots}
    /\ items = << >>
    /\ status = -1
    /\ pc = [r \in Ranks |-> "begin"]
    /\ todo = [r \in Ranks |-> << >>]
    /\ iteration = [r \in Ranks |-> 1]
    /\ count = [r \in Ranks |-> 0]
    /\ loops = [r \in Ranks |-> 0]
    /\ order = [r \in Ranks |-> << >>]
    /\ done = [r \in Ranks |-> 0]
    /\ perDir = [r \in Ranks |-> 0]
    /\ over = [r \in Ranks |-> FALSE]
    /\ madeRoot = [r \in Ranks |-> FALSE]
    /\ err = [r \in Ranks |-> 0]
    /\ calls = [r \in Ranks |-> << >>]

Go(r, where) == pc' = [pc EXCEPT ![r] = where]
Do(r, steps) == todo' = [todo EXCEPT ![r] = steps]

Shuffles(n) == IF opt.random THEN Permutations(0 .. n - 1) ELSE {<< >>}

\* The start of an execution: the seeds are agreed on, the items counted,
\* the path made, the communicator of the test created.
Startup(r) ==
    /\ pc[r] = "begin"
    /\ iteration' = [iteration EXCEPT ![r] = 1]
    /\ count' = [count EXCEPT ![r] = ItemsAtStart]
    /\ loops' = [loops EXCEPT ![r] = DirectoryLoops]
    /\ \E shuffle \in Shuffles(ItemsAtStart) : order' = [order EXCEPT ![r] = shuffle]
    /\ madeRoot' = [madeRoot EXCEPT ![r] = FALSE]
    /\ Do(r, (IF opt.random THEN Call("barrier") \o Call("bcast") ELSE << >>)
             \o Call("bcast")
             \o (IF r < opt.paths THEN On("mkdirNew", <<r>>) ELSE << >>)
             \o Call("commCreate"))
    /\ Go(r, "test")
    /\ UNCHANGED <<opt, execution, storage, progress, err, calls>>

BeginIteration(r) ==
    /\ pc[r] = "test" /\ todo[r] = << >> /\ iteration[r] <= opt.iterations
    /\ perDir' = [perDir EXCEPT ![r] = ItemsPerDir]
    /\ Do(r, (IF "create" \in Executed
              THEN TestDirSteps("mkdirNew", r) \o Barrier \o TreeSteps("mkdir", r) \o Barrier
              ELSE << >>)
             \o (IF "dir" \in opt.kinds THEN DirectoryTest(r) ELSE << >>)
             \o (IF "file" \in opt.kinds THEN FileCreation(r) ELSE << >>)
             \o Sign("rest"))
    /\ UNCHANGED <<opt, execution, storage, pc, setup, done, over, err, calls>>

At(r, op) == todo[r] # << >> /\ Head(todo[r]).op = op
Place(r) == Head(todo[r]).at
Advance(r) == Do(r, Tail(todo[r]))

\* The rest of the iteration, now that the number of items is known.
Rest(r) ==
    /\ At(r, "rest")
    /\ Do(r, (IF "file" \in opt.kinds THEN FileTest(r) ELSE << >>)
             \o Barrier
             \o IF "remove" \in Executed
                THEN TreeSteps("rmdir", r) \o Barrier \o TestDirSteps("rmdirOld", r)
                ELSE << >>)
    /\ count' = IF "file" \in opt.kinds THEN [count EXCEPT ![r] = @ * NumDirsCalc] ELSE count
    /\ iteration' = [iteration EXCEPT ![r] = @ + 1]
    /\ UNCHANGED <<opt, execution, storage, pc, loops, order, progress, madeRoot, err, calls>>

\* The results and errors are collected; who made the path removes it.
Closing(r) ==
    /\ pc[r] = "test" /\ todo[r] = << >> /\ iteration[r] > opt.iterations
    /\ Do(r, Call("gather") \o Call("reduce") \o Barrier
             \o IF madeRoot[r] /\ "remove" \in Executed
                THEN On("rmdir", <<r % opt.paths>>) ELSE << >>)
    /\ Go(r, "closing")
    /\ UNCHANGED <<opt, execution, storage, setup, progress, err, calls>>

Leave(r) ==
    /\ pc[r] = "closing" /\ todo[r] = << >>
    /\ Go(r, "end")
    /\ UNCHANGED <<opt, execution, storage, todo, setup, progress, err, calls>>

----------------------------------------------------------------------------
(***************************************************************************)
(* Collectives, and the stonewall.                                         *)
(***************************************************************************)
EnterCall(r) ==
    /\ At(r, "call")
    /\ Enter(r, <<Head(todo[r]).kind>>)
    /\ Do(r, <<[Head(todo[r]) EXCEPT !.op = "wait"]>> \o Tail(todo[r]))
    /\ UNCHANGED <<opt, execution, storage, pc, setup, progress, err>>

LeaveCall(r) ==
    /\ At(r, "wait")
    /\ CASE Head(todo[r]).kind = "bcast" -> RootArrived(r)
         [] Head(todo[r]).kind \in {"reduce", "gather"} -> r = 0 => AllArrived(r)
         [] OTHER -> AllArrived(r)
    /\ Advance(r)
    /\ UNCHANGED <<opt, execution, storage, pc, setup, progress, err, calls>>

\* The timer starts.
Arm(r) ==
    /\ At(r, "arm")
    /\ Advance(r)
    /\ done' = [done EXCEPT ![r] = 0]
    /\ over' = [over EXCEPT ![r] = FALSE]
    /\ UNCHANGED <<opt, execution, storage, pc, setup, perDir, err, calls>>

Continue(r) ==
    /\ At(r, "check") /\ ~over[r]
    /\ Advance(r)
    /\ UNCHANGED <<opt, execution, storage, pc, setup, progress, err, calls>>

\* Mutant: the item just created is not counted.
ItemsDoneBefore(r) ==
    IF Head(todo[r]).collective \/ done[r] = 0 THEN Head(todo[r]).n - 1 ELSE done[r]

\* Mutant: one item too many is counted.
ItemsDoneBeyond(r) == ItemsDoneBefore(r) + 2

\* items_done: the first directory that is cut counts, or for rank 0 doing
\* the work of all the last.
ItemsDone(r) == IF Head(todo[r]).collective \/ done[r] = 0 THEN Head(todo[r]).n ELSE done[r]

\* The time is over: the rest of this directory is left out, and of every
\* directory to come all but the first item.
Cut(r) ==
    /\ At(r, "check")
    /\ over' = [over EXCEPT ![r] = TRUE]
    /\ done' = [done EXCEPT ![r] = ItemsDone(r)]
    /\ LET end == SelectInSeq(todo[r], LAMBDA s : s.op = "dirDone")
       IN  Do(r, SubSeq(todo[r], end + 1, Len(todo[r])))
    /\ UNCHANGED <<opt, execution, storage, pc, setup, perDir, err, calls>>

DirDone(r) ==
    /\ At(r, "dirDone")
    /\ Advance(r)
    /\ done' = [done EXCEPT ![r] = perDir[r]]
    /\ UNCHANGED <<opt, execution, storage, pc, setup, perDir, over, err, calls>>

\* updateStoneWallIterations: the ranks' counts meet in an allreduce, and
\* at rank 0 in two reductions.
Agree(r) ==
    /\ At(r, "agree")
    /\ Enter(r, <<"allreduce", "reduce", "reduce">>)
    /\ Do(r, Sign("agreed") \o Tail(todo[r]))
    /\ UNCHANGED <<opt, execution, storage, pc, setup, progress, err>>

MaxIter == Max({done[s] : s \in Ranks})

\* sum_accessed stays 0 at the other ranks.
SumAccessed(r) == IF r = 0 THEN MapThenSumSet(LAMBDA s : done[s], Ranks) ELSE 0

\* Mutant: the count of a rank that goes on stays as it was asked for.
CountUnworn(r, hit) == count

\* o.items after the agreement.
CountWorn(r, hit) == IF hit THEN [count EXCEPT ![r] = MaxIter] ELSE count

Agreed(r) ==
    /\ At(r, "agreed") /\ AllArrived(r)
    /\ LET hit     == count[r] # SumAccessed(r) \div NumTasks
           dir     == Below(TestDir(r, 0), Tree(r, 0))
           missing == CreateItems(r, "file", dir, BaseTree(r), Name(r, 0), done[r], MaxIter, FALSE)
           more    == SelectSeq(missing, LAMBDA s : s.op \notin {"check", "dirDone"})
       IN  /\ count' = CountWorn(r, hit)
           /\ perDir' = [perDir EXCEPT ![r] = MaxIter]
           /\ Do(r, (IF hit THEN more ELSE << >>)
                    \o (IF opt.statusFile /\ r = 0 THEN <<[op |-> "store", n |-> MaxIter]>>
                                                   ELSE << >>)
                    \o Tail(todo[r]))
    /\ UNCHANGED <<opt, execution, storage, pc, iteration, loops, order, done, over, madeRoot,
                   err, calls>>

StoreStatus(r) ==
    /\ At(r, "store")
    /\ Advance(r)
    /\ status' = Head(todo[r]).n
    /\ UNCHANGED <<opt, execution, dirs, items, pc, setup, progress, err, calls>>

ReadStatus(r) ==
    /\ At(r, "readStatus")
    /\ Advance(r)
    /\ IF status = -1 THEN UNCHANGED <<count, loops, perDir>>
       ELSE IF loops[r] > 1
       THEN /\ loops' = [loops EXCEPT ![r] = status \div ItemsPerDir]
            /\ count' = [count EXCEPT ![r] = ItemsPerDir]
            /\ UNCHANGED perDir
       ELSE /\ count' = [count EXCEPT ![r] = status]
            /\ perDir' = [perDir EXCEPT ![r] = status]
            /\ UNCHANGED loops
    /\ UNCHANGED <<opt, execution, storage, pc, iteration, order, madeRoot, done, over, err,
                   calls>>

----------------------------------------------------------------------------
(***************************************************************************)
(* Operations of the backend.                                              *)
(***************************************************************************)
Fail(r) == err' = [err EXCEPT ![r] = @ + 1]
FailUnless(r, ok) == IF ok THEN UNCHANGED err ELSE Fail(r)

Empty(dir) == /\ \A d \in dirs : Len(d) > 1 => Parent(d) # dir
              /\ \A i \in DOMAIN items : i[1] # dir
Exists(r) == Place(r) \in DOMAIN items

MakeDir(r) ==
    /\ At(r, "mkdir")
    /\ LET ok == Place(r) \notin dirs /\ Parent(Place(r)) \in dirs
       IN  /\ dirs' = IF ok THEN dirs \cup {Place(r)} ELSE dirs
           /\ FailUnless(r, ok)
    /\ Advance(r)
    /\ UNCHANGED <<opt, execution, items, status, pc, setup, progress, calls>>

\* Test directories and the path to them are made if access finds none.
MakeDirIfNew(r) ==
    /\ At(r, "mkdirNew")
    /\ LET new == Place(r) \notin dirs
           ok  == Len(Place(r)) = 1 \/ Parent(Place(r)) \in dirs
       IN  /\ dirs' = IF new /\ ok THEN dirs \cup {Place(r)} ELSE dirs
           /\ FailUnless(r, new => ok)
           /\ madeRoot' = IF new /\ Len(Place(r)) = 1 THEN [madeRoot EXCEPT ![r] = TRUE]
                          ELSE madeRoot
    /\ Advance(r)
    /\ UNCHANGED <<opt, execution, items, status, pc, iteration, count, loops, order,
                   progress, calls>>

\* A test directory that is not there is passed over.
RemoveDir(r) ==
    /\ At(r, "rmdir") \/ At(r, "rmdirOld")
    /\ LET ok == Place(r) \in dirs /\ Empty(Place(r))
       IN  /\ dirs' = IF ok THEN dirs \ {Place(r)} ELSE dirs
           /\ FailUnless(r, ok \/ (At(r, "rmdirOld") /\ Place(r) \notin dirs))
    /\ Advance(r)
    /\ UNCHANGED <<opt, execution, items, status, pc, setup, progress, calls>>

\* A file may be there before, a directory or a node may not.  Without the
\* file nothing is written.
CreateOne(r) ==
    /\ At(r, "create") \/ At(r, "mknod")
    /\ LET file == At(r, "create") /\ Place(r)[2] = "file"
           ok   == Place(r)[1] \in dirs /\ (file \/ ~Exists(r))
       IN  /\ items' = IF ok THEN (Place(r) :> Unwritten) @@ items ELSE items
           /\ FailUnless(r, ok)
    /\ Advance(r)
    /\ UNCHANGED <<opt, execution, dirs, status, pc, setup, progress, calls>>

Pattern(number, rank) == <<number, rank>>

WriteOne(r) ==
    /\ At(r, "write")
    /\ items' = IF Exists(r) THEN [items EXCEPT ![Place(r)] = Pattern(Place(r)[4], r)] ELSE items
    /\ Advance(r)
    /\ UNCHANGED <<opt, execution, dirs, status, pc, setup, progress, err, calls>>

VerifyWrite(r) ==
    /\ At(r, "verify")
    /\ FailUnless(r, Exists(r) => items[Place(r)] = Pattern(Place(r)[4], r))
    /\ Advance(r)
    /\ UNCHANGED <<opt, execution, storage, pc, setup, progress, calls>>

StatOne(r) ==
    /\ At(r, "stat")
    /\ FailUnless(r, Exists(r))
    /\ Advance(r)
    /\ UNCHANGED <<opt, execution, storage, pc, setup, progress, calls>>

\* Mutant: the pattern of the stat phase's rank.
PretendRankOfStat(r) == IF opt.sharedFile THEN r ELSE Shift(r, 1)

\* pretend_rank: who wrote the file.
PretendRank(r) == IF opt.sharedFile THEN r ELSE Shift(r, 2)

ReadOne(r) ==
    /\ At(r, "read")
    /\ FailUnless(r, /\ Exists(r)
                     /\ opt.data => items[Place(r)] # Unwritten
                     /\ opt.verifyRead =>
                          items[Place(r)] = Pattern(Place(r)[4], PretendRank(r)))
    /\ Advance(r)
    /\ UNCHANGED <<opt, execution, storage, pc, setup, progress, calls>>

Without(item) == [i \in DOMAIN items \ {item} |-> items[i]]

\* rename replaces a directory without entries.
RenameOne(r) ==
    /\ At(r, "rename")
    /\ items' = IF Exists(r) THEN (Head(todo[r]).to :> items[Place(r)]) @@ Without(Place(r))
                ELSE items
    /\ FailUnless(r, Exists(r))
    /\ Advance(r)
    /\ UNCHANGED <<opt, execution, dirs, status, pc, setup, progress, calls>>

RemoveOne(r) ==
    /\ At(r, "remove")
    /\ items' = Without(Place(r))
    /\ FailUnless(r, Exists(r))
    /\ Advance(r)
    /\ UNCHANGED <<opt, execution, dirs, status, pc, setup, progress, calls>>

----------------------------------------------------------------------------
RankStep(r) ==
    \/ Startup(r) \/ BeginIteration(r) \/ Rest(r) \/ Closing(r) \/ Leave(r)
    \/ EnterCall(r) \/ LeaveCall(r)
    \/ Arm(r) \/ Continue(r) \/ Cut(r) \/ DirDone(r)
    \/ Agree(r) \/ Agreed(r) \/ StoreStatus(r) \/ ReadStatus(r)
    \/ MakeDir(r) \/ MakeDirIfNew(r) \/ RemoveDir(r)
    \/ CreateOne(r) \/ WriteOne(r) \/ VerifyWrite(r)
    \/ StatOne(r) \/ ReadOne(r) \/ RenameOne(r) \/ RemoveOne(r)

AllEnded == \A r \in Ranks : pc[r] = "end"

\* The program is started once more, with other phases.
NextExecution ==
    /\ AllEnded /\ execution < Len(opt.executions)
    /\ execution' = execution + 1
    /\ pc' = [r \in Ranks |-> "begin"]
    /\ calls' = [r \in Ranks |-> << >>]
    /\ UNCHANGED <<opt, storage, todo, setup, progress, err>>

Finished == AllEnded /\ execution = Len(opt.executions)

Next == \/ \E r \in Ranks : RankStep(r)
        \/ NextExecution
        \/ Finished /\ UNCHANGED vars

\* Every step uses up a part of a finite program, so the absence of deadlock
\* is what shows that no rank is left waiting in a collective.
Spec == Init /\ [][Next]_vars

----------------------------------------------------------------------------
(***************************************************************************)
(* Options the program takes although its phases then do not match.        *)
(***************************************************************************)
BothCounts(o) == o.items > 0 /\ o.perDir > 0
Strides(o) == o.stride % NumTasks # 0
Creates(o) == \A k \in DOMAIN o.executions : "create" \in o.executions[k] <=> k = 1

\* The stonewall cuts the creation of directories too, and nothing makes
\* up for it; of a deeper tree it leaves gaps; of several loops it does the
\* first; a shuffle stays as long as the test was to be; what rank 0 made
\* for all is not counted.  The next iteration is compared with the count
\* of the last, at rank 0 only.
StonewallApart(o) ==
    o.stonewall /\ \/ "dir" \in o.kinds \/ o.depth > 0 \/ o.iterations > 1 \/ o.random
                   \/ BothCounts(o) /\ o.items # o.perDir
                   \/ o.collective

\* The count of items grows with every iteration.
CountGrows(o) == BothCounts(o) /\ o.depth > 0 /\ o.iterations > 1

\* The inner nodes are named after the reader's tree, not the one it reads.
NodesOfOwnTree(o) == o.unique /\ o.depth > 0 /\ Strides(o)

\* All ranks write the file, and without barriers rank 0 removes it early;
\* a node cannot be made twice.
SharedApart(o) ==
    \/ o.sharedFile /\ (o.verifyRead \/ o.verifyWrite \/ o.mknod \/ ~o.barriers)
    \/ o.collective /\ o.mknod

\* What was cut short can be found by its status file only.
UnknownCount(o) == o.stonewall /\ Len(o.executions) > 1 /\ ~o.statusFile

SoundOption(o) ==
    /\ Creates(o)
    /\ ~(StonewallApart(o) \/ CountGrows(o) \/ NodesOfOwnTree(o) \/ SharedApart(o)
          \/ UnknownCount(o))

----------------------------------------------------------------------------
Kinds == {"bcast", "barrier", "allreduce", "reduce", "gather", "commCreate"}
Ops == {"call", "wait", "mkdir", "mkdirNew", "rmdir", "rmdirOld", "create", "mknod", "write",
        "verify", "stat", "read", "rename", "remove", "check", "dirDone", "arm", "agree",
        "agreed", "store", "readStatus", "rest"}

\* Every variable has its type, and no phase has more items than were asked
\* for: the shuffled array is allocated for that many.
TypeOK ==
    /\ ValidOption(opt)
    /\ execution \in DOMAIN opt.executions
    /\ \A d \in dirs : Len(d) \in {1, 3, 5}
    /\ \A i \in DOMAIN items : i[2] \in {"dir", "file"} /\ i[3] \in Ranks \cup {Shared}
    /\ \A i \in DOMAIN items : items[i] = Unwritten \/ items[i] \in Nat \X Ranks
    /\ status \in -1 .. ItemsAtStart
    /\ pc \in [Ranks -> {"begin", "test", "closing", "end"}]
    /\ \A r \in Ranks : \A n \in DOMAIN todo[r] : todo[r][n].op \in Ops
    /\ iteration \in [Ranks -> 1 .. opt.iterations + 1]
    /\ count \in [Ranks -> Nat]
    /\ opt.random => \A r \in Ranks : count[r] <= Cardinality(DOMAIN order[r])
    /\ loops \in [Ranks -> Nat]
    /\ done \in [Ranks -> 0 .. ItemsPerDir]
    /\ perDir \in [Ranks -> 0 .. ItemsPerDir]
    /\ over \in [Ranks -> BOOLEAN]
    /\ madeRoot \in [Ranks -> BOOLEAN]
    /\ err \in [Ranks -> Nat]
    /\ calls \in [Ranks -> Seq(Kinds)]

\* No rank ever finds an item missing, in its way or with the data of
\* another, although the ranks create, stat, read, rename and remove each
\* other's items, in trees they walk by recursion and climb by division,
\* and the creation may end early.
NoErrors == \A r \in Ranks : err[r] = 0

\* The items in the test directories of the iteration r is in.
PresentIn(j) == {i \in DOMAIN items : i[1][2] = j /\ i[2] = "file"}

RemovalList(r) ==
    LET steps == FlattenSeq([k \in 1 .. loops[r] |-> RemoveLoop(r, "file", k - 1, 0, perDir[r])])
    IN  {steps[n].at : n \in DOMAIN steps}

StatList(r) ==
    LET steps == FlattenSeq([k \in 1 .. loops[r] |-> AccessLoop("stat", r, "file", k - 1, 1)])
    IN  {steps[n].at : n \in DOMAIN steps}

\* Once all ranks know their counts, the files there are exactly those
\* the removal of all ranks will look for, and the stat phase looks for
\* some of them and as many at every rank: all processes "did the same
\* number of operations" (help of -W), in this execution or the one before.
SameWork ==
    (\A r \in Ranks : At(r, "rest")) /\ "file" \in opt.kinds =>
        /\ UNION {RemovalList(r) : r \in Ranks} = PresentIn(iteration[0])
        /\ \A r \in Ranks : StatList(r) \subseteq PresentIn(iteration[0])
        /\ \A r \in Ranks : count[r] = count[0] /\ perDir[r] = perDir[0]

\* After a removal only the path itself may be left, and only if it was
\* there when that execution began.
CleanedUp ==
    Finished /\ "remove" \in Executed =>
        /\ DOMAIN items = {}
        /\ dirs \subseteq Roots
        /\ \A r \in Ranks : madeRoot[r] => <<r>> \notin dirs
=============================================================================
