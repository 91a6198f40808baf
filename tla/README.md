# TLA+ models of IOR, md-workbench and their backends

IOR measures parallel I/O: an MPI program in which every rank writes and reads
a file (or its own file) in segments, blocks and transfers, through one of many
storage backends. The same repository holds two metadata benchmarks, `mdtest`
and `md-workbench`. What makes these programs hard to get right is not the I/O
calls but what surrounds them: ranks that decide by their own clocks and must
still meet in the same MPI collectives, loops that are cut off at any point and
later resumed, asynchronous operations whose buffers are reused, and phases
that rely on what an earlier phase, another rank, or another execution of the
program left behind. This directory models those parts in TLA+, checks them with
TLC and proves the most important results with TLAPS.

Contents: [Inventory](#inventory), [Modules](#modules),
[Runs](#runs), [Fairness](#fairness), [Proofs](#proofs),
[Not modelled](#not-modelled), [Plan](#plan).

## Inventory

All paths are below `src/src/`.

| component | state | operations | interacts with | hard because | correct when |
|---|---|---|---|---|---|
| Transfer loop, `ior.c: WriteOrRead` | segment, block counters `i`, `j`, `pairCnt`, `hitStonewall`, each rank's clock | prefill, transfer, stonewall, repeat for the minimum time, wear-out, error count | MPI collectives, a backend's `xfer` | every rank has its own clock; loops are cut and resumed; collectives inside loops | ranks stay in the same collectives, order of accesses is kept, equal work after wear-out, every rank returns |
| Test phases, `ior.c: TestIoSys` | per repetition: results, file names, rank offset, `stoneWallingWearOutIterations` | write, write check, read, read check, remove | transfer loop, status file, backend | each phase relies on the ones before it, in this or another execution | checks find no false errors, files are removed or kept as asked, phases start together |
| Status file, `utilities.c`, `ior-output.c` | one number in a file | store, read and broadcast | test phases | rank 0 alone reads the file; the others wait for its broadcast | a later read accesses what was written |
| AIO backend, `aiori-aio.c` | `iocbs[]`, `in_flight`, `pending_bytes`, pool of buffers | enqueue, submit, reap some, reap all, replace the pool | the kernel's queue, POSIX backend | completion in any order, in part, with errors; buffers reused; waits interrupted | one owner per buffer, no overflow, complete data after a drain, every call returns |
| md-workbench, `md-workbench.c` | a FIFO of objects per rank and data set, `current_index`, run-info file | precreate, benchmark round, cleanup, store and read position | MPI collectives, a backend's object calls | readers, writers and creators of an object are different ranks; rounds end early; position survives in a file | no missing or foreign object, working set constant, nothing left behind, ranks stay together |
| mdtest, `mdtest.c` | directory tree, item counts, stonewall result, status file | create, stat, read, rename, remove phases per iteration | MPI collectives, a backend | trees walked by recursion and climbed by division, strides between phases, a creation cut short that later phases and executions must know of | every phase finds the items of the one before it, all ranks have the same work, nothing is left |
| Offsets, `ior.c`, `utilities-rand.c` | seeds, `offsets_rnd`, one random generator per rank, `LFSRRange` | layout of segments/blocks/transfers, shuffles, draws, permutations | transfer loop, file sizes | ranks share out transfers, and later phases repeat earlier ones, by drawing the same numbers; ranges of shift registers that must add up | no transfer done twice or left out, a check goes where the write went, a permutation returns every block once |
| Data patterns, `utilities.c` | time stamp signature, random buffer | generate, update, verify | transfer loop | writer and reader must derive the same signature | a check accepts what the program wrote, and nothing else |
| Options, `option.c`, `parse_options.c` | list of tests | parse, copy from the previous test | test phases | later options override earlier, tests inherit | every test is run as written |
| Output, `ior-output.c` | results per repetition | reduce and print | test phases | floating-point only | |
| Backends, `aiori-*.c` | open files, connections, data sets, uploads, handles shared by broadcast | initialize, create, open, xfer, fsync, close, remove, size, access, stat, mkdir, rmdir, rename, finalize | libraries and storage; some of them MPI collectives | transfers done in part, file views and strides, uploads in parts by many ranks, one rank acting for all, collectives inside a call | data read are those written, sizes agree, nothing stays open, ranks stay together |
| GPU support | device memory | allocate, copy, generate | transfer loop | | |

The components interact by calls, top down, and by MPI collectives, across
ranks; the only state that survives an execution of the program is what it puts
into files. There are no threads and no callbacks; concurrency comes from the
ranks, from the kernel's asynchronous I/O, and from the backends.

The hazards that follow from this, each at its line, are listed in
`PROJECT.json` with the properties that cover them or the reason why none does.

## Modules

    Mpi                      collectives of one communicator
     +- WriteOrRead          the transfer loop             --implements--> AccessPhase
     |   +- MCWriteOrRead
     |   +- WriteOrReadProofs
     |       +- CollectivesProofs
     +- IorTest              the phases of a test          --uses--> AccessPhase
     |   +- MCIorTest
     |   +- IorOrderProofs
     |       +- IorFilesProofs
     |           +- IorErrorsProofs
     +- MdWorkbench          the md-workbench program
     |   +- MCMdWorkbench
     |   +- MdWorkbenchProofs
     +- Mdtest               the mdtest program
     |   +- MCMdtest
     +- LfsrRange            permutations by shift registers
     |   +- RandomAccess     random offsets over the phases of a test
     |       +- MCRandomAccess
     |       +- RandomAccessProofs
     +- AioriSteps           steps the backends are built from
         +- AioriFiles       POSIX, MMAP, CEPHFS, CHFS, FINCHFS, Gfarm, IME, LIBNFS,
         |                   PMDK, HDFS, DUMMY
         +- AioriParallel    MPIIO, HDF5, NCMPI, DFS
         +- AioriObjects     RADOS, S3-4c, S3-libs3, S3-curl
             +- Aiori        a test above each of them, and the storage below
                 +- MCAiori
    AioQueue                 the AIO backend of one rank, and the kernel
     +- MCAioQueue
     +- AioQueueProofs

**Mpi.** Ranks share nothing but MPI collectives. `calls[r]` is the list of the
collectives rank `r` has entered; the n-th of one rank meets the n-th of every
other. A rank that has entered a barrier or an allreduce goes on when all the
others have entered it too (`AllArrived`), one in a broadcast when rank 0 has
(`RootArrived`), rank 0 in a reduction when all have; the other ranks of a
reduction and the root of a broadcast go on at once, which MPI allows. When the
kinds do not match nobody goes on. `SameCollectives` says this never happens; it is
what the comment in `ior.c` about "all or none" asks for.

**WriteOrRead** is one call of `WriteOrRead()` by all ranks. `pc[r]` names the
loop head or the collective rank `r` is at; `i`, `j`, `pairCnt`, `hit` are the
code's variables of those names; `now[r]` is `GetTimeStamp() -
startForStonewall` of that rank in whole units, so that a comparison with the
deadline may come out differently on every rank and after every transfer. One
action takes a rank from one test of a loop to the next:

| code | actions |
|---|---|
| `prefillSegment` for the whole file, the barrier (1847-1856) | `PrefillAll`, `PrefillAllDone` |
| heads of the loops, prefill of one segment (1857-1882) | `PrefillSegment`, `EnterBlock` |
| one transfer, the stonewall and its broadcast (1882-1912) | `Transfer`, `BcastDone` |
| end of a block, of all blocks, the `do ... while` (1913-1915) | `LeaveBlock`, `Repeat`, `LeaveLoop` |
| the allreduce of the counts (1922-1938) | `LeaveLoop`, `AgreeDone` |
| "complete the current block" (1939-1945) | `Resume` |
| the loops of the wear-out (1946-1979) | `WearSegment`, `WearTransfer`, `LeaveWearBlock` |
| `CountErrors` (434-463) | `CountErrors`, `CountErrorsDone` |

What a transfer moves is abstracted to its position `<<i, j>>`. `test` holds what
the code reads of `IOR_param_t`; `ValidTest` is what `ValidateTests` and the
backends' own checks let through. `sync` says that the broadcast of the stonewall
follows every transfer (`synchronizedTransferBoundaries`), which `-c` sets for every backend;
`collective` that the transfer is a collective itself, as in HDF5, PnetCDF and MPIIO only. These three
refuse random offsets with it (1600-1603, aiori-MPIIO.c 119-122); all the others take `-c`
with `-z`. `offsets[r]` is the number of transfers in a
block of rank `r`; it differs between ranks only for random offsets in a shared
file, where each rank counts the draws that fell to it. `iterations[r]` is
`stoneWallingWearOutIterations`, which an option, the status file or the rank's own
write phase sets. `last`, `prefilled`, `touched` and `hitLog` are history: the
latest access, what has been prefilled and written to, the values rank 0 has
broadcast.

**AccessPhase** is what the rest of the program may rely on: ranks access blocks
some number of times and return with that number; with wear-out no rank accesses
more after one that has returned; with a limit no rank exceeds it.
`WriteOrRead!Phase` is the refinement mapping, `ImplementsPhase` the statement
that `WriteOrRead` implements it.

**IorTest** is `TestIoSys()` by all ranks, for one or several executions of the
program. Between two tests of the code a rank makes one step; the call of
`WriteOrRead()` in the middle of each phase is the pair of actions of
`AccessPhase`, instantiated as `Call`, with what the loop above has been proved
to promise and no more.

| code | actions |
|---|---|
| time stamp and its broadcast (1214-1243) | `StartRep`, `StampKnown` |
| `if (... && !test_time_elapsed(...))` of each phase (1249, 1308, 1335) | `Skip`, the guard `Takes` |
| write: remove the old file, barrier, create (1249-1276) | `BeginWrite`, `Create` |
| check: barrier, rank offset, open (1308-1328) | `BeginCheck`, `OpenCheck` |
| read: status file, rank offset, barrier, open (1335-1444) | `BeginRead`, `StatusKnown`, `Reorder`, `OpenRead` |
| barriers between open, access and close | `OpenDone`, `AccessDone` |
| `WriteOrRead()` and `CountErrors()` | `Transfer`, `Return`, `ErrorsKnown` |
| close, `CheckFileSize()`, `ReduceIterResults()` | `Close`, `Closed`, `SizeKnown`, `Reported` |
| the limit a stonewall sets (1298-1301) | `Limit` in `Reported` |
| removal, end of the repetition (1461-1474) | `BeforeRemove`, `Remove`, `EndRep` |
| `ShowTestEnd()` | `ShowTestEnd` |

`files` maps the names of the files there are to their contents: for each rank
whose block it is, the time stamp each transfer was written with, `Hole` where
nothing was written, `Spoilt` where the storage has lost it (`Spoil`, once, and only
with `faulty` storage). A name is `<<rank, repetition>>`; `TestFileName` and `Removed` are
`GetTestFileName` and `RemoveFile`, including the exception for random order.
`late` are the ranks that have found the time limit to be over.
`executions` lists what each run of the program is asked to do; the files
and the status file survive between them.

Simplifications: the nodes run one task each; a limit of 0 and the -1 a rank
other than 0 keeps when the status file is absent are one value, since neither is
ever equal to a count; a short transfer, for which the code aborts, is counted as an
error; several collectives in a row with no decision between them
(`CheckFileSize`, the reductions of the timers) are one.

**AioQueue** is one rank's backend above the kernel. `stage[c]` says where the
operation of control block `c` is: collected in `iocbs[]` (`"queued"`), with the
kernel, complete, or free. `pc` and `call` say which function of the backend the
rank is in. `Xfer`, `Drain` are the calls from outside; `ProcessSome`,
`GetSome`, `Interrupted` are `process_some()`; `GetAny`, `ReapOne`,
`Reaped`, `Drained` are `complete_all()` and the loop `process_some()` shares with
it; `SetupPool`, `NewPool` are `aio_setup_pool()`; `Enqueue` is the rest of
`aio_Xfer()`. `Complete(c, n)` is the kernel: it finishes any operation it has,
in any order, with an error, in part, or in full. A `Place` is a range of the
file, which no other overlaps in part.

**MdWorkbench** is the whole benchmark for all ranks, over several executions of the
program. `objects` maps the name `<<owner, data set, index>>` of every
object that exists to its content, the number and rank its pattern was made from;
`index` is `current_index`, `position` the run-info file. One step of
`run_benchmark()` is `Stat`, `Read`, `Remove`, `Create`, `Write` per data set,
then the test of the stonewall: `GoOn`, `BreakOff` (no wear-out), `WearOut` and
`WearOutAgreed`. The stonewall may be found over after any step, as
the clock says nothing else. Every execution is given the same random seed (`-G`), as
different seeds make every verification between executions fail by design.

**Mdtest** is `mdtest_run()` by all ranks, for one or several executions. Its
phases are long straight programs with nested loops whose bounds are known when the phase
begins, so `todo[r]` holds what rank `r` has still to do, a sequence of single calls
made by operators with the names and the nesting of the code:

| code | definitions |
|---|---|
| `mdtest_run`: numbers of directories and items, shuffled order, paths | `NumDirs` ... `DirectoryLoops`, `Shuffles`, `Startup` |
| `mdtest_iteration`: names, test directories, trees | `Shift`, `Name`, `Tree`, `BeginIteration`, `TreeSteps`, `Rest` |
| `create_remove_directory_tree`, `create_remove_items` (recursion) | `Walk`, `Holding` |
| `create_remove_items_helper`, `create_file` | `CreateItems`, `CreateOne`, `WriteOne`, `VerifyWrite` |
| the stonewall in them | `Arm`, `Continue`, `Cut`, `DirDone` |
| `updateStoneWallIterations`, `file_test_create` | `Agree`, `Agreed`, `StoreStatus` |
| `mdtest_stat`, `mdtest_read`: from an item's number to its directory | `Climb`, `NumberedItem`, `StatOne`, `ReadOne` |
| `rename_dir_test`, removal | `RenameLoop`, `RenameOne`, `RemoveLoop`, `RemoveOne` |
| `collective_create_remove` | `CreateForAll`, `RemoveLoop` |

The number of a directory in the tree decides its parent; `Climb` divides an item's number
until it is at the root, as the code does when it builds a path, while `Walk` and
`Holding` descend by recursion: that both name the same directory is what
`NoErrors` needs first. `items` and `dirs` are the storage, shared by all ranks; an item's
content is the number and rank its pattern was made from. `status` is the status file.

**Aiori** is the table of functions `ior_aiori_t` with all that is behind it. `Program(r)`
is what `TestIoSys()` calls (or, for directories, `mdtest.c`), with the
calls of the backend in the order of the code; `Backend` replaces each of them by the steps
of the backend chosen, defined in the three modules `AioriFiles`, `AioriParallel` and
`AioriObjects`, an operator per function of the source. Some thirty kinds of step
(`AioriSteps`) suffice for all nineteen: open, resize, remove, rename or look at a file; move
data; hold or drop a handle, a mapping, a lock, a connection; a collective; a test that
aborts; parts of an upload. The actions of `Aiori` carry out one step of one rank each.

* *Data.* Storage maps files to sequences of units; a unit is who wrote it for which offset
  (`Datum`), `Hole`, or `Stale`. A transfer has `XferSize` units, so it can be done in part.
* *Transfers* (`IoWhole`, `IoShort`, `IoNothing`). A request has a `Policy` that says what
  its backend does when less is moved than was asked for: continue with the rest
  (`NextRequest`: the place in the file and in the buffer is the backend's arithmetic), return
  the count, or abort. `Place` gives the position of a unit in the file, through a file view,
  a strided type, or none.
* *Handles.* `held[r]` counts what the rank has open. A step that makes a handle and is not
  followed by one that drops it is found by `NothingHeld`.
* *Collectives* of the program, of MPI-IO, HDF5, PnetCDF and DAOS, with the values they carry
  (`sent`, `Result`): broadcasts of pool and file handles, sums of sizes, gathered tags.
* *Memory* (`mem`): what a backend keeps in its variables between calls: the current data
  set of HDF5, whether a variable has been defined in PnetCDF, the tags and part numbers of an
  upload.

**LfsrRange** is `LFSRRange` of `utilities-rand.c`, one per rank. The number of blocks is
split into powers of two (`BuildBit`, a bit at a time from the lowest), each with a register
of its own; `Restart`, `Draw`, `Skip` and `Take` are the parts of `u_lfsr_range_step()`:
begin again when all has been returned, draw `left` (the code's `r`), pass over the
ranges it lies beyond, take the block of the range it lies in. What `splitmix64` yields is any
number. `Step` is the shift with its feedback, from the code's table of taps.
`PeriodAssumption` says of a register that its states stand in a ring, `Place` being where
each stands: that its period is maximal, which `src/test/rand.c` checks of the table. TLC
checks it for the sizes of the instance. `given` is history: the blocks returned so far.

**RandomAccess** is where the transfers of `-z` (shuffled), `-z -z` (drawn) and `-z -z -z`
(permuted) go.

| code | actions |
|---|---|
| opening of a phase, `fileSizeForRead` and `segmentCount` (1410-1431) | `Begin` |
| `init_random_seed()` with its broadcast (1618-1643) | `SeedByClock`, `SeedKnown`, `SeedGiven` |
| `GetOffsetArrayRandom()` (1658-1711) | `Shuffle`, by `Shares`, `SecondPass`, `Exchanged`, `OffsetArray` |
| `u_lfsr_range_init()` and its free (1816, 1994) | `SetupRange`, `Close` |
| the transfers of the loops (1857-1913, 1946-1979) | `TransferShuffled`, `TransferDrawn`, `AskRange`, `WithinRange`, `TransferPermuted` |
| a divisor of zero, an offset below zero | `DivideByZero`, `FailBelowZero` |
| no offset fell to a rank that has to wear out | `Spin` |
| stonewall and wear-out (1904-1945) | `LeaveLoop`, `Agreed`, `WornOut` |

`draws` maps each seed used to the numbers that follow it, chosen when they are first
drawn: whoever uses the same seed sees the same numbers, and nothing else is known of them.
`content` says who wrote each place of each file; a place is counted in transfers. `accessed` is
history: where a rank has been in this phase. How the loop counts, stops and resumes is
reduced to `count` and `More`, as `WriteOrRead` has it.

In each module the definitions commented `Mutant:` are plausible errors. They
are not part of the specification. Each property of a passing run fails when the
definition before or after such a mutant is replaced by it, as
`PROJECT.json` lists; that shows that the property depends on that piece of code.

## Runs

| run | module, instance | shows |
|---|---|---|
| `write_or_read` | MCWriteOrRead: 2 ranks, 1-2 segments of 2 (or 1 and 3) transfers, every valid and sound combination of deadline, minimum time, wear-out, iterations (none, 3, different per rank), synchronized and collective transfers, prefill | `TypeOK`, `SameCollectives`, `EqualWork`, `WithinIterations`, `PrefillFirst`, `InOrder`, `Returns`, `ImplementsPhase` hold (271 thousand states) |
| `aio_queue` | MCAioQueue: pool of 2 buffers, granularity 2, 3 control blocks, 2 lengths, 1 place, 2 contents | `TypeOK`, `BuffersOwned`, `NoEagain`, `Durable`, `CallsReturn` hold |
| `md_workbench` | MCMdWorkbench: 3 ranks, 1-2 objects per round, 1-2 data sets, 2 rounds, in one execution or in three, every sound combination of offset, start item, read-only, stonewall, wear-out | `TypeOK`, `NoErrors`, `WorkingSet`, `CleanedUp`, `Finishes` hold (696 thousand states) |
| `ior_test` | MCIorTest: 2 ranks, blocks of 2 transfers, four orders of reading, shared and own files, without stonewall, with, and with wear-out; 2 repetitions with old files; spoilt data; up to 3 executions with the status file | `TypeOK`, `NoFalseErrors`, `OpenFilesExist`, `EvidenceKept`, `FilesAsAsked`, `Finishes` hold (142 thousand states) |
| `mdtest` | MCMdtest: 2 ranks, 540 sound option sets in four groups: shapes of trees (depth 0-2, branching 1-2, items per process, per directory or both, leaves only), contents (written, verified, `mknod`, shared, collective, strided), stonewalls (with and without status file, in one execution or in two), several executions, iterations, paths, shuffled items | `TypeOK`, `NoErrors`, `SameWork`, `CleanedUp`, `SameCollectives` hold (1.1 million states) |
| `backends` | MCAiori: 2 ranks, 19 backends, 677 option sets in six groups: layouts, readers of other ranks' data, leftovers and repetitions, faults (at most 2, retries as the code has them), switches of the backends, directories and dry runs | `TypeOK`, `NoFalseAborts`, `ReadBack`, `SizeTold`, `NothingHeld`, `NothingLeft`, `SameCollectives` hold (849 thousand states) |
| `random_access` | MCRandomAccess: 2 ranks, 46 option sets: shuffles of 1 or 2 segments of 2 transfers, written and then checked or read (with `-C -Q` by another rank), seeds given or from the clock, with stonewall and wear-out, shared and own files; draws and permutations read from files of 0 to 6 blocks | `TypeOK`, `EveryTransferOnce`, `EachBlockOnce`, `ReadsFindData` hold (851 thousand states) |
| `collective_repeat` | collective transfers with a minimum time | `SameCollectives` is violated |
| `spins_past_stonewall` | wear-out with a minimum time above the deadline | `InOrder` is violated |
| `md_stonewall` | 1 rank, stonewall without wear-out, two rounds | `NoErrors` is violated |
| `random_write` | a shared file written with `-z -z` | `NoTrap` is violated |
| `reordered` | PnetCDF with reordered tasks | `ReadsOfOthers` is violated |

The last five are disagreements between the code and its own comments or help
texts; `findings` in `PROJECT.json` quotes them. The passing runs leave out
exactly the parameter classes of these and of the others met on the way, each a named
predicate with its reason:

* `SoundTest` of `WriteOrRead`: `CollectiveRepeat`, `SpinsPastStonewall`; `UnevenBroadcasts` (`-c`
  with `-z` and a deadline in a shared file: every transfer ends with a broadcast of the stonewall,
  for every backend, but each rank does as many transfers as it has drawn. The program refuses the
  pair for HDF5, NCMPI and MPIIO only; with `-a POSIX -c -z -D` a rank waits for ever);
  `PrefillByClock` (a prefill with a stonewall that is not broadcast: each segment begins with a
  barrier, which a rank enters or not by its own stonewall); `EmptyBlock` (wear-out of random offsets in a shared file: a rank
  for which no offset was drawn never reaches the others' count).
* `Overwrites = FALSE` in `AioQueue`: a prefill and the transfer over it may be in
  flight together, and the kernel may apply the prefill last.
* `SoundOption` of `MdWorkbench`: the stonewall without wear-out, and two combinations the
  program warns of.
* `SoundOption` of `IorTest`: `ByClock` (a time limit: every rank asks its own clock, before
  every phase, although the help promises to abort "only between iterations"), and what a user
  must not ask for: a read with nothing to read (`NothingToRead`), a check whose time stamp
  nobody can know (`UnknownStamp`), blocks cut by a stonewall and read by somebody who was
  not told where (`UnknownLength`), and a status file that holds the number of another
  repetition or phase (`StaleStatus`). `ValidateTests` accepts them all; each of these checks then
  reports errors in sound files, or has no file to open.
* `SoundOption` of `Mdtest`: `StonewallApart` (a stonewall together with directories, trees
  below the root, iterations, a shuffle, both counts of items, or collective
  creation), `CountGrows` (with `-n` and `-I` the count is multiplied again in every iteration),
  `NodesOfOwnTree` (inner directories are named after the reader's tree when strided over
  unique ones), `SharedApart`, `UnknownCount`.
* `SoundOption` of `RandomAccess`: `Reseeded` (files per process, a seed from the clock, a
  stonewall and a write check or a read: the write uses the clock's seed as it is, what follows adds
  the rank to it and goes where nothing has been written), `OwnCounts` (a stonewall without wear-out,
  and a reader of another rank's file: it reads on to its own count), `OthersData` (a read check of a
  shared file of which every rank may read the data of all).
* In `Aiori` each property has its own class, and holds for all other options:
  - `Aborts`: a dry run leaves the handle NULL, which `TestIoSys` takes for an error, in
    POSIX, MMAP, CHFS, FINCHFS, Gfarm and IME; in PnetCDF it removes a file that is not there, in
    MPI-IO with a file view it frees types it has not made; `LateTruncation`: without `-g` a
    rank writes a shared file while another has still to create, and so to empty it;
    `SharedHdfs`: HDFS ignores the offset of a write; PMDK maps a file of its own and fresh
    length only; LIBNFS returns 0 from the reads of a check; HDF5 passes over every other read of
    a read check by a flag that is never initialised; the reads of S3-curl return more than
    was asked for.
  - `NothingReturned`: the transfer function of S3-4c has no return statement, so its value
    is any.
  - `Misreads`: DUMMY and dry runs have no data; a strided type moves the buffer of one
    transfer as that of all segments; `WrongRest`: with faults DFS reads on at the same
    offset, IME likewise, Gfarm asks for more than remains, S3-libs3 does not look at the
    result; PnetCDF with reordering is the run `reordered`.
  - `Miscounts`: backends that do not tell a size (DUMMY, HDF5 and PnetCDF tell that of their
    own format, S3-curl is a stub); CEPHFS reduces the sizes over the ranks and `CheckFileSize`
    does so again; MMAP and preallocation give every file the length of all of them; S3-libs3
    tells the size of fragment 0; a file left by an earlier test may be longer.
  - `Keeps`: HDFS never disconnects, PMDK unmaps one transfer of the file, HDF5 makes a data
    space in a dry run that it does not close.

What the properties say:

* `SameCollectives`, `Returns`, `Finishes`: no rank is left alone in a
  collective, whatever the clocks do. A test needs an unlucky clock to see this.
* `InOrder`: across the stonewall, repeats and the wear-out a rank's
  accesses go round its blocks in order. The code resumes with `i--` or `j = 0`
  depending on which loop exit was taken.
* `EqualWork`, `WithinIterations`: after the wear-out all ranks did the same
  amount, and a rank told how much there is does not go further - the code tests
  this by equality.
* `PrefillFirst`: no data is written where some rank has still to prefill.
* `BuffersOwned`, `NoEagain`, `Durable`, `CallsReturn`: see the comments in
  `AioQueue`.
* `NoFalseErrors`: between the write of a block and its check lie a barrier, a
  change of the rank offset, perhaps another execution; the checking rank must have
  the right file, the right stamp and the right length.
* `OpenFilesExist`, `FilesAsAsked`, `EvidenceKept`: who removes which file, and when,
  relative to ranks that still read it or have found errors in it. With
  file-per-process and reordering every rank removes the file it has *read* last,
  a permutation; in random order that would not be one.
* `NoErrors`, `WorkingSet`, `CleanedUp` of `MdWorkbench`: the FIFO of objects is intact
  across ranks, rounds, early ends, and executions.
* `NoErrors`, `SameWork`, `CleanedUp` of `Mdtest`: what the creation of all ranks made is
  exactly what the removal of all ranks looks for and contains what the stat phase of each does,
  also when a stonewall has cut it and the number comes from an allreduce or from the
  status file of an earlier execution.
* `EveryTransferOnce`: in a shared file the ranks' shares are disjoint and complete though
  each rank has drawn them alone; a second pass that sees other numbers leaves gaps in the
  array. `ReadsFindData`: a check goes only where the write has been, also when a stonewall has
  cut it in the middle of a shuffled order. `EachBlockOnce`: over the ranges of a
  permutation, and the next permutation, no block comes twice.
* `ReadBack`: through views, strides, retries, parts and reordering a rank reads what was
  written for the place it asks for. `SizeTold`: after each phase all ranks agree on
  the size of what was moved. `NothingHeld`, `NothingLeft`: on every path through a
  backend what has been opened is closed, what has been made removed. `NoFalseAborts`: no order in
  which ranks come, and no option, makes one call of a backend fail because of
  another.

### Bounds

* `NumTasks`: two ranks suffice for any disagreement of clocks or places; three
  in md-workbench because with offset 1 and two data sets the rank read from, the
  rank written to and the rank itself are then different.
* `MaxTime = 2` (3 in `spins_past_stonewall`): clocks stop there. Deadline and
  minimum time are at most 1, so each clock can be below, at, and above both.
* `MaxPairs = 5`: no new round of the `do ... while` from there on. A
  round has at most 4 transfers (6 for uneven blocks), so there is a complete
  second round, or one cut off in the middle, before it.
* `iterations`: 3 lies inside a block of the second round for one segment and of
  the first for two; `OwnCount` gives ranks different limits.
* IorTest: two ranks, so that a reader can be another rank than the writer and may
  run ahead of it; `Transfers = 2` lets a stonewall cut inside a block. Two
  repetitions leave an old file to the second; three executions let the status
  file be read more than once.
* AIO: with 2 buffers and granularity 2 the queue can be full, half full, and
  partly submitted; the third control block exists so that one operation too many
  would be seen. Two lengths make the pool be replaced. `MaxVolume` bounds how
  much may be pending when a new transfer comes; two operations of the larger
  length stay within it.
  `MaxReap` is the code's 512 and does not matter at this size.
* mdtest: two ranks, so that with a stride of 1 every phase of a rank works on the
  items of the other, and after two phases on its own. Depth 2 with branching 2 has a root, inner
  nodes and leaves, so that climbing takes two divisions. Four items per process do not fill seven
  directories evenly.
* RandomAccess: two ranks, so that a transfer of a shared file may fall to either or all to one
  (`RandMax = 1`: a draw decides that, and one of two places in a shuffle). 3 and 6 blocks are
  made of two ranges, with registers of one bit or none and of two bits; reading 5 blocks of 3
  begins a second permutation in the middle. `Times` has two values, so that ranks which
  take the seed from their clocks may differ. Sizes up to 8 are checked for their period.
  `MaxBlocks` is a bound of the model on the blocks of a range, more than any file of the run has.
* Aiori: `NumTasks = 2`, `XferSize = 3`: a transfer can be cut twice, so that a rest is
  continued and cut again. `MaxFaults = 2` faults in a test; `MaxRetry = 0` instead of 10000
  makes a backend give up when the second attempt is short, within those faults.
  Two segments and two transfers tell the order segmented from strided.
* md-workbench: `precreate = 2`, `num = 1 .. 2` gives rounds shorter than the
  queue and as long as it; two rounds show the effect of one on the next; with two data
  sets the other options are fixed.

## Fairness

Every rank is weakly fair (`WF_vars(RankStep(r))`): an MPI process is run until
it waits in a collective. Every clock is weakly fair up to `MaxTime`: time
passes. The kernel is weakly fair for each operation it has accepted, and nothing
more: it need not complete them in order, nor successfully; signals
(`Interrupted`) need not come. `NextExecution` is fair as the runs are about what
several executions do, not about users who start only one. Storage calls return:
a backend that never returns from a call would make every liveness property
vacuously false, and the code has no provision against it.

`Mdtest` and `Aiori` state no fairness: every step takes an element off a finite `todo`
or replaces it by finitely many simpler ones, so every behaviour that goes on ends, and the
absence of deadlock is what shows that no rank is left waiting. Nor does `RandomAccess`: that
a rank returns is a matter of `WriteOrRead`.

Deadlock is checked in the passing runs; `Returned`, `Finished` and `Aborted`
stand for a call, a program that is over, or `MPI_Abort`.

## Proofs

TLC checks the instances above; TLAPS proves the following for every number of
ranks, every parameter set and every size of the queue.

| theorem | says | rests on |
|---|---|---|
| `WriteOrReadProofs!TypeCorrect` | `Spec => []TypeOK` | `BcastInv` |
| `WriteOrReadProofs!EqualWorkHolds` | `Spec => []EqualWork` | `AgreeInv` |
| `WriteOrReadProofs!WithinIterationsHolds` | `Spec => []WithinIterations` | `WithinInv` |
| `WriteOrReadProofs!InOrderHolds` | `OrderSafe` implies `Spec => InOrder` | `OrderInv` |
| `CollectivesProofs!SameCollectivesHolds` | `CollectivesSafe` implies `Spec => []SameCollectives` | `TraceInv`, `CountInv` |
| `CollectivesProofs!PrefillFirstHolds` | `PrefillSafe` implies `Spec => []PrefillFirst` | `PrefillInv`, `SegmentsInv`, `TraceInv`, `OrderInv` |
| `WriteOrReadProofs!WriteOrReadImplements` | `Spec => ImplementsPhase` | the first three |
| `AioQueueProofs!TypeCorrect` | `Spec => []TypeOK` | `IInv` |
| `AioQueueProofs!BuffersOwnedHolds` | `Spec => []BuffersOwned` | `IInv` |
| `AioQueueProofs!NoEagainHolds` | `Spec => []NoEagain` | `IInv`, a pigeonhole argument |
| `AioQueueProofs!DurableHolds` | `~Overwrites` implies `Spec => []Durable` | `DInv` |
| `RandomAccessProofs!EachBlockOnceHolds` | `Spec => []EachBlockOnce` | `RangeInv` |
| `RandomAccessProofs!PicksWithinHolds` | `Spec => []PicksWithin` | `RangeInv` |
| `RandomAccessProofs!RandomTypesHold` | `Spec => []TypeOK` | `TypeInv` |
| `RandomAccessProofs!EveryTransferOnceHolds` | `Spec => []EveryTransferOnce` | `AInv` |
| `RandomAccessProofs!ReadsFindDataHolds` | `SoundOption`, `WellPhased` imply `ReadsFindData` in all states | `DataInv` |
| `MdWorkbenchProofs!TypeCorrect` | `Spec => []TypeOK` | `Bounds` |
| `MdWorkbenchProofs!NoErrorsHolds` | `AllPlain` implies `Spec => []NoErrors` | `QInv` |
| `MdWorkbenchProofs!WorkingSetHolds` | `AllPlain` implies `Spec => []WorkingSet` | `QInv` |
| `MdWorkbenchProofs!CleanedUpHolds` | `AllPlain` implies `Spec => []CleanedUp` | `QInv` |
| `IorOrderProofs!TypeCorrect` | `Spec => []TypeOK` | `TypeOK` itself |
| `IorOrderProofs!RanksTogether` | `Untimed` implies `Spec => []SInv` | `SInv` |
| `IorFilesProofs!OpenFilesExistHolds` | `Untimed` implies `Spec => []OpenFilesExist` | `SInv`, `OpenInv` |
| `IorFilesProofs!EvidenceKeptHolds` | `Untimed`, `ErrorsTold` imply `Spec => []EvidenceKept` | `SInv`, `OpenInv`, `EvidenceInv` |
| `IorFilesProofs!FilesAsAskedHolds` | `Untimed`, `Provided` imply `Spec => []FilesAsAsked` | `SInv`, `NameInv`, `FilesInv` |
| `IorErrorsProofs!NoFalseErrorsHolds` | `Sound` implies `Spec => []NoFalseErrors` | `EInv` |
| `IorErrorsProofs!LeftForReaders` | `Sound` implies `Spec => []LeftInv` | `EInv` |

But for the types of `IorTest` none of the properties is inductive as it stands.

* `BcastInv`: even the types need it. A rank reads `hitLog[pairCnt[r]]`, which is
  a Boolean only if rank 0 has broadcast that often; so the invariant ties the number
  of broadcasts a rank has entered to its count and those of rank 0 to the length of
  `hitLog`, and lets a rank past each broadcast only after rank 0. It holds for all parameters,
  also where ranks have different numbers of transfers: there a rank may wait
  for ever, but never reads a value nobody has sent.
* `AgreeInv`: a rank is told the largest count only when all ranks have put theirs
  into the allreduce, and these counts do not change after that; what a rank
  is told is therefore an upper bound for all, and somebody's own count.
* `WithinInv`: a rank that has reached its iterations has its stonewall hit. With
  broadcasts another rank's evaluation is received; rank 0's `n`-th
  broadcast is `TRUE` if `n` is the limit, and the limits are equal then
  (`ValidTest`).
* `OrderInv`: for every control point, where `<<i, j>>` is relative to the last
  access. At the end of the main loop it distinguishes a rank that was cut inside a
  block, one cut at the end of a block, and one that finished the file; `Resume` has
  to find the next position from each. `OrderSafe` excludes
  `CollectiveRepeat` and `SpinsPastStonewall`, the classes for which the
  property is false (or relies on another that is).
* `TraceInv`: what a rank has entered is spelled out by where it is. An opening comes
  first: the transfers that are collectives, the broadcasts of the stonewall, and the barriers
  of the prefill - one for the whole file, or one before each segment with the broadcasts of its
  transfers behind it. The closing is the same for
  all: the wear-out's allreduce and reduction, then those of `CountErrors`. The n-th
  collective is a function of n and of the length of the opening (`KindAt`), so
  two ranks can differ only if their openings have different lengths.
* `CountInv`: they have not. Where transfers keep the ranks in step (`Locked`), `pairCnt` is the
  position `i * offsets + j` of a rank, and whether a rank stops there is decided by the position
  alone or by the value rank 0 has broadcast for it (`StopsAt`); a rank in its closing
  has therefore done as many transfers as any other will, and, being in the segment its count
  says (`StoppedIn`), has met the barrier of every segment another has met.
* `PrefillInv`, where one barrier follows the prefill: until a rank has entered its first collective
  nobody writes, and a rank
  enters it only with everything prefilled. It needs `TraceInv` to know that a rank that
  is back at the head of a segment has passed the barrier, and `OrderInv` for the index of
  the segment it is in.
* `SegmentsInv`, where each segment has its own (`Segmented`, a prefill against a deadline with
  `-c`): a rank has prefilled every segment whose barrier it has entered, and in a segment knows that
  all have entered its barrier. What the others have entered follows from the kinds at their places
  (`BarrierMet`): between two barriers stand as many broadcasts as a block has transfers, so
  no rank can be at a barrier of another segment. `CollectivesSafe` excludes `CollectiveRepeat`,
  `UnevenBroadcasts` and `PrefillByClock`, `PrefillSafe` also those of `OrderSafe`: in these classes
  a rank's own clock, or what it has drawn, decides whether it enters another collective.
* `IInv` of `AioQueueProofs`: `in_flight` counts the allocated control blocks
  (`CountInv`), except while events are being looked at; `complete_all` leaves none
  (`DrainedInv`), so the pool can be replaced; a control block in use has an
  operation with all its fields (`OpsInv`).
* `DInv` of `AioQueueProofs`: the one thing `complete_all` looks at is the number
  `pending_bytes`. The bytes of the operations not yet reaped form the set `Owed`, so that
  adding lengths is counting; `pending_bytes` is never less than its cardinality
  (`OwedInv`) and is more as soon as an operation that fell short has been reaped. As
  long as they are equal every place of the file holds what was written last, or
  an operation that will put it right is pending (`FileInv`), and the pending operations of
  a place carry the same data (`CarryInv`). The drain ends with `pending_bytes` at 0
  (`EvenInv`), hence with nothing owed. `Overwrites` must be `FALSE`: the kernel
  reorders writes, and two different ones to a place may end either way.

* `RangeInv` of `RandomAccessProofs`: nothing in a register says which blocks it has
  returned. `ElemOK` ties the three parts of a range together: a block other than the
  first is still to come if the register reaches its state (`Ahead`, the distance along
  the ring of states) in fewer steps than `remaining` has left, and the first one is
  as long as anything is left. One `Step` brings every other state nearer by one
  (`RingStep`), so `remaining` is the number of blocks not returned. The ranges follow
  one another without a gap (`Laid`); while they are built the bits still to come are
  worth what they are short of (`Building`), so they end at the last block.
  When one is chosen, what is left of the draw is less than there is from this
  range on (`Choosing`): that is why the loop over `elem[]` needs no bound.
* `TypeInv` of `RandomAccessProofs`: a rank may be without a seed only in its first phase and
  before it draws. One that gets out of the broadcast finds that rank 0 has a seed, because rank 0
  has entered that broadcast, and it does so only after it has asked the clock; so `SeedInv` keeps
  the collectives a rank without a seed has entered. The array is filled to its end since both
  passes of `GetOffsetArrayRandom` draw the same numbers.
* `AInv` of `RandomAccessProofs`: `count` tells where a rank has been (`Nth`), and the numbers
  drawn for its seed tell which offsets of a segment are in its array (`Filled`, `Due`), each once.
  The ranks of a shared file have the seed of rank 0 (`SeedInv`), so an offset is due to the one rank
  its number names: that makes the shares disjoint, and complete when all have made their pass
  (`SpotsApart`, `SpotsAll`). Transfers and spots are matched by quotient and remainder
  (`OnePassSpots`).
* `DataInv` of `RandomAccessProofs`: what a read finds depends on what another rank has drawn,
  written and given up, phases ago. For a test in shuffled order `ShuffledInv` says it in four
  layers. `MeetInv` counts the collectives of the write phase: a rank that is past it has left
  the barrier every rank enters after its last transfer, so every file is written
  (`AllHaveWritten`). `PlanInv` says that whoever comes to a file has the seed it was written with, hence
  by `draws` the same array, `Plan(f)`; the exception is a seed from the clock for files of their
  own, where only a whole pass helps, since any order of it goes to the same places (`WholePass`).
  `LimitInv` and `WearInv` say how far: the limit of the later phases is what was written, or
  with wear-out the most any rank has written, which all have then reached. `WrittenInv` says that
  the first `Wrote(f)` places of the plan hold data of `f`. A reader's transfers are
  a beginning of the plan no longer than that (`FollowsTheWrite`). For the other orders, which
  read what an earlier execution has left, `OldInv` says that the file has not changed, that
  what is left of a block that was drawn lies within the size learnt at the open (`DrawnInv`),
  and that a permutation is one of its blocks (`PermutedInv`).
  `WellPhased` asks that a test in shuffled order writes, in its first phase and in no other
  (`TestIoSys` does its phases in the order write, write check, read, read check), and that the others do
  not write. That is every set of options of the run but the one in which a write with `-z -z` stops at
  once. Planning this proof showed that `SoundOption` had left out one case: with own files, a
  seed from the clock and a stonewall, a plain read as well as a check may go beyond what was written.
* The loops of `GetOffsetArrayRandom` are functions of their counter (`Shares`, `Exchanged`). That
  they do what `SharesAre` and `ExchangedKeeps` say of any number of turns is an induction over
  data. The library's induction theorems cannot be instantiated here, so it goes by `UpTo`: the
  turns something holds for are a *set*, and if it is not all of them the rest has a least element
  (`WFMin` with `NatLessThanWellFounded`). `SharesLoop` and `ExchangedLoop` show the same way that the
  recursions define a function at all.
* `Bounds` of `MdWorkbenchProofs`: the number of a step stays below `-P`, for which the arrays of
  the measurements are made, only because a rank inside a step is below its `total_num`, one
  that waits for the agreement is below `-P` itself, and `total_num` is only ever lowered to
  what some rank has sent. A rank that is in a phase has one to do, so leaving it is defined.
* `QInv` of `MdWorkbenchProofs`: readers and writers of an object are different ranks, so that nothing
  is missing depends on how far apart these can be. The argument has four layers.
  `PlaceInv` says what a rank's step counters are where it is. `NearInv` counts collectives: a
  rank has entered `Base + Stage` of them, `Base` before the phase and `Stage` in it, and
  `Left` is the last it has left that waits for all; from this no rank is more than one phase ahead of
  another, and none has begun a round while somebody has not ended the last one. `OriginInv`
  says that all ranks begin a phase at the same index, which after a stonewall needs that the number
  agreed on is everybody's, and between executions that the stored position is rank 0's. `QueueInv`
  then is the queue itself: an object is there exactly if its rank has been filled and not cleaned up,
  the one rank that takes from its data set has not come to it, and the one rank that makes in it
  has (`Held`); it holds the writer's data or, between creation and write, none
  (`Content`). That there is one of each is the arithmetic of `Reads` and `Writes`:
  adding a shift modulo the number of ranks is a permutation. A rank in step `i` of a round
  takes the object at `index + i`, which is below `index + precreate` because a round has no
  more steps than objects were precreated; so it is there, wherever the writers are.
  `AllPlain` is the class of options with that property (`num <= precreate`), without a start
  item, and with the wear-out if there is a stonewall.

* `SInv` of `IorOrderProofs`: every place of a repetition has a number (`Pos`), in the order of the
  phases, and the options say at which of them a collective is asked for (`Active`). So what a
  rank has entered in a repetition is a set of places (`Seen`), and the number of collectives
  before the repetition (`Anchor`) is that of the list without them. `NearInv`: two ranks of the same
  repetition have the same `Anchor`, and none is past a collective that waits for all, unless the
  other has come to it; a rank one repetition ahead is before its first such collective and the
  other one at the end of its own. The lemma `Met` turns this round: a rank that leaves a
  collective finds all others at it or past it. One barrier is not the options' choice: the one before the
  removal is entered by those ranks that remove, which with `-K` depends on `errorFound`. It
  fits because ranks agree on it (`ErrorInv`): those that have left the same sums of errors know
  the same, and one that has left a sum more knows what the others are about to be told. That in
  turn needs that nobody finds an error while somebody has left the sum of that phase already, which
  is `NearInv` again; so both are one invariant.
* `OpenInv` of `IorFilesProofs`: a rank has a file open between two barriers only
  (`OpenPlaces`), and the file is there. By `Met` nobody is at these places when a rank
  removes a file before a write or at the end.
* `EvidenceInv`: a rank that finds an error is `Pending` for all those that have not left
  the sum after the phase, and these are all ranks, as they are together. When they have left it
  they know (`errorFound`). So at the removal either nothing has been found or all know of it.
  `ErrorsTold` is the class of options where a sum follows every phase that reads (the code asks for it
  with `-W` or `-R` only); it says nothing about `-k`, nor about tests without `-K`.
* `FilesInv`: who makes a file is the rank whose block it is, who removes it is the rank that has its
  name at the end (`Removing`). `NameInv` says which that is: the name of the last phase that
  gives one, of a block shifted by `FinalOffset`. That every file has its remover is
  the arithmetic of the orders (`FinalOnto`): adding an offset modulo the number of ranks is onto, and
  so is the permutation of the shuffle; the random order is not, which is why
  `RemoveFile` then takes the rank's own. A file is only made when all are in the repetition, so
  the remover is on its way (`RemoverIsThere`). With `-k` the files made stay (`MadeInv`): the only
  removal is that before a write, of a rank's own file, which it then makes again.
* `EInv` of `IorErrorsProofs`: whatever a rank compares, the right data are there. The argument follows
  the data from the writer to the reader, one invariant for each link.
  `StampInv`: a rank past the broadcast of the time stamp has rank 0's, unless rank 0 is in the next
  repetition already. `AtNameInv`: what a rank has open is the file of the block it accesses.
  `CountInv`: the ranks begin an access with nothing counted, no rank goes further than its limit,
  and after the wear-out nobody has done less than another. `WrittenInv`: what a rank past its write has
  written (`Written`, which is in `results` first and in `iterations` later) is all, or what the stonewall
  has let it; with wear-out it is the same for all.
  `ThereInv`, `DataInv`: the file a rank writes to is there from its own creation to the last close, since
  nobody removes it in between, and holds the rank's stamp as far as it has come, which only
  that rank changes. A reader of the same repetition is at most as far as its limit, which is the
  writer's count (`FindsWritten`): either they are the same rank, or there is no stonewall, or there is
  the wear-out.
  Over executions the data are followed from the end. `KeptInv`: when a rank is over with a file it has
  left there what it has written. `StatusInv`: the status file then says at most that. `LeftInv`: so an
  execution that only reads finds what it is told (`FindsLeft`). The stamp it expects is the one
  given by `-G`, and there is no other in the files (`SignedInv`). `CleanInv` is the property itself, as
  long as nothing is spoilt.
* `Sound` is that all options are in `SoundOption`, the classes the runs have too (see Runs). Each clause is
  used: without `UnknownLength` a reader goes further than its writer has, without `StaleStatus` the number
  in the file is another repetition's, without `UnknownStamp` no stamp is the right one, and without
  `NothingToRead` there is no file. Spoilt transfers, all orders of reading, shared and own files,
  old files, repetitions and executions in any number are in it.
* `Untimed` excludes the time limit `-T` only: with it every rank asks its own clock before phases full
  of barriers, and the ranks part (the class `ByClock`). `Provided` is that what an execution
  reads has been written by it or an earlier one. `OptionsAssumption` lists what is used of the rest:
  `ValidateTests`, and that the shuffle exchanges entries, so that it is a permutation. The options of
  the run have all of it.

The refinement theorem uses the three invariants on both sides of a step: the
access of a rank is allowed by `AccessPhase` because `EqualWork` and
`WithinIterations` hold after it, its return because they hold at that point.

Assumptions are those the modules state (`NumTasksAssumption`,
`TestsAssumption`, `PendingAssumption`, `TransferAssumption`,
`DataAssumption`, `SizesAssumption`, `PeriodAssumption`,
`OptionsAssumption`); TLC evaluates them in the runs. The fairness conditions are not used
by any proof.

Only model-checked: all liveness (`Returns`, `CallsReturn`, `Finishes`; TLAPS
proves no liveness under fairness here), `MdWorkbench` with a start item or with the
stonewall and no wear-out where that is sound,
everything about `Mdtest` and the backends of `Aiori`, and that the table of registers has
the period `PeriodAssumption` says (TLC computes it for the sizes of the run; the theorems
hold for any table that has it).

## Not modelled

* The bit patterns of the data: a datum is the rank and offset it is made from. The statistical
  quality of random offsets, and the period of shift registers of more than three bits
  (`PeriodAssumption`; `src/test/rand.c` runs through them).
* A malformed status file (rank 0 then returns from `ReadStoneWallingIterations` without the
  broadcast the others wait in); in `IorTest` prefill and collective transfers, which are inside
  `WriteOrRead`.
* mdtest: `-c` together with `-u`, a range of task counts, Lustre directories, GPFS hints,
  delays between phases, operation timers.
* Output, statistics, conversion of options, GPU support: no state the rest depends on, or
  formatting only.
* HDF5 with a data set per process, which `HDF5_check_params` refuses, and the shortcut of S3-libs3 that
  looks for fragments only of large objects when an environment variable asks for it.
* Of the backends: ioctls and library hints (GPFS, BeeGFS, direct I/O, object classes, chunk sizes,
  replication), shared file pointers, the variants S3_plus and S3_EMC (their `xfer_hints` and option
  functions are missing, so they use a null pointer). A server that is given an empty list of
  parts is assumed to make an empty object.
* Processes that are killed: MPI ends the whole program, and it has no
  recovery; md-workbench's run-info file is only written at a regular end.
* `MPI_Abort` and `FAIL()`: the program ends; a rank simply has no further step.

## Plan

What is left, the most important first.

1. **IorTest**: several tests of one command line in one execution, which share
   `rankOffset`; more than one task per node.
2. **Mdtest**: `-c` with `-u`, and an abstract specification: a set of items that each phase
   maps to the next, which `SameWork` states at one point only.
3. **DataPattern**: what a check accepts.
4. **Options**: the list of tests a command line or a script makes.

Proofs to come: the types of `Mdtest` and `Aiori`, and that the ranks of `Mdtest` do the same work.
