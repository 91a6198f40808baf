----------------------------- MODULE AioriSteps -----------------------------
(***************************************************************************)
(* What the backends of IOR (aiori-*.c) are made of.  A function of a      *)
(* backend is a sequence of steps: the calls of the storage system and of  *)
(* MPI, in the order of the code.  The sequence is chosen when a rank      *)
(* enters the function, from the options, from the rank and from mem, what *)
(* the backend keeps between its functions.                                *)
(*                                                                         *)
(* A file is <<name, part>>: the name is the rank of a file per process,   *)
(* or Shared, and the part is Whole except for a backend that stores a     *)
(* name in several objects.  Its content is a sequence of units, and a     *)
(* transfer moves XferSize of them.  A unit is <<rank, position>>.         *)
(***************************************************************************)
EXTENDS Mpi, FiniteSets, SequencesExt

CONSTANTS
    Options,        \* the option sets a behaviour may start with
    XferSize,       \* units in a transfer
    MaxRetry,       \* MAX_RETRY of iordef.h
    MaxFaults       \* how often storage moves less than it was asked to

ASSUME AioriAssumption ==
    /\ XferSize \in Nat \ {0}
    /\ MaxRetry \in Nat
    /\ MaxFaults \in Nat

Apis == {"POSIX", "MMAP", "CEPHFS", "CHFS", "FINCHFS", "Gfarm", "IME", "LIBNFS", "PMDK",
         "DUMMY", "MPIIO", "HDF5", "NCMPI", "DFS", "HDFS", "RADOS", "S3-4c",
         "S3-libs3", "S3-curl"}

\* transfers and segments are those of one rank, blocks of transfers and
\* segments of blocks.  shift is what -C adds to the rank of a reader.  stamp
\* is -l timestamp, data that does not depend on the offset.  hints are the
\* switches of the backend that are on.
OptionRecord ==
    [api : Apis, test : {"ior", "directories"}, filePerProc : BOOLEAN, collective : BOOLEAN,
     segments : Nat \ {0}, transfers : Nat \ {0}, shift : Nat, fsync : BOOLEAN,
     fsyncPerWrite : BOOLEAN, single : BOOLEAN, barriers : BOOLEAN, writeCheck : BOOLEAN,
     repetitions : Nat \ {0}, readCheck : BOOLEAN, keep : BOOLEAN, dryRun : BOOLEAN, stamp : BOOLEAN,
     leftover : BOOLEAN, useExisting : BOOLEAN, faults : BOOLEAN, hints : SUBSET STRING]

Shared == -1
Whole == -1
Hole == << >>       \* a unit nobody has written
Stale == <<-1, -1>> \* a unit of a file from before

VARIABLES
    opt,        \* the options
    todo,       \* the steps before each rank
    mem,        \* what each rank and its backend remember
    held,       \* the handles, mappings and descriptors each rank has open
    store,      \* from every file and directory to its content
    uploads,    \* from the files being uploaded in parts to the parts
    faults,     \* how often storage has failed to do all it was asked to
    aborted,    \* MPI_Abort has been called
    sent        \* the values the ranks have given to the collectives

Has(hint) == hint \in opt.hints

\* What a rank can have open.
Things == {"mount", "file", "map", "lock", "dataset", "spaces"}
Holds(r, thing) == held[r][thing] > 0

----------------------------------------------------------------------------
(***************************************************************************)
(* Where the data is.                                                      *)
(***************************************************************************)
BlockSize == opt.transfers * XferSize
Length == opt.segments * BlockSize               \* of what one rank moves
Aggregate == NumTasks * Length                   \* expectedAggFileSize
FileLength == IF opt.filePerProc THEN Length ELSE Aggregate
SegmentSize == IF opt.filePerProc THEN BlockSize ELSE NumTasks * BlockSize

\* (rank + rankOffset) % numTasks
Pretend(r) == (r + mem[r].shift) % NumTasks
Name(r) == IF opt.filePerProc THEN Pretend(r) ELSE Shared
File(r) == <<Name(r), Whole>>
Directory(r) == <<Name(r)>>
OwnsFile(r) == opt.filePerProc \/ r = 0

Offsets(r) ==
    LET start == IF opt.filePerProc THEN 0 ELSE Pretend(r) * BlockSize
    IN  [i \in 1 .. opt.segments * opt.transfers |->
            start + ((i - 1) \div opt.transfers) * SegmentSize
                  + ((i - 1) % opt.transfers) * XferSize]

\* What belongs at a position, where k is its place in its transfer.
Datum(r, offset, k) == <<Pretend(r), IF opt.stamp THEN k ELSE offset + k>>

----------------------------------------------------------------------------
(***************************************************************************)
(* Steps.                                                                  *)
(***************************************************************************)
Nothing == << >>
When(condition, steps) == IF condition THEN steps ELSE << >>
Each(n, S(_)) == FlattenSeq([k \in 1 .. n |-> S(k)])

Call(kind) == <<[op |-> "call", kind |-> kind, key |-> "none", to |-> "none"]>>
Barrier == Call("barrier")
\* A broadcast of rank 0's mem[key], and an allreduce of every rank's, into to.
Share(key) == <<[op |-> "call", kind |-> "bcast", key |-> key, to |-> key]>>
Reduce(kind, key, to) == <<[op |-> "call", kind |-> kind, key |-> key, to |-> to]>>
Gather(key, to) == <<[op |-> "call", kind |-> "gather", key |-> key, to |-> to]>>

\* Opening: what to do if the file is there, and if it is not.
OpenFile(file, flags) == <<[op |-> "open", file |-> file, flags |-> flags]>>
Existing == {}
Creating == {"create"}
Truncating == {"create", "trunc"}
Exclusive == {"create", "excl"}

Resize(file, n) == <<[op |-> "resize", file |-> file, n |-> n]>>
Grow(file, n) == <<[op |-> "grow", file |-> file, n |-> n]>>
Unlink(file) == <<[op |-> "remove", file |-> file]>>
RemoveOrAbort(file) == OpenFile(file, Existing) \o Unlink(file)
RemoveAll(name) == <<[op |-> "removeAll", name |-> name]>>
Rename(file, to) == <<[op |-> "rename", file |-> file, to |-> to]>>
Size(file) == <<[op |-> "size", file |-> file]>>
SizeOrAbort(file) == OpenFile(file, Existing) \o Size(file)
Look(file) == <<[op |-> "look", file |-> file]>>        \* is it there?
Say(there) == <<[op |-> "set", mem |-> [there |-> there]]>>

Hold(thing) == <<[op |-> "hold", thing |-> thing]>>
Drop(thing) == <<[op |-> "drop", thing |-> thing]>>
Remember(change) == <<[op |-> "set", mem |-> change]>>
NoHandle == Remember([fd |-> FALSE])
Return(n) == Remember([moved |-> n])
Abort == <<[op |-> "abort"]>>

\* Any of the values, and an end unless two are the same.
Choose(key, values) == <<[op |-> "choose", key |-> key, values |-> values]>>
Check(key, other) == <<[op |-> "check", key |-> key, other |-> other]>>

StartUpload(file) == <<[op |-> "startUpload", file |-> file]>>
Part(file, number, tag, offset) ==
    <<[op |-> "part", file |-> file, number |-> number, tag |-> tag, offset |-> offset]>>
Complete(file) == <<[op |-> "complete", file |-> file]>>

(***************************************************************************)
(* A function of the backend: for xfer with an access and an offset, for   *)
(* rename with the way, there as 0 and back as 1.                          *)
(***************************************************************************)
ApiAt(function, access, offset) ==
    <<[op |-> "api", function |-> function, access |-> access, offset |-> offset]>>
Api(function) == ApiAt(function, "none", 0)

(***************************************************************************)
(* A read or write of units of a transfer, at a position of the file.      *)
(* offset is the offset IOR means, from the place in the buffer, left the  *)
(* units asked for and total those of the whole; after XferSize units the  *)
(* file is left out up to the next stride.  The policy says what the code  *)
(* does if storage moves less: short is "none" where that is not possible, *)
(* else "retry", "return" or "abort"; failed and eof are "return" or       *)
(* "abort", and so is gaveUp, or "never".  On a retry, moves is FALSE if   *)
(* the same position is used again, shrinks is FALSE if the size of the    *)
(* request stays, and again is TRUE if all of it is done again.            *)
(***************************************************************************)
Policy(short, failed, eof, gaveUp) ==
    [short |-> short, failed |-> failed, eof |-> eof, gaveUp |-> gaveUp,
     moves |-> TRUE, shrinks |-> TRUE, again |-> FALSE]
AllOrAbort == Policy("none", "abort", "abort", "never")

ReadOrWrite(access, file, at, offset, policy) ==
    <<[op |-> "io", write |-> access = "write", file |-> file, at |-> at, offset |-> offset,
       from |-> 0, left |-> XferSize, total |-> XferSize, stride |-> XferSize, tries |-> 0,
       policy |-> policy]>>

\* Where the unit k of a request is in the file.
Place(io, k) == io.at + (k \div XferSize) * io.stride + (k % XferSize)

GivesUp(io) == io.policy.gaveUp # "never" /\ (io.tries > MaxRetry \/ opt.single)

\* Mutant: the rest is taken from the start of the buffer again.
NextRequestFromStart(io, n) ==
    IF io.policy.again THEN [io EXCEPT !.tries = @ + 1]
    ELSE [io EXCEPT !.tries = @ + 1, !.total = @ - n, !.at = IF io.policy.moves THEN @ + n ELSE @,
                    !.left = IF io.policy.shrinks THEN @ - n ELSE @]

\* The request that follows one that moved n units.
NextRequest(io, n) ==
    IF io.policy.again THEN [io EXCEPT !.tries = @ + 1]
    ELSE [io EXCEPT !.tries = @ + 1, !.from = @ + n,
                    !.at = IF io.policy.moves THEN @ + n ELSE @,
                    !.left = IF io.policy.shrinks THEN @ - n ELSE @]

(***************************************************************************)
(* What many backends have in common.                                      *)
(***************************************************************************)
OpenHandle(file, flags) == OpenFile(file, flags) \o Hold("file")
CloseHandle == Drop("file")
MakeDirectory(r) == OpenFile(Directory(r), Exclusive)
RemoveDirectory(r) == RemoveOrAbort(Directory(r))
Moved(r) == <<Name(r), -2>>
RenameFile(r, call) ==
    IF call.offset = 0 THEN Rename(File(r), Moved(r)) ELSE Rename(Moved(r), File(r))
=============================================================================
