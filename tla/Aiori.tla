------------------------------- MODULE Aiori -------------------------------
(***************************************************************************)
(* A test of ior.c, or the directory calls of mdtest.c, on each of the     *)
(* backends.  Every rank works through its steps; a call of the backend is *)
(* replaced by the steps of that backend, and a transfer that storage does *)
(* in part by what the backend then does.                                  *)
(***************************************************************************)
EXTENDS AioriFiles, AioriParallel, AioriObjects

(***************************************************************************)
(* What the program takes: ValidateTests, the check_params of the backends *)
(* and the backends mdtest is allowed to use (enable_mdtest).              *)
(***************************************************************************)
HintsOf(api) ==
    CASE api = "POSIX"    -> {"lustre", "rangeLocks"}
      [] api = "MMAP"     -> {"lustre"}
      [] api = "MPIIO"    -> {"fileView", "strided", "preallocate"}
      [] api = "DFS"      -> {"destroy"}
      [] api = "S3-libs3" -> {"bucketPerFile"}
      [] OTHER -> {}

Synced == {"POSIX", "MPIIO", "HDF5", "NCMPI", "DUMMY", "PMDK", "MMAP", "HDFS", "DFS", "Gfarm",
           "RADOS", "CEPHFS"}

ForMdtest == {"CEPHFS", "CHFS", "DFS", "DUMMY", "FINCHFS", "Gfarm", "HDFS", "IME", "LIBNFS",
              "POSIX", "S3-4c", "S3-curl", "S3-libs3"}

Supported(o) ==
    /\ o.hints \subseteq HintsOf(o.api)
    /\ o.collective => o.api \in {"MPIIO", "HDF5", "NCMPI"}
    /\ o.fsync => o.api \in Synced
    /\ o.api = "NCMPI" => ~o.filePerProc
    /\ o.api = "S3-4c" /\ ~o.filePerProc => o.segments = 1 \/ o.transfers = 1
    /\ o.test = "directories" => o.filePerProc /\ o.api \in ForMdtest

ASSUME OptionsAssumption == \A o \in Options : o \in OptionRecord /\ Supported(o)

vars == <<opt, todo, mem, held, store, uploads, faults, aborted, sent, calls>>
storage == <<store, uploads>>

----------------------------------------------------------------------------
(***************************************************************************)
(* The driver.                                                             *)
(***************************************************************************)
\* A create or open that returns NULL ends the test.
OpenBy(function) == Api(function) \o <<[op |-> "handle"]>>

IfThere(steps) == <<[op |-> "ifThere", steps |-> steps]>>
Expect(there) == <<[op |-> "expect", there |-> there]>>
Mark == <<[op |-> "sizes"]>>

\* WriteOrReadSingle, for all offsets.
Transfer(access, offset) ==
    ApiAt("xfer", access, offset) \o <<[op |-> "moved", access |-> access, offset |-> offset]>>
    \o When(access = "write" /\ opt.fsyncPerWrite, Api("fsync"))

\* The offsets depend on the shift, so this is looked at when a rank is there.
Transfers(access) == <<[op |-> "transfers", access |-> access]>>

RemoveFile(r) == When(OwnsFile(r), Api("access") \o IfThere(Api("remove")))

CheckFileSize ==
    Api("size")
    \o (IF opt.filePerProc THEN Reduce("sum", "size", "aggregate")
        ELSE Reduce("min", "size", "min") \o Reduce("max", "size", "max")
             \o <<[op |-> "takeMin", to |-> "aggregate"]>>)
    \o Mark \o Call("sum")

Between == When(opt.barriers, Barrier)
Reorder(n) == Remember([shift |-> n])

WritePhase(r) ==
    When(~opt.useExisting, RemoveFile(r)) \o Barrier
    \o OpenBy("create") \o Between \o Transfers("write")
    \o When(opt.fsync, Api("fsync")) \o Between
    \o Api("close") \o Barrier \o CheckFileSize

CheckPhase ==
    Barrier \o Reorder(2 * opt.shift) \o OpenBy("open") \o Transfers("writeCheck")
    \o Api("close") \o Reorder(0)

ReadPhase ==
    Reorder(opt.shift) \o Barrier \o OpenBy("open") \o Between
    \o Transfers(IF opt.readCheck THEN "readCheck" ELSE "read")
    \o Between \o Api("close") \o CheckFileSize

\* TestIoSys, one repetition.
Repetition(r) ==
    Share("stamp") \o WritePhase(r) \o When(opt.writeCheck, CheckPhase) \o ReadPhase
    \o (IF opt.keep THEN Barrier ELSE Barrier \o RemoveFile(r) \o Barrier)
    \o Reorder(0)

\* What mdtest.c asks of a backend for a directory and a file in it.
NamespaceTest ==
    Api("mkdir") \o OpenBy("create") \o Api("close") \o Api("stat") \o Expect(TRUE)
    \o When(opt.api \in {"POSIX", "FINCHFS", "DFS"},
            ApiAt("rename", "none", 0) \o ApiAt("rename", "none", 1))
    \o Api("access") \o Expect(TRUE) \o Api("remove")
    \o Api("access") \o Expect(FALSE) \o Api("rmdir")

\* test_initialize, TestIoSys and test_finalize.
Program(r) ==
    Call("commCreate") \o Api("initialize")
    \o (IF opt.test = "directories" THEN NamespaceTest
        ELSE Each(opt.repetitions, LAMBDA rep : Repetition(r)))
    \o Api("finalize") \o Barrier

\* aiori_select
Backend(r, call) ==
    CASE opt.api = "POSIX"     -> Posix(r, call)
      [] opt.api = "MMAP"      -> Mmap(r, call)
      [] opt.api = "CEPHFS"    -> CephFs(r, call)
      [] opt.api = "CHFS"      -> Chfs(r, call)
      [] opt.api = "FINCHFS"   -> Finchfs(r, call)
      [] opt.api = "Gfarm"     -> Gfarm(r, call)
      [] opt.api = "IME"       -> Ime(r, call)
      [] opt.api = "LIBNFS"    -> LibNfs(r, call)
      [] opt.api = "PMDK"      -> Pmdk(r, call)
      [] opt.api = "HDFS"      -> Hdfs(r, call)
      [] opt.api = "DUMMY"     -> Dummy(r, call)
      [] opt.api = "MPIIO"     -> MpiIo(r, call)
      [] opt.api = "HDF5"      -> Hdf5(r, call)
      [] opt.api = "NCMPI"     -> NcMpi(r, call)
      [] opt.api = "DFS"       -> Dfs(r, call)
      [] opt.api = "RADOS"     -> Rados(r, call)
      [] opt.api = "S3-4c"     -> S34c(r, call)
      [] opt.api = "S3-libs3"  -> Libs3(r, call)
      [] opt.api = "S3-curl"   -> Curl(r, call)

----------------------------------------------------------------------------
Mem ==
    [shift |-> 0, fd |-> FALSE, moved |-> 0, stamp |-> 0, size |-> 0, aggregate |-> 0,
     min |-> 0, max |-> 0, there |-> FALSE, buffer |-> [k \in 1 .. XferSize |-> Stale],
     position |-> 0,
     newly |-> FALSE, dataset |-> 0, suffix |-> 0, first |-> FALSE, starts |-> FALSE,
     independent |-> FALSE,
     connected |-> FALSE, written |-> FALSE, etags |-> << >>, allTags |-> << >>,
     parts |-> 0, maxParts |-> 0]

\* The files of an earlier test are longer.
Leftover ==
    {<<IF opt.filePerProc THEN r ELSE Shared, Whole>> : r \in Ranks}

Init ==
    /\ opt \in Options
    /\ mem = [r \in Ranks |-> Mem]
    /\ todo = [r \in Ranks |-> <<[op |-> "start"]>>]
    /\ held = [r \in Ranks |-> [thing \in Things |-> 0]]
    /\ store = [file \in (IF opt.leftover THEN Leftover ELSE {}) |->
                    [p \in 1 .. FileLength + XferSize |-> Stale]]
    /\ uploads = << >>
    /\ faults = 0
    /\ aborted = FALSE
    /\ sent = [r \in Ranks |-> << >>]
    /\ calls = [r \in Ranks |-> << >>]

At(r, op) == ~aborted /\ todo[r] # << >> /\ Head(todo[r]).op = op
Goes(r) == todo' = [todo EXCEPT ![r] = Tail(@)]
Instead(r, steps) == todo' = [todo EXCEPT ![r] = steps \o Tail(@)]
Recall(r, change) == mem' = [mem EXCEPT ![r] = change @@ @]

Start(r) ==
    /\ At(r, "start") /\ Instead(r, Program(r))
    /\ UNCHANGED <<opt, mem, held, storage, faults, aborted, sent, calls>>

EnterApi(r) ==
    /\ At(r, "api")
    /\ LET call == Head(todo[r])
       IN  /\ Instead(r, Backend(r, call))
           /\ CASE call.function = "xfer" ->
                       Recall(r, [moved |-> 0, buffer |-> [k \in 1 .. XferSize |-> Stale]])
                [] call.function \in {"create", "open"} -> Recall(r, [fd |-> TRUE])
                [] OTHER -> UNCHANGED mem
    /\ UNCHANGED <<opt, held, storage, faults, aborted, sent, calls>>

DoTransfers(r) ==
    /\ At(r, "transfers")
    /\ LET access == Head(todo[r]).access
           offsets == Offsets(r)
       IN  Instead(r, Each(Len(offsets), LAMBDA i : Transfer(access, offsets[i])))
    /\ UNCHANGED <<opt, mem, held, storage, faults, aborted, sent, calls>>

\* What a rank finds out decides whether it goes on.
GoOn(r, well) ==
    /\ IF well THEN Goes(r) /\ UNCHANGED aborted ELSE aborted' = TRUE /\ UNCHANGED todo
    /\ UNCHANGED <<opt, mem, held, storage, faults, sent, calls>>

CheckHandle(r) == At(r, "handle") /\ GoOn(r, mem[r].fd)
CheckMoved(r) == At(r, "moved") /\ GoOn(r, mem[r].moved = XferSize)
CheckEqual(r) ==
    At(r, "check") /\ GoOn(r, mem[r][Head(todo[r]).key] = mem[r][Head(todo[r]).other])
CheckAbort(r) == At(r, "abort") /\ GoOn(r, FALSE)

\* The size all ranks have agreed on is shown; the answer of the backend counts.
Pass(r) ==
    /\ At(r, "sizes") \/ At(r, "expect")
    /\ GoOn(r, TRUE)

RemoveIfThere(r) ==
    /\ At(r, "ifThere")
    /\ Instead(r, When(mem[r].there, Head(todo[r]).steps))
    /\ UNCHANGED <<opt, mem, held, storage, faults, aborted, sent, calls>>

----------------------------------------------------------------------------
(***************************************************************************)
(* Collectives.                                                            *)
(***************************************************************************)
EnterCall(r) ==
    /\ At(r, "call")
    /\ LET call == Head(todo[r])
       IN  /\ Enter(r, <<call.kind>>)
           /\ sent' = [sent EXCEPT ![r] =
                          Append(@, IF call.key = "none" THEN 0 ELSE mem[r][call.key])]
           /\ Instead(r, <<[call EXCEPT !.op = "wait"]>>)
    /\ UNCHANGED <<opt, mem, held, storage, faults, aborted>>

Smallest(S) == CHOOSE x \in S : \A y \in S : x <= y
Largest(S) == CHOOSE x \in S : \A y \in S : x >= y

\* What rank r gets from its n-th collective.
Result(kind, n) ==
    LET given(s) == sent[s][n]
    IN  CASE kind = "bcast"  -> given(0)
          [] kind = "sum"    -> FoldSet(LAMBDA s, total : total + given(s), 0, Ranks)
          [] kind = "min"    -> Smallest({given(s) : s \in Ranks})
          [] kind = "max"    -> Largest({given(s) : s \in Ranks})
          [] kind = "gather" -> [s \in 1 .. NumTasks |-> given(s - 1)]

LeaveCall(r) ==
    /\ At(r, "wait")
    /\ LET call == Head(todo[r])
       IN  /\ CASE call.kind = "bcast"  -> RootArrived(r)
                [] call.kind = "gather" -> r = 0 => AllArrived(r)
                [] OTHER -> AllArrived(r)
           /\ IF call.to = "none" \/ (call.kind = "gather" /\ r # 0) THEN UNCHANGED mem
              ELSE Recall(r, call.to :> Result(call.kind, Len(calls[r])))
    /\ Goes(r)
    /\ UNCHANGED <<opt, held, storage, faults, aborted, sent, calls>>

\* "inconsistent file size by different tasks"
TakeMin(r) ==
    /\ At(r, "takeMin")
    /\ Recall(r, Head(todo[r]).to :> mem[r].min)
    /\ Goes(r)
    /\ UNCHANGED <<opt, held, storage, faults, aborted, sent, calls>>

----------------------------------------------------------------------------
(***************************************************************************)
(* What a rank has, and what its backend remembers.                        *)
(***************************************************************************)
HoldOne(r) ==
    /\ At(r, "hold")
    /\ held' = [held EXCEPT ![r][Head(todo[r]).thing] = @ + 1]
    /\ Goes(r)
    /\ UNCHANGED <<opt, mem, storage, faults, aborted, sent, calls>>

DropOne(r) ==
    /\ At(r, "drop") \/ (At(r, "dropIfWhole") /\ mem[r].moved = XferSize)
    /\ held' = [held EXCEPT ![r][Head(todo[r]).thing] = @ - 1]
    /\ Goes(r)
    /\ UNCHANGED <<opt, mem, storage, faults, aborted, sent, calls>>

KeepLock(r) ==
    /\ At(r, "dropIfWhole") /\ mem[r].moved # XferSize
    /\ GoOn(r, TRUE)

SetMem(r) ==
    /\ At(r, "set") /\ Recall(r, Head(todo[r]).mem) /\ Goes(r)
    /\ UNCHANGED <<opt, held, storage, faults, aborted, sent, calls>>

ChooseOne(r) ==
    /\ At(r, "choose")
    /\ \E value \in Head(todo[r]).values : Recall(r, Head(todo[r]).key :> value)
    /\ Goes(r)
    /\ UNCHANGED <<opt, held, storage, faults, aborted, sent, calls>>

----------------------------------------------------------------------------
(***************************************************************************)
(* Storage.                                                                *)
(***************************************************************************)
There(file) == file \in DOMAIN store
Content(file) == IF There(file) THEN store[file] ELSE << >>
Without(files) == [f \in DOMAIN store \ files |-> store[f]]
Padded(content, n) ==
    [p \in 1 .. n |-> IF p <= Len(content) THEN content[p] ELSE Hole]
Stores(file, content) == store' = (file :> content) @@ store

OpenOne(r) ==
    /\ At(r, "open")
    /\ LET file  == Head(todo[r]).file
           flags == Head(todo[r]).flags
           works == IF There(file) THEN "excl" \notin flags ELSE "create" \in flags
       IN  /\ IF works THEN Goes(r) /\ UNCHANGED aborted ELSE aborted' = TRUE /\ UNCHANGED todo
           /\ IF works /\ (~There(file) \/ "trunc" \in flags) THEN Stores(file, << >>)
              ELSE UNCHANGED store
    /\ UNCHANGED <<opt, mem, held, uploads, faults, sent, calls>>

ResizeOne(r) ==
    /\ At(r, "resize") \/ At(r, "grow")
    /\ LET step == Head(todo[r])
           old  == Content(step.file)
       IN  Stores(step.file, Padded(old, IF step.op = "grow" /\ Len(old) > step.n THEN Len(old)
                                         ELSE step.n))
    /\ Goes(r)
    /\ UNCHANGED <<opt, mem, held, uploads, faults, aborted, sent, calls>>

RemoveOne(r) ==
    /\ At(r, "remove") \/ At(r, "removeAll")
    /\ LET step == Head(todo[r])
       IN  store' = Without(IF step.op = "remove" THEN {step.file}
                            ELSE {f \in DOMAIN store : Len(f) = 2 /\ f[1] = step.name})
    /\ Goes(r)
    /\ UNCHANGED <<opt, mem, held, uploads, faults, aborted, sent, calls>>

RenameOne(r) ==
    /\ At(r, "rename")
    /\ LET step == Head(todo[r])
       IN  store' = (step.to :> store[step.file]) @@ Without({step.file})
    /\ Goes(r)
    /\ UNCHANGED <<opt, mem, held, uploads, faults, aborted, sent, calls>>

LookOne(r) ==
    /\ At(r, "look") \/ At(r, "size")
    /\ LET step == Head(todo[r])
       IN  Recall(r, IF step.op = "look" THEN [there |-> There(step.file)]
                     ELSE [size |-> IF There(step.file) THEN Len(store[step.file]) ELSE -1])
    /\ Goes(r)
    /\ UNCHANGED <<opt, held, storage, faults, aborted, sent, calls>>

\* The unit of the buffer a request writes k-th.
Unit(r, io, k) ==
    IF io.from + k >= io.total THEN Stale
    ELSE Datum(r, io.offset, (io.from + k) % XferSize)

Written(r, io, n) ==
    LET old == Content(io.file)
        end == Place(io, n - 1) + 1
    IN  [p \in 1 .. (IF Len(old) > end THEN Len(old) ELSE end) |->
            IF \E k \in 0 .. n - 1 : Place(io, k) + 1 = p
            THEN Unit(r, io, CHOOSE k \in 0 .. n - 1 : Place(io, k) + 1 = p)
            ELSE IF p <= Len(old) THEN old[p] ELSE Hole]

\* The buffer after n units have been read.
ReadInto(buffer, io, n) ==
    [j \in 1 .. XferSize |->
        LET ks == {k \in 0 .. n - 1 : io.from + k < io.total
                                      /\ (io.from + k) % XferSize = j - 1}
        IN  IF ks = {} THEN buffer[j] ELSE Content(io.file)[Place(io, Largest(ks)) + 1]]

\* How much of a request storage can do.
Reach(io) ==
    IF io.write THEN io.left
    ELSE Cardinality({k \in 0 .. io.left - 1 : Place(io, k) < Len(Content(io.file))})

\* n units are moved, and the backend has the count in its variables.
Moves(r, io, n) ==
    IF io.write THEN Stores(io.file, Written(r, io, n)) /\ UNCHANGED uploads
    ELSE UNCHANGED storage

MemAfter(r, io, n, moved) ==
    Recall(r, [moved |-> moved,
               buffer |-> IF io.write THEN mem[r].buffer ELSE ReadInto(mem[r].buffer, io, n)])

\* All that was asked for, or as much as a larger request still needed.
IoWhole(r) ==
    /\ At(r, "io")
    /\ LET io == Head(todo[r])
           n  == Reach(io)
       IN  /\ n = io.left \/ (n > 0 /\ io.from + n >= io.total)
           /\ Moves(r, io, n)
           /\ MemAfter(r, io, n, XferSize)
    /\ Goes(r)
    /\ UNCHANGED <<opt, held, faults, aborted, sent, calls>>

\* Less than is needed: because the file ends, or because storage does so.
IoShort(r) ==
    /\ At(r, "io")
    /\ LET io == Head(todo[r])
       IN  \E n \in 1 .. Reach(io) :
            /\ n < io.left /\ io.from + n < io.total
            /\ IF n = Reach(io) THEN UNCHANGED faults
               ELSE /\ opt.faults /\ faults < MaxFaults /\ io.policy.short # "none"
                    /\ faults' = faults + 1
            /\ Moves(r, io, n)
            /\ CASE io.policy.short = "return" ->
                        MemAfter(r, io, n, io.from + n) /\ Goes(r) /\ UNCHANGED aborted
                 [] io.policy.short \in {"abort", "none"} ->
                        aborted' = TRUE /\ UNCHANGED <<todo, mem>>
                 [] io.policy.short = "retry" /\ ~GivesUp(io) ->
                        /\ MemAfter(r, io, n, mem[r].moved)
                        /\ Instead(r, <<NextRequest(io, n)>>) /\ UNCHANGED aborted
                 [] OTHER -> IF io.policy.gaveUp = "return"
                             THEN /\ MemAfter(r, io, n, IF io.policy.again THEN n ELSE io.from)
                                  /\ Goes(r) /\ UNCHANGED aborted
                             ELSE aborted' = TRUE /\ UNCHANGED <<todo, mem>>
    /\ UNCHANGED <<opt, held, sent, calls>>

\* Nothing: at the end of the file, or because storage fails.
IoNothing(r) ==
    /\ At(r, "io")
    /\ LET io  == Head(todo[r])
           eof == Reach(io) = 0
       IN  /\ IF eof THEN UNCHANGED faults
              ELSE opt.faults /\ faults < MaxFaults /\ faults' = faults + 1
           /\ IF (IF eof THEN io.policy.eof ELSE io.policy.failed) = "return"
              THEN Recall(r, [moved |-> io.from]) /\ Goes(r) /\ UNCHANGED aborted
              ELSE aborted' = TRUE /\ UNCHANGED <<todo, mem>>
    /\ UNCHANGED <<opt, held, storage, sent, calls>>

----------------------------------------------------------------------------
(***************************************************************************)
(* Uploads in parts.                                                       *)
(***************************************************************************)
StartOne(r) ==
    /\ At(r, "startUpload")
    /\ uploads' = (Head(todo[r]).file :> << >>) @@ uploads
    /\ Goes(r)
    /\ UNCHANGED <<opt, mem, held, store, faults, aborted, sent, calls>>

\* A part put again replaces the one of its number.
PutPart(r) ==
    /\ At(r, "part")
    /\ LET part == Head(todo[r])
           new  == [tag |-> part.tag,
                    units |-> [k \in 1 .. XferSize |-> Datum(r, part.offset, k - 1)]]
       IN  uploads' = [uploads EXCEPT ![part.file] = (part.number :> new) @@ @]
    /\ Goes(r)
    /\ UNCHANGED <<opt, mem, held, store, faults, aborted, sent, calls>>

\* The list gives the tag of every part, from number 0 on.
CompleteOne(r) ==
    /\ At(r, "complete")
    /\ LET file  == Head(todo[r]).file
           tags  == IF opt.filePerProc THEN mem[r].etags ELSE PartList(mem[r].allTags)
           parts == uploads[file]
           works == \A i \in DOMAIN tags :
                       i - 1 \in DOMAIN parts /\ parts[i - 1].tag = tags[i]
       IN  IF works
           THEN /\ Stores(file, FlattenSeq([i \in DOMAIN tags |-> parts[i - 1].units]))
                /\ uploads' = [f \in DOMAIN uploads \ {file} |-> uploads[f]]
                /\ Goes(r) /\ UNCHANGED aborted
           ELSE aborted' = TRUE /\ UNCHANGED <<todo, storage>>
    /\ UNCHANGED <<opt, mem, held, faults, sent, calls>>

----------------------------------------------------------------------------
RankStep(r) ==
    \/ Start(r) \/ EnterApi(r) \/ DoTransfers(r) \/ RemoveIfThere(r) \/ Pass(r)
    \/ CheckHandle(r) \/ CheckMoved(r) \/ CheckEqual(r) \/ CheckAbort(r)
    \/ EnterCall(r) \/ LeaveCall(r) \/ TakeMin(r)
    \/ HoldOne(r) \/ DropOne(r) \/ KeepLock(r) \/ SetMem(r) \/ ChooseOne(r)
    \/ OpenOne(r) \/ ResizeOne(r) \/ RemoveOne(r) \/ RenameOne(r) \/ LookOne(r)
    \/ IoWhole(r) \/ IoShort(r) \/ IoNothing(r)
    \/ StartOne(r) \/ PutPart(r) \/ CompleteOne(r)

AllEnded == \A r \in Ranks : todo[r] = << >>
Finished == AllEnded \/ aborted

Next == \/ \E r \in Ranks : RankStep(r)
        \/ Finished /\ UNCHANGED vars

\* The absence of deadlock shows that no rank is left waiting in a collective.
Spec == Init /\ [][Next]_vars

----------------------------------------------------------------------------
(***************************************************************************)
(* Properties.                                                             *)
(***************************************************************************)
TypeOK ==
    /\ opt \in OptionRecord
    /\ \A r \in Ranks : /\ DOMAIN mem[r] = DOMAIN Mem
                        /\ held[r] \in [Things -> Nat]
                        /\ Len(sent[r]) = Len(calls[r])
    /\ \A file \in DOMAIN store : \A p \in DOMAIN store[file] :
            store[file][p] \in {Hole, Stale} \cup (Ranks \X (0 .. Aggregate - 1))
    /\ faults \in 0 .. MaxFaults
    /\ aborted \in BOOLEAN

(***************************************************************************)
(* What does not work, for each property; README.md tells why.             *)
(***************************************************************************)
\* A late create empties what a rank that did not wait for it has written.
LateTruncation(o) ==
    /\ ~o.filePerProc /\ ~o.barriers
    /\ \/ o.api \in {"CEPHFS", "IME", "LIBNFS", "Gfarm", "S3-curl"}
       \/ o.api = "S3-libs3" /\ "bucketPerFile" \notin o.hints

\* Writes to a shared file go to the start of it.
SharedHdfs(o) == o.api = "HDFS" /\ ~o.filePerProc

\* After a short transfer the rest comes from or goes to a wrong place, or
\* nothing is made of the failure.
WrongRest(o) == o.faults /\ o.api \in {"DFS", "Gfarm", "IME", "S3-libs3"}

Aborts(o) ==
    \/ o.dryRun /\ o.api \in {"POSIX", "MMAP", "CHFS", "FINCHFS", "Gfarm", "IME", "NCMPI"}
    \/ o.dryRun /\ "fileView" \in o.hints
    \/ LateTruncation(o) \/ SharedHdfs(o)
    \/ o.api = "PMDK" /\ (~o.filePerProc \/ o.useExisting)
    \/ o.api = "LIBNFS" /\ (o.writeCheck \/ o.readCheck)
    \/ o.api = "HDF5" /\ o.readCheck
    \/ o.api = "S3-curl" /\ o.test = "ior"

\* A transfer of S3-4c returns any value.
NothingReturned ==
    opt.api = "S3-4c" /\ \E r \in Ranks : todo[r] # << >> /\ Head(todo[r]).op = "moved"

Misreads(o) ==
    \/ o.dryRun \/ o.api = "DUMMY" \/ "strided" \in o.hints
    \/ LateTruncation(o) \/ SharedHdfs(o) \/ WrongRest(o)
    \/ o.api = "NCMPI" /\ o.shift > 0

Miscounts(o) ==
    \/ o.dryRun \/ o.api \in {"DUMMY", "HDF5", "NCMPI", "S3-curl"}
    \/ LateTruncation(o) \/ SharedHdfs(o) \/ WrongRest(o)
    \/ o.filePerProc /\ (o.api \in {"CEPHFS", "MMAP"} \/ "preallocate" \in o.hints)
    \/ o.faults /\ "strided" \in o.hints
    \/ o.api = "S3-libs3" /\ (~o.filePerProc \/ o.segments * o.transfers > 1
                               \/ "bucketPerFile" \in o.hints)
    \/ o.useExisting /\ o.leftover /\ o.api \notin {"MPIIO", "MMAP", "CEPHFS"}

Keeps(o) ==
    \/ o.api = "HDFS"
    \/ o.api = "PMDK" /\ o.segments * o.transfers > 1
    \/ o.api = "HDF5" /\ o.dryRun

----------------------------------------------------------------------------
\* A test ends early only if storage has failed: no option, and no order in
\* which the ranks come, makes one backend call spoil the next (FAIL and ERR
\* of ior.c and the backends).
NoFalseAborts == aborted => faults > 0 \/ Aborts(opt) \/ NothingReturned

\* What a rank reads is what was written for the place it asked for, through
\* retries, uploads in parts, reordered ranks and repetitions: the data that
\* CompareData would otherwise count as errors, or nobody would look at.
ReadBack ==
    \A r \in Ranks :
        /\ At(r, "moved") /\ Head(todo[r]).access # "write" /\ mem[r].moved = XferSize
        /\ ~Misreads(opt)
        => \A k \in 1 .. XferSize : mem[r].buffer[k] = Datum(r, Head(todo[r]).offset, k - 1)

\* The size all ranks agree on after a phase is that of the data moved, so
\* that CheckFileSize has nothing to warn of; and a file is there for every
\* rank after its creation, and no more after its removal.
SizeTold ==
    \A r \in Ranks :
        /\ At(r, "sizes") => mem[r].aggregate = Aggregate \/ Miscounts(opt)
        /\ At(r, "expect") => \/ mem[r].there = Head(todo[r]).there
                              \/ opt.api \in {"DUMMY", "S3-4c", "S3-curl"}

\* When a file has been closed the rank has no handle, mapping, lock or data
\* space of it any more, and at the end no connection either.
NothingHeld ==
    ~Keeps(opt) =>
        /\ \A r \in Ranks :
            At(r, "api") /\ Head(todo[r]).function \in {"remove", "size", "finalize"}
            => \A thing \in Things \ {"mount"} : ~Holds(r, thing)
        /\ AllEnded => \A r \in Ranks, thing \in Things : ~Holds(r, thing)

\* A test that is not to keep its files leaves no object and no upload.
NothingLeft ==
    AllEnded /\ ~opt.keep => \/ store = << >> /\ uploads = << >>
                             \/ opt.api \in {"DUMMY", "S3-4c"}

\* "changes task ordering to n+1 ordering for readback": -C in
\* doc/sphinx/userDoc/options.rst.  A rank reads what the rank after it
\* wrote, not what it wrote itself.
ReadsOfOthers ==
    \A r \in Ranks :
        At(r, "moved") /\ Head(todo[r]).access = "read" /\ opt.shift > 0
        => \A k \in 1 .. XferSize : mem[r].buffer[k][1] = Pretend(r)
=============================================================================
