--------------------------- MODULE AioriParallel ---------------------------
(***************************************************************************)
(* The backends whose library makes all ranks act together on a shared     *)
(* file: MPI-IO, HDF5 and PnetCDF on top of it, and DAOS DFS, where rank 0 *)
(* opens and hands its handle to the others.                               *)
(***************************************************************************)
EXTENDS AioriSteps

\* A collective of the library on the communicator of the file.
Together(kind) == When(~opt.filePerProc, Call(kind))

(***************************************************************************)
(* aiori-MPIIO.c.  Rank 0 sets the size for all, before they go on.        *)
(***************************************************************************)
SetSize(r, n, kind, S(_, _)) == When(OwnsFile(r), S(File(r), n)) \o Together(kind)

\* Mutant: what an earlier test has left in the file stays.
MpiIoOpenFileKeeping(r, flags) ==
    Together("fileOpen") \o OpenHandle(File(r), flags \cap Creating)
    \o When(Has("preallocate") /\ "create" \in flags,
            SetSize(r, Aggregate, "preallocate", Grow))

MpiIoOpenFile(r, flags) ==
    Together("fileOpen") \o OpenHandle(File(r), flags \cap Creating)
    \o When("trunc" \in flags, SetSize(r, 0, "setSize", Resize))
    \o When(Has("preallocate") /\ "create" \in flags,
            SetSize(r, Aggregate, "preallocate", Grow))

\* The view is set on the open file, with a strided type for every access.
MpiIoOpen(r, flags) ==
    When(~opt.dryRun, MpiIoOpenFile(r, flags))
    \o When(Has("fileView"), Hold("spaces"))
    \o When(Has("fileView") /\ ~Has("strided") /\ ~opt.dryRun, Together("setView"))

\* A collective access reports what it moved, another is done again in full.
MpiIoPolicy ==
    IF opt.collective THEN Policy("return", "abort", "return", "never")
    ELSE [Policy("retry", "abort", "return", "return") EXCEPT !.again = TRUE]

Coalesces(access) == access = "read" \/ (access = "write" /\ opt.stamp)

\* All segments of a transfer at once, from the same buffer.
Strided(io, count) ==
    [io EXCEPT ![1].left = count * XferSize, ![1].total = count * XferSize,
               ![1].stride = SegmentSize]

MpiIoStrided(r, call, io) ==
    LET first == IF opt.filePerProc THEN 1 ELSE Pretend(r) + 1
    IN  IF Coalesces(call.access) /\ call.offset >= first * BlockSize
        THEN Return(XferSize)
        ELSE Together("setView") \o When(opt.collective, Together("accessAll"))
             \o Strided(io, IF Coalesces(call.access) THEN opt.segments ELSE 1)

MpiIoXfer(r, call) ==
    LET io == ReadOrWrite(call.access, File(r), call.offset, call.offset, MpiIoPolicy)
    IN  IF opt.dryRun THEN Return(XferSize)
        ELSE IF Has("fileView") /\ Has("strided") THEN MpiIoStrided(r, call, io)
        ELSE When(opt.collective, Together("accessAll")) \o io

\* Mutant: the types of the view are not freed.
MpiIoCloseKeeping(r) == When(~opt.dryRun, Together("fileClose") \o CloseHandle)

MpiIoClose(r) ==
    When(~opt.dryRun, Together("fileClose") \o CloseHandle)
    \o When(Has("fileView"), IF opt.dryRun THEN Abort ELSE Drop("spaces"))

\* MPIIO_GetFileSize: rank 0 tells the size of a shared file.
MpiIoGetFileSize(r) ==
    IF opt.dryRun THEN Remember([size |-> 0])
    ELSE When(OwnsFile(r), SizeOrAbort(File(r))) \o When(~opt.filePerProc, Share("size"))

MpiIoAccess(r) == IF opt.dryRun THEN Say(TRUE) ELSE Look(File(r))

MpiIo(r, call) ==
    CASE call.function = "create" -> MpiIoOpen(r, Truncating)
      [] call.function = "open"   -> MpiIoOpen(r, Existing)
      [] call.function = "xfer"   -> MpiIoXfer(r, call)
      [] call.function = "fsync"  -> When(~opt.dryRun, Together("fileSync"))
      [] call.function = "close"  -> MpiIoClose(r)
      [] call.function = "remove" -> When(~opt.dryRun, Unlink(File(r)))
      [] call.function = "size"   -> MpiIoGetFileSize(r)
      [] call.function = "access" -> MpiIoAccess(r)
      [] OTHER -> Nothing

(***************************************************************************)
(* aiori-HDF5.c: a data set for every segment, numbered as they are come   *)
(* to.  newly, dataset, suffix and first are newlyOpenedFile, dataSet,     *)
(* dataSetSuffix and firstReadCheck, which malloc leaves with any value.   *)
(***************************************************************************)
HdfOpen(r, flags) ==
    When(~opt.dryRun, Together("fileOpen") \o OpenHandle(File(r), flags))
    \o Hold("spaces")
    \o Remember([newly |-> TRUE])
    \o When(opt.readCheck, Choose("first", BOOLEAN))

\* Mutant: a data set is closed before the first has been opened.
SetupDataSetClosing(r, call, suffix) ==
    Drop("dataset")
    \o When(call.access = "write",
            Together("dataSetCreate") \o Grow(File(r), (suffix + 1) * SegmentSize))
    \o Hold("dataset")

\* SetupDataSet
SetupDataSet(r, call, suffix) ==
    When(~mem[r].newly, Drop("dataset"))
    \o When(call.access = "write",
            Together("dataSetCreate") \o Grow(File(r), (suffix + 1) * SegmentSize))
    \o Hold("dataset")

HdfXfer(r, call) ==
    LET first   == IF call.access = "readCheck" THEN ~mem[r].first ELSE mem[r].first
        start   == IF opt.filePerProc THEN 0 ELSE Pretend(r) * BlockSize
        starts  == /\ (call.offset - start) % SegmentSize = 0
                   /\ call.access = "readCheck" => first
        suffix  == IF mem[r].newly THEN 0 ELSE mem[r].suffix
        dataset == IF starts THEN suffix ELSE mem[r].dataset
    IN  Remember([first |-> first])
        \o IF opt.dryRun THEN Return(XferSize)
           ELSE IF mem[r].newly /\ ~starts THEN Abort
           ELSE When(starts, SetupDataSet(r, call, suffix))
                \o Remember([newly |-> FALSE, dataset |-> dataset,
                             suffix |-> IF starts THEN suffix + 1 ELSE mem[r].suffix])
                \o When(opt.collective, Together("accessAll"))
                \o ReadOrWrite(call.access, File(r),
                               dataset * SegmentSize + (call.offset % SegmentSize),
                               call.offset, AllOrAbort)

HdfClose(r) ==
    When(~opt.dryRun, Drop("dataset") \o Drop("spaces") \o Together("fileClose") \o CloseHandle)

\* H5close gives back what is still open.
Hdf5(r, call) ==
    CASE call.function = "create" -> HdfOpen(r, Truncating)
      [] call.function = "open"   -> HdfOpen(r, Existing)
      [] call.function = "xfer"   -> HdfXfer(r, call)
      [] call.function = "fsync"  -> Together("flush")
      [] call.function = "close"  -> HdfClose(r)
      [] call.function = "remove" -> When(~opt.dryRun, RemoveOrAbort(File(r)))
      [] call.function = "size"   -> MpiIoGetFileSize(r)
      [] call.function = "access" -> MpiIoAccess(r)
      [] call.function = "finalize" -> FlattenSeq([k \in 1 .. held[r]["spaces"] |-> Drop("spaces")])
      [] OTHER -> Nothing

(***************************************************************************)
(* aiori-NCMPI.c: one variable with a record for every block, placed by    *)
(* the real rank.  starts and first are startDataSet and firstReadCheck,   *)
(* which stay with the options over all files.                             *)
(***************************************************************************)
NcOpen(r, flags) == Together("fileOpen") \o OpenHandle(File(r), flags)

DefineVariable == Together("defDim") \o Together("defDim") \o Together("defDim")
                  \o Together("defVar") \o Together("endDef")

NcXfer(r, call) ==
    LET new    == call.offset = Pretend(r) * BlockSize
        first  == IF new /\ call.access = "readCheck" THEN ~mem[r].first ELSE mem[r].first
        starts == (new \/ mem[r].starts) /\ (call.access = "readCheck" => first)
        block  == (call.offset \div SegmentSize) * NumTasks + r
        within == call.offset % BlockSize
    IN  When(starts, When(call.access = "write", DefineVariable)
                     \o When(~opt.collective, Together("beginIndep"))
                     \o Remember([independent |-> ~opt.collective]))
        \o Remember([first |-> first, starts |-> (new \/ mem[r].starts) /\ ~starts])
        \o IF ~opt.collective /\ ~starts /\ ~mem[r].independent THEN Abort
           ELSE When(opt.collective, Together("accessAll"))
                \o ReadOrWrite(call.access, File(r), block * BlockSize + within, call.offset,
                               AllOrAbort)

\* The file is opened in collective mode.
NcMpi(r, call) ==
    CASE call.function = "create" -> NcOpen(r, Truncating) \o Remember([independent |-> FALSE])
      [] call.function = "open"   -> NcOpen(r, Existing) \o Remember([independent |-> FALSE])
      [] call.function = "xfer"   -> NcXfer(r, call)
      [] call.function = "fsync"  -> Together("sync")
      [] call.function = "close"  -> Together("fileClose") \o CloseHandle
      [] call.function = "remove" -> RemoveOrAbort(File(r))
      [] call.function = "size"   -> MpiIoGetFileSize(r)
      [] call.function = "access" -> MpiIoAccess(r)
      [] OTHER -> Nothing

(***************************************************************************)
(* aiori-DFS.c.  A handle is broadcast as its length and its bytes.        *)
(***************************************************************************)
HandleDistribute == Call("bcast") \o Call("bcast")

DfsInit(r) == When(r = 0, Hold("mount"))
              \o HandleDistribute \o HandleDistribute \o HandleDistribute
              \o When(r # 0, Hold("mount"))

DfsFinalize(r) ==
    Barrier \o Barrier \o Drop("mount") \o Barrier \o Barrier
    \o When(Has("destroy"), Call("bcast")) \o Barrier

\* share_file_handle
DfsOpen(r, flags) ==
    When(OwnsFile(r), OpenFile(File(r), flags))
    \o When(~opt.filePerProc, HandleDistribute)
    \o Hold("file")

\* A read that follows a short one goes to the same position; a write is
\* taken for complete.
DfsXfer(r, call) ==
    ReadOrWrite(call.access, File(r), call.offset, call.offset,
                IF call.access = "write" THEN AllOrAbort
                ELSE [Policy("retry", "abort", "abort", "abort") EXCEPT !.moves = FALSE])

\* Rank 0 returns early if the file is not there, and the others wait.
DfsGetFileSize(r) ==
    IF opt.filePerProc THEN Size(File(r))
    ELSE IF r = 0 /\ File(r) \notin DOMAIN store THEN Remember([size |-> -1])
    ELSE When(r = 0, Size(File(r))) \o Share("size")

Dfs(r, call) ==
    CASE call.function = "initialize" -> DfsInit(r)
      [] call.function = "finalize" -> DfsFinalize(r)
      [] call.function = "create" -> DfsOpen(r, Creating)
      [] call.function = "open"   -> DfsOpen(r, Existing)
      [] call.function = "xfer"   -> DfsXfer(r, call)
      [] call.function = "close"  -> CloseHandle
      [] call.function = "remove" -> RemoveOrAbort(File(r))
      [] call.function = "size"   -> DfsGetFileSize(r)
      [] call.function = "mkdir"  -> MakeDirectory(r)
      [] call.function = "rename" -> RenameFile(r, call)
      [] call.function = "rmdir"  -> RemoveDirectory(r)
      [] call.function \in {"access", "stat"} -> Look(File(r))
      [] OTHER -> Nothing
=============================================================================
