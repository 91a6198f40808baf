----------------------------- MODULE AioriFiles -----------------------------
(***************************************************************************)
(* The backends that store a file of IOR as a file: POSIX and MMAP, the    *)
(* file systems with a library (CephFS, CHFS, FINCHFS, Gfarm, IME, NFS),   *)
(* PMDK, HDFS, and the dummy that stores nothing.  fsync changes nothing   *)
(* that is modelled: data is as durable before as after.                   *)
(***************************************************************************)
EXTENDS AioriSteps

(***************************************************************************)
(* aiori-POSIX.c and the functions of aiori.c other backends fall back on. *)
(***************************************************************************)
PosixDirectories(r, call) ==
    CASE call.function = "mkdir"  -> MakeDirectory(r)
      [] call.function = "rmdir"  -> RemoveDirectory(r)
      [] call.function \in {"access", "stat"} -> Look(File(r))

\* Mutant: the other ranks open the file as soon as they come to it.
PosixCreateEarly(r) ==
    IF opt.dryRun THEN NoHandle
    ELSE IF ~Has("lustre") THEN OpenHandle(File(r), Creating)
    ELSE OpenHandle(File(r), IF OwnsFile(r) THEN Exclusive ELSE Existing)

\* Striping is set by the rank that creates the file, and the others wait.
PosixCreate(r) ==
    IF opt.dryRun THEN NoHandle
    ELSE IF ~Has("lustre") THEN OpenHandle(File(r), Creating)
    ELSE IF OwnsFile(r)
         THEN OpenHandle(File(r), Exclusive) \o When(~opt.filePerProc, Barrier)
         ELSE Barrier \o OpenHandle(File(r), Existing)

PosixOpen(r) == IF opt.dryRun THEN NoHandle ELSE OpenHandle(File(r), Existing)

\* The ways out of the loop before its end leave the range locked.
PosixXfer(r, call) ==
    IF opt.dryRun THEN Return(XferSize)
    ELSE When(Has("rangeLocks"), Hold("lock"))
         \o ReadOrWrite(call.access, File(r), call.offset, call.offset,
                        Policy("retry", "return", "return", "return"))
         \o When(Has("rangeLocks"), <<[op |-> "dropIfWhole", thing |-> "lock"]>>)

PosixClose(r) == When(~opt.dryRun, CloseHandle)
PosixDelete(r) == When(~opt.dryRun, Unlink(File(r)))
PosixRename(r, call) == When(~opt.dryRun, RenameFile(r, call))
PosixGetFileSize(r) == IF opt.dryRun THEN Remember([size |-> 0]) ELSE SizeOrAbort(File(r))

Posix(r, call) ==
    CASE call.function = "create" -> PosixCreate(r)
      [] call.function = "open"   -> PosixOpen(r)
      [] call.function = "xfer"   -> PosixXfer(r, call)
      [] call.function = "close"  -> PosixClose(r)
      [] call.function = "remove" -> PosixDelete(r)
      [] call.function = "size"   -> PosixGetFileSize(r)
      [] call.function = "rename" -> PosixRename(r, call)
      [] call.function \in {"mkdir", "rmdir", "access", "stat"} -> PosixDirectories(r, call)
      [] OTHER -> Nothing

(***************************************************************************)
(* aiori-MMAP.c: the file is mapped as far as the test will write it.      *)
(***************************************************************************)
\* A dry run has no file to take the size of, and crashes.
MmapCreate(r) ==
    IF opt.dryRun THEN Abort ELSE PosixCreate(r) \o Resize(File(r), Aggregate) \o Hold("map")

MmapOpen(r) == IF opt.dryRun THEN Abort ELSE PosixOpen(r) \o Hold("map")

MmapXfer(r, call) ==
    ReadOrWrite(call.access, File(r), call.offset, call.offset, AllOrAbort)

MmapClose(r) == Drop("map") \o PosixClose(r)

Mmap(r, call) ==
    CASE call.function = "create" -> MmapCreate(r)
      [] call.function = "open"   -> MmapOpen(r)
      [] call.function = "xfer"   -> MmapXfer(r, call)
      [] call.function = "close"  -> MmapClose(r)
      [] OTHER -> Posix(r, call)

(***************************************************************************)
(* aiori-CEPHFS.c: the mount is made once, and a short transfer is an      *)
(* error.  The size is already the one all ranks agree on.                 *)
(***************************************************************************)
CephOpen(r, flags) == OpenHandle(File(r), flags)

CephXfer(r, call) ==
    ReadOrWrite(call.access, File(r), call.offset, call.offset,
                Policy("abort", "abort", "abort", "never"))

CephGetFileSize(r) ==
    SizeOrAbort(File(r))
    \o IF opt.filePerProc THEN Reduce("sum", "size", "size")
       ELSE Reduce("min", "size", "min") \o Reduce("max", "size", "max")
            \o <<[op |-> "takeMin", to |-> "size"]>>

CephFs(r, call) ==
    CASE call.function = "initialize" -> When(~Holds(r, "mount"), Hold("mount"))
      [] call.function = "finalize" -> Drop("mount")
      [] call.function = "create" -> CephOpen(r, Truncating)
      [] call.function = "open"   -> CephOpen(r, Existing)
      [] call.function = "xfer"   -> CephXfer(r, call)
      [] call.function = "close"  -> CloseHandle
      [] call.function = "remove" -> RemoveOrAbort(File(r))
      [] call.function = "size"   -> CephGetFileSize(r)
      [] call.function \in {"access", "stat"} -> Look(File(r))
      [] call.function = "mkdir"  -> MakeDirectory(r)
      [] call.function = "rmdir"  -> RemoveDirectory(r)
      [] OTHER -> Nothing

(***************************************************************************)
(* aiori-CHFS.c and aiori-FINCHFS.c: what the library moved is returned.   *)
(* They differ in the renaming that only FINCHFS has.                      *)
(***************************************************************************)
ChfsXfer(r, call) ==
    IF opt.dryRun THEN Return(XferSize)
    ELSE ReadOrWrite(call.access, File(r), call.offset, call.offset,
                     Policy("return", "return", "return", "never"))

ChfsFile(r, call) ==
    CASE call.function = "create" -> IF opt.dryRun THEN NoHandle ELSE OpenHandle(File(r), Creating)
      [] call.function = "open"   -> IF opt.dryRun THEN NoHandle ELSE OpenHandle(File(r), Existing)
      [] call.function = "xfer"   -> ChfsXfer(r, call)
      [] call.function = "close"  -> When(~opt.dryRun, CloseHandle)
      [] call.function = "remove" -> When(~opt.dryRun, Unlink(File(r)))

Chfs(r, call) ==
    CASE call.function \in {"create", "open", "xfer", "close", "remove"} -> ChfsFile(r, call)
      [] call.function = "initialize" -> Hold("mount")
      [] call.function = "finalize"   -> Drop("mount")
      [] call.function = "size"  -> IF opt.dryRun THEN Remember([size |-> 0]) ELSE Size(File(r))
      [] call.function = "mkdir" -> When(~opt.dryRun, MakeDirectory(r))
      [] call.function = "rmdir" -> When(~opt.dryRun, RemoveDirectory(r))
      [] call.function \in {"access", "stat"} ->
            IF opt.dryRun THEN Say(TRUE) ELSE Look(File(r))
      [] OTHER -> Nothing

Finchfs(r, call) ==
    IF call.function = "rename" THEN When(~opt.dryRun, RenameFile(r, call)) ELSE Chfs(r, call)

(***************************************************************************)
(* aiori-Gfarm.c: after a short transfer the next one asks for as much.    *)
(***************************************************************************)
GfarmXfer(r, call) ==
    IF opt.dryRun THEN Return(XferSize)
    ELSE ReadOrWrite(call.access, File(r), call.offset, call.offset,
                     [Policy("retry", "abort", "abort", "never") EXCEPT !.shrinks = FALSE])

GfarmFile(r, call) ==
    CASE call.function = "create" ->
            IF opt.dryRun THEN NoHandle ELSE OpenHandle(File(r), Truncating)
      [] call.function = "open" -> IF opt.dryRun THEN NoHandle ELSE OpenHandle(File(r), Existing)
      [] call.function = "close" -> When(~opt.dryRun, CloseHandle)
      [] call.function = "remove" -> When(~opt.dryRun, Unlink(File(r)))
      [] call.function = "size" ->
            IF opt.dryRun THEN Remember([size |-> 0]) ELSE SizeOrAbort(File(r))

Gfarm(r, call) ==
    CASE call.function \in {"create", "open", "close", "remove", "size"} -> GfarmFile(r, call)
      [] call.function = "xfer" -> GfarmXfer(r, call)
      [] call.function = "initialize" -> Hold("mount")
      [] call.function = "finalize"   -> Drop("mount")
      [] call.function = "mkdir" -> When(~opt.dryRun, MakeDirectory(r))
      [] call.function = "rmdir" -> When(~opt.dryRun, RemoveDirectory(r))
      [] call.function \in {"access", "stat"} ->
            IF opt.dryRun THEN Say(TRUE) ELSE Look(File(r))
      [] OTHER -> Nothing

(***************************************************************************)
(* aiori-IME.c: after a short transfer the rest goes to the same position. *)
(***************************************************************************)
ImeOpen(r, flags) == IF opt.dryRun THEN NoHandle ELSE OpenHandle(File(r), flags)

ImeXfer(r, call) ==
    IF opt.dryRun THEN Return(XferSize)
    ELSE ReadOrWrite(call.access, File(r), call.offset, call.offset,
                     [Policy("retry", "abort", "abort", "abort") EXCEPT !.moves = FALSE])

ImeNamespace(r, call) ==
    CASE call.function = "close"  -> When(~opt.dryRun, CloseHandle)
      [] call.function = "remove" -> When(~opt.dryRun, Unlink(File(r)))
      [] call.function = "size" ->
            IF opt.dryRun THEN Remember([size |-> 0]) ELSE SizeOrAbort(File(r))
      [] call.function = "mkdir"  -> MakeDirectory(r)
      [] call.function = "rmdir"  -> RemoveDirectory(r)
      [] call.function = "stat"   -> Look(File(r))

Ime(r, call) ==
    CASE call.function = "initialize" -> When(~Holds(r, "mount"), Hold("mount"))
      [] call.function = "finalize" -> When(Holds(r, "mount"), Drop("mount"))
      [] call.function = "access" -> Look(File(r))
      [] call.function = "create" -> ImeOpen(r, Truncating)
      [] call.function = "open"   -> ImeOpen(r, Existing)
      [] call.function = "xfer"   -> ImeXfer(r, call)
      [] call.function \in {"close", "remove", "size", "mkdir", "rmdir", "stat"} ->
            ImeNamespace(r, call)
      [] OTHER -> Nothing

(***************************************************************************)
(* aiori-libnfs.c: reads of the checks are not done and move nothing.      *)
(***************************************************************************)
NfsXfer(r, call) ==
    IF call.access \in {"write", "read"}
    THEN ReadOrWrite(call.access, File(r), call.offset, call.offset,
                     Policy("return", "abort", "return", "never"))
    ELSE Return(0)

NfsNamespace(r, call) ==
    CASE call.function = "mkdir" -> MakeDirectory(r)
      [] call.function = "rmdir" -> RemoveDirectory(r)
      [] call.function \in {"stat", "access"} -> Look(File(r))
      [] call.function = "size" -> SizeOrAbort(File(r))

LibNfs(r, call) ==
    CASE call.function = "initialize" -> When(~Holds(r, "mount"), Hold("mount"))
      [] call.function = "finalize" -> When(Holds(r, "mount"), Drop("mount"))
      [] call.function = "create" -> OpenHandle(File(r), Truncating)
      [] call.function = "open"   -> OpenHandle(File(r), Existing)
      [] call.function = "close"  -> CloseHandle
      [] call.function = "remove" -> RemoveOrAbort(File(r))
      [] call.function = "xfer"   -> NfsXfer(r, call)
      [] call.function \in {"mkdir", "rmdir", "stat", "access", "size"} -> NfsNamespace(r, call)
      [] OTHER -> Nothing

(***************************************************************************)
(* aiori-PMDK.c: a mapping for every rank.  Closing unmaps one transfer of *)
(* it, all of it only if there is no more.                                 *)
(***************************************************************************)
PmdkCreate(r) ==
    IF ~opt.filePerProc THEN Abort
    ELSE OpenFile(File(r), Exclusive) \o Resize(File(r), Length) \o Hold("map")

PmdkOpen(r) ==
    IF ~opt.filePerProc THEN Abort ELSE OpenFile(File(r), Existing) \o Hold("map")

Pmdk(r, call) ==
    CASE call.function = "create" -> PmdkCreate(r)
      [] call.function = "open" -> PmdkOpen(r)
      [] call.function = "xfer" ->
            ReadOrWrite(call.access, File(r), call.offset, call.offset, AllOrAbort)
      [] call.function = "close" -> When(Length = XferSize, Drop("map"))
      [] call.function = "remove" -> Unlink(File(r))
      [] call.function = "size" -> IF ~opt.filePerProc THEN Abort ELSE SizeOrAbort(File(r))
      [] call.function \in {"access", "stat"} -> PosixDirectories(r, call)
      [] OTHER -> Nothing

(***************************************************************************)
(* aiori-HDFS.c: a write goes where the last one of the handle ended, a    *)
(* read to its offset.  In a shared file rank 0 truncates, and the others  *)
(* wait for it.                                                            *)
(***************************************************************************)
\* hdfs_connect
HdfsConnect(r) == When(~Holds(r, "mount"), Hold("mount"))

\* Mutant: rank 0 goes on without the others.
HdfsCreateAhead(r) ==
    Remember([position |-> 0])
    \o IF OwnsFile(r) THEN OpenHandle(File(r), Truncating)
       ELSE Barrier \o OpenHandle(File(r), Creating)

HdfsCreate(r) ==
    Remember([position |-> 0])
    \o IF OwnsFile(r) THEN OpenHandle(File(r), Truncating) \o When(~opt.filePerProc, Barrier)
       ELSE Barrier \o OpenHandle(File(r), Creating)

HdfsXfer(r, call) ==
    LET policy == Policy("retry", "abort", "abort", "abort")
    IN  IF call.access # "write"
        THEN ReadOrWrite(call.access, File(r), call.offset, call.offset, policy)
        ELSE ReadOrWrite(call.access, File(r), mem[r].position, call.offset, policy)
             \o Remember([position |-> mem[r].position + XferSize])

HdfsNamespace(r, call) ==
    CASE call.function = "mkdir" -> MakeDirectory(r)
      [] call.function = "rmdir" -> RemoveDirectory(r)
      [] call.function \in {"access", "stat"} -> Look(File(r))

Hdfs(r, call) ==
    CASE call.function = "create" -> HdfsConnect(r) \o HdfsCreate(r)
      [] call.function = "open"   -> HdfsConnect(r) \o OpenHandle(File(r), Existing)
      [] call.function = "xfer"   -> HdfsXfer(r, call)
      [] call.function = "close"  -> CloseHandle
      [] call.function = "remove" -> HdfsConnect(r) \o Unlink(File(r))
      [] call.function = "size"   -> HdfsConnect(r) \o SizeOrAbort(File(r))
      [] call.function \in {"mkdir", "rmdir", "access", "stat"} ->
            HdfsConnect(r) \o HdfsNamespace(r, call)
      [] OTHER -> Nothing     \* hdfs_disconnect is not called

(***************************************************************************)
(* aiori-DUMMY.c: everything succeeds between its initialization and its   *)
(* end, and nothing is stored.                                             *)
(***************************************************************************)
Dummy(r, call) ==
    CASE call.function = "initialize" -> Hold("mount")
      [] call.function = "finalize"   -> IF Holds(r, "mount") THEN Drop("mount") ELSE Abort
      [] call.function \in {"create", "open"} -> When(~Holds(r, "mount"), Abort)
      [] call.function = "xfer" -> Return(XferSize)
      [] call.function = "size" -> Remember([size |-> 0])
      [] call.function \in {"access", "stat"} -> Say(TRUE)
      [] OTHER -> Nothing
=============================================================================
