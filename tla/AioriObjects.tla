---------------------------- MODULE AioriObjects ----------------------------
(***************************************************************************)
(* The backends that store a file of IOR in objects: RADOS, and the three  *)
(* clients of S3.  An object of S3 is put as a whole, so that a file is    *)
(* uploaded in parts, split in an object per transfer, or replaced by      *)
(* every transfer.                                                         *)
(***************************************************************************)
EXTENDS AioriSteps

\* Put an object without content, and with the units of a transfer.
Empty(file) == OpenFile(file, Truncating)
Put(file, offset) ==
    Empty(file) \o ReadOrWrite("write", file, 0, offset, AllOrAbort)

(***************************************************************************)
(* aiori-RADOS.c: an object for every file.  Opening does not look for it, *)
(* and creating it again leaves it as it is.                               *)
(***************************************************************************)
RadosXfer(r, call) ==
    ReadOrWrite(call.access, File(r), call.offset, call.offset,
                Policy("abort", "abort", "abort", "never"))

Rados(r, call) ==
    CASE call.function = "initialize" -> Hold("mount")
      [] call.function = "finalize" -> Drop("mount")
      [] call.function = "create" -> OpenHandle(File(r), Creating)
      [] call.function = "open"   -> Hold("file")
      [] call.function = "xfer"   -> RadosXfer(r, call)
      [] call.function = "close"  -> CloseHandle
      [] call.function = "remove" -> RemoveOrAbort(File(r))
      [] call.function = "size"   -> SizeOrAbort(File(r))
      [] call.function = "access" -> Look(File(r))
      [] OTHER -> Nothing

(***************************************************************************)
(* aiori-S3-4c.c: uploads in parts.  The other two backends of the file    *)
(* have no hints and no options to work with and crash.  etags are the     *)
(* tags of the parts a rank has put, in order; written tells an open to    *)
(* write from one to read.  The first call of a rank connects, and waits   *)
(* for the others.                                                         *)
(***************************************************************************)
\* s3_connect
S3Connect(r) ==
    When(~mem[r].connected, Barrier \o Remember([connected |-> TRUE]))

\* S3_Create_Or_Open_internal, for parts.  The others get the upload of
\* rank 0.
S3Create(r) ==
    S3Connect(r) \o Remember([written |-> TRUE])
    \o When(OwnsFile(r), Empty(File(r)) \o StartUpload(File(r)))
    \o When(~opt.filePerProc, Call("bcast"))

S3Open(r) == S3Connect(r) \o Remember([written |-> FALSE])

\* The number of the part a rank writes after n others.
PartNumber(r, n) ==
    IF opt.filePerProc THEN n
    ELSE IF opt.segments = 1 THEN r * opt.transfers + n
    ELSE n * NumTasks + r

\* S3_Xfer_internal, writing a part.
S3Part(r, call) ==
    LET n == Len(mem[r].etags)
    IN  Part(File(r), PartNumber(r, n), <<r, n>>, call.offset)
        \o Remember([etags |-> Append(mem[r].etags, <<r, n>>)])

\* Without a return statement the caller finds any value.
S3Xfer(r, call) ==
    (IF call.access # "write"
     THEN ReadOrWrite(call.access, File(r), call.offset, call.offset, AllOrAbort)
     ELSE S3Part(r, call))
    \o Choose("moved", {XferSize, -1})

\* Rank 0 lists all parts in the order it takes them to have in the file.
\* tags[s] are those of rank s.
PartList(tags) ==
    LET perRank == Len(tags[1])
    IN  [i \in 1 .. NumTasks * perRank |->
            IF opt.segments = 1 THEN tags[1 + ((i - 1) \div perRank)][1 + ((i - 1) % perRank)]
            ELSE tags[1 + ((i - 1) % NumTasks)][1 + ((i - 1) \div NumTasks)]]

\* S3_Close_internal: the ranks must have written as many parts each.
S3Close(r) ==
    When(mem[r].written,
        (IF opt.filePerProc THEN Complete(File(r))
         ELSE Remember([parts |-> Len(mem[r].etags)]) \o Reduce("max", "parts", "maxParts")
              \o Check("parts", "maxParts") \o Gather("etags", "allTags")
              \o When(r = 0, Complete(File(r))))
        \o Remember([etags |-> << >>])
        \o When(~opt.filePerProc, Barrier))

\* Deleting leaves an empty object.
S34c(r, call) ==
    CASE call.function = "create" -> S3Create(r)
      [] call.function = "open"   -> S3Open(r)
      [] call.function = "xfer"   -> S3Xfer(r, call)
      [] call.function = "close"  -> S3Close(r)
      [] call.function = "remove" -> S3Connect(r) \o Empty(File(r))
      [] call.function = "size"   -> S3Connect(r) \o SizeOrAbort(File(r))
      [] call.function \in {"access", "stat"} -> Say(FALSE)     \* of the local file
      [] OTHER -> Nothing

(***************************************************************************)
(* aiori-S3-libs3.c: an object for every offset, with the one of offset 0  *)
(* under the name of the file; or a bucket for every file, which has them  *)
(* all.  What the server answers is only warned of.                        *)
(***************************************************************************)
Fragment(r, offset) ==
    <<Name(r), IF offset = 0 /\ ~Has("bucketPerFile") THEN Whole ELSE offset>>

Libs3Create(r) ==
    (IF Has("bucketPerFile") THEN OpenFile(File(r), Creating) ELSE Empty(File(r)))
    \o Hold("file")

Libs3Xfer(r, call) ==
    (IF call.access = "write" THEN Put(Fragment(r, call.offset), call.offset)
     ELSE ReadOrWrite(call.access, Fragment(r, call.offset), 0, call.offset,
                      Policy("none", "return", "return", "never")))
    \o Return(XferSize)

\* S3_stat: only the object with the name of the file is looked at, and of
\* a bucket no size is known.
Libs3GetFileSize(r) ==
    Size(File(r)) \o When(Has("bucketPerFile") /\ File(r) \in DOMAIN store,
                          Remember([size |-> 0]))

\* Mutant: only the object with the name of the file is deleted.
Libs3DeleteOne(r) == Unlink(File(r))

\* All objects whose names begin with that of the file.
Libs3Delete(r) == RemoveAll(Name(r))

Bucket == <<-3>>

Libs3Bucket(r, call) ==
    CASE call.function = "initialize" -> When(r = 0, OpenFile(Bucket, Creating))
      [] call.function = "finalize" -> When(r = 0, Unlink(Bucket))

Libs3(r, call) ==
    CASE call.function \in {"initialize", "finalize"} ->
            When(~Has("bucketPerFile"), Libs3Bucket(r, call))
      [] call.function = "create" -> Libs3Create(r)
      [] call.function = "open"   -> OpenHandle(File(r), Existing)
      [] call.function = "xfer"   -> Libs3Xfer(r, call)
      [] call.function = "close"  -> CloseHandle
      [] call.function = "remove" -> Libs3Delete(r)
      [] call.function = "size"   -> Libs3GetFileSize(r)
      [] call.function \in {"access", "stat"} -> Look(File(r))
      [] call.function = "mkdir"  -> OpenFile(Directory(r), Creating)
      [] call.function = "rmdir"  -> Unlink(Directory(r))
      [] OTHER -> Nothing

(***************************************************************************)
(* aiori-S3-curl.c: every transfer puts or gets the whole object, whatever *)
(* its offset is; what a get received is counted from the length on.       *)
(***************************************************************************)
CurlXfer(r, call) ==
    IF call.access = "write" THEN Put(File(r), call.offset) \o Return(XferSize)
    ELSE IF File(r) \in DOMAIN store THEN Return(XferSize + Len(store[File(r)]))
    ELSE Return(-1)

\* An empty object is taken for none.
CurlStat(r) ==
    IF File(r) \in DOMAIN store /\ store[File(r)] = << >> THEN Say(FALSE) ELSE Look(File(r))

Curl(r, call) ==
    CASE call.function = "create" -> Empty(File(r)) \o Hold("file")
      [] call.function = "open"   -> Hold("file")
      [] call.function = "xfer"   -> CurlXfer(r, call)
      [] call.function = "close"  -> CloseHandle
      [] call.function = "remove" -> Unlink(File(r))
      [] call.function = "size"   ->
            IF File(r) \in DOMAIN store THEN Size(File(r)) ELSE Remember([size |-> 0])
      [] call.function = "access" -> Look(File(r))
      [] call.function = "stat"   -> CurlStat(r)
      [] OTHER -> Nothing
=============================================================================
