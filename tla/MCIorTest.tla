----------------------------- MODULE MCIorTest -----------------------------
(***************************************************************************)
(* Small instances of IorTest: two ranks, blocks of two transfers.         *)
(***************************************************************************)
EXTENDS IorTest

Nothing == [write |-> FALSE, checkWrite |-> FALSE, read |-> FALSE, checkRead |-> FALSE,
            deadline |-> FALSE, wearOut |-> FALSE, status |-> FALSE]
WriteAndCheck == [Nothing EXCEPT !.write = TRUE, !.checkWrite = TRUE, !.checkRead = TRUE]
JustCheck == [Nothing EXCEPT !.write = TRUE, !.checkWrite = TRUE]
JustRead == [Nothing EXCEPT !.read = TRUE]
Cut == [WriteAndCheck EXCEPT !.deadline = TRUE]
CutEven == [Cut EXCEPT !.wearOut = TRUE]
Store == [Nothing EXCEPT !.write = TRUE, !.deadline = TRUE, !.wearOut = TRUE, !.status = TRUE]
Check == [Nothing EXCEPT !.checkRead = TRUE, !.status = TRUE]

Swap == [r \in Ranks |-> NumTasks - 1 - r]

Base == [filePerProc |-> FALSE, multiFile |-> FALSE, useExisting |-> FALSE,
         keepFile |-> FALSE, keepWithError |-> FALSE, repetitions |-> 1,
         reorder |-> "none", offset |-> 0, perm |-> Swap, barriers |-> FALSE,
         timeLimit |-> FALSE, signature |-> FALSE, faulty |-> FALSE,
         executions |-> <<WriteAndCheck>>]

Orders == {"none", "constant", "random", "shuffle"}

\* Who reads what, in shared and in own files, with a stonewall or without.
Layouts ==
    {[Base EXCEPT !.filePerProc = p, !.reorder = o, !.offset = q, !.executions = <<e>>] :
        p \in BOOLEAN, o \in Orders, q \in 0 .. 1, e \in {WriteAndCheck, JustCheck, Cut, CutEven}}

\* Repetitions that leave old files to the next.
Repeated ==
    {[Base EXCEPT !.filePerProc = p, !.multiFile = m, !.useExisting = u, !.keepFile = k,
                  !.repetitions = 2, !.reorder = "constant", !.offset = 1,
                  !.executions = <<CutEven>>] :
        p, m, u, k \in BOOLEAN}

\* Storage that spoils a transfer.
Faults ==
    {[Base EXCEPT !.filePerProc = p, !.keepWithError = k, !.reorder = "constant",
                  !.offset = 1, !.repetitions = n, !.faulty = TRUE] :
        p, k \in BOOLEAN, n \in 1 .. 2}

\* Data and status of one execution read by the next ones.
Split ==
    {[Base EXCEPT !.filePerProc = p, !.keepFile = TRUE, !.signature = TRUE, !.barriers = TRUE,
                  !.reorder = o, !.executions = x] :
        p \in BOOLEAN, o \in {"none", "random"},
        x \in {<<Store, Check, Check>>, <<WriteAndCheck, Check>>, <<WriteAndCheck, JustRead>>}}

SoundOptions ==
    {o \in Layouts \cup Repeated \cup Faults \cup Split : ValidOption(o) /\ SoundOption(o)}
=============================================================================
