------------------------------ MODULE MCAiori ------------------------------
(***************************************************************************)
(* Small instances of Aiori: the options vary in groups, the others stay   *)
(* as Plain has them.                                                      *)
(***************************************************************************)
EXTENDS Aiori

Plain ==
    [api |-> "POSIX", test |-> "ior", filePerProc |-> FALSE, collective |-> FALSE,
     segments |-> 1, transfers |-> 1, shift |-> 0, fsync |-> FALSE, fsyncPerWrite |-> FALSE,
     single |-> FALSE, barriers |-> FALSE, writeCheck |-> FALSE, repetitions |-> 1,
     readCheck |-> FALSE, keep |-> FALSE, dryRun |-> FALSE, stamp |-> FALSE,
     leftover |-> FALSE, useExisting |-> FALSE, faults |-> FALSE, hints |-> {}]

\* Where the data is.
Layouts(A) ==
    {[Plain EXCEPT !.api = a, !.filePerProc = f, !.segments = s, !.transfers = t,
                   !.collective = c] :
        a \in A, f \in BOOLEAN, s \in 1 .. 2, t \in 1 .. 2, c \in BOOLEAN}

\* Who reads it, and how often.
Readers(A) ==
    {[Plain EXCEPT !.api = a, !.filePerProc = f, !.shift = n, !.writeCheck = c, !.readCheck = c,
                   !.transfers = 2, !.barriers = TRUE] :
        a \in A, f \in BOOLEAN, n \in 0 .. 1, c \in BOOLEAN}

\* What is there before and after.
Lives(A) ==
    {[Plain EXCEPT !.api = a, !.filePerProc = f, !.repetitions = 2, !.keep = k, !.leftover = TRUE,
                   !.useExisting = e, !.fsync = k /\ a \in Synced,
                   !.fsyncPerWrite = k, !.barriers = TRUE] :
        a \in A, f \in BOOLEAN, k \in BOOLEAN, e \in BOOLEAN}

\* Storage that does less than it was asked to.
Faults(A) ==
    {[Plain EXCEPT !.api = a, !.filePerProc = f, !.faults = TRUE, !.single = i,
                   !.collective = c, !.barriers = TRUE] :
        a \in A, f \in BOOLEAN, i \in BOOLEAN, c \in BOOLEAN}

\* The switches of the backends.
Switches(A) ==
    UNION {{[Plain EXCEPT !.api = a, !.filePerProc = f, !.segments = 2, !.collective = c,
                          !.stamp = "strided" \in h, !.faults = t, !.hints = h] :
        f \in BOOLEAN, c \in BOOLEAN, t \in BOOLEAN,
        h \in SUBSET HintsOf(a) \ {{}}} : a \in A}

Others(A) ==
    {[Plain EXCEPT !.api = a, !.test = "directories", !.filePerProc = TRUE] : a \in A}
    \cup {[Plain EXCEPT !.api = a, !.filePerProc = f, !.dryRun = TRUE] :
            a \in A, f \in BOOLEAN}

Supporteds(A) ==
    {o \in Layouts(A) \cup Readers(A) \cup Lives(A) \cup Faults(A) \cup Switches(A) \cup Others(A) :
        Supported(o)}

AllOptions == Supporteds(Apis)

\* A task reads what another has written through PnetCDF.
ReorderedNcMpi == {[Plain EXCEPT !.api = "NCMPI", !.shift = 1]}
=============================================================================
