--------------------------- MODULE MCWriteOrRead ---------------------------
(***************************************************************************)
(* Small instances of WriteOrRead: every valid combination of the options  *)
(* over one or two segments of two transfers.                              *)
(***************************************************************************)
EXTENDS WriteOrRead

Even == [r \in Ranks |-> 2]

\* What GetOffsetArrayRandom may draw for a shared file.
Uneven == [r \in Ranks |-> IF r = 0 THEN 1 ELSE 3]

\* What the write phase, the status file or an option may have set.
Unlimited == [r \in Ranks |-> 0]
AtMost3 == [r \in Ranks |-> 3]
OwnCount == [r \in Ranks |-> r + 2]

Candidates ==
    [segmentCount : 1 .. 2, offsets : {Even, Uneven}, deadline : 0 .. 1,
     minTime : 0 .. 1, wearOut : BOOLEAN, iterations : {Unlimited, AtMost3, OwnCount},
     sync : BOOLEAN, collective : BOOLEAN, prefill : BOOLEAN, check : {TRUE}]

SoundTests == {t \in Candidates : ValidTest(t) /\ SoundTest(t)}

Base == [segmentCount |-> 2, offsets |-> Even, deadline |-> 1, minTime |-> 0,
         wearOut |-> TRUE, iterations |-> Unlimited, sync |-> FALSE,
         collective |-> FALSE, prefill |-> FALSE, check |-> TRUE]

\* Parameter sets of two classes the code mishandles.
CollectiveRepeatTests == {[Base EXCEPT !.sync = TRUE, !.collective = TRUE, !.minTime = 1]}
SpinsPastStonewallTests == {[Base EXCEPT !.minTime = 3]}
=============================================================================
