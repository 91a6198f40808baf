---------------------------- MODULE AccessPhase ----------------------------
(***************************************************************************)
(* What TestIoSys may rely on when all ranks call WriteOrRead(): a rank    *)
(* accesses its blocks some number of times and returns with that number.  *)
(* Clocks, collectives and the wear-out's second loop are out of sight;    *)
(* what is left of them is how the numbers of the ranks are related.       *)
(***************************************************************************)
EXTENDS Integers

CONSTANT NumTasks

Ranks == 0 .. NumTasks - 1

VARIABLES
    wearOut,    \* whether the ranks do equal work
    limit,      \* the most accesses of each rank, 0 for any number
    count,      \* accesses of each rank so far
    returned,   \* the ranks that are through
    reported    \* the number each rank returns with

vars == <<wearOut, limit, count, returned, reported>>

Init ==
    /\ wearOut \in BOOLEAN
    /\ limit \in [Ranks -> Nat]
    /\ count = [r \in Ranks |-> 0]
    /\ returned = {}
    /\ reported = [r \in Ranks |-> 0]

\* With wear-out a rank that has returned has done as much as anybody will.
Access(r) ==
    /\ r \notin returned
    /\ limit[r] # 0 => count[r] < limit[r]
    /\ wearOut => \A s \in returned : count[r] < count[s]
    /\ count' = [count EXCEPT ![r] = @ + 1]
    /\ UNCHANGED <<wearOut, limit, returned, reported>>

Return(r) ==
    /\ r \notin returned
    /\ wearOut => \A s \in Ranks : count[s] <= count[r]
    /\ returned' = returned \cup {r}
    /\ reported' = [reported EXCEPT ![r] = count[r]]
    /\ UNCHANGED <<wearOut, limit, count>>

Next == \E r \in Ranks : Access(r) \/ Return(r)

Spec == Init /\ [][Next]_vars
=============================================================================
