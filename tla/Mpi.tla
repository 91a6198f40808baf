-------------------------------- MODULE Mpi --------------------------------
(***************************************************************************)
(* MPI collectives on one communicator, as the code above them sees them.  *)
(* The n-th collective a rank enters meets the n-th of every other rank;   *)
(* if they are of different kinds nobody gets out.  A barrier or an        *)
(* allreduce lets a rank go when all are in it, a broadcast when rank 0 is *)
(* in it, a reduce lets rank 0 go when all are in it and the others at     *)
(* once.                                                                   *)
(***************************************************************************)
EXTENDS Integers, Sequences

CONSTANT NumTasks   \* the size of the communicator

ASSUME NumTasksAssumption == NumTasks \in Nat \ {0}

Ranks == 0 .. NumTasks - 1

VARIABLE calls      \* the collectives each rank has entered so far, in order

InSameCall(r, s) ==
    LET n == Len(calls[r])
    IN  /\ n \in 1 .. Len(calls[s])
        /\ calls[s][n] = calls[r][n]

AllArrived(r) == \A s \in Ranks : InSameCall(r, s)

RootArrived(r) == InSameCall(r, 0)

Enter(r, kinds) == calls' = [calls EXCEPT ![r] = @ \o kinds]

\* No two ranks are ever in collectives of different kinds: what MPI demands
\* of the programs, and what the "all or none" comment in the transfer loop
\* of ior.c is about.
SameCollectives ==
    \A r, s \in Ranks : \A n \in 1 .. Len(calls[r]) :
        n <= Len(calls[s]) => calls[r][n] = calls[s][n]
=============================================================================
