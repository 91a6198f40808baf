--------------------------- MODULE MCMdWorkbench ---------------------------
(***************************************************************************)
(* Small instances of MdWorkbench: two rounds in one execution or in three *)
(* of their own, over every sound combination of the other options.        *)
(***************************************************************************)
EXTENDS MdWorkbench

AtOnce == << <<"precreate", "benchmark", "benchmark", "cleanup">> >>
InTurn == << <<"precreate">>, <<"benchmark", "benchmark">>, <<"cleanup">> >>
Kept == << <<"precreate", "benchmark">> >>

Candidates ==
    [dsetCount : {1}, precreate : {2}, num : 1 .. 2, offset : 0 .. 1,
     start : 0 .. 1, readOnly : BOOLEAN, stonewall : BOOLEAN, wearOut : BOOLEAN,
     executions : {AtOnce, InTurn, Kept}]

\* With two data sets a rank reads from two others.
TwoDataSets ==
    [dsetCount : {2}, precreate : {1}, num : {1}, offset : {1}, start : {0},
     readOnly : {FALSE}, stonewall : {FALSE}, wearOut : {FALSE}, executions : {AtOnce}]

SoundOptions ==
    {o \in Candidates \cup TwoDataSets : ValidOption(o) /\ SoundOption(o)}

\* One rank, two rounds, a stonewall, and no wear-out.
StonewallOptions ==
    {[dsetCount |-> 1, precreate |-> 3, num |-> 2, offset |-> 0, start |-> 0,
      readOnly |-> FALSE, stonewall |-> TRUE, wearOut |-> FALSE, executions |-> AtOnce]}
=============================================================================
