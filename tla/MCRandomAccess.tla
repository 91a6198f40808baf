--------------------------- MODULE MCRandomAccess ---------------------------
(***************************************************************************)
(* Small instances of RandomAccess: two ranks, files of a few blocks.      *)
(***************************************************************************)
EXTENDS RandomAccess

\* The places of the registers' states, counted from state 1.
Ring(n) == LET at[k \in 0 .. n - 2] == IF k = 0 THEN 1 ELSE Step(n, at[k - 1])
           IN  [s \in States(n) |-> CHOOSE k \in 0 .. n - 2 : at[k] = s]

UpTo8 == {1, 2, 4, 8}
Rings == [n \in {4, 8} |-> Ring(n)]

Base == [random |-> 1, filePerProc |-> FALSE, seed |-> 1, segments |-> 1, transfers |-> 2,
         shift |-> 0, stonewall |-> FALSE, wearOut |-> FALSE, phases |-> <<"write">>,
         old |-> [r \in Ranks |-> 0]]

\* -z: every combination with a check, of which a few are left out: several
\* segments, or a seed from the clock, with much else that is particular.
Shuffled ==
    {[Base EXCEPT !.filePerProc = own, !.seed = from, !.segments = n, !.shift = far,
                  !.stonewall = wall, !.wearOut = wear, !.phases = <<"write", check>>] :
        own \in BOOLEAN, from \in {-1, 1}, n \in 1 .. 2, far \in 0 .. 2,
        wall \in BOOLEAN, wear \in BOOLEAN, check \in {"writecheck", "read", "readcheck"}}

Few(o) ==
    IF o.stonewall THEN o.segments = 1 /\ (o.filePerProc \/ o.seed = 1)
    ELSE o.shift = 0 /\ (o.segments = 1 \/ o.seed = 1)

\* -z -z: reads of files there are.
Drawn ==
    {[Base EXCEPT !.random = 2, !.filePerProc = own, !.segments = 2, !.stonewall = wall,
                  !.wearOut = wall, !.phases = <<"read">>, !.old = [r \in Ranks |-> 4 + r]] :
        own \in BOOLEAN, wall \in BOOLEAN}

\* -z -z -z: reads of as many blocks as there are, and of more.
Permuted ==
    {[Base EXCEPT !.random = 3, !.filePerProc = own, !.segments = some[1], !.transfers = 1,
                  !.phases = <<"read">>, !.stonewall = wall, !.wearOut = wall,
                  !.old = [r \in Ranks |-> IF own /\ r = 0 THEN 1 ELSE some[2]]] :
        own \in BOOLEAN, some \in {<<-1, 6>>, <<5, 3>>}, wall \in BOOLEAN}

\* Two ranks with six blocks each are more than is needed.
Small(o) == o.filePerProc \/ o.segments # -1

\* A test that writes with -z -z.
RandomWriteOptions == {[Base EXCEPT !.random = 2, !.phases = <<"write", "read">>]}

\* There are no blocks.
Nothing == RandomWriteOptions \cup {[Base EXCEPT !.random = 3, !.phases = <<"read">>]}

SoundOptions ==
    {o \in {s \in Shuffled : Few(s)} \cup {p \in Permuted : Small(p)} \cup Drawn \cup Nothing :
        ValidOption(o) /\ SoundOption(o)}
=============================================================================
