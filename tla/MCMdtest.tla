------------------------------ MODULE MCMdtest ------------------------------
(***************************************************************************)
(* Small instances of Mdtest: the options vary in groups, the others stay  *)
(* as Plain has them.                                                      *)
(***************************************************************************)
EXTENDS Mdtest

AllPhases == << Phases >>
Split == << {"create"}, Phases \ {"create"} >>
Kept == << Phases \ {"remove"} >>

Plain ==
    [items |-> 2, perDir |-> 0, depth |-> 0, branch |-> 1, leafOnly |-> FALSE,
     unique |-> FALSE, sharedFile |-> FALSE, collective |-> FALSE, barriers |-> TRUE,
     random |-> FALSE, mknod |-> FALSE, data |-> FALSE, verifyRead |-> FALSE,
     verifyWrite |-> FALSE, stride |-> 0, stonewall |-> FALSE, statusFile |-> FALSE,
     iterations |-> 1, paths |-> 1, kinds |-> {"dir", "file"}, executions |-> AllPhases]

\* The shape of the tree, and how many items are in it.
Trees ==
    {[Plain EXCEPT !.items = n, !.perDir = i, !.depth = z, !.branch = b, !.leafOnly = l,
                   !.unique = u, !.stride = s] :
        n \in {0, 2, 4}, i \in 0 .. 2, z \in 0 .. 2, b \in 1 .. 2, l \in BOOLEAN,
        u \in BOOLEAN, s \in 0 .. 1}

\* What is in the files, and who makes them.
Contents ==
    {[Plain EXCEPT !.data = d, !.verifyRead = v, !.verifyWrite = w, !.mknod = m,
                   !.collective = c, !.sharedFile = f, !.barriers = b, !.stride = s,
                   !.kinds = {"file"}] :
        d \in BOOLEAN, v \in BOOLEAN, w \in BOOLEAN, m \in BOOLEAN, c \in BOOLEAN,
        f \in BOOLEAN, b \in BOOLEAN, s \in 0 .. 1}

\* Files whose creation may end early.
Stonewalls ==
    {[Plain EXCEPT !.items = n, !.data = d, !.verifyRead = d, !.collective = c, !.unique = u,
                   !.stride = s, !.stonewall = TRUE, !.statusFile = x, !.executions = e,
                   !.kinds = {"file"}] :
        n \in 2 .. 3, d \in BOOLEAN, c \in BOOLEAN, u \in BOOLEAN, s \in 0 .. 1,
        x \in BOOLEAN, e \in {AllPhases, Split}}

\* Several executions, iterations and paths; shuffled items.
Runs ==
    {[Plain EXCEPT !.executions = e, !.iterations = t, !.unique = u, !.paths = p, !.stride = s,
                   !.random = f, !.collective = c, !.statusFile = x] :
        e \in {AllPhases, Split, Kept}, t \in 1 .. 2, u \in BOOLEAN, p \in 1 .. 2,
        s \in 0 .. 1, f \in BOOLEAN, c \in BOOLEAN, x \in BOOLEAN}

SoundOptions ==
    {o \in Trees \cup Contents \cup Stonewalls \cup Runs :
        ValidOption(o) /\ ~(o.collective /\ o.unique) /\ SoundOption(o)}

=============================================================================
