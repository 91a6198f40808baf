----------------------------- MODULE LfsrRange -----------------------------
(***************************************************************************)
(* The random permutation of IOR's -z -z -z (utilities-rand.c).  The       *)
(* blocks 0 .. n-1 are split into ranges of the powers of two n consists   *)
(* of, and each range is run through by a linear feedback shift register,  *)
(* which yields every number but 0; that one is returned last.  The range  *)
(* for the next block is drawn, weighted by what is left of it.  When all  *)
(* blocks have been returned a new permutation begins.                     *)
(*                                                                         *)
(* A register of k bits is known by its size 2^k.  What splitmix64 yields  *)
(* is any number.  Each rank has a range of its own.                       *)
(***************************************************************************)
EXTENDS Mpi, FiniteSets

CONSTANTS
    MaxBlocks,  \* bound: blocks in a range
    Sizes,      \* the sizes of ranges there may be
    Place       \* for each size, where a state is in the register's sequence

VARIABLES
    stage,      \* where a rank is in u_lfsr_range_init or u_lfsr_range_step
    blocks,     \* range->blocks
    remaining,  \* range->remaining
    elem,       \* range->elem, each with its size and its file_base_offset
    b, weight,  \* the bits of blocks not yet looked at, and what they are worth
    left, x,    \* r and x of the choice of a range
    given       \* the blocks returned since the permutation began

range == <<blocks, remaining, elem, given>>
build == <<b, weight>>
pick == <<left, x>>
rangeVars == <<stage, blocks, remaining, elem, b, weight, left, x, given>>

----------------------------------------------------------------------------
(***************************************************************************)
(* The registers.                                                          *)
(***************************************************************************)
\* lfsr_configs for 2 to 8 bits, by size.
Taps == [n \in {4, 8, 16, 32, 64, 128, 256} |->
            CASE n = 4 -> {1, 0}        [] n = 8 -> {2, 1}
              [] n = 16 -> {3, 2}       [] n = 32 -> {4, 2}
              [] n = 64 -> {5, 3, 2, 0} [] n = 128 -> {6, 2}
              [] n = 256 -> {7, 3, 2, 1}]

TapsOf(n) == Taps[n]

Bit(s, t) == (s \div 2^t) % 2
Feedback(n, s) == Cardinality({t \in TapsOf(n) : Bit(s, t) = 1}) % 2

\* u_lfsr_step
Step(n, s) == ((2 * s) % n) + Feedback(n, s)

\* The states a register can be in.
States(n) == IF n = 1 THEN {0} ELSE 1 .. n - 1

\* Any seed with its lowest bit set, masked.
Starts(n) == IF n = 1 THEN {0} ELSE {s \in States(n) : s % 2 = 1}

\* The sizes are powers of two, and every register has the maximal period:
\* its states stand in a ring of n - 1 places, each followed by its Step.
\* That is what src/test/rand.c checks of the table.
ASSUME SizesAssumption ==
    /\ MaxBlocks \in Nat
    /\ Sizes \subseteq Nat \ {0}
    /\ 1 \in Sizes
    /\ \A n \in Sizes : 2 * n <= MaxBlocks => 2 * n \in Sizes

ASSUME PeriodAssumption ==
    \A n \in Sizes \ {1, 2} :
        /\ n >= 4
        /\ Place[n] \in [States(n) -> 0 .. n - 2]
        /\ \A s, t \in States(n) : Place[n][s] = Place[n][t] => s = t
        /\ \A s \in States(n) :
              /\ Step(n, s) \in States(n)
              /\ Place[n][Step(n, s)] = IF Place[n][s] = n - 2 THEN 0 ELSE Place[n][s] + 1

----------------------------------------------------------------------------
RangeInit ==
    /\ stage = [r \in Ranks |-> "none"]
    /\ blocks = [r \in Ranks |-> 0] /\ remaining = [r \in Ranks |-> 0]
    /\ elem = [r \in Ranks |-> << >>]
    /\ b = [r \in Ranks |-> 0] /\ weight = [r \in Ranks |-> 1]
    /\ left = [r \in Ranks |-> 0] /\ x = [r \in Ranks |-> 1]
    /\ given = [r \in Ranks |-> {}]

At(r, where) == stage[r] = where
Turn(r, where) == stage' = [stage EXCEPT ![r] = where]

\* u_lfsr_range_init begins.
NewRange(r, n) ==
    /\ blocks' = [blocks EXCEPT ![r] = n]
    /\ remaining' = [remaining EXCEPT ![r] = n]
    /\ elem' = [elem EXCEPT ![r] = << >>]
    /\ b' = [b EXCEPT ![r] = n]
    /\ weight' = [weight EXCEPT ![r] = 1]
    /\ given' = [given EXCEPT ![r] = {}]
    /\ Turn(r, "build")
    /\ UNCHANGED pick

Last(s) == s[Len(s)]

\* Where the next range begins: where the last one ends.
NextBase(r) == IF elem[r] = << >> THEN 0 ELSE Last(elem[r]).base + Last(elem[r]).size

\* One bit of the number of blocks, from the lowest.
BuildBit(r) ==
    /\ At(r, "build") /\ b[r] # 0
    /\ IF b[r] % 2 = 1
       THEN \E seed \in Starts(weight[r]) :
               elem' = [elem EXCEPT ![r] =
                   Append(@, [size |-> weight[r], base |-> NextBase(r),
                              state |-> seed, remaining |-> weight[r]])]
       ELSE UNCHANGED elem
    /\ b' = [b EXCEPT ![r] = @ \div 2]
    /\ weight' = [weight EXCEPT ![r] = 2 * @]
    /\ UNCHANGED <<stage, blocks, remaining, given, pick>>

Built(r) ==
    /\ At(r, "build") /\ b[r] = 0
    /\ Turn(r, "ready")
    /\ UNCHANGED <<range, build, pick>>

----------------------------------------------------------------------------
(***************************************************************************)
(* u_lfsr_range_step.                                                      *)
(***************************************************************************)
\* No blocks at all.
Empty(r) == At(r, "ready") /\ elem[r] = << >>

\* All blocks were returned, start a new permutation.
Restart(r) ==
    /\ At(r, "ready") /\ elem[r] # << >> /\ remaining[r] = 0
    /\ NewRange(r, blocks[r])

Draw(r) ==
    /\ At(r, "ready") /\ elem[r] # << >> /\ remaining[r] # 0
    /\ \E n \in 0 .. remaining[r] - 1 : left' = [left EXCEPT ![r] = n]
    /\ x' = [x EXCEPT ![r] = 1]
    /\ Turn(r, "pick")
    /\ UNCHANGED <<range, build>>

\* Mutant: a range with one block less than drawn is taken.
PassedOver(r) == left[r] > elem[r][x[r]].remaining

\* Whether what was drawn lies beyond the range at hand.
Beyond(r) == left[r] >= elem[r][x[r]].remaining

Skip(r) ==
    /\ At(r, "pick") /\ Beyond(r)
    /\ left' = [left EXCEPT ![r] = @ - elem[r][x[r]].remaining]
    /\ x' = [x EXCEPT ![r] = @ + 1]
    /\ UNCHANGED <<stage, range, build>>

\* Mutant: the state of the register is returned to the last.
BlockOfState(r) == elem[r][x[r]].base + elem[r][x[r]].state

\* The block returned: the zero state is not in the sequence, it is last.
Block(r) ==
    LET e == elem[r][x[r]]
    IN  IF e.remaining = 1 THEN e.base ELSE e.base + e.state

Take(r) ==
    LET e == elem[r][x[r]]
        next == IF e.remaining > 1 /\ e.size >= 4 THEN Step(e.size, e.state) ELSE e.state
    IN  /\ At(r, "pick") /\ ~Beyond(r)
        /\ elem' = [elem EXCEPT ![r][x[r]] =
                       [e EXCEPT !.state = next, !.remaining = @ - 1]]
        /\ remaining' = [remaining EXCEPT ![r] = @ - 1]
        /\ given' = [given EXCEPT ![r] = @ \cup {Block(r)}]
        /\ Turn(r, "ready")
        /\ UNCHANGED <<blocks, build, pick>>

\* u_lfsr_range_free
FreeRange(r) ==
    /\ Turn(r, "none")
    /\ elem' = [elem EXCEPT ![r] = << >>]
    /\ given' = [given EXCEPT ![r] = {}]
    /\ UNCHANGED <<blocks, remaining, build, pick>>

----------------------------------------------------------------------------
ElemRecord == [size : Sizes, base : Nat, state : Nat, remaining : Nat]

RangeTypeOK ==
    /\ stage \in [Ranks -> {"none", "build", "ready", "pick"}]
    /\ blocks \in [Ranks -> 0 .. MaxBlocks]
    /\ remaining \in [Ranks -> 0 .. MaxBlocks]
    /\ elem \in [Ranks -> Seq(ElemRecord)]
    /\ b \in [Ranks -> 0 .. MaxBlocks]
    /\ weight \in [Ranks -> Nat \ {0}]
    /\ left \in [Ranks -> Nat]
    /\ x \in [Ranks -> Nat \ {0}]
    /\ given \in [Ranks -> SUBSET Nat]

\* A rank that chooses a range looks at one there is: the loop over elem[]
\* has no bound of its own.
PicksWithin == \A r \in Ranks : At(r, "pick") => x[r] \in 1 .. Len(elem[r])

\* Up to its end and in every one that follows, a permutation returns each
\* of the blocks once and nothing else: as many different blocks of the file
\* as remaining has been counted down.  This is what src/test/rand.c checks
\* for some sizes and seeds.
EachBlockOnce ==
    \A r \in Ranks : ~At(r, "none") =>
        /\ given[r] \subseteq 0 .. blocks[r] - 1
        /\ Cardinality(given[r]) = blocks[r] - remaining[r]
=============================================================================
