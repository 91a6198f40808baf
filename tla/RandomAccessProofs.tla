------------------------ MODULE RandomAccessProofs -------------------------
(***************************************************************************)
(* What random access promises for any number of ranks, blocks, segments   *)
(* and transfers, any seeds and any numbers drawn. u_lfsr_range_step, with *)
(* any table of registers of maximal period: a permutation returns each    *)
(* block once, and the loop over the ranges stays within them.  Shuffled   *)
(* offsets: the array of a rank is filled to its end, no transfer is done  *)
(* twice and none is left out.  The loops of the code are functions of     *)
(* their counter; what they do is shown by the least turn it would fail at.*)
(* The phases of a test: where a read or a check goes there are data, and  *)
(* they are those of the rank the reader pretends to be.                   *)
(***************************************************************************)
EXTENDS RandomAccess, FiniteSetTheorems, WellFoundedInduction, TLAPS

----------------------------------------------------------------------------
(***************************************************************************)
(* One range: the blocks it has not returned are counted by remaining, and *)
(* those other than its first are the ones its register is still to come   *)
(* to in as many steps.                                                    *)
(***************************************************************************)
Interval(e) == e.base .. e.base + e.size - 1
Ungiven(e, g) == Interval(e) \ g

\* How many steps it takes the register from state s to state t.
Ahead(n, s, t) ==
    IF n <= 2 THEN 0
    ELSE IF Place[n][t] >= Place[n][s] THEN Place[n][t] - Place[n][s]
    ELSE Place[n][t] - Place[n][s] + n - 1

Later(e, o) ==
    IF o = 0 THEN e.remaining >= 1 ELSE Ahead(e.size, e.state, o) < e.remaining - 1

ElemOK(e, g) ==
    /\ e.state \in States(e.size)
    /\ e.remaining \in 0 .. e.size
    /\ Cardinality(Ungiven(e, g)) = e.remaining
    /\ \A o \in 0 .. e.size - 1 : (e.base + o \notin g) <=> Later(e, o)

\* A step of the register brings every other state nearer by one and puts
\* the one it leaves at the end.
LEMMA RingStep ==
    ASSUME NEW n \in Sizes \ {1, 2}, NEW s \in States(n), NEW o \in States(n)
    PROVE  /\ Step(n, s) \in States(n)
           /\ Ahead(n, s, o) \in 0 .. n - 2
           /\ o = s => Ahead(n, s, o) = 0 /\ Ahead(n, Step(n, s), o) = n - 2
           /\ o # s => /\ Ahead(n, s, o) >= 1
                       /\ Ahead(n, Step(n, s), o) = Ahead(n, s, o) - 1
<1>1. n \in Nat /\ n >= 4
  BY PeriodAssumption, SizesAssumption
<1>2. Step(n, s) \in States(n)
  BY PeriodAssumption
<1> DEFINE p == Place[n]
           t == Step(n, s)
<1>3. p[s] \in 0 .. n - 2 /\ p[o] \in 0 .. n - 2 /\ p[t] \in 0 .. n - 2
  BY <1>2, PeriodAssumption
<1>4. p[t] = IF p[s] = n - 2 THEN 0 ELSE p[s] + 1
  BY PeriodAssumption
<1>5. o # s => p[o] # p[s]
  BY PeriodAssumption
<1>6. /\ Ahead(n, s, o) = IF p[o] >= p[s] THEN p[o] - p[s] ELSE p[o] - p[s] + n - 1
      /\ Ahead(n, t, o) = IF p[o] >= p[t] THEN p[o] - p[t] ELSE p[o] - p[t] + n - 1
  BY <1>1 DEF Ahead
<1> HIDE DEF p, t
<1>7. /\ Ahead(n, s, o) \in 0 .. n - 2
      /\ o = s => Ahead(n, s, o) = 0 /\ Ahead(n, t, o) = n - 2
      /\ o # s => Ahead(n, s, o) >= 1 /\ Ahead(n, t, o) = Ahead(n, s, o) - 1
  BY <1>1, <1>3, <1>4, <1>5, <1>6
<1> QED
  BY <1>2, <1>7 DEF t

\* A size is 1, 2, or that of a register.
LEMMA SizesKinds ==
    ASSUME NEW n \in Sizes
    PROVE  n \in Nat \ {0} /\ (n \notin {1, 2} => n >= 4)
BY SizesAssumption, PeriodAssumption

\* A range nothing has been returned from.
LEMMA FreshElem ==
    ASSUME NEW n \in Sizes, NEW s \in Starts(n), NEW base \in Nat,
           NEW e, e = [size |-> n, base |-> base, state |-> s, remaining |-> n]
    PROVE  e \in ElemRecord /\ ElemOK(e, {})
<1>1. n \in Nat \ {0} /\ (n \notin {1, 2} => n >= 4)
  BY SizesKinds
<1>2. s \in States(n) /\ s \in Nat
  BY <1>1 DEF Starts, States
<1>3. e \in ElemRecord
  BY <1>1, <1>2 DEF ElemRecord
<1>4. Cardinality(Ungiven(e, {})) = n
  <2>1. Ungiven(e, {}) = base .. base + n - 1
    BY DEF Ungiven, Interval
  <2>2. base \in Int /\ base + n - 1 \in Int
    BY <1>1
  <2>3. Cardinality(base .. base + n - 1)
            = IF base > base + n - 1 THEN 0 ELSE (base + n - 1) - base + 1
    BY <2>2, FS_Interval
  <2> QED
    BY <1>1, <2>1, <2>3
<1>5. ASSUME NEW o \in 0 .. n - 1 PROVE Later(e, o)
  <2>1. CASE o = 0
    BY <2>1, <1>1 DEF Later
  <2>2. CASE o # 0 /\ n = 2
    BY <2>2 DEF Later, Ahead
  <2>3. CASE o # 0 /\ n # 2
    <3>1. n \in Sizes \ {1, 2} /\ o \in States(n)
      BY <2>3, <1>1 DEF States
    <3>2. Ahead(n, s, o) \in 0 .. n - 2
      BY <3>1, <1>2, RingStep
    <3> QED
      BY <2>3, <3>2, <1>1 DEF Later
  <2> QED
    BY <2>1, <2>2, <2>3
<1> QED
  BY <1>1, <1>2, <1>3, <1>4, <1>5 DEF ElemOK

\* The next state of a range: only a register moves.
NextState(e) ==
    IF e.remaining > 1 /\ e.size >= 4 THEN Step(e.size, e.state) ELSE e.state

\* It is one the register can be in.
LEMMA NextStateType ==
    ASSUME NEW e \in ElemRecord, NEW g, ElemOK(e, g)
    PROVE  NextState(e) \in States(e.size) /\ NextState(e) \in Nat
<1> DEFINE n == e.size
<1>1. n \in Sizes /\ n \in Nat \ {0} /\ (n \notin {1, 2} => n >= 4)
  BY SizesKinds DEF ElemRecord
<1>2. e.state \in States(n)
  BY DEF ElemOK
<1>3. NextState(e) \in States(n)
  <2>1. CASE e.remaining > 1 /\ n >= 4
    <3>1. n \in Sizes \ {1, 2}
      BY <2>1, <1>1
    <3>2. Step(n, e.state) \in States(n)
      BY <3>1, <1>2, RingStep
    <3> QED
      BY <2>1, <3>2 DEF NextState
  <2>2. CASE ~(e.remaining > 1 /\ n >= 4)
    BY <2>2, <1>2 DEF NextState
  <2> QED
    BY <2>1, <2>2
<1> QED
  BY <1>1, <1>3 DEF States

\* A range returns one of its own blocks, one it has not returned before,
\* and is as it should be after that.
LEMMA NextOfElem ==
    ASSUME NEW e \in ElemRecord, NEW g, ElemOK(e, g), e.remaining # 0,
           NEW p, p = (IF e.remaining = 1 THEN e.base ELSE e.base + e.state),
           NEW f \in ElemRecord, f.size = e.size, f.base = e.base,
           f.state = NextState(e), f.remaining = e.remaining - 1
    PROVE  p \in Interval(e) /\ p \notin g /\ ElemOK(f, g \cup {p})
<1> DEFINE n == e.size
           m == e.remaining
           s == NextState(e)
<1>1. n \in Sizes /\ n \in Nat \ {0} /\ (n \notin {1, 2} => n >= 4)
  BY SizesKinds DEF ElemRecord
<1>2. e.base \in Nat /\ e.state \in Nat /\ m \in Nat /\ m \in 1 .. n /\ e.state \in States(n)
  BY <1>1 DEF ElemRecord, ElemOK
<1>3. s \in States(n) /\ s \in Nat
  BY NextStateType
<1>4. f.size = n /\ f.base = e.base /\ f.state = s /\ f.remaining = m - 1
  OBVIOUS
<1> DEFINE d == IF m = 1 THEN 0 ELSE e.state
<1>5. d \in 0 .. n - 1 /\ p = e.base + d
  BY <1>1, <1>2 DEF States
<1>6. Later(e, d)
  <2>1. CASE m = 1
    BY <2>1 DEF Later
  <2>2. CASE m # 1 /\ n \in {1, 2}
    BY <2>2, <1>1, <1>2 DEF Later, Ahead, States
  <2>3. CASE m # 1 /\ n \notin {1, 2}
    <3>1. Ahead(n, e.state, e.state) = 0
      BY <2>3, <1>1, <1>2, RingStep
    <3>2. e.state # 0
      BY <2>3, <1>1, <1>2 DEF States
    <3> QED
      BY <2>3, <3>1, <3>2, <1>2 DEF Later
  <2> QED
    BY <2>1, <2>2, <2>3
<1>7. p \in Interval(e) /\ p \notin g
  <2>1. p \notin g
    BY <1>5, <1>6 DEF ElemOK
  <2>2. p \in Interval(e)
    BY <1>1, <1>2, <1>5 DEF Interval
  <2> QED
    BY <2>1, <2>2
<1>8. Cardinality(Ungiven(f, g \cup {p})) = m - 1
  <2>1. Ungiven(f, g \cup {p}) = Ungiven(e, g) \ {p}
    BY <1>4 DEF Ungiven, Interval
  <2>2. IsFiniteSet(Ungiven(e, g))
    <3>1. IsFiniteSet(Interval(e))
      <4>1. e.base \in Int /\ e.base + n - 1 \in Int
        BY <1>1, <1>2
      <4> QED
        BY <4>1, FS_Interval DEF Interval
    <3> QED
      BY <3>1, FS_Subset DEF Ungiven
  <2>3. p \in Ungiven(e, g)
    BY <1>7 DEF Ungiven
  <2>4. Cardinality(Ungiven(e, g)) = m
    BY DEF ElemOK
  <2>5. Cardinality(Ungiven(e, g) \ {p}) = Cardinality(Ungiven(e, g)) - 1
    BY <2>2, <2>3, FS_RemoveElement
  <2> QED
    BY <2>1, <2>4, <2>5
<1>9. ASSUME NEW o \in 0 .. n - 1
      PROVE  (e.base + o \notin g \cup {p}) <=> Later(f, o)
  <2>1. (e.base + o \notin g \cup {p}) <=> (Later(e, o) /\ o # d)
    BY <1>1, <1>2, <1>5 DEF ElemOK
  <2>2. CASE o = 0
    <3>1. Later(e, o) /\ (Later(f, o) <=> m - 1 >= 1)
      BY <2>2, <1>2, <1>4 DEF Later
    <3>2. (o # d) <=> m # 1
      <4>1. CASE m = 1
        BY <4>1, <2>2
      <4>2. CASE m # 1
        BY <4>2, <2>2, <1>1, <1>2 DEF States
      <4> QED
        BY <4>1, <4>2
    <3> QED
      BY <2>1, <3>1, <3>2, <1>2
  <2>3. CASE o # 0 /\ n \in {1, 2}
    <3>1. n = 2 /\ o = 1 /\ e.state = 1
      BY <2>3, <1>1, <1>2 DEF States
    <3>2. Later(e, o) <=> 0 < m - 1
      BY <3>1 DEF Later, Ahead
    <3>3. Later(f, o) <=> 0 < m - 2
      BY <3>1, <1>2, <1>4 DEF Later, Ahead
    <3> QED
      BY <2>1, <3>1, <3>2, <3>3, <1>2
  <2>4. CASE o # 0 /\ n \notin {1, 2}
    <3>1. n \in Sizes \ {1, 2} /\ o \in States(n) /\ e.state \in States(n)
      BY <2>4, <1>1, <1>2 DEF States
    <3>2. Ahead(n, e.state, o) \in 0 .. n - 2
      BY <3>1, RingStep
    <3>3. Later(e, o) <=> Ahead(n, e.state, o) < m - 1
      BY <2>4 DEF Later
    <3>4. Later(f, o) <=> Ahead(n, s, o) < m - 2
      BY <2>4, <1>2, <1>4 DEF Later
    <3>5. CASE m = 1
      <4>1. s = e.state
        BY <3>5 DEF NextState
      <4> QED
        BY <2>1, <3>2, <3>3, <3>4, <3>5, <4>1
    <3>6. CASE m # 1
      <4>1. s = Step(n, e.state) /\ d = e.state
        BY <3>6, <2>4, <1>1, <1>2 DEF NextState
      <4>2. o = e.state => Ahead(n, e.state, o) = 0 /\ Ahead(n, s, o) = n - 2
        BY <4>1, <3>1, RingStep
      <4>3. o # e.state => Ahead(n, e.state, o) >= 1 /\ Ahead(n, s, o) = Ahead(n, e.state, o) - 1
        BY <4>1, <3>1, RingStep
      <4> HIDE DEF d
      <4>4. CASE o = e.state
        BY <4>4, <4>1, <4>2, <2>1, <3>4, <1>1, <1>2
      <4>5. CASE o # e.state
        BY <4>5, <4>1, <4>3, <2>1, <3>2, <3>3, <3>4, <1>1, <1>2
      <4> QED
        BY <4>4, <4>5
    <3> QED
      BY <3>5, <3>6
  <2> QED
    BY <2>2, <2>3, <2>4
<1>10. ElemOK(f, g \cup {p})
  <2>1. f.remaining \in 0 .. f.size
    BY <1>1, <1>2, <1>4
  <2>2. \A o \in 0 .. f.size - 1 : (f.base + o \notin g \cup {p}) <=> Later(f, o)
    BY <1>4, <1>9
  <2> QED
    BY <2>1, <2>2, <1>3, <1>4, <1>8 DEF ElemOK
<1> QED
  BY <1>7, <1>10

\* What another range returns makes no difference.
LEMMA OtherElem ==
    ASSUME NEW e \in ElemRecord, NEW g, ElemOK(e, g), NEW p, p \notin Interval(e)
    PROVE  ElemOK(e, g \cup {p})
<1>1. e.size \in Nat \ {0} /\ e.base \in Nat
  BY SizesKinds DEF ElemRecord
<1>2. Ungiven(e, g \cup {p}) = Ungiven(e, g)
  BY DEF Ungiven
<1>3. ASSUME NEW o \in 0 .. e.size - 1
      PROVE  (e.base + o \notin g \cup {p}) <=> (e.base + o \notin g)
  <2>1. e.base + o \in Interval(e)
    BY <1>1 DEF Interval
  <2> QED
    BY <2>1
<1> QED
  BY <1>2, <1>3 DEF ElemOK

----------------------------------------------------------------------------
(***************************************************************************)
(* All ranges of a permutation: they follow one another without a gap.     *)
(***************************************************************************)
End(e) == IF e = << >> THEN 0 ELSE Last(e).base + Last(e).size

Laid(e) ==
    /\ e # << >> => e[1].base = 0
    /\ \A j, k \in 1 .. Len(e) : j < k => e[j].base + e[j].size <= e[k].base
    /\ \A k \in 1 .. Len(e) : k < Len(e) => e[k + 1].base = e[k].base + e[k].size

\* The numbers in a range.
LEMMA ElemNumbers ==
    ASSUME NEW e \in Seq(ElemRecord), NEW k \in 1 .. Len(e)
    PROVE  /\ e[k] \in ElemRecord
           /\ e[k].base \in Nat /\ e[k].size \in Nat \ {0} /\ e[k].size \in Sizes
           /\ e[k].remaining \in Nat /\ e[k].state \in Nat
<1>1. e[k] \in ElemRecord
  OBVIOUS
<1> QED
  BY <1>1, SizesKinds DEF ElemRecord

\* No range reaches beyond the end.
LEMMA WithinEnd ==
    ASSUME NEW e \in Seq(ElemRecord), Laid(e), NEW k \in 1 .. Len(e)
    PROVE  End(e) \in Nat /\ e[k].base + e[k].size <= End(e)
<1>1. Len(e) \in 1 .. Len(e) /\ e # << >>
  OBVIOUS
<1>2. End(e) = e[Len(e)].base + e[Len(e)].size
  BY <1>1 DEF End, Last
<1>3. /\ e[k].base \in Nat /\ e[k].size \in Nat
      /\ e[Len(e)].base \in Nat /\ e[Len(e)].size \in Nat
  BY <1>1, ElemNumbers
<1>4. CASE k = Len(e)
  BY <1>2, <1>3, <1>4
<1>5. CASE k # Len(e)
  <2>1. k < Len(e)
    BY <1>5
  <2>2. e[k].base + e[k].size <= e[Len(e)].base
    BY <1>1, <2>1 DEF Laid
  <2> QED
    BY <1>2, <1>3, <2>2
<1> QED
  BY <1>4, <1>5

\* The end is a number.
LEMMA EndIsNat ==
    ASSUME NEW e \in Seq(ElemRecord), Laid(e)
    PROVE  End(e) \in Nat
<1>1. CASE e = << >>
  BY <1>1 DEF End
<1>2. CASE e # << >>
  <2>1. Len(e) \in 1 .. Len(e)
    BY <1>2
  <2> QED
    BY <2>1, WithinEnd
<1> QED
  BY <1>1, <1>2

\* A range that begins at the end can be added.
LEMMA AddElem ==
    ASSUME NEW e \in Seq(ElemRecord), Laid(e), NEW f \in ElemRecord, f.base = End(e)
    PROVE  /\ Append(e, f) \in Seq(ElemRecord) /\ Laid(Append(e, f))
           /\ End(Append(e, f)) = f.base + f.size
<1> DEFINE a == Append(e, f)
<1>1. /\ a \in Seq(ElemRecord) /\ Len(a) = Len(e) + 1 /\ Len(e) \in Nat
      /\ a[Len(a)] = f /\ \A k \in 1 .. Len(e) : a[k] = e[k]
  OBVIOUS
<1> HIDE DEF a
<1>2. a # << >>
  BY <1>1
<1>3. End(a) = f.base + f.size
  BY <1>1, <1>2 DEF End, Last
<1>4. a[1].base = 0
  <2>1. CASE e = << >>
    BY <2>1, <1>1 DEF End
  <2>2. CASE e # << >>
    BY <2>2, <1>1 DEF Laid
  <2> QED
    BY <2>1, <2>2
<1>5. ASSUME NEW j \in 1 .. Len(a), NEW k \in 1 .. Len(a), j < k
      PROVE  a[j].base + a[j].size <= a[k].base
  <2>1. j \in 1 .. Len(e) /\ a[j] = e[j]
    BY <1>1, <1>5
  <2>2. CASE k = Len(a)
    BY <2>1, <2>2, <1>1, WithinEnd
  <2>3. CASE k # Len(a)
    <3>1. k \in 1 .. Len(e) /\ a[k] = e[k]
      BY <2>3, <1>1
    <3>2. e[j].base + e[j].size <= e[k].base
      BY <2>1, <3>1, <1>5 DEF Laid
    <3> QED
      BY <2>1, <3>1, <3>2
  <2> QED
    BY <2>2, <2>3
<1>6. ASSUME NEW k \in 1 .. Len(a), k < Len(a)
      PROVE  a[k + 1].base = a[k].base + a[k].size
  <2>1. k \in 1 .. Len(e) /\ a[k] = e[k]
    BY <1>1, <1>6
  <2>2. CASE k = Len(e)
    <3>1. e # << >>
      BY <2>1
    <3>2. End(e) = e[k].base + e[k].size
      BY <2>2, <3>1 DEF End, Last
    <3> QED
      BY <2>1, <2>2, <3>2, <1>1
  <2>3. CASE k # Len(e)
    <3>1. k < Len(e) /\ k + 1 \in 1 .. Len(e)
      BY <2>1, <2>3, <1>1
    <3> QED
      BY <2>1, <3>1, <1>1 DEF Laid
  <2> QED
    BY <2>2, <2>3
<1> QED
  BY <1>1, <1>3, <1>4, <1>5, <1>6 DEF Laid, a

\* Ranges that stay where they are.
LEMMA SameLayout ==
    ASSUME NEW e \in Seq(ElemRecord), Laid(e), e # << >>,
           NEW a \in Seq(ElemRecord), Len(a) = Len(e),
           \A j \in 1 .. Len(e) : a[j].base = e[j].base /\ a[j].size = e[j].size
    PROVE  Laid(a) /\ End(a) = End(e)
<1>1. a \in Seq(ElemRecord) /\ Len(a) = Len(e)
  OBVIOUS
<1>3. \A j \in 1 .. Len(e) : a[j].base = e[j].base /\ a[j].size = e[j].size
  OBVIOUS
<1>4. Len(e) \in Nat /\ e # << >> /\ a # << >>
  BY <1>1
<1>5. Laid(a)
  <2>1. \A j \in 1 .. Len(e) : j < Len(e) => j + 1 \in 1 .. Len(e)
    BY <1>4
  <2>2. 1 \in 1 .. Len(e)
    BY <1>4
  <2> QED
    BY <2>1, <2>2, <1>1, <1>3, <1>4 DEF Laid
<1>6. End(a) = End(e)
  <2>1. Len(e) \in 1 .. Len(e)
    BY <1>4
  <2>2. End(a) = a[Len(e)].base + a[Len(e)].size
    BY <1>1, <1>4 DEF End, Last
  <2>3. End(e) = e[Len(e)].base + e[Len(e)].size
    BY <1>4 DEF End, Last
  <2>4. a[Len(e)].base = e[Len(e)].base /\ a[Len(e)].size = e[Len(e)].size
    BY <2>1, <1>3
  <2> QED
    BY <2>2, <2>3, <2>4
<1> QED
  BY <1>5, <1>6

\* Different ranges have no block in common.
LEMMA Apart ==
    ASSUME NEW e \in Seq(ElemRecord), Laid(e),
           NEW j \in 1 .. Len(e), NEW k \in 1 .. Len(e), j # k, NEW p \in Interval(e[k])
    PROVE  p \notin Interval(e[j])
<1>1. /\ e[j].base \in Nat /\ e[j].size \in Nat
      /\ e[k].base \in Nat /\ e[k].size \in Nat
  BY ElemNumbers
<1>2. p \in Int /\ e[k].base <= p /\ p < e[k].base + e[k].size
  BY <1>1 DEF Interval
<1>3. e[j].base + e[j].size <= e[k].base \/ e[k].base + e[k].size <= e[j].base
  <2>1. CASE j < k
    BY <2>1 DEF Laid
  <2>2. CASE k < j
    BY <2>2 DEF Laid
  <2> QED
    BY <2>1, <2>2
<1>4. ~(e[j].base <= p /\ p < e[j].base + e[j].size)
  BY <1>1, <1>2, <1>3
<1> QED
  BY <1>1, <1>4 DEF Interval

----------------------------------------------------------------------------
(***************************************************************************)
(* A permutation of n blocks, m of them not returned yet, g those returned.*)
(***************************************************************************)
Counted(n, m, e, g) ==
    /\ m <= n
    /\ g \subseteq 0 .. n - 1
    /\ Cardinality(g) = n - m
    /\ Laid(e)
    /\ \A k \in 1 .. Len(e) : ElemOK(e[k], g)

\* What the bits still to come are worth is what the ranges are short of.
Building(n, m, e, bits, w, g) ==
    /\ g = {} /\ m = n
    /\ End(e) + bits * w = n
    /\ bits # 0 => w \in Sizes

\* What is left of the draw is less than there is from the k-th range on.
Span(c, d) == c .. d - 1
Rest(n, e, k, g) == Span(e[k].base, n) \ g

Choosing(n, m, e, l, k, g) ==
    /\ m # 0
    /\ k \in 1 .. Len(e)
    /\ l < Cardinality(Rest(n, e, k, g))

\* A permutation begins with no ranges at all.
LEMMA BeginCount ==
    ASSUME NEW n \in Nat
    PROVE  Counted(n, n, << >>, {}) /\ (n <= MaxBlocks => Building(n, n, << >>, n, 1, {}))
<1>1. Cardinality({}) = 0
  BY FS_EmptySet
<1>2. Laid(<< >>) /\ End(<< >>) = 0
  BY DEF Laid, End
<1>3. 1 \in Sizes
  BY SizesAssumption
<1>4. Counted(n, n, << >>, {})
  BY <1>1, <1>2 DEF Counted
<1>5. Building(n, n, << >>, n, 1, {})
  BY <1>2, <1>3 DEF Building
<1> QED
  BY <1>4, <1>5

\* One bit further, the weight doubles.
LEMMA Halved ==
    ASSUME NEW n \in Nat, n <= MaxBlocks, NEW m, NEW e \in Seq(ElemRecord), Laid(e),
           NEW bits \in Nat \ {0}, NEW w \in Nat \ {0}, NEW g,
           Building(n, m, e, bits, w, g)
    PROVE  /\ bits % 2 = 1 => End(e) + w + (bits \div 2) * (2 * w) = n
           /\ bits % 2 # 1 => End(e) + (bits \div 2) * (2 * w) = n
           /\ bits \div 2 # 0 => 2 * w \in Sizes
           /\ bits \div 2 \in Nat /\ bits \div 2 <= bits
<1> DEFINE q == bits \div 2
<1>1. q \in Nat /\ q <= bits /\ bits = 2 * q + (bits % 2) /\ bits % 2 \in {0, 1}
  OBVIOUS
<1>2. End(e) \in Nat
  BY EndIsNat
<1>3. End(e) + bits * w = n /\ w \in Sizes
  BY DEF Building
<1> HIDE DEF q
<1>4. (2 * q) * w = q * (2 * w) /\ (2 * q + 1) * w = q * (2 * w) + w
  BY <1>1
<1>5. q # 0 => 2 * w \in Sizes
  <2> SUFFICES ASSUME q # 0 PROVE 2 * w \in Sizes
    OBVIOUS
  <2>1. PICK z \in Nat : q = z + 1
    <3>1. q - 1 \in Nat /\ q = (q - 1) + 1
      BY <1>1
    <3> QED
      BY <3>1
  <2>2. q * (2 * w) = z * (2 * w) + 2 * w /\ z * (2 * w) \in Nat
    BY <2>1
  <2>3. bits * w = q * (2 * w) \/ bits * w = q * (2 * w) + w
    BY <1>1, <1>4
  <2>4. bits * w >= 2 * w
    BY <2>2, <2>3, <1>1
  <2>5. bits * w \in Nat
    BY <2>2, <2>3, <1>1
  <2> DEFINE worth == bits * w
  <2>6. worth \in Nat /\ worth >= 2 * w /\ End(e) + worth = n
    BY <2>4, <2>5, <1>3
  <2> HIDE DEF worth
  <2>7. 2 * w <= MaxBlocks
    BY <2>6, <1>2, SizesAssumption
  <2> QED
    BY <2>7, <1>3, SizesAssumption
<1>6. /\ bits % 2 = 1 => End(e) + w + q * (2 * w) = n
      /\ bits % 2 # 1 => End(e) + q * (2 * w) = n
  <2>1. q * (2 * w) \in Nat
    BY <1>1
  <2>2. CASE bits % 2 = 1
    <3>1. bits * w = q * (2 * w) + w
      BY <2>2, <1>1, <1>4
    <3> QED
      BY <2>1, <2>2, <3>1, <1>2, <1>3
  <2>3. CASE bits % 2 = 0
    <3>1. bits * w = q * (2 * w)
      BY <2>3, <1>1, <1>4
    <3> QED
      BY <2>1, <2>3, <3>1, <1>2, <1>3
  <2> QED
    BY <2>2, <2>3, <1>1
<1> QED
  BY <1>1, <1>5, <1>6 DEF q

\* As many blocks have not been returned as remaining says.
LEMMA AllUngiven ==
    ASSUME NEW n \in Nat, NEW m \in Nat, NEW e, NEW g, Counted(n, m, e, g)
    PROVE  Cardinality((0 .. n - 1) \ g) = m
<1>1. IsFiniteSet(0 .. n - 1) /\ Cardinality(0 .. n - 1) = n
  <2>1. 0 \in Int /\ n - 1 \in Int
    OBVIOUS
  <2>2. /\ IsFiniteSet(0 .. n - 1)
        /\ Cardinality(0 .. n - 1) = IF 0 > n - 1 THEN 0 ELSE (n - 1) - 0 + 1
    BY <2>1, FS_Interval
  <2> QED
    BY <2>2
<1>2. (0 .. n - 1) \cap g = g /\ Cardinality(g) = n - m
  BY DEF Counted
<1>3. Cardinality((0 .. n - 1) \ g) = Cardinality(0 .. n - 1) - Cardinality((0 .. n - 1) \cap g)
  BY <1>1, FS_Difference
<1>4. Cardinality((0 .. n - 1) \cap g) = n - m
  BY <1>2
<1>5. Cardinality((0 .. n - 1) \ g) = n - (n - m)
  BY <1>1, <1>3, <1>4
<1> QED
  BY <1>5

\* What a range is passed over for is not in it, so there is another one.
LEMMA PassedOn ==
    ASSUME NEW n \in Nat, NEW m \in Nat, NEW e \in Seq(ElemRecord), NEW g,
           Counted(n, m, e, g), End(e) = n,
           NEW l \in Nat, NEW k, Choosing(n, m, e, l, k, g), l >= e[k].remaining
    PROVE  Choosing(n, m, e, l - e[k].remaining, k + 1, g) /\ l - e[k].remaining \in Nat
<1>1. k \in 1 .. Len(e) /\ m # 0 /\ Laid(e) /\ ElemOK(e[k], g) /\ Len(e) \in Nat
  BY DEF Choosing, Counted
<1> DEFINE c == e[k].base
           d == e[k].base + e[k].size
           V == Ungiven(e[k], g)
           W == Span(d, n) \ g
<1>2. c \in Nat /\ d \in Nat /\ c <= d /\ d <= n /\ e[k].remaining \in Nat
  BY <1>1, ElemNumbers, WithinEnd
<1>3. V = Span(c, d) \ g
  <2>1. e[k].base \in Nat /\ e[k].size \in Nat
    BY <1>1, ElemNumbers
  <2>2. Interval(e[k]) = Span(c, d)
    BY <2>1 DEF Interval, Span
  <2> QED
    BY <2>2 DEF Ungiven
<1>4. Rest(n, e, k, g) = V \cup W /\ V \cap W = {} /\ IsFiniteSet(V) /\ IsFiniteSet(W)
  <2>1. Rest(n, e, k, g) = Span(c, n) \ g
    BY DEF Rest
  <2>2. c \in Nat /\ d \in Nat /\ c <= d /\ d <= n
    BY <1>2
  <2> HIDE DEF c, d, V
  <2>3. Span(c, n) = Span(c, d) \cup Span(d, n) /\ Span(c, d) \cap Span(d, n) = {}
    BY <2>2 DEF Span
  <2>4. IsFiniteSet(Span(c, d)) /\ IsFiniteSet(Span(d, n))
    <3>1. c \in Int /\ d - 1 \in Int /\ d \in Int /\ n - 1 \in Int
      BY <2>2
    <3> QED
      BY <3>1, FS_Interval DEF Span
  <2>5. V \in SUBSET Span(c, d) /\ W \in SUBSET Span(d, n)
    BY <1>3
  <2>6. IsFiniteSet(V) /\ IsFiniteSet(W)
    BY <2>4, <2>5, FS_Subset
  <2>7. Rest(n, e, k, g) = V \cup W /\ V \cap W = {}
    BY <1>3, <2>1, <2>3
  <2> QED
    BY <2>6, <2>7
<1>5. Cardinality(V) = e[k].remaining
  BY <1>1 DEF ElemOK
<1>6. Cardinality(V \cup W) = e[k].remaining + Cardinality(W) /\ Cardinality(W) \in Nat
  <2>1. Cardinality(V \cap W) = 0
    BY <1>4, FS_EmptySet
  <2>2. Cardinality(V \cup W) = Cardinality(V) + Cardinality(W) - Cardinality(V \cap W)
    BY <1>4, FS_Union
  <2>3. Cardinality(W) \in Nat
    BY <1>4, FS_CardinalityType
  <2> QED
    BY <2>1, <2>2, <2>3, <1>2, <1>5
<1>7. l < e[k].remaining + Cardinality(W)
  BY <1>4, <1>6 DEF Choosing
<1>8. l - e[k].remaining \in Nat /\ l - e[k].remaining < Cardinality(W)
  BY <1>2, <1>6, <1>7
<1>9. k # Len(e)
  <2> SUFFICES ASSUME k = Len(e) PROVE FALSE
    OBVIOUS
  <2>1. d = n
    BY <1>1 DEF End, Last
  <2>2. W = {}
    BY <2>1, <1>2 DEF Span
  <2>3. Cardinality(W) = 0
    BY <2>2, FS_EmptySet
  <2> QED
    BY <2>3, <1>8
<1>10. k + 1 \in 1 .. Len(e) /\ e[k + 1].base = d
  BY <1>1, <1>9 DEF Laid
<1>11. Rest(n, e, k + 1, g) = W
  BY <1>10 DEF Rest
<1> QED
  BY <1>1, <1>8, <1>10, <1>11 DEF Choosing

\* What has been returned, and p.
With(g, p) == g \cup {p}

\* A block more is returned, and counted.
LEMMA TakenBlock ==
    ASSUME NEW n \in Nat, NEW m \in Nat \ {0}, NEW e \in Seq(ElemRecord), NEW g,
           Counted(n, m, e, g), End(e) = n,
           NEW k \in 1 .. Len(e), NEW p \in Interval(e[k]), p \notin g,
           NEW f \in ElemRecord, f.base = e[k].base, f.size = e[k].size,
           ElemOK(f, With(g, p)),
           NEW a \in Seq(ElemRecord), Len(a) = Len(e), a[k] = f,
           \A j \in 1 .. Len(e) : j # k => a[j] = e[j]
    PROVE  Counted(n, m - 1, a, With(g, p)) /\ End(a) = n
<1>1. Laid(e) /\ (\A j \in 1 .. Len(e) : ElemOK(e[j], g)) /\ e[k] \in ElemRecord
  BY DEF Counted
<1>2. /\ a \in Seq(ElemRecord) /\ Len(a) = Len(e) /\ a[k] = f
      /\ \A j \in 1 .. Len(e) : j # k => a[j] = e[j]
      /\ Laid(a) /\ End(a) = End(e)
  <2>1. a \in Seq(ElemRecord) /\ Len(a) = Len(e)
    OBVIOUS
  <2>2. a[k] = f /\ \A j \in 1 .. Len(e) : j # k => a[j] = e[j]
    OBVIOUS
  <2>3. \A j \in 1 .. Len(e) : a[j].base = e[j].base /\ a[j].size = e[j].size
    BY <2>2
  <2>4. e # << >>
    OBVIOUS
  <2>5. Laid(a) /\ End(a) = End(e)
    BY <1>1, <2>1, <2>3, <2>4, SameLayout
  <2> QED
    BY <2>1, <2>2, <2>5
<1>3. ASSUME NEW j \in 1 .. Len(a) PROVE ElemOK(a[j], g \cup {p})
  <2>1. CASE j = k
    BY <2>1, <1>2 DEF With
  <2>2. CASE j # k
    <3>1. p \notin Interval(e[j])
      BY <2>2, <1>1, <1>2, Apart
    <3>2. e[j] \in ElemRecord /\ ElemOK(e[j], g)
      BY <1>1, <1>2
    <3>3. ElemOK(e[j], g \cup {p})
      BY <3>1, <3>2, OtherElem
    <3> QED
      BY <2>2, <3>3, <1>2
  <2> QED
    BY <2>1, <2>2
<1>4. p \in 0 .. n - 1
  <2>1. e[k].base \in Nat /\ e[k].size \in Nat /\ e[k].base + e[k].size <= n
    BY <1>1, ElemNumbers, WithinEnd
  <2> QED
    BY <2>1 DEF Interval
<1>5. Cardinality(g \cup {p}) = n - (m - 1)
  <2>1. g \in SUBSET (0 .. n - 1) /\ Cardinality(g) = n - m
    BY DEF Counted
  <2>2. IsFiniteSet(0 .. n - 1)
    <3>1. 0 \in Int /\ n - 1 \in Int
      OBVIOUS
    <3> QED
      BY <3>1, FS_Interval
  <2>3. IsFiniteSet(g)
    BY <2>1, <2>2, FS_Subset
  <2>4. Cardinality(g \cup {p}) = Cardinality(g) + 1
    BY <2>3, FS_AddElement
  <2> QED
    BY <2>1, <2>4
<1>6. g \cup {p} \subseteq 0 .. n - 1 /\ m - 1 <= n
  BY <1>4 DEF Counted
<1>7. Counted(n, m - 1, a, g \cup {p})
  BY <1>2, <1>3, <1>5, <1>6 DEF Counted
<1> QED
  BY <1>2, <1>7 DEF With

\* A range is added in which nothing has been returned from.
LEMMA AddedRange ==
    ASSUME NEW n \in Nat, NEW m \in Nat, NEW e \in Seq(ElemRecord), Counted(n, m, e, {}),
           NEW f \in ElemRecord, f.base = End(e), ElemOK(f, {})
    PROVE  /\ Append(e, f) \in Seq(ElemRecord) /\ Counted(n, m, Append(e, f), {})
           /\ End(Append(e, f)) = End(e) + f.size
<1> DEFINE a == Append(e, f)
<1>1. Laid(e) /\ \A k \in 1 .. Len(e) : ElemOK(e[k], {})
  BY DEF Counted
<1>2. a \in Seq(ElemRecord) /\ Laid(a) /\ End(a) = End(e) + f.size
  BY <1>1, AddElem
<1>3. \A k \in 1 .. Len(a) : ElemOK(a[k], {})
  <2>1. ASSUME NEW k \in 1 .. Len(a) PROVE a[k] = f \/ (k \in 1 .. Len(e) /\ a[k] = e[k])
    OBVIOUS
  <2> QED
    BY <2>1, <1>1
<1> QED
  BY <1>2, <1>3 DEF Counted

\* The choice begins with all that is left.
LEMMA FirstChoice ==
    ASSUME NEW n \in Nat, NEW m \in Nat \ {0}, NEW e \in Seq(ElemRecord), e # << >>, NEW g,
           Counted(n, m, e, g), NEW l \in 0 .. m - 1
    PROVE  Choosing(n, m, e, l, 1, g)
<1>1. e[1].base = 0 /\ 1 \in 1 .. Len(e)
  BY DEF Counted, Laid
<1> DEFINE S == (0 .. n - 1) \ g
<1>2. Rest(n, e, 1, g) = S
  BY <1>1 DEF Rest, Span
<1>3. Cardinality(S) = m
  BY AllUngiven
<1> HIDE DEF S
<1>4. l < Cardinality(Rest(n, e, 1, g))
  BY <1>2, <1>3
<1> QED
  BY <1>1, <1>4 DEF Choosing

----------------------------------------------------------------------------
(***************************************************************************)
(* The inductive invariant: how many blocks are returned, and where they   *)
(* can be, is only kept by what each register is still to come to.         *)
(***************************************************************************)
RankInv(r) ==
    /\ ~At(r, "none") => Counted(blocks[r], remaining[r], elem[r], given[r])
    /\ At(r, "build") =>
          Building(blocks[r], remaining[r], elem[r], b[r], weight[r], given[r])
    /\ At(r, "ready") \/ At(r, "pick") => End(elem[r]) = blocks[r]
    /\ At(r, "pick") =>
          Choosing(blocks[r], remaining[r], elem[r], left[r], x[r], given[r])

RangeInv == RangeTypeOK /\ \A r \in Ranks : RankInv(r)

\* The range of a rank is as it was.
Kept(s) ==
    /\ stage'[s] = stage[s] /\ blocks'[s] = blocks[s] /\ remaining'[s] = remaining[s]
    /\ elem'[s] = elem[s] /\ b'[s] = b[s] /\ weight'[s] = weight[s]
    /\ left'[s] = left[s] /\ x'[s] = x[s] /\ given'[s] = given[s]

\* The invariant is kept when it is for the only range that changes.
LEMMA OthersKept ==
    ASSUME RangeInv, NEW r \in Ranks, RangeTypeOK',
           \A s \in Ranks \ {r} : Kept(s), RankInv(r)'
    PROVE  RangeInv'
<1>1. ASSUME NEW s \in Ranks \ {r} PROVE RankInv(s)'
  <2>1. RankInv(s) /\ Kept(s)
    BY DEF RangeInv
  <2> QED
    BY <2>1 DEF RankInv, Kept, At
<1> QED
  BY <1>1 DEF RangeInv

\* What the types say of the range of one rank.
LEMMA RankTypes ==
    ASSUME RangeTypeOK, NEW r \in Ranks
    PROVE  /\ stage[r] \in {"none", "build", "ready", "pick"}
           /\ blocks[r] \in Nat /\ blocks[r] <= MaxBlocks
           /\ remaining[r] \in Nat /\ remaining[r] <= MaxBlocks
           /\ elem[r] \in Seq(ElemRecord)
           /\ b[r] \in Nat /\ b[r] <= MaxBlocks /\ weight[r] \in Nat \ {0}
           /\ left[r] \in Nat /\ x[r] \in Nat \ {0} /\ given[r] \in SUBSET Nat
BY SizesAssumption DEF RangeTypeOK

\* u_lfsr_range_init begins without ranges.
LEMMA NewRangeKeeps ==
    ASSUME RangeInv, NEW r \in Ranks, NEW n \in 0 .. MaxBlocks, NewRange(r, n)
    PROVE  RangeInv'
<1>1. RangeTypeOK
  BY DEF RangeInv
<1>2. n \in Nat /\ n <= MaxBlocks
  BY SizesAssumption
<1>3. << >> \in Seq(ElemRecord)
  OBVIOUS
<1>4. RangeTypeOK'
  BY <1>1, <1>2, <1>3 DEF RangeTypeOK, NewRange, Turn, pick
<1>5. \A s \in Ranks \ {r} : Kept(s)
  BY <1>1 DEF RangeTypeOK, NewRange, Turn, pick, Kept
<1>6. /\ stage'[r] = "build" /\ blocks'[r] = n /\ remaining'[r] = n /\ elem'[r] = << >>
      /\ b'[r] = n /\ weight'[r] = 1 /\ given'[r] = {}
  BY <1>1 DEF RangeTypeOK, NewRange, Turn
<1>7. Counted(n, n, << >>, {}) /\ Building(n, n, << >>, n, 1, {})
  BY <1>2, BeginCount
<1>8. RankInv(r)'
  BY <1>6, <1>7 DEF RankInv, At
<1> QED
  BY <1>4, <1>5, <1>8, OthersKept

\* A range is added for a bit that is set.
LEMMA BuildBitKeeps ==
    ASSUME RangeInv, NEW r \in Ranks, BuildBit(r)
    PROVE  RangeInv'
<1> DEFINE n == blocks[r]
           m == remaining[r]
           e == elem[r]
           w == weight[r]
<1>1. RangeTypeOK /\ RankInv(r) /\ At(r, "build") /\ b[r] # 0
  BY DEF RangeInv, BuildBit
<1>2. /\ n \in Nat /\ n <= MaxBlocks /\ m \in Nat /\ e \in Seq(ElemRecord)
      /\ b[r] \in Nat \ {0} /\ b[r] <= MaxBlocks /\ w \in Nat \ {0}
  BY <1>1, RankTypes
<1>3. /\ Counted(n, m, e, given[r]) /\ Building(n, m, e, b[r], w, given[r])
      /\ given[r] = {} /\ w \in Sizes /\ Laid(e)
  BY <1>1 DEF RankInv, At, Building, Counted
<1> DEFINE q == b[r] \div 2
<1>4. /\ b[r] % 2 = 1 => End(e) + w + q * (2 * w) = n
      /\ b[r] % 2 # 1 => End(e) + q * (2 * w) = n
      /\ q # 0 => 2 * w \in Sizes
      /\ q \in Nat /\ q <= b[r]
  BY <1>2, <1>3, Halved
<1>5. 2 * w \in Nat \ {0} /\ q \in 0 .. MaxBlocks
  <2>1. MaxBlocks \in Nat
    BY SizesAssumption
  <2> HIDE DEF q
  <2> QED
    BY <1>2, <1>4, <2>1
<1>6. /\ UNCHANGED <<stage, blocks, remaining, given, left, x>>
      /\ b' = [b EXCEPT ![r] = q] /\ weight' = [weight EXCEPT ![r] = 2 * w]
  BY DEF BuildBit, pick
<1> DEFINE To(a) == elem' = [elem EXCEPT ![r] = a]
<1>7. ASSUME NEW a \in Seq(ElemRecord), To(a), Counted(n, m, a, {}), End(a) + q * (2 * w) = n
      PROVE  RangeInv'
  <2> HIDE DEF q
  <2>1. RangeTypeOK'
    BY <1>1, <1>5, <1>6, <1>7 DEF RangeTypeOK
  <2>2. \A s \in Ranks \ {r} : Kept(s)
    BY <1>1, <1>6, <1>7 DEF RangeTypeOK, Kept
  <2>3. /\ stage'[r] = "build" /\ blocks'[r] = n /\ remaining'[r] = m /\ elem'[r] = a
        /\ b'[r] = q /\ weight'[r] = 2 * w /\ given'[r] = {}
    BY <1>1, <1>3, <1>6, <1>7 DEF RangeTypeOK, At
  <2>4. Building(n, m, a, q, 2 * w, {})
    BY <1>3, <1>4, <1>7 DEF Building
  <2>5. RankInv(r)'
    BY <2>3, <2>4, <1>7 DEF RankInv, At
  <2> QED
    BY <2>1, <2>2, <2>5, OthersKept
<1>8. CASE b[r] % 2 = 1
  <2>1. PICK seed_ \in Starts(w) : elem' = [elem EXCEPT ![r] =
            Append(@, [size |-> w, base |-> NextBase(r), state |-> seed_, remaining |-> w])]
    BY <1>8 DEF BuildBit
  <2> DEFINE f == [size |-> w, base |-> NextBase(r), state |-> seed_, remaining |-> w]
             a == Append(e, f)
  <2>2. NextBase(r) = End(e)
    BY DEF NextBase, End
  <2>3. End(e) \in Nat
    BY <1>2, <1>3, EndIsNat
  <2>4. f \in ElemRecord /\ ElemOK(f, {})
    BY <1>3, <2>2, <2>3, FreshElem
  <2>5. f.base = End(e) /\ f.size = w
    BY <2>2
  <2>6. To(a)
    BY <2>1, <1>1 DEF RangeTypeOK
  <2> HIDE DEF f
  <2>7. a \in Seq(ElemRecord) /\ Counted(n, m, a, {}) /\ End(a) = End(e) + f.size
    <3>1. Counted(n, m, e, {})
      BY <1>3
    <3> HIDE DEF n, m, e
    <3> QED
      BY <1>2, <2>4, <2>5, <3>1, AddedRange
  <2>8. End(a) + q * (2 * w) = n
    BY <1>4, <1>8, <2>5, <2>7
  <2> HIDE DEF a, To
  <2> QED
    BY <1>7, <2>6, <2>7, <2>8
<1>9. CASE b[r] % 2 # 1
  <2>1. To(e)
    BY <1>9, <1>1 DEF BuildBit, RangeTypeOK
  <2> HIDE DEF To
  <2> QED
    BY <1>2, <1>3, <1>4, <1>7, <1>9, <2>1
<1> QED
  BY <1>8, <1>9

\* All bits have been looked at: the ranges reach to the last block.
LEMMA BuiltKeeps ==
    ASSUME RangeInv, NEW r \in Ranks, Built(r)
    PROVE  RangeInv'
<1>1. RangeTypeOK /\ RankInv(r)
  BY DEF RangeInv
<1>2. /\ At(r, "build") /\ b[r] = 0 /\ stage' = [stage EXCEPT ![r] = "ready"]
      /\ UNCHANGED <<blocks, remaining, elem, b, weight, left, x, given>>
  BY DEF Built, Turn, range, build, pick
<1>3. RangeTypeOK'
  BY <1>1, <1>2 DEF RangeTypeOK
<1>4. \A s \in Ranks \ {r} : Kept(s)
  BY <1>1, <1>2 DEF RangeTypeOK, Kept
<1>5. stage'[r] = "ready"
  BY <1>1, <1>2 DEF RangeTypeOK
<1>6. End(elem[r]) = blocks[r]
  <2>1. End(elem[r]) + b[r] * weight[r] = blocks[r] /\ Laid(elem[r])
    BY <1>1, <1>2 DEF RankInv, At, Building, Counted
  <2>2. End(elem[r]) \in Nat /\ weight[r] \in Nat
    BY <1>1, <2>1, RankTypes, EndIsNat
  <2> QED
    BY <1>2, <2>1, <2>2
<1>7. RankInv(r)'
  BY <1>1, <1>2, <1>5, <1>6 DEF RankInv, At
<1> QED
  BY <1>3, <1>4, <1>7, OthersKept

\* A number less than what is left is drawn.
LEMMA DrawKeeps ==
    ASSUME RangeInv, NEW r \in Ranks, Draw(r)
    PROVE  RangeInv'
<1>1. RangeTypeOK /\ RankInv(r)
  BY DEF RangeInv
<1>2. /\ At(r, "ready") /\ elem[r] # << >> /\ remaining[r] # 0
      /\ x' = [x EXCEPT ![r] = 1] /\ stage' = [stage EXCEPT ![r] = "pick"]
      /\ UNCHANGED <<blocks, remaining, elem, b, weight, given>>
  BY DEF Draw, Turn, range, build
<1>3. PICK l \in 0 .. remaining[r] - 1 : left' = [left EXCEPT ![r] = l]
  BY DEF Draw
<1>4. l \in Nat
  OBVIOUS
<1>5. RangeTypeOK'
  BY <1>1, <1>2, <1>3, <1>4 DEF RangeTypeOK
<1>6. \A s \in Ranks \ {r} : Kept(s)
  BY <1>1, <1>2, <1>3 DEF RangeTypeOK, Kept
<1>7. stage'[r] = "pick" /\ x'[r] = 1 /\ left'[r] = l
  BY <1>1, <1>2, <1>3 DEF RangeTypeOK
<1>8. /\ Counted(blocks[r], remaining[r], elem[r], given[r])
      /\ End(elem[r]) = blocks[r]
  BY <1>1, <1>2 DEF RankInv, At
<1>9. Choosing(blocks[r], remaining[r], elem[r], l, 1, given[r])
  <2>1. /\ blocks[r] \in Nat /\ remaining[r] \in Nat \ {0}
        /\ elem[r] \in Seq(ElemRecord) /\ elem[r] # << >>
    BY <1>1, <1>2, RankTypes
  <2> QED
    BY <1>8, <2>1, FirstChoice
<1>10. RankInv(r)'
  BY <1>2, <1>7, <1>8, <1>9 DEF RankInv, At
<1> QED
  BY <1>5, <1>6, <1>10, OthersKept

\* There is a range after the one that is passed over.
LEMMA SkipKeeps ==
    ASSUME RangeInv, NEW r \in Ranks, Skip(r)
    PROVE  RangeInv'
<1> DEFINE c == elem[r][x[r]].remaining
<1>1. RangeTypeOK /\ RankInv(r)
  BY DEF RangeInv
<1>2. /\ At(r, "pick") /\ left[r] >= c
      /\ left' = [left EXCEPT ![r] = left[r] - c] /\ x' = [x EXCEPT ![r] = x[r] + 1]
      /\ UNCHANGED <<stage, blocks, remaining, elem, b, weight, given>>
  BY <1>1 DEF Skip, Beyond, range, build, RangeTypeOK
<1>3. /\ Counted(blocks[r], remaining[r], elem[r], given[r])
      /\ End(elem[r]) = blocks[r]
      /\ Choosing(blocks[r], remaining[r], elem[r], left[r], x[r], given[r])
  BY <1>1, <1>2 DEF RankInv, At
<1>4. /\ Choosing(blocks[r], remaining[r], elem[r], left[r] - c, x[r] + 1, given[r])
      /\ left[r] - c \in Nat
  <2>1. /\ blocks[r] \in Nat /\ remaining[r] \in Nat
        /\ elem[r] \in Seq(ElemRecord) /\ left[r] \in Nat
    BY <1>1, RankTypes
  <2> QED
    BY <1>2, <1>3, <2>1, PassedOn
<1> HIDE DEF c
<1>5. RangeTypeOK'
  <2>1. x[r] + 1 \in Nat \ {0}
    BY <1>1, RankTypes
  <2> QED
    BY <1>1, <1>2, <1>4, <2>1 DEF RangeTypeOK
<1>6. \A s \in Ranks \ {r} : Kept(s)
  BY <1>1, <1>2 DEF RangeTypeOK, Kept
<1>7. left'[r] = left[r] - c /\ x'[r] = x[r] + 1
  BY <1>1, <1>2 DEF RangeTypeOK
<1>8. RankInv(r)'
  BY <1>2, <1>3, <1>4, <1>7 DEF RankInv, At
<1> QED
  BY <1>5, <1>6, <1>8, OthersKept

\* The block of the range at hand has not been returned before.
LEMMA TakeKeeps ==
    ASSUME RangeInv, NEW r \in Ranks, Take(r)
    PROVE  RangeInv'
<1> DEFINE n == blocks[r]
           m == remaining[r]
           e == elem[r]
           k == x[r]
           g == given[r]
           p == Block(r)
           t == NextState(e[k])
           f == [e[k] EXCEPT !.state = t, !.remaining = @ - 1]
           a == [e EXCEPT ![k] = f]
<1>1. RangeTypeOK /\ RankInv(r) /\ At(r, "pick")
  BY DEF RangeInv, Take
<1>2. /\ n \in Nat /\ n <= MaxBlocks /\ m \in Nat /\ m <= MaxBlocks
      /\ e \in Seq(ElemRecord) /\ left[r] \in Nat /\ g \in SUBSET Nat
  BY <1>1, RankTypes
<1>3. /\ Counted(n, m, e, g) /\ End(e) = n /\ Choosing(n, m, e, left[r], k, g)
  BY <1>1 DEF RankInv, At
<1>4. m \in Nat \ {0} /\ k \in 1 .. Len(e) /\ ElemOK(e[k], g) /\ Laid(e)
  BY <1>2, <1>3 DEF Choosing, Counted
<1>5. e[k] \in ElemRecord /\ e[k].base \in Nat /\ e[k].size \in Nat /\ e[k].remaining \in Nat
  BY <1>2, <1>4, ElemNumbers
<1>6. e[k].remaining # 0
  BY <1>2, <1>5 DEF Take, Beyond
<1>7. /\ p \in Interval(e[k]) /\ p \notin g
      /\ f \in ElemRecord /\ f.base = e[k].base /\ f.size = e[k].size
      /\ ElemOK(f, g \cup {p})
  <2>1. p = IF e[k].remaining = 1 THEN e[k].base ELSE e[k].base + e[k].state
    BY DEF Block
  <2> DEFINE h == e[k]
  <2>2. h \in ElemRecord /\ ElemOK(h, g) /\ h.remaining # 0
    BY <1>4, <1>5, <1>6
  <2>3. t \in Nat
    BY <2>2, NextStateType
  <2>4. h.remaining - 1 \in Nat
    BY <2>2, <1>5
  <2> HIDE DEF p, t
  <2>5. /\ f \in ElemRecord /\ f.size = h.size /\ f.base = h.base /\ f.state = t
        /\ f.remaining = h.remaining - 1
    BY <2>2, <2>3, <2>4 DEF ElemRecord
  <2> HIDE DEF f
  <2>6. p \in Interval(h) /\ p \notin g /\ ElemOK(f, g \cup {p})
    BY <2>1, <2>2, <2>5, NextOfElem DEF t
  <2> QED
    BY <2>5, <2>6
<1>8. /\ elem' = [elem EXCEPT ![r] = a]
      /\ remaining' = [remaining EXCEPT ![r] = m - 1]
      /\ given' = [given EXCEPT ![r] = g \cup {p}]
      /\ stage' = [stage EXCEPT ![r] = "ready"]
      /\ UNCHANGED <<blocks, b, weight, left, x>>
  BY <1>1 DEF Take, NextState, Turn, build, pick, RangeTypeOK
<1> HIDE DEF p, t, f
<1>9. a \in Seq(ElemRecord) /\ Counted(n, m - 1, a, g \cup {p}) /\ End(a) = n
  <2>1. /\ a \in Seq(ElemRecord) /\ Len(a) = Len(e) /\ a[k] = f
        /\ \A j \in 1 .. Len(e) : j # k => a[j] = e[j]
    BY <1>2, <1>4, <1>7
  <2>2. ElemOK(f, With(g, p))
    BY <1>7 DEF With
  <2> HIDE DEF n, m, e, k, g, a
  <2>3. Counted(n, m - 1, a, With(g, p)) /\ End(a) = n
    BY <2>1, <2>2, <1>2, <1>3, <1>4, <1>7, TakenBlock
  <2> QED
    BY <2>1, <2>3 DEF With
<1>10. m - 1 \in 0 .. MaxBlocks /\ g \cup {p} \in SUBSET Nat
  <2>1. p \in Nat
    BY <1>5, <1>7 DEF Interval
  <2> QED
    BY <1>2, <1>4, <2>1, SizesAssumption
<1> HIDE DEF a
<1>11. RangeTypeOK'
  BY <1>1, <1>8, <1>9, <1>10 DEF RangeTypeOK
<1>12. \A s \in Ranks \ {r} : Kept(s)
  BY <1>1, <1>8 DEF RangeTypeOK, Kept
<1>13. /\ stage'[r] = "ready" /\ blocks'[r] = n /\ remaining'[r] = m - 1
       /\ elem'[r] = a /\ given'[r] = g \cup {p}
  BY <1>1, <1>8 DEF RangeTypeOK
<1>14. RankInv(r)'
  BY <1>9, <1>13 DEF RankInv, At
<1> QED
  BY <1>11, <1>12, <1>14, OthersKept

\* u_lfsr_range_free leaves nothing to keep.
LEMMA FreeRangeKeeps ==
    ASSUME RangeInv, NEW r \in Ranks, FreeRange(r)
    PROVE  RangeInv'
<1>1. RangeTypeOK
  BY DEF RangeInv
<1>2. << >> \in Seq(ElemRecord)
  OBVIOUS
<1>3. RangeTypeOK'
  BY <1>1, <1>2 DEF RangeTypeOK, FreeRange, Turn, build, pick
<1>4. \A s \in Ranks \ {r} : Kept(s)
  BY <1>1 DEF RangeTypeOK, FreeRange, Turn, build, pick, Kept
<1>5. stage'[r] = "none"
  BY <1>1 DEF RangeTypeOK, FreeRange, Turn
<1>6. RankInv(r)'
  BY <1>5 DEF RankInv, At
<1> QED
  BY <1>3, <1>4, <1>6, OthersKept

----------------------------------------------------------------------------
(***************************************************************************)
(* IOR does nothing else to a range.                                       *)
(***************************************************************************)
\* No rank has a range to begin with.
LEMMA RangeInvInit == Init => RangeInv
<1> SUFFICES ASSUME Init PROVE RangeInv
  OBVIOUS
<1>1. RangeInit
  BY DEF Init
<1>2. 0 \in 0 .. MaxBlocks /\ << >> \in Seq(ElemRecord)
  BY SizesAssumption
<1>3. RangeTypeOK
  BY <1>1, <1>2 DEF RangeInit, RangeTypeOK
<1>4. \A r \in Ranks : RankInv(r)
  BY <1>1 DEF RangeInit, RankInv, At
<1> QED
  BY <1>3, <1>4 DEF RangeInv

\* What leaves all ranges alone keeps the invariant.
LEMMA RangeInvStutter ==
    ASSUME RangeInv, UNCHANGED rangeVars
    PROVE  RangeInv'
BY DEF RangeInv, RangeTypeOK, RankInv, At, rangeVars

\* Every step of a rank is one of these of its range, or leaves it alone.
LEMMA RangeInvStep == RangeInv /\ [Next]_vars => RangeInv'
<1> SUFFICES ASSUME RangeInv, [Next]_vars PROVE RangeInv'
  OBVIOUS
<1>1. CASE UNCHANGED vars
  <2>1. UNCHANGED rangeVars
    BY <1>1 DEF vars
  <2> QED
    BY <2>1, RangeInvStutter
<1>2. ASSUME NEW r \in Ranks, RankStep(r) PROVE RangeInv'
  <2>1. CASE SetupRange(r)
    <3>1. PICK n \in 0 .. MaxBlocks : NewRange(r, n)
      BY <2>1 DEF SetupRange
    <3> QED
      BY <3>1, NewRangeKeeps
  <2>2. CASE AskRange(r)
    <3>1. CASE Restart(r)
      <4>1. NewRange(r, blocks[r])
        BY <3>1 DEF Restart
      <4>2. blocks[r] \in 0 .. MaxBlocks
        BY DEF RangeInv, RangeTypeOK
      <4> QED
        BY <4>1, <4>2, NewRangeKeeps
    <3> QED
      BY <2>2, <3>1, DrawKeeps DEF AskRange
  <2>3. CASE WithinRange(r)
    BY <2>3, BuildBitKeeps, BuiltKeeps, SkipKeeps DEF WithinRange
  <2>4. CASE TransferPermuted(r)
    BY <2>4, TakeKeeps DEF TransferPermuted
  <2>5. CASE Close(r)
    <3>1. FreeRange(r) \/ UNCHANGED rangeVars
      BY <2>5 DEF Close
    <3> QED
      BY <3>1, FreeRangeKeeps, RangeInvStutter
  <2>6. CASE \/ Begin(r) \/ SeedByClock(r) \/ SeedKnown(r) \/ SeedGiven(r) \/ Shuffle(r)
             \/ TransferShuffled(r) \/ Spin(r) \/ TransferDrawn(r) \/ DivideByZero(r)
             \/ FailBelowZero(r) \/ LeaveLoop(r) \/ Agreed(r) \/ WornOut(r)
    <3>1. UNCHANGED rangeVars
      BY <2>6 DEF Begin, SeedByClock, SeedKnown, SeedGiven, Shuffle, TransferShuffled, Spin,
                  TransferDrawn, DivideByZero, FailBelowZero, LeaveLoop, Agreed, WornOut, vars
    <3> QED
      BY <3>1, RangeInvStutter
  <2> QED
    BY <1>2, <2>1, <2>2, <2>3, <2>4, <2>5, <2>6 DEF RankStep
<1> QED
  BY <1>1, <1>2 DEF Next

\* Nothing but blocks of the file is returned, none twice, and all of them
\* before the permutation begins anew, whatever the seeds and the number of
\* blocks: what src/test/rand.c tries for some of them.
THEOREM EachBlockOnceHolds == Spec => []EachBlockOnce
<1>1. RangeInv => EachBlockOnce
  BY DEF RangeInv, RankInv, Counted, EachBlockOnce
<1> QED
  BY <1>1, RangeInvInit, RangeInvStep, PTL DEF Spec

\* The loop over elem[], which has no bound of its own, ends at a range
\* there is.
THEOREM PicksWithinHolds == Spec => []PicksWithin
<1>1. RangeInv => PicksWithin
  BY DEF RangeInv, RankInv, Choosing, PicksWithin
<1> QED
  BY <1>1, RangeInvInit, RangeInvStep, PTL DEF Spec

----------------------------------------------------------------------------
(***************************************************************************)
(* What a rank of a test in shuffled order has accessed is told by its     *)
(* count and by the numbers drawn for its seed.                            *)
(***************************************************************************)
Spot(r, j, n) == <<Name(r, Doing(r)), order[r][j] + n * SegmentSize>>
Spots(r) == {Spot(r, j, n) : j \in 1 .. Len(order[r]), n \in 0 .. opt.segments - 1}

\* Where it goes with its k-th transfer, from 0.
Nth(r, k) == Spot(r, (k % Len(order[r])) + 1, k \div Len(order[r]))

\* No element stands in two places.
NoneTwice(a, n) == \A i, j \in 1 .. n : i # j => a[i] # a[j]

\* Which offsets of a segment the array of rank p is to hold.
Due(s, p) == {v \in 0 .. SegmentSize - 1 : opt.filePerProc \/ s[v + 1] % NumTasks = p}

\* q holds each of them once, and nothing else.
Filled(q, s, p) ==
    /\ q \in Seq(0 .. SegmentSize - 1) /\ NoneTwice(q, Len(q))
    /\ \A v : (\E i \in 1 .. Len(q) : q[i] = v) <=> v \in Due(s, p)

\* The phase of a rank has not come to its array yet, or has passed it.
Early(r) == pc[r] \in {"open", "seedWait", "array"} \/ (pc[r] = "next" /\ done[r] = 0)
Over(r) == pc[r] = "close" \/ (pc[r] = "next" /\ done[r] # 0)

AccessedInv(r) ==
    /\ pc[r] # "next" => done[r] # 0
    /\ Early(r) => count[r] = 0 /\ accessed[r] = {}
    /\ ~Early(r) => seed[r] \in DOMAIN draws /\ Filled(order[r], draws[seed[r]], Pretend(r))
    /\ accessed[r] \subseteq Spots(r)
    /\ count[r] <= OnePass(r) => accessed[r] = {Nth(r, k) : k \in 0 .. count[r] - 1}
    /\ ~opt.stonewall => /\ limit[r] = 0 /\ pc[r] \notin {"agree", "resume"}
                         /\ count[r] <= OnePass(r)
                         /\ Over(r) => count[r] = OnePass(r)

\* A rank without a seed is in its first phase; it has entered the
\* broadcast of the seed only after rank 0 has one.
FirstCalls == IF Reads(opt.phases[1]) /\ opt.random > 1 THEN <<"allreduce", "barrier">>
                                                        ELSE <<"barrier">>

Unseeded(r) ==
    \/ pc[r] = "next" /\ done[r] = 0 /\ calls[r] = << >>
    \/ pc[r] = "open" /\ done[r] = 1 /\ calls[r] = FirstCalls
    \/ pc[r] = "seedWait" /\ done[r] = 1 /\ calls[r] = FirstCalls \o <<"bcast">>

\* The ranks of a shared file have the seed of rank 0.
SeedInv(r) ==
    /\ pc[r] = "seedWait" => /\ ~opt.filePerProc /\ r # 0 /\ randomSeed[r] = -1
                             /\ opt.random # 3
    /\ opt.random # 3 /\ randomSeed[r] = -1 => Unseeded(r)
    /\ ~opt.filePerProc /\ randomSeed[r] # -1 => randomSeed[r] = randomSeed[0]
    /\ ~opt.filePerProc /\ opt.random # 3 /\ (~Early(r) \/ pc[r] = "array") =>
          seed[r] = randomSeed[r]

\* There is an end to every file.
EndInv == \E m \in Nat : \A p \in DOMAIN content : p[2] \in 0 .. m

----------------------------------------------------------------------------
(***************************************************************************)
(* Induction, with the set of the numbers something holds for.             *)
(***************************************************************************)
\* A set of natural numbers has a least one.
LEMMA LeastOf ==
    ASSUME NEW T, T \subseteq Nat, T # {}
    PROVE  \E n \in T : \A m \in T : n <= m
<1> DEFINE R == OpToRel(<, Nat)
<1>1. IsWellFoundedOn(R, Nat)
  BY NatLessThanWellFounded
<1>2. \A m, n \in Nat : <<m, n>> \in R <=> m < n
  BY DEF OpToRel
<1> HIDE DEF R
<1>3. PICK n \in T : \A m \in T : ~(<<m, n>> \in R)
  BY <1>1, WFMin
<1>4. ASSUME NEW m \in T PROVE n <= m
  <2>1. ~(<<m, n>> \in R)
    BY <1>3
  <2>2. m \in Nat /\ n \in Nat
    OBVIOUS
  <2>3. ~(m < n)
    BY <2>1, <2>2, <1>2
  <2> QED
    BY <2>2, <2>3
<1> QED
  BY <1>4

LEMMA UpTo ==
    ASSUME NEW N \in Nat, NEW T, 0 \in T,
           \A n \in 0 .. N - 1 : n \in T => n + 1 \in T
    PROVE  \A n \in 0 .. N : n \in T
<1> DEFINE U == (0 .. N) \ T
<1> SUFFICES ASSUME U # {} PROVE FALSE
  OBVIOUS
<1>1. PICK n \in U : \A m \in U : n <= m
  <2>1. U \subseteq Nat
    OBVIOUS
  <2> QED
    BY <2>1, LeastOf
<1>2. n \in 1 .. N /\ n \notin T
  OBVIOUS
<1>3. n - 1 \in 0 .. N - 1 /\ n - 1 \notin U
  BY <1>1, <1>2
<1> QED
  BY <1>2, <1>3

----------------------------------------------------------------------------
(***************************************************************************)
(* The loops of GetOffsetArrayRandom.                                      *)
(***************************************************************************)
\* f goes through the draws as Shares does.
GoesOn(f, D, s, n, p) ==
    \A k \in 0 .. D :
        f[k] = IF k = 0 THEN << >>
               ELSE IF s[n + k] % NumTasks = p THEN Append(f[k - 1], k - 1)
               ELSE f[k - 1]

\* The recursion of Shares defines a function.
LEMMA SharesLoop ==
    ASSUME NEW D \in Nat, NEW s, NEW n, NEW p
    PROVE  \E f \in [0 .. D -> Seq(Nat)] : GoesOn(f, D, s, n, p)
<1> DEFINE Is(f, m) == GoesOn(f, m, s, n, p)
           T == {m \in 0 .. D : \E f \in [0 .. m -> Seq(Nat)] : Is(f, m)}
<1>1. 0 \in T
  <2> DEFINE f == [k \in 0 .. 0 |-> << >>]
  <2>1. f \in [0 .. 0 -> Seq(Nat)] /\ Is(f, 0)
    BY DEF GoesOn
  <2> HIDE DEF f
  <2> QED
    BY <2>1
<1>2. ASSUME NEW m \in 0 .. D - 1, m \in T PROVE m + 1 \in T
  <2>1. PICK f \in [0 .. m -> Seq(Nat)] : Is(f, m)
    BY <1>2
  <2> DEFINE e == IF s[n + (m + 1)] % NumTasks = p THEN Append(f[m], m) ELSE f[m]
             g == [k \in 0 .. m + 1 |-> IF k = m + 1 THEN e ELSE f[k]]
  <2>2. ASSUME NEW k \in 0 .. m + 1
        PROVE  g[k] = IF k = 0 THEN << >>
                      ELSE IF s[n + k] % NumTasks = p THEN Append(g[k - 1], k - 1)
                      ELSE g[k - 1]
    <3>1. CASE k = m + 1
      <4>1. k # 0 /\ k - 1 = m /\ m \in 0 .. m + 1 /\ m # m + 1
        BY <3>1
      <4>2. g[m] = f[m] /\ g[k] = e
        BY <3>1, <4>1
      <4> QED
        BY <3>1, <4>1, <4>2
    <3>2. CASE k # m + 1
      <4>1. k \in 0 .. m
        BY <3>2
      <4>2. f[k] = IF k = 0 THEN << >>
                   ELSE IF s[n + k] % NumTasks = p THEN Append(f[k - 1], k - 1)
                   ELSE f[k - 1]
        BY <2>1, <4>1 DEF GoesOn
      <4>3. g[k] = f[k]
        BY <3>2
      <4>4. k # 0 => g[k - 1] = f[k - 1]
        BY <4>1
      <4> QED
        BY <4>2, <4>3, <4>4
    <3> QED
      BY <3>1, <3>2
  <2>3. g \in [0 .. m + 1 -> Seq(Nat)]
    <3>1. e \in Seq(Nat)
      <4>1. f[m] \in Seq(Nat) /\ m \in Nat
        OBVIOUS
      <4> QED
        BY <4>1
    <3> HIDE DEF e
    <3>2. \A k \in 0 .. m + 1 : k # m + 1 => k \in 0 .. m
      OBVIOUS
    <3> QED
      BY <3>1, <3>2
  <2> HIDE DEF g
  <2>4. Is(g, m + 1)
    BY <2>2 DEF GoesOn
  <2>5. m + 1 \in 0 .. D
    OBVIOUS
  <2> QED
    BY <2>3, <2>4, <2>5
<1>3. D \in T
  <2> HIDE DEF T
  <2>1. \A m \in 0 .. D : m \in T
    BY <1>1, <1>2, UpTo
  <2> QED
    BY <2>1
<1> QED
  BY <1>3

\* q holds the transfers below k whose numbers fall to rank p, in order.
FallTo(q, k, s, n, p) ==
    /\ q \in Seq(0 .. k - 1) /\ Len(q) <= k
    /\ \A i, j \in 1 .. Len(q) : i < j => q[i] < q[j]
    /\ \A v \in 0 .. k - 1 :
          (\E i \in 1 .. Len(q) : q[i] = v) <=> s[n + v + 1] % NumTasks = p

LEMMA SharesAre ==
    ASSUME NEW D \in Nat, D = SharedDraws, NEW s, NEW n \in Nat, NEW p
    PROVE  FallTo(Shares(s, n, p), D, s, n, p)
<1> DEFINE a == Shares(s, n, p)
<1> DEFINE taken[k \in 0 .. D] ==
               IF k = 0 THEN << >>
               ELSE IF s[n + k] % NumTasks = p THEN Append(taken[k - 1], k - 1)
               ELSE taken[k - 1]
<1>1. taken = [k \in 0 .. D |->
                  IF k = 0 THEN << >>
                  ELSE IF s[n + k] % NumTasks = p THEN Append(taken[k - 1], k - 1)
                  ELSE taken[k - 1]]
  <2>1. PICK f \in [0 .. D -> Seq(Nat)] : GoesOn(f, D, s, n, p)
    BY SharesLoop
  <2>2. f = [k \in 0 .. D |->
                IF k = 0 THEN << >>
                ELSE IF s[n + k] % NumTasks = p THEN Append(f[k - 1], k - 1)
                ELSE f[k - 1]]
    BY <2>1 DEF GoesOn
  <2> QED
    BY <2>2
<1>2. a = taken[D]
  BY DEF Shares
<1> HIDE DEF taken
<1> DEFINE Good(q, k) == FallTo(q, k, s, n, p)
           T == {k \in 0 .. D : Good(taken[k], k)}
<1>3. 0 \in T
  <2>1. taken[0] = << >>
    BY <1>1
  <2>2. << >> \in Seq(0 .. 0 - 1) /\ Len(<< >>) = 0
    OBVIOUS
  <2>3. Good(taken[0], 0)
    BY <2>1, <2>2 DEF FallTo
  <2> HIDE DEF Good
  <2> QED
    BY <2>3
<1>4. ASSUME NEW k \in 0 .. D - 1, k \in T PROVE k + 1 \in T
  <2> DEFINE q == taken[k]
             c == taken[k + 1]
  <2>1. Good(q, k)
    BY <1>4
  <2>2. c = IF s[n + (k + 1)] % NumTasks = p THEN Append(q, k) ELSE q
    <3>1. k + 1 \in 0 .. D /\ k + 1 # 0 /\ (k + 1) - 1 = k
      OBVIOUS
    <3> QED
      BY <1>1, <3>1
  <2>3. n + (k + 1) = n + k + 1 /\ k \in 0 .. (k + 1) - 1
    OBVIOUS
  <2> HIDE DEF q, c, T
  <2> USE DEF FallTo
  <2>4. CASE s[n + k + 1] % NumTasks = p
    <3>1. c = Append(q, k) /\ q \in Seq(0 .. (k + 1) - 1)
      BY <2>1, <2>2, <2>3, <2>4
    <3>2. /\ c \in Seq(0 .. (k + 1) - 1) /\ Len(c) = Len(q) + 1 /\ Len(q) \in Nat
          /\ c[Len(q) + 1] = k /\ \A i \in 1 .. Len(q) : c[i] = q[i] /\ q[i] \in 0 .. k - 1
      BY <3>1, <2>1, <2>3
    <3>3. ASSUME NEW i \in 1 .. Len(c), NEW j \in 1 .. Len(c), i < j PROVE c[i] < c[j]
      <4>1. i \in 1 .. Len(q)
        BY <3>2, <3>3
      <4>2. j \in 1 .. Len(q) \/ j = Len(q) + 1
        BY <3>2
      <4> QED
        BY <4>1, <4>2, <3>2, <3>3, <2>1
    <3>4. ASSUME NEW v \in 0 .. (k + 1) - 1
          PROVE  (\E i \in 1 .. Len(c) : c[i] = v) <=> s[n + v + 1] % NumTasks = p
      <4>1. CASE v = k
        <5>1. Len(q) + 1 \in 1 .. Len(c)
          BY <3>2
        <5> QED
          BY <4>1, <5>1, <3>2, <2>4
      <4>2. CASE v # k
        <5>1. v \in 0 .. k - 1
          BY <4>2
        <5>2. (\E i \in 1 .. Len(c) : c[i] = v) <=> (\E i \in 1 .. Len(q) : q[i] = v)
          <6>1. \A i \in 1 .. Len(c) : i \in 1 .. Len(q) \/ i = Len(q) + 1
            BY <3>2
          <6>2. \A i \in 1 .. Len(q) : i \in 1 .. Len(c)
            BY <3>2
          <6> QED
            BY <6>1, <6>2, <3>2, <4>2
        <5> QED
          BY <5>1, <5>2, <2>1
      <4> QED
        BY <4>1, <4>2
    <3>5. Good(c, k + 1)
      BY <3>2, <3>3, <3>4, <2>1
    <3> QED
      BY <3>5 DEF T, c
  <2>5. CASE s[n + k + 1] % NumTasks # p
    <3>1. c = q
      BY <2>2, <2>3, <2>5
    <3>2. \A i \in 1 .. Len(q) : q[i] \in 0 .. k - 1 /\ q[i] # k
      BY <2>1
    <3>3. q \in Seq(0 .. (k + 1) - 1) /\ Len(q) <= k + 1
      BY <2>1
    <3>4. ASSUME NEW v \in 0 .. (k + 1) - 1
          PROVE  (\E i \in 1 .. Len(q) : q[i] = v) <=> s[n + v + 1] % NumTasks = p
      <4>1. CASE v = k
        BY <4>1, <3>2, <2>5
      <4>2. CASE v # k
        <5>1. v \in 0 .. k - 1
          BY <4>2
        <5> QED
          BY <5>1, <2>1
      <4> QED
        BY <4>1, <4>2
    <3>5. Good(c, k + 1)
      BY <3>1, <3>3, <3>4, <2>1
    <3> QED
      BY <3>5 DEF T, c
  <2> QED
    BY <2>4, <2>5
<1>5. D \in T
  <2> HIDE DEF T
  <2>1. \A m \in 0 .. D : m \in T
    BY <1>3, <1>4, UpTo
  <2> QED
    BY <2>1
<1> HIDE DEF a
<1> QED
  BY <1>2, <1>5 DEF a

SameElements(a, c, n) == \A v : (\E i \in 1 .. n : a[i] = v) <=> (\E i \in 1 .. n : c[i] = v)

LEMMA SwappedKeeps ==
    ASSUME NEW n \in Nat, NEW S, NEW a \in [1 .. n -> S], NEW k \in 1 .. n, NEW l \in 1 .. n,
           NEW c, c = Swapped(a, k, l)
    PROVE  /\ c \in [1 .. n -> S] /\ SameElements(a, c, n)
           /\ NoneTwice(a, n) => NoneTwice(c, n)
<1>1. c \in [1 .. n -> S]
  BY DEF Swapped
<1>2. c[k] = a[l] /\ c[l] = a[k] /\ \A i \in 1 .. n : i # k /\ i # l => c[i] = a[i]
  BY DEF Swapped
<1>3. SameElements(a, c, n)
  BY <1>2 DEF SameElements
<1>4. ASSUME NoneTwice(a, n) PROVE NoneTwice(c, n)
  BY <1>2, <1>4 DEF NoneTwice
<1> QED
  BY <1>1, <1>3, <1>4

\* f goes through the array as Exchanged does.
Exchanges(f, m, a, n, s) ==
    \A k \in 0 .. m :
        f[k] = IF k = 0 THEN a
               ELSE Swapped(f[k - 1], k, (s[SharedDraws + k] % n) + 1)

\* The place drawn is one of the array.
LEMMA PlaceDrawn ==
    ASSUME NEW n \in Nat \ {0}, NEW d \in Nat
    PROVE  (d % n) + 1 \in 1 .. n
OBVIOUS

\* The recursion of Exchanged defines a function.
LEMMA ExchangedLoop ==
    ASSUME NEW n \in Nat, NEW S, NEW a \in [1 .. n -> S], NEW s,
           \A k \in 1 .. n : s[SharedDraws + k] \in Nat
    PROVE  \E f \in [0 .. n -> [1 .. n -> S]] : Exchanges(f, n, a, n, s)
<1> DEFINE A == [1 .. n -> S]
           T == {m \in 0 .. n : \E f \in [0 .. m -> A] : Exchanges(f, m, a, n, s)}
<1>1. 0 \in T
  <2> DEFINE f == [k \in 0 .. 0 |-> a]
  <2>1. f \in [0 .. 0 -> A] /\ Exchanges(f, 0, a, n, s)
    BY DEF Exchanges
  <2> HIDE DEF f
  <2> QED
    BY <2>1
<1>2. ASSUME NEW m \in 0 .. n - 1, m \in T PROVE m + 1 \in T
  <2>1. PICK f \in [0 .. m -> A] : Exchanges(f, m, a, n, s)
    BY <1>2
  <2> DEFINE e == Swapped(f[m], m + 1, (s[SharedDraws + (m + 1)] % n) + 1)
             g == [k \in 0 .. m + 1 |-> IF k = m + 1 THEN e ELSE f[k]]
  <2>2. ASSUME NEW k \in 0 .. m + 1
        PROVE  g[k] = IF k = 0 THEN a
                      ELSE Swapped(g[k - 1], k, (s[SharedDraws + k] % n) + 1)
    <3>1. CASE k = m + 1
      <4>1. k # 0 /\ k - 1 = m /\ m \in 0 .. m + 1 /\ m # m + 1
        BY <3>1
      <4>2. g[m] = f[m] /\ g[k] = e
        BY <3>1, <4>1
      <4> QED
        BY <3>1, <4>1, <4>2
    <3>2. CASE k # m + 1
      <4>1. k \in 0 .. m
        BY <3>2
      <4>2. f[k] = IF k = 0 THEN a
                   ELSE Swapped(f[k - 1], k, (s[SharedDraws + k] % n) + 1)
        BY <2>1, <4>1 DEF Exchanges
      <4>3. g[k] = f[k]
        BY <3>2
      <4>4. k # 0 => g[k - 1] = f[k - 1]
        BY <4>1
      <4> QED
        BY <4>2, <4>3, <4>4
    <3> QED
      BY <3>1, <3>2
  <2>3. g \in [0 .. m + 1 -> A]
    <3>1. e \in A
      <4>1. f[m] \in [1 .. n -> S] /\ m + 1 \in 1 .. n /\ n \in Nat \ {0}
        OBVIOUS
      <4>2. s[SharedDraws + (m + 1)] \in Nat
        BY <4>1
      <4>3. (s[SharedDraws + (m + 1)] % n) + 1 \in 1 .. n
        BY <4>1, <4>2, PlaceDrawn
      <4> QED
        BY <4>1, <4>3, SwappedKeeps
    <3> HIDE DEF e, A
    <3>2. \A k \in 0 .. m + 1 : k # m + 1 => k \in 0 .. m
      OBVIOUS
    <3> QED
      BY <3>1, <3>2
  <2> HIDE DEF g
  <2>4. Exchanges(g, m + 1, a, n, s)
    BY <2>2 DEF Exchanges
  <2>5. m + 1 \in 0 .. n
    OBVIOUS
  <2> QED
    BY <2>3, <2>4, <2>5
<1>3. n \in T
  <2> HIDE DEF T
  <2>1. \A m \in 0 .. n : m \in T
    BY <1>1, <1>2, UpTo
  <2> QED
    BY <2>1
<1> QED
  BY <1>3

\* The exchanges neither lose an element nor double one.
LEMMA ExchangedKeeps ==
    ASSUME NEW S, NEW a \in Seq(S), NEW n, n = Len(a), NEW s,
           \A k \in 1 .. n : s[SharedDraws + k] \in Nat,
           NEW c, c = Exchanged(a, s)
    PROVE  /\ c \in Seq(S) /\ Len(c) = n
           /\ SameElements(a, c, n)
           /\ NoneTwice(a, n) => NoneTwice(c, n)
<1>1. n \in Nat /\ a \in [1 .. n -> S]
  OBVIOUS
<1> DEFINE shuffled[k \in 0 .. n] ==
               IF k = 0 THEN a
               ELSE Swapped(shuffled[k - 1], k, (s[SharedDraws + k] % n) + 1)
<1>2. shuffled = [k \in 0 .. n |->
                     IF k = 0 THEN a
                     ELSE Swapped(shuffled[k - 1], k, (s[SharedDraws + k] % n) + 1)]
  <2>1. PICK f \in [0 .. n -> [1 .. n -> S]] : Exchanges(f, n, a, n, s)
    BY <1>1, ExchangedLoop
  <2>2. f = [k \in 0 .. n |->
                IF k = 0 THEN a
                ELSE Swapped(f[k - 1], k, (s[SharedDraws + k] % n) + 1)]
    BY <2>1 DEF Exchanges
  <2> QED
    BY <2>2
<1>3. c = shuffled[n]
  BY DEF Exchanged
<1> HIDE DEF shuffled
<1> DEFINE Good(q) == /\ q \in [1 .. n -> S] /\ SameElements(a, q, n)
                      /\ NoneTwice(a, n) => NoneTwice(q, n)
           T == {k \in 0 .. n : Good(shuffled[k])}
<1>4. 0 \in T
  <2>1. shuffled[0] = a
    BY <1>1, <1>2
  <2>2. Good(shuffled[0])
    BY <1>1, <2>1 DEF SameElements
  <2> HIDE DEF Good
  <2> QED
    BY <2>2, <1>1
<1>5. ASSUME NEW k \in 0 .. n - 1, k \in T PROVE k + 1 \in T
  <2> DEFINE q == shuffled[k]
             z == shuffled[k + 1]
             l == (s[SharedDraws + (k + 1)] % n) + 1
  <2>1. Good(q)
    BY <1>5
  <2>2. k + 1 \in 0 .. n /\ k + 1 # 0 /\ (k + 1) - 1 = k /\ k + 1 \in 1 .. n /\ n # 0
    BY <1>1
  <2>3. z = Swapped(q, k + 1, l)
    BY <1>2, <2>2
  <2>4. l \in 1 .. n
    <3>1. s[SharedDraws + (k + 1)] \in Nat
      BY <2>2
    <3> QED
      BY <3>1, <2>2, <1>1, PlaceDrawn
  <2> HIDE DEF q, z, l, T
  <2>5. /\ z \in [1 .. n -> S] /\ SameElements(q, z, n)
        /\ NoneTwice(q, n) => NoneTwice(z, n)
    <3> DEFINE m == k + 1
    <3>1. q \in [1 .. n -> S] /\ m \in 1 .. n /\ z = Swapped(q, m, l)
      BY <2>1, <2>2, <2>3
    <3> HIDE DEF m
    <3> QED
      BY <1>1, <2>4, <3>1, SwappedKeeps
  <2>6. SameElements(a, z, n)
    BY <2>1, <2>5 DEF SameElements
  <2>7. Good(z)
    BY <2>1, <2>5, <2>6
  <2> HIDE DEF Good
  <2> QED
    BY <2>2, <2>7 DEF T, z
<1>6. n \in T
  <2> HIDE DEF T
  <2>1. \A m \in 0 .. n : m \in T
    BY <1>1, <1>4, <1>5, UpTo
  <2> QED
    BY <2>1, <1>1
<1>7. Good(c)
  BY <1>3, <1>6
<1> QED
  BY <1>1, <1>7

----------------------------------------------------------------------------
(***************************************************************************)
(* The array of offsets of a rank.                                         *)
(***************************************************************************)
LEMMA RankNumbers ==
    /\ NumTasks \in Nat \ {0} /\ Ranks = 0 .. NumTasks - 1 /\ 0 \in Ranks
    /\ \A r \in Ranks : r \in Nat
BY NumTasksAssumption DEF Ranks

LEMMA OptionNumbers ==
    ASSUME opt \in Options
    PROVE  /\ opt.random \in 1 .. 3 /\ opt.filePerProc \in BOOLEAN
           /\ opt.seed \in Nat \cup {-1}
           /\ opt.segments \in (Nat \ {0}) \cup {-1}
           /\ opt.random = 1 => opt.segments \in Nat \ {0}
           /\ opt.transfers \in Nat \ {0}
           /\ opt.shift \in Nat /\ (~opt.filePerProc => opt.shift = 0)
           /\ opt.stonewall \in BOOLEAN /\ opt.wearOut \in BOOLEAN
           /\ ~opt.stonewall => ~opt.wearOut
           /\ opt.phases \in Seq(Phases) /\ opt.old \in [Ranks -> Nat]
           /\ SegmentSize \in Nat \ {0}
           /\ SharedDraws \in Nat
           /\ opt.filePerProc => SegmentSize = opt.transfers /\ SharedDraws = 0
           /\ ~opt.filePerProc => SegmentSize = SharedDraws
<1>1. opt \in OptionRecord /\ ValidOption(opt)
  BY OptionsAssumption
<1>2. /\ opt.random \in 1 .. 3 /\ opt.filePerProc \in BOOLEAN
      /\ opt.seed \in Nat \cup {-1}
      /\ opt.segments \in (Nat \ {0}) \cup {-1}
      /\ opt.transfers \in Nat \ {0}
      /\ opt.shift \in Nat
      /\ opt.stonewall \in BOOLEAN /\ opt.wearOut \in BOOLEAN
      /\ opt.phases \in Seq(Phases) /\ opt.old \in [Ranks -> Nat]
  BY <1>1 DEF OptionRecord
<1>3. /\ opt.random = 1 => opt.segments \in Nat \ {0}
      /\ ~opt.filePerProc => opt.shift = 0
      /\ ~opt.stonewall => ~opt.wearOut
  BY <1>1, <1>2 DEF ValidOption
<1>4. NumTasks * opt.transfers \in Nat \ {0}
  <2> DEFINE n == NumTasks
             t == opt.transfers
  <2>1. n \in Nat \ {0} /\ t \in Nat \ {0}
    BY <1>2, RankNumbers
  <2> HIDE DEF n, t
  <2>2. n * t \in Nat \ {0}
    <3>1. n * t >= t
      BY <2>1
    <3> QED
      BY <2>1, <3>1
  <2> QED
    BY <2>2 DEF n, t
<1>5. /\ SegmentSize = IF opt.filePerProc THEN opt.transfers ELSE NumTasks * opt.transfers
      /\ SharedDraws = IF opt.filePerProc THEN 0 ELSE NumTasks * opt.transfers
  BY DEF SegmentSize, SharedDraws
<1> QED
  BY <1>2, <1>3, <1>4, <1>5

\* It holds each of them once and nothing else: it is never left with an
\* element that was not set.
LEMMA OffsetArrayIs ==
    ASSUME opt \in Options, NEW s \in Streams, NEW p, NEW c, c = OffsetArray(s, p)
    PROVE  /\ c \in Seq(0 .. SegmentSize - 1) /\ Len(c) \in Nat
           /\ NoneTwice(c, Len(c))
           /\ \A v : (\E i \in 1 .. Len(c) : c[i] = v) <=> v \in Due(s, p)
           /\ opt.filePerProc => Len(c) = opt.transfers
<1> DEFINE D == SharedDraws
           L == SegmentSize
           q == Shares(s, 0, p)
           n == IF opt.filePerProc THEN opt.transfers ELSE Len(q)
           filled == IF opt.filePerProc THEN [k \in 1 .. n |-> k - 1] ELSE q
           a == [k \in 1 .. n |-> IF k <= Len(filled) THEN filled[k] ELSE Garbage]
<1>1. c = Exchanged(a, s)
  BY DEF OffsetArray, SecondPass
<1>2. /\ D \in Nat /\ L \in Nat \ {0} /\ opt.transfers \in Nat \ {0}
      /\ opt.filePerProc => L = opt.transfers /\ D = 0
      /\ ~opt.filePerProc => L = D
      /\ opt.filePerProc \in BOOLEAN
  BY OptionNumbers
<1>3. s \in [1 .. (IF opt.filePerProc THEN opt.transfers ELSE 2 * D) -> 0 .. RandMax]
      /\ RandMax \in Nat
  BY OptionsAssumption DEF Streams, Draws
<1>4. /\ q \in Seq(0 .. D - 1) /\ Len(q) <= D
      /\ \A i, j \in 1 .. Len(q) : i < j => q[i] < q[j]
      /\ \A v \in 0 .. D - 1 :
            (\E i \in 1 .. Len(q) : q[i] = v) <=> s[0 + v + 1] % NumTasks = p
  <2> HIDE DEF D
  <2>1. D = SharedDraws /\ 0 \in Nat
    BY DEF D
  <2>2. FallTo(q, D, s, 0, p)
    BY <1>2, <2>1, SharesAre
  <2> HIDE DEF q
  <2> QED
    BY <2>2 DEF FallTo
<1>9. \A i \in 1 .. Len(q) : q[i] \in 0 .. D - 1 /\ q[i] \in Int
  <2> HIDE DEF q, D
  <2> QED
    BY <1>2, <1>4
<1>5. /\ a \in Seq(0 .. L - 1) /\ Len(a) = n /\ n \in Nat
      /\ NoneTwice(a, n)
      /\ \A v : (\E i \in 1 .. n : a[i] = v) <=> v \in Due(s, p)
      /\ \A k \in 1 .. n : s[D + k] \in Nat
  <2>1. CASE opt.filePerProc
    <3>1. n = opt.transfers /\ filled = [k \in 1 .. n |-> k - 1] /\ Len(filled) = n
      BY <2>1, <1>2
    <3> HIDE DEF filled
    <3>2. a = [k \in 1 .. n |-> k - 1]
      <4>1. n \in Nat
        BY <3>1, <1>2
      <4> HIDE DEF n
      <4>2. \A k \in 1 .. n : k <= Len(filled) /\ filled[k] = k - 1
        BY <3>1, <4>1
      <4> QED
        BY <4>2
    <3> HIDE DEF a
    <3>3. \A v : v \in Due(s, p) <=> v \in 0 .. n - 1
      BY <2>1, <3>1, <1>2 DEF Due
    <3>4. n \in Nat /\ n = L
      BY <3>1, <2>1, <1>2
    <3> HIDE DEF n, L
    <3>5. a \in Seq(0 .. L - 1) /\ Len(a) = n
      BY <3>2, <3>4
    <3>6. NoneTwice(a, n)
      BY <3>2, <3>4 DEF NoneTwice
    <3>7. ASSUME NEW v PROVE (\E i \in 1 .. n : a[i] = v) <=> v \in 0 .. n - 1
      <4>1. ASSUME v \in 0 .. n - 1 PROVE \E i \in 1 .. n : a[i] = v
        <5>1. v + 1 \in 1 .. n /\ a[v + 1] = v
          BY <4>1, <3>2, <3>4
        <5> QED
          BY <5>1
      <4>2. ASSUME NEW i \in 1 .. n, a[i] = v PROVE v \in 0 .. n - 1
        BY <4>2, <3>2, <3>4
      <4> QED
        BY <4>1, <4>2
    <3>8. \A k \in 1 .. n : s[D + k] \in Nat
      BY <1>2, <1>3, <2>1, <3>1
    <3> QED
      BY <3>3, <3>4, <3>5, <3>6, <3>7, <3>8
  <2>2. CASE ~opt.filePerProc
    <3>1. n = Len(q) /\ filled = q /\ L = D /\ n \in Nat /\ n <= D
      BY <2>2, <1>2, <1>4
    <3> HIDE DEF filled, n, L, D
    <3>2. a = q
      <4>1. \A k \in 1 .. n : k <= Len(filled)
        BY <3>1
      <4>2. q = [k \in 1 .. n |-> q[k]]
        BY <3>1, <1>4
      <4> QED
        BY <3>1, <4>1, <4>2
    <3> HIDE DEF a, q
    <3>3. NoneTwice(a, n)
      <4>1. \A i, j \in 1 .. n : i < j => q[i] < q[j]
        BY <1>4, <3>1
      <4>2. \A i \in 1 .. n : q[i] \in Int
        BY <1>9, <3>1
      <4> QED
        BY <3>1, <3>2, <4>1, <4>2 DEF NoneTwice
    <3>4. ASSUME NEW v PROVE (\E i \in 1 .. n : a[i] = v) <=> v \in Due(s, p)
      <4>1. \A i \in 1 .. n : q[i] \in 0 .. D - 1
        BY <1>9, <3>1
      <4>2. v \in Due(s, p) <=> v \in 0 .. D - 1 /\ s[v + 1] % NumTasks = p
        BY <2>2, <3>1 DEF Due, L
      <4>3. v \in 0 .. D - 1 => 0 + v + 1 = v + 1
        OBVIOUS
      <4> QED
        BY <4>1, <4>2, <4>3, <1>4, <3>1, <3>2
    <3>5. \A k \in 1 .. n : s[D + k] \in Nat
      <4>1. \A k \in 1 .. n : D + k \in 1 .. 2 * D
        BY <3>1, <1>2
      <4> QED
        BY <1>3, <2>2, <4>1
    <3> QED
      BY <1>4, <3>1, <3>2, <3>3, <3>4, <3>5
  <2> QED
    BY <2>1, <2>2, <1>2
<1> HIDE DEF a, n, L, D
<1>6. /\ c \in Seq(0 .. L - 1) /\ Len(c) = n
      /\ SameElements(a, c, n) /\ NoneTwice(c, n)
  <2>1. \A k \in 1 .. n : s[SharedDraws + k] \in Nat
    BY <1>5 DEF D
  <2> QED
    BY <1>1, <1>5, <2>1, ExchangedKeeps
<1>7. opt.filePerProc => n = opt.transfers
  BY DEF n
<1>8. \A v : (\E i \in 1 .. n : c[i] = v) <=> v \in Due(s, p)
  BY <1>5, <1>6 DEF SameElements
<1> QED
  BY <1>5, <1>6, <1>7, <1>8 DEF L

----------------------------------------------------------------------------
(***************************************************************************)
(* One pass over all segments.                                             *)
(***************************************************************************)
LEMMA Remaining ==
    ASSUME NEW n \in Nat \ {0}, NEW k \in Int, NEW z \in Int, NEW m \in 0 .. n - 1,
           k = n * z + m
    PROVE  k % n = m
OBVIOUS

\* Every number has a quotient and a remainder.
LEMMA Divided ==
    ASSUME NEW n \in Nat \ {0}, NEW k \in Nat
    PROVE  /\ k \div n \in Nat /\ (k % n) \in 0 .. n - 1
           /\ k = (k % n) + n * (k \div n)
<1> DEFINE z == k \div n
           m == k - n * z
<1>1. n * z <= k /\ k < n * z + n /\ z \in Int
  OBVIOUS
<1>2. z >= 0
  <2>1. z <= -1 => n * z <= -n
    BY <1>1
  <2> QED
    BY <1>1, <2>1
<1> HIDE DEF z
<1>3. m \in 0 .. n - 1 /\ k = n * z + m
  BY <1>1
<1> HIDE DEF m
<1>4. k % n = m
  BY <1>1, <1>3, Remaining
<1>5. z \in Nat /\ k = m + n * z
  BY <1>1, <1>2, <1>3
<1> QED
  BY <1>3, <1>4, <1>5 DEF z

\* Multiples of n differ by n.
LEMMA SameMultiple ==
    ASSUME NEW n \in Nat \ {0}, NEW y \in Int, NEW z \in Int, NEW i \in 0 .. n - 1,
           NEW j \in 0 .. n - 1, i + n * y = j + n * z
    PROVE  i = j /\ y = z
<1> DEFINE d == y - z
<1>1. n * d = n * y - n * z
  OBVIOUS
<1>2. d \in Int /\ n * d = j - i
  BY <1>1
<1> HIDE DEF d
<1>3. d >= 1 => n * d >= n
  BY <1>2
<1>4. d <= -1 => n * d <= -n
  BY <1>2
<1>5. d = 0
  BY <1>2, <1>3, <1>4
<1>6. y = z
  BY <1>5 DEF d
<1> QED
  BY <1>6

\* The quotient and the remainder are found again.
LEMMA Composed ==
    ASSUME NEW n \in Nat \ {0}, NEW z \in Nat, NEW j \in 0 .. n - 1,
           NEW k, k = j + n * z
    PROVE  k \in Nat /\ k % n = j /\ k \div n = z
<1>1. k \in Nat
  <2>1. n * z \in Nat
    OBVIOUS
  <2> QED
    BY <2>1
<1>2. k \div n \in Nat /\ (k % n) \in 0 .. n - 1 /\ k = (k % n) + n * (k \div n)
  BY <1>1, Divided
<1> QED
  BY <1>1, <1>2, SameMultiple

LEMMA WithinPass ==
    ASSUME NEW n \in Nat \ {0}, NEW S \in Nat, NEW z \in Nat, NEW j \in 0 .. n - 1
    PROVE  j + n * z < n * S <=> z < S
<1>1. z < S => n * z + n <= n * S
  <2> SUFFICES ASSUME z < S PROVE n * z + n <= n * S
    OBVIOUS
  <2> DEFINE d == S - z
  <2>1. d \in Nat \ {0} /\ n * S = n * z + n * d
    OBVIOUS
  <2> HIDE DEF d
  <2>2. n * d >= n
    BY <2>1
  <2> QED
    BY <2>1, <2>2
<1>2. z >= S => n * z >= n * S
  <2> SUFFICES ASSUME z >= S PROVE n * z >= n * S
    OBVIOUS
  <2> DEFINE d == z - S
  <2>1. d \in Nat /\ n * z = n * S + n * d
    OBVIOUS
  <2> HIDE DEF d
  <2>2. n * d >= 0
    BY <2>1
  <2> QED
    BY <2>1, <2>2
<1>3. n * z \in Nat /\ n * S \in Nat
  OBVIOUS
<1> QED
  BY <1>1, <1>2, <1>3

\* The array of a rank of a test in shuffled order is in order.
GoodOrder(r) ==
    /\ order[r] \in Seq(0 .. SegmentSize - 1)
    /\ NoneTwice(order[r], Len(order[r]))

\* The transfers of one pass go to all of its spots, each to its own.
LEMMA OnePassSpots ==
    ASSUME opt \in Options, opt.random = 1, NEW r \in Ranks, GoodOrder(r)
    PROVE  /\ \A k \in 0 .. opt.segments * Len(order[r]) - 1 : Nth(r, k) \in Spots(r)
           /\ \A k, l \in 0 .. opt.segments * Len(order[r]) - 1 :
                 Nth(r, k) = Nth(r, l) => k = l
           /\ \A y \in Spots(r) :
                 \E k \in 0 .. opt.segments * Len(order[r]) - 1 : Nth(r, k) = y
<1> DEFINE q == order[r]
           n == Len(q)
           S == opt.segments
           L == SegmentSize
           N == Name(r, Doing(r))
<1>1. S \in Nat \ {0} /\ L \in Nat \ {0} /\ n \in Nat
  BY OptionNumbers DEF GoodOrder
<1>2. /\ \A i \in 1 .. n : q[i] \in 0 .. L - 1
      /\ \A i, j \in 1 .. n : q[i] = q[j] => i = j
  <2>1. q \in Seq(0 .. L - 1) /\ NoneTwice(q, n)
    BY DEF GoodOrder
  <2> HIDE DEF q, L
  <2>2. \A i \in 1 .. n : q[i] \in 0 .. L - 1
    BY <1>1, <2>1
  <2>3. \A i, j \in 1 .. n : q[i] = q[j] => i = j
    BY <2>1 DEF NoneTwice
  <2> QED
    BY <2>2, <2>3
<1>3. \A j, m : Spot(r, j, m) = <<N, q[j] + m * L>>
  BY DEF Spot
<1>4. \A k : Nth(r, k) = Spot(r, (k % n) + 1, k \div n)
  BY DEF Nth
<1>5. Spots(r) = {Spot(r, j, m) : j \in 1 .. n, m \in 0 .. S - 1}
  BY DEF Spots
<1> HIDE DEF q, n, S, L, N
<1>6. ASSUME NEW k \in 0 .. S * n - 1
      PROVE  /\ n \in Nat \ {0} /\ k \in Nat
             /\ (k % n) \in 0 .. n - 1 /\ (k % n) + 1 \in 1 .. n
             /\ k \div n \in 0 .. S - 1 /\ k = (k % n) + n * (k \div n)
  <2>1. n \in Nat \ {0} /\ k \in Nat /\ k < n * S
    <3>1. n = 0 => S * n = 0
      BY <1>1
    <3>2. S * n = n * S /\ S * n \in Int
      BY <1>1
    <3> QED
      BY <1>1, <3>1, <3>2
  <2>2. k \div n \in Nat /\ (k % n) \in 0 .. n - 1 /\ k = (k % n) + n * (k \div n)
    BY <2>1, Divided
  <2>3. k \div n < S
    <3> DEFINE z == k \div n
               j == k % n
    <3>1. z \in Nat /\ j \in 0 .. n - 1 /\ j + n * z < n * S
      BY <2>1, <2>2
    <3> HIDE DEF z, j
    <3>2. z < S
      BY <1>1, <2>1, <3>1, WithinPass
    <3> QED
      BY <3>2 DEF z
  <2>4. k \div n \in 0 .. S - 1 /\ (k % n) + 1 \in 1 .. n
    <3> DEFINE z == k \div n
               j == k % n
    <3> HIDE DEF z, j
    <3>1. z \in 0 .. S - 1 /\ j + 1 \in 1 .. n
      BY <1>1, <2>1, <2>2, <2>3 DEF z, j
    <3> QED
      BY <3>1 DEF z, j
  <2> QED
    BY <2>1, <2>2, <2>4
<1>7. \A k \in 0 .. S * n - 1 : Nth(r, k) \in Spots(r)
  BY <1>4, <1>5, <1>6
<1>8. ASSUME NEW k \in 0 .. S * n - 1, NEW l \in 0 .. S * n - 1, Nth(r, k) = Nth(r, l)
      PROVE  k = l
  <2> DEFINE i == (k % n) + 1
             j == (l % n) + 1
             y == k \div n
             z == l \div n
  <2>1. /\ i \in 1 .. n /\ j \in 1 .. n /\ y \in Int /\ z \in Int
        /\ (k % n) \in Int /\ l % n \in Int
        /\ k = (k % n) + n * y /\ l = (l % n) + n * z
    BY <1>1, <1>6
  <2>2. q[i] + y * L = q[j] + z * L
    BY <1>3, <1>4, <1>8
  <2>3. (i = j => k % n = l % n) /\ k % n = i - 1 /\ l % n = j - 1
    BY <2>1
  <2> HIDE DEF i, j, y, z
  <2>4. q[i] \in 0 .. L - 1 /\ q[j] \in 0 .. L - 1 /\ y * L = L * y /\ z * L = L * z
    BY <1>1, <1>2, <2>1
  <2>5. q[i] + L * y = q[j] + L * z
    BY <2>2, <2>4
  <2>6. q[i] = q[j] /\ y = z
    <3> DEFINE o == q[i]
               p == q[j]
    <3> HIDE DEF o, p
    <3>1. o \in 0 .. L - 1 /\ p \in 0 .. L - 1 /\ o + L * y = p + L * z
      BY <2>4, <2>5 DEF o, p
    <3>2. y \in Int /\ z \in Int
      BY <2>1
    <3>3. o = p /\ y = z
      BY <1>1, <3>1, <3>2, SameMultiple
    <3> QED
      BY <3>3 DEF o, p
  <2>7. i = j
    BY <1>2, <2>1, <2>6
  <2> QED
    BY <2>1, <2>3, <2>6, <2>7
<1>9. ASSUME NEW v \in Spots(r)
      PROVE  \E k \in 0 .. S * n - 1 : Nth(r, k) = v
  <2>1. PICK j \in 1 .. n, m \in 0 .. S - 1 : v = Spot(r, j, m)
    BY <1>5
  <2> DEFINE k == (j - 1) + n * m
  <2>2. n \in Nat \ {0} /\ j - 1 \in 0 .. n - 1 /\ m \in Nat /\ m < S
    BY <1>1
  <2>3. k \in Nat /\ k % n = j - 1 /\ k \div n = m
    BY <2>2, Composed
  <2>4. k < n * S
    BY <1>1, <2>2, WithinPass
  <2> HIDE DEF k
  <2>5. k \in 0 .. S * n - 1
    <3>1. S * n = n * S /\ S * n \in Int
      BY <1>1
    <3> QED
      BY <2>3, <2>4, <3>1
  <2>6. (k % n) + 1 = j
    BY <2>3, <2>2
  <2>7. Nth(r, k) = v
    BY <1>4, <2>1, <2>3, <2>6
  <2> QED
    BY <2>5, <2>7
<1> QED
  BY <1>7, <1>8, <1>9 DEF q, n, S

\* Every transfer of a pass goes to a spot nobody has been to.
LEMMA SpotsCounted ==
    ASSUME opt \in Options, opt.random = 1, NEW r \in Ranks, GoodOrder(r),
           NEW m \in 0 .. opt.segments * Len(order[r])
    PROVE  Cardinality({Nth(r, k) : k \in 0 .. m - 1}) = m
<1> DEFINE T == {Nth(r, k) : k \in 0 .. m - 1}
           f == [i \in 1 .. m |-> Nth(r, i - 1)]
           P == opt.segments * Len(order[r])
<1>1. m \in Nat /\ P \in Nat
  <2>1. opt.segments \in Nat /\ Len(order[r]) \in Nat
    BY OptionNumbers DEF GoodOrder
  <2>2. P \in Nat
    BY <2>1
  <2> HIDE DEF P
  <2>3. m \in 0 .. P
    BY DEF P
  <2> QED
    BY <2>2, <2>3
<1>2. \A k, l \in 0 .. P - 1 : Nth(r, k) = Nth(r, l) => k = l
  BY OnePassSpots
<1>3. m \in 0 .. P
  OBVIOUS
<1> HIDE DEF P
<1>4. f \in Bijection(1 .. m, T)
  <2>1. \A i \in 1 .. m : i - 1 \in 0 .. m - 1 /\ i - 1 \in 0 .. P - 1 /\ i \in Int
    BY <1>1, <1>3
  <2>2. f \in [1 .. m -> T]
    BY <2>1
  <2>3. ASSUME NEW i \in 1 .. m, NEW j \in 1 .. m, f[i] = f[j] PROVE i = j
    <3>1. Nth(r, i - 1) = Nth(r, j - 1)
      BY <2>3
    <3>2. i - 1 = j - 1
      BY <1>2, <2>1, <3>1
    <3> QED
      BY <2>1, <3>2
  <2>4. ASSUME NEW v \in T PROVE \E i \in 1 .. m : f[i] = v
    <3>1. PICK k \in 0 .. m - 1 : v = Nth(r, k)
      OBVIOUS
    <3>2. k + 1 \in 1 .. m /\ (k + 1) - 1 = k
      BY <1>1
    <3>3. f[k + 1] = v
      BY <3>1, <3>2
    <3> QED
      BY <3>2, <3>3
  <2> HIDE DEF f, T
  <2> QED
    BY <2>2, <2>3, <2>4 DEF Bijection, Injection, Surjection, IsInjective
<1> HIDE DEF f, T
<1>5. ExistsBijection(1 .. m, T)
  BY <1>4 DEF ExistsBijection
<1>6. Cardinality(T) = m
  BY <1>1, <1>5, FS_CountingElements
<1> QED
  BY <1>6 DEF T

----------------------------------------------------------------------------
(***************************************************************************)
(* Types: the seed comes to every rank before it draws, the array is       *)
(* filled to its end, and every file has one.                              *)
(***************************************************************************)
\* What TypeOK says of all but the files and the ranges.
ShapeOK ==
    /\ opt \in Options
    /\ pc \in [Ranks -> PCs]
    /\ done \in [Ranks -> 0 .. Len(opt.phases)]
    /\ randomSeed \in [Ranks -> Nat \cup {-1}]
    /\ segmentCount \in [Ranks -> Nat \cup {-1}]
    /\ fileSizeForRead \in [Ranks -> Nat]
    /\ limit \in [Ranks -> Nat]
    /\ seed \in [Ranks -> Nat]
    /\ \A n \in DOMAIN draws : draws[n] \in Streams
    /\ order \in [Ranks -> Seq(0 .. SegmentSize - 1)]
    /\ offset \in [Ranks -> Nat \cup {None}]
    /\ count \in [Ranks -> Nat] /\ sent \in [Ranks -> Nat]
    /\ accessed \in [Ranks -> SUBSET ((Ranks \cup {Shared}) \X Nat)]
    /\ calls \in [Ranks -> Seq(Kinds)]

FilesOK == (\A p \in DOMAIN content : content[p] \in Ranks) /\ EndInv

SeedsOK == \A r \in Ranks : SeedInv(r)

\* Only a read that draws or permutes replaces the number of segments.
SegmentsOK == opt.random = 1 => \A r \in Ranks : segmentCount[r] = opt.segments

TypeInv == ShapeOK /\ FilesOK /\ SeedsOK /\ SegmentsOK /\ RangeInv

\* The size of a file is a number.
LEMMA FileSizeIsNat ==
    ASSUME EndInv, NEW name
    PROVE  FileSize(name) \in Nat
<1> DEFINE P == Places(name)
           V == {p[2] : p \in P}
<1>1. PICK m \in Nat : \A p \in DOMAIN content : p[2] \in 0 .. m
  BY DEF EndInv
<1>2. \A v \in V : v \in 0 .. m
  BY <1>1 DEF Places
<1>3. CASE P = {}
  BY <1>3 DEF FileSize
<1>4. CASE P # {}
  <2> DEFINE T == {n \in 0 .. m : \A v \in V : v <= n}
  <2>1. m \in T /\ T \subseteq Nat
    BY <1>2
  <2>2. PICK n \in T : \A k \in T : n <= k
    <3> HIDE DEF T
    <3> QED
      BY <2>1, LeastOf
  <2>3. \E v \in V : TRUE
    BY <1>4
  <2> HIDE DEF V
  <2>4. n \in V
    <3>1. SUFFICES ASSUME n \notin V PROVE FALSE
      OBVIOUS
    <3>2. \A v \in V : v <= n - 1
      BY <1>2, <2>2, <3>1
    <3>3. n # 0
      BY <1>2, <2>3, <3>2
    <3>4. n - 1 \in T
      BY <2>2, <3>2, <3>3
    <3> QED
      BY <2>2, <3>4
  <2>5. \E z \in V : \A v \in V : v <= z
    BY <2>2, <2>4
  <2> DEFINE z == CHOOSE u \in V : \A v \in V : v <= u
  <2>6. z \in V
    BY <2>5
  <2>7. FileSize(name) = 1 + z
    <3>1. z = CHOOSE u \in V : \A p \in P : p[2] <= u
      <4>1. \A u : (\A v \in V : v <= u) <=> (\A p \in P : p[2] <= u)
        BY DEF V
      <4> QED
        BY <4>1
    <3> QED
      BY <1>4, <3>1 DEF FileSize, V
  <2> HIDE DEF z
  <2>8. z \in Nat
    BY <1>2, <2>6
  <2> QED
    BY <2>7, <2>8
<1> QED
  BY <1>3, <1>4

\* A rank pretends to be a rank, and knows its file.
LEMMA PretendIsRank ==
    ASSUME opt \in Options, NEW r \in Ranks, NEW phase
    PROVE  /\ PretendRank(r, phase) \in Ranks
           /\ Name(r, phase) \in Ranks \cup {Shared}
<1>1. RankOffset(phase) \in Nat
  BY OptionNumbers DEF RankOffset
<1>2. PretendRank(r, phase) \in Ranks
  <2>1. r + RankOffset(phase) \in Nat
    BY <1>1, RankNumbers
  <2> QED
    BY <2>1, RankNumbers, Divided DEF PretendRank
<1> QED
  BY <1>2 DEF Name

LEMMA EnterTypes ==
    ASSUME calls \in [Ranks -> Seq(Kinds)], NEW r \in Ranks, NEW kinds \in Seq(Kinds),
           Enter(r, kinds)
    PROVE  /\ calls' \in [Ranks -> Seq(Kinds)]
           /\ calls'[r] = calls[r] \o kinds
           /\ \A s \in Ranks \ {r} : calls'[s] = calls[s]
<1>1. calls[r] \o kinds \in Seq(Kinds)
  OBVIOUS
<1> QED
  BY <1>1 DEF Enter

LEMMA KindsEntered ==
    /\ <<"barrier">> \in Seq(Kinds) /\ <<"bcast">> \in Seq(Kinds)
    /\ <<"allreduce">> \in Seq(Kinds)
    /\ <<"allreduce", "barrier">> \in Seq(Kinds) /\ <<"barrier", "allreduce">> \in Seq(Kinds)
<1>1. "barrier" \in Kinds /\ "bcast" \in Kinds /\ "allreduce" \in Kinds
  BY DEF Kinds
<1> QED
  BY <1>1

\* An access keeps the types.
LEMMA AccessTypes ==
    ASSUME ShapeOK, FilesOK, NEW r \in Ranks, NEW o \in Nat, Access(r, o)
    PROVE  /\ count' = [count EXCEPT ![r] = count[r] + 1]
           /\ count' \in [Ranks -> Nat]
           /\ accessed' = [accessed EXCEPT ![r] = accessed[r] \cup {<<Name(r, Doing(r)), o>>}]
           /\ accessed' \in [Ranks -> SUBSET ((Ranks \cup {Shared}) \X Nat)]
           /\ FilesOK'
<1> DEFINE place == <<Name(r, Doing(r)), o>>
<1>1. /\ count' = [count EXCEPT ![r] = count[r] + 1]
      /\ accessed' = [accessed EXCEPT ![r] = accessed[r] \cup {place}]
      /\ content' = IF Doing(r) = "write" THEN Put(content, place, Pretend(r)) ELSE content
  BY DEF Access, ShapeOK
<1>2. count' \in [Ranks -> Nat]
  BY <1>1 DEF ShapeOK
<1>3. Name(r, Doing(r)) \in Ranks \cup {Shared} /\ Pretend(r) \in Ranks
  BY PretendIsRank DEF Pretend, ShapeOK
<1>4. accessed' \in [Ranks -> SUBSET ((Ranks \cup {Shared}) \X Nat)]
  <2>1. place \in (Ranks \cup {Shared}) \X Nat
    BY <1>3
  <2>2. accessed \in [Ranks -> SUBSET ((Ranks \cup {Shared}) \X Nat)]
    BY DEF ShapeOK
  <2> HIDE DEF place
  <2> QED
    BY <1>1, <2>1, <2>2
<1>5. FilesOK'
  <2>1. PICK m \in Nat : \A p \in DOMAIN content : p[2] \in 0 .. m
    BY DEF FilesOK, EndInv
  <2>2. DOMAIN content' \subseteq DOMAIN content \cup {place}
    BY <1>1 DEF Put
  <2>3. \A p \in DOMAIN content' : content'[p] \in Ranks
    BY <1>1, <1>3 DEF FilesOK, Put
  <2>4. \A p \in DOMAIN content' : p[2] \in 0 .. m + o
    <3>1. place[2] \in 0 .. m + o
      OBVIOUS
    <3>2. \A v \in 0 .. m : v \in 0 .. m + o
      OBVIOUS
    <3> QED
      BY <2>1, <2>2, <3>1, <3>2
  <2>5. m + o \in Nat
    OBVIOUS
  <2> QED
    BY <2>3, <2>4, <2>5 DEF FilesOK, EndInv
<1> QED
  BY <1>1, <1>2, <1>4, <1>5

\* A rank that gets out of the broadcast gets what rank 0 has remembered.
LEMMA RootHasSeed ==
    ASSUME ShapeOK, SeedsOK, NEW r \in Ranks, pc[r] = "seedWait", RootArrived(r)
    PROVE  randomSeed[0] \in Nat
<1>1. SUFFICES ASSUME randomSeed[0] = -1 PROVE FALSE
  BY RankNumbers DEF ShapeOK
<1>2. 0 \in Ranks /\ SeedInv(0) /\ SeedInv(r)
  BY RankNumbers DEF SeedsOK
<1>3. ~opt.filePerProc /\ r # 0 /\ randomSeed[r] = -1 /\ opt.random # 3
  BY <1>2 DEF SeedInv
<1>4. Unseeded(0) /\ Unseeded(r) /\ pc[0] # "seedWait"
  BY <1>1, <1>2, <1>3 DEF SeedInv
<1>5. FirstCalls \in Seq(Kinds)
  BY KindsEntered DEF FirstCalls
<1>6. calls[r] = FirstCalls \o <<"bcast">> /\ (calls[0] = << >> \/ calls[0] = FirstCalls)
  BY <1>4 DEF Unseeded
<1>7. Len(calls[r]) = Len(FirstCalls) + 1
  BY <1>5, <1>6
<1>8. Len(calls[0]) < Len(calls[r])
  BY <1>5, <1>6, <1>7
<1> QED
  BY <1>7, <1>8, <1>5 DEF RootArrived, InSameCall

\* The numbers the types are made of do not change.
LEMMA SameOptions ==
    ASSUME opt' = opt
    PROVE  /\ SegmentSize' = SegmentSize /\ Streams' = Streams /\ SharedDraws' = SharedDraws
           /\ FirstCalls' = FirstCalls
BY DEF SegmentSize, Streams, Draws, SharedDraws, FirstCalls

\* What has the types of before and after.
LEMMA ShapeFrame ==
    ASSUME ShapeOK, opt' = opt, pc' \in [Ranks -> PCs],
           done' \in [Ranks -> 0 .. Len(opt.phases)] \/ UNCHANGED done,
           randomSeed' \in [Ranks -> Nat \cup {-1}] \/ UNCHANGED randomSeed,
           segmentCount' \in [Ranks -> Nat \cup {-1}] \/ UNCHANGED segmentCount,
           fileSizeForRead' \in [Ranks -> Nat] \/ UNCHANGED fileSizeForRead,
           limit' \in [Ranks -> Nat] \/ UNCHANGED limit,
           seed' \in [Ranks -> Nat] \/ UNCHANGED seed,
           (\A n \in DOMAIN draws' : draws'[n] \in Streams) \/ UNCHANGED draws,
           order' \in [Ranks -> Seq(0 .. SegmentSize - 1)] \/ UNCHANGED order,
           offset' \in [Ranks -> Nat \cup {None}] \/ UNCHANGED offset,
           count' \in [Ranks -> Nat] \/ UNCHANGED count,
           sent' \in [Ranks -> Nat] \/ UNCHANGED sent,
           accessed' \in [Ranks -> SUBSET ((Ranks \cup {Shared}) \X Nat)] \/ UNCHANGED accessed,
           calls' \in [Ranks -> Seq(Kinds)] \/ UNCHANGED calls
    PROVE  ShapeOK'
<1>1. SegmentSize' = SegmentSize /\ Streams' = Streams
  BY SameOptions
<1> HIDE DEF Shared, None
<1>2. /\ opt' \in Options /\ pc' \in [Ranks -> PCs]
      /\ done' \in [Ranks -> 0 .. Len(opt'.phases)]
      /\ randomSeed' \in [Ranks -> Nat \cup {-1}]
      /\ segmentCount' \in [Ranks -> Nat \cup {-1}]
      /\ fileSizeForRead' \in [Ranks -> Nat]
      /\ limit' \in [Ranks -> Nat]
      /\ seed' \in [Ranks -> Nat]
  BY DEF ShapeOK
<1>3. /\ offset' \in [Ranks -> Nat \cup {None}]
      /\ count' \in [Ranks -> Nat] /\ sent' \in [Ranks -> Nat]
      /\ accessed' \in [Ranks -> SUBSET ((Ranks \cup {Shared}) \X Nat)]
      /\ calls' \in [Ranks -> Seq(Kinds)]
  BY DEF ShapeOK
<1>4. \A n \in DOMAIN draws' : draws'[n] \in Streams'
  BY <1>1 DEF ShapeOK
<1>5. order' \in [Ranks -> Seq(0 .. SegmentSize' - 1)]
  BY <1>1 DEF ShapeOK
<1> QED
  BY <1>2, <1>3, <1>4, <1>5 DEF ShapeOK

LEMMA GoTypes ==
    ASSUME ShapeOK, NEW r \in Ranks, NEW where \in PCs, Go(r, where)
    PROVE  /\ pc' \in [Ranks -> PCs] /\ pc'[r] = where
           /\ \A s \in Ranks \ {r} : pc'[s] = pc[s]
BY DEF Go, ShapeOK

LEMMA FilesFrame ==
    ASSUME FilesOK, UNCHANGED content
    PROVE  FilesOK'
BY DEF FilesOK, EndInv

\* The beginning of a phase.
LEMMA BeginTypes ==
    ASSUME TypeInv, NEW r \in Ranks, Begin(r)
    PROVE  ShapeOK' /\ FilesOK'
<1>1. ShapeOK /\ FilesOK
  BY DEF TypeInv
<1> DEFINE phase == opt.phases[done[r] + 1]
           size == FileSize(Name(r, phase))
<1>2. size \in Nat
  BY <1>1, FileSizeIsNat DEF FilesOK
<1> HIDE DEF size
<1>3. /\ opt' = opt /\ Go(r, "open")
      /\ done' = [done EXCEPT ![r] = @ + 1] /\ done[r] < Len(opt.phases)
      /\ limit' = [limit EXCEPT ![r] = 0] \/ UNCHANGED limit
      /\ fileSizeForRead' = [fileSizeForRead EXCEPT ![r] = size] \/ UNCHANGED fileSizeForRead
      /\ \/ segmentCount' = [segmentCount EXCEPT ![r] =
                                IF @ = -1 THEN size \div opt.transfers ELSE @]
         \/ UNCHANGED segmentCount
      /\ count' = [count EXCEPT ![r] = 0]
      /\ accessed' = [accessed EXCEPT ![r] = {}]
      /\ offset' = [offset EXCEPT ![r] = None]
      /\ UNCHANGED <<randomSeed, seed, draws, order, sent>>
  BY DEF Begin, numbers, size
<1>4. \E kinds \in Seq(Kinds) : Enter(r, kinds)
  BY KindsEntered DEF Begin
<1>5. calls' \in [Ranks -> Seq(Kinds)]
  BY <1>1, <1>4, EnterTypes DEF ShapeOK
<1>6. size \div opt.transfers \in Nat
  BY <1>1, <1>2, OptionNumbers, Divided DEF ShapeOK
<1>7. pc' \in [Ranks -> PCs]
  BY <1>1, <1>3, GoTypes DEF PCs
<1>8. ShapeOK'
  <2>1. done' \in [Ranks -> 0 .. Len(opt.phases)]
    <3>1. Len(opt.phases) \in Nat
      BY <1>1, OptionNumbers DEF ShapeOK
    <3> QED
      BY <1>1, <1>3, <3>1 DEF ShapeOK
  <2>2. /\ limit' \in [Ranks -> Nat] /\ fileSizeForRead' \in [Ranks -> Nat]
        /\ count' \in [Ranks -> Nat]
    <3>1. limit' \in [Ranks -> Nat]
      <4>1. limit \in [Ranks -> Nat]
        BY <1>1 DEF ShapeOK
      <4>2. limit' = [limit EXCEPT ![r] = 0] \/ limit' = limit
        BY <1>3
      <4> QED
        BY <4>1, <4>2
    <3>2. fileSizeForRead' \in [Ranks -> Nat]
      BY <1>1, <1>2, <1>3 DEF ShapeOK
    <3>3. count' \in [Ranks -> Nat]
      BY <1>1, <1>3 DEF ShapeOK
    <3> QED
      BY <3>1, <3>2, <3>3
  <2>3. segmentCount' \in [Ranks -> Nat \cup {-1}]
    <3> DEFINE k == size \div opt.transfers
    <3> HIDE DEF k
    <3>1. k \in Nat
      BY <1>6 DEF k
    <3>2. \/ segmentCount' = [segmentCount EXCEPT ![r] = IF @ = -1 THEN k ELSE @]
          \/ UNCHANGED segmentCount
      BY <1>3 DEF k
    <3>3. segmentCount \in [Ranks -> Nat \cup {-1}]
      BY <1>1 DEF ShapeOK
    <3> QED
      BY <3>1, <3>2, <3>3
  <2>4. /\ accessed' \in [Ranks -> SUBSET ((Ranks \cup {Shared}) \X Nat)]
        /\ offset' \in [Ranks -> Nat \cup {None}]
    BY <1>1, <1>3 DEF ShapeOK
  <2> QED
    BY <1>1, <1>3, <1>5, <1>7, <2>1, <2>2, <2>3, <2>4, ShapeFrame
<1>9. FilesOK'
  <2>1. \/ UNCHANGED content
        \/ content' = [p \in DOMAIN content \ Places(Name(r, phase)) |-> content[p]]
    BY DEF Begin
  <2>2. CASE content' = [p \in DOMAIN content \ Places(Name(r, phase)) |-> content[p]]
    BY <1>1, <2>2 DEF FilesOK, EndInv
  <2> QED
    BY <1>1, <2>1, <2>2, FilesFrame
<1> QED
  BY <1>8, <1>9

\* A seed is a number: the clock's, rank 0's, or the option's.
LEMMA SeedTypes ==
    ASSUME TypeInv, NEW r \in Ranks, SeedByClock(r) \/ SeedKnown(r) \/ SeedGiven(r)
    PROVE  ShapeOK' /\ FilesOK'
<1>1. ShapeOK /\ FilesOK /\ SeedsOK
  BY DEF TypeInv
<1>2. /\ opt' = opt
      /\ UNCHANGED <<content, done, segmentCount, fileSizeForRead, limit, draws, order, offset,
                     count, sent, accessed>>
  BY DEF SeedByClock, SeedKnown, SeedGiven, param
<1>3. FilesOK'
  BY <1>1, <1>2, FilesFrame
<1>4. pc' \in [Ranks -> PCs]
  <2>1. Seeded \in PCs /\ "seedWait" \in PCs
    BY DEF Seeded, PCs
  <2>2. \E where \in PCs : Go(r, where)
    BY <2>1 DEF SeedByClock, SeedKnown, SeedGiven
  <2> QED
    BY <1>1, <2>2, GoTypes
<1>5. calls' \in [Ranks -> Seq(Kinds)] \/ UNCHANGED calls
  BY <1>1, KindsEntered, EnterTypes DEF SeedByClock, SeedKnown, SeedGiven, ShapeOK
<1>6. /\ seed' \in [Ranks -> Nat] \/ UNCHANGED seed
      /\ randomSeed' \in [Ranks -> Nat \cup {-1}] \/ UNCHANGED randomSeed
  <2>1. CASE SeedByClock(r)
    <3>1. \/ UNCHANGED <<seed, randomSeed>>
          \/ \E now \in Times : /\ seed' = [seed EXCEPT ![r] = now]
                                /\ randomSeed' = [randomSeed EXCEPT ![r] = now]
      BY <2>1 DEF SeedByClock, Srandom, Remember
    <3> QED
      BY <1>1, <3>1, OptionsAssumption DEF ShapeOK
  <2>2. CASE SeedKnown(r)
    <3>1. randomSeed[0] \in Nat
      BY <1>1, <2>2, RootHasSeed DEF SeedKnown
    <3>2. /\ seed' = [seed EXCEPT ![r] = randomSeed[0]]
          /\ randomSeed' = [randomSeed EXCEPT ![r] = randomSeed[0]]
      BY <2>2 DEF SeedKnown, Srandom, Remember
    <3> QED
      BY <1>1, <3>1, <3>2 DEF ShapeOK
  <2>3. CASE SeedGiven(r)
    <3>1. /\ randomSeed[r] \in Nat /\ UNCHANGED randomSeed
          /\ \E n \in {FileSeed(r), randomSeed[r]} : seed' = [seed EXCEPT ![r] = n]
      BY <1>1, <2>3 DEF SeedGiven, Srandom, param, ShapeOK
    <3>2. FileSeed(r) \in Nat
      <4>1. Pretend(r) \in Nat
        BY <1>1, PretendIsRank, RankNumbers DEF Pretend, ShapeOK
      <4> QED
        BY <3>1, <4>1 DEF FileSeed
    <3> QED
      BY <1>1, <3>1, <3>2 DEF ShapeOK
  <2> QED
    BY <2>1, <2>2, <2>3
<1>7. ShapeOK'
  BY <1>1, <1>2, <1>4, <1>5, <1>6, ShapeFrame
<1> QED
  BY <1>3, <1>7

\* The array is filled to its end.
LEMMA ShuffleTypes ==
    ASSUME TypeInv, NEW r \in Ranks, Shuffle(r)
    PROVE  /\ ShapeOK' /\ FilesOK'
           /\ \E s \in Streams : /\ draws' = Put(draws, seed[r], s)
                                 /\ seed[r] \in DOMAIN draws => s = draws[seed[r]]
                                 /\ order' = [order EXCEPT ![r] = OffsetArray(s, Pretend(r))]
<1>1. ShapeOK /\ FilesOK
  BY DEF TypeInv
<1>2. PICK s \in Streams : /\ draws' = Put(draws, seed[r], s)
                           /\ seed[r] \in DOMAIN draws => s = draws[seed[r]]
                           /\ order' = [order EXCEPT ![r] = OffsetArray(s, Pretend(r))]
  <2>1. PICK s \in IF seed[r] \in DOMAIN draws THEN {draws[seed[r]]} ELSE Streams :
           /\ draws' = Put(draws, seed[r], s)
           /\ order' = [order EXCEPT ![r] = OffsetArray(s, Pretend(r))]
    BY DEF Shuffle
  <2>2. s \in Streams /\ (seed[r] \in DOMAIN draws => s = draws[seed[r]])
    BY <1>1 DEF ShapeOK
  <2> QED
    BY <2>1, <2>2
<1>3. OffsetArray(s, Pretend(r)) \in Seq(0 .. SegmentSize - 1)
  BY <1>1, OffsetArrayIs DEF ShapeOK
<1>4. order' \in [Ranks -> Seq(0 .. SegmentSize - 1)]
  <2> DEFINE c == OffsetArray(s, Pretend(r))
  <2> HIDE DEF c
  <2>1. c \in Seq(0 .. SegmentSize - 1) /\ order' = [order EXCEPT ![r] = c]
    BY <1>2, <1>3 DEF c
  <2> QED
    BY <1>1, <2>1 DEF ShapeOK
<1>5. \A n \in DOMAIN draws' : draws'[n] \in Streams
  BY <1>1, <1>2 DEF Put, ShapeOK
<1>6. /\ Go(r, "access") /\ opt' = opt
      /\ UNCHANGED <<content, done, randomSeed, segmentCount, fileSizeForRead, limit, seed, offset,
                     count, sent, accessed, calls>>
  BY DEF Shuffle, param
<1>7. pc' \in [Ranks -> PCs]
  BY <1>1, <1>6, GoTypes DEF PCs
<1>8. ShapeOK'
  BY <1>1, <1>4, <1>5, <1>6, <1>7, ShapeFrame
<1>9. FilesOK'
  BY <1>1, <1>6, FilesFrame
<1> QED
  BY <1>2, <1>8, <1>9

\* Every offset a transfer goes to is a number.
LEMMA TransferTypes ==
    ASSUME TypeInv, NEW r \in Ranks,
           TransferShuffled(r) \/ TransferDrawn(r) \/ TransferPermuted(r)
    PROVE  ShapeOK' /\ FilesOK'
<1>1. ShapeOK /\ FilesOK /\ RangeInv
  BY DEF TypeInv
<1>2. /\ opt' = opt
      /\ UNCHANGED <<pc, done, randomSeed, segmentCount, fileSizeForRead, limit, seed, draws,
                     order, sent, calls>>
  BY DEF TransferShuffled, TransferDrawn, TransferPermuted, param, numbers
<1>3. /\ opt.transfers \in Nat \ {0} /\ SegmentSize \in Nat \ {0}
      /\ opt.random = 1 => opt.segments \in Nat \ {0}
  BY <1>1, OptionNumbers DEF ShapeOK
<1>4. \E o \in Nat : Access(r, o) /\ (opt.random = 2 => offset' = [offset EXCEPT ![r] = o])
  <2>1. CASE TransferShuffled(r)
    <3> DEFINE n == Len(order[r])
               k == count[r]
               segment == (k \div n) % segmentCount[r]
               i == (k % n) + 1
    <3>1. /\ n = Offsets(r) /\ n # 0 /\ More(r)
          /\ Access(r, order[r][i] + segment * SegmentSize)
      BY <2>1 DEF TransferShuffled, Offsets
    <3>2. k \in Nat /\ n \in Nat \ {0} /\ order[r] \in Seq(0 .. SegmentSize - 1)
      BY <1>1, <3>1 DEF ShapeOK
    <3>3. k \div n \in Nat /\ k % n \in 0 .. n - 1
      BY <3>2, Divided
    <3>4. segmentCount[r] \in Nat \ {0}
      BY <1>3, <2>1 DEF TransferShuffled, TypeInv, SegmentsOK
    <3>5. segment \in Nat
      <4> DEFINE z == k \div n
                 t == segmentCount[r]
      <4>1. z \in Nat /\ t \in Nat \ {0}
        BY <3>3, <3>4
      <4> HIDE DEF z, t
      <4>2. z % t \in Nat
        BY <4>1, Divided
      <4> QED
        BY <4>2 DEF z, t
    <3>6. order[r][i] \in Nat
      <4>1. i \in 1 .. n
        <5> DEFINE m == k % n
        <5>1. m \in 0 .. n - 1
          BY <3>3
        <5> HIDE DEF m
        <5>2. m + 1 \in 1 .. n
          BY <3>2, <5>1
        <5> QED
          BY <5>2 DEF m
      <4> HIDE DEF i
      <4>2. order[r][i] \in 0 .. SegmentSize - 1
        BY <3>2, <4>1, <1>3
      <4> QED
        BY <4>2, <1>3
    <3> HIDE DEF segment, i
    <3>7. order[r][i] + segment * SegmentSize \in Nat
      BY <1>3, <3>5, <3>6
    <3> QED
      BY <2>1, <3>1, <3>7 DEF TransferShuffled
  <2>2. CASE TransferDrawn(r)
    <3>1. PICK o \in IF DrawsBlock(r) THEN {n * opt.transfers : n \in BlocksToDraw(r)}
                                      ELSE {offset[r] + 1} :
             Access(r, o) /\ offset' = [offset EXCEPT ![r] = o]
      BY <2>2 DEF TransferDrawn
    <3>2. Blocks(r) \in Nat /\ (DrawsBlock(r) => Blocks(r) # 0)
      <4>1. RangeToDraw(r) \in Nat
        <5>1. fileSizeForRead[r] \in Nat /\ NumTasks \in Nat \ {0}
          BY <1>1, RankNumbers DEF ShapeOK
        <5>2. fileSizeForRead[r] \div NumTasks \in Nat
          BY <5>1, Divided
        <5> QED
          BY <5>1, <5>2 DEF RangeToDraw
      <4>2. Blocks(r) \in Nat
        BY <1>3, <4>1, Divided DEF Blocks
      <4> QED
        BY <2>2, <4>2 DEF TransferDrawn
    <3>3. CASE DrawsBlock(r)
      <4>1. PICK n \in BlocksToDraw(r) : o = n * opt.transfers
        BY <3>1, <3>3
      <4>2. n \in Nat
        BY <3>2, <3>3 DEF BlocksToDraw
      <4>3. o \in Nat
        BY <1>3, <4>1, <4>2
      <4> QED
        BY <3>1, <4>3
    <3>4. CASE ~DrawsBlock(r)
      <4>1. o = offset[r] + 1 /\ offset[r] \in Nat
        BY <1>1, <3>1, <3>4 DEF DrawsBlock, ShapeOK
      <4>2. o \in Nat
        BY <4>1
      <4> QED
        BY <3>1, <4>2
    <3> QED
      BY <3>3, <3>4
  <2>3. CASE TransferPermuted(r)
    <3>1. Access(r, Block(r) * opt.transfers) /\ Take(r)
      BY <2>3 DEF TransferPermuted
    <3>2. Block(r) \in Nat
      <4>1. At(r, "pick") /\ RangeTypeOK /\ x[r] \in 1 .. Len(elem[r])
        BY <1>1, <3>1 DEF Take, RangeInv, RankInv, Choosing
      <4>2. elem[r][x[r]] \in ElemRecord
        BY <4>1 DEF RangeTypeOK
      <4> QED
        BY <4>2 DEF Block, ElemRecord
    <3>3. Block(r) * opt.transfers \in Nat
      BY <1>3, <3>2
    <3> QED
      BY <2>3, <3>1, <3>3 DEF TransferPermuted
  <2> QED
    BY <2>1, <2>2, <2>3
<1>5. PICK o \in Nat : Access(r, o) /\ (opt.random = 2 => offset' = [offset EXCEPT ![r] = o])
  BY <1>4
<1>6. /\ count' \in [Ranks -> Nat]
      /\ accessed' \in [Ranks -> SUBSET ((Ranks \cup {Shared}) \X Nat)]
      /\ FilesOK'
  BY <1>1, <1>5, AccessTypes
<1>7. offset' \in [Ranks -> Nat \cup {None}] \/ UNCHANGED offset
  <2>1. CASE TransferDrawn(r)
    <3>1. offset' = [offset EXCEPT ![r] = o]
      BY <1>5, <2>1 DEF TransferDrawn
    <3> QED
      BY <1>1, <3>1 DEF ShapeOK
  <2>2. CASE TransferShuffled(r) \/ TransferPermuted(r)
    BY <2>2 DEF TransferShuffled, TransferPermuted
  <2> QED
    BY <2>1, <2>2
<1>8. pc' \in [Ranks -> PCs]
  BY <1>1, <1>2 DEF ShapeOK
<1>9. ShapeOK'
  BY <1>1, <1>2, <1>6, <1>7, <1>8, ShapeFrame
<1> QED
  BY <1>6, <1>9

\* The steps between the transfers.
LEMMA MoveTypes ==
    ASSUME TypeInv, NEW r \in Ranks,
           \/ SetupRange(r) \/ Spin(r) \/ DivideByZero(r) \/ AskRange(r) \/ WithinRange(r)
           \/ FailBelowZero(r) \/ LeaveLoop(r) \/ Agreed(r) \/ WornOut(r) \/ Close(r)
    PROVE  ShapeOK' /\ FilesOK'
<1>1. ShapeOK /\ FilesOK
  BY DEF TypeInv
<1>2. /\ opt' = opt
      /\ UNCHANGED <<content, done, randomSeed, segmentCount, fileSizeForRead, seed, draws,
                     order, count, accessed>>
  BY DEF SetupRange, Spin, DivideByZero, AskRange, WithinRange, FailBelowZero, LeaveLoop,
         Agreed, WornOut, Close, vars, param, numbers
<1>3. FilesOK'
  BY <1>1, <1>2, FilesFrame
<1>4. pc' \in [Ranks -> PCs]
  <2>1. UNCHANGED pc \/ \E where \in PCs : Go(r, where)
    BY DEF SetupRange, Spin, DivideByZero, AskRange, WithinRange, FailBelowZero, LeaveLoop,
           Agreed, WornOut, Close, vars, PCs
  <2> QED
    BY <1>1, <2>1, GoTypes DEF ShapeOK
<1>5. limit' \in [Ranks -> Nat] \/ UNCHANGED limit
  <2>1. \/ UNCHANGED limit
        \/ limit' = [limit EXCEPT ![r] = IF opt.stonewall /\ Doing(r) = "write"
                                         THEN count[r] ELSE @]
    BY DEF SetupRange, Spin, DivideByZero, AskRange, WithinRange, FailBelowZero, LeaveLoop,
           Agreed, WornOut, Close, vars, param
  <2>2. limit \in [Ranks -> Nat] /\ count[r] \in Nat
    BY <1>1 DEF ShapeOK
  <2> QED
    BY <2>1, <2>2
<1>6. sent' \in [Ranks -> Nat] \/ UNCHANGED sent
  <2>1. UNCHANGED sent \/ sent' = [sent EXCEPT ![r] = count[r]]
    BY DEF SetupRange, Spin, DivideByZero, AskRange, WithinRange, FailBelowZero, LeaveLoop,
           Agreed, WornOut, Close, vars
  <2> QED
    BY <1>1, <2>1 DEF ShapeOK
<1>7. offset' \in [Ranks -> Nat \cup {None}] \/ UNCHANGED offset
  <2>1. UNCHANGED offset \/ offset' = [offset EXCEPT ![r] = None]
    BY DEF SetupRange, Spin, DivideByZero, AskRange, WithinRange, FailBelowZero, LeaveLoop,
           Agreed, WornOut, Close, vars
  <2> QED
    BY <1>1, <2>1 DEF ShapeOK
<1>8. calls' \in [Ranks -> Seq(Kinds)] \/ UNCHANGED calls
  <2>1. UNCHANGED calls \/ \E kinds \in Seq(Kinds) : Enter(r, kinds)
    BY KindsEntered
       DEF SetupRange, Spin, DivideByZero, AskRange, WithinRange, FailBelowZero, LeaveLoop,
           Agreed, WornOut, Close, vars
  <2> QED
    BY <1>1, <2>1, EnterTypes DEF ShapeOK
<1>9. ShapeOK'
  BY <1>1, <1>2, <1>4, <1>5, <1>6, <1>7, <1>8, ShapeFrame
<1> QED
  BY <1>3, <1>9

LEMMA TypesStep ==
    ASSUME TypeInv, NEW r \in Ranks, RankStep(r)
    PROVE  ShapeOK' /\ FilesOK'
BY BeginTypes, SeedTypes, ShuffleTypes, TransferTypes, MoveTypes DEF RankStep

LEMMA SegmentsStep ==
    ASSUME TypeInv, NEW r \in Ranks, RankStep(r)
    PROVE  SegmentsOK'
<1>1. opt' = opt
  BY DEF RankStep, Begin, SeedByClock, SeedKnown, SeedGiven, Shuffle, TransferShuffled,
         TransferDrawn, TransferPermuted, SetupRange, Spin, DivideByZero, AskRange, WithinRange,
         FailBelowZero, LeaveLoop, Agreed, WornOut, Close, vars
<1>2. opt.random = 1 => UNCHANGED segmentCount
  BY DEF RankStep, Begin, SeedByClock, SeedKnown, SeedGiven, Shuffle, TransferShuffled,
         TransferDrawn, TransferPermuted, SetupRange, Spin, DivideByZero, AskRange, WithinRange,
         FailBelowZero, LeaveLoop, Agreed, WornOut, Close, vars, param
<1> QED
  BY <1>1, <1>2 DEF TypeInv, SegmentsOK

\* What SeedInv says of a rank stays as it is when the rank does, and the
\* seed of rank 0, or it has got one while the others have not.
LEMMA SeedFrame ==
    ASSUME ShapeOK, opt' = opt, NEW s \in Ranks, SeedInv(s),
           pc'[s] = pc[s], done'[s] = done[s], calls'[s] = calls[s],
           randomSeed'[s] = randomSeed[s], seed'[s] = seed[s],
           randomSeed'[0] = randomSeed[0] \/ randomSeed[0] = -1
    PROVE  SeedInv(s)'
<1>1. FirstCalls' = FirstCalls
  BY SameOptions
<1>2. Early(s)' <=> Early(s)
  BY DEF Early
<1>3. Unseeded(s) => Unseeded(s)'
  BY <1>1 DEF Unseeded
<1>4. ~opt.filePerProc /\ randomSeed[s] # -1 => randomSeed'[0] = randomSeed[0]
  BY DEF SeedInv
<1> QED
  BY <1>2, <1>3, <1>4 DEF SeedInv

LEMMA SeedsStep ==
    ASSUME TypeInv, NEW r \in Ranks, RankStep(r)
    PROVE  SeedsOK'
<1>1. /\ ShapeOK /\ SeedInv(r) /\ 0 \in Ranks /\ SeedInv(0)
      /\ \A s \in Ranks : SeedInv(s)
  BY RankNumbers DEF TypeInv, SeedsOK
<1>2. opt' = opt
  BY DEF RankStep, Begin, SeedByClock, SeedKnown, SeedGiven, Shuffle, TransferShuffled,
         TransferDrawn, TransferPermuted, SetupRange, Spin, DivideByZero, AskRange, WithinRange,
         FailBelowZero, LeaveLoop, Agreed, WornOut, Close, vars
<1>3. FirstCalls' = FirstCalls
  BY <1>2, SameOptions
<1>4. ASSUME NEW s \in Ranks \ {r}
      PROVE  /\ pc'[s] = pc[s] /\ done'[s] = done[s] /\ calls'[s] = calls[s]
             /\ randomSeed'[s] = randomSeed[s] /\ seed'[s] = seed[s]
  <2>1. pc'[s] = pc[s]
    BY <1>1 DEF RankStep, Begin, SeedByClock, SeedKnown, SeedGiven, Shuffle, TransferShuffled,
         TransferDrawn, TransferPermuted, SetupRange, Spin, DivideByZero, AskRange, WithinRange,
         FailBelowZero, LeaveLoop, Agreed, WornOut, Close, vars, Go, ShapeOK
  <2>2. done'[s] = done[s]
    BY <1>1 DEF RankStep, Begin, SeedByClock, SeedKnown, SeedGiven, Shuffle, TransferShuffled,
         TransferDrawn, TransferPermuted, SetupRange, Spin, DivideByZero, AskRange, WithinRange,
         FailBelowZero, LeaveLoop, Agreed, WornOut, Close, vars, ShapeOK
  <2>3. calls'[s] = calls[s]
    BY <1>1 DEF RankStep, Begin, SeedByClock, SeedKnown, SeedGiven, Shuffle, TransferShuffled,
         TransferDrawn, TransferPermuted, SetupRange, Spin, DivideByZero, AskRange, WithinRange,
         FailBelowZero, LeaveLoop, Agreed, WornOut, Close, vars, Enter, ShapeOK
  <2>4. randomSeed'[s] = randomSeed[s]
    BY <1>1 DEF RankStep, Begin, SeedByClock, SeedKnown, SeedGiven, Shuffle, TransferShuffled,
         TransferDrawn, TransferPermuted, SetupRange, Spin, DivideByZero, AskRange, WithinRange,
         FailBelowZero, LeaveLoop, Agreed, WornOut, Close, vars, param, Remember, ShapeOK
  <2>5. seed'[s] = seed[s]
    BY <1>1 DEF RankStep, Begin, SeedByClock, SeedKnown, SeedGiven, Shuffle, TransferShuffled,
         TransferDrawn, TransferPermuted, SetupRange, Spin, DivideByZero, AskRange, WithinRange,
         FailBelowZero, LeaveLoop, Agreed, WornOut, Close, vars, numbers, Srandom, ShapeOK
  <2> QED
    BY <2>1, <2>2, <2>3, <2>4, <2>5
<1>5. CASE Begin(r)
  <2>1. /\ pc[r] = "next" /\ pc'[r] = "open" /\ done'[r] = done[r] + 1
        /\ UNCHANGED <<randomSeed, seed>>
    BY <1>1, <1>5 DEF Begin, Go, ShapeOK, numbers
  <2>2. SeedInv(r)'
    <3>1. ASSUME opt.random # 3, randomSeed[r] = -1 PROVE Unseeded(r)'
      <4>1. Unseeded(r) /\ done[r] = 0 /\ calls[r] = << >>
        BY <1>1, <2>1, <3>1 DEF SeedInv, Unseeded
      <4>2. Enter(r, FirstCalls)
        BY <1>5, <4>1 DEF Begin, FirstCalls
      <4>3. calls'[r] = FirstCalls
        <5>1. FirstCalls \in Seq(Kinds)
          BY KindsEntered DEF FirstCalls
        <5>2. calls'[r] = calls[r] \o FirstCalls
          BY <1>1, <4>2, <5>1, EnterTypes DEF ShapeOK
        <5> QED
          BY <4>1, <5>1, <5>2
      <4> QED
        BY <1>3, <2>1, <4>1, <4>3 DEF Unseeded
    <3> QED
      BY <1>1, <1>2, <2>1, <3>1 DEF SeedInv, Early
  <2>3. \A s \in Ranks \ {r} : SeedInv(s)'
    BY <1>1, <1>2, <1>4, <2>1, SeedFrame
  <2> QED
    BY <2>2, <2>3 DEF SeedsOK
<1>6. CASE SeedByClock(r)
  <2>1. /\ pc[r] = "open" /\ randomSeed[r] = -1 /\ opt.random # 3 /\ UNCHANGED done
        /\ Unseeded(r) /\ done[r] = 1 /\ calls[r] = FirstCalls
    BY <1>1, <1>6 DEF SeedByClock, Opened, SeedInv, Unseeded
  <2>2. CASE opt.filePerProc \/ r = 0
    <3>1. PICK now \in Times : /\ seed' = [seed EXCEPT ![r] = now]
                               /\ randomSeed' = [randomSeed EXCEPT ![r] = now]
      BY <1>6, <2>2 DEF SeedByClock, Srandom, Remember
    <3>2. /\ randomSeed'[r] = now /\ seed'[r] = now /\ now # -1
          /\ pc'[r] \in {"array", "access"}
      <4>1. now # -1
        BY OptionsAssumption
      <4>2. randomSeed'[r] = now /\ seed'[r] = now
        BY <1>1, <3>1 DEF ShapeOK
      <4>3. Go(r, Seeded)
        BY <1>6, <2>2 DEF SeedByClock
      <4>4. pc'[r] = Seeded
        BY <1>1, <4>3 DEF ShapeOK, Go
      <4> QED
        BY <4>1, <4>2, <4>4 DEF Seeded
    <3>3. SeedInv(r)'
      BY <1>2, <2>2, <3>2 DEF SeedInv
    <3>4. \A s \in Ranks \ {r} : SeedInv(s)'
      <4>1. \/ opt.filePerProc
            \/ \A s \in Ranks \ {r} : randomSeed'[0] = randomSeed[0] \/ randomSeed[0] = -1
        BY <2>1, <2>2
      <4>2. opt.filePerProc => \A s \in Ranks \ {r} : SeedInv(s)'
        BY <1>1, <1>2, <1>3, <1>4 DEF SeedInv, Unseeded, Early
      <4> QED
        BY <1>1, <1>2, <1>4, <4>1, <4>2, SeedFrame
    <3> QED
      BY <3>3, <3>4 DEF SeedsOK
  <2>3. CASE ~(opt.filePerProc \/ r = 0)
    <3>1. pc'[r] = "seedWait" /\ UNCHANGED <<seed, randomSeed>> /\ Enter(r, <<"bcast">>)
      BY <1>1, <1>6, <2>3 DEF SeedByClock, Go, ShapeOK
    <3>2. calls'[r] = FirstCalls \o <<"bcast">>
      BY <1>1, <2>1, <3>1, KindsEntered, EnterTypes DEF ShapeOK
    <3>3. SeedInv(r)'
      <4>1. Unseeded(r)'
        BY <1>3, <2>1, <3>1, <3>2 DEF Unseeded
      <4> QED
        BY <1>2, <2>1, <2>3, <3>1, <4>1 DEF SeedInv, Early
    <3>4. \A s \in Ranks \ {r} : SeedInv(s)'
      BY <1>1, <1>2, <1>4, <3>1, SeedFrame
    <3> QED
      BY <3>3, <3>4 DEF SeedsOK
  <2> QED
    BY <2>2, <2>3
<1>7. CASE SeedKnown(r)
  <2>1. randomSeed[0] \in Nat /\ pc[r] = "seedWait"
    BY <1>1, <1>7, RootHasSeed DEF SeedKnown, SeedsOK
  <2>2. ~opt.filePerProc /\ r # 0
    BY <1>1, <2>1 DEF SeedInv
  <2>3. /\ randomSeed'[r] = randomSeed[0] /\ seed'[r] = randomSeed[0]
        /\ randomSeed'[0] = randomSeed[0] /\ pc'[r] \in {"array", "access"}
    BY <1>1, <1>7, <2>2 DEF SeedKnown, Srandom, Remember, Go, Seeded, ShapeOK
  <2>4. SeedInv(r)'
    BY <1>2, <2>1, <2>3 DEF SeedInv
  <2>5. \A s \in Ranks \ {r} : SeedInv(s)'
    BY <1>1, <1>2, <1>4, <2>3, SeedFrame
  <2> QED
    BY <2>4, <2>5 DEF SeedsOK
<1>8. CASE SeedGiven(r)
  <2>1. /\ randomSeed[r] # -1 /\ UNCHANGED randomSeed /\ pc'[r] \in {"array", "access"}
        /\ ~opt.filePerProc => seed'[r] = randomSeed[r]
    BY <1>1, <1>8 DEF SeedGiven, Srandom, Go, Seeded, ShapeOK, param
  <2>2. SeedInv(r)'
    BY <1>1, <1>2, <2>1 DEF SeedInv
  <2>3. \A s \in Ranks \ {r} : SeedInv(s)'
    BY <1>1, <1>2, <1>4, <2>1, SeedFrame
  <2> QED
    BY <2>2, <2>3 DEF SeedsOK
<1>9. CASE \/ SetupRange(r) \/ Shuffle(r) \/ TransferShuffled(r) \/ Spin(r) \/ TransferDrawn(r)
           \/ DivideByZero(r) \/ AskRange(r) \/ WithinRange(r) \/ TransferPermuted(r)
           \/ FailBelowZero(r) \/ LeaveLoop(r) \/ Agreed(r) \/ WornOut(r) \/ Close(r)
  <2>1. UNCHANGED <<done, randomSeed, seed>>
    BY <1>9 DEF SetupRange, Shuffle, TransferShuffled, Spin, TransferDrawn, DivideByZero,
         AskRange, WithinRange, TransferPermuted, FailBelowZero, LeaveLoop, Agreed, WornOut,
         Close, vars, param, numbers
  <2>2. \A s \in Ranks \ {r} : SeedInv(s)'
    BY <1>1, <1>2, <1>4, <2>1, SeedFrame
  <2>3. opt.random = 3 \/ randomSeed[r] # -1
    <3>1. opt.random = 3 \/ ~Unseeded(r)
      <4>1. CASE SetupRange(r)
        BY <4>1 DEF SetupRange
      <4>2. CASE AskRange(r) \/ WithinRange(r) \/ TransferPermuted(r) \/ FailBelowZero(r)
        BY <4>2 DEF AskRange, WithinRange, TransferPermuted, FailBelowZero
      <4>3. CASE \/ Shuffle(r) \/ TransferShuffled(r) \/ Spin(r) \/ TransferDrawn(r)
                 \/ DivideByZero(r) \/ LeaveLoop(r) \/ Agreed(r) \/ WornOut(r) \/ Close(r)
        <5>1. pc[r] \in {"array", "access", "resume", "agree", "close"}
          BY <4>3 DEF Shuffle, TransferShuffled, Spin, TransferDrawn, DivideByZero, LeaveLoop,
                      Agreed, WornOut, Close, More
        <5> QED
          BY <5>1 DEF Unseeded
      <4> QED
        BY <1>9, <4>1, <4>2, <4>3
    <3> QED
      BY <1>1, <3>1 DEF SeedInv
  <2>4. /\ pc'[r] # "seedWait"
        /\ opt.random # 3 => (~Early(r) \/ pc[r] = "array")
    <3>1. CASE SetupRange(r)
      BY <1>1, <3>1 DEF SetupRange, Go, ShapeOK
    <3>2. CASE AskRange(r) \/ WithinRange(r) \/ TransferPermuted(r) \/ FailBelowZero(r)
      <4>1. opt.random = 3
        BY <3>2 DEF AskRange, WithinRange, TransferPermuted, FailBelowZero
      <4>2. pc'[r] = pc[r] \/ pc'[r] = "abort"
        BY <1>1, <3>2 DEF AskRange, WithinRange, TransferPermuted, FailBelowZero, Go, ShapeOK
      <4>3. pc[r] # "seedWait"
        BY <1>1, <4>1 DEF SeedInv
      <4> QED
        BY <4>1, <4>2, <4>3
    <3>3. CASE \/ Shuffle(r) \/ TransferShuffled(r) \/ Spin(r) \/ TransferDrawn(r)
               \/ DivideByZero(r) \/ LeaveLoop(r) \/ Agreed(r) \/ WornOut(r) \/ Close(r)
      <4>1. pc[r] \in {"array", "access", "resume", "agree", "close"}
        BY <3>3 DEF Shuffle, TransferShuffled, Spin, TransferDrawn, DivideByZero, LeaveLoop,
                    Agreed, WornOut, Close, More
      <4>2. pc'[r] \in {"access", "resume", "agree", "close", "next", "trap"}
        BY <1>1, <3>3, <4>1
           DEF Shuffle, TransferShuffled, Spin, TransferDrawn, DivideByZero, LeaveLoop,
               Agreed, WornOut, Close, Go, ShapeOK, vars, More
      <4> QED
        BY <4>1, <4>2 DEF Early
    <3> QED
      BY <1>9, <3>1, <3>2, <3>3
  <2>5. SeedInv(r)'
    BY <1>1, <1>2, <2>1, <2>3, <2>4 DEF SeedInv
  <2> QED
    BY <2>2, <2>5 DEF SeedsOK
<1> QED
  BY <1>5, <1>6, <1>7, <1>8, <1>9 DEF RankStep

\* The files there are before have an end.
LEMMA OldFiles ==
    ASSUME opt \in Options, content = Old(opt)
    PROVE  FilesOK
<1> DEFINE T == {k \in 0 .. NumTasks :
                    \E m \in Nat : \A r \in Ranks : r < k => opt.old[r] <= m}
<1>1. opt.old \in [Ranks -> Nat] /\ opt.transfers \in Nat \ {0}
  BY OptionNumbers
<1>2. 0 \in T
  <2>1. \A r \in Ranks : ~(r < 0)
    BY RankNumbers
  <2> QED
    BY <2>1, RankNumbers
<1>3. ASSUME NEW k \in 0 .. NumTasks - 1, k \in T PROVE k + 1 \in T
  <2>1. PICK m \in Nat : \A r \in Ranks : r < k => opt.old[r] <= m
    BY <1>3
  <2>2. k \in Ranks /\ opt.old[k] \in Nat
    BY <1>1, RankNumbers
  <2> DEFINE n == m + opt.old[k]
  <2>3. n \in Nat /\ \A r \in Ranks : r < k + 1 => opt.old[r] <= n
    <3>1. n \in Nat /\ m <= n /\ opt.old[k] <= n
      BY <2>2
    <3>2. \A r \in Ranks : r < k + 1 => r < k \/ r = k
      BY <2>2, RankNumbers
    <3>3. \A r \in Ranks : opt.old[r] \in Nat
      BY <1>1
    <3> HIDE DEF n
    <3> QED
      BY <2>1, <3>1, <3>2, <3>3
  <2> HIDE DEF n
  <2>4. k + 1 \in 0 .. NumTasks
    BY RankNumbers
  <2> QED
    BY <2>3, <2>4
<1>4. NumTasks \in T
  <2> HIDE DEF T
  <2>1. NumTasks \in Nat
    BY RankNumbers
  <2>2. \A k \in 0 .. NumTasks : k \in T
    BY <1>2, <1>3, <2>1, UpTo
  <2> QED
    BY <2>1, <2>2
<1>5. PICK m \in Nat : \A r \in Ranks : opt.old[r] <= m
  <2>1. \A r \in Ranks : r < NumTasks
    BY RankNumbers
  <2> QED
    BY <1>4, <2>1
<1>6. ASSUME NEW p \in DOMAIN content PROVE p[2] \in 0 .. m /\ content[p] \in Ranks
  <2> DEFINE names == IF opt.filePerProc THEN Ranks ELSE {Shared}
             size(name) == opt.old[IF name = Shared THEN 0 ELSE name]
  <2>1. PICK name \in names : p \in {name} \X (0 .. size(name) - 1)
    BY DEF Old
  <2>2. content[p] = IF p[1] = Shared THEN (p[2] \div opt.transfers) % NumTasks ELSE p[1]
    BY DEF Old
  <2>3. size(name) \in Nat /\ size(name) <= m
    BY <1>1, <1>5, RankNumbers DEF Shared
  <2>4. p[1] = name /\ p[2] \in 0 .. size(name) - 1
    BY <2>1
  <2>5. p[2] \in 0 .. m
    BY <2>3, <2>4
  <2>6. (p[2] \div opt.transfers) % NumTasks \in Ranks
    <3>1. ASSUME NEW o \in Nat, NEW t \in Nat \ {0} PROVE o \div t \in Nat
      BY Divided
    <3>2. ASSUME NEW z \in Nat PROVE z % NumTasks \in Ranks
      BY RankNumbers, Divided
    <3>3. p[2] \in Nat
      BY <2>5
    <3>4. p[2] \div opt.transfers \in Nat
      BY <1>1, <3>1, <3>3
    <3> QED
      BY <3>2, <3>4
  <2> QED
    BY <2>1, <2>2, <2>4, <2>5, <2>6
<1> QED
  BY <1>5, <1>6 DEF FilesOK, EndInv

LEMMA TypeInit == Init => TypeInv
<1> SUFFICES ASSUME Init PROVE TypeInv
  OBVIOUS
<1>1. opt \in Options /\ content = Old(opt)
  BY DEF Init
<1>2. FilesOK
  BY <1>1, OldFiles
<1>3. opt.seed \in Nat \cup {-1} /\ opt.segments \in Nat \cup {-1} /\ Len(opt.phases) \in Nat
  BY <1>1, OptionNumbers
<1>4. << >> \in Seq(Kinds) /\ << >> \in Seq(0 .. SegmentSize - 1) /\ DOMAIN << >> = {}
  OBVIOUS
<1>5. ShapeOK
  BY <1>1, <1>3, <1>4 DEF Init, ShapeOK, PCs, None
<1>6. SeedsOK
  BY <1>3, RankNumbers DEF Init, SeedsOK, SeedInv, Unseeded, Early
<1>7. SegmentsOK
  BY DEF Init, SegmentsOK
<1> QED
  BY <1>2, <1>5, <1>6, <1>7, RangeInvInit DEF TypeInv

LEMMA TypeStep == TypeInv /\ [Next]_vars => TypeInv'
<1> SUFFICES ASSUME TypeInv, [Next]_vars PROVE TypeInv'
  OBVIOUS
<1>1. RangeInv'
  BY RangeInvStep DEF TypeInv
<1>2. CASE UNCHANGED vars
  <2>1. ShapeOK'
    BY <1>2 DEF TypeInv, ShapeOK, vars, SegmentSize, Streams, Draws, SharedDraws
  <2>2. FilesOK' /\ SegmentsOK'
    BY <1>2 DEF TypeInv, FilesOK, EndInv, SegmentsOK, vars
  <2>3. SeedsOK'
    <3>1. /\ opt' = opt /\ pc' = pc /\ done' = done /\ calls' = calls
          /\ randomSeed' = randomSeed /\ seed' = seed
      BY <1>2 DEF vars
    <3>2. \A s \in Ranks : SeedInv(s)'
      BY <3>1, SeedFrame DEF TypeInv, SeedsOK
    <3> QED
      BY <3>2 DEF SeedsOK
  <2> QED
    BY <1>1, <2>1, <2>2, <2>3 DEF TypeInv
<1>3. ASSUME NEW r \in Ranks, RankStep(r) PROVE TypeInv'
  BY <1>1, <1>3, TypesStep, SegmentsStep, SeedsStep DEF TypeInv
<1> QED
  BY <1>2, <1>3 DEF Next

\* Every variable keeps its type, for any number of ranks, any seeds and
\* any numbers drawn: the array of offsets is never left with an element
\* GetOffsetArrayRandom has not set, a rank has a seed before it draws, and
\* the choice of a range stays within elem[].
THEOREM RandomTypesHold == Spec => []TypeOK
<1>1. TypeInv => TypeOK
  <2>1. RangeInv => RangeTypeOK /\ PicksWithin
    BY DEF RangeInv, RankInv, Choosing, PicksWithin
  <2> QED
    BY <2>1 DEF TypeInv, ShapeOK, FilesOK, TypeOK
<1> QED
  BY <1>1, TypeInit, TypeStep, PTL DEF Spec

----------------------------------------------------------------------------
(***************************************************************************)
(* Where a rank has been in shuffled order.                                *)
(***************************************************************************)
\* The transfers of a pass.
LEMMA OnePassIs ==
    ASSUME TypeInv, opt.random = 1, NEW r \in Ranks
    PROVE  /\ OnePass(r) = opt.segments * Len(order[r]) /\ OnePass(r) \in Nat
           /\ Offsets(r) = Len(order[r]) /\ Len(order[r]) \in Nat
           /\ opt.segments \in Nat \ {0} /\ segmentCount[r] = opt.segments
<1>1. opt.segments \in Nat \ {0} /\ segmentCount[r] = opt.segments
  BY OptionNumbers DEF TypeInv, ShapeOK, SegmentsOK
<1>2. order[r] \in Seq(0 .. SegmentSize - 1)
  BY DEF TypeInv, ShapeOK
<1>3. Len(order[r]) \in Nat
  BY <1>2
<1> DEFINE n == Len(order[r])
           S == opt.segments
<1> HIDE DEF n, S
<1>4. n \in Nat /\ S \in Nat \ {0}
  BY <1>1, <1>3 DEF n, S
<1>5. S * n \in Nat /\ S > 0
  BY <1>4
<1>6. OnePass(r) = S * n /\ Offsets(r) = n
  BY <1>1, <1>5 DEF OnePass, Offsets, n, S
<1> QED
  BY <1>1, <1>3, <1>5, <1>6 DEF n, S

\* A rank that stays where it is keeps its spots, and its array what it
\* was filled with.
LEMMA SameSpots ==
    ASSUME opt' = opt, NEW r \in Ranks, order'[r] = order[r], done'[r] = done[r]
    PROVE  /\ Pretend(r)' = Pretend(r) /\ Spots(r)' = Spots(r)
           /\ \A k : Nth(r, k)' = Nth(r, k)
<1>1. SegmentSize' = SegmentSize
  BY SameOptions
<1>2. Doing(r)' = Doing(r)
  BY DEF Doing
<1>3. Pretend(r)' = Pretend(r) /\ Name(r, Doing(r))' = Name(r, Doing(r))
  BY <1>2 DEF Pretend, Name, PretendRank, RankOffset
<1>4. \A j, n : Spot(r, j, n)' = Spot(r, j, n)
  BY <1>1, <1>3 DEF Spot
<1>5. Spots(r)' = Spots(r)
  BY <1>4 DEF Spots
<1>6. \A k : Nth(r, k)' = Nth(r, k)
  BY <1>1, <1>3 DEF Nth, Spot
<1> QED
  BY <1>3, <1>5, <1>6

LEMMA SameFilled ==
    ASSUME opt' = opt, NEW q, NEW s, NEW p, Filled(q, s, p)
    PROVE  Filled(q, s, p)'
<1>1. SegmentSize' = SegmentSize
  BY SameOptions
<1>2. Due(s, p)' = Due(s, p)
  BY <1>1 DEF Due
<1> QED
  BY <1>1, <1>2 DEF Filled

LEMMA AccessedFrame ==
    ASSUME opt' = opt, NEW r \in Ranks, AccessedInv(r),
           pc'[r] = pc[r], done'[r] = done[r], seed'[r] = seed[r], order'[r] = order[r],
           segmentCount'[r] = segmentCount[r], limit'[r] = limit[r],
           count'[r] = count[r], accessed'[r] = accessed[r],
           \A n \in DOMAIN draws : n \in DOMAIN draws' /\ draws'[n] = draws[n]
    PROVE  AccessedInv(r)'
<1>1. /\ Pretend(r)' = Pretend(r) /\ Spots(r)' = Spots(r)
      /\ \A k : Nth(r, k)' = Nth(r, k)
  BY SameSpots
<1>2. (Early(r)' <=> Early(r)) /\ (Over(r)' <=> Over(r)) /\ OnePass(r)' = OnePass(r)
  BY DEF Early, Over, OnePass, Offsets
<1>3. ASSUME ~Early(r)
      PROVE  seed'[r] \in DOMAIN draws' /\ Filled(order[r], draws[seed[r]], Pretend(r))'
  <2>1. seed[r] \in DOMAIN draws /\ Filled(order[r], draws[seed[r]], Pretend(r))
    BY <1>3 DEF AccessedInv
  <2>2. draws'[seed[r]] = draws[seed[r]] /\ seed[r] \in DOMAIN draws'
    BY <2>1
  <2> QED
    BY <1>1, <2>1, <2>2, SameFilled
<1>4. {Nth(r, k) : k \in 0 .. count[r] - 1}' = {Nth(r, k) : k \in 0 .. count[r] - 1}
  BY <1>1
<1> QED
  BY <1>1, <1>2, <1>3, <1>4 DEF AccessedInv

\* A phase begins: the rank has been nowhere.
LEMMA BeginAccessed ==
    ASSUME TypeInv, opt.random = 1, NEW r \in Ranks, AccessedInv(r), Begin(r)
    PROVE  AccessedInv(r)'
<1>1. ShapeOK /\ opt \in Options /\ opt.segments \in Nat \ {0} /\ segmentCount[r] = opt.segments
  BY OnePassIs DEF TypeInv, ShapeOK
<1>2. /\ opt' = opt /\ pc'[r] = "open" /\ done'[r] = done[r] + 1 /\ count'[r] = 0
      /\ accessed'[r] = {} /\ limit'[r] \in {0, limit[r]}
      /\ UNCHANGED <<segmentCount, order>>
  BY <1>1 DEF Begin, Go, ShapeOK, numbers
<1>3. done'[r] # 0
  BY <1>1, <1>2 DEF ShapeOK
<1>4. Early(r)' /\ ~Over(r)'
  BY <1>2 DEF Early, Over
<1>5. 0 <= OnePass(r)'
  <2> DEFINE n == Len(order'[r])
             S == opt.segments
  <2>1. n \in Nat /\ S \in Nat \ {0}
    BY <1>1, <1>2, OnePassIs
  <2>2. OnePass(r)' = IF S > 0 THEN S * n ELSE 0
    BY <1>1, <1>2 DEF OnePass, Offsets
  <2> HIDE DEF n, S
  <2> QED
    BY <2>1, <2>2
<1>6. {Nth(r, k) : k \in 0 .. count[r] - 1}' = {}
  BY <1>2
<1>7. ~opt.stonewall => limit'[r] = 0
  BY <1>2 DEF AccessedInv
<1> QED
  BY <1>2, <1>3, <1>4, <1>5, <1>6, <1>7 DEF AccessedInv

\* A seed is given before there is an array.
LEMMA SeedAccessed ==
    ASSUME TypeInv, opt.random = 1, NEW r \in Ranks, AccessedInv(r),
           SeedByClock(r) \/ SeedKnown(r) \/ SeedGiven(r)
    PROVE  AccessedInv(r)'
<1>1. ShapeOK
  BY DEF TypeInv
<1>2. /\ pc[r] \in {"open", "seedWait"} /\ pc'[r] \in {"seedWait", "array"}
      /\ opt' = opt
      /\ UNCHANGED <<done, segmentCount, limit, order, count, accessed>>
  BY <1>1 DEF SeedByClock, SeedKnown, SeedGiven, Opened, Go, Seeded, ShapeOK, param
<1>3. Early(r) /\ Early(r)' /\ ~Over(r)'
  BY <1>2 DEF Early, Over
<1>4. Spots(r)' = Spots(r) /\ \A k : Nth(r, k)' = Nth(r, k)
  BY <1>2, SameSpots
<1>5. OnePass(r)' = OnePass(r)
  BY <1>2 DEF OnePass, Offsets
<1> QED
  BY <1>2, <1>3, <1>4, <1>5 DEF AccessedInv

\* The array is filled anew, before the first transfer.
LEMMA ShuffleAccessed ==
    ASSUME TypeInv, opt.random = 1, NEW r \in Ranks, AccessedInv(r), Shuffle(r)
    PROVE  /\ AccessedInv(r)'
           /\ \A n \in DOMAIN draws : n \in DOMAIN draws' /\ draws'[n] = draws[n]
<1>1. ShapeOK /\ opt \in Options /\ opt.segments \in Nat \ {0} /\ segmentCount[r] = opt.segments
  BY OnePassIs DEF TypeInv, ShapeOK
<1>2. PICK s \in Streams : /\ draws' = Put(draws, seed[r], s)
                           /\ seed[r] \in DOMAIN draws => s = draws[seed[r]]
                           /\ order' = [order EXCEPT ![r] = OffsetArray(s, Pretend(r))]
  BY ShuffleTypes
<1>3. /\ pc[r] = "array" /\ pc'[r] = "access" /\ opt' = opt
      /\ UNCHANGED <<done, seed, segmentCount, limit, count, accessed>>
  BY <1>1 DEF Shuffle, Go, ShapeOK, param
<1>4. count[r] = 0 /\ accessed[r] = {} /\ done[r] # 0 /\ (~opt.stonewall => limit[r] = 0)
  BY <1>3 DEF AccessedInv, Early
<1>5. draws'[seed[r]] = s /\ seed[r] \in DOMAIN draws'
  BY <1>2 DEF Put
<1> DEFINE c == OffsetArray(s, Pretend(r))
<1>6. Filled(c, s, Pretend(r)) /\ Len(c) \in Nat
  <2>1. c = OffsetArray(s, Pretend(r))
    OBVIOUS
  <2> HIDE DEF c
  <2> QED
    BY <1>1, <2>1, OffsetArrayIs DEF Filled
<1>7. order'[r] = c
  BY <1>1, <1>2 DEF ShapeOK
<1> HIDE DEF c
<1>8. Pretend(r)' = Pretend(r)
  BY <1>3 DEF Pretend, PretendRank, RankOffset, Doing
<1>9. Filled(order[r], draws[seed[r]], Pretend(r))'
  BY <1>3, <1>5, <1>6, <1>7, <1>8, SameFilled
<1>10. 0 <= OnePass(r)'
  <2> DEFINE S == opt.segments
             n == Len(c)
  <2>1. OnePass(r)' = IF S > 0 THEN S * n ELSE 0
    BY <1>1, <1>3, <1>7 DEF OnePass, Offsets
  <2>2. n \in Nat /\ S \in Nat \ {0}
    BY <1>1, <1>6
  <2> HIDE DEF n, S
  <2> QED
    BY <2>1, <2>2
<1>11. {Nth(r, k) : k \in 0 .. count[r] - 1}' = {}
  BY <1>3, <1>4
<1>12. ~Early(r)' /\ ~Over(r)'
  BY <1>3 DEF Early, Over
<1>13. AccessedInv(r)'
  BY <1>3, <1>4, <1>5, <1>9, <1>10, <1>11, <1>12 DEF AccessedInv
<1>14. \A n \in DOMAIN draws : n \in DOMAIN draws' /\ draws'[n] = draws[n]
  BY <1>2 DEF Put
<1> QED
  BY <1>13, <1>14

\* A transfer goes to the next spot of the pass, or to one of it again.
LEMMA TransferAccessed ==
    ASSUME TypeInv, opt.random = 1, NEW r \in Ranks, AccessedInv(r), TransferShuffled(r)
    PROVE  AccessedInv(r)'
<1> DEFINE n == Len(order[r])
           k == count[r]
           S == opt.segments
           segment == (k \div n) % segmentCount[r]
           place == <<Name(r, Doing(r)), order[r][(k % n) + 1] + segment * SegmentSize>>
<1>1. ShapeOK
  BY DEF TypeInv
<1>2. /\ n = Offsets(r) /\ n # 0 /\ More(r) /\ n \in Nat \ {0} /\ k \in Nat
      /\ S \in Nat \ {0} /\ segmentCount[r] = S /\ OnePass(r) = S * n
  BY <1>1, OnePassIs DEF TransferShuffled, ShapeOK
<1>3. /\ opt' = opt /\ count'[r] = k + 1 /\ accessed'[r] = accessed[r] \cup {place}
      /\ UNCHANGED <<pc, done, seed, draws, order, segmentCount, limit>>
  BY <1>1, <1>2 DEF TransferShuffled, Access, ShapeOK, param, numbers
<1>4. /\ k \div n \in Nat /\ (k % n) \in 0 .. n - 1 /\ k = (k % n) + n * (k \div n)
      /\ segment \in 0 .. S - 1
  <2>1. k \div n \in Nat /\ (k % n) \in 0 .. n - 1 /\ k = (k % n) + n * (k \div n)
    BY <1>2, Divided
  <2> DEFINE z == k \div n
  <2> HIDE DEF z
  <2>2. z % S \in 0 .. S - 1
    BY <1>2, <2>1, Divided DEF z
  <2> QED
    BY <1>2, <2>1, <2>2 DEF z
<1>5. place = Spot(r, (k % n) + 1, segment)
  BY DEF Spot
<1>6. place \in Spots(r)
  <2> DEFINE j == (k % n) + 1
             m == k % n
  <2>1. j \in 1 .. n
    <3>1. m \in 0 .. n - 1 /\ j = m + 1
      BY <1>4
    <3> HIDE DEF m, j
    <3> QED
      BY <1>2, <3>1
  <2> HIDE DEF j, segment, place
  <2>2. place = Spot(r, j, segment)
    BY <1>5 DEF j
  <2>3. segment \in 0 .. opt.segments - 1 /\ j \in 1 .. Len(order[r])
    BY <1>4, <2>1
  <2> HIDE DEF n, S
  <2> QED
    BY <2>2, <2>3 DEF Spots
<1>7. ASSUME k + 1 <= OnePass(r) PROVE place = Nth(r, k)
  <2> DEFINE z == k \div n
             m == k % n
  <2>1. z \in Nat /\ m \in 0 .. n - 1 /\ k = m + n * z
    BY <1>4
  <2> HIDE DEF z, m
  <2>2. m + n * z < n * S
    BY <1>2, <1>7, <2>1
  <2>3. z < S
    BY <1>2, <2>1, <2>2, WithinPass
  <2>4. z % S = z
    <3>1. ASSUME NEW s \in Nat \ {0}, NEW y \in 0 .. s - 1 PROVE y % s = y
      OBVIOUS
    <3>2. z \in 0 .. S - 1 /\ S \in Nat \ {0}
      BY <1>2, <2>1, <2>3
    <3> HIDE DEF S
    <3> QED
      BY <3>1, <3>2
  <2>5. segment = z
    BY <1>2, <2>4 DEF z
  <2> HIDE DEF segment, place
  <2> QED
    BY <1>5, <2>5 DEF Nth, z
<1> HIDE DEF place, segment
<1>8. (~Early(r) /\ k < OnePass(r)) \/ pc[r] = "resume"
  BY <1>2 DEF More, Early
<1>9. ~Early(r) /\ ~Over(r) /\ (~Early(r))' /\ (~Over(r))'
  BY <1>2, <1>3 DEF More, Early, Over
<1>10. Spots(r)' = Spots(r) /\ (\A i : Nth(r, i)' = Nth(r, i)) /\ Pretend(r)' = Pretend(r)
  BY <1>3, SameSpots
<1>11. OnePass(r)' = OnePass(r)
  BY <1>3 DEF OnePass, Offsets
<1>12. accessed'[r] \subseteq Spots(r)'
  BY <1>3, <1>6, <1>10 DEF AccessedInv
<1>13. ASSUME count'[r] <= OnePass(r)'
       PROVE  accessed'[r] = {Nth(r, i) : i \in 0 .. count[r] - 1}'
  <2>1. k + 1 <= OnePass(r) /\ place = Nth(r, k)
    BY <1>3, <1>7, <1>11, <1>13
  <2>2. accessed[r] = {Nth(r, i) : i \in 0 .. k - 1}
    BY <1>2, <2>1 DEF AccessedInv
  <2> HIDE DEF k
  <2>3. 0 .. (k + 1) - 1 = (0 .. k - 1) \cup {k}
    BY <1>2
  <2>4. {Nth(r, i) : i \in 0 .. (k + 1) - 1} = {Nth(r, i) : i \in 0 .. k - 1} \cup {Nth(r, k)}
    BY <2>3
  <2>5. {Nth(r, i) : i \in 0 .. count[r] - 1}' = {Nth(r, i) : i \in 0 .. (k + 1) - 1}
    BY <1>3, <1>10
  <2> QED
    BY <1>3, <2>1, <2>2, <2>4, <2>5
<1>14. seed'[r] \in DOMAIN draws' /\ Filled(order[r], draws[seed[r]], Pretend(r))'
  BY <1>3, <1>9, <1>10, SameFilled DEF AccessedInv
<1>15. ~opt.stonewall => limit'[r] = 0 /\ pc'[r] \notin {"agree", "resume"}
                         /\ count'[r] <= OnePass(r)'
  BY <1>2, <1>3, <1>8, <1>11 DEF AccessedInv
<1> QED
  BY <1>3, <1>9, <1>12, <1>13, <1>14, <1>15 DEF AccessedInv

\* Without a stonewall a rank leaves when it has made the whole pass.
LEMMA LeaveAccessed ==
    ASSUME TypeInv, opt.random = 1, NEW r \in Ranks, AccessedInv(r),
           LeaveLoop(r) \/ Agreed(r) \/ WornOut(r) \/ Close(r) \/ Spin(r)
    PROVE  AccessedInv(r)'
<1>1. ShapeOK /\ OnePass(r) \in Nat /\ count[r] \in Nat
  BY OnePassIs DEF TypeInv, ShapeOK
<1>2. /\ opt' = opt /\ (limit'[r] = limit[r] \/ opt.stonewall)
      /\ UNCHANGED <<done, seed, draws, order, segmentCount, count, accessed>>
  BY <1>1 DEF LeaveLoop, Agreed, WornOut, Close, Spin, param, numbers, vars, ShapeOK
<1>3. Spots(r)' = Spots(r) /\ (\A i : Nth(r, i)' = Nth(r, i)) /\ Pretend(r)' = Pretend(r)
  BY <1>2, SameSpots
<1>4. OnePass(r)' = OnePass(r)
  BY <1>2 DEF OnePass, Offsets
<1>5. pc[r] \in {"access", "agree", "resume", "close"}
  BY DEF LeaveLoop, Agreed, WornOut, Close, Spin, More
<1>6. pc'[r] \in {"access", "agree", "resume", "close", "next"} /\ done[r] # 0
  BY <1>1, <1>5 DEF AccessedInv, LeaveLoop, Agreed, WornOut, Close, Spin, Go, ShapeOK, vars
<1>7. ~Early(r) /\ ~Early(r)'
  BY <1>2, <1>5, <1>6 DEF Early
<1>8. Filled(order[r], draws[seed[r]], Pretend(r))'
  BY <1>2, <1>3, <1>7, SameFilled DEF AccessedInv
<1>9. {Nth(r, i) : i \in 0 .. count[r] - 1}' = {Nth(r, i) : i \in 0 .. count[r] - 1}
  BY <1>2, <1>3
<1>10. ASSUME ~opt.stonewall
       PROVE  /\ limit'[r] = 0 /\ pc'[r] \notin {"agree", "resume"}
              /\ Over(r)' => count[r] = OnePass(r)
  <2>1. limit[r] = 0 /\ pc[r] \in {"access", "close"} /\ count[r] <= OnePass(r)
    BY <1>5, <1>10 DEF AccessedInv
  <2>2. ~opt.wearOut
    BY <1>1, <1>10, OptionNumbers DEF ShapeOK
  <2>3. CASE LeaveLoop(r)
    <3>1. pc[r] = "access" /\ ~More(r) /\ pc'[r] = "close"
      BY <1>1, <1>10, <2>2, <2>3 DEF LeaveLoop, Go, ShapeOK
    <3>2. count[r] = OnePass(r)
      BY <1>1, <2>1, <3>1 DEF More
    <3> QED
      BY <1>2, <1>10, <2>1, <3>1, <3>2
  <2>4. CASE Close(r)
    <3>1. pc[r] = "close" /\ pc'[r] = "next"
      BY <1>1, <2>4 DEF Close, Go, ShapeOK
    <3> QED
      BY <1>2, <1>10, <2>1, <3>1 DEF AccessedInv, Over
  <2>5. CASE Spin(r)
    <3>1. pc' = pc
      BY <2>5 DEF Spin, vars
    <3> QED
      BY <1>2, <1>10, <2>1, <3>1 DEF AccessedInv, Over
  <2> QED
    BY <2>1, <2>3, <2>4, <2>5 DEF Agreed, WornOut
<1> QED
  BY <1>2, <1>3, <1>4, <1>6, <1>7, <1>8, <1>9, <1>10 DEF AccessedInv

\* In shuffled order every rank keeps to its spots.
AInv == TypeInv /\ (opt.random = 1 => \A r \in Ranks : AccessedInv(r))

LEMMA AccessedInit == Init => AInv
<1> SUFFICES ASSUME Init, opt.random = 1, NEW r \in Ranks PROVE AccessedInv(r)
  BY TypeInit DEF AInv
<1>1. /\ pc[r] = "next" /\ done[r] = 0 /\ count[r] = 0 /\ accessed[r] = {} /\ limit[r] = 0
      /\ OnePass(r) \in Nat
  BY TypeInit, OnePassIs DEF Init
<1>2. Early(r) /\ ~Over(r)
  BY <1>1 DEF Early, Over
<1>3. {Nth(r, k) : k \in 0 .. count[r] - 1} = {}
  BY <1>1
<1> QED
  BY <1>1, <1>2, <1>3 DEF AccessedInv

LEMMA AccessedStep == AInv /\ [Next]_vars => AInv'
<1> SUFFICES ASSUME AInv, [Next]_vars PROVE AInv'
  OBVIOUS
<1>1. TypeInv /\ TypeInv'
  BY TypeStep DEF AInv
<1>2. opt' = opt
  BY DEF Next, RankStep, Begin, SeedByClock, SeedKnown, SeedGiven, Shuffle, TransferShuffled,
         TransferDrawn, TransferPermuted, SetupRange, Spin, DivideByZero, AskRange, WithinRange,
         FailBelowZero, LeaveLoop, Agreed, WornOut, Close, vars
<1> SUFFICES ASSUME opt.random = 1, NEW s \in Ranks PROVE AccessedInv(s)'
  BY <1>1, <1>2 DEF AInv
<1>3. AccessedInv(s)
  BY DEF AInv
<1>4. CASE UNCHANGED vars
  <2>1. /\ UNCHANGED <<pc, done, seed, order, segmentCount, limit, count, accessed, draws>>
    BY <1>4 DEF vars, numbers
  <2> QED
    BY <1>2, <1>3, <2>1, AccessedFrame
<1>5. ASSUME NEW r \in Ranks, RankStep(r) PROVE AccessedInv(s)'
  <2>1. ShapeOK /\ AccessedInv(r)
    BY <1>1 DEF TypeInv, AInv
  <2>2. \/ Begin(r) \/ SeedByClock(r) \/ SeedKnown(r) \/ SeedGiven(r) \/ Shuffle(r)
        \/ TransferShuffled(r) \/ LeaveLoop(r) \/ Agreed(r) \/ WornOut(r) \/ Close(r)
        \/ Spin(r)
    BY <1>5 DEF RankStep, SetupRange, TransferDrawn, DivideByZero, AskRange, WithinRange,
                TransferPermuted, FailBelowZero
  <2>3. CASE s = r
    BY <1>1, <1>3, <2>2, <2>3, BeginAccessed, SeedAccessed, ShuffleAccessed, TransferAccessed,
       LeaveAccessed
  <2>4. CASE s # r
    <3>1. /\ pc'[s] = pc[s] /\ done'[s] = done[s] /\ seed'[s] = seed[s]
      BY <2>1, <2>2, <2>4
         DEF Begin, SeedByClock, SeedKnown, SeedGiven, Shuffle, TransferShuffled, LeaveLoop,
             Agreed, WornOut, Close, Spin, Go, Srandom, vars, numbers, ShapeOK
    <3>2. order'[s] = order[s] /\ segmentCount'[s] = segmentCount[s]
      BY <2>1, <2>2, <2>4
         DEF Begin, SeedByClock, SeedKnown, SeedGiven, Shuffle, TransferShuffled, LeaveLoop,
             Agreed, WornOut, Close, Spin, vars, numbers, param, ShapeOK
    <3>3. limit'[s] = limit[s]
      BY <2>1, <2>2, <2>4
         DEF Begin, SeedByClock, SeedKnown, SeedGiven, Shuffle, TransferShuffled, LeaveLoop,
             Agreed, WornOut, Close, Spin, vars, param, ShapeOK
    <3>4. count'[s] = count[s] /\ accessed'[s] = accessed[s]
      BY <2>1, <2>2, <2>4
         DEF Begin, SeedByClock, SeedKnown, SeedGiven, Shuffle, TransferShuffled, LeaveLoop,
             Agreed, WornOut, Close, Spin, Access, vars, ShapeOK
    <3>5. \A n \in DOMAIN draws : n \in DOMAIN draws' /\ draws'[n] = draws[n]
      <4>1. CASE Shuffle(r)
        BY <1>1, <2>1, <4>1, ShuffleAccessed
      <4>2. CASE ~Shuffle(r)
        BY <2>2, <4>2
           DEF Begin, SeedByClock, SeedKnown, SeedGiven, TransferShuffled, LeaveLoop,
               Agreed, WornOut, Close, Spin, vars, numbers
      <4> QED
        BY <4>1, <4>2
    <3> QED
      BY <1>2, <1>3, <3>1, <3>2, <3>3, <3>4, <3>5, AccessedFrame
  <2> QED
    BY <2>3, <2>4
<1> QED
  BY <1>4, <1>5 DEF Next

\* Ranks of a shared file draw the same numbers, each for itself.
LEMMA SameDraws ==
    ASSUME AInv, opt.random = 1, ~opt.filePerProc, NEW r \in Ranks, ~Early(r)
    PROVE  seed[r] = randomSeed[0] /\ Pretend(r) = r /\ Name(r, Doing(r)) = Shared
<1>1. SeedInv(r) /\ opt \in Options
  BY DEF AInv, TypeInv, SeedsOK, ShapeOK
<1>2. randomSeed[r] # -1
  BY <1>1 DEF SeedInv, Unseeded, Early
<1>3. opt.shift = 0
  BY <1>1, OptionNumbers
<1>4. ASSUME NEW n \in Nat \ {0}, NEW k \in 0 .. n - 1 PROVE (k + 0) % n = k
  OBVIOUS
<1>5. Pretend(r) = r
  BY <1>3, <1>4, RankNumbers DEF Pretend, PretendRank, RankOffset
<1> QED
  BY <1>1, <1>2, <1>5 DEF SeedInv, Name

\* A rank has an array only after it has numbers for it.
LEMMA ArrayIs ==
    ASSUME AInv, opt.random = 1, NEW r \in Ranks, ~Early(r)
    PROVE  /\ GoodOrder(r) /\ seed[r] \in DOMAIN draws
           /\ \A v : (\E i \in 1 .. Len(order[r]) : order[r][i] = v)
                        <=> v \in Due(draws[seed[r]], Pretend(r))
<1>1. AccessedInv(r)
  BY DEF AInv
<1>2. seed[r] \in DOMAIN draws /\ Filled(order[r], draws[seed[r]], Pretend(r))
  BY <1>1 DEF AccessedInv
<1> QED
  BY <1>2 DEF Filled, GoodOrder

\* Each transfer of a rank goes to a spot of its own.
LEMMA OwnSpots ==
    ASSUME AInv, opt.random = 1, NEW r \in Ranks, count[r] <= OnePass(r)
    PROVE  Cardinality(accessed[r]) = count[r]
<1>1. AccessedInv(r) /\ opt \in Options /\ count[r] \in Nat
  BY DEF AInv, TypeInv, ShapeOK
<1>2. CASE Early(r)
  <2>1. accessed[r] = {} /\ count[r] = 0
    BY <1>1, <1>2 DEF AccessedInv
  <2> QED
    BY <2>1, FS_EmptySet
<1>3. CASE ~Early(r)
  <2>1. GoodOrder(r)
    BY <1>3, ArrayIs
  <2>2. accessed[r] = {Nth(r, k) : k \in 0 .. count[r] - 1}
    BY <1>1 DEF AccessedInv
  <2>3. count[r] \in 0 .. opt.segments * Len(order[r])
    BY <1>1, OnePassIs DEF AInv
  <2> QED
    BY <1>1, <2>1, <2>2, <2>3, SpotsCounted
<1> QED
  BY <1>2, <1>3

\* What the numbers give to one rank they do not give to another.
LEMMA SpotsApart ==
    ASSUME AInv, opt.random = 1, NEW r \in Ranks, NEW s \in Ranks, r # s, Together(r, s)
    PROVE  accessed[r] \cap accessed[s] = {}
<1>1. AccessedInv(r) /\ AccessedInv(s) /\ ~opt.filePerProc /\ opt \in Options
  BY DEF AInv, TypeInv, ShapeOK, Together
<1>2. CASE Early(r) \/ Early(s)
  BY <1>1, <1>2 DEF AccessedInv
<1>3. CASE ~Early(r) /\ ~Early(s)
  <2> DEFINE d == draws[randomSeed[0]]
  <2>1. /\ \A v : (\E i \in 1 .. Len(order[r]) : order[r][i] = v) <=> v \in Due(d, r)
        /\ \A v : (\E i \in 1 .. Len(order[s]) : order[s][i] = v) <=> v \in Due(d, s)
    BY <1>1, <1>3, ArrayIs, SameDraws
  <2>2. \A v : ~(v \in Due(d, r) /\ v \in Due(d, s))
    BY <1>1 DEF Due
  <2>3. SegmentSize \in Nat \ {0} /\ opt.segments \in Nat \ {0}
    BY <1>1, OptionNumbers
  <2>4. /\ order[r] \in Seq(0 .. SegmentSize - 1) /\ order[s] \in Seq(0 .. SegmentSize - 1)
    BY <1>3, ArrayIs DEF GoodOrder
  <2>5. ASSUME NEW p, p \in Spots(r), p \in Spots(s) PROVE FALSE
    <3>1. PICK i \in 1 .. Len(order[r]), y \in 0 .. opt.segments - 1 : p = Spot(r, i, y)
      BY <2>5 DEF Spots
    <3>2. PICK j \in 1 .. Len(order[s]), z \in 0 .. opt.segments - 1 : p = Spot(s, j, z)
      BY <2>5 DEF Spots
    <3> DEFINE v == order[r][i]
               w == order[s][j]
    <3>3. v \in 0 .. SegmentSize - 1 /\ w \in 0 .. SegmentSize - 1
      <4>1. ASSUME NEW T, NEW q \in Seq(T), NEW k \in 1 .. Len(q) PROVE q[k] \in T
        OBVIOUS
      <4> QED
        BY <2>4, <4>1
    <3>4. v \in Due(d, r) /\ w \in Due(d, s)
      BY <2>1
    <3>5. v + y * SegmentSize = w + z * SegmentSize
      BY <3>1, <3>2 DEF Spot
    <3> HIDE DEF v, w
    <3>6. v = w
      <4> DEFINE L == SegmentSize
      <4> HIDE DEF L
      <4>1. /\ v \in 0 .. L - 1 /\ w \in 0 .. L - 1 /\ y \in Int /\ z \in Int
            /\ L \in Nat \ {0} /\ v + L * y = w + L * z
        BY <2>3, <3>3, <3>5 DEF L
      <4> QED
        BY <4>1, SameMultiple
    <3> QED
      BY <2>2, <3>4, <3>6
  <2> QED
    BY <1>1, <2>5 DEF AccessedInv
<1> QED
  BY <1>2, <1>3

\* What the numbers do not give to one rank they give to another.
LEMMA SpotsAll ==
    ASSUME AInv, opt.random = 1, ~opt.stonewall, PhaseOver
    PROVE  UNION {accessed[r] : r \in Ranks} =
              {Name(r, Doing(r)) : r \in Ranks} \X (0 .. opt.segments * SegmentSize - 1)
<1> DEFINE S == opt.segments
           L == SegmentSize
<1>1. opt \in Options /\ S \in Nat \ {0} /\ L \in Nat \ {0} /\ opt.filePerProc \in BOOLEAN
  BY OptionNumbers DEF AInv, TypeInv, ShapeOK
<1>2. ASSUME NEW r \in Ranks
      PROVE  ~Early(r) /\ GoodOrder(r) /\ accessed[r] = Spots(r)
  <2>1. AccessedInv(r) /\ ~Early(r) /\ Over(r)
    BY <1>2 DEF AInv, PhaseOver, Early, Over
  <2>2. GoodOrder(r)
    BY <2>1, ArrayIs
  <2> DEFINE n == S * Len(order[r])
  <2>3. accessed[r] = {Nth(r, k) : k \in 0 .. n - 1}
    <3>1. count[r] = OnePass(r) /\ OnePass(r) = n /\ n \in Nat
      BY <2>1, OnePassIs DEF AccessedInv, AInv
    <3> QED
      BY <2>1, <3>1 DEF AccessedInv
  <2>4. /\ \A k \in 0 .. n - 1 : Nth(r, k) \in Spots(r)
        /\ \A y \in Spots(r) : \E k \in 0 .. n - 1 : Nth(r, k) = y
    BY <1>1, <2>2, OnePassSpots
  <2> HIDE DEF n
  <2> QED
    BY <2>1, <2>2, <2>3, <2>4
<1>3. ASSUME NEW r \in Ranks, NEW p \in Spots(r)
      PROVE  p \in {Name(t, Doing(t)) : t \in Ranks} \X (0 .. S * L - 1)
  <2>1. PICK j \in 1 .. Len(order[r]), z \in 0 .. S - 1 : p = Spot(r, j, z)
    BY <1>3 DEF Spots
  <2>2. order[r][j] \in 0 .. L - 1
    BY <1>1, <1>2, <2>1 DEF GoodOrder
  <2> DEFINE v == order[r][j]
  <2>3. p = <<Name(r, Doing(r)), v + z * L>>
    BY <2>1 DEF Spot
  <2> HIDE DEF v, S, L
  <2>4. v + z * L \in 0 .. S * L - 1
    <3>1. v \in 0 .. L - 1 /\ z \in 0 .. S - 1
      BY <2>1, <2>2 DEF v
    <3>2. v + L * z < L * S
      BY <1>1, <3>1, WithinPass
    <3> QED
      BY <1>1, <3>1, <3>2
  <2> QED
    BY <1>3, <2>3, <2>4
<1>4. ASSUME NEW r \in Ranks, NEW o \in 0 .. S * L - 1
      PROVE  \E t \in Ranks : <<Name(r, Doing(r)), o>> \in Spots(t)
  <2> DEFINE v == o % L
             z == o \div L
  <2>1. /\ v \in 0 .. L - 1 /\ z \in 0 .. S - 1 /\ o = v + z * L
    <3> HIDE DEF S, L
    <3>1. o \in Nat
      BY <1>1, <1>4
    <3>2. v \in 0 .. L - 1 /\ z \in Nat /\ o = v + L * z
      BY <1>1, <3>1, Divided
    <3> HIDE DEF v, z
    <3>3. v + L * z < L * S
      BY <1>1, <1>4, <3>2
    <3>4. z < S
      BY <1>1, <3>2, <3>3, WithinPass
    <3> QED
      BY <1>1, <3>2, <3>4
  <2> HIDE DEF v, z
  <2>2. \E t \in Ranks : /\ Name(t, Doing(t)) = Name(r, Doing(r))
                         /\ v \in Due(draws[seed[t]], Pretend(t))
    <3>1. CASE opt.filePerProc
      BY <2>1, <3>1 DEF Due
    <3>2. CASE ~opt.filePerProc
      <4> DEFINE d == draws[randomSeed[0]]
                 t == d[v + 1] % NumTasks
      <4>1. /\ randomSeed[0] \in DOMAIN draws /\ d \in Streams
        <5>1. seed[r] \in DOMAIN draws /\ seed[r] = randomSeed[0]
          BY <1>2, <3>2, ArrayIs, SameDraws
        <5> QED
          BY <5>1 DEF AInv, TypeInv, ShapeOK
      <4>2. t \in Ranks
        <5>1. d \in [1 .. 2 * SharedDraws -> 0 .. RandMax] /\ L = SharedDraws
          BY <1>1, <3>2, <4>1, OptionNumbers DEF Streams, Draws
        <5> HIDE DEF d, L
        <5>2. v + 1 \in 1 .. 2 * SharedDraws
          BY <1>1, <2>1, <5>1
        <5>3. d[v + 1] \in Nat
          BY <5>1, <5>2, OptionsAssumption
        <5>4. ASSUME NEW k \in Nat PROVE k % NumTasks \in Ranks
          BY RankNumbers, Divided
        <5> QED
          BY <5>3, <5>4
      <4>3. v \in Due(d, t)
        BY <2>1 DEF Due
      <4> HIDE DEF d, t
      <4>4. /\ seed[t] = randomSeed[0] /\ Pretend(t) = t
            /\ Name(t, Doing(t)) = Name(r, Doing(r))
        BY <1>2, <3>2, <4>2, SameDraws
      <4> QED
        BY <4>2, <4>3, <4>4 DEF d
    <3> QED
      BY <3>1, <3>2
  <2>3. PICK t \in Ranks : /\ Name(t, Doing(t)) = Name(r, Doing(r))
                           /\ v \in Due(draws[seed[t]], Pretend(t))
    BY <2>2
  <2>4. PICK j \in 1 .. Len(order[t]) : order[t][j] = v
    BY <1>2, <2>3, ArrayIs
  <2>5. <<Name(r, Doing(r)), o>> = Spot(t, j, z)
    BY <2>1, <2>3, <2>4 DEF Spot
  <2> QED
    BY <2>1, <2>4, <2>5 DEF Spots
<1>5. UNION {accessed[r] : r \in Ranks} = UNION {Spots(r) : r \in Ranks}
  BY <1>2
<1> HIDE DEF S, L
<1>6. UNION {Spots(r) : r \in Ranks} = {Name(r, Doing(r)) : r \in Ranks} \X (0 .. S * L - 1)
  BY <1>3, <1>4
<1> QED
  BY <1>5, <1>6 DEF S, L

\* Each rank draws for itself, and it draws what the others do: in shuffled
\* order a rank does none of its transfers twice before it has done all,
\* no two ranks of a file do the same, and the phase leaves none out, for
\* any number of ranks, of segments and of transfers and any numbers drawn.
THEOREM EveryTransferOnceHolds == Spec => []EveryTransferOnce
<1>1. AInv => EveryTransferOnce
  BY OwnSpots, SpotsApart, SpotsAll DEF EveryTransferOnce
<1> QED
  BY <1>1, AccessedInit, AccessedStep, PTL DEF Spec

----------------------------------------------------------------------------
(***************************************************************************)
(* A test in shuffled order that writes first: what the write has left in  *)
(* the files is told by the seed of each file and by how far its writer    *)
(* has come, and that is told to the phases that follow.                   *)
(***************************************************************************)
\* A test in shuffled order writes in its first phase; in the other orders
\* it reads what an earlier execution has written.
WellPhased(o) ==
    \A k \in DOMAIN o.phases :
        IF o.random = 1 THEN (o.phases[k] = "write") <=> (k = 1) ELSE Reads(o.phases[k])

Writing(r) == done[r] = 1
HasWritten(r) == done[r] > 1 \/ (done[r] = 1 /\ pc[r] = "next")

\* The collectives of the write phase: one for the seed, one to agree.
ForSeed == IF opt.filePerProc \/ opt.seed # -1 THEN 0 ELSE 1
ToAgree == IF opt.wearOut THEN 1 ELSE 0

\* Which of its collectives a rank has entered, and which it has left.
MeetingsInv(r) ==
    /\ pc[r] \notin {"trap", "abort"}
    /\ pc[r] = "seedWait" => Writing(r) /\ ForSeed = 1
    /\ pc[r] \in {"agree", "resume"} => opt.wearOut
    /\ done[r] = 0 => pc[r] = "next" /\ Len(calls[r]) = 0
    /\ Writing(r) /\ pc[r] = "open" => Len(calls[r]) = 1
    /\ Writing(r) /\ pc[r] = "seedWait" => Len(calls[r]) = 2
    /\ Writing(r) /\ pc[r] \in {"array", "access"} => Len(calls[r]) = 1 + ForSeed
    /\ Writing(r) /\ pc[r] \in {"agree", "resume", "close"} =>
          Len(calls[r]) = 1 + ForSeed + ToAgree
    /\ Writing(r) /\ pc[r] = "next" => Len(calls[r]) = 3 + ForSeed + ToAgree
    /\ done[r] > 1 => Len(calls[r]) > 3 + ForSeed + ToAgree

LeftBehind(r) ==
    IF done[r] > 1 THEN 3 + ForSeed + ToAgree
    ELSE IF Writing(r) /\ opt.wearOut /\ pc[r] \in {"resume", "close", "next"}
         THEN 1 + ForSeed + ToAgree
    ELSE IF Writing(r) /\ pc[r] # "open" THEN 1 ELSE 0

MeetInv ==
    /\ \A r \in Ranks : MeetingsInv(r)
    /\ \A r, s \in Ranks : Len(calls[s]) >= LeftBehind(r)

\* The seed the file f is written with, and the order it is written in.
WriteSeed(f) ==
    IF ~opt.filePerProc THEN randomSeed[0]
    ELSE IF opt.seed = -1 THEN randomSeed[f] ELSE opt.seed + f

Plan(f) == OffsetArray(draws[WriteSeed(f)], f)

\* The phases that follow have the seeds of the write.
SeedsLast == ~opt.filePerProc \/ opt.seed # -1

Planned(f) == done[f] > 1 \/ (Writing(f) /\ ~Early(f))

PlanInv(r) ==
    /\ opt.seed # -1 => randomSeed[r] = opt.seed
    /\ opt.seed = -1 /\ (done[r] = 0 \/ (Writing(r) /\ pc[r] \in {"open", "seedWait"})) =>
          randomSeed[r] = -1
    /\ (SeedsLast \/ Writing(r)) /\ (~Early(r) \/ pc[r] = "array") =>
          seed[r] = WriteSeed(Pretend(r))
    /\ (SeedsLast \/ Writing(r)) /\ ~Early(r) => order[r] = Plan(Pretend(r))
    /\ Planned(r) => WriteSeed(r) \in DOMAIN draws

\* Where the k-th transfer of file f goes in the order q.
Goes(f, q, k) ==
    <<IF opt.filePerProc THEN f ELSE Shared,
      q[(k % Len(q)) + 1] + ((k \div Len(q)) % opt.segments) * SegmentSize>>

WentInv(r) == accessed[r] = {Goes(Pretend(r), order[r], k) : k \in 0 .. count[r] - 1}

\* A rank is through with what it writes before the ranks agree.
Late(r) == Writing(r) /\ pc[r] \in {"agree", "resume", "close", "next"}

\* How far the write has come is the limit of what follows.
LimitInv(r) ==
    /\ Writing(r) /\ pc[r] # "next" => limit[r] = 0
    /\ Writing(r) /\ pc[r] = "next" /\ opt.stonewall => limit[r] = count[r]
    /\ Late(r) /\ opt.stonewall /\ count[r] = 0 => Len(Plan(r)) = 0
    /\ done[r] > 1 /\ opt.stonewall /\ limit[r] = 0 => Len(Plan(r)) = 0
    /\ done[r] > 1 /\ opt.stonewall => count[r] <= limit[r]

\* With wear-out it is the same for all.
AllWriting == \A r \in Ranks : done[r] <= 1

WearRank(r) ==
    /\ Late(r) => sent[r] <= count[r]
    /\ Writing(r) /\ pc[r] = "agree" => sent[r] = count[r]
    /\ AllWriting /\ Writing(r) /\ pc[r] = "resume" => count[r] <= Largest
    /\ AllWriting /\ Writing(r) /\ pc[r] \in {"close", "next"} => count[r] = Largest
    /\ HasWritten(r) => sent[r] <= limit[r]

WearInv ==
    /\ \A r \in Ranks : WearRank(r)
    /\ \A r, s \in Ranks : HasWritten(r) /\ HasWritten(s) => limit[r] = limit[s]

\* What has been written of each file.
Wrote(f) ==
    IF done[f] <= 1 THEN count[f]
    ELSE IF opt.stonewall THEN limit[f] ELSE opt.segments * Len(Plan(f))

WrittenInv(f) ==
    \A k \in 0 .. Wrote(f) - 1 :
        /\ Len(Plan(f)) # 0
        /\ Goes(f, Plan(f), k) \in DOMAIN content
        /\ content[Goes(f, Plan(f), k)] = f

\* What the options say of the meetings.
LEMMA MeetingNumbers ==
    ASSUME opt \in Options, opt.random = 1, WellPhased(opt)
    PROVE  /\ ForSeed \in {0, 1} /\ ToAgree \in {0, 1}
           /\ opt.wearOut <=> ToAgree = 1
           /\ \A k \in 1 .. Len(opt.phases) : opt.phases[k] = "write" <=> k = 1
<1>1. opt.phases \in Seq(Phases) /\ opt.wearOut \in BOOLEAN
  BY OptionNumbers
<1>2. DOMAIN opt.phases = 1 .. Len(opt.phases)
  BY <1>1
<1> QED
  BY <1>1, <1>2 DEF ForSeed, ToAgree, WellPhased

\* What does not change with the options.
LEMMA SameMeetings ==
    ASSUME opt' = opt
    PROVE  ForSeed' = ForSeed /\ ToAgree' = ToAgree
BY DEF ForSeed, ToAgree

LEMMA MeetFrame ==
    ASSUME opt' = opt, NEW r \in Ranks, MeetingsInv(r),
           pc'[r] = pc[r], done'[r] = done[r], calls'[r] = calls[r]
    PROVE  MeetingsInv(r)' /\ LeftBehind(r)' = LeftBehind(r)
BY SameMeetings DEF MeetingsInv, LeftBehind, Writing

\* What a rank does in shuffled order, or nothing.
ShuffledStep(r) ==
    \/ Begin(r) \/ SeedByClock(r) \/ SeedKnown(r) \/ SeedGiven(r) \/ Shuffle(r)
    \/ TransferShuffled(r) \/ LeaveLoop(r) \/ Agreed(r) \/ WornOut(r) \/ Close(r)
    \/ UNCHANGED vars

LEMMA ShuffledSteps ==
    ASSUME opt.random = 1, NEW r \in Ranks, RankStep(r)
    PROVE  ShuffledStep(r) /\ opt' = opt
BY DEF RankStep, ShuffledStep, SetupRange, TransferDrawn, DivideByZero, AskRange, WithinRange,
       TransferPermuted, FailBelowZero, Begin, SeedByClock, SeedKnown, SeedGiven, Shuffle,
       TransferShuffled, Spin, LeaveLoop, Agreed, WornOut, Close, vars

\* A step of one rank leaves what is the others'.
LEMMA OthersStay ==
    ASSUME ShapeOK, NEW r \in Ranks, ShuffledStep(r), NEW s \in Ranks, s # r
    PROVE  /\ pc'[s] = pc[s] /\ done'[s] = done[s] /\ seed'[s] = seed[s]
           /\ randomSeed'[s] = randomSeed[s] /\ order'[s] = order[s] /\ limit'[s] = limit[s]
           /\ count'[s] = count[s] /\ sent'[s] = sent[s] /\ accessed'[s] = accessed[s]
           /\ calls'[s] = calls[s]
<1>1. pc'[s] = pc[s] /\ done'[s] = done[s] /\ seed'[s] = seed[s]
  BY DEF ShuffledStep, Begin, SeedByClock, SeedKnown, SeedGiven, Shuffle, TransferShuffled,
         LeaveLoop, Agreed, WornOut, Close, Go, Srandom, vars, numbers, ShapeOK
<1>2. randomSeed'[s] = randomSeed[s] /\ order'[s] = order[s]
  BY DEF ShuffledStep, Begin, SeedByClock, SeedKnown, SeedGiven, Shuffle, TransferShuffled,
         LeaveLoop, Agreed, WornOut, Close, Remember, vars, numbers, param, ShapeOK
<1>3. limit'[s] = limit[s] /\ sent'[s] = sent[s]
  BY DEF ShuffledStep, Begin, SeedByClock, SeedKnown, SeedGiven, Shuffle, TransferShuffled,
         LeaveLoop, Agreed, WornOut, Close, vars, param, ShapeOK
<1>4. count'[s] = count[s] /\ accessed'[s] = accessed[s]
  BY DEF ShuffledStep, Begin, SeedByClock, SeedKnown, SeedGiven, Shuffle, TransferShuffled,
         LeaveLoop, Agreed, WornOut, Close, Access, vars, ShapeOK
<1>5. calls'[s] = calls[s]
  BY DEF ShuffledStep, Begin, SeedByClock, SeedKnown, SeedGiven, Shuffle, TransferShuffled,
         LeaveLoop, Agreed, WornOut, Close, Enter, vars, ShapeOK
<1> QED
  BY <1>1, <1>2, <1>3, <1>4, <1>5

\* The collectives a rank enters are added to those it has entered.
LEMMA Longer ==
    ASSUME ShapeOK, NEW r \in Ranks, NEW kinds \in Seq(Kinds), Enter(r, kinds)
    PROVE  Len(calls'[r]) = Len(calls[r]) + Len(kinds)
<1>1. calls \in [Ranks -> Seq(Kinds)]
  BY DEF ShapeOK
<1>2. calls'[r] = calls[r] \o kinds
  BY <1>1, EnterTypes
<1> QED
  BY <1>1, <1>2

\* One rank keeps count of its collectives, and has not left one that
\* another has not entered.
LEMMA MeetRank ==
    ASSUME AInv, opt.random = 1, WellPhased(opt), NEW r \in Ranks, MeetingsInv(r),
           ShuffledStep(r), opt' = opt,
           SeedInv(r), PlanInv(r)
    PROVE  /\ MeetingsInv(r)'
           /\ Len(calls'[r]) >= Len(calls[r])
           /\ LeftBehind(r)' = LeftBehind(r) \/ (AllArrived(r) /\ LeftBehind(r)' = Len(calls[r]))
<1>1. /\ ShapeOK /\ opt \in Options /\ pc \in [Ranks -> PCs]
      /\ done \in [Ranks -> 0 .. Len(opt.phases)] /\ calls \in [Ranks -> Seq(Kinds)]
      /\ done[r] \in Nat /\ Len(calls[r]) \in Nat
  <2>1. /\ ShapeOK /\ opt \in Options /\ pc \in [Ranks -> PCs]
        /\ done \in [Ranks -> 0 .. Len(opt.phases)] /\ calls \in [Ranks -> Seq(Kinds)]
    BY DEF AInv, TypeInv, ShapeOK
  <2>2. opt.phases \in Seq(Phases)
    BY <2>1, OptionNumbers
  <2>3. done[r] \in Nat
    BY <2>1, <2>2
  <2>4. calls[r] \in Seq(Kinds)
    BY <2>1
  <2> QED
    BY <2>1, <2>3, <2>4
<1>2. /\ ForSeed \in {0, 1} /\ ToAgree \in {0, 1} /\ (opt.wearOut <=> ToAgree = 1)
      /\ \A k \in 1 .. Len(opt.phases) : opt.phases[k] = "write" <=> k = 1
      /\ ForSeed' = ForSeed /\ ToAgree' = ToAgree
  BY <1>1, MeetingNumbers, SameMeetings
<1>3. CASE Begin(r)
  <2>1. /\ pc[r] = "next" /\ pc'[r] = "open" /\ done'[r] = done[r] + 1
        /\ Enter(r, <<"barrier">>) /\ (calls[r] = << >> \/ AllArrived(r))
    BY <1>1, <1>3 DEF Begin, Go
  <2>2. Len(calls'[r]) = Len(calls[r]) + 1
    BY <1>1, <2>1, Longer, KindsEntered
  <2>3. done[r] = 0 => Len(calls[r]) = 0
    BY DEF MeetingsInv
  <2>4. done[r] = 1 => Len(calls[r]) = 3 + ForSeed + ToAgree
    BY <2>1 DEF MeetingsInv, Writing
  <2>5. done[r] > 1 => Len(calls[r]) > 3 + ForSeed + ToAgree
    BY DEF MeetingsInv
  <2>6. MeetingsInv(r)'
    BY <1>1, <1>2, <2>1, <2>2, <2>3, <2>4, <2>5 DEF MeetingsInv, Writing
  <2>7. LeftBehind(r)' = LeftBehind(r) \/ (AllArrived(r) /\ LeftBehind(r)' = Len(calls[r]))
    <3>1. CASE done[r] = 0
      BY <1>1, <1>2, <2>1, <3>1 DEF LeftBehind, Writing
    <3>2. CASE done[r] = 1
      <4>1. calls[r] # << >>
        BY <1>1, <1>2, <2>4, <3>2
      <4> QED
        BY <1>1, <1>2, <2>1, <2>4, <3>2, <4>1 DEF LeftBehind, Writing
    <3>3. CASE done[r] > 1
      BY <1>1, <1>2, <2>1, <3>3 DEF LeftBehind, Writing
    <3> QED
      BY <1>1, <3>1, <3>2, <3>3
  <2> QED
    BY <1>1, <2>2, <2>6, <2>7
<1>4. CASE SeedByClock(r)
  <2>1. /\ pc[r] = "open" /\ AllArrived(r) /\ randomSeed[r] = -1 /\ done' = done
        /\ pc'[r] = IF opt.filePerProc \/ r = 0 THEN "array" ELSE "seedWait"
        /\ IF opt.filePerProc THEN UNCHANGED calls ELSE Enter(r, <<"bcast">>)
    BY <1>1, <1>4 DEF SeedByClock, Opened, Go, Seeded
  <2>2. done[r] = 1
    BY <1>1, <2>1 DEF SeedInv, Unseeded, AInv, ShapeOK
  <2>3. opt.seed = -1
    BY <2>1 DEF PlanInv
  <2>4. Len(calls[r]) = 1
    BY <2>1, <2>2 DEF MeetingsInv, Writing
  <2>5. Len(calls'[r]) = 1 + ForSeed
    <3>1. CASE opt.filePerProc
      BY <2>1, <2>4, <3>1 DEF ForSeed
    <3>2. CASE ~opt.filePerProc
      <4>1. ForSeed = 1
        BY <2>3, <3>2 DEF ForSeed
      <4> QED
        BY <1>1, <2>1, <2>4, <3>2, <4>1, Longer, KindsEntered
    <3> QED
      BY <3>1, <3>2
  <2>6. pc'[r] = "seedWait" => ForSeed = 1
    BY <2>1, <2>3 DEF ForSeed
  <2>7. MeetingsInv(r)'
    BY <1>2, <2>1, <2>2, <2>5, <2>6 DEF MeetingsInv, Writing
  <2>8. LeftBehind(r)' = 1
    BY <1>2, <2>1, <2>2 DEF LeftBehind, Writing
  <2> QED
    BY <1>2, <2>1, <2>4, <2>5, <2>7, <2>8
<1>5. CASE SeedKnown(r)
  <2>1. pc[r] = "seedWait" /\ pc'[r] = "array" /\ done' = done /\ calls' = calls
    BY <1>1, <1>5 DEF SeedKnown, Go, Seeded
  <2>2. done[r] = 1 /\ ForSeed = 1 /\ Len(calls[r]) = 2
    BY <2>1 DEF MeetingsInv, Writing
  <2>3. MeetingsInv(r)'
    BY <1>2, <2>1, <2>2 DEF MeetingsInv, Writing
  <2>4. LeftBehind(r)' = LeftBehind(r)
    BY <1>2, <2>1, <2>2 DEF LeftBehind, Writing
  <2> QED
    BY <1>1, <2>1, <2>3, <2>4
<1>6. CASE SeedGiven(r)
  <2>1. /\ pc[r] = "open" /\ AllArrived(r) /\ randomSeed[r] # -1 /\ done' = done
        /\ pc'[r] = "array" /\ calls' = calls
    BY <1>1, <1>6 DEF SeedGiven, Opened, Go, Seeded
  <2>2. done[r] = 1 => ForSeed = 0 /\ Len(calls[r]) = 1
    BY <2>1 DEF PlanInv, MeetingsInv, Writing, ForSeed
  <2>3. done[r] # 0
    BY <2>1 DEF MeetingsInv
  <2>4. MeetingsInv(r)'
    <3>1. done[r] > 1 => Len(calls[r]) > 3 + ForSeed + ToAgree
      BY DEF MeetingsInv
    <3>2. done[r] = 1 => Len(calls[r]) = 1 + ForSeed
      BY <2>2
    <3> QED
      BY <1>2, <2>1, <2>3, <3>1, <3>2 DEF MeetingsInv, Writing
  <2>5. LeftBehind(r)' = LeftBehind(r) \/ LeftBehind(r)' = Len(calls[r])
    BY <1>1, <1>2, <2>1, <2>2, <2>3 DEF LeftBehind, Writing
  <2> QED
    BY <1>1, <2>1, <2>4, <2>5
<1>7. CASE Shuffle(r) \/ TransferShuffled(r)
  <2>1. /\ pc[r] \in {"array", "access", "resume"} /\ done' = done /\ calls' = calls
        /\ pc'[r] = IF pc[r] = "array" THEN "access" ELSE pc[r]
    BY <1>1, <1>7 DEF Shuffle, TransferShuffled, More, Go
  <2>2. MeetingsInv(r)'
    BY <1>2, <2>1 DEF MeetingsInv, Writing
  <2>3. LeftBehind(r)' = LeftBehind(r)
    BY <1>2, <2>1 DEF LeftBehind, Writing
  <2> QED
    BY <1>1, <2>1, <2>2, <2>3
<1>8. CASE LeaveLoop(r)
  <2>1. /\ pc[r] = "access" /\ done' = done
        /\ pc'[r] = IF opt.wearOut THEN "agree" ELSE "close"
        /\ IF opt.wearOut THEN Enter(r, <<"allreduce">>) ELSE calls' = calls
    BY <1>1, <1>8 DEF LeaveLoop, Go
  <2>2. Len(calls'[r]) = Len(calls[r]) + ToAgree
    <3>1. Len(<<"allreduce">>) = 1
      OBVIOUS
    <3>2. opt.wearOut => Len(calls'[r]) = Len(calls[r]) + 1
      BY <1>1, <2>1, <3>1, Longer, KindsEntered
    <3>3. opt.wearOut => ToAgree = 1
      BY DEF ToAgree
    <3>4. ~opt.wearOut => ToAgree = 0 /\ calls' = calls
      BY <2>1 DEF ToAgree
    <3>5. Len(calls[r]) \in Nat
      BY <1>2
    <3> QED
      BY <3>2, <3>3, <3>4, <3>5
  <2>3. done[r] # 0
    BY <2>1 DEF MeetingsInv
  <2>4. MeetingsInv(r)'
    <3>1. done[r] = 1 => Len(calls'[r]) = 1 + ForSeed + ToAgree
      BY <2>1, <2>2 DEF MeetingsInv, Writing
    <3>2. done[r] > 1 => Len(calls'[r]) > 3 + ForSeed + ToAgree
      BY <1>1, <1>2, <2>2 DEF MeetingsInv
    <3> QED
      BY <1>1, <1>2, <2>1, <2>3, <3>1, <3>2 DEF MeetingsInv, Writing
  <2>5. LeftBehind(r)' = LeftBehind(r)
    BY <1>2, <2>1 DEF LeftBehind, Writing
  <2> QED
    BY <1>1, <1>2, <2>2, <2>4, <2>5
<1>9. CASE Agreed(r)
  <2>1. /\ pc[r] = "agree" /\ AllArrived(r) /\ done' = done /\ pc'[r] = "resume"
        /\ calls' = calls
    BY <1>1, <1>9 DEF Agreed, Go
  <2>2. done[r] # 0 /\ opt.wearOut
    BY <2>1 DEF MeetingsInv
  <2>3. MeetingsInv(r)'
    BY <1>1, <1>2, <2>1, <2>2 DEF MeetingsInv, Writing
  <2>4. LeftBehind(r)' = LeftBehind(r) \/ LeftBehind(r)' = Len(calls[r])
    BY <1>1, <1>2, <2>1, <2>2 DEF LeftBehind, Writing, MeetingsInv
  <2> QED
    BY <1>1, <2>1, <2>3, <2>4
<1>10. CASE WornOut(r)
  <2>1. /\ pc[r] = "resume" /\ done' = done /\ pc'[r] = "close" /\ calls' = calls
    BY <1>1, <1>10 DEF WornOut, Go
  <2>2. done[r] # 0 /\ opt.wearOut
    BY <2>1 DEF MeetingsInv
  <2>3. MeetingsInv(r)'
    BY <1>1, <1>2, <2>1, <2>2 DEF MeetingsInv, Writing
  <2>4. LeftBehind(r)' = LeftBehind(r)
    BY <1>1, <1>2, <2>1, <2>2 DEF LeftBehind, Writing
  <2> QED
    BY <1>1, <2>1, <2>3, <2>4
<1>11. CASE Close(r)
  <2>1. /\ pc[r] = "close" /\ done' = done /\ pc'[r] = "next"
        /\ CASE Doing(r) = "write" -> Enter(r, <<"barrier", "allreduce">>)
             [] Doing(r) = "writecheck" -> UNCHANGED calls
             [] OTHER -> Enter(r, <<"allreduce">>)
    BY <1>1, <1>11 DEF Close, Go
  <2>2. done[r] # 0
    BY <2>1 DEF MeetingsInv
  <2>3. done[r] = 1 => Doing(r) = "write"
    BY <1>1, <1>2 DEF Doing
  <2>4. Len(<<"barrier", "allreduce">>) = 2 /\ Len(<<"allreduce">>) = 1
    OBVIOUS
  <2>5. /\ Len(calls'[r]) \in Nat /\ Len(calls'[r]) >= Len(calls[r])
        /\ Doing(r) = "write" => Len(calls'[r]) = Len(calls[r]) + 2
    <3>1. CASE Doing(r) = "write"
      <4>1. Enter(r, <<"barrier", "allreduce">>)
        BY <2>1, <3>1
      <4>2. Len(calls'[r]) = Len(calls[r]) + 2
        BY <1>1, <2>4, <4>1, Longer, KindsEntered
      <4> QED
        BY <1>1, <4>2
    <3>2. CASE Doing(r) = "writecheck"
      BY <1>1, <2>1, <3>2
    <3>3. CASE Doing(r) # "write" /\ Doing(r) # "writecheck"
      <4>1. Enter(r, <<"allreduce">>)
        BY <2>1, <3>3
      <4>2. Len(calls'[r]) = Len(calls[r]) + 1
        BY <1>1, <2>4, <4>1, Longer, KindsEntered
      <4> QED
        BY <1>1, <3>3, <4>2
    <3> QED
      BY <3>1, <3>2, <3>3
  <2>6. MeetingsInv(r)'
    BY <1>1, <1>2, <2>1, <2>2, <2>3, <2>5 DEF MeetingsInv, Writing
  <2>7. LeftBehind(r)' = LeftBehind(r)
    BY <1>1, <1>2, <2>1, <2>2 DEF LeftBehind, Writing
  <2> QED
    BY <2>5, <2>6, <2>7
<1>12. CASE UNCHANGED vars
  <2>1. UNCHANGED <<pc, done, calls>>
    BY <1>12 DEF vars
  <2> QED
    BY <1>1, <2>1, MeetFrame
<1> QED
  BY <1>3, <1>4, <1>5, <1>6, <1>7, <1>8, <1>9, <1>10, <1>11, <1>12 DEF ShuffledStep

\* The collectives of one rank and of another.
LEMMA MeetStep ==
    ASSUME AInv, opt.random = 1, WellPhased(opt), MeetInv, \A s \in Ranks : PlanInv(s),
           NEW r \in Ranks, ShuffledStep(r), opt' = opt
    PROVE  MeetInv'
<1>1. ShapeOK /\ \A s \in Ranks : MeetingsInv(s) /\ PlanInv(s) /\ SeedInv(s)
  BY DEF AInv, TypeInv, SeedsOK, MeetInv
<1>2. /\ MeetingsInv(r)' /\ Len(calls'[r]) >= Len(calls[r])
      /\ LeftBehind(r)' = LeftBehind(r) \/ (AllArrived(r) /\ LeftBehind(r)' = Len(calls[r]))
  BY <1>1, MeetRank
<1>3. ASSUME NEW s \in Ranks, s # r
      PROVE  MeetingsInv(s)' /\ LeftBehind(s)' = LeftBehind(s) /\ calls'[s] = calls[s]
  BY <1>1, <1>3, OthersStay, MeetFrame
<1>4. \A s \in Ranks : Len(calls[s]) \in Nat /\ Len(calls'[s]) \in Nat
  <2>1. calls \in [Ranks -> Seq(Kinds)]
    BY <1>1 DEF ShapeOK
  <2>2. calls' \in [Ranks -> Seq(Kinds)]
    <3>1. AInv'
      <4>1. RankStep(r) \/ UNCHANGED vars
        BY DEF ShuffledStep, RankStep
      <4>2. [Next]_vars \/ Stopped
        BY <4>1 DEF Next
      <4>3. ~Stopped
        BY <1>1 DEF Stopped, MeetingsInv
      <4> QED
        BY <4>2, <4>3, AccessedStep
    <3> QED
      BY <3>1 DEF AInv, TypeInv, ShapeOK
  <2> QED
    BY <2>1, <2>2
<1>5. ASSUME NEW s \in Ranks PROVE Len(calls'[s]) >= Len(calls[s])
  BY <1>2, <1>3, <1>4
<1>6. ASSUME NEW s \in Ranks, NEW t \in Ranks PROVE Len(calls'[t]) >= LeftBehind(s)'
  <2>1. Len(calls[t]) >= LeftBehind(s)
    BY DEF MeetInv
  <2>2. CASE LeftBehind(s)' = LeftBehind(s)
    <3>1. LeftBehind(s) \in Nat
      <4>1. ForSeed \in {0, 1} /\ ToAgree \in {0, 1}
        BY <1>1, MeetingNumbers DEF ShapeOK
      <4>2. 3 + ForSeed + ToAgree \in Nat /\ 1 + ForSeed + ToAgree \in Nat
        BY <4>1
      <4> QED
        BY <4>2 DEF LeftBehind
    <3> QED
      BY <1>4, <1>5, <2>1, <2>2, <3>1
  <2>3. CASE s = r /\ AllArrived(r) /\ LeftBehind(r)' = Len(calls[r])
    <3>1. Len(calls[r]) \in 1 .. Len(calls[t])
      BY <2>3 DEF AllArrived, InSameCall
    <3> QED
      BY <1>4, <1>5, <2>3, <3>1
  <2> QED
    BY <1>2, <1>3, <2>2, <2>3
<1> QED
  BY <1>2, <1>3, <1>6 DEF MeetInv

\* Nobody has been at a file before all are to write.
LEMMA NobodyYet ==
    ASSUME ShapeOK, MeetInv, opt.random = 1, WellPhased(opt),
           NEW r \in Ranks, done[r] = 0, NEW s \in Ranks
    PROVE  done[s] = 0 \/ (Writing(s) /\ pc[s] = "open")
<1>1. Len(calls[r]) = 0 /\ Len(calls[r]) >= LeftBehind(s)
  BY DEF MeetInv, MeetingsInv
<1>2. ForSeed \in {0, 1} /\ ToAgree \in {0, 1}
  BY MeetingNumbers DEF ShapeOK
<1>3. done[s] \in Nat
  BY OptionNumbers DEF ShapeOK
<1> QED
  BY <1>1, <1>2, <1>3 DEF LeftBehind, Writing

\* A rank goes on when all have written.
LEMMA AllHaveWritten ==
    ASSUME ShapeOK, MeetInv, opt.random = 1, WellPhased(opt),
           NEW r \in Ranks, done[r] > 1, NEW s \in Ranks
    PROVE  HasWritten(s)
<1>1. Len(calls[s]) >= 3 + ForSeed + ToAgree /\ MeetingsInv(s)
  BY DEF MeetInv, LeftBehind
<1>2. ForSeed \in {0, 1} /\ ToAgree \in {0, 1}
  BY MeetingNumbers DEF ShapeOK
<1>3. done[s] \in Nat /\ pc[s] \in PCs
  BY OptionNumbers DEF ShapeOK
<1>4. ASSUME Writing(s), pc[s] # "next" PROVE FALSE
  <2>1. pc[s] \in {"open", "seedWait", "array", "access", "agree", "resume", "close"}
    BY <1>1, <1>3, <1>4 DEF MeetingsInv, PCs
  <2>2. /\ pc[s] = "open" => Len(calls[s]) = 1
        /\ pc[s] = "seedWait" => Len(calls[s]) = 2
        /\ pc[s] \in {"array", "access"} => Len(calls[s]) = 1 + ForSeed
        /\ pc[s] \in {"agree", "resume", "close"} => Len(calls[s]) = 1 + ForSeed + ToAgree
    BY <1>1, <1>4 DEF MeetingsInv
  <2>3. Len(calls[s]) \in {1, 2, 1 + ForSeed, 1 + ForSeed + ToAgree}
    BY <2>1, <2>2
  <2> DEFINE n == Len(calls[s])
  <2> HIDE DEF n
  <2>4. n \in {1, 2, 1 + ForSeed, 1 + ForSeed + ToAgree} /\ n >= 3 + ForSeed + ToAgree
    BY <1>1, <2>3 DEF n
  <2> QED
    BY <1>2, <2>4
<1>5. done[s] # 0
  BY <1>1, <1>2 DEF MeetingsInv
<1> QED
  BY <1>3, <1>4, <1>5 DEF HasWritten, Writing

\* A rank that resumes knows how far all have come.
LEMMA AllHaveAgreed ==
    ASSUME ShapeOK, MeetInv, opt.random = 1, WellPhased(opt), opt.wearOut,
           NEW r \in Ranks, Writing(r), pc[r] \in {"resume", "close", "next"}, NEW s \in Ranks
    PROVE  done[s] > 1 \/ (Writing(s) /\ pc[s] \in {"agree", "resume", "close", "next"})
<1>1. Len(calls[s]) >= 1 + ForSeed + ToAgree /\ MeetingsInv(s)
  BY DEF MeetInv, LeftBehind, Writing
<1>2. ForSeed \in {0, 1} /\ ToAgree = 1
  BY MeetingNumbers DEF ShapeOK
<1>3. done[s] \in Nat /\ pc[s] \in PCs
  BY OptionNumbers DEF ShapeOK
<1>4. ASSUME Writing(s), pc[s] \notin {"agree", "resume", "close", "next"} PROVE FALSE
  <2>1. pc[s] \in {"open", "seedWait", "array", "access"}
    BY <1>1, <1>3, <1>4 DEF MeetingsInv, PCs
  <2>2. pc[s] = "seedWait" => ForSeed = 1
    BY <1>1 DEF MeetingsInv
  <2>3. Len(calls[s]) <= 1 + ForSeed
    <3>1. /\ pc[s] = "open" => Len(calls[s]) = 1
          /\ pc[s] = "seedWait" => Len(calls[s]) = 2
          /\ pc[s] \in {"array", "access"} => Len(calls[s]) = 1 + ForSeed
      BY <1>1, <1>4 DEF MeetingsInv
    <3>2. Len(calls[s]) \in {1, 1 + ForSeed} \/ (Len(calls[s]) = 2 /\ ForSeed = 1)
      BY <2>1, <2>2, <3>1
    <3> DEFINE n == Len(calls[s])
    <3> HIDE DEF n
    <3>3. n \in {1, 1 + ForSeed} \/ (n = 2 /\ ForSeed = 1)
      BY <3>2 DEF n
    <3>4. n <= 1 + ForSeed
      BY <1>2, <3>3
    <3> QED
      BY <3>4 DEF n
  <2> QED
    BY <1>1, <1>2, <2>3
<1>5. done[s] # 0
  BY <1>1, <1>2 DEF MeetingsInv
<1> QED
  BY <1>3, <1>4, <1>5 DEF Writing

\* The same numbers make the same array.
LEMMA SameArray ==
    ASSUME opt' = opt, NEW s, NEW p
    PROVE  OffsetArray(s, p)' = OffsetArray(s, p)
<1>1. SharedDraws' = SharedDraws
  BY SameOptions
<1>2. ASSUME NEW n PROVE Shares(s, n, p)' = Shares(s, n, p)
  BY <1>1 DEF Shares
<1>3. ASSUME NEW a PROVE Exchanged(a, s)' = Exchanged(a, s)
  BY <1>1 DEF Exchanged
<1> DEFINE q == Shares(s, 0, p)
           n == IF opt.filePerProc THEN opt.transfers ELSE Len(q)
           filled == IF opt.filePerProc THEN [k \in 1 .. n |-> k - 1] ELSE q
           a == [k \in 1 .. n |-> IF k <= Len(filled) THEN filled[k] ELSE Garbage]
<1>4. q' = q
  BY <1>2
<1> HIDE DEF q
<1>5. n' = n
  BY <1>4
<1>6. filled' = filled
  BY <1>4, <1>5
<1>7. a' = a
  BY <1>5, <1>6
<1>8. OffsetArray(s, p) = Exchanged(a, s) /\ OffsetArray(s, p)' = Exchanged(a, s)'
  BY DEF OffsetArray, SecondPass, q
<1> HIDE DEF a
<1>9. PICK c : c = a
  OBVIOUS
<1>10. Exchanged(a, s) = Exchanged(c, s) /\ Exchanged(a, s)' = Exchanged(c, s)'
  BY <1>7, <1>9
<1> QED
  BY <1>3, <1>8, <1>10

\* A rank writes its own part, and every rank of a shared file has its own.
LEMMA ItsOwn ==
    ASSUME opt \in Options, opt.random = 1, WellPhased(opt), NEW r \in Ranks,
           done[r] \in 0 .. Len(opt.phases), done[r] # 0
    PROVE  /\ Writing(r) <=> Doing(r) = "write"
           /\ Writing(r) \/ ~opt.filePerProc => Pretend(r) = r
<1>1. Writing(r) <=> Doing(r) = "write"
  BY MeetingNumbers, OptionNumbers DEF Writing, Doing
<1>2. ASSUME Writing(r) \/ ~opt.filePerProc PROVE RankOffset(Doing(r)) = 0
  BY <1>1, <1>2, OptionNumbers DEF RankOffset
<1>3. ASSUME NEW n \in Nat \ {0}, NEW k \in 0 .. n - 1 PROVE (k + 0) % n = k
  OBVIOUS
<1>4. ASSUME Writing(r) \/ ~opt.filePerProc PROVE Pretend(r) = r
  BY <1>2, <1>3, <1>4, RankNumbers DEF Pretend, PretendRank
<1> QED
  BY <1>1, <1>4

\* A seed that is remembered is never forgotten.
LEMMA SeedKept ==
    ASSUME ShapeOK, SeedsOK, NEW r \in Ranks, ShuffledStep(r),
           NEW f \in Ranks, randomSeed[f] # -1
    PROVE  randomSeed'[f] = randomSeed[f]
<1>1. CASE f # r
  BY <1>1, OthersStay
<1>2. CASE f = r
  <2>1. SeedInv(r)
    BY DEF SeedsOK
  <2>2. ~SeedByClock(r) /\ ~SeedKnown(r)
    BY <1>2, <2>1 DEF SeedByClock, SeedKnown, SeedInv
  <2> QED
    BY <1>2, <2>2
       DEF ShuffledStep, Begin, SeedGiven, Shuffle, TransferShuffled, LeaveLoop, Agreed,
           WornOut, Close, vars, param
<1> QED
  BY <1>1, <1>2

\* What has been drawn for a seed remains.
LEMMA DrawsKept ==
    ASSUME AInv, opt.random = 1, NEW r \in Ranks, ShuffledStep(r)
    PROVE  \A n \in DOMAIN draws : n \in DOMAIN draws' /\ draws'[n] = draws[n]
<1>1. CASE Shuffle(r)
  BY <1>1, ShuffleAccessed DEF AInv
<1>2. CASE ~Shuffle(r)
  BY <1>2 DEF ShuffledStep, Begin, SeedByClock, SeedKnown, SeedGiven, TransferShuffled,
              LeaveLoop, Agreed, WornOut, Close, vars, numbers
<1> QED
  BY <1>1, <1>2

\* The seed of a file is fixed.
Fixed(f) == randomSeed[f] # -1 \/ (opt.filePerProc /\ opt.seed # -1)

LEMMA PlanKept ==
    ASSUME AInv, opt.random = 1, NEW r \in Ranks, ShuffledStep(r), opt' = opt,
           NEW f \in Ranks, Fixed(f)
    PROVE  /\ WriteSeed(f)' = WriteSeed(f)
           /\ WriteSeed(f) \in DOMAIN draws =>
                 WriteSeed(f)' \in DOMAIN draws' /\ Plan(f)' = Plan(f)
<1>1. ShapeOK /\ SeedsOK /\ SeedInv(f) /\ opt \in Options /\ 0 \in Ranks
  BY RankNumbers DEF AInv, TypeInv, SeedsOK, ShapeOK
<1>2. WriteSeed(f)' = WriteSeed(f)
  <2>1. CASE opt.filePerProc /\ opt.seed # -1
    BY <2>1 DEF WriteSeed
  <2>2. CASE randomSeed[f] # -1
    <3>1. randomSeed'[f] = randomSeed[f]
      BY <1>1, <2>2, SeedKept
    <3>2. ~opt.filePerProc => randomSeed[0] # -1
      BY <1>1, <2>2 DEF SeedInv
    <3>3. ~opt.filePerProc => randomSeed'[0] = randomSeed[0]
      BY <1>1, <3>2, SeedKept
    <3> QED
      BY <3>1, <3>3 DEF WriteSeed
  <2> QED
    BY <2>1, <2>2 DEF Fixed
<1>3. ASSUME WriteSeed(f) \in DOMAIN draws
      PROVE  WriteSeed(f)' \in DOMAIN draws' /\ Plan(f)' = Plan(f)
  <2>1. PICK s : s = draws[WriteSeed(f)]
    OBVIOUS
  <2>2. WriteSeed(f)' \in DOMAIN draws' /\ draws'[WriteSeed(f)'] = s
    BY <1>2, <1>3, <2>1, DrawsKept
  <2>3. Plan(f) = OffsetArray(s, f)
    BY <2>1 DEF Plan
  <2>4. Plan(f)' = OffsetArray(s, f)'
    BY <2>2 DEF Plan
  <2>5. OffsetArray(s, f)' = OffsetArray(s, f)
    BY SameArray
  <2> QED
    BY <2>2, <2>3, <2>4, <2>5
<1> QED
  BY <1>2, <1>3

LEMMA IsFixed ==
    ASSUME AInv, opt.random = 1, NEW f \in Ranks, ~Unseeded(f)
    PROVE  /\ randomSeed[f] # -1 /\ Fixed(f)
           /\ ~opt.filePerProc => randomSeed[0] = randomSeed[f]
<1>1. SeedInv(f)
  BY DEF AInv, TypeInv, SeedsOK
<1> QED
  BY <1>1 DEF SeedInv, Fixed

\* A phase that draws its seed has none before, and is the first.
LEMMA ClockFirst ==
    ASSUME AInv, opt.random = 1, WellPhased(opt), NEW r \in Ranks, PlanInv(r),
           pc[r] \in {"open", "seedWait"}, randomSeed[r] = -1
    PROVE  Writing(r) /\ opt.seed = -1
<1>1. SeedInv(r)
  BY DEF AInv, TypeInv, SeedsOK
<1> QED
  BY <1>1 DEF SeedInv, Unseeded, Writing, PlanInv

\* The rank that pretends to have written a file has its seed.
LEMMA FixedForRank ==
    ASSUME AInv, opt.random = 1, WellPhased(opt), NEW r \in Ranks, done[r] # 0,
           ~Unseeded(r), SeedsLast \/ Writing(r)
    PROVE  Pretend(r) \in Ranks /\ Fixed(Pretend(r))
<1>1. opt \in Options /\ done[r] \in 0 .. Len(opt.phases)
  BY DEF AInv, TypeInv, ShapeOK
<1>2. Pretend(r) \in Ranks
  BY <1>1, PretendIsRank DEF Pretend
<1>3. CASE Writing(r) \/ ~opt.filePerProc
  <2>1. Pretend(r) = r
    BY <1>1, <1>3, ItsOwn
  <2> QED
    BY <1>2, <2>1, IsFixed
<1>4. CASE ~Writing(r) /\ opt.filePerProc
  BY <1>2, <1>4 DEF SeedsLast, Fixed
<1> QED
  BY <1>3, <1>4

\* What is known of the order of a file stays known.
LEMMA PlanFrame ==
    ASSUME AInv, opt.random = 1, WellPhased(opt), NEW r \in Ranks, ShuffledStep(r), opt' = opt,
           NEW s \in Ranks, PlanInv(s), pc'[s] = pc[s], done'[s] = done[s],
           randomSeed'[s] = randomSeed[s], seed'[s] = seed[s], order'[s] = order[s]
    PROVE  PlanInv(s)'
<1>1. /\ Early(s)' = Early(s) /\ Writing(s)' = Writing(s) /\ Planned(s)' = Planned(s)
      /\ SeedsLast' = SeedsLast /\ Pretend(s)' = Pretend(s)
  BY SameSpots DEF Early, Writing, Planned, SeedsLast
<1>2. AccessedInv(s)
  BY DEF AInv
<1>3. ASSUME SeedsLast \/ Writing(s), ~Early(s) \/ pc[s] = "array"
      PROVE  /\ WriteSeed(Pretend(s))' = WriteSeed(Pretend(s))
             /\ ~Early(s) => Plan(Pretend(s))' = Plan(Pretend(s))
  <2>1. done[s] # 0 /\ ~Unseeded(s)
    BY <1>2, <1>3 DEF AccessedInv, Early, Unseeded
  <2>2. Pretend(s) \in Ranks /\ Fixed(Pretend(s))
    BY <1>3, <2>1, FixedForRank
  <2>3. seed[s] = WriteSeed(Pretend(s))
    BY <1>3 DEF PlanInv
  <2>4. ~Early(s) => WriteSeed(Pretend(s)) \in DOMAIN draws
    BY <1>2, <2>3 DEF AccessedInv
  <2>5. PICK f \in Ranks : f = Pretend(s)
    BY <2>2
  <2>6. /\ WriteSeed(f)' = WriteSeed(f)
        /\ ~Early(s) => Plan(f)' = Plan(f)
    BY <2>2, <2>4, <2>5, PlanKept
  <2>7. Pretend(s)' = f
    BY <1>1, <2>5
  <2> QED
    BY <2>5, <2>6, <2>7
<1>4. ASSUME Planned(s) PROVE WriteSeed(s)' \in DOMAIN draws'
  <2>1. ~Unseeded(s)
    BY <1>4 DEF Planned, Unseeded, Writing, Early
  <2> QED
    BY <1>4, <2>1, IsFixed, PlanKept DEF PlanInv
<1> QED
  BY <1>1, <1>3, <1>4 DEF PlanInv

\* A phase begins, or goes on with the numbers it has.
LEMMA PlanGoesOn ==
    ASSUME AInv, opt.random = 1, WellPhased(opt), NEW r \in Ranks, PlanInv(r), opt' = opt,
           \/ Begin(r) \/ TransferShuffled(r) \/ LeaveLoop(r) \/ Agreed(r) \/ WornOut(r)
           \/ Close(r)
    PROVE  PlanInv(r)'
<1>1. ShapeOK /\ AccessedInv(r)
  BY DEF AInv, TypeInv
<1>2. UNCHANGED <<randomSeed, seed, order, draws>>
  BY DEF Begin, TransferShuffled, LeaveLoop, Agreed, WornOut, Close, vars, param, numbers
<1>3. \A f \in Ranks : WriteSeed(f)' = WriteSeed(f) /\ Plan(f)' = Plan(f)
  <2>1. ASSUME NEW f \in Ranks PROVE WriteSeed(f)' = WriteSeed(f)
    BY <1>2 DEF WriteSeed
  <2>2. ASSUME NEW f \in Ranks PROVE Plan(f)' = Plan(f)
    <3>1. PICK s : s = draws[WriteSeed(f)]
      OBVIOUS
    <3>2. Plan(f) = OffsetArray(s, f) /\ Plan(f)' = OffsetArray(s, f)'
      BY <1>2, <2>1, <3>1 DEF Plan
    <3> QED
      BY <3>2, SameArray
  <2> QED
    BY <2>1, <2>2
<1>4. CASE Begin(r)
  <2>1. pc[r] = "next" /\ pc'[r] = "open" /\ done'[r] = done[r] + 1 /\ done[r] \in Nat
    BY <1>1, <1>4, OptionNumbers DEF Begin, Go, ShapeOK
  <2>2. Early(r)' /\ pc'[r] # "array" /\ (Writing(r)' <=> done[r] = 0)
    BY <2>1 DEF Early, Writing
  <2>3. Planned(r)' => Planned(r)
    BY <2>1, <2>2 DEF Planned, Writing, Early
  <2> QED
    BY <1>2, <1>3, <2>1, <2>2, <2>3 DEF PlanInv, Writing
<1>5. CASE ~Begin(r)
  <2>1. /\ pc[r] \in {"access", "agree", "resume", "close"} /\ done' = done
        /\ pc'[r] \in {"access", "agree", "resume", "close", "next"}
    BY <1>1, <1>5
       DEF TransferShuffled, LeaveLoop, Agreed, WornOut, Close, More, Go, vars, ShapeOK
  <2>2. done[r] # 0
    BY <1>1, <2>1 DEF AccessedInv
  <2>3. ~Early(r) /\ ~Early(r)' /\ Writing(r)' = Writing(r) /\ SeedsLast' = SeedsLast
    BY <2>1, <2>2 DEF Early, Writing, SeedsLast
  <2>4. Pretend(r)' = Pretend(r) /\ Planned(r)' = Planned(r)
    BY <1>2, <2>1, <2>3, SameSpots DEF Planned
  <2>5. PICK f \in Ranks : f = Pretend(r)
    BY <1>1, PretendIsRank DEF Pretend, ShapeOK
  <2>6. ASSUME SeedsLast \/ Writing(r)
        PROVE  seed[r] = WriteSeed(f) /\ order[r] = Plan(f)
    BY <2>3, <2>5, <2>6 DEF PlanInv
  <2>7. Planned(r) => WriteSeed(r)' \in DOMAIN draws'
    BY <1>2, <1>3 DEF PlanInv
  <2>8. pc'[r] \notin {"open", "seedWait"} /\ randomSeed' = randomSeed
    BY <1>2, <2>1
  <2>9. opt.seed # -1 => randomSeed'[r] = opt.seed
    BY <1>2 DEF PlanInv
  <2>10. ASSUME SeedsLast \/ Writing(r)
         PROVE  seed'[r] = WriteSeed(Pretend(r))' /\ order'[r] = Plan(Pretend(r))'
    <3>1. Pretend(r)' = f
      BY <2>4, <2>5
    <3>2. seed'[r] = WriteSeed(f)' /\ order'[r] = Plan(f)'
      BY <1>2, <1>3, <2>6, <2>10
    <3> QED
      BY <3>1, <3>2
  <2> QED
    BY <2>2, <2>1, <2>3, <2>4, <2>7, <2>8, <2>9, <2>10 DEF PlanInv
<1> QED
  BY <1>4, <1>5

\* The seed is that of the file: it is written with it.
LEMMA PlanSeed ==
    ASSUME AInv, opt.random = 1, WellPhased(opt), NEW r \in Ranks, MeetingsInv(r), PlanInv(r),
           opt' = opt, SeedByClock(r) \/ SeedKnown(r) \/ SeedGiven(r)
    PROVE  PlanInv(r)'
<1>1. /\ ShapeOK /\ AccessedInv(r) /\ SeedInv(r) /\ opt \in Options
      /\ done[r] \in 0 .. Len(opt.phases)
  BY DEF AInv, TypeInv, ShapeOK, SeedsOK
<1>2. /\ done' = done /\ done[r] # 0 /\ Early(r)' /\ order' = order /\ draws' = draws
      /\ pc[r] \in {"open", "seedWait"} /\ pc'[r] \in {"seedWait", "array"}
  BY <1>1 DEF SeedByClock, SeedKnown, SeedGiven, Opened, Go, Seeded, ShapeOK, AccessedInv, Early,
              param
<1>3. /\ Pretend(r)' = Pretend(r) /\ Writing(r)' = Writing(r) /\ SeedsLast' = SeedsLast
      /\ (Writing(r) \/ ~opt.filePerProc => Pretend(r) = r) /\ Pretend(r) \in Ranks
  BY <1>1, <1>2, SameSpots, ItsOwn, PretendIsRank DEF Writing, SeedsLast, Pretend
<1>4. Planned(r)' => Planned(r) /\ done[r] > 1
  BY <1>2, <1>3 DEF Planned, Writing
<1>5. CASE SeedByClock(r)
  <2>1. Writing(r) /\ opt.seed = -1 /\ randomSeed[r] = -1
    BY <1>2, <1>5, ClockFirst DEF SeedByClock
  <2>2. ~(done[r] > 1)
    BY <2>1 DEF Writing
  <2>3. CASE opt.filePerProc \/ r = 0
    <3>1. seed'[r] = randomSeed'[r] /\ pc'[r] = "array"
      BY <1>1, <1>5, <2>3 DEF SeedByClock, Srandom, Remember, Go, Seeded, ShapeOK
    <3>2. seed'[r] = WriteSeed(r)'
      BY <2>1, <2>3, <3>1 DEF WriteSeed
    <3>3. Pretend(r)' = r
      BY <1>3, <2>1
    <3>4. seed'[r] = WriteSeed(Pretend(r))'
      BY <3>2, <3>3
    <3> QED
      BY <1>2, <1>4, <2>1, <2>2, <3>1, <3>4 DEF PlanInv
  <2>4. CASE ~(opt.filePerProc \/ r = 0)
    <3>1. randomSeed' = randomSeed /\ pc'[r] = "seedWait"
      BY <1>1, <1>5, <2>4 DEF SeedByClock, Go, ShapeOK
    <3> QED
      BY <1>2, <1>4, <2>1, <2>2, <3>1 DEF PlanInv
  <2> QED
    BY <2>3, <2>4
<1>6. CASE SeedKnown(r)
  <2>1. Writing(r) /\ opt.seed = -1 /\ randomSeed[r] = -1 /\ ~opt.filePerProc /\ r # 0
    BY <1>1, <1>2, <1>6, ClockFirst DEF SeedKnown, SeedInv
  <2>2. ~(done[r] > 1)
    BY <2>1 DEF Writing
  <2>3. seed'[r] = randomSeed[0] /\ randomSeed'[0] = randomSeed[0] /\ pc'[r] = "array"
    BY <1>1, <1>6, <2>1, RankNumbers DEF SeedKnown, Srandom, Remember, Go, Seeded, ShapeOK
  <2>4. \A f : WriteSeed(f)' = randomSeed[0]
    BY <2>1, <2>3 DEF WriteSeed
  <2>5. seed'[r] = WriteSeed(Pretend(r))'
    BY <2>3, <2>4
  <2> QED
    BY <1>2, <1>4, <2>1, <2>2, <2>3, <2>5 DEF PlanInv
<1>7. CASE SeedGiven(r)
  <2>1. /\ randomSeed[r] # -1 /\ randomSeed' = randomSeed /\ pc[r] = "open" /\ pc'[r] = "array"
        /\ seed'[r] = IF opt.filePerProc THEN randomSeed[r] + Pretend(r) ELSE randomSeed[r]
    BY <1>1, <1>7 DEF SeedGiven, Opened, Srandom, FileSeed, Go, Seeded, ShapeOK, param
  <2>2. \A f : WriteSeed(f)' = WriteSeed(f)
    BY <2>1 DEF WriteSeed
  <2>3. Planned(r)' => WriteSeed(r)' \in DOMAIN draws'
    BY <1>2, <1>4, <2>2 DEF PlanInv
  <2>4. ASSUME SeedsLast \/ Writing(r) PROVE seed'[r] = WriteSeed(Pretend(r))
    <3>1. CASE ~opt.filePerProc
      BY <1>1, <2>1, <3>1 DEF SeedInv, WriteSeed
    <3>2. CASE opt.filePerProc
      <4>1. opt.seed # -1
        BY <2>1, <2>4, <3>2 DEF PlanInv, SeedsLast
      <4> QED
        BY <2>1, <3>2, <4>1 DEF PlanInv, WriteSeed
    <3> QED
      BY <3>1, <3>2
  <2>5. SeedsLast \/ Writing(r) => seed'[r] = WriteSeed(Pretend(r))'
    <3>1. PICK f : f = Pretend(r)
      OBVIOUS
    <3>2. WriteSeed(f)' = WriteSeed(f) /\ Pretend(r)' = f
      BY <1>3, <2>2, <3>1
    <3> QED
      BY <2>4, <3>1, <3>2
  <2> QED
    BY <1>2, <1>3, <2>1, <2>3, <2>5 DEF PlanInv
<1> QED
  BY <1>5, <1>6, <1>7

\* The array is the plan of the file, for its writer as for who reads it.
LEMMA PlanShuffle ==
    ASSUME AInv, opt.random = 1, WellPhased(opt), NEW r \in Ranks, PlanInv(r), opt' = opt,
           Shuffle(r)
    PROVE  PlanInv(r)'
<1>1. TypeInv /\ ShapeOK /\ AccessedInv(r) /\ opt \in Options /\ done[r] \in 0 .. Len(opt.phases)
  BY DEF AInv, TypeInv, ShapeOK
<1>2. /\ pc[r] = "array" /\ pc'[r] = "access" /\ done' = done /\ done[r] # 0
      /\ randomSeed' = randomSeed /\ seed' = seed
  BY <1>1 DEF Shuffle, Go, ShapeOK, param, AccessedInv
<1>3. PICK s : /\ draws' = Put(draws, seed[r], s)
               /\ order' = [order EXCEPT ![r] = OffsetArray(s, Pretend(r))]
  BY <1>1, ShuffleTypes
<1>4. draws'[seed[r]] = s /\ seed[r] \in DOMAIN draws' /\ order'[r] = OffsetArray(s, Pretend(r))
  BY <1>1, <1>3 DEF Put, ShapeOK
<1>5. ~Early(r)' /\ SeedsLast' = SeedsLast /\ Writing(r)' = Writing(r)
  BY <1>2 DEF Early, SeedsLast, Writing
<1>6. /\ Pretend(r)' = Pretend(r) /\ Pretend(r) \in Ranks
      /\ Writing(r) => Pretend(r) = r
  BY <1>1, <1>2, ItsOwn, PretendIsRank DEF Pretend, PretendRank, RankOffset, Doing
<1>7. \A f : WriteSeed(f)' = WriteSeed(f)
  BY <1>2 DEF WriteSeed
<1>8. PICK f \in Ranks : f = Pretend(r)
  BY <1>6
<1>9. ASSUME SeedsLast \/ Writing(r)
      PROVE  seed[r] = WriteSeed(f) /\ seed'[r] = WriteSeed(f)' /\ order'[r] = Plan(f)'
  <2>1. seed[r] = WriteSeed(f)
    BY <1>2, <1>8, <1>9 DEF PlanInv
  <2>2. WriteSeed(f)' = seed[r]
    BY <1>7, <2>1
  <2>3. Plan(f)' = OffsetArray(s, f)'
    BY <1>4, <2>2 DEF Plan
  <2>4. OffsetArray(s, f)' = OffsetArray(s, f)
    BY SameArray
  <2> QED
    BY <1>2, <1>4, <1>8, <2>1, <2>2, <2>3, <2>4
<1>10. SeedsLast \/ Writing(r) =>
          seed'[r] = WriteSeed(Pretend(r))' /\ order'[r] = Plan(Pretend(r))'
  <2>1. Pretend(r)' = f
    BY <1>6, <1>8
  <2> QED
    BY <1>9, <2>1
<1>11. WriteSeed(r)' \in DOMAIN draws' \/ ~Planned(r)'
  <2>1. CASE Writing(r)
    BY <1>4, <1>6, <1>7, <1>8, <1>9, <2>1
  <2>2. CASE ~Writing(r)
    <3>1. Planned(r)' => Planned(r)
      BY <1>2, <1>5, <2>2 DEF Planned
    <3>2. \A n \in DOMAIN draws : n \in DOMAIN draws'
      BY <1>3 DEF Put
    <3> QED
      BY <1>7, <3>1, <3>2 DEF PlanInv
  <2> QED
    BY <2>1, <2>2
<1>12. opt.seed # -1 => randomSeed'[r] = opt.seed
  BY <1>2 DEF PlanInv
<1> QED
  BY <1>2, <1>5, <1>10, <1>11, <1>12 DEF PlanInv

LEMMA PlanStep ==
    ASSUME AInv, opt.random = 1, WellPhased(opt), MeetInv, NEW r \in Ranks, ShuffledStep(r),
           opt' = opt, NEW s \in Ranks, PlanInv(s)
    PROVE  PlanInv(s)'
<1>1. ShapeOK /\ MeetingsInv(r)
  BY DEF AInv, TypeInv, MeetInv
<1>2. CASE s = r
  <2>1. CASE UNCHANGED vars
    <3>1. UNCHANGED <<pc, done, randomSeed, seed, order>>
      BY <2>1 DEF vars, numbers
    <3> QED
      BY <3>1, PlanFrame
  <2>2. CASE ~UNCHANGED vars
    BY <1>1, <1>2, <2>2, PlanGoesOn, PlanSeed, PlanShuffle DEF ShuffledStep
  <2> QED
    BY <2>1, <2>2
<1>3. CASE s # r
  BY <1>1, <1>3, OthersStay, PlanFrame
<1> QED
  BY <1>2, <1>3

LEMMA SameGoes ==
    ASSUME opt' = opt, NEW f, NEW q, NEW k
    PROVE  Goes(f, q, k)' = Goes(f, q, k)
BY SameOptions DEF Goes

\* The next transfer of a rank.
LEMMA NextGoes ==
    ASSUME TypeInv, opt.random = 1, NEW r \in Ranks, TransferShuffled(r)
    PROVE  /\ count'[r] = count[r] + 1
           /\ accessed'[r] = accessed[r] \cup {Goes(Pretend(r), order[r], count[r])}
           /\ content' = IF Doing(r) = "write"
                         THEN Put(content, Goes(Pretend(r), order[r], count[r]), Pretend(r))
                         ELSE content
           /\ Len(order[r]) \in Nat \ {0}
           /\ UNCHANGED <<opt, pc, done, limit, randomSeed, seed, draws, order, sent>>
<1>1. ShapeOK /\ Offsets(r) = Len(order[r]) /\ Len(order[r]) \in Nat
      /\ segmentCount[r] = opt.segments
  BY OnePassIs DEF TypeInv
<1> DEFINE n == Len(order[r])
           place == <<Name(r, Doing(r)),
                      order[r][(count[r] % n) + 1]
                         + ((count[r] \div n) % segmentCount[r]) * SegmentSize>>
<1>2. place = Goes(Pretend(r), order[r], count[r])
  BY <1>1 DEF Goes, Name, Pretend
<1>3. /\ count' = [count EXCEPT ![r] = @ + 1]
      /\ accessed' = [accessed EXCEPT ![r] = @ \cup {place}]
      /\ content' = IF Doing(r) = "write" THEN Put(content, place, Pretend(r)) ELSE content
  BY <1>1 DEF TransferShuffled, Access
<1> HIDE DEF place
<1>4. Len(order[r]) \in Nat \ {0}
  BY <1>1 DEF TransferShuffled
<1>5. UNCHANGED <<opt, pc, done, limit, randomSeed, seed, draws, order, sent>>
  BY DEF TransferShuffled, param, numbers
<1> QED
  BY <1>1, <1>2, <1>3, <1>4, <1>5 DEF ShapeOK

\* Where a rank has been is told by its array and its count.
LEMMA WentSame ==
    ASSUME opt' = opt, NEW r \in Ranks, WentInv(r), done'[r] = done[r],
           order'[r] = order[r] \/ count[r] = 0,
           count'[r] = count[r], accessed'[r] = accessed[r]
    PROVE  WentInv(r)'
<1>1. Pretend(r)' = Pretend(r)
  BY DEF Pretend, PretendRank, RankOffset, Doing
<1>2. CASE count[r] = 0
  BY <1>2 DEF WentInv
<1>3. CASE order'[r] = order[r]
  <2>1. PICK f, q, n : f = Pretend(r) /\ q = order[r] /\ n = count[r]
    OBVIOUS
  <2>2. accessed[r] = {Goes(f, q, k) : k \in 0 .. n - 1}
    BY <2>1 DEF WentInv
  <2>3. \A k : Goes(f, q, k)' = Goes(f, q, k)
    BY SameGoes
  <2>4. {Goes(f, q, k) : k \in 0 .. n - 1}' = {Goes(f, q, k) : k \in 0 .. n - 1}
    BY <2>3
  <2>5. Pretend(r)' = f /\ order'[r] = q /\ count'[r] = n
    BY <1>1, <1>3, <2>1
  <2> QED
    BY <2>2, <2>4, <2>5 DEF WentInv
<1> QED
  BY <1>2, <1>3

LEMMA WentStep ==
    ASSUME AInv, opt.random = 1, NEW r \in Ranks, ShuffledStep(r), opt' = opt,
           NEW s \in Ranks, WentInv(s)
    PROVE  WentInv(s)'
<1>1. TypeInv /\ ShapeOK /\ AccessedInv(s)
  BY DEF AInv, TypeInv
<1>2. CASE s # r
  BY <1>1, <1>2, OthersStay, WentSame
<1>3. CASE s = r /\ Begin(r)
  <2>1. count'[r] = 0 /\ accessed'[r] = {}
    BY <1>1, <1>3 DEF Begin, ShapeOK
  <2> QED
    BY <1>3, <2>1 DEF WentInv
<1>4. CASE s = r /\ TransferShuffled(r)
  <2>1. /\ count'[r] = count[r] + 1 /\ opt' = opt /\ order' = order /\ done' = done
        /\ accessed'[r] = accessed[r] \cup {Goes(Pretend(r), order[r], count[r])}
    BY <1>1, <1>4, NextGoes
  <2>2. Pretend(r)' = Pretend(r)
    BY <2>1 DEF Pretend, PretendRank, RankOffset, Doing
  <2>3. PICK f, q, n : f = Pretend(r) /\ q = order[r] /\ n = count[r]
    OBVIOUS
  <2>4. n \in Nat
    BY <1>1, <2>3 DEF ShapeOK
  <2>5. accessed[r] = {Goes(f, q, k) : k \in 0 .. n - 1}
    BY <1>4, <2>3 DEF WentInv
  <2>6. 0 .. (n + 1) - 1 = (0 .. n - 1) \cup {n}
    BY <2>4
  <2>7. accessed'[r] = {Goes(f, q, k) : k \in 0 .. (n + 1) - 1}
    BY <2>1, <2>3, <2>5, <2>6
  <2>8. \A k : Goes(f, q, k)' = Goes(f, q, k)
    BY <2>1, SameGoes
  <2>9. {Goes(f, q, k) : k \in 0 .. (n + 1) - 1}' = {Goes(f, q, k) : k \in 0 .. (n + 1) - 1}
    BY <2>8
  <2>10. Pretend(r)' = f /\ order'[r] = q /\ count'[r] = n + 1
    BY <2>1, <2>2, <2>3
  <2> QED
    BY <1>4, <2>7, <2>9, <2>10 DEF WentInv
<1>5. CASE s = r /\ Shuffle(r)
  <2>1. count[r] = 0
    BY <1>1, <1>5 DEF Shuffle, AccessedInv, Early
  <2>2. done' = done /\ count' = count /\ accessed' = accessed
    BY <1>5 DEF Shuffle
  <2> QED
    BY <1>5, <2>1, <2>2, WentSame
<1>6. CASE s = r /\ ~Begin(r) /\ ~TransferShuffled(r) /\ ~Shuffle(r)
  <2>1. UNCHANGED <<done, order, count, accessed>>
    BY <1>6 DEF ShuffledStep, SeedByClock, SeedKnown, SeedGiven, LeaveLoop, Agreed, WornOut,
                Close, vars, numbers
  <2> QED
    BY <1>6, <2>1, WentSame
<1> QED
  BY <1>2, <1>3, <1>4, <1>5, <1>6

\* There is a rank that has come farthest.
LEMMA LargestIs ==
    ASSUME ShapeOK
    PROVE  /\ \E t \in Ranks : Largest = sent[t]
           /\ \A t \in Ranks : sent[t] <= Largest
<1> DEFINE T == {n \in Nat : n < NumTasks =>
                    \E m \in 0 .. n : \A t \in 0 .. n : sent[t] <= sent[m]}
           N == NumTasks - 1
<1>1. N \in Nat /\ NumTasks \in Nat /\ Ranks = 0 .. N /\ sent \in [0 .. N -> Nat]
  BY RankNumbers DEF ShapeOK
<1>2. 0 \in T
  BY <1>1
<1>3. ASSUME NEW n \in 0 .. N - 1, n \in T PROVE n + 1 \in T
  <2>1. PICK m \in 0 .. n : \A t \in 0 .. n : sent[t] <= sent[m]
    BY <1>1, <1>3
  <2>2. n + 1 \in 0 .. N /\ 0 .. n + 1 = (0 .. n) \cup {n + 1} /\ 0 .. n + 1 \subseteq 0 .. N
    BY <1>1, <1>3
  <2>3. \A t \in 0 .. n + 1 : sent[t] \in Nat
    BY <1>1, <2>2
  <2>4. CASE sent[n + 1] <= sent[m]
    <3>1. \A t \in 0 .. n + 1 : sent[t] <= sent[m]
      BY <2>1, <2>2, <2>4
    <3> QED
      BY <1>1, <2>2, <3>1
  <2>5. CASE sent[m] <= sent[n + 1]
    <3>1. \A t \in 0 .. n + 1 : sent[t] <= sent[n + 1]
      BY <2>1, <2>2, <2>3, <2>5
    <3> QED
      BY <1>1, <2>2, <3>1
  <2> QED
    BY <2>2, <2>3, <2>4, <2>5
<1>4. N \in T
  <2> HIDE DEF T, N
  <2>1. \A n \in 0 .. N : n \in T
    BY <1>1, <1>2, <1>3, UpTo
  <2> QED
    BY <1>1, <2>1
<1>5. PICK m \in Ranks : \A t \in Ranks : sent[t] <= sent[m]
  BY <1>1, <1>4
<1>6. \E n \in {sent[t] : t \in Ranks} : \A t \in Ranks : sent[t] <= n
  BY <1>5
<1> QED
  BY <1>6 DEF Largest

LEMMA PlannedStays ==
    ASSUME AInv, opt.random = 1, NEW r \in Ranks, ShuffledStep(r), opt' = opt,
           NEW s \in Ranks, PlanInv(s), Planned(s)
    PROVE  Plan(s)' = Plan(s) /\ WriteSeed(s) \in DOMAIN draws
<1>1. ~Unseeded(s)
  BY DEF Planned, Unseeded, Writing, Early
<1> QED
  BY <1>1, IsFixed, PlanKept DEF PlanInv

\* The orders of the files have as many transfers as there are.
LEMMA PlanIs ==
    ASSUME AInv, opt.random = 1, NEW f \in Ranks, WriteSeed(f) \in DOMAIN draws
    PROVE  /\ Plan(f) \in Seq(0 .. SegmentSize - 1) /\ Len(Plan(f)) \in Nat
           /\ NoneTwice(Plan(f), Len(Plan(f)))
           /\ \A v : (\E i \in 1 .. Len(Plan(f)) : Plan(f)[i] = v)
                        <=> v \in Due(draws[WriteSeed(f)], f)
           /\ opt.filePerProc => Len(Plan(f)) = opt.transfers /\ Len(Plan(f)) # 0
<1>1. opt \in Options /\ draws[WriteSeed(f)] \in Streams
  BY DEF AInv, TypeInv, ShapeOK
<1>2. PICK c : c = Plan(f)
  OBVIOUS
<1>3. c = OffsetArray(draws[WriteSeed(f)], f)
  BY <1>2 DEF Plan
<1>4. /\ c \in Seq(0 .. SegmentSize - 1) /\ Len(c) \in Nat
      /\ NoneTwice(c, Len(c))
      /\ \A v : (\E i \in 1 .. Len(c) : c[i] = v) <=> v \in Due(draws[WriteSeed(f)], f)
      /\ opt.filePerProc => Len(c) = opt.transfers
  BY <1>1, <1>3, OffsetArrayIs
<1>5. opt.transfers # 0
  BY <1>1, OptionNumbers
<1> QED
  BY <1>2, <1>4, <1>5

\* A writer has the plan of its file as its array.
LEMMA WritersPlan ==
    ASSUME AInv, opt.random = 1, WellPhased(opt), NEW r \in Ranks, PlanInv(r), done[r] # 0,
           ~Early(r), Writing(r) \/ ~opt.filePerProc
    PROVE  order[r] = Plan(r) /\ Pretend(r) = r
<1>1. opt \in Options /\ done[r] \in 0 .. Len(opt.phases)
  BY DEF AInv, TypeInv, ShapeOK
<1>2. Pretend(r) = r
  BY <1>1, ItsOwn
<1>3. order[r] = Plan(Pretend(r))
  BY DEF PlanInv, SeedsLast
<1> QED
  BY <1>2, <1>3

\* With a stonewall a rank that has done nothing had nothing to do, and what
\* follows goes no further than the write.
LEMMA LimitTransfer ==
    ASSUME AInv, opt.random = 1, WellPhased(opt), MeetInv, opt.wearOut => WearInv,
           NEW r \in Ranks, PlanInv(r), LimitInv(r), TransferShuffled(r),
           done[r] > 1, opt.stonewall
    PROVE  count[r] + 1 <= limit[r]
<1>1. /\ ShapeOK /\ TypeInv /\ opt \in Options /\ count[r] \in Nat /\ limit[r] \in Nat
      /\ sent \in [Ranks -> Nat] /\ limit \in [Ranks -> Nat]
  BY DEF AInv, TypeInv, ShapeOK
<1>2. Len(order[r]) # 0 /\ More(r)
  BY <1>1, NextGoes DEF TransferShuffled
<1>3. ~Early(r) /\ Planned(r) /\ done[r] # 0
  BY <1>2 DEF More, Early, Planned
<1>4. limit[r] # 0
  <2>1. SUFFICES ASSUME limit[r] = 0 PROVE FALSE
    OBVIOUS
  <2>2. Len(Plan(r)) = 0
    BY <2>1 DEF LimitInv
  <2>3. ~opt.filePerProc
    BY <1>3, <2>2, PlanIs DEF PlanInv
  <2>4. order[r] = Plan(r)
    BY <1>3, <2>3, WritersPlan
  <2> QED
    BY <1>2, <2>2, <2>4
<1>5. CASE pc[r] = "access"
  BY <1>1, <1>2, <1>4, <1>5 DEF More
<1>6. CASE pc[r] = "resume"
  <2>1. opt.wearOut /\ WearInv
    BY <1>6 DEF MeetInv, MeetingsInv
  <2>2. PICK t \in Ranks : Largest = sent[t]
    BY <1>1, LargestIs
  <2>3. HasWritten(r) /\ HasWritten(t)
    BY <1>1, AllHaveWritten
  <2>4. sent[t] <= limit[t] /\ limit[t] = limit[r]
    BY <2>1, <2>3 DEF WearInv, WearRank
  <2>5. count[r] < Largest
    BY <1>2, <1>6 DEF More
  <2> QED
    BY <1>1, <2>2, <2>4, <2>5
<1> QED
  BY <1>2, <1>5, <1>6 DEF More

LEMMA LimitFrame ==
    ASSUME AInv, opt.random = 1, NEW r \in Ranks, ShuffledStep(r), opt' = opt,
           NEW s \in Ranks, PlanInv(s), LimitInv(s), pc'[s] = pc[s], done'[s] = done[s],
           limit'[s] = limit[s], count'[s] = count[s]
    PROVE  LimitInv(s)'
<1>1. Late(s) => Planned(s)
  <2>1. Late(s) => ~Early(s) /\ Writing(s)
    BY DEF Late, Early, Writing
  <2> QED
    BY <2>1 DEF Planned
<1>2. done[s] > 1 => Planned(s)
  BY DEF Planned
<1>3. Planned(s) => Plan(s)' = Plan(s)
  BY PlannedStays
<1> QED
  BY <1>1, <1>2, <1>3 DEF LimitInv, Late, Writing

LEMMA LimitRank ==
    ASSUME AInv, opt.random = 1, WellPhased(opt), MeetInv, opt.wearOut => WearInv,
           NEW r \in Ranks, ShuffledStep(r), opt' = opt, PlanInv(r), LimitInv(r)
    PROVE  LimitInv(r)'
<1>1. /\ ShapeOK /\ TypeInv /\ opt \in Options /\ count[r] \in Nat /\ limit[r] \in Nat
      /\ done[r] \in 0 .. Len(opt.phases) /\ opt.phases \in Seq(Phases)
      /\ AccessedInv(r) /\ MeetingsInv(r)
  BY OptionNumbers DEF AInv, TypeInv, ShapeOK, MeetInv
<1>2. done[r] \in Nat
  BY <1>1
<1>3. Planned(r) => Plan(r)' = Plan(r)
  BY PlannedStays
<1>4. CASE Begin(r)
  <2>1. /\ pc[r] = "next" /\ pc'[r] = "open" /\ done'[r] = done[r] + 1 /\ count'[r] = 0
        /\ done[r] < Len(opt.phases)
        /\ limit'[r] = IF opt.phases[done[r] + 1] = "write" THEN 0 ELSE limit[r]
    BY <1>1, <1>4 DEF Begin, Go, ShapeOK
  <2>2. opt.phases[done[r] + 1] = "write" <=> done[r] = 0
    <3>1. done[r] + 1 \in 1 .. Len(opt.phases)
      BY <1>1, <1>2, <2>1
    <3> QED
      BY <1>1, <1>2, <3>1, MeetingNumbers
  <2>3. ~Late(r)' /\ (Writing(r)' <=> done[r] = 0)
    BY <1>2, <2>1 DEF Late, Writing
  <2>4. ASSUME done[r] # 0, opt.stonewall, limit[r] = 0 PROVE Len(Plan(r)') = 0
    <3>1. Planned(r)
      BY <1>2, <2>1, <2>4 DEF Planned, Writing, Early
    <3>2. Len(Plan(r)) = 0
      <4>1. CASE done[r] > 1
        BY <2>4, <4>1 DEF LimitInv
      <4>2. CASE done[r] = 1
        BY <2>1, <2>4, <4>2 DEF LimitInv, Late, Writing
      <4> QED
        BY <1>2, <2>4, <4>1, <4>2
    <3> QED
      BY <1>3, <3>1, <3>2
  <2> QED
    BY <1>1, <1>2, <2>1, <2>2, <2>3, <2>4 DEF LimitInv, Writing
<1>5. CASE SeedByClock(r) \/ SeedKnown(r) \/ SeedGiven(r) \/ Shuffle(r)
  <2>1. /\ done' = done /\ count' = count /\ limit' = limit
        /\ pc[r] \in {"open", "seedWait", "array"}
        /\ pc'[r] \in {"seedWait", "array", "access"}
    BY <1>1, <1>5
       DEF SeedByClock, SeedKnown, SeedGiven, Shuffle, Opened, Go, Seeded, param, ShapeOK
  <2>2. ~Late(r)' /\ (Writing(r)' <=> Writing(r))
    BY <2>1 DEF Late, Writing
  <2>3. done[r] > 1 => Planned(r)
    BY DEF Planned
  <2> QED
    BY <1>3, <2>1, <2>2, <2>3 DEF LimitInv
<1>6. CASE TransferShuffled(r)
  <2>1. UNCHANGED <<pc, done, limit>> /\ count'[r] = count[r] + 1 /\ count'[r] # 0
    BY <1>1, <1>6, NextGoes
  <2>2. done[r] > 1 /\ opt.stonewall => count'[r] <= limit[r]
    BY <1>6, <2>1, LimitTransfer
  <2>3. done[r] > 1 => Planned(r)
    BY DEF Planned
  <2>4. pc[r] # "next"
    BY <1>6 DEF TransferShuffled, More
  <2>5. pc'[r] = pc[r] /\ done'[r] = done[r] /\ limit'[r] = limit[r]
        /\ (Writing(r)' <=> Writing(r))
    BY <2>1 DEF Writing
  <2> QED
    BY <1>3, <2>1, <2>2, <2>3, <2>4, <2>5 DEF LimitInv
<1>7. CASE LeaveLoop(r)
  <2>1. /\ UNCHANGED <<done, limit, count, order>> /\ pc[r] = "access"
        /\ pc'[r] \in {"agree", "close"}
        /\ ~More(r) \/ count[r] > 0
    BY <1>1, <1>7 DEF LeaveLoop, Go, param, numbers, ShapeOK
  <2>2. ~Early(r) /\ done[r] # 0
    BY <1>1, <2>1 DEF Early, AccessedInv
  <2>3. ASSUME Writing(r), count[r] = 0 PROVE Len(Plan(r)) = 0
    <3>1. limit[r] = 0 /\ ~(0 < OnePass(r))
      BY <2>1, <2>3 DEF LimitInv, More
    <3>2. OnePass(r) = opt.segments * Len(order[r]) /\ Len(order[r]) \in Nat
          /\ opt.segments \in Nat \ {0}
      BY <1>1, OnePassIs
    <3>3. order[r] = Plan(r)
      BY <2>2, <2>3, WritersPlan
    <3> DEFINE n == Len(order[r])
               S == opt.segments
    <3> HIDE DEF n, S
    <3>4. n \in Nat /\ S \in Nat \ {0} /\ ~(0 < S * n)
      BY <3>1, <3>2 DEF n, S
    <3>5. n = 0
      <4>1. n >= 1 => S * n >= S
        BY <3>4
      <4> QED
        BY <3>4, <4>1
    <3> QED
      BY <3>3, <3>5 DEF n
  <2>4. Writing(r) \/ done[r] > 1 => Planned(r)
    BY <2>2 DEF Planned
  <2>5. Writing(r)' <=> Writing(r)
    BY <2>1 DEF Writing
  <2> QED
    BY <1>3, <2>1, <2>3, <2>4, <2>5 DEF LimitInv, Late
<1>8. CASE Agreed(r) \/ WornOut(r)
  <2>1. /\ UNCHANGED <<done, limit, count>> /\ pc[r] \in {"agree", "resume"}
        /\ pc'[r] \in {"resume", "close"}
    BY <1>1, <1>8 DEF Agreed, WornOut, Go, param, ShapeOK
  <2>2. (Writing(r)' <=> Writing(r)) /\ (Late(r)' => Late(r))
    BY <2>1 DEF Writing, Late
  <2>3. Late(r) \/ done[r] > 1 => Planned(r)
    BY <2>1 DEF Planned, Late, Early
  <2> QED
    BY <1>3, <2>1, <2>2, <2>3 DEF LimitInv
<1>9. CASE Close(r)
  <2>1. /\ UNCHANGED <<done, count>> /\ pc[r] = "close" /\ pc'[r] = "next"
        /\ limit'[r] = IF opt.stonewall /\ Doing(r) = "write" THEN count[r] ELSE limit[r]
    BY <1>1, <1>9 DEF Close, Go, ShapeOK
  <2>2. done[r] # 0
    BY <1>1, <2>1 DEF AccessedInv
  <2>3. Writing(r) <=> Doing(r) = "write"
    BY <1>1, <2>2, ItsOwn
  <2>4. (Writing(r)' <=> Writing(r)) /\ (Late(r)' => Late(r))
    BY <2>1 DEF Writing, Late
  <2>5. Late(r) \/ done[r] > 1 => Planned(r)
    BY <2>1 DEF Planned, Late, Early
  <2>6. Writing(r) => ~(done[r] > 1)
    BY DEF Writing
  <2> QED
    BY <1>3, <2>1, <2>3, <2>4, <2>5, <2>6 DEF LimitInv
<1>10. CASE UNCHANGED vars
  <2>1. UNCHANGED <<pc, done, limit, count>>
    BY <1>10 DEF vars
  <2> QED
    BY <2>1, LimitFrame
<1> QED
  BY <1>4, <1>5, <1>6, <1>7, <1>8, <1>9, <1>10 DEF ShuffledStep

LEMMA SameLargest ==
    ASSUME sent' = sent
    PROVE  Largest' = Largest
BY DEF Largest

\* Nobody comes back to the write.
LEMMA NoWayBack ==
    ASSUME ShapeOK, NEW r \in Ranks, ShuffledStep(r), NEW s \in Ranks
    PROVE  /\ done[s] \in Nat
           /\ done'[s] = done[s] \/ (s = r /\ Begin(r) /\ done'[s] = done[s] + 1)
<1>1. opt \in Options
  BY DEF ShapeOK
<1>2. opt.phases \in Seq(Phases)
  BY <1>1, OptionNumbers
<1>3. done[s] \in 0 .. Len(opt.phases)
  BY DEF ShapeOK
<1>4. done[s] \in Nat
  BY <1>2, <1>3
<1>5. CASE s # r
  BY <1>4, <1>5, OthersStay
<1>6. CASE s = r /\ Begin(r)
  BY <1>4, <1>6 DEF Begin, ShapeOK
<1>7. CASE s = r /\ ~Begin(r)
  BY <1>4, <1>7
     DEF ShuffledStep, SeedByClock, SeedKnown, SeedGiven, Shuffle, TransferShuffled, LeaveLoop,
         Agreed, WornOut, Close, vars
<1> QED
  BY <1>5, <1>6, <1>7

LEMMA WearFrame ==
    ASSUME ShapeOK, MeetInv, opt.random = 1, WellPhased(opt), opt.wearOut,
           NEW r \in Ranks, ShuffledStep(r), NEW s \in Ranks, WearRank(s),
           pc'[s] = pc[s], done'[s] = done[s], limit'[s] = limit[s], count'[s] = count[s],
           sent'[s] = sent[s]
    PROVE  WearRank(s)'
<1>1. AllWriting' => AllWriting
  <2>1. SUFFICES ASSUME AllWriting', NEW t \in Ranks PROVE done[t] <= 1
    BY DEF AllWriting
  <2>2. done'[t] <= 1
    BY <2>1 DEF AllWriting
  <2> QED
    BY <2>2, NoWayBack
<1>2. /\ Writing(s)' = Writing(s) /\ Late(s)' = Late(s) /\ HasWritten(s)' = HasWritten(s)
  BY DEF Writing, Late, HasWritten
<1>3. CASE sent' = sent
  <2>1. Largest' = Largest
    BY <1>3, SameLargest
  <2> QED
    BY <1>1, <1>2, <2>1 DEF WearRank
<1>4. CASE sent' # sent
  <2>1. LeaveLoop(r)
    BY <1>4 DEF ShuffledStep, Begin, SeedByClock, SeedKnown, SeedGiven, Shuffle,
                TransferShuffled, Agreed, WornOut, Close, vars
  <2>2. ~(AllWriting' /\ Writing(s)' /\ pc'[s] \in {"resume", "close", "next"})
    <3>1. SUFFICES ASSUME AllWriting', Writing(s)', pc'[s] \in {"resume", "close", "next"}
                   PROVE  FALSE
      OBVIOUS
    <3>2. AllWriting /\ Writing(s) /\ pc[s] \in {"resume", "close", "next"}
      BY <1>1, <1>2, <3>1
    <3>3. done[r] > 1 \/ pc[r] \in {"agree", "resume", "close", "next"}
      BY <3>2, AllHaveAgreed
    <3>4. pc[r] = "access" /\ done[r] <= 1 /\ done[r] \in Nat
      BY <2>1, <3>2, NoWayBack DEF LeaveLoop, AllWriting
    <3> QED
      BY <3>3, <3>4
  <2> QED
    BY <1>2, <2>2 DEF WearRank
<1> QED
  BY <1>3, <1>4

\* The ranks agree on how far they all write.
LEMMA WearOwn ==
    ASSUME AInv, opt.random = 1, WellPhased(opt), MeetInv, opt.wearOut, WearInv,
           NEW r \in Ranks, ShuffledStep(r), opt' = opt, \A s \in Ranks : LimitInv(s)
    PROVE  /\ WearRank(r)'
           /\ HasWritten(r)' =>
                 \/ HasWritten(r) /\ limit'[r] = limit[r]
                 \/ \A s \in Ranks \ {r} : HasWritten(s) => limit[s] = limit'[r]
<1>1. /\ ShapeOK /\ TypeInv /\ opt \in Options /\ count[r] \in Nat /\ sent[r] \in Nat
      /\ limit[r] \in Nat /\ AccessedInv(r) /\ WearRank(r) /\ opt.stonewall
  BY OptionNumbers DEF AInv, TypeInv, ShapeOK, WearInv
<1>2. done[r] \in Nat /\ done[r] \in 0 .. Len(opt.phases)
  BY <1>1, NoWayBack DEF ShapeOK
<1>3. AllWriting' => AllWriting
  <2>1. SUFFICES ASSUME AllWriting', NEW t \in Ranks PROVE done[t] <= 1
    BY DEF AllWriting
  <2>2. done'[t] <= 1
    BY <2>1 DEF AllWriting
  <2> QED
    BY <1>1, <2>2, NoWayBack
<1>4. ASSUME sent' = sent PROVE Largest' = Largest
  BY <1>4, SameLargest
<1>5. CASE Begin(r)
  <2>1. /\ pc[r] = "next" /\ pc'[r] = "open" /\ done'[r] = done[r] + 1 /\ sent' = sent
        /\ done[r] < Len(opt.phases)
        /\ limit'[r] = IF opt.phases[done[r] + 1] = "write" THEN 0 ELSE limit[r]
    BY <1>1, <1>5 DEF Begin, Go, ShapeOK
  <2>2. opt.phases[done[r] + 1] = "write" <=> done[r] = 0
    <3>1. done[r] + 1 \in 1 .. Len(opt.phases)
      BY <1>1, <1>2, <2>1, OptionNumbers
    <3> QED
      BY <1>1, <1>2, <3>1, MeetingNumbers
  <2>3. ~Late(r)' /\ pc'[r] \notin {"agree", "resume", "close", "next"}
    BY <2>1 DEF Late
  <2>4. HasWritten(r)' => HasWritten(r) /\ limit'[r] = limit[r]
    BY <1>2, <2>1, <2>2 DEF HasWritten
  <2> QED
    BY <1>1, <2>1, <2>3, <2>4 DEF WearRank
<1>6. CASE SeedByClock(r) \/ SeedKnown(r) \/ SeedGiven(r) \/ Shuffle(r)
  <2>1. /\ done' = done /\ limit' = limit /\ sent' = sent
        /\ pc[r] \in {"open", "seedWait", "array"}
        /\ pc'[r] \in {"seedWait", "array", "access"}
    BY <1>1, <1>6
       DEF SeedByClock, SeedKnown, SeedGiven, Shuffle, Opened, Go, Seeded, param, ShapeOK
  <2>2. ~Late(r)' /\ (HasWritten(r)' <=> HasWritten(r))
    BY <2>1 DEF Late, HasWritten
  <2> QED
    BY <1>1, <2>1, <2>2 DEF WearRank
<1>7. CASE TransferShuffled(r)
  <2>1. /\ UNCHANGED <<pc, done, limit, sent>> /\ count'[r] = count[r] + 1
        /\ pc[r] \in {"access", "resume"} /\ (pc[r] = "resume" => count[r] < Largest)
    BY <1>1, <1>7, NextGoes DEF TransferShuffled, More
  <2>2. /\ Late(r)' = Late(r) /\ HasWritten(r)' = HasWritten(r) /\ Writing(r)' = Writing(r)
        /\ Largest' = Largest
    BY <1>4, <2>1 DEF Late, HasWritten, Writing
  <2>3. Largest \in Nat
    <3>1. PICK t \in Ranks : Largest = sent[t]
      BY <1>1, LargestIs
    <3> QED
      BY <1>1, <3>1 DEF ShapeOK
  <2>4. Late(r) => sent[r] <= count[r] + 1
    BY <1>1 DEF WearRank
  <2>5. pc[r] = "resume" => count[r] + 1 <= Largest
    BY <1>1, <2>1, <2>3
  <2>6. HasWritten(r) => sent[r] <= limit[r]
    BY <1>1 DEF WearRank
  <2> QED
    BY <2>1, <2>2, <2>4, <2>5, <2>6 DEF WearRank
<1>8. CASE LeaveLoop(r)
  <2>1. /\ UNCHANGED <<done, limit, count>> /\ pc[r] = "access" /\ pc'[r] = "agree"
        /\ sent'[r] = count[r]
    BY <1>1, <1>8 DEF LeaveLoop, Go, param, ShapeOK
  <2>2. HasWritten(r)' = HasWritten(r) /\ (HasWritten(r) => done[r] > 1)
    BY <2>1 DEF HasWritten
  <2>3. HasWritten(r) => count[r] <= limit[r]
    BY <1>1, <2>2 DEF LimitInv
  <2> QED
    BY <1>1, <2>1, <2>2, <2>3 DEF WearRank
<1>9. CASE Agreed(r)
  <2>1. /\ UNCHANGED <<done, limit, count, sent>> /\ pc[r] = "agree" /\ pc'[r] = "resume"
    BY <1>1, <1>9 DEF Agreed, Go, param, ShapeOK
  <2>2. /\ Late(r)' = Late(r) /\ HasWritten(r)' = HasWritten(r) /\ Writing(r)' = Writing(r)
        /\ Largest' = Largest
    BY <1>4, <2>1 DEF Late, HasWritten, Writing
  <2>3. sent[r] <= Largest
    BY <1>1, LargestIs
  <2> QED
    BY <1>1, <2>1, <2>2, <2>3 DEF WearRank
<1>10. CASE WornOut(r)
  <2>1. /\ UNCHANGED <<done, limit, count, sent>> /\ pc[r] = "resume" /\ pc'[r] = "close"
        /\ ~(count[r] < Largest)
    BY <1>1, <1>10 DEF WornOut, Go, More, param, ShapeOK
  <2>2. /\ Late(r)' = Late(r) /\ HasWritten(r)' = HasWritten(r) /\ Writing(r)' = Writing(r)
        /\ Largest' = Largest
    BY <1>4, <2>1 DEF Late, HasWritten, Writing
  <2>3. Largest \in Nat
    <3>1. PICK t \in Ranks : Largest = sent[t]
      BY <1>1, LargestIs
    <3> QED
      BY <1>1, <3>1 DEF ShapeOK
  <2>4. AllWriting /\ Writing(r) => count[r] = Largest
    BY <1>1, <2>1, <2>3 DEF WearRank
  <2> QED
    BY <1>1, <1>3, <2>1, <2>2, <2>4 DEF WearRank
<1>11. CASE Close(r)
  <2>1. /\ UNCHANGED <<done, count, sent>> /\ pc[r] = "close" /\ pc'[r] = "next"
        /\ limit'[r] = IF Doing(r) = "write" THEN count[r] ELSE limit[r]
    BY <1>1, <1>11 DEF Close, Go, ShapeOK
  <2>2. done[r] # 0
    BY <1>1, <2>1 DEF AccessedInv
  <2>3. Writing(r) <=> Doing(r) = "write"
    BY <1>1, <1>2, <2>2, ItsOwn
  <2>4. (Writing(r)' <=> Writing(r)) /\ (Late(r)' <=> Late(r)) /\ Largest' = Largest
    BY <1>4, <2>1 DEF Writing, Late
  <2>5. CASE Writing(r)
    <3>1. limit'[r] = count[r] /\ Late(r) /\ sent[r] <= count[r]
      BY <1>1, <2>1, <2>3, <2>5 DEF Late, WearRank
    <3>2. AllWriting /\ \A s \in Ranks : done[s] \in Nat
      <4>1. ~HasWritten(r)
        BY <2>1, <2>5 DEF HasWritten, Writing
      <4>2. \A s \in Ranks : ~(done[s] > 1)
        BY <1>1, <4>1, AllHaveWritten
      <4> QED
        BY <1>1, <4>2, NoWayBack DEF AllWriting
    <3>3. count[r] = Largest
      BY <1>1, <2>1, <2>5, <3>2 DEF WearRank
    <3>4. ASSUME NEW s \in Ranks, HasWritten(s) PROVE limit[s] = limit'[r]
      <4>1. Writing(s) /\ pc[s] = "next"
        BY <3>2, <3>4 DEF HasWritten, Writing, AllWriting
      <4>2. count[s] = Largest
        BY <3>2, <4>1 DEF WearInv, WearRank
      <4>3. limit[s] = count[s]
        BY <1>1, <4>1 DEF LimitInv
      <4> QED
        BY <3>1, <3>3, <4>2, <4>3
    <3> QED
      BY <1>1, <1>3, <2>1, <2>4, <2>5, <3>1, <3>3, <3>4 DEF WearRank
  <2>6. CASE ~Writing(r)
    <3>1. HasWritten(r) /\ limit'[r] = limit[r]
      BY <1>2, <2>1, <2>2, <2>3, <2>6 DEF HasWritten, Writing
    <3> QED
      BY <1>1, <2>1, <2>4, <2>6, <3>1 DEF WearRank, Late
  <2> QED
    BY <2>5, <2>6
<1>12. CASE UNCHANGED vars
  <2>1. UNCHANGED <<pc, done, limit, count, sent>>
    BY <1>12 DEF vars
  <2>2. HasWritten(r)' = HasWritten(r)
    BY <2>1 DEF HasWritten
  <2> QED
    BY <1>1, <2>1, <2>2, WearFrame
<1> QED
  BY <1>5, <1>6, <1>7, <1>8, <1>9, <1>10, <1>11, <1>12 DEF ShuffledStep

LEMMA WearStep ==
    ASSUME AInv, opt.random = 1, WellPhased(opt), MeetInv, opt.wearOut, WearInv,
           NEW r \in Ranks, ShuffledStep(r), opt' = opt, \A s \in Ranks : LimitInv(s)
    PROVE  WearInv'
<1>1. ShapeOK
  BY DEF AInv, TypeInv
<1>2. /\ WearRank(r)'
      /\ HasWritten(r)' => \/ HasWritten(r) /\ limit'[r] = limit[r]
                           \/ \A s \in Ranks \ {r} : HasWritten(s) => limit[s] = limit'[r]
  BY WearOwn
<1>3. ASSUME NEW s \in Ranks \ {r}
      PROVE  WearRank(s)' /\ HasWritten(s)' = HasWritten(s) /\ limit'[s] = limit[s]
  <2>1. /\ pc'[s] = pc[s] /\ done'[s] = done[s] /\ limit'[s] = limit[s]
        /\ count'[s] = count[s] /\ sent'[s] = sent[s] /\ WearRank(s)
    BY <1>1, OthersStay DEF WearInv
  <2> QED
    BY <1>1, <2>1, WearFrame DEF HasWritten
<1>4. ASSUME NEW s \in Ranks, NEW t \in Ranks, HasWritten(s)', HasWritten(t)'
      PROVE  limit'[s] = limit'[t]
  <2>1. CASE s = r /\ t # r
    BY <1>2, <1>3, <1>4, <2>1 DEF WearInv
  <2>2. CASE s # r /\ t = r
    BY <1>2, <1>3, <1>4, <2>2 DEF WearInv
  <2>3. CASE s # r /\ t # r
    BY <1>3, <1>4, <2>3 DEF WearInv
  <2> QED
    BY <2>1, <2>2, <2>3
<1> QED
  BY <1>2, <1>3, <1>4 DEF WearInv

\* Two ranks do not write the same.
LEMMA GoesApart ==
    ASSUME AInv, opt.random = 1, NEW f \in Ranks, NEW g \in Ranks, f # g,
           WriteSeed(f) \in DOMAIN draws, WriteSeed(g) \in DOMAIN draws,
           Len(Plan(f)) # 0, Len(Plan(g)) # 0, NEW k \in Nat, NEW l \in Nat
    PROVE  Goes(f, Plan(f), k) # Goes(g, Plan(g), l)
<1>1. CASE opt.filePerProc
  BY <1>1 DEF Goes
<1>2. CASE ~opt.filePerProc
  <2> DEFINE d == draws[randomSeed[0]]
             L == SegmentSize
             S == opt.segments
  <2>1. opt \in Options /\ L \in Nat \ {0} /\ S \in Nat \ {0}
    BY OptionNumbers DEF AInv, TypeInv, ShapeOK
  <2>2. PICK p, q : p = Plan(f) /\ q = Plan(g)
    OBVIOUS
  <2>3. /\ p \in Seq(0 .. L - 1) /\ q \in Seq(0 .. L - 1)
        /\ \A v : (\E i \in 1 .. Len(p) : p[i] = v) <=> v \in Due(d, f)
        /\ \A v : (\E i \in 1 .. Len(q) : q[i] = v) <=> v \in Due(d, g)
    BY <1>2, <2>2, PlanIs DEF WriteSeed
  <2>4. Len(p) \in Nat \ {0} /\ Len(q) \in Nat \ {0}
    BY <2>2, <2>3
  <2> DEFINE i == (k % Len(p)) + 1
             j == (l % Len(q)) + 1
             y == (k \div Len(p)) % S
             z == (l \div Len(q)) % S
  <2>5. i \in 1 .. Len(p) /\ j \in 1 .. Len(q) /\ y \in Nat /\ z \in Nat
    <3>1. ASSUME NEW n \in Nat \ {0}, NEW m \in Nat, NEW s \in Nat \ {0}
          PROVE  (m % n) + 1 \in 1 .. n /\ (m \div n) % s \in Nat
      <4> DEFINE e == m % n
                 c == m \div n
      <4>1. e \in 0 .. n - 1 /\ c \in Nat
        BY Divided
      <4> HIDE DEF e, c
      <4>2. e + 1 \in 1 .. n /\ (c % s) \in 0 .. s - 1
        BY <4>1, Divided
      <4>3. c % s \in Nat
        BY <4>2
      <4> QED
        BY <4>2, <4>3 DEF e, c
    <3> HIDE DEF S
    <3> QED
      BY <2>1, <2>4, <3>1
  <2>6. Goes(f, p, k)[2] = p[i] + y * L /\ Goes(g, q, l)[2] = q[j] + z * L
    BY DEF Goes
  <2> HIDE DEF i, j, y, z
  <2> DEFINE v == p[i]
             w == q[j]
  <2>7. v \in 0 .. L - 1 /\ w \in 0 .. L - 1
    <3>1. ASSUME NEW T, NEW e \in Seq(T), NEW m \in 1 .. Len(e) PROVE e[m] \in T
      OBVIOUS
    <3> QED
      BY <2>3, <2>5, <3>1
  <2>8. v \in Due(d, f) /\ w \in Due(d, g)
    BY <2>3, <2>5
  <2>9. v # w
    BY <1>2, <2>8 DEF Due
  <2> HIDE DEF v, w, L
  <2>10. v + y * L # w + z * L
    <3>1. v + L * y # w + L * z
      BY <2>1, <2>5, <2>7, <2>9, SameMultiple
    <3>2. L * y = y * L /\ L * z = z * L
      BY <2>1, <2>5
    <3> QED
      BY <3>1, <3>2
  <2>11. Goes(f, p, k) # Goes(g, q, l)
    BY <2>6, <2>10 DEF v, w
  <2> QED
    BY <2>2, <2>11
<1> QED
  BY <1>1, <1>2

\* What is written has been planned.
LEMMA WrotePlanned ==
    ASSUME AInv, opt.random = 1, MeetInv, NEW f \in Ranks, Wrote(f) # 0
    PROVE  Planned(f)
<1>1. ShapeOK /\ AccessedInv(f) /\ MeetingsInv(f)
  BY DEF AInv, TypeInv, MeetInv
<1>2. CASE done[f] > 1
  BY <1>2 DEF Planned
<1>3. CASE ~(done[f] > 1)
  <2>1. done[f] \in Nat
    BY <1>1, OptionNumbers DEF ShapeOK
  <2>2. count[f] # 0
    BY <1>3, <2>1 DEF Wrote
  <2>3. ~Early(f)
    BY <1>1, <2>2 DEF AccessedInv
  <2>4. done[f] # 0
    BY <1>1, <2>3 DEF MeetingsInv, Early
  <2> QED
    BY <1>3, <2>1, <2>3, <2>4 DEF Planned, Writing
<1> QED
  BY <1>2, <1>3

LEMMA WroteSame ==
    ASSUME AInv, opt.random = 1, MeetInv, NEW r \in Ranks, ShuffledStep(r), opt' = opt,
           NEW f \in Ranks, PlanInv(f), done'[f] = done[f], count'[f] = count[f] \/ done[f] > 1,
           limit'[f] = limit[f] \/ done[f] <= 1
    PROVE  /\ Wrote(f)' = Wrote(f)
           /\ Wrote(f) # 0 => Plan(f)' = Plan(f)
<1>1. done[f] \in Nat
  BY NoWayBack DEF AInv, TypeInv
<1>2. Planned(f) => Plan(f)' = Plan(f)
  BY PlannedStays
<1>3. done[f] > 1 => Planned(f)
  BY DEF Planned
<1>4. Wrote(f)' = Wrote(f)
  BY <1>1, <1>2, <1>3 DEF Wrote
<1> QED
  BY <1>2, <1>4, WrotePlanned

LEMMA WrittenIs ==
    ASSUME opt' = opt, NEW f, NEW q, NEW n, Wrote(f)' = n, n # 0 => Plan(f)' = q,
           n # 0 => n \in Nat /\ Len(q) # 0,
           \A k \in 0 .. n - 1 : Goes(f, q, k) \in DOMAIN content' /\ content'[Goes(f, q, k)] = f
    PROVE  WrittenInv(f)'
<1>1. CASE n = 0
  BY <1>1 DEF WrittenInv
<1>2. CASE n # 0
  <2>1. \A k : Goes(f, q, k)' = Goes(f, q, k)
    BY SameGoes
  <2>2. ASSUME NEW k \in 0 .. n - 1
        PROVE  /\ Len(Plan(f)') # 0 /\ Goes(f, Plan(f), k)' \in DOMAIN content'
               /\ content'[Goes(f, Plan(f), k)'] = f
    <3>1. Goes(f, Plan(f), k)' = Goes(f, q, k)'
      BY <1>2
    <3>2. Goes(f, Plan(f), k)' = Goes(f, q, k)
      BY <2>1, <3>1
    <3> QED
      BY <1>2, <3>2
  <2> QED
    BY <2>2 DEF WrittenInv
<1> QED
  BY <1>1, <1>2

LEMMA WroteIsNat ==
    ASSUME AInv, opt.random = 1, NEW f \in Ranks, PlanInv(f)
    PROVE  Wrote(f) \in Nat
<1>1. /\ ShapeOK /\ opt \in Options /\ count[f] \in Nat /\ limit[f] \in Nat
      /\ opt.segments \in Nat
  BY OptionNumbers DEF AInv, TypeInv, ShapeOK
<1>2. done[f] \in Nat
  BY <1>1, OptionNumbers DEF ShapeOK
<1>3. ASSUME done[f] > 1 PROVE opt.segments * Len(Plan(f)) \in Nat
  <2>1. Len(Plan(f)) \in Nat
    BY <1>3, PlanIs DEF PlanInv, Planned
  <2> DEFINE n == Len(Plan(f))
  <2> HIDE DEF n
  <2>2. opt.segments * n \in Nat
    BY <1>1, <2>1 DEF n
  <2> QED
    BY <2>2 DEF n
<1> QED
  BY <1>1, <1>2, <1>3 DEF Wrote

\* What has been written stays when no rank writes over it.
LEMMA WrittenStays ==
    ASSUME AInv, opt.random = 1, MeetInv, opt' = opt,
           NEW f \in Ranks, PlanInv(f), WrittenInv(f), Wrote(f)' = Wrote(f),
           Wrote(f) # 0 => Plan(f)' = Plan(f),
           \A k \in 0 .. Wrote(f) - 1 : LET p == Goes(f, Plan(f), k)
                                        IN  p \in DOMAIN content' /\ content'[p] = content[p]
    PROVE  WrittenInv(f)'
<1>1. PICK q, n : q = Plan(f) /\ n = Wrote(f)
  OBVIOUS
<1>2. n \in Nat
  BY <1>1, WroteIsNat
<1>3. ASSUME n # 0 PROVE Len(q) # 0
  <2>1. 0 \in 0 .. Wrote(f) - 1
    BY <1>1, <1>2, <1>3
  <2> QED
    BY <1>1, <2>1 DEF WrittenInv
<1>4. \A k \in 0 .. n - 1 : Goes(f, q, k) \in DOMAIN content' /\ content'[Goes(f, q, k)] = f
  BY <1>1 DEF WrittenInv
<1>5. Wrote(f)' = n /\ (n # 0 => Plan(f)' = q)
  BY <1>1
<1> QED
  BY <1>2, <1>3, <1>4, <1>5, WrittenIs

\* A file is made empty before anything is in it.
LEMMA WrittenBegin ==
    ASSUME AInv, opt.random = 1, WellPhased(opt), MeetInv,
           NEW r \in Ranks, ShuffledStep(r), Begin(r), opt' = opt,
           \A s \in Ranks : PlanInv(s) /\ LimitInv(s) /\ WrittenInv(s), NEW f \in Ranks
    PROVE  WrittenInv(f)'
<1>1. /\ ShapeOK /\ TypeInv /\ opt \in Options /\ done[r] \in 0 .. Len(opt.phases)
      /\ AccessedInv(r) /\ AccessedInv(f) /\ done[r] \in Nat /\ done[f] \in Nat
      /\ PlanInv(f) /\ PlanInv(r) /\ WrittenInv(f)
  BY NoWayBack DEF AInv, TypeInv, ShapeOK
<1>2. /\ pc[r] = "next" /\ done'[r] = done[r] + 1 /\ count'[r] = 0 /\ done[r] < Len(opt.phases)
      /\ opt.phases[done[r] + 1] = "write" <=> done[r] = 0
  <2>1. /\ pc[r] = "next" /\ done'[r] = done[r] + 1 /\ count'[r] = 0
        /\ done[r] < Len(opt.phases)
    BY <1>1 DEF Begin, ShapeOK
  <2>2. done[r] + 1 \in 1 .. Len(opt.phases)
    BY <1>1, <2>1, OptionNumbers
  <2> QED
    BY <1>1, <2>1, <2>2, MeetingNumbers
<1>3. CASE f # r
  <2>1. Wrote(f)' = Wrote(f) /\ (Wrote(f) # 0 => Plan(f)' = Plan(f))
    BY <1>1, <1>3, OthersStay, WroteSame
  <2>2. CASE Wrote(f) = 0
    BY <1>1, <2>1, <2>2, WrittenStays
  <2>3. CASE done[r] # 0
    <3>1. content' = content
      BY <1>2, <2>3 DEF Begin
    <3> QED
      BY <1>1, <2>1, <3>1, WrittenStays DEF WrittenInv
  <2>4. CASE done[r] = 0 /\ Wrote(f) # 0
    <3>1. content' = [p \in DOMAIN content \ Places(Name(r, "write")) |-> content[p]]
      BY <1>2, <2>4 DEF Begin
    <3>2. opt.filePerProc
      <4>1. SUFFICES ASSUME ~opt.filePerProc PROVE FALSE
        OBVIOUS
      <4>2. done[f] = 0 \/ (Writing(f) /\ pc[f] = "open")
        BY <1>1, <2>4, NobodyYet
      <4>3. ~Planned(f)
        BY <4>2 DEF Planned, Writing, Early
      <4> QED
        BY <2>4, <4>3, WrotePlanned
    <3>3. Name(r, "write") = r
      <4>1. ASSUME NEW n \in Nat \ {0}, NEW k \in 0 .. n - 1 PROVE (k + 0) % n = k
        OBVIOUS
      <4> QED
        BY <3>2, <4>1, RankNumbers DEF Name, PretendRank, RankOffset
    <3>4. \A k : Goes(f, Plan(f), k) \notin Places(Name(r, "write"))
      BY <1>3, <3>2, <3>3 DEF Goes, Places
    <3>5. \A k \in 0 .. Wrote(f) - 1 :
             /\ Goes(f, Plan(f), k) \in DOMAIN content'
             /\ content'[Goes(f, Plan(f), k)] = content[Goes(f, Plan(f), k)]
      BY <1>1, <3>1, <3>4 DEF WrittenInv
    <3> QED
      BY <1>1, <2>1, <3>5, WrittenStays
  <2> QED
    BY <2>2, <2>3, <2>4
<1>4. CASE f = r /\ done[r] = 0
  <2>1. Wrote(r)' = 0
    BY <1>2, <1>4 DEF Wrote
  <2> QED
    BY <1>4, <2>1, WrittenIs
<1>5. CASE f = r /\ done[r] # 0
  <2>1. content' = content /\ limit'[r] = limit[r]
    BY <1>1, <1>2, <1>5 DEF Begin, ShapeOK
  <2>2. Planned(r) /\ ~Early(r)
    BY <1>1, <1>2, <1>5 DEF Planned, Writing, Early
  <2>3. Plan(r)' = Plan(r)
    BY <1>1, <2>2, PlannedStays
  <2>4. Wrote(r)' = IF opt.stonewall THEN limit[r] ELSE opt.segments * Len(Plan(r))
    BY <1>1, <1>2, <1>5, <2>1, <2>3 DEF Wrote
  <2>5. Wrote(r)' = Wrote(r)
    <3>1. CASE done[r] > 1
      BY <1>1, <2>4, <3>1 DEF Wrote
    <3>2. CASE done[r] = 1 /\ opt.stonewall
      BY <1>2, <2>4, <3>2 DEF Wrote, LimitInv, Writing
    <3>3. CASE done[r] = 1 /\ ~opt.stonewall
      <4>1. count[r] = OnePass(r)
        BY <1>1, <1>2, <3>3 DEF AccessedInv, Over
      <4>2. order[r] = Plan(r)
        BY <1>1, <2>2, <3>3, WritersPlan DEF Writing
      <4>3. OnePass(r) = opt.segments * Len(order[r])
        BY <1>1, OnePassIs
      <4> QED
        BY <2>4, <3>3, <4>1, <4>2, <4>3 DEF Wrote
    <3> QED
      BY <1>1, <1>5, <3>1, <3>2, <3>3, OptionNumbers
  <2> QED
    BY <1>1, <1>5, <2>1, <2>3, <2>5, WrittenStays DEF WrittenInv
<1> QED
  BY <1>3, <1>4, <1>5

\* A writer writes its own.
LEMMA WrittenTransfer ==
    ASSUME AInv, opt.random = 1, WellPhased(opt), MeetInv,
           NEW r \in Ranks, ShuffledStep(r), TransferShuffled(r), opt' = opt,
           \A s \in Ranks : PlanInv(s) /\ WrittenInv(s), NEW f \in Ranks
    PROVE  WrittenInv(f)'
<1>1. /\ ShapeOK /\ TypeInv /\ opt \in Options /\ done[r] \in 0 .. Len(opt.phases)
      /\ AccessedInv(r) /\ done[r] \in Nat /\ done[f] \in Nat /\ count[r] \in Nat
      /\ PlanInv(f) /\ PlanInv(r) /\ WrittenInv(f) /\ WrittenInv(r)
  BY NoWayBack DEF AInv, TypeInv, ShapeOK
<1> DEFINE place == Goes(Pretend(r), order[r], count[r])
<1>2. /\ count'[r] = count[r] + 1 /\ UNCHANGED <<opt, pc, done, limit, seed, draws, order>>
      /\ content' = IF Doing(r) = "write" THEN Put(content, place, Pretend(r)) ELSE content
      /\ Len(order[r]) \in Nat \ {0}
  BY <1>1, NextGoes
<1>3. ~Early(r) /\ done[r] # 0 /\ Planned(r)
  <2>1. pc[r] \in {"access", "resume"}
    BY DEF TransferShuffled, More
  <2>2. done[r] # 0
    BY <1>1, <2>1 DEF AccessedInv
  <2> QED
    BY <1>1, <2>1, <2>2 DEF Early, Planned, Writing
<1>4. Writing(r) <=> Doing(r) = "write"
  BY <1>1, <1>3, ItsOwn
<1>5. f # r \/ ~Writing(r) => Wrote(f)' = Wrote(f) /\ (Wrote(f) # 0 => Plan(f)' = Plan(f))
  <2>1. done'[f] = done[f] /\ limit'[f] = limit[f]
    BY <1>2
  <2>2. f # r => count'[f] = count[f]
    BY <1>1, OthersStay
  <2>3. f = r /\ ~Writing(r) => done[f] > 1
    BY <1>1, <1>3 DEF Writing
  <2> QED
    BY <1>1, <2>1, <2>2, <2>3, WroteSame
<1>6. CASE ~Writing(r)
  BY <1>1, <1>2, <1>4, <1>5, <1>6, WrittenStays DEF WrittenInv
<1>7. CASE Writing(r)
  <2>1. order[r] = Plan(r) /\ Pretend(r) = r
    BY <1>1, <1>3, <1>7, WritersPlan
  <2>2. place = Goes(r, Plan(r), count[r])
    BY <2>1
  <2> HIDE DEF place
  <2>3. content' = Put(content, place, r)
    BY <1>2, <1>4, <1>7, <2>1
  <2>4. /\ DOMAIN content' = DOMAIN content \cup {place} /\ content'[place] = r
        /\ \A p \in DOMAIN content \ {place} : content'[p] = content[p]
    BY <2>3 DEF Put
  <2>5. CASE f # r
    <3>1. CASE Wrote(f) = 0
      BY <1>1, <1>5, <2>5, <3>1, WrittenStays
    <3>2. CASE Wrote(f) # 0
      <4>1. WriteSeed(f) \in DOMAIN draws /\ WriteSeed(r) \in DOMAIN draws
        BY <1>1, <1>3, <3>2, WrotePlanned DEF PlanInv
      <4>2. ASSUME NEW k \in 0 .. Wrote(f) - 1
            PROVE  /\ Goes(f, Plan(f), k) \in DOMAIN content'
                   /\ content'[Goes(f, Plan(f), k)] = content[Goes(f, Plan(f), k)]
        <5>1. Len(Plan(f)) # 0 /\ Goes(f, Plan(f), k) \in DOMAIN content
          BY <1>1 DEF WrittenInv
        <5>2. k \in Nat
          BY <1>1, WroteIsNat
        <5>3. Goes(f, Plan(f), k) # place
          BY <1>1, <1>2, <2>1, <2>2, <2>5, <4>1, <5>1, <5>2, GoesApart
        <5> QED
          BY <2>4, <5>1, <5>3
      <4> QED
        BY <1>1, <1>5, <2>5, <4>2, WrittenStays
    <3> QED
      BY <3>1, <3>2
  <2>6. CASE f = r
    <3>1. PICK q, n : q = Plan(r) /\ n = count[r] + 1
      OBVIOUS
    <3>2. Plan(r)' = q
      BY <1>1, <1>3, <3>1, PlannedStays
    <3>3. Wrote(r) = count[r] /\ Wrote(r)' = n
      BY <1>2, <1>7, <3>1 DEF Wrote, Writing
    <3>4. ASSUME NEW k \in 0 .. n - 1
          PROVE  Goes(r, q, k) \in DOMAIN content' /\ content'[Goes(r, q, k)] = r
      <4>1. CASE k = count[r]
        BY <2>2, <2>4, <3>1, <4>1
      <4>2. CASE k # count[r]
        <5>1. k \in 0 .. Wrote(r) - 1
          BY <1>1, <3>1, <3>3, <4>2
        <5>2. Goes(r, q, k) \in DOMAIN content /\ content[Goes(r, q, k)] = r
          BY <1>1, <3>1, <5>1 DEF WrittenInv
        <5> QED
          BY <2>4, <5>2
      <4> QED
        BY <4>1, <4>2
    <3>5. n \in Nat /\ Len(q) # 0
      BY <1>1, <1>2, <2>1, <3>1
    <3> QED
      BY <2>6, <3>2, <3>3, <3>4, <3>5, WrittenIs
  <2> QED
    BY <2>5, <2>6
<1> QED
  BY <1>6, <1>7

LEMMA WrittenStep ==
    ASSUME AInv, opt.random = 1, WellPhased(opt), MeetInv,
           NEW r \in Ranks, ShuffledStep(r), opt' = opt,
           \A s \in Ranks : PlanInv(s) /\ LimitInv(s) /\ WrittenInv(s), NEW f \in Ranks
    PROVE  WrittenInv(f)'
<1>1. CASE Begin(r)
  BY <1>1, WrittenBegin
<1>2. CASE TransferShuffled(r)
  BY <1>2, WrittenTransfer
<1>3. CASE ~Begin(r) /\ ~TransferShuffled(r)
  <2>1. ShapeOK /\ PlanInv(f) /\ WrittenInv(f) /\ opt \in Options
    BY DEF AInv, TypeInv, ShapeOK
  <2>2. UNCHANGED <<content, done, count>>
    BY <1>3 DEF ShuffledStep, SeedByClock, SeedKnown, SeedGiven, Shuffle, LeaveLoop, Agreed,
                WornOut, Close, vars
  <2>3. limit'[f] = limit[f] \/ done[f] <= 1
    <3>1. CASE ~Close(r)
      BY <1>3, <3>1 DEF ShuffledStep, SeedByClock, SeedKnown, SeedGiven, Shuffle, LeaveLoop,
                        Agreed, WornOut, vars, param
    <3>2. CASE f # r
      BY <2>1, <3>2, OthersStay
    <3>3. CASE Close(r) /\ f = r /\ done[r] > 1
      <4>1. Doing(r) # "write"
        <5>1. done[r] \in 0 .. Len(opt.phases) /\ done[r] # 0 /\ ~Writing(r)
          BY <2>1, <3>3 DEF ShapeOK, Writing
        <5> QED
          BY <2>1, <5>1, ItsOwn
      <4> QED
        BY <2>1, <3>3, <4>1 DEF Close, ShapeOK
    <3>4. done[r] \in Nat
      BY <2>1, NoWayBack
    <3> QED
      BY <3>1, <3>2, <3>3, <3>4
  <2>4. Wrote(f)' = Wrote(f) /\ (Wrote(f) # 0 => Plan(f)' = Plan(f))
    BY <2>1, <2>2, <2>3, WroteSame
  <2> QED
    BY <2>1, <2>2, <2>4, WrittenStays DEF WrittenInv
<1> QED
  BY <1>1, <1>2, <1>3

ShuffledInv ==
    /\ MeetInv
    /\ \A r \in Ranks : PlanInv(r) /\ WentInv(r) /\ LimitInv(r) /\ WrittenInv(r)
    /\ opt.wearOut => WearInv

LEMMA ShuffledInit ==
    ASSUME Init, opt.random = 1, WellPhased(opt)
    PROVE  ShuffledInv
<1>1. AInv /\ opt \in Options /\ ShapeOK
  BY AccessedInit DEF AInv, TypeInv, ShapeOK
<1>2. ASSUME NEW r \in Ranks
      PROVE  /\ pc[r] = "next" /\ done[r] = 0 /\ randomSeed[r] = opt.seed
             /\ limit[r] = 0 /\ count[r] = 0 /\ sent[r] = 0 /\ accessed[r] = {}
             /\ calls[r] = << >>
  BY DEF Init
<1>3. ASSUME NEW r \in Ranks
      PROVE  MeetingsInv(r) /\ LeftBehind(r) = 0 /\ Len(calls[r]) = 0
  BY <1>2 DEF MeetingsInv, LeftBehind, Writing
<1>4. MeetInv
  BY <1>3 DEF MeetInv
<1>5. ASSUME NEW r \in Ranks PROVE PlanInv(r)
  <2>1. Early(r) /\ ~Planned(r)
    BY <1>2 DEF Early, Planned, Writing
  <2> QED
    BY <1>2, <2>1 DEF PlanInv, Writing
<1>6. ASSUME NEW r \in Ranks PROVE WentInv(r)
  BY <1>2 DEF WentInv
<1>7. ASSUME NEW r \in Ranks PROVE LimitInv(r)
  BY <1>2 DEF LimitInv, Writing, Late
<1>8. ASSUME NEW r \in Ranks PROVE WrittenInv(r)
  <2>1. Wrote(r) = 0
    BY <1>2 DEF Wrote
  <2> QED
    BY <2>1 DEF WrittenInv
<1>9. WearInv
  BY <1>2 DEF WearInv, WearRank, Late, Writing, HasWritten
<1> QED
  BY <1>4, <1>5, <1>6, <1>7, <1>8, <1>9 DEF ShuffledInv

LEMMA ShuffledInvStep ==
    ASSUME AInv, opt.random = 1, WellPhased(opt), ShuffledInv, NEW r \in Ranks,
           RankStep(r) \/ UNCHANGED vars
    PROVE  ShuffledInv'
<1>1. ShuffledStep(r) /\ opt' = opt
  BY ShuffledSteps DEF ShuffledStep, vars
<1>2. /\ MeetInv /\ \A s \in Ranks : PlanInv(s) /\ WentInv(s) /\ LimitInv(s) /\ WrittenInv(s)
      /\ (opt.wearOut => WearInv)
  BY DEF ShuffledInv
<1>3. MeetInv'
  BY <1>1, <1>2, MeetStep
<1>4. \A s \in Ranks : PlanInv(s)'
  BY <1>1, <1>2, PlanStep
<1>5. \A s \in Ranks : WentInv(s)'
  BY <1>1, <1>2, WentStep
<1>6. ASSUME NEW s \in Ranks PROVE LimitInv(s)'
  <2>1. CASE s = r
    BY <1>1, <1>2, <2>1, LimitRank
  <2>2. CASE s # r
    <3>1. /\ pc'[s] = pc[s] /\ done'[s] = done[s] /\ limit'[s] = limit[s]
          /\ count'[s] = count[s]
      BY <1>1, <2>2, OthersStay DEF AInv, TypeInv
    <3> QED
      BY <1>1, <1>2, <3>1, LimitFrame
  <2> QED
    BY <2>1, <2>2
<1>7. \A s \in Ranks : WrittenInv(s)'
  BY <1>1, <1>2, WrittenStep
<1>8. opt.wearOut => WearInv'
  BY <1>1, <1>2, WearStep
<1> QED
  BY <1>1, <1>3, <1>4, <1>5, <1>6, <1>7, <1>8 DEF ShuffledInv

\* How far the write of a file went, when it has been written.
LEMMA WroteAll ==
    ASSUME AInv, opt.random = 1, WellPhased(opt), ShuffledInv, NEW g \in Ranks, HasWritten(g)
    PROVE  /\ Planned(g)
           /\ opt.stonewall => Wrote(g) = limit[g]
           /\ ~opt.stonewall => Wrote(g) = opt.segments * Len(Plan(g))
<1>1. /\ ShapeOK /\ TypeInv /\ opt \in Options /\ AccessedInv(g) /\ PlanInv(g) /\ LimitInv(g)
      /\ opt.stonewall \in BOOLEAN /\ done[g] \in Nat
  <2>1. /\ ShapeOK /\ TypeInv /\ opt \in Options /\ AccessedInv(g) /\ PlanInv(g)
        /\ LimitInv(g) /\ done[g] \in 0 .. Len(opt.phases)
    BY DEF AInv, TypeInv, ShapeOK, ShuffledInv
  <2>2. opt.stonewall \in BOOLEAN /\ opt.phases \in Seq(Phases)
    BY <2>1, OptionNumbers
  <2>3. Len(opt.phases) \in Nat
    BY <2>2
  <2> QED
    BY <2>1, <2>2, <2>3
<1>2. CASE done[g] > 1
  BY <1>1, <1>2 DEF Planned, Wrote
<1>3. CASE done[g] = 1
  <2>1. pc[g] = "next" /\ ~Early(g) /\ Planned(g) /\ Writing(g)
    BY <1>3 DEF HasWritten, Early, Planned, Writing
  <2>2. Wrote(g) = count[g]
    BY <1>3 DEF Wrote
  <2>3. opt.stonewall => limit[g] = count[g]
    BY <1>1, <2>1 DEF LimitInv
  <2>4. ASSUME ~opt.stonewall PROVE count[g] = opt.segments * Len(Plan(g))
    <3>1. count[g] = OnePass(g)
      BY <1>1, <1>3, <2>1, <2>4 DEF AccessedInv, Over
    <3>2. order[g] = Plan(g)
      BY <1>1, <1>3, <2>1, WritersPlan
    <3> QED
      BY <1>1, <1>3, <3>1, <3>2, OnePassIs
  <2> QED
    BY <2>1, <2>2, <2>3, <2>4
<1> QED
  BY <1>1, <1>2, <1>3 DEF HasWritten

\* The spots of a whole pass are those of the plan.
LEMMA WholePass ==
    ASSUME AInv, opt.random = 1, opt.filePerProc, NEW r \in Ranks, ~Early(r),
           WriteSeed(Pretend(r)) \in DOMAIN draws, NEW p \in Spots(r)
    PROVE  \E k \in 0 .. opt.segments * Len(Plan(Pretend(r))) - 1 :
              p = Goes(Pretend(r), Plan(Pretend(r)), k)
<1> DEFINE L == SegmentSize
           S == opt.segments
<1>1. opt \in Options /\ L \in Nat \ {0} /\ S \in Nat \ {0} /\ L = opt.transfers
  BY OptionNumbers DEF AInv, TypeInv, ShapeOK
<1>2. PICK g \in Ranks : g = Pretend(r)
  BY <1>1, PretendIsRank DEF Pretend
<1>3. PICK q : q = Plan(g)
  OBVIOUS
<1>4. /\ Len(q) = L /\ q \in Seq(0 .. L - 1)
      /\ \A v : (\E i \in 1 .. Len(q) : q[i] = v) <=> v \in Due(draws[WriteSeed(g)], g)
  BY <1>1, <1>2, <1>3, PlanIs
<1>5. PICK j \in 1 .. Len(order[r]), z \in 0 .. S - 1 : p = Spot(r, j, z)
  BY DEF Spots
<1> DEFINE v == order[r][j]
<1>6. v \in 0 .. L - 1
  <2>1. ASSUME NEW T, NEW e \in Seq(T), NEW m \in 1 .. Len(e) PROVE e[m] \in T
    OBVIOUS
  <2>2. order[r] \in Seq(0 .. L - 1)
    BY DEF AInv, TypeInv, ShapeOK
  <2> QED
    BY <2>1, <2>2
<1>7. p = <<g, v + z * L>>
  BY <1>2, <1>5 DEF Spot, Name, Pretend
<1>8. PICK i \in 1 .. L : q[i] = v
  BY <1>4, <1>6 DEF Due
<1> HIDE DEF L, S, v
<1> DEFINE k == (i - 1) + L * z
<1>9. i - 1 \in 0 .. L - 1 /\ z \in Nat /\ z < S
  BY <1>1, <1>5, <1>8
<1>10. k \in Nat /\ k % L = i - 1 /\ k \div L = z
  <2>1. L \in Nat \ {0}
    BY <1>1
  <2>2. PICK y \in Nat : y = z
    BY <1>9
  <2>3. PICK m \in 0 .. L - 1 : m = i - 1
    BY <1>9
  <2>4. m + L * y \in Nat /\ (m + L * y) % L = m /\ (m + L * y) \div L = y
    BY <2>1, Composed
  <2>5. m + L * y = k
    BY <2>2, <2>3
  <2> HIDE DEF k
  <2> QED
    BY <2>2, <2>3, <2>4, <2>5
<1>11. k < L * S
  BY <1>1, <1>9, WithinPass
<1>12. z % S = z
  <2>1. ASSUME NEW s \in Nat \ {0}, NEW y \in 0 .. s - 1 PROVE y % s = y
    OBVIOUS
  <2> QED
    BY <1>1, <1>5, <2>1
<1> HIDE DEF k
<1>13. p = Goes(g, q, k)
  <2>1. (k % L) + 1 = i
    BY <1>8, <1>10
  <2> QED
    BY <1>4, <1>7, <1>8, <1>10, <1>12, <2>1 DEF Goes, L, S
<1>14. k \in 0 .. S * Len(q) - 1
  BY <1>1, <1>4, <1>10, <1>11
<1> QED
  BY <1>2, <1>3, <1>13, <1>14 DEF S

\* Where a rank goes after the write, the writer of the file has been.
LEMMA FollowsTheWrite ==
    ASSUME AInv, opt.random = 1, WellPhased(opt), SoundOption(opt), ShuffledInv,
           NEW r \in Ranks, done[r] # 0, Doing(r) # "write", NEW p \in accessed[r]
    PROVE  \E k \in 0 .. Wrote(Pretend(r)) - 1 : p = Goes(Pretend(r), Plan(Pretend(r)), k)
<1>1. /\ ShapeOK /\ TypeInv /\ opt \in Options /\ AccessedInv(r) /\ PlanInv(r) /\ WentInv(r)
      /\ LimitInv(r) /\ MeetInv /\ count[r] \in Nat /\ done[r] \in 0 .. Len(opt.phases)
      /\ limit \in [Ranks -> Nat] /\ done[r] \in Nat
  <2>1. /\ ShapeOK /\ TypeInv /\ opt \in Options /\ AccessedInv(r) /\ PlanInv(r) /\ WentInv(r)
        /\ LimitInv(r) /\ MeetInv /\ count[r] \in Nat /\ done[r] \in 0 .. Len(opt.phases)
        /\ limit \in [Ranks -> Nat]
    BY DEF AInv, TypeInv, ShapeOK, ShuffledInv
  <2>2. opt.phases \in Seq(Phases)
    BY <2>1, OptionNumbers
  <2>3. Len(opt.phases) \in Nat
    BY <2>2
  <2> QED
    BY <2>1, <2>3
<1>2. ~Early(r) /\ ~Writing(r) /\ done[r] > 1
  <2>1. ~Early(r)
    BY <1>1 DEF AccessedInv
  <2>2. ~Writing(r)
    BY <1>1, ItsOwn
  <2> QED
    BY <1>1, <2>1, <2>2 DEF Writing
<1>3. PICK g \in Ranks : g = Pretend(r)
  BY <1>1, PretendIsRank DEF Pretend
<1>4. HasWritten(g) /\ PlanInv(g)
  BY <1>1, <1>2, AllHaveWritten DEF ShuffledInv
<1>5. /\ Planned(g) /\ WriteSeed(g) \in DOMAIN draws
      /\ opt.stonewall => Wrote(g) = limit[g]
      /\ ~opt.stonewall => Wrote(g) = opt.segments * Len(Plan(g))
  BY <1>4, WroteAll DEF PlanInv
<1>6. CASE SeedsLast
  <2>1. order[r] = Plan(g)
    BY <1>1, <1>2, <1>3, <1>6 DEF PlanInv
  <2>2. PICK k \in 0 .. count[r] - 1 : p = Goes(g, Plan(g), k)
    BY <1>1, <1>3, <2>1 DEF WentInv
  <2>3. count[r] <= Wrote(g)
    <3>1. CASE ~opt.stonewall
      <4>1. count[r] <= OnePass(r) /\ OnePass(r) = opt.segments * Len(order[r])
        BY <1>1, <3>1, OnePassIs DEF AccessedInv
      <4> QED
        BY <1>5, <2>1, <3>1, <4>1
    <3>2. CASE opt.stonewall
      <4>1. count[r] <= limit[r]
        BY <1>1, <1>2, <3>2 DEF LimitInv
      <4>2. CASE opt.wearOut
        <5>1. WearInv /\ HasWritten(r)
          BY <1>2, <4>2 DEF ShuffledInv, HasWritten
        <5> QED
          BY <1>4, <1>5, <3>2, <4>1, <5>1 DEF WearInv
      <4>3. CASE ~opt.wearOut
        <5>1. opt.shift = 0
          BY <3>2, <4>3 DEF SoundOption, OwnCounts
        <5>2. ASSUME NEW n \in Nat \ {0}, NEW m \in 0 .. n - 1 PROVE (m + 0) % n = m
          OBVIOUS
        <5>3. Pretend(r) = r
          BY <5>1, <5>2, RankNumbers DEF Pretend, PretendRank, RankOffset
        <5> QED
          BY <1>3, <1>5, <3>2, <4>1, <5>3
      <4> QED
        BY <4>2, <4>3
    <3> QED
      BY <3>1, <3>2
  <2>4. Wrote(g) \in Nat
    BY <1>4, WroteIsNat
  <2>5. k \in 0 .. Wrote(g) - 1
    BY <1>1, <2>3, <2>4
  <2> QED
    BY <1>3, <2>2, <2>5
<1>7. CASE ~SeedsLast
  <2>1. opt.filePerProc /\ opt.seed = -1
    BY <1>7 DEF SeedsLast
  <2>2. ~opt.stonewall
    <3>1. done[r] \in DOMAIN opt.phases /\ opt.phases[done[r]] \in Phases
      <4>1. opt.phases \in Seq(Phases) /\ done[r] \in 1 .. Len(opt.phases)
        BY <1>1, OptionNumbers
      <4> QED
        BY <4>1
    <3>2. Does(opt, Doing(r))
      BY <3>1 DEF Does, Doing
    <3>3. Doing(r) # "readcheck"
      BY <1>1, <2>1, <3>2, OptionsAssumption DEF ValidOption
    <3>4. Doing(r) \in {"writecheck", "read"}
      BY <3>1, <3>3 DEF Doing, Phases
    <3>5. ~Reseeded(opt)
      BY DEF SoundOption
    <3> QED
      BY <2>1, <3>2, <3>4, <3>5 DEF Reseeded
  <2>3. p \in Spots(r)
    BY <1>1 DEF AccessedInv
  <2>4. \E k \in 0 .. opt.segments * Len(Plan(g)) - 1 : p = Goes(g, Plan(g), k)
    BY <1>2, <1>3, <1>5, <2>1, <2>3, WholePass
  <2> QED
    BY <1>3, <1>5, <2>2, <2>4
<1> QED
  BY <1>6, <1>7

LEMMA ShuffledFinds ==
    ASSUME AInv, opt.random = 1, WellPhased(opt), SoundOption(opt), ShuffledInv
    PROVE  ReadsFindData
<1> SUFFICES ASSUME NEW r \in Ranks, done[r] # 0, Doing(r) # "write", NEW p \in accessed[r]
             PROVE  p \in DOMAIN content /\ content[p] = Pretend(r) /\ p[2] <= p[2]
  BY DEF ReadsFindData
<1>1. opt \in Options
  BY DEF AInv, TypeInv, ShapeOK
<1>2. PICK g \in Ranks : g = Pretend(r)
  BY <1>1, PretendIsRank DEF Pretend
<1>3. PICK k \in 0 .. Wrote(g) - 1 : p = Goes(g, Plan(g), k)
  BY <1>2, FollowsTheWrite
<1>4. p \in DOMAIN content /\ content[p] = g
  BY <1>3 DEF ShuffledInv, WrittenInv
<1>5. p[2] \in Nat
  BY <1>4 DEF AInv, TypeInv, FilesOK, EndInv
<1> QED
  BY <1>2, <1>4, <1>5

----------------------------------------------------------------------------
(***************************************************************************)
(* The other orders read what there is: no transfer goes beyond the size   *)
(* the file had when it was opened, and none of it is written meanwhile.   *)
(***************************************************************************)
OldEnd(name) == opt.old[IF name = Shared THEN 0 ELSE name]

\* What is left of the block in which the rank is lies in the file.
DrawnInv(r) ==
    offset[r] # None /\ (count[r] % opt.transfers) # 0 =>
        offset[r] + (opt.transfers - (count[r] % opt.transfers)) < fileSizeForRead[r]

\* The permutation is one of the blocks of the file.
PermutedInv(r) ==
    /\ pc[r] \in {"next", "open"} => At(r, "none")
    /\ ~At(r, "none") => blocks[r] = fileSizeForRead[r] \div opt.transfers

WithinInv(r) ==
    /\ done[r] = 0 => pc[r] = "next"
    /\ done[r] # 0 =>
          /\ fileSizeForRead[r] = OldEnd(Name(r, Doing(r)))
          /\ \A p \in accessed[r] : p[1] = Name(r, Doing(r)) /\ p[2] < fileSizeForRead[r]
    /\ opt.random = 2 => DrawnInv(r)
    /\ opt.random = 3 => PermutedInv(r)

OldInv == content = Old(opt) /\ \A r \in Ranks : WithinInv(r)

\* The remainder of the next number.
LEMMA NextRemainder ==
    ASSUME NEW n \in Nat \ {0}, NEW k \in Nat
    PROVE  /\ (k % n) \in 0 .. n - 1
           /\ (k + 1) % n = IF k % n = n - 1 THEN 0 ELSE (k % n) + 1
<1> DEFINE m == k % n
           z == k \div n
<1>1. m \in 0 .. n - 1 /\ z \in Nat /\ k = m + n * z
  BY Divided
<1> HIDE DEF m, z
<1>2. CASE m = n - 1
  <2> DEFINE y == z + 1
             h == k + 1
  <2>1. y \in Int /\ h \in Int /\ 0 \in 0 .. n - 1 /\ h = n * y + 0
    BY <1>1, <1>2
  <2> HIDE DEF y, h
  <2>2. h % n = 0
    BY <2>1, Remaining
  <2> QED
    BY <1>1, <1>2, <2>2 DEF m, h
<1>3. CASE m # n - 1
  <2>1. m + 1 \in 0 .. n - 1 /\ k + 1 = n * z + (m + 1)
    BY <1>1, <1>3
  <2> DEFINE i == m + 1
             h == k + 1
  <2>2. i \in 0 .. n - 1 /\ h = n * z + i /\ h \in Int /\ z \in Int
    BY <1>1, <2>1
  <2> HIDE DEF i, h
  <2>3. h % n = i
    BY <2>2, Remaining
  <2> QED
    BY <1>1, <1>3, <2>3 DEF i, h, m
<1> QED
  BY <1>2, <1>3

\* A file of an earlier execution is as long as the options say, without
\* a gap, and one that is not shared is its writer's.
LEMMA OldFile ==
    ASSUME opt \in Options, content = Old(opt), NEW name,
           name \in IF opt.filePerProc THEN Ranks ELSE {Shared}
    PROVE  /\ OldEnd(name) \in Nat /\ FileSize(name) = OldEnd(name)
           /\ \A n \in 0 .. OldEnd(name) - 1 :
                 /\ <<name, n>> \in DOMAIN content
                 /\ opt.filePerProc => content[<<name, n>>] = name
<1> DEFINE names == IF opt.filePerProc THEN Ranks ELSE {Shared}
           m == OldEnd(name)
<1>1. opt.old \in [Ranks -> Nat] /\ opt.filePerProc \in BOOLEAN
  BY OptionNumbers
<1>2. m \in Nat
  BY <1>1, RankNumbers DEF OldEnd, Shared
<1>3. DOMAIN content = UNION {{f} \X (0 .. OldEnd(f) - 1) : f \in names}
  BY DEF Old, OldEnd
<1>4. Places(name) = {name} \X (0 .. m - 1)
  <2>1. ASSUME NEW p \in DOMAIN content, p[1] = name PROVE p \in {name} \X (0 .. m - 1)
    <3>1. PICK f \in names : p \in {f} \X (0 .. OldEnd(f) - 1)
      BY <1>3
    <3>2. f = name
      BY <2>1, <3>1
    <3> QED
      BY <3>1, <3>2
  <2>2. ASSUME NEW p \in {name} \X (0 .. m - 1) PROVE p \in DOMAIN content /\ p[1] = name
    BY <1>3
  <2> QED
    BY <2>1, <2>2 DEF Places
<1>5. ASSUME NEW n \in 0 .. m - 1
      PROVE  <<name, n>> \in DOMAIN content /\ (opt.filePerProc => content[<<name, n>>] = name)
  <2> DEFINE p == <<name, n>>
  <2>1. p \in DOMAIN content /\ p[1] = name
    BY <1>4 DEF Places
  <2>2. content[p] = IF p[1] = Shared THEN (p[2] \div opt.transfers) % NumTasks ELSE p[1]
    BY <2>1 DEF Old
  <2>3. opt.filePerProc => name # Shared
    BY RankNumbers DEF Shared
  <2> QED
    BY <2>1, <2>2, <2>3
<1> HIDE DEF m
<1>6. FileSize(name) = m
  <2>1. CASE m = 0
    <3>1. Places(name) = {}
      BY <1>4, <2>1
    <3> QED
      BY <2>1, <3>1 DEF FileSize
  <2>2. CASE m # 0
    <3> DEFINE P == Places(name)
               Top(u) == \A p \in P : p[2] <= u
               z == CHOOSE u \in {p[2] : p \in P} : Top(u)
    <3>1. <<name, m - 1>> \in P /\ \A p \in P : p[2] \in 0 .. m - 1
      BY <1>2, <1>4, <2>2
    <3>2. m - 1 \in {p[2] : p \in P} /\ Top(m - 1)
      BY <1>2, <3>1
    <3>3. \A u \in {p[2] : p \in P} : Top(u) => u = m - 1
      BY <1>2, <3>1
    <3>4. z = m - 1
      <4> HIDE DEF P, Top
      <4> QED
        BY <3>2, <3>3
    <3>5. FileSize(name) = 1 + z
      BY <3>1 DEF FileSize
    <3> HIDE DEF z
    <3> QED
      BY <1>2, <3>4, <3>5
  <2> QED
    BY <2>1, <2>2
<1> QED
  BY <1>2, <1>5, <1>6 DEF m

\* The file of a rank is one there is.
LEMMA ItsFile ==
    ASSUME opt \in Options, NEW r \in Ranks, NEW phase
    PROVE  Name(r, phase) \in IF opt.filePerProc THEN Ranks ELSE {Shared}
BY PretendIsRank DEF Name

LEMMA WithinFrame ==
    ASSUME NEW s \in Ranks, WithinInv(s), opt' = opt, pc'[s] = pc[s], done'[s] = done[s],
           fileSizeForRead'[s] = fileSizeForRead[s], accessed'[s] = accessed[s],
           offset'[s] = offset[s], count'[s] = count[s], stage'[s] = stage[s],
           blocks'[s] = blocks[s]
    PROVE  WithinInv(s)'
<1>1. Doing(s)' = Doing(s)
  BY DEF Doing
<1>2. Name(s, Doing(s))' = Name(s, Doing(s))
  BY <1>1 DEF Name, PretendRank, RankOffset
<1>3. OldEnd(Name(s, Doing(s)))' = OldEnd(Name(s, Doing(s)))
  BY <1>2 DEF OldEnd
<1>4. DrawnInv(s)' = DrawnInv(s)
  BY DEF DrawnInv
<1>5. PermutedInv(s)' = PermutedInv(s)
  BY DEF PermutedInv, At
<1> QED
  BY <1>2, <1>3, <1>4, <1>5 DEF WithinInv

\* The other ranks keep what is their own.
LEMMA OthersWithin ==
    ASSUME TypeInv, NEW r \in Ranks, RankStep(r), NEW s \in Ranks, s # r
    PROVE  /\ pc'[s] = pc[s] /\ done'[s] = done[s]
           /\ fileSizeForRead'[s] = fileSizeForRead[s] /\ accessed'[s] = accessed[s]
           /\ offset'[s] = offset[s] /\ count'[s] = count[s] /\ stage'[s] = stage[s]
           /\ blocks'[s] = blocks[s]
<1>1. ShapeOK /\ RangeTypeOK
  BY DEF TypeInv, RangeInv
<1>2. pc'[s] = pc[s] /\ done'[s] = done[s]
  BY <1>1 DEF RankStep, Begin, SeedByClock, SeedKnown, SeedGiven, Shuffle, TransferShuffled,
              TransferDrawn, TransferPermuted, SetupRange, Spin, DivideByZero, AskRange,
              WithinRange, FailBelowZero, LeaveLoop, Agreed, WornOut, Close, vars, Go, ShapeOK
<1>3. fileSizeForRead'[s] = fileSizeForRead[s]
  <2>1. CASE Begin(r)
    BY <1>1, <2>1 DEF Begin, ShapeOK
  <2>2. CASE ~Begin(r)
    BY <2>2 DEF RankStep, SeedByClock, SeedKnown, SeedGiven, Shuffle, TransferShuffled,
                TransferDrawn, TransferPermuted, SetupRange, Spin, DivideByZero, AskRange,
                WithinRange, FailBelowZero, LeaveLoop, Agreed, WornOut, Close, vars, param
  <2> QED
    BY <2>1, <2>2
<1>4. offset'[s] = offset[s]
  <2>1. CASE Begin(r) \/ TransferDrawn(r) \/ Agreed(r)
    BY <1>1, <2>1 DEF Begin, TransferDrawn, Agreed, ShapeOK
  <2>2. CASE ~(Begin(r) \/ TransferDrawn(r) \/ Agreed(r))
    BY <2>2 DEF RankStep, SeedByClock, SeedKnown, SeedGiven, Shuffle, TransferShuffled,
                TransferPermuted, SetupRange, Spin, DivideByZero, AskRange, WithinRange,
                FailBelowZero, LeaveLoop, WornOut, Close, vars
  <2> QED
    BY <2>1, <2>2
<1>5. accessed'[s] = accessed[s] /\ count'[s] = count[s]
  <2>1. CASE Begin(r)
    BY <1>1, <2>1 DEF Begin, ShapeOK
  <2>2. CASE TransferShuffled(r) \/ TransferDrawn(r) \/ TransferPermuted(r)
    <3>1. PICK o : Access(r, o)
      BY <2>2 DEF TransferShuffled, TransferDrawn, TransferPermuted
    <3> QED
      BY <1>1, <3>1 DEF Access, ShapeOK
  <2>3. CASE ~(Begin(r) \/ TransferShuffled(r) \/ TransferDrawn(r) \/ TransferPermuted(r))
    BY <2>3 DEF RankStep, SeedByClock, SeedKnown, SeedGiven, Shuffle, SetupRange, Spin,
                DivideByZero, AskRange, WithinRange, FailBelowZero, LeaveLoop, Agreed, WornOut,
                Close, vars
  <2> QED
    BY <2>1, <2>2, <2>3
<1>6. stage'[s] = stage[s] /\ blocks'[s] = blocks[s]
  BY <1>1 DEF RankStep, Begin, SeedByClock, SeedKnown, SeedGiven, Shuffle, TransferShuffled,
              TransferDrawn, TransferPermuted, SetupRange, Spin, DivideByZero, AskRange,
              WithinRange, FailBelowZero, LeaveLoop, Agreed, WornOut, Close, vars, rangeVars,
              NewRange, Turn, Restart, Draw, BuildBit, Built, Skip, Take, FreeRange, range,
              RangeTypeOK
<1> QED
  BY <1>2, <1>3, <1>4, <1>5, <1>6

\* A phase opens its file and learns its size.
LEMMA BeginWithin ==
    ASSUME TypeInv, opt.random # 1, WellPhased(opt), content = Old(opt),
           NEW r \in Ranks, WithinInv(r), Begin(r)
    PROVE  content' = content /\ WithinInv(r)'
<1> DEFINE k == done[r] + 1
           phase == opt.phases[k]
<1>1. /\ opt \in Options /\ opt' = opt /\ ShapeOK /\ RangeTypeOK
      /\ pc[r] = "next" /\ done[r] \in 0 .. Len(opt.phases) /\ done[r] < Len(opt.phases)
      /\ done' = [done EXCEPT ![r] = k] /\ pc' = [pc EXCEPT ![r] = "open"]
      /\ accessed' = [accessed EXCEPT ![r] = {}] /\ offset' = [offset EXCEPT ![r] = None]
      /\ UNCHANGED rangeVars
  BY DEF Begin, Go, TypeInv, ShapeOK, RangeInv
<1>2. opt.phases \in Seq(Phases) /\ opt.random > 1
  BY <1>1, OptionNumbers
<1>3. k \in DOMAIN opt.phases /\ k # 0
  BY <1>1, <1>2
<1>4. Reads(phase) /\ phase # "write"
  BY <1>3 DEF WellPhased, Reads
<1> HIDE DEF k
<1>5. /\ UNCHANGED content
      /\ fileSizeForRead' = [fileSizeForRead EXCEPT ![r] = FileSize(Name(r, phase))]
  BY <1>2, <1>4 DEF Begin, k
<1>6. /\ done'[r] = k /\ pc'[r] = "open" /\ accessed'[r] = {} /\ offset'[r] = None
      /\ fileSizeForRead'[r] = FileSize(Name(r, phase)) /\ stage'[r] = stage[r]
  BY <1>1, <1>5 DEF ShapeOK, rangeVars
<1>7. Doing(r)' = phase
  BY <1>1, <1>6 DEF Doing
<1> HIDE DEF phase
<1>8. Name(r, Doing(r))' = Name(r, phase)
  BY <1>1, <1>7 DEF Name, PretendRank, RankOffset
<1>9. FileSize(Name(r, phase)) = OldEnd(Name(r, phase))
  BY <1>1, ItsFile, OldFile
<1>10. fileSizeForRead'[r] = OldEnd(Name(r, Doing(r)))'
  BY <1>1, <1>6, <1>8, <1>9 DEF OldEnd
<1>11. DrawnInv(r)'
  BY <1>6 DEF DrawnInv
<1>12. opt.random = 3 => PermutedInv(r)'
  BY <1>1, <1>6 DEF WithinInv, PermutedInv, At
<1> QED
  BY <1>1, <1>3, <1>5, <1>6, <1>10, <1>11, <1>12 DEF WithinInv

\* Between the transfers a block is left or gone on with.
LEMMA MoveWithin ==
    ASSUME TypeInv, opt.random # 1, NEW r \in Ranks, WithinInv(r),
           \/ SeedByClock(r) \/ SeedKnown(r) \/ SeedGiven(r) \/ Shuffle(r) \/ SetupRange(r)
           \/ DivideByZero(r) \/ AskRange(r) \/ WithinRange(r) \/ FailBelowZero(r)
           \/ LeaveLoop(r) \/ Agreed(r) \/ WornOut(r) \/ Close(r)
    PROVE  content' = content /\ WithinInv(r)'
<1>1. /\ opt \in Options /\ ShapeOK /\ RangeTypeOK
      /\ UNCHANGED <<opt, content, done, fileSizeForRead, count, accessed>>
  BY DEF SeedByClock, SeedKnown, SeedGiven, Shuffle, SetupRange, DivideByZero, AskRange,
         WithinRange, FailBelowZero, LeaveLoop, Agreed, WornOut, Close, param, TypeInv, ShapeOK,
         RangeInv
<1>2. Doing(r)' = Doing(r)
  BY <1>1 DEF Doing
<1>3. Name(r, Doing(r))' = Name(r, Doing(r))
  BY <1>1, <1>2 DEF Name, PretendRank, RankOffset
<1>4. OldEnd(Name(r, Doing(r)))' = OldEnd(Name(r, Doing(r)))
  BY <1>1, <1>3 DEF OldEnd
<1>5. offset'[r] = offset[r] \/ offset'[r] = None
  BY <1>1 DEF SeedByClock, SeedKnown, SeedGiven, Shuffle, SetupRange, DivideByZero, AskRange,
              WithinRange, FailBelowZero, LeaveLoop, Agreed, WornOut, Close, ShapeOK
<1>6. DrawnInv(r) => DrawnInv(r)'
  BY <1>1, <1>5 DEF DrawnInv
<1>7. done'[r] = 0 => pc'[r] = "next"
  <2>1. CASE AskRange(r) \/ WithinRange(r)
    BY <1>1, <2>1 DEF AskRange, WithinRange, WithinInv
  <2>2. CASE ~(AskRange(r) \/ WithinRange(r))
    <3>1. pc[r] # "next"
      BY <1>1, <2>2 DEF SeedByClock, SeedKnown, SeedGiven, Shuffle, SetupRange, DivideByZero,
                        FailBelowZero, LeaveLoop, Agreed, WornOut, Close, Opened, More
    <3> QED
      BY <1>1, <3>1 DEF WithinInv
  <2> QED
    BY <2>1, <2>2
<1>8. ASSUME opt.random = 3, PermutedInv(r) PROVE PermutedInv(r)'
  <2>1. CASE SetupRange(r)
    <3> DEFINE n == fileSizeForRead[r] \div opt.transfers
    <3>1. NewRange(r, n) /\ pc'[r] = "access"
      BY <1>1, <2>1 DEF SetupRange, Go, ShapeOK
    <3> HIDE DEF n
    <3>2. blocks'[r] = n
      BY <1>1, <3>1 DEF NewRange, RangeTypeOK
    <3> QED
      BY <1>1, <3>1, <3>2 DEF PermutedInv, n
  <2>2. CASE AskRange(r) \/ WithinRange(r)
    <3>1. pc' = pc /\ blocks'[r] = blocks[r]
      BY <1>1, <2>2 DEF AskRange, WithinRange, Restart, NewRange, Draw, BuildBit, Built, Skip,
                        range, RangeTypeOK
    <3>2. ~At(r, "none")
      BY <2>2 DEF AskRange, WithinRange, Restart, Draw, BuildBit, Built, Skip, At
    <3> QED
      BY <1>1, <1>8, <3>1, <3>2 DEF PermutedInv, At
  <2>3. CASE Close(r)
    <3>1. FreeRange(r)
      BY <1>8, <2>3 DEF Close
    <3>2. At(r, "none")'
      BY <1>1, <3>1 DEF FreeRange, Turn, At, RangeTypeOK
    <3> QED
      BY <3>2 DEF PermutedInv, At
  <2>4. CASE ~(SetupRange(r) \/ AskRange(r) \/ WithinRange(r) \/ Close(r))
    <3>1. UNCHANGED rangeVars
      BY <2>4 DEF SeedByClock, SeedKnown, SeedGiven, Shuffle, DivideByZero, FailBelowZero,
                  LeaveLoop, Agreed, WornOut
    <3>2. pc'[r] \notin {"next", "open"}
      BY <1>1, <2>4 DEF SeedByClock, SeedKnown, SeedGiven, Shuffle, DivideByZero, FailBelowZero,
                        LeaveLoop, Agreed, WornOut, Go, Seeded, ShapeOK
    <3> QED
      BY <1>1, <1>8, <3>1, <3>2 DEF PermutedInv, At, rangeVars
  <2> QED
    BY <2>1, <2>2, <2>3, <2>4
<1> QED
  BY <1>1, <1>3, <1>4, <1>6, <1>7, <1>8 DEF WithinInv

\* What a transfer within the file adds.
LEMMA AccessWithin ==
    ASSUME TypeInv, opt.random # 1, WellPhased(opt), NEW r \in Ranks, WithinInv(r),
           done[r] # 0, NEW o \in Nat, o < fileSizeForRead[r], Access(r, o),
           UNCHANGED <<opt, pc, done, fileSizeForRead>>,
           opt.random = 2 => DrawnInv(r)', opt.random = 3 => PermutedInv(r)'
    PROVE  content' = content /\ WithinInv(r)'
<1>1. ShapeOK /\ opt \in Options /\ FilesOK /\ done[r] \in 0 .. Len(opt.phases)
  BY DEF TypeInv, ShapeOK
<1>2. Doing(r) # "write"
  <2>1. opt.phases \in Seq(Phases)
    BY <1>1, OptionNumbers
  <2>2. done[r] \in DOMAIN opt.phases
    BY <1>1, <2>1
  <2> QED
    BY <2>2 DEF WellPhased, Doing, Reads
<1>3. accessed' = [accessed EXCEPT ![r] = accessed[r] \cup {<<Name(r, Doing(r)), o>>}]
  BY <1>1, AccessTypes
<1>4. accessed'[r] = accessed[r] \cup {<<Name(r, Doing(r)), o>>}
  BY <1>1, <1>3 DEF ShapeOK
<1>5. content' = content
  BY <1>2 DEF Access
<1>6. Doing(r)' = Doing(r)
  BY DEF Doing
<1>7. Name(r, Doing(r))' = Name(r, Doing(r))
  BY <1>6 DEF Name, PretendRank, RankOffset
<1>8. OldEnd(Name(r, Doing(r)))' = OldEnd(Name(r, Doing(r)))
  BY <1>7 DEF OldEnd
<1>9. \A p \in accessed'[r] : p[1] = Name(r, Doing(r)) /\ p[2] < fileSizeForRead[r]
  BY <1>4 DEF WithinInv
<1> QED
  BY <1>5, <1>7, <1>8, <1>9 DEF WithinInv

\* A block that is drawn lies within the file, and a transfer in a block
\* within the block.
LEMMA DrawnWithin ==
    ASSUME TypeInv, opt.random # 1, WellPhased(opt), NEW r \in Ranks, WithinInv(r),
           TransferDrawn(r)
    PROVE  content' = content /\ WithinInv(r)'
<1> DEFINE t == opt.transfers
           k == count[r]
           size == fileSizeForRead[r]
<1>1. /\ opt \in Options /\ ShapeOK /\ FilesOK /\ opt.random = 2 /\ More(r)
      /\ UNCHANGED <<opt, pc, done, fileSizeForRead>>
  BY DEF TransferDrawn, TypeInv, ShapeOK, param
<1>2. t \in Nat \ {0} /\ k \in Nat /\ size \in Nat /\ offset[r] \in Nat \cup {None}
  BY <1>1, OptionNumbers DEF ShapeOK
<1>3. done[r] # 0 /\ DrawnInv(r)
  BY <1>1 DEF More, WithinInv
<1>4. PICK o \in IF DrawsBlock(r) THEN {n * opt.transfers : n \in BlocksToDraw(r)}
                                  ELSE {offset[r] + 1} :
         Access(r, o) /\ offset' = [offset EXCEPT ![r] = o]
  BY DEF TransferDrawn
<1>5. /\ k % t \in 0 .. t - 1
      /\ (k + 1) % t = IF k % t = t - 1 THEN 0 ELSE (k % t) + 1
  <2> HIDE DEF t, k
  <2> QED
    BY <1>2, NextRemainder
<1>6. /\ o \in Nat /\ o < size
      /\ (k + 1) % t # 0 => o + (t - ((k + 1) % t)) < size
  <2> DEFINE m == k % t
             i == (k + 1) % t
  <2>1. m \in 0 .. t - 1 /\ i = (IF m = t - 1 THEN 0 ELSE m + 1) /\ i \in 0 .. t - 1
    BY <1>2, <1>5
  <2>2. CASE DrawsBlock(r)
    <3>1. PICK n \in BlocksToDraw(r) : o = n * t
      BY <1>4, <2>2
    <3>2. RangeToDraw(r) \in Nat /\ RangeToDraw(r) <= size
      <4>1. NumTasks \in Nat \ {0}
        BY RankNumbers
      <4>2. ASSUME NEW a \in Nat, NEW c \in Nat \ {0} PROVE a \div c \in Nat /\ a \div c <= a
        <5> DEFINE z == a \div c
                   y == a % c
        <5>1. z \in Nat /\ y \in Nat /\ a = y + c * z
          BY Divided
        <5> HIDE DEF z, y
        <5>2. z <= c * z
          BY <5>1
        <5>3. z <= a
          BY <5>1, <5>2
        <5> QED
          BY <5>1, <5>3 DEF z
      <4>3. size \div NumTasks \in Nat /\ size \div NumTasks <= size
        BY <1>2, <4>1, <4>2
      <4> QED
        BY <1>2, <4>3 DEF RangeToDraw
    <3> DEFINE R == RangeToDraw(r)
               q == Blocks(r)
               w == R % t
    <3>3. q \in Nat /\ w \in Nat /\ R = w + t * q
      <4>1. q = R \div t /\ R \in Nat /\ t \in Nat \ {0}
        BY <1>2, <3>2 DEF Blocks
      <4> HIDE DEF R, t, q
      <4> QED
        BY <4>1, Divided
    <3>4. q # 0
      BY <2>2 DEF TransferDrawn
    <3>5. n \in Nat /\ n <= q - 1
      BY <3>1, <3>3, <3>4 DEF BlocksToDraw
    <3> HIDE DEF R, q, w, t
    <3>6. o \in Nat
      BY <1>2, <3>1, <3>5
    <3>7. o + t <= size
      <4>1. n * t + t = t * (n + 1)
        BY <1>2, <3>5
      <4>2. t * (n + 1) <= t * q
        <5>1. PICK d \in Nat : q = (n + 1) + d
          <6>1. q - (n + 1) \in Nat /\ q = (n + 1) + (q - (n + 1))
            BY <3>3, <3>5
          <6> QED
            BY <6>1
        <5>2. t * q = t * (n + 1) + t * d /\ t * d \in Nat
          BY <1>2, <3>5, <5>1
        <5> QED
          BY <1>2, <3>5, <5>2
      <4>3. t * q <= size
        <5>1. t * q \in Nat
          BY <1>2, <3>3
        <5> QED
          BY <1>2, <3>2, <3>3, <5>1 DEF R
      <4> QED
        BY <1>2, <3>1, <3>3, <3>5, <4>1, <4>2, <4>3
    <3> HIDE DEF size, i
    <3>8. i # 0 => i \in Nat /\ o + (t - i) < size
      BY <1>2, <2>1, <3>6, <3>7 DEF size
    <3> QED
      BY <1>2, <3>6, <3>7, <3>8 DEF size, i, t
  <2>3. CASE ~DrawsBlock(r)
    <3>1. o = offset[r] + 1 /\ offset[r] \in Nat /\ m # 0
      BY <1>2, <1>4, <2>3 DEF DrawsBlock
    <3>2. offset[r] + (t - m) < size
      BY <1>3, <2>3 DEF DrawnInv, DrawsBlock
    <3> HIDE DEF t, size, m, i
    <3>3. o \in Nat /\ o < size /\ (i # 0 => o + (t - i) < size)
      BY <1>2, <2>1, <3>1, <3>2 DEF t, size
    <3> QED
      BY <3>3 DEF i, t, size, k
  <2> QED
    BY <2>2, <2>3
<1>7. count'[r] = k + 1 /\ offset'[r] = o
  BY <1>1, <1>4, <1>6, AccessTypes DEF ShapeOK
<1>8. DrawnInv(r)'
  BY <1>1, <1>6, <1>7 DEF DrawnInv
<1> QED
  BY <1>1, <1>3, <1>4, <1>6, <1>8, AccessWithin

\* The blocks of a permutation are blocks of the file.
LEMMA PermutedWithin ==
    ASSUME TypeInv, opt.random # 1, WellPhased(opt), NEW r \in Ranks, WithinInv(r),
           TransferPermuted(r)
    PROVE  content' = content /\ WithinInv(r)'
<1> DEFINE t == opt.transfers
           size == fileSizeForRead[r]
           n == blocks[r]
           e == elem[r]
           o == Block(r) * t
<1>1. /\ opt \in Options /\ ShapeOK /\ RangeTypeOK /\ RankInv(r) /\ opt.random = 3
      /\ Take(r) /\ Access(r, o) /\ UNCHANGED <<opt, pc, done, fileSizeForRead>>
  BY DEF TransferPermuted, TypeInv, ShapeOK, RangeInv, param
<1>2. t \in Nat \ {0} /\ size \in Nat
  BY <1>1, OptionNumbers DEF ShapeOK
<1>3. At(r, "pick") /\ PermutedInv(r)
  BY <1>1 DEF Take, WithinInv
<1>4. n = size \div t /\ done[r] # 0
  BY <1>3 DEF PermutedInv, WithinInv, At
<1>5. Block(r) \in 0 .. n - 1
  <2> DEFINE c == x[r]
             h == e[c]
  <2>1. /\ e \in Seq(ElemRecord) /\ c \in 1 .. Len(e) /\ Laid(e) /\ End(e) = n
        /\ ElemOK(h, given[r])
    BY <1>1, <1>3, RankTypes DEF RankInv, At, Counted, Choosing
  <2>2. h \in ElemRecord /\ h.base \in Nat /\ h.size \in Nat /\ h.remaining \in Nat
    BY <2>1, ElemNumbers
  <2>3. h.remaining # 0
    BY <1>1, <2>2, RankTypes DEF Take, Beyond
  <2>4. Block(r) \in Nat /\ Block(r) < h.base + h.size
    <3>1. Block(r) = IF h.remaining = 1 THEN h.base ELSE h.base + h.state
      BY DEF Block
    <3>2. h.size \in Nat \ {0} /\ h.state \in States(h.size)
      BY <2>1, <2>2, SizesKinds DEF ElemOK, ElemRecord
    <3> HIDE DEF h
    <3>3. h.state \in 0 .. h.size - 1
      BY <3>2 DEF States
    <3>4. Block(r) = h.base \/ Block(r) = h.base + h.state
      BY <3>1
    <3>5. ASSUME NEW a \in Nat, NEW m \in Nat \ {0}, NEW s \in 0 .. m - 1,
                 NEW p, p = a \/ p = a + s
          PROVE  p \in Nat /\ p < a + m
      BY <3>5
    <3> QED
      BY <2>2, <3>2, <3>3, <3>4, <3>5
  <2>5. End(e) \in Nat /\ h.base + h.size <= End(e)
    BY <2>1, WithinEnd
  <2>6. End(e) = n /\ h.base + h.size \in Nat
    BY <2>1, <2>2
  <2> HIDE DEF h, n, e
  <2> QED
    BY <2>4, <2>5, <2>6
<1>6. o \in Nat /\ o < size
  <2> DEFINE c == Block(r)
             w == size % t
  <2>1. n \in Nat /\ w \in Nat /\ size = w + t * n
    <3> HIDE DEF t, size, n
    <3> QED
      BY <1>2, <1>4, Divided
  <2>2. c \in Nat /\ c <= n - 1
    BY <1>5, <2>1
  <2> HIDE DEF c, w, t, size, n, o
  <2>3. PICK d \in Nat : n = (c + 1) + d
    <3>1. n - (c + 1) \in Nat /\ n = (c + 1) + (n - (c + 1))
      BY <2>1, <2>2
    <3> QED
      BY <3>1
  <2>4. t * n = c * t + t + t * d /\ t * d \in Nat /\ c * t \in Nat
    BY <1>2, <2>2, <2>3
  <2>5. c * t \in Nat /\ c * t < size
    BY <1>2, <2>1, <2>4
  <2> QED
    BY <2>5 DEF o, c, t
<1>7. PermutedInv(r)'
  <2>1. stage'[r] = "ready" /\ blocks'[r] = blocks[r]
    BY <1>1 DEF Take, Turn, RangeTypeOK
  <2> QED
    BY <1>1, <1>3, <2>1 DEF PermutedInv, At
<1> QED
  BY <1>1, <1>4, <1>6, <1>7, AccessWithin

LEMMA OldInit ==
    ASSUME Init
    PROVE  OldInv
<1>1. content = Old(opt)
  BY DEF Init
<1>2. ASSUME NEW r \in Ranks PROVE WithinInv(r)
  <2>1. pc[r] = "next" /\ done[r] = 0 /\ offset[r] = None /\ stage[r] = "none"
    BY DEF Init, RangeInit
  <2> QED
    BY <2>1 DEF WithinInv, DrawnInv, PermutedInv, At
<1> QED
  BY <1>1, <1>2 DEF OldInv

LEMMA OldInvStep ==
    ASSUME AInv, opt.random # 1, WellPhased(opt), OldInv, [Next]_vars
    PROVE  OldInv'
<1>1. TypeInv /\ content = Old(opt) /\ \A s \in Ranks : WithinInv(s)
  BY DEF AInv, OldInv
<1>2. opt' = opt
  BY DEF Next, RankStep, Begin, SeedByClock, SeedKnown, SeedGiven, Shuffle, TransferShuffled,
         TransferDrawn, TransferPermuted, SetupRange, Spin, DivideByZero, AskRange, WithinRange,
         FailBelowZero, LeaveLoop, Agreed, WornOut, Close, vars
<1>3. CASE UNCHANGED vars
  <2>1. UNCHANGED <<content, pc, done, fileSizeForRead, accessed, offset, count, stage, blocks>>
    BY <1>3 DEF vars, rangeVars
  <2>2. ASSUME NEW s \in Ranks PROVE WithinInv(s)'
    BY <1>1, <1>2, <2>1, WithinFrame
  <2> QED
    BY <1>1, <1>2, <2>1, <2>2 DEF OldInv
<1>4. ASSUME NEW r \in Ranks, RankStep(r) PROVE OldInv'
  <2>1. CASE Spin(r)
    BY <1>3, <2>1 DEF Spin
  <2>2. CASE ~Spin(r)
    <3>1. content' = content /\ WithinInv(r)'
      <4>1. ~TransferShuffled(r)
        BY DEF TransferShuffled
      <4> QED
        BY <1>1, <1>4, <2>2, <4>1, BeginWithin, MoveWithin, DrawnWithin, PermutedWithin
           DEF RankStep
    <3>2. ASSUME NEW s \in Ranks, s # r PROVE WithinInv(s)'
      BY <1>1, <1>2, <1>4, <3>2, OthersWithin, WithinFrame
    <3>3. \A s \in Ranks : WithinInv(s)'
      BY <3>1, <3>2
    <3> QED
      BY <1>1, <1>2, <3>1, <3>3 DEF OldInv
  <2> QED
    BY <2>1, <2>2
<1> QED
  BY <1>3, <1>4 DEF Next

LEMMA OldFinds ==
    ASSUME AInv, opt.random # 1, WellPhased(opt), SoundOption(opt), OldInv
    PROVE  ReadsFindData
<1> SUFFICES ASSUME NEW r \in Ranks, done[r] # 0, Doing(r) # "write", NEW p \in accessed[r]
             PROVE  /\ \E q \in DOMAIN content : q[1] = p[1] /\ q[2] >= p[2]
                    /\ Doing(r) # "read" => p \in DOMAIN content /\ content[p] = Pretend(r)
  BY DEF ReadsFindData
<1>1. /\ opt \in Options /\ content = Old(opt) /\ WithinInv(r)
      /\ accessed[r] \in SUBSET ((Ranks \cup {Shared}) \X Nat)
      /\ done[r] \in 0 .. Len(opt.phases)
  BY DEF AInv, TypeInv, ShapeOK, OldInv
<1> DEFINE name == Name(r, Doing(r))
<1>2. name \in IF opt.filePerProc THEN Ranks ELSE {Shared}
  BY <1>1, ItsFile
<1>3. p[1] = name /\ p[2] < OldEnd(name)
  BY <1>1 DEF WithinInv
<1>4. p = <<p[1], p[2]>> /\ p[2] \in Nat
  BY <1>1
<1> HIDE DEF name
<1>5. /\ p \in DOMAIN content /\ (opt.filePerProc => content[p] = name)
  <2>1. p[2] \in 0 .. OldEnd(name) - 1
    BY <1>1, <1>2, <1>3, <1>4, OldFile
  <2> QED
    BY <1>1, <1>2, <1>3, <1>4, <2>1, OldFile
<1>6. ASSUME Doing(r) # "read" PROVE content[p] = Pretend(r)
  <2>1. opt.phases \in Seq(Phases)
    BY <1>1, OptionNumbers
  <2>2. done[r] \in DOMAIN opt.phases
    BY <1>1, <2>1
  <2>3. Doing(r) = "readcheck" /\ Does(opt, "readcheck")
    BY <1>6, <2>2 DEF WellPhased, Reads, Doing, Does
  <2>4. opt.filePerProc
    BY <1>1, <2>3, OptionNumbers DEF SoundOption, OthersData
  <2>5. name = Pretend(r)
    BY <2>4 DEF name, Name, Pretend
  <2> QED
    BY <1>5, <2>4, <2>5
<1> QED
  BY <1>4, <1>5, <1>6

----------------------------------------------------------------------------
(***************************************************************************)
(* The inductive invariant of both kinds of tests.                         *)
(***************************************************************************)
DataInv ==
    AInv /\ (WellPhased(opt) => IF opt.random = 1 THEN ShuffledInv ELSE OldInv)

LEMMA DataInit == Init => DataInv
BY AccessedInit, ShuffledInit, OldInit DEF DataInv

LEMMA DataStep == DataInv /\ [Next]_vars => DataInv'
<1> SUFFICES ASSUME DataInv, [Next]_vars PROVE DataInv'
  OBVIOUS
<1>1. AInv /\ AInv'
  BY AccessedStep DEF DataInv
<1>2. opt' = opt
  BY DEF Next, RankStep, Begin, SeedByClock, SeedKnown, SeedGiven, Shuffle, TransferShuffled,
         TransferDrawn, TransferPermuted, SetupRange, Spin, DivideByZero, AskRange, WithinRange,
         FailBelowZero, LeaveLoop, Agreed, WornOut, Close, vars
<1>3. WellPhased(opt)' <=> WellPhased(opt)
  BY <1>2
<1>4. CASE WellPhased(opt) /\ opt.random = 1
  <2>1. PICK r \in Ranks : RankStep(r) \/ UNCHANGED vars
    BY RankNumbers DEF Next
  <2>2. ShuffledInv'
    BY <1>1, <1>4, <2>1, ShuffledInvStep DEF DataInv
  <2> QED
    BY <1>1, <1>2, <1>4, <2>2 DEF DataInv
<1>5. CASE WellPhased(opt) /\ opt.random # 1
  <2>1. OldInv'
    BY <1>1, <1>5, OldInvStep DEF DataInv
  <2> QED
    BY <1>1, <1>2, <1>5, <2>1 DEF DataInv
<1> QED
  BY <1>1, <1>3, <1>4, <1>5 DEF DataInv

\* A read goes to what is in the file and a check to what the rank it
\* pretends to be has written, whatever random() and the clock yield, however
\* far the stonewall lets each rank come, for any number of ranks and blocks:
\* with every sound set of options whose tests in shuffled order write in
\* the first phase and no other, and whose others only read.
THEOREM ReadsFindDataHolds == Spec => [](SoundOption(opt) /\ WellPhased(opt) => ReadsFindData)
<1>1. DataInv => (SoundOption(opt) /\ WellPhased(opt) => ReadsFindData)
  BY ShuffledFinds, OldFinds DEF DataInv
<1> QED
  BY <1>1, DataInit, DataStep, PTL DEF Spec
=============================================================================
