------------------------- MODULE FeasibilityProofs -------------------------
(***************************************************************************)
(* What an offer of Find-berth is worth, for every wharf, hull, gap,       *)
(* catalogue and board: the bands are the room there is, the slots lie in  *)
(* them and leave none out, and a fresh offer is confirmed as it is shown. *)
(* The loops of the interval arithmetic are recursive functions; that such *)
(* a function exists, and what it has computed after so many iterations,   *)
(* is proved over the set of the iterations it holds after.                *)
(***************************************************************************)
EXTENDS Feasibility, FiniteSetTheorems, SequenceTheorems, WellFoundedInduction, TLAPS

-----------------------------------------------------------------------------
(***************************************************************************)
(* Loops, and finite sets in order.                                        *)
(***************************************************************************)

\* A set of natural numbers has a least one.
LEMMA NaturalsHaveALeast ==
  ASSUME NEW T, T \subseteq Nat, T # {}
  PROVE  \E x \in T : \A y \in T : x <= y
  <1>1. PICK x \in T : \A y \in T : <<y, x>> \notin OpToRel(<, Nat)
    BY NatLessThanWellFounded, WFMin
  <1>2. \A y \in T : ~(y < x)
    BY <1>1, Zenon DEF OpToRel
  <1>3. \A y \in T : x <= y
    <2> SUFFICES ASSUME NEW y \in T PROVE x <= y
      OBVIOUS
    <2> QED
      BY <1>2
  <1> QED
    BY <1>3

\* What holds before the first iteration of a loop, and after one when it holds
\* before it, holds after every one.
LEMMA LoopInduction ==
  ASSUME NEW n \in Nat, NEW S, 0 \in S, \A i \in 1..n : i - 1 \in S => i \in S
  PROVE  \A i \in 0..n : i \in S
  <1> DEFINE T == {i \in 0..n : i \notin S}
  <1>1. CASE T = {}
    BY <1>1
  <1>2. CASE T # {}
    <2>1. T \subseteq Nat
      OBVIOUS
    <2>2. PICK i \in T : \A j \in T : i <= j
      <3> HIDE DEF T
      <3> QED
        BY <1>2, <2>1, NaturalsHaveALeast
    <2>3. i \in 1..n
      OBVIOUS
    <2>4. i - 1 \in 0..n /\ ~(i <= i - 1)
      BY <2>3
    <2>5. i - 1 \notin T
      BY <2>2, <2>4
    <2> QED
      BY <2>2, <2>3, <2>4, <2>5
  <1> QED
    BY <1>1, <1>2

\* A loop of n iterations over states of D: step[i] is what iteration i makes of a
\* state, g the states it runs through.
IsRun(g, n, D, base, step) ==
  /\ g \in [0..n -> D]
  /\ g[0] = base
  /\ \A i \in 1..n : g[i] = step[i][g[i - 1]]

\* Every loop has a run.
LEMMA LoopRuns ==
  ASSUME NEW n \in Nat, NEW D, NEW base \in D, NEW step \in [1..n -> [D -> D]]
  PROVE  \E g : IsRun(g, n, D, base, step)
  <1> DEFINE Run(g, k) == /\ g \in [0..k -> D]
                          /\ g[0] = base
                          /\ \A i \in 1..k : g[i] = step[i][g[i - 1]]
             P(k) == \E g : Run(g, k)
             S == {k \in 0..n : P(k)}
  <1>1. 0 \in S
    <2> DEFINE g == [k \in 0..0 |-> base]
    <2>1. Run(g, 0)
      OBVIOUS
    <2>2. P(0)
      BY <2>1
    <2> QED
      BY <2>2
  <1>2. ASSUME NEW k \in 1..n, k - 1 \in S PROVE k \in S
    <2>1. PICK g : Run(g, k - 1)
      BY <1>2
    <2> DEFINE h == [i \in 0..k |-> IF i = k THEN step[k][g[k - 1]] ELSE g[i]]
    <2>2. g[k - 1] \in D /\ step[k] \in [D -> D]
      BY <2>1
    <2>3. h \in [0..k -> D]
      BY <2>1, <2>2
    <2>4. h[0] = base
      BY <2>1
    <2>5. ASSUME NEW i \in 1..k PROVE h[i] = step[i][h[i - 1]]
      <3>1. h[i - 1] = g[i - 1]
        OBVIOUS
      <3>2. CASE i = k
        BY <3>1, <3>2
      <3>3. CASE i # k
        <4>1. i \in 1..(k - 1) /\ h[i] = g[i]
          BY <3>3
        <4> HIDE DEF h
        <4> QED
          BY <2>1, <3>1, <4>1
      <3> QED
        BY <3>2, <3>3
    <2>6. Run(h, k)
      <3> HIDE DEF h
      <3> QED
        BY <2>3, <2>4, <2>5
    <2>7. P(k)
      <3> HIDE DEF Run, h
      <3> QED
        BY <2>6
    <2> QED
      BY <2>7
  <1>3. P(n)
    <2>1. \A k \in 0..n : k \in S
      <3> HIDE DEF S
      <3> QED
        BY <1>1, <1>2, LoopInduction
    <2> HIDE DEF P
    <2> QED
      BY <2>1
  <1> QED
    BY <1>3 DEF IsRun

\* R is a strict order of all of S.
Orders(R, S) ==
  /\ \A s \in S : <<s, s>> \notin R
  /\ \A s, t \in S : s = t \/ <<s, t>> \in R \/ <<t, s>> \in R
  /\ \A s, t, u \in S : <<s, t>> \in R /\ <<t, u>> \in R => <<s, u>> \in R

Below(s, S, R) == {t \in S : <<t, s>> \in R}

\* In a finite ordered set fewer elements precede an earlier one, and every
\* number of predecessors short of all has its element.
LEMMA RanksTell ==
  ASSUME NEW S, IsFiniteSet(S), NEW R, Orders(R, S)
  PROVE  /\ \A s \in S : Cardinality(Below(s, S, R)) \in 0..(Cardinality(S) - 1)
         /\ \A s, t \in S : <<s, t>> \in R =>
              Cardinality(Below(s, S, R)) < Cardinality(Below(t, S, R))
         /\ \A k \in 0..(Cardinality(S) - 1) : \E s \in S :
              Cardinality(Below(s, S, R)) = k
  <1> DEFINE Rank(s) == Cardinality(Below(s, S, R))
             n == Cardinality(S)
             f == [s \in S |-> Rank(s)]
  <1>0. n \in Nat
    BY FS_CardinalityType
  <1>1. ASSUME NEW s \in S
        PROVE  /\ IsFiniteSet(Below(s, S, R))
               /\ Rank(s) \in 0..(n - 1)
    <2>1. Below(s, S, R) \subseteq S /\ s \notin Below(s, S, R)
      BY DEF Below, Orders
    <2>2. /\ IsFiniteSet(Below(s, S, R))
          /\ Rank(s) <= n
          /\ n = Rank(s) => S = Below(s, S, R)
      BY <2>1, FS_Subset
    <2>3. Rank(s) \in Nat
      BY <2>2, FS_CardinalityType
    <2>4. n # Rank(s)
      BY <2>1, <2>2
    <2> QED
      BY <1>0, <2>2, <2>3, <2>4
  <1>2. ASSUME NEW s \in S, NEW t \in S, <<s, t>> \in R
        PROVE  Rank(s) < Rank(t)
    <2>1. Below(s, S, R) \subseteq Below(t, S, R)
      BY <1>2 DEF Below, Orders
    <2>2. s \in Below(t, S, R) /\ s \notin Below(s, S, R)
      BY <1>2 DEF Below, Orders
    <2>3. /\ Rank(s) <= Rank(t)
          /\ Rank(t) = Rank(s) => Below(t, S, R) = Below(s, S, R)
      BY <1>1, <2>1, FS_Subset
    <2>4. Rank(s) # Rank(t)
      BY <2>2, <2>3
    <2>5. Rank(s) \in Int /\ Rank(t) \in Int
      BY <1>0, <1>1
    <2> QED
      BY <2>3, <2>4, <2>5
  <1>3. f \in Injection(S, 0..(n - 1))
    <2>1. f \in [S -> 0..(n - 1)]
      BY <1>1
    <2>2. ASSUME NEW s \in S, NEW t \in S, Rank(s) = Rank(t) PROVE s = t
      <3>1. Rank(s) \in Int /\ Rank(t) \in Int
        BY <1>0, <1>1
      <3>2. ~(Rank(s) < Rank(t)) /\ ~(Rank(t) < Rank(s))
        BY <2>2, <3>1
      <3>3. <<s, t>> \notin R /\ <<t, s>> \notin R
        BY <1>2, <3>2
      <3> QED
        BY <3>3 DEF Orders
    <2> QED
      BY <2>1, <2>2 DEF Injection, IsInjective
  <1>4. /\ IsFiniteSet(0..(n - 1))
        /\ Cardinality(0..(n - 1)) = n
    <2>1. 0 \in Int /\ n - 1 \in Int /\ (n - 1) - 0 + 1 = n /\ (0 > n - 1 => n = 0)
      BY <1>0
    <2> HIDE DEF n
    <2> QED
      BY <2>1, FS_Interval
  <1>5. f \in Surjection(S, 0..(n - 1))
    <2> HIDE DEF f, n
    <2> QED
      BY <1>3, <1>4, FS_Injection DEF n
  <1>6. \A k \in 0..(n - 1) : \E s \in S : Rank(s) = k
    BY <1>5 DEF Surjection
  <1> QED
    BY <1>1, <1>2, <1>6

Ranked(seq, S, R) ==
  /\ DOMAIN seq = 1..Cardinality(S)
  /\ \A k \in 1..Cardinality(S) :
       (\E s \in S : Cardinality(Below(s, S, R)) = k - 1) =>
         seq[k] \in S /\ Cardinality(Below(seq[k], S, R)) = k - 1

\* A sequence that puts each element after as many as precede it holds every one,
\* in order.
LEMMA RankedSequence ==
  ASSUME NEW S, IsFiniteSet(S), NEW R, Orders(R, S), NEW seq, Ranked(seq, S, R)
  PROVE  /\ \A k \in DOMAIN seq : seq[k] \in S
         /\ \A s \in S : \E k \in DOMAIN seq : seq[k] = s
         /\ \A j, k \in DOMAIN seq : j < k => <<seq[j], seq[k]>> \in R
  <1> DEFINE n == Cardinality(S)
             Rank(s) == Cardinality(Below(s, S, R))
  <1>0. n \in Nat
    BY FS_CardinalityType
  <1>1. /\ \A s \in S : Rank(s) \in 0..(n - 1)
        /\ \A s, t \in S : <<s, t>> \in R => Rank(s) < Rank(t)
        /\ \A k \in 0..(n - 1) : \E s \in S : Rank(s) = k
    BY RanksTell
  <1>2. ASSUME NEW k \in 1..n PROVE seq[k] \in S /\ Rank(seq[k]) = k - 1
    <2>1. k - 1 \in 0..(n - 1)
      BY <1>0
    <2> QED
      BY <1>1, <2>1 DEF Ranked
  <1>3. ASSUME NEW s \in S PROVE \E k \in 1..n : seq[k] = s
    <2>1. PICK k \in 1..n : k - 1 = Rank(s)
      <3>1. \A r \in 0..(n - 1) : \E k \in 1..n : k - 1 = r
        <4> SUFFICES ASSUME NEW r \in 0..(n - 1) PROVE \E k \in 1..n : k - 1 = r
          OBVIOUS
        <4> HIDE DEF n
        <4>1. r + 1 \in 1..n /\ r + 1 - 1 = r
          BY <1>0
        <4> QED
          BY <4>1
      <3>2. Rank(s) \in 0..(n - 1)
        BY <1>1
      <3> HIDE DEF Rank, n
      <3> QED
        BY <3>1, <3>2
    <2>3. seq[k] \in S /\ Rank(seq[k]) = Rank(s)
      BY <1>2, <2>1
    <2>4. Rank(s) \in Int
      BY <1>0, <1>1
    <2>5. <<seq[k], s>> \notin R /\ <<s, seq[k]>> \notin R
      BY <1>1, <2>3, <2>4
    <2> QED
      BY <2>3, <2>5 DEF Orders
  <1>4. ASSUME NEW j \in 1..n, NEW k \in 1..n, j < k
        PROVE  <<seq[j], seq[k]>> \in R
    <2>1. /\ seq[j] \in S /\ Rank(seq[j]) = j - 1
          /\ seq[k] \in S /\ Rank(seq[k]) = k - 1
      BY <1>2
    <2>2. ~(Rank(seq[k]) < Rank(seq[j])) /\ Rank(seq[j]) # Rank(seq[k])
      BY <1>0, <1>4, <2>1
    <2>3. <<seq[k], seq[j]>> \notin R /\ seq[j] # seq[k]
      BY <1>1, <2>1, <2>2
    <2> QED
      BY <2>1, <2>3 DEF Orders
  <1> QED
    BY <1>2, <1>3, <1>4 DEF Ranked

-----------------------------------------------------------------------------
(***************************************************************************)
(* subtract_intervals and feasible_bands.                                  *)
(***************************************************************************)

\* Bands, obstacles and the stretches between them.
Spans == [lo: Int, hi: Int]

\* What sorted() makes of a finite set of spans: each of them, by rising low end.
LEMMA SpansInOrder ==
  ASSUME NEW S, S \subseteq Spans, IsFiniteSet(S)
  PROVE  LET segs == InOrder(S, SpanBefore)
         IN  /\ segs \in Seq(Spans)
             /\ \A k \in 1..Len(segs) : segs[k] \in S
             /\ \A s \in S : \E k \in 1..Len(segs) : segs[k] = s
             /\ \A j, k \in 1..Len(segs) : j < k => segs[j].lo <= segs[k].lo
  <1> DEFINE n == Cardinality(S)
             segs == InOrder(S, SpanBefore)
             R == {p \in S \X S : SpanBefore(p[1], p[2])}
  <1>0. n \in Nat
    BY FS_CardinalityType
  <1>1. \A s, t \in S : <<s, t>> \in R <=> SpanBefore(s, t)
    OBVIOUS
  <1>2. Orders(R, S)
    <2>1. \A s \in S : ~SpanBefore(s, s)
      BY DEF SpanBefore, Spans
    <2>2. \A s, t \in S : s = t \/ SpanBefore(s, t) \/ SpanBefore(t, s)
      <3> SUFFICES ASSUME NEW s \in S, NEW t \in S, ~SpanBefore(s, t), ~SpanBefore(t, s)
                   PROVE  s = t
        OBVIOUS
      <3>1. s.lo = t.lo /\ s.hi = t.hi
        BY DEF SpanBefore, Spans
      <3> QED
        BY <3>1 DEF Spans
    <2>3. \A s, t, u \in S :
            SpanBefore(s, t) /\ SpanBefore(t, u) => SpanBefore(s, u)
      BY DEF SpanBefore, Spans
    <2> HIDE DEF R
    <2> QED
      BY <1>1, <2>1, <2>2, <2>3 DEF Orders
  <1>3. \A s \in S : Below(s, S, R) = {t \in S : SpanBefore(t, s)}
    BY DEF Below
  <1>4. DOMAIN segs = 1..n
    BY DEF InOrder
  <1>5. ASSUME NEW k \in 1..n, \E s \in S : Cardinality(Below(s, S, R)) = k - 1
        PROVE  segs[k] \in S /\ Cardinality(Below(segs[k], S, R)) = k - 1
    <2>1. segs[k] = CHOOSE s \in S : Cardinality({t \in S : SpanBefore(t, s)}) = k - 1
      BY DEF InOrder
    <2>2. \E s \in S : Cardinality({t \in S : SpanBefore(t, s)}) = k - 1
      BY <1>3, <1>5
    <2>3. /\ segs[k] \in S
          /\ Cardinality({t \in S : SpanBefore(t, segs[k])}) = k - 1
      <3> HIDE DEF segs
      <3> QED
        BY <2>1, <2>2, Zenon
    <2> HIDE DEF segs
    <2> QED
      BY <1>3, <2>3
  <1>7. segs = [k \in 1..n |-> segs[k]]
    <2> DEFINE At(k) == CHOOSE s \in S : Cardinality({t \in S : SpanBefore(t, s)}) = k - 1
    <2>1. segs = [k \in 1..n |-> At(k)]
      BY DEF InOrder
    <2> HIDE DEF segs, At
    <2> QED
      BY <2>1
  <1> HIDE DEF segs, R, n
  <1>9. Ranked(segs, S, R)
    BY <1>4, <1>5 DEF Ranked, n
  <1>6. /\ \A k \in 1..n : segs[k] \in S
        /\ \A s \in S : \E k \in 1..n : segs[k] = s
        /\ \A j, k \in 1..n : j < k => <<segs[j], segs[k]>> \in R
    <2>1. /\ \A k \in DOMAIN segs : segs[k] \in S
          /\ \A s \in S : \E k \in DOMAIN segs : segs[k] = s
          /\ \A j, k \in DOMAIN segs : j < k => <<segs[j], segs[k]>> \in R
      BY <1>2, <1>9, RankedSequence, Zenon
    <2> QED
      BY <1>4, <2>1
  <1>8. segs \in Seq(Spans) /\ Len(segs) = n
    BY <1>0, <1>6, <1>7, IsASeq
  <1>10. \A j, k \in 1..n : j < k => segs[j].lo <= segs[k].lo
    <2>1. ASSUME NEW j \in 1..n, NEW k \in 1..n, j < k
          PROVE  segs[j].lo <= segs[k].lo
      <3>1. SpanBefore(segs[j], segs[k])
        BY <1>1, <1>6, <2>1
      <3>2. segs[j] \in Spans /\ segs[k] \in Spans
        BY <1>6
      <3> QED
        BY <3>1, <3>2 DEF SpanBefore, Spans
    <2> QED
      BY <2>1
  <1> QED
    BY <1>6, <1>8, <1>10 DEF segs

\* The hull from x to y lies in one of the spans, or keeps out of one.
Holds(free, x, y) == \E k \in 1..Len(free) : free[k].lo <= x /\ y <= free[k].hi

KeepsOut(b, x, y) == y <= b.lo \/ b.hi <= x

\* The segments a sweep of an extent visits.
Ready(segs, e) ==
  /\ e \in Spans
  /\ segs \in Seq(Spans)
  /\ \A k \in 1..Len(segs) :
       e.lo <= segs[k].lo /\ segs[k].lo < segs[k].hi /\ segs[k].hi <= e.hi
  /\ \A j, k \in 1..Len(segs) : j < k => segs[j].lo <= segs[k].lo

Sweeps == [cursor: Int, free: Seq(Spans)]

\* What the sweep has found after n segments: a hull keeps out of all of them when
\* it lies in a span found free or beyond the cursor.
Swept(segs, e, st, n) ==
  /\ st \in Sweeps
  /\ e.lo <= st.cursor
  /\ \A k \in 1..Len(st.free) :
       /\ e.lo <= st.free[k].lo /\ st.free[k].hi <= e.hi
       /\ \A m \in (n + 1)..Len(segs) : st.free[k].hi <= segs[m].lo
  /\ \A x, y \in Int : e.lo <= x /\ x < y =>
       (Holds(st.free, x, y) \/ st.cursor <= x
          <=> \A m \in 1..n : KeepsOut(segs[m], x, y))

\* A span more holds the hulls that lie in it.
LEMMA OneMoreHolds ==
  ASSUME NEW free \in Seq(Spans), NEW f \in Spans
  PROVE  /\ Append(free, f) \in Seq(Spans)
         /\ \A k \in 1..Len(Append(free, f)) :
              \/ k \in 1..Len(free) /\ Append(free, f)[k] = free[k]
              \/ Append(free, f)[k] = f
         /\ \A x, y \in Int : Holds(Append(free, f), x, y)
                                <=> Holds(free, x, y) \/ (f.lo <= x /\ y <= f.hi)
  <1> DEFINE more == Append(free, f)
  <1>1. /\ more \in Seq(Spans)
        /\ Len(more) = Len(free) + 1
        /\ more[Len(free) + 1] = f
        /\ \A k \in 1..Len(free) : more[k] = free[k]
        /\ Len(free) \in Nat
    BY AppendProperties, LenProperties
  <1> HIDE DEF more
  <1>2. \A k \in 1..Len(more) : k \in 1..Len(free) \/ k = Len(free) + 1
    BY <1>1
  <1>3. Len(free) + 1 \in 1..Len(more) /\ \A k \in 1..Len(free) : k \in 1..Len(more)
    BY <1>1
  <1>4. ASSUME NEW x \in Int, NEW y \in Int
        PROVE  Holds(more, x, y) <=> Holds(free, x, y) \/ (f.lo <= x /\ y <= f.hi)
    BY <1>1, <1>2, <1>3 DEF Holds
  <1>5. \A k \in 1..Len(more) : \/ k \in 1..Len(free) /\ more[k] = free[k]
                                \/ more[k] = f
    BY <1>1, <1>2
  <1> QED
    BY <1>1, <1>4, <1>5 DEF more

\* One segment more: what lies before it and beyond the cursor is free.
LEMMA AdvanceSweeps ==
  ASSUME NEW e, NEW segs, Ready(segs, e), NEW n \in 1..Len(segs),
         NEW st, Swept(segs, e, st, n - 1)
  PROVE  Swept(segs, e, Advance(st, segs[n]), n)
  <1> DEFINE s == segs[n]
             new == Advance(st, s)
             gap == [lo |-> st.cursor, hi |-> s.lo]
  <1>1. /\ Len(segs) \in Nat /\ n \in Int /\ n >= 1
        /\ s \in Spans /\ s.lo \in Int /\ s.hi \in Int
        /\ e.lo \in Int /\ e.hi \in Int
        /\ e.lo <= s.lo /\ s.lo < s.hi /\ s.hi <= e.hi
        /\ \A m \in 1..Len(segs) : segs[m] \in Spans /\ segs[m].lo \in Int
        /\ \A m \in (n + 1)..Len(segs) : s.lo <= segs[m].lo
    <2>1. Len(segs) \in Nat /\ \A m \in 1..Len(segs) : segs[m] \in Spans
      BY LenProperties, ElementOfSeq DEF Ready
    <2>2. n \in Int /\ n >= 1 /\ n <= Len(segs)
      BY <2>1
    <2>3. \A m \in (n + 1)..Len(segs) : m \in 1..Len(segs) /\ n < m
      BY <2>1, <2>2
    <2>4. \A m \in 1..Len(segs) : n < m => s.lo <= segs[m].lo
      BY DEF Ready
    <2>5. \A f \in Spans : f.lo \in Int /\ f.hi \in Int
      BY DEF Spans
    <2>6. /\ e \in Spans
          /\ e.lo <= s.lo /\ s.lo < s.hi /\ s.hi <= e.hi
      BY DEF Ready
    <2> HIDE DEF s
    <2>7. s \in Spans
      BY <2>1 DEF s
    <2> QED
      BY <2>1, <2>2, <2>3, <2>4, <2>5, <2>6, <2>7
  <1>2. /\ st.cursor \in Int /\ st.free \in Seq(Spans) /\ e.lo <= st.cursor
        /\ \A k \in 1..Len(st.free) : st.free[k] \in Spans
    BY ElementOfSeq DEF Swept, Sweeps
  <1>3. /\ new.cursor = Larger(st.cursor, s.hi)
        /\ new.free = IF s.lo > st.cursor THEN Append(st.free, gap) ELSE st.free
        /\ new = [cursor |-> new.cursor, free |-> new.free]
    BY DEF Advance
  <1> HIDE DEF new, s
  <1>4. /\ new.cursor \in Int /\ st.cursor <= new.cursor /\ s.hi <= new.cursor
        /\ new.cursor = st.cursor \/ new.cursor = s.hi
    BY <1>1, <1>2, <1>3 DEF Larger
  <1>5. gap \in Spans
    BY <1>1, <1>2 DEF Spans
  <1>6. /\ new.free \in Seq(Spans)
        /\ \A k \in 1..Len(new.free) :
             \/ k \in 1..Len(st.free) /\ new.free[k] = st.free[k]
             \/ s.lo > st.cursor /\ new.free[k] = gap
        /\ \A x, y \in Int : Holds(new.free, x, y)
             <=> \/ Holds(st.free, x, y)
                 \/ s.lo > st.cursor /\ st.cursor <= x /\ y <= s.lo
    <2> HIDE DEF gap
    <2>1. gap.lo = st.cursor /\ gap.hi = s.lo
      BY DEF gap
    <2>2. CASE s.lo > st.cursor
      BY <1>2, <1>3, <1>5, <2>1, <2>2, OneMoreHolds
    <2>3. CASE ~(s.lo > st.cursor)
      BY <1>2, <1>3, <2>3
    <2> QED
      BY <2>2, <2>3
  <1>7. new \in Sweeps
    BY <1>3, <1>4, <1>6 DEF Sweeps
  <1>8. e.lo <= new.cursor
    BY <1>1, <1>2, <1>4
  <1>9. ASSUME NEW k \in 1..Len(new.free)
        PROVE  /\ e.lo <= new.free[k].lo /\ new.free[k].hi <= e.hi
               /\ \A m \in (n + 1)..Len(segs) : new.free[k].hi <= segs[m].lo
    <2>1. CASE k \in 1..Len(st.free) /\ new.free[k] = st.free[k]
      <3>1. /\ e.lo <= st.free[k].lo /\ st.free[k].hi <= e.hi
            /\ \A m \in (n - 1 + 1)..Len(segs) : st.free[k].hi <= segs[m].lo
        BY <2>1 DEF Swept
      <3>2. \A m \in (n + 1)..Len(segs) : m \in (n - 1 + 1)..Len(segs)
        BY <1>1
      <3> QED
        BY <2>1, <3>1, <3>2
    <2>2. CASE s.lo > st.cursor /\ new.free[k] = gap
      BY <1>1, <1>2, <2>2
    <2> QED
      BY <1>6, <2>1, <2>2
  <1>10. ASSUME NEW x \in Int, NEW y \in Int, e.lo <= x, x < y
         PROVE  Holds(new.free, x, y) \/ new.cursor <= x
                  <=> \A m \in 1..n : KeepsOut(segs[m], x, y)
    <2>1. Holds(st.free, x, y) \/ st.cursor <= x
            <=> \A m \in 1..(n - 1) : KeepsOut(segs[m], x, y)
      BY <1>10 DEF Swept
    <2>2. (\A m \in 1..n : KeepsOut(segs[m], x, y))
            <=> (\A m \in 1..(n - 1) : KeepsOut(segs[m], x, y)) /\ KeepsOut(s, x, y)
      <3>1. \A m \in 1..n : m \in 1..(n - 1) \/ m = n
        BY <1>1
      <3>2. n \in 1..n /\ \A m \in 1..(n - 1) : m \in 1..n
        BY <1>1
      <3> QED
        BY <3>1, <3>2 DEF s
    <2>3. Holds(st.free, x, y) => KeepsOut(s, x, y)
      <3> SUFFICES ASSUME NEW k \in 1..Len(st.free),
                          st.free[k].lo <= x, y <= st.free[k].hi
                   PROVE  y <= s.lo
        BY DEF Holds, KeepsOut
      <3>1. n \in (n - 1 + 1)..Len(segs)
        BY <1>1
      <3>2. st.free[k].hi <= s.lo
        BY <3>1 DEF Swept, s
      <3>3. st.free[k].hi \in Int
        BY <1>2 DEF Spans
      <3> QED
        BY <1>1, <3>2, <3>3
    <2>4. Holds(new.free, x, y)
            <=> \/ Holds(st.free, x, y)
                \/ s.lo > st.cursor /\ st.cursor <= x /\ y <= s.lo
      BY <1>6
    <2>5. KeepsOut(s, x, y) <=> y <= s.lo \/ s.hi <= x
      BY DEF KeepsOut
    <2>6. \/ Holds(st.free, x, y)
          \/ s.lo > st.cursor /\ st.cursor <= x /\ y <= s.lo
          \/ new.cursor <= x
          <=> (Holds(st.free, x, y) \/ st.cursor <= x) /\ KeepsOut(s, x, y)
      <3>1. CASE Holds(st.free, x, y)
        BY <2>3, <3>1
      <3>2. CASE ~Holds(st.free, x, y)
        <4>1. s.lo < s.hi /\ st.cursor <= new.cursor /\ s.hi <= new.cursor
          BY <1>1, <1>4
        <4> QED
          BY <1>1, <1>2, <1>4, <1>10, <2>5, <3>2, <4>1
      <3> QED
        BY <3>1, <3>2
    <2> QED
      BY <2>1, <2>2, <2>4, <2>6
  <1> QED
    BY <1>7, <1>8, <1>9, <1>10 DEF Swept, new, s

\* The recursive function of the sweep.
SweepFrom(f, segs, e) ==
  f = [n \in 0..Len(segs) |->
         IF n = 0 THEN [cursor |-> e.lo, free |-> <<>>]
         ELSE Advance(f[n - 1], segs[n])]

\* The loop of subtract_intervals has a run, and every run of it ends as Swept says.
LEMMA SweepRuns ==
  ASSUME NEW e, NEW segs, Ready(segs, e)
  PROVE  /\ \E f : SweepFrom(f, segs, e)
         /\ \A f : SweepFrom(f, segs, e) => Swept(segs, e, f[Len(segs)], Len(segs))
  <1> DEFINE L == Len(segs)
             base == [cursor |-> e.lo, free |-> <<>>]
  <1>1. L \in Nat /\ \A n \in 1..L : segs[n] \in Spans
    BY LenProperties, ElementOfSeq DEF Ready
  <1>2. base \in Sweeps
    BY EmptySeq DEF Ready, Spans, Sweeps
  <1>3. \A st \in Sweeps, n \in 1..L : Advance(st, segs[n]) \in Sweeps
    <2> SUFFICES ASSUME NEW st \in Sweeps, NEW n \in 1..L
                 PROVE  Advance(st, segs[n]) \in Sweeps
      OBVIOUS
    <2> DEFINE s == segs[n]
               gap == [lo |-> st.cursor, hi |-> s.lo]
    <2>1. s \in Spans /\ st.cursor \in Int /\ st.free \in Seq(Spans)
      BY <1>1 DEF Sweeps
    <2> HIDE DEF s
    <2>2. gap \in Spans
      BY <2>1 DEF Spans
    <2>3. Append(st.free, gap) \in Seq(Spans)
      BY <2>1, <2>2, OneMoreHolds
    <2>4. Larger(st.cursor, s.hi) \in Int
      BY <2>1 DEF Larger, Spans
    <2>5. Advance(st, s) \in Sweeps
      <3> HIDE DEF gap
      <3>1. Advance(st, s) = [cursor |-> Larger(st.cursor, s.hi),
                              free |-> IF s.lo > st.cursor THEN Append(st.free, gap)
                                       ELSE st.free]
        BY DEF Advance, gap
      <3> QED
        BY <2>1, <2>3, <2>4, <3>1 DEF Sweeps
    <2> QED
      BY <2>5 DEF s
  <1>4. \E f : SweepFrom(f, segs, e)
    <2> DEFINE step == [n \in 1..L |-> [st \in Sweeps |-> Advance(st, segs[n])]]
    <2>1. step \in [1..L -> [Sweeps -> Sweeps]]
      BY <1>3
    <2>2. PICK g : IsRun(g, L, Sweeps, base, step)
      <3> HIDE DEF step, L, base
      <3> QED
        BY <1>1, <1>2, <2>1, LoopRuns
    <2>3. ASSUME NEW n \in 1..L PROVE g[n] = Advance(g[n - 1], segs[n])
      <3>1. g[n - 1] \in Sweeps
        BY <1>1, <2>2 DEF IsRun
      <3>2. step[n][g[n - 1]] = Advance(g[n - 1], segs[n])
        BY <3>1
      <3> QED
        BY <2>2, <3>2 DEF IsRun
    <2>4. ASSUME NEW n \in 0..L
          PROVE  g[n] = IF n = 0 THEN base ELSE Advance(g[n - 1], segs[n])
      <3>1. n = 0 \/ n \in 1..L
        BY <1>1
      <3> HIDE DEF base
      <3> QED
        BY <2>2, <2>3, <3>1 DEF IsRun
    <2>5. g = [n \in 0..L |-> IF n = 0 THEN base ELSE Advance(g[n - 1], segs[n])]
      <3> HIDE DEF base
      <3> QED
        BY <2>2, <2>4 DEF IsRun
    <2>6. SweepFrom(g, segs, e)
      BY <2>5, Zenon DEF SweepFrom
    <2> QED
      BY <2>6
  <1>5. ASSUME NEW f, SweepFrom(f, segs, e) PROVE Swept(segs, e, f[L], L)
    <2>1. /\ f[0] = base
          /\ \A n \in 1..L : f[n] = Advance(f[n - 1], segs[n])
      <3>1. \A n \in 0..L : f[n] = IF n = 0 THEN base ELSE Advance(f[n - 1], segs[n])
        BY <1>5, Zenon DEF SweepFrom
      <3> HIDE DEF base
      <3> QED
        BY <1>1, <3>1
    <2> DEFINE S == {n \in 0..L : Swept(segs, e, f[n], n)}
    <2>2. 0 \in S
      <3>1. base.cursor = e.lo /\ base.free = <<>> /\ Len(base.free) = 0 /\ e.lo \in Int
        BY EmptySeq DEF Ready, Spans
      <3> HIDE DEF base
      <3>2. e.lo <= base.cursor
        BY <3>1
      <3>3. \A x, y \in Int : e.lo <= x /\ x < y =>
              (Holds(base.free, x, y) \/ base.cursor <= x
                 <=> \A m \in 1..0 : KeepsOut(segs[m], x, y))
        BY <3>1
      <3>4. Swept(segs, e, base, 0)
        BY <1>2, <3>1, <3>2, <3>3 DEF Swept
      <3> QED
        BY <1>1, <2>1, <3>4
    <2>3. ASSUME NEW n \in 1..L, n - 1 \in S PROVE n \in S
      <3>1. Swept(segs, e, f[n - 1], n - 1)
        BY <2>3
      <3>2. Swept(segs, e, f[n], n)
        BY <2>1, <3>1, AdvanceSweeps
      <3> QED
        BY <3>2
    <2>4. \A n \in 0..L : n \in S
      <3> HIDE DEF S, L
      <3> QED
        BY <1>1, <2>2, <2>3, LoopInduction
    <2> QED
      BY <1>1, <2>4
  <1> QED
    BY <1>4, <1>5

\* The image of a finite set is finite.
LEMMA ImageIsFinite ==
  ASSUME NEW S, IsFiniteSet(S), NEW f, DOMAIN f = S
  PROVE  IsFiniteSet({f[s] : s \in S})
  <1> DEFINE T == {f[s] : s \in S}
             g == [s \in S |-> f[s]]
  <1>1. g \in Surjection(S, T)
    BY DEF Surjection
  <1> HIDE DEF g, T
  <1>2. IsFiniteSet(T)
    BY <1>1, FS_Surjection
  <1> QED
    BY <1>2 DEF T

\* Clipped to the extent, the blocked spans keep in what they touch of it.
LEMMA ClippedIsReady ==
  ASSUME NEW e \in Spans, e.lo < e.hi,
         NEW blocked, blocked \subseteq Spans, IsFiniteSet(blocked),
         \A b \in blocked : b.lo < b.hi
  PROVE  LET S == Clipped(e, blocked)
         IN  /\ S \subseteq Spans /\ IsFiniteSet(S)
             /\ \A s \in S : e.lo <= s.lo /\ s.lo < s.hi /\ s.hi <= e.hi
             /\ \A x, y \in Int : e.lo <= x /\ x < y /\ y <= e.hi =>
                  ((\A s \in S : KeepsOut(s, x, y))
                     <=> \A b \in blocked : KeepsOut(b, x, y))
  <1> DEFINE S == Clipped(e, blocked)
             B == {c \in blocked : c.hi > e.lo /\ c.lo < e.hi}
             clip == [b \in B |-> [lo |-> Larger(e.lo, b.lo), hi |-> Smaller(e.hi, b.hi)]]
  <1>1. S = {clip[b] : b \in B}
    BY DEF Clipped
  <1>2. IsFiniteSet(B)
    BY FS_Subset
  <1>3. IsFiniteSet(S)
    <2>1. DOMAIN clip = B
      OBVIOUS
    <2> HIDE DEF clip, S
    <2> QED
      BY <1>1, <1>2, <2>1, ImageIsFinite
  <1>4. ASSUME NEW b \in B
        PROVE  /\ clip[b] \in Spans
               /\ clip[b].lo = Larger(e.lo, b.lo)
               /\ clip[b].hi = Smaller(e.hi, b.hi)
               /\ e.lo <= clip[b].lo /\ clip[b].lo < clip[b].hi /\ clip[b].hi <= e.hi
    <2>1. b.lo \in Int /\ b.hi \in Int /\ e.lo \in Int /\ e.hi \in Int
      BY DEF Spans
    <2> QED
      BY <2>1 DEF Larger, Smaller, Spans
  <1>5. ASSUME NEW x \in Int, NEW y \in Int, e.lo <= x, x < y, y <= e.hi
        PROVE  (\A s \in S : KeepsOut(s, x, y)) <=> \A b \in blocked : KeepsOut(b, x, y)
    <2>0. e.lo \in Int /\ e.hi \in Int /\ \A b \in blocked : b.lo \in Int /\ b.hi \in Int
      BY DEF Spans
    <2>1. ASSUME NEW b \in B PROVE KeepsOut(clip[b], x, y) <=> KeepsOut(b, x, y)
      <3>1. b.lo \in Int /\ b.hi \in Int
        BY <2>0
      <3> HIDE DEF clip
      <3> QED
        BY <1>4, <1>5, <2>0, <3>1 DEF KeepsOut, Larger, Smaller
    <2>2. ASSUME NEW b \in blocked, b \notin B PROVE KeepsOut(b, x, y)
      BY <1>5, <2>0, <2>2 DEF KeepsOut
    <2> HIDE DEF clip, S
    <2>3. (\A s \in S : KeepsOut(s, x, y)) <=> \A b \in B : KeepsOut(b, x, y)
      BY <1>1, <2>1
    <2>4. B \subseteq blocked
      OBVIOUS
    <2> HIDE DEF B
    <2> QED
      BY <2>2, <2>3, <2>4
  <1> HIDE DEF clip
  <1> QED
    BY <1>1, <1>3, <1>4, <1>5

\* subtract_intervals: the spans it leaves lie in the extent, and the hulls within
\* the extent that keep out of every blocked span are those that lie in one.
LEMMA SubtractLeavesTheClear ==
  ASSUME NEW e \in Spans,
         NEW blocked, blocked \subseteq Spans, IsFiniteSet(blocked),
         \A b \in blocked : b.lo < b.hi
  PROVE  LET free == SubtractIntervals(e, blocked)
         IN  /\ free \in Seq(Spans)
             /\ \A k \in 1..Len(free) : e.lo <= free[k].lo /\ free[k].hi <= e.hi
             /\ \A x, y \in Int : e.lo <= x /\ x < y /\ y <= e.hi =>
                  (Holds(free, x, y) <=> \A b \in blocked : KeepsOut(b, x, y))
  <1> DEFINE free == SubtractIntervals(e, blocked)
             segs == InOrder(Clipped(e, blocked), SpanBefore)
             L == Len(segs)
  <1>0. e.lo \in Int /\ e.hi \in Int
    BY DEF Spans
  <1>1. CASE e.hi <= e.lo
    <2>1. free = <<>>
      BY <1>1 DEF SubtractIntervals
    <2>2. free \in Seq(Spans) /\ Len(free) = 0
      BY <2>1, EmptySeq
    <2>3. \A x, y \in Int : ~(e.lo <= x /\ x < y /\ y <= e.hi)
      BY <1>0, <1>1
    <2>4. \A k \in 1..Len(free) : FALSE
      BY <2>2
    <2> HIDE DEF free
    <2> QED
      BY <2>2, <2>3, <2>4 DEF free
  <1>2. CASE e.lo < e.hi
    <2>1. /\ Clipped(e, blocked) \subseteq Spans /\ IsFiniteSet(Clipped(e, blocked))
          /\ \A s \in Clipped(e, blocked) :
               e.lo <= s.lo /\ s.lo < s.hi /\ s.hi <= e.hi
          /\ \A x, y \in Int : e.lo <= x /\ x < y /\ y <= e.hi =>
               ((\A s \in Clipped(e, blocked) : KeepsOut(s, x, y))
                  <=> \A b \in blocked : KeepsOut(b, x, y))
      BY <1>2, ClippedIsReady
    <2>2. /\ segs \in Seq(Spans)
          /\ \A k \in 1..L : segs[k] \in Clipped(e, blocked)
          /\ \A s \in Clipped(e, blocked) : \E k \in 1..L : segs[k] = s
          /\ \A j, k \in 1..L : j < k => segs[j].lo <= segs[k].lo
      BY <2>1, SpansInOrder
    <2> HIDE DEF segs
    <2>3. Ready(segs, e)
      BY <2>1, <2>2 DEF Ready
    <2> DEFINE sweep == CHOOSE f : SweepFrom(f, segs, e)
               last == sweep[L]
    <2>4. SweepFrom(sweep, segs, e)
      BY <2>3, SweepRuns
    <2>5. Swept(segs, e, last, L)
      BY <2>3, <2>4, SweepRuns
    <2>6. free = IF e.hi <= e.lo THEN <<>>
                 ELSE IF last.cursor < e.hi
                 THEN Append(last.free, [lo |-> last.cursor, hi |-> e.hi])
                 ELSE last.free
      BY DEF SubtractIntervals, SweepFrom, segs
    <2> HIDE DEF sweep, last, free
    <2>7. free = IF last.cursor < e.hi
                 THEN Append(last.free, [lo |-> last.cursor, hi |-> e.hi])
                 ELSE last.free
      BY <1>0, <1>2, <2>6
    <2>8. /\ last.cursor \in Int /\ last.free \in Seq(Spans) /\ e.lo <= last.cursor
          /\ \A k \in 1..Len(last.free) :
               e.lo <= last.free[k].lo /\ last.free[k].hi <= e.hi
          /\ \A x, y \in Int : e.lo <= x /\ x < y =>
               (Holds(last.free, x, y) \/ last.cursor <= x
                  <=> \A m \in 1..L : KeepsOut(segs[m], x, y))
      BY <2>5 DEF Swept, Sweeps
    <2> DEFINE end == [lo |-> last.cursor, hi |-> e.hi]
    <2>9. end \in Spans
      BY <1>0, <2>8 DEF Spans
    <2>10. end.lo = last.cursor /\ end.hi = e.hi
      OBVIOUS
    <2> HIDE DEF end
    <2>11. /\ free \in Seq(Spans)
           /\ \A k \in 1..Len(free) : e.lo <= free[k].lo /\ free[k].hi <= e.hi
           /\ \A x, y \in Int : Holds(free, x, y)
                <=> \/ Holds(last.free, x, y)
                    \/ last.cursor < e.hi /\ last.cursor <= x /\ y <= e.hi
      <3>1. CASE last.cursor < e.hi
        <4>1. free = Append(last.free, end)
          BY <2>7, <3>1 DEF end
        <4>2. e.hi <= e.hi
          BY <1>0
        <4> QED
          BY <2>8, <2>9, <2>10, <3>1, <4>1, <4>2, OneMoreHolds
      <3>2. CASE ~(last.cursor < e.hi)
        BY <2>7, <2>8, <3>2
      <3> QED
        BY <3>1, <3>2
    <2>12. ASSUME NEW x \in Int, NEW y \in Int, e.lo <= x, x < y, y <= e.hi
           PROVE  Holds(free, x, y) <=> \A b \in blocked : KeepsOut(b, x, y)
      <3>1. (\A m \in 1..L : KeepsOut(segs[m], x, y))
              <=> \A s \in Clipped(e, blocked) : KeepsOut(s, x, y)
        BY <2>2
      <3>2. last.cursor <= x => last.cursor < e.hi
        BY <1>0, <2>8, <2>12
      <3> QED
        BY <2>1, <2>8, <2>11, <2>12, <3>1, <3>2
    <2> QED
      BY <2>11, <2>12 DEF free
  <1> QED
    BY <1>0, <1>1, <1>2

\* The recursive function that keeps the spans as long as the hull exists, and
\* keeps those.
WideFrom(f, free, loa) ==
  f = [n \in 0..Len(free) |->
         IF n = 0 THEN <<>>
         ELSE IF free[n].hi - free[n].lo >= loa THEN Append(f[n - 1], free[n])
         ELSE f[n - 1]]

Widen(w, s, loa) == IF s.hi - s.lo >= loa THEN Append(w, s) ELSE w

Widened(w, free, loa, n) ==
  /\ w \in Seq(Spans)
  /\ \A k \in 1..Len(w) : \E m \in 1..n : w[k] = free[m] /\ w[k].hi - w[k].lo >= loa
  /\ \A x, y \in Int : y - x = loa =>
       (Holds(w, x, y) <=> \E m \in 1..n : free[m].lo <= x /\ y <= free[m].hi)

\* One iteration of the comprehension of feasible_bands keeps what Widened says.
LEMMA WidenKeepsTheWide ==
  ASSUME NEW free \in Seq(Spans), NEW loa \in Int, NEW n \in 1..Len(free),
         NEW w, Widened(w, free, loa, n - 1)
  PROVE  Widened(Widen(w, free[n], loa), free, loa, n)
  <1> DEFINE s == free[n]
             new == Widen(w, s, loa)
  <1>1. Len(free) \in Nat /\ n \in Int /\ 1 <= n /\ s \in Spans
    BY LenProperties, ElementOfSeq
  <1>2. s.lo \in Int /\ s.hi \in Int
    BY <1>1 DEF Spans
  <1>3. /\ w \in Seq(Spans)
        /\ \A k \in 1..Len(w) :
             \E m \in 1..(n - 1) : w[k] = free[m] /\ w[k].hi - w[k].lo >= loa
        /\ \A x, y \in Int : y - x = loa =>
             (Holds(w, x, y)
                <=> \E m \in 1..(n - 1) : free[m].lo <= x /\ y <= free[m].hi)
    BY DEF Widened
  <1>4. /\ \A m \in 1..(n - 1) : m \in 1..n
        /\ \A m \in 1..n : m \in 1..(n - 1) \/ m = n
        /\ n \in 1..n
    BY <1>1
  <1>5. /\ new \in Seq(Spans)
        /\ \A k \in 1..Len(new) :
             \/ k \in 1..Len(w) /\ new[k] = w[k]
             \/ new[k] = s /\ s.hi - s.lo >= loa
        /\ \A x, y \in Int : Holds(new, x, y)
             <=> Holds(w, x, y) \/ (s.hi - s.lo >= loa /\ s.lo <= x /\ y <= s.hi)
    <2> HIDE DEF s
    <2>1. CASE s.hi - s.lo >= loa
      BY <1>1, <1>3, <2>1, OneMoreHolds DEF Widen
    <2>2. CASE ~(s.hi - s.lo >= loa)
      BY <1>3, <2>2 DEF Widen
    <2> QED
      BY <2>1, <2>2
  <1> HIDE DEF new
  <1>6. \A k \in 1..Len(new) :
          \E m \in 1..n : new[k] = free[m] /\ new[k].hi - new[k].lo >= loa
    <2> SUFFICES ASSUME NEW k \in 1..Len(new)
                 PROVE  \E m \in 1..n : new[k] = free[m] /\ new[k].hi - new[k].lo >= loa
      OBVIOUS
    <2>1. CASE k \in 1..Len(w) /\ new[k] = w[k]
      BY <1>3, <1>4, <2>1
    <2>2. CASE new[k] = s /\ s.hi - s.lo >= loa
      BY <1>4, <2>2
    <2> QED
      BY <1>5, <2>1, <2>2
  <1>7. ASSUME NEW x \in Int, NEW y \in Int, y - x = loa
        PROVE  Holds(new, x, y) <=> \E m \in 1..n : free[m].lo <= x /\ y <= free[m].hi
    <2>1. s.lo <= x /\ y <= s.hi => s.hi - s.lo >= loa
      BY <1>2, <1>7
    <2>2. Holds(new, x, y) <=> Holds(w, x, y) \/ (s.lo <= x /\ y <= s.hi)
      BY <1>5, <2>1
    <2>3. Holds(w, x, y)
            <=> \E m \in 1..(n - 1) : free[m].lo <= x /\ y <= free[m].hi
      BY <1>3, <1>7
    <2> QED
      BY <1>4, <2>2, <2>3
  <1> QED
    BY <1>5, <1>6, <1>7 DEF Widened, new

\* The comprehension of feasible_bands has a run, and keeps just the wide spans.
LEMMA WideRuns ==
  ASSUME NEW free \in Seq(Spans), NEW loa \in Int
  PROVE  /\ \E f : WideFrom(f, free, loa)
         /\ \A f : WideFrom(f, free, loa) =>
              Widened(f[Len(free)], free, loa, Len(free))
  <1> DEFINE L == Len(free)
  <1>1. L \in Nat /\ \A n \in 1..L : free[n] \in Spans
    BY LenProperties, ElementOfSeq
  <1>2. <<>> \in Seq(Spans)
    BY EmptySeq
  <1>3. \A w \in Seq(Spans), n \in 1..L : Widen(w, free[n], loa) \in Seq(Spans)
    BY <1>1, OneMoreHolds DEF Widen
  <1>4. \E f : WideFrom(f, free, loa)
    <2> DEFINE step == [n \in 1..L |-> [w \in Seq(Spans) |-> Widen(w, free[n], loa)]]
    <2>1. step \in [1..L -> [Seq(Spans) -> Seq(Spans)]]
      BY <1>3
    <2>2. PICK g : IsRun(g, L, Seq(Spans), <<>>, step)
      <3> HIDE DEF step, L
      <3> QED
        BY <1>1, <1>2, <2>1, LoopRuns
    <2>3. ASSUME NEW n \in 1..L PROVE g[n] = Widen(g[n - 1], free[n], loa)
      <3>1. g[n - 1] \in Seq(Spans)
        BY <1>1, <2>2 DEF IsRun
      <3>2. step[n][g[n - 1]] = Widen(g[n - 1], free[n], loa)
        BY <3>1
      <3> QED
        BY <2>2, <3>2 DEF IsRun
    <2>4. ASSUME NEW n \in 0..L
          PROVE  g[n] = IF n = 0 THEN <<>>
                        ELSE IF free[n].hi - free[n].lo >= loa
                        THEN Append(g[n - 1], free[n])
                        ELSE g[n - 1]
      <3>1. n = 0 \/ n \in 1..L
        BY <1>1
      <3> QED
        BY <2>2, <2>3, <3>1 DEF IsRun, Widen
    <2>5. WideFrom(g, free, loa)
      BY <2>2, <2>4 DEF IsRun, WideFrom
    <2> QED
      BY <2>5
  <1>5. ASSUME NEW f, WideFrom(f, free, loa) PROVE Widened(f[L], free, loa, L)
    <2>1. /\ f[0] = <<>>
          /\ \A n \in 1..L : f[n] = Widen(f[n - 1], free[n], loa)
      <3>1. \A n \in 0..L : f[n] = IF n = 0 THEN <<>>
                                   ELSE IF free[n].hi - free[n].lo >= loa
                                   THEN Append(f[n - 1], free[n])
                                   ELSE f[n - 1]
        BY <1>5, Zenon DEF WideFrom
      <3> QED
        BY <1>1, <3>1 DEF Widen
    <2> DEFINE S == {n \in 0..L : Widened(f[n], free, loa, n)}
    <2>2. 0 \in S
      <3>1. Widened(<<>>, free, loa, 0)
        BY <1>2, EmptySeq DEF Widened, Holds
      <3> QED
        BY <1>1, <2>1, <3>1
    <2>3. ASSUME NEW n \in 1..L, n - 1 \in S PROVE n \in S
      <3>1. Widened(f[n - 1], free, loa, n - 1)
        BY <2>3
      <3>2. Widened(f[n], free, loa, n)
        BY <2>1, <3>1, WidenKeepsTheWide
      <3> QED
        BY <3>2
    <2>4. \A n \in 0..L : n \in S
      <3> HIDE DEF S, L
      <3> QED
        BY <1>1, <2>2, <2>3, LoopInduction
    <2> QED
      BY <1>1, <2>4
  <1> QED
    BY <1>4, <1>5

\* feasible_bands: bands as long as the hull or longer, whose placements are the
\* room there is.
LEMMA FeasibleBandsAreTheRoom ==
  ASSUME RangeAssumption, NEW e \in Stations, NEW loa \in Nat \ {0},
         NEW obstacles, obstacles \subseteq Stations, IsFiniteSet(obstacles),
         \A o \in obstacles : ~IsEmpty(o)
  PROVE  LET bands == FeasibleBands(e, obstacles, loa)
         IN  /\ bands \in Seq(Spans)
             /\ \A k \in 1..Len(bands) : bands[k].hi - bands[k].lo >= loa
             /\ UNION {PlacementRange(bands[n], loa) : n \in DOMAIN bands}
                  = Room(e, obstacles, loa)
  <1> DEFINE bands == FeasibleBands(e, obstacles, loa)
             blocked == Whole(obstacles)
             free == SubtractIntervals(e, blocked)
             pad == [o \in obstacles |-> [lo |-> o.lo - MooringGap, hi |-> o.hi + MooringGap]]
  <1>0. /\ e \in Spans /\ e.lo \in Int /\ e.hi \in Int /\ loa \in Int /\ MooringGap \in Nat
        /\ \A o \in obstacles : o.lo \in Int /\ o.hi \in Int /\ o.lo < o.hi
    BY DEF Stations, Spans, Empty, IsEmpty, RangeAssumption
  <1>1. blocked = {pad[o] : o \in obstacles}
    BY DEF Whole
  <1>2. IsFiniteSet(blocked)
    <2>1. DOMAIN pad = obstacles
      OBVIOUS
    <2> HIDE DEF pad, blocked
    <2> QED
      BY <1>1, <2>1, ImageIsFinite
  <1>3. ASSUME NEW o \in obstacles
        PROVE  /\ pad[o] \in Spans
               /\ pad[o].lo < pad[o].hi
               /\ pad[o].lo = o.lo - MooringGap /\ pad[o].hi = o.hi + MooringGap
    BY <1>0 DEF Spans
  <1> HIDE DEF pad, blocked
  <1>4. /\ free \in Seq(Spans)
        /\ \A k \in 1..Len(free) : e.lo <= free[k].lo /\ free[k].hi <= e.hi
        /\ \A x, y \in Int : e.lo <= x /\ x < y /\ y <= e.hi =>
             (Holds(free, x, y) <=> \A b \in blocked : KeepsOut(b, x, y))
    <2>1. blocked \subseteq Spans /\ \A b \in blocked : b.lo < b.hi
      BY <1>1, <1>3
    <2>2. e \in Spans
      BY <1>0
    <2> QED
      BY <1>2, <2>1, <2>2, SubtractLeavesTheClear
  <1>5. ASSUME NEW x \in Int, NEW y \in Int, y = x + loa
        PROVE  (\A b \in blocked : KeepsOut(b, x, y))
                 <=> \A o \in obstacles : KeepsClear(x, loa, o)
    <2>1. ASSUME NEW o \in obstacles
          PROVE  KeepsOut(pad[o], x, y) <=> KeepsClear(x, loa, o)
      BY <1>0, <1>3, <1>5 DEF KeepsOut, KeepsClear
    <2> QED
      BY <1>1, <2>1
  <1> HIDE DEF free
  <1> DEFINE wide == CHOOSE f : WideFrom(f, free, loa)
  <1>6. WideFrom(wide, free, loa)
    BY <1>0, <1>4, WideRuns
  <1>7. bands = wide[Len(free)]
    BY DEF FeasibleBands, WideFrom, free, blocked
  <1> HIDE DEF wide, bands
  <1>8. Widened(bands, free, loa, Len(free))
    BY <1>0, <1>4, <1>6, <1>7, WideRuns
  <1>9. /\ bands \in Seq(Spans)
        /\ \A k \in 1..Len(bands) : \E m \in 1..Len(free) :
             bands[k] = free[m] /\ bands[k].hi - bands[k].lo >= loa
        /\ \A x, y \in Int : y - x = loa => (Holds(bands, x, y) <=> Holds(free, x, y))
    BY <1>8 DEF Widened, Holds
  <1>10. ASSUME NEW k \in 1..Len(bands)
         PROVE  /\ bands[k].lo \in Int /\ bands[k].hi \in Int
                /\ e.lo <= bands[k].lo /\ bands[k].hi <= e.hi
    <2>1. bands[k] \in Spans
      BY <1>9, ElementOfSeq
    <2> QED
      BY <1>4, <1>9, <2>1 DEF Spans
  <1> DEFINE places == UNION {PlacementRange(bands[n], loa) : n \in DOMAIN bands}
  <1>11. DOMAIN bands = 1..Len(bands)
    BY <1>9, LenProperties
  <1>12. ASSUME NEW x \in Int
         PROVE  x \in places <=> Holds(bands, x, x + loa)
    <2>1. ASSUME NEW k \in 1..Len(bands)
          PROVE  x \in PlacementRange(bands[k], loa)
                   <=> bands[k].lo <= x /\ x + loa <= bands[k].hi
      BY <1>0, <1>10 DEF PlacementRange
    <2> QED
      BY <1>11, <2>1 DEF Holds
  <1>13. ASSUME NEW x \in Int
         PROVE  x \in places <=> x \in Room(e, obstacles, loa)
    <2> DEFINE y == x + loa
    <2>1. y \in Int /\ x < y /\ y - x = loa
      BY <1>0
    <2>2. Holds(bands, x, y) => e.lo <= x /\ y <= e.hi
      BY <1>0, <1>10, <2>1 DEF Holds
    <2>3. x \in Room(e, obstacles, loa) <=>
            e.lo <= x /\ y <= e.hi /\ \A o \in obstacles : KeepsClear(x, loa, o)
      BY <1>0 DEF Room
    <2>4. x \in places <=> Holds(bands, x, y)
      BY <1>12
    <2>5. (\A b \in blocked : KeepsOut(b, x, y))
            <=> \A o \in obstacles : KeepsClear(x, loa, o)
      BY <1>5, <2>1
    <2> HIDE DEF y, places
    <2>6. e.lo <= x /\ y <= e.hi =>
            (Holds(bands, x, y) <=> \A b \in blocked : KeepsOut(b, x, y))
      BY <1>4, <1>9, <2>1
    <2> QED
      BY <2>2, <2>3, <2>4, <2>5, <2>6
  <1>14. places \subseteq Int
    BY <1>10, <1>11 DEF PlacementRange
  <1>15. Room(e, obstacles, loa) \subseteq Int
    BY DEF Room
  <1>16. places = Room(e, obstacles, loa)
    <2> HIDE DEF places
    <2> QED
      BY <1>13, <1>14, <1>15
  <1>17. \A k \in 1..Len(bands) : bands[k].hi - bands[k].lo >= loa
    BY <1>9
  <1> QED
    BY <1>9, <1>16, <1>17 DEF bands

-----------------------------------------------------------------------------
(***************************************************************************)
(* candidate_slots.                                                        *)
(***************************************************************************)

\* A slot is called after a named berth, or open.
SlotNames == STRING \cup {"open"}

Slots == [start: Int, berth: SlotNames]

\* A slot in the reach of a band, and the slots found so far: no two at one place,
\* each within reach of some band.
InReach(slot, band, loa) == slot.start \in PlacementRange(band, loa)

WellPlaced(slots, bands, loa) ==
  /\ slots \subseteq Slots /\ IsFiniteSet(slots)
  /\ \A s, t \in slots : s.start = t.start => s = t
  /\ \A s \in slots : \E k \in 1..Len(bands) : InReach(s, bands[k], loa)

\* push() keeps the slots there are and sees to one at the start it is given.
LEMMA PushPlaces ==
  ASSUME NEW bands, NEW loa, NEW slots, WellPlaced(slots, bands, loa),
         NEW start \in Int, NEW name \in SlotNames,
         \E k \in 1..Len(bands) : start \in PlacementRange(bands[k], loa)
  PROVE  LET new == Push(slots, start, name)
         IN  /\ WellPlaced(new, bands, loa)
             /\ slots \subseteq new
             /\ \E s \in new : s.start = start
  <1>1. CASE \E s \in slots : s.start = start
    BY <1>1 DEF Push
  <1>2. CASE ~\E s \in slots : s.start = start
    <2> DEFINE n == [start |-> start, berth |-> name]
               new == slots \cup {n}
    <2>1. n \in Slots /\ n.start = start
      BY DEF Slots
    <2>2. Push(slots, start, name) = new
      BY <1>2 DEF Push
    <2> HIDE DEF n
    <2>3. new \subseteq Slots /\ IsFiniteSet(new)
      BY <2>1, FS_AddElement DEF WellPlaced
    <2>4. \A s, t \in new : s.start = t.start => s = t
      BY <1>2, <2>1 DEF WellPlaced
    <2>5. \A s \in new : \E k \in 1..Len(bands) : InReach(s, bands[k], loa)
      BY <2>1 DEF WellPlaced, InReach
    <2>6. n \in new /\ slots \subseteq new
      OBVIOUS
    <2> HIDE DEF new
    <2> QED
      BY <2>1, <2>2, <2>3, <2>4, <2>5, <2>6 DEF WellPlaced
  <1> QED
    BY <1>1, <1>2

\* Bands a hull fits into.
Fitting(bands, loa) ==
  /\ bands \in Seq(Spans)
  /\ loa \in Int
  /\ \A k \in 1..Len(bands) : bands[k].hi - bands[k].lo >= loa

\* The slots of the named berths: well placed, one in every band they cover.
PlacedSoFar(st, bands, loa) ==
  /\ st \in [slots: SUBSET Slots, covered: SUBSET (1..Len(bands))]
  /\ WellPlaced(st.slots, bands, loa)
  /\ \A k \in st.covered : \E s \in st.slots : InReach(s, bands[k], loa)

Berths == [name: STRING, lo: Int, hi: Int]

\* A berth takes a slot in the first band its hull touches it from, if any.
LEMMA PlaceCases ==
  ASSUME NEW bands, NEW loa, Fitting(bands, loa), NEW berth \in Berths, NEW st
  PROVE  \/ Place(st, berth, bands, loa) = st
         \/ \E k \in 1..Len(bands) : \E start \in PlacementRange(bands[k], loa) :
              /\ start \in Int
              /\ Place(st, berth, bands, loa)
                   = [slots   |-> Push(st.slots, start, berth.name),
                      covered |-> st.covered \cup {k}]
  <1> DEFINE fits  == {n \in DOMAIN bands : Touches(berth, bands[n], loa)}
             first == CHOOSE n \in fits : \A m \in fits : n <= m
  <1>1. DOMAIN bands = 1..Len(bands) /\ Len(bands) \in Nat
    BY LenProperties DEF Fitting
  <1>2. CASE fits = {}
    BY <1>2 DEF Place
  <1>3. CASE fits # {}
    <2>1. fits \subseteq Nat /\ fits \subseteq 1..Len(bands)
      BY <1>1
    <2>2. \E n \in fits : \A m \in fits : n <= m
      <3> HIDE DEF fits
      <3> QED
        BY <1>3, <2>1, NaturalsHaveALeast
    <2>3. first \in fits
      <3> HIDE DEF fits
      <3> QED
        BY <2>2
    <2> DEFINE start == SlotStart(berth, bands[first], loa)
    <2>4. Place(st, berth, bands, loa)
            = [slots   |-> Push(st.slots, start, berth.name),
               covered |-> st.covered \cup {first}]
      BY <1>3 DEF Place
    <2>5. first \in 1..Len(bands)
      BY <2>1, <2>3
    <2> HIDE DEF first
    <2>6. start \in Int /\ start \in PlacementRange(bands[first], loa)
      <3>1. bands[first] \in Spans
        BY <2>5, ElementOfSeq DEF Fitting
      <3>2. /\ bands[first].lo \in Int /\ bands[first].hi \in Int
            /\ loa \in Int /\ berth.lo \in Int
            /\ bands[first].hi - bands[first].lo >= loa
        BY <2>5, <3>1 DEF Spans, Fitting, Berths
      <3> QED
        BY <3>2 DEF SlotStart, Larger, Smaller, PlacementRange
    <2> QED
      BY <2>4, <2>5, <2>6
  <1> QED
    BY <1>2, <1>3

\* One named berth placed keeps what PlacedSoFar says.
LEMMA PlaceKeeps ==
  ASSUME NEW bands, NEW loa, Fitting(bands, loa), NEW berth \in Berths,
         NEW st, PlacedSoFar(st, bands, loa)
  PROVE  PlacedSoFar(Place(st, berth, bands, loa), bands, loa)
  <1> DEFINE new == Place(st, berth, bands, loa)
  <1>1. CASE new = st
    BY <1>1
  <1>2. ASSUME NEW k \in 1..Len(bands), NEW start \in PlacementRange(bands[k], loa),
               start \in Int,
               new = [slots   |-> Push(st.slots, start, berth.name),
                      covered |-> st.covered \cup {k}]
        PROVE  PlacedSoFar(new, bands, loa)
    <2> DEFINE more == Push(st.slots, start, berth.name)
    <2>1. /\ WellPlaced(more, bands, loa)
          /\ st.slots \subseteq more
          /\ \E s \in more : s.start = start
      <3>1. berth.name \in SlotNames
        BY DEF Berths, SlotNames
      <3>2. WellPlaced(st.slots, bands, loa)
        BY DEF PlacedSoFar
      <3> QED
        BY <1>2, <3>1, <3>2, PushPlaces
    <2> HIDE DEF more, new
    <2>2. new.slots = more /\ new.covered = st.covered \cup {k}
      BY <1>2 DEF more
    <2>3. new \in [slots: SUBSET Slots, covered: SUBSET (1..Len(bands))]
      <3>1. more \in SUBSET Slots
        BY <2>1 DEF WellPlaced
      <3>2. st.covered \cup {k} \in SUBSET (1..Len(bands))
        BY DEF PlacedSoFar
      <3> QED
        BY <1>2, <3>1, <3>2 DEF more
    <2>4. \A j \in new.covered : \E s \in new.slots : InReach(s, bands[j], loa)
      BY <2>1, <2>2 DEF PlacedSoFar, InReach
    <2> QED
      BY <2>1, <2>2, <2>3, <2>4 DEF PlacedSoFar
  <1> QED
    BY <1>1, <1>2, PlaceCases

\* The recursive function over the named berths.
PlacedFrom(f, bands, berths, loa) ==
  f = [n \in 0..Len(berths) |->
         IF n = 0 THEN [slots |-> {}, covered |-> {}]
         ELSE Place(f[n - 1], berths[n], bands, loa)]

\* The first loop of candidate_slots has a run, and its slots are well placed.
LEMMA PlacedRuns ==
  ASSUME NEW bands, NEW loa, Fitting(bands, loa), NEW berths \in Seq(Berths)
  PROVE  /\ \E f : PlacedFrom(f, bands, berths, loa)
         /\ \A f : PlacedFrom(f, bands, berths, loa) =>
              PlacedSoFar(f[Len(berths)], bands, loa)
  <1> DEFINE L == Len(berths)
             base == [slots |-> {}, covered |-> {}]
             D == {st \in [slots: SUBSET Slots, covered: SUBSET (1..Len(bands))] :
                     PlacedSoFar(st, bands, loa)}
  <1>1. L \in Nat /\ \A n \in 1..L : berths[n] \in Berths
    BY LenProperties, ElementOfSeq
  <1>2. PlacedSoFar(base, bands, loa)
    <2>1. base.slots = {} /\ base.covered = {}
      OBVIOUS
    <2>2. base \in [slots: SUBSET Slots, covered: SUBSET (1..Len(bands))]
      OBVIOUS
    <2> HIDE DEF base
    <2> QED
      BY <2>1, <2>2, FS_EmptySet DEF PlacedSoFar, WellPlaced
  <1>3. base \in D
    BY <1>2 DEF PlacedSoFar
  <1>4. \A st \in D, n \in 1..L : Place(st, berths[n], bands, loa) \in D
    <2> SUFFICES ASSUME NEW st \in D, NEW n \in 1..L
                 PROVE  Place(st, berths[n], bands, loa) \in D
      OBVIOUS
    <2>1. PlacedSoFar(Place(st, berths[n], bands, loa), bands, loa)
      BY <1>1, PlaceKeeps
    <2> QED
      BY <2>1 DEF PlacedSoFar
  <1>5. \E f : PlacedFrom(f, bands, berths, loa)
    <2> DEFINE step == [n \in 1..L |-> [st \in D |-> Place(st, berths[n], bands, loa)]]
    <2> HIDE DEF D, base
    <2>1. step \in [1..L -> [D -> D]]
      BY <1>4
    <2>2. PICK g : IsRun(g, L, D, base, step)
      <3> HIDE DEF step, L
      <3> QED
        BY <1>1, <1>3, <2>1, LoopRuns
    <2>3. ASSUME NEW n \in 1..L PROVE g[n] = Place(g[n - 1], berths[n], bands, loa)
      <3>1. g[n - 1] \in D
        BY <1>1, <2>2 DEF IsRun
      <3>2. step[n][g[n - 1]] = Place(g[n - 1], berths[n], bands, loa)
        BY <3>1
      <3> QED
        BY <2>2, <3>2 DEF IsRun
    <2>4. ASSUME NEW n \in 0..L
          PROVE  g[n] = IF n = 0 THEN base ELSE Place(g[n - 1], berths[n], bands, loa)
      <3>1. n = 0 \/ n \in 1..L
        BY <1>1
      <3> QED
        BY <2>2, <2>3, <3>1 DEF IsRun
    <2>5. g = [n \in 0..L |-> IF n = 0 THEN base
                              ELSE Place(g[n - 1], berths[n], bands, loa)]
      BY <2>2, <2>4 DEF IsRun
    <2>6. PlacedFrom(g, bands, berths, loa)
      BY <2>5, Zenon DEF PlacedFrom, base
    <2> QED
      BY <2>6
  <1>6. ASSUME NEW f, PlacedFrom(f, bands, berths, loa)
        PROVE  PlacedSoFar(f[L], bands, loa)
    <2>1. /\ f[0] = base
          /\ \A n \in 1..L : f[n] = Place(f[n - 1], berths[n], bands, loa)
      <3>1. \A n \in 0..L : f[n] = IF n = 0 THEN base
                                   ELSE Place(f[n - 1], berths[n], bands, loa)
        BY <1>6, Zenon DEF PlacedFrom
      <3> HIDE DEF base
      <3> QED
        BY <1>1, <3>1
    <2> DEFINE S == {n \in 0..L : PlacedSoFar(f[n], bands, loa)}
    <2>2. 0 \in S
      BY <1>1, <1>2, <2>1
    <2>3. ASSUME NEW n \in 1..L, n - 1 \in S PROVE n \in S
      <3>1. PlacedSoFar(f[n - 1], bands, loa)
        BY <2>3
      <3>2. PlacedSoFar(f[n], bands, loa)
        BY <1>1, <2>1, <3>1, PlaceKeeps
      <3> QED
        BY <3>2
    <2>4. \A n \in 0..L : n \in S
      <3> HIDE DEF S, L
      <3> QED
        BY <1>1, <2>2, <2>3, LoopInduction
    <2> QED
      BY <1>1, <2>4
  <1> QED
    BY <1>5, <1>6

\* The bands no berth covered are filled in turn.
FilledFrom(f, bands, named) ==
  f = [n \in 0..Len(bands) |->
         IF n = 0 THEN named.slots
         ELSE IF n \in named.covered THEN f[n - 1]
         ELSE Push(f[n - 1], bands[n].lo, "open")]

Fill(slots, n, bands, named) ==
  IF n \in named.covered THEN slots ELSE Push(slots, bands[n].lo, "open")

FilledSoFar(slots, bands, named, loa, n) ==
  /\ WellPlaced(slots, bands, loa)
  /\ named.slots \subseteq slots
  /\ \A k \in 1..n : \E s \in slots : InReach(s, bands[k], loa)

\* One band filled: the slots stay well placed, and a band no berth covered has one.
LEMMA FillPlaces ==
  ASSUME NEW bands, NEW loa, Fitting(bands, loa),
         NEW slots, WellPlaced(slots, bands, loa),
         NEW named, NEW n \in 1..Len(bands)
  PROVE  LET new == Fill(slots, n, bands, named)
         IN  /\ WellPlaced(new, bands, loa)
             /\ slots \subseteq new
             /\ n \notin named.covered => \E s \in new : InReach(s, bands[n], loa)
  <1>1. CASE n \in named.covered
    BY <1>1 DEF Fill
  <1>2. CASE n \notin named.covered
    <2>1. bands[n].lo \in Int /\ bands[n].lo \in PlacementRange(bands[n], loa)
      <3>1. bands[n] \in Spans
        BY ElementOfSeq DEF Fitting
      <3>2. /\ bands[n].lo \in Int /\ bands[n].hi \in Int /\ loa \in Int
            /\ bands[n].hi - bands[n].lo >= loa
        BY <3>1 DEF Spans, Fitting
      <3> QED
        BY <3>2 DEF PlacementRange
    <2>2. Fill(slots, n, bands, named) = Push(slots, bands[n].lo, "open")
      BY <1>2 DEF Fill
    <2>3. "open" \in SlotNames
      BY DEF SlotNames
    <2> QED
      BY <2>1, <2>2, <2>3, PushPlaces DEF InReach
  <1> QED
    BY <1>1, <1>2

\* The second loop of candidate_slots has a run, and leaves no band without a slot.
LEMMA FilledRuns ==
  ASSUME NEW bands, NEW loa, Fitting(bands, loa),
         NEW named, PlacedSoFar(named, bands, loa)
  PROVE  /\ \E f : FilledFrom(f, bands, named)
         /\ \A f : FilledFrom(f, bands, named) =>
              FilledSoFar(f[Len(bands)], bands, named, loa, Len(bands))
  <1> DEFINE L == Len(bands)
             D == {slots \in SUBSET Slots : WellPlaced(slots, bands, loa)}
  <1>1. L \in Nat
    BY LenProperties DEF Fitting
  <1>2. /\ named.slots \in D
        /\ WellPlaced(named.slots, bands, loa)
        /\ \A k \in named.covered : \E s \in named.slots : InReach(s, bands[k], loa)
    BY DEF PlacedSoFar, WellPlaced
  <1>3. \A slots \in D, n \in 1..L : Fill(slots, n, bands, named) \in D
    <2> SUFFICES ASSUME NEW slots \in D, NEW n \in 1..L
                 PROVE  Fill(slots, n, bands, named) \in D
      OBVIOUS
    <2>1. WellPlaced(Fill(slots, n, bands, named), bands, loa)
      BY FillPlaces
    <2> QED
      BY <2>1 DEF WellPlaced
  <1>4. \E f : FilledFrom(f, bands, named)
    <2> DEFINE step == [n \in 1..L |-> [slots \in D |-> Fill(slots, n, bands, named)]]
    <2> HIDE DEF D
    <2>1. step \in [1..L -> [D -> D]]
      BY <1>3
    <2>2. PICK g : IsRun(g, L, D, named.slots, step)
      <3> HIDE DEF step, L
      <3> QED
        BY <1>1, <1>2, <2>1, LoopRuns
    <2>3. ASSUME NEW n \in 1..L PROVE g[n] = Fill(g[n - 1], n, bands, named)
      <3>1. g[n - 1] \in D
        BY <1>1, <2>2 DEF IsRun
      <3>2. step[n][g[n - 1]] = Fill(g[n - 1], n, bands, named)
        BY <3>1
      <3> QED
        BY <2>2, <3>2 DEF IsRun
    <2>4. ASSUME NEW n \in 0..L
          PROVE  g[n] = IF n = 0 THEN named.slots
                        ELSE IF n \in named.covered THEN g[n - 1]
                        ELSE Push(g[n - 1], bands[n].lo, "open")
      <3>1. n = 0 \/ n \in 1..L
        BY <1>1
      <3> QED
        BY <2>2, <2>3, <3>1 DEF IsRun, Fill
    <2>5. FilledFrom(g, bands, named)
      BY <2>2, <2>4 DEF IsRun, FilledFrom
    <2> QED
      BY <2>5
  <1>5. ASSUME NEW f, FilledFrom(f, bands, named)
        PROVE  FilledSoFar(f[L], bands, named, loa, L)
    <2>1. /\ f[0] = named.slots
          /\ \A n \in 1..L : f[n] = Fill(f[n - 1], n, bands, named)
      <3>1. \A n \in 0..L : f[n] = IF n = 0 THEN named.slots
                                   ELSE IF n \in named.covered THEN f[n - 1]
                                   ELSE Push(f[n - 1], bands[n].lo, "open")
        BY <1>5, Zenon DEF FilledFrom
      <3> QED
        BY <1>1, <3>1 DEF Fill
    <2> DEFINE S == {n \in 0..L : FilledSoFar(f[n], bands, named, loa, n)}
    <2>2. 0 \in S
      BY <1>1, <1>2, <2>1 DEF FilledSoFar
    <2>3. ASSUME NEW n \in 1..L, n - 1 \in S PROVE n \in S
      <3> DEFINE old == f[n - 1]
                 new == f[n]
      <3>1. FilledSoFar(old, bands, named, loa, n - 1)
        BY <2>3
      <3>2. new = Fill(old, n, bands, named)
        BY <2>1
      <3> HIDE DEF old, new
      <3>3. /\ WellPlaced(new, bands, loa)
            /\ old \subseteq new
            /\ n \notin named.covered => \E s \in new : InReach(s, bands[n], loa)
        BY <3>1, <3>2, FillPlaces DEF FilledSoFar
      <3>4. named.slots \subseteq new
        BY <3>1, <3>3 DEF FilledSoFar
      <3>5. ASSUME NEW k \in 1..n PROVE \E s \in new : InReach(s, bands[k], loa)
        <4>1. k = n \/ k \in 1..(n - 1)
          OBVIOUS
        <4>2. CASE k \in 1..(n - 1)
          BY <3>1, <3>3, <4>2 DEF FilledSoFar
        <4>3. CASE k = n
          BY <1>2, <3>3, <3>4, <4>3
        <4> QED
          BY <4>1, <4>2, <4>3
      <3>6. FilledSoFar(new, bands, named, loa, n)
        BY <3>3, <3>4, <3>5 DEF FilledSoFar
      <3> QED
        BY <1>1, <3>6 DEF new
    <2>4. \A n \in 0..L : n \in S
      <3> HIDE DEF S, L
      <3> QED
        BY <1>1, <2>2, <2>3, LoopInduction
    <2> QED
      BY <1>1, <2>4
  <1> QED
    BY <1>4, <1>5

\* The slots in order: each of them, by rising start.
LEMMA SlotsInOrder ==
  ASSUME NEW S, S \subseteq Slots, IsFiniteSet(S),
         \A s, t \in S : s.start = t.start => s = t
  PROVE  LET seq == InOrder(S, StartsBefore)
         IN  /\ seq \in Seq(Slots)
             /\ \A k \in 1..Len(seq) : seq[k] \in S
             /\ \A s \in S : \E k \in 1..Len(seq) : seq[k] = s
             /\ \A j, k \in 1..Len(seq) : j < k => seq[j].start < seq[k].start
  <1> DEFINE n == Cardinality(S)
             seq == InOrder(S, StartsBefore)
             R == {p \in S \X S : StartsBefore(p[1], p[2])}
  <1>0. n \in Nat
    BY FS_CardinalityType
  <1>1. \A s, t \in S : <<s, t>> \in R <=> StartsBefore(s, t)
    OBVIOUS
  <1>2. Orders(R, S)
    <2>1. \A s \in S : s.start \in Int
      BY DEF Slots
    <2>2. \A s \in S : ~StartsBefore(s, s)
      BY <2>1 DEF StartsBefore
    <2>3. \A s, t \in S : s = t \/ StartsBefore(s, t) \/ StartsBefore(t, s)
      BY <2>1 DEF StartsBefore
    <2>4. \A s, t, u \in S :
            StartsBefore(s, t) /\ StartsBefore(t, u) => StartsBefore(s, u)
      BY <2>1 DEF StartsBefore
    <2> HIDE DEF R
    <2> QED
      BY <1>1, <2>2, <2>3, <2>4 DEF Orders
  <1>3. \A s \in S : Below(s, S, R) = {t \in S : StartsBefore(t, s)}
    BY DEF Below
  <1>4. DOMAIN seq = 1..n
    BY DEF InOrder
  <1>5. ASSUME NEW k \in 1..n, \E s \in S : Cardinality(Below(s, S, R)) = k - 1
        PROVE  seq[k] \in S /\ Cardinality(Below(seq[k], S, R)) = k - 1
    <2>1. seq[k] = CHOOSE s \in S : Cardinality({t \in S : StartsBefore(t, s)}) = k - 1
      BY DEF InOrder
    <2>2. \E s \in S : Cardinality({t \in S : StartsBefore(t, s)}) = k - 1
      BY <1>3, <1>5
    <2> HIDE DEF seq
    <2>3. /\ seq[k] \in S
          /\ Cardinality({t \in S : StartsBefore(t, seq[k])}) = k - 1
      BY <2>1, <2>2, Zenon
    <2> QED
      BY <1>3, <2>3
  <1>6. seq = [k \in 1..n |-> seq[k]]
    <2> DEFINE At(k) == CHOOSE s \in S : Cardinality({t \in S : StartsBefore(t, s)}) = k - 1
    <2>1. seq = [k \in 1..n |-> At(k)]
      BY DEF InOrder
    <2> HIDE DEF seq, At
    <2> QED
      BY <2>1
  <1> HIDE DEF seq, R, n
  <1>7. Ranked(seq, S, R)
    BY <1>4, <1>5 DEF Ranked, n
  <1>8. /\ \A k \in 1..n : seq[k] \in S
        /\ \A s \in S : \E k \in 1..n : seq[k] = s
        /\ \A j, k \in 1..n : j < k => <<seq[j], seq[k]>> \in R
    <2>1. /\ \A k \in DOMAIN seq : seq[k] \in S
          /\ \A s \in S : \E k \in DOMAIN seq : seq[k] = s
          /\ \A j, k \in DOMAIN seq : j < k => <<seq[j], seq[k]>> \in R
      BY <1>2, <1>7, RankedSequence, Zenon
    <2> QED
      BY <1>4, <2>1
  <1>9. seq \in Seq(Slots) /\ Len(seq) = n
    BY <1>0, <1>6, <1>8, IsASeq
  <1>10. \A j, k \in 1..n : j < k => seq[j].start < seq[k].start
    BY <1>1, <1>8 DEF StartsBefore
  <1> QED
    BY <1>8, <1>9, <1>10 DEF seq

\* candidate_slots: a slot in every band, every slot in a band, no two at one place.
LEMMA SlotsCoverFittingBands ==
  ASSUME NEW bands, NEW loa, Fitting(bands, loa), NEW berths \in Seq(Berths)
  PROVE  LET slots == CandidateSlots(bands, berths, loa)
         IN  /\ slots \in Seq(Slots)
             /\ \A k \in 1..Len(bands) : \E n \in 1..Len(slots) :
                  InReach(slots[n], bands[k], loa)
             /\ \A n \in 1..Len(slots) : \E k \in 1..Len(bands) :
                  InReach(slots[n], bands[k], loa)
             /\ \A n, m \in 1..Len(slots) : n < m => slots[n].start < slots[m].start
  <1> DEFINE placed == CHOOSE f : PlacedFrom(f, bands, berths, loa)
             named == placed[Len(berths)]
             filled == CHOOSE f : FilledFrom(f, bands, named)
             all == filled[Len(bands)]
             slots == CandidateSlots(bands, berths, loa)
  <1>1. PlacedFrom(placed, bands, berths, loa)
    BY PlacedRuns
  <1>2. NamedSlots(bands, berths, loa) = named
    BY DEF NamedSlots, PlacedFrom
  <1> HIDE DEF placed
  <1>3. PlacedSoFar(named, bands, loa)
    BY <1>1, PlacedRuns
  <1> HIDE DEF named
  <1>4. FilledFrom(filled, bands, named)
    BY <1>3, FilledRuns
  <1>5. slots = InOrder(all, StartsBefore)
    BY <1>2 DEF CandidateSlots, FilledFrom
  <1> HIDE DEF filled
  <1>6. FilledSoFar(all, bands, named, loa, Len(bands))
    BY <1>3, <1>4, FilledRuns
  <1> HIDE DEF all, slots
  <1>7. /\ all \subseteq Slots /\ IsFiniteSet(all)
        /\ \A s, t \in all : s.start = t.start => s = t
        /\ \A s \in all : \E k \in 1..Len(bands) : InReach(s, bands[k], loa)
        /\ \A k \in 1..Len(bands) : \E s \in all : InReach(s, bands[k], loa)
    BY <1>6 DEF FilledSoFar, WellPlaced
  <1>8. /\ slots \in Seq(Slots)
        /\ \A k \in 1..Len(slots) : slots[k] \in all
        /\ \A s \in all : \E k \in 1..Len(slots) : slots[k] = s
        /\ \A j, k \in 1..Len(slots) : j < k => slots[j].start < slots[k].start
    BY <1>5, <1>7, SlotsInOrder
  <1>9. \A k \in 1..Len(bands) : \E n \in 1..Len(slots) :
          InReach(slots[n], bands[k], loa)
    <2> SUFFICES ASSUME NEW k \in 1..Len(bands)
                 PROVE  \E n \in 1..Len(slots) : InReach(slots[n], bands[k], loa)
      OBVIOUS
    <2>1. PICK s \in all : InReach(s, bands[k], loa)
      BY <1>7
    <2> QED
      BY <1>8, <2>1
  <1>10. \A n \in 1..Len(slots) : \E k \in 1..Len(bands) :
           InReach(slots[n], bands[k], loa)
    BY <1>7, <1>8
  <1> QED
    BY <1>8, <1>9, <1>10 DEF slots

-----------------------------------------------------------------------------
(***************************************************************************)
(* The offer.                                                              *)
(***************************************************************************)

USE FeasibilityAssumption, RangeAssumption

\* A hull that keeps the whole gap from a row is clear of it for the exclusion
\* constraint, which pads each of the two by half the gap (migration 0007).
LEMMA ClearIsNoConflict ==
  ASSUME NEW start \in Int, NEW o \in Stations, KeepsClear(start, Hull, o)
  PROVE  ~PaddedOverlaps([lo |-> start, hi |-> start + Hull], o)
  BY DEF KeepsClear, PaddedOverlaps, Padded, IsEmpty, Stations, Empty

\* The picker sends the bow, as a Dock No. and with a heading; the PATCH handler
\* turns them back into the footprint that was offered (_bow_popa,
\* _station_from_bow).
LEMMA BowRoundTrip ==
  ASSUME NEW start \in Int, NEW row \in SubjectRow
  PROVE  LET d == OfferedHeading(row)
         IN  StationFromBow(DockToPopa(PopaToDock(BowPopa(start, Hull, d))),
                            d, Hull)
               = [lo |-> start, hi |-> start + Hull]
  <1>1. OfferedHeading(row) \in {"upstream", "downstream"}
    BY DEF OfferedHeading, SubjectRow, Directions
  <1>2. CASE OfferedHeading(row) = "upstream"
    BY <1>2 DEF StationFromBow, DockToPopa, PopaToDock, BowPopa
  <1>3. CASE OfferedHeading(row) = "downstream"
    BY <1>3 DEF StationFromBow, DockToPopa, PopaToDock, BowPopa
  <1> QED
    BY <1>1, <1>2, <1>3

\* The rows on the board, the subject and the bows of the picker keep their types.
Typed ==
  /\ board \subseteq Rows /\ IsFiniteSet(board)
  /\ subject \in SubjectRow
  /\ \/ offer = NoOffer
     \/ /\ \A n \in DOMAIN offer :
             offer[n].bow \in Int /\ offer[n].direction \in Directions
        /\ Len(offer) <= MaxCandidates

\* What confirmCandidate sends makes a planned row of the one it is sent for.
LEMMA ConfirmedType ==
  ASSUME NEW row \in SubjectRow, NEW c,
         c.bow \in Int, c.direction \in Directions
  PROVE  Confirmed(row, c) \in SubjectRow
  <1>1. StationFromBow(DockToPopa(c.bow), c.direction, Hull) \in Stations
    BY DEF StationFromBow, DockToPopa, Stations
  <1> QED
    BY <1>1 DEF Confirmed, SubjectRow, Planned

\* A candidate keeps the place of its slot and says whether the water there is
\* shallow; the row a click makes of it has that place and the old window.
LEMMA CandidateIsItsSlot ==
  ASSUME NEW slot, slot.start \in Int, subject \in SubjectRow
  PROVE  LET c == Candidate(slot)
             s == [lo |-> slot.start, hi |-> slot.start + Hull]
         IN  /\ c.bow \in Int
             /\ c.direction \in Directions
             /\ c.start = slot.start
             /\ c.shallow = TooShallow(s)
             /\ Confirmed(subject, c).time = subject.time
             /\ Confirmed(subject, c).station = s
  <1> DEFINE c == Candidate(slot)
             d == OfferedHeading(subject)
             s == [lo |-> slot.start, hi |-> slot.start + Hull]
  <1>1. /\ c.start = slot.start
        /\ c.direction = d
        /\ c.bow = PopaToDock(BowPopa(slot.start, Hull, d))
        /\ c.shallow = TooShallow(s)
    BY DEF Candidate
  <1>2. d \in Directions
    BY DEF OfferedHeading, SubjectRow, Directions
  <1>3. PopaToDock(BowPopa(slot.start, Hull, d)) \in Int
    BY DEF PopaToDock, BowPopa
  <1>4. StationFromBow(DockToPopa(c.bow), c.direction, Hull) = s
    BY <1>1, BowRoundTrip
  <1> HIDE DEF c, d, s
  <1>5. /\ Confirmed(subject, c).time = subject.time
        /\ Confirmed(subject, c).station = s
    BY <1>4 DEF Confirmed
  <1> QED
    BY <1>1, <1>2, <1>3, <1>5 DEF c, s

\* The rows that share the window of the subject are obstacles of the oracle.
LEMMA ObstaclesType ==
  ASSUME Typed
  PROVE  LET obstacles == Obstacles(board, subject.time)
         IN  /\ obstacles \subseteq Stations /\ IsFiniteSet(obstacles)
             /\ \A o \in obstacles : ~IsEmpty(o)
  <1> DEFINE near == {q \in board : /\ q.status \in Occupying
                                   /\ ~IsEmpty(q.station)
                                   /\ TimeOverlaps(q.time, subject.time)}
             station == [r \in near |-> r.station]
             obstacles == Obstacles(board, subject.time)
  <1>1. obstacles = {station[r] : r \in near}
    BY DEF Obstacles
  <1>2. IsFiniteSet(near)
    BY FS_Subset DEF Typed
  <1>3. IsFiniteSet(obstacles)
    <2>1. DOMAIN station = near
      OBVIOUS
    <2> HIDE DEF station, near, obstacles
    <2> QED
      BY <1>1, <1>2, <2>1, ImageIsFinite
  <1>4. \A r \in near : station[r] \in Stations /\ ~IsEmpty(station[r])
    BY DEF Typed, BoardRow
  <1> HIDE DEF station, near, obstacles
  <1>5. obstacles \subseteq Stations /\ \A o \in obstacles : ~IsEmpty(o)
    BY <1>1, <1>4
  <1> QED
    BY <1>3, <1>5 DEF obstacles

\* In every typed state the bands are the room there is and a hull fits into each.
LEMMA BandsOfTheBoard ==
  ASSUME Typed
  PROVE  Fitting(Bands, Hull) /\ BandsAreTheRoom
  <1> DEFINE obstacles == Obstacles(board, subject.time)
  <1>1. /\ obstacles \subseteq Stations /\ IsFiniteSet(obstacles)
        /\ \A o \in obstacles : ~IsEmpty(o)
    BY ObstaclesType
  <1>2. Bands = FeasibleBands(Extent, obstacles, Hull)
    BY DEF Bands
  <1> HIDE DEF obstacles
  <1>3. /\ Bands \in Seq(Spans)
        /\ \A k \in 1..Len(Bands) : Bands[k].hi - Bands[k].lo >= Hull
        /\ UNION {PlacementRange(Bands[n], Hull) : n \in DOMAIN Bands}
             = Room(Extent, obstacles, Hull)
    BY <1>1, <1>2, FeasibleBandsAreTheRoom
  <1>4. Fitting(Bands, Hull)
    BY <1>3 DEF Fitting
  <1>5. BandsAreTheRoom
    BY <1>3 DEF BandsAreTheRoom, obstacles
  <1> QED
    BY <1>4, <1>5

\* And the slots are a sequence of slots that covers the bands.
LEMMA SlotsOfTheBoard ==
  ASSUME Typed
  PROVE  CandidateSlots(Bands, Catalog, Hull) \in Seq(Slots) /\ SlotsCoverTheBands
  <1> DEFINE slots == CandidateSlots(Bands, Catalog, Hull)
  <1>1. Fitting(Bands, Hull)
    BY BandsOfTheBoard
  <1>2. Catalog \in Seq(Berths)
    BY DEF Berths
  <1>3. /\ slots \in Seq(Slots)
        /\ \A k \in 1..Len(Bands) : \E n \in 1..Len(slots) :
             InReach(slots[n], Bands[k], Hull)
        /\ \A n \in 1..Len(slots) : \E k \in 1..Len(Bands) :
             InReach(slots[n], Bands[k], Hull)
        /\ \A n, m \in 1..Len(slots) : n < m => slots[n].start < slots[m].start
    BY <1>1, <1>2, SlotsCoverFittingBands
  <1> HIDE DEF slots
  <1>4. DOMAIN slots = 1..Len(slots) /\ DOMAIN Bands = 1..Len(Bands)
    BY <1>1, <1>3, LenProperties DEF Fitting
  <1>5. SlotsCoverTheBands
    BY <1>3, <1>4 DEF SlotsCoverTheBands, InReach, slots
  <1> QED
    BY <1>3, <1>5 DEF slots

\* The slots of a fresh offer, which lie in bands that are the room there is, are
\* confirmed as they are shown.
LEMMA FreshFromRoom ==
  ASSUME Typed
  PROVE  FreshOfferConfirms
  <1> DEFINE slots == CandidateSlots(Bands, Catalog, Hull)
  <1> SUFFICES ASSUME NEW n \in DOMAIN Candidates
               PROVE  LET c   == Candidates[n]
                          row == Confirmed(subject, c)
                      IN  /\ row.station = [lo |-> c.start, hi |-> c.start + Hull]
                          /\ Admitted(row, board)
                          /\ TooShallow(row.station) => c.shallow
    BY DEF FreshOfferConfirms
  <1>1. n \in DOMAIN slots /\ Candidates[n] = Candidate(slots[n])
    BY DEF Candidates
  <1> DEFINE start == slots[n].start
             row   == Confirmed(subject, Candidates[n])
  <1>2. PICK k \in DOMAIN Bands : start \in PlacementRange(Bands[k], Hull)
    BY <1>1, SlotsOfTheBoard DEF SlotsCoverTheBands
  <1>3. start \in Room(Extent, Obstacles(board, subject.time), Hull)
    BY <1>2, BandsOfTheBoard DEF BandsAreTheRoom
  <1>4. start \in Int
    BY <1>3 DEF Room, Stations, Empty
  <1>5. \A o \in Obstacles(board, subject.time) : KeepsClear(start, Hull, o)
    BY <1>3 DEF Room
  <1>6. subject \in SubjectRow
    BY DEF Typed
  <1>7. /\ row.time = subject.time
        /\ row.station = [lo |-> start, hi |-> start + Hull]
        /\ Candidates[n].start = start
        /\ Candidates[n].shallow
             = TooShallow([lo |-> start, hi |-> start + Hull])
    BY <1>1, <1>4, <1>6, CandidateIsItsSlot
  <1> HIDE DEF row, start
  <1>8. ASSUME NEW r \in board, r.status = "confirmed"
        PROVE  ~WharfConflict(row, r)
    <2>1. r.station \in Stations
      BY DEF Typed, BoardRow
    <2>2. CASE IsEmpty(r.station)
      <3>1. Padded(r.station) = r.station
        BY <2>2 DEF Padded
      <3> QED
        BY <2>2, <3>1 DEF WharfConflict, PaddedOverlaps
    <2>3. CASE ~IsEmpty(r.station) /\ TimeOverlaps(r.time, subject.time)
      <3>1. r.station \in Obstacles(board, subject.time)
        BY <1>8, <2>3 DEF Obstacles, Occupying, Planned
      <3>2. ~PaddedOverlaps([lo |-> start, hi |-> start + Hull], r.station)
        BY <1>4, <1>5, <2>1, <3>1, ClearIsNoConflict
      <3> QED
        BY <1>7, <3>2 DEF WharfConflict
    <2>4. CASE ~TimeOverlaps(r.time, subject.time)
      BY <1>7, <2>4 DEF WharfConflict, TimeOverlaps
    <2> QED
      BY <2>2, <2>3, <2>4
  <1>9. Admitted(row, board)
    BY <1>8 DEF Admitted
  <1> QED
    BY <1>7, <1>9 DEF row

\* The menu stops at MAX_CANDIDATES.
LEMMA MenuIsShort ==
  ASSUME Typed
  PROVE  Len(Candidates) <= MaxCandidates
  <1> DEFINE slots == CandidateSlots(Bands, Catalog, Hull)
             m     == Smaller(Len(slots), MaxCandidates)
             D     == {Candidate(slots[n]) : n \in 1..m}
  <1>1. slots \in Seq(Slots)
    BY SlotsOfTheBoard
  <1>2. DOMAIN slots = 1..Len(slots) /\ Len(slots) \in Nat
    BY <1>1, LenProperties
  <1>3. MaxCandidates \in Nat
    BY FeasibilityAssumption
  <1>4. m \in Nat /\ m <= MaxCandidates
    BY <1>2, <1>3 DEF Smaller
  <1>5. {k \in DOMAIN slots : k <= MaxCandidates} = 1..m
    BY <1>2, <1>3 DEF Smaller
  <1>6. Candidates = [n \in 1..m |-> Candidate(slots[n])]
    BY <1>5 DEF Candidates
  <1> HIDE DEF slots, m
  <1>7. Candidates \in Seq(D)
    BY <1>4, <1>6, SeqDef
  <1>8. DOMAIN Candidates = 1..Len(Candidates) /\ Len(Candidates) \in Nat
    BY <1>7, LenProperties
  <1>9. 1..Len(Candidates) = 1..m
    BY <1>6, <1>8
  <1>10. Len(Candidates) = m
    <2> DEFINE L == Len(Candidates)
    <2>1. L \in Nat /\ 1..L = 1..m
      BY <1>8, <1>9
    <2> HIDE DEF L
    <2>2. ~(L < m)
      <3>1. L < m => m \in 1..m /\ m \notin 1..L
        BY <1>4, <2>1
      <3> QED
        BY <2>1, <3>1
    <2>3. ~(m < L)
      <3>1. m < L => L \in 1..L /\ L \notin 1..m
        BY <1>4, <2>1
      <3> QED
        BY <2>1, <3>1
    <2> QED
      BY <1>4, <2>1, <2>2, <2>3 DEF L
  <1> QED
    BY <1>4, <1>10

\* Every step keeps the types.
LEMMA TypedIsKept ==
  ASSUME Typed, [Next]_vars
  PROVE  Typed'
  <1>1. ASSUME NEW r \in Rows, OthersTake(r)
        PROVE  Typed'
    BY <1>1, FS_AddElement DEF OthersTake, Typed
  <1>2. ASSUME NEW r \in board, OthersRelease(r)
        PROVE  Typed'
    BY <1>2, FS_RemoveElement DEF OthersRelease, Typed
  <1>3. CASE FindBerth
    <2> DEFINE slots == CandidateSlots(Bands, Catalog, Hull)
    <2>1. \A n \in DOMAIN Candidates :
            n \in DOMAIN slots /\ Candidates[n] = Candidate(slots[n])
      BY DEF Candidates
    <2>2. \A n \in DOMAIN slots : slots[n].start \in Int
      <3>1. slots \in Seq(Slots)
        BY SlotsOfTheBoard
      <3> HIDE DEF slots
      <3>2. \A n \in 1..Len(slots) : slots[n] \in Slots
        BY <3>1, ElementOfSeq
      <3>3. DOMAIN slots = 1..Len(slots)
        BY <3>1, LenProperties
      <3>4. \A s \in Slots : s.start \in Int
        BY DEF Slots
      <3> QED
        BY <3>2, <3>3, <3>4
    <2> HIDE DEF slots
    <2>3. \A n \in DOMAIN Candidates :
            /\ Candidates[n].bow \in Int
            /\ Candidates[n].direction \in Directions
      BY <2>1, <2>2, CandidateIsItsSlot DEF Typed
    <2> QED
      BY <1>3, <2>3, MenuIsShort DEF FindBerth, Typed
  <1>4. ASSUME offer # NoOffer, NEW n \in DOMAIN offer, ConfirmCandidate(n)
        PROVE  Typed'
    <2>1. Confirmed(subject, offer[n]) \in SubjectRow
      BY <1>4, ConfirmedType DEF Typed
    <2> QED
      BY <1>4, <2>1 DEF ConfirmCandidate, Typed
  <1>5. CASE ClosePicker
    BY <1>5 DEF ClosePicker, Typed
  <1>6. CASE UNCHANGED vars
    BY <1>6 DEF vars, Typed
  <1> QED
    BY <1>1, <1>2, <1>3, <1>4, <1>5, <1>6 DEF Next

\* The types hold in every reachable state.
\* The types hold in every reachable state.
LEMMA TypedAlways == Spec => []Typed
  <1>1. Init => Typed
    BY FS_EmptySet DEF Init, Typed
  <1>2. Typed /\ [Next]_vars => Typed'
    BY TypedIsKept
  <1> QED
    BY <1>1, <1>2, PTL DEF Spec

\* The board, the row and the menu keep their types (feasibility.py).
THEOREM FeasibilityTypeOK == Spec => []TypeOK
  <1>1. Typed => TypeOK
    BY DEF Typed, TypeOK
  <1> QED
    BY <1>1, TypedAlways, PTL

\* The bands of find_berth are exactly the room there is: a hull may start at a
\* station of the placement range of some band if and only if it keeps inside the
\* wharf and the whole gap from every row that shares its window
\* (subtract_intervals, feasible_bands, placement_range).
THEOREM BandsAreRoom == Spec => []BandsAreTheRoom
  <1>1. Typed => BandsAreTheRoom
    BY BandsOfTheBoard
  <1> QED
    BY <1>1, TypedAlways, PTL

\* Every band offers a slot inside it, every slot lies in a band, and no two slots
\* are the same place (candidate_slots).
THEOREM SlotsCoverBands == Spec => []SlotsCoverTheBands
  <1>1. Typed => SlotsCoverTheBands
    BY SlotsOfTheBoard
  <1> QED
    BY <1>1, TypedAlways, PTL

\* An offer computed in any reachable state can be confirmed as it is shown: no
\* 409, and no 422 but for the slots shown shallow (feasibility.py, forms.js,
\* edit.py).
THEOREM OfferIsHonoured == Spec => []FreshOfferConfirms
  <1>1. Typed => FreshOfferConfirms
    BY FreshFromRoom
  <1> QED
    BY <1>1, TypedAlways, PTL
=============================================================================
