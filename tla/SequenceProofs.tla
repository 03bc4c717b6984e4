--------------------------- MODULE SequenceProofs ---------------------------
(***************************************************************************)
(* Facts about numbers and folds that other proofs need.  Induction comes  *)
(* from the least member of a set of numbers, so that what it is over is a *)
(* set and not an operator; a fold is followed from one position to the    *)
(* next by a function that solves its recursion.                           *)
(***************************************************************************)
EXTENDS SequencesExt, WellFoundedInduction, TLAPS

\* Numbers have a least among them.
LEMMA LeastMember ==
  ASSUME NEW T, T \subseteq Nat, T # {}
  PROVE  \E x \in T : \A y \in T : x <= y
<1> DEFINE R == {ss \in Nat \X Nat : ss[1] < ss[2]}
<1>1. IsWellFoundedOn(R, Nat)
  BY NatLessThanWellFounded DEF OpToRel
<1>2. \E x \in T : \A y \in T : ~ (<<y, x>> \in R)
  <2> HIDE DEF R
  <2> QED
    BY <1>1, WFMin, Zenon
<1>3. PICK x \in T : \A y \in T : ~ (<<y, x>> \in R)
  BY <1>2
<1>4. ASSUME NEW y \in T PROVE x <= y
  <2>1. x \in Nat /\ y \in Nat
    OBVIOUS
  <2>2. <<y, x>> \in Nat \X Nat /\ <<y, x>>[1] = y /\ <<y, x>>[2] = x
    BY <2>1
  <2>3. ~ (y < x)
    BY <1>3, <2>2
  <2> QED
    BY <2>1, <2>3
<1> QED
  BY <1>4

\* A set with 0 and the next of each of its numbers has all numbers.
LEMMA InductiveSet ==
  ASSUME NEW S, 0 \in S, \A n \in Nat : n \in S => n + 1 \in S
  PROVE  Nat \subseteq S
<1> DEFINE T == Nat \ S
<1>1. SUFFICES ASSUME T # {} PROVE FALSE
  OBVIOUS
<1>2. PICK x \in T : \A y \in T : x <= y
  BY <1>1, LeastMember
<1>3. x # 0 /\ x - 1 \in Nat /\ x - 1 \notin T
  BY <1>2
<1> QED
  BY <1>3

\* The values of a computation: it begins with c, and makes step n with step.
Steps(g, c, step) == /\ g[0] = c
                     /\ \A n \in Nat : g[n + 1] = step[<<g[n], n + 1>>]

\* A value can be computed step by step.
LEMMA Iteration ==
  ASSUME NEW S, NEW c \in S, NEW step \in [S \X Nat -> S]
  PROVE  \E g \in [Nat -> S] : Steps(g, c, step)
<1> DEFINE Partial(p, n) == /\ p[0] = c
                            /\ \A m \in 1..n : p[m] = step[<<p[m - 1], m>>]
           Has == {n \in Nat : \E p \in [0..n -> S] : Partial(p, n)}
<1>1. 0 \in Has
  <2>1. [i \in 0..0 |-> c] \in [0..0 -> S]
    OBVIOUS
  <2>2. Partial([i \in 0..0 |-> c], 0)
    OBVIOUS
  <2> QED
    BY <2>1, <2>2
<1>2. ASSUME NEW n \in Nat, n \in Has PROVE n + 1 \in Has
  <2>1. PICK p \in [0..n -> S] : Partial(p, n)
    BY <1>2
  <2> DEFINE q == [m \in 0..(n + 1) |-> IF m = n + 1 THEN step[<<p[n], n + 1>>]
                                        ELSE p[m]]
  <2>2. step[<<p[n], n + 1>>] \in S
    OBVIOUS
  <2>3. q \in [0..(n + 1) -> S]
    BY <2>2
  <2>4. q[0] = c
    BY <2>1
  <2>5. ASSUME NEW m \in 1..(n + 1) PROVE q[m] = step[<<q[m - 1], m>>]
    <3>1. m - 1 \in 0..n /\ q[m - 1] = p[m - 1]
      OBVIOUS
    <3>2. CASE m = n + 1
      BY <3>1, <3>2
    <3>3. CASE m # n + 1
      <4>1. m \in 1..n /\ m \in 0..(n + 1) /\ q[m] = p[m]
        BY <3>3
      <4> QED
        BY <2>1, <3>1, <4>1
    <3> QED
      BY <3>2, <3>3
  <2> HIDE DEF q
  <2>6. Partial(q, n + 1)
    BY <2>4, <2>5
  <2>7. n + 1 \in Nat
    OBVIOUS
  <2> QED
    BY <2>3, <2>6, <2>7
<1>3. Nat \subseteq Has
  <2> HIDE DEF Has
  <2> QED
    BY <1>1, <1>2, InductiveSet
<1> DEFINE P(n) == CHOOSE p \in [0..n -> S] : Partial(p, n)
           g == [n \in Nat |-> P(n)[n]]
<1>4. ASSUME NEW n \in Nat PROVE P(n) \in [0..n -> S] /\ Partial(P(n), n)
  BY <1>3
<1>5. ASSUME NEW n \in Nat, NEW k \in Nat, NEW p, NEW q, Partial(p, n), Partial(q, k), n <= k
      PROVE  p[n] = q[n]
  <2> DEFINE Same == {m \in Nat : m <= n => p[m] = q[m]}
  <2>1. 0 \in Same
    BY <1>5
  <2>2. ASSUME NEW m \in Nat, m \in Same PROVE m + 1 \in Same
    <3>1. SUFFICES ASSUME m + 1 <= n PROVE p[m + 1] = q[m + 1]
      OBVIOUS
    <3>2. p[m] = q[m]
      BY <2>2, <3>1
    <3>3. m + 1 \in 1..n /\ m + 1 \in 1..k /\ (m + 1) - 1 = m
      BY <1>5, <3>1
    <3> QED
      BY <1>5, <3>2, <3>3
  <2>3. Nat \subseteq Same
    <3> HIDE DEF Same
    <3> QED
      BY <2>1, <2>2, InductiveSet
  <2> QED
    BY <2>3
<1> HIDE DEF P
<1>6. g \in [Nat -> S]
  BY <1>4
<1>7. g[0] = c
  BY <1>4
<1>8. ASSUME NEW n \in Nat PROVE g[n + 1] = step[<<g[n], n + 1>>]
  <2>1. P(n + 1)[n + 1] = step[<<P(n + 1)[n], n + 1>>]
    BY <1>4
  <2>2. P(n)[n] = P(n + 1)[n]
    <3>1. n + 1 \in Nat /\ n <= n + 1
      OBVIOUS
    <3>2. Partial(P(n), n) /\ Partial(P(n + 1), n + 1)
      BY <1>4, <3>1
    <3> HIDE DEF Partial
    <3> QED
      BY <1>5, <3>1, <3>2
  <2> QED
    BY <2>1, <2>2
<1> QED
  BY <1>6, <1>7, <1>8 DEF Steps

\* What holds at the first of some consecutive numbers, and at the next of each,
\* holds at all of them.
LEMMA IntervalInduction ==
  ASSUME NEW n \in Nat, NEW S, 0 \in S,
         \A m \in 0..(n - 1) : m \in S => m + 1 \in S
  PROVE  0..n \subseteq S
<1> DEFINE T == {m \in Nat : m <= n => m \in S}
<1>1. 0 \in T
  OBVIOUS
<1>2. ASSUME NEW m \in Nat, m \in T PROVE m + 1 \in T
  <2>1. SUFFICES ASSUME m + 1 <= n PROVE m + 1 \in S
    OBVIOUS
  <2>2. m \in 0..(n - 1) /\ m \in S
    BY <1>2, <2>1
  <2> QED
    BY <2>2
<1>3. Nat \subseteq T
  <2> HIDE DEF T
  <2> QED
    BY <1>1, <1>2, InductiveSet
<1> QED
  BY <1>3

\* The greatest of the first n positions is the last.
LEMMA MaxOfInterval ==
  ASSUME NEW n \in Nat \ {0}
  PROVE  Max(1..n) = n
<1>1. n \in 1..n /\ \A y \in 1..n : n >= y
  OBVIOUS
<1>2. \A x \in 1..n : (\A y \in 1..n : x >= y) => x = n
  BY <1>1
<1> QED
  BY <1>1, <1>2 DEF Max

\* A set of numbers up to n has a largest one.
LEMMA MaxOfNumbers ==
  ASSUME NEW n \in Nat, NEW T, T \subseteq 0..n, T # {}
  PROVE  Max(T) \in T /\ \A y \in T : y <= Max(T)
<1> DEFINE D == {n - y : y \in T}
<1>1. PICK d \in D : \A e \in D : d <= e
  <2>1. \A y \in T : n - y \in Nat
    OBVIOUS
  <2>2. D \subseteq Nat /\ D # {}
    BY <2>1
  <2> HIDE DEF D
  <2> QED
    BY <2>2, LeastMember
<1>2. PICK x \in T : d = n - x
  BY <1>1
<1>3. ASSUME NEW y \in T PROVE x >= y
  <2>1. n - x <= n - y
    BY <1>1, <1>2
  <2>2. x \in 0..n /\ y \in 0..n
    OBVIOUS
  <2> QED
    BY <2>1, <2>2
<1> QED
  BY <1>3 DEF Max

\* A solution of the recursion by which FoldLeft is defined: the value of a
\* set of positions is the step at the last of them from the value of the rest.
Solves(g, n, base, step) ==
  \A T \in SUBSET (1..n) :
    g[T] = IF T = {} THEN base ELSE step[<<g[T \ {Max(T)}], Max(T)>>]

\* There is one, when the steps stay in a set of values: a solution for m
\* positions gives one for m + 1.
LEMMA FoldSolution ==
  ASSUME NEW S, NEW base \in S, NEW n \in Nat, NEW step \in [S \X (1..n) -> S]
  PROVE  \E g \in [SUBSET (1..n) -> S] : Solves(g, n, base, step)
<1> DEFINE Has == {m \in Nat : \E g \in [SUBSET (1..m) -> S] : Solves(g, m, base, step)}
<1>1. 0 \in Has
  <2> DEFINE g == [T \in SUBSET (1..0) |-> base]
  <2>1. g \in [SUBSET (1..0) -> S] /\ \A T \in SUBSET (1..0) : T = {} /\ g[T] = base
    OBVIOUS
  <2>2. Solves(g, 0, base, step)
    BY <2>1 DEF Solves
  <2> QED
    BY <2>1, <2>2
<1>2. ASSUME NEW m \in 0..(n - 1), m \in Has
      PROVE  m + 1 \in Has
  <2>1. PICK g \in [SUBSET (1..m) -> S] : Solves(g, m, base, step)
    BY <1>2
  <2> DEFINE next == m + 1
             h == [T \in SUBSET (1..next) |->
                     IF next \in T THEN step[<<g[T \ {next}], next>>] ELSE g[T]]
  <2>2. next \in 1..n /\ m \in Nat /\ next = m + 1
    OBVIOUS
  <2> HIDE DEF next
  <2>3. ASSUME NEW T \in SUBSET (1..next)
        PROVE  /\ T \ {next} \in SUBSET (1..m)
               /\ next \notin T => T \in SUBSET (1..m)
    BY <2>2
  <2>4. h \in [SUBSET (1..next) -> S]
    <3>1. ASSUME NEW T \in SUBSET (1..next), next \in T
          PROVE  step[<<g[T \ {next}], next>>] \in S
      <4>1. g[T \ {next}] \in S
        BY <2>3
      <4> QED
        BY <2>2, <4>1
    <3>2. ASSUME NEW T \in SUBSET (1..next), next \notin T
          PROVE  g[T] \in S
      BY <2>3, <3>2
    <3> QED
      BY <3>1, <3>2
  <2>5. ASSUME NEW T \in SUBSET (1..next)
        PROVE  h[T] = IF T = {} THEN base ELSE step[<<h[T \ {Max(T)}], Max(T)>>]
    <3>1. CASE next \in T
      <4>1. Max(T) = next
        <5>1. \A y \in T : y \in 1..next
          OBVIOUS
        <5>2. \A y \in T : next >= y
          BY <2>2, <5>1
        <5>3. ASSUME NEW x \in T, \A y \in T : x >= y PROVE x = next
          BY <2>2, <3>1, <5>1, <5>3
        <5> QED
          BY <3>1, <5>2, <5>3 DEF Max
      <4>2. h[T \ {next}] = g[T \ {next}]
        OBVIOUS
      <4> QED
        BY <3>1, <4>1, <4>2
    <3>2. CASE next \notin T
      <4>1. T \in SUBSET (1..m) /\ h[T] = g[T]
        BY <2>3, <3>2
      <4>2. T # {} => h[T \ {Max(T)}] = g[T \ {Max(T)}]
        BY <3>2
      <4> QED
        BY <2>1, <4>1, <4>2 DEF Solves
    <3> QED
      BY <3>1, <3>2
  <2> HIDE DEF h
  <2>6. Solves(h, next, base, step)
    BY <2>5 DEF Solves
  <2>7. next \in Nat
    BY <2>2
  <2> QED
    BY <2>2, <2>4, <2>6, <2>7
<1>3. n \in Has
  <2> HIDE DEF Has
  <2> QED
    BY <1>1, <1>2, IntervalInduction
<1> QED
  BY <1>3

\* The first k + 1 positions are the first k and a last one.
LEMMA FirstPositions ==
  ASSUME NEW n \in Nat, NEW k \in 0..(n - 1)
  PROVE  /\ 1..(k + 1) \in SUBSET (1..n) /\ 1..(k + 1) # {}
         /\ (1..(k + 1)) \ {k + 1} = 1..k
         /\ Max(1..(k + 1)) = k + 1
<1>1. k + 1 \in Nat \ {0}
  OBVIOUS
<1>2. Max(1..(k + 1)) = k + 1
  BY <1>1, MaxOfInterval
<1>3. 1..(k + 1) \in SUBSET (1..n) /\ 1..(k + 1) # {}
  OBVIOUS
<1>4. (1..(k + 1)) \ {k + 1} = 1..k
  OBVIOUS
<1> QED
  BY <1>2, <1>3, <1>4

\* What a solution gives the first positions is the fold over them.
LEMMA FoldPrefixes ==
  ASSUME NEW n \in Nat, NEW g, NEW base, NEW step, Solves(g, n, base, step)
  PROVE  /\ g[1..0] = base
         /\ \A k \in 0..(n - 1) : g[1..(k + 1)] = step[<<g[1..k], k + 1>>]
<1>1. g[1..0] = base
  <2>1. 1..0 \in SUBSET (1..n) /\ 1..0 = {}
    OBVIOUS
  <2> QED
    BY <2>1 DEF Solves
<1>2. ASSUME NEW k \in 0..(n - 1)
      PROVE  g[1..(k + 1)] = step[<<g[1..k], k + 1>>]
  BY FirstPositions DEF Solves
<1> QED
  BY <1>1, <1>2

\* The parts of a sequence that is made of others, one after the other: part k
\* begins behind position off[k - 1], and nothing is between the parts.
Parts(seqs, off, all) ==
  /\ off \in [0..Len(seqs) -> Nat]
  /\ off[0] = 0
  /\ Len(all) = off[Len(seqs)]
  /\ \A k \in 1..Len(seqs) :
       /\ off[k] = off[k - 1] + Len(seqs[k])
       /\ \A j \in 1..Len(seqs[k]) :
            off[k - 1] + j \in 1..Len(all) /\ all[off[k - 1] + j] = seqs[k][j]
  /\ \A x \in 1..Len(all) :
       \E k \in 1..Len(seqs) : \E j \in 1..Len(seqs[k]) : x = off[k - 1] + j

\* FlattenSeq, step by step.
LEMMA FlattenSteps ==
  ASSUME NEW S, NEW seqs \in Seq(Seq(S))
  PROVE  \E pre \in [0..Len(seqs) -> Seq(S)] :
           /\ pre[0] = <<>>
           /\ \A m \in 0..(Len(seqs) - 1) : pre[m + 1] = pre[m] \o seqs[m + 1]
           /\ FlattenSeq(seqs) = pre[Len(seqs)]
<1> DEFINE n == Len(seqs)
           Q == Seq(S)
           step == [x \in Q \X Nat |-> IF x[2] \in 1..n THEN x[1] \o seqs[x[2]] ELSE x[1]]
<1>1. n \in Nat /\ \A m \in 1..n : seqs[m] \in Q
  OBVIOUS
<1>2. step \in [Q \X Nat -> Q]
  BY <1>1
<1>3. PICK g \in [Nat -> Q] : Steps(g, <<>>, step)
  <2>1. <<>> \in Q
    OBVIOUS
  <2> HIDE DEF Q, step
  <2> QED
    BY <1>2, <2>1, Iteration
<1>4. g[0] = <<>> /\ \A m \in 0..(n - 1) : g[m + 1] = g[m] \o seqs[m + 1]
  <2>1. ASSUME NEW m \in 0..(n - 1) PROVE g[m + 1] = g[m] \o seqs[m + 1]
    <3>1. m \in Nat /\ m + 1 \in Nat /\ m + 1 \in 1..n
      BY <1>1
    <3>2. g[m + 1] = step[<<g[m], m + 1>>]
      BY <1>3, <3>1 DEF Steps
    <3>3. <<g[m], m + 1>> \in Q \X Nat
      BY <3>1
    <3> QED
      BY <3>1, <3>2, <3>3
  <2> QED
    BY <1>3, <2>1 DEF Steps
<1> DEFINE pre == [m \in 0..n |-> g[m]]
<1>5. /\ pre \in [0..n -> Q] /\ pre[0] = <<>>
      /\ \A m \in 0..(n - 1) : pre[m + 1] = pre[m] \o seqs[m + 1]
  <2>1. \A m \in 0..(n - 1) : m \in 0..n /\ m + 1 \in 0..n
    BY <1>1
  <2>2. pre \in [0..n -> Q]
    OBVIOUS
  <2>3. \A m \in 0..n : pre[m] = g[m]
    OBVIOUS
  <2>4. 0 \in 0..n
    BY <1>1
  <2> HIDE DEF n, Q, pre, step
  <2> QED
    BY <1>4, <2>1, <2>2, <2>3, <2>4
<1>6. FlattenSeq(seqs) = pre[n]
  <2>1. CASE n = 0
    <3>1. seqs = <<>>
      BY <2>1
    <3> QED
      BY <1>5, <2>1, <3>1 DEF FlattenSeq
  <2>2. CASE n # 0
    <3> DEFINE P(f) == f = [i \in 1..n |-> IF i = 1 THEN seqs[i] ELSE f[i - 1] \o seqs[i]]
               flat == CHOOSE f : P(f)
               h == [i \in 1..n |-> g[i]]
    <3>1. P(h)
      <4>1. ASSUME NEW i \in 1..n
            PROVE  g[i] = IF i = 1 THEN seqs[i] ELSE h[i - 1] \o seqs[i]
        <5>1. i - 1 \in 0..(n - 1) /\ (i - 1) + 1 = i
          BY <1>1
        <5>2. g[i] = g[i - 1] \o seqs[i]
          BY <1>4, <5>1
        <5>3. CASE i = 1
          <6>1. g[i - 1] = <<>>
            BY <1>4, <5>3
          <6>2. seqs[i] \in Seq(S)
            BY <1>1
          <6>3. <<>> \o seqs[i] = seqs[i]
            BY <6>2
          <6> QED
            BY <5>2, <5>3, <6>1, <6>3
        <5>4. CASE i # 1
          <6>1. i - 1 \in 1..n
            BY <1>1, <5>4
          <6> QED
            BY <5>2, <5>4, <6>1
        <5> QED
          BY <5>3, <5>4
      <4> HIDE DEF n
      <4> QED
        BY <4>1
    <3>2. P(flat)
      <4> HIDE DEF P, h
      <4> QED
        BY <3>1
    <3>3. FlattenSeq(seqs) = flat[n]
      BY <2>2, Zenon DEF FlattenSeq
    <3> HIDE DEF flat
    <3> DEFINE Same == {m \in 0..n : m # 0 => flat[m] = g[m]}
    <3>4. 0 \in Same
      BY <1>1
    <3>5. ASSUME NEW m \in 0..(n - 1), m \in Same PROVE m + 1 \in Same
      <4>1. m + 1 \in 1..n /\ (m + 1) - 1 = m
        BY <1>1
      <4>2. flat[m + 1] = IF m + 1 = 1 THEN seqs[m + 1] ELSE flat[m] \o seqs[m + 1]
        BY <3>2, <4>1
      <4>3. h[m + 1] = IF m + 1 = 1 THEN seqs[m + 1] ELSE h[m] \o seqs[m + 1]
        BY <3>1, <4>1
      <4>4. h[m + 1] = g[m + 1] /\ m + 1 \in 0..n
        BY <4>1
      <4>5. CASE m = 0
        <5>1. flat[m + 1] = seqs[m + 1] /\ h[m + 1] = seqs[m + 1]
          BY <4>2, <4>3, <4>5
        <5> HIDE DEF h, n
        <5> QED
          BY <4>4, <5>1
      <4>6. CASE m # 0
        <5>1. m \in 1..n /\ m + 1 # 1
          BY <1>1, <4>6
        <5>2. h[m] = g[m] /\ flat[m] = g[m]
          BY <3>5, <5>1
        <5>3. flat[m + 1] = g[m] \o seqs[m + 1] /\ h[m + 1] = g[m] \o seqs[m + 1]
          BY <4>2, <4>3, <5>1, <5>2
        <5> HIDE DEF h, n
        <5> QED
          BY <4>4, <5>3
      <4> QED
        BY <4>5, <4>6
    <3>6. n \in Same
      <4>1. n \in 0..n
        BY <1>1
      <4> HIDE DEF Same, n
      <4> QED
        BY <1>1, <3>4, <3>5, <4>1, IntervalInduction
    <3> QED
      BY <1>1, <2>2, <3>3, <3>6
  <2> QED
    BY <2>1, <2>2
<1> HIDE DEF pre
<1> QED
  BY <1>5, <1>6

\* FlattenSeq puts sequences one after the other.
LEMMA Flattened ==
  ASSUME NEW S, NEW seqs \in Seq(Seq(S))
  PROVE  /\ FlattenSeq(seqs) \in Seq(S)
         /\ \E off : Parts(seqs, off, FlattenSeq(seqs))
<1> DEFINE n == Len(seqs)
<1>1. n \in Nat /\ \A m \in 1..n : seqs[m] \in Seq(S) /\ Len(seqs[m]) \in Nat
  OBVIOUS
<1>2. PICK pre \in [0..n -> Seq(S)] :
        /\ pre[0] = <<>>
        /\ \A m \in 0..(n - 1) : pre[m + 1] = pre[m] \o seqs[m + 1]
        /\ FlattenSeq(seqs) = pre[n]
  BY FlattenSteps
<1> DEFINE off == [m \in 0..n |-> Len(pre[m])]
           Kept(m) == \A k \in 1..m : \A j \in 1..Len(seqs[k]) :
                        /\ off[k - 1] + j \in 1..Len(pre[m])
                        /\ pre[m][off[k - 1] + j] = seqs[k][j]
           Whole(m) == \A x \in 1..Len(pre[m]) :
                         \E k \in 1..m : \E j \in 1..Len(seqs[k]) : x = off[k - 1] + j
           G == {m \in 0..n : Kept(m) /\ Whole(m)}
<1> HIDE DEF n
<1>3. /\ off \in [0..n -> Nat] /\ off[0] = 0
      /\ \A m \in 0..n : off[m] = Len(pre[m])
  <2>1. 0 \in 0..n /\ \A m \in 0..n : Len(pre[m]) \in Nat
    BY <1>1, <1>2
  <2> QED
    BY <1>2, <2>1
<1> HIDE DEF off
<1>4. ASSUME NEW m \in 0..(n - 1)
      PROVE  /\ m \in 0..n /\ m + 1 \in 0..n /\ m + 1 \in 1..n
             /\ off[m] \in Nat /\ pre[m] \in Seq(S) /\ Len(pre[m]) = off[m]
             /\ seqs[m + 1] \in Seq(S) /\ Len(seqs[m + 1]) \in Nat
             /\ off[m + 1] = off[m] + Len(seqs[m + 1])
             /\ Len(pre[m + 1]) = off[m + 1]
             /\ \A x \in 1..off[m] : pre[m + 1][x] = pre[m][x]
             /\ \A j \in 1..Len(seqs[m + 1]) : pre[m + 1][off[m] + j] = seqs[m + 1][j]
  <2>1. m \in 0..n /\ m + 1 \in 0..n /\ m + 1 \in 1..n
    BY <1>1
  <2>2. /\ pre[m] \in Seq(S) /\ seqs[m + 1] \in Seq(S)
        /\ pre[m + 1] = pre[m] \o seqs[m + 1]
    BY <1>1, <1>2, <2>1
  <2>3. off[m] = Len(pre[m]) /\ off[m + 1] = Len(pre[m + 1]) /\ off[m] \in Nat
    BY <1>3, <2>1
  <2> DEFINE a == pre[m]
             b == seqs[m + 1]
             c == pre[m + 1]
  <2> HIDE DEF a, b, c
  <2>4. a \in Seq(S) /\ b \in Seq(S) /\ c = a \o b
    BY <2>2 DEF a, b, c
  <2>5. /\ Len(c) = Len(a) + Len(b) /\ Len(b) \in Nat
        /\ \A x \in 1..Len(a) : c[x] = a[x]
        /\ \A j \in 1..Len(b) : c[Len(a) + j] = b[j]
    BY <2>4
  <2> QED
    BY <2>1, <2>2, <2>3, <2>5 DEF a, b, c
<1>5. 0 \in G
  <2>1. Len(pre[0]) = 0 /\ 0 \in 0..n
    BY <1>1, <1>2
  <2> QED
    BY <2>1
<1>6. ASSUME NEW m \in 0..(n - 1), m \in G PROVE m + 1 \in G
  <2>1. Kept(m) /\ Whole(m)
    BY <1>6
  <2> DEFINE l == Len(seqs[m + 1])
  <2>2. /\ m + 1 \in 0..n /\ off[m] \in Nat /\ l \in Nat /\ off[m + 1] = off[m] + l
        /\ Len(pre[m]) = off[m] /\ Len(pre[m + 1]) = off[m] + l
        /\ \A x \in 1..off[m] : pre[m + 1][x] = pre[m][x]
        /\ \A j \in 1..l : pre[m + 1][off[m] + j] = seqs[m + 1][j]
    BY <1>4
  <2>3. Kept(m + 1)
    <3> SUFFICES ASSUME NEW k \in 1..(m + 1), NEW j \in 1..Len(seqs[k])
                 PROVE  /\ off[k - 1] + j \in 1..Len(pre[m + 1])
                        /\ pre[m + 1][off[k - 1] + j] = seqs[k][j]
      OBVIOUS
    <3>1. CASE k = m + 1
      <4>1. k - 1 = m /\ j \in 1..l
        BY <3>1
      <4> HIDE DEF l
      <4>2. off[m] + j \in 1..(off[m] + l)
        <5>1. off[m] \in Nat /\ l \in Nat
          BY <2>2
        <5> QED
          BY <4>1, <5>1
      <4> QED
        BY <2>2, <3>1, <4>1, <4>2
    <3>2. CASE k # m + 1
      <4>1. k \in 1..m
        BY <3>2
      <4>2. off[k - 1] + j \in 1..off[m] /\ pre[m][off[k - 1] + j] = seqs[k][j]
        BY <2>1, <2>2, <4>1
      <4> DEFINE x == off[k - 1] + j
      <4> HIDE DEF x, l
      <4>3. x \in 1..off[m] /\ pre[m][x] = seqs[k][j]
        BY <4>2 DEF x
      <4>4. x \in 1..(off[m] + l) /\ pre[m + 1][x] = pre[m][x]
        BY <2>2, <4>3
      <4> QED
        BY <2>2, <4>3, <4>4 DEF x
    <3> QED
      BY <3>1, <3>2
  <2>4. Whole(m + 1)
    <3> SUFFICES ASSUME NEW x \in 1..Len(pre[m + 1])
                 PROVE  \E k \in 1..(m + 1) : \E j \in 1..Len(seqs[k]) : x = off[k - 1] + j
      OBVIOUS
    <3> HIDE DEF l
    <3>1. x \in Int /\ 1 <= x /\ x <= off[m] + l
      BY <2>2
    <3>2. CASE x <= off[m]
      <4>1. x \in 1..Len(pre[m])
        BY <2>2, <3>1, <3>2
      <4>2. PICK k \in 1..m : \E j \in 1..Len(seqs[k]) : x = off[k - 1] + j
        BY <2>1, <4>1
      <4>3. k \in 1..(m + 1)
        OBVIOUS
      <4> QED
        BY <4>2, <4>3
    <3>3. CASE x > off[m]
      <4>1. x - off[m] \in 1..l /\ x = off[m] + (x - off[m])
        BY <2>2, <3>1, <3>3
      <4>2. m + 1 \in 1..(m + 1) /\ (m + 1) - 1 = m
        OBVIOUS
      <4> QED
        BY <4>1, <4>2 DEF l
    <3> QED
      BY <2>2, <3>1, <3>2, <3>3
  <2> HIDE DEF Kept, Whole
  <2> QED
    BY <2>2, <2>3, <2>4
<1>7. n \in G
  <2>1. n \in 0..n
    BY <1>1
  <2> HIDE DEF G
  <2> QED
    BY <1>1, <1>5, <1>6, <2>1, IntervalInduction
<1>8. Parts(seqs, off, pre[n])
  <2>1. Kept(n) /\ Whole(n) /\ n \in 0..n
    BY <1>7
  <2>2. Len(pre[n]) = off[n]
    BY <1>3, <2>1
  <2>3. ASSUME NEW k \in 1..n PROVE off[k] = off[k - 1] + Len(seqs[k])
    <3>1. k - 1 \in 0..(n - 1) /\ (k - 1) + 1 = k
      BY <1>1
    <3> QED
      BY <1>4, <3>1
  <2> QED
    BY <1>3, <2>1, <2>2, <2>3 DEF Parts, n
<1> QED
  <2>1. n \in 0..n
    BY <1>1
  <2> QED
    BY <1>2, <1>8, <2>1

\* Later parts begin later.
LEMMA OffsetsGrow ==
  ASSUME NEW S, NEW seqs \in Seq(Seq(S)), NEW off, NEW all, Parts(seqs, off, all),
         NEW i \in 0..Len(seqs), NEW k \in 0..Len(seqs), i <= k
  PROVE  off[i] <= off[k]
<1> DEFINE n == Len(seqs)
           G == {m \in 0..n : i <= m => off[i] <= off[m]}
<1>1. /\ n \in Nat /\ off \in [0..n -> Nat]
      /\ \A m \in 1..n : off[m] = off[m - 1] + Len(seqs[m]) /\ Len(seqs[m]) \in Nat
  BY DEF Parts
<1> HIDE DEF n
<1>2. 0 \in G
  BY <1>1 DEF n
<1>3. ASSUME NEW m \in 0..(n - 1), m \in G PROVE m + 1 \in G
  <2>1. m + 1 \in 1..n /\ (m + 1) - 1 = m /\ m \in 0..n /\ m + 1 \in 0..n
    BY <1>1
  <2>2. off[m + 1] = off[m] + Len(seqs[m + 1]) /\ Len(seqs[m + 1]) \in Nat
    BY <1>1, <2>1
  <2>3. off[m] \in Nat /\ off[m + 1] \in Nat /\ off[m] <= off[m + 1]
    BY <1>1, <2>1, <2>2
  <2>4. i \in 0..n /\ off[i] \in Nat
    BY <1>1 DEF n
  <2>5. i <= m \/ i = m + 1 \/ i > m + 1
    BY <2>4
  <2> QED
    BY <1>3, <2>1, <2>3, <2>4, <2>5
<1>4. 0..n \subseteq G
  <2> HIDE DEF G
  <2> QED
    BY <1>1, <1>2, <1>3, IntervalInduction
<1> QED
  BY <1>4 DEF n

\* Where an element of a part stands.
LEMMA PartElement ==
  ASSUME NEW S, NEW seqs \in Seq(Seq(S)), NEW off, NEW all, Parts(seqs, off, all),
         NEW k \in 1..Len(seqs)
  PROVE  /\ off[k - 1] \in Nat /\ off[k] \in Nat /\ seqs[k] \in Seq(S)
         /\ Len(seqs[k]) \in Nat /\ off[k] = off[k - 1] + Len(seqs[k])
         /\ \A j \in 1..Len(seqs[k]) :
              off[k - 1] + j \in 1..Len(all) /\ all[off[k - 1] + j] = seqs[k][j]
<1>1. k - 1 \in 0..Len(seqs) /\ k \in 0..Len(seqs)
  OBVIOUS
<1>2. off \in [0..Len(seqs) -> Nat]
  BY DEF Parts
<1>3. off[k - 1] \in Nat /\ off[k] \in Nat
  BY <1>1, <1>2
<1>4. seqs[k] \in Seq(S)
  OBVIOUS
<1>5. Len(seqs[k]) \in Nat
  BY <1>4
<1> QED
  BY <1>3, <1>4, <1>5 DEF Parts

\* What is in one of the parts is in the whole, and nothing else is.
LEMMA FlattenMembers ==
  ASSUME NEW S, NEW seqs \in Seq(Seq(S))
  PROVE  /\ FlattenSeq(seqs) \in Seq(S)
         /\ \A x : x \in ToSet(FlattenSeq(seqs)) <=>
                     \E k \in 1..Len(seqs) : x \in ToSet(seqs[k])
<1> DEFINE all == FlattenSeq(seqs)
<1>1. all \in Seq(S) /\ \E off : Parts(seqs, off, all)
  BY Flattened
<1>2. PICK off : Parts(seqs, off, all)
  BY <1>1
<1> HIDE DEF all
<1>3. DOMAIN all = 1..Len(all) /\ \A k \in 1..Len(seqs) : DOMAIN seqs[k] = 1..Len(seqs[k])
  BY <1>1
<1>4. ASSUME NEW x \in ToSet(all)
      PROVE  \E k \in 1..Len(seqs) : x \in ToSet(seqs[k])
  <2>1. PICK n \in 1..Len(all) : x = all[n]
    BY <1>3 DEF ToSet
  <2>2. PICK k \in 1..Len(seqs) : \E j \in 1..Len(seqs[k]) : n = off[k - 1] + j
    BY <1>2 DEF Parts
  <2>3. PICK j \in 1..Len(seqs[k]) : n = off[k - 1] + j
    BY <2>2
  <2>4. x = seqs[k][j]
    BY <1>2, <2>1, <2>3 DEF Parts
  <2> QED
    BY <1>3, <2>4 DEF ToSet
<1>5. ASSUME NEW k \in 1..Len(seqs), NEW x \in ToSet(seqs[k])
      PROVE  x \in ToSet(all)
  <2>1. PICK j \in 1..Len(seqs[k]) : x = seqs[k][j]
    BY <1>3 DEF ToSet
  <2>2. off[k - 1] + j \in 1..Len(all) /\ all[off[k - 1] + j] = x
    BY <1>2, <2>1 DEF Parts
  <2> QED
    BY <1>3, <2>2 DEF ToSet
<1> QED
  BY <1>1, <1>4, <1>5 DEF all

\* The elements of a sequence that belong to a set, in their order.
Chosen(q, T) == FlattenSeq([i \in DOMAIN q |-> IF q[i] \in T THEN <<q[i]>> ELSE <<>>])

LEMMA ChosenMembers ==
  ASSUME NEW S, NEW q \in Seq(S), NEW T
  PROVE  /\ Chosen(q, T) \in Seq(S)
         /\ ToSet(Chosen(q, T)) = ToSet(q) \cap T
<1> DEFINE seqs == [i \in DOMAIN q |-> IF q[i] \in T THEN <<q[i]>> ELSE <<>>]
           Q == Seq(S)
<1>1. DOMAIN q = 1..Len(q) /\ Len(q) \in Nat
  OBVIOUS
<1>2. ASSUME NEW i \in DOMAIN q
      PROVE  /\ seqs[i] \in Q
             /\ \A x : x \in ToSet(seqs[i]) <=> x = q[i] /\ q[i] \in T
  <2>1. CASE q[i] \in T
    <3>1. seqs[i] = <<q[i]>>
      BY <2>1
    <3>2. q[i] \in S
      OBVIOUS
    <3>3. ToSet(<<q[i]>>) = {q[i]}
      BY DEF ToSet
    <3> QED
      BY <2>1, <3>1, <3>2, <3>3
  <2>2. CASE q[i] \notin T
    <3>1. seqs[i] = <<>>
      BY <2>2
    <3>2. ToSet(<<>>) = {}
      BY DEF ToSet
    <3> QED
      BY <2>2, <3>1, <3>2
  <2> QED
    BY <2>1, <2>2
<1>3. DOMAIN seqs = 1..Len(q) /\ seqs = [i \in 1..Len(q) |-> seqs[i]]
  BY <1>1
<1> HIDE DEF seqs, Q
<1>4. seqs \in Seq(Q) /\ Len(seqs) = Len(q)
  BY <1>1, <1>2, <1>3
<1>5. /\ FlattenSeq(seqs) \in Seq(S)
      /\ \A x : x \in ToSet(FlattenSeq(seqs)) <=>
                  \E k \in 1..Len(seqs) : x \in ToSet(seqs[k])
  BY <1>4, FlattenMembers DEF Q
<1>6. \A x : x \in ToSet(FlattenSeq(seqs)) <=> \E k \in DOMAIN q : x = q[k] /\ q[k] \in T
  BY <1>1, <1>2, <1>4, <1>5
<1>7. ToSet(FlattenSeq(seqs)) = ToSet(q) \cap T
  BY <1>6 DEF ToSet
<1> QED
  BY <1>5, <1>7 DEF Chosen, seqs

\* What is in two sequences, one after the other.
LEMMA JoinedMembers ==
  ASSUME NEW S, NEW a \in Seq(S), NEW b \in Seq(S)
  PROVE  a \o b \in Seq(S) /\ ToSet(a \o b) = ToSet(a) \cup ToSet(b)
<1> DEFINE c == a \o b
<1>1. /\ Len(a) \in Nat /\ Len(b) \in Nat /\ c \in Seq(S) /\ Len(c) = Len(a) + Len(b)
      /\ DOMAIN a = 1..Len(a) /\ DOMAIN b = 1..Len(b) /\ DOMAIN c = 1..Len(c)
      /\ \A n \in 1..Len(a) : c[n] = a[n]
      /\ \A n \in 1..Len(b) : c[Len(a) + n] = b[n]
      /\ \A n \in 1..Len(c) : n > Len(a) => c[n] = b[n - Len(a)]
  OBVIOUS
<1> HIDE DEF c
<1>2. ASSUME NEW x \in ToSet(c) PROVE x \in ToSet(a) \cup ToSet(b)
  <2>1. PICK n \in 1..Len(c) : x = c[n]
    BY <1>1 DEF ToSet
  <2>2. CASE n \in 1..Len(a)
    BY <1>1, <2>1, <2>2 DEF ToSet
  <2>3. CASE n \notin 1..Len(a)
    <3>1. n - Len(a) \in 1..Len(b) /\ c[n] = b[n - Len(a)]
      BY <1>1, <2>1, <2>3
    <3> QED
      BY <1>1, <2>1, <3>1 DEF ToSet
  <2> QED
    BY <2>2, <2>3
<1>3. ASSUME NEW x \in ToSet(a) PROVE x \in ToSet(c)
  <2>1. PICK n \in 1..Len(a) : x = a[n]
    BY <1>1 DEF ToSet
  <2>2. n \in 1..Len(c) /\ c[n] = x
    BY <1>1, <2>1
  <2> QED
    BY <1>1, <2>2 DEF ToSet
<1>4. ASSUME NEW x \in ToSet(b) PROVE x \in ToSet(c)
  <2>1. PICK n \in 1..Len(b) : x = b[n]
    BY <1>1 DEF ToSet
  <2>2. Len(a) + n \in 1..Len(c) /\ c[Len(a) + n] = x
    BY <1>1, <2>1
  <2> QED
    BY <1>1, <2>2 DEF ToSet
<1> QED
  BY <1>1, <1>2, <1>3, <1>4 DEF c

\* Where the parts of two sequences are as long as each other, they keep their
\* distance.
SameLengths(r, s, a, b) ==
  /\ a \in Nat /\ b \in Nat /\ a <= b /\ b <= Len(r) /\ b <= Len(s)
  /\ \A i \in (a + 1)..b : Len(s[i]) = Len(r[i])

Shifted(roff, soff, a, b, w) == \A i \in a..b : soff[i] = roff[i] + w

LEMMA OffsetsShift ==
  ASSUME NEW S, NEW r \in Seq(Seq(S)), NEW s \in Seq(Seq(S)), NEW roff, NEW soff,
         NEW rall, NEW sall, Parts(r, roff, rall), Parts(s, soff, sall),
         NEW a, NEW b, SameLengths(r, s, a, b), NEW w \in Nat, soff[a] = roff[a] + w
  PROVE  Shifted(roff, soff, a, b, w)
<1>0. /\ a \in Nat /\ b \in Nat /\ a <= b /\ b <= Len(r) /\ b <= Len(s)
      /\ \A i \in (a + 1)..b : Len(s[i]) = Len(r[i])
  BY DEF SameLengths
<1> DEFINE G == {m \in Nat : m <= b /\ a <= m => soff[m] = roff[m] + w}
<1>1. /\ Len(r) \in Nat /\ Len(s) \in Nat
      /\ \A m \in 1..Len(r) : roff[m] = roff[m - 1] + Len(r[m]) /\ Len(r[m]) \in Nat
      /\ \A m \in 1..Len(s) : soff[m] = soff[m - 1] + Len(s[m])
      /\ \A m \in 0..Len(r) : roff[m] \in Nat
  <2>1. Len(r) \in Nat /\ Len(s) \in Nat /\ \A m \in 1..Len(r) : r[m] \in Seq(S)
    OBVIOUS
  <2>2. \A m \in 1..Len(r) : Len(r[m]) \in Nat
    BY <2>1
  <2>3. /\ \A m \in 1..Len(r) : roff[m] = roff[m - 1] + Len(r[m])
        /\ \A m \in 1..Len(s) : soff[m] = soff[m - 1] + Len(s[m])
    BY DEF Parts
  <2>4. roff \in [0..Len(r) -> Nat]
    BY DEF Parts
  <2>5. \A m \in 0..Len(r) : roff[m] \in Nat
    BY <2>4
  <2> QED
    BY <2>1, <2>2, <2>3, <2>5
<1>2. 0 \in G
  BY <1>0 DEF G
<1>3. ASSUME NEW m \in Nat, m \in G PROVE m + 1 \in G
  <2> SUFFICES ASSUME m + 1 <= b, a <= m + 1 PROVE soff[m + 1] = roff[m + 1] + w
    OBVIOUS
  <2>1. CASE a = m + 1
    BY <1>0, <2>1
  <2>2. CASE a # m + 1
    <3>1. /\ a <= m /\ m + 1 \in 1..Len(r) /\ m + 1 \in 1..Len(s) /\ m + 1 \in (a + 1)..b
          /\ (m + 1) - 1 = m /\ m \in 0..Len(r) /\ m <= b
      BY <1>0, <1>1, <2>2
    <3>2. soff[m] = roff[m] + w
      BY <1>3, <3>1
    <3>3. /\ roff[m + 1] = roff[m] + Len(r[m + 1]) /\ Len(r[m + 1]) \in Nat
          /\ soff[m + 1] = soff[m] + Len(s[m + 1]) /\ Len(s[m + 1]) = Len(r[m + 1])
          /\ roff[m] \in Nat
      BY <1>0, <1>1, <3>1
    <3> HIDE DEF G
    <3> QED
      BY <3>2, <3>3
  <2> QED
    BY <1>0, <2>1, <2>2
<1>4. Nat \subseteq G
  <2> HIDE DEF G
  <2> QED
    BY <1>2, <1>3, InductiveSet
<1>5. ASSUME NEW i \in a..b PROVE soff[i] = roff[i] + w
  <2>1. i \in Nat /\ i <= b /\ a <= i
    BY <1>0
  <2> QED
    BY <1>4, <2>1
<1> QED
  BY <1>5 DEF Shifted

\* A part that is appended stands at the end.
LEMMA FlattenAppended ==
  ASSUME NEW S, NEW r \in Seq(Seq(S)), NEW e \in Seq(S)
  PROVE  FlattenSeq(Append(r, e)) = FlattenSeq(r) \o e
<1> DEFINE n == Len(r)
           Q == Seq(S)
           s == Append(r, e)
<1>1. n \in Nat /\ r \in Seq(Q) /\ e \in Q
  OBVIOUS
<1> HIDE DEF Q
<1>2. s \in Seq(Q) /\ Len(s) = n + 1 /\ s[n + 1] = e /\ \A m \in 1..n : s[m] = r[m]
  BY <1>1
<1> HIDE DEF n, s
<1>3. PICK p \in [0..n -> Seq(S)] :
        /\ p[0] = <<>>
        /\ \A m \in 0..(n - 1) : p[m + 1] = p[m] \o r[m + 1]
        /\ FlattenSeq(r) = p[n]
  BY FlattenSteps DEF n
<1>4. PICK t \in [0..(n + 1) -> Seq(S)] :
        /\ t[0] = <<>>
        /\ \A m \in 0..n : t[m + 1] = t[m] \o s[m + 1]
        /\ FlattenSeq(s) = t[n + 1]
  <2>1. s \in Seq(Seq(S)) /\ (n + 1) - 1 = n
    BY <1>1, <1>2 DEF Q
  <2>2. PICK t \in [0..Len(s) -> Seq(S)] :
          /\ t[0] = <<>>
          /\ \A m \in 0..(Len(s) - 1) : t[m + 1] = t[m] \o s[m + 1]
          /\ FlattenSeq(s) = t[Len(s)]
    BY <2>1, FlattenSteps
  <2> QED
    BY <1>2, <2>1, <2>2
<1> DEFINE G == {m \in 0..n : t[m] = p[m]}
<1>5. 0 \in G
  BY <1>1, <1>3, <1>4
<1>6. ASSUME NEW m \in 0..(n - 1), m \in G PROVE m + 1 \in G
  <2>1. m \in 0..n /\ m + 1 \in 0..n /\ m + 1 \in 1..n
    BY <1>1
  <2>2. t[m + 1] = t[m] \o s[m + 1] /\ p[m + 1] = p[m] \o r[m + 1] /\ s[m + 1] = r[m + 1]
    BY <1>2, <1>3, <1>4, <2>1
  <2> QED
    BY <1>6, <2>1, <2>2
<1>7. n \in G
  <2>1. n \in 0..n
    BY <1>1
  <2> HIDE DEF G
  <2> QED
    BY <1>1, <1>5, <1>6, <2>1, IntervalInduction
<1>8. t[n + 1] = t[n] \o s[n + 1] /\ t[n] = p[n]
  BY <1>1, <1>4, <1>7
<1> QED
  BY <1>2, <1>3, <1>4, <1>8 DEF s

\* When one part grows at its end, what is in it and before it stays, and what is
\* behind it moves up by what was added.
Grown(r, s, x, e) ==
  /\ Len(s) = Len(r) /\ x \in 1..Len(r)
  /\ \A i \in 1..Len(r) : s[i] = IF i = x THEN r[i] \o e ELSE r[i]

LEMMA GrownPart ==
  ASSUME NEW S, NEW r \in Seq(Seq(S)), NEW s \in Seq(Seq(S)), NEW x, NEW e \in Seq(S),
         Grown(r, s, x, e), NEW roff, NEW soff, NEW rall, NEW sall,
         Parts(r, roff, rall), Parts(s, soff, sall)
  PROVE  /\ Len(sall) = Len(rall) + Len(e)
         /\ \A k \in 1..Len(r) : \A j \in 1..Len(r[k]) :
              LET m == roff[k - 1] + j + (IF k > x THEN Len(e) ELSE 0)
              IN  m \in 1..Len(sall) /\ sall[m] = rall[roff[k - 1] + j]
<1> DEFINE n == Len(r)
           w == Len(e)
<1>1. n \in Nat /\ w \in Nat /\ Len(s) = n /\ x \in 1..n /\ x \in Nat
  BY DEF Grown
<1>2. /\ Len(r[x]) \in Nat /\ Len(s[x]) = Len(r[x]) + w /\ s[x] = r[x] \o e
      /\ \A j \in 1..Len(r[x]) : s[x][j] = r[x][j]
  <2>1. s[x] = r[x] \o e
    BY DEF Grown
  <2>2. r[x] \in Seq(S)
    BY <1>1 DEF n
  <2> QED
    BY <2>1, <2>2 DEF w
<1>3. \A i \in 1..n : i # x => s[i] = r[i]
  BY DEF Grown
<1>r. ASSUME NEW k \in 1..Len(r)
      PROVE  /\ roff[k - 1] \in Nat /\ roff[k] \in Nat /\ Len(r[k]) \in Nat
             /\ roff[k] = roff[k - 1] + Len(r[k])
             /\ \A j \in 1..Len(r[k]) : rall[roff[k - 1] + j] = r[k][j]
  BY PartElement
<1>s. ASSUME NEW k \in 1..Len(s)
      PROVE  /\ soff[k - 1] \in Nat /\ soff[k] = soff[k - 1] + Len(s[k])
             /\ \A j \in 1..Len(s[k]) :
                  soff[k - 1] + j \in 1..Len(sall) /\ sall[soff[k - 1] + j] = s[k][j]
  BY PartElement
<1>4. roff[0] = 0 /\ soff[0] = 0 /\ Len(rall) = roff[n] /\ Len(sall) = soff[n]
  BY <1>1 DEF Parts
<1> HIDE DEF n, w
<1>5. \A i \in 0..(x - 1) : soff[i] = roff[i] + 0
  <2>1. /\ 0 \in Nat /\ x - 1 \in Nat /\ 0 <= x - 1 /\ x - 1 <= Len(r) /\ x - 1 <= Len(s)
        /\ soff[0] = roff[0] + 0
    BY <1>1, <1>4 DEF n
  <2>2. \A i \in (0 + 1)..(x - 1) : Len(s[i]) = Len(r[i])
    BY <1>1, <1>3
  <2>3. SameLengths(r, s, 0, x - 1)
    BY <2>1, <2>2 DEF SameLengths
  <2>4. Shifted(roff, soff, 0, x - 1, 0)
    BY <2>1, <2>3, OffsetsShift
  <2> QED
    BY <2>4 DEF Shifted
<1>6. roff[x - 1] \in Nat /\ roff[x] \in Nat /\ roff[x] = roff[x - 1] + Len(r[x])
  BY <1>1, <1>r DEF n
<1>7. soff[x] = roff[x] + w
  <2>1. soff[x] = soff[x - 1] + Len(s[x])
    BY <1>1, <1>s
  <2>2. soff[x - 1] = roff[x - 1] + 0
    BY <1>1, <1>5
  <2> QED
    <3> DEFINE u == roff[x - 1]
               l == Len(r[x])
    <3>1. soff[x] = (u + 0) + (l + w) /\ roff[x] = u + l
      BY <1>2, <1>6, <2>1, <2>2
    <3>2. u \in Nat /\ l \in Nat
      BY <1>2, <1>6
    <3> HIDE DEF u, l
    <3> QED
      BY <1>1, <3>1, <3>2
<1>8. \A i \in x..n : soff[i] = roff[i] + w
  <2>1. x \in Nat /\ n \in Nat /\ x <= n /\ n <= Len(r) /\ n <= Len(s)
    BY <1>1 DEF n
  <2>2. \A i \in (x + 1)..n : Len(s[i]) = Len(r[i])
    BY <1>1, <1>3
  <2>3. SameLengths(r, s, x, n)
    BY <2>1, <2>2 DEF SameLengths
  <2>4. Shifted(roff, soff, x, n, w)
    BY <1>1, <1>7, <2>3, OffsetsShift
  <2> QED
    BY <2>4 DEF Shifted
<1>9. Len(sall) = Len(rall) + w
  BY <1>1, <1>4, <1>8
<1>10. ASSUME NEW k \in 1..n, NEW j \in 1..Len(r[k])
       PROVE  LET m == roff[k - 1] + j + (IF k > x THEN w ELSE 0)
              IN  m \in 1..Len(sall) /\ sall[m] = rall[roff[k - 1] + j]
  <2>1. /\ roff[k - 1] \in Nat /\ Len(r[k]) \in Nat
        /\ rall[roff[k - 1] + j] = r[k][j]
    BY <1>1, <1>r DEF n
  <2>2. /\ soff[k - 1] \in Nat
        /\ \A l \in 1..Len(s[k]) :
             soff[k - 1] + l \in 1..Len(sall) /\ sall[soff[k - 1] + l] = s[k][l]
    BY <1>1, <1>s
  <2>3. j \in 1..Len(s[k]) /\ s[k][j] = r[k][j]
    <3>1. CASE k = x
      BY <1>1, <1>2, <3>1
    <3>2. CASE k # x
      BY <1>3, <3>2
    <3> QED
      BY <3>1, <3>2
  <2>4. soff[k - 1] = roff[k - 1] + (IF k > x THEN w ELSE 0)
    <3>1. CASE k > x
      <4>1. k - 1 \in x..n
        BY <1>1, <3>1
      <4> QED
        BY <1>8, <3>1, <4>1
    <3>2. CASE ~ (k > x)
      <4>1. k - 1 \in 0..(x - 1)
        BY <1>1, <3>2
      <4> QED
        BY <1>5, <3>2, <4>1
    <3> QED
      BY <3>1, <3>2
  <2>5. roff[k - 1] + j + (IF k > x THEN w ELSE 0) = soff[k - 1] + j
    BY <1>1, <2>1, <2>4
  <2> QED
    BY <2>1, <2>2, <2>3, <2>5
<1> QED
  BY <1>9, <1>10 DEF n, w

=============================================================================
