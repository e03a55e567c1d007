---------------------------- MODULE NaturalFacts ----------------------------
(***************************************************************************)
(* Facts about natural numbers that the proofs about several modules need: *)
(* arguments by the least counterexample, where induction would need an    *)
(* operator as a parameter.                                                *)
(***************************************************************************)
EXTENDS Sums, WellFoundedInduction, TLAPS

\* A set of natural numbers that is not empty has a least element.
LEMMA LeastNatural ==
  ASSUME NEW T \in SUBSET Nat, T # {}
  PROVE  \E x \in T : \A y \in T : x <= y
<1>1. PICK x \in T : \A y \in T : <<y, x>> \notin OpToRel(<, Nat)
  BY NatLessThanWellFounded, WFMin
<1>2. \A y \in T : ~(y < x)
  BY <1>1 DEF OpToRel
<1> QED
  BY <1>2

\* Two functions on 1..n that agree at 1, and wherever they agree one place
\* before, are equal there.
LEMMA AgreeAll ==
  ASSUME NEW n \in Nat, NEW f, NEW g,
         n > 0 => f[1] = g[1],
         \A i \in 2..n : f[i - 1] = g[i - 1] => f[i] = g[i]
  PROVE  \A i \in 1..n : f[i] = g[i]
<1> DEFINE T == {i \in 1..n : f[i] # g[i]}
<1>1. SUFFICES ASSUME T # {} PROVE FALSE
  OBVIOUS
<1>2. PICK x \in T : \A y \in T : x <= y
  <2>1. T \in SUBSET Nat
    OBVIOUS
  <2> HIDE DEF T
  <2> QED
    BY <1>1, <2>1, LeastNatural
<1>3. x # 1
  OBVIOUS
<1>4. x - 1 \in 1..n /\ x - 1 \notin T
  BY <1>2, <1>3
<1> QED
  BY <1>3, <1>4

\* Induction, with a set in the place of a predicate.
LEMMA UpTo ==
  ASSUME NEW n \in Nat, NEW T, 0 \in T, \A i \in 1..n : i - 1 \in T => i \in T
  PROVE  \A i \in 0..n : i \in T
<1> DEFINE Missing == {i \in 0..n : i \notin T}
<1>1. SUFFICES ASSUME Missing # {} PROVE FALSE
  OBVIOUS
<1>2. PICK x \in Missing : \A y \in Missing : x <= y
  <2>1. Missing \in SUBSET Nat
    OBVIOUS
  <2> HIDE DEF Missing
  <2> QED
    BY <1>1, <2>1, LeastNatural
<1>3. x \in 1..n
  OBVIOUS
<1>4. x - 1 \in T
  <2>1. x - 1 \in 0..n /\ ~(x <= x - 1)
    BY <1>3
  <2> QED
    BY <1>2, <2>1
<1> QED
  BY <1>3, <1>4

\* g is what the recursive definition along 0..n says: it begins with base, and
\* step[i][x] is the value at i if x is the one before.
Recursive(g, n, S, base, step) ==
  /\ g \in [0..n -> S] /\ g[0] = base
  /\ \A i \in 1..n : g[i] = step[i][g[i - 1]]

\* Every such definition has a solution.
LEMMA RecursionExists ==
  ASSUME NEW n \in Nat, NEW S, NEW base \in S,
         NEW step \in [1..n -> [S -> S]]
  PROVE  \E g : Recursive(g, n, S, base, step)
<1> DEFINE T == {k \in 0..n : \E g : Recursive(g, k, S, base, step)}
<1>1. 0 \in T
  <2>1. Recursive([i \in 0..0 |-> base], 0, S, base, step)
    BY DEF Recursive
  <2>2. 0 \in 0..n
    OBVIOUS
  <2> QED
    BY <2>1, <2>2
<1>2. ASSUME NEW k \in 1..n, k - 1 \in T PROVE k \in T
  <2>1. PICK g : Recursive(g, k - 1, S, base, step)
    BY <1>2
  <2> DEFINE h == [i \in 0..k |-> IF i = k THEN step[k][g[k - 1]] ELSE g[i]]
  <2>2. g[k - 1] \in S
    BY <2>1 DEF Recursive
  <2>3. step[k][g[k - 1]] \in S
    BY <2>2
  <2>4. \A i \in 0..k : i # k => i \in 0..k - 1 /\ g[i] \in S
    BY <2>1 DEF Recursive
  <2>5. h \in [0..k -> S]
    BY <2>3, <2>4
  <2>6. h[0] = base /\ h[k - 1] = g[k - 1] /\ h[k] = step[k][g[k - 1]]
    <3>1. 0 \in 0..k /\ 0 # k /\ k \in 0..k /\ k - 1 \in 0..k /\ k - 1 # k
      OBVIOUS
    <3> QED
      BY <2>1, <3>1 DEF Recursive
  <2>7. ASSUME NEW i \in 1..k PROVE h[i] = step[i][h[i - 1]]
    <3>1. CASE i = k
      BY <2>6, <3>1
    <3>2. CASE i # k
      <4>1. i \in 1..k - 1 /\ i \in 0..k /\ i - 1 \in 0..k /\ i - 1 # k
        BY <3>2
      <4>2. h[i] = g[i] /\ h[i - 1] = g[i - 1]
        BY <3>2, <4>1
      <4> QED
        BY <2>1, <4>1, <4>2 DEF Recursive
    <3> QED
      BY <3>1, <3>2
  <2> HIDE DEF h
  <2>8. Recursive(h, k, S, base, step)
    BY <2>5, <2>6, <2>7 DEF Recursive
  <2>9. k \in 0..n
    OBVIOUS
  <2> QED
    BY <2>8, <2>9
<1>3. n \in T
  <2> HIDE DEF T
  <2>1. \A i \in 0..n : i \in T
    BY <1>1, <1>2, UpTo
  <2> QED
    BY <2>1
<1> QED
  BY <1>3

-----------------------------------------------------------------------------
\* Sums.

\* The equation the running sums of a sequence are defined by.
LEMMA RunningSumsRule ==
  ASSUME NEW w \in Seq(Nat)
  PROVE  /\ RunningSums(w) \in [0..Len(w) -> Nat]
         /\ RunningSums(w)[0] = 0
         /\ \A i \in 1..Len(w) : RunningSums(w)[i] = RunningSums(w)[i - 1] + w[i]
<1> DEFINE n == Len(w)
           rule(g) == [i \in 0..n |-> IF i = 0 THEN 0 ELSE g[i - 1] + w[i]]
           step == [i \in 1..n |-> [x \in Nat |-> x + w[i]]]
<1>1. n \in Nat /\ \A i \in 1..n : w[i] \in Nat
  OBVIOUS
<1>2. step \in [1..n -> [Nat -> Nat]]
  BY <1>1
<1>3. PICK g : Recursive(g, n, Nat, 0, step)
  <2>1. n \in Nat /\ 0 \in Nat
    OBVIOUS
  <2> HIDE DEF step, n
  <2> QED
    BY <1>2, <2>1, RecursionExists
<1>4. \A i \in 1..n : g[i] = g[i - 1] + w[i]
  <2> SUFFICES ASSUME NEW i \in 1..n PROVE g[i] = g[i - 1] + w[i]
    OBVIOUS
  <2>1. i - 1 \in 0..n
    BY <1>1
  <2>2. g[i - 1] \in Nat
    BY <1>3, <2>1 DEF Recursive
  <2> QED
    BY <1>3, <2>2 DEF Recursive
<1>5. g = rule(g)
  <2> HIDE DEF n
  <2>1. \A i \in 0..n : g[i] = rule(g)[i]
    <3> SUFFICES ASSUME NEW i \in 0..n PROVE g[i] = rule(g)[i]
      OBVIOUS
    <3>1. i = 0 \/ i \in 1..n
      BY <1>1
    <3> QED
      BY <1>3, <1>4, <3>1 DEF Recursive
  <2> QED
    BY <1>3, <2>1 DEF Recursive
<1>6. RunningSums(w) = rule(RunningSums(w))
  <2>1. RunningSums(w) = CHOOSE h : h = rule(h)
    BY DEF RunningSums
  <2> HIDE DEF rule
  <2> QED
    BY <1>5, <2>1
<1> DEFINE r == RunningSums(w)
<1> HIDE DEF r, n
<1>7. r = rule(r)
  BY <1>6 DEF r, n
<1>8. r[0] = 0 /\ \A i \in 1..n : r[i] = r[i - 1] + w[i]
  <2>1. 0 \in 0..n /\ \A i \in 1..n : i \in 0..n /\ i # 0
    BY <1>1
  <2> QED
    BY <1>7, <2>1
<1>9. \A i \in 0..n : r[i] \in Nat
  <2> DEFINE T == {i \in 0..n : r[i] \in Nat}
  <2>1. 0 \in T
    BY <1>1, <1>8
  <2>2. ASSUME NEW i \in 1..n, i - 1 \in T PROVE i \in T
    <3>1. r[i - 1] \in Nat /\ w[i] \in Nat /\ i \in 0..n
      BY <1>1, <2>2
    <3> QED
      BY <1>8, <3>1
  <2> HIDE DEF T
  <2>3. \A i \in 0..n : i \in T
    BY <1>1, <2>1, <2>2, UpTo
  <2> QED
    BY <2>3 DEF T
<1>10. r \in [0..n -> Nat]
  BY <1>7, <1>9
<1> QED
  BY <1>8, <1>10 DEF r, n

\* Sequences that agree up to a place have the same sums up to there.
LEMMA SumsAgree ==
  ASSUME NEW u \in Seq(Nat), NEW w \in Seq(Nat), NEW k \in Nat,
         k <= Len(u), k <= Len(w), \A i \in 1..k : u[i] = w[i]
  PROVE  \A i \in 0..k : RunningSums(u)[i] = RunningSums(w)[i]
<1> DEFINE T == {i \in 0..k : RunningSums(u)[i] = RunningSums(w)[i]}
<1>1. 0 \in T
  BY RunningSumsRule
<1>2. ASSUME NEW i \in 1..k, i - 1 \in T PROVE i \in T
  <2>1. i \in 1..Len(u) /\ i \in 1..Len(w) /\ i \in 0..k
    OBVIOUS
  <2>2. /\ RunningSums(u)[i] = RunningSums(u)[i - 1] + u[i]
        /\ RunningSums(w)[i] = RunningSums(w)[i - 1] + w[i]
    BY <2>1, RunningSumsRule
  <2> QED
    BY <1>2, <2>1, <2>2
<1> HIDE DEF T
<1>3. \A i \in 0..k : i \in T
  BY <1>1, <1>2, UpTo
<1> QED
  BY <1>3 DEF T

LEMMA SumOfNothing == SumOf(<<>>) = 0
<1>1. <<>> \in Seq(Nat) /\ Len(<<>>) = 0
  OBVIOUS
<1> QED
  BY <1>1, RunningSumsRule DEF SumOf

LEMMA SumIsNat == ASSUME NEW w \in Seq(Nat) PROVE SumOf(w) \in Nat
<1>1. Len(w) \in 0..Len(w)
  OBVIOUS
<1> QED
  BY <1>1, RunningSumsRule DEF SumOf

LEMMA SumOfAppend ==
  ASSUME NEW w \in Seq(Nat), NEW x \in Nat
  PROVE  SumOf(Append(w, x)) = SumOf(w) + x
<1> DEFINE v == Append(w, x)
<1>1. /\ v \in Seq(Nat) /\ Len(v) = Len(w) + 1 /\ v[Len(w) + 1] = x
      /\ Len(w) \in Nat /\ \A i \in 1..Len(w) : v[i] = w[i]
  OBVIOUS
<1> HIDE DEF v
<1>2. RunningSums(v)[Len(w)] = RunningSums(w)[Len(w)]
  <2>1. \A i \in 0..Len(w) : RunningSums(v)[i] = RunningSums(w)[i]
    <3>1. Len(w) \in Nat /\ Len(w) <= Len(v) /\ Len(w) <= Len(w)
      BY <1>1
    <3> QED
      BY <1>1, <3>1, SumsAgree
  <2>2. Len(w) \in 0..Len(w)
    BY <1>1
  <2> QED
    BY <2>1, <2>2
<1>3. RunningSums(v)[Len(v)] = RunningSums(v)[Len(w)] + x
  <2>1. Len(v) \in 1..Len(v) /\ Len(v) - 1 = Len(w)
    BY <1>1
  <2> QED
    BY <1>1, <2>1, RunningSumsRule
<1> QED
  BY <1>2, <1>3 DEF SumOf, v

LEMMA SumOfTail ==
  ASSUME NEW w \in Seq(Nat), w # <<>>
  PROVE  SumOf(w) = w[1] + SumOf(Tail(w))
<1> DEFINE v == Tail(w)
           T == {i \in 0..Len(v) :
                   RunningSums(w)[i + 1] = w[1] + RunningSums(v)[i]}
<1>1. /\ v \in Seq(Nat) /\ Len(w) \in Nat /\ Len(v) \in Nat
      /\ Len(w) = Len(v) + 1 /\ \A i \in 1..Len(v) : v[i] = w[i + 1]
  OBVIOUS
<1> HIDE DEF v
<1>2. 0 \in T
  <2>1. 1 \in 1..Len(w) /\ w[1] \in Nat
    BY <1>1
  <2>2. RunningSums(w)[1] = RunningSums(w)[0] + w[1]
    BY <2>1, RunningSumsRule
  <2> QED
    BY <1>1, <2>1, <2>2, RunningSumsRule
<1>3. ASSUME NEW i \in 1..Len(v), i - 1 \in T PROVE i \in T
  <2>1. i + 1 \in 1..Len(w) /\ (i + 1) - 1 = i /\ (i - 1) + 1 = i
    BY <1>1
  <2>2. /\ RunningSums(w)[i + 1] = RunningSums(w)[i] + w[i + 1]
        /\ RunningSums(v)[i] = RunningSums(v)[i - 1] + v[i]
    BY <1>1, <2>1, RunningSumsRule
  <2>3. RunningSums(w)[i] = w[1] + RunningSums(v)[i - 1]
    BY <1>3, <2>1
  <2>4. RunningSums(v)[i - 1] \in Nat /\ v[i] \in Nat /\ w[1] \in Nat
    <3>1. i - 1 \in 0..Len(v) /\ 1 \in 1..Len(w) /\ i \in 1..Len(v)
      BY <1>1
    <3>2. RunningSums(v) \in [0..Len(v) -> Nat]
      BY <1>1, RunningSumsRule
    <3>3. v[i] \in Nat /\ w[1] \in Nat
      BY <1>1, <3>1
    <3> QED
      BY <3>1, <3>2, <3>3
  <2>5. v[i] = w[i + 1]
    BY <1>1
  <2> QED
    BY <2>2, <2>3, <2>4, <2>5
<1>4. \A i \in 0..Len(v) : i \in T
  <2> HIDE DEF T
  <2> QED
    BY <1>1, <1>2, <1>3, UpTo
<1>5. RunningSums(w)[Len(w)] = w[1] + RunningSums(v)[Len(v)]
  BY <1>1, <1>4
<1> QED
  BY <1>5 DEF SumOf, v

\* A sum is no less than the number of summands times the least of them.
LEMMA SumIsLong ==
  ASSUME NEW w \in Seq(Nat), NEW c \in Nat, \A i \in 1..Len(w) : c <= w[i]
  PROVE  c * Len(w) <= SumOf(w)
<1> DEFINE T == {i \in 0..Len(w) : c * i <= RunningSums(w)[i]}
<1>1. 0 \in T
  BY RunningSumsRule
<1>2. ASSUME NEW i \in 1..Len(w), i - 1 \in T PROVE i \in T
  <2>1. RunningSums(w)[i] = RunningSums(w)[i - 1] + w[i]
    BY RunningSumsRule
  <2>2. i - 1 \in 0..Len(w) /\ i \in 0..Len(w) /\ w[i] \in Nat /\ i \in Nat
    OBVIOUS
  <2>3. RunningSums(w)[i - 1] \in Nat
    BY <2>2, RunningSumsRule
  <2>4. c * (i - 1) <= RunningSums(w)[i - 1]
    BY <1>2
  <2>5. c * i = c * (i - 1) + c /\ c * (i - 1) \in Int
    BY <2>2
  <2> HIDE DEF T
  <2>6. c * i <= RunningSums(w)[i]
    BY <2>1, <2>2, <2>3, <2>4, <2>5
  <2> QED
    BY <2>2, <2>6 DEF T
<1>3. \A i \in 0..Len(w) : i \in T
  <2>1. Len(w) \in Nat
    OBVIOUS
  <2> HIDE DEF T
  <2> QED
    BY <1>1, <1>2, <2>1, UpTo
<1>4. Len(w) \in 0..Len(w)
  OBVIOUS
<1> QED
  BY <1>3, <1>4 DEF SumOf

=============================================================================
