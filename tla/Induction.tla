----------------------------- MODULE Induction -----------------------------
(***************************************************************************)
(* Induction on the rounds of a loop, for the proofs about recursive        *)
(* functions.  An induction rule that takes a predicate is no use to the    *)
(* provers, which cannot instantiate it; the rules here take a set, the set *)
(* of the rounds after which the loop's invariant holds.                    *)
(***************************************************************************)
EXTENDS Integers, TLAPS, WellFoundedInduction

\* A set of numbers that is not empty has a least element.
LEMMA LeastElement ==
  ASSUME NEW T, T \subseteq Nat, T # {}
  PROVE  \E x \in T : \A y \in T : ~(y < x)
<1> DEFINE R == OpToRel(<, Nat)
<1>1. IsWellFoundedOn(R, Nat) BY NatLessThanWellFounded
<1>2. \A x, y \in Nat : y < x => <<y, x>> \in R BY DEF OpToRel
<1> HIDE DEF R
<1>3. \E x \in T : \A y \in T : ~(<<y, x>> \in R) BY <1>1, WFMin
<1> QED BY <1>2, <1>3

\* A set of numbers that has 0 and with every number the next has them all.
LEMMA SetInduction ==
  ASSUME NEW T, T \subseteq Nat, 0 \in T, \A n \in T : n + 1 \in T
  PROVE  T = Nat
<1>1. SUFFICES ASSUME T # Nat PROVE FALSE
  OBVIOUS
<1>2. PICK x \in Nat \ T : \A y \in Nat \ T : ~(y < x)
  <2> DEFINE U == Nat \ T
  <2>1. U \subseteq Nat /\ U # {} BY <1>1
  <2> HIDE DEF U
  <2>2. \E x \in U : \A y \in U : ~(y < x) BY <2>1, LeastElement
  <2> QED BY <2>2 DEF U
<1>3. x # 0 /\ x - 1 \in Nat BY <1>2
<1>4. x - 1 \in T BY <1>2, <1>3
<1> QED BY <1>2, <1>3, <1>4

\* The same up to a bound.
LEMMA BoundedInduction ==
  ASSUME NEW N \in Nat, NEW T, T \subseteq 0..N, 0 \in T,
         \A n \in T : n < N => n + 1 \in T
  PROVE  T = 0..N
<1> DEFINE U == {n \in Nat : n \in T \/ n > N}
<1>1. U \subseteq Nat /\ 0 \in U OBVIOUS
<1>2. ASSUME NEW n \in U PROVE n + 1 \in U
  <2>1. n \in Nat /\ n + 1 \in Nat OBVIOUS
  <2>2. CASE n \in T /\ n < N BY <2>1, <2>2
  <2>3. CASE ~(n < N)
    <3>1. n + 1 > N BY <2>1, <2>3
    <3> QED BY <2>1, <3>1
  <2> QED BY <2>1, <2>2, <2>3
<1> HIDE DEF U
<1>3. U = Nat BY <1>1, <1>2, SetInduction
<1>4. ASSUME NEW n \in 0..N PROVE n \in T
  <2>1. n \in Nat /\ ~(n > N) OBVIOUS
  <2> QED BY <1>3, <2>1 DEF U
<1> QED BY <1>4

\* g is what N steps of R give, from a.
Iterates(g, S, R, a, N) ==
  /\ g \in [0..N -> S]
  /\ g[0] = a
  /\ \A n \in 1..N : g[n] = R[<<n, g[n - 1]>>]

\* A step function R can be iterated from a.
LEMMA Iteration ==
  ASSUME NEW S, NEW R \in [Nat \X S -> S], NEW a \in S, NEW N \in Nat
  PROVE  \E g : Iterates(g, S, R, a, N)
<1> DEFINE Run(m, g) == g[0] = a /\ \A n \in 1..m : g[n] = R[<<n, g[n - 1]>>]
           T == {m \in Nat : \E g \in [0..m -> S] : Run(m, g)}
<1>1. 0 \in T
  <2> DEFINE h == [i \in 0..0 |-> a]
  <2>1. h \in [0..0 -> S] /\ h[0] = a OBVIOUS
  <2> HIDE DEF h
  <2>2. Run(0, h) BY <2>1
  <2> HIDE DEF Run
  <2> QED BY <2>1, <2>2
<1>2. ASSUME NEW m \in T PROVE m + 1 \in T
  <2>1. PICK g \in [0..m -> S] : Run(m, g) OBVIOUS
  <2>2. m \in Nat /\ g[m] \in S /\ R[<<m + 1, g[m]>>] \in S OBVIOUS
  <2> DEFINE h == [i \in 0..(m + 1) |-> IF i = m + 1 THEN R[<<m + 1, g[m]>>] ELSE g[i]]
  <2>3. h \in [0..(m + 1) -> S] BY <2>1, <2>2
  <2>4. h[m + 1] = R[<<m + 1, g[m]>>] /\ \A i \in 0..m : h[i] = g[i] BY <2>1, <2>2
  <2> HIDE DEF h
  <2>5. h[0] = a BY <2>1, <2>2, <2>4
  <2>6. ASSUME NEW n \in 1..(m + 1) PROVE h[n] = R[<<n, h[n - 1]>>]
    <3>1. CASE n = m + 1
      <4>1. h[m] = g[m] BY <2>2, <2>4
      <4>2. n - 1 = m BY <3>1, <2>2
      <4> QED BY <3>1, <4>1, <4>2, <2>4
    <3>2. CASE n \in 1..m
      <4>1. h[n] = g[n] /\ h[n - 1] = g[n - 1] BY <3>2, <2>2, <2>4
      <4> QED BY <2>1, <3>2, <4>1
    <3> QED BY <3>1, <3>2, <2>2
  <2>7. Run(m + 1, h) BY <2>5, <2>6
  <2> HIDE DEF Run
  <2> QED BY <2>2, <2>3, <2>7
<1> HIDE DEF T
<1>3. T \subseteq Nat BY DEF T
<1>4. T = Nat BY <1>1, <1>2, <1>3, SetInduction
<1>5. PICK g \in [0..N -> S] : Run(N, g) BY <1>4 DEF T
<1>6. Iterates(g, S, R, a, N) BY <1>5 DEF Iterates
<1> QED BY <1>6

\* g and h start alike and go on alike.
Alike(N, g, h) == g[0] = h[0] /\ \A n \in 1..N : g[n - 1] = h[n - 1] => g[n] = h[n]

\* Then they are alike to the end.
LEMMA SameRounds ==
  ASSUME NEW N \in Nat, NEW g, NEW h, Alike(N, g, h)
  PROVE  \A n \in 0..N : g[n] = h[n]
<1> DEFINE T == {n \in 0..N : g[n] = h[n]}
<1>1. T \subseteq 0..N /\ 0 \in T BY DEF Alike
<1>2. ASSUME NEW n \in T, n < N PROVE n + 1 \in T
  <2>1. n \in Nat /\ n + 1 \in 1..N /\ (n + 1) - 1 = n /\ g[n] = h[n] BY <1>2
  <2> QED BY <2>1 DEF Alike
<1> HIDE DEF T
<1>3. T = 0..N BY <1>1, <1>2, BoundedInduction
<1> QED BY <1>3 DEF T
=============================================================================
