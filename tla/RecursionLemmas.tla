-------------------------- MODULE RecursionLemmas --------------------------
(***************************************************************************)
(* Facts about sets of numbers and about functions defined by recursion    *)
(* that the proofs of several components need.  Induction takes the form   *)
(* of the least counterexample (MinExists), which is a fact about a set    *)
(* and can be cited with any.                                              *)
(***************************************************************************)
EXTENDS Integers, FiniteSets, FiniteSetsExt, WellFoundedInduction, TLAPS

\* A set of natural numbers that is not empty has a least member.
LEMMA MinExists ==
  ASSUME NEW X, X \subseteq Nat, X # {}
  PROVE  \E x \in X : \A y \in X : x <= y
<1>. DEFINE R == {p \in Nat \X Nat : p[1] < p[2]}
<1>1. IsWellFoundedOn(R, Nat)
  BY ONLY NatLessThanWellFounded DEF OpToRel
<1>2. \E x \in X : \A y \in X : <<y, x>> \notin R
  <2>. HIDE DEF R
  <2>. QED  BY <1>1, WFMin
<1>3. \A x, y \in Nat : <<y, x>> \notin R => x <= y
  OBVIOUS
<1>. HIDE DEF R
<1>. QED  BY <1>2, <1>3

\* Max of a set of integers between two bounds is its greatest member.
LEMMA MaxInSet ==
  ASSUME NEW S, S # {}, NEW lo \in Int, NEW hi \in Int, S \subseteq lo .. hi
  PROVE  Max(S) \in S /\ \A y \in S : y <= Max(S)
<1>. DEFINE X == {hi - s : s \in S}
<1>1. X \subseteq Nat /\ X # {}
  OBVIOUS
<1>2. PICK x \in X : \A y \in X : x <= y
  <2>. HIDE DEF X
  <2>. QED  BY <1>1, MinExists
<1>3. PICK m \in S : x = hi - m
  OBVIOUS
<1>4. \A s \in S : m >= s
  <2>. SUFFICES ASSUME NEW s \in S
                PROVE  m >= s
    OBVIOUS
  <2>1. hi - s \in X /\ s \in Int /\ m \in Int
    OBVIOUS
  <2>2. x <= hi - s
    BY <1>2, <2>1
  <2>. QED  BY <1>3, <2>1, <2>2
<1>. HIDE DEF X
<1>5. \A y \in S : y \in Int
  OBVIOUS
<1>. QED  BY <1>4, <1>5 DEF Max

\* A set that has 0, and n + 1 with every n below the bound, has all numbers up
\* to it.
LEMMA UpTo ==
  ASSUME NEW n \in Nat, NEW S, 0 \in S, \A i \in 0 .. (n - 1) : i \in S => i + 1 \in S
  PROVE  0 .. n \subseteq S
<1>. DEFINE X == {i \in 0 .. n : i \notin S}
<1>. SUFFICES ASSUME X # {}
              PROVE  FALSE
  OBVIOUS
<1>1. X \subseteq Nat
  OBVIOUS
<1>2. PICK x \in X : \A y \in X : x <= y
  <2>. HIDE DEF X
  <2>. QED  BY <1>1, MinExists
<1>3. x \in 1 .. n /\ x - 1 \in 0 .. (n - 1) /\ x - 1 \in 0 .. n
  OBVIOUS
<1>4. x - 1 \in S
  BY <1>2, <1>3
<1>. QED  BY <1>3, <1>4

\* A function on 0 .. n that starts with base and goes on with step.
IsRecursive(f, n, V, base, step) ==
  /\ f \in [0 .. n -> V]
  /\ f[0] = base
  /\ \A i \in 1 .. n : f[i] = step[<<f[i - 1], i>>]

\* There is one.
LEMMA RecursiveFunction ==
  ASSUME NEW V, NEW base \in V, NEW n \in Nat, NEW step \in [V \X Nat -> V]
  PROVE  \E f : IsRecursive(f, n, V, base, step)
<1>. DEFINE S == {m \in Nat : \E f \in [0 .. m -> V] :
                    f[0] = base /\ \A i \in 1 .. m : f[i] = step[<<f[i - 1], i>>]}
<1>1. 0 \in S
  <2>. DEFINE D == 0 .. 0
              g == [i \in D |-> base]
  <2>1. 0 \in D /\ 1 .. 0 = {}
    OBVIOUS
  <2>. HIDE DEF D
  <2>2. g \in [D -> V] /\ g[0] = base
    BY <2>1
  <2>. HIDE DEF g
  <2>. QED  BY <2>1, <2>2 DEF D
<1>2. ASSUME NEW m \in 0 .. (n - 1), m \in S
      PROVE  m + 1 \in S
  <2>1. PICK f \in [0 .. m -> V] :
          f[0] = base /\ \A i \in 1 .. m : f[i] = step[<<f[i - 1], i>>]
    BY <1>2
  <2>. DEFINE g == [i \in 0 .. (m + 1) |-> IF i = m + 1 THEN step[<<f[m], m + 1>>]
                                                      ELSE f[i]]
  <2>2. f[m] \in V /\ step[<<f[m], m + 1>>] \in V
    BY <2>1
  <2>3. g \in [0 .. (m + 1) -> V]
    BY <2>1, <2>2
  <2>4. g[0] = base
    BY <2>1
  <2>5. ASSUME NEW i \in 1 .. (m + 1)
        PROVE  g[i] = step[<<g[i - 1], i>>]
    <3>1. CASE i = m + 1
      BY <3>1
    <3>2. CASE i # m + 1
      <4>1. i \in 1 .. m /\ i - 1 \in 0 .. m
        BY <3>2
      <4>. QED  BY <2>1, <4>1
    <3>. QED  BY <3>1, <3>2
  <2>. HIDE DEF g
  <2>. QED  BY <2>3, <2>4, <2>5
<1>3. n \in S
  <2>. HIDE DEF S
  <2>. QED  BY <1>1, <1>2, UpTo
<1>. QED  BY <1>3 DEF IsRecursive

\* Two of them agree as far as their steps do.
SameSteps(step, other, V, k) ==
  \A i \in 1 .. k : \A v \in V : step[<<v, i>>] = other[<<v, i>>]

LEMMA RecursiveAgree ==
  ASSUME NEW V, NEW base, NEW step, NEW other, NEW n \in Nat, NEW k \in Nat, NEW f, NEW g,
         IsRecursive(f, n, V, base, step), IsRecursive(g, k, V, base, other), k <= n,
         SameSteps(step, other, V, k)
  PROVE  \A i \in 0 .. k : f[i] = g[i]
<1>. DEFINE S == {i \in 0 .. k : f[i] = g[i]}
<1>1. 0 \in S
  BY DEF IsRecursive
<1>2. ASSUME NEW i \in 0 .. (k - 1), i \in S
      PROVE  i + 1 \in S
  <2>1. i + 1 \in 1 .. k /\ i + 1 \in 1 .. n /\ (i + 1) - 1 = i /\ i \in 0 .. k
    OBVIOUS
  <2>2. f[i + 1] = step[<<f[i], i + 1>>] /\ g[i + 1] = other[<<g[i], i + 1>>] /\ g[i] \in V
    BY <2>1 DEF IsRecursive
  <2>3. f[i] = g[i]
    BY <1>2
  <2>. QED  BY <2>1, <2>2, <2>3 DEF SameSteps
<1>3. 0 .. k \subseteq S
  <2>. HIDE DEF S
  <2>. QED  BY <1>1, <1>2, UpTo
<1>. QED  BY <1>3

\* A function on D whose value at a number outside B follows from its value at
\* the smaller number prev gives.
Unfolds(f, D, B, base, prev, step) ==
  \A n \in D : f[n] = IF n \in B THEN base[n] ELSE step[<<n, f[prev[n]]>>]

Descends(prev, B) == prev \in [Nat -> Nat] /\ \A i \in Nat \ B : prev[i] < i

\* Two such functions agree where both are defined.
LEMMA UnfoldsUnique ==
  ASSUME NEW B, NEW base, NEW step, NEW prev, Descends(prev, B),
         NEW m \in Nat, NEW k \in Nat, NEW f, NEW g,
         Unfolds(f, 0 .. m, B, base, prev, step), Unfolds(g, 0 .. k, B, base, prev, step)
  PROVE  \A i \in 0 .. m : i \in 0 .. k => f[i] = g[i]
<1>0. prev \in [Nat -> Nat] /\ \A i \in Nat \ B : prev[i] < i
  BY DEF Descends
<1>. DEFINE X == {i \in 0 .. m : i \in 0 .. k /\ f[i] # g[i]}
<1>. SUFFICES ASSUME X # {}
              PROVE  FALSE
  OBVIOUS
<1>1. X \subseteq Nat
  OBVIOUS
<1>2. PICK x \in X : \A y \in X : x <= y
  <2>. HIDE DEF X
  <2>. QED  BY <1>1, MinExists
<1>3. x \in 0 .. m /\ x \in 0 .. k /\ x \in Nat /\ f[x] # g[x]
  OBVIOUS
<1>4. /\ f[x] = IF x \in B THEN base[x] ELSE step[<<x, f[prev[x]]>>]
      /\ g[x] = IF x \in B THEN base[x] ELSE step[<<x, g[prev[x]]>>]
  BY <1>3 DEF Unfolds
<1>5. x \notin B /\ f[prev[x]] # g[prev[x]]
  BY <1>3, <1>4
<1>6. prev[x] \in Nat /\ prev[x] < x
  BY <1>0, <1>3, <1>5
<1>7. prev[x] \in 0 .. m /\ prev[x] \in 0 .. k
  <2>1. \A i \in Nat : i < x => i \in 0 .. m /\ i \in 0 .. k
    BY <1>3
  <2>. QED  BY <1>6, <2>1
<1>8. prev[x] \in X
  BY <1>5, <1>7
<1>. HIDE DEF X
<1>. QED  BY <1>2, <1>3, <1>6, <1>8

\* There is one on all numbers.
LEMMA CourseOfValues ==
  ASSUME NEW V, NEW B, NEW base \in [Nat -> V], NEW step \in [Nat \X V -> V],
         NEW prev, Descends(prev, B)
  PROVE  \E f \in [Nat -> V] : Unfolds(f, Nat, B, base, prev, step)
<1>0. prev \in [Nat -> Nat] /\ \A i \in Nat \ B : prev[i] < i
  BY DEF Descends
<1>. DEFINE S == {m \in Nat : \E f \in [0 .. m -> V] :
                                Unfolds(f, 0 .. m, B, base, prev, step)}
            at(f, n) == IF n \in B THEN base[n] ELSE step[<<n, f[prev[n]]>>]
<1>1. 0 \in S
  <2>1. 0 \in B /\ 0 \in Nat
    BY <1>0
  <2>. DEFINE g == [i \in 0 .. 0 |-> base[0]]
  <2>2. g \in [0 .. 0 -> V] /\ \A i \in 0 .. 0 : i = 0 /\ g[i] = base[0]
    OBVIOUS
  <2>. HIDE DEF g
  <2>3. Unfolds(g, 0 .. 0, B, base, prev, step)
    BY <2>1, <2>2 DEF Unfolds
  <2>. QED  BY <2>2, <2>3
<1>2. ASSUME NEW m \in Nat, m \in S
      PROVE  m + 1 \in S
  <2>1. PICK f \in [0 .. m -> V] : Unfolds(f, 0 .. m, B, base, prev, step)
    BY <1>2
  <2>. DEFINE g == [i \in 0 .. (m + 1) |-> IF i = m + 1 THEN at(f, m + 1) ELSE f[i]]
  <2>2. at(f, m + 1) \in V
    <3>1. m + 1 \in Nat
      OBVIOUS
    <3>2. m + 1 \notin B => prev[m + 1] \in 0 .. m
      BY <1>0, <3>1
    <3>. QED  BY <2>1, <3>1, <3>2
  <2>3. g \in [0 .. (m + 1) -> V]
    BY <2>1, <2>2
  <2>4. ASSUME NEW i \in 0 .. (m + 1)
        PROVE  g[i] = at(g, i)
    <3>1. i \in Nat /\ (i \notin B => prev[i] \in 0 .. m /\ prev[i] \in 0 .. (m + 1)
                                      /\ prev[i] # m + 1)
      BY <1>0
    <3>2. i \notin B => g[prev[i]] = f[prev[i]]
      BY <3>1
    <3>3. i # m + 1 => i \in 0 .. m
      OBVIOUS
    <3>4. i # m + 1 => f[i] = at(f, i)
      BY <2>1, <3>3 DEF Unfolds
    <3>5. g[i] = IF i = m + 1 THEN at(f, m + 1) ELSE f[i]
      OBVIOUS
    <3>. HIDE DEF g
    <3>. QED  BY <3>2, <3>4, <3>5
  <2>. HIDE DEF g
  <2>5. Unfolds(g, 0 .. (m + 1), B, base, prev, step)
    BY <2>4 DEF Unfolds
  <2>. QED  BY <2>3, <2>5
<1>3. \A n \in Nat : n \in S
  <2>. HIDE DEF S
  <2>1. ASSUME NEW n \in Nat
        PROVE  n \in S
    <3>1. \A i \in 0 .. (n - 1) : i \in S => i + 1 \in S
      BY <1>2
    <3>2. 0 .. n \subseteq S
      BY <1>1, <3>1, UpTo
    <3>. QED  BY <3>2
  <2>. QED  BY <2>1
<1>. DEFINE part(n) == CHOOSE f \in [0 .. n -> V] : Unfolds(f, 0 .. n, B, base, prev, step)
            F == [n \in Nat |-> part(n)[n]]
<1>4. \A n \in Nat : part(n) \in [0 .. n -> V] /\ Unfolds(part(n), 0 .. n, B, base, prev, step)
  BY <1>3
<1>. HIDE DEF part, S
<1>5. F \in [Nat -> V]
  BY <1>4
<1>6. ASSUME NEW n \in Nat
      PROVE  F[n] = at(F, n)
  <2>1. F[n] = at(part(n), n)
    BY <1>4 DEF Unfolds
  <2>2. CASE n \in B
    BY <2>1, <2>2
  <2>3. CASE n \notin B
    <3>1. prev[n] \in Nat /\ prev[n] \in 0 .. n /\ prev[n] \in 0 .. prev[n]
      BY <1>0, <2>3
    <3>2. part(n)[prev[n]] = part(prev[n])[prev[n]]
      <4>1. PICK k \in Nat : k = prev[n]
        BY <3>1
      <4>2. PICK f, g : f = part(n) /\ g = part(k)
        OBVIOUS
      <4>3. Unfolds(f, 0 .. n, B, base, prev, step) /\ Unfolds(g, 0 .. k, B, base, prev, step)
        BY <1>4, <4>2
      <4>4. \A i \in 0 .. n : i \in 0 .. k => f[i] = g[i]
        BY <4>3, UnfoldsUnique
      <4>. QED  BY <3>1, <4>1, <4>2, <4>4
    <3>. QED  BY <2>1, <2>3, <3>1, <3>2
  <2>. QED  BY <2>2, <2>3
<1>. HIDE DEF F
<1>7. Unfolds(F, Nat, B, base, prev, step)
  BY <1>6 DEF Unfolds
<1>. QED  BY <1>5, <1>7

=============================================================================
