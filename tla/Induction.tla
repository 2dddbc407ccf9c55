----------------------------- MODULE Induction -----------------------------
(***************************************************************************)
(* Induction over the natural numbers and what follows from it, stated     *)
(* with sets and functions instead of operators, so that a proof can use   *)
(* it for a set or a function of its own.                                  *)
(***************************************************************************)
EXTENDS Integers, FiniteSetsExt, WellFoundedInduction, TLAPS

\* A set of natural numbers has a least one.
LEMMA LeastNat ==
  ASSUME NEW S \in SUBSET Nat, S # {}
  PROVE  \E m \in S : \A n \in S : m <= n
<1> DEFINE R == OpToRel(<, Nat)
<1>1. IsWellFoundedOn(R, Nat)
  BY NatLessThanWellFounded
<1>2. \A i, j \in Nat : i < j => <<i, j>> \in R
  BY DEF OpToRel
<1> HIDE DEF R
<1>3. PICK m \in S : \A n \in S : ~(<<n, m>> \in R)
  BY <1>1, WFMin, Zenon
<1>4. \A n \in S : m <= n
  <2> TAKE n \in S
  <2>1. n \in Nat /\ m \in Nat /\ ~(n < m)
    BY <1>2, <1>3, Zenon
  <2>2. QED
    BY <2>1
<1>5. QED
  BY <1>4

\* Induction: a set that holds 0, and n + 1 with every n, holds every number.
LEMMA SetInduction ==
  ASSUME NEW P, 0 \in P, \A n \in Nat : n \in P => n + 1 \in P
  PROVE  \A n \in Nat : n \in P
<1> DEFINE S == {n \in Nat : n \notin P}
<1> SUFFICES ASSUME S # {} PROVE FALSE
  OBVIOUS
<1>1. PICK m \in S : \A n \in S : m <= n
  BY LeastNat
<1>2. m # 0 /\ m - 1 \in Nat
  OBVIOUS
<1>3. m - 1 \notin S
  BY <1>1, <1>2
<1>4. QED
  BY <1>2, <1>3

\* A bounded set of natural numbers has a greatest one, and Max is it.
LEMMA MaxOfBounded ==
  ASSUME NEW S \in SUBSET Nat, S # {}, NEW b \in Nat, \A n \in S : n <= b
  PROVE  Max(S) \in S /\ \A n \in S : n <= Max(S)
<1> DEFINE D == {b - n : n \in S}
<1>1. D \in SUBSET Nat /\ D # {}
  <2>1. \A n \in S : b - n \in Nat
    OBVIOUS
  <2>2. PICK n : n \in S
    OBVIOUS
  <2>3. b - n \in D
    BY <2>2
  <2>4. QED
    BY <2>1, <2>3
<1>2. PICK d \in D : \A e \in D : d <= e
  BY <1>1, LeastNat
<1>3. PICK m \in S : d = b - m
  OBVIOUS
<1>4. \A n \in S : m >= n
  <2> TAKE n \in S
  <2>1. b - n \in D /\ b - m <= b - n
    BY <1>2, <1>3
  <2>2. QED
    BY <2>1
<1>5. \A n \in S : Max(S) >= n /\ Max(S) \in S
  BY <1>4 DEF Max
<1>6. QED
  BY <1>5

\* f[n] is the result of n applications of F to x.
Iterates(f, S, F, x) == f \in [Nat -> S] /\ f[0] = x /\ \A n \in Nat : f[n + 1] = F[f[n]]

\* A function can be applied any number of times.
LEMMA Iteration ==
  ASSUME NEW S, NEW F \in [S -> S], NEW x \in S
  PROVE  \E f : Iterates(f, S, F, x)
<1> DEFINE Runs(n) == {g \in [0 .. n -> S] : g[0] = x /\ \A i \in 0 .. n - 1 : g[i + 1] = F[g[i]]}
           P == {n \in Nat : Runs(n) # {}}
<1>1. \A n \in Nat : n \in P
  <2>1. 0 \in P
    <3>1. [i \in 0 .. 0 |-> x] \in Runs(0)
      OBVIOUS
    <3>2. QED
      BY <3>1
  <2>2. ASSUME NEW n \in Nat, n \in P PROVE n + 1 \in P
    <3>1. PICK g : g \in Runs(n)
      BY <2>2
    <3> DEFINE h == [i \in 0 .. n + 1 |-> IF i = n + 1 THEN F[g[n]] ELSE g[i]]
    <3>2. h \in [0 .. n + 1 -> S] /\ h[0] = x
      BY <3>1
    <3>3. ASSUME NEW i \in 0 .. (n + 1) - 1 PROVE h[i + 1] = F[h[i]]
      BY <3>1
    <3>4. h \in Runs(n + 1)
      BY <3>2, <3>3
    <3>5. QED
      BY <3>4
  <2> HIDE DEF P
  <2>3. QED
    BY <2>1, <2>2, SetInduction
<1>2. ASSUME NEW n \in Nat, NEW m \in Nat, NEW g \in Runs(n), NEW h \in Runs(m)
      PROVE  \A i \in Nat : i <= n /\ i <= m => g[i] = h[i]
  <2> DEFINE Q == {i \in Nat : i <= n /\ i <= m => g[i] = h[i]}
  <2>1. 0 \in Q
    OBVIOUS
  <2>2. ASSUME NEW i \in Nat, i \in Q PROVE i + 1 \in Q
    BY <2>2
  <2>3. \A i \in Nat : i \in Q
    <3> HIDE DEF Q
    <3>1. QED
      BY <2>1, <2>2, SetInduction
  <2>4. QED
    BY <2>3
<1> DEFINE Run(n) == CHOOSE g : g \in Runs(n)
           f == [n \in Nat |-> Run(n)[n]]
<1>3. ASSUME NEW n \in Nat PROVE Run(n) \in Runs(n)
  <2>1. \E g : g \in Runs(n)
    BY <1>1
  <2> HIDE DEF Runs
  <2>2. QED
    BY <2>1
<1>4. f \in [Nat -> S]
  <2> SUFFICES ASSUME NEW n \in Nat PROVE Run(n)[n] \in S
    OBVIOUS
  <2> HIDE DEF Run
  <2>1. QED
    BY <1>3
<1>5. f[0] = x
  <2> HIDE DEF Run
  <2>1. QED
    BY <1>3
<1>6. ASSUME NEW n \in Nat PROVE f[n + 1] = F[f[n]]
  <2> HIDE DEF Run
  <2>1. Run(n) \in Runs(n) /\ Run(n + 1) \in Runs(n + 1)
    BY <1>3
  <2>2. Run(n)[n] = Run(n + 1)[n]
    <3> HIDE DEF Runs
    <3>1. n <= n /\ n <= n + 1 /\ n + 1 \in Nat
      OBVIOUS
    <3>2. QED
      BY <1>2, <2>1, <3>1
  <2>3. Run(n + 1)[n + 1] = F[Run(n + 1)[n]]
    BY <2>1
  <2>4. QED
    BY <2>2, <2>3
<1> HIDE DEF f
<1>7. QED
  BY <1>4, <1>5, <1>6 DEF Iterates

\* f is the recursive function that n turns of a loop define.
Turns(f, S, F, x, n) ==
  /\ f = [i \in 0 .. n |-> IF i = 0 THEN x ELSE F[f[i - 1]]]
  /\ \A i \in 0 .. n : f[i] \in S

\* There is such a function.
LEMMA Recursion ==
  ASSUME NEW S, NEW F \in [S -> S], NEW x \in S, NEW n \in Nat
  PROVE  \E f : Turns(f, S, F, x, n)
<1>1. PICK g : Iterates(g, S, F, x)
  BY Iteration
<1> DEFINE f == [i \in 0 .. n |-> g[i]]
<1>2. ASSUME NEW i \in 0 .. n PROVE f[i] = IF i = 0 THEN x ELSE F[f[i - 1]]
  <2>1. CASE i = 0
    BY <1>1, <2>1 DEF Iterates
  <2>2. CASE i # 0
    <3>1. i - 1 \in Nat /\ i - 1 \in 0 .. n /\ (i - 1) + 1 = i
      BY <2>2
    <3>2. g[i] = F[g[i - 1]]
      BY <1>1, <3>1 DEF Iterates
    <3>3. QED
      BY <2>2, <3>1, <3>2
  <2>3. QED
    BY <2>1, <2>2
<1>3. f = [i \in 0 .. n |-> IF i = 0 THEN x ELSE F[f[i - 1]]]
  BY <1>2
<1>4. \A i \in 0 .. n : f[i] \in S
  BY <1>1 DEF Iterates
<1> HIDE DEF f
<1>5. QED
  BY <1>3, <1>4 DEF Turns
=============================================================================
