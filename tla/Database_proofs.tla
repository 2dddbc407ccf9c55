-------------------------- MODULE Database_proofs --------------------------
(***************************************************************************)
(* Proofs about Database, for any clients, datasets, values and numbers of *)
(* calls: what FindCommonAncestor finds in any commit graph, that nothing  *)
(* that was committed is lost to a race, that a head update changes its    *)
(* own dataset only, and that Delete removes the head it saw.              *)
(***************************************************************************)
EXTENDS Database, Induction, TLAPS

----------------------------------------------------------------------------
\* The commit graph.  S has the parents of its commits.
Closed(S) == \A c \in S : c.parents \subseteq S

\* K is a set of commits such as a store can hold: it has the parents of its commits,
\* which are lower, and its heights are bounded.
History(K) ==
  /\ Closed(K)
  /\ \A c \in K : c.height \in Nat \ {0} /\ \A x \in c.parents : x.height < c.height
  /\ \E b \in Nat : \A c \in K : c.height =< b

\* MaxHeight of a queue that is not empty is the height of one of its commits, and
\* no other is higher.
LEMMA MaxHeightRight ==
  ASSUME NEW K, History(K), NEW q \in SUBSET K, q # {}
  PROVE  /\ MaxHeight(q) \in Nat \ {0}
         /\ \E c \in q : c.height = MaxHeight(q)
         /\ \A c \in q : c.height <= MaxHeight(q)
<1> DEFINE S == {c.height : c \in q}
<1>1. PICK b \in Nat : \A c \in K : c.height =< b
  BY DEF History
<1>2. S \in SUBSET Nat /\ S # {} /\ \A n \in S : n <= b
  BY <1>1 DEF History
<1>3. Max(S) \in S /\ \A n \in S : n <= Max(S)
  BY <1>2, MaxOfBounded, Zenon
<1>4. QED
  BY <1>3, Zenon DEF MaxHeight, History

\* The generations that Ancestors goes through exist as a function.
LEMMA GenerationsExist ==
  ASSUME NEW K, History(K), NEW q \in SUBSET K, q # {}
  PROVE  \E f : /\ f = [i \in 0 .. MaxHeight(q) |-> IF i = 0 THEN q ELSE WithParents(f[i - 1])]
                /\ Ancestors(q) = f[MaxHeight(q)]
<1>1. MaxHeight(q) \in Nat
  BY MaxHeightRight
<1> DEFINE n == MaxHeight(q)
           F == [u \in SUBSET K |-> WithParents(u)]
           S == SUBSET K
<1>2. F \in [S -> S] /\ q \in S
  BY DEF History, Closed, WithParents, Parents
<1>3. PICK f : Turns(f, S, F, q, n)
  <2> HIDE DEF F, S, n
  <2>1. n \in Nat
    BY <1>1 DEF n
  <2>2. QED
    BY <1>2, <2>1, Recursion
<1> DEFINE G(g) == [i \in 0 .. n |-> IF i = 0 THEN q
                                    ELSE Loop!The({WithParents(a) : a \in {g[i - 1]}})]
           g == CHOOSE g : g = G(g)
<1>4. Ancestors(q) = g[n]
  BY DEF Ancestors, Loop!Iterate
<1>5. \A x : Loop!The({x}) = x
  BY DEF Loop!The
<1>6. \A h, i : Loop!The({WithParents(a) : a \in {h[i - 1]}}) = WithParents(h[i - 1])
  <2> TAKE h, i
  <2>1. {WithParents(a) : a \in {h[i - 1]}} = {WithParents(h[i - 1])}
    OBVIOUS
  <2>2. QED
    BY <1>5, <2>1, Zenon
<1>7. \A h : G(h) = [i \in 0 .. n |-> IF i = 0 THEN q ELSE WithParents(h[i - 1])]
  BY <1>6, Zenon
<1>8. f = G(f)
  <2>1. ASSUME NEW i \in 0 .. n, i # 0 PROVE F[f[i - 1]] = WithParents(f[i - 1])
    <3>1. i - 1 \in 0 .. n
      BY <1>1, <2>1
    <3>2. f[i - 1] \in S
      BY <1>3, <3>1, Zenon DEF Turns
    <3>3. QED
      BY <3>2
  <2>2. f = [i \in 0 .. n |-> IF i = 0 THEN q ELSE F[f[i - 1]]]
    BY <1>3, Zenon DEF Turns
  <2> HIDE DEF F, n, G
  <2>3. f = [i \in 0 .. n |-> IF i = 0 THEN q ELSE WithParents(f[i - 1])]
    BY <2>1, <2>2, Zenon
  <2>4. QED
    BY <1>7, <2>3, Zenon
<1>9. g = G(g)
  <2> HIDE DEF G
  <2>1. QED
    BY <1>8, Zenon
<1>10. QED
  BY <1>4, <1>7, <1>9, Zenon

\* Ancestors(q) is the least set that has q and the parents of its commits.
LEMMA AncestorsAre ==
  ASSUME NEW K, History(K), NEW q \in SUBSET K
  PROVE  /\ q \subseteq Ancestors(q)
         /\ Closed(Ancestors(q))
         /\ \A S : q \subseteq S /\ Closed(S) => Ancestors(q) \subseteq S
<1>1. CASE q = {}
  BY <1>1 DEF Ancestors, Closed
<1>2. CASE q # {}
  <2> DEFINE n == MaxHeight(q)
  <2>0. n \in Nat /\ \A c \in q : c.height <= n
    BY <1>2, MaxHeightRight
  <2>1. PICK f : /\ f = [i \in 0 .. n |-> IF i = 0 THEN q ELSE WithParents(f[i - 1])]
                 /\ Ancestors(q) = f[n]
    BY <1>2, GenerationsExist, Zenon
  <2> HIDE DEF n
  <2>2. f[0] = q /\ \A i \in Nat : i + 1 <= n => f[i + 1] = f[i] \cup Parents(f[i])
    <3>1. f[0] = q
      BY <2>0, <2>1
    <3>2. ASSUME NEW i \in Nat, i + 1 <= n PROVE f[i + 1] = f[i] \cup Parents(f[i])
      <4>1. i + 1 \in 0 .. n /\ i + 1 # 0 /\ (i + 1) - 1 = i
        BY <2>0, <3>2
      <4>2. QED
        BY <2>1, <4>1, Zenon DEF WithParents
    <3>3. QED
      BY <3>1, <3>2
  <2>3. ASSUME NEW S, q \subseteq S, Closed(S) PROVE f[n] \subseteq S
    <3> DEFINE P == {i \in Nat : i <= n => f[i] \subseteq S}
    <3>1. 0 \in P
      BY <2>2, <2>3
    <3>2. ASSUME NEW i \in Nat, i \in P PROVE i + 1 \in P
      BY <2>0, <2>2, <2>3, <3>2 DEF Closed, Parents
    <3>3. \A i \in Nat : i \in P
      <4> HIDE DEF P
      <4>1. QED
        BY <3>1, <3>2, SetInduction
    <3>4. QED
      BY <2>0, <3>3
  <2>4. f[n] \subseteq K
    BY <2>3 DEF History
  <2> DEFINE P == {i \in Nat : i <= n => /\ q \subseteq f[i]
                                        /\ f[i] \subseteq K
                                        /\ \A c \in f[i] : c.height > n - i => c.parents \subseteq f[i]}
  <2>5. 0 \in P
    BY <2>0, <2>2 DEF History
  <2>6. ASSUME NEW i \in Nat, i \in P PROVE i + 1 \in P
    <3> SUFFICES ASSUME i + 1 <= n
                 PROVE  /\ q \subseteq f[i + 1]
                        /\ f[i + 1] \subseteq K
                        /\ \A c \in f[i + 1] : c.height > n - (i + 1) => c.parents \subseteq f[i + 1]
      OBVIOUS
    <3>1. /\ q \subseteq f[i] /\ f[i] \subseteq K
          /\ \A c \in f[i] : c.height > n - i => c.parents \subseteq f[i]
      BY <2>0, <2>6
    <3>2. f[i + 1] = f[i] \cup Parents(f[i])
      BY <2>2
    <3>3. f[i + 1] \subseteq K
      BY <3>1, <3>2 DEF History, Closed, Parents
    <3>4. ASSUME NEW c \in f[i + 1], c.height > n - (i + 1) PROVE c.parents \subseteq f[i + 1]
      <4>1. CASE c \in f[i]
        BY <3>2, <4>1 DEF Parents
      <4>2. CASE c \notin f[i]
        <5>1. PICK d \in f[i] : c \in d.parents
          BY <3>2, <4>2 DEF Parents
        <5>2. d.height > n - i
          <6>1. d \in K /\ c \in K
            BY <3>1, <3>3
          <6>2. d.height \in Nat /\ c.height \in Nat /\ c.height < d.height
            BY <5>1, <6>1 DEF History
          <6>3. QED
            BY <2>0, <3>4, <6>2
        <5>3. QED
          BY <3>1, <4>2, <5>1, <5>2
      <4>3. QED
        BY <4>1, <4>2
    <3>5. QED
      BY <3>1, <3>2, <3>3, <3>4
  <2>7. \A i \in Nat : i \in P
    <3> HIDE DEF P
    <3>1. QED
      BY <2>5, <2>6, SetInduction
  <2>8. q \subseteq f[n] /\ \A c \in f[n] : c.height > 0 => c.parents \subseteq f[n]
    BY <2>0, <2>7
  <2>9. Closed(f[n])
    BY <2>4, <2>8 DEF History, Closed
  <2>10. QED
    BY <2>1, <2>3, <2>8, <2>9, Zenon
<1>3. QED
  BY <1>1, <1>2

\* The ancestors of commits are commits.
LEMMA AncestorsInside ==
  ASSUME NEW K, History(K), NEW q \in SUBSET K
  PROVE  Ancestors(q) \subseteq K
BY AncestorsAre DEF History

\* An ancestor of an ancestor is an ancestor.
LEMMA AncestorsTransitive ==
  ASSUME NEW K, History(K), NEW d \in K, NEW c \in Ancestors({d})
  PROVE  Ancestors({c}) \subseteq Ancestors({d})
<1>1. Closed(Ancestors({d})) /\ c \in K
  BY AncestorsAre, AncestorsInside
<1>2. QED
  BY <1>1, AncestorsAre

\* An ancestor of q is not higher than q; if it is as high as the highest it is in q.
LEMMA AncestorsLower ==
  ASSUME NEW K, History(K), NEW q \in SUBSET K, NEW h \in Nat, \A c \in q : c.height <= h,
         NEW x \in Ancestors(q)
  PROVE  x.height <= h /\ (x.height = h => x \in q)
<1> DEFINE S == q \cup {y \in K : y.height < h}
<1>1. Closed(S)
  <2> SUFFICES ASSUME NEW c \in S, NEW y \in c.parents PROVE y \in K /\ y.height < h
    BY DEF Closed
  <2>1. c \in K /\ y \in K /\ c.height <= h
    BY DEF History, Closed
  <2>2. c.height \in Nat /\ y.height \in Nat /\ y.height < c.height
    BY <2>1 DEF History
  <2>3. QED
    BY <2>1, <2>2
<1>2. x \in S
  BY <1>1, AncestorsAre
<1>3. x.height \in Nat
  BY AncestorsInside DEF History
<1> QED
  BY <1>2, <1>3

\* What parentsToQueue does to a queue whose tallest refs have height h.
LEMMA ParentsQueued ==
  ASSUME NEW K, History(K), NEW s \in SUBSET K, NEW h \in Nat, \A c \in s : c.height <= h
  PROVE  /\ ParentsToQueue(s, h) \subseteq K
         /\ ParentsToQueue(s, h) \subseteq Ancestors(s)
         /\ \A c \in ParentsToQueue(s, h) : c.height < h
         /\ Ancestors(s) \subseteq OfHeight(s, h) \cup Ancestors(ParentsToQueue(s, h))
<1> DEFINE new == ParentsToQueue(s, h)
<1>1. new \subseteq K
  BY DEF History, Closed, ParentsToQueue, OfHeight, Parents
<1>2. new \subseteq Ancestors(s)
  BY AncestorsAre DEF Closed, ParentsToQueue, OfHeight, Parents
<1>3. ASSUME NEW c \in new PROVE c.height < h
  <2>1. CASE c \in s /\ c.height # h
    BY <2>1 DEF History
  <2>2. CASE \E d \in s : d.height = h /\ c \in d.parents
    BY <2>2 DEF History
  <2>3. QED
    BY <2>1, <2>2 DEF ParentsToQueue, OfHeight, Parents
<1> DEFINE S == OfHeight(s, h) \cup Ancestors(new)
<1>4. new \subseteq Ancestors(new) /\ Closed(Ancestors(new))
  BY <1>1, AncestorsAre
<1>5. s \subseteq S
  BY <1>4, Zenon DEF ParentsToQueue, OfHeight
<1>6. Closed(S)
  <2> SUFFICES ASSUME NEW c \in S PROVE c.parents \subseteq S
    BY DEF Closed
  <2>1. CASE c \in OfHeight(s, h)
    BY <1>4, <2>1 DEF ParentsToQueue, OfHeight, Parents
  <2>2. CASE c \in Ancestors(new)
    BY <1>4, <2>2 DEF Closed
  <2>3. QED
    BY <2>1, <2>2
<1>7. Ancestors(s) \subseteq S
  <2> HIDE DEF S
  <2>1. QED
    BY <1>5, <1>6, AncestorsAre
<1>8. QED
  BY <1>1, <1>2, <1>3, <1>7

\* Tallest of two queues is the height of a commit of one, and none is higher.
LEMMA TallestRight ==
  ASSUME NEW K, History(K), NEW q1 \in SUBSET K, NEW q2 \in SUBSET K, q1 # {}, q2 # {}
  PROVE  LET h == Tallest(<<q1, q2>>) IN
         /\ h \in Nat \ {0}
         /\ \A c \in q1 \cup q2 : c.height <= h
         /\ \E c \in q1 \cup q2 : c.height = h
<1> DEFINE m1 == MaxHeight(q1)
           m2 == MaxHeight(q2)
           h == Tallest(<<q1, q2>>)
<1>1. /\ m1 \in Nat \ {0} /\ (\A c \in q1 : c.height <= m1) /\ \E c \in q1 : c.height = m1
      /\ m2 \in Nat \ {0} /\ (\A c \in q2 : c.height <= m2) /\ \E c \in q2 : c.height = m2
  BY MaxHeightRight
<1>2. h = Max({m1, m2})
  BY DEF Tallest
<1> HIDE DEF m1, m2, h
<1>3. h \in {m1, m2} /\ m1 <= h /\ m2 <= h
  <2>1. \E x \in {m1, m2} : \A y \in {m1, m2} : x >= y
    BY <1>1
  <2>2. QED
    BY <1>2, <2>1 DEF Max
<1>4. \A c \in q1 \cup q2 : c.height \in Nat
  BY DEF History
<1>5. h \in Nat \ {0} /\ \A c \in q1 \cup q2 : c.height <= h
  BY <1>1, <1>3, <1>4
<1>6. \E c \in q1 \cup q2 : c.height = h
  BY <1>1, <1>3
<1>7. QED
  BY <1>5, <1>6 DEF h

\* The queues after n turns of the loop of FindCommonAncestor.
LEMMA TurnsExist ==
  ASSUME NEW K, History(K), NEW c1 \in K, NEW c2 \in K
  PROVE  LET n == MaxHeight({c1, c2}) IN
         \E f : /\ f = [i \in 0 .. n |-> IF i = 0 THEN <<{c1}, {c2}>> ELSE Turn(f[i - 1])]
                /\ Queues(c1, c2) = f[n]
<1> DEFINE n == MaxHeight({c1, c2})
           S == (SUBSET K) \X (SUBSET K)
           start == <<{c1}, {c2}>>
           F == [q \in S |-> Turn(q)]
<1>1. n \in Nat
  BY MaxHeightRight
<1>2. F \in [S -> S] /\ start \in S
  <2>1. ASSUME NEW s \in SUBSET K, NEW h PROVE ParentsToQueue(s, h) \in SUBSET K
    BY DEF History, Closed, ParentsToQueue, OfHeight, Parents
  <2>2. ASSUME NEW q \in S PROVE Turn(q) \in S
    BY <2>1 DEF Turn
  <2>3. QED
    BY <2>2
<1>3. PICK f : Turns(f, S, F, start, n)
  <2> HIDE DEF F, S, n, start
  <2>1. n \in Nat
    BY <1>1 DEF n
  <2>2. QED
    BY <1>2, <2>1, Recursion
<1> DEFINE G(g) == [i \in 0 .. n |-> IF i = 0 THEN start
                                    ELSE Loop!The({Turn(a) : a \in {g[i - 1]}})]
           g == CHOOSE g : g = G(g)
<1>4. Queues(c1, c2) = g[n]
  BY DEF Queues, Loop!Iterate
<1>5. \A x : Loop!The({x}) = x
  BY DEF Loop!The
<1> HIDE DEF start, S
<1>6. \A h, i : Loop!The({Turn(a) : a \in {h[i - 1]}}) = Turn(h[i - 1])
  <2> TAKE h, i
  <2>1. {Turn(a) : a \in {h[i - 1]}} = {Turn(h[i - 1])}
    OBVIOUS
  <2>2. QED
    BY <1>5, <2>1, Zenon
<1>7. \A h : G(h) = [i \in 0 .. n |-> IF i = 0 THEN start ELSE Turn(h[i - 1])]
  BY <1>6, Zenon
<1>8. f = G(f)
  <2>1. ASSUME NEW i \in 0 .. n, i # 0 PROVE F[f[i - 1]] = Turn(f[i - 1])
    <3>1. i - 1 \in 0 .. n
      BY <1>1, <2>1
    <3>2. f[i - 1] \in S
      BY <1>3, <3>1, Zenon DEF Turns
    <3>3. QED
      BY <3>2
  <2>2. f = [i \in 0 .. n |-> IF i = 0 THEN start ELSE F[f[i - 1]]]
    BY <1>3, Zenon DEF Turns
  <2> HIDE DEF F, n, G
  <2>3. f = [i \in 0 .. n |-> IF i = 0 THEN start ELSE Turn(f[i - 1])]
    BY <2>1, <2>2, Zenon
  <2>4. QED
    BY <1>7, <2>3, Zenon
<1>9. g = G(g)
  <2> HIDE DEF G
  <2>1. QED
    BY <1>8, Zenon
<1>10. g = [i \in 0 .. n |-> IF i = 0 THEN start ELSE Turn(g[i - 1])]
  BY <1>7, <1>9, Zenon
<1> HIDE DEF g
<1>11. QED
  BY <1>4, <1>10, Zenon DEF start

\* What a turn keeps: the queues hold ancestors of c1 and of c2, and every common
\* ancestor is still to be met in both.
QueuesHold(q, c1, c2) ==
  /\ q[1] \subseteq Ancestors({c1}) /\ q[2] \subseteq Ancestors({c2})
  /\ Common(c1, c2) \subseteq Ancestors(q[1]) \cap Ancestors(q[2])

LoopIsOver(q) == Emptied(q) \/ FindCommonRef(q) # {}

\* A turn of the loop meets a common ancestor before it pops it.
LEMMA TurnKeeps ==
  ASSUME NEW K, History(K), NEW c1 \in K, NEW c2 \in K, NEW q1 \in SUBSET K, NEW q2 \in SUBSET K,
         QueuesHold(<<q1, q2>>, c1, c2), ~LoopIsOver(<<q1, q2>>)
  PROVE  LET h == Tallest(<<q1, q2>>)
             new == <<ParentsToQueue(q1, h), ParentsToQueue(q2, h)>>
         IN  /\ Turn(<<q1, q2>>) = new
             /\ QueuesHold(new, c1, c2)
             /\ new[1] \subseteq K /\ new[2] \subseteq K
             /\ ~Emptied(new) => Tallest(new) < h
<1> DEFINE h == Tallest(<<q1, q2>>)
           new1 == ParentsToQueue(q1, h)
           new2 == ParentsToQueue(q2, h)
<1>1. q1 # {} /\ q2 # {} /\ OfHeight(q1, h) \cap OfHeight(q2, h) = {}
  BY DEF LoopIsOver, Emptied, FindCommonRef
<1>2. Turn(<<q1, q2>>) = <<new1, new2>>
  BY DEF LoopIsOver, Turn
<1>3. h \in Nat /\ \A c \in q1 \cup q2 : c.height <= h
  BY <1>1, TallestRight
<1> HIDE DEF h
<1>4. /\ new1 \subseteq K /\ new1 \subseteq Ancestors(q1) /\ \A c \in new1 : c.height < h
      /\ Ancestors(q1) \subseteq OfHeight(q1, h) \cup Ancestors(new1)
  BY <1>3, ParentsQueued
<1>5. /\ new2 \subseteq K /\ new2 \subseteq Ancestors(q2) /\ \A c \in new2 : c.height < h
      /\ Ancestors(q2) \subseteq OfHeight(q2, h) \cup Ancestors(new2)
  BY <1>3, ParentsQueued
<1> HIDE DEF new1, new2
<1>6. Ancestors(q1) \subseteq Ancestors({c1}) /\ Ancestors(q2) \subseteq Ancestors({c2})
  <2>1. Closed(Ancestors({c1})) /\ Closed(Ancestors({c2}))
    BY AncestorsAre
  <2>2. q1 \subseteq Ancestors({c1}) /\ q2 \subseteq Ancestors({c2})
    BY DEF QueuesHold
  <2>3. QED
    BY <2>1, <2>2, AncestorsAre, Zenon
<1>7. ASSUME NEW x \in Common(c1, c2) PROVE x \in Ancestors(new1) /\ x \in Ancestors(new2)
  <2>1. x \in Ancestors(q1) /\ x \in Ancestors(q2)
    BY <1>7 DEF QueuesHold
  <2>2. x.height = h => x \in q1 /\ x \in q2
    BY <1>3, <2>1, AncestorsLower
  <2>3. x.height # h
    BY <1>1, <2>2 DEF OfHeight
  <2>4. QED
    BY <1>4, <1>5, <2>1, <2>3 DEF OfHeight
<1>8. QueuesHold(<<new1, new2>>, c1, c2)
  BY <1>4, <1>5, <1>6, <1>7, Zenon DEF QueuesHold
<1>9. ASSUME new1 # {}, new2 # {} PROVE Tallest(<<new1, new2>>) < h
  <2>1. PICK c \in new1 \cup new2 : c.height = Tallest(<<new1, new2>>)
    BY <1>4, <1>5, <1>9, TallestRight
  <2>2. QED
    BY <1>4, <1>5, <2>1
<1>10. QED
  BY <1>2, <1>4, <1>5, <1>8, <1>9 DEF Emptied, h, new1, new2

\* When the loop is over, what it found are the highest common ancestors.
LEMMA FoundRight ==
  ASSUME NEW K, History(K), NEW c1 \in K, NEW c2 \in K, NEW q1 \in SUBSET K, NEW q2 \in SUBSET K,
         QueuesHold(<<q1, q2>>, c1, c2), LoopIsOver(<<q1, q2>>)
  PROVE  (IF Emptied(<<q1, q2>>) THEN {} ELSE FindCommonRef(<<q1, q2>>)) = MostRecentCommon(c1, c2)
<1> DEFINE A == Common(c1, c2)
<1>1. A \subseteq Ancestors(q1) /\ A \subseteq Ancestors(q2) /\ A \subseteq K
  <2>1. Ancestors(q1) \subseteq K
    BY AncestorsInside
  <2>2. QED
    BY <2>1 DEF QueuesHold
<1>2. CASE Emptied(<<q1, q2>>)
  <2>1. Ancestors({}) = {}
    BY DEF Ancestors
  <2>2. A = {}
    BY <1>1, <1>2, <2>1 DEF Emptied
  <2>3. QED
    BY <1>2, <2>2 DEF MostRecentCommon
<1>3. CASE ~Emptied(<<q1, q2>>)
  <2> DEFINE h == Tallest(<<q1, q2>>)
             R == FindCommonRef(<<q1, q2>>)
  <2>1. q1 # {} /\ q2 # {}
    BY <1>3 DEF Emptied
  <2>2. h \in Nat /\ \A c \in q1 \cup q2 : c.height <= h
    BY <2>1, TallestRight
  <2>3. R = OfHeight(q1, h) \cap OfHeight(q2, h) /\ R # {}
    BY <1>3 DEF FindCommonRef, LoopIsOver
  <2> HIDE DEF h, R
  <2>4. R \subseteq A /\ \A c \in R : c.height = h
    BY <2>3, Zenon DEF OfHeight, Common, QueuesHold
  <2>5. \A x \in A : x.height <= h /\ (x.height = h => x \in q1 /\ x \in q2)
    BY <1>1, <2>2, AncestorsLower
  <2>6. A # {} /\ MaxHeight(A) = h
    <3>1. A # {}
      BY <2>3, <2>4
    <3>2. /\ \E c \in A : c.height = MaxHeight(A)
          /\ \A c \in A : c.height <= MaxHeight(A)
          /\ MaxHeight(A) \in Nat
      <4> HIDE DEF A
      <4>1. QED
        BY <1>1, <3>1, MaxHeightRight
    <3>3. PICK c : c \in R
      BY <2>3
    <3>4. QED
      BY <2>2, <2>4, <2>5, <3>1, <3>2, <3>3
  <2>7. R = OfHeight(A, h)
    BY <2>3, <2>4, <2>5 DEF OfHeight
  <2>8. QED
    BY <1>3, <2>6, <2>7 DEF MostRecentCommon, R
<1>4. QED
  BY <1>2, <1>3

\* FindCommonAncestor returns the common ancestors of the greatest height, and none only if
\* there is none, in every commit graph: with any number of parents, of any shape, and with
\* heights that jump because values have chunks of their own.
THEOREM FindsMostRecentCommon ==
  ASSUME NEW K, History(K), NEW c1 \in K, NEW c2 \in K
  PROVE  FindCommonAncestor(c1, c2) = MostRecentCommon(c1, c2)
<1> DEFINE n == MaxHeight({c1, c2})
<1>1. n \in Nat /\ c1.height <= n /\ c2.height <= n
  BY MaxHeightRight
<1>2. PICK f : /\ f = [i \in 0 .. n |-> IF i = 0 THEN <<{c1}, {c2}>> ELSE Turn(f[i - 1])]
               /\ Queues(c1, c2) = f[n]
  BY TurnsExist, Zenon
<1> HIDE DEF n
<1>3. f[0] = <<{c1}, {c2}>> /\ \A i \in Nat : i + 1 <= n => f[i + 1] = Turn(f[i])
  <2>1. f[0] = <<{c1}, {c2}>>
    BY <1>1, <1>2
  <2>2. ASSUME NEW i \in Nat, i + 1 <= n PROVE f[i + 1] = Turn(f[i])
    <3>1. i + 1 \in 0 .. n /\ i + 1 # 0 /\ (i + 1) - 1 = i
      BY <1>1, <2>2
    <3>2. QED
      BY <1>2, <3>1, Zenon
  <2>3. QED
    BY <2>1, <2>2
<1> DEFINE Good(q, i) == /\ q \in (SUBSET K) \X (SUBSET K)
                         /\ QueuesHold(q, c1, c2)
                         /\ LoopIsOver(q) \/ Tallest(q) <= n - i
           P == {i \in Nat : i <= n => Good(f[i], i)}
<1>4. 0 \in P
  <2> SUFFICES Good(<<{c1}, {c2}>>, 0)
    BY <1>3
  <2>1. {c1} \in SUBSET K /\ {c2} \in SUBSET K
    OBVIOUS
  <2>2. QueuesHold(<<{c1}, {c2}>>, c1, c2)
    BY <2>1, AncestorsAre, Zenon DEF QueuesHold, Common
  <2>3. Tallest(<<{c1}, {c2}>>) <= n - 0
    <3>1. PICK c \in {c1} \cup {c2} : c.height = Tallest(<<{c1}, {c2}>>)
      BY <2>1, TallestRight
    <3>2. QED
      BY <1>1, <3>1
  <2>4. QED
    BY <2>1, <2>2, <2>3
<1>5. ASSUME NEW i \in Nat, i \in P PROVE i + 1 \in P
  <2> SUFFICES ASSUME i + 1 <= n PROVE Good(f[i + 1], i + 1)
    OBVIOUS
  <2>1. Good(f[i], i) /\ f[i + 1] = Turn(f[i])
    BY <1>1, <1>3, <1>5
  <2>2. PICK q1 \in SUBSET K, q2 \in SUBSET K : f[i] = <<q1, q2>>
    BY <2>1
  <2>3. CASE LoopIsOver(<<q1, q2>>)
    <3>1. f[i + 1] = <<q1, q2>>
      BY <2>1, <2>2, <2>3 DEF LoopIsOver, Turn
    <3>2. QED
      BY <2>1, <2>2, <2>3, <3>1
  <2>4. CASE ~LoopIsOver(<<q1, q2>>)
    <3> DEFINE h == Tallest(<<q1, q2>>)
               new == <<ParentsToQueue(q1, h), ParentsToQueue(q2, h)>>
    <3>1. QueuesHold(<<q1, q2>>, c1, c2) /\ h <= n - i
      BY <2>1, <2>2, <2>4
    <3>2. /\ f[i + 1] = new
          /\ QueuesHold(new, c1, c2)
          /\ new[1] \subseteq K /\ new[2] \subseteq K
          /\ ~Emptied(new) => Tallest(new) < h
      BY <2>1, <2>2, <2>4, <3>1, TurnKeeps
    <3>3. h \in Nat
      BY <2>4, TallestRight DEF LoopIsOver, Emptied
    <3>4. ~Emptied(new) => Tallest(new) \in Nat
      <4>1. ParentsToQueue(q1, h) \in SUBSET K /\ ParentsToQueue(q2, h) \in SUBSET K
        BY <3>2
      <4>2. QED
        BY <4>1, TallestRight DEF Emptied
    <3>5. LoopIsOver(new) \/ Tallest(new) <= n - (i + 1)
      <4> HIDE DEF h, new
      <4>1. QED
        BY <1>1, <3>1, <3>2, <3>3, <3>4 DEF LoopIsOver
    <3>6. QED
      BY <3>2, <3>5
  <2>5. QED
    BY <2>3, <2>4
<1>6. \A i \in Nat : i \in P
  <2> HIDE DEF P
  <2>1. QED
    BY <1>4, <1>5, SetInduction
<1>7. Good(f[n], n)
  BY <1>1, <1>6
<1>8. PICK q1 \in SUBSET K, q2 \in SUBSET K : f[n] = <<q1, q2>>
  BY <1>7
<1>9. LoopIsOver(<<q1, q2>>)
  <2> SUFFICES ASSUME ~LoopIsOver(<<q1, q2>>) PROVE FALSE
    OBVIOUS
  <2>1. Tallest(<<q1, q2>>) \in Nat \ {0}
    BY TallestRight DEF LoopIsOver, Emptied
  <2>2. Tallest(<<q1, q2>>) <= n - n
    BY <1>7, <1>8
  <2>3. QED
    BY <1>1, <2>1, <2>2
<1>10. FindCommonAncestor(c1, c2) = IF Emptied(<<q1, q2>>) THEN {} ELSE FindCommonRef(<<q1, q2>>)
  BY <1>2, <1>8, Zenon DEF FindCommonAncestor
<1>11. QED
  BY <1>7, <1>8, <1>9, <1>10, FoundRight

----------------------------------------------------------------------------
\* The commit that buildNewCommit and a merge make.
LEMMA NewCommitJoins ==
  ASSUME NEW K, History(K), NEW v \in Value, NEW s \in SUBSET K
  PROVE  LET c == NewCommit(v, s) IN
         /\ History(K \cup {c})
         /\ s \subseteq Ancestors({c})
<1> DEFINE c == NewCommit(v, s)
           H == {ChunkHeight[v]} \cup {x.height : x \in s}
<1>1. c.parents = s /\ c.height = 1 + Max(H)
  BY DEF NewCommit
<1>2. PICK b \in Nat : \A x \in K : x.height =< b
  BY DEF History
<1>3. ChunkHeight[v] \in Nat
  BY HeightAssumption
<1>4. PICK m \in Nat : b <= m /\ ChunkHeight[v] <= m
  <2>1. CASE b <= ChunkHeight[v]
    BY <1>3, <2>1
  <2>2. CASE ~(b <= ChunkHeight[v])
    BY <1>3, <2>2
  <2>3. QED
    BY <2>1, <2>2
<1>5. H \in SUBSET Nat /\ H # {} /\ \A n \in H : n <= m
  BY <1>2, <1>3, <1>4 DEF History
<1>6. Max(H) \in H /\ \A n \in H : n <= Max(H)
  BY <1>5, MaxOfBounded, Zenon
<1> HIDE DEF c
<1>7. c.height \in Nat \ {0} /\ c.height <= m + 1 /\ \A x \in s : x.height < c.height
  <2>1. Max(H) \in Nat /\ Max(H) <= m /\ \A x \in s : x.height \in Nat /\ x.height <= Max(H)
    BY <1>5, <1>6
  <2> HIDE DEF H
  <2>2. QED
    BY <1>1, <2>1
<1>8. History(K \cup {c})
  <2>1. Closed(K \cup {c})
    BY <1>1 DEF Closed, History
  <2>2. \A x \in K \cup {c} : x.height <= m + 1
    BY <1>2, <1>4, <1>7 DEF History
  <2>3. \A x \in K \cup {c} : x.height \in Nat \ {0} /\ \A y \in x.parents : y.height < x.height
    BY <1>1, <1>7 DEF History
  <2>4. QED
    BY <2>1, <2>2, <2>3 DEF History
<1>9. c \in Ancestors({c}) /\ Closed(Ancestors({c}))
  BY <1>8, AncestorsAre
<1>10. QED
  BY <1>1, <1>8, <1>9, Zenon DEF Closed, c

\* A head is a commit or Ref{}, never both.
LEMMA NoHeadIsNone == ASSUME NEW K, History(K) PROVE NoHead \notin K
BY DEF History, NoHead

----------------------------------------------------------------------------
\* The invariant, for the set K of all commits made so far.
IsRoot(r, K) ==
  /\ r.heads = [d \in Dataset |-> r.heads[d]]
  /\ \A d \in Dataset : Head(r, d) \in K \cup {NoHead}

\* Roots r1 and r2 have the same head for every dataset but d.
SameBut(r1, r2, d) == \A x \in Dataset \ {d} : Head(r1, x) = Head(r2, x)

IsCommitOp(op) == op \in {"Commit", "FastForward"}

\* A call that is about to read the root.
Pending(c, K) ==
  /\ c.pc = "read"
  /\ c.id \in Dataset
  /\ IsCommitOp(c.op) \/ c.op = "SetHead" => c.commit \in K

\* Head h of a Commit's dataset is one whose history has the commit and the old head.
Extends(h, commit, old, K) ==
  /\ h \in K
  /\ commit \in Ancestors({h})
  /\ old # NoHead => old \in Ancestors({h})

\* A call that is about to UpdateRoot has prepared a root that differs from the
\* one it read in its own dataset only.  If it fails it reads again.
Prepared(c, K) ==
  /\ IsRoot(c.base, K) /\ IsRoot(c.next, K)
  /\ SameBut(c.base, c.next, c.id)
  /\ Pending(c.was, K) /\ c.was.id = c.id /\ c.was.op = c.op
  /\ IsCommitOp(c.op) => Extends(Head(c.next, c.id), c.was.commit, Head(c.base, c.id), K)
  /\ c.op = "Delete" => Head(c.base, c.id) = c.was.initial

CallOK(c, K) ==
  c # None =>
    /\ c.id \in Dataset
    /\ c.pc = "read" => Pending(c, K)
    /\ c.pc = "update" => Prepared(c, K)

RootsOK(K) ==
  /\ seen = [p \in Client |-> seen[p]]
  /\ IsRoot(root, K)
  /\ \A p \in Client : IsRoot(seen[p], K)

ClientsOK(K) ==
  /\ handle \in [Client -> [id : Dataset, head : K \cup {NoHead}]]
  /\ known \in [Client -> SUBSET K]

CallsOK(K) == call = [p \in Client |-> call[p]] /\ \A p \in Client : CallOK(call[p], K)

DoneOK == NothingLost /\ \A e \in done : e[1] \in Dataset

StateOK(K) == History(K) /\ RootsOK(K) /\ ClientsOK(K) /\ CallsOK(K) /\ DoneOK

IndInv == \E K : StateOK(K)

\* A new commit leaves all of it true.
LEMMA CommitsGrow ==
  ASSUME NEW K, StateOK(K), NEW v \in Value, NEW s \in SUBSET K
  PROVE  StateOK(K \cup {NewCommit(v, s)})
<1> DEFINE L == K \cup {NewCommit(v, s)}
<1>1. History(L)
  BY NewCommitJoins, Zenon DEF StateOK
<1>2. K \subseteq L
  OBVIOUS
<1> HIDE DEF L
<1>3. \A r : IsRoot(r, K) => IsRoot(r, L)
  BY <1>2 DEF IsRoot
<1>4. \A c : Pending(c, K) => Pending(c, L)
  BY <1>2 DEF Pending
<1>5. \A c : Prepared(c, K) => Prepared(c, L)
  BY <1>2, <1>3, <1>4 DEF Prepared, Extends
<1>6. RootsOK(L)
  BY <1>3 DEF StateOK, RootsOK
<1>7. ClientsOK(L)
  BY <1>2 DEF StateOK, ClientsOK
<1>8. CallsOK(L)
  BY <1>4, <1>5 DEF StateOK, CallsOK, CallOK
<1>9. QED
  BY <1>1, <1>6, <1>7, <1>8 DEF StateOK, L

\* Map.Set of one dataset, and so Map.Remove, leaves the others alone.
LEMMA SetSame ==
  ASSUME NEW K, NEW r, IsRoot(r, K), NEW d \in Dataset, NEW c \in K \cup {NoHead}
  PROVE  /\ IsRoot(Set(r, d, c), K)
         /\ SameBut(r, Set(r, d, c), d)
         /\ Head(Set(r, d, c), d) = c
BY DEF IsRoot, SameBut, Set, Head

\* What a client reads is a root, and what it can reach from it are commits.
LEMMA RootIsRoot ==
  ASSUME NEW K, StateOK(K), NEW p \in Client PROVE IsRoot(Root(p), K)
BY DEF StateOK, RootsOK, Root

LEMMA ReachableCommits ==
  ASSUME NEW K, History(K), NEW r, IsRoot(r, K) PROVE Reachable(r) \subseteq K
<1>1. {r.heads[d] : d \in Dataset} \ {NoHead} \in SUBSET K
  BY DEF IsRoot, Head
<1>2. QED
  BY <1>1, AncestorsInside DEF Reachable

\* What Try needs to know of the new head h.
MayBecome(c, h, old, K) ==
  /\ h \in K \cup {NoHead}
  /\ IsCommitOp(c.op) => Extends(h, c.commit, old, K)
  /\ c.op = "Delete" => old = c.initial

\* The call that Try leaves behind is prepared.
LEMMA TryPrepares ==
  ASSUME NEW K, StateOK(K), NEW p \in Client, NEW c, Pending(c, K), NEW d, d = c.id,
         NEW h, MayBecome(c, h, Head(Root(p), d), K), Try(p, c, Set(Root(p), d, h))
  PROVE  CallsOK(K)'
<1> DEFINE new == [op |-> c.op, pc |-> "update", id |-> c.id,
                   base |-> Root(p), next |-> Set(Root(p), d, h), was |-> c]
<1>1. call' = [call EXCEPT ![p] = new]
  BY DEF Try
<1>2. d \in Dataset /\ h \in K \cup {NoHead} /\ IsRoot(Root(p), K)
  BY RootIsRoot DEF Pending, MayBecome
<1>3. /\ IsRoot(Set(Root(p), d, h), K) /\ SameBut(Root(p), Set(Root(p), d, h), d)
      /\ Head(Set(Root(p), d, h), d) = h
  BY <1>2, SetSame
<1>4. CallOK(new, K)
  <2>1. /\ new.next = Set(Root(p), d, h) /\ new.base = Root(p) /\ new.pc = "update"
        /\ new.id = d /\ new.was = c /\ new.op = c.op
    OBVIOUS
  <2> HIDE DEF new
  <2>2. Prepared(new, K)
    BY <1>2, <1>3, <2>1 DEF Prepared, MayBecome
  <2>3. QED
    BY <1>2, <2>1, <2>2 DEF CallOK
<1> HIDE DEF new
<1>5. QED
  BY <1>1, <1>4 DEF StateOK, CallsOK

\* A call that is replaced by a proper one.
LEMMA ElseHarmless ==
  ASSUME NEW K, StateOK(K), NEW p \in Client, NEW c, call' = [call EXCEPT ![p] = c], CallOK(c, K)
  PROVE  CallsOK(K)'
BY DEF StateOK, CallsOK

\* Leave is such a replacement.
LEMMA LeaveHarmless ==
  ASSUME NEW K, StateOK(K), NEW p \in Client, NEW c, c.id \in Dataset, Leave(p, c)
  PROVE  CallsOK(K)'
<1> DEFINE left == [op |-> c.op, pc |-> "return", id |-> c.id]
<1>1. call' = [call EXCEPT ![p] = left] /\ left.pc = "return" /\ left.id \in Dataset
  BY DEF Leave
<1> HIDE DEF left
<1>2. CallOK(left, K)
  BY <1>1 DEF CallOK
<1>3. QED
  BY <1>1, <1>2, ElseHarmless, Zenon

\* A step that leaves the root and the history alone, and reads what it may.
LEMMA QuietStep ==
  ASSUME NEW K, StateOK(K), RootsOK(K)', ClientsOK(K)', CallsOK(K)', UNCHANGED <<root, done>>
  PROVE  StateOK(K)'
BY DEF StateOK, DoneOK, NothingLost

\* Reads(p) adds commits to those p knows.
LEMMA ReadsCommits ==
  ASSUME NEW K, StateOK(K), NEW p \in Client, Reads(p), UNCHANGED handle
  PROVE  ClientsOK(K)'
<1>1. Reachable(Root(p)) \subseteq K
  BY RootIsRoot, ReachableCommits DEF StateOK
<1>2. QED
  BY <1>1 DEF Reads, StateOK, ClientsOK

\* NewDatabase and GetDataset keep the invariant.
LEMMA OpenKeeps ==
  ASSUME NEW K, StateOK(K), NEW p \in Client,
         NewDatabase(p) \/ \E d \in Dataset : GetDataset(p, d)
  PROVE  StateOK(K)'
<1>1. Reachable(root) \subseteq K /\ Reachable(seen[p]) \subseteq K
  BY ReachableCommits DEF StateOK, RootsOK
<1>2. /\ \A d \in Dataset : Head(root, d) \in K \cup {NoHead} /\ Head(seen[p], d) \in K \cup {NoHead}
      /\ handle[p].id \in Dataset
  BY Zenon DEF StateOK, RootsOK, ClientsOK, IsRoot
<1>3. RootsOK(K)'
  BY DEF StateOK, RootsOK, NewDatabase, GetDataset
<1>4. CallsOK(K)'
  BY DEF StateOK, CallsOK, NewDatabase, GetDataset
<1>5. ClientsOK(K)'
  <2>1. CASE NewDatabase(p)
    BY <1>1, <1>2, <2>1 DEF StateOK, ClientsOK, NewDatabase
  <2>2. CASE \E d \in Dataset : GetDataset(p, d)
    BY <1>1, <1>2, <2>2 DEF StateOK, ClientsOK, GetDataset
  <2>3. QED
    BY <2>1, <2>2
<1>6. QED
  BY <1>3, <1>4, <1>5, QuietStep DEF NewDatabase, GetDataset

\* So does the beginning of a Commit ...
LEMMA CommitKeeps ==
  ASSUME NEW K, StateOK(K), NEW p \in Client, NEW v, NEW s, NEW b,
         NewCommit(v, s) \in K, Commit(p, v, s, b)
  PROVE  StateOK(K)'
<1> DEFINE c == [op |-> "Commit", pc |-> "read", id |-> handle[p].id,
                 commit |-> NewCommit(v, s), policy |-> b]
<1>1. /\ call' = [call EXCEPT ![p] = c]
      /\ known' = [known EXCEPT ![p] = @ \cup {NewCommit(v, s)}]
      /\ UNCHANGED <<root, seen, handle, done>>
  BY DEF Commit
<1>2. c.pc = "read" /\ c.id \in Dataset /\ c.commit \in K
  BY DEF StateOK, ClientsOK
<1> HIDE DEF c
<1>3. CallOK(c, K)
  BY <1>2 DEF CallOK, Pending
<1>4. CallsOK(K)'
  BY <1>1, <1>3, ElseHarmless, Zenon
<1>5. RootsOK(K)' /\ ClientsOK(K)'
  BY <1>1 DEF StateOK, RootsOK, ClientsOK
<1>6. QED
  BY <1>1, <1>4, <1>5, QuietStep

\* ... and that of a SetHead and of a FastForward.
LEMMA HeadUpdateKeeps ==
  ASSUME NEW K, StateOK(K), NEW p \in Client,
         \/ \E op : HeadUpdateReturnsAtOnce(p, op)
         \/ \E h \in known[p] : SetHead(p, h) \/ FastForward(p, h)
  PROVE  StateOK(K)'
<1> DEFINE c(op, h) == [op |-> op, pc |-> "read", id |-> handle[p].id,
                        commit |-> h, policy |-> FALSE]
<1>1. /\ \/ /\ handle' = [handle EXCEPT ![p].head = Head(seen[p], handle[p].id)]
            /\ UNCHANGED call
         \/ /\ \E op, h : h \in known[p] /\ call' = [call EXCEPT ![p] = c(op, h)]
            /\ UNCHANGED handle
      /\ UNCHANGED <<root, seen, known, done>>
  BY DEF HeadUpdateReturnsAtOnce, SetHead, FastForward
<1>2. handle[p].id \in Dataset /\ known[p] \subseteq K
  BY DEF StateOK, ClientsOK
<1>3. Head(seen[p], handle[p].id) \in K \cup {NoHead}
  BY <1>2, Zenon DEF StateOK, RootsOK, IsRoot
<1>4. \A op, h : h \in known[p] => CallOK(c(op, h), K)
  <2> TAKE op, h
  <2>1. HAVE h \in known[p]
  <2>2. c(op, h).pc = "read" /\ c(op, h).id \in Dataset /\ c(op, h).commit \in K
    BY <1>2, <2>1
  <2> HIDE DEF c
  <2>3. QED
    BY <2>2 DEF CallOK, Pending
<1> HIDE DEF c
<1>5. CallsOK(K)'
  <2>1. CASE UNCHANGED call
    BY <2>1 DEF StateOK, CallsOK
  <2>2. CASE ~UNCHANGED call
    BY <1>1, <1>4, <2>2, ElseHarmless
  <2>3. QED
    BY <2>1, <2>2
<1>6. RootsOK(K)'
  BY <1>1 DEF StateOK, RootsOK
<1>7. ClientsOK(K)'
  BY <1>1, <1>2, <1>3 DEF StateOK, ClientsOK
<1>8. QED
  BY <1>1, <1>5, <1>6, <1>7, QuietStep

\* A Delete keeps what it saw.
LEMMA DeleteKeeps ==
  ASSUME NEW K, StateOK(K), NEW p \in Client, Delete(p) PROVE StateOK(K)'
<1> DEFINE d == handle[p].id
           c == [op |-> "Delete", pc |-> "read", id |-> d, initial |-> Head(Root(p), d)]
<1>1. /\ Try(p, c, Set(Root(p), d, NoHead)) \/ Leave(p, c)
      /\ Reads(p)
      /\ UNCHANGED <<root, seen, handle, done>>
  BY DEF Delete, Remove
<1>2. d \in Dataset
  BY DEF StateOK, ClientsOK
<1>3. c.pc = "read" /\ c.op = "Delete" /\ c.id = d /\ c.initial = Head(Root(p), d)
  OBVIOUS
<1> HIDE DEF c, d
<1>4. Pending(c, K) /\ MayBecome(c, NoHead, Head(Root(p), d), K)
  BY <1>2, <1>3 DEF Pending, MayBecome, IsCommitOp
<1>5. CallsOK(K)'
  BY <1>1, <1>2, <1>3, <1>4, TryPrepares, LeaveHarmless
<1>6. RootsOK(K)' /\ ClientsOK(K)'
  BY <1>1, ReadsCommits DEF StateOK, RootsOK
<1>7. QED
  BY <1>1, <1>5, <1>6, QuietStep

\* doSetHead, and the retry of a doDelete, keep the invariant.
LEMMA SetHeadKeeps ==
  ASSUME NEW K, StateOK(K), NEW p \in Client, DoSetHead(p) \/ DoDelete(p)
  PROVE  StateOK(K)'
<1>1. Pending(call[p], K)
  BY DEF DoSetHead, DoDelete, StateOK, CallsOK, CallOK, Idle
<1>2. CallsOK(K)'
  <2>1. CASE DoSetHead(p)
    <3>1. MayBecome(call[p], call[p].commit, Head(Root(p), call[p].id), K)
      BY <1>1, <2>1 DEF DoSetHead, Pending, MayBecome, IsCommitOp
    <3>2. QED
      BY <1>1, <2>1, <3>1, TryPrepares DEF DoSetHead
  <2>2. CASE DoDelete(p)
    <3>1. Deletable(p) => MayBecome(call[p], NoHead, Head(Root(p), call[p].id), K)
      BY <2>2 DEF DoDelete, Deletable, MayBecome, IsCommitOp
    <3>2. QED
      BY <1>1, <2>2, <3>1, TryPrepares, LeaveHarmless DEF DoDelete, Remove, Pending
  <2>3. QED
    BY <2>1, <2>2
<1>3. RootsOK(K)' /\ ClientsOK(K)'
  BY ReadsCommits DEF DoSetHead, DoDelete, StateOK, RootsOK
<1>4. QED
  BY <1>2, <1>3, QuietStep DEF DoSetHead, DoDelete

\* A Commit or FastForward that does not merge.
LEMMA FastForwardKeeps ==
  ASSUME NEW K, StateOK(K), NEW p \in Client, call[p] # None, call[p].pc = "read",
         IsCommitOp(call[p].op),
         LET head == Head(Root(p), call[p].id) IN
           head = NoHead \/ head \in FindCommonAncestor(call[p].commit, head)
  PROVE  MayBecome(call[p], call[p].commit, Head(Root(p), call[p].id), K)
<1> DEFINE c == call[p].commit
           head == Head(Root(p), call[p].id)
<1>1. History(K) /\ c \in K /\ call[p].id \in Dataset
  BY DEF StateOK, CallsOK, CallOK, Pending
<1>2. head \in K \cup {NoHead}
  BY <1>1, RootIsRoot, Zenon DEF IsRoot
<1>3. c \in Ancestors({c})
  BY <1>1, AncestorsAre
<1>4. head # NoHead => head \in Ancestors({c})
  <2> SUFFICES ASSUME head # NoHead PROVE head \in Ancestors({c})
    OBVIOUS
  <2>1. head \in MostRecentCommon(c, head)
    BY <1>1, <1>2, FindsMostRecentCommon
  <2>2. QED
    BY <2>1, ZenonT(30) DEF MostRecentCommon, OfHeight, Common
<1>5. QED
  BY <1>1, <1>3, <1>4 DEF MayBecome, Extends, IsCommitOp

\* A Commit whose head is a merge of it with the head found.
LEMMA MergeKeeps ==
  ASSUME NEW K, StateOK(K), NEW p \in Client, call[p] # None, call[p].pc = "read",
         IsCommitOp(call[p].op), NEW v \in Value,
         Head(Root(p), call[p].id) # NoHead,
         LET mc == NewCommit(v, {call[p].commit, Head(Root(p), call[p].id)}) IN
           /\ Try(p, call[p], Set(Root(p), call[p].id, mc))
           /\ known' = [known EXCEPT ![p] = @ \cup Reachable(Root(p)) \cup {mc}],
         UNCHANGED <<root, seen, handle, done>>
  PROVE  IndInv'
<1> DEFINE c == call[p].commit
           head == Head(Root(p), call[p].id)
<1>1. History(K) /\ c \in K /\ call[p].id \in Dataset
  BY DEF StateOK, CallsOK, CallOK, Pending
<1>2. head \in K
  BY <1>1, RootIsRoot, ZenonT(30) DEF IsRoot
<1>3. PICK mc : mc = NewCommit(v, {c, head})
  OBVIOUS
<1> DEFINE L == K \cup {mc}
<1>4. StateOK(L) /\ mc \in L
  <2>1. {c, head} \in SUBSET K
    BY <1>1, <1>2
  <2>2. QED
    BY <1>3, <2>1, CommitsGrow
<1>5. c \in Ancestors({mc}) /\ head \in Ancestors({mc})
  <2>1. PICK s \in SUBSET K : s = {c, head}
    BY <1>1, <1>2
  <2>2. s \subseteq Ancestors({NewCommit(v, s)})
    BY <1>1, NewCommitJoins, Zenon
  <2>3. QED
    BY <1>3, <2>1, <2>2
<1>6. /\ Try(p, call[p], Set(Root(p), call[p].id, mc))
      /\ known' = [known EXCEPT ![p] = @ \cup Reachable(Root(p)) \cup {mc}]
  BY <1>3
<1> HIDE DEF L
<1>7. MayBecome(call[p], mc, head, L)
  BY <1>4, <1>5 DEF MayBecome, Extends, IsCommitOp
<1>8. Pending(call[p], L)
  BY <1>4 DEF StateOK, CallsOK, CallOK
<1>9. CallsOK(L)'
  BY <1>4, <1>6, <1>7, <1>8, TryPrepares, ZenonT(30)
<1>10. RootsOK(L)'
  BY <1>4 DEF StateOK, RootsOK
<1>11. ClientsOK(L)'
  <2>1. Reachable(Root(p)) \subseteq L
    BY <1>4, RootIsRoot, ReachableCommits DEF StateOK
  <2>2. known \in [Client -> SUBSET L] /\ ClientsOK(L)
    BY <1>4 DEF StateOK, ClientsOK
  <2>3. known[p] \cup Reachable(Root(p)) \cup {mc} \in SUBSET L
    BY <1>4, <2>1, <2>2
  <2>4. known' \in [Client -> SUBSET L]
    BY <1>6, <2>2, <2>3
  <2>5. QED
    BY <2>2, <2>4 DEF ClientsOK
<1>12. StateOK(L)'
  BY <1>4, <1>9, <1>10, <1>11, QuietStep
<1>13. QED
  BY <1>12 DEF IndInv

\* A turn of doCommit keeps the invariant: the head it prepares descends from the commit
\* and from the head it read.
LEMMA DoCommitKeeps ==
  ASSUME NEW K, StateOK(K), NEW p \in Client, DoCommit(p) PROVE IndInv'
<1> DEFINE head == Head(Root(p), call[p].id)
<1>1. /\ call[p] # None /\ call[p].pc = "read" /\ IsCommitOp(call[p].op)
      /\ UNCHANGED <<root, seen, handle, done>>
  BY Zenon DEF DoCommit, Idle, IsCommitOp
<1>2. Pending(call[p], K) /\ call[p].id \in Dataset
  BY <1>1 DEF StateOK, CallsOK, CallOK, Pending
<1>3. CASE /\ Reads(p)
           /\ \/ Leave(p, call[p])
              \/ /\ Try(p, call[p], Set(Root(p), call[p].id, call[p].commit))
                 /\ head = NoHead \/ head \in FindCommonAncestor(call[p].commit, head)
  <2>1. CallsOK(K)'
    <3>1. CASE Leave(p, call[p])
      BY <1>2, <3>1, LeaveHarmless
    <3>2. CASE ~Leave(p, call[p])
      <4>1. MayBecome(call[p], call[p].commit, head, K)
        BY <1>1, <1>3, <3>2, FastForwardKeeps, ZenonT(30)
      <4>2. QED
        BY <1>2, <1>3, <3>2, <4>1, TryPrepares
    <3>3. QED
      BY <3>1, <3>2
  <2>2. RootsOK(K)' /\ ClientsOK(K)'
    BY <1>1, <1>3, ReadsCommits DEF StateOK, RootsOK
  <2>3. QED
    BY <1>1, <2>1, <2>2, QuietStep DEF IndInv
<1>4. CASE \E v \in Value :
             LET mc == NewCommit(v, {call[p].commit, head}) IN
             /\ head # NoHead
             /\ Try(p, call[p], Set(Root(p), call[p].id, mc))
             /\ known' = [known EXCEPT ![p] = @ \cup Reachable(Root(p)) \cup {mc}]
  BY <1>1, <1>4, MergeKeeps, Zenon
<1>5. QED
  BY <1>3, <1>4, ZenonT(30) DEF DoCommit, IsFastForward

\* UpdateRoot replaces the root that was read: the history of the head still has what
\* was committed, since the new head descends from the old.
LEMMA SucceedsKeeps ==
  ASSUME NEW K, StateOK(K), NEW p \in Client, UpdateRootSucceeds(p) \/ UpdateRootAlreadyThere(p)
  PROVE  StateOK(K)'
<1> DEFINE c == call[p]
<1>1. Prepared(c, K) /\ c.id \in Dataset
  BY DEF StateOK, CallsOK, CallOK, UpdateRootSucceeds, UpdateRootAlreadyThere, Idle
<1>2. IsRoot(c.next, K) /\ root' = c.next
  BY <1>1, Zenon DEF Prepared, UpdateRootSucceeds, UpdateRootAlreadyThere
<1>3. RootsOK(K)'
  BY <1>2 DEF StateOK, RootsOK, UpdateRootSucceeds, UpdateRootAlreadyThere
<1>4. ClientsOK(K)'
  BY DEF StateOK, ClientsOK, UpdateRootSucceeds, UpdateRootAlreadyThere
<1>5. CallsOK(K)'
  BY <1>1, LeaveHarmless DEF UpdateRootSucceeds, UpdateRootAlreadyThere
<1>6. ASSUME NEW e \in done, e[1] # c.id \/ IsCommitOp(c.op)
      PROVE  Head(root', e[1]) # NoHead /\ e[2] \in Ancestors({Head(root', e[1])})
  <2>1. Head(root, e[1]) # NoHead /\ e[2] \in Ancestors({Head(root, e[1])})
    BY DEF StateOK, DoneOK, NothingLost
  <2>2. CASE root' = root
    BY <2>1, <2>2
  <2>3. CASE root = c.base
    <3>1. CASE e[1] # c.id
      <4>1. e[1] \in Dataset \ {c.id}
        BY <3>1 DEF StateOK, DoneOK
      <4>2. Head(c.base, e[1]) = Head(c.next, e[1])
        BY <1>1, <4>1 DEF Prepared, SameBut
      <4>3. QED
        BY <1>2, <2>1, <2>3, <4>2
    <3>2. CASE e[1] = c.id
      <4>1. Extends(Head(c.next, c.id), c.was.commit, Head(c.base, c.id), K)
        BY <1>1, <1>6, <3>2, Zenon DEF Prepared
      <4>2. QED
        BY <1>2, <2>1, <2>3, <3>2, <4>1, NoHeadIsNone, AncestorsTransitive, ZenonT(30) DEF Extends, StateOK
    <3>3. QED
      BY <3>1, <3>2
  <2>4. QED
    BY <2>2, <2>3 DEF UpdateRootSucceeds, UpdateRootAlreadyThere, Swaps
<1>7. DoneOK'
  <2>1. Record(p)
    BY DEF UpdateRootSucceeds, UpdateRootAlreadyThere
  <2>2. CASE IsCommitOp(c.op)
    <3>1. done' = done \cup {<<c.id, c.was.commit>>}
      BY <2>1, <2>2 DEF Record, IsCommitOp
    <3>2. Head(root', c.id) # NoHead /\ c.was.commit \in Ancestors({Head(root', c.id)})
      BY <1>1, <1>2, <2>2, NoHeadIsNone, Zenon DEF Prepared, Extends, StateOK
    <3>3. ASSUME NEW e \in done'
          PROVE  /\ Head(root', e[1]) # NoHead /\ e[2] \in Ancestors({Head(root', e[1])})
                 /\ e[1] \in Dataset
      <4>1. CASE e \in done
        BY <1>6, <2>2, <4>1 DEF StateOK, DoneOK
      <4>2. CASE e = <<c.id, c.was.commit>>
        <5>1. e[1] = c.id /\ e[2] = c.was.commit
          BY <4>2
        <5>2. QED
          BY <1>1, <3>2, <5>1
      <4>3. QED
        BY <3>1, <4>1, <4>2
    <3>4. QED
      BY <3>3, ZenonT(30) DEF DoneOK, NothingLost
  <2>3. CASE ~IsCommitOp(c.op)
    <3>1. done' = {e \in done : e[1] # c.id}
      BY <2>1, <2>3 DEF Record, IsCommitOp
    <3>2. QED
      BY <1>6, <3>1 DEF StateOK, DoneOK, NothingLost
  <2>4. QED
    BY <2>2, <2>3
<1>8. QED
  BY <1>3, <1>4, <1>5, <1>7 DEF StateOK

\* A failed UpdateRoot goes back to the call that was pending.
LEMMA FailsKeeps ==
  ASSUME NEW K, StateOK(K), NEW p \in Client, UpdateRootFails(p) PROVE StateOK(K)'
<1>1. Prepared(call[p], K) /\ call[p].id \in Dataset
  BY DEF StateOK, CallsOK, CallOK, UpdateRootFails, Idle
<1>2. CallOK(call[p].was, K)
  BY <1>1 DEF Prepared, Pending, CallOK
<1>3. CallsOK(K)'
  BY <1>1, <1>2, ElseHarmless, LeaveHarmless DEF UpdateRootFails
<1>4. RootsOK(K)'
  BY DEF UpdateRootFails, Rebase, StateOK, RootsOK
<1>5. ClientsOK(K)'
  BY DEF UpdateRootFails, StateOK, ClientsOK
<1>6. QED
  BY <1>3, <1>4, <1>5, QuietStep DEF UpdateRootFails

\* The deferred refresh keeps the invariant.
LEMMA ReturnKeeps ==
  ASSUME NEW K, StateOK(K), NEW p \in Client, Return(p) PROVE StateOK(K)'
<1>1. IsRoot(Root(p), K) /\ Reachable(Root(p)) \subseteq K
  BY RootIsRoot, ReachableCommits DEF StateOK
<1>2. Head(Root(p), call[p].id) \in K \cup {NoHead}
  BY <1>1 DEF IsRoot, StateOK, CallsOK, CallOK, Return, Idle
<1>3. CallsOK(K)'
  BY ElseHarmless, ZenonT(30) DEF Return, CallOK
<1>4. RootsOK(K)'
  BY <1>1 DEF Return, StateOK, RootsOK
<1>5. ClientsOK(K)'
  BY <1>1, <1>2 DEF Return, StateOK, ClientsOK
<1>6. QED
  BY <1>3, <1>4, <1>5, QuietStep DEF Return

\* Every step keeps the invariant.
LEMMA InvStep ==
  ASSUME IndInv, [Next]_vars PROVE IndInv'
<1>0. PICK K : StateOK(K)
  BY DEF IndInv
<1>1. ASSUME NEW p \in Client, NewDatabase(p) \/ \E d \in Dataset : GetDataset(p, d) PROVE IndInv'
  BY <1>0, <1>1, OpenKeeps DEF IndInv
<1>2. ASSUME NEW p \in Client, NEW v \in Value, NEW s \in ParentSets(p), NEW b, Commit(p, v, s, b)
      PROVE  IndInv'
  <2> DEFINE L == K \cup {NewCommit(v, s)}
  <2>1. s \in SUBSET K
    BY <1>0 DEF ParentSets, kSubset, StateOK, ClientsOK
  <2>2. StateOK(L)
    BY <1>0, <2>1, CommitsGrow
  <2>3. NewCommit(v, s) \in L
    OBVIOUS
  <2> HIDE DEF L
  <2>4. StateOK(L)'
    BY <1>2, <2>2, <2>3, CommitKeeps
  <2>5. QED
    BY <2>4 DEF IndInv
<1>3. ASSUME NEW p \in Client,
             \/ \E op : HeadUpdateReturnsAtOnce(p, op)
             \/ \E h \in known[p] : SetHead(p, h) \/ FastForward(p, h)
      PROVE  IndInv'
  BY <1>0, <1>3, HeadUpdateKeeps DEF IndInv
<1>4. ASSUME NEW p \in Client, Delete(p) PROVE IndInv'
  BY <1>0, <1>4, DeleteKeeps DEF IndInv
<1>5. ASSUME NEW p \in Client, DoCommit(p) PROVE IndInv'
  BY <1>0, <1>5, DoCommitKeeps
<1>6. ASSUME NEW p \in Client, DoSetHead(p) \/ DoDelete(p) PROVE IndInv'
  BY <1>0, <1>6, SetHeadKeeps DEF IndInv
<1>7. ASSUME NEW p \in Client, UpdateRootSucceeds(p) \/ UpdateRootAlreadyThere(p) PROVE IndInv'
  BY <1>0, <1>7, SucceedsKeeps DEF IndInv
<1>8. ASSUME NEW p \in Client, UpdateRootFails(p) PROVE IndInv'
  BY <1>0, <1>8, FailsKeeps DEF IndInv
<1>9. ASSUME NEW p \in Client, Return(p) PROVE IndInv'
  BY <1>0, <1>9, ReturnKeeps DEF IndInv
<1>10. CASE UNCHANGED vars
  <2>1. StateOK(K)'
    BY <1>0, <1>10, Zenon DEF vars, StateOK, RootsOK, ClientsOK, CallsOK, DoneOK, NothingLost
  <2>2. QED
    BY <2>1 DEF IndInv
<1>11. QED
  BY <1>1, <1>2, <1>3, <1>4, <1>5, <1>6, <1>7, <1>8, <1>9, <1>10 DEF Next, Step, Proceed

\* Every root a client holds is a map of all datasets to commits of one graph, and
\* every prepared root differs from the one read in one dataset.
THEOREM Invariance == Spec => []IndInv
<1>1. Init => IndInv
  <2> SUFFICES ASSUME Init PROVE IndInv
    OBVIOUS
  <2>1. History({})
    BY DEF History, Closed
  <2>2. IsRoot(EmptyHash, {})
    BY DEF IsRoot, EmptyHash, Head
  <2>3. RootsOK({}) /\ ClientsOK({}) /\ CallsOK({}) /\ DoneOK
    BY <2>2 DEF Init, DoneOK, RootsOK, ClientsOK, CallsOK, CallOK, NothingLost
  <2>4. QED
    BY <2>1, <2>3 DEF IndInv, StateOK
<1>2. IndInv /\ [Next]_vars => IndInv'
  BY InvStep
<1>3. QED
  BY <1>1, <1>2, PTL DEF Spec

\* What a client was told is committed stays in the history of its dataset's head until
\* a SetHead or Delete of that dataset succeeds, for any number of clients that race.
THEOREM CommitsNeverLost == Spec => []NothingLost
<1>1. IndInv => NothingLost
  BY DEF IndInv, StateOK, DoneOK
<1>2. QED
  BY <1>1, Invariance, PTL

\* What the property says of one step.
OthersKept ==
  \A p \in Client : Replaces(p) =>
    \A d \in Dataset \ {call[p].id} : Head(root', d) = Head(root, d)

\* An operation on one dataset leaves the heads of all others alone, whatever
\* was committed to them while it ran.
THEOREM DatasetsIndependent == Spec => OthersUntouched
<1>1. IndInv /\ [Next]_vars => [OthersKept]_vars
  <2> SUFFICES ASSUME IndInv, NEW p \in Client, Replaces(p),
                      NEW d \in Dataset \ {call[p].id}
               PROVE  Head(root', d) = Head(root, d)
    BY DEF OthersKept
  <2>1. SameBut(call[p].base, call[p].next, call[p].id)
    BY DEF IndInv, StateOK, CallsOK, CallOK, Prepared, Replaces, Idle
  <2>2. root = call[p].base /\ root' = call[p].next
    BY DEF Replaces, UpdateRootSucceeds, Swaps
  <2>3. QED
    BY <2>1, <2>2 DEF SameBut
<1>2. QED
  BY <1>1, Invariance, PTL DEF Spec, OthersUntouched, OthersKept

\* What the property says of one step.
DeletesSeen ==
  \A p \in Client : Replaces(p) /\ call[p].op = "Delete" =>
    Head(root, call[p].id) = call[p].was.initial

\* A Delete that succeeds removes the head that it found when it was called, however
\* often it had to retry.
THEOREM DeletesOnlyWhatItSaw == Spec => DeletesWhatItSaw
<1>1. IndInv /\ [Next]_vars => [DeletesSeen]_vars
  <2> SUFFICES ASSUME IndInv, NEW p \in Client, Replaces(p), call[p].op = "Delete"
               PROVE  Head(root, call[p].id) = call[p].was.initial
    BY DEF DeletesSeen
  <2>1. Head(call[p].base, call[p].id) = call[p].was.initial
    BY DEF IndInv, StateOK, CallsOK, CallOK, Prepared, Replaces, Idle
  <2>2. QED
    BY <2>1 DEF Replaces, UpdateRootSucceeds, Swaps
<1>2. QED
  BY <1>1, Invariance, PTL DEF Spec, DeletesWhatItSaw, DeletesSeen
=============================================================================
