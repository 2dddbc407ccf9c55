----------------------- MODULE OrderedParallel_proofs -----------------------
(***************************************************************************)
(* Proofs about OrderedParallel, for any number of workers and any inputs: *)
(* sequences over a set S.                                                 *)
(***************************************************************************)
EXTENDS OrderedParallel, SequenceTheorems, WellFoundedInduction, TLAPS

TypeOK(S) ==
  /\ input \in Seq(S) /\ out \in Seq(S)
  /\ inCount \in 0 .. Len(input)
  /\ outCount \in Nat /\ closes \in Nat
  /\ wqClosed \in BOOLEAN
  /\ worker \in [Worker -> [pc : {"receive", "fn", "process", "done"}, item : Nat]]
  /\ mu \in Worker \cup {NoWorker}
  /\ outHeap \in SUBSET Nat

\* A finished item, or one a worker has, is not out yet, and is in one place.
ItemsInv ==
  /\ \A n \in outHeap : outCount <= n /\ n < inCount
  /\ \A w \in Worker : worker[w].pc = "fn" =>
       /\ outCount <= worker[w].item /\ worker[w].item < inCount
       /\ worker[w].item \notin outHeap
       /\ \A v \in Worker \ {w} : worker[v].pc = "fn" => worker[v].item # worker[w].item

\* The worker that processes the heap is the one that holds mu; it never finds the heap
\* empty when nothing is out yet, where Peek's order 0 would look like the next one.
HeapInv ==
  /\ \A w \in Worker : worker[w].pc = "process" <=> mu = w
  /\ mu # NoWorker /\ outCount = 0 => outHeap # {}

\* Until out is closed outCount is the number of results that are out; the increment
\* that goes with the close takes it past every item.
OutInv ==
  /\ Len(out) <= Len(input)
  /\ \A i \in 1 .. Len(out) : out[i] = input[i]
  /\ wqClosed => inCount = Len(input)
  /\ closes = 0 => outCount = Len(out) /\ outCount <= inCount
  /\ closes # 0 => /\ closes = 1 /\ wqClosed
                   /\ Len(out) = Len(input) /\ outCount = Len(input) + 1

IndInv(S) == TypeOK(S) /\ ItemsInv /\ HeapInv /\ OutInv

----------------------------------------------------------------------------
\* What Peek returns for a heap that is not empty: its least order.
LEMMA PeekIsLeast ==
  ASSUME NEW heap \in SUBSET Nat, heap # {}
  PROVE  Peek(heap) \in heap /\ \A n \in heap : Peek(heap) <= n
<1> DEFINE R == OpToRel(<, Nat)
<1>1. IsWellFoundedOn(R, Nat)
  BY NatLessThanWellFounded
<1>2. \A i, j \in Nat : i < j => <<i, j>> \in R
  BY DEF OpToRel
<1> HIDE DEF R
<1>3. PICK m \in heap : \A n \in heap : ~(<<n, m>> \in R)
  BY <1>1, WFMin, Zenon
<1>4. \A n \in heap : m <= n
  <2> TAKE n \in heap
  <2>1. n \in Nat /\ m \in Nat /\ ~(n < m)
    BY <1>2, <1>3, Zenon
  <2>2. QED
    BY <2>1
<1>5. QED
  BY <1>4 DEF Peek, Min

\* In the initial states nothing is in the heap, held or out.
LEMMA InitInv ==
  ASSUME NEW S, Inputs \subseteq Seq(S), NoWorker \notin Worker, PoolInit
  PROVE  IndInv(S)
<1>1. <<>> \in Seq(S) /\ Len(<<>>) = 0
  BY EmptySeq
<1>2. TypeOK(S)
  <2>1. input \in Seq(S) /\ Len(input) \in Nat
    BY LenProperties DEF PoolInit
  <2>2. worker \in [Worker -> [pc : {"receive", "fn", "process", "done"}, item : Nat]]
    BY DEF PoolInit, NoItem
  <2>3. inCount \in 0 .. Len(input) /\ outCount \in Nat /\ closes \in Nat
    BY <2>1 DEF PoolInit
  <2>4. out \in Seq(S) /\ wqClosed \in BOOLEAN /\ mu \in Worker \cup {NoWorker}
    BY <1>1, Zenon DEF PoolInit
  <2>5. outHeap \in SUBSET Nat
    BY DEF PoolInit
  <2>6. QED
    BY <2>1, <2>2, <2>3, <2>4, <2>5, Zenon DEF TypeOK
<1>3. ItemsInv /\ HeapInv
  BY DEF PoolInit, ItemsInv, HeapInv
<1>4. OutInv
  BY <1>1, <1>2 DEF PoolInit, TypeOK, OutInv
<1>5. QED
  BY <1>2, <1>3, <1>4 DEF IndInv

\* Every step of the feeder and of the workers keeps the invariant.
LEMMA StepInv ==
  ASSUME NEW S, NoWorker \notin Worker, IndInv(S), [PoolNext]_poolVars
  PROVE  IndInv(S)'
<1> USE DEF IndInv
<1>1. ASSUME NEW w \in Worker, Feed(w) PROVE IndInv(S)'
  BY <1>1 DEF Feed, Go, TypeOK, ItemsInv, HeapInv, OutInv
<1>2. CASE CloseWorkQueue
  BY <1>2 DEF CloseWorkQueue, TypeOK, ItemsInv, HeapInv, OutInv
<1>3. ASSUME NEW w \in Worker, Insert(w) PROVE IndInv(S)'
  <2>1. TypeOK(S)'
    BY <1>3 DEF Insert, Go, TypeOK, NoItem
  <2>2. ItemsInv'
    BY <1>3 DEF Insert, Go, TypeOK, ItemsInv
  <2>3. HeapInv'
    BY <1>3 DEF Insert, Go, TypeOK, HeapInv
  <2>4. OutInv'
    BY <1>3 DEF Insert, OutInv
  <2>5. QED
    BY <2>1, <2>2, <2>3, <2>4
<1>4. ASSUME NEW w \in Worker, Process(w), IsNext(outHeap, outCount) PROVE IndInv(S)'
  <2>1. outHeap # {}
    BY <1>4 DEF Process, IsNext, Peek, HeapInv, TypeOK
  <2>2. Peek(outHeap) = outCount /\ outCount \in outHeap
    BY <1>4, <2>1, PeekIsLeast DEF IsNext, TypeOK
  <2>3. closes = 0 /\ outCount = Len(out) /\ outCount + 1 \in 1 .. inCount
    BY <2>2 DEF ItemsInv, OutInv, TypeOK
  <2>4. /\ out' = Append(out, input[outCount + 1])
        /\ outHeap' = outHeap \ {outCount}
        /\ outCount' = outCount + 1
        /\ UNCHANGED <<worker, mu, input, inCount, wqClosed, closes>>
    BY <1>4, <2>2 DEF Process
  <2>5. input[outCount + 1] \in S
    BY <2>3, ElementOfSeq DEF TypeOK
  <2>6. TypeOK(S)'
    BY <2>4, <2>5 DEF TypeOK
  <2>7. ItemsInv'
    BY <2>2, <2>4 DEF ItemsInv, TypeOK
  <2>8. HeapInv'
    BY <2>4 DEF HeapInv, TypeOK
  <2>9. OutInv'
    BY <2>3, <2>4, <2>5 DEF OutInv, TypeOK
  <2>10. QED
    BY <2>6, <2>7, <2>8, <2>9
<1>5. ASSUME NEW w \in Worker, Process(w), ~IsNext(outHeap, outCount) PROVE IndInv(S)'
  <2>1. /\ worker[w].pc = "process" /\ mu = w /\ mu' = NoWorker
        /\ Go(w, "receive", NoItem)
        /\ UNCHANGED <<outHeap, out, outCount, input, inCount, wqClosed, closes>>
    BY <1>5 DEF Process
  <2>2. TypeOK(S)'
    BY <2>1 DEF TypeOK, Go, NoItem
  <2>3. ItemsInv'
    BY <2>1 DEF ItemsInv, TypeOK, Go
  <2>4. HeapInv'
    BY <2>1 DEF HeapInv, TypeOK, Go
  <2>5. OutInv'
    BY <2>1 DEF OutInv
  <2>6. QED
    BY <2>2, <2>3, <2>4, <2>5
<1>6. ASSUME NEW w \in Worker, Leave(w) PROVE IndInv(S)'
  <2>1. CASE outCount = inCount
    <3>1. outHeap = {} /\ \A v \in Worker : worker[v].pc # "fn"
      BY <2>1 DEF ItemsInv, TypeOK
    <3>2. QED
      BY <1>6, <2>1, <3>1 DEF Leave, ClosesOut, Go, NoItem, TypeOK, ItemsInv, HeapInv, OutInv
  <2>2. CASE outCount # inCount
    BY <1>6, <2>2 DEF Leave, ClosesOut, Go, NoItem, TypeOK, ItemsInv, HeapInv, OutInv
  <2>3. QED
    BY <2>1, <2>2
<1>7. CASE UNCHANGED poolVars
  BY <1>7 DEF poolVars, TypeOK, ItemsInv, HeapInv, OutInv
<1>8. QED
  BY <1>1, <1>2, <1>3, <1>4, <1>5, <1>6, <1>7 DEF PoolNext

\* What is out is the beginning of the input, and all of it when out is closed.
LEMMA InvInOrder ==
  ASSUME NEW S, IndInv(S)
  PROVE  InputOrder
<1>1. out = SubSeq(input, 1, Len(out))
  <2>1. /\ SubSeq(input, 1, Len(out)) \in Seq(S)
        /\ Len(SubSeq(input, 1, Len(out))) = Len(out)
        /\ \A i \in 1 .. Len(out) : SubSeq(input, 1, Len(out))[i] = input[i]
    BY DEF IndInv, TypeOK, OutInv
  <2>2. QED
    BY <2>1, SeqEqual DEF IndInv, TypeOK, OutInv
<1>2. closes # 0 => closes = 1 /\ out = input
  BY SeqEqual DEF IndInv, TypeOK, OutInv
<1>3. QED
  BY <1>1, <1>2 DEF InputOrder, IndInv, TypeOK

\* orderedparallel.New "guarantees that results of each call will be sent on |out| in the
\* order the corresponding input was received", and closes out once, after the last of
\* them, for every number of goroutines and every input.
THEOREM ResultsInOrder ==
  ASSUME NEW S, Inputs \subseteq Seq(S), NoWorker \notin Worker
  PROVE  PoolSpec => []InputOrder
<1>1. PoolInit => IndInv(S)
  BY InitInv
<1>2. IndInv(S) /\ [PoolNext]_poolVars => IndInv(S)'
  BY StepInv
<1>3. IndInv(S) => InputOrder
  BY InvInOrder
<1>4. QED
  BY <1>1, <1>2, <1>3, PTL DEF PoolSpec
=============================================================================
