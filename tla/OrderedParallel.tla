-------------------------- MODULE OrderedParallel --------------------------
(***************************************************************************)
(* orderedparallel.New: a pool of goroutines applies fn to the values of   *)
(* |input| and sends the results on |out| in the order of the input.       *)
(* Channels wq and out are unbuffered; fn is the identity, its duration    *)
(* the time a worker takes.                                                *)
(***************************************************************************)
EXTENDS Naturals, Sequences, FiniteSets, FiniteSetsExt

CONSTANTS
  Worker,  \* parallelism goroutines
  Inputs   \* the inputs: a set of sequences

VARIABLES
  input,     \* all that |input| carries
  inCount,
  outCount,
  wqClosed,
  worker,    \* worker[w]: [pc, item]
  mu,        \* the worker that holds mu, or none
  outHeap,   \* orders of the finished items
  out,       \* what the caller received
  closes     \* how often out was closed

poolVars == <<input, inCount, outCount, wqClosed, worker, mu, outHeap, out, closes>>

\* The order of no item.
NoItem == 99
NoWorker == "none"

PoolInit ==
  /\ input \in Inputs
  /\ inCount = 0
  /\ outCount = 0
  /\ wqClosed = FALSE
  /\ worker = [w \in Worker |-> [pc |-> "receive", item |-> NoItem]]
  /\ mu = NoWorker
  /\ outHeap = {}
  /\ out = <<>>
  /\ closes = 0

Go(w, pc, item) == worker' = [worker EXCEPT ![w] = [pc |-> pc, item |-> item]]

\* The feeder hands the next value to a worker that receives from wq.
Feed(w) ==
  /\ inCount < Len(input)
  /\ worker[w].pc = "receive"
  /\ Go(w, "fn", inCount)
  /\ inCount' = inCount + 1
  /\ UNCHANGED <<input, outCount, wqClosed, mu, outHeap, out, closes>>

CloseWorkQueue ==
  /\ inCount = Len(input)
  /\ ~wqClosed
  /\ wqClosed' = TRUE
  /\ UNCHANGED <<input, inCount, outCount, worker, mu, outHeap, out, closes>>

\* fn is done, and insertAndProcessHeap has pushed the result.
Insert(w) ==
  /\ worker[w].pc = "fn"
  /\ mu = NoWorker
  /\ mu' = w
  /\ outHeap' = outHeap \cup {worker[w].item}
  /\ Go(w, "process", NoItem)
  /\ UNCHANGED <<input, inCount, outCount, wqClosed, out, closes>>

\* Peek of an empty heap has order 0.
Peek(heap) == IF heap = {} THEN 0 ELSE Min(heap)

\* Mutant: whatever is on top of the heap goes out.
IsNextAny(heap, count) == heap # {}

IsNext(heap, count) == Peek(heap) = count

\* The worker holds mu while the caller receives what is next.
Process(w) ==
  /\ worker[w].pc = "process"
  /\ mu = w
  /\ IF IsNext(outHeap, outCount)
     THEN /\ outHeap' = outHeap \ {Peek(outHeap)}
          /\ out' = Append(out, input[Peek(outHeap) + 1])
          /\ outCount' = outCount + 1
          /\ UNCHANGED <<worker, mu>>
     ELSE /\ mu' = NoWorker
          /\ Go(w, "receive", NoItem)
          /\ UNCHANGED <<outHeap, out, outCount>>
  /\ UNCHANGED <<input, inCount, wqClosed, closes>>

ClosesOut(w) == outCount = inCount

\* wq is closed: the worker that finds all results sent closes out.
Leave(w) ==
  /\ worker[w].pc = "receive"
  /\ wqClosed
  /\ mu = NoWorker
  /\ Go(w, "done", NoItem)
  /\ IF ClosesOut(w)
     THEN outCount' = outCount + 1 /\ closes' = closes + 1
     ELSE UNCHANGED <<outCount, closes>>
  /\ UNCHANGED <<input, inCount, wqClosed, mu, outHeap, out>>

PoolNext ==
  \/ CloseWorkQueue
  \/ \E w \in Worker : Feed(w) \/ Insert(w) \/ Process(w) \/ Leave(w)

PoolSpec == PoolInit /\ [][PoolNext]_poolVars

----------------------------------------------------------------------------
\* What ordered_parallel.go promises: the results arrive in the order of the
\* input, out is closed once, and only after the last of them.
InputOrder ==
  /\ out = SubSeq(input, 1, Len(out))
  /\ closes <= 1
  /\ closes = 1 => out = input
=============================================================================
