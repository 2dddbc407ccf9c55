------------------------------ MODULE SeqFold ------------------------------
(* A left fold over a sequence as a recursive function: linear for TLC, and      *)
(* without a RECURSIVE operator.                                                 *)
EXTENDS Naturals, Sequences, FiniteSets

(* The element of a singleton; TLC evaluates what is passed in a set only once. *)
The(S) == CHOOSE x \in S : TRUE

Foldl(op(_, _), base, seq) ==
    LET f[i \in 0 .. Len(seq)] ==
          IF i = 0 THEN base ELSE The({op(a, seq[i]) : a \in {f[i - 1]}})
    IN  f[Len(seq)]

(* The elements of a finite set in the order less. *)
SortBy(S, less(_, _)) ==
    [i \in 1 .. Cardinality(S) |->
       CHOOSE x \in S : Cardinality({y \in S : less(y, x)}) = i - 1]

(* op applied n times. *)
Iterate(op(_), base, n) ==
    LET f[i \in 0 .. n] == IF i = 0 THEN base ELSE The({op(a) : a \in {f[i - 1]}})
    IN  f[n]
=============================================================================
