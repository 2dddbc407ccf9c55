------------------------------- MODULE Nomdex -------------------------------
(* The query language of nomdex: a query is parsed, its comparisons become ranges *)
(* of the keys of an index, and a search unites the object sets under the keys of *)
(* those ranges.  A token is [tok, text]; the text of a number or a string is     *)
(* the value it denotes, an integer in the order of the values.  The iterators   *)
(* over sets of objects, whose unions and intersections Collections checks, are  *)
(* sets here; an index maps a key to a set of objects.                           *)
EXTENDS SeqFold, Integers, SequencesExt

Token(tok, text) == [tok |-> tok, text |-> text]
EOF == Token("EOF", "")

compOps == {"=", ">", ">=", "<", "<=", "!="}
boolOps == {"and", "or"}

(* An expression: a comparison, a conjunction or disjunction (idx is "" when its  *)
(* sides use different indexes), or the empty logExpr{}.                         *)
compExpr(idx, op, v) == [kind |-> "comp", idx |-> idx, op |-> op, v |-> v]
logExpr(op, e1, e2) ==
    [kind |-> "log", idx |-> IF e1.idx = e2.idx THEN e1.idx ELSE "",
     op |-> op, e1 |-> e1, e2 |-> e2]
emptyExpr == [kind |-> "empty", idx |-> ""]

-----------------------------------------------------------------------------
(* qScanner.Scan and Peek: the token at a position. *)
Scan(q, i) == IF i <= Len(q) THEN q[i] ELSE EOF

(* What a parser returns: the expression and the position after it; an error is   *)
(* a panic that parseQuery catches.                                              *)
Parsed(e, i) == [err |-> FALSE, e |-> e, next |-> i]
ParseError == [err |-> TRUE]

parseValExpr(q, i) ==
    LET neg == Scan(q, i).tok = "-"
        at == IF neg THEN i + 1 ELSE i
        t == Scan(q, at)
    IN  CASE t.tok = "String" /\ ~neg -> Parsed(t.text, at + 1)
          [] t.tok \in {"Int", "Float"} -> Parsed(IF neg THEN -t.text ELSE t.text, at + 1)
          [] OTHER -> ParseError

isCompOp(t) == t.tok \in {"Ident", "="} /\ t.text \in compOps

parseCompExpr(q, i, indexName) ==
    LET val == parseValExpr(q, i + 1)
    IN  IF ~isCompOp(Scan(q, i)) \/ val.err THEN ParseError
        ELSE Parsed(compExpr(indexName, Scan(q, i).text, val.e), val.next)

isBoolOp(t) == t.tok = "Ident" /\ t.text \in boolOps

(* The right side of a boolean operator is everything that follows it. *)
Combined(op, e1, right) ==
    IF right.err THEN ParseError ELSE Parsed(logExpr(op, e1, right.e), right.next)

RECURSIVE parseExpr(_, _, _)
(* After a group, which ends with the parenthesis at i - 1. *)
parseAfterGroup(q, e1, i, names) ==
    LET t == Scan(q, i)
    IN  CASE t.tok = ")" -> Parsed(e1, i)
          [] isBoolOp(t) -> Combined(t.text, e1, parseExpr(q, i + 1, names))
          [] t = EOF -> Parsed(e1, i + 1)
          [] OTHER -> ParseError

(* After a comparison: a token that is neither an operator, a parenthesis nor the   *)
(* end is skipped, and the expression is the empty one.                          *)
parseAfterComp(q, e1, i, names) ==
    LET t == Scan(q, i)
    IN  CASE t.tok = ")" -> Parsed(e1, i)
          [] isBoolOp(t) -> Combined(t.text, e1, parseExpr(q, i + 1, names))
          [] t.tok = "Ident" /\ ~isBoolOp(t) -> ParseError
          [] t = EOF -> Parsed(e1, i)
          [] OTHER -> Parsed(emptyExpr, i + 1)

(* names are the datasets openIndex finds an index in. *)
parseExpr(q, i, names) ==
    LET t == Scan(q, i)
    IN  CASE t.tok = "(" ->
               LET group == parseExpr(q, i + 1, names)
               IN  IF group.err \/ Scan(q, group.next).tok # ")" THEN ParseError
                   ELSE parseAfterGroup(q, group.e, group.next + 1, names)
          [] t.tok = "Ident" /\ t.text \in names ->
               LET comp == parseCompExpr(q, i + 1, t.text)
               IN  IF comp.err THEN ParseError
                   ELSE parseAfterComp(q, comp.e, comp.next, names)
          [] OTHER -> ParseError

parseQuery(q, names) == parseExpr(q, 1, names)

-----------------------------------------------------------------------------
(* A bound: infinity is -1 or 1 for a bound without a value.  The type itself     *)
(* does not say whether it is a lower or an upper bound.                         *)
bound(v, incl, inf) == [value |-> v, include |-> incl, infinity |-> inf]
NoLower == bound(0, TRUE, -1)
NoUpper == bound(0, TRUE, 1)

isLessThan(b, o) ==
    \/ b.infinity < o.infinity
    \/ /\ b.infinity = 0 /\ o.infinity = 0
       /\ b.value < o.value \/ (b.value = o.value /\ ~b.include /\ o.include)

isLessThanOrEqual(b, o) == b = o \/ isLessThan(b, o)
isGreaterThanOrEqual(b, o) == ~isLessThan(b, o)

minValue(b, o) == IF isLessThan(b, o) THEN b ELSE o
maxValue(b, o) == IF isLessThan(b, o) THEN o ELSE b

queryRange(lower, upper) == [lower |-> lower, upper |-> upper]

Within(b, r) == isGreaterThanOrEqual(b, r.lower) /\ isLessThanOrEqual(b, r.upper)
intersects(r, o) ==
    \/ Within(r.lower, o) \/ Within(r.upper, o)
    \/ Within(o.lower, r) \/ Within(o.upper, r)

rangeAnd(r, o) ==
    IF ~intersects(r, o) THEN <<>>
    ELSE << queryRange(maxValue(r.lower, o.lower), minValue(r.upper, o.upper)) >>

RangeLess(r, o) == r.lower # o.lower /\ isLessThanOrEqual(r.lower, o.lower)
SortRanges(rs) == SortSeq(rs, RangeLess)

rangeOr(r, o) ==
    IF intersects(r, o)
    THEN << queryRange(minValue(r.lower, o.lower), maxValue(r.upper, o.upper)) >>
    ELSE SortRanges(<<r, o>>)

compRanges(e) ==
    LET below(incl) == queryRange(NoLower, bound(e.v, incl, 0))
        above(incl) == queryRange(bound(e.v, incl, 0), NoUpper)
    IN  CASE e.op = "=" -> << queryRange(bound(e.v, TRUE, 0), bound(e.v, TRUE, 0)) >>
          [] e.op = ">" -> << above(FALSE) >>
          [] e.op = ">=" -> << above(TRUE) >>
          [] e.op = "<" -> << below(FALSE) >>
          [] e.op = "<=" -> << below(TRUE) >>
          [] e.op = "!=" -> << below(FALSE), above(FALSE) >>

(* Every range of the one side with every range of the other, in order. *)
Pairwise(rs1, rs2, op) ==
    LET Pair(r1, r2) == IF op = "and" THEN rangeAnd(r1, r2) ELSE rangeOr(r1, r2)
    IN  FlattenSeq([i \in 1 .. Len(rs1) * Len(rs2) |->
            Pair(rs1[((i - 1) \div Len(rs2)) + 1], rs2[((i - 1) % Len(rs2)) + 1])])

RECURSIVE ranges(_)
ranges(e) ==
    IF e.kind = "comp" THEN compRanges(e)
    ELSE LET rs1 == ranges(e.e1)
             rs2 == ranges(e.e2)
         IN  CASE e.op = "and" -> IF rs1 = <<>> \/ rs2 = <<>> THEN <<>>
                                  ELSE SortRanges(Pairwise(rs1, rs2, e.op))
               [] e.op = "or" -> IF rs1 = <<>> THEN rs2
                                 ELSE IF rs2 = <<>> THEN rs1
                                 ELSE SortRanges(Pairwise(rs1, rs2, e.op))

(* The keys a scan of the index from the lower bound collects before it stops. *)
iteratorsFromRange(index, r) ==
    LET from == {k \in DOMAIN index : r.lower.infinity # 0 \/ k >= r.lower.value}
        Skipped(k) == r.lower.infinity = 0 /\ ~r.lower.include /\ k = r.lower.value
        Stops(k) == /\ r.upper.infinity = 0
                    /\ r.upper.value < k \/ (~r.upper.include /\ k = r.upper.value)
    IN  {k \in from : ~Skipped(k) /\ \A j \in from : j <= k => Skipped(j) \/ ~Stops(j)}

(* iteratorsFromRanges and unionizeIters: the objects under those keys. *)
Search(index, rs) ==
    UNION {index[k] : k \in UNION {iteratorsFromRange(index, rs[i]) : i \in DOMAIN rs}}

(* The objects that an expression's iterator returns. *)
RECURSIVE iterator(_, _)
iterator(e, indexes) ==
    IF e.idx # "" THEN Search(indexes[e.idx], ranges(e))
    ELSE IF e.op = "and" THEN iterator(e.e1, indexes) \cap iterator(e.e2, indexes)
    ELSE iterator(e.e1, indexes) \cup iterator(e.e2, indexes)

runFind(q, indexes) == iterator(parseQuery(q, DOMAIN indexes).e, indexes)

-----------------------------------------------------------------------------
(* What a query means: an object is a function from the indexes' names to its key. *)
RECURSIVE Holds(_, _)
Holds(e, o) ==
    IF e.kind = "log"
    THEN IF e.op = "and" THEN Holds(e.e1, o) /\ Holds(e.e2, o)
         ELSE Holds(e.e1, o) \/ Holds(e.e2, o)
    ELSE CASE e.op = "=" -> o[e.idx] = e.v
           [] e.op = ">" -> o[e.idx] > e.v
           [] e.op = ">=" -> o[e.idx] >= e.v
           [] e.op = "<" -> o[e.idx] < e.v
           [] e.op = "<=" -> o[e.idx] <= e.v
           [] e.op = "!=" -> o[e.idx] # e.v

(* A query's text: the left side of an operator is parenthesised, and the right    *)
(* side needs no parentheses.                                                    *)
RECURSIVE QueryText(_)
QueryText(e) ==
    IF e.kind = "comp"
    THEN << Token("Ident", e.idx), Token(IF e.op = "=" THEN "=" ELSE "Ident", e.op) >>
         \o (IF e.v < 0 THEN << Token("-", "-"), Token("Int", -e.v) >>
             ELSE << Token("Int", e.v) >>)
    ELSE (IF e.e1.kind = "log"
          THEN << Token("(", "(") >> \o QueryText(e.e1) \o << Token(")", ")") >>
          ELSE QueryText(e.e1))
         \o << Token("Ident", e.op) >> \o QueryText(e.e2)

IndexesOf(objects, names) ==
    [n \in names |-> [k \in {o[n] : o \in objects} |-> {o \in objects : o[n] = k}]]

=============================================================================
