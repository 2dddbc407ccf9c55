-------------------------------- MODULE Path --------------------------------
(* Paths (go/types/path.go): the parts a path is made of, how they resolve in a  *)
(* value, and how a path is printed and parsed.  A text is a sequence of         *)
(* symbols: the punctuation and the characters of a quoted string are symbols of *)
(* their own; a field name, a number, a hash and an annotation are one symbol.   *)
EXTENDS Values

CONSTANTS
    FieldNames,      \* [symbol of a name -> the field]
    NumberNames,     \* [symbol of a number -> the number]
    HashNames        \* [symbol of a hash -> the hash]

FieldPath(name) == [field |-> name]
IndexPath(idx) == [index |-> idx, intoKey |-> FALSE]
StringPath(chars) == [string |-> chars, intoKey |-> FALSE]
HashIndexPath(h) == [hash |-> h, intoKey |-> FALSE]
AtAnnotation(n) == [at |-> n, intoKey |-> FALSE]
TypeAnnotation == [type |-> 0]

Has(part, f) == f \in DOMAIN part

LenOf(v) == CASE KindOf(v) = "list" -> Len(v.list)
              [] KindOf(v) = "set" -> Cardinality(v.set)
              [] KindOf(v) = "map" -> Cardinality(DOMAIN v.map)
              [] OTHER -> -1

(* getAbsoluteIndex: a negative index counts from the end; -1 where it is not ok. *)
getAbsoluteIndex(v, relIdx) ==
    IF relIdx < 0 THEN IF -relIdx > LenOf(v) THEN -1 ELSE LenOf(v) + relIdx
    ELSE IF relIdx >= LenOf(v) THEN -1 ELSE relIdx

ResolveField(part, v) ==
    IF KindOf(v) = "struct" THEN GetOf(v, part.field) ELSE nil

(* A set is not indexed by an IndexPath. *)
ResolveIndex(part, v) ==
    LET abs == getAbsoluteIndex(v, part.index) IN
    CASE KindOf(v) = "list" ->
            IF abs = -1 THEN nil ELSE IF part.intoKey THEN Num(abs) ELSE v.list[abs + 1]
      [] KindOf(v) = "map" ->
            IF part.intoKey /\ part.index \in DOMAIN v.map THEN Num(part.index)
            ELSE IF part.intoKey THEN nil ELSE GetOf(v, part.index)
      [] OTHER -> nil

ResolveHash(part, v) ==
    LET found == IF KindOf(v) \in {"map", "set"}
                 THEN {k \in DOMAIN Entries(v) : HashOf(k) = part.hash} ELSE {}
    IN  IF found = {} THEN nil
        ELSE LET k == CHOOSE k \in found : TRUE
             IN  IF part.intoKey THEN Num(k) ELSE Entries(v)[k]

ResolveAt(part, v) ==
    LET abs == getAbsoluteIndex(v, part.at)
        k == SetToSortSeq(DOMAIN Entries(v), <)[abs + 1]
    IN  CASE LenOf(v) = -1 \/ abs = -1 -> nil
          [] LenOf(v) # -1 /\ abs # -1 ->
                IF KindOf(v) = "list" THEN IF part.intoKey THEN nil ELSE v.list[abs + 1]
                ELSE IF part.intoKey THEN Num(k) ELSE Entries(v)[k]

ResolvePart(part, v) ==
    CASE Has(part, "field") -> ResolveField(part, v)
      [] Has(part, "index") -> ResolveIndex(part, v)
      [] Has(part, "hash") -> ResolveHash(part, v)
      [] Has(part, "at") -> ResolveAt(part, v)
      [] OTHER -> nil

(* Path.Resolve *)
Resolve(path, v) ==
    Foldl(LAMBDA at, part : IF at = nil THEN nil ELSE ResolvePart(part, at), v, path)

-----------------------------------------------------------------------------
(* strconv.Quote over the characters of a string: a newline is escaped too. *)
Quote(chars) ==
    Foldl(LAMBDA out, c : out \o (CASE c = "quote" -> <<"backslash", "quote">>
                                    [] c = "backslash" -> <<"backslash", "backslash">>
                                    [] c = "newline" -> <<"backslash", "n">>
                                    [] OTHER -> <<c>>),
          <<"quote">>, chars) \o <<"quote">>

SymbolOf(names, x) == CHOOSE s \in DOMAIN names : names[s] = x
KeySuffix(part) == IF part.intoKey THEN <<"@key">> ELSE <<>>

PartString(part) ==
    CASE Has(part, "field") -> <<".", SymbolOf(FieldNames, part.field)>>
      [] Has(part, "index") ->
            <<"[", SymbolOf(NumberNames, part.index), "]">> \o KeySuffix(part)
      [] Has(part, "string") -> <<"[">> \o Quote(part.string) \o <<"]">> \o KeySuffix(part)
      [] Has(part, "hash") ->
            <<"[", "#", SymbolOf(HashNames, part.hash), "]">> \o KeySuffix(part)
      [] Has(part, "at") -> <<"@at", SymbolOf(NumberNames, part.at)>> \o KeySuffix(part)
      [] OTHER -> <<"@type">>

(* Path.String *)
PathString(path) == Foldl(LAMBDA out, part : out \o PartString(part), <<>>, path)

ParseError == <<[error |-> 0]>>

(* Mutant: a backslash escapes only a quote. *)
RECURSIVE ParseQuotedOnly(_, _, _)
ParseQuotedOnly(str, i, chars) ==
    IF i > Len(str) THEN [chars |-> chars, at |-> i, ok |-> TRUE]
    ELSE IF str[i] = "quote" THEN [chars |-> chars, at |-> i + 1, ok |-> TRUE]
    ELSE IF str[i] = "backslash" /\ i < Len(str) /\ str[i + 1] = "quote"
    THEN ParseQuotedOnly(str, i + 2, Append(chars, str[i + 1]))
    ELSE ParseQuotedOnly(str, i + 1, Append(chars, str[i]))

(* ParsePathIndex' string case from position i on: only " and \ can be escaped.   *)
(* A string that is not closed ends with the text.                               *)
RECURSIVE ParseQuoted(_, _, _)
ParseQuoted(str, i, chars) ==
    IF i > Len(str) THEN [chars |-> chars, at |-> i, ok |-> TRUE]
    ELSE IF str[i] = "quote" THEN [chars |-> chars, at |-> i + 1, ok |-> TRUE]
    ELSE IF str[i] = "backslash" /\ i < Len(str)
    THEN IF str[i + 1] \notin {"backslash", "quote"}
         THEN [chars |-> chars, at |-> i, ok |-> FALSE]
         ELSE ParseQuoted(str, i + 2, Append(chars, str[i + 1]))
    ELSE ParseQuoted(str, i + 1, Append(chars, str[i]))

(* ParsePathIndex: the part, and where the text goes on. *)
ParsePathIndex(str, i) ==
    LET q == ParseQuoted(str, i + 1, <<>>)
        Part(part, at) == [part |-> part, at |-> at, ok |-> TRUE]
        Bad == [part |-> TypeAnnotation, at |-> i, ok |-> FALSE]
    IN  IF i > Len(str) THEN Bad
        ELSE CASE str[i] = "quote" ->
                    IF q.ok THEN Part(StringPath(q.chars), q.at) ELSE Bad
               [] str[i] = "#" ->
                    IF i < Len(str) /\ str[i + 1] \in DOMAIN HashNames
                    THEN Part(HashIndexPath(HashNames[str[i + 1]]), i + 2) ELSE Bad
               [] OTHER -> IF str[i] \in DOMAIN NumberNames
                           THEN Part(IndexPath(NumberNames[str[i]]), i + 1) ELSE Bad

(* constructPath: the parts of the text from position i on. *)
RECURSIVE constructPath(_, _, _)
constructPath(path, str, i) ==
    LET idx == ParsePathIndex(str, i + 1)
        last == path[Len(path)]
        more == i < Len(str)
    IN  IF i > Len(str) THEN path
        ELSE CASE str[i] = "." ->
                    IF more /\ str[i + 1] \in DOMAIN FieldNames
                    THEN constructPath(Append(path, FieldPath(FieldNames[str[i + 1]])), str, i + 2)
                    ELSE ParseError
               [] str[i] = "[" ->
                    IF more /\ idx.ok /\ idx.at <= Len(str) /\ str[idx.at] = "]"
                    THEN constructPath(Append(path, idx.part), str, idx.at + 1)
                    ELSE ParseError
               [] str[i] = "@at" ->
                    IF more /\ str[i + 1] \in DOMAIN NumberNames
                    THEN constructPath(Append(path, AtAnnotation(NumberNames[str[i + 1]])), str, i + 2)
                    ELSE ParseError
               [] str[i] = "@key" ->
                    IF path # <<>> /\ Has(last, "intoKey")
                    THEN constructPath([path EXCEPT ![Len(path)] = [last EXCEPT !.intoKey = TRUE]],
                                       str, i + 1)
                    ELSE ParseError
               [] str[i] = "@type" -> constructPath(Append(path, TypeAnnotation), str, i + 1)
               [] OTHER -> ParseError

ParsePath(str) == IF str = <<>> THEN ParseError ELSE constructPath(<<>>, str, 1)
=============================================================================
