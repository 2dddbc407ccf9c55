------------------------------ MODULE TableFile ------------------------------
(***************************************************************************)
(* An NBS table: how tableWriter lays chunks and index out in a file, and  *)
(* how tableReader finds them again, alone and many at a time.             *)
(*                                                                         *)
(* An address is <<prefix, suffix>>, its first 8 and its last 12 bytes.  A *)
(* chunk is [a, len]: its address and the length of its compressed data.   *)
(* A file is a set of <<offset, field>>: what was written at each offset.  *)
(* Slices are functions on 0 .. n - 1, as they are in the code.            *)
(***************************************************************************)
EXTENDS Naturals, Sequences, FiniteSets, FiniteSetsExt, SeqFold

AddrPrefixSize == 8
AddrSuffixSize == 12
LengthSize == 4
PrefixTupleSize == 12
ChecksumSize == 4
FooterSize == 20
Magic == 255

Prefix(a) == a[1]
Suffix(a) == a[2]

----------------------------------------------------------------------------
\* tableWriter.  addChunk appends the compressed chunk and its checksum.
RecordSize(c) == ChecksumSize + c.len
RecordOffset(chunks, i) == Foldl(LAMBDA n, c : n + RecordSize(c), 0, SubSeq(chunks, 1, i - 1))
addChunks(chunks) ==
  {<<RecordOffset(chunks, i), <<Prefix(chunks[i].a), Suffix(chunks[i].a), chunks[i].len>>>> :
     i \in DOMAIN chunks}

\* The orders of the chunks that sort.Sort can leave the prefixes in: it is not stable.
SortedPrefixes(chunks) ==
  {p \in [DOMAIN chunks -> DOMAIN chunks] :
     /\ \A i, j \in DOMAIN chunks : i # j => p[i] # p[j]
     /\ \A i, j \in DOMAIN chunks : i < j => Prefix(chunks[p[i]].a) <= Prefix(chunks[p[j]].a)}

\* Mutant: the lengths follow the prefixes, not the order of insertion.
writeIndexSorted(chunks, order, pos) ==
  LET n == Len(chunks)
      lengthsOffset == pos + n * PrefixTupleSize
      suffixesOffset == lengthsOffset + n * LengthSize
      fields(k) ==
        LET c == chunks[order[k]]
            ordinal == order[k] - 1
            tuple == pos + (k - 1) * PrefixTupleSize
        IN  {<<tuple, <<Prefix(c.a)>>>>, <<tuple + AddrPrefixSize, <<ordinal>>>>,
             <<lengthsOffset + (k - 1) * LengthSize, <<RecordSize(c)>>>>,
             <<suffixesOffset + ordinal * AddrSuffixSize, <<Suffix(c.a)>>>>}
  IN  UNION {fields(k) : k \in DOMAIN chunks}

\* writeIndex: prefixes in their order, lengths and suffixes in that of insertion.
writeIndex(chunks, order, pos) ==
  LET n == Len(chunks)
      lengthsOffset == pos + n * PrefixTupleSize
      suffixesOffset == lengthsOffset + n * LengthSize
      fields(k) ==
        LET c == chunks[order[k]]
            ordinal == order[k] - 1
            tuple == pos + (k - 1) * PrefixTupleSize
        IN  {<<tuple, <<Prefix(c.a)>>>>, <<tuple + AddrPrefixSize, <<ordinal>>>>,
             <<lengthsOffset + ordinal * LengthSize, <<RecordSize(c)>>>>,
             <<suffixesOffset + ordinal * AddrSuffixSize, <<Suffix(c.a)>>>>}
  IN  UNION {fields(k) : k \in DOMAIN chunks}

writeFooter(count, pos) == {<<pos, <<count>>>>, <<pos + 12, <<Magic>>>>}

indexSize(n) == n * (AddrSuffixSize + LengthSize + PrefixTupleSize)

\* The table of chunks, with the prefixes in one of their orders.
WriteTable(chunks, order) ==
  LET data == RecordOffset(chunks, Len(chunks) + 1)
      footer == data + indexSize(Len(chunks))
  IN  [size |-> footer + FooterSize,
       at |-> addChunks(chunks) \cup writeIndex(chunks, order, data)
                \cup writeFooter(Len(chunks), footer)]

----------------------------------------------------------------------------
Field(file, pos) == (CHOOSE f \in file.at : f[1] = pos)[2]
Number(file, pos) == Field(file, pos)[1]

computeOffsets(lengths) ==
  LET offsets[i \in DOMAIN lengths] == IF i = 0 THEN 0 ELSE offsets[i - 1] + lengths[i - 1]
  IN  offsets

\* parseTableIndex, from the end of the file backwards.
parseTableIndex(file) ==
  LET footer == file.size - FooterSize
      n == Number(file, footer)
      suffixes == footer - n * AddrSuffixSize
      lengthsAt == suffixes - n * LengthSize
      tuples == lengthsAt - n * PrefixTupleSize
      lengths == [i \in 0 .. n - 1 |-> Number(file, lengthsAt + i * LengthSize)]
  IN  [chunkCount |-> n,
       prefixes |-> [i \in 0 .. n - 1 |-> Number(file, tuples + i * PrefixTupleSize)],
       ordinals |-> [i \in 0 .. n - 1 |-> Number(file, tuples + i * PrefixTupleSize + AddrPrefixSize)],
       lengths |-> lengths,
       offsets |-> computeOffsets(lengths),
       suffixes |-> [i \in 0 .. n - 1 |-> Number(file, suffixes + i * AddrSuffixSize)],
       start |-> tuples]

\* newMmapTableReader, newS3TableReader: both read just the index and the footer,
\* whose size they know from the manifest's chunk count.
OpensAt(file, chunkCount) ==
  LET ti == parseTableIndex(file)
  IN  ti.chunkCount = chunkCount /\ ti.start = file.size - (indexSize(chunkCount) + FooterSize)

\* The binary search.
RECURSIVE SearchPrefix(_, _, _, _)
SearchPrefix(ti, prefix, i, j) ==
  LET h == i + (j - i) \div 2
  IN  IF i >= j THEN i
      ELSE IF ti.prefixes[h] < prefix THEN SearchPrefix(ti, prefix, h + 1, j)
      ELSE SearchPrefix(ti, prefix, i, h)
prefixIdx(ti, prefix) == SearchPrefix(ti, prefix, 0, ti.chunkCount)

ordinalSuffixMatches(ti, ordinal, a) == ti.suffixes[ordinal] = Suffix(a)

\* The positions with a's prefix from idx on whose suffix is a's too.
Matches(ti, idx, a) ==
  {j \in idx .. ti.chunkCount - 1 :
     /\ \A k \in idx .. j : ti.prefixes[k] = Prefix(a)
     /\ ordinalSuffixMatches(ti, ti.ordinals[j], a)}

lookupOrdinal(ti, a) ==
  LET found == Matches(ti, prefixIdx(ti, Prefix(a)), a)
  IN  IF found = {} THEN ti.chunkCount ELSE ti.ordinals[Min(found)]

tableHas(ti, a) == lookupOrdinal(ti, a) < ti.chunkCount

\* parseChunk of what was read at offset: the checksum is right if it is a record.
parseChunk(file, offset, length) ==
  IF \E f \in file.at : f[1] = offset /\ Len(f[2]) = 3 /\ f[2][3] + ChecksumSize = length
  THEN LET f == Field(file, offset) IN {<<f[1], f[2]>>}
  ELSE {}

\* The data of a, none if a is not there.
tableGet(file, ti, a) ==
  LET ordinal == lookupOrdinal(ti, a)
  IN  IF ordinal = ti.chunkCount THEN {}
      ELSE parseChunk(file, ti.offsets[ordinal], ti.lengths[ordinal])

----------------------------------------------------------------------------
\* Many requests at a time.  reqs[i] is [a, found], sorted by prefix; one scan goes
\* over them and over the prefixes.
AdvanceFilter(ti, idx, prefix) ==
  Min({k \in idx .. ti.chunkCount : k = ti.chunkCount \/ ti.prefixes[k] >= prefix})

\* hasMany: the requests that are in the table, and whether some remain.
hasMany(ti, reqs) ==
  LET step(s, i) ==
        LET idx == AdvanceFilter(ti, s.idx, Prefix(reqs[i].a))
            here == Matches(ti, idx, reqs[i].a) # {}
        IN  IF s.stop \/ reqs[i].found THEN s
            ELSE IF idx >= ti.chunkCount THEN [s EXCEPT !.remaining = TRUE, !.stop = TRUE]
            ELSE IF here THEN [s EXCEPT !.idx = idx, !.has = @ \cup {i}]
            ELSE [s EXCEPT !.idx = idx, !.remaining = TRUE]
  IN  Foldl(step, [idx |-> 0, has |-> {}, remaining |-> FALSE, stop |-> FALSE],
            [i \in DOMAIN reqs |-> i])

\* findOffsets: a request whose prefix is there and whose suffix is not does not
\* count as remaining.
findOffsets(ti, reqs) ==
  LET step(s, i) ==
        LET idx == AdvanceFilter(ti, s.idx, Prefix(reqs[i].a))
            here == {ti.ordinals[j] : j \in Matches(ti, idx, reqs[i].a)}
        IN  IF s.stop \/ reqs[i].found THEN s
            ELSE IF idx >= ti.chunkCount THEN [s EXCEPT !.remaining = TRUE, !.stop = TRUE]
            ELSE IF ti.prefixes[idx] # Prefix(reqs[i].a)
            THEN [s EXCEPT !.idx = idx, !.remaining = TRUE]
            ELSE [s EXCEPT !.idx = idx,
                    !.ors = @ \cup {[req |-> i, ordinal |-> o, offset |-> ti.offsets[o]] : o \in here}]
  IN  Foldl(step, [idx |-> 0, ors |-> {}, remaining |-> FALSE, stop |-> FALSE],
            [i \in DOMAIN reqs |-> i])

\* By offset; records of one offset are of one request here.
SortOffsets(ors) ==
  SortBy(ors, LAMBDA a, b : a.offset < b.offset \/ (a.offset = b.offset /\ a.req < b.req))

\* canReadAhead: the read that starts at |start| is extended to a record if that does
\* not read too much that nobody asked for.  t has blockSize, maxReadSize, ampThresh.
canReadAhead(rec, length, start, end, amp, t) ==
  LET wasted == IF rec.offset - end < t.blockSize THEN 0 ELSE rec.offset - end - t.blockSize
      size == rec.offset + length - start
  IN  IF rec.offset < end THEN [end |-> end, amp |-> 0, ok |-> TRUE]
      ELSE IF \/ t.ampThresh = 0 /\ amp + wasted > 0
              \/ size > t.maxReadSize
              \/ size < t.ampThresh * (amp + wasted)
      THEN [end |-> end, amp |-> 0, ok |-> FALSE]
      ELSE [end |-> rec.offset + length, amp |-> amp + wasted, ok |-> TRUE]

\* The physical reads of getMany.
PlanReads(ti, ors, t) ==
  LET step(s, rec) ==
        LET b == s[Len(s)]
            next == canReadAhead(rec, ti.lengths[rec.ordinal], b.start, b.end, b.amp, t)
        IN  IF s # <<>> /\ next.ok
            THEN [s EXCEPT ![Len(s)] = [start |-> b.start, end |-> next.end, amp |-> next.amp,
                                        recs |-> b.recs \cup {rec}]]
            ELSE Append(s, [start |-> rec.offset, end |-> rec.offset + ti.lengths[rec.ordinal],
                            amp |-> 0, recs |-> {rec}])
  IN  Foldl(step, <<>>, SortOffsets(ors))

\* readAtOffsets: a record that does not lie within the read is a failed check.
readAtOffsets(file, ti, read) ==
  UNION {IF rec.offset >= read.start /\ rec.offset + ti.lengths[rec.ordinal] <= read.end
         THEN {<<rec.req, c>> : c \in parseChunk(file, rec.offset, ti.lengths[rec.ordinal])}
         ELSE {} : rec \in read.recs}

getMany(file, ti, reqs, t) ==
  LET f == findOffsets(ti, reqs)
      reads == PlanReads(ti, f.ors, t)
  IN  [got |-> UNION {readAtOffsets(file, ti, reads[k]) : k \in DOMAIN reads},
       reads |-> Len(reads), remaining |-> f.remaining]

\* calcReads: what getMany would read, counted without reading.
calcReads(ti, reqs, t) ==
  LET recs == SortOffsets(findOffsets(ti, reqs).ors)
      ahead(s, j) ==
        IF ~s.ok \/ recs[j].req \in s.done THEN s
        ELSE LET next == canReadAhead(recs[j], ti.lengths[recs[j].ordinal], s.start, s.end, s.amp, t)
             IN  [s EXCEPT !.end = next.end, !.amp = next.amp, !.ok = next.ok,
                           !.done = IF next.ok THEN @ \cup {recs[j].req} ELSE @]
      step(s, i) ==
        IF recs[i].req \in s.done THEN s
        ELSE LET first == [start |-> recs[i].offset, amp |-> 0, ok |-> TRUE,
                           end |-> recs[i].offset + ti.lengths[recs[i].ordinal],
                           done |-> s.done \cup {recs[i].req}]
                 rest == [k \in 1 .. Len(recs) - i |-> i + k]
             IN  [reads |-> s.reads + 1, done |-> Foldl(ahead, first, rest).done]
  IN  Foldl(step, [reads |-> 0, done |-> {}], [i \in DOMAIN recs |-> i]).reads

\* extract: all chunks, in insertion order or its reverse.
tableExtract(file, ti, reverse) ==
  LET at(ordinal) == CHOOSE i \in 0 .. ti.chunkCount - 1 : ti.ordinals[i] = ordinal
      chunk(i) == [a |-> <<ti.prefixes[at(i)], ti.suffixes[i]>>,
                   data |-> parseChunk(file, ti.offsets[i], ti.lengths[i])]
      n == ti.chunkCount
  IN  [i \in 1 .. n |-> IF reverse THEN chunk(n - i) ELSE chunk(i - 1)]

----------------------------------------------------------------------------
\* What a table of chunks answers to reqs.
Expected(chunks, reqs) ==
  {i \in DOMAIN reqs : ~reqs[i].found /\ \E k \in DOMAIN chunks : chunks[k].a = reqs[i].a}

\* tableReader finds in the file just what tableWriter was given, and all reads that
\* share a prefix, overlap or are joined into one give the data of the address they
\* are for; the number of reads that calcReads predicts is the one getMany makes.
TableReads(chunks, order, reqs, t) ==
  LET file == WriteTable(chunks, order)
      ti == parseTableIndex(file)
      expected == Expected(chunks, reqs)
      h == hasMany(ti, reqs)
      g == getMany(file, ti, reqs, t)
  IN  /\ OpensAt(file, Len(chunks))
      /\ \A i \in DOMAIN reqs :
            LET is == \E k \in DOMAIN chunks : chunks[k].a = reqs[i].a IN
            /\ tableHas(ti, reqs[i].a) = is
            /\ tableGet(file, ti, reqs[i].a) = (IF is THEN {reqs[i].a} ELSE {})
      /\ h.has = expected
      /\ h.remaining = (\E i \in DOMAIN reqs : ~reqs[i].found /\ i \notin expected)
      /\ g.got = {<<i, reqs[i].a>> : i \in expected}
      /\ g.reads = calcReads(ti, reqs, t)
      /\ \A reverse \in BOOLEAN :
            tableExtract(file, ti, reverse) =
              [i \in DOMAIN chunks |->
                 LET c == chunks[IF reverse THEN Len(chunks) + 1 - i ELSE i]
                 IN  [a |-> c.a, data |-> {c.a}]]

\* findOffsets: "If some are not here, then remaining will be true."  The table set
\* asks no further table once it is false.
RemainingIsRight(chunks, order, reqs) ==
  LET f == findOffsets(parseTableIndex(WriteTable(chunks, order)), reqs)
  IN  f.remaining = (\E i \in DOMAIN reqs : ~reqs[i].found /\ i \notin Expected(chunks, reqs))
=============================================================================
