-------------------------------- MODULE Pull --------------------------------
(***************************************************************************)
(* datas.Pull and PullWithFlush: the chunks below a source Ref are copied  *)
(* to another Database, down two queues of Refs by height, by workers that *)
(* run in parallel; then the sink validates and stores them.  The sink is  *)
(* a LocalDatabase with its localBatchStore, or a RemoteDatabaseClient     *)
(* whose server validates.                                                 *)
(*                                                                         *)
(* The graph of chunks is [refs, commits, parents]: refs[h] is what chunk  *)
(* h refers to, all below h; parents[h] those refs of a commit that are    *)
(* its parents.                                                            *)
(***************************************************************************)
EXTENDS Naturals, Sequences, FiniteSets, FiniteSetsExt, SequencesExt, SeqFold

CONSTANTS
  Hash,             \* 1 .. n
  Graphs,
  MaxPulls,         \* bound: calls of PullWithFlush
  MaxBackpressure   \* bound: how often the sink's ChunkStore refuses a PutMany

VARIABLES
  graph,
  local,      \* the sink is a LocalDatabase
  src,        \* chunks of the source
  cs,         \* chunks of the sink's ChunkStore
  source,     \* sourceRef, 0 before the first call
  head,       \* sinkHeadRef, 0 when the dataset has no head
  srcQ, sinkQ,                   \* the queues, as sets
  srcWork, sinkWork, comWork,    \* what this round still has to traverse
  creating,   \* refs whose worker saw that the LocalDatabase has no vbs
  reachableChunks,
  hc,         \* the hintCache: pairs <<chunk, hint>>
  hasCache,   \* the cachingChunkHaver: pairs <<chunk, answer>>
  lbs,        \* the localBatchStores made so far: [puts, hints, known]
  vbs,        \* which of them the database has, 0 for nil
  pc,         \* "idle", "pull", "flush", or "panicked"
  pulls, refused

queues == <<srcQ, sinkQ, srcWork, sinkWork, comWork>>
database == <<hasCache, lbs, vbs>>
vars == <<graph, local, src, cs, source, head, queues, creating, reachableChunks, hc,
          database, pc, pulls, refused>>

----------------------------------------------------------------------------
\* Refs and their order.  A Ref carries the height of its target, one more than
\* the heights of the refs in there; the empty Ref is 0 and has height 0.
WithHeights(g) ==
  LET height[h \in Hash] == 1 + Max({0} \cup {height[r] : r \in g.refs[h]})
  IN  [refs |-> g.refs, commits |-> g.commits, parents |-> g.parents, height |-> height]

Height(h) == IF h = 0 THEN 0 ELSE graph.height[h]

RECURSIVE Below(_)
Below(h) == {h} \cup UNION {Below(r) : r \in graph.refs[h]}

HeightOrder(a, b) == IF Height(a) = Height(b) THEN a < b ELSE Height(a) > Height(b)

\* RefByHeight, sorted and without duplicates; the tallest Ref is the last.
Sorted(q) == SortBy(q, LAMBDA a, b : HeightOrder(b, a))
PeekAt(s, idx) == IF idx \in 1 .. Len(s) THEN s[idx] ELSE 0
MaxHeight(q) == Max({0} \cup {Height(r) : r \in q})
PopRefsOfHeight(q, ht) == {r \in q : Height(r) = ht}

\* findCommon: the two queues, walked from their ends in tandem.
findCommon(taller, shorter, ht) ==
  LET step(a) ==
        LET tall == a.taller[Len(a.taller)]
            short == PeekAt(shorter, a.shortIdx)
            popped == Front(a.taller)
        IN  IF HeightOrder(tall, short)
            THEN [a EXCEPT !.taller = popped, !.tall = @ \cup {tall}]
            ELSE IF short = tall
            THEN [a EXCEPT !.taller = popped, !.com = @ \cup {tall}, !.shortIdx = @ - 1]
            ELSE [a EXCEPT !.shortIdx = @ - 1]
      more(a) == a.taller # <<>> /\ Height(a.taller[Len(a.taller)]) = ht
  IN  Iterate(LAMBDA a : IF more(a) THEN step(a) ELSE a,
              [taller |-> taller, shortIdx |-> Len(shorter), tall |-> {}, com |-> {}],
              Len(taller) + Len(shorter))

\* The refs to traverse next.
planWork(a, b) ==
  LET srcHt == MaxHeight(a)
      sinkHt == MaxHeight(b)
      common == findCommon(Sorted(a), Sorted(b), srcHt)
  IN  IF srcHt > sinkHt
      THEN [src |-> PopRefsOfHeight(a, srcHt), sink |-> {}, com |-> {}]
      ELSE IF sinkHt > srcHt
      THEN [src |-> {}, sink |-> PopRefsOfHeight(b, sinkHt), com |-> {}]
      ELSE [src |-> common.tall, com |-> common.com,
            sink |-> PopRefsOfHeight(b, sinkHt) \ common.com]

----------------------------------------------------------------------------
\* Databases.
Closed(s) == \A h \in s : graph.refs[h] \subseteq s
NewBatchStore == [puts |-> <<>>, hints |-> {}, known |-> {}]

Init ==
  /\ graph \in {WithHeights(g) : g \in Graphs}
  /\ local \in BOOLEAN
  /\ src \in {s \in SUBSET Hash : s # {} /\ Closed(s)}
  /\ cs \in {s \in SUBSET Hash : Closed(s)}
  /\ source = 0 /\ head = 0
  /\ srcQ = {} /\ sinkQ = {}
  /\ srcWork = {} /\ sinkWork = {} /\ comWork = {}
  /\ creating = {}
  /\ reachableChunks = {} /\ hc = {} /\ hasCache = {}
  /\ lbs = IF local THEN <<>> ELSE <<NewBatchStore>>
  /\ vbs = Len(lbs)
  /\ pc = "idle"
  /\ pulls = 0 /\ refused = 0

\* backing.Has: the ChunkStore, or an httpBatchStore with what it has to write.
BackingHas(h) == h \in cs \/ (~local /\ h \in ToSet(lbs[1].puts))

Cached(h) == \E b \in BOOLEAN : <<h, b>> \in hasCache

\* cachingChunkHaver.Has, for good once it was asked.
has(h) == IF Cached(h) THEN <<h, TRUE>> \in hasCache ELSE BackingHas(h)
Remember(h) == hasCache' = hasCache \cup {<<h, has(h)>>}

\* Mutant: the head of the sink is used although the source does not know it.
PullWithFlushAnyHead(s, hd) ==
  /\ pc = "idle"
  /\ pulls < MaxPulls
  /\ pulls' = pulls + 1
  /\ source' = s
  /\ head' = hd
  /\ Remember(s)
  /\ pc' = IF has(s) THEN "flush" ELSE "pull"
  /\ srcQ' = IF has(s) THEN {} ELSE {s}
  /\ sinkQ' = IF hd # 0 /\ ~has(s) THEN {hd} ELSE {}
  /\ reachableChunks' = {} /\ hc' = {}
  /\ UNCHANGED <<graph, local, src, cs, srcWork, sinkWork, comWork, creating, lbs, vbs, refused>>

\* PullWithFlush; a sink head that the source does not know is of no use.
PullWithFlush(s, hd) ==
  /\ pc = "idle"
  /\ pulls < MaxPulls
  /\ pulls' = pulls + 1
  /\ source' = s
  /\ head' = hd
  /\ Remember(s)
  /\ pc' = IF has(s) THEN "flush" ELSE "pull"
  /\ srcQ' = IF has(s) THEN {} ELSE {s}
  /\ sinkQ' = IF hd # 0 /\ hd \in src /\ ~has(s) THEN {hd} ELSE {}
  /\ reachableChunks' = {} /\ hc' = {}
  /\ UNCHANGED <<graph, local, src, cs, srcWork, sinkWork, comWork, creating, lbs, vbs, refused>>

Working == srcWork \cup sinkWork \cup comWork # {}

\* One round of the loop begins.
PlanWork ==
  /\ pc = "pull" /\ ~Working /\ srcQ # {}
  /\ \E work \in {planWork(srcQ, sinkQ)} :
     /\ srcWork' = work.src
     /\ sinkWork' = work.sink
     /\ comWork' = work.com
     /\ srcQ' = srcQ \ (work.src \cup work.com)
     /\ sinkQ' = sinkQ \ (work.sink \cup work.com)
  /\ UNCHANGED <<graph, local, src, cs, source, head, creating, reachableChunks, hc,
                 database, pc, pulls, refused>>

\* Mutant: what was scheduled before is forgotten.
SchedulePutAlone(i, h) == [lbs EXCEPT ![i].puts = <<h>>]

\* SchedulePut on batch store i, in the order of the calls.
SchedulePut(i, h) == [lbs EXCEPT ![i].puts = IF h \in ToSet(@) THEN @ ELSE Append(@, h)]

\* What a worker that copied r reports.
SourceResult(r) ==
  /\ srcQ' = srcQ \cup graph.refs[r]
  /\ reachableChunks' = (reachableChunks \cup graph.refs[r]) \ {r}

\* traverseSource: a chunk the sink has is left alone ...
TraverseSourcePresent(r) ==
  /\ pc = "pull" /\ r \in srcWork \ creating
  /\ has(r)
  /\ Remember(r)
  /\ srcWork' = srcWork \ {r}
  /\ UNCHANGED <<graph, local, src, cs, source, head, srcQ, sinkQ, sinkWork, comWork, creating,
                 reachableChunks, hc, lbs, vbs, pc, pulls, refused>>

\* ... another is read from the source and scheduled with the sink; and the
\* LocalDatabase may not have a localBatchStore yet.
TraverseSource(r) ==
  /\ pc = "pull" /\ r \in srcWork \ creating
  /\ ~has(r)
  /\ Remember(r)
  /\ IF r \notin src
     THEN pc' = "panicked" /\ UNCHANGED <<srcWork, srcQ, reachableChunks, creating, lbs>>
     ELSE IF vbs = 0
     THEN creating' = creating \cup {r} /\ UNCHANGED <<srcWork, srcQ, reachableChunks, lbs, pc>>
     ELSE /\ lbs' = SchedulePut(vbs, r)
          /\ SourceResult(r)
          /\ srcWork' = srcWork \ {r}
          /\ UNCHANGED <<creating, pc>>
  /\ UNCHANGED <<graph, local, src, cs, source, head, sinkQ, sinkWork, comWork, hc,
                 vbs, pulls, refused>>

\* validatingBatchStore: what it makes replaces what another worker made meanwhile.
CreateBatchStore(r) ==
  /\ pc = "pull" /\ r \in creating
  /\ lbs' = Append(lbs, [NewBatchStore EXCEPT !.puts = <<r>>])
  /\ vbs' = Len(lbs')
  /\ SourceResult(r)
  /\ srcWork' = srcWork \ {r}
  /\ creating' = creating \ {r}
  /\ UNCHANGED <<graph, local, src, cs, source, head, sinkQ, sinkWork, comWork, hc, hasCache,
                 pc, pulls, refused>>

\* mostLocalDB: where refs known to be in both are read.
MostLocal == IF local THEN cs ELSE src

\* traverseSink, for the hints that the sink's own chunks give.
TraverseSink(r) ==
  /\ pc = "pull" /\ r \in sinkWork
  /\ sinkWork' = sinkWork \ {r}
  /\ LET found == IF Height(r) > 1 THEN graph.refs[r] ELSE {} IN
     /\ pc' = IF Height(r) > 1 /\ r \notin MostLocal THEN "panicked" ELSE pc
     /\ sinkQ' = sinkQ \cup found
     /\ hc' = {p \in hc : p[1] \notin found} \cup {<<c, r>> : c \in found}
  /\ UNCHANGED <<graph, local, src, cs, source, head, srcQ, srcWork, comWork, creating,
                 reachableChunks, database, pulls, refused>>

\* What is below a common commit; not its parents if it is the sink's head.
CommonRefs(r) == IF r = head THEN graph.refs[r] \ graph.parents[r] ELSE graph.refs[r]

\* traverseCommon.
TraverseCommon(r) ==
  /\ pc = "pull" /\ r \in comWork
  /\ comWork' = comWork \ {r}
  /\ LET deep == Height(r) > 1 /\ r \in graph.commits
         found == IF deep THEN CommonRefs(r) ELSE {}
     IN  /\ pc' = IF deep /\ r \notin MostLocal THEN "panicked" ELSE pc
         /\ sinkQ' = sinkQ \cup found
         /\ srcQ' = IF r = head THEN srcQ ELSE srcQ \cup found
         /\ hc' = {p \in hc : p[1] \notin found} \cup {<<c, r>> : c \in found}
  /\ UNCHANGED <<graph, local, src, cs, source, head, srcWork, sinkWork, creating,
                 reachableChunks, database, pulls, refused>>

\* The loop ends: the hints for what was reached and not copied go to the sink.
PullEnds ==
  /\ pc = "pull" /\ ~Working /\ srcQ = {}
  /\ LET hints == {p[2] : p \in {q \in hc : q[1] \in reachableChunks}}
         made == IF vbs = 0 THEN Append(lbs, NewBatchStore) ELSE lbs
         id == IF vbs = 0 THEN Len(made) ELSE vbs
     IN  /\ vbs' = id
         /\ lbs' = IF local THEN [made EXCEPT ![id].hints = @ \cup hints] ELSE made
  /\ pc' = "flush"
  /\ UNCHANGED <<graph, local, src, cs, source, head, queues, creating, reachableChunks, hc,
                 hasCache, pulls, refused>>

----------------------------------------------------------------------------
\* Flush.  The localBatchStore takes its chunks in the order of their heights, an
\* httpBatchStore sends them in the reverse of the order they were scheduled in.
Ordered(b) ==
  IF local
  THEN SortBy(ToSet(b.puts),
              LAMBDA x, y : IF Height(x) = Height(y) THEN x < y ELSE Height(x) < Height(y))
  ELSE Reverse(b.puts)

\* Prepare: reading a hint makes what it refers to known.
Prepared(b) == b.known \cup UNION {{h} \cup graph.refs[h] : h \in b.hints \cap cs}

\* The sink's ValidatingBatchingSink, one chunk after the other: the local one
\* panics on a chunk it already knows (DecodeUnqueued gives it nothing), the one of
\* the server skips it; a ref that cannot be resolved is a panic in both.
Validate(b) ==
  LET step(a, c) ==
        IF a.panic THEN a
        ELSE IF c \in a.known THEN [a EXCEPT !.panic = local]
        ELSE IF ~(graph.refs[c] \subseteq a.known \cup cs) THEN [a EXCEPT !.panic = TRUE]
        ELSE LET read == graph.refs[c] \ a.known IN
             [a EXCEPT !.put = Append(@, c),
                       !.known = @ \cup {c} \cup read \cup UNION {graph.refs[r] : r \in read}]
  IN  Foldl(step, [put |-> <<>>, panic |-> FALSE,
                   known |-> IF local THEN Prepared(b) ELSE {}], Ordered(b))

\* The batches are written one after the other, and one of them may be refused.
Flushed(id, then) ==
  \E v \in {Validate(lbs[id])} :
  \/ /\ ~v.panic
     /\ cs' = cs \cup ToSet(v.put)
     /\ lbs' = [lbs EXCEPT ![id] = [puts |-> <<>>, hints |-> {},
                                    known |-> IF local THEN v.known ELSE {}]]
     /\ pc' = then
     /\ UNCHANGED refused
  \/ /\ v.panic
     /\ pc' = "panicked"
     /\ UNCHANGED <<cs, lbs, refused>>
  \/ /\ v.put # <<>>
     /\ refused < MaxBackpressure
     /\ refused' = refused + 1
     /\ \E n \in 0 .. Len(v.put) - 1 : cs' = cs \cup ToSet(SubSeq(v.put, 1, n))
     /\ pc' = IF local THEN "panicked" ELSE "flush"
     /\ UNCHANGED lbs

\* PullWithFlush's Flush, with a batch store made for it if there is none.
FlushSink ==
  /\ pc = "flush"
  /\ IF vbs = 0
     THEN /\ lbs' = Append(lbs, NewBatchStore)
          /\ vbs' = Len(lbs')
          /\ pc' = "idle"
          /\ UNCHANGED <<cs, refused>>
     ELSE Flushed(vbs, "idle") /\ UNCHANGED vbs
  /\ UNCHANGED <<graph, local, src, source, head, queues, creating, reachableChunks, hc,
                 hasCache, pulls>>

\* LocalDatabase.doHeadUpdate gives up the batch store; FlushAndDestroyWithoutClose
\* has nothing left to write.
doHeadUpdate ==
  /\ pc = "idle" /\ local /\ vbs # 0
  /\ vbs' = 0
  /\ UNCHANGED <<graph, local, src, cs, source, head, queues, creating, reachableChunks, hc,
                 hasCache, lbs, pc, pulls, refused>>

Next ==
  \/ \E s \in src, hd \in {0} \cup (cs \cap graph.commits) : PullWithFlush(s, hd)
  \/ PlanWork \/ PullEnds \/ FlushSink \/ doHeadUpdate
  \/ \E r \in srcWork : TraverseSourcePresent(r) \/ TraverseSource(r) \/ CreateBatchStore(r)
  \/ \E r \in sinkWork : TraverseSink(r)
  \/ \E r \in comWork : TraverseCommon(r)

\* The workers and the main loop of Pull run.
Spec == Init /\ [][Next]_vars /\ WF_vars(Next)

----------------------------------------------------------------------------
\* "Pull objects that descend from sourceRef from srcDB to sinkDB": when
\* PullWithFlush has returned, all of them are in the sink, whatever part of them it
\* had before and whichever of its commits the walk could use.  And the sink never
\* holds a chunk without what it refers to, so that a Pull that is cut off by
\* backpressure can be repeated: the chunks are written bottom up.
PullComplete ==
  /\ pc = "idle" /\ source # 0 => Below(source) \subseteq cs
  /\ Closed(cs)

\* The walk ends: no pair of queues keeps it going for ever, and every ref it takes
\* up can be read where it is looked for.
PullReturns == pc = "pull" ~> pc \in {"idle", "flush"}

\* "If the sourceRef points to an object already in sinkDB, there's nothing to do":
\* the Pull of what is there does not fail.
PullAgain == [][(pc = "flush" /\ pc' = "panicked" /\ refused' = refused)
                   => ~(Below(source) \subseteq cs)]_vars
=============================================================================
