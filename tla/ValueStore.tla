----------------------------- MODULE ValueStore -----------------------------
(***************************************************************************)
(* A ValueStore that several goroutines share: the values they read and    *)
(* write, its record of the chunks known to be there (cache), and the LRU  *)
(* cache of decoded values (sizecache.SizeCache).  Each lock is taken and  *)
(* released on its own, so a call is a sequence of steps.                  *)
(*                                                                         *)
(* A value is its hash.  Types of refs are those of the values they name.  *)
(***************************************************************************)
EXTENDS Naturals, Sequences, SequencesExt

CONSTANTS
  Hash,          \* hashes of values, 1 .. n
  Refs,          \* Refs[h]: the chunks that value h refers to
  Size,          \* Size[h]: the length of its chunk
  CacheSize,     \* maxSize of the valueCache
  Goroutine,
  MaxValueCalls  \* bound: calls of each goroutine

VARIABLES
  bs,          \* chunks that the BatchStore can Get
  cache,       \* cache[h]: the hint of the entry, NoHint, or Nil if there is no entry
  valueCache,  \* the entries of the SizeCache, least recently used first
  vcall,       \* vcall[g]: the call in progress
  vcalls,
  written      \* values whose WriteValue has returned

vars == <<bs, cache, valueCache, vcall, vcalls, written>>

Nil == -1   \* no entry, no value
NoHint == 0 \* presentChunk
Idle == [op |-> "none"]

----------------------------------------------------------------------------
\* SizeCache.  An entry is a key, its size and a value; the queue is the LRU list.
Holds(c, k) == \E i \in DOMAIN c : c[i].key = k
Entry(c, k) == c[CHOOSE i \in DOMAIN c : c[i].key = k]
Without(c, k) == SelectSeq(c, LAMBDA e : e.key # k)
TotalSize(c) == FoldSeq(LAMBDA e, n : e.size + n, 0, c)

\* An entry that is looked up moves to the back.
Touch(c, k) == IF Holds(c, k) THEN Append(Without(c, k), Entry(c, k)) ELSE c

\* Entries are expired from the front until the rest fits.
Expire(c) ==
  LET fits(n) == TotalSize(SubSeq(c, n + 1, Len(c))) <= CacheSize
      n == CHOOSE i \in 0 .. Len(c) : fits(i) /\ \A j \in 0 .. i - 1 : ~fits(j)
  IN  SubSeq(c, n + 1, Len(c))

\* Add; an entry that is there keeps its value.
Add(c, k, size, v) ==
  IF size > CacheSize THEN c
  ELSE IF Holds(c, k) THEN Touch(c, k)
  ELSE Expire(Append(c, [key |-> k, size |-> size, value |-> v]))

Drop(c, k) == Without(c, k)

----------------------------------------------------------------------------
Closed(s) == \A h \in s : Refs[h] \subseteq s

Init ==
  /\ bs \in {s \in SUBSET Hash : Closed(s)}
  /\ cache = [h \in Hash |-> Nil]
  /\ valueCache = <<>>
  /\ vcall = [g \in Goroutine |-> Idle]
  /\ vcalls = [g \in Goroutine |-> 0]
  /\ written = {}

Begin(g, c) ==
  /\ vcall[g] = Idle
  /\ vcalls[g] < MaxValueCalls
  /\ vcalls' = [vcalls EXCEPT ![g] = @ + 1]
  /\ vcall' = [vcall EXCEPT ![g] = c]

At(g, pc) == vcall[g] # Idle /\ vcall[g].pc = pc
Goto(g, pc) == vcall' = [vcall EXCEPT ![g].pc = pc]
\* A hint replaces no hint and a hint of a chunk to itself.
MayReplace(h) == cache[h] \in {Nil, NoHint, h}

\* ReadValue, which looks into valueCache first.  |due| records whether the value had
\* been written when the call began.
ReadValue(g, h) ==
  /\ Begin(g, [op |-> "read", h |-> h, due |-> h \in written,
               pc |-> IF Holds(valueCache, h) THEN "return" ELSE "get",
               got |-> IF Holds(valueCache, h) THEN Entry(valueCache, h).value ELSE Nil,
               todo |-> {}, set |-> Nil])
  /\ valueCache' = Touch(valueCache, h)
  /\ UNCHANGED <<bs, cache, written>>

\* bs.Get.
GetChunk(g) ==
  /\ At(g, "get")
  /\ vcall' = [vcall EXCEPT ![g].pc = "add", ![g].got = IF vcall[g].h \in bs THEN vcall[g].h ELSE Nil]
  /\ UNCHANGED <<bs, cache, valueCache, vcalls, written>>

\* valueCache.Add, of nil too.
CacheValue(g) ==
  /\ At(g, "add")
  /\ LET c == vcall[g] IN
     /\ valueCache' = IF c.got = Nil THEN Add(valueCache, c.h, 0, Nil)
                      ELSE Add(valueCache, c.h, Size[c.h], c.got)
     /\ IF c.got = Nil THEN Goto(g, "return")
        ELSE vcall' = [vcall EXCEPT ![g].pc = "chunks", ![g].todo = Refs[c.h]]
  /\ UNCHANGED <<bs, cache, vcalls, written>>

\* cacheChunks looks a ref up, and decides ...
CheckRef(g, r) ==
  /\ At(g, "chunks")
  /\ vcall[g].set = Nil
  /\ r \in vcall[g].todo
  /\ vcall' = [vcall EXCEPT ![g].todo = @ \ {r}, ![g].set = IF MayReplace(r) THEN r ELSE Nil]
  /\ UNCHANGED <<bs, cache, valueCache, vcalls, written>>

\* ... to make the value its hint, under a lock of its own.
SetRef(g) ==
  /\ At(g, "chunks")
  /\ vcall[g].set # Nil
  /\ cache' = [cache EXCEPT ![vcall[g].set] = vcall[g].h]
  /\ vcall' = [vcall EXCEPT ![g].set = Nil]
  /\ UNCHANGED <<bs, valueCache, vcalls, written>>

\* The value that was read is its own hint if it has no other.
CheckSelf(g) ==
  /\ At(g, "chunks")
  /\ vcall[g].todo = {} /\ vcall[g].set = Nil
  /\ Goto(g, IF cache[vcall[g].h] \in {Nil, NoHint} THEN "self" ELSE "return")
  /\ UNCHANGED <<bs, cache, valueCache, vcalls, written>>

SetSelf(g) ==
  /\ At(g, "self")
  /\ cache' = [cache EXCEPT ![vcall[g].h] = vcall[g].h]
  /\ Goto(g, "return")
  /\ UNCHANGED <<bs, valueCache, vcalls, written>>

\* WriteValue: what is known to be there is not put again.
WriteValue(g, h) ==
  /\ Begin(g, [op |-> "write", h |-> h, due |-> FALSE, got |-> h, set |-> Nil,
               pc |-> IF cache[h] = Nil THEN "hints" ELSE "return",
               todo |-> Refs[h]])
  /\ UNCHANGED <<bs, cache, valueCache, written>>

\* chunkHintsFromCache: a ref to a chunk that is not in the cache is a panic.
CheckHint(g, r) ==
  /\ At(g, "hints")
  /\ r \in vcall[g].todo
  /\ IF cache[r] = Nil
     THEN vcall' = [vcall EXCEPT ![g] = Idle]
     ELSE vcall' = [vcall EXCEPT ![g].todo = @ \ {r}]
  /\ UNCHANGED <<bs, cache, valueCache, vcalls, written>>

\* Mutant: the chunk counts as present before it can be read.
SchedulePutLate(g) ==
  /\ At(g, "hints")
  /\ vcall[g].todo = {}
  /\ cache' = [cache EXCEPT ![vcall[g].h] = NoHint]
  /\ Goto(g, "set")
  /\ UNCHANGED <<bs, valueCache, vcalls, written>>

SchedulePut(g) ==
  /\ At(g, "hints")
  /\ vcall[g].todo = {}
  /\ bs' = bs \cup {vcall[g].h}
  /\ Goto(g, "set")
  /\ UNCHANGED <<cache, valueCache, vcalls, written>>

SetPresent(g) ==
  /\ At(g, "set")
  /\ cache' = [cache EXCEPT ![vcall[g].h] = NoHint]
  /\ Goto(g, "drop")
  /\ UNCHANGED <<bs, valueCache, vcalls, written>>

\* valueCache.Drop: a nil that was cached before the write is forgotten.
DropValue(g) ==
  /\ At(g, "drop")
  /\ valueCache' = Drop(valueCache, vcall[g].h)
  /\ Goto(g, "return")
  /\ UNCHANGED <<bs, cache, vcalls, written>>

Return(g) ==
  /\ At(g, "return")
  /\ written' = IF vcall[g].op = "write" THEN written \cup {vcall[g].h} ELSE written
  /\ vcall' = [vcall EXCEPT ![g] = Idle]
  /\ UNCHANGED <<bs, cache, valueCache, vcalls>>

Next ==
  \E g \in Goroutine :
     \/ \E h \in Hash : ReadValue(g, h) \/ WriteValue(g, h) \/ CheckRef(g, h) \/ CheckHint(g, h)
     \/ GetChunk(g) \/ CacheValue(g) \/ SetRef(g) \/ CheckSelf(g) \/ SetSelf(g)
     \/ SchedulePut(g) \/ SetPresent(g) \/ DropValue(g) \/ Return(g)

Spec == Init /\ [][Next]_vars

----------------------------------------------------------------------------
\* What WriteValue relies on when it skips a chunk, and ValidatingBatchingSink when
\* it takes a hint: every chunk with an entry can be read, at every interleaving of
\* readers and writers, and its hint is a chunk that is there and refers to it.  The
\* decoded values that are kept are values of the store and fit into maxSize.
CachesSound ==
  /\ \A h \in Hash : cache[h] # Nil =>
        /\ h \in bs
        /\ cache[h] # NoHint => cache[h] \in bs /\ h \in {cache[h]} \cup Refs[cache[h]]
  /\ TotalSize(valueCache) <= CacheSize
  /\ \A i \in DOMAIN valueCache : valueCache[i].value # Nil => valueCache[i].key \in bs

\* A value can be read back once WriteValue has returned ("TestValueReadWriteRead":
\* a read that finds nothing, a write, a read that finds it).
ReadsSeeWrites ==
  \A g \in Goroutine :
     (At(g, "return") /\ vcall[g].op = "read" /\ vcall[g].due) => vcall[g].got # Nil
=============================================================================
