------------------------------ MODULE S3Upload ------------------------------
(***************************************************************************)
(* s3TablePersister.Compact: a table goes to S3 as a multipart upload, one *)
(* goroutine for each part.  Channels sent and failed are unbuffered.      *)
(***************************************************************************)
EXTENDS Naturals, Sequences, FiniteSets, SeqFold

CONSTANTS
  DataLens,   \* the lengths of tables
  PartSize,   \* s3p.partSize
  MaxFailures \* bound: parts that S3 refuses

VARIABLES
  dataLen,
  part,      \* part[i]: where the goroutine of part i is
  failures,
  done,      \* how often done was closed
  sent,      \* "open" or "closed"
  parts,     \* part numbers the main loop has received
  failure,   \* lastFailure
  held,      \* what S3 holds of the upload: <<part number, start, end>>
  upload,    \* "open", "completed" or "aborted"
  object,    \* the parts of the object, in order; <<>> if there is none
  compact    \* "collect", "upload", "returned" or "panicked"

uvars == <<dataLen, part, failures, done, sent, parts, failure, held, upload, object, compact>>

getNumParts(len) == IF len \div PartSize = 0 THEN 1 ELSE len \div PartSize
NumParts == getNumParts(dataLen)
Part == 1 .. NumParts

\* Mutant: the last part is cut off like the others.
PartEndCut(i) == i * PartSize

\* The end of part i; the last one takes what is left over.
PartEnd(i) == IF i = NumParts THEN dataLen ELSE i * PartSize

UploadInit ==
  /\ dataLen \in DataLens
  /\ part = [i \in Part |-> "start"]
  /\ failures = 0
  /\ done = 0
  /\ sent = "open"
  /\ parts = {}
  /\ failure = FALSE
  /\ held = {}
  /\ upload = "open"
  /\ object = <<>>
  /\ compact = "collect"

Alive == compact # "panicked"
PartGo(i, pc) == part' = [part EXCEPT ![i] = pc]

\* A part that starts after the upload was terminated does nothing.
CheckDone(i) ==
  /\ Alive /\ part[i] = "start"
  /\ PartGo(i, IF done > 0 THEN "done" ELSE "upload")
  /\ UNCHANGED <<dataLen, failures, done, sent, parts, failure, held, upload, object, compact>>

\* UploadPart, which S3 may refuse.
UploadPart(i) ==
  /\ Alive /\ part[i] = "upload"
  /\ \/ /\ held' = held \cup {<<i, (i - 1) * PartSize, PartEnd(i)>>}
        /\ PartGo(i, "send")
        /\ UNCHANGED failures
     \/ /\ failures < MaxFailures
        /\ failures' = failures + 1
        /\ PartGo(i, "fail")
        /\ UNCHANGED held
  /\ UNCHANGED <<dataLen, done, sent, parts, failure, upload, object, compact>>

\* The main loop receives a part ...
ReceivePart(i) ==
  /\ compact = "collect" /\ part[i] = "send"
  /\ parts' = parts \cup {i}
  /\ PartGo(i, "done")
  /\ UNCHANGED <<dataLen, failures, done, sent, failure, held, upload, object, compact>>

\* ... or the part is given up because done is closed ...
GiveUpPart(i) ==
  /\ Alive /\ part[i] = "send" /\ done > 0
  /\ PartGo(i, "done")
  /\ UNCHANGED <<dataLen, failures, done, sent, parts, failure, held, upload, object, compact>>

\* ... or the loop receives a failure and closes done; closing it twice is a panic.
ReceiveFailure(i) ==
  /\ compact = "collect" /\ part[i] = "fail"
  /\ failure' = TRUE
  /\ done' = done + 1
  /\ compact' = IF done > 0 THEN "panicked" ELSE compact
  /\ PartGo(i, "done")
  /\ UNCHANGED <<dataLen, failures, sent, parts, held, upload, object>>

\* wg.Wait() is over.
CloseSent ==
  /\ Alive /\ sent = "open"
  /\ \A i \in Part : part[i] = "done"
  /\ sent' = "closed"
  /\ UNCHANGED <<dataLen, part, failures, done, parts, failure, held, upload, object, compact>>

\* sent is closed: the loop ends, and done is closed if it was not.
CollectEnds ==
  /\ compact = "collect" /\ sent = "closed"
  /\ done' = IF failure THEN done ELSE done + 1
  /\ compact' = "upload"
  /\ UNCHANGED <<dataLen, part, failures, sent, parts, failure, held, upload, object>>

\* CompleteMultipartUpload of the parts in their order, or AbortMultipartUpload.
CompleteUpload ==
  /\ compact = "upload"
  /\ IF failure
     THEN /\ upload' = "aborted"
          /\ held' = {}
          /\ compact' = "panicked"
          /\ UNCHANGED object
     ELSE /\ upload' = "completed"
          /\ object' = LET order == SortBy(parts, LAMBDA a, b : a < b)
                       IN  [k \in DOMAIN order |-> CHOOSE p \in held : p[1] = order[k]]
          /\ compact' = "returned"
          /\ UNCHANGED held
  /\ UNCHANGED <<dataLen, part, failures, done, sent, parts, failure>>

UploadNext ==
  \/ CloseSent \/ CollectEnds \/ CompleteUpload
  \/ \E i \in Part : CheckDone(i) \/ UploadPart(i) \/ ReceivePart(i) \/ GiveUpPart(i) \/ ReceiveFailure(i)

----------------------------------------------------------------------------
\* Compact returns a chunkSource only for a complete table: whatever parts S3 refused
\* and in whatever order the parts came in, the object is the data from its first to
\* its last byte, without a gap or an overlap.
ObjectComplete ==
  compact = "returned" =>
    /\ object # <<>>
    /\ object[1][2] = 0 /\ object[Len(object)][3] = dataLen
    /\ \A k \in 1 .. Len(object) - 1 : object[k][3] = object[k + 1][2]

\* A Compact that fails has aborted its upload.
UploadAborted == compact = "panicked" => upload = "aborted"
=============================================================================
