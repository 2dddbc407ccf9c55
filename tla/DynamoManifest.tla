--------------------------- MODULE DynamoManifest ---------------------------
(***************************************************************************)
(* The dynamoManifest of go/nbs/dynamo_manifest.go: Update is one          *)
(* conditional PutItem and, when its condition fails, a GetItem for what   *)
(* is there instead.  DynamoDB is external and modelled as the code uses   *)
(* it: PutItem is atomic, but the SDK sends it again when an answer is     *)
(* lost; GetItem without ConsistentRead may return an item that has been   *)
(* replaced, one of the last Lag.                                          *)
(***************************************************************************)
EXTENDS Naturals, Sequences

CONSTANTS Client, Root, Specs, EmptyHash, NomsVersion, Absent,
  NoOne,
  Lag     \* by how many writes a GetItem may be behind

VARIABLES
  items,   \* the item, and before it those that GetItem may still return
  client,  \* client[p]: what p does, the root it knows, the item it puts
  writer   \* history: the call of this client put the current item

vars == <<items, client, writer>>

Down == [pc |-> "down"]

RootOf(m) == IF m = Absent THEN EmptyHash ELSE m.root

Init ==
  /\ items = [i \in 1 .. Lag + 1 |-> Absent]
  /\ client = [p \in Client |-> Down]
  /\ writer = NoOne

Item == items[1]

\* What GetItem may return.
Readable == {items[i] : i \in 1 .. Lag + 1}

Return(p, k) ==
  /\ client' = [client EXCEPT ![p] = [pc |-> "open", known |-> k]]
  /\ writer' = IF writer = p THEN NoOne ELSE writer

Die(p) ==
  /\ client' = [client EXCEPT ![p] = Down]
  /\ writer' = IF writer = p THEN NoOne ELSE writer
  /\ UNCHANGED items

ParseIfExists(p) ==
  /\ client[p] = Down
  /\ \E m \in Readable : Return(p, RootOf(m))
  /\ UNCHANGED items

\* Update builds its PutItem.
Update(p, root, specs) ==
  /\ client[p].pc = "open"
  /\ client' = [client EXCEPT ![p] =
       [pc |-> "put", known |-> client[p].known,
        item |-> [vers |-> NomsVersion[p], root |-> root, specs |-> specs]]]
  /\ UNCHANGED <<items, writer>>

\* The ConditionExpression: an empty root also matches where nothing is.
Condition(p) ==
  \/ client[p].known = EmptyHash /\ Item = Absent
  \/ /\ Item # Absent
     /\ Item.root = client[p].known
     /\ Item.vers = NomsVersion[p]

Install(p) == items' = SubSeq(<<client[p].item>> \o items, 1, Lag + 1)

PutItem(p) ==
  /\ client[p].pc = "put"
  /\ Condition(p)
  /\ Install(p)
  /\ client' = [client EXCEPT ![p] = [pc |-> "open", known |-> client[p].item.root]]
  /\ writer' = NoOne

\* PutItem takes effect and its answer is lost: the SDK will send it again.
PutItemUnanswered(p) ==
  /\ client[p].pc = "put"
  /\ Condition(p)
  /\ Install(p)
  /\ writer' = p
  /\ UNCHANGED client

\* ConditionalCheckFailedException.
PutItemFails(p) ==
  /\ client[p].pc = "put"
  /\ ~Condition(p)
  /\ client' = [client EXCEPT ![p].pc = "reread"]
  /\ UNCHANGED <<items, writer>>

\* The assertions on what ParseIfExists returns after the exception.
Valid(p, m) == m # Absent /\ m.vers = NomsVersion[p]


Reread(p) ==
  /\ client[p].pc = "reread"
  /\ \E m \in Readable : Valid(p, m) /\ Return(p, m.root)
  /\ UNCHANGED items

RereadPanics(p) ==
  /\ client[p].pc = "reread"
  /\ \E m \in Readable : ~Valid(p, m)
  /\ Die(p)

Crash(p) == client[p] # Down /\ Die(p)

Next == \E p \in Client :
  \/ ParseIfExists(p)
  \/ \E root \in Root, specs \in Specs : Update(p, root, specs)
  \/ PutItem(p)
  \/ PutItemUnanswered(p)
  \/ PutItemFails(p)
  \/ Reread(p)
  \/ RereadPanics(p)
  \/ Crash(p)

Spec == Init /\ [][Next]_vars

----------------------------------------------------------------------------
Content == [vers : {NomsVersion[p] : p \in Client}, root : Root, specs : Specs]


\* "Regardless, |actual| and |tableSpecs| will reflect the current state of the
\* world upon return" (Update in manifest.go), of an Update that fails.
ReturnsCurrent ==
  [][\A p \in Client : Reread(p) => client'[p].known = RootOf(Item)]_vars
=============================================================================
