----------------------------- MODULE MemoryApi -----------------------------
(***************************************************************************)
(* The agent's view of the store: memctl, the HTTP handlers and            *)
(* internal/agentapi on top of Node.Write, Read and Delete.  One command   *)
(* runs at a time and reaches every member before the next begins, so one  *)
(* map stands for the replicas and one clock for their clocks; what        *)
(* concurrency and failures add is the subject of QuorumStore.             *)
(*                                                                         *)
(* A name is the sequence of its characters: how keys are put together and *)
(* searched is what this module is about.  An entity may have colons in    *)
(* it, as in "customer:123"; an attribute has none, since SplitFactKey     *)
(* cuts a key at its last colon.                                           *)
(***************************************************************************)
EXTENDS Conflict, Sequences

CONSTANTS Slots,          \* the entities and attributes the client uses, as pairs
          Scans,          \* the entities it scans for
          TagsAttribute,  \* "tags"
          Contents,       \* the contents of facts
          Bodies,         \* what a POST /write may hold, its policy aside
          Contacts,       \* the members the client talks to
          Ws, Rs,         \* the values of W and R in a request, NotGiven for none
          MaxWrites       \* bound on the writes

VARIABLES stored,    \* the map of every replica
          lamport,   \* the clock of every replica
          counter,   \* counter[n]: tagCounter of node n
          asked,     \* the last command
          told       \* what it told its caller

storeVars == <<stored, lamport, counter>>

apiVars == <<storeVars, asked, told>>

Colon == ":"
NotGiven == -1

FactKey(entity, attribute) == entity \o <<Colon>> \o attribute

Key(s) == FactKey(s[1], s[2])

\* Cut at the last colon.
SplitFactKey(key) ==
  LET cuts == {i \in DOMAIN key : key[i] = Colon}
      cut  == CHOOSE i \in cuts : \A j \in cuts : j <= i
  IN  IF cuts = {} THEN <<key, <<>>>>
      ELSE <<SubSeq(key, 1, cut - 1), SubSeq(key, cut + 1, Len(key))>>

HasPrefix(key, prefix) ==
  Len(prefix) <= Len(key) /\ SubSeq(key, 1, Len(prefix)) = prefix

Prefix(prefix) ==
  {k \in Keys : /\ HasPrefix(k, prefix)
                /\ Found(stored[k])
                /\ ~ stored[k].tombstone}

\* The names of -policy; "raft" stands for those that name no policy.
PolicyNames == Policies \cup {"raft"}

\* The zero Policy of a failed ParsePolicy is PolicyLWW.
ParsePolicy(name) ==
  [ok |-> name \in Policies, policy |-> IF name \in Policies THEN name ELSE "LWW"]

Body == [data : Nat, tombstone : BOOLEAN, op : {"", "add", "remove"}, elem : Elems]

ASSUME MemoryAssumption ==
  /\ \A s \in Slots : \A i \in DOMAIN s[2] : s[2][i] # Colon
  /\ Keys = {Key(s) : s \in Slots}
  /\ Contacts \subseteq Nodes
  /\ Bodies \subseteq Body /\ "" \in Elems
  /\ Contents \subseteq Nat /\ Ws \cup Rs \subseteq Nat \cup {NotGiven}
  /\ MaxWrites \in Nat

ApiInit ==
  /\ stored = [k \in Keys |-> NoValue]
  /\ lamport = 0
  /\ counter = [n \in Nodes |-> 0]
  /\ asked = [idle |-> TRUE]
  /\ told = [ok |-> TRUE, error |-> FALSE, found |-> {}]

----------------------------------------------------------------------------
(* What the client is told: whether the command succeeded, which is the    *)
(* exit code of memctl, and what the body of the response says.            *)

\* No response, or one with an error and a status that says so.
Error == told' = [ok |-> FALSE, error |-> TRUE, found |-> {}]

\* dump: the exit code follows the status.  A response may be lost.
dump(status, error, found) ==
  \/ told' = [ok |-> status < 300, error |-> error, found |-> found]
  \/ Error

BadRequest == Error /\ UNCHANGED storeVars

----------------------------------------------------------------------------
(* The node. *)

\* Write at coordinator n, and its effect once every member has applied it.
\* A write that is answered 503 for too few acks in time may have that effect
\* all the same; one with an invalid quorum, and one that is lost on its way
\* to the node, has none.
NodeWrite(n, req) ==
  LET ver == [lamport |-> Tick(lamport), node |-> n]
      tag == <<n, counter[n] + 1>>
      cur == stored[req.key]
  IN  \/ /\ validateQuorum(req.w)
         /\ lamport < MaxWrites
         /\ lamport' = Tick(lamport)
         /\ stored' = [stored EXCEPT ![req.key] =
                         mergeIncoming(cur, localPrepare(cur, req, ver, tag))]
         /\ counter' = [counter EXCEPT ![n] =
                          IF req.policy = "CRDT_ORSET" THEN @ + 1 ELSE @]
         /\ dump(200, FALSE, {})
      \/ Error /\ UNCHANGED storeVars

\* Read at a coordinator: a value, NoValue when it is deleted or missing.
NodeRead(key) == IF stored[key].tombstone THEN NoValue ELSE stored[key]

\* A handler that takes a failed read for a missing value.
ReadAnswerSilent(key, r, status) ==
  LET v == NodeRead(key)
  IN  /\ \/ validateQuorum(r) /\ dump(200, FALSE, IF Found(v) THEN {<<key, v>>} ELSE {})
         \/ dump(status, status >= 300, {})
      /\ UNCHANGED storeVars

\* A read fails when its quorum is invalid or finds too few views in time.
\* The body says so; the status of GET /fact and GET /tag does not.
ReadAnswer(key, r, status) ==
  LET v == NodeRead(key)
  IN  /\ \/ validateQuorum(r) /\ dump(200, FALSE, IF Found(v) THEN {<<key, v>>} ELSE {})
         \/ dump(status, TRUE, {})
      /\ UNCHANGED storeVars

----------------------------------------------------------------------------
(* The requests.  A W or R that is left out gets the handler's default. *)

GivenOr(q, default) == IF q = NotGiven THEN default ELSE q

Command(s, body, name) ==
  [slot |-> s, policy |-> name, data |-> body.data, tombstone |-> body.tombstone,
   op |-> body.op, elem |-> body.elem]

WriteRequest(s, body, policy, w) ==
  [key |-> Key(s), policy |-> policy, data |-> body.data,
   tombstone |-> body.tombstone, op |-> body.op, elem |-> body.elem, w |-> w]

PutBody(content) == [data |-> content, tombstone |-> FALSE, op |-> "", elem |-> ""]
DeleteBody == [data |-> 0, tombstone |-> TRUE, op |-> "", elem |-> ""]
TagBody(op, elem) == [data |-> 0, tombstone |-> FALSE, op |-> op, elem |-> elem]

\* POST /fact, and PutFact: the error of ParsePolicy is ignored.
PutFact(n, s, content, name, w) ==
  /\ asked' = Command(s, PutBody(content), name)
  /\ NodeWrite(n, WriteRequest(s, PutBody(content), ParsePolicy(name).policy,
                               GivenOr(w, 0)))

\* POST /write.
Write(n, s, body, name, w) ==
  /\ asked' = Command(s, body, name)
  /\ IF ParsePolicy(name).ok
     THEN NodeWrite(n, WriteRequest(s, body, ParsePolicy(name).policy, GivenOr(w, 0)))
     ELSE BadRequest

\* POST /delete, and Node.Delete.
Delete(n, s, w) ==
  /\ asked' = Command(s, DeleteBody, "LWW")
  /\ NodeWrite(n, WriteRequest(s, DeleteBody, "LWW", GivenOr(w, 0)))

\* POST and DELETE /tag, AddTag and RemoveTag: a W of 0 is taken for 2.
Tag(n, s, elem, op, w) ==
  /\ asked' = Command(s, TagBody(op, elem), "CRDT_ORSET")
  /\ NodeWrite(n, WriteRequest(s, TagBody(op, elem), "CRDT_ORSET",
                               IF GivenOr(w, 0) = 0 THEN 2 ELSE w))

\* GET /fact, and GetFact.
GetFact(s, r) ==
  /\ asked' = [get |-> s]
  /\ ReadAnswer(Key(s), GivenOr(r, 2), 200)

\* GET and POST /read.
Read(s, r) ==
  /\ asked' = [get |-> s]
  /\ ReadAnswer(Key(s), GivenOr(r, 1), 503)

\* GET /tag, and GetTags.
GetTags(s) ==
  /\ asked' = [get |-> s]
  /\ ReadAnswer(Key(s), 2, 200)

\* GET /facts, and GetFacts: a scan of the node's own map.
GetFacts(e) ==
  /\ asked' = [scan |-> e]
  /\ dump(200, FALSE, {<<k, stored[k]>> : k \in Prefix(e \o <<Colon>>)})
  /\ UNCHANGED storeVars

(* The commands of memctl give W and R, 2 if not told otherwise; another   *)
(* client of the same endpoint may leave them out.                         *)

cmdWrite(n, s) ==
  \E body \in Bodies, name \in PolicyNames, w \in Ws : Write(n, s, body, name, w)

cmdRead(s) == \E r \in Rs : Read(s, r)

cmdFact(n, s) ==
  \/ \E c \in Contents, name \in PolicyNames, w \in Ws : PutFact(n, s, c, name, w)
  \/ \E r \in Rs : GetFact(s, r)

cmdTag(n, s) ==
  /\ s[2] = TagsAttribute
  /\ \E t \in Elems \ {""}, op \in {"add", "remove"}, w \in Ws : Tag(n, s, t, op, w)

\* Deletes, reads of tags and scans have no command of their own.
ApiNext ==
  \/ \E n \in Contacts, s \in Slots :
       \/ cmdWrite(n, s) \/ cmdRead(s) \/ cmdFact(n, s) \/ cmdTag(n, s)
       \/ \E w \in Ws : Delete(n, s, w)
       \/ s[2] = TagsAttribute /\ GetTags(s)
  \/ \E e \in Scans : GetFacts(e)

ApiSpec == ApiInit /\ [][ApiNext]_apiVars

----------------------------------------------------------------------------

\* What a value says to an agent: the elements of a set, or else a text.
DecodeString(v) ==
  IF v.policy = "CRDT_ORSET"
  THEN [kind |-> "marks", marks |-> Elements(decodeORSet(v))]
  ELSE [kind |-> "text", text |-> v.data]

M == INSTANCE AgentMemory WITH
  memory <- [s \in Slots |-> LET v == NodeRead(Key(s))
                             IN  IF Found(v) THEN DecodeString(v) ELSE [kind |-> "nothing"]],
  said <- [told EXCEPT !.found =
             {<<SplitFactKey(f[1]), DecodeString(f[2])>> : f \in told.found}],
  Updates <- [slot : Slots, policy : PolicyNames, data : Nat, tombstone : BOOLEAN,
              op : {"", "add", "remove"}, elem : Elems],
  Family <- [e \in Scans |->
               {s \in Slots : s[1] = e \/ HasPrefix(s[1], e \o <<Colon>>)}]

\* The store is an agent's memory.  A command changes the slot it names and
\* no other, as its policy says, whatever policies the slot was written under
\* before; a client is told "done" only of what was done; a read or a scan
\* whose answer holds no error has found exactly what was put, a scan also
\* what belongs to entities named below the one it is for.  A failed read
\* always holds an error, though not always a status that says so.
ImplementsMemory == M!MemorySpec

=============================================================================
