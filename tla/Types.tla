------------------------------- MODULE Types -------------------------------
(***************************************************************************)
(* Versions, values and the Lamport clock of the store (internal/types).   *)
(*                                                                         *)
(* A node id is a Go string, and the code compares ids only with < and >,  *)
(* so an id is represented by its rank in the byte order of the ids: a     *)
(* positive integer.  0 is the rank of the empty string.  A payload of     *)
(* bytes is likewise a natural number, its rank in the order of            *)
(* bytes.Compare; 0 is the empty payload.                                  *)
(***************************************************************************)
EXTENDS Integers, FiniteSets

CONSTANTS Nodes,  \* the node ids of the static membership
          Keys,   \* the keys of the store
          Elems   \* the elements an OR-Set may hold

ASSUME NodesAssumption ==
  /\ Nodes \subseteq Nat \ {0}
  /\ IsFiniteSet(Nodes)

\* Membership.N: the replication factor.
N == Cardinality(Nodes)

validateQuorum(q) == q \in 1..N

----------------------------------------------------------------------------
(* Versions. *)

Version == [lamport : Nat, node : Nat]

ZeroVersion == [lamport |-> 0, node |-> 0]

IsZero(v) == v.lamport = 0 /\ v.node = 0

\* An order that takes neighbouring Lamport times for concurrent ones.
LessOffByOne(a, b) ==
  \/ a.lamport + 1 < b.lamport
  \/ a.lamport + 1 >= b.lamport /\ b.lamport + 1 >= a.lamport /\ a.node < b.node

Less(a, b) ==
  \/ a.lamport < b.lamport
  \/ a.lamport = b.lamport /\ a.node < b.node

\* The total order of versions: Lamport time first, then node id.
Compare(a, b) ==
  IF Less(a, b) THEN -1 ELSE IF Less(b, a) THEN 1 ELSE 0

\* The order in the form the properties use it.
AtLeast(a, b) == ~ Less(a, b)

----------------------------------------------------------------------------
(* The Lamport clock: Tick on a local write, Observe on every Apply. *)

\* A clock that hands out its time without moving.
TickStuck(t) == t

Tick(t) == t + 1

\* A clock that ignores what it is shown.
ObserveNothing(t, remote) == t

Observe(t, remote) == IF remote > t THEN remote ELSE t

----------------------------------------------------------------------------
(* Values.  The policy of a value is stored with it.  crdt is the          *)
(* serialized payload of the CRDT policies; `kind' stands for the set of   *)
(* JSON fields it was marshalled with, which is what decides whether an    *)
(* Unmarshal into the other CRDT's struct finds anything.                  *)

Policies == {"LWW", "CRDT_LWWREG", "CRDT_ORSET"}

\* An add-tag "<node id>:<counter>" of nextORSetTag.
Tags == Nodes \X Nat

NoCRDT == [kind |-> "none"]

RegPayload ==
  [kind : {"reg"}, data : Nat, ts : Version, tombstone : BOOLEAN]

\* The maps element -> tag -> true, as sets of <<element, tag>> pairs.  An
\* element enters Rems with its first remove even if that saw no tag, and
\* the empty entry is part of the marshalled bytes: remKeys holds the
\* elements with an entry.  An entry of Adds is never empty.
OrSetPayload ==
  [kind : {"orset"}, adds : SUBSET (Elems \X Tags),
   rems : SUBSET (Elems \X Tags), remKeys : SUBSET Elems]

Value ==
  [data : Nat, version : Version, policy : Policies, tombstone : BOOLEAN,
   crdt : {NoCRDT} \cup RegPayload \cup OrSetPayload]

\* types.Value{}: what KV.Get returns with ok = false.  No stored value
\* equals it, because a stored version comes from a Tick and is at least 1.
NoValue ==
  [data |-> 0, version |-> ZeroVersion, policy |-> "LWW",
   tombstone |-> FALSE, crdt |-> NoCRDT]

Found(v) == v # NoValue

----------------------------------------------------------------------------
(* Client requests.  `to' is the node the client sends it to, which becomes *)
(* its coordinator; w and r are whatever the client asked for.             *)

WriteReq ==
  [to : Nodes, key : Keys, data : Nat, policy : Policies, tombstone : BOOLEAN,
   op : {"add", "remove"}, elem : Elems, w : Int]

ReadReq == [to : Nodes, key : Keys, r : Int]

============================================================================
