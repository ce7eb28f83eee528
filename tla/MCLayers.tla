------------------------------ MODULE MCLayers ------------------------------
(***************************************************************************)
(* Samples for MergeLaws: values of every policy with equal, neighbouring  *)
(* and distant versions, equal and different payloads, live and deleted;   *)
(* lists of peers for Membership; names and requests for MemoryApi; a      *)
(* write and a read by one member for the transports.                      *)
(***************************************************************************)
EXTENDS Layers, TLC

MCVersions ==
  {[lamport |-> v[1], node |-> v[2]] : v \in {<<1, 2>>, <<2, 1>>, <<2, 2>>, <<3, 1>>}}

MCLWW ==
  {[data |-> d, version |-> v, policy |-> "LWW", tombstone |-> t,
    crdt |-> NoCRDT] : d \in {0, 1}, v \in MCVersions, t \in BOOLEAN}

MCReg ==
  {encodeLWWReg(newLWWReg(d, v, t)) :
     d \in {0, 1}, v \in MCVersions, t \in BOOLEAN}

MCPairs == {{}, {<<"e", <<1, 1>>>>}, {<<"e", <<1, 1>>>>, <<"e", <<2, 1>>>>}}

MCORSet ==
  {encodeORSet([kind |-> "orset", adds |-> a, rems |-> r, remKeys |-> {"e"}], v) :
     a \in MCPairs, r \in MCPairs,
     v \in {[lamport |-> 1, node |-> 1], [lamport |-> 1, node |-> 2]}}

MCSamples == MCLWW \cup MCReg \cup MCORSet

\* The attribute "t" of the entity "ab" and the tags "s" of the entity "a:b".
MCTags == <<"s">>
MCSlots == {<<<<"a", "b">>, <<"t">>>>, <<<<"a", Colon, "b">>, MCTags>>}
MCKeys == {Key(s) : s \in MCSlots}

\* Both entities, what both begin with, and none: GET /facts without an entity.
MCScans == {<<"a", "b">>, <<"a", Colon, "b">>, <<"a">>, <<>>}

\* Beside the puts, deletes and tags: a delete under any policy.
MCBodies == {DeleteBody}
MCWs == {NotGiven, 2}
MCRs == {NotGiven, 2, 3}

\* In order, repeated and backwards with a blank, without the first member,
\* without the second, none at all, and one that does not parse.
MCLists == {<<1, 2>>, <<2, NoPart, 1, 2>>, <<2>>, <<1>>, <<>>, <<1, 0, 2>>}

MCFrom == ("w" :> 1) @@ ("r" :> 1)
MCTo == ("w" :> 2) @@ ("r" :> 2)
MCKind == ("w" :> "ReplicateWrite") @@ ("r" :> "ReplicateRead")
MCSides == {{}, {1}, {2}}
=============================================================================
