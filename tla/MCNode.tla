------------------------------- MODULE MCNode -------------------------------
(***************************************************************************)
(* Instances of NodeProcess for TLC.                                       *)
(***************************************************************************)
EXTENDS NodeProcess

Ver(l, n) == [lamport |-> l, node |-> n]

MCPut(d, v) ==
  [key |-> "k", value |-> [data |-> d, version |-> v, policy |-> "LWW",
                           tombstone |-> FALSE, crdt |-> NoCRDT]]

MCTag == <<"x", <<1, 1>>>>

MCSet(rems, keys, v) ==
  [key |-> "s",
   value |-> encodeORSet([kind |-> "orset", adds |-> {MCTag}, rems |-> rems,
                          remKeys |-> keys], v)]

\* A put of one key; of another, an add, and a remove that has seen it.
MCRemove == MCSet({MCTag}, {"x"}, Ver(2, 1))
MCIncoming == {MCPut(1, Ver(2, 2)), MCSet({}, {}, Ver(1, 2)), MCRemove}

\* A set holds every tag it has seen: the later payload is the one whose line
\* is too long for load.
MCTooLong == {MCRemove}
=============================================================================
