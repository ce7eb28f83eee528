------------------------------ MODULE MCRepair ------------------------------
(***************************************************************************)
(* Instances of RepairStore for TLC.                                       *)
(***************************************************************************)
EXTENDS RepairStore

Put(n, policy, data, q) ==
  [to |-> n, key |-> "k", data |-> data, policy |-> policy,
   tombstone |-> FALSE, op |-> "add", elem |-> "x", w |-> q]

\* Two concurrent writes on two nodes: one needs both replicas, the other is
\* satisfied by its coordinator alone.
MCPuts == [put1 |-> Put(1, "LWW", 1, 2), put2 |-> Put(2, "LWW", 2, 1)]

\* Two writes of one client.
MCSession == [put1 |-> Put(1, "LWW", 1, 1), put2 |-> Put(1, "LWW", 2, 1)]

MCNoGet == [r \in {} |-> [to |-> 1, key |-> "k", r |-> 1]]

\* A loop at the first node.
MCLoop == [loop1 |-> 1]
=============================================================================
