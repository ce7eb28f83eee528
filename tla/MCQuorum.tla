------------------------------ MODULE MCQuorum ------------------------------
(***************************************************************************)
(* Instances of QuorumStore for TLC.                                       *)
(***************************************************************************)
EXTENDS QuorumInv

Put(n, policy, data, q) ==
  [to |-> n, key |-> "k", data |-> data, policy |-> policy,
   tombstone |-> FALSE, op |-> "add", elem |-> "x", w |-> q]

\* Node.Delete: a tombstone under the LWW policy.
Delete(n, q) == [Put(n, "LWW", 0, q) EXCEPT !.tombstone = TRUE]

SetOp(n, o, q) == [Put(n, "CRDT_ORSET", 0, q) EXCEPT !.op = o]

Get(n, q) == [to |-> n, key |-> "k", r |-> q]

\* Two clients at different coordinators, and the same two at one.
MCPuts == [put1 |-> Put(1, "LWW", 1, 2), put2 |-> Put(2, "LWW", 2, 2)]
MCSessionPuts == [put1 |-> Put(1, "LWW", 1, 2), put2 |-> Put(1, "LWW", 2, 2)]

\* On two nodes: a session of two writes at one coordinator against a write
\* at the other.
MCThreePuts ==
  [put1 |-> Put(1, "LWW", 1, 2), put2 |-> Put(1, "LWW", 2, 1),
   put3 |-> Put(2, "LWW", 3, 1)]

\* On two nodes: a put that needs both acks against a delete satisfied by one.
MCPutDelete == [put1 |-> Put(1, "LWW", 1, 2), put2 |-> Delete(2, 1)]

\* On three nodes: a register write that needs every ack against a deleting
\* one that needs two.
MCRegPuts ==
  [put1 |-> Put(1, "CRDT_LWWREG", 2, 3),
   put2 |-> [Put(2, "CRDT_LWWREG", 1, 2) EXCEPT !.tombstone = TRUE]]

\* An add against a remove, and two adds at one node.
MCAddRemove == [put1 |-> SetOp(1, "add", 2), put2 |-> SetOp(2, "remove", 1)]
MCAdds == [put1 |-> SetOp(1, "add", 2), put2 |-> SetOp(1, "add", 2)]

MCGet == [get3 |-> Get(3, 2)]
MCGetAll == [get1 |-> Get(1, 2)]
MCNoGet == [r \in {} |-> Get(1, 1)]
=============================================================================
