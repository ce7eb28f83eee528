---------------------------- MODULE ReplicaSpec ----------------------------
(***************************************************************************)
(* What the rest of the store relies on a replica for: the steps of        *)
(* Replica over messages that arrive in any order and any number of times. *)
(* QuorumStore and RepairStore take exactly these steps; LoggedReplica, in *)
(* which the log is a file of lines, is shown to implement them.           *)
(***************************************************************************)
EXTENDS Replica

CONSTANT Incoming  \* the messages [key, value] that may arrive

ReplicaNext ==
  \E n \in Nodes :
    \/ TickClock(n)
    \/ \E m \in Incoming :
         Apply(n, m.key, m.value) \/ ApplyLogError(n, m.key, m.value)
    \/ ReplicaCrash(n)
    \/ ReplicaRestart(n)

ReplicaBehaviour == ReplicaInit /\ [][ReplicaNext]_replicaVars

============================================================================
