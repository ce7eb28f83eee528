------------------------------ MODULE Replica ------------------------------
(***************************************************************************)
(* The local copy each node keeps of the whole keyspace, its Lamport clock *)
(* and what its write-ahead log preserves over a crash (internal/node/     *)
(* replica.go over internal/store).                                        *)
(*                                                                         *)
(* Apply holds the replica's mutex from the merge to the store, so it is   *)
(* one step.  The log holds every incoming value that changed the map, in  *)
(* order, and NewReplica folds the same merge over it; `disk' is the map   *)
(* that fold gives and `logged' the greatest Lamport time in the log, to   *)
(* which it sets the clock.  What the clock had reached by Tick, or        *)
(* observed from values that changed nothing, is lost.                     *)
(***************************************************************************)
EXTENDS Conflict

CONSTANT LogMayFail  \* whether an append to the log may return an error

ASSUME LogAssumption == LogMayFail \in BOOLEAN

VARIABLES kv,      \* kv[n][k]: the value replica n stores for key k, or NoValue
          clock,   \* clock[n]: the Lamport clock of node n
          disk,    \* disk[n][k]: the value the replay of n's log gives k
          logged,  \* logged[n]: the greatest Lamport time in n's log
          up       \* up[n]: whether the process of node n is running

replicaVars == <<kv, clock, disk, logged, up>>

ReplicaTypeOK ==
  /\ kv \in [Nodes -> [Keys -> Value]]
  /\ clock \in [Nodes -> Nat]
  /\ disk \in [Nodes -> [Keys -> Value]]
  /\ logged \in [Nodes -> Nat]
  /\ up \in [Nodes -> BOOLEAN]

ReplicaInit ==
  /\ kv = [n \in Nodes |-> [k \in Keys |-> NoValue]]
  /\ clock = [n \in Nodes |-> 0]
  /\ disk = [n \in Nodes |-> [k \in Keys |-> NoValue]]
  /\ logged = [n \in Nodes |-> 0]
  /\ up = [n \in Nodes |-> TRUE]

----------------------------------------------------------------------------

\* Apply stops before the log when the merge changes nothing.
ChangesReplica(n, k, v) == mergeIncoming(kv[n][k], v) # kv[n][k]

\* A log that keeps its entries in memory.
LogAppendLost(n, k, v) == UNCHANGED <<disk, logged>>

\* WAL.Append, as far as a replay can tell.
LogAppend(n, k, v) ==
  /\ disk' = [disk EXCEPT ![n][k] = mergeIncoming(@, v)]
  /\ logged' = [logged EXCEPT ![n] = Observe(@, v.version.lamport)]

\* Replica.Apply with a log that accepts the entry.
Apply(n, k, v) ==
  /\ up[n]
  /\ clock' = [clock EXCEPT ![n] = Observe(@, v.version.lamport)]
  /\ kv' = [kv EXCEPT ![n][k] = mergeIncoming(@, v)]
  /\ IF ChangesReplica(n, k, v) THEN LogAppend(n, k, v)
                                ELSE UNCHANGED <<disk, logged>>
  /\ UNCHANGED up

\* Replica.Apply when WAL.Append returns an error: the clock has moved, the
\* map has not, and the caller is told.  The entry is in the file all the
\* same when it was the Sync that failed.
ApplyLogError(n, k, v) ==
  /\ LogMayFail
  /\ up[n]
  /\ ChangesReplica(n, k, v)
  /\ clock' = [clock EXCEPT ![n] = Observe(@, v.version.lamport)]
  /\ LogAppend(n, k, v) \/ UNCHANGED <<disk, logged>>
  /\ UNCHANGED <<kv, up>>

\* Clock.Tick of a coordinated write.
TickClock(n) ==
  /\ up[n]
  /\ clock' = [clock EXCEPT ![n] = Tick(@)]
  /\ UNCHANGED <<kv, disk, logged, up>>

\* The process dies.  Only the log survives.
ReplicaCrash(n) ==
  /\ up[n]
  /\ up' = [up EXCEPT ![n] = FALSE]
  /\ UNCHANGED <<kv, clock, disk, logged>>

\* OpenWAL and NewReplica: the map and the clock are rebuilt from the log.
ReplicaRestart(n) ==
  /\ ~ up[n]
  /\ up' = [up EXCEPT ![n] = TRUE]
  /\ kv' = [kv EXCEPT ![n] = disk[n]]
  /\ clock' = [clock EXCEPT ![n] = logged[n]]
  /\ UNCHANGED <<disk, logged>>

============================================================================
