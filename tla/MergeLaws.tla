----------------------------- MODULE MergeLaws -----------------------------
(***************************************************************************)
(* The algebra of Resolve within one policy.  Replicas receive the same    *)
(* payloads in different orders, more than once, and already merged with   *)
(* others: they agree in the end only if Resolve is commutative,           *)
(* associative and absorbs what it has seen.  The state is a window of     *)
(* three stored values of one policy that slides over a stream of          *)
(* arbitrary such values.                                                  *)
(***************************************************************************)
EXTENDS Conflict

CONSTANT Samples  \* the values that occur in the stream

ASSUME SamplesAssumption == \A v \in Samples : Canonical(v)

VARIABLES x, y, z

mergeVars == <<x, y, z>>

MergeInit == \E v \in Samples : x = v /\ y = v /\ z = v

Arrive(v) ==
  /\ v.policy = z.policy
  /\ x' = y
  /\ y' = z
  /\ z' = v

MergeNext == \E v \in Samples : Arrive(v)

MergeSpec == MergeInit /\ [][MergeNext]_mergeVars

----------------------------------------------------------------------------

\* Two replicas that hold each other's value agree, ties included.
MergeCommutes == Resolve(x, y) = Resolve(y, x)

\* It does not matter which values were merged before they were sent.
MergeAssociates == Resolve(Resolve(x, y), z) = Resolve(x, Resolve(y, z))

\* A value that arrives again, alone or inside a later merge, changes
\* nothing: replication is at-least-once.
MergeAbsorbs ==
  LET m == Resolve(x, y) IN Resolve(m, x) = m /\ Resolve(m, m) = m

============================================================================
