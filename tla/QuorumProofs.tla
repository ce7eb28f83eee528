---------------------------- MODULE QuorumProofs ----------------------------
(***************************************************************************)
(* Safety of the quorum store for every membership, key set, set of        *)
(* requests and bound: the invariant of QuorumInv is inductive, and it     *)
(* implies freshness of overlapping reads, durability of acknowledged      *)
(* writes and causal order of versions.  All of it survives background     *)
(* repair.                                                                 *)
(***************************************************************************)
EXTENDS StoreProofs, FiniteSetTheorems, WellFoundedInduction

\* The invariant of QuorumInv, type correctness included, holds in every
\* reachable state of the write path and the read path over crashing
\* replicas.
THEOREM Invariance == Spec => []QuorumInvariant
<1>1. Init => QuorumInvariant
  BY InitInvariant
<1>2. QuorumInvariant /\ [Next]_vars => QuorumInvariant'
  BY StepInvariant
<1> QED
  BY <1>1, <1>2, PTL DEF Spec

LEMMA MembersFinite ==
  /\ IsFiniteSet(Nodes) /\ N \in Nat
  /\ \A S \in SUBSET Nodes : IsFiniteSet(S) /\ Cardinality(S) \in Nat
BY Zenon, NodesAssumption, FS_CardinalityType, FS_Subset DEF N

\* A read quorum meets the acks of every write it overlaps.
LEMMA FreshByInvariant == QuorumInvariant => QuorumFresh
<1>1. SUFFICES ASSUME QuorumInvariant, NEW r \in ReadIds, rstate[r] = "done",
                      NEW w \in rbefore[r], Overlap(r, w)
               PROVE  AtLeast(racc[r].version, wop[w].ver)
  BY DEF QuorumFresh
<1>2. /\ ReadOK(r) /\ w \in WriteIds /\ ReadTypeOK /\ WriteTypeOK
  BY <1>1 DEF QuorumInvariant, TypeOK, ReadInv
<1>3. wstate[w] = "ok" /\ WriteOK(w)
  BY <1>1, <1>2 DEF ReadOK, QuorumInvariant, WriteInv
<1>4. /\ rset[r] \in SUBSET Nodes /\ acked[w] \in SUBSET Nodes
      /\ Cardinality(rset[r]) >= RQuorum(r)
      /\ Cardinality(acked[w]) >= WQuorum(w)
  BY Zenon, <1>1, <1>2, <1>3 DEF ReadOK, WriteOK, ReadTypeOK, WriteTypeOK
<1>5. Cardinality(rset[r]) + Cardinality(acked[w]) > Cardinality(Nodes)
  <2>1. /\ RQuorum(r) \in Int /\ WQuorum(w) \in Int
    BY <1>2, RequestTypes
  <2>2. RQuorum(r) + WQuorum(w) > Cardinality(Nodes) /\ Cardinality(Nodes) \in Nat
    BY <1>1, MembersFinite DEF Overlap, N
  <2>3. Cardinality(rset[r]) \in Nat /\ Cardinality(acked[w]) \in Nat
    BY <1>4, MembersFinite
  <2> QED
    BY <1>4, <2>1, <2>2, <2>3
<1>6. PICK p \in Nodes : p \in rset[r] \cap acked[w]
  BY <1>4, <1>5, MembersFinite, FS_MajoritiesIntersect
<1>7. /\ AtLeast(racc[r].version, rview[r][p].version)
      /\ AtLeast(rview[r][p].version, wop[w].ver)
  BY <1>1, <1>2, <1>6 DEF ReadOK
<1>8. /\ racc[r].version \in Version /\ rview[r][p].version \in Version
      /\ wop[w].ver \in Version
  BY <1>2, <1>6 DEF ReadTypeOK, WriteTypeOK, Value, WriteOp
<1> QED
  BY <1>7, <1>8, AtLeastTransitive

\* A read answered by Node.Read under R + W > N is at least as new as every
\* write of its key that Node.Write had answered before the read began.
THEOREM Freshness == Spec => []QuorumFresh
BY FreshByInvariant, Invariance, PTL

\* The members that acked hold the write.
LEMMA DurableByInvariant == QuorumInvariant => WriteDurable
<1>1. SUFFICES ASSUME QuorumInvariant, NEW w \in WriteIds, wstate[w] = "ok"
               PROVE  Cardinality({p \in Nodes :
                        AtLeast(kv[p][WKey(w)].version, wop[w].ver)}) >= WQuorum(w)
  BY DEF WriteDurable
<1> DEFINE S == {p \in Nodes : AtLeast(kv[p][WKey(w)].version, wop[w].ver)}
<1>2. /\ acked[w] \in SUBSET Nodes /\ Cardinality(acked[w]) >= WQuorum(w)
  BY <1>1 DEF QuorumInvariant, TypeOK, WriteTypeOK, WriteInv, WriteOK
<1>3. acked[w] \subseteq S
  BY <1>1, <1>2, ServedView
<1>4. IsFiniteSet(S) /\ S \in SUBSET Nodes
  BY MembersFinite
<1>5. Cardinality(acked[w]) <= Cardinality(S)
  BY <1>3, <1>4, FS_Subset
<1>6. /\ Cardinality(S) \in Nat /\ Cardinality(acked[w]) \in Nat
      /\ WQuorum(w) \in Int
  BY <1>2, <1>4, MembersFinite, RequestTypes
<1> QED
  BY <1>2, <1>5, <1>6

\* A write answered OK stays on W replicas in its own or a newer version,
\* over crashes, restarts and later merges.
THEOREM Durability == Spec => []WriteDurable
BY DurableByInvariant, Invariance, PTL

LEMMA CausalByInvariant == QuorumInvariant => CausalOrder
BY DEF QuorumInvariant, WriteInv, WriteOK, CausalOrder

\* Versions follow causality: a node that acked a write gives each later
\* write of its own a greater version, even across a crash of the node.
THEOREM Causality == Spec => []CausalOrder
BY CausalByInvariant, Invariance, PTL

\* No step, crash and restart included, takes a replica back to an older
\* version of a key.
THEOREM Monotonicity == Spec => ReplicaMonotone
<1>1. QuorumInvariant /\ [Next]_vars =>
        [\A n \in Nodes, k \in Keys :
           AtLeast(kv'[n][k].version, kv[n][k].version)]_vars
  BY StepInvariant DEF Monotone
<1> QED
  BY <1>1, Invariance, PTL DEF Spec, ReplicaMonotone

----------------------------------------------------------------------------
(* The store with its repair. *)

LEMMA NodesOrdered == Ordered
<1> DEFINE less == {ss \in Nat \X Nat : ss[1] < ss[2]}
<1>1. Nodes \subseteq Nat
  BY NodesAssumption
<1>2. IsWellFoundedOn(less, Nat)
  BY NatLessThanWellFounded DEF OpToRel
<1>3. SUFFICES ASSUME NEW S \in SUBSET Nodes, S # {}
               PROVE  \E x \in S : \A y \in S : x <= y
  BY DEF Ordered
<1>4. PICK x \in S : \A y \in S : <<y, x>> \notin less
  <2> HIDE DEF less
  <2> QED
    BY ZenonT(30), <1>1, <1>2, <1>3, WFMin
<1>5. ASSUME NEW y \in S PROVE x <= y
  <2>1. x \in Nat /\ y \in Nat
    BY <1>1
  <2>2. ~ (y < x)
    BY ZenonT(30), <1>4, <2>1
  <2> QED
    BY <2>1, <2>2
<1> QED
  BY <1>5

LEMMA StoreInvariance == StoreSpec => []StoreInvariant
<1>1. StoreInvariant /\ [StoreNext]_allVars => StoreInvariant'
  BY StoreStep, NodesOrdered
<1> QED
  BY <1>1, StoreInitial, PTL DEF StoreSpec

\* What the loops rely on holds in every reachable state: the round and the
\* replay of a loop never overlap and never run without their process, their
\* peer, their target or their hint (StartAntiEntropy, AntiEntropyRound,
\* ReplayHints).
THEOREM RepairInvariance == StoreSpec => []RepairInvariant
<1>1. StoreInvariant => RepairInvariant
  BY DEF StoreInvariant
<1> QED
  BY <1>1, StoreInvariance, PTL

\* Background repair takes nothing back: with rounds of anti-entropy on stale
\* digests and replays of old hints beside the requests, over crashes and
\* faults, a write answered OK stays on W replicas.
THEOREM RepairedDurability == StoreSpec => []WriteDurable
<1>1. StoreInvariant => WriteDurable
  BY DurableByInvariant DEF StoreInvariant
<1> QED
  BY <1>1, StoreInvariance, PTL

\* Nor does it make an overlapping read miss a write that was answered OK.
THEOREM RepairedFreshness == StoreSpec => []QuorumFresh
<1>1. StoreInvariant => QuorumFresh
  BY FreshByInvariant DEF StoreInvariant
<1> QED
  BY <1>1, StoreInvariance, PTL

\* No pull, push, hint, late arrival or crash takes a replica back to an older
\* version of a key (Replica.Apply merges whatever repair delivers).
THEOREM RepairedMonotonicity == StoreSpec => ReplicaMonotone
<1>1. StoreInvariant /\ [StoreNext]_allVars =>
        [\A n \in Nodes, k \in Keys :
           AtLeast(kv'[n][k].version, kv[n][k].version)]_vars
  BY StoreStep, NodesOrdered DEF Monotone
<1> QED
  BY <1>1, StoreInvariance, PTL DEF StoreSpec, ReplicaMonotone

=============================================================================
