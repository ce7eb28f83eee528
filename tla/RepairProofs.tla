---------------------------- MODULE RepairProofs ----------------------------
(***************************************************************************)
(* The store with its background repair is as safe as without: the rounds  *)
(* of anti-entropy and the replays of hints preserve the invariant of      *)
(* QuorumInv, whatever their digests, plans and copied hints have missed   *)
(* meanwhile, because everything they carry was stored somewhere before.   *)
(***************************************************************************)
EXTENDS ReplicaProofs, RepairStore

\* What repair carries is what some write or merge has made.
SoundValue == {v \in Value : WellFormed(v)}
StoredValue == {v \in Value : Stored(v)}
SoundHint == [key : Keys, value : SoundValue]
SoundMessage == [to : Nodes, key : Keys, value : SoundValue]
SoundDigest == [Keys -> StoredValue]
SoundPlan == [push : SoundDigest, pull : SoundDigest]

HintsSound == hints \in [Nodes -> [Nodes -> Seq(SoundHint)]]

RoundSound ==
  /\ adigest \in [Loops -> SoundDigest]
  /\ aplan \in [Loops -> SoundPlan]
  /\ alate \in SUBSET SoundMessage

ReplaySound ==
  /\ hqueue \in [Loops -> Seq(SoundHint)]
  /\ hlate \in SUBSET SoundMessage

StoreInvariant ==
  /\ QuorumInvariant
  /\ RepairInvariant
  /\ HintsSound /\ RoundSound /\ ReplaySound

----------------------------------------------------------------------------
(* Values and members. *)

LEMMA SoundFacts ==
  /\ SoundValue \subseteq Value /\ StoredValue \subseteq Value
  /\ NoValue \in StoredValue
  /\ \A v \in StoredValue : Found(v) => v \in SoundValue
  /\ \A v \in SoundValue : WellFormed(v)
  /\ EmptyDigest \in SoundDigest /\ EmptyPlan \in SoundPlan
<1>1. NoValue \in StoredValue
  BY NoValueType DEF StoredValue, Stored
<1>2. \A v \in StoredValue : Found(v) => v \in SoundValue
  BY StoredFacts DEF StoredValue, SoundValue
<1> QED
  BY <1>1, <1>2
     DEF SoundValue, StoredValue, EmptyDigest, EmptyPlan, SoundDigest, SoundPlan

\* Sets of node ids have a least member, as sets of naturals have.
Ordered == \A S \in SUBSET Nodes : S # {} => \E x \in S : \A y \in S : x <= y

\* The peer of a round under way is one of its peers.
LEMMA RoundPeerMember ==
  ASSUME Ordered, NEW l, apeers[l] \subseteq Nodes, apeers[l] # {}
  PROVE  RoundPeer(l) \in apeers[l] /\ RoundPeer(l) \in Nodes
<1>1. \E x \in apeers[l] : \A y \in apeers[l] : x <= y
  BY DEF Ordered
<1> QED
  BY <1>1 DEF RoundPeer

LEMMA ScanMergeSound ==
  ASSUME NEW a \in StoredValue, NEW b \in StoredValue
  PROVE  ScanMerge(a, b) \in StoredValue
<1>1. CASE ~ Found(a) \/ ~ Found(b)
  BY <1>1 DEF ScanMerge
<1>2. CASE Found(a) /\ Found(b)
  <2>1. WellFormed(a) /\ WellFormed(b)
    BY <1>2, SoundFacts
  <2>2. WellFormed(Resolve(a, b))
    BY <2>1, ResolveVersion
  <2> QED
    BY <1>2, <2>2 DEF ScanMerge, StoredValue, Stored, WellFormed
<1> QED
  BY <1>1, <1>2

\* Scan plans only merges of the two sides.
LEMMA ScanSound ==
  ASSUME NEW local \in SoundDigest, NEW remote \in SoundDigest
  PROVE  /\ Scan(local, remote) \in SoundPlan
         /\ [k \in Keys |-> ScanMerge(local[k], remote[k])] \in SoundDigest
<1>1. \A k \in Keys : ScanMerge(local[k], remote[k]) \in StoredValue
  BY ScanMergeSound DEF SoundDigest
<1> QED
  BY <1>1, SoundFacts DEF Scan, SoundPlan, SoundDigest

\* What repair applies.
LEMMA RepairApplies ==
  ASSUME QuorumInvariant, NEW p \in Nodes, NEW k \in Keys, NEW v \in SoundValue,
         Apply(p, k, v) \/ ApplyLogError(p, k, v)
  PROVE  ReplicaTypeOK' /\ ReplicaInv' /\ Monotone /\ UNCHANGED up
<1>1. ReplicaTypeOK /\ ReplicaInv /\ WellFormed(v)
  BY SoundFacts DEF QuorumInvariant, TypeOK
<1>2. UNCHANGED up
  BY DEF Apply, ApplyLogError
<1> QED
  BY <1>1, <1>2, ApplyStep, ApplyLogErrorStep

----------------------------------------------------------------------------
(* The steps of a round. *)

RoundInv == AntiTypeOK /\ RoundSound /\ \A l \in Loops : RoundOK(l)

ReplicaKept == ReplicaTypeOK' /\ ReplicaInv' /\ Monotone /\ UNCHANGED up

LEMMA ReplicaUnchanged ==
  ASSUME QuorumInvariant, UNCHANGED replicaVars
  PROVE  ReplicaKept
<1>1. ReplicaTypeOK /\ ReplicaInv
  BY DEF QuorumInvariant, TypeOK
<1>2. UNCHANGED <<kv, clock, disk, logged, up>>
  BY DEF replicaVars
<1> QED
  BY <1>1, <1>2, KVUnchanged DEF ReplicaTypeOK, ReplicaInv, ReplicaKept

\* What a round under way can rely on.
LEMMA RoundFacts ==
  ASSUME Ordered, RoundInv, NEW l \in Loops
  PROVE  /\ adigest[l] \in SoundDigest /\ aplan[l] \in SoundPlan
         /\ \A k \in Keys : /\ aplan[l].pull[k] \in StoredValue
                            /\ aplan[l].push[k] \in StoredValue
         /\ LoopNode(l) \in Nodes
         /\ astep[l] # "off" => RoundPeer(l) \in Nodes
<1>1. aplan[l] \in SoundPlan /\ adigest[l] \in SoundDigest /\ LoopNode(l) \in Nodes
  BY LoopAssumption DEF RoundInv, RoundSound, LoopNode
<1>2. astep[l] # "off" => RoundPeer(l) \in Nodes
  BY RoundPeerMember DEF RoundInv, RoundOK, AntiTypeOK
<1> QED
  BY <1>1, <1>2 DEF SoundPlan, SoundDigest

\* The plan of loop l loses an entry.
LEMMA PlanShrinks ==
  ASSUME RoundInv, NEW l \in Loops, NEW k \in Keys, astep[l] = "apply",
         \/ aplan' = [aplan EXCEPT ![l].pull[k] = NoValue]
         \/ aplan' = [aplan EXCEPT ![l].push[k] = NoValue],
         UNCHANGED <<astep, apeers, adigest, amerged, loop, up>>,
         aclean' \in [Loops -> BOOLEAN], alate' \in SUBSET SoundMessage
  PROVE  RoundInv'
<1>1. aplan' \in [Loops -> SoundPlan]
  <2>1. /\ aplan \in [Loops -> SoundPlan] /\ NoValue \in StoredValue
        /\ aplan[l].pull \in SoundDigest /\ aplan[l].push \in SoundDigest
    BY SoundFacts DEF RoundInv, RoundSound, SoundPlan
  <2>2. /\ [aplan[l].pull EXCEPT ![k] = NoValue] \in SoundDigest
        /\ [aplan[l].push EXCEPT ![k] = NoValue] \in SoundDigest
    BY <2>1 DEF SoundDigest
  <2> QED
    BY ZenonT(30), <2>1, <2>2 DEF SoundPlan
<1>2. \A m \in Loops : m # l => aplan'[m] = aplan[m]
  BY DEF RoundInv, RoundSound
<1>3. aplan' \in [Loops -> Plan] /\ alate' \in SUBSET Message
  BY <1>1, SoundFacts DEF SoundPlan, Plan, SoundDigest, Digest, SoundMessage, Message
<1>4. AntiTypeOK' /\ RoundSound'
  BY <1>1, <1>3 DEF RoundInv, AntiTypeOK, RoundSound
<1>5. \A m \in Loops : RoundOK(m)'
  BY <1>2 DEF RoundInv, RoundOK, LoopNode
<1> QED
  BY <1>4, <1>5 DEF RoundInv

LEMMA RoundStartStep ==
  ASSUME StoreInvariant, RoundInv, NEW l \in Loops, RoundStart(l),
         loop' = [loop EXCEPT ![l] = "round"]
  PROVE  RoundInv' /\ ReplicaKept
<1>1. ReplicaKept
  BY ReplicaUnchanged DEF StoreInvariant, RoundStart
<1>2. AntiTypeOK' /\ RoundSound'
  BY DEF RoundInv, RoundStart, AntiTypeOK, RoundSteps, RoundSound
<1>3. ASSUME NEW m \in Loops PROVE RoundOK(m)'
  <2>1. loop \in [Loops -> {"round", "replay"}] /\ UNCHANGED up
    BY <1>1 DEF StoreInvariant, RepairInvariant, StoreTypeOK, ReplicaKept
  <2> QED
    BY <2>1 DEF RoundInv, RoundStart, RoundOK, LoopNode, AntiTypeOK
<1> QED
  BY <1>1, <1>2, <1>3 DEF RoundInv

LEMMA NextPeerStep ==
  ASSUME RoundInv, NEW l \in Loops, astep[l] # "off", NextPeer(l),
         UNCHANGED <<alate, loop, up>>
  PROVE  RoundInv'
<1>1. EmptyDigest \in SoundDigest /\ EmptyPlan \in SoundPlan
  BY SoundFacts
<1>2. EmptyDigest \in Digest /\ EmptyPlan \in Plan
  BY NoValueType DEF EmptyDigest, Digest, EmptyPlan, Plan
<1>3. RoundSound'
  BY <1>1 DEF NextPeer, RoundInv, RoundSound
<1>4. AntiTypeOK'
  BY <1>2 DEF NextPeer, RoundInv, AntiTypeOK, RoundSteps
<1>5. ASSUME NEW m \in Loops PROVE RoundOK(m)'
  BY DEF NextPeer, RoundInv, RoundOK, AntiTypeOK, LoopNode
<1> QED
  BY <1>3, <1>4, <1>5 DEF RoundInv

LEMMA DigestServeStep ==
  ASSUME Ordered, StoreInvariant, RoundInv, NEW l \in Loops, DigestServe(l), UNCHANGED loop
  PROVE  RoundInv' /\ ReplicaKept
<1>1. ReplicaKept
  BY ReplicaUnchanged DEF StoreInvariant, DigestServe
<1>2. kv[RoundPeer(l)] \in SoundDigest /\ kv[RoundPeer(l)] \in Digest
  <2>1. RoundPeer(l) \in Nodes
    BY RoundFacts DEF DigestServe
  <2> QED
    BY <2>1 DEF StoreInvariant, QuorumInvariant, TypeOK, ReplicaTypeOK, ReplicaInv,
       SoundDigest, StoredValue, Digest
<1>3. AntiTypeOK' /\ RoundSound'
  BY <1>2 DEF DigestServe, RoundInv, AntiTypeOK, RoundSteps, RoundSound
<1>4. ASSUME NEW m \in Loops PROVE RoundOK(m)'
  BY <1>1 DEF DigestServe, RoundInv, RoundOK, AntiTypeOK, LoopNode, ReplicaKept
<1> QED
  BY <1>1, <1>3, <1>4 DEF RoundInv

LEMMA RoundScanStep ==
  ASSUME Ordered, StoreInvariant, RoundInv, NEW l \in Loops, RoundScan(l), UNCHANGED loop
  PROVE  RoundInv' /\ ReplicaKept
<1> DEFINE local == kv[LoopNode(l)]
           plan == Scan(local, adigest[l])
           merged == [k \in Keys |-> ScanMerge(local[k], adigest[l][k])]
<1>1. ReplicaKept
  BY ReplicaUnchanged DEF StoreInvariant, RoundScan
<1>2. local \in SoundDigest /\ adigest[l] \in SoundDigest
  BY RoundFacts DEF StoreInvariant, QuorumInvariant, TypeOK, ReplicaTypeOK,
     ReplicaInv, SoundDigest, StoredValue
<1>3. plan \in SoundPlan /\ merged \in SoundDigest
  BY <1>2, ScanSound
<1>4. plan \in Plan /\ merged \in Digest
  BY <1>3, SoundFacts DEF SoundPlan, Plan, SoundDigest, Digest
<1>5. /\ astep[l] = "served" /\ astep' = [astep EXCEPT ![l] = "apply"]
      /\ aplan' = [aplan EXCEPT ![l] = plan]
      /\ amerged' = [amerged EXCEPT ![l] = merged]
      /\ adigest' = [adigest EXCEPT ![l] = EmptyDigest]
      /\ UNCHANGED <<apeers, aclean, alate>>
  BY DEF RoundScan
<1> HIDE DEF local, plan, merged
<1>6. EmptyDigest \in SoundDigest /\ EmptyDigest \in Digest
  BY SoundFacts DEF SoundDigest, Digest
<1>7. RoundSound'
  BY <1>3, <1>5, <1>6 DEF RoundInv, RoundSound
<1>8. AntiTypeOK'
  BY <1>4, <1>5, <1>6 DEF RoundInv, AntiTypeOK, RoundSteps
<1>9. ASSUME NEW m \in Loops PROVE RoundOK(m)'
  BY <1>1, <1>5 DEF RoundInv, RoundOK, AntiTypeOK, LoopNode, ReplicaKept
<1> QED
  BY <1>1, <1>7, <1>8, <1>9 DEF RoundInv

\* A pull or a push, whatever becomes of it.
LEMMA PlanSteps ==
  ASSUME Ordered, StoreInvariant, RoundInv, NEW l \in Loops, NEW k \in Keys, UNCHANGED loop,
         \/ PullApply(l, k) \/ PullLogError(l, k)
         \/ PushApply(l, k) \/ PushLogError(l, k)
         \/ PushError(l, k) \/ PushUnreachable(l, k)
  PROVE  RoundInv' /\ ReplicaKept
<1> DEFINE pull == aplan[l].pull[k]
           push == aplan[l].push[k]
<1>1. /\ QuorumInvariant /\ LoopNode(l) \in Nodes
      /\ aclean \in [Loops -> BOOLEAN] /\ alate \in SUBSET SoundMessage
      /\ [aclean EXCEPT ![l] = FALSE] \in [Loops -> BOOLEAN]
  BY RoundFacts DEF StoreInvariant, RoundInv, AntiTypeOK, RoundSound
<1>2. CASE PullApply(l, k) \/ PullLogError(l, k)
  <2>1. /\ PullKey(l, k)
        /\ Apply(LoopNode(l), k, pull) \/ ApplyLogError(LoopNode(l), k, pull)
        /\ UNCHANGED aclean \/ aclean' = [aclean EXCEPT ![l] = FALSE]
    BY <1>2 DEF PullApply, PullLogError
  <2>2. pull \in SoundValue
    BY <2>1, RoundFacts, SoundFacts DEF PullKey
  <2>3. ReplicaKept
    BY <1>1, <2>1, <2>2, RepairApplies DEF ReplicaKept
  <2>4. RoundInv'
    BY ZenonT(30), <1>1, <2>1, <2>3, PlanShrinks DEF PullKey, ReplicaKept
  <2> QED
    BY <2>3, <2>4
<1>3. ASSUME PushKey(l, k)
      PROVE  RoundPeer(l) \in Nodes /\ push \in SoundValue
  BY <1>3, RoundFacts, SoundFacts DEF PushKey
<1>4. CASE PushApply(l, k) \/ PushLogError(l, k)
  <2>1. /\ PushKey(l, k)
        /\ Apply(RoundPeer(l), k, push) \/ ApplyLogError(RoundPeer(l), k, push)
        /\ UNCHANGED aclean \/ aclean' = [aclean EXCEPT ![l] = FALSE]
        /\ UNCHANGED alate
    BY <1>4 DEF PushApply, PushLogError
  <2>2. ReplicaKept
    BY <1>1, <1>3, <2>1, RepairApplies DEF ReplicaKept
  <2>3. RoundInv'
    BY ZenonT(30), <1>1, <2>1, <2>2, PlanShrinks DEF PushKey, ReplicaKept
  <2> QED
    BY <2>2, <2>3
<1>5. CASE PushError(l, k) \/ PushUnreachable(l, k)
  <2> DEFINE msg == [to |-> RoundPeer(l), key |-> k, value |-> push]
  <2>1. /\ PushKey(l, k) /\ UNCHANGED replicaVars
        /\ aclean' = [aclean EXCEPT ![l] = FALSE]
        /\ alate' = alate \/ alate' = alate \cup {msg}
    BY <1>5 DEF PushError, PushUnreachable
  <2>2. ReplicaKept
    BY <1>1, <2>1, ReplicaUnchanged
  <2>3. msg \in SoundMessage
    BY <1>3, <2>1 DEF SoundMessage
  <2> HIDE DEF msg
  <2>4. RoundInv'
    BY ZenonT(30), <1>1, <2>1, <2>2, <2>3, PlanShrinks DEF PushKey, ReplicaKept
  <2> QED
    BY <2>2, <2>4
<1> QED
  BY <1>2, <1>4, <1>5

LEMMA PushLateStep ==
  ASSUME StoreInvariant, RoundInv, NEW m \in alate, PushLate(m), UNCHANGED loop
  PROVE  RoundInv' /\ ReplicaKept
<1>1. m.to \in Nodes /\ m.key \in Keys /\ m.value \in SoundValue
  BY DEF RoundInv, RoundSound, SoundMessage
<1>2. ReplicaKept
  BY <1>1, RepairApplies DEF StoreInvariant, PushLate, ReplicaKept
<1> QED
  BY <1>2 DEF PushLate, RoundInv, AntiTypeOK, RoundSound, RoundOK, LoopNode, ReplicaKept

\* Every step of a round, faults included.
LEMMA RoundKept ==
  ASSUME Ordered, StoreInvariant, RoundInv, UNCHANGED loop,
         \/ \E l \in Loops : AntiStep(l)
         \/ AntiFault
         \/ \E m \in alate : PushLate(m)
  PROVE  RoundInv' /\ ReplicaKept
<1>1. ASSUME NEW l \in Loops, DigestError(l) \/ ExchangeDone(l)
      PROVE  RoundInv' /\ ReplicaKept
  <2>1. /\ astep[l] # "off" /\ NextPeer(l)
        /\ UNCHANGED alate /\ UNCHANGED replicaVars
    BY <1>1 DEF DigestError, ExchangeDone
  <2>2. ReplicaKept
    BY <2>1, ReplicaUnchanged DEF StoreInvariant
  <2> QED
    BY <2>1, <2>2, NextPeerStep DEF ReplicaKept
<1>2. ASSUME NEW l \in Loops, AntiStep(l) PROVE RoundInv' /\ ReplicaKept
  BY <1>1, <1>2, DigestServeStep, RoundScanStep, PlanSteps DEF AntiStep
<1>3. CASE AntiFault
  BY <1>1, <1>3, PlanSteps DEF AntiFault
<1> QED
  BY <1>2, <1>3, PushLateStep

----------------------------------------------------------------------------
(* The steps of a replay. *)

ReplayInv == HandoffTypeOK /\ ReplaySound /\ \A l \in Loops : ReplayOK(l)

LEMMA HintQueues == Seq(SoundHint) \subseteq Seq(Hint)
<1>1. SoundHint \subseteq Hint
  BY SoundFacts DEF SoundHint, Hint
<1> QED
  BY <1>1

LEMMA ReplayStartStep ==
  ASSUME StoreInvariant, ReplayInv, NEW l \in Loops, ReplayStart(l),
         loop' = [loop EXCEPT ![l] = "replay"]
  PROVE  ReplayInv' /\ ReplicaKept
<1> DEFINE targets == Targets(LoopNode(l))
<1>1. ReplicaKept
  BY ReplicaUnchanged DEF StoreInvariant, ReplayStart
<1>2. /\ hstep[l] = "off" /\ up[LoopNode(l)] /\ targets \in SUBSET Nodes
      /\ htargets' = [htargets EXCEPT ![l] = targets]
      /\ hstep' = [hstep EXCEPT ![l] = IF targets = {} THEN "off" ELSE "next"]
      /\ UNCHANGED <<htarget, hqueue, hlate>>
  BY DEF ReplayStart, Targets
<1> HIDE DEF targets
<1>3. HandoffTypeOK' /\ ReplaySound'
  BY <1>2 DEF ReplayInv, HandoffTypeOK, ReplaySteps, ReplaySound
<1>4. ASSUME NEW m \in Loops PROVE ReplayOK(m)'
  <2>1. loop \in [Loops -> {"round", "replay"}] /\ UNCHANGED up
    BY <1>1 DEF StoreInvariant, RepairInvariant, StoreTypeOK, ReplicaKept
  <2> QED
    BY <1>2, <2>1 DEF ReplayInv, ReplayOK, HandoffTypeOK, LoopNode
<1> QED
  BY <1>1, <1>3, <1>4 DEF ReplayInv

LEMMA LeaveTargetStep ==
  ASSUME ReplayInv, NEW l \in Loops, hstep[l] # "off", NEW t, LeaveTarget(l, t),
         UNCHANGED <<loop, up>>, hlate' \in SUBSET SoundMessage
  PROVE  ReplayInv'
<1>1. <<>> \in Seq(SoundHint) /\ <<>> \in Seq(Hint)
  OBVIOUS
<1>2. SoundMessage \subseteq Message
  BY SoundFacts DEF SoundMessage, Message
<1>3. ReplaySound'
  BY <1>1 DEF LeaveTarget, ReplayInv, ReplaySound
<1>4. HandoffTypeOK'
  BY <1>1, <1>2 DEF LeaveTarget, ReplayInv, HandoffTypeOK, ReplaySteps
<1>5. ASSUME NEW m \in Loops PROVE ReplayOK(m)'
  BY DEF LeaveTarget, ReplayInv, ReplayOK, HandoffTypeOK, LoopNode
<1> QED
  BY <1>3, <1>4, <1>5 DEF ReplayInv

LEMMA ReplayPeekStep ==
  ASSUME StoreInvariant, ReplayInv, NEW l \in Loops, NEW t \in Nodes,
         ReplayPeek(l, t), UNCHANGED loop
  PROVE  ReplayInv' /\ ReplicaKept
<1> DEFINE peeked == hints[LoopNode(l)][t]
<1>1. ReplicaKept
  BY ReplicaUnchanged DEF StoreInvariant, ReplayPeek
<1>2. hstep[l] = "next" /\ t \in htargets[l] /\ UNCHANGED hlate
  BY DEF ReplayPeek
<1>3. peeked \in Seq(SoundHint)
  BY LoopAssumption DEF StoreInvariant, HintsSound, LoopNode
<1>4. CASE peeked = <<>>
  <2>1. LeaveTarget(l, t) /\ hlate' \in SUBSET SoundMessage
    BY <1>2, <1>4 DEF ReplayPeek, ReplayInv, ReplaySound
  <2> QED
    BY <1>1, <1>2, <2>1, LeaveTargetStep DEF ReplicaKept
<1>5. CASE peeked # <<>>
  <2>1. /\ hstep' = [hstep EXCEPT ![l] = "deliver"]
        /\ htarget' = [htarget EXCEPT ![l] = t]
        /\ hqueue' = [hqueue EXCEPT ![l] = peeked]
        /\ UNCHANGED htargets
    BY <1>5 DEF ReplayPeek
  <2> HIDE DEF peeked
  <2>2. ReplaySound'
    BY <1>2, <1>3, <2>1 DEF ReplayInv, ReplaySound
  <2>3. HandoffTypeOK'
    BY <1>2, <1>3, <2>1, HintQueues DEF ReplayInv, HandoffTypeOK, ReplaySteps
  <2>4. ASSUME NEW m \in Loops PROVE ReplayOK(m)'
    BY <1>1, <1>2, <1>5, <2>1
       DEF ReplayInv, ReplayOK, HandoffTypeOK, LoopNode, ReplicaKept
  <2> QED
    BY <1>1, <2>2, <2>3, <2>4 DEF ReplayInv
<1> QED
  BY <1>4, <1>5

\* The hint a replay is about to deliver.
LEMMA NextHint ==
  ASSUME ReplayInv, NEW l \in Loops, hstep[l] = "deliver"
  PROVE  /\ htarget[l] \in Nodes
         /\ Head(hqueue[l]) \in SoundHint /\ Tail(hqueue[l]) \in Seq(SoundHint)
         /\ Head(hqueue[l]).key \in Keys /\ Head(hqueue[l]).value \in SoundValue
<1>1. /\ htarget[l] \in htargets[l] /\ htargets[l] \subseteq Nodes
      /\ hqueue[l] \in Seq(SoundHint) /\ hqueue[l] # <<>>
  BY DEF ReplayInv, ReplayOK, HandoffTypeOK, ReplaySound
<1>2. Head(hqueue[l]) \in SoundHint /\ Tail(hqueue[l]) \in Seq(SoundHint)
  BY <1>1
<1> QED
  BY <1>1, <1>2 DEF SoundHint

LEMMA HintDeliverStep ==
  ASSUME StoreInvariant, ReplayInv, NEW l \in Loops, HintDeliver(l), UNCHANGED loop
  PROVE  ReplayInv' /\ ReplicaKept
<1> DEFINE rest == Tail(hqueue[l])
<1>1. hstep[l] = "deliver"
  BY DEF HintDeliver
<1>2. ReplicaKept
  BY <1>1, NextHint, RepairApplies DEF HintDeliver, StoreInvariant, ReplicaKept
<1>3. rest \in Seq(SoundHint)
  BY <1>1, NextHint
<1>4. /\ hqueue' = [hqueue EXCEPT ![l] = rest]
      /\ hstep' = [hstep EXCEPT ![l] = IF rest = <<>> THEN "take" ELSE "deliver"]
      /\ UNCHANGED <<htargets, htarget, hlate>>
  BY DEF HintDeliver
<1> HIDE DEF rest
<1>5. ReplaySound'
  BY <1>3, <1>4 DEF ReplayInv, ReplaySound
<1>6. HandoffTypeOK'
  BY <1>3, <1>4, HintQueues DEF ReplayInv, HandoffTypeOK, ReplaySteps
<1>7. ASSUME NEW m \in Loops PROVE ReplayOK(m)'
  BY <1>1, <1>2, <1>4 DEF ReplayInv, ReplayOK, HandoffTypeOK, LoopNode, ReplicaKept
<1> QED
  BY <1>2, <1>5, <1>6, <1>7 DEF ReplayInv

\* The calls that leave a target, and the late arrival.
LEMMA HintFails ==
  ASSUME StoreInvariant, ReplayInv, NEW l \in Loops, UNCHANGED loop,
         HintError(l) \/ HintLogError(l) \/ HintUnreachable(l)
  PROVE  ReplayInv' /\ ReplicaKept
<1> DEFINE hint == Head(hqueue[l])
           msg == [to |-> htarget[l], key |-> hint.key, value |-> hint.value]
<1>1. /\ hstep[l] = "deliver" /\ LeaveTarget(l, htarget[l])
      /\ hlate' = hlate \/ hlate' = hlate \cup {msg}
      /\ UNCHANGED replicaVars \/ ApplyLogError(htarget[l], hint.key, hint.value)
  BY ZenonT(30) DEF HintError, HintLogError, HintUnreachable
<1>2. ReplicaKept
  BY SMTT(30), Zenon, <1>1, NextHint, RepairApplies, ReplicaUnchanged
     DEF StoreInvariant, ReplicaKept
<1>3. msg \in SoundMessage
  BY ZenonT(30), <1>1, NextHint DEF SoundMessage
<1> HIDE DEF msg
<1>4. hlate' \in SUBSET SoundMessage
  BY <1>1, <1>3 DEF ReplayInv, ReplaySound
<1> QED
  BY SMTT(30), Zenon, <1>1, <1>2, <1>4, LeaveTargetStep DEF ReplicaKept

LEMMA HintLateStep ==
  ASSUME StoreInvariant, ReplayInv, NEW m \in hlate, HintLate(m), UNCHANGED loop
  PROVE  ReplayInv' /\ ReplicaKept
<1>1. m.to \in Nodes /\ m.key \in Keys /\ m.value \in SoundValue
  BY DEF ReplayInv, ReplaySound, SoundMessage
<1>2. ReplicaKept
  BY <1>1, RepairApplies DEF StoreInvariant, HintLate, ReplicaKept
<1> QED
  BY <1>2
     DEF HintLate, ReplayInv, HandoffTypeOK, ReplaySound, ReplayOK, LoopNode, ReplicaKept

LEMMA ReplayTakeStep ==
  ASSUME StoreInvariant, ReplayInv, NEW l \in Loops, ReplayTake(l), UNCHANGED loop
  PROVE  ReplayInv' /\ ReplicaKept /\ HintsSound'
<1>1. /\ hstep[l] = "take" /\ Take(LoopNode(l), htarget[l])
      /\ LeaveTarget(l, htarget[l]) /\ UNCHANGED hlate /\ UNCHANGED replicaVars
  BY ZenonT(30) DEF ReplayTake
<1>2. ReplicaKept
  BY <1>1, ReplicaUnchanged DEF StoreInvariant
<1>3. ReplayInv'
  BY <1>1, <1>2, LeaveTargetStep DEF ReplayInv, ReplaySound, ReplicaKept
<1>4. HintsSound'
  <2>1. <<>> \in Seq(SoundHint)
    OBVIOUS
  <2> QED
    BY ZenonT(30), <1>1, <2>1 DEF Take, StoreInvariant, HintsSound
<1> QED
  BY SMTT(30), Zenon, <1>2, <1>3, <1>4

\* Every step of a replay, faults included.
LEMMA ReplayKept ==
  ASSUME StoreInvariant, ReplayInv, UNCHANGED loop,
         \/ \E l \in Loops : HandoffStep(l)
         \/ HandoffFault
         \/ \E m \in hlate : HintLate(m)
  PROVE  /\ ReplayInv' /\ ReplicaKept /\ HintsSound'
         /\ UNCHANGED <<wstate, wop, net, pend, acked, tagCounter>>
<1> DEFINE Writes == UNCHANGED <<wstate, wop, net, pend, acked, tagCounter>>
<1>1. ASSUME UNCHANGED writeVars PROVE Writes /\ HintsSound'
  BY <1>1 DEF writeVars, StoreInvariant, HintsSound
<1>2. ASSUME NEW l \in Loops, ReplayTake(l) PROVE Writes
  BY <1>2 DEF ReplayTake
<1>3. ASSUME NEW l \in Loops,
             \/ \E t \in Nodes : ReplayPeek(l, t)
             \/ HintDeliver(l) \/ HintUnreachable(l) \/ HintError(l) \/ HintLogError(l)
      PROVE  UNCHANGED writeVars
  BY ZenonT(30), <1>3
     DEF ReplayPeek, HintDeliver, HintUnreachable, HintError, HintLogError
<1>4. CASE \E l \in Loops : HandoffStep(l)
  BY <1>1, <1>2, <1>3, <1>4, ReplayPeekStep, HintDeliverStep, HintFails, ReplayTakeStep
     DEF HandoffStep
<1>5. CASE HandoffFault
  BY <1>1, <1>3, <1>5, HintFails DEF HandoffFault
<1>6. CASE \E m \in hlate : HintLate(m)
  <2>1. UNCHANGED writeVars
    BY <1>6 DEF HintLate
  <2> QED
    BY <1>1, <1>6, <2>1, HintLateStep
<1> QED
  BY <1>4, <1>5, <1>6

----------------------------------------------------------------------------
(* The whole store. *)

LEMMA StoreParts ==
  StoreInvariant <=>
    /\ QuorumInvariant /\ RoundInv /\ ReplayInv /\ HintsSound
    /\ loop \in [Loops -> {"round", "replay"}]
BY DEF StoreInvariant, RepairInvariant, StoreTypeOK, QuorumInvariant, RoundInv, ReplayInv

\* A round or a replay that rests is not disturbed by the other, nor by a
\* process that starts.
LEMMA RoundStable ==
  ASSUME RoundInv, UNCHANGED antiVars, \A n \in Nodes : up[n] => up'[n],
         \A l \in Loops : loop'[l] = loop[l] \/ astep[l] = "off"
  PROVE  RoundInv'
<1>1. UNCHANGED <<astep, apeers, adigest, aplan, amerged, aclean, alate>>
  BY DEF antiVars
<1>2. \A l \in Loops : LoopNode(l) \in Nodes
  BY LoopAssumption DEF LoopNode
<1>3. AntiTypeOK' /\ RoundSound'
  BY SMTT(30), Zenon, <1>1 DEF RoundInv, AntiTypeOK, RoundSound
<1>4. ASSUME NEW l \in Loops PROVE RoundOK(l)'
  BY ZenonT(30), <1>1, <1>2 DEF RoundInv, RoundOK, LoopNode
<1> QED
  BY <1>3, <1>4 DEF RoundInv

LEMMA ReplayStable ==
  ASSUME ReplayInv, UNCHANGED handoffVars, \A n \in Nodes : up[n] => up'[n],
         \A l \in Loops : loop'[l] = loop[l] \/ hstep[l] = "off"
  PROVE  ReplayInv'
<1>1. UNCHANGED <<hstep, htargets, htarget, hqueue, hlate>>
  BY ZenonT(30) DEF handoffVars
<1>2. \A l \in Loops : LoopNode(l) \in Nodes
  BY LoopAssumption DEF LoopNode
<1>3. HandoffTypeOK' /\ ReplaySound'
  BY <1>1 DEF ReplayInv, HandoffTypeOK, ReplaySound
<1>4. ASSUME NEW l \in Loops PROVE ReplayOK(l)'
  BY <1>1, <1>2 DEF ReplayInv, ReplayOK, LoopNode
<1> QED
  BY SMTT(30), Zenon, <1>3, <1>4 DEF ReplayInv

\* A crash ends the rounds and the replays of its node.
LEMMA CrashEnds ==
  ASSUME StoreInvariant, NEW n \in Nodes, CrashWithLoops(n)
  PROVE  /\ RoundInv' /\ ReplayInv' /\ HintsSound'
         /\ loop' \in [Loops -> {"round", "replay"}]
<1>1. /\ RoundInv /\ ReplayInv /\ HintsSound /\ up \in [Nodes -> BOOLEAN]
      /\ loop \in [Loops -> {"round", "replay"}]
  BY StoreParts DEF QuorumInvariant, TypeOK, ReplicaTypeOK
<1>2. /\ AntiCrash(n) /\ HandoffCrash(n)
      /\ up' = [up EXCEPT ![n] = FALSE]
      /\ hints' = [hints EXCEPT ![n] = [t \in Nodes |-> <<>>]]
      /\ loop' = [l \in Loops |-> IF LoopNode(l) = n THEN "replay" ELSE loop[l]]
  BY DEF CrashWithLoops, Crash, ReplicaCrash, WriteCrash
<1>3. HintsSound'
  <2>1. [t \in Nodes |-> <<>>] \in [Nodes -> Seq(SoundHint)]
    OBVIOUS
  <2> QED
    BY <1>1, <1>2, <2>1 DEF HintsSound
<1>4. /\ EmptyDigest \in SoundDigest /\ EmptyPlan \in SoundPlan
      /\ EmptyDigest \in Digest /\ EmptyPlan \in Plan
      /\ <<>> \in Seq(SoundHint) /\ <<>> \in Seq(Hint)
      /\ \A l \in Loops : LoopNode(l) \in Nodes /\ LoopNode(l)' = LoopNode(l)
  BY SoundFacts, NoValueType, LoopAssumption
     DEF LoopNode, EmptyDigest, EmptyPlan, Digest, Plan
<1>5. RoundInv'
  <2>1. AntiTypeOK'
    BY ZenonT(30), <1>1, <1>2, <1>4 DEF AntiCrash, RoundInv, AntiTypeOK, RoundSteps
  <2>2. RoundSound'
    BY ZenonT(30), <1>1, <1>2, <1>4 DEF AntiCrash, RoundInv, RoundSound
  <2>3. ASSUME NEW l \in Loops PROVE RoundOK(l)'
    BY <1>1, <1>2, <1>4 DEF AntiCrash, RoundInv, RoundOK
  <2> QED
    BY <2>1, <2>2, <2>3 DEF RoundInv
<1>6. ReplayInv'
  <2>1. HandoffTypeOK'
    BY SMTT(30), Zenon, <1>1, <1>2, <1>4
       DEF HandoffCrash, ReplayInv, HandoffTypeOK, ReplaySteps
  <2>2. ReplaySound'
    BY SMTT(30), Zenon, <1>1, <1>2, <1>4 DEF HandoffCrash, ReplayInv, ReplaySound
  <2>3. ASSUME NEW l \in Loops PROVE ReplayOK(l)'
    BY <1>1, <1>2, <1>4 DEF HandoffCrash, ReplayInv, ReplayOK
  <2> QED
    BY <2>1, <2>2, <2>3 DEF ReplayInv
<1> QED
  BY <1>1, <1>2, <1>3, <1>5, <1>6

=============================================================================
