---------------------------- MODULE AntiEntropy ----------------------------
(***************************************************************************)
(* A round of anti-entropy, Node.AntiEntropyRound (internal/node/          *)
(* coordinator.go) with Scan (internal/repair/anti_entropy.go): for every  *)
(* peer in the order of the ids, fetch its digest, compare it with a local *)
(* snapshot, apply what the peer had and push what it lacked.  The digest  *)
(* is as old as the peer's answer and the plan as old as the snapshot; the *)
(* replicas move on while the plan is carried out.                         *)
(*                                                                         *)
(* A round runs in the maintenance loop of a node or in the handler of     *)
(* /debug/anti-entropy, so a node may run several at a time: a round is    *)
(* indexed by the loop l that runs it, at node LoopNode(l).                *)
(***************************************************************************)
EXTENDS Replica

CONSTANTS Loops,     \* identities of the maintenance loops
          LoopNodes  \* LoopNodes[l]: the node loop l runs at

ASSUME LoopAssumption == LoopNodes \in [Loops -> Nodes]

LoopNode(l) == LoopNodes[l]

VARIABLES astep,    \* where the round of each loop is
          apeers,   \* apeers[l]: members the round has not finished with
          adigest,  \* adigest[l]: the digest of the current peer
          aplan,    \* aplan[l]: what is left of the plan for that peer
          amerged,  \* amerged[l]: not in the code: the merge of what Scan compared
          aclean,   \* aclean[l]: not in the code: no step of the plan has failed
          alate     \* pushes whose call has failed and which may still arrive

antiVars == <<astep, apeers, adigest, aplan, amerged, aclean, alate>>

\* "off": no round; "ask": the digest is not yet taken; "served": it is on
\* its way back; "apply": the plan is being carried out.
RoundSteps == {"off", "ask", "served", "apply"}

\* A map from keys to values; a key it lacks has NoValue.
Digest == [Keys -> Value]

EmptyDigest == [k \in Keys |-> NoValue]

Plan == [push : Digest, pull : Digest]

EmptyPlan == [push |-> EmptyDigest, pull |-> EmptyDigest]

Message == [to : Nodes, key : Keys, value : Value]

AntiTypeOK ==
  /\ astep \in [Loops -> RoundSteps]
  /\ apeers \in [Loops -> SUBSET Nodes]
  /\ adigest \in [Loops -> Digest]
  /\ aplan \in [Loops -> Plan]
  /\ amerged \in [Loops -> Digest]
  /\ aclean \in [Loops -> BOOLEAN]
  /\ alate \in SUBSET Message

AntiInit ==
  /\ astep = [l \in Loops |-> "off"]
  /\ apeers = [l \in Loops |-> {}]
  /\ adigest = [l \in Loops |-> EmptyDigest]
  /\ aplan = [l \in Loops |-> EmptyPlan]
  /\ amerged = [l \in Loops |-> EmptyDigest]
  /\ aclean = [l \in Loops |-> TRUE]
  /\ alate = {}

----------------------------------------------------------------------------

\* The merge of the values of a key on the two sides, either of which may
\* lack it.
ScanMerge(lv, rv) ==
  IF ~ Found(lv) THEN rv
  ELSE IF ~ Found(rv) THEN lv
  ELSE Resolve(lv, rv)

\* A scan that compares the keys both sides have.
ScanShared(local, remote) ==
  LET differs(k, v) == /\ Found(local[k]) /\ Found(remote[k])
                       /\ ScanMerge(local[k], remote[k]) # v
      side(values)  == [k \in Keys |->
                          IF differs(k, values[k])
                          THEN ScanMerge(local[k], remote[k]) ELSE NoValue]
  IN  [push |-> side(remote), pull |-> side(local)]

\* A scan that only fetches.
ScanPullOnly(local, remote) ==
  [push |-> EmptyDigest,
   pull |-> [k \in Keys |->
               IF ScanMerge(local[k], remote[k]) # local[k]
               THEN ScanMerge(local[k], remote[k]) ELSE NoValue]]

\* Each side is to get the merge of every key where it has something else.
Scan(local, remote) ==
  LET side(values) ==
        [k \in Keys |-> IF ScanMerge(local[k], remote[k]) # values[k]
                        THEN ScanMerge(local[k], remote[k]) ELSE NoValue]
  IN  [push |-> side(remote), pull |-> side(local)]

\* Members.Others is in the order of the ids.
RoundPeer(l) == CHOOSE p \in apeers[l] : \A q \in apeers[l] : p <= q

RoundStart(l) ==
  LET others == Nodes \ {LoopNode(l)}
  IN  /\ astep[l] = "off"
      /\ up[LoopNode(l)]
      /\ apeers' = [apeers EXCEPT ![l] = others]
      /\ astep' = [astep EXCEPT ![l] = IF others = {} THEN "off" ELSE "ask"]
      /\ UNCHANGED <<adigest, aplan, amerged, aclean, alate>>
      /\ UNCHANGED replicaVars

\* The peer answers GetDigest with a snapshot of its map (ServeDigest).
DigestServe(l) ==
  /\ astep[l] = "ask"
  /\ up[RoundPeer(l)]
  /\ astep' = [astep EXCEPT ![l] = "served"]
  /\ adigest' = [adigest EXCEPT ![l] = kv[RoundPeer(l)]]
  /\ UNCHANGED <<apeers, aplan, amerged, aclean, alate>>
  /\ UNCHANGED replicaVars

\* The digest arrives and is compared with a snapshot of the local map.
RoundScan(l) ==
  LET local == kv[LoopNode(l)]
  IN  /\ astep[l] = "served"
      /\ astep' = [astep EXCEPT ![l] = "apply"]
      /\ aplan' = [aplan EXCEPT ![l] = Scan(local, adigest[l])]
      /\ amerged' = [amerged EXCEPT ![l] =
           [k \in Keys |-> ScanMerge(local[k], adigest[l][k])]]
      /\ adigest' = [adigest EXCEPT ![l] = EmptyDigest]
      /\ UNCHANGED <<apeers, aclean, alate>>
      /\ UNCHANGED replicaVars

\* The round goes on to the next peer, or ends.
NextPeer(l) ==
  /\ apeers' = [apeers EXCEPT ![l] = @ \ {RoundPeer(l)}]
  /\ astep' = [astep EXCEPT ![l] =
                 IF apeers[l] = {RoundPeer(l)} THEN "off" ELSE "ask"]
  /\ adigest' = [adigest EXCEPT ![l] = EmptyDigest]
  /\ aplan' = [aplan EXCEPT ![l] = EmptyPlan]
  /\ amerged' = [amerged EXCEPT ![l] = EmptyDigest]
  /\ aclean' = [aclean EXCEPT ![l] = TRUE]

\* GetDigest fails: the peer is skipped.
DigestError(l) ==
  /\ astep[l] \in {"ask", "served"}
  /\ NextPeer(l)
  /\ UNCHANGED alate
  /\ UNCHANGED replicaVars

\* The iteration over plan.Pull takes key k.
PullKey(l, k) ==
  /\ astep[l] = "apply"
  /\ Found(aplan[l].pull[k])
  /\ aplan' = [aplan EXCEPT ![l].pull[k] = NoValue]
  /\ UNCHANGED <<astep, apeers, adigest, amerged, alate>>

PullApply(l, k) ==
  /\ PullKey(l, k)
  /\ Apply(LoopNode(l), k, aplan[l].pull[k])
  /\ UNCHANGED aclean

\* The local log refuses the value; the error is dropped.
PullLogError(l, k) ==
  /\ PullKey(l, k)
  /\ ApplyLogError(LoopNode(l), k, aplan[l].pull[k])
  /\ aclean' = [aclean EXCEPT ![l] = FALSE]

\* The iteration over plan.Push, which follows the pulls, takes key k.
PushKey(l, k) ==
  /\ astep[l] = "apply"
  /\ aplan[l].pull = EmptyDigest
  /\ Found(aplan[l].push[k])
  /\ aplan' = [aplan EXCEPT ![l].push[k] = NoValue]
  /\ UNCHANGED <<astep, apeers, adigest, amerged>>

PushApply(l, k) ==
  /\ PushKey(l, k)
  /\ Apply(RoundPeer(l), k, aplan[l].push[k])
  /\ UNCHANGED <<aclean, alate>>

PushLogError(l, k) ==
  /\ PushKey(l, k)
  /\ ApplyLogError(RoundPeer(l), k, aplan[l].push[k])
  /\ aclean' = [aclean EXCEPT ![l] = FALSE]
  /\ UNCHANGED alate

\* The push fails, and may still arrive.
PushError(l, k) ==
  /\ PushKey(l, k)
  /\ aclean' = [aclean EXCEPT ![l] = FALSE]
  /\ alate' = alate \cup
       {[to |-> RoundPeer(l), key |-> k, value |-> aplan[l].push[k]]}
  /\ UNCHANGED replicaVars

PushLate(m) ==
  /\ m \in alate
  /\ Apply(m.to, m.key, m.value)
  /\ alate' = alate \ {m}
  /\ UNCHANGED <<astep, apeers, adigest, aplan, amerged, aclean>>

\* The peer is down: the call fails and nothing arrives.
PushUnreachable(l, k) ==
  /\ PushKey(l, k)
  /\ ~ up[RoundPeer(l)]
  /\ aclean' = [aclean EXCEPT ![l] = FALSE]
  /\ UNCHANGED alate
  /\ UNCHANGED replicaVars

ExchangeDone(l) ==
  /\ astep[l] = "apply"
  /\ aplan[l] = EmptyPlan
  /\ NextPeer(l)
  /\ UNCHANGED alate
  /\ UNCHANGED replicaVars

\* The rounds of node n die with it.  A push that is under way at that moment
\* has been applied or never will be; only those that timed out before, in
\* alate, may still arrive.
AntiCrash(n) ==
  LET dies(l) == LoopNode(l) = n
  IN  /\ astep' = [l \in Loops |-> IF dies(l) THEN "off" ELSE astep[l]]
      /\ apeers' = [l \in Loops |-> IF dies(l) THEN {} ELSE apeers[l]]
      /\ adigest' = [l \in Loops |->
                       IF dies(l) THEN EmptyDigest ELSE adigest[l]]
      /\ aplan' = [l \in Loops |-> IF dies(l) THEN EmptyPlan ELSE aplan[l]]
      /\ amerged' = [l \in Loops |->
                       IF dies(l) THEN EmptyDigest ELSE amerged[l]]
      /\ aclean' = [l \in Loops |-> IF dies(l) THEN TRUE ELSE aclean[l]]
      /\ UNCHANGED alate

\* A step of the round of loop l that is not a fault.
AntiStep(l) ==
  \/ DigestServe(l)
  \/ RoundScan(l)
  \/ astep[l] = "ask" /\ ~ up[RoundPeer(l)] /\ DigestError(l)
  \/ \E k \in Keys : PullApply(l, k) \/ PushApply(l, k) \/ PushUnreachable(l, k)
  \/ ExchangeDone(l)

AntiFault ==
  \E l \in Loops :
    \/ DigestError(l)
    \/ \E k \in Keys : PullLogError(l, k) \/ PushLogError(l, k) \/ PushError(l, k)

----------------------------------------------------------------------------

\* A replica that stores v has merged the value base.
Absorbed(v, base) == mergeIncoming(v, base) = v

\* An exchange that ran without an error leaves both sides with everything
\* Scan had compared, whatever was written at either side, and whichever of
\* them crashed and restarted, since the digest and the snapshot were taken.
ExchangeSyncs ==
  \A l \in Loops :
    astep[l] = "apply" /\ aplan[l] = EmptyPlan /\ aclean[l] =>
      \A k \in Keys : Found(amerged[l][k]) =>
        /\ Absorbed(kv[LoopNode(l)][k], amerged[l][k])
        /\ Absorbed(kv[RoundPeer(l)][k], amerged[l][k])

============================================================================
