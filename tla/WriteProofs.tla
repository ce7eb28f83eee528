---------------------------- MODULE WriteProofs -----------------------------
(***************************************************************************)
(* Every step of the write path preserves the invariant of QuorumInv.      *)
(***************************************************************************)
EXTENDS ReplicaProofs

\* A write that was answered OK never changes again.
Frozen ==
  \A w \in WriteIds : wstate[w] = "ok" =>
    wstate'[w] = "ok" /\ acked'[w] = acked[w] /\ wop'[w] = wop[w]

\* A write stays in order while its payload is fixed, its goroutines go
\* about their work and the replicas only move forward.
LEMMA WriteProgress ==
  ASSUME NEW w \in WriteIds, WriteOK(w), Frozen, Monotone,
         ReplicaTypeOK, ReplicaTypeOK', WriteTypeOK,
         wop'[w] = wop[w], net'[w] \subseteq net[w], pend'[w] \subseteq pend[w],
         acked'[w] \subseteq acked[w] \cup pend[w],
         \A p \in Holders(w)' \ Holders(w) :
           AtLeast(kv'[p][WKey(w)].version, wop[w].ver),
         \/ wstate'[w] = wstate[w]
         \/ wstate[w] = "ticked" /\ wstate'[w] = "dead"
         \/ wstate[w] = "waiting" /\ wstate'[w] \in {"ok", "failed", "dead"},
         wstate'[w] = "ok" => Cardinality(acked'[w]) >= WQuorum(w)
  PROVE  WriteOK(w)'
<1>1. /\ Stored(wop[w].val)'
      /\ (wstate[w] # "idle" => wop[w].ver.lamport >= 1)'
      /\ (Sent(w) => /\ wstate[w] \notin {"idle", "ticked"}
                     /\ AtLeast(wop[w].val.version, wop[w].ver))'
  BY DEF WriteOK, Sent
<1>2. (~ Sent(w) => /\ wstate[w] \in {"idle", "ticked", "dead"}
                    /\ net[w] = {} /\ pend[w] = {} /\ acked[w] = {})'
  BY DEF WriteOK, Sent, Holders
<1>3. (\A p \in Holders(w) : AtLeast(kv[p][WKey(w)].version, wop[w].ver))'
  <2>1. SUFFICES ASSUME NEW p \in Holders(w)'
                 PROVE  AtLeast(kv'[p][WKey(w)].version, wop[w].ver)
    BY DEF WKey
  <2>2. SUFFICES ASSUME p \in Holders(w)
                 PROVE  AtLeast(kv'[p][WKey(w)].version, wop[w].ver)
    BY <2>1
  <2>3. /\ p \in Nodes /\ WKey(w) \in Keys /\ wop[w].ver \in Version
        /\ AtLeast(kv[p][WKey(w)].version, wop[w].ver)
    BY <2>2, WriteAssumption
       DEF Holders, WriteTypeOK, WriteOp, WKey, WriteReq, WriteOK
  <2>4. AtLeast(kv'[p][WKey(w)].version, kv[p][WKey(w)].version)
    BY <2>3 DEF Monotone
  <2>5. kv[p][WKey(w)].version \in Version /\ kv'[p][WKey(w)].version \in Version
    BY <2>3 DEF ReplicaTypeOK, Value
  <2> QED
    BY <2>3, <2>4, <2>5, AtLeastTransitive
<1>4. (wstate[w] = "ok" => Cardinality(acked[w]) >= WQuorum(w))'
  BY DEF WQuorum
<1>5. (\A x \in wop[w].after :
         /\ wstate[x] = "ok"
         /\ WNode(w) \in acked[x] => Less(wop[x].ver, wop[w].ver))'
  <2>1. wop[w].after \subseteq WriteIds
    BY DEF WriteTypeOK, WriteOp
  <2> QED
    BY <2>1 DEF WriteOK, Frozen, WNode
<1> QED
  BY <1>1, <1>2, <1>3, <1>4, <1>5 DEF WriteOK

\* The writes a step does not touch.
LEMMA WriteUntouched ==
  ASSUME NEW w \in WriteIds, WriteOK(w), Frozen, Monotone,
         ReplicaTypeOK, ReplicaTypeOK', WriteTypeOK,
         wop'[w] = wop[w], wstate'[w] = wstate[w], net'[w] = net[w],
         pend'[w] = pend[w], acked'[w] = acked[w]
  PROVE  WriteOK(w)'
<1>1. Holders(w)' = Holders(w)
  BY DEF Holders
<1>2. wstate'[w] = "ok" => Cardinality(acked'[w]) >= WQuorum(w)
  BY DEF WriteOK
<1> QED
  BY <1>1, <1>2, WriteProgress

LEMMA RequestTypes ==
  /\ \A w \in WriteIds : /\ WriteReqs[w] \in WriteReq
                         /\ WNode(w) \in Nodes /\ WKey(w) \in Keys
                         /\ WQuorum(w) \in Int
  /\ \A r \in ReadIds : RNode(r) \in Nodes /\ RKey(r) \in Keys /\ RQuorum(r) \in Int
  /\ Nodes \subseteq Nat
BY WriteAssumption, ReadAssumption, NodesAssumption
   DEF WNode, WKey, WQuorum, RNode, RKey, RQuorum, WriteReq, ReadReq

LEMMA WriteTickStep ==
  ASSUME QuorumInvariant, NEW w \in WriteIds, WriteTick(w)
  PROVE  /\ ReplicaTypeOK' /\ ReplicaInv' /\ Monotone
         /\ WriteTypeOK' /\ WriteInv' /\ Frozen
<1> DEFINE n == WNode(w)
           ver == [lamport |-> clock[n] + 1, node |-> n]
           done == {x \in WriteIds : wstate[x] = "ok"}
<1>1. /\ ReplicaTypeOK /\ ReplicaInv /\ WriteTypeOK /\ WriteInv
      /\ n \in Nodes /\ n \in Nat
  BY Zenon, RequestTypes DEF QuorumInvariant, TypeOK
<1>2. ReplicaTypeOK' /\ ReplicaInv' /\ Monotone
  BY <1>1, OtherReplicaSteps DEF WriteTick
<1>3. /\ wstate[w] = "idle"
      /\ wstate' = [wstate EXCEPT ![w] = "ticked"]
      /\ wop' = [wop EXCEPT ![w].ver = ver, ![w].after = done]
      /\ UNCHANGED <<net, pend, acked, hints, tagCounter>>
  BY DEF WriteTick, Tick
<1>4. /\ ver \in Version /\ ver.lamport = clock[n] + 1 /\ clock[n] \in Nat
      /\ ver.lamport >= 1 /\ done \in SUBSET WriteIds
  BY <1>1 DEF Version, ReplicaTypeOK
<1>5. /\ wstate \in [WriteIds -> WriteStates] /\ wop \in [WriteIds -> WriteOp]
  BY <1>1 DEF WriteTypeOK
<1> HIDE DEF ver, done, n
<1>6. /\ wop' \in [WriteIds -> WriteOp]
      /\ wop'[w].ver = ver /\ wop'[w].after = done /\ wop'[w].val = wop[w].val
      /\ \A x \in WriteIds \ {w} : wop'[x] = wop[x]
  <2> DEFINE o == [wop[w] EXCEPT !.ver = ver]
             q == [o EXCEPT !.after = done]
  <2>1. wop[w] \in WriteOp
    BY <1>5
  <2>2. o \in WriteOp /\ o.ver = ver /\ o.val = wop[w].val
    BY <1>4, <2>1 DEF WriteOp
  <2>3. wop' = [wop EXCEPT ![w] = q]
    BY Zenon, <1>3, <1>5
  <2> HIDE DEF o
  <2>4. q \in WriteOp /\ q.ver = ver /\ q.after = done /\ q.val = wop[w].val
    BY <1>4, <2>2 DEF WriteOp
  <2> HIDE DEF q
  <2> QED
    BY <1>5, <2>3, <2>4
<1>7. WriteTypeOK'
  BY <1>1, <1>3, <1>5, <1>6 DEF WriteTypeOK, WriteStates
<1>8. Frozen
  BY <1>3, <1>5, <1>6 DEF Frozen
<1>9. ~ Sent(w) /\ net[w] = {} /\ pend[w] = {} /\ acked[w] = {}
  BY <1>1, <1>3 DEF WriteInv, WriteOK
<1>10. ASSUME NEW x \in done
       PROVE  /\ wstate'[x] = "ok"
              /\ WNode(w) \in acked'[x] => Less(wop'[x].ver, ver)
  <2>1. x \in WriteIds /\ wstate[x] = "ok" /\ x # w /\ WriteOK(x) /\ WKey(x) \in Keys
    BY <1>1, <1>3, <1>10, RequestTypes DEF done, WriteInv
  <2>2. wstate'[x] = "ok" /\ acked'[x] = acked[x] /\ wop'[x] = wop[x]
    BY <2>1, <1>8 DEF Frozen
  <2>3. ASSUME n \in acked[x]
        PROVE  Less(wop[x].ver, ver)
    <3>1. AtLeast(kv[n][WKey(x)].version, wop[x].ver)
      BY <2>1, <2>3 DEF WriteOK, Holders
    <3>2. kv[n][WKey(x)].version \in Version /\ wop[x].ver \in Version
      BY <1>1, <1>5, <2>1 DEF ReplicaTypeOK, Value, WriteOp
    <3>3. kv[n][WKey(x)].version.lamport >= wop[x].ver.lamport
      BY <3>1, <3>2, AtLeastFacts
    <3>4. /\ AtLeast(disk[n][WKey(x)].version, kv[n][WKey(x)].version)
          /\ logged[n] >= disk[n][WKey(x)].version.lamport /\ clock[n] >= logged[n]
      BY <1>1, <2>1 DEF ReplicaInv
    <3>5. logged[n] \in Nat /\ disk[n][WKey(x)].version \in Version
      BY <1>1, <2>1 DEF ReplicaTypeOK, Value
    <3>6. /\ wop[x].ver.lamport \in Nat /\ kv[n][WKey(x)].version.lamport \in Nat
          /\ disk[n][WKey(x)].version.lamport \in Nat
      BY <3>2, <3>5 DEF Version
    <3>7. disk[n][WKey(x)].version.lamport >= kv[n][WKey(x)].version.lamport
      BY <3>2, <3>4, <3>5, AtLeastFacts
    <3>8. wop[x].ver.lamport < ver.lamport
      BY <3>3, <3>4, <3>5, <3>6, <3>7, <1>4
    <3> QED
      BY <3>8 DEF Less
  <2> QED
    BY <2>2, <2>3 DEF n
<1>11. WriteOK(w)'
  <2>1. Stored(wop[w].val)
    BY <1>1 DEF WriteInv, WriteOK
  <2>2. wstate'[w] = "ticked"
    BY <1>3, <1>5
  <2>3. WNode(w)' = WNode(w) /\ Holders(w)' = {} /\ ~ Sent(w)'
    BY <1>3, <1>6, <1>9 DEF WNode, Holders, Sent
  <2> QED
    BY <1>3, <1>4, <1>6, <1>9, <1>10, <2>1, <2>2, <2>3 DEF WriteOK
<1>12. ASSUME NEW x \in WriteIds \ {w}
       PROVE  WriteOK(x)'
  BY <1>1, <1>2, <1>3, <1>5, <1>6, <1>8, WriteUntouched DEF WriteInv
<1> QED
  BY <1>2, <1>7, <1>8, <1>11, <1>12 DEF WriteInv

LEMMA WritePrepareStep ==
  ASSUME QuorumInvariant, NEW w \in WriteIds, WritePrepare(w)
  PROVE  /\ ReplicaTypeOK' /\ ReplicaInv' /\ Monotone
         /\ WriteTypeOK' /\ WriteInv' /\ Frozen
<1> DEFINE n == WNode(w)
           req == WriteReqs[w]
           tag == nextORSetTag(n)
           val == localPrepare(kv[n][req.key], req, wop[w].ver, tag)
<1>1. /\ ReplicaTypeOK /\ ReplicaInv /\ WriteTypeOK /\ WriteInv
      /\ n \in Nodes /\ n \in Nat /\ req \in WriteReq /\ req.key \in Keys
  BY Zenon, RequestTypes DEF QuorumInvariant, TypeOK, WriteReq
<1>2. UNCHANGED replicaVars
  BY DEF WritePrepare
<1>3. ReplicaTypeOK' /\ ReplicaInv' /\ Monotone
  BY <1>1, <1>2, OtherReplicaSteps
<1>4. /\ wstate[w] = "ticked"
      /\ wstate' = [wstate EXCEPT ![w] = "waiting"]
      /\ net' = [net EXCEPT ![w] = Nodes] /\ pend' = [pend EXCEPT ![w] = Nodes]
      /\ UNCHANGED <<acked, hints>>
      /\ \/ /\ wop' = [wop EXCEPT ![w].tag = tag, ![w].val = val]
            /\ tagCounter' = [tagCounter EXCEPT ![n] = @ + 1]
         \/ /\ wop' = [wop EXCEPT ![w].val = val]
            /\ UNCHANGED tagCounter
  BY DEF WritePrepare
<1>5. /\ wstate \in [WriteIds -> WriteStates] /\ wop \in [WriteIds -> WriteOp]
      /\ net \in [WriteIds -> SUBSET Nodes] /\ pend \in [WriteIds -> SUBSET Nodes]
      /\ tagCounter \in [Nodes -> Nat]
  BY <1>1 DEF WriteTypeOK
<1>6. tag \in Tags /\ tag \in Nat \X Nat
  BY <1>1, <1>5, NodesAssumption DEF nextORSetTag, Tags
<1>7. wop[w].ver \in Version /\ wop[w].ver.lamport >= 1
  BY <1>1, <1>4, <1>5 DEF WriteInv, WriteOK, WriteOp
<1>8. WellFormed(val) /\ AtLeast(val.version, wop[w].ver)
  BY <1>1, <1>6, <1>7, localPrepareFacts DEF ReplicaInv
<1>9. val \in Value /\ Stored(val) /\ Found(val)
  BY Zenon, <1>8, StoredFacts DEF Stored, WellFormed
<1> HIDE DEF n, req, tag, val
<1>10. /\ wop' \in [WriteIds -> WriteOp]
       /\ wop'[w].ver = wop[w].ver /\ wop'[w].after = wop[w].after
       /\ wop'[w].val = val
       /\ \A x \in WriteIds \ {w} : wop'[x] = wop[x]
  BY <1>4, <1>5, <1>6, <1>9 DEF WriteOp
<1>11. WriteTypeOK'
  BY <1>1, <1>4, <1>5, <1>10 DEF WriteTypeOK, WriteStates
<1>12. Frozen
  BY <1>4, <1>5, <1>10 DEF Frozen
<1>13. ~ Sent(w) /\ acked[w] = {}
  BY <1>1, <1>4 DEF WriteInv, WriteOK
<1>14. WriteOK(w)'
  <2>1. wstate'[w] = "waiting" /\ Holders(w)' = {} /\ Sent(w)'
    BY <1>4, <1>5, <1>9, <1>10, <1>13 DEF Holders, Sent
  <2>2. \A x \in wop[w].after :
          /\ x \in WriteIds /\ wstate[x] = "ok"
          /\ WNode(w) \in acked[x] => Less(wop[x].ver, wop[w].ver)
    BY <1>1, <1>5 DEF WriteInv, WriteOK, WriteOp
  <2>3. WNode(w)' = WNode(w)
    BY DEF WNode
  <2>4. \A x \in wop'[w].after :
          /\ wstate'[x] = "ok"
          /\ WNode(w)' \in acked'[x] => Less(wop'[x].ver, wop'[w].ver)
    BY <1>10, <1>12, <2>2, <2>3 DEF Frozen
  <2> QED
    BY <1>7, <1>8, <1>9, <1>10, <2>1, <2>4 DEF WriteOK
<1>15. ASSUME NEW x \in WriteIds \ {w}
       PROVE  WriteOK(x)'
  BY <1>1, <1>3, <1>4, <1>5, <1>10, <1>12, WriteUntouched DEF WriteInv
<1> QED
  BY <1>3, <1>11, <1>12, <1>14, <1>15 DEF WriteInv

\* The steps that move one write whose payload is already fixed.
LEMMA OneWriteMoves ==
  ASSUME QuorumInvariant, NEW w \in WriteIds,
         ReplicaTypeOK', Monotone, UNCHANGED wop,
         \A x \in WriteIds \ {w} : /\ wstate'[x] = wstate[x] /\ net'[x] = net[x]
                                   /\ pend'[x] = pend[x] /\ acked'[x] = acked[x],
         net'[w] \subseteq net[w], pend'[w] \subseteq pend[w],
         acked'[w] \subseteq acked[w] \cup pend[w],
         \A p \in Holders(w)' \ Holders(w) :
           AtLeast(kv'[p][WKey(w)].version, wop[w].ver),
         \/ wstate'[w] = wstate[w]
         \/ wstate[w] = "waiting" /\ wstate'[w] \in {"ok", "failed"},
         wstate[w] = "ok" => acked'[w] = acked[w],
         wstate'[w] = "ok" => Cardinality(acked'[w]) >= WQuorum(w)
  PROVE  WriteInv' /\ Frozen
<1>1. /\ ReplicaTypeOK /\ WriteTypeOK /\ WriteInv
  BY DEF QuorumInvariant, TypeOK
<1>2. Frozen
  BY DEF Frozen
<1>3. WriteOK(w)'
  BY <1>1, <1>2, WriteProgress DEF WriteInv
<1>4. ASSUME NEW x \in WriteIds \ {w}
      PROVE  WriteOK(x)'
  BY <1>1, <1>2, <1>4, WriteUntouched DEF WriteInv
<1> QED
  BY <1>2, <1>3, <1>4 DEF WriteInv

\* The payload of a write that is still on its way exists.
LEMMA PayloadOnItsWay ==
  ASSUME QuorumInvariant, NEW w \in WriteIds, NEW p \in Nodes, p \in net[w]
  PROVE  /\ WellFormed(wop[w].val) /\ wop[w].val.version \in Version
         /\ wop[w].ver \in Version /\ AtLeast(wop[w].val.version, wop[w].ver)
<1>1. WriteOK(w) /\ WriteTypeOK
  BY DEF QuorumInvariant, WriteInv, TypeOK
<1>2. Sent(w)
  BY <1>1 DEF WriteOK
<1>3. wop[w].ver \in Version
  BY <1>1 DEF WriteTypeOK, WriteOp
<1> QED
  BY <1>1, <1>2, <1>3, StoredFacts DEF WriteOK, Sent

LEMMA DeliverStep ==
  ASSUME QuorumInvariant, NEW w \in WriteIds, NEW p \in Nodes, Deliver(w, p)
  PROVE  /\ ReplicaTypeOK' /\ ReplicaInv' /\ Monotone
         /\ WriteTypeOK' /\ WriteInv' /\ Frozen
<1> DEFINE v == wop[w].val
           k == WKey(w)
<1>1. /\ ReplicaTypeOK /\ ReplicaInv /\ WriteTypeOK /\ WriteOK(w) /\ k \in Keys
  BY RequestTypes DEF QuorumInvariant, TypeOK, WriteInv
<1>2. /\ p \in net[w] /\ Apply(p, k, v)
      /\ net' = [net EXCEPT ![w] = @ \ {p}]
      /\ UNCHANGED <<wstate, wop, pend, acked, hints, tagCounter>>
  BY DEF Deliver, InTransit
<1>3. /\ WellFormed(v) /\ v.version \in Version
      /\ wop[w].ver \in Version /\ AtLeast(v.version, wop[w].ver)
  BY <1>2, PayloadOnItsWay
<1> HIDE DEF v, k
<1>4. /\ ReplicaTypeOK' /\ ReplicaInv' /\ Monotone
      /\ AtLeast(kv'[p][k].version, v.version)
  BY <1>1, <1>2, <1>3, ApplyStep
<1>5. WriteTypeOK'
  BY <1>1, <1>2 DEF WriteTypeOK
<1>6. net'[w] = net[w] \ {p} /\ \A x \in WriteIds \ {w} : net'[x] = net[x]
  BY <1>1, <1>2 DEF WriteTypeOK
<1>7. AtLeast(kv'[p][k].version, wop[w].ver)
  <2>1. kv'[p][k].version \in Version
    BY <1>1, <1>4 DEF ReplicaTypeOK, Value
  <2> QED
    BY <1>3, <1>4, <2>1, AtLeastTransitive
<1>8. \A q \in Holders(w)' \ Holders(w) : q = p
  BY <1>2, <1>6 DEF Holders
<1>9. wstate'[w] = "ok" => Cardinality(acked'[w]) >= WQuorum(w)
  BY <1>1, <1>2 DEF WriteOK
<1>10. WriteInv' /\ Frozen
  BY <1>2, <1>4, <1>6, <1>7, <1>8, <1>9, OneWriteMoves DEF k
<1> QED
  BY <1>4, <1>5, <1>10

\* What the collecting loop makes of a result.
LEMMA OutcomeFacts ==
  ASSUME NEW w, NEW got, NEW rest
  PROVE  LET s == WriteOutcome(w, got, rest)
         IN  /\ \/ s = wstate[w]
                \/ wstate[w] = "waiting" /\ s \in {"ok", "failed"}
             /\ wstate[w] = "waiting" /\ s = "ok" =>
                  Cardinality(got) >= WQuorum(w)
BY DEF WriteOutcome

LEMMA WriteAckStep ==
  ASSUME QuorumInvariant, NEW w \in WriteIds, NEW p \in Nodes, WriteAck(w, p)
  PROVE  /\ ReplicaTypeOK' /\ ReplicaInv' /\ Monotone
         /\ WriteTypeOK' /\ WriteInv' /\ Frozen
<1> DEFINE got == IF wstate[w] = "waiting" THEN acked[w] \cup {p} ELSE acked[w]
           s == WriteOutcome(w, got, pend[w] \ {p})
<1>1. /\ ReplicaTypeOK /\ ReplicaInv /\ WriteTypeOK /\ WriteOK(w)
  BY DEF QuorumInvariant, TypeOK, WriteInv
<1>2. /\ p \in pend[w] \ net[w]
      /\ pend' = [pend EXCEPT ![w] = @ \ {p}]
      /\ acked' = [acked EXCEPT ![w] = got]
      /\ wstate' = [wstate EXCEPT ![w] = s]
      /\ UNCHANGED <<wop, net, hints, tagCounter>>
      /\ UNCHANGED replicaVars
  BY DEF WriteAck
<1>3. ReplicaTypeOK' /\ ReplicaInv' /\ Monotone
  BY <1>1, <1>2, OtherReplicaSteps
<1>4. /\ wstate \in [WriteIds -> WriteStates] /\ acked \in [WriteIds -> SUBSET Nodes]
      /\ pend \in [WriteIds -> SUBSET Nodes]
  BY <1>1 DEF WriteTypeOK
<1>5. /\ s = wstate[w] \/ (wstate[w] = "waiting" /\ s \in {"ok", "failed"})
      /\ wstate[w] = "waiting" /\ s = "ok" => Cardinality(got) >= WQuorum(w)
  BY OutcomeFacts
<1> HIDE DEF s
<1>6. s \in WriteStates /\ got \in SUBSET Nodes
  BY <1>4, <1>5 DEF WriteStates
<1>7. WriteTypeOK'
  BY <1>1, <1>2, <1>4, <1>6 DEF WriteTypeOK
<1>8. /\ wstate'[w] = s /\ acked'[w] = got /\ pend'[w] = pend[w] \ {p}
      /\ \A x \in WriteIds \ {w} : /\ wstate'[x] = wstate[x] /\ net'[x] = net[x]
                                   /\ pend'[x] = pend[x] /\ acked'[x] = acked[x]
  BY <1>2, <1>4
<1>9. Holders(w)' \ Holders(w) = {}
  BY SMTT(30), Zenon, <1>2, <1>8 DEF Holders
<1>10. wstate'[w] = "ok" => Cardinality(acked'[w]) >= WQuorum(w)
  BY <1>1, <1>5, <1>8 DEF WriteOK
<1>11. WriteInv' /\ Frozen
  <2>1. acked'[w] \subseteq acked[w] \cup pend[w]
    BY <1>2, <1>8
  <2> QED
    BY ZenonT(30), <1>2, <1>3, <1>5, <1>8, <1>9, <1>10, <2>1, OneWriteMoves
<1> QED
  BY <1>3, <1>7, <1>11

\* A reported error takes one goroutine out and keeps the types.
LEMMA ReportErrorFacts ==
  ASSUME NEW w \in WriteIds, NEW p \in Nodes, WriteTypeOK, WriteOK(w), p \in pend[w],
         ReportError(w, p), UNCHANGED <<wop, acked>>
  PROVE  /\ wstate' \in [WriteIds -> WriteStates]
         /\ pend' \in [WriteIds -> SUBSET Nodes]
         /\ hints' \in [Nodes -> [Nodes -> Seq(Hint)]]
         /\ pend'[w] = pend[w] \ {p}
         /\ \A x \in WriteIds \ {w} : wstate'[x] = wstate[x] /\ pend'[x] = pend[x]
         /\ \/ wstate'[w] = wstate[w]
            \/ wstate[w] = "waiting" /\ wstate'[w] \in {"ok", "failed"}
         /\ wstate'[w] = "ok" => Cardinality(acked'[w]) >= WQuorum(w)
<1> DEFINE s == WriteOutcome(w, acked[w], pend[w] \ {p})
           n == WNode(w)
           h == [key |-> WKey(w), value |-> wop[w].val]
<1>1. /\ wstate \in [WriteIds -> WriteStates] /\ pend \in [WriteIds -> SUBSET Nodes]
      /\ hints \in [Nodes -> [Nodes -> Seq(Hint)]] /\ wop[w].val \in Value
  BY DEF WriteTypeOK, WriteOp
<1>2. /\ s = wstate[w] \/ (wstate[w] = "waiting" /\ s \in {"ok", "failed"})
      /\ wstate[w] = "waiting" /\ s = "ok" => Cardinality(acked[w]) >= WQuorum(w)
  BY OutcomeFacts
<1>3. /\ pend' = [pend EXCEPT ![w] = @ \ {p}]
      /\ wstate' = [wstate EXCEPT ![w] = s]
      /\ \/ UNCHANGED hints
         \/ hints' = [hints EXCEPT ![n][p] = Append(@, h)]
  BY DEF ReportError, StoreHint
<1>4. n \in Nodes /\ h \in Hint
  BY <1>1, RequestTypes DEF Hint
<1> HIDE DEF s, n, h
<1>5. s \in WriteStates
  BY <1>1, <1>2 DEF WriteStates
<1>6. Append(hints[n][p], h) \in Seq(Hint)
  BY <1>1, <1>4
<1>7. hints' \in [Nodes -> [Nodes -> Seq(Hint)]]
  <2> DEFINE a == Append(hints[n][p], h)
  <2>1. CASE hints' = [hints EXCEPT ![n][p] = a]
    <3> HIDE DEF a
    <3> QED
      BY <1>1, <1>4, <1>6, <2>1 DEF a
  <2> QED
    BY Zenon, <1>1, <1>3, <2>1
<1>8. /\ wstate' \in [WriteIds -> WriteStates] /\ wstate'[w] = s
      /\ pend' \in [WriteIds -> SUBSET Nodes] /\ pend'[w] = pend[w] \ {p}
      /\ \A x \in WriteIds \ {w} : wstate'[x] = wstate[x] /\ pend'[x] = pend[x]
  BY SMTT(30), Zenon, <1>1, <1>3, <1>5
<1>9. wstate'[w] = "ok" => Cardinality(acked'[w]) >= WQuorum(w)
  BY <1>2, <1>8 DEF WriteOK
<1> QED
  BY <1>2, <1>7, <1>8, <1>9

LEMMA CallErrorStep ==
  ASSUME QuorumInvariant, NEW w \in WriteIds, NEW p \in Nodes, CallError(w, p)
  PROVE  /\ ReplicaTypeOK' /\ ReplicaInv' /\ Monotone
         /\ WriteTypeOK' /\ WriteInv' /\ Frozen
<1>1. /\ ReplicaTypeOK /\ ReplicaInv /\ WriteTypeOK /\ WriteOK(w)
  BY DEF QuorumInvariant, TypeOK, WriteInv
<1>2. /\ p \in pend[w] /\ ReportError(w, p)
      /\ UNCHANGED <<wop, net, acked, tagCounter>> /\ UNCHANGED replicaVars
  BY DEF CallError
<1>3. ReplicaTypeOK' /\ ReplicaInv' /\ Monotone
  BY SMTT(30), Zenon, <1>1, <1>2, OtherReplicaSteps
<1>4. /\ wstate' \in [WriteIds -> WriteStates]
      /\ pend' \in [WriteIds -> SUBSET Nodes]
      /\ hints' \in [Nodes -> [Nodes -> Seq(Hint)]]
      /\ pend'[w] = pend[w] \ {p}
      /\ \A x \in WriteIds \ {w} : wstate'[x] = wstate[x] /\ pend'[x] = pend[x]
      /\ \/ wstate'[w] = wstate[w]
         \/ wstate[w] = "waiting" /\ wstate'[w] \in {"ok", "failed"}
      /\ wstate'[w] = "ok" => Cardinality(acked'[w]) >= WQuorum(w)
  BY <1>1, <1>2, ReportErrorFacts
<1>5. WriteTypeOK'
  BY SMTT(30), Zenon, <1>1, <1>2, <1>4 DEF WriteTypeOK
<1>6. Holders(w)' \ Holders(w) = {}
  BY <1>2, <1>4 DEF Holders
<1>7. WriteInv' /\ Frozen
  BY Zenon, <1>2, <1>3, <1>4, <1>6, OneWriteMoves
<1> QED
  BY <1>3, <1>5, <1>7

LEMMA WriteLogErrorStep ==
  ASSUME QuorumInvariant, NEW w \in WriteIds, NEW p \in Nodes, WriteLogError(w, p)
  PROVE  /\ ReplicaTypeOK' /\ ReplicaInv' /\ Monotone
         /\ WriteTypeOK' /\ WriteInv' /\ Frozen
<1>1. /\ ReplicaTypeOK /\ ReplicaInv /\ WriteTypeOK /\ WriteOK(w) /\ WKey(w) \in Keys
  BY SMTT(30), Zenon, RequestTypes DEF QuorumInvariant, TypeOK, WriteInv
<1>2. /\ p \in net[w] /\ ApplyLogError(p, WKey(w), wop[w].val)
      /\ net' = [net EXCEPT ![w] = @ \ {p}]
      /\ UNCHANGED <<wop, acked, tagCounter>>
      /\ IF p \in pend[w] THEN ReportError(w, p)
                          ELSE UNCHANGED <<wstate, pend, hints>>
  BY DEF WriteLogError, InTransit
<1>3. ReplicaTypeOK' /\ ReplicaInv' /\ Monotone
  BY ZenonT(30), <1>1, <1>2, PayloadOnItsWay, ApplyLogErrorStep
<1>4. /\ wstate' \in [WriteIds -> WriteStates]
      /\ pend' \in [WriteIds -> SUBSET Nodes]
      /\ hints' \in [Nodes -> [Nodes -> Seq(Hint)]]
      /\ pend'[w] = pend[w] \ {p}
      /\ \A x \in WriteIds \ {w} : wstate'[x] = wstate[x] /\ pend'[x] = pend[x]
      /\ \/ wstate'[w] = wstate[w]
         \/ wstate[w] = "waiting" /\ wstate'[w] \in {"ok", "failed"}
      /\ wstate'[w] = "ok" => Cardinality(acked'[w]) >= WQuorum(w)
  <2>1. CASE p \in pend[w]
    BY <1>1, <1>2, <2>1, ReportErrorFacts
  <2>2. CASE p \notin pend[w]
    BY Zenon, <1>1, <1>2, <2>2 DEF WriteTypeOK, WriteOK
  <2> QED
    BY <2>1, <2>2
<1>5. /\ net' \in [WriteIds -> SUBSET Nodes] /\ net'[w] = net[w] \ {p}
      /\ \A x \in WriteIds \ {w} : net'[x] = net[x]
  BY <1>1, <1>2 DEF WriteTypeOK
<1>6. WriteTypeOK'
  BY ZenonT(30), <1>1, <1>2, <1>4, <1>5 DEF WriteTypeOK
<1>7. Holders(w)' \ Holders(w) = {}
  BY <1>2, <1>4, <1>5 DEF Holders
<1>8. WriteInv' /\ Frozen
  BY Zenon, <1>2, <1>3, <1>4, <1>5, <1>7, OneWriteMoves
<1> QED
  BY <1>3, <1>6, <1>8

LEMMA WriteTimeoutStep ==
  ASSUME QuorumInvariant, NEW w \in WriteIds, WriteTimeout(w)
  PROVE  /\ ReplicaTypeOK' /\ ReplicaInv' /\ Monotone
         /\ WriteTypeOK' /\ WriteInv' /\ Frozen
<1>1. /\ ReplicaTypeOK /\ ReplicaInv /\ WriteTypeOK /\ WNode(w) \in Nodes
  BY RequestTypes DEF QuorumInvariant, TypeOK
<1>2. /\ wstate[w] = "waiting" /\ wstate' = [wstate EXCEPT ![w] = "failed"]
      /\ UNCHANGED <<wop, net, pend, acked, hints, tagCounter>>
      /\ UNCHANGED replicaVars
  BY DEF WriteTimeout
<1>3. ReplicaTypeOK' /\ ReplicaInv' /\ Monotone
  BY <1>1, <1>2, OtherReplicaSteps
<1>4. /\ WriteTypeOK' /\ wstate'[w] = "failed"
      /\ \A x \in WriteIds \ {w} : wstate'[x] = wstate[x]
  BY <1>1, <1>2 DEF WriteTypeOK, WriteStates
<1>5. Holders(w)' \ Holders(w) = {}
  BY SMTT(30), Zenon, <1>2 DEF Holders
<1>6. WriteInv' /\ Frozen
  BY <1>2, <1>3, <1>4, <1>5, OneWriteMoves
<1> QED
  BY <1>3, <1>4, <1>6

\* A crash ends the calls of its coordinator and leaves the others alone.
LEMMA WriteCrashStep ==
  ASSUME QuorumInvariant, NEW n \in Nodes, ReplicaCrash(n), WriteCrash(n)
  PROVE  /\ ReplicaTypeOK' /\ ReplicaInv' /\ Monotone
         /\ WriteTypeOK' /\ WriteInv' /\ Frozen
<1>1. /\ ReplicaTypeOK /\ ReplicaInv /\ WriteTypeOK /\ WriteInv
  BY DEF QuorumInvariant, TypeOK
<1>2. ReplicaTypeOK' /\ ReplicaInv' /\ Monotone
  BY <1>1, OtherReplicaSteps
<1>3. /\ wstate \in [WriteIds -> WriteStates] /\ pend \in [WriteIds -> SUBSET Nodes]
      /\ hints \in [Nodes -> [Nodes -> Seq(Hint)]] /\ tagCounter \in [Nodes -> Nat]
  BY <1>1 DEF WriteTypeOK
<1>4. /\ UNCHANGED <<wop, net, acked>>
      /\ wstate' \in [WriteIds -> WriteStates]
      /\ pend' \in [WriteIds -> SUBSET Nodes]
      /\ tagCounter' \in [Nodes -> Nat]
      /\ \A w \in WriteIds :
           /\ pend'[w] \subseteq pend[w]
           /\ \/ wstate'[w] = wstate[w]
              \/ wstate[w] \in {"ticked", "waiting"} /\ wstate'[w] = "dead"
  BY <1>3 DEF WriteCrash, WriteStates
<1>5. hints' \in [Nodes -> [Nodes -> Seq(Hint)]]
  <2>1. [t \in Nodes |-> <<>>] \in [Nodes -> Seq(Hint)]
    OBVIOUS
  <2> QED
    BY <1>3, <2>1 DEF WriteCrash
<1>6. WriteTypeOK'
  BY <1>1, <1>4, <1>5 DEF WriteTypeOK
<1>7. Frozen
  BY <1>4 DEF Frozen
<1>8. ASSUME NEW w \in WriteIds
      PROVE  WriteOK(w)'
  <2>1. WriteOK(w)
    BY <1>1 DEF WriteInv
  <2>2. Holders(w)' \ Holders(w) = {}
    BY <1>4 DEF Holders
  <2>3. wstate'[w] = "ok" => Cardinality(acked'[w]) >= WQuorum(w)
    BY Zenon, <1>4, <2>1 DEF WriteOK
  <2> QED
    BY Zenon, <1>1, <1>2, <1>4, <1>7, <2>1, <2>2, <2>3, WriteProgress
<1> QED
  BY <1>2, <1>6, <1>7, <1>8 DEF WriteInv

============================================================================
