----------------------------- MODULE ReadProofs -----------------------------
(***************************************************************************)
(* Every step of the read path, read repair included, preserves the        *)
(* invariant of QuorumInv, and so does every step of the store of clients. *)
(***************************************************************************)
EXTENDS WriteProofs

\* A step that touches no write.
LEMMA WritesStable ==
  ASSUME QuorumInvariant, ReplicaTypeOK', Monotone, UNCHANGED writeVars
  PROVE  WriteTypeOK' /\ WriteInv' /\ Frozen
<1>1. ReplicaTypeOK /\ WriteTypeOK /\ WriteInv
  BY DEF QuorumInvariant, TypeOK
<1>2. UNCHANGED <<wstate, wop, net, pend, acked, hints, tagCounter>>
  BY DEF writeVars
<1>3. WriteTypeOK' /\ Frozen
  BY <1>1, <1>2 DEF WriteTypeOK, Frozen
<1>4. ASSUME NEW w \in WriteIds
      PROVE  WriteOK(w)'
  BY <1>1, <1>2, <1>3, WriteUntouched DEF WriteInv
<1> QED
  BY <1>3, <1>4 DEF WriteInv

\* The reads a step does not touch.
LEMMA ReadUntouched ==
  ASSUME NEW r \in ReadIds, ReadOK(r), Frozen, rbefore[r] \subseteq WriteIds,
         rstate'[r] = rstate[r], rout'[r] = rout[r], rserved'[r] = rserved[r],
         rset'[r] = rset[r], rview'[r] = rview[r], racc'[r] = racc[r],
         rtodo'[r] = rtodo[r], rlate'[r] = rlate[r], rbefore'[r] = rbefore[r]
  PROVE  ReadOK(r)'
BY DEF ReadOK, Frozen, WKey, RKey, RQuorum

\* A step that touches no read.
LEMMA ReadsStable ==
  ASSUME QuorumInvariant, Frozen, UNCHANGED <<readVars, rbefore>>
  PROVE  ReadTypeOK' /\ ReadInv'
<1>1. /\ ReadTypeOK /\ ReadInv
      /\ \A r \in ReadIds : rbefore[r] \subseteq WriteIds
  BY DEF QuorumInvariant, TypeOK
<1>2. UNCHANGED <<rstate, rout, rserved, rset, rview, racc, rtodo, rlate, rbefore>>
  BY DEF readVars
<1>3. ReadTypeOK'
  BY <1>1, <1>2 DEF ReadTypeOK
<1>4. ASSUME NEW r \in ReadIds
      PROVE  ReadOK(r)'
  BY <1>1, <1>2, ReadUntouched DEF ReadInv
<1> QED
  BY <1>3, <1>4 DEF ReadInv

\* The same for the other reads of a step of read r.
LEMMA OtherReads ==
  ASSUME QuorumInvariant, Frozen, NEW r \in ReadIds, ReadOK(r)',
         \A x \in ReadIds \ {r} :
           /\ rstate'[x] = rstate[x] /\ rout'[x] = rout[x]
           /\ rserved'[x] = rserved[x] /\ rset'[x] = rset[x]
           /\ rview'[x] = rview[x] /\ racc'[x] = racc[x] /\ rtodo'[x] = rtodo[x]
           /\ rlate'[x] = rlate[x] /\ rbefore'[x] = rbefore[x]
  PROVE  ReadInv'
<1>1. ReadInv /\ \A x \in ReadIds : rbefore[x] \subseteq WriteIds
  BY DEF QuorumInvariant, TypeOK
<1>2. ASSUME NEW x \in ReadIds \ {r}
      PROVE  ReadOK(x)'
  BY <1>1, <1>2, ReadUntouched DEF ReadInv
<1> QED
  BY <1>2 DEF ReadInv

\* The facts a step of the read path starts from.
LEMMA ReadContext ==
  ASSUME QuorumInvariant, UNCHANGED <<replicaVars, writeVars>>
  PROVE  /\ ReplicaTypeOK /\ ReplicaInv /\ WriteTypeOK /\ WriteInv
         /\ ReadTypeOK /\ ReadInv /\ rbefore \in [ReadIds -> SUBSET WriteIds]
         /\ ReplicaTypeOK' /\ ReplicaInv' /\ Monotone
         /\ WriteTypeOK' /\ WriteInv' /\ Frozen
<1>1. /\ ReplicaTypeOK /\ ReplicaInv /\ WriteTypeOK /\ WriteInv
      /\ ReadTypeOK /\ ReadInv /\ rbefore \in [ReadIds -> SUBSET WriteIds]
  BY DEF QuorumInvariant, TypeOK
<1>2. ReplicaTypeOK' /\ ReplicaInv'
  BY <1>1 DEF replicaVars, ReplicaTypeOK, ReplicaInv
<1>3. Monotone
  BY <1>1, KVUnchanged DEF replicaVars
<1> QED
  BY <1>1, <1>2, <1>3, WritesStable

LEMMA ClientReadStep ==
  ASSUME QuorumInvariant, NEW r \in ReadIds, ClientRead(r)
  PROVE  /\ ReplicaTypeOK' /\ ReplicaInv' /\ Monotone
         /\ WriteTypeOK' /\ WriteInv' /\ ReadTypeOK' /\ ReadInv'
         /\ rbefore' \in [ReadIds -> SUBSET WriteIds]
<1> DEFINE old == {w \in WriteIds : wstate[w] = "ok" /\ WKey(w) = RKey(r)}
<1>1. /\ rstate[r] = "idle" /\ rstate' = [rstate EXCEPT ![r] = "waiting"]
      /\ rout' = [rout EXCEPT ![r] = Nodes]
      /\ UNCHANGED <<rserved, rset, rview, racc, rtodo, rlate>>
      /\ UNCHANGED <<replicaVars, writeVars>>
      /\ rbefore' = [rbefore EXCEPT ![r] = old]
  BY DEF ClientRead, ReadStart
<1>2. /\ ReadTypeOK /\ ReadInv /\ rbefore \in [ReadIds -> SUBSET WriteIds]
      /\ ReplicaTypeOK' /\ ReplicaInv' /\ Monotone
      /\ WriteTypeOK' /\ WriteInv' /\ Frozen
  BY <1>1, ReadContext
<1>3. /\ rstate \in [ReadIds -> ReadStates] /\ rout \in [ReadIds -> SUBSET Nodes]
      /\ ReadOK(r)
  BY <1>2 DEF ReadTypeOK, ReadInv
<1>4. old \in SUBSET WriteIds /\ \A w \in old : wstate'[w] = "ok" /\ WKey(w) = RKey(r)
  BY <1>1 DEF writeVars
<1> HIDE DEF old
<1>5. /\ ReadTypeOK' /\ rbefore' \in [ReadIds -> SUBSET WriteIds]
      /\ rstate'[r] = "waiting" /\ rout'[r] = Nodes /\ rbefore'[r] = old
      /\ \A x \in ReadIds \ {r} :
           rstate'[x] = rstate[x] /\ rout'[x] = rout[x] /\ rbefore'[x] = rbefore[x]
  BY <1>1, <1>2, <1>3, <1>4 DEF ReadTypeOK, ReadStates
<1>6. ReadOK(r)'
  BY <1>1, <1>3, <1>4, <1>5 DEF ReadOK, WKey, RKey
<1>7. ReadInv'
  BY <1>1, <1>2, <1>5, <1>6, OtherReads
<1> QED
  BY <1>2, <1>5, <1>7

\* A served view is at least as new as every write its server had acked.
LEMMA ServedView ==
  ASSUME QuorumInvariant, NEW w \in WriteIds, NEW p \in acked[w]
  PROVE  AtLeast(kv[p][WKey(w)].version, wop[w].ver)
BY DEF QuorumInvariant, WriteInv, WriteOK, Holders

LEMMA ReadServeStep ==
  ASSUME QuorumInvariant, NEW r \in ReadIds, NEW p \in Nodes, ReadServe(r, p),
         UNCHANGED <<writeVars, rbefore>>
  PROVE  /\ ReplicaTypeOK' /\ ReplicaInv' /\ Monotone
         /\ WriteTypeOK' /\ WriteInv' /\ ReadTypeOK' /\ ReadInv'
<1> DEFINE v == kv[p][RKey(r)]
<1>1. /\ rstate[r] = "waiting" /\ p \in rout[r]
      /\ rout' = [rout EXCEPT ![r] = @ \ {p}]
      /\ rserved' = [rserved EXCEPT ![r] = @ \cup {p}]
      /\ rview' = [rview EXCEPT ![r][p] = v]
      /\ UNCHANGED <<rstate, rset, racc, rtodo, rlate>>
      /\ UNCHANGED <<replicaVars, writeVars, rbefore>>
  BY DEF ReadServe
<1>2. /\ ReplicaTypeOK /\ ReplicaInv /\ ReadTypeOK /\ ReadInv
      /\ rbefore \in [ReadIds -> SUBSET WriteIds]
      /\ ReplicaTypeOK' /\ ReplicaInv' /\ Monotone
      /\ WriteTypeOK' /\ WriteInv' /\ Frozen
  BY <1>1, ReadContext
<1>3. /\ rout \in [ReadIds -> SUBSET Nodes] /\ rserved \in [ReadIds -> SUBSET Nodes]
      /\ rset \in [ReadIds -> SUBSET Nodes]
      /\ rview \in [ReadIds -> [Nodes -> Value]] /\ ReadOK(r)
  BY <1>2 DEF ReadTypeOK, ReadInv
<1>4. v \in Value /\ Stored(v)
  BY <1>2, RequestTypes DEF ReplicaInv, ReplicaTypeOK
<1>5. ASSUME NEW w \in rbefore[r], p \in acked[w]
      PROVE  AtLeast(v.version, wop[w].ver)
  <2>1. w \in WriteIds /\ WKey(w) = RKey(r)
    BY <1>2, <1>3 DEF ReadOK
  <2> QED
    BY <1>5, <2>1, ServedView
<1> HIDE DEF v
<1>6. /\ ReadTypeOK'
      /\ rout'[r] = rout[r] \ {p} /\ rserved'[r] = rserved[r] \cup {p}
      /\ \A q \in Nodes : rview'[r][q] = IF q = p THEN v ELSE rview[r][q]
      /\ \A x \in ReadIds \ {r} : /\ rout'[x] = rout[x] /\ rserved'[x] = rserved[x]
                                  /\ rview'[x] = rview[x]
  BY <1>1, <1>2, <1>3, <1>4 DEF ReadTypeOK
<1>7. UNCHANGED <<wstate, wop, acked>>
  BY SMTT(30), Zenon, <1>1 DEF writeVars
<1>8. ReadOK(r)'
  <2>1. Stored(racc'[r]) /\ \A q \in Nodes : Stored(rview'[r][q])
    BY SMTT(30), Zenon, <1>1, <1>3, <1>4, <1>6 DEF ReadOK
  <2>2. ASSUME NEW w \in rbefore[r]
        PROVE  /\ wstate'[w] = "ok" /\ WKey(w) = RKey(r)
               /\ \A q \in (rserved'[r] \cup rset'[r]) \cap acked'[w] :
                    AtLeast(rview'[r][q].version, wop'[w].ver)
    BY SMTT(30), Zenon, <1>1, <1>3, <1>5, <1>6, <1>7 DEF ReadOK
  <2>3. /\ p \notin rset[r] /\ rset'[r] \subseteq Nodes
        /\ rout'[r] \cap (rserved'[r] \cup rset'[r]) = {}
    BY <1>1, <1>3, <1>6 DEF ReadOK
  <2>4. \A q \in rset'[r] : AtLeast(racc'[r].version, rview'[r][q].version)
    BY <1>1, <1>3, <1>6, <2>3 DEF ReadOK
  <2> QED
    BY <1>1, <1>3, <2>1, <2>2, <2>3, <2>4 DEF ReadOK, WKey, RKey
<1>9. ReadInv'
  BY <1>1, <1>2, <1>6, <1>8, OtherReads
<1> QED
  BY <1>2, <1>6, <1>9

\* What the fold of one more view gives.
LEMMA FoldView ==
  ASSUME QuorumInvariant, NEW r \in ReadIds, NEW p \in Nodes
  PROVE  LET a == ResolveNext(racc[r], rview[r][p])
         IN  /\ a \in Value /\ Stored(a)
             /\ \A q \in rset[r] \cup {p} : AtLeast(a.version, rview[r][q].version)
<1> DEFINE a == ResolveNext(racc[r], rview[r][p])
<1>1. ReadOK(r) /\ rset[r] \subseteq Nodes
  BY DEF QuorumInvariant, TypeOK, ReadTypeOK, ReadInv
<1>2. Stored(racc[r]) /\ \A q \in Nodes : Stored(rview[r][q])
  BY <1>1 DEF ReadOK
<1>3. /\ Stored(a) /\ AtLeast(a.version, racc[r].version)
      /\ AtLeast(a.version, rview[r][p].version)
  BY <1>2, ResolveNextFacts
<1> HIDE DEF a
<1>4. a \in Value /\ a.version \in Version /\ racc[r].version \in Version
  BY <1>2, <1>3, StoredFacts
<1>5. ASSUME NEW q \in rset[r]
      PROVE  AtLeast(a.version, rview[r][q].version)
  <2>1. rview[r][q].version \in Version /\ AtLeast(racc[r].version, rview[r][q].version)
    BY <1>1, <1>2, StoredFacts DEF ReadOK
  <2> QED
    BY <1>3, <1>4, <2>1, AtLeastTransitive
<1>6. \A q \in rset[r] \cup {p} : AtLeast(a.version, rview[r][q].version)
  BY <1>3, <1>5
<1> QED
  BY <1>3, <1>4, <1>6 DEF a

LEMMA ReadReceiveStep ==
  ASSUME QuorumInvariant, NEW r \in ReadIds, NEW p \in Nodes, ReadReceive(r, p),
         UNCHANGED <<writeVars, rbefore>>
  PROVE  /\ ReplicaTypeOK' /\ ReplicaInv' /\ Monotone
         /\ WriteTypeOK' /\ WriteInv' /\ ReadTypeOK' /\ ReadInv'
<1> DEFINE got    == rset[r] \cup {p}
           left   == (rout[r] \cup rserved[r]) \ {p}
           winner == ResolveNext(racc[r], rview[r][p])
           stale  == IF /\ ReadRepair
                        /\ Found(winner)
                        /\ ~ Agreed(got, rview[r], winner)
                     THEN StaleAmong(got, rview[r], winner)
                     ELSE {}
           kept   == [q \in Nodes |-> IF q \in got THEN rview[r][q] ELSE NoValue]
<1>1. /\ rstate[r] = "waiting" /\ p \in rserved[r]
      /\ rset' = [rset EXCEPT ![r] = got]
      /\ racc' = [racc EXCEPT ![r] = winner]
      /\ \/ /\ Cardinality(got) >= RQuorum(r)
            /\ rstate' = [rstate EXCEPT ![r] =
                            IF stale = {} THEN "done" ELSE "repairing"]
            /\ rtodo' = [rtodo EXCEPT ![r] = stale]
            /\ rout' = [rout EXCEPT ![r] = {}]
            /\ rserved' = [rserved EXCEPT ![r] = {}]
            /\ rview' = [rview EXCEPT ![r] = kept]
         \/ /\ rstate' = [rstate EXCEPT ![r] =
                            IF left = {} THEN "failed" ELSE "waiting"]
            /\ rserved' = [rserved EXCEPT ![r] = @ \ {p}]
            /\ UNCHANGED <<rout, rview, rtodo>>
      /\ UNCHANGED rlate
      /\ UNCHANGED <<replicaVars, writeVars, rbefore>>
  BY Zenon DEF ReadReceive, EnoughViews, Hangup
<1>2. /\ ReplicaTypeOK /\ ReplicaInv /\ ReadTypeOK /\ ReadInv
      /\ rbefore \in [ReadIds -> SUBSET WriteIds]
      /\ ReplicaTypeOK' /\ ReplicaInv' /\ Monotone
      /\ WriteTypeOK' /\ WriteInv' /\ Frozen
  BY <1>1, ReadContext
<1>3. /\ rstate \in [ReadIds -> ReadStates]
      /\ rout \in [ReadIds -> SUBSET Nodes] /\ rserved \in [ReadIds -> SUBSET Nodes]
      /\ rset \in [ReadIds -> SUBSET Nodes] /\ racc \in [ReadIds -> Value]
      /\ rtodo \in [ReadIds -> SUBSET Nodes] /\ rlate \in [ReadIds -> SUBSET Nodes]
      /\ rview \in [ReadIds -> [Nodes -> Value]] /\ ReadOK(r)
  BY <1>2 DEF ReadTypeOK, ReadInv
<1>4. /\ winner \in Value /\ Stored(winner)
      /\ \A q \in got : AtLeast(winner.version, rview[r][q].version)
  BY FoldView
<1>5. /\ got \in SUBSET Nodes /\ stale \in SUBSET Nodes
      /\ stale # {} => Found(winner)
  BY <1>3 DEF StaleAmong
<1>6. /\ kept \in [Nodes -> Value] /\ \A q \in got : kept[q] = rview[r][q]
      /\ \A q \in Nodes : Stored(kept[q])
  BY ZenonT(30), <1>3, <1>5, NoValueType DEF ReadOK, Stored
<1>7. rtodo[r] = {} /\ rlate[r] = {}
  BY ZenonT(30), <1>1, <1>3 DEF ReadOK
<1>8. got \subseteq rserved[r] \cup rset[r] /\ rset[r] \subseteq got
  BY <1>1
<1> HIDE DEF winner, stale, kept, left, got
<1>9. UNCHANGED <<wstate, wop, acked>>
  BY <1>1 DEF writeVars
<1>10. CASE /\ Cardinality(got) >= RQuorum(r)
            /\ rstate' = [rstate EXCEPT ![r] =
                            IF stale = {} THEN "done" ELSE "repairing"]
            /\ rtodo' = [rtodo EXCEPT ![r] = stale]
            /\ rout' = [rout EXCEPT ![r] = {}]
            /\ rserved' = [rserved EXCEPT ![r] = {}]
            /\ rview' = [rview EXCEPT ![r] = kept]
  <2>1. ReadTypeOK'
    BY <1>1, <1>3, <1>4, <1>5, <1>6, <1>10 DEF ReadTypeOK, ReadStates
  <2>2. /\ rstate'[r] = IF stale = {} THEN "done" ELSE "repairing"
        /\ rtodo'[r] = stale /\ rout'[r] = {} /\ rserved'[r] = {}
        /\ rview'[r] = kept /\ rset'[r] = got /\ racc'[r] = winner
        /\ rlate'[r] = {}
        /\ \A x \in ReadIds \ {r} :
             /\ rstate'[x] = rstate[x] /\ rout'[x] = rout[x]
             /\ rserved'[x] = rserved[x] /\ rset'[x] = rset[x]
             /\ rview'[x] = rview[x] /\ racc'[x] = racc[x] /\ rtodo'[x] = rtodo[x]
    BY SMTT(30), Zenon, <1>1, <1>3, <1>7, <1>10
  <2>3. ASSUME NEW w \in rbefore[r]
        PROVE  /\ wstate'[w] = "ok" /\ WKey(w) = RKey(r)
               /\ \A q \in (rserved'[r] \cup rset'[r]) \cap acked'[w] :
                    AtLeast(rview'[r][q].version, wop'[w].ver)
    BY SMTT(30), Zenon, <1>3, <1>6, <1>8, <1>9, <2>2 DEF ReadOK
  <2>4. /\ Stored(racc'[r]) /\ \A q \in Nodes : Stored(rview'[r][q])
        /\ \A q \in rset'[r] : AtLeast(racc'[r].version, rview'[r][q].version)
    BY Zenon, <1>4, <1>6, <2>2
  <2>5. rtodo'[r] \cup rlate'[r] # {} =>
           Found(racc'[r]) /\ rstate'[r] \notin {"idle", "waiting"}
    BY Zenon, <1>5, <2>2
  <2>6. /\ Cardinality(rset'[r]) >= RQuorum(r) /\ rstate'[r] # "idle"
        /\ rout'[r] \cap (rserved'[r] \cup rset'[r]) = {}
    BY <1>10, <2>2
  <2>7. ReadOK(r)'
    BY Zenon, <1>1, <2>3, <2>4, <2>5, <2>6 DEF ReadOK, WKey, RKey, RQuorum
  <2> QED
    BY Zenon, <1>1, <1>2, <2>1, <2>2, <2>7, OtherReads
<1>11. CASE /\ rstate' = [rstate EXCEPT ![r] =
                            IF left = {} THEN "failed" ELSE "waiting"]
            /\ rserved' = [rserved EXCEPT ![r] = @ \ {p}]
            /\ UNCHANGED <<rout, rview, rtodo>>
  <2>1. ReadTypeOK'
    BY <1>1, <1>2, <1>3, <1>4, <1>5, <1>11 DEF ReadTypeOK, ReadStates
  <2>2. /\ rstate'[r] \in {"failed", "waiting"}
        /\ rserved'[r] = rserved[r] \ {p} /\ rset'[r] = got /\ racc'[r] = winner
        /\ \A x \in ReadIds \ {r} :
             /\ rstate'[x] = rstate[x] /\ rserved'[x] = rserved[x]
             /\ rset'[x] = rset[x] /\ racc'[x] = racc[x]
    BY <1>1, <1>3, <1>11
  <2>3. ASSUME NEW w \in rbefore[r]
        PROVE  /\ wstate'[w] = "ok" /\ WKey(w) = RKey(r)
               /\ \A q \in (rserved'[r] \cup rset'[r]) \cap acked'[w] :
                    AtLeast(rview'[r][q].version, wop'[w].ver)
    <3>1. /\ wstate[w] = "ok" /\ WKey(w) = RKey(r)
          /\ \A q \in (rserved[r] \cup rset[r]) \cap acked[w] :
               AtLeast(rview[r][q].version, wop[w].ver)
      BY ZenonT(30), <1>3 DEF ReadOK
    <3>2. rserved'[r] \cup rset'[r] \subseteq rserved[r] \cup rset[r]
      BY <1>8, <2>2
    <3> QED
      BY Zenon, <1>9, <1>11, <3>1, <3>2
  <2>4. /\ Stored(racc'[r]) /\ \A q \in Nodes : Stored(rview'[r][q])
        /\ \A q \in rset'[r] : AtLeast(racc'[r].version, rview'[r][q].version)
    <3>1. \A q \in Nodes : Stored(rview[r][q])
      BY ZenonT(30), <1>3 DEF ReadOK
    <3> QED
      BY Zenon, <1>4, <1>11, <2>2, <3>1
  <2>5. rout'[r] \cap (rserved'[r] \cup rset'[r]) = {}
    BY <1>3, <1>8, <1>11, <2>2 DEF ReadOK
  <2>6. ReadOK(r)'
    BY Zenon, <1>1, <1>7, <1>11, <2>2, <2>3, <2>4, <2>5
       DEF ReadOK, WKey, RKey, RQuorum
  <2> QED
    BY <1>1, <1>2, <1>11, <2>1, <2>2, <2>6, OtherReads
<1> QED
  BY <1>1, <1>2, <1>10, <1>11

\* A read that gives up results, or ends, keeps what it has received.
LEMMA ReadGivesUp ==
  ASSUME QuorumInvariant, NEW r \in ReadIds,
         \/ \E p \in Nodes : ReadError(r, p)
         \/ ReadTimeout(r),
         UNCHANGED <<writeVars, rbefore>>
  PROVE  /\ ReplicaTypeOK' /\ ReplicaInv' /\ Monotone
         /\ WriteTypeOK' /\ WriteInv' /\ ReadTypeOK' /\ ReadInv'
<1> DEFINE kept == [q \in Nodes |-> IF q \in rset[r] THEN rview[r][q] ELSE NoValue]
<1>1. /\ rstate[r] = "waiting" /\ UNCHANGED <<rset, racc, rtodo, rlate>>
      /\ UNCHANGED <<replicaVars, writeVars, rbefore>>
  BY DEF ReadError, ReadTimeout
<1>2. /\ ReplicaTypeOK /\ ReplicaInv /\ ReadTypeOK /\ ReadInv
      /\ rbefore \in [ReadIds -> SUBSET WriteIds]
      /\ ReplicaTypeOK' /\ ReplicaInv' /\ Monotone
      /\ WriteTypeOK' /\ WriteInv' /\ Frozen
  BY <1>1, ReadContext
<1>3. /\ rstate \in [ReadIds -> ReadStates]
      /\ rout \in [ReadIds -> SUBSET Nodes] /\ rserved \in [ReadIds -> SUBSET Nodes]
      /\ rset \in [ReadIds -> SUBSET Nodes]
      /\ rview \in [ReadIds -> [Nodes -> Value]] /\ ReadOK(r)
  BY <1>2 DEF ReadTypeOK, ReadInv
<1>4. /\ kept \in [Nodes -> Value] /\ \A q \in rset[r] : kept[q] = rview[r][q]
      /\ \A q \in Nodes : Stored(kept[q])
  <2>1. \A q \in Nodes : Stored(rview[r][q]) /\ rview[r][q] \in Value
    BY <1>3 DEF ReadOK
  <2>2. NoValue \in Value /\ Stored(NoValue)
    BY NoValueType DEF Stored
  <2>3. rset[r] \subseteq Nodes
    BY <1>3
  <2> QED
    BY SMTT(30), Zenon, <2>1, <2>2, <2>3
<1>5. /\ rstate' \in [ReadIds -> ReadStates] /\ rstate'[r] \in {"waiting", "failed"}
      /\ rout' \in [ReadIds -> SUBSET Nodes] /\ rout'[r] \subseteq rout[r]
      /\ rserved' \in [ReadIds -> SUBSET Nodes] /\ rserved'[r] \subseteq rserved[r]
      /\ \A x \in ReadIds \ {r} : /\ rstate'[x] = rstate[x] /\ rout'[x] = rout[x]
                                  /\ rserved'[x] = rserved[x]
      /\ \/ UNCHANGED rview
         \/ rserved'[r] = {} /\ rview' = [rview EXCEPT ![r] = kept]
  <2>1. CASE ReadTimeout(r)
    BY <1>3, <2>1 DEF ReadTimeout, Hangup, ReadStates
  <2>2. CASE \E p \in Nodes : ReadError(r, p)
    BY SMTT(30), Zenon, <1>1, <1>3, <2>2 DEF ReadError, ReadStates
  <2> QED
    BY <2>1, <2>2
<1> HIDE DEF kept
<1>6. /\ rview' \in [ReadIds -> [Nodes -> Value]]
      /\ \A x \in ReadIds \ {r} : rview'[x] = rview[x]
      /\ \A q \in rserved'[r] \cup rset[r] : rview'[r][q] = rview[r][q]
      /\ \A q \in Nodes : Stored(rview'[r][q])
  BY <1>3, <1>4, <1>5 DEF ReadOK
<1>7. ReadTypeOK'
  BY <1>1, <1>2, <1>5, <1>6 DEF ReadTypeOK
<1>8. UNCHANGED <<wstate, wop, acked>>
  BY <1>1 DEF writeVars
<1>9. ReadOK(r)'
  <2>1. ASSUME NEW w \in rbefore[r]
        PROVE  /\ wstate'[w] = "ok" /\ WKey(w) = RKey(r)
               /\ \A q \in (rserved'[r] \cup rset'[r]) \cap acked'[w] :
                    AtLeast(rview'[r][q].version, wop'[w].ver)
    BY Zenon, <1>1, <1>3, <1>5, <1>6, <1>8 DEF ReadOK
  <2>2. /\ rout'[r] \cap (rserved'[r] \cup rset'[r]) = {}
        /\ \A q \in rset'[r] : AtLeast(racc'[r].version, rview'[r][q].version)
    BY Zenon, <1>1, <1>3, <1>5, <1>6 DEF ReadOK
  <2>3. rtodo[r] = {} /\ rlate[r] = {}
    BY Zenon, <1>1, <1>3 DEF ReadOK
  <2> QED
    BY Zenon, <1>1, <1>3, <1>5, <1>6, <2>1, <2>2, <2>3
       DEF ReadOK, WKey, RKey, RQuorum
<1>10. ReadInv'
  BY Zenon, <1>1, <1>2, <1>5, <1>6, <1>9, OtherReads
<1> QED
  BY <1>2, <1>7, <1>10

\* The value a repair pushes is the winner of a settled read.
LEMMA RepairValue ==
  ASSUME QuorumInvariant, NEW r \in ReadIds, rtodo[r] \cup rlate[r] # {}
  PROVE  WellFormed(racc[r]) /\ RKey(r) \in Keys
BY ZenonT(30), RequestTypes, StoredFacts DEF QuorumInvariant, ReadInv, ReadOK

\* A repair changes what is left to repair, and at most one replica.
LEMMA RepairKeepsReads ==
  ASSUME QuorumInvariant, NEW r \in ReadIds, Frozen,
         UNCHANGED <<rout, rserved, rset, rview, racc, rbefore>>,
         rstate' \in [ReadIds -> ReadStates],
         rtodo' \in [ReadIds -> SUBSET Nodes], rlate' \in [ReadIds -> SUBSET Nodes],
         \A x \in ReadIds \ {r} : /\ rstate'[x] = rstate[x] /\ rtodo'[x] = rtodo[x]
                                  /\ rlate'[x] = rlate[x],
         rtodo[r] \cup rlate[r] # {},
         \/ rstate'[r] = rstate[r]
         \/ rstate[r] = "repairing" /\ rstate'[r] = "done"
  PROVE  ReadTypeOK' /\ ReadInv'
<1>1. /\ ReadTypeOK /\ ReadInv /\ ReadOK(r)
      /\ rbefore \in [ReadIds -> SUBSET WriteIds]
  BY DEF QuorumInvariant, TypeOK, ReadInv
<1>2. ReadTypeOK'
  BY SMTT(30), Zenon, <1>1 DEF ReadTypeOK
<1>3. \A w \in rbefore[r] : wstate'[w] = "ok" /\ acked'[w] = acked[w] /\ wop'[w] = wop[w]
  BY SMTT(30), Zenon, <1>1 DEF ReadOK, Frozen
<1>4. ReadOK(r)'
  BY <1>1, <1>3 DEF ReadOK, WKey, RKey, RQuorum
<1>5. ReadInv'
  BY <1>4, OtherReads
<1> QED
  BY <1>2, <1>5

LEMMA RepairSteps ==
  ASSUME QuorumInvariant, NEW r \in ReadIds, NEW p \in Nodes,
         \/ RepairApply(r, p) \/ RepairLate(r, p)
         \/ RepairLogError(r, p) \/ RepairError(r, p),
         UNCHANGED <<writeVars, rbefore>>
  PROVE  /\ ReplicaTypeOK' /\ ReplicaInv' /\ Monotone
         /\ WriteTypeOK' /\ WriteInv' /\ ReadTypeOK' /\ ReadInv'
<1>1. /\ ReplicaTypeOK /\ ReplicaInv /\ ReadTypeOK
  BY DEF QuorumInvariant, TypeOK
<1>2. /\ rstate \in [ReadIds -> ReadStates]
      /\ rtodo \in [ReadIds -> SUBSET Nodes] /\ rlate \in [ReadIds -> SUBSET Nodes]
  BY <1>1 DEF ReadTypeOK
<1>3. /\ rtodo[r] \cup rlate[r] # {}
      /\ UNCHANGED <<rout, rserved, rset, rview, racc>>
      /\ rstate' \in [ReadIds -> ReadStates]
      /\ rtodo' \in [ReadIds -> SUBSET Nodes] /\ rlate' \in [ReadIds -> SUBSET Nodes]
      /\ \A x \in ReadIds \ {r} : /\ rstate'[x] = rstate[x] /\ rtodo'[x] = rtodo[x]
                                  /\ rlate'[x] = rlate[x]
      /\ \/ rstate'[r] = rstate[r]
         \/ rstate[r] = "repairing" /\ rstate'[r] = "done"
  <2>1. CASE RepairLate(r, p)
    BY <1>2, <2>1 DEF RepairLate
  <2>2. ASSUME RepairNext(r, p)
        PROVE  /\ rtodo[r] # {} /\ UNCHANGED <<rout, rserved, rset, rview, racc>>
               /\ rstate' \in [ReadIds -> ReadStates]
               /\ rtodo' \in [ReadIds -> SUBSET Nodes]
               /\ \A x \in ReadIds \ {r} : rstate'[x] = rstate[x] /\ rtodo'[x] = rtodo[x]
               /\ \/ rstate'[r] = rstate[r]
                  \/ rstate[r] = "repairing" /\ rstate'[r] = "done"
    BY <1>2, <2>2 DEF RepairNext, ReadStates
  <2>3. CASE RepairApply(r, p) \/ RepairLogError(r, p)
    BY Zenon, <1>2, <2>2, <2>3 DEF RepairApply, RepairLogError
  <2>4. CASE RepairError(r, p)
    BY Zenon, <1>2, <2>2, <2>4 DEF RepairError
  <2> QED
    BY Zenon, <2>1, <2>3, <2>4
<1>4. WellFormed(racc[r]) /\ RKey(r) \in Keys
  BY Zenon, <1>3, RepairValue
<1>5. ReplicaTypeOK' /\ ReplicaInv' /\ Monotone
  <2>1. CASE RepairApply(r, p) \/ RepairLate(r, p)
    BY <1>1, <1>4, <2>1, ApplyStep DEF RepairApply, RepairLate
  <2>2. CASE RepairLogError(r, p)
    BY <1>1, <1>4, <2>2, ApplyLogErrorStep DEF RepairLogError
  <2>3. CASE RepairError(r, p)
    BY <1>1, <2>3, OtherReplicaSteps DEF RepairError
  <2> QED
    BY <2>1, <2>2, <2>3
<1>6. WriteTypeOK' /\ WriteInv' /\ Frozen
  BY SMTT(30), Zenon, <1>5, WritesStable
<1>7. ReadTypeOK' /\ ReadInv'
  BY <1>3, <1>6, RepairKeepsReads
<1> QED
  BY <1>5, <1>6, <1>7

LEMMA ReadCrashStep ==
  ASSUME QuorumInvariant, Frozen, NEW n \in Nodes, ReadCrash(n), UNCHANGED rbefore
  PROVE  ReadTypeOK' /\ ReadInv'
<1>1. /\ ReadTypeOK /\ ReadInv /\ rbefore \in [ReadIds -> SUBSET WriteIds]
  BY DEF QuorumInvariant, TypeOK
<1>2. /\ UNCHANGED <<rout, rserved, rset, rview, racc, rtodo, rlate, rbefore>>
      /\ rstate' \in [ReadIds -> ReadStates]
      /\ \A r \in ReadIds : \/ rstate'[r] = rstate[r]
                            \/ rstate'[r] = "dead"
  BY <1>1 DEF ReadCrash, ReadTypeOK, ReadStates
<1>3. ReadTypeOK'
  BY SMTT(30), Zenon, <1>1, <1>2 DEF ReadTypeOK
<1>4. ASSUME NEW r \in ReadIds
      PROVE  ReadOK(r)'
  <2>1. ReadOK(r)
    BY <1>1 DEF ReadInv
  <2>2. \A w \in rbefore[r] :
          wstate'[w] = "ok" /\ acked'[w] = acked[w] /\ wop'[w] = wop[w]
    BY Zenon, <1>1, <2>1 DEF ReadOK, Frozen
  <2> QED
    BY <1>2, <2>1, <2>2 DEF ReadOK, WKey, RKey, RQuorum
<1> QED
  BY <1>3, <1>4 DEF ReadInv

----------------------------------------------------------------------------
(* The invariant holds initially and every step preserves it. *)

LEMMA InitInvariant == Init => QuorumInvariant
<1> SUFFICES ASSUME Init PROVE QuorumInvariant
  OBVIOUS
<1>1. NoValue \in Value /\ Stored(NoValue) /\ NoValue.version = ZeroVersion
  BY NoValueType DEF Stored, NoValue
<1>2. ReplicaTypeOK
  BY <1>1 DEF Init, ReplicaInit, ReplicaTypeOK
<1>3. ReplicaInv
  <2>1. AtLeast(NoValue.version, NoValue.version) /\ NoValue.version.lamport = 0
    BY <1>1, AtLeastFacts DEF ZeroVersion
  <2> QED
    BY <1>1, <2>1 DEF Init, ReplicaInit, ReplicaInv
<1>4. NoWrite \in WriteOp
  BY <1>1 DEF NoWrite, WriteOp, Version, ZeroVersion
<1>5. [t \in Nodes |-> <<>>] \in [Nodes -> Seq(Hint)]
  OBVIOUS
<1>6. WriteTypeOK
  BY <1>4, <1>5 DEF Init, WriteInit, WriteTypeOK, WriteStates
<1>7. WriteInv
  BY <1>1 DEF Init, WriteInit, WriteInv, WriteOK, NoWrite, Sent, Found, Holders
<1>8. ReadTypeOK
  BY <1>1 DEF Init, ReadInit, ReadTypeOK, ReadStates
<1>9. ReadInv
  BY <1>1 DEF Init, ReadInit, ReadInv, ReadOK
<1>10. rbefore \in [ReadIds -> SUBSET WriteIds] /\ faults \in 0..MaxFaults
       /\ crashes \in 0..MaxCrashes
  BY BoundsAssumption DEF Init
<1> QED
  BY <1>2, <1>3, <1>6, <1>7, <1>8, <1>9, <1>10 DEF QuorumInvariant, TypeOK

LEMMA StepInvariant ==
  ASSUME QuorumInvariant, [Next]_vars
  PROVE  QuorumInvariant' /\ Monotone
<1>1. /\ TypeOK /\ rbefore \in [ReadIds -> SUBSET WriteIds]
      /\ faults \in 0..MaxFaults /\ crashes \in 0..MaxCrashes
      /\ ReplicaTypeOK /\ ReplicaInv
  BY DEF QuorumInvariant, TypeOK
<1> DEFINE Keeps == /\ ReplicaTypeOK' /\ ReplicaInv' /\ Monotone
                    /\ WriteTypeOK' /\ WriteInv' /\ ReadTypeOK' /\ ReadInv'
<1>2. SUFFICES /\ Keeps /\ rbefore' \in [ReadIds -> SUBSET WriteIds]
               /\ faults' \in 0..MaxFaults /\ crashes' \in 0..MaxCrashes
  BY DEF QuorumInvariant, TypeOK
<1>3. CASE WriteStep /\ UNCHANGED <<readVars, rbefore, faults, crashes>>
  <2>1. /\ ReplicaTypeOK' /\ ReplicaInv' /\ Monotone
        /\ WriteTypeOK' /\ WriteInv' /\ Frozen
    <3>1. PICK w \in WriteIds :
            \/ WriteTick(w) \/ WritePrepare(w)
            \/ \E p \in Nodes : Deliver(w, p)
            \/ \E p \in Nodes : WriteAck(w, p)
            \/ \E p \in Nodes : WriteCancelled(w, p)
      BY <1>3 DEF WriteStep
    <3>2. CASE WriteTick(w)
      BY <3>2, WriteTickStep
    <3>3. CASE WritePrepare(w)
      BY <3>3, WritePrepareStep
    <3>4. CASE \E p \in Nodes : Deliver(w, p)
      BY <3>4, DeliverStep
    <3>5. CASE \E p \in Nodes : WriteAck(w, p)
      BY <3>5, WriteAckStep
    <3>6. CASE \E p \in Nodes : WriteCancelled(w, p)
      BY <3>6, CallErrorStep DEF WriteCancelled
    <3> QED
      BY <3>1, <3>2, <3>3, <3>4, <3>5, <3>6
  <2>2. ReadTypeOK' /\ ReadInv'
    BY <1>3, <2>1, ReadsStable
  <2> QED
    BY <1>1, <1>3, <2>1, <2>2
<1>4. CASE WriteFault /\ Fault /\ UNCHANGED <<readVars, rbefore, crashes>>
  <2>1. /\ ReplicaTypeOK' /\ ReplicaInv' /\ Monotone
        /\ WriteTypeOK' /\ WriteInv' /\ Frozen
    <3>1. PICK w \in WriteIds :
            \/ \E p \in Nodes : WriteError(w, p)
            \/ \E p \in Nodes : WriteLogError(w, p)
            \/ WriteTimeout(w)
      BY <1>4 DEF WriteFault
    <3>2. CASE \E p \in Nodes : WriteError(w, p)
      BY <3>2, CallErrorStep DEF WriteError
    <3>3. CASE \E p \in Nodes : WriteLogError(w, p)
      BY <3>3, WriteLogErrorStep
    <3>4. CASE WriteTimeout(w)
      BY <3>4, WriteTimeoutStep
    <3> QED
      BY <3>1, <3>2, <3>3, <3>4
  <2>2. ReadTypeOK' /\ ReadInv'
    BY <1>4, <2>1, ReadsStable
  <2>3. faults' \in 0..MaxFaults
    BY <1>1, <1>4, BoundsAssumption DEF Fault
  <2> QED
    BY <1>1, <1>4, <2>1, <2>2, <2>3
<1>5. CASE ReadStep /\ UNCHANGED <<writeVars, rbefore, faults, crashes>>
  <2>1. Keeps
    <3>1. PICK r \in ReadIds, p \in Nodes :
            \/ ReadServe(r, p) \/ ReadReceive(r, p)
            \/ RepairApply(r, p) \/ RepairLate(r, p)
      BY <1>5 DEF ReadStep
    <3>2. CASE ReadServe(r, p)
      BY <1>5, <3>2, ReadServeStep
    <3>3. CASE ReadReceive(r, p)
      BY <1>5, <3>3, ReadReceiveStep
    <3>4. CASE RepairApply(r, p) \/ RepairLate(r, p)
      BY <1>5, <3>4, RepairSteps
    <3> QED
      BY <3>1, <3>2, <3>3, <3>4
  <2> QED
    BY <1>1, <1>5, <2>1
<1>6. CASE ReadFault /\ Fault /\ UNCHANGED <<writeVars, rbefore, crashes>>
  <2>1. Keeps
    <3>1. PICK r \in ReadIds :
            \/ \E p \in Nodes : ReadError(r, p)
            \/ \E p \in Nodes : RepairLogError(r, p)
            \/ \E p \in Nodes : RepairError(r, p)
            \/ ReadTimeout(r)
      BY <1>6 DEF ReadFault
    <3>2. CASE (\E p \in Nodes : ReadError(r, p)) \/ ReadTimeout(r)
      BY <1>6, <3>2, ReadGivesUp
    <3>3. CASE \E p \in Nodes : RepairLogError(r, p) \/ RepairError(r, p)
      BY <1>6, <3>3, RepairSteps
    <3> QED
      BY <3>1, <3>2, <3>3
  <2>2. faults' \in 0..MaxFaults
    BY <1>1, <1>6, BoundsAssumption DEF Fault
  <2> QED
    BY <1>1, <1>6, <2>1, <2>2
<1>7. CASE \E r \in ReadIds : ClientRead(r)
  <2>1. UNCHANGED <<faults, crashes>>
    BY <1>7 DEF ClientRead
  <2> QED
    BY <1>1, <1>7, <2>1, ClientReadStep
<1>8. CASE \E n \in Nodes : Crash(n)
  <2>1. PICK n \in Nodes : Crash(n)
    BY <1>8
  <2>2. /\ ReplicaCrash(n) /\ WriteCrash(n) /\ ReadCrash(n)
        /\ crashes < MaxCrashes /\ crashes' = crashes + 1
        /\ UNCHANGED <<rbefore, faults>>
    BY <2>1 DEF Crash
  <2>3. /\ ReplicaTypeOK' /\ ReplicaInv' /\ Monotone
        /\ WriteTypeOK' /\ WriteInv' /\ Frozen
    BY <2>2, WriteCrashStep
  <2>4. ReadTypeOK' /\ ReadInv'
    BY <2>2, <2>3, ReadCrashStep
  <2>5. crashes' \in 0..MaxCrashes
    BY <1>1, <2>2, BoundsAssumption
  <2> QED
    BY <1>1, <2>2, <2>3, <2>4, <2>5
<1>9. CASE \E n \in Nodes : Restart(n)
  <2>1. PICK n \in Nodes : Restart(n)
    BY <1>9
  <2>2. ReplicaRestart(n) /\ UNCHANGED <<writeVars, readVars, rbefore, faults, crashes>>
    BY <2>1 DEF Restart
  <2>3. ReplicaTypeOK' /\ ReplicaInv' /\ Monotone
    BY <1>1, <2>2, RestartStep
  <2>4. WriteTypeOK' /\ WriteInv' /\ Frozen
    BY <2>2, <2>3, WritesStable
  <2>5. ReadTypeOK' /\ ReadInv'
    BY <2>2, <2>4, ReadsStable
  <2> QED
    BY <1>1, <2>2, <2>3, <2>4, <2>5
<1>10. CASE UNCHANGED vars
  <2>1. /\ UNCHANGED <<replicaVars, writeVars>> /\ UNCHANGED <<readVars, rbefore>>
        /\ UNCHANGED <<faults, crashes>>
    BY <1>10 DEF vars
  <2>2. /\ ReplicaTypeOK' /\ ReplicaInv' /\ Monotone
        /\ WriteTypeOK' /\ WriteInv' /\ Frozen
    BY <2>1, ReadContext
  <2>3. ReadTypeOK' /\ ReadInv'
    BY <2>1, <2>2, ReadsStable
  <2> QED
    BY <1>1, <2>1, <2>2, <2>3
<1> QED
  BY <1>3, <1>4, <1>5, <1>6, <1>7, <1>8, <1>9, <1>10 DEF Next, ServiceStep

=============================================================================
