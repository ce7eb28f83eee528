--------------------------- MODULE ReplicaProofs ----------------------------
(***************************************************************************)
(* What one step of a replica preserves: a merge never goes back to an     *)
(* older version, and the log covers everything the map ever held.         *)
(***************************************************************************)
EXTENDS QuorumInv, ConflictProofs

----------------------------------------------------------------------------
(* One merge. *)

LEMMA StoredFacts ==
  ASSUME NEW v, Stored(v)
  PROVE  /\ v \in Value /\ v.version \in Version
         /\ Found(v) => WellFormed(v)
         /\ WellFormed(v) => Found(v)
<1>1. NoValue.version = ZeroVersion /\ NoValue \in Value
  BY NoValueType DEF NoValue
<1>2. v \in Value
  BY <1>1 DEF Stored, WellFormed
<1>3. WellFormed(v) => v.version # ZeroVersion
  BY DEF WellFormed, ZeroVersion
<1> QED
  BY <1>1, <1>2, <1>3 DEF Stored, Found, Value

\* Whatever a replica held, after the merge it holds a well-formed value at
\* least as new as before and as the incoming one, whose version is one of
\* the two.
LEMMA MergeFacts ==
  ASSUME NEW cur, NEW v, Stored(cur), WellFormed(v)
  PROVE  LET m == mergeIncoming(cur, v)
         IN  /\ WellFormed(m)
             /\ m.version \in {cur.version, v.version}
             /\ AtLeast(m.version, cur.version)
             /\ AtLeast(m.version, v.version)
<1>1. v.version \in Version
  BY DEF WellFormed, Value
<1>2. CASE Found(cur)
  BY <1>2, StoredFacts, ResolveVersion DEF mergeIncoming
<1>3. CASE ~ Found(cur)
  <2>1. cur.version = ZeroVersion
    BY <1>3 DEF Found, NoValue
  <2> QED
    BY <1>1, <1>3, <2>1, AtLeastFacts DEF mergeIncoming
<1> QED
  BY <1>2, <1>3

LEMMA ResolveNextFacts ==
  ASSUME NEW acc, NEW v, Stored(acc), Stored(v)
  PROVE  /\ Stored(ResolveNext(acc, v))
         /\ AtLeast(ResolveNext(acc, v).version, acc.version)
         /\ AtLeast(ResolveNext(acc, v).version, v.version)
         /\ Found(acc) => Found(ResolveNext(acc, v))
<1>1. acc.version \in Version /\ v.version \in Version
  BY StoredFacts
<1>2. \A u : ~ Found(u) => u.version = ZeroVersion
  BY DEF Found, NoValue
<1>3. CASE ~ Found(v)
  BY <1>1, <1>2, <1>3, AtLeastFacts DEF ResolveNext
<1>4. CASE Found(v) /\ ~ Found(acc)
  BY <1>1, <1>2, <1>4, AtLeastFacts DEF ResolveNext
<1>5. CASE Found(v) /\ Found(acc)
  <2>1. WellFormed(v) /\ WellFormed(acc)
    BY <1>5, StoredFacts
  <2>2. Stored(Resolve(acc, v)) /\ Found(Resolve(acc, v))
    BY <2>1, ResolveVersion, StoredFacts DEF Stored
  <2> QED
    BY <2>1, <2>2, <1>5, ResolveVersion DEF ResolveNext
<1> QED
  BY <1>3, <1>4, <1>5

\* The payload of a write carries at least the version the write was given.
LEMMA localPrepareFacts ==
  ASSUME NEW cur, Stored(cur), NEW req \in WriteReq, NEW ver \in Version,
         ver.lamport >= 1, NEW tag \in Tags
  PROVE  LET v == localPrepare(cur, req, ver, tag)
         IN  WellFormed(v) /\ AtLeast(v.version, ver)
<1> DEFINE v == localPrepare(cur, req, ver, tag)
<1>1. /\ req.elem \in Elems /\ req.data \in Nat /\ req.tombstone \in BOOLEAN
      /\ req.policy \in Policies
  BY DEF WriteReq
<1>2. AtLeast(ver, ver)
  BY AtLeastFacts
<1>3. CASE req.policy = "CRDT_ORSET"
  <2> DEFINE s == IF req.op = "remove" THEN Remove(decodeORSet(cur), req.elem)
                                       ELSE Add(decodeORSet(cur), req.elem, tag)
  <2>1. v = encodeORSet(s, ver)
    BY <1>3 DEF localPrepare, ApplyORSetOp
  <2>2. s \in OrSetPayload
    BY <1>1, StoredFacts, decodeORSetType, ORSetOpType
  <2> HIDE DEF s, v
  <2> QED
    BY <1>2, <2>1, <2>2, encodeORSetType DEF WellFormed, v
<1>4. CASE req.policy = "CRDT_LWWREG"
  <2> DEFINE r == newLWWReg(req.data, ver, req.tombstone)
             i == encodeLWWReg(r)
  <2>1. r \in RegPayload /\ r.ts = ver
    BY <1>1 DEF newLWWReg, RegPayload
  <2> HIDE DEF r
  <2>2. WellFormed(i) /\ i.version = ver
    BY <2>1, encodeLWWRegFacts
  <2>3. v = IF Found(cur) THEN MergeLWWReg(cur, i) ELSE i
    BY <1>4 DEF localPrepare, ApplyLWWRegWrite, r
  <2> HIDE DEF i, v
  <2> QED
    BY <1>2, <2>2, <2>3, StoredFacts, MergeLWWRegVersion DEF v
<1>5. CASE req.policy = "LWW"
  <2>1. v = [data |-> req.data, version |-> ver, policy |-> "LWW",
             tombstone |-> req.tombstone, crdt |-> NoCRDT]
    BY <1>5 DEF localPrepare
  <2>2. WellFormed(v) /\ v.version = ver
    BY <1>1, <2>1 DEF WellFormed, Value, Policies, NoCRDT
  <2> QED
    BY <1>2, <2>2
<1> QED
  BY <1>1, <1>3, <1>4, <1>5 DEF Policies

----------------------------------------------------------------------------
(* One step of a replica. *)

\* No replica goes back to an older version.
Monotone ==
  \A n \in Nodes, k \in Keys : AtLeast(kv'[n][k].version, kv[n][k].version)

LEMMA KVUnchanged ==
  ASSUME ReplicaTypeOK, UNCHANGED kv
  PROVE  Monotone
BY AtLeastFacts DEF ReplicaTypeOK, Monotone, Value

\* An entry in the log: the replay gives a value at least as new as before
\* and as the entry, and the clock it restores covers it.
LEMMA LogAppendFacts ==
  ASSUME ReplicaTypeOK, ReplicaInv, NEW p \in Nodes, NEW k \in Keys,
         NEW v, WellFormed(v), LogAppend(p, k, v)
  PROVE  /\ disk' \in [Nodes -> [Keys -> Value]] /\ logged' \in [Nodes -> Nat]
         /\ \A n \in Nodes :
              logged'[n] = IF n = p THEN Observe(logged[p], v.version.lamport)
                                    ELSE logged[n]
         /\ \A n \in Nodes, j \in Keys :
              /\ Stored(disk'[n][j]) /\ logged'[n] >= disk'[n][j].version.lamport
              /\ AtLeast(disk'[n][j].version, disk[n][j].version)
         /\ AtLeast(disk'[p][k].version, v.version)
<1> DEFINE m == mergeIncoming(disk[p][k], v)
           o == Observe(logged[p], v.version.lamport)
<1>1. /\ WellFormed(m) /\ m.version \in {disk[p][k].version, v.version}
      /\ AtLeast(m.version, disk[p][k].version) /\ AtLeast(m.version, v.version)
  BY MergeFacts DEF ReplicaInv
<1>2. /\ disk' = [disk EXCEPT ![p][k] = m] /\ logged' = [logged EXCEPT ![p] = o]
  BY DEF LogAppend
<1>3. /\ disk \in [Nodes -> [Keys -> Value]] /\ logged \in [Nodes -> Nat]
  BY DEF ReplicaTypeOK
<1>4. /\ m \in Value /\ v.version.lamport \in Nat
      /\ \A n \in Nodes, j \in Keys : /\ disk[n][j].version \in Version
                                      /\ disk[n][j].version.lamport \in Nat
  BY <1>1, <1>3 DEF WellFormed, Value, Version
<1>5. o \in Nat /\ o >= logged[p] /\ o >= v.version.lamport
  BY <1>3, <1>4 DEF Observe
<1> HIDE DEF m, o
<1>6. /\ disk' \in [Nodes -> [Keys -> Value]] /\ logged' \in [Nodes -> Nat]
      /\ \A n \in Nodes : logged'[n] = IF n = p THEN o ELSE logged[n]
      /\ \A n \in Nodes, j \in Keys :
           disk'[n][j] = IF n = p /\ j = k THEN m ELSE disk[n][j]
  BY <1>2, <1>3, <1>4, <1>5
<1>7. ASSUME NEW n \in Nodes, NEW j \in Keys
      PROVE  /\ Stored(disk'[n][j]) /\ logged'[n] >= disk'[n][j].version.lamport
             /\ AtLeast(disk'[n][j].version, disk[n][j].version)
  <2>1. Stored(disk[n][j]) /\ logged[n] >= disk[n][j].version.lamport
    BY DEF ReplicaInv
  <2>2. CASE n = p /\ j = k
    <3>1. disk'[n][j] = m /\ logged'[n] = o
      BY <1>6, <2>2
    <3>2. o >= m.version.lamport
      BY <1>1, <1>3, <1>4, <1>5, <2>1, <2>2
    <3> QED
      BY <1>1, <2>2, <3>1, <3>2 DEF Stored
  <2>3. CASE ~ (n = p /\ j = k)
    <3>1. disk'[n][j] = disk[n][j]
      BY <1>6, <2>3
    <3>2. logged'[n] >= logged[n]
      BY <1>3, <1>5, <1>6
    <3>3. logged'[n] >= disk[n][j].version.lamport
      BY <1>3, <1>4, <1>6, <2>1, <3>2
    <3> QED
      BY <1>4, <2>1, <3>1, <3>3, AtLeastFacts
  <2> QED
    BY <2>2, <2>3
<1>8. AtLeast(disk'[p][k].version, v.version)
  BY <1>1, <1>6
<1> QED
  BY <1>6, <1>7, <1>8 DEF o

\* A received value: it may reach the log without the map, never the map
\* without the log.
LEMMA ReceiveStep ==
  ASSUME ReplicaTypeOK, ReplicaInv, NEW p \in Nodes, NEW k \in Keys,
         NEW v, WellFormed(v),
         clock' = [clock EXCEPT ![p] = Observe(@, v.version.lamport)],
         UNCHANGED up,
         LogAppend(p, k, v) \/ UNCHANGED <<disk, logged>>,
         \/ UNCHANGED kv
         \/ kv' = [kv EXCEPT ![p][k] = mergeIncoming(@, v)] /\ LogAppend(p, k, v)
  PROVE  ReplicaTypeOK' /\ ReplicaInv' /\ Monotone
<1> DEFINE m == mergeIncoming(kv[p][k], v)
           c == Observe(clock[p], v.version.lamport)
<1>1. /\ WellFormed(m) /\ m.version \in {kv[p][k].version, v.version}
      /\ AtLeast(m.version, kv[p][k].version)
  BY MergeFacts DEF ReplicaInv
<1>2. /\ kv \in [Nodes -> [Keys -> Value]] /\ clock \in [Nodes -> Nat]
      /\ disk \in [Nodes -> [Keys -> Value]]
      /\ logged \in [Nodes -> Nat] /\ up \in [Nodes -> BOOLEAN]
  BY DEF ReplicaTypeOK
<1>3. /\ m \in Value /\ v.version \in Version /\ v.version.lamport \in Nat
      /\ \A n \in Nodes, j \in Keys :
           kv[n][j].version \in Version /\ disk[n][j].version \in Version
  BY <1>1, <1>2 DEF WellFormed, Value, Version
<1>4. /\ c \in Nat /\ c >= clock[p] /\ c >= Observe(logged[p], v.version.lamport)
  BY <1>2, <1>3 DEF Observe, ReplicaInv
<1>5. clock' = [clock EXCEPT ![p] = c]
  OBVIOUS
<1>6. /\ disk' \in [Nodes -> [Keys -> Value]] /\ logged' \in [Nodes -> Nat]
      /\ \A n \in Nodes, j \in Keys :
           /\ Stored(disk'[n][j]) /\ logged'[n] >= disk'[n][j].version.lamport
           /\ AtLeast(disk'[n][j].version, disk[n][j].version)
      /\ \A n \in Nodes :
           \/ logged'[n] = logged[n]
           \/ n = p /\ logged'[n] = Observe(logged[p], v.version.lamport)
  <2>1. CASE LogAppend(p, k, v)
    BY <2>1, LogAppendFacts
  <2>2. CASE UNCHANGED <<disk, logged>>
    BY <1>2, <1>3, <2>2, AtLeastFacts DEF ReplicaInv
  <2> QED
    BY <2>1, <2>2
<1> HIDE DEF c
<1>7. /\ clock' \in [Nodes -> Nat]
      /\ \A n \in Nodes : clock'[n] >= logged'[n]
  <2>1. /\ clock' \in [Nodes -> Nat]
        /\ \A n \in Nodes : clock'[n] = IF n = p THEN c ELSE clock[n]
    BY <1>2, <1>4, <1>5
  <2>2. \A n \in Nodes : clock[n] >= logged[n]
    BY DEF ReplicaInv
  <2> QED
    BY <1>2, <1>4, <1>6, <2>1, <2>2
<1>8. /\ kv' \in [Nodes -> [Keys -> Value]] /\ Monotone
      /\ \A n \in Nodes, j \in Keys :
           Stored(kv'[n][j]) /\ AtLeast(disk'[n][j].version, kv'[n][j].version)
  <2>1. \A n \in Nodes, j \in Keys :
          /\ Stored(kv[n][j]) /\ disk'[n][j].version \in Version
          /\ AtLeast(disk'[n][j].version, kv[n][j].version)
    <3> SUFFICES ASSUME NEW n \in Nodes, NEW j \in Keys
                 PROVE  /\ Stored(kv[n][j]) /\ disk'[n][j].version \in Version
                        /\ AtLeast(disk'[n][j].version, kv[n][j].version)
      OBVIOUS
    <3>1. Stored(kv[n][j]) /\ AtLeast(disk[n][j].version, kv[n][j].version)
      BY DEF ReplicaInv
    <3>2. disk'[n][j].version \in Version
      BY <1>6 DEF Value
    <3> QED
      BY <1>3, <1>6, <3>1, <3>2, AtLeastTransitive
  <2>2. CASE UNCHANGED kv
    BY <1>2, <2>1, <2>2, KVUnchanged
  <2>3. CASE kv' = [kv EXCEPT ![p][k] = m] /\ LogAppend(p, k, v)
    <3>1. AtLeast(disk'[p][k].version, v.version)
      BY <2>3, LogAppendFacts
    <3>2. AtLeast(disk'[p][k].version, m.version)
      BY <1>1, <2>1, <3>1
    <3> HIDE DEF m
    <3>3. /\ kv' \in [Nodes -> [Keys -> Value]]
          /\ \A n \in Nodes, j \in Keys :
               kv'[n][j] = IF n = p /\ j = k THEN m ELSE kv[n][j]
      BY <1>2, <1>3, <2>3
    <3>4. Monotone
      BY <1>1, <1>3, <3>3, AtLeastFacts DEF Monotone
    <3>5. Stored(m)
      BY <1>1 DEF Stored
    <3> QED
      BY <2>1, <3>2, <3>3, <3>4, <3>5
  <2> QED
    BY <2>2, <2>3
<1>9. ReplicaTypeOK'
  BY <1>2, <1>6, <1>7, <1>8 DEF ReplicaTypeOK
<1>10. ReplicaInv'
  BY <1>6, <1>7, <1>8 DEF ReplicaInv
<1> QED
  BY <1>8, <1>9, <1>10

LEMMA ApplyStep ==
  ASSUME ReplicaTypeOK, ReplicaInv, NEW p \in Nodes, NEW k \in Keys,
         NEW v, WellFormed(v), Apply(p, k, v)
  PROVE  /\ ReplicaTypeOK' /\ ReplicaInv' /\ Monotone
         /\ AtLeast(kv'[p][k].version, v.version)
<1> DEFINE m == mergeIncoming(kv[p][k], v)
<1>1. /\ kv' = [kv EXCEPT ![p][k] = m]
      /\ clock' = [clock EXCEPT ![p] = Observe(@, v.version.lamport)]
      /\ IF m # kv[p][k] THEN LogAppend(p, k, v) ELSE UNCHANGED <<disk, logged>>
      /\ UNCHANGED up
  BY DEF Apply, ChangesReplica
<1>2. AtLeast(m.version, v.version)
  BY MergeFacts DEF ReplicaInv
<1>3. kv \in [Nodes -> [Keys -> Value]]
  BY DEF ReplicaTypeOK
<1>4. kv'[p][k] = m /\ (m = kv[p][k] => UNCHANGED kv)
  BY <1>1, <1>3
<1>5. ReplicaTypeOK' /\ ReplicaInv' /\ Monotone
  <2>1. CASE m = kv[p][k]
    BY Zenon, <1>1, <1>4, <2>1, ReceiveStep
  <2>2. CASE m # kv[p][k]
    BY Zenon, <1>1, <2>2, ReceiveStep
  <2> QED
    BY <2>1, <2>2
<1> QED
  BY <1>2, <1>4, <1>5

LEMMA ApplyLogErrorStep ==
  ASSUME ReplicaTypeOK, ReplicaInv, NEW p \in Nodes, NEW k \in Keys,
         NEW v, WellFormed(v), ApplyLogError(p, k, v)
  PROVE  ReplicaTypeOK' /\ ReplicaInv' /\ Monotone
BY Zenon, ReceiveStep DEF ApplyLogError

\* A restart: the replay is at least as new as what memory held.
LEMMA RestartStep ==
  ASSUME ReplicaTypeOK, ReplicaInv, NEW n \in Nodes, ReplicaRestart(n)
  PROVE  ReplicaTypeOK' /\ ReplicaInv' /\ Monotone
<1>1. /\ kv \in [Nodes -> [Keys -> Value]] /\ clock \in [Nodes -> Nat]
      /\ disk \in [Nodes -> [Keys -> Value]]
      /\ logged \in [Nodes -> Nat] /\ up \in [Nodes -> BOOLEAN]
  BY DEF ReplicaTypeOK
<1>2. /\ up' = [up EXCEPT ![n] = TRUE] /\ kv' = [kv EXCEPT ![n] = disk[n]]
      /\ clock' = [clock EXCEPT ![n] = logged[n]] /\ UNCHANGED <<disk, logged>>
  BY DEF ReplicaRestart
<1>3. ReplicaTypeOK'
  BY <1>1, <1>2 DEF ReplicaTypeOK
<1>4. \A q \in Nodes, k \in Keys :
        kv'[q][k] = IF q = n THEN disk[q][k] ELSE kv[q][k]
  BY <1>1, <1>2
<1>5. \A q \in Nodes, k \in Keys :
        kv[q][k].version \in Version /\ disk[q][k].version \in Version
  BY <1>1 DEF Value
<1>6. Monotone
  BY <1>4, <1>5, AtLeastFacts DEF Monotone, ReplicaInv
<1>7. \A q \in Nodes : clock'[q] >= logged'[q]
  BY <1>1, <1>2 DEF ReplicaInv
<1>8. \A q \in Nodes, k \in Keys :
        /\ Stored(kv'[q][k]) /\ Stored(disk'[q][k])
        /\ AtLeast(disk'[q][k].version, kv'[q][k].version)
        /\ logged'[q] >= disk'[q][k].version.lamport
  BY <1>2, <1>4, <1>5, AtLeastFacts DEF ReplicaInv
<1>9. ReplicaInv'
  BY <1>7, <1>8 DEF ReplicaInv
<1> QED
  BY <1>3, <1>6, <1>9

\* The steps of a replica that leave its map and its log alone.
LEMMA OtherReplicaSteps ==
  ASSUME ReplicaTypeOK, ReplicaInv, NEW n \in Nodes,
         TickClock(n) \/ ReplicaCrash(n) \/ UNCHANGED replicaVars
  PROVE  ReplicaTypeOK' /\ ReplicaInv' /\ Monotone
<1>0. UNCHANGED <<kv, disk, logged>>
  BY DEF TickClock, ReplicaCrash, replicaVars
<1>1. /\ clock \in [Nodes -> Nat] /\ logged \in [Nodes -> Nat]
      /\ up \in [Nodes -> BOOLEAN] /\ \A q \in Nodes : clock[q] >= logged[q]
  BY DEF ReplicaTypeOK, ReplicaInv
<1>2. /\ clock' \in [Nodes -> Nat] /\ up' \in [Nodes -> BOOLEAN]
      /\ \A q \in Nodes : clock'[q] >= logged[q]
  <2>1. CASE TickClock(n)
    BY <1>1, <2>1 DEF TickClock, Tick
  <2>2. CASE ReplicaCrash(n)
    BY <1>1, <2>2 DEF ReplicaCrash
  <2>3. CASE UNCHANGED replicaVars
    BY <1>1, <2>3 DEF replicaVars
  <2> QED
    BY <2>1, <2>2, <2>3
<1>3. ReplicaTypeOK' /\ ReplicaInv'
  BY <1>0, <1>2 DEF ReplicaTypeOK, ReplicaInv
<1> QED
  BY <1>0, <1>3, KVUnchanged

============================================================================
