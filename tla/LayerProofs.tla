---------------------------- MODULE LayerProofs ----------------------------
(***************************************************************************)
(* The parts the store stands on, each for every value of its constants.   *)
(* Within one policy, Resolve is a semilattice join on stored values.      *)
(* Both transports implement Call, for any members, calls and answers, and *)
(* any number of faults and deaths.  The control of the background loops   *)
(* keeps a loop running while the node says so.                            *)
(***************************************************************************)
EXTENDS MergeLaws, Transport, LoopControl, ConflictProofs

----------------------------------------------------------------------------
(* Last-write-wins: cmpValue is a total order on LWW values. *)

IsLWW(v) == Canonical(v) /\ v.policy = "LWW"

LEMMA LWWFields ==
  ASSUME NEW a, IsLWW(a)
  PROVE  /\ a \in Value /\ a.version \in Version /\ a.data \in Nat
         /\ a.tombstone \in BOOLEAN
         /\ a = [data |-> a.data, version |-> a.version, policy |-> "LWW",
                 tombstone |-> a.tombstone, crdt |-> NoCRDT]
BY DEF IsLWW, Canonical, WellFormed, Value

LEMMA CompareVersionTransitive ==
  ASSUME NEW a \in Version, NEW b \in Version, NEW c \in Version
  PROVE  /\ Less(a, b) /\ Less(b, c) => Less(a, c)
         /\ ~ (Less(a, b) /\ Less(b, a))
         /\ Less(a, b) \/ Less(b, a) \/ a = b
BY DEF Less, Version

\* The keys a comparison looks at, as one total preorder: cmp(a, b) >= 0.
LEMMA cmpValueCases ==
  ASSUME NEW a, NEW b, IsLWW(a), IsLWW(b)
  PROVE  cmpValue(a, b) >= 0 <=>
           \/ Less(b.version, a.version)
           \/ a.version = b.version /\ a.tombstone /\ ~ b.tombstone
           \/ a.version = b.version /\ a.tombstone = b.tombstone /\ a.data >= b.data
<1>1. /\ a.version \in Version /\ b.version \in Version
      /\ a.tombstone \in BOOLEAN /\ b.tombstone \in BOOLEAN
      /\ a.data \in Nat /\ b.data \in Nat
  BY LWWFields
<1> QED
  BY <1>1, CompareFacts, CompareVersionTransitive
     DEF cmpValue, CompareTombstone, CompareData, AtLeast

LEMMA cmpValueOrder ==
  ASSUME NEW a, NEW b, NEW c, IsLWW(a), IsLWW(b), IsLWW(c)
  PROVE  /\ cmpValue(a, b) >= 0 \/ cmpValue(b, a) >= 0
         /\ cmpValue(a, b) >= 0 /\ cmpValue(b, a) >= 0 => a = b
         /\ cmpValue(a, b) >= 0 /\ cmpValue(b, c) >= 0 => cmpValue(a, c) >= 0
<1>1. /\ a.version \in Version /\ b.version \in Version /\ c.version \in Version
      /\ a.tombstone \in BOOLEAN /\ b.tombstone \in BOOLEAN
      /\ c.tombstone \in BOOLEAN
      /\ a.data \in Nat /\ b.data \in Nat /\ c.data \in Nat
  BY LWWFields
<1>2. cmpValue(a, b) >= 0 \/ cmpValue(b, a) >= 0
  BY <1>1, cmpValueCases, CompareVersionTransitive
<1>3. cmpValue(a, b) >= 0 /\ cmpValue(b, a) >= 0 => a = b
  <2>1. SUFFICES ASSUME cmpValue(a, b) >= 0, cmpValue(b, a) >= 0
                 PROVE  /\ a.version = b.version
                        /\ a.tombstone = b.tombstone
                        /\ a.data = b.data
    BY LWWFields
  <2> QED
    BY <2>1, <1>1, cmpValueCases, CompareVersionTransitive
<1>4. cmpValue(a, b) >= 0 /\ cmpValue(b, c) >= 0 => cmpValue(a, c) >= 0
  BY <1>1, cmpValueCases, CompareVersionTransitive
<1> QED
  BY <1>2, <1>3, <1>4

LEMMA LWWLaws ==
  ASSUME NEW a, NEW b, NEW c, IsLWW(a), IsLWW(b), IsLWW(c)
  PROVE  /\ IsLWW(LWW(a, b))
         /\ LWW(a, b) = LWW(b, a)
         /\ LWW(LWW(a, b), c) = LWW(a, LWW(b, c))
         /\ LWW(LWW(a, b), a) = LWW(a, b)
         /\ LWW(LWW(a, b), LWW(a, b)) = LWW(a, b)
<1>1. \A u, v \in {a, b, c} :
        /\ cmpValue(u, v) >= 0 \/ cmpValue(v, u) >= 0
        /\ cmpValue(u, v) >= 0 /\ cmpValue(v, u) >= 0 => u = v
        /\ \A w \in {a, b, c} :
             cmpValue(u, v) >= 0 /\ cmpValue(v, w) >= 0 => cmpValue(u, w) >= 0
  BY cmpValueOrder
<1> QED
  BY <1>1 DEF LWW

----------------------------------------------------------------------------
(* The LWW-register: the same order on decoded registers. *)

IsReg(v) == Canonical(v) /\ v.policy = "CRDT_LWWREG"

RegOK(r) == r \in RegPayload /\ r.ts.lamport >= 1

LEMMA RegFields ==
  ASSUME NEW a, IsReg(a)
  PROVE  /\ RegOK(a.crdt)
         /\ decodeLWWReg(a) = a.crdt
         /\ a = encodeLWWReg(a.crdt)
<1>1. /\ a.crdt \in RegPayload /\ a = encodeLWWReg(a.crdt) /\ WellFormed(a)
  BY DEF IsReg, Canonical
<1>2. a.crdt.kind = "reg" /\ a.crdt.ts = a.version /\ a.version.lamport >= 1
  BY <1>1 DEF WellFormed, RegPayload
<1>3. ~ IsZero(a.crdt.ts)
  BY <1>1, <1>2 DEF IsZero, RegPayload, Version
<1> QED
  BY <1>1, <1>2, <1>3 DEF decodeLWWReg, RegOK

LEMMA EncodeReg ==
  ASSUME NEW r, RegOK(r)
  PROVE  IsReg(encodeLWWReg(r)) /\ encodeLWWReg(r).crdt = r
BY encodeLWWRegFacts DEF IsReg, Canonical, RegOK, encodeLWWReg

LEMMA cmpLWWRegCases ==
  ASSUME NEW a, NEW b, RegOK(a), RegOK(b)
  PROVE  cmpLWWReg(a, b) >= 0 <=>
           \/ Less(b.ts, a.ts)
           \/ a.ts = b.ts /\ a.tombstone /\ ~ b.tombstone
           \/ a.ts = b.ts /\ a.tombstone = b.tombstone /\ a.data >= b.data
<1>1. /\ a.ts \in Version /\ b.ts \in Version
      /\ a.tombstone \in BOOLEAN /\ b.tombstone \in BOOLEAN
      /\ a.data \in Nat /\ b.data \in Nat
  BY DEF RegOK, RegPayload
<1> QED
  BY <1>1, CompareFacts, CompareVersionTransitive
     DEF cmpLWWReg, CompareTombstone, CompareData, AtLeast

LEMMA cmpLWWRegOrder ==
  ASSUME NEW a, NEW b, NEW c, RegOK(a), RegOK(b), RegOK(c)
  PROVE  /\ cmpLWWReg(a, b) >= 0 \/ cmpLWWReg(b, a) >= 0
         /\ cmpLWWReg(a, b) >= 0 /\ cmpLWWReg(b, a) >= 0 => a = b
         /\ cmpLWWReg(a, b) >= 0 /\ cmpLWWReg(b, c) >= 0 => cmpLWWReg(a, c) >= 0
<1>1. /\ a.ts \in Version /\ b.ts \in Version /\ c.ts \in Version
      /\ a.tombstone \in BOOLEAN /\ b.tombstone \in BOOLEAN
      /\ c.tombstone \in BOOLEAN
      /\ a.data \in Nat /\ b.data \in Nat /\ c.data \in Nat
  BY DEF RegOK, RegPayload
<1>2. cmpLWWReg(a, b) >= 0 \/ cmpLWWReg(b, a) >= 0
  BY <1>1, cmpLWWRegCases, CompareVersionTransitive
<1>3. cmpLWWReg(a, b) >= 0 /\ cmpLWWReg(b, a) >= 0 => a = b
  <2>1. SUFFICES ASSUME cmpLWWReg(a, b) >= 0, cmpLWWReg(b, a) >= 0
                 PROVE  /\ a.ts = b.ts
                        /\ a.tombstone = b.tombstone
                        /\ a.data = b.data
    BY DEF RegOK, RegPayload
  <2> QED
    BY <2>1, <1>1, cmpLWWRegCases, CompareVersionTransitive
<1>4. cmpLWWReg(a, b) >= 0 /\ cmpLWWReg(b, c) >= 0 => cmpLWWReg(a, c) >= 0
  BY <1>1, cmpLWWRegCases, CompareVersionTransitive
<1> QED
  BY <1>2, <1>3, <1>4

\* The register MergeLWWReg keeps.
GreaterReg(r, s) == IF cmpLWWReg(r, s) >= 0 THEN r ELSE s

LEMMA GreaterRegLaws ==
  ASSUME NEW a, NEW b, NEW c, RegOK(a), RegOK(b), RegOK(c)
  PROVE  /\ RegOK(GreaterReg(a, b))
         /\ GreaterReg(a, b) = GreaterReg(b, a)
         /\ GreaterReg(GreaterReg(a, b), c) = GreaterReg(a, GreaterReg(b, c))
         /\ GreaterReg(GreaterReg(a, b), a) = GreaterReg(a, b)
         /\ GreaterReg(GreaterReg(a, b), GreaterReg(a, b)) = GreaterReg(a, b)
<1>1. \A u, v \in {a, b, c} :
        /\ cmpLWWReg(u, v) >= 0 \/ cmpLWWReg(v, u) >= 0
        /\ cmpLWWReg(u, v) >= 0 /\ cmpLWWReg(v, u) >= 0 => u = v
        /\ \A w \in {a, b, c} :
             cmpLWWReg(u, v) >= 0 /\ cmpLWWReg(v, w) >= 0 => cmpLWWReg(u, w) >= 0
  BY cmpLWWRegOrder
<1> QED
  BY <1>1 DEF GreaterReg

LEMMA MergeLWWRegIsGreater ==
  ASSUME NEW a, NEW b, IsReg(a), IsReg(b)
  PROVE  /\ MergeLWWReg(a, b) = encodeLWWReg(GreaterReg(a.crdt, b.crdt))
         /\ IsReg(MergeLWWReg(a, b))
         /\ MergeLWWReg(a, b).crdt = GreaterReg(a.crdt, b.crdt)
<1>1. MergeLWWReg(a, b) = encodeLWWReg(GreaterReg(a.crdt, b.crdt))
  BY RegFields DEF MergeLWWReg, GreaterReg
<1>2. RegOK(GreaterReg(a.crdt, b.crdt))
  BY RegFields DEF GreaterReg
<1> QED
  BY <1>1, <1>2, EncodeReg

LEMMA MergeLWWRegLaws ==
  ASSUME NEW a, NEW b, NEW c, IsReg(a), IsReg(b), IsReg(c)
  PROVE  LET m == MergeLWWReg(a, b)
         IN  /\ IsReg(m)
             /\ m = MergeLWWReg(b, a)
             /\ MergeLWWReg(m, c) = MergeLWWReg(a, MergeLWWReg(b, c))
             /\ MergeLWWReg(m, a) = m
             /\ MergeLWWReg(m, m) = m
<1>1. RegOK(a.crdt) /\ RegOK(b.crdt) /\ RegOK(c.crdt)
  BY RegFields
<1>2. IsReg(MergeLWWReg(a, b)) /\ IsReg(MergeLWWReg(b, c))
  BY MergeLWWRegIsGreater
<1> QED
  BY <1>1, <1>2, MergeLWWRegIsGreater, GreaterRegLaws

----------------------------------------------------------------------------
(* The OR-Set: unions of tags under the greater version. *)

IsORSet(v) == Canonical(v) /\ v.policy = "CRDT_ORSET"

LEMMA maxVerLaws ==
  ASSUME NEW a \in Version, NEW b \in Version, NEW c \in Version
  PROVE  /\ maxVer(a, b) = maxVer(b, a)
         /\ maxVer(maxVer(a, b), c) = maxVer(a, maxVer(b, c))
         /\ maxVer(maxVer(a, b), a) = maxVer(a, b)
         /\ maxVer(a, a) = a
<1>1. \A u, v \in {a, b, c} :
        /\ Compare(u, v) >= 0 <=> ~ Less(u, v)
        /\ ~ (Less(u, v) /\ Less(v, u))
        /\ Less(u, v) \/ Less(v, u) \/ u = v
        /\ \A w \in {a, b, c} : Less(u, v) /\ Less(v, w) => Less(u, w)
  BY CompareFacts, CompareVersionTransitive DEF AtLeast
<1> QED
  BY <1>1 DEF maxVer

LEMMA ORSetFields ==
  ASSUME NEW a, IsORSet(a)
  PROVE  /\ a.crdt \in OrSetPayload /\ a.version \in Version
         /\ a.version.lamport >= 1
         /\ decodeORSet(a) = a.crdt
         /\ a = encodeORSet(a.crdt, a.version)
BY DEF IsORSet, Canonical, WellFormed, Value, decodeORSet, OrSetPayload

LEMMA EncodeORSet ==
  ASSUME NEW s \in OrSetPayload, NEW ver \in Version, ver.lamport >= 1
  PROVE  /\ IsORSet(encodeORSet(s, ver))
         /\ encodeORSet(s, ver).crdt = s
         /\ encodeORSet(s, ver).version = ver
<1>1. /\ encodeORSet(s, ver) \in Value
      /\ encodeORSet(s, ver).version = ver
      /\ encodeORSet(s, ver).crdt.kind = "orset"
  BY encodeORSetType
<1>2. encodeORSet(s, ver).crdt = s /\ encodeORSet(s, ver).policy = "CRDT_ORSET"
  BY DEF encodeORSet
<1> QED
  BY <1>1, <1>2 DEF IsORSet, Canonical, WellFormed

LEMMA MergeORSetFields ==
  ASSUME NEW a, NEW b, IsORSet(a), IsORSet(b)
  PROVE  LET m == MergeORSet(a, b)
         IN  /\ IsORSet(m)
             /\ m.crdt = mergeORSetStates(a.crdt, b.crdt)
             /\ m.version = maxVer(a.version, b.version)
<1> DEFINE s == mergeORSetStates(a.crdt, b.crdt)
           v == maxVer(a.version, b.version)
<1>1. MergeORSet(a, b) = encodeORSet(s, v)
  BY ORSetFields DEF MergeORSet
<1>2. s \in OrSetPayload
  BY ORSetFields, mergeORSetStatesType
<1>3. v \in Version /\ v.lamport >= 1
  BY ORSetFields, MaxVersion
<1> HIDE DEF s, v
<1>4. IsORSet(encodeORSet(s, v)) /\ encodeORSet(s, v).crdt = s
      /\ encodeORSet(s, v).version = v
  BY <1>2, <1>3, EncodeORSet
<1> QED
  BY <1>1, <1>4 DEF s, v

LEMMA mergeStatesLaws ==
  ASSUME NEW a \in OrSetPayload, NEW b \in OrSetPayload, NEW c \in OrSetPayload
  PROVE  LET m == mergeORSetStates(a, b)
         IN  /\ m = mergeORSetStates(b, a)
             /\ mergeORSetStates(m, c) = mergeORSetStates(a, mergeORSetStates(b, c))
             /\ mergeORSetStates(m, a) = m
             /\ mergeORSetStates(m, m) = m
<1>1. \A A, B, C : /\ A \cup B = B \cup A
                   /\ (A \cup B) \cup C = A \cup (B \cup C)
                   /\ (A \cup B) \cup A = A \cup B
                   /\ A \cup A = A
  OBVIOUS
<1> QED
  BY Zenon, <1>1 DEF mergeORSetStates

\* Two OR-Set values with the same payload and version are the same.
LEMMA ORSetEqual ==
  ASSUME NEW a, NEW b, IsORSet(a), IsORSet(b),
         a.crdt = b.crdt, a.version = b.version
  PROVE  a = b
BY ORSetFields

LEMMA MergeORSetLaws ==
  ASSUME NEW a, NEW b, NEW c, IsORSet(a), IsORSet(b), IsORSet(c)
  PROVE  LET m == MergeORSet(a, b)
         IN  /\ IsORSet(m)
             /\ m = MergeORSet(b, a)
             /\ MergeORSet(m, c) = MergeORSet(a, MergeORSet(b, c))
             /\ MergeORSet(m, a) = m
             /\ MergeORSet(m, m) = m
<1> DEFINE m == MergeORSet(a, b)
           n == MergeORSet(b, c)
<1>1. /\ IsORSet(m) /\ IsORSet(n)
      /\ m.crdt = mergeORSetStates(a.crdt, b.crdt)
      /\ n.crdt = mergeORSetStates(b.crdt, c.crdt)
      /\ m.version = maxVer(a.version, b.version)
      /\ n.version = maxVer(b.version, c.version)
  BY MergeORSetFields
<1>2. /\ a.crdt \in OrSetPayload /\ b.crdt \in OrSetPayload
      /\ c.crdt \in OrSetPayload /\ m.crdt \in OrSetPayload
      /\ a.version \in Version /\ b.version \in Version
      /\ c.version \in Version /\ m.version \in Version
  BY <1>1, ORSetFields
<1>3. m = MergeORSet(b, a)
  BY <1>1, <1>2, MergeORSetFields, mergeStatesLaws, maxVerLaws, ORSetEqual
<1> HIDE DEF m, n
<1>4. MergeORSet(m, c) = MergeORSet(a, n)
  BY <1>1, <1>2, MergeORSetFields, mergeStatesLaws, maxVerLaws, ORSetEqual
<1>5. MergeORSet(m, a) = m
  BY <1>1, <1>2, MergeORSetFields, mergeStatesLaws, maxVerLaws, ORSetEqual
<1>6. MergeORSet(m, m) = m
  BY <1>1, <1>2, MergeORSetFields, mergeStatesLaws, maxVerLaws, ORSetEqual
<1> QED
  BY <1>1, <1>3, <1>4, <1>5, <1>6 DEF m, n

----------------------------------------------------------------------------
(* Resolve within one policy. *)

\* Within one policy Resolve is a commutative, associative, absorbing merge
\* and keeps the policy (Resolve and the three merges it calls).
THEOREM ResolveLaws ==
  ASSUME NEW a, NEW b, NEW c, Canonical(a), Canonical(b), Canonical(c),
         a.policy = b.policy, b.policy = c.policy
  PROVE  LET m == Resolve(a, b)
         IN  /\ Canonical(m) /\ m.policy = a.policy
             /\ m = Resolve(b, a)
             /\ Resolve(m, c) = Resolve(a, Resolve(b, c))
             /\ Resolve(m, a) = m
             /\ Resolve(m, m) = m
<1>1. \A u, v : u.policy = v.policy => ResolvePolicy(u, v) = u.policy
  BY DEF ResolvePolicy
<1>2. a.policy \in Policies
  BY DEF Canonical, WellFormed, Value
<1>3. CASE a.policy = "LWW"
  <2>1. IsLWW(a) /\ IsLWW(b) /\ IsLWW(c)
    BY <1>3 DEF IsLWW
  <2>2. \A u, v : IsLWW(u) /\ IsLWW(v) => Resolve(u, v) = LWW(u, v)
    BY <1>1 DEF Resolve, IsLWW
  <2>3. IsLWW(LWW(a, b)) /\ IsLWW(LWW(b, c))
    BY <2>1, LWWLaws
  <2> QED
    BY <2>1, <2>2, <2>3, LWWLaws, <1>3 DEF IsLWW
<1>4. CASE a.policy = "CRDT_LWWREG"
  <2>1. IsReg(a) /\ IsReg(b) /\ IsReg(c)
    BY <1>4 DEF IsReg
  <2>2. \A u, v : IsReg(u) /\ IsReg(v) => Resolve(u, v) = MergeLWWReg(u, v)
    BY <1>1 DEF Resolve, IsReg
  <2>3. IsReg(MergeLWWReg(a, b)) /\ IsReg(MergeLWWReg(b, c))
    BY <2>1, MergeLWWRegLaws
  <2> QED
    BY <2>1, <2>2, <2>3, MergeLWWRegLaws, <1>4 DEF IsReg
<1>5. CASE a.policy = "CRDT_ORSET"
  <2>1. IsORSet(a) /\ IsORSet(b) /\ IsORSet(c)
    BY <1>5 DEF IsORSet
  <2>2. \A u, v : IsORSet(u) /\ IsORSet(v) => Resolve(u, v) = MergeORSet(u, v)
    BY <1>1 DEF Resolve, IsORSet
  <2>3. IsORSet(MergeORSet(a, b)) /\ IsORSet(MergeORSet(b, c))
    BY <2>1, MergeORSetLaws
  <2> QED
    BY <2>1, <2>2, <2>3, MergeORSetLaws, <1>5 DEF IsORSet
<1> QED
  BY <1>2, <1>3, <1>4, <1>5 DEF Policies

\* The window always holds three stored values of one policy.
Window ==
  /\ {x, y, z} \subseteq Samples
  /\ x.policy = y.policy
  /\ y.policy = z.policy

\* Resolve is commutative, associative and absorbing on every stream of
\* stored values of one policy: ties, tombstones and duplicates included.
THEOREM MergeIsJoin ==
  MergeSpec => [](MergeCommutes /\ MergeAssociates /\ MergeAbsorbs)
<1>1. MergeInit => Window
  BY DEF MergeInit, Window
<1>2. Window /\ [MergeNext]_mergeVars => Window'
  BY DEF Window, MergeNext, Arrive, mergeVars
<1>3. Window => MergeCommutes /\ MergeAssociates /\ MergeAbsorbs
  BY ResolveLaws, SamplesAssumption
     DEF Window, MergeCommutes, MergeAssociates, MergeAbsorbs
<1> QED
  BY <1>1, <1>2, <1>3, PTL DEF MergeSpec

\* Two replicas that hold each other's value agree (Resolve in mergeIncoming).
THEOREM MergeCommutativity == MergeSpec => []MergeCommutes
  BY MergeIsJoin, PTL

\* A value that arrives again changes nothing (Resolve in mergeIncoming).
THEOREM MergeAbsorption == MergeSpec => []MergeAbsorbs
  BY MergeIsJoin, PTL

----------------------------------------------------------------------------
(* The transports. *)

FaultStates == {"idle", "called", "asleep", "ran", "ok", "error"}

FaultNetTypeOK ==
  /\ fstate \in [Calls -> FaultStates]
  /\ fanswer \in [Calls -> Answers \cup {Refused, Pending}]
  /\ fresult \in [Calls -> Answers \cup {Pending}]

\* The handler has answered a call exactly when the call has come that far.
AnswerKept(c) ==
  /\ fstate[c] \in {"idle", "called", "asleep"} => fanswer[c] = Pending
  /\ fstate[c] = "ran" => fanswer[c] \in Answers \cup {Refused}
  /\ fstate[c] = "error" => fanswer[c] \in {Pending, Refused}

FaultNetInv == FaultNetTypeOK /\ \A c \in Calls : AnswerKept(c)

LEMMA FaultNetInit == NetInit => FaultNetInv
  BY DEF NetInit, FaultNetInv, FaultNetTypeOK, AnswerKept, FaultStates

\* No operation of a test touches the calls that are under way.
LEMMA TestOpCalls ==
  ASSUME TestOp
  PROVE  UNCHANGED <<fstate, fdelayed, fanswer, fresult>>
  BY SMTT(30), Zenon DEF TestOp, Register, Unregister, Isolate, Recover, FailFromAfter,
         Partition, Drop, Delay, Heal, ResetFaults, fcallVars

\* What a step of a call can do to it.
LEMMA CallMoves ==
  ASSUME FaultNetInv, NEW c \in Calls, Invoke(c) \/ CallStep(c)
  PROVE  \/ /\ fstate[c] = "idle"
            /\ fstate' = [fstate EXCEPT ![c] = "called"]
            /\ UNCHANGED <<fanswer, fresult>>
         \/ /\ fstate[c] = "called"
            /\ fstate' = [fstate EXCEPT ![c] = "asleep"]
            /\ UNCHANGED <<fanswer, fresult>>
         \/ /\ fstate[c] \in {"called", "asleep"}
            /\ fstate' = [fstate EXCEPT ![c] = "error"]
            /\ UNCHANGED <<fanswer, fresult>>
         \/ /\ fstate[c] = "asleep"
            /\ fstate' = [fstate EXCEPT ![c] = "ran"]
            /\ \E a \in Answers \cup {Refused} : fanswer' = [fanswer EXCEPT ![c] = a]
            /\ UNCHANGED fresult
         \/ /\ fstate[c] = "ran" /\ fanswer[c] = Refused
            /\ fstate' = [fstate EXCEPT ![c] = "error"]
            /\ UNCHANGED <<fanswer, fresult>>
         \/ /\ fstate[c] = "ran" /\ fanswer[c] # Refused
            /\ fstate' = [fstate EXCEPT ![c] = "ok"]
            /\ fresult' = [fresult EXCEPT ![c] = fanswer[c]]
            /\ UNCHANGED fanswer
<1>1. CASE Invoke(c)
  BY <1>1 DEF Invoke
<1>2. CASE DispatchBlocked(c)
  BY <1>2 DEF DispatchBlocked, Unreachable
<1>3. CASE Dispatch(c)
  BY <1>3 DEF Dispatch, Unreachable
<1>4. CASE SleepCancelled(c)
  BY <1>4 DEF SleepCancelled, Unreachable
<1>5. CASE RunHandler(c)
  BY ZenonT(30), <1>5 DEF RunHandler
<1>6. CASE HandlerReturns(c)
  BY <1>6 DEF HandlerReturns
<1> QED
  BY <1>1, <1>2, <1>3, <1>4, <1>5, <1>6 DEF CallStep

LEMMA FaultNetStep ==
  FaultNetInv /\ [NetNext]_netVars => FaultNetInv'
<1> SUFFICES ASSUME FaultNetInv, [NetNext]_netVars PROVE FaultNetInv'
  OBVIOUS
<1>1. CASE UNCHANGED <<fstate, fanswer, fresult>>
  BY <1>1 DEF FaultNetInv, FaultNetTypeOK, AnswerKept
<1>2. ASSUME NEW c \in Calls, Invoke(c) \/ CallStep(c) PROVE FaultNetInv'
  <2>1. FaultNetTypeOK'
    BY <1>2, CallMoves DEF FaultNetInv, FaultNetTypeOK, FaultStates, AnswerKept
  <2>2. ASSUME NEW d \in Calls PROVE AnswerKept(d)'
    BY <1>2, CallMoves, EndpointsAssumption
       DEF FaultNetInv, FaultNetTypeOK, AnswerKept
  <2> QED
    BY <2>1, <2>2 DEF FaultNetInv
<1> QED
  BY <1>1, <1>2, TestOpCalls DEF NetNext, netVars, fcallVars

LEMMA FaultNetInvariant == NetSpec => []FaultNetInv
  BY FaultNetInit, FaultNetStep, PTL DEF NetSpec

\* A call that fails over the test network has had no effect, unless its
\* handler failed (Endpoint.ReplicateWrite and its siblings).
THEOREM FaultNetFailures == NetSpec => []FailedMeansNothing
<1>1. FaultNetInv => FailedMeansNothing
  BY DEF FaultNetInv, AnswerKept, FailedMeansNothing
<1> QED
  BY <1>1, FaultNetInvariant, PTL

\* The test network implements the calls the coordinator is written against,
\* whatever faults are injected (dispatch, sleep and the Endpoint methods).
THEOREM FaultNetRefinement == NetSpec => FaultNetImplementsCall
<1>1. NetInit => AsCall!CallInit
  BY DEF NetInit, AsCall!CallInit, FState, Pending, AsCall!Pending
<1>2. FaultNetInv /\ [NetNext]_netVars => [AsCall!CallNext]_(AsCall!callVars)
  <2> SUFFICES ASSUME FaultNetInv, [NetNext]_netVars
               PROVE  [AsCall!CallNext]_(AsCall!callVars)
    OBVIOUS
  <2> DEFINE open == [c \in Calls |-> FState(c)]
  <2>1. CASE UNCHANGED <<fstate, fanswer, fresult>>
    BY <2>1 DEF AsCall!callVars, FState
  <2>2. ASSUME NEW c \in Calls, Invoke(c) \/ CallStep(c)
        PROVE  \/ AsCall!Begin(c) \/ AsCall!Perform(c)
               \/ AsCall!Succeed(c) \/ AsCall!Fail(c)
               \/ UNCHANGED AsCall!callVars
    <3>1. ASSUME NEW s \in FaultStates, fstate' = [fstate EXCEPT ![c] = s]
          PROVE  open' = [open EXCEPT ![c] =
                   IF s \in {"called", "asleep", "ran"} THEN "open" ELSE s]
      BY ZenonT(30), <3>1 DEF FState, FaultNetInv, FaultNetTypeOK
    <3>2. open[c] = FState(c)
      OBVIOUS
    <3> HIDE DEF open
    <3>3. AnswerKept(c) /\ Pending = AsCall!Pending
      BY DEF FaultNetInv, Pending, AsCall!Pending
    <3>4. CASE /\ fstate[c] = "idle"
               /\ fstate' = [fstate EXCEPT ![c] = "called"]
               /\ UNCHANGED <<fanswer, fresult>>
      BY <3>1, <3>2, <3>4 DEF AsCall!Begin, FState, FaultStates, open
    <3>5. CASE /\ fstate[c] = "called"
               /\ fstate' = [fstate EXCEPT ![c] = "asleep"]
               /\ UNCHANGED <<fanswer, fresult>>
      BY <3>5 DEF AsCall!callVars, FState, FaultNetInv, FaultNetTypeOK
    <3>6. CASE /\ fstate[c] \in {"called", "asleep"}
               /\ fstate' = [fstate EXCEPT ![c] = "error"]
               /\ UNCHANGED <<fanswer, fresult>>
      BY <3>1, <3>2, <3>6 DEF AsCall!Fail, FState, FaultStates, open
    <3>7. CASE /\ fstate[c] = "asleep"
               /\ fstate' = [fstate EXCEPT ![c] = "ran"]
               /\ \E a \in Answers \cup {Refused} :
                    fanswer' = [fanswer EXCEPT ![c] = a]
               /\ UNCHANGED fresult
      <4>1. UNCHANGED open
        BY <3>7 DEF open, FState, FaultNetInv, FaultNetTypeOK
      <4> QED
        BY ZenonT(30), <3>2, <3>3, <3>7, <4>1 DEF AsCall!Perform, FState, AnswerKept, open
    <3>8. CASE /\ fstate[c] = "ran" /\ fanswer[c] = Refused
               /\ fstate' = [fstate EXCEPT ![c] = "error"]
               /\ UNCHANGED <<fanswer, fresult>>
      BY <3>1, <3>2, <3>8 DEF AsCall!Fail, FState, FaultStates, open
    <3>9. CASE /\ fstate[c] = "ran" /\ fanswer[c] # Refused
               /\ fstate' = [fstate EXCEPT ![c] = "ok"]
               /\ fresult' = [fresult EXCEPT ![c] = fanswer[c]]
               /\ UNCHANGED fanswer
      BY <3>1, <3>2, <3>3, <3>9
         DEF AsCall!Succeed, FState, FaultStates, AnswerKept, open
    <3> QED
      BY <2>2, CallMoves, <3>4, <3>5, <3>6, <3>7, <3>8, <3>9
  <2> QED
    BY <2>1, <2>2, TestOpCalls DEF NetNext, netVars, fcallVars, AsCall!CallNext
<1> QED
  BY <1>1, <1>2, FaultNetInvariant, PTL
     DEF NetSpec, FaultNetImplementsCall, AsCall!CallSpec

----------------------------------------------------------------------------

\* The sends that passed are among those counted, within the limit, and all of
\* them as long as the limit is not used up.
LimitInv ==
  /\ failAfter \in [Nodes -> Nat \cup {NoLimit}]
  /\ failCount \in [Nodes -> Nat]
  /\ passed \in [Nodes -> Nat]
  /\ \A n \in Nodes : failAfter[n] # NoLimit =>
       /\ passed[n] <= failCount[n]
       /\ passed[n] <= failAfter[n]
       /\ passed[n] < failAfter[n] => failCount[n] = passed[n]

LEMMA LimitStep == LimitInv /\ [NetNext]_netVars => LimitInv'
<1> SUFFICES ASSUME LimitInv, [NetNext]_netVars PROVE LimitInv'
  OBVIOUS
<1>1. CASE UNCHANGED <<failAfter, failCount, passed>>
  BY <1>1 DEF LimitInv
<1>2. ASSUME NEW n \in Nodes, NEW after \in FailAfters, FailFromAfter(n, after)
      PROVE  LimitInv'
  <2>1. after \in Nat
    BY FaultNetAssumption
  <2> QED
    BY <1>2, <2>1 DEF FailFromAfter, LimitInv, NoLimit
<1>3. CASE ResetFaults
  BY <1>3 DEF ResetFaults, LimitInv, NoLimit
<1>4. ASSUME NEW c \in Calls, Dispatch(c) PROVE LimitInv'
  <2> DEFINE n == CallFrom[c]
             count == IF failAfter[n] = NoLimit THEN failCount[n] ELSE failCount[n] + 1
  <2>1. n \in Nodes
    BY EndpointsAssumption
  <2>2. count \in Nat /\ failCount[n] \in Nat /\ passed[n] \in Nat
    BY <2>1 DEF LimitInv
  <2>3. /\ failCount' = [failCount EXCEPT ![n] = count]
        /\ \/ OverLimit(n, count) /\ UNCHANGED passed
           \/ ~ OverLimit(n, count) /\ passed' = [passed EXCEPT ![n] = @ + 1]
        /\ UNCHANGED failAfter
    BY <1>4 DEF Dispatch, Unreachable
  <2>4. failAfter[n] # NoLimit =>
          failAfter[n] \in Nat /\ count = failCount[n] + 1
    BY <2>1 DEF LimitInv
  <2>5. failAfter[n] # NoLimit => (OverLimit(n, count) <=> count > failAfter[n])
    BY DEF OverLimit
  <2> HIDE DEF n, count
  <2> QED
    BY <2>1, <2>2, <2>3, <2>4, <2>5 DEF LimitInv
<1>5. ASSUME NEW c \in Calls, Invoke(c) \/ CallStep(c), ~ Dispatch(c)
      PROVE  UNCHANGED <<failAfter, failCount, passed>>
  BY SMTT(30), Zenon, <1>5
     DEF Invoke, CallStep, DispatchBlocked, SleepCancelled, Unreachable,
              RunHandler, HandlerReturns, faultVars
<1>6. ASSUME TestOp,
             ~ \E n \in Nodes, after \in FailAfters : FailFromAfter(n, after),
             ~ ResetFaults
      PROVE  UNCHANGED <<failAfter, failCount, passed>>
  BY <1>6 DEF TestOp, Register, Unregister, Isolate, Recover, Partition, Drop,
              Delay, Heal, fcallVars
<1> QED
  BY <1>1, <1>2, <1>3, <1>4, <1>5, <1>6
     DEF NetNext, netVars, faultVars, fcallVars

\* FailFromAfter keeps its promise for every limit and every interleaving of
\* faults and sends (allowLocked and the operations on failAfter).
THEOREM FaultNetBudget == NetSpec => []FailBudget
<1>1. NetInit => LimitInv
  BY DEF NetInit, LimitInv, NoLimit
<1>2. LimitInv => FailBudget
  BY SMTT(30), Zenon DEF LimitInv, FailBudget
<1> QED
  BY <1>1, <1>2, LimitStep, PTL DEF NetSpec

----------------------------------------------------------------------------
(* HTTP. *)

ClientStates == {"idle", "called", "sent", "ok", "error", "abandoned"}

HTTPTypeOK ==
  /\ hstate \in [Calls -> ClientStates]
  /\ hanswer \in [Calls -> Answers \cup {Refused, Pending}]
  /\ inflight \subseteq Calls

\* A request is handled at most once and not before it is sent, and only a
\* handler that can fail refuses.
HandledOnce(c) ==
  /\ hstate[c] \in {"idle", "called"} => c \notin inflight /\ hanswer[c] = Pending
  /\ c \in inflight => hanswer[c] = Pending
  /\ hanswer[c] = Refused => MayRefuse(CallKind[c])

HTTPInv == HTTPTypeOK /\ \A c \in Calls : HandledOnce(c)

\* A step of a call moves this call only.
LEMMA ClientMoves ==
  ASSUME HTTPInv, NEW c \in Calls, Enter(c) \/ ClientStep(c)
  PROVE  /\ UNCHANGED hanswer
         /\ \/ /\ hstate[c] = "idle"
               /\ hstate' = [hstate EXCEPT ![c] = "called"]
               /\ UNCHANGED <<inflight, hresult>>
            \/ /\ hstate[c] = "called"
               /\ hstate' = [hstate EXCEPT ![c] = "sent"]
               /\ inflight' = inflight \cup {c}
               /\ UNCHANGED hresult
            \/ /\ hstate[c] \in {"called", "sent"}
               /\ hstate' = [hstate EXCEPT ![c] = "error"]
               /\ UNCHANGED <<inflight, hresult>>
            \/ /\ hstate[c] = "sent"
               /\ hanswer[c] # Pending
               /\ ~ (ChecksStatus(CallKind[c]) /\ StatusOf(CallKind[c], hanswer[c]) >= 300)
               /\ hstate' = [hstate EXCEPT ![c] = "ok"]
               /\ hresult' = [hresult EXCEPT ![c] = Decode(hanswer[c])]
               /\ UNCHANGED inflight
<1>1. CASE Enter(c)
  BY SMTT(30), Zenon, <1>1 DEF Enter
<1>2. CASE NoURL(c)
  BY ZenonT(30), <1>2 DEF NoURL, ReturnError
<1>3. CASE Send(c)
  BY <1>3 DEF Send
<1>4. CASE DoFails(c)
  BY <1>4 DEF DoFails, ReturnError
<1>5. CASE Receive(c)
  BY <1>5 DEF Receive, ReturnError
<1> QED
  BY ZenonT(30), <1>1, <1>2, <1>3, <1>4, <1>5 DEF ClientStep

\* Around the calls, only a death shows: its own calls are abandoned.
LEMMA AroundMoves ==
  ASSUME HTTPInv, NEW n \in Nodes,
         \/ Die(n) \/ DenyRace(n) \/ NewHTTPTransport(n)
         \/ \E ids \in SUBSET Nodes : Block(n, ids) \/ Unblock(n, ids)
  PROVE  /\ UNCHANGED <<inflight, hanswer, hresult>>
         /\ \/ UNCHANGED hstate
            \/ hstate' = [c \in Calls |->
                 IF CallFrom[c] = n /\ hstate[c] \in {"called", "sent"}
                 THEN "abandoned" ELSE hstate[c]]
  BY DEF Die, DenyRace, NewHTTPTransport, Block, Unblock, SetDeny, hcallVars

LEMMA HTTPStep == HTTPInv /\ [HTTPNext]_httpVars => HTTPInv'
<1> SUFFICES ASSUME HTTPInv, [HTTPNext]_httpVars PROVE HTTPInv'
  OBVIOUS
<1>1. CASE UNCHANGED httpVars
  BY <1>1 DEF httpVars, hcallVars, HTTPInv, HTTPTypeOK, HandledOnce
<1>2. ASSUME NEW c \in Calls, Enter(c) \/ ClientStep(c) PROVE HTTPInv'
  <2>1. HTTPTypeOK'
    BY <1>2, ClientMoves DEF HTTPInv, HTTPTypeOK, ClientStates
  <2>2. ASSUME NEW d \in Calls PROVE HandledOnce(d)'
    BY <1>2, ClientMoves DEF HTTPInv, HTTPTypeOK, HandledOnce
  <2> QED
    BY <2>1, <2>2 DEF HTTPInv
<1>3. ASSUME NEW c \in Calls, Handle(c) PROVE HTTPInv'
  <2>1. HTTPTypeOK'
    BY <1>3 DEF Handle, HTTPInv, HTTPTypeOK
  <2>2. ASSUME NEW d \in Calls PROVE HandledOnce(d)'
    BY <1>3, EndpointsAssumption DEF Handle, HTTPInv, HTTPTypeOK, HandledOnce
  <2> QED
    BY SMTT(30), Zenon, <2>1, <2>2 DEF HTTPInv
<1>4. ASSUME NEW n \in Nodes,
             \/ Die(n) \/ DenyRace(n) \/ NewHTTPTransport(n)
             \/ \E ids \in SUBSET Nodes : Block(n, ids) \/ Unblock(n, ids)
      PROVE  HTTPInv'
  <2>1. HTTPTypeOK'
    BY <1>4, AroundMoves DEF HTTPInv, HTTPTypeOK, ClientStates
  <2>2. ASSUME NEW d \in Calls PROVE HandledOnce(d)'
    BY <1>4, AroundMoves DEF HTTPInv, HTTPTypeOK, HandledOnce
  <2> QED
    BY <2>1, <2>2 DEF HTTPInv
<1> QED
  BY <1>1, <1>2, <1>3, <1>4 DEF HTTPNext

LEMMA HTTPInvariant == HTTPSpec => []HTTPInv
<1>1. HTTPInit => HTTPInv
  BY EndpointsAssumption DEF HTTPInit, HTTPInv, HTTPTypeOK, HandledOnce, ClientStates
<1> QED
  BY <1>1, HTTPStep, PTL DEF HTTPSpec

\* HTTP implements the calls the coordinator is written against, as long as
\* no member has its reads switched off: ReplicateRead does not look at the
\* status that would tell it (HTTPTransport and the handlers of /internal/).
THEOREM HTTPRefinement ==
  ASSUME ReadsRefuse = FALSE
  PROVE  HTTPSpec => HTTPImplementsCall
<1> DEFINE open == [c \in Calls |-> HState(c)]
<1>1. HTTPInit => OverHTTP!CallInit
  BY DEF HTTPInit, OverHTTP!CallInit, HState, Pending, OverHTTP!Pending
<1>2. HTTPInv /\ [HTTPNext]_httpVars => [OverHTTP!CallNext]_(OverHTTP!callVars)
  <2> SUFFICES ASSUME HTTPInv, [HTTPNext]_httpVars
               PROVE  [OverHTTP!CallNext]_(OverHTTP!callVars)
    OBVIOUS
  <2>1. CASE UNCHANGED httpVars
    BY SMTT(30), Zenon, <2>1 DEF httpVars, hcallVars, OverHTTP!callVars, HState
  <2>2. ASSUME NEW c \in Calls, Enter(c) \/ ClientStep(c)
        PROVE  \/ OverHTTP!Begin(c) \/ OverHTTP!Succeed(c) \/ OverHTTP!Fail(c)
               \/ UNCHANGED OverHTTP!callVars
    <3>1. ASSUME NEW s \in ClientStates, hstate' = [hstate EXCEPT ![c] = s]
          PROVE  open' = [open EXCEPT ![c] =
                   IF s \in {"called", "sent", "abandoned"} THEN "open" ELSE s]
      BY ZenonT(30), <3>1 DEF HState, HTTPInv, HTTPTypeOK
    <3>2. open[c] = HState(c)
      OBVIOUS
    <3>3. UNCHANGED hanswer
      BY <2>2, ClientMoves
    <3> HIDE DEF open
    <3> DEFINE Entered == /\ hstate[c] = "idle"
                          /\ hstate' = [hstate EXCEPT ![c] = "called"]
                          /\ UNCHANGED <<inflight, hresult>>
               Sent == /\ hstate[c] = "called"
                       /\ hstate' = [hstate EXCEPT ![c] = "sent"]
                       /\ inflight' = inflight \cup {c}
                       /\ UNCHANGED hresult
               GaveUp == /\ hstate[c] \in {"called", "sent"}
                         /\ hstate' = [hstate EXCEPT ![c] = "error"]
                         /\ UNCHANGED <<inflight, hresult>>
               Accepts == ~ (/\ ChecksStatus(CallKind[c])
                             /\ StatusOf(CallKind[c], hanswer[c]) >= 300)
               Received == /\ hstate[c] = "sent"
                           /\ hanswer[c] # Pending
                           /\ Accepts
                           /\ hstate' = [hstate EXCEPT ![c] = "ok"]
                           /\ hresult' = [hresult EXCEPT ![c] = Decode(hanswer[c])]
                           /\ UNCHANGED inflight
    <3>4. CASE Entered
      BY <3>1, <3>2, <3>3, <3>4 DEF OverHTTP!Begin, HState, ClientStates, open
    <3>5. CASE Sent
      BY <3>3, <3>5 DEF OverHTTP!callVars, HState, HTTPInv, HTTPTypeOK
    <3>6. CASE GaveUp
      BY SMTT(30), Zenon, <3>1, <3>2, <3>3, <3>6
         DEF OverHTTP!Fail, HState, ClientStates, open
    <3>7. CASE Received
      <4>1. hanswer[c] # Refused
        <5> SUFFICES ASSUME hanswer[c] = Refused PROVE FALSE
          OBVIOUS
        <5>1. CallKind[c] \in {"ReplicateWrite", "ReplayHint"}
          BY DEF HTTPInv, HandledOnce, MayRefuse
        <5>2. ChecksStatus(CallKind[c]) /\ StatusOf(CallKind[c], hanswer[c]) >= 300
          BY <5>1 DEF ChecksStatus, StatusOf
        <5> QED
          BY <3>7, <5>2
      <4>2. hanswer[c] \in Answers /\ Decode(hanswer[c]) = hanswer[c]
        BY <3>7, <4>1 DEF Decode, HTTPInv, HTTPTypeOK
      <4> QED
        BY SMTT(30), Zenon, <3>1, <3>2, <3>3, <3>7, <4>2
           DEF OverHTTP!Succeed, HState, ClientStates, open
    <3>8. Entered \/ Sent \/ GaveUp \/ Received
      BY ZenonT(30), <2>2, ClientMoves
    <3> HIDE DEF Entered, Sent, GaveUp, Received
    <3> QED
      BY <3>4, <3>5, <3>6, <3>7, <3>8
  <2>3. ASSUME NEW c \in Calls, Handle(c) PROVE OverHTTP!Perform(c)
    <3>1. hstate[c] # "idle" /\ hanswer[c] = Pending
      BY <2>3 DEF Handle, HTTPInv, HandledOnce
    <3>2. UNCHANGED open
      BY <2>3 DEF Handle, HState
    <3> QED
      BY ZenonT(30), <2>3, <3>1, <3>2
         DEF Handle, OverHTTP!Perform, HState, Pending, OverHTTP!Pending
  <2>4. ASSUME NEW n \in Nodes,
               \/ Die(n) \/ DenyRace(n) \/ NewHTTPTransport(n)
               \/ \E ids \in SUBSET Nodes : Block(n, ids) \/ Unblock(n, ids)
        PROVE  UNCHANGED OverHTTP!callVars
    BY <2>4, AroundMoves DEF OverHTTP!callVars, HState, HTTPInv, HTTPTypeOK
  <2> QED
    BY <2>1, <2>2, <2>3, <2>4 DEF HTTPNext, OverHTTP!CallNext
<1> QED
  BY <1>1, <1>2, HTTPInvariant, PTL
     DEF HTTPSpec, HTTPImplementsCall, OverHTTP!CallSpec

----------------------------------------------------------------------------
(* The control of the loops. *)

ControlTypeOK ==
  /\ antiOn \in [Nodes -> BOOLEAN]
  /\ stopAnti \in [Nodes -> 0..MaxStarts]
  /\ closed \in [Nodes -> SUBSET Starts]
  /\ goAt \in [Nodes -> [Starts -> {"none", "away", "select", "gone"}]]
  /\ goChan \in [Nodes -> [Starts -> 0..MaxStarts]]

\* No channel is closed before it is made.  While the loop is on, its channel
\* is open and the goroutine that was started with it waits on no other: the
\* field changes only when the loop is off.
ControlOK(n) ==
  LET g == stopAnti[n]
  IN  /\ \A c \in closed[n] : c <= g
      /\ antiOn[n] => /\ g \in Starts /\ g \notin closed[n] /\ Alive(n, g)
                      /\ goAt[n][g] = "select" => goChan[n][g] = g

ControlInv == ControlTypeOK /\ \A n \in Nodes : ControlOK(n)

LEMMA ControlStep == ControlInv /\ [ControlNext]_controlVars => ControlInv'
<1> SUFFICES ASSUME ControlInv, [ControlNext]_controlVars PROVE ControlInv'
  OBVIOUS
<1> USE StartsAssumption
<1>1. ASSUME NEW n \in Nodes, StartAntiEntropy(n) PROVE ControlInv'
  <2> DEFINE g == stopAnti[n] + 1
  <2>1. /\ g \in Starts /\ antiOn' = [antiOn EXCEPT ![n] = TRUE]
        /\ stopAnti' = [stopAnti EXCEPT ![n] = g]
        /\ goAt' = [goAt EXCEPT ![n][g] = "away"] /\ UNCHANGED <<closed, goChan>>
    BY <1>1 DEF StartAntiEntropy
  <2>2. g \notin closed[n] /\ \A c \in closed[n] : c <= g
    BY DEF ControlInv, ControlOK, ControlTypeOK, Starts
  <2> HIDE DEF g
  <2>3. ControlTypeOK'
    BY <2>1 DEF ControlInv, ControlTypeOK, Starts
  <2>4. ASSUME NEW m \in Nodes PROVE ControlOK(m)'
    BY <2>1, <2>2 DEF ControlInv, ControlTypeOK, ControlOK, Alive
  <2> QED
    BY <2>3, <2>4 DEF ControlInv
<1>2. ASSUME NEW n \in Nodes, StopAntiEntropy(n) PROVE ControlInv'
  <2>1. ControlTypeOK'
    BY <1>2 DEF StopAntiEntropy, ControlInv, ControlTypeOK, ControlOK
  <2>2. ASSUME NEW m \in Nodes PROVE ControlOK(m)'
    BY <1>2 DEF StopAntiEntropy, ControlInv, ControlTypeOK, ControlOK, Alive
  <2> QED
    BY <2>1, <2>2 DEF ControlInv
<1>3. ASSUME NEW n \in Nodes, GoStep(n) PROVE ControlInv'
  <2>1. PICK g \in Starts : LoopSelect(n, g) \/ LoopWork(n, g) \/ LoopReturn(n, g)
    BY <1>3 DEF GoStep
  <2>2. CASE LoopSelect(n, g)
    <3>1. ControlTypeOK'
      BY <2>2 DEF LoopSelect, ControlInv, ControlTypeOK
    <3>2. ASSUME NEW m \in Nodes PROVE ControlOK(m)'
      BY <2>2 DEF LoopSelect, ControlInv, ControlTypeOK, ControlOK, Alive
    <3> QED
      BY <3>1, <3>2 DEF ControlInv
  <2>3. CASE LoopWork(n, g)
    <3>1. ControlTypeOK'
      BY <2>3 DEF LoopWork, ControlInv, ControlTypeOK
    <3>2. ASSUME NEW m \in Nodes PROVE ControlOK(m)'
      BY <2>3 DEF LoopWork, ControlInv, ControlTypeOK, ControlOK, Alive
    <3> QED
      BY <3>1, <3>2 DEF ControlInv
  <2>4. CASE LoopReturn(n, g)
    <3>1. ControlTypeOK'
      BY <2>4 DEF LoopReturn, ControlInv, ControlTypeOK
    <3>2. ASSUME NEW m \in Nodes PROVE ControlOK(m)'
      BY <2>4 DEF LoopReturn, ControlInv, ControlTypeOK, ControlOK, Alive
    <3> QED
      BY <3>1, <3>2 DEF ControlInv
  <2> QED
    BY <2>1, <2>2, <2>3, <2>4
<1>4. ASSUME NEW n \in Nodes, ControlDie(n) PROVE ControlInv'
  <2>1. ControlTypeOK'
    BY <1>4 DEF ControlDie, ControlInv, ControlTypeOK
  <2>2. ASSUME NEW m \in Nodes PROVE ControlOK(m)'
    BY <1>4 DEF ControlDie, ControlInv, ControlTypeOK, ControlOK, Alive
  <2> QED
    BY <2>1, <2>2 DEF ControlInv
<1>5. CASE UNCHANGED controlVars
  BY <1>5 DEF controlVars, ControlInv, ControlTypeOK, ControlOK, Alive
<1> QED
  BY <1>1, <1>2, <1>3, <1>4, <1>5 DEF ControlNext

\* While the loop of a node is on, a goroutine runs that nothing has told to
\* stop, for any number of starts, stops and process deaths in any order,
\* although a goroutine reads the field stopAnti without the lock
\* (StartAntiEntropy, StopAntiEntropy).
THEOREM LoopRuns == ControlSpec => []OnHasLoop
<1>1. ControlInit => ControlInv
  BY StartsAssumption DEF ControlInit, ControlInv, ControlTypeOK, ControlOK
<1>2. ControlInv => OnHasLoop
  BY DEF ControlInv, ControlOK, OnHasLoop
<1> QED
  BY <1>1, <1>2, ControlStep, PTL DEF ControlSpec

=============================================================================
