--------------------------- MODULE ConflictProofs ---------------------------
(***************************************************************************)
(* Facts about versions and merges that hold for every node set, key set   *)
(* and element set.                                                        *)
(***************************************************************************)
EXTENDS Conflict, TLAPS

----------------------------------------------------------------------------
(* The order of versions. *)

\* Compare decides a strict total order: exactly one of a < b, b < a, a = b.
LEMMA CompareFacts ==
  ASSUME NEW a \in Version, NEW b \in Version
  PROVE  /\ Compare(a, b) \in {-1, 0, 1}
         /\ Compare(a, b) >= 0 <=> AtLeast(a, b)
         /\ Compare(a, b) > 0 <=> Less(b, a)
         /\ Compare(a, b) = 0 <=> a = b
         /\ AtLeast(a, b) \/ AtLeast(b, a)
BY DEF Compare, AtLeast, Less, Version

LEMMA AtLeastTransitive ==
  ASSUME NEW a \in Version, NEW b \in Version, NEW c \in Version,
         AtLeast(a, b), AtLeast(b, c)
  PROVE  AtLeast(a, c)
BY DEF AtLeast, Less, Version

LEMMA AtLeastFacts ==
  /\ ZeroVersion \in Version
  /\ \A a \in Version : AtLeast(a, a) /\ AtLeast(a, ZeroVersion)
  /\ \A a, b \in Version : AtLeast(a, b) => a.lamport >= b.lamport
BY DEF AtLeast, Less, Version, ZeroVersion

LEMMA MaxVersion ==
  ASSUME NEW a \in Version, NEW b \in Version
  PROVE  /\ maxVer(a, b) \in {a, b}
         /\ AtLeast(maxVer(a, b), a)
         /\ AtLeast(maxVer(a, b), b)
BY CompareFacts, AtLeastFacts DEF maxVer

----------------------------------------------------------------------------
(* Types of the CRDT operations. *)

LEMMA NoValueType == NoValue \in Value
BY AtLeastFacts DEF NoValue, Value, Policies

\* The payload of a value is of one of three kinds, told apart by its kind.
LEMMA PayloadKinds ==
  ASSUME NEW v \in Value
  PROVE  /\ v.crdt.kind = "reg" => v.crdt \in RegPayload
         /\ v.crdt.kind = "orset" => v.crdt \in OrSetPayload
BY DEF Value, NoCRDT, RegPayload, OrSetPayload

LEMMA decodeORSetType ==
  ASSUME NEW v \in Value
  PROVE  decodeORSet(v) \in OrSetPayload
BY PayloadKinds DEF decodeORSet, emptyORSet, OrSetPayload

LEMMA encodeORSetType ==
  ASSUME NEW s \in OrSetPayload, NEW ver \in Version
  PROVE  /\ encodeORSet(s, ver) \in Value
         /\ encodeORSet(s, ver).version = ver
         /\ encodeORSet(s, ver).crdt.kind = "orset"
BY DEF encodeORSet, Value, Policies, OrSetPayload

LEMMA mergeORSetStatesType ==
  ASSUME NEW s \in OrSetPayload, NEW t \in OrSetPayload
  PROVE  mergeORSetStates(s, t) \in OrSetPayload
BY DEF mergeORSetStates, OrSetPayload

LEMMA ORSetOpType ==
  ASSUME NEW s \in OrSetPayload, NEW e \in Elems, NEW tag \in Tags
  PROVE  Add(s, e, tag) \in OrSetPayload /\ Remove(s, e) \in OrSetPayload
<1> DEFINE seen == {at \in s.adds : at[1] = e}
<1>1. /\ s.adds \cup {<<e, tag>>} \in SUBSET (Elems \X Tags)
      /\ s.rems \cup seen \in SUBSET (Elems \X Tags)
      /\ s.remKeys \cup {e} \in SUBSET Elems
  BY DEF OrSetPayload
<1> HIDE DEF seen
<1>2. /\ [s EXCEPT !.adds = s.adds \cup {<<e, tag>>}] \in OrSetPayload
      /\ [s EXCEPT !.rems = s.rems \cup seen, !.remKeys = s.remKeys \cup {e}]
           \in OrSetPayload
  BY Zenon, <1>1 DEF OrSetPayload
<1> QED
  BY <1>2 DEF Add, Remove, seen

----------------------------------------------------------------------------
(* What the merges do to well-formed values. *)

\* decodeLWWReg recovers a register stamped with the version of the value.
LEMMA decodeLWWRegFacts ==
  ASSUME NEW v, WellFormed(v)
  PROVE  decodeLWWReg(v) \in RegPayload /\ decodeLWWReg(v).ts = v.version
<1>1. v \in Value /\ v.version \in Version /\ v.data \in Nat
      /\ v.tombstone \in BOOLEAN
  BY DEF WellFormed, Value
<1>2. CASE v.crdt.kind = "reg" /\ ~ IsZero(v.crdt.ts)
  BY <1>1, <1>2, PayloadKinds DEF decodeLWWReg, WellFormed
<1>3. CASE ~ (v.crdt.kind = "reg" /\ ~ IsZero(v.crdt.ts))
  BY <1>1, <1>3 DEF decodeLWWReg, newLWWReg, RegPayload
<1> QED
  BY <1>2, <1>3

LEMMA encodeLWWRegFacts ==
  ASSUME NEW r \in RegPayload, r.ts.lamport >= 1
  PROVE  WellFormed(encodeLWWReg(r)) /\ encodeLWWReg(r).version = r.ts
BY DEF encodeLWWReg, WellFormed, Value, RegPayload, Policies

LEMMA CompareRest ==
  /\ \A x, y \in Nat : CompareData(x, y) \in {-1, 0, 1}
  /\ \A s, t \in BOOLEAN : CompareTombstone(s, t) \in {-1, 0, 1}
BY DEF CompareData, CompareTombstone

\* The merges keep the greater of the two versions.
LEMMA LWWVersion ==
  ASSUME NEW a, NEW b, WellFormed(a), WellFormed(b)
  PROVE  /\ LWW(a, b) \in {a, b}
         /\ AtLeast(LWW(a, b).version, a.version)
         /\ AtLeast(LWW(a, b).version, b.version)
<1>1. /\ a.version \in Version /\ b.version \in Version
      /\ a.tombstone \in BOOLEAN /\ b.tombstone \in BOOLEAN
      /\ a.data \in Nat /\ b.data \in Nat
  BY DEF WellFormed, Value
<1>2. cmpValue(a, b) >= 0 => AtLeast(a.version, b.version)
  BY <1>1, CompareFacts, CompareRest DEF cmpValue
<1>3. ~ (cmpValue(a, b) >= 0) => AtLeast(b.version, a.version)
  BY <1>1, CompareFacts, CompareRest DEF cmpValue
<1> QED
  BY <1>1, <1>2, <1>3, AtLeastFacts DEF LWW

LEMMA MergeLWWRegVersion ==
  ASSUME NEW a, NEW b, WellFormed(a), WellFormed(b)
  PROVE  /\ WellFormed(MergeLWWReg(a, b))
         /\ MergeLWWReg(a, b).version \in {a.version, b.version}
         /\ AtLeast(MergeLWWReg(a, b).version, a.version)
         /\ AtLeast(MergeLWWReg(a, b).version, b.version)
<1> DEFINE ra == decodeLWWReg(a)
           rb == decodeLWWReg(b)
<1>1. /\ ra \in RegPayload /\ ra.ts = a.version
      /\ rb \in RegPayload /\ rb.ts = b.version
  BY decodeLWWRegFacts
<1>2. /\ a.version \in Version /\ b.version \in Version
      /\ a.version.lamport >= 1 /\ b.version.lamport >= 1
  BY DEF WellFormed, Value
<1>3. /\ WellFormed(encodeLWWReg(ra)) /\ encodeLWWReg(ra).version = a.version
      /\ WellFormed(encodeLWWReg(rb)) /\ encodeLWWReg(rb).version = b.version
  BY <1>1, <1>2, encodeLWWRegFacts
<1>4. /\ ra.tombstone \in BOOLEAN /\ rb.tombstone \in BOOLEAN
      /\ ra.data \in Nat /\ rb.data \in Nat
  BY <1>1 DEF RegPayload
<1>5. cmpLWWReg(ra, rb) >= 0 => AtLeast(a.version, b.version)
  <2> HIDE DEF ra, rb
  <2> QED BY <1>1, <1>2, <1>4, CompareFacts, CompareRest DEF cmpLWWReg
<1>6. ~ (cmpLWWReg(ra, rb) >= 0) => AtLeast(b.version, a.version)
  <2> HIDE DEF ra, rb
  <2> QED BY <1>1, <1>2, <1>4, CompareFacts, CompareRest DEF cmpLWWReg
<1> QED
  BY <1>2, <1>3, <1>5, <1>6, AtLeastFacts DEF MergeLWWReg

LEMMA MergeORSetVersion ==
  ASSUME NEW a, NEW b, WellFormed(a), WellFormed(b)
  PROVE  /\ WellFormed(MergeORSet(a, b))
         /\ MergeORSet(a, b).version \in {a.version, b.version}
         /\ AtLeast(MergeORSet(a, b).version, a.version)
         /\ AtLeast(MergeORSet(a, b).version, b.version)
<1> DEFINE s == mergeORSetStates(decodeORSet(a), decodeORSet(b))
           ver == maxVer(a.version, b.version)
<1>1. /\ a \in Value /\ b \in Value
      /\ a.version \in Version /\ b.version \in Version
      /\ a.version.lamport >= 1 /\ b.version.lamport >= 1
  BY DEF WellFormed, Value
<1>2. s \in OrSetPayload
  BY <1>1, decodeORSetType, mergeORSetStatesType
<1>3. /\ ver \in Version /\ ver.lamport >= 1
      /\ AtLeast(ver, a.version) /\ AtLeast(ver, b.version)
      /\ ver \in {a.version, b.version}
  BY <1>1, MaxVersion
<1>4. MergeORSet(a, b) = encodeORSet(s, ver)
  BY DEF MergeORSet
<1> HIDE DEF s, ver
<1> QED
  BY <1>2, <1>3, <1>4, encodeORSetType DEF WellFormed

\* Whatever policies meet, resolving two well-formed values gives a
\* well-formed value that carries the greater of their versions (Resolve).
THEOREM ResolveVersion ==
  ASSUME NEW a, NEW b, WellFormed(a), WellFormed(b)
  PROVE  /\ WellFormed(Resolve(a, b))
         /\ Resolve(a, b).version \in {a.version, b.version}
         /\ AtLeast(Resolve(a, b).version, a.version)
         /\ AtLeast(Resolve(a, b).version, b.version)
BY LWWVersion, MergeLWWRegVersion, MergeORSetVersion DEF Resolve

=============================================================================
