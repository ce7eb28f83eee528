----------------------------- MODULE Conflict -----------------------------
(***************************************************************************)
(* The merge functions of internal/conflict: last-write-wins, the          *)
(* LWW-register, the OR-Set, and Resolve, which picks one of them from the *)
(* policies and versions of its two arguments.                             *)
(***************************************************************************)
EXTENDS Types

----------------------------------------------------------------------------
(* Last-write-wins. *)

\* bytes.Compare on payload ranks.
CompareData(x, y) == IF x < y THEN -1 ELSE IF x > y THEN 1 ELSE 0

\* A tombstone sorts above a live value of the same version.
CompareTombstone(s, t) == IF s = t THEN 0 ELSE IF s THEN 1 ELSE -1

\* A comparison without the extra keys.
cmpVersionOnly(a, b) == Compare(a.version, b.version)

\* Version first, then tombstone, then payload bytes.
cmpValue(a, b) ==
  LET byVersion   == Compare(a.version, b.version)
      byTombstone == CompareTombstone(a.tombstone, b.tombstone)
  IN  IF byVersion # 0 THEN byVersion
      ELSE IF byTombstone # 0 THEN byTombstone
      ELSE CompareData(a.data, b.data)

\* A merge that takes over the newer version and keeps the older payload.
LWWVersionOnly(a, b) ==
  IF cmpValue(a, b) >= 0 THEN a ELSE [a EXCEPT !.version = b.version]

LWW(a, b) == IF cmpValue(a, b) >= 0 THEN a ELSE b

----------------------------------------------------------------------------
(* The LWW-register. *)

\* A register that forgets that it was deleted.
newLWWRegLive(data, ts, tombstone) ==
  [kind |-> "reg", data |-> data, ts |-> ts, tombstone |-> FALSE]

newLWWReg(data, ts, tombstone) ==
  [kind |-> "reg", data |-> data, ts |-> ts, tombstone |-> tombstone]

\* A payload that does not decode to a register with a timestamp falls back
\* to the plain fields of the value.
decodeLWWReg(v) ==
  IF v.crdt.kind = "reg" /\ ~ IsZero(v.crdt.ts)
  THEN v.crdt
  ELSE newLWWReg(v.data, v.version, v.tombstone)

encodeLWWReg(r) ==
  [data |-> r.data, version |-> r.ts, policy |-> "CRDT_LWWREG",
   tombstone |-> r.tombstone, crdt |-> r]

cmpLWWReg(a, b) ==
  LET byVersion   == Compare(a.ts, b.ts)
      byTombstone == CompareTombstone(a.tombstone, b.tombstone)
  IN  IF byVersion # 0 THEN byVersion
      ELSE IF byTombstone # 0 THEN byTombstone
      ELSE CompareData(a.data, b.data)

MergeLWWReg(a, b) ==
  LET ra == decodeLWWReg(a)
      rb == decodeLWWReg(b)
  IN  encodeLWWReg(IF cmpLWWReg(ra, rb) >= 0 THEN ra ELSE rb)

ApplyLWWRegWrite(current, data, ts, tombstone) ==
  LET incoming == encodeLWWReg(newLWWReg(data, ts, tombstone))
  IN  IF Found(current) THEN MergeLWWReg(current, incoming) ELSE incoming

----------------------------------------------------------------------------
(* The OR-Set.  Data of an OR-Set value is the JSON of Elements(), a       *)
(* function of the payload, so it carries no state of its own here (0).    *)

emptyORSet == [kind |-> "orset", adds |-> {}, rems |-> {}, remKeys |-> {}]

decodeORSet(v) == IF v.crdt.kind = "orset" THEN v.crdt ELSE emptyORSet

encodeORSet(s, ver) ==
  [data |-> 0, version |-> ver, policy |-> "CRDT_ORSET",
   tombstone |-> FALSE, crdt |-> s]

Add(s, elem, tag) == [s EXCEPT !.adds = @ \cup {<<elem, tag>>}]

\* A remove tombstones exactly the tags it has observed.
Remove(s, elem) ==
  [s EXCEPT !.rems = @ \cup {at \in s.adds : at[1] = elem},
            !.remKeys = @ \cup {elem}]

Contains(s, elem) == \E at \in s.adds : at[1] = elem /\ at \notin s.rems

\* A set in which any remove of an element wins over all its adds.
ElementsRemoveWins(s) == {at[1] : at \in s.adds} \ s.remKeys

Elements(s) == {at[1] : at \in s.adds \ s.rems}

\* A merge that lets the remove tags of one side win.
mergeDropsRemoves(a, b) ==
  [kind |-> "orset", adds |-> a.adds \cup b.adds, rems |-> a.rems,
   remKeys |-> a.remKeys]

mergeORSetStates(a, b) ==
  [kind |-> "orset", adds |-> a.adds \cup b.adds, rems |-> a.rems \cup b.rems,
   remKeys |-> a.remKeys \cup b.remKeys]

maxVer(a, b) == IF Compare(a, b) >= 0 THEN a ELSE b

\* A merge that stamps its result with a version of its own.
MergeORSetNewVersion(a, b) ==
  LET v == maxVer(a.version, b.version)
  IN  encodeORSet(mergeORSetStates(decodeORSet(a), decodeORSet(b)),
                  [v EXCEPT !.lamport = @ + 1])

MergeORSet(a, b) ==
  encodeORSet(mergeORSetStates(decodeORSet(a), decodeORSet(b)),
              maxVer(a.version, b.version))

\* current = NoValue is the call with found = false.
ApplyORSetOp(current, op, elem, tag, ver) ==
  LET s == decodeORSet(current)
  IN  encodeORSet(IF op = "remove" THEN Remove(s, elem) ELSE Add(s, elem, tag),
                  ver)

----------------------------------------------------------------------------
(* Resolution under the policies of the two values. *)

ResolvePolicy(a, b) ==
  IF b.policy # a.policy /\ ~ IsZero(b.version) /\ Compare(b.version, a.version) > 0
  THEN b.policy
  ELSE IF IsZero(a.version) THEN b.policy ELSE a.policy

Resolve(a, b) ==
  LET policy == ResolvePolicy(a, b)
  IN  CASE policy = "CRDT_LWWREG" -> MergeLWWReg(a, b)
        [] policy = "CRDT_ORSET"  -> MergeORSet(a, b)
        [] OTHER                  -> LWW(a, b)

\* One turn of ResolveMany's loop: views that found nothing are skipped, the
\* first found value starts the accumulator.
ResolveNext(acc, v) ==
  IF ~ Found(v) THEN acc
  ELSE IF ~ Found(acc) THEN v
  ELSE Resolve(acc, v)

----------------------------------------------------------------------------
(* What the coordinator and the replicas do with the value they hold. *)

\* The payload of a write: its operation on top of the local value.
localPrepare(cur, req, ver, tag) ==
  CASE req.policy = "CRDT_ORSET" ->
         ApplyORSetOp(cur, req.op, req.elem, tag, ver)
    [] req.policy = "CRDT_LWWREG" ->
         ApplyLWWRegWrite(cur, req.data, ver, req.tombstone)
    [] OTHER ->
         [data |-> req.data, version |-> ver, policy |-> "LWW",
          tombstone |-> req.tombstone, crdt |-> NoCRDT]

\* A replica that stores what arrives without merging it.
overwriteIncoming(cur, incoming) == incoming

\* A replica that keeps what it has once it has something.
keepCurrent(cur, incoming) == IF Found(cur) THEN cur ELSE incoming

mergeIncoming(cur, incoming) ==
  IF Found(cur) THEN Resolve(cur, incoming) ELSE incoming

----------------------------------------------------------------------------
(* The values a write can put into the system: the version comes from a    *)
(* Tick, and a register's timestamp is the version of its value.  The      *)
(* merges rely on it: MergeLWWReg orders by the timestamp and stores it as *)
(* the version.                                                            *)

WellFormed(v) ==
  /\ v \in Value
  /\ v.version.lamport >= 1
  /\ v.crdt.kind = "reg" => v.crdt.ts = v.version

\* The form in which each policy stores its values.
Canonical(v) ==
  /\ WellFormed(v)
  /\ v.policy = "LWW" => v.crdt = NoCRDT
  /\ v.policy = "CRDT_LWWREG" => v.crdt \in RegPayload /\ v = encodeLWWReg(v.crdt)
  /\ v.policy = "CRDT_ORSET" =>
       v.crdt \in OrSetPayload /\ v = encodeORSet(v.crdt, v.version)

============================================================================
