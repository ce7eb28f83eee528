---------------------------- MODULE StoreProofs ----------------------------
(***************************************************************************)
(* The invariants of requests and repair together: every step of the store *)
(* with its background repair preserves both.                              *)
(***************************************************************************)
EXTENDS ReadProofs, RepairProofs

\* A step that leaves the writes and the reads alone but may change the
\* replicas and the hints.
LEMMA RequestsStable ==
  ASSUME QuorumInvariant, ReplicaTypeOK', ReplicaInv', Monotone,
         hints' \in [Nodes -> [Nodes -> Seq(Hint)]],
         UNCHANGED <<wstate, wop, net, pend, acked, tagCounter>>,
         UNCHANGED <<readVars, rbefore>>,
         faults' \in 0..MaxFaults, crashes' \in 0..MaxCrashes
  PROVE  QuorumInvariant'
<1>1. /\ ReplicaTypeOK /\ WriteTypeOK /\ WriteInv
      /\ rbefore \in [ReadIds -> SUBSET WriteIds]
  BY DEF QuorumInvariant, TypeOK
<1>2. WriteTypeOK' /\ Frozen
  BY <1>1 DEF WriteTypeOK, Frozen
<1>3. WriteInv'
  <2> SUFFICES ASSUME NEW w \in WriteIds PROVE WriteOK(w)'
    BY DEF WriteInv
  <2> QED
    BY <1>1, <1>2, WriteUntouched DEF WriteInv
<1>4. ReadTypeOK' /\ ReadInv'
  BY <1>2, ReadsStable
<1> QED
  BY <1>1, <1>2, <1>3, <1>4 DEF QuorumInvariant, TypeOK

\* A report of a failed call keeps the hints sound: its payload exists.
LEMMA ReportKeepsHints ==
  ASSUME QuorumInvariant, HintsSound, NEW w \in WriteIds, NEW p \in Nodes,
         p \in pend[w], ReportError(w, p)
  PROVE  HintsSound'
<1> DEFINE n == WNode(w)
           h == [key |-> WKey(w), value |-> wop[w].val]
<1>1. WriteOK(w) /\ n \in Nodes /\ WKey(w) \in Keys
  BY RequestTypes DEF QuorumInvariant, WriteInv
<1>2. Found(wop[w].val) /\ Stored(wop[w].val)
  BY <1>1 DEF WriteOK, Sent
<1>3. wop[w].val \in SoundValue
  BY <1>2, StoredFacts DEF SoundValue
<1>4. h \in SoundHint
  BY <1>1, <1>3 DEF SoundHint
<1>5. hints' = hints \/ hints' = [hints EXCEPT ![n][p] = Append(@, h)]
  BY DEF ReportError, StoreHint
<1> HIDE DEF n, h
<1>6. Append(hints[n][p], h) \in Seq(SoundHint)
  BY <1>1, <1>4 DEF HintsSound
<1>7. CASE hints' = [hints EXCEPT ![n][p] = Append(@, h)]
  <2> DEFINE more == Append(hints[n][p], h)
  <2>1. hints' = [hints EXCEPT ![n][p] = more]
    BY <1>7
  <2>2. more \in Seq(SoundHint)
    BY <1>6
  <2> HIDE DEF more
  <2> QED
    BY <1>1, <2>1, <2>2 DEF HintsSound
<1> QED
  BY ZenonT(30), <1>5, <1>7 DEF HintsSound

\* Requests only add sound hints, and stop no process.
LEMMA ServiceEffect ==
  ASSUME QuorumInvariant, HintsSound, ServiceStep
  PROVE  HintsSound' /\ \A n \in Nodes : up[n] => up'[n]
<1>1. up \in [Nodes -> BOOLEAN]
  BY DEF QuorumInvariant, TypeOK, ReplicaTypeOK
<1>2. ASSUME UNCHANGED hints, UNCHANGED up
      PROVE  HintsSound' /\ \A n \in Nodes : up[n] => up'[n]
  BY Zenon, <1>2 DEF HintsSound
<1>3. CASE WriteStep
  <2>1. PICK w \in WriteIds :
          \/ WriteTick(w) \/ WritePrepare(w)
          \/ \E p \in Nodes : Deliver(w, p)
          \/ \E p \in Nodes : WriteAck(w, p)
          \/ \E p \in Nodes : WriteCancelled(w, p)
    BY <1>3 DEF WriteStep
  <2>2. CASE \/ WriteTick(w) \/ WritePrepare(w)
             \/ \E p \in Nodes : Deliver(w, p) \/ WriteAck(w, p)
    <3>1. UNCHANGED hints /\ UNCHANGED up
      BY ZenonT(30), <2>2
         DEF WriteTick, WritePrepare, Deliver, WriteAck, TickClock, Apply, replicaVars
    <3> QED
      BY <1>2, <3>1
  <2>3. CASE \E p \in Nodes : WriteCancelled(w, p)
    <3>1. PICK p \in Nodes : CallError(w, p)
      BY <2>3 DEF WriteCancelled
    <3>2. p \in pend[w] /\ ReportError(w, p) /\ UNCHANGED up
      BY <3>1 DEF CallError, replicaVars
    <3> QED
      BY <3>2, ReportKeepsHints
  <2> QED
    BY <2>1, <2>2, <2>3
<1>4. CASE WriteFault
  <2>1. PICK w \in WriteIds :
          \/ \E p \in Nodes : WriteError(w, p)
          \/ \E p \in Nodes : WriteLogError(w, p)
          \/ WriteTimeout(w)
    BY <1>4 DEF WriteFault
  <2>2. CASE \E p \in Nodes : WriteError(w, p)
    <3>1. PICK p \in Nodes : CallError(w, p)
      BY <2>2 DEF WriteError
    <3>2. p \in pend[w] /\ ReportError(w, p) /\ UNCHANGED up
      BY <3>1 DEF CallError, replicaVars
    <3> QED
      BY <3>2, ReportKeepsHints
  <2>3. CASE \E p \in Nodes : WriteLogError(w, p)
    <3>1. PICK p \in Nodes : WriteLogError(w, p)
      BY <2>3
    <3>2. /\ (p \in pend[w] /\ ReportError(w, p)) \/ UNCHANGED hints
          /\ UNCHANGED up
      BY <3>1 DEF WriteLogError, ApplyLogError
    <3> QED
      BY <1>2, <3>2, ReportKeepsHints
  <2>4. CASE WriteTimeout(w)
    <3>1. UNCHANGED hints /\ UNCHANGED up
      BY <2>4 DEF WriteTimeout, replicaVars
    <3> QED
      BY <1>2, <3>1
  <2> QED
    BY <2>1, <2>2, <2>3, <2>4
<1>5. CASE ReadStep /\ UNCHANGED writeVars
  <2>1. UNCHANGED hints
    BY <1>5 DEF writeVars
  <2>2. UNCHANGED up
    BY <1>5
       DEF ReadStep, ReadServe, ReadReceive, RepairApply, RepairLate, Apply, replicaVars
  <2> QED
    BY <1>2, <2>1, <2>2
<1>6. CASE ReadFault /\ UNCHANGED writeVars
  <2>1. UNCHANGED hints
    BY <1>6 DEF writeVars
  <2>2. UNCHANGED up
    BY <1>6 DEF ReadFault, ReadError, ReadTimeout, RepairLogError, RepairError,
       ApplyLogError, replicaVars
  <2> QED
    BY <1>2, <2>1, <2>2
<1>7. CASE \E r \in ReadIds : ClientRead(r)
  <2>1. UNCHANGED hints /\ UNCHANGED up
    BY <1>7 DEF ClientRead, ReadStart, replicaVars, writeVars
  <2> QED
    BY <1>2, <2>1
<1>8. CASE \E n \in Nodes : Restart(n)
  <2>1. /\ UNCHANGED hints
        /\ \E n \in Nodes : up' = [up EXCEPT ![n] = TRUE]
    BY ZenonT(30), <1>8 DEF Restart, ReplicaRestart, writeVars
  <2>2. HintsSound'
    BY Zenon, <2>1 DEF HintsSound
  <2>3. \A n \in Nodes : up[n] => up'[n]
    BY <1>1, <2>1
  <2> QED
    BY <2>2, <2>3
<1> QED
  BY <1>3, <1>4, <1>5, <1>6, <1>7, <1>8 DEF ServiceStep

\* Every step of the store with its repair preserves the invariant and moves
\* no replica backwards.
LEMMA StoreStep ==
  ASSUME Ordered, StoreInvariant, [StoreNext]_allVars
  PROVE  StoreInvariant' /\ Monotone
<1>1. /\ QuorumInvariant /\ RoundInv /\ ReplayInv /\ HintsSound
      /\ loop \in [Loops -> {"round", "replay"}]
      /\ faults \in 0..MaxFaults /\ crashes \in 0..MaxCrashes
  BY StoreParts DEF QuorumInvariant, TypeOK
<1>2. SUFFICES /\ QuorumInvariant' /\ RoundInv' /\ ReplayInv' /\ HintsSound' /\ Monotone
               /\ loop' \in [Loops -> {"round", "replay"}]
  BY StoreParts DEF StoreInvariant, RepairInvariant, StoreTypeOK, QuorumInvariant,
     RoundInv, ReplayInv
<1>3. ASSUME ServiceStep \/ UNCHANGED vars, UNCHANGED repairVars
      PROVE  /\ QuorumInvariant' /\ RoundInv' /\ ReplayInv' /\ HintsSound' /\ Monotone
             /\ loop' \in [Loops -> {"round", "replay"}]
  <2>1. QuorumInvariant' /\ Monotone
    BY <1>1, <1>3, StepInvariant DEF Next
  <2>2. HintsSound' /\ \A n \in Nodes : up[n] => up'[n]
    <3>1. CASE ServiceStep
      BY <1>1, <3>1, ServiceEffect
    <3>2. CASE UNCHANGED vars
      BY <1>1, <3>2 DEF vars, writeVars, replicaVars, HintsSound
    <3> QED
      BY <1>3, <3>1, <3>2
  <2>3. UNCHANGED antiVars /\ UNCHANGED handoffVars /\ UNCHANGED loop
    BY <1>3 DEF repairVars
  <2> QED
    BY <1>1, <2>1, <2>2, <2>3, RoundStable, ReplayStable
<1>4. ASSUME ReplicaKept, HintsSound',
             UNCHANGED <<wstate, wop, net, pend, acked, tagCounter>>,
             UNCHANGED <<readVars, rbefore, crashes>>, UNCHANGED faults \/ Fault
      PROVE  QuorumInvariant' /\ Monotone
  <2>1. hints' \in [Nodes -> [Nodes -> Seq(Hint)]]
    BY <1>4, HintQueues DEF HintsSound
  <2>2. faults' \in 0..MaxFaults /\ crashes' \in 0..MaxCrashes
    BY <1>1, <1>4, BoundsAssumption DEF Fault
  <2> QED
    BY <1>1, <1>4, <2>1, <2>2, RequestsStable DEF ReplicaKept
<1>5. ASSUME UNCHANGED writeVars
      PROVE  /\ UNCHANGED <<wstate, wop, net, pend, acked, tagCounter>>
             /\ HintsSound'
  BY <1>1, <1>5 DEF writeVars, HintsSound
<1>6. CASE \E l \in Loops : LoopTick(l) /\ UNCHANGED <<readVars, rbefore, faults, crashes>>
  <2>1. PICK l \in Loops : LoopTick(l) /\ UNCHANGED <<readVars, rbefore, faults, crashes>>
    BY <1>6
  <2>2. /\ hstep[l] = "off" /\ RoundStart(l) /\ loop' = [loop EXCEPT ![l] = "round"]
        /\ UNCHANGED writeVars /\ UNCHANGED handoffVars
    BY <2>1 DEF LoopTick
  <2>3. RoundInv' /\ ReplicaKept
    BY ZenonT(30), <1>1, <2>2, RoundStartStep
  <2>4. ReplayInv'
    BY <1>1, <2>2, <2>3, ReplayStable DEF ReplicaKept
  <2> QED
    BY <1>1, <1>4, <1>5, <2>1, <2>2, <2>3, <2>4
<1>7. CASE \E l \in Loops : LoopReplay(l) /\ UNCHANGED <<readVars, rbefore, faults, crashes>>
  <2>1. PICK l \in Loops : LoopReplay(l) /\ UNCHANGED <<readVars, rbefore, faults, crashes>>
    BY <1>7
  <2>2. /\ astep[l] = "off" /\ ReplayStart(l) /\ loop' = [loop EXCEPT ![l] = "replay"]
        /\ UNCHANGED writeVars /\ UNCHANGED antiVars
    BY <2>1 DEF LoopReplay, ReplayStart
  <2>3. ReplayInv' /\ ReplicaKept
    BY ZenonT(30), <1>1, <2>2, ReplayStartStep
  <2>4. RoundInv'
    BY <1>1, <2>2, <2>3, RoundStable DEF ReplicaKept
  <2> QED
    BY <1>1, <1>4, <1>5, <2>1, <2>2, <2>3, <2>4
<1>8. ASSUME (\E l \in Loops : AntiStep(l)) \/ AntiFault \/ (\E m \in alate : PushLate(m)),
             UNCHANGED <<writeVars, handoffVars, loop>>,
             UNCHANGED <<readVars, rbefore, crashes>>, UNCHANGED faults \/ Fault
      PROVE  /\ QuorumInvariant' /\ RoundInv' /\ ReplayInv' /\ HintsSound' /\ Monotone
             /\ loop' \in [Loops -> {"round", "replay"}]
  <2>1. RoundInv' /\ ReplicaKept
    BY <1>1, <1>8, RoundKept
  <2>2. ReplayInv'
    BY <1>1, <1>8, <2>1, ReplayStable DEF ReplicaKept
  <2> QED
    BY <1>1, <1>4, <1>5, <1>8, <2>1, <2>2
<1>9. ASSUME (\E l \in Loops : HandoffStep(l)) \/ HandoffFault \/ (\E m \in hlate : HintLate(m)),
             UNCHANGED <<antiVars, loop>>,
             UNCHANGED <<readVars, rbefore, crashes>>, UNCHANGED faults \/ Fault
      PROVE  /\ QuorumInvariant' /\ RoundInv' /\ ReplayInv' /\ HintsSound' /\ Monotone
             /\ loop' \in [Loops -> {"round", "replay"}]
  <2>1. /\ ReplayInv' /\ ReplicaKept /\ HintsSound'
        /\ UNCHANGED <<wstate, wop, net, pend, acked, tagCounter>>
    BY <1>1, <1>9, ReplayKept
  <2>2. RoundInv'
    BY <1>1, <1>9, <2>1, RoundStable DEF ReplicaKept
  <2> QED
    BY <1>1, <1>4, <1>9, <2>1, <2>2
<1>10. CASE \E n \in Nodes : CrashWithLoops(n)
  <2>1. PICK n \in Nodes : CrashWithLoops(n)
    BY <1>10
  <2>2. QuorumInvariant' /\ Monotone
    BY <1>1, <2>1, StepInvariant DEF CrashWithLoops, Next
  <2> QED
    BY <2>1, <2>2, CrashEnds
<1>11. CASE \E l \in Loops : RepairStep(l)
  BY <1>6, <1>7, <1>8, <1>9, <1>11 DEF RepairStep, LoopStep
<1>12. CASE LateStep /\ UNCHANGED <<readVars, rbefore, faults, crashes>>
  BY <1>8, <1>9, <1>12 DEF LateStep
<1>13. CASE LoopFault /\ Fault /\ UNCHANGED <<readVars, rbefore, crashes>>
  BY <1>8, <1>9, <1>13 DEF LoopFault
<1> QED
  BY <1>3, <1>10, <1>11, <1>12, <1>13 DEF StoreNext, allVars

LEMMA StoreInitial == StoreInit => StoreInvariant
<1> SUFFICES ASSUME StoreInit PROVE StoreInvariant
  OBVIOUS
<1>1. Init /\ AntiInit /\ HandoffInit /\ loop = [l \in Loops |-> "replay"]
  BY DEF StoreInit
<1>2. QuorumInvariant
  BY <1>1, InitInvariant
<1>3. /\ EmptyDigest \in SoundDigest /\ EmptyPlan \in SoundPlan
      /\ EmptyDigest \in Digest /\ EmptyPlan \in Plan
  BY SoundFacts, NoValueType DEF EmptyDigest, EmptyPlan, Digest, Plan
<1>4. RoundInv
  BY <1>1, <1>3 DEF AntiInit, RoundInv, AntiTypeOK, RoundSteps, RoundSound, RoundOK
<1>5. <<>> \in Seq(SoundHint) /\ <<>> \in Seq(Hint)
  OBVIOUS
<1>6. ReplayInv
  BY <1>1, <1>5
     DEF HandoffInit, ReplayInv, HandoffTypeOK, ReplaySteps, ReplaySound, ReplayOK
<1>7. HintsSound
  BY <1>1, <1>5 DEF Init, WriteInit, HintsSound
<1> QED
  BY <1>1, <1>2, <1>4, <1>6, <1>7, StoreParts

=============================================================================
