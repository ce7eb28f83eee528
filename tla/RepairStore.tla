---------------------------- MODULE RepairStore ----------------------------
(***************************************************************************)
(* The store with its background repair: the maintenance loops started by  *)
(* StartAntiEntropy run beside the client requests of QuorumStore.  Each   *)
(* tick of a loop is a round of anti-entropy followed by a replay of the   *)
(* hints.                                                                  *)
(***************************************************************************)
EXTENDS QuorumStore, Handoff

VARIABLE loop  \* loop[l]: what loop l does, or did last

repairVars == <<antiVars, handoffVars, loop>>

allVars == <<vars, repairVars>>

StoreTypeOK ==
  /\ TypeOK
  /\ AntiTypeOK
  /\ HandoffTypeOK
  /\ loop \in [Loops -> {"round", "replay"}]

\* Before its first tick a loop is where it is after each replay.
StoreInit ==
  /\ Init
  /\ AntiInit
  /\ HandoffInit
  /\ loop = [l \in Loops |-> "replay"]

----------------------------------------------------------------------------

\* The ticker fires and the loop starts a round.
LoopTick(l) ==
  /\ loop[l] = "replay" /\ hstep[l] = "off"
  /\ RoundStart(l)
  /\ loop' = [loop EXCEPT ![l] = "round"]
  /\ UNCHANGED <<writeVars, handoffVars>>

\* A loop that does not wait for its round.
LoopReplayEarly(l) ==
  /\ loop[l] = "round"
  /\ ReplayStart(l)
  /\ loop' = [loop EXCEPT ![l] = "replay"]
  /\ UNCHANGED antiVars

\* The round is over and the loop replays the hints.
LoopReplay(l) ==
  /\ loop[l] = "round" /\ astep[l] = "off"
  /\ ReplayStart(l)
  /\ loop' = [loop EXCEPT ![l] = "replay"]
  /\ UNCHANGED antiVars

LoopStep(l) ==
  \/ LoopTick(l)
  \/ AntiStep(l) /\ UNCHANGED <<writeVars, handoffVars, loop>>
  \/ LoopReplay(l)
  \/ HandoffStep(l) /\ UNCHANGED <<antiVars, loop>>

LateStep ==
  \/ \E m \in alate : PushLate(m) /\ UNCHANGED <<writeVars, handoffVars, loop>>
  \/ \E m \in hlate : HintLate(m) /\ UNCHANGED <<antiVars, loop>>

LoopFault ==
  \/ AntiFault /\ UNCHANGED <<writeVars, handoffVars, loop>>
  \/ HandoffFault /\ UNCHANGED <<antiVars, loop>>

\* A process that restarts starts its loop anew.
CrashWithLoops(n) ==
  /\ Crash(n)
  /\ AntiCrash(n)
  /\ HandoffCrash(n)
  /\ loop' = [l \in Loops |-> IF LoopNode(l) = n THEN "replay" ELSE loop[l]]

RepairStep(l) == LoopStep(l) /\ UNCHANGED <<readVars, rbefore, faults, crashes>>

StoreNext ==
  \/ ServiceStep /\ UNCHANGED repairVars
  \/ \E l \in Loops : RepairStep(l)
  \/ LateStep /\ UNCHANGED <<readVars, rbefore, faults, crashes>>
  \/ LoopFault /\ Fault /\ UNCHANGED <<readVars, rbefore, crashes>>
  \/ \E n \in Nodes : CrashWithLoops(n)

StoreSpec == StoreInit /\ [][StoreNext]_allVars

----------------------------------------------------------------------------

\* A round does not outlive its process and has a peer; a plan exists only
\* while it is carried out.
RoundOK(l) ==
  /\ astep[l] # "off" => up[LoopNode(l)] /\ loop[l] = "round" /\ apeers[l] # {}
  /\ astep[l] # "apply" => aplan[l] = EmptyPlan

\* A replay does not outlive its process, and one that delivers has a target
\* and a hint left.
ReplayOK(l) ==
  /\ hstep[l] # "off" => up[LoopNode(l)] /\ loop[l] = "replay" /\ htargets[l] # {}
  /\ hstep[l] \in {"deliver", "take"} => htarget[l] \in htargets[l]
  /\ hstep[l] = "deliver" => hqueue[l] # <<>>

\* Types, and what the steps of a loop rely on: its round and its replay never
\* overlap, and neither runs without its process, its peer, its target or its
\* hint (StartAntiEntropy, ReplayHints).
RepairInvariant == StoreTypeOK /\ \A l \in Loops : RoundOK(l) /\ ReplayOK(l)

\* The loops are goroutines on a ticker and never wait for anything but a
\* call, which returns.  Clients, deliveries, faults, crashes and restarts are
\* never forced.
RepairFairness == \A l \in Loops : WF_allVars(RepairStep(l))

FairStoreSpec == StoreSpec /\ RepairFairness

\* From some time on every node runs.
AllStayUp == <>[](\A n \in Nodes : up[n])

\* The cluster converges: if the nodes stay up and faults are over, all
\* replicas come to hold the same values and stay so, even if no payload
\* still under way is ever delivered (AntiEntropyRound).
EventuallyConverged ==
  AllStayUp => <>[](\A p, q \in Nodes : kv[p] = kv[q])

\* If the nodes stay up and faults are over, every list of hints at a node
\* that runs a loop becomes empty and stays so (ReplayHints takes a list once
\* it has got through it).
EventuallyDrained ==
  AllStayUp =>
    <>[](\A l \in Loops, t \in Nodes : hints[LoopNode(l)][t] = <<>>)

============================================================================
