------------------------------ MODULE Handoff ------------------------------
(***************************************************************************)
(* The replay of the stored hints, Node.ReplayHints (internal/node/        *)
(* coordinator.go) over Targets, Peek and Take (internal/repair/           *)
(* hinted_handoff.go).  The list of a target is copied under the lock of   *)
(* the hints, delivered in order without it, and dropped under the lock    *)
(* again once every call has succeeded; Write stores hints at any time.    *)
(* As in AntiEntropy, a replay is indexed by the loop that runs it.        *)
(***************************************************************************)
EXTENDS WritePath, AntiEntropy

VARIABLES hstep,     \* where the replay of each loop is
          htargets,  \* htargets[l]: targets the replay has not finished with
          htarget,   \* htarget[l]: the target it is at, 0 before the first
          hqueue,    \* hqueue[l]: the peeked hints that are not delivered yet
          hlate      \* hints whose call has failed and which may still arrive

handoffVars == <<hstep, htargets, htarget, hqueue, hlate>>

\* "off": no replay; "next": between targets; "deliver": the peeked hints
\* are being sent; "take": all of them were.
ReplaySteps == {"off", "next", "deliver", "take"}

HandoffTypeOK ==
  /\ hstep \in [Loops -> ReplaySteps]
  /\ htargets \in [Loops -> SUBSET Nodes]
  /\ htarget \in [Loops -> Nodes \cup {0}]
  /\ hqueue \in [Loops -> Seq(Hint)]
  /\ hlate \in SUBSET Message

HandoffInit ==
  /\ hstep = [l \in Loops |-> "off"]
  /\ htargets = [l \in Loops |-> {}]
  /\ htarget = [l \in Loops |-> 0]
  /\ hqueue = [l \in Loops |-> <<>>]
  /\ hlate = {}

----------------------------------------------------------------------------

\* Hints.Targets: a target has an entry while it has hints.
Targets(n) == {t \in Nodes : hints[n][t] # <<>>}

ReplayStart(l) ==
  LET targets == Targets(LoopNode(l))
  IN  /\ hstep[l] = "off"
      /\ up[LoopNode(l)]
      /\ htargets' = [htargets EXCEPT ![l] = targets]
      /\ hstep' = [hstep EXCEPT ![l] = IF targets = {} THEN "off" ELSE "next"]
      /\ UNCHANGED <<htarget, hqueue, hlate>>
      /\ UNCHANGED replicaVars
      /\ UNCHANGED writeVars

\* The replay leaves target t: it goes on to the next one, or ends.
LeaveTarget(l, t) ==
  /\ htargets' = [htargets EXCEPT ![l] = @ \ {t}]
  /\ htarget' = [htarget EXCEPT ![l] = 0]
  /\ hqueue' = [hqueue EXCEPT ![l] = <<>>]
  /\ hstep' = [hstep EXCEPT ![l] = IF htargets[l] = {t} THEN "off" ELSE "next"]

\* Hints.Peek copies the list of the next target, in any order of targets.
\* Another replay at the node may have taken it.
ReplayPeek(l, t) ==
  LET peeked == hints[LoopNode(l)][t]
  IN  /\ hstep[l] = "next"
      /\ t \in htargets[l]
      /\ IF peeked = <<>>
         THEN LeaveTarget(l, t)
         ELSE /\ hstep' = [hstep EXCEPT ![l] = "deliver"]
              /\ htarget' = [htarget EXCEPT ![l] = t]
              /\ hqueue' = [hqueue EXCEPT ![l] = peeked]
              /\ UNCHANGED htargets
      /\ UNCHANGED hlate
      /\ UNCHANGED replicaVars
      /\ UNCHANGED writeVars

\* The next hint is delivered and applied at its target.
HintDeliver(l) ==
  /\ hstep[l] = "deliver"
  /\ Apply(htarget[l], Head(hqueue[l]).key, Head(hqueue[l]).value)
  /\ hqueue' = [hqueue EXCEPT ![l] = Tail(@)]
  /\ hstep' = [hstep EXCEPT ![l] =
                 IF Tail(hqueue[l]) = <<>> THEN "take" ELSE "deliver"]
  /\ UNCHANGED <<htargets, htarget, hlate>>
  /\ UNCHANGED writeVars

\* The call fails: the list is kept for the next replay.  The hint may
\* still arrive.
HintError(l) ==
  /\ hstep[l] = "deliver"
  /\ LeaveTarget(l, htarget[l])
  /\ hlate' = hlate \cup
       {[to |-> htarget[l], key |-> Head(hqueue[l]).key,
         value |-> Head(hqueue[l]).value]}
  /\ UNCHANGED replicaVars
  /\ UNCHANGED writeVars

HintLate(m) ==
  /\ m \in hlate
  /\ Apply(m.to, m.key, m.value)
  /\ hlate' = hlate \ {m}
  /\ UNCHANGED <<hstep, htargets, htarget, hqueue>>
  /\ UNCHANGED writeVars

\* The log of the target refuses the hint, which the call reports.
HintLogError(l) ==
  /\ hstep[l] = "deliver"
  /\ ApplyLogError(htarget[l], Head(hqueue[l]).key, Head(hqueue[l]).value)
  /\ LeaveTarget(l, htarget[l])
  /\ UNCHANGED hlate
  /\ UNCHANGED writeVars

\* The target is down: the call fails and nothing arrives.
HintUnreachable(l) ==
  /\ hstep[l] = "deliver"
  /\ ~ up[htarget[l]]
  /\ LeaveTarget(l, htarget[l])
  /\ UNCHANGED hlate
  /\ UNCHANGED replicaVars
  /\ UNCHANGED writeVars

\* A replay that never drains what it has delivered.
TakeNothing(n, t) == UNCHANGED hints

\* Hints.Take: the whole list of the target goes.
Take(n, t) == hints' = [hints EXCEPT ![n][t] = <<>>]

ReplayTake(l) ==
  /\ hstep[l] = "take"
  /\ Take(LoopNode(l), htarget[l])
  /\ LeaveTarget(l, htarget[l])
  /\ UNCHANGED hlate
  /\ UNCHANGED replicaVars
  /\ UNCHANGED <<wstate, wop, net, pend, acked, tagCounter>>

\* The replays of node n die with it.  A hint that is under way at that moment
\* has been applied or never will be; only those that timed out before, in
\* hlate, may still arrive.
HandoffCrash(n) ==
  LET dies(l) == LoopNode(l) = n
  IN  /\ hstep' = [l \in Loops |-> IF dies(l) THEN "off" ELSE hstep[l]]
      /\ htargets' = [l \in Loops |-> IF dies(l) THEN {} ELSE htargets[l]]
      /\ htarget' = [l \in Loops |-> IF dies(l) THEN 0 ELSE htarget[l]]
      /\ hqueue' = [l \in Loops |-> IF dies(l) THEN <<>> ELSE hqueue[l]]
      /\ UNCHANGED hlate

\* A step of the replay of loop l that is not a fault.
HandoffStep(l) ==
  \/ \E t \in Nodes : ReplayPeek(l, t)
  \/ HintDeliver(l)
  \/ HintUnreachable(l)
  \/ ReplayTake(l)

HandoffFault == \E l \in Loops : HintError(l) \/ HintLogError(l)

============================================================================
