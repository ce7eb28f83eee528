---------------------------- MODULE LoopControl ----------------------------
(***************************************************************************)
(* Starting and stopping the maintenance loop of a node (StartAntiEntropy, *)
(* StopAntiEntropy in internal/node/coordinator.go).                       *)
(*                                                                         *)
(* Start makes a channel and a goroutine; Stop closes the channel and does *)
(* not wait.  The goroutine reads the field stopAnti, without the lock,    *)
(* each time it comes round to its select, so that it may find the channel *)
(* of a later start; when both its channel and its ticker are ready, the   *)
(* select takes either.  A channel is the number of the start that made    *)
(* it, and so is a goroutine.                                              *)
(***************************************************************************)
EXTENDS Types

CONSTANT MaxStarts  \* bound on the starts of a node's process

ASSUME StartsAssumption == MaxStarts \in Nat

VARIABLES antiOn,    \* antiOn[n]: whether the loop of node n is to run
          stopAnti,  \* stopAnti[n]: the channel in the field, 0 for nil
          closed,    \* closed[n]: the channels that are closed
          goAt,      \* goAt[n][g]: where goroutine g is
          goChan     \* goChan[n][g]: the channel its select waits on

controlVars == <<antiOn, stopAnti, closed, goAt, goChan>>

Starts == 1..MaxStarts

\* A goroutine is "none" before its start; "away" when it has just started or
\* is in a round or a replay; in its "select"; or "gone".
ControlInit ==
  /\ antiOn = [n \in Nodes |-> FALSE]
  /\ stopAnti = [n \in Nodes |-> 0]
  /\ closed = [n \in Nodes |-> {}]
  /\ goAt = [n \in Nodes |-> [g \in Starts |-> "none"]]
  /\ goChan = [n \in Nodes |-> [g \in Starts |-> 0]]

Alive(n, g) == goAt[n][g] \in {"away", "select"}

StartAntiEntropy(n) ==
  LET g == stopAnti[n] + 1
  IN  /\ ~ antiOn[n]
      /\ g \in Starts
      /\ antiOn' = [antiOn EXCEPT ![n] = TRUE]
      /\ stopAnti' = [stopAnti EXCEPT ![n] = g]
      /\ goAt' = [goAt EXCEPT ![n][g] = "away"]
      /\ UNCHANGED <<closed, goChan>>

\* A stop that leaves the flag up, and one that leaves the channel open.
StopStaysOn(n) ==
  /\ antiOn[n]
  /\ closed' = [closed EXCEPT ![n] = @ \cup {stopAnti[n]}]
  /\ UNCHANGED <<antiOn, stopAnti, goAt, goChan>>

StopClosesNothing(n) ==
  /\ antiOn[n]
  /\ antiOn' = [antiOn EXCEPT ![n] = FALSE]
  /\ UNCHANGED <<stopAnti, closed, goAt, goChan>>

StopAntiEntropy(n) ==
  /\ antiOn[n]
  /\ closed' = [closed EXCEPT ![n] = @ \cup {stopAnti[n]}]
  /\ antiOn' = [antiOn EXCEPT ![n] = FALSE]
  /\ UNCHANGED <<stopAnti, goAt, goChan>>

\* The goroutine comes round to its select, evaluates n.stopAnti and waits.
LoopSelect(n, g) ==
  /\ goAt[n][g] = "away"
  /\ goAt' = [goAt EXCEPT ![n][g] = "select"]
  /\ goChan' = [goChan EXCEPT ![n][g] = stopAnti[n]]
  /\ UNCHANGED <<antiOn, stopAnti, closed>>

\* The ticker fires: a round and a replay.
LoopWork(n, g) ==
  /\ goAt[n][g] = "select"
  /\ goAt' = [goAt EXCEPT ![n][g] = "away"]
  /\ UNCHANGED <<antiOn, stopAnti, closed, goChan>>

\* The channel it waits on is closed.
LoopReturn(n, g) ==
  /\ goAt[n][g] = "select"
  /\ goChan[n][g] \in closed[n]
  /\ goAt' = [goAt EXCEPT ![n][g] = "gone"]
  /\ UNCHANGED <<antiOn, stopAnti, closed, goChan>>

\* The process takes its goroutines with it.
ControlDie(n) ==
  /\ antiOn' = [antiOn EXCEPT ![n] = FALSE]
  /\ stopAnti' = [stopAnti EXCEPT ![n] = 0]
  /\ closed' = [closed EXCEPT ![n] = {}]
  /\ goAt' = [goAt EXCEPT ![n] = [g \in Starts |-> "none"]]
  /\ goChan' = [goChan EXCEPT ![n] = [g \in Starts |-> 0]]

GoStep(n) ==
  \E g \in Starts :
    LoopSelect(n, g) \/ LoopWork(n, g) \/ LoopReturn(n, g)

ControlNext ==
  \E n \in Nodes :
    StartAntiEntropy(n) \/ StopAntiEntropy(n) \/ GoStep(n) \/ ControlDie(n)

ControlSpec == ControlInit /\ [][ControlNext]_controlVars

----------------------------------------------------------------------------

\* While the loop is on, a goroutine runs that nothing has told to stop,
\* however starts and stops overtook the goroutines of earlier starts.
OnHasLoop ==
  \A n \in Nodes : antiOn[n] =>
    \E g \in Starts :
      /\ Alive(n, g)
      /\ goAt[n][g] = "select" => goChan[n][g] \notin closed[n]

============================================================================
