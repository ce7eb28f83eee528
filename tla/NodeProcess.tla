---------------------------- MODULE NodeProcess ----------------------------
(***************************************************************************)
(* The life of a node's process (cmd/node/main.go, Node.Close): it opens   *)
(* its log, replays it, starts the maintenance loop and serves; when it is *)
(* told to end it stops the loop, closes the log and exits, waiting for    *)
(* nothing: handlers and loops may still be at work.                       *)
(***************************************************************************)
EXTENDS LoggedReplica, LoopControl

processVars == <<loggedVars, controlVars>>

ProcessInit == LoggedInit /\ ControlInit

Boot(n) == Open(n) /\ UNCHANGED controlVars

Serve(n) == LogStep(n) /\ UNCHANGED controlVars

Start(n) == up[n] /\ open[n] /\ StartAntiEntropy(n) /\ UNCHANGED loggedVars

Stop(n) == up[n] /\ StopAntiEntropy(n) /\ UNCHANGED loggedVars

LoopTurn(n) == GoStep(n) /\ UNCHANGED loggedVars

\* Node.Close, after StopAntiEntropy.
CloseNode(n) == ~ antiOn[n] /\ CloseLog(n) /\ UNCHANGED controlVars

\* Exit or crash.
Exit(n) == Die(n) /\ ControlDie(n)

ProcessNext ==
  \E n \in Nodes :
    \/ Boot(n) \/ Serve(n) \/ Start(n) \/ Stop(n) \/ LoopTurn(n)
    \/ CloseNode(n) \/ Exit(n)

ProcessSpec == ProcessInit /\ [][ProcessNext]_processVars

----------------------------------------------------------------------------

\* Goroutines are scheduled, rounds end, and a select that finds its channel
\* closed time and again does not take the ticker every time.
LoopFairness ==
  \A n \in Nodes, g \in Starts :
    /\ WF_processVars(LoopSelect(n, g) /\ UNCHANGED loggedVars)
    /\ SF_processVars(LoopReturn(n, g) /\ UNCHANGED loggedVars)

FairProcessSpec == ProcessSpec /\ LoopFairness

\* A loop that is stopped for good ends, every goroutine of it: also one
\* that missed the channel it was started with and waits on a later one.
StopEndsLoops ==
  \A n \in Nodes :
    <>[](~ antiOn[n]) => <>[](\A g \in Starts : ~ Alive(n, g))

============================================================================
