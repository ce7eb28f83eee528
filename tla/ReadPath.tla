----------------------------- MODULE ReadPath -----------------------------
(***************************************************************************)
(* The coordinator's read path, Node.Read, with read repair                *)
(* (internal/node/coordinator.go, internal/repair/read_repair.go).         *)
(*                                                                         *)
(* A read asks every member, folds the first R views with Resolve in the   *)
(* order they arrive, and, when the found views do not all equal the       *)
(* winner, pushes the winner to the stale respondents one after the other  *)
(* before it answers.  The code pushes in the order of arrival; here the   *)
(* order is left open.                                                     *)
(***************************************************************************)
EXTENDS Replica

CONSTANTS ReadIds,    \* identities of the client reads of a behaviour
          ReadReqs,   \* ReadReqs[r]: the request of read r
          ReadRepair  \* whether the nodes repair on read

ASSUME ReadAssumption ==
  /\ ReadReqs \in [ReadIds -> ReadReq]
  /\ ReadRepair \in BOOLEAN

VARIABLES rstate,   \* where each read is
          rout,     \* rout[r]: members asked that have not read their copy yet
          rserved,  \* rserved[r]: members whose view is on its way back
          rset,     \* rset[r]: members whose view was received
          rview,    \* rview[r][p]: the view p served
          racc,     \* racc[r]: the fold of the received views; then the winner
          rtodo,    \* rtodo[r]: stale respondents still to be repaired
          rlate     \* rlate[r]: repairs given up on that may yet arrive

readVars == <<rstate, rout, rserved, rset, rview, racc, rtodo, rlate>>

ReadStates == {"idle", "waiting", "repairing", "done", "failed", "dead"}

\* The coordinator, key and quorum of read r.
RNode(r) == ReadReqs[r].to
RKey(r) == ReadReqs[r].key
RQuorum(r) == ReadReqs[r].r

ReadTypeOK ==
  /\ rstate \in [ReadIds -> ReadStates]
  /\ rout \in [ReadIds -> SUBSET Nodes]
  /\ rserved \in [ReadIds -> SUBSET Nodes]
  /\ rset \in [ReadIds -> SUBSET Nodes]
  /\ rview \in [ReadIds -> [Nodes -> Value]]
  /\ racc \in [ReadIds -> Value]
  /\ rtodo \in [ReadIds -> SUBSET Nodes]
  /\ rlate \in [ReadIds -> SUBSET Nodes]

ReadInit ==
  /\ rstate = [r \in ReadIds |-> "idle"]
  /\ rout = [r \in ReadIds |-> {}]
  /\ rserved = [r \in ReadIds |-> {}]
  /\ rset = [r \in ReadIds |-> {}]
  /\ rview = [r \in ReadIds |-> [p \in Nodes |-> NoValue]]
  /\ racc = [r \in ReadIds |-> NoValue]
  /\ rtodo = [r \in ReadIds |-> {}]
  /\ rlate = [r \in ReadIds |-> {}]

----------------------------------------------------------------------------
(* What a set of views says about the winner. *)

\* Every found view equals the winner, and there is one.
Agreed(S, view, winner) ==
  /\ \E p \in S : Found(view[p])
  /\ \A p \in S : Found(view[p]) => view[p] = winner

StaleAmong(S, view, winner) ==
  {p \in S : ~ Found(view[p]) \/ view[p] # winner}

----------------------------------------------------------------------------

ReadStart(r) ==
  /\ rstate[r] = "idle"
  /\ up[RNode(r)]
  /\ validateQuorum(RQuorum(r))
  /\ rstate' = [rstate EXCEPT ![r] = "waiting"]
  /\ rout' = [rout EXCEPT ![r] = Nodes]
  /\ UNCHANGED <<rserved, rset, rview, racc, rtodo, rlate>>
  /\ UNCHANGED replicaVars

\* Member p looks the key up, locally or in ServeRead.
ReadServe(r, p) ==
  /\ rstate[r] = "waiting"
  /\ p \in rout[r]
  /\ up[p]
  /\ rout' = [rout EXCEPT ![r] = @ \ {p}]
  /\ rserved' = [rserved EXCEPT ![r] = @ \cup {p}]
  /\ rview' = [rview EXCEPT ![r][p] = kv[p][RKey(r)]]
  /\ UNCHANGED <<rstate, rset, racc, rtodo, rlate>>
  /\ UNCHANGED replicaVars

\* A loop that stops one view short.
EnoughViewsEarly(r, got) == Cardinality(got) + 1 >= RQuorum(r)

\* len(views) < R no longer holds.
EnoughViews(r, got) == Cardinality(got) >= RQuorum(r)

\* The call stops listening: results that come later go to a channel nobody
\* reads.
Hangup(r, got) ==
  /\ rout' = [rout EXCEPT ![r] = {}]
  /\ rserved' = [rserved EXCEPT ![r] = {}]
  /\ rview' = [rview EXCEPT ![r] =
                 [q \in Nodes |-> IF q \in got THEN @[q] ELSE NoValue]]

\* The view of p is received.  With the R-th one the winner is settled and
\* either repair starts or the client is answered.
ReadReceive(r, p) ==
  LET got    == rset[r] \cup {p}
      left   == (rout[r] \cup rserved[r]) \ {p}
      winner == ResolveNext(racc[r], rview[r][p])
      stale  == IF /\ ReadRepair
                   /\ Found(winner)
                   /\ ~ Agreed(got, rview[r], winner)
                THEN StaleAmong(got, rview[r], winner)
                ELSE {}
  IN  /\ rstate[r] = "waiting"
      /\ p \in rserved[r]
      /\ rset' = [rset EXCEPT ![r] = got]
      /\ racc' = [racc EXCEPT ![r] = winner]
      /\ IF EnoughViews(r, got)
         THEN /\ rstate' = [rstate EXCEPT ![r] =
                              IF stale = {} THEN "done" ELSE "repairing"]
              /\ rtodo' = [rtodo EXCEPT ![r] = stale]
              /\ Hangup(r, got)
         ELSE /\ rstate' = [rstate EXCEPT ![r] =
                              IF left = {} THEN "failed" ELSE "waiting"]
              /\ rserved' = [rserved EXCEPT ![r] = @ \ {p}]
              /\ UNCHANGED <<rout, rview, rtodo>>
      /\ UNCHANGED rlate
      /\ UNCHANGED replicaVars

\* The goroutine of p reports an error: the call failed, or reads are
\* switched off at p.  With the last result in and too few views the read
\* fails.
ReadError(r, p) ==
  LET left == (rout[r] \cup rserved[r]) \ {p}
  IN  /\ rstate[r] = "waiting"
      /\ p \in rout[r] \cup rserved[r]
      /\ rout' = [rout EXCEPT ![r] = @ \ {p}]
      /\ rserved' = [rserved EXCEPT ![r] = @ \ {p}]
      /\ rstate' = [rstate EXCEPT ![r] = IF left = {} THEN "failed" ELSE @]
      /\ UNCHANGED <<rset, rview, racc, rtodo, rlate>>
      /\ UNCHANGED replicaVars

\* ctx.Done before R views.
ReadTimeout(r) ==
  /\ rstate[r] = "waiting"
  /\ rstate' = [rstate EXCEPT ![r] = "failed"]
  /\ Hangup(r, rset[r])
  /\ UNCHANGED <<rset, racc, rtodo, rlate>>
  /\ UNCHANGED replicaVars

----------------------------------------------------------------------------
(* Read repair. *)

\* The repair loop moves past p; the read answers after the last one.
RepairNext(r, p) ==
  /\ rstate[r] = "repairing"
  /\ p \in rtodo[r]
  /\ rtodo' = [rtodo EXCEPT ![r] = @ \ {p}]
  /\ rstate' = [rstate EXCEPT ![r] =
                  IF rtodo[r] = {p} THEN "done" ELSE "repairing"]
  /\ UNCHANGED <<rout, rserved, rset, rview, racc>>

\* The winner is applied at p, in time for the loop.
RepairApply(r, p) ==
  /\ RepairNext(r, p)
  /\ Apply(p, RKey(r), racc[r])
  /\ UNCHANGED rlate

\* The log of p refuses the winner; nobody looks at the error.
RepairLogError(r, p) ==
  /\ RepairNext(r, p)
  /\ ApplyLogError(p, RKey(r), racc[r])
  /\ UNCHANGED rlate

\* The call to p fails.  No hint is stored; the winner may still arrive.
RepairError(r, p) ==
  /\ RepairNext(r, p)
  /\ p # RNode(r)
  /\ rlate' = [rlate EXCEPT ![r] = @ \cup {p}]
  /\ UNCHANGED replicaVars

RepairLate(r, p) ==
  /\ p \in rlate[r]
  /\ Apply(p, RKey(r), racc[r])
  /\ rlate' = [rlate EXCEPT ![r] = @ \ {p}]
  /\ UNCHANGED <<rstate, rout, rserved, rset, rview, racc, rtodo>>

\* The coordinator part of a crash of node n.  A repair that is under way at
\* that moment has been applied or never will be.
ReadCrash(n) ==
  /\ rstate' = [r \in ReadIds |->
       IF rstate[r] \in {"waiting", "repairing"} /\ RNode(r) = n
       THEN "dead" ELSE rstate[r]]
  /\ UNCHANGED <<rout, rserved, rset, rview, racc, rtodo, rlate>>

ReadStep ==
  \E r \in ReadIds, p \in Nodes :
    \/ ReadServe(r, p)
    \/ ReadReceive(r, p)
    \/ RepairApply(r, p)
    \/ RepairLate(r, p)

ReadFault ==
  \E r \in ReadIds :
    \/ \E p \in Nodes : ReadError(r, p)
    \/ \E p \in Nodes : RepairLogError(r, p)
    \/ \E p \in Nodes : RepairError(r, p)
    \/ ReadTimeout(r)

============================================================================
