----------------------------- MODULE WritePath -----------------------------
(***************************************************************************)
(* The coordinator's write path, Node.Write, with the stored hints of the  *)
(* targets it could not reach (internal/node/coordinator.go,               *)
(* internal/repair/hinted_handoff.go).                                     *)
(*                                                                         *)
(* A write ticks the clock and prepares its payload under writeMu, then    *)
(* starts one goroutine per member: the local one applies the payload, a   *)
(* remote one sends it and stores a hint when the call returns an error.   *)
(* The client is answered at the W-th ack, at the timeout, or when every   *)
(* goroutine has reported.  Returning cancels the context of the calls     *)
(* that are still out, whose goroutines live on: they store their hints    *)
(* after the client has its answer.  An error does not say whether the     *)
(* payload arrived, so a payload may still be applied after its call has   *)
(* failed.                                                                 *)
(***************************************************************************)
EXTENDS Replica, Sequences

CONSTANTS WriteIds,   \* identities of the client writes of a behaviour
          WriteReqs   \* WriteReqs[w]: the request of write w

ASSUME WriteAssumption == WriteReqs \in [WriteIds -> WriteReq]

VARIABLES wstate,      \* where each write is
          wop,         \* the locals of each call of Write
          net,         \* net[w]: members whose Apply of w has not happened
          pend,        \* pend[w]: goroutines of w that have not reported
          acked,       \* acked[w]: members whose ack w counted before returning
          hints,       \* hints[n][t]: the hints node n holds for target t
          tagCounter   \* tagCounter[n]: the OR-Set tag counter of node n

writeVars == <<wstate, wop, net, pend, acked, hints, tagCounter>>

\* "dead": the coordinator crashed before it answered.
WriteStates == {"idle", "ticked", "waiting", "ok", "failed", "dead"}

\* The locals of a call of Write.  `after' is not in the code: the writes
\* already answered OK when this one ticked its clock, which the ordering
\* properties refer to.
WriteOp ==
  [ver : Version, tag : Nat \X Nat, val : Value, after : SUBSET WriteIds]

NoWrite ==
  [ver |-> ZeroVersion, tag |-> <<0, 0>>, val |-> NoValue, after |-> {}]

\* The coordinator, key and quorum of write w.
WNode(w) == WriteReqs[w].to
WKey(w) == WriteReqs[w].key
WQuorum(w) == WriteReqs[w].w

Hint == [key : Keys, value : Value]

WriteTypeOK ==
  /\ wstate \in [WriteIds -> WriteStates]
  /\ wop \in [WriteIds -> WriteOp]
  /\ net \in [WriteIds -> SUBSET Nodes]
  /\ pend \in [WriteIds -> SUBSET Nodes]
  /\ acked \in [WriteIds -> SUBSET Nodes]
  /\ hints \in [Nodes -> [Nodes -> Seq(Hint)]]
  /\ tagCounter \in [Nodes -> Nat]

WriteInit ==
  /\ wstate = [w \in WriteIds |-> "idle"]
  /\ wop = [w \in WriteIds |-> NoWrite]
  /\ net = [w \in WriteIds |-> {}]
  /\ pend = [w \in WriteIds |-> {}]
  /\ acked = [w \in WriteIds |-> {}]
  /\ hints = [n \in Nodes |-> [t \in Nodes |-> <<>>]]
  /\ tagCounter = [n \in Nodes |-> 0]

----------------------------------------------------------------------------

\* writeMu of node n is held from Tick to the end of localPrepare.
WriteMuFree(n) ==
  \A w \in WriteIds : ~ (wstate[w] = "ticked" /\ WNode(w) = n)

\* Write, up to the version: the request is validated, writeMu taken and the
\* clock ticked.
WriteTick(w) ==
  LET n == WNode(w)
  IN  /\ wstate[w] = "idle"
      /\ validateQuorum(WQuorum(w))
      /\ WriteMuFree(n)
      /\ TickClock(n)
      /\ wstate' = [wstate EXCEPT ![w] = "ticked"]
      /\ wop' = [wop EXCEPT
           ![w].ver   = [lamport |-> Tick(clock[n]), node |-> n],
           ![w].after = {x \in WriteIds : wstate[x] = "ok"}]
      /\ UNCHANGED <<net, pend, acked, hints, tagCounter>>

\* Tag of an OR-Set operation; removes draw one too.
nextORSetTag(n) == <<n, tagCounter[n] + 1>>

\* localPrepare, the release of writeMu, and the start of the goroutines.
\* Between the tick and this step other values may be applied locally.
WritePrepare(w) ==
  LET n   == WNode(w)
      req == WriteReqs[w]
      tag == nextORSetTag(n)
      cur == kv[n][req.key]
  IN  /\ wstate[w] = "ticked"
      /\ wstate' = [wstate EXCEPT ![w] = "waiting"]
      /\ IF req.policy = "CRDT_ORSET"
         THEN /\ wop' = [wop EXCEPT
                   ![w].tag = tag,
                   ![w].val = localPrepare(cur, req, wop[w].ver, tag)]
              /\ tagCounter' = [tagCounter EXCEPT ![n] = @ + 1]
         ELSE /\ wop' = [wop EXCEPT
                   ![w].val = localPrepare(cur, req, wop[w].ver, tag)]
              /\ UNCHANGED tagCounter
      /\ net' = [net EXCEPT ![w] = Nodes]
      /\ pend' = [pend EXCEPT ![w] = Nodes]
      /\ UNCHANGED <<acked, hints>>
      /\ UNCHANGED replicaVars

\* The payload of w is still on its way to member p: in the network, or, for
\* the coordinator's own copy, in a goroutine that is still alive.
InTransit(w, p) ==
  /\ p \in net[w]
  /\ p = WNode(w) => p \in pend[w]

\* The payload of w reaches member p, over the network or locally, and is
\* applied there.
Deliver(w, p) ==
  /\ InTransit(w, p)
  /\ Apply(p, WKey(w), wop[w].val)
  /\ net' = [net EXCEPT ![w] = @ \ {p}]
  /\ UNCHANGED <<wstate, wop, pend, acked, hints, tagCounter>>

----------------------------------------------------------------------------
(* The collecting loop: what a reported result does to the call. *)

\* A loop that answers one ack early.
OutcomeEarly(w, got, rest) ==
  IF wstate[w] # "waiting" THEN wstate[w]
  ELSE IF Cardinality(got) + 1 >= WQuorum(w) THEN "ok"
  ELSE IF rest = {} THEN "failed"
  ELSE "waiting"

\* A loop that waits for more than W acks.
OutcomeLate(w, got, rest) ==
  IF wstate[w] # "waiting" THEN wstate[w]
  ELSE IF Cardinality(got) > WQuorum(w) THEN "ok"
  ELSE IF rest = {} THEN "failed"
  ELSE "waiting"

\* The outcome once the results of `got' are in and those of `rest' are not.
WriteOutcome(w, got, rest) ==
  IF wstate[w] # "waiting" THEN wstate[w]
  ELSE IF Cardinality(got) >= WQuorum(w) THEN "ok"
  ELSE IF rest = {} THEN "failed"
  ELSE "waiting"

\* The goroutine of p reports a nil error.  After the call has returned it
\* just ends.
WriteAck(w, p) ==
  LET got == IF wstate[w] = "waiting" THEN acked[w] \cup {p} ELSE acked[w]
  IN  /\ p \in pend[w] \ net[w]
      /\ pend' = [pend EXCEPT ![w] = @ \ {p}]
      /\ acked' = [acked EXCEPT ![w] = got]
      /\ wstate' = [wstate EXCEPT ![w] = WriteOutcome(w, got, pend[w] \ {p})]
      /\ UNCHANGED <<wop, net, hints, tagCounter>>
      /\ UNCHANGED replicaVars

\* Hints.Store.
StoreHint(n, target, key, value) ==
  hints' = [hints EXCEPT ![n][target] =
              Append(@, [key |-> key, value |-> value])]

\* A goroutine that reports its failed call without storing a hint.
ReportErrorNoHint(w, p) ==
  /\ pend' = [pend EXCEPT ![w] = @ \ {p}]
  /\ wstate' = [wstate EXCEPT ![w] = WriteOutcome(w, acked[w], pend[w] \ {p})]
  /\ UNCHANGED hints

\* The goroutine of p reports an error, after storing a hint when p is remote.
ReportError(w, p) ==
  /\ pend' = [pend EXCEPT ![w] = @ \ {p}]
  /\ wstate' = [wstate EXCEPT ![w] = WriteOutcome(w, acked[w], pend[w] \ {p})]
  /\ IF p # WNode(w)
     THEN StoreHint(WNode(w), p, WKey(w), wop[w].val)
     ELSE UNCHANGED hints

\* The call to p fails.  Its payload may already have been applied, may be
\* applied later, or never.
CallError(w, p) ==
  /\ p \in pend[w]
  /\ p # WNode(w)
  /\ ReportError(w, p)
  /\ UNCHANGED <<wop, net, acked, tagCounter>>
  /\ UNCHANGED replicaVars

\* p is unreachable, or the call times out.
WriteError(w, p) == wstate[w] = "waiting" /\ CallError(w, p)

\* Write has returned, and its deferred cancel() ends the call to p.
WriteCancelled(w, p) == wstate[w] # "waiting" /\ CallError(w, p)

\* Member p receives the payload and its log refuses the entry.
WriteLogError(w, p) ==
  /\ InTransit(w, p)
  /\ ApplyLogError(p, WKey(w), wop[w].val)
  /\ net' = [net EXCEPT ![w] = @ \ {p}]
  /\ IF p \in pend[w] THEN ReportError(w, p)
                      ELSE UNCHANGED <<wstate, pend, hints>>
  /\ UNCHANGED <<wop, acked, tagCounter>>

\* ctx.Done: the client is told "quorum timeout".
WriteTimeout(w) ==
  /\ wstate[w] = "waiting"
  /\ wstate' = [wstate EXCEPT ![w] = "failed"]
  /\ UNCHANGED <<wop, net, pend, acked, hints, tagCounter>>
  /\ UNCHANGED replicaVars

\* The coordinator part of a crash of node n: its calls are never answered,
\* its goroutines, its hints and its tag counter are gone.  Payloads already
\* sent to other members are not.
WriteCrash(n) ==
  LET mine(w) == WNode(w) = n
  IN  /\ wstate' = [w \in WriteIds |->
           IF mine(w) /\ wstate[w] \in {"ticked", "waiting"} THEN "dead"
                                                             ELSE wstate[w]]
      /\ pend' = [w \in WriteIds |-> IF mine(w) THEN {} ELSE pend[w]]
      /\ hints' = [hints EXCEPT ![n] = [t \in Nodes |-> <<>>]]
      /\ tagCounter' = [tagCounter EXCEPT ![n] = 0]
      /\ UNCHANGED <<wop, net, acked>>

WriteStep ==
  \E w \in WriteIds :
    \/ WriteTick(w)
    \/ WritePrepare(w)
    \/ \E p \in Nodes : Deliver(w, p)
    \/ \E p \in Nodes : WriteAck(w, p)
    \/ \E p \in Nodes : WriteCancelled(w, p)

WriteFault ==
  \E w \in WriteIds :
    \/ \E p \in Nodes : WriteError(w, p)
    \/ \E p \in Nodes : WriteLogError(w, p)
    \/ WriteTimeout(w)

============================================================================
