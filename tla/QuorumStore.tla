---------------------------- MODULE QuorumStore ----------------------------
(***************************************************************************)
(* The replicated store under client load: the write path and the read     *)
(* path of every node over the shared replicas, with crashes and restarts. *)
(***************************************************************************)
EXTENDS WritePath, ReadPath

CONSTANTS MaxFaults,  \* bound on the failed calls, timeouts and log errors
          MaxCrashes  \* bound on the crashes of a behaviour

ASSUME BoundsAssumption == MaxFaults \in Nat /\ MaxCrashes \in Nat

VARIABLES rbefore,  \* rbefore[r]: writes of r's key answered OK before r started
          faults,   \* the number of faults so far
          crashes   \* the number of crashes so far

vars == <<replicaVars, writeVars, readVars, rbefore, faults, crashes>>

TypeOK ==
  /\ ReplicaTypeOK
  /\ WriteTypeOK
  /\ ReadTypeOK
  /\ rbefore \in [ReadIds -> SUBSET WriteIds]
  /\ faults \in 0..MaxFaults
  /\ crashes \in 0..MaxCrashes

Init ==
  /\ ReplicaInit
  /\ WriteInit
  /\ ReadInit
  /\ rbefore = [r \in ReadIds |-> {}]
  /\ faults = 0
  /\ crashes = 0

----------------------------------------------------------------------------

ClientRead(r) ==
  /\ ReadStart(r)
  /\ rbefore' = [rbefore EXCEPT ![r] =
       {w \in WriteIds : wstate[w] = "ok" /\ WKey(w) = RKey(r)}]
  /\ UNCHANGED <<writeVars, faults, crashes>>

\* The process of node n dies with everything it held in memory.
Crash(n) ==
  /\ crashes < MaxCrashes
  /\ ReplicaCrash(n)
  /\ WriteCrash(n)
  /\ ReadCrash(n)
  /\ crashes' = crashes + 1
  /\ UNCHANGED <<rbefore, faults>>

Restart(n) ==
  /\ ReplicaRestart(n)
  /\ UNCHANGED <<writeVars, readVars, rbefore, faults, crashes>>

Fault == faults < MaxFaults /\ faults' = faults + 1

\* Everything but a crash.
ServiceStep ==
  \/ WriteStep /\ UNCHANGED <<readVars, rbefore, faults, crashes>>
  \/ WriteFault /\ Fault /\ UNCHANGED <<readVars, rbefore, crashes>>
  \/ ReadStep /\ UNCHANGED <<writeVars, rbefore, faults, crashes>>
  \/ ReadFault /\ Fault /\ UNCHANGED <<writeVars, rbefore, crashes>>
  \/ \E r \in ReadIds : ClientRead(r)
  \/ \E n \in Nodes : Restart(n)

Next ==
  \/ ServiceStep
  \/ \E n \in Nodes : Crash(n)

Spec == Init /\ [][Next]_vars

----------------------------------------------------------------------------
(* Safety. *)

\* The quorums of read r and write w overlap.
Overlap(r, w) == RQuorum(r) + WQuorum(w) > N

\* A write that was answered OK is, from then on and over every crash and
\* restart, held by at least W replicas in a version no older than its own:
\* Write counts an ack only after Replica.Apply has logged the value.
WriteDurable ==
  \A w \in WriteIds : wstate[w] = "ok" =>
    Cardinality({p \in Nodes :
       AtLeast(kv[p][WKey(w)].version, wop[w].ver)}) >= WQuorum(w)

\* A read that answers returns a version at least as new as every write of
\* its key that was answered OK before it started, whenever R + W > N: the
\* overlap promise of Node.Read, under concurrent writes, repairs, late
\* deliveries, failed calls, crashes and restarts.
QuorumFresh ==
  \A r \in ReadIds : rstate[r] = "done" =>
    \A w \in rbefore[r] :
      Overlap(r, w) => AtLeast(racc[r].version, wop[w].ver)

\* A node that acked a write orders every later write of its own after it,
\* even if it crashed in between and rebuilt its clock from the log:
\* Apply observes before it acks, NewReplica observes what it replays.
CausalOrder ==
  \A w \in WriteIds : wstate[w] # "idle" =>
    \A x \in wop[w].after :
      WNode(w) \in acked[x] => Less(wop[x].ver, wop[w].ver)

\* Merging invents nothing: the version a replica stores, or a read returns,
\* is the version of a write of that key, and under LWW the stored payload
\* and tombstone are those the client of such a write sent.
FromAWrite(k, v) ==
  \E w \in WriteIds :
    /\ wstate[w] # "idle"
    /\ WKey(w) = k
    /\ wop[w].ver = v.version
    /\ v.policy # "CRDT_ORSET" =>
         v.data = WriteReqs[w].data /\ v.tombstone = WriteReqs[w].tombstone

Provenance ==
  /\ \A n \in Nodes, k \in Keys : Found(kv[n][k]) => FromAWrite(k, kv[n][k])
  /\ \A r \in ReadIds : Found(racc[r]) => FromAWrite(RKey(r), racc[r])

\* Delivery order does not matter: once every payload has been applied at
\* every member, all replicas store the same values, whatever order the
\* payloads, their duplicates and the read repairs arrived in (strong
\* eventual consistency of the merge in Replica.Apply).
AllDelivered == \A w \in WriteIds : net[w] = {} /\ wstate[w] # "ticked"

Converged ==
  ~ LogMayFail /\ AllDelivered => \A p, q \in Nodes : kv[p] = kv[q]

\* What could not be replicated is remembered: when every goroutine of a
\* write has ended and no node has crashed, each other member holds the
\* write or a newer value, or the coordinator holds a hint for it.
HintedOrApplied ==
  crashes = 0 =>
    \A w \in WriteIds : wstate[w] \in {"ok", "failed"} /\ pend[w] = {} =>
      \A p \in Nodes \ {WNode(w)} :
        LET k == WKey(w)
        IN  \/ AtLeast(kv[p][k].version, wop[w].ver)
            \/ \E i \in DOMAIN hints[WNode(w)][p] :
                 hints[WNode(w)][p][i] = [key |-> k, value |-> wop[w].val]

\* Two replicas that store the same version of a key store the same value,
\* so comparing versions is enough.
VersionIdentifies ==
  \A p, q \in Nodes, k \in Keys :
    /\ kv[p][k].version = kv[q][k].version
    /\ kv[p][k].policy # "CRDT_ORSET"
    => kv[p][k] = kv[q][k]

\* While no node crashes it is: Tick under writeMu never repeats a Lamport
\* time and the node id separates the nodes.
VersionUnique == crashes = 0 => VersionIdentifies

\* Whether write w is an OR-Set operation that has drawn its tag.
Tagged(w) == WriteReqs[w].policy = "CRDT_ORSET" /\ Found(wop[w].val)

\* Every OR-Set operation has a tag of its own (nextORSetTag).
UniqueTag ==
  \A w, x \in WriteIds :
    Tagged(w) /\ Tagged(x) /\ w # x => wop[w].tag # wop[x].tag

\* A remove of write w's element whose payload had seen w's tag.
Observed(x, w) ==
  /\ WriteReqs[x].op = "remove"
  /\ WKey(x) = WKey(w)
  /\ WriteReqs[x].elem = WriteReqs[w].elem
  /\ <<WriteReqs[w].elem, wop[w].tag>> \in decodeORSet(wop[x].val).rems

\* Whether the add of write w must be in the set stored or read as v.
AddSurvives(w, v) ==
  /\ WriteReqs[w].policy = "CRDT_ORSET"
  /\ WriteReqs[w].op = "add"
  /\ \A x \in WriteIds : ~ Observed(x, w)
  => WriteReqs[w].elem \in Elements(decodeORSet(v))

\* Add wins at every replica: a member that acked an add keeps the element,
\* whatever is merged into it later, unless a remove had seen that very add.
AddKept ==
  \A w \in WriteIds : \A p \in acked[w] : AddSurvives(w, kv[p][WKey(w)])

\* Add wins for clients: an element whose add was answered OK is in the set
\* a later overlapping read returns, unless a remove had seen that very add.
AddVisible ==
  \A r \in ReadIds : rstate[r] = "done" =>
    \A w \in rbefore[r] : Overlap(r, w) => AddSurvives(w, racc[r])

\* The stored version of a key never moves backwards at any replica, in any
\* step, crash and restart included.
ReplicaMonotone ==
  [][\A n \in Nodes, k \in Keys :
       AtLeast(kv'[n][k].version, kv[n][k].version)]_vars

----------------------------------------------------------------------------
(* What the repository's documentation says, and the code does not do. *)

\* A read after a successful write returns that write: nothing else is going
\* on, every other write was answered before this one was sent.
ReadsLastWrite ==
  \A r \in ReadIds : rstate[r] = "done" =>
    \A w \in rbefore[r] :
      /\ Overlap(r, w)
      /\ \A x \in WriteIds \ {w} : wstate[x] = "idle" \/ x \in wop[w].after
      => racc[r].version = wop[w].ver

----------------------------------------------------------------------------
(* Liveness.  Goroutines are scheduled and calls that do not fail come     *)
(* back; clients, faults and crashes are never forced.                     *)

WriteOnly(A) == A /\ UNCHANGED <<readVars, rbefore, faults, crashes>>
ReadOnly(A) == A /\ UNCHANGED <<writeVars, rbefore, faults, crashes>>

\* What the goroutines of a write and of a read do of themselves.
WriteMoves(w) ==
  \/ WritePrepare(w)
  \/ \E p \in Nodes : (p \in pend[w] /\ Deliver(w, p)) \/ WriteAck(w, p)

ReadMoves(r) ==
  \E p \in Nodes : ReadServe(r, p) \/ ReadReceive(r, p) \/ RepairApply(r, p)

\* Some goroutine that can run does.
Fairness ==
  WF_vars(\/ \E w \in WriteIds : WriteOnly(WriteMoves(w))
          \/ \E r \in ReadIds : ReadOnly(ReadMoves(r)))

FairSpec == Spec /\ Fairness

WriteAnswered(w) ==
  \/ wstate[w] \in {"idle", "ok"}
  \/ wstate[w] = "failed" /\ faults > 0
  \/ wstate[w] = "dead" /\ crashes > 0

ReadAnswered(r) ==
  \/ rstate[r] \in {"idle", "done"}
  \/ rstate[r] = "failed" /\ faults > 0
  \/ rstate[r] = "dead" /\ crashes > 0

\* Every accepted write and read is answered, for any valid quorum: neither
\* loop waits for a result that does not come.  The answer is a success
\* unless a call failed, timed out or ran into a crash.
RequestsAnswered ==
  <>[]((\A w \in WriteIds : WriteAnswered(w)) /\ (\A r \in ReadIds : ReadAnswered(r)))

============================================================================
