# TLA+ verification of agent-memory

agent-memory is a leaderless replicated key-value store for agent memories,
written in Go. Every node holds the whole keyspace. The node that receives a
client request coordinates it: it sends a write to every member and answers at W
acks, and it asks every member for a read and answers from the first R views.
Versions are `(lamport, node id)` pairs; values merge under a per-key policy
(last-write-wins, LWW-register, OR-Set). Read repair, hinted handoff and
anti-entropy bring replicas together, and each node keeps a write-ahead log from
which it restarts.

The modules here model that program from its source, TLC checks them on small
instances, and TLAPS proves the central safety properties for every membership,
every load and any number of faults and crashes, with and without the maintenance
loops beside the requests.

## The system and what is modelled

| Part of the system | Source (`src/internal`) | Module | State |
|---|---|---|---|
| Versions, values, Lamport clock | `types/types.go`, `types/clock.go` | `Types` | modelled |
| LWW, LWW-register, OR-Set, `Resolve` | `conflict/` | `Conflict`, `MergeLaws` | modelled |
| Replica: merge, log append, crash, replay | `node/replica.go`, `store/kv.go`, `store/wal.go` | `Replica`, `ReplicaSpec` | modelled |
| The log as a file, `History` | `store/wal.go`, `node/replica.go` | `LoggedReplica` | modelled |
| Coordinated writes and deletes, stored hints | `node/coordinator.go`, `repair/hinted_handoff.go` | `WritePath` | modelled |
| Coordinated reads, read repair | `node/coordinator.go`, `repair/read_repair.go` | `ReadPath` | modelled |
| Writes and reads together, crashes, restarts | `node/coordinator.go`, `store/wal.go` | `QuorumStore` | modelled |
| Hint replay (`ReplayHints`) | `node/coordinator.go`, `repair/hinted_handoff.go` | `Handoff` | modelled |
| Anti-entropy (`AntiEntropyRound`, `Scan`) | `node/coordinator.go`, `repair/anti_entropy.go` | `AntiEntropy` | modelled |
| Maintenance loop beside the requests | `node/coordinator.go` | `RepairStore` | modelled |
| `StartAntiEntropy`, `StopAntiEntropy` | `node/coordinator.go` | `LoopControl` | modelled |
| Life of a process | `../cmd/node`, `Node.Close` | `NodeProcess`, `Membership` | modelled, without the other flags |
| What a call to a member may do | `net/transport.go` (`Transport`) | `Endpoints`, `Call` | modelled |
| Fault-injecting and HTTP transports | `net/`, internal handlers of `node/server.go` | `FaultNet`, `HTTPTransport`, `Transport` | modelled |
| Membership | `cluster/membership.go` | `Types` (`Nodes`, `N`), `Membership` | modelled |
| HTTP server, agent API, `memctl` | `node/server.go`, `agentapi/`, `store/kv.go`, `../cmd/memctl` | `MemoryApi`, `AgentMemory` | partly: requests that read or write memory |

`Nodes` is the static membership. A node id is a string that the code only
compares, so an id is its rank; a payload is likewise its rank in
`bytes.Compare`. `QuorumInv` holds the inductive invariant; `Layers` puts the layers
around the coordinator into one specification; `MCQuorum`, `MCRepair`, `MCLayers` and
`MCNode` are the instances for TLC, and the modules named `...Proofs` hold the theorems.

Three abstract specifications tie the parts together:

| Abstract | Promise | Implemented by |
|---|---|---|
| `ReplicaSpec` | the steps of `Replica` that the store is built on | `LoggedReplica` (`ImplementsReplica`) |
| `Call` | what `WritePath`, `ReadPath`, `AntiEntropy`, `Handoff` assume of a call to a member | `FaultNet` (`FaultNetImplementsCall`), `HTTPTransport` (`HTTPImplementsCall`) |
| `AgentMemory` | a table of facts and a set of tags per entity | `MemoryApi` (`ImplementsMemory`) |

### Replica

`kv[n][k]` is the map of replica n (`NoValue` where a lookup fails), `clock[n]`
its Lamport clock, `up[n]` whether its process runs. `Apply` is one step because
`Replica.Apply` holds the replica's mutex: it observes the incoming Lamport time,
merges, and, when the merge changes the stored value, appends the *incoming* value
to the log and stores the merge. The log is represented by what `NewReplica` makes
of it: `disk[n][k]` is the fold of the logged values of k and `logged[n]` the
greatest logged Lamport time. A restart sets the map and the clock to those, so
ticks and observations that left no log entry are forgotten, as in the code.
`ApplyLogError` is an append that returns an error: the clock has moved, the map
has not, and the entry may be in the file all the same, since `Append` reports a
failed `Sync` after the `Write`. A torn last line makes `OpenWAL` fail, and the
node stays down; that is a behaviour of the model, which never forces a restart.
That this is a fair picture of the file is what `LoggedReplica` shows.
A node is taken to have a log file, as `cmd/node` always gives it one.

### LoggedReplica, LoopControl and NodeProcess

`file[n]` is the log file, a sequence of entries, newlines and torn entries;
`history[n]`, `seq[n]` and `open[n]` are the WAL's memory. Append and `KV.Apply` are two
steps, since a crash may fall between them (`storing[n]` is the entry in between). A failed
append leaves nothing, a torn entry, an entry without newline, or, when only `Sync` failed,
the whole line, and keeps its entry in `history` in every case. `Open` is `OpenWAL` and
`NewReplica`: it refuses a file with a line that is not one entry or does not fit into the
8 MB buffer of `load` (the messages in `TooLong` give such lines), takes the greatest
sequence number and folds the entries. The refinement mapping sends the file to the fold
(`disk`) and the greatest Lamport time (`logged`) of its entries, and counts an entry that
is logged but not yet stored as applied.

In `LoopControl` a channel and the goroutine started with it are numbered by their start.
`Stop` closes the channel in the field `stopAnti` and does not wait; a goroutine reads that
field, without the lock, each time it comes to its `select` (`LoopSelect`), so it may find
the channel of a later start. `NodeProcess` composes both: a process opens its log, starts
its loop, serves, and on the way out stops the loop, closes the log and exits while
handlers may still be at work (`AppendClosed`). A crash is an exit at any moment.

### WritePath

One call of `Node.Write` per element of `WriteIds`; `WriteReqs[w]` is what the
client asked for. The call ticks the clock (`WriteTick`) and prepares its payload
from the local value (`WritePrepare`); both happen under `writeMu`, which excludes
other writes but not `Apply`, so they are two steps. Then there is one goroutine
per member:

- `net[w]` holds the members whose `Apply` of the payload has not happened,
- `pend[w]` the goroutines that have not reported,
- `acked[w]` the acks that were counted before the call returned.

A remote call that fails (`WriteError`) may have been applied or may be applied
later, because the error does not tell. It stores a hint. When the call returns,
its deferred `cancel()` fails the calls still out (`WriteCancelled`), whose
goroutines store hints after the client has its answer. `WriteTimeout` is
`ctx.Done`. A crash of the coordinator (`WriteCrash`) loses its goroutines, hints
and tag counter; payloads already sent are not recalled.

### ReadPath

One call of `Node.Read` per element of `ReadIds`. Each member serves its view at a
time of its own (`ReadServe`), the loop receives views in any order and folds them
with `Resolve` (`ReadReceive`). With the R-th view the winner is fixed; if the found
views differ, the winner is pushed to the stale respondents one after the other
before the client is answered. The code pushes in the order of arrival; the model
leaves the order open. A failed push stores no hint and may still arrive
(`RepairLate`). A member with reads switched off answers with an error
(`ReadError`). A push that is under way when its coordinator crashes either was
applied before the crash or never is.

### AntiEntropy, Handoff and RepairStore

A round visits the peers in the order of their ids. The peer takes its digest
(`DigestServe`) before the node takes its snapshot (`RoundScan`); the plan of `Scan`
is then carried out one key at a time, pulls first (`PullApply`), then pushes
(`PushApply`), in any order of the keys, as Go iterates over a map. Nothing is locked
over the round. A digest that does not come skips the peer; failed pulls and pushes
are dropped, and a push whose call failed may arrive late (`PushLate`).

A replay copies the list of a target (`ReplayPeek`), delivers it in order
(`HintDeliver`) and, if every call succeeded, takes the list away (`ReplayTake`). The
steps are separate because the lock of the hints is held only inside `Peek` and `Take`.

A push or a hint that is under way when its sender crashes was applied before the crash or
never is, as with repairs (over HTTP a request already sent may still be handled); only the
ones whose call had failed before may arrive late. Payloads of writes have no such limit.

`RepairStore` runs `Loops` beside the requests of `QuorumStore`: each tick is a round
followed by a replay. A loop is any goroutine that runs them, so a node may have
several. Calls to a node that is down fail without counting as a fault. A crash ends
the loops of its node; the restarted process starts anew. `amerged` and `aclean` are
history variables that `ExchangeSyncs` needs.

### Call, FaultNet, HTTPTransport

`Call` says that the handler at the callee runs at most once, possibly after the caller has
given up; that a success hands back what a handler answered that did not refuse; and that a
failure says nothing. `FaultNet` decides on a call under its lock (`DispatchBlocked`,
`Dispatch`: isolation, partition, drop, the limit of `FailFromAfter`, in this order),
captures the handler, sleeps, and runs the handler; any fault operation may come in
between, which is also all that a `SendHook` can do. A drop probability is 0, 1 or between.
`HTTPTransport` has the client's methods and the internal handlers: the request may be
handled after the client has given up, the response may be lost, either process may die,
members may be blocked through `/debug/fault`. `Deny` has no lock, so a process may also be
ended by the runtime when it is written during a call (`DenyRace`). `ReplicateRead` and
`GetDigest` do not look at the status; `Decode` is what they make of an error body.
`ReadsRefuse` is FALSE in the run and an assumption of the theorem: `ServeRead` fails only
when a test has switched reads off, and no such test uses HTTP.

### Membership and MemoryApi

A list of peers is a sequence of ids, blanks and empty ids. Processes are launched one by
one, each with a list of its own, end, and may be launched again with another one.
`ParsePeers` is the loop with its `seen` map, the addition of the process itself and the
sort; `peers[n]` is a sequence, since `N` is its length and `Write` and `Read` start one
goroutine per entry of it.

In `MemoryApi` one command runs at a time and reaches every member before the next begins,
so one map stands for all replicas (`QuorumStore` is about the rest). Keys are sequences of
characters, because how `FactKey` joins them, `SplitFactKey` cuts them and `KV.Prefix`
finds them is the point; an action is one HTTP request or command with its validation,
defaults (`W` and `R` of facts and tags are 2, `R` of reads is 1) and policy name. `told`
is what its caller learns: `ok` is the exit code of `memctl`, which follows the status of
the response, and `error` says whether the body holds an error. The two differ for
`GET /fact` and `GET /tag`, which answer 200 when the read has failed. Every read may fail,
with a quorum that is invalid or that does not answer in time, and every response may be
lost. Entities may have colons in them: a scan for `a` finds the facts of `a` and of every
`a:...`, which is what `Family` says in `AgentMemory`. An attribute has none
(`MemoryAssumption`), or its fact would share the key of another entity's fact.

### Abstractions

- `Data` of an OR-Set value is a function of its payload and is left out. It would
  matter only where a key is written under several policies.
- The maps element -> tag -> true of the OR-Set are sets of pairs, plus the set of
  elements with an entry in `Rems`, which an empty entry adds to the marshalled bytes.
- The Lamport time is an unbounded natural number instead of a `uint64`.
- `client_ts` is ignored by the code and absent here. Error texts, ack counts in
  responses, and the test hooks `Inject` and `SetReadsEnabled` are left out.

## Runs

Each run explores every interleaving of the named instance. Bounds: `MaxFaults`
failed calls, timeouts and log errors, `MaxCrashes` crashes; the requests are those of
`MCQuorum` and `MCRepair`, on one key, since the keys of a replica are independent;
`MaxAppends`, `MaxClock`, `MaxLogFaults`, `MaxLogCrashes`, `MaxStarts` in `NodeProcess`;
`MaxOps` fault operations, `MaxDebug` requests to `/debug/fault`, `MaxDeaths` deaths and
`MaxWrites` writes in `Layers`.
`CHECK_DEADLOCK FALSE` appears because clients send finitely many requests and the system
then rests.

| Run | Instance | Properties |
|---|---|---|
| `QuorumRegister` | 3 nodes, a register write and a deleting one at two coordinators, W = 3 and W = 2, a read with R = 2 | `WriteDurable`, `QuorumFresh`, `Provenance`, `Converged` |
| `QuorumFaults` | 2 nodes, a put (W = 2) against a delete (W = 1), a read with R = 2, one fault or log error, one crash | `QuorumInvariant`, `WriteDurable`, `QuorumFresh`, `Provenance`, `HintedOrApplied`, `ReplicaMonotone` |
| `SessionCrash` | 2 nodes, two writes at one coordinator and one at the other, one fault, one crash | `CausalOrder`, `WriteDurable`, `Converged`, `VersionUnique` |
| `QuorumORSet` | 2 nodes, an add against a remove, a read of both, one fault, fair goroutines | `AddVisible`, `AddKept`, `Converged`, `RequestsAnswered` |
| `Layers` | triples of values of each policy with equal, neighbouring and distant versions; a write and a read call between two members over either transport, two fault operations, one death; two processes launched with lists that repeat, leave out or do not parse; three writes of facts and tags of the entities `ab` and `a:b`, scans for these and for `a` | `MergeCommutes`, `MergeAssociates`, `MergeAbsorbs`, `QuorumsMeet`, `FailedMeansNothing`, `FailBudget`, `ImplementsMemory`, `FaultNetImplementsCall`, `HTTPImplementsCall`, `CallsReturn` |
| `NodeProcess` | 1 node, two keys, a put, an add and a remove whose line is too long, in any order, one failed append, one exit or crash, two starts of the loop, fair loop | `HistoryExact`, `SeqIncreasing`, `OnHasLoop`, `ImplementsReplica`, `StopEndsLoops` |
| `Repair` | 2 nodes, concurrent puts (W = 2 and W = 1), a loop at one node, one fault or log error, one crash, fair loop | `RepairInvariant`, `ExchangeSyncs`, `ReplicaMonotone`, `EventuallyConverged`, `EventuallyDrained` |
| `ReadLastWrite` | 3 nodes, two LWW writes, one read | `ReadsLastWrite` (violated) |
| `VersionReuse` | 3 nodes, two writes at one coordinator, one crash | `VersionIdentifies` (violated) |
| `TagReuse` | 3 nodes, two adds at one coordinator, one crash | `UniqueTag` (violated) |
| `LogLost` | 1 node, a put, an add and a remove in any order, one failed append, one exit or crash | `LogReopens` (violated) |
| `HintLost` | 2 nodes, two writes at one coordinator, its loop, no fault | `HintedOrApplied` (violated) |

Why the bounds suffice for the cases that matter: three nodes with R = W = 2 are
the smallest system in which two quorums overlap in one node and miss another; two
nodes with W = 1 and R = 2 are the smallest with unequal overlapping quorums, and
make room for a fault or a log error and a crash in one behaviour; one loop at one of
two writing nodes has something to pull and something to push; two writes at one
coordinator are needed for a version or tag to be reused; three writes on two nodes
let a restarted coordinator continue beside a concurrent one. One node is enough for
`NodeProcess`, whose nodes share nothing; one failed append can leave every kind of partial
line, with appends and a restart behind it; two starts are what it takes for a goroutine to
miss its channel. Two calls of one sender share its limit and its deny map, and their kinds
are the two the client treats differently.

What the properties say:

- `QuorumFresh`: a read that answers returns a version at least as new as every write
  of its key answered before it began, if R + W > N.
- `WriteDurable`: an answered write stays on W replicas, in its own or a newer version.
- `CausalOrder`: a node that acked a write orders all its later writes after it, a
  restart in between included.
- `ReplicaMonotone`: no step takes the version a replica stores back.
- `Provenance`: a stored or returned value is one that a client wrote, version and payload.
- `Converged`: when all payloads have been applied everywhere, all replicas are equal,
  whatever the order.
- `HintedOrApplied`: when the goroutines of a write have ended and no node crashed,
  every other member has the write or its coordinator holds a hint for it.
- `VersionUnique`: without crashes two replicas with the same version have the same value.
- `AddKept`, `AddVisible`: an add survives at each replica that acked it, and in every
  overlapping read, unless a remove had seen that very add.
- `RequestsAnswered`: every accepted request is answered, and with success unless a call
  failed or timed out; only a crash of its coordinator leaves it open. Fairness is weak and covers the goroutines of
  accepted requests and the deliveries their calls wait for: the Go scheduler runs every
  runnable goroutine, and a call that does not fail returns. Clients, faults,
  cancellations, crashes and restarts are never forced.
- `RepairInvariant`: types, and what the steps of a loop rely on: its round and its replay
  never overlap, and a replay that delivers has a hint left.
- `ExchangeSyncs`: an exchange that met no error leaves both sides with the merge of all
  that `Scan` compared, whatever happened at either side meanwhile.
- `EventuallyConverged`: if the nodes stay up once faults are over, the replicas become
  and stay equal, even if no payload outstanding is ever delivered.
  `EventuallyDrained`: under the same condition the lists of hints of a node that runs a loop
  become and stay empty. Fairness is weak and covers the loop only, which runs on a
  ticker and waits for nothing but calls, which return; restarts are not forced.
- `ImplementsReplica`: every step of a replica over its file is a step of `ReplicaSpec`.
  `HistoryExact`: while no append has failed since the start, `History` tells what the map
  went through. After a failed append it may show an entry that was never stored.
  `SeqIncreasing`: sequence numbers in the file grow, over failures and restarts.
- `OnHasLoop`: while the loop is on, a goroutine runs that nothing has told to stop.
  `StopEndsLoops`: after a last stop every goroutine ends, also one that missed its channel.
  Fairness is weak for coming round to the `select` and strong for leaving it: a `select`
  with a closed channel and a ticker chooses at random among the ready cases.
- `FaultNetImplementsCall`, `HTTPImplementsCall`: both transports are a `Call`.
  `FailedMeansNothing`: over the test network, and only there, a failed call has had and
  will have no effect; late and doubtful deliveries are not among the faults the tests
  inject. `FailBudget`: `FailFromAfter` lets exactly as many sends through as it says before
  it stops any.
  `CallsReturn`: no call hangs; fairness is weak for the caller's goroutine, which a sleep,
  a handler or the client's two-second timeout lets go on.
- `MergeCommutes`, `MergeAssociates`, `MergeAbsorbs`: the order and repetition in which
  values of one policy arrive do not matter.
- `QuorumsMeet`: running processes whose lists are meant for the same members, in whatever
  order, with whatever blanks and repetitions, have quorums that meet. Nothing is said of
  processes whose lists name different members; the code does not compare lists.
- `ImplementsMemory`: facts of different names do not touch each other, scans find what
  they should, policies may change between writes of a key, a write that is reported as
  done was done, and a read that failed says so in its answer. It does not say that the exit
  code tells of every failed read: those of `GET /fact` and `GET /tag` are successes to
  `memctl`.

### Where code and documentation disagree

- **A read after a successful write need not return it** (`ReadLastWrite`). The version
  comes from the coordinator's own clock. Write x through node 2 and have it answered by
  nodes 2 and 3, then write y through node 1 before x reaches it: y gets `(1, node 1)`,
  loses against `(1, node 2)`, and every later read returns x, although y was answered
  last and R + W > N. What does hold is `QuorumFresh`.
- **A version can name two values** (`VersionReuse`). The tick of a write whose payload
  was sent but not applied at home is not in the log; after a restart it is issued again.
- **OR-Set tags repeat after a restart** (`TagReuse`). `tagCounter` lives in memory only.
- **A log can become unreadable by an append that succeeds** (`LogLost`). A failed append,
  or a crash in the middle of one, can leave a whole entry without its newline. `load` opens
  that file, and the next append goes on the same line; the start after that fails in
  `json.Unmarshal`, with everything the log holds, although its comment says that replay
  "rebuilds in-memory state after a process restart". A line longer than the 8 MB buffer of
  `load` ends the same way.
- **A replay can drop a hint** (`HintLost`). `ReplayHints` takes the whole list of a
  target after it delivered the copy it had peeked at; a hint stored in between, by a
  call that a returning `Write` cancels, is gone without having been sent.
  Anti-entropy still brings the value over (`EventuallyConverged`).

Without a run of their own, since the modules state them as they are:

- **Read repair can leave a respondent without the value.** The comment of `Node.Read`
  (`coordinator.go:166`) speaks of pushing the winner "to stale respondents". `Agreed` skips
  views that found nothing (`resolve.go:49`), so a read of one holder and one empty
  respondent repairs nobody (`ReadReceive`).
- **The policy of a key is not "set on first write"** (`README.md:32` of the repository).
  Every write brings a policy, the stored value takes that of the newer version, and
  `Resolve` goes by it. `AgentMemory` promises what the code does: an update under another
  policy replaces what the slot held.
- **The single node of the repository's README refuses `memctl`'s defaults.** With one member
  a `W` or `R` of 2 is an invalid quorum: `put-fact` is answered 503, `get-fact` 200 with an
  error in the body.

## Proofs

| Module | Theorems |
|---|---|
| `ConflictProofs` | lemmas: versions are totally ordered, `Resolve` returns a well-formed value with the greater of the two versions, for any mix of policies |
| `ReplicaProofs`, `WriteProofs`, `ReadProofs` | lemmas: each step of a replica, of a write and of a read preserves the invariant |
| `RepairProofs`, `StoreProofs` | lemmas: each step of a round, a replay and a late delivery preserves the invariant of the store; what the steps of requests do to hints and loops |
| `QuorumProofs` | for the requests alone: `Invariance`, `Freshness`, `Durability`, `Causality`, `Monotonicity`; with the loops: `RepairInvariance`, `RepairedFreshness`, `RepairedDurability`, `RepairedMonotonicity` |
| `LayerProofs` | merge: `ResolveLaws`, `MergeIsJoin`, `MergeCommutativity`, `MergeAbsorption`; transports: `FaultNetRefinement`, `FaultNetFailures`, `FaultNetBudget`, `HTTPRefinement`; loop control: `LoopRuns` |

The theorems of `QuorumProofs` are about `Spec` of `QuorumStore` and `StoreSpec` of
`RepairStore`. They hold for every finite membership, every set of keys, requests, loops
and policies (mixed on one key too) and any bounds on faults and crashes. They use only the
named assumptions of the modules: `NodesAssumption`, `WriteAssumption`, `ReadAssumption`,
`LogAssumption`, `BoundsAssumption`, `LoopAssumption`.

`QuorumFresh` is not inductive. `QuorumInvariant` adds what it rests on:

- `ReplicaInv`: the clock covers the log, the log covers the map. A restart therefore
  never loses a version, and a tick exceeds all a node ever stored.
- `WriteOK`: who has applied a payload and reported it, or is about to, stores a version
  at least as new; a write answered OK has W acks and never changes again; what a node
  acked before a tick is below the version ticked.
- `ReadOK`: a view served by a member that had acked an earlier write is at least as
  new as that write; the fold is at least as new as each of its views.

Freshness then follows from the overlap: R views and W acks among fewer than R + W
members share a member. Each step of the store is one lemma of `WriteProofs` or
`ReadProofs`; they all use that every step is `Monotone`.

With the loops the invariant grows by `RoundOK` and `ReplayOK`: the digest, the snapshot, the
plan and the copied hints of a loop are well-formed values, a round and a replay of one loop
do not overlap, and a replay that delivers has a hint left. Nothing about the age of those
values is needed: whatever a stale plan pushes, `Apply` merges, and merging is `Monotone`.
That a round always finds its next peer needs ids that a finite set can be sorted by; the
lemma `NodesOrdered` takes the least element from the library's well-founded order of the
naturals.

The refinements of `Call` are step by step, from an invariant that ties the state of a call
to its answer (a call that waits for its handler has none yet; one that is on its way back
has one). `HTTPRefinement` assumes `ReadsRefuse = FALSE`. `FaultNetBudget` relates the
counter of the code to the sends that really passed, from both sides. `LoopRuns` needs that the goroutine of
the last start has the open channel whenever it waits, which the unlocked read preserves
because the field only moves forward.

Only model-checked: `Converged` (proved at the level of the merge by `MergeIsJoin`, not
for the store), `Provenance`, `HintedOrApplied`, `VersionUnique`, the OR-Set properties,
`ExchangeSyncs`, `ImplementsMemory` and `QuorumsMeet`; `ImplementsReplica`, `HistoryExact`
and `SeqIncreasing`, which compute folds over a file and would need induction over data;
and all liveness, which is out of reach of the prover.

## Not modelled

- The health, history, hints and key listing pages of `server.go`, `memctl history`, flags,
  environment variables and usage texts: they only format or parse. The pages that trigger
  an anti-entropy round or a replay start what a further loop of `RepairStore` does.
- `Witness`, `Winner`, `PushWinner`, `NeedsRepair`, `Seen`: called by no code or by tests only.
- Attributes with a colon in their name, and convergence of concurrent writes of one key under different
  policies, which the comment of `Resolve` calls unsupported.
- The agent API under concurrency and failures as one composed model: `MemoryApi` has one
  client, `QuorumStore` has the concurrency; their product is out of TLC's reach.
