--------------------------- MODULE LoggedReplica ---------------------------
(***************************************************************************)
(* A replica over its write-ahead log as a file (internal/store/wal.go,    *)
(* internal/node/replica.go).                                              *)
(*                                                                         *)
(* The file is a sequence of tokens: an entry, which is the JSON of one    *)
(* append; EOL; and Torn, a proper prefix of an entry.  A write that fails *)
(* may leave a part of its line, and the next append goes right behind it. *)
(* A process that dies in the middle of a write is an append that fails    *)
(* followed by a crash.  Bytes written survive the process.  A line may be *)
(* longer than load can read.                                              *)
(*                                                                         *)
(* Append and KV.Apply are two steps: the mutex of the replica keeps other *)
(* calls of Apply out between them, but not a crash, and not a reader.     *)
(***************************************************************************)
EXTENDS Conflict, Sequences

CONSTANTS Incoming,       \* the messages [key, value] that may arrive
          TooLong,        \* those whose line exceeds the 8 MB buffer of load
          MaxAppends,     \* bound on the entries of a log
          MaxClock,       \* bound on the Lamport clock
          MaxLogFaults,   \* bound on the appends that fail
          MaxLogCrashes   \* bound on the crashes of a node

ASSUME IncomingAssumption ==
  /\ \A m \in Incoming : m.key \in Keys /\ WellFormed(m.value)
  /\ TooLong \subseteq Incoming

VARIABLES kv,       \* kv[n][k]: the value replica n stores for key k, or NoValue
          clock,    \* clock[n]: the Lamport clock of node n
          up,       \* up[n]: whether the process of node n is running
          file,     \* file[n]: the log file of node n
          history,  \* history[n]: WAL.log, the entries the process has in memory
          seq,      \* seq[n]: the sequence number of the last append
          open,     \* open[n]: whether the file is open for appending
          storing,  \* storing[n]: the entry logged and not yet stored, or NoEntry
          failed,   \* failed[n]: not in the code: some append has failed since OpenWAL
          logFaults, logCrashes  \* how often either has happened

walVars == <<file, history, seq, open, storing, failed>>

loggedVars == <<kv, clock, up, walVars, logFaults, logCrashes>>

NoEntry == [seq |-> 0, key |-> CHOOSE k \in Keys : TRUE, value |-> NoValue]

EOL == [token |-> "eol"]
Torn == [token |-> "torn"]
Line(e) == [token |-> "entry", entry |-> e]

IsEntry(t) == t.token = "entry"

----------------------------------------------------------------------------
(* Reading a file. *)

Fits(e) == [key |-> e.key, value |-> e.value] \notin TooLong

\* load accepts every line that is blank or one entry and fits into the buffer
\* of its scanner: no torn entry, no entry right behind another one, and none
\* that is too long.
Readable(f) ==
  /\ \A i \in DOMAIN f : f[i] # Torn
  /\ \A i \in DOMAIN f : IsEntry(f[i]) =>
       /\ Fits(f[i].entry)
       /\ i > 1 => f[i - 1] = EOL

Entries(f) ==
  LET es == SelectSeq(f, IsEntry) IN [i \in DOMAIN es |-> es[i].entry]

\* The greatest of a set of naturals, 0 if there is none.
Maximum(S) == CHOOSE x \in S \cup {0} : \A y \in S : y <= x

MaxSeq(es) == Maximum({es[i].seq : i \in DOMAIN es})

\* NewReplica: the fold of the merge over the entries of a log.
ReplayKV(es) ==
  LET replayed[i \in 0..Len(es)] ==
        IF i = 0 THEN [k \in Keys |-> NoValue]
        ELSE LET m == replayed[i - 1]
                 e == es[i]
             IN  [m EXCEPT ![e.key] = mergeIncoming(@, e.value)]
  IN  replayed[Len(es)]

\* The clock has observed each of them.
ReplayClock(es) ==
  Maximum({es[i].value.version.lamport : i \in DOMAIN es})

----------------------------------------------------------------------------

LoggedInit ==
  /\ kv = [n \in Nodes |-> [k \in Keys |-> NoValue]]
  /\ clock = [n \in Nodes |-> 0]
  /\ up = [n \in Nodes |-> TRUE]
  /\ file = [n \in Nodes |-> <<>>]
  /\ history = [n \in Nodes |-> <<>>]
  /\ seq = [n \in Nodes |-> 0]
  /\ open = [n \in Nodes |-> TRUE]
  /\ storing = [n \in Nodes |-> NoEntry]
  /\ failed = [n \in Nodes |-> FALSE]
  /\ logFaults = 0
  /\ logCrashes = [n \in Nodes |-> 0]

TickLogged(n) ==
  /\ up[n]
  /\ clock[n] < MaxClock
  /\ clock' = [clock EXCEPT ![n] = Tick(@)]
  /\ UNCHANGED <<kv, up, walVars, logFaults, logCrashes>>

\* Replica.Apply up to the merge: the mutex is taken and the clock observes.
ApplyBegin(n, m) ==
  /\ up[n]
  /\ storing[n] = NoEntry
  /\ clock' = [clock EXCEPT ![n] = Observe(@, m.value.version.lamport)]

Changes(n, m) == mergeIncoming(kv[n][m.key], m.value) # kv[n][m.key]

\* The merge changes nothing: the log is not touched.
ApplyNoop(n, m) ==
  /\ ApplyBegin(n, m)
  /\ ~ Changes(n, m)
  /\ UNCHANGED <<kv, up, walVars, logFaults, logCrashes>>

NextEntry(n, m) == [seq |-> seq[n] + 1, key |-> m.key, value |-> m.value]

\* The part of Append that happens whatever becomes of the write.
CountEntry(n, m) ==
  /\ Len(history[n]) < MaxAppends
  /\ seq' = [seq EXCEPT ![n] = @ + 1]
  /\ history' = [history EXCEPT ![n] = Append(@, NextEntry(n, m))]

\* WAL.Append succeeds.
AppendOK(n, m) ==
  /\ ApplyBegin(n, m)
  /\ Changes(n, m)
  /\ open[n]
  /\ CountEntry(n, m)
  /\ file' = [file EXCEPT ![n] = @ \o <<Line(NextEntry(n, m)), EOL>>]
  /\ storing' = [storing EXCEPT ![n] = NextEntry(n, m)]
  /\ UNCHANGED <<kv, up, open, failed, logFaults, logCrashes>>

\* KV.Apply stores the merge, and Apply returns nil.
StoreMerged(n) ==
  LET e == storing[n]
  IN  /\ up[n]
      /\ e # NoEntry
      /\ kv' = [kv EXCEPT ![n][e.key] = mergeIncoming(@, e.value)]
      /\ storing' = [storing EXCEPT ![n] = NoEntry]
      /\ UNCHANGED <<clock, up, file, history, seq, open, failed,
                     logFaults, logCrashes>>

\* What a failed append may leave behind: nothing, part of the entry, the
\* entry without its newline, or, when it was the Sync, the whole line.
Remains(e) == {<<>>, <<Torn>>, <<Line(e)>>, <<Line(e), EOL>>}

\* A replica that stores the merge although the log has refused it.
AppendErrorStored(n, m) ==
  /\ ApplyBegin(n, m)
  /\ Changes(n, m)
  /\ open[n]
  /\ logFaults < MaxLogFaults
  /\ CountEntry(n, m)
  /\ kv' = [kv EXCEPT ![n][m.key] = mergeIncoming(@, m.value)]
  /\ failed' = [failed EXCEPT ![n] = TRUE]
  /\ logFaults' = logFaults + 1
  /\ UNCHANGED <<up, file, open, storing, logCrashes>>

\* WAL.Append returns an error: the entry stays in memory, the map as it is.
AppendError(n, m) ==
  /\ ApplyBegin(n, m)
  /\ Changes(n, m)
  /\ open[n]
  /\ logFaults < MaxLogFaults
  /\ CountEntry(n, m)
  /\ \E tail \in Remains(NextEntry(n, m)) : file' = [file EXCEPT ![n] = @ \o tail]
  /\ failed' = [failed EXCEPT ![n] = TRUE]
  /\ logFaults' = logFaults + 1
  /\ UNCHANGED <<kv, up, open, storing, logCrashes>>

\* After WAL.Close a handler or a loop that is still running gets an error.
AppendClosed(n, m) ==
  /\ ApplyBegin(n, m)
  /\ Changes(n, m)
  /\ ~ open[n]
  /\ CountEntry(n, m)
  /\ failed' = [failed EXCEPT ![n] = TRUE]
  /\ UNCHANGED <<kv, up, file, open, storing, logFaults, logCrashes>>

\* WAL.Close, on the way out of the process; w.mu waits for an append.
CloseLog(n) ==
  /\ up[n] /\ open[n]
  /\ open' = [open EXCEPT ![n] = FALSE]
  /\ UNCHANGED <<kv, clock, up, file, history, seq, storing, failed,
                 logFaults, logCrashes>>

\* The process ends, of itself or not.
Die(n) ==
  /\ up[n]
  /\ logCrashes[n] < MaxLogCrashes
  /\ up' = [up EXCEPT ![n] = FALSE]
  /\ logCrashes' = [logCrashes EXCEPT ![n] = @ + 1]
  /\ UNCHANGED <<kv, clock, walVars, logFaults>>

\* A start that does not look for the last sequence number.
OpenLogFromZero(n) ==
  /\ history' = [history EXCEPT ![n] = Entries(file[n])]
  /\ seq' = [seq EXCEPT ![n] = 0]

\* A start that begins a new history.
OpenLogForgets(n) ==
  /\ history' = [history EXCEPT ![n] = <<>>]
  /\ seq' = [seq EXCEPT ![n] = MaxSeq(Entries(file[n]))]

\* load: the entries of the file, and the greatest sequence number in it.
OpenLog(n) ==
  /\ history' = [history EXCEPT ![n] = Entries(file[n])]
  /\ seq' = [seq EXCEPT ![n] = MaxSeq(Entries(file[n]))]

\* OpenWAL and NewReplica.  A file with a line that does not parse, or is too
\* long, is refused and the process does not come up.
Open(n) ==
  /\ ~ up[n]
  /\ Readable(file[n])
  /\ OpenLog(n)
  /\ up' = [up EXCEPT ![n] = TRUE]
  /\ open' = [open EXCEPT ![n] = TRUE]
  /\ storing' = [storing EXCEPT ![n] = NoEntry]
  /\ failed' = [failed EXCEPT ![n] = FALSE]
  /\ kv' = [kv EXCEPT ![n] = ReplayKV(Entries(file[n]))]
  /\ clock' = [clock EXCEPT ![n] = ReplayClock(Entries(file[n]))]
  /\ UNCHANGED <<file, logFaults, logCrashes>>

\* The calls of a running process.
LogStep(n) ==
  \/ TickLogged(n)
  \/ \E m \in Incoming :
       ApplyNoop(n, m) \/ AppendOK(n, m) \/ AppendError(n, m) \/ AppendClosed(n, m)
  \/ StoreMerged(n)

----------------------------------------------------------------------------
(* The log as the rest of the store sees it.  An entry that is written     *)
(* counts as applied: nobody can tell a replica that dies before it stores *)
(* the merge from one that dies right after.                               *)

AbsKV == [n \in Nodes |->
  IF storing[n] = NoEntry THEN kv[n]
  ELSE [kv[n] EXCEPT ![storing[n].key] = mergeIncoming(@, storing[n].value)]]

Abs == INSTANCE ReplicaSpec WITH
  kv <- AbsKV,
  disk <- [n \in Nodes |-> ReplayKV(Entries(file[n]))],
  logged <- [n \in Nodes |-> ReplayClock(Entries(file[n]))],
  LogMayFail <- TRUE

\* The file implements the log Replica describes: every step of the replica
\* and its file is a step of ReplicaSpec or no step at all.  A crash between
\* Append and KV.Apply, a failed append whose line is in the file after all,
\* and a log that cannot be opened again are steps ReplicaSpec allows.
ImplementsReplica == Abs!ReplicaBehaviour

\* History(key) is the story of the map: while no append has failed since
\* the process started, replaying what it has in memory gives what it
\* stores, over any number of restarts before.
HistoryExact ==
  \A n \in Nodes : up[n] /\ ~ failed[n] => ReplayKV(history[n]) = AbsKV[n]

\* No two entries of a log file have the same sequence number, and they are
\* in order, whatever appends failed and whenever the process restarted.
SeqIncreasing ==
  \A n \in Nodes :
    LET es == Entries(file[n])
    IN  \A i, j \in DOMAIN es : i < j => es[i].seq < es[j].seq

----------------------------------------------------------------------------
(* What the repository's documentation says, and the code does not do. *)

\* A process that has opened its log and not failed to write to it since can be
\* started again: what Append has written behind the lines it found is read
\* back by load ("Replay rebuilds in-memory state after a process restart").
LogReopens == \A n \in Nodes : up[n] /\ ~ failed[n] => Readable(file[n])

============================================================================
