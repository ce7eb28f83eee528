----------------------------- MODULE QuorumInv -----------------------------
(***************************************************************************)
(* The inductive invariant behind the safety properties of QuorumStore.    *)
(***************************************************************************)
EXTENDS QuorumStore

Stored(v) == v = NoValue \/ WellFormed(v)

\* A replica's log is never behind its map, nor its clock behind its log:
\* what a restart rebuilds the map and the clock from covers every version
\* that was ever stored.
ReplicaInv ==
  \A n \in Nodes :
    /\ clock[n] >= logged[n]
    /\ \A k \in Keys :
         /\ Stored(kv[n][k]) /\ Stored(disk[n][k])
         /\ AtLeast(disk[n][k].version, kv[n][k].version)
         /\ logged[n] >= disk[n][k].version.lamport

\* The payload of write w exists.
Sent(w) == Found(wop[w].val)

\* Members that have applied the payload of w and reported it, or are about
\* to.
Holders(w) == acked[w] \cup (pend[w] \ net[w])

WriteOK(w) ==
  /\ Stored(wop[w].val)
  /\ wstate[w] # "idle" => wop[w].ver.lamport >= 1
  /\ Sent(w) => /\ wstate[w] \notin {"idle", "ticked"}
                /\ AtLeast(wop[w].val.version, wop[w].ver)
  /\ ~ Sent(w) => /\ wstate[w] \in {"idle", "ticked", "dead"}
                  /\ net[w] = {} /\ pend[w] = {} /\ acked[w] = {}
  /\ \A p \in Holders(w) : AtLeast(kv[p][WKey(w)].version, wop[w].ver)
  /\ wstate[w] = "ok" => Cardinality(acked[w]) >= WQuorum(w)
  /\ \A x \in wop[w].after :
       /\ wstate[x] = "ok"
       /\ WNode(w) \in acked[x] => Less(wop[x].ver, wop[w].ver)

\* A view served by a member that had acked w before the read began is at
\* least as new as w, and the fold is at least as new as each view in it.
ReadOK(r) ==
  /\ Stored(racc[r])
  /\ \A p \in Nodes : Stored(rview[r][p])
  /\ \A w \in rbefore[r] :
       /\ wstate[w] = "ok"
       /\ WKey(w) = RKey(r)
       /\ \A p \in (rserved[r] \cup rset[r]) \cap acked[w] :
            AtLeast(rview[r][p].version, wop[w].ver)
  /\ \A p \in rset[r] : AtLeast(racc[r].version, rview[r][p].version)
  /\ rstate[r] \in {"repairing", "done"} =>
       Cardinality(rset[r]) >= RQuorum(r)
  /\ rstate[r] = "idle" => rset[r] = {} /\ rserved[r] = {}
  /\ rout[r] \cap (rserved[r] \cup rset[r]) = {}
  /\ rtodo[r] \cup rlate[r] # {} =>
       Found(racc[r]) /\ rstate[r] \notin {"idle", "waiting"}

WriteInv == \A w \in WriteIds : WriteOK(w)
ReadInv == \A r \in ReadIds : ReadOK(r)

\* Together inductive: every action of the store preserves it.
QuorumInvariant == TypeOK /\ ReplicaInv /\ WriteInv /\ ReadInv

============================================================================
