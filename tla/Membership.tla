----------------------------- MODULE Membership -----------------------------
(***************************************************************************)
(* The static membership (internal/cluster/membership.go): what a process  *)
(* makes of the list of peers it is started with.  Processes are started   *)
(* one by one, each with a list of its own, and may be started again with  *)
(* another one.                                                            *)
(*                                                                         *)
(* A list is the sequence of its trimmed parts, each represented by its    *)
(* id: NoPart is a part with nothing in it, 0 the empty id.  A blank list  *)
(* has no parts.  Peers is a sequence of ids; addresses are left out.      *)
(***************************************************************************)
EXTENDS Types, Sequences, TLC

CONSTANT Lists  \* the values of -peers

VARIABLES list,  \* list[n]: the list process n was started with last
          peers  \* peers[n]: Membership.Peers of process n, <<>> if it does not run

memberVars == <<list, peers>>

NoPart == -1

Ids(s) == {s[i] : i \in DOMAIN s}

\* A part has an empty id.
ParseFails(parts) == 0 \in Ids(parts)

\* A loop that does not look whether it has seen an id.
ListedRepeated(parts) == SelectSeq(parts, LAMBDA id : id # NoPart)

\* The loop over the parts: blank ones, and ids seen before, are skipped.
Listed(parts) ==
  LET read[i \in 0..Len(parts)] ==
        IF i = 0 THEN <<>>
        ELSE IF parts[i] = NoPart \/ parts[i] \in Ids(read[i - 1]) THEN read[i - 1]
        ELSE Append(read[i - 1], parts[i])
  IN  read[Len(parts)]

\* The process itself is a member, listed or not.
ParsePeers(self, parts) ==
  LET listed == Listed(parts)
  IN  SortSeq(IF self \in Ids(listed) THEN listed ELSE Append(listed, self),
              LAMBDA p, q : p < q)

----------------------------------------------------------------------------

MembersInit ==
  /\ list = [n \in Nodes |-> <<>>]
  /\ peers = [n \in Nodes |-> <<>>]

Running(n) == peers[n] # <<>>

\* A process whose list does not parse ends at once (log.Fatal).
Launch(n, parts) ==
  /\ ~ Running(n)
  /\ list' = [list EXCEPT ![n] = parts]
  /\ peers' = [peers EXCEPT ![n] =
       IF ParseFails(parts) THEN <<>> ELSE ParsePeers(n, parts)]

Quit(n) ==
  /\ Running(n)
  /\ peers' = [peers EXCEPT ![n] = <<>>]
  /\ UNCHANGED list

MembersNext ==
  \E n \in Nodes : Quit(n) \/ \E parts \in Lists : Launch(n, parts)

----------------------------------------------------------------------------

\* The members process n is meant to have: those of its list, and itself.
Meant(n) == (Ids(list[n]) \ {NoPart}) \cup {n}

\* A write at n that has the acks of W and a read at m that has the views of R
\* meet in a member whenever |W| + |R| > N as the writer counts N, if the two
\* processes were meant to have the same members.  Write and Read start one
\* goroutine per entry of Peers and N is its length (ParsePeers, N), so it
\* takes the same entries, each once, in both processes, whatever order,
\* blanks and repetitions their lists have and whether they name themselves.
QuorumsMeet ==
  \A n, m \in Nodes :
    Running(n) /\ Running(m) /\ Meant(n) = Meant(m) =>
      \A W \in SUBSET DOMAIN peers[n], R \in SUBSET DOMAIN peers[m] :
        Cardinality(W) + Cardinality(R) > Len(peers[n]) =>
          \E i \in W, j \in R : peers[n][i] = peers[m][j]

=============================================================================
