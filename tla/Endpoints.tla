----------------------------- MODULE Endpoints -----------------------------
(* The calls between members that the transports carry. *)

EXTENDS Types

CONSTANTS Calls,     \* identities of the calls of a behaviour
          Answers,   \* what a handler may answer
          Refused,   \* a handler that returns an error
          CallFrom,  \* CallFrom[c]: the calling member
          CallTo     \* CallTo[c]: the member called

Pending == "pending"

\* A member does not call itself over a transport.
ASSUME EndpointsAssumption ==
  /\ CallFrom \in [Calls -> Nodes] /\ CallTo \in [Calls -> Nodes]
  /\ \A c \in Calls : CallFrom[c] # CallTo[c]
  /\ Refused \notin Answers
  /\ Pending \notin Answers \cup {Refused}

=============================================================================
