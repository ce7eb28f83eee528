----------------------------- MODULE Transport -----------------------------
(***************************************************************************)
(* The Transport of a cluster: the in-process network of the tests or the  *)
(* HTTP transport of cmd/node, never both.                                 *)
(***************************************************************************)
EXTENDS FaultNet, HTTPTransport

VARIABLE carrier

transportVars == <<netVars, httpVars, carrier>>

TransportInit ==
  /\ carrier \in {"FaultNet", "HTTPTransport"}
  /\ NetInit
  /\ HTTPInit

OverFaultNet == carrier = "FaultNet" /\ NetNext /\ UNCHANGED <<httpVars, carrier>>
OverTheWire == carrier = "HTTPTransport" /\ HTTPNext /\ UNCHANGED <<netVars, carrier>>

TransportNext == OverFaultNet \/ OverTheWire

\* A step of a caller's goroutine.
CallProgress ==
  \E c \in Calls :
    \/ CallStep(c) /\ UNCHANGED <<ops, httpVars, carrier>>
    \/ ClientStep(c) /\ UNCHANGED <<netVars, carrier>>

\* Some goroutine that can run does: a sleep ends, a handler returns, and
\* Client.Do returns after two seconds at the latest.
TransportSpec ==
  /\ TransportInit
  /\ [][TransportNext]_transportVars
  /\ WF_transportVars(CallProgress)

\* A call does not hang: the caller gets a result or an error, whatever
\* becomes of the other member, unless its own process dies.
CallsReturn ==
  <>[](\A c \in Calls : /\ fstate[c] \in {"idle", "ok", "error"}
                       /\ hstate[c] \in {"idle", "ok", "error", "abandoned"})

=============================================================================
