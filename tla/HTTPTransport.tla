--------------------------- MODULE HTTPTransport ---------------------------
(***************************************************************************)
(* The HTTP transport between processes: the client side in                *)
(* internal/net/transport.go against the /internal/* handlers of           *)
(* internal/node/server.go.  The request may arrive after the client has   *)
(* given up, the response may be lost, and either process may die.         *)
(***************************************************************************)
EXTENDS Endpoints

CONSTANTS Absent,       \* the answer "not found", an empty digest
          CallKind,     \* CallKind[c]: the method called
          Addrs,        \* the members whose address is configured
          ReadsRefuse,  \* whether a member may have its reads switched off
          MaxDebug,     \* bound on the requests to /debug/fault
          MaxDeaths     \* bound on the deaths of processes

Kinds == {"ReplicateWrite", "ReplayHint", "ReplicateRead", "GetDigest"}

ASSUME HTTPAssumption ==
  /\ CallKind \in [Calls -> Kinds]
  /\ Absent \in Answers
  /\ ReadsRefuse \in BOOLEAN
  /\ MaxDebug \in Nat /\ MaxDeaths \in Nat

VARIABLES deny,      \* deny[n]: the members process n is told not to call
          serving,   \* the processes that run
          inflight,  \* the calls whose request was sent and not yet handled
          hstate,    \* hstate[c]: where call c is, at the client
          hanswer, hresult,
          debugs, deaths

hcallVars == <<inflight, hstate, hanswer, hresult>>
httpVars == <<deny, serving, hcallVars, debugs, deaths>>

HTTPInit ==
  /\ deny = [n \in Nodes |-> {}]
  /\ serving = Nodes
  /\ inflight = {}
  /\ hstate = [c \in Calls |-> "idle"]
  /\ hanswer = [c \in Calls |-> Pending]
  /\ hresult = [c \in Calls |-> Pending]
  /\ debugs = 0 /\ deaths = 0

----------------------------------------------------------------------------
(* Around the calls. *)

\* /debug/fault with the actions block, unblock and heal.  An unblock that
\* names nobody is a heal.
SetDeny(n, denied) ==
  /\ n \in serving
  /\ debugs < MaxDebug
  /\ deny' = [deny EXCEPT ![n] = denied]
  /\ debugs' = debugs + 1
  /\ UNCHANGED <<serving, hcallVars, deaths>>

Block(n, ids) == SetDeny(n, deny[n] \cup ids)

Unblock(n, ids) == SetDeny(n, IF ids = {} THEN {} ELSE deny[n] \ ids)

\* The process dies.  The requests it has sent are on their way.
Die(n) ==
  /\ n \in serving
  /\ deaths < MaxDeaths
  /\ serving' = serving \ {n}
  /\ hstate' = [c \in Calls |->
       IF CallFrom[c] = n /\ hstate[c] \in {"called", "sent"}
       THEN "abandoned" ELSE hstate[c]]
  /\ deaths' = deaths + 1
  /\ UNCHANGED <<deny, inflight, hanswer, hresult, debugs>>

\* Deny has no lock: the runtime ends a process that it sees look up a member
\* for a call while the handler of /debug/fault writes the map.
DenyRace(n) ==
  /\ debugs < MaxDebug
  /\ \E c \in Calls : CallFrom[c] = n /\ hstate[c] = "called"
  /\ Die(n)

\* A new process: NewHTTPTransport starts with nobody denied.
NewHTTPTransport(n) ==
  /\ n \notin serving
  /\ serving' = serving \cup {n}
  /\ deny' = [deny EXCEPT ![n] = {}]
  /\ UNCHANGED <<hcallVars, debugs, deaths>>

----------------------------------------------------------------------------
(* A call. *)

around == <<deny, serving, debugs, deaths>>

\* The caller enters ReplicateWrite, ReplicateRead, GetDigest or ReplayHint.
Enter(c) ==
  /\ CallFrom[c] \in serving
  /\ hstate[c] = "idle"
  /\ hstate' = [hstate EXCEPT ![c] = "called"]
  /\ UNCHANGED <<around, inflight, hanswer, hresult>>

ReturnError(c) ==
  /\ hstate' = [hstate EXCEPT ![c] = "error"]
  /\ UNCHANGED <<around, inflight, hanswer, hresult>>

url(c) == CallTo[c] \in Addrs \ deny[CallFrom[c]]

NoURL(c) == hstate[c] = "called" /\ ~ url(c) /\ ReturnError(c)

Send(c) ==
  /\ hstate[c] = "called"
  /\ url(c)
  /\ hstate' = [hstate EXCEPT ![c] = "sent"]
  /\ inflight' = inflight \cup {c}
  /\ UNCHANGED <<around, hanswer, hresult>>

\* A client without a timeout.
DoFailsRefused(c) ==
  hstate[c] = "sent" /\ CallTo[c] \notin serving /\ ReturnError(c)

\* Client.Do fails: nobody listens, the connection breaks, the two seconds of
\* the client or the caller's context are over.  So does a body cut short.
DoFails(c) == hstate[c] = "sent" /\ ReturnError(c)

\* ApplyReplicate fails on a log error, ServeRead when reads are off,
\* ServeDigest never.
MayRefuse(kind) ==
  \/ kind \in {"ReplicateWrite", "ReplayHint"}
  \/ kind = "ReplicateRead" /\ ReadsRefuse

\* The request reaches the server and the handler runs.  The client may have
\* given up, and its process may be gone.
Handle(c) ==
  /\ c \in inflight
  /\ CallTo[c] \in serving
  /\ inflight' = inflight \ {c}
  /\ \E a \in Answers \cup {v \in {Refused} : MayRefuse(CallKind[c])} :
       hanswer' = [hanswer EXCEPT ![c] = a]
  /\ UNCHANGED <<around, hstate, hresult>>

StatusOf(kind, a) ==
  IF a # Refused THEN 200 ELSE IF kind = "ReplicateRead" THEN 503 ELSE 500

\* A body {"error": ...} decodes to a reply with every field zero.
Decode(a) == IF a = Refused THEN Absent ELSE a

\* Clients that look at no status.
ChecksNothing(kind) == FALSE

\* ReplicateRead and GetDigest decode the body whatever the status.
ChecksStatus(kind) == kind \in {"ReplicateWrite", "ReplayHint"}

Receive(c) ==
  /\ hstate[c] = "sent"
  /\ hanswer[c] # Pending
  /\ IF ChecksStatus(CallKind[c]) /\ StatusOf(CallKind[c], hanswer[c]) >= 300
     THEN ReturnError(c)
     ELSE /\ hstate' = [hstate EXCEPT ![c] = "ok"]
          /\ hresult' = [hresult EXCEPT ![c] = Decode(hanswer[c])]
          /\ UNCHANGED <<around, inflight, hanswer>>

\* What the caller's goroutine does next.
ClientStep(c) == NoURL(c) \/ Send(c) \/ DoFails(c) \/ Receive(c)

HTTPNext ==
  \/ \E n \in Nodes : Die(n) \/ DenyRace(n) \/ NewHTTPTransport(n)
  \/ \E n \in Nodes, ids \in SUBSET Nodes : Block(n, ids) \/ Unblock(n, ids)
  \/ \E c \in Calls : Enter(c) \/ ClientStep(c) \/ Handle(c)

HTTPSpec == HTTPInit /\ [][HTTPNext]_httpVars

----------------------------------------------------------------------------

\* A call whose process died is one that nobody waits for.
HState(c) ==
  IF hstate[c] \in {"called", "sent", "abandoned"} THEN "open" ELSE hstate[c]

OverHTTP == INSTANCE Call WITH
  cstate <- [c \in Calls |-> HState(c)], answer <- hanswer, result <- hresult

\* HTTP is a transport: the client takes an answer for a success only when
\* the handler ran and did not refuse, across late requests, lost responses,
\* deaths and restarts on both sides, and blocked members.
HTTPImplementsCall == OverHTTP!CallSpec

=============================================================================
