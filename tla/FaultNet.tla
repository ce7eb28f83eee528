------------------------------ MODULE FaultNet ------------------------------
(***************************************************************************)
(* The in-process network with fault injection (internal/net/faultnet.go). *)
(* A call is decided under the network's lock, sleeps for the injected     *)
(* delay and runs the handler it found, in the caller's goroutine.  The    *)
(* faults may change between the decision and the handler, which is also   *)
(* all that a SendHook can do.                                             *)
(***************************************************************************)
EXTENDS Endpoints

CONSTANTS FailAfters, \* the values FailFromAfter is called with
          Sides,      \* the lists of members Partition is called with
          MaxOps      \* bound on the operations of a test

ASSUME FaultNetAssumption ==
  /\ FailAfters \subseteq Nat /\ Sides \subseteq SUBSET Nodes
  /\ MaxOps \in Nat

VARIABLES group,      \* group[n]: the side of a partition, 0 for none
          isolated,   \* the isolated members
          drop,       \* drop[l]: "never", "maybe" or "always", by its probability
          delay,      \* the links with a delay
          handlers,   \* the registered members
          failAfter,  \* failAfter[n]: sends that still pass, NoLimit if unset
          failCount,  \* failCount[n]: sends of n counted against it
          fstate,     \* fstate[c]: where call c is
          fdelayed,   \* fdelayed[c]: whether its sleep takes time
          fanswer, fresult,
          passed,     \* passed[n]: not in the code: sends that passed since FailFromAfter
          ops         \* the operations so far

faultVars == <<group, isolated, drop, delay, handlers, failAfter, failCount>>
fcallVars == <<fstate, fdelayed, fanswer, fresult, passed>>
netVars == <<faultVars, fcallVars, ops>>

NoLimit == -1
Links == Nodes \X Nodes
Both(a, b) == {<<a, b>>, <<b, a>>}

NetInit ==
  /\ group = [n \in Nodes |-> 0]
  /\ isolated = {}
  /\ drop = [l \in Links |-> "never"]
  /\ delay = {}
  /\ handlers = Nodes
  /\ failAfter = [n \in Nodes |-> NoLimit]
  /\ failCount = [n \in Nodes |-> 0]
  /\ fstate = [c \in Calls |-> "idle"]
  /\ fdelayed = [c \in Calls |-> FALSE]
  /\ fanswer = [c \in Calls |-> Pending]
  /\ fresult = [c \in Calls |-> Pending]
  /\ passed = [n \in Nodes |-> 0]
  /\ ops = 0

----------------------------------------------------------------------------
(* The operations of a test. *)

Register(n) ==
  /\ handlers' = handlers \cup {n}
  /\ UNCHANGED <<group, isolated, drop, delay, failAfter, failCount, fcallVars>>

Unregister(n) ==
  /\ handlers' = handlers \ {n}
  /\ UNCHANGED <<group, isolated, drop, delay, failAfter, failCount, fcallVars>>

FailFromAfter(n, after) ==
  /\ failAfter' = [failAfter EXCEPT ![n] = after]
  /\ failCount' = [failCount EXCEPT ![n] = 0]
  /\ passed' = [passed EXCEPT ![n] = 0]
  /\ UNCHANGED <<group, isolated, drop, delay, handlers,
                 fstate, fdelayed, fanswer, fresult>>

\* Members in neither list keep the group they had.
Partition(left, right) ==
  /\ group' = [n \in Nodes |-> IF n \in right THEN 2
                               ELSE IF n \in left THEN 1 ELSE group[n]]
  /\ UNCHANGED <<isolated, drop, delay, handlers, failAfter, failCount, fcallVars>>

Heal ==
  /\ group' = [n \in Nodes |-> 0]
  /\ UNCHANGED <<isolated, drop, delay, handlers, failAfter, failCount, fcallVars>>

Isolate(n) ==
  /\ isolated' = isolated \cup {n}
  /\ UNCHANGED <<group, drop, delay, handlers, failAfter, failCount, fcallVars>>

Recover(n) ==
  /\ isolated' = isolated \ {n}
  /\ UNCHANGED <<group, drop, delay, handlers, failAfter, failCount, fcallVars>>

\* Drop and Delay set both directions of a link.
Drop(a, b, p) ==
  /\ drop' = [l \in Links |-> IF l \in Both(a, b) THEN p ELSE drop[l]]
  /\ UNCHANGED <<group, isolated, delay, handlers, failAfter, failCount, fcallVars>>

Delay(a, b, late) ==
  /\ delay' = IF late THEN delay \cup Both(a, b) ELSE delay \ Both(a, b)
  /\ UNCHANGED <<group, isolated, drop, handlers, failAfter, failCount, fcallVars>>

\* Everything but the handlers goes back to the start.
ResetFaults ==
  /\ group' = [n \in Nodes |-> 0]
  /\ isolated' = {}
  /\ drop' = [l \in Links |-> "never"]
  /\ delay' = {}
  /\ failAfter' = [n \in Nodes |-> NoLimit]
  /\ failCount' = [n \in Nodes |-> 0]
  /\ passed' = [n \in Nodes |-> 0]
  /\ UNCHANGED <<handlers, fstate, fdelayed, fanswer, fresult>>

----------------------------------------------------------------------------
(* A call. *)

Reach(a, b) ==
  /\ a \notin isolated /\ b \notin isolated
  /\ group[a] = group[b]

\* The caller enters ReplicateWrite, ReplicateRead, GetDigest or ReplayHint.
Invoke(c) ==
  /\ fstate[c] = "idle"
  /\ fstate' = [fstate EXCEPT ![c] = "called"]
  /\ UNCHANGED <<faultVars, fdelayed, fanswer, fresult, passed>>

Unreachable(c) ==
  /\ fstate' = [fstate EXCEPT ![c] = "error"]
  /\ UNCHANGED <<fdelayed, fanswer, fresult, passed>>

\* dispatch stops at the isolation, the partition or the loss of the message.
DispatchBlocked(c) ==
  LET l == <<CallFrom[c], CallTo[c]>>
  IN  /\ fstate[c] = "called"
      /\ Reach(CallFrom[c], CallTo[c]) => drop[l] # "never"
      /\ Unreachable(c)
      /\ UNCHANGED faultVars

\* A limit that lets one send too many pass.
OverLimitLate(n, count) == failAfter[n] # NoLimit /\ count > failAfter[n] + 1

OverLimit(n, count) == failAfter[n] # NoLimit /\ count > failAfter[n]

\* dispatch counts the send against the limit of its sender.  A send that
\* then finds no handler has been counted too.
Dispatch(c) ==
  LET n     == CallFrom[c]
      l     == <<n, CallTo[c]>>
      count == IF failAfter[n] = NoLimit THEN failCount[n] ELSE failCount[n] + 1
  IN  /\ fstate[c] = "called"
      /\ Reach(n, CallTo[c])
      /\ drop[l] # "always"
      /\ failCount' = [failCount EXCEPT ![n] = count]
      /\ IF OverLimit(n, count) THEN Unreachable(c)
         ELSE /\ passed' = [passed EXCEPT ![n] = @ + 1]
              /\ fstate' = [fstate EXCEPT ![c] =
                   IF CallTo[c] \in handlers THEN "asleep" ELSE "error"]
              /\ fdelayed' = [fdelayed EXCEPT ![c] = l \in delay]
              /\ UNCHANGED <<fanswer, fresult>>
      /\ UNCHANGED <<group, isolated, drop, delay, handlers, failAfter>>

\* The caller's context ends during the sleep.
SleepCancelled(c) ==
  /\ fstate[c] = "asleep"
  /\ fdelayed[c]
  /\ Unreachable(c)
  /\ UNCHANGED faultVars

\* An endpoint that looks at the context after the handler.
RunHandlerCancelled(c) ==
  /\ fstate[c] = "asleep"
  /\ fstate' = [fstate EXCEPT ![c] = IF fdelayed[c] THEN "error" ELSE "ran"]
  /\ \E a \in Answers \cup {Refused} : fanswer' = [fanswer EXCEPT ![c] = a]
  /\ UNCHANGED <<faultVars, fdelayed, fresult, passed>>

\* The handler found by dispatch runs, whatever has become of its member.
RunHandler(c) ==
  /\ fstate[c] = "asleep"
  /\ fstate' = [fstate EXCEPT ![c] = "ran"]
  /\ \E a \in Answers \cup {Refused} : fanswer' = [fanswer EXCEPT ![c] = a]
  /\ UNCHANGED <<faultVars, fdelayed, fresult, passed>>

\* An endpoint that loses the handler's error.
HandlerReturnsNil(c) ==
  /\ fstate[c] = "ran"
  /\ fstate' = [fstate EXCEPT ![c] = "ok"]
  /\ fresult' = [fresult EXCEPT ![c] = fanswer[c]]
  /\ UNCHANGED <<faultVars, fdelayed, fanswer, passed>>

HandlerReturns(c) ==
  /\ fstate[c] = "ran"
  /\ IF fanswer[c] = Refused
     THEN /\ fstate' = [fstate EXCEPT ![c] = "error"]
          /\ UNCHANGED fresult
     ELSE /\ fstate' = [fstate EXCEPT ![c] = "ok"]
          /\ fresult' = [fresult EXCEPT ![c] = fanswer[c]]
  /\ UNCHANGED <<faultVars, fdelayed, fanswer, passed>>

TestOp ==
  \/ \E n \in Nodes : Register(n) \/ Unregister(n) \/ Isolate(n) \/ Recover(n)
  \/ \E n \in Nodes, after \in FailAfters : FailFromAfter(n, after)
  \/ \E left, right \in Sides : Partition(left, right)
  \/ \E l \in Links, p \in {"never", "maybe", "always"} : Drop(l[1], l[2], p)
  \/ \E l \in Links, late \in BOOLEAN : Delay(l[1], l[2], late)
  \/ Heal
  \/ ResetFaults

CallStep(c) ==
  \/ DispatchBlocked(c) \/ Dispatch(c)
  \/ SleepCancelled(c) \/ RunHandler(c) \/ HandlerReturns(c)

NetNext ==
  \/ ops < MaxOps /\ TestOp /\ ops' = ops + 1
  \/ \E c \in Calls : (Invoke(c) \/ CallStep(c)) /\ UNCHANGED ops

NetSpec == NetInit /\ [][NetNext]_netVars

----------------------------------------------------------------------------

FState(c) ==
  IF fstate[c] \in {"called", "asleep", "ran"} THEN "open" ELSE fstate[c]

AsCall == INSTANCE Call WITH
  cstate <- [c \in Calls |-> FState(c)], answer <- fanswer, result <- fresult

\* The test network is a transport: what a test sees a call do over it, under
\* any sequence of injected faults, is something a call may do.
FaultNetImplementsCall == AsCall!CallSpec

\* It is a gentler one than HTTP: a call that fails has had no effect and
\* never will, unless it was the handler that failed.  Late and doubtful
\* deliveries are not among the faults it injects.
FailedMeansNothing ==
  \A c \in Calls : fstate[c] = "error" => fanswer[c] \in {Pending, Refused}

\* FailFromAfter(n, after) lets exactly the first `after' counted sends of n
\* through: no more, and none is refused for the limit before, whatever other
\* faults are injected, healed or reset before and after.
FailBudget ==
  \A n \in Nodes : failAfter[n] # NoLimit =>
    /\ passed[n] <= failAfter[n]
    /\ passed[n] < failAfter[n] => failCount[n] = passed[n]

=============================================================================
