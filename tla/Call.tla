-------------------------------- MODULE Call --------------------------------
(***************************************************************************)
(* What a coordinator may assume of a call to another member, over any     *)
(* transport (the interface Transport in internal/net/transport.go).       *)
(*                                                                         *)
(* The handler at the callee runs at most once, possibly after the caller  *)
(* has given up.  A call that succeeds hands back what the handler         *)
(* answered, and the handler had not refused.  A call that fails says      *)
(* nothing: the handler may have run, may still run, or never.  WritePath, *)
(* ReadPath, AntiEntropy and Handoff are written against this.             *)
(***************************************************************************)

EXTENDS Endpoints

VARIABLES cstate,  \* cstate[c]: where call c is, as its caller sees it
          answer,  \* answer[c]: what the handler answered; Pending before it ran
          result   \* result[c]: what a call that succeeded returned

callVars == <<cstate, answer, result>>

CallInit ==
  /\ cstate = [c \in Calls |-> "idle"]
  /\ answer = [c \in Calls |-> Pending]
  /\ result = [c \in Calls |-> Pending]

Begin(c) ==
  /\ cstate[c] = "idle"
  /\ cstate' = [cstate EXCEPT ![c] = "open"]
  /\ UNCHANGED <<answer, result>>

Perform(c) ==
  /\ cstate[c] # "idle"
  /\ answer[c] = Pending
  /\ \E a \in Answers \cup {Refused} : answer' = [answer EXCEPT ![c] = a]
  /\ UNCHANGED <<cstate, result>>

Succeed(c) ==
  /\ cstate[c] = "open"
  /\ answer[c] \in Answers
  /\ cstate' = [cstate EXCEPT ![c] = "ok"]
  /\ result' = [result EXCEPT ![c] = answer[c]]
  /\ UNCHANGED answer

Fail(c) ==
  /\ cstate[c] = "open"
  /\ cstate' = [cstate EXCEPT ![c] = "error"]
  /\ UNCHANGED <<answer, result>>

CallNext ==
  \E c \in Calls : Begin(c) \/ Perform(c) \/ Succeed(c) \/ Fail(c)

CallSpec == CallInit /\ [][CallNext]_callVars

=============================================================================
