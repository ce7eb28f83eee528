------------------------------- MODULE Layers -------------------------------
(***************************************************************************)
(* The layers below and above the coordinator, each by itself: the         *)
(* transports it calls through, the merge it applies, the membership it    *)
(* counts quorums in, and the API it serves.  A behaviour is about one of  *)
(* them.                                                                   *)
(***************************************************************************)
EXTENDS MergeLaws, MemoryApi, Membership, Transport

VARIABLE subject

layerVars == <<transportVars, mergeVars, memberVars, apiVars, subject>>

LayersInit ==
  /\ subject \in {"transport", "merge", "members", "memory"}
  /\ TransportInit /\ MergeInit /\ MembersInit /\ ApiInit
  /\ subject # "merge" => x = CHOOSE v \in Samples : TRUE
  /\ subject # "transport" => carrier = "FaultNet"

Carrying ==
  /\ subject = "transport" /\ TransportNext
  /\ UNCHANGED <<mergeVars, memberVars, apiVars, subject>>
Merging ==
  /\ subject = "merge" /\ MergeNext
  /\ UNCHANGED <<transportVars, memberVars, apiVars, subject>>
Joining ==
  /\ subject = "members" /\ MembersNext
  /\ UNCHANGED <<transportVars, mergeVars, apiVars, subject>>
Remembering ==
  /\ subject = "memory" /\ ApiNext
  /\ UNCHANGED <<transportVars, mergeVars, memberVars, subject>>

LayersNext == Carrying \/ Merging \/ Joining \/ Remembering

LayersSpec ==
  /\ LayersInit
  /\ [][LayersNext]_layerVars
  /\ WF_layerVars(CallProgress /\ UNCHANGED <<mergeVars, memberVars, apiVars, subject>>)

=============================================================================
