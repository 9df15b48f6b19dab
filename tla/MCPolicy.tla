------------------------------ MODULE MCPolicy ------------------------------
(***************************************************************************)
(* The policy layer: one policy on its way to the gate, or the gate.  The two *)
(* share the operators of AgenticAccess and no state, so a behaviour is one   *)
(* of them and the other stays as it begins.                                 *)
(***************************************************************************)
EXTENDS MCPolicyGate, PolicyResolution

VARIABLE part
policyVars == <<vars, resolutionVars, part>>

NoResolution == declared = NoAccess /\ method = "GET" /\ effective = NoAccess

PolicyInit ==
    \/ part = "resolution" /\ ResolutionInit /\ Init /\ env = [hitl |-> TRUE, authz |-> TRUE]
    \/ part = "gate" /\ NoResolution /\ Init

ResolutionPart ==
    /\ part = "resolution"
    /\ ResolutionNext
    /\ UNCHANGED <<part, vars>>

GatePart ==
    /\ part = "gate"
    /\ Next
    /\ UNCHANGED <<part, resolutionVars>>

PolicyNext == ResolutionPart \/ GatePart

PolicySpec == PolicyInit /\ [][PolicyNext]_policyVars
=============================================================================
