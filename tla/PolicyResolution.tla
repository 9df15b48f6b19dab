-------------------------- MODULE PolicyResolution --------------------------
(***************************************************************************)
(* A tool's policy on its way from the category YAML to the gate: what the  *)
(* author declared is resolved against the tool's HTTP verb when the tool   *)
(* is decorated, and the resolved policy may be written back as YAML        *)
(* (MarshalYAML) and read again (UnmarshalYAML), for the same tool.         *)
(***************************************************************************)
EXTENDS AgenticAccess

VARIABLES
    declared,   \* the tool's x-agentic-access block, NoAccess when it has none
    method,     \* the tool's verb, as spelt in the YAML
    effective   \* the result of Resolve, NoAccess before

resolutionVars == <<declared, method, effective>>

ResolutionInit ==
    /\ declared \in PartialAccess \cup {NoAccess}
    /\ method \in Methods
    /\ effective = NoAccess

Decorate ==
    /\ effective = NoAccess
    /\ effective' = Resolve(declared, method)
    /\ UNCHANGED <<declared, method>>

\* plain(p) out and Decode in: every field survives the round trip.
Republish ==
    /\ effective # NoAccess
    /\ declared' = effective
    /\ effective' = NoAccess
    /\ UNCHANGED method

ResolutionNext == Decorate \/ Republish

ResolutionSpec == ResolutionInit /\ [][ResolutionNext]_resolutionVars

Resolved == effective # NoAccess

-----------------------------------------------------------------------------
\* Type invariant, with the completeness "partial YAML declarations still
\* produce a complete policy" of Resolve: no resolved field is a zero value.
ResolutionTypeOK ==
    /\ declared \in PartialAccess \cup {NoAccess}
    /\ method \in Methods
    /\ effective \in XAgenticAccess \cup {NoAccess}

\* Resolving a policy that was already resolved changes nothing, so a policy
\* that went through YAML once more gates exactly the same calls (Resolve).
ResolveStable == Resolved => Resolve(effective, method) = effective

\* Whatever was declared, a tool is never gated less because its verb mutates
\* than it would be under GET: every trigger set that escalates there escalates
\* here, and the risk is no lower (InferFromHTTPMethod, ClassifyRisk).
WriteVerbNeverLaxer ==
    Resolved =>
        LET asRead == Resolve(declared, "GET")
        IN  /\ ClassifyRisk(asRead) <= ClassifyRisk(effective)
            /\ \A firing \in SUBSET Triggers :
                   HitlEscalates(asRead, firing) => HitlEscalates(effective, firing)

\* A tool whose verb mutates and whose gate is conditional has a trigger of the
\* vocabulary that can fire, unless its author listed triggers of which none is of
\* the vocabulary: the patch leaves a gate dead only where the author's own list
\* is, a list that is not empty and so is not patched (Resolve, hitlEscalates).
OnlyUnknownTriggers ==
    declared # NoAccess /\ declared.triggers # {} /\ declared.triggers \cap TriggerNames = {}

WriteGateCanFire ==
    Resolved /\ InferFromHTTPMethod(method) = WriteDefault
             /\ effective.hitl = "conditional"
        => HitlEscalates(effective, TriggerNames) \/ OnlyUnknownTriggers
=============================================================================
