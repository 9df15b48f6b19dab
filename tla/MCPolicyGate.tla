---------------------------- MODULE MCPolicyGate ----------------------------
(***************************************************************************)
(* A small deployment of PolicyGate: a shell tool that is safety-critical   *)
(* and always gated, with the rest of its policy inferred from its verb,    *)
(* and a default for unknown tools that mutates, is gated when a trigger    *)
(* fires, needs no authenticated caller and is not audited.                 *)
(***************************************************************************)
EXTENDS PolicyGate

MCDeclared ==
    [t \in Tools |->
        Resolve([actionClass |-> "acting", consequence |-> "safety-critical",
                 subject |-> "", hitl |-> "required", audit |-> "", triggers |-> {}],
                "POST")]

MCDefaultPolicy ==
    Resolve([actionClass |-> "", consequence |-> "", subject |-> "optional",
             hitl |-> "conditional", audit |-> "none",
             triggers |-> {"high-value"}], "POST")

\* Enforcement on, and the default observe-only deployment.
MCDeployments == {[hitl |-> TRUE, authz |-> TRUE], [hitl |-> FALSE, authz |-> FALSE]}

MCFirings == {{}, {"high-value"}}

=============================================================================
