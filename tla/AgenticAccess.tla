--------------------------- MODULE AgenticAccess ---------------------------
(***************************************************************************)
(* The pure part of package policy (policy.go, risk.go and the decision    *)
(* functions of hitl.go): the x-agentic-access record, its defaults, and    *)
(* the functions that turn a policy into a risk level and a gate decision.  *)
(*                                                                         *)
(* A field holds one of the constants the code compares it with, Unset      *)
(* (the zero value of the Go string) or Other, which stands for every       *)
(* string that equals none of the constants: nothing validates the YAML.    *)
(* Triggers are compared with strings.EqualFold, so a trigger here is a     *)
(* name up to the case of its letters.                                      *)
(***************************************************************************)
EXTENDS Naturals

Unset == ""
Other == "other"

ActionClasses == {"connected", "acting"}
Consequences == {"read", "write", "safety-critical"}
SubjectRequirements == {"optional", "required"}
HITLRequirements == {"none", "conditional", "required"}
AuditRequirements == {"none", "required"}
TriggerNames == {"abnormal", "high-value", "destructive"}

\* A trigger is any string, in a policy and in the context: the names above, and
\* one that is none of them (misspelt, or a trigger of the author's own).
Triggers == TriggerNames \cup {Other}

\* What a YAML author may have written: any field missing or misspelt.
PartialAccess ==
    [actionClass : ActionClasses \cup {Unset, Other},
     consequence : Consequences \cup {Unset, Other},
     subject     : SubjectRequirements \cup {Unset, Other},
     hitl        : HITLRequirements \cup {Unset, Other},
     audit       : AuditRequirements \cup {Unset, Other},
     triggers    : SUBSET Triggers]

\* A policy with no zero-valued field.
XAgenticAccess ==
    {p \in PartialAccess :
        Unset \notin {p.actionClass, p.consequence, p.subject, p.hitl, p.audit}}

\* The pointer argument of Resolve when the tool declares no policy.
NoAccess == [undeclared |-> TRUE]

(***************************************************************************)
(* policy.go                                                               *)
(***************************************************************************)

\* Verbs as a YAML author may spell them, with strings.ToUpper(TrimSpace(_)).
UpperTrimmed ==
    [m \in {"", "  ", "GET", " get", "Head", "POST", "put ", "DELETE", "QUERY"} |->
        CASE m \in {"", "  "}     -> ""
          [] m \in {"GET", " get"} -> "GET"
          [] m = "Head"            -> "HEAD"
          [] m = "put "            -> "PUT"
          [] OTHER                 -> m]

Methods == DOMAIN UpperTrimmed

ReadDefault ==
    [actionClass |-> "connected", consequence |-> "read", subject |-> "optional",
     hitl |-> "none", audit |-> "none", triggers |-> {}]

WriteDefault ==
    [actionClass |-> "acting", consequence |-> "write", subject |-> "required",
     hitl |-> "conditional", audit |-> "required",
     triggers |-> {"abnormal", "high-value"}]

InferFromHTTPMethod(method) ==
    IF UpperTrimmed[method] \in {"", "GET", "HEAD"} THEN ReadDefault ELSE WriteDefault

OrElse(field, default) == IF field = Unset THEN default ELSE field

\* Mutants: hitl left out of the patch; the triggers patched before hitl is.
Patch_SkipsHitl(explicit, inferred) ==
    [actionClass |-> OrElse(explicit.actionClass, inferred.actionClass),
     consequence |-> OrElse(explicit.consequence, inferred.consequence),
     subject     |-> OrElse(explicit.subject, inferred.subject),
     hitl        |-> explicit.hitl,
     audit       |-> OrElse(explicit.audit, inferred.audit),
     triggers    |-> explicit.triggers]

Patch_TriggersBeforeHitl(explicit, inferred) ==
    [Patch_SkipsHitl(explicit, inferred) EXCEPT
        !.hitl     = OrElse(@, inferred.hitl),
        !.triggers = IF @ = {} /\ explicit.hitl = "conditional"
                     THEN inferred.triggers ELSE @]

\* The declared policy with its missing fields taken from the inferred one.
Patch(explicit, inferred) ==
    LET hitl == OrElse(explicit.hitl, inferred.hitl)
    IN  [actionClass |-> OrElse(explicit.actionClass, inferred.actionClass),
         consequence |-> OrElse(explicit.consequence, inferred.consequence),
         subject     |-> OrElse(explicit.subject, inferred.subject),
         hitl        |-> hitl,
         audit       |-> OrElse(explicit.audit, inferred.audit),
         triggers    |-> IF explicit.triggers = {} /\ hitl = "conditional"
                         THEN inferred.triggers ELSE explicit.triggers]

Resolve(explicit, method) ==
    IF explicit = NoAccess THEN InferFromHTTPMethod(method)
    ELSE Patch(explicit, InferFromHTTPMethod(method))

IsSafetyCritical(p) == p.consequence = "safety-critical"

IsMutating(p) ==
    p.actionClass = "acting" \/ p.consequence \in {"write", "safety-critical"}

\* The policy a supervisor registers under each delegate tool name.
DelegateAccess ==
    [actionClass |-> "connected", consequence |-> "read", subject |-> "required",
     hitl |-> "none", audit |-> "required", triggers |-> {}]

(***************************************************************************)
(* risk.go                                                                 *)
(***************************************************************************)

RiskLow == 0
RiskMedium == 1
RiskHigh == 2

\* Mutant: the test for conditional hitl first.
ClassifyRisk_ConditionalFirst(p) ==
    IF p.hitl = "conditional" THEN RiskMedium
    ELSE IF IsSafetyCritical(p) \/ p.hitl = "required" THEN RiskHigh
    ELSE IF IsMutating(p) THEN RiskMedium
    ELSE RiskLow

ClassifyRisk(p) ==
    IF IsSafetyCritical(p) \/ p.hitl = "required" THEN RiskHigh
    ELSE IF p.hitl = "conditional" \/ IsMutating(p) THEN RiskMedium
    ELSE RiskLow

(***************************************************************************)
(* hitl.go.  Times are natural numbers and 0 is Go's zero time.            *)
(***************************************************************************)

Preferences == {"strict", "balanced", "permissive"}

ResolveUserPolicyPref(raw, envDefault) ==
    LET chosen == IF raw = "" THEN envDefault ELSE raw
    IN  IF chosen \in {"strict", "permissive"} THEN chosen ELSE "balanced"

Throttled(last, time, cooldown) == last # 0 /\ time - last < cooldown

\* Mutants: the cooldown forgotten for high risk; preference looked at first.
ShouldInterrupt_HighUnthrottled(risk, pref, last, time, cooldown) ==
    \/ risk = RiskHigh
    \/ risk = RiskMedium /\ pref = "strict" /\ ~Throttled(last, time, cooldown)

ShouldInterrupt_PreferenceFirst(risk, pref, last, time, cooldown) ==
    /\ risk >= RiskMedium /\ pref = "strict"
    /\ ~Throttled(last, time, cooldown)

ShouldInterrupt(risk, pref, last, time, cooldown) ==
    /\ risk = RiskHigh \/ (risk = RiskMedium /\ pref = "strict")
    /\ ~Throttled(last, time, cooldown)

(***************************************************************************)
(* middleware.go and decorator.go                                          *)
(***************************************************************************)

HitlEscalates(p, firing) ==
    \/ p.hitl = "required"
    \/ p.hitl = "conditional" /\ p.triggers \cap firing # {}

VerdictFromResult(err) == IF err THEN "error" ELSE "allow"
=============================================================================
