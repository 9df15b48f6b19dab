----------------------------- MODULE PolicyGate -----------------------------
(***************************************************************************)
(* The enforcement point of package policy: tool calls running concurrently *)
(* through PolicyMiddleware.WrapInvokableToolCall and through the older     *)
(* policyCheckedTool.InvokableRun, sharing the registry and the throttle.   *)
(*                                                                         *)
(* A call is one goroutine.  It yields between any two accesses to shared   *)
(* state: the read of the throttle (LastInterrupt), the decision on what    *)
(* was read (ShouldInterrupt, which looks at the clock), and the write      *)
(* (Record) are steps of their own, as the throttle's mutex is released     *)
(* between them.                                                            *)
(***************************************************************************)
EXTENDS AgenticAccess

CONSTANTS
    Deployments,    \* the environments looked at: HITL and authorization enforced or not
    Calls,          \* tool calls, each invoked once and resumed any number of times
    Tools,          \* tool names
    Declared,       \* Tools -> policies: what the application declares for each
    DefaultPolicy,  \* the registry's policy for unknown tools
    Actors,         \* values of the actor in the context, NoActor included
    NoActor,        \* the empty actor: the caller is not authenticated
    Firings,        \* sets of triggers that WithTriggers may put in the context
    RawPrefs,       \* what the preference getter may return
    EnvPref,        \* POLICY_HITL_DEFAULT_PREF
    Cooldown,       \* the throttle's cooldown
    MaxTime         \* bound on the clock, for model checking only

ASSUME DeploymentAssumption == Deployments \subseteq [hitl : BOOLEAN, authz : BOOLEAN]

ASSUME PolicyAssumption ==
    /\ Declared \in [Tools -> XAgenticAccess]
    /\ DefaultPolicy \in XAgenticAccess

ASSUME ActorAssumption == NoActor \in Actors

ASSUME FiringAssumption == Firings \subseteq SUBSET Triggers /\ {} \in Firings

ASSUME TimeAssumption == Cooldown \in Nat /\ MaxTime \in Nat

VARIABLES
    now,       \* the clock; starts at 1 because 0 is Go's zero time
    env,       \* the deployment: EnforceHITL(), and EnforceAuthz() with an authorizer
    registry,  \* PolicyRegistry.policies
    lastSeen,  \* Throttle.lastSeen, 0 for an actor never recorded
    pc,        \* per call, where its goroutine is
    call,      \* per call, what it was invoked with
    answer,    \* per call, what compose.GetResumeContext reports
    seen,      \* per call, the last interrupt it read, 0 out of the local's scope
    trail      \* per call, the verdicts recorded since it was last entered

vars == <<now, env, registry, lastSeen, pc, call, answer, seen, trail>>

Entries == {"middleware", "decorator"}
Running == {"enter", "gate", "decide", "prompt", "authz", "run"}
Settled == {"rejected", "denied", "blocked", "done"}
Locations == {"idle", "interrupted"} \cup Running \cup Settled
Answers == {"none", "nodata", "approved", "rejected"}
Verdicts == {"allow", "error", "deny", "hitl_blocked", "hitl_pending_observed",
             "authz_error_observed"}

Policies == {Declared[t] : t \in Tools} \cup {DefaultPolicy}

CallRecords ==
    [via : Entries, actor : Actors, policy : Policies, firing : Firings]

NotInvoked ==
    [via |-> "middleware", actor |-> NoActor, policy |-> DefaultPolicy, firing |-> {}]

\* Mutant: the zero value of a Go map for an unknown tool.
Lookup_ZeroValue(tool) ==
    IF tool \in DOMAIN registry THEN registry[tool]
    ELSE [actionClass |-> Unset, consequence |-> Unset, subject |-> Unset,
          hitl |-> Unset, audit |-> Unset, triggers |-> {}]

Lookup(tool) == IF tool \in DOMAIN registry THEN registry[tool] ELSE DefaultPolicy

Init ==
    /\ now = 1
    /\ env \in Deployments
    /\ registry = [t \in {} |-> DefaultPolicy]
    /\ lastSeen = [a \in Actors |-> 0]
    /\ pc = [c \in Calls |-> "idle"]
    /\ call = [c \in Calls |-> NotInvoked]
    /\ answer = [c \in Calls |-> "none"]
    /\ seen = [c \in Calls |-> 0]
    /\ trail = [c \in Calls |-> {}]

-----------------------------------------------------------------------------
\* Register and RegisterBatch: called at startup only, before any tool call.
RegisterBatch(names, p) ==
    /\ \A c \in Calls : pc[c] = "idle"
    /\ registry' = [t \in DOMAIN registry \cup names |->
                        IF t \in names THEN p ELSE registry[t]]
    /\ UNCHANGED <<now, env, lastSeen, pc, call, answer, seen, trail>>

\* The agent calls a tool.  The middleware captures the registry's policy, the
\* decorator was given the declared one when the tool was wrapped.
Invoke(c) ==
    /\ pc[c] = "idle"
    /\ \E via \in Entries, t \in Tools, a \in Actors, firing \in Firings :
          call' = [call EXCEPT ![c] =
                     [via |-> via, actor |-> a, firing |-> firing,
                      policy |-> IF via = "middleware" THEN Lookup(t) ELSE Declared[t]]]
    /\ pc' = [pc EXCEPT ![c] = "enter"]
    /\ UNCHANGED <<now, env, registry, lastSeen, answer, seen, trail>>

\* The runner resumes an interrupted call, with the human's answer or with no
\* data for this call; the triggers firing by then may be other ones.  The
\* endpoint runs again from its first line.
Resume(c) ==
    /\ pc[c] = "interrupted"
    /\ \E a \in Answers \ {"none"} : answer' = [answer EXCEPT ![c] = a]
    /\ \E firing \in Firings : call' = [call EXCEPT ![c].firing = firing]
    /\ pc' = [pc EXCEPT ![c] = "enter"]
    /\ trail' = [trail EXCEPT ![c] = {}]
    /\ UNCHANGED <<now, env, registry, lastSeen, seen>>

-----------------------------------------------------------------------------
\* Steps of a call.  Each moves it to another location and records verdicts.

Goto(c, from, to, verdicts) ==
    /\ pc[c] = from
    /\ pc' = [pc EXCEPT ![c] = to]
    /\ trail' = [trail EXCEPT ![c] = @ \cup verdicts]

Private == <<now, env, registry, lastSeen, call, answer, seen>>

Rejected(c) == call[c].via = "middleware" /\ answer[c] = "rejected"

\* The early return of a resumed call whose payload is false.
ReturnRejected(c) ==
    /\ Rejected(c)
    /\ Goto(c, "enter", "rejected", {})
    /\ UNCHANGED Private

SubjectMissing(c) == call[c].policy.subject = "required" /\ call[c].actor = NoActor

\* Mutant: only the presence of the resume data is looked at.
CheckSubject_IgnoresAnswer(c) ==
    /\ Goto(c, "enter", IF SubjectMissing(c) THEN "denied" ELSE "gate",
            IF SubjectMissing(c) THEN {"deny"} ELSE {})
    /\ UNCHANGED Private

CheckSubject(c) ==
    /\ ~Rejected(c)
    /\ IF SubjectMissing(c) THEN Goto(c, "enter", "denied", {"deny"})
                            ELSE Goto(c, "enter", "gate", {})
    /\ UNCHANGED Private

Escalates(c) == HitlEscalates(call[c].policy, call[c].firing)

PassGate(c) ==
    /\ ~Escalates(c)
    /\ Goto(c, "gate", "authz", {})
    /\ UNCHANGED Private

\* The decorator's gate: no risk, no preference, no throttle, no resume.
GateDecorator(c) ==
    /\ call[c].via = "decorator"
    /\ Escalates(c)
    /\ IF env.hitl THEN Goto(c, "gate", "blocked", {"hitl_blocked"})
                   ELSE Goto(c, "gate", "authz", {"hitl_pending_observed"})
    /\ UNCHANGED Private

\* m.throttle.LastInterrupt(actorID)
ReadLastInterrupt(c) ==
    /\ call[c].via = "middleware"
    /\ Escalates(c)
    /\ Goto(c, "gate", "decide", {})
    /\ seen' = [seen EXCEPT ![c] = lastSeen[call[c].actor]]
    /\ UNCHANGED <<now, env, registry, lastSeen, call, answer>>

Interrupts(c, raw) ==
    /\ ShouldInterrupt(ClassifyRisk(call[c].policy), ResolveUserPolicyPref(raw, EnvPref),
                       seen[c], now, Cooldown)
    /\ env.hitl

DecideToPrompt(c) ==
    /\ \E raw \in RawPrefs : Interrupts(c, raw)
    /\ Goto(c, "decide", "prompt", {})
    /\ UNCHANGED Private

DecideToObserve(c) ==
    /\ \E raw \in RawPrefs : ~Interrupts(c, raw)
    /\ Goto(c, "decide", "authz", {"hitl_pending_observed"})
    /\ seen' = [seen EXCEPT ![c] = 0]
    /\ UNCHANGED <<now, env, registry, lastSeen, call, answer>>

\* m.throttle.Record(actorID), the audit record and compose.Interrupt, which
\* ends this execution and its resume context.
Prompt(c) ==
    /\ Goto(c, "prompt", "interrupted", {"hitl_blocked"})
    /\ lastSeen' = [lastSeen EXCEPT ![call[c].actor] = now]
    /\ answer' = [answer EXCEPT ![c] = "none"]
    /\ seen' = [seen EXCEPT ![c] = 0]
    /\ UNCHANGED <<now, env, registry, call>>

\* Mutant: an authorizer's error fails open for every tool.
Authorize_FailOpen(c) ==
    /\ \/ Goto(c, "authz", "run", {})
       \/ env.authz /\ Goto(c, "authz", "denied", {"deny"})
       \/ env.authz /\ Goto(c, "authz", "run", {"authz_error_observed"})
    /\ UNCHANGED Private

\* Without an authorizer, or when it allows, on to the tool; when it denies, or
\* fails for a safety-critical tool, a denial; any other failure is let through.
Authorize(c) ==
    /\ \/ Goto(c, "authz", "run", {})
       \/ env.authz /\ Goto(c, "authz", "denied", {"deny"})
       \/ env.authz /\ ~IsSafetyCritical(call[c].policy)
                    /\ Goto(c, "authz", "run", {"authz_error_observed"})
    /\ UNCHANGED Private

\* The endpoint returns, with or without an error; recordAudit.
Return(c) ==
    /\ \E err \in BOOLEAN :
          Goto(c, "run", "done",
               IF call[c].policy.audit = "required" THEN {VerdictFromResult(err)} ELSE {})
    /\ UNCHANGED Private

Tick ==
    /\ now < MaxTime
    /\ now' = now + 1
    /\ UNCHANGED <<env, registry, lastSeen, pc, call, answer, seen, trail>>

Step(c) ==
    \/ ReturnRejected(c) \/ CheckSubject(c)
    \/ PassGate(c) \/ GateDecorator(c) \/ ReadLastInterrupt(c)
    \/ DecideToPrompt(c) \/ DecideToObserve(c) \/ Prompt(c)
    \/ Authorize(c) \/ Return(c)

Next ==
    \/ \E names \in SUBSET Tools : \E p \in {Declared[t] : t \in names} :
          RegisterBatch({t \in names : Declared[t] = p}, p)
    \/ \E c \in Calls : Invoke(c) \/ Resume(c) \/ Step(c)
    \/ Tick

\* The Go scheduler runs every goroutine; the authorizer and the tool return.
\* Nothing obliges the agent to call, the human to answer, or the clock to move.
Fairness == \A c \in Calls : WF_vars(Step(c))

Spec == Init /\ [][Next]_vars /\ Fairness

-----------------------------------------------------------------------------
\* The type invariant; a call's policy is one that was registered or declared.
TypeOK ==
    /\ now \in Nat \ {0}
    /\ env \in Deployments
    /\ DOMAIN registry \subseteq Tools
    /\ \A t \in DOMAIN registry : registry[t] \in Policies
    /\ lastSeen \in [Actors -> Nat]
    /\ pc \in [Calls -> Locations]
    /\ call \in [Calls -> CallRecords]
    /\ answer \in [Calls -> Answers]
    /\ seen \in [Calls -> Nat]
    /\ trail \in [Calls -> SUBSET Verdicts]

-----------------------------------------------------------------------------
\* Safety.

\* The clock never runs behind what the throttle holds, what a call read is no
\* later than what the throttle holds for its actor, and a call on its way to
\* prompt read a time that lay a whole cooldown back (or none at all).
ThrottleInv ==
    /\ \A a \in Actors : lastSeen[a] <= now
    /\ \A c \in Calls :
          /\ seen[c] <= lastSeen[call[c].actor]
          /\ pc[c] = "prompt" => seen[c] = 0 \/ now - seen[c] >= Cooldown

Concludes == {"allow", "error"}

\* The records of an execution tell what became of the call: a denial, a block
\* and a completed run are never both on the trail, each outcome that must be
\* there is there, a call whose gate escalated ran with that noted, and an
\* authorizer's failure let no safety-critical tool run.
TrailMatchesOutcome ==
    \A c \in Calls :
       LET t == trail[c]
           p == call[c].policy
       IN  /\ pc[c] = "denied" => "deny" \in t /\ t \cap (Concludes \cup {"hitl_blocked"}) = {}
           /\ pc[c] \in {"interrupted", "blocked"} =>
                 "hitl_blocked" \in t /\ t \cap (Concludes \cup {"deny"}) = {}
           /\ pc[c] \in {"run", "done"} =>
                 /\ t \cap {"deny", "hitl_blocked"} = {}
                 /\ Escalates(c) => "hitl_pending_observed" \in t
                 /\ "authz_error_observed" \in t => ~IsSafetyCritical(p)
           /\ pc[c] = "done" => (t \cap Concludes # {} <=> p.audit = "required")

\* The human's no stands: nothing an execution entered with that answer does
\* reaches the authorizer or the tool.
RefusalStands ==
    \A c \in Calls : Rejected(c) => pc[c] \in {"enter", "rejected"}

PromptsAgain(c) ==
    /\ pc[c] = "prompt" /\ pc'[c] = "interrupted"
    /\ lastSeen[call[c].actor] # 0
    /\ now - lastSeen[call[c].actor] < Cooldown

\* Two prompts of one actor come closer than the cooldown only when the second
\* call had read the throttle before the first one recorded: the throttle works
\* except for that race between LastInterrupt and Record.
PromptsSpacedUnlessRaced ==
    [][\A c \in Calls : PromptsAgain(c) => seen[c] < lastSeen[call[c].actor]]_vars

-----------------------------------------------------------------------------
\* Refinement: the gate implements SignOffGate.

StatusOf(c) ==
    CASE pc[c] = "idle"                                   -> "idle"
      [] pc[c] \in {"enter", "gate", "decide", "prompt"}  -> "pending"
      [] pc[c] = "interrupted"                            -> "awaiting"
      [] pc[c] \in {"authz", "run"}                       -> "cleared"
      [] OTHER                                            -> "closed"

MustSignOff(c) ==
    /\ env.hitl
    /\ Escalates(c)
    /\ call[c].via = "decorator" \/ ClassifyRisk(call[c].policy) = RiskHigh

SignOff == INSTANCE SignOffGate WITH
    lastPrompt <- lastSeen,
    status     <- [c \in Calls |-> StatusOf(c)],
    who        <- [c \in Calls |-> call[c].actor],
    must       <- [c \in Calls |-> MustSignOff(c)],
    refused    <- [c \in Calls |-> Rejected(c)]

\* Under enforcement a call that escalates and is high-risk (or goes through the
\* decorator) runs only within the cooldown of a prompt for its actor, and a
\* call the human refused never runs.
ImplementsSignOff == SignOff!Spec

-----------------------------------------------------------------------------
\* What comments say and the code does not do.

\* "A resumed tool call is allowed to pass through before evaluating the normal
\* HITL gate again" (middleware.go:88): an approved call is not put to the human
\* a second time.
ApprovedIsNotAskedAgain ==
    [][\A c \in Calls : answer[c] = "approved" => ~(pc[c] = "prompt" /\ pc'[c] = "interrupted")]_vars
=============================================================================
