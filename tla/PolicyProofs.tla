---------------------------- MODULE PolicyProofs ----------------------------
(***************************************************************************)
(* Theorems about package policy.  About PolicyResolution: what a resolved   *)
(* policy is.  About PolicyGate, for any calls, tools, policies and actors   *)
(* and any cooldown: the invariants of the gate, and that it implements      *)
(* SignOffGate.  Fairness plays no part in them.                            *)
(***************************************************************************)
EXTENDS PolicyGate, PolicyResolution, TLAPS

-----------------------------------------------------------------------------
(***************************************************************************)
(* Resolution: a declared policy, completed by what its verb implies.         *)
(***************************************************************************)
LEMMA VerbDefaults ==
  ASSUME NEW m \in Methods
  PROVE  InferFromHTTPMethod(m) = ReadDefault \/ InferFromHTTPMethod(m) = WriteDefault
  BY DEF InferFromHTTPMethod

LEMMA DefaultsComplete == ReadDefault \in XAgenticAccess /\ WriteDefault \in XAgenticAccess
  BY DEF ReadDefault, WriteDefault, XAgenticAccess, PartialAccess, ActionClasses, Consequences,
         SubjectRequirements, HITLRequirements, AuditRequirements, Triggers, TriggerNames, Unset, Other

LEMMA PatchComplete ==
  ASSUME NEW p \in PartialAccess, NEW d \in XAgenticAccess
  PROVE  Patch(p, d) \in XAgenticAccess
  BY DEF Patch, OrElse, XAgenticAccess, PartialAccess, ActionClasses, Consequences,
         SubjectRequirements, HITLRequirements, AuditRequirements, Triggers, TriggerNames, Unset, Other

LEMMA ResolveComplete ==
  ASSUME NEW p \in PartialAccess \cup {NoAccess}, NEW m \in Methods
  PROVE  Resolve(p, m) \in XAgenticAccess
  BY VerbDefaults, DefaultsComplete, PatchComplete DEF Resolve

LEMMA ReadIsAccess == InferFromHTTPMethod("GET") = ReadDefault
  BY DEF InferFromHTTPMethod, UpperTrimmed

\* What the defaults of a mutating verb fill in where those of GET would not.
LEMMA WriteFillsMore ==
  ASSUME NEW p \in PartialAccess, NEW r, NEW w,
         r = Patch(p, ReadDefault), w = Patch(p, WriteDefault)
  PROVE  /\ r.actionClass = "acting" => w.actionClass = "acting"
         /\ r.consequence # "read" => w.consequence = r.consequence
         /\ r.consequence = "read" => w.consequence \in {"read", "write"}
         /\ w.hitl = r.hitl \/ (r.hitl = "none" /\ w.hitl = "conditional")
         /\ r.hitl = "conditional" => r.triggers \subseteq w.triggers
<1> USE DEF Patch, OrElse, ReadDefault, WriteDefault, Unset
<1>1. /\ r.actionClass = "acting" => w.actionClass = "acting"
      /\ r.consequence # "read" => w.consequence = r.consequence
      /\ r.consequence = "read" => w.consequence \in {"read", "write"}
  OBVIOUS
<1>2. w.hitl = r.hitl \/ (r.hitl = "none" /\ w.hitl = "conditional")
  OBVIOUS
<1>3. r.hitl = "conditional" => r.triggers \subseteq w.triggers
  OBVIOUS
<1>4. QED
  BY <1>1, <1>2, <1>3

LEMMA WriteNoLaxer ==
  ASSUME NEW p \in PartialAccess, NEW r, NEW w,
         r = Patch(p, ReadDefault), w = Patch(p, WriteDefault)
  PROVE  /\ ClassifyRisk(r) <= ClassifyRisk(w)
         /\ \A firing : HitlEscalates(r, firing) => HitlEscalates(w, firing)
<1>1. /\ r.actionClass = "acting" => w.actionClass = "acting"
      /\ r.consequence # "read" => w.consequence = r.consequence
      /\ r.consequence = "read" => w.consequence \in {"read", "write"}
      /\ w.hitl = r.hitl \/ (r.hitl = "none" /\ w.hitl = "conditional")
      /\ r.hitl = "conditional" => r.triggers \subseteq w.triggers
  BY WriteFillsMore
<1>2. ClassifyRisk(r) <= ClassifyRisk(w)
  BY <1>1 DEF ClassifyRisk, IsSafetyCritical, IsMutating, RiskLow, RiskMedium, RiskHigh
<1>3. ASSUME NEW firing, HitlEscalates(r, firing) PROVE HitlEscalates(w, firing)
  BY <1>1, <1>3 DEF HitlEscalates
<1>4. QED
  BY <1>2, <1>3

\* The types, and where an effective policy comes from.
ResolvedFrom == effective = NoAccess \/ effective = Resolve(declared, method)

ResolutionInv == ResolutionTypeOK /\ ResolvedFrom

LEMMA ResolutionInvariant == ResolutionSpec => []ResolutionInv
<1>1. ResolutionInit => ResolutionInv
  BY DEF ResolutionInit, ResolutionInv, ResolutionTypeOK, ResolvedFrom
<1>2. ResolutionInv /\ [ResolutionNext]_resolutionVars => ResolutionInv'
  <2> SUFFICES ASSUME ResolutionInv, [ResolutionNext]_resolutionVars PROVE ResolutionInv'
    OBVIOUS
  <2> USE DEF ResolutionInv, ResolutionTypeOK, ResolvedFrom
  <2>1. CASE Decorate
    BY <2>1, ResolveComplete DEF Decorate
  <2>2. CASE Republish
    <3>1. effective \in PartialAccess
      BY <2>2 DEF Republish, XAgenticAccess
    <3>2. QED
      BY <2>2, <3>1 DEF Republish
  <2>3. CASE UNCHANGED resolutionVars
    BY <2>3 DEF resolutionVars
  <2>4. QED
    BY <2>1, <2>2, <2>3 DEF ResolutionNext
<1>3. QED
  BY <1>1, <1>2, PTL DEF ResolutionSpec

\* A resolved policy has no zero-valued field (Resolve).
THEOREM ResolutionTypeCorrect == ResolutionSpec => []ResolutionTypeOK
<1>1. ResolutionInv => ResolutionTypeOK
  BY DEF ResolutionInv
<1>2. QED
  BY <1>1, ResolutionInvariant, PTL

LEMMA PatchTwice ==
  ASSUME NEW p, NEW m \in Methods, p = NoAccess \/ p \in PartialAccess,
         NEW q, q = Resolve(p, m), q # NoAccess
  PROVE  Resolve(q, m) = q
<1> PICK d : d = InferFromHTTPMethod(m)
  OBVIOUS
<1>1. d \in {ReadDefault, WriteDefault}
  BY VerbDefaults
<1>2. Resolve(q, m) = Patch(q, d)
  BY DEF Resolve
<1>3. CASE p = NoAccess
  <2>1. q = d
    BY <1>3 DEF Resolve
  <2>2. QED
    BY <1>1, <1>2, <2>1 DEF Patch, OrElse, ReadDefault, WriteDefault, Unset
<1>4. CASE p # NoAccess
  <2>1. q = Patch(p, d)
    BY <1>4 DEF Resolve
  <2>2. q = [actionClass |-> q.actionClass, consequence |-> q.consequence,
             subject |-> q.subject, hitl |-> q.hitl, audit |-> q.audit,
             triggers |-> q.triggers]
    BY <2>1 DEF Patch
  <2>3. q.triggers = {} /\ q.hitl = "conditional" => d.triggers = {}
    BY <2>1 DEF Patch
  <2>4. Unset \notin {d.actionClass, d.consequence, d.subject, d.hitl, d.audit}
    BY <1>1, DefaultsComplete DEF XAgenticAccess
  <2>5. Unset \notin {q.actionClass, q.consequence, q.subject, q.hitl, q.audit}
    BY <2>1, <2>4 DEF Patch, OrElse
  <2>6. Patch(q, d) = q
    BY <2>2, <2>3, <2>5 DEF Patch, OrElse
  <2>7. QED
    BY <1>2, <2>6
<1>5. QED
  BY <1>3, <1>4

\* A policy that was resolved, published and resolved again gates the same calls
\* (Resolve, MarshalYAML, UnmarshalYAML).
THEOREM ResolutionStable == ResolutionSpec => []ResolveStable
<1>1. ResolutionInv => ResolveStable
  BY PatchTwice DEF ResolutionInv, ResolutionTypeOK, ResolvedFrom, ResolveStable, Resolved
<1>2. QED
  BY <1>1, ResolutionInvariant, PTL

\* A mutating verb never gates a tool less than GET would (InferFromHTTPMethod).
THEOREM ResolutionWriteVerbNeverLaxer == ResolutionSpec => []WriteVerbNeverLaxer
<1>1. ResolutionInv => WriteVerbNeverLaxer
  <2> SUFFICES ASSUME ResolutionInv, Resolved PROVE WriteVerbNeverLaxer
    BY DEF WriteVerbNeverLaxer
  <2>1. effective = Resolve(declared, method) /\ method \in Methods
        /\ (declared = NoAccess \/ declared \in PartialAccess)
    BY DEF ResolutionInv, ResolutionTypeOK, ResolvedFrom, Resolved
  <2> PICK r : r = Resolve(declared, "GET")
    OBVIOUS
  <2>2. CASE InferFromHTTPMethod(method) = ReadDefault
    <3>1. r = effective
      BY <2>1, <2>2, ReadIsAccess DEF Resolve
    <3>2. ClassifyRisk(r) \in Nat
      BY DEF ClassifyRisk, RiskLow, RiskMedium, RiskHigh
    <3>3. QED
      BY <3>1, <3>2 DEF WriteVerbNeverLaxer
  <2>3. CASE InferFromHTTPMethod(method) = WriteDefault
    <3>1. CASE declared = NoAccess
      <4>1. r = ReadDefault /\ effective = WriteDefault
        BY <2>1, <2>3, <3>1, ReadIsAccess DEF Resolve
      <4>2. QED
        BY <4>1 DEF WriteVerbNeverLaxer, ClassifyRisk, HitlEscalates, IsSafetyCritical,
                    IsMutating, RiskLow, RiskMedium, RiskHigh, ReadDefault, WriteDefault
    <3>2. CASE declared # NoAccess
      <4>1. r = Patch(declared, ReadDefault) /\ effective = Patch(declared, WriteDefault)
        BY <2>1, <2>3, <3>2, ReadIsAccess DEF Resolve
      <4>2. QED
        BY <2>1, <3>2, <4>1, WriteNoLaxer DEF WriteVerbNeverLaxer
    <3>3. QED
      BY <3>1, <3>2
  <2>4. QED
    BY <2>1, <2>2, <2>3, VerbDefaults
<1>2. QED
  BY <1>1, ResolutionInvariant, PTL

\* The conditional gate of a mutating tool has a trigger that can fire, unless its
\* author listed only triggers nothing fires (Resolve, hitlEscalates).
THEOREM ResolutionWriteGateCanFire == ResolutionSpec => []WriteGateCanFire
<1>1. ResolutionInv => WriteGateCanFire
  <2> SUFFICES ASSUME ResolutionInv, Resolved, InferFromHTTPMethod(method) = WriteDefault,
                      effective.hitl = "conditional", ~OnlyUnknownTriggers
               PROVE  HitlEscalates(effective, TriggerNames)
    BY DEF WriteGateCanFire
  <2>1. effective = Resolve(declared, method)
        /\ (declared = NoAccess \/ declared \in PartialAccess)
    BY DEF ResolutionInv, ResolutionTypeOK, ResolvedFrom, Resolved
  <2>2. effective.triggers \cap TriggerNames # {}
    <3>1. CASE declared = NoAccess
      BY <2>1, <3>1 DEF Resolve, WriteDefault, TriggerNames
    <3>2. CASE declared # NoAccess
      <4>1. effective = Patch(declared, WriteDefault)
        BY <2>1, <3>2 DEF Resolve
      <4>2. WriteDefault.triggers \cap TriggerNames # {}
        BY DEF WriteDefault, TriggerNames
      <4>3. CASE declared.triggers = {}
        <5>1. effective.hitl = OrElse(declared.hitl, WriteDefault.hitl)
          BY <4>1 DEF Patch
        <5>2. effective.triggers = WriteDefault.triggers
          BY <4>1, <4>3, <5>1 DEF Patch
        <5>3. QED
          BY <4>2, <5>2
      <4>4. CASE declared.triggers # {}
        <5>1. effective.triggers = declared.triggers
          BY <4>1, <4>4 DEF Patch
        <5>2. QED
          BY <3>2, <4>4, <5>1 DEF OnlyUnknownTriggers
      <4>5. QED
        BY <4>3, <4>4
    <3>3. QED
      BY <3>1, <3>2
  <2>3. QED
    BY <2>2 DEF HitlEscalates
<1>2. QED
  BY <1>1, ResolutionInvariant, PTL

-----------------------------------------------------------------------------
(***************************************************************************)
(* The gate.                                                                *)
(***************************************************************************)

\* Registering tools, as the next-state relation does it.
Registers ==
    \E names \in SUBSET Tools : \E p \in {Declared[t] : t \in names} :
        RegisterBatch({t \in names : Declared[t] = p}, p)

-----------------------------------------------------------------------------
\* Types.

\* Lookup returns a registered policy or the default.
LEMMA LookupType == TypeOK => \A t \in Tools : Lookup(t) \in Policies
  BY DEF TypeOK, Lookup, Policies

LEMMA TypeInit == Init => TypeOK
<1>1. SUFFICES ASSUME Init PROVE TypeOK
  OBVIOUS
<1>2. NotInvoked \in CallRecords
  BY ActorAssumption, FiringAssumption DEF NotInvoked, CallRecords, Entries, Policies
<1>3. QED
  BY <1>1, <1>2, DeploymentAssumption
  DEF Init, TypeOK, Locations, Running, Settled, Answers, Verdicts

LEMMA TypeRegister == TypeOK /\ Registers => TypeOK'
<1>1. SUFFICES ASSUME TypeOK,
                      NEW names \in SUBSET Tools, NEW p \in {Declared[t] : t \in names},
                      RegisterBatch({t \in names : Declared[t] = p}, p)
               PROVE  TypeOK'
  BY DEF Registers
<1>2. p \in Policies
  BY DEF Policies
<1>3. DOMAIN registry' \subseteq Tools /\ \A t \in DOMAIN registry' : registry'[t] \in Policies
  BY <1>1, <1>2 DEF TypeOK, RegisterBatch
<1>4. QED
  BY <1>1, <1>3 DEF TypeOK, RegisterBatch

LEMMA TypeGoto ==
    ASSUME TypeOK, NEW c \in Calls, NEW from, NEW to \in Locations,
           NEW vs \in SUBSET Verdicts, Goto(c, from, to, vs)
    PROVE  pc' \in [Calls -> Locations] /\ trail' \in [Calls -> SUBSET Verdicts]
  BY DEF TypeOK, Goto

LEMMA TypeStep == ASSUME TypeOK, NEW c \in Calls, Step(c) PROVE TypeOK'
<1> USE DEF Locations, Running, Settled, Verdicts
<1>1. CASE ReturnRejected(c)
  BY <1>1, TypeGoto DEF ReturnRejected, Private, TypeOK
<1>2. CASE CheckSubject(c)
  <2>1. Goto(c, "enter", "denied", {"deny"}) \/ Goto(c, "enter", "gate", {})
    BY <1>2 DEF CheckSubject
  <2>2. QED
    BY <1>2, <2>1, TypeGoto DEF CheckSubject, Private, TypeOK
<1>3. CASE PassGate(c)
  BY <1>3, TypeGoto DEF PassGate, Private, TypeOK
<1>4. CASE GateDecorator(c)
  <2>1. \/ Goto(c, "gate", "blocked", {"hitl_blocked"})
        \/ Goto(c, "gate", "authz", {"hitl_pending_observed"})
    BY <1>4 DEF GateDecorator
  <2>2. QED
    BY <1>4, <2>1, TypeGoto DEF GateDecorator, Private, TypeOK
<1>5. CASE ReadLastInterrupt(c)
  <2>1. lastSeen[call[c].actor] \in Nat
    BY DEF TypeOK, CallRecords
  <2>2. seen' \in [Calls -> Nat]
    BY <1>5, <2>1 DEF ReadLastInterrupt, TypeOK
  <2>3. QED
    BY <1>5, <2>2, TypeGoto DEF ReadLastInterrupt, TypeOK
<1>6. CASE DecideToPrompt(c)
  BY <1>6, TypeGoto DEF DecideToPrompt, Private, TypeOK
<1>7. CASE DecideToObserve(c)
  BY <1>7, TypeGoto DEF DecideToObserve, TypeOK
<1>8. CASE Prompt(c)
  <2>1. answer' \in [Calls -> Answers]
    BY <1>8 DEF Prompt, TypeOK, Answers
  <2>2. lastSeen' \in [Actors -> Nat] /\ seen' \in [Calls -> Nat]
    BY <1>8 DEF Prompt, TypeOK
  <2>3. QED
    BY <1>8, <2>1, <2>2, TypeGoto DEF Prompt, TypeOK
<1>9. CASE Authorize(c)
  <2>1. \/ Goto(c, "authz", "run", {})
        \/ Goto(c, "authz", "denied", {"deny"})
        \/ Goto(c, "authz", "run", {"authz_error_observed"})
    BY <1>9 DEF Authorize
  <2>2. QED
    BY <1>9, <2>1, TypeGoto DEF Authorize, Private, TypeOK
<1>10. CASE Return(c)
  <2>1. \E vs \in SUBSET Verdicts : Goto(c, "run", "done", vs)
    BY <1>10 DEF Return, VerdictFromResult
  <2>2. QED
    BY <1>10, <2>1, TypeGoto DEF Return, Private, TypeOK
<1>11. QED
  BY <1>1, <1>2, <1>3, <1>4, <1>5, <1>6, <1>7, <1>8, <1>9, <1>10 DEF Step

LEMMA TypeNext == TypeOK /\ [Next]_vars => TypeOK'
<1> SUFFICES ASSUME TypeOK, [Next]_vars PROVE TypeOK'
  OBVIOUS
<1>1. CASE Registers
  BY <1>1, TypeRegister
<1>2. ASSUME NEW c \in Calls, Invoke(c) PROVE TypeOK'
  <2>1. PICK via \in Entries, t \in Tools, a \in Actors, firing \in Firings :
           call' = [call EXCEPT ![c] =
                     [via |-> via, actor |-> a, firing |-> firing,
                      policy |-> IF via = "middleware" THEN Lookup(t) ELSE Declared[t]]]
    BY <1>2 DEF Invoke
  <2>2. (IF via = "middleware" THEN Lookup(t) ELSE Declared[t]) \in Policies
    BY LookupType DEF Policies
  <2>3. call' \in [Calls -> CallRecords]
    BY <2>1, <2>2 DEF TypeOK, CallRecords
  <2>4. QED
    BY <1>2, <2>3 DEF Invoke, TypeOK, Locations, Running
<1>3. ASSUME NEW c \in Calls, Resume(c) PROVE TypeOK'
  <2>1. call' \in [Calls -> CallRecords]
    BY <1>3 DEF Resume, TypeOK, CallRecords
  <2>2. QED
    BY <1>3, <2>1 DEF Resume, TypeOK, Locations, Running
<1>4. ASSUME NEW c \in Calls, Step(c) PROVE TypeOK'
  BY <1>4, TypeStep
<1>5. CASE Tick
  BY <1>5 DEF Tick, TypeOK
<1>6. CASE UNCHANGED vars
  BY <1>6 DEF vars, TypeOK
<1>7. QED
  BY <1>1, <1>2, <1>3, <1>4, <1>5, <1>6 DEF Next, Registers

\* Every policy a call is checked against was declared or is the default, the
\* clock never returns to Go's zero time, and every location is a known one.
THEOREM TypeCorrect == Spec => []TypeOK
<1>1. QED
  BY TypeInit, TypeNext, PTL DEF Spec

-----------------------------------------------------------------------------
\* The throttle.

LEMMA ThrottleInit == Init => ThrottleInv
  BY ActorAssumption DEF Init, ThrottleInv, NotInvoked

\* A step that leaves the clock, the throttle, what was read and the actors
\* alone, and takes no call to "prompt", keeps the invariant.
LEMMA ThrottleKept ==
    ASSUME TypeOK, ThrottleInv, NEW c \in Calls, NEW to \in Locations \ {"prompt"},
           pc' = [pc EXCEPT ![c] = to], UNCHANGED <<now, lastSeen, call, seen>>
    PROVE  ThrottleInv'
  BY DEF TypeOK, ThrottleInv

LEMMA ThrottleStep == ASSUME TypeOK, ThrottleInv, NEW c \in Calls, Step(c) PROVE ThrottleInv'
<1> USE DEF Goto, Locations, Running, Settled
<1>1. CASE ReturnRejected(c)
  BY <1>1, ThrottleKept DEF ReturnRejected, Private
<1>2. CASE CheckSubject(c)
  BY <1>2, ThrottleKept DEF CheckSubject, Private
<1>3. CASE PassGate(c)
  BY <1>3, ThrottleKept DEF PassGate, Private
<1>4. CASE GateDecorator(c)
  BY <1>4, ThrottleKept DEF GateDecorator, Private
<1>5. CASE ReadLastInterrupt(c)
  BY <1>5 DEF ReadLastInterrupt, ThrottleInv, TypeOK, CallRecords
<1>6. CASE DecideToPrompt(c)
  <2>1. seen[c] = 0 \/ ~(now - seen[c] < Cooldown)
    BY <1>6 DEF DecideToPrompt, Interrupts, ShouldInterrupt, Throttled
  <2>2. seen[c] = 0 \/ now - seen[c] >= Cooldown
    BY <2>1, TimeAssumption DEF TypeOK
  <2>3. QED
    BY <1>6, <2>2 DEF DecideToPrompt, Private, ThrottleInv, TypeOK
<1>7. CASE DecideToObserve(c)
  BY <1>7 DEF DecideToObserve, ThrottleInv, TypeOK, CallRecords
<1>8. CASE Prompt(c)
  <2>1. \A a \in Actors : lastSeen[a] <= lastSeen'[a] /\ lastSeen'[a] <= now
    BY <1>8 DEF Prompt, ThrottleInv, TypeOK, CallRecords
  <2>2. \A d \in Calls : call[d].actor \in Actors
    BY DEF TypeOK, CallRecords
  <2>3. QED
    BY <1>8, <2>1, <2>2 DEF Prompt, ThrottleInv, TypeOK
<1>9. CASE Authorize(c)
  BY <1>9, ThrottleKept DEF Authorize, Private
<1>10. CASE Return(c)
  BY <1>10, ThrottleKept DEF Return, Private
<1>11. QED
  BY <1>1, <1>2, <1>3, <1>4, <1>5, <1>6, <1>7, <1>8, <1>9, <1>10 DEF Step

\* A call not yet invoked has read nothing.
IdleInv == \A c \in Calls : pc[c] = "idle" => seen[c] = 0 /\ answer[c] = "none" /\ trail[c] = {}

LEMMA IdleNext == TypeOK /\ IdleInv /\ [Next]_vars => IdleInv'
<1> SUFFICES ASSUME TypeOK, IdleInv, [Next]_vars PROVE IdleInv'
  OBVIOUS
<1> USE DEF IdleInv, TypeOK
<1>1. CASE Registers
  BY <1>1 DEF Registers, RegisterBatch
<1>2. ASSUME NEW c \in Calls, Invoke(c) \/ Resume(c) PROVE IdleInv'
  BY <1>2 DEF Invoke, Resume
<1>3. ASSUME NEW c \in Calls, Step(c) PROVE IdleInv'
  BY <1>3 DEF Step, ReturnRejected, CheckSubject, PassGate, GateDecorator,
              ReadLastInterrupt, DecideToPrompt, DecideToObserve, Prompt, Authorize,
              Return, Private, Goto
<1>4. CASE Tick \/ UNCHANGED vars
  BY <1>4 DEF Tick, vars
<1>5. QED
  BY <1>1, <1>2, <1>3, <1>4 DEF Next, Registers

LEMMA ThrottleNext == TypeOK /\ IdleInv /\ ThrottleInv /\ [Next]_vars => ThrottleInv'
<1> SUFFICES ASSUME TypeOK, IdleInv, ThrottleInv, [Next]_vars PROVE ThrottleInv'
  OBVIOUS
<1>1. CASE Registers
  BY <1>1 DEF Registers, RegisterBatch, ThrottleInv
<1>2. ASSUME NEW c \in Calls, Invoke(c) PROVE ThrottleInv'
  <2>1. call'[c].actor \in Actors /\ \A d \in Calls \ {c} : call'[d] = call[d]
    BY <1>2 DEF Invoke, TypeOK
  <2>2. seen[c] = 0
    BY <1>2 DEF Invoke, IdleInv
  <2>3. QED
    BY <1>2, <2>1, <2>2 DEF Invoke, ThrottleInv, TypeOK
<1>3. ASSUME NEW c \in Calls, Resume(c) PROVE ThrottleInv'
  <2>1. \A d \in Calls : call'[d].actor = call[d].actor
    BY <1>3 DEF Resume, TypeOK, CallRecords
  <2>2. QED
    BY <1>3, <2>1 DEF Resume, ThrottleInv, TypeOK
<1>4. ASSUME NEW c \in Calls, Step(c) PROVE ThrottleInv'
  BY <1>4, ThrottleStep
<1>5. CASE Tick
  BY <1>5, TimeAssumption DEF Tick, ThrottleInv, TypeOK
<1>6. CASE UNCHANGED vars
  BY <1>6 DEF vars, ThrottleInv
<1>7. QED
  BY <1>1, <1>2, <1>3, <1>4, <1>5, <1>6 DEF Next, Registers

\* A call reaches the prompt only on a reading of the throttle that was a whole
\* cooldown old by then.
THEOREM ThrottleSound == Spec => []ThrottleInv
<1>1. Init => IdleInv
  BY DEF Init, IdleInv
<1>2. QED
  BY <1>1, ThrottleInit, TypeInit, TypeNext, IdleNext, ThrottleNext, PTL DEF Spec

\* Prompts of one actor are a cooldown apart but for the race between a call's
\* read of the throttle and another call's record.
THEOREM PromptsSpaced == Spec => PromptsSpacedUnlessRaced
<1>1. TypeOK /\ ThrottleInv /\ [Next]_vars
        => [\A c \in Calls : PromptsAgain(c) => seen[c] < lastSeen[call[c].actor]]_vars
  <2> SUFFICES ASSUME TypeOK, ThrottleInv, NEW c \in Calls, PromptsAgain(c)
               PROVE  seen[c] < lastSeen[call[c].actor]
    OBVIOUS
  <2>2. call[c].actor \in Actors
    BY DEF TypeOK, CallRecords
  <2>3. seen[c] = 0 \/ now - seen[c] >= Cooldown
    BY DEF PromptsAgain, ThrottleInv
  <2>4. lastSeen[call[c].actor] \in Nat /\ seen[c] \in Nat /\ now \in Nat
    BY <2>2 DEF TypeOK
  <2>5. QED
    BY <2>3, <2>4, TimeAssumption DEF PromptsAgain, ThrottleInv
<1>2. QED
  BY <1>1, TypeCorrect, ThrottleSound, PTL DEF Spec, PromptsSpacedUnlessRaced

-----------------------------------------------------------------------------
\* The audit trail.

Notes == {"hitl_pending_observed", "authz_error_observed"}

\* What the trail of c holds at each location, the step of the induction.
TrailAt(c) ==
    /\ pc[c] \in {"idle", "enter", "gate", "decide", "prompt", "rejected"} => trail[c] = {}
    /\ pc[c] \in {"interrupted", "blocked"} => trail[c] = {"hitl_blocked"}
    /\ pc[c] = "denied" => trail[c] \ Notes = {"deny"}
    /\ pc[c] = "authz" => trail[c] \subseteq {"hitl_pending_observed"}
    /\ pc[c] = "run" => trail[c] \subseteq Notes
    /\ pc[c] = "done" => trail[c] \subseteq Notes \cup Concludes
    /\ pc[c] \in {"authz", "run", "done"} /\ Escalates(c)
          => "hitl_pending_observed" \in trail[c]
    /\ pc[c] \in {"run", "done"} /\ "authz_error_observed" \in trail[c]
          => ~IsSafetyCritical(call[c].policy)
    /\ pc[c] = "done" => (trail[c] \cap Concludes # {} <=> call[c].policy.audit = "required")

TrailInv == \A c \in Calls : TrailAt(c)

LEMMA TrailImplies == TrailInv => TrailMatchesOutcome
  BY Zenon DEF TrailInv, TrailAt, TrailMatchesOutcome, Notes, Concludes

LEMMA TrailFrame ==
    ASSUME TrailInv, NEW d \in Calls, pc'[d] = pc[d], trail'[d] = trail[d], call'[d] = call[d]
    PROVE  TrailAt(d)'
  BY DEF TrailInv, TrailAt, Escalates

LEMMA TrailStep ==
    ASSUME TypeOK, TrailInv, NEW c \in Calls, Step(c) PROVE TrailInv'
<1>1. call' = call
  BY DEF Step, ReturnRejected, CheckSubject, PassGate, GateDecorator, ReadLastInterrupt,
         DecideToPrompt, DecideToObserve, Prompt, Authorize, Return, Private
<1>2. ASSUME NEW d \in Calls \ {c} PROVE TrailAt(d)'
  <2>1. pc'[d] = pc[d] /\ trail'[d] = trail[d]
    BY DEF Step, ReturnRejected, CheckSubject, PassGate, GateDecorator, ReadLastInterrupt,
           DecideToPrompt, DecideToObserve, Prompt, Authorize, Return, Goto, TypeOK
  <2>2. QED
    BY <1>1, <2>1, TrailFrame
<1>3. TrailAt(c)'
  <2> DEFINE Moves(to, vs) == pc'[c] = to /\ trail'[c] = trail[c] \cup vs
  <2>0. \A from, to, vs : Goto(c, from, to, vs) => pc[c] = from /\ Moves(to, vs)
    BY DEF Goto, TypeOK
  <2> HIDE DEF Moves
  <2>1. CASE ReturnRejected(c)
    <3>1. pc[c] = "enter" /\ Moves("rejected", {})
      BY <2>1, <2>0 DEF ReturnRejected
    <3>2. QED
      BY <3>1 DEF Moves, TrailInv, TrailAt
  <2>2. CASE CheckSubject(c)
    <3>1. pc[c] = "enter" /\ (Moves("denied", {"deny"}) \/ Moves("gate", {}))
      BY <2>2, <2>0 DEF CheckSubject
    <3>2. QED
      BY <3>1 DEF Moves, TrailInv, TrailAt, Notes
  <2>3. CASE PassGate(c)
    <3>1. pc[c] = "gate" /\ Moves("authz", {}) /\ ~Escalates(c)
      BY <2>3, <2>0 DEF PassGate
    <3>2. QED
      BY <3>1, <1>1 DEF Moves, TrailInv, TrailAt, Escalates
  <2>4. CASE GateDecorator(c)
    <3>1. /\ pc[c] = "gate"
          /\ Moves("blocked", {"hitl_blocked"}) \/ Moves("authz", {"hitl_pending_observed"})
      BY <2>4, <2>0 DEF GateDecorator
    <3>2. QED
      BY <3>1 DEF Moves, TrailInv, TrailAt
  <2>5. CASE ReadLastInterrupt(c)
    <3>1. pc[c] = "gate" /\ Moves("decide", {})
      BY <2>5, <2>0 DEF ReadLastInterrupt
    <3>2. QED
      BY <3>1 DEF Moves, TrailInv, TrailAt
  <2>6. CASE DecideToPrompt(c)
    <3>1. pc[c] = "decide" /\ Moves("prompt", {})
      BY <2>6, <2>0 DEF DecideToPrompt
    <3>2. QED
      BY <3>1 DEF Moves, TrailInv, TrailAt
  <2>7. CASE DecideToObserve(c)
    <3>1. pc[c] = "decide" /\ Moves("authz", {"hitl_pending_observed"})
      BY <2>7, <2>0 DEF DecideToObserve
    <3>2. QED
      BY <3>1 DEF Moves, TrailInv, TrailAt
  <2>8. CASE Prompt(c)
    <3>1. pc[c] = "prompt" /\ Moves("interrupted", {"hitl_blocked"})
      BY <2>8, <2>0 DEF Prompt
    <3>2. QED
      BY <3>1 DEF Moves, TrailInv, TrailAt
  <2>9. CASE Authorize(c)
    <3>1. /\ pc[c] = "authz"
          /\ \/ Moves("run", {})
             \/ Moves("denied", {"deny"})
             \/ Moves("run", {"authz_error_observed"}) /\ ~IsSafetyCritical(call[c].policy)
      BY <2>9, <2>0 DEF Authorize
    <3>2. TrailAt(c)
      BY DEF TrailInv
    <3>3. CASE Moves("run", {})
      BY <3>1, <3>2, <3>3, <1>1 DEF Moves, TrailAt, Notes, Escalates
    <3>4. CASE Moves("denied", {"deny"})
      BY <3>1, <3>2, <3>4, <1>1 DEF Moves, TrailAt, Notes
    <3>5. CASE Moves("run", {"authz_error_observed"}) /\ ~IsSafetyCritical(call[c].policy)
      BY <3>1, <3>2, <3>5, <1>1 DEF Moves, TrailAt, Notes, Escalates
    <3>6. QED
      BY <3>1, <3>3, <3>4, <3>5
  <2>10. CASE Return(c)
    <3>1. PICK err \in BOOLEAN :
             Goto(c, "run", "done",
                  IF call[c].policy.audit = "required" THEN {VerdictFromResult(err)} ELSE {})
      BY <2>10 DEF Return
    <3>2. pc[c] = "run" /\ pc'[c] = "done"
      BY <3>1, <2>0 DEF Moves
    <3>3. CASE call[c].policy.audit = "required"
      <4>1. \E v \in Concludes : trail'[c] = trail[c] \cup {v}
        BY <3>1, <3>3, <2>0 DEF Moves, VerdictFromResult, Concludes
      <4>2. QED
        BY <3>2, <3>3, <4>1, <1>1 DEF TrailInv, TrailAt, Notes, Concludes, Escalates
    <3>4. CASE call[c].policy.audit # "required"
      <4>1. trail'[c] = trail[c] \cup {}
        BY <3>1, <3>4, <2>0 DEF Moves
      <4>2. QED
        BY <3>2, <3>4, <4>1, <1>1 DEF TrailInv, TrailAt, Notes, Concludes, Escalates
    <3>5. QED
      BY <3>3, <3>4
  <2>11. QED
    BY <2>1, <2>2, <2>3, <2>4, <2>5, <2>6, <2>7, <2>8, <2>9, <2>10 DEF Step
<1>4. QED
  BY <1>2, <1>3 DEF TrailInv

LEMMA TrailNext == TypeOK /\ IdleInv /\ TrailInv /\ [Next]_vars => TrailInv'
<1> SUFFICES ASSUME TypeOK, IdleInv, TrailInv, [Next]_vars PROVE TrailInv'
  OBVIOUS
<1>1. CASE Registers \/ Tick \/ UNCHANGED vars
  <2>1. UNCHANGED <<pc, call, trail>>
    BY <1>1 DEF Registers, RegisterBatch, Tick, vars
  <2>2. QED
    BY <2>1, TrailFrame DEF TrailInv
<1>2. ASSUME NEW c \in Calls, Invoke(c) \/ Resume(c) PROVE TrailInv'
  <2>1. pc'[c] = "enter" /\ trail'[c] = {}
    BY <1>2 DEF Invoke, Resume, IdleInv, TypeOK
  <2>2. \A d \in Calls \ {c} :
           pc'[d] = pc[d] /\ trail'[d] = trail[d] /\ call'[d] = call[d]
    BY <1>2 DEF Invoke, Resume, TypeOK
  <2>3. TrailAt(c)'
    BY <2>1 DEF TrailAt
  <2>4. QED
    BY <2>2, <2>3, TrailFrame DEF TrailInv
<1>3. ASSUME NEW c \in Calls, Step(c) PROVE TrailInv'
  BY <1>3, TrailStep
<1>4. QED
  BY <1>1, <1>2, <1>3 DEF Next, Registers

\* The audit trail of every execution agrees with what became of the call.
THEOREM TrailSound == Spec => []TrailMatchesOutcome
<1>1. Init => IdleInv /\ TrailInv
  BY DEF Init, IdleInv, TrailInv, TrailAt
<1>2. QED
  BY <1>1, TypeInit, TypeNext, IdleNext, TrailNext, TrailImplies, PTL DEF Spec

-----------------------------------------------------------------------------
\* Refusals.

LEMMA RefusalNext == TypeOK /\ IdleInv /\ RefusalStands /\ [Next]_vars => RefusalStands'
<1> SUFFICES ASSUME TypeOK, IdleInv, RefusalStands, [Next]_vars PROVE RefusalStands'
  OBVIOUS
<1> USE DEF RefusalStands, Rejected
<1>1. CASE Registers \/ Tick \/ UNCHANGED vars
  BY <1>1 DEF Registers, RegisterBatch, Tick, vars
<1>2. ASSUME NEW c \in Calls, Invoke(c) \/ Resume(c) PROVE RefusalStands'
  <2>1. pc'[c] = "enter"
    BY <1>2 DEF Invoke, Resume, TypeOK
  <2>2. \A d \in Calls \ {c} :
           pc'[d] = pc[d] /\ answer'[d] = answer[d] /\ call'[d] = call[d]
    BY <1>2 DEF Invoke, Resume, TypeOK
  <2>3. QED
    BY <2>1, <2>2
<1>3. ASSUME NEW c \in Calls, Step(c) PROVE RefusalStands'
  <2>1. CASE Prompt(c)
    BY <2>1 DEF Prompt, Goto, TypeOK
  <2>2. CASE ReturnRejected(c)
    BY <2>2 DEF ReturnRejected, Goto, Private, TypeOK
  <2>3. CASE CheckSubject(c)
    BY <2>3 DEF CheckSubject, Goto, Private, TypeOK
  <2>4. CASE /\ ~(Prompt(c) \/ ReturnRejected(c) \/ CheckSubject(c))
    <3>1. pc[c] \notin {"enter", "rejected"} /\ answer' = answer /\ call' = call
      BY <1>3, <2>4 DEF Step, PassGate, GateDecorator, ReadLastInterrupt, DecideToPrompt,
                        DecideToObserve, Authorize, Return, Private, Goto
    <3>2. \A d \in Calls \ {c} : pc'[d] = pc[d]
      BY <1>3 DEF Step, ReturnRejected, CheckSubject, PassGate, GateDecorator,
                  ReadLastInterrupt, DecideToPrompt, DecideToObserve, Prompt, Authorize,
                  Return, Goto, TypeOK
    <3>3. QED
      BY <3>1, <3>2
  <2>5. QED
    BY <2>1, <2>2, <2>3, <2>4
<1>4. QED
  BY <1>1, <1>2, <1>3 DEF Next, Registers

\* A call the human refused never gets past the middleware's first lines.
THEOREM RefusalHolds == Spec => []RefusalStands
<1>1. Init => IdleInv /\ RefusalStands
  BY DEF Init, IdleInv, RefusalStands, Rejected
<1>2. QED
  BY <1>1, TypeInit, TypeNext, IdleNext, RefusalNext, PTL DEF Spec

-----------------------------------------------------------------------------
\* Refinement.

\* Only the middleware looks at the throttle.
EntryInv == \A c \in Calls : pc[c] \in {"decide", "prompt"} => call[c].via = "middleware"

LEMMA EntryNext == TypeOK /\ EntryInv /\ [Next]_vars => EntryInv'
<1> SUFFICES ASSUME TypeOK, EntryInv, [Next]_vars PROVE EntryInv'
  OBVIOUS
<1> USE DEF EntryInv, TypeOK
<1>1. CASE Registers \/ Tick \/ UNCHANGED vars
  BY <1>1 DEF Registers, RegisterBatch, Tick, vars
<1>2. ASSUME NEW c \in Calls, Invoke(c) \/ Resume(c) PROVE EntryInv'
  BY <1>2 DEF Invoke, Resume
<1>3. ASSUME NEW c \in Calls, Step(c) PROVE EntryInv'
  BY <1>3 DEF Step, ReturnRejected, CheckSubject, PassGate, GateDecorator,
              ReadLastInterrupt, DecideToPrompt, DecideToObserve, Prompt, Authorize,
              Return, Private, Goto
<1>4. QED
  BY <1>1, <1>2, <1>3 DEF Next, Registers

GateInv == TypeOK /\ IdleInv /\ ThrottleInv /\ RefusalStands /\ EntryInv

\* The mapping moves the status of the one call that steps.
LEMMA StatusMoves ==
    ASSUME TypeOK, NEW c \in Calls, NEW to \in Locations, pc' = [pc EXCEPT ![c] = to]
    PROVE  /\ pc'[c] = to
           /\ \A d \in Calls \ {c} : StatusOf(d)' = StatusOf(d)
<1>1. pc'[c] = to /\ \A d \in Calls \ {c} : pc'[d] = pc[d]
  BY DEF TypeOK
<1>2. QED
  BY <1>1 DEF StatusOf

LEMMA RefinesInit == Init => SignOff!Init
<1> SUFFICES ASSUME Init PROVE SignOff!Init
  OBVIOUS
<1>1. \A c \in Calls : StatusOf(c) = "idle"
  BY DEF Init, StatusOf
<1>0. \A c \in Calls : call[c].actor \in Actors /\ Rejected(c) = FALSE
  BY ActorAssumption DEF Init, NotInvoked, Rejected
<1>2. \A c \in Calls : MustSignOff(c) \in BOOLEAN /\ Rejected(c) \in BOOLEAN
  BY DEF MustSignOff, Rejected, Escalates, HitlEscalates
<1>3. QED
  BY <1>0, <1>1, <1>2 DEF Init, SignOff!Init

\* A step of c that moves its location is a move of its status.
LEMMA MoveRefines ==
    ASSUME TypeOK, NEW c \in Calls, NEW from, NEW to \in Locations, NEW vs, Goto(c, from, to, vs)
    PROVE  SignOff!Move(c, StatusOf(c), StatusOf(c)')
<1>1. pc' = [pc EXCEPT ![c] = to]
  BY DEF Goto
<1>2. QED
  BY <1>1, StatusMoves DEF SignOff!Move

\* The variables the abstract gate keeps besides the status.
LEMMA CallsKept ==
    ASSUME UNCHANGED <<env, call, answer>>
    PROVE  UNCHANGED <<[d \in Calls |-> call[d].actor], [d \in Calls |-> MustSignOff(d)],
                       [d \in Calls |-> Rejected(d)]>>
  BY DEF MustSignOff, Rejected, Escalates

\* A move between two locations of one status, with nothing else the abstract
\* gate sees changed, is a stuttering step of it.
LEMMA StutterRefines ==
    ASSUME TypeOK, NEW c \in Calls, NEW from, NEW to \in Locations, NEW vs,
           Goto(c, from, to, vs),
           \/ from \in {"enter", "gate", "decide"} /\ to \in {"gate", "decide", "prompt"}
           \/ from = "authz" /\ to = "run",
           UNCHANGED <<now, lastSeen, env, call, answer>>
    PROVE  UNCHANGED SignOff!vars
<1>1. pc' = [pc EXCEPT ![c] = to] /\ pc[c] = from
  BY DEF Goto
<1>2. StatusOf(c)' = StatusOf(c)
  BY <1>1, StatusMoves DEF StatusOf
<1>3. \A d \in Calls : StatusOf(d)' = StatusOf(d)
  BY <1>1, <1>2, StatusMoves
<1>4. QED
  BY <1>3, CallsKept DEF SignOff!vars

\* The heart of the refinement: when the decision is not to interrupt a call
\* that must be signed off, its actor was prompted less than a cooldown ago.
LEMMA ObservedIsRecent ==
    ASSUME GateInv, NEW c \in Calls, pc[c] = "decide", NEW raw, ~Interrupts(c, raw),
           MustSignOff(c)
    PROVE  lastSeen[call[c].actor] # 0 /\ now - lastSeen[call[c].actor] < Cooldown
<1>1. ClassifyRisk(call[c].policy) = RiskHigh /\ env.hitl
  BY DEF GateInv, EntryInv, MustSignOff
<1>2. seen[c] # 0 /\ now - seen[c] < Cooldown
  BY <1>1 DEF Interrupts, ShouldInterrupt, Throttled
<1>3. call[c].actor \in Actors
  BY DEF GateInv, TypeOK, CallRecords
<1>4. /\ now \in Nat /\ seen[c] \in Nat /\ lastSeen[call[c].actor] \in Nat
      /\ seen[c] <= lastSeen[call[c].actor]
  BY <1>3 DEF GateInv, TypeOK, ThrottleInv
<1>5. QED
  BY <1>2, <1>4, TimeAssumption

LEMMA StepRefines == ASSUME GateInv, NEW c \in Calls, Step(c) PROVE [SignOff!Next]_(SignOff!vars)
<1> USE DEF GateInv
<1>0. SignOff!Prompt(c) \/ SignOff!Clear(c) \/ SignOff!Close(c) => SignOff!Next
  BY DEF SignOff!Next
<1>1. CASE ReturnRejected(c)
  <2>1. StatusOf(c) = "pending" /\ StatusOf(c)' = "closed"
    BY <1>1 DEF ReturnRejected, Goto, TypeOK, StatusOf
  <2>2. SignOff!Move(c, "pending", "closed")
    BY <1>1, <2>1, MoveRefines DEF ReturnRejected, Locations, Settled
  <2>3. QED
    BY <1>0, <1>1, <2>2, CallsKept DEF ReturnRejected, Private, SignOff!Close
<1>2. CASE CheckSubject(c)
  <2>1. CASE SubjectMissing(c)
    <3>1. Goto(c, "enter", "denied", {"deny"})
      BY <1>2, <2>1 DEF CheckSubject
    <3>2. StatusOf(c) = "pending" /\ StatusOf(c)' = "closed"
      BY <3>1 DEF Goto, TypeOK, StatusOf
    <3>3. SignOff!Move(c, "pending", "closed")
      BY <3>1, <3>2, MoveRefines DEF Locations, Settled
    <3>4. QED
      BY <1>0, <1>2, <3>3, CallsKept DEF CheckSubject, Private, SignOff!Close
  <2>2. CASE ~SubjectMissing(c)
    <3>1. Goto(c, "enter", "gate", {})
      BY <1>2, <2>2 DEF CheckSubject
    <3>2. QED
      BY <1>2, <3>1, StutterRefines DEF CheckSubject, Private, Locations, Running
  <2>3. QED
    BY <2>1, <2>2
<1>3. CASE PassGate(c)
  <2>1. StatusOf(c) = "pending" /\ StatusOf(c)' = "cleared"
    BY <1>3 DEF PassGate, Goto, TypeOK, StatusOf
  <2>2. SignOff!Move(c, "pending", "cleared")
    BY <1>3, <2>1, MoveRefines DEF PassGate, Locations, Running
  <2>3. ~MustSignOff(c) /\ ~Rejected(c)
    BY <1>3 DEF PassGate, Goto, MustSignOff, RefusalStands
  <2>4. QED
    BY <1>0, <1>3, <2>2, <2>3, CallsKept DEF PassGate, Private, SignOff!Clear
<1>4. CASE GateDecorator(c)
  <2>1. CASE env.hitl
    <3>1. Goto(c, "gate", "blocked", {"hitl_blocked"})
      BY <1>4, <2>1 DEF GateDecorator
    <3>2. StatusOf(c) = "pending" /\ StatusOf(c)' = "closed"
      BY <3>1 DEF Goto, TypeOK, StatusOf
    <3>3. SignOff!Move(c, "pending", "closed")
      BY <3>1, <3>2, MoveRefines DEF Locations, Settled
    <3>4. QED
      BY <1>0, <1>4, <3>3, CallsKept DEF GateDecorator, Private, SignOff!Close
  <2>2. CASE ~env.hitl
    <3>1. Goto(c, "gate", "authz", {"hitl_pending_observed"})
      BY <1>4, <2>2 DEF GateDecorator
    <3>2. StatusOf(c) = "pending" /\ StatusOf(c)' = "cleared"
      BY <3>1 DEF Goto, TypeOK, StatusOf
    <3>3. SignOff!Move(c, "pending", "cleared")
      BY <3>1, <3>2, MoveRefines DEF Locations, Running
    <3>4. ~MustSignOff(c) /\ ~Rejected(c)
      BY <2>2, <3>1 DEF Goto, MustSignOff, RefusalStands
    <3>5. QED
      BY <1>0, <1>4, <3>3, <3>4, CallsKept DEF GateDecorator, Private, SignOff!Clear
  <2>3. QED
    BY <2>1, <2>2
<1>5. CASE ReadLastInterrupt(c)
  BY <1>5, StutterRefines DEF ReadLastInterrupt, Locations, Running
<1>6. CASE DecideToPrompt(c)
  BY <1>6, StutterRefines DEF DecideToPrompt, Private, Locations, Running
<1>7. CASE DecideToObserve(c)
  <2>1. StatusOf(c) = "pending" /\ StatusOf(c)' = "cleared"
    BY <1>7 DEF DecideToObserve, Goto, TypeOK, StatusOf
  <2>2. SignOff!Move(c, "pending", "cleared")
    BY <1>7, <2>1, MoveRefines DEF DecideToObserve, Locations, Running
  <2>3. ~Rejected(c)
    BY <1>7 DEF DecideToObserve, Goto, RefusalStands
  <2>4. MustSignOff(c) => SignOff!RecentlyPrompted(call[c].actor)
    BY <1>7, ObservedIsRecent DEF DecideToObserve, Goto, SignOff!RecentlyPrompted
  <2>5. QED
    BY <1>0, <1>7, <2>2, <2>3, <2>4, CallsKept DEF DecideToObserve, SignOff!Clear
<1>8. CASE Prompt(c)
  <2>1. StatusOf(c) = "pending" /\ StatusOf(c)' = "awaiting"
    BY <1>8 DEF Prompt, Goto, TypeOK, StatusOf
  <2>2. SignOff!Move(c, "pending", "awaiting")
    BY <1>8, <2>1, MoveRefines DEF Prompt, Locations
  <2>3. \A d \in Calls : Rejected(d)' = Rejected(d)
    <3>1. ~Rejected(c) /\ ~Rejected(c)'
      BY <1>8 DEF Prompt, Goto, RefusalStands, Rejected, TypeOK
    <3>2. \A d \in Calls \ {c} : answer'[d] = answer[d] /\ call'[d] = call[d]
      BY <1>8 DEF Prompt, TypeOK
    <3>3. QED
      BY <3>1, <3>2 DEF Rejected
  <2>4. \A d \in Calls : MustSignOff(d)' = MustSignOff(d)
    BY <1>8 DEF Prompt, MustSignOff, Escalates
  <2>5. QED
    BY <1>0, <1>8, <2>2, <2>3, <2>4 DEF Prompt, SignOff!Prompt
<1>9. CASE Authorize(c)
  <2>1. CASE pc'[c] = "run"
    <3>1. PICK vs : Goto(c, "authz", "run", vs)
      BY <1>9, <2>1 DEF Authorize, Goto, TypeOK
    <3>2. QED
      BY <1>9, <3>1, StutterRefines DEF Authorize, Private, Locations, Running
  <2>2. CASE pc'[c] # "run"
    <3>1. Goto(c, "authz", "denied", {"deny"})
      BY <1>9, <2>2 DEF Authorize, Goto, TypeOK
    <3>2. StatusOf(c) = "cleared" /\ StatusOf(c)' = "closed"
      BY <3>1 DEF Goto, TypeOK, StatusOf
    <3>3. SignOff!Move(c, "cleared", "closed")
      BY <3>1, <3>2, MoveRefines DEF Locations, Settled
    <3>4. QED
      BY <1>0, <1>9, <3>3, CallsKept DEF Authorize, Private, SignOff!Close
  <2>3. QED
    BY <2>1, <2>2
<1>10. CASE Return(c)
  <2>1. PICK vs : Goto(c, "run", "done", vs)
    BY <1>10 DEF Return
  <2>2. StatusOf(c) = "cleared" /\ StatusOf(c)' = "closed"
    BY <2>1 DEF Goto, TypeOK, StatusOf
  <2>3. SignOff!Move(c, "cleared", "closed")
    BY <2>1, <2>2, MoveRefines DEF Locations, Settled
  <2>4. QED
    BY <1>0, <1>10, <2>3, CallsKept DEF Return, Private, SignOff!Close
<1>11. QED
  BY <1>1, <1>2, <1>3, <1>4, <1>5, <1>6, <1>7, <1>8, <1>9, <1>10 DEF Step

LEMMA NextRefines == GateInv /\ [Next]_vars => [SignOff!Next]_(SignOff!vars)
<1> SUFFICES ASSUME GateInv, [Next]_vars PROVE [SignOff!Next]_(SignOff!vars)
  OBVIOUS
<1> USE DEF GateInv
<1>1. CASE Registers \/ UNCHANGED vars
  BY <1>1, CallsKept DEF Registers, RegisterBatch, vars, SignOff!vars, StatusOf
<1>2. ASSUME NEW c \in Calls, Invoke(c) PROVE SignOff!Next
  <2>1. SignOff!Move(c, "idle", "pending")
    <3>1. StatusOf(c) = "idle" /\ StatusOf(c)' = "pending"
      BY <1>2 DEF Invoke, TypeOK, StatusOf
    <3>2. QED
      BY <1>2, <3>1, StatusMoves DEF Invoke, SignOff!Move, Locations, Running
  <2>2. /\ call'[c].actor \in Actors
        /\ \A d \in Calls \ {c} : call'[d] = call[d]
    BY <1>2 DEF Invoke, TypeOK
  <2>3. \A d \in Calls : Rejected(d)' = Rejected(d)
    BY <1>2, <2>2 DEF Invoke, Rejected, IdleInv, TypeOK
  <2>4. \A d \in Calls \ {c} : MustSignOff(d)' = MustSignOff(d)
    BY <1>2, <2>2 DEF Invoke, MustSignOff, Escalates
  <2>5. MustSignOff(c)' \in BOOLEAN
    BY DEF MustSignOff, Escalates, HitlEscalates
  <2>6. SignOff!Ask(c)
    <3>1. [d \in Calls |-> call[d].actor]' =
             [[d \in Calls |-> call[d].actor] EXCEPT ![c] = call'[c].actor]
      BY <2>2
    <3>2. [d \in Calls |-> MustSignOff(d)]' =
             [[d \in Calls |-> MustSignOff(d)] EXCEPT ![c] = MustSignOff(c)']
      BY <2>4
    <3>3. [d \in Calls |-> Rejected(d)]' = [d \in Calls |-> Rejected(d)]
      BY <2>3
    <3>4. UNCHANGED <<now, lastSeen>>
      BY <1>2 DEF Invoke
    <3>5. QED
      BY <2>1, <2>2, <2>5, <3>1, <3>2, <3>3, <3>4 DEF SignOff!Ask
  <2>7. QED
    BY <2>6 DEF SignOff!Next
<1>3. ASSUME NEW c \in Calls, Resume(c) PROVE SignOff!Next
  <2>1. SignOff!Move(c, "awaiting", "pending")
    <3>1. StatusOf(c) = "awaiting" /\ StatusOf(c)' = "pending"
      BY <1>3 DEF Resume, TypeOK, StatusOf
    <3>2. QED
      BY <1>3, <3>1, StatusMoves DEF Resume, SignOff!Move, Locations, Running
  <2>2. /\ \A d \in Calls : call'[d].actor = call[d].actor
        /\ \A d \in Calls \ {c} : call'[d] = call[d] /\ answer'[d] = answer[d]
    BY <1>3 DEF Resume, TypeOK, CallRecords
  <2>3. \A d \in Calls \ {c} : /\ Rejected(d)' = Rejected(d)
                               /\ MustSignOff(d)' = MustSignOff(d)
    BY <1>3, <2>2 DEF Resume, Rejected, MustSignOff, Escalates
  <2>4. Rejected(c)' \in BOOLEAN /\ MustSignOff(c)' \in BOOLEAN
    BY DEF Rejected, MustSignOff, Escalates, HitlEscalates
  <2>5. SignOff!Answer(c)
    BY <1>3, <2>1, <2>2, <2>3, <2>4 DEF Resume, SignOff!Answer
  <2>6. QED
    BY <2>5 DEF SignOff!Next
<1>4. ASSUME NEW c \in Calls, Step(c) PROVE [SignOff!Next]_(SignOff!vars)
  BY <1>4, StepRefines
<1>5. CASE Tick
  BY <1>5, CallsKept DEF Tick, SignOff!Next, SignOff!Tick, StatusOf
<1>6. QED
  BY <1>1, <1>2, <1>3, <1>4, <1>5 DEF Next, Registers

\* The gate does what SignOffGate promises: a call that must be signed off is
\* let through only within the cooldown of a prompt for its actor, a refused
\* call never is.
THEOREM GateImplementsSignOff == Spec => ImplementsSignOff
<1>1. Init => GateInv
  <2>1. Init => IdleInv /\ RefusalStands /\ EntryInv
    BY DEF Init, IdleInv, RefusalStands, Rejected, EntryInv
  <2>2. QED
    BY <2>1, TypeInit, ThrottleInit DEF GateInv
<1>2. GateInv /\ [Next]_vars => GateInv'
  BY TypeNext, IdleNext, ThrottleNext, RefusalNext, EntryNext DEF GateInv
<1>3. QED
  BY <1>1, <1>2, RefinesInit, NextRefines, PTL DEF Spec, ImplementsSignOff, SignOff!Spec
=============================================================================
