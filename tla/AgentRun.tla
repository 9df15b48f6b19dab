------------------------------ MODULE AgentRun ------------------------------
(***************************************************************************)
(* One agent run: the model issues turns of tool calls, the calls of a turn   *)
(* run in parallel, and their results reach the stream through a queue.  The  *)
(* tools are the two of the connector, a delegation to a sibling, and any     *)
(* other; the billing middleware is around those it is configured for.  The   *)
(* runner (Eino), the model, the sidecar, the sibling and the balance are     *)
(* external: they appear as the outcomes the code can see.                   *)
(***************************************************************************)
EXTENDS Integers, Sequences

CONSTANTS
    MaxCalls,     \* bound: calls of a run, issued in the order 1 .. MaxCalls
    Billed,       \* the kinds in the billing middleware's Config.Tools
    Balances,     \* initial balances
    MaxOthers     \* bound: charges by other requests of the same actor

Calls == 1 .. MaxCalls
Kinds == {"find", "execute", "delegate", "other"}

\* "Do NOT re-bill here": the sidecar bills an execution.
ASSUME BilledAssumption == Billed \subseteq Kinds \ {"execute"}
ASSUME BoundsAssumption ==
    /\ MaxCalls \in Nat
    /\ MaxOthers \in Nat
    /\ Balances \subseteq Nat

NoGuidance == 0

VARIABLES
    runPc,      \* "none", "model", "tools", "finished" or "failed"
    issued,     \* calls 1 .. issued were issued
    call,       \* the state of each call
    balance,    \* the actor's balance, kept by plano-usage
    others,     \* charges by other requests so far
    queue,      \* GuidanceCollector: the calls whose guidance waits
    events,     \* results on their way to the stream
    shown       \* call -> the call whose guidance its result was shown with

runVars == <<runPc, issued, call, balance, others, queue, events, shown>>

CallPcs == {"idle", "check", "invoke", "sidecar", "record", "report", "answered", "errored"}

(***************************************************************************)
(* What is known of a call.  checked is the balance CheckBalance saw, of the   *)
(* middleware or of the sidecar; served says that its work was done, also when *)
(* nobody heard; guided that it queued guidance; content is what it returned to *)
(* the model; charged counts the charges for it.                             *)
(***************************************************************************)
IdleCall ==
    [ pc |-> "idle", kind |-> "other", turn |-> 0, checked |-> 0,
      served |-> FALSE, guided |-> FALSE, content |-> "none",
      charged |-> 0 ]

Contents == {"none", "result", "failure", "unreadable"}

CallStates ==
    [ pc : CallPcs, kind : Kinds, turn : Calls \cup {0}, checked : Int,
      served : BOOLEAN, guided : BOOLEAN, content : Contents, charged : Nat ]

RunTypeOK ==
    /\ runPc \in {"none", "model", "tools", "finished", "failed"}
    /\ issued \in 0 .. MaxCalls
    /\ call \in [Calls -> CallStates]
    /\ balance \in Int
    /\ others \in 0 .. MaxOthers
    /\ queue \in Seq(Calls)
    /\ events \in Seq(Calls)
    /\ shown \in [Calls -> Calls \cup {NoGuidance}]

RunInit ==
    /\ runPc = "none"
    /\ issued = 0
    /\ call = [c \in Calls |-> IdleCall]
    /\ balance \in Balances
    /\ others = 0
    /\ queue = <<>>
    /\ events = <<>>
    /\ shown = [c \in Calls |-> NoGuidance]

-----------------------------------------------------------------------------
(***************************************************************************)
(* The runner.                                                              *)
(***************************************************************************)
Ended(c) == call[c].pc \in {"answered", "errored"}
Issued == 1 .. issued

StartRun ==
    /\ runPc = "none"
    /\ runPc' = "model"
    /\ UNCHANGED <<issued, call, balance, others, queue, events, shown>>

\* WrapInvokableToolCall: billing is in front of the tools it is configured for.
FirstStep(kind) == IF kind \in Billed THEN "check" ELSE "invoke"

\* A turn: the next calls, whatever the model asks for, all at once.
IssueTurn ==
    /\ runPc = "model"
    /\ \E size \in 1 .. MaxCalls - issued :
          \E kinds \in [issued + 1 .. issued + size -> Kinds] :
             /\ issued' = issued + size
             /\ call' = [c \in Calls |->
                   IF c \in DOMAIN kinds
                   THEN [IdleCall EXCEPT !.pc = FirstStep(kinds[c]),
                                         !.kind = kinds[c], !.turn = issued + 1]
                   ELSE call[c]]
    /\ runPc' = "tools"
    /\ UNCHANGED <<balance, others, queue, events, shown>>

\* The runner waits for every call of the turn; a Go error ends the run.
EndTurn ==
    /\ runPc = "tools"
    /\ \A c \in Issued : Ended(c)
    /\ runPc' = IF \E c \in Issued : call[c].pc = "errored" THEN "failed" ELSE "model"
    /\ UNCHANGED <<issued, call, balance, others, queue, events, shown>>

\* The model's final message, or its failure.
EndRun ==
    /\ runPc = "model"
    /\ runPc' \in {"finished", "failed"}
    /\ UNCHANGED <<issued, call, balance, others, queue, events, shown>>

-----------------------------------------------------------------------------
(***************************************************************************)
(* Billing, around a tool.                                                  *)
(***************************************************************************)
\* Mutant: an empty balance passes.
CheckBalance_Empty(c) ==
    /\ call[c].pc = "check"
    /\ balance >= 0
    /\ call' = [call EXCEPT ![c].pc = "invoke", ![c].checked = balance]
    /\ UNCHANGED <<runPc, issued, balance, others, queue, events, shown>>

\* Any error ends the call: no balance, or nobody to ask.
CheckBalance(c) ==
    /\ call[c].pc = "check"
    /\ \E next \in {"invoke", "errored"} :
          /\ next = "invoke" => balance > 0
          /\ call' = [call EXCEPT ![c].pc = next, ![c].checked = balance]
    /\ UNCHANGED <<runPc, issued, balance, others, queue, events, shown>>

\* What follows when the tool returned without a Go error.
NextStep(c) == IF call[c].kind \in Billed THEN "record" ELSE "report"

Record(c) ==
    /\ call[c].pc = "record"
    /\ balance' = balance - 1
    /\ call' = [call EXCEPT ![c].pc = "report", ![c].charged = @ + 1]
    /\ UNCHANGED <<runPc, issued, others, queue, events, shown>>

\* Another session of the actor, or a sibling it delegated to.
OtherCharge ==
    /\ runPc # "none"
    /\ others < MaxOthers
    /\ others' = others + 1
    /\ balance' = balance - 1
    /\ UNCHANGED <<runPc, issued, call, queue, events, shown>>

-----------------------------------------------------------------------------
(***************************************************************************)
(* The tools.                                                               *)
(***************************************************************************)
\* Arguments that do not parse, a blank query, tool or request, no user: a Go
\* error before anything is sent.
BadArguments(c) ==
    /\ call[c].pc = "invoke"
    /\ call' = [call EXCEPT ![c].pc = "errored"]
    /\ UNCHANGED <<runPc, issued, balance, others, queue, events, shown>>

\* Mutant: an empty guidance is queued.
Push_Empty(c, guided) == Append(queue, IF guided THEN c ELSE NoGuidance)

\* GuidanceCollector.Push: nothing is queued for an empty guidance.
Push(c, guided) == IF guided THEN Append(queue, c) ELSE queue

\* connector_find_tools: a failed search is a Go error. The answer may lack
\* guidance, or have been cut off and be unreadable altogether.
Find(c) ==
    /\ call[c].pc = "invoke"
    /\ call[c].kind = "find"
    /\ \/ /\ call' = [call EXCEPT ![c].pc = "errored"]
          /\ UNCHANGED queue
       \/ \E guided \in BOOLEAN, content \in {"result", "unreadable"} :
             /\ guided => content = "result"
             /\ call' = [call EXCEPT ![c].pc = NextStep(c), ![c].served = TRUE,
                                     ![c].guided = guided, ![c].content = content]
             /\ queue' = Push(c, guided)
    /\ UNCHANGED <<runPc, issued, balance, others, events, shown>>

\* POST /tools/execute. The sidecar refuses (402 and other errors), or finds a
\* balance and begins. Every failure is returned as content, with the advice to
\* retry.
Execute(c) ==
    /\ call[c].pc = "invoke"
    /\ call[c].kind = "execute"
    /\ \/ call' = [call EXCEPT ![c].pc = NextStep(c), ![c].content = "failure"]
       \/ /\ balance > 0
          /\ call' = [call EXCEPT ![c].pc = "sidecar", ![c].checked = balance]
    /\ UNCHANGED <<runPc, issued, balance, others, queue, events, shown>>

\* The action fails; or it is done and the sidecar charges for it, and then its
\* answer arrives, or not (a timeout, a connection that broke).
Perform(c) ==
    /\ call[c].pc = "sidecar"
    /\ \/ /\ call' = [call EXCEPT ![c].pc = NextStep(c), ![c].content = "failure"]
          /\ UNCHANGED balance
       \/ /\ balance' = balance - 1
          /\ \E lost \in BOOLEAN :
                call' = [call EXCEPT ![c].pc = NextStep(c), ![c].served = TRUE,
                                     ![c].charged = @ + 1,
                                     ![c].content = IF lost THEN "failure" ELSE "result"]
    /\ UNCHANGED <<runPc, issued, others, queue, events, shown>>

\* HTTPDelegateTool: whatever happened to the sibling, no Go error. The sibling
\* may have done its work and the answer be lost.
Delegate(c) ==
    /\ call[c].pc = "invoke"
    /\ call[c].kind = "delegate"
    /\ \E served, lost \in BOOLEAN :
          call' = [call EXCEPT ![c].pc = NextStep(c), ![c].served = served,
                               ![c].content = IF served /\ ~lost THEN "result" ELSE "failure"]
    /\ UNCHANGED <<runPc, issued, balance, others, queue, events, shown>>

\* Mutant: the charge is recorded before the error is looked at.
OtherTool_Charged(c) ==
    /\ call[c].pc = "invoke"
    /\ call[c].kind = "other"
    /\ \E served \in BOOLEAN :
          call' = [call EXCEPT ![c].pc = NextStep(c), ![c].served = served]
    /\ UNCHANGED <<runPc, issued, balance, others, queue, events, shown>>

\* Any other tool: a result or a Go error.
OtherTool(c) ==
    /\ call[c].pc = "invoke"
    /\ call[c].kind = "other"
    /\ \E served \in BOOLEAN :
          call' = [call EXCEPT ![c].pc = IF served THEN NextStep(c) ELSE "errored",
                               ![c].served = served,
                               ![c].content = IF served THEN "result" ELSE "none"]
    /\ UNCHANGED <<runPc, issued, balance, others, queue, events, shown>>

\* The result goes to the runner, and to the stream.
Report(c) ==
    /\ call[c].pc = "report"
    /\ call' = [call EXCEPT ![c].pc = "answered"]
    /\ events' = Append(events, c)
    /\ UNCHANGED <<runPc, issued, balance, others, queue, shown>>

CallStep(c) ==
    \/ CheckBalance(c) \/ BadArguments(c) \/ Find(c) \/ Execute(c) \/ Perform(c)
    \/ Delegate(c) \/ OtherTool(c) \/ Record(c) \/ Report(c)

RunnerStep == IssueTurn \/ EndTurn \/ EndRun
-----------------------------------------------------------------------------
(***************************************************************************)
(* The stream's end of the queue.                                           *)
(***************************************************************************)
\* Mutant: every result takes a guidance.
Pops_Always(c) == queue # <<>>

\* GuidanceCollector.Pop is called for the result of a find only.
Pops(c) == call[c].kind = "find" /\ queue # <<>>

\* MergeGuidance: what cannot be read is shown as it is.
MergeGuidance(c, guidance) ==
    IF call[c].content = "result" THEN guidance ELSE NoGuidance

\* The oldest result is taken, and the oldest guidance merged into it.
TakeEvent ==
    /\ events # <<>>
    /\ LET c == Head(events)
       IN  /\ shown' = [shown EXCEPT ![c] =
                           IF Pops(c) THEN MergeGuidance(c, Head(queue)) ELSE NoGuidance]
           /\ queue' = IF Pops(c) THEN Tail(queue) ELSE queue
    /\ events' = Tail(events)
    /\ UNCHANGED <<runPc, issued, call, balance, others>>

-----------------------------------------------------------------------------
Taken(c) == call[c].pc = "answered" /\ \A i \in DOMAIN events : events[i] # c

IsFind(c) == c \in Issued /\ call[c].kind = "find"
OwnGuidance(c) == IF call[c].guided THEN c ELSE NoGuidance

\* The result of a search is shown with another search's guidance, or without its
\* own, only if two searches ran in one turn, or if a search up to this one had
\* no guidance: nothing is queued for it, and the stream may be a turn behind
\* (GuidanceCollector, whose comment knows the first case only).
GuidanceIsOwn ==
    \A c \in Calls :
        IsFind(c) /\ Taken(c) /\ shown[c] # OwnGuidance(c) =>
            \/ \E a, b \in 1 .. issued :
                  /\ a # b /\ IsFind(a) /\ IsFind(b)
                  /\ call[a].turn = call[b].turn /\ call[a].turn <= call[c].turn
            \/ \E a \in 1 .. c : IsFind(a) /\ call[a].pc = "answered" /\ ~call[a].guided

\* A call overdraws the balance only if somebody else was charged between its
\* CheckBalance and its Record, those of the middleware or those of the sidecar
\* (WrapInvokableToolCall, connector_execute).
OverdrawnOnlyIfRaced ==
    [][balance' < balance /\ balance' < 0 =>
          \/ others' # others
          \/ \E c \in Calls : /\ call'[c].charged # call[c].charged
                              /\ balance < call[c].checked]_runVars

\* A call is charged at most once, by the middleware or by the sidecar, never when
\* it ends in a Go error, and for work that was not done only if a delegation
\* reported its failure as content (WrapInvokableToolCall, InvokableRun).
ChargedForWork ==
    \A c \in Calls :
        /\ call[c].charged <= 1
        /\ call[c].charged = 1 =>
              /\ call[c].pc # "errored"
              /\ call[c].served \/ (call[c].kind = "delegate" /\ call[c].content = "failure")
=============================================================================
