---------------------------- MODULE SignOffGate ----------------------------
(***************************************************************************)
(* What the policy layer promises about human sign-off, with no word about  *)
(* how: a call is asked for, may be put to a human, and is then cleared to  *)
(* run or closed.  A call that must be signed off is only ever cleared      *)
(* while its actor is within Cooldown of a prompt, and a call the human     *)
(* refused is never cleared.                                                *)
(***************************************************************************)
EXTENDS Naturals

CONSTANTS Calls, Actors, Cooldown

VARIABLES
    now,         \* the clock, 1 or more: 0 is "never"
    lastPrompt,  \* per actor, when a human was last asked on its behalf
    status,      \* per call
    who,         \* per call, the actor it runs for
    must,        \* per call, whether it needs sign-off as things stand
    refused      \* per call, whether the human said no

vars == <<now, lastPrompt, status, who, must, refused>>

Status == {"idle", "pending", "awaiting", "cleared", "closed"}

TypeOK ==
    /\ now \in Nat \ {0}
    /\ lastPrompt \in [Actors -> Nat]
    /\ status \in [Calls -> Status]
    /\ who \in [Calls -> Actors]
    /\ must \in [Calls -> BOOLEAN]
    /\ refused \in [Calls -> BOOLEAN]

Init ==
    /\ now = 1
    /\ lastPrompt = [a \in Actors |-> 0]
    /\ status = [c \in Calls |-> "idle"]
    /\ who \in [Calls -> Actors]
    /\ must \in [Calls -> BOOLEAN]
    /\ refused = [c \in Calls |-> FALSE]

RecentlyPrompted(a) == lastPrompt[a] # 0 /\ now - lastPrompt[a] < Cooldown

Move(c, from, to) == status[c] = from /\ status' = [status EXCEPT ![c] = to]

Ask(c) ==
    /\ Move(c, "idle", "pending")
    /\ \E a \in Actors : who' = [who EXCEPT ![c] = a]
    /\ \E b \in BOOLEAN : must' = [must EXCEPT ![c] = b]
    /\ UNCHANGED <<now, lastPrompt, refused>>

Prompt(c) ==
    /\ Move(c, "pending", "awaiting")
    /\ lastPrompt' = [lastPrompt EXCEPT ![who[c]] = now]
    /\ UNCHANGED <<now, who, must, refused>>

Answer(c) ==
    /\ Move(c, "awaiting", "pending")
    /\ \E no \in BOOLEAN : refused' = [refused EXCEPT ![c] = no]
    /\ \E b \in BOOLEAN : must' = [must EXCEPT ![c] = b]
    /\ UNCHANGED <<now, lastPrompt, who>>

Clear(c) ==
    /\ ~refused[c]
    /\ must[c] => RecentlyPrompted(who[c])
    /\ Move(c, "pending", "cleared")
    /\ UNCHANGED <<now, lastPrompt, who, must, refused>>

Close(c) ==
    /\ Move(c, "pending", "closed") \/ Move(c, "cleared", "closed")
    /\ UNCHANGED <<now, lastPrompt, who, must, refused>>

Tick ==
    /\ now' = now + 1
    /\ UNCHANGED <<lastPrompt, status, who, must, refused>>

Next ==
    \/ \E c \in Calls : Ask(c) \/ Prompt(c) \/ Answer(c) \/ Clear(c) \/ Close(c)
    \/ Tick

Spec == Init /\ [][Next]_vars
=============================================================================
