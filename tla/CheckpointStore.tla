-------------------------- MODULE CheckpointStore --------------------------
(***************************************************************************)
(* The two checkpoint stores of checkpoint.go, driven by the same calls:    *)
(* MemoryCheckpointStore, the local-development fallback that "has the same  *)
(* ownership contract as the durable store", and PostgresCheckpointStore.    *)
(*                                                                         *)
(* A call is one step: the memory store runs under its mutex and each call   *)
(* of the durable one is a single SQL statement, which may fail.  The memory *)
(* store dies with its process.  Nothing in the repository sets consumed_at, so it is NULL.  *)
(***************************************************************************)
EXTENDS Integers

CONSTANTS
    Ids,       \* checkpoint ids
    Owners,    \* CheckpointOwner values, those without an actor or agent too
    Complete,  \* the owners CheckpointOwnerFromContext accepts
    States,    \* serialised agent states
    Nothing,   \* what Get returns when it finds nothing
    TTL,       \* the stores' ttl
    MaxTime    \* bound on the clock, for model checking only

ASSUME OwnerAssumption == Complete \subseteq Owners /\ Nothing \notin States

ASSUME TimeAssumption == TTL \in Nat \ {0} /\ MaxTime \in Nat

VARIABLES
    now,     \* the clock of the process and of the database
    items,   \* MemoryCheckpointStore.items: id -> state and expiry
    owners,  \* MemoryCheckpointStore.owners: id -> owner
    rows,    \* the table agent_checkpoints: id -> owner, state and expiry
    users,   \* history: who has called BindOwner, Set or Delete for the id
    lost     \* history: ids the stores differ in, by a restart or a failed statement

vars == <<now, items, owners, rows, users, lost>>

Put(f, x, v) == [y \in DOMAIN f \cup {x} |-> IF y = x THEN v ELSE f[y]]

Without(f, x) == [y \in DOMAIN f \ {x} |-> f[y]]

Empty == [id \in {} |-> Nothing]

Init ==
    /\ now = 0
    /\ items = Empty
    /\ owners = Empty
    /\ rows = Empty
    /\ users = [id \in Ids |-> {}]
    /\ lost = {}

-----------------------------------------------------------------------------
\* What the queries of the two stores answer.

\* time.Now().After(expiresAt) is an expired item: the last instant counts.
MemoryHolds(id) == id \in DOMAIN items /\ now <= items[id].expires

\* expires_at > now() is a live row: the last instant does not count.
RowLive(id, o) == id \in DOMAIN rows /\ rows[id].owner = o /\ now < rows[id].expires

MemoryGet(id) == IF MemoryHolds(id) THEN items[id].state ELSE Nothing

PostgresGet(id, o) == IF o \in Complete /\ RowLive(id, o) THEN rows[id].state ELSE Nothing

MemoryOwnerMatches(id, o) == id \in DOMAIN owners /\ owners[id] = o

PostgresOwnerMatches(id, o) == RowLive(id, o)

-----------------------------------------------------------------------------
\* The calls, with o the owner in the context or in the argument.

Uses(id, o) == users' = [users EXCEPT ![id] = @ \cup {o}]

BindOwner(id, o) ==
    /\ owners' = Put(owners, id, o)
    /\ Uses(id, o)
    /\ UNCHANGED <<now, items, rows, lost>>

\* Mutant: a conflicting insert keeps the first expiry.
Upsert_KeepsExpiry(id, o, s) ==
    IF o \notin Complete
    THEN UNCHANGED rows
    ELSE rows' = Put(rows, id,
                     IF id \in DOMAIN rows
                     THEN [rows[id] EXCEPT !.state = s]
                     ELSE [owner |-> o, state |-> s, expires |-> now + TTL])

\* Mutant: the context's owner is not looked at.
Upsert_AnyOwner(id, o, s) ==
    rows' = Put(rows, id,
                [owner |-> IF id \in DOMAIN rows THEN rows[id].owner ELSE o,
                 state |-> s, expires |-> now + TTL])

\* Mutant: a conflicting insert takes the checkpoint over.
Upsert_TakesOver(id, o, s) ==
    IF o \notin Complete
    THEN UNCHANGED rows
    ELSE rows' = Put(rows, id, [owner |-> o, state |-> s, expires |-> now + TTL])

\* INSERT ... ON CONFLICT (checkpoint_id) DO UPDATE leaves the owner columns.
Upsert(id, o, s) ==
    IF o \notin Complete
    THEN UNCHANGED rows
    ELSE rows' = Put(rows, id,
                     [owner |-> IF id \in DOMAIN rows THEN rows[id].owner ELSE o,
                      state |-> s, expires |-> now + TTL])

Set(id, o, s) ==
    /\ items' = Put(items, id, [state |-> s, expires |-> now + TTL])
    /\ Upsert(id, o, s)
    /\ Uses(id, o)
    /\ lost' = lost \ {id}
    /\ UNCHANGED <<now, owners>>

\* Exec returns an error: no row is written.  (A statement whose answer alone was
\* lost is Set.)
SetFails(id, o, s) ==
    /\ o \in Complete
    /\ items' = Put(items, id, [state |-> s, expires |-> now + TTL])
    /\ Uses(id, o)
    /\ lost' = lost \cup {id}
    /\ UNCHANGED <<now, owners, rows>>

\* A miss in the memory store forgets the id and its owner.
Get(id) ==
    /\ ~MemoryHolds(id)
    /\ items' = Without(items, id)
    /\ owners' = Without(owners, id)
    /\ UNCHANGED <<now, rows, users, lost>>

Delete(id, o) ==
    /\ items' = Without(items, id)
    /\ owners' = Without(owners, id)
    /\ rows' = IF o \in Complete /\ id \in DOMAIN rows /\ rows[id].owner = o
               THEN Without(rows, id) ELSE rows
    /\ Uses(id, o)
    /\ UNCHANGED <<now, lost>>

\* Exec returns an error: no row is deleted.
DeleteFails(id, o) ==
    /\ o \in Complete
    /\ items' = Without(items, id)
    /\ owners' = Without(owners, id)
    /\ Uses(id, o)
    /\ lost' = lost \cup {id}
    /\ UNCHANGED <<now, rows>>

\* The process that holds the memory store is restarted.
Restart ==
    /\ lost' = lost \cup DOMAIN items
    /\ items' = Empty
    /\ owners' = Empty
    /\ UNCHANGED <<now, rows, users>>

Tick ==
    /\ now < MaxTime
    /\ now' = now + 1
    /\ UNCHANGED <<items, owners, rows, users, lost>>

Next ==
    \/ \E id \in Ids, o \in Owners :
          \/ BindOwner(id, o)
          \/ Delete(id, o) \/ DeleteFails(id, o)
          \/ \E s \in States : Set(id, o, s) \/ SetFails(id, o, s)
    \/ \E id \in Ids : Get(id)
    \/ Restart
    \/ Tick

Spec == Init /\ [][Next]_vars

-----------------------------------------------------------------------------
\* Properties

\* Everything has its type; rows belong to complete owners, and both stores'
\* expiries lie within a TTL of now.
TypeOK ==
    /\ now \in Nat
    /\ DOMAIN items \subseteq Ids
    /\ \A id \in DOMAIN items : items[id] \in [state : States, expires : 0 .. now + TTL]
    /\ DOMAIN owners \subseteq Ids
    /\ \A id \in DOMAIN owners : owners[id] \in Owners
    /\ DOMAIN rows \subseteq Ids
    /\ \A id \in DOMAIN rows :
          rows[id] \in [owner : Complete, state : States, expires : 0 .. now + TTL]
    /\ users \in [Ids -> SUBSET Owners]
    /\ lost \in SUBSET Ids

\* Only its own owner ends a durable checkpoint: whoever else calls Set or
\* Delete, in whatever context, the row stays with the owner who inserted it,
\* even after it expired (checkpoint.go:135-162).
OnlyOwnerEndsRow ==
    [][\A id \in DOMAIN rows :
          \/ id \in DOMAIN rows' /\ rows'[id].owner = rows[id].owner
          \/ id \notin DOMAIN rows' /\ Delete(id, rows[id].owner)]_vars

\* An id that one complete owner alone has used reads the same from the two
\* stores, except at the instant of its expiry (After against expires_at > now())
\* and from a restart or a failed statement until the next Set that succeeds.
SoleUserReadsTheSame ==
    \A id \in Ids, o \in Complete :
       (/\ users[id] = {o}
        /\ id \notin lost
        /\ id \in DOMAIN items => now # items[id].expires)
          => MemoryGet(id) = PostgresGet(id, o)

\* checkpoint.go:40-41 "It has the same ownership contract as the durable
\* store": who may resume from the memory store, because OwnerMatches and Get
\* both succeed for him, may do so from the durable one.
SameOwnershipContract ==
    \A id \in Ids, o \in Complete :
       (/\ MemoryOwnerMatches(id, o) /\ MemoryHolds(id)
        /\ id \notin lost /\ now # items[id].expires)
          => PostgresOwnerMatches(id, o)
=============================================================================
