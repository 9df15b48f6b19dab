----------------------- MODULE CheckpointStoreProofs -----------------------
(***************************************************************************)
(* Theorems about CheckpointStore, for any ids, owners, states and ttl.      *)
(***************************************************************************)
EXTENDS CheckpointStore, TLAPS

\* The record a successful Set leaves in the table.
Row(o, s) == [owner |-> o, state |-> s, expires |-> now + TTL]

-----------------------------------------------------------------------------
\* Types.

LEMMA TypeInit == Init => TypeOK
  BY DEF Init, TypeOK, Empty

LEMMA TypeSet ==
  ASSUME TypeOK, NEW id \in Ids, NEW o \in Owners, NEW s \in States, Set(id, o, s)
  PROVE  TypeOK'
<1> USE TimeAssumption
<1>1. now' = now /\ owners' = owners /\ now \in Nat /\ now + TTL \in 0 .. now + TTL
  BY DEF Set, TypeOK
<1>2. DOMAIN items' \subseteq Ids
      /\ \A k \in DOMAIN items' : items'[k] \in [state : States, expires : 0 .. now' + TTL]
  BY <1>1 DEF Set, Put, TypeOK
<1>3. DOMAIN rows' \subseteq Ids
      /\ \A k \in DOMAIN rows' :
            rows'[k] \in [owner : Complete, state : States, expires : 0 .. now' + TTL]
  <2>1. CASE o \notin Complete
    BY <1>1, <2>1 DEF Set, Upsert, TypeOK
  <2>2. CASE o \in Complete
    <3>1. (IF id \in DOMAIN rows THEN rows[id].owner ELSE o) \in Complete
      BY <2>2 DEF TypeOK
    <3>2. QED
      BY <1>1, <2>2, <3>1 DEF Set, Upsert, Put, TypeOK
  <2>3. QED
    BY <2>1, <2>2
<1>4. users' \in [Ids -> SUBSET Owners] /\ lost' \in SUBSET Ids
  BY DEF Set, Uses, TypeOK
<1>5. QED
  BY <1>1, <1>2, <1>3, <1>4 DEF TypeOK

LEMMA TypeSetFails ==
  ASSUME TypeOK, NEW id \in Ids, NEW o \in Owners, NEW s \in States, SetFails(id, o, s)
  PROVE  TypeOK'
<1> USE TimeAssumption
<1>1. now \in Nat /\ now + TTL \in 0 .. now + TTL
  BY DEF TypeOK
<1>2. DOMAIN items' \subseteq Ids
      /\ \A k \in DOMAIN items' : items'[k] \in [state : States, expires : 0 .. now + TTL]
  BY <1>1 DEF SetFails, Put, TypeOK
<1>3. users' \in [Ids -> SUBSET Owners] /\ lost' \in SUBSET Ids
  BY DEF SetFails, Uses, TypeOK
<1>4. QED
  BY <1>1, <1>2, <1>3 DEF SetFails, TypeOK

LEMMA TypeNext == TypeOK /\ [Next]_vars => TypeOK'
<1> SUFFICES ASSUME TypeOK, [Next]_vars PROVE TypeOK'
  OBVIOUS
<1> USE TimeAssumption
<1>1. ASSUME NEW id \in Ids, NEW o \in Owners, BindOwner(id, o) PROVE TypeOK'
  BY <1>1 DEF BindOwner, Put, Uses, TypeOK
<1>2. ASSUME NEW id \in Ids, NEW o \in Owners, Delete(id, o) \/ DeleteFails(id, o)
      PROVE  TypeOK'
  <2>1. users' \in [Ids -> SUBSET Owners]
    BY <1>2 DEF Delete, DeleteFails, Uses, TypeOK
  <2>2. QED
    BY <1>2, <2>1 DEF Delete, DeleteFails, Without, TypeOK
<1>3. ASSUME NEW id \in Ids, NEW o \in Owners, NEW s \in States,
             Set(id, o, s) \/ SetFails(id, o, s)
      PROVE  TypeOK'
  BY <1>3, TypeSet, TypeSetFails
<1>4. ASSUME NEW id \in Ids, Get(id) PROVE TypeOK'
  BY <1>4 DEF Get, Without, TypeOK
<1>5. CASE Restart
  <2>1. DOMAIN items \subseteq Ids
    BY DEF TypeOK
  <2>2. QED
    BY <1>5, <2>1 DEF Restart, Empty, TypeOK
<1>6. CASE Tick
  <2>1. now' = now + 1 /\ now' \in Nat /\ 0 .. now + TTL \subseteq 0 .. now' + TTL
    BY <1>6 DEF Tick, TypeOK
  <2>2. QED
    BY <1>6, <2>1 DEF Tick, TypeOK
<1>7. CASE UNCHANGED vars
  BY <1>7 DEF vars, TypeOK
<1>8. QED
  BY <1>1, <1>2, <1>3, <1>4, <1>5, <1>6, <1>7 DEF Next

\* Both stores keep their types through any sequence of calls: no row belongs to
\* an incomplete owner, no expiry is later than a ttl from now.
THEOREM StoreTypeCorrect == Spec => []TypeOK
<1>1. QED
  BY TypeInit, TypeNext, PTL DEF Spec

-----------------------------------------------------------------------------
\* Ownership of rows.

LEMMA RowStep ==
  ASSUME TypeOK, [Next]_vars, NEW k \in DOMAIN rows
  PROVE  \/ k \in DOMAIN rows' /\ rows'[k].owner = rows[k].owner
         \/ k \notin DOMAIN rows' /\ Delete(k, rows[k].owner)
<1>1. ASSUME NEW id \in Ids, NEW o \in Owners, NEW s \in States, Set(id, o, s)
      PROVE  k \in DOMAIN rows' /\ rows'[k].owner = rows[k].owner
  BY <1>1 DEF Set, Upsert, Put
<1>2. ASSUME NEW id \in Ids, NEW o \in Owners, Delete(id, o)
      PROVE  \/ k \in DOMAIN rows' /\ rows'[k].owner = rows[k].owner
             \/ k \notin DOMAIN rows' /\ Delete(k, rows[k].owner)
  <2>1. CASE o \in Complete /\ id \in DOMAIN rows /\ rows[id].owner = o /\ k = id
    BY <1>2, <2>1 DEF Delete, Without
  <2>2. CASE ~(o \in Complete /\ id \in DOMAIN rows /\ rows[id].owner = o /\ k = id)
    BY <1>2, <2>2 DEF Delete, Without
  <2>3. QED
    BY <2>1, <2>2
<1>3. ASSUME NEW id \in Ids, NEW o \in Owners, BindOwner(id, o) PROVE rows' = rows
  BY <1>3 DEF BindOwner
<1>4. ASSUME NEW id \in Ids, Get(id) PROVE rows' = rows
  BY <1>4 DEF Get
<1>5. /\ \A id \in Ids, o \in Owners, s \in States : SetFails(id, o, s) => rows' = rows
      /\ \A id \in Ids, o \in Owners : DeleteFails(id, o) => rows' = rows
      /\ Restart \/ Tick \/ UNCHANGED vars => rows' = rows
  BY DEF SetFails, DeleteFails, Restart, Tick, vars
<1>6. QED
  BY <1>1, <1>2, <1>3, <1>4, <1>5 DEF Next

\* A durable checkpoint stays with the owner who inserted it until that owner
\* deletes it.
THEOREM RowsKeepTheirOwner == Spec => OnlyOwnerEndsRow
<1>1. TypeOK /\ [Next]_vars
        => [\A id \in DOMAIN rows :
              \/ id \in DOMAIN rows' /\ rows'[id].owner = rows[id].owner
              \/ id \notin DOMAIN rows' /\ Delete(id, rows[id].owner)]_vars
  BY RowStep
<1>2. QED
  BY <1>1, StoreTypeCorrect, PTL DEF Spec, OnlyOwnerEndsRow

-----------------------------------------------------------------------------
\* The two stores agree for an id's only user.

\* What only one user wrote is the same in both places, unless the memory store
\* lost it; what the memory store forgot is gone, or past its expiry.
AgreeAt(id) ==
    /\ id \in DOMAIN rows => rows[id].owner \in users[id]
    /\ id \in DOMAIN items => users[id] # {}
    /\ \A o \in Complete :
          (users[id] = {o} /\ id \notin lost) =>
             /\ id \in DOMAIN items =>
                   /\ id \in DOMAIN rows
                   /\ rows[id].state = items[id].state
                   /\ rows[id].expires = items[id].expires
             /\ id \in DOMAIN rows \ DOMAIN items => rows[id].expires < now

AgreeInv == \A id \in Ids : AgreeAt(id)

LEMMA AgreeNext == TypeOK /\ AgreeInv /\ [Next]_vars => AgreeInv'
<1> SUFFICES ASSUME TypeOK, AgreeInv, [Next]_vars PROVE AgreeInv'
  OBVIOUS
<1> USE TimeAssumption, OwnerAssumption
<1>1. ASSUME NEW id \in Ids, NEW o \in Owners, BindOwner(id, o) PROVE AgreeInv'
  BY <1>1 DEF BindOwner, Uses, TypeOK, AgreeAt, AgreeInv
<1>2. ASSUME NEW id \in Ids, NEW o \in Owners, Delete(id, o) PROVE AgreeInv'
  <2>1. ASSUME NEW k \in Ids, k # id
        PROVE  /\ k \in DOMAIN items' <=> k \in DOMAIN items
               /\ k \in DOMAIN items => items'[k] = items[k]
               /\ k \in DOMAIN rows' <=> k \in DOMAIN rows
               /\ k \in DOMAIN rows => rows'[k] = rows[k]
               /\ users'[k] = users[k]
    BY <1>2, <2>1 DEF Delete, Without, Uses, TypeOK
  <2>2. id \notin DOMAIN items' /\ users'[id] = users[id] \cup {o}
    BY <1>2 DEF Delete, Without, Uses, TypeOK
  <2>3. id \in DOMAIN rows' =>
           id \in DOMAIN rows /\ rows'[id] = rows[id] /\ ~(o \in Complete /\ rows[id].owner = o)
    BY <1>2 DEF Delete, Without
  <2>4. ASSUME NEW k \in Ids, k # id PROVE AgreeAt(k)'
    BY <1>2, <2>1, <2>4 DEF AgreeAt, AgreeInv, Delete
  <2>5. AgreeAt(id)'
    BY <1>2, <2>2, <2>3 DEF AgreeAt, AgreeInv, Delete
  <2>6. QED
    BY <2>4, <2>5 DEF AgreeInv
<1>3. ASSUME NEW id \in Ids, NEW o \in Owners, NEW s \in States, Set(id, o, s)
      PROVE  AgreeInv'
  BY <1>3 DEF Set, Upsert, Put, Uses, TypeOK, AgreeAt, AgreeInv
<1>4. ASSUME NEW id \in Ids, Get(id) PROVE AgreeInv'
  BY <1>4 DEF Get, MemoryHolds, Without, TypeOK, AgreeAt, AgreeInv
<1>5. CASE Restart
  BY <1>5 DEF Restart, Empty, TypeOK, AgreeAt, AgreeInv
<1>6. CASE Tick
  BY <1>6 DEF Tick, TypeOK, AgreeAt, AgreeInv
<1>7. CASE UNCHANGED vars
  BY <1>7 DEF vars, AgreeAt, AgreeInv
<1>8. ASSUME NEW id \in Ids, NEW o \in Owners, NEW s \in States,
             SetFails(id, o, s)
      PROVE  AgreeInv'
  BY <1>8 DEF SetFails, Put, Uses, TypeOK, AgreeAt, AgreeInv
<1>9. ASSUME NEW id \in Ids, NEW o \in Owners, DeleteFails(id, o) PROVE AgreeInv'
  BY <1>9 DEF DeleteFails, Without, Uses, TypeOK, AgreeAt, AgreeInv
<1>10. QED
  BY <1>1, <1>2, <1>3, <1>4, <1>5, <1>6, <1>7, <1>8, <1>9 DEF Next

LEMMA AgreeImplies == TypeOK /\ AgreeInv => SoleUserReadsTheSame
<1> SUFFICES ASSUME TypeOK, AgreeInv, NEW id \in Ids, NEW o \in Complete,
                    users[id] = {o}, id \notin lost,
                    id \in DOMAIN items => now # items[id].expires
             PROVE  MemoryGet(id) = PostgresGet(id, o)
  BY DEF SoleUserReadsTheSame
<1>1. id \in DOMAIN rows => rows[id].owner = o
  BY DEF AgreeAt, AgreeInv
<1>2. CASE id \in DOMAIN items
  <2>1. id \in DOMAIN rows /\ rows[id].state = items[id].state
        /\ rows[id].expires = items[id].expires
    BY <1>2 DEF AgreeAt, AgreeInv
  <2>2. now \in Nat /\ items[id].expires \in Nat
    BY <1>2, TimeAssumption DEF TypeOK
  <2>3. QED
    BY <1>1, <1>2, <2>1, <2>2 DEF MemoryGet, PostgresGet, MemoryHolds, RowLive
<1>3. CASE id \notin DOMAIN items
  <2>1. id \in DOMAIN rows => rows[id].expires < now
    BY <1>3 DEF AgreeAt, AgreeInv
  <2>2. id \in DOMAIN rows => rows[id].expires \in Nat /\ now \in Nat
    BY TimeAssumption DEF TypeOK
  <2>3. QED
    BY <1>3, <2>1, <2>2 DEF MemoryGet, PostgresGet, MemoryHolds, RowLive
<1>4. QED
  BY <1>2, <1>3

\* For an id with one complete user the memory store answers Get as the durable
\* store does, except at the instant of expiry and after a restart or a failed
\* statement.
THEOREM StoresAgree == Spec => []SoleUserReadsTheSame
<1>1. Init => AgreeInv
  BY DEF Init, Empty, AgreeAt, AgreeInv
<1>2. QED
  BY <1>1, AgreeNext, AgreeImplies, StoreTypeCorrect, PTL DEF Spec
=============================================================================
