------------------------- MODULE LocalBackendProofs -------------------------
(***************************************************************************)
(* Theorems about LocalBackend, for any number of goroutines and files, any   *)
(* sizes, any limits and any ttl.                                            *)
(***************************************************************************)
EXTENDS LocalBackend, SetLemmas, TLAPS

Jobs == [op : Operations, file : Files, size : Sizes \cup {0}]
FileInfo == [size : Sizes \cup {0}, mtime : 0 .. now]

\* Between Lock and the end of Write.
Inside == {"measure", "truncate", "fill"}

LEMMA Constants ==
  /\ Sizes \subseteq Nat /\ TTL \in Nat /\ MaxTime \in Nat
  /\ SomeFile \in Files /\ Cleaner \in Runners /\ Procs \subseteq Runners
  /\ Nobody \notin Runners
  BY NameAssumption, NumberAssumption DEF SomeFile, Runners

-----------------------------------------------------------------------------
\* Types.

LEMMA NoJobIsAJob == NoJob \in Jobs
  BY Constants DEF NoJob, Jobs, Operations

LEMMA TypeInit == Init => TypeOK
  BY Constants, NoJobIsAJob DEF Init, TypeOK, Labels, Jobs

\* The types, with names for the record sets.
LEMMA Typed ==
  ASSUME TypeOK, NEW p \in Runners
  PROVE  /\ now \in Nat /\ now \in 0 .. now /\ 0 \in 0 .. now
         /\ DOMAIN disk \subseteq Files /\ tracked \subseteq Files
         /\ \A f \in DOMAIN disk : disk[f] \in FileInfo
         /\ pc \in [Runners -> Labels] /\ job \in [Runners -> Jobs]
         /\ todo \in [Runners -> SUBSET Files] /\ cur \in [Runners -> Files]
         /\ since \in [Runners -> 0 .. now] /\ old \in [Runners -> Sizes \cup {0}]
         /\ job[p] \in Jobs /\ job[p].file \in Files /\ job[p].size \in Sizes \cup {0}
         /\ NoJob \in Jobs
         /\ mu \in Runners \cup {Nobody}
         /\ \A q \in Runners : mu = q <=> pc[q] \in Inside
  BY NoJobIsAJob DEF TypeOK, Jobs, FileInfo, Inside

\* The types after a step at which the clock stands still.
LocalTypes ==
  /\ pc \in [Runners -> Labels] /\ job \in [Runners -> Jobs]
  /\ todo \in [Runners -> SUBSET Files] /\ cur \in [Runners -> Files]
  /\ since \in [Runners -> 0 .. now] /\ old \in [Runners -> Sizes \cup {0}]

DiskTypes ==
  /\ DOMAIN disk \subseteq Files /\ tracked \subseteq Files
  /\ \A f \in DOMAIN disk : disk[f] \in FileInfo

LockTypes ==
  mu \in Runners \cup {Nobody} /\ \A q \in Runners : mu = q <=> pc[q] \in Inside

LEMMA TypesAfter ==
  ASSUME now' = now, now \in Nat, LocalTypes', DiskTypes', LockTypes'
  PROVE  TypeOK'
  BY DEF LocalTypes, DiskTypes, LockTypes, TypeOK, Jobs, FileInfo, Inside

LEMMA FinishTypes ==
  ASSUME TypeOK, now' = now, NEW p \in Runners, Finish(p)
  PROVE  LocalTypes'
  BY Constants, Typed DEF Finish, LocalTypes, Labels

\* Who was not inside and is not, leaves the mutex as it is.
LEMMA LockKept ==
  ASSUME TypeOK, NEW p \in Runners, NEW l \in Labels \ Inside, pc[p] \notin Inside,
         mu' = mu, pc' = [pc EXCEPT ![p] = l]
  PROVE  LockTypes'
  BY Typed DEF LockTypes

\* Who leaves the inside releases the mutex, which nobody else holds.
LEMMA LockReleased ==
  ASSUME TypeOK, NEW p \in Runners, NEW l \in Labels \ Inside, pc[p] \in Inside,
         mu' = Nobody, pc' = [pc EXCEPT ![p] = l]
  PROVE  LockTypes'
  BY Constants, Typed DEF LockTypes

LEMMA TypeBegin ==
  ASSUME TypeOK, NEW p \in Runners, NEW j \in Jobs, NEW to \in Labels \ Inside,
         NEW files \in SUBSET Files, Begin(p, j, to, files)
  PROVE  TypeOK'
<1> USE Typed
<1>1. LocalTypes' /\ DiskTypes'
  BY DEF Begin, Goto, LocalTypes, DiskTypes, FileInfo
<1>2. LockTypes'
  BY LockKept DEF Begin, Goto, Inside
<1>3. QED
  BY <1>1, <1>2, TypesAfter DEF Begin

LEMMA TypeStart ==
  ASSUME TypeOK, NEW p \in Runners,
         Start(p) \/ (p = Cleaner /\ StartCleanup)
  PROVE  TypeOK'
<1> USE Typed, Constants, TypeBegin DEF Jobs, Operations, Labels, Inside
<1>1. CASE StartRead(p)
  BY <1>1 DEF StartRead
<1>2. CASE StartList(p)
  BY <1>2 DEF StartList
<1>3. CASE StartWrite(p)
  BY <1>3 DEF StartWrite
<1>4. CASE StartEdit(p)
  BY <1>4 DEF StartEdit
<1>5. CASE p = Cleaner /\ StartCleanup
  BY <1>5 DEF StartCleanup
<1>6. QED
  BY <1>1, <1>2, <1>3, <1>4, <1>5 DEF Start

LEMMA TypeWalk ==
  ASSUME TypeOK, NEW p \in Runners,
         \/ CheckFile(p) \/ Unlink(p) \/ UnlinkFails(p) \/ Untrack(p) \/ EndWalk(p)
         \/ Fetch(p) \/ Sweep(p)
  PROVE  TypeOK'
<1> USE Typed, Constants
<1>1. CASE CheckFile(p)
  <2>1. PICK f \in todo[p] :
          /\ todo' = [todo EXCEPT ![p] = @ \ {f}]
          /\ \/ /\ pc' = [pc EXCEPT ![p] = "unlink"]
                /\ cur' = [cur EXCEPT ![p] = f]
                /\ since' = [since EXCEPT ![p] = now]
             \/ /\ since' = IF job[p].op = "read" THEN [since EXCEPT ![p] = now] ELSE since
                /\ UNCHANGED <<pc, cur>>
    BY <1>1 DEF CheckFile
  <2>2. f \in Files /\ pc[p] = "walk" /\ now' = now /\ UNCHANGED <<disk, tracked, mu, job, old>>
    BY <1>1 DEF CheckFile
  <2>3. todo' \in [Runners -> SUBSET Files] /\ since' \in [Runners -> 0 .. now]
    BY <2>1, <2>2
  <2>4. LocalTypes' /\ DiskTypes'
    BY <2>1, <2>2, <2>3 DEF LocalTypes, DiskTypes, FileInfo, Labels
  <2>5. LockTypes'
    BY <2>1, <2>2, LockKept DEF LockTypes, Labels, Inside
  <2>6. QED
    BY <2>2, <2>4, <2>5, TypesAfter
<1>2. CASE Unlink(p) \/ UnlinkFails(p)
  <2>1. LocalTypes' /\ DiskTypes'
    BY <1>2 DEF Unlink, UnlinkFails, Goto, Without, LocalTypes, DiskTypes, FileInfo, Labels
  <2>2. LockTypes'
    BY <1>2, LockKept DEF Unlink, UnlinkFails, Goto, Labels, Inside
  <2>3. QED
    BY <1>2, <2>1, <2>2, TypesAfter DEF Unlink, UnlinkFails
<1>3. CASE Untrack(p)
  <2>1. DiskTypes' /\ now' = now /\ mu' = mu /\ pc[p] = "untrack"
    BY <1>3 DEF Untrack, DiskTypes, FileInfo
  <2>2. CASE Finish(p)
    BY <2>1, <2>2, FinishTypes, LockKept, TypesAfter DEF Finish, Labels, Inside
  <2>3. CASE /\ pc' = [pc EXCEPT ![p] = "walk"]
             /\ cur' = [cur EXCEPT ![p] = SomeFile]
             /\ since' = [since EXCEPT ![p] = 0]
             /\ UNCHANGED <<job, todo, old>>
    <3>1. LocalTypes'
      BY <2>1, <2>3 DEF LocalTypes, Labels
    <3>2. QED
      BY <2>1, <2>3, <3>1, LockKept, TypesAfter DEF Labels, Inside
  <2>4. QED
    BY <1>3, <2>2, <2>3 DEF Untrack
<1>4. CASE EndWalk(p)
  <2>1. DiskTypes' /\ now' = now /\ mu' = mu /\ pc[p] = "walk"
    BY <1>4 DEF EndWalk, DiskTypes, FileInfo
  <2>2. CASE Finish(p)
    BY <2>1, <2>2, FinishTypes, LockKept, TypesAfter DEF Finish, Labels, Inside
  <2>3. CASE ~Finish(p)
    <3>1. PICK l \in {"fetch", "sweep", "lock"} :
            pc' = [pc EXCEPT ![p] = l] /\ UNCHANGED <<job, todo, cur, since, old>>
      BY <1>4, <2>3 DEF EndWalk
    <3>2. LocalTypes'
      BY <2>1, <3>1 DEF LocalTypes, Labels
    <3>3. QED
      BY <2>1, <3>1, <3>2, LockKept, TypesAfter DEF Labels, Inside
  <2>4. QED
    BY <2>2, <2>3
<1>5. CASE Fetch(p)
  <2>1. DiskTypes' /\ now' = now /\ mu' = mu /\ pc[p] = "fetch"
    BY <1>5 DEF Fetch, DiskTypes, FileInfo
  <2>2. CASE Finish(p)
    BY <2>1, <2>2, FinishTypes, LockKept, TypesAfter DEF Finish, Labels, Inside
  <2>3. CASE /\ pc' = [pc EXCEPT ![p] = "walk"]
             /\ job' = [job EXCEPT ![p].op = "write"]
             /\ todo' = [todo EXCEPT ![p] = DOMAIN disk]
             /\ UNCHANGED <<cur, since, old>>
    <3>1. job' \in [Runners -> Jobs] /\ todo' \in [Runners -> SUBSET Files]
      BY <2>3 DEF Jobs, Operations
    <3>2. LocalTypes'
      BY <2>1, <2>3, <3>1 DEF LocalTypes, Labels
    <3>3. QED
      BY <2>1, <2>3, <3>2, LockKept, TypesAfter DEF Labels, Inside
  <2>4. QED
    BY <1>5, <2>2, <2>3 DEF Fetch
<1>6. CASE Sweep(p)
  <2>1. DiskTypes' /\ now' = now /\ mu' = mu /\ pc[p] = "sweep" /\ Finish(p)
    BY <1>6 DEF Sweep, DiskTypes, FileInfo
  <2>2. QED
    BY <2>1, FinishTypes, LockKept, TypesAfter DEF Finish, Labels, Inside
<1>7. QED
  BY <1>1, <1>2, <1>3, <1>4, <1>5, <1>6

LEMMA TypeLocked ==
  ASSUME TypeOK, NEW p \in Runners,
         LockAndStat(p) \/ Measure(p) \/ Truncate(p) \/ Fill(p) \/ WriteFails(p)
  PROVE  TypeOK'
<1> USE Typed, Constants
<1>1. CASE LockAndStat(p)
  <2>1. old' \in [Runners -> Sizes \cup {0}]
    BY <1>1 DEF LockAndStat, FileInfo
  <2>2. LocalTypes' /\ DiskTypes'
    BY <1>1, <2>1 DEF LockAndStat, Goto, LocalTypes, DiskTypes, FileInfo, Labels
  <2>3. LockTypes'
    BY <1>1 DEF LockAndStat, Goto, LockTypes, Inside
  <2>4. QED
    BY <1>1, <2>2, <2>3, TypesAfter DEF LockAndStat
<1>2. CASE Measure(p)
  <2>1. DiskTypes' /\ now' = now /\ pc[p] = "measure"
    BY <1>2 DEF Measure, DiskTypes, FileInfo
  <2>2. CASE mu' = Nobody /\ Finish(p)
    BY <2>1, <2>2, FinishTypes, LockReleased, TypesAfter DEF Finish, Labels, Inside
  <2>3. CASE pc' = [pc EXCEPT ![p] = "truncate"] /\ UNCHANGED <<mu, job, todo, cur, since, old>>
    <3>1. LocalTypes' /\ LockTypes'
      BY <2>1, <2>3 DEF LocalTypes, LockTypes, Labels, Inside
    <3>2. QED
      BY <2>1, <3>1, TypesAfter
  <2>4. QED
    BY <1>2, <2>2, <2>3 DEF Measure
<1>3. CASE Truncate(p)
  <2>1. [size |-> 0, mtime |-> now] \in FileInfo
    BY DEF FileInfo
  <2>2. DiskTypes'
    BY <1>3, <2>1 DEF Truncate, Put, DiskTypes, FileInfo
  <2>3. LocalTypes' /\ LockTypes'
    BY <1>3 DEF Truncate, Goto, LocalTypes, LockTypes, Labels, Inside
  <2>4. QED
    BY <1>3, <2>2, <2>3, TypesAfter DEF Truncate
<1>4. CASE Fill(p)
  <2>1. [size |-> job[p].size, mtime |-> now] \in FileInfo
    BY DEF FileInfo
  <2>2. DiskTypes'
    BY <1>4, <2>1 DEF Fill, DiskTypes, FileInfo
  <2>3. LocalTypes' /\ LockTypes'
    BY <1>4, FinishTypes, LockReleased DEF Fill, Finish, Labels, Inside
  <2>4. QED
    BY <1>4, <2>2, <2>3, TypesAfter DEF Fill
<1>5. CASE WriteFails(p)
  <2>1. DiskTypes' /\ now' = now
    BY <1>5 DEF WriteFails, DiskTypes, FileInfo
  <2>2. LocalTypes' /\ LockTypes'
    BY <1>5, FinishTypes, LockReleased DEF WriteFails, Finish, Labels, Inside
  <2>3. QED
    BY <2>1, <2>2, TypesAfter
<1>6. QED
  BY <1>1, <1>2, <1>3, <1>4, <1>5

LEMMA TypeTick == ASSUME TypeOK, Tick PROVE TypeOK'
<1>1. now \in Nat /\ now' = now + 1 /\ now' \in Nat /\ \A n \in 0 .. now : n \in 0 .. now'
  BY DEF Tick, TypeOK
<1>2. since' \in [Runners -> 0 .. now']
  BY <1>1 DEF Tick, TypeOK
<1>3. \A f \in DOMAIN disk' : disk'[f] \in [size : Sizes \cup {0}, mtime : 0 .. now']
  BY <1>1 DEF Tick, TypeOK
<1>4. QED
  BY <1>1, <1>2, <1>3 DEF Tick, TypeOK

LEMMA TypeNext == TypeOK /\ [Next]_vars => TypeOK'
<1> SUFFICES ASSUME TypeOK, [Next]_vars PROVE TypeOK'
  OBVIOUS
<1>1. CASE (\E p \in Procs : Start(p)) \/ StartCleanup
  BY <1>1, TypeStart, Constants
<1>2. ASSUME NEW p \in Runners, Waits(p) \/ Moves(p) PROVE TypeOK'
  BY <1>2, TypeWalk, TypeLocked DEF Waits, Moves
<1>3. CASE Restart
  BY <1>3, Constants, NoJobIsAJob DEF Restart, TypeOK, Jobs, Labels
<1>4. CASE UNCHANGED vars
  BY <1>4 DEF vars, TypeOK
<1>5. QED
  BY <1>1, <1>2, <1>3, <1>4, TypeTick DEF Next

\* The backend keeps its types, and Backend.mu is held by exactly the goroutine
\* that is between Lock and the end of Write: Writes exclude each other.
THEOREM LocalTypeCorrect == Spec => []TypeOK
<1>1. QED
  BY TypeInit, TypeNext, PTL DEF Spec

-----------------------------------------------------------------------------
(***************************************************************************)
(* Ages.  expireIfNeeded acts on an age it looked at before.  Since then the  *)
(* file has stayed as it was, or was written, and then it is younger than the *)
(* look.  Aged says so of the file a goroutine is about to remove, and of the *)
(* file a Read is about to open.                                             *)
(***************************************************************************)
Locals(p) == <<pc[p], job[p], todo[p], cur[p], since[p]>>

Condemned(p) ==
  pc[p] = "unlink" /\ cur[p] \in DOMAIN disk
     => Overdue(cur[p]) \/ disk[cur[p]].mtime >= since[p]

Cleared(p) ==
  TTL > 0 /\ job[p].op = "read"
     => /\ pc[p] = "walk" => todo[p] \subseteq {job[p].file}
        /\ (pc[p] = "fetch" \/ (pc[p] = "walk" /\ todo[p] = {})) /\ job[p].file \in DOMAIN disk
              => disk[job[p].file].mtime + TTL > since[p]

Aged == \A p \in Runners : Condemned(p) /\ Cleared(p)

\* A file is as it was, or has just been written.
Younger ==
  \A f \in DOMAIN disk' :
     (f \in DOMAIN disk /\ disk'[f] = disk[f]) \/ disk'[f].mtime = now

LEMMA NextYounger == ASSUME TypeOK, [Next]_vars PROVE Younger
<1> USE Constants DEF Younger
<1>1. ASSUME NEW p \in Runners, Unlink(p) \/ Truncate(p) \/ Fill(p) PROVE Younger
  <2>1. job[p].file \in Files
    BY Typed
  <2>2. QED
    BY <1>1, <2>1 DEF Unlink, Truncate, Fill, Without, Put
<1>2. ASSUME NEW p \in Runners,
             \/ Start(p) \/ Waits(p) \/ CheckFile(p) \/ EndWalk(p) \/ Fetch(p) \/ Measure(p)
             \/ UnlinkFails(p) \/ WriteFails(p)
      PROVE  disk' = disk
  BY <1>2 DEF UnlinkFails, Start, StartRead, StartList, StartWrite, StartEdit, Begin, Waits, LockAndStat,
              Untrack, Sweep, CheckFile, EndWalk, Fetch, Measure, WriteFails
<1>3. StartCleanup \/ Restart \/ Tick \/ UNCHANGED vars => disk' = disk
  BY DEF StartCleanup, Begin, Restart, Tick, vars
<1>4. QED
  BY <1>1, <1>2, <1>3 DEF Next, Moves

\* Goroutines that do not move are told nothing wrong by what the others do.
LEMMA AgedAside ==
  ASSUME TypeOK, Aged, Younger, now' \in Nat, now <= now',
         NEW p \in Runners, Locals(p)' = Locals(p)
  PROVE  (Condemned(p) /\ Cleared(p))'
<1> USE Typed, Constants
<1>1. now \in Nat /\ TTL \in Nat /\ since[p] \in 0 .. now /\ since'[p] = since[p]
  BY DEF Locals
<1>2. \A f \in DOMAIN disk : disk[f].mtime \in Nat
  BY DEF FileInfo
<1>3. Condemned(p)'
  <2>1. SUFFICES ASSUME pc[p] = "unlink", cur[p] \in DOMAIN disk'
                 PROVE  Overdue(cur[p])' \/ disk'[cur[p]].mtime >= since[p]
    BY DEF Condemned, Locals, Overdue
  <2>2. CASE disk'[cur[p]].mtime = now
    BY <1>1, <2>2
  <2>3. CASE cur[p] \in DOMAIN disk /\ disk'[cur[p]] = disk[cur[p]]
    BY <1>1, <1>2, <2>1, <2>3 DEF Aged, Condemned, Overdue, Locals
  <2>4. QED
    BY <2>1, <2>2, <2>3 DEF Younger
<1>4. Cleared(p)'
  <2>1. SUFFICES ASSUME TTL > 0, job[p].op = "read", job[p].file \in DOMAIN disk',
                        pc[p] = "fetch" \/ (pc[p] = "walk" /\ todo[p] = {})
                 PROVE  disk'[job[p].file].mtime + TTL > since[p]
    BY DEF Aged, Cleared, Locals
  <2>2. CASE disk'[job[p].file].mtime = now
    BY <1>1, <2>1, <2>2
  <2>3. CASE job[p].file \in DOMAIN disk /\ disk'[job[p].file] = disk[job[p].file]
    BY <2>1, <2>3 DEF Aged, Cleared
  <2>4. QED
    BY <2>1, <2>2, <2>3 DEF Younger
<1>5. QED
  BY <1>3, <1>4

\* A goroutine that moves knows of the file it looked at what it needs to.
LEMMA AgedMover ==
  ASSUME TypeOK, Aged, NEW p \in Runners,
         \/ Start(p) \/ (p = Cleaner /\ StartCleanup) \/ Waits(p) \/ Moves(p)
  PROVE  (Condemned(p) /\ Cleared(p))'
<1> USE Typed, Constants
<1>1. CASE Start(p) \/ (p = Cleaner /\ StartCleanup)
  <2>1. PICK j \in Jobs, to \in {"walk", "fetch"}, files \in SUBSET Files :
          Begin(p, j, to, files) /\ (j.op = "read" => to = "walk" /\ files = {j.file})
    <3>1. \A f \in Files, s \in Sizes \cup {0}, o \in Operations :
            /\ [op |-> o, file |-> f, size |-> s] \in Jobs
            /\ [op |-> o, file |-> f, size |-> s].op = o
            /\ [op |-> o, file |-> f, size |-> s].file = f
      BY DEF Jobs
    <3>2. {"read", "list", "write", "edit", "clean"} \subseteq Operations
      BY DEF Operations
    <3>3. CASE StartRead(p)
      BY <3>1, <3>2, <3>3 DEF StartRead
    <3>4. CASE StartList(p)
      BY <3>1, <3>2, <3>4 DEF StartList
    <3>5. CASE StartWrite(p)
      BY <3>1, <3>2, <3>5 DEF StartWrite
    <3>6. CASE StartEdit(p)
      BY <3>1, <3>2, <3>6 DEF StartEdit
    <3>7. CASE p = Cleaner /\ StartCleanup
      <4>1. Begin(p, [op |-> "clean", file |-> SomeFile, size |-> 0], "walk", DOMAIN disk)
        BY <3>7 DEF StartCleanup
      <4> DEFINE j == [op |-> "clean", file |-> SomeFile, size |-> 0]
      <4>2. j \in Jobs /\ j.op # "read" /\ DOMAIN disk \in SUBSET Files
        BY <3>1, <3>2
      <4> HIDE DEF j
      <4>3. Begin(p, j, "walk", DOMAIN disk)
        BY <4>1 DEF j
      <4>4. QED
        BY <4>2, <4>3
    <3>8. QED
      BY <1>1, <3>3, <3>4, <3>5, <3>6, <3>7 DEF Start
  <2>2. pc'[p] = to /\ job'[p] = j /\ todo'[p] = files
    BY <2>1 DEF Begin, Goto
  <2>3. Condemned(p)'
    BY <2>2 DEF Condemned
  <2>4. Cleared(p)'
    BY <2>1, <2>2 DEF Cleared
  <2>5. QED
    BY <2>3, <2>4
<1>2. CASE Finish(p)
  BY <1>2 DEF Finish, NoJob, Condemned, Cleared
<1>3. CASE CheckFile(p)
  <2>1. PICK f \in todo[p] :
          /\ todo' = [todo EXCEPT ![p] = @ \ {f}]
          /\ \/ /\ ExpiredAt(f)
                /\ pc' = [pc EXCEPT ![p] = "unlink"]
                /\ cur' = [cur EXCEPT ![p] = f]
                /\ since' = [since EXCEPT ![p] = now]
             \/ /\ ~ExpiredAt(f)
                /\ since' = IF job[p].op = "read" THEN [since EXCEPT ![p] = now] ELSE since
                /\ UNCHANGED <<pc, cur>>
    BY <1>3 DEF CheckFile
  <2>2. /\ pc[p] = "walk" /\ now' = now /\ UNCHANGED <<disk, job>>
        /\ \A g \in DOMAIN disk : disk[g].mtime \in Nat
    BY <1>3 DEF CheckFile, FileInfo
  <2>3. Condemned(p)'
    BY <2>1, <2>2 DEF Condemned, ExpiredAt, Overdue
  <2>4. Cleared(p)'
    BY <2>1, <2>2 DEF Aged, Cleared, ExpiredAt
  <2>5. QED
    BY <2>3, <2>4
<1>4. CASE EndWalk(p) /\ ~Finish(p)
  BY <1>4 DEF EndWalk, Aged, Condemned, Cleared
<1>5. CASE Fetch(p) /\ ~Finish(p)
  BY <1>5 DEF Fetch, Condemned, Cleared, Jobs
<1>6. CASE \/ (Untrack(p) /\ ~Finish(p)) \/ Unlink(p) \/ UnlinkFails(p) \/ LockAndStat(p)
           \/ Truncate(p) \/ Measure(p)
  <2>1. CASE Measure(p) /\ Finish(p)
    BY <1>2, <2>1
  <2>2. CASE \/ (Measure(p) /\ ~Finish(p)) \/ Unlink(p) \/ UnlinkFails(p) \/ LockAndStat(p)
             \/ Truncate(p)
    <3>1. pc'[p] \in {"truncate", "untrack", "measure", "fill"}
      BY <2>2 DEF Measure, Unlink, UnlinkFails, LockAndStat, Truncate, Goto
    <3>2. QED
      BY <3>1 DEF Condemned, Cleared
  <2>3. CASE Untrack(p) /\ ~Finish(p)
    <3>1. pc'[p] = "walk" /\ job'[p].op # "read"
      BY <2>3 DEF Untrack
    <3>2. QED
      BY <3>1 DEF Condemned, Cleared
  <2>4. QED
    BY <1>6, <2>1, <2>2, <2>3
<1>7. QED
  BY <1>1, <1>2, <1>3, <1>4, <1>5, <1>6 DEF Waits, Moves, Sweep, Fill, WriteFails

\* A step moves one goroutine and leaves the locals of the others alone.
LEMMA OneMoves ==
  ASSUME TypeOK, NEW p \in Runners, NEW q \in Runners \ {p},
         \/ Start(p) \/ (p = Cleaner /\ StartCleanup) \/ Waits(p) \/ Moves(p)
  PROVE  Locals(q)' = Locals(q) /\ now' = now
<1> USE Typed DEF Locals
<1>1. CASE Start(p) \/ (p = Cleaner /\ StartCleanup)
  BY <1>1 DEF Start, StartRead, StartList, StartWrite, StartEdit, StartCleanup, Begin, Goto
<1>2. CASE Waits(p)
  BY <1>2 DEF Waits, LockAndStat, Untrack, Sweep, Goto, Finish
<1>3. CASE CheckFile(p) \/ Unlink(p) \/ UnlinkFails(p) \/ EndWalk(p) \/ Fetch(p)
  BY <1>3 DEF CheckFile, Unlink, UnlinkFails, EndWalk, Fetch, Goto, Finish
<1>4. CASE Measure(p) \/ Truncate(p) \/ Fill(p) \/ WriteFails(p)
  BY <1>4 DEF Measure, Truncate, Fill, WriteFails, Goto, Finish
<1>5. QED
  BY <1>1, <1>2, <1>3, <1>4 DEF Moves

LEMMA AgedNext == TypeOK /\ Aged /\ [Next]_vars => Aged'
<1> SUFFICES ASSUME TypeOK, Aged, [Next]_vars PROVE Aged'
  OBVIOUS
<1> USE Constants
<1>0. Younger
  BY NextYounger
<1>1. ASSUME NEW p \in Runners,
             \/ Start(p) \/ (p = Cleaner /\ StartCleanup) \/ Waits(p) \/ Moves(p)
      PROVE  Aged'
  <2>1. (Condemned(p) /\ Cleared(p))'
    BY <1>1, AgedMover
  <2>2. ASSUME NEW q \in Runners \ {p} PROVE (Condemned(q) /\ Cleared(q))'
    <3>1. Locals(q)' = Locals(q) /\ now' = now
      BY <1>1, OneMoves
    <3>2. now \in Nat /\ now <= now
      BY DEF TypeOK
    <3>3. QED
      BY <1>0, <3>1, <3>2, AgedAside
  <2>3. QED
    BY <2>1, <2>2 DEF Aged
<1>2. CASE Restart
  BY <1>2 DEF Restart, NoJob, Aged, Condemned, Cleared
<1>3. CASE Tick \/ UNCHANGED vars
  <2>1. now' \in Nat /\ now <= now' /\ \A p \in Runners : Locals(p)' = Locals(p)
    BY <1>3 DEF Tick, vars, Locals, TypeOK
  <2>2. QED
    BY <1>0, <2>1, AgedAside DEF Aged
<1>4. QED
  BY <1>1, <1>2, <1>3 DEF Next

LEMMA AgedAlways == Spec => [](TypeOK /\ Aged)
<1>1. Init => Aged
  BY DEF Init, NoJob, Aged, Condemned, Cleared
<1>2. QED
  BY <1>1, TypeInit, TypeNext, AgedNext, PTL DEF Spec

\* A fresh file is removed only if it was written after expireIfNeeded looked at
\* its age: the race of the run local_backend_reap is the only way.
THEOREM LocalFreshReapedOnlyIfRaced == Spec => FreshReapedOnlyIfRaced
<1>1. TypeOK /\ Aged /\ [Next]_vars =>
        [\A p \in Runners :
           (Unlink(p) /\ cur[p] \in DOMAIN disk /\ ~Overdue(cur[p]))
              => disk[cur[p]].mtime >= since[p]]_vars
  BY DEF Aged, Condemned, Unlink, Goto
<1>2. QED
  BY <1>1, AgedAlways, PTL DEF Spec, FreshReapedOnlyIfRaced

\* Read serves only what had not expired when it looked, or was written since.
THEOREM LocalReadServesLive == Spec => ReadServesLive
<1>1. TypeOK /\ Aged /\ [Next]_vars =>
        [\A p \in Runners :
           (TTL > 0 /\ job[p].op = "read" /\ Fetch(p) /\ job[p].file \in DOMAIN disk)
              => disk[job[p].file].mtime + TTL > since[p]]_vars
  BY DEF Aged, Cleared, Fetch
<1>2. QED
  BY <1>1, AgedAlways, PTL DEF Spec, ReadServesLive

-----------------------------------------------------------------------------
(***************************************************************************)
(* The expiry map.  An entry outlives its file only until the goroutine that  *)
(* removed the file gets the mutex; a Write that is filling holds the mutex,  *)
(* so who removes its file meanwhile has yet to come back.                   *)
(***************************************************************************)
ToUntrack(f) == \E q \in Runners : pc[q] = "untrack" /\ cur[q] = f

Filling ==
  \A p \in Runners :
     pc[p] = "fill" /\ job[p].file \notin DOMAIN disk => ToUntrack(job[p].file)

MapSound == ExpiresTracksDisk /\ Filling

LEMMA MapMeans ==
  ASSUME MapSound, NEW f \in tracked, f \notin DOMAIN disk
  PROVE  ToUntrack(f)
  BY DEF MapSound, ExpiresTracksDisk, ToUntrack

LEMMA MapNext == TypeOK /\ MapSound /\ [Next]_vars => MapSound'
<1> SUFFICES ASSUME TypeOK, MapSound, [Next]_vars PROVE MapSound'
  OBVIOUS
<1> USE Typed, Constants
<1>1. ASSUME NEW p \in Runners,
             \/ Start(p) \/ (p = Cleaner /\ StartCleanup) \/ CheckFile(p) \/ EndWalk(p)
             \/ Fetch(p) \/ LockAndStat(p) \/ Measure(p) \/ WriteFails(p) \/ Sweep(p)
      PROVE  MapSound'
  <2>1. /\ disk' = disk /\ tracked' \subseteq tracked
        /\ tracked' = tracked \/ tracked' \subseteq DOMAIN disk
        /\ pc[p] # "untrack" /\ pc'[p] # "fill"
    BY <1>1 DEF Start, StartRead, StartList, StartWrite, StartEdit, StartCleanup, Begin, Goto,
                CheckFile, EndWalk, Fetch, LockAndStat, Measure, WriteFails, Sweep, Finish
  <2>2. \A q \in Runners \ {p} : Locals(q)' = Locals(q)
    BY <1>1, OneMoves DEF Waits, Moves
  <2>3. \A f : ToUntrack(f) => ToUntrack(f)'
    BY <2>1, <2>2 DEF ToUntrack, Locals
  <2>4. ExpiresTracksDisk'
    BY <2>1, <2>3, MapMeans DEF ExpiresTracksDisk, ToUntrack
  <2>5. Filling'
    BY <2>1, <2>2, <2>3 DEF MapSound, Filling, Locals
  <2>6. QED
    BY <2>4, <2>5 DEF MapSound
<1>2. ASSUME NEW p \in Runners, Unlink(p) \/ UnlinkFails(p) PROVE MapSound'
  <2>1. /\ tracked' = tracked /\ DOMAIN disk \ {cur[p]} \subseteq DOMAIN disk'
        /\ pc' = [pc EXCEPT ![p] = "untrack"] /\ job' = job /\ cur' = cur /\ pc[p] = "unlink"
    BY <1>2 DEF Unlink, UnlinkFails, Goto, Without
  <2>2. ToUntrack(cur[p])' /\ \A f : ToUntrack(f) => ToUntrack(f)'
    BY <2>1 DEF ToUntrack
  <2>3. ExpiresTracksDisk'
    BY <2>1, <2>2, MapMeans DEF ExpiresTracksDisk, ToUntrack
  <2>4. Filling'
    BY <2>1, <2>2 DEF MapSound, Filling
  <2>5. QED
    BY <2>3, <2>4 DEF MapSound
<1>3. ASSUME NEW p \in Runners, Untrack(p) PROVE MapSound'
  <2>1. /\ tracked' = tracked \ {cur[p]} /\ disk' = disk
        /\ pc[p] = "untrack" /\ mu = Nobody /\ pc'[p] \in {"idle", "walk"}
    BY <1>3 DEF Untrack, Finish
  <2>2. \A q \in Runners \ {p} : Locals(q)' = Locals(q)
    BY <1>3, OneMoves DEF Waits
  <2>3. \A f : ToUntrack(f) /\ f # cur[p] => ToUntrack(f)'
    BY <2>2 DEF ToUntrack, Locals
  <2>4. ExpiresTracksDisk'
    BY <2>1, <2>3, MapMeans DEF ExpiresTracksDisk, ToUntrack
  <2>5. \A q \in Runners : pc'[q] # "fill"
    BY <2>1, <2>2 DEF Locals, Inside
  <2>6. QED
    BY <2>4, <2>5 DEF MapSound, Filling
<1>4. ASSUME NEW p \in Runners, Truncate(p) PROVE MapSound'
  <2>1. /\ tracked' = tracked /\ DOMAIN disk' = DOMAIN disk \cup {job[p].file}
        /\ pc' = [pc EXCEPT ![p] = "fill"] /\ job' = job /\ cur' = cur /\ pc[p] = "truncate"
    BY <1>4 DEF Truncate, Goto, Put
  <2>2. \A f : ToUntrack(f) => ToUntrack(f)'
    BY <2>1 DEF ToUntrack
  <2>3. ExpiresTracksDisk'
    BY <2>1, <2>2, MapMeans DEF ExpiresTracksDisk, ToUntrack
  <2>4. Filling'
    BY <2>1, <2>2 DEF MapSound, Filling
  <2>5. QED
    BY <2>3, <2>4 DEF MapSound
<1>5. ASSUME NEW p \in Runners, Fill(p) PROVE MapSound'
  <2>1. /\ tracked' \subseteq tracked \cup {job[p].file} /\ DOMAIN disk' = DOMAIN disk
        /\ pc[p] = "fill" /\ pc'[p] = "idle"
    BY <1>5 DEF Fill, Finish
  <2>2. \A q \in Runners \ {p} : Locals(q)' = Locals(q)
    BY <1>5, OneMoves DEF Moves
  <2>3. \A f : ToUntrack(f) => ToUntrack(f)'
    BY <2>1, <2>2 DEF ToUntrack, Locals
  <2>4. \A f \in tracked' \ DOMAIN disk' : ToUntrack(f)
    BY <2>1, MapMeans DEF MapSound, Filling
  <2>5. QED
    BY <2>1, <2>2, <2>3, <2>4 DEF MapSound, Filling, ExpiresTracksDisk, ToUntrack, Locals
<1>6. CASE Restart
  BY <1>6 DEF Restart, MapSound, ExpiresTracksDisk, Filling
<1>7. CASE Tick \/ UNCHANGED vars
  BY <1>7 DEF Tick, vars, MapSound, ExpiresTracksDisk, Filling, ToUntrack
<1>8. QED
  BY <1>1, <1>2, <1>3, <1>4, <1>5, <1>6, <1>7 DEF Next, Waits, Moves

\* The expiry map does not leak: an entry of a file that is gone is about to be
\* deleted by the goroutine that removed the file.
THEOREM LocalExpiresTracksDisk == Spec => []ExpiresTracksDisk
<1>1. Init => MapSound
  BY DEF Init, MapSound, ExpiresTracksDisk, Filling
<1>2. MapSound => ExpiresTracksDisk
  BY DEF MapSound
<1>3. QED
  BY <1>1, <1>2, TypeInit, TypeNext, MapNext, PTL DEF Spec

-----------------------------------------------------------------------------
(***************************************************************************)
(* The quota.  A Write takes the size it found in place of its file off the   *)
(* sum it measures later.  Either that file is still as it was found, or it    *)
(* was reaped, and then the namespace had room for it before.  Both leave the   *)
(* sum below the limit, whichever of the old and the new content is larger.     *)
(***************************************************************************)
Limit == MaxTotal + MaxFile

Untouched(p) == job[p].file \in DOMAIN disk /\ disk[job[p].file].size = old[p]

Reaped(p) == job[p].file \notin DOMAIN disk /\ TotalBytes + old[p] < Limit

Room(p) ==
  /\ pc[p] = "fetch" \/ job[p].size <= MaxFile
  /\ pc[p] \in {"measure", "truncate"} => Untouched(p) \/ Reaped(p)
  /\ pc[p] = "truncate" => TotalBytes + job[p].size <= MaxTotal + old[p]
  /\ pc[p] = "fill" =>
       /\ TotalBytes + job[p].size < Limit
       /\ job[p].file \in DOMAIN disk => disk[job[p].file].size = 0

WithinLimit == TotalBytes < Limit /\ \A p \in Runners : Room(p)

Limits == MaxTotal > 0 /\ MaxFile > 0 /\ MaxTotal \in Nat /\ MaxFile \in Nat

\* What the steps below start from.
Measured == TypeOK /\ Limits /\ IsFiniteSet(DOMAIN disk) /\ WithinLimit

LEMMA DiskSizes ==
  ASSUME TypeOK, IsFiniteSet(DOMAIN disk)
  PROVE  /\ HasSizes(disk, DOMAIN disk)
         /\ TotalBytes \in Nat
         /\ \A p \in Runners : job[p].size \in Nat /\ old[p] \in Nat
<1>0. Cleaner \in Runners /\ Sizes \cup {0} \subseteq Nat
  BY Constants
<1>1. HasSizes(disk, DOMAIN disk)
  BY <1>0, Typed DEF HasSizes, FileInfo
<1>2. TotalBytes \in Nat
  BY <1>1, SumOfSplit DEF TotalBytes
<1>3. ASSUME NEW p \in Runners PROVE job[p].size \in Nat /\ old[p] \in Nat
  BY <1>0, Typed
<1>4. QED
  BY <1>1, <1>2, <1>3

\* Files go, or none does: the sum does not grow.
Fewer ==
  /\ DOMAIN disk' \subseteq DOMAIN disk
  /\ \A f \in DOMAIN disk' : disk'[f].size = disk[f].size

LEMMA FewerBytes ==
  ASSUME TypeOK, IsFiniteSet(DOMAIN disk), Fewer
  PROVE  /\ IsFiniteSet(DOMAIN disk')
         /\ TotalBytes' \in Nat /\ TotalBytes' <= TotalBytes
         /\ \A f \in DOMAIN disk \ DOMAIN disk' : TotalBytes' + disk[f].size <= TotalBytes
<1>1. HasSizes(disk, DOMAIN disk)
  BY DiskSizes
<1>2. /\ IsFiniteSet(DOMAIN disk')
      /\ SumOf(disk') = SumOver(disk, DOMAIN disk') /\ SumOf(disk') \in Nat
      /\ SumOf(disk') <= SumOf(disk)
  BY <1>1, SumOfFewer DEF Fewer
<1>3. ASSUME NEW f \in DOMAIN disk \ DOMAIN disk'
      PROVE  SumOf(disk') + disk[f].size <= SumOf(disk)
  <2> DEFINE rest == DOMAIN disk \ {f}
  <2>1. SumOf(disk) = SumOver(disk, rest) + disk[f].size
        /\ SumOver(disk, rest) \in Nat /\ disk[f].size \in Nat
    BY <1>1, SumOfSplit DEF HasSizes
  <2>2. IsFiniteSet(rest) /\ HasSizes(disk, rest) /\ DOMAIN disk' \subseteq rest
    BY <1>1, FS_Subset DEF HasSizes, Fewer
  <2>3. SumOver(disk, DOMAIN disk') <= SumOver(disk, rest)
    BY <2>2, SumOverLess
  <2>4. QED
    BY <1>2, <2>1, <2>3
<1>4. QED
  BY <1>2, <1>3 DEF TotalBytes

\* Whoever stands still has room as before.
LEMMA RoomAside ==
  ASSUME Measured, Fewer, NEW p \in Runners,
         pc'[p] = pc[p], job'[p] = job[p], old'[p] = old[p]
  PROVE  Room(p)'
<1>1. /\ TotalBytes \in Nat /\ TotalBytes' \in Nat /\ TotalBytes' <= TotalBytes
      /\ \A f \in DOMAIN disk \ DOMAIN disk' : TotalBytes' + disk[f].size <= TotalBytes
      /\ job[p].size \in Nat /\ old[p] \in Nat
      /\ Limit \in Nat /\ MaxTotal \in Nat /\ MaxFile \in Nat
  BY FewerBytes, DiskSizes DEF Measured, Limits, Limit
<1>2. Room(p) /\ TotalBytes < Limit
  BY DEF Measured, WithinLimit
<1>3. Untouched(p) \/ Reaped(p) => Untouched(p)' \/ Reaped(p)'
  BY <1>1, <1>2 DEF Untouched, Reaped, Fewer, Limit
<1>4. Limit' = Limit
  BY DEF Limit
<1>5. QED
  BY <1>1, <1>2, <1>3, <1>4 DEF Room, Fewer

\* Who is not inside needs room for no more than its content.
LEMMA RoomOutside ==
  ASSUME NEW p \in Runners, pc'[p] \notin Inside,
         pc'[p] = "fetch" \/ job'[p].size <= MaxFile
  PROVE  Room(p)'
  BY DEF Room, Inside

\* Contents are within the file limit from where Write checked them on.
LEMMA RoomWalks ==
  ASSUME Measured, NEW p \in Runners,
         \/ Start(p) \/ (p = Cleaner /\ StartCleanup) \/ CheckFile(p) \/ Unlink(p)
         \/ UnlinkFails(p) \/ Untrack(p) \/ EndWalk(p) \/ Fetch(p) \/ Sweep(p) \/ WriteFails(p)
  PROVE  Fewer /\ Room(p)'
<1> USE Constants, Typed DEF Measured, Limits
<1>0. 0 <= MaxFile /\ (pc[p] = "fetch" \/ job[p].size <= MaxFile)
  BY DEF WithinLimit, Room
<1>1. CASE Start(p) \/ (p = Cleaner /\ StartCleanup)
  <2>1. disk' = disk /\ pc'[p] \notin Inside /\ (pc'[p] = "fetch" \/ job'[p].size <= MaxFile)
    <3> USE <1>0 DEF Begin, Goto, Inside
    <3>1. CASE StartRead(p)
      BY <3>1 DEF StartRead
    <3>2. CASE StartList(p)
      BY <3>2 DEF StartList
    <3>3. CASE StartWrite(p)
      BY <3>3 DEF StartWrite
    <3>4. CASE StartEdit(p)
      BY <3>4 DEF StartEdit
    <3>5. CASE p = Cleaner /\ StartCleanup
      BY <3>5 DEF StartCleanup
    <3>6. QED
      BY <1>1, <3>1, <3>2, <3>3, <3>4, <3>5 DEF Start
  <2>2. QED
    BY <2>1, RoomOutside DEF Fewer
<1>2. ASSUME Finish(p) PROVE Room(p)'
  BY <1>0, <1>2, RoomOutside DEF Finish, NoJob, Inside
<1>3. CASE CheckFile(p)
  <2>1. pc'[p] \in {"walk", "unlink"} /\ pc[p] = "walk" /\ job' = job /\ disk' = disk
    BY <1>3 DEF CheckFile
  <2>2. QED
    BY <1>0, <2>1, RoomOutside DEF Fewer, Inside
<1>4. CASE Unlink(p) \/ UnlinkFails(p)
  <2>1. pc'[p] = "untrack" /\ pc[p] = "unlink" /\ job' = job /\ Fewer
    BY <1>4 DEF Unlink, UnlinkFails, Goto, Without, Fewer
  <2>2. QED
    BY <1>0, <2>1, RoomOutside DEF Inside
<1>5. CASE (Untrack(p) \/ EndWalk(p)) /\ ~Finish(p)
  <2>1. pc'[p] \notin Inside /\ pc[p] # "fetch" /\ job' = job /\ disk' = disk
    BY <1>5 DEF Untrack, EndWalk, Inside
  <2>2. QED
    BY <1>0, <2>1, RoomOutside DEF Fewer
<1>6. CASE Fetch(p) /\ ~Finish(p)
  <2>1. pc'[p] = "walk" /\ job'[p].size = job[p].size /\ disk' = disk /\ job[p].size <= MaxFile
    BY <1>6 DEF Fetch, Jobs
  <2>2. QED
    BY <2>1, RoomOutside DEF Fewer, Inside
<1>7. CASE Sweep(p) \/ WriteFails(p) \/ ((Untrack(p) \/ EndWalk(p) \/ Fetch(p)) /\ Finish(p))
  <2>1. Finish(p) /\ disk' = disk
    BY <1>7 DEF Sweep, WriteFails, Untrack, EndWalk, Fetch
  <2>2. QED
    BY <1>2, <2>1 DEF Fewer
<1>8. QED
  BY <1>1, <1>3, <1>4, <1>5, <1>6, <1>7

\* Write looks at the old file, and measures.
LEMMA RoomMeasures ==
  ASSUME Measured, NEW p \in Runners, LockAndStat(p) \/ Measure(p)
  PROVE  Fewer /\ Room(p)'
<1> USE Constants, Typed DEF Measured, Limits
<1>0. /\ TotalBytes \in Nat /\ Limit \in Nat /\ TotalBytes < Limit /\ Room(p)
      /\ job[p].size \in Nat /\ old[p] \in Nat
  BY DiskSizes DEF WithinLimit, Limit
<1>1. CASE LockAndStat(p)
  <2>1. /\ pc[p] = "lock" /\ pc'[p] = "measure" /\ UNCHANGED <<disk, job>>
        /\ old'[p] = IF job[p].file \in DOMAIN disk THEN disk[job[p].file].size ELSE 0
    BY <1>1 DEF LockAndStat, Goto
  <2>2. Untouched(p)' \/ Reaped(p)'
    BY <1>0, <2>1 DEF Untouched, Reaped, TotalBytes, Limit
  <2>3. QED
    BY <1>0, <2>1, <2>2 DEF Room, Fewer
<1>2. CASE Measure(p) /\ Finish(p)
  <2>1. pc'[p] = "idle" /\ job'[p].size = 0 /\ disk' = disk
    BY <1>2 DEF Measure, Finish, NoJob
  <2>2. QED
    BY <2>1, RoomOutside DEF Fewer, Inside
<1>3. CASE Measure(p) /\ ~Finish(p)
  <2>1. /\ pc[p] = "measure" /\ pc'[p] = "truncate" /\ UNCHANGED <<disk, job, old>>
        /\ TotalBytes + job[p].size <= MaxTotal + old[p]
    BY <1>0, <1>3 DEF Measure, OverQuota
  <2>2. TotalBytes' = TotalBytes /\ Untouched(p)' = Untouched(p) /\ Reaped(p)' = Reaped(p)
    BY <2>1 DEF TotalBytes, Untouched, Reaped, Limit
  <2>3. QED
    BY <1>0, <2>1, <2>2 DEF Room, Fewer
<1>4. QED
  BY <1>1, <1>2, <1>3

\* Write truncates, and fills.
LEMMA RoomWrites ==
  ASSUME Measured, NEW p \in Runners, Truncate(p) \/ Fill(p)
  PROVE  TotalBytes' < Limit /\ Room(p)'
<1> USE Constants, Typed DEF Measured, Limits
<1> DEFINE f == job[p].file
           rest == SumOver(disk, DOMAIN disk \ {f})
<1>0. /\ TotalBytes \in Nat /\ Limit \in Nat /\ TotalBytes < Limit /\ Room(p)
      /\ job[p].size \in Nat /\ old[p] \in Nat /\ Limit = MaxTotal + MaxFile
  BY DiskSizes DEF WithinLimit, Limit
<1>1. /\ HasSizes(disk, DOMAIN disk) /\ rest \in Nat
      /\ f \in DOMAIN disk => TotalBytes = rest + disk[f].size /\ disk[f].size \in Nat
  BY DiskSizes, SumOfSplit DEF TotalBytes, HasSizes
<1>2. f \notin DOMAIN disk => TotalBytes = rest
  <2>1. f \notin DOMAIN disk => DOMAIN disk \ {f} = DOMAIN disk
    OBVIOUS
  <2>2. QED
    BY <2>1 DEF TotalBytes, SumOf
<1> HIDE DEF rest
<1>3. CASE Truncate(p)
  <2>1. /\ pc[p] = "truncate" /\ pc'[p] = "fill" /\ job' = job
        /\ DOMAIN disk' = DOMAIN disk \cup {f} /\ disk'[f].size = 0
        /\ \A g \in DOMAIN disk \ {f} : disk'[g].size = disk[g].size
    BY <1>3 DEF Truncate, Goto, Put
  <2>2. IsFiniteSet(DOMAIN disk') /\ SumOf(disk') = rest + 0
    BY <1>1, <2>1, SumOfWritten DEF rest
  <2>3. TotalBytes' = rest
    BY <1>1, <2>2 DEF TotalBytes
  <2>4. rest + job[p].size < Limit
    <3>1. /\ TotalBytes + job[p].size <= MaxTotal + old[p] /\ job[p].size <= MaxFile
          /\ Untouched(p) \/ Reaped(p)
      BY <1>0, <2>1 DEF Room
    <3>2. CASE Untouched(p)
      BY <1>0, <1>1, <3>1, <3>2 DEF Untouched
    <3>3. CASE Reaped(p)
      BY <1>0, <1>1, <1>2, <3>1, <3>3 DEF Reaped
    <3>4. QED
      BY <3>1, <3>2, <3>3
  <2>5. rest < Limit
    BY <1>0, <1>1, <2>4
  <2>6. Limit' = Limit
    BY DEF Limit
  <2>7. QED
    BY <1>0, <2>1, <2>2, <2>3, <2>4, <2>5, <2>6 DEF Room
<1>4. CASE Fill(p)
  <2>1. pc'[p] = "idle" /\ job'[p].size = 0 /\ pc[p] = "fill"
    BY <1>4 DEF Fill, Finish, NoJob
  <2>2. Room(p)'
    BY <2>1, RoomOutside DEF Inside
  <2>3. /\ TotalBytes + job[p].size < Limit
        /\ f \in DOMAIN disk => disk[f].size = 0
    BY <1>0, <2>1 DEF Room
  <2>4. CASE f \notin DOMAIN disk
    <3>1. disk' = disk
      BY <1>4, <2>4 DEF Fill
    <3>2. QED
      BY <1>0, <2>2, <3>1 DEF TotalBytes
  <2>5. CASE f \in DOMAIN disk
    <3>1. /\ DOMAIN disk' = DOMAIN disk \cup {f} /\ disk'[f].size = job[p].size
          /\ \A g \in DOMAIN disk \ {f} : disk'[g].size = disk[g].size
      BY <1>4, <2>5 DEF Fill
    <3>2. IsFiniteSet(DOMAIN disk') /\ SumOf(disk') = rest + job[p].size
      BY <1>0, <1>1, <3>1, SumOfWritten DEF rest
    <3>3. QED
      BY <1>0, <1>1, <2>2, <2>3, <2>5, <3>2 DEF TotalBytes
  <2>6. QED
    BY <2>4, <2>5
<1>5. QED
  BY <1>3, <1>4

\* A step leaves the job and the measure of the others alone, too.
LEMMA OneWrites ==
  ASSUME TypeOK, NEW p \in Runners, NEW q \in Runners \ {p},
         \/ Start(p) \/ (p = Cleaner /\ StartCleanup) \/ Waits(p) \/ Moves(p)
  PROVE  pc'[q] = pc[q] /\ job'[q] = job[q] /\ old'[q] = old[q]
<1>1. pc'[q] = pc[q] /\ job'[q] = job[q]
  BY OneMoves DEF Locals
<1>2. old'[q] = old[q]
  BY Typed DEF Start, StartRead, StartList, StartWrite, StartEdit, StartCleanup, Begin,
               Waits, LockAndStat, Untrack, Sweep, Moves, CheckFile, Unlink, UnlinkFails, EndWalk, Fetch,
               Measure, Truncate, Fill, WriteFails, Finish
<1>3. QED
  BY <1>1, <1>2

\* A step makes one file at most.
LEMMA FiniteNext ==
  ASSUME TypeOK, IsFiniteSet(DOMAIN disk), [Next]_vars
  PROVE  IsFiniteSet(DOMAIN disk')
<1>1. PICK f : DOMAIN disk' \subseteq DOMAIN disk \cup {f}
  <2>1. ASSUME NEW p \in Runners, Unlink(p) \/ Truncate(p) \/ Fill(p)
        PROVE  DOMAIN disk' \subseteq DOMAIN disk \cup {job[p].file}
    BY <2>1 DEF Unlink, Truncate, Fill, Without, Put
  <2>2. ASSUME NEW p \in Runners,
               \/ Start(p) \/ Waits(p) \/ CheckFile(p) \/ EndWalk(p) \/ Fetch(p) \/ Measure(p)
               \/ UnlinkFails(p) \/ WriteFails(p)
        PROVE  disk' = disk
    BY <2>2 DEF UnlinkFails, Start, StartRead, StartList, StartWrite, StartEdit, Begin, Waits, LockAndStat,
                Untrack, Sweep, CheckFile, EndWalk, Fetch, Measure, WriteFails
  <2>3. StartCleanup \/ Restart \/ Tick \/ UNCHANGED vars => disk' = disk
    BY DEF StartCleanup, Begin, Restart, Tick, vars
  <2>4. QED
    BY <2>1, <2>2, <2>3, Constants DEF Next, Moves
<1>2. QED
  BY <1>1, FS_AddElement, FS_Subset

LEMMA WithinNext ==
  ASSUME Measured, [Next]_vars
  PROVE  WithinLimit'
<1> USE Constants
<1>0. /\ TypeOK /\ IsFiniteSet(DOMAIN disk) /\ Limit' = Limit /\ Limit \in Nat
      /\ TotalBytes \in Nat /\ TotalBytes < Limit
  BY DiskSizes DEF Measured, Limits, Limit, WithinLimit
<1>1. Fewer => TotalBytes' < Limit
  BY <1>0, FewerBytes
<1>2. ASSUME NEW p \in Runners,
             \/ Start(p) \/ (p = Cleaner /\ StartCleanup) \/ Waits(p) \/ Moves(p)
      PROVE  WithinLimit'
  <2>1. CASE ~(Truncate(p) \/ Fill(p))
    <3>1. Fewer /\ Room(p)'
      BY <1>2, <2>1, RoomWalks, RoomMeasures DEF Waits, Moves
    <3>2. \A q \in Runners \ {p} : Room(q)'
      BY <1>0, <1>2, <3>1, OneWrites, RoomAside
    <3>3. QED
      BY <1>0, <1>1, <3>1, <3>2 DEF WithinLimit
  <2>2. CASE Truncate(p) \/ Fill(p)
    <3>1. TotalBytes' < Limit /\ Room(p)'
      BY <2>2, RoomWrites
    <3>2. ASSUME NEW q \in Runners \ {p} PROVE Room(q)'
      <4>1. pc'[q] = pc[q] /\ job'[q] = job[q]
        BY <1>0, <1>2, OneWrites
      <4>2. pc[p] \in Inside /\ pc[q] \notin Inside
        BY <1>0, <2>2, Typed DEF Truncate, Fill, Goto, Inside
      <4>3. Room(q)
        BY DEF Measured, WithinLimit
      <4>4. QED
        BY <4>1, <4>2, <4>3, RoomOutside DEF Room
    <3>3. QED
      BY <1>0, <3>1, <3>2 DEF WithinLimit
  <2>3. QED
    BY <2>1, <2>2
<1>3. CASE Restart
  <2>1. Fewer
    BY <1>3 DEF Restart, Fewer
  <2>2. ASSUME NEW p \in Runners PROVE Room(p)'
    <3>1. pc'[p] = "idle" /\ job'[p].size = 0 /\ 0 <= MaxFile
      BY <1>3 DEF Restart, NoJob, Measured, Limits
    <3>2. QED
      BY <3>1, RoomOutside DEF Inside
  <2>3. QED
    BY <1>0, <1>1, <2>1, <2>2 DEF WithinLimit
<1>4. CASE Tick \/ UNCHANGED vars
  <2>1. UNCHANGED <<disk, pc, job, old>>
    BY <1>4 DEF Tick, vars
  <2>2. Fewer
    BY <2>1 DEF Fewer
  <2>3. \A p \in Runners : Room(p)'
    BY <2>1, <2>2, RoomAside
  <2>4. QED
    BY <1>0, <1>1, <2>2, <2>3 DEF WithinLimit
<1>5. QED
  BY <1>2, <1>3, <1>4 DEF Next

\* Writes whose old file is reaped between their Stat and their measurement
\* (backend.go:134-141) get past the quota, but a namespace never grows past it by
\* a whole file, for any number of goroutines writing, reaping and restarting.
THEOREM LocalQuotaOvershootBounded == Spec => []QuotaOvershootBounded
<1> DEFINE Inv == /\ TypeOK /\ IsFiniteSet(DOMAIN disk)
                  /\ MaxTotal > 0 /\ MaxFile > 0 => WithinLimit
<1>0. MaxTotal \in Nat /\ MaxFile \in Nat
  BY NumberAssumption
<1>1. Init => Inv
  <2>1. Init => DOMAIN disk = {} /\ TotalBytes = 0
    BY SumOverNone DEF Init, TotalBytes, SumOf
  <2>2. ASSUME Init, MaxTotal > 0, MaxFile > 0 PROVE WithinLimit
    BY <1>0, <2>1, <2>2 DEF Init, NoJob, WithinLimit, Room, Limit
  <2>3. QED
    BY <2>1, <2>2, TypeInit, FS_EmptySet
<1>2. Inv /\ [Next]_vars => Inv'
  <2> SUFFICES ASSUME Inv, [Next]_vars PROVE Inv'
    OBVIOUS
  <2>1. TypeOK'
    BY TypeNext
  <2>2. IsFiniteSet(DOMAIN disk')
    BY FiniteNext
  <2>3. MaxTotal > 0 /\ MaxFile > 0 => WithinLimit'
    BY <1>0, WithinNext DEF Measured, Limits
  <2>4. QED
    BY <2>1, <2>2, <2>3
<1>3. Inv => QuotaOvershootBounded
  BY DEF WithinLimit, QuotaOvershootBounded, Limit
<1>4. QED
  BY <1>1, <1>2, <1>3, PTL DEF Spec
=============================================================================
