------------------------- MODULE AlistBackendProofs -------------------------
(***************************************************************************)
(* Theorems about AlistBackend, for any number of goroutines and files, any   *)
(* sizes, any limit and any ttl.                                             *)
(***************************************************************************)
EXTENDS AlistBackend, SetLemmas, TLAPS

Booking == [size : Sizes, due : 0 .. now + TTL]
Jobs == [file : Files, size : Sizes \cup {0}, due : 0 .. now + TTL]

\* Where a write stands for its file.
Writing == {"parents", "upload", "release"}

\* From the reservation on, the size of a write is one that was asked for.
Sized == \A p \in Procs : pc[p] \in {"reserve"} \cup Writing => job[p].size \in Sizes

Types == TypeOK /\ Sized

LEMMA Numbers == Sizes \subseteq Nat /\ MaxTotal \in Nat /\ TTL \in Nat /\ MaxTime \in Nat
  BY NumberAssumption

LEMMA SomeFileIsAFile == SomeFile \in Files
  BY ScopeAssumption DEF SomeFile

-----------------------------------------------------------------------------
\* Tables.

LEMMA PutTable ==
  ASSUME NEW files, IsTable(files), NEW f \in Files, NEW b \in Booking
  PROVE  IsTable(Put(files, f, b))
  BY DEF IsTable, Put, Booking

LEMMA DropTable ==
  ASSUME NEW files, IsTable(files), NEW S
  PROVE  IsTable(Drop(files, S))
  BY DEF IsTable, Drop

LEMMA EmptyTable == IsTable(Empty)
  BY DEF IsTable, Empty

-----------------------------------------------------------------------------
\* Types.

LEMMA TypeInit == Init => Types
<1> SUFFICES ASSUME Init PROVE Types
  OBVIOUS
<1>1. NoJob \in Jobs
  BY Numbers, SomeFileIsAFile DEF Init, NoJob, Jobs
<1>2. QED
  BY <1>1, EmptyTable DEF Init, Types, TypeOK, Sized, Writing, Jobs, Labels

\* What TypeOK says of the goroutines, with Jobs for the record set.
LEMMA GoroutineTypes ==
  ASSUME Types, NEW p \in Procs
  PROVE  /\ now \in Nat /\ now + TTL \in 0 .. now + TTL /\ 0 \in 0 .. now + TTL
         /\ IsTable(index) /\ IsTable(remote) /\ untold \subseteq Files
         /\ pc \in [Procs -> Labels] /\ todo \in [Procs -> SUBSET Files]
         /\ job \in [Procs -> Jobs] /\ job[p] \in Jobs /\ NoJob \in Jobs
         /\ job[p].file \in Files
  BY Numbers, SomeFileIsAFile DEF Types, TypeOK, Jobs, NoJob

\* The types after a step at which the clock stands still.
LEMMA TypesAfter ==
  ASSUME now' = now, now \in Nat, IsTable(index'), IsTable(remote'), untold' \subseteq Files,
         pc' \in [Procs -> Labels], todo' \in [Procs -> SUBSET Files],
         job' \in [Procs -> Jobs], Sized'
  PROVE  Types'
  BY DEF Types, TypeOK, IsTable, Jobs

\* A goroutine that finishes drops its locals.
LEMMA FinishTypes ==
  ASSUME Types, NEW p \in Procs, Finish(p)
  PROVE  /\ pc' \in [Procs -> Labels] /\ todo' \in [Procs -> SUBSET Files]
         /\ job' \in [Procs -> Jobs]
         /\ Sized'
  BY GoroutineTypes DEF Finish, Types, Sized, Writing, Labels

LEMMA TypeWrite ==
  ASSUME Types, NEW p \in Procs, Write(p)
  PROVE  Types'
<1> USE GoroutineTypes, Numbers
<1>1. CASE StartWrite(p)
  <2>1. PICK f \in Files, s \in Sizes :
           job' = [job EXCEPT ![p] = [file |-> f, size |-> s, due |-> 0]]
    BY <1>1 DEF StartWrite
  <2>2. job' \in [Procs -> Jobs]
    BY <2>1 DEF Jobs
  <2>3. Sized'
    BY <1>1, <2>1 DEF StartWrite, Goto, Types, Sized, Writing
  <2>4. QED
    BY <1>1, <2>2, <2>3, TypesAfter DEF StartWrite, Goto, Labels
<1>2. CASE Reserve(p)
  <2> DEFINE live == Drop(index, Expired)
             f == job[p].file
             s == job[p].size
  <2>1. IsTable(live) /\ s \in Sizes /\ Record(live, f, s) \in Booking
    BY <1>2, DropTable DEF Reserve, Types, Sized, Record, Booking
  <2>2. IsTable(index') /\ IsTable(remote') /\ untold' \subseteq Files /\ now' = now
    BY <1>2, <2>1, PutTable DEF Reserve
  <2>3. CASE /\ job' = [job EXCEPT ![p].due = now + TTL]
             /\ pc' = [pc EXCEPT ![p] = "parents"]
             /\ UNCHANGED todo
    <3>1. job' \in [Procs -> Jobs]
      BY <2>3 DEF Jobs
    <3>2. Sized'
      BY <2>1, <2>3 DEF Types, Sized, Writing, Jobs
    <3>3. QED
      BY <2>2, <2>3, <3>1, <3>2, TypesAfter DEF Labels
  <2>4. CASE Finish(p)
    BY <2>2, <2>4, FinishTypes, TypesAfter
  <2>5. QED
    BY <1>2, <2>3, <2>4 DEF Reserve
<1>3. CASE EnsureParents(p)
  <2>1. Sized'
    BY <1>3 DEF EnsureParents, Goto, Types, Sized, Writing
  <2>2. QED
    BY <1>3, <2>1, TypesAfter DEF EnsureParents, Goto, Labels
<1>4. CASE UploadLands(p)
  <2>1. [size |-> job[p].size, due |-> job[p].due] \in Booking
    BY <1>4 DEF UploadLands, Types, Sized, Writing, Jobs, Booking
  <2>2. IsTable(remote') /\ IsTable(index') /\ untold' \subseteq Files /\ now' = now
    BY <1>4, <2>1, PutTable DEF UploadLands
  <2>3. CASE Finish(p)
    BY <2>2, <2>3, FinishTypes, TypesAfter
  <2>4. CASE pc' = [pc EXCEPT ![p] = "release"] /\ UNCHANGED <<job, todo>>
    <3>1. Sized'
      BY <1>4, <2>4 DEF UploadLands, Types, Sized, Writing
    <3>2. QED
      BY <2>2, <2>4, <3>1, TypesAfter DEF Labels
  <2>5. QED
    BY <1>4, <2>3, <2>4 DEF UploadLands
<1>5. CASE UploadFails(p)
  <2>1. Sized'
    BY <1>5 DEF UploadFails, Goto, Types, Sized, Writing
  <2>2. QED
    BY <1>5, <2>1, TypesAfter DEF UploadFails, Goto, Labels
<1>6. CASE Release(p)
  <2>1. IsTable(index') /\ untold' \subseteq Files
    BY <1>6, DropTable DEF Release
  <2>2. QED
    BY <1>6, <2>1, FinishTypes, TypesAfter DEF Release
<1>7. QED
  BY <1>1, <1>2, <1>3, <1>4, <1>5, <1>6 DEF Write

LEMMA TypeRemove ==
  ASSUME Types, NEW p \in Procs, Remove(p)
  PROVE  Types'
<1> USE GoroutineTypes, Numbers
<1>1. CASE StartRemove(p) \/ StartCleanup(p)
  <2>1. \A T \in SUBSET Files : [todo EXCEPT ![p] = T] \in [Procs -> SUBSET Files]
    OBVIOUS
  <2>2. Expired \subseteq Files
    BY DEF Expired, IsTable
  <2>3. todo' \in [Procs -> SUBSET Files]
    BY <1>1, <2>1, <2>2 DEF StartRemove, StartCleanup
  <2>4. Sized'
    BY <1>1 DEF StartRemove, StartCleanup, Goto, Types, Sized, Writing
  <2>5. QED
    BY <1>1, <2>3, <2>4, TypesAfter DEF StartRemove, StartCleanup, Goto, Labels
<1>2. CASE RemoveLands(p)
  <2>1. PICK f \in todo[p] :
          /\ remote' = Drop(remote, {f})
          /\ \/ /\ pc' = [pc EXCEPT ![p] = "forget"]
                /\ job' = [job EXCEPT ![p].file = f]
                /\ todo' = [todo EXCEPT ![p] = @ \ {f}]
                /\ UNCHANGED untold
             \/ /\ Finish(p)
                /\ untold' = untold \cup ({f} \cap DOMAIN index \cap DOMAIN remote)
    BY <1>2 DEF RemoveLands
  <2>2. f \in Files /\ IsTable(remote') /\ IsTable(index') /\ untold' \subseteq Files /\ now' = now
    BY <1>2, <2>1, DropTable DEF RemoveLands
  <2>3. CASE Finish(p)
    BY <2>2, <2>3, FinishTypes, TypesAfter
  <2>4. CASE /\ pc' = [pc EXCEPT ![p] = "forget"]
             /\ job' = [job EXCEPT ![p].file = f]
             /\ todo' = [todo EXCEPT ![p] = @ \ {f}]
    <3>1. job' \in [Procs -> Jobs] /\ todo' \in [Procs -> SUBSET Files]
      BY <2>2, <2>4 DEF Jobs
    <3>2. Sized'
      BY <2>4 DEF Types, Sized, Writing
    <3>3. QED
      BY <2>2, <2>4, <3>1, <3>2, TypesAfter DEF Labels
  <2>5. QED
    BY <2>1, <2>3, <2>4
<1>3. CASE RemoveEnds(p)
  BY <1>3, FinishTypes, TypesAfter DEF RemoveEnds
<1>4. CASE Forget(p)
  <2>1. IsTable(index') /\ untold' \subseteq Files
    BY <1>4, DropTable DEF Forget
  <2>2. job' \in [Procs -> Jobs]
    BY <1>4 DEF Forget
  <2>3. Sized'
    BY <1>4 DEF Forget, Goto, Types, Sized, Writing
  <2>4. QED
    BY <1>4, <2>1, <2>2, <2>3, TypesAfter DEF Forget, Goto, Labels
<1>5. QED
  BY <1>1, <1>2, <1>3, <1>4 DEF Remove

LEMMA TypeRead ==
  ASSUME Types, NEW p \in Procs, StartRead(p) \/ Fetch(p)
  PROVE  Types'
<1> USE GoroutineTypes, Numbers
<1>1. CASE StartRead(p)
  <2>1. job' \in [Procs -> Jobs]
    BY <1>1 DEF StartRead, Jobs
  <2>2. Sized'
    BY <1>1 DEF StartRead, Goto, Types, Sized, Writing
  <2>3. QED
    BY <1>1, <2>1, <2>2, TypesAfter DEF StartRead, Goto, Labels
<1>2. CASE Fetch(p) /\ Finish(p)
  BY <1>2, FinishTypes, TypesAfter DEF Fetch
<1>3. CASE Fetch(p) /\ pc' = [pc EXCEPT ![p] = "reserve"] /\ UNCHANGED todo
           /\ \E s \in Sizes : job' = [job EXCEPT ![p].size = s]
  <2>1. PICK s \in Sizes : job' = [job EXCEPT ![p].size = s]
    BY <1>3
  <2>2. job' \in [Procs -> Jobs]
    BY <2>1 DEF Jobs
  <2>3. Sized'
    BY <1>3, <2>1 DEF Types, Sized, Writing, Jobs
  <2>4. QED
    BY <1>3, <2>2, <2>3, TypesAfter DEF Fetch, Labels
<1>4. QED
  BY <1>1, <1>2, <1>3 DEF Fetch

LEMMA TypeTick == ASSUME Types, Tick PROVE Types'
<1>1. now \in Nat /\ now' = now + 1 /\ TTL \in Nat
  BY Numbers DEF Tick, Types, TypeOK
<1>2. now' \in Nat /\ \A n \in 0 .. now + TTL : n \in 0 .. now' + TTL
  BY <1>1
<1>3. job' \in [Procs -> [file : Files, size : Sizes \cup {0}, due : 0 .. now' + TTL]]
  BY <1>2 DEF Tick, Types, TypeOK
<1>4. IsTable(index)' /\ IsTable(remote)'
  BY <1>2 DEF Tick, Types, TypeOK, IsTable
<1>5. QED
  BY <1>2, <1>3, <1>4 DEF Tick, Types, TypeOK, Sized

LEMMA TypeNext == Types /\ [Next]_vars => Types'
<1> SUFFICES ASSUME Types, [Next]_vars PROVE Types'
  OBVIOUS
<1>1. ASSUME NEW p \in Procs, Write(p) \/ Remove(p) \/ StartRead(p) \/ Fetch(p)
      PROVE  Types'
  BY <1>1, TypeWrite, TypeRemove, TypeRead
<1>2. ASSUME NEW n \in Scopes, RemoveDirectory(n) PROVE Types'
  BY <1>2, DropTable DEF RemoveDirectory, Types, TypeOK, IsTable, Sized
<1>3. CASE Restart
  <2>1. NoJob \in Jobs
    BY Numbers, SomeFileIsAFile DEF Types, TypeOK, Jobs, NoJob
  <2>2. QED
    BY <1>3, <2>1, EmptyTable, TypesAfter DEF Restart, Types, TypeOK, Sized, Writing, Labels
<1>4. CASE UNCHANGED vars
  BY <1>4 DEF vars, Types, TypeOK, IsTable, Sized
<1>5. QED
  BY <1>1, <1>2, <1>3, <1>4, TypeTick DEF Next

LEMMA TypesAlways == Spec => []Types
<1>1. QED
  BY TypeInit, TypeNext, PTL DEF Spec

\* The index and the server keep their types whatever fails, overlaps or is
\* restarted: every deadline is at most one ttl away (reserve).
THEOREM AlistTypeCorrect == Spec => []TypeOK
<1>1. Types => TypeOK
  BY DEF Types
<1>2. QED
  BY <1>1, TypesAlways, PTL

-----------------------------------------------------------------------------
(***************************************************************************)
(* Deadlines.  A record is compared with the file its own or another write    *)
(* put on the server, and a write under way will put one there: neither may   *)
(* outlive the record.  A reservation made later has the later deadline.     *)
(***************************************************************************)
JobCovered ==
    \A p \in Procs :
       pc[p] \in Writing /\ job[p].file \in DOMAIN index
          => job[p].due <= index[job[p].file].due

Covered == Types /\ DeadlineCoversFile /\ JobCovered

\* files after a step that put nothing into it.
NoMore(files, later) ==
    DOMAIN later \subseteq DOMAIN files /\ \A f \in DOMAIN later : later[f] = files[f]

\* Whoever at most drops records and files, or finishes, uncovers nothing.
LEMMA CoveredByLess ==
  ASSUME Covered, NoMore(index, index'), NoMore(remote, remote'),
         \A p \in Procs : pc'[p] \in Writing => pc[p] \in Writing /\ job'[p] = job[p]
  PROVE  (DeadlineCoversFile /\ JobCovered)'
  BY DEF Covered, DeadlineCoversFile, JobCovered, NoMore

\* A file booked now is covered for a whole ttl.
LEMMA CoveredWhenReserved ==
  ASSUME Covered, NEW p \in Procs, Reserve(p)
  PROVE  (DeadlineCoversFile /\ JobCovered)'
<1> USE GoroutineTypes, Numbers DEF Covered
<1> DEFINE live == Drop(index, Expired)
           f == job[p].file
<1>1. CASE /\ index' = Put(live, f, Record(live, f, job[p].size))
           /\ job' = [job EXCEPT ![p].due = now + TTL]
           /\ pc' = [pc EXCEPT ![p] = "parents"]
  <2>1. /\ DOMAIN index' = (DOMAIN index \ Expired) \cup {f}
        /\ index'[f].due = now + TTL
        /\ \A g \in DOMAIN index' \ {f} : index'[g] = index[g]
    BY <1>1 DEF Put, Drop, Record
  <2>2. \A g \in DOMAIN remote : remote[g].due \in 0 .. now + TTL
    BY DEF IsTable
  <2>3. remote' = remote
    BY DEF Reserve
  <2>4. DeadlineCoversFile'
    BY <2>1, <2>2, <2>3 DEF DeadlineCoversFile
  <2>5. ASSUME NEW q \in Procs, pc'[q] \in Writing, job'[q].file \in DOMAIN index'
        PROVE  job'[q].due <= index'[job'[q].file].due
    <3>1. /\ job'[q].file = job[q].file /\ job'[q].due \in 0 .. now + TTL
          /\ q # p => pc'[q] = pc[q] /\ job'[q] = job[q]
          /\ q = p => job'[q].file = f
      BY <1>1 DEF Jobs
    <3>2. CASE job[q].file = f
      BY <2>1, <3>1, <3>2
    <3>3. CASE job[q].file # f
      BY <2>1, <2>5, <3>1, <3>3 DEF JobCovered
    <3>4. QED
      BY <3>2, <3>3
  <2>6. QED
    BY <2>4, <2>5 DEF JobCovered
<1>2. CASE index' = live /\ Finish(p)
  <2>1. NoMore(remote, remote') /\ NoMore(index, index')
    BY <1>2 DEF Reserve, Drop, NoMore
  <2>2. \A q \in Procs : pc'[q] \in Writing => pc[q] \in Writing /\ job'[q] = job[q]
    BY <1>2 DEF Finish, Writing
  <2>3. QED
    BY <1>2, <2>1, <2>2, CoveredByLess
<1>3. QED
  BY <1>1, <1>2 DEF Reserve

\* What a write uploads is covered by the record, its own or a later one.
LEMMA CoveredWhenUploaded ==
  ASSUME Covered, NEW p \in Procs, UploadLands(p)
  PROVE  (DeadlineCoversFile /\ JobCovered)'
<1> USE GoroutineTypes DEF Covered
<1>1. /\ DOMAIN remote' = DOMAIN remote \cup {job[p].file}
      /\ remote'[job[p].file].due = job[p].due
      /\ \A g \in DOMAIN remote' \ {job[p].file} : remote'[g] = remote[g]
      /\ index' = index /\ pc[p] \in Writing
  BY DEF UploadLands, Put, Writing
<1>2. DeadlineCoversFile'
  BY <1>1 DEF DeadlineCoversFile, JobCovered
<1>3. \A q \in Procs : pc'[q] \in Writing => pc[q] \in Writing /\ job'[q] = job[q]
  BY <1>1 DEF UploadLands, Finish, Writing
<1>4. QED
  BY <1>1, <1>2, <1>3 DEF JobCovered

LEMMA CoveredNext == Covered /\ [Next]_vars => Covered'
<1> SUFFICES ASSUME Covered, [Next]_vars PROVE (DeadlineCoversFile /\ JobCovered)'
  BY TypeNext DEF Covered
<1>1. ASSUME NEW p \in Procs, Write(p) \/ Remove(p) \/ StartRead(p) \/ Fetch(p)
      PROVE  (DeadlineCoversFile /\ JobCovered)'
  <2> USE GoroutineTypes DEF Covered
  <2>1. CASE Reserve(p)
    BY <2>1, CoveredWhenReserved
  <2>2. CASE UploadLands(p)
    BY <2>2, CoveredWhenUploaded
  <2>3. CASE \/ StartWrite(p) \/ EnsureParents(p) \/ UploadFails(p) \/ Release(p)
             \/ StartRead(p) \/ Fetch(p)
    <3>1. NoMore(index, index') /\ NoMore(remote, remote')
      BY <2>3 DEF StartWrite, EnsureParents, UploadFails, Release, StartRead, Fetch, Drop, NoMore
    <3>2. \A q \in Procs : pc'[q] \in Writing => pc[q] \in Writing /\ job'[q] = job[q]
      BY <2>3 DEF StartWrite, EnsureParents, UploadFails, Release, StartRead, Fetch, Goto,
                  Finish, Writing
    <3>3. QED
      BY <3>1, <3>2, CoveredByLess
  <2>4. CASE Remove(p)
    <3>1. NoMore(index, index') /\ NoMore(remote, remote')
      BY <2>4 DEF Remove, StartRemove, StartCleanup, RemoveLands, RemoveEnds, Forget, Drop, NoMore
    <3>2. \A q \in Procs : pc'[q] \in Writing => pc[q] \in Writing /\ job'[q] = job[q]
      BY <2>4 DEF Remove, StartRemove, StartCleanup, RemoveLands, RemoveEnds, Forget, Goto,
                  Finish, Writing
    <3>3. QED
      BY <3>1, <3>2, CoveredByLess
  <2>5. QED
    BY <1>1, <2>1, <2>2, <2>3, <2>4 DEF Write
<1>2. ASSUME NEW n \in Scopes, RemoveDirectory(n) PROVE (DeadlineCoversFile /\ JobCovered)'
  <2>1. NoMore(index, index') /\ NoMore(remote, remote')
    BY <1>2 DEF RemoveDirectory, Drop, NoMore
  <2>2. QED
    BY <1>2, <2>1, CoveredByLess DEF RemoveDirectory
<1>3. CASE Restart
  <2>1. NoMore(index, index') /\ NoMore(remote, remote')
    BY <1>3 DEF Restart, Empty, NoMore
  <2>2. QED
    BY <1>3, <2>1, CoveredByLess DEF Restart, Writing
<1>4. CASE Tick \/ UNCHANGED vars
  BY <1>4 DEF Tick, vars, Covered, DeadlineCoversFile, JobCovered
<1>5. QED
  BY <1>1, <1>2, <1>3, <1>4 DEF Next

\* A record never expires before the file the server has, whatever order
\* overlapping writes of a path finish in (reserve, checkRecord).
THEOREM AlistDeadlineCoversFile == Spec => []DeadlineCoversFile
<1>1. Init => Covered
  BY TypeInit DEF Init, Covered, DeadlineCoversFile, JobCovered, Empty, Writing
<1>2. Covered => DeadlineCoversFile
  BY DEF Covered
<1>3. QED
  BY <1>1, <1>2, CoveredNext, PTL DEF Spec

-----------------------------------------------------------------------------
(***************************************************************************)
(* Bookings.  BookedFilesExist is inductive with Types: who reserves a file   *)
(* stays at it until the server has it or the record is gone, and who removes *)
(* a file either comes back to book it out or was not told.                  *)
(***************************************************************************)
At == {"parents", "upload", "release", "forget"}

Booked == Types /\ BookedFilesExist

\* f is booked by a goroutine that is at work on it.
Held(f) == \E p \in Procs : job[p].file = f /\ pc[p] \in At

LEMMA BookedMeans ==
  ASSUME BookedFilesExist, NEW f \in DOMAIN index, f \notin DOMAIN remote, f \notin untold
  PROVE  Held(f)
  BY DEF BookedFilesExist, Held, At

\* The others go on holding what they hold.
LEMMA HeldByOthers ==
  ASSUME NEW p \in Procs, NEW f, Held(f), pc[p] \notin At \/ job[p].file # f,
         \A q \in Procs \ {p} : pc'[q] = pc[q] /\ job'[q] = job[q]
  PROVE  Held(f)'
  BY DEF Held

LEMMA BookedNext == Booked /\ [Next]_vars => Booked'
<1> SUFFICES ASSUME Booked, [Next]_vars,
                    NEW f \in DOMAIN index', f \notin DOMAIN remote', f \notin untold'
             PROVE  Held(f)'
  BY TypeNext DEF Booked, BookedFilesExist, Held, At
<1> USE GoroutineTypes DEF Booked
<1>1. ASSUME NEW p \in Procs, Write(p) \/ StartRead(p) \/ Fetch(p) \/ Remove(p)
      PROVE  Held(f)'
  <2>1. \A q \in Procs \ {p} : pc'[q] = pc[q] /\ job'[q] = job[q]
    BY <1>1 DEF Write, StartWrite, Reserve, EnsureParents, UploadLands, UploadFails, Release,
                StartRead, Fetch, Remove, StartRemove, StartCleanup, RemoveLands, RemoveEnds,
                Forget, Goto, Finish
  <2>2. CASE Reserve(p)
    <3>1. pc[p] = "reserve" /\ DOMAIN index' \subseteq (DOMAIN index \ Expired) \cup {job[p].file}
          /\ (f = job[p].file => f \in DOMAIN index \ Expired \/ pc'[p] = "parents")
      BY <2>2 DEF Reserve, Put, Drop
    <3>2. CASE pc'[p] = "parents" /\ f = job[p].file
      <4>1. ~Finish(p)
        BY <3>2 DEF Finish
      <4>2. job' = [job EXCEPT ![p].due = now + TTL]
        BY <2>2, <4>1 DEF Reserve
      <4>3. QED
        BY <3>2, <4>2 DEF Held, At, Jobs
    <3>3. CASE f \in DOMAIN index \ Expired /\ ~(pc'[p] = "parents" /\ f = job[p].file)
      <4>1. f \notin DOMAIN remote /\ f \notin untold
        BY <2>2, <3>3 DEF Reserve, Finish
      <4>2. QED
        BY <2>1, <3>1, <3>3, <4>1, BookedMeans, HeldByOthers DEF At
    <3>4. QED
      BY <3>1, <3>2, <3>3
  <2>3. CASE UploadLands(p)
    <3>1. f \in DOMAIN index /\ f # job[p].file /\ f \notin DOMAIN remote /\ f \notin untold
      BY <2>3 DEF UploadLands, Put
    <3>2. QED
      BY <2>1, <3>1, BookedMeans, HeldByOthers
  <2>4. CASE Release(p) \/ Forget(p)
    <3>1. f \in DOMAIN index /\ f # job[p].file /\ f \notin DOMAIN remote /\ f \notin untold
      BY <2>4 DEF Release, Forget, Drop
    <3>2. QED
      BY <2>1, <3>1, BookedMeans, HeldByOthers
  <2>5. CASE EnsureParents(p) \/ UploadFails(p)
    <3>1. Held(f)
      BY <2>5, BookedMeans DEF EnsureParents, UploadFails
    <3>2. pc[p] \in At /\ pc'[p] \in At /\ job'[p] = job[p]
      BY <2>5 DEF EnsureParents, UploadFails, Goto, At
    <3>3. QED
      BY <2>1, <3>1, <3>2 DEF Held
  <2>6. CASE RemoveLands(p)
    <3>1. PICK g \in todo[p] :
            /\ remote' = Drop(remote, {g})
            /\ \/ /\ pc' = [pc EXCEPT ![p] = "forget"]
                  /\ job' = [job EXCEPT ![p].file = g]
               \/ untold' = untold \cup ({g} \cap DOMAIN index \cap DOMAIN remote)
      BY <2>6 DEF RemoveLands
    <3>2. f \in DOMAIN index /\ f \notin untold /\ pc[p] = "remove"
      BY <2>6 DEF RemoveLands
    <3>3. CASE f \notin DOMAIN remote
      BY <2>1, <3>2, <3>3, BookedMeans, HeldByOthers DEF At
    <3>4. CASE f \in DOMAIN remote
      <4>1. f = g /\ pc' = [pc EXCEPT ![p] = "forget"] /\ job' = [job EXCEPT ![p].file = g]
        BY <3>1, <3>2, <3>4 DEF Drop
      <4>2. QED
        BY <4>1 DEF Held, At, Jobs
    <3>5. QED
      BY <3>3, <3>4
  <2>7. CASE \/ StartWrite(p) \/ StartRead(p) \/ Fetch(p) \/ StartRemove(p) \/ StartCleanup(p)
             \/ RemoveEnds(p)
    <3>1. Held(f)
      BY <2>7, BookedMeans DEF StartWrite, StartRead, Fetch, StartRemove, StartCleanup, RemoveEnds
    <3>2. pc[p] \notin At
      BY <2>7 DEF StartWrite, StartRead, Fetch, StartRemove, StartCleanup, RemoveEnds, Goto, At
    <3>3. QED
      BY <2>1, <3>1, <3>2, HeldByOthers
  <2>8. QED
    BY <1>1, <2>2, <2>3, <2>4, <2>5, <2>6, <2>7 DEF Write, Remove
<1>2. ASSUME NEW n \in Scopes, RemoveDirectory(n) PROVE Held(f)'
  <2>1. f \in DOMAIN index /\ f \notin DOMAIN remote /\ f \notin untold
    BY <1>2 DEF RemoveDirectory, Drop
  <2>2. QED
    BY <1>2, <2>1, BookedMeans DEF RemoveDirectory, Held
<1>3. CASE Restart
  BY <1>3 DEF Restart, Empty
<1>4. CASE Tick \/ UNCHANGED vars
  BY <1>4, BookedMeans DEF Tick, vars, Held
<1>5. QED
  BY <1>1, <1>2, <1>3, <1>4 DEF Next

\* Quota does not leak: a record stands for a file on the server, for work under
\* way, or for a removal whose answer was lost (release, removeScoped).
THEOREM AlistBookedFilesExist == Spec => []BookedFilesExist
<1>1. Init => Booked
  BY TypeInit DEF Init, Booked, BookedFilesExist, Empty
<1>2. Booked => BookedFilesExist
  BY DEF Booked
<1>3. QED
  BY <1>1, <1>2, BookedNext, PTL DEF Spec

-----------------------------------------------------------------------------
(***************************************************************************)
(* The quota.  It is decided on the sum under the mutex in which the record   *)
(* is written, and nothing else adds to the index.                           *)
(***************************************************************************)
Quota == Types /\ IsFiniteSet(DOMAIN index) /\ QuotaRespected

\* Dropping records makes the sum no larger.
LEMMA SumOfDrop ==
  ASSUME NEW files, IsFiniteSet(DOMAIN files), HasSizes(files, DOMAIN files), NEW S
  PROVE  /\ IsFiniteSet(DOMAIN Drop(files, S))
         /\ HasSizes(Drop(files, S), DOMAIN Drop(files, S))
         /\ SumOf(Drop(files, S)) = SumOver(files, DOMAIN files \ S)
         /\ SumOf(Drop(files, S)) \in Nat
         /\ SumOf(Drop(files, S)) <= SumOf(files)
<1> DEFINE less == Drop(files, S)
<1>1. DOMAIN less = DOMAIN files \ S /\ \A f \in DOMAIN less : less[f].size = files[f].size
  BY DEF Drop
<1> HIDE DEF less
<1>2. DOMAIN less \subseteq DOMAIN files
  BY <1>1
<1>3. QED
  BY <1>1, <1>2, SumOfFewer DEF less

\* A record adds its size to what the others take up.
LEMMA SumOfPut ==
  ASSUME NEW files, IsFiniteSet(DOMAIN files), HasSizes(files, DOMAIN files),
         NEW f, NEW b, b.size \in Nat
  PROVE  /\ IsFiniteSet(DOMAIN Put(files, f, b))
         /\ SumOf(Put(files, f, b)) = SumOf(Drop(files, {f})) + b.size
<1> DEFINE more == Put(files, f, b)
<1>1. /\ DOMAIN more = DOMAIN files \cup {f} /\ more[f] = b
      /\ \A g \in DOMAIN files \ {f} : more[g].size = files[g].size
  BY DEF Put
<1> HIDE DEF more
<1>2. IsFiniteSet(DOMAIN more)
      /\ SumOf(more) = SumOver(files, DOMAIN files \ {f}) + more[f].size
  BY <1>1, SumOfWritten
<1>3. QED
  BY <1>1, <1>2, SumOfDrop DEF more

LEMMA IndexSizes ==
  ASSUME Types
  PROVE  HasSizes(index, DOMAIN index)
  BY Numbers DEF Types, TypeOK, IsTable, HasSizes

\* Steps that at most drop records.
LEMMA QuotaKept ==
  ASSUME Quota, index' = index \/ \E S : index' = Drop(index, S)
  PROVE  IsFiniteSet(DOMAIN index') /\ QuotaRespected'
<1>1. HasSizes(index, DOMAIN index)
  BY IndexSizes DEF Quota
<1>2. CASE index' = index
  BY <1>2 DEF Quota, QuotaRespected
<1>3. ASSUME NEW S, index' = Drop(index, S) PROVE IsFiniteSet(DOMAIN index') /\ QuotaRespected'
  <2>1. SumOf(index) \in Nat
    BY <1>1, SumOverNat DEF Quota, SumOf
  <2>2. IsFiniteSet(DOMAIN index') /\ SumOf(index') \in Nat /\ SumOf(index') <= SumOf(index)
    BY <1>1, <1>3, SumOfDrop DEF Quota
  <2>3. QED
    BY <2>1, <2>2, Numbers DEF Quota, QuotaRespected
<1>4. QED
  BY <1>2, <1>3

LEMMA QuotaNext == Quota /\ [Next]_vars => Quota'
<1> SUFFICES ASSUME Quota, [Next]_vars PROVE IsFiniteSet(DOMAIN index') /\ QuotaRespected'
  BY TypeNext DEF Quota
<1>1. ASSUME NEW p \in Procs, Reserve(p)
      PROVE  IsFiniteSet(DOMAIN index') /\ QuotaRespected'
  <2> DEFINE live == Drop(index, Expired)
             f == job[p].file
             s == job[p].size
  <2>1. CASE index' = live
    BY <2>1, QuotaKept
  <2>2. CASE Reservation(live, f, s) /\ index' = Put(live, f, Record(live, f, s))
    <3>1. IsFiniteSet(DOMAIN live) /\ HasSizes(live, DOMAIN live)
      BY IndexSizes, SumOfDrop DEF Quota
    <3>2. s \in Nat /\ Record(live, f, s).size = s
      BY <1>1, Numbers DEF Reserve, Quota, Types, Sized, Record
    <3>3. IsFiniteSet(DOMAIN index') /\ SumOf(index') = SumOf(Drop(live, {f})) + s
      BY <2>2, <3>1, <3>2, SumOfPut
    <3>4. QED
      BY <2>2, <3>3 DEF Reservation, QuotaRespected
  <2>3. QED
    BY <1>1, <2>1, <2>2 DEF Reserve
<1>2. ASSUME NEW p \in Procs,
             \/ StartWrite(p) \/ EnsureParents(p) \/ UploadLands(p) \/ UploadFails(p)
             \/ Release(p) \/ Remove(p) \/ StartRead(p) \/ Fetch(p)
      PROVE  IsFiniteSet(DOMAIN index') /\ QuotaRespected'
  <2>1. index' = index \/ index' = Drop(index, {job[p].file})
    BY <1>2 DEF StartWrite, EnsureParents, UploadLands, UploadFails, Release, Remove,
                StartRemove, StartCleanup, RemoveLands, RemoveEnds, Forget, StartRead, Fetch
  <2>2. QED
    BY <2>1, QuotaKept
<1>3. CASE Restart
  <2>1. DOMAIN index' = {}
    BY <1>3 DEF Restart, Empty
  <2>2. SumOf(index') = 0
    BY <2>1, SumOverNone DEF SumOf
  <2>3. QED
    BY <2>1, <2>2, Numbers, FS_EmptySet DEF QuotaRespected
<1>4. CASE Tick \/ UNCHANGED vars \/ \E n \in Scopes : RemoveDirectory(n)
  <2>1. index' = index
    BY <1>4 DEF Tick, vars, RemoveDirectory
  <2>2. QED
    BY <2>1, QuotaKept
<1>5. QED
  BY <1>1, <1>2, <1>3, <1>4 DEF Next, Write

\* What is booked stays within MaxTotalBytes, however many writes of however many
\* requests overlap, fail or lose their answers (reserve, release).
THEOREM AlistQuotaRespected == Spec => []QuotaRespected
<1>1. Init => Quota
  <2>1. Init => DOMAIN index = {} /\ SumOf(index) = 0
    BY SumOverNone DEF Init, Empty, SumOf
  <2>2. QED
    BY <2>1, TypeInit, Numbers, FS_EmptySet DEF Quota, QuotaRespected
<1>2. Quota => QuotaRespected
  BY DEF Quota
<1>3. QED
  BY <1>1, <1>2, QuotaNext, PTL DEF Spec
=============================================================================
