---------------------------- MODULE LocalBackend ----------------------------
(***************************************************************************)
(* localbackend.Backend, the bounded filesystem behind the context          *)
(* middleware, for the files of one request's namespace: tool calls of the  *)
(* request running concurrently, the cleanup goroutine of                   *)
(* StartContextCleanup, and restarts of the process.                        *)
(*                                                                         *)
(* The mutex guards the quota check with the write that follows, and the    *)
(* expiry map.  It does not guard the expiry of files, which looks at the   *)
(* modification time and then removes by name, so each system call of that  *)
(* path is a step of its own; os.WriteFile truncates and then fills.        *)
(***************************************************************************)
EXTENDS Naturals, FileSizes

CONSTANTS
    Procs,     \* goroutines of the request: parallel tool calls
    Cleaner,   \* the cleanup goroutine
    Nobody,    \* the holder of a free mutex
    Files,     \* paths under the namespace
    Sizes,     \* sizes of the contents that may be written
    MaxFile,   \* Config.MaxFileBytes, 0 = no limit
    MaxTotal,  \* Config.MaxTotalBytes, 0 = no limit
    TTL,       \* Config.TTL, 0 = files never expire
    MaxTime    \* bound on the clock, for model checking only

ASSUME NameAssumption ==
    Cleaner \notin Procs /\ Nobody \notin Procs \cup {Cleaner} /\ Files # {}

ASSUME NumberAssumption ==
    Sizes \subseteq Nat /\ {MaxFile, MaxTotal, TTL, MaxTime} \subseteq Nat

VARIABLES
    now,      \* the clock of the host and of its file system
    disk,     \* the files that exist: path -> size and modification time
    tracked,  \* the keys of Backend.expires, whose values nothing reads
    mu,       \* who holds Backend.mu
    pc,       \* per goroutine, where it is
    job,      \* per goroutine, the operation it runs
    todo,     \* per goroutine, the listed files it has yet to look at
    cur,      \* per goroutine, the file expireIfNeeded decided to remove
    since,    \* per goroutine, when it looked at a modification time it acts on
    old       \* per goroutine, the size Write found in place of its file

vars == <<now, disk, tracked, mu, pc, job, todo, cur, since, old>>

Runners == Procs \cup {Cleaner}

Operations == {"none", "read", "list", "write", "edit", "clean"}

Labels == {"idle", "walk", "unlink", "untrack", "fetch", "lock", "measure",
           "truncate", "fill", "sweep"}

SomeFile == CHOOSE f \in Files : TRUE

\* The locals of a goroutine that runs nothing.
NoJob == [op |-> "none", file |-> SomeFile, size |-> 0]

Put(f, x, v) == [y \in DOMAIN f \cup {x} |-> IF y = x THEN v ELSE f[y]]

Without(f, x) == [y \in DOMAIN f \ {x} |-> f[y]]

\* totalBytesLocked
TotalBytes == SumOf(disk)

\* Mutant: a file expires only once it is older than the TTL and a bit.
ExpiredAt_Late(f) == TTL > 0 /\ f \in DOMAIN disk /\ now - disk[f].mtime > TTL

\* Mutant: a file expires when it is about to reach its TTL.
ExpiredAt_Early(f) == TTL > 0 /\ f \in DOMAIN disk /\ now - disk[f].mtime + 1 >= TTL

\* expireIfNeeded's test: the file is there and time.Since(mtime) >= ttl.
ExpiredAt(f) == TTL > 0 /\ f \in DOMAIN disk /\ now - disk[f].mtime >= TTL

Init ==
    /\ now = 0
    /\ disk = [f \in {} |-> [size |-> 0, mtime |-> 0]]
    /\ tracked = {}
    /\ mu = Nobody
    /\ pc = [p \in Runners |-> "idle"]
    /\ job = [p \in Runners |-> NoJob]
    /\ todo = [p \in Runners |-> {}]
    /\ cur = [p \in Runners |-> SomeFile]
    /\ since = [p \in Runners |-> 0]
    /\ old = [p \in Runners |-> 0]

Goto(p, from, to) == pc[p] = from /\ pc' = [pc EXCEPT ![p] = to]

\* The operation returns; its locals are dropped.
Finish(p) ==
    /\ pc' = [pc EXCEPT ![p] = "idle"]
    /\ job' = [job EXCEPT ![p] = NoJob]
    /\ todo' = [todo EXCEPT ![p] = {}]
    /\ cur' = [cur EXCEPT ![p] = SomeFile]
    /\ since' = [since EXCEPT ![p] = 0]
    /\ old' = [old EXCEPT ![p] = 0]

-----------------------------------------------------------------------------
\* Operations begin.

Begin(p, j, to, files) ==
    /\ Goto(p, "idle", to)
    /\ job' = [job EXCEPT ![p] = j]
    /\ todo' = [todo EXCEPT ![p] = files]
    /\ UNCHANGED <<now, disk, tracked, mu, cur, since, old>>

\* Read looks at its one file before it opens it.
StartRead(p) ==
    \E f \in Files : Begin(p, [op |-> "read", file |-> f, size |-> 0], "walk", {f})

\* LsInfo, GlobInfo and GrepRaw walk a directory and skip what has expired.
StartList(p) ==
    Begin(p, [op |-> "list", file |-> SomeFile, size |-> 0], "walk", DOMAIN disk)

\* Write refuses contents above the file limit and prunes the namespace first.
StartWrite(p) ==
    \E f \in Files, s \in Sizes :
       /\ MaxFile = 0 \/ s <= MaxFile
       /\ Begin(p, [op |-> "write", file |-> f, size |-> s], "walk", DOMAIN disk)

\* Edit opens the file first, whatever its age.
StartEdit(p) ==
    \E f \in Files, s \in Sizes :
       Begin(p, [op |-> "edit", file |-> f, size |-> s], "fetch", {})

\* Mutant: the cleanup looks only at the files the expiry map knows.
StartCleanup_FromMap ==
    Begin(Cleaner, [op |-> "clean", file |-> SomeFile, size |-> 0], "walk",
          tracked \cap DOMAIN disk)

\* The ticker of StartContextCleanup fires: CleanupExpired.
StartCleanup ==
    Begin(Cleaner, [op |-> "clean", file |-> SomeFile, size |-> 0], "walk", DOMAIN disk)

-----------------------------------------------------------------------------
\* expireIfNeeded, on each file of a walk: Stat, Remove, forget.

CheckFile(p) ==
    /\ pc[p] = "walk"
    /\ \E f \in todo[p] :
          /\ todo' = [todo EXCEPT ![p] = @ \ {f}]
          /\ \/ /\ ExpiredAt(f)
                /\ pc' = [pc EXCEPT ![p] = "unlink"]
                /\ cur' = [cur EXCEPT ![p] = f]
                /\ since' = [since EXCEPT ![p] = now]
             \/ /\ ~ExpiredAt(f)
                /\ since' = IF job[p].op = "read" THEN [since EXCEPT ![p] = now] ELSE since
                /\ UNCHANGED <<pc, cur>>
    /\ UNCHANGED <<now, disk, tracked, mu, job, old>>

\* Mutant: the removed file is not forgotten.
Unlink_KeepsEntry(p) ==
    /\ Goto(p, "unlink", "walk")
    /\ disk' = Without(disk, cur[p])
    /\ UNCHANGED <<now, tracked, mu, job, todo, cur, since, old>>

\* os.Remove takes whatever has that name by now ...
Unlink(p) ==
    /\ Goto(p, "unlink", "untrack")
    /\ disk' = Without(disk, cur[p])
    /\ UNCHANGED <<now, tracked, mu, job, todo, cur, since, old>>

\* ... or fails to; the error is dropped, and the file is forgotten all the same.
UnlinkFails(p) ==
    /\ Goto(p, "unlink", "untrack")
    /\ cur[p] \in DOMAIN disk
    /\ UNCHANGED <<now, disk, tracked, mu, job, todo, cur, since, old>>

\* The map entry goes under the mutex.  Read answers os.ErrNotExist.
Untrack(p) ==
    /\ pc[p] = "untrack"
    /\ mu = Nobody
    /\ tracked' = tracked \ {cur[p]}
    /\ IF job[p].op = "read"
       THEN Finish(p)
       ELSE /\ pc' = [pc EXCEPT ![p] = "walk"]
            /\ cur' = [cur EXCEPT ![p] = SomeFile]
            /\ since' = [since EXCEPT ![p] = 0]
            /\ UNCHANGED <<job, todo, old>>
    /\ UNCHANGED <<now, disk, mu>>

\* Every listed file has been looked at.
EndWalk(p) ==
    /\ pc[p] = "walk"
    /\ todo[p] = {}
    /\ \/ job[p].op = "list" /\ Finish(p)
       \/ /\ job[p].op # "list"
          /\ pc' = [pc EXCEPT ![p] = CASE job[p].op = "read" -> "fetch"
                                       [] job[p].op = "clean" -> "sweep"
                                       [] OTHER -> "lock"]
          /\ UNCHANGED <<job, todo, cur, since, old>>
    /\ UNCHANGED <<now, disk, tracked, mu>>

\* os.ReadFile.  A read returns; an edit goes on to Write, if the file is there,
\* its old string occurs and the new content is within the file limit.
Fetch(p) ==
    /\ pc[p] = "fetch"
    /\ \/ Finish(p)
       \/ /\ job[p].op = "edit"
          /\ job[p].file \in DOMAIN disk
          /\ MaxFile = 0 \/ job[p].size <= MaxFile
          /\ pc' = [pc EXCEPT ![p] = "walk"]
          /\ job' = [job EXCEPT ![p].op = "write"]
          /\ todo' = [todo EXCEPT ![p] = DOMAIN disk]
          /\ UNCHANGED <<cur, since, old>>
    /\ UNCHANGED <<now, disk, tracked, mu>>

-----------------------------------------------------------------------------
\* The part of Write under the mutex.

\* The mutex is taken and the old file looked at in one step: what others do
\* between the two might as well have happened before.
LockAndStat(p) ==
    /\ Goto(p, "lock", "measure")
    /\ mu = Nobody
    /\ mu' = p
    /\ old' = [old EXCEPT ![p] = IF job[p].file \in DOMAIN disk
                                 THEN disk[job[p].file].size ELSE 0]
    /\ UNCHANGED <<now, disk, tracked, job, todo, cur, since>>

\* Mutant: the quota is checked against what is there, not what will be.
OverQuota_BeforeWrite(p) == MaxTotal > 0 /\ TotalBytes > MaxTotal + old[p]

\* totalBytesLocked - old + len(content) > maxTotal
OverQuota(p) == MaxTotal > 0 /\ TotalBytes + job[p].size > MaxTotal + old[p]

Measure(p) ==
    /\ pc[p] = "measure"
    /\ \/ /\ OverQuota(p)
          /\ mu' = Nobody
          /\ Finish(p)
       \/ /\ ~OverQuota(p)
          /\ pc' = [pc EXCEPT ![p] = "truncate"]
          /\ UNCHANGED <<mu, job, todo, cur, since, old>>
    /\ UNCHANGED <<now, disk, tracked>>

\* os.WriteFile opens with O_TRUNC ...
Truncate(p) ==
    /\ Goto(p, "truncate", "fill")
    /\ disk' = Put(disk, job[p].file, [size |-> 0, mtime |-> now])
    /\ UNCHANGED <<now, tracked, mu, job, todo, cur, since, old>>

\* ... and then writes, into nowhere if the name was removed meanwhile.
Fill(p) ==
    /\ pc[p] = "fill"
    /\ disk' = IF job[p].file \in DOMAIN disk
               THEN [disk EXCEPT ![job[p].file] = [size |-> job[p].size, mtime |-> now]]
               ELSE disk
    /\ tracked' = IF TTL > 0 THEN tracked \cup {job[p].file} ELSE tracked
    /\ mu' = Nobody
    /\ Finish(p)
    /\ UNCHANGED now

\* Mutant: the mutex is not released on the error path.
WriteFails_Locked(p) ==
    /\ pc[p] \in {"truncate", "fill"}
    /\ Finish(p)
    /\ UNCHANGED <<now, disk, tracked, mu>>

\* os.WriteFile fails to open the file, or fails after it truncated it.
WriteFails(p) ==
    /\ pc[p] \in {"truncate", "fill"}
    /\ mu' = Nobody
    /\ Finish(p)
    /\ UNCHANGED <<now, disk, tracked>>

-----------------------------------------------------------------------------
\* CleanupExpired's second pass forgets the files that are gone.
Sweep(p) ==
    /\ pc[p] = "sweep"
    /\ mu = Nobody
    /\ tracked' = tracked \cap DOMAIN disk
    /\ Finish(p)
    /\ UNCHANGED <<now, disk, mu>>

\* The process dies and starts again: New makes an empty map.
Restart ==
    /\ tracked' = {}
    /\ mu' = Nobody
    /\ pc' = [p \in Runners |-> "idle"]
    /\ job' = [p \in Runners |-> NoJob]
    /\ todo' = [p \in Runners |-> {}]
    /\ cur' = [p \in Runners |-> SomeFile]
    /\ since' = [p \in Runners |-> 0]
    /\ old' = [p \in Runners |-> 0]
    /\ UNCHANGED <<now, disk>>

Tick ==
    /\ now < MaxTime
    /\ now' = now + 1
    /\ UNCHANGED <<disk, tracked, mu, pc, job, todo, cur, since, old>>

\* What a goroutine does on its own once its operation has begun.
Waits(p) == LockAndStat(p) \/ Untrack(p) \/ Sweep(p)

Moves(p) ==
    \/ CheckFile(p) \/ Unlink(p) \/ UnlinkFails(p) \/ EndWalk(p) \/ Fetch(p)
    \/ Measure(p) \/ Truncate(p) \/ Fill(p) \/ WriteFails(p)

Start(p) == StartRead(p) \/ StartList(p) \/ StartWrite(p) \/ StartEdit(p)

Next ==
    \/ \E p \in Procs : Start(p)
    \/ StartCleanup
    \/ \E p \in Runners : Waits(p) \/ Moves(p)
    \/ Restart
    \/ Tick

\* Goroutines are scheduled and system calls return; sync.Mutex hands itself to
\* a waiter that has starved for a millisecond, hence SF where it is locked; the
\* ticker of StartContextCleanup goes on firing.
Fairness ==
    /\ \A p \in Runners : WF_vars(Moves(p)) /\ SF_vars(Waits(p))
    /\ WF_vars(StartCleanup)

Spec == Init /\ [][Next]_vars /\ Fairness

-----------------------------------------------------------------------------
\* Properties

\* The file has outlived its TTL.
Overdue(f) == TTL > 0 /\ f \in DOMAIN disk /\ disk[f].mtime + TTL <= now

\* Everything has its type, and exactly the goroutine that is between Lock and
\* the end of Write holds Backend.mu.
TypeOK ==
    /\ now \in Nat
    /\ DOMAIN disk \subseteq Files
    /\ \A f \in DOMAIN disk : disk[f] \in [size : Sizes \cup {0}, mtime : 0 .. now]
    /\ tracked \subseteq Files
    /\ mu \in Runners \cup {Nobody}
    /\ pc \in [Runners -> Labels]
    /\ job \in [Runners -> [op : Operations, file : Files, size : Sizes \cup {0}]]
    /\ todo \in [Runners -> SUBSET Files]
    /\ cur \in [Runners -> Files]
    /\ since \in [Runners -> 0 .. now]
    /\ old \in [Runners -> Sizes \cup {0}]
    /\ \A p \in Runners : mu = p <=> pc[p] \in {"measure", "truncate", "fill"}

\* The files of a namespace outgrow MaxTotalBytes by less than one file: only a
\* Write whose old file is reaped between its Stat and its measurement
\* (backend.go:134-141) gets past the quota, and only by that file's size.
QuotaOvershootBounded ==
    MaxTotal > 0 /\ MaxFile > 0 => TotalBytes < MaxTotal + MaxFile

\* What Read returns had not expired when Read looked at its age, though the
\* file may have been rewritten, or reaped, between the look and os.ReadFile.
ReadServesLive ==
    [][\A p \in Runners :
          (TTL > 0 /\ job[p].op = "read" /\ Fetch(p) /\ job[p].file \in DOMAIN disk)
             => disk[job[p].file].mtime + TTL > since[p]]_vars

\* expireIfNeeded removes a file that has not expired only if that file was
\* rewritten after its modification time was looked at.
FreshReapedOnlyIfRaced ==
    [][\A p \in Runners :
          (Unlink(p) /\ cur[p] \in DOMAIN disk /\ ~Overdue(cur[p]))
             => disk[cur[p]].mtime >= since[p]]_vars

\* Backend.expires keeps no entry of a file that is gone, unless the goroutine
\* that removed the file has yet to take the mutex: the map does not leak.
ExpiresTracksDisk ==
    \A f \in tracked \ DOMAIN disk :
       \E p \in Runners : pc[p] = "untrack" /\ cur[p] = f

\* With the cleanup goroutine running, every expired file is removed or
\* rewritten, although a restart emptied the map (backend.go:280-282), unless
\* the process restarts for ever or os.Remove fails on that file for ever.
ExpiredFileGoes ==
    \/ \A f \in Files :
          \/ Overdue(f) ~> ~Overdue(f)
          \/ []<><<\E p \in Runners : UnlinkFails(p) /\ cur[p] = f>>_vars
    \/ []<><<Restart>>_vars

\* Every operation returns.
OperationsReturn == \A p \in Procs : pc[p] # "idle" ~> pc[p] = "idle"

\* backend.go:310 "CleanupExpired removes expired context files", and so do the
\* lazy paths: what is removed has expired.  A rewrite between the Stat and the
\* Remove of expireIfNeeded is lost.
OnlyExpiredFilesReaped ==
    [][\A p \in Runners :
          (Unlink(p) /\ cur[p] \in DOMAIN disk) => Overdue(cur[p])]_vars
=============================================================================
