---------------------------- MODULE AlistBackend ----------------------------
(***************************************************************************)
(* alistbackend.Backend: files kept on a remote Alist server, with an        *)
(* in-memory index that carries the quota and the deadlines.  Goroutines of   *)
(* several requests run at once and the process may restart.                  *)
(*                                                                         *)
(* Every access to the index is one step under Backend.mu; every HTTP call    *)
(* is a step of its own, which may fail before it took effect, or take        *)
(* effect and lose its answer.  The server itself is external.                *)
(***************************************************************************)
EXTENDS Naturals, FileSizes

CONSTANTS
    Procs,     \* goroutines that call the backend
    Files,     \* scoped paths of files
    Scopes,    \* namespaces, one per tenant and request
    ScopeOf,   \* the namespace a path lies in
    Sizes,     \* sizes of the contents that may be written
    MaxTotal,  \* Config.MaxTotalBytes, 0 = no limit
    TTL,       \* Config.TTL, 0 = files never expire
    MaxTime    \* bound on the clock, for model checking only

ASSUME ScopeAssumption == ScopeOf \in [Files -> Scopes] /\ Files # {}

ASSUME NumberAssumption == Sizes \subseteq Nat /\ {MaxTotal, TTL, MaxTime} \subseteq Nat

VARIABLES
    now,     \* the clock
    index,   \* Backend.files: path -> size and deadline
    remote,  \* the files on the server: path -> size and its writer's deadline
    pc,      \* per goroutine, where it is
    job,     \* per goroutine, the file, size and deadline of its write
    todo,    \* per goroutine, the files it has yet to remove
    untold   \* history: files gone from the server without the index being told

vars == <<now, index, remote, pc, job, todo, untold>>

Labels == {"idle", "fetch", "reserve", "parents", "upload", "release", "remove", "forget"}

SomeFile == CHOOSE f \in Files : TRUE

NoJob == [file |-> SomeFile, size |-> 0, due |-> 0]

Put(f, x, v) == [y \in DOMAIN f \cup {x} |-> IF y = x THEN v ELSE f[y]]

Drop(f, S) == [y \in DOMAIN f \ S |-> f[y]]

Empty == [f \in {} |-> [size |-> 0, due |-> 0]]

\* !expiresAt.IsZero() && now.After(expiresAt)
Past(due) == TTL > 0 /\ now > due

Expired == {f \in DOMAIN index : Past(index[f].due)}

Init ==
    /\ now = 0
    /\ index = Empty
    /\ remote = Empty
    /\ pc = [p \in Procs |-> "idle"]
    /\ job = [p \in Procs |-> NoJob]
    /\ todo = [p \in Procs |-> {}]
    /\ untold = {}

Goto(p, from, to) == pc[p] = from /\ pc' = [pc EXCEPT ![p] = to]

Finish(p) ==
    /\ pc' = [pc EXCEPT ![p] = "idle"]
    /\ job' = [job EXCEPT ![p] = NoJob]
    /\ todo' = [todo EXCEPT ![p] = {}]

-----------------------------------------------------------------------------
\* Write: reserve, ensureParents, upload, and release when one of them fails.

StartWrite(p) ==
    /\ Goto(p, "idle", "reserve")
    /\ \E f \in Files, s \in Sizes :
          job' = [job EXCEPT ![p] = [file |-> f, size |-> s, due |-> 0]]
    /\ UNCHANGED <<now, index, remote, todo, untold>>

\* Mutant: the other files' sizes are not added up.
Reservation_Alone(live, f, s) == MaxTotal = 0 \/ s <= MaxTotal

\* reserve's quota check: total - old + size <= maxTotal.
Reservation(live, f, s) == MaxTotal = 0 \/ SumOf(Drop(live, {f})) + s <= MaxTotal

\* Mutant: a file written again keeps the deadline it had.
Record_FirstDeadline(live, f, s) ==
    [size |-> s, due |-> IF f \in DOMAIN live THEN live[f].due ELSE now + TTL]

\* Mutant: the ttl is added to a deadline that has it already.
Record_TwoTTLs(live, f, s) == [size |-> s, due |-> now + TTL + TTL]

\* fileRecord{size, time.Now().Add(ttl)}
Record(live, f, s) == [size |-> s, due |-> now + TTL]

\* reserve: expireLocked forgets every expired file, of every namespace and
\* whether or not its file is still there; then the write is booked.
Reserve(p) ==
    LET live == Drop(index, Expired)
        f == job[p].file
        s == job[p].size
    IN  /\ pc[p] = "reserve"
        /\ \/ /\ Reservation(live, f, s)
              /\ index' = Put(live, f, Record(live, f, s))
              /\ job' = [job EXCEPT ![p].due = now + TTL]
              /\ pc' = [pc EXCEPT ![p] = "parents"]
              /\ untold' = untold \ (Expired \cup {f})
              /\ UNCHANGED todo
           \/ /\ ~Reservation(live, f, s)
              /\ index' = live
              /\ untold' = untold \ Expired
              /\ Finish(p)
        /\ UNCHANGED <<now, remote>>

\* Mutant: a failed mkdir returns without release.
EnsureParents_NoRelease(p) ==
    /\ Goto(p, "parents", "upload") \/ Goto(p, "parents", "idle")
    /\ UNCHANGED <<now, index, remote, job, todo, untold>>

\* ensureParents lists and makes directories; a failed mkdir ends the write.
EnsureParents(p) ==
    /\ Goto(p, "parents", "upload") \/ Goto(p, "parents", "release")
    /\ UNCHANGED <<now, index, remote, job, todo, untold>>

\* The server has the whole file; the answer may be lost.
UploadLands(p) ==
    /\ pc[p] = "upload"
    /\ remote' = Put(remote, job[p].file, [size |-> job[p].size, due |-> job[p].due])
    /\ untold' = untold \ {job[p].file}
    /\ \/ Finish(p)
       \/ pc' = [pc EXCEPT ![p] = "release"] /\ UNCHANGED <<job, todo>>
    /\ UNCHANGED <<now, index>>

UploadFails(p) ==
    /\ Goto(p, "upload", "release")
    /\ UNCHANGED <<now, index, remote, job, todo, untold>>

\* release deletes the record, whoever's it is by now.
Release(p) ==
    /\ pc[p] = "release"
    /\ index' = Drop(index, {job[p].file})
    /\ untold' = untold \ {job[p].file}
    /\ Finish(p)
    /\ UNCHANGED <<now, remote>>

-----------------------------------------------------------------------------
\* Read and Edit.

\* checkRecord refuses a file whose record has expired, and no other.
StartRead(p) ==
    /\ \E f \in Files :
          /\ ~(f \in Expired)
          /\ job' = [job EXCEPT ![p].file = f]
    /\ Goto(p, "idle", "fetch")
    /\ UNCHANGED <<now, index, remote, todo, untold>>

\* /api/fs/get and the download change nothing; Edit goes on to Write.
Fetch(p) ==
    /\ pc[p] = "fetch"
    /\ \/ Finish(p)
       \/ /\ job[p].file \in DOMAIN remote
          /\ pc' = [pc EXCEPT ![p] = "reserve"]
          /\ \E s \in Sizes : job' = [job EXCEPT ![p].size = s]
          /\ UNCHANGED todo
    /\ UNCHANGED <<now, index, remote, untold>>

-----------------------------------------------------------------------------
\* Remove, CleanupExpired and CleanupAllExpired.

StartRemove(p) ==
    /\ Goto(p, "idle", "remove")
    /\ \E f \in Files : todo' = [todo EXCEPT ![p] = {f}]
    /\ UNCHANGED <<now, index, remote, job, untold>>

\* The expired paths are copied under the mutex and removed after it.
StartCleanup(p) ==
    /\ Goto(p, "idle", "remove")
    /\ \/ todo' = [todo EXCEPT ![p] = Expired]
       \/ \E n \in Scopes :
             todo' = [todo EXCEPT ![p] = {f \in Expired : ScopeOf[f] = n}]
    /\ UNCHANGED <<now, index, remote, job, untold>>

\* removeScoped's call, on the snapshot in the map's arbitrary order.
RemoveLands(p) ==
    /\ pc[p] = "remove"
    /\ \E f \in todo[p] :
          /\ remote' = Drop(remote, {f})
          /\ \/ /\ pc' = [pc EXCEPT ![p] = "forget"]
                /\ job' = [job EXCEPT ![p].file = f]
                /\ todo' = [todo EXCEPT ![p] = @ \ {f}]
                /\ UNCHANGED untold
             \/ /\ Finish(p)
                /\ untold' = untold \cup ({f} \cap DOMAIN index \cap DOMAIN remote)
    /\ UNCHANGED <<now, index>>

\* The first error ends a cleanup, and so does an empty rest.
RemoveEnds(p) ==
    /\ pc[p] = "remove"
    /\ Finish(p)
    /\ UNCHANGED <<now, index, remote, untold>>

\* delete(b.files, scoped)
Forget(p) ==
    /\ Goto(p, "forget", "remove")
    /\ index' = Drop(index, {job[p].file})
    /\ untold' = untold \ {job[p].file}
    /\ job' = [job EXCEPT ![p] = NoJob]
    /\ UNCHANGED <<now, remote, todo>>

\* Remove of a directory takes the files below it and books none of them out:
\* the index has no record of the directory's own path.
RemoveDirectory(n) ==
    LET gone == {f \in Files : ScopeOf[f] = n}
    IN  /\ remote' = Drop(remote, gone)
        /\ untold' = untold \cup (gone \cap DOMAIN index \cap DOMAIN remote)
        /\ UNCHANGED <<now, index, pc, job, todo>>

-----------------------------------------------------------------------------
\* The process restarts with an empty index.
Restart ==
    /\ index' = Empty
    /\ untold' = {}
    /\ pc' = [p \in Procs |-> "idle"]
    /\ job' = [p \in Procs |-> NoJob]
    /\ todo' = [p \in Procs |-> {}]
    /\ UNCHANGED <<now, remote>>

Tick ==
    /\ now < MaxTime
    /\ now' = now + 1
    /\ UNCHANGED <<index, remote, pc, job, todo, untold>>

Write(p) ==
    \/ StartWrite(p) \/ Reserve(p) \/ EnsureParents(p)
    \/ UploadLands(p) \/ UploadFails(p) \/ Release(p)

Remove(p) ==
    StartRemove(p) \/ StartCleanup(p) \/ RemoveLands(p) \/ RemoveEnds(p) \/ Forget(p)

Next ==
    \/ \E p \in Procs : Write(p) \/ Remove(p) \/ StartRead(p) \/ Fetch(p)
    \/ \E n \in Scopes : RemoveDirectory(n)
    \/ Restart
    \/ Tick

Spec == Init /\ [][Next]_vars

-----------------------------------------------------------------------------
\* Properties

\* The tables are of files, and no deadline is later than a TTL from now.
IsTable(files) ==
    /\ DOMAIN files \subseteq Files
    /\ \A f \in DOMAIN files : files[f] \in [size : Sizes, due : 0 .. now + TTL]

\* Everything has its type, and no deadline is later than a TTL from now.
TypeOK ==
    /\ now \in Nat
    /\ IsTable(index)
    /\ IsTable(remote)
    /\ pc \in [Procs -> Labels]
    /\ job \in [Procs -> [file : Files, size : Sizes \cup {0}, due : 0 .. now + TTL]]
    /\ todo \in [Procs -> SUBSET Files]
    /\ untold \subseteq Files

\* However many writes overlap, what is booked stays within MaxTotalBytes.
QuotaRespected == MaxTotal > 0 => SumOf(index) <= MaxTotal

\* Bytes are booked for a file the server does not have only while a write of
\* it is under way or a removal has yet to book it out, or because a removal
\* never told the index (a lost answer, a directory): quota does not leak.
BookedFilesExist ==
    \A f \in DOMAIN index \ (DOMAIN remote \cup untold) :
       \E p \in Procs :
          /\ job[p].file = f
          /\ pc[p] \in {"parents", "upload", "release", "forget"}

\* A record never expires before the file the server has: checkRecord refuses,
\* and a cleanup collects, only what has outlived its TTL, even when writes of
\* the same path overlap and finish in the other order.
DeadlineCoversFile ==
    \A f \in DOMAIN index \cap DOMAIN remote : remote[f].due <= index[f].due

\* backend.go:487 "CleanupExpired removes files whose TTL has elapsed" and
\* 501-502 say a restart orphans files: an expired file leaves the index when it
\* is removed, or with the process.  reserve forgets it first.
ExpiredFilesAreRemoved ==
    [][\A f \in Expired :
          (f \in DOMAIN remote /\ f \notin DOMAIN index') => Restart]_vars
=============================================================================
