------------------------------- MODULE FileStore -------------------------------
(***************************************************************************)
(* Persistence: the hook of internal/store/memory.go that every write      *)
(* method calls once it has released the store's lock, the save it calls   *)
(* in internal/store/file.go, and the start and the stop of the process in *)
(* main.go.  The process may die at any step; the machine stays up.        *)
(*                                                                         *)
(* What a write does to the data is left to NoticeStore.  Here a write is  *)
(* a number, drawn in the order the store's lock was taken, and the set of *)
(* tables it changed; a table, in memory or in the data file, is the set   *)
(* of writes it shows the effect of.                                       *)
(***************************************************************************)
EXTENDS Naturals, Sequences

CONSTANTS
    Handler,       \* goroutines serving requests
    Main,          \* the goroutine of main
    MaxWrites,     \* bound: writes in a behaviour
    MaxFailures,   \* bound: failed writes of the data file
    MaxStarts      \* bound: starts of the process on an existing data file

ASSUME PersistenceOK ==
    /\ Main \notin Handler
    /\ MaxWrites \in Nat /\ MaxFailures \in Nat /\ MaxStarts \in Nat

VARIABLES
    phase,         \* "up"; "drained" or "late": main stops the process; "down"
    job,           \* what each goroutine is doing
    mu, saveMu,    \* the holders of the two locks, writing side
    mem,           \* the tables in memory
    disk,          \* the tables in the data file
    touched,       \* write -> the tables it changed
    saved,         \* the writes answered after their own save succeeded
    failures, starts

fileVars == <<phase, job, mu, saveMu, mem, disk, touched, saved, failures, starts>>

Process == Handler \cup {Main}

Table == {"users", "notices", "reads"}

\* What a write method changes: one table, or two when a deletion cascades.
Effects == {{t} : t \in Table} \cup {{"users", "reads"}, {"notices", "reads"}}

Empty == [t \in Table |-> {}]

\* flushes: how many Flush calls main still has to make, this one included.
Job == [at : {"idle", "unlock", "lock", "users", "notices", "reads", "temp", "rename"},
        write : 0 .. MaxWrites, flushes : 0 .. 2, snap : [Table -> SUBSET (1 .. MaxWrites)]]

\* A job with nothing copied yet.
Task(at, write, flushes) == [at |-> at, write |-> write, flushes |-> flushes, snap |-> Empty]

Idle == Task("idle", 0, 0)

At(p, stage) == job[p].at = stage

FileTypes ==
    /\ phase \in {"up", "drained", "late", "down"}
    /\ job \in [Process -> Job]
    /\ mu \subseteq Handler /\ saveMu \subseteq Process
    /\ mem \in [Table -> SUBSET (1 .. Len(touched))]
    /\ disk \in [Table -> SUBSET (1 .. Len(touched))]
    /\ touched \in Seq(Effects)
    /\ saved \subseteq 1 .. Len(touched)
    /\ failures \in 0 .. MaxFailures /\ starts \in 0 .. MaxStarts

\* Each lock is held by at most one goroutine, by it from the step that takes
\* the lock to the one that releases it, and not a step longer.
LocksHeld ==
    /\ mu = {p \in Process : At(p, "unlock")}
    /\ saveMu = {p \in Process :
                   job[p].at \in {"users", "notices", "reads", "temp", "rename"}}
    /\ \A p, q \in mu : p = q
    /\ \A p, q \in saveMu : p = q

\* The types of the variables, and whose the locks are: no way out of a save
\* forgets saveMu, which the deferred Unlock of file.go:75 sees to.
FileTypeOK == FileTypes /\ LocksHeld

FileInit ==
    /\ phase = "up"
    /\ job = [p \in Process |-> Idle]
    /\ mu = {} /\ saveMu = {}
    /\ mem = Empty /\ disk = Empty
    /\ touched = <<>>
    /\ saved = {}
    /\ failures = 0 /\ starts = 0

GoWith(p, stage, snap) ==
    job' = [job EXCEPT ![p] = [at |-> stage, write |-> job[p].write,
                               flushes |-> job[p].flushes, snap |-> snap]]

Go(p, stage) == GoWith(p, stage, job[p].snap)

-----------------------------------------------------------------------------
(* A write and its save.                                                    *)

\* The write method changes the tables under the store's lock.  While the
\* process stops only requests that were under way before still write, and
\* none is left once the server has drained.
Write(h, tables) ==
    /\ phase \in {"up", "late"}
    /\ At(h, "idle")
    /\ mu = {}
    /\ Len(touched) < MaxWrites
    /\ touched' = Append(touched, tables)
    /\ mem' = [t \in Table |-> IF t \in tables THEN mem[t] \cup {Len(touched')} ELSE mem[t]]
    /\ mu' = {h}
    /\ job' = [job EXCEPT ![h] = Task("unlock", Len(touched'), 0)]
    /\ UNCHANGED <<phase, saveMu, disk, saved, failures, starts>>

\* Mutant: the hook is called while the store's lock is still held.
UnlockAfterHook(h) ==
    /\ At(h, "unlock")
    /\ Go(h, "lock")
    /\ UNCHANGED <<phase, mu, saveMu, mem, disk, touched, saved, failures, starts>>

\* It releases the lock before it calls the hook.
Unlock(h) ==
    /\ At(h, "unlock")
    /\ mu' = {}
    /\ Go(h, "lock")
    /\ UNCHANGED <<phase, saveMu, mem, disk, touched, saved, failures, starts>>

\* Mutant: saves run side by side.
SaveUnlocked(p) ==
    /\ At(p, "lock")
    /\ Go(p, "users")
    /\ UNCHANGED <<phase, mu, saveMu, mem, disk, touched, saved, failures, starts>>

LockSave(p) ==
    /\ At(p, "lock")
    /\ saveMu = {}
    /\ saveMu' = {p}
    /\ Go(p, "users")
    /\ UNCHANGED <<phase, mu, mem, disk, touched, saved, failures, starts>>

\* AllUsers, AllNotices and AllReads: each takes and releases the read lock.
Copied == <<"users", "notices", "reads">>

Position(t) == CHOOSE i \in DOMAIN Copied : Copied[i] = t

\* Mutant: the read records are copied before the notices.
AfterReordered(t) ==
    CASE t = "users" -> "reads" [] t = "reads" -> "notices" [] t = "notices" -> "temp"

After(t) == IF Position(t) < Len(Copied) THEN Copied[Position(t) + 1] ELSE "temp"

CopyTable(p, t) ==
    /\ At(p, t)
    /\ mu = {}
    /\ GoWith(p, After(t), [job[p].snap EXCEPT ![t] = mem[t]])
    /\ UNCHANGED <<phase, mu, saveMu, mem, disk, touched, saved, failures, starts>>

\* Mutant: the data file itself is truncated and written in place.
WriteInPlace(p) ==
    /\ At(p, "temp")
    /\ disk' = Empty
    /\ Go(p, "rename")
    /\ UNCHANGED <<phase, mu, saveMu, mem, touched, saved, failures, starts>>

\* The temporary file is created, written, synced and closed.  Nobody reads it.
WriteTemp(p) ==
    /\ At(p, "temp")
    /\ Go(p, "rename")
    /\ UNCHANGED <<phase, mu, saveMu, mem, disk, touched, saved, failures, starts>>

\* The end of the process, by main or by a kill: what is in memory is lost.
Ended ==
    /\ phase' = "down"
    /\ job' = [p \in Process |-> Idle]
    /\ mu' = {} /\ saveMu' = {}
    /\ mem' = Empty

\* What follows the return of save in a handler, of Flush in main.
Return(p) ==
    \/ /\ job[p].flushes # 1
       /\ job' = [job EXCEPT ![p] = IF p # Main THEN Idle ELSE Task("lock", 0, 1)]
       /\ saveMu' = {}
       /\ UNCHANGED <<phase, mu, mem>>
    \/ job[p].flushes = 1 /\ Ended

\* The data file is replaced as a whole, for every process that starts later
\* on this machine (the directory is not synced), and a handler answers its request.
Rename(p) ==
    /\ At(p, "rename")
    /\ disk' = job[p].snap
    /\ saved' = saved \cup ({job[p].write} \ {0})
    /\ Return(p)
    /\ UNCHANGED <<touched, failures, starts>>

\* Mutant: the early return on an error leaves the save lock locked.
SaveFailedKeepingLock(p) ==
    /\ At(p, "temp") \/ At(p, "rename")
    /\ failures < MaxFailures
    /\ failures' = failures + 1
    /\ \/ /\ job[p].flushes # 1
          /\ job' = [job EXCEPT ![p] = IF p # Main THEN Idle ELSE Task("lock", 0, 1)]
          /\ UNCHANGED <<phase, mu, saveMu, mem>>
       \/ job[p].flushes = 1 /\ Ended
    /\ UNCHANGED <<disk, touched, saved, starts>>

\* Any step of writeAtomic fails: the temporary file is removed, the error is
\* logged and the request is answered as if it had been saved.
SaveFailed(p) ==
    /\ At(p, "temp") \/ At(p, "rename")
    /\ failures < MaxFailures
    /\ failures' = failures + 1
    /\ Return(p)
    /\ UNCHANGED <<disk, touched, saved, starts>>

-----------------------------------------------------------------------------
(* The process.                                                             *)

\* main flushes, and once more in the deferred function.
Stop(to, flushes) ==
    /\ phase = "up"
    /\ phase' = to
    /\ job' = [job EXCEPT ![Main] = Task("lock", 0, flushes)]
    /\ UNCHANGED <<mu, saveMu, mem, disk, touched, saved, failures, starts>>

\* Shutdown returns when no request is left, or when its time is over.
Drained == (\A h \in Handler : At(h, "idle")) /\ Stop("drained", 2)

TimedOut == (\E h \in Handler : ~At(h, "idle")) /\ Stop("late", 2)

\* The listener fails: run returns at once, through the deferred flush only.
ServeFailed == Stop("late", 1)

\* The process is killed.
Crash ==
    /\ phase # "down"
    /\ Ended
    /\ UNCHANGED <<disk, touched, saved, failures, starts>>

\* NewFileStore loads the data file, and an absent one is an empty store.
StartUp ==
    /\ phase = "down"
    /\ starts < MaxStarts
    /\ starts' = starts + 1
    /\ phase' = "up"
    /\ mem' = disk
    /\ UNCHANGED <<job, mu, saveMu, disk, touched, saved, failures>>

\* A goroutine's next step, once it has begun.
Step(p) ==
    \/ Unlock(p) \/ LockSave(p)
    \/ \E t \in Table : CopyTable(p, t)
    \/ WriteTemp(p) \/ Rename(p) \/ SaveFailed(p)

\* No write is under way and none begins: the only way the system rests.
Quiet == (\A p \in Process : At(p, "idle")) /\ UNCHANGED fileVars

FileNext ==
    \/ \E h \in Handler, tables \in Effects : Write(h, tables)
    \/ \E p \in Process : Step(p)
    \/ Drained \/ TimedOut \/ ServeFailed
    \/ Crash
    \/ StartUp
    \/ Quiet

FileSpec == FileInit /\ [][FileNext]_fileVars

\* A goroutine that can run does.  Writes are bounded, so each lock is free
\* again and again until no other goroutine wants it.
FileFairness == \A p \in Process : WF_fileVars(Step(p))

FairFileSpec == FileSpec /\ FileFairness

-----------------------------------------------------------------------------
(* Properties *)

\* A write that was answered after its save succeeded is in the data file, in
\* every table it changed, and survives every death of the process from then on.
AnsweredIsDurable == \A w \in saved : \A t \in touched[w] : w \in disk[t]

\* The locks, the copies, the temporary file and the restarts add up to the
\* promise of DurableStore.  A process that is down reads, when it starts, what
\* the data file holds.
Durable == INSTANCE DurableStore WITH
    mem <- IF phase = "down" THEN disk ELSE mem,
    acked <- saved

\* file.go:93 (writeAtomic) and :73 (saves one by one): the data file is never
\* replaced by an older or a broken one, whatever saves run at once and wherever
\* the process dies, and every write answered as saved survives.
ImplementsDurableStore == Durable!DurableSpec

\* A save that succeeds carries every write answered before it, those whose
\* own save had failed and nobody was told about included.
SaveCarriesAnswered ==
    [][disk' # disk =>
          LET pending == {job[h].write : h \in {q \in Handler : ~At(q, "rename")}}
          IN  \A t \in Table : mem[t] \ pending \subseteq disk'[t]]_fileVars

\* The writes a table of the data file lacks though another shows a later one.
Behind(t1, t2) == {w \in mem[t2] : w \notin disk[t2] /\ \E v \in disk[t1] : w <= v}

\* The tables are copied one after the other, so a table may show writes the
\* ones copied before it do not, but never the other way round.
LaterCopiesAreNewer ==
    \A t1, t2 \in Table : Position(t1) <= Position(t2) => Behind(t1, t2) = {}

\* file.go:34: the data file holds a snapshot taken under the read lock, a
\* state that memory was in.
FileIsSnapshot == \A t1, t2 \in Table : Behind(t1, t2) = {}

\* Every request is answered and every stop of the process ends: the two locks
\* never block each other.
SavesEnd == \A p \in Process : job[p] # Idle ~> job[p] = Idle

=============================================================================
