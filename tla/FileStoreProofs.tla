---------------------------- MODULE FileStoreProofs ----------------------------
(***************************************************************************)
(* Proofs about FileStore for every number of handlers, writes, failures   *)
(* and starts: saves exclude each other, and the copies of the one under   *)
(* way lie between the data file and memory.  From that follow what the    *)
(* death of the process can take, how a file may be torn, and that         *)
(* FileStore implements DurableStore.                                      *)
(***************************************************************************)
EXTENDS FileStore, TLAPS

-----------------------------------------------------------------------------
(* The inductive invariant *)

\* What a reader finds, now or after the next start.
Memory == IF phase = "down" THEN disk ELSE mem

\* The tables a save has copied, by where it is.
Taken == [users |-> {}, notices |-> {"users"}, reads |-> {"users", "notices"},
          temp |-> Table, rename |-> Table]

Saving(p) == job[p].at \in DOMAIN Taken

Took(p, t) == Saving(p) /\ t \in Taken[job[p].at]

\* Of the writes up to the last one t1 shows, t2 lacks none that readers find.
NoGap(tables, t1, t2) ==
    \A v \in tables[t1], w \in Memory[t2] : w <= v => w \in tables[t2]

WritesBounded == Len(touched) <= MaxWrites

DownAtRest == phase = "down" => mem = Empty /\ \A p \in Process : job[p] = Idle

\* main serves until it is told to stop.
MainRests == phase = "up" => job[Main] = Idle

SavesExclude == \A p \in Process : Saving(p) => saveMu = {p}

DiskFromMemory == \A t \in Table : disk[t] \subseteq Memory[t]

\* A request's own write is in memory, and in each copy its save has taken.
OwnWrites ==
    \A p \in Process : job[p].write # 0 =>
        /\ job[p].write \in 1 .. Len(touched)
        /\ \A t \in touched[job[p].write] :
              /\ job[p].write \in Memory[t]
              /\ Took(p, t) => job[p].write \in job[p].snap[t]

\* A copy has all of the data file, and nothing memory has not.
CopiesBetween ==
    \A p \in Process, t \in Table : Took(p, t) =>
        disk[t] \subseteq job[p].snap[t] /\ job[p].snap[t] \subseteq Memory[t]

\* What it lacks was written after it was taken, by a request that has to wait
\* for the save to end.
CopiesRecent ==
    \A p \in Process, t \in Table : Took(p, t) =>
        \A w \in Memory[t] \ job[p].snap[t] :
            \E h \in Handler : job[h].at \in {"unlock", "lock"} /\ job[h].write = w

CopiesOrdered ==
    \A p \in Process, t1, t2 \in Table :
        Took(p, t1) /\ Took(p, t2) /\ Position(t1) <= Position(t2)
        => NoGap(job[p].snap, t1, t2)

DiskOrdered ==
    \A t1, t2 \in Table : Position(t1) <= Position(t2) => NoGap(disk, t1, t2)

FileInv ==
    /\ FileTypes
    /\ WritesBounded
    /\ DownAtRest
    /\ SavesExclude
    /\ LocksHeld
    /\ MainRests
    /\ DiskFromMemory
    /\ OwnWrites
    /\ CopiesBetween
    /\ CopiesRecent
    /\ CopiesOrdered
    /\ DiskOrdered
    /\ AnsweredIsDurable

-----------------------------------------------------------------------------
(* The order in which a save copies the tables *)

\* Each table's place in the order of the copies, and the one after it.
LEMMA CopyOrder ==
    /\ Position("users") = 1 /\ Position("notices") = 2 /\ Position("reads") = 3
    /\ After("users") = "notices" /\ After("notices") = "reads" /\ After("reads") = "temp"
  <1>1. DOMAIN Copied = {1, 2, 3} /\ Len(Copied) = 3
        /\ Copied[1] = "users" /\ Copied[2] = "notices" /\ Copied[3] = "reads"
    BY DEF Copied
  <1>2. Position("users") = 1
    BY <1>1 DEF Position
  <1>3. Position("notices") = 2
    BY <1>1 DEF Position
  <1>4. Position("reads") = 3
    BY <1>1 DEF Position
  <1> QED  BY <1>1, <1>2, <1>3, <1>4 DEF After

\* Once a table is copied the save has it and the ones before it, no other.
LEMMA TakenGrows ==
    ASSUME NEW t \in Table
    PROVE  /\ t \in DOMAIN Taken /\ After(t) \in DOMAIN Taken
           /\ Taken[After(t)] = Taken[t] \cup {t}
           /\ t \notin Taken[t]
           /\ \A s \in Taken[t] : Position(s) < Position(t)
  BY CopyOrder DEF Taken, Table

-----------------------------------------------------------------------------
(* Types *)

\* A job that begins is one.
LEMMA TaskType ==
    ASSUME NEW at \in {"idle", "unlock", "lock"}, NEW w \in 0 .. MaxWrites, NEW n \in 0 .. 2
    PROVE  Task(at, w, n) \in Job
  BY DEF Task, Job, Empty

\* A job that moves on stays one.
LEMMA GoType ==
    ASSUME FileTypes, NEW p \in Process,
           NEW stage \in {"lock", "users", "notices", "reads", "temp", "rename"},
           NEW snap \in [Table -> SUBSET (1 .. MaxWrites)], GoWith(p, stage, snap)
    PROVE  job' \in [Process -> Job]
  <1>1. job[p].write \in 0 .. MaxWrites /\ job[p].flushes \in 0 .. 2
    BY DEF FileTypes, Job
  <1>2. [at |-> stage, write |-> job[p].write, flushes |-> job[p].flushes, snap |-> snap] \in Job
    BY <1>1 DEF Job
  <1> QED  BY <1>2 DEF GoWith, FileTypes

\* A file store that starts with an empty disk has the invariant.
LEMMA FileInitInv == FileInit => FileInv
  <1> SUFFICES ASSUME FileInit
               PROVE  FileInv
    OBVIOUS
  <1>1. /\ \A p \in Process : job[p] = Idle
        /\ \A t \in Table : mem[t] = {} /\ disk[t] = {} /\ Memory[t] = {}
        /\ Len(touched) = 0 /\ saved = {} /\ phase = "up"
    BY DEF FileInit, Empty, Memory
  <1>2. \A p \in Process : ~Saving(p) /\ job[p].write = 0
    BY <1>1 DEF Saving, Idle, Task, Taken
  <1>3. FileTypes
    <2>1. Idle \in Job
      BY PersistenceOK, TaskType DEF Idle
    <2>2. touched \in Seq(Effects)
      BY DEF FileInit
    <2> QED  BY <2>1, <2>2, PersistenceOK DEF FileInit, FileTypes, Empty
  <1>4. WritesBounded
    BY <1>1, PersistenceOK DEF WritesBounded
  <1>5. DiskFromMemory /\ DiskOrdered /\ AnsweredIsDurable
    BY <1>1 DEF DiskFromMemory, DiskOrdered, NoGap, AnsweredIsDurable
  <1>6. LocksHeld /\ MainRests
    BY <1>1, PersistenceOK DEF FileInit, LocksHeld, MainRests, At, Idle, Task, Process
  <1> QED  BY <1>1, <1>2, <1>3, <1>4, <1>5, <1>6
           DEF FileInv, DownAtRest, SavesExclude, OwnWrites, CopiesBetween, CopiesRecent,
               CopiesOrdered, Took

\* Where a goroutine goes when its save is over is a job again.
LEMMA ReturnType ==
    ASSUME FileTypes, NEW p \in Process, Return(p)
    PROVE  /\ phase' \in {"up", "drained", "late", "down"}
           /\ job' \in [Process -> Job] /\ mu' \subseteq Handler /\ saveMu' = {}
           /\ mem' \in [Table -> SUBSET (1 .. Len(touched))]
  <1>1. Idle \in Job /\ Task("lock", 0, 1) \in Job
    BY TaskType, PersistenceOK DEF Idle
  <1>2. CASE /\ job' = [job EXCEPT ![p] = IF p # Main THEN Idle ELSE Task("lock", 0, 1)]
             /\ saveMu' = {}
             /\ UNCHANGED <<phase, mu, mem>>
    BY <1>1, <1>2 DEF FileTypes
  <1>3. CASE Ended
    BY <1>1, <1>3 DEF FileTypes, Ended, Empty
  <1> QED  BY <1>2, <1>3 DEF Return

\* Every step keeps the types and the bounds.
LEMMA FileTypeStep ==
    ASSUME FileInv, [FileNext]_fileVars
    PROVE  FileTypes' /\ WritesBounded'
  <1> /\ FileTypes /\ WritesBounded /\ CopiesBetween /\ OwnWrites
    BY DEF FileInv
  <1> /\ MaxWrites \in Nat /\ MaxFailures \in Nat /\ MaxStarts \in Nat /\ Len(touched) \in Nat
      /\ Len(touched) <= MaxWrites
    BY PersistenceOK DEF FileTypes, WritesBounded
  <1>2. ASSUME NEW h \in Handler, NEW tables \in Effects, Write(h, tables)
        PROVE  FileTypes' /\ WritesBounded'
    <2>1. /\ touched' \in Seq(Effects) /\ Len(touched') = Len(touched) + 1
          /\ Len(touched') \in 1 .. MaxWrites
      BY <1>2 DEF Write, FileTypes
    <2>2. mem' \in [Table -> SUBSET (1 .. Len(touched'))]
      BY <1>2, <2>1 DEF Write, FileTypes
    <2>3. job' \in [Process -> Job]
      <3>1. Task("unlock", Len(touched'), 0) \in Job
        BY <2>1, TaskType
      <3> QED  BY <1>2, <3>1 DEF Write, FileTypes, Process
    <2>4. /\ disk' \in [Table -> SUBSET (1 .. Len(touched'))]
          /\ saved' \subseteq 1 .. Len(touched')
      BY <1>2, <2>1 DEF Write, FileTypes
    <2> QED  BY <1>2, <2>1, <2>2, <2>3, <2>4 DEF Write, FileTypes, WritesBounded
  <1>3. ASSUME NEW p \in Process, NEW stage \in {"lock", "users", "rename"}, Go(p, stage)
        PROVE  job' \in [Process -> Job]
    <2>1. job[p].snap \in [Table -> SUBSET (1 .. MaxWrites)]
      BY DEF FileTypes, Job
    <2> QED  BY <1>3, <2>1, GoType DEF Go
  <1>4. ASSUME NEW p \in Process, Unlock(p) \/ LockSave(p) \/ WriteTemp(p)
        PROVE  FileTypes' /\ WritesBounded'
    BY <1>3, <1>4 DEF Unlock, LockSave, WriteTemp, FileTypes, WritesBounded
  <1>5. ASSUME NEW p \in Process, NEW t \in Table, CopyTable(p, t)
        PROVE  FileTypes' /\ WritesBounded'
    <2>1. mem[t] \in SUBSET (1 .. MaxWrites)
      BY DEF FileTypes
    <2>2. After(t) \in {"notices", "reads", "temp"}
      BY CopyOrder DEF Table
    <2>3. [job[p].snap EXCEPT ![t] = mem[t]] \in [Table -> SUBSET (1 .. MaxWrites)]
      BY <2>1 DEF FileTypes, Job
    <2>4. job' \in [Process -> Job]
      BY <1>5, <2>2, <2>3, GoType DEF CopyTable
    <2> QED  BY <1>5, <2>4 DEF CopyTable, FileTypes, WritesBounded
  <1>6. ASSUME NEW p \in Process, Rename(p)
        PROVE  FileTypes' /\ WritesBounded'
    <2>1. disk' \in [Table -> SUBSET (1 .. Len(touched))]
      <3>1. job[p].snap \in [Table -> SUBSET (1 .. MaxWrites)]
        BY DEF FileTypes, Job
      <3>2. \A t \in Table : Took(p, t)
        BY <1>6 DEF Rename, At, Took, Saving, Taken
      <3>3. \A t \in Table : Memory[t] \subseteq 1 .. Len(touched)
        BY DEF Memory, FileTypes
      <3>4. \A t \in Table : job[p].snap[t] \subseteq 1 .. Len(touched)
        BY <3>2, <3>3 DEF CopiesBetween
      <3> QED  BY <1>6, <3>1, <3>4 DEF Rename
    <2>2. saved' \subseteq 1 .. Len(touched)
      BY <1>6 DEF Rename, OwnWrites, FileTypes
    <2> QED  BY <1>6, <2>1, <2>2, ReturnType DEF Rename, FileTypes, WritesBounded
  <1>7. ASSUME NEW p \in Process, SaveFailed(p)
        PROVE  FileTypes' /\ WritesBounded'
    BY <1>7, ReturnType DEF SaveFailed, FileTypes, WritesBounded
  <1>8. ASSUME NEW to \in {"drained", "late"}, NEW n \in {1, 2}, Stop(to, n)
        PROVE  FileTypes' /\ WritesBounded'
    <2>1. Task("lock", 0, n) \in Job
      BY TaskType
    <2> QED  BY <1>8, <2>1 DEF Stop, FileTypes, WritesBounded
  <1>9. CASE Crash
    <2>1. Idle \in Job
      BY TaskType DEF Idle
    <2> QED  BY <1>9, <2>1 DEF Crash, Ended, FileTypes, WritesBounded, Empty
  <1>10. CASE StartUp
    BY <1>10 DEF StartUp, FileTypes, WritesBounded
  <1>11. CASE Quiet \/ UNCHANGED fileVars
    BY <1>11 DEF Quiet, fileVars, FileTypes, WritesBounded
  <1> QED
    BY <1>2, <1>4, <1>5, <1>6, <1>7, <1>8, <1>9, <1>10, <1>11
       DEF FileNext, Step, Drained, TimedOut, ServeFailed

-----------------------------------------------------------------------------
(* Locks *)

\* What stays of a process that is down, and who may be in a save.
LEMMA LocksStep ==
    ASSUME FileInv, [FileNext]_fileVars
    PROVE  DownAtRest' /\ SavesExclude'
  <1> FileTypes /\ DownAtRest /\ SavesExclude
    BY DEF FileInv
  <1>1. /\ Idle.at \notin DOMAIN Taken
        /\ \A at \in {"unlock", "lock"} : \A w, n : Task(at, w, n).at \notin DOMAIN Taken
    BY DEF Idle, Task, Taken
  <1>2. ASSUME NEW h \in Handler, NEW tables \in Effects, Write(h, tables)
        PROVE  DownAtRest' /\ SavesExclude'
    BY <1>1, <1>2 DEF Write, DownAtRest, SavesExclude, Saving, FileTypes
  <1>3. ASSUME NEW p \in Process, NEW stage, NEW snap, GoWith(p, stage, snap)
        PROVE  /\ job'[p].at = stage
               /\ \A q \in Process : q # p => job'[q] = job[q]
    BY <1>3 DEF GoWith, FileTypes
  <1>4. ASSUME NEW p \in Process, Unlock(p)
        PROVE  DownAtRest' /\ SavesExclude'
    <2>1. phase # "down"
      BY <1>4 DEF Unlock, At, DownAtRest, Idle, Task
    <2>2. "lock" \notin DOMAIN Taken
      BY DEF Taken
    <2> QED  BY <1>3, <1>4, <2>1, <2>2 DEF Unlock, Go, DownAtRest, SavesExclude, Saving
  <1>5. ASSUME NEW p \in Process, LockSave(p)
        PROVE  DownAtRest' /\ SavesExclude'
    <2>1. phase # "down"
      BY <1>5 DEF LockSave, At, DownAtRest, Idle, Task
    <2>2. \A q \in Process : ~Saving(q)
      BY <1>5 DEF LockSave, SavesExclude
    <2> QED  BY <1>3, <1>5, <2>1, <2>2 DEF LockSave, Go, DownAtRest, SavesExclude, Saving
  <1>6. ASSUME NEW p \in Process, Saving(p), NEW stage, NEW snap, GoWith(p, stage, snap),
               UNCHANGED <<phase, saveMu>>
        PROVE  DownAtRest' /\ SavesExclude'
    <2>1. phase # "down"
      BY <1>1, <1>6 DEF DownAtRest, Saving
    <2> QED  BY <1>3, <1>6, <2>1 DEF DownAtRest, SavesExclude, Saving
  <1>7. ASSUME NEW p \in Process, NEW t \in Table, CopyTable(p, t)
        PROVE  DownAtRest' /\ SavesExclude'
    BY <1>6, <1>7, TakenGrows DEF CopyTable, At, Saving
  <1>8. ASSUME NEW p \in Process, WriteTemp(p)
        PROVE  DownAtRest' /\ SavesExclude'
    BY <1>6, <1>8 DEF WriteTemp, Go, At, Saving, Taken
  <1>9. CASE Ended
    BY <1>1, <1>9 DEF Ended, DownAtRest, SavesExclude, Saving
  <1>10. ASSUME NEW p \in Process, Saving(p), Return(p)
         PROVE  DownAtRest' /\ SavesExclude'
    <2>1. CASE /\ job' = [job EXCEPT ![p] = IF p # Main THEN Idle ELSE Task("lock", 0, 1)]
               /\ UNCHANGED phase
      <3>1. phase # "down"
        BY <1>1, <1>10 DEF DownAtRest, Saving
      <3>2. \A q \in Process : q # p => ~Saving(q)
        BY <1>10 DEF SavesExclude
      <3>3. ~Saving(p)' /\ \A q \in Process : q # p => job'[q] = job[q]
        BY <1>1, <2>1 DEF FileTypes, Saving
      <3> QED  BY <2>1, <3>1, <3>2, <3>3 DEF DownAtRest, SavesExclude, Saving
    <2> QED  BY <1>9, <1>10, <2>1 DEF Return
  <1>11. ASSUME NEW p \in Process, Rename(p) \/ SaveFailed(p)
         PROVE  DownAtRest' /\ SavesExclude'
    BY <1>10, <1>11 DEF Rename, SaveFailed, At, Saving, Taken
  <1>12. ASSUME NEW to \in {"drained", "late"}, NEW n \in {1, 2}, Stop(to, n)
         PROVE  DownAtRest' /\ SavesExclude'
    BY <1>1, <1>12 DEF Stop, DownAtRest, SavesExclude, Saving, FileTypes
  <1>13. CASE Crash
    BY <1>9, <1>13 DEF Crash
  <1>14. CASE StartUp
    BY <1>1, <1>14 DEF StartUp, DownAtRest, SavesExclude, Saving
  <1>15. CASE Quiet \/ UNCHANGED fileVars
    BY <1>15 DEF Quiet, fileVars, DownAtRest, SavesExclude, Saving
  <1> QED
    BY <1>2, <1>4, <1>5, <1>7, <1>8, <1>11, <1>12, <1>13, <1>14, <1>15
       DEF FileNext, Step, Drained, TimedOut, ServeFailed

\* What a step does to the jobs moves the locks along with them.
LEMMA LocksHeldStep ==
    ASSUME FileInv, [FileNext]_fileVars
    PROVE  LocksHeld' /\ MainRests'
  <1> DEFINE Stages == {"users", "notices", "reads", "temp", "rename"}
  <1> /\ FileTypes /\ DownAtRest /\ LocksHeld /\ MainRests /\ Main \in Process /\ Main \notin Handler
    BY PersistenceOK DEF FileInv, Process
  <1>1. /\ Idle.at = "idle" /\ \A w, n : Task("lock", w, n).at = "lock"
        /\ \A w, n : Task("unlock", w, n).at = "unlock"
    BY DEF Idle, Task
  <1>2. /\ mu \subseteq Handler
        /\ \A p \in Process : (p \in mu <=> job[p].at = "unlock")
                               /\ (p \in saveMu <=> job[p].at \in Stages)
        /\ saveMu \subseteq Process
        /\ \A p, q \in mu : p = q
        /\ \A p, q \in saveMu : p = q
    BY DEF FileTypes, LocksHeld, At
  <1>3. ASSUME mu' \subseteq Process, saveMu' \subseteq Process,
               \A p \in Process : (p \in mu' <=> job'[p].at = "unlock")
                                  /\ (p \in saveMu' <=> job'[p].at \in Stages),
               \A p, q \in mu' : p = q,
               \A p, q \in saveMu' : p = q
        PROVE  LocksHeld'
    BY <1>3 DEF LocksHeld, At
  <1>. HIDE DEF Stages
  <1>14. ASSUME NEW p \in Process, mu' \subseteq Process, saveMu' \subseteq Process,
                \A q \in Process : q # p => /\ job'[q] = job[q]
                                            /\ q \in mu' <=> q \in mu
                                            /\ q \in saveMu' <=> q \in saveMu,
                p \in mu' <=> job'[p].at = "unlock",
                p \in saveMu' <=> job'[p].at \in Stages,
                p \in mu' => mu \subseteq {p},
                p \in saveMu' => saveMu \subseteq {p}
         PROVE  LocksHeld'
    <2>1. \A q \in Process : (q \in mu' <=> job'[q].at = "unlock")
                             /\ (q \in saveMu' <=> job'[q].at \in Stages)
      BY <1>2, <1>14
    <2>2. (\A q, r \in mu' : q = r) /\ (\A q, r \in saveMu' : q = r)
      BY <1>2, <1>14
    <2> QED  BY <1>3, <1>14, <2>1, <2>2
  <1>4. ASSUME NEW h \in Handler, NEW tables \in Effects, Write(h, tables)
        PROVE  LocksHeld' /\ MainRests'
    <2>1. /\ job[h].at = "idle" /\ job'[h].at = "unlock" /\ mu = {} /\ mu' = {h} /\ saveMu' = saveMu
          /\ \A q \in Process : q # h => job'[q] = job[q]
          /\ phase' = phase /\ h \in Process /\ h # Main
      BY <1>1, <1>4 DEF Write, FileTypes, Process, At
    <2>2. MainRests'
      BY <2>1 DEF MainRests
    <2>3. "unlock" \notin Stages /\ "idle" \notin Stages
      BY DEF Stages
    <2> QED  BY <1>2, <1>14, <2>1, <2>2, <2>3
  <1>5. ASSUME NEW p \in Process, NEW stage, NEW snap, GoWith(p, stage, snap)
        PROVE  /\ job'[p].at = stage
               /\ \A q \in Process : q # p => job'[q] = job[q]
    BY <1>5 DEF GoWith, FileTypes
  <1>6. ASSUME NEW p \in Process, Unlock(p)
        PROVE  LocksHeld' /\ MainRests'
    <2>1. /\ job[p].at = "unlock" /\ job'[p].at = "lock" /\ mu' = {} /\ saveMu' = saveMu
          /\ \A q \in Process : q # p => job'[q] = job[q]
          /\ phase' = phase
      BY <1>5, <1>6 DEF Unlock, Go, At
    <2>2. p \in mu /\ p # Main
      BY <1>2, <2>1
    <2>3. MainRests'
      BY <2>1, <2>2 DEF MainRests
    <2>4. "unlock" \notin Stages /\ "lock" \notin Stages
      BY DEF Stages
    <2>5. mu = {p}
      BY <1>2, <2>2
    <2> QED  BY <1>2, <1>14, <2>1, <2>3, <2>4, <2>5
  <1>7. ASSUME NEW p \in Process, LockSave(p)
        PROVE  LocksHeld' /\ MainRests'
    <2>1. /\ job[p].at = "lock" /\ job'[p].at = "users" /\ mu' = mu /\ saveMu = {} /\ saveMu' = {p}
          /\ \A q \in Process : q # p => job'[q] = job[q]
          /\ phase' = phase
      BY <1>5, <1>7 DEF LockSave, Go, At
    <2>2. MainRests'
      BY <1>1, <2>1 DEF MainRests
    <2>3. "users" \in Stages /\ "lock" \notin Stages
      BY DEF Stages
    <2>4. p \notin mu /\ mu' \subseteq Process /\ saveMu' \subseteq Process
      BY <1>2, <2>1 DEF Process
    <2>5. \A q \in Process : q # p => (q \in saveMu' <=> q \in saveMu)
      BY <2>1
    <2> QED  BY <1>14, <2>1, <2>2, <2>3, <2>4, <2>5
  <1>8. ASSUME NEW p \in Process, NEW t \in Table, CopyTable(p, t) \/ WriteTemp(p)
        PROVE  LocksHeld' /\ MainRests'
    <2>1. After(t) \in Stages /\ t \in Stages /\ "temp" \in Stages /\ "rename" \in Stages
      BY CopyOrder DEF Table, Stages
    <2>2. /\ job[p].at \in Stages /\ job'[p].at \in Stages /\ mu' = mu /\ saveMu' = saveMu
          /\ \A q \in Process : q # p => job'[q] = job[q]
          /\ phase' = phase
      BY <1>5, <1>8, <2>1 DEF CopyTable, WriteTemp, Go, At
    <2>3. "unlock" \notin Stages /\ "idle" \notin Stages
      BY DEF Stages
    <2>4. MainRests'
      BY <1>1, <2>2, <2>3 DEF MainRests
    <2>5. p \notin mu /\ saveMu \subseteq {p} /\ mu' \subseteq Process /\ saveMu' \subseteq Process
      BY <1>2, <2>2, <2>3 DEF Process
    <2>6. p \in saveMu'
      BY <1>2, <2>2
    <2> QED  BY <1>14, <2>2, <2>3, <2>4, <2>5, <2>6
  <1>9. CASE Ended
    <2>1. \A p \in Process : job'[p].at # "unlock" /\ job'[p].at \notin Stages
      BY <1>1, <1>9 DEF Ended, Stages
    <2>2. MainRests'
      BY <1>9 DEF Ended, MainRests
    <2> QED  BY <1>3, <1>9, <2>1, <2>2 DEF Ended
  <1>10. ASSUME NEW p \in Process, Rename(p) \/ SaveFailed(p)
         PROVE  LocksHeld' /\ MainRests'
    <2>0. job[p].at \in Stages /\ Return(p)
      BY <1>10 DEF Rename, SaveFailed, At, Stages
    <2>1. CASE /\ job' = [job EXCEPT ![p] = IF p # Main THEN Idle ELSE Task("lock", 0, 1)]
               /\ saveMu' = {}
               /\ UNCHANGED <<phase, mu, mem>>
      <3>1. /\ job'[p].at \in {"idle", "lock"}
            /\ \A q \in Process : q # p => job'[q] = job[q]
        BY <1>1, <2>1 DEF FileTypes
      <3>2. "unlock" \notin Stages /\ "lock" \notin Stages /\ "idle" \notin Stages
        BY DEF Stages
      <3>3. MainRests'
        BY <1>1, <2>0, <2>1, <3>1, <3>2 DEF MainRests
      <3>4. saveMu = {p} /\ p \notin mu
        BY <1>2, <2>0, <3>2
      <3>5. mu' \subseteq Process /\ saveMu' \subseteq Process
        BY <1>2, <2>1 DEF Process
      <3>6. p \notin mu' /\ p \notin saveMu' /\ job'[p].at # "unlock" /\ job'[p].at \notin Stages
        BY <2>1, <3>1, <3>2, <3>4
      <3>7. \A q \in Process : q # p => /\ job'[q] = job[q]
                                        /\ q \in mu' <=> q \in mu
                                        /\ q \in saveMu' <=> q \in saveMu
        BY <2>1, <3>1, <3>4
      <3>8. /\ p \in mu' <=> job'[p].at = "unlock"
            /\ p \in saveMu' <=> job'[p].at \in Stages
            /\ p \in mu' => mu \subseteq {p}
            /\ p \in saveMu' => saveMu \subseteq {p}
        BY <3>6
      <3>9. LocksHeld'
        BY <1>14, <3>5, <3>7, <3>8
      <3> QED  BY <3>3, <3>9
    <2> QED  BY <1>9, <2>0, <2>1 DEF Return
  <1>11. ASSUME NEW to \in {"drained", "late"}, NEW n \in {1, 2}, Stop(to, n)
         PROVE  LocksHeld' /\ MainRests'
    <2>1. /\ job[Main].at = "idle" /\ job'[Main].at = "lock" /\ mu' = mu /\ saveMu' = saveMu
          /\ \A q \in Process : q # Main => job'[q] = job[q]
      BY <1>1, <1>11 DEF Stop, FileTypes, MainRests
    <2>2. MainRests'
      BY <1>11 DEF Stop, MainRests
    <2>3. "lock" \notin Stages /\ "idle" \notin Stages
      BY DEF Stages
    <2>4. Main \notin mu /\ Main \notin saveMu
      BY <1>2, <2>1, <2>3 DEF Process
    <2> QED  BY <1>2, <1>14, <2>1, <2>2, <2>3, <2>4 DEF Process
  <1>12. CASE StartUp
    BY <1>12 DEF StartUp, DownAtRest, MainRests, LocksHeld, At
  <1>13. CASE Quiet \/ UNCHANGED fileVars
    BY <1>13 DEF Quiet, fileVars, MainRests, LocksHeld, At
  <1> QED
    BY <1>4, <1>6, <1>7, <1>8, <1>9, <1>10, <1>11, <1>12, <1>13
       DEF FileNext, Step, Drained, TimedOut, ServeFailed, Crash, Table

-----------------------------------------------------------------------------
(* Writes, copies and the data file *)

\* What the tables and the copies show of the writes.
ShownInv ==
    /\ DiskFromMemory /\ OwnWrites
    /\ CopiesBetween /\ CopiesRecent /\ CopiesOrdered
    /\ DiskOrdered /\ AnsweredIsDurable

\* What a write touches are tables.
LEMMA TouchedTables ==
    ASSUME FileTypes
    PROVE  \A w \in 1 .. Len(touched) : touched[w] \in Effects /\ touched[w] \subseteq Table
  BY DEF FileTypes, Effects, Table

\* A step that leaves the tables alone, takes no copy, and lets no waiting
\* request go while a save has copies.
LEMMA MovesStep ==
    ASSUME FileInv, UNCHANGED <<disk, touched, saved>>, Memory' = Memory,
           \A p \in Process : job'[p].write \in {job[p].write, 0},
           \A p \in Process, t \in Table :
              Took(p, t)' => Took(p, t) /\ job'[p].snap = job[p].snap
                             /\ \A h \in Handler : job[h].at \in {"unlock", "lock"} =>
                                   /\ job'[h].at \in {"unlock", "lock"}
                                   /\ job'[h].write = job[h].write
    PROVE  ShownInv'
  <1> ShownInv
    BY DEF FileInv, ShownInv
  <1>1. DiskFromMemory' /\ AnsweredIsDurable'
    BY DEF ShownInv, DiskFromMemory, AnsweredIsDurable
  <1>2. DiskOrdered'
    BY DEF ShownInv, DiskOrdered, NoGap
  <1>3. OwnWrites'
    <2>1. \A w \in 1 .. Len(touched) : touched[w] \subseteq Table
      BY TouchedTables DEF FileInv
    <2> QED  BY <2>1 DEF ShownInv, OwnWrites
  <1>4. CopiesBetween'
    BY DEF ShownInv, CopiesBetween
  <1>5. CopiesRecent'
    BY DEF ShownInv, CopiesRecent
  <1>6. CopiesOrdered'
    BY DEF ShownInv, CopiesOrdered, NoGap
  <1> QED  BY <1>1, <1>2, <1>3, <1>4, <1>5, <1>6 DEF ShownInv

\* The end of the process leaves what the data file holds, and no copies.
LEMMA EndedStep ==
    ASSUME FileInv, Ended, AnsweredIsDurable'
    PROVE  ShownInv'
  <1>1. Memory' = disk'
    BY DEF Ended, Memory
  <1>2. \A p \in Process : job'[p].write = 0 /\ ~Saving(p)'
    BY DEF Ended, Idle, Task, Saving, Taken
  <1> QED  BY <1>1, <1>2
           DEF ShownInv, DiskFromMemory, OwnWrites, CopiesBetween, CopiesRecent, CopiesOrdered,
               DiskOrdered, NoGap, Took

\* A write is the newest of all, and waits for the save under way.
LEMMA WriteStep ==
    ASSUME FileInv, NEW h \in Handler, NEW tables \in Effects, Write(h, tables)
    PROVE  ShownInv'
  <1> DEFINE new == Len(touched')
  <1> FileTypes /\ ShownInv
    BY DEF FileInv, ShownInv
  <1>1. /\ h \in Process /\ Memory = mem /\ Memory' = mem' /\ UNCHANGED <<disk, saved>>
        /\ job[h].at = "idle"
    BY DEF Write, Memory, Process, At
  <1>2. /\ Len(touched) \in Nat /\ new = Len(touched) + 1 /\ touched'[new] = tables
        /\ \A w \in 1 .. Len(touched) : touched'[w] = touched[w]
    BY DEF Write, FileTypes
  <1>3. /\ \A t \in Table : mem[t] \subseteq 1 .. Len(touched)
        /\ \A t \in Table : disk[t] \subseteq 1 .. Len(touched)
        /\ saved \subseteq 1 .. Len(touched)
    BY DEF FileTypes
  <1>4. \A t \in Table : /\ mem[t] \subseteq mem'[t] /\ mem'[t] \subseteq mem[t] \cup {new}
                         /\ t \in tables => new \in mem'[t]
    BY DEF Write
  <1>5. /\ job'[h].at = "unlock" /\ job'[h].write = new
        /\ \A p \in Process : p # h => job'[p] = job[p]
    BY <1>1 DEF Write, FileTypes, Task
  <1>6. \A p \in Process, t \in Table :
           Took(p, t)' => Took(p, t) /\ p # h /\ job'[p] = job[p]
    BY <1>5 DEF Took, Saving, Taken
  <1>7. DiskFromMemory'
    BY <1>1, <1>4 DEF ShownInv, DiskFromMemory
  <1>8. OwnWrites'
    <2> SUFFICES ASSUME NEW p \in Process, job'[p].write # 0
                 PROVE  /\ job'[p].write \in 1 .. new
                        /\ \A t \in touched'[job'[p].write] :
                              /\ job'[p].write \in mem'[t]
                              /\ Took(p, t)' => job'[p].write \in job'[p].snap[t]
      BY <1>1 DEF OwnWrites
    <2>1. CASE p = h
      <3>1. \A t \in tables : t \in Table
        BY DEF Effects, Table
      <3>2. ~Saving(h)'
        BY <1>5 DEF Saving, Taken
      <3> QED  BY <1>2, <1>4, <1>5, <2>1, <3>1, <3>2 DEF Took
    <2>2. CASE p # h
      <3>1. job'[p] = job[p]
        BY <1>5, <2>2
      <3>2. /\ job[p].write \in 1 .. Len(touched)
            /\ \A t \in touched[job[p].write] :
                  /\ job[p].write \in mem[t]
                  /\ Took(p, t) => job[p].write \in job[p].snap[t]
        BY <1>1, <3>1 DEF ShownInv, OwnWrites
      <3>3. touched[job[p].write] \subseteq Table
        BY <3>2, TouchedTables
      <3>4. touched'[job[p].write] = touched[job[p].write]
        BY <1>2, <3>2
      <3>5. \A t : Took(p, t)' = Took(p, t)
        BY <3>1 DEF Took, Saving
      <3> QED  BY <1>2, <1>4, <3>1, <3>2, <3>3, <3>4, <3>5
    <2> QED  BY <2>1, <2>2
  <1>9. CopiesBetween'
    BY <1>1, <1>4, <1>6 DEF ShownInv, CopiesBetween
  <1>10. CopiesRecent'
    <2> SUFFICES ASSUME NEW p \in Process, NEW t \in Table, Took(p, t)',
                        NEW w \in mem'[t] \ job'[p].snap[t]
                 PROVE  \E g \in Handler : job'[g].at \in {"unlock", "lock"} /\ job'[g].write = w
      BY <1>1 DEF CopiesRecent
    <2>1. CASE w = new
      BY <1>5, <2>1
    <2>2. CASE w # new
      <3>1. PICK g \in Handler : job[g].at \in {"unlock", "lock"} /\ job[g].write = w
        BY <1>1, <1>4, <1>6, <2>2 DEF ShownInv, CopiesRecent
      <3>2. g # h
        BY <1>1, <3>1
      <3> QED  BY <1>5, <3>1, <3>2 DEF Process
    <2> QED  BY <2>1, <2>2
  <1>11. CopiesOrdered'
    <2> SUFFICES ASSUME NEW p \in Process, NEW t1 \in Table, NEW t2 \in Table,
                        Took(p, t1)', Took(p, t2)', Position(t1) <= Position(t2)
                 PROVE  NoGap(job[p].snap, t1, t2)'
      BY DEF CopiesOrdered
    <2>1. Took(p, t1) /\ Took(p, t2) /\ job'[p] = job[p]
      BY <1>6
    <2>2. job[p].snap[t1] \subseteq 1 .. Len(touched)
      BY <1>1, <1>3, <2>1 DEF ShownInv, CopiesBetween
    <2>3. NoGap(job[p].snap, t1, t2)
      BY <2>1 DEF ShownInv, CopiesOrdered
    <2>4. \A v \in job[p].snap[t1], w \in Memory'[t2] : w <= v => w \in job[p].snap[t2]
      <3> DEFINE snap == job[p].snap
      <3>1. \A v \in snap[t1] : ~(new <= v)
        BY <1>2, <2>2
      <3> QED  BY <1>1, <1>4, <2>3, <3>1 DEF NoGap
    <2> QED  BY <2>1, <2>4 DEF NoGap
  <1>12. DiskOrdered'
    <2> SUFFICES ASSUME NEW t1 \in Table, NEW t2 \in Table, Position(t1) <= Position(t2)
                 PROVE  \A v \in disk[t1], w \in Memory'[t2] : w <= v => w \in disk[t2]
      BY <1>1 DEF DiskOrdered, NoGap
    <2>1. \A v \in disk[t1] : ~(new <= v)
      BY <1>2, <1>3
    <2> QED  BY <1>1, <1>4, <2>1 DEF ShownInv, DiskOrdered, NoGap
  <1>13. AnsweredIsDurable'
    BY <1>1, <1>2, <1>3 DEF ShownInv, AnsweredIsDurable
  <1> QED  BY <1>7, <1>8, <1>9, <1>10, <1>11, <1>12, <1>13 DEF ShownInv

\* The copy of a table is as new as memory.
LEMMA CopyStep ==
    ASSUME FileInv, NEW p \in Process, NEW t \in Table, CopyTable(p, t)
    PROVE  ShownInv'
  <1> DEFINE snap == job[p].snap
             copied == job'[p].snap
  <1> FileTypes /\ ShownInv
    BY DEF FileInv, ShownInv
  <1>1. /\ job[p].at = t /\ job'[p].at = After(t) /\ job'[p].write = job[p].write
        /\ copied = [snap EXCEPT ![t] = mem[t]] /\ snap \in [Table -> SUBSET (1 .. MaxWrites)]
        /\ \A q \in Process : q # p => job'[q] = job[q]
        /\ UNCHANGED <<phase, mem, disk, touched, saved>>
    BY DEF CopyTable, GoWith, At, FileTypes, Job
  <1>2. /\ copied[t] = mem[t]
        /\ \A s \in Table : s # t => copied[s] = snap[s]
    BY <1>1
  <1>3. Memory = mem /\ Memory' = mem
    <2>1. t # "idle"
      BY DEF Table
    <2>2. phase # "down"
      BY <1>1, <2>1 DEF FileInv, DownAtRest, Idle, Task
    <2> QED  BY <1>1, <2>2 DEF Memory
  <1>4. /\ \A s \in Table : Took(p, s)' <=> Took(p, s) \/ s = t
        /\ ~Took(p, t)
        /\ \A s \in Table : Took(p, s) => Position(s) < Position(t)
    BY <1>1, TakenGrows DEF Took, Saving
  <1>5. \A q \in Process, s \in Table : q # p => Took(q, s)' = Took(q, s)
    BY <1>1 DEF Took, Saving
  <1> HIDE DEF copied, snap
  <1>6. DiskFromMemory' /\ AnsweredIsDurable'
    BY <1>1, <1>3 DEF ShownInv, DiskFromMemory, AnsweredIsDurable
  <1>7. DiskOrdered'
    BY <1>1, <1>3 DEF ShownInv, DiskOrdered, NoGap
  <1>8. OwnWrites'
    <2> SUFFICES ASSUME NEW q \in Process, job'[q].write # 0
                 PROVE  /\ job'[q].write \in 1 .. Len(touched)
                        /\ \A s \in touched[job'[q].write] :
                              /\ job'[q].write \in mem[s]
                              /\ Took(q, s)' => job'[q].write \in job'[q].snap[s]
      BY <1>1, <1>3 DEF OwnWrites
    <2>1. job'[q].write = job[q].write
      BY <1>1
    <2>2. /\ job[q].write \in 1 .. Len(touched)
          /\ \A s \in touched[job[q].write] :
                /\ s \in Table /\ job[q].write \in mem[s]
                /\ Took(q, s) => job[q].write \in job[q].snap[s]
      BY <1>3, <2>1, TouchedTables DEF ShownInv, OwnWrites
    <2>3. CASE q = p
      BY <1>2, <1>4, <2>1, <2>2, <2>3 DEF copied, snap
    <2>4. CASE q # p
      BY <1>1, <1>5, <2>1, <2>2, <2>4
    <2> QED  BY <2>3, <2>4
  <1>9. CopiesBetween'
    <2> SUFFICES ASSUME NEW q \in Process, NEW s \in Table, Took(q, s)'
                 PROVE  disk[s] \subseteq job'[q].snap[s] /\ job'[q].snap[s] \subseteq mem[s]
      BY <1>1, <1>3 DEF CopiesBetween
    <2>1. CASE q = p /\ s = t
      BY <1>2, <1>3, <2>1 DEF copied, ShownInv, DiskFromMemory
    <2>2. CASE q = p /\ s # t
      BY <1>2, <1>3, <1>4, <2>2 DEF copied, snap, ShownInv, CopiesBetween
    <2>3. CASE q # p
      BY <1>1, <1>3, <1>5, <2>3 DEF ShownInv, CopiesBetween
    <2> QED  BY <2>1, <2>2, <2>3
  <1>10. CopiesRecent'
    <2>1. \A h \in Handler : job[h].at \in {"unlock", "lock"} => job'[h] = job[h]
      BY <1>1 DEF Process, Table
    <2> SUFFICES ASSUME NEW q \in Process, NEW s \in Table, Took(q, s)',
                        NEW w \in mem[s] \ job'[q].snap[s]
                 PROVE  \E h \in Handler : job[h].at \in {"unlock", "lock"} /\ job[h].write = w
      BY <1>3, <2>1 DEF CopiesRecent
    <2>2. CASE q = p
      BY <1>2, <1>3, <1>4, <2>2 DEF copied, snap, ShownInv, CopiesRecent
    <2>3. CASE q # p
      BY <1>1, <1>3, <1>5, <2>3 DEF ShownInv, CopiesRecent
    <2> QED  BY <2>2, <2>3
  <1>11. CopiesOrdered'
    <2> SUFFICES ASSUME NEW q \in Process, NEW t1 \in Table, NEW t2 \in Table,
                        Took(q, t1)', Took(q, t2)', Position(t1) <= Position(t2),
                        NEW v \in job'[q].snap[t1], NEW w \in mem[t2], w <= v
                 PROVE  w \in job'[q].snap[t2]
      BY <1>3 DEF CopiesOrdered, NoGap
    <2>1. CASE q = p /\ t2 = t
      BY <1>2, <2>1 DEF copied
    <2>2. CASE q = p /\ t2 # t
      <3>1. Position(t1) # Position(t) /\ t1 # t
        <4>1. Position(t2) < Position(t)
          BY <1>4, <2>2
        <4>2. Position(t1) \in Nat /\ Position(t2) \in Nat /\ Position(t) \in Nat
          BY CopyOrder DEF Table
        <4> QED  BY <4>1, <4>2
      <3> QED  BY <1>2, <1>3, <1>4, <2>2, <3>1 DEF copied, snap, ShownInv, CopiesOrdered, NoGap
    <2>3. CASE q # p
      BY <1>1, <1>3, <1>5, <2>3 DEF ShownInv, CopiesOrdered, NoGap
    <2> QED  BY <2>1, <2>2, <2>3
  <1> QED  BY <1>6, <1>7, <1>8, <1>9, <1>10, <1>11 DEF ShownInv

\* What the replaced data file gains and keeps.
LEMMA RenameGains ==
    ASSUME FileInv, NEW p \in Process, Rename(p)
    PROVE  /\ phase # "down" /\ Memory = mem /\ disk' = job[p].snap
           /\ \A t \in Table : disk[t] \subseteq disk'[t] /\ disk'[t] \subseteq mem[t]
           /\ \A t1, t2 \in Table : Position(t1) <= Position(t2) =>
                 \A v \in disk'[t1], w \in mem[t2] : w <= v => w \in disk'[t2]
           /\ saved \subseteq saved' /\ saved' \subseteq 1 .. Len(touched)
           /\ AnsweredIsDurable'
  <1> FileTypes /\ ShownInv
    BY DEF FileInv, ShownInv
  <1>1. job[p].at = "rename" /\ disk' = job[p].snap /\ UNCHANGED touched
    BY DEF Rename, At
  <1>2. phase # "down" /\ Memory = mem
    BY <1>1 DEF FileInv, DownAtRest, Idle, Task, Memory
  <1>3. \A t \in Table : Took(p, t)
    BY <1>1 DEF Took, Saving, Taken
  <1>4. \A t \in Table : disk[t] \subseteq disk'[t] /\ disk'[t] \subseteq mem[t]
    BY <1>1, <1>2, <1>3 DEF ShownInv, CopiesBetween
  <1>5. \A t1, t2 \in Table : Position(t1) <= Position(t2) =>
           \A v \in disk'[t1], w \in mem[t2] : w <= v => w \in disk'[t2]
    BY <1>1, <1>2, <1>3 DEF ShownInv, CopiesOrdered, NoGap
  <1>6. /\ saved' = saved \cup ({job[p].write} \ {0})
        /\ saved \subseteq 1 .. Len(touched)
    BY DEF Rename, FileTypes
  <1>7. job[p].write # 0 =>
           /\ job[p].write \in 1 .. Len(touched)
           /\ \A t \in touched[job[p].write] : job[p].write \in disk'[t]
    BY <1>1, <1>3, TouchedTables DEF ShownInv, OwnWrites
  <1>8. \A w \in saved : \A t \in touched[w] : w \in disk'[t]
    BY <1>4, <1>6, TouchedTables DEF ShownInv, AnsweredIsDurable
  <1>9. AnsweredIsDurable'
    BY <1>1, <1>6, <1>7, <1>8 DEF AnsweredIsDurable
  <1> QED  BY <1>1, <1>2, <1>4, <1>5, <1>6, <1>7, <1>9

\* The rename: the file is the copies, and the requests that waited for it may be
\* answered, unless the process has ended.
LEMMA RenameStep ==
    ASSUME FileInv, NEW p \in Process, Rename(p)
    PROVE  ShownInv'
  <1> FileTypes /\ ShownInv
    BY DEF FileInv, ShownInv
  <1>1. CASE Ended
    BY <1>1, EndedStep, RenameGains
  <1>2. CASE /\ job' = [job EXCEPT ![p] = IF p # Main THEN Idle ELSE Task("lock", 0, 1)]
             /\ UNCHANGED <<phase, mem>>
    <2>1. /\ Memory = mem /\ Memory' = mem /\ UNCHANGED touched
      BY <1>2, RenameGains DEF Memory, Rename
    <2>2. \A q \in Process : ~Saving(q)'
      <3>1. \A q \in Process : q # p => ~Saving(q)
        BY DEF FileInv, SavesExclude, Rename, At, Saving, Taken
      <3> QED  BY <1>2, <3>1 DEF Saving, Idle, Task, Taken, FileTypes
    <2>3. \A q \in Process : job'[q].write \in {job[q].write, 0}
      BY <1>2 DEF Idle, Task, FileTypes
    <2>4. OwnWrites'
      BY <2>1, <2>2, <2>3 DEF ShownInv, OwnWrites, Took
    <2>5. DiskFromMemory'
      BY <2>1, RenameGains DEF DiskFromMemory
    <2>6. DiskOrdered'
      BY <2>1, RenameGains DEF DiskOrdered, NoGap
    <2> QED
      BY <2>2, <2>4, <2>5, <2>6, RenameGains
         DEF ShownInv, CopiesBetween, CopiesRecent, CopiesOrdered, Took
  <1> QED  BY <1>1, <1>2 DEF Rename, Return

-----------------------------------------------------------------------------
(* The inductive step *)

\* Every step keeps what the requests, the copies and the disk show.
LEMMA ShownStep ==
    ASSUME FileInv, [FileNext]_fileVars
    PROVE  ShownInv'
  <1> FileTypes /\ ShownInv
    BY DEF FileInv, ShownInv
  <1>1. ASSUME NEW p \in Process, NEW stage, Go(p, stage)
        PROVE  /\ \A q \in Process : job'[q].write = job[q].write /\ job'[q].snap = job[q].snap
               /\ job'[p].at = stage
               /\ \A q \in Process : q # p => job'[q] = job[q]
    BY <1>1 DEF Go, GoWith, FileTypes
  <1>2. ASSUME NEW p \in Process, Unlock(p)
        PROVE  ShownInv'
    <2>1. UNCHANGED <<disk, touched, saved>> /\ Memory' = Memory /\ Go(p, "lock")
      BY <1>2 DEF Unlock, Memory
    <2>2. \A q \in Process, t \in Table : Took(q, t)' => Took(q, t)
      BY <1>1, <2>1 DEF Took, Saving, Taken
    <2>3. \A h \in Handler : job[h].at \in {"unlock", "lock"} => job'[h].at \in {"unlock", "lock"}
      BY <1>1, <2>1 DEF Process
    <2> QED  BY <1>1, <2>1, <2>2, <2>3, MovesStep DEF Process
  <1>3. ASSUME NEW p \in Process, LockSave(p)
        PROVE  ShownInv'
    <2>1. UNCHANGED <<disk, touched, saved>> /\ Memory' = Memory /\ Go(p, "users")
      BY <1>3 DEF LockSave, Memory
    <2>2. \A q \in Process : ~Saving(q)
      BY <1>3 DEF LockSave, FileInv, SavesExclude
    <2>3. \A q \in Process, t \in Table : ~Took(q, t)'
      BY <1>1, <2>1, <2>2 DEF Took, Saving, Taken
    <2> QED  BY <1>1, <2>1, <2>3, MovesStep
  <1>4. ASSUME NEW p \in Process, WriteTemp(p)
        PROVE  ShownInv'
    <2>1. UNCHANGED <<disk, touched, saved>> /\ Memory' = Memory /\ Go(p, "rename")
      BY <1>4 DEF WriteTemp, Memory
    <2>2. \A q \in Process, t \in Table : Took(q, t)' => Took(q, t)
      BY <1>1, <1>4, <2>1 DEF WriteTemp, At, Took, Saving, Taken
    <2>3. \A h \in Handler : job[h].at \in {"unlock", "lock"} => job'[h].at \in {"unlock", "lock"}
      BY <1>1, <1>4, <2>1 DEF WriteTemp, At, Process
    <2> QED  BY <1>1, <2>1, <2>2, <2>3, MovesStep DEF Process
  <1>5. ASSUME Ended, UNCHANGED <<disk, touched, saved>>
        PROVE  ShownInv'
    BY <1>5, EndedStep DEF ShownInv, AnsweredIsDurable
  <1>6. ASSUME NEW p \in Process, SaveFailed(p)
        PROVE  ShownInv'
    <2>1. CASE /\ job' = [job EXCEPT ![p] = IF p # Main THEN Idle ELSE Task("lock", 0, 1)]
               /\ UNCHANGED <<phase, mem>>
      <3>1. UNCHANGED <<disk, touched, saved>> /\ Memory' = Memory
        BY <1>6, <2>1 DEF SaveFailed, Memory
      <3>2. \A q \in Process : q # p => ~Saving(q)
        BY <1>6 DEF FileInv, SavesExclude, SaveFailed, At, Saving, Taken
      <3>3. \A q \in Process : ~Saving(q)'
        BY <2>1, <3>2 DEF Saving, Idle, Task, Taken, FileTypes
      <3>4. \A q \in Process : job'[q].write \in {job[q].write, 0}
        BY <2>1 DEF Idle, Task, FileTypes
      <3> QED  BY <3>1, <3>3, <3>4, MovesStep DEF Took
    <2> QED  BY <1>5, <1>6, <2>1 DEF SaveFailed, Return
  <1>7. ASSUME NEW to \in {"drained", "late"}, NEW n \in {1, 2}, Stop(to, n)
        PROVE  ShownInv'
    <2>1. UNCHANGED <<disk, touched, saved>> /\ Memory' = Memory
      BY <1>7 DEF Stop, Memory
    <2>2. /\ \A q \in Process : q # Main => job'[q] = job[q]
          /\ job'[Main] = Task("lock", 0, n)
      BY <1>7 DEF Stop, FileTypes, Process
    <2>3. ~Saving(Main)' /\ job'[Main].write = 0
      BY <2>2 DEF Saving, Task, Taken
    <2>4. \A q \in Process, t \in Table :
             Took(q, t)' => Took(q, t) /\ job'[q].snap = job[q].snap
      BY <2>2, <2>3 DEF Took, Saving
    <2>5. \A h \in Handler : job'[h] = job[h]
      BY <2>2, PersistenceOK DEF Process
    <2> QED  BY <2>1, <2>2, <2>3, <2>4, <2>5, MovesStep
  <1>8. CASE StartUp
    <2>1. UNCHANGED <<disk, touched, saved, job>> /\ Memory' = Memory
      BY <1>8 DEF StartUp, Memory
    <2> QED  BY <2>1, MovesStep DEF Took, Saving
  <1>9. CASE Quiet \/ UNCHANGED fileVars
    <2>1. UNCHANGED <<disk, touched, saved, job>> /\ Memory' = Memory
      BY <1>9 DEF Quiet, fileVars, Memory
    <2> QED  BY <2>1, MovesStep DEF Took, Saving
  <1> QED
    BY <1>2, <1>3, <1>4, <1>5, <1>6, <1>7, <1>8, <1>9, WriteStep, CopyStep, RenameStep
       DEF FileNext, Step, Drained, TimedOut, ServeFailed, Crash

\* Every step keeps the invariant.
LEMMA FileNextInv == FileInv /\ [FileNext]_fileVars => FileInv'
  BY FileTypeStep, LocksStep, LocksHeldStep, ShownStep DEF FileInv, ShownInv

\* The inductive invariant of persistence, over kills and restarts.
THEOREM FileInvariant == FileSpec => []FileInv
  BY FileInitInv, FileNextInv, PTL DEF FileSpec

\* FileTypeOK: the data file shows no write that was never made, and each lock is
\* held by one goroutine at most, exactly as long as it should be.
THEOREM FileTypeCorrect == FileSpec => []FileTypeOK
  <1>1. FileInv => FileTypeOK
    BY DEF FileInv, FileTypeOK
  <1> QED  BY <1>1, FileInvariant, PTL

\* A write answered after its save succeeded is in the data file for good, in
\* every table it changed.
THEOREM AnsweredStay == FileSpec => []AnsweredIsDurable
  <1>1. FileInv => AnsweredIsDurable
    BY DEF FileInv
  <1> QED  BY <1>1, FileInvariant, PTL

\* The data file is torn one way only: of two tables the one copied later is at
\* least as new.
THEOREM TornOneWay == FileSpec => []LaterCopiesAreNewer
  <1>1. FileInv => LaterCopiesAreNewer
    <2> SUFFICES ASSUME FileInv, NEW t1 \in Table, NEW t2 \in Table,
                        Position(t1) <= Position(t2), NEW w \in mem[t2],
                        NEW v \in disk[t1], w <= v
                 PROVE  w \in disk[t2]
      BY DEF LaterCopiesAreNewer, Behind
    <2>1. phase # "down"
      BY DEF FileInv, DownAtRest, Empty
    <2> QED  BY <2>1 DEF FileInv, DiskOrdered, NoGap, Memory
  <1> QED  BY <1>1, FileInvariant, PTL

\* Only the replacement of the data file changes it.
LEMMA DiskSteps ==
    ASSUME [FileNext]_fileVars, disk' # disk
    PROVE  \E p \in Process : Rename(p)
  BY DEF FileNext, Step, Drained, TimedOut, ServeFailed, Write, Unlock, LockSave, CopyTable,
         WriteTemp, SaveFailed, Stop, Crash, StartUp, Quiet, fileVars

\* A save that succeeds carries every write but those whose requests still wait
\* for a save of their own.
THEOREM SavesCarryAnswered == FileSpec => SaveCarriesAnswered
  <1>1. FileInv /\ [FileNext]_fileVars =>
          [disk' # disk =>
             LET pending == {job[h].write : h \in {q \in Handler : ~At(q, "rename")}}
             IN  \A t \in Table : mem[t] \ pending \subseteq disk'[t]]_fileVars
    <2> SUFFICES ASSUME FileInv, NEW p \in Process, Rename(p), NEW t \in Table, NEW w \in mem[t],
                        \A h \in Handler : ~At(h, "rename") => job[h].write # w
                 PROVE  w \in disk'[t]
      BY DiskSteps
    <2>1. Memory = mem /\ disk' = job[p].snap
      BY RenameGains
    <2>2. Took(p, t)
      BY DEF Rename, At, Took, Saving, Taken
    <2> QED  BY <2>1, <2>2 DEF FileInv, CopiesRecent, At
  <1> QED  BY <1>1, FileInvariant, PTL DEF FileSpec, SaveCarriesAnswered

-----------------------------------------------------------------------------
(* The refinement *)

\* A step writes, saves or ends the process as DurableStore has it, or leaves
\* what it speaks of alone.
LEMMA DurableStep ==
    ASSUME FileInv, [FileNext]_fileVars
    PROVE  [Durable!DurableNext]_Durable!durableVars
  <1> FileTypes
    BY DEF FileInv
  <1>1. ASSUME NEW h \in Handler, NEW tables \in Effects, Write(h, tables)
        PROVE  Durable!Record(tables)
    BY <1>1 DEF Write, Durable!Record
  <1>2. ASSUME NEW p \in Process, Rename(p)
        PROVE  Durable!Save
    <2>1. Memory' \in {mem, disk'}
      BY <1>2, RenameGains DEF Rename, Return, Ended, Memory
    <2>2. \A w \in saved' : \A t \in touched[w] : w \in disk'[t]
      BY <1>2, RenameGains DEF AnsweredIsDurable, Rename
    <2>3. DOMAIN touched = 1 .. Len(touched)
      BY DEF FileTypes
    <2> QED
      BY <1>2, <2>1, <2>2, <2>3, RenameGains
         DEF Durable!Save, Durable!Within, Durable!Holds, Rename, Memory
  <1>3. ASSUME Ended, UNCHANGED <<disk, touched, saved>>
        PROVE  Durable!Crash
    BY <1>3 DEF Ended, Durable!Crash
  <1>4. ASSUME UNCHANGED <<disk, touched, saved>>, Memory' = Memory
        PROVE  UNCHANGED Durable!durableVars
    BY <1>4 DEF Durable!durableVars, Memory
  <1>5. ASSUME UNCHANGED <<phase, mem>>
        PROVE  Memory' = Memory \/ disk' # disk
    BY <1>5 DEF Memory
  <1>6. ASSUME NEW p \in Process, SaveFailed(p)
        PROVE  Durable!Crash \/ UNCHANGED Durable!durableVars
    BY <1>3, <1>4, <1>5, <1>6 DEF SaveFailed, Return
  <1>7. ASSUME NEW p \in Process, \/ Unlock(p) \/ LockSave(p) \/ WriteTemp(p)
                                  \/ \E t \in Table : CopyTable(p, t)
        PROVE  UNCHANGED Durable!durableVars
    BY <1>4, <1>5, <1>7 DEF Unlock, LockSave, WriteTemp, CopyTable
  <1>8. ASSUME NEW to \in {"drained", "late"}, NEW n \in {1, 2}, Stop(to, n)
        PROVE  UNCHANGED Durable!durableVars
    BY <1>4, <1>8 DEF Stop, Memory
  <1>9. CASE StartUp
    BY <1>4, <1>9 DEF StartUp, Memory
  <1>10. CASE Quiet \/ UNCHANGED fileVars
    BY <1>4, <1>5, <1>10 DEF Quiet, fileVars
  <1> QED
    BY <1>1, <1>2, <1>3, <1>6, <1>7, <1>8, <1>9, <1>10
       DEF FileNext, Step, Drained, TimedOut, ServeFailed, Crash, Durable!DurableNext

\* Locks, copies, the temporary file, failing saves, shutdowns, kills and
\* restarts together keep the promise of DurableStore.
THEOREM PersistenceImplementsDurableStore == FileSpec => ImplementsDurableStore
  <1>1. FileInit => Durable!DurableInit
    BY DEF FileInit, Durable!DurableInit, Durable!Nothing, Empty
  <1>2. FileInv /\ [FileNext]_fileVars => [Durable!DurableNext]_Durable!durableVars
    BY DurableStep
  <1> QED
    BY <1>1, <1>2, FileInvariant, PTL DEF FileSpec, ImplementsDurableStore, Durable!DurableSpec

=============================================================================
