-------------------------------- MODULE Recovery --------------------------------
(***************************************************************************)
(* The NoticeStore with its data file: saves that copy the three tables    *)
(* under a lock each while calls go on, processes that die at any point,   *)
(* and ReplaceAll of internal/store/memory.go, which builds the tables and *)
(* their indexes from the file when the next one starts.                   *)
(*                                                                         *)
(* FileStore knows of a table only which writes it shows; here are the     *)
(* tables themselves, to see what the file's tears do to the next process. *)
(* Saves exclude each other (saveMu), so there is one under way at most.   *)
(* Who asks for it is left out: a save may begin at any time.              *)
(***************************************************************************)
EXTENDS NoticeStore

CONSTANTS
    MaxSaves,      \* bound: saves in a behaviour
    MaxStarts      \* bound: starts on an existing data file

ASSUME RecoveryBoundsOK == MaxSaves \in Nat /\ MaxStarts \in Nat

VARIABLES
    file,          \* the data file
    snap,          \* the copies of the save under way
    next,          \* what the save does next
    saves, starts

saveVars == <<file, snap, next>>
recoveryVars == <<vars, saveVars, saves, starts>>

\* What a data file holds.
Tables(us, ns, rs) == [users |-> us, notices |-> ns, reads |-> rs]

Empty == Tables(EmptyMap, EmptyMap, EmptyMap)

RecoveryInit ==
    /\ Init
    /\ file = Empty /\ snap = Empty
    /\ next = "begin"
    /\ saves = 0 /\ starts = 0

\* Any method that writes, by whatever caller.
StoreStep ==
    /\ UserOp \/ NoticeOp \/ ReadOp
    /\ UNCHANGED <<saveVars, saves, starts>>

-----------------------------------------------------------------------------
(* FileStore.save *)

BeginSave ==
    /\ next = "begin"
    /\ saves < MaxSaves
    /\ saves' = saves + 1
    /\ snap' = Tables(users, snap.notices, snap.reads)
    /\ next' = "notices"
    /\ UNCHANGED <<vars, file, starts>>

CopyNotices ==
    /\ next = "notices"
    /\ snap' = Tables(snap.users, notices, snap.reads)
    /\ next' = "reads"
    /\ UNCHANGED <<vars, file, saves, starts>>

CopyReads ==
    /\ next = "reads"
    /\ snap' = Tables(snap.users, snap.notices, reads)
    /\ next' = "write"
    /\ UNCHANGED <<vars, file, saves, starts>>

\* The data file is replaced as a whole, or it is not and the error logged.
EndSave ==
    /\ next = "write"
    /\ file' \in {snap, file}
    /\ snap' = Empty
    /\ next' = "begin"
    /\ UNCHANGED <<vars, saves, starts>>

-----------------------------------------------------------------------------
(* The next process. *)

\* Mutant: the index by (user, notice) is left to the reads to come.
ReplaceAllButIndex(data) ==
    /\ users' = data.users /\ notices' = data.notices /\ reads' = data.reads
    /\ username' \in [{data.users[u].name : u \in DOMAIN data.users} -> DOMAIN data.users]
    /\ \A name \in DOMAIN username' : data.users[username'[name]].name = name
    /\ readIdx' = EmptyMap

\* ReplaceAll: of entries with one name or one key the last in the file stays.
ReplaceAll(data) ==
    /\ users' = data.users /\ notices' = data.notices /\ reads' = data.reads
    /\ username' \in [{data.users[u].name : u \in DOMAIN data.users} -> DOMAIN data.users]
    /\ \A name \in DOMAIN username' : data.users[username'[name]].name = name
    /\ readIdx' \in [{Key(data.reads[r]) : r \in DOMAIN data.reads}
                        -> {data.reads[r] : r \in DOMAIN data.reads}]
    /\ \A k \in DOMAIN readIdx' : Key(readIdx'[k]) = k

\* Mutant: time is counted from the start of the process.
RecoverWithNewClock ==
    /\ starts < MaxStarts
    /\ starts' = starts + 1
    /\ ReplaceAll(file)
    /\ snap' = Empty /\ next' = "begin"
    /\ clock' = 1
    /\ UNCHANGED <<file, issued, saves>>

\* The process dies, whatever is under way, and the next one loads the file.
\* Clock and identifiers go on: no identifier that was lost is drawn again.
Recover ==
    /\ starts < MaxStarts
    /\ starts' = starts + 1
    /\ ReplaceAll(file)
    /\ snap' = Empty /\ next' = "begin"
    /\ UNCHANGED <<file, clock, issued, saves>>

RecoveryNext ==
    \/ StoreStep
    \/ BeginSave \/ CopyNotices \/ CopyReads \/ EndSave
    \/ Recover
    \/ UNCHANGED recoveryVars

RecoverySpec == RecoveryInit /\ [][RecoveryNext]_recoveryVars

-----------------------------------------------------------------------------
(* Properties *)

\* What of the store's invariant every process has, the torn file of an
\* earlier one notwithstanding: both indexes exact, times in order, nothing in
\* use that was not issued.  What it loses are ReadsReferToLive and, with it,
\* DraftReadsOlder: a record may come back without its notice, its user or the
\* publication it was made under.
RecoveryInv ==
    /\ TypeOK
    /\ Fresh
    /\ UsernameIndexExact
    /\ ReadCopiesAgree
    /\ PublicationTimed
    /\ ReadTimes

\* Records that came back without their notice or user stay without: whoever
\* is created later, account or notice, starts with no record at all.
NobodyInheritsReads ==
    [][StoreStep =>
          \A r \in DOMAIN reads :
              /\ reads[r].user \in DOMAIN users' => reads[r].user \in DOMAIN users
              /\ reads[r].notice \in DOMAIN notices' => reads[r].notice \in DOMAIN notices
      ]_recoveryVars

\* "更新即未读" (README 2.3) in every process: a record that came back newer than
\* its notice, even one on a draft, is outdated by the next edit, publication
\* or take-down, which all move UpdatedAt.
EditStillMakesUnread ==
    [][StoreStep /\ ~Coarse =>
          \A n \in DOMAIN notices \cap DOMAIN notices' :
              notices'[n].updatedAt # notices[n].updatedAt
              => \A u \in UserId : ~IsRead(u, n)']_recoveryVars

=============================================================================
