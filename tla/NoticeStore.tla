------------------------------ MODULE NoticeStore ------------------------------
(***************************************************************************)
(* The in-memory store of internal/store/memory.go: users with their       *)
(* unique-name index, notices, and read records kept twice, by record ID   *)
(* and by (user, notice).  Every method holds one sync.RWMutex from its    *)
(* first read to its last write, so every method is one atomic action.     *)
(*                                                                         *)
(* A method that returns an error changes nothing: it is the action being  *)
(* disabled.                                                               *)
(* Text stands for everything the body of a notice is (title, content,     *)
(* priority, category); Username for names after strings.TrimSpace; Secret *)
(* for salt, hash and iteration count.  Display names, authors and the     *)
(* users' own timestamps decide nothing here and are left out.             *)
(***************************************************************************)
EXTENDS Integers, Maps

CONSTANTS
    UserId, NoticeId, ReadId,  \* the identifiers genID can draw, by prefix
    Username, Secret, Text,
    Coarse,                    \* may two readings of the clock be equal?
    MaxTime,                   \* bound: the last instant of the clock
    MaxVersion                 \* bound: the largest credential version

ASSUME ConstantsOK ==
    /\ Coarse \in BOOLEAN
    /\ MaxTime \in Nat
    /\ MaxVersion \in Nat

VARIABLES
    users,     \* s.users: user ID -> user
    username,  \* s.username: user name -> user ID
    notices,   \* s.notices: notice ID -> notice
    reads,     \* s.reads: record ID -> read record
    readIdx,   \* s.readIdx: (user ID, notice ID) -> read record
    clock,     \* the latest reading of s.now
    issued     \* the identifiers genID has handed out; none is drawn twice

vars == <<users, username, notices, reads, readIdx, clock, issued>>

Role == {"admin", "resident"}
Status == {"draft", "published"}
NoTime == 0                    \* the nil *time.Time, before every reading

User == [name : Username, role : Role, secret : Secret, version : Nat]
Notice == [text : Text, status : Status, pinned : BOOLEAN,
           createdAt : Nat, updatedAt : Nat, publishAt : Nat]
ReadRecord == [id : ReadId, user : UserId, notice : NoticeId,
               createdAt : Nat, readAt : Nat]

Key(rr) == <<rr.user, rr.notice>>

\* A call of s.now(): its result is clock'.
Now == clock' \in {t \in {clock, clock + 1} : t <= MaxTime /\ (t = clock => Coarse)}

TypeOK ==
    /\ users \in [DOMAIN users -> User] /\ DOMAIN users \subseteq UserId
    /\ username \in [DOMAIN username -> UserId] /\ DOMAIN username \subseteq Username
    /\ notices \in [DOMAIN notices -> Notice] /\ DOMAIN notices \subseteq NoticeId
    /\ reads \in [DOMAIN reads -> ReadRecord] /\ DOMAIN reads \subseteq ReadId
    /\ readIdx \in [DOMAIN readIdx -> ReadRecord]
    /\ DOMAIN readIdx \subseteq UserId \X NoticeId
    /\ clock \in Nat \ {NoTime}
    /\ issued \subseteq UserId \cup NoticeId \cup ReadId

Init ==
    /\ users = EmptyMap
    /\ username = EmptyMap
    /\ notices = EmptyMap
    /\ reads = EmptyMap
    /\ readIdx = EmptyMap
    /\ clock = 1
    /\ issued = {}

-----------------------------------------------------------------------------
(* Users *)

CreateUser(u, name, role, secret) ==
    /\ u \notin issued
    /\ name \notin DOMAIN username
    /\ users' = Put(users, u, [name |-> name, role |-> role,
                               secret |-> secret, version |-> 0])
    /\ username' = Put(username, name, u)
    /\ issued' = issued \cup {u}
    /\ UNCHANGED <<notices, reads, readIdx, clock>>

\* Mutant: the old name stays in the index.
UpdateUserKeepingOldName(u, rec) ==
    /\ u \in DOMAIN users
    /\ rec.name \in DOMAIN username => username[rec.name] = u
    /\ username' = Put(username, rec.name, u)
    /\ users' = [users EXCEPT ![u] = rec]
    /\ UNCHANGED <<notices, reads, readIdx, clock, issued>>

\* The caller's record replaces the stored one, its version included.
UpdateUser(u, rec) ==
    /\ u \in DOMAIN users
    /\ LET old == users[u].name
           taken == {name \in DOMAIN username : username[name] # u}
       IN  /\ rec.name # old => rec.name \notin taken
           /\ username' = IF rec.name = old THEN username
                          ELSE Put(Drop(username, {old}), rec.name, u)
    /\ users' = [users EXCEPT ![u] = rec]
    /\ UNCHANGED <<notices, reads, readIdx, clock, issued>>

\* The version moves on from the stored one, never from a caller's copy.
SetUserPassword(u, secret) ==
    /\ u \in DOMAIN users
    /\ users[u].version < MaxVersion
    /\ users' = [users EXCEPT ![u] =
          [name |-> users[u].name, role |-> users[u].role,
           secret |-> secret, version |-> users[u].version + 1]]
    /\ UNCHANGED <<username, notices, reads, readIdx, clock, issued>>

\* The loops that remove read records walk s.reads and take the index entry
\* each record names along.
Forget(gone) ==
    /\ reads' = Drop(reads, gone)
    /\ readIdx' = Drop(readIdx, {Key(reads[r]) : r \in gone})

ReadsOfUser(u) == {r \in DOMAIN reads : reads[r].user = u}
ReadsOfNotice(n) == {r \in DOMAIN reads : reads[r].notice = n}

DeleteUser(u) ==
    /\ u \in DOMAIN users
    /\ users' = Drop(users, {u})
    /\ username' = Drop(username, {users[u].name})
    /\ Forget(ReadsOfUser(u))
    /\ UNCHANGED <<notices, clock, issued>>

-----------------------------------------------------------------------------
(* Notices.  The draft argument is the caller's copy of a notice.           *)

\* Mutant: an identifier that nothing has now is as good as a new one.
CreateNoticeReusingId(n, draft) ==
    /\ n \notin DOMAIN notices
    /\ Now
    /\ notices' = Put(notices, n,
          [text |-> draft.text, status |-> draft.status, pinned |-> draft.pinned,
           createdAt |-> clock', updatedAt |-> clock',
           publishAt |-> IF draft.status = "published" /\ draft.publishAt = NoTime
                           THEN clock' ELSE draft.publishAt])
    /\ UNCHANGED <<users, username, reads, readIdx, issued>>

CreateNotice(n, draft) ==
    /\ n \notin issued
    /\ Now
    /\ notices' = Put(notices, n,
          [text |-> draft.text, status |-> draft.status, pinned |-> draft.pinned,
           createdAt |-> clock', updatedAt |-> clock',
           publishAt |-> IF draft.status = "published" /\ draft.publishAt = NoTime
                           THEN clock' ELSE draft.publishAt])
    /\ issued' = issued \cup {n}
    /\ UNCHANGED <<users, username, reads, readIdx>>

\* Mutant: an edit leaves UpdatedAt alone.
RevisedInPlace(n, text, status, pinned, publishAt) ==
    [text |-> text, status |-> status, pinned |-> pinned,
     createdAt |-> notices[n].createdAt, updatedAt |-> notices[n].updatedAt,
     publishAt |-> publishAt]

\* A stored notice after a write that moves UpdatedAt, the time reads are
\* compared with.
Revised(n, text, status, pinned, publishAt) ==
    [text |-> text, status |-> status, pinned |-> pinned,
     createdAt |-> notices[n].createdAt, updatedAt |-> clock', publishAt |-> publishAt]

\* Mutant: a draft keeps the publication time of the caller's copy.
UpdateNoticeKeepingPublishAt(n, draft) ==
    /\ n \in DOMAIN notices
    /\ Now
    /\ notices' = [notices EXCEPT ![n] =
          Revised(n, draft.text, draft.status, draft.pinned, draft.publishAt)]
    /\ UNCHANGED <<users, username, reads, readIdx, issued>>

\* Everything but createdAt comes from the caller's copy: its status and its
\* pinned flag too, however old the copy is.
UpdateNotice(n, draft) ==
    /\ n \in DOMAIN notices
    /\ Now
    /\ notices' = [notices EXCEPT ![n] =
          Revised(n, draft.text, draft.status, draft.pinned,
                  IF draft.status = "draft" THEN NoTime
                  ELSE IF draft.publishAt = NoTime THEN clock' ELSE draft.publishAt)]
    /\ UNCHANGED <<users, username, reads, readIdx, issued>>

SetNoticeStatus(n, status) ==
    /\ n \in DOMAIN notices
    /\ Now
    /\ notices' = [notices EXCEPT ![n] =
          Revised(n, notices[n].text, status, notices[n].pinned,
                  IF status = "published" THEN clock' ELSE NoTime)]
    /\ UNCHANGED <<users, username, reads, readIdx, issued>>

\* Mutant: pinning takes UpdatedAt back to the creation.
UpdateNoticeMetadataRestamped(n, pinned) ==
    /\ n \in DOMAIN notices
    /\ notices' = [notices EXCEPT ![n].pinned = pinned,
                                  ![n].updatedAt = notices[n].createdAt]
    /\ UNCHANGED <<users, username, reads, readIdx, clock, issued>>

UpdateNoticeMetadata(n, pinned) ==
    /\ n \in DOMAIN notices
    /\ notices' = [notices EXCEPT ![n] =
          [text |-> notices[n].text, status |-> notices[n].status, pinned |-> pinned,
           createdAt |-> notices[n].createdAt, updatedAt |-> notices[n].updatedAt,
           publishAt |-> notices[n].publishAt]]
    /\ UNCHANGED <<users, username, reads, readIdx, clock, issued>>

\* Mutant: the read records of a deleted notice stay.
DeleteNoticeOnly(n) ==
    /\ n \in DOMAIN notices
    /\ notices' = Drop(notices, {n})
    /\ UNCHANGED <<users, username, reads, readIdx, clock, issued>>

DeleteNotice(n) ==
    /\ n \in DOMAIN notices
    /\ notices' = Drop(notices, {n})
    /\ Forget(ReadsOfNotice(n))
    /\ UNCHANGED <<users, username, clock, issued>>

-----------------------------------------------------------------------------
(* Read records.  The caller's ReadAt is not used: the record carries the   *)
(* time at which the lock is held.                                          *)

\* Mutant: the status the service saw is not looked at again under the lock.
ReadableByExistence(u, n) == u \in DOMAIN users /\ n \in DOMAIN notices

Readable(u, n) ==
    /\ u \in DOMAIN users
    /\ n \in DOMAIN notices
    /\ notices[n].status = "published"

\* Mutant: the index is filled under the record's ID.
StoreById(rr) ==
    /\ reads' = Put(reads, rr.id, rr)
    /\ readIdx' = Put(readIdx, rr.id, rr)

Store(rr) ==
    /\ reads' = Put(reads, rr.id, rr)
    /\ readIdx' = Put(readIdx, Key(rr), rr)

\* The record written now, under the ID and the creation time given.
RecordNow(u, n, r, createdAt) ==
    [id |-> r, user |-> u, notice |-> n, createdAt |-> createdAt, readAt |-> clock']

\* Mutant: a new record although the pair has one.
FirstReadEveryTime(u, n, r) ==
    /\ Readable(u, n)
    /\ r \notin issued
    /\ Now
    /\ Store(RecordNow(u, n, r, clock'))
    /\ issued' = issued \cup {r}
    /\ UNCHANGED <<users, username, notices>>

\* UpsertReadRecord when the index has no entry for (u, n).
FirstRead(u, n, r) ==
    /\ Readable(u, n)
    /\ <<u, n>> \notin DOMAIN readIdx
    /\ r \notin issued
    /\ Now
    /\ Store(RecordNow(u, n, r, clock'))
    /\ issued' = issued \cup {r}
    /\ UNCHANGED <<users, username, notices>>

\* Mutant: a repeated read takes the caller's ReadAt, however old it is.
ReadAgainAtCallersTime(u, n) ==
    /\ Readable(u, n)
    /\ <<u, n>> \in DOMAIN readIdx
    /\ Now
    /\ \E at \in 1 .. clock :
          Store([id |-> readIdx[<<u, n>>].id, user |-> u, notice |-> n,
                 createdAt |-> readIdx[<<u, n>>].createdAt, readAt |-> at])
    /\ UNCHANGED <<users, username, notices, issued>>

\* UpsertReadRecord when it has one: its ID and creation time are kept.
ReadAgain(u, n) ==
    /\ Readable(u, n)
    /\ <<u, n>> \in DOMAIN readIdx
    /\ Now
    /\ Store(RecordNow(u, n, readIdx[<<u, n>>].id, readIdx[<<u, n>>].createdAt))
    /\ UNCHANGED <<users, username, notices, issued>>

UpsertReadRecord(u, n) == ReadAgain(u, n) \/ \E r \in ReadId : FirstRead(u, n, r)

DeleteReadRecordsByNotice(n) ==
    /\ Forget(ReadsOfNotice(n))
    /\ UNCHANGED <<users, username, notices, clock, issued>>

DeleteReadRecordsByUser(u) ==
    /\ Forget(ReadsOfUser(u))
    /\ UNCHANGED <<users, username, notices, clock, issued>>

\* The methods that take the read lock only.
Query == UNCHANGED vars

-----------------------------------------------------------------------------
(* What callers pass in.  A time they hold is one the clock has shown.      *)

Drafts == [text : Text, status : Status, pinned : BOOLEAN, publishAt : 0 .. clock]

NewDrafts == {d \in Drafts : d.status = "draft" => d.publishAt = NoTime}

UserOp ==
    \E u \in UserId :
        \/ \E name \in Username, role \in Role, secret \in Secret :
              CreateUser(u, name, role, secret)
        \/ \E rec \in [name : Username, role : Role, secret : Secret, version : 0 .. MaxVersion] :
              UpdateUser(u, rec)
        \/ \E secret \in Secret : SetUserPassword(u, secret)
        \/ DeleteUser(u)

NoticeOp ==
    \E n \in NoticeId :
        \/ \E draft \in NewDrafts : CreateNotice(n, draft)
        \/ \E draft \in Drafts : UpdateNotice(n, draft)
        \/ \E pinned \in BOOLEAN : UpdateNoticeMetadata(n, pinned)
        \/ \E status \in Status : SetNoticeStatus(n, status)
        \/ DeleteNotice(n)

ReadOp ==
    \/ \E u \in UserId, n \in NoticeId : UpsertReadRecord(u, n)
    \/ \E n \in NoticeId : DeleteReadRecordsByNotice(n)
    \/ \E u \in UserId : DeleteReadRecordsByUser(u)

Next == UserOp \/ NoticeOp \/ ReadOp \/ Query

Spec == Init /\ [][Next]_vars

-----------------------------------------------------------------------------
(* Properties *)

\* The read rule of internal/service/read_service.go: a record exists and is
\* not older than the notice.
IsRead(u, n) ==
    /\ <<u, n>> \in DOMAIN readIdx
    /\ n \in DOMAIN notices
    /\ readIdx[<<u, n>>].readAt >= notices[n].updatedAt

\* The name index is the inverse of the users' names: through renames and
\* deletions no name is claimed twice, lost, or left pointing at nobody.
UsernameIndexExact ==
    /\ \A u \in DOMAIN users :
          users[u].name \in DOMAIN username /\ username[users[u].name] = u
    /\ \A name \in DOMAIN username :
          username[name] \in DOMAIN users /\ users[username[name]].name = name

\* The two copies of the read records agree: every record is found under its
\* own ID and under its own (user, notice), so there is at most one per pair.
ReadCopiesAgree ==
    /\ \A r \in DOMAIN reads :
          /\ reads[r].id = r
          /\ Key(reads[r]) \in DOMAIN readIdx
          /\ readIdx[Key(reads[r])] = reads[r]
    /\ \A k \in DOMAIN readIdx :
          /\ Key(readIdx[k]) = k
          /\ readIdx[k].id \in DOMAIN reads
          /\ reads[readIdx[k].id] = readIdx[k]

\* No read record outlives its user or its notice, whichever way the calls
\* that delete them and the call that records a read are ordered.
ReadsReferToLive ==
    \A r \in DOMAIN reads :
        /\ reads[r].user \in DOMAIN users
        /\ reads[r].notice \in DOMAIN notices

\* A notice has a publication time exactly while it is published, and it is
\* never later than the last change, even when an old copy is written back.
PublicationTimed ==
    \A n \in DOMAIN notices :
        /\ (notices[n].publishAt # NoTime) <=> (notices[n].status = "published")
        /\ notices[n].publishAt <= notices[n].updatedAt
        /\ notices[n].updatedAt <= clock

\* A draft is read by nobody: a read recorded before the notice was taken
\* down is older than that, and none can be recorded after.
DraftUnread ==
    ~Coarse => \A n \in DOMAIN notices, u \in UserId :
                  notices[n].status = "draft" => ~IsRead(u, n)

\* What the invariants rest on: identifiers in use were handed out, a record
\* is as old as it says, and one on a draft is older than the draft.
Fresh == DOMAIN users \cup DOMAIN notices \cup DOMAIN reads \subseteq issued

ReadTimes ==
    \A r \in DOMAIN reads :
        /\ reads[r].createdAt <= reads[r].readAt
        /\ reads[r].readAt <= clock

DraftReadsOlder ==
    ~Coarse => \A r \in DOMAIN reads :
        reads[r].notice \in DOMAIN notices /\ notices[reads[r].notice].status = "draft"
        => reads[r].readAt < notices[reads[r].notice].updatedAt

\* The inductive invariant.
StoreInv ==
    /\ TypeOK
    /\ Fresh
    /\ UsernameIndexExact
    /\ ReadCopiesAgree
    /\ ReadsReferToLive
    /\ PublicationTimed
    /\ ReadTimes
    /\ DraftReadsOlder

\* An edit of the text or of the status makes the notice unread for every
\* resident at once ("更新即未读", README 2.3).
EditMakesUnread ==
    [][~Coarse => \A n \in DOMAIN notices \cap DOMAIN notices' :
          \/ notices'[n].text # notices[n].text
          \/ notices'[n].status # notices[n].status
          => \A u \in UserId : ~IsRead(u, n)']_vars

\* A notice becomes read for one resident only, while it is published and
\* no other record moves.
ReadBySelfOnly ==
    [][\A u \in UserId, n \in NoticeId :
          ~IsRead(u, n) /\ IsRead(u, n)' =>
             /\ notices' = notices /\ notices[n].status = "published"
             /\ \A k \in DOMAIN readIdx \ {<<u, n>>} :
                   k \in DOMAIN readIdx' /\ readIdx'[k] = readIdx[k]]_vars

\* What was read stays read until a write moves the notice's UpdatedAt on or
\* the record is removed: pinning, other residents' reads and a repeated read
\* of one's own leave it read.
ReadLostOnlyByChange ==
    [][\A u \in UserId, n \in NoticeId :
          IsRead(u, n) /\ ~IsRead(u, n)' =>
             \/ <<u, n>> \notin DOMAIN readIdx'
             \/ notices'[n].updatedAt > notices[n].updatedAt]_vars

\* A repeated read keeps the record: same ID, same creation time, and a read
\* time that never runs backwards.
RecordKept ==
    [][\A k \in DOMAIN readIdx \cap DOMAIN readIdx' :
          /\ readIdx'[k].id = readIdx[k].id
          /\ readIdx'[k].createdAt = readIdx[k].createdAt
          /\ readIdx'[k].readAt >= readIdx[k].readAt]_vars

=============================================================================
