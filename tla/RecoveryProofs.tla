----------------------------- MODULE RecoveryProofs -----------------------------
(***************************************************************************)
(* Proofs about Recovery for every set of identifiers, every number of     *)
(* saves and starts and either kind of clock: whatever a process finds in  *)
(* a file that an earlier one tore, it comes up with exact indexes, gives  *)
(* nobody a record that is not their own, and lets an edit make unread.    *)
(***************************************************************************)
EXTENDS Recovery, NoticeStoreProofs

USE DEF Role, Status, NoTime

-----------------------------------------------------------------------------
(* The inductive invariant: what is true of each table by itself, in memory, *)
(* in a copy and in the file, when ids were issued and now is the time.  The *)
(* tables of one save are of different moments, so nothing is said of two of *)
(* them together.                                                            *)

UsersKept(us, ids) ==
    /\ us \in [DOMAIN us -> User] /\ DOMAIN us \subseteq UserId \cap ids
    /\ \A u, v \in DOMAIN us : us[u].name = us[v].name => u = v

NoticesKept(ns, ids, now) ==
    /\ ns \in [DOMAIN ns -> Notice] /\ DOMAIN ns \subseteq NoticeId \cap ids
    /\ \A n \in DOMAIN ns :
          /\ (ns[n].publishAt # NoTime) <=> (ns[n].status = "published")
          /\ ns[n].publishAt <= ns[n].updatedAt
          /\ ns[n].updatedAt <= now

\* A record names a user and a notice that have been, if no longer are.
ReadsKept(rs, ids, now) ==
    /\ rs \in [DOMAIN rs -> ReadRecord] /\ DOMAIN rs \subseteq ReadId \cap ids
    /\ \A r, s \in DOMAIN rs : Key(rs[r]) = Key(rs[s]) => r = s
    /\ \A r \in DOMAIN rs :
          /\ rs[r].id = r
          /\ rs[r].user \in ids /\ rs[r].notice \in ids
          /\ rs[r].createdAt <= rs[r].readAt /\ rs[r].readAt <= now

Kept(data, ids, now) ==
    UsersKept(data.users, ids) /\ NoticesKept(data.notices, ids, now)
    /\ ReadsKept(data.reads, ids, now)

ReadsIssued == \A r \in DOMAIN reads : reads[r].user \in issued /\ reads[r].notice \in issued

TablesInv ==
    /\ RecoveryInv
    /\ ReadsIssued
    /\ Kept(file, issued, clock) /\ Kept(snap, issued, clock)

\* The tables in memory are such tables.
LEMMA MemoryKept ==
    ASSUME RecoveryInv, ReadsIssued
    PROVE  /\ UsersKept(users, issued) /\ NoticesKept(notices, issued, clock)
           /\ ReadsKept(reads, issued, clock)
  <1>1. UsersKept(users, issued)
    BY DEF RecoveryInv, UsersKept, TypeOK, Fresh, UsernameIndexExact
  <1>2. NoticesKept(notices, issued, clock)
    BY DEF RecoveryInv, NoticesKept, TypeOK, Fresh, PublicationTimed
  <1>3. ReadsKept(reads, issued, clock)
    <2>1. ASSUME NEW r \in DOMAIN reads, NEW s \in DOMAIN reads, Key(reads[r]) = Key(reads[s])
          PROVE  r = s
      <3>1. reads[r] = reads[s] /\ reads[r].id = r /\ reads[s].id = s
        BY <2>1 DEF RecoveryInv, ReadCopiesAgree
      <3> QED  BY <3>1
    <2>2. \A r \in DOMAIN reads : reads[r].id = r
      BY DEF RecoveryInv, ReadCopiesAgree
    <2>3. reads \in [DOMAIN reads -> ReadRecord] /\ DOMAIN reads \subseteq ReadId \cap issued
      BY DEF RecoveryInv, TypeOK, Fresh
    <2> QED  BY <2>1, <2>2, <2>3 DEF RecoveryInv, ReadsKept, ReadsIssued, ReadTimes
  <1> QED  BY <1>1, <1>2, <1>3

\* Nothing is in an empty table.
LEMMA EmptyKept ==
    ASSUME NEW ids, NEW now
    PROVE  Kept(Empty, ids, now)
  <1>1. DOMAIN EmptyMap = {}
    BY DEF EmptyMap
  <1>2. /\ EmptyMap \in [DOMAIN EmptyMap -> User] /\ EmptyMap \in [DOMAIN EmptyMap -> Notice]
        /\ EmptyMap \in [DOMAIN EmptyMap -> ReadRecord]
    BY DEF EmptyMap
  <1> QED  BY <1>1, <1>2 DEF Kept, Empty, Tables, UsersKept, NoticesKept, ReadsKept

\* A table stays such a table while identifiers are handed out and time passes.
LEMMA KeptLater ==
    ASSUME NEW data, NEW ids, NEW more, ids \subseteq more,
           NEW now \in Nat, NEW later \in Nat, now <= later, Kept(data, ids, now)
    PROVE  Kept(data, more, later)
  <1>1. UsersKept(data.users, more)
    BY DEF Kept, UsersKept
  <1>2. NoticesKept(data.notices, more, later)
    <2> DEFINE ns == data.notices
    <2> HIDE DEF ns
    <2>1. NoticesKept(ns, ids, now)
      BY DEF Kept, ns
    <2>2. \A n \in DOMAIN ns : ns[n].updatedAt \in Nat
      BY <2>1 DEF NoticesKept, Notice
    <2>3. NoticesKept(ns, more, later)
      BY <2>1, <2>2 DEF NoticesKept
    <2> QED  BY <2>3 DEF ns
  <1>3. ReadsKept(data.reads, more, later)
    <2> DEFINE rs == data.reads
    <2> HIDE DEF rs
    <2>1. ReadsKept(rs, ids, now)
      BY DEF Kept, rs
    <2>2. \A r \in DOMAIN rs : rs[r].readAt \in Nat
      BY <2>1 DEF ReadsKept, ReadRecord
    <2>3. ReadsKept(rs, more, later)
      BY <2>1, <2>2 DEF ReadsKept
    <2> QED  BY <2>3 DEF rs
  <1> QED  BY <1>1, <1>2, <1>3 DEF Kept

-----------------------------------------------------------------------------
(* The store's methods *)

\* What a method does to the read records: nothing, to remove some, or to
\* write one of a pair that is there.
LEMMA ReadsEffect ==
    ASSUME TypeOK, Fresh, ReadCopiesAgree, ReadTimes, UserOp \/ NoticeOp \/ ReadOp
    PROVE  \/ UNCHANGED <<reads, readIdx>>
           \/ \E gone \in SUBSET DOMAIN reads : Forget(gone)
           \/ \E rr \in ReadRecord :
                 /\ Store(rr) /\ Now /\ rr.user \in DOMAIN users /\ rr.notice \in DOMAIN notices
                 /\ rr.readAt = clock' /\ rr.createdAt <= clock'
                 /\ \/ Key(rr) \in DOMAIN readIdx /\ rr.id = readIdx[Key(rr)].id
                    \/ Key(rr) \notin DOMAIN readIdx /\ rr.id \notin DOMAIN reads
  <1>1. \A u, n : ReadsOfUser(u) \in SUBSET DOMAIN reads /\ ReadsOfNotice(n) \in SUBSET DOMAIN reads
    BY DEF ReadsOfUser, ReadsOfNotice
  <1>2. CASE UserOp
    BY <1>1, <1>2 DEF UserOp, CreateUser, UpdateUser, SetUserPassword, DeleteUser
  <1>3. CASE NoticeOp
    BY <1>1, <1>3 DEF NoticeOp, CreateNotice, UpdateNotice, UpdateNoticeMetadata,
                      SetNoticeStatus, DeleteNotice
  <1>4. ASSUME NEW u \in UserId, NEW n \in NoticeId, UpsertReadRecord(u, n)
        PROVE  \E rr \in ReadRecord :
                 /\ Store(rr) /\ Now /\ rr.user \in DOMAIN users /\ rr.notice \in DOMAIN notices
                 /\ rr.readAt = clock' /\ rr.createdAt <= clock'
                 /\ \/ Key(rr) \in DOMAIN readIdx /\ rr.id = readIdx[Key(rr)].id
                    \/ Key(rr) \notin DOMAIN readIdx /\ rr.id \notin DOMAIN reads
    BY <1>4, UpsertStores DEF Readable
  <1>5. CASE ReadOp
    BY <1>1, <1>4, <1>5 DEF ReadOp, DeleteReadRecordsByNotice, DeleteReadRecordsByUser
  <1> QED  BY <1>2, <1>3, <1>5

\* Time goes forward and identifiers are handed out, none is taken back.
LEMMA TimeForward ==
    ASSUME TypeOK, UserOp \/ NoticeOp \/ ReadOp
    PROVE  clock' \in Nat /\ clock <= clock' /\ issued \subseteq issued'
  <1> clock \in Nat
    BY DEF TypeOK
  <1>1. issued \subseteq issued' /\ (Now \/ UNCHANGED clock)
    BY DEF UserOp, CreateUser, UpdateUser, SetUserPassword, DeleteUser,
           NoticeOp, CreateNotice, UpdateNotice, UpdateNoticeMetadata, SetNoticeStatus, DeleteNotice,
           ReadOp, UpsertReadRecord, FirstRead, ReadAgain, DeleteReadRecordsByNotice,
           DeleteReadRecordsByUser
  <1> QED  BY <1>1, NowForward

\* What a method does to a notice: it leaves status and times alone, or it
\* stamps it, reads the clock for that and leaves the read records alone.
LEMMA NoticesEffect ==
    ASSUME TypeOK, UserOp \/ NoticeOp \/ ReadOp, NEW n \in DOMAIN notices'
    PROVE  \/ /\ n \in DOMAIN notices
              /\ notices'[n].status = notices[n].status
              /\ notices'[n].publishAt = notices[n].publishAt
              /\ notices'[n].updatedAt = notices[n].updatedAt
           \/ /\ Now /\ UNCHANGED <<reads, readIdx>>
              /\ notices'[n].updatedAt = clock'
              /\ notices'[n].publishAt # NoTime <=> notices'[n].status = "published"
              /\ notices'[n].publishAt <= clock'
  <1> DEFINE Same == /\ n \in DOMAIN notices
                     /\ notices'[n].status = notices[n].status
                     /\ notices'[n].publishAt = notices[n].publishAt
                     /\ notices'[n].updatedAt = notices[n].updatedAt
             Stamped == /\ notices'[n].updatedAt = clock'
                        /\ notices'[n].publishAt # NoTime <=> notices'[n].status = "published"
                        /\ notices'[n].publishAt <= clock'
  <1> clock \in Nat
    BY DEF TypeOK
  <1>1. ASSUME NEW x \in NoticeId, NEW draft \in NewDrafts, CreateNotice(x, draft)
        PROVE  Same \/ Stamped
    <2> DEFINE fresh == [text |-> draft.text, status |-> draft.status, pinned |-> draft.pinned,
                         createdAt |-> clock', updatedAt |-> clock',
                         publishAt |-> IF draft.status = "published" /\ draft.publishAt = NoTime
                                         THEN clock' ELSE draft.publishAt]
    <2>1. Now /\ notices' = Put(notices, x, fresh)
      BY <1>1 DEF CreateNotice
    <2>2. clock' \in Nat /\ clock' >= clock /\ clock' # 0
      BY <2>1, NowForward
    <2>3. /\ draft.status \in Status /\ draft.publishAt \in 0 .. clock
          /\ draft.status = "draft" => draft.publishAt = NoTime
      BY DEF NewDrafts, Drafts
    <2>4. /\ fresh.updatedAt = clock'
          /\ fresh.publishAt # NoTime <=> fresh.status = "published"
          /\ fresh.publishAt <= clock'
      BY <2>2, <2>3
    <2> HIDE DEF fresh
    <2> QED  BY <2>1, <2>4 DEF Put
  <1>2. ASSUME NEW x, NEW text, NEW status, NEW pinned, NEW publishAt,
               notices' = [notices EXCEPT ![x] = Revised(x, text, status, pinned, publishAt)],
               publishAt # NoTime <=> status = "published", publishAt <= clock'
        PROVE  Same \/ Stamped
    <2>1. notices'[n] = notices[n] \/ notices'[n] = Revised(x, text, status, pinned, publishAt)
      BY <1>2
    <2>2. n \in DOMAIN notices
      BY <1>2
    <2> QED  BY <1>2, <2>1, <2>2 DEF Revised
  <1>3. ASSUME NEW x \in NoticeId, NEW draft \in Drafts, UpdateNotice(x, draft)
        PROVE  Same \/ Stamped
    <2> DEFINE at == IF draft.status = "draft" THEN NoTime
                     ELSE IF draft.publishAt = NoTime THEN clock' ELSE draft.publishAt
    <2>1. /\ Now
          /\ notices' = [notices EXCEPT ![x] =
                           Revised(x, draft.text, draft.status, draft.pinned, at)]
      BY <1>3 DEF UpdateNotice
    <2>2. clock' \in Nat /\ clock' >= clock /\ clock' # 0
      BY <2>1, NowForward
    <2>3. draft.status \in Status /\ draft.publishAt \in 0 .. clock
      BY DEF Drafts
    <2>4. (at # NoTime <=> draft.status = "published") /\ at <= clock'
      BY <2>2, <2>3
    <2> HIDE DEF at
    <2> QED  BY <1>2, <2>1, <2>4
  <1>4. ASSUME NEW x \in NoticeId, NEW pinned, UpdateNoticeMetadata(x, pinned)
        PROVE  Same
    BY <1>4 DEF UpdateNoticeMetadata
  <1>5. ASSUME NEW x \in NoticeId, NEW status \in Status, SetNoticeStatus(x, status)
        PROVE  Same \/ Stamped
    <2> DEFINE at == IF status = "published" THEN clock' ELSE NoTime
    <2>1. /\ Now
          /\ notices' = [notices EXCEPT ![x] =
                           Revised(x, notices[x].text, status, notices[x].pinned, at)]
      BY <1>5 DEF SetNoticeStatus
    <2>2. clock' \in Nat /\ clock' # 0
      BY <2>1, NowForward
    <2>3. (at # NoTime <=> status = "published") /\ at <= clock'
      BY <2>2
    <2> HIDE DEF at
    <2> QED  BY <1>2, <2>1, <2>3
  <1>6. ASSUME NEW x \in NoticeId, DeleteNotice(x)
        PROVE  Same
    BY <1>6 DEF DeleteNotice, Drop, Restrict
  <1>7. CASE UserOp \/ ReadOp
    <2>1. UNCHANGED notices
      BY <1>7 DEF UserOp, CreateUser, UpdateUser, SetUserPassword, DeleteUser, ReadOp,
                  UpsertReadRecord, FirstRead, ReadAgain, DeleteReadRecordsByNotice,
                  DeleteReadRecordsByUser
    <2> QED  BY <2>1
  <1>8. CASE \/ \E x \in NoticeId, draft \in NewDrafts : CreateNotice(x, draft)
             \/ \E x \in NoticeId, draft \in Drafts : UpdateNotice(x, draft)
             \/ \E x \in NoticeId, status \in Status : SetNoticeStatus(x, status)
    <2>1. Now /\ UNCHANGED <<reads, readIdx>>
      BY <1>8 DEF CreateNotice, UpdateNotice, SetNoticeStatus
    <2> QED  BY <1>1, <1>3, <1>5, <1>8, <2>1
  <1> QED  BY <1>4, <1>6, <1>7, <1>8 DEF NoticeOp

-----------------------------------------------------------------------------
(* The steps *)

\* A method keeps what is known of the tables in memory.
LEMMA MethodStep ==
    ASSUME RecoveryInv, ReadsIssued, UserOp \/ NoticeOp \/ ReadOp
    PROVE  RecoveryInv' /\ ReadsIssued'
  <1> /\ TypeOK /\ Fresh /\ UsernameIndexExact /\ ReadCopiesAgree /\ PublicationTimed
      /\ ReadTimes /\ clock \in Nat
    BY DEF RecoveryInv, TypeOK
  <1>1. clock' \in Nat /\ clock <= clock' /\ issued \subseteq issued'
    BY TimeForward
  <1>2. TypeOK'
    BY NextType DEF Next
  <1>3. Fresh' /\ UsernameIndexExact'
    <2>1. CASE UserOp
      BY <2>1, NamesStep DEF NamesInv
    <2>2. CASE NoticeOp \/ ReadOp
      BY <2>2, FreshStep DEF UsernameIndexExact
    <2> QED  BY <2>1, <2>2
  <1>4. PublicationTimed'
    <2> SUFFICES ASSUME NEW n \in DOMAIN notices'
                 PROVE  /\ (notices'[n].publishAt # NoTime) <=> (notices'[n].status = "published")
                        /\ notices'[n].publishAt <= notices'[n].updatedAt
                        /\ notices'[n].updatedAt <= clock'
      BY DEF PublicationTimed
    <2>1. CASE /\ n \in DOMAIN notices
               /\ notices'[n].status = notices[n].status
               /\ notices'[n].publishAt = notices[n].publishAt
               /\ notices'[n].updatedAt = notices[n].updatedAt
      <3>1. notices[n].updatedAt \in Nat
        BY <2>1 DEF TypeOK, Notice
      <3> QED  BY <1>1, <2>1, <3>1 DEF PublicationTimed
    <2>2. CASE /\ notices'[n].updatedAt = clock'
               /\ notices'[n].publishAt # NoTime <=> notices'[n].status = "published"
               /\ notices'[n].publishAt <= clock'
      BY <1>1, <2>2
    <2> QED  BY <2>1, <2>2, NoticesEffect
  <1>5. ASSUME NEW r \in DOMAIN reads
        PROVE  /\ reads[r].createdAt <= reads[r].readAt /\ reads[r].readAt <= clock'
               /\ reads[r].user \in issued' /\ reads[r].notice \in issued'
    <2>1. reads[r].readAt \in Nat /\ reads[r].readAt <= clock
      BY DEF TypeOK, ReadRecord, ReadTimes
    <2> QED  BY <1>1, <2>1 DEF ReadTimes, ReadsIssued
  <1>6. ReadCopiesAgree' /\ ReadTimes' /\ ReadsIssued'
    <2>1. CASE UNCHANGED <<reads, readIdx>>
      BY <1>5, <2>1 DEF ReadCopiesAgree, ReadTimes, ReadsIssued
    <2>2. ASSUME NEW gone \in SUBSET DOMAIN reads, Forget(gone)
          PROVE  ReadCopiesAgree' /\ ReadTimes' /\ ReadsIssued'
      <3>1. /\ ReadCopiesAgree' /\ DOMAIN reads' = DOMAIN reads \ gone
            /\ \A r \in DOMAIN reads' : reads'[r] = reads[r]
        BY <2>2, ForgetCopies
      <3> QED  BY <1>5, <3>1 DEF ReadTimes, ReadsIssued
    <2>3. ASSUME NEW rr \in ReadRecord, Store(rr), rr.user \in DOMAIN users,
                 rr.notice \in DOMAIN notices, rr.readAt = clock', rr.createdAt <= clock',
                 \/ Key(rr) \in DOMAIN readIdx /\ rr.id = readIdx[Key(rr)].id
                 \/ Key(rr) \notin DOMAIN readIdx /\ rr.id \notin DOMAIN reads
          PROVE  ReadCopiesAgree' /\ ReadTimes' /\ ReadsIssued'
      <3>1. /\ ReadCopiesAgree' /\ DOMAIN reads' = DOMAIN reads \cup {rr.id}
            /\ reads'[rr.id] = rr
            /\ \A r \in DOMAIN reads : r # rr.id => reads'[r] = reads[r]
        BY <2>3, StoreCopies
      <3>2. rr.user \in issued' /\ rr.notice \in issued'
        BY <1>1, <2>3 DEF Fresh
      <3> QED  BY <1>1, <1>5, <2>3, <3>1, <3>2 DEF ReadTimes, ReadsIssued
    <2> QED  BY <2>1, <2>2, <2>3, ReadsEffect
  <1> QED  BY <1>2, <1>3, <1>4, <1>6 DEF RecoveryInv

\* ReplaceAll makes exact indexes out of any file that keeps its tables right.
LEMMA ReplaceAllStep ==
    ASSUME TypeOK, NEW data, Kept(data, issued, clock), ReplaceAll(data), UNCHANGED <<clock, issued>>
    PROVE  RecoveryInv' /\ ReadsIssued'
  <1> DEFINE us == users' ns == notices' rs == reads'
  <1>1. UsersKept(us, issued) /\ NoticesKept(ns, issued, clock) /\ ReadsKept(rs, issued, clock)
    BY DEF ReplaceAll, Kept
  <1>2. /\ username' \in [{us[u].name : u \in DOMAIN us} -> DOMAIN us]
        /\ \A name \in DOMAIN username' : us[username'[name]].name = name
        /\ readIdx' \in [{Key(rs[r]) : r \in DOMAIN rs} -> {rs[r] : r \in DOMAIN rs}]
        /\ \A k \in DOMAIN readIdx' : Key(readIdx'[k]) = k
    BY DEF ReplaceAll
  <1>3. /\ us \in [DOMAIN us -> User] /\ DOMAIN us \subseteq UserId
        /\ ns \in [DOMAIN ns -> Notice] /\ DOMAIN ns \subseteq NoticeId
        /\ rs \in [DOMAIN rs -> ReadRecord] /\ DOMAIN rs \subseteq ReadId
    BY <1>1 DEF UsersKept, NoticesKept, ReadsKept
  <1>4. username' \in [DOMAIN username' -> UserId] /\ DOMAIN username' \subseteq Username
    <2>1. \A u \in DOMAIN us : us[u].name \in Username
      BY <1>3 DEF User
    <2> QED  BY <1>2, <1>3, <2>1
  <1>5. readIdx' \in [DOMAIN readIdx' -> ReadRecord] /\ DOMAIN readIdx' \subseteq UserId \X NoticeId
    <2>1. \A r \in DOMAIN rs : rs[r] \in ReadRecord /\ Key(rs[r]) \in UserId \X NoticeId
      BY <1>3 DEF ReadRecord, Key
    <2> QED  BY <1>2, <2>1
  <1>6. TypeOK'
    BY <1>3, <1>4, <1>5 DEF TypeOK
  <1>7. Fresh'
    BY <1>1 DEF Fresh, UsersKept, NoticesKept, ReadsKept
  <1>8. UsernameIndexExact'
    <2>1. \A u, v \in DOMAIN us : us[u].name = us[v].name => u = v
      BY <1>1 DEF UsersKept
    <2> QED  BY <1>2, <2>1 DEF UsernameIndexExact
  <1>9. ReadCopiesAgree'
    <2>1. /\ \A r, s \in DOMAIN rs : Key(rs[r]) = Key(rs[s]) => r = s
          /\ \A r \in DOMAIN rs : rs[r].id = r
      BY <1>1 DEF ReadsKept
    <2>2. ASSUME NEW r \in DOMAIN rs
          PROVE  /\ rs[r].id = r /\ Key(rs[r]) \in DOMAIN readIdx'
                 /\ readIdx'[Key(rs[r])] = rs[r]
      <3>1. Key(rs[r]) \in DOMAIN readIdx'
        BY <1>2
      <3>2. PICK s \in DOMAIN rs : readIdx'[Key(rs[r])] = rs[s]
        BY <1>2, <3>1
      <3>3. Key(rs[s]) = Key(rs[r])
        BY <1>2, <3>1, <3>2
      <3> QED  BY <2>1, <3>1, <3>2, <3>3
    <2>3. ASSUME NEW k \in DOMAIN readIdx'
          PROVE  /\ Key(readIdx'[k]) = k /\ readIdx'[k].id \in DOMAIN rs
                 /\ rs[readIdx'[k].id] = readIdx'[k]
      <3>1. PICK s \in DOMAIN rs : readIdx'[k] = rs[s]
        BY <1>2
      <3> QED  BY <1>2, <2>1, <3>1
    <2> QED  BY <2>2, <2>3 DEF ReadCopiesAgree
  <1>10. PublicationTimed' /\ ReadTimes' /\ ReadsIssued'
    BY <1>1 DEF PublicationTimed, ReadTimes, ReadsIssued, NoticesKept, ReadsKept
  <1> QED  BY <1>6, <1>7, <1>8, <1>9, <1>10 DEF RecoveryInv

\* The first process begins with nothing, in memory and in the file.
LEMMA RecoveryInitInv == RecoveryInit => TablesInv
  <1> SUFFICES ASSUME RecoveryInit
               PROVE  TablesInv
    OBVIOUS
  <1>1. StoreInv /\ reads = EmptyMap
    BY InitInv DEF RecoveryInit, Init
  <1>2. RecoveryInv /\ ReadsIssued
    BY <1>1 DEF StoreInv, RecoveryInv, ReadsIssued, EmptyMap
  <1> QED  BY <1>2, EmptyKept DEF RecoveryInit, TablesInv

\* Methods, the steps of a save and the next process keep it.
LEMMA RecoveryNextInv == TablesInv /\ [RecoveryNext]_recoveryVars => TablesInv'
  <1> SUFFICES ASSUME TablesInv, [RecoveryNext]_recoveryVars
               PROVE  TablesInv'
    OBVIOUS
  <1> /\ RecoveryInv /\ ReadsIssued /\ TypeOK /\ clock \in Nat
      /\ Kept(file, issued, clock) /\ Kept(snap, issued, clock)
    BY DEF TablesInv, RecoveryInv, TypeOK
  <1>1. ASSUME UNCHANGED vars
        PROVE  RecoveryInv' /\ ReadsIssued' /\ UNCHANGED <<issued, clock>>
    BY <1>1 DEF vars, RecoveryInv, ReadsIssued, TypeOK, Fresh, UsernameIndexExact, ReadCopiesAgree,
                PublicationTimed, ReadTimes
  <1>2. CASE StoreStep
    <2>1. RecoveryInv' /\ ReadsIssued' /\ UNCHANGED <<file, snap>>
      BY <1>2, MethodStep DEF StoreStep, saveVars
    <2>2. clock' \in Nat /\ clock <= clock' /\ issued \subseteq issued'
      BY <1>2, TimeForward DEF StoreStep
    <2>3. Kept(file, issued', clock') /\ Kept(snap, issued', clock')
      BY <2>2, KeptLater
    <2> QED  BY <2>1, <2>3 DEF TablesInv
  <1>3. CASE BeginSave \/ CopyNotices \/ CopyReads
    <2>1. UNCHANGED vars /\ file' = file
      BY <1>3 DEF BeginSave, CopyNotices, CopyReads
    <2>2. /\ UsersKept(users, issued) /\ NoticesKept(notices, issued, clock)
          /\ ReadsKept(reads, issued, clock)
      BY MemoryKept
    <2>3. Kept(snap', issued, clock)
      BY <1>3, <2>2 DEF BeginSave, CopyNotices, CopyReads, Tables, Kept
    <2> QED  BY <1>1, <2>1, <2>3 DEF TablesInv
  <1>4. CASE EndSave
    <2>1. UNCHANGED vars /\ file' \in {snap, file} /\ snap' = Empty
      BY <1>4 DEF EndSave
    <2> QED  BY <1>1, <2>1, EmptyKept DEF TablesInv
  <1>5. CASE Recover
    <2>1. ReplaceAll(file) /\ UNCHANGED <<file, clock, issued>> /\ snap' = Empty
      BY <1>5 DEF Recover
    <2>2. RecoveryInv' /\ ReadsIssued'
      BY <2>1, ReplaceAllStep
    <2> QED  BY <2>1, <2>2, EmptyKept DEF TablesInv
  <1>6. CASE UNCHANGED recoveryVars
    BY <1>1, <1>6 DEF recoveryVars, saveVars, TablesInv
  <1> QED  BY <1>2, <1>3, <1>4, <1>5, <1>6 DEF RecoveryNext

-----------------------------------------------------------------------------
(* The theorems *)

\* The inductive invariant of memory, copies and file.
THEOREM TablesInvariant == RecoverySpec => []TablesInv
  BY RecoveryInitInv, RecoveryNextInv, PTL DEF RecoverySpec

\* RecoveryInv: indexes, times and identifiers are right in every process, the
\* torn file of an earlier one notwithstanding.
THEOREM RecoveredRight == RecoverySpec => []RecoveryInv
  <1>1. TablesInv => RecoveryInv
    BY DEF TablesInv
  <1> QED  BY <1>1, TablesInvariant, PTL

\* NobodyInheritsReads: a record that came back without its user or its notice
\* never gets another, since both were issued when it was made.
THEOREM ReadsNotInherited == RecoverySpec => NobodyInheritsReads
  <1>1. ASSUME TablesInv, StoreStep, NEW r \in DOMAIN reads
        PROVE  /\ reads[r].user \in DOMAIN users' => reads[r].user \in DOMAIN users
               /\ reads[r].notice \in DOMAIN notices' => reads[r].notice \in DOMAIN notices
    <2>1. reads[r].user \in issued /\ reads[r].notice \in issued /\ TypeOK
      BY <1>1 DEF TablesInv, ReadsIssued, RecoveryInv
    <2>2. \A u \in DOMAIN users' : u \in DOMAIN users \/ u \notin issued
      <3>1. ASSUME NEW u, NEW name, NEW role, NEW secret, CreateUser(u, name, role, secret)
            PROVE  \A v \in DOMAIN users' : v \in DOMAIN users \/ v \notin issued
        BY <3>1 DEF CreateUser, Put
      <3>2. CASE UserOp
        BY <3>1, <3>2 DEF UserOp, UpdateUser, SetUserPassword, DeleteUser, Drop, Restrict
      <3>3. CASE NoticeOp \/ ReadOp
        BY <3>3 DEF NoticeOp, CreateNotice, UpdateNotice, UpdateNoticeMetadata, SetNoticeStatus,
                    DeleteNotice, ReadOp, UpsertReadRecord, FirstRead, ReadAgain,
                    DeleteReadRecordsByNotice, DeleteReadRecordsByUser
      <3> QED  BY <1>1, <3>2, <3>3 DEF StoreStep
    <2>3. \A n \in DOMAIN notices' : n \in DOMAIN notices \/ n \notin issued
      <3>1. ASSUME NEW n, NEW draft, CreateNotice(n, draft)
            PROVE  \A x \in DOMAIN notices' : x \in DOMAIN notices \/ x \notin issued
        BY <3>1 DEF CreateNotice, Put
      <3>2. CASE NoticeOp
        BY <3>1, <3>2 DEF NoticeOp, UpdateNotice, UpdateNoticeMetadata, SetNoticeStatus,
                          DeleteNotice, Drop, Restrict
      <3>3. CASE UserOp \/ ReadOp
        BY <3>3 DEF UserOp, CreateUser, UpdateUser, SetUserPassword, DeleteUser, ReadOp,
                    UpsertReadRecord, FirstRead, ReadAgain, DeleteReadRecordsByNotice,
                    DeleteReadRecordsByUser
      <3> QED  BY <1>1, <3>2, <3>3 DEF StoreStep
    <2> QED  BY <2>1, <2>2, <2>3
  <1>2. TablesInv /\ [RecoveryNext]_recoveryVars =>
          [StoreStep =>
             \A r \in DOMAIN reads :
                /\ reads[r].user \in DOMAIN users' => reads[r].user \in DOMAIN users
                /\ reads[r].notice \in DOMAIN notices' => reads[r].notice \in DOMAIN notices
          ]_recoveryVars
    BY <1>1
  <1> QED  BY <1>2, TablesInvariant, PTL DEF RecoverySpec, NobodyInheritsReads

\* EditStillMakesUnread: under a clock that never repeats a reading, whatever
\* moves UpdatedAt outdates every record, those from a torn file included.
THEOREM EditsStillMakeUnread == RecoverySpec => EditStillMakesUnread
  <1>1. ASSUME TablesInv, StoreStep, ~Coarse, NEW n \in DOMAIN notices \cap DOMAIN notices',
               notices'[n].updatedAt # notices[n].updatedAt, NEW u \in UserId, IsRead(u, n)'
        PROVE  FALSE
    <2> DEFINE rr == readIdx[<<u, n>>]
    <2>0. TypeOK /\ ReadCopiesAgree /\ ReadTimes
      BY <1>1 DEF TablesInv, RecoveryInv
    <2>1. Now /\ notices'[n].updatedAt = clock' /\ UNCHANGED readIdx
      BY <1>1, <2>0, NoticesEffect DEF StoreStep
    <2>2. clock \in Nat /\ clock' \in Nat /\ clock' > clock
      BY <1>1, <2>0, <2>1, NowForward DEF TypeOK
    <2>3. <<u, n>> \in DOMAIN readIdx /\ rr.readAt >= clock'
      BY <1>1, <2>1 DEF IsRead
    <2>4. rr \in ReadRecord /\ rr.id \in DOMAIN reads /\ reads[rr.id] = rr
      BY <2>0, <2>3 DEF TypeOK, ReadCopiesAgree
    <2>5. rr.readAt \in Nat /\ rr.readAt <= clock
      BY <2>0, <2>4 DEF ReadTimes, ReadRecord
    <2> QED  BY <2>2, <2>3, <2>5
  <1>2. TablesInv /\ [RecoveryNext]_recoveryVars =>
          [StoreStep /\ ~Coarse =>
             \A n \in DOMAIN notices \cap DOMAIN notices' :
                notices'[n].updatedAt # notices[n].updatedAt
                => \A u \in UserId : ~IsRead(u, n)']_recoveryVars
    BY <1>1
  <1> QED  BY <1>2, TablesInvariant, PTL DEF RecoverySpec, EditStillMakesUnread

=============================================================================
