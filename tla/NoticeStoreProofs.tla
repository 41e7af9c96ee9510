--------------------------- MODULE NoticeStoreProofs ---------------------------
(***************************************************************************)
(* Proofs about NoticeStore for every set of identifiers, names and texts, *)
(* for every bound and for either kind of clock.                           *)
(***************************************************************************)
EXTENDS NoticeStore, TLAPS

USE DEF Role, Status, NoTime

-----------------------------------------------------------------------------
(* Maps *)

\* m[k] = v on a typed map gives a typed map with k among its keys.
LEMMA PutType ==
    ASSUME NEW K, NEW V, NEW m, m \in [DOMAIN m -> V], DOMAIN m \subseteq K,
           NEW k \in K, NEW v \in V
    PROVE  /\ Put(m, k, v) \in [DOMAIN Put(m, k, v) -> V]
           /\ DOMAIN Put(m, k, v) \subseteq K
    BY DEF Put

\* delete(m, k) for some keys leaves a typed map.
LEMMA DropType ==
    ASSUME NEW K, NEW V, NEW m, m \in [DOMAIN m -> V], DOMAIN m \subseteq K, NEW gone
    PROVE  /\ Drop(m, gone) \in [DOMAIN Drop(m, gone) -> V]
           /\ DOMAIN Drop(m, gone) \subseteq K
    BY DEF Drop, Restrict

\* What a map holds after m[k] = v, key by key.
LEMMA PutValue ==
    ASSUME NEW m, NEW k, NEW v
    PROVE  /\ DOMAIN Put(m, k, v) = DOMAIN m \cup {k}
           /\ Put(m, k, v)[k] = v
           /\ \A x \in DOMAIN m : x # k => Put(m, k, v)[x] = m[x]
    BY DEF Put

\* What a map holds after delete: the other keys, unchanged.
LEMMA DropValue ==
    ASSUME NEW m, NEW gone
    PROVE  /\ DOMAIN Drop(m, gone) = DOMAIN m \ gone
           /\ \A x \in DOMAIN m \ gone : Drop(m, gone)[x] = m[x]
    BY DEF Drop, Restrict

\* A reading of the clock is a time, not before the last one, and after it
\* when the clock is fine.
LEMMA NowForward ==
    ASSUME TypeOK, Now
    PROVE  /\ clock' \in Nat \ {NoTime}
           /\ clock' >= clock
           /\ ~Coarse => clock' > clock
    BY DEF TypeOK, Now

-----------------------------------------------------------------------------
(* Type correctness *)

\* NewMemoryStore makes maps of the right kind.
LEMMA InitType == Init => TypeOK
    BY DEF Init, TypeOK, EmptyMap

\* Removing read records from both maps leaves maps of their kind.
LEMMA ForgetType ==
    ASSUME TypeOK, NEW gone, Forget(gone)
    PROVE  /\ reads' \in [DOMAIN reads' -> ReadRecord] /\ DOMAIN reads' \subseteq ReadId
           /\ readIdx' \in [DOMAIN readIdx' -> ReadRecord]
           /\ DOMAIN readIdx' \subseteq UserId \X NoticeId
    BY DropType DEF TypeOK, Forget

\* The methods on users keep the kinds of the maps.
LEMMA UserOpType ==
    ASSUME TypeOK, UserOp
    PROVE  TypeOK'
  <1>1. ASSUME NEW u \in UserId, NEW name \in Username, NEW role \in Role, NEW secret \in Secret,
               CreateUser(u, name, role, secret)
        PROVE  TypeOK'
    <2> DEFINE fresh == [name |-> name, role |-> role, secret |-> secret, version |-> 0]
    <2>1. fresh \in User
      BY DEF User
    <2>2. users' = Put(users, u, fresh) /\ username' = Put(username, name, u)
      BY <1>1 DEF CreateUser
    <2> HIDE DEF fresh
    <2>5. /\ users' \in [DOMAIN users' -> User] /\ DOMAIN users' \subseteq UserId
          /\ username' \in [DOMAIN username' -> UserId] /\ DOMAIN username' \subseteq Username
      BY <2>1, <2>2, PutType DEF TypeOK
    <2>3. issued' \subseteq UserId \cup NoticeId \cup ReadId
      BY <1>1 DEF TypeOK, CreateUser
    <2>4. UNCHANGED <<notices, reads, readIdx, clock>>
      BY <1>1 DEF CreateUser
    <2> QED  BY <2>3, <2>4, <2>5 DEF TypeOK
  <1>2. ASSUME NEW u \in UserId,
               NEW rec \in [name : Username, role : Role, secret : Secret, version : 0 .. MaxVersion],
               UpdateUser(u, rec)
        PROVE  TypeOK'
    <2>1. rec \in User /\ rec.name \in Username
      BY ConstantsOK DEF User
    <2>2. users' \in [DOMAIN users' -> User] /\ DOMAIN users' \subseteq UserId
      BY <1>2, <2>1 DEF TypeOK, UpdateUser
    <2>3. username' \in [DOMAIN username' -> UserId] /\ DOMAIN username' \subseteq Username
      <3> DEFINE dropped == Drop(username, {users[u].name})
      <3>1. dropped \in [DOMAIN dropped -> UserId] /\ DOMAIN dropped \subseteq Username
        BY DropType DEF TypeOK
      <3> HIDE DEF dropped
      <3>2. LET moved == Put(dropped, rec.name, u)
            IN  moved \in [DOMAIN moved -> UserId] /\ DOMAIN moved \subseteq Username
        BY <2>1, <3>1, PutType
      <3> QED  BY <1>2, <3>2 DEF TypeOK, UpdateUser, dropped
    <2> QED  BY <1>2, <2>2, <2>3 DEF TypeOK, UpdateUser
  <1>3. ASSUME NEW u \in UserId, NEW secret \in Secret, SetUserPassword(u, secret)
        PROVE  TypeOK'
    BY <1>3 DEF TypeOK, SetUserPassword, User
  <1>4. ASSUME NEW u \in UserId, DeleteUser(u)
        PROVE  TypeOK'
    <2>1. /\ users' \in [DOMAIN users' -> User] /\ DOMAIN users' \subseteq UserId
          /\ username' \in [DOMAIN username' -> UserId] /\ DOMAIN username' \subseteq Username
      BY <1>4, DropType DEF TypeOK, DeleteUser
    <2> QED  BY <1>4, <2>1, ForgetType DEF TypeOK, DeleteUser
  <1> QED  BY <1>1, <1>2, <1>3, <1>4 DEF UserOp

\* The methods on notices keep the kinds of the maps.
LEMMA NoticeOpType ==
    ASSUME TypeOK, NoticeOp
    PROVE  TypeOK'
  <1>1. ASSUME NEW n \in NoticeId, NEW draft \in NewDrafts, CreateNotice(n, draft)
        PROVE  TypeOK'
    <2> DEFINE fresh == [text |-> draft.text, status |-> draft.status, pinned |-> draft.pinned,
                         createdAt |-> clock', updatedAt |-> clock',
                         publishAt |-> IF draft.status = "published" /\ draft.publishAt = NoTime
                                         THEN clock' ELSE draft.publishAt]
    <2>1. clock' \in Nat \ {NoTime}
      BY <1>1, NowForward DEF CreateNotice
    <2>2. /\ draft.text \in Text /\ draft.status \in Status /\ draft.pinned \in BOOLEAN
          /\ draft.publishAt \in Nat
      BY DEF NewDrafts, Drafts, TypeOK
    <2>3. fresh \in Notice
      BY <2>1, <2>2 DEF Notice
    <2>4. notices' = Put(notices, n, fresh)
      BY <1>1 DEF CreateNotice
    <2> HIDE DEF fresh
    <2>5. notices' \in [DOMAIN notices' -> Notice] /\ DOMAIN notices' \subseteq NoticeId
      BY <2>3, <2>4, PutType DEF TypeOK
    <2>6. issued' \subseteq UserId \cup NoticeId \cup ReadId
      BY <1>1 DEF TypeOK, CreateNotice
    <2>7. UNCHANGED <<users, username, reads, readIdx>>
      BY <1>1 DEF CreateNotice
    <2> QED  BY <2>1, <2>5, <2>6, <2>7 DEF TypeOK
  <1>2. ASSUME NEW n \in NoticeId, NEW text \in Text, NEW status \in Status,
               NEW pinned \in BOOLEAN, NEW publishAt \in Nat, n \in DOMAIN notices, Now,
               notices' = [notices EXCEPT ![n] = Revised(n, text, status, pinned, publishAt)]
        PROVE  /\ clock' \in Nat \ {NoTime}
               /\ notices' \in [DOMAIN notices' -> Notice] /\ DOMAIN notices' \subseteq NoticeId
    <2>1. clock' \in Nat \ {NoTime}
      BY <1>2, NowForward
    <2>2. Revised(n, text, status, pinned, publishAt) \in Notice
      BY <1>2, <2>1 DEF Revised, Notice, TypeOK
    <2> QED  BY <1>2, <2>1, <2>2 DEF TypeOK
  <1>3. ASSUME NEW n \in NoticeId, NEW draft \in Drafts, UpdateNotice(n, draft)
        PROVE  TypeOK'
    <2> DEFINE at == IF draft.status = "draft" THEN NoTime
                     ELSE IF draft.publishAt = NoTime THEN clock' ELSE draft.publishAt
    <2>1. /\ draft.text \in Text /\ draft.status \in Status /\ draft.pinned \in BOOLEAN
          /\ draft.publishAt \in Nat
      BY DEF Drafts, TypeOK
    <2>2. at \in Nat
      BY <1>3, <2>1, NowForward DEF UpdateNotice
    <2>3. /\ n \in DOMAIN notices /\ Now
          /\ notices' = [notices EXCEPT ![n] =
                           Revised(n, draft.text, draft.status, draft.pinned, at)]
          /\ UNCHANGED <<users, username, reads, readIdx, issued>>
      BY <1>3 DEF UpdateNotice
    <2> HIDE DEF at
    <2>4. /\ clock' \in Nat \ {NoTime}
          /\ notices' \in [DOMAIN notices' -> Notice] /\ DOMAIN notices' \subseteq NoticeId
      BY <1>2, <2>1, <2>2, <2>3
    <2> QED  BY <2>3, <2>4 DEF TypeOK
  <1>4. ASSUME NEW n \in NoticeId, NEW pinned \in BOOLEAN, UpdateNoticeMetadata(n, pinned)
        PROVE  TypeOK'
    BY <1>4 DEF TypeOK, UpdateNoticeMetadata, Notice
  <1>5. ASSUME NEW n \in NoticeId, NEW status \in Status, SetNoticeStatus(n, status)
        PROVE  TypeOK'
    <2> DEFINE at == IF status = "published" THEN clock' ELSE NoTime
    <2>1. at \in Nat
      BY <1>5, NowForward DEF SetNoticeStatus
    <2>2. notices[n].text \in Text /\ notices[n].pinned \in BOOLEAN
      BY <1>5 DEF TypeOK, Notice, SetNoticeStatus
    <2>3. /\ n \in DOMAIN notices /\ Now
          /\ notices' = [notices EXCEPT ![n] =
                           Revised(n, notices[n].text, status, notices[n].pinned, at)]
          /\ UNCHANGED <<users, username, reads, readIdx, issued>>
      BY <1>5 DEF SetNoticeStatus
    <2> HIDE DEF at
    <2>4. /\ clock' \in Nat \ {NoTime}
          /\ notices' \in [DOMAIN notices' -> Notice] /\ DOMAIN notices' \subseteq NoticeId
      BY <1>2, <2>1, <2>2, <2>3
    <2> QED  BY <2>3, <2>4 DEF TypeOK
  <1>6. ASSUME NEW n \in NoticeId, DeleteNotice(n)
        PROVE  TypeOK'
    <2>1. notices' \in [DOMAIN notices' -> Notice] /\ DOMAIN notices' \subseteq NoticeId
      BY <1>6, DropType DEF TypeOK, DeleteNotice
    <2> QED  BY <1>6, <2>1, ForgetType DEF TypeOK, DeleteNotice
  <1> QED  BY <1>1, <1>3, <1>4, <1>5, <1>6 DEF NoticeOp

\* Writing one record to both maps leaves maps of their kind.
LEMMA StoreType ==
    ASSUME TypeOK, NEW rr \in ReadRecord, Store(rr)
    PROVE  /\ reads' \in [DOMAIN reads' -> ReadRecord] /\ DOMAIN reads' \subseteq ReadId
           /\ readIdx' \in [DOMAIN readIdx' -> ReadRecord]
           /\ DOMAIN readIdx' \subseteq UserId \X NoticeId
  <1>1. rr.id \in ReadId /\ Key(rr) \in UserId \X NoticeId
    BY DEF ReadRecord, Key
  <1> QED  BY <1>1, PutType DEF TypeOK, Store

\* The methods on read records keep the kinds of the maps.
LEMMA ReadOpType ==
    ASSUME TypeOK, ReadOp
    PROVE  TypeOK'
  <1>1. ASSUME NEW u \in UserId, NEW n \in NoticeId, NEW r \in ReadId, FirstRead(u, n, r)
        PROVE  TypeOK'
    <2>1. clock' \in Nat \ {NoTime}
      BY <1>1, NowForward DEF FirstRead
    <2>2. RecordNow(u, n, r, clock') \in ReadRecord
      BY <2>1 DEF RecordNow, ReadRecord
    <2>3. /\ issued' \subseteq UserId \cup NoticeId \cup ReadId
          /\ UNCHANGED <<users, username, notices>>
      BY <1>1 DEF TypeOK, FirstRead
    <2> QED  BY <1>1, <2>1, <2>2, <2>3, StoreType DEF TypeOK, FirstRead
  <1>2. ASSUME NEW u \in UserId, NEW n \in NoticeId, ReadAgain(u, n)
        PROVE  TypeOK'
    <2>1. clock' \in Nat \ {NoTime}
      BY <1>2, NowForward DEF ReadAgain
    <2>2. readIdx[<<u, n>>] \in ReadRecord
      BY <1>2 DEF TypeOK, ReadAgain
    <2>3. RecordNow(u, n, readIdx[<<u, n>>].id, readIdx[<<u, n>>].createdAt) \in ReadRecord
      BY <2>1, <2>2 DEF RecordNow, ReadRecord
    <2> QED  BY <1>2, <2>1, <2>3, StoreType DEF TypeOK, ReadAgain
  <1>3. ASSUME NEW gone, Forget(gone), UNCHANGED <<users, username, notices, clock, issued>>
        PROVE  TypeOK'
    BY <1>3, ForgetType DEF TypeOK
  <1> QED  BY <1>1, <1>2, <1>3
           DEF ReadOp, UpsertReadRecord, DeleteReadRecordsByNotice, DeleteReadRecordsByUser

\* Every method keeps the kinds of the maps.
LEMMA NextType == TypeOK /\ [Next]_vars => TypeOK'
  <1> SUFFICES ASSUME TypeOK, [Next]_vars
               PROVE  TypeOK'
    OBVIOUS
  <1>1. CASE UNCHANGED vars
    BY <1>1 DEF vars, TypeOK
  <1> QED  BY <1>1, UserOpType, NoticeOpType, ReadOpType DEF Next, Query

\* Every step of the store keeps the kinds of its maps.
THEOREM TypeCorrect == Spec => []TypeOK
  BY InitType, NextType, PTL DEF Spec

-----------------------------------------------------------------------------
(* The name index *)

\* The part of the invariant that speaks of users and names only.
NamesInv == TypeOK /\ Fresh /\ UsernameIndexExact

\* Creating, renaming and deleting users keeps names and users inverse.
LEMMA NamesStep ==
    ASSUME NamesInv, UserOp
    PROVE  Fresh' /\ UsernameIndexExact'
  <1> USE DEF NamesInv
  <1>1. ASSUME NEW u \in UserId, NEW name \in Username, NEW role \in Role, NEW secret \in Secret,
               CreateUser(u, name, role, secret)
        PROVE  Fresh' /\ UsernameIndexExact'
    <2> DEFINE fresh == [name |-> name, role |-> role, secret |-> secret, version |-> 0]
    <2>1. fresh.name = name
      OBVIOUS
    <2>2. /\ users' = Put(users, u, fresh) /\ username' = Put(username, name, u)
          /\ u \notin DOMAIN users /\ name \notin DOMAIN username
      BY <1>1 DEF CreateUser, Fresh
    <2> HIDE DEF fresh
    <2>3. /\ DOMAIN users' = DOMAIN users \cup {u} /\ users'[u] = fresh
          /\ \A x \in DOMAIN users : users'[x] = users[x]
      BY <2>2 DEF Put
    <2>4. /\ DOMAIN username' = DOMAIN username \cup {name} /\ username'[name] = u
          /\ \A x \in DOMAIN username : username'[x] = username[x]
      BY <2>2 DEF Put
    <2>5. UsernameIndexExact'
      BY <2>1, <2>2, <2>3, <2>4 DEF UsernameIndexExact
    <2>6. Fresh'
      BY <1>1, <2>3 DEF Fresh, CreateUser
    <2> QED  BY <2>5, <2>6
  <1>2. ASSUME NEW u \in UserId,
               NEW rec \in [name : Username, role : Role, secret : Secret, version : 0 .. MaxVersion],
               UpdateUser(u, rec)
        PROVE  Fresh' /\ UsernameIndexExact'
    <2>1. /\ u \in DOMAIN users /\ DOMAIN users' = DOMAIN users /\ users'[u] = rec
          /\ \A x \in DOMAIN users : x # u => users'[x] = users[x]
      BY <1>2 DEF UpdateUser, TypeOK
    <2>2. Fresh'
      BY <1>2, <2>1 DEF Fresh, UpdateUser
    <2>3. CASE rec.name = users[u].name
      BY <1>2, <2>1, <2>2, <2>3 DEF UsernameIndexExact, UpdateUser
    <2>4. CASE rec.name # users[u].name
      <3> DEFINE old == users[u].name
      <3>1. rec.name \notin DOMAIN username \/ username[rec.name] = u
        BY <1>2, <2>4 DEF UpdateUser
      <3>2. rec.name \notin DOMAIN username
        BY <3>1, <2>4 DEF UsernameIndexExact
      <3>3. username' = Put(Drop(username, {old}), rec.name, u)
        BY <1>2, <2>4 DEF UpdateUser
      <3>4. /\ DOMAIN username' = (DOMAIN username \ {old}) \cup {rec.name}
            /\ username'[rec.name] = u
            /\ \A x \in DOMAIN username \ {old} : username'[x] = username[x]
        BY <3>2, <3>3 DEF Put, Drop, Restrict
      <3>5. /\ old \in DOMAIN username /\ username[old] = u
            /\ \A x \in DOMAIN users : x # u => users[x].name # old /\ users[x].name # rec.name
        BY <2>1, <3>2 DEF UsernameIndexExact
      <3> QED  BY <2>1, <2>2, <3>2, <3>4, <3>5 DEF UsernameIndexExact
    <2> QED  BY <2>2, <2>3, <2>4
  <1>3. ASSUME NEW u \in UserId, NEW secret \in Secret, SetUserPassword(u, secret)
        PROVE  Fresh' /\ UsernameIndexExact'
    <2>1. /\ DOMAIN users' = DOMAIN users
          /\ \A x \in DOMAIN users : users'[x].name = users[x].name
      BY <1>3 DEF SetUserPassword, TypeOK
    <2>2. UNCHANGED <<username, notices, reads, issued>>
      BY <1>3 DEF SetUserPassword
    <2> QED  BY <2>1, <2>2 DEF Fresh, UsernameIndexExact
  <1>4. ASSUME NEW u \in UserId, DeleteUser(u)
        PROVE  Fresh' /\ UsernameIndexExact'
    <2>1. /\ DOMAIN users' = DOMAIN users \ {u}
          /\ \A x \in DOMAIN users \ {u} : users'[x] = users[x]
      BY <1>4, DropValue DEF DeleteUser
    <2>2. /\ DOMAIN username' = DOMAIN username \ {users[u].name}
          /\ \A x \in DOMAIN username \ {users[u].name} : username'[x] = username[x]
      BY <1>4, DropValue DEF DeleteUser
    <2>3. DOMAIN reads' \subseteq DOMAIN reads /\ UNCHANGED <<notices, issued>>
      BY <1>4, DropValue DEF DeleteUser, Forget
    <2>4. u \in DOMAIN users
      BY <1>4 DEF DeleteUser
    <2> QED  BY <2>1, <2>2, <2>3, <2>4 DEF Fresh, UsernameIndexExact
  <1> QED  BY <1>1, <1>2, <1>3, <1>4 DEF UserOp

\* Every identifier in use after a step was handed out, by it or before.
LEMMA FreshStep ==
    ASSUME TypeOK, Fresh, NoticeOp \/ ReadOp, ReadCopiesAgree
    PROVE  Fresh' /\ UNCHANGED <<users, username>>
  <1>1. ASSUME NEW n \in NoticeId, NEW draft, CreateNotice(n, draft)
        PROVE  Fresh' /\ UNCHANGED <<users, username>>
    BY <1>1 DEF Fresh, CreateNotice, Put
  <1>2. ASSUME NEW n \in NoticeId, NEW draft, UpdateNotice(n, draft)
        PROVE  Fresh' /\ UNCHANGED <<users, username>>
    BY <1>2 DEF Fresh, UpdateNotice, TypeOK
  <1>3. ASSUME NEW n \in NoticeId, NEW pinned, UpdateNoticeMetadata(n, pinned)
        PROVE  Fresh' /\ UNCHANGED <<users, username>>
    BY <1>3 DEF Fresh, UpdateNoticeMetadata, TypeOK
  <1>4. ASSUME NEW n \in NoticeId, NEW status, SetNoticeStatus(n, status)
        PROVE  Fresh' /\ UNCHANGED <<users, username>>
    BY <1>4 DEF Fresh, SetNoticeStatus, TypeOK
  <1>5. ASSUME NEW n \in NoticeId, DeleteNotice(n)
        PROVE  Fresh' /\ UNCHANGED <<users, username>>
    BY <1>5 DEF Fresh, DeleteNotice, Forget, Drop, Restrict
  <1>6. ASSUME NEW u \in UserId, NEW n \in NoticeId, UpsertReadRecord(u, n)
        PROVE  Fresh' /\ UNCHANGED <<users, username>>
    <2>1. ASSUME NEW r \in ReadId, FirstRead(u, n, r)
          PROVE  Fresh' /\ UNCHANGED <<users, username>>
      <3>1. RecordNow(u, n, r, clock').id = r
        BY DEF RecordNow
      <3>2. DOMAIN reads' = DOMAIN reads \cup {r}
        BY <2>1, <3>1 DEF FirstRead, Store, Put
      <3> QED  BY <2>1, <3>2 DEF Fresh, FirstRead
    <2>2. CASE ReadAgain(u, n)
      <3> DEFINE old == readIdx[<<u, n>>]
      <3>1. RecordNow(u, n, old.id, old.createdAt).id = old.id
        BY DEF RecordNow
      <3>2. DOMAIN reads' = DOMAIN reads \cup {old.id}
        BY <2>2, <3>1 DEF ReadAgain, Store, Put
      <3>3. old.id \in DOMAIN reads
        BY <2>2 DEF ReadAgain, ReadCopiesAgree
      <3> QED  BY <2>2, <3>2, <3>3 DEF Fresh, ReadAgain
    <2> QED  BY <1>6, <2>1, <2>2 DEF UpsertReadRecord
  <1>7. ASSUME NEW gone, Forget(gone), UNCHANGED <<users, username, notices, issued>>
        PROVE  Fresh' /\ UNCHANGED <<users, username>>
    BY <1>7, DropValue DEF Fresh, Forget
  <1> QED  BY <1>1, <1>2, <1>3, <1>4, <1>5, <1>6, <1>7
           DEF NoticeOp, ReadOp, DeleteReadRecordsByNotice, DeleteReadRecordsByUser

-----------------------------------------------------------------------------
(* Read records *)

\* The part of the invariant that speaks of notices and read records.
RecordsInv ==
    /\ ReadCopiesAgree
    /\ ReadsReferToLive
    /\ PublicationTimed
    /\ ReadTimes
    /\ DraftReadsOlder

\* Removing records from both maps keeps the copies in step.
LEMMA ForgetCopies ==
    ASSUME TypeOK, ReadCopiesAgree, NEW gone \in SUBSET DOMAIN reads, Forget(gone)
    PROVE  /\ ReadCopiesAgree'
           /\ DOMAIN reads' = DOMAIN reads \ gone
           /\ \A r \in DOMAIN reads' : reads'[r] = reads[r]
  <1> DEFINE keys == {Key(reads[r]) : r \in gone}
  <1>1. /\ DOMAIN reads' = DOMAIN reads \ gone
        /\ \A r \in DOMAIN reads' : reads'[r] = reads[r]
    BY DEF Forget, Drop, Restrict
  <1>2. /\ DOMAIN readIdx' = DOMAIN readIdx \ keys
        /\ \A k \in DOMAIN readIdx' : readIdx'[k] = readIdx[k]
    BY DEF Forget, Drop, Restrict
  <1>3. ASSUME NEW r \in DOMAIN reads'
        PROVE  /\ reads'[r].id = r /\ Key(reads'[r]) \in DOMAIN readIdx'
               /\ readIdx'[Key(reads'[r])] = reads'[r]
    <2>1. /\ r \in DOMAIN reads \ gone /\ reads'[r] = reads[r] /\ reads[r].id = r
          /\ Key(reads[r]) \in DOMAIN readIdx /\ readIdx[Key(reads[r])] = reads[r]
      BY <1>1 DEF ReadCopiesAgree
    <2>2. ASSUME NEW x \in gone
          PROVE  Key(reads[x]) # Key(reads[r])
      <3>1. readIdx[Key(reads[x])] = reads[x] /\ reads[x].id = x
        BY DEF ReadCopiesAgree
      <3> QED  BY <2>1, <3>1
    <2> QED  BY <1>2, <2>1, <2>2
  <1>4. ASSUME NEW k \in DOMAIN readIdx'
        PROVE  /\ Key(readIdx'[k]) = k /\ readIdx'[k].id \in DOMAIN reads'
               /\ reads'[readIdx'[k].id] = readIdx'[k]
    <2>1. /\ k \in DOMAIN readIdx /\ k \notin keys /\ readIdx'[k] = readIdx[k]
          /\ Key(readIdx[k]) = k /\ readIdx[k].id \in DOMAIN reads
          /\ reads[readIdx[k].id] = readIdx[k]
      BY <1>2 DEF ReadCopiesAgree
    <2>2. readIdx[k].id \notin gone
      BY <2>1
    <2> QED  BY <1>1, <2>1, <2>2
  <1> QED  BY <1>1, <1>3, <1>4 DEF ReadCopiesAgree

\* Writing one record to both maps keeps them in step when the record takes
\* over its pair's ID, or brings a new ID for a pair without a record.
LEMMA StoreCopies ==
    ASSUME TypeOK, ReadCopiesAgree, NEW rr \in ReadRecord, Store(rr),
           \/ Key(rr) \in DOMAIN readIdx /\ rr.id = readIdx[Key(rr)].id
           \/ Key(rr) \notin DOMAIN readIdx /\ rr.id \notin DOMAIN reads
    PROVE  /\ ReadCopiesAgree'
           /\ DOMAIN reads' = DOMAIN reads \cup {rr.id}
           /\ reads'[rr.id] = rr
           /\ \A r \in DOMAIN reads : r # rr.id => reads'[r] = reads[r]
  <1>1. /\ DOMAIN reads' = DOMAIN reads \cup {rr.id}
        /\ reads'[rr.id] = rr
        /\ \A r \in DOMAIN reads : r # rr.id => reads'[r] = reads[r]
    BY DEF Store, Put
  <1>2. /\ DOMAIN readIdx' = DOMAIN readIdx \cup {Key(rr)}
        /\ readIdx'[Key(rr)] = rr
        /\ \A k \in DOMAIN readIdx : k # Key(rr) => readIdx'[k] = readIdx[k]
    BY DEF Store, Put
  <1>3. ASSUME NEW r \in DOMAIN reads'
        PROVE  /\ reads'[r].id = r /\ Key(reads'[r]) \in DOMAIN readIdx'
               /\ readIdx'[Key(reads'[r])] = reads'[r]
    <2>1. CASE r = rr.id
      BY <1>1, <1>2, <2>1
    <2>2. CASE r # rr.id
      <3>1. /\ r \in DOMAIN reads /\ reads'[r] = reads[r] /\ reads[r].id = r
            /\ Key(reads[r]) \in DOMAIN readIdx /\ readIdx[Key(reads[r])] = reads[r]
        BY <1>1, <2>2 DEF ReadCopiesAgree
      <3>2. Key(reads[r]) # Key(rr)
        BY <2>2, <3>1
      <3> QED  BY <1>2, <3>1, <3>2
    <2> QED  BY <2>1, <2>2
  <1>4. ASSUME NEW k \in DOMAIN readIdx'
        PROVE  /\ Key(readIdx'[k]) = k /\ readIdx'[k].id \in DOMAIN reads'
               /\ reads'[readIdx'[k].id] = readIdx'[k]
    <2>1. CASE k = Key(rr)
      BY <1>1, <1>2, <2>1
    <2>2. CASE k # Key(rr)
      <3>1. /\ k \in DOMAIN readIdx /\ readIdx'[k] = readIdx[k] /\ Key(readIdx[k]) = k
            /\ readIdx[k].id \in DOMAIN reads /\ reads[readIdx[k].id] = readIdx[k]
        BY <1>2, <2>2 DEF ReadCopiesAgree
      <3>2. readIdx[k].id # rr.id
        <4>1. CASE Key(rr) \in DOMAIN readIdx /\ rr.id = readIdx[Key(rr)].id
          <5>1. reads[rr.id] = readIdx[Key(rr)] /\ Key(readIdx[Key(rr)]) = Key(rr)
            BY <4>1 DEF ReadCopiesAgree
          <5> QED  BY <2>2, <3>1, <5>1
        <4>2. CASE rr.id \notin DOMAIN reads
          BY <3>1, <4>2
        <4> QED  BY <4>1, <4>2
      <3> QED  BY <1>1, <3>1, <3>2
    <2> QED  BY <2>1, <2>2
  <1> QED  BY <1>1, <1>3, <1>4 DEF ReadCopiesAgree

\* A step that only removes read records, and perhaps the users or the notices
\* they were about, keeps the invariant.
LEMMA ForgetStep ==
    ASSUME TypeOK, RecordsInv, NEW gone \in SUBSET DOMAIN reads, Forget(gone),
           UNCHANGED clock,
           \A r \in DOMAIN reads \ gone :
              /\ reads[r].user \in DOMAIN users'
              /\ reads[r].notice \in DOMAIN notices',
           DOMAIN notices' \subseteq DOMAIN notices,
           \A n \in DOMAIN notices' : notices'[n] = notices[n]
    PROVE  RecordsInv'
  <1>1. /\ ReadCopiesAgree' /\ DOMAIN reads' = DOMAIN reads \ gone
        /\ \A r \in DOMAIN reads' : reads'[r] = reads[r]
    BY ForgetCopies DEF RecordsInv
  <1>2. ReadsReferToLive'
    BY <1>1 DEF ReadsReferToLive
  <1>3. PublicationTimed'
    BY DEF RecordsInv, PublicationTimed
  <1>4. ReadTimes' /\ DraftReadsOlder'
    BY <1>1 DEF RecordsInv, ReadTimes, DraftReadsOlder
  <1> QED  BY <1>1, <1>2, <1>3, <1>4 DEF RecordsInv

\* A step that keeps the read records and moves UpdatedAt to the time of a
\* fresh reading, for every notice it changes or adds, keeps the invariant.
LEMMA ReviseStep ==
    ASSUME TypeOK, TypeOK', RecordsInv, Now, UNCHANGED <<users, reads, readIdx>>,
           DOMAIN notices \subseteq DOMAIN notices',
           \A n \in DOMAIN notices' :
              \/ n \in DOMAIN notices /\ notices'[n] = notices[n]
              \/ /\ notices'[n].updatedAt = clock'
                 /\ notices'[n].publishAt # NoTime <=> notices'[n].status = "published"
                 /\ notices'[n].publishAt <= clock'
    PROVE  RecordsInv'
  <1>1. clock \in Nat /\ clock' \in Nat /\ clock' >= clock /\ (~Coarse => clock' > clock)
    BY NowForward DEF TypeOK
  <1>2. ReadCopiesAgree' /\ ReadsReferToLive'
    BY DEF RecordsInv, ReadCopiesAgree, ReadsReferToLive
  <1>3. ASSUME NEW n \in DOMAIN notices'
        PROVE  /\ (notices'[n].publishAt # NoTime) <=> (notices'[n].status = "published")
               /\ notices'[n].publishAt <= notices'[n].updatedAt
               /\ notices'[n].updatedAt <= clock'
    <2>1. CASE n \in DOMAIN notices /\ notices'[n] = notices[n]
      <3>1. notices[n].updatedAt \in Nat
        BY <2>1 DEF TypeOK, Notice
      <3> QED  BY <1>1, <2>1, <3>1 DEF RecordsInv, PublicationTimed
    <2>2. CASE /\ notices'[n].updatedAt = clock'
               /\ notices'[n].publishAt # NoTime <=> notices'[n].status = "published"
               /\ notices'[n].publishAt <= clock'
      BY <1>1, <2>2
    <2> QED  BY <2>1, <2>2
  <1>4. ASSUME NEW r \in DOMAIN reads
        PROVE  reads[r].readAt \in Nat /\ reads[r].createdAt <= reads[r].readAt
               /\ reads[r].readAt <= clock
    BY DEF TypeOK, ReadRecord, RecordsInv, ReadTimes
  <1>5. ReadTimes'
    BY <1>1, <1>4 DEF ReadTimes
  <1>6. ASSUME ~Coarse, NEW r \in DOMAIN reads, reads[r].notice \in DOMAIN notices',
               notices'[reads[r].notice].status = "draft"
        PROVE  reads[r].readAt < notices'[reads[r].notice].updatedAt
    <2>1. CASE notices'[reads[r].notice] = notices[reads[r].notice]
               /\ reads[r].notice \in DOMAIN notices
      BY <1>6, <2>1 DEF RecordsInv, DraftReadsOlder
    <2>2. CASE notices'[reads[r].notice].updatedAt = clock'
      BY <1>1, <1>4, <1>6, <2>2
    <2> QED  BY <1>6, <2>1, <2>2
  <1>7. DraftReadsOlder'
    BY <1>6 DEF DraftReadsOlder
  <1> QED  BY <1>2, <1>3, <1>5, <1>7 DEF RecordsInv, PublicationTimed

\* A recorded read is a store of one record, stamped now, which takes over the
\* ID of its pair's record or brings a new one.
LEMMA UpsertStores ==
    ASSUME TypeOK, Fresh, ReadCopiesAgree, ReadTimes, NEW u \in UserId, NEW n \in NoticeId,
           UpsertReadRecord(u, n)
    PROVE  \E rr \in ReadRecord :
             /\ Store(rr) /\ Now /\ UNCHANGED <<users, notices>> /\ Readable(u, n)
             /\ rr.user = u /\ rr.notice = n /\ rr.readAt = clock' /\ rr.createdAt <= clock'
             /\ \/ Key(rr) \in DOMAIN readIdx /\ rr.id = readIdx[Key(rr)].id
                \/ Key(rr) \notin DOMAIN readIdx /\ rr.id \notin DOMAIN reads
  <1>1. ASSUME NEW r \in ReadId, FirstRead(u, n, r)
        PROVE  \E rr \in ReadRecord :
                 /\ Store(rr) /\ Now /\ UNCHANGED <<users, notices>> /\ Readable(u, n)
                 /\ rr.user = u /\ rr.notice = n /\ rr.readAt = clock'
                 /\ rr.createdAt <= clock'
                 /\ Key(rr) \notin DOMAIN readIdx /\ rr.id \notin DOMAIN reads
    <2> DEFINE rr == RecordNow(u, n, r, clock')
    <2>1. Now /\ UNCHANGED <<users, notices>> /\ Readable(u, n) /\ clock' \in Nat
      BY <1>1, NowForward DEF FirstRead
    <2>2. /\ rr \in ReadRecord /\ Store(rr) /\ rr.user = u /\ rr.notice = n
          /\ rr.readAt = clock' /\ rr.createdAt = clock' /\ rr.id = r
          /\ Key(rr) \notin DOMAIN readIdx /\ r \notin DOMAIN reads
      BY <1>1, <2>1 DEF FirstRead, RecordNow, ReadRecord, Key, Fresh
    <2> HIDE DEF rr
    <2> QED  BY <2>1, <2>2
  <1>2. CASE ReadAgain(u, n)
    <2> DEFINE old == readIdx[<<u, n>>]
               rr == RecordNow(u, n, old.id, old.createdAt)
    <2>1. /\ Now /\ UNCHANGED <<users, notices>> /\ Readable(u, n)
          /\ <<u, n>> \in DOMAIN readIdx /\ Store(rr)
      BY <1>2 DEF ReadAgain
    <2>2. clock \in Nat /\ clock' \in Nat /\ clock' >= clock
      BY <2>1, NowForward DEF TypeOK
    <2>3. old \in ReadRecord /\ old.id \in DOMAIN reads /\ reads[old.id] = old
      BY <2>1 DEF TypeOK, ReadCopiesAgree
    <2>4. /\ old.createdAt \in Nat /\ old.readAt \in Nat /\ old.id \in ReadId
          /\ old.createdAt <= old.readAt /\ old.readAt <= clock
      BY <2>3 DEF ReadRecord, ReadTimes
    <2> HIDE DEF old
    <2>5. /\ rr \in ReadRecord /\ rr.user = u /\ rr.notice = n
          /\ rr.readAt = clock' /\ rr.createdAt <= clock'
          /\ Key(rr) \in DOMAIN readIdx /\ rr.id = readIdx[Key(rr)].id
      BY <2>1, <2>2, <2>4 DEF RecordNow, ReadRecord, Key, old
    <2> HIDE DEF rr
    <2> QED  BY <2>1, <2>5
  <1> QED  BY <1>1, <1>2 DEF UpsertReadRecord

\* Recording a read keeps the invariant: its notice is published.
LEMMA UpsertStep ==
    ASSUME TypeOK, Fresh, RecordsInv, NEW u \in UserId, NEW n \in NoticeId,
           UpsertReadRecord(u, n)
    PROVE  RecordsInv'
  <1>1. PICK rr \in ReadRecord :
          /\ Store(rr) /\ Now /\ UNCHANGED <<users, notices>> /\ Readable(u, n)
          /\ rr.user = u /\ rr.notice = n /\ rr.readAt = clock' /\ rr.createdAt <= clock'
          /\ \/ Key(rr) \in DOMAIN readIdx /\ rr.id = readIdx[Key(rr)].id
             \/ Key(rr) \notin DOMAIN readIdx /\ rr.id \notin DOMAIN reads
    BY UpsertStores DEF RecordsInv
  <1>2. /\ ReadCopiesAgree' /\ DOMAIN reads' = DOMAIN reads \cup {rr.id} /\ reads'[rr.id] = rr
        /\ \A r \in DOMAIN reads : r # rr.id => reads'[r] = reads[r]
    BY <1>1, StoreCopies DEF RecordsInv
  <1>3. /\ n \in DOMAIN notices /\ notices[n].status = "published" /\ u \in DOMAIN users
        /\ UNCHANGED <<users, notices>>
    BY <1>1 DEF Readable
  <1>4. clock \in Nat /\ clock' \in Nat /\ clock' >= clock
    BY <1>1, NowForward DEF TypeOK
  <1>5. ReadsReferToLive'
    BY <1>1, <1>2, <1>3 DEF RecordsInv, ReadsReferToLive
  <1>6. ASSUME NEW x \in DOMAIN notices
        PROVE  notices[x].updatedAt \in Nat /\ notices[x].updatedAt <= clock
    BY DEF TypeOK, Notice, RecordsInv, PublicationTimed
  <1>7. PublicationTimed'
    BY <1>3, <1>4, <1>6 DEF RecordsInv, PublicationTimed
  <1>8. ASSUME NEW r \in DOMAIN reads
        PROVE  /\ reads[r].readAt \in Nat /\ reads[r].createdAt <= reads[r].readAt
               /\ reads[r].readAt <= clock
    BY DEF TypeOK, ReadRecord, RecordsInv, ReadTimes
  <1>9. ReadTimes'
    BY <1>1, <1>2, <1>4, <1>8 DEF ReadTimes
  <1>10. DraftReadsOlder'
    BY <1>1, <1>2, <1>3 DEF RecordsInv, DraftReadsOlder
  <1> QED  BY <1>2, <1>5, <1>7, <1>9, <1>10 DEF RecordsInv

\* The methods on users keep what is known of the read records.
LEMMA UserRecordsStep ==
    ASSUME TypeOK, RecordsInv, UserOp
    PROVE  RecordsInv'
  <1>1. ASSUME UNCHANGED <<notices, reads, readIdx, clock>>, DOMAIN users \subseteq DOMAIN users'
        PROVE  RecordsInv'
    BY <1>1 DEF RecordsInv, ReadCopiesAgree, ReadsReferToLive, PublicationTimed,
                ReadTimes, DraftReadsOlder
  <1>2. ASSUME NEW u, NEW name, NEW role, NEW secret, CreateUser(u, name, role, secret)
        PROVE  RecordsInv'
    BY <1>1, <1>2 DEF CreateUser, Put
  <1>3. ASSUME NEW u, NEW rec, UpdateUser(u, rec)
        PROVE  RecordsInv'
    BY <1>1, <1>3 DEF UpdateUser, TypeOK
  <1>4. ASSUME NEW u, NEW secret, SetUserPassword(u, secret)
        PROVE  RecordsInv'
    BY <1>1, <1>4 DEF SetUserPassword, TypeOK
  <1>5. ASSUME NEW u, DeleteUser(u)
        PROVE  RecordsInv'
    <2>1. /\ ReadsOfUser(u) \in SUBSET DOMAIN reads /\ Forget(ReadsOfUser(u))
          /\ UNCHANGED <<notices, clock>>
      BY <1>5 DEF DeleteUser, ReadsOfUser
    <2>2. ASSUME NEW r \in DOMAIN reads \ ReadsOfUser(u)
          PROVE  reads[r].user \in DOMAIN users' /\ reads[r].notice \in DOMAIN notices'
      <3>1. reads[r].user # u
        BY DEF ReadsOfUser
      <3>2. DOMAIN users' = DOMAIN users \ {u}
        BY <1>5 DEF DeleteUser, Drop, Restrict
      <3> QED  BY <2>1, <3>1, <3>2 DEF RecordsInv, ReadsReferToLive
    <2> QED  BY <2>1, <2>2, ForgetStep
  <1> QED  BY <1>2, <1>3, <1>4, <1>5 DEF UserOp

\* The methods on notices keep what is known of the read records.
LEMMA NoticeRecordsStep ==
    ASSUME TypeOK, TypeOK', Fresh, RecordsInv, NoticeOp
    PROVE  RecordsInv'
  <1> clock \in Nat
    BY DEF TypeOK
  <1>1. ASSUME NEW n \in NoticeId, NEW draft \in NewDrafts, CreateNotice(n, draft)
        PROVE  RecordsInv'
    <2> DEFINE fresh == [text |-> draft.text, status |-> draft.status, pinned |-> draft.pinned,
                         createdAt |-> clock', updatedAt |-> clock',
                         publishAt |-> IF draft.status = "published" /\ draft.publishAt = NoTime
                                         THEN clock' ELSE draft.publishAt]
    <2>1. /\ Now /\ UNCHANGED <<users, reads, readIdx>> /\ n \notin DOMAIN notices
          /\ notices' = Put(notices, n, fresh)
      BY <1>1 DEF CreateNotice, Fresh
    <2>2. clock' \in Nat /\ clock' >= clock /\ clock' # 0
      BY <2>1, NowForward
    <2>3. /\ draft.status \in Status /\ draft.publishAt \in 0 .. clock
          /\ draft.status = "draft" => draft.publishAt = NoTime
      BY DEF NewDrafts, Drafts
    <2>4. /\ fresh.updatedAt = clock'
          /\ fresh.publishAt # NoTime <=> fresh.status = "published"
          /\ fresh.publishAt <= clock'
      BY <2>2, <2>3
    <2> HIDE DEF fresh
    <2>5. /\ DOMAIN notices' = DOMAIN notices \cup {n} /\ notices'[n] = fresh
          /\ \A x \in DOMAIN notices : notices'[x] = notices[x]
      BY <2>1 DEF Put
    <2> QED  BY <2>1, <2>4, <2>5, ReviseStep
  <1>2. ASSUME NEW n \in DOMAIN notices, NEW text, NEW status, NEW pinned, NEW publishAt, Now,
               UNCHANGED <<users, reads, readIdx>>,
               notices' = [notices EXCEPT ![n] = Revised(n, text, status, pinned, publishAt)],
               publishAt # NoTime <=> status = "published", publishAt <= clock'
        PROVE  RecordsInv'
    <2>1. /\ DOMAIN notices' = DOMAIN notices
          /\ notices'[n] = Revised(n, text, status, pinned, publishAt)
          /\ \A x \in DOMAIN notices : x # n => notices'[x] = notices[x]
      BY <1>2 DEF TypeOK
    <2>2. /\ notices'[n].updatedAt = clock' /\ notices'[n].publishAt = publishAt
          /\ notices'[n].status = status
      BY <2>1 DEF Revised
    <2> QED  BY <1>2, <2>1, <2>2, ReviseStep
  <1>3. ASSUME NEW n \in NoticeId, NEW draft \in Drafts, UpdateNotice(n, draft)
        PROVE  RecordsInv'
    <2> DEFINE at == IF draft.status = "draft" THEN NoTime
                     ELSE IF draft.publishAt = NoTime THEN clock' ELSE draft.publishAt
    <2>1. /\ n \in DOMAIN notices /\ Now /\ UNCHANGED <<users, reads, readIdx>>
          /\ notices' = [notices EXCEPT ![n] =
                           Revised(n, draft.text, draft.status, draft.pinned, at)]
      BY <1>3 DEF UpdateNotice
    <2>2. clock' \in Nat /\ clock' >= clock /\ clock' # 0
      BY <2>1, NowForward
    <2>3. draft.status \in Status /\ draft.publishAt \in 0 .. clock
      BY DEF Drafts
    <2>4. (at # NoTime <=> draft.status = "published") /\ at <= clock'
      BY <2>2, <2>3
    <2> HIDE DEF at
    <2> QED  BY <1>2, <2>1, <2>4
  <1>4. ASSUME NEW n \in NoticeId, NEW pinned \in BOOLEAN, UpdateNoticeMetadata(n, pinned)
        PROVE  RecordsInv'
    <2>1. /\ UNCHANGED <<users, reads, readIdx, clock>> /\ DOMAIN notices' = DOMAIN notices
          /\ \A x \in DOMAIN notices :
                /\ notices'[x].status = notices[x].status
                /\ notices'[x].updatedAt = notices[x].updatedAt
                /\ notices'[x].publishAt = notices[x].publishAt
      BY <1>4 DEF UpdateNoticeMetadata, TypeOK
    <2> QED  BY <2>1 DEF RecordsInv, ReadCopiesAgree, ReadsReferToLive, PublicationTimed,
                         ReadTimes, DraftReadsOlder
  <1>5. ASSUME NEW n \in NoticeId, NEW status \in Status, SetNoticeStatus(n, status)
        PROVE  RecordsInv'
    <2> DEFINE at == IF status = "published" THEN clock' ELSE NoTime
    <2>1. /\ n \in DOMAIN notices /\ Now /\ UNCHANGED <<users, reads, readIdx>>
          /\ notices' = [notices EXCEPT ![n] =
                           Revised(n, notices[n].text, status, notices[n].pinned, at)]
      BY <1>5 DEF SetNoticeStatus
    <2>2. clock' \in Nat /\ clock' # 0
      BY <2>1, NowForward
    <2>3. (at # NoTime <=> status = "published") /\ at <= clock'
      BY <2>2
    <2> HIDE DEF at
    <2> QED  BY <1>2, <2>1, <2>3
  <1>6. ASSUME NEW n \in NoticeId, DeleteNotice(n)
        PROVE  RecordsInv'
    <2>1. /\ ReadsOfNotice(n) \in SUBSET DOMAIN reads /\ Forget(ReadsOfNotice(n))
          /\ UNCHANGED <<users, clock>>
      BY <1>6 DEF DeleteNotice, ReadsOfNotice
    <2>2. /\ DOMAIN notices' = DOMAIN notices \ {n}
          /\ \A x \in DOMAIN notices' : notices'[x] = notices[x]
      BY <1>6 DEF DeleteNotice, Drop, Restrict
    <2>3. ASSUME NEW r \in DOMAIN reads \ ReadsOfNotice(n)
          PROVE  reads[r].user \in DOMAIN users' /\ reads[r].notice \in DOMAIN notices'
      <3>1. reads[r].notice # n
        BY DEF ReadsOfNotice
      <3> QED  BY <2>1, <2>2, <3>1 DEF RecordsInv, ReadsReferToLive
    <2> QED  BY <2>1, <2>2, <2>3, ForgetStep
  <1> QED  BY <1>1, <1>3, <1>4, <1>5, <1>6 DEF NoticeOp

\* The methods on read records keep what is known of them.
LEMMA ReadRecordsStep ==
    ASSUME TypeOK, Fresh, RecordsInv, ReadOp
    PROVE  RecordsInv'
  <1>1. ASSUME NEW gone \in SUBSET DOMAIN reads, Forget(gone),
               UNCHANGED <<users, username, notices, clock, issued>>
        PROVE  RecordsInv'
    <2>1. \A r \in DOMAIN reads \ gone :
             reads[r].user \in DOMAIN users' /\ reads[r].notice \in DOMAIN notices'
      BY <1>1 DEF RecordsInv, ReadsReferToLive
    <2> QED  BY <1>1, <2>1, ForgetStep
  <1>2. ASSUME NEW n, DeleteReadRecordsByNotice(n)
        PROVE  RecordsInv'
    BY <1>1, <1>2 DEF DeleteReadRecordsByNotice, ReadsOfNotice
  <1>3. ASSUME NEW u, DeleteReadRecordsByUser(u)
        PROVE  RecordsInv'
    BY <1>1, <1>3 DEF DeleteReadRecordsByUser, ReadsOfUser
  <1> QED  BY <1>2, <1>3, UpsertStep DEF ReadOp

-----------------------------------------------------------------------------
(* The inductive invariant *)

\* The empty store satisfies the inductive invariant.
LEMMA InitInv == Init => StoreInv
  <1> SUFFICES ASSUME Init
               PROVE  StoreInv
    OBVIOUS
  <1>1. /\ DOMAIN users = {} /\ DOMAIN username = {} /\ DOMAIN notices = {}
        /\ DOMAIN reads = {} /\ DOMAIN readIdx = {}
    BY DEF Init, EmptyMap
  <1> QED  BY <1>1, InitType
           DEF StoreInv, Fresh, UsernameIndexExact, ReadCopiesAgree, ReadsReferToLive,
               PublicationTimed, ReadTimes, DraftReadsOlder

\* Every method preserves the inductive invariant.
LEMMA NextInv == StoreInv /\ [Next]_vars => StoreInv'
  <1> SUFFICES ASSUME StoreInv, [Next]_vars
               PROVE  StoreInv'
    OBVIOUS
  <1>1. TypeOK /\ Fresh /\ UsernameIndexExact /\ RecordsInv
    BY DEF StoreInv, RecordsInv
  <1>2. TypeOK'
    BY <1>1, NextType
  <1>3. CASE UNCHANGED vars
    BY <1>1, <1>2, <1>3
       DEF vars, StoreInv, Fresh, UsernameIndexExact, ReadCopiesAgree, ReadsReferToLive,
           PublicationTimed, ReadTimes, DraftReadsOlder
  <1>4. CASE UserOp
    BY <1>1, <1>2, <1>4, NamesStep, UserRecordsStep DEF StoreInv, RecordsInv, NamesInv
  <1>5. CASE NoticeOp \/ ReadOp
    <2>1. Fresh' /\ UNCHANGED <<users, username>>
      BY <1>1, <1>5, FreshStep DEF RecordsInv
    <2>2. UsernameIndexExact'
      BY <1>1, <2>1 DEF UsernameIndexExact
    <2>3. RecordsInv'
      BY <1>1, <1>2, <1>5, NoticeRecordsStep, ReadRecordsStep
    <2> QED  BY <1>2, <2>1, <2>2, <2>3 DEF StoreInv, RecordsInv
  <1> QED  BY <1>3, <1>4, <1>5 DEF Next, Query

\* StoreInv holds in every state the store reaches.
THEOREM StoreInvariant == Spec => []StoreInv
  BY InitInv, NextInv, PTL DEF Spec

\* Names and users stay each other's inverse.
THEOREM NameIndexCorrect == Spec => []UsernameIndexExact
  <1>1. StoreInv => UsernameIndexExact
    BY DEF StoreInv
  <1> QED  BY <1>1, StoreInvariant, PTL

\* The two copies of the read records agree.
THEOREM ReadCopiesCorrect == Spec => []ReadCopiesAgree
  <1>1. StoreInv => ReadCopiesAgree
    BY DEF StoreInv
  <1> QED  BY <1>1, StoreInvariant, PTL

\* No read record is about a user or a notice that is gone.
THEOREM ReadRecordsCorrect == Spec => []ReadsReferToLive
  <1>1. StoreInv => ReadsReferToLive
    BY DEF StoreInv
  <1> QED  BY <1>1, StoreInvariant, PTL

\* Under a clock that never repeats a reading nobody has read a draft.
THEOREM DraftsUnread == Spec => []DraftUnread
  <1>1. StoreInv => DraftUnread
    <2> SUFFICES ASSUME StoreInv, ~Coarse, NEW n \in DOMAIN notices, NEW u \in UserId,
                        notices[n].status = "draft", IsRead(u, n)
                 PROVE  FALSE
      BY DEF DraftUnread
    <2> DEFINE rr == readIdx[<<u, n>>]
    <2>1. /\ <<u, n>> \in DOMAIN readIdx /\ rr.readAt >= notices[n].updatedAt
      BY DEF IsRead
    <2>2. /\ Key(rr) = <<u, n>> /\ rr.id \in DOMAIN reads /\ reads[rr.id] = rr
      BY <2>1 DEF StoreInv, ReadCopiesAgree
    <2>3. rr.notice = n
      BY <2>2 DEF Key
    <2>4. rr.readAt < notices[n].updatedAt
      BY <2>2, <2>3 DEF StoreInv, DraftReadsOlder
    <2>5. rr.readAt \in Nat /\ notices[n].updatedAt \in Nat
      BY <2>1 DEF StoreInv, TypeOK, ReadRecord, Notice
    <2> QED  BY <2>1, <2>4, <2>5
  <1> QED  BY <1>1, StoreInvariant, PTL

-----------------------------------------------------------------------------
(* What an edit does to reads *)

\* Whoever changes the text or the status of a notice reads the clock for it
\* and leaves every read record as it was.
LEMMA ChangeIsStamped ==
    ASSUME StoreInv, [Next]_vars, NEW n \in DOMAIN notices \cap DOMAIN notices',
           notices'[n].text # notices[n].text \/ notices'[n].status # notices[n].status
    PROVE  Now /\ notices'[n].updatedAt = clock' /\ UNCHANGED readIdx
  <1> n \in DOMAIN notices /\ n \in DOMAIN notices' /\ TypeOK /\ notices'[n] # notices[n]
    BY DEF StoreInv
  <1>1. ASSUME NEW x \in NoticeId, NEW draft, CreateNotice(x, draft)
        PROVE  FALSE
    <2>1. x # n /\ \A y \in DOMAIN notices : y # x => notices'[y] = notices[y]
      BY <1>1 DEF CreateNotice, Put, StoreInv, Fresh
    <2> QED  BY <2>1
  <1>2. ASSUME NEW x \in DOMAIN notices, NEW text, NEW status, NEW pinned, NEW publishAt,
               notices' = [notices EXCEPT ![x] = Revised(x, text, status, pinned, publishAt)]
        PROVE  notices'[n].updatedAt = clock'
    <2>1. CASE x = n
      BY <1>2, <2>1 DEF Revised, TypeOK
    <2>2. CASE x # n
      BY <1>2, <2>2 DEF TypeOK
    <2> QED  BY <2>1, <2>2
  <1>3. ASSUME NEW x \in NoticeId, NEW draft, UpdateNotice(x, draft)
        PROVE  Now /\ notices'[n].updatedAt = clock' /\ UNCHANGED readIdx
    BY <1>2, <1>3 DEF UpdateNotice
  <1>4. ASSUME NEW x \in NoticeId, NEW status, SetNoticeStatus(x, status)
        PROVE  Now /\ notices'[n].updatedAt = clock' /\ UNCHANGED readIdx
    BY <1>2, <1>4 DEF SetNoticeStatus
  <1>5. ASSUME NEW x \in NoticeId, NEW pinned, UpdateNoticeMetadata(x, pinned)
        PROVE  FALSE
    <2>1. notices'[n].text = notices[n].text /\ notices'[n].status = notices[n].status
      BY <1>5 DEF UpdateNoticeMetadata, TypeOK
    <2> QED  BY <2>1
  <1>6. ASSUME NEW x \in NoticeId, DeleteNotice(x)
        PROVE  FALSE
    BY <1>6 DEF DeleteNotice, Drop, Restrict
  <1>7. CASE UserOp \/ ReadOp \/ UNCHANGED vars
    <2>1. UNCHANGED notices
      BY <1>7 DEF UserOp, CreateUser, UpdateUser, SetUserPassword, DeleteUser, ReadOp,
                  UpsertReadRecord, FirstRead, ReadAgain, DeleteReadRecordsByNotice,
                  DeleteReadRecordsByUser, vars
    <2> QED  BY <2>1
  <1> QED  BY <1>1, <1>3, <1>4, <1>5, <1>6, <1>7 DEF Next, NoticeOp, Query

\* Under a clock that never repeats a reading, an edit of the text or of the
\* status leaves the notice unread for everybody.
THEOREM EditsMakeUnread == Spec => EditMakesUnread
  <1>1. StoreInv /\ [Next]_vars =>
          [~Coarse => \A n \in DOMAIN notices \cap DOMAIN notices' :
             \/ notices'[n].text # notices[n].text
             \/ notices'[n].status # notices[n].status
             => \A u \in UserId : ~IsRead(u, n)']_vars
    <2> SUFFICES ASSUME StoreInv, [Next]_vars, ~Coarse,
                        NEW n \in DOMAIN notices \cap DOMAIN notices',
                        \/ notices'[n].text # notices[n].text
                        \/ notices'[n].status # notices[n].status,
                        NEW u \in UserId, IsRead(u, n)'
                 PROVE  FALSE
      OBVIOUS
    <2> DEFINE rr == readIdx[<<u, n>>]
    <2>1. Now /\ notices'[n].updatedAt = clock' /\ UNCHANGED readIdx
      BY ChangeIsStamped
    <2>2. clock \in Nat /\ clock' \in Nat /\ clock' > clock
      BY <2>1, NowForward DEF StoreInv, TypeOK
    <2>3. <<u, n>> \in DOMAIN readIdx /\ rr.readAt >= clock'
      BY <2>1 DEF IsRead
    <2>4. rr \in ReadRecord /\ rr.id \in DOMAIN reads /\ reads[rr.id] = rr
      BY <2>3 DEF StoreInv, TypeOK, ReadCopiesAgree
    <2>5. rr.readAt \in Nat /\ rr.readAt <= clock
      BY <2>4 DEF StoreInv, ReadTimes, ReadRecord
    <2> QED  BY <2>2, <2>3, <2>5
  <1> QED  BY <1>1, StoreInvariant, PTL DEF Spec, EditMakesUnread

-----------------------------------------------------------------------------
(* What a step does to one read *)

\* A notice that stays does not get older, and a new one is a new identifier.
LEMMA NoticesNotOlder ==
    ASSUME StoreInv, [Next]_vars
    PROVE  \A n \in DOMAIN notices' :
              \/ n \notin issued
              \/ n \in DOMAIN notices /\ notices'[n].updatedAt >= notices[n].updatedAt
  <1> /\ TypeOK /\ PublicationTimed /\ \A n \in DOMAIN notices : notices[n].updatedAt \in Nat
    BY DEF StoreInv, TypeOK, Notice
  <1>1. ASSUME NEW x \in NoticeId, NEW draft, CreateNotice(x, draft)
        PROVE  \A n \in DOMAIN notices' :
                  \/ n \notin issued
                  \/ n \in DOMAIN notices /\ notices'[n].updatedAt >= notices[n].updatedAt
    BY <1>1 DEF CreateNotice, Put
  <1>2. ASSUME NEW x, NEW text, NEW status, NEW pinned, NEW publishAt, Now,
               notices' = [notices EXCEPT ![x] = Revised(x, text, status, pinned, publishAt)]
        PROVE  \A n \in DOMAIN notices' :
                  n \in DOMAIN notices /\ notices'[n].updatedAt >= notices[n].updatedAt
    <2>1. clock \in Nat /\ clock' \in Nat /\ clock' >= clock
      BY <1>2, NowForward DEF TypeOK
    <2>2. \A n \in DOMAIN notices : notices[n].updatedAt <= clock
      BY DEF PublicationTimed
    <2>3. \A n \in DOMAIN notices' :
             n \in DOMAIN notices /\ notices'[n].updatedAt \in {notices[n].updatedAt, clock'}
      BY <1>2 DEF Revised
    <2> QED  BY <2>1, <2>2, <2>3
  <1>3. ASSUME NEW x, NEW draft, UpdateNotice(x, draft)
        PROVE  \A n \in DOMAIN notices' :
                  n \in DOMAIN notices /\ notices'[n].updatedAt >= notices[n].updatedAt
    BY <1>2, <1>3 DEF UpdateNotice
  <1>4. ASSUME NEW x, NEW status, SetNoticeStatus(x, status)
        PROVE  \A n \in DOMAIN notices' :
                  n \in DOMAIN notices /\ notices'[n].updatedAt >= notices[n].updatedAt
    BY <1>2, <1>4 DEF SetNoticeStatus
  <1>5. ASSUME NEW x, NEW pinned, UpdateNoticeMetadata(x, pinned)
        PROVE  \A n \in DOMAIN notices' :
                  n \in DOMAIN notices /\ notices'[n].updatedAt >= notices[n].updatedAt
    BY <1>5 DEF UpdateNoticeMetadata
  <1>6. ASSUME NEW x, DeleteNotice(x)
        PROVE  \A n \in DOMAIN notices' :
                  n \in DOMAIN notices /\ notices'[n].updatedAt >= notices[n].updatedAt
    BY <1>6 DEF DeleteNotice, Drop, Restrict
  <1>7. CASE notices' = notices
    BY <1>7
  <1>8. CASE UserOp \/ ReadOp \/ UNCHANGED vars
    <2>1. notices' = notices
      BY <1>8 DEF UserOp, CreateUser, UpdateUser, SetUserPassword, DeleteUser, ReadOp,
                  UpsertReadRecord, FirstRead, ReadAgain, DeleteReadRecordsByNotice,
                  DeleteReadRecordsByUser, vars
    <2> QED  BY <1>7, <2>1
  <1> QED  BY <1>1, <1>3, <1>4, <1>5, <1>6, <1>8 DEF Next, NoticeOp, Query

\* A recorded read moves one record, to the present.
LEMMA UpsertMovesOne ==
    ASSUME StoreInv, NEW u \in UserId, NEW n \in NoticeId, UpsertReadRecord(u, n)
    PROVE  /\ Readable(u, n) /\ Now /\ notices' = notices
           /\ <<u, n>> \in DOMAIN readIdx' /\ readIdx'[<<u, n>>].readAt = clock'
           /\ <<u, n>> \in DOMAIN readIdx =>
                 /\ readIdx'[<<u, n>>].id = readIdx[<<u, n>>].id
                 /\ readIdx'[<<u, n>>].createdAt = readIdx[<<u, n>>].createdAt
           /\ \A k \in (DOMAIN readIdx \cup DOMAIN readIdx') \ {<<u, n>>} :
                 k \in DOMAIN readIdx /\ k \in DOMAIN readIdx' /\ readIdx'[k] = readIdx[k]
  <1>1. ASSUME NEW r, NEW at, Store(RecordNow(u, n, r, at))
        PROVE  /\ <<u, n>> \in DOMAIN readIdx' /\ readIdx'[<<u, n>>].readAt = clock'
               /\ readIdx'[<<u, n>>].id = r /\ readIdx'[<<u, n>>].createdAt = at
               /\ \A k \in (DOMAIN readIdx \cup DOMAIN readIdx') \ {<<u, n>>} :
                     k \in DOMAIN readIdx /\ k \in DOMAIN readIdx' /\ readIdx'[k] = readIdx[k]
    <2> DEFINE new == RecordNow(u, n, r, at)
    <2>1. new.id = r /\ new.createdAt = at /\ new.readAt = clock' /\ Key(new) = <<u, n>>
      BY DEF RecordNow, Key
    <2>2. readIdx' = Put(readIdx, <<u, n>>, new)
      BY <1>1, <2>1 DEF Store
    <2> HIDE DEF new
    <2> QED  BY <2>1, <2>2 DEF Put
  <1>2. CASE ReadAgain(u, n)
    BY <1>1, <1>2 DEF ReadAgain
  <1>3. ASSUME NEW r \in ReadId, FirstRead(u, n, r)
        PROVE  /\ Readable(u, n) /\ Now /\ notices' = notices /\ <<u, n>> \notin DOMAIN readIdx
               /\ Store(RecordNow(u, n, r, clock'))
    BY <1>3 DEF FirstRead
  <1> QED  BY <1>1, <1>2, <1>3 DEF UpsertReadRecord

\* Any other step at most removes records.
LEMMA OthersForget ==
    ASSUME StoreInv, [Next]_vars
    PROVE  \/ \E u \in UserId, n \in NoticeId : UpsertReadRecord(u, n)
           \/ \A k \in DOMAIN readIdx' : k \in DOMAIN readIdx /\ readIdx'[k] = readIdx[k]
  <1>1. ASSUME NEW gone, Forget(gone)
        PROVE  \A k \in DOMAIN readIdx' : k \in DOMAIN readIdx /\ readIdx'[k] = readIdx[k]
    BY <1>1 DEF Forget, Drop, Restrict
  <1>2. CASE UserOp
    BY <1>1, <1>2 DEF UserOp, CreateUser, UpdateUser, SetUserPassword, DeleteUser
  <1>3. CASE NoticeOp
    BY <1>1, <1>3 DEF NoticeOp, CreateNotice, UpdateNotice, UpdateNoticeMetadata,
                      SetNoticeStatus, DeleteNotice
  <1>4. CASE ReadOp
    BY <1>1, <1>4 DEF ReadOp, DeleteReadRecordsByNotice, DeleteReadRecordsByUser
  <1>5. CASE UNCHANGED vars
    BY <1>5 DEF vars
  <1> QED  BY <1>2, <1>3, <1>4, <1>5 DEF Next, Query

\* An indexed record is not newer than the clock, and of a live notice.
LEMMA IndexedRecord ==
    ASSUME StoreInv, NEW k \in DOMAIN readIdx
    PROVE  /\ readIdx[k].readAt \in Nat /\ readIdx[k].readAt <= clock
           /\ k[2] \in DOMAIN notices
  <1>1. /\ Key(readIdx[k]) = k /\ readIdx[k].id \in DOMAIN reads
        /\ reads[readIdx[k].id] = readIdx[k]
    BY DEF StoreInv, ReadCopiesAgree
  <1>2. readIdx[k].readAt \in Nat /\ readIdx[k].readAt <= clock
    BY <1>1 DEF StoreInv, TypeOK, ReadRecord, ReadTimes
  <1>3. readIdx[k].notice = k[2]
    BY <1>1 DEF Key
  <1> QED  BY <1>1, <1>2, <1>3 DEF StoreInv, ReadsReferToLive

\* A record stays the same record, and its read time never runs backwards.
LEMMA RecordStays ==
    ASSUME StoreInv, [Next]_vars, NEW k \in DOMAIN readIdx, k \in DOMAIN readIdx'
    PROVE  /\ readIdx'[k].id = readIdx[k].id
           /\ readIdx'[k].createdAt = readIdx[k].createdAt
           /\ readIdx'[k].readAt >= readIdx[k].readAt
  <1>1. readIdx[k].readAt \in Nat /\ readIdx[k].readAt <= clock /\ clock \in Nat
    BY IndexedRecord DEF StoreInv, TypeOK
  <1>2. ASSUME NEW u \in UserId, NEW n \in NoticeId, UpsertReadRecord(u, n)
        PROVE  /\ readIdx'[k].id = readIdx[k].id
               /\ readIdx'[k].createdAt = readIdx[k].createdAt
               /\ readIdx'[k].readAt >= readIdx[k].readAt
    <2>1. CASE k = <<u, n>>
      <3>0. Now /\ readIdx'[k].readAt = clock'
        BY <1>2, <2>1, UpsertMovesOne
      <3>1. clock' >= clock /\ clock' \in Nat /\ readIdx'[k].readAt = clock'
        BY <1>1, <3>0, NowForward DEF StoreInv
      <3>2. readIdx'[k].id = readIdx[k].id /\ readIdx'[k].createdAt = readIdx[k].createdAt
        BY <1>2, <2>1, UpsertMovesOne
      <3> QED  BY <1>1, <3>1, <3>2
    <2>2. CASE k # <<u, n>>
      <3>1. readIdx'[k] = readIdx[k]
        BY <1>2, <2>2, UpsertMovesOne
      <3> QED  BY <1>1, <3>1
    <2> QED  BY <2>1, <2>2
  <1> QED  BY <1>1, <1>2, OthersForget

\* RecordKept: the record of a repeated read is the record of the first.
THEOREM RecordsAreKept == Spec => RecordKept
  <1>1. StoreInv /\ [Next]_vars =>
          [\A k \in DOMAIN readIdx \cap DOMAIN readIdx' :
             /\ readIdx'[k].id = readIdx[k].id
             /\ readIdx'[k].createdAt = readIdx[k].createdAt
             /\ readIdx'[k].readAt >= readIdx[k].readAt]_vars
    BY RecordStays
  <1> QED  BY <1>1, StoreInvariant, PTL DEF Spec, RecordKept

\* ReadLostOnlyByChange: nothing becomes unread but by a later stamp on the
\* notice or with the record itself.
THEOREM ReadsLostOnlyByChange == Spec => ReadLostOnlyByChange
  <1>1. StoreInv /\ [Next]_vars =>
          [\A u \in UserId, n \in NoticeId :
             IsRead(u, n) /\ ~IsRead(u, n)' =>
                \/ <<u, n>> \notin DOMAIN readIdx'
                \/ notices'[n].updatedAt > notices[n].updatedAt]_vars
    <2> SUFFICES ASSUME StoreInv, [Next]_vars, NEW u \in UserId, NEW n \in NoticeId,
                        IsRead(u, n), ~IsRead(u, n)', <<u, n>> \in DOMAIN readIdx'
                 PROVE  notices'[n].updatedAt > notices[n].updatedAt
      OBVIOUS
    <2>1. StoreInv'
      BY NextInv
    <2>2. /\ <<u, n>> \in DOMAIN readIdx /\ n \in DOMAIN notices
          /\ readIdx[<<u, n>>].readAt >= notices[n].updatedAt
      BY DEF IsRead
    <2>3. readIdx'[<<u, n>>].readAt >= readIdx[<<u, n>>].readAt
      BY <2>2, RecordStays
    <2>4. n \in DOMAIN notices' /\ readIdx'[<<u, n>>].readAt \in Nat
      <3>1. \A k \in DOMAIN readIdx' : readIdx'[k].readAt \in Nat
        BY <2>1 DEF StoreInv, TypeOK, ReadRecord
      <3>2. \A k \in DOMAIN readIdx' :
               /\ readIdx'[k].id \in DOMAIN reads' /\ reads'[readIdx'[k].id] = readIdx'[k]
               /\ <<readIdx'[k].user, readIdx'[k].notice>> = k
        BY <2>1 DEF StoreInv, ReadCopiesAgree, Key
      <3>3. \A k \in DOMAIN readIdx' : readIdx'[k].notice \in DOMAIN notices'
        BY <2>1, <3>2 DEF StoreInv, ReadsReferToLive
      <3>4. readIdx'[<<u, n>>].notice = n
        BY <3>2
      <3> QED  BY <3>1, <3>3, <3>4
    <2>5. ~(readIdx'[<<u, n>>].readAt >= notices'[n].updatedAt)
      BY <2>4 DEF IsRead
    <2>6. /\ notices[n].updatedAt \in Nat /\ notices'[n].updatedAt \in Nat
          /\ readIdx[<<u, n>>].readAt \in Nat
      BY <2>1, <2>2, <2>4 DEF StoreInv, TypeOK, Notice, ReadRecord
    <2> QED  BY <2>2, <2>3, <2>4, <2>5, <2>6
  <1> QED  BY <1>1, StoreInvariant, PTL DEF Spec, ReadLostOnlyByChange

\* ReadBySelfOnly: nothing becomes read but by its reader, who moves no other
\* record.  A stamp moved in the same instant would not do it either.
THEOREM ReadsByReaderOnly == Spec => ReadBySelfOnly
  <1>1. StoreInv /\ [Next]_vars =>
          [\A u \in UserId, n \in NoticeId :
             ~IsRead(u, n) /\ IsRead(u, n)' =>
                /\ notices' = notices /\ notices[n].status = "published"
                /\ \A k \in DOMAIN readIdx \ {<<u, n>>} :
                      k \in DOMAIN readIdx' /\ readIdx'[k] = readIdx[k]]_vars
    <2> SUFFICES ASSUME StoreInv, [Next]_vars, NEW u \in UserId, NEW n \in NoticeId,
                        ~IsRead(u, n), IsRead(u, n)'
                 PROVE  /\ notices' = notices /\ notices[n].status = "published"
                        /\ \A k \in DOMAIN readIdx \ {<<u, n>>} :
                              k \in DOMAIN readIdx' /\ readIdx'[k] = readIdx[k]
      OBVIOUS
    <2>1. /\ <<u, n>> \in DOMAIN readIdx' /\ n \in DOMAIN notices'
          /\ readIdx'[<<u, n>>].readAt >= notices'[n].updatedAt
      BY DEF IsRead
    <2>2. ASSUME <<u, n>> \in DOMAIN readIdx, readIdx'[<<u, n>>] = readIdx[<<u, n>>]
          PROVE  FALSE
      <3>1. n \in DOMAIN notices /\ readIdx[<<u, n>>].readAt \in Nat
        BY <2>2, IndexedRecord
      <3>2. notices[n].updatedAt \in Nat /\ notices'[n].updatedAt \in Nat
        BY <2>1, <3>1, NextInv DEF StoreInv, TypeOK, Notice
      <3>3. notices'[n].updatedAt >= notices[n].updatedAt
        BY <2>1, <3>1, NoticesNotOlder DEF StoreInv, Fresh
      <3> QED  BY <2>1, <2>2, <3>1, <3>2, <3>3 DEF IsRead
    <2>3. CASE \A k \in DOMAIN readIdx' : k \in DOMAIN readIdx /\ readIdx'[k] = readIdx[k]
      BY <2>1, <2>2, <2>3
    <2>4. ASSUME NEW v \in UserId, NEW m \in NoticeId, UpsertReadRecord(v, m)
          PROVE  /\ notices' = notices /\ notices[n].status = "published"
                 /\ \A k \in DOMAIN readIdx \ {<<u, n>>} :
                       k \in DOMAIN readIdx' /\ readIdx'[k] = readIdx[k]
      <3>1. CASE <<v, m>> = <<u, n>>
        BY <2>4, <3>1, UpsertMovesOne DEF Readable
      <3>2. CASE <<v, m>> # <<u, n>>
        <4>1. <<u, n>> \in DOMAIN readIdx /\ readIdx'[<<u, n>>] = readIdx[<<u, n>>]
          BY <2>1, <2>4, <3>2, UpsertMovesOne
        <4> QED  BY <2>2, <4>1
      <3> QED  BY <3>1, <3>2
    <2> QED  BY <2>3, <2>4, OthersForget
  <1> QED  BY <1>1, StoreInvariant, PTL DEF Spec, ReadBySelfOnly

=============================================================================
