------------------------------ MODULE ReportsProofs ------------------------------
(***************************************************************************)
(* Proofs about Reports for every set of accounts, notices and reads.      *)
(***************************************************************************)
EXTENDS Reports, NoticeStoreProofs, FiniteSetTheorems

-----------------------------------------------------------------------------
(* The order of lists *)

\* ResidentListOrder is a strict weak order, which the sort of ListNotices asks
\* of it: no notice precedes itself, and "precedes" and "ties with" are both
\* transitive.
THEOREM ListOrderIsWeak ==
    ASSUME NEW a \in Notice, NEW b \in Notice, NEW c \in Notice
    PROVE  /\ ~ResidentListOrder(a, a)
           /\ ResidentListOrder(a, b) /\ ResidentListOrder(b, c) => ResidentListOrder(a, c)
           /\ ~ResidentListOrder(a, b) /\ ~ResidentListOrder(b, c) => ~ResidentListOrder(a, c)
  <1>1. /\ Priority[a.text] \in Nat /\ Priority[b.text] \in Nat /\ Priority[c.text] \in Nat
        /\ a.publishAt \in Nat /\ b.publishAt \in Nat /\ c.publishAt \in Nat
        /\ a.pinned \in BOOLEAN /\ b.pinned \in BOOLEAN /\ c.pinned \in BOOLEAN
    BY ReportConstantsOK DEF Notice
  <1> QED  BY <1>1 DEF ResidentListOrder

-----------------------------------------------------------------------------
(* The inductive invariant *)

\* The copies of notices are of notices there have been, and not newer than
\* these.
CopiesOld ==
    report.at \in {"residents", "count"} =>
        \A n \in DOMAIN report.stamps :
            /\ n \in issued
            /\ report.stamps[n] \in Nat
            /\ n \in DOMAIN notices => report.stamps[n] <= notices[n].updatedAt

\* A resident's record that is not older than the copy has made a true verdict.
CopiesJudgeTrue ==
    report.at \in {"residents", "count"} =>
        \A r \in DOMAIN reads :
            /\ reads[r].user \in Residents
            /\ reads[r].notice \in DOMAIN report.stamps
            /\ reads[r].readAt >= report.stamps[reads[r].notice]
            => Key(reads[r]) \in ever

\* Those whose records are still to come are, or were, residents.
LeftResidents ==
    \A u \in left : u \in issued /\ (u \in DOMAIN users => users[u].role = "resident")

\* What is read all the time is read now, and the report has it or will come to
\* it.
AlwaysCurrent == report # Idle => always \subseteq Current

AlwaysReached ==
    /\ report.at = "notices" => \A p \in always : p[1] \in left
    /\ report.at = "count" /\ report.of = "all" =>
          \A p \in always \ counted : p[1] \in left /\ p[2] \in DOMAIN report.stamps

Kinds == report.at = "count" => report.of \in {"all", "notice", "list"}

ReportInv ==
    /\ StoreInv
    /\ CopiesOld
    /\ CopiesJudgeTrue
    /\ LeftResidents
    /\ AlwaysCurrent
    /\ AlwaysReached
    /\ Kinds
    /\ CountsBracketed

-----------------------------------------------------------------------------
(* The writes of others *)

\* The writes of requests are steps of the store.
LEMMA WriteSteps ==
    ASSUME StoreInv, Write
    PROVE  [Next]_vars
  <1> /\ TypeOK /\ PublicationTimed
    BY DEF StoreInv
  <1> clock \in Nat
    BY DEF TypeOK
  <1>1. ASSUME NEW n \in NoticeId, NEW text \in Text, NEW status \in Status, NEW pinned \in BOOLEAN
        PROVE  [text |-> text, status |-> status, pinned |-> pinned,
                publishAt |-> IF status = "published" THEN clock ELSE NoTime] \in NewDrafts
    BY <1>1 DEF NewDrafts, Drafts, Status, NoTime
  <1>2. ASSUME NEW n \in DOMAIN notices, NEW text \in Text, NEW pinned \in BOOLEAN
        PROVE  [text |-> text, status |-> notices[n].status, pinned |-> pinned,
                publishAt |-> notices[n].publishAt] \in Drafts
    <2>1. notices[n].status \in Status /\ notices[n].publishAt \in 0 .. clock
      BY DEF TypeOK, Notice, PublicationTimed
    <2> QED  BY <2>1 DEF Drafts
  <1>3. DOMAIN notices \subseteq NoticeId
    BY DEF TypeOK
  <1> QED  BY <1>1, <1>2, <1>3 DEF Write, Next, UserOp, NoticeOp, ReadOp

\* No write changes who is a resident among the accounts that stay.
LEMMA WriteResidents ==
    ASSUME StoreInv, Write
    PROVE  /\ issued \subseteq issued'
           /\ \A u \in DOMAIN users' :
                 \/ u \notin issued
                 \/ u \in DOMAIN users /\ users'[u].role = users[u].role
  <1>1. ASSUME NEW u \in UserId, NEW name, NEW role, NEW secret, CreateUser(u, name, role, secret)
        PROVE  /\ issued \subseteq issued'
               /\ \A v \in DOMAIN users' :
                     \/ v \notin issued
                     \/ v \in DOMAIN users /\ users'[v].role = users[v].role
    BY <1>1 DEF CreateUser, Put
  <1>2. ASSUME NEW u \in UserId, DeleteUser(u)
        PROVE  /\ issued' = issued
               /\ \A v \in DOMAIN users' :
                     v \in DOMAIN users /\ users'[v].role = users[v].role
    BY <1>2 DEF DeleteUser, Drop, Restrict
  <1>3. CASE /\ ~ \E u \in UserId, name \in Username, role \in Role, secret \in Secret :
                    CreateUser(u, name, role, secret)
             /\ ~ \E u \in UserId : DeleteUser(u)
    <2>1. users' = users /\ issued \subseteq issued'
      BY <1>3 DEF Write, CreateNotice, UpdateNotice, UpdateNoticeMetadata, SetNoticeStatus,
                  DeleteNotice, UpsertReadRecord, FirstRead, ReadAgain
    <2> QED  BY <2>1
  <1> QED  BY <1>1, <1>2, <1>3

\* A record is one there was, or one that has just been made of a live account
\* and notice and is not older than the notice.
LEMMA WriteReads ==
    ASSUME StoreInv, Write, NEW r \in DOMAIN reads'
    PROVE  \/ r \in DOMAIN reads /\ reads'[r] = reads[r]
           \/ \E u \in UserId, n \in NoticeId : Key(reads'[r]) = <<u, n>> /\ IsRead(u, n)'
  <1> TypeOK /\ PublicationTimed
    BY DEF StoreInv
  <1>1. ASSUME NEW gone, Forget(gone)
        PROVE  r \in DOMAIN reads /\ reads'[r] = reads[r]
    BY <1>1 DEF Forget, Drop, Restrict
  <1>2. ASSUME NEW u \in UserId, NEW n \in NoticeId, NEW q, NEW at, Readable(u, n), Now,
               Store(RecordNow(u, n, q, at)), notices' = notices
        PROVE  \/ r \in DOMAIN reads /\ reads'[r] = reads[r]
               \/ Key(reads'[r]) = <<u, n>> /\ IsRead(u, n)'
    <2>1. PICK rr : /\ rr.id = q /\ rr.readAt = clock' /\ Key(rr) = <<u, n>>
                    /\ reads' = Put(reads, q, rr) /\ readIdx' = Put(readIdx, <<u, n>>, rr)
      <3> DEFINE new == RecordNow(u, n, q, at)
      <3>1. new.id = q /\ new.readAt = clock' /\ Key(new) = <<u, n>>
        BY DEF RecordNow, Key
      <3>2. reads' = Put(reads, q, new) /\ readIdx' = Put(readIdx, <<u, n>>, new)
        BY <1>2, <3>1 DEF Store
      <3> QED  BY <3>1, <3>2
    <2>2. CASE r # q
      BY <2>1, <2>2 DEF Put
    <2>3. CASE r = q
      <3>1. reads'[r] = rr /\ <<u, n>> \in DOMAIN readIdx' /\ readIdx'[<<u, n>>] = rr
        BY <2>1, <2>3 DEF Put
      <3>2. n \in DOMAIN notices' /\ notices'[n].updatedAt <= clock /\ notices'[n].updatedAt \in Nat
        BY <1>2 DEF Readable, PublicationTimed, TypeOK, Notice
      <3>3. clock' >= clock /\ clock \in Nat /\ clock' \in Nat
        BY <1>2, NowForward DEF TypeOK
      <3>4. rr.readAt >= notices'[n].updatedAt
        BY <2>1, <3>2, <3>3
      <3> QED  BY <2>1, <3>1, <3>2, <3>4 DEF IsRead
    <2> QED  BY <2>2, <2>3
  <1>3. ASSUME NEW u \in UserId, NEW n \in NoticeId, UpsertReadRecord(u, n)
        PROVE  \/ r \in DOMAIN reads /\ reads'[r] = reads[r]
               \/ Key(reads'[r]) = <<u, n>> /\ IsRead(u, n)'
    BY <1>2, <1>3 DEF UpsertReadRecord, FirstRead, ReadAgain
  <1>4. CASE UNCHANGED reads
    BY <1>4
  <1> QED
    BY <1>1, <1>3, <1>4
       DEF Write, CreateUser, DeleteUser, CreateNotice, UpdateNotice, UpdateNoticeMetadata,
           SetNoticeStatus, DeleteNotice

-----------------------------------------------------------------------------
(* What a visit takes along *)

\* A resident's record that is not older than a notice is a read of it.
LEMMA RecordIsRead ==
    ASSUME StoreInv, NEW r \in DOMAIN reads, reads[r].user \in Residents,
           reads[r].notice \in DOMAIN notices,
           reads[r].readAt >= notices[reads[r].notice].updatedAt
    PROVE  Key(reads[r]) \in Current
  <1>1. Key(reads[r]) \in DOMAIN readIdx /\ readIdx[Key(reads[r])] = reads[r]
    BY DEF StoreInv, ReadCopiesAgree
  <1> QED  BY <1>1 DEF Current, IsRead, Key

\* What is read now, the records of its reader show.
LEMMA ReadHasRecord ==
    ASSUME StoreInv, NEW p \in Current
    PROVE  /\ p = <<p[1], p[2]>> /\ p[1] \in Residents /\ p[2] \in DOMAIN notices
           /\ \E r \in ReadsOfUser(p[1]) :
                 reads[r].notice = p[2] /\ reads[r].readAt >= notices[p[2]].updatedAt
  <1>1. p = <<p[1], p[2]>> /\ p[1] \in Residents /\ p[2] \in DOMAIN notices /\ IsRead(p[1], p[2])
    BY DEF Current
  <1>2. p \in DOMAIN readIdx /\ readIdx[p].readAt >= notices[p[2]].updatedAt
    BY <1>1 DEF IsRead
  <1>3. PICK r \in DOMAIN reads : reads[r] = readIdx[p] /\ Key(reads[r]) = p
    BY <1>2 DEF StoreInv, ReadCopiesAgree
  <1>4. reads[r].user = p[1] /\ reads[r].notice = p[2]
    BY <1>3 DEF Key
  <1> QED  BY <1>1, <1>2, <1>3, <1>4 DEF ReadsOfUser

\* Fresh copies of notices there are.
LEMMA FreshStamps ==
    ASSUME StoreInv, NEW N \in SUBSET DOMAIN notices
    PROVE  /\ \A n \in DOMAIN Stamps(N) :
                 n \in issued /\ Stamps(N)[n] \in Nat /\ Stamps(N)[n] = notices[n].updatedAt
           /\ \A r \in DOMAIN reads :
                 /\ reads[r].user \in Residents
                 /\ reads[r].notice \in DOMAIN Stamps(N)
                 /\ reads[r].readAt >= Stamps(N)[reads[r].notice]
                 => Key(reads[r]) \in Current
  <1>1. \A n \in DOMAIN notices : n \in issued /\ notices[n].updatedAt \in Nat
    BY DEF StoreInv, TypeOK, Notice, Fresh
  <1>2. DOMAIN Stamps(N) = N /\ \A n \in N : Stamps(N)[n] = notices[n].updatedAt
    BY DEF Stamps
  <1>3. \A r \in DOMAIN reads :
                 /\ reads[r].user \in Residents
                 /\ reads[r].notice \in DOMAIN Stamps(N)
                 /\ reads[r].readAt >= Stamps(N)[reads[r].notice]
                 => Key(reads[r]) \in Current
    BY <1>2, RecordIsRead
  <1> QED  BY <1>1, <1>2, <1>3

\* The sequences of a finite set have each of its members once.
LEMMA SetAsSequence ==
    ASSUME NEW S, IsFiniteSet(S), NEW s \in SetToSeqs(S)
    PROVE  /\ s \in Seq(S) /\ Len(s) \in Nat /\ DOMAIN s = 1 .. Len(s)
           /\ S = {s[i] : i \in DOMAIN s}
  <1> DEFINE c == Cardinality(S)
  <1>1. c \in Nat
    BY FS_CardinalityType
  <1>2. s \in [1 .. c -> S] /\ \A i, j \in 1 .. c : i # j => s[i] # s[j]
    BY DEF SetToSeqs
  <1>3. s \in Injection(1 .. c, S)
    BY <1>2 DEF Injection, IsInjective
  <1>4. Cardinality(1 .. c) = c
    BY <1>1, FS_Interval
  <1>5. s \in Surjection(1 .. c, S)
    BY <1>3, <1>4, FS_Injection
  <1>6. \A x \in S : \E i \in 1 .. c : s[i] = x
    BY <1>5 DEF Surjection
  <1> HIDE DEF c
  <1>7. s \in Seq(S) /\ Len(s) = c
    BY <1>1, <1>2
  <1> QED  BY <1>1, <1>2, <1>6, <1>7

\* A cut list is the first limit members of the list.
LEMMA CutIsPrefix ==
    ASSUME NEW S, NEW s \in Seq(S), NEW limit \in Int
    PROVE  LET shown == Cut(s, limit)
           IN  /\ shown \in Seq(S) /\ DOMAIN shown = 1 .. Len(shown) /\ Len(shown) \in 0 .. Len(s)
               /\ \A i \in DOMAIN shown : shown[i] = s[i]
               /\ Len(shown) # Len(s) => limit > 0 /\ Len(shown) = limit
  <1>1. CASE limit > 0 /\ Len(s) > limit
    <2>1. Cut(s, limit) = SubSeq(s, 1, limit)
      BY <1>1 DEF Cut
    <2>2. SubSeq(s, 1, limit) \in Seq(S) /\ Len(SubSeq(s, 1, limit)) = limit
          /\ \A i \in 1 .. limit : SubSeq(s, 1, limit)[i] = s[i]
      BY <1>1
    <2> QED  BY <1>1, <2>1, <2>2
  <1>2. CASE ~(limit > 0 /\ Len(s) > limit)
    BY <1>2 DEF Cut
  <1> QED  BY <1>1, <1>2

\* What ListNotices hands back: notices that match, in order, and as many of
\* them as the limit lets through if it has left any out; none left out comes
\* before one shown.
LEMMA ListedIsTheTop ==
    ASSUME TypeOK, NEW status, NEW limit \in Int, NEW shown \in ListNotices(status, limit)
    PROVE  LET match == Matching(status)
               cut == match \ {shown[i] : i \in DOMAIN shown}
           IN  /\ match \subseteq DOMAIN notices
               /\ InListOrder(shown)
               /\ {shown[i] : i \in DOMAIN shown} \subseteq match
               /\ cut # {} => limit > 0 /\ Len(shown) = limit
               /\ \A n \in cut, i \in DOMAIN shown :
                     ~ResidentListOrder(notices[n], notices[shown[i]])
  <1> DEFINE match == Matching(status)
             cut == match \ {shown[i] : i \in DOMAIN shown}
  <1>1. match \subseteq DOMAIN notices /\ DOMAIN notices \subseteq NoticeId
    BY DEF Matching, TypeOK
  <1>2. IsFiniteSet(match)
    BY <1>1, FS_Subset, ReportConstantsOK
  <1>3. PICK s \in SetToSeqs(match) : InListOrder(s) /\ shown = Cut(s, limit)
    BY DEF ListNotices
  <1> HIDE DEF match
  <1>4. /\ s \in Seq(match) /\ Len(s) \in Nat /\ DOMAIN s = 1 .. Len(s)
        /\ match = {s[i] : i \in DOMAIN s}
    BY <1>2, <1>3, SetAsSequence
  <1>5. /\ DOMAIN shown = 1 .. Len(shown) /\ Len(shown) \in 0 .. Len(s)
        /\ \A i \in DOMAIN shown : shown[i] = s[i]
        /\ Len(shown) # Len(s) => limit > 0 /\ Len(shown) = limit
    BY <1>3, <1>4, CutIsPrefix
  <1>6. /\ \A i \in DOMAIN shown : i \in DOMAIN s /\ shown[i] = s[i]
        /\ \A i \in DOMAIN shown, j \in DOMAIN s : j \notin DOMAIN shown => i < j
    <2>1. ASSUME NEW k \in Nat, NEW c \in 0 .. k, NEW i \in 1 .. c
          PROVE  i \in 1 .. k /\ \A j \in 1 .. k : j \notin 1 .. c => i < j
      OBVIOUS
    <2> QED  BY <1>4, <1>5, <2>1
  <1>7. InListOrder(shown)
    BY <1>3, <1>6 DEF InListOrder
  <1>8. {shown[i] : i \in DOMAIN shown} \subseteq match
    BY <1>4, <1>6
  <1>9. ASSUME NEW n \in cut
        PROVE  \E j \in DOMAIN s : s[j] = n /\ j \notin DOMAIN shown
    BY <1>4, <1>6, <1>9
  <1>10. cut # {} => limit > 0 /\ Len(shown) = limit
    <2>1. ASSUME cut # {}  PROVE Len(shown) # Len(s)
      BY <1>4, <1>5, <1>9, <2>1
    <2> QED  BY <1>5, <2>1
  <1>11. ASSUME NEW n \in cut, NEW i \in DOMAIN shown
         PROVE  ~ResidentListOrder(notices[n], notices[shown[i]])
    <2>1. PICK j \in DOMAIN s : s[j] = n /\ j \notin DOMAIN shown
      BY <1>9
    <2>2. i \in DOMAIN s /\ i < j /\ shown[i] = s[i]
      BY <1>6, <2>1
    <2> QED  BY <1>3, <2>1, <2>2 DEF InListOrder
  <1> QED  BY <1>1, <1>7, <1>8, <1>10, <1>11 DEF match

-----------------------------------------------------------------------------
(* The invariant is inductive *)

\* Watching keeps the history of the reads: what is read now has been read.
LEMMA Watching ==
    ASSUME Watch, report' # Idle
    PROVE  /\ Current' \subseteq ever' /\ ever \subseteq ever'
           /\ always' \subseteq Current'
           /\ report # Idle => always' \subseteq always
  BY DEF Watch

\* No report is under way at first.
LEMMA InitReport == ReportInit => ReportInv
  <1> SUFFICES ASSUME ReportInit  PROVE ReportInv
    OBVIOUS
  <1>1. StoreInv
    BY InitInv DEF ReportInit
  <1> QED
    BY <1>1 DEF ReportInit, ReportInv, Idle, CopiesOld, CopiesJudgeTrue, LeftResidents,
                AlwaysCurrent, AlwaysReached, Kinds, CountsBracketed

\* Without a report only the store's invariant has something to say.
LEMMA IdleReport ==
    ASSUME StoreInv', LeftResidents', report' = Idle
    PROVE  ReportInv'
  BY DEF ReportInv, Idle, CopiesOld, CopiesJudgeTrue, LeftResidents,
         AlwaysCurrent, AlwaysReached, Kinds, CountsBracketed

\* A write between two visits: copies get older, and a record written now is of
\* a notice read now.
LEMMA WriteKeeps ==
    ASSUME ReportInv, Write
    PROVE  ReportInv'
  <1> /\ StoreInv /\ TypeOK /\ Fresh
    BY DEF ReportInv, StoreInv
  <1>1. StoreInv'
    BY WriteSteps, NextInv
  <1>2. report' = report /\ left' = left /\ counted' = counted /\ Watch
    BY DEF Write
  <1>3. LeftResidents'
    BY <1>2, WriteResidents DEF ReportInv, LeftResidents
  <1>4. CASE report = Idle
    BY <1>1, <1>2, <1>3, <1>4, IdleReport
  <1>5. CASE report # Idle
    <2>1. /\ Current' \subseteq ever' /\ ever \subseteq ever'
          /\ always' \subseteq Current' /\ always' \subseteq always
      BY <1>2, <1>5, Watching
    <2>2. CopiesOld'
      <3> SUFFICES ASSUME report.at \in {"residents", "count"}, NEW n \in DOMAIN report.stamps
                   PROVE  /\ n \in issued'
                          /\ report.stamps[n] \in Nat
                          /\ n \in DOMAIN notices' => report.stamps[n] <= notices'[n].updatedAt
        BY <1>2 DEF CopiesOld
      <3>1. /\ n \in issued /\ report.stamps[n] \in Nat
            /\ n \in DOMAIN notices => report.stamps[n] <= notices[n].updatedAt
        BY DEF ReportInv, CopiesOld
      <3>2. CASE n \in DOMAIN notices'
        <4>1. n \in DOMAIN notices /\ notices'[n].updatedAt >= notices[n].updatedAt
          BY <3>1, <3>2, WriteSteps, NoticesNotOlder
        <4>2. notices[n].updatedAt \in Nat /\ notices'[n].updatedAt \in Nat
          BY <1>1, <3>2, <4>1 DEF StoreInv, TypeOK, Notice
        <4> QED  BY <3>1, <4>1, <4>2, WriteResidents
      <3> QED  BY <3>1, <3>2, WriteResidents
    <2>3. CopiesJudgeTrue'
      <3> SUFFICES ASSUME report.at \in {"residents", "count"}, NEW r \in DOMAIN reads',
                          reads'[r].user \in Residents',
                          reads'[r].notice \in DOMAIN report.stamps,
                          reads'[r].readAt >= report.stamps[reads'[r].notice]
                   PROVE  Key(reads'[r]) \in ever'
        BY <1>2 DEF CopiesJudgeTrue
      <3>1. CASE r \in DOMAIN reads /\ reads'[r] = reads[r]
        <4>1. reads[r].user \in DOMAIN users /\ reads[r].user \in issued
          BY <3>1 DEF StoreInv, ReadsReferToLive, Fresh
        <4>2. reads[r].user \in Residents
          BY <3>1, <4>1, WriteResidents DEF Residents
        <4>3. Key(reads[r]) \in ever
          BY <3>1, <4>2 DEF ReportInv, CopiesJudgeTrue
        <4> QED  BY <2>1, <3>1, <4>3
      <3>2. CASE \E u \in UserId, n \in NoticeId : Key(reads'[r]) = <<u, n>> /\ IsRead(u, n)'
        <4>1. PICK u \in UserId, n \in NoticeId : Key(reads'[r]) = <<u, n>> /\ IsRead(u, n)'
          BY <3>2
        <4>2. u = reads'[r].user
          BY <4>1 DEF Key
        <4>3. <<u, n>> \in Current'
          BY <4>1, <4>2 DEF Current, IsRead
        <4> QED  BY <2>1, <4>1, <4>3
      <3> QED  BY <3>1, <3>2, WriteReads
    <2>4. AlwaysCurrent'
      BY <2>1 DEF AlwaysCurrent
    <2>5. AlwaysReached'
      BY <1>2, <2>1 DEF ReportInv, AlwaysReached
    <2>6. Kinds'
      BY <1>2 DEF ReportInv, Kinds
    <2>7. CountsBracketed'
      BY <1>2, <2>1 DEF ReportInv, CountsBracketed
    <2> QED  BY <1>1, <1>3, <2>2, <2>3, <2>4, <2>5, <2>6, <2>7 DEF ReportInv
  <1> QED  BY <1>4, <1>5

\* A visit leaves the store's invariant alone.
LEMMA VisitStore ==
    ASSUME ReportInv, UNCHANGED vars
    PROVE  /\ StoreInv /\ StoreInv'
           /\ \A u \in Residents : u \in issued /\ u \in DOMAIN users /\ users[u].role = "resident"
           /\ Current' = Current /\ Residents' = Residents
  <1>1. StoreInv /\ [Next]_vars
    BY DEF ReportInv
  <1>2. StoreInv'
    BY <1>1, NextInv
  <1>3. Current' = Current /\ Residents' = Residents
    BY DEF vars, Current, Residents, IsRead
  <1> QED  BY <1>1, <1>2, <1>3 DEF StoreInv, Fresh, Residents

\* The first visits take fresh copies, or none.
LEMMA VisitsKeep ==
    ASSUME ReportInv,
           \/ BeginGlobal
           \/ ListAllNotices
           \/ \E n \in NoticeId : BeginNoticeByID(n)
           \/ ListResidents
           \/ BeginList
           \/ \E u \in UserId : BeginListForResident(u)
           \/ Answer
    PROVE  ReportInv'
  <1> UNCHANGED vars /\ Watch
    BY DEF BeginGlobal, ListAllNotices, BeginNoticeByID, ListResidents, BeginList,
           BeginListForResident, Answer, Visit
  <1> /\ StoreInv /\ StoreInv'
      /\ \A u \in Residents : u \in issued /\ u \in DOMAIN users /\ users[u].role = "resident"
      /\ Current' = Current /\ Residents' = Residents
    BY VisitStore
  <1> users' = users /\ notices' = notices /\ reads' = reads /\ issued' = issued
    BY DEF vars
  <1>1. CASE BeginGlobal
    <2>1. /\ report' = [at |-> "notices", of |-> "all"] /\ report' # Idle
          /\ left' = Residents /\ counted' = {}
      BY <1>1 DEF BeginGlobal, Visit, Idle
    <2>2. always' \subseteq Current'
      BY <2>1, Watching
    <2> QED
      BY <2>1, <2>2 DEF ReportInv, CopiesOld, CopiesJudgeTrue, LeftResidents, Current,
                        AlwaysCurrent, AlwaysReached, Kinds, CountsBracketed
  <1>2. CASE ListAllNotices
    <2>1. /\ report' = [at |-> "count", of |-> "all", stamps |-> Stamps(DOMAIN notices)]
          /\ report' # Idle /\ report # Idle /\ left' = left /\ counted' = {}
          /\ report.at = "notices"
      BY <1>2 DEF ListAllNotices, Visit, Idle
    <2>2. /\ Current' \subseteq ever' /\ always' \subseteq Current' /\ always' \subseteq always
      BY <2>1, Watching
    <2>3. CopiesOld' /\ CopiesJudgeTrue'
      BY <2>1, <2>2, FreshStamps DEF CopiesOld, CopiesJudgeTrue
    <2>4. \A p \in always' : p[1] \in left' /\ p[2] \in DOMAIN report'.stamps
      <3>1. DOMAIN report'.stamps = DOMAIN notices
        BY <2>1 DEF Stamps
      <3>2. \A p \in always' : p[1] \in left'
        BY <2>1, <2>2 DEF ReportInv, AlwaysReached
      <3> QED  BY <2>2, <3>1, <3>2, ReadHasRecord
    <2> QED
      BY <2>1, <2>2, <2>3, <2>4 DEF ReportInv, LeftResidents,
                        AlwaysCurrent, AlwaysReached, Kinds, CountsBracketed
  <1>3. ASSUME NEW n \in NoticeId, BeginNoticeByID(n)
        PROVE  ReportInv'
    <2>1. /\ report' = [at |-> "residents", of |-> "notice", stamps |-> Stamps({n})]
          /\ report' # Idle /\ left' = {} /\ counted' = {} /\ n \in DOMAIN notices
      BY <1>3 DEF BeginNoticeByID, Visit, Idle
    <2>2. Current' \subseteq ever' /\ always' \subseteq Current'
      BY <2>1, Watching
    <2>3. CopiesOld' /\ CopiesJudgeTrue'
      <3>1. {n} \subseteq DOMAIN notices
        BY <2>1
      <3> QED  BY <2>1, <2>2, <3>1, FreshStamps DEF CopiesOld, CopiesJudgeTrue
    <2> QED
      BY <2>1, <2>2, <2>3 DEF ReportInv, LeftResidents,
                        AlwaysCurrent, AlwaysReached, Kinds, CountsBracketed
  <1>4. CASE ListResidents
    <2>1. /\ report' = [at |-> "count", of |-> "notice", stamps |-> report.stamps]
          /\ report' # Idle /\ report # Idle /\ left' = Residents /\ counted' = {}
          /\ report.at = "residents"
      BY <1>4 DEF ListResidents, Visit, Idle
    <2>2. /\ ever \subseteq ever' /\ always' \subseteq Current'
      BY <2>1, Watching
    <2>3. CopiesOld' /\ CopiesJudgeTrue'
      BY <2>1, <2>2 DEF ReportInv, CopiesOld, CopiesJudgeTrue
    <2>4. \A p \in always' : p[1] \in left'
      BY <2>1, <2>2 DEF Current
    <2> QED
      BY <2>1, <2>2, <2>3, <2>4 DEF ReportInv, LeftResidents,
                        AlwaysCurrent, AlwaysReached, Kinds, CountsBracketed
  <1>5. CASE BeginList
    <2>1. /\ report'.at = "done" /\ report' # Idle /\ left' = {}
      BY <1>5 DEF BeginList, Visit, Idle
    <2>2. always' \subseteq Current'
      BY <2>1, Watching
    <2> QED
      BY <2>1, <2>2 DEF ReportInv, CopiesOld, CopiesJudgeTrue, LeftResidents,
                        AlwaysCurrent, AlwaysReached, Kinds, CountsBracketed
  <1>6. ASSUME NEW u \in UserId, BeginListForResident(u)
        PROVE  ReportInv'
    <2>0. PICK limit \in Limits : \E shown \in ListNotices("published", limit) :
             Visit([at |-> "count", of |-> "list", viewer |-> "resident", user |-> u,
                    shown |-> shown, stamps |-> Stamps({shown[i] : i \in DOMAIN shown}),
                    status |-> "published", limit |-> limit], {u}, {})
      BY <1>6 DEF BeginListForResident
    <2>1. PICK shown \in ListNotices("published", limit) :
             /\ report' = [at |-> "count", of |-> "list", viewer |-> "resident", user |-> u,
                           shown |-> shown, stamps |-> Stamps({shown[i] : i \in DOMAIN shown}),
                           status |-> "published", limit |-> limit]
             /\ left' = {u} /\ counted' = {} /\ u \in Residents
      BY <1>6, <2>0 DEF BeginListForResident, Visit
    <2>2. report' # Idle
      BY <2>1 DEF Idle
    <2>3. Current' \subseteq ever' /\ always' \subseteq Current'
      BY <2>2, Watching
    <2>4. {shown[i] : i \in DOMAIN shown} \subseteq DOMAIN notices
      BY <2>1, ListedIsTheTop, ReportConstantsOK DEF StoreInv
    <2>5. CopiesOld' /\ CopiesJudgeTrue'
      BY <2>1, <2>3, <2>4, FreshStamps DEF CopiesOld, CopiesJudgeTrue
    <2> QED
      BY <2>1, <2>2, <2>3, <2>5 DEF ReportInv, LeftResidents,
                        AlwaysCurrent, AlwaysReached, Kinds, CountsBracketed
  <1>7. CASE Answer
    <2>1. report' = Idle /\ left' = {}
      BY <1>7 DEF Answer, Visit
    <2> QED  BY <2>1, IdleReport DEF LeftResidents
  <1> QED  BY <1>1, <1>2, <1>3, <1>4, <1>5, <1>6, <1>7

\* Counting one user's records: they are judged by copies that are not newer
\* than the notices, so what is read now is found.
LEMMA CountKeeps ==
    ASSUME ReportInv, NEW u \in UserId, CountFor(u)
    PROVE  ReportInv'
  <1>1. /\ report' = report /\ left' = left \ {u} /\ counted' = counted \cup Verdicts(u)
        /\ report.at = "count" /\ u \in left /\ UNCHANGED vars /\ Watch /\ report # Idle
    BY DEF CountFor, Visit, Idle
  <1> UNCHANGED vars /\ Watch
    BY <1>1
  <1> /\ StoreInv /\ StoreInv' /\ Current' = Current /\ Residents' = Residents
    BY VisitStore
  <1> users' = users /\ notices' = notices /\ reads' = reads /\ issued' = issued
    BY DEF vars
  <1>2. /\ Current' \subseteq ever' /\ ever \subseteq ever'
        /\ always' \subseteq Current' /\ always' \subseteq always
    BY <1>1, Watching
  <1>3. Verdicts(u) \subseteq ever
    <2> SUFFICES ASSUME NEW q \in ReadsOfUser(u), reads[q].notice \in DOMAIN report.stamps,
                        reads[q].readAt >= report.stamps[reads[q].notice]
                 PROVE  <<u, reads[q].notice>> \in ever
      BY DEF Verdicts
    <2>1. q \in DOMAIN reads /\ reads[q].user = u /\ Key(reads[q]) = <<u, reads[q].notice>>
      BY DEF ReadsOfUser, Key
    <2>2. u \in Residents
      BY <1>1, <2>1 DEF ReportInv, StoreInv, ReadsReferToLive, LeftResidents, Residents
    <2> QED  BY <1>1, <2>1, <2>2 DEF ReportInv, CopiesJudgeTrue
  <1>4. ASSUME NEW p \in always', p[1] = u, p[2] \in DOMAIN report.stamps
        PROVE  p \in Verdicts(u)
    <2>1. PICK r \in ReadsOfUser(u) :
             reads[r].notice = p[2] /\ reads[r].readAt >= notices[p[2]].updatedAt
      BY <1>2, <1>4, ReadHasRecord
    <2>2. p = <<u, p[2]>> /\ p[2] \in DOMAIN notices
      BY <1>2, <1>4, ReadHasRecord
    <2>3. report.stamps[p[2]] \in Nat /\ report.stamps[p[2]] <= notices[p[2]].updatedAt
      BY <1>1, <1>4, <2>2 DEF ReportInv, CopiesOld
    <2>4. notices[p[2]].updatedAt \in Nat /\ reads[r].readAt \in Nat
      BY <2>1, <2>2 DEF StoreInv, TypeOK, Notice, ReadRecord, ReadsOfUser
    <2>5. reads[r].readAt >= report.stamps[p[2]]
      BY <2>1, <2>3, <2>4
    <2> QED  BY <1>4, <2>1, <2>2, <2>5 DEF Verdicts
  <1>5. ASSUME NEW p \in always' \ counted'
        PROVE  /\ p \in always \ counted
               /\ p[1] = u => p[2] \notin DOMAIN report.stamps
    BY <1>1, <1>2, <1>4, <1>5
  <1>6. LeftResidents'
    BY <1>1 DEF ReportInv, LeftResidents
  <1>7. CopiesOld' /\ CopiesJudgeTrue'
    BY <1>1, <1>2 DEF ReportInv, CopiesOld, CopiesJudgeTrue
  <1>8. AlwaysReached'
    BY <1>1, <1>5 DEF ReportInv, AlwaysReached
  <1>9. CountsBracketed'
    <2>1. counted' \subseteq ever'
      BY <1>1, <1>2, <1>3 DEF ReportInv, CountsBracketed
    <2>2. ASSUME NEW p \in always' \ counted'
          PROVE  \/ p[1] \in left'
                 \/ report.of = "notice" /\ p[2] \notin DOMAIN report.stamps
                 \/ report.of = "list" /\ (p[2] \notin DOMAIN report.stamps \/ p[1] # report.user)
      <3>1. CASE report.of = "all"
        BY <1>1, <1>5, <2>2, <3>1 DEF ReportInv, AlwaysReached
      <3>2. CASE report.of \in {"notice", "list"}
        BY <1>1, <1>5, <2>2, <3>2 DEF ReportInv, CountsBracketed
      <3> QED  BY <1>1, <3>1, <3>2 DEF ReportInv, Kinds
    <2> QED  BY <1>1, <2>1, <2>2 DEF CountsBracketed
  <1> QED  BY <1>1, <1>2, <1>6, <1>7, <1>8, <1>9 DEF ReportInv, AlwaysCurrent, Kinds

\* Every step keeps the invariant.
LEMMA NextReport ==
    ASSUME ReportInv, [ReportNext]_reportVars
    PROVE  ReportInv'
  <1>1. CASE UNCHANGED reportVars
    <2>1. StoreInv'
      BY <1>1, NextInv DEF ReportInv, reportVars
    <2> QED
      BY <1>1, <2>1 DEF reportVars, vars, ReportInv, Idle, CopiesOld, CopiesJudgeTrue,
            LeftResidents, AlwaysCurrent, AlwaysReached, Kinds, CountsBracketed, Residents,
            Current, IsRead
  <1>2. CASE Write
    BY <1>2, WriteKeeps
  <1>3. CASE \E u \in UserId : CountFor(u)
    BY <1>3, CountKeeps
  <1> QED  BY <1>1, <1>2, <1>3, VisitsKeep DEF ReportNext

\* Whatever is written between the visits of a report, what it counts as read
\* was read during the report, and what was read throughout is counted.
THEOREM CountsAreBracketed == ReportSpec => []CountsBracketed
  <1>1. ReportInv => CountsBracketed
    BY DEF ReportInv
  <1> QED  BY InitReport, NextReport, <1>1, PTL DEF ReportSpec

-----------------------------------------------------------------------------
(* The lists *)

\* What is shown of a report that has just begun with a list is a list of
\* ListNotices.
LEMMA ListsBegin ==
    ASSUME ReportNext, report = Idle, report'.at \in {"done", "count"}
    PROVE  \E limit \in Int : /\ report'.limit = limit
                              /\ report'.viewer = "resident" => report'.status = "published"
                              /\ report'.shown \in ListNotices(report'.status, limit)
  <1>0. report.at = "idle"
    BY DEF Idle
  <1>1. /\ ~Write /\ ~BeginGlobal /\ ~ListAllNotices /\ ~ListResidents /\ ~Answer
        /\ ~(\E n \in NoticeId : BeginNoticeByID(n))
        /\ ~(\E u \in UserId : CountFor(u))
    <2>1. ~Write
      BY <1>0 DEF Write
    <2>2. ~BeginGlobal
      BY DEF BeginGlobal, Visit
    <2>3. ASSUME NEW n \in NoticeId  PROVE ~BeginNoticeByID(n)
      BY DEF BeginNoticeByID, Visit
    <2>4. ~ListAllNotices /\ ~ListResidents /\ ~Answer /\ ~(\E u \in UserId : CountFor(u))
      BY <1>0 DEF ListAllNotices, ListResidents, Answer, CountFor
    <2> QED  BY <2>1, <2>2, <2>3, <2>4
  <1>2. CASE BeginList
    <2>1. PICK viewer \in Role, asked \in Status \cup {"any"}, limit \in Limits :
             LET status == IF viewer = "admin" THEN asked ELSE "published"
                 page == IF limit \in 1 .. MaxPage THEN limit ELSE MaxPage
             IN  \E shown \in ListNotices(status, page) :
                    Visit([at |-> "done", of |-> "list", viewer |-> viewer, shown |-> shown,
                           status |-> status, limit |-> page], {}, {})
      BY <1>2 DEF BeginList
    <2> DEFINE status == IF viewer = "admin" THEN asked ELSE "published"
               page == IF limit \in 1 .. MaxPage THEN limit ELSE MaxPage
    <2>2. page \in Int /\ (viewer = "resident" => status = "published")
      BY ReportConstantsOK
    <2> HIDE DEF page, status
    <2>3. PICK shown \in ListNotices(status, page) :
             report' = [at |-> "done", of |-> "list", viewer |-> viewer, shown |-> shown,
                        status |-> status, limit |-> page]
      BY <2>1 DEF page, status, Visit
    <2> QED  BY <2>2, <2>3
  <1>3. ASSUME NEW u \in UserId, BeginListForResident(u)
        PROVE  \E limit \in Int :
                  /\ report'.limit = limit
                  /\ report'.viewer = "resident" => report'.status = "published"
                  /\ report'.shown \in ListNotices(report'.status, limit)
    <2>0. PICK limit \in Limits : \E shown \in ListNotices("published", limit) :
             Visit([at |-> "count", of |-> "list", viewer |-> "resident", user |-> u,
                    shown |-> shown, stamps |-> Stamps({shown[i] : i \in DOMAIN shown}),
                    status |-> "published", limit |-> limit], {u}, {})
      BY <1>3 DEF BeginListForResident
    <2>1. PICK shown \in ListNotices("published", limit) :
             report' = [at |-> "count", of |-> "list", viewer |-> "resident", user |-> u,
                        shown |-> shown, stamps |-> Stamps({shown[i] : i \in DOMAIN shown}),
                        status |-> "published", limit |-> limit]
      BY <2>0 DEF Visit
    <2>2. limit \in Int
      BY ReportConstantsOK
    <2> QED  BY <2>1, <2>2
  <1> QED  BY <1>1, <1>2, <1>3 DEF ReportNext

\* A list shows what was asked for and leaves something out only if it is
\* full; a resident's is in order and cuts off nothing that would come before
\* what it shows.
THEOREM ListsShowTheTop == ReportSpec => ListIsTheTop
  <1>1. ASSUME ReportInv, [ReportNext]_reportVars, report = Idle, report'.at \in {"done", "count"}
        PROVE  LET shown == report'.shown
                   resident == report'.viewer = "resident"
                   match == Matching(IF resident THEN "published" ELSE report'.status)
                   cut == match \ {shown[i] : i \in DOMAIN shown}
               IN  /\ {shown[i] : i \in DOMAIN shown} \subseteq match
                   /\ cut # {} => Len(shown) = IF report'.limit > 0 THEN report'.limit ELSE MaxPage
                   /\ resident =>
                         /\ InListOrder(shown)
                         /\ \A n \in cut, i \in DOMAIN shown :
                               ~ResidentListOrder(notices[n], notices[shown[i]])
    <2>1. ReportNext
      BY <1>1 DEF reportVars, Idle
    <2>2. PICK limit \in Int : /\ report'.limit = limit
                               /\ report'.viewer = "resident" => report'.status = "published"
                               /\ report'.shown \in ListNotices(report'.status, limit)
      BY <1>1, <2>1, ListsBegin
    <2>3. TypeOK
      BY <1>1 DEF ReportInv, StoreInv
    <2>4. Matching(IF report'.viewer = "resident" THEN "published" ELSE report'.status)
             = Matching(report'.status)
      BY <2>2
    <2> QED  BY <2>2, <2>3, <2>4, ListedIsTheTop
  <1> QED  BY <1>1, InitReport, NextReport, PTL DEF ReportSpec, ListIsTheTop

=============================================================================
