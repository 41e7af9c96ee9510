--------------------------- MODULE NoticeServiceProofs ---------------------------
(***************************************************************************)
(* Proofs about NoticeService for every number of handlers, requests,      *)
(* users and notices: concurrent requests use the store only through its   *)
(* methods, and what they decide on stale copies does no harm beyond what  *)
(* these theorems allow.                                                   *)
(***************************************************************************)
EXTENDS NoticeService, NoticeStoreProofs

-----------------------------------------------------------------------------
(* The inductive invariant *)

Doing(h, op) == job[h].op = op

\* What a look saw is not newer than the notice.
LooksOld ==
    \A h \in Handler : Doing(h, "look") =>
        \A n \in DOMAIN job[h].seen :
            /\ n \in issued
            /\ n \in DOMAIN notices => job[h].seen[n] <= notices[n].updatedAt

\* The verdicts of the present are among those collected.
LooksWatch ==
    \A h \in Handler : Doing(h, "look") =>
        \A n \in NoticeId : <<n, IsRead(job[h].user, n)>> \in been[h]

\* A record that is not older than what the look saw has made the notice read.
LooksTrue ==
    \A h \in Handler : Doing(h, "look") =>
        \A n \in DOMAIN job[h].seen :
            Judged(job[h], n) => <<n, TRUE>> \in been[h]

\* A change of status was asked for when the notice had another one; should it
\* have got there since, it has been stamped.
StatusAsked ==
    \A h \in Handler : Doing(h, "status") =>
        LET n == job[h].notice
            seen == job[h].seen
        IN  /\ n \in issued
            /\ seen.status # job[h].status
            /\ n \in DOMAIN notices =>
                  /\ seen.updatedAt <= notices[n].updatedAt
                  /\ ~Coarse /\ notices[n].status # seen.status =>
                        seen.updatedAt < notices[n].updatedAt

ServiceInv ==
    /\ StoreInv
    /\ ServiceTypeOK
    /\ LooksOld
    /\ LooksWatch
    /\ LooksTrue
    /\ StatusAsked

-----------------------------------------------------------------------------
(* The steps of the service are steps of the store *)

\* What a job holds, by its kind.
LEMMA JobFields ==
    ASSUME ServiceTypeOK, NEW h \in Handler
    PROVE  /\ Doing(h, "update") => job[h].notice \in NoticeId /\ job[h].draft \in Drafts
           /\ Doing(h, "status") => /\ job[h].notice \in NoticeId /\ job[h].status \in Status
                                    /\ job[h].seen \in Notice
           /\ Doing(h, "pin") => job[h].notice \in NoticeId /\ job[h].seen \in Notice
           /\ Doing(h, "delete") => job[h].notice \in NoticeId
           /\ Doing(h, "view") => job[h].notice \in NoticeId /\ job[h].user \in UserId
           /\ Doing(h, "mark") => job[h].notice \in NoticeId /\ job[h].user \in UserId
           /\ Doing(h, "look") => IsLook(job[h])
  <1>1. CASE IsLook(job[h])
    BY <1>1 DEF IsLook, Doing
  <1>2. CASE job[h] \in Jobs
    BY <1>2 DEF Jobs, Idle, Doing
  <1> QED  BY <1>1, <1>2 DEF ServiceTypeOK

\* Every step is one of the store's, or does not touch it.
LEMMA ServiceSteps ==
    ASSUME StoreInv, ServiceTypeOK, [ServiceNext]_serviceVars
    PROVE  [Next]_vars
  <1> TypeOK
    BY DEF StoreInv
  <1>1. CASE AnyBegin
    BY <1>1 DEF AnyBegin, BeginUpdate, BeginStatus, BeginPin, BeginDelete, BeginLook,
                BeginView, BeginMark, Begin
  <1>2. ASSUME NEW h \in Handler, Finish(h)
        PROVE  [Next]_vars
    <2>1. CASE FinishUpdate(h)
      BY <2>1, JobFields DEF FinishUpdate, End, Doing, Next, NoticeOp
    <2>2. CASE FinishStatus(h)
      BY <2>2, JobFields DEF FinishStatus, End, Doing, Next, NoticeOp
    <2>3. CASE FinishPin(h)
      BY <2>3, JobFields DEF FinishPin, End, Doing, Next, NoticeOp, Notice
    <2>4. CASE FinishDelete(h)
      BY <2>4, JobFields DEF FinishDelete, End, Doing, Next, NoticeOp
    <2>5. CASE FinishView(h)
      BY <2>5, JobFields DEF FinishView, End, Doing, Next, ReadOp
    <2>6. CASE FinishMark(h)
      BY <2>6, JobFields DEF FinishMark, End, Doing, Next, ReadOp
    <2>7. CASE FinishLook(h) \/ Refused(h)
      BY <2>7 DEF FinishLook, Refused
    <2> QED  BY <1>2, <2>1, <2>2, <2>3, <2>4, <2>5, <2>6, <2>7 DEF Finish
  <1>3. CASE Direct
    <2>1. ASSUME NEW n \in NoticeId, NEW text \in Text, NEW status \in Status,
                 NEW pinned \in BOOLEAN, AddNotice(n, text, status, pinned)
          PROVE  Next
      <3>1. [text |-> text, status |-> status, pinned |-> pinned,
             publishAt |-> IF status = "published" THEN clock ELSE NoTime] \in NewDrafts
        BY DEF NewDrafts, Drafts, Status, NoTime, TypeOK
      <3> QED  BY <2>1, <3>1 DEF AddNotice, Next, NoticeOp
    <2>2. ASSUME NEW u \in UserId, NEW name \in Username, NEW role \in Role, NEW secret \in Secret,
                 AddUser(u, name, role, secret)
          PROVE  Next
      BY <2>2 DEF AddUser, Next, UserOp
    <2>3. ASSUME NEW u \in UserId, RemoveUser(u)
          PROVE  Next
      BY <2>3 DEF RemoveUser, Next, UserOp
    <2> QED  BY <1>3, <2>1, <2>2, <2>3 DEF Direct
  <1>4. CASE Quiet \/ UNCHANGED serviceVars
    BY <1>4 DEF Quiet, serviceVars
  <1> QED  BY <1>1, <1>2, <1>3, <1>4 DEF ServiceNext

\* The clock goes forward and no identifier is handed back.
LEMMA StoreForward ==
    ASSUME StoreInv, [Next]_vars
    PROVE  /\ clock \in Nat /\ clock' \in Nat /\ clock' >= clock
           /\ issued \subseteq issued'
  <1> TypeOK
    BY DEF StoreInv
  <1>1. (clock' = clock \/ Now) /\ issued \subseteq issued'
    <2>1. CASE UserOp
      BY <2>1 DEF UserOp, CreateUser, UpdateUser, SetUserPassword, DeleteUser
    <2>2. CASE NoticeOp
      BY <2>2 DEF NoticeOp, CreateNotice, UpdateNotice, UpdateNoticeMetadata, SetNoticeStatus,
                  DeleteNotice
    <2>3. CASE ReadOp
      BY <2>3 DEF ReadOp, UpsertReadRecord, FirstRead, ReadAgain, DeleteReadRecordsByNotice,
                  DeleteReadRecordsByUser
    <2>4. CASE UNCHANGED vars
      BY <2>4 DEF vars
    <2> QED  BY <2>1, <2>2, <2>3, <2>4 DEF Next, Query
  <1>2. Now => clock' \in Nat /\ clock' >= clock
    BY NowForward
  <1>3. clock \in Nat
    BY DEF TypeOK
  <1>4. clock' \in Nat /\ clock' >= clock
    BY <1>1, <1>2, <1>3
  <1> QED  BY <1>1, <1>3, <1>4

-----------------------------------------------------------------------------
(* What becomes of the jobs *)

\* A job as it begins: its copies are what the store holds.
NewJob(j) ==
    \/ j \in Jobs /\ (j.op = "status" => /\ j.notice \in DOMAIN notices
                                         /\ j.seen = notices[j.notice]
                                         /\ j.status # j.seen.status)
    \/ IsLook(j) /\ \A n \in DOMAIN j.seen :
                       n \in DOMAIN notices /\ j.seen[n] = notices[n].updatedAt

\* A request begins with fresh copies in a step that leaves the store alone.
LEMMA BeginStep ==
    ASSUME StoreInv, ServiceTypeOK, AnyBegin
    PROVE  \E h \in Handler : \E j : NewJob(j) /\ Begin(h, j)
  <1> /\ TypeOK /\ PublicationTimed /\ clock \in Nat
    BY DEF StoreInv, TypeOK
  <1> PICK h \in Handler :
        \/ \E n \in NoticeId :
              \/ \E asked \in SUBSET {"text", "pinned"}, text \in Text, pinned \in BOOLEAN :
                    BeginUpdate(h, n, asked, text, pinned)
              \/ \E status \in Status : BeginStatus(h, n, status)
              \/ BeginPin(h, n)
              \/ BeginDelete(h, n)
        \/ \E u \in UserId :
              \/ BeginLook(h, u)
              \/ \E n \in NoticeId : BeginView(h, u, n) \/ BeginMark(h, u, n)
    BY DEF AnyBegin
  <1>1. \A n \in DOMAIN notices : /\ notices[n] \in Notice /\ notices[n].status \in Status
                                  /\ notices[n].publishAt \in 0 .. clock
                                  /\ notices[n].updatedAt \in Nat
    BY DEF TypeOK, Notice, PublicationTimed
  <1>2. ASSUME NEW n \in NoticeId, NEW asked \in SUBSET {"text", "pinned"}, NEW text \in Text,
               NEW pinned \in BOOLEAN, BeginUpdate(h, n, asked, text, pinned)
        PROVE  \E j : NewJob(j) /\ Begin(h, j)
    <2> DEFINE j == [op |-> "update", notice |-> n, asked |-> asked,
                     draft |-> [text |-> text, status |-> notices[n].status, pinned |-> pinned,
                                publishAt |-> notices[n].publishAt]]
    <2>1. n \in DOMAIN notices /\ Begin(h, j)
      BY <1>2 DEF BeginUpdate
    <2>2. j \in Jobs /\ j.op = "update"
      BY <1>1, <2>1 DEF Jobs, Drafts
    <2> QED  BY <2>1, <2>2 DEF NewJob
  <1>3. ASSUME NEW n \in NoticeId, NEW status \in Status, BeginStatus(h, n, status)
        PROVE  \E j : NewJob(j) /\ Begin(h, j)
    <2> DEFINE j == [op |-> "status", notice |-> n, status |-> status, seen |-> notices[n]]
    <2>1. n \in DOMAIN notices /\ notices[n].status # status /\ Begin(h, j)
      BY <1>3 DEF BeginStatus
    <2>2. j \in Jobs /\ j.notice = n /\ j.seen = notices[n] /\ j.status = status
      BY <1>1, <2>1 DEF Jobs
    <2> QED  BY <2>1, <2>2 DEF NewJob
  <1>4. ASSUME NEW n \in NoticeId, BeginPin(h, n)
        PROVE  \E j : NewJob(j) /\ Begin(h, j)
    <2> DEFINE j == [op |-> "pin", notice |-> n, seen |-> notices[n]]
    <2>1. j \in Jobs /\ j.op = "pin" /\ Begin(h, j)
      BY <1>1, <1>4 DEF BeginPin, Jobs
    <2> QED  BY <2>1 DEF NewJob
  <1>5. ASSUME NEW n \in NoticeId, BeginDelete(h, n)
        PROVE  \E j : NewJob(j) /\ Begin(h, j)
    <2> DEFINE j == [op |-> "delete", notice |-> n]
    <2>1. j \in Jobs /\ j.op = "delete" /\ Begin(h, j)
      BY <1>5 DEF BeginDelete, Jobs
    <2> QED  BY <2>1 DEF NewJob
  <1>6. ASSUME NEW u \in UserId, NEW n \in NoticeId, BeginView(h, u, n)
        PROVE  \E j : NewJob(j) /\ Begin(h, j)
    <2> DEFINE j == [op |-> "view", user |-> u, notice |-> n, seen |-> notices[n]]
    <2>1. j \in Jobs /\ j.op = "view" /\ Begin(h, j)
      BY <1>1, <1>6 DEF BeginView, Visible, Jobs
    <2> QED  BY <2>1 DEF NewJob
  <1>7. ASSUME NEW u \in UserId, NEW n \in NoticeId, BeginMark(h, u, n)
        PROVE  \E j : NewJob(j) /\ Begin(h, j)
    <2> DEFINE j == [op |-> "mark", user |-> u, notice |-> n]
    <2>1. j \in Jobs /\ j.op = "mark" /\ Begin(h, j)
      BY <1>7 DEF BeginMark, Jobs
    <2> QED  BY <2>1 DEF NewJob
  <1>8. ASSUME NEW u \in UserId, BeginLook(h, u)
        PROVE  \E j : NewJob(j) /\ Begin(h, j)
    <2>1. PICK N \in SUBSET DOMAIN notices :
             Begin(h, [op |-> "look", user |-> u, seen |-> [n \in N |-> notices[n].updatedAt]])
      BY <1>8 DEF BeginLook
    <2> DEFINE seen == [n \in N |-> notices[n].updatedAt]
               j == [op |-> "look", user |-> u, seen |-> seen]
    <2>2. /\ DOMAIN seen = N /\ seen \in [DOMAIN seen -> Nat] /\ DOMAIN seen \subseteq NoticeId
          /\ \A n \in N : seen[n] = notices[n].updatedAt
      BY <1>1 DEF TypeOK
    <2> HIDE DEF seen
    <2>3. IsLook(j)
      BY <2>2 DEF IsLook
    <2> QED  BY <2>1, <2>2, <2>3 DEF NewJob, seen
  <1> QED  BY <1>2, <1>3, <1>4, <1>5, <1>6, <1>7, <1>8

\* A job stays as it is, or it ends, or it begins.
LEMMA JobSteps ==
    ASSUME StoreInv, ServiceTypeOK, [ServiceNext]_serviceVars, NEW h \in Handler
    PROVE  /\ DOMAIN job' = Handler
           /\ \/ job'[h] = job[h]
              \/ job'[h] = Idle
              \/ NewJob(job'[h]) /\ UNCHANGED vars
  <1> DOMAIN job = Handler
    BY DEF ServiceTypeOK
  <1>1. CASE AnyBegin
    <2>1. PICK g \in Handler : \E j : NewJob(j) /\ Begin(g, j)
      BY <1>1, BeginStep
    <2> QED  BY <2>1 DEF Begin
  <1>2. ASSUME NEW g \in Handler, Finish(g)
        PROVE  /\ DOMAIN job' = Handler
               /\ job'[h] \in {job[h], Idle}
    <2>1. job' = [job EXCEPT ![g] = Idle]
      BY <1>2 DEF Finish, FinishUpdate, FinishStatus, FinishPin, FinishDelete, FinishView,
                  FinishMark, FinishLook, Refused, End
    <2> QED  BY <2>1
  <1>3. CASE Direct \/ Quiet \/ UNCHANGED serviceVars
    BY <1>3 DEF Direct, Quiet, serviceVars
  <1> QED  BY <1>1, <1>2, <1>3 DEF ServiceNext

\* The verdicts of the present are collected in every step of a look.
LEMMA BeenSteps ==
    ASSUME ServiceInv, [ServiceNext]_serviceVars, NEW h \in Handler, Doing(h, "look")'
    PROVE  /\ job'[h] = job[h] => been[h] \subseteq been'[h]
           /\ \A n \in NoticeId : <<n, IsRead(job[h].user, n)>>' \in been'[h]
  <1>1. CASE Observe
    <2>1. been'[h] = been[h] \cup Verdicts(h)'
      BY <1>1 DEF Observe, Doing
    <2>2. \A n \in NoticeId : <<n, IsRead(job[h].user, n)>>' \in Verdicts(h)'
      BY DEF Verdicts
    <2> QED  BY <2>1, <2>2
  <1>2. CASE UNCHANGED serviceVars
    <2>1. Doing(h, "look")
      BY <1>2 DEF serviceVars, Doing
    <2>2. \A n \in NoticeId : <<n, IsRead(job[h].user, n)>> \in been[h]
      BY <2>1 DEF ServiceInv, LooksWatch
    <2> QED  BY <1>2, <2>2 DEF serviceVars, vars, IsRead
  <1> QED  BY <1>1, <1>2 DEF ServiceNext, Quiet

-----------------------------------------------------------------------------
(* The invariant is inductive *)

\* Before the first request there is nothing a handler has seen.
LEMMA ServiceInitInv == ServiceInit => ServiceInv
  <1> SUFFICES ASSUME ServiceInit  PROVE ServiceInv
    OBVIOUS
  <1>1. StoreInv
    BY InitInv DEF ServiceInit
  <1>2. \A h \in Handler : job[h] = Idle /\ Idle.op = "idle"
    BY DEF ServiceInit, Idle
  <1>3. ServiceTypeOK
    BY <1>2, BoundsOK DEF ServiceInit, ServiceTypeOK, Jobs
  <1> QED
    BY <1>1, <1>2, <1>3 DEF ServiceInv, LooksOld, LooksWatch, LooksTrue, StatusAsked, Doing

\* Copies stay of their kinds while the clock goes on.
LEMMA ServiceTypeStep ==
    ASSUME StoreInv, ServiceTypeOK, [ServiceNext]_serviceVars
    PROVE  ServiceTypeOK'
  <1>1. clock \in Nat /\ clock' \in Nat /\ clock' >= clock
    BY ServiceSteps, StoreForward
  <1>2. Drafts \subseteq Drafts'
    BY <1>1 DEF Drafts
  <1>3. Jobs \subseteq Jobs' /\ Idle \in Jobs'
    BY <1>2 DEF Jobs
  <1>4. \A h \in Handler : job'[h] \in Jobs' \/ IsLook(job'[h])
    BY <1>3, JobSteps DEF ServiceTypeOK, NewJob
  <1>5. DOMAIN job' = Handler
    <2>1. CASE Handler = {}
      <3>1. job' = job
        BY <2>1 DEF ServiceNext, AnyBegin, Direct, Quiet, serviceVars
      <3> QED  BY <3>1 DEF ServiceTypeOK
    <2>2. CASE Handler # {}
      BY <2>2, JobSteps
    <2> QED  BY <2>1, <2>2
  <1>6. served' \in 0 .. MaxRequests
    <2>1. served \in 0 .. MaxRequests /\ MaxRequests \in Nat
      BY BoundsOK DEF ServiceTypeOK
    <2>2. served' = served \/ Start
      BY DEF ServiceNext, AnyBegin, BeginUpdate, BeginStatus, BeginPin, BeginDelete, BeginLook,
             BeginView, BeginMark, Begin, Finish, FinishUpdate, FinishStatus, FinishPin,
             FinishDelete, FinishView, FinishMark, FinishLook, Refused, End, Direct, Quiet,
             serviceVars
    <2> QED  BY <2>1, <2>2 DEF Start
  <1>7. been' \in [Handler -> SUBSET (NoticeId \X BOOLEAN)]
    <2>1. CASE Observe
      <3>1. ASSUME NEW h \in Handler, NEW v \in Verdicts(h)'
            PROVE  v \in NoticeId \X BOOLEAN
        <4>1. PICK n \in NoticeId : v = <<n, IsRead(job[h].user, n)>>'
          BY DEF Verdicts
        <4>2. IsRead(job[h].user, n)' \in BOOLEAN
          BY DEF IsRead
        <4> QED  BY <4>1, <4>2
      <3> QED  BY <2>1, <3>1 DEF Observe, ServiceTypeOK
    <2>2. CASE UNCHANGED serviceVars
      BY <2>2 DEF serviceVars, ServiceTypeOK
    <2> QED  BY <2>1, <2>2 DEF ServiceNext, Quiet
  <1> QED  BY <1>4, <1>5, <1>6, <1>7 DEF ServiceTypeOK, IsLook

\* A look's copies get older, and a record written since is a read of now.
LEMMA LooksStep ==
    ASSUME ServiceInv, [ServiceNext]_serviceVars
    PROVE  LooksOld' /\ LooksWatch' /\ LooksTrue'
  <1> /\ StoreInv /\ ServiceTypeOK /\ TypeOK /\ Fresh
    BY DEF ServiceInv, StoreInv
  <1>1. [Next]_vars
    BY ServiceSteps
  <1>2. StoreInv' /\ ServiceTypeOK'
    BY <1>1, NextInv, ServiceTypeStep
  <1> SUFFICES ASSUME NEW h \in Handler, Doing(h, "look")'
               PROVE  /\ \A n \in DOMAIN job'[h].seen :
                            /\ n \in issued'
                            /\ n \in DOMAIN notices' => job'[h].seen[n] <= notices'[n].updatedAt
                      /\ \A n \in NoticeId : <<n, IsRead(job[h].user, n)>>' \in been'[h]
                      /\ \A n \in DOMAIN job'[h].seen :
                            Judged(job[h], n)' => <<n, TRUE>> \in been'[h]
    BY DEF LooksOld, LooksWatch, LooksTrue
  <1> DEFINE j == job'[h]
  <1>3. IsLook(j)
    BY <1>2 DEF ServiceTypeOK, Doing, Jobs, Idle
  <1>4. /\ job'[h] = job[h] => been[h] \subseteq been'[h]
        /\ \A n \in NoticeId : <<n, IsRead(job[h].user, n)>>' \in been'[h]
    BY BeenSteps
  <1>5. \/ j = job[h] /\ Doing(h, "look")
        \/ UNCHANGED vars /\ \A n \in DOMAIN j.seen :
              n \in DOMAIN notices /\ j.seen[n] = notices[n].updatedAt
    <2>1. j.op = "look" /\ j # Idle
      BY DEF Doing, Idle
    <2>2. j \notin Jobs
      BY <2>1 DEF Jobs, Idle
    <2> QED  BY <2>1, <2>2, JobSteps DEF NewJob, Doing
  <1>6. ASSUME NEW n \in DOMAIN j.seen
        PROVE  n \in NoticeId /\ j.seen[n] \in Nat
    BY <1>3 DEF IsLook
  <1>7. ASSUME NEW n \in DOMAIN j.seen, IsRead(job[h].user, n)'
        PROVE  <<n, TRUE>> \in been'[h]
    <2>1. <<n, IsRead(job[h].user, n)>>' = <<n, TRUE>>
      BY <1>7 DEF IsRead
    <2> QED  BY <1>4, <1>6, <2>1
  <1>8. ASSUME j = job[h], Doing(h, "look"), NEW n \in DOMAIN j.seen
        PROVE  /\ n \in issued'
               /\ n \in DOMAIN notices' => j.seen[n] <= notices'[n].updatedAt
               /\ Judged(job[h], n)' => <<n, TRUE>> \in been'[h]
    <2>1. /\ n \in issued /\ n \in issued'
          /\ n \in DOMAIN notices => j.seen[n] <= notices[n].updatedAt
      BY <1>1, <1>8, StoreForward DEF ServiceInv, LooksOld
    <2>2. ASSUME n \in DOMAIN notices'
          PROVE  j.seen[n] <= notices'[n].updatedAt
      <3>1. n \in DOMAIN notices /\ notices'[n].updatedAt >= notices[n].updatedAt
        BY <1>1, <2>1, <2>2, NoticesNotOlder
      <3>2. notices[n].updatedAt \in Nat /\ notices'[n].updatedAt \in Nat /\ j.seen[n] \in Nat
        BY <1>2, <1>6, <2>2, <3>1 DEF StoreInv, TypeOK, Notice
      <3> QED  BY <2>1, <3>1, <3>2
    <2>3. ASSUME Judged(job[h], n)'
          PROVE  <<n, TRUE>> \in been'[h]
      <3> DEFINE k == <<j.user, n>>
      <3>1. k \in DOMAIN readIdx' /\ readIdx'[k].readAt >= j.seen[n]
        BY <2>3 DEF Judged
      <3>2. ASSUME k \in DOMAIN readIdx, readIdx'[k] = readIdx[k]
            PROVE  <<n, TRUE>> \in been'[h]
        <4>1. Judged(job[h], n)
          BY <1>8, <3>1, <3>2 DEF Judged
        <4> QED  BY <1>4, <1>8, <4>1 DEF ServiceInv, LooksTrue
      <3>3. ASSUME NEW u \in UserId, NEW m \in NoticeId, UpsertReadRecord(u, m)
            PROVE  <<n, TRUE>> \in been'[h]
        <4>1. CASE <<u, m>> = k
          <5>1. /\ Readable(u, m) /\ notices' = notices /\ readIdx'[k].readAt = clock' /\ m = n
            BY <3>3, <4>1, UpsertMovesOne
          <5>2. n \in DOMAIN notices' /\ notices'[n].updatedAt <= clock'
            BY <1>2, <5>1 DEF Readable, StoreInv, PublicationTimed
          <5>3. clock' \in Nat /\ notices'[n].updatedAt \in Nat
            BY <1>2, <5>2 DEF StoreInv, TypeOK, Notice
          <5>4. IsRead(job[h].user, n)'
            BY <3>1, <5>1, <5>2, <5>3 DEF IsRead
          <5> QED  BY <1>7, <5>4
        <4>2. CASE <<u, m>> # k
          <5>1. k \in DOMAIN readIdx /\ readIdx'[k] = readIdx[k]
            BY <3>1, <3>3, <4>2, UpsertMovesOne
          <5> QED  BY <3>2, <5>1
        <4> QED  BY <4>1, <4>2
      <3> QED  BY <1>1, <3>1, <3>2, <3>3, OthersForget
    <2> QED  BY <2>1, <2>2, <2>3
  <1>9. ASSUME UNCHANGED vars, NEW n \in DOMAIN j.seen,
               n \in DOMAIN notices, j.seen[n] = notices[n].updatedAt
        PROVE  /\ n \in issued'
               /\ n \in DOMAIN notices' => j.seen[n] <= notices'[n].updatedAt
               /\ Judged(job[h], n)' => <<n, TRUE>> \in been'[h]
    <2>1. notices' = notices /\ issued' = issued /\ notices[n].updatedAt \in Nat /\ n \in issued
      BY <1>9 DEF vars, TypeOK, Notice, Fresh
    <2>2. Judged(job[h], n)' => IsRead(job[h].user, n)'
      BY <1>9, <2>1 DEF Judged, IsRead
    <2>3. Judged(job[h], n)' => <<n, TRUE>> \in been'[h]
      BY <1>7, <2>2
    <2>4. n \in DOMAIN notices' => j.seen[n] <= notices'[n].updatedAt
      BY <1>9, <2>1
    <2> QED  BY <2>1, <2>3, <2>4
  <1> QED  BY <1>4, <1>5, <1>8, <1>9

\* A change of status looks back on what it saw.
LEMMA StatusStep ==
    ASSUME ServiceInv, [ServiceNext]_serviceVars
    PROVE  StatusAsked'
  <1> /\ StoreInv /\ ServiceTypeOK /\ TypeOK /\ Fresh
    BY DEF ServiceInv, StoreInv
  <1>1. [Next]_vars /\ ServiceTypeOK'
    BY ServiceSteps, ServiceTypeStep
  <1>2. StoreInv'
    BY <1>1, NextInv
  <1> SUFFICES ASSUME NEW h \in Handler, Doing(h, "status")'
               PROVE  /\ job'[h].notice \in issued'
                      /\ job'[h].seen.status # job'[h].status
                      /\ job'[h].notice \in DOMAIN notices' =>
                            /\ job'[h].seen.updatedAt <= notices'[job'[h].notice].updatedAt
                            /\ ~Coarse /\ notices'[job'[h].notice].status # job'[h].seen.status =>
                                  job'[h].seen.updatedAt < notices'[job'[h].notice].updatedAt
    BY DEF StatusAsked
  <1> DEFINE j == job'[h]
             n == j.notice
  <1>3. j.op = "status" /\ j # Idle
    BY DEF Doing, Idle
  <1>4. j.seen.updatedAt \in Nat
    BY <1>1, JobFields DEF ServiceTypeOK, Doing, Jobs, Idle, IsLook, Notice
  <1>5. CASE j = job[h]
    <2>1. /\ n \in issued /\ j.seen.status # j.status
          /\ n \in DOMAIN notices => j.seen.updatedAt <= notices[n].updatedAt
          /\ n \in DOMAIN notices /\ ~Coarse /\ notices[n].status # j.seen.status =>
                j.seen.updatedAt < notices[n].updatedAt
      BY <1>3, <1>5 DEF ServiceInv, StatusAsked, Doing
    <2>2. n \in issued'
      BY <1>1, <2>1, StoreForward
    <2>3. ASSUME n \in DOMAIN notices'
          PROVE  /\ j.seen.updatedAt <= notices'[n].updatedAt
                 /\ ~Coarse /\ notices'[n].status # j.seen.status =>
                       j.seen.updatedAt < notices'[n].updatedAt
      <3>1. n \in DOMAIN notices /\ notices'[n].updatedAt >= notices[n].updatedAt
        BY <1>1, <2>1, <2>3, NoticesNotOlder
      <3>2. notices[n].updatedAt \in Nat /\ notices'[n].updatedAt \in Nat
        BY <1>2, <2>3, <3>1 DEF StoreInv, TypeOK, Notice
      <3>3. CASE notices'[n].status = notices[n].status
        BY <1>4, <2>1, <3>1, <3>2, <3>3
      <3>4. CASE notices'[n].status # notices[n].status
        <4>1. Now /\ notices'[n].updatedAt = clock'
          BY <1>1, <2>3, <3>1, <3>4, ChangeIsStamped
        <4>2. clock \in Nat /\ clock' \in Nat /\ (~Coarse => clock' > clock)
          BY <4>1, NowForward DEF TypeOK
        <4>3. notices[n].updatedAt <= clock
          BY <3>1 DEF StoreInv, PublicationTimed
        <4> QED  BY <1>4, <2>1, <3>1, <3>2, <4>1, <4>2, <4>3
      <3> QED  BY <3>3, <3>4
    <2> QED  BY <2>1, <2>2, <2>3
  <1>6. CASE NewJob(j) /\ UNCHANGED vars
    <2>1. /\ n \in DOMAIN notices /\ j.seen = notices[n] /\ j.status # j.seen.status
          /\ notices' = notices /\ issued' = issued
      BY <1>3, <1>6 DEF NewJob, IsLook, vars
    <2> QED  BY <1>4, <2>1 DEF Fresh
  <1> QED  BY <1>3, <1>5, <1>6, JobSteps

\* Every step keeps the invariant of the requests.
LEMMA ServiceNextInv ==
    ASSUME ServiceInv, [ServiceNext]_serviceVars
    PROVE  ServiceInv'
  <1>1. StoreInv /\ ServiceTypeOK
    BY DEF ServiceInv
  <1>2. StoreInv' /\ ServiceTypeOK'
    BY <1>1, ServiceSteps, NextInv, ServiceTypeStep
  <1> QED  BY <1>2, LooksStep, StatusStep DEF ServiceInv

\* The inductive invariant of the requests.
THEOREM ServiceInvariant == ServiceSpec => []ServiceInv
  BY ServiceInitInv, ServiceNextInv, PTL DEF ServiceSpec

\* ServiceTypeOK: the jobs of the handlers and what they have collected.
THEOREM ServiceTypeCorrect == ServiceSpec => []ServiceTypeOK
  <1>1. ServiceInv => ServiceTypeOK
    BY DEF ServiceInv
  <1> QED  BY <1>1, ServiceInvariant, PTL

-----------------------------------------------------------------------------
(* What follows *)

\* Concurrent requests use the store only through its methods, with copies of
\* the kinds these expect: what is proved of the store holds here.
THEOREM StoreUsedByRequests == ServiceSpec => Spec
  <1>1. ServiceInit => Init
    BY DEF ServiceInit
  <1>2. ServiceInv /\ [ServiceNext]_serviceVars => [Next]_vars
    BY ServiceSteps DEF ServiceInv
  <1> QED  BY <1>1, <1>2, ServiceInvariant, PTL DEF ServiceSpec, Spec

\* LookTruthful: each verdict of a look was true at an instant since it began.
\* What has no record, or an older one, is unread now; what has one was read
\* when the look began or when the record was made.
THEOREM LooksAreTruthful == ServiceSpec => LookTruthful
  <1>1. ServiceInv /\ [ServiceNext]_serviceVars =>
          [\A h \in Handler :
             job[h].op = "look" /\ job'[h] = Idle =>
                \A n \in DOMAIN job[h].seen : <<n, Judged(job[h], n)>> \in been[h]]_serviceVars
    <2> SUFFICES ASSUME ServiceInv, NEW h \in Handler, job[h].op = "look",
                        NEW n \in DOMAIN job[h].seen
                 PROVE  <<n, Judged(job[h], n)>> \in been[h]
      OBVIOUS
    <2>1. ServiceTypeOK /\ TypeOK /\ Doing(h, "look")
      BY DEF ServiceInv, StoreInv, Doing
    <2>2. IsLook(job[h])
      BY <2>1, JobFields
    <2>3. n \in NoticeId /\ job[h].seen[n] \in Nat
      BY <2>2 DEF IsLook
    <2>4. CASE Judged(job[h], n)
      <3>1. <<n, Judged(job[h], n)>> = <<n, TRUE>>
        BY <2>4 DEF Judged
      <3> QED  BY <2>1, <2>4, <3>1 DEF ServiceInv, LooksTrue
    <2>5. CASE ~Judged(job[h], n)
      <3>1. ~IsRead(job[h].user, n)
        <4> SUFFICES ASSUME IsRead(job[h].user, n)  PROVE Judged(job[h], n)
          BY <2>5
        <4> DEFINE k == <<job[h].user, n>>
        <4>1. /\ k \in DOMAIN readIdx /\ n \in DOMAIN notices
              /\ readIdx[k].readAt >= notices[n].updatedAt
          BY DEF IsRead
        <4>2. readIdx[k].readAt \in Nat /\ notices[n].updatedAt \in Nat
          BY <2>1, <4>1 DEF TypeOK, ReadRecord, Notice
        <4>3. job[h].seen[n] <= notices[n].updatedAt
          BY <2>1, <4>1 DEF ServiceInv, LooksOld
        <4>4. readIdx[k].readAt >= job[h].seen[n]
          BY <2>3, <4>1, <4>2, <4>3
        <4> QED  BY <4>1, <4>4 DEF Judged
      <3>2. <<n, Judged(job[h], n)>> = <<n, IsRead(job[h].user, n)>>
        BY <2>5, <3>1 DEF Judged, IsRead
      <3> QED  BY <2>1, <2>3, <3>2 DEF ServiceInv, LooksWatch
    <2> QED  BY <2>4, <2>5
  <1> QED  BY <1>1, ServiceInvariant, PTL DEF ServiceSpec, LookTruthful

\* RepeatedStatusOnlyIfOvertaken, under a clock that never repeats a reading: a
\* status is set again only over a write since it was looked at.
THEOREM RepeatedStatusOvertaken ==
    ASSUME ~Coarse
    PROVE  ServiceSpec => RepeatedStatusOnlyIfOvertaken
  <1>1. ServiceInv /\ [ServiceNext]_serviceVars =>
          [\A h \in Handler :
             FinishStatus(h) =>
                LET now == notices[job[h].notice]
                IN  now.status = job[h].status =>
                       now.updatedAt > job[h].seen.updatedAt]_serviceVars
    <2> SUFFICES ASSUME ServiceInv, NEW h \in Handler, FinishStatus(h),
                        notices[job[h].notice].status = job[h].status
                 PROVE  notices[job[h].notice].updatedAt > job[h].seen.updatedAt
      OBVIOUS
    <2>1. Doing(h, "status") /\ job[h].notice \in DOMAIN notices
      BY DEF FinishStatus, End, SetNoticeStatus, Doing
    <2>2. job[h].seen.updatedAt < notices[job[h].notice].updatedAt
      BY <2>1 DEF ServiceInv, StatusAsked
    <2>3. job[h].seen.updatedAt \in Nat /\ notices[job[h].notice].updatedAt \in Nat
      BY <2>1, JobFields DEF ServiceInv, StoreInv, TypeOK, Notice
    <2> QED  BY <2>2, <2>3
  <1> QED  BY <1>1, ServiceInvariant, PTL DEF ServiceSpec, RepeatedStatusOnlyIfOvertaken

\* DeletedStaysDeleted: no write under way brings back what was deleted.
THEOREM DeletedStay == ServiceSpec => DeletedStaysDeleted
  <1>1. ASSUME StoreInv, [Next]_vars
        PROVE  (issued \ (DOMAIN notices \cup DOMAIN users))
                  \cap (DOMAIN notices' \cup DOMAIN users') = {}
    <2>1. CASE UserOp
      BY <2>1 DEF UserOp, CreateUser, UpdateUser, SetUserPassword, DeleteUser, Put, Drop, Restrict
    <2>2. CASE NoticeOp
      BY <2>2 DEF NoticeOp, CreateNotice, UpdateNotice, UpdateNoticeMetadata, SetNoticeStatus,
                  DeleteNotice, Put, Drop, Restrict
    <2>3. CASE ReadOp
      BY <2>3 DEF ReadOp, UpsertReadRecord, FirstRead, ReadAgain, DeleteReadRecordsByNotice,
                  DeleteReadRecordsByUser
    <2>4. CASE UNCHANGED vars
      BY <2>4 DEF vars
    <2> QED  BY <1>1, <2>1, <2>2, <2>3, <2>4 DEF Next, Query
  <1>2. ServiceInv /\ [ServiceNext]_serviceVars =>
          [(issued \ (DOMAIN notices \cup DOMAIN users))
              \cap (DOMAIN notices' \cup DOMAIN users') = {}]_serviceVars
    BY <1>1, ServiceSteps DEF ServiceInv
  <1> QED  BY <1>2, ServiceInvariant, PTL DEF ServiceSpec, DeletedStaysDeleted

\* OnlyEditsRewrite: a text is that of the last edit, whatever else was under way.
THEOREM EditsRewriteOnly == ServiceSpec => OnlyEditsRewrite
  <1>1. ServiceInv /\ [ServiceNext]_serviceVars =>
          [\A n \in DOMAIN notices \cap DOMAIN notices' :
             notices'[n].text # notices[n].text =>
                \E h \in Handler : /\ job[h].op = "update" /\ job'[h] = Idle
                                   /\ job[h].notice = n
                                   /\ notices'[n].text = job[h].draft.text]_serviceVars
    <2> SUFFICES ASSUME ServiceInv, [ServiceNext]_serviceVars,
                        NEW n \in DOMAIN notices \cap DOMAIN notices',
                        notices'[n].text # notices[n].text
                 PROVE  \E h \in Handler : /\ job[h].op = "update" /\ job'[h] = Idle
                                           /\ job[h].notice = n
                                           /\ notices'[n].text = job[h].draft.text
      OBVIOUS
    <2> /\ StoreInv /\ ServiceTypeOK /\ TypeOK /\ n \in issued
        /\ n \in DOMAIN notices /\ n \in DOMAIN notices' /\ notices'[n] # notices[n]
      BY DEF ServiceInv, StoreInv, Fresh
    <2>1. ASSUME AnyBegin \/ Quiet \/ UNCHANGED serviceVars
          PROVE  FALSE
      <3>1. notices' = notices
        BY <2>1 DEF AnyBegin, BeginUpdate, BeginStatus, BeginPin, BeginDelete, BeginLook,
                    BeginView, BeginMark, Begin, Quiet, serviceVars, vars
      <3> QED  BY <3>1
    <2>2. ASSUME Direct
          PROVE  FALSE
      <3>1. CASE notices' = notices
        BY <3>1
      <3>2. ASSUME NEW x \in NoticeId, NEW draft, CreateNotice(x, draft)
            PROVE  FALSE
        BY <3>2 DEF CreateNotice, Put
      <3> QED
        BY <2>2, <3>1, <3>2 DEF Direct, AddUser, CreateUser, RemoveUser, DeleteUser, AddNotice
    <2>3. ASSUME NEW h \in Handler, Finish(h)
          PROVE  /\ job[h].op = "update" /\ job'[h] = Idle /\ job[h].notice = n
                 /\ notices'[n].text = job[h].draft.text
      <3>1. CASE FinishUpdate(h)
        <4>1. /\ job[h].op = "update" /\ job'[h] = Idle /\ UpdateNotice(job[h].notice, job[h].draft)
          BY <3>1 DEF FinishUpdate, End, ServiceTypeOK
        <4>2. job[h].notice = n
          BY <4>1 DEF UpdateNotice
        <4>3. notices'[n].text = job[h].draft.text
          BY <4>1, <4>2 DEF UpdateNotice, Revised
        <4> QED  BY <4>1, <4>2, <4>3
      <3>2. ~FinishStatus(h)
        <4> SUFFICES ASSUME NEW x, NEW status, SetNoticeStatus(x, status)
                     PROVE  notices'[n].text = notices[n].text
          BY DEF FinishStatus
        <4> QED  BY DEF SetNoticeStatus, Revised
      <3>3. ~FinishPin(h)
        <4> SUFFICES ASSUME NEW x, NEW pinned, UpdateNoticeMetadata(x, pinned)
                     PROVE  notices'[n].text = notices[n].text
          BY DEF FinishPin
        <4> QED  BY DEF UpdateNoticeMetadata
      <3>4. ~FinishDelete(h)
        BY DEF FinishDelete, DeleteNotice, Drop, Restrict
      <3>5. ~(FinishView(h) \/ FinishMark(h) \/ FinishLook(h) \/ Refused(h))
        BY DEF FinishView, FinishMark, FinishLook, Refused, UpsertReadRecord, FirstRead,
               ReadAgain, vars
      <3> QED  BY <2>3, <3>1, <3>2, <3>3, <3>4, <3>5 DEF Finish
    <2> QED  BY <2>1, <2>2, <2>3 DEF ServiceNext
  <1> QED  BY <1>1, ServiceInvariant, PTL DEF ServiceSpec, OnlyEditsRewrite

=============================================================================
