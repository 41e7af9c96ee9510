----------------------------- MODULE NoticeService -----------------------------
(***************************************************************************)
(* Requests of internal/service/notice_service.go and read_service.go, run *)
(* by concurrent HTTP handlers over one NoticeStore.  A request takes the  *)
(* store's lock twice: first to read (GetNotice, ListNotices), then, with  *)
(* what it read in a local variable, to write or to read again.  Between   *)
(* the two any other handler may run.  A job is the local state of a       *)
(* handler between its two visits to the store.                            *)
(*                                                                         *)
(* A request refused before its second visit (not found, conflict, nothing *)
(* to change) leaves no job: its Begin action is disabled.                 *)
(***************************************************************************)
EXTENDS NoticeStore

CONSTANTS
    Handler,       \* goroutines serving requests
    MaxRequests    \* bound: requests served in a behaviour

ASSUME BoundsOK == MaxRequests \in Nat /\ MaxTime > MaxRequests

VARIABLES
    job,           \* what each handler holds between its two visits
    served,        \* requests started so far
    been           \* read verdicts that were true at some instant of a look

serviceVars == <<vars, job, served, been>>

Idle == [op |-> "idle"]

Jobs ==
    {Idle}
    \cup [op : {"update"}, notice : NoticeId, asked : SUBSET {"text", "pinned"}, draft : Drafts]
    \cup [op : {"status"}, notice : NoticeId, status : Status, seen : Notice]
    \cup [op : {"pin"}, notice : NoticeId, seen : Notice]
    \cup [op : {"delete"}, notice : NoticeId]
    \cup [op : {"view"}, user : UserId, notice : NoticeId, seen : Notice]
    \cup [op : {"mark"}, user : UserId, notice : NoticeId]

\* A look keeps the UpdatedAt of each notice it saw.
IsLook(j) ==
    /\ DOMAIN j = {"op", "user", "seen"} /\ j.op = "look"
    /\ j.user \in UserId
    /\ j.seen \in [DOMAIN j.seen -> Nat] /\ DOMAIN j.seen \subseteq NoticeId

ServiceTypeOK ==
    /\ DOMAIN job = Handler
    /\ \A h \in Handler : job[h] \in Jobs \/ IsLook(job[h])
    /\ served \in 0 .. MaxRequests
    /\ been \in [Handler -> SUBSET (NoticeId \X BOOLEAN)]

ServiceInit ==
    /\ Init
    /\ job = [h \in Handler |-> Idle]
    /\ served = 0
    /\ been = [h \in Handler |-> {}]

-----------------------------------------------------------------------------
(* First visit: the handler reads the store and keeps what it saw.          *)

\* The gate of middleware/auth.go let a request through with a copy of its
\* caller.  The account may have been deleted since: nothing looks at it again.
Calls(u, role) == u \in issued \cap UserId /\ (u \in DOMAIN users => users[u].role = role)

ByAdmin == \E a \in UserId : Calls(a, "admin")

Start == served < MaxRequests /\ served' = served + 1

Begin(h, j) ==
    /\ job[h] = Idle
    /\ Start
    /\ job' = [job EXCEPT ![h] = j]
    /\ UNCHANGED vars

\* Mutant: the copy is given a publication time that is still to come.
BeginUpdateAhead(h, n, asked, text, pinned) ==
    /\ ByAdmin /\ n \in DOMAIN notices
    /\ Begin(h, [op |-> "update", notice |-> n, asked |-> asked,
                 draft |-> [text |-> text, status |-> notices[n].status, pinned |-> pinned,
                            publishAt |-> clock + 1]])

\* Update: the fields asked for are set in the local copy, the others stay as
\* read.  A request that changes nothing is answered without a write.
BeginUpdate(h, n, asked, text, pinned) ==
    /\ ByAdmin /\ n \in DOMAIN notices
    /\ "text" \in asked \/ text = notices[n].text
    /\ "pinned" \in asked \/ pinned = notices[n].pinned
    /\ <<text, pinned>> # <<notices[n].text, notices[n].pinned>>
    /\ Begin(h, [op |-> "update", notice |-> n, asked |-> asked,
                 draft |-> [text |-> text, status |-> notices[n].status, pinned |-> pinned,
                            publishAt |-> notices[n].publishAt]])

\* Mutant: the notice may be in the status already.
BeginStatusUnchecked(h, n, status) ==
    /\ ByAdmin /\ n \in DOMAIN notices
    /\ Begin(h, [op |-> "status", notice |-> n, status |-> status, seen |-> notices[n]])

\* Publish and Unpublish: a notice already in the status is a conflict.
BeginStatus(h, n, status) ==
    /\ ByAdmin /\ n \in DOMAIN notices
    /\ notices[n].status # status
    /\ Begin(h, [op |-> "status", notice |-> n, status |-> status, seen |-> notices[n]])

BeginPin(h, n) ==
    /\ ByAdmin /\ n \in DOMAIN notices
    /\ Begin(h, [op |-> "pin", notice |-> n, seen |-> notices[n]])

BeginDelete(h, n) ==
    /\ ByAdmin /\ n \in DOMAIN notices
    /\ Begin(h, [op |-> "delete", notice |-> n])

\* What a resident may open: a draft does not exist for residents.
Visible(u, n) ==
    /\ Calls(u, "resident")
    /\ n \in DOMAIN notices /\ notices[n].status = "published"

BeginView(h, u, n) ==
    /\ Visible(u, n)
    /\ Begin(h, [op |-> "view", user |-> u, notice |-> n, seen |-> notices[n]])

BeginMark(h, u, n) ==
    /\ Visible(u, n)
    /\ Begin(h, [op |-> "mark", user |-> u, notice |-> n])

\* IsRead of one notice; UnreadCount and ListForResident of all published.
BeginLook(h, u) ==
    /\ Calls(u, "resident")
    /\ \E N \in {{n} : n \in DOMAIN notices}
                \cup {{n \in DOMAIN notices : notices[n].status = "published"}} :
          Begin(h, [op |-> "look", user |-> u, seen |-> [n \in N |-> notices[n].updatedAt]])

-----------------------------------------------------------------------------
(* Second visit.                                                            *)

End(h, op) ==
    /\ job[h].op = op
    /\ job' = [job EXCEPT ![h] = Idle]
    /\ UNCHANGED served

FinishUpdate(h) == End(h, "update") /\ UpdateNotice(job[h].notice, job[h].draft)

FinishStatus(h) == End(h, "status") /\ SetNoticeStatus(job[h].notice, job[h].status)

\* Mutant: the whole copy is written back, whatever the store holds now.
FinishPinWhole(h) ==
    /\ End(h, "pin")
    /\ notices' = Put(notices, job[h].notice,
                      [job[h].seen EXCEPT !.pinned = ~job[h].seen.pinned])
    /\ UNCHANGED <<users, username, reads, readIdx, clock, issued>>

FinishPin(h) == End(h, "pin") /\ UpdateNoticeMetadata(job[h].notice, ~job[h].seen.pinned)

FinishDelete(h) == End(h, "delete") /\ DeleteNotice(job[h].notice)

FinishView(h) == End(h, "view") /\ UpsertReadRecord(job[h].user, job[h].notice)

FinishMark(h) == End(h, "mark") /\ UpsertReadRecord(job[h].user, job[h].notice)

\* Mutant: any record counts, however old.
JudgedByPresence(j, n) == <<j.user, n>> \in DOMAIN readIdx

\* The verdict of a look: the record read last against the UpdatedAt read first.
Judged(j, n) ==
    /\ <<j.user, n>> \in DOMAIN readIdx
    /\ readIdx[<<j.user, n>>].readAt >= j.seen[n]

FinishLook(h) == End(h, "look") /\ UNCHANGED vars

\* Mutant: a read of a notice that became a draft is not refused.
RefusedIfGone(h) ==
    /\ \E op \in {"update", "status", "pin", "delete", "view", "mark"} :
          End(h, op) /\ job[h].notice \notin DOMAIN notices
    /\ UNCHANGED vars

\* The store answers ErrNotFound: the notice is gone, or a read can no longer
\* be recorded because it is a draft or the user is gone.
Refused(h) ==
    /\ \/ \E op \in {"update", "status", "pin", "delete"} :
             End(h, op) /\ job[h].notice \notin DOMAIN notices
       \/ \E op \in {"view", "mark"} :
             End(h, op) /\ ~Readable(job[h].user, job[h].notice)
    /\ UNCHANGED vars

Finish(h) ==
    \/ FinishUpdate(h) \/ FinishStatus(h) \/ FinishPin(h) \/ FinishDelete(h)
    \/ FinishView(h) \/ FinishMark(h) \/ FinishLook(h) \/ Refused(h)

-----------------------------------------------------------------------------
(* Requests that decide everything in one visit.                            *)

\* A startup without administrators seeds one; the others are created by one.
AddUser(u, name, role, secret) ==
    /\ ByAdmin \/ (role = "admin" /\ \A v \in DOMAIN users : users[v].role # "admin")
    /\ CreateUser(u, name, role, secret)

\* An administrator may not delete the account of the request.
RemoveUser(u) ==
    /\ \E a \in UserId \ {u} : Calls(a, "admin")
    /\ DeleteUser(u)

\* The service stamps a notice that starts out published itself.
AddNotice(n, text, status, pinned) ==
    /\ ByAdmin
    /\ CreateNotice(n, [text |-> text, status |-> status, pinned |-> pinned,
                        publishAt |-> IF status = "published" THEN clock ELSE NoTime])

Direct ==
    /\ Start
    /\ UNCHANGED job
    /\ \/ \E u \in UserId, name \in Username, role \in Role, secret \in Secret :
             AddUser(u, name, role, secret)
       \/ \E u \in UserId : RemoveUser(u)
       \/ \E n \in NoticeId, text \in Text, status \in Status, pinned \in BOOLEAN :
             AddNotice(n, text, status, pinned)

-----------------------------------------------------------------------------

AnyBegin ==
    \E h \in Handler :
        \/ \E n \in NoticeId :
              \/ \E asked \in SUBSET {"text", "pinned"}, text \in Text, pinned \in BOOLEAN :
                    BeginUpdate(h, n, asked, text, pinned)
              \/ \E status \in Status : BeginStatus(h, n, status)
              \/ BeginPin(h, n)
              \/ BeginDelete(h, n)
        \/ \E u \in UserId :
              \/ BeginLook(h, u)
              \/ \E n \in NoticeId : BeginView(h, u, n) \/ BeginMark(h, u, n)

\* The verdicts a handler's user would get in a state, and their collection while a
\* look is under way.
Verdicts(h) == {<<n, IsRead(job[h].user, n)>> : n \in NoticeId}

Observe ==
    been' = [h \in Handler |->
                IF job'[h].op # "look" THEN {}
                ELSE been[h] \cup Verdicts(h)']

\* No request is under way and none arrives: the only way the system rests.
Quiet == (\A h \in Handler : job[h] = Idle) /\ UNCHANGED serviceVars

ServiceNext ==
    \/ (AnyBegin \/ (\E h \in Handler : Finish(h)) \/ Direct) /\ Observe
    \/ Quiet

ServiceSpec == ServiceInit /\ [][ServiceNext]_serviceVars

\* A handler's goroutine is scheduled, and nothing holds the lock for ever.
ServiceFairness == \A h \in Handler : WF_serviceVars(Finish(h) /\ Observe)

FairServiceSpec == ServiceSpec /\ ServiceFairness

-----------------------------------------------------------------------------
(* Properties *)

\* Publishing, taking down or pinning a notice never loses the text another
\* administrator saved between the two visits (memory.go:373-376).
OnlyEditsRewrite ==
    [][\A n \in DOMAIN notices \cap DOMAIN notices' :
          notices'[n].text # notices[n].text =>
             \E h \in Handler : /\ job[h].op = "update" /\ job'[h] = Idle
                                /\ job[h].notice = n
                                /\ notices'[n].text = job[h].draft.text]_serviceVars

\* The status is checked on a copy, so of two requests that publish at once
\* both may succeed, and the second makes the notice unread again.  That takes
\* another write between its two visits: alone, a publication or a take-down
\* never stamps a notice that is in the status already (notice_service.go:168).
RepeatedStatusOnlyIfOvertaken ==
    [][\A h \in Handler :
          FinishStatus(h) =>
             LET now == notices[job[h].notice]
             IN  now.status = job[h].status => now.updatedAt > job[h].seen.updatedAt]_serviceVars

\* A notice or an account that was deleted never comes back, whichever writes
\* were under way.
DeletedStaysDeleted ==
    [][(issued \ (DOMAIN notices \cup DOMAIN users))
          \cap (DOMAIN notices' \cup DOMAIN users') = {}]_serviceVars

\* A look joins two unlocked reads, yet each verdict it gives was the truth at
\* some instant between its start and its end.
LookTruthful ==
    [][\A h \in Handler :
          job[h].op = "look" /\ job'[h] = Idle =>
             \A n \in DOMAIN job[h].seen : <<n, Judged(job[h], n)>> \in been[h]]_serviceVars

\* Every request is answered, also when what it works on is deleted under it.
EveryRequestAnswered == \A h \in Handler : job[h] # Idle ~> job[h] = Idle

\* read_service_test.go:324: viewing an old copy does not mark the notice that
\* has been updated meanwhile as read.
ViewMarksWhatItShows ==
    [][\A h \in Handler, u \in UserId, n \in NoticeId :
          /\ FinishView(h) /\ job[h].user = u /\ job[h].notice = n
          /\ IsRead(u, n)'
          => job[h].seen.text = notices[n].text]_serviceVars

\* memory.go:357: pinning and editing the body do not overwrite each other;
\* neither do publishing and editing (notice_service_test.go:256).
EditTouchesOnlyWhatItAsks ==
    [][\A h \in Handler :
          FinishUpdate(h) =>
             LET n == job[h].notice
             IN  /\ "pinned" \notin job[h].asked => notices'[n].pinned = notices[n].pinned
                 /\ notices'[n].status = notices[n].status]_serviceVars

=============================================================================
