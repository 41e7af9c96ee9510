--------------------------------- MODULE Reports ---------------------------------
(***************************************************************************)
(* What the service reads and joins: the statistics of                     *)
(* internal/service/stats_service.go and the lists of notice_service.go    *)
(* and read_service.go.  A report visits the store several times, each     *)
(* time under the read lock, and adds up what it found; the store goes on  *)
(* changing in between.                                                    *)
(*                                                                         *)
(* One report is followed through; others are alike and change nothing.    *)
(* Of the filters only the status is kept: category, author, keyword and   *)
(* pin look at one notice at a time as it does.  ReadToday, the same       *)
(* records once more by the day, and the author names, which are read      *)
(* after the list is made, are left out.                                   *)
(***************************************************************************)
EXTENDS NoticeStore, FiniteSets, SequencesExt

CONSTANTS
    Priority,      \* the priority of a notice, part of what Text stands for
    Limits,        \* the limits requests ask for; 0 is none
    MaxPage        \* the most List shows: 500 in the code

ASSUME ReportConstantsOK ==
    /\ Priority \in [Text -> Nat]
    /\ Limits \subseteq Int
    /\ MaxPage \in Nat \ {0}
    /\ IsFiniteSet(NoticeId)

VARIABLES
    report,        \* the report under way, with its copies
    left,          \* the users whose records it has yet to look at
    counted,       \* the reads it has counted
    ever, always   \* the residents' reads there were at some instant of the
                   \* report, and at every instant of it (history)

reportVars == <<vars, report, left, counted, ever, always>>

Idle == [at |-> "idle"]

Residents == {u \in DOMAIN users : users[u].role = "resident"}

Current == {p \in Residents \X DOMAIN notices : IsRead(p[1], p[2])}

ReportInit ==
    /\ Init
    /\ report = Idle
    /\ left = {} /\ counted = {}
    /\ ever = {} /\ always = {}

\* Every step tells what is read after it, as long as a report is under way.
Watch ==
    /\ ever' = IF report' = Idle THEN {} ELSE ever \cup Current'
    /\ always' = IF report' = Idle THEN {}
                 ELSE IF report = Idle THEN Current' ELSE always \cap Current'

\* The writes requests make.  No request renames a user or changes a role.
\* An update hands back the copy it has read; NoticeService has old copies too,
\* but here it counts only that every update moves UpdatedAt.
Write ==
    /\ \/ \E u \in UserId, name \in Username, role \in Role, secret \in Secret :
             CreateUser(u, name, role, secret)
       \/ \E u \in UserId : DeleteUser(u)
       \/ \E n \in NoticeId, text \in Text, status \in Status, pinned \in BOOLEAN :
             CreateNotice(n, [text |-> text, status |-> status, pinned |-> pinned,
                              publishAt |-> IF status = "published" THEN clock ELSE NoTime])
       \/ \E n \in DOMAIN notices, text \in Text, pinned \in BOOLEAN :
             UpdateNotice(n, [text |-> text, status |-> notices[n].status, pinned |-> pinned,
                              publishAt |-> notices[n].publishAt])
       \/ \E n \in NoticeId, pinned \in BOOLEAN : UpdateNoticeMetadata(n, pinned)
       \/ \E n \in NoticeId, status \in Status : SetNoticeStatus(n, status)
       \/ \E n \in NoticeId : DeleteNotice(n)
       \/ \E u \in UserId, n \in NoticeId : UpsertReadRecord(u, n)
    /\ UNCHANGED <<report, left, counted>>
    /\ Watch

\* A visit to the store changes the report only.
Visit(now, who, found) ==
    /\ report' = now
    /\ left' = who
    /\ counted' = found
    /\ UNCHANGED vars
    /\ Watch

\* The copies of notices a report takes along, of which it looks at UpdatedAt.
Stamps(N) == [n \in N |-> notices[n].updatedAt]

-----------------------------------------------------------------------------
(* StatsService.Global: users, then notices, then the records user by user. *)

BeginGlobal ==
    /\ report = Idle
    /\ Visit([at |-> "notices", of |-> "all"], Residents, {})

ListAllNotices ==
    /\ report.at = "notices"
    /\ Visit([at |-> "count", of |-> "all", stamps |-> Stamps(DOMAIN notices)], left, {})

-----------------------------------------------------------------------------
(* StatsService.NoticeByID: the notice, then users, then record by record.  *)

BeginNoticeByID(n) ==
    /\ report = Idle
    /\ n \in DOMAIN notices /\ notices[n].status = "published"
    /\ Visit([at |-> "residents", of |-> "notice", stamps |-> Stamps({n})], {}, {})

ListResidents ==
    /\ report.at = "residents"
    /\ Visit([at |-> "count", of |-> "notice", stamps |-> report.stamps], Residents, {})

-----------------------------------------------------------------------------
(* Lists.                                                                   *)

\* ResidentListOrder: a comes before b.
ResidentListOrder(a, b) ==
    \/ a.pinned /\ ~b.pinned
    \/ a.pinned = b.pinned /\ Priority[a.text] > Priority[b.text]
    \/ /\ a.pinned = b.pinned /\ Priority[a.text] = Priority[b.text]
       /\ a.publishAt > b.publishAt

InListOrder(s) ==
    \A i, j \in DOMAIN s : i < j => ~ResidentListOrder(notices[s[j]], notices[s[i]])

Cut(s, limit) == IF limit > 0 /\ Len(s) > limit THEN SubSeq(s, 1, limit) ELSE s

\* What a filter lets through; status "any" is none asked for.
Matching(status) == {n \in DOMAIN notices : status \in {"any", notices[n].status}}

\* Mutant: the limit is applied while the notices are gathered.
ListNoticesCutFirst(status, limit) ==
    LET cut == {{s[i] : i \in DOMAIN s} :
                   s \in {Cut(t, limit) : t \in SetToSeqs(Matching(status))}}
    IN  UNION {{s \in SetToSeqs(N) : InListOrder(s)} : N \in cut}

\* ListNotices: filter, sort, cut.  The map is walked in any order, so of
\* notices that tie any may come first.
ListNotices(status, limit) ==
    {Cut(s, limit) : s \in {t \in SetToSeqs(Matching(status)) : InListOrder(t)}}

\* NoticeService.List: a resident's status is "published" whatever was asked
\* for, and nobody is shown more than MaxPage.
BeginList ==
    /\ report = Idle
    /\ \E viewer \in Role, asked \in Status \cup {"any"}, limit \in Limits :
          LET status == IF viewer = "admin" THEN asked ELSE "published"
              page == IF limit \in 1 .. MaxPage THEN limit ELSE MaxPage
          IN  \E shown \in ListNotices(status, page) :
                 Visit([at |-> "done", of |-> "list", viewer |-> viewer, shown |-> shown,
                        status |-> status, limit |-> page], {}, {})

\* ListForResident, and UnreadCount without filter and limit.
BeginListForResident(u) ==
    /\ report = Idle
    /\ u \in Residents
    /\ \E limit \in Limits :
          \E shown \in ListNotices("published", limit) :
             Visit([at |-> "count", of |-> "list", viewer |-> "resident", user |-> u,
                    shown |-> shown, stamps |-> Stamps({shown[i] : i \in DOMAIN shown}),
                    status |-> "published", limit |-> limit], {u}, {})

-----------------------------------------------------------------------------
(* Counting and answering.                                                  *)

\* Mutant: a record counts however old it is.
VerdictsByPresence(u) ==
    {<<u, n>> : n \in {reads[r].notice : r \in ReadsOfUser(u)} \cap DOMAIN report.stamps}

\* The records of u that are not older than the copies.
Verdicts(u) ==
    {<<u, n>> : n \in {reads[r].notice : r \in
        {q \in ReadsOfUser(u) : /\ reads[q].notice \in DOMAIN report.stamps
                                /\ reads[q].readAt >= report.stamps[reads[q].notice]}}}

\* One user's records, all at once or the one asked for.
CountFor(u) ==
    /\ report.at = "count"
    /\ u \in left
    /\ Visit(report, left \ {u}, counted \cup Verdicts(u))

Answer ==
    /\ \/ report.at = "done"
       \/ report.at = "count" /\ left = {}
    /\ Visit(Idle, {}, {})

ReportNext ==
    \/ Write
    \/ BeginGlobal \/ ListAllNotices
    \/ \E n \in NoticeId : BeginNoticeByID(n)
    \/ ListResidents
    \/ BeginList
    \/ \E u \in UserId : BeginListForResident(u)
    \/ \E u \in UserId : CountFor(u)
    \/ Answer

ReportSpec == ReportInit /\ [][ReportNext]_reportVars

-----------------------------------------------------------------------------
(* Properties *)

\* Whatever was written while a report went from one visit to the next: what
\* it has counted as read was read at some instant of the report, and what was
\* read all the time is not missed.  (ReadTotal of Global, ReadCount of
\* NoticeByID and the flags of ListForResident; a total need not have been
\* true at any one instant.)
CountsBracketed ==
    report.at = "count" =>
        /\ counted \subseteq ever
        /\ \A p \in always \ counted :
              \/ p[1] \in left
              \/ report.of = "notice" /\ p[2] \notin DOMAIN report.stamps
              \/ report.of = "list" /\ (p[2] \notin DOMAIN report.stamps \/ p[1] # report.user)

\* A list shows notices that were asked for, to a resident published ones
\* only, and leaves one out only if it is full.  A resident's list has nothing
\* out of its order and cuts off nothing that would come before what it shows
\* (a pinned notice for one that is not, say), though notices that tie are
\* taken in any order.  Nothing is said of the order of an administrator's
\* list, nor whether no limit means MaxPage or none.
ListIsTheTop ==
    [][report = Idle /\ report'.at \in {"done", "count"} =>
          LET shown == report'.shown
              resident == report'.viewer = "resident"
              match == Matching(IF resident THEN "published" ELSE report'.status)
              cut == match \ {shown[i] : i \in DOMAIN shown}
          IN  /\ {shown[i] : i \in DOMAIN shown} \subseteq match
              /\ cut # {} => Len(shown) = IF report'.limit > 0 THEN report'.limit ELSE MaxPage
              /\ resident =>
                    /\ InListOrder(shown)
                    /\ \A n \in cut, i \in DOMAIN shown :
                          ~ResidentListOrder(notices[n], notices[shown[i]])]_reportVars

=============================================================================
