# A TLA+ verification of go01-community-notice

The program is a community notice board: one Go process that keeps users,
notices and read records in memory, writes them to one JSON file, and serves a
REST API to administrators (who write notices and manage accounts) and residents
(who read them). Its rule of business is *an edit makes the notice unread again*:
a resident has read a notice when the read record is not older than the notice's
`UpdatedAt`.

This directory holds TLA+ models of the program, the TLC configurations that
check them, and proofs checked by TLAPS. `PROJECT.json` is the index: the
components, the runs, the map from every definition to the lines it models, the
hazards, the findings and the theorems.

    tlc -config NoticeStore.cfg MCNoticeStore      # one run
    tlapm NoticeStoreProofs.tla                    # the proofs of one module

## 1. Inventory

| component | state | operations | shares with others |
|---|---|---|---|
| store, `internal/store/memory.go` | users, name index, notices, read records by ID and by (user, notice) | one method per operation, each under one `RWMutex`; `ReplaceAll` at the start | called by every service; calls the persist hook after unlocking |
| notice service, `service/notice_service.go` | none of its own | create, update, delete, publish, unpublish, toggle pin, list: read the store, decide on the copy, write | two visits to the store per request |
| read service, `service/read_service.go` | none | view detail, mark read, is read, list, unread count | as above |
| statistics, `service/stats_service.go` | none | sums over the read rule, for all notices or one | a visit to the store per table and user |
| auth service, `service/auth_service.go` | none | login, logout, create and delete account, change password | the store's lock and then the session manager's |
| session manager, `internal/auth/session.go` | sessions, revoked users, credential versions; in memory only | create, get, invalidate, rotate, revoke, clean up | auth service, middleware, the cleaner goroutine |
| middleware, `internal/middleware/auth.go` | none | session check, then user lookup, then role check on the copy | session manager, store |
| persistence, `internal/store/file.go` | the data file, the save lock | save after every write, flush at the end, load at the start | reads the store under its read lock |
| process, `main.go`, `server.go`, `seed.go` | the phases start, serve, drain, flush | seed an administrator, serve, shut down | everything |
| model, `internal/model` | none | entities, validation, list order | everywhere |
| handlers, routing, CORS, logging, config, web pages | none | decode, call one service, answer | |

What is hard here:

* A request keeps a **copy** across two locked visits to the store. Everything
  decided on the copy may be stale when it is written. Reports and lists join
  **several visits**.
* The store and the session manager have **separate locks**, so a change of
  password and the deletion of an account are visible half done.
* The gate decides on a copy of the **caller**, who may be deleted before the
  request acts.
* Saves **overlap**, copy the three tables under three locks, may **fail** without
  the client being told, and may be cut by the **death of the process**.
* A **restart** keeps the accounts and their credential versions, whatever the file
  holds, and forgets the sessions, the revocations and the session manager's
  versions; it must find or make an administrator.
* The read rule compares **times** taken under different visits to the lock.

What makes each part correct:

* store: the name index is the inverse of the names; the two copies of the read
  records agree; no record outlives its user or notice; drafts are read by
  nobody; an edit makes unread at once; reading again never loses the record.
* services: whatever they do is a sequence of store operations; no operation but
  an edit loses a saved text (of two overlapping edits the later one wins), nothing deleted returns, answers were true at some instant, every request
  is answered.
* reports: nothing is counted as read that was not, nothing read all along is
  missed; a resident's shortened list shows the notices that come first.
* accounts: no session for a deleted account, none made with an old password,
  none revived; the two versions agree, so that the right password is accepted;
  an administrator remains.
* persistence: what was answered as saved survives the death of the process (of
  the machine only as far as its file system keeps a rename); the file only moves
  forward; no lock is kept, a failed save included; nobody waits for ever; what a torn file brings back does no harm later.

## 2. Modules

| module | models | composed from |
|---|---|---|
| `Maps` | Go maps: `Put`, `Drop` | |
| `NoticeStore` | `memory.go`, one action per method | `Maps` |
| `NoticeService` | concurrent requests of the notice and read services | extends `NoticeStore`, implements its `Spec` |
| `Reports` | statistics and lists, visit by visit | extends `NoticeStore` |
| `SessionManager` | `session.go`, one action per method | `Maps` |
| `AuthService` | starts and seeding, the gate, logins, password changes, accounts | extends `NoticeStore`, instantiates `SessionManager`, implements both |
| `FileStore` | the persist hook, save, flush, load, shutdown, kill | implements `DurableStore` by a refinement mapping |
| `DurableStore` | what persistence promises, abstractly | |
| `Recovery` | torn file, crash, `ReplaceAll`, next process | extends `NoticeStore` |
| `Canonical` | choosing one of the behaviours that differ in names only | |
| `MC*` | symmetry sets and orders of names for TLC | one each |
| `NoticeStoreProofs`, `NoticeServiceProofs`, `SessionManagerProofs`, `AuthServiceProofs`, `ReportsProofs`, `FileStoreProofs`, `RecoveryProofs` | theorems | the module of that name, TLAPS |

**NoticeStore** keeps the source's field names. A method that returns an error is
the action being disabled, because it changes nothing. `Text` stands for title,
content, priority and category together; a user is name, role, secret and
credential version. `NoTime` is a nil `PublishAt`. A call of `s.now()` is `Now`:
the clock moves to `clock'`, and stays where it is only if `Coarse`. `issued` is
the set of identifiers drawn so far (`genID` draws 72 random bits, taken as never
repeating). The user methods read the clock too, for the users' own time stamps;
as nothing compares those, their readings are left out.
`UpdateUser` and the two `DeleteReadRecordsBy...` methods belong to the
interface though no service calls them.

**NoticeService** gives each handler a `job`, the local state of a request between
its first visit (`Begin...`, which carries the checks of the service method) and
its second (`Finish...`, one store method called with the copy). `Refused` is the
store's `ErrNotFound`. Requests that decide everything in one visit need no copy.
That the caller is an administrator was checked by the middleware before;
`AdminCalls` lets an admitted request run on after its caller's account is gone,
and is generous about it: any deleted account may have been one. A `look` stands
for `IsRead` and `UnreadCount`: it notes `UpdatedAt` of what it saw, then compares
with the records found at the second visit. `been` collects, for each look, the
verdicts true at some instant since it began.

**Reports** follows one report through; reports change nothing, so others are not
needed. `report.stamps` are the copies of notices it took along, `left` the users
whose records are still to be looked at, `counted` the pairs it has judged read.
`ever` and `always` are history: the residents' reads there were at some instant
of the report, and at all of them. `ListNotices` gives every list the code may
return: the order is total on neither drafts nor notices of one publication time,
and the map is walked in any order. `Limits` are what requests ask for; `List`
puts `MaxPage` in place of none or too many, `ListForResident` does not.

**SessionManager** reduces a session to its user and whether it has expired.
`Admits` is the test in `Create`; a missing version admits every login while
`Version` counts it as zero, as Go's map does. `minted` are the tokens drawn.

**AuthService** begins before the first start. `StartUp` loads what the last process
left, forgets the sessions and seeds. A request enters with a live session
(`Enter`), is admitted with a copy of its caller (`Admit`) or has its session removed
because the account is gone (`Reject`); behind the gate only the copy's role counts.
Requests are cut at their locks: `BeginLogin` copies the user and checks the
password, `FinishLogin` calls `Create` with the copy; a change goes through
`StoreNewPassword` and `RotateSessions`, a deletion through `DeleteAccount` and
`RevokeSessions`. `proof` is history: the version of the password each token was
given for. `StartUp` also ends a process at any point, with all the accounts there;
what the file may lose of them is the subject of FileStore and Recovery.

**FileStore** does not repeat what writes do: a write is a number with the set of
tables it changes, and a table is the set of writes it shows. A handler's `job`
goes through unlock, waiting for `saveMu`, the three copies, the temporary file
and the rename; `Main` runs the same steps for `Flush`, twice when `run` returns
normally (`main.go:104` and the deferred call), once when the listener fails.
`saved` is history: the writes answered after their own save succeeded.
**DurableStore** knows no locks, copies or temporary files: a file that gains writes
and loses none, holds no more than memory had, and all of every write acknowledged.

**Recovery** keeps the tables themselves. One save at a time (`saveMu`) copies them
while the store goes on; `Recover` is the death of the process at any point followed by `ReplaceAll`.

Definitions marked *Mutant* are wrong variants, used by no specification: each
shows that the property it is listed with in `PROJECT.json` can fail.

## 3. Runs

| run | question | distinct states |
|---|---|---|
| notice_store | do the store's methods in any order keep indexes, records and the read rule? | 192 014 |
| notice_service | do stale copies lose a text, revive what is deleted, or answer what was never true? Is every request answered, and is `NoticeStore` implemented? | 520 488 |
| reports | is what a report counts bracketed by what was read during it? Does a list show what was asked for, a resident's what comes first? | 2 278 542 |
| session_manager | do sessions end for good? | 468 |
| auth_service | from a seeded start, through the gate and over a restart: no session of a deleted account or an old password, versions in step, an administrator left; are store and session manager implemented, and every request answered? | 153 917 |
| file_store | is `DurableStore` implemented over overlapping and failing saves, a kill and a restart? Is each lock held just as long as it should be, and does every write and every stop end? | 1 193 291 |
| recovery | what of the store's guarantees survives a torn file and the death of the process? | 491 278 |
| stale_view, lost_pin, lockout, seed_blocked, torn_file | counterexamples, see section 4 | |

Bounds, and why they suffice for what is asked:

* *Identifiers.* Two users, two names and two notices are what a conflict takes
  (a rename to a taken name, a deletion that must not touch the other's records,
  a list that is cut). Three record IDs in the store run let one of four pairs be
  read, forgotten and read again. The auth run has three users: two
  administrators who delete each other and one who is created meanwhile.
* *Names that do not matter.* Runs without liveness declare symmetric sets. Those
  with liveness cannot; there the action constraint `Ordered` keeps, of behaviours
  that differ in identifiers, tokens or handlers only, the one that uses them in a
  fixed order. It forbids no behaviour up to renaming (`Canonical`).
* *Time.* `MaxTime` 5 allows four stamped writes in the store, report and recovery
  runs: publish, read, edit, read again. The service run has more instants than
  requests (`BoundsOK`), so that the end of time never stops a request.
* *Requests.* A behaviour of the notice service needs three requests to create an
  administrator, a resident and a notice; `MaxRequests` 8 leaves five to overlap on
  two handlers. In the auth run the seed is there at the start; five requests on
  three handlers cover a login between two changes of password, and two
  administrators deleting each other.
* *Versions.* `MaxVersion` exceeds the requests, so it never stops a change.
* *Saves.* Three writes, two handlers and main: one write answered with a failed
  save while two others overlap; one kill at any point and one restart. In Recovery one
  save is enough to tear a file, since the next whole one repairs it. It has two users but
  one notice ID: TLC sees stray records without their user and users created after them,
  while for a *notice* created after a stray record the run has none left, and
  `NobodyInheritsReads` rests there on the theorem `ReadsNotInherited`. (With two notices
  and `MaxTime` 4 the configuration passes too, 1 749 460 states, but then no time is
  left for an edit after a record that came back to a draft.)
* *Lists.* Limits 0 (none) and 1, priorities 0 and 1, pages of 1: with two
  notices every list is either whole or cut. Administrators ask for any status, residents
  get what is published whatever they ask for.

Deadlock is checked in every run. In the service, auth and file runs the system may
rest only with no request under way and none arriving: `Quiet` is enabled in just those
states, so any other rest is reported. (The store and Recovery, which model no
requests, may rest anywhere.) All runs have a clock that never repeats a reading
(`Coarse` is FALSE); the proofs cover both kinds.

Fairness. `ServiceFairness` and `AuthFairness` ask weak fairness of each handler's
second and later steps, `FileFairness` of each goroutine's next step: Go runs every
runnable goroutine, and `sync.Mutex` and `sync.RWMutex` hand the lock to a waiter
that has starved for a millisecond. Nothing is asked of arrivals, kills, restarts,
expiry or signals.

## 4. What the code does otherwise than it says

* **stale_view.** `ViewDetail` shows the copy it read first, `UpsertReadRecord`
  stamps the record with the time of the write. An edit in between is marked as
  read though nobody saw it; `read_service_test.go:324` asserts the contrary for
  exactly this order of steps.
* **lost_pin.** `Update` writes its whole copy back, the pinned flag and the status
  included, and so undoes a pin or a publication made since it read. The comments
  of `memory.go:357` promise that the two do not overwrite each other, and the tests
  only hold the pin or the publication back, never the edit.
* **lockout.** The stored credential version survives a restart, the session
  manager's starts from zero. One change of password before and one after leave 2
  and 1, and the new password is refused until the next restart. For the same
  reason `VersionsInStep` and `OldPasswordEnded` are claimed for the first process
  only. No route calls `ChangePassword` today; the service offers it.
* **seed_blocked.** Two administrators delete each other, each let in before its
  account was gone, and none is left (`LastAdminFallsToOverlap` says that this is the
  only way). If a resident has the seed's name, the next start fails in `SeedAdmin`,
  which `seed.go:31` takes for impossible.
* **torn_file.** `save` copies the tables under three read locks. A write between
  two of them gives a file that no instant of the memory was, for instance a read
  record without its notice. `LaterCopiesAreNewer` says how far this goes: only
  tables copied later can be ahead. If the process dies before the next save,
  `ReadsReferToLive` and `DraftReadsOlder` do not hold in the next one; `RecoveryInv`
  is what does, nobody created later comes into the stray records
  (`NobodyInheritsReads`), and edits outdate them (`EditStillMakesUnread`).

Two smaller divergences have no run: each shows in two lines read side by side, takes no
interleaving, and would only restate them as a trace of one step. `README.md:74` of the
repository has the administrators' list sorted by creation time, newest first;
`memory.go:287` sorts every list by `ResidentListOrder`, under which drafts of one priority
tie. `notice.go:112` says of the limit in `NoticeFilter` that zero or less means the default
bound; that is so in `List` (`notice_service.go:71`), while `ListForResident` passes it on
and the store then cuts nothing (`memory.go:290`). `ListIsTheTop` claims neither side: it says
nothing of the order of an administrator's list, and of a list without limit only that, if it
leaves anything out, it is as long as the default bound.

## 5. What is proved

For all sets of identifiers, names, texts and secrets, and for every bound.
The assumptions are those the modules name (`ConstantsOK`, `BoundsOK`,
`ReportConstantsOK`, `PersistenceOK`, `RecoveryBoundsOK`), which TLC evaluates in the
runs; of them only `ReportConstantsOK` asks for something finite, the notice IDs,
because a list is a finite sequence.

**The store** (`NoticeStoreProofs`). `TypeCorrect`; `StoreInvariant`, the inductive
invariant `StoreInv`; from it `NameIndexCorrect`, `ReadCopiesCorrect`,
`ReadRecordsCorrect`, `DraftsUnread`, and the action properties `EditsMakeUnread`,
`RecordsAreKept`, `ReadsLostOnlyByChange`, `ReadsByReaderOnly`: every property of the
notice_store run. The properties are not inductive as they stand. `StoreInv` adds

* `Fresh`: identifiers in use were issued. Without it a new user could take the
  ID of another, and the name index would lose a name;
* `ReadTimes`: a record is not newer than the clock. With it a fresh reading of the
  clock is later than every record, which is why an edit makes unread;
* `DraftReadsOlder`: a record on a draft is older than the draft. This is what
  `DraftUnread` becomes when it must survive steps: a take-down stamps the notice
  later than all records, and none is added to a draft.

The proof goes by the kinds of operations: the maps' types first, then the names
with users and issued IDs, then the records. Three lemmas carry the last part:
`ForgetStep` (removing records), `ReviseStep` (stamping a notice) and `UpsertStep`
(recording a read); `NextInv` puts them together. The action properties rest on
three facts of a step: a notice does not get older (`NoticesNotOlder`), a recorded
read moves one record to the present (`UpsertMovesOne`), and any other step only
removes records (`OthersForget`). `DraftUnread` and `EditMakesUnread` speak of a
clock that never repeats a reading (`~Coarse`): with one that does, an edit and a read
may get equal times, and the read rule (`ReadAt` not before `UpdatedAt`) counts
it as read. The other properties hold either way.

**The notice service** (`NoticeServiceProofs`). `StoreUsedByRequests`: any number of
overlapping requests implements the store, so what is proved of it holds under them.
The other properties of the notice_service run follow from `ServiceInv`, which relates what
each request carries to the store it will write to: what a look saw is not newer than the
notice (`LooksOld`), and a record that is not older than what it saw made the notice read at
some instant of the look (`LooksTrue`, `LooksWatch`), whence `LooksAreTruthful`; a notice whose
status has changed under a waiting request was stamped later (`StatusAsked`), whence
`RepeatedStatusOvertaken`, for a clock that never repeats a reading; `DeletedStay` and
`EditsRewriteOnly` come from issued identifiers and from what the store's methods take
out of a copy.

**The session manager** (`SessionManagerProofs`). `SessionTypes`, `RevokedHaveNone`,
`EndedStaysEnded` and `RotationsEnd`: all of the session_manager run. A session that ends
cannot return because its token was drawn, and `Create` draws a new one.

**The accounts** (`AuthServiceProofs`). `StoreUsedAsAllowed` and
`SessionsUsedAsAllowed` prove that `AuthService` implements both its parts: each step
is a step of the store, or leaves it alone, and likewise of the session manager. So
everything proved of the two holds under concurrent requests and over restarts.
`DeletedKeepNoSession` and `LastAdminOverlap` follow from `AuthInv`: a session, or a login
under way, is of an account that lives or is about to be revoked or is revoked, so that no
login can arrive late; and a caller let in as administrator is one, if still there, which is
why only a request whose caller is gone can take the last away.

`VersionsKeepStep` (`VersionsInStep`) and `OldPasswordStaysEnded` (`OldPasswordEnded`)
need more, `VersionsInv`. The stored version of an account and the session manager's are
moved by different requests under different locks; what they differ by is the number of
`Rotating` handlers, so the proof counts: storing a password adds one handler to the set and
one to the stored version, rotating takes one out and adds one to the other version, and
nothing else touches any of the three. Counting needs `RotatingFinite`; that a new
account starts with both at zero needs `UsersIssued` (no session, version or request names
an identifier that was not issued); and that a login whose copy is old cannot be admitted by
a version yet to come needs `LoginsNotAhead`. All of it ends with the first restart, for the
reason of the lockout in section 4; `NoLockoutAtFirst` states the other side of
that finding: until then the right password is accepted.

**Reports** (`ReportsProofs`). `CountsAreBracketed`: whatever is written between the
visits of a report. `ReportInv` says that the copies taken along are not newer than
the notices (`CopiesOld`), so what is read now is found; and that a record not older than
a copy is one that made the notice read at some instant of the report
(`CopiesJudgeTrue`): it did when the copy was taken, or when it was recorded, for the clock
is then at or past every stamp. `ListsShowTheTop` (`ListIsTheTop`): an arrangement of a finite
set has each member once (`SetAsSequence`, an injection between sets of one size), a cut
list is its beginning (`CutIsPrefix`), so what is cut off stands behind all that is
shown. This order is claimed for residents, the length and the filter for everybody. `ListOrderIsWeak`: `ResidentListOrder` is a strict weak order,
without which a sort may give anything.

**Persistence** (`FileStoreProofs`). `PersistenceImplementsDurableStore`: each step of
`FileSpec` is a step of `DurableStore` or leaves it alone. It rests on `FileInv`, which
relates the three places a write may be shown in. Saves exclude each other
(`SavesExclude`), so there is one set of copies at a time; each copy has all of the data
file and nothing that memory has not (`CopiesBetween`), so the rename only adds to the file;
and what a copy lacks belongs to requests that still wait for `saveMu` or for the hook
(`CopiesRecent`), so no rename answers for a write it does not carry. From that come
`AnsweredStay` and `SavesCarryAnswered`. `TornOneWay` needs the order of the copies in
each save (`CopiesOrdered`) and in the file (`DiskOrdered`): the second table was
copied later, so of the writes up to one the first shows it misses none. `FileTypeCorrect`
(`FileTypeOK`) holds the type invariant and `LocksHeld`: each of the two locks is held by
one goroutine at most, from the step that takes it to the one that gives it back, so that
no way out of a save, a failed write included, forgets `saveMu`. It needs `MainRests`: while
the process serves, main runs no save that a stop could cut short. `Memory` stands for what readers find, which while no process runs is
what the next one will load.

**Recovery** (`RecoveryProofs`). `RecoveredRight` (`RecoveryInv`), `ReadsNotInherited` and
`EditsStillMakeUnread`, every property of the recovery run. `RecoveryInv` says nothing of
copies and file and so is not inductive. `TablesInv` adds that each table *by itself*
is kept right in memory, in a copy and in the file (`UsersKept`, `NoticesKept`, `ReadsKept`):
unique names and keys, times in order and in the past, identifiers that were issued,
those a record names for its user and notice included. Nothing is said of two tables
together, because they may be of different moments: this is where `ReadsReferToLive`
is lost. `ReplaceAll` then builds exact indexes out of any three such tables. That the
identifiers a stray record names were issued is why nobody created later gets it; that its
time is past, why the next edit outdates it.

Only model-checked: liveness (`EveryRequestAnswered` of the notice and the auth
service, `SavesEnd`), since TLAPS reaches neither fairness nor ENABLED. The other properties of
the passing runs are all theorems.

## 6. Not modelled

* `ReadToday` of the statistics (the same records counted by the day) and the author
  names, looked up after a list is made; the filters by category, author, keyword
  and pin, which look at one notice at a time as the status filter does.
* Validation (lengths of strings, which no property tells apart; a refused input
  changes nothing) and password hashing (a password fits the secret made from it).
* HTTP decoding, status codes, CORS, logging, pages and configuration: no state.
* The death of the machine: `writeAtomic` syncs the temporary file but renames it
  (`file.go:123`) without syncing the directory, so whether the last rename is kept is up to
  the file system. What is said of durability is said of the death of the process.
* Wrap-around of the 64-bit credential version; a clock that is set back; a context
  cancelled before a store method, which is an error that changes nothing.

## 7. Plan

1. *Core* (done): `NoticeStore` with its inductive invariant proved,
   `NoticeService`, `SessionManager`, `AuthService`, `FileStore`.
2. *Extend the model* (done): `DurableStore` and the refinement, `Recovery`, the gate,
   start and seeding in `AuthService`, `Reports`.
3. *Prove more* (done): every safety property, action property and refinement of the
   passing runs.
4. *Consolidate*: shorter proofs, fewer and deeper properties.
