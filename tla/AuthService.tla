------------------------------- MODULE AuthService -------------------------------
(***************************************************************************)
(* The accounts of the program: requests through the gate of               *)
(* internal/middleware/auth.go to internal/service/auth_service.go, and    *)
(* the starts of the process, which seed an administrator when there is    *)
(* none.  Concurrent handlers work on the user part of the NoticeStore and *)
(* on the SessionManager.  The two have a lock each, so a request that     *)
(* changes both does so in two steps, and one that reads the first and     *)
(* then asks the second acts on a copy.  The gate hands the request a copy *)
(* of its caller, which nothing looks at again.                            *)
(*                                                                         *)
(* Passwords are given right: a request whose password does not match the  *)
(* copy of the user it read is refused at once and leaves no job.          *)
(***************************************************************************)
EXTENDS NoticeStore, FiniteSets

CONSTANTS
    Token,
    Handler,       \* goroutines serving requests
    SeedName,      \* the seed's names the process may be configured with
    MaxRequests,   \* bound: requests served in a behaviour
    MaxStarts      \* bound: starts of the process

ASSUME BoundsOK ==
    /\ SeedName \subseteq Username
    /\ MaxRequests \in Nat /\ MaxStarts \in Nat
    /\ MaxVersion > MaxRequests

VARIABLES
    sessions, revoked, versions, minted,   \* the session manager
    phase,         \* "down" before the first start, "up", or "refused" to start
    job,           \* what each handler holds between its steps
    served,        \* requests begun so far
    starts,        \* starts so far
    proof          \* token -> the version of the password it was given for

sessionVars == <<sessions, revoked, versions, minted>>
processVars == <<phase, starts>>
authVars == <<vars, sessionVars, processVars, job, served, proof>>

SM == INSTANCE SessionManager

Idle == [op |-> "idle"]

Jobs ==
    {Idle}
    \cup [op : {"login"}, user : UserId, version : 0 .. MaxVersion]
    \cup [op : {"change"}, at : {"store", "rotate"}, user : UserId, secret : Secret]
    \cup [op : {"gate"}, token : Token, user : UserId]
    \cup [op : {"in"}, token : Token, user : UserId, role : Role]
    \cup [op : {"revoke"}, user : UserId]

AuthTypeOK ==
    /\ phase \in {"down", "up", "refused"}
    /\ job \in [Handler -> Jobs]
    /\ served \in 0 .. MaxRequests
    /\ starts \in 0 .. MaxStarts
    /\ DOMAIN proof = minted /\ \A t \in minted : proof[t] \in Nat

AuthInit ==
    /\ Init
    /\ SM!Init
    /\ phase = "down"
    /\ job = [h \in Handler |-> Idle]
    /\ served = 0
    /\ starts = 0
    /\ proof = EmptyMap

-----------------------------------------------------------------------------
(* The start of the process.                                                *)

AdminExists == \E u \in DOMAIN users : users[u].role = "admin"

\* SeedAdmin: the store refuses a name that is taken, by whomever, and the
\* error ends the process.
SeedAdmin(name) ==
    \/ /\ ~AdminExists
       /\ \E u \in UserId, secret \in Secret : CreateUser(u, name, "admin", secret)
       /\ phase' = "up"
    \/ /\ ~AdminExists /\ name \in DOMAIN username
       /\ phase' = "refused"
       /\ UNCHANGED vars
    \/ /\ AdminExists
       /\ phase' = "up"
       /\ UNCHANGED vars

\* The process starts, on an empty store or on what an earlier process left:
\* accounts and their credential versions are loaded, sessions are not.  The
\* requests of an earlier process ended with it.
StartUp(name) ==
    /\ starts < MaxStarts
    /\ starts' = starts + 1
    /\ SeedAdmin(name)
    /\ SM!Restart
    /\ job' = [h \in Handler |-> Idle]
    /\ UNCHANGED <<served, proof>>

-----------------------------------------------------------------------------
(* The steps of requests.                                                   *)

Begin(h, j) ==
    /\ phase = "up"
    /\ job[h] = Idle
    /\ served < MaxRequests
    /\ served' = served + 1
    /\ job' = [job EXCEPT ![h] = j]
    /\ UNCHANGED <<vars, sessionVars, processVars, proof>>

Become(h, j) ==
    /\ job' = [job EXCEPT ![h] = j]
    /\ UNCHANGED <<processVars, served>>

Doing(h, op) == job[h].op = op

Changing(h, at) == Doing(h, "change") /\ job[h].at = at

\* Bound: a login begins only while there is a token left for it to draw.
TokenLeft ==
    Cardinality({h \in Handler : job[h].op = "login"}) < Cardinality(Token \ minted)

\* Login: GetUserByUsername and the check of the password, on a copy.
BeginLogin(h, name) ==
    /\ TokenLeft
    /\ name \in DOMAIN username
    /\ LET u == username[name]
       IN  Begin(h, [op |-> "login", user |-> u, version |-> users[u].version])

\* Mutant: the session is stored without a look at revocation and version.
FinishLoginUnchecked(h, t) ==
    /\ Doing(h, "login")
    /\ t \notin minted
    /\ sessions' = Put(sessions, t, [user |-> job[h].user, expired |-> FALSE])
    /\ minted' = minted \cup {t}
    /\ proof' = Put(proof, t, job[h].version)
    /\ Become(h, Idle)
    /\ UNCHANGED <<vars, revoked, versions>>

\* Login: sessions.Create, with the version of the copy.
FinishLogin(h, t) ==
    /\ Doing(h, "login")
    /\ SM!Create(t, job[h].user, job[h].version)
    /\ proof' = Put(proof, t, job[h].version)
    /\ Become(h, Idle)
    /\ UNCHANGED vars

\* Mutant: only a revoked user is refused.
LoginRefusedIfRevoked(h) ==
    /\ Doing(h, "login")
    /\ job[h].user \in revoked
    /\ Become(h, Idle)
    /\ UNCHANGED <<vars, sessionVars, proof>>

LoginRefused(h) ==
    /\ Doing(h, "login")
    /\ ~SM!Admits(job[h].user, job[h].version)
    /\ Become(h, Idle)
    /\ UNCHANGED <<vars, sessionVars, proof>>

\* ChangePassword, which no route leads to yet: the old password is checked on
\* a copy, the new one stored, the sessions rotated; each of the three under a
\* lock of its own.
BeginChange(h, u, secret) ==
    /\ u \in DOMAIN users
    /\ Begin(h, [op |-> "change", at |-> "store", user |-> u, secret |-> secret])

\* Mutant: the password is stored with the version it had.
StoreWithOldVersion(h) ==
    /\ Changing(h, "store")
    /\ job[h].user \in DOMAIN users
    /\ UpdateUser(job[h].user, [users[job[h].user] EXCEPT !.secret = job[h].secret])
    /\ Become(h, [op |-> "change", at |-> "rotate", user |-> job[h].user, secret |-> job[h].secret])
    /\ UNCHANGED <<sessionVars, proof>>

\* Mutant: the next step would revoke the user.
StoreThenRevoke(h) ==
    /\ Changing(h, "store")
    /\ SetUserPassword(job[h].user, job[h].secret)
    /\ Become(h, [op |-> "change", at |-> "revoke", user |-> job[h].user, secret |-> job[h].secret])
    /\ UNCHANGED <<sessionVars, proof>>

StoreNewPassword(h) ==
    /\ Changing(h, "store")
    /\ SetUserPassword(job[h].user, job[h].secret)
    /\ Become(h, [op |-> "change", at |-> "rotate", user |-> job[h].user, secret |-> job[h].secret])
    /\ UNCHANGED <<sessionVars, proof>>

\* Mutant: the sessions of the moment are removed, the version stays.
RotateByInvalidating(h) ==
    /\ Changing(h, "rotate")
    /\ SM!InvalidateByUser(job[h].user)
    /\ Become(h, Idle)
    /\ UNCHANGED <<vars, proof>>

RotateSessions(h) ==
    /\ Changing(h, "rotate")
    /\ SM!RotateCredentials(job[h].user)
    /\ Become(h, Idle)
    /\ UNCHANGED <<vars, proof>>

\* The store answers ErrNotFound: the account was deleted meanwhile.
AccountGone(h) ==
    /\ Changing(h, "store")
    /\ job[h].user \notin DOMAIN users
    /\ Become(h, Idle)
    /\ UNCHANGED <<vars, sessionVars, proof>>

\* RequireAuth: sessions.Get, then GetUserByID; without a user the session is
\* invalidated and the request refused.
Enter(h, t) ==
    /\ SM!Live(t)
    /\ Begin(h, [op |-> "gate", token |-> t, user |-> sessions[t].user])

Admit(h) ==
    /\ Doing(h, "gate")
    /\ job[h].user \in DOMAIN users
    /\ Become(h, [op |-> "in", token |-> job[h].token, user |-> job[h].user,
                  role |-> users[job[h].user].role])
    /\ UNCHANGED <<vars, sessionVars, proof>>

Reject(h) ==
    /\ Doing(h, "gate")
    /\ job[h].user \notin DOMAIN users
    /\ SM!Invalidate(job[h].token)
    /\ Become(h, Idle)
    /\ UNCHANGED <<vars, proof>>

\* The routes behind RequireAdmin.  Only the copy of the caller is asked.
ByAdmin(h) == Doing(h, "in") /\ job[h].role = "admin"

CreateAccount(h, u, name, role, secret) ==
    /\ ByAdmin(h)
    /\ CreateUser(u, name, role, secret)
    /\ Become(h, Idle)
    /\ UNCHANGED <<sessionVars, proof>>

\* Mutant: an administrator may delete the account of the request.
DeleteAnyAccount(h, u) ==
    /\ ByAdmin(h)
    /\ DeleteUser(u)
    /\ Become(h, [op |-> "revoke", user |-> u])
    /\ UNCHANGED <<sessionVars, proof>>

\* Mutant: the name of a deleted account stays taken.
DeleteAccountKeepingName(h, u) ==
    /\ ByAdmin(h) /\ u # job[h].user
    /\ u \in DOMAIN users
    /\ users' = Drop(users, {u})
    /\ Become(h, [op |-> "revoke", user |-> u])
    /\ UNCHANGED <<username, notices, reads, readIdx, clock, issued, sessionVars, proof>>

\* DeleteUser: the account goes first, its sessions after it.
DeleteAccount(h, u) ==
    /\ ByAdmin(h) /\ u # job[h].user
    /\ DeleteUser(u)
    /\ Become(h, [op |-> "revoke", user |-> u])
    /\ UNCHANGED <<sessionVars, proof>>

\* Mutant: the sessions of the moment are removed, later ones are not prevented.
RevokeByInvalidating(h) ==
    /\ Doing(h, "revoke")
    /\ SM!InvalidateByUser(job[h].user)
    /\ Become(h, Idle)
    /\ UNCHANGED <<vars, proof>>

RevokeSessions(h) ==
    /\ Doing(h, "revoke")
    /\ SM!RevokeUser(job[h].user)
    /\ Become(h, Idle)
    /\ UNCHANGED <<vars, proof>>

LogOut(h) ==
    /\ Doing(h, "in")
    /\ SM!Invalidate(job[h].token)
    /\ Become(h, Idle)
    /\ UNCHANGED <<vars, proof>>

\* Any other route, and any request that is answered with an error.
Answer(h) ==
    /\ Doing(h, "in")
    /\ Become(h, Idle)
    /\ UNCHANGED <<vars, sessionVars, proof>>

\* The removal of an expired session by Get, the periodic cleanup of main.go
\* and the passing of time, each one step at any moment.
SessionStep ==
    /\ phase = "up"
    /\ \/ \E t \in DOMAIN sessions : (~SM!Live(t) /\ SM!Get(t)) \/ SM!Expire(t)
       \/ SM!CleanupExpired
    /\ UNCHANGED <<vars, processVars, job, served, proof>>

Finish(h) ==
    \/ \E t \in Token : FinishLogin(h, t)
    \/ LoginRefused(h)
    \/ StoreNewPassword(h) \/ RotateSessions(h) \/ AccountGone(h)
    \/ Admit(h) \/ Reject(h)
    \/ \E u \in UserId :
          \/ DeleteAccount(h, u)
          \/ \E name \in Username, role \in Role, secret \in Secret :
                CreateAccount(h, u, name, role, secret)
    \/ RevokeSessions(h)
    \/ LogOut(h) \/ Answer(h)

AnyBegin ==
    \E h \in Handler :
        \/ \E name \in Username : BeginLogin(h, name)
        \/ \E u \in UserId, secret \in Secret : BeginChange(h, u, secret)
        \/ \E t \in Token : Enter(h, t)

\* No request is under way and none arrives: the only way the system rests.
Quiet == (\A h \in Handler : job[h] = Idle) /\ UNCHANGED authVars

AuthNext ==
    \/ \E name \in SeedName : StartUp(name)
    \/ AnyBegin
    \/ \E h \in Handler : Finish(h)
    \/ SessionStep
    \/ Quiet

AuthSpec == AuthInit /\ [][AuthNext]_authVars

\* A handler's goroutine is scheduled, and nothing holds a lock for ever.
AuthFairness == \A h \in Handler : WF_authVars(Finish(h))

FairAuthSpec == AuthSpec /\ AuthFairness

-----------------------------------------------------------------------------
(* Properties *)

\* The handlers about to rotate the sessions of a user.
Rotating(u) == {h \in Handler : Changing(h, "rotate") /\ job[h].user = u}

\* What the session manager does on its own and the store on its own.
SessionManagerSpec == SM!Spec

\* Once its deletion is answered an account has no session, and the account
\* being gone no request can give it one, not even after a restart.
DeletedHaveNoSession ==
    \A t \in DOMAIN sessions :
        \/ sessions[t].user \in DOMAIN users
        \/ \E h \in Handler : Doing(h, "revoke") /\ job[h].user = sessions[t].user

\* In the first process: once a change of password is answered no session of
\* the old one is left, and no login that began with it can still make one.
OldPasswordEnded ==
    starts <= 1 => \A t \in DOMAIN sessions :
        LET u == sessions[t].user
        IN  u \in DOMAIN users /\ users[u].version # proof[t] => Rotating(u) # {}

\* In the first process: the stored version and the version logins must carry
\* differ by the rotations still to come, however many changes run at once.
VersionsInStep ==
    starts <= 1 => \A u \in DOMAIN users :
        users[u].version = SM!Version(u) + Cardinality(Rotating(u))

\* auth_service.go:150: between changes of password the two versions agree, so
\* that a login with the stored password is admitted.
NewPasswordAccepted ==
    \A u \in DOMAIN users :
        Rotating(u) = {} /\ u \notin revoked => SM!Admits(u, users[u].version)

\* No request deletes the account it came from, so the last administrator goes
\* only when two of them delete each other at once: the request that takes it
\* away was let in before its own caller was deleted.
LastAdminFallsToOverlap ==
    [][AdminExists /\ ~AdminExists' =>
          \E h \in Handler : ByAdmin(h) /\ job'[h] # job[h]
                             /\ job[h].user \notin DOMAIN users]_authVars

\* seed.go:31: a resident who has the seed's name does not keep the process
\* from getting its administrator; it comes up whatever the accounts are.
SeedingSucceeds == phase # "refused"

\* Every request is answered, also when its account is deleted under it.
EveryRequestAnswered == \A h \in Handler : job[h] # Idle ~> job[h] = Idle

=============================================================================
