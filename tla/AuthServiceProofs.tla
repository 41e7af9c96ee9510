--------------------------- MODULE AuthServiceProofs ---------------------------
(***************************************************************************)
(* Proofs about AuthService for every number of handlers, users, tokens,   *)
(* requests and starts: it uses the store and the session manager only as  *)
(* these allow, so that their invariants hold in it; a deleted account has *)
(* no session; in the first process the two counts of password changes     *)
(* differ by the rotations to come, and no session outlives its password;  *)
(* the last administrator falls to an overlap only.                        *)
(***************************************************************************)
EXTENDS AuthService, NoticeStoreProofs, FiniteSetTheorems

SMProofs == INSTANCE SessionManagerProofs

-----------------------------------------------------------------------------
(* The inductive invariant *)

BeingRevoked(u) == \E h \in Handler : Doing(h, "revoke") /\ job[h].user = u

\* An account that is there, or whose deletion is not answered yet.
Known(u) == u \in DOMAIN users \/ BeingRevoked(u)

\* A login that began before its account was deleted finds it revoked.
LoginsKnown ==
    \A h \in Handler : Doing(h, "login") => Known(job[h].user) \/ job[h].user \in revoked

SessionsKnown == \A t \in DOMAIN sessions : Known(sessions[t].user)

\* The copy of the caller has the role of the account as long as there is one,
\* and no other account gets its identifier.
CallersTrue ==
    \A h \in Handler : Doing(h, "in") =>
        /\ job[h].user \in issued
        /\ job[h].user \in DOMAIN users => users[job[h].user].role = job[h].role

VersionsBounded == \A u \in DOMAIN users : users[u].version \in 0 .. MaxVersion

AuthInv ==
    /\ StoreInv
    /\ SM!TypeOK
    /\ AuthTypeOK
    /\ VersionsBounded
    /\ LoginsKnown
    /\ SessionsKnown
    /\ CallersTrue

-----------------------------------------------------------------------------
(* The steps of the service are steps of the two parts *)

\* What a job holds, by its kind.
LEMMA JobFields ==
    ASSUME AuthTypeOK, NEW h \in Handler
    PROVE  /\ Doing(h, "login") => job[h].user \in UserId /\ job[h].version \in 0 .. MaxVersion
           /\ Doing(h, "change") => job[h].user \in UserId /\ job[h].secret \in Secret
           /\ Doing(h, "gate") => job[h].user \in UserId /\ job[h].token \in Token
           /\ Doing(h, "in") => /\ job[h].user \in UserId /\ job[h].token \in Token
                                /\ job[h].role \in Role
           /\ Doing(h, "revoke") => job[h].user \in UserId
  <1>1. job[h] \in Jobs
    BY DEF AuthTypeOK
  <1> QED  BY <1>1 DEF Jobs, Idle, Doing

\* Every step is one of the store's, or does not touch it.
LEMMA StoreSteps ==
    ASSUME AuthTypeOK, [AuthNext]_authVars
    PROVE  [Next]_vars
  <1>1. ASSUME NEW name \in SeedName, StartUp(name)
        PROVE  [Next]_vars
    <2>1. name \in Username /\ "admin" \in Role
      BY BoundsOK DEF Role
    <2> QED  BY <1>1, <2>1 DEF StartUp, SeedAdmin, Next, UserOp
  <1>2. CASE AnyBegin
    BY <1>2 DEF AnyBegin, BeginLogin, BeginChange, Enter, Begin
  <1>3. ASSUME NEW h \in Handler, Finish(h)
        PROVE  [Next]_vars
    <2>1. ASSUME NEW u \in UserId, DeleteAccount(h, u)
          PROVE  [Next]_vars
      BY <2>1 DEF DeleteAccount, Next, UserOp
    <2>2. ASSUME NEW u \in UserId, NEW name \in Username, NEW role \in Role, NEW secret \in Secret,
                 CreateAccount(h, u, name, role, secret)
          PROVE  [Next]_vars
      BY <2>2 DEF CreateAccount, Next, UserOp
    <2>3. CASE StoreNewPassword(h)
      BY <2>3, JobFields DEF StoreNewPassword, Changing, Next, UserOp
    <2>4. CASE \/ \E t \in Token : FinishLogin(h, t)
               \/ LoginRefused(h) \/ RotateSessions(h) \/ AccountGone(h) \/ Admit(h)
               \/ Reject(h) \/ RevokeSessions(h) \/ LogOut(h) \/ Answer(h)
      BY <2>4 DEF FinishLogin, LoginRefused, RotateSessions, AccountGone, Admit, Reject,
                  RevokeSessions, LogOut, Answer
    <2> QED  BY <1>3, <2>1, <2>2, <2>3, <2>4 DEF Finish
  <1>4. CASE SessionStep \/ Quiet \/ UNCHANGED authVars
    BY <1>4 DEF SessionStep, Quiet, authVars
  <1> QED  BY <1>1, <1>2, <1>3, <1>4 DEF AuthNext

\* Every step is one of the session manager's, or does not touch it.
LEMMA SessionSteps ==
    ASSUME AuthTypeOK, SM!TypeOK, [AuthNext]_authVars
    PROVE  [SM!Next]_sessionVars
  <1>1. ASSUME NEW name \in SeedName, StartUp(name)
        PROVE  SM!Next
    BY <1>1 DEF StartUp, SM!Next
  <1>2. CASE AnyBegin
    BY <1>2 DEF AnyBegin, BeginLogin, BeginChange, Enter, Begin
  <1>3. ASSUME NEW h \in Handler, Finish(h)
        PROVE  [SM!Next]_sessionVars
    <2>1. ASSUME NEW t \in Token, FinishLogin(h, t)
          PROVE  SM!Next
      BY <2>1, JobFields DEF FinishLogin, SM!Next
    <2>2. CASE RotateSessions(h)
      BY <2>2, JobFields DEF RotateSessions, Changing, SM!Next
    <2>3. CASE Reject(h)
      BY <2>3, JobFields DEF Reject, SM!Next
    <2>4. CASE RevokeSessions(h)
      BY <2>4, JobFields DEF RevokeSessions, SM!Next
    <2>5. CASE LogOut(h)
      BY <2>5, JobFields DEF LogOut, SM!Next
    <2>6. CASE \/ LoginRefused(h) \/ StoreNewPassword(h) \/ AccountGone(h) \/ Admit(h) \/ Answer(h)
               \/ \E u \in UserId : DeleteAccount(h, u)
               \/ \E u \in UserId, name \in Username, role \in Role, secret \in Secret :
                     CreateAccount(h, u, name, role, secret)
      BY <2>6 DEF LoginRefused, StoreNewPassword, AccountGone, Admit, Answer, DeleteAccount,
                  CreateAccount
    <2> QED  BY <1>3, <2>1, <2>2, <2>3, <2>4, <2>5, <2>6 DEF Finish
  <1>4. CASE SessionStep
    <2>1. DOMAIN sessions \subseteq Token
      BY DEF SM!TypeOK
    <2> QED  BY <1>4, <2>1 DEF SessionStep, SM!Next
  <1>5. CASE Quiet \/ UNCHANGED authVars
    BY <1>5 DEF Quiet, authVars
  <1> QED  BY <1>1, <1>2, <1>3, <1>4, <1>5 DEF AuthNext

-----------------------------------------------------------------------------
(* Types *)

\* The session manager's maps keep their kinds.
LEMMA SessionManagerType ==
    ASSUME AuthTypeOK, SM!TypeOK, [AuthNext]_authVars
    PROVE  SM!TypeOK'
  <1>1. [SM!Next]_sessionVars
    BY SessionSteps
  <1>2. [SMProofs!Next]_SMProofs!vars
    BY <1>1 DEF
       sessionVars, SM!Next, SMProofs!Next, SM!Create, SMProofs!Create, SM!Get,
       SMProofs!Get, SM!Invalidate, SMProofs!Invalidate, SM!Expire, SMProofs!Expire,
       SM!RotateCredentials, SMProofs!RotateCredentials, SM!RevokeUser, SMProofs!RevokeUser,
       SM!InvalidateByUser, SMProofs!InvalidateByUser, SM!CleanupExpired,
       SMProofs!CleanupExpired, SM!Restart, SMProofs!Restart, SM!Admits, SMProofs!Admits,
       SM!Version, SMProofs!Version, SM!Live, SMProofs!Live, SM!SessionsOf,
       SMProofs!SessionsOf, SM!vars, SMProofs!vars, SM!Put, SMProofs!Put, SM!Drop,
       SMProofs!Drop, SM!Restrict, SMProofs!Restrict, SM!EmptyMap, SMProofs!EmptyMap
  <1>3. SMProofs!TypeOK
    BY DEF SMProofs!TypeOK, SM!TypeOK, SMProofs!Session, SM!Session
  <1>4. SMProofs!TypeOK'
    BY <1>2, <1>3, SMProofs!NextType
  <1> QED  BY <1>4 DEF SMProofs!TypeOK, SM!TypeOK, SMProofs!Session, SM!Session

\* The users change when an account is created or deleted or its password is
\* stored, and in no other step.
LEMMA UsersSteps ==
    ASSUME AuthTypeOK, [AuthNext]_authVars
    PROVE  \/ users' = users /\ issued' = issued
           \/ \E u \in UserId, name \in Username, role \in Role, secret \in Secret :
                 CreateUser(u, name, role, secret)
           \/ \E h \in Handler : StoreNewPassword(h)
           \/ \E h \in Handler, u \in UserId : DeleteAccount(h, u)
  <1>1. ASSUME NEW name \in SeedName, StartUp(name)
        PROVE  \/ users' = users /\ issued' = issued
               \/ \E u \in UserId, role \in Role, secret \in Secret :
                     CreateUser(u, name, role, secret)
    BY <1>1 DEF StartUp, SeedAdmin, vars, Role
  <1>2. CASE AnyBegin
    BY <1>2 DEF AnyBegin, BeginLogin, BeginChange, Enter, Begin, vars
  <1>3. ASSUME NEW h \in Handler, Finish(h)
        PROVE  \/ users' = users /\ issued' = issued
               \/ \E u \in UserId, name \in Username, role \in Role, secret \in Secret :
                     CreateAccount(h, u, name, role, secret)
               \/ StoreNewPassword(h)
               \/ \E u \in UserId : DeleteAccount(h, u)
    BY <1>3 DEF Finish, FinishLogin, LoginRefused, RotateSessions, AccountGone, Admit, Reject,
                RevokeSessions, LogOut, Answer, vars
  <1>4. CASE SessionStep \/ Quiet \/ UNCHANGED authVars
    BY <1>4 DEF SessionStep, Quiet, authVars, vars
  <1>5. ASSUME NEW h \in Handler, NEW u \in UserId, NEW name \in Username, NEW role \in Role,
               NEW secret \in Secret, CreateAccount(h, u, name, role, secret)
        PROVE  CreateUser(u, name, role, secret)
    BY <1>5 DEF CreateAccount
  <1> QED  BY <1>1, <1>2, <1>3, <1>4, <1>5, BoundsOK DEF AuthNext

\* A handler's job changes when the handler takes a step or the process starts.
LEMMA BeginSteps ==
    ASSUME AuthTypeOK, [AuthNext]_authVars, NEW h \in Handler, job'[h] # job[h]
    PROVE  \/ Finish(h)
           \/ \E name \in SeedName : StartUp(name)
           \/ \E name \in Username : BeginLogin(h, name)
           \/ \E u \in UserId, secret \in Secret : BeginChange(h, u, secret)
           \/ \E t \in Token : Enter(h, t)
  <1> job \in [Handler -> Jobs]
    BY DEF AuthTypeOK
  <1>1. ASSUME NEW g \in Handler, NEW j, job' = [job EXCEPT ![g] = j]
        PROVE  g = h
    BY <1>1
  <1>2. ASSUME NEW g \in Handler, Finish(g)
        PROVE  g = h
    BY <1>1, <1>2 DEF Finish, Become, FinishLogin, LoginRefused, StoreNewPassword, RotateSessions,
                      AccountGone, Admit, Reject, DeleteAccount, CreateAccount, RevokeSessions,
                      LogOut, Answer
  <1>3. ASSUME NEW g \in Handler, NEW j, Begin(g, j)
        PROVE  g = h
    BY <1>1, <1>3 DEF Begin
  <1>4. CASE AnyBegin
    BY <1>3, <1>4 DEF AnyBegin, BeginLogin, BeginChange, Enter
  <1>5. ~(SessionStep \/ Quiet \/ UNCHANGED authVars)
    BY DEF SessionStep, Quiet, authVars
  <1> QED  BY <1>2, <1>4, <1>5 DEF AuthNext

\* A change or a gate begins where there is no request, before its first step.
LEMMA JobSteps ==
    ASSUME AuthTypeOK, [AuthNext]_authVars, NEW h \in Handler, job'[h] # job[h]
    PROVE  \/ Finish(h)
           \/ \E name \in SeedName : StartUp(name)
           \/ \E name \in Username : BeginLogin(h, name)
           \/ job[h] = Idle /\ job'[h].op \in {"change", "gate"} /\ ~Changing(h, "rotate")'
  <1> job \in [Handler -> Jobs]
    BY DEF AuthTypeOK
  <1>1. ASSUME NEW u \in UserId, NEW secret \in Secret, BeginChange(h, u, secret)
        PROVE  job[h] = Idle /\ job'[h].op = "change" /\ ~Changing(h, "rotate")'
    BY <1>1 DEF BeginChange, Begin, Changing
  <1>2. ASSUME NEW t \in Token, Enter(h, t)
        PROVE  job[h] = Idle /\ job'[h].op = "gate" /\ ~Changing(h, "rotate")'
    BY <1>2 DEF Enter, Begin, Changing, Doing
  <1> QED  BY <1>1, <1>2, BeginSteps

\* The version a request can read is one the bound lets the store hand out.
LEMMA VersionsStep ==
    ASSUME AuthInv, [AuthNext]_authVars
    PROVE  VersionsBounded'
  <1> MaxVersion \in Nat /\ TypeOK
    BY ConstantsOK DEF AuthInv, StoreInv
  <1>1. ASSUME NEW u \in UserId, NEW name, NEW role, NEW secret, CreateUser(u, name, role, secret)
        PROVE  VersionsBounded'
    BY <1>1 DEF CreateUser, Put, AuthInv, VersionsBounded
  <1>2. ASSUME NEW u, NEW secret, SetUserPassword(u, secret)
        PROVE  VersionsBounded'
    BY <1>2 DEF SetUserPassword, AuthInv, VersionsBounded
  <1>3. ASSUME NEW u \in UserId, DeleteUser(u)
        PROVE  VersionsBounded'
    BY <1>3 DEF DeleteUser, Drop, Restrict, AuthInv, VersionsBounded
  <1>4. CASE users' = users
    BY <1>4 DEF AuthInv, VersionsBounded
  <1> QED
    BY <1>1, <1>2, <1>3, <1>4, UsersSteps DEF AuthInv, StoreNewPassword, DeleteAccount

\* AuthTypeOK is kept.
LEMMA AuthTypeStep ==
    ASSUME AuthInv, [AuthNext]_authVars
    PROVE  AuthTypeOK'
  <1> /\ AuthTypeOK /\ TypeOK /\ UsernameIndexExact /\ SM!TypeOK
      /\ MaxRequests \in Nat /\ MaxStarts \in Nat /\ MaxVersion \in Nat
    BY BoundsOK, ConstantsOK DEF AuthInv, StoreInv
  <1>1. ASSUME NEW h \in Handler, NEW j \in Jobs, job' = [job EXCEPT ![h] = j]
        PROVE  job' \in [Handler -> Jobs]
    BY <1>1 DEF AuthTypeOK
  <1>2. ASSUME NEW name \in SeedName, StartUp(name)
        PROVE  AuthTypeOK'
    BY <1>2 DEF StartUp, SeedAdmin, SM!Restart, AuthTypeOK, Jobs
  <1>3. ASSUME NEW h \in Handler, NEW j \in Jobs, Begin(h, j)
        PROVE  AuthTypeOK'
    BY <1>1, <1>3 DEF Begin, AuthTypeOK, processVars, sessionVars
  <1>4. ASSUME NEW h \in Handler, NEW j \in Jobs, Become(h, j), UNCHANGED <<proof, minted>>
        PROVE  AuthTypeOK'
    BY <1>1, <1>4 DEF Become, AuthTypeOK, processVars
  <1>5. CASE AnyBegin
    <2>1. ASSUME NEW h \in Handler, NEW name \in Username, BeginLogin(h, name)
          PROVE  AuthTypeOK'
      <3> DEFINE u == username[name]
      <3>1. u \in DOMAIN users /\ u \in UserId
        BY <2>1 DEF BeginLogin, UsernameIndexExact, TypeOK
      <3>2. [op |-> "login", user |-> u, version |-> users[u].version] \in Jobs
        BY <3>1 DEF Jobs, AuthInv, VersionsBounded
      <3> QED  BY <1>3, <2>1, <3>2 DEF BeginLogin
    <2>2. ASSUME NEW h \in Handler, NEW u \in UserId, NEW secret \in Secret, BeginChange(h, u, secret)
          PROVE  AuthTypeOK'
      <3>1. [op |-> "change", at |-> "store", user |-> u, secret |-> secret] \in Jobs
        BY DEF Jobs
      <3> QED  BY <1>3, <2>2, <3>1 DEF BeginChange
    <2>3. ASSUME NEW h \in Handler, NEW t \in Token, Enter(h, t)
          PROVE  AuthTypeOK'
      <3>1. sessions[t].user \in UserId
        BY <2>3 DEF Enter, SM!Live, SM!TypeOK, SM!Session
      <3>2. [op |-> "gate", token |-> t, user |-> sessions[t].user] \in Jobs
        BY <3>1 DEF Jobs
      <3> QED  BY <1>3, <2>3, <3>2 DEF Enter
    <2> QED  BY <1>5, <2>1, <2>2, <2>3 DEF AnyBegin
  <1>6. ASSUME NEW h \in Handler, Finish(h)
        PROVE  AuthTypeOK'
    <2>1. Idle \in Jobs
      BY DEF Jobs
    <2>2. ASSUME NEW t \in Token, FinishLogin(h, t)
          PROVE  AuthTypeOK'
      <3>1. job[h].version \in Nat
        BY <2>2, JobFields DEF FinishLogin
      <3>2. DOMAIN proof' = minted' /\ \A s \in minted' : proof'[s] \in Nat
        BY <2>2, <3>1 DEF FinishLogin, SM!Create, Put, AuthTypeOK
      <3> QED  BY <1>1, <2>1, <2>2, <3>2 DEF FinishLogin, Become, AuthTypeOK, processVars
    <2>3. CASE StoreNewPassword(h)
      <3>1. [op |-> "change", at |-> "rotate", user |-> job[h].user, secret |-> job[h].secret] \in Jobs
        BY <2>3, JobFields DEF StoreNewPassword, Changing, Jobs
      <3> QED  BY <1>4, <2>3, <3>1 DEF StoreNewPassword, sessionVars
    <2>4. CASE Admit(h)
      <3>1. job[h].user \in UserId /\ job[h].token \in Token
        BY <2>4, JobFields DEF Admit
      <3>2. users[job[h].user].role \in Role
        BY <2>4 DEF Admit, TypeOK, User
      <3>3. [op |-> "in", token |-> job[h].token, user |-> job[h].user,
             role |-> users[job[h].user].role] \in Jobs
        BY <3>1, <3>2 DEF Jobs
      <3> QED  BY <1>4, <2>4, <3>3 DEF Admit, sessionVars
    <2>5. ASSUME NEW u \in UserId, DeleteAccount(h, u)
          PROVE  AuthTypeOK'
      <3>1. [op |-> "revoke", user |-> u] \in Jobs
        BY DEF Jobs
      <3> QED  BY <1>4, <2>5, <3>1 DEF DeleteAccount, sessionVars
    <2>6. CASE /\ Become(h, Idle)
               /\ UNCHANGED <<proof, minted>>
      BY <1>4, <2>1, <2>6
    <2> QED
      BY <1>6, <2>2, <2>3, <2>4, <2>5, <2>6
         DEF Finish, LoginRefused, RotateSessions, AccountGone, Reject, CreateAccount,
             RevokeSessions, LogOut, Answer, sessionVars, SM!RotateCredentials, SM!Invalidate,
             SM!RevokeUser
  <1>7. CASE SessionStep
    BY <1>7 DEF SessionStep, AuthTypeOK, processVars, SM!Get, SM!Expire, SM!CleanupExpired
  <1>8. CASE Quiet \/ UNCHANGED authVars
    BY <1>8 DEF Quiet, authVars, AuthTypeOK, processVars, sessionVars
  <1> QED  BY <1>2, <1>5, <1>6, <1>7, <1>8 DEF AuthNext

-----------------------------------------------------------------------------
(* Deleted accounts *)

\* An account is known until its sessions are revoked or the process ends.
LEMMA KnownStep ==
    ASSUME AuthTypeOK, [AuthNext]_authVars, NEW u, Known(u)
    PROVE  \/ Known(u)'
           \/ \E name \in SeedName : StartUp(name)
           \/ \E h \in Handler : RevokeSessions(h) /\ job[h].user = u
  <1>1. CASE u \in DOMAIN users
    <2>1. ASSUME NEW v \in UserId, NEW name, NEW role, NEW secret, CreateUser(v, name, role, secret)
          PROVE  u \in DOMAIN users'
      BY <1>1, <2>1 DEF CreateUser, Put
    <2>2. ASSUME NEW h \in Handler, StoreNewPassword(h)
          PROVE  u \in DOMAIN users'
      BY <1>1, <2>2 DEF StoreNewPassword, SetUserPassword
    <2>3. ASSUME NEW h \in Handler, NEW v \in UserId, DeleteAccount(h, v)
          PROVE  Known(u)'
      <3>1. CASE u = v
        BY <2>3, <3>1 DEF DeleteAccount, Become, Known, BeingRevoked, Doing, AuthTypeOK
      <3>2. CASE u # v
        BY <1>1, <2>3, <3>2 DEF DeleteAccount, DeleteUser, Drop, Restrict, Known
      <3> QED  BY <3>1, <3>2
    <2> QED  BY <1>1, <2>1, <2>2, <2>3, UsersSteps DEF Known
  <1>2. ASSUME NEW h \in Handler, Doing(h, "revoke"), job[h].user = u
        PROVE  \/ Known(u)'
               \/ \E name \in SeedName : StartUp(name)
               \/ RevokeSessions(h)
    <2>1. CASE job'[h] = job[h]
      BY <1>2, <2>1 DEF Known, BeingRevoked, Doing
    <2>2. ASSUME Finish(h)
          PROVE  RevokeSessions(h)
      BY <1>2, <2>2 DEF Finish, Doing, Changing, ByAdmin, FinishLogin, LoginRefused,
                        StoreNewPassword, RotateSessions, AccountGone, Admit, Reject,
                        DeleteAccount, CreateAccount, LogOut, Answer
    <2>3. ASSUME NEW name \in Username, BeginLogin(h, name)
          PROVE  FALSE
      BY <1>2, <2>3 DEF BeginLogin, Begin, Doing, Idle
    <2>4. job[h] # Idle
      BY <1>2 DEF Doing, Idle
    <2> QED  BY <2>1, <2>2, <2>3, <2>4, JobSteps
  <1> QED  BY <1>1, <1>2 DEF Known, BeingRevoked

\* Within one process a revoked user stays revoked.
LEMMA RevokedGrow ==
    ASSUME AuthTypeOK, [AuthNext]_authVars, ~ \E name \in SeedName : StartUp(name)
    PROVE  revoked \subseteq revoked'
  <1>1. CASE AnyBegin
    BY <1>1 DEF AnyBegin, BeginLogin, BeginChange, Enter, Begin, sessionVars
  <1>2. ASSUME NEW h \in Handler, Finish(h)
        PROVE  revoked \subseteq revoked'
    BY <1>2 DEF Finish, FinishLogin, LoginRefused, StoreNewPassword, RotateSessions, AccountGone,
                Admit, Reject, DeleteAccount, CreateAccount, RevokeSessions, LogOut, Answer,
                sessionVars, SM!Create, SM!RotateCredentials, SM!Invalidate, SM!RevokeUser
  <1>3. CASE SessionStep
    BY <1>3 DEF SessionStep, SM!Get, SM!Expire, SM!CleanupExpired
  <1>4. CASE Quiet \/ UNCHANGED authVars
    BY <1>4 DEF Quiet, authVars, sessionVars
  <1> QED  BY <1>1, <1>2, <1>3, <1>4 DEF AuthNext

\* A login under way knows its account, or will be refused.
LEMMA LoginsStep ==
    ASSUME AuthInv, [AuthNext]_authVars
    PROVE  LoginsKnown'
  <1> /\ AuthTypeOK /\ UsernameIndexExact /\ LoginsKnown /\ SM!TypeOK
    BY DEF AuthInv, StoreInv
  <1> SUFFICES ASSUME NEW h \in Handler, Doing(h, "login")'
               PROVE  Known(job[h].user)' \/ job'[h].user \in revoked'
    BY DEF LoginsKnown
  <1>1. ~ \E name \in SeedName : StartUp(name)
    BY DEF StartUp, Doing, Idle
  <1>2. CASE job'[h] = job[h]
    <2> DEFINE u == job[h].user
    <2>1. Known(u) \/ u \in revoked
      BY <1>2 DEF LoginsKnown, Doing
    <2>2. revoked \subseteq revoked'
      BY <1>1, RevokedGrow
    <2>3. ASSUME NEW g \in Handler, RevokeSessions(g), job[g].user = u
          PROVE  u \in revoked'
      BY <2>3 DEF RevokeSessions, SM!RevokeUser
    <2> QED  BY <1>1, <1>2, <2>1, <2>2, <2>3, KnownStep
  <1>3. ASSUME NEW name \in Username, BeginLogin(h, name)
        PROVE  Known(job[h].user)'
    <2>1. job'[h].user = username[name] /\ users' = users
      BY <1>3 DEF BeginLogin, Begin, AuthTypeOK, vars
    <2>2. username[name] \in DOMAIN users
      BY <1>3 DEF BeginLogin, UsernameIndexExact
    <2> QED  BY <2>1, <2>2 DEF Known
  <1>4. ~Finish(h)
    BY DEF Finish, Become, Doing, Idle, AuthTypeOK, FinishLogin, LoginRefused, StoreNewPassword,
           RotateSessions, AccountGone, Admit, Reject, DeleteAccount, CreateAccount,
           RevokeSessions, LogOut, Answer
  <1> QED  BY <1>1, <1>2, <1>3, <1>4, JobSteps DEF Doing

\* Apart from logins and starts of the process sessions only go.
LEMMA SessionsOnlyFewer ==
    ASSUME AuthTypeOK, SM!TypeOK, [AuthNext]_authVars,
           ~ \E name \in SeedName : StartUp(name),
           ~ \E h \in Handler, t \in Token : FinishLogin(h, t)
    PROVE  /\ DOMAIN sessions' \subseteq DOMAIN sessions
           /\ \A t \in DOMAIN sessions' : sessions'[t].user = sessions[t].user
  <1>1. ASSUME NEW gone, sessions' = SM!Drop(sessions, gone)
        PROVE  /\ DOMAIN sessions' \subseteq DOMAIN sessions
               /\ \A t \in DOMAIN sessions' : sessions'[t].user = sessions[t].user
    BY <1>1 DEF SM!Drop, SM!Restrict
  <1>2. CASE UNCHANGED sessions
    BY <1>2
  <1>3. ASSUME NEW t, SM!Expire(t)
        PROVE  /\ DOMAIN sessions' \subseteq DOMAIN sessions
               /\ \A s \in DOMAIN sessions' : sessions'[s].user = sessions[s].user
    BY <1>3 DEF SM!Expire, SM!TypeOK
  <1>4. CASE SessionStep
    BY <1>1, <1>2, <1>3, <1>4 DEF SessionStep, SM!Get, SM!CleanupExpired
  <1>5. CASE AnyBegin
    BY <1>2, <1>5 DEF AnyBegin, BeginLogin, BeginChange, Enter, Begin, sessionVars
  <1>6. ASSUME NEW h \in Handler, Finish(h)
        PROVE  /\ DOMAIN sessions' \subseteq DOMAIN sessions
               /\ \A t \in DOMAIN sessions' : sessions'[t].user = sessions[t].user
    BY <1>1, <1>2, <1>6
       DEF Finish, LoginRefused, StoreNewPassword, RotateSessions, AccountGone, Admit, Reject,
           DeleteAccount, CreateAccount, RevokeSessions, LogOut, Answer, sessionVars,
           SM!RotateCredentials, SM!Invalidate, SM!RevokeUser
  <1>7. CASE Quiet \/ UNCHANGED authVars
    BY <1>2, <1>7 DEF Quiet, authVars, sessionVars
  <1> QED  BY <1>4, <1>5, <1>6, <1>7 DEF AuthNext

\* A session is made for an account that is known, and ended with it.
LEMMA SessionsStep ==
    ASSUME AuthInv, [AuthNext]_authVars
    PROVE  SessionsKnown'
  <1> /\ AuthTypeOK /\ LoginsKnown /\ SessionsKnown /\ SM!TypeOK
    BY DEF AuthInv
  <1>1. ASSUME NEW name \in SeedName, StartUp(name)
        PROVE  SessionsKnown'
    BY <1>1 DEF StartUp, SM!Restart, SM!EmptyMap, SessionsKnown
  <1>2. ASSUME NEW h \in Handler, NEW t \in Token, FinishLogin(h, t)
        PROVE  SessionsKnown'
    <2>1. \A v : Known(v) => Known(v)'
      BY <1>2 DEF FinishLogin, Become, Known, BeingRevoked, Doing, AuthTypeOK, vars
    <2>2. Known(job[h].user)
      BY <1>2 DEF FinishLogin, SM!Create, SM!Admits, LoginsKnown
    <2>3. sessions' = Put(sessions, t, [user |-> job[h].user, expired |-> FALSE])
      BY <1>2 DEF FinishLogin, SM!Create, Put, SM!Put
    <2>4. \A s \in DOMAIN sessions' :
             \/ s \in DOMAIN sessions /\ sessions'[s] = sessions[s]
             \/ sessions'[s].user = job[h].user
      BY <2>3 DEF Put
    <2> QED  BY <2>1, <2>2, <2>4 DEF SessionsKnown
  <1>3. CASE /\ ~ \E name \in SeedName : StartUp(name)
             /\ ~ \E h \in Handler, t \in Token : FinishLogin(h, t)
    <2>1. /\ DOMAIN sessions' \subseteq DOMAIN sessions
          /\ \A t \in DOMAIN sessions' : sessions'[t].user = sessions[t].user
      BY <1>3, SessionsOnlyFewer
    <2>2. ASSUME NEW h \in Handler, RevokeSessions(h), NEW t \in DOMAIN sessions'
          PROVE  sessions'[t].user # job[h].user
      BY <2>2 DEF RevokeSessions, SM!RevokeUser, SM!SessionsOf, SM!Drop, SM!Restrict
    <2> QED  BY <1>3, <2>1, <2>2, KnownStep DEF SessionsKnown
  <1> QED  BY <1>1, <1>2, <1>3

-----------------------------------------------------------------------------
(* Administrators *)

\* Accounts keep their role, and a new one is a new identifier.
LEMMA RolesStay ==
    ASSUME AuthInv, [AuthNext]_authVars
    PROVE  /\ issued \subseteq issued'
           /\ \A u \in DOMAIN users' :
                 \/ u \notin issued
                 \/ u \in DOMAIN users /\ users'[u].role = users[u].role
  <1> AuthTypeOK /\ TypeOK
    BY DEF AuthInv, StoreInv
  <1>1. ASSUME NEW u \in UserId, NEW name, NEW role, NEW secret, CreateUser(u, name, role, secret)
        PROVE  /\ issued \subseteq issued'
               /\ \A v \in DOMAIN users' :
                     \/ v \notin issued
                     \/ v \in DOMAIN users /\ users'[v].role = users[v].role
    BY <1>1 DEF CreateUser, Put
  <1>2. ASSUME NEW h \in Handler, StoreNewPassword(h)
        PROVE  /\ issued' = issued
               /\ \A v \in DOMAIN users' :
                     v \in DOMAIN users /\ users'[v].role = users[v].role
    BY <1>2 DEF StoreNewPassword, SetUserPassword, TypeOK
  <1>3. ASSUME NEW h \in Handler, NEW u \in UserId, DeleteAccount(h, u)
        PROVE  /\ issued' = issued
               /\ \A v \in DOMAIN users' :
                     v \in DOMAIN users /\ users'[v].role = users[v].role
    BY <1>3 DEF DeleteAccount, DeleteUser, Drop, Restrict
  <1> QED  BY <1>1, <1>2, <1>3, UsersSteps

\* The copy of the caller keeps telling the truth about an account that is
\* there: roles do not change and identifiers are not given twice.
LEMMA CallersStep ==
    ASSUME AuthInv, [AuthNext]_authVars
    PROVE  CallersTrue'
  <1> /\ AuthTypeOK /\ TypeOK /\ Fresh /\ CallersTrue
    BY DEF AuthInv, StoreInv
  <1>1. /\ issued \subseteq issued'
        /\ \A u \in DOMAIN users' :
              \/ u \notin issued
              \/ u \in DOMAIN users /\ users'[u].role = users[u].role
    BY RolesStay
  <1> SUFFICES ASSUME NEW h \in Handler, Doing(h, "in")'
               PROVE  /\ job'[h].user \in issued'
                      /\ job'[h].user \in DOMAIN users' =>
                            users'[job'[h].user].role = job'[h].role
    BY DEF CallersTrue
  <1>2. CASE job'[h] = job[h]
    BY <1>1, <1>2 DEF CallersTrue, Doing
  <1>3. CASE Admit(h)
    <2>1. /\ job'[h].user = job[h].user /\ job'[h].role = users[job[h].user].role
          /\ users' = users /\ issued' = issued /\ job[h].user \in DOMAIN users
      BY <1>3 DEF Admit, Become, AuthTypeOK, vars
    <2> QED  BY <2>1 DEF Fresh
  <1>4. Finish(h) => Admit(h)
    BY DEF Finish, Become, Doing, Idle, AuthTypeOK, FinishLogin, LoginRefused, StoreNewPassword,
           RotateSessions, AccountGone, Reject, DeleteAccount, CreateAccount, RevokeSessions,
           LogOut, Answer
  <1>5. /\ ~ \E name \in SeedName : StartUp(name)
        /\ ~ \E name \in Username : BeginLogin(h, name)
    BY DEF StartUp, BeginLogin, Begin, Doing, Idle, AuthTypeOK
  <1> QED  BY <1>2, <1>3, <1>4, <1>5, JobSteps DEF Doing

-----------------------------------------------------------------------------
(* Credential versions.  The user records and the session manager count the *)
(* changes of a password separately; these facts relate the two counts.     *)

\* Nothing is there before the first start.
RestBefore ==
    starts = 0 => /\ phase = "down"
                  /\ users = EmptyMap /\ sessions = EmptyMap
                  /\ \A h \in Handler : job[h] = Idle

\* Whoever a session, a version or a request names was given an identifier, so
\* that a new account finds nothing that is said of its own.
UsersIssued ==
    /\ DOMAIN versions \subseteq issued
    /\ \A t \in DOMAIN sessions : sessions[t].user \in issued
    /\ \A h \in Handler : job[h] # Idle => job[h].user \in issued

\* However many handlers there are, finitely many of them are at work.
RotatingFinite == \A u \in UserId : IsFiniteSet(Rotating(u))

\* The version of a copy is one the account has had.
LoginsNotAhead ==
    \A h \in Handler :
        Doing(h, "login") /\ job[h].user \in DOMAIN users
        => job[h].version <= users[job[h].user].version

VersionsInv ==
    /\ AuthInv
    /\ RestBefore
    /\ UsersIssued
    /\ RotatingFinite
    /\ LoginsNotAhead
    /\ VersionsInStep
    /\ OldPasswordEnded

\* In every step but a start, a change of a password stored and sessions rotated.
Elsewhere(u) ==
    /\ ~ \E name \in SeedName : StartUp(name)
    /\ ~ \E h \in Handler : job[h].user = u /\ (StoreNewPassword(h) \/ RotateSessions(h))

\* Only storing a password adds to those about to rotate, only rotating takes away.
LEMMA RotatingSame ==
    ASSUME AuthTypeOK, [AuthNext]_authVars, NEW u, Elsewhere(u)
    PROVE  Rotating(u)' = Rotating(u)
  <1> job \in [Handler -> Jobs]
    BY DEF AuthTypeOK
  <1> SUFFICES ASSUME NEW h \in Handler, job'[h] # job[h]
               PROVE  /\ ~(Changing(h, "rotate") /\ job[h].user = u)
                      /\ ~(Changing(h, "rotate")' /\ job'[h].user = u)
    BY DEF Rotating, Changing, Doing
  <1>1. ~ \E name \in SeedName : StartUp(name)
    BY DEF Elsewhere
  <1>2. ASSUME NEW name \in Username, BeginLogin(h, name)
        PROVE  ~Changing(h, "rotate") /\ ~Changing(h, "rotate")'
    BY <1>2 DEF BeginLogin, Begin, Changing, Doing, Idle
  <1>3. CASE job[h] = Idle /\ job'[h].op \in {"change", "gate"} /\ ~Changing(h, "rotate")'
    BY <1>3 DEF Changing, Doing, Idle
  <1>4. CASE StoreNewPassword(h) \/ RotateSessions(h)
    <2>1. job[h].user # u
      BY <1>4 DEF Elsewhere
    <2>2. CASE StoreNewPassword(h)
      BY <2>1, <2>2 DEF StoreNewPassword, Become
    <2>3. CASE RotateSessions(h)
      BY <2>1, <2>3 DEF RotateSessions, Become, Changing, Doing, Idle
    <2> QED  BY <1>4, <2>2, <2>3
  <1>5. CASE Finish(h) /\ ~(StoreNewPassword(h) \/ RotateSessions(h))
    BY <1>5 DEF Finish, Become, Changing, Doing, ByAdmin, Idle, FinishLogin, LoginRefused,
                AccountGone, Admit, Reject, DeleteAccount, CreateAccount, RevokeSessions, LogOut,
                Answer
  <1> QED  BY <1>1, <1>2, <1>3, <1>4, <1>5, JobSteps

\* Rotating and starting are all that touches the versions logins must carry.
LEMMA VersionsOnlyRotated ==
    ASSUME AuthTypeOK, [AuthNext]_authVars
    PROVE  \/ versions' = versions
           \/ \E name \in SeedName : StartUp(name)
           \/ \E h \in Handler : RotateSessions(h)
  <1>1. ASSUME NEW h \in Handler, Finish(h), ~RotateSessions(h)
        PROVE  versions' = versions
    BY <1>1 DEF Finish, FinishLogin, LoginRefused, StoreNewPassword, AccountGone, Admit, Reject,
                DeleteAccount, CreateAccount, RevokeSessions, LogOut, Answer, sessionVars,
                SM!Create, SM!Invalidate, SM!RevokeUser
  <1>2. CASE AnyBegin
    BY <1>2 DEF AnyBegin, BeginLogin, BeginChange, Enter, Begin, sessionVars
  <1>3. CASE SessionStep
    BY <1>3 DEF SessionStep, SM!Get, SM!Expire, SM!CleanupExpired
  <1>4. CASE Quiet \/ UNCHANGED authVars
    BY <1>4 DEF Quiet, authVars, sessionVars
  <1> QED  BY <1>1, <1>2, <1>3, <1>4 DEF AuthNext

\* They move for the user whose sessions are rotated.
LEMMA ManagerVersionSame ==
    ASSUME AuthTypeOK, [AuthNext]_authVars, NEW u, Elsewhere(u)
    PROVE  SM!Version(u)' = SM!Version(u)
  <1>1. CASE versions' = versions
    BY <1>1 DEF SM!Version
  <1>2. ASSUME NEW h \in Handler, RotateSessions(h)
        PROVE  SM!Version(u)' = SM!Version(u)
    <2>1. job[h].user # u
      BY <1>2 DEF Elsewhere
    <2> QED  BY <1>2, <2>1 DEF RotateSessions, SM!RotateCredentials, SM!Put, SM!Version
  <1> QED  BY <1>1, <1>2, VersionsOnlyRotated DEF Elsewhere

\* An account has the version it had, moves it when its password is stored, or is new.
LEMMA StoredVersion ==
    ASSUME AuthTypeOK, [AuthNext]_authVars, NEW u \in DOMAIN users',
           ~ \E h \in Handler : job[h].user = u /\ StoreNewPassword(h)
    PROVE  \/ u \in DOMAIN users /\ users'[u].version = users[u].version
           \/ u \notin issued /\ users'[u].version = 0
  <1>1. ASSUME NEW v \in UserId, NEW name, NEW role, NEW secret, CreateUser(v, name, role, secret)
        PROVE  \/ u \in DOMAIN users /\ users'[u].version = users[u].version
               \/ u \notin issued /\ users'[u].version = 0
    BY <1>1 DEF CreateUser, Put
  <1>2. ASSUME NEW h \in Handler, StoreNewPassword(h)
        PROVE  u \in DOMAIN users /\ users'[u].version = users[u].version
    <2>1. job[h].user # u
      BY <1>2
    <2> QED  BY <1>2, <2>1 DEF StoreNewPassword, SetUserPassword
  <1>3. ASSUME NEW h \in Handler, NEW v \in UserId, DeleteAccount(h, v)
        PROVE  u \in DOMAIN users /\ users'[u].version = users[u].version
    BY <1>3 DEF DeleteAccount, DeleteUser, Drop, Restrict
  <1> QED  BY <1>1, <1>2, <1>3, UsersSteps

\* What storing a password does to its account and to those about to rotate.
LEMMA Stored ==
    ASSUME AuthInv, NEW h \in Handler, StoreNewPassword(h), NEW u, u = job[h].user
    PROVE  /\ u \in DOMAIN users /\ users'[u].version = users[u].version + 1
           /\ DOMAIN users' = DOMAIN users
           /\ h \notin Rotating(u) /\ Rotating(u)' = Rotating(u) \cup {h}
           /\ SM!Version(u)' = SM!Version(u)
           /\ UNCHANGED <<sessions, proof, starts, versions, issued>>
  <1> job \in [Handler -> Jobs]
    BY DEF AuthInv, AuthTypeOK
  <1>1. u \in DOMAIN users /\ users'[u].version = users[u].version + 1 /\ DOMAIN users' = DOMAIN users
    BY DEF StoreNewPassword, SetUserPassword
  <1>2. UNCHANGED <<sessions, proof, starts, versions, issued>>
    BY DEF StoreNewPassword, SetUserPassword, Become, sessionVars, processVars
  <1>3. SM!Version(u)' = SM!Version(u)
    BY <1>2 DEF SM!Version
  <1>4. /\ job' = [job EXCEPT ![h] = [op |-> "change", at |-> "rotate", user |-> u,
                                      secret |-> job[h].secret]]
        /\ Changing(h, "store")
    BY DEF StoreNewPassword, Become
  <1>5. h \notin Rotating(u) /\ Rotating(u)' = Rotating(u) \cup {h}
    BY <1>4 DEF Rotating, Changing, Doing
  <1> QED  BY <1>1, <1>2, <1>3, <1>5

\* What rotating the sessions does.
LEMMA Rotated ==
    ASSUME AuthInv, NEW h \in Handler, RotateSessions(h), NEW u, u = job[h].user
    PROVE  /\ h \in Rotating(u) /\ Rotating(u)' = Rotating(u) \ {h}
           /\ SM!Version(u)' = SM!Version(u) + 1
           /\ \A t \in DOMAIN sessions' : sessions'[t].user # u
           /\ UNCHANGED <<users, issued, proof, starts>>
  <1> job \in [Handler -> Jobs]
    BY DEF AuthInv, AuthTypeOK
  <1>1. SM!Version(u)' = SM!Version(u) + 1
    BY DEF RotateSessions, SM!RotateCredentials, SM!Put, SM!Version
  <1>2. \A t \in DOMAIN sessions' : sessions'[t].user # u
    BY DEF RotateSessions, SM!RotateCredentials, SM!SessionsOf, SM!Drop, SM!Restrict
  <1>3. job' = [job EXCEPT ![h] = Idle] /\ Changing(h, "rotate")
    BY DEF RotateSessions, Become
  <1>4. h \in Rotating(u) /\ Rotating(u)' = Rotating(u) \ {h}
    BY <1>3 DEF Rotating, Changing, Doing, Idle
  <1>5. UNCHANGED <<users, issued, proof, starts>>
    BY DEF RotateSessions, Become, processVars, vars
  <1> QED  BY <1>1, <1>2, <1>4, <1>5

\* A handler that takes a step serves a request.
LEMMA FinishBusy ==
    ASSUME NEW h \in Handler, Finish(h)
    PROVE  job[h] # Idle
  <1> SUFFICES ASSUME job[h] = Idle
               PROVE  FALSE
    OBVIOUS
  <1>1. \A op \in {"login", "change", "gate", "in", "revoke"} : ~Doing(h, op)
    BY DEF Doing, Idle
  <1> QED
    BY <1>1 DEF Finish, FinishLogin, LoginRefused, StoreNewPassword, RotateSessions, AccountGone,
                Admit, Reject, DeleteAccount, CreateAccount, RevokeSessions, LogOut, Answer,
                ByAdmin, Changing

\* Before the first start nothing happens but that start.
LEMMA RestStep ==
    ASSUME AuthInv, RestBefore, [AuthNext]_authVars
    PROVE  /\ RestBefore' /\ starts' \in Nat /\ starts <= starts'
           /\ (\E name \in SeedName : StartUp(name)) => starts' = starts + 1
  <1> starts \in Nat
    BY BoundsOK DEF AuthInv, AuthTypeOK
  <1>1. ASSUME NEW name \in SeedName, StartUp(name)
        PROVE  starts' = starts + 1
    BY <1>1 DEF StartUp
  <1>2. CASE ~ \E name \in SeedName : StartUp(name)
    <2>1. starts' = starts
      <3>1. ASSUME NEW h \in Handler, Finish(h)
            PROVE  starts' = starts
        BY <3>1 DEF Finish, FinishLogin, LoginRefused, StoreNewPassword, RotateSessions,
                    AccountGone, Admit, Reject, DeleteAccount, CreateAccount, RevokeSessions,
                    LogOut, Answer, Become, processVars
      <3> QED  BY <1>2, <3>1 DEF AuthNext, AnyBegin, BeginLogin, BeginChange, Enter, Begin,
                                 SessionStep, Quiet, authVars, processVars
    <2>2. CASE starts = 0
      <3>1. ~AnyBegin /\ ~SessionStep
        BY <2>2 DEF RestBefore, AnyBegin, BeginLogin, BeginChange, Enter, Begin, SessionStep
      <3>2. ASSUME NEW h \in Handler, Finish(h)
            PROVE  FALSE
        BY <2>2, <3>2, FinishBusy DEF RestBefore
      <3>3. UNCHANGED authVars
        BY <1>2, <3>1, <3>2 DEF AuthNext, Quiet
      <3> QED
        BY <1>2, <2>1, <2>2, <3>3 DEF RestBefore, authVars, processVars, sessionVars, vars
    <2> QED  BY <1>2, <2>1, <2>2 DEF RestBefore
  <1> QED  BY <1>1, <1>2 DEF RestBefore

\* Every new name was issued: a login and a change name an account that is there,
\* the gate the user of a session, and a rotation the user of its request.
LEMMA IssuedStep ==
    ASSUME AuthInv, UsersIssued, [AuthNext]_authVars
    PROVE  UsersIssued'
  <1> /\ AuthTypeOK /\ TypeOK /\ Fresh /\ UsernameIndexExact /\ SM!TypeOK
      /\ issued \subseteq issued'
    BY RolesStay DEF AuthInv, StoreInv
  <1> job \in [Handler -> Jobs]
    BY DEF AuthTypeOK
  <1>1. ASSUME NEW name \in SeedName, StartUp(name)
        PROVE  UsersIssued'
    BY <1>1 DEF StartUp, SM!Restart, SM!EmptyMap, UsersIssued, Idle
  <1>2. CASE ~ \E name \in SeedName : StartUp(name)
    <2>1. ASSUME NEW h \in Handler, job'[h] # Idle
          PROVE  job'[h].user \in issued
      <3>1. CASE job'[h] = job[h]
        BY <2>1, <3>1 DEF UsersIssued
      <3>2. ASSUME NEW name \in Username, BeginLogin(h, name)
            PROVE  job'[h].user \in issued
        BY <3>2 DEF BeginLogin, Begin, UsernameIndexExact, Fresh
      <3>3. ASSUME NEW u \in UserId, NEW secret \in Secret, BeginChange(h, u, secret)
            PROVE  job'[h].user \in issued
        BY <3>3 DEF BeginChange, Begin, Fresh
      <3>4. ASSUME NEW t \in Token, Enter(h, t)
            PROVE  job'[h].user \in issued
        BY <3>4 DEF Enter, Begin, SM!Live, UsersIssued
      <3>5. CASE Finish(h)
        <4>1. ASSUME NEW u \in UserId, DeleteAccount(h, u)
              PROVE  job'[h].user \in issued
          BY <4>1 DEF DeleteAccount, DeleteUser, Become, Fresh
        <4>2. job[h] # Idle
          BY <3>5, FinishBusy
        <4>3. CASE StoreNewPassword(h) \/ Admit(h)
          BY <4>2, <4>3 DEF StoreNewPassword, Admit, Become, UsersIssued
        <4>4. CASE job' = [job EXCEPT ![h] = Idle]
          BY <2>1, <4>4
        <4> QED
          BY <3>5, <4>1, <4>3, <4>4
             DEF Finish, FinishLogin, LoginRefused, RotateSessions, AccountGone, Reject,
                 CreateAccount, RevokeSessions, LogOut, Answer, Become
      <3>6. CASE job'[h] # job[h]
        BY <1>2, <3>2, <3>3, <3>4, <3>5, <3>6, BeginSteps
      <3> QED  BY <3>1, <3>6
    <2>2. \A t \in DOMAIN sessions' : sessions'[t].user \in issued
      <3>1. ASSUME NEW h \in Handler, NEW s \in Token, FinishLogin(h, s)
            PROVE  \A t \in DOMAIN sessions' : sessions'[t].user \in issued
        <4>1. job[h].user \in issued
          BY <3>1 DEF FinishLogin, Doing, Idle, UsersIssued
        <4> QED  BY <3>1, <4>1 DEF FinishLogin, SM!Create, SM!Put, UsersIssued
      <3>2. CASE ~ \E h \in Handler, t \in Token : FinishLogin(h, t)
        BY <1>2, <3>2, SessionsOnlyFewer DEF UsersIssued
      <3> QED  BY <3>1, <3>2
    <2>3. DOMAIN versions' \subseteq issued
      <3>1. ASSUME NEW h \in Handler, RotateSessions(h)
            PROVE  DOMAIN versions' \subseteq issued
        <4>1. job[h].user \in issued
          BY <3>1 DEF RotateSessions, Changing, Doing, Idle, UsersIssued
        <4> QED  BY <3>1, <4>1 DEF RotateSessions, SM!RotateCredentials, SM!Put, UsersIssued
      <3>2. CASE versions' = versions
        BY <3>2 DEF UsersIssued
      <3> QED  BY <1>2, <3>1, <3>2, VersionsOnlyRotated
    <2> QED  BY <2>1, <2>2, <2>3 DEF UsersIssued
  <1> QED  BY <1>1, <1>2

\* Elsewhere, a start, a stored password, or rotated sessions.
LEMMA VersionCases ==
    ASSUME NEW u
    PROVE  \/ Elsewhere(u)
           \/ \E name \in SeedName : StartUp(name)
           \/ \E h \in Handler : job[h].user = u /\ StoreNewPassword(h)
           \/ \E h \in Handler : job[h].user = u /\ RotateSessions(h)
  BY DEF Elsewhere

\* The process starts with no request.
LEMMA NoneRotating ==
    ASSUME NEW u, NEW name, StartUp(name)
    PROVE  Rotating(u)' = {}
  BY DEF StartUp, Rotating, Changing, Doing, Idle

\* A step adds or takes at most one handler.
LEMMA FiniteStep ==
    ASSUME AuthInv, RotatingFinite, [AuthNext]_authVars
    PROVE  RotatingFinite'
  <1> AuthTypeOK
    BY DEF AuthInv
  <1> SUFFICES ASSUME NEW u \in UserId
               PROVE  IsFiniteSet(Rotating(u)')
    BY DEF RotatingFinite
  <1> DEFINE R == Rotating(u)
  <1>1. IsFiniteSet(R)
    BY DEF RotatingFinite
  <1>2. \/ R' = R \/ R' = {}
        \/ \E h \in Handler : R' = R \cup {h} \/ R' = R \ {h}
    BY RotatingSame, NoneRotating, Stored, Rotated, VersionCases
  <1> HIDE DEF R
  <1>3. IsFiniteSet(R')
    BY <1>1, <1>2, FS_EmptySet, FS_AddElement, FS_RemoveElement
  <1> QED  BY <1>3 DEF R

\* The version of an account only grows, a login takes the one of the moment,
\* and nobody has logged in to an account that is new.
LEMMA NotAheadStep ==
    ASSUME AuthInv, UsersIssued, LoginsNotAhead, [AuthNext]_authVars
    PROVE  LoginsNotAhead'
  <1> AuthTypeOK /\ TypeOK /\ UsernameIndexExact /\ VersionsBounded
    BY DEF AuthInv, StoreInv
  <1> SUFFICES ASSUME NEW h \in Handler, Doing(h, "login")', job'[h].user \in DOMAIN users'
               PROVE  job'[h].version <= users'[job'[h].user].version
    BY DEF LoginsNotAhead
  <1>1. CASE job'[h] = job[h]
    <2> DEFINE u == job[h].user
    <2>1. Doing(h, "login") /\ u \in issued /\ u \in DOMAIN users'
      BY <1>1 DEF Doing, Idle, UsersIssued
    <2>2. job[h].version \in Int
      BY <2>1, JobFields
    <2>3. CASE \E g \in Handler : job[g].user = u /\ StoreNewPassword(g)
      <3>1. u \in DOMAIN users /\ users'[u].version = users[u].version + 1
        BY <2>3, Stored
      <3>2. users[u].version \in Int /\ job[h].version <= users[u].version
        BY <2>1, <3>1 DEF VersionsBounded, LoginsNotAhead
      <3>3. job[h].version <= users[u].version + 1
        BY <2>2, <3>2
      <3> QED  BY <1>1, <3>1, <3>3
    <2>4. CASE ~ \E g \in Handler : job[g].user = u /\ StoreNewPassword(g)
      <3>1. u \in DOMAIN users /\ users'[u].version = users[u].version
        BY <2>1, <2>4, StoredVersion
      <3> QED  BY <1>1, <2>1, <3>1 DEF LoginsNotAhead
    <2> QED  BY <2>3, <2>4
  <1>2. ASSUME NEW name \in Username, BeginLogin(h, name)
        PROVE  job'[h].version <= users'[job'[h].user].version
    <2> DEFINE u == username[name]
    <2>1. u \in DOMAIN users /\ users[u].version \in Int
      BY <1>2 DEF BeginLogin, UsernameIndexExact, VersionsBounded
    <2>2. job'[h].user = u /\ job'[h].version = users[u].version /\ users' = users
      BY <1>2 DEF BeginLogin, Begin, AuthTypeOK, vars
    <2> QED  BY <2>1, <2>2
  <1>3. ~ \E name \in SeedName : StartUp(name)
    BY DEF StartUp, Doing, Idle
  <1>4. ~Finish(h)
    BY DEF Finish, Become, Doing, Idle, AuthTypeOK, FinishLogin, LoginRefused, StoreNewPassword,
           RotateSessions, AccountGone, Admit, Reject, DeleteAccount, CreateAccount,
           RevokeSessions, LogOut, Answer
  <1> QED  BY <1>1, <1>2, <1>3, <1>4, JobSteps DEF Doing

\* In the first process every account begins with version zero on both sides,
\* a stored password is a rotation to come and a rotation one less.
LEMMA InStepStep ==
    ASSUME VersionsInv, [AuthNext]_authVars
    PROVE  VersionsInStep'
  <1> /\ AuthInv /\ AuthTypeOK /\ TypeOK /\ SM!TypeOK /\ VersionsBounded
      /\ starts \in Nat
    BY BoundsOK DEF VersionsInv, AuthInv, StoreInv, AuthTypeOK
  <1>1. CASE \E name \in SeedName : StartUp(name)
    <2>1. starts' = starts + 1
      BY <1>1, RestStep DEF VersionsInv
    <2>2. CASE starts = 0
      <3>1. users = EmptyMap
        BY <2>2 DEF VersionsInv, RestBefore
      <3>2. \A u : SM!Version(u)' = 0 /\ Rotating(u)' = {}
        BY <1>1, NoneRotating DEF StartUp, SM!Restart, SM!Version, SM!EmptyMap
      <3>3. \A h \in Handler : ~StoreNewPassword(h)
        BY <2>2 DEF VersionsInv, RestBefore, StoreNewPassword, Changing, Doing, Idle
      <3>4. \A u \in DOMAIN users' : users'[u].version = 0
        BY <3>1, <3>3, StoredVersion DEF EmptyMap
      <3> QED  BY <3>2, <3>4, FS_EmptySet DEF VersionsInStep
    <2> QED  BY <2>1, <2>2 DEF VersionsInStep
  <1>2. CASE ~ \E name \in SeedName : StartUp(name)
    <2> SUFFICES ASSUME starts' <= 1, NEW u \in DOMAIN users'
                 PROVE  users'[u].version = SM!Version(u)' + Cardinality(Rotating(u)')
      BY DEF VersionsInStep
    <2> starts <= 1
      BY RestStep DEF VersionsInv
    <2>1. u \in DOMAIN users => /\ IsFiniteSet(Rotating(u)) /\ Cardinality(Rotating(u)) \in Nat
                                /\ SM!Version(u) \in Nat
                                /\ users[u].version = SM!Version(u) + Cardinality(Rotating(u))
      BY FS_CardinalityType DEF VersionsInv, VersionsInStep, RotatingFinite, TypeOK, SM!TypeOK, SM!Version
    <2>2. ASSUME NEW h \in Handler, job[h].user = u, StoreNewPassword(h)
          PROVE  users'[u].version = SM!Version(u)' + Cardinality(Rotating(u)')
      <3>1. /\ u \in DOMAIN users /\ users'[u].version = users[u].version + 1
            /\ SM!Version(u)' = SM!Version(u)
            /\ h \notin Rotating(u) /\ Rotating(u)' = Rotating(u) \cup {h}
        BY <2>2, Stored
      <3>2. Cardinality(Rotating(u)') = Cardinality(Rotating(u)) + 1
        BY <2>1, <3>1, FS_AddElement
      <3> QED  BY <2>1, <3>1, <3>2
    <2>3. ASSUME NEW h \in Handler, job[h].user = u, RotateSessions(h)
          PROVE  users'[u].version = SM!Version(u)' + Cardinality(Rotating(u)')
      <3>1. /\ users' = users
            /\ SM!Version(u)' = SM!Version(u) + 1
            /\ h \in Rotating(u) /\ Rotating(u)' = Rotating(u) \ {h}
        BY <2>3, Rotated
      <3>2. Cardinality(Rotating(u)') = Cardinality(Rotating(u)) - 1
        BY <2>1, <3>1, FS_RemoveElement
      <3> QED  BY <2>1, <3>1, <3>2
    <2>4. CASE Elsewhere(u)
      <3>1. Rotating(u)' = Rotating(u) /\ SM!Version(u)' = SM!Version(u)
        BY <2>4, RotatingSame, ManagerVersionSame
      <3>2. CASE u \in DOMAIN users /\ users'[u].version = users[u].version
        BY <2>1, <3>1, <3>2
      <3>3. CASE u \notin issued /\ users'[u].version = 0
        <4>1. u \notin DOMAIN versions /\ \A h \in Handler : ~Changing(h, "rotate") \/ job[h].user # u
          BY <3>3 DEF VersionsInv, UsersIssued, Changing, Doing, Idle
        <4>2. SM!Version(u) = 0 /\ Rotating(u) = {}
          BY <4>1 DEF SM!Version, Rotating
        <4> QED  BY <3>1, <3>3, <4>2, FS_EmptySet
      <3> QED  BY <2>4, <3>2, <3>3, StoredVersion DEF Elsewhere
    <2> QED  BY <1>2, <2>2, <2>3, <2>4, VersionCases
  <1> QED  BY <1>1, <1>2

\* A login admitted between changes carries the stored version; a rotation ends
\* the sessions made in between.
LEMMA OldEndedStep ==
    ASSUME VersionsInv, [AuthNext]_authVars
    PROVE  OldPasswordEnded'
  <1> /\ AuthInv /\ AuthTypeOK /\ TypeOK /\ SM!TypeOK /\ VersionsBounded
      /\ starts \in Nat
    BY BoundsOK DEF VersionsInv, AuthInv, StoreInv, AuthTypeOK
  <1>1. CASE \E name \in SeedName : StartUp(name)
    BY <1>1 DEF StartUp, SM!Restart, SM!EmptyMap, OldPasswordEnded
  <1>2. CASE ~ \E name \in SeedName : StartUp(name)
    <2> SUFFICES ASSUME starts' <= 1, NEW t \in DOMAIN sessions', NEW u, u = sessions'[t].user,
                        u \in DOMAIN users', users'[u].version # proof'[t]
                 PROVE  Rotating(u)' # {}
      BY DEF OldPasswordEnded
    <2> starts <= 1
      BY RestStep DEF VersionsInv
    <2>1. ASSUME NEW h \in Handler, job[h].user = u, StoreNewPassword(h)
          PROVE  Rotating(u)' # {}
      BY <2>1, Stored
    <2>2. ~ \E h \in Handler : job[h].user = u /\ RotateSessions(h)
      BY Rotated
    <2>3. CASE Elsewhere(u) /\ t \in DOMAIN sessions /\ sessions[t].user = u /\ proof'[t] = proof[t]
      <3>1. u \in issued
        BY <2>3 DEF VersionsInv, UsersIssued
      <3>2. u \in DOMAIN users /\ users'[u].version = users[u].version
        BY <2>3, <3>1, StoredVersion DEF Elsewhere
      <3>3. Rotating(u) # {}
        BY <2>3, <3>2 DEF VersionsInv, OldPasswordEnded
      <3> QED  BY <2>3, <3>3, RotatingSame
    <2>4. ASSUME NEW h \in Handler, FinishLogin(h, t)
          PROVE  Rotating(u)' # {}
      <3>1. /\ job[h].user = u /\ proof'[t] = job[h].version /\ users' = users
            /\ Doing(h, "login") /\ SM!Admits(u, job[h].version)
        BY <2>4 DEF FinishLogin, SM!Create, SM!Put, Put, vars
      <3>2. Rotating(u)' = Rotating(u)
        <4>1. job' = [job EXCEPT ![h] = Idle]
          BY <2>4 DEF FinishLogin, Become
        <4> QED  BY <3>1, <4>1 DEF Rotating, Changing, Doing, Idle, AuthTypeOK
      <3>3. u \in DOMAIN users /\ users[u].version # job[h].version
        BY <3>1
      <3>4. /\ users[u].version = SM!Version(u) + Cardinality(Rotating(u))
            /\ job[h].version \in Nat /\ job[h].version <= users[u].version
            /\ SM!Version(u) \in Nat
        BY <3>1, <3>3, JobFields
           DEF VersionsInv, VersionsInStep, LoginsNotAhead, SM!Version, SM!TypeOK
      <3>5. ASSUME Rotating(u) = {}
            PROVE  FALSE
        <4>1. users[u].version = SM!Version(u)
          BY <3>4, <3>5, FS_EmptySet
        <4>2. CASE u \in DOMAIN versions
          BY <3>1, <3>3, <4>1, <4>2 DEF SM!Admits, SM!Version
        <4>3. CASE u \notin DOMAIN versions
          BY <3>3, <3>4, <4>1, <4>3 DEF SM!Version
        <4> QED  BY <4>2, <4>3
      <3> QED  BY <3>2, <3>5
    <2>5. \/ \E h \in Handler : FinishLogin(h, t)
          \/ t \in DOMAIN sessions /\ sessions[t].user = u /\ proof'[t] = proof[t]
      <3>1. ASSUME NEW h \in Handler, NEW s \in Token, FinishLogin(h, s), s # t
            PROVE  t \in DOMAIN sessions /\ sessions[t].user = u /\ proof'[t] = proof[t]
        <4>1. t \in DOMAIN sessions /\ sessions'[t] = sessions[t]
          BY <3>1 DEF FinishLogin, SM!Create, SM!Put
        <4>2. t \in DOMAIN proof
          BY <4>1 DEF SM!TypeOK, AuthTypeOK
        <4> QED  BY <3>1, <4>1, <4>2 DEF FinishLogin, Put
      <3>2. CASE ~ \E h \in Handler, s \in Token : FinishLogin(h, s)
        <4>1. proof' = proof
          BY <1>2, <3>2 DEF
             AuthNext, AnyBegin, BeginLogin, BeginChange, Enter, Begin, Finish, LoginRefused,
             StoreNewPassword, RotateSessions, AccountGone, Admit, Reject, DeleteAccount,
             CreateAccount, RevokeSessions, LogOut, Answer, SessionStep, Quiet, authVars
        <4> QED  BY <1>2, <3>2, <4>1, SessionsOnlyFewer
      <3> QED  BY <3>1, <3>2
    <2> QED  BY <1>2, <2>1, <2>2, <2>3, <2>4, <2>5 DEF Elsewhere
  <1> QED  BY <1>1, <1>2

-----------------------------------------------------------------------------
(* The theorems *)

\* The start has the invariant.
LEMMA AuthInitInv == AuthInit => AuthInv
  <1> SUFFICES ASSUME AuthInit
               PROVE  AuthInv
    OBVIOUS
  <1>1. StoreInv
    BY InitInv DEF AuthInit
  <1>2. SM!TypeOK
    BY DEF AuthInit, SM!Init, SM!TypeOK, SM!EmptyMap
  <1>3. AuthTypeOK
    BY BoundsOK DEF AuthInit, SM!Init, AuthTypeOK, Jobs, EmptyMap
  <1>4. VersionsBounded /\ SessionsKnown
    BY DEF AuthInit, Init, SM!Init, EmptyMap, SM!EmptyMap, VersionsBounded, SessionsKnown
  <1>5. LoginsKnown /\ CallersTrue
    BY DEF AuthInit, Idle, Doing, LoginsKnown, CallersTrue
  <1> QED  BY <1>1, <1>2, <1>3, <1>4, <1>5 DEF AuthInv

\* Every step keeps it.
LEMMA AuthNextInv == AuthInv /\ [AuthNext]_authVars => AuthInv'
  <1> SUFFICES ASSUME AuthInv, [AuthNext]_authVars
               PROVE  AuthInv'
    OBVIOUS
  <1>1. StoreInv'
    BY StoreSteps, NextInv DEF AuthInv
  <1>2. SM!TypeOK'
    BY SessionManagerType DEF AuthInv
  <1> QED
    BY <1>1, <1>2, AuthTypeStep, VersionsStep, LoginsStep, SessionsStep, CallersStep DEF AuthInv

\* The inductive invariant of the accounts.
THEOREM AuthInvariant == AuthSpec => []AuthInv
  BY AuthInitInv, AuthNextInv, PTL DEF AuthSpec

\* AuthTypeOK: the jobs of the handlers, the process and its counters.
THEOREM AuthTypeCorrect == AuthSpec => []AuthTypeOK
  <1>1. AuthInv => AuthTypeOK
    BY DEF AuthInv
  <1> QED  BY <1>1, AuthInvariant, PTL

\* The requests use the store only through its methods, with identifiers and
\* copies of the kinds these expect: what is proved of the store holds here.
THEOREM StoreUsedAsAllowed == AuthSpec => Spec
  <1>1. AuthInit => Init
    BY DEF AuthInit
  <1>2. AuthTypeOK /\ [AuthNext]_authVars => [Next]_vars
    BY StoreSteps
  <1> QED  BY <1>1, <1>2, AuthTypeCorrect, PTL DEF AuthSpec, Spec

\* They use the session manager only through its methods, and so NoSessionOfRevoked,
\* EndedForGood and RotationEndsSessions hold here.
THEOREM SessionsUsedAsAllowed == AuthSpec => SessionManagerSpec
  <1>1. AuthInit => SM!Init
    BY DEF AuthInit
  <1>2. AuthInv /\ [AuthNext]_authVars => [SM!Next]_SM!vars
    <2>1. SM!vars = sessionVars
      BY DEF SM!vars, sessionVars
    <2> QED  BY <2>1, SessionSteps DEF AuthInv, SM!vars, sessionVars
  <1> QED  BY <1>1, <1>2, AuthInvariant, PTL DEF AuthSpec, SessionManagerSpec, SM!Spec

\* Once a deletion is answered the account has no session and gets none, over
\* logins under way, other deletions and restarts.
THEOREM DeletedKeepNoSession == AuthSpec => []DeletedHaveNoSession
  <1>1. AuthInv => DeletedHaveNoSession
    BY DEF AuthInv, SessionsKnown, Known, BeingRevoked, DeletedHaveNoSession
  <1> QED  BY <1>1, AuthInvariant, PTL

\* What relates the two counts of password changes is there from the start.
LEMMA VersionsInitInv == AuthInit => VersionsInv
  <1> SUFFICES ASSUME AuthInit
               PROVE  VersionsInv
    OBVIOUS
  <1>1. AuthInv
    BY AuthInitInv
  <1>2. RestBefore /\ UsersIssued /\ LoginsNotAhead
    BY DEF AuthInit, Init, SM!Init, SM!EmptyMap, EmptyMap, RestBefore, UsersIssued,
           LoginsNotAhead, Idle, Doing
  <1>3. \A u : Rotating(u) = {}
    BY DEF AuthInit, Rotating, Changing, Doing, Idle
  <1>4. RotatingFinite
    BY <1>3, FS_EmptySet DEF RotatingFinite
  <1>5. VersionsInStep /\ OldPasswordEnded
    BY DEF AuthInit, Init, SM!Init, SM!EmptyMap, EmptyMap, VersionsInStep, OldPasswordEnded
  <1> QED  BY <1>1, <1>2, <1>4, <1>5 DEF VersionsInv

\* Every step keeps it.
LEMMA VersionsNextInv == VersionsInv /\ [AuthNext]_authVars => VersionsInv'
  <1> SUFFICES ASSUME VersionsInv, [AuthNext]_authVars
               PROVE  VersionsInv'
    OBVIOUS
  <1>1. AuthInv'
    BY AuthNextInv DEF VersionsInv
  <1>2. RestBefore' /\ UsersIssued' /\ RotatingFinite' /\ LoginsNotAhead'
    BY RestStep, IssuedStep, FiniteStep, NotAheadStep DEF VersionsInv
  <1> QED  BY <1>1, <1>2, InStepStep, OldEndedStep DEF VersionsInv

\* The inductive invariant of the credential versions.
THEOREM VersionsInvariant == AuthSpec => []VersionsInv
  BY VersionsInitInv, VersionsNextInv, PTL DEF AuthSpec

\* In the first process the version of an account and the one its logins must
\* carry differ by exactly the rotations still to come.
THEOREM VersionsKeepStep == AuthSpec => []VersionsInStep
  <1>1. VersionsInv => VersionsInStep
    BY DEF VersionsInv
  <1> QED  BY <1>1, VersionsInvariant, PTL

\* In the first process an answered change of password leaves no session of the
\* old one, and no login that began with it makes one later.
THEOREM OldPasswordStaysEnded == AuthSpec => []OldPasswordEnded
  <1>1. VersionsInv => OldPasswordEnded
    BY DEF VersionsInv
  <1> QED  BY <1>1, VersionsInvariant, PTL

\* In the first process no login with the stored password is refused for its
\* version while no change is under way: it takes a restart to lock anyone out.
THEOREM NoLockoutAtFirst == AuthSpec => [](starts <= 1 => NewPasswordAccepted)
  <1>1. VersionsInv => (starts <= 1 => NewPasswordAccepted)
    <2> SUFFICES ASSUME VersionsInv, starts <= 1, NEW u \in DOMAIN users, Rotating(u) = {},
                        u \notin revoked
                 PROVE  SM!Admits(u, users[u].version)
      BY DEF NewPasswordAccepted
    <2>1. users[u].version \in 0 .. MaxVersion /\ MaxVersion \in Nat
      BY ConstantsOK DEF VersionsInv, AuthInv, VersionsBounded
    <2>2. u \in DOMAIN versions => versions[u] \in Nat
      BY DEF VersionsInv, AuthInv, SM!TypeOK
    <2>3. Cardinality(Rotating(u)) = 0
      BY FS_EmptySet
    <2>4. users[u].version = SM!Version(u)
      BY <2>1, <2>2, <2>3 DEF VersionsInv, VersionsInStep, SM!Version
    <2> QED  BY <2>4 DEF SM!Admits, SM!Version
  <1> QED  BY <1>1, VersionsInvariant, PTL

\* The last administrator is deleted only by a request whose own caller was
\* deleted after it was let in.
THEOREM LastAdminOverlap == AuthSpec => LastAdminFallsToOverlap
  <1>1. ASSUME AuthInv, [AuthNext]_authVars, AdminExists, ~AdminExists'
        PROVE  \E h \in Handler : /\ ByAdmin(h) /\ job'[h] # job[h]
                                  /\ job[h].user \notin DOMAIN users
    <2> AuthTypeOK /\ TypeOK /\ CallersTrue
      BY <1>1 DEF AuthInv, StoreInv
    <2>1. PICK a \in DOMAIN users : users[a].role = "admin"
      BY <1>1 DEF AdminExists
    <2>2. ASSUME NEW u \in UserId, NEW name, NEW role, NEW secret, CreateUser(u, name, role, secret)
          PROVE  AdminExists'
      <3>1. a \in issued
        BY <1>1, <2>1 DEF AuthInv, StoreInv, Fresh
      <3>2. a \in DOMAIN users' /\ users'[a] = users[a]
        BY <2>1, <2>2, <3>1 DEF CreateUser, Put
      <3> QED  BY <2>1, <3>2 DEF AdminExists
    <2>3. ASSUME NEW h \in Handler, StoreNewPassword(h)
          PROVE  AdminExists'
      BY <2>1, <2>3 DEF StoreNewPassword, SetUserPassword, AdminExists, TypeOK
    <2>4. PICK h \in Handler, u \in UserId : DeleteAccount(h, u)
      BY <1>1, <2>2, <2>3, UsersSteps DEF AdminExists
    <2>5. ByAdmin(h) /\ job'[h] # job[h]
      BY <2>4 DEF DeleteAccount, ByAdmin, Become, Doing, AuthTypeOK
    <2>6. ASSUME job[h].user \in DOMAIN users
          PROVE  FALSE
      <3>1. job[h].user # u /\ users[job[h].user].role = "admin"
        BY <2>4, <2>6 DEF DeleteAccount, ByAdmin, CallersTrue
      <3>2. job[h].user \in DOMAIN users' /\ users'[job[h].user] = users[job[h].user]
        BY <2>4, <2>6, <3>1 DEF DeleteAccount, DeleteUser, Drop, Restrict
      <3> QED  BY <1>1, <3>1, <3>2 DEF AdminExists
    <2> QED  BY <2>5, <2>6
  <1>2. AuthInv /\ [AuthNext]_authVars =>
          [AdminExists /\ ~AdminExists' =>
             \E h \in Handler : ByAdmin(h) /\ job'[h] # job[h]
                                /\ job[h].user \notin DOMAIN users]_authVars
    BY <1>1
  <1> QED  BY <1>2, AuthInvariant, PTL DEF AuthSpec, LastAdminFallsToOverlap

=============================================================================
