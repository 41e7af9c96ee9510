-------------------------- MODULE SessionManagerProofs --------------------------
(***************************************************************************)
(* Proofs about SessionManager for every set of users and tokens, over     *)
(* any number of restarts.                                                 *)
(***************************************************************************)
EXTENDS SessionManager, TLAPS

\* What a map holds after delete, and of what kind it is.
LEMMA DropSessions ==
    ASSUME TypeOK, NEW gone
    PROVE  /\ DOMAIN Drop(sessions, gone) = DOMAIN sessions \ gone
           /\ Drop(sessions, gone) \in [DOMAIN Drop(sessions, gone) -> Session]
           /\ \A t \in DOMAIN sessions \ gone : Drop(sessions, gone)[t] = sessions[t]
    BY DEF Drop, Restrict, TypeOK

\* When the sessions of u are removed those of the others are left.
LEMMA SessionsRemoved ==
    ASSUME TypeOK, NEW u, sessions' = Drop(sessions, SessionsOf(u))
    PROVE  /\ SessionsOf(u)' = {}
           /\ DOMAIN sessions' \subseteq DOMAIN sessions
           /\ \A t \in DOMAIN sessions' : sessions'[t] = sessions[t] /\ sessions[t].user # u
  <1>1. /\ DOMAIN sessions' = DOMAIN sessions \ SessionsOf(u)
        /\ \A t \in DOMAIN sessions' : sessions'[t] = sessions[t]
    BY DropSessions
  <1>2. \A t \in DOMAIN sessions' : sessions[t].user # u
    BY <1>1 DEF SessionsOf
  <1>3. \A t \in DOMAIN sessions' : sessions'[t].user # u
    BY <1>1, <1>2
  <1> QED  BY <1>1, <1>2, <1>3 DEF SessionsOf

\* Every step but Create and a restart leaves the users of the sessions that
\* remain as they are, and brings none in.
LEMMA SessionsOnlyEnd ==
    ASSUME TypeOK, [Next]_vars
    PROVE  \/ \E t \in Token, u \in UserId, version \in 0 .. MaxVersion : Create(t, u, version)
           \/ Restart
           \/ /\ DOMAIN sessions' \subseteq DOMAIN sessions
              /\ sessions' \in [DOMAIN sessions' -> Session]
              /\ \A t \in DOMAIN sessions' :
                    /\ sessions'[t].user = sessions[t].user
                    /\ sessions[t].expired => sessions'[t].expired
              /\ minted' = minted
  <1>1. ASSUME NEW gone, sessions' = Drop(sessions, gone)
        PROVE  /\ DOMAIN sessions' \subseteq DOMAIN sessions
               /\ sessions' \in [DOMAIN sessions' -> Session]
               /\ \A t \in DOMAIN sessions' : sessions'[t] = sessions[t]
    BY <1>1, DropSessions
  <1>2. ASSUME NEW t \in Token, Get(t) \/ Invalidate(t)
        PROVE  /\ DOMAIN sessions' \subseteq DOMAIN sessions
               /\ sessions' \in [DOMAIN sessions' -> Session]
               /\ \A s \in DOMAIN sessions' : sessions'[s] = sessions[s]
               /\ minted' = minted
    <2>1. CASE sessions' = Drop(sessions, {t})
      BY <1>1, <1>2, <2>1 DEF Get, Invalidate
    <2>2. CASE sessions' = sessions
      BY <1>2, <2>2 DEF Get, Invalidate, TypeOK
    <2> QED  BY <1>2, <2>1, <2>2 DEF Get, Invalidate
  <1>3. ASSUME NEW t \in Token, Expire(t)
        PROVE  /\ DOMAIN sessions' = DOMAIN sessions
               /\ sessions' \in [DOMAIN sessions' -> Session]
               /\ \A s \in DOMAIN sessions' :
                     /\ sessions'[s].user = sessions[s].user
                     /\ sessions[s].expired => sessions'[s].expired
               /\ minted' = minted
    BY <1>3 DEF Expire, Live, TypeOK, Session
  <1>4. ASSUME NEW u \in UserId, RotateCredentials(u) \/ RevokeUser(u) \/ InvalidateByUser(u)
        PROVE  /\ DOMAIN sessions' \subseteq DOMAIN sessions
               /\ sessions' \in [DOMAIN sessions' -> Session]
               /\ \A s \in DOMAIN sessions' : sessions'[s] = sessions[s]
               /\ minted' = minted
    BY <1>1, <1>4 DEF RotateCredentials, RevokeUser, InvalidateByUser
  <1>5. ASSUME CleanupExpired
        PROVE  /\ DOMAIN sessions' \subseteq DOMAIN sessions
               /\ sessions' \in [DOMAIN sessions' -> Session]
               /\ \A s \in DOMAIN sessions' : sessions'[s] = sessions[s]
               /\ minted' = minted
    BY <1>1, <1>5 DEF CleanupExpired
  <1>6. CASE UNCHANGED vars
    BY <1>6 DEF vars, TypeOK
  <1> QED  BY <1>2, <1>3, <1>4, <1>5, <1>6 DEF Next

\* Who is revoked changes with an account's deletion and with a restart only.
LEMMA RevokedSteps ==
    ASSUME [Next]_vars
    PROVE  \/ revoked' = revoked
           \/ Restart
           \/ \E u \in UserId : RevokeUser(u)
    BY DEF Next, vars, Create, Get, Invalidate, Expire, RotateCredentials,
           InvalidateByUser, CleanupExpired

\* Versions count from zero and belong to users.
LEMMA VersionsType ==
    ASSUME TypeOK, [Next]_vars
    PROVE  versions' \in [DOMAIN versions' -> Nat] /\ DOMAIN versions' \subseteq UserId
  <1>1. CASE versions' = versions
    BY <1>1 DEF TypeOK
  <1>2. CASE Restart
    BY <1>2 DEF Restart, EmptyMap
  <1>3. ASSUME NEW u \in UserId, RotateCredentials(u)
        PROVE  versions' \in [DOMAIN versions' -> Nat] /\ DOMAIN versions' \subseteq UserId
    <2>1. Version(u) + 1 \in Nat
      BY DEF Version, TypeOK
    <2> QED  BY <1>3, <2>1 DEF RotateCredentials, Put, TypeOK
  <1> QED
    BY <1>1, <1>2, <1>3 DEF Next, vars, Create, Get, Invalidate, Expire, RevokeUser,
                            InvalidateByUser, CleanupExpired

\* Every step keeps the kinds of the maps.
LEMMA NextType ==
    ASSUME TypeOK, [Next]_vars
    PROVE  TypeOK'
  <1>1. revoked' \subseteq UserId
    BY RevokedSteps DEF TypeOK, Restart, RevokeUser
  <1>2. sessions' \in [DOMAIN sessions' -> Session] /\ DOMAIN sessions' \subseteq minted'
        /\ minted' \subseteq Token
    <2>1. ASSUME NEW t \in Token, NEW u \in UserId, NEW version, Create(t, u, version)
          PROVE  /\ sessions' \in [DOMAIN sessions' -> Session]
                 /\ DOMAIN sessions' \subseteq minted' /\ minted' \subseteq Token
      BY <2>1 DEF Create, Put, TypeOK, Session
    <2>2. CASE Restart
      BY <2>2 DEF Restart, EmptyMap, TypeOK
    <2>3. CASE /\ DOMAIN sessions' \subseteq DOMAIN sessions
               /\ sessions' \in [DOMAIN sessions' -> Session]
               /\ minted' = minted
      BY <2>3 DEF TypeOK
    <2> QED  BY <2>1, <2>2, <2>3, SessionsOnlyEnd
  <1> QED  BY <1>1, <1>2, VersionsType DEF TypeOK

\* The session manager's maps keep their kinds, and every session was made
\* under a token that was drawn.
THEOREM SessionTypes == Spec => []TypeOK
  <1>1. Init => TypeOK
    BY DEF Init, TypeOK, EmptyMap
  <1> QED  BY <1>1, NextType, PTL DEF Spec

\* NoSessionOfRevoked, on its own inductive: Create looks at the revoked users
\* under the same lock under which RevokeUser marks one and ends his sessions.
THEOREM RevokedHaveNone == Spec => []NoSessionOfRevoked
  <1>1. Init => NoSessionOfRevoked
    BY DEF Init, NoSessionOfRevoked
  <1>2. ASSUME TypeOK, NoSessionOfRevoked, [Next]_vars
        PROVE  NoSessionOfRevoked'
    <2>1. ASSUME NEW t \in Token, NEW u \in UserId, NEW version, Create(t, u, version)
          PROVE  NoSessionOfRevoked'
      BY <1>2, <2>1 DEF Create, Admits, Put, NoSessionOfRevoked
    <2>2. CASE Restart
      BY <2>2 DEF Restart, NoSessionOfRevoked
    <2>3. ASSUME NEW u \in UserId, RevokeUser(u)
          PROVE  NoSessionOfRevoked'
      <3>1. revoked' = revoked \cup {u} /\ sessions' = Drop(sessions, SessionsOf(u))
        BY <2>3 DEF RevokeUser
      <3>2. /\ DOMAIN sessions' \subseteq DOMAIN sessions
            /\ \A t \in DOMAIN sessions' : sessions'[t] = sessions[t] /\ sessions[t].user # u
        BY <1>2, <3>1, SessionsRemoved
      <3> QED  BY <1>2, <3>1, <3>2 DEF NoSessionOfRevoked
    <2>4. CASE /\ revoked' = revoked
               /\ DOMAIN sessions' \subseteq DOMAIN sessions
               /\ \A t \in DOMAIN sessions' : sessions'[t].user = sessions[t].user
      BY <1>2, <2>4 DEF NoSessionOfRevoked
    <2> QED  BY <1>2, <2>1, <2>2, <2>3, <2>4, SessionsOnlyEnd, RevokedSteps
  <1> QED  BY <1>1, <1>2, SessionTypes, PTL DEF Spec

\* EndedForGood: the one way to a live session is a token never drawn before.
THEOREM EndedStaysEnded == Spec => EndedForGood
  <1>1. ASSUME TypeOK, [Next]_vars, NEW s \in minted, ~Live(s)
        PROVE  ~Live(s)'
    <2>1. ASSUME NEW t \in Token, NEW u \in UserId, NEW version, Create(t, u, version)
          PROVE  ~Live(s)'
      BY <1>1, <2>1 DEF Create, Put, Live
    <2>2. CASE Restart
      BY <2>2 DEF Restart, EmptyMap, Live
    <2>3. CASE /\ DOMAIN sessions' \subseteq DOMAIN sessions
               /\ \A t \in DOMAIN sessions' : sessions[t].expired => sessions'[t].expired
      BY <1>1, <2>3 DEF Live
    <2> QED  BY <1>1, <2>1, <2>2, <2>3, SessionsOnlyEnd
  <1>2. TypeOK /\ [Next]_vars => [\A t \in minted : ~Live(t) => ~Live(t)']_vars
    BY <1>1
  <1> QED  BY <1>2, SessionTypes, PTL DEF Spec, EndedForGood

\* RotationEndsSessions: a version moves only in RotateCredentials, which under
\* the same lock removes what sessions the user has.
THEOREM RotationsEnd == Spec => RotationEndsSessions
  <1>1. ASSUME TypeOK, [Next]_vars, NEW u \in UserId, u \in DOMAIN versions',
               u \in DOMAIN versions => versions'[u] # versions[u]
        PROVE  Version(u)' > Version(u) /\ SessionsOf(u)' = {}
    <2>1. ASSUME NEW v \in UserId, RotateCredentials(v)
          PROVE  Version(u)' > Version(u) /\ SessionsOf(u)' = {}
      <3>1. u = v
        BY <1>1, <2>1 DEF RotateCredentials, Put
      <3>2. versions'[u] = Version(u) + 1 /\ Version(u) \in Nat
        BY <1>1, <2>1, <3>1 DEF RotateCredentials, Put, Version, TypeOK
      <3>3. SessionsOf(u)' = {}
        BY <1>1, <2>1, <3>1, SessionsRemoved DEF RotateCredentials
      <3> QED  BY <1>1, <3>2, <3>3 DEF Version
    <2>2. CASE versions' = versions
      BY <1>1, <2>2
    <2>3. CASE Restart
      BY <1>1, <2>3 DEF Restart, EmptyMap
    <2> QED
      BY <1>1, <2>1, <2>2, <2>3 DEF Next, vars, Create, Get, Invalidate, Expire, RevokeUser,
                                    InvalidateByUser, CleanupExpired
  <1>2. TypeOK /\ [Next]_vars =>
          [\A u \in UserId :
             u \in DOMAIN versions' /\ (u \in DOMAIN versions => versions'[u] # versions[u])
             => Version(u)' > Version(u) /\ SessionsOf(u)' = {}]_vars
    BY <1>1
  <1> QED  BY <1>2, SessionTypes, PTL DEF Spec, RotationEndsSessions

=============================================================================
