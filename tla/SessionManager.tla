----------------------------- MODULE SessionManager -----------------------------
(***************************************************************************)
(* The session manager of internal/auth/session.go.  Its three maps live   *)
(* in memory only and share one mutex, so every method is one action.  A   *)
(* session is the user it was made for and whether its ExpiresAt is past.  *)
(* Tokens are 32 random bytes: none is drawn twice.                        *)
(***************************************************************************)
EXTENDS Integers, Maps

CONSTANTS
    UserId,
    Token,
    MaxVersion     \* bound: the largest credential version

VARIABLES
    sessions,      \* sm.sessions: token -> session
    revoked,       \* sm.revoked: the users whose account was deleted
    versions,      \* sm.versions: user -> version logins must carry
    minted         \* the tokens generateToken has drawn

vars == <<sessions, revoked, versions, minted>>

Session == [user : UserId, expired : BOOLEAN]

TypeOK ==
    /\ sessions \in [DOMAIN sessions -> Session] /\ DOMAIN sessions \subseteq minted
    /\ revoked \subseteq UserId
    /\ versions \in [DOMAIN versions -> Nat] /\ DOMAIN versions \subseteq UserId
    /\ minted \subseteq Token

Init ==
    /\ sessions = EmptyMap
    /\ revoked = {}
    /\ versions = EmptyMap
    /\ minted = {}

SessionsOf(u) == {t \in DOMAIN sessions : sessions[t].user = u}

\* Mutant: the revoked users are not looked at.
AdmitsRevoked(u, version) == u \in DOMAIN versions => versions[u] = version

\* A missing entry of sm.versions admits every version, though it counts as
\* zero when it is incremented.
Admits(u, version) ==
    /\ u \notin revoked
    /\ u \in DOMAIN versions => versions[u] = version

Version(u) == IF u \in DOMAIN versions THEN versions[u] ELSE 0

\* Mutant: a token may be drawn again.
CreateReusing(t, u, version) ==
    /\ t \notin DOMAIN sessions
    /\ Admits(u, version)
    /\ sessions' = Put(sessions, t, [user |-> u, expired |-> FALSE])
    /\ minted' = minted \cup {t}
    /\ UNCHANGED <<revoked, versions>>

\* Mutant: the session is stored under another token than the one drawn.
CreateElsewhere(t, u, version) ==
    /\ t \notin minted
    /\ Admits(u, version)
    /\ \E other \in Token :
          sessions' = Put(sessions, other, [user |-> u, expired |-> FALSE])
    /\ minted' = minted \cup {t}
    /\ UNCHANGED <<revoked, versions>>

Create(t, u, version) ==
    /\ t \notin minted
    /\ Admits(u, version)
    /\ sessions' = Put(sessions, t, [user |-> u, expired |-> FALSE])
    /\ minted' = minted \cup {t}
    /\ UNCHANGED <<revoked, versions>>

\* Mutant: the sessions made before stay.
RotateVersionOnly(u) ==
    /\ Version(u) < MaxVersion
    /\ versions' = Put(versions, u, Version(u) + 1)
    /\ UNCHANGED <<sessions, revoked, minted>>

RotateCredentials(u) ==
    /\ Version(u) < MaxVersion
    /\ versions' = Put(versions, u, Version(u) + 1)
    /\ sessions' = Drop(sessions, SessionsOf(u))
    /\ UNCHANGED <<revoked, minted>>

RevokeUser(u) ==
    /\ revoked' = revoked \cup {u}
    /\ sessions' = Drop(sessions, SessionsOf(u))
    /\ UNCHANGED <<versions, minted>>

InvalidateByUser(u) ==
    /\ sessions' = Drop(sessions, SessionsOf(u))
    /\ UNCHANGED <<revoked, versions, minted>>

Live(t) == t \in DOMAIN sessions /\ ~sessions[t].expired

\* Get answers a live session and removes one that has expired.
Get(t) ==
    /\ t \in DOMAIN sessions
    /\ sessions' = IF Live(t) THEN sessions ELSE Drop(sessions, {t})
    /\ UNCHANGED <<revoked, versions, minted>>

Invalidate(t) ==
    /\ sessions' = Drop(sessions, {t})
    /\ UNCHANGED <<revoked, versions, minted>>

CleanupExpired ==
    /\ sessions' = Drop(sessions, {t \in DOMAIN sessions : sessions[t].expired})
    /\ UNCHANGED <<revoked, versions, minted>>

\* The clock passes the ExpiresAt of a session.
Expire(t) ==
    /\ Live(t)
    /\ sessions' = [sessions EXCEPT ![t] = [user |-> sessions[t].user, expired |-> TRUE]]
    /\ UNCHANGED <<revoked, versions, minted>>

\* The process ends and NewSessionManager makes empty maps.  No token of an
\* earlier process is drawn again.
Restart ==
    /\ sessions' = EmptyMap
    /\ revoked' = {}
    /\ versions' = EmptyMap
    /\ UNCHANGED minted

Next ==
    \/ \E t \in Token :
          \/ \E u \in UserId, version \in 0 .. MaxVersion : Create(t, u, version)
          \/ Get(t) \/ Invalidate(t) \/ Expire(t)
    \/ \E u \in UserId : RotateCredentials(u) \/ RevokeUser(u) \/ InvalidateByUser(u)
    \/ CleanupExpired
    \/ Restart

Spec == Init /\ [][Next]_vars

-----------------------------------------------------------------------------
(* Properties *)

\* No session belongs to a revoked user, whatever logins were under way when
\* the account was deleted.
NoSessionOfRevoked == \A t \in DOMAIN sessions : sessions[t].user \notin revoked

\* A session that ended, by logout, expiry, rotation, revocation or restart,
\* is never live again.
EndedForGood ==
    [][\A t \in minted : ~Live(t) => ~Live(t)']_vars

\* While the process lives, rotation outdates every session of the user: the
\* version only grows and none of the sessions it had survives.
RotationEndsSessions ==
    [][\A u \in UserId :
          u \in DOMAIN versions' /\ (u \in DOMAIN versions => versions'[u] # versions[u])
          => Version(u)' > Version(u) /\ SessionsOf(u)' = {}]_vars

=============================================================================
