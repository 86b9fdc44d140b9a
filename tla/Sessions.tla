------------------------------ MODULE Sessions ------------------------------
(***************************************************************************)
(* The lives of sessions: Redis hashes "session:<id>" with a time to live, *)
(* stored by a login, removed by a logout, kept from expiring while a      *)
(* subscription reads from the game, and cleared or timed out by an        *)
(* administrator's task.                                                   *)
(*                                                                         *)
(* Each Redis command is a step of its own; the handlers that send them,   *)
(* and the clock, run concurrently.                                        *)
(***************************************************************************)
EXTENDS Naturals

CONSTANTS
    Ids,            \* session IDs
    Streams,        \* subscription handlers
    TempSessionTTLSecs,
    PersistSessionTTLDays,
    HoursPerDay, SecsPerHour, NanosPerSec,  \* units of time, made small
    Admin,          \* TRUE: the administrator's tasks may run
    Faults          \* TRUE: a handler may stop between two steps

ASSUME SessionsAssumption ==
    /\ TempSessionTTLSecs \in Nat \ {0}
    /\ PersistSessionTTLDays \in Nat \ {0}
    /\ HoursPerDay \in Nat \ {0}
    /\ SecsPerHour \in Nat \ {0}
    /\ NanosPerSec \in Nat \ {0}
    /\ Admin \in BOOLEAN /\ Faults \in BOOLEAN

Kinds == {"temp", "persist"}

\* time.Hour is a Duration, in nanoseconds.
Hour == SecsPerHour * NanosPerSec

\* The argument that Session.Expire gives to EXPIRE, which takes seconds.
TTL(kind) ==
    IF kind = "persist" THEN (PersistSessionTTLDays * HoursPerDay) * Hour
    ELSE TempSessionTTLSecs

\* ttl[s] is the seconds a session has left, or one of these.
Absent == 0
Forever == TTL("temp") + TTL("persist") + 1

VARIABLES
    kind,       \* kind[s]: temporary or persistent
    ttl,        \* ttl[s]: Absent, Forever, or the seconds left
    login,      \* login[s]: how far the login that makes s is
    stream,     \* stream[d]: how far the handler is
    uses,       \* uses[d]: the session d authenticated with
    logout,     \* the sessions whose logout was authenticated
    task        \* the keys an administrator's task has listed

vars == <<kind, ttl, login, stream, uses, logout, task>>

Exists(s) == ttl[s] # Absent

\* Variant: EXPIRE makes the key when it is missing.
SetTTL_Always(s, n) == [ttl EXCEPT ![s] = n]

\* EXPIRE and PERSIST: nothing happens to a key that is not there.
SetTTL(s, n) == [ttl EXCEPT ![s] = IF @ = Absent THEN Absent ELSE n]
-----------------------------------------------------------------------------
(* handleLogin and session.New *)

\* hmset: the key is stored without a time to live.
StoreSession(s) ==
    /\ login[s] = "none"
    /\ \E k \in Kinds : kind' = [kind EXCEPT ![s] = k]
    /\ ttl' = [ttl EXCEPT ![s] = Forever]
    /\ login' = [login EXCEPT ![s] = "stored"]
    /\ UNCHANGED <<stream, uses, logout, task>>

\* The first Expire; the client then learns the ID.
FinishLogin(s) ==
    /\ login[s] = "stored"
    /\ ttl' = SetTTL(s, TTL(kind[s]))
    /\ login' = [login EXCEPT ![s] = "done"]
    /\ UNCHANGED <<kind, stream, uses, logout, task>>
-----------------------------------------------------------------------------
(* handleSubscription *)

\* requestParamSession finds the session, which other streams may use too.
OpenStream(d) ==
    \E s \in Ids :
        /\ stream[d] = "closed"
        /\ login[s] = "done" /\ Exists(s)
        /\ stream' = [stream EXCEPT ![d] = "opening"]
        /\ uses' = [uses EXCEPT ![d] = s]
        /\ UNCHANGED <<kind, ttl, login, logout, task>>

\* What Unexpire makes of the session: PERSIST.
Opening(d) == SetTTL(uses[d], Forever)

\* Unexpire; whether the key was there is not looked at.
Unexpire(d) ==
    /\ stream[d] = "opening"
    /\ ttl' = Opening(d)
    /\ stream' = [stream EXCEPT ![d] = "reading"]
    /\ UNCHANGED <<kind, login, uses, logout, task>>

\* Variant: the session is not looked at again when the stream closes.
Closing_Left(d) == ttl

\* Variant: the time is added to what is left.
Closing_Added(d) == SetTTL(uses[d], ttl[uses[d]] + TTL(kind[uses[d]]))

\* What the deferred Expire makes of the session.
Closing(d) == SetTTL(uses[d], TTL(kind[uses[d]]))

\* The client goes away.
CloseStream(d) ==
    /\ stream[d] = "reading"
    /\ ttl' = Closing(d)
    /\ stream' = [stream EXCEPT ![d] = "closed"]
    /\ UNCHANGED <<kind, login, uses, logout, task>>
-----------------------------------------------------------------------------
(* handleLogout, and handleReauth when the game or the player is no more *)

Authenticate(s) ==
    /\ login[s] = "done" /\ Exists(s)
    /\ logout' = logout \cup {s}
    /\ UNCHANGED <<kind, ttl, login, stream, uses, task>>

\* Session.Remove: DEL.
Remove(s) ==
    /\ s \in logout
    /\ ttl' = [ttl EXCEPT ![s] = Absent]
    /\ logout' = logout \ {s}
    /\ UNCHANGED <<kind, login, stream, uses, task>>
-----------------------------------------------------------------------------
(* handleClearSessions and handleTimeoutAllSessions: KEYS, then one MULTI *)

ListKeys ==
    /\ Admin
    /\ task = {}
    /\ task' = {s \in Ids : Exists(s)}
    /\ UNCHANGED <<kind, ttl, login, stream, uses, logout>>

ClearSessions ==
    /\ task # {}
    /\ ttl' = [s \in Ids |-> IF s \in task THEN Absent ELSE ttl[s]]
    /\ task' = {}
    /\ UNCHANGED <<kind, login, stream, uses, logout>>

\* The duration is the administrator's; EXPIRE with 0 seconds is a DEL.
TimeoutAllSessions ==
    /\ task # {}
    /\ \E dur \in {0, TempSessionTTLSecs} :
          ttl' = [s \in Ids |->
                    IF s \in task /\ Exists(s) THEN dur ELSE ttl[s]]
    /\ task' = {}
    /\ UNCHANGED <<kind, login, stream, uses, logout>>
-----------------------------------------------------------------------------
\* A second goes by; Redis drops what has no time left.
Tick ==
    /\ \E s \in Ids : ttl[s] \notin {Absent, Forever}
    /\ ttl' = [s \in Ids |-> IF ttl[s] \in {Absent, Forever} THEN ttl[s]
                             ELSE ttl[s] - 1]
    /\ UNCHANGED <<kind, login, stream, uses, logout, task>>

\* The process dies, or a command fails: the rest of a login, or the deferred
\* Expire of a stream, does not happen.
StopLogin(s) ==
    /\ Faults
    /\ login[s] = "stored"
    /\ login' = [login EXCEPT ![s] = "lost"]
    /\ UNCHANGED <<kind, ttl, stream, uses, logout, task>>

StopStream(d) ==
    /\ Faults
    /\ stream[d] \in {"opening", "reading"}
    /\ stream' = [stream EXCEPT ![d] = IF @ = "reading" THEN "lost"
                                                        ELSE "closed"]
    /\ UNCHANGED <<kind, ttl, login, uses, logout, task>>

Init ==
    /\ kind \in [Ids -> {"temp"}]
    /\ ttl = [s \in Ids |-> Absent]
    /\ login = [s \in Ids |-> "none"]
    /\ stream = [d \in Streams |-> "closed"]
    /\ uses \in [Streams -> Ids]
    /\ \A d, e \in Streams : uses[d] = uses[e]
    /\ logout = {}
    /\ task = {}

Next ==
    \/ \E s \in Ids : \/ StoreSession(s) \/ FinishLogin(s)
                      \/ Authenticate(s) \/ Remove(s) \/ StopLogin(s)
    \/ \E d \in Streams : \/ OpenStream(d) \/ Unexpire(d)
                          \/ CloseStream(d) \/ StopStream(d)
    \/ ListKeys \/ ClearSessions \/ TimeoutAllSessions
    \/ Tick

Spec == Init /\ [][Next]_vars

\* Time goes on, and a handler that has started sends its next command.  A
\* client may read for ever, and nobody need log in or out.
Fairness ==
    /\ WF_vars(Tick)
    /\ \A s \in Ids : WF_vars(FinishLogin(s) \/ StopLogin(s))
    /\ \A d \in Streams : WF_vars(Unexpire(d))

FairSpec == Spec /\ Fairness
-----------------------------------------------------------------------------
TypeOK ==
    /\ kind \in [Ids -> Kinds]
    /\ ttl \in [Ids -> 0 .. Forever]
    /\ login \in [Ids -> {"none", "stored", "done", "lost"}]
    /\ stream \in [Streams -> {"closed", "opening", "reading", "lost"}]
    /\ uses \in [Streams -> Ids]
    /\ logout \subseteq Ids
    /\ task \subseteq Ids

\* A session has no time to live only while a login is storing it or a stream
\* reads with it, or when one of these was stopped halfway: everything else a
\* client left behind expires, however many streams shared it.
UnattendedExpires ==
    \A s \in Ids :
        ttl[s] = Forever =>
            \/ login[s] \in {"stored", "lost"}
            \/ \E d \in Streams :
                  stream[d] \in {"reading", "lost"} /\ uses[d] = s

\* A session that is gone (logged out, expired or cleared) is not there again:
\* no late Expire or Unexpire of a stream that used it brings it back.
GoneStaysGone ==
    [][\A s \in Ids : login[s] # "none" /\ ~ Exists(s) => ~ Exists(s)']_vars

\* A session that nobody reads with any more, that no stream that died has left
\* without a time to live, and that the administrator leaves alone, is gone in
\* the end: a task that times all sessions out gives each a new time to live, and
\* one that is run again and again keeps them for ever.
AbandonedExpires ==
    \A s \in Ids :
        <>[](/\ \A d \in Streams : stream[d] = "closed" \/ uses[d] # s
             /\ s \notin task)
            => []<>(login[s] # "done" \/ ~ Exists(s))
=============================================================================
