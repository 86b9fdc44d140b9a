--------------------------- MODULE Sessions_proofs ---------------------------
(***************************************************************************)
(* Sessions expire, and stay gone, for any number of sessions and streams  *)
(* and any times to live.                                                  *)
(***************************************************************************)
EXTENDS Sessions, TLAPS

\* Both times to live are positive numbers, and Forever is beyond them.
LEMMA TTLType ==
  /\ \A k \in Kinds : TTL(k) \in Nat \ {0} /\ TTL(k) < Forever
  /\ Forever \in Nat \ {0}
  /\ TempSessionTTLSecs \in Nat /\ TempSessionTTLSecs < Forever
<1>1. Hour \in Nat \ {0}
  BY SessionsAssumption DEF Hour
<1>2. PersistSessionTTLDays * HoursPerDay \in Nat \ {0}
  BY SessionsAssumption
<1>3. (PersistSessionTTLDays * HoursPerDay) * Hour \in Nat \ {0}
  BY <1>1, <1>2
<1>4. TTL("persist") \in Nat \ {0} /\ TTL("temp") \in Nat \ {0}
  BY <1>3, SessionsAssumption DEF TTL
<1>5. TTL("temp") = TempSessionTTLSecs
  BY DEF TTL
<1> QED
  BY <1>4, <1>5 DEF Forever, Kinds

LEMMA InitType == Init => TypeOK
  BY TTLType DEF Init, TypeOK, Kinds, Absent

\* EXPIRE and PERSIST keep the times to live in range.
LEMMA SetTTLType ==
  ASSUME TypeOK, NEW s \in Ids, NEW n \in 0 .. Forever
  PROVE  SetTTL(s, n) \in [Ids -> 0 .. Forever]
  BY TTLType DEF SetTTL, TypeOK, Absent

LEMMA StepType == TypeOK /\ [Next]_vars => TypeOK'
<1> SUFFICES ASSUME TypeOK, [Next]_vars PROVE TypeOK'
  OBVIOUS
<1>0. /\ Forever \in 0 .. Forever /\ 0 \in 0 .. Forever
      /\ TempSessionTTLSecs \in 0 .. Forever
      /\ \A k \in Kinds : TTL(k) \in 0 .. Forever
  BY TTLType
<1>1. ASSUME NEW s \in Ids, StoreSession(s) PROVE TypeOK'
  BY <1>0, <1>1 DEF StoreSession, TypeOK
<1>2. ASSUME NEW s \in Ids, FinishLogin(s) PROVE TypeOK'
  <2>1. TTL(kind[s]) \in 0 .. Forever
    BY <1>0 DEF TypeOK
  <2> QED
    BY <1>2, <2>1, SetTTLType DEF FinishLogin, TypeOK
<1>3. ASSUME NEW s \in Ids, Authenticate(s) PROVE TypeOK'
  BY <1>3 DEF Authenticate, TypeOK
<1>4. ASSUME NEW s \in Ids, Remove(s) PROVE TypeOK'
  BY <1>0, <1>4 DEF Remove, TypeOK, Absent
<1>5. ASSUME NEW s \in Ids, StopLogin(s) PROVE TypeOK'
  BY <1>5 DEF StopLogin, TypeOK
<1>6. ASSUME NEW d \in Streams, OpenStream(d) PROVE TypeOK'
  BY <1>6 DEF OpenStream, TypeOK
<1>7. ASSUME NEW d \in Streams, Unexpire(d) PROVE TypeOK'
  <2>1. uses[d] \in Ids
    BY DEF TypeOK
  <2> QED
    BY <1>0, <1>7, <2>1, SetTTLType DEF Unexpire, Opening, TypeOK
<1>8. ASSUME NEW d \in Streams, CloseStream(d) PROVE TypeOK'
  <2>1. uses[d] \in Ids /\ TTL(kind[uses[d]]) \in 0 .. Forever
    BY <1>0 DEF TypeOK
  <2> QED
    BY <1>8, <2>1, SetTTLType DEF CloseStream, Closing, TypeOK
<1>9. ASSUME NEW d \in Streams, StopStream(d) PROVE TypeOK'
  BY <1>9 DEF StopStream, TypeOK
<1>10. CASE ListKeys
  BY <1>10 DEF ListKeys, TypeOK
<1>11. CASE ClearSessions
  BY <1>0, <1>11 DEF ClearSessions, TypeOK, Absent
<1>12. CASE TimeoutAllSessions
  <2>1. PICK dur \in {0, TempSessionTTLSecs} :
          ttl' = [s \in Ids |->
                    IF s \in task /\ Exists(s) THEN dur ELSE ttl[s]]
    BY <1>12 DEF TimeoutAllSessions
  <2> QED
    BY <1>0, <1>12, <2>1 DEF TimeoutAllSessions, TypeOK
<1>13. CASE Tick
  <2>1. \A s \in Ids : ttl[s] # Absent => ttl[s] - 1 \in 0 .. Forever
    BY TTLType DEF TypeOK, Absent
  <2> QED
    BY <1>13, <2>1 DEF Tick, TypeOK
<1>14. CASE UNCHANGED vars
  BY <1>14 DEF vars, TypeOK
<1> QED
  BY <1>1, <1>2, <1>3, <1>4, <1>5, <1>6, <1>7, <1>8, <1>9, <1>10, <1>11,
     <1>12, <1>13, <1>14 DEF Next

\* Sessions, logins, streams and tasks are well formed; no time to live is
\* negative or longer than it can be.
THEOREM SessionsTypeCorrect == Spec => []TypeOK
  BY InitType, StepType, PTL DEF Spec

LEMMA InitUnattended == Init => UnattendedExpires
  BY TTLType DEF Init, UnattendedExpires, Absent

LEMMA StepUnattended ==
  ASSUME TypeOK, UnattendedExpires, [Next]_vars
  PROVE  UnattendedExpires'
<1> DEFINE Attended(s) ==
             \/ login[s] \in {"stored", "lost"}
             \/ \E d \in Streams :
                   stream[d] \in {"reading", "lost"} /\ uses[d] = s
<1> SUFFICES ASSUME NEW s \in Ids, ttl'[s] = Forever
             PROVE  Attended(s)'
  BY DEF UnattendedExpires
<1>0. /\ ttl[s] = Forever => Attended(s)
      /\ ttl[s] \in 0 .. Forever /\ Forever \in Nat \ {0}
      /\ \A k \in Kinds : TTL(k) # Forever
      /\ 0 # Forever /\ TempSessionTTLSecs # Forever
  BY TTLType DEF UnattendedExpires, TypeOK
<1>1. ASSUME NEW t \in Ids, StoreSession(t) PROVE Attended(s)'
  BY <1>0, <1>1 DEF StoreSession, TypeOK
<1>2. ASSUME NEW t \in Ids, FinishLogin(t) PROVE Attended(s)'
  BY <1>0, <1>2 DEF FinishLogin, SetTTL, TypeOK, Absent
<1>3. ASSUME NEW t \in Ids, Authenticate(t) PROVE Attended(s)'
  BY <1>0, <1>3 DEF Authenticate
<1>4. ASSUME NEW t \in Ids, Remove(t) PROVE Attended(s)'
  BY <1>0, <1>4 DEF Remove, TypeOK, Absent
<1>5. ASSUME NEW t \in Ids, StopLogin(t) PROVE Attended(s)'
  BY <1>0, <1>5 DEF StopLogin, TypeOK
<1>6. ASSUME NEW d \in Streams, OpenStream(d) PROVE Attended(s)'
  BY <1>0, <1>6 DEF OpenStream, TypeOK
<1>7. ASSUME NEW d \in Streams, Unexpire(d) PROVE Attended(s)'
  <2>1. CASE s = uses[d]
    BY <1>7, <2>1 DEF Unexpire, TypeOK
  <2>2. CASE s # uses[d]
    BY <1>0, <1>7, <2>2 DEF Unexpire, Opening, SetTTL, TypeOK
  <2> QED
    BY <2>1, <2>2
<1>8. ASSUME NEW d \in Streams, CloseStream(d) PROVE Attended(s)'
  <2>1. kind[uses[d]] \in Kinds /\ uses[d] \in Ids
    BY DEF TypeOK
  <2>2. s # uses[d] /\ ttl[s] = Forever
    BY <1>0, <1>8, <2>1 DEF CloseStream, Closing, SetTTL, TypeOK, Absent
  <2> QED
    BY <1>0, <1>8, <2>2 DEF CloseStream, TypeOK
<1>9. ASSUME NEW d \in Streams, StopStream(d) PROVE Attended(s)'
  BY <1>0, <1>9 DEF StopStream, TypeOK
<1>10. CASE ListKeys
  BY <1>0, <1>10 DEF ListKeys
<1>11. CASE ClearSessions
  BY <1>0, <1>11 DEF ClearSessions, Absent
<1>12. CASE TimeoutAllSessions
  <2>1. PICK dur \in {0, TempSessionTTLSecs} :
          ttl' = [t \in Ids |->
                    IF t \in task /\ Exists(t) THEN dur ELSE ttl[t]]
    BY <1>12 DEF TimeoutAllSessions
  <2> QED
    BY <1>0, <1>12, <2>1 DEF TimeoutAllSessions
<1>13. CASE Tick
  <2>1. ttl[s] = Forever
    BY <1>0, <1>13 DEF Tick, Absent
  <2> QED
    BY <1>0, <1>13, <2>1 DEF Tick
<1>14. CASE UNCHANGED vars
  BY <1>0, <1>14 DEF vars
<1> QED
  BY <1>1, <1>2, <1>3, <1>4, <1>5, <1>6, <1>7, <1>8, <1>9, <1>10, <1>11,
     <1>12, <1>13, <1>14 DEF Next

\* Only a login or a stream that is under way, or that was stopped halfway,
\* keeps a session from expiring.
THEOREM NothingLeftForever == Spec => []UnattendedExpires
<1>1. TypeOK /\ UnattendedExpires /\ [Next]_vars => UnattendedExpires'
  BY StepUnattended
<1> QED
  BY InitUnattended, SessionsTypeCorrect, <1>1, PTL DEF Spec

\* However the handlers of a session's streams, its logout and the tasks
\* interleave, and wherever they stop, a session that is gone stays gone.
THEOREM GoneForGood == Spec => GoneStaysGone
<1> DEFINE Stays == \A s \in Ids :
             login[s] # "none" /\ ~ Exists(s) => ~ Exists(s)'
<1>1. TypeOK /\ [Next]_vars => [Stays]_vars
  <2> SUFFICES ASSUME TypeOK, Next, NEW s \in Ids,
                      login[s] # "none", ttl[s] = Absent
               PROVE  ttl'[s] = Absent
    BY DEF Exists
  <2>1. ASSUME NEW t \in Ids, NEW n \in 0 .. Forever, ttl' = SetTTL(t, n)
        PROVE  ttl'[s] = Absent
    BY <2>1 DEF SetTTL, TypeOK
  <2>2. /\ Forever \in 0 .. Forever
        /\ \A k \in Kinds : TTL(k) \in 0 .. Forever
    BY TTLType
  <2>3. ASSUME NEW t \in Ids,
               \/ StoreSession(t) \/ FinishLogin(t) \/ Authenticate(t)
               \/ Remove(t) \/ StopLogin(t)
        PROVE  ttl'[s] = Absent
    <3>1. CASE StoreSession(t)
      BY <3>1 DEF StoreSession, TypeOK
    <3>2. CASE FinishLogin(t)
      BY <2>1, <2>2, <3>2 DEF FinishLogin, TypeOK
    <3>3. CASE Authenticate(t) \/ Remove(t) \/ StopLogin(t)
      BY <3>3 DEF Authenticate, Remove, StopLogin, TypeOK
    <3> QED
      BY <2>3, <3>1, <3>2, <3>3
  <2>4. ASSUME NEW d \in Streams,
               \/ OpenStream(d) \/ Unexpire(d) \/ CloseStream(d)
               \/ StopStream(d)
        PROVE  ttl'[s] = Absent
    <3>1. uses[d] \in Ids /\ kind[uses[d]] \in Kinds
      BY DEF TypeOK
    <3>2. CASE Unexpire(d)
      BY <2>1, <2>2, <3>1, <3>2 DEF Unexpire, Opening
    <3>3. CASE CloseStream(d)
      BY <2>1, <2>2, <3>1, <3>3 DEF CloseStream, Closing
    <3>4. CASE OpenStream(d) \/ StopStream(d)
      BY <3>4 DEF OpenStream, StopStream
    <3> QED
      BY <2>4, <3>2, <3>3, <3>4
  <2>5. CASE ListKeys \/ ClearSessions \/ TimeoutAllSessions \/ Tick
    BY <2>5, TTLType
    DEF ListKeys, ClearSessions, TimeoutAllSessions, Tick, TypeOK, Exists
  <2> QED
    BY <2>3, <2>4, <2>5 DEF Next
<1> QED
  BY SessionsTypeCorrect, <1>1, PTL DEF Spec, GoneStaysGone
-----------------------------------------------------------------------------
\* What AbandonedExpires, which is liveness, rests on: nothing puts off the end
\* of a session but its own login, a stream that uses it, or a task that has
\* listed it. Neither the streams of other sessions nor a logout that comes
\* late do, and with every second there is less left.
THEOREM OnlyUseProlongs ==
  Spec =>
      [][\A s \in Ids :
            ttl'[s] > ttl[s] =>
                \/ login[s] \in {"none", "stored"}
                \/ \E d \in Streams :
                      stream[d] \in {"opening", "reading"} /\ uses[d] = s
                \/ s \in task]_vars
<1> DEFINE Used(s) == \/ login[s] \in {"none", "stored"}
                      \/ \E d \in Streams :
                            stream[d] \in {"opening", "reading"} /\ uses[d] = s
                      \/ s \in task
<1>1. TypeOK /\ [Next]_vars =>
          [\A s \in Ids : ttl'[s] > ttl[s] => Used(s)]_vars
  <2> SUFFICES ASSUME TypeOK, Next, NEW s \in Ids, ttl'[s] > ttl[s]
               PROVE  Used(s)
    OBVIOUS
  <2>0. /\ ttl \in [Ids -> 0 .. Forever] /\ ttl[s] \in Nat /\ ~ (ttl[s] > ttl[s])
        /\ ~ (Absent > ttl[s]) /\ ~ (ttl[s] - 1 > ttl[s])
    BY TTLType DEF TypeOK, Absent
  <2>1. ASSUME NEW t \in Ids, StoreSession(t) \/ FinishLogin(t) PROVE Used(s)
    <3>1. CASE s = t
      BY <2>1, <3>1 DEF StoreSession, FinishLogin
    <3>2. CASE s # t
      <4>1. ttl'[s] = ttl[s]
        BY <2>0, <2>1, <3>2 DEF StoreSession, FinishLogin, SetTTL
      <4> QED
        BY <2>0, <4>1
    <3> QED
      BY <3>1, <3>2
  <2>2. ASSUME NEW t \in Ids, Authenticate(t) \/ StopLogin(t) PROVE FALSE
    BY <2>0, <2>2 DEF Authenticate, StopLogin
  <2>3. ASSUME NEW t \in Ids, Remove(t) PROVE FALSE
    BY <2>0, <2>3 DEF Remove
  <2>4. ASSUME NEW d \in Streams, OpenStream(d) \/ StopStream(d) PROVE FALSE
    BY <2>0, <2>4 DEF OpenStream, StopStream
  <2>5. ASSUME NEW d \in Streams, Unexpire(d) \/ CloseStream(d) PROVE Used(s)
    <3>1. stream[d] \in {"opening", "reading"}
      BY <2>5 DEF Unexpire, CloseStream
    <3>2. CASE uses[d] = s
      BY <3>1, <3>2
    <3>3. CASE uses[d] # s
      <4>1. ttl'[s] = ttl[s]
        BY <2>0, <2>5, <3>3
        DEF Unexpire, CloseStream, Opening, Closing, SetTTL
      <4> QED
        BY <2>0, <4>1
    <3> QED
      BY <3>2, <3>3
  <2>6. CASE ListKeys
    BY <2>0, <2>6 DEF ListKeys
  <2>7. CASE ClearSessions \/ TimeoutAllSessions
    BY <2>0, <2>7 DEF ClearSessions, TimeoutAllSessions
  <2>8. CASE Tick
    BY <2>0, <2>8 DEF Tick
  <2> QED
    BY <2>1, <2>2, <2>3, <2>4, <2>5, <2>6, <2>7, <2>8 DEF Next
<1> QED
  BY <1>1, SessionsTypeCorrect, PTL DEF Spec
=============================================================================
