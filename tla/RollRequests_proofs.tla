------------------------- MODULE RollRequests_proofs -------------------------
(***************************************************************************)
(* What a request to roll goes through: the rate limit first, which        *)
(* rateLimitedMiddleware puts before every handler of the REST routes, and *)
(* then the dice, which every handler that rolls takes off one channel.    *)
(*                                                                         *)
(* What the limit is worth, for any setting, any windows and any number of *)
(* concurrent requests; what the results of a roll obey, for any size of   *)
(* the buffer, of the channel and of the pools.                            *)
(***************************************************************************)
EXTENDS RateLimiter, Dice, SequenceTheorems, FunctionTheorems,
        FiniteSetTheorems, TLAPS
-----------------------------------------------------------------------------
(* The rate limit.                                                           *)

\* A window begins no later than what falls in it, and ends after it.
LEMMA WindowType ==
  ASSUME NEW t \in Time
  PROVE  /\ WindowOf(t) \in Time
         /\ WindowOf(t) <= t
         /\ t < WindowOf(t) + Window
<1>1. Window \in Nat /\ Window > 0 /\ t \in Nat /\ t <= MaxTime
  BY RateLimiterAssumption DEF Time
<1>2. /\ t % Window \in 0 .. (Window - 1)
      /\ t = Window * (t \div Window) + (t % Window)
      /\ t \div Window \in Nat
  BY <1>1
<1>3. Window * (t \div Window) \in Nat
  BY <1>1, <1>2
<1> QED
  BY <1>1, <1>2, <1>3, RateLimiterAssumption DEF WindowOf, Time

LEMMA InitType == Init => TypeOK
  BY RateLimiterAssumption DEF Init, TypeOK, Time

LEMMA StepType == TypeOK /\ [Next]_vars => TypeOK'
<1> SUFFICES ASSUME TypeOK, [Next]_vars PROVE TypeOK'
  OBVIOUS
<1>0. now \in Nat /\ Expiry \in Nat
  BY RateLimiterAssumption DEF TypeOK, Time
<1>1. ASSUME NEW r \in Requests, Arrive(r) PROVE TypeOK'
  <2>1. WindowOf(now) \in Time
    BY WindowType DEF TypeOK
  <2>2. /\ step' \in [Requests -> {"idle", "get", "incr"}]
        /\ key' \in [Requests -> Time]
    BY <1>1, <2>1 DEF Arrive, TypeOK
  <2>3. arrived' \in [Time -> Nat]
    <3>1. arrived' = [arrived EXCEPT ![WindowOf(now)] = @ + 1]
      BY <1>1 DEF Arrive, WindowOf
    <3>2. arrived[WindowOf(now)] + 1 \in Nat
      BY <2>1 DEF TypeOK
    <3> QED
      BY <3>1, <3>2 DEF TypeOK
  <2> QED
    BY <1>1, <2>2, <2>3 DEF Arrive, TypeOK
<1>2. ASSUME NEW r \in Requests, Get(r) PROVE TypeOK'
  <2>1. Exceeds(count[key[r]]) \in BOOLEAN
    BY DEF Exceeds
  <2> QED
    BY <1>2, <2>1 DEF Get, TypeOK
<1>3. ASSUME NEW r \in Requests, Increment(r) PROVE TypeOK'
  <2>1. /\ count' \in [Time -> Nat] /\ expires' \in [Time -> Nat]
        /\ admitted' \in [Time -> Nat]
    <3>1. /\ key[r] \in Time /\ now + Expiry \in Nat
          /\ count[key[r]] + 1 \in Nat /\ admitted[key[r]] + 1 \in Nat
      <4>1. key[r] \in Time
        BY DEF TypeOK
      <4>2. count[key[r]] \in Nat /\ admitted[key[r]] \in Nat
        BY <4>1 DEF TypeOK
      <4> QED
        BY <1>0, <4>1, <4>2
    <3>2. /\ count' = [count EXCEPT ![key[r]] = @ + 1]
          /\ expires' = [expires EXCEPT ![key[r]] = now + Expiry]
          /\ \/ admitted' = admitted
             \/ admitted' = [admitted EXCEPT ![key[r]] = @ + 1]
      BY <1>3 DEF Increment
    <3>3. count' \in [Time -> Nat] /\ expires' \in [Time -> Nat]
      BY <3>1, <3>2 DEF TypeOK
    <3>4. admitted' \in [Time -> Nat]
      BY <3>1, <3>2 DEF TypeOK
    <3> QED
      BY <3>3, <3>4
  <2>2. step' \in [Requests -> {"idle", "get", "incr"}]
    BY <1>3 DEF Increment, TypeOK
  <2> QED
    BY <1>3, <2>1, <2>2 DEF Increment, TypeOK
<1>4. ASSUME NEW r \in Requests, Fail(r) PROVE TypeOK'
  BY <1>4 DEF Fail, TypeOK
<1>5. CASE Tick
  <2>1. now' \in Time
    BY <1>0, <1>5, RateLimiterAssumption DEF Tick, Time
  <2>2. count' \in [Time -> Nat]
    BY <1>5 DEF Tick, TypeOK
  <2> QED
    BY <1>5, <2>1, <2>2 DEF Tick, TypeOK
<1>6. CASE UNCHANGED vars
  BY <1>6 DEF vars, TypeOK
<1> QED
  BY <1>1, <1>2, <1>3, <1>4, <1>5, <1>6 DEF Next

\* The counters and the requests are well formed: a key is that of a window.
THEOREM RateLimiterTypeCorrect == Spec => []TypeOK
  BY InitType, StepType, PTL DEF Spec
-----------------------------------------------------------------------------
\* The requests of window k in the middleware.
Active(k) == {r \in Requests : step[r] # "idle" /\ key[r] = k}

\* Those that are going to be served.
Passing(k) == {r \in Requests : step[r] = "incr" /\ key[r] = k /\ ~ limited[r]}

LEMMA SubsetSize ==
  ASSUME NEW S, S \subseteq Requests
  PROVE  /\ IsFiniteSet(S) /\ Cardinality(S) \in Nat
         /\ Cardinality(S) <= Cardinality(Requests)
         /\ Cardinality(Requests) \in Nat
  BY RateLimiterAssumption, FS_Subset, FS_CardinalityType

\* Only requests that have arrived are counted.
CountedArrived ==
    \A k \in Time : count[k] + Cardinality(Active(k)) <= arrived[k]

CauseInv == TypeOK /\ CountedArrived /\ LimitedForCause

\* Requests move in and out of a window's set one at a time.
LEMMA OneMore ==
  ASSUME NEW S, S \subseteq Requests, NEW r \in Requests, r \notin S
  PROVE  Cardinality(S \cup {r}) = Cardinality(S) + 1
  BY SubsetSize, FS_AddElement

LEMMA OneLess ==
  ASSUME NEW S, S \subseteq Requests, NEW r \in S
  PROVE  Cardinality(S \ {r}) = Cardinality(S) - 1
  BY SubsetSize, FS_RemoveElement

LEMMA ActiveType ==
  ASSUME NEW k
  PROVE  /\ Active(k) \subseteq Requests /\ Cardinality(Active(k)) \in Nat
         /\ Active(k)' \subseteq Requests /\ Cardinality(Active(k)') \in Nat
  BY SubsetSize DEF Active

LEMMA PassingType ==
  ASSUME NEW k
  PROVE  /\ Passing(k) \subseteq Requests /\ Cardinality(Passing(k)) \in Nat
         /\ Passing(k)' \subseteq Requests /\ Cardinality(Passing(k)') \in Nat
         /\ Cardinality(Passing(k)') <= Cardinality(Requests)
         /\ Cardinality(Requests) \in Nat
  BY SubsetSize DEF Passing

LEMMA InitCause == Init => CauseInv
<1> SUFFICES ASSUME Init PROVE CauseInv
  OBVIOUS
<1>1. \A k \in Time : Active(k) = {}
  BY DEF Init, Active
<1>2. CountedArrived
  BY <1>1, FS_EmptySet DEF Init, CountedArrived
<1>3. LimitedForCause
  BY DEF Init, LimitedForCause
<1> QED
  BY InitType, <1>2, <1>3 DEF CauseInv

LEMMA StepCause == CauseInv /\ [Next]_vars => CauseInv'
<1> SUFFICES ASSUME CauseInv, [Next]_vars PROVE CauseInv'
  OBVIOUS
<1>0. TypeOK /\ CountedArrived /\ LimitedForCause /\ TypeOK'
  BY StepType DEF CauseInv
<1>1. ASSUME NEW r \in Requests, Arrive(r) PROVE CauseInv'
  <2> DEFINE w == WindowOf(now)
  <2>1. /\ step[r] = "idle" /\ step' = [step EXCEPT ![r] = "get"]
        /\ key' = [key EXCEPT ![r] = w]
        /\ arrived' = [arrived EXCEPT ![w] = @ + 1]
        /\ UNCHANGED <<count, limited>>
    BY <1>1 DEF Arrive, WindowOf
  <2>2. w \in Time
    BY <1>0, WindowType DEF TypeOK
  <2> HIDE DEF w
  <2>3. ASSUME NEW k \in Time
        PROVE  count'[k] + Cardinality(Active(k)') <= arrived'[k]
    <3>1. CASE k = w
      <4>1. r \notin Active(k) /\ Active(k)' = Active(k) \cup {r}
        BY <1>0, <2>1, <3>1 DEF Active, TypeOK
      <4>2. Cardinality(Active(k)') = Cardinality(Active(k)) + 1
        BY <4>1, ActiveType, OneMore
      <4>3. arrived'[k] = arrived[k] + 1 /\ count'[k] = count[k]
        BY <1>0, <2>1, <2>2, <3>1 DEF TypeOK
      <4> QED
        BY <1>0, <4>2, <4>3, ActiveType DEF CountedArrived, TypeOK
    <3>2. CASE k # w
      <4>1. Active(k)' = Active(k)
        BY <1>0, <2>1, <3>2 DEF Active, TypeOK
      <4>2. arrived'[k] = arrived[k] /\ count'[k] = count[k]
        BY <1>0, <2>1, <3>2 DEF TypeOK
      <4> QED
        BY <1>0, <4>1, <4>2 DEF CountedArrived
    <3> QED
      BY <3>1, <3>2
  <2>4. LimitedForCause'
    <3>1. \A k \in Time : arrived'[k] >= arrived[k]
      BY <1>0, <2>1 DEF TypeOK
    <3> SUFFICES ASSUME NEW q \in Requests, step'[q] = "incr", limited'[q]
                 PROVE  arrived'[key'[q]] > MaxRequestsPer10Secs
      BY DEF LimitedForCause
    <3>2. q # r /\ step[q] = "incr" /\ limited[q] /\ key'[q] = key[q]
      BY <1>0, <2>1 DEF TypeOK
    <3>3. /\ arrived[key[q]] > MaxRequestsPer10Secs
          /\ key[q] \in Time
          /\ arrived[key[q]] \in Nat /\ arrived'[key[q]] \in Nat
      BY <1>0, <3>2 DEF LimitedForCause, TypeOK
    <3> QED
      BY <3>1, <3>2, <3>3, RateLimiterAssumption
  <2> QED
    BY <1>0, <2>3, <2>4 DEF CauseInv, CountedArrived
<1>2. ASSUME NEW r \in Requests, Get(r) PROVE CauseInv'
  <2>1. /\ step[r] = "get" /\ step' = [step EXCEPT ![r] = "incr"]
        /\ limited' = [limited EXCEPT ![r] = Exceeds(count[key[r]])]
        /\ UNCHANGED <<count, key, arrived>>
    BY <1>2 DEF Get
  <2>2. CountedArrived'
    <3>1. ASSUME NEW k \in Time PROVE Active(k)' = Active(k)
      BY <1>0, <2>1 DEF Active, TypeOK
    <3> QED
      BY <1>0, <2>1, <3>1 DEF CountedArrived
  <2>3. LimitedForCause'
    <3> SUFFICES ASSUME NEW q \in Requests, step'[q] = "incr", limited'[q]
                 PROVE  arrived[key[q]] > MaxRequestsPer10Secs
      BY <2>1 DEF LimitedForCause
    <3>1. CASE q = r
      <4>1. count[key[r]] > MaxRequestsPer10Secs /\ key[r] \in Time
        BY <1>0, <2>1, <3>1 DEF Exceeds, TypeOK
      <4>2. count[key[r]] <= arrived[key[r]]
        BY <1>0, <4>1, ActiveType DEF CountedArrived, TypeOK
      <4> QED
        BY <1>0, <3>1, <4>1, <4>2, RateLimiterAssumption DEF TypeOK
    <3>2. CASE q # r
      BY <1>0, <2>1, <3>2 DEF LimitedForCause, TypeOK
    <3> QED
      BY <3>1, <3>2
  <2> QED
    BY <1>0, <2>2, <2>3 DEF CauseInv
<1>3. ASSUME NEW r \in Requests, Increment(r) PROVE CauseInv'
  <2> DEFINE w == key[r]
  <2>1. /\ step[r] = "incr" /\ step' = [step EXCEPT ![r] = "idle"]
        /\ count' = [count EXCEPT ![w] = @ + 1]
        /\ UNCHANGED <<key, limited, arrived>>
    BY <1>3 DEF Increment
  <2>2. w \in Time /\ w = key[r]
    BY <1>0 DEF TypeOK
  <2> HIDE DEF w
  <2>3. ASSUME NEW k \in Time
        PROVE  count'[k] + Cardinality(Active(k)') <= arrived'[k]
    <3>1. CASE k = w
      <4>1. r \in Active(k) /\ Active(k)' = Active(k) \ {r}
        BY <1>0, <2>1, <2>2, <3>1 DEF Active, TypeOK
      <4>2. Cardinality(Active(k)') = Cardinality(Active(k)) - 1
        BY <4>1, ActiveType, OneLess
      <4>3. arrived'[k] = arrived[k] /\ count'[k] = count[k] + 1
        BY <1>0, <2>1, <2>2, <3>1 DEF TypeOK
      <4> QED
        BY <1>0, <4>2, <4>3, ActiveType DEF CountedArrived, TypeOK
    <3>2. CASE k # w
      <4>1. Active(k)' = Active(k)
        BY <1>0, <2>1, <2>2, <3>2 DEF Active, TypeOK
      <4>2. arrived'[k] = arrived[k] /\ count'[k] = count[k]
        BY <1>0, <2>1, <3>2 DEF TypeOK
      <4> QED
        BY <1>0, <4>1, <4>2 DEF CountedArrived
    <3> QED
      BY <3>1, <3>2
  <2>4. LimitedForCause'
    BY <1>0, <2>1 DEF LimitedForCause, TypeOK
  <2> QED
    BY <1>0, <2>3, <2>4 DEF CauseInv, CountedArrived
<1>4. ASSUME NEW r \in Requests, Fail(r) PROVE CauseInv'
  <2>1. /\ step' = [step EXCEPT ![r] = "idle"]
        /\ UNCHANGED <<count, key, limited, arrived>>
    BY <1>4 DEF Fail
  <2>2. ASSUME NEW k \in Time
        PROVE  Cardinality(Active(k)') <= Cardinality(Active(k))
    <3>1. Active(k)' \subseteq Active(k)
      BY <1>0, <2>1 DEF Active, TypeOK
    <3> QED
      BY <3>1, ActiveType, SubsetSize, FS_Subset
  <2>3. CountedArrived'
    BY <1>0, <2>1, <2>2, ActiveType DEF CountedArrived, TypeOK
  <2>4. LimitedForCause'
    BY <1>0, <2>1 DEF LimitedForCause, TypeOK
  <2> QED
    BY <1>0, <2>3, <2>4 DEF CauseInv
<1>5. CASE Tick
  <2>1. /\ UNCHANGED <<step, key, limited, arrived>>
        /\ \A k \in Time : count'[k] = 0 \/ count'[k] = count[k]
    BY <1>5 DEF Tick
  <2>2. \A k \in Time : Active(k)' = Active(k)
    BY <2>1 DEF Active
  <2>3. CountedArrived'
    BY <1>0, <2>1, <2>2, ActiveType DEF CountedArrived, TypeOK
  <2>4. LimitedForCause'
    BY <1>0, <2>1 DEF LimitedForCause
  <2> QED
    BY <1>0, <2>3, <2>4 DEF CauseInv
<1>6. CASE UNCHANGED vars
  BY <1>0, <1>6 DEF vars, CauseInv, CountedArrived, Active, LimitedForCause
<1> QED
  BY <1>1, <1>2, <1>3, <1>4, <1>5, <1>6 DEF Next

\* However requests interleave and wherever they fail, only an address that
\* sent more requests in a window than the setting is limited in it.
THEOREM OnlyForCause == Spec => []LimitedForCause
<1>1. CauseInv => LimitedForCause
  BY DEF CauseInv
<1> QED
  BY InitCause, StepCause, <1>1, PTL DEF Spec
-----------------------------------------------------------------------------
\* A request under way is in time: the key of its window has not expired.
KeyPast ==
    \A r \in Requests :
        step[r] # "idle" => key[r] <= now /\ now < key[r] + Expiry

\* The key of a window that has served a request outlives its requests.
Lasts ==
    \A k \in Time : admitted[k] > 0 => expires[k] >= k + Expiry

\* Until then no request it has served is missing from the count.
NotForgotten ==
    \A k \in Time : admitted[k] <= count[k] \/ now >= k + Expiry

\* The bound, with those that have been let through already.
Room ==
    \A k \in Time :
        admitted[k] + Cardinality(Passing(k))
            <= MaxRequestsPer10Secs + Cardinality(Requests)

BoundInv == TypeOK /\ KeyPast /\ Lasts /\ NotForgotten /\ Room

LEMMA InitBound == Init => BoundInv
<1> SUFFICES ASSUME Init PROVE BoundInv
  OBVIOUS
<1>1. KeyPast /\ Lasts /\ NotForgotten
  BY DEF Init, KeyPast, Lasts, NotForgotten
<1>2. Room
  <2>1. ASSUME NEW k \in Time
        PROVE  admitted[k] = 0 /\ Cardinality(Passing(k)) = 0
    <3>1. Passing(k) = {}
      BY DEF Init, Passing
    <3> QED
      BY <3>1, FS_EmptySet DEF Init
  <2> QED
    BY <2>1, SubsetSize, RateLimiterAssumption DEF Room
<1> QED
  BY InitType, <1>1, <1>2 DEF BoundInv

LEMMA StepBound ==
  ASSUME Prompt
  PROVE  BoundInv /\ [Next]_vars => BoundInv'
<1> SUFFICES ASSUME BoundInv, [Next]_vars PROVE BoundInv'
  OBVIOUS
<1>0. TypeOK /\ KeyPast /\ Lasts /\ NotForgotten /\ Room /\ TypeOK'
  BY StepType DEF BoundInv
<1>N. /\ now \in Nat /\ Expiry \in Nat /\ Time \subseteq Nat
      /\ MaxRequestsPer10Secs \in Nat
  BY <1>0, RateLimiterAssumption DEF TypeOK, Time
<1>1. ASSUME NEW r \in Requests, Arrive(r) PROVE BoundInv'
  <2>1. /\ step[r] = "idle" /\ step' = [step EXCEPT ![r] = "get"]
        /\ key' = [key EXCEPT ![r] = WindowOf(now)]
        /\ UNCHANGED <<now, count, expires, limited, admitted>>
    BY <1>1 DEF Arrive
  <2>2. WindowOf(now) <= now /\ now < WindowOf(now) + Expiry
    <3>1. /\ WindowOf(now) \in Time /\ WindowOf(now) <= now
          /\ now < WindowOf(now) + Window
      BY <1>0, WindowType DEF TypeOK
    <3>2. WindowOf(now) \in Nat
      BY <1>N, <3>1
    <3>3. Window \in Nat /\ Expiry >= Window
      BY RateLimiterAssumption
    <3> HIDE DEF WindowOf
    <3> QED
      BY <1>N, <3>1, <3>2, <3>3
  <2>3. KeyPast'
    BY <1>0, <2>1, <2>2 DEF KeyPast, TypeOK
  <2>4. Lasts' /\ NotForgotten'
    BY <1>0, <2>1 DEF Lasts, NotForgotten
  <2>5. ASSUME NEW k \in Time PROVE Passing(k)' = Passing(k)
    BY <1>0, <2>1 DEF Passing, TypeOK
  <2> QED
    BY <1>0, <2>1, <2>3, <2>4, <2>5 DEF BoundInv, Room
<1>2. ASSUME NEW r \in Requests, Get(r) PROVE BoundInv'
  <2>1. /\ step[r] = "get" /\ step' = [step EXCEPT ![r] = "incr"]
        /\ limited' = [limited EXCEPT ![r] = Exceeds(count[key[r]])]
        /\ UNCHANGED <<now, count, expires, key, admitted>>
    BY <1>2 DEF Get
  <2>2. KeyPast'
    BY <1>0, <2>1 DEF KeyPast, TypeOK
  <2>3. Lasts' /\ NotForgotten'
    BY <1>0, <2>1 DEF Lasts, NotForgotten
  <2>4. ASSUME NEW k \in Time
        PROVE  admitted[k] + Cardinality(Passing(k)')
                   <= MaxRequestsPer10Secs + Cardinality(Requests)
    <3>1. CASE k = key[r] /\ ~ Exceeds(count[k])
      <4>1. admitted[k] <= count[k]
        BY <1>0, <1>N, <2>1, <3>1 DEF KeyPast, NotForgotten
      <4>2. count[k] <= MaxRequestsPer10Secs
        BY <1>0, <1>N, <3>1 DEF Exceeds, TypeOK
      <4>3. admitted[k] \in Nat /\ count[k] \in Nat
        BY <1>0 DEF TypeOK
      <4> QED
        BY <1>N, <4>1, <4>2, <4>3, PassingType
    <3>2. CASE ~ (k = key[r] /\ ~ Exceeds(count[k]))
      <4>1. Passing(k)' = Passing(k)
        BY <1>0, <2>1, <3>2 DEF Passing, TypeOK
      <4> QED
        BY <1>0, <4>1 DEF Room
    <3> QED
      BY <3>1, <3>2
  <2> QED
    BY <1>0, <2>1, <2>2, <2>3, <2>4 DEF BoundInv, Room
<1>3. ASSUME NEW r \in Requests, Increment(r) PROVE BoundInv'
  <2> DEFINE w == key[r]
  <2>1. /\ step[r] = "incr" /\ step' = [step EXCEPT ![r] = "idle"]
        /\ count' = [count EXCEPT ![w] = @ + 1]
        /\ expires' = [expires EXCEPT ![w] = now + Expiry]
        /\ admitted' = IF limited[r] THEN admitted
                       ELSE [admitted EXCEPT ![w] = @ + 1]
        /\ UNCHANGED <<now, key, limited>>
    BY <1>3 DEF Increment
  <2>2. w \in Time /\ w = key[r] /\ w <= now
    BY <1>0, <2>1 DEF KeyPast, TypeOK
  <2> HIDE DEF w
  <2>3. KeyPast'
    BY <1>0, <2>1 DEF KeyPast, TypeOK
  <2>4. ASSUME NEW k \in Time
        PROVE  /\ admitted[k] \in Nat /\ count[k] \in Nat
               /\ k = w => /\ count'[k] = count[k] + 1
                           /\ expires'[k] = now + Expiry
                           /\ admitted'[k] =
                                IF limited[r] THEN admitted[k]
                                ELSE admitted[k] + 1
               /\ k # w => /\ count'[k] = count[k]
                           /\ expires'[k] = expires[k]
                           /\ admitted'[k] = admitted[k]
    BY <1>0, <2>1, <2>2 DEF TypeOK
  <2>5. Lasts'
    BY <1>0, <1>N, <2>2, <2>4 DEF Lasts
  <2>6. NotForgotten'
    BY <1>0, <1>N, <2>1, <2>4 DEF NotForgotten
  <2>7. ASSUME NEW k \in Time
        PROVE  admitted'[k] + Cardinality(Passing(k)')
                   <= MaxRequestsPer10Secs + Cardinality(Requests)
    <3>1. CASE k = w /\ ~ limited[r]
      <4>1. r \in Passing(k) /\ Passing(k)' = Passing(k) \ {r}
        BY <1>0, <2>1, <2>2, <3>1 DEF Passing, TypeOK
      <4>2. Cardinality(Passing(k)') = Cardinality(Passing(k)) - 1
        BY <4>1, PassingType, OneLess
      <4>3. admitted'[k] = admitted[k] + 1 /\ admitted[k] \in Nat
        BY <2>4, <3>1
      <4>4. Cardinality(Passing(k)) \in Nat
        BY PassingType
      <4>5. admitted[k] + Cardinality(Passing(k))
                <= MaxRequestsPer10Secs + Cardinality(Requests)
        BY <1>0 DEF Room
      <4> QED
        BY <4>2, <4>3, <4>4, <4>5
    <3>2. CASE ~ (k = w /\ ~ limited[r])
      <4>1. Passing(k)' = Passing(k)
        BY <1>0, <2>1, <2>2, <3>2 DEF Passing, TypeOK
      <4>2. admitted'[k] = admitted[k]
        BY <2>4, <3>2
      <4> QED
        BY <1>0, <4>1, <4>2 DEF Room
    <3> QED
      BY <3>1, <3>2
  <2> QED
    BY <1>0, <2>3, <2>5, <2>6, <2>7 DEF BoundInv, Room
<1>4. ASSUME NEW r \in Requests, Fail(r) PROVE BoundInv'
  <2>1. /\ step' = [step EXCEPT ![r] = "idle"]
        /\ UNCHANGED <<now, count, expires, key, limited, admitted>>
    BY <1>4 DEF Fail
  <2>2. KeyPast' /\ Lasts' /\ NotForgotten'
    BY <1>0, <2>1 DEF KeyPast, Lasts, NotForgotten, TypeOK
  <2>3. ASSUME NEW k \in Time
        PROVE  Cardinality(Passing(k)') <= Cardinality(Passing(k))
    <3>1. Passing(k)' \subseteq Passing(k)
      BY <1>0, <2>1 DEF Passing, TypeOK
    <3> QED
      BY <3>1, PassingType, SubsetSize, FS_Subset
  <2>4. ASSUME NEW k \in Time
        PROVE  admitted'[k] + Cardinality(Passing(k)')
                   <= MaxRequestsPer10Secs + Cardinality(Requests)
    <3>1. admitted[k] \in Nat /\ admitted'[k] = admitted[k]
      BY <1>0, <2>1 DEF TypeOK
    <3>2. admitted[k] + Cardinality(Passing(k))
              <= MaxRequestsPer10Secs + Cardinality(Requests)
      BY <1>0 DEF Room
    <3> QED
      BY <1>N, <2>3, <3>1, <3>2, PassingType
  <2> QED
    BY <1>0, <2>2, <2>4 DEF BoundInv, Room
<1>5. CASE Tick
  <2>1. /\ now' = now + 1
        /\ count' = [k \in Time |->
                        IF expires[k] <= now + 1 THEN 0 ELSE count[k]]
        /\ UNCHANGED <<expires, step, key, limited, admitted>>
        /\ \A r \in Requests : step[r] # "idle" => now + 1 < key[r] + Expiry
    BY <1>5 DEF Tick
  <2>2. KeyPast'
    <3> SUFFICES ASSUME NEW r \in Requests, step[r] # "idle"
                 PROVE  key[r] <= now + 1 /\ now + 1 < key[r] + Expiry
      BY <2>1 DEF KeyPast
    <3>1. key[r] \in Nat
      BY <1>0, <1>N DEF TypeOK
    <3> QED
      BY <1>0, <1>N, <2>1, <3>1 DEF KeyPast
  <2>3. Lasts'
    BY <1>0, <2>1 DEF Lasts
  <2>4. NotForgotten'
    <3> SUFFICES ASSUME NEW k \in Time
                 PROVE  admitted[k] <= count'[k] \/ now + 1 >= k + Expiry
      BY <2>1 DEF NotForgotten
    <3>1. /\ admitted[k] \in Nat /\ expires[k] \in Nat /\ k \in Nat
          /\ count'[k] = IF expires[k] <= now + 1 THEN 0 ELSE count[k]
      BY <1>0, <1>N, <2>1 DEF TypeOK
    <3>2. CASE expires[k] <= now + 1
      BY <1>0, <1>N, <3>1, <3>2 DEF Lasts
    <3>3. CASE ~ (expires[k] <= now + 1)
      BY <1>0, <1>N, <3>1, <3>3 DEF NotForgotten
    <3> QED
      BY <3>2, <3>3
  <2>5. \A k \in Time : Passing(k)' = Passing(k)
    BY <2>1 DEF Passing
  <2> QED
    BY <1>0, <2>1, <2>2, <2>3, <2>4, <2>5 DEF BoundInv, Room
<1>6. CASE UNCHANGED vars
  BY <1>0, <1>6 DEF vars, BoundInv, KeyPast, Lasts, NotForgotten, Room,
                    Passing
<1> QED
  BY <1>1, <1>2, <1>3, <1>4, <1>5, <1>6 DEF Next

\* What the limit is worth: if requests get through before their key may
\* expire, a window serves no more of them than the setting and the requests
\* that can be between GET and INCR at a time.
THEOREM BoundedAdmission ==
  ASSUME Prompt
  PROVE  Spec => []AdmittedBound
<1>1. BoundInv => AdmittedBound
  <2> SUFFICES ASSUME BoundInv, NEW k \in Time
               PROVE  admitted[k] <= MaxRequestsPer10Secs
                                        + Cardinality(Requests)
    BY DEF AdmittedBound
  <2>1. /\ admitted[k] \in Nat
        /\ admitted[k] + Cardinality(Passing(k))
               <= MaxRequestsPer10Secs + Cardinality(Requests)
    BY DEF BoundInv, TypeOK, Room
  <2> QED
    BY <2>1, PassingType, RateLimiterAssumption
<1> QED
  BY InitBound, StepBound, <1>1, PTL DEF Spec
-----------------------------------------------------------------------------
(* The dice.                                                                 *)

\* What is known of a handler between two dice: it counts the dice of its round
\* and no other's, and it has to take as many as its rule says.
Drawing(r) ==
    /\ Len(r.round) < r.pool
    /\ r.tally = Cardinality(Among(r.round, Counted(r.kind)))
    /\ r.kind \in {"fill", "reroll"} => r.rounds = <<>>
    /\ r.kind = "reroll" => r.pool = Cardinality(Misses(r.original))

\* What is known of its results when it has them all.
Drawn(r) ==
    /\ r.round = <<>> /\ r.rounds # <<>>
    /\ r.kind \in {"fill", "reroll"} =>
          /\ Len(r.rounds) = 1
          /\ r.tally = Cardinality(Among(r.rounds[1], {5, 6}))
    /\ r.kind = "reroll" => Rerolls(r.rounds[1], r.original)

Ruled(r) ==
    /\ r.kind = "none" => r = NoRoll
    /\ r.kind # "none" => IF r.pool > 0 THEN Drawing(r) ELSE Drawn(r)
    /\ Len(r.rounds) <= 2
    /\ r.kind = "explode" /\ r.rounds # <<>> => RuleOfSix(r.rounds, r.pool)

DiceInv == \A h \in Handlers : Ruled(roll[h])
-----------------------------------------------------------------------------
(* Lemmas about dice: how many of them there are among those of a sequence.  *)

LEMMA UpTo ==
  ASSUME NEW n \in Nat
  PROVE  IsFiniteSet(1 .. n) /\ Cardinality(1 .. n) = n
<1>1. 1 \in Int /\ n \in Int
  OBVIOUS
<1>2. /\ IsFiniteSet(1 .. n)
      /\ Cardinality(1 .. n) = IF 1 > n THEN 0 ELSE n - 1 + 1
  BY <1>1, FS_Interval, Zenon
<1> QED
  BY <1>2

LEMMA AmongType ==
  ASSUME NEW s \in Seq(Faces), NEW S
  PROVE  /\ Among(s, S) \subseteq 1 .. Len(s) /\ Len(s) \in Nat
         /\ IsFiniteSet(Among(s, S)) /\ Cardinality(Among(s, S)) \in Nat
         /\ Cardinality(Among(s, S)) <= Len(s)
<1>1. DOMAIN s = 1 .. Len(s) /\ Len(s) \in Nat
  BY LenProperties
<1>2. IsFiniteSet(1 .. Len(s)) /\ Cardinality(1 .. Len(s)) = Len(s)
  BY <1>1, UpTo
<1>3. Among(s, S) \subseteq 1 .. Len(s)
  BY <1>1 DEF Among
<1> QED
  BY <1>1, <1>2, <1>3, FS_Subset, FS_CardinalityType

LEMMA NoDice == \A S : Among(<<>>, S) = {} /\ Cardinality(Among(<<>>, S)) = 0
<1>1. DOMAIN <<>> = {}
  OBVIOUS
<1> QED
  BY <1>1, FS_EmptySet DEF Among

\* One die more is one more among those of S, or none.
LEMMA DieMore ==
  ASSUME NEW s \in Seq(Faces), NEW die \in Faces, NEW S
  PROVE  /\ Append(s, die) \in Seq(Faces)
         /\ Len(Append(s, die)) = Len(s) + 1
         /\ Cardinality(Among(Append(s, die), S)) =
               Cardinality(Among(s, S)) + IF die \in S THEN 1 ELSE 0
<1>1. /\ Append(s, die) \in Seq(Faces)
      /\ Len(Append(s, die)) = Len(s) + 1 /\ Len(s) \in Nat
      /\ DOMAIN s = 1 .. Len(s)
      /\ DOMAIN Append(s, die) = 1 .. Len(s) + 1
      /\ \A i \in 1 .. Len(s) : Append(s, die)[i] = s[i]
      /\ Append(s, die)[Len(s) + 1] = die
  BY AppendProperties, LenProperties
<1> DEFINE t == Append(s, die)
<1> HIDE DEF t
<1>2. Among(t, S) = IF die \in S THEN Among(s, S) \cup {Len(s) + 1}
                    ELSE Among(s, S)
  BY <1>1 DEF Among, t
<1>3. Len(s) + 1 \notin Among(s, S) /\ IsFiniteSet(Among(s, S))
      /\ Cardinality(Among(s, S)) \in Nat
  BY <1>1, AmongType
<1>4. Cardinality(Among(t, S)) =
          Cardinality(Among(s, S)) + IF die \in S THEN 1 ELSE 0
  <2>1. CASE die \in S
    <3>1. Cardinality(Among(s, S) \cup {Len(s) + 1}) =
              Cardinality(Among(s, S)) + 1
      BY <1>3, FS_AddElement, Zenon
    <3> QED
      BY <1>2, <2>1, <3>1
  <2>2. CASE die \notin S
    BY <1>2, <1>3, <2>2
  <2> QED
    BY <2>1, <2>2
<1> QED
  BY <1>1, <1>4 DEF t

\* A die is a miss or a hit.
LEMMA MissOrHit ==
  ASSUME NEW s \in Seq(Faces)
  PROVE  Cardinality(Misses(s)) + Cardinality(Among(s, {5, 6})) = Len(s)
<1>1. DOMAIN s = 1 .. Len(s) /\ Len(s) \in Nat
      /\ \A i \in 1 .. Len(s) : s[i] \in Faces
  BY LenProperties, ElementOfSeq
<1>2. /\ Misses(s) \cup Among(s, {5, 6}) = 1 .. Len(s)
      /\ Misses(s) \cap Among(s, {5, 6}) = {}
  BY <1>1 DEF Misses, Among, Faces
<1>3. /\ IsFiniteSet(Misses(s)) /\ Cardinality(Misses(s)) \in Nat
      /\ IsFiniteSet(Among(s, {5, 6}))
      /\ Cardinality(Among(s, {5, 6})) \in Nat
  BY AmongType DEF Misses
<1>4. Cardinality(1 .. Len(s)) = Len(s)
  BY <1>1, UpTo
<1>5. Cardinality(Misses(s) \cup Among(s, {5, 6})) =
          Cardinality(Misses(s)) + Cardinality(Among(s, {5, 6}))
              - Cardinality(Misses(s) \cap Among(s, {5, 6}))
  BY <1>3, FS_Union, Zenon
<1>6. /\ Cardinality(Misses(s) \cup Among(s, {5, 6})) = Len(s)
      /\ Cardinality(Misses(s) \cap Among(s, {5, 6})) = 0
  BY <1>2, <1>4, FS_EmptySet, Zenon
<1>7. PICK m : m = Cardinality(Misses(s))
  OBVIOUS
<1>8. PICK a : a = Cardinality(Among(s, {5, 6}))
  OBVIOUS
<1>9. m \in Nat /\ a \in Nat /\ Len(s) \in Nat /\ Len(s) = m + a - 0
  BY <1>1, <1>3, <1>5, <1>6, <1>7, <1>8, Zenon
<1>10. m + a = Len(s)
  BY <1>9
<1> QED
  BY <1>7, <1>8, <1>10, Zenon

LEMMA DieType == \A b \in Bytes : Die(b) \in Faces
<1> SUFFICES ASSUME NEW b \in Bytes PROVE Die(b) \in Faces
  OBVIOUS
<1>1. b \in Nat
  BY DiceAssumption DEF MaxUint8
<1> QED
  BY <1>1 DEF Die, Faces, rollMax
-----------------------------------------------------------------------------
(* What a die that is taken does to the roll of its handler. *)

LEMMA Lengths ==
  ASSUME NEW S, NEW s \in Seq(S)
  PROVE  Len(s) \in Nat /\ (s = <<>> <=> Len(s) = 0)
  BY LenProperties, EmptySeq

LEMMA Appended ==
  ASSUME NEW S, NEW s \in Seq(S), NEW x \in S
  PROVE  /\ Append(s, x) \in Seq(S) /\ Append(s, x) # <<>>
         /\ Len(Append(s, x)) = Len(s) + 1 /\ Len(s) \in Nat
         /\ \A i \in 1 .. Len(s) : Append(s, x)[i] = s[i]
         /\ Append(s, x)[Len(s) + 1] = x
  BY AppendProperties, LenProperties

LEMMA HeadTail ==
  ASSUME NEW S, NEW s \in Seq(S), s # <<>>
  PROVE  /\ Head(s) \in S /\ Tail(s) \in Seq(S)
         /\ Len(Tail(s)) = Len(s) - 1
         /\ \A i \in 1 .. Len(Tail(s)) : Tail(s)[i] = s[i + 1]
  BY HeadTailProperties, EmptySeq

\* Of at most two rounds, and a new one, the new one is the last, and the one
\* before it is the last there was.
LEMMA KeptType ==
  ASSUME NEW S, NEW rounds \in Seq(S), Len(rounds) <= 2, NEW round \in S
  PROVE  /\ Kept(rounds, round) \in Seq(S) /\ Len(Kept(rounds, round)) \in 1 .. 2
         /\ Kept(rounds, round) # <<>>
         /\ Kept(rounds, round)[Len(Kept(rounds, round))] = round
         /\ rounds = <<>> => Len(Kept(rounds, round)) = 1
         /\ Len(Kept(rounds, round)) = 2 =>
               rounds # <<>> /\ Kept(rounds, round)[1] = rounds[Len(rounds)]
<1>1. PICK n : n = Len(rounds)
  OBVIOUS
<1>2. n \in Nat /\ n <= 2 /\ (rounds = <<>> <=> n = 0)
  BY <1>1, Lengths, Zenon
<1>3. n = 0 \/ n = 1 \/ n = 2
  BY <1>2
<1>4. CASE n = 2
  <2>1. PICK t : t = Tail(rounds)
    OBVIOUS
  <2>2. rounds # <<>>
    BY <1>2, <1>4
  <2>3. /\ t \in Seq(S) /\ Len(t) = n - 1
        /\ \A i \in 1 .. Len(t) : t[i] = rounds[i + 1]
    BY <1>1, <2>1, <2>2, HeadTail, Zenon
  <2>4. Len(t) = 1 /\ t[1] = rounds[2]
    BY <1>4, <2>3
  <2>5. /\ Append(t, round) \in Seq(S) /\ Append(t, round) # <<>>
        /\ Len(Append(t, round)) = Len(t) + 1
        /\ \A i \in 1 .. Len(t) : Append(t, round)[i] = t[i]
        /\ Append(t, round)[Len(t) + 1] = round
    BY <2>3, Appended
  <2>6. Kept(rounds, round) = Append(t, round)
    BY <1>1, <1>4, <2>1 DEF Kept
  <2>7. Len(Append(t, round)) = 2 /\ Append(t, round)[1] = rounds[2]
    BY <2>4, <2>5
  <2> QED
    BY <1>1, <1>4, <2>2, <2>4, <2>5, <2>6, <2>7
<1>5. CASE n \in {0, 1}
  <2>1. Kept(rounds, round) = Append(rounds, round)
    BY <1>1, <1>5 DEF Kept
  <2>2. PICK s : s = Append(rounds, round)
    OBVIOUS
  <2>3. /\ s \in Seq(S) /\ s # <<>> /\ Len(s) = n + 1
        /\ \A i \in 1 .. n : s[i] = rounds[i]
        /\ s[n + 1] = round
    BY <1>1, <2>2, Appended
  <2>4. /\ Len(s) \in 1 .. 2 /\ s[Len(s)] = round
        /\ n = 0 => Len(s) = 1
        /\ Len(s) = 2 => n # 0 /\ s[1] = rounds[n]
    BY <1>5, <2>3
  <2> QED
    BY <1>1, <1>2, <2>1, <2>2, <2>3, <2>4, Zenon
<1> QED
  BY <1>3, <1>4, <1>5
-----------------------------------------------------------------------------
GoesOn(r, round, tally) == [r EXCEPT !.round = round, !.tally = tally]

RoundEnds(r, round, pool, tally) ==
    [r EXCEPT !.round = <<>>, !.rounds = Kept(r.rounds, round),
              !.pool = pool, !.tally = tally]

TallyWith(r, die) == r.tally + (IF die \in Counted(r.kind) THEN 1 ELSE 0)

\* What a die makes of roll r of handler h.
AfterDie(h, r, die) ==
    IF Len(Append(r.round, die)) < r.pool
    THEN GoesOn(r, Append(r.round, die), TallyWith(r, die))
    ELSE RoundEnds(r, Append(r.round, die), NextPool(h, TallyWith(r, die)),
                   IF NextPool(h, TallyWith(r, die)) > 0 THEN 0
                   ELSE TallyWith(r, die))

LEMMA TakeForm ==
  ASSUME NEW h, Take(h)
  PROVE  /\ Rolling(h) /\ rollsChan # <<>>
         /\ rollsChan' = Tail(rollsChan)
         /\ roll' = [roll EXCEPT ![h] = AfterDie(h, roll[h], Head(rollsChan))]
         /\ unread' = unread /\ sixes' = sixes
<1>1. roll' = [roll EXCEPT ![h] = AfterDie(h, roll[h], Head(rollsChan))]
  BY Zenon DEF Take, AfterDie, GoesOn, RoundEnds, TallyWith
<1> QED
  BY <1>1 DEF Take

LEMMA GoesOnType ==
  ASSUME NEW r \in Roll, NEW round \in Seq(Faces), NEW tally \in Nat
  PROVE  /\ GoesOn(r, round, tally) \in Roll
         /\ GoesOn(r, round, tally).kind = r.kind
         /\ GoesOn(r, round, tally).original = r.original
         /\ GoesOn(r, round, tally).pool = r.pool
         /\ GoesOn(r, round, tally).rounds = r.rounds
         /\ GoesOn(r, round, tally).round = round
         /\ GoesOn(r, round, tally).tally = tally
  BY DEF Roll, GoesOn

LEMMA RoundEndsType ==
  ASSUME NEW r \in Roll, NEW round \in Seq(Faces), NEW pool \in Nat,
         NEW tally \in Nat, Kept(r.rounds, round) \in Seq(Seq(Faces))
  PROVE  /\ RoundEnds(r, round, pool, tally) \in Roll
         /\ RoundEnds(r, round, pool, tally).kind = r.kind
         /\ RoundEnds(r, round, pool, tally).original = r.original
         /\ RoundEnds(r, round, pool, tally).pool = pool
         /\ RoundEnds(r, round, pool, tally).rounds = Kept(r.rounds, round)
         /\ RoundEnds(r, round, pool, tally).round = <<>>
         /\ RoundEnds(r, round, pool, tally).tally = tally
<1>1. <<>> \in Seq(Faces)
  BY EmptySeq
<1> QED
  BY <1>1 DEF Roll, RoundEnds

\* A die that is taken keeps the rules of the roll, and the round that it may
\* begin is no larger than the one it ends.
LEMMA DieTaken ==
  ASSUME NEW h, NEW r \in Roll, r = roll[h], Ruled(r), r.pool > 0,
         NEW die \in Faces
  PROVE  /\ AfterDie(h, r, die) \in Roll /\ Ruled(AfterDie(h, r, die))
         /\ AfterDie(h, r, die).pool <= r.pool
<1>1. /\ r.kind \in {"fill", "explode", "reroll"} /\ r.original \in Seq(Faces)
      /\ r.pool \in Nat /\ r.round \in Seq(Faces) /\ r.tally \in Nat
      /\ r.rounds \in Seq(Seq(Faces)) /\ Len(r.rounds) <= 2
  <2>1. r.kind # "none"
    BY DEF Ruled, NoRoll
  <2> QED
    BY <2>1 DEF Roll, Ruled
<1>2. Drawing(r)
  BY <1>1 DEF Ruled
<1>3. PICK round : round = Append(r.round, die)
  OBVIOUS
<1>4. PICK tally : tally = TallyWith(r, die)
  OBVIOUS
<1>5. PICK next : next = NextPool(h, tally)
  OBVIOUS
<1>6. /\ round \in Seq(Faces) /\ Len(round) = Len(r.round) + 1
      /\ tally \in Nat
      /\ tally = Cardinality(Among(round, Counted(r.kind)))
  <2>1. /\ round \in Seq(Faces) /\ Len(round) = Len(r.round) + 1
        /\ Cardinality(Among(round, Counted(r.kind))) =
              Cardinality(Among(r.round, Counted(r.kind)))
                  + IF die \in Counted(r.kind) THEN 1 ELSE 0
    BY <1>1, <1>3, DieMore
  <2>2. tally = Cardinality(Among(r.round, Counted(r.kind)))
                  + IF die \in Counted(r.kind) THEN 1 ELSE 0
    BY <1>2, <1>4 DEF TallyWith, Drawing
  <2>3. tally = Cardinality(Among(round, Counted(r.kind)))
    BY <2>1, <2>2
  <2> QED
    BY <2>1, <2>3, AmongType
<1>7. next \in Nat /\ next = IF r.kind = "explode" THEN tally ELSE 0
  BY <1>5, <1>6 DEF NextPool
<1>8. /\ Len(r.round) \in Nat /\ Len(r.round) < r.pool
      /\ r.kind \in {"fill", "reroll"} => r.rounds = <<>>
      /\ r.kind = "reroll" => r.pool = Cardinality(Misses(r.original))
  BY <1>1, <1>2, Lengths DEF Drawing
<1>9. CASE Len(round) < r.pool
  <2>1. PICK s : s = GoesOn(r, round, tally)
    OBVIOUS
  <2>2. /\ s \in Roll /\ s.kind = r.kind /\ s.original = r.original
        /\ s.pool = r.pool /\ s.rounds = r.rounds
        /\ s.round = round /\ s.tally = tally
    BY <1>6, <2>1, GoesOnType
  <2>3. AfterDie(h, r, die) = s
    BY <1>3, <1>4, <1>9, <2>1, Zenon DEF AfterDie
  <2>4. Drawing(s)
    BY <1>6, <1>8, <1>9, <2>2 DEF Drawing
  <2>5. s.kind = "explode" /\ s.rounds # <<>> => RuleOfSix(s.rounds, s.pool)
    BY <2>2 DEF Ruled
  <2>6. Ruled(s)
    BY <1>1, <2>2, <2>4, <2>5 DEF Ruled
  <2> QED
    BY <1>1, <2>2, <2>3, <2>6
<1>10. CASE ~ (Len(round) < r.pool)
  <2>1. Len(round) = r.pool
    BY <1>1, <1>6, <1>8, <1>10
  <2>2. PICK kept : kept = Kept(r.rounds, round)
    OBVIOUS
  <2>3. /\ kept \in Seq(Seq(Faces)) /\ Len(kept) \in 1 .. 2 /\ kept # <<>>
        /\ kept[Len(kept)] = round
        /\ r.rounds = <<>> => Len(kept) = 1
        /\ Len(kept) = 2 =>
              r.rounds # <<>> /\ kept[1] = r.rounds[Len(r.rounds)]
    <3>1. PICK S : S = Seq(Faces)
      OBVIOUS
    <3>2. PICK rounds : rounds = r.rounds
      OBVIOUS
    <3>3. rounds \in Seq(S) /\ Len(rounds) <= 2 /\ round \in S
      BY <1>1, <1>6, <3>1, <3>2
    <3>4. kept = Kept(rounds, round)
      BY <2>2, <3>2
    <3>5. /\ kept \in Seq(S) /\ Len(kept) \in 1 .. 2 /\ kept # <<>>
          /\ kept[Len(kept)] = round
          /\ rounds = <<>> => Len(kept) = 1
          /\ Len(kept) = 2 => rounds # <<>> /\ kept[1] = rounds[Len(rounds)]
      BY <3>3, <3>4, KeptType
    <3> QED
      BY <3>1, <3>2, <3>5
  <2>4. PICK rest : rest = IF next > 0 THEN 0 ELSE tally
    OBVIOUS
  <2>5. rest \in Nat
    BY <1>6, <2>4
  <2>6. PICK s : s = RoundEnds(r, round, next, rest)
    OBVIOUS
  <2>7. /\ s \in Roll /\ s.kind = r.kind /\ s.original = r.original
        /\ s.pool = next /\ s.rounds = kept
        /\ s.round = <<>> /\ s.tally = rest
    BY <1>6, <1>7, <2>2, <2>3, <2>5, <2>6, RoundEndsType
  <2>8. AfterDie(h, r, die) = s
    BY <1>3, <1>4, <1>5, <1>10, <2>4, <2>6, Zenon DEF AfterDie
  <2>9. ASSUME r.kind = "explode" PROVE Ruled(s)
    <3>1. next = Cardinality(Among(round, {6}))
      BY <1>6, <1>7, <2>9 DEF Counted
    <3>2. Len(kept) = 2 =>
              Cardinality(Among(kept[1], {6})) = Len(kept[2])
      <4> HAVE Len(kept) = 2
      <4>1. Cardinality(Among(r.rounds[Len(r.rounds)], {6})) = r.pool
        BY <2>3, <2>9 DEF Ruled, RuleOfSix
      <4> QED
        BY <2>1, <2>3, <4>1
    <3>3. RuleOfSix(s.rounds, s.pool)
      BY <2>3, <2>7, <3>1, <3>2, Zenon DEF RuleOfSix
    <3>4. CASE next > 0
      <4>1. rest = 0
        BY <2>4, <3>4
      <4>2. Len(<<>>) = 0 /\ 0 = Cardinality(Among(<<>>, Counted("explode")))
        BY NoDice
      <4>3. Drawing(s)
        BY <2>7, <2>9, <3>4, <4>1, <4>2 DEF Drawing
      <4> QED
        BY <2>3, <2>7, <2>9, <3>3, <3>4, <4>3 DEF Ruled
    <3>5. CASE ~ (next > 0)
      <4>1. Drawn(s)
        BY <2>3, <2>7, <2>9 DEF Drawn
      <4> QED
        BY <2>3, <2>7, <2>9, <3>3, <3>5, <4>1 DEF Ruled
    <3> QED
      BY <3>4, <3>5
  <2>10. ASSUME r.kind \in {"fill", "reroll"} PROVE Ruled(s)
    <3>1. next = 0 /\ rest = tally
      BY <1>7, <2>4, <2>10
    <3>2. Len(kept) = 1 /\ kept[1] = round
      BY <1>8, <2>3, <2>10
    <3>3. rest = Cardinality(Among(kept[1], {5, 6}))
      BY <1>6, <2>10, <3>1, <3>2 DEF Counted
    <3>4. r.kind = "reroll" => Rerolls(kept[1], r.original)
      <4> HAVE r.kind = "reroll"
      <4>1. Cardinality(Misses(r.original))
                + Cardinality(Among(r.original, {5, 6})) = Len(r.original)
        BY <1>1, MissOrHit
      <4> QED
        BY <1>8, <2>1, <3>2, <4>1 DEF Rerolls
    <3>5. Drawn(s)
      BY <2>3, <2>7, <3>2, <3>3, <3>4 DEF Drawn
    <3> QED
      BY <2>3, <2>7, <2>10, <3>1, <3>5 DEF Ruled
  <2>11. s.pool <= r.pool
    <3>1. tally <= Len(round)
      BY <1>6, AmongType
    <3> QED
      BY <1>6, <1>7, <2>1, <2>7, <3>1
  <2> QED
    BY <1>1, <2>7, <2>8, <2>9, <2>10, <2>11
<1> QED
  BY <1>9, <1>10
-----------------------------------------------------------------------------
(* The invariant. *)

NoRollRuled == NoRoll \in Roll /\ Ruled(NoRoll)

LEMMA NoRollIsRuled == NoRollRuled
<1>1. <<>> \in Seq(Faces) /\ <<>> \in Seq(Seq(Faces)) /\ Len(<<>>) = 0
  BY EmptySeq
<1>2. NoRoll \in Roll
  BY <1>1 DEF NoRoll, Roll
<1>3. NoRoll.kind = "none" /\ NoRoll.rounds = <<>>
  BY DEF NoRoll
<1> QED
  BY <1>1, <1>2, <1>3 DEF NoRollRuled, Ruled

LEMMA InitDice == DiceInit => DiceTypeOK /\ DiceInv
<1> SUFFICES ASSUME DiceInit PROVE DiceTypeOK /\ DiceInv
  OBVIOUS
<1>1. NoRoll \in Roll /\ Ruled(NoRoll)
  BY NoRollIsRuled DEF NoRollRuled
<1>2. <<>> \in Seq(Faces) /\ Len(<<>>) = 0
  BY EmptySeq
<1>3. 0 \in 0 .. RollBufferSize /\ 0 \in 0 .. MaxSixes /\ 0 <= RollBufferSize
  BY DiceAssumption
<1> QED
  BY <1>1, <1>2, <1>3 DEF DiceInit, DiceTypeOK, DiceInv

\* A handler that changes its roll to one by the rules leaves the others as
\* they were.
LEMMA Rerolled ==
  ASSUME DiceTypeOK, DiceInv, NEW h \in Handlers, NEW s \in Roll, Ruled(s),
         roll' = [roll EXCEPT ![h] = s]
  PROVE  roll' \in [Handlers -> Roll] /\ DiceInv'
<1>1. roll \in [Handlers -> Roll]
  BY DEF DiceTypeOK
<1>2. /\ roll' \in [Handlers -> Roll]
      /\ \A g \in Handlers : roll'[g] = IF g = h THEN s ELSE roll[g]
  BY <1>1
<1>3. ASSUME NEW g \in Handlers PROVE Ruled(roll'[g])
  BY <1>2 DEF DiceInv
<1> QED
  BY <1>2, <1>3 DEF DiceInv

\* What a handler that asks for dice starts with.
LEMMA Asked ==
  ASSUME NEW s \in Roll, s.pool > 0, s.kind # "none",
         s.round = <<>>, s.rounds = <<>>, s.tally = 0,
         s.kind = "reroll" => s.pool = Cardinality(Misses(s.original))
  PROVE  Ruled(s)
<1>1. Len(<<>>) = 0 /\ 0 = Cardinality(Among(<<>>, Counted(s.kind)))
  BY NoDice
<1>2. Drawing(s)
  BY <1>1 DEF Drawing
<1> QED
  BY <1>1, <1>2 DEF Ruled

LEMMA AskStep ==
  ASSUME DiceTypeOK, DiceInv, NEW h \in Handlers, Ask(h)
  PROVE  DiceTypeOK' /\ DiceInv'
<1>1. roll[h] = NoRoll /\ unread' = unread /\ rollsChan' = rollsChan
      /\ sixes' = sixes
  BY DEF Ask
<1>2. NoRoll \in Roll
  BY NoRollIsRuled DEF NoRollRuled
<1>3. PICK s \in Roll : Ruled(s) /\ roll' = [roll EXCEPT ![h] = s]
  <2>1. ASSUME NEW n \in 1 .. MaxSingleRoll, NEW k \in {"fill", "explode"},
               roll' = [roll EXCEPT ![h].kind = k, ![h].pool = n]
        PROVE  \E s \in Roll : Ruled(s) /\ roll' = [roll EXCEPT ![h] = s]
    <3> DEFINE s == [NoRoll EXCEPT !.kind = k, !.pool = n]
    <3>1. n \in Nat /\ n > 0
      BY DiceAssumption
    <3>2. roll' = [roll EXCEPT ![h] = s]
      BY <1>1, <2>1
    <3>3. /\ s \in Roll /\ s.pool = n /\ s.kind = k
          /\ s.round = <<>> /\ s.rounds = <<>> /\ s.tally = 0
      BY <1>2, <3>1 DEF NoRoll, Roll
    <3> HIDE DEF s
    <3>4. Ruled(s)
      BY <3>1, <3>3, Asked
    <3> QED
      BY <3>2, <3>3, <3>4
  <2>2. ASSUME NEW n \in 1 .. MaxSingleRoll, NEW dice \in [1 .. n -> {1, 5, 6}],
               Misses(dice) # {},
               roll' = [roll EXCEPT ![h].kind = "reroll", ![h].original = dice,
                                    ![h].pool = Cardinality(Misses(dice))]
        PROVE  \E s \in Roll : Ruled(s) /\ roll' = [roll EXCEPT ![h] = s]
    <3> DEFINE s == [NoRoll EXCEPT !.kind = "reroll", !.original = dice,
                                   !.pool = Cardinality(Misses(dice))]
    <3>1. dice \in Seq(Faces)
      <4>1. n \in Nat /\ {1, 5, 6} \subseteq Faces
        BY DiceAssumption DEF Faces
      <4>2. dice \in [1 .. n -> Faces]
        BY <4>1
      <4> QED
        BY <4>1, <4>2, SeqDef
    <3>2. PICK n1 : n1 = Cardinality(Misses(dice))
      OBVIOUS
    <3>3. n1 \in Nat /\ n1 > 0
      <4>1. IsFiniteSet(Misses(dice)) /\ n1 \in Nat
        BY <3>1, <3>2, AmongType DEF Misses
      <4>2. n1 # 0
        BY <2>2, <3>2, <4>1, FS_EmptySet
      <4> QED
        BY <4>1, <4>2
    <3>4. roll' = [roll EXCEPT ![h] = s]
      BY <1>1, <2>2
    <3>5. /\ s \in Roll /\ s.pool = n1 /\ s.kind = "reroll" /\ s.original = dice
          /\ s.round = <<>> /\ s.rounds = <<>> /\ s.tally = 0
      BY <1>2, <3>1, <3>2, <3>3 DEF NoRoll, Roll
    <3> HIDE DEF s
    <3>6. Ruled(s)
      BY <3>2, <3>3, <3>5, Asked
    <3> QED
      BY <3>4, <3>5, <3>6
  <2> QED
    BY <2>1, <2>2 DEF Ask
<1>4. roll' \in [Handlers -> Roll] /\ DiceInv'
  BY <1>3, Rerolled
<1> QED
  BY <1>1, <1>4 DEF DiceTypeOK

LEMMA TakeStep ==
  ASSUME DiceTypeOK, DiceInv, NEW h \in Handlers, Take(h)
  PROVE  DiceTypeOK' /\ DiceInv'
<1>1. /\ Rolling(h) /\ rollsChan # <<>> /\ rollsChan' = Tail(rollsChan)
      /\ roll' = [roll EXCEPT ![h] = AfterDie(h, roll[h], Head(rollsChan))]
      /\ unread' = unread /\ sixes' = sixes
  BY TakeForm
<1>2. /\ Head(rollsChan) \in Faces /\ Tail(rollsChan) \in Seq(Faces)
      /\ Len(Tail(rollsChan)) = Len(rollsChan) - 1 /\ Len(rollsChan) \in Nat
      /\ Len(rollsChan) <= RollBufferSize /\ RollBufferSize \in Nat
  <2>1. rollsChan \in Seq(Faces) /\ Len(rollsChan) <= RollBufferSize
    BY DEF DiceTypeOK
  <2> QED
    BY <1>1, <2>1, HeadTail, Lengths, DiceAssumption
<1>3. rollsChan' \in Seq(Faces) /\ Len(rollsChan') <= RollBufferSize
  BY <1>1, <1>2
<1>4. roll[h] \in Roll /\ Ruled(roll[h]) /\ roll[h].pool > 0
  BY <1>1 DEF DiceTypeOK, DiceInv, Rolling
<1>5. PICK s : s = AfterDie(h, roll[h], Head(rollsChan))
  OBVIOUS
<1>6. s \in Roll /\ Ruled(s)
  BY <1>2, <1>4, <1>5, DieTaken
<1>7. roll' = [roll EXCEPT ![h] = s]
  BY <1>1, <1>5
<1>8. roll' \in [Handlers -> Roll] /\ DiceInv'
  BY <1>6, <1>7, Rerolled
<1> QED
  BY <1>1, <1>3, <1>8 DEF DiceTypeOK

LEMMA UseStep ==
  ASSUME DiceTypeOK, DiceInv, NEW h \in Handlers, Use(h)
  PROVE  DiceTypeOK' /\ DiceInv'
<1>1. roll' \in [Handlers -> Roll] /\ DiceInv'
  BY NoRollIsRuled, Rerolled DEF Use, NoRollRuled
<1> QED
  BY <1>1 DEF Use, DiceTypeOK

LEMMA SendStep ==
  ASSUME DiceTypeOK, DiceInv, SendDie
  PROVE  DiceTypeOK' /\ DiceInv'
<1>1. PICK b \in Bytes :
          /\ unread > 0 /\ Len(rollsChan) < RollBufferSize
          /\ Die(b) = 6 => sixes < MaxSixes
          /\ rollsChan' = Append(rollsChan, Die(b))
          /\ sixes' = IF Die(b) = 6 THEN sixes + 1 ELSE sixes
          /\ unread' = unread - 1 /\ roll' = roll
  BY DEF SendDie
<1>2. Die(b) \in Faces
  BY DieType
<1>3. rollsChan' \in Seq(Faces) /\ Len(rollsChan') <= RollBufferSize
  <2>1. rollsChan \in Seq(Faces) /\ RollBufferSize \in Nat
    BY DiceAssumption DEF DiceTypeOK
  <2>2. /\ rollsChan' \in Seq(Faces) /\ Len(rollsChan') = Len(rollsChan) + 1
        /\ Len(rollsChan) \in Nat
    BY <1>1, <1>2, <2>1, Appended
  <2> QED
    BY <1>1, <2>1, <2>2
<1>4. sixes' \in 0 .. MaxSixes /\ unread' \in 0 .. RollBufferSize
  <2>1. sixes \in 0 .. MaxSixes /\ unread \in 0 .. RollBufferSize
    BY DEF DiceTypeOK
  <2> QED
    BY <1>1, <2>1, DiceAssumption
<1>5. DiceInv'
  BY <1>1 DEF DiceInv
<1> QED
  BY <1>1, <1>3, <1>4, <1>5 DEF DiceTypeOK

LEMMA DiceStep ==
  DiceTypeOK /\ DiceInv /\ [DiceNext]_diceVars => (DiceTypeOK /\ DiceInv)'
<1> SUFFICES ASSUME DiceTypeOK, DiceInv, [DiceNext]_diceVars
             PROVE  DiceTypeOK' /\ DiceInv'
  OBVIOUS
<1>1. CASE ReadBytes
  <2>1. RollBufferSize \in 0 .. RollBufferSize
    BY DiceAssumption
  <2>2. unread' \in 0 .. RollBufferSize
    BY <1>1, <2>1 DEF ReadBytes
  <2> QED
    BY <1>1, <2>2 DEF ReadBytes, DiceTypeOK, DiceInv
<1>2. CASE SendDie
  BY <1>2, SendStep
<1>3. CASE SkipByte
  <2>1. unread' \in 0 .. RollBufferSize
    BY <1>3, DiceAssumption DEF SkipByte, DiceTypeOK
  <2> QED
    BY <1>3, <2>1 DEF SkipByte, DiceTypeOK, DiceInv
<1>4. ASSUME NEW h \in Handlers, Ask(h) PROVE DiceTypeOK' /\ DiceInv'
  BY <1>4, AskStep
<1>5. ASSUME NEW h \in Handlers, Take(h) PROVE DiceTypeOK' /\ DiceInv'
  BY <1>5, TakeStep
<1>6. ASSUME NEW h \in Handlers, Use(h) PROVE DiceTypeOK' /\ DiceInv'
  BY <1>6, UseStep
<1>7. CASE UNCHANGED diceVars
  BY <1>7 DEF diceVars, DiceTypeOK, DiceInv
<1> QED
  BY <1>1, <1>2, <1>3, <1>4, <1>5, <1>6, <1>7 DEF DiceNext

LEMMA DiceInvariant == DiceSpec => [](DiceTypeOK /\ DiceInv)
<1>1. DiceInit => DiceTypeOK /\ DiceInv
  BY InitDice
<1>2. DiceTypeOK /\ DiceInv /\ [DiceNext]_diceVars => (DiceTypeOK /\ DiceInv)'
  BY DiceStep
<1> QED
  BY <1>1, <1>2, PTL DEF DiceSpec
-----------------------------------------------------------------------------
\* The dice have their types: what is in the channel and in every roll shows
\* one to six, and the buffers are within their sizes (roll.go:44, 100).
THEOREM DiceTypeCorrect == DiceSpec => []DiceTypeOK
<1>1. DiceTypeOK /\ DiceInv => DiceTypeOK
  OBVIOUS
<1> QED
  BY <1>1, DiceInvariant, PTL

\* Every roll is by its rules, however the handlers take turns at the channel:
\* FillRolls and RerollFailures count the hits of as many dice as they were
\* asked for, and a round of ExplodingSixes has as many dice as the one before
\* had sixes.
THEOREM RollsByTheRules == DiceSpec => []RulesKept
<1>1. DiceTypeOK /\ DiceInv => RulesKept
  <2> SUFFICES ASSUME DiceTypeOK, DiceInv, NEW h \in Handlers
               PROVE  LET rounds == roll[h].rounds IN
        /\ roll[h].kind = "explode" /\ rounds # <<>> =>
              RuleOfSix(rounds, roll[h].pool)
        /\ roll[h].kind \in {"fill", "reroll"} /\ ~ Rolling(h) =>
              /\ Len(rounds) = 1
              /\ roll[h].tally = Cardinality(Among(rounds[1], {5, 6}))
              /\ roll[h].kind = "reroll" =>
                    Rerolls(rounds[1], roll[h].original)
    BY DEF RulesKept
  <2>1. Ruled(roll[h])
    BY DEF DiceInv
  <2> QED
    BY <2>1 DEF Ruled, Drawn, Rolling
<1> QED
  BY <1>1, DiceInvariant, PTL

\* A roll gets nearer to its end: while others take dice nothing of it changes,
\* and no round is larger than the one before it, so that nobody rolls more
\* dice at once than he asked for (roll.go:80).
THEOREM RoundsShrink ==
  DiceSpec =>
      [][\A h \in Handlers :
            Rolling(h) => \/ roll'[h] = roll[h]
                          \/ Take(h) /\ roll'[h].pool <= roll[h].pool]_diceVars
<1> DEFINE A == \A h \in Handlers :
                    Rolling(h) => \/ roll'[h] = roll[h]
                                  \/ Take(h) /\ roll'[h].pool <= roll[h].pool
<1>1. DiceTypeOK /\ DiceInv /\ [DiceNext]_diceVars => [A]_diceVars
  <2> SUFFICES ASSUME DiceTypeOK, DiceInv, DiceNext,
                      NEW h \in Handlers, Rolling(h), ~ (roll'[h] = roll[h])
               PROVE  Take(h) /\ roll'[h].pool <= roll[h].pool
    OBVIOUS
  <2>1. roll[h] \in Roll /\ Ruled(roll[h]) /\ roll[h].pool > 0
        /\ roll \in [Handlers -> Roll]
    BY DEF DiceTypeOK, DiceInv, Rolling
  <2>2. ~ (ReadBytes \/ SendDie \/ SkipByte)
    BY DEF ReadBytes, SendDie, SkipByte
  <2>3. ASSUME NEW g \in Handlers, Ask(g) PROVE FALSE
    <3>1. roll[g] = NoRoll
      BY <2>3 DEF Ask
    <3>2. roll[g].pool = 0
      BY <3>1 DEF NoRoll
    <3>3. g # h
      BY <2>1, <3>2
    <3> QED
      BY <2>1, <2>3, <3>3 DEF Ask
  <2>4. ASSUME NEW g \in Handlers, Use(g) PROVE FALSE
    <3>1. g # h
      BY <2>4 DEF Use
    <3> QED
      BY <2>1, <2>4, <3>1 DEF Use
  <2>5. ASSUME NEW g \in Handlers, Take(g)
        PROVE  Take(h) /\ roll'[h].pool <= roll[h].pool
    <3>1. /\ rollsChan # <<>>
          /\ roll' = [roll EXCEPT ![g] = AfterDie(g, roll[g], Head(rollsChan))]
      BY <2>5, TakeForm
    <3>2. g = h
      BY <2>1, <3>1
    <3>3. Head(rollsChan) \in Faces
      BY <3>1, HeadTail DEF DiceTypeOK
    <3>4. PICK s : s = AfterDie(h, roll[h], Head(rollsChan))
      OBVIOUS
    <3>5. s.pool <= roll[h].pool
      BY <2>1, <3>3, <3>4, DieTaken
    <3>6. roll'[h] = s
      BY <2>1, <3>1, <3>2, <3>4
    <3> QED
      BY <2>5, <3>2, <3>5, <3>6
  <2> QED
    BY <2>2, <2>3, <2>4, <2>5 DEF DiceNext
<1> QED
  BY <1>1, DiceInvariant, PTL DEF DiceSpec

\* The dice are fair if the bytes are: of the bytes that are used, forty-two
\* make each face, and fewer than six are thrown away (roll.go:18, 110).
THEOREM EvenDice == Even
<1>1. inputByteMax = 251
  <2>1. 255 % 6 = 3
    OBVIOUS
  <2> QED
    BY <2>1 DEF inputByteMax, MaxUint8, rollMax
<1> DEFINE Of(f) == {b \in 0 .. inputByteMax : Die(b) = f}
<1>2. ASSUME NEW f \in Faces PROVE Cardinality(Of(f)) = 42
  <2> DEFINE byte == [k \in 1 .. 42 |-> 6 * (k - 1) + (f - 1)]
  <2>1. f \in 1 .. 6
    BY DEF Faces
  <2>2. \A k \in 1 .. 42 : byte[k] \in Of(f)
    BY <1>1, <2>1 DEF Die, rollMax
  <2>3. \A k, j \in 1 .. 42 : byte[k] = byte[j] => k = j
    BY <2>1
  <2>4. \A b \in Of(f) : \E k \in 1 .. 42 : byte[k] = b
    <3> SUFFICES ASSUME NEW b \in Of(f) PROVE \E k \in 1 .. 42 : byte[k] = b
      OBVIOUS
    <3>1. b \in 0 .. 251 /\ (b % 6) + 1 = f
      BY <1>1 DEF Die, rollMax
    <3>2. /\ b = 6 * (b \div 6) + (b % 6) /\ b \div 6 \in 0 .. 41
      BY <3>1
    <3>3. byte[(b \div 6) + 1] = b /\ (b \div 6) + 1 \in 1 .. 42
      BY <2>1, <3>1, <3>2
    <3> QED
      BY <3>3
  <2> HIDE DEF byte, Of
  <2>5. byte \in Bijection(1 .. 42, Of(f))
    <3>1. byte \in [1 .. 42 -> Of(f)]
      BY <2>2 DEF byte
    <3> QED
      BY <2>3, <2>4, <3>1, Fun_IsBij
  <2>6. IsFiniteSet(1 .. 42) /\ Cardinality(1 .. 42) = 42
    BY UpTo
  <2>7. ExistsBijection(1 .. 42, Of(f))
    BY <2>5 DEF ExistsBijection
  <2>8. Cardinality(Of(f)) = Cardinality(1 .. 42)
    BY <2>6, <2>7, FS_Bijection, Zenon
  <2> QED
    BY <2>6, <2>8, Zenon
<1>3. \A f, g \in Faces : Cardinality(Of(f)) = Cardinality(Of(g))
  BY <1>2
<1>4. MaxUint8 - inputByteMax < Cardinality(Faces)
  <2>1. Cardinality(1 .. 6) = 6
    BY UpTo
  <2> QED
    BY <1>1, <2>1 DEF MaxUint8, Faces
<1> HIDE DEF Of
<1> QED
  BY <1>3, <1>4 DEF Even, Of
=============================================================================
