---------------------------- MODULE RateLimiter ----------------------------
(***************************************************************************)
(* The rate limit of one remote address (rateLimitedMiddleware of          *)
(* routes/middleware.go): a counter in Redis for each window of ten        *)
(* seconds, read by a request in one command and incremented, with a time  *)
(* to live of fifteen seconds, in a later transaction.                     *)
(***************************************************************************)
EXTENDS Integers, FiniteSets

CONSTANTS
    Requests,               \* the requests of the address in the middleware
    MaxRequestsPer10Secs,
    Window,                 \* the 10 seconds
    Expiry,                 \* the 15 seconds
    Prompt,     \* TRUE: a request is through before the key of its window
                \* may expire, five seconds after the window ends
    Faults,     \* TRUE: a Redis command may fail
    MaxTime,    \* bound: the last second
    MaxArrivals \* bound: the requests that arrive in one window

ASSUME RateLimiterAssumption ==
    /\ IsFiniteSet(Requests)
    /\ MaxRequestsPer10Secs \in Nat
    /\ Window \in Nat \ {0}
    /\ Expiry \in Nat /\ Expiry >= Window
    /\ Prompt \in BOOLEAN /\ Faults \in BOOLEAN
    /\ MaxTime \in Nat /\ MaxArrivals \in Nat

Time == 0 .. MaxTime

VARIABLES
    now,        \* the clock, in seconds
    count,      \* count[k]: the value of the key of window k, 0 if absent
    expires,    \* expires[k]: when that key expires, if it is there
    step,       \* step[r]: where request r is
    key,        \* key[r]: the window in which it arrived
    limited,    \* limited[r]: what it found
    (* Auxiliary: no action reads them but for the bound. *)
    arrived,    \* arrived[k]: how many requests have arrived in window k
    admitted    \* admitted[k]: how many of them were served

vars == <<now, count, expires, step, key, limited, arrived, admitted>>

\* Variant: the ten seconds up to now.
WindowOf_Sliding(t) == t - Window

\* Variant: one counter for all time.
WindowOf_None(t) == 0

\* ts - ts % 10.
WindowOf(t) == t - (t % Window)

\* Variant: the number is that of the requests before this one, and the one
\* after it.
Exceeds_OffByOne(n) == n > MaxRequestsPer10Secs + 1

\* The check of the middleware.
Exceeds(n) == n > MaxRequestsPer10Secs
-----------------------------------------------------------------------------
Arrive(r) ==
    /\ step[r] = "idle"
    /\ arrived[now - (now % Window)] < MaxArrivals
    /\ step' = [step EXCEPT ![r] = "get"]
    /\ key' = [key EXCEPT ![r] = WindowOf(now)]
    /\ arrived' = [arrived EXCEPT ![now - (now % Window)] = @ + 1]
    /\ UNCHANGED <<now, count, expires, limited, admitted>>

\* GET, where a missing key counts as 0.
Get(r) ==
    /\ step[r] = "get"
    /\ limited' = [limited EXCEPT ![r] = Exceeds(count[key[r]])]
    /\ step' = [step EXCEPT ![r] = "incr"]
    /\ UNCHANGED <<now, count, expires, key, arrived, admitted>>

\* MULTI, INCR, EXPIRE, EXEC, whether the request is limited or not: the time
\* to live starts over.
Increment(r) ==
    /\ step[r] = "incr"
    /\ count' = [count EXCEPT ![key[r]] = @ + 1]
    /\ expires' = [expires EXCEPT ![key[r]] = now + Expiry]
    /\ admitted' = IF limited[r] THEN admitted
                   ELSE [admitted EXCEPT ![key[r]] = @ + 1]
    /\ step' = [step EXCEPT ![r] = "idle"]
    /\ UNCHANGED <<now, key, limited, arrived>>

\* A Redis command fails and the request ends in an internal error.
Fail(r) ==
    /\ Faults
    /\ step[r] # "idle"
    /\ step' = [step EXCEPT ![r] = "idle"]
    /\ UNCHANGED <<now, count, expires, key, limited, arrived, admitted>>

\* A second goes by, and Redis drops the keys whose time has come.
Tick ==
    /\ now < MaxTime
    /\ Prompt => \A r \in Requests :
                    step[r] # "idle" => now + 1 < key[r] + Expiry
    /\ now' = now + 1
    /\ count' = [k \in Time |-> IF expires[k] <= now + 1 THEN 0 ELSE count[k]]
    /\ UNCHANGED <<expires, step, key, limited, arrived, admitted>>

Init ==
    /\ now = 0
    /\ count = [k \in Time |-> 0]
    /\ expires = [k \in Time |-> 0]
    /\ step = [r \in Requests |-> "idle"]
    /\ key = [r \in Requests |-> 0]
    /\ limited = [r \in Requests |-> FALSE]
    /\ arrived = [k \in Time |-> 0]
    /\ admitted = [k \in Time |-> 0]

Next ==
    \/ \E r \in Requests : Arrive(r) \/ Get(r) \/ Increment(r) \/ Fail(r)
    \/ Tick

Spec == Init /\ [][Next]_vars
-----------------------------------------------------------------------------
TypeOK ==
    /\ now \in Time
    /\ count \in [Time -> Nat]
    /\ expires \in [Time -> Nat]
    /\ step \in [Requests -> {"idle", "get", "incr"}]
    /\ key \in [Requests -> Time]
    /\ limited \in [Requests -> BOOLEAN]
    /\ arrived \in [Time -> Nat]
    /\ admitted \in [Time -> Nat]

\* What the limit is worth: a window admits as many requests as the setting
\* says, and one more for each that may be between its GET and its INCR.
AdmittedBound ==
    \A k \in Time :
        admitted[k] <= MaxRequestsPer10Secs + Cardinality(Requests)

\* An address that keeps to the setting is never limited: a request that is,
\* has arrived in a window with more requests than that.
LimitedForCause ==
    \A r \in Requests :
        step[r] = "incr" /\ limited[r] => arrived[key[r]] > MaxRequestsPer10Secs
=============================================================================
