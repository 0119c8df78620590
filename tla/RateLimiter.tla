----------------------------- MODULE RateLimiter -----------------------------
(***************************************************************************)
(* The fixed-window rate limiter: one Lua script in Redis counts a request *)
(* in the bucket of Redis' clock, gives the counter a time to live, and    *)
(* the API admits or refuses on its answer.                                *)
(*                                                                         *)
(* Time runs in ticks, several to a second: the script cuts the clock to   *)
(* whole seconds, while EXPIRE counts from the exact time and TTL rounds   *)
(* to the nearest second.  Scripts are atomic and Redis' clock does not go *)
(* back; a counter lost with Redis' memory is outside this model.          *)
(*                                                                         *)
(* A definition right before Current or Lifetime is a defect that no       *)
(* action uses; README.md says what these variants are for.                *)
(***************************************************************************)
EXTENDS Integers

CONSTANTS
    Identities,   \* policy, identity type and identity: the key's prefix
    Limit,        \* the policy's limit
    Window,       \* rate_limit_window_seconds
    Ticks,        \* ticks per second
    MaxTime,      \* where the model's time ends
    MaxRequests   \* requests of one identity in one bucket (a bound of the model)

ASSUME ConstantsAssumption ==
    /\ Limit \in Nat \ {0}
    /\ Window \in Nat \ {0}
    /\ Ticks \in Nat \ {0}
    /\ MaxTime \in Nat /\ Ticks <= MaxTime + 1
    /\ MaxRequests \in Nat

VARIABLES
    now,       \* Redis' clock
    counter,   \* the counter of each identity's newest bucket
    arrived,   \* requests counted in each bucket so far
    admitted,  \* requests admitted in each bucket so far
    response   \* the last response of each identity

vars == <<now, counter, arrived, admitted, response>>

Second(t) == t \div Ticks
Bucket(t) == Second(t) \div Window
Buckets == 0 .. Bucket(MaxTime)

Responses == [at : 0 .. MaxTime, status : {200, 429, 503}, retry_after : 0 .. Window + 1]

TypeOK ==
    /\ now \in 0 .. MaxTime
    /\ counter \in [Identities -> [bucket : Buckets, count : 0 .. MaxRequests,
                                   expires : 0 .. MaxTime + Window * Ticks]]
    /\ arrived \in [Identities -> [Buckets -> 0 .. MaxRequests]]
    /\ admitted \in [Identities -> [Buckets -> 0 .. MaxRequests]]
    /\ response \in [Identities -> Responses]

\* Time may start anywhere in a second.
Init ==
    /\ now \in 0 .. Ticks - 1
    /\ counter = [i \in Identities |-> [bucket |-> 0, count |-> 0, expires |-> 0]]
    /\ arrived = [i \in Identities |-> [b \in Buckets |-> 0]]
    /\ admitted = [i \in Identities |-> [b \in Buckets |-> 0]]
    /\ response = [i \in Identities |-> [at |-> 0, status |-> 200, retry_after |-> 0]]

Tick ==
    /\ now < MaxTime
    /\ now' = now + 1
    /\ UNCHANGED <<counter, arrived, admitted, response>>

\* INCR starts from nothing when the key is new or has expired.  Older buckets'
\* keys are never read again: a counter remembers the newest one.
CurrentAcrossBuckets(i) == IF now < counter[i].expires THEN counter[i].count + 1 ELSE 1
Current(i) ==
    IF counter[i].bucket = Bucket(now) /\ now < counter[i].expires
    THEN counter[i].count + 1 ELSE 1

\* window_ttl, from whole seconds
LifetimeTooShort(t) == Window - (Second(t) % Window) - 1
Lifetime(t) == Window - (Second(t) % Window)
Expires(i) == IF Current(i) = 1 THEN now + Lifetime(now) * Ticks ELSE counter[i].expires

\* Redis answers TTL with (milliseconds + 500) / 1000.
TTL(i) == (2 * (Expires(i) - now) + Ticks) \div (2 * Ticks)

Count(i) ==
    /\ arrived[i][Bucket(now)] < MaxRequests
    /\ counter' = [counter EXCEPT ![i] =
           [bucket |-> Bucket(now), count |-> Current(i), expires |-> Expires(i)]]
    /\ arrived' = [arrived EXCEPT ![i][Bucket(now)] = @ + 1]
    /\ UNCHANGED now

Respond(i, status, wait) ==
    response' = [response EXCEPT ![i] = [at |-> now, status |-> status, retry_after |-> wait]]

Allowed(i) == Current(i) <= Limit

Admit(i) ==
    /\ Count(i)
    /\ Allowed(i)
    /\ admitted' = [admitted EXCEPT ![i][Bucket(now)] = @ + 1]
    /\ Respond(i, 200, 0)

RetryAfter(i) == IF TTL(i) > 1 THEN TTL(i) ELSE 1

Refuse(i) ==
    /\ Count(i)
    /\ ~Allowed(i)
    /\ Respond(i, 429, RetryAfter(i))
    /\ UNCHANGED admitted

\* The script ran and its answer was lost: 503, and the request is counted.
LoseAnswer(i) ==
    /\ Count(i)
    /\ Respond(i, 503, 0)
    /\ UNCHANGED admitted

\* Redis cannot be reached: 503 before any protected work.
Unavailable(i) ==
    /\ Respond(i, 503, 0)
    /\ UNCHANGED <<now, counter, arrived, admitted>>

Next ==
    \/ Tick
    \/ \E i \in Identities : Admit(i) \/ Refuse(i) \/ LoseAnswer(i) \/ Unavailable(i)

Spec == Init /\ [][Next]_vars

-----------------------------------------------------------------------------
(* Correctness.                                                            *)

\* No more than Limit requests of an identity are admitted in one window,
\* although the counter's time to live is cut and rounded differently from the
\* bucket: the counter never disappears before its bucket ends.
AtMostLimitPerWindow ==
    \A i \in Identities, b \in Buckets : admitted[i][b] <= Limit

\* A refusal is earned in its own window, by its own identity: more than Limit
\* requests arrived there, and a counter that outlives its bucket by the cut
\* fraction of a second weighs on no later one.
RefusalIsEarned ==
    \A i \in Identities :
        response[i].status = 429 => arrived[i][Bucket(response[i].at)] > Limit
=============================================================================
