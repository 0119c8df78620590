--------------------------- MODULE RateLimiterProofs ---------------------------
(***************************************************************************)
(* Type correctness of RateLimiter, that no window admits more than Limit  *)
(* requests, and that a refusal is earned in its own window, for any limit,*)
(* any window and any number of ticks to a second.  The argument is that a *)
(* counter, whose life is cut to whole seconds when it is set, never ends  *)
(* before the bucket it counts for.                                        *)
(***************************************************************************)
EXTENDS RateLimiter, TLAPS

-----------------------------------------------------------------------------
(* The clock: seconds and buckets.                                         *)

LEMMA Division ==
    ASSUME NEW a \in Nat, NEW d \in Nat \ {0}
    PROVE  /\ a \div d \in Nat /\ (a % d) \in 0 .. d - 1
           /\ a = d * (a \div d) + (a % d)
  OBVIOUS

LEMMA ProductIsMonotonic ==
    ASSUME NEW a \in Int, NEW b \in Int, NEW d \in Nat, a <= b
    PROVE  d * a <= d * b
  OBVIOUS

LEMMA QuotientIsMonotonic ==
    ASSUME NEW a \in Nat, NEW b \in Nat, NEW d \in Nat \ {0}, a <= b
    PROVE  a \div d <= b \div d
<1> DEFINE q == a \div d
           r == b \div d
           c == a % d
           e == b % d
<1>1. /\ q \in Nat /\ c \in 0 .. d - 1 /\ a = d * q + c
      /\ r \in Nat /\ e \in 0 .. d - 1 /\ b = d * r + e
  BY Division
<1> HIDE DEF q, r, c, e
<1>2. SUFFICES ASSUME r + 1 <= q PROVE FALSE
  BY <1>1 DEF q, r
<1>3. d * (r + 1) <= d * q
  BY <1>1, <1>2, ProductIsMonotonic
<1>4. d * (r + 1) = d * r + d /\ d * r \in Int /\ d * q \in Int
  BY <1>1
<1> QED
  BY <1>1, <1>3, <1>4

LEMMA ClockTypes ==
    ASSUME NEW t \in 0 .. MaxTime
    PROVE  Second(t) \in Nat /\ Bucket(t) \in Nat /\ Bucket(t) \in Buckets
<1>1. t \in Nat /\ MaxTime \in Nat /\ t <= MaxTime
  BY ConstantsAssumption
<1>2. Second(t) \in Nat /\ Second(MaxTime) \in Nat /\ Second(t) <= Second(MaxTime)
  BY <1>1, Division, QuotientIsMonotonic, ConstantsAssumption DEF Second
<1>3. Bucket(t) \in Nat /\ Bucket(MaxTime) \in Nat /\ Bucket(t) <= Bucket(MaxTime)
  BY <1>2, Division, QuotientIsMonotonic, ConstantsAssumption DEF Bucket
<1> QED
  BY <1>2, <1>3 DEF Buckets

LEMMA BucketsFollowTime ==
    ASSUME NEW t \in 0 .. MaxTime, NEW u \in 0 .. MaxTime, t <= u
    PROVE  Bucket(t) <= Bucket(u)
<1>1. t \in Nat /\ u \in Nat /\ Second(t) \in Nat /\ Second(u) \in Nat
  BY ClockTypes, ConstantsAssumption
<1>2. Second(t) <= Second(u)
  BY <1>1, QuotientIsMonotonic, ConstantsAssumption DEF Second
<1> QED
  BY <1>1, <1>2, QuotientIsMonotonic, ConstantsAssumption DEF Bucket

(* Where the bucket b ends, in ticks.                                        *)
BucketEnd(b) == Ticks * (Window * (b + 1))

(* The life a counter is given lasts until its bucket ends, and no longer    *)
(* than a window; and the bucket has not ended yet.                          *)
LEMMA LifetimeCoversBucket ==
    ASSUME NEW t \in 0 .. MaxTime
    PROVE  /\ Lifetime(t) \in 1 .. Window
           /\ t < BucketEnd(Bucket(t))
           /\ BucketEnd(Bucket(t)) <= t + Lifetime(t) * Ticks
           /\ Lifetime(t) * Ticks <= Window * Ticks
<1> DEFINE s == Second(t)
           b == Bucket(t)
           f == t % Ticks
           m == s % Window
           life == Lifetime(t)
<1>0. /\ t \in Nat /\ s \in Nat /\ b \in Nat
      /\ Ticks \in Nat \ {0} /\ Window \in Nat \ {0}
  BY ClockTypes, ConstantsAssumption
<1>1. t = Ticks * s + f /\ f \in 0 .. Ticks - 1
  BY <1>0, Division DEF Second
<1>2. s = Window * b + m /\ m \in 0 .. Window - 1
  BY <1>0, Division DEF Bucket
<1>3. life = Window - m
  BY DEF Lifetime
<1> HIDE DEF s, b, f, m, life
<1>4. life \in 1 .. Window
  BY <1>0, <1>2, <1>3
<1>5. Window * (b + 1) = Window * b + Window /\ Window * b \in Int
  BY <1>0
<1>6. Window * (b + 1) = s + life
  BY <1>0, <1>2, <1>3, <1>5
<1>7. Ticks * (s + life) = Ticks * s + life * Ticks
  BY <1>0, <1>4
<1>8. BucketEnd(b) = Ticks * s + life * Ticks
  BY <1>6, <1>7 DEF BucketEnd
<1>9. Ticks <= life * Ticks /\ life * Ticks <= Window * Ticks
  <2>1. Ticks * 1 <= Ticks * life /\ Ticks * life <= Ticks * Window
    BY <1>0, <1>4, ProductIsMonotonic
  <2>2. Ticks * 1 = Ticks /\ Ticks * life = life * Ticks /\ Ticks * Window = Window * Ticks
    BY <1>0, <1>4
  <2> QED
    BY <2>1, <2>2
<1>10. Ticks * s \in Int /\ life * Ticks \in Int
  BY <1>0, <1>4
<1>11. t < BucketEnd(b) /\ BucketEnd(b) <= t + life * Ticks
  BY <1>0, <1>1, <1>8, <1>9, <1>10
<1> QED
  BY <1>4, <1>9, <1>11 DEF b, life

-----------------------------------------------------------------------------
(* The inductive invariant.                                                *)

(* A counter that has counted something is there until its bucket ends.      *)
CounterOutlivesBucket ==
    \A i \in Identities :
        counter[i].count > 0 => BucketEnd(counter[i].bucket) <= counter[i].expires

(* It counts for no later bucket than this one, for a window at most.        *)
CounterIsRecent ==
    \A i \in Identities :
        /\ counter[i].bucket <= Bucket(now)
        /\ counter[i].expires <= now + Window * Ticks

(* It stands between what its bucket admitted and what arrived there, and    *)
(* later buckets have admitted nothing.                                      *)
CounterCounts ==
    \A i \in Identities :
        /\ counter[i].count <= arrived[i][counter[i].bucket]
        /\ admitted[i][counter[i].bucket] <= counter[i].count
        /\ \A b \in Buckets : b > counter[i].bucket => admitted[i][b] = 0

CounterInv == CounterOutlivesBucket /\ CounterIsRecent /\ CounterCounts
LimiterInv == TypeOK /\ CounterInv /\ AtMostLimitPerWindow /\ RefusalIsEarned

LEMMA TimeTypes ==
    ASSUME TypeOK
    PROVE  /\ now \in Nat /\ Bucket(now) \in Nat /\ Bucket(now) \in Buckets
           /\ Bucket(MaxTime) \in Nat /\ Window * Ticks \in Nat
<1>1. now \in 0 .. MaxTime /\ MaxTime \in 0 .. MaxTime /\ now \in Nat
  BY ConstantsAssumption DEF TypeOK
<1> QED
  BY <1>1, ClockTypes, ConstantsAssumption

(* The script's counter: it goes on while its bucket lasts and starts again  *)
(* in the next, so it counts what its bucket admitted.                       *)
LEMMA CurrentCounts ==
    ASSUME TypeOK, CounterInv, NEW i \in Identities
    PROVE  /\ Current(i) \in 1 .. arrived[i][Bucket(now)] + 1
           /\ admitted[i][Bucket(now)] < Current(i)
           /\ Expires(i) \in 0 .. MaxTime + Window * Ticks
           /\ Expires(i) <= now + Window * Ticks
           /\ BucketEnd(Bucket(now)) <= Expires(i)
<1> DEFINE b == Bucket(now)
           c == counter[i]
<1>0. /\ now \in Nat /\ now <= MaxTime /\ MaxTime \in Nat /\ b \in Nat /\ b \in Buckets
      /\ Window * Ticks \in Nat
  BY TimeTypes, ConstantsAssumption DEF TypeOK
<1>1. /\ c.bucket \in Buckets /\ c.count \in Nat /\ c.expires \in 0 .. MaxTime + Window * Ticks
      /\ arrived[i][b] \in Nat /\ admitted[i][b] \in Nat
  BY <1>0, ConstantsAssumption DEF TypeOK
<1>2. /\ Lifetime(now) * Ticks \in Nat /\ Lifetime(now) * Ticks <= Window * Ticks
      /\ now < BucketEnd(b) /\ BucketEnd(b) <= now + Lifetime(now) * Ticks
      /\ BucketEnd(b) \in Int
  <2>1. now \in 0 .. MaxTime
    BY DEF TypeOK
  <2>2. Lifetime(now) * Ticks \in Nat
    BY <2>1, LifetimeCoversBucket, ConstantsAssumption
  <2>3. BucketEnd(b) \in Int
    BY <1>0, ConstantsAssumption DEF BucketEnd
  <2> QED
    BY <2>1, <2>2, <2>3, LifetimeCoversBucket
<1>3. /\ c.count > 0 => BucketEnd(c.bucket) <= c.expires
      /\ c.bucket <= b /\ c.expires <= now + Window * Ticks
      /\ c.count <= arrived[i][c.bucket] /\ admitted[i][c.bucket] <= c.count
      /\ b > c.bucket => admitted[i][b] = 0
  BY <1>0 DEF CounterInv, CounterOutlivesBucket, CounterIsRecent, CounterCounts
<1>4. c.bucket \in Nat
  BY <1>0, <1>1, TimeTypes DEF Buckets
<1>5. CASE c.bucket = b /\ now < c.expires
  <2>1. Current(i) = c.count + 1
    BY <1>5 DEF Current
  <2>2. CASE Current(i) = 1
    <3>1. Expires(i) = now + Lifetime(now) * Ticks
      BY <2>2 DEF Expires
    <3> QED
      BY <1>0, <1>1, <1>2, <1>3, <1>5, <2>1, <3>1
  <2>3. CASE Current(i) # 1
    <3>1. Expires(i) = c.expires
      BY <2>3 DEF Expires
    <3> QED
      BY <1>0, <1>1, <1>2, <1>3, <1>5, <2>1, <2>3, <3>1
  <2> QED
    BY <2>2, <2>3
<1>6. CASE ~(c.bucket = b /\ now < c.expires)
  <2>1. Current(i) = 1 /\ Expires(i) = now + Lifetime(now) * Ticks
    BY <1>6 DEF Current, Expires
  <2>2. admitted[i][b] = 0
    BY <1>0, <1>1, <1>2, <1>3, <1>4, <1>6
  <2> QED
    BY <1>0, <1>1, <1>2, <2>1, <2>2
<1> QED
  BY <1>5, <1>6

(* A client is asked to wait for a second at least and a window at most.     *)
LEMMA RetryAfterType ==
    ASSUME TypeOK, CounterInv, NEW i \in Identities
    PROVE  RetryAfter(i) \in 0 .. Window + 1
<1> DEFINE x == 2 * (Expires(i) - now) + Ticks
           q == TTL(i)
           d == 2 * Ticks
           w == Window * Ticks
<1>0. /\ now \in Nat /\ Ticks \in Nat \ {0} /\ Window \in Nat \ {0} /\ w \in Nat
      /\ MaxTime + w \in Nat
  BY TimeTypes, ConstantsAssumption
<1>1. Expires(i) \in Nat /\ Expires(i) <= now + w /\ now < Expires(i)
  <2>1. now < BucketEnd(Bucket(now)) /\ BucketEnd(Bucket(now)) <= Expires(i)
    BY LifetimeCoversBucket, CurrentCounts DEF TypeOK
  <2>2. BucketEnd(Bucket(now)) \in Int
    BY TimeTypes, ConstantsAssumption DEF BucketEnd
  <2>3. Expires(i) \in Nat /\ Expires(i) <= now + w
    BY <1>0, CurrentCounts
  <2> QED
    BY <1>0, <2>1, <2>2, <2>3
<1>2. x \in Nat /\ d \in Nat \ {0} /\ x <= 2 * w + Ticks
  BY <1>0, <1>1
<1>3. PICK e \in 0 .. d - 1 : q \in Nat /\ x = d * q + e
  BY <1>2, Division DEF TTL
<1>4. 2 * w + 2 * Ticks = d * (Window + 1)
  BY <1>0
<1> HIDE DEF x, q, d, w
<1>5. q <= Window
  <2>1. SUFFICES ASSUME Window + 1 <= q PROVE FALSE
    BY <1>0, <1>3
  <2>2. d * (Window + 1) <= d * q
    BY <1>0, <1>2, <1>3, <2>1, ProductIsMonotonic
  <2>3. d * q \in Nat
    BY <1>2, <1>3
  <2> QED
    BY <1>0, <1>2, <1>3, <1>4, <2>2, <2>3
<1> QED
  BY <1>0, <1>3, <1>5 DEF RetryAfter, q

LEMMA CountKeepsCounters ==
    ASSUME TypeOK, CounterInv, NEW i \in Identities, Count(i),
           \/ UNCHANGED admitted
           \/ admitted' = [admitted EXCEPT ![i][Bucket(now)] = @ + 1]
    PROVE  /\ counter' \in [Identities -> [bucket : Buckets, count : 0 .. MaxRequests,
                                           expires : 0 .. MaxTime + Window * Ticks]]
           /\ arrived' \in [Identities -> [Buckets -> 0 .. MaxRequests]]
           /\ CounterInv'
<1> DEFINE b == Bucket(now)
           n == Current(i)
<1>0. /\ now \in Nat /\ b \in Nat /\ b \in Buckets /\ now' = now /\ Bucket(now)' = b
      /\ \A k \in Buckets : k \in Nat
  BY TimeTypes DEF Count, Buckets
<1>1. /\ n \in 1 .. arrived[i][b] + 1 /\ admitted[i][b] < n
      /\ Expires(i) \in 0 .. MaxTime + Window * Ticks
      /\ Expires(i) <= now + Window * Ticks /\ BucketEnd(b) <= Expires(i)
  BY CurrentCounts
<1>2. arrived[i][b] \in Nat /\ arrived[i][b] < MaxRequests /\ admitted[i][b] \in Nat
  BY <1>0, ConstantsAssumption DEF TypeOK, Count
<1>3. /\ counter' = [counter EXCEPT ![i] = [bucket |-> b, count |-> n, expires |-> Expires(i)]]
      /\ arrived' = [arrived EXCEPT ![i][b] = @ + 1]
  BY DEF Count
<1>a. /\ n \in 0 .. MaxRequests /\ n \in Nat /\ n > 0
      /\ arrived[i][b] + 1 \in 0 .. MaxRequests
  BY <1>1, <1>2, ConstantsAssumption
<1>4. counter' \in [Identities -> [bucket : Buckets, count : 0 .. MaxRequests,
                                 expires : 0 .. MaxTime + Window * Ticks]]
  BY <1>0, <1>1, <1>3, <1>a DEF TypeOK
<1>5. arrived' \in [Identities -> [Buckets -> 0 .. MaxRequests]]
  BY <1>0, <1>3, <1>a DEF TypeOK
<1>6. /\ counter'[i].bucket = b /\ counter'[i].count = n /\ counter'[i].expires = Expires(i)
      /\ arrived'[i][b] = arrived[i][b] + 1
      /\ admitted'[i][b] <= admitted[i][b] + 1
      /\ \A k \in Buckets : k # b => admitted'[i][k] = admitted[i][k]
  BY <1>0, <1>2, <1>3 DEF TypeOK
<1>7. \A j \in Identities \ {i} :
        counter'[j] = counter[j] /\ arrived'[j] = arrived[j] /\ admitted'[j] = admitted[j]
  BY <1>3 DEF TypeOK
<1>8. counter[i].bucket \in Nat /\ counter[i].bucket <= b
  BY <1>0 DEF TypeOK, CounterInv, CounterIsRecent
<1>9. CounterOutlivesBucket'
  BY <1>1, <1>6, <1>7 DEF CounterInv, CounterOutlivesBucket, BucketEnd
<1>10. CounterIsRecent'
  BY <1>0, <1>1, <1>6, <1>7 DEF CounterInv, CounterIsRecent
<1>11. \A k \in Buckets : k > b => admitted'[i][k] = 0
  BY <1>0, <1>6, <1>8 DEF CounterInv, CounterCounts
<1>12. n <= arrived'[i][b] /\ admitted'[i][b] <= n
  <2>1. admitted'[i][b] \in Nat
    BY <1>0, <1>2 DEF TypeOK
  <2> QED
    BY <1>1, <1>2, <1>6, <1>a, <2>1
<1>13. CounterCounts'
  BY <1>6, <1>7, <1>11, <1>12 DEF CounterInv, CounterCounts
<1> QED
  BY <1>4, <1>5, <1>9, <1>10, <1>13 DEF CounterInv

LEMMA CountedResponse ==
    ASSUME TypeOK, CounterInv, RefusalIsEarned, NEW i \in Identities, Count(i),
           NEW s \in {200, 429, 503}, NEW w \in 0 .. Window + 1, Respond(i, s, w),
           s = 429 => ~Allowed(i)
    PROVE  /\ response' \in [Identities -> Responses]
           /\ RefusalIsEarned'
<1>0. now \in 0 .. MaxTime /\ Bucket(now) \in Buckets
  BY TimeTypes DEF TypeOK
<1>1. response' = [response EXCEPT ![i] = [at |-> now, status |-> s, retry_after |-> w]]
  BY DEF Respond
<1>2. response' \in [Identities -> Responses]
  BY <1>0, <1>1 DEF TypeOK, Responses
<1>3. \A j \in Identities, b \in Buckets : arrived[j][b] <= arrived'[j][b]
  BY <1>0, ConstantsAssumption DEF TypeOK, Count
<1>4. \A j \in Identities, b \in Buckets : arrived[j][b] \in Nat /\ arrived'[j][b] \in Nat
  BY <1>0, ConstantsAssumption DEF TypeOK, Count
<1>5. ASSUME s = 429 PROVE arrived'[i][Bucket(now)] > Limit
  <2>1. Current(i) \in 1 .. arrived[i][Bucket(now)] + 1 /\ ~(Current(i) <= Limit)
    BY <1>5, CurrentCounts DEF Allowed
  <2>2. arrived'[i][Bucket(now)] = arrived[i][Bucket(now)] + 1
    BY <1>0 DEF Count, TypeOK
  <2> QED
    BY <1>0, <1>4, <2>1, <2>2, ConstantsAssumption
<1>6. ASSUME NEW j \in Identities, response'[j].status = 429
      PROVE  arrived'[j][Bucket(response'[j].at)] > Limit
  <2>1. CASE j = i
    BY <1>1, <1>5, <1>6, <2>1 DEF TypeOK
  <2>2. CASE j # i
    <3>1. response'[j] = response[j] /\ Bucket(response[j].at) \in Buckets
      BY <1>1, <2>2, ClockTypes DEF TypeOK, Responses
    <3> QED
      BY <1>3, <1>4, <1>6, <3>1, ConstantsAssumption DEF RefusalIsEarned
  <2> QED
    BY <2>1, <2>2
<1> QED
  BY <1>2, <1>6 DEF RefusalIsEarned, Bucket, Second

LEMMA LimiterInit == Init => LimiterInv
<1> SUFFICES ASSUME Init PROVE LimiterInv
  OBVIOUS
<1>0. /\ now \in Nat /\ now \in 0 .. MaxTime /\ MaxTime \in 0 .. MaxTime
      /\ Window * Ticks \in Nat /\ 0 \in 0 .. MaxTime + Window * Ticks
      /\ 0 \in 0 .. MaxTime /\ 0 \in 0 .. Window + 1
  <2>1. Window * Ticks \in Nat
    BY ConstantsAssumption
  <2> QED
    BY <2>1, ConstantsAssumption DEF Init
<1>1. 0 \in Buckets /\ Bucket(now) \in Nat /\ \A b \in Buckets : b \in Nat
  BY <1>0, ClockTypes DEF Buckets
<1>2. counter \in [Identities -> [bucket : Buckets, count : 0 .. MaxRequests,
                                expires : 0 .. MaxTime + Window * Ticks]]
  BY <1>0, <1>1, ConstantsAssumption DEF Init
<1>3. /\ arrived \in [Identities -> [Buckets -> 0 .. MaxRequests]]
      /\ admitted \in [Identities -> [Buckets -> 0 .. MaxRequests]]
  BY ConstantsAssumption DEF Init
<1>4. response \in [Identities -> Responses]
  BY <1>0 DEF Init, Responses
<1>5. TypeOK
  BY <1>0, <1>2, <1>3, <1>4 DEF TypeOK
<1>6. CounterInv
  BY <1>0, <1>1
     DEF Init, CounterInv, CounterOutlivesBucket, CounterIsRecent, CounterCounts
<1>7. RefusalIsEarned /\ AtMostLimitPerWindow
  BY ConstantsAssumption DEF Init, RefusalIsEarned, AtMostLimitPerWindow
<1> QED
  BY <1>5, <1>6, <1>7 DEF LimiterInv

LEMMA LimiterStep == LimiterInv /\ [Next]_vars => LimiterInv'
<1>0. SUFFICES ASSUME LimiterInv, [Next]_vars PROVE LimiterInv'
  OBVIOUS
<1>t. TypeOK /\ CounterInv /\ AtMostLimitPerWindow /\ RefusalIsEarned
  BY <1>0 DEF LimiterInv
<1>1. CASE Tick
  <2>1. /\ now \in 0 .. MaxTime /\ now' \in 0 .. MaxTime /\ now <= now'
        /\ now \in Nat /\ now' \in Nat /\ Window * Ticks \in Nat
    BY <1>t, <1>1, TimeTypes, ConstantsAssumption DEF TypeOK, Tick
  <2>2. Bucket(now) <= Bucket(now') /\ Bucket(now) \in Nat /\ Bucket(now') \in Nat
    BY <2>1, BucketsFollowTime, ClockTypes
  <2>3. Bucket(now)' = Bucket(now')
    BY DEF Bucket, Second
  <2>4. CounterIsRecent'
    <3>1. \A i \in Identities : counter[i].bucket \in Nat /\ counter[i].expires \in Nat
      BY <1>t, <2>1, TimeTypes, ConstantsAssumption DEF TypeOK, Buckets
    <3> QED
      BY <1>t, <1>1, <2>1, <2>2, <2>3, <3>1 DEF CounterInv, CounterIsRecent, Tick
  <2>5. TypeOK' /\ CounterOutlivesBucket' /\ CounterCounts' /\ AtMostLimitPerWindow'
        /\ RefusalIsEarned'
    BY <1>t, <1>1, <2>1
       DEF Tick, TypeOK, CounterInv, CounterOutlivesBucket, CounterCounts,
           AtMostLimitPerWindow, RefusalIsEarned, Bucket, Second, BucketEnd
  <2> QED
    BY <2>4, <2>5 DEF LimiterInv, CounterInv
<1>2. ASSUME NEW i \in Identities, Admit(i) PROVE LimiterInv'
  <2>1. Count(i) /\ Respond(i, 200, 0) /\ 0 \in 0 .. Window + 1 /\ Current(i) <= Limit
    BY <1>2, ConstantsAssumption DEF Admit, Allowed
  <2>2. admitted' = [admitted EXCEPT ![i][Bucket(now)] = @ + 1]
    BY <1>2 DEF Admit
  <2>3. /\ admitted[i][Bucket(now)] + 1 \in 0 .. MaxRequests
        /\ admitted[i][Bucket(now)] + 1 <= Limit
        /\ Bucket(now) \in Buckets
    <3>1. /\ admitted[i][Bucket(now)] < Current(i)
          /\ Current(i) \in 1 .. arrived[i][Bucket(now)] + 1
      BY <1>t, CurrentCounts
    <3>2. Bucket(now) \in Buckets
      BY <1>t, TimeTypes
    <3>3. /\ admitted[i][Bucket(now)] \in Nat /\ arrived[i][Bucket(now)] \in Nat
          /\ arrived[i][Bucket(now)] < MaxRequests
      BY <1>t, <2>1, <3>2, ConstantsAssumption DEF TypeOK, Count
    <3> QED
      BY <2>1, <3>1, <3>2, <3>3, ConstantsAssumption
  <2>4. admitted' \in [Identities -> [Buckets -> 0 .. MaxRequests]]
    BY <1>t, <2>2, <2>3 DEF TypeOK
  <2>5. now' \in 0 .. MaxTime
    BY <1>t, <2>1 DEF TypeOK, Count
  <2>6. AtMostLimitPerWindow'
    BY <1>t, <2>2, <2>3 DEF TypeOK, AtMostLimitPerWindow
  <2>7. /\ counter' \in [Identities -> [bucket : Buckets, count : 0 .. MaxRequests,
                                       expires : 0 .. MaxTime + Window * Ticks]]
        /\ arrived' \in [Identities -> [Buckets -> 0 .. MaxRequests]]
        /\ CounterInv'
    BY <1>t, <2>1, <2>2, CountKeepsCounters
  <2>8. response' \in [Identities -> Responses] /\ RefusalIsEarned'
    BY <1>t, <2>1, CountedResponse
  <2> QED
    BY <2>4, <2>5, <2>6, <2>7, <2>8 DEF LimiterInv, TypeOK
<1>3. ASSUME NEW i \in Identities, Refuse(i) PROVE LimiterInv'
  <2>1. Count(i) /\ Respond(i, 429, RetryAfter(i)) /\ ~Allowed(i) /\ UNCHANGED admitted
    BY <1>3 DEF Refuse
  <2>2. RetryAfter(i) \in 0 .. Window + 1
    BY <1>t, RetryAfterType
  <2>3. now' \in 0 .. MaxTime
    BY <1>t, <2>1 DEF TypeOK, Count
  <2> QED
    BY <1>t, <2>1, <2>2, <2>3, CountKeepsCounters, CountedResponse
       DEF LimiterInv, TypeOK, AtMostLimitPerWindow
<1>4. ASSUME NEW i \in Identities, LoseAnswer(i) PROVE LimiterInv'
  <2>1. Count(i) /\ Respond(i, 503, 0) /\ UNCHANGED admitted /\ 0 \in 0 .. Window + 1
    BY <1>4, ConstantsAssumption DEF LoseAnswer
  <2>2. now' \in 0 .. MaxTime
    BY <1>t, <2>1 DEF TypeOK, Count
  <2> QED
    BY <1>t, <2>1, <2>2, CountKeepsCounters, CountedResponse
       DEF LimiterInv, TypeOK, AtMostLimitPerWindow
<1>5. ASSUME NEW i \in Identities, Unavailable(i) PROVE LimiterInv'
  <2>1. response' = [response EXCEPT ![i] = [at |-> now, status |-> 503, retry_after |-> 0]]
    BY <1>5 DEF Unavailable, Respond
  <2>2. UNCHANGED <<now, counter, arrived, admitted>>
    BY <1>5 DEF Unavailable
  <2>3. response' \in [Identities -> Responses]
    BY <1>t, <2>1, ConstantsAssumption DEF TypeOK, Responses
  <2>4. TypeOK' /\ CounterInv'
    BY <1>t, <2>2, <2>3
       DEF TypeOK, CounterInv, CounterOutlivesBucket, CounterIsRecent, CounterCounts,
           Bucket, Second, BucketEnd
  <2>5. AtMostLimitPerWindow' /\ RefusalIsEarned'
    BY <1>t, <2>1, <2>2 DEF TypeOK, AtMostLimitPerWindow, RefusalIsEarned, Bucket, Second
  <2> QED
    BY <2>4, <2>5 DEF LimiterInv
<1>6. CASE UNCHANGED vars
  BY <1>t, <1>6
     DEF vars, LimiterInv, TypeOK, CounterInv, CounterOutlivesBucket, CounterIsRecent,
         CounterCounts, AtMostLimitPerWindow, RefusalIsEarned, Bucket, Second, BucketEnd
<1> QED
  BY <1>0, <1>1, <1>2, <1>3, <1>4, <1>5, <1>6 DEF Next

LEMMA LimiterIsSafe == Spec => []LimiterInv
  BY LimiterInit, LimiterStep, PTL DEF Spec

(* Counters, counts and responses have their types; in particular a client   *)
(* is never told to wait longer than a window and a second.                  *)
THEOREM TypesHold == Spec => []TypeOK
<1>1. LimiterInv => TypeOK
  BY DEF LimiterInv
<1> QED
  BY <1>1, LimiterIsSafe, PTL

(* Whatever the limit, the window and the clock's resolution, no window      *)
(* admits more than Limit requests of an identity.                           *)
THEOREM NoWindowExceedsLimit == Spec => []AtMostLimitPerWindow
<1>1. LimiterInv => AtMostLimitPerWindow
  BY DEF LimiterInv
<1> QED
  BY <1>1, LimiterIsSafe, PTL

(* A 429 answers a request of a window in which more than Limit arrived.     *)
THEOREM RefusalsAreEarned == Spec => []RefusalIsEarned
<1>1. LimiterInv => RefusalIsEarned
  BY DEF LimiterInv
<1> QED
  BY <1>1, LimiterIsSafe, PTL
=============================================================================
