--------------------------- MODULE UtilityProofs ---------------------------
(***************************************************************************)
(* Proofs about the small parts that requests pass on their way: what the  *)
(* token buckets of the student gateway admit and refuse, for every        *)
(* capacity, rate, skew, delay and set of buckets; that a process draws no *)
(* id twice, however many processes and callers there are and whatever the *)
(* clocks do; what the Bloom filters let through; and that, whatever the   *)
(* number of requests and what they do, a session has one live token at    *)
(* most, and none after a logout.                                          *)
(***************************************************************************)
EXTENDS
  RateLimiter, Snowflake, BloomFilter, RefreshTokens, FiniteSetTheorems, WellFoundedInduction, TLAPS

----------------------------------------------------------------------------
(* RateLimiter.                                                            *)

\* What load, tokens and times of one bucket have to do with each other at time n.  The
\* tokens there will be once the fastest clock is asked, and the load, change together with
\* each charge and each millisecond; and a bucket expires only when no load is left.
Balanced(n, b, l, full) ==
  /\ b.refill <= n + MaxSkew
  /\ l = 0 \/ l + b.tokens + (n + MaxSkew - b.refill) <= full + Spread
  /\ l = 0 \/ l + n + full <= b.expires + Spread
  /\ n < b.expires => full <= l + b.tokens + (n + MaxSkew - b.refill)

Tellings == {Nothing} \cup [by : Buckets, until : Int, behind : BOOLEAN]

\* What a student has been told stays good while the bucket is not charged.
Promised(c) ==
  told[c] # Nothing /\ ~told[c].behind =>
    \A t \in Int : t >= told[c].until => ~Lacks(told[c].by, t)

BucketInv ==
  /\ ClockTypeOK /\ BucketTypeOK
  /\ \A b \in Buckets : Balanced(now, bucket[b], load[b], Full(b))
  /\ \A c \in Students : Promised(c)

LEMMA FullIsNat ==
  ASSUME NEW b \in Buckets
  PROVE  /\ Full(b) \in Nat /\ Full(b) >= Interval[b] /\ Spread <= Full(b)
         /\ Interval[b] \in Nat \ {0} /\ Spread \in Nat
<1>1. Capacity[b] \in Nat \ {0} /\ Interval[b] \in Nat \ {0}
  BY BucketAssumption
<1>2. \A m \in Nat \ {0}, n \in Nat \ {0} : m * n \in Nat /\ m * n >= n
  OBVIOUS
<1>3. Spread \in Nat
  BY BucketAssumption, SkewAssumption DEF Spread
<1>4. QED
  BY <1>1, <1>2, <1>3, SpreadIsSmall DEF Full

\* What the script finds is within the bucket, and not of a time before the last refill.
LEMMA FoundType ==
  ASSUME BucketTypeOK, NEW b \in Buckets, NEW t \in Int
  PROVE  /\ Found(b, t).tokens \in Nat /\ Found(b, t).tokens <= Full(b)
         /\ Found(b, t).refill \in Int
<1>1. bucket[b].tokens \in Nat /\ bucket[b].tokens <= Full(b) /\ bucket[b].refill \in Int
  BY DEF BucketTypeOK
<1>2. Full(b) \in Nat
  BY FullIsNat
<1>3. CASE ~Unexpired(b)
  BY <1>2, <1>3 DEF Found
<1>4. CASE Unexpired(b) /\ t > bucket[b].refill
  BY <1>1, <1>2, <1>4 DEF Found, AtMost
<1>5. CASE Unexpired(b) /\ ~(t > bucket[b].refill)
  BY <1>1, <1>5 DEF Found
<1>6. QED
  BY <1>3, <1>4, <1>5

\* A bucket that has expired has no load left.
LEMMA ExpiredIsUnloaded ==
  ASSUME NEW l \in Nat, NEW n \in Int, NEW e \in Int, NEW full \in Nat, NEW spread \in Int,
         spread <= full, l = 0 \/ l + n + full <= e + spread, ~(n < e)
  PROVE  l = 0
OBVIOUS

\* A charge keeps a bucket balanced, whatever time of Given it is made under.
LEMMA ChargeBalances ==
  ASSUME ClockTypeOK, BucketTypeOK, NEW b \in Buckets, NEW t \in Given,
         Balanced(now, bucket[b], load[b], Full(b)), ~Lacks(b, t)
  PROVE  Balanced(now, [tokens |-> Found(b, t).tokens - Interval[b],
                        refill |-> Found(b, t).refill, expires |-> now + 2 * Full(b)],
                  load[b] + Interval[b], Full(b))
<1> DEFINE k == bucket[b].tokens
           r == bucket[b].refill
           e == bucket[b].expires
           l == load[b]
           F == Full(b)
           I == Interval[b]
<1>1. /\ k \in Nat /\ k <= F /\ r \in Int /\ e \in Int /\ l \in Nat
      /\ F \in Nat /\ I \in Nat \ {0} /\ Spread <= F /\ Spread = 2 * MaxSkew + MaxDelay
      /\ now \in Int /\ MaxSkew \in Nat /\ MaxDelay \in Nat
  BY FullIsNat, BucketAssumption, SkewAssumption DEF BucketTypeOK, ClockTypeOK, Spread
<1>2. t \in Int /\ now - MaxSkew - MaxDelay <= t /\ t <= now + MaxSkew
  BY <1>1 DEF Given
<1>3. /\ r <= now + MaxSkew
      /\ l = 0 \/ l + k + (now + MaxSkew - r) <= F + Spread
      /\ l = 0 \/ l + now + F <= e + Spread
      /\ now < e => F <= l + k + (now + MaxSkew - r)
  BY DEF Balanced
<1>4. SUFFICES ASSUME NEW x \in Nat, NEW y \in Int,
                      x = Found(b, t).tokens, y = Found(b, t).refill
               PROVE  /\ y <= now + MaxSkew
                      /\ (l + I) + (x - I) + (now + MaxSkew - y) <= F + Spread
                      /\ l + I <= F + Spread
                      /\ F <= (l + I) + (x - I) + (now + MaxSkew - y)
  <2>1. Found(b, t).tokens \in Nat /\ Found(b, t).refill \in Int
    BY <1>2, FoundType
  <2>2. l + I + now + F <= now + 2 * F + Spread <=> l + I <= F + Spread
    BY <1>1
  <2>3. QED
    BY <1>1, <1>4, <2>1, <2>2 DEF Balanced
<1>5. I <= x
  BY <1>1, <1>4 DEF Lacks
<1>6. CASE ~Unexpired(b)
  <2>1. x = F /\ y = t
    BY <1>4, <1>6 DEF Found
  <2>2. ~(now < e)
    BY <1>6 DEF Unexpired
  <2>3. l = 0
    <3>1. /\ l \in Nat /\ now \in Int /\ e \in Int /\ F \in Nat /\ Spread \in Int
          /\ Spread <= F
          /\ l = 0 \/ l + now + F <= e + Spread
      BY <1>1, <1>3
    <3> HIDE DEF l, e, F
    <3>2. QED
      BY <2>2, <3>1, ExpiredIsUnloaded
  <2>4. QED
    BY <1>1, <1>2, <1>5, <2>1, <2>3
<1>7. CASE Unexpired(b) /\ t > r
  <2>1. y = t /\ x = (IF k + t - r < F THEN k + t - r ELSE F)
    BY <1>4, <1>7 DEF Found, AtMost
  <2>2. F <= l + k + (now + MaxSkew - r)
    BY <1>3, <1>7 DEF Unexpired
  <2>3. CASE k + t - r < F
    BY <1>1, <1>2, <1>3, <1>5, <1>7, <2>1, <2>2, <2>3
  <2>4. CASE ~(k + t - r < F)
    BY <1>1, <1>2, <1>3, <1>5, <1>7, <2>1, <2>2, <2>4
  <2>5. QED
    BY <2>3, <2>4
<1>8. CASE Unexpired(b) /\ ~(t > r)
  <2>1. y = r /\ x = k
    BY <1>4, <1>8 DEF Found
  <2>2. F <= l + k + (now + MaxSkew - r)
    BY <1>3, <1>8 DEF Unexpired
  <2>3. QED
    BY <1>1, <1>2, <1>3, <1>5, <1>8, <2>1, <2>2
<1>9. QED
  BY <1>6, <1>7, <1>8

LEMMA InitHolds == LimiterInit => BucketInv
<1> SUFFICES ASSUME LimiterInit PROVE BucketInv
  OBVIOUS
<1>1. ClockTypeOK
  BY SkewAssumption DEF LimiterInit, ClockInit, ClockTypeOK, Skews
<1>2. BucketTypeOK
  <2>1. \A b \in Buckets : 0 <= Full(b)
    BY FullIsNat
  <2>2. QED
    BY <2>1 DEF LimiterInit, BucketInit, BucketTypeOK
<1>3. ASSUME NEW b \in Buckets
      PROVE  Balanced(now, bucket[b], load[b], Full(b))
  BY SkewAssumption DEF LimiterInit, ClockInit, BucketInit, Balanced
<1>4. ASSUME NEW c \in Students
      PROVE  Promised(c)
  BY <1>4 DEF LimiterInit, BucketInit, Promised
<1>5. QED
  BY <1>1, <1>2, <1>3, <1>4 DEF BucketInv

\* A millisecond: what the load loses, the time until the next refill gains.
LEMMA PassStep ==
  ASSUME BucketInv, Pass
  PROVE  BucketInv'
<1>1. /\ now \in Int /\ now' = now + 1 /\ skew' = skew
      /\ bucket' = bucket /\ told' = told
      /\ load' = [b \in Buckets |-> IF load[b] = 0 THEN 0 ELSE load[b] - 1]
  BY DEF Pass, TimePasses, LoadPasses, BucketInv, ClockTypeOK
<1>2. ClockTypeOK'
  BY <1>1, SkewAssumption DEF BucketInv, ClockTypeOK
<1>3. BucketTypeOK'
  <2>1. \A b \in Buckets : load[b] \in Nat
    BY DEF BucketInv, BucketTypeOK
  <2>2. load' \in [Buckets -> Nat]
    BY <1>1, <2>1
  <2>3. QED
    BY <1>1, <2>2 DEF BucketInv, BucketTypeOK, Full
<1>4. ASSUME NEW b \in Buckets
      PROVE  Balanced(now', bucket'[b], load'[b], Full(b))
  <2>1. /\ bucket[b].tokens \in Nat /\ bucket[b].refill \in Int /\ bucket[b].expires \in Int
        /\ load[b] \in Nat /\ Balanced(now, bucket[b], load[b], Full(b))
    BY DEF BucketInv, BucketTypeOK
  <2>2. Full(b) \in Nat /\ Spread \in Nat
    BY FullIsNat
  <2>3. load'[b] = IF load[b] = 0 THEN 0 ELSE load[b] - 1
    BY <1>1
  <2>4. QED
    BY <1>1, <2>1, <2>2, <2>3, SkewAssumption DEF Balanced
<1>5. ASSUME NEW c \in Students
      PROVE  Promised(c)'
  <2> SUFFICES ASSUME told[c] # Nothing, ~told[c].behind, NEW t \in Int, t >= told[c].until,
                      NEW b, b = told[c].by
               PROVE  ~Lacks(b, t)'
    BY <1>1 DEF Promised, Lacks, Found, Unexpired, Full, AtMost
  <2>1. b \in Buckets
    BY DEF BucketInv, BucketTypeOK, Nothing
  <2>2. ~Lacks(b, t)
    BY DEF BucketInv, Promised
  <2>3. CASE Unexpired(b)'
    <3>1. Unexpired(b)
      BY <1>1, <2>1, <2>3 DEF Unexpired, BucketInv, BucketTypeOK
    <3>2. QED
      BY <1>1, <2>2, <2>3, <3>1 DEF Lacks, Found, Full, AtMost
  <2>4. CASE ~Unexpired(b)'
    <3>1. Found(b, t)'.tokens = Full(b)
      BY <2>4 DEF Found, Full
    <3>2. QED
      BY <2>1, <3>1, FullIsNat DEF Lacks
  <2>5. QED
    BY <2>3, <2>4
<1>6. QED
  BY <1>2, <1>3, <1>4, <1>5 DEF BucketInv, Full

LEMMA AdmitStep ==
  ASSUME BucketInv, NEW c \in Students, NEW t \in Given, Admit(c, t), UNCHANGED clockVars
  PROVE  BucketInv'
<1>0. t \in Int
  BY BucketAssumption, SkewAssumption DEF Given, BucketInv, ClockTypeOK
<1>1. now' = now /\ skew' = skew
  BY DEF clockVars
<1>2. ClockTypeOK'
  BY <1>1 DEF BucketInv, ClockTypeOK
<1>3. ASSUME NEW b \in Buckets
      PROVE  /\ bucket'[b] \in [tokens : Nat, refill : Int, expires : Int]
             /\ bucket'[b].tokens <= Full(b)
             /\ load'[b] \in Nat
             /\ Balanced(now', bucket'[b], load'[b], Full(b))
  <2>1. /\ bucket[b] \in [tokens : Nat, refill : Int, expires : Int]
        /\ bucket[b].tokens <= Full(b) /\ load[b] \in Nat
        /\ Balanced(now, bucket[b], load[b], Full(b))
    BY DEF BucketInv, BucketTypeOK
  <2>2. CASE b \notin BucketSet(c)
    <3>1. bucket'[b] = bucket[b] /\ load'[b] = load[b]
      BY <2>2 DEF Admit, Charged
    <3>2. QED
      BY <1>1, <2>1, <3>1
  <2>3. CASE b \in BucketSet(c)
    <3> DEFINE f == Found(b, t)
    <3>1. /\ bucket'[b] = [tokens |-> f.tokens - Interval[b], refill |-> f.refill,
                           expires |-> now + 2 * Full(b)]
          /\ load'[b] = load[b] + Interval[b]
          /\ ~Lacks(b, t)
      BY <2>3 DEF Admit, Charged
    <3>2. /\ f.tokens \in Nat /\ f.tokens <= Full(b) /\ f.refill \in Int
          /\ Full(b) \in Nat /\ Interval[b] \in Nat \ {0} /\ now \in Int
      BY <1>0, FoundType, FullIsNat DEF BucketInv, ClockTypeOK
    <3>3. f.tokens - Interval[b] \in Nat /\ f.tokens - Interval[b] <= Full(b)
      BY <3>1, <3>2 DEF Lacks
    <3>4. Balanced(now, bucket'[b], load'[b], Full(b))
      BY <2>1, <3>1, ChargeBalances DEF BucketInv
    <3> HIDE DEF f
    <3>5. QED
      BY <1>1, <2>1, <3>1, <3>2, <3>3, <3>4
  <2>4. QED
    BY <2>2, <2>3
<1>4. \A d \in Students : told'[d] = IF told[d].by \in BucketSet(c) THEN Nothing ELSE told[d]
  BY DEF Admit
<1>5. BucketTypeOK'
  <2>1. bucket' \in [Buckets -> [tokens : Nat, refill : Int, expires : Int]]
    BY <1>3 DEF Admit, Charged
  <2>2. load' \in [Buckets -> Nat]
    BY <1>3 DEF Admit
  <2>3. told' \in [Students -> Tellings]
    <3>1. \A d \in Students : told[d] \in Tellings
      BY DEF BucketInv, BucketTypeOK, Tellings
    <3>2. Nothing \in Tellings
      BY DEF Tellings
    <3>3. QED
      BY <3>1, <3>2 DEF Admit
  <2>4. QED
    BY <1>3, <2>1, <2>2, <2>3 DEF BucketTypeOK, Tellings, Full
<1>6. ASSUME NEW d \in Students
      PROVE  Promised(d)'
  <2>1. CASE told'[d] = Nothing
    BY <2>1 DEF Promised
  <2>2. CASE told'[d] = told[d] /\ told[d].by \notin BucketSet(c) /\ told[d] # Nothing
    <3>1. told[d].by \in Buckets
      BY <2>2 DEF BucketInv, BucketTypeOK
    <3>2. bucket'[told[d].by] = bucket[told[d].by]
      BY <2>2, <3>1 DEF Admit, Charged
    <3>3. Promised(d)
      BY DEF BucketInv
    <3>4. QED
      BY <1>1, <2>2, <3>2, <3>3 DEF Promised, Lacks, Found, Unexpired, Full, AtMost
  <2>3. QED
    BY <1>4, <2>1, <2>2
<1>7. QED
  BY <1>2, <1>3, <1>5, <1>6 DEF BucketInv, Full

LEMMA RefuseStep ==
  ASSUME BucketInv, NEW c \in Students, NEW t \in Given, Refuse(c, t), UNCHANGED clockVars
  PROVE  BucketInv'
<1>0. t \in Int
  BY BucketAssumption, SkewAssumption DEF Given, BucketInv, ClockTypeOK
<1>1. now' = now /\ skew' = skew /\ bucket' = bucket /\ load' = load
  BY DEF clockVars, Refuse
<1>2. PICK b \in Buckets : Lacks(b, t) /\ told' = [told EXCEPT ![c] = Refusal(b, t)]
  <2>1. PICK i \in DOMAIN BucketsOf[c] :
          Lacking(c, t, i) /\ told' = [told EXCEPT ![c] = Refusal(BucketsOf[c][i], t)]
    BY DEF Refuse
  <2>2. BucketsOf[c] \in Seq(Buckets)
    BY BucketAssumption
  <2>3. BucketsOf[c][i] \in Buckets
    BY <2>2
  <2>4. QED
    BY <2>1, <2>3 DEF Lacking
<1>3. /\ Found(b, t).tokens \in Nat /\ Found(b, t).refill \in Int
      /\ Full(b) \in Nat /\ Interval[b] \in Nat \ {0} /\ Interval[b] <= Full(b)
  BY <1>0, FoundType, FullIsNat DEF BucketInv
<1>4. Refusal(b, t) \in [by : Buckets, until : Int, behind : BOOLEAN]
  BY <1>0, <1>3 DEF Refusal, Wait
<1>5. \A d \in Students : told'[d] = IF d = c THEN Refusal(b, t) ELSE told[d]
  BY <1>2 DEF BucketInv, BucketTypeOK
<1>6. ClockTypeOK' /\ BucketTypeOK'
  <2>1. ClockTypeOK'
    BY <1>1 DEF BucketInv, ClockTypeOK
  <2>2. told' \in [Students -> Tellings]
    BY <1>2, <1>4 DEF BucketInv, BucketTypeOK, Tellings
  <2>3. BucketTypeOK'
    BY <1>1, <2>2 DEF BucketInv, BucketTypeOK, Tellings, Full
  <2>4. QED
    BY <2>1, <2>3
<1>7. \A a \in Buckets : Balanced(now', bucket'[a], load'[a], Full(a))
  BY <1>1 DEF BucketInv
<1>8. ASSUME NEW u \in Int, t >= Found(b, t).refill, u >= t + Wait(b, t)
      PROVE  ~Lacks(b, u)
  <2>1. /\ bucket[b].tokens \in Nat /\ bucket[b].tokens <= Full(b)
        /\ bucket[b].refill \in Int
    BY DEF BucketInv, BucketTypeOK
  <2>2. CASE ~Unexpired(b)
    BY <1>3, <2>2 DEF Lacks, Found
  <2>3. CASE Unexpired(b)
    <3>1. /\ t >= bucket[b].refill
          /\ Found(b, t).tokens <= bucket[b].tokens + t - bucket[b].refill
      BY <1>0, <1>3, <1>8, <2>1, <2>3 DEF Found, AtMost
    <3>2. Found(b, t).tokens < Interval[b]
      BY <1>2 DEF Lacks
    <3>3. u > t /\ bucket[b].tokens + u - bucket[b].refill >= Interval[b]
      BY <1>0, <1>3, <1>8, <2>1, <3>1, <3>2 DEF Wait
    <3>4. Found(b, u).tokens >= Interval[b]
      BY <1>0, <1>3, <2>1, <2>3, <3>1, <3>3 DEF Found, AtMost
    <3>5. Found(b, u).tokens \in Nat
      BY FoundType DEF BucketInv
    <3>6. QED
      BY <1>3, <3>4, <3>5 DEF Lacks
  <2>4. QED
    BY <2>2, <2>3
<1>9. ASSUME NEW d \in Students
      PROVE  Promised(d)'
  <2>1. \A a, u : Lacks(a, u)' <=> Lacks(a, u)
    BY <1>1 DEF Lacks, Found, Unexpired, Full, AtMost
  <2>2. CASE d = c
    <3> SUFFICES ASSUME ~told'[c].behind, NEW u \in Int, u >= told'[c].until
                 PROVE  ~Lacks(told'[c].by, u)
      BY <2>1, <2>2 DEF Promised
    <3>1. /\ told'[c].by = b /\ told'[c].until = t + Wait(b, t)
          /\ ~(t < Found(b, t).refill)
      <4>1. told'[c] = Refusal(b, t)
        BY <1>5
      <4>2. told'[c].behind = (t < Found(b, t).refill)
        BY <4>1 DEF Refusal
      <4>3. told'[c].by = b /\ told'[c].until = t + Wait(b, t)
        BY <4>1 DEF Refusal
      <4>4. ~(t < Found(b, t).refill)
        BY <4>2, Zenon
      <4>5. QED
        BY <4>3, <4>4
    <3>2. QED
      BY <1>0, <1>3, <1>8, <3>1
  <2>3. CASE d # c
    BY <1>5, <2>1, <2>3 DEF Promised, BucketInv
  <2>4. QED
    BY <2>2, <2>3
<1>10. QED
  BY <1>6, <1>7, <1>9 DEF BucketInv, Full

LEMMA NextStep == BucketInv /\ [LimiterNext]_limiterVars => BucketInv'
<1> SUFFICES ASSUME BucketInv, [LimiterNext]_limiterVars PROVE BucketInv'
  OBVIOUS
<1>1. CASE Pass
  BY <1>1, PassStep
<1>2. ASSUME NEW c \in Students, Request(c)
      PROVE  BucketInv'
  <2>1. CASE \E t \in Given : Admit(c, t)
    BY <1>2, <2>1, AdmitStep DEF Request
  <2>2. CASE \E t \in Given : Refuse(c, t)
    BY <1>2, <2>2, RefuseStep DEF Request
  <2>3. CASE Forget(c)
    <3>1. /\ now' = now /\ skew' = skew /\ bucket' = bucket /\ load' = load
          /\ \A d \in Students : told'[d] = IF d = c THEN Nothing ELSE told[d]
      BY <1>2, <2>3 DEF Request, Forget, clockVars, BucketInv, BucketTypeOK
    <3>2. \A a, u : Lacks(a, u)' <=> Lacks(a, u)
      BY <3>1 DEF Lacks, Found, Unexpired, Full, AtMost
    <3>3. \A d \in Students : Promised(d)'
      BY <3>1, <3>2 DEF BucketInv, Promised
    <3>4. told' \in [Students -> Tellings]
      BY <2>3 DEF Forget, BucketInv, BucketTypeOK, Tellings
    <3>5. ClockTypeOK' /\ BucketTypeOK'
      BY <3>1, <3>4 DEF BucketInv, ClockTypeOK, BucketTypeOK, Tellings, Full
    <3>6. QED
      BY <3>1, <3>3, <3>5 DEF BucketInv, Full
  <2>4. QED
    BY <1>2, <2>1, <2>2, <2>3 DEF Request
<1>3. CASE UNCHANGED limiterVars
  <2>1. UNCHANGED <<now, skew, bucket, told, load>>
    BY <1>3 DEF limiterVars, clockVars, bucketVars
  <2>2. \A a, u : Lacks(a, u)' <=> Lacks(a, u)
    BY <2>1 DEF Lacks, Found, Unexpired, Full, AtMost
  <2>3. ClockTypeOK' /\ BucketTypeOK'
    BY <2>1 DEF BucketInv, ClockTypeOK, BucketTypeOK, Full
  <2>4. QED
    BY <2>1, <2>2, <2>3 DEF BucketInv, Promised, Full
<1>4. QED
  BY <1>1, <1>2, <1>3 DEF LimiterNext

\* Load, tokens and times stay in balance, and what students were told stays true.
THEOREM LimiterInvariant == LimiterSpec => []BucketInv
<1>1. QED
  BY InitHolds, NextStep, PTL DEF LimiterSpec

----------------------------------------------------------------------------
\* No bucket ever admits more than its capacity and its rate, but for the spread of the
\* times it is given: for every number of gateways and whatever they ask and when.
THEOREM LimiterAdmitsWithinRate == LimiterSpec => []AdmittedWithinRate
<1>1. BucketInv => AdmittedWithinRate
  <2> SUFFICES ASSUME BucketInv, NEW b \in Buckets PROVE load[b] <= Full(b) + Spread
    BY DEF AdmittedWithinRate
  <2>1. /\ bucket[b].tokens \in Nat /\ bucket[b].refill \in Int
        /\ load[b] \in Nat /\ Balanced(now, bucket[b], load[b], Full(b)) /\ now \in Int
    BY DEF BucketInv, BucketTypeOK, ClockTypeOK
  <2>2. Full(b) \in Nat /\ Spread \in Nat /\ MaxSkew \in Nat
    BY FullIsNat, SkewAssumption
  <2>3. QED
    BY <2>1, <2>2 DEF Balanced
<1>2. QED
  BY LimiterInvariant, <1>1, PTL

\* What a bucket lacks was taken by requests that were admitted.
THEOREM LimiterChargesOnlyAdmitted == LimiterSpec => []LacksOnlyWhatWasAdmitted
<1>1. BucketInv => LacksOnlyWhatWasAdmitted
  BY DEF BucketInv, LacksOnlyWhatWasAdmitted, Balanced, Unexpired
<1>2. QED
  BY LimiterInvariant, <1>1, PTL

\* The wait a refusal tells is enough, unless it was counted from before the last refill.
THEOREM LimiterRetryAfterSuffices == LimiterSpec => []RetryAfterSuffices
<1>1. BucketInv => RetryAfterSuffices
  <2> SUFFICES ASSUME BucketInv, NEW c \in Students, NEW t \in Given, told[c] # Nothing,
                      ~told[c].behind, t >= told[c].until
               PROVE  ~Lacks(told[c].by, t)
    BY DEF RetryAfterSuffices
  <2>1. t \in Int
    BY BucketAssumption, SkewAssumption DEF Given, BucketInv, ClockTypeOK
  <2>2. QED
    BY <2>1 DEF BucketInv, Promised
<1>2. QED
  BY LimiterInvariant, <1>1, PTL

----------------------------------------------------------------------------
(* Snowflake.                                                              *)

\* An id drawn before: of an earlier millisecond than the last, or of an earlier sequence
\* number in it, or of the last millisecond when that is used up.
Past(id, n) ==
  \/ id[1] < n.timestamp
  \/ id[1] = n.timestamp /\ (id[2] <= n.sequence \/ n.spins # NoCaller)

\* The clock shows the last millisecond or a later one, unless a caller spins: then it may
\* show anything.
NotBehind(n, ms) == n.spins = NoCaller => n.timestamp <= ms

NodeInv ==
  /\ ClockTypeOK /\ NodeTypeOK
  /\ \A p \in Processes :
       /\ ~repeated[p]
       /\ \A id \in drawn[p] : Past(id, node[p]) /\ NotBehind(node[p], Reading(p))

LEMMA Readings ==
  ASSUME ClockTypeOK, NEW p \in Processes
  PROVE  Reading(p) \in Nat /\ skew[p] \in Int
<1>1. p \in Machines
  BY SnowflakeAssumption
<1>2. skew[p] \in Int /\ -MaxSkew <= skew[p]
  BY <1>1, SkewAssumption DEF ClockTypeOK, Skews
<1>3. QED
  BY <1>2, SkewAssumption DEF ClockTypeOK, Reading

\* An id that a process has not drawn, of the reading of its clock, keeps the invariant.
LEMMA ReturnsStep ==
  ASSUME NodeInv, UNCHANGED clockVars, NEW p \in Processes, NEW s \in 0..MaxSequence,
         Returns(p, Reading(p), s),
         \A id \in drawn[p] : \/ id[1] < Reading(p)
                              \/ id[1] = Reading(p) /\ id[2] < s
  PROVE  NodeInv'
<1> DEFINE ms == Reading(p)
           new == [timestamp |-> ms, sequence |-> s, spins |-> NoCaller]
<1>1. ms \in Nat /\ now' = now /\ skew' = skew
  BY Readings DEF NodeInv, clockVars
<1>2. \A q \in Processes : Reading(q)' = Reading(q)
  BY <1>1 DEF Reading
<1>3. /\ node' = [node EXCEPT ![p] = new]
      /\ drawn' = [drawn EXCEPT ![p] = @ \cup {<<ms, s>>}]
      /\ repeated' = [repeated EXCEPT ![p] = @ \/ <<ms, s>> \in drawn[p]]
  BY DEF Returns
<1>4. \A id \in drawn[p] : id \in Nat \X (0..MaxSequence)
  BY DEF NodeInv, NodeTypeOK
<1>5. <<ms, s>> \notin drawn[p]
  BY <1>1, SnowflakeAssumption
<1> HIDE DEF ms
<1>6. NodeTypeOK'
  <2>1. new \in [timestamp : Nat, sequence : 0..MaxSequence, spins : Callers \cup {NoCaller}]
    BY <1>1
  <2>2. node' \in [Processes -> [timestamp : Nat, sequence : 0..MaxSequence,
                                 spins : Callers \cup {NoCaller}]]
    BY <1>3, <2>1 DEF NodeInv, NodeTypeOK
  <2>3. drawn' \in [Processes -> SUBSET (Nat \X (0..MaxSequence))]
    BY <1>1, <1>3 DEF NodeInv, NodeTypeOK
  <2>4. repeated' \in [Processes -> BOOLEAN]
    BY <1>3, Zenon DEF NodeInv, NodeTypeOK
  <2>5. QED
    BY <2>2, <2>3, <2>4 DEF NodeTypeOK
<1>7. ASSUME NEW q \in Processes
      PROVE  ~repeated'[q]
  BY <1>3, <1>5, Zenon DEF NodeInv, NodeTypeOK
<1>8. ASSUME NEW q \in Processes, NEW id \in drawn'[q]
      PROVE  Past(id, node'[q]) /\ NotBehind(node'[q], Reading(q))
  <2>1. CASE q # p
    <3>1. node'[q] = node[q] /\ id \in drawn[q]
      BY <1>3, <1>8, <2>1 DEF NodeInv, NodeTypeOK
    <3>2. QED
      BY <3>1 DEF NodeInv
  <2>2. CASE q = p
    <3>1. node'[q] = new /\ (id \in drawn[p] \/ id = <<ms, s>>)
      BY <1>3, <1>8, <2>2 DEF NodeInv, NodeTypeOK
    <3>2. Past(id, new)
      BY <1>1, <1>4, <3>1, SnowflakeAssumption DEF Past, ms
    <3>3. NotBehind(new, ms)
      BY <1>1 DEF NotBehind
    <3>4. QED
      BY <2>2, <3>1, <3>2, <3>3 DEF ms
  <2>3. QED
    BY <2>1, <2>2
<1>9. QED
  BY <1>1, <1>2, <1>6, <1>7, <1>8 DEF NodeInv, ClockTypeOK

LEMMA DrawStep ==
  ASSUME NodeInv, NEW p \in Processes, NEW c \in Callers, Draw(p, c)
  PROVE  NodeInv'
<1>1. /\ node[p] \in [timestamp : Nat, sequence : 0..MaxSequence,
                      spins : Callers \cup {NoCaller}]
      /\ Reading(p) \in Nat /\ MaxSequence \in Nat
  BY Readings, SnowflakeAssumption DEF NodeInv, NodeTypeOK
<1>2. \A id \in drawn[p] : /\ id \in Nat \X (0..MaxSequence)
                           /\ Past(id, node[p]) /\ NotBehind(node[p], Reading(p))
  BY DEF NodeInv, NodeTypeOK
<1>3. UNCHANGED clockVars
  BY DEF Draw
<1>4. CASE NextInMillisecond(p)
  <2>1. /\ node[p].sequence + 1 \in 0..MaxSequence
        /\ Returns(p, Reading(p), node[p].sequence + 1)
        /\ Reading(p) = node[p].timestamp /\ node[p].spins = NoCaller
    BY <1>1, <1>4 DEF NextInMillisecond, Free
  <2>2. \A id \in drawn[p] : \/ id[1] < Reading(p)
                             \/ id[1] = Reading(p) /\ id[2] < node[p].sequence + 1
    BY <1>1, <1>2, <2>1 DEF Past
  <2>3. QED
    BY <1>3, <2>1, <2>2, ReturnsStep
<1>5. CASE FirstInMillisecond(p) \/ StopsSpinning(p, c)
  <2>1. Returns(p, Reading(p), 0) /\ 0 \in 0..MaxSequence
    BY <1>1, <1>5 DEF FirstInMillisecond, StopsSpinning
  <2>2. \A id \in drawn[p] : id[1] < Reading(p)
    BY <1>1, <1>2, <1>5 DEF Past, NotBehind, FirstInMillisecond, StopsSpinning, Free
  <2>3. QED
    BY <1>3, <2>1, <2>2, ReturnsStep
<1>6. CASE StartsSpinning(p, c)
  <2>1. /\ node' = [node EXCEPT ![p] =
              [timestamp |-> node[p].timestamp, sequence |-> 0, spins |-> c]]
        /\ drawn' = drawn /\ repeated' = repeated
        /\ now' = now /\ skew' = skew
    BY <1>3, <1>6 DEF StartsSpinning, clockVars
  <2>2. NodeTypeOK' /\ ClockTypeOK'
    <3>1. node' \in [Processes -> [timestamp : Nat, sequence : 0..MaxSequence,
                                   spins : Callers \cup {NoCaller}]]
      <4>1. 0 \in 0..MaxSequence
        BY <1>1
      <4>2. [timestamp |-> node[p].timestamp, sequence |-> 0, spins |-> c]
              \in [timestamp : Nat, sequence : 0..MaxSequence, spins : Callers \cup {NoCaller}]
        BY <1>1, <4>1
      <4>3. QED
        BY <2>1, <4>2 DEF NodeInv, NodeTypeOK
    <3>2. QED
      BY <2>1, <3>1 DEF NodeInv, NodeTypeOK, ClockTypeOK
  <2>3. ASSUME NEW q \in Processes, NEW id \in drawn[q]
        PROVE  Past(id, node'[q]) /\ NotBehind(node'[q], Reading(q)')
    <3>1. Past(id, node[q]) /\ NotBehind(node[q], Reading(q))
      BY <2>3 DEF NodeInv
    <3>2. CASE q # p
      BY <2>1, <3>1, <3>2 DEF Reading, NodeInv, NodeTypeOK
    <3>3. CASE q = p
      <4>1. node'[p].timestamp = node[p].timestamp /\ node'[p].spins # NoCaller
        BY <2>1, CallersAssumption DEF NodeInv, NodeTypeOK
      <4>2. QED
        BY <2>1, <3>1, <3>3, <4>1 DEF Past, NotBehind
    <3>4. QED
      BY <3>2, <3>3
  <2>4. QED
    BY <2>1, <2>2, <2>3 DEF NodeInv
<1>7. QED
  BY <1>4, <1>5, <1>6 DEF Draw, GetsID

\* A clock that goes forward only makes room; one that goes back starts the history again,
\* unless a caller spins, and waits until the clock is past what is used up.
LEMMA ClockStep ==
  ASSUME NodeInv, NEW m \in Machines, NEW s \in Skews, ClockIsSet(m, s)
  PROVE  NodeInv'
<1>1. /\ now' = now /\ skew' = [skew EXCEPT ![m] = s] /\ node' = node
      /\ drawn' = [p \in Processes |-> IF SetBackFree(p, m, s) THEN {} ELSE drawn[p]]
      /\ repeated' = [p \in Processes |-> IF SetBackFree(p, m, s) THEN FALSE ELSE repeated[p]]
  BY DEF ClockIsSet, SetClock
<1>2. ClockTypeOK'
  BY <1>1 DEF NodeInv, ClockTypeOK, Skews
<1>3. NodeTypeOK'
  <2>1. drawn' \in [Processes -> SUBSET (Nat \X (0..MaxSequence))]
    BY <1>1 DEF NodeInv, NodeTypeOK
  <2>2. repeated' \in [Processes -> BOOLEAN]
    BY <1>1, Zenon DEF NodeInv, NodeTypeOK
  <2>3. QED
    BY <1>1, <2>1, <2>2 DEF NodeInv, NodeTypeOK
<1>4. ASSUME NEW p \in Processes
      PROVE  ~repeated'[p]
  BY <1>1, Zenon DEF NodeInv
<1>5. ASSUME NEW p \in Processes, NEW id \in drawn'[p]
      PROVE  Past(id, node[p]) /\ NotBehind(node[p], Reading(p)')
  <2>1. id \in drawn[p] /\ (~(p = m /\ s < skew[m]) \/ node[p].spins # NoCaller)
    BY <1>1, <1>5 DEF SetBackFree, Free
  <2>2. Past(id, node[p]) /\ NotBehind(node[p], Reading(p))
    BY <2>1 DEF NodeInv
  <2>3. /\ Reading(p) \in Nat /\ node[p].timestamp \in Nat
        /\ now \in Int /\ skew[p] \in Int /\ s \in Int /\ p \in Machines
    BY Readings, SnowflakeAssumption, SkewAssumption DEF NodeInv, NodeTypeOK, ClockTypeOK, Skews
  <2>4. CASE node[p].spins # NoCaller
    BY <2>2, <2>4 DEF NotBehind
  <2>5. CASE node[p].spins = NoCaller
    <3>1. skew'[p] >= skew[p] /\ skew'[p] \in Int
      BY <1>1, <2>1, <2>3, <2>5 DEF NodeInv, ClockTypeOK
    <3>2. Reading(p)' >= Reading(p) /\ Reading(p)' \in Int
      BY <1>1, <2>3, <3>1 DEF Reading
    <3>3. QED
      BY <2>2, <2>3, <3>2 DEF NotBehind
  <2>6. QED
    BY <2>4, <2>5
<1>6. QED
  BY <1>1, <1>2, <1>3, <1>4, <1>5 DEF NodeInv

\* Time passes, and p starts anew.
LEMMA OtherSteps ==
  ASSUME NodeInv,
         \/ TimePasses /\ UNCHANGED nodeVars
         \/ \E p \in Processes : Restart(p) /\ UNCHANGED clockVars
         \/ UNCHANGED snowflakeVars
  PROVE  NodeInv'
<1>1. CASE TimePasses /\ UNCHANGED nodeVars
  <2>1. now' = now + 1 /\ skew' = skew /\ node' = node /\ drawn' = drawn /\ repeated' = repeated
    BY <1>1 DEF TimePasses, nodeVars
  <2>2. ClockTypeOK' /\ NodeTypeOK'
    BY <2>1, SkewAssumption DEF NodeInv, ClockTypeOK, NodeTypeOK
  <2>3. ASSUME NEW p \in Processes
        PROVE  Reading(p)' = Reading(p) + 1 /\ Reading(p) \in Nat /\ node[p].timestamp \in Nat
    BY <2>1, Readings DEF NodeInv, ClockTypeOK, NodeTypeOK, Reading
  <2>4. ASSUME NEW p \in Processes, NEW id \in drawn[p]
        PROVE  Past(id, node[p]) /\ NotBehind(node[p], Reading(p)')
    <3>1. Past(id, node[p]) /\ NotBehind(node[p], Reading(p))
      BY DEF NodeInv
    <3>2. QED
      BY <2>3, <3>1 DEF NotBehind
  <2>5. QED
    BY <2>1, <2>2, <2>4 DEF NodeInv
<1>2. ASSUME NEW p \in Processes, Restart(p) /\ UNCHANGED clockVars
      PROVE  NodeInv'
  <2>1. /\ node' = [node EXCEPT ![p] = NewNode] /\ drawn' = [drawn EXCEPT ![p] = {}]
        /\ repeated' = [repeated EXCEPT ![p] = FALSE] /\ now' = now /\ skew' = skew
    BY <1>2 DEF Restart, clockVars
  <2>2. ClockTypeOK' /\ NodeTypeOK'
    <3>1. NewNode \in [timestamp : Nat, sequence : 0..MaxSequence,
                       spins : Callers \cup {NoCaller}]
      BY SnowflakeAssumption DEF NewNode
    <3>2. QED
      BY <2>1, <3>1 DEF NodeInv, ClockTypeOK, NodeTypeOK
  <2>3. \A q \in Processes : ~repeated'[q]
    BY <2>1, Zenon DEF NodeInv, NodeTypeOK
  <2>4. \A q \in Processes : drawn'[q] = {} \/ (drawn'[q] = drawn[q] /\ node'[q] = node[q])
    BY <2>1 DEF NodeInv, NodeTypeOK
  <2>5. QED
    BY <2>1, <2>2, <2>3, <2>4 DEF NodeInv, Reading
<1>3. CASE UNCHANGED snowflakeVars
  BY <1>3 DEF snowflakeVars, clockVars, nodeVars, NodeInv, ClockTypeOK, NodeTypeOK, Reading
<1>4. QED
  BY <1>1, <1>2, <1>3

\* A process never draws an id twice while it runs and its clock is not set back between two
\* calls: for every number of processes, and whatever the sequence numbers and the clocks do,
\* while a caller waits for the next millisecond too.
THEOREM NoIdIsDrawnTwice == SnowflakeSpec => []NoIdTwice
<1>1. SnowflakeInit => NodeInv
  <2> SUFFICES ASSUME SnowflakeInit PROVE NodeInv
    OBVIOUS
  <2>1. ClockTypeOK
    BY SkewAssumption DEF SnowflakeInit, ClockInit, ClockTypeOK, Skews
  <2>2. NodeTypeOK
    BY SnowflakeAssumption DEF SnowflakeInit, NodeInit, NodeTypeOK, NewNode
  <2>3. QED
    BY <2>1, <2>2 DEF SnowflakeInit, NodeInit, NodeInv
<1>2. NodeInv /\ [SnowflakeNext]_snowflakeVars => NodeInv'
  BY DrawStep, ClockStep, OtherSteps DEF SnowflakeNext
<1>3. NodeInv => NoIdTwice
  BY DEF NodeInv, NoIdTwice
<1>4. QED
  BY <1>1, <1>2, <1>3, PTL DEF SnowflakeSpec

----------------------------------------------------------------------------
(* BloomFilter.                                                            *)

\* Post r needs no adding: it is in the filter, or its loss is on record.
Kept(r) == r \in filter \cup lost

\* What the rebuild of instance i has done, unless another one has deleted the filter since.
Warm(i) ==
  lastDel = i =>
    /\ warmup[i].at \in {"reserve", "select", "add"} =>
         \A r \in Posts : post[r] = "done" /\ r <= warmup[i].cursor => Kept(r)
    /\ warmup[i].at = "add" =>
         \A r \in Posts, s \in warmup[i].ids :
           post[r] = "done" /\ r < s => r <= warmup[i].cursor \/ r \in warmup[i].ids \/ Kept(r)
    /\ warmup[i].at = "ready" => \A r \in Posts : post[r] = "done" => Kept(r)

\* A rebuild begins before the first id, and a page that is about to be added is not empty.
Pages ==
  \A i \in Instances :
    /\ warmup[i].at = "del" => warmup[i].cursor = 0
    /\ warmup[i].at = "add" => warmup[i].ids # {}

\* A reader that is about to ask the filter has seen the ready key, which goes only when
\* the filter is deleted.
Asks ==
  \A h \in Readers :
    /\ asking[h].at \in {"ready", "exists", "add"} =>
         asking[h].id \in Posts /\ post[asking[h].id] = "done"
    /\ asking[h].at = "exists" /\ ~asking[h].shaken => ready

FilterInv ==
  /\ FilterTypeOK
  /\ \A i \in Instances : Warm(i)
  /\ Pages
  /\ FilterComplete
  /\ Asks
  /\ TurnedAwayOnlyByRace

----------------------------------------------------------------------------
(* Pages.                                                                  *)

LEMMA Smallest ==
  ASSUME NEW S \in SUBSET Nat, S # {}
  PROVE  \E n \in S : \A m \in S : n <= m
<1> DEFINE Less == {p \in Nat \X Nat : p[1] < p[2]}
<1>1. IsWellFoundedOn(Less, Nat)
  BY NatLessThanWellFounded DEF OpToRel
<1>2. PICK n \in S : \A m \in S : <<m, n>> \notin Less
  <2> HIDE DEF Less
  <2>1. QED
    BY <1>1, WFMin
<1>3. \A m \in S : n <= m
  <2> SUFFICES ASSUME NEW m \in S PROVE n <= m
    OBVIOUS
  <2>1. <<m, n>> \in Nat \X Nat /\ ~(m < n)
    BY <1>2
  <2>2. QED
    BY <2>1
<1>4. QED
  BY <1>3

LEMMA Largest ==
  ASSUME NEW S \in SUBSET Posts, S # {}
  PROVE  LastOf(S) \in S /\ \A r \in S : r <= LastOf(S)
<1> DEFINE T == {NumPosts - r : r \in S}
<1>1. NumPosts \in Nat /\ \A r \in S : r \in Int /\ r <= NumPosts /\ NumPosts - r \in Nat
  BY BloomAssumption DEF Posts
<1>2. PICK n \in T : \A m \in T : n <= m
  <2>1. T \in SUBSET Nat /\ T # {}
    BY <1>1
  <2>2. QED
    BY <2>1, Smallest
<1>3. PICK r \in S : n = NumPosts - r
  BY <1>2
<1>4. \A s \in S : s <= r
  <2> SUFFICES ASSUME NEW s \in S PROVE s <= r
    OBVIOUS
  <2>1. NumPosts - r <= NumPosts - s
    BY <1>2, <1>3
  <2>2. QED
    BY <1>1, <2>1
<1>5. QED
  BY <1>4 DEF LastOf

FirstPage(S) == {r \in S : Cardinality({s \in S : s < r}) < BatchSize}

LEMMA FirstPages ==
  ASSUME NEW S \in SUBSET Posts, S # {}
  PROVE  /\ FirstPage(S) # {}
         /\ \A s \in FirstPage(S), r \in S : r < s => r \in FirstPage(S)
<1>1. S \subseteq Nat /\ IsFiniteSet(S) /\ BatchSize \in Nat \ {0}
  <2>1. IsFiniteSet(Posts) /\ Posts \subseteq Nat
    BY BloomAssumption, FS_Interval DEF Posts
  <2>2. QED
    BY <2>1, FS_Subset, BloomAssumption
<1>2. FirstPage(S) # {}
  <2>1. PICK n \in S : \A m \in S : n <= m
    BY <1>1, Smallest
  <2>2. {s \in S : s < n} = {}
    <3>1. ASSUME NEW s \in S, s < n PROVE FALSE
      BY <1>1, <2>1, <3>1
    <3>2. QED
      BY <3>1
  <2>3. Cardinality({s \in S : s < n}) < BatchSize
    BY <1>1, <2>2, FS_EmptySet
  <2>4. QED
    BY <2>3 DEF FirstPage
<1>3. ASSUME NEW s \in FirstPage(S), NEW r \in S, r < s PROVE r \in FirstPage(S)
  <2> DEFINE Below(t) == {q \in S : q < t}
  <2>1. s \in S /\ Cardinality(Below(s)) < BatchSize
    BY DEF FirstPage
  <2>2. Below(r) \subseteq Below(s)
    <3>1. ASSUME NEW q \in S, q < r PROVE q < s
      <4>1. q \in Nat /\ r \in Nat /\ s \in Nat
        BY <1>1, <2>1
      <4>2. QED
        BY <1>3, <3>1, <4>1
    <3>2. QED
      BY <3>1
  <2>3. Below(s) \subseteq S
    OBVIOUS
  <2>4. IsFiniteSet(Below(s))
    BY <1>1, <2>3, FS_Subset
  <2>5. /\ Cardinality(Below(r)) <= Cardinality(Below(s))
        /\ Cardinality(Below(r)) \in Nat /\ Cardinality(Below(s)) \in Nat
    BY <2>2, <2>4, FS_Subset, FS_CardinalityType
  <2>6. Cardinality(Below(r)) < BatchSize
    BY <1>1, <2>1, <2>5
  <2>7. QED
    BY <2>6 DEF FirstPage
<1>4. QED
  BY <1>2, <1>3

----------------------------------------------------------------------------
(* What the steps have in common.                                          *)

Ids == 0..NumPosts
Rebuilding == [at : {"off", "del", "reserve", "select", "add", "ready"},
               cursor : Ids, ids : SUBSET Posts]
Questions == [at : {"idle", "ready", "exists", "add", "away"}, id : Ids, shaken : BOOLEAN]

LEMMA StartNumbers ==
  /\ NumPosts \in Nat /\ MaxStarts \in Nat
  /\ Posts \subseteq Ids /\ Posts \subseteq Int /\ Ids \subseteq Int /\ 0 \in Ids
  /\ \A r \in Posts : r > 0
BY BloomAssumption DEF Posts, Ids

LEMMA FilterTypes ==
  FilterTypeOK <=>
    /\ post \in [Posts -> {"none", "committed", "done"}]
    /\ filter \subseteq Posts /\ ready \in BOOLEAN
    /\ warmup \in [Instances -> Rebuilding] /\ asking \in [Readers -> Questions]
    /\ starts \in 0..MaxStarts /\ lastDel \in Instances \cup {NoOne}
    /\ premature \in BOOLEAN /\ lost \subseteq Posts
BY DEF FilterTypeOK, Rebuilding, Questions, Ids

\* The filter loses nothing, and a post that is done has been added or is lost.
Grows ==
  /\ \A r \in Posts : Kept(r) => Kept(r)'
  /\ \A r \in Posts : post'[r] = "done" => post[r] = "done" \/ Kept(r)'
  /\ \A r \in Posts : post[r] = "done" => post'[r] = "done"

LEMMA WarmKept ==
  ASSUME Grows, UNCHANGED lastDel, NEW i \in Instances, warmup'[i] = warmup[i],
         warmup[i].ids \subseteq Posts, Warm(i)
  PROVE  Warm(i)'
BY DEF Grows, Warm

LEMMA CompleteKept ==
  ASSUME Grows, UNCHANGED <<ready, premature>>, FilterComplete
  PROVE  FilterComplete'
BY DEF Grows, FilterComplete, Kept

LEMMA AsksKept ==
  ASSUME FilterTypeOK, Asks, TurnedAwayOnlyByRace, Grows,
         UNCHANGED asking, ready => ready'
  PROVE  Asks' /\ TurnedAwayOnlyByRace'
BY DEF Asks, TurnedAwayOnlyByRace, Grows

----------------------------------------------------------------------------
(* Posts are created, and readers ask.                                     *)

\* No instance is at work, and the filter grows.
LEMMA FilterGrows ==
  ASSUME FilterInv, Grows, UNCHANGED <<warmup, starts, ready, lastDel, premature>>,
         post' \in [Posts -> {"none", "committed", "done"}],
         filter' \subseteq Posts, lost' \subseteq Posts,
         asking' \in [Readers -> Questions], Asks', TurnedAwayOnlyByRace'
  PROVE  FilterInv'
<1>1. FilterTypeOK'
  <2>1. /\ ready' \in BOOLEAN /\ warmup' \in [Instances -> Rebuilding]
        /\ starts' \in 0..MaxStarts /\ lastDel' \in Instances \cup {NoOne}
        /\ premature' \in BOOLEAN
    BY FilterTypes DEF FilterInv
  <2>2. QED
    BY <2>1 DEF FilterTypeOK, Rebuilding, Questions, Ids
<1>2. ASSUME NEW i \in Instances PROVE Warm(i)'
  <2>1. warmup[i].ids \subseteq Posts /\ warmup'[i] = warmup[i] /\ Warm(i)
    BY FilterTypes DEF FilterInv, Rebuilding
  <2>2. QED
    BY <2>1, WarmKept
<1>3. Pages' /\ FilterComplete'
  BY CompleteKept DEF FilterInv, Pages
<1>4. QED
  BY <1>1, <1>2, <1>3 DEF FilterInv

LEMMA CreateStep ==
  ASSUME FilterInv, Create
  PROVE  FilterInv'
<1>1. PICK r \in Posts : InsertPost(r) \/ AddCreated(r) \/ AddIsLost(r)
  BY DEF Create
<1>2. /\ UNCHANGED <<warmup, starts, ready, lastDel, premature, asking>>
      /\ \/ post[r] = "none" /\ post' = [post EXCEPT ![r] = "committed"]
         \/ post[r] = "committed" /\ post' = [post EXCEPT ![r] = "done"]
      /\ filter \cup lost \subseteq filter' \cup lost'
      /\ filter' \subseteq filter \cup {r} /\ lost' \subseteq lost \cup {r}
      /\ post'[r] = "done" => r \in filter' \cup lost'
  BY <1>1, FilterTypes DEF FilterInv, InsertPost, AddCreated, AddIsLost, filterVars
<1>3. /\ post' \in [Posts -> {"none", "committed", "done"}]
      /\ \A s \in Posts : s # r => post'[s] = post[s]
      /\ post[r] # "done"
      /\ filter' \subseteq Posts /\ lost' \subseteq Posts
      /\ asking' \in [Readers -> Questions]
  BY <1>2, FilterTypes DEF FilterInv
<1>4. Grows
  BY <1>2, <1>3 DEF Grows, Kept
<1>5. Asks' /\ TurnedAwayOnlyByRace'
  BY <1>2, <1>4, AsksKept DEF FilterInv
<1>6. QED
  BY <1>2, <1>3, <1>4, <1>5, FilterGrows

\* One reader goes on.
LEMMA ReaderMoves ==
  ASSUME FilterInv, NEW h \in Readers, NEW x \in Questions,
         asking' = [asking EXCEPT ![h] = x],
         UNCHANGED <<post, ready, lastDel, premature, warmup, starts>>,
         filter \cup lost \subseteq filter' \cup lost',
         filter' \subseteq Posts, lost' \subseteq Posts,
         x.at \in {"ready", "exists", "add"} => x.id \in Posts /\ post[x.id] = "done",
         x.at = "exists" /\ ~x.shaken => ready,
         x.at = "away" => x.shaken
  PROVE  FilterInv'
<1>1. /\ asking' \in [Readers -> Questions]
      /\ \A g \in Readers : asking'[g] = IF g = h THEN x ELSE asking[g]
  BY FilterTypes DEF FilterInv
<1>2. Grows
  BY DEF Grows, Kept
<1>3. Asks' /\ TurnedAwayOnlyByRace'
  BY <1>1 DEF FilterInv, Asks, TurnedAwayOnlyByRace
<1>4. post' \in [Posts -> {"none", "committed", "done"}]
  BY FilterTypes DEF FilterInv
<1>5. QED
  BY <1>1, <1>2, <1>3, <1>4, FilterGrows

LEMMA ReadStep ==
  ASSUME FilterInv, NEW h \in Readers, Read(h)
  PROVE  FilterInv'
<1>1. /\ asking[h] \in Questions /\ asking[h].id \in Ids /\ asking[h].shaken \in BOOLEAN
      /\ filter \subseteq Posts /\ lost \subseteq Posts /\ premature \in BOOLEAN
  BY FilterTypes DEF FilterInv, Questions
<1>2. ASSUME NEW r \in Posts, Ask(h, r) PROVE FilterInv'
  <2> DEFINE x == [at |-> "ready", id |-> r, shaken |-> FALSE]
  <2>1. x \in Questions /\ x.at = "ready" /\ x.id = r
    BY StartNumbers DEF Questions
  <2>2. /\ asking' = [asking EXCEPT ![h] = x] /\ post[r] = "done"
        /\ UNCHANGED <<post, filterVars, warmup, starts, lost>>
    BY <1>2 DEF Ask, Asking, Question
  <2>3. QED
    BY <1>1, <2>1, <2>2, ReaderMoves DEF filterVars
<1>3. CASE IsReady(h)
  <2> DEFINE x(step) == [at |-> step, id |-> asking[h].id, shaken |-> FALSE]
  <2>1. /\ asking[h].at = "ready"
        /\ \/ ready /\ asking' = [asking EXCEPT ![h] = x("exists")]
           \/ asking' = [asking EXCEPT ![h] = x("add")]
        /\ UNCHANGED <<post, filterVars, warmup, starts, lost>>
    BY <1>3 DEF IsReady, Asking, Question
  <2>2. asking[h].id \in Posts /\ post[asking[h].id] = "done"
    BY <2>1 DEF FilterInv, Asks
  <2>3. /\ x("exists") \in Questions /\ x("exists").at = "exists" /\ x("exists").id = asking[h].id
        /\ x("add") \in Questions /\ x("add").at = "add" /\ x("add").id = asking[h].id
    BY <1>1 DEF Questions
  <2>4. CASE ready /\ asking' = [asking EXCEPT ![h] = x("exists")]
    BY <1>1, <2>1, <2>2, <2>3, <2>4, ReaderMoves DEF filterVars
  <2>5. CASE asking' = [asking EXCEPT ![h] = x("add")]
    BY <1>1, <2>1, <2>2, <2>3, <2>5, ReaderMoves DEF filterVars
  <2>6. QED
    BY <2>1, <2>4, <2>5
<1>4. CASE Exists(h)
  <2> DEFINE s == asking[h].shaken \/ premature \/ asking[h].id \in lost
  <2>1. /\ asking[h].at = "exists"
        /\ UNCHANGED <<post, filterVars, warmup, starts, lost>>
        /\ \/ asking' = [asking EXCEPT ![h] = [at |-> "add", id |-> asking[h].id, shaken |-> FALSE]]
           \/ /\ asking[h].id \notin filter
              /\ asking' = [asking EXCEPT ![h] =
                              [at |-> "away", id |-> asking[h].id, shaken |-> s]]
    BY <1>4 DEF Exists, Asking, Question
  <2>0. asking[h].id \in Posts /\ post[asking[h].id] = "done"
    BY <2>1 DEF FilterInv, Asks
  <2>2. CASE asking' = [asking EXCEPT ![h] = [at |-> "add", id |-> asking[h].id, shaken |-> FALSE]]
    <3>1. [at |-> "add", id |-> asking[h].id, shaken |-> FALSE] \in Questions
      BY <1>1 DEF Questions
    <3>2. QED
      BY <1>1, <2>0, <2>1, <2>2, <3>1, ReaderMoves DEF filterVars
  <2>3. CASE /\ asking[h].id \notin filter
             /\ asking' = [asking EXCEPT ![h] = [at |-> "away", id |-> asking[h].id, shaken |-> s]]
    <3>1. s = TRUE
      <4>1. ~asking[h].shaken => ready /\ asking[h].id \in Posts /\ post[asking[h].id] = "done"
        BY <2>1 DEF FilterInv, Asks
      <4>2. QED
        BY <1>1, <2>3, <4>1 DEF FilterInv, FilterComplete
    <3>2. asking' = [asking EXCEPT ![h] = [at |-> "away", id |-> asking[h].id, shaken |-> TRUE]]
      BY <2>3, <3>1
    <3>3. [at |-> "away", id |-> asking[h].id, shaken |-> TRUE] \in Questions
      BY <1>1 DEF Questions
    <3>4. QED
      BY <1>1, <2>1, <3>2, <3>3, ReaderMoves DEF filterVars
  <2>4. QED
    BY <2>1, <2>2, <2>3
<1>5. CASE AddFound(h) \/ TurnedAway(h)
  <2>1. /\ asking' = [asking EXCEPT ![h] = NotAsking]
        /\ \/ /\ asking[h].at = "add"
              /\ filter' = filter \cup {asking[h].id} /\ lost' = lost \ {asking[h].id}
           \/ UNCHANGED <<filter, lost>>
        /\ UNCHANGED <<post, ready, lastDel, premature, warmup, starts>>
    BY <1>5 DEF AddFound, TurnedAway, filterVars
  <2>2. NotAsking \in Questions /\ NotAsking.at = "idle"
    BY StartNumbers DEF NotAsking, Question, Questions
  <2>3. filter \cup lost \subseteq filter' \cup lost' /\ lost' \subseteq Posts
    BY <1>1, <2>1
  <2>4. filter' \subseteq Posts
    BY <1>1, <2>1 DEF FilterInv, Asks
  <2>5. QED
    BY <2>1, <2>2, <2>3, <2>4, ReaderMoves
<1>6. QED
  BY <1>2, <1>3, <1>4, <1>5 DEF Read

----------------------------------------------------------------------------
(* The rebuild.                                                            *)

\* Instance i goes on, and nothing is deleted.
LEMMA RebuildMoves ==
  ASSUME FilterInv, NEW i \in Instances, NEW x \in Rebuilding,
         warmup' = [warmup EXCEPT ![i] = x],
         UNCHANGED <<post, ready, lastDel, premature, asking>>,
         starts' \in 0..MaxStarts,
         filter \cup lost \subseteq filter' \cup lost',
         filter' \subseteq Posts, lost' \subseteq Posts,
         x.at = "del" => x.cursor = 0,
         x.at = "add" => x.ids # {},
         Warm(i)'
  PROVE  FilterInv'
<1>1. /\ warmup' \in [Instances -> Rebuilding]
      /\ \A j \in Instances : warmup'[j] = IF j = i THEN x ELSE warmup[j]
  BY FilterTypes DEF FilterInv
<1>2. Grows
  BY DEF Grows, Kept
<1>3. FilterTypeOK'
  <2>1. /\ ready' \in BOOLEAN /\ post' \in [Posts -> {"none", "committed", "done"}]
        /\ asking' \in [Readers -> Questions] /\ lastDel' \in Instances \cup {NoOne}
        /\ premature' \in BOOLEAN
    BY FilterTypes DEF FilterInv
  <2>2. QED
    BY <1>1, <2>1 DEF FilterTypeOK, Rebuilding, Questions, Ids
<1>4. ASSUME NEW j \in Instances, j # i PROVE Warm(j)'
  <2>1. warmup[j].ids \subseteq Posts /\ warmup'[j] = warmup[j] /\ Warm(j)
    BY <1>1, <1>4, FilterTypes DEF FilterInv, Rebuilding
  <2>2. QED
    BY <1>2, <2>1, WarmKept
<1>5. Pages'
  BY <1>1 DEF FilterInv, Pages
<1>6. FilterComplete' /\ Asks' /\ TurnedAwayOnlyByRace'
  BY <1>2, CompleteKept, AsksKept DEF FilterInv
<1>7. QED
  BY <1>3, <1>4, <1>5, <1>6 DEF FilterInv

LEMMA StartStep ==
  ASSUME FilterInv, NEW i \in Instances, StartBloomWarmup(i)
  PROVE  FilterInv'
<1> DEFINE x == [at |-> "del", cursor |-> 0, ids |-> {}]
<1>1. /\ starts < MaxStarts /\ starts' = starts + 1
      /\ warmup' = [warmup EXCEPT ![i] = x]
      /\ UNCHANGED <<post, filterVars, asking, lost>>
  BY DEF StartBloomWarmup, WarmUp
<1>2. starts' \in 0..MaxStarts /\ filter \subseteq Posts /\ lost \subseteq Posts
      /\ warmup \in [Instances -> Rebuilding]
  BY <1>1, FilterTypes, StartNumbers DEF FilterInv
<1>3. x \in Rebuilding /\ x.at = "del" /\ x.cursor = 0
  BY StartNumbers DEF Rebuilding
<1>4. warmup'[i].at = "del"
  BY <1>1, <1>2
<1>5. Warm(i)'
  BY <1>4 DEF Warm
<1>6. QED
  BY <1>1, <1>2, <1>3, <1>5, RebuildMoves DEF filterVars

LEMMA FailStep ==
  ASSUME FilterInv, NEW i \in Instances, WarmUpFails(i)
  PROVE  FilterInv'
<1>1. /\ warmup' = [warmup EXCEPT ![i] = Resting]
      /\ UNCHANGED <<post, filterVars, asking, starts, lost>>
  BY DEF WarmUpFails
<1>2. starts' \in 0..MaxStarts /\ filter \subseteq Posts /\ lost \subseteq Posts
      /\ warmup \in [Instances -> Rebuilding]
  BY <1>1, FilterTypes DEF FilterInv
<1>3. Resting \in Rebuilding /\ Resting.at = "off"
  BY StartNumbers DEF Rebuilding, Resting, WarmUp
<1>4. warmup'[i].at = "off"
  BY <1>1, <1>2, <1>3
<1>5. Warm(i)'
  BY <1>4 DEF Warm
<1>6. QED
  BY <1>1, <1>2, <1>3, <1>5, RebuildMoves DEF filterVars

LEMMA ReserveStep ==
  ASSUME FilterInv, NEW i \in Instances, Reserve(i)
  PROVE  FilterInv'
<1> DEFINE w == warmup[i]
           x == [at |-> "select", cursor |-> w.cursor, ids |-> w.ids]
<1>1. /\ w.at = "reserve" /\ warmup' = [warmup EXCEPT ![i] = x]
      /\ UNCHANGED <<post, filterVars, asking, starts, lost>>
  BY DEF Reserve, Step, WarmUp
<1>2. /\ starts' \in 0..MaxStarts /\ filter \subseteq Posts /\ lost \subseteq Posts
      /\ warmup \in [Instances -> Rebuilding]
  BY <1>1, FilterTypes DEF FilterInv
<1>3. x \in Rebuilding /\ x.at = "select"
  BY <1>2 DEF Rebuilding
<1>4. warmup'[i] = x
  BY <1>1, <1>2
<1>5. Warm(i)'
  BY <1>1, <1>4 DEF FilterInv, Warm, Kept, filterVars
<1>6. QED
  BY <1>1, <1>2, <1>3, <1>5, RebuildMoves DEF filterVars

LEMMA SelectStep ==
  ASSUME FilterInv, NEW i \in Instances, SelectIds(i)
  PROVE  FilterInv'
<1> DEFINE w == warmup[i]
           found == Beyond(w.cursor)
           x == IF found = {} THEN [at |-> "ready", cursor |-> w.cursor, ids |-> w.ids]
                              ELSE [at |-> "add", cursor |-> w.cursor, ids |-> FirstPage(found)]
<1>1. /\ w.at = "select" /\ warmup' = [warmup EXCEPT ![i] = x]
      /\ UNCHANGED <<post, filterVars, asking, starts, lost>>
  BY DEF SelectIds, Step, WarmUp, FirstPage
<1>2. /\ starts' \in 0..MaxStarts /\ filter \subseteq Posts /\ lost \subseteq Posts
      /\ warmup \in [Instances -> Rebuilding]
  BY <1>1, FilterTypes DEF FilterInv
<1>3. w.cursor \in Int /\ w.cursor \in Ids /\ w.ids \subseteq Posts
  BY <1>2, StartNumbers DEF Rebuilding
<1>4. found \subseteq Posts /\ FirstPage(found) \subseteq Posts
  BY DEF Beyond, FirstPage
<1>5. \A r \in Posts : post[r] = "done" => r <= w.cursor \/ r \in found
  BY <1>3, StartNumbers DEF Beyond
<1>6. warmup'[i] = x /\ post' = post /\ lastDel' = lastDel
      /\ \A r \in Posts : Kept(r)' <=> Kept(r)
  BY <1>1, <1>2 DEF filterVars, Kept
<1>7. lastDel = i => \A r \in Posts : post[r] = "done" /\ r <= w.cursor => Kept(r)
  BY <1>1 DEF FilterInv, Warm
<1>8. CASE found = {}
  <2>1. x \in Rebuilding /\ x.at = "ready"
    BY <1>3, <1>8 DEF Rebuilding
  <2>2. Warm(i)'
    BY <1>5, <1>6, <1>7, <1>8, <2>1 DEF Warm
  <2>3. QED
    BY <1>1, <1>2, <2>1, <2>2, RebuildMoves DEF filterVars
<1>9. CASE found # {}
  <2>1. /\ FirstPage(found) # {}
        /\ \A s \in FirstPage(found), r \in found : r < s => r \in FirstPage(found)
    BY <1>4, <1>9, FirstPages
  <2>2. /\ x \in Rebuilding /\ x.at = "add" /\ x.cursor = w.cursor /\ x.ids = FirstPage(found)
    BY <1>3, <1>4, <1>9 DEF Rebuilding
  <2>3. \A r \in Posts, s \in x.ids :
          post[r] = "done" /\ r < s => r <= w.cursor \/ r \in x.ids
    BY <1>5, <2>1, <2>2
  <2>4. Warm(i)'
    BY <1>6, <1>7, <2>2, <2>3 DEF Warm
  <2>5. QED
    BY <1>1, <1>2, <2>1, <2>2, <2>4, RebuildMoves DEF filterVars
<1>10. QED
  BY <1>8, <1>9

LEMMA AddStep ==
  ASSUME FilterInv, NEW i \in Instances, AddIds(i)
  PROVE  FilterInv'
<1> DEFINE w == warmup[i]
           last == LastOf(w.ids)
           x == [at |-> "select", cursor |-> last, ids |-> {}]
<1>1. /\ w.at = "add" /\ warmup' = [warmup EXCEPT ![i] = x]
      /\ filter' = filter \cup w.ids /\ lost' = lost \ w.ids
      /\ UNCHANGED <<post, ready, lastDel, premature, asking, starts>>
  BY DEF AddIds, WarmUp
<1>2. /\ starts' \in 0..MaxStarts /\ filter \subseteq Posts /\ lost \subseteq Posts
      /\ warmup \in [Instances -> Rebuilding]
  BY <1>1, FilterTypes DEF FilterInv
<1>3. w.ids \subseteq Posts /\ w.ids # {}
  BY <1>1, <1>2 DEF FilterInv, Pages, Rebuilding
<1>4. last \in w.ids /\ \A r \in w.ids : r <= last
  BY <1>3, Largest
<1>5. x \in Rebuilding /\ x.at = "select"
  BY <1>3, <1>4, StartNumbers DEF Rebuilding
<1>6. /\ filter \cup lost \subseteq filter' \cup lost'
      /\ filter' \subseteq Posts /\ lost' \subseteq Posts
      /\ \A r \in Posts : r \in w.ids \/ Kept(r) => Kept(r)'
  BY <1>1, <1>2, <1>3 DEF Kept
<1>7. warmup'[i] = x /\ x.cursor = last /\ x.at = "select"
  BY <1>1, <1>2
<1>8. ASSUME lastDel = i, NEW r \in Posts, post[r] = "done", r <= last
      PROVE  Kept(r)'
  <2>1. CASE r = last
    BY <1>4, <1>6, <2>1
  <2>2. CASE r < last
    <3>1. r <= w.cursor \/ r \in w.ids \/ Kept(r)
      BY <1>1, <1>4, <1>8, <2>2 DEF FilterInv, Warm
    <3>2. r <= w.cursor => Kept(r)
      BY <1>1, <1>8 DEF FilterInv, Warm
    <3>3. QED
      BY <1>6, <3>1, <3>2
  <2>3. r < last \/ r = last
    <3>1. last \in Int /\ r \in Int
      BY <1>3, <1>4, StartNumbers
    <3>2. QED
      BY <1>8, <3>1
  <2>4. QED
    BY <2>1, <2>2, <2>3
<1>9. Warm(i)'
  BY <1>1, <1>7, <1>8 DEF Warm
<1>10. QED
  BY <1>1, <1>2, <1>5, <1>6, <1>9, RebuildMoves

LEMMA ReadyStep ==
  ASSUME FilterInv, NEW i \in Instances, SetReady(i)
  PROVE  FilterInv'
<1>1. /\ warmup[i].at = "ready" /\ warmup' = [warmup EXCEPT ![i] = Resting]
      /\ ready' = TRUE /\ premature' = (lastDel # i /\ (ready => premature))
      /\ UNCHANGED <<post, filter, lastDel, asking, starts, lost>>
  BY DEF SetReady
<1>2. Resting \in Rebuilding /\ Resting.at = "off"
  BY StartNumbers DEF Rebuilding, Resting, WarmUp
<1>3. /\ warmup' \in [Instances -> Rebuilding]
      /\ \A j \in Instances : warmup'[j] = IF j = i THEN Resting ELSE warmup[j]
  BY <1>1, <1>2, FilterTypes DEF FilterInv
<1>4. FilterTypeOK'
  <2>1. premature' \in BOOLEAN
    BY <1>1
  <2>2. /\ post' \in [Posts -> {"none", "committed", "done"}] /\ filter' \subseteq Posts
        /\ asking' \in [Readers -> Questions] /\ lastDel' \in Instances \cup {NoOne}
        /\ starts' \in 0..MaxStarts /\ lost' \subseteq Posts
    BY <1>1, FilterTypes DEF FilterInv
  <2>3. QED
    BY <1>1, <1>3, <2>1, <2>2 DEF FilterTypeOK, Rebuilding, Questions, Ids
<1>5. Grows
  BY <1>1 DEF Grows, Kept
<1>6. ASSUME NEW j \in Instances PROVE Warm(j)'
  <2>1. CASE j = i
    BY <1>2, <1>3, <2>1 DEF Warm
  <2>2. CASE j # i
    <3>1. warmup[j].ids \subseteq Posts /\ warmup'[j] = warmup[j] /\ Warm(j)
      BY <1>3, <2>2, FilterTypes DEF FilterInv, Rebuilding
    <3>2. QED
      BY <1>1, <1>5, <3>1, WarmKept
  <2>3. QED
    BY <2>1, <2>2
<1>7. Pages'
  BY <1>2, <1>3 DEF FilterInv, Pages
<1>8. FilterComplete'
  <2>1. ASSUME ~premature' PROVE \A r \in Posts : post[r] = "done" => Kept(r)
    <3>1. CASE lastDel = i
      BY <1>1, <3>1 DEF FilterInv, Warm
    <3>2. CASE lastDel # i
      BY <1>1, <2>1, <3>2 DEF FilterInv, FilterComplete, Kept
    <3>3. QED
      BY <3>1, <3>2
  <2>2. QED
    BY <1>1, <2>1 DEF FilterComplete, Kept
<1>9. Asks' /\ TurnedAwayOnlyByRace'
  BY <1>1, <1>5, AsksKept DEF FilterInv
<1>10. QED
  BY <1>4, <1>6, <1>7, <1>8, <1>9 DEF FilterInv

LEMMA DeleteStep ==
  ASSUME FilterInv, NEW i \in Instances, DeleteFilter(i)
  PROVE  FilterInv'
<1> DEFINE w == warmup[i]
           x == [at |-> "reserve", cursor |-> w.cursor, ids |-> w.ids]
<1>1. /\ w.at = "del" /\ warmup' = [warmup EXCEPT ![i] = x]
      /\ filter' = {} /\ ready' = FALSE /\ lastDel' = i /\ premature' = FALSE
      /\ asking' = [h \in Readers |->
           IF asking[h].at = "exists" THEN [at |-> "exists", id |-> asking[h].id, shaken |-> TRUE]
                                      ELSE asking[h]]
      /\ UNCHANGED <<post, starts, lost>>
  BY DEF DeleteFilter, Step, WarmUp, Question
<1>2. /\ warmup \in [Instances -> Rebuilding] /\ asking \in [Readers -> Questions]
      /\ post \in [Posts -> {"none", "committed", "done"}]
      /\ starts \in 0..MaxStarts /\ lost \subseteq Posts
  BY FilterTypes DEF FilterInv
<1>3. x \in Rebuilding /\ x.at = "reserve" /\ x.cursor = 0
  BY <1>1, <1>2 DEF FilterInv, Pages, Rebuilding
<1>4. /\ warmup' \in [Instances -> Rebuilding]
      /\ \A j \in Instances : warmup'[j] = IF j = i THEN x ELSE warmup[j]
  BY <1>1, <1>2, <1>3
<1>5. asking' \in [Readers -> Questions]
  <2>1. ASSUME NEW h \in Readers
        PROVE  /\ [at |-> "exists", id |-> asking[h].id, shaken |-> TRUE] \in Questions
               /\ asking[h] \in Questions
    BY <1>2 DEF Questions
  <2>2. QED
    BY <1>1, <2>1
<1>6. FilterTypeOK'
  <2>1. filter' \subseteq Posts /\ ready' \in BOOLEAN /\ premature' \in BOOLEAN
        /\ lastDel' \in Instances \cup {NoOne}
    BY <1>1
  <2>2. QED
    BY <1>1, <1>2, <1>4, <1>5, <2>1 DEF FilterTypeOK, Rebuilding, Questions, Ids
<1>7. ASSUME NEW j \in Instances PROVE Warm(j)'
  <2>1. CASE j = i
    <3>1. \A r \in Posts : ~(r <= 0)
      BY StartNumbers
    <3>2. QED
      BY <1>3, <1>4, <2>1, <3>1 DEF Warm
  <2>2. CASE j # i
    BY <1>1, <2>2 DEF Warm
  <2>3. QED
    BY <2>1, <2>2
<1>8. Pages'
  BY <1>3, <1>4 DEF FilterInv, Pages
<1>9. FilterComplete'
  BY <1>1 DEF FilterComplete
<1>10. ASSUME NEW h \in Readers
       PROVE  /\ asking'[h].at = asking[h].at /\ asking'[h].id = asking[h].id
              /\ asking[h].at = "exists" => asking'[h].shaken
              /\ asking[h].at # "exists" => asking'[h] = asking[h]
  BY <1>1
<1>11. Asks' /\ TurnedAwayOnlyByRace'
  BY <1>1, <1>10 DEF FilterInv, Asks, TurnedAwayOnlyByRace
<1>12. QED
  BY <1>6, <1>7, <1>8, <1>9, <1>11 DEF FilterInv

----------------------------------------------------------------------------
(* The theorems.                                                           *)

LEMMA InitFilterInv ==
  ASSUME FilterInit
  PROVE  FilterInv
<1>1. /\ Resting \in Rebuilding /\ Resting.at = "off" /\ NotAsking \in Questions
      /\ NotAsking.at = "idle" /\ 0 \in 0..MaxStarts
  BY StartNumbers DEF Rebuilding, Resting, WarmUp, NotAsking, Question, Questions
<1>2. FilterTypeOK
  BY <1>1, FilterTypes DEF FilterInit
<1>3. \A i \in Instances : warmup[i].at = "off"
  BY <1>1 DEF FilterInit
<1>4. \A h \in Readers : asking[h].at = "idle"
  BY <1>1 DEF FilterInit
<1>5. QED
  BY <1>2, <1>3, <1>4 DEF FilterInit, FilterInv, Warm, Pages, FilterComplete, Asks, TurnedAwayOnlyByRace

LEMMA NextFilterInv ==
  ASSUME FilterInv, [FilterNext]_bloomVars
  PROVE  FilterInv'
<1>1. CASE Create
  BY <1>1, CreateStep
<1>2. ASSUME NEW i \in Instances, StartBloomWarmup(i) \/ Rebuild(i) PROVE FilterInv'
  BY <1>2, StartStep, DeleteStep, ReserveStep, SelectStep, AddStep, ReadyStep, FailStep
     DEF Rebuild
<1>3. ASSUME NEW h \in Readers, Read(h) PROVE FilterInv'
  BY <1>3, ReadStep
<1>4. CASE UNCHANGED bloomVars
  <2>1. Grows
    BY <1>4 DEF Grows, Kept, bloomVars, filterVars
  <2>2. Asks' /\ TurnedAwayOnlyByRace'
    BY <1>4, <2>1, AsksKept DEF FilterInv, bloomVars, filterVars
  <2>3. /\ post' \in [Posts -> {"none", "committed", "done"}] /\ asking' \in [Readers -> Questions]
        /\ filter' \subseteq Posts /\ lost' \subseteq Posts
    BY <1>4, FilterTypes DEF FilterInv, bloomVars, filterVars
  <2>4. QED
    BY <1>4, <2>1, <2>2, <2>3, FilterGrows DEF bloomVars, filterVars
<1>5. QED
  BY <1>1, <1>2, <1>3, <1>4 DEF FilterNext

\* The rebuilds, the readers and those who create posts keep the model's variables, its
\* cursors and its pages among the ids there are.
THEOREM FilterTypeCorrect == FilterSpec => []FilterTypeOK
<1>1. FilterInit => FilterInv
  BY InitFilterInv
<1>2. FilterInv /\ [FilterNext]_bloomVars => FilterInv'
  BY NextFilterInv
<1>3. FilterInv => FilterTypeOK
  BY DEF FilterInv
<1>4. QED
  BY <1>1, <1>2, <1>3, PTL DEF FilterSpec

\* A filter that counts as ready has every post whose handler is done, except those whose
\* BF.ADD failed, and unless the ready key was set by an instance whose ids another had
\* deleted (rebuildBloomFilter, bloomAdd).
THEOREM TheFilterIsComplete == FilterSpec => []FilterComplete
<1>1. FilterInit => FilterInv
  BY InitFilterInv
<1>2. FilterInv /\ [FilterNext]_bloomVars => FilterInv'
  BY NextFilterInv
<1>3. FilterInv => FilterComplete
  BY DEF FilterInv
<1>4. QED
  BY <1>1, <1>2, <1>3, PTL DEF FilterSpec

\* A reader turns away a post that exists (bloomExists) only when an instance started
\* between its two calls, when two instances rebuilt at once, or when the BF.ADD was lost.
THEOREM NobodyIsTurnedAwayOtherwise == FilterSpec => []TurnedAwayOnlyByRace
<1>1. FilterInit => FilterInv
  BY InitFilterInv
<1>2. FilterInv /\ [FilterNext]_bloomVars => FilterInv'
  BY NextFilterInv
<1>3. FilterInv => TurnedAwayOnlyByRace
  BY DEF FilterInv
<1>4. QED
  BY <1>1, <1>2, <1>3, PTL DEF FilterSpec

----------------------------------------------------------------------------
(* RefreshTokens.                                                          *)

Steps == {"start", "insert", "store", "rotate", "revoke", "done"}

\* The parts of TypeOK, but for the number of tokens.
TokenTypes ==
  /\ accountBy \in Handlers \cup {NoHandler}
  /\ row \in [Handlers -> {"none", "live", "revoked"}]
  /\ replacedBy \in [Handlers -> Handlers \cup {NoHandler}]
  /\ \A t \in Handlers : issued[t] = 0 <=> row[t] = "none"
  /\ held \subseteq {t \in Handlers : row[t] # "none"}
  /\ at \in [Handlers -> Steps]
  /\ token \in [Handlers -> Handlers \cup {NoHandler}]
  /\ result \in [Handlers -> {"none", "ok", "error"}]
  /\ session \in [Handlers -> Handlers \cup {NoHandler}]
  /\ loggedOut \subseteq Handlers
  /\ faults \in 0..MaxFaults

Issued == {t \in Handlers : issued[t] # 0}

TokenNumbers ==
  /\ issued \in [Handlers -> 0..Cardinality(Handlers)]
  /\ expired \in 0..NumIssued

\* A request has its token when it is done, and not before.
Fresh == \A h \in Handlers : row[h] # "none" => at[h] = "done"

\* A session is named after a token that was issued.
Rooted == \A t \in Handlers : row[t] # "none" => session[t] \in Handlers /\ row[session[t]] # "none"

Single ==
  \A t, u \in Handlers :
    row[t] = "live" /\ row[u] = "live" /\ session[t] = session[u] => t = u

Ended ==
  \A s \in loggedOut : row[s] # "none" /\ \A t \in Handlers : row[t] = "live" => session[t] # s

\* What is about to be rotated was issued.
Carried == \A h \in Handlers : at[h] = "rotate" => token[h] \in Handlers /\ row[token[h]] # "none"

Chains == TokenTypes /\ Fresh /\ Rooted /\ Single /\ Ended /\ Carried

TokenInv == Chains /\ TokenNumbers

----------------------------------------------------------------------------
(* The steps that change no token.                                         *)

LEMMA Unchanged ==
  ASSUME Chains, NEW h \in Handlers, at[h] # "done", NEW step \in Steps,
         at' = [at EXCEPT ![h] = step],
         NEW r \in {"none", "ok", "error"},
         result' = result \/ result' = [result EXCEPT ![h] = r],
         UNCHANGED <<tokenVars, held, loggedOut>>,
         accountBy' \in Handlers \cup {NoHandler},
         faults' \in 0..MaxFaults,
         \/ UNCHANGED token /\ step # "rotate"
         \/ \E t \in held : token' = [token EXCEPT ![h] = t]
  PROVE  Chains'
<1>1. /\ at' \in [Handlers -> Steps]
      /\ \A g \in Handlers : at'[g] = IF g = h THEN step ELSE at[g]
  BY DEF Chains, TokenTypes
<1>2. TokenTypes'
  <2>1. token' \in [Handlers -> Handlers \cup {NoHandler}]
    BY DEF Chains, TokenTypes
  <2>2. result' \in [Handlers -> {"none", "ok", "error"}]
    BY DEF Chains, TokenTypes
  <2>3. QED
    BY <1>1, <2>1, <2>2 DEF Chains, TokenTypes, tokenVars
<1>3. Fresh' /\ Rooted' /\ Single' /\ Ended'
  BY <1>1 DEF Chains, Fresh, Rooted, Single, Ended, tokenVars
<1>4. Carried'
  BY <1>1 DEF Chains, TokenTypes, Carried, tokenVars
<1>5. QED
  BY <1>2, <1>3, <1>4 DEF Chains

LEMMA FaultCounts ==
  ASSUME faults \in 0..MaxFaults, NoFault \/ \E k \in FaultKinds : Fault(k)
  PROVE  faults' \in 0..MaxFaults
BY TokenAssumption DEF NoFault, Fault

LEMMA QuietSteps ==
  ASSUME Chains, NEW h \in Handlers,
         \/ FindAccount(h) \/ CreateUser(h) \/ RotateRefuses(h) \/ CallFails(h)
         \/ \E t \in Handlers : CheckToken(h, t)
  PROVE  Chains' /\ UNCHANGED <<issued, expired>>
<1>1. faults \in 0..MaxFaults /\ accountBy \in Handlers \cup {NoHandler}
  BY DEF Chains, TokenTypes
<1>2. {"insert", "store", "rotate", "done"} \subseteq Steps
  BY DEF Steps
<1>3. CASE FindAccount(h)
  <2>1. /\ at[h] # "done" /\ NoFault
        /\ \E step \in {"insert", "store", "done"} : at' = [at EXCEPT ![h] = step]
        /\ result' = result \/ result' = [result EXCEPT ![h] = "error"]
    BY <1>3 DEF FindAccount, GoTo, Answer
  <2>2. UNCHANGED <<accountBy, tokenVars, expired, held, token, loggedOut>>
    BY <1>3 DEF FindAccount
  <2>3. faults' \in 0..MaxFaults
    BY <1>1, <2>1, FaultCounts
  <2>4. Chains'
    BY <1>1, <1>2, <2>1, <2>2, <2>3, Unchanged
  <2>5. QED
    BY <2>2, <2>4 DEF tokenVars
<1>4. CASE CreateUser(h)
  <2>1. /\ at[h] # "done" /\ NoFault
        /\ \E step \in {"store", "done"} : at' = [at EXCEPT ![h] = step]
        /\ result' = result \/ result' = [result EXCEPT ![h] = "error"]
        /\ accountBy' \in Handlers \cup {NoHandler}
    BY <1>1, <1>4 DEF CreateUser, InsertAccount, GoTo, Answer
  <2>2. UNCHANGED <<tokenVars, expired, held, token, loggedOut>>
    BY <1>4 DEF CreateUser
  <2>3. faults' \in 0..MaxFaults
    BY <1>1, <2>1, FaultCounts
  <2>4. Chains'
    BY <1>2, <2>1, <2>2, <2>3, Unchanged
  <2>5. QED
    BY <2>2, <2>4 DEF tokenVars
<1>5. CASE RotateRefuses(h) \/ CallFails(h)
  <2>1. /\ at[h] # "done" /\ (NoFault \/ Fault("db"))
        /\ at' = [at EXCEPT ![h] = "done"]
        /\ result' = [result EXCEPT ![h] = "error"]
    BY <1>5 DEF RotateRefuses, CallFails, Answer
  <2>2. UNCHANGED <<accountBy, tokenVars, expired, held, token, loggedOut>>
    BY <1>5 DEF RotateRefuses, CallFails
  <2>3. faults' \in 0..MaxFaults
    BY <1>1, <2>1, FaultCounts DEF FaultKinds
  <2>4. Chains'
    BY <1>1, <1>2, <2>1, <2>2, <2>3, Unchanged
  <2>5. QED
    BY <2>2, <2>4 DEF tokenVars
<1>6. CASE \E t \in Handlers : CheckToken(h, t)
  <2>1. /\ at[h] # "done" /\ NoFault
        /\ \E step \in {"rotate", "done"} : at' = [at EXCEPT ![h] = step]
        /\ result' = result \/ result' = [result EXCEPT ![h] = "error"]
        /\ \E t \in held : token' = [token EXCEPT ![h] = t]
    BY <1>6 DEF CheckToken, GoTo, Answer
  <2>2. UNCHANGED <<accountBy, tokenVars, expired, held, loggedOut>>
    BY <1>6 DEF CheckToken
  <2>3. faults' \in 0..MaxFaults
    BY <1>1, <2>1, FaultCounts
  <2>4. Chains'
    BY <1>1, <1>2, <2>1, <2>2, <2>3, Unchanged
  <2>5. QED
    BY <2>2, <2>4 DEF tokenVars
<1>7. QED
  BY <1>3, <1>4, <1>5, <1>6

----------------------------------------------------------------------------
(* The steps that issue a token, and the logout.                           *)

LEMMA OneMoreIssued ==
  ASSUME TokenNumbers, NEW h \in Handlers, issued[h] = 0,
         issued' = [issued EXCEPT ![h] = NumIssued + 1], UNCHANGED expired
  PROVE  TokenNumbers'
<1>1. /\ IsFiniteSet(Handlers) /\ Issued \subseteq Handlers /\ h \notin Issued
      /\ Issued \cup {h} \subseteq Handlers
  BY TokenAssumption DEF Issued
<1>2. /\ IsFiniteSet(Issued)
      /\ Cardinality(Issued \cup {h}) = Cardinality(Issued) + 1
      /\ Cardinality(Issued) \in Nat /\ Cardinality(Handlers) \in Nat
      /\ Cardinality(Issued \cup {h}) <= Cardinality(Handlers)
  BY <1>1, FS_Subset, FS_AddElement, FS_CardinalityType
<1>3. NumIssued = Cardinality(Issued)
  BY DEF NumIssued, Issued
<1>4. issued' \in [Handlers -> 0..Cardinality(Handlers)]
  BY <1>2, <1>3 DEF TokenNumbers
<1>5. {t \in Handlers : issued'[t] # 0} = Issued \cup {h}
  BY <1>2, <1>3 DEF TokenNumbers, Issued
<1>6. NumIssued' = NumIssued + 1
  BY <1>2, <1>3, <1>5 DEF NumIssued
<1>7. QED
  BY <1>2, <1>3, <1>4, <1>6 DEF TokenNumbers

LEMMA Delivered ==
  ASSUME Chains, NEW h \in Handlers, Deliver(h)
  PROVE  /\ at' = [at EXCEPT ![h] = "done"]
         /\ result' \in [Handlers -> {"none", "ok", "error"}]
         /\ held' \subseteq held \cup {h}
         /\ faults' \in 0..MaxFaults
<1>1. faults' \in 0..MaxFaults
  BY FaultCounts DEF Deliver, Chains, TokenTypes, FaultKinds
<1>2. QED
  BY <1>1 DEF Deliver, Answer, Chains, TokenTypes

LEMMA StoreStep ==
  ASSUME TokenInv, NEW h \in Handlers, CreateRefreshToken(h)
  PROVE  TokenInv'
<1>1. /\ at[h] = "store" /\ Issue(h, h) /\ Deliver(h)
      /\ row' = [row EXCEPT ![h] = "live"]
      /\ UNCHANGED <<accountBy, replacedBy, expired, token, loggedOut>>
  BY DEF CreateRefreshToken
<1>2. row[h] = "none" /\ issued[h] = 0
  BY <1>1 DEF TokenInv, Chains, TokenTypes, Fresh
<1>3. TokenNumbers'
  BY <1>1, <1>2, OneMoreIssued DEF Issue, TokenInv
<1>4. /\ issued' \in [Handlers -> Nat]
      /\ \A t \in Handlers : issued'[t] = 0 <=> t # h /\ issued[t] = 0
  <2>1. NumIssued \in Nat
    BY TokenAssumption, FS_Subset, FS_CardinalityType, Issued \subseteq Handlers DEF NumIssued, Issued
  <2>2. QED
    BY <1>1, <2>1 DEF Issue, TokenInv, TokenNumbers
<1>5. /\ row' \in [Handlers -> {"none", "live", "revoked"}]
      /\ \A t \in Handlers : row'[t] = IF t = h THEN "live" ELSE row[t]
      /\ session' \in [Handlers -> Handlers \cup {NoHandler}]
      /\ \A t \in Handlers : session'[t] = IF t = h THEN h ELSE session[t]
  BY <1>1 DEF Issue, TokenInv, Chains, TokenTypes
<1>6. /\ at' \in [Handlers -> Steps]
      /\ \A g \in Handlers : at'[g] = IF g = h THEN "done" ELSE at[g]
      /\ result' \in [Handlers -> {"none", "ok", "error"}]
      /\ held' \subseteq held \cup {h} /\ faults' \in 0..MaxFaults
  BY <1>1, Delivered DEF TokenInv, Chains, TokenTypes, Steps
<1>7. TokenTypes'
  BY <1>1, <1>4, <1>5, <1>6 DEF TokenInv, Chains, TokenTypes
<1>8. Fresh' /\ Rooted' /\ Ended' /\ Carried'
  BY <1>1, <1>2, <1>5, <1>6 DEF TokenInv, Chains, TokenTypes, Fresh, Rooted, Ended, Carried
<1>9. Single'
  BY <1>2, <1>5 DEF TokenInv, Chains, Rooted, Single
<1>10. QED
  BY <1>3, <1>7, <1>8, <1>9 DEF TokenInv, Chains

LEMMA RotateStep ==
  ASSUME TokenInv, NEW h \in Handlers, RotateRefreshToken(h)
  PROVE  TokenInv'
<1> DEFINE t == token[h]
<1>1. /\ at[h] = "rotate" /\ StillValid(t) /\ Issue(h, session[t]) /\ Replace(h, t) /\ Deliver(h)
      /\ UNCHANGED <<accountBy, expired, token, loggedOut>>
  BY DEF RotateRefreshToken
<1>2. /\ row[h] = "none" /\ issued[h] = 0
      /\ t \in Handlers /\ row[t] = "live" /\ t # h
      /\ session[t] \in Handlers /\ row[session[t]] # "none"
  BY <1>1 DEF TokenInv, Chains, TokenTypes, Fresh, Carried, Rooted, StillValid, Valid
<1>3. TokenNumbers'
  BY <1>1, <1>2, OneMoreIssued DEF Issue, TokenInv
<1>4. /\ issued' \in [Handlers -> Nat]
      /\ \A u \in Handlers : issued'[u] = 0 <=> u # h /\ issued[u] = 0
  <2>1. NumIssued \in Nat
    BY TokenAssumption, FS_Subset, FS_CardinalityType, Issued \subseteq Handlers DEF NumIssued, Issued
  <2>2. QED
    BY <1>1, <2>1 DEF Issue, TokenInv, TokenNumbers
<1>5. /\ row' \in [Handlers -> {"none", "live", "revoked"}]
      /\ \A u \in Handlers :
           row'[u] = IF u = t THEN "revoked" ELSE IF u = h THEN "live" ELSE row[u]
      /\ replacedBy' \in [Handlers -> Handlers \cup {NoHandler}]
  BY <1>1, <1>2 DEF Replace, TokenInv, Chains, TokenTypes
<1>6. /\ session' \in [Handlers -> Handlers \cup {NoHandler}]
      /\ \A u \in Handlers : session'[u] = IF u = h THEN session[t] ELSE session[u]
  BY <1>1, <1>2 DEF Issue, TokenInv, Chains, TokenTypes
<1>7. /\ at' \in [Handlers -> Steps]
      /\ \A g \in Handlers : at'[g] = IF g = h THEN "done" ELSE at[g]
      /\ result' \in [Handlers -> {"none", "ok", "error"}]
      /\ held' \subseteq held \cup {h} /\ faults' \in 0..MaxFaults
  BY <1>1, Delivered DEF TokenInv, Chains, TokenTypes, Steps
<1>8. TokenTypes'
  BY <1>1, <1>2, <1>4, <1>5, <1>6, <1>7 DEF TokenInv, Chains, TokenTypes
<1>9. Fresh' /\ Rooted' /\ Carried'
  BY <1>1, <1>2, <1>5, <1>6, <1>7 DEF TokenInv, Chains, TokenTypes, Fresh, Rooted, Carried
<1>10. Single' /\ Ended'
  BY <1>1, <1>2, <1>5, <1>6 DEF TokenInv, Chains, TokenTypes, Single, Ended
<1>11. QED
  BY <1>3, <1>8, <1>9, <1>10 DEF TokenInv, Chains

LEMMA LogoutStep ==
  ASSUME TokenInv, NEW h \in Handlers, NEW t \in Handlers, RevokeRefreshToken(h, t)
  PROVE  TokenInv'
<1>1. /\ at[h] = "start" /\ t \in held /\ row[t] # "none"
      /\ token' = [token EXCEPT ![h] = t]
      /\ row' = [row EXCEPT ![t] = "revoked"]
      /\ UNCHANGED <<accountBy, replacedBy, issued, session, expired, held>>
  BY DEF RevokeRefreshToken, TokenInv, Chains, TokenTypes
<1>2. /\ at' = [at EXCEPT ![h] = "done"]
      /\ \E r \in {"ok", "error"} : result' = [result EXCEPT ![h] = r]
      /\ NoFault \/ Fault("reply")
  BY DEF RevokeRefreshToken, Answer
<1>3. faults' \in 0..MaxFaults
  BY <1>2, FaultCounts DEF TokenInv, Chains, TokenTypes, FaultKinds
<1>4. /\ row' \in [Handlers -> {"none", "live", "revoked"}]
      /\ \A u \in Handlers : row'[u] = IF u = t THEN "revoked" ELSE row[u]
      /\ at' \in [Handlers -> Steps]
      /\ \A g \in Handlers : at'[g] = IF g = h THEN "done" ELSE at[g]
      /\ token' \in [Handlers -> Handlers \cup {NoHandler}]
      /\ \A g \in Handlers : g # h => token'[g] = token[g]
      /\ result' \in [Handlers -> {"none", "ok", "error"}]
  BY <1>1, <1>2 DEF TokenInv, Chains, TokenTypes, Steps
<1>5. loggedOut' = IF row[t] = "live" THEN loggedOut \cup {session[t]} ELSE loggedOut
  BY DEF RevokeRefreshToken
<1>6. session[t] \in Handlers /\ row[session[t]] # "none"
  BY <1>1 DEF TokenInv, Chains, Rooted
<1>7. TokenTypes'
  BY <1>1, <1>3, <1>4, <1>5, <1>6 DEF TokenInv, Chains, TokenTypes
<1>8. Fresh' /\ Rooted' /\ Carried' /\ Single'
  BY <1>1, <1>4 DEF TokenInv, Chains, Fresh, Rooted, Carried, Single
<1>9. Ended'
  BY <1>1, <1>4, <1>5, <1>6 DEF TokenInv, Chains, TokenTypes, Single, Ended
<1>10. TokenNumbers'
  BY <1>1 DEF TokenInv, TokenNumbers, NumIssued
<1>11. QED
  BY <1>7, <1>8, <1>9, <1>10 DEF TokenInv, Chains

----------------------------------------------------------------------------
(* The invariant.                                                          *)

LEMMA InitTokenInv == Init => TokenInv
<1> SUFFICES ASSUME Init PROVE TokenInv
  OBVIOUS
<1>1. Cardinality(Handlers) \in Nat /\ NumIssued = 0
  <2>1. {t \in Handlers : issued[t] # 0} = {}
    BY DEF Init
  <2>2. QED
    BY <2>1, TokenAssumption, FS_CardinalityType, FS_EmptySet DEF NumIssued
<1>2. TokenNumbers
  BY <1>1 DEF Init, TokenNumbers
<1>3. TokenTypes
  BY TokenAssumption DEF Init, TokenTypes, Steps
<1>4. QED
  BY <1>2, <1>3 DEF Init, TokenInv, Chains, Fresh, Rooted, Single, Ended, Carried

LEMMA NextTokenInv == TokenInv /\ [Next]_vars => TokenInv'
<1> SUFFICES ASSUME TokenInv, [Next]_vars PROVE TokenInv'
  OBVIOUS
<1>1. ASSUME NEW h \in Handlers,
             \/ FindAccount(h) \/ CreateUser(h) \/ RotateRefuses(h) \/ CallFails(h)
             \/ \E t \in Handlers : CheckToken(h, t)
      PROVE  TokenInv'
  <2>1. Chains' /\ UNCHANGED <<issued, expired>>
    BY <1>1, QuietSteps DEF TokenInv
  <2>2. QED
    BY <2>1 DEF TokenInv, TokenNumbers, NumIssued
<1>2. CASE ExpireNext
  <2>1. TokenNumbers'
    BY <1>2, TokenAssumption, FS_Subset, FS_CardinalityType, Issued \subseteq Handlers
       DEF ExpireNext, TokenInv, TokenNumbers, NumIssued, Issued, tokenVars
  <2>2. TokenTypes' /\ Fresh' /\ Rooted' /\ Single' /\ Ended' /\ Carried'
    BY <1>2 DEF ExpireNext, NoFault, tokenVars, TokenInv, Chains, TokenTypes, Fresh, Rooted, Single, Ended,
                Carried
  <2>3. QED
    BY <2>1, <2>2 DEF TokenInv, Chains
<1>3. CASE UNCHANGED vars
  BY <1>3 DEF vars, tokenVars, TokenInv, TokenNumbers, NumIssued, Chains, TokenTypes, Fresh, Rooted, Single, Ended,
              Carried
<1>4. QED
  BY <1>1, <1>2, <1>3, StoreStep, RotateStep, LogoutStep DEF Next

\* Every reachable state is well typed: in particular a token is issued if and only if it
\* has a row, and no more tokens expire than there are.
THEOREM TokenTypeCorrect == Spec => []TypeOK
<1>1. TokenInv => TypeOK
  BY DEF TokenInv, Chains, TokenTypes, TokenNumbers, TypeOK, Steps
<1>2. QED
  BY <1>1, InitTokenInv, NextTokenInv, PTL DEF Spec

\* However many refreshes of one token run at once, the row lock and the second look of
\* the rotation (RotateRefreshToken of auth.go) leave a session one live token at most.
THEOREM OneLiveToken == Spec => []OneLiveTokenPerSession
<1>1. ASSUME TokenInv, NEW s \in Handlers PROVE Cardinality(Live(s)) <= 1
  <2>1. CASE Live(s) = {}
    BY <2>1, FS_EmptySet
  <2>2. CASE Live(s) # {}
    <3>1. PICK t \in Live(s) : TRUE
      BY <2>2
    <3>2. Live(s) = {t}
      BY <1>1, <3>1 DEF Live, TokenInv, Chains, Single
    <3>3. QED
      BY <3>2, FS_Singleton
  <2>3. QED
    BY <2>1, <2>2
<1>2. TokenInv => OneLiveTokenPerSession
  BY <1>1 DEF OneLiveTokenPerSession
<1>3. QED
  BY <1>2, InitTokenInv, NextTokenInv, PTL DEF Spec

\* A session whose live token a logout has revoked has no live token ever after.
THEOREM NoTokenAfterLogout == Spec => []LoggedOutStaysOut
<1>1. TokenInv => LoggedOutStaysOut
  BY DEF TokenInv, Chains, Ended, LoggedOutStaysOut, Live
<1>2. QED
  BY <1>1, InitTokenInv, NextTokenInv, PTL DEF Spec
=============================================================================
