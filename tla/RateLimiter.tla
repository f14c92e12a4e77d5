----------------------------- MODULE RateLimiter -----------------------------
(***************************************************************************)
(* The token buckets of the student gateway.  A request is charged to the  *)
(* buckets of its user, address, device and route by one Lua script, which *)
(* Redis runs at once, under the time that the gateway read when it sent   *)
(* it.  A bucket is counted in the milliseconds that its tokens take to    *)
(* come back: with rate / 1000 = 1 / Interval[b] a token is Interval[b]    *)
(* units, and a unit comes back each millisecond.                          *)
(***************************************************************************)
EXTENDS Clocks, Sequences

CONSTANTS
  Students,  \* those who ask
  BucketsOf, \* BucketsOf[c]: the buckets of c's requests to a route, in the script's order
  Buckets,   \* the keys rate:<dimension>:<id>:<route>
  Capacity,  \* Capacity[b]: the tokens of a full bucket
  Interval,  \* Interval[b]: ms per token, 1000 / rate
  MaxDelay   \* how long the script is under way, repeats by the client library included

ASSUME BucketAssumption ==
  /\ Capacity \in [Buckets -> Nat \ {0}]
  /\ Interval \in [Buckets -> Nat \ {0}]
  /\ MaxDelay \in Nat
  /\ BucketsOf \in [Students -> Seq(Buckets)]
  /\ "none" \notin Buckets

\* How far apart the times can be that two scripts are given at once.
Spread == 2 * MaxSkew + MaxDelay

\* It is less than a bucket takes to fill: seconds, by the defaults.
ASSUME SpreadIsSmall ==
  \A b \in Buckets : Spread <= Capacity[b] * Interval[b]

VARIABLES
  bucket,  \* bucket[b]: tokens (in units), last_refill_time, and when the key expires
  told,    \* told[c]: the refusal that student c has been told, if any: the bucket, the
           \* time to ask again, and if it was given a time before the last refill
  load     \* history: load[b]: the units b has been charged and that real time has not
           \* given back since

bucketVars == <<bucket, told, load>>

Nothing == [by |-> "none"]

Full(b) == Capacity[b] * Interval[b]

BucketTypeOK ==
  /\ bucket \in [Buckets -> [tokens : Nat, refill : Int, expires : Int]]
  /\ \A b \in Buckets : bucket[b].tokens <= Full(b)
  /\ told \in [Students -> {Nothing} \cup [by : Buckets, until : Int, behind : BOOLEAN]]
  /\ load \in [Buckets -> Nat]

\* No key is there: what is not there is what has expired.
BucketInit ==
  /\ bucket = [b \in Buckets |-> [tokens |-> 0, refill |-> 0, expires |-> 0]]
  /\ told = [c \in Students |-> Nothing]
  /\ load = [b \in Buckets |-> 0]

\* The times that a script can have been given that runs now.
Given == (now - MaxSkew - MaxDelay)..(now + MaxSkew)

Unexpired(b) == now < bucket[b].expires

AtMost(limit, n) == IF n < limit THEN n ELSE limit

\* Mutant: last_refill_time stays, and what has come back since comes back again.
FoundAgain(b, t) ==
  IF ~Unexpired(b) THEN [tokens |-> Full(b), refill |-> t]
  ELSE [tokens |-> AtMost(Full(b), bucket[b].tokens + t - bucket[b].refill),
        refill |-> bucket[b].refill]

\* What the script finds in b at time t: its tokens and the time they are of.  A bucket
\* that is not there is full; a time that is not later than the last gives nothing.
Found(b, t) ==
  IF ~Unexpired(b) THEN [tokens |-> Full(b), refill |-> t]
  ELSE IF t > bucket[b].refill
    THEN [tokens |-> AtMost(Full(b), bucket[b].tokens + t - bucket[b].refill), refill |-> t]
    ELSE [tokens |-> bucket[b].tokens, refill |-> bucket[b].refill]

\* redis.call("HSET") and redis.call("PEXPIRE") on the buckets bs.
Charged(bs, t) ==
  [b \in Buckets |->
    IF b \notin bs THEN bucket[b]
    ELSE [tokens |-> Found(b, t).tokens - Interval[b], refill |-> Found(b, t).refill,
          expires |-> now + 2 * Full(b)]]

Lacks(b, t) == Found(b, t).tokens < Interval[b]

BucketSet(c) == {BucketsOf[c][i] : i \in DOMAIN BucketsOf[c]}

\* The script finds a token in every bucket, and takes them.  (What a student was told of a
\* bucket is void once it is charged.)
Admit(c, t) ==
  /\ \A b \in BucketSet(c) : ~Lacks(b, t)
  /\ bucket' = Charged(BucketSet(c), t)
  /\ load' = [b \in Buckets |-> IF b \in BucketSet(c) THEN load[b] + Interval[b] ELSE load[b]]
  /\ told' = [d \in Students |-> IF told[d].by \in BucketSet(c) THEN Nothing ELSE told[d]]

\* The answer of an Admit may be lost: the client library sends the script again with the
\* same time, which is another Admit, or gives up and the request is let through.

Wait(b, t) == Interval[b] - Found(b, t).tokens

\* Mutant: the wait is for what is there, not for what lacks.
RefusalTooShort(b, t) == [by |-> b, until |-> t + Found(b, t).tokens, behind |-> t < Found(b, t).refill]

\* 429 with the dimension and the wait.  (The header rounds it up to whole seconds.)
Refusal(b, t) == [by |-> b, until |-> t + Wait(b, t), behind |-> t < Found(b, t).refill]

Lacking(c, t, i) ==
  /\ Lacks(BucketsOf[c][i], t)
  /\ \A j \in 1..(i - 1) : ~Lacks(BucketsOf[c][j], t)

\* Mutant: a bucket is charged as soon as it is found to have a token.
RefuseCharging(c, t) ==
  \E i \in DOMAIN BucketsOf[c] :
    /\ Lacking(c, t, i)
    /\ told' = [told EXCEPT ![c] = Refusal(BucketsOf[c][i], t)]
    /\ bucket' = Charged({BucketsOf[c][j] : j \in 1..(i - 1)}, t)
    /\ UNCHANGED load

\* The first bucket that lacks a token refuses, and the script writes nothing.
Refuse(c, t) ==
  \E i \in DOMAIN BucketsOf[c] :
    /\ Lacking(c, t, i)
    /\ told' = [told EXCEPT ![c] = Refusal(BucketsOf[c][i], t)]
    /\ UNCHANGED <<bucket, load>>

\* A refusal is forgotten, also by one whose next request Redis could not be asked about
\* and was let through.
Forget(c) ==
  /\ told[c] # Nothing
  /\ told' = [told EXCEPT ![c] = Nothing]
  /\ UNCHANGED <<bucket, load>>

\* The bucket's share of a millisecond.
LoadPasses ==
  /\ load' = [b \in Buckets |-> IF load[b] = 0 THEN 0 ELSE load[b] - 1]
  /\ UNCHANGED <<bucket, told>>

----------------------------------------------------------------------------
(* The limiter by itself.                                                  *)

LimiterInit == ClockInit /\ BucketInit

Pass == TimePasses /\ LoadPasses

Request(c) ==
  /\ (\E t \in Given : Admit(c, t) \/ Refuse(c, t)) \/ Forget(c)
  /\ UNCHANGED clockVars

LimiterNext == Pass \/ \E c \in Students : Request(c)

limiterVars == <<clockVars, bucketVars>>
LimiterSpec == LimiterInit /\ [][LimiterNext]_limiterVars

----------------------------------------------------------------------------
(* Properties.                                                             *)

\* In no stretch of time, however long, whichever gateways ask under whichever clocks, does
\* a bucket admit more than its capacity and what comes back in that time, but for what
\* comes back in the spread of the times it is given; the expiry of its key gives nothing
\* away.  (The load is the largest excess of admissions over time passed, over all stretches
\* of time that end now.)
AdmittedWithinRate ==
  \A b \in Buckets : load[b] <= Full(b) + Spread

\* What a bucket lacks was taken by requests that were admitted: the refused ones, of which
\* some bucket had a token, took none, and a slow clock only delays what comes back.
LacksOnlyWhatWasAdmitted ==
  \A b \in Buckets :
    Unexpired(b) => Full(b) <= load[b] + bucket[b].tokens + (now + MaxSkew - bucket[b].refill)

\* A student who waits as long as the refusal said, and asks a gateway whose clock has come
\* that far, finds the token there unless another request took it.  Not so if the refusal
\* was under a time before the bucket's last refill: its wait is counted from there, and is
\* too short by the difference.
RetryAfterSuffices ==
  \A c \in Students, t \in Given :
    told[c] # Nothing /\ ~told[c].behind /\ t >= told[c].until => ~Lacks(told[c].by, t)
=============================================================================
