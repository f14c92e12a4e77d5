----------------------------- MODULE MCClocked -----------------------------
(***************************************************************************)
(* RateLimiter and Snowflake, which share nothing but the idea of clocks   *)
(* that differ: a behaviour is one of either, chosen at the start.  Two    *)
(* students of one address, and one process of comment-service.            *)
(***************************************************************************)
EXTENDS RateLimiter, Snowflake, TLC

CONSTANTS p1, c1, c2, user, address, MaxTime

\* c1 has a bucket of its own before the one it shares.
MCBucketsOf == (c1 :> <<user, address>>) @@ (c2 :> <<address>>)
MCCapacity == (user :> 1) @@ (address :> 2)
MCInterval == (user :> 3) @@ (address :> 2)

VARIABLE part

vars == <<part, clockVars, bucketVars, nodeVars>>

Init ==
  /\ ClockInit /\ BucketInit /\ NodeInit
  /\ part \in {"limiter", "ids"}
  /\ part = "limiter" => \A m \in Machines : skew[m] = 0

Next ==
  /\ UNCHANGED part
  /\ \/ part = "limiter" /\ LimiterNext /\ UNCHANGED nodeVars
     \/ part = "ids" /\ SnowflakeNext /\ UNCHANGED bucketVars
  /\ now' <= MaxTime

Spec == Init /\ [][Next]_vars
=============================================================================
