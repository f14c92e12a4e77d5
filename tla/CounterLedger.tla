--------------------------- MODULE CounterLedger ---------------------------
(***************************************************************************)
(* What the asynchronous post counters promise, with no Redis, Kafka, or   *)
(* batch table: a delta the write path has accepted is owed to the counter *)
(* of its post until it is settled, once, and never below zero.  The       *)
(* pipeline in CounterPipeline is shown to implement this specification.   *)
(***************************************************************************)
EXTENDS Integers

CONSTANTS
  Posts,    \* posts with a counter
  Amounts,  \* the sums of deltas a settlement can move at once
  Counts    \* the fact counts a reconciliation can find

VARIABLES
  accepted, \* accepted[p]: sum of the deltas the write path handed over
  owed,     \* owed[p]: accepted and not in the counter yet
  counter   \* counter[p]: the stored count (post_counter)

vars == <<accepted, owed, counter>>

\* GREATEST(x, 0), the floor every SQL update of the counter applies.
AtLeastZero(x) == IF x < 0 THEN 0 ELSE x

Init ==
  /\ accepted = [p \in Posts |-> 0]
  /\ owed = [p \in Posts |-> 0]
  /\ counter = [p \in Posts |-> 0]

\* A write adds its delta to what is owed.
Accept(p) ==
  \E d \in {-1, 1} :
    /\ accepted' = [accepted EXCEPT ![p] = @ + d]
    /\ owed' = [owed EXCEPT ![p] = @ + d]
    /\ UNCHANGED counter

\* An owed amount enters the counter, and is owed no longer.
Settle(p) ==
  \E d \in Amounts :
    /\ owed' = [owed EXCEPT ![p] = @ - d]
    /\ counter' = [counter EXCEPT ![p] = AtLeastZero(@ + d)]
    /\ UNCHANGED accepted

\* A delta the pipeline would not take is put in the counter at once; it may
\* have been accepted all the same (the reply was lost).
PostDirectly(p) ==
  \E d \in {-1, 1}, taken \in {0, 1} :
    /\ counter' = [counter EXCEPT ![p] = AtLeastZero(@ + d)]
    /\ accepted' = [accepted EXCEPT ![p] = @ + taken * d]
    /\ owed' = [owed EXCEPT ![p] = @ + taken * d]

\* The count of the facts replaces the counter, only when nothing is owed.
Rectify(p) ==
  /\ owed[p] = 0
  /\ \E n \in Counts : counter' = [counter EXCEPT ![p] = n]
  /\ UNCHANGED <<accepted, owed>>

Next == \E p \in Posts : Accept(p) \/ Settle(p) \/ PostDirectly(p) \/ Rectify(p)

Spec == Init /\ [][Next]_vars
=============================================================================
