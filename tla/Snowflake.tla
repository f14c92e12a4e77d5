----------------------------- MODULE Snowflake -----------------------------
(***************************************************************************)
(* The ids of comment-service.  A process makes an id of the millisecond,  *)
(* the worker id (1 in every process) and a sequence number, under a lock; *)
(* it keeps the last millisecond and sequence in memory only.              *)
(***************************************************************************)
EXTENDS Clocks

CONSTANTS
  Processes,   \* processes of comment-service, each on a machine of its own
  Callers,     \* requests that may want an id
  MaxSequence  \* the last sequence number of a millisecond, 4095

ASSUME SnowflakeAssumption ==
  /\ Processes \subseteq Machines
  /\ MaxSequence \in Nat

NoCaller == "no caller"
ASSUME CallersAssumption == NoCaller \notin Callers

VARIABLES
  node,      \* node[p]: timestamp, sequence, and who holds the lock while it spins
  drawn,     \* history: drawn[p]: the ids <<ms, sequence>> that p has drawn since it started
             \* or its clock was last set back between two calls
  repeated   \* history: p has drawn one of those again

nodeVars == <<node, drawn, repeated>>

NewNode == [timestamp |-> 0, sequence |-> 0, spins |-> NoCaller]

NodeTypeOK ==
  /\ node \in [Processes -> [timestamp : Nat, sequence : 0..MaxSequence,
                             spins : Callers \cup {NoCaller}]]
  /\ drawn \in [Processes -> SUBSET (Nat \X (0..MaxSequence))]
  /\ repeated \in [Processes -> BOOLEAN]

NodeInit ==
  /\ node = [p \in Processes |-> NewNode]
  /\ drawn = [p \in Processes |-> {}]
  /\ repeated = [p \in Processes |-> FALSE]

\* The id is made, and the lock given up.
Returns(p, ms, sequence) ==
  /\ node' = [node EXCEPT ![p] = [timestamp |-> ms, sequence |-> sequence, spins |-> NoCaller]]
  /\ drawn' = [drawn EXCEPT ![p] = @ \cup {<<ms, sequence>>}]
  /\ repeated' = [repeated EXCEPT ![p] = @ \/ <<ms, sequence>> \in drawn[p]]

Free(p) == node[p].spins = NoCaller

\* The same millisecond: the next sequence number.
NextInMillisecond(p) ==
  /\ Free(p)
  /\ Reading(p) = node[p].timestamp
  /\ node[p].sequence < MaxSequence
  /\ Returns(p, Reading(p), node[p].sequence + 1)

\* Any other millisecond, an earlier one too: sequence 0.
FirstInMillisecond(p) ==
  /\ Free(p)
  /\ Reading(p) # node[p].timestamp
  /\ Returns(p, Reading(p), 0)

\* The millisecond is used up: the caller spins, and holds the lock as it does.
StartsSpinning(p, c) ==
  /\ Free(p)
  /\ Reading(p) = node[p].timestamp
  /\ node[p].sequence = MaxSequence
  /\ node' = [node EXCEPT ![p] = [timestamp |-> @.timestamp, sequence |-> 0, spins |-> c]]
  /\ UNCHANGED <<drawn, repeated>>

\* Mutant: the loop ends when the clock shows another millisecond, an earlier one too.
StopsSpinningEarly(p, c) ==
  /\ node[p].spins = c
  /\ Reading(p) # node[p].timestamp
  /\ Returns(p, Reading(p), 0)

\* The loop ends when the clock shows a later millisecond.
StopsSpinning(p, c) ==
  /\ node[p].spins = c
  /\ Reading(p) > node[p].timestamp
  /\ Returns(p, Reading(p), 0)

\* GenID returns in this step.
GetsID(p, c) ==
  \/ NextInMillisecond(p)
  \/ FirstInMillisecond(p)
  \/ StopsSpinning(p, c)

\* The process of p stops and starts anew.
Restart(p) ==
  /\ node' = [node EXCEPT ![p] = NewNode]
  /\ drawn' = [drawn EXCEPT ![p] = {}]
  /\ repeated' = [repeated EXCEPT ![p] = FALSE]

\* The clock of p is set from skew to s, back, and no caller of p holds the lock.
SetBackFree(p, m, s) == p = m /\ s < skew[m] /\ Free(p)

\* The history of a process starts again when its clock is set back between two calls: the
\* code draws from an earlier millisecond then.  It goes on when a caller spins meanwhile,
\* for the loop waits until the clock is past the millisecond that is used up.
ClockIsSet(m, s) ==
  /\ SetClock(m, s)
  /\ drawn' = [p \in Processes |-> IF SetBackFree(p, m, s) THEN {} ELSE drawn[p]]
  /\ repeated' = [p \in Processes |-> IF SetBackFree(p, m, s) THEN FALSE ELSE repeated[p]]
  /\ UNCHANGED node

----------------------------------------------------------------------------
(* The generators by themselves.                                           *)

SnowflakeInit == ClockInit /\ NodeInit

Draw(p, c) == (GetsID(p, c) \/ StartsSpinning(p, c)) /\ UNCHANGED clockVars

SnowflakeNext ==
  \/ TimePasses /\ UNCHANGED nodeVars
  \/ \E m \in Machines, s \in Skews : ClockIsSet(m, s)
  \/ \E p \in Processes, c \in Callers : Draw(p, c)
  \/ \E p \in Processes : Restart(p) /\ UNCHANGED clockVars

snowflakeVars == <<clockVars, nodeVars>>
SnowflakeSpec == SnowflakeInit /\ [][SnowflakeNext]_snowflakeVars

----------------------------------------------------------------------------
(* Properties.                                                             *)

\* A process never draws an id twice while it runs and its clock is not set back between two
\* calls: neither when a millisecond is used up, nor when the clock is set back, once or more
\* than once, while a caller waits for the next one.
NoIdTwice == \A p \in Processes : ~repeated[p]

\* What the comments at the callers say of the ids, "globally unique".  Two processes have
\* the same worker id, so it fails as soon as both draw in the same millisecond of theirs.
GloballyUnique ==
  \A p, q \in Processes : p # q => drawn[p] \cap drawn[q] = {}
=============================================================================
