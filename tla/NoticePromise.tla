--------------------------- MODULE NoticePromise ---------------------------
(***************************************************************************)
(* What the outbox of dirty notices promises, with no table and no Kafka:  *)
(* a mark that is on record is announced, at least once, and a mark is     *)
(* closed only after it has been announced.  A closed mark may be opened   *)
(* again, and announced again: consumers must bear a second notice.        *)
(***************************************************************************)
CONSTANT Marks

VARIABLES
  recorded,   \* the marks on record
  announced,  \* the marks that consumers have been told of
  closed      \* the marks the outbox is done with

vars == <<recorded, announced, closed>>

Init ==
  /\ recorded = {}
  /\ announced = {}
  /\ closed = {}

Record(m) ==
  /\ m \notin recorded
  /\ recorded' = recorded \cup {m}
  /\ UNCHANGED <<announced, closed>>

Announce(m) ==
  /\ m \in recorded
  /\ announced' = announced \cup {m}
  /\ UNCHANGED <<recorded, closed>>

Close(m) ==
  /\ m \in announced
  /\ closed' = closed \cup {m}
  /\ UNCHANGED <<recorded, announced>>

Reopen(m) ==
  /\ closed' = closed \ {m}
  /\ UNCHANGED <<recorded, announced>>

Next == \E m \in Marks : Record(m) \/ Announce(m) \/ Close(m) \/ Reopen(m)

SafeSpec == Init /\ [][Next]_vars

\* A mark on record does not wait for ever for its first notice.
Spec == SafeSpec /\ \A m \in Marks : WF_vars(Announce(m))
=============================================================================
