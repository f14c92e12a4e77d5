---------------------------- MODULE DirtyOutbox ----------------------------
(***************************************************************************)
(* The table counter_dirty_outbox.  The handler whose write makes a post   *)
(* dirty inserts a row.  Every instance of comment-service runs a          *)
(* publisher: once a second it selects the rows that are due, claims each  *)
(* with an UPDATE, writes a notice to Kafka, and marks the row as sent, or *)
(* as pending for another try.  A row left in processing for 60 s may be   *)
(* claimed again, although its publisher may only be slow: both then write *)
(* notices, and the marks of both are unconditional.                       *)
(***************************************************************************)
EXTENDS Integers, FiniteSets

CONSTANTS
  Publishers,  \* the instances of comment-service
  NumRows,     \* bound: rows the handlers insert
  BatchSize,   \* counterDirtyOutboxBatchSize
  Faults,      \* the kinds of failure that may happen
  MaxFaults    \* bound: failures in a behaviour

Rows == 1..NumRows  \* by AUTO_INCREMENT id

FaultKinds ==
  {"select",  \* the SELECT of a tick errs
   "claim",   \* the UPDATE of a claim errs; it may have taken effect
   "kafka",   \* WriteMessages errs, and there is no message
   "late",    \* WriteMessages runs out of its 100 ms, and the message is written all the same
   "mark",    \* the UPDATE of a mark errs; it may have taken effect
   "slow",    \* 60 s pass while a publisher works on a row
   "crash"}   \* an instance stops and is started again

ASSUME OutboxAssumption ==
  /\ NumRows \in Nat /\ BatchSize \in Nat \ {0} /\ MaxFaults \in Nat
  /\ IsFiniteSet(Publishers)
  /\ Faults \subseteq FaultKinds

VARIABLES
  status,   \* status[r]: the column; "none" before the row is inserted
  due,      \* due[r]: next_retry_at has come
  stale,    \* stale[r]: updated_at is more than 60 s ago
  pub,      \* pub[p]: what publisher p does, the row it does it to, and the rows left of its SELECT
  written,  \* written[r]: messages written to Kafka for r
  spoilt,   \* history: what has happened to r that may cost a second message
  faults    \* failures so far

rowVars == <<status, due, stale>>
vars == <<rowVars, pub, written, spoilt, faults>>

Working(step, r, left) == [at |-> step, row |-> r, left |-> left]
Idle == Working("idle", 0, {})

TypeOK ==
  /\ status \in [Rows -> {"none", "pending", "processing", "sent"}]
  /\ due \in [Rows -> BOOLEAN]
  /\ stale \in [Rows -> BOOLEAN]
  /\ pub \in [Publishers -> [at : {"idle", "claim", "notify", "sent", "pending"},
                             row : Rows \cup {0}, left : SUBSET Rows]]
  /\ written \in [Rows -> Nat]
  /\ spoilt \in [Rows -> Nat]
  /\ faults \in 0..MaxFaults

Init ==
  /\ status = [r \in Rows |-> "none"]
  /\ due = [r \in Rows |-> FALSE]
  /\ stale = [r \in Rows |-> FALSE]
  /\ pub = [p \in Publishers |-> Idle]
  /\ written = [r \in Rows |-> 0]
  /\ spoilt = [r \in Rows |-> 0]
  /\ faults = 0

NoFault == UNCHANGED faults
Fault(k) == k \in Faults /\ faults < MaxFaults /\ faults' = faults + 1
Spoil(r) == spoilt' = [spoilt EXCEPT ![r] = @ + 1]

----------------------------------------------------------------------------
(* The table.                                                              *)


\* The WHERE clause of the SELECT
Selectable(r) ==
  \/ status[r] = "pending" /\ due[r]
  \/ status[r] = "processing" /\ stale[r]

\* Mutant: the row is claimed by its id alone.
ClaimableById(r) == TRUE

\* The WHERE clause of the claim: next_retry_at is not looked at again.
Claimable(r) ==
  \/ status[r] = "pending"
  \/ status[r] = "processing" /\ stale[r]

\* An UPDATE sets updated_at.
SetStatus(r, s) ==
  /\ status' = [status EXCEPT ![r] = s]
  /\ stale' = [stale EXCEPT ![r] = FALSE]

\* recordCounterDirtyOutbox.  Ids are given in the order of the INSERTs.
Record ==
  \E r \in Rows :
    /\ status[r] = "none"
    /\ \A s \in Rows : status[s] = "none" => r <= s
    /\ SetStatus(r, "pending")
    /\ due' = [due EXCEPT ![r] = TRUE]
    /\ UNCHANGED <<pub, written, spoilt, faults>>

----------------------------------------------------------------------------
(* publishCounterDirtyOutbox, by publisher p.                              *)

\* The first BatchSize rows, by id.
Select(p) ==
  /\ pub[p] = Idle
  /\ LET found == {r \in Rows : Selectable(r)} IN
     pub' = [pub EXCEPT ![p] =
       Working("idle", 0, {r \in found : Cardinality({s \in found : s < r}) < BatchSize})]
  /\ NoFault
  /\ UNCHANGED <<rowVars, written, spoilt>>

\* Nothing was read: the tick ends, and changes nothing.
SelectFails(p) ==
  /\ pub[p] = Idle
  /\ Fault("select")
  /\ UNCHANGED <<rowVars, pub, written, spoilt>>

\* The loop goes on with the next row.
TakeRow(p) ==
  /\ pub[p].at = "idle"
  /\ \E r \in pub[p].left :
       /\ \A s \in pub[p].left : r <= s
       /\ pub' = [pub EXCEPT ![p] = Working("claim", r, pub[p].left \ {r})]
  /\ NoFault
  /\ UNCHANGED <<rowVars, written, spoilt>>

GoTo(p, step) == pub' = [pub EXCEPT ![p] = Working(step, pub[p].row, pub[p].left)]
NextRow(p) == pub' = [pub EXCEPT ![p] = Working("idle", 0, pub[p].left)]
EndTick(p) == pub' = [pub EXCEPT ![p] = Idle]

\* claimCounterDirtyOutbox; a row that another publisher has taken is skipped.
Claim(p) ==
  LET r == pub[p].row IN
  /\ pub[p].at = "claim"
  /\ IF Claimable(r)
       THEN SetStatus(r, "processing") /\ GoTo(p, "notify")
       ELSE UNCHANGED <<status, stale>> /\ NextRow(p)
  /\ NoFault
  /\ UNCHANGED <<due, written, spoilt>>

\* An error ends the tick.
ClaimFails(p) ==
  LET r == pub[p].row IN
  /\ pub[p].at = "claim"
  /\ Fault("claim")
  /\ \/ UNCHANGED <<status, stale>>
     \/ Claimable(r) /\ SetStatus(r, "processing")
  /\ EndTick(p)
  /\ UNCHANGED <<due, written, spoilt>>

WriteMessage(r) == written' = [written EXCEPT ![r] = @ + 1]

Notify(p) ==
  /\ pub[p].at = "notify"
  /\ WriteMessage(pub[p].row)
  /\ GoTo(p, "sent")
  /\ NoFault
  /\ UNCHANGED <<rowVars, spoilt>>


AfterNotifyError(p) == GoTo(p, "pending")

NotifyFails(p) ==
  /\ pub[p].at = "notify"
  /\ \/ Fault("kafka") /\ UNCHANGED <<written, spoilt>>
     \/ Fault("late") /\ WriteMessage(pub[p].row) /\ Spoil(pub[p].row)
  /\ AfterNotifyError(p)
  /\ UNCHANGED rowVars

\* Both marks ask for the id only.
Mark(p) ==
  LET r == pub[p].row IN
  /\ pub[p].at \in {"sent", "pending"}
  /\ SetStatus(r, pub[p].at)
  /\ due' = IF pub[p].at = "pending" THEN [due EXCEPT ![r] = FALSE] ELSE due
  /\ NextRow(p)
  /\ NoFault
  /\ UNCHANGED <<written, spoilt>>

\* The mark does not take effect.  That is logged for a pending row, and ends the tick
\* for a sent one.
MarkFails(p) ==
  LET r == pub[p].row IN
  /\ pub[p].at \in {"sent", "pending"}
  /\ Fault("mark")
  /\ IF pub[p].at = "sent"
       THEN EndTick(p) /\ Spoil(r)
       ELSE NextRow(p) /\ UNCHANGED spoilt
  /\ UNCHANGED <<rowVars, written>>

\* The mark of a sent row takes effect, and its error ends the tick.
MarkUnanswered(p) ==
  /\ pub[p].at = "sent"
  /\ Fault("mark")
  /\ SetStatus(pub[p].row, "sent")
  /\ EndTick(p)
  /\ UNCHANGED <<due, written, spoilt>>

\* A row whose message is written may not be marked any more.
Crash(p) ==
  /\ pub[p] # Idle
  /\ Fault("crash")
  /\ EndTick(p)
  /\ IF pub[p].at = "sent" THEN Spoil(pub[p].row) ELSE UNCHANGED spoilt
  /\ UNCHANGED <<rowVars, written>>

----------------------------------------------------------------------------
(* Time.                                                                   *)

RetryDelayPasses(r) ==
  /\ status[r] = "pending" /\ ~due[r]
  /\ due' = [due EXCEPT ![r] = TRUE]
  /\ UNCHANGED <<status, stale, pub, written, spoilt, faults>>

HeldBy(p, r) == pub[p].row = r /\ pub[p].at \in {"notify", "sent", "pending"}

MinutePasses(r) ==
  /\ status[r] = "processing" /\ ~stale[r]
  /\ stale' = [stale EXCEPT ![r] = TRUE]
  /\ IF \E p \in Publishers : HeldBy(p, r)
       THEN Fault("slow") /\ Spoil(r)
       ELSE NoFault /\ UNCHANGED spoilt
  /\ UNCHANGED <<status, due, pub, written>>

----------------------------------------------------------------------------
Publish(p) == TakeRow(p) \/ Claim(p) \/ Notify(p) \/ Mark(p)

Fails(p) ==
  \/ SelectFails(p) \/ ClaimFails(p) \/ NotifyFails(p) \/ MarkFails(p) \/ MarkUnanswered(p)
  \/ Crash(p)

Next ==
  \/ Record
  \/ \E p \in Publishers : Select(p) \/ Publish(p) \/ Fails(p)
  \/ \E r \in Rows : RetryDelayPasses(r) \/ MinutePasses(r)

Spec == Init /\ [][Next]_vars

\* Tickers tick, a tick that has begun goes on, and time passes.
FairSpec ==
  /\ Spec
  /\ \A p \in Publishers : WF_vars(Select(p)) /\ WF_vars(Publish(p))
  /\ \A r \in Rows : WF_vars(RetryDelayPasses(r)) /\ WF_vars(MinutePasses(r) /\ NoFault)

----------------------------------------------------------------------------
(* Properties.                                                             *)

RowsIn(S) == {r \in Rows : status[r] \in S}

Promise ==
  INSTANCE NoticePromise WITH
    Marks <- Rows,
    recorded <- {r \in Rows : status[r] # "none"},
    announced <- {r \in Rows : written[r] > 0},
    closed <- {r \in Rows : status[r] = "sent"}


\* A second message for a row has its reason: a message written after the timeout, a mark
\* that was lost, or a publisher overtaken after 60 s.  Two publishers that select the
\* same row are no reason (the claim decides), nor are failed messages, nor failed claims.
NoIdleDuplicates == \A r \in Rows : written[r] <= 1 + spoilt[r]

=============================================================================
