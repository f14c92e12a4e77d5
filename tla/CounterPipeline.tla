-------------------------- MODULE CounterPipeline --------------------------
(***************************************************************************)
(* The asynchronous counter of a post, for one kind of counter (like_count *)
(* or comment_count: the two kinds share no key, row, or goroutine).       *)
(*                                                                         *)
(* comment-service commits a fact row (a like, a comment) in MySQL, then   *)
(* records a delta in Redis.  comment-task moves the summed delta of a     *)
(* post into a batch, inserts the batch as a counter_batch row, applies    *)
(* the row to post_counter in one transaction, and clears the batch from   *)
(* Redis.  No transaction spans Redis and MySQL, so every boundary between *)
(* the two is a step here, and a process can stop or a call fail there.    *)
(*                                                                         *)
(* Time is left out: whether a scheduled post has been quiet long enough,  *)
(* and when a failed batch is due again, are free choices.                 *)
(***************************************************************************)
EXTENDS Integers, FiniteSets, Functions

CONSTANTS
  Posts,         \* posts
  NoPost,        \* not a post: an empty slot
  Rows,          \* fact rows (a like, a comment), each of one post
  PostOf,        \* PostOf[r]: the post row r belongs to
  Workers,       \* comment-task processes, each with one goroutine for this kind
  SyncFallback,  \* a delta Redis refuses is written to post_counter (comment_count)
  ReconcileOn,   \* the reconcile ticker runs
  Faults,        \* the kinds of failure that may happen
  MaxFaults,     \* bound: failures in a behaviour
  MaxWrites,     \* bound: fact writes in a behaviour
  MaxBatches     \* bound: batches claimed in a behaviour

FaultKinds ==
  {"redis",    \* the enqueue script does not run, and the call errs
   "timeout",  \* the enqueue script runs, and the call errs
   "outbox",   \* the outbox row is not inserted
   "resend",   \* a notice is delivered, and will be delivered again
   "insert",   \* counter_batch INSERT errs
   "txn",      \* the apply transaction rolls back
   "reply",    \* the apply transaction commits, and the call errs
   "mark",     \* the UPDATE to 'failed' errs
   "clear",    \* the clear script does not run
   "crash"}    \* a comment-task process stops and is started again

ASSUME CounterAssumption ==
  /\ NoPost \notin Posts
  /\ PostOf \in [Rows -> Posts]
  /\ IsFiniteSet(Rows)
  /\ SyncFallback \in BOOLEAN
  /\ ReconcileOn \in BOOLEAN
  /\ Faults \subseteq FaultKinds
  /\ MaxFaults \in Nat
  /\ MaxWrites \in Nat
  /\ MaxBatches \in Nat

BatchIds == 1..MaxBatches

\* The delta of a write: a fact more, or one less.
Signs == {-1, 1}

VARIABLES
  live,        \* the fact rows that count (MySQL)
  owing,       \* owing[p][d]: handlers that have committed a fact of p, and not recorded d
  pending,     \* counter:<kind>:delta, 0 where the field is absent (Redis)
  fields,      \* the posts that have a field in it
  dirty,       \* queue:<kind>:dirty (Redis)
  stamped,     \* the posts of queue:<kind>:dirty_at (Redis)
  sched,       \* queue:<kind>:schedule (Redis)
  notices,     \* posts with an outbox row or Kafka message on its way
  batch,       \* batch[b]: the post and delta batch b was cut with
  nextBatch,   \* the next batch id
  processing,  \* the batches in processing_batch and processing_batches (Redis)
  procSum,     \* counter:<kind>:processing_sum, 0 where absent (Redis)
  row,         \* row[b]: the counter_batch row of b (MySQL)
  rowId,       \* rowId[b]: its AUTO_INCREMENT id, 0 if there is no row
  counter,     \* post_counter (MySQL)
  task,        \* task[w]: what the scheduler goroutine of w is doing
  lookup,      \* lookup[w][c]: a dirty_at score read by c and not acted on yet
  \* What the properties speak of, and the code does not store:
  accepted,    \* accepted[p]: sum of the deltas Redis took
  lowest,      \* lowest[p]: the lowest that sum has been
  retired,     \* retired[p]: sum of the batches cleared from Redis
  booked,      \* booked[b]: how many times b was added to post_counter
  faults,      \* failures so far
  writes       \* fact writes so far

redisVars == <<pending, fields, dirty, stamped, sched, processing, procSum>>
batchVars == <<batch, nextBatch>>
dbVars == <<row, rowId, counter, booked>>
factVars == <<live, owing, writes>>
taskVars == <<task, lookup>>
tallies == <<accepted, lowest, retired>>
vars == <<live, owing, pending, fields, dirty, stamped, sched, notices, batch,
          nextBatch, processing, procSum, row, rowId, counter, task, lookup,
          accepted, lowest, retired, booked, faults, writes>>

Callers == {"consumer", "fallback"}
NoLookup == [post |-> NoPost, seen |-> FALSE]

\* A worker at a step with a batch: the one it holds, and those still to do.
Doing(step, b, todo) == [at |-> step, b |-> b, todo |-> todo, post |-> NoPost, n |-> 0]

\* A worker at a step of reconciling p, having counted n facts.
Counting(step, p, n) == [at |-> step, b |-> 0, todo |-> {}, post |-> p, n |-> n]

IdleTask == Doing("idle", 0, {})

Task == [at : {"idle", "insert", "recover", "apply", "mark", "clear", "count", "overwrite"},
         b : 0..MaxBatches, todo : SUBSET BatchIds, post : Posts \cup {NoPost}, n : Nat]

TypeOK ==
  /\ live \subseteq Rows
  /\ owing \in [Posts -> [Signs -> Nat]]
  /\ pending \in [Posts -> Int]
  /\ fields \subseteq Posts
  /\ dirty \subseteq Posts
  /\ stamped \subseteq Posts
  /\ sched \subseteq Posts
  /\ notices \subseteq Posts
  /\ batch \in [BatchIds -> [post : Posts \cup {NoPost}, delta : Int]]
  /\ nextBatch \in 1..(MaxBatches + 1)
  /\ processing \subseteq BatchIds
  /\ procSum \in [Posts -> Int]
  /\ row \in [BatchIds -> {"none", "due", "backoff", "success"}]
  /\ rowId \in [BatchIds -> Nat]
  /\ counter \in [Posts -> Nat]
  /\ task \in [Workers -> Task]
  /\ lookup \in [Workers -> [Callers -> [post : Posts \cup {NoPost}, seen : BOOLEAN]]]
  /\ accepted \in [Posts -> Int]
  /\ lowest \in [Posts -> Int]
  /\ retired \in [Posts -> Int]
  /\ booked \in [BatchIds -> Nat]
  /\ faults \in Nat
  /\ writes \in Nat

Init ==
  /\ live = {}
  /\ owing = [p \in Posts |-> [d \in Signs |-> 0]]
  /\ pending = [p \in Posts |-> 0]
  /\ fields = {} /\ dirty = {} /\ stamped = {} /\ sched = {} /\ notices = {}
  /\ batch = [b \in BatchIds |-> [post |-> NoPost, delta |-> 0]]
  /\ nextBatch = 1
  /\ processing = {}
  /\ procSum = [p \in Posts |-> 0]
  /\ row = [b \in BatchIds |-> "none"]
  /\ rowId = [b \in BatchIds |-> 0]
  /\ counter = [p \in Posts |-> 0]
  /\ task = [w \in Workers |-> IdleTask]
  /\ lookup = [w \in Workers |-> [c \in Callers |-> NoLookup]]
  /\ accepted = [p \in Posts |-> 0]
  /\ lowest = [p \in Posts |-> 0]
  /\ retired = [p \in Posts |-> 0]
  /\ booked = [b \in BatchIds |-> 0]
  /\ faults = 0
  /\ writes = 0

----------------------------------------------------------------------------
(* Shared pieces.                                                          *)

\* GREATEST(x, 0): the floor of every UPDATE of a count.
AtLeastZero(x) == IF x < 0 THEN 0 ELSE x

\* COUNT(*) of the fact rows of p.
FactCount(p) == Cardinality({r \in live : PostOf[r] = p})

\* A failure of kind k happens.
Fault(k) == k \in Faults /\ faults < MaxFaults /\ faults' = faults + 1

----------------------------------------------------------------------------
(* comment-service: the write path.                                        *)

\* A like, comment, or the removal of one commits; its handler still has the delta to
\* record.  Nothing makes the handlers of one row wait for each other: a comment can be
\* deleted or rejected as soon as it is committed, and the lock of a like expires.
CommitFact(r) ==
  /\ writes < MaxWrites
  /\ writes' = writes + 1
  /\ live' = IF r \in live THEN live \ {r} ELSE live \cup {r}
  /\ owing' = [owing EXCEPT ![PostOf[r]][IF r \in live THEN -1 ELSE 1] = @ + 1]
  /\ UNCHANGED <<redisVars, batchVars, dbVars, taskVars, notices, tallies, faults>>

\* The enqueue script: one atomic HINCRBY, SADD, ZADD, ZADD.
RunEnqueueScript(p, d) ==
  /\ pending' = [pending EXCEPT ![p] = @ + d]
  /\ fields' = fields \cup {p}
  /\ dirty' = dirty \cup {p}
  /\ stamped' = stamped \cup {p}
  /\ accepted' = [accepted EXCEPT ![p] = @ + d]
  /\ lowest' = [lowest EXCEPT ![p] = IF accepted[p] + d < @ THEN accepted[p] + d ELSE @]
  /\ UNCHANGED <<sched, processing, procSum>>

\* A handler has d to record, and goes on without it.
HandlerDone(p, d) ==
  /\ owing[p][d] > 0
  /\ owing' = [owing EXCEPT ![p][d] = @ - 1]
  /\ UNCHANGED <<live, writes, batchVars, row, rowId, booked, taskVars, retired>>

\* What the handler does when the enqueue call errs: comment_count is written
\* at once, a like_count delta is dropped, as is one whose UPDATE errs as well.
WriteCountDirectly(p, d) ==
  \/ SyncFallback /\ counter' = [counter EXCEPT ![p] = AtLeastZero(@ + d)]
  \/ UNCHANGED counter

\* A post that was not in the dirty set gets an outbox row for a notice.
Enqueue(p, d) ==
  /\ HandlerDone(p, d)
  /\ RunEnqueueScript(p, d)
  /\ notices' = notices \cup ({p} \ dirty)
  /\ UNCHANGED <<counter, faults>>

\* The outbox row is not inserted, which the handler only logs.
EnqueueWithoutOutbox(p, d) ==
  /\ HandlerDone(p, d)
  /\ p \notin dirty
  /\ Fault("outbox")
  /\ RunEnqueueScript(p, d)
  /\ UNCHANGED <<counter, notices>>

\* Redis refuses the delta.
EnqueueRefused(p, d) ==
  /\ HandlerDone(p, d)
  /\ Fault("redis")
  /\ WriteCountDirectly(p, d)
  /\ UNCHANGED <<redisVars, notices, accepted, lowest>>

\* Redis takes the delta, and the 150 ms deadline hides it from the handler.
EnqueueTimesOut(p, d) ==
  /\ HandlerDone(p, d)
  /\ Fault("timeout")
  /\ RunEnqueueScript(p, d)
  /\ WriteCountDirectly(p, d)
  /\ UNCHANGED notices

RecordDelta(p, d) ==
  \/ Enqueue(p, d)
  \/ EnqueueWithoutOutbox(p, d)
  \/ EnqueueRefused(p, d)
  \/ EnqueueTimesOut(p, d)

----------------------------------------------------------------------------
(* comment-task: who schedules a flush.                                    *)

Idle(w) == task[w].at = "idle" /\ lookup[w]["fallback"].post = NoPost

\* schedulePostCounterFlush, its first half: ZSCORE dirty_at.
ReadStamp(w, c, p) ==
  lookup' = [lookup EXCEPT ![w][c] = [post |-> p, seen |-> p \in stamped]]

\* The Kafka consumer goroutine takes a notice; ReadMessage has committed the
\* offset, so it is gone unless the outbox sends it again.
ConsumeNotice(w, p) ==
  /\ p \in notices
  /\ lookup[w]["consumer"].post = NoPost
  /\ ReadStamp(w, "consumer", p)
  /\ \/ notices' = notices \ {p} /\ UNCHANGED faults
     \/ notices' = notices /\ Fault("resend")
  /\ UNCHANGED <<redisVars, batchVars, dbVars, factVars, task, tallies>>

\* The fallback ticker samples the dirty set.
FallbackPick(w, p) ==
  /\ Idle(w)
  /\ p \in dirty
  /\ ReadStamp(w, "fallback", p)
  /\ UNCHANGED <<redisVars, batchVars, dbVars, factVars, task, notices, tallies, faults>>

\* Mutant: without a score, the score is removed as well.
FinishScheduleUnstamping(w, c) ==
  LET p == lookup[w][c].post IN
  /\ p # NoPost
  /\ IF lookup[w][c].seen
       THEN sched' = sched \cup {p} /\ dirty' = dirty /\ stamped' = stamped
       ELSE sched' = sched \ {p} /\ dirty' = dirty \ {p} /\ stamped' = stamped \ {p}
  /\ lookup' = [lookup EXCEPT ![w][c] = NoLookup]
  /\ UNCHANGED <<pending, fields, processing, procSum, batchVars, dbVars, factVars,
                 task, notices, tallies, faults>>

\* Its second half: schedule the post or, if no score was seen, drop its marks.
FinishSchedule(w, c) ==
  LET p == lookup[w][c].post IN
  /\ p # NoPost
  /\ IF lookup[w][c].seen
       THEN sched' = sched \cup {p} /\ dirty' = dirty
       ELSE sched' = sched \ {p} /\ dirty' = dirty \ {p}
  /\ lookup' = [lookup EXCEPT ![w][c] = NoLookup]
  /\ UNCHANGED <<pending, fields, stamped, processing, procSum, batchVars, dbVars, factVars,
                 task, notices, tallies, faults>>

----------------------------------------------------------------------------
(* comment-task: the flush ticker cuts a batch.                            *)

\* Mutant: the delta is read and stays in the hash.
CopyDelta(p) == UNCHANGED <<pending, fields>>

\* HGET, HDEL
TakeDelta(p) ==
  /\ pending' = [pending EXCEPT ![p] = 0]
  /\ fields' = fields \ {p}

\* Mutant: processing_sum is not raised.
HoldBatchUnsummed(p) ==
  /\ processing' = processing \cup {nextBatch}
  /\ procSum' = procSum

\* HSET processing_batch, HINCRBY processing_sum, SADD processing_batches
HoldBatch(p) ==
  /\ processing' = processing \cup {nextBatch}
  /\ procSum' = [procSum EXCEPT ![p] = @ + pending[p]]

\* Mutant: the dirty_at score stays.
DropMarksButStamp(p) ==
  /\ dirty' = dirty \ {p}
  /\ stamped' = stamped
  /\ sched' = sched \ {p}

\* SREM dirty, ZREM dirty_at, dirty_since, schedule
DropMarks(p) ==
  /\ dirty' = dirty \ {p}
  /\ stamped' = stamped \ {p}
  /\ sched' = sched \ {p}

\* The claim script: the pending delta of p becomes batch nextBatch.  A delta of 0
\* is reported as "empty", and no row is inserted for it.
Claim(w, p) ==
  /\ Idle(w)
  /\ p \in sched
  /\ p \in fields
  /\ nextBatch <= MaxBatches
  /\ nextBatch' = nextBatch + 1
  /\ batch' = [batch EXCEPT ![nextBatch] = [post |-> p, delta |-> pending[p]]]
  /\ TakeDelta(p)
  /\ HoldBatch(p)
  /\ DropMarks(p)
  /\ task' = IF pending[p] = 0 THEN task
             ELSE [task EXCEPT ![w] = Doing("insert", nextBatch, {})]
  /\ UNCHANGED <<dbVars, factVars, lookup, notices, tallies, faults>>

\* The claim script finds no delta, and drops the marks of p.
ClaimEmpty(w, p) ==
  /\ Idle(w)
  /\ p \in sched
  /\ p \notin fields
  /\ DropMarks(p)
  /\ UNCHANGED <<pending, fields, processing, procSum, batchVars, dbVars, factVars, taskVars,
                 notices, tallies, faults>>

\* INSERT ... ON DUPLICATE KEY UPDATE updated_at: a row, unless there is one.
InsertRow(b) ==
  IF row[b] = "none"
    THEN /\ row' = [row EXCEPT ![b] = "due"]
         /\ rowId' = [rowId EXCEPT ![b] = 1 + Cardinality({c \in BatchIds : rowId[c] # 0})]
    ELSE UNCHANGED <<row, rowId>>

InsertBatch(w) ==
  /\ task[w].at = "insert"
  /\ InsertRow(task[w].b)
  /\ task' = [task EXCEPT ![w] = IdleTask]
  /\ UNCHANGED <<redisVars, batchVars, counter, booked, factVars, lookup, notices, tallies, faults>>

\* The INSERT errs: the post is scheduled again, the batch waits for recovery.
InsertBatchFails(w) ==
  /\ task[w].at = "insert"
  /\ Fault("insert")
  /\ sched' = sched \cup {batch[task[w].b].post}
  /\ task' = [task EXCEPT ![w] = IdleTask]
  /\ UNCHANGED <<pending, fields, dirty, stamped, processing, procSum, batchVars, dbVars,
                 factVars, lookup, notices, tallies>>

----------------------------------------------------------------------------
(* comment-task: the batch ticker recovers, then applies.                  *)

\* The batches the SELECT of the apply scan returns.
DueBatches == {b \in BatchIds : row[b] = "due"}

\* Mutant: ORDER BY id DESC
LastOf(S) == {b \in S : \A c \in S : rowId[b] >= rowId[c]}

\* ORDER BY id
FirstOf(S) == {b \in S : \A c \in S : rowId[b] <= rowId[c]}

\* The scan reads processing_batches (LIMIT 100 is never reached here).
StartBatchTick(w) ==
  /\ Idle(w)
  /\ processing # {} \/ DueBatches # {}
  /\ task' = [task EXCEPT ![w] = Doing("recover", 0, processing)]
  /\ UNCHANGED <<redisVars, batchVars, dbVars, factVars, lookup, notices, tallies,
                 faults>>

Finished(w, b) ==
  task' = [task EXCEPT ![w] = Doing(task[w].at, task[w].b, task[w].todo \ {b})]

\* The clear script: b leaves the processing keys, and its delta the sum.
Clear(b) ==
  IF b \in processing
    THEN /\ processing' = processing \ {b}
         /\ procSum' = [procSum EXCEPT ![batch[b].post] = @ - batch[b].delta]
         /\ retired' = [retired EXCEPT ![batch[b].post] = @ + batch[b].delta]
         /\ UNCHANGED <<pending, fields, dirty, stamped, sched>>
    ELSE UNCHANGED <<redisVars, retired>>

\* Mutant: a batch is cleared as soon as it has a row.
RecoverClearsEarly(w, b) ==
  /\ task[w].at = "recover"
  /\ b \in task[w].todo
  /\ ~(b \in processing /\ batch[b].delta = 0)
  /\ IF b \in processing /\ row[b] = "none" THEN InsertRow(b) ELSE UNCHANGED <<row, rowId>>
  /\ IF row[b] # "none" THEN Clear(b) ELSE UNCHANGED <<redisVars, retired>>
  /\ Finished(w, b)
  /\ UNCHANGED <<batchVars, counter, booked, factVars, lookup, notices, accepted, lowest,
                 faults>>

\* A processing batch whose delta parses: insert its missing row, clear it if
\* its row has succeeded, leave it otherwise.
RecoverBatch(w, b) ==
  /\ task[w].at = "recover"
  /\ b \in task[w].todo
  /\ ~(b \in processing /\ batch[b].delta = 0)
  /\ IF b \in processing /\ row[b] = "none" THEN InsertRow(b) ELSE UNCHANGED <<row, rowId>>
  /\ IF row[b] = "success" THEN Clear(b) ELSE UNCHANGED <<redisVars, retired>>
  /\ Finished(w, b)
  /\ UNCHANGED <<batchVars, counter, booked, factVars, lookup, notices, accepted, lowest,
                 faults>>

\* A delta of 0 does not parse: the error ends this recovery scan.
RecoverAborts(w, b) ==
  /\ task[w].at = "recover"
  /\ b \in task[w].todo \cap processing
  /\ batch[b].delta = 0
  /\ task' = [task EXCEPT ![w] = Doing("recover", 0, {})]
  /\ UNCHANGED <<redisVars, batchVars, dbVars, factVars, lookup, notices, tallies,
                 faults>>

\* Recovery is over, whatever came of it, and the apply scan selects its rows.
StartApply(w) ==
  /\ task[w].at = "recover"
  /\ task[w].todo = {}
  /\ task' = [task EXCEPT ![w] =
                IF DueBatches = {} THEN IdleTask
                ELSE Doing("apply", 0, DueBatches)]
  /\ UNCHANGED <<redisVars, batchVars, dbVars, factVars, lookup, notices, tallies,
                 faults>>

\* The apply transaction commits: claim, post_counter, and success at once.
CommitBatch(b) ==
  /\ counter' = [counter EXCEPT ![batch[b].post] = AtLeastZero(@ + batch[b].delta)]
  /\ booked' = [booked EXCEPT ![b] = @ + 1]
  /\ row' = [row EXCEPT ![b] = "success"]
  /\ rowId' = rowId

\* The worker goes on with batch b of its scan, at the step named.
GoTo(w, b, step) == task' = [task EXCEPT ![w] = Doing(step, b, task[w].todo \ {b})]

ApplyBatch(w) ==
  /\ task[w].at = "apply"
  /\ \E b \in FirstOf(task[w].todo) :
       IF row[b] = "due"
         THEN CommitBatch(b) /\ GoTo(w, b, "clear")
         \* another process was faster: RowsAffected is 0
         ELSE Finished(w, b) /\ UNCHANGED dbVars
  /\ UNCHANGED <<redisVars, batchVars, factVars, lookup, notices, tallies, faults>>

\* Mutant: the count is updated outside the transaction.
ApplyHalfRollsBack(w) ==
  /\ task[w].at = "apply"
  /\ \E b \in FirstOf(task[w].todo) :
       /\ counter' = [counter EXCEPT ![batch[b].post] = AtLeastZero(@ + batch[b].delta)]
       /\ booked' = [booked EXCEPT ![b] = @ + 1]
       /\ GoTo(w, b, "mark")
  /\ Fault("txn")
  /\ UNCHANGED <<redisVars, batchVars, row, rowId, factVars, lookup, notices, tallies>>

ApplyRollsBack(w) ==
  /\ task[w].at = "apply"
  /\ \E b \in FirstOf(task[w].todo) : GoTo(w, b, "mark")
  /\ Fault("txn")
  /\ UNCHANGED <<redisVars, batchVars, dbVars, factVars, lookup, notices, tallies>>

\* COMMIT takes effect on the server and the call returns an error.
ApplyReplyLost(w) ==
  /\ task[w].at = "apply"
  /\ \E b \in FirstOf(task[w].todo) :
       row[b] = "due" /\ CommitBatch(b) /\ GoTo(w, b, "mark")
  /\ Fault("reply")
  /\ UNCHANGED <<redisVars, batchVars, factVars, lookup, notices, tallies>>

Continue(w) == task' = [task EXCEPT ![w] = Doing("apply", 0, task[w].todo)]

\* UPDATE ... SET status = 'failed' WHERE batch_id = ?, whatever the status is.
MarkFailed(w) ==
  /\ task[w].at = "mark"
  /\ \/ row' = [row EXCEPT ![task[w].b] = "backoff"] /\ UNCHANGED faults
     \/ row' = row /\ Fault("mark")
  /\ Continue(w)
  /\ UNCHANGED <<redisVars, batchVars, rowId, counter, booked, factVars, lookup, notices,
                 tallies>>

ClearBatch(w) ==
  /\ task[w].at = "clear"
  /\ \/ Clear(task[w].b) /\ UNCHANGED faults
     \/ UNCHANGED <<redisVars, retired>> /\ Fault("clear")
  /\ Continue(w)
  /\ UNCHANGED <<batchVars, dbVars, factVars, lookup, notices, accepted, lowest>>

EndBatchTick(w) ==
  /\ task[w].at = "apply"
  /\ task[w].todo = {}
  /\ task' = [task EXCEPT ![w] = IdleTask]
  /\ UNCHANGED <<redisVars, batchVars, dbVars, factVars, lookup, notices, tallies,
                 faults>>

\* Mutant: whatever has a row is due again, applied or not.
EverythingElapses(b) ==
  /\ row[b] \in {"backoff", "success"}
  /\ row' = [row EXCEPT ![b] = "due"]
  /\ UNCHANGED <<redisVars, batchVars, rowId, counter, booked, factVars, taskVars, notices,
                 tallies, faults>>


\* The 30 s of next_retry_at pass.
BackoffElapses(b) ==
  /\ row[b] = "backoff"
  /\ row' = [row EXCEPT ![b] = "due"]
  /\ UNCHANGED <<redisVars, batchVars, rowId, counter, booked, factVars, taskVars, notices,
                 tallies, faults>>

----------------------------------------------------------------------------
(* comment-task: the reconcile ticker.                                     *)

NothingUnfinished(p) ==
  /\ pending[p] = 0
  /\ procSum[p] = 0
  /\ \A b \in BatchIds : batch[b].post = p => row[b] \notin {"due", "backoff"}

CheckReconcile(w, p) ==
  /\ ReconcileOn
  /\ Idle(w)
  /\ NothingUnfinished(p)
  /\ task' = [task EXCEPT ![w] = Counting("count", p, 0)]
  /\ UNCHANGED <<redisVars, batchVars, dbVars, factVars, lookup, notices, tallies,
                 faults>>

CountFacts(w) ==
  /\ task[w].at = "count"
  /\ task' = [task EXCEPT ![w] = Counting("overwrite", task[w].post, FactCount(task[w].post))]
  /\ UNCHANGED <<redisVars, batchVars, dbVars, factVars, lookup, notices, tallies,
                 faults>>

\* The overwrite, skipped by the code when the stored count is the same.
Overwrite(w) ==
  /\ task[w].at = "overwrite"
  /\ counter' = [counter EXCEPT ![task[w].post] = task[w].n]
  /\ task' = [task EXCEPT ![w] = IdleTask]
  /\ UNCHANGED <<redisVars, batchVars, row, rowId, booked, factVars, lookup, notices,
                 tallies, faults>>

----------------------------------------------------------------------------
(* A comment-task process stops and is started again: what its goroutines  *)
(* held in memory is lost.                                                 *)

Crash(w) ==
  /\ ~(Idle(w) /\ lookup[w]["consumer"].post = NoPost)
  /\ Fault("crash")
  /\ task' = [task EXCEPT ![w] = IdleTask]
  /\ lookup' = [lookup EXCEPT ![w] = [c \in Callers |-> NoLookup]]
  /\ UNCHANGED <<redisVars, batchVars, dbVars, factVars, notices, tallies>>

----------------------------------------------------------------------------
TaskStep(w) ==
  \/ InsertBatch(w) \/ InsertBatchFails(w)
  \/ \E b \in BatchIds : RecoverBatch(w, b) \/ RecoverAborts(w, b)
  \/ StartApply(w) \/ ApplyBatch(w) \/ ApplyRollsBack(w) \/ ApplyReplyLost(w)
  \/ MarkFailed(w) \/ ClearBatch(w) \/ EndBatchTick(w)
  \/ CountFacts(w) \/ Overwrite(w)

Next ==
  \/ \E r \in Rows : CommitFact(r)
  \/ \E p \in Posts, d \in Signs : RecordDelta(p, d)
  \/ \E w \in Workers, p \in Posts :
       \/ ConsumeNotice(w, p) \/ FallbackPick(w, p)
       \/ Claim(w, p) \/ ClaimEmpty(w, p)
       \/ CheckReconcile(w, p)
  \/ \E w \in Workers, c \in Callers : FinishSchedule(w, c)
  \/ \E w \in Workers : StartBatchTick(w) \/ TaskStep(w) \/ Crash(w)
  \/ \E b \in BatchIds : BackoffElapses(b)

Spec == Init /\ [][Next]_vars

(***************************************************************************)
(* Fairness.  A handler finishes, and every goroutine runs.  The select of *)
(* the scheduler goroutine picks among ready tickers at random, so every   *)
(* ticker is served again and again although each is disabled while        *)
(* another one's body runs: strong fairness for what starts a body.        *)
(***************************************************************************)
Fairness ==
  /\ \A p \in Posts, d \in Signs : WF_vars(Enqueue(p, d))
  /\ \A w \in Workers :
       /\ WF_vars(TaskStep(w))
       /\ \A c \in Callers : WF_vars(FinishSchedule(w, c))
       /\ SF_vars(StartBatchTick(w))
       /\ \A p \in Posts :
            /\ SF_vars(Claim(w, p) \/ ClaimEmpty(w, p))
            /\ SF_vars(FallbackPick(w, p))
            /\ SF_vars(ConsumeNotice(w, p))
            /\ SF_vars(CheckReconcile(w, p))
  /\ \A b \in BatchIds : WF_vars(BackoffElapses(b))

FairSpec == Spec /\ Fairness

----------------------------------------------------------------------------
(* Properties.                                                             *)

\* The sum of the deltas of a set of batches.
DeltaSum(S) == SumFunctionOnSet([b \in BatchIds |-> batch[b].delta], S)

\* What p's batches still owe to post_counter.
Unapplied(p) == DeltaSum({b \in BatchIds : batch[b].post = p /\ row[b] # "success"})

\* What Redis and MySQL together owe to the counter of p.
Owed(p) == pending[p] + Unapplied(p)

\* What handlers have committed as facts of p and not recorded.
Unrecorded(p) == owing[p][1] - owing[p][-1]

\* A batch row is 'success' exactly when its delta is in post_counter, and it is
\* there once: the promise of the apply transaction (applyCounterBatch).
BookedExactlyOnce ==
  \A b \in BatchIds : booked[b] = IF row[b] = "success" THEN 1 ELSE 0

\* A batch leaves Redis only after MySQL has booked it: neither a crash nor a
\* failed call between claim, insert, apply, and clear loses a claimed delta.
RetiredOnlyWhenBooked ==
  \A b \in 1..(nextBatch - 1) : b \notin processing => booked[b] = 1

\* processing_sum, which detail reads add to the stored count, is the sum of the
\* batches in processing_batch, through every claim, recovery, and clear.
ProcessingSumExact ==
  \A p \in Posts : procSum[p] = DeltaSum({b \in processing : batch[b].post = p})

\* Every delta Redis took is pending, processing, or cleared, and in one of them only.
RedisConserves ==
  \A p \in Posts : accepted[p] = pending[p] + procSum[p] + retired[p]

\* A post has a dirty_at score exactly when it has a pending delta: a flush that
\* finds no score finds no delta either, so dropping the marks is safe then.
StampedIffPending == stamped = fields

\* As long as no call has failed and reconciliation is off, the stored count and all that
\* is on its way to it are the facts, but for what the floor at zero has swallowed.  That
\* makes a count too high, never too low, and by no more than Redis was ever short of:
\* removals recorded before the additions they undo (applyCounterBatch, GREATEST).
OffByShortfallOnly ==
  faults = 0 =>
    \A p \in Posts :
      LET total == counter[p] + Owed(p) + Unrecorded(p) IN
      FactCount(p) <= total /\ total <= FactCount(p) - lowest[p]

\* The pipeline implements the ledger: every accepted delta is settled once.
Ledger == INSTANCE CounterLedger
            WITH Amounts <- (-MaxWrites)..MaxWrites, Counts <- 0..Cardinality(Rows),
                 owed <- [p \in Posts |-> Owed(p)]

ImplementsLedger == Ledger!Spec

\* A post with a pending delta is in the dirty set, where the fallback scan finds it:
\* "outbox failures leave the Redis dirty set, which the periodic scan will find"
\* (post_like_counter.go, enqueuePostLikeCountDelta).
PendingIsDirty == fields \subseteq dirty

\* Reconciliation overwrites the count of a post only while no delta of it is pending,
\* processing, or in an unfinished batch (README, canReconcilePostCounter).
OverwritesOnlySettled ==
  [][\A w \in Workers :
       task[w].at = "overwrite" /\ task'[w].at = "idle" /\ counter' # counter
         => NothingUnfinished(task[w].post)]_vars

\* A pending delta is cut into a batch in the end: no wakeup is lost for good.
PendingIsClaimed == \A p \in Posts : p \in fields ~> p \notin fields

\* A batch that is in Redis and has no counter_batch row is given one by a recovery
\* scan, under the same id (recoverProcessingCounterBatches).
MissingRowsRecovered ==
  \A b \in BatchIds :
    b \in processing /\ batch[b].delta # 0 /\ row[b] = "none" ~> row[b] # "none"

\* A batch whose deltas cancelled out has no row, is never cleared, and ends every
\* recovery scan that meets it.
NoZeroBatch == \A b \in processing : batch[b].delta # 0

=============================================================================
