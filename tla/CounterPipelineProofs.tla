----------------------- MODULE CounterPipelineProofs -----------------------
(***************************************************************************)
(* Proofs about CounterPipeline, for every value of its constants: first   *)
(* the invariant Shape, and then, from it, what the pipeline never loses   *)
(* and never books twice.                                                  *)
(***************************************************************************)
EXTENDS CounterPipeline, FunctionSums, FiniteSetTheorems, TLAPS

\* A list of variables, which every proof may look into.
USE DEF tallies

\* The batches cut so far have a post; the others have left no trace.
BatchesCut ==
  \A b \in BatchIds :
    IF b < nextBatch THEN batch[b].post \in Posts
    ELSE b \notin processing /\ row[b] = "none" /\ booked[b] = 0

\* A worker only ever holds batches that were cut.
TasksCut ==
  \A w \in Workers :
    /\ task[w].at \in {"insert", "mark", "clear"} => task[w].b \in 1..(nextBatch - 1)
    /\ \A b \in task[w].todo : b < nextBatch

Shape == TypeOK /\ BatchesCut /\ TasksCut

LEMMA CountsAreNat ==
  /\ \A S \in SUBSET BatchIds : Cardinality(S) \in Nat
  /\ \A S \in SUBSET Rows : Cardinality(S) \in Nat
<1>1. IsFiniteSet(BatchIds)
  BY FS_Interval, CounterAssumption DEF BatchIds
<1>2. QED
  BY <1>1, CounterAssumption, FS_Subset, FS_CardinalityType

\* The steps of comment-service.
WriteStep ==
  \/ \E r \in Rows : CommitFact(r)
  \/ \E p \in Posts, d \in Signs : RecordDelta(p, d)

\* A handler records its delta in Redis, in post_counter, in both, or nowhere.
LEMMA RecordIs ==
  ASSUME NEW p \in Posts, NEW d \in Signs, RecordDelta(p, d)
  PROVE  /\ d \in Int /\ d # 0
         /\ HandlerDone(p, d)
         /\ \/ RunEnqueueScript(p, d)
            \/ UNCHANGED <<redisVars, accepted, lowest>>
         /\ notices' \in {notices, notices \cup ({p} \ dirty)}
         /\ counter' \in {counter, [counter EXCEPT ![p] = AtLeastZero(@ + d)]}
         /\ faults' \in {faults, faults + 1}
BY DEF RecordDelta, Enqueue, EnqueueWithoutOutbox, EnqueueRefused, EnqueueTimesOut, Fault,
       WriteCountDirectly, Signs

\* The write path touches no batch and no task.
LEMMA WriteShape ==
  ASSUME Shape, WriteStep
  PROVE  Shape'
<1>1. /\ PostOf \in [Rows -> Posts]
      /\ owing \in [Posts -> [Signs -> Nat]]
      /\ pending \in [Posts -> Int] /\ accepted \in [Posts -> Int]
      /\ lowest \in [Posts -> Int] /\ counter \in [Posts -> Nat]
      /\ faults \in Nat /\ writes \in Nat
  BY CounterAssumption DEF Shape, TypeOK
<1>2. ASSUME NEW r \in Rows, CommitFact(r)
      PROVE  Shape'
  <2>1. live' \subseteq Rows /\ writes' \in Nat
    BY <1>1, <1>2 DEF CommitFact, Shape, TypeOK
  <2>2. owing' \in [Posts -> [Signs -> Nat]]
    BY <1>1, <1>2 DEF CommitFact, Signs
  <2>3. QED
    BY <1>2, <2>1, <2>2 DEF CommitFact, Shape, TypeOK, BatchesCut, TasksCut, redisVars,
                            batchVars, dbVars, taskVars
<1>3. ASSUME NEW p \in Posts, NEW d \in Signs, RecordDelta(p, d)
      PROVE  Shape'
  <2>1. owing' \in [Posts -> [Signs -> Nat]]
    <3>1. owing[p][d] > 0 /\ owing' = [owing EXCEPT ![p][d] = @ - 1]
      BY <1>3, RecordIs DEF HandlerDone
    <3>2. (owing[p][d] - 1) \in Nat
      BY <1>1, <3>1
    <3>3. QED
      BY <1>1, <3>1, <3>2
  <2>2. counter' \in [Posts -> Nat] /\ faults' \in Nat
    <3>1. /\ d \in Int /\ faults' \in {faults, faults + 1}
          /\ counter' \in {counter, [counter EXCEPT ![p] = AtLeastZero(@ + d)]}
      BY <1>3, RecordIs
    <3>2. AtLeastZero(counter[p] + d) \in Nat
      BY <1>1, <3>1 DEF AtLeastZero
    <3>3. QED
      BY <1>1, <3>1, <3>2
  <2>3. /\ pending' \in [Posts -> Int] /\ accepted' \in [Posts -> Int]
        /\ lowest' \in [Posts -> Int]
    BY <1>1, <1>3, RecordIs DEF RunEnqueueScript, redisVars
  <2>4. fields' \subseteq Posts /\ dirty' \subseteq Posts /\ stamped' \subseteq Posts
        /\ notices' \subseteq Posts
    <3>1. /\ fields \subseteq Posts /\ dirty \subseteq Posts /\ stamped \subseteq Posts
          /\ notices \subseteq Posts
      BY DEF Shape, TypeOK
    <3>2. /\ fields' \in {fields, fields \cup {p}} /\ dirty' \in {dirty, dirty \cup {p}}
          /\ stamped' \in {stamped, stamped \cup {p}}
          /\ notices' \in {notices, notices \cup ({p} \ dirty)}
      BY <1>3, RecordIs DEF RunEnqueueScript, redisVars
    <3>3. QED
      BY <3>1, <3>2
  <2>5. UNCHANGED <<sched, processing, procSum>>
    BY <1>3, RecordIs DEF RunEnqueueScript, redisVars
  <2>6. QED
    BY <1>3, <2>1, <2>2, <2>3, <2>4, <2>5, RecordIs
       DEF HandlerDone, Shape, TypeOK, BatchesCut, TasksCut, batchVars, taskVars
<1>4. QED
  BY <1>2, <1>3 DEF WriteStep

\* Scheduling touches marks and lookups only.
LEMMA ScheduleShape ==
  ASSUME Shape, NEW w \in Workers, NEW p, NEW c \in Callers,
         ConsumeNotice(w, p) \/ FallbackPick(w, p) \/ FinishSchedule(w, c)
  PROVE  Shape'
<1> USE DEF Shape, TypeOK, BatchesCut, TasksCut, redisVars, batchVars, dbVars, factVars,
            Fault, ReadStamp, NoLookup, Callers
<1>1. CASE ConsumeNotice(w, p)
  BY <1>1 DEF ConsumeNotice
<1>2. CASE FallbackPick(w, p)
  BY <1>2 DEF FallbackPick
<1>3. CASE FinishSchedule(w, c)
  BY <1>3 DEF FinishSchedule
<1>4. QED
  BY <1>1, <1>2, <1>3

\* A claim cuts batch nextBatch for a post, and may hand it to the worker.
LEMMA ClaimShape ==
  ASSUME Shape, NEW w \in Workers, NEW p \in Posts, Claim(w, p) \/ ClaimEmpty(w, p)
  PROVE  Shape'
<1>1. CASE Claim(w, p)
  <2> DEFINE t == Doing("insert", nextBatch, {})
  <2>0. /\ MaxBatches \in Nat
        /\ nextBatch \in 1..(MaxBatches + 1)
        /\ pending \in [Posts -> Int] /\ procSum \in [Posts -> Int]
        /\ batch \in [BatchIds -> [post : Posts \cup {NoPost}, delta : Int]]
        /\ task \in [Workers -> Task]
        /\ processing \subseteq BatchIds
    BY CounterAssumption DEF Shape, TypeOK
  <2>1. /\ nextBatch \in BatchIds /\ nextBatch \in Int
        /\ nextBatch + 1 \in 1..(MaxBatches + 1)
    <3>1. nextBatch <= MaxBatches
      BY <1>1 DEF Claim
    <3>2. QED
      BY <2>0, <3>1 DEF BatchIds
  <2>2. t \in Task /\ t.b = nextBatch /\ t.todo = {} /\ t.at = "insert"
    <3>1. nextBatch \in 0..MaxBatches
      BY <2>0, <2>1 DEF BatchIds
    <3>2. QED
      BY <3>1 DEF Task, Doing
  <2>3. /\ batch' = [batch EXCEPT ![nextBatch] = [post |-> p, delta |-> pending[p]]]
        /\ task' \in {task, [task EXCEPT ![w] = t]}
        /\ nextBatch' = nextBatch + 1
        /\ processing' = processing \cup {nextBatch}
    BY <1>1 DEF Claim, HoldBatch
  <2>4. batch' \in [BatchIds -> [post : Posts \cup {NoPost}, delta : Int]]
    BY <2>0, <2>1, <2>3
  <2>5. task' \in [Workers -> Task]
    BY <2>0, <2>1, <2>2, <2>3
  <2>6. pending' \in [Posts -> Int] /\ procSum' \in [Posts -> Int]
    BY <1>1, <2>0, <2>1 DEF Claim, TakeDelta, HoldBatch
  <2>7. TypeOK'
    BY <1>1, <2>0, <2>1, <2>3, <2>4, <2>5, <2>6
       DEF Claim, TakeDelta, DropMarks, Shape, TypeOK, dbVars, factVars
  <2>8. BatchesCut'
    BY <1>1, <2>0, <2>1, <2>3 DEF Claim, Shape, BatchesCut, BatchIds, dbVars
  <2>9. TasksCut'
    <3>1. \A v \in Workers : \A b \in task[v].todo : b \in Int
      BY <2>0 DEF Task, BatchIds
    <3>2. \A v \in Workers : task'[v] = task[v] \/ task'[v] = t
      BY <2>0, <2>3
    <3> HIDE DEF t
    <3>3. \A v \in Workers :
            /\ t.at \in {"insert", "mark", "clear"} => t.b \in 1..(nextBatch' - 1)
            /\ \A b \in t.todo : b < nextBatch'
      BY <2>1, <2>2, <2>3 DEF BatchIds
    <3>4. QED
      BY <2>1, <2>3, <3>1, <3>2, <3>3 DEF Shape, TasksCut, BatchIds
  <2>10. QED
    BY <2>7, <2>8, <2>9 DEF Shape
<1>2. CASE ClaimEmpty(w, p)
  BY <1>2 DEF ClaimEmpty, DropMarks, Shape, TypeOK, BatchesCut, TasksCut, batchVars, dbVars,
              factVars, taskVars
<1>3. QED
  BY <1>1, <1>2
Statuses == {"none", "due", "backoff", "success"}

Steps == {"idle", "insert", "recover", "apply", "mark", "clear", "count", "overwrite"}

LEMMA DoingIsTask ==
  ASSUME NEW step \in Steps, NEW b \in 0..MaxBatches, NEW todo \in SUBSET BatchIds
  PROVE  /\ Doing(step, b, todo) \in Task
         /\ Doing(step, b, todo).at = step
         /\ Doing(step, b, todo).b = b
         /\ Doing(step, b, todo).todo = todo
         /\ Doing(step, b, todo).post = NoPost
BY DEF Doing, Task, Steps

LEMMA CountingIsTask ==
  ASSUME NEW step \in Steps, NEW p \in Posts \cup {NoPost}, NEW n \in Nat
  PROVE  /\ Counting(step, p, n) \in Task
         /\ Counting(step, p, n).at = step
         /\ Counting(step, p, n).todo = {}
         /\ Counting(step, p, n).post = p
<1>1. 0 \in 0..MaxBatches
  BY CounterAssumption
<1>2. QED
  BY <1>1 DEF Counting, Task, Steps

LEMMA IdleIsTask ==
  /\ IdleTask \in Task
  /\ IdleTask.at = "idle"
  /\ IdleTask.todo = {}
<1>1. 0 \in 0..MaxBatches
  BY CounterAssumption
<1>2. QED
  BY <1>1, DoingIsTask DEF IdleTask, Steps

LEMMA InitShape == Init => Shape
<1> SUFFICES ASSUME Init PROVE Shape
  OBVIOUS
<1>1. TypeOK
  BY CounterAssumption, IdleIsTask DEF Init, TypeOK, BatchIds, NoLookup
<1>2. BatchesCut
  BY DEF Init, BatchesCut, BatchIds
<1>3. TasksCut
  BY IdleIsTask DEF Init, TasksCut
<1>4. QED
  BY <1>1, <1>2, <1>3 DEF Shape

\* A worker turns to a task whose batches are all cut.
LEMMA TaskMoves ==
  ASSUME Shape, NEW w \in Workers, NEW t \in Task, task' = [task EXCEPT ![w] = t],
         nextBatch' = nextBatch,
         t.at \in {"insert", "mark", "clear"} => t.b \in 1..(nextBatch - 1),
         \A b \in t.todo : b < nextBatch
  PROVE  task' \in [Workers -> Task] /\ TasksCut'
<1>1. task \in [Workers -> Task]
  BY DEF Shape, TypeOK
<1>2. \A v \in Workers : task'[v] = task[v] \/ task'[v] = t
  BY <1>1
<1>3. QED
  BY <1>1, <1>2 DEF Shape, TasksCut

\* What every step of a batch or reconcile tick leaves intact.
LEMMA WorkShape ==
  ASSUME Shape,
         row' \in [BatchIds -> Statuses], rowId' \in [BatchIds -> Nat],
         booked' \in [BatchIds -> Nat], counter' \in [Posts -> Nat],
         procSum' \in [Posts -> Int], retired' \in [Posts -> Int],
         sched' \subseteq Posts, processing' \subseteq processing,
         task' \in [Workers -> Task], faults' \in Nat, TasksCut',
         \A b \in BatchIds : b < nextBatch \/ (row'[b] = row[b] /\ booked'[b] = booked[b]),
         UNCHANGED <<live, owing, pending, fields, dirty, stamped, notices, batch, nextBatch,
                     lookup, accepted, lowest, writes>>
  PROVE  Shape'
<1>1. TypeOK'
  BY DEF Shape, TypeOK, Statuses
<1>2. BatchesCut'
  BY DEF Shape, BatchesCut
<1>3. QED
  BY <1>1, <1>2 DEF Shape
\* InsertRow gives a batch that was cut a row, or changes nothing.
LEMMA InsertRowTyped ==
  ASSUME Shape, NEW b \in BatchIds, InsertRow(b)
  PROVE  /\ row' \in [BatchIds -> Statuses]
         /\ rowId' \in [BatchIds -> Nat]
         /\ \A c \in BatchIds : c # b => row'[c] = row[c]
<1>1. row \in [BatchIds -> Statuses] /\ rowId \in [BatchIds -> Nat]
  BY DEF Shape, TypeOK, Statuses
<1>2. 1 + Cardinality({c \in BatchIds : rowId[c] # 0}) \in Nat
  <2>1. Cardinality({c \in BatchIds : rowId[c] # 0}) \in Nat
    BY CountsAreNat
  <2>2. QED
    BY <2>1
<1>3. QED
  BY <1>1, <1>2 DEF InsertRow, Statuses

\* Clear moves the delta of a batch from processing_sum to what is retired.
LEMMA ClearTyped ==
  ASSUME Shape, NEW b \in BatchIds, Clear(b)
  PROVE  /\ procSum' \in [Posts -> Int]
         /\ retired' \in [Posts -> Int]
         /\ processing' \subseteq processing
         /\ UNCHANGED <<pending, fields, dirty, stamped, sched>>
<1>1. /\ procSum \in [Posts -> Int] /\ retired \in [Posts -> Int]
      /\ batch[b].delta \in Int
  BY DEF Shape, TypeOK
<1>2. QED
  BY <1>1 DEF Clear, redisVars

\* CommitBatch books a batch that was cut.
LEMMA CommitTyped ==
  ASSUME Shape, NEW b \in BatchIds, CommitBatch(b)
  PROVE  /\ row' = [row EXCEPT ![b] = "success"]
         /\ booked' = [booked EXCEPT ![b] = @ + 1]
         /\ row' \in [BatchIds -> Statuses]
         /\ rowId' = rowId
         /\ booked' \in [BatchIds -> Nat]
         /\ counter' \in [Posts -> Nat]
<1>1. /\ row \in [BatchIds -> Statuses]
      /\ booked \in [BatchIds -> Nat]
      /\ counter \in [Posts -> Nat]
      /\ batch[b].delta \in Int
  BY DEF Shape, TypeOK, Statuses
<1>2. [counter EXCEPT ![batch[b].post] = AtLeastZero(@ + batch[b].delta)] \in [Posts -> Nat]
  <2>1. \A p \in Posts : AtLeastZero(counter[p] + batch[b].delta) \in Nat
    BY <1>1 DEF AtLeastZero
  <2>2. \A p, n : (p \in Posts => n \in Nat) => [counter EXCEPT ![p] = n] \in [Posts -> Nat]
    BY <1>1
  <2>3. QED
    BY <2>1, <2>2
<1>3. [row EXCEPT ![b] = "success"] \in [BatchIds -> Statuses]
  BY <1>1 DEF Statuses
<1>4. [booked EXCEPT ![b] = @ + 1] \in [BatchIds -> Nat]
  BY <1>1
<1>5. QED
  BY <1>2, <1>3, <1>4 DEF CommitBatch

\* The types that the batch and reconcile ticks rely on.
LEMMA WorkTyped ==
  ASSUME Shape
  PROVE  /\ row \in [BatchIds -> Statuses]
         /\ rowId \in [BatchIds -> Nat]
         /\ booked \in [BatchIds -> Nat]
         /\ counter \in [Posts -> Nat]
         /\ procSum \in [Posts -> Int]
         /\ retired \in [Posts -> Int]
         /\ sched \subseteq Posts
         /\ processing \subseteq BatchIds
         /\ task \in [Workers -> Task]
         /\ faults \in Nat
         /\ (faults + 1) \in Nat
         /\ \A b \in BatchIds : row[b] # "none" \/ b \in processing => b < nextBatch
<1>1. faults \in Nat
  BY DEF Shape, TypeOK
<1>2. (faults + 1) \in Nat
  BY <1>1
<1>3. QED
  BY <1>2 DEF Shape, TypeOK, Statuses, BatchesCut

\* A task as a record of the Task set, and what it may hold.
LEMMA TaskTyped ==
  ASSUME Shape, NEW w \in Workers
  PROVE  /\ task[w].at \in Steps
         /\ task[w].b \in 0..MaxBatches
         /\ task[w].todo \in SUBSET BatchIds
         /\ task[w].post \in Posts \cup {NoPost}
         /\ task[w].n \in Nat
         /\ 0 \in 0..MaxBatches
         /\ \A b \in task[w].todo : b \in BatchIds /\ b < nextBatch
         /\ task[w].at \in {"insert", "mark", "clear"} =>
              /\ task[w].b \in BatchIds
              /\ task[w].b < nextBatch
              /\ task[w].b \in 1..(nextBatch - 1)
<1>1. task[w] \in Task /\ nextBatch \in 1..(MaxBatches + 1) /\ MaxBatches \in Nat
  BY CounterAssumption DEF Shape, TypeOK
<1>2. /\ task[w].at \in Steps
      /\ task[w].b \in 0..MaxBatches
      /\ task[w].todo \in SUBSET BatchIds
      /\ task[w].post \in Posts \cup {NoPost}
      /\ task[w].n \in Nat
  BY <1>1 DEF Task, Steps
<1>3. /\ \A b \in task[w].todo : b < nextBatch
      /\ task[w].at \in {"insert", "mark", "clear"} => task[w].b \in 1..(nextBatch - 1)
  BY DEF Shape, TasksCut
<1>4. \A b \in 1..(nextBatch - 1) : b \in BatchIds /\ b < nextBatch
  BY <1>1 DEF BatchIds
<1>5. QED
  BY <1>1, <1>2, <1>3, <1>4
\* Steps of the ticks that only move a worker on.
LEMMA MoveShape ==
  ASSUME Shape, NEW w \in Workers, NEW b, NEW p \in Posts \cup {NoPost},
         \/ StartBatchTick(w) \/ RecoverAborts(w, b) \/ StartApply(w) \/ EndBatchTick(w)
         \/ CheckReconcile(w, p) \/ CountFacts(w)
  PROVE  Shape'
<1> DEFINE Frame == UNCHANGED <<redisVars, batchVars, dbVars, factVars, lookup, notices,
                                tallies, faults>>
<1>1. ASSUME NEW t \in Task, task' = [task EXCEPT ![w] = t], Frame,
             t.at \notin {"insert", "mark", "clear"}, \A c \in t.todo : c < nextBatch
      PROVE  Shape'
  <2>1. task' \in [Workers -> Task] /\ TasksCut'
    BY <1>1, TaskMoves DEF batchVars
  <2>2. QED
    BY <1>1, <2>1, WorkTyped, WorkShape DEF redisVars, batchVars, dbVars, factVars
<1>2. task[w].post \in Posts \cup {NoPost} /\ 0 \in 0..MaxBatches
  BY TaskTyped
<1>3. processing \in SUBSET BatchIds /\ \A c \in processing : c < nextBatch
  BY WorkTyped
<1>4. DueBatches \in SUBSET BatchIds /\ \A c \in DueBatches : c < nextBatch
  BY WorkTyped DEF DueBatches
<1>5. {} \in SUBSET BatchIds
  OBVIOUS
<1> HIDE DEF Frame
<1>6. CASE StartBatchTick(w)
  <2>1. Frame /\ task' = [task EXCEPT ![w] = Doing("recover", 0, processing)]
    BY <1>6 DEF StartBatchTick, Frame
  <2>2. /\ Doing("recover", 0, processing) \in Task
        /\ Doing("recover", 0, processing).at = "recover"
        /\ Doing("recover", 0, processing).todo = processing
    BY <1>2, <1>3, DoingIsTask DEF Steps
  <2>3. QED
    BY <2>1, <2>2, <1>1, <1>3
<1>7. CASE RecoverAborts(w, b)
  <2>1. Frame /\ task' = [task EXCEPT ![w] = Doing("recover", 0, {})]
    BY <1>7 DEF RecoverAborts, Frame
  <2>2. /\ Doing("recover", 0, {}) \in Task
        /\ Doing("recover", 0, {}).at = "recover"
        /\ Doing("recover", 0, {}).todo = {}
    BY <1>2, <1>5, DoingIsTask DEF Steps
  <2>3. QED
    BY <2>1, <2>2, <1>1
<1>8. CASE StartApply(w)
  <2>1. Frame /\ \/ task' = [task EXCEPT ![w] = IdleTask]
                  \/ task' = [task EXCEPT ![w] = Doing("apply", 0, DueBatches)]
    BY <1>8 DEF StartApply, Frame
  <2>2. CASE task' = [task EXCEPT ![w] = IdleTask]
    BY <2>1, <2>2, <1>1, IdleIsTask
  <2>3. CASE task' = [task EXCEPT ![w] = Doing("apply", 0, DueBatches)]
    <3>1. /\ Doing("apply", 0, DueBatches) \in Task
          /\ Doing("apply", 0, DueBatches).at = "apply"
          /\ Doing("apply", 0, DueBatches).todo = DueBatches
      BY <1>2, <1>4, DoingIsTask DEF Steps
    <3>2. QED
      BY <2>1, <2>3, <3>1, <1>1, <1>4
  <2>4. QED
    BY <2>1, <2>2, <2>3
<1>9. CASE EndBatchTick(w)
  <2>1. Frame /\ task' = [task EXCEPT ![w] = IdleTask]
    BY <1>9 DEF EndBatchTick, Frame
  <2>2. QED
    BY <2>1, <1>1, IdleIsTask
<1>10. CASE CheckReconcile(w, p)
  <2>1. Frame /\ task' = [task EXCEPT ![w] = Counting("count", p, 0)]
    BY <1>10 DEF CheckReconcile, Frame
  <2>2. /\ Counting("count", p, 0) \in Task
        /\ Counting("count", p, 0).at = "count"
        /\ Counting("count", p, 0).todo = {}
    BY CountingIsTask DEF Steps
  <2>3. QED
    BY <2>1, <2>2, <1>1
<1>11. CASE CountFacts(w)
  <2>1. Frame /\ task' = [task EXCEPT ![w] =
                            Counting("overwrite", task[w].post, FactCount(task[w].post))]
    BY <1>11 DEF CountFacts, Frame
  <2>2. FactCount(task[w].post) \in Nat
    BY CountsAreNat DEF FactCount, Shape, TypeOK
  <2> DEFINE d == Counting("overwrite", task[w].post, FactCount(task[w].post))
  <2>3. d \in Task /\ d.at = "overwrite" /\ d.todo = {}
    <3>1. "overwrite" \in Steps
      BY DEF Steps
    <3>2. QED
      BY <2>2, <3>1, <1>2, CountingIsTask
  <2> HIDE DEF d
  <2>4. QED
    BY <2>1, <2>3, <1>1 DEF d
<1>12. QED
  BY <1>6, <1>7, <1>8, <1>9, <1>10, <1>11
\* Steps of the ticks that change a batch, a row, or the count.
LEMMA ChangeShape ==
  ASSUME Shape, NEW w \in Workers, NEW b,
         \/ InsertBatch(w) \/ InsertBatchFails(w) \/ RecoverBatch(w, b)
         \/ ApplyBatch(w) \/ ApplyRollsBack(w) \/ ApplyReplyLost(w)
         \/ MarkFailed(w) \/ ClearBatch(w)
  PROVE  Shape'
<1> DEFINE NewTask(t) == /\ task' = [task EXCEPT ![w] = t]
                         /\ UNCHANGED <<factVars, notices, batchVars, lookup, accepted, lowest>>
<1>1. ASSUME NEW t \in Task, NewTask(t),
             t.at \in {"insert", "mark", "clear"} => t.b \in 1..(nextBatch - 1),
             \A c \in t.todo : c < nextBatch
      PROVE  task' \in [Workers -> Task] /\ TasksCut' /\ nextBatch' = nextBatch
  BY <1>1, TaskMoves DEF batchVars
<1>2. ASSUME NEW c \in BatchIds, NEW step \in Steps, c \in task[w].todo,
             NewTask(Doing(step, c, task[w].todo \ {c}))
      PROVE  task' \in [Workers -> Task] /\ TasksCut' /\ nextBatch' = nextBatch
  <2> DEFINE t == Doing(step, c, task[w].todo \ {c})
  <2>1. /\ c \in 0..MaxBatches /\ (task[w].todo \ {c}) \in SUBSET BatchIds
        /\ \A e \in task[w].todo \ {c} : e < nextBatch
        /\ c \in 1..(nextBatch - 1)
    <3>1. /\ c < nextBatch
          /\ task[w].todo \in SUBSET BatchIds
          /\ \A e \in task[w].todo : e < nextBatch
      BY <1>2, TaskTyped
    <3>2. nextBatch \in 1..(MaxBatches + 1) /\ MaxBatches \in Nat /\ c \in 1..MaxBatches
      BY CounterAssumption DEF BatchIds, Shape, TypeOK
    <3>3. c \in 0..MaxBatches /\ c \in 1..(nextBatch - 1)
      BY <3>1, <3>2
    <3>4. QED
      BY <3>1, <3>3
  <2>2. t \in Task /\ t.b = c /\ t.todo = task[w].todo \ {c}
    BY <2>1, DoingIsTask
  <2> HIDE DEF t, NewTask
  <2>3. NewTask(t)
    BY <1>2 DEF t
  <2>4. QED
    BY <2>1, <2>2, <2>3, <1>1
<1>3. ASSUME NewTask(IdleTask)
      PROVE  task' \in [Workers -> Task] /\ TasksCut' /\ nextBatch' = nextBatch
  <2> HIDE DEF NewTask
  <2>1. QED
    BY <1>1, <1>3, IdleIsTask
<1>4. ASSUME NewTask(Doing("apply", 0, task[w].todo))
      PROVE  task' \in [Workers -> Task] /\ TasksCut' /\ nextBatch' = nextBatch
  <2> DEFINE t == Doing("apply", 0, task[w].todo)
  <2>1. t \in Task /\ t.at = "apply" /\ t.todo = task[w].todo
    BY TaskTyped, DoingIsTask DEF Steps
  <2>2. \A c \in task[w].todo : c < nextBatch
    BY TaskTyped
  <2> HIDE DEF t, NewTask
  <2>3. NewTask(t)
    BY <1>4 DEF t
  <2>4. QED
    BY <2>1, <2>2, <2>3, <1>1
<1>5. ASSUME NEW c \in BatchIds, NewTask(Doing(task[w].at, task[w].b, task[w].todo \ {c}))
      PROVE  task' \in [Workers -> Task] /\ TasksCut' /\ nextBatch' = nextBatch
  <2> DEFINE t == Doing(task[w].at, task[w].b, task[w].todo \ {c})
  <2>1. (task[w].todo \ {c}) \in SUBSET BatchIds /\ \A e \in task[w].todo \ {c} : e < nextBatch
    BY TaskTyped
  <2>2. t \in Task /\ t.at = task[w].at /\ t.b = task[w].b /\ t.todo = task[w].todo \ {c}
    BY <2>1, TaskTyped, DoingIsTask
  <2>3. t.at \in {"insert", "mark", "clear"} => t.b \in 1..(nextBatch - 1)
    BY <2>2, TaskTyped
  <2> HIDE DEF t, NewTask
  <2>4. NewTask(t)
    BY <1>5 DEF t
  <2>5. QED
    BY <2>1, <2>2, <2>3, <2>4, <1>1
<1> DEFINE Good == task' \in [Workers -> Task] /\ TasksCut' /\ nextBatch' = nextBatch
<1>6. ASSUME Good, UNCHANGED <<pending, fields, dirty, stamped, batch, notices, lookup, factVars,
                               accepted, lowest>>,
             row' \in [BatchIds -> Statuses], rowId' \in [BatchIds -> Nat],
             booked' \in [BatchIds -> Nat], counter' \in [Posts -> Nat],
             procSum' \in [Posts -> Int], retired' \in [Posts -> Int],
             sched' \subseteq Posts, processing' \subseteq processing, faults' \in Nat,
             \A c \in BatchIds : c < nextBatch \/ (row'[c] = row[c] /\ booked'[c] = booked[c])
      PROVE  Shape'
  BY <1>6, WorkShape DEF factVars
<1> HIDE DEF NewTask, Good
<1>7. CASE InsertBatch(w)
  <2>1. task[w].b \in BatchIds /\ task[w].b < nextBatch
    BY <1>7, TaskTyped DEF InsertBatch
  <2>2. NewTask(IdleTask) /\ InsertRow(task[w].b)
    BY <1>7 DEF InsertBatch, NewTask
  <2>3. Good
    BY <2>2, <1>3 DEF Good
  <2>4. /\ row' \in [BatchIds -> Statuses]
        /\ rowId' \in [BatchIds -> Nat]
        /\ \A c \in BatchIds : c < nextBatch \/ row'[c] = row[c]
    BY <2>1, <2>2, InsertRowTyped
  <2>5. QED
    BY <1>7, <1>6, <2>3, <2>4, WorkTyped DEF InsertBatch, redisVars, batchVars
<1>8. CASE InsertBatchFails(w)
  <2>1. task[w].b \in BatchIds /\ task[w].b < nextBatch
    BY <1>8, TaskTyped DEF InsertBatchFails
  <2>2. batch[task[w].b].post \in Posts
    BY <2>1 DEF Shape, BatchesCut
  <2>3. NewTask(IdleTask)
    BY <1>8 DEF InsertBatchFails, NewTask
  <2>4. Good
    BY <2>3, <1>3 DEF Good
  <2>5. sched' \subseteq Posts /\ faults' \in Nat
    BY <1>8, <2>2, WorkTyped DEF InsertBatchFails, Fault
  <2>6. QED
    BY <1>8, <1>6, <2>4, <2>5, WorkTyped DEF InsertBatchFails, batchVars, dbVars
<1>9. CASE RecoverBatch(w, b)
  <2>1. b \in BatchIds /\ b < nextBatch
    BY <1>9, TaskTyped DEF RecoverBatch
  <2>2. NewTask(Doing(task[w].at, task[w].b, task[w].todo \ {b}))
    BY <1>9 DEF RecoverBatch, NewTask, Finished
  <2>3. Good
    BY <2>1, <2>2, <1>5 DEF Good
  <2>4. /\ row' \in [BatchIds -> Statuses]
        /\ rowId' \in [BatchIds -> Nat]
        /\ \A c \in BatchIds : c < nextBatch \/ row'[c] = row[c]
    <3>1. CASE InsertRow(b)
      BY <2>1, <3>1, InsertRowTyped
    <3>2. CASE UNCHANGED <<row, rowId>>
      BY <3>2, WorkTyped
    <3>3. QED
      BY <1>9, <3>1, <3>2 DEF RecoverBatch
  <2>5. /\ procSum' \in [Posts -> Int]
        /\ retired' \in [Posts -> Int]
        /\ processing' \subseteq processing
        /\ UNCHANGED <<pending, fields, dirty, stamped, sched>>
    <3>1. CASE Clear(b)
      BY <2>1, <3>1, ClearTyped
    <3>2. CASE UNCHANGED <<redisVars, retired>>
      BY <3>2, WorkTyped DEF redisVars
    <3>3. QED
      BY <1>9, <3>1, <3>2 DEF RecoverBatch
  <2>6. QED
    BY <1>9, <1>6, <2>3, <2>4, <2>5, WorkTyped DEF RecoverBatch, batchVars
<1>10. CASE ApplyBatch(w) \/ ApplyReplyLost(w)
  <2>1. PICK c \in task[w].todo :
          \/ CommitBatch(c) /\ (GoTo(w, c, "clear") \/ GoTo(w, c, "mark"))
          \/ Finished(w, c) /\ UNCHANGED dbVars
    BY <1>10 DEF ApplyBatch, ApplyReplyLost, FirstOf
  <2>2. c \in BatchIds /\ c < nextBatch
    BY <2>1, TaskTyped
  <2>3. faults' \in Nat /\ UNCHANGED <<redisVars, batchVars, factVars, lookup, notices,
                                        tallies>>
    BY <1>10, WorkTyped DEF ApplyBatch, ApplyReplyLost, Fault
  <2>4. CASE CommitBatch(c) /\ (GoTo(w, c, "clear") \/ GoTo(w, c, "mark"))
    <3>1. NewTask(Doing("clear", c, task[w].todo \ {c}))
            \/ NewTask(Doing("mark", c, task[w].todo \ {c}))
      BY <2>3, <2>4 DEF GoTo, NewTask
    <3>2. Good
      BY <2>1, <2>2, <3>1, <1>2 DEF Good, Steps
    <3>3. /\ row' \in [BatchIds -> Statuses]
          /\ rowId' = rowId
          /\ booked' \in [BatchIds -> Nat]
          /\ counter' \in [Posts -> Nat]
      BY <2>2, <2>4, CommitTyped
    <3>4. \A e \in BatchIds : e = c \/ (row'[e] = row[e] /\ booked'[e] = booked[e])
      BY <2>2, <2>4, CommitTyped, WorkTyped
    <3>5. QED
      BY <1>6, <2>2, <2>3, <3>2, <3>3, <3>4, WorkTyped DEF redisVars, batchVars
  <2>5. CASE Finished(w, c) /\ UNCHANGED dbVars
    <3>1. NewTask(Doing(task[w].at, task[w].b, task[w].todo \ {c}))
      BY <2>3, <2>5 DEF Finished, NewTask
    <3>2. Good
      BY <2>2, <3>1, <1>5 DEF Good
    <3>3. QED
      BY <1>6, <2>3, <2>5, <3>2, WorkTyped DEF redisVars, batchVars, dbVars
  <2>6. QED
    BY <2>1, <2>4, <2>5
<1>11. CASE ApplyRollsBack(w)
  <2>1. PICK c \in task[w].todo : GoTo(w, c, "mark")
    BY <1>11 DEF ApplyRollsBack, FirstOf
  <2>2. c \in BatchIds /\ c < nextBatch
    BY <2>1, TaskTyped
  <2>3. NewTask(Doing("mark", c, task[w].todo \ {c}))
    BY <1>11, <2>1 DEF ApplyRollsBack, GoTo, NewTask
  <2>4. Good
    BY <2>1, <2>2, <2>3, <1>2 DEF Good, Steps
  <2>5. faults' \in Nat
    BY <1>11, WorkTyped DEF ApplyRollsBack, Fault
  <2>6. QED
    BY <1>11, <1>6, <2>4, <2>5, WorkTyped DEF ApplyRollsBack, redisVars, batchVars, dbVars
<1>12. CASE MarkFailed(w)
  <2>1. task[w].b \in BatchIds /\ task[w].b < nextBatch
    BY <1>12, TaskTyped DEF MarkFailed
  <2>2. NewTask(Doing("apply", 0, task[w].todo))
    BY <1>12 DEF MarkFailed, Continue, NewTask
  <2>3. Good
    BY <2>2, <1>4 DEF Good
  <2>4. /\ row' \in [BatchIds -> Statuses]
        /\ \A c \in BatchIds : c < nextBatch \/ row'[c] = row[c]
    <3>1. row' = [row EXCEPT ![task[w].b] = "backoff"] \/ row' = row
      BY <1>12 DEF MarkFailed
    <3>2. row \in [BatchIds -> Statuses]
      BY WorkTyped
    <3>3. QED
      BY <2>1, <3>1, <3>2 DEF Statuses
  <2>5. faults' \in Nat
    BY <1>12, WorkTyped DEF MarkFailed, Fault
  <2>6. QED
    BY <1>12, <1>6, <2>3, <2>4, <2>5, WorkTyped DEF MarkFailed, redisVars, batchVars
<1>13. CASE ClearBatch(w)
  <2>1. task[w].b \in BatchIds
    BY <1>13, TaskTyped DEF ClearBatch
  <2>2. NewTask(Doing("apply", 0, task[w].todo))
    BY <1>13 DEF ClearBatch, Continue, NewTask
  <2>3. Good
    BY <2>2, <1>4 DEF Good
  <2>4. /\ procSum' \in [Posts -> Int]
        /\ retired' \in [Posts -> Int]
        /\ processing' \subseteq processing
        /\ UNCHANGED <<pending, fields, dirty, stamped, sched>>
    <3>1. CASE Clear(task[w].b)
      BY <2>1, <3>1, ClearTyped
    <3>2. CASE UNCHANGED <<redisVars, retired>>
      BY <3>2, WorkTyped DEF redisVars
    <3>3. QED
      BY <1>13, <3>1, <3>2 DEF ClearBatch
  <2>5. faults' \in Nat
    BY <1>13, WorkTyped DEF ClearBatch, Fault
  <2>6. QED
    BY <1>13, <1>6, <2>3, <2>4, <2>5, WorkTyped DEF ClearBatch, batchVars, dbVars
<1>14. QED
  BY <1>7, <1>8, <1>9, <1>10, <1>11, <1>12, <1>13

\* The backoff timer.
LEMMA BackoffShape ==
  ASSUME Shape, NEW b \in BatchIds, BackoffElapses(b)
  PROVE  Shape'
<1>1. row' \in [BatchIds -> Statuses] /\ b < nextBatch
  BY WorkTyped DEF BackoffElapses, Statuses
<1>2. \A c \in BatchIds : c # b => row'[c] = row[c]
  BY WorkTyped DEF BackoffElapses
<1>3. TasksCut' /\ task' \in [Workers -> Task]
  BY DEF BackoffElapses, Shape, TypeOK, TasksCut, taskVars, batchVars
<1>4. QED
  BY <1>1, <1>2, <1>3, WorkTyped, WorkShape
     DEF BackoffElapses, redisVars, batchVars, factVars, taskVars

\* The reconcile overwrite, and a crash.
LEMMA OtherShape ==
  ASSUME Shape, NEW w \in Workers, Overwrite(w) \/ Crash(w)
  PROVE  Shape'
<1>1. ASSUME task' = [task EXCEPT ![w] = IdleTask], nextBatch' = nextBatch
      PROVE  task' \in [Workers -> Task] /\ TasksCut'
  BY <1>1, TaskMoves, IdleIsTask
<1>2. CASE Overwrite(w)
  <2>1. [counter EXCEPT ![task[w].post] = task[w].n] \in [Posts -> Nat]
    BY WorkTyped, TaskTyped
  <2>2. task' \in [Workers -> Task] /\ TasksCut'
    BY <1>1, <1>2 DEF Overwrite, batchVars
  <2>3. QED
    BY <1>2, <2>1, <2>2, WorkTyped, WorkShape DEF Overwrite, redisVars, batchVars, factVars
<1>3. CASE Crash(w)
  <2>1. task' \in [Workers -> Task] /\ TasksCut'
    BY <1>1, <1>3 DEF Crash, batchVars
  <2>2. lookup' \in [Workers -> [Callers -> [post : Posts \cup {NoPost}, seen : BOOLEAN]]]
    BY <1>3 DEF Crash, NoLookup, Shape, TypeOK
  <2>3. TypeOK'
    BY <1>3, <2>1, <2>2
       DEF Crash, Fault, Shape, TypeOK, redisVars, batchVars, dbVars, factVars
  <2>4. BatchesCut'
    BY <1>3 DEF Crash, Shape, BatchesCut, redisVars, batchVars, dbVars
  <2>5. QED
    BY <2>1, <2>3, <2>4 DEF Shape
<1>4. QED
  BY <1>2, <1>3
LEMMA NextShape ==
  ASSUME Shape, [Next]_vars
  PROVE  Shape'
<1>1. ASSUME WriteStep
      PROVE  Shape'
  BY <1>1, WriteShape
<1>2. ASSUME NEW w \in Workers, NEW p \in Posts,
             ConsumeNotice(w, p) \/ FallbackPick(w, p)
      PROVE  Shape'
  BY <1>2, ScheduleShape DEF Callers
<1>3. ASSUME NEW w \in Workers, NEW c \in Callers, FinishSchedule(w, c)
      PROVE  Shape'
  BY <1>3, ScheduleShape
<1>4. ASSUME NEW w \in Workers, NEW p \in Posts, Claim(w, p) \/ ClaimEmpty(w, p)
      PROVE  Shape'
  BY <1>4, ClaimShape
<1>5. ASSUME NEW w \in Workers, NEW p \in Posts, CheckReconcile(w, p)
      PROVE  Shape'
  BY <1>5, MoveShape
<1>6. ASSUME NEW w \in Workers, TaskStep(w)
      PROVE  Shape'
  BY <1>6, ChangeShape, MoveShape, OtherShape DEF TaskStep
<1>7. ASSUME NEW w \in Workers, StartBatchTick(w) \/ Crash(w)
      PROVE  Shape'
  BY <1>7, MoveShape, OtherShape
<1>8. ASSUME NEW b \in BatchIds, BackoffElapses(b)
      PROVE  Shape'
  BY <1>8, BackoffShape
<1>9. CASE UNCHANGED vars
  BY <1>9 DEF Shape, TypeOK, BatchesCut, TasksCut, vars
<1>10. QED
  BY <1>1, <1>2, <1>3, <1>4, <1>5, <1>6, <1>7, <1>8, <1>9 DEF Next, WriteStep

THEOREM ShapeAlways == Spec => []Shape
<1>1. QED
  BY InitShape, NextShape, PTL DEF Spec

\* Every variable keeps to its type, whatever fails and however many workers run.
THEOREM TypeCorrect == Spec => []TypeOK
<1>1. Shape => TypeOK
  BY DEF Shape
<1>2. QED
  BY <1>1, ShapeAlways, PTL

----------------------------------------------------------------------------
(* Redis: four steps move deltas or marks, whatever fails.                 *)

ClaimStep(p) ==
  /\ nextBatch <= MaxBatches
  /\ nextBatch' = nextBatch + 1
  /\ batch' = [batch EXCEPT ![nextBatch] = [post |-> p, delta |-> pending[p]]]
  /\ TakeDelta(p) /\ HoldBatch(p) /\ DropMarks(p)
  /\ UNCHANGED tallies

DropStep(p) ==
  /\ p \notin fields
  /\ DropMarks(p)
  /\ UNCHANGED <<accepted, pending, fields, processing, procSum, retired, batchVars>>

LEMMA RedisSteps ==
  ASSUME Shape, [Next]_vars
  PROVE  \/ UNCHANGED <<accepted, pending, processing, procSum, retired, fields, stamped,
                         batchVars>>
         \/ \E p \in Posts, d \in Int : RunEnqueueScript(p, d) /\ UNCHANGED <<retired, batchVars>>
         \/ \E p \in Posts : ClaimStep(p) \/ DropStep(p)
         \/ \E b \in BatchIds : Clear(b) /\ UNCHANGED <<accepted, batchVars>>
<1> DEFINE Still == UNCHANGED <<accepted, pending, processing, procSum, retired, fields, stamped,
                         batchVars>>
<1>1. ASSUME WriteStep
      PROVE  Still \/ \E p \in Posts, d \in Int : RunEnqueueScript(p, d) /\ UNCHANGED <<retired, batchVars>>
  <2>1. ASSUME NEW r \in Rows, CommitFact(r) PROVE Still
    BY <2>1 DEF CommitFact, redisVars
  <2>2. ASSUME NEW p \in Posts, NEW d \in Signs, RecordDelta(p, d)
        PROVE  Still \/ (d \in Int /\ RunEnqueueScript(p, d) /\ UNCHANGED <<retired, batchVars>>)
    BY <2>2, RecordIs DEF HandlerDone, redisVars
  <2>3. QED
    BY <1>1, <2>1, <2>2 DEF WriteStep
<1>2. ASSUME NEW w \in Workers, NEW p \in Posts, Claim(w, p) \/ ClaimEmpty(w, p)
      PROVE  ClaimStep(p) \/ DropStep(p)
  BY <1>2 DEF Claim, ClaimEmpty, ClaimStep, DropStep, HoldBatch
<1>3. ASSUME NEW w \in Workers, NEW p,
             ConsumeNotice(w, p) \/ FallbackPick(w, p) \/ CheckReconcile(w, p)
      PROVE  Still
  BY <1>3 DEF ConsumeNotice, FallbackPick, CheckReconcile, redisVars
<1>4. ASSUME NEW w \in Workers, NEW c \in Callers, FinishSchedule(w, c)
      PROVE  Still
  BY <1>4 DEF FinishSchedule
<1>5. ASSUME NEW w \in Workers, StartBatchTick(w) \/ Crash(w)
      PROVE  Still
  BY <1>5 DEF StartBatchTick, Crash, redisVars
<1>6. ASSUME NEW w \in Workers, TaskStep(w)
      PROVE  Still \/ \E b \in BatchIds : Clear(b) /\ UNCHANGED <<accepted, batchVars>>
  <2>1. CASE \/ InsertBatch(w) \/ InsertBatchFails(w) \/ StartApply(w) \/ EndBatchTick(w)
             \/ \E b \in BatchIds : RecoverAborts(w, b)
    BY <2>1 DEF InsertBatch, InsertBatchFails, StartApply, EndBatchTick, RecoverAborts, redisVars
  <2>2. CASE \/ ApplyBatch(w) \/ ApplyRollsBack(w) \/ ApplyReplyLost(w) \/ MarkFailed(w)
             \/ CountFacts(w) \/ Overwrite(w)
    BY <2>2 DEF ApplyBatch, ApplyRollsBack, ApplyReplyLost, MarkFailed, CountFacts, Overwrite,
                redisVars
  <2>3. CASE \E b \in BatchIds : RecoverBatch(w, b)
    BY <2>3 DEF RecoverBatch, redisVars
  <2>4. CASE ClearBatch(w)
    <3>1. task[w].b \in BatchIds
      BY <2>4, TaskTyped DEF ClearBatch
    <3>2. QED
      BY <2>4, <3>1 DEF ClearBatch, redisVars
  <2>5. QED
    BY <1>6, <2>1, <2>2, <2>3, <2>4 DEF TaskStep
<1>7. ASSUME NEW b \in BatchIds, BackoffElapses(b)
      PROVE  Still
  BY <1>7 DEF BackoffElapses, redisVars
<1>8. CASE UNCHANGED vars
  BY <1>8 DEF vars, batchVars
<1> HIDE DEF Still
<1>9. QED
  BY <1>1, <1>2, <1>3, <1>4, <1>5, <1>6, <1>7, <1>8 DEF Next, WriteStep, Still

LEMMA RedisConservesStep ==
  ASSUME Shape, RedisConserves, [Next]_vars
  PROVE  RedisConserves'
<1>1. /\ accepted \in [Posts -> Int] /\ pending \in [Posts -> Int]
      /\ procSum \in [Posts -> Int] /\ retired \in [Posts -> Int]
      /\ \A b \in BatchIds : batch[b].delta \in Int
      /\ \A b \in processing : b \in BatchIds /\ batch[b].post \in Posts
  BY WorkTyped DEF Shape, TypeOK, BatchesCut
<1>2. CASE UNCHANGED <<accepted, pending, procSum, retired>>
  BY <1>2 DEF RedisConserves
<1>3. ASSUME NEW p \in Posts, NEW d \in Int, RunEnqueueScript(p, d), retired' = retired
      PROVE  RedisConserves'
  BY <1>1, <1>3 DEF RunEnqueueScript, RedisConserves
<1>4. ASSUME NEW p \in Posts, ClaimStep(p)
      PROVE  RedisConserves'
  BY <1>1, <1>4 DEF ClaimStep, TakeDelta, HoldBatch, RedisConserves
<1>5. ASSUME NEW p \in Posts, DropStep(p)
      PROVE  RedisConserves'
  BY <1>5 DEF DropStep, RedisConserves
<1>6. ASSUME NEW b \in BatchIds, Clear(b), accepted' = accepted
      PROVE  RedisConserves'
  <2>1. CASE b \in processing
    BY <1>1, <1>6, <2>1 DEF Clear, RedisConserves
  <2>2. CASE b \notin processing
    BY <1>6, <2>2 DEF Clear, redisVars, RedisConserves
  <2>3. QED
    BY <2>1, <2>2
<1>7. QED
  BY <1>2, <1>3, <1>4, <1>5, <1>6, RedisSteps

\* Every delta Redis took is pending, processing, or cleared, and in one of them only:
\* for any number of workers, and whatever fails.
THEOREM RedisConservesAlways == Spec => []RedisConserves
<1>1. Init => RedisConserves
  BY DEF Init, RedisConserves
<1>2. QED
  BY <1>1, RedisConservesStep, ShapeAlways, PTL DEF Spec

LEMMA StampedStep ==
  ASSUME Shape, StampedIffPending, [Next]_vars
  PROVE  StampedIffPending'
BY RedisSteps DEF StampedIffPending, RunEnqueueScript, ClaimStep, DropStep, TakeDelta, DropMarks,
                  Clear, redisVars

\* A post has a dirty_at score exactly when it has a pending delta, so the marks the
\* scheduler and the claim script drop never belong to a delta that is still pending.
THEOREM StampedIffPendingAlways == Spec => []StampedIffPending
<1>1. Init => StampedIffPending
  BY DEF Init, StampedIffPending
<1>2. QED
  BY <1>1, StampedStep, ShapeAlways, PTL DEF Spec
----------------------------------------------------------------------------
(* Sums over batches.                                                      *)

Deltas == [b \in BatchIds |-> batch[b].delta]

\* The processing batches of p.
Held == [p \in Posts |-> {b \in processing : batch[b].post = p}]

LEMMA DeltasTyped ==
  ASSUME Shape
  PROVE  /\ \A b \in BatchIds : Deltas[b] = batch[b].delta /\ Deltas[b] \in Int
         /\ \A S \in SUBSET BatchIds : IsFiniteSet(S) /\ DeltaSum(S) \in Int
         /\ nextBatch \in Int /\ \A b \in BatchIds : b \in Int
<1>1. \A b \in BatchIds : Deltas[b] = batch[b].delta /\ Deltas[b] \in Int
  BY DEF Deltas, Shape, TypeOK
<1>2. \A S \in SUBSET BatchIds : IsFiniteSet(S)
  <2>1. IsFiniteSet(BatchIds)
    BY FS_Interval, CounterAssumption DEF BatchIds
  <2>2. QED
    BY <2>1, FS_Subset
<1>3. ASSUME NEW S \in SUBSET BatchIds PROVE DeltaSum(S) \in Int
  <2>1. SumFunctionOnSet(Deltas, S) \in Int
    BY <1>1, <1>2, SumIsInt
  <2>2. QED
    BY <2>1 DEF DeltaSum, Deltas
<1>4. nextBatch \in Int /\ \A b \in BatchIds : b \in Int
  BY CounterAssumption DEF Shape, TypeOK, BatchIds
<1>5. QED
  BY <1>1, <1>2, <1>3, <1>4

\* A claim sets the post and delta of batch nextBatch, and of no other.
LEMMA ClaimCuts ==
  ASSUME Shape, NEW p \in Posts, ClaimStep(p)
  PROVE  /\ nextBatch \in BatchIds
         /\ Deltas'[nextBatch] = pending[p] /\ pending[p] \in Int
         /\ batch'[nextBatch].post = p
         /\ \A b \in BatchIds \ {nextBatch} : batch'[b] = batch[b] /\ Deltas'[b] = Deltas[b]
         /\ nextBatch \notin processing /\ row[nextBatch] = "none"
<1>1. nextBatch \in BatchIds
  BY CounterAssumption DEF ClaimStep, Shape, TypeOK, BatchIds
<1>2. ~(nextBatch < nextBatch)
  BY DeltasTyped
<1>3. QED
  BY <1>1, <1>2 DEF ClaimStep, Shape, TypeOK, BatchesCut, Deltas

LEMMA ProcessingSumStep ==
  ASSUME Shape, Shape', ProcessingSumExact, [Next]_vars
  PROVE  ProcessingSumExact'
<1>1. /\ procSum \in [Posts -> Int] /\ processing \subseteq BatchIds
      /\ \A p \in Posts : Held[p] \in SUBSET BatchIds /\ IsFiniteSet(Held[p])
      /\ \A p \in Posts : procSum[p] = SumFunctionOnSet(Deltas, Held[p])
  <2>1. \A p \in Posts : Held[p] \in SUBSET BatchIds
    BY WorkTyped DEF Held
  <2>2. QED
    BY <2>1, WorkTyped, DeltasTyped DEF ProcessingSumExact, Held, DeltaSum, Deltas
<1>2. SUFFICES \A p \in Posts : procSum'[p] = SumFunctionOnSet(Deltas', Held'[p])
  BY DEF ProcessingSumExact, Held, DeltaSum, Deltas
<1>3. CASE UNCHANGED <<processing, procSum, batchVars>>
  BY <1>1, <1>3 DEF Deltas, Held, batchVars
<1>4. ASSUME NEW p \in Posts, ClaimStep(p)
      PROVE  \A q \in Posts : procSum'[q] = SumFunctionOnSet(Deltas', Held'[q])
  <2>1. /\ processing' = processing \cup {nextBatch}
        /\ procSum' = [procSum EXCEPT ![p] = @ + pending[p]]
    BY <1>4 DEF ClaimStep, HoldBatch
  <2>2. ASSUME NEW q \in Posts
        PROVE  SumFunctionOnSet(Deltas', Held[q]) = procSum[q]
    <3>1. \A b \in Held[q] : Deltas[b] = Deltas'[b]
      BY <1>1, <1>4, ClaimCuts DEF Held
    <3>2. SumFunctionOnSet(Deltas, Held[q]) = SumFunctionOnSet(Deltas', Held[q])
      BY <3>1, <1>1, SumsSame
    <3>3. QED
      BY <3>2, <1>1
  <2>3. Held'[p] = Held[p] \cup {nextBatch} /\ nextBatch \notin Held[p]
    BY <1>1, <1>4, <2>1, ClaimCuts DEF Held
  <2>4. \A b \in Held[p] \cup {nextBatch} : Deltas'[b] \in Int
    BY <1>1, <1>4, ClaimCuts, DeltasTyped
  <2>5. SumFunctionOnSet(Deltas', Held'[p]) = SumFunctionOnSet(Deltas', Held[p]) + Deltas'[nextBatch]
    <3>1. SumFunctionOnSet(Deltas', Held[p] \cup {nextBatch})
            = SumFunctionOnSet(Deltas', Held[p]) + Deltas'[nextBatch]
      <4>1. IsFiniteSet(Held[p]) /\ nextBatch \notin Held[p]
        BY <1>1, <2>3
      <4>2. QED
        BY <4>1, <2>4, SumAdds
    <3>2. QED
      BY <2>3, <3>1
  <2>6. \A q \in Posts \ {p} : Held'[q] = Held[q]
    BY <1>1, <1>4, <2>1, ClaimCuts DEF Held
  <2>7. QED
    BY <1>1, <1>4, <2>1, <2>2, <2>5, <2>6, ClaimCuts
<1>5. ASSUME NEW c \in BatchIds, Clear(c), UNCHANGED batchVars
      PROVE  \A q \in Posts : procSum'[q] = SumFunctionOnSet(Deltas', Held'[q])
  <2>1. CASE c \notin processing
    BY <1>3, <1>5, <2>1, <1>2 DEF Clear, redisVars, ProcessingSumExact, Held, DeltaSum, Deltas
  <2>2. CASE c \in processing
    <3> DEFINE p == batch[c].post
    <3>1. p \in Posts
      BY <2>2, WorkTyped DEF Shape, BatchesCut
    <3>2. /\ processing' = processing \ {c}
          /\ procSum' = [procSum EXCEPT ![p] = @ - batch[c].delta]
          /\ Deltas' = Deltas /\ batch' = batch
      BY <1>5, <2>2 DEF Clear, batchVars, Deltas
    <3>3. Held'[p] = Held[p] \ {c} /\ c \in Held[p]
      BY <2>2, <3>1, <3>2 DEF Held
    <3>4. \A q \in Posts \ {p} : Held'[q] = Held[q]
      BY <3>2 DEF Held
    <3>5. SumFunctionOnSet(Deltas, Held[p] \ {c}) = SumFunctionOnSet(Deltas, Held[p]) - Deltas[c]
      <4>1. IsFiniteSet(Held[p]) /\ \A b \in Held[p] : Deltas[b] \in Int
        BY <1>1, <3>1, DeltasTyped
      <4> HIDE DEF p
      <4>2. QED
        BY <3>3, <4>1, SumLoses
    <3>6. Deltas[c] = batch[c].delta /\ Deltas[c] \in Int
      BY DeltasTyped
    <3> HIDE DEF p
    <3>7. procSum'[p] = SumFunctionOnSet(Deltas', Held'[p])
      BY <1>1, <3>1, <3>2, <3>3, <3>5, <3>6
    <3>8. ASSUME NEW q \in Posts, q # p
          PROVE  procSum'[q] = SumFunctionOnSet(Deltas', Held'[q])
      BY <1>1, <3>1, <3>2, <3>4, <3>8
    <3>9. QED
      BY <3>7, <3>8
  <2>3. QED
    BY <2>1, <2>2
<1>6. QED
  BY <1>3, <1>4, <1>5, RedisSteps DEF RunEnqueueScript, DropStep

\* processing_sum, which detail reads add to the stored count, is at every moment the
\* sum of the batches in processing_batch: whatever fails, and for any number of workers.
THEOREM ProcessingSumAlways == Spec => []ProcessingSumExact
<1>1. Init => ProcessingSumExact
  <2>1. SUFFICES ASSUME Init PROVE ProcessingSumExact
    OBVIOUS
  <2>2. \A p \in Posts : procSum[p] = 0 /\ Held[p] = {}
    BY <2>1 DEF Init, Held
  <2>3. \A p \in Posts : SumFunctionOnSet(Deltas, Held[p]) = 0
    BY <2>2, SumOfNone
  <2>4. QED
    BY <2>2, <2>3 DEF ProcessingSumExact, Held, DeltaSum, Deltas
<1>2. QED
  BY <1>1, ProcessingSumStep, NextShape, ShapeAlways, PTL DEF Spec

----------------------------------------------------------------------------
(* MySQL: what one worker books, when no COMMIT loses its reply.           *)

\* While a scan applies, what is left of it is due, and the batch in hand is booked
\* exactly when it is about to be cleared.
Careful(w) ==
  /\ task[w].at \in {"apply", "mark", "clear"} => \A c \in task[w].todo : row[c] = "due"
  /\ task[w].at = "mark" => row[task[w].b] = "due" /\ task[w].b \notin task[w].todo
  /\ task[w].at = "clear" => row[task[w].b] = "success" /\ task[w].b \notin task[w].todo

Booking ==
  /\ BookedExactlyOnce
  /\ \A b \in BatchIds : b < nextBatch /\ b \notin processing => row[b] = "success"
  /\ \A w \in Workers : Careful(w)

\* No batch is touched, and a worker at most leaves what it was doing.
LEMMA RestingBooking ==
  ASSUME Booking, UNCHANGED <<row, booked, processing, nextBatch>>,
         \A w \in Workers : task'[w] = task[w] \/ task'[w].at \notin {"apply", "mark", "clear"}
  PROVE  Booking'
BY DEF Booking, BookedExactlyOnce, Careful

\* With one worker, a step that changes rows is judged by that worker's task alone.
LEMMA OneWorkerBooking ==
  ASSUME Booking, NEW w \in Workers, \A v \in Workers : v = w,
         BookedExactlyOnce', Careful(w)',
         \A b \in BatchIds : b < nextBatch' /\ b \notin processing' => row'[b] = "success"
  PROVE  Booking'
BY DEF Booking

LEMMA InsertBooking ==
  ASSUME Shape, Booking, NEW b \in BatchIds, InsertRow(b) \/ UNCHANGED <<row, rowId>>,
         booked' = booked
  PROVE  /\ BookedExactlyOnce'
         /\ \A c \in BatchIds : row[c] # "none" => row'[c] = row[c]
BY WorkTyped DEF Booking, BookedExactlyOnce, InsertRow

LEMMA ClearBooking ==
  ASSUME Shape, Booking, NEW b \in BatchIds, Clear(b) \/ UNCHANGED <<redisVars, retired>>,
         row[b] = "success", nextBatch' = nextBatch
  PROVE  \A c \in BatchIds : c < nextBatch' /\ c \notin processing' => row[c] = "success"
BY DEF Booking, Clear, redisVars

LEMMA CommitBooking ==
  ASSUME Shape, Booking, NEW b \in BatchIds, row[b] = "due", CommitBatch(b)
  PROVE  /\ BookedExactlyOnce'
         /\ row'[b] = "success"
         /\ \A c \in BatchIds : c # b => row'[c] = row[c]
<1>1. /\ row' = [row EXCEPT ![b] = "success"]
      /\ booked' = [booked EXCEPT ![b] = @ + 1]
  BY CommitTyped
<1>2. booked[b] = 0
  BY DEF Booking, BookedExactlyOnce
<1>3. QED
  BY <1>1, <1>2, WorkTyped DEF Booking, BookedExactlyOnce

LEMMA NextBooking ==
  ASSUME Shape, Booking, [Next]_vars,
         "reply" \notin Faults \/ faults' = 0, \A v, w \in Workers : v = w
  PROVE  Booking'
<1>1. task \in [Workers -> Task]
  BY WorkTyped
<1>2. ASSUME NEW w \in Workers, NEW t, task' = [task EXCEPT ![w] = t],
             t.at \notin {"apply", "mark", "clear"}, UNCHANGED <<row, booked, processing, nextBatch>>
      PROVE  Booking'
  BY <1>1, <1>2, RestingBooking
<1>3. ASSUME WriteStep
      PROVE  Booking'
  <2>1. UNCHANGED <<row, booked, processing, nextBatch, task>>
    BY <1>3, RecordIs DEF WriteStep, CommitFact, HandlerDone, RunEnqueueScript, redisVars,
                          batchVars, dbVars, taskVars
  <2>2. QED
    BY <2>1, RestingBooking
<1>4. ASSUME NEW w \in Workers, NEW p, NEW c,
             \/ ConsumeNotice(w, p) \/ FallbackPick(w, p) \/ FinishSchedule(w, c)
             \/ ClaimEmpty(w, p)
      PROVE  Booking'
  <2>1. UNCHANGED <<row, booked, processing, nextBatch, task>>
    BY <1>4 DEF ConsumeNotice, FallbackPick, FinishSchedule, ClaimEmpty, redisVars, batchVars,
                dbVars, taskVars
  <2>2. QED
    BY <2>1, RestingBooking
<1>5. ASSUME NEW w \in Workers, NEW p \in Posts, Claim(w, p)
      PROVE  Booking'
  <2>1. /\ UNCHANGED <<row, booked>>
        /\ processing' = processing \cup {nextBatch}
        /\ nextBatch' = nextBatch + 1
        /\ task' = task \/ task' = [task EXCEPT ![w] = Doing("insert", nextBatch, {})]
    BY <1>5 DEF Claim, HoldBatch, dbVars
  <2>2. nextBatch \in Int /\ \A b \in BatchIds : b \in Int
    BY CounterAssumption DEF Shape, TypeOK, BatchIds
  <2>3. \A b \in BatchIds : b < nextBatch' /\ b \notin processing' => row'[b] = "success"
    BY <2>1, <2>2 DEF Booking
  <2>4. Doing("insert", nextBatch, {}).at = "insert"
    BY DEF Doing
  <2>5. \A v \in Workers : Careful(v)'
    BY <1>1, <2>1, <2>4 DEF Booking, Careful
  <2>6. QED
    BY <2>1, <2>3, <2>5 DEF Booking, BookedExactlyOnce
<1>6. ASSUME NEW w \in Workers, NEW b, NEW p,
             \/ StartBatchTick(w) \/ RecoverAborts(w, b) \/ EndBatchTick(w)
             \/ CheckReconcile(w, p) \/ CountFacts(w) \/ Overwrite(w)
             \/ InsertBatchFails(w) \/ Crash(w)
      PROVE  Booking'
  <2>1. \/ \E todo : task' = [task EXCEPT ![w] = Doing("recover", 0, todo)]
        \/ task' = [task EXCEPT ![w] = IdleTask]
        \/ \E q : task' = [task EXCEPT ![w] = Counting("count", q, 0)]
        \/ \E q, n : task' = [task EXCEPT ![w] = Counting("overwrite", q, n)]
    BY <1>6 DEF StartBatchTick, RecoverAborts, EndBatchTick, CheckReconcile, CountFacts,
                Overwrite, InsertBatchFails, Crash
  <2>2. /\ \A todo : Doing("recover", 0, todo).at = "recover"
        /\ IdleTask.at = "idle"
        /\ \A q : Counting("count", q, 0).at = "count"
        /\ \A q, n : Counting("overwrite", q, n).at = "overwrite"
    BY DEF Doing, Counting, IdleTask
  <2>3. UNCHANGED <<row, booked, processing, nextBatch>>
    BY <1>6 DEF StartBatchTick, RecoverAborts, EndBatchTick, CheckReconcile, CountFacts,
                Overwrite, InsertBatchFails, Crash, redisVars, batchVars, dbVars
  <2>4. QED
    BY <2>1, <2>2, <2>3, <1>2
<1>7. ASSUME NEW w \in Workers, StartApply(w)
      PROVE  Booking'
  <2>1. UNCHANGED <<row, booked, processing, nextBatch>>
    BY <1>7 DEF StartApply, redisVars, batchVars, dbVars
  <2>2. CASE task' = [task EXCEPT ![w] = IdleTask]
    BY <2>1, <2>2, <1>2, IdleIsTask
  <2>3. CASE task' = [task EXCEPT ![w] = Doing("apply", 0, DueBatches)]
    <3>1. task'[w].at = "apply" /\ \A c \in task'[w].todo : row[c] = "due"
      BY <1>1, <2>3 DEF Doing, DueBatches
    <3>2. Careful(w)'
      BY <2>1, <3>1 DEF Careful
    <3>3. QED
      BY <2>1, <3>2, OneWorkerBooking DEF Booking, BookedExactlyOnce
  <2>4. QED
    BY <1>7, <2>2, <2>3 DEF StartApply
<1>8. ASSUME NEW b \in BatchIds, BackoffElapses(b)
      PROVE  Booking'
  <2>1. /\ row[b] = "backoff" /\ row' = [row EXCEPT ![b] = "due"]
        /\ UNCHANGED <<booked, processing, nextBatch, task>>
    BY <1>8 DEF BackoffElapses, redisVars, batchVars, taskVars
  <2>2. \A w \in Workers : Careful(w)'
    BY <2>1, TaskTyped, WorkTyped DEF Booking, Careful
  <2>3. QED
    BY <2>1, <2>2, WorkTyped DEF Booking, BookedExactlyOnce
<1>9. CASE UNCHANGED vars
  BY <1>9, RestingBooking DEF vars
<1>10. ASSUME NEW w \in Workers, InsertBatch(w)
       PROVE  Booking'
  <2>1. /\ task[w].b \in BatchIds
        /\ InsertRow(task[w].b)
        /\ UNCHANGED <<booked, processing, nextBatch>>
        /\ task' = [task EXCEPT ![w] = IdleTask]
    BY <1>10, TaskTyped DEF InsertBatch, redisVars, batchVars
  <2>2. /\ BookedExactlyOnce'
        /\ \A c \in BatchIds : row[c] # "none" => row'[c] = row[c]
    BY <2>1, InsertBooking
  <2>3. Careful(w)'
    BY <1>1, <2>1, IdleIsTask DEF Careful
  <2>4. QED
    BY <2>1, <2>2, <2>3, OneWorkerBooking DEF Booking
<1>11. ASSUME NEW w \in Workers, NEW b, RecoverBatch(w, b)
       PROVE  Booking'
  <2>1. /\ b \in BatchIds
        /\ InsertRow(b) \/ UNCHANGED <<row, rowId>>
        /\ UNCHANGED <<booked, nextBatch>>
        /\ task[w].at = "recover"
        /\ task' = [task EXCEPT ![w] = Doing(task[w].at, task[w].b, task[w].todo \ {b})]
        /\ IF row[b] = "success" THEN Clear(b) ELSE UNCHANGED <<redisVars, retired>>
    BY <1>11, TaskTyped DEF RecoverBatch, Finished, batchVars
  <2>2. /\ BookedExactlyOnce'
        /\ \A c \in BatchIds : row[c] # "none" => row'[c] = row[c]
    BY <2>1, InsertBooking
  <2>3. \A c \in BatchIds : c < nextBatch' /\ c \notin processing' => row[c] = "success"
    <3>1. CASE row[b] = "success"
      BY <2>1, <3>1, ClearBooking
    <3>2. CASE row[b] # "success"
      BY <2>1, <3>2 DEF Booking, redisVars
    <3>3. QED
      BY <3>1, <3>2
  <2>4. task'[w].at = "recover"
    BY <1>1, <2>1 DEF Doing
  <2>5. QED
    BY <2>2, <2>3, <2>4, OneWorkerBooking DEF Careful
<1>12. ASSUME NEW w \in Workers, ApplyBatch(w)
       PROVE  Booking'
  <2>1. PICK b \in task[w].todo :
          IF row[b] = "due" THEN CommitBatch(b) /\ GoTo(w, b, "clear")
                            ELSE Finished(w, b) /\ UNCHANGED dbVars
    BY <1>12 DEF ApplyBatch, FirstOf
  <2>2. b \in BatchIds /\ row[b] = "due"
    BY <1>12, TaskTyped DEF ApplyBatch, Booking, Careful
  <2>3. /\ BookedExactlyOnce'
        /\ row'[b] = "success"
        /\ \A c \in BatchIds : c # b => row'[c] = row[c]
    BY <2>1, <2>2, CommitBooking
  <2>4. UNCHANGED <<processing, nextBatch>>
    BY <1>12 DEF ApplyBatch, redisVars, batchVars
  <2>5. task'[w] = Doing("clear", b, task[w].todo \ {b})
    BY <1>1, <2>1, <2>2 DEF GoTo
  <2>6. task'[w].at = "clear" /\ task'[w].b = b /\ task'[w].todo = task[w].todo \ {b}
    BY <2>5 DEF Doing
  <2>7. \A c \in task[w].todo : c \in BatchIds /\ row[c] = "due"
    BY <1>12, TaskTyped DEF ApplyBatch, Booking, Careful
  <2>8. Careful(w)'
    BY <2>3, <2>6, <2>7 DEF Careful
  <2>9. QED
    BY <2>3, <2>4, <2>8, OneWorkerBooking DEF Booking
<1>13. ASSUME NEW w \in Workers, ApplyRollsBack(w)
       PROVE  Booking'
  <2>1. PICK b \in task[w].todo : GoTo(w, b, "mark")
    BY <1>13 DEF ApplyRollsBack, FirstOf
  <2>2. \A c \in task[w].todo : row[c] = "due"
    BY <1>13 DEF ApplyRollsBack, Booking, Careful
  <2>3. UNCHANGED <<row, booked, processing, nextBatch>>
    BY <1>13 DEF ApplyRollsBack, redisVars, batchVars, dbVars
  <2>4. task'[w].at = "mark" /\ task'[w].b = b /\ task'[w].todo = task[w].todo \ {b}
    BY <1>1, <2>1 DEF GoTo, Doing
  <2>5. Careful(w)'
    BY <2>1, <2>2, <2>3, <2>4 DEF Careful
  <2>6. QED
    BY <2>3, <2>5, OneWorkerBooking DEF Booking, BookedExactlyOnce
<1>14. ASSUME NEW w \in Workers, ApplyReplyLost(w)
       PROVE  FALSE
  BY <1>14, WorkTyped DEF ApplyReplyLost, Fault
<1>15. ASSUME NEW w \in Workers, MarkFailed(w)
       PROVE  Booking'
  <2>1. /\ task[w].b \in BatchIds
        /\ row[task[w].b] = "due" /\ task[w].b \notin task[w].todo
        /\ \A c \in task[w].todo : c \in BatchIds /\ row[c] = "due"
    BY <1>15, TaskTyped DEF MarkFailed, Booking, Careful
  <2>2. /\ row' = [row EXCEPT ![task[w].b] = "backoff"] \/ row' = row
        /\ UNCHANGED <<booked, processing, nextBatch>>
        /\ task' = [task EXCEPT ![w] = Doing("apply", 0, task[w].todo)]
    BY <1>15 DEF MarkFailed, Continue, redisVars, batchVars
  <2>3. /\ \A c \in BatchIds : c # task[w].b => row'[c] = row[c]
        /\ row'[task[w].b] # "success"
    BY <2>1, <2>2, WorkTyped
  <2>4. task'[w].at = "apply" /\ task'[w].todo = task[w].todo
    BY <1>1, <2>2 DEF Doing
  <2>5. Careful(w)'
    BY <2>1, <2>3, <2>4 DEF Careful
  <2>6. BookedExactlyOnce'
    BY <2>1, <2>2, <2>3 DEF Booking, BookedExactlyOnce
  <2>7. QED
    BY <2>1, <2>2, <2>3, <2>5, <2>6, OneWorkerBooking DEF Booking
<1>16. ASSUME NEW w \in Workers, ClearBatch(w)
       PROVE  Booking'
  <2>1. /\ task[w].b \in BatchIds
        /\ row[task[w].b] = "success"
        /\ \A c \in task[w].todo : row[c] = "due"
    BY <1>16, TaskTyped DEF ClearBatch, Booking, Careful
  <2>2. /\ Clear(task[w].b) \/ UNCHANGED <<redisVars, retired>>
        /\ UNCHANGED <<row, booked, nextBatch>>
        /\ task' = [task EXCEPT ![w] = Doing("apply", 0, task[w].todo)]
    BY <1>16 DEF ClearBatch, Continue, dbVars, batchVars
  <2>3. \A c \in BatchIds : c < nextBatch' /\ c \notin processing' => row[c] = "success"
    BY <2>1, <2>2, ClearBooking
  <2>4. task'[w].at = "apply" /\ task'[w].todo = task[w].todo
    BY <1>1, <2>2 DEF Doing
  <2>5. Careful(w)'
    BY <2>1, <2>2, <2>4 DEF Careful
  <2>6. QED
    BY <2>2, <2>3, <2>5, OneWorkerBooking DEF Booking, BookedExactlyOnce
<1>17. ASSUME NEW w \in Workers, TaskStep(w)
       PROVE  Booking'
  BY <1>6, <1>7, <1>10, <1>11, <1>12, <1>13, <1>14, <1>15, <1>16, <1>17 DEF TaskStep
<1>18. QED
  BY <1>3, <1>4, <1>5, <1>6, <1>8, <1>9, <1>17 DEF Next, WriteStep

LEMMA InitBooking ==
  ASSUME Init
  PROVE  Booking
<1>1. /\ BookedExactlyOnce
      /\ \A b \in BatchIds : ~(b < nextBatch)
      /\ \A w \in Workers : task[w].at = "idle"
  BY IdleIsTask, CounterAssumption DEF Init, BookedExactlyOnce, BatchIds
<1>2. QED
  BY <1>1 DEF Booking, Careful

LEMMA BookingAlways ==
  ASSUME "reply" \notin Faults, \A v, w \in Workers : v = w
  PROVE  Spec => []Booking
<1>1. Shape /\ Booking /\ [Next]_vars => Booking'
  BY NextBooking
<1>2. QED
  BY <1>1, InitBooking, ShapeAlways, PTL DEF Spec

\* A batch is in post_counter once if its row is 'success', and not at all if it is not,
\* through rollbacks, failed marks, retries, and crashes: as long as one process runs
\* and no COMMIT loses its reply (TLC finds it violated if either is given up).
THEOREM BookedOnce ==
  ASSUME "reply" \notin Faults, \A v, w \in Workers : v = w
  PROVE  Spec => []BookedExactlyOnce
<1>1. Booking => BookedExactlyOnce
  BY DEF Booking
<1>2. QED
  BY <1>1, BookingAlways, PTL

\* Under the same assumptions no claimed delta is lost: what Redis has let go of is booked.
THEOREM NothingLost ==
  ASSUME "reply" \notin Faults, \A v, w \in Workers : v = w
  PROVE  Spec => []RetiredOnlyWhenBooked
<1>1. Shape /\ Booking => RetiredOnlyWhenBooked
  <2>1. ASSUME Shape
        PROVE  \A b \in 1..(nextBatch - 1) : b \in BatchIds /\ b < nextBatch
    BY <2>1, CounterAssumption DEF Shape, TypeOK, BatchIds
  <2>2. QED
    BY <2>1 DEF Booking, BookedExactlyOnce, RetiredOnlyWhenBooked
<1>2. QED
  BY <1>1, BookingAlways, ShapeAlways, PTL

----------------------------------------------------------------------------
(* The ledger: with one worker, no lost COMMIT reply and no reconciliation,  *)
(* a delta is owed until it is settled, and settled once.                    *)

NotCounting == \A w \in Workers : task[w].at \notin {"count", "overwrite"}

\* No delta, pending or in a batch, is larger than the number of writes.
Bounded ==
  /\ writes <= MaxWrites
  /\ \A p \in Posts : LET n == owing[p][1] + owing[p][-1] IN
                       pending[p] + n <= writes /\ n - pending[p] <= writes
  /\ \A b \in BatchIds : batch[b].delta \in (-MaxWrites)..MaxWrites
  /\ \A b \in BatchIds : b >= nextBatch => batch[b].post = NoPost

\* The write path, and the steps of comment-task that move a delta.
LEMMA PipelineSteps ==
  ASSUME Shape, Booking, NotCounting, [Next]_vars,
         ReconcileOn = FALSE, "reply" \notin Faults \/ faults' = 0
  PROVE  \/ WriteStep
         \/ /\ UNCHANGED <<factVars, accepted, lowest, pending, counter, batchVars>>
            /\ \A b \in BatchIds : row'[b] = "success" <=> row[b] = "success"
         \/ \E p \in Posts : ClaimStep(p) /\ UNCHANGED <<factVars, counter, row>>
         \/ \E b \in BatchIds :
              /\ \E w \in Workers : task[w].at = "apply" /\ b \in FirstOf(task[w].todo)
              /\ row[b] = "due" /\ CommitBatch(b)
              /\ UNCHANGED <<factVars, accepted, lowest, pending, batchVars>>
<1> DEFINE Same == UNCHANGED <<factVars, accepted, lowest, pending, counter, batchVars>>
           Still == Same /\ \A b \in BatchIds : row'[b] = "success" <=> row[b] = "success"
           Claims == \E p \in Posts : ClaimStep(p) /\ UNCHANGED <<factVars, counter, row>>
           Commits == \E b \in BatchIds :
              /\ \E w \in Workers : task[w].at = "apply" /\ b \in FirstOf(task[w].todo)
              /\ row[b] = "due" /\ CommitBatch(b)
              /\ UNCHANGED <<factVars, accepted, lowest, pending, batchVars>>
<1>1. ASSUME NEW w \in Workers, NEW p, NEW c, NEW b,
             \/ ConsumeNotice(w, p) \/ FallbackPick(w, p) \/ FinishSchedule(w, c)
             \/ ClaimEmpty(w, p) \/ CheckReconcile(w, p) \/ StartBatchTick(w) \/ Crash(w)
             \/ InsertBatchFails(w) \/ RecoverAborts(w, b) \/ StartApply(w)
             \/ ApplyRollsBack(w) \/ EndBatchTick(w)
      PROVE  Same /\ row' = row
  BY <1>1 DEF ConsumeNotice, FallbackPick, FinishSchedule, ClaimEmpty, CheckReconcile,
              StartBatchTick, Crash, InsertBatchFails, RecoverAborts, StartApply,
              ApplyRollsBack, EndBatchTick, redisVars, batchVars, dbVars, factVars
<1>2. ASSUME NEW w \in Workers, NEW p \in Posts, Claim(w, p)
      PROVE  Claims
  BY <1>2 DEF Claim, ClaimStep, dbVars
<1>3. ASSUME NEW w \in Workers, NEW b, InsertBatch(w) \/ RecoverBatch(w, b)
      PROVE  Still
  <2>1. Same /\ (row' = row \/ \E c \in BatchIds : InsertRow(c))
    <3>1. CASE InsertBatch(w)
      BY <3>1, TaskTyped DEF InsertBatch, redisVars, factVars
    <3>2. CASE RecoverBatch(w, b)
      BY <3>2, TaskTyped DEF RecoverBatch, Clear, redisVars
    <3>3. QED
      BY <1>3, <3>1, <3>2
  <2>2. ASSUME NEW c \in BatchIds, InsertRow(c) PROVE Still
    BY <2>1, <2>2, WorkTyped DEF InsertRow
  <2>3. QED
    BY <2>1, <2>2
<1>4. ASSUME NEW w \in Workers, ApplyBatch(w)
      PROVE  Still \/ Commits
  <2>1. PICK b \in FirstOf(task[w].todo) :
          IF row[b] = "due" THEN CommitBatch(b) ELSE UNCHANGED dbVars
    BY <1>4 DEF ApplyBatch
  <2>2. b \in BatchIds /\ task[w].at = "apply"
    BY <1>4, TaskTyped DEF ApplyBatch, FirstOf
  <2>3. UNCHANGED <<factVars, accepted, lowest, pending, batchVars>>
    BY <1>4 DEF ApplyBatch, redisVars
  <2>4. QED
    BY <2>1, <2>2, <2>3 DEF dbVars
<1>5. ASSUME NEW w \in Workers, ApplyReplyLost(w)
      PROVE  FALSE
  BY <1>5, WorkTyped DEF ApplyReplyLost, Fault
<1>6. ASSUME NEW w \in Workers, MarkFailed(w)
      PROVE  Still
  <2>1. task[w].b \in BatchIds /\ row[task[w].b] = "due"
    BY <1>6, TaskTyped DEF MarkFailed, Booking, Careful
  <2>2. Same /\ (row' = [row EXCEPT ![task[w].b] = "backoff"] \/ row' = row)
    BY <1>6 DEF MarkFailed, redisVars, batchVars
  <2>3. QED
    BY <2>1, <2>2, WorkTyped
<1>7. ASSUME NEW w \in Workers, ClearBatch(w)
      PROVE  Same /\ row' = row
  BY <1>7 DEF ClearBatch, Clear, redisVars, batchVars, dbVars
<1>8. ASSUME NEW w \in Workers, CountFacts(w) \/ Overwrite(w)
      PROVE  FALSE
  BY <1>8 DEF CountFacts, Overwrite, NotCounting
<1>9. ASSUME NEW b \in BatchIds, BackoffElapses(b)
      PROVE  Still
  BY <1>9, WorkTyped DEF BackoffElapses, redisVars, batchVars, taskVars
<1>10. CASE UNCHANGED vars
  BY <1>10 DEF vars, batchVars, factVars
<1>11. ASSUME NEW w \in Workers, TaskStep(w)
       PROVE  Still \/ Commits
  BY <1>1, <1>3, <1>4, <1>5, <1>6, <1>7, <1>8, <1>11 DEF TaskStep
<1> HIDE DEF Same, Still, Claims, Commits
<1>12. QED
  BY <1>1, <1>2, <1>9, <1>10, <1>11 DEF Next, WriteStep, Still, Same, Claims, Commits

\* Without the reconcile ticker no worker counts facts.
LEMMA NotCountingStep ==
  ASSUME Shape, NotCounting, [Next]_vars, ReconcileOn = FALSE
  PROVE  NotCounting'
<1>1. task \in [Workers -> Task]
  BY WorkTyped
<1>2. ASSUME NEW w \in Workers, NEW t, task' = [task EXCEPT ![w] = t],
             t.at \notin {"count", "overwrite"}
      PROVE  NotCounting'
  BY <1>1, <1>2 DEF NotCounting
<1>3. ASSUME task' = task PROVE NotCounting'
  BY <1>3 DEF NotCounting
<1>4. /\ \A step, b, todo : Doing(step, b, todo).at = step
      /\ IdleTask.at = "idle"
  BY DEF Doing, IdleTask
<1>5. ASSUME NEW w \in Workers, NEW b, RecoverBatch(w, b) \/ RecoverAborts(w, b)
      PROVE  NotCounting'
  BY <1>2, <1>4, <1>5 DEF RecoverBatch, RecoverAborts, Finished
<1>6. ASSUME NEW w \in Workers,
             \/ StartBatchTick(w) \/ StartApply(w) \/ InsertBatch(w) \/ InsertBatchFails(w)
             \/ MarkFailed(w) \/ ClearBatch(w) \/ EndBatchTick(w) \/ Crash(w)
      PROVE  NotCounting'
  <2>1. \E step \in {"idle", "recover", "apply"} : \E b, todo :
           task' = [task EXCEPT ![w] = Doing(step, b, todo)]
    BY <1>6 DEF StartBatchTick, StartApply, InsertBatch, InsertBatchFails, MarkFailed,
                ClearBatch, EndBatchTick, Crash, Continue, IdleTask
  <2>2. QED
    BY <2>1, <1>2, <1>4
<1>7. ASSUME NEW w \in Workers, ApplyBatch(w) \/ ApplyRollsBack(w) \/ ApplyReplyLost(w)
      PROVE  NotCounting'
  <2>1. task[w].at = "apply"
    BY <1>7 DEF ApplyBatch, ApplyRollsBack, ApplyReplyLost
  <2>2. \E step \in {"apply", "mark", "clear"} : \E b, todo :
           task' = [task EXCEPT ![w] = Doing(step, b, todo)]
    BY <1>7, <2>1 DEF ApplyBatch, ApplyRollsBack, ApplyReplyLost, GoTo, Finished
  <2>3. QED
    BY <2>2, <1>2, <1>4
<1>8. ASSUME NEW w \in Workers, CountFacts(w) \/ Overwrite(w)
      PROVE  FALSE
  BY <1>8 DEF CountFacts, Overwrite, NotCounting
<1>9. ASSUME NEW w \in Workers, NEW p, Claim(w, p)
      PROVE  NotCounting'
  BY <1>2, <1>3, <1>4, <1>9 DEF Claim
<1>10. ASSUME NEW w \in Workers, NEW p, NEW c,
              \/ ConsumeNotice(w, p) \/ FallbackPick(w, p) \/ FinishSchedule(w, c)
              \/ ClaimEmpty(w, p)
       PROVE  NotCounting'
  BY <1>3, <1>10 DEF ConsumeNotice, FallbackPick, FinishSchedule, ClaimEmpty, taskVars
<1>11. ASSUME WriteStep
       PROVE  NotCounting'
  BY <1>3, <1>11, RecordIs DEF WriteStep, CommitFact, HandlerDone, taskVars
<1>12. ASSUME NEW b \in BatchIds, BackoffElapses(b)
       PROVE  NotCounting'
  BY <1>3, <1>12 DEF BackoffElapses, taskVars
<1>13. CASE UNCHANGED vars
  BY <1>3, <1>13 DEF vars
<1>14. \A w \in Workers : \A p : ~CheckReconcile(w, p)
  BY DEF CheckReconcile
<1>15. ASSUME NEW w \in Workers, TaskStep(w)
       PROVE  NotCounting'
  BY <1>5, <1>6, <1>7, <1>8, <1>15 DEF TaskStep
<1>16. QED
  BY <1>6, <1>9, <1>10, <1>11, <1>12, <1>13, <1>14, <1>15 DEF Next, WriteStep

LEMMA BoundedStep ==
  ASSUME Shape, Shape', Booking, NotCounting, Bounded, [Next]_vars,
         ReconcileOn = FALSE, "reply" \notin Faults \/ faults' = 0
  PROVE  Bounded'
<1>1. /\ writes \in Nat /\ MaxWrites \in Nat
      /\ pending \in [Posts -> Int] /\ owing \in [Posts -> [Signs -> Nat]]
      /\ -1 \in Signs /\ 1 \in Signs
      /\ \A p \in Posts : pending[p] \in Int /\ owing[p][1] \in Nat /\ owing[p][-1] \in Nat
  BY CounterAssumption DEF Shape, TypeOK, Signs
<1>2. ASSUME WriteStep
      PROVE  Bounded'
  <2>1. UNCHANGED batchVars
    BY <1>2, RecordIs DEF WriteStep, CommitFact, HandlerDone
  <2>2. ASSUME NEW r \in Rows, CommitFact(r)
        PROVE  Bounded'
    <3>1. PostOf[r] \in Posts /\ pending' = pending /\ writes' = writes + 1 /\ writes < MaxWrites
      BY <2>2, CounterAssumption DEF CommitFact, redisVars
    <3>2. \E d \in Signs : owing' = [owing EXCEPT ![PostOf[r]][d] = @ + 1]
      BY <2>2 DEF CommitFact, Signs
    <3>3. \A p \in Posts : /\ owing'[p][1] + owing'[p][-1] \in Nat
                           /\ owing'[p][1] + owing'[p][-1] <= owing[p][1] + owing[p][-1] + 1
      BY <1>1, <3>1, <3>2 DEF Signs
    <3>4. QED
      BY <1>1, <2>1, <3>1, <3>3 DEF Bounded, batchVars
  <2>3. ASSUME NEW p \in Posts, NEW d \in Signs, RecordDelta(p, d)
        PROVE  Bounded'
    <3>1. /\ owing[p][d] > 0 /\ owing' = [owing EXCEPT ![p][d] = @ - 1] /\ writes' = writes
          /\ pending' = pending \/ pending' = [pending EXCEPT ![p] = @ + d]
          /\ d \in {-1, 1}
      BY <2>3, RecordIs DEF HandlerDone, RunEnqueueScript, redisVars, Signs
    <3>2. \A q \in Posts : q # p => owing'[q] = owing[q] /\ pending'[q] = pending[q]
      BY <1>1, <3>1
    <3>3. /\ owing'[p][1] + owing'[p][-1] = owing[p][1] + owing[p][-1] - 1
          /\ pending'[p] \in {pending[p], pending[p] + d}
      BY <1>1, <3>1 DEF Signs
    <3>4. QED
      BY <1>1, <2>1, <3>1, <3>2, <3>3 DEF Bounded, batchVars
  <2>4. QED
    BY <1>2, <2>2, <2>3 DEF WriteStep
<1>3. ASSUME NEW p \in Posts, ClaimStep(p), UNCHANGED factVars
      PROVE  Bounded'
  <2>1. UNCHANGED <<writes, owing>>
    BY <1>3 DEF factVars
  <2>2. pending' = [pending EXCEPT ![p] = 0] /\ nextBatch' = nextBatch + 1
    BY <1>3 DEF ClaimStep, TakeDelta
  <2>3. pending[p] \in (-MaxWrites)..MaxWrites
    BY <1>1 DEF Bounded
  <2>4. \A q \in Posts : LET n == owing'[q][1] + owing'[q][-1] IN
                         pending'[q] + n <= writes' /\ n - pending'[q] <= writes'
    <3>1. \A q \in Posts : pending'[q] = pending[q] \/ pending'[q] = 0
      BY <1>1, <2>2
    <3>2. QED
      BY <1>1, <2>1, <3>1 DEF Bounded
  <2>5. \A b \in BatchIds : batch'[b].delta \in (-MaxWrites)..MaxWrites
    BY <1>3, <2>3, ClaimCuts, DeltasTyped DEF Bounded, Deltas
  <2>6. \A b \in BatchIds : b >= nextBatch' => batch'[b].post = NoPost
    BY <1>3, <2>2, ClaimCuts, DeltasTyped DEF Bounded
  <2>7. QED
    BY <2>1, <2>4, <2>5, <2>6 DEF Bounded
<1>4. ASSUME UNCHANGED <<factVars, pending, batchVars>>
      PROVE  Bounded'
  BY <1>4 DEF Bounded, factVars, batchVars
<1>5. QED
  BY <1>2, <1>3, <1>4, PipelineSteps

----------------------------------------------------------------------------
(* The pipeline implements the ledger.                                     *)

\* The batches of p that are not in its count.
Unsettled == [p \in Posts |-> {b \in BatchIds : batch[b].post = p /\ row[b] # "success"}]

OwedNow == [p \in Posts |-> Owed(p)]

\* What is owed to p is pending, or in a batch of p that is not booked.
OwedSums ==
  /\ \A p \in Posts :
       /\ Unsettled[p] \in SUBSET BatchIds /\ IsFiniteSet(Unsettled[p])
       /\ SumFunctionOnSet(Deltas, Unsettled[p]) \in Int
       /\ pending[p] \in Int
       /\ OwedNow[p] = pending[p] + SumFunctionOnSet(Deltas, Unsettled[p])
  /\ OwedNow \in [Posts -> Int]

LEMMA OwedIs == Shape => OwedSums
<1> SUFFICES ASSUME Shape PROVE OwedSums
  OBVIOUS
<1>1. ASSUME NEW p \in Posts
      PROVE  /\ Unsettled[p] \in SUBSET BatchIds /\ IsFiniteSet(Unsettled[p])
             /\ SumFunctionOnSet(Deltas, Unsettled[p]) \in Int
             /\ OwedNow[p] = pending[p] + SumFunctionOnSet(Deltas, Unsettled[p])
  <2>1. Unsettled[p] \in SUBSET BatchIds
    BY DEF Unsettled
  <2>2. IsFiniteSet(Unsettled[p]) /\ DeltaSum(Unsettled[p]) \in Int
    BY <2>1, DeltasTyped
  <2>3. DeltaSum(Unsettled[p]) = SumFunctionOnSet(Deltas, Unsettled[p])
    BY DEF DeltaSum, Deltas
  <2>4. OwedNow[p] = pending[p] + DeltaSum(Unsettled[p])
    BY DEF OwedNow, Owed, Unapplied, Unsettled
  <2>5. QED
    BY <2>1, <2>2, <2>3, <2>4
<1>2. pending \in [Posts -> Int]
  BY DEF Shape, TypeOK
<1>3. OwedNow = [p \in Posts |-> OwedNow[p]]
  BY DEF OwedNow
<1>4. QED
  BY <1>1, <1>2, <1>3 DEF OwedSums

LEMMA OwedIsNext == Shape' => OwedSums'
BY OwedIs, PTL

\* While batches and rows stay, what is owed moves with the pending deltas.
LEMMA OwedFollowsPending ==
  ASSUME Shape, Shape', UNCHANGED batchVars,
         \A b \in BatchIds : row'[b] = "success" <=> row[b] = "success"
  PROVE  \A p \in Posts : OwedNow'[p] = OwedNow[p] + (pending'[p] - pending[p])
<1>1. Deltas' = Deltas /\ Unsettled' = Unsettled
  BY DEF Deltas, Unsettled, batchVars
<1>2. \A p \in Posts : OwedNow'[p] = pending'[p] + SumFunctionOnSet(Deltas', Unsettled'[p])
  BY OwedIsNext DEF OwedSums
<1>3. pending' \in [Posts -> Int]
  BY DEF Shape, TypeOK
<1>4. QED
  BY <1>1, <1>2, <1>3, OwedIs DEF OwedSums

\* A claim moves a delta from pending to a batch, and nothing is owed more or less.
LEMMA ClaimKeepsOwed ==
  ASSUME Shape, Shape', Bounded, NEW p \in Posts, ClaimStep(p), row' = row
  PROVE  OwedNow' = OwedNow
<1>1. /\ nextBatch \in BatchIds
      /\ Deltas'[nextBatch] = pending[p] /\ pending[p] \in Int
      /\ \A b \in BatchIds \ {nextBatch} : batch'[b] = batch[b] /\ Deltas'[b] = Deltas[b]
      /\ batch'[nextBatch].post = p /\ row[nextBatch] = "none"
  BY ClaimCuts
<1>2. pending' = [pending EXCEPT ![p] = 0]
  BY DEF ClaimStep, TakeDelta
<1>3. batch[nextBatch].post \notin Posts
  BY <1>1, CounterAssumption, DeltasTyped DEF Bounded
<1>4. ASSUME NEW q \in Posts
      PROVE  /\ nextBatch \notin Unsettled[q]
             /\ SumFunctionOnSet(Deltas', Unsettled[q]) = SumFunctionOnSet(Deltas, Unsettled[q])
  <2>1. nextBatch \notin Unsettled[q]
    BY <1>3 DEF Unsettled
  <2>2. \A b \in Unsettled[q] : Deltas[b] = Deltas'[b]
    BY <1>1, <2>1, OwedIs DEF OwedSums
  <2>3. QED
    BY <2>1, <2>2, OwedIs, SumsSame DEF OwedSums
<1>5. Unsettled'[p] = Unsettled[p] \cup {nextBatch}
  BY <1>1 DEF Unsettled
<1>6. \A q \in Posts \ {p} : Unsettled'[q] = Unsettled[q]
  BY <1>1, <1>3 DEF Unsettled
<1>7. \A b \in Unsettled[p] \cup {nextBatch} : Deltas'[b] \in Int
  BY <1>1, DeltasTyped, OwedIs DEF OwedSums
<1>8. SumFunctionOnSet(Deltas', Unsettled[p] \cup {nextBatch})
        = SumFunctionOnSet(Deltas', Unsettled[p]) + Deltas'[nextBatch]
  <2>1. IsFiniteSet(Unsettled[p]) /\ nextBatch \notin Unsettled[p]
    BY <1>4, OwedIs DEF OwedSums
  <2>2. QED
    BY <2>1, <1>7, SumAdds
<1>9. \A q \in Posts :
        /\ OwedNow'[q] = pending'[q] + SumFunctionOnSet(Deltas', Unsettled'[q])
        /\ OwedNow[q] = pending[q] + SumFunctionOnSet(Deltas, Unsettled[q])
        /\ SumFunctionOnSet(Deltas, Unsettled[q]) \in Int
        /\ pending[q] \in Int
  BY OwedIs, OwedIsNext DEF OwedSums
<1>10. OwedNow'[p] = OwedNow[p]
  <2>1. SumFunctionOnSet(Deltas', Unsettled'[p])
          = SumFunctionOnSet(Deltas, Unsettled[p]) + pending[p]
    BY <1>1, <1>4, <1>5, <1>8
  <2>2. pending'[p] = 0
    BY <1>2 DEF Shape, TypeOK
  <2>3. QED
    BY <2>1, <2>2, <1>9
<1>11. ASSUME NEW q \in Posts, q # p PROVE OwedNow'[q] = OwedNow[q]
  BY <1>2, <1>4, <1>6, <1>9, <1>11, OwedIs DEF OwedSums
<1>12. OwedNow = [q \in Posts |-> OwedNow[q]] /\ OwedNow' = [q \in Posts |-> OwedNow'[q]]
  BY DEF OwedNow
<1>13. \A q \in Posts : OwedNow'[q] = OwedNow[q]
  BY <1>10, <1>11
<1>14. QED
  BY <1>12, <1>13

\* Booking a batch settles its delta.
LEMMA CommitSettles ==
  ASSUME Shape, Shape', NEW b \in BatchIds, row[b] = "due", CommitBatch(b),
         UNCHANGED <<pending, batchVars>>
  PROVE  /\ batch[b].post \in Posts /\ Deltas[b] \in Int /\ Deltas[b] = batch[b].delta
         /\ OwedNow' = [OwedNow EXCEPT ![batch[b].post] = @ - Deltas[b]]
         /\ counter' = [counter EXCEPT ![batch[b].post] = AtLeastZero(@ + Deltas[b])]
<1> DEFINE p == batch[b].post
<1>1. p \in Posts
  BY WorkTyped DEF Shape, BatchesCut
<1>2. /\ Deltas' = Deltas /\ batch' = batch /\ pending' = pending
      /\ Deltas[b] \in Int /\ Deltas[b] = batch[b].delta
  BY DeltasTyped DEF Deltas, batchVars
<1>3. row' = [row EXCEPT ![b] = "success"]
  BY DEF CommitBatch
<1>4. Unsettled'[p] = Unsettled[p] \ {b} /\ b \in Unsettled[p]
  BY <1>1, <1>2, <1>3, WorkTyped DEF Unsettled
<1>5. \A q \in Posts \ {p} : Unsettled'[q] = Unsettled[q]
  BY <1>2, <1>3, WorkTyped DEF Unsettled
<1> HIDE DEF p
<1>6. \A q \in Posts :
        /\ OwedNow'[q] = pending[q] + SumFunctionOnSet(Deltas, Unsettled'[q])
        /\ OwedNow[q] = pending[q] + SumFunctionOnSet(Deltas, Unsettled[q])
        /\ SumFunctionOnSet(Deltas, Unsettled[q]) \in Int
        /\ pending[q] \in Int
  BY <1>2, OwedIs, OwedIsNext DEF OwedSums
<1>7. SumFunctionOnSet(Deltas, Unsettled[p] \ {b})
        = SumFunctionOnSet(Deltas, Unsettled[p]) - Deltas[b]
  <2>1. IsFiniteSet(Unsettled[p]) /\ \A c \in Unsettled[p] : Deltas[c] \in Int
    BY <1>1, OwedIs, DeltasTyped DEF OwedSums
  <2>2. QED
    BY <1>4, <2>1, SumLoses
<1>8. OwedNow'[p] = OwedNow[p] - Deltas[b]
  <2>1. SumFunctionOnSet(Deltas, Unsettled'[p])
          = SumFunctionOnSet(Deltas, Unsettled[p]) - Deltas[b]
    BY <1>4, <1>7
  <2>2. QED
    BY <2>1, <1>1, <1>2, <1>6
<1>9. ASSUME NEW q \in Posts, q # p PROVE OwedNow'[q] = OwedNow[q]
  BY <1>5, <1>6, <1>9
<1>10. OwedNow = [q \in Posts |-> OwedNow[q]] /\ OwedNow' = [q \in Posts |-> OwedNow'[q]]
  BY DEF OwedNow
<1>11. OwedNow' = [OwedNow EXCEPT ![p] = @ - Deltas[b]]
  BY <1>1, <1>8, <1>9, <1>10
<1>12. counter' = [counter EXCEPT ![p] = AtLeastZero(@ + Deltas[b])]
  BY <1>2 DEF CommitBatch, p
<1>13. QED
  BY <1>1, <1>2, <1>11, <1>12 DEF p

\* What recording a delta does to the ledger's variables.
LEMMA RecordAccepts ==
  ASSUME Shape, Shape', NEW p \in Posts, NEW d \in Signs, RecordDelta(p, d)
  PROVE  \/ UNCHANGED <<accepted, OwedNow, counter>>
         \/ /\ \/ /\ accepted' = [accepted EXCEPT ![p] = @ + d]
                  /\ OwedNow' = [OwedNow EXCEPT ![p] = @ + d]
                  /\ accepted' # accepted
               \/ UNCHANGED <<accepted, OwedNow>>
            /\ \/ counter' = [counter EXCEPT ![p] = AtLeastZero(@ + d)]
               \/ counter' = counter /\ accepted' # accepted
<1>1. /\ d \in Int /\ d # 0 /\ UNCHANGED batchVars /\ row' = row
      /\ counter' \in {counter, [counter EXCEPT ![p] = AtLeastZero(@ + d)]}
      /\ \/ /\ pending' = [pending EXCEPT ![p] = @ + d]
            /\ accepted' = [accepted EXCEPT ![p] = @ + d]
         \/ UNCHANGED <<pending, accepted>>
  BY RecordIs DEF HandlerDone, RunEnqueueScript, redisVars
<1>2. \A q \in Posts : OwedNow'[q] = OwedNow[q] + (pending'[q] - pending[q])
  BY <1>1, OwedFollowsPending
<1>3. /\ OwedNow = [q \in Posts |-> OwedNow[q]] /\ OwedNow' = [q \in Posts |-> OwedNow'[q]]
      /\ \A q \in Posts : OwedNow[q] \in Int /\ pending[q] \in Int /\ accepted[q] \in Int
      /\ pending \in [Posts -> Int] /\ accepted \in [Posts -> Int]
  BY OwedIs DEF OwedNow, OwedSums, Shape, TypeOK
<1>4. CASE UNCHANGED <<pending, accepted>>
  <2>1. \A q \in Posts : OwedNow'[q] = OwedNow[q]
    BY <1>2, <1>3, <1>4
  <2>2. OwedNow' = OwedNow
    BY <2>1, <1>3
  <2>3. CASE counter' = counter
    BY <2>2, <2>3, <1>4
  <2>4. CASE counter' = [counter EXCEPT ![p] = AtLeastZero(@ + d)]
    BY <2>2, <2>4, <1>4
  <2>5. QED
    BY <2>3, <2>4, <1>1
<1>5. CASE /\ pending' = [pending EXCEPT ![p] = @ + d]
           /\ accepted' = [accepted EXCEPT ![p] = @ + d]
  <2>1. OwedNow'[p] = OwedNow[p] + d
    BY <1>1, <1>2, <1>3, <1>5
  <2>2. ASSUME NEW q \in Posts, q # p PROVE OwedNow'[q] = OwedNow[q]
    BY <1>2, <1>3, <1>5, <2>2
  <2>3. OwedNow' = [OwedNow EXCEPT ![p] = @ + d]
    BY <1>3, <2>1, <2>2
  <2>4. accepted'[p] # accepted[p]
    BY <1>1, <1>3, <1>5
  <2>5. QED
    BY <1>1, <1>5, <2>3, <2>4
<1>6. QED
  BY <1>1, <1>4, <1>5

LEMMA LedgerStep ==
  ASSUME Shape, Shape', Booking, NotCounting, Bounded, [Next]_vars,
         ReconcileOn = FALSE, "reply" \notin Faults
  PROVE  [Ledger!Next]_(Ledger!vars)
<1>1. accepted \in [Posts -> Int] /\ OwedNow \in [Posts -> Int] /\ counter \in [Posts -> Nat]
  BY OwedIs DEF OwedSums, Shape, TypeOK
<1>2. CASE UNCHANGED <<accepted, OwedNow, counter>>
  BY <1>2 DEF Ledger!vars, OwedNow
<1>3. ASSUME NEW p \in Posts, NEW e \in Signs, RecordDelta(p, e)
      PROVE  [Ledger!Next]_(Ledger!vars)
  <2>2. ASSUME NEW d \in {-1, 1},
               \/ /\ accepted' = [accepted EXCEPT ![p] = @ + d]
                  /\ OwedNow' = [OwedNow EXCEPT ![p] = @ + d]
               \/ UNCHANGED <<accepted, OwedNow>>,
               \/ counter' = [counter EXCEPT ![p] = AtLeastZero(@ + d)]
               \/ counter' = counter /\ accepted' # accepted
        PROVE  Ledger!Accept(p) \/ Ledger!PostDirectly(p)
    <3>1. CASE counter' = counter /\ accepted' # accepted
      BY <2>2, <3>1 DEF Ledger!Accept, OwedNow
    <3>2. CASE /\ counter' = [counter EXCEPT ![p] = AtLeastZero(@ + d)]
               /\ accepted' = [accepted EXCEPT ![p] = @ + d]
               /\ OwedNow' = [OwedNow EXCEPT ![p] = @ + d]
      <4>1. /\ accepted' = [accepted EXCEPT ![p] = @ + 1 * d]
            /\ OwedNow' = [OwedNow EXCEPT ![p] = @ + 1 * d]
        <5>1. 1 * d = d
          OBVIOUS
        <5>2. QED
          BY <3>2, <5>1
      <4>2. counter' = [counter EXCEPT ![p] = Ledger!AtLeastZero(@ + d)]
        BY <3>2 DEF Ledger!AtLeastZero, AtLeastZero
      <4>3. 1 \in {0, 1}
        OBVIOUS
      <4>4. QED
        BY <4>1, <4>2, <4>3 DEF Ledger!PostDirectly, OwedNow
    <3>3. CASE /\ counter' = [counter EXCEPT ![p] = AtLeastZero(@ + d)]
               /\ UNCHANGED <<accepted, OwedNow>>
      <4>1. /\ accepted' = [accepted EXCEPT ![p] = @ + 0 * d]
            /\ OwedNow' = [OwedNow EXCEPT ![p] = @ + 0 * d]
        BY <3>3, <1>1
      <4>2. counter' = [counter EXCEPT ![p] = Ledger!AtLeastZero(@ + d)]
        BY <3>3 DEF Ledger!AtLeastZero, AtLeastZero
      <4>3. 0 \in {0, 1}
        OBVIOUS
      <4>4. QED
        BY <4>1, <4>2, <4>3 DEF Ledger!PostDirectly, OwedNow
    <3>4. QED
      BY <2>2, <3>1, <3>2, <3>3
  <2>3. QED
    BY <1>2, <1>3, <2>2, RecordAccepts DEF Ledger!Next, Signs
<1>4. CASE /\ UNCHANGED <<accepted, pending, counter, batchVars>>
           /\ \A b \in BatchIds : row'[b] = "success" <=> row[b] = "success"
  <2>1. \A p \in Posts : OwedNow'[p] = OwedNow[p] + (pending'[p] - pending[p])
    BY <1>4, OwedFollowsPending
  <2>2. \A p \in Posts : OwedNow[p] \in Int /\ pending[p] \in Int /\ pending' = pending
    BY <1>4, OwedIs DEF OwedSums
  <2>3. \A p \in Posts : OwedNow'[p] = OwedNow[p]
    BY <2>1, <2>2
  <2>4. OwedNow = [p \in Posts |-> OwedNow[p]] /\ OwedNow' = [p \in Posts |-> OwedNow'[p]]
    BY DEF OwedNow
  <2>5. OwedNow' = OwedNow
    BY <2>3, <2>4
  <2>6. QED
    BY <1>2, <1>4, <2>5
<1>5. ASSUME NEW p \in Posts, ClaimStep(p), UNCHANGED <<factVars, counter, row>>
      PROVE  UNCHANGED <<accepted, OwedNow, counter>>
  BY <1>5, ClaimKeepsOwed DEF ClaimStep
<1>6. ASSUME NEW b \in BatchIds, row[b] = "due", CommitBatch(b),
             UNCHANGED <<accepted, pending, batchVars>>
      PROVE  \E p \in Posts : Ledger!Settle(p)
  <2> DEFINE p == batch[b].post
             d == Deltas[b]
  <2>1. /\ p \in Posts /\ d \in Int /\ d = batch[b].delta
        /\ OwedNow' = [OwedNow EXCEPT ![p] = @ - d]
        /\ counter' = [counter EXCEPT ![p] = AtLeastZero(@ + d)]
    BY <1>6, CommitSettles
  <2>2. d \in (-MaxWrites)..MaxWrites
    BY <2>1 DEF Bounded
  <2> HIDE DEF p, d
  <2>3. counter' = [counter EXCEPT ![p] = Ledger!AtLeastZero(@ + d)]
    BY <2>1 DEF Ledger!AtLeastZero, AtLeastZero
  <2>4. Ledger!Settle(p)
    BY <1>6, <2>1, <2>2, <2>3 DEF Ledger!Settle, OwedNow
  <2>5. QED
    BY <2>1, <2>4
<1>7. ASSUME NEW r \in Rows, CommitFact(r)
      PROVE  [Ledger!Next]_(Ledger!vars)
  BY <1>4, <1>7 DEF CommitFact, redisVars, dbVars
<1>8. QED
  BY <1>2, <1>3, <1>4, <1>5, <1>6, <1>7, PipelineSteps DEF Ledger!Next, WriteStep

LEMMA InitOwed ==
  ASSUME Init
  PROVE  Bounded /\ NotCounting /\ OwedNow = [p \in Posts |-> 0] /\ Shape
<1>1. Shape
  BY InitShape
<1>2. NotCounting
  BY IdleIsTask DEF Init, NotCounting
<1>3. Bounded
  <2>1. \A p \in Posts : owing[p][1] + owing[p][-1] = 0
    BY DEF Init, Signs
  <2>2. QED
    BY <2>1, CounterAssumption DEF Init, Bounded
<1>4. ASSUME NEW p \in Posts PROVE OwedNow[p] = 0
  <2>1. \A b \in Unsettled[p] : Deltas[b] = 0
    BY DEF Init, Unsettled, Deltas
  <2>2. SumFunctionOnSet(Deltas, Unsettled[p]) = 0
    BY <1>1, <2>1, OwedIs, SumOfZeros DEF OwedSums
  <2>3. QED
    BY <1>1, <2>2, OwedIs DEF OwedSums, Init
<1>5. OwedNow = [p \in Posts |-> 0]
  BY <1>4 DEF OwedNow
<1>6. QED
  BY <1>1, <1>2, <1>3, <1>5

LEMMA BoundedAlways ==
  ASSUME ReconcileOn = FALSE, "reply" \notin Faults, \A v, w \in Workers : v = w
  PROVE  Spec => [](Shape /\ Booking /\ NotCounting /\ Bounded)
<1>1. Init => NotCounting /\ Bounded
  BY InitOwed
<1>2. Shape /\ Shape' /\ Booking /\ NotCounting /\ Bounded /\ [Next]_vars
        => NotCounting' /\ Bounded'
  BY NotCountingStep, BoundedStep
<1>3. QED
  BY <1>1, <1>2, ShapeAlways, BookingAlways, PTL DEF Spec

\* The pipeline of Redis scripts, batches and retries implements the ledger: with one
\* comment-task process, no COMMIT that loses its reply, and reconciliation off, whatever
\* else fails, a delta Redis took is owed to the stored count until it enters it, once.
THEOREM PipelineImplementsLedger ==
  ASSUME ReconcileOn = FALSE, "reply" \notin Faults, \A v, w \in Workers : v = w
  PROVE  Spec => ImplementsLedger
<1>1. Init => Ledger!Init
  BY InitOwed DEF Init, Ledger!Init, OwedNow
<1>2. Shape /\ Shape' /\ Booking /\ NotCounting /\ Bounded /\ [Next]_vars
        => [Ledger!Next]_(Ledger!vars)
  BY LedgerStep
<1>3. QED
  BY <1>1, <1>2, BoundedAlways, PTL DEF Spec, ImplementsLedger, Ledger!Spec

----------------------------------------------------------------------------
(* While nothing has failed: one worker applies batches in the order in     *)
(* which they were cut, so the count is at each of them what Redis had then *)
(* accepted, and the floor swallows only what that was short of zero.       *)

LEMMA FaultsGrow ==
  ASSUME Shape, [Next]_vars
  PROVE  faults' \in {faults, faults + 1}
<1>1. ASSUME WriteStep PROVE faults' \in {faults, faults + 1}
  BY <1>1, RecordIs DEF WriteStep, CommitFact
<1>2. ASSUME NEW w \in Workers, NEW p, NEW c,
             \/ ConsumeNotice(w, p) \/ FallbackPick(w, p) \/ FinishSchedule(w, c)
             \/ Claim(w, p) \/ ClaimEmpty(w, p) \/ CheckReconcile(w, p)
      PROVE  faults' \in {faults, faults + 1}
  BY <1>2 DEF ConsumeNotice, FallbackPick, FinishSchedule, Claim, ClaimEmpty, CheckReconcile,
              Fault
<1>3. ASSUME NEW w \in Workers, NEW b, RecoverBatch(w, b) \/ RecoverAborts(w, b)
      PROVE  faults' \in {faults, faults + 1}
  BY <1>3 DEF RecoverBatch, RecoverAborts
<1>4. ASSUME NEW w \in Workers, StartBatchTick(w) \/ TaskStep(w) \/ Crash(w)
      PROVE  faults' \in {faults, faults + 1}
  BY <1>3, <1>4 DEF StartBatchTick, TaskStep, Crash, InsertBatch, InsertBatchFails, StartApply,
              ApplyBatch, ApplyRollsBack, ApplyReplyLost, MarkFailed, ClearBatch, EndBatchTick,
              CountFacts, Overwrite, Fault
<1>5. ASSUME NEW b \in BatchIds, BackoffElapses(b) PROVE faults' \in {faults, faults + 1}
  BY <1>5 DEF BackoffElapses
<1>6. QED
  BY <1>1, <1>2, <1>4, <1>5 DEF Next, WriteStep, vars

\* Row ids are given in the order in which batches are cut.
RowsInOrder ==
  /\ \A b \in BatchIds : row[b] = "none" <=> rowId[b] = 0
  /\ \A b \in BatchIds : rowId[b] <= Cardinality({c \in BatchIds : rowId[c] # 0})
  /\ \A b, c \in BatchIds : b < c /\ rowId[b] # 0 /\ rowId[c] # 0 => rowId[b] < rowId[c]

\* A batch to be counted is in the worker's hand or has a row, no row has failed, and a
\* scan that applies has all due rows before it.
Tidy ==
  /\ \A b \in BatchIds : b < nextBatch /\ row[b] = "none" /\ batch[b].delta # 0 =>
        \E w \in Workers : task[w].at = "insert" /\ task[w].b = b
  /\ \A w \in Workers : task[w].at = "insert" => task[w].b = nextBatch - 1
  /\ \A w \in Workers : task[w].at # "mark"
  /\ \A b \in BatchIds : row[b] # "backoff"
  /\ RowsInOrder
  /\ \A w \in Workers : task[w].at \in {"apply", "clear"} => DueBatches \subseteq task[w].todo

\* The rows stay, and the one worker goes on to something else than an insert.
LEMMA TidyMoves ==
  ASSUME Shape, Tidy, \A v, w \in Workers : v = w, NEW w \in Workers, NEW t,
         task' = [task EXCEPT ![w] = t], UNCHANGED <<row, rowId, batchVars>>,
         task[w].at # "insert", t.at \notin {"insert", "mark"},
         t.at \in {"apply", "clear"} => DueBatches \subseteq t.todo
  PROVE  Tidy'
<1>1. task'[w] = t /\ \A v \in Workers : task'[v] = t
  BY WorkTyped
<1>2. DueBatches' = DueBatches /\ RowsInOrder'
  BY DEF DueBatches, Tidy, RowsInOrder
<1>3. QED
  BY <1>1, <1>2 DEF Tidy, batchVars

\* The batch in the worker's hand, the last one cut, is given the largest row id.
LEMMA InsertTidy ==
  ASSUME Shape, Tidy, \A v, w \in Workers : v = w, NEW w \in Workers, InsertBatch(w)
  PROVE  Tidy'
<1> DEFINE b == task[w].b
           n == Cardinality({c \in BatchIds : rowId[c] # 0})
<1>1. /\ b \in BatchIds /\ b = nextBatch - 1
      /\ task' = [task EXCEPT ![w] = IdleTask] /\ InsertRow(b) /\ UNCHANGED batchVars
  BY TaskTyped DEF InsertBatch, Tidy
<1>2. /\ row \in [BatchIds -> Statuses] /\ rowId \in [BatchIds -> Nat] /\ n \in Nat
      /\ \A c \in BatchIds : row[c] # "none" => c < nextBatch
      /\ task \in [Workers -> Task] /\ nextBatch \in Int /\ \A c \in BatchIds : c \in Int
  BY WorkTyped, CountsAreNat, DeltasTyped
<1>3. \A c \in BatchIds : c # b /\ c < nextBatch /\ batch[c].delta # 0 => row[c] # "none"
  BY DEF Tidy
<1>4. \A v \in Workers : task'[v].at = "idle"
  BY <1>1, <1>2, IdleIsTask
<1>5. CASE row[b] # "none"
  <2>1. UNCHANGED <<row, rowId>>
    BY <1>1, <1>5 DEF InsertRow
  <2>2. QED
    BY <1>1, <1>3, <1>4, <1>5, <2>1 DEF Tidy, RowsInOrder, batchVars
<1>6. CASE row[b] = "none"
  <2>1. row' = [row EXCEPT ![b] = "due"] /\ rowId' = [rowId EXCEPT ![b] = 1 + n]
    BY <1>1, <1>6 DEF InsertRow
  <2>2. rowId[b] = 0
    BY <1>1, <1>6 DEF Tidy, RowsInOrder
  <2> DEFINE S == {c \in BatchIds : rowId[c] # 0}
             T == {c \in BatchIds : rowId'[c] # 0}
  <2>3. Cardinality(T) = n + 1
    <3>1. 1 + n # 0
      BY <1>2
    <3>2. T = S \cup {b} /\ b \notin S /\ S \subseteq BatchIds
      BY <1>1, <1>2, <2>1, <2>2, <3>1
    <3>3. IsFiniteSet(S)
      BY <3>2, DeltasTyped
    <3> HIDE DEF S, T
    <3>4. Cardinality(T) = Cardinality(S) + 1
      BY <3>2, <3>3, FS_AddElement
    <3>5. QED
      BY <3>4 DEF S
  <2> HIDE DEF S, T, n
  <2>4. \A c \in BatchIds : rowId[c] <= n
    BY DEF Tidy, RowsInOrder, n
  <2>5. \A c \in BatchIds : rowId[c] # 0 => c < nextBatch
    BY <1>2 DEF Tidy, RowsInOrder
  <2>6. \A c \in BatchIds : c # b => row'[c] = row[c] /\ rowId'[c] = rowId[c]
    BY <1>1, <1>2, <2>1
  <2>7. row'[b] = "due" /\ rowId'[b] = 1 + n /\ 1 + n # 0
    BY <1>1, <1>2, <2>1
  <2>8. \A c \in BatchIds : row'[c] = "none" <=> rowId'[c] = 0
    BY <2>6, <2>7 DEF Tidy, RowsInOrder
  <2>9. \A c \in BatchIds : rowId'[c] <= n + 1
    BY <1>2, <2>4, <2>6, <2>7
  <2>10. ASSUME NEW c \in BatchIds, NEW d \in BatchIds, c < d, rowId'[c] # 0, rowId'[d] # 0
         PROVE  rowId'[c] < rowId'[d]
    <3>1. CASE c = b
      BY <1>1, <1>2, <2>5, <2>6, <2>10, <3>1
    <3>2. CASE d = b
      BY <1>2, <2>4, <2>6, <2>7, <2>10, <3>2
    <3>3. CASE c # b /\ d # b
      BY <2>6, <2>10, <3>3 DEF Tidy, RowsInOrder
    <3>4. QED
      BY <3>1, <3>2, <3>3
  <2>11. RowsInOrder'
    BY <2>3, <2>8, <2>9, <2>10 DEF RowsInOrder, T
  <2>12. QED
    BY <1>1, <1>3, <1>4, <2>6, <2>7, <2>11 DEF Tidy, batchVars
<1>7. QED
  BY <1>5, <1>6

LEMMA TidyStep ==
  ASSUME Shape, Booking, NotCounting, Tidy, [Next]_vars, faults' = 0,
         ReconcileOn = FALSE, \A v, w \in Workers : v = w
  PROVE  Tidy'
<1>1. task \in [Workers -> Task] /\ \A k : ~Fault(k)
  BY WorkTyped DEF Fault
<1>2. ASSUME UNCHANGED <<row, rowId, batchVars, task>>
      PROVE  Tidy'
  BY <1>2 DEF Tidy, RowsInOrder, DueBatches, batchVars
<1>3. /\ \A step, b, todo : Doing(step, b, todo).at = step /\ Doing(step, b, todo).todo = todo
      /\ IdleTask.at = "idle"
  BY DEF Doing, IdleTask
<1>4. ASSUME WriteStep
      PROVE  Tidy'
  BY <1>2, <1>4, RecordIs DEF WriteStep, CommitFact, HandlerDone, dbVars, taskVars
<1>5. ASSUME NEW w \in Workers, NEW p, NEW c,
             \/ ConsumeNotice(w, p) \/ FallbackPick(w, p) \/ FinishSchedule(w, c)
             \/ ClaimEmpty(w, p)
      PROVE  Tidy'
  BY <1>2, <1>5 DEF ConsumeNotice, FallbackPick, FinishSchedule, ClaimEmpty, dbVars, taskVars
<1>6. ASSUME NEW w \in Workers, NEW p \in Posts, Claim(w, p)
      PROVE  Tidy'
  <2>1. ClaimStep(p) /\ UNCHANGED <<row, rowId>> /\ task[w].at = "idle"
    BY <1>6 DEF Claim, ClaimStep, dbVars, Idle
  <2>2. /\ nextBatch \in BatchIds /\ nextBatch' = nextBatch + 1
        /\ batch'[nextBatch].delta = pending[p]
        /\ \A b \in BatchIds \ {nextBatch} : batch'[b] = batch[b]
    BY <2>1, ClaimCuts DEF ClaimStep, Deltas
  <2>3. /\ pending[p] = 0 => task' = task
        /\ pending[p] # 0 => task' = [task EXCEPT ![w] = Doing("insert", nextBatch, {})]
    BY <1>6 DEF Claim
  <2>4. Doing("insert", nextBatch, {}).b = nextBatch
    BY DEF Doing
  <2>5. /\ \A v \in Workers : task'[v].at \in {"idle", "insert"}
        /\ \A v \in Workers : task'[v].at = "insert" => task'[v].b = nextBatch
        /\ pending[p] # 0 => task'[w].at = "insert" /\ task'[w].b = nextBatch
    BY <1>1, <1>3, <2>1, <2>3, <2>4
  <2>6. \A b \in BatchIds : b < nextBatch /\ batch[b].delta # 0 => row[b] # "none"
    BY <2>1 DEF Tidy
  <2>7. \A b \in BatchIds : b < nextBatch' => b < nextBatch \/ b = nextBatch
    BY <2>2, DeltasTyped
  <2>8. /\ nextBatch' - 1 = nextBatch /\ nextBatch \in Int
        /\ \A b \in BatchIds : b < nextBatch => b # nextBatch
    BY <2>2, DeltasTyped
  <2>9. \A b \in BatchIds : b < nextBatch' /\ row'[b] = "none" /\ batch'[b].delta # 0 =>
           task'[w].at = "insert" /\ task'[w].b = b
    BY <2>1, <2>2, <2>5, <2>6, <2>7, <2>8
  <2>10. RowsInOrder'
    BY <2>1 DEF Tidy, RowsInOrder
  <2>11. QED
    BY <2>1, <2>5, <2>8, <2>9, <2>10 DEF Tidy
<1>7. ASSUME NEW w \in Workers, NEW b, RecoverBatch(w, b)
      PROVE  Tidy'
  <2>1. task[w].at = "recover" /\ b \in BatchIds /\ b < nextBatch
    BY <1>7, TaskTyped DEF RecoverBatch
  <2>2. ~(b \in processing /\ row[b] = "none")
    BY <1>7, <2>1 DEF RecoverBatch, Tidy
  <2>3. UNCHANGED <<row, rowId, batchVars>>
    BY <1>7, <2>2 DEF RecoverBatch
  <2>4. task' = [task EXCEPT ![w] = Doing("recover", task[w].b, task[w].todo \ {b})]
    BY <1>7, <2>1 DEF RecoverBatch, Finished
  <2>5. QED
    BY <1>3, <2>1, <2>3, <2>4, TidyMoves
<1>8. ASSUME NEW w \in Workers, NEW b,
             StartBatchTick(w) \/ RecoverAborts(w, b) \/ EndBatchTick(w)
      PROVE  Tidy'
  <2>1. /\ task[w].at # "insert" /\ UNCHANGED <<row, rowId, batchVars>>
        /\ \/ \E todo : task' = [task EXCEPT ![w] = Doing("recover", 0, todo)]
           \/ task' = [task EXCEPT ![w] = IdleTask]
    BY <1>8 DEF StartBatchTick, RecoverAborts, EndBatchTick, Idle, dbVars
  <2>2. QED
    BY <1>3, <2>1, TidyMoves
<1>9. ASSUME NEW w \in Workers, StartApply(w)
      PROVE  Tidy'
  <2>1. /\ task[w].at # "insert" /\ UNCHANGED <<row, rowId, batchVars>>
        /\ \/ task' = [task EXCEPT ![w] = IdleTask]
           \/ task' = [task EXCEPT ![w] = Doing("apply", 0, DueBatches)]
    BY <1>9 DEF StartApply, dbVars
  <2>2. QED
    BY <1>3, <2>1, TidyMoves
<1>10. ASSUME NEW w \in Workers, InsertBatch(w)
       PROVE  Tidy'
  BY <1>10, InsertTidy
<1>11. ASSUME NEW w \in Workers, ApplyBatch(w)
       PROVE  Tidy'
  <2>1. PICK b \in task[w].todo :
          IF row[b] = "due" THEN CommitBatch(b) /\ GoTo(w, b, "clear")
                            ELSE Finished(w, b) /\ UNCHANGED dbVars
    BY <1>11 DEF ApplyBatch, FirstOf
  <2>2. b \in BatchIds /\ row[b] = "due" /\ task[w].at = "apply"
    BY <1>11, TaskTyped DEF ApplyBatch, Booking, Careful
  <2>3. /\ row' = [row EXCEPT ![b] = "success"] /\ rowId' = rowId /\ UNCHANGED batchVars
        /\ row \in [BatchIds -> Statuses]
    BY <1>11, <2>1, <2>2, WorkTyped DEF ApplyBatch, CommitBatch
  <2>4. \A v \in Workers : task'[v] = Doing("clear", b, task[w].todo \ {b})
    BY <1>1, <2>1, <2>2 DEF GoTo
  <2>5. DueBatches' = DueBatches \ {b}
    BY <2>2, <2>3 DEF DueBatches
  <2>6. DueBatches \subseteq task[w].todo
    BY <2>2 DEF Tidy
  <2>7. \A v \in Workers : task'[v].at = "clear" /\ DueBatches' \subseteq task'[v].todo
    BY <1>3, <2>4, <2>5, <2>6
  <2>8. \A c \in BatchIds : /\ row'[c] = "none" <=> row[c] = "none"
                            /\ row'[c] # "backoff"
    BY <2>2, <2>3 DEF Tidy
  <2>9. \A c \in BatchIds : c < nextBatch /\ batch[c].delta # 0 => row[c] # "none"
    BY <2>2 DEF Tidy
  <2>10. RowsInOrder'
    BY <2>3, <2>8 DEF Tidy, RowsInOrder
  <2>11. QED
    BY <2>3, <2>7, <2>8, <2>9, <2>10 DEF Tidy, batchVars
<1>12. ASSUME NEW w \in Workers, ClearBatch(w)
       PROVE  Tidy'
  <2>1. /\ task[w].at = "clear" /\ UNCHANGED <<row, rowId, batchVars>>
        /\ task' = [task EXCEPT ![w] = Doing("apply", 0, task[w].todo)]
    BY <1>12 DEF ClearBatch, Continue, dbVars
  <2>2. DueBatches \subseteq task[w].todo
    BY <2>1 DEF Tidy
  <2> DEFINE t == Doing("apply", 0, task[w].todo)
  <2>3. t.at = "apply" /\ t.todo = task[w].todo
    BY <1>3
  <2> HIDE DEF t
  <2>4. task[w].at # "insert" /\ task' = [task EXCEPT ![w] = t]
    BY <2>1 DEF t
  <2>5. QED
    BY <2>1, <2>2, <2>3, <2>4, TidyMoves
<1>13. ASSUME NEW w \in Workers,
              \/ InsertBatchFails(w) \/ ApplyRollsBack(w) \/ ApplyReplyLost(w)
              \/ MarkFailed(w) \/ CountFacts(w) \/ Overwrite(w) \/ Crash(w)
       PROVE  FALSE
  BY <1>1, <1>13 DEF InsertBatchFails, ApplyRollsBack, ApplyReplyLost, MarkFailed, CountFacts,
                     Overwrite, Crash, NotCounting, Tidy
<1>14. \A b \in BatchIds : ~BackoffElapses(b)
  BY DEF BackoffElapses, Tidy
<1>15. \A w \in Workers : \A p : ~CheckReconcile(w, p)
  BY DEF CheckReconcile
<1>16. CASE UNCHANGED vars
  BY <1>2, <1>16 DEF vars, batchVars
<1>17. ASSUME NEW w \in Workers, TaskStep(w)
       PROVE  Tidy'
  BY <1>7, <1>8, <1>9, <1>10, <1>11, <1>12, <1>13, <1>17 DEF TaskStep
<1>18. QED
  BY <1>4, <1>5, <1>6, <1>8, <1>13, <1>14, <1>15, <1>16, <1>17 DEF Next, WriteStep

\* What the one worker books before a batch is all there was to book before it.
LEMMA EarlierAreZero ==
  ASSUME Shape, Tidy, \A v, w \in Workers : v = w, NEW w \in Workers, task[w].at = "apply",
         NEW b \in BatchIds, b \in FirstOf(task[w].todo), row[b] = "due",
         NEW c \in BatchIds, c < b, row[c] # "success"
  PROVE  Deltas[c] = 0
<1>1. SUFFICES ASSUME Deltas[c] # 0 PROVE FALSE
  OBVIOUS
<1>2. batch[c].delta # 0 /\ c < nextBatch
  BY <1>1, DeltasTyped, WorkTyped
<1>3. row[c] # "none"
  BY <1>2 DEF Tidy
<1>4. row[c] = "due"
  BY <1>3, WorkTyped DEF Tidy, Statuses
<1>5. c \in task[w].todo
  BY <1>4 DEF Tidy, DueBatches
<1>6. rowId[b] <= rowId[c] /\ rowId[c] # 0 /\ rowId[b] # 0
  BY <1>3, <1>5 DEF FirstOf, Tidy, RowsInOrder
<1>7. rowId[c] < rowId[b]
  BY <1>6 DEF Tidy, RowsInOrder
<1>8. QED
  BY <1>6, <1>7, WorkTyped

LiveOf == [p \in Posts |-> {r \in live : PostOf[r] = p}]

\* What Redis accepted, and what handlers still have to record, are the facts.
Recorded ==
  \A p \in Posts : accepted[p] + owing[p][1] - owing[p][-1] = Cardinality(LiveOf[p])

\* The unsettled batches of p up to b.
Early == [p \in Posts |-> [b \in BatchIds |-> {c \in Unsettled[p] : c <= b}]]

\* lowest bounds what Redis had accepted at the start, by now, and when a batch was cut:
\* all it accepted but what is owed beyond that batch.
LowestIsLow ==
  \A p \in Posts :
    /\ lowest[p] <= 0 /\ lowest[p] <= accepted[p]
    /\ \A b \in BatchIds :
         lowest[p] <= accepted[p] - OwedNow[p] + SumFunctionOnSet(Deltas, Early[p][b])

\* The stored count and what is owed to it exceed what was accepted, by no more than
\* that was ever short of zero.
Balance ==
  \A p \in Posts : /\ accepted[p] <= counter[p] + OwedNow[p]
                   /\ counter[p] + OwedNow[p] <= accepted[p] - lowest[p]

Accounts == Bounded /\ Booking /\ Tidy /\ Recorded /\ LowestIsLow /\ Balance

LEMMA TalliesTyped ==
  ASSUME Shape
  PROVE  /\ accepted \in [Posts -> Int] /\ lowest \in [Posts -> Int]
         /\ pending \in [Posts -> Int] /\ counter \in [Posts -> Nat]
         /\ owing \in [Posts -> [Signs -> Nat]] /\ live \subseteq Rows
         /\ -1 \in Signs /\ 1 \in Signs
         /\ \A p \in Posts :
              /\ accepted[p] \in Int /\ lowest[p] \in Int /\ pending[p] \in Int
              /\ counter[p] \in Int /\ counter[p] >= 0 /\ OwedNow[p] \in Int
              /\ owing[p][1] \in Int /\ owing[p][-1] \in Int
              /\ IsFiniteSet(LiveOf[p]) /\ Cardinality(LiveOf[p]) \in Nat
<1>1. \A p \in Posts : IsFiniteSet(LiveOf[p]) /\ Cardinality(LiveOf[p]) \in Nat
  <2>1. \A p \in Posts : LiveOf[p] \subseteq Rows
    BY DEF LiveOf, Shape, TypeOK
  <2>2. QED
    BY <2>1, CounterAssumption, FS_Subset, FS_CardinalityType
<1>2. QED
  BY <1>1, OwedIs DEF OwedSums, Shape, TypeOK, Signs

LEMMA TalliesNext ==
  ASSUME Shape'
  PROVE  \A p \in Posts :
           /\ accepted'[p] \in Int /\ lowest'[p] \in Int
           /\ counter'[p] \in Int /\ counter'[p] >= 0 /\ OwedNow'[p] \in Int
           /\ owing'[p][1] \in Int /\ owing'[p][-1] \in Int
           /\ Cardinality(LiveOf'[p]) \in Nat
<1>1. \A p \in Posts : Cardinality(LiveOf'[p]) \in Nat
  <2>1. \A p \in Posts : LiveOf'[p] \subseteq Rows
    BY DEF LiveOf, Shape, TypeOK
  <2>2. QED
    BY <2>1, CounterAssumption, FS_Subset, FS_CardinalityType
<1>2. OwedNow' \in [Posts -> Int]
  BY OwedIsNext DEF OwedSums
<1>3. QED
  BY <1>1, <1>2 DEF Shape, TypeOK, Signs

LEMMA EarlyTyped ==
  ASSUME Shape, NEW p \in Posts, NEW b \in BatchIds
  PROVE  /\ Early[p][b] \subseteq Unsettled[p]
         /\ IsFiniteSet(Early[p][b])
         /\ \A c \in Early[p][b] : c \in BatchIds /\ Deltas[c] \in Int
         /\ SumFunctionOnSet(Deltas, Early[p][b]) \in Int
<1>1. Early[p][b] \subseteq Unsettled[p]
  BY DEF Early
<1>2. IsFiniteSet(Early[p][b]) /\ \A c \in Early[p][b] : c \in BatchIds /\ Deltas[c] \in Int
  BY <1>1, OwedIs, DeltasTyped, FS_Subset DEF OwedSums
<1>3. SumFunctionOnSet(Deltas, Early[p][b]) \in Int
  BY <1>2, SumIsInt
<1>4. QED
  BY <1>1, <1>2, <1>3

\* A write step, as long as nothing fails.
LEMMA WriteWithoutFault ==
  ASSUME Shape, WriteStep, faults' = 0
  PROVE  /\ UNCHANGED <<counter, batchVars>> /\ row' = row
         /\ \/ \E r \in Rows : CommitFact(r) /\ UNCHANGED <<accepted, lowest, pending>>
            \/ \E p \in Posts, d \in Signs :
                 /\ HandlerDone(p, d)
                 /\ pending' = [pending EXCEPT ![p] = @ + d]
                 /\ accepted' = [accepted EXCEPT ![p] = @ + d]
                 /\ lowest' = [lowest EXCEPT ![p] =
                                 IF accepted[p] + d < @ THEN accepted[p] + d ELSE @]
<1>1. \A k : ~Fault(k)
  BY WorkTyped DEF Fault
<1>2. CASE \E r \in Rows : CommitFact(r)
  BY <1>2 DEF CommitFact, redisVars, dbVars
<1>3. ASSUME NEW p \in Posts, NEW d \in Signs, RecordDelta(p, d)
      PROVE  Enqueue(p, d)
  BY <1>1, <1>3 DEF RecordDelta, EnqueueWithoutOutbox, EnqueueRefused, EnqueueTimesOut
<1>4. QED
  BY <1>2, <1>3 DEF WriteStep, Enqueue, HandlerDone, RunEnqueueScript

\* A commit of a fact changes the facts of its post, and what is to be recorded, by the
\* same; recording a delta moves it from one side to the other.
LEMMA RecordedStep ==
  ASSUME Shape, Shape', Recorded, WriteStep, faults' = 0
  PROVE  Recorded'
<1>1. ASSUME NEW r \in Rows, CommitFact(r), UNCHANGED accepted
      PROVE  Recorded'
  <2> DEFINE q == PostOf[r]
             d == IF r \in live THEN -1 ELSE 1
  <2>1. /\ q \in Posts /\ d \in Signs
        /\ live' = IF r \in live THEN live \ {r} ELSE live \cup {r}
        /\ owing' = [owing EXCEPT ![q][d] = @ + 1]
    BY <1>1, CounterAssumption DEF CommitFact, Signs
  <2>2. owing'[q][1] - owing'[q][-1] = owing[q][1] - owing[q][-1] + d
    <3> HIDE DEF q
    <3>1. CASE d = 1
      BY <2>1, <3>1, TalliesTyped
    <3>2. CASE d = -1
      BY <2>1, <3>2, TalliesTyped
    <3>3. QED
      BY <3>1, <3>2
  <2>3. Cardinality(LiveOf'[q]) = Cardinality(LiveOf[q]) + d
    <3>1. CASE r \in live
      <4>1. LiveOf'[q] = LiveOf[q] \ {r} /\ r \in LiveOf[q]
        BY <2>1, <3>1 DEF LiveOf
      <4>2. Cardinality(LiveOf[q] \ {r}) = Cardinality(LiveOf[q]) - 1
        BY <2>1, <4>1, TalliesTyped, FS_RemoveElement
      <4>3. QED
        BY <2>1, <3>1, <4>1, <4>2, TalliesTyped
    <3>2. CASE r \notin live
      <4>1. LiveOf'[q] = LiveOf[q] \cup {r} /\ r \notin LiveOf[q]
        BY <2>1, <3>2 DEF LiveOf
      <4>2. Cardinality(LiveOf[q] \cup {r}) = Cardinality(LiveOf[q]) + 1
        BY <2>1, <4>1, TalliesTyped, FS_AddElement
      <4>3. QED
        BY <3>2, <4>1, <4>2
    <3>3. QED
      BY <3>1, <3>2
  <2>4. ASSUME NEW p \in Posts, p # q
        PROVE  LiveOf'[p] = LiveOf[p] /\ owing'[p] = owing[p]
    BY <2>1, <2>4, TalliesTyped DEF LiveOf
  <2>5. d \in Int /\ q \in Posts
    BY <2>1
  <2> HIDE DEF q, d
  <2>6. QED
    BY <1>1, <2>2, <2>3, <2>4, <2>5, TalliesTyped, TalliesNext DEF Recorded
<1>2. ASSUME NEW p \in Posts, NEW d \in Signs, HandlerDone(p, d),
             accepted' = [accepted EXCEPT ![p] = @ + d]
      PROVE  Recorded'
  <2>1. LiveOf' = LiveOf /\ owing' = [owing EXCEPT ![p][d] = @ - 1]
    BY <1>2 DEF HandlerDone, LiveOf
  <2>2. owing'[p][1] - owing'[p][-1] = owing[p][1] - owing[p][-1] - d
    <3>1. CASE d = 1
      BY <2>1, <3>1, TalliesTyped
    <3>2. CASE d = -1
      BY <2>1, <3>2, TalliesTyped
    <3>3. QED
      BY <3>1, <3>2 DEF Signs
  <2>3. accepted'[p] = accepted[p] + d /\ d \in Int
    BY <1>2, TalliesTyped DEF Signs
  <2>4. \A q \in Posts \ {p} : owing'[q] = owing[q] /\ accepted'[q] = accepted[q]
    BY <1>2, <2>1, TalliesTyped
  <2>5. QED
    BY <2>1, <2>2, <2>3, <2>4, TalliesTyped, TalliesNext DEF Recorded
<1>3. QED
  BY <1>1, <1>2, WriteWithoutFault

\* No batch is booked, and what is owed moves with what is accepted.
LEMMA AcceptedMoves ==
  ASSUME Shape, Shape', LowestIsLow, Balance, UNCHANGED <<counter, batchVars>>,
         \A b \in BatchIds : row'[b] = "success" <=> row[b] = "success",
         \A p \in Posts :
           /\ accepted'[p] - accepted[p] = pending'[p] - pending[p]
           /\ lowest'[p] <= lowest[p] /\ lowest'[p] <= accepted'[p]
  PROVE  LowestIsLow' /\ Balance'
<1>1. Deltas' = Deltas /\ Unsettled' = Unsettled
  BY DEF Deltas, Unsettled, batchVars
<1>2. Early' = Early
  BY <1>1 DEF Early
<1>3. \A p \in Posts : OwedNow'[p] = OwedNow[p] + (pending'[p] - pending[p])
  BY OwedFollowsPending
<1>4. \A p \in Posts : OwedNow'[p] - accepted'[p] = OwedNow[p] - accepted[p]
  BY <1>3, TalliesTyped, TalliesNext
<1>5. ASSUME NEW p \in Posts, NEW b \in BatchIds
      PROVE  lowest'[p] <= accepted'[p] - OwedNow'[p] + SumFunctionOnSet(Deltas', Early'[p][b])
  <2>1. lowest[p] <= accepted[p] - OwedNow[p] + SumFunctionOnSet(Deltas, Early[p][b])
    BY DEF LowestIsLow
  <2>2. SumFunctionOnSet(Deltas', Early'[p][b]) = SumFunctionOnSet(Deltas, Early[p][b])
    BY <1>1, <1>2
  <2>3. QED
    BY <2>1, <2>2, <1>4, EarlyTyped, TalliesTyped, TalliesNext
<1>6. LowestIsLow'
  BY <1>5, TalliesTyped, TalliesNext DEF LowestIsLow
<1>7. Balance'
  BY <1>4, TalliesTyped, TalliesNext DEF Balance
<1>8. QED
  BY <1>6, <1>7

\* A claim cuts the last of a post's batches, which holds all that is owed to the post and
\* was not in an earlier batch.
LEMMA ClaimAccounts ==
  ASSUME Shape, Shape', Accounts, NEW p \in Posts, ClaimStep(p),
         UNCHANGED <<counter, row, lowest>>
  PROVE  LowestIsLow' /\ Balance'
<1> USE DEF Accounts
<1> DEFINE n == nextBatch
<1>1. /\ n \in BatchIds /\ batch'[n].post = p /\ row[n] = "none"
      /\ \A b \in BatchIds \ {n} : batch'[b] = batch[b] /\ Deltas'[b] = Deltas[b]
      /\ \A b \in BatchIds : b \in Int
      /\ pending'[p] = 0 /\ nextBatch' = n + 1
      /\ UNCHANGED <<counter, accepted, lowest>>
  BY ClaimCuts, DeltasTyped DEF ClaimStep, TakeDelta, Shape, TypeOK
<1>2. batch[n].post = NoPost /\ NoPost \notin Posts
  BY <1>1, CounterAssumption DEF Bounded
<1>3. OwedNow' = OwedNow
  BY ClaimKeepsOwed
<1>4. ASSUME NEW q \in Posts, NEW b \in BatchIds
      PROVE  lowest[q] <= accepted[q] - OwedNow[q] + SumFunctionOnSet(Deltas', Early'[q][b])
  <2>1. CASE q = p /\ b >= n
    <3>1. Early'[p][b] = Unsettled'[p]
      <4>1. \A c \in Unsettled'[p] : c \in BatchIds /\ batch'[c].post = p
        BY DEF Unsettled
      <4>2. \A c \in BatchIds : c >= n + 1 => batch'[c].post = NoPost
        BY <1>1, <1>2 DEF Bounded
      <4>3. \A c \in Unsettled'[p] : c <= b
        BY <4>1, <4>2, <2>1, <1>1, <1>2
      <4>4. QED
        BY <4>3 DEF Early
    <3>2. OwedNow'[p] = pending'[p] + SumFunctionOnSet(Deltas', Unsettled'[p])
          /\ SumFunctionOnSet(Deltas', Unsettled'[p]) \in Int
      BY OwedIsNext DEF OwedSums
    <3>3. SumFunctionOnSet(Deltas', Early'[p][b]) = OwedNow[p]
      BY <3>1, <3>2, <1>1, <1>3
    <3>4. QED
      BY <2>1, <3>3, TalliesTyped DEF LowestIsLow
  <2>2. CASE ~(q = p /\ b >= n)
    <3>1. n \notin Early[q][b]
      BY <1>2 DEF Early, Unsettled
    <3>2. n \notin Early'[q][b]
      BY <1>1, <2>2 DEF Early, Unsettled
    <3>3. \A c \in BatchIds \ {n} : c \in Early'[q][b] <=> c \in Early[q][b]
      BY <1>1 DEF Early, Unsettled
    <3>4. Early'[q][b] = Early[q][b]
      <4>1. Early'[q][b] \subseteq BatchIds /\ Early[q][b] \subseteq BatchIds
        BY DEF Early, Unsettled
      <4> DEFINE F == Early[q][b]
                 G == Early'[q][b]
      <4>2. /\ n \notin F /\ n \notin G /\ G \subseteq BatchIds /\ F \subseteq BatchIds
            /\ \A c \in BatchIds \ {n} : c \in G <=> c \in F
        BY <3>1, <3>2, <3>3, <4>1
      <4> HIDE DEF F, G
      <4>3. \A c : c \in F <=> c \in G
        BY <4>2
      <4>4. F = G
        BY <4>3
      <4>5. QED
        BY <4>4 DEF F, G
    <3>5. \A c \in Early[q][b] : Deltas[c] = Deltas'[c]
      <4>1. \A c \in Early[q][b] : c \in BatchIds \ {n}
        BY <3>1 DEF Early, Unsettled
      <4>2. QED
        BY <1>1, <4>1
    <3>6. SumFunctionOnSet(Deltas, Early[q][b]) = SumFunctionOnSet(Deltas', Early[q][b])
      BY <3>5, EarlyTyped, SumsSame
    <3>7. QED
      BY <3>4, <3>6 DEF LowestIsLow
  <2>3. QED
    BY <2>1, <2>2
<1>5. LowestIsLow'
  BY <1>1, <1>3, <1>4 DEF LowestIsLow
<1>6. Balance'
  BY <1>1, <1>3 DEF Balance
<1>7. QED
  BY <1>5, <1>6

\* The first due batch of a scan is all that is owed to its post up to that batch.
LEMMA FirstIsAll ==
  ASSUME Shape, Tidy, \A v, w \in Workers : v = w,
         NEW w \in Workers, task[w].at = "apply",
         NEW e \in BatchIds, e \in FirstOf(task[w].todo), row[e] = "due"
  PROVE  /\ batch[e].post \in Posts /\ Deltas[e] \in Int
         /\ SumFunctionOnSet(Deltas, Early[batch[e].post][e]) = Deltas[e]
<1> DEFINE p == batch[e].post
           S == Early[p][e]
<1>1. p \in Posts /\ Deltas[e] \in Int
  BY WorkTyped, DeltasTyped DEF Shape, BatchesCut
<1>2. e <= e
  BY DeltasTyped
<1>3. e \in S
  BY <1>1, <1>2 DEF Early, Unsettled
<1>4. \A c \in S \ {e} : Deltas[c] = 0
  <2>1. \A c \in S : c \in Unsettled[p] /\ c <= e
    BY <1>1 DEF Early
  <2>2. \A c \in Unsettled[p] : c \in BatchIds /\ row[c] # "success"
    BY <1>1 DEF Unsettled
  <2>3. \A c \in BatchIds : c <= e /\ c # e => c < e
    BY DeltasTyped
  <2> HIDE DEF S, p
  <2>4. \A c \in S \ {e} : c \in BatchIds /\ c < e /\ row[c] # "success"
    BY <2>1, <2>2, <2>3
  <2>5. QED
    BY <2>4, EarlierAreZero
<1>5. IsFiniteSet(S) /\ \A c \in S : Deltas[c] \in Int
  BY <1>1, EarlyTyped
<1> HIDE DEF S, p
<1>6. SumFunctionOnSet(Deltas, S \ {e}) = 0
  <2>1. IsFiniteSet(S \ {e})
    BY <1>5, FS_Subset
  <2>2. QED
    BY <1>4, <2>1, SumOfZeros
<1>7. SumFunctionOnSet(Deltas, S) = Deltas[e] + SumFunctionOnSet(Deltas, S \ {e})
  BY <1>3, <1>5, SumTakesAny
<1>8. QED
  BY <1>1, <1>6, <1>7 DEF S, p

\* Booking the first due batch: the count was what Redis had accepted before the batch, or
\* more, so the floor adds no more than what it had accepted with the batch was below zero.
LEMMA CommitAccounts ==
  ASSUME Shape, Shape', Accounts, \A v, w \in Workers : v = w,
         NEW e \in BatchIds, NEW w \in Workers, task[w].at = "apply",
         e \in FirstOf(task[w].todo), row[e] = "due", CommitBatch(e),
         UNCHANGED <<accepted, lowest, pending, batchVars>>
  PROVE  LowestIsLow' /\ Balance'
<1> USE DEF Accounts
<1> DEFINE p == batch[e].post
           d == Deltas[e]
<1>1. /\ p \in Posts /\ d \in Int
      /\ OwedNow' = [OwedNow EXCEPT ![p] = @ - d]
      /\ counter' = [counter EXCEPT ![p] = AtLeastZero(@ + d)]
  BY CommitSettles
<1>2. SumFunctionOnSet(Deltas, Early[p][e]) = d
  BY FirstIsAll
<1>3. /\ Deltas' = Deltas /\ batch' = batch /\ row' = [row EXCEPT ![e] = "success"]
      /\ row \in [BatchIds -> Statuses]
      /\ \A b \in BatchIds : b \in Int
  BY WorkTyped, DeltasTyped DEF CommitBatch, batchVars, Deltas
<1>4. lowest[p] <= accepted[p] - OwedNow[p] + d
  <2> HIDE DEF p, d
  <2>1. QED
    BY <1>1, <1>2 DEF LowestIsLow
<1>5. OwedNow \in [Posts -> Int]
  BY OwedIs DEF OwedSums
<1>6. /\ OwedNow'[p] = OwedNow[p] - d
      /\ counter'[p] = AtLeastZero(counter[p] + d)
      /\ \A q \in Posts \ {p} : OwedNow'[q] = OwedNow[q] /\ counter'[q] = counter[q]
  <2> HIDE DEF p, d
  <2>1. QED
    BY <1>1, <1>5, TalliesTyped
<1>7. ASSUME NEW q \in Posts, NEW b \in BatchIds
      PROVE  lowest[q] <= accepted[q] - OwedNow'[q] + SumFunctionOnSet(Deltas, Early'[q][b])
  <2>1. CASE q # p
    <3>1. Early'[q][b] = Early[q][b]
      BY <1>3, <2>1 DEF Early, Unsettled
    <3>2. QED
      BY <1>6, <2>1, <3>1 DEF LowestIsLow
  <2>2. CASE q = p /\ e <= b
    <3>1. Early'[p][b] = Early[p][b] \ {e} /\ e \in Early[p][b]
      BY <1>1, <1>3, <2>2 DEF Early, Unsettled
    <3>2. IsFiniteSet(Early[p][b]) /\ \A c \in Early[p][b] : Deltas[c] \in Int
      BY <1>1, EarlyTyped
    <3>3. SumFunctionOnSet(Deltas, Early[p][b]) = d + SumFunctionOnSet(Deltas, Early[p][b] \ {e})
          /\ SumFunctionOnSet(Deltas, Early[p][b] \ {e}) \in Int
      <4>1. IsFiniteSet(Early[p][b] \ {e})
        BY <3>2, FS_Subset
      <4>2. QED
        BY <3>1, <3>2, <4>1, SumTakesAny, SumIsInt
    <3>4. SumFunctionOnSet(Deltas, Early'[p][b]) = SumFunctionOnSet(Deltas, Early[p][b] \ {e})
      BY <3>1
    <3>5. lowest[p] <= accepted[p] - OwedNow[p] + SumFunctionOnSet(Deltas, Early[p][b])
      BY <1>1 DEF LowestIsLow
    <3> HIDE DEF p, d
    <3>6. QED
      BY <1>1, <1>6, <2>2, <3>3, <3>4, <3>5, TalliesTyped
  <2>3. CASE q = p /\ ~(e <= b)
    <3>1. \A c \in Early'[p][b] : c \in BatchIds /\ c < e /\ row[c] # "success"
      <4>1. \A c \in Early'[p][b] : c \in Unsettled'[p] /\ c <= b
        BY <1>1 DEF Early
      <4>2. \A c \in Unsettled'[p] : c \in BatchIds /\ row'[c] # "success"
        BY <1>1 DEF Unsettled
      <4>3. \A c \in BatchIds : row'[c] # "success" => row[c] # "success"
        BY <1>3
      <4>4. \A c \in BatchIds : c <= b => c < e
        BY <1>3, <2>3
      <4> HIDE DEF p
      <4>5. QED
        BY <4>1, <4>2, <4>3, <4>4
    <3>2. \A c \in Early'[p][b] : Deltas[c] = 0
      BY <3>1, EarlierAreZero
    <3>3. IsFiniteSet(Early'[p][b])
      BY <3>1, DeltasTyped
    <3>4. SumFunctionOnSet(Deltas, Early'[p][b]) = 0
      BY <3>2, <3>3, SumOfZeros
    <3> HIDE DEF p, d
    <3>5. QED
      BY <1>1, <1>4, <1>6, <2>3, <3>4, TalliesTyped
  <2>4. QED
    BY <2>1, <2>2, <2>3
<1>8. LowestIsLow'
  BY <1>3, <1>7 DEF LowestIsLow
<1>9. ASSUME NEW q \in Posts
      PROVE  /\ accepted[q] <= counter'[q] + OwedNow'[q]
             /\ counter'[q] + OwedNow'[q] <= accepted[q] - lowest[q]
  <2> HIDE DEF p, d
  <2>1. CASE q # p
    BY <1>6, <2>1 DEF Balance
  <2>2. CASE q = p
    BY <1>1, <1>4, <1>6, <2>2, TalliesTyped DEF Balance, AtLeastZero
  <2>3. QED
    BY <2>1, <2>2
<1>10. Balance'
  BY <1>9 DEF Balance
<1>11. QED
  BY <1>8, <1>10

LEMMA AccountsStep ==
  ASSUME Shape, Shape', NotCounting, Accounts, [Next]_vars, faults' = 0,
         ReconcileOn = FALSE, \A v, w \in Workers : v = w
  PROVE  Accounts'
<1> DEFINE Kept == Recorded' /\ LowestIsLow' /\ Balance'
<1>1. Bounded' /\ Booking' /\ Tidy'
  BY BoundedStep, NextBooking, TidyStep DEF Accounts
<1>2. ASSUME WriteStep PROVE Kept
  <2>1. Recorded'
    BY <1>2, RecordedStep DEF Accounts
  <2>2. /\ UNCHANGED <<counter, batchVars>> /\ row' = row
        /\ \A p \in Posts :
             /\ accepted'[p] - accepted[p] = pending'[p] - pending[p]
             /\ lowest'[p] <= lowest[p] /\ lowest'[p] <= accepted'[p]
    BY <1>2, WriteWithoutFault, TalliesTyped DEF Accounts, LowestIsLow, Signs
  <2>3. QED
    BY <2>1, <2>2, AcceptedMoves DEF Accounts
<1>3. ASSUME UNCHANGED <<factVars, accepted>> PROVE Recorded'
  BY <1>3 DEF Accounts, Recorded, LiveOf, factVars
<1>4. ASSUME UNCHANGED <<factVars, accepted, lowest, pending, counter, batchVars>>,
             \A b \in BatchIds : row'[b] = "success" <=> row[b] = "success"
      PROVE  Kept
  <2>1. \A p \in Posts :
             /\ accepted'[p] - accepted[p] = pending'[p] - pending[p]
             /\ lowest'[p] <= lowest[p] /\ lowest'[p] <= accepted'[p]
    BY <1>4, TalliesTyped DEF Accounts, LowestIsLow
  <2>2. QED
    BY <1>3, <1>4, <2>1, AcceptedMoves DEF Accounts
<1>5. ASSUME NEW p \in Posts, ClaimStep(p), UNCHANGED <<factVars, counter, row>>
      PROVE  Kept
  BY <1>3, <1>5, ClaimAccounts DEF ClaimStep
<1>6. ASSUME NEW b \in BatchIds, NEW w \in Workers, task[w].at = "apply",
             b \in FirstOf(task[w].todo), row[b] = "due", CommitBatch(b),
             UNCHANGED <<factVars, accepted, lowest, pending, batchVars>>
      PROVE  Kept
  BY <1>3, <1>6, CommitAccounts
<1>7. Kept
  BY <1>2, <1>4, <1>5, <1>6, PipelineSteps DEF Accounts
<1>8. QED
  BY <1>1, <1>7 DEF Accounts

LEMMA InitAccounts ==
  ASSUME Init
  PROVE  Accounts
<1>1. Shape /\ Bounded /\ OwedNow = [p \in Posts |-> 0]
  BY InitOwed
<1>2. Booking
  BY InitBooking
<1>3. Tidy
  <2>1. RowsInOrder
    BY <1>1, CountsAreNat DEF Init, RowsInOrder
  <2>2. /\ \A b \in BatchIds : ~(b < nextBatch)
        /\ \A w \in Workers : task[w].at = "idle"
        /\ \A b \in BatchIds : row[b] = "none"
    BY IdleIsTask, DeltasTyped, <1>1 DEF Init, BatchIds
  <2>3. QED
    BY <2>1, <2>2 DEF Tidy
<1>4. Recorded
  <2>1. \A p \in Posts : LiveOf[p] = {} /\ accepted[p] = 0
    BY DEF Init, LiveOf
  <2>2. \A p \in Posts : owing[p][1] = 0 /\ owing[p][-1] = 0
    BY DEF Init, Signs
  <2>3. Cardinality({}) = 0 /\ 0 + 0 - 0 = 0
    BY FS_EmptySet
  <2>4. QED
    BY <2>1, <2>2, <2>3 DEF Recorded
<1>5. LowestIsLow
  <2>1. ASSUME NEW p \in Posts, NEW b \in BatchIds
        PROVE  SumFunctionOnSet(Deltas, Early[p][b]) = 0
    <3>1. \A c \in Early[p][b] : Deltas[c] = 0
      BY DEF Init, Early, Unsettled, Deltas
    <3>2. QED
      BY <1>1, <3>1, EarlyTyped, SumOfZeros
  <2>2. \A p \in Posts : accepted[p] = 0 /\ lowest[p] = 0 /\ OwedNow[p] = 0
    BY <1>1 DEF Init
  <2>3. QED
    BY <2>1, <2>2 DEF LowestIsLow
<1>6. Balance
  BY <1>1 DEF Init, Balance
<1>7. QED
  BY <1>1, <1>2, <1>3, <1>4, <1>5, <1>6 DEF Accounts

\* As long as no call has failed, one process runs and reconciliation is off, the stored
\* count and all that is on its way to it are the facts, or more by at most what Redis was
\* ever short of, however many writes and batches there are: the floor at zero swallows
\* nothing but removals that were recorded before the additions they undo.
THEOREM OffByShortfallAlways ==
  ASSUME ReconcileOn = FALSE, \A v, w \in Workers : v = w
  PROVE  Spec => []OffByShortfallOnly
<1> DEFINE Inv == NotCounting /\ (faults = 0 => Accounts)
<1>1. Init => Inv
  BY InitOwed, InitAccounts
<1>2. ASSUME Shape, Shape', Inv, [Next]_vars PROVE Inv'
  <2>1. NotCounting'
    BY <1>2, NotCountingStep
  <2>2. ASSUME faults' = 0 PROVE Accounts'
    <3>1. faults = 0
      BY <1>2, <2>2, FaultsGrow, WorkTyped
    <3>2. QED
      BY <1>2, <2>2, <3>1, AccountsStep
  <2>3. QED
    BY <2>1, <2>2
<1>3. ASSUME Shape, Inv PROVE OffByShortfallOnly
  <2>1. SUFFICES ASSUME faults = 0, NEW p \in Posts
                 PROVE  LET total == counter[p] + Owed(p) + Unrecorded(p) IN
                        FactCount(p) <= total /\ total <= FactCount(p) - lowest[p]
    BY DEF OffByShortfallOnly
  <2>2. /\ accepted[p] + owing[p][1] - owing[p][-1] = Cardinality(LiveOf[p])
        /\ accepted[p] <= counter[p] + OwedNow[p]
        /\ counter[p] + OwedNow[p] <= accepted[p] - lowest[p]
    BY <1>3, <2>1 DEF Accounts, Recorded, Balance
  <2>3. /\ OwedNow[p] = Owed(p)
        /\ Unrecorded(p) = owing[p][1] - owing[p][-1]
        /\ FactCount(p) = Cardinality(LiveOf[p])
    BY DEF OwedNow, Unrecorded, FactCount, LiveOf
  <2>4. QED
    BY <1>3, <2>2, <2>3, TalliesTyped
<1> HIDE DEF Inv
<1>4. QED
  BY <1>1, <1>2, <1>3, ShapeAlways, PTL DEF Spec
=============================================================================
