------------------------------- MODULE ESSync -------------------------------
(***************************************************************************)
(* The Elasticsearch side of comment-task: the rows Canal publishes to one *)
(* Kafka partition, for one document, become versions of that document.    *)
(*                                                                         *)
(* Each instance of comment-task runs a consumer (fetch, process, commit   *)
(* the offset) and a retry worker (scan es_sync_retry, process each row).  *)
(* Both process an event the same way: GET the version the document has,   *)
(* skip an event that is not newer, index the others with external_gte.    *)
(* What fails in the consumer is saved for the retry worker, which gives   *)
(* up into es_sync_dlq.  The partition may move to another instance while  *)
(* the old one is in the middle of an event.                               *)
(***************************************************************************)
EXTENDS Integers, FiniteSets

CONSTANTS
  Instances,    \* comment-task processes
  NumEvents,    \* events 1..NumEvents, in the order of the binlog and of the partition
  VersionOf,    \* VersionOf[e]: the binlog file number and position of e
  Factor,       \* esExternalVersionFactor
  Poison,       \* the events no document can be built from
  MaxAttempts,  \* esRetryMaxAttempts
  Faults,       \* the kinds of failure that may happen
  MaxFaults     \* bound: failures in a behaviour

Events == 1..NumEvents

FaultKinds ==
  {"get",        \* the GET errs
   "index",      \* the document is not written, and the call errs
   "reply",      \* the document is written, and the call errs
   "db",         \* a statement on es_sync_retry or es_sync_dlq fails
   "ddl",        \* the CREATE TABLEs of es_sync_retry and es_sync_dlq fail
   "crash",      \* an instance stops and is started again
   "rebalance"}  \* the partition moves to another instance

\* A later event is in a later file, or further on in the same; positions stay below
\* the factor (the comment at esExternalVersionFactor).
ASSUME ESSyncAssumption ==
  /\ IsFiniteSet(Instances)
  /\ NumEvents \in Nat
  /\ Factor \in Nat /\ MaxAttempts \in Nat \ {0} /\ MaxFaults \in Nat
  /\ Poison \subseteq Events
  /\ Faults \subseteq FaultKinds
  /\ VersionOf \in [Events -> [seq : Nat, pos : 1..(Factor - 1)]]
  /\ \A d, e \in Events : d < e =>
       \/ VersionOf[d].seq < VersionOf[e].seq
       \/ VersionOf[d].seq = VersionOf[e].seq /\ VersionOf[d].pos < VersionOf[e].pos

\* Every saved row is the consequence of a failure.
RowIds == 1..MaxFaults

VARIABLES
  committed,  \* the committed offset: events 1..committed are done with
  owner,      \* the instance the partition is assigned to
  next,       \* next[i]: the next event the consumer of i would fetch
  doing,      \* doing[i]: the step and the event of the consumer of i
  doc,        \* the event the document was last built from; 0 if there is none
  esVersion,  \* the document's _version
  saved,      \* saved[id]: the event of the es_sync_retry row, 0 if there is no row
  retries,    \* retries[id]: its retry_count
  nextRow,    \* the next AUTO_INCREMENT id
  tables,     \* tables[i]: what the sync.Once of i has kept of creating the two tables
  scan,       \* scan[i]: the rows the retry worker of i has read and not processed
  trying,     \* trying[i]: the step and the row of the retry worker of i
  dlq,        \* the events in es_sync_dlq
  faults      \* failures so far

docVars == <<doc, esVersion>>
retryVars == <<saved, retries, nextRow>>
consumerVars == <<committed, owner, next, doing>>
workerVars == <<scan, trying>>
vars == <<consumerVars, docVars, retryVars, workerVars, tables, dlq, faults>>

SavedRow == [id : RowIds, ev : Events, n : 0..(MaxAttempts - 1)]
NoRow == [id |-> 0, ev |-> 0, n |-> 0]

Doing(step, e) == [at |-> step, ev |-> e]
Resting == Doing("fetch", 0)
Trying(step, r) == [at |-> step, row |-> r]
Idle == Trying("idle", NoRow)

TypeOK ==
  /\ committed \in 0..NumEvents
  /\ owner \in Instances
  /\ next \in [Instances -> 1..(NumEvents + 1)]
  /\ doing \in [Instances -> [at : {"fetch", "get", "index", "save", "bury", "commit"},
                              ev : 0..NumEvents]]
  /\ doc \in 0..NumEvents
  /\ esVersion \in Nat
  /\ saved \in [RowIds -> 0..NumEvents]
  /\ retries \in [RowIds -> 0..(MaxAttempts - 1)]
  /\ nextRow \in 1..(MaxFaults + 1)
  /\ tables \in [Instances -> {"untried", "ready", "failed"}]
  /\ scan \in [Instances -> SUBSET SavedRow]
  /\ trying \in [Instances -> [at : {"idle", "get", "index", "done", "failed"},
                               row : SavedRow \cup {NoRow}]]
  /\ dlq \subseteq Events
  /\ faults \in 0..MaxFaults

Init ==
  /\ committed = 0
  /\ owner \in Instances
  /\ next = [i \in Instances |-> 1]
  /\ doing = [i \in Instances |-> Resting]
  /\ doc = 0
  /\ esVersion = 0
  /\ saved = [id \in RowIds |-> 0]
  /\ retries = [id \in RowIds |-> 0]
  /\ nextRow = 1
  /\ tables = [i \in Instances |-> "untried"]
  /\ scan = [i \in Instances |-> {}]
  /\ trying = [i \in Instances |-> Idle]
  /\ dlq = {}
  /\ faults = 0

NoFault == UNCHANGED faults
Fault(k) == k \in Faults /\ faults < MaxFaults /\ faults' = faults + 1

----------------------------------------------------------------------------
(* processCanalRow.                                                        *)

\* Mutant: positions of different files are compared.
NewerPosition(v, w) == v.pos > w.pos

\* isNewerSyncVersion
IsNewer(v, w) == IF v.seq = w.seq THEN v.pos > w.pos ELSE v.seq > w.seq

\* The GET finds a document that is as new as e, or newer.
IsOld(e) == doc # 0 /\ ~IsNewer(VersionOf[e], VersionOf[doc])

ExternalVersion(e) == VersionOf[e].seq * Factor + VersionOf[e].pos

\* Mutant: the document is written without a version.
IndexAnyway(e) ==
  /\ doc' = e
  /\ esVersion' = esVersion + 1

\* Elasticsearch takes the document if its external version is not lower; a refusal
\* (409) counts as success.
IndexDocument(e) ==
  IF ExternalVersion(e) >= esVersion
    THEN doc' = e /\ esVersion' = ExternalVersion(e)
    ELSE UNCHANGED docVars

----------------------------------------------------------------------------
(* The consumer.                                                           *)

GoTo(i, step) == doing' = [doing EXCEPT ![i] = Doing(step, doing[i].ev)]

FetchMessage(i) ==
  /\ doing[i].at = "fetch"
  /\ owner = i
  /\ next[i] <= NumEvents
  /\ doing' = [doing EXCEPT ![i] = Doing(IF next[i] \in Poison THEN "bury" ELSE "get", next[i])]
  /\ next' = [next EXCEPT ![i] = @ + 1]
  /\ NoFault
  /\ UNCHANGED <<committed, owner, docVars, retryVars, workerVars, tables, dlq>>

GetVersion(i) ==
  /\ doing[i].at = "get"
  /\ \/ /\ GoTo(i, IF IsOld(doing[i].ev) THEN "commit" ELSE "index")
        /\ NoFault
     \/ /\ GoTo(i, "save")
        /\ Fault("get")
  /\ UNCHANGED <<committed, owner, next, docVars, retryVars, workerVars, tables, dlq>>

Index(i) ==
  LET e == doing[i].ev IN
  /\ doing[i].at = "index"
  /\ \/ IndexDocument(e) /\ GoTo(i, "commit") /\ NoFault
     \/ UNCHANGED docVars /\ GoTo(i, "save") /\ Fault("index")
     \/ IndexDocument(e) /\ GoTo(i, "save") /\ Fault("reply")
  /\ UNCHANGED <<committed, owner, next, retryVars, workerVars, tables, dlq>>

\* ensureESSyncRetryTables: the first call of a process creates the tables, and every
\* later one returns what the first one did, an error too.
TablesReady(i) ==
  /\ tables[i] # "failed"
  /\ tables' = [tables EXCEPT ![i] = "ready"]

SaveRetry(i) ==
  /\ doing[i].at = "save"
  /\ TablesReady(i)
  /\ saved' = [saved EXCEPT ![nextRow] = doing[i].ev]
  /\ nextRow' = nextRow + 1
  /\ GoTo(i, "commit")
  /\ NoFault
  /\ UNCHANGED <<committed, owner, next, docVars, retries, workerVars, dlq>>

\* savePoisonPayloadToDLQ
Bury(i) ==
  /\ doing[i].at = "bury"
  /\ TablesReady(i)
  /\ dlq' = dlq \cup {doing[i].ev}
  /\ GoTo(i, "commit")
  /\ NoFault
  /\ UNCHANGED <<committed, owner, next, docVars, retryVars, workerVars>>

\* The group may still take the commit of an instance that has lost the partition.
CommitMessage(i) ==
  /\ doing[i].at = "commit"
  /\ committed' = doing[i].ev
  /\ doing' = [doing EXCEPT ![i] = Resting]
  /\ NoFault
  /\ UNCHANGED <<owner, next, docVars, retryVars, workerVars, tables, dlq>>

\* Instance i stops and is started again, and fetches from the committed offset.
Restart(i) ==
  /\ doing' = [doing EXCEPT ![i] = Resting]
  /\ next' = [next EXCEPT ![i] = committed + 1]
  /\ scan' = [scan EXCEPT ![i] = {}]
  /\ trying' = [trying EXCEPT ![i] = Idle]
  /\ tables' = [tables EXCEPT ![i] = "untried"]
  /\ UNCHANGED <<committed, owner, docVars, retryVars, dlq>>

\* Or it refuses that commit: Start returns, and the process ends with it.
CommitRefused(i) ==
  /\ doing[i].at = "commit"
  /\ owner # i
  /\ Restart(i)
  /\ NoFault

\* Neither the retry row nor the DLQ row can be written: Start returns.
SaveFails(i) ==
  /\ doing[i].at \in {"save", "bury"}
  /\ tables[i] # "failed"
  /\ Fault("db") \/ (tables[i] = "untried" /\ Fault("ddl"))
  /\ Restart(i)

\* As SaveFails, for the error this process has kept.
SaveRefused(i) ==
  /\ doing[i].at \in {"save", "bury"}
  /\ tables[i] = "failed"
  /\ Restart(i)
  /\ NoFault

Crash(i) ==
  /\ doing[i] # Resting \/ tables[i] # "untried"
  /\ Fault("crash")
  /\ Restart(i)

\* The new owner fetches from the committed offset.
Rebalance(i) ==
  /\ i # owner
  /\ Fault("rebalance")
  /\ owner' = i
  /\ next' = [next EXCEPT ![i] = committed + 1]
  /\ UNCHANGED <<committed, doing, docVars, retryVars, workerVars, tables, dlq>>

----------------------------------------------------------------------------
(* The retry worker.                                                       *)

RowsNow == {[id |-> id, ev |-> saved[id], n |-> retries[id]] : id \in {d \in RowIds : saved[d] # 0}}

BetweenScans(i) == trying[i] = Idle /\ scan[i] = {}

\* The tick makes sure of the tables, and the SELECT reads the rows that are due, any of
\* those there are; no row is locked.  (A SELECT that errs reads nothing: no step.)
ScanRetries(i, S) ==
  /\ BetweenScans(i)
  /\ TablesReady(i)
  /\ scan' = [scan EXCEPT ![i] = S]
  /\ UNCHANGED <<consumerVars, docVars, retryVars, trying, dlq, faults>>

\* The database is down at the first tick of the processes in I, one failure: they cannot
\* create the tables, and read nothing, nor does any later tick of theirs.
ScanFails(I) ==
  /\ \A i \in I : BetweenScans(i) /\ tables[i] = "untried"
  /\ Fault("ddl")
  /\ tables' = [i \in Instances |-> IF i \in I THEN "failed" ELSE tables[i]]
  /\ UNCHANGED <<consumerVars, docVars, retryVars, workerVars, dlq>>

\* The loop over the rows, in the order of their ids.
TakeRow(i) ==
  /\ trying[i] = Idle
  /\ \E r \in scan[i] :
       /\ \A s \in scan[i] : r.id <= s.id
       /\ trying' = [trying EXCEPT ![i] = Trying("get", r)]
       /\ scan' = [scan EXCEPT ![i] = scan[i] \ {r}]
  /\ UNCHANGED <<consumerVars, docVars, retryVars, tables, dlq, faults>>

TryStep(i, step) == trying' = [trying EXCEPT ![i] = Trying(step, trying[i].row)]

RetryGet(i) ==
  LET e == trying[i].row.ev IN
  /\ trying[i].at = "get"
  /\ \/ TryStep(i, IF IsOld(e) THEN "done" ELSE "index") /\ NoFault
     \/ TryStep(i, "failed") /\ Fault("get")
  /\ UNCHANGED <<consumerVars, docVars, retryVars, scan, tables, dlq>>

RetryIndex(i) ==
  LET e == trying[i].row.ev IN
  /\ trying[i].at = "index"
  /\ \/ IndexDocument(e) /\ TryStep(i, "done") /\ NoFault
     \/ UNCHANGED docVars /\ TryStep(i, "failed") /\ Fault("index")
     \/ IndexDocument(e) /\ TryStep(i, "failed") /\ Fault("reply")
  /\ UNCHANGED <<consumerVars, retryVars, scan, tables, dlq>>

\* retry_count after another failure
Counted(n) == n + 1

GivesUp(n) == n >= MaxAttempts

DeleteRow(id) == saved' = [saved EXCEPT ![id] = 0] /\ UNCHANGED <<retries, nextRow>>

\* Mutant: the row is deleted, and not inserted into es_sync_dlq.
DropRow(r) == DeleteRow(r.id) /\ UNCHANGED dlq

MoveToDLQ(r) == DeleteRow(r.id) /\ dlq' = dlq \cup {r.ev}

\* UPDATE ... WHERE id = ?: from the count that was read, and only if the row is there.
CountFailure(r) ==
  /\ retries' = IF saved[r.id] = 0 THEN retries ELSE [retries EXCEPT ![r.id] = Counted(r.n)]
  /\ UNCHANGED <<saved, nextRow, dlq>>

SettleRow(i) ==
  LET r == trying[i].row IN
  /\ \/ trying[i].at = "done" /\ DeleteRow(r.id) /\ UNCHANGED dlq
     \/ /\ trying[i].at = "failed"
        /\ IF GivesUp(Counted(r.n)) THEN MoveToDLQ(r) ELSE CountFailure(r)
  /\ trying' = [trying EXCEPT ![i] = Idle]
  /\ UNCHANGED <<consumerVars, docVars, scan, tables, faults>>

\* An error of the database ends the scan.
SettleFails(i) ==
  /\ trying[i].at \in {"done", "failed"}
  /\ Fault("db")
  /\ trying' = [trying EXCEPT ![i] = Idle]
  /\ scan' = [scan EXCEPT ![i] = {}]
  /\ UNCHANGED <<consumerVars, docVars, retryVars, tables, dlq>>

----------------------------------------------------------------------------
Consume(i) ==
  \/ FetchMessage(i) \/ GetVersion(i) \/ Index(i) \/ SaveRetry(i) \/ Bury(i)
  \/ CommitMessage(i) \/ CommitRefused(i) \/ SaveRefused(i)

Retry(i) == TakeRow(i) \/ RetryGet(i) \/ RetryIndex(i) \/ SettleRow(i)

Next ==
  \/ \E I \in (SUBSET Instances) \ {{}} : ScanFails(I)
  \/ \E i \in Instances :
       \/ Consume(i)
       \/ \E S \in SUBSET RowsNow : ScanRetries(i, S)
       \/ Retry(i)
       \/ SaveFails(i) \/ SettleFails(i) \/ Crash(i) \/ Rebalance(i)

Spec == Init /\ [][Next]_vars

\* Both goroutines of every instance go on, and the ticks of a process that has the tables,
\* or has still to create them, find every row due again and again.
FairSpec ==
  /\ Spec
  /\ \A i \in Instances :
       /\ WF_vars(Consume(i))
       /\ WF_vars(Retry(i))
       /\ SF_vars(ScanRetries(i, RowsNow))

----------------------------------------------------------------------------
(* Properties.                                                             *)

\* The document never goes back to an older event, although two consumers and two retry
\* workers may sit between their GET and their write ("stale, duplicate, and
\* out-of-order events are rejected atomically", README).
NeverOlder == [][doc' >= doc]_vars

\* An event whose offset is committed is in the index, overtaken by a newer one there,
\* waiting in es_sync_retry, or in es_sync_dlq: neither crash, rebalance, nor failed
\* call loses it.
NothingForgotten ==
  \A e \in 1..committed : doc >= e \/ e \in dlq \/ \E id \in RowIds : saved[id] = e

Settled(e) == doc >= e \/ e \in dlq

\* The event has a row, and no process reads es_sync_retry any more.
NobodyScans(e) ==
  /\ \A i \in Instances : tables[i] = "failed"
  /\ \E id \in RowIds : saved[id] = e

\* In the end every event is in the index, overtaken there, or in es_sync_dlq.  The one
\* thing that can keep a saved row from it is a failed CREATE TABLE at the first tick of
\* every process that runs, which they keep until they are started again.
EventuallySettled == <>[](\A e \in Events : Settled(e) \/ NobodyScans(e))

\* "Retried in the background three times, and then moved to es_sync_dlq" (README.md of
\* comment-task), without that exception.
RetriedThenGivenUp == <>[](\A e \in Events : Settled(e))
=============================================================================
