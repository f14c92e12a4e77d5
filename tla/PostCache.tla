----------------------------- MODULE PostCache -----------------------------
(***************************************************************************)
(* One post, what Redis holds of it, and the comment count that readers    *)
(* are shown.  Its cache is split: mysql:post:core:{id} holds the post,    *)
(* mysql:post:stats:{id} the stored counts.  Both are filled by readers of *)
(* all roles and deleted by writers: the core by UpdatePost and            *)
(* DeletePost, the stats by whoever has written the stored counts.  The    *)
(* count shown is the stored one plus two deltas that are read live from   *)
(* Redis, in calls of their own, while batches go from the first delta     *)
(* (pending) to the second (processing) and into MySQL.                    *)
(*                                                                         *)
(* Requests of one role that miss the core share a flight (singleflight):  *)
(* the first does the work, and the others are given the same struct, to   *)
(* which each then adds the deltas that it reads.  (Left out: a flight     *)
(* that finds the core filled when it looks again, and the one for the     *)
(* stats, whose result is copied.)                                         *)
(*                                                                         *)
(* A GET that errs counts as a miss; a miss is one step with the SELECT it *)
(* leads to.  Batches of the post are booked one at a time.                *)
(***************************************************************************)
EXTENDS Integers

CONSTANTS
  Handlers,    \* requests being served at a time
  MaxUpdates,  \* bound: how often the post is edited
  MaxWrites,   \* bound: comments created or removed
  OldCount     \* the comment count of a post that is older than the behaviour

Own == "own"   \* the struct of a request that was given none

ASSUME PostCacheAssumption ==
  /\ MaxUpdates \in Nat /\ MaxWrites \in Nat /\ OldCount \in Nat
  /\ Own \notin Handlers

Counts == 0..(OldCount + MaxWrites)
Deltas == -MaxWrites..MaxWrites
Posts == [life : {"live", "deleted"}, ver : 0..MaxUpdates]

Absent == [no |-> "key"]
Null == [no |-> "post"]      \* the __nil__ value
None == [no |-> "row"]
NoStats == -1                \* no stats key

VARIABLES
  row,       \* the row of post: None before it is created
  stored,    \* comment_count in post_counter
  pending,   \* the post's field in the hash of pending deltas
  batch,     \* the batch being booked: its step and delta
  core,      \* mysql:post:core:{id}: Absent, Null or a post
  stats,     \* mysql:post:stats:{id}: NoStats or a count
  job,       \* job[h]: what h does and where it is; the post it has read, the count in its
             \* struct, the delta it has read, and whose struct it was given
  outdated,  \* history: "core" or "stats" was SET from an old SELECT, or missed its DEL
  truths,    \* history: the counts that were true while h read; none any more once a
             \* batch has been booked meanwhile, an old stats key read, a delta not, or the
             \* struct shared
  writes     \* deltas so far

dbVars == <<row, stored>>
deltaVars == <<pending, batch, writes>>
cacheVars == <<core, stats, outdated>>
vars == <<dbVars, deltaVars, cacheVars, job, truths>>

Idle == [op |-> "idle", at |-> "idle", saw |-> None, count |-> 0, delta |-> 0,
         struct |-> Own]
NoBatch == [at |-> "none", d |-> 0]

\* GetPostByID of students and tutors, and of operators, and ListTutorPosts
Readers == {"visitor", "operator", "list"}
Writers == {"update", "delete"}

TypeOK ==
  /\ row \in Posts \cup {None}
  /\ stored \in Counts
  /\ pending \in Deltas
  /\ batch \in [at : {"none", "processing", "booked", "cleared"}, d : Deltas]
  /\ core \in Posts \cup {Absent, Null}
  /\ stats \in Counts \cup {NoStats}
  /\ job \in [Handlers -> [op : Readers \cup Writers \cup {"idle"},
                           at : {"idle", "core", "setPage", "setCore", "counter", "setNull",
                                 "setBoth", "stats", "setStats", "waits", "pending",
                                 "processing", "store", "done", "write", "delKeys"},
                           saw : Posts \cup {None},
                           count : Nat, delta : Int,
                           struct : Handlers \cup {Own}]]
  /\ outdated \subseteq {"core", "stats"}
  /\ truths \in [Handlers -> SUBSET Counts]
  /\ writes \in 0..MaxWrites

Init ==
  /\ \/ row = None /\ stored = 0
     \/ row = [life |-> "live", ver |-> 0] /\ stored = OldCount
  /\ pending = 0
  /\ batch = NoBatch
  /\ core = Absent
  /\ stats = NoStats
  /\ job = [h \in Handlers |-> Idle]
  /\ outdated = {}
  /\ truths = [h \in Handlers |-> {}]
  /\ writes = 0

AtLeastZero(x) == IF x < 0 THEN 0 ELSE x

\* The facts that the count is about: what is stored, and what is still to be.
TrueCount == stored + pending + (IF batch.at = "processing" THEN batch.d ELSE 0)

Mark(key, isOld) == outdated' = IF isOld THEN outdated \cup {key} ELSE outdated \ {key}

Blur(S) == truths' = [h \in Handlers |-> IF h \in S THEN {} ELSE truths[h]]

----------------------------------------------------------------------------
(* comment-service records a delta, comment-task books it.                 *)

\* That the count stays at zero or above is taken of the writers, no line checks it: a removal
\* recorded before its addition is left to CounterPipeline (OffByShortfallOnly).
RecordDelta(d) ==
  /\ row # None
  /\ writes < MaxWrites
  /\ TrueCount + d >= 0
  /\ pending' = pending + d
  /\ writes' = writes + 1
  /\ truths' = [h \in Handlers |->
       IF truths[h] = {} THEN {} ELSE truths[h] \cup {TrueCount + d}]
  /\ UNCHANGED <<dbVars, batch, cacheVars, job>>

\* recordPostCommentCountDelta when Redis has refused the delta: the count is written at
\* once, and the stats key deleted after it, like that of a batch.
PostDirectly(d) ==
  /\ row # None /\ batch = NoBatch
  /\ writes < MaxWrites
  /\ TrueCount + d >= 0
  /\ stored' = AtLeastZero(stored + d)
  /\ batch' = [at |-> "cleared", d |-> 0]
  /\ writes' = writes + 1
  /\ Blur(Handlers)
  /\ UNCHANGED <<row, pending, cacheVars, job>>

\* The claim script.  A reader between its two HGETs may meet the delta in both hashes.
ClaimDelta ==
  /\ batch = NoBatch /\ pending # 0
  /\ batch' = [at |-> "processing", d |-> pending]
  /\ pending' = 0
  /\ Blur({h \in Handlers : job[h].at = "processing"})
  /\ UNCHANGED <<dbVars, writes, cacheVars, job>>

\* The transaction: until the clear the delta is in MySQL and in Redis.
BookBatch ==
  /\ batch.at = "processing"
  /\ stored' = AtLeastZero(stored + batch.d)
  /\ batch' = [batch EXCEPT !.at = "booked"]
  /\ Blur(Handlers)
  /\ UNCHANGED <<row, pending, writes, cacheVars, job>>

\* By the process that booked it, or by the recovery scan of any.
ClearBatch ==
  /\ batch.at = "booked"
  /\ batch' = [batch EXCEPT !.at = "cleared"]
  /\ UNCHANGED <<dbVars, pending, writes, cacheVars, job, truths>>

\* Mutant: the stats key is left to its time to live.
LeaveStats ==
  /\ batch.at = "cleared"
  /\ batch' = NoBatch
  /\ UNCHANGED <<dbVars, pending, writes, cacheVars, job, truths>>

DelStatsAfterClear ==
  /\ batch.at = "cleared"
  /\ batch' = NoBatch
  /\ stats' = NoStats
  /\ Mark("stats", FALSE)
  /\ UNCHANGED <<dbVars, pending, writes, core, job, truths>>

\* The DEL errs and is ignored, or the process stops before it.
DelStatsFails ==
  /\ batch.at = "cleared"
  /\ batch' = NoBatch
  /\ Mark("stats", stats # NoStats)
  /\ UNCHANGED <<dbVars, pending, writes, core, stats, job, truths>>

----------------------------------------------------------------------------
(* Reading: loadPostWithSplitCache, and what its callers add.              *)

\* Only students and tutors look at the post again (MaySee).
Kept(op, post) == IF op = "visitor" THEN post ELSE None

GoTo(h, step) == job' = [job EXCEPT ![h].at = step]
Given(h) == {g \in Handlers : job[g].struct = h}

\* (A request whose struct others hold is kept until they are done.)
Done(h) ==
  /\ Given(h) = {}
  /\ job' = [job EXCEPT ![h] = Idle]
  /\ truths' = [truths EXCEPT ![h] = {}]

\* Operators find a post in any state, the others only a published one.
QueryPost(op) == row # None /\ (op = "operator" \/ row.life = "live")

\* A post may be asked for once it has its id.
Begin(h, op) ==
  /\ row # None
  /\ job[h] = Idle
  /\ job' = [job EXCEPT ![h] = [Idle EXCEPT !.op = op, !.at = "core"]]
  /\ truths' = [truths EXCEPT ![h] = IF batch.at = "booked" THEN {} ELSE {TrueCount}]
  /\ UNCHANGED <<dbVars, deltaVars, cacheVars>>

\* ListTutorPosts: the page of ids is not in the cache.  The posts that are selected for
\* it go to their core keys (SetPage); then the page is loaded like a cached one.
SelectPage(h) ==
  /\ job[h].op = "list" /\ job[h].at = "core" /\ job[h].saw = None
  /\ QueryPost("list")
  /\ job' = [job EXCEPT ![h].at = "setPage", ![h].saw = row]
  /\ UNCHANGED <<dbVars, deltaVars, cacheVars, truths>>

CoreHit(h) ==
  /\ job[h].at = "core"
  /\ core \in Posts
  /\ job' = [job EXCEPT ![h].at = IF job[h].op = "list" THEN "counter" ELSE "stats",
                        ![h].saw = Kept(job[h].op, core)]
  /\ UNCHANGED <<dbVars, deltaVars, cacheVars, truths>>

\* group.Do: the request has missed the core, and one of its kind is about to load it.
Join(h, g) ==
  /\ job[h].at = "core" /\ job[h].op # "list"
  /\ job[g].op = job[h].op /\ job[g].struct = Own
  /\ job[g].at \in {"counter", "setBoth", "setNull"}
  /\ job' = [job EXCEPT ![h].at = "waits", ![h].struct = g]
  /\ Blur({h, g})
  /\ UNCHANGED <<dbVars, deltaVars, cacheVars>>

\* The flight of h lands: it and those who wait for it go on, with one post.
Land(h) ==
  job' = [g \in Handlers |->
    IF g = h \/ g \in Given(h)
      THEN [job[g] EXCEPT !.at = "pending", !.saw = Kept(job[h].op, job[h].saw)]
      ELSE job[g]]

\* It has found no post.
LandEmpty(h) ==
  /\ job' = [g \in Handlers |-> IF g = h \/ g \in Given(h) THEN Idle ELSE job[g]]
  /\ truths' = [g \in Handlers |-> IF g = h \/ g \in Given(h) THEN {} ELSE truths[g]]

\* A list takes the null value for a miss.
CoreIsNull(h) ==
  /\ job[h].at = "core" /\ job[h].op # "list"
  /\ core = Null
  /\ Done(h)
  /\ UNCHANGED <<dbVars, deltaVars, cacheVars>>

\* No key, or an error: the post is selected, and its counter after it.  A list takes its
\* counters from MySQL in the end, and leaves out a post it does not find.
SelectPost(h) ==
  /\ job[h].at = "core"
  /\ IF QueryPost(job[h].op)
       THEN /\ job' = [job EXCEPT ![h].at = IF job[h].op = "list" THEN "setCore" ELSE "counter",
                                  ![h].saw = row]
            /\ UNCHANGED truths
       ELSE IF job[h].op = "list" THEN Done(h) ELSE GoTo(h, "setNull") /\ UNCHANGED truths
  /\ UNCHANGED <<dbVars, deltaVars, cacheVars>>

SelectCounter(h) ==
  /\ job[h].at = "counter"
  /\ job' = [job EXCEPT ![h].at = IF job[h].op = "list" THEN "pending" ELSE "setBoth",
                        ![h].count = stored]
  /\ UNCHANGED <<dbVars, deltaVars, cacheVars, truths>>

\* writePostCoreCaches, from a list.
SetCoreOf(h) ==
  /\ core' = job[h].saw
  /\ Mark("core", job[h].saw # row)
  /\ UNCHANGED <<dbVars, deltaVars, stats, truths>>

LeavePage(h) == job[h].at = "setPage" /\ GoTo(h, "core")
LeaveCore(h) ==
  /\ job[h].at = "setCore"
  /\ job' = [job EXCEPT ![h].at = "counter", ![h].saw = None]

SetPage(h) == LeavePage(h) /\ SetCoreOf(h)
SetCore(h) == LeaveCore(h) /\ SetCoreOf(h)

\* writePostSplitCache: one transaction of Redis sets both.
SetBoth(h) ==
  /\ job[h].at = "setBoth"
  /\ Land(h)
  /\ core' = job[h].saw
  /\ stats' = job[h].count
  /\ outdated' = {k \in {"core", "stats"} :
       IF k = "core" THEN job[h].saw # row ELSE job[h].count # stored}
  /\ UNCHANGED <<dbVars, deltaVars, truths>>

\* Mutant: an empty value is SET instead of __nil__.
SetEmpty(h) ==
  /\ job[h].at = "setNull"
  /\ LandEmpty(h)
  /\ core' = None
  /\ Mark("core", FALSE)
  /\ UNCHANGED <<dbVars, deltaVars, stats>>

SetNull(h) ==
  /\ job[h].at = "setNull"
  /\ LandEmpty(h)
  /\ core' = Null
  /\ Mark("core", FALSE)
  /\ UNCHANGED <<dbVars, deltaVars, stats>>

StatsHit(h) ==
  /\ job[h].at = "stats"
  /\ stats # NoStats
  /\ job' = [job EXCEPT ![h].at = "pending", ![h].count = stats]
  /\ Blur(IF stats = stored THEN {} ELSE {h})
  /\ UNCHANGED <<dbVars, deltaVars, cacheVars>>

\* No key, or an error.
SelectStats(h) ==
  /\ job[h].at = "stats"
  /\ job' = [job EXCEPT ![h].at = "setStats", ![h].count = stored]
  /\ UNCHANGED <<dbVars, deltaVars, cacheVars, truths>>

SetStats(h) ==
  /\ job[h].at = "setStats"
  /\ GoTo(h, "pending")
  /\ stats' = job[h].count
  /\ Mark("stats", job[h].count # stored)
  /\ UNCHANGED <<dbVars, deltaVars, core, truths>>

\* A SET that errs is ignored.
SetFails(h) ==
  /\ \/ (LeavePage(h) \/ LeaveCore(h)) /\ UNCHANGED truths
     \/ job[h].at = "setBoth" /\ Land(h) /\ UNCHANGED truths
     \/ job[h].at = "setStats" /\ GoTo(h, "pending") /\ UNCHANGED truths
     \/ job[h].at = "setNull" /\ LandEmpty(h)
  /\ UNCHANGED <<dbVars, deltaVars, cacheVars>>

MaySee(h) == job[h].op = "visitor" => job[h].saw.life = "live"

\* Students and tutors check the state of what they found, except in a list.
TurnedDown(h) ==
  /\ job[h].at = "pending" /\ ~MaySee(h)
  /\ Done(h)
  /\ UNCHANGED <<dbVars, deltaVars, cacheVars>>

Count(h) == IF job[h].struct = Own THEN job[h].count ELSE job[job[h].struct].count

IsShared(h) == job[h].struct # Own \/ Given(h) # {}

\* counterDelta reads pending and processing_sum ...
HasPending(h, n) ==
  /\ job[h].at = "pending" /\ MaySee(h)
  /\ job' = [job EXCEPT ![h].at = "processing", ![h].delta = n, ![h].saw = None]

\* ... and applyPendingPostCommentCountDelta adds them to the count in the struct: it
\* loads the count, and stores the sum, in a step of its own if others hold the struct.
HasProcessing(h, n) ==
  LET sum == AtLeastZero(Count(h) + job[h].delta + n) IN
  /\ job[h].at = "processing"
  /\ job' = [job EXCEPT ![h] =
       IF IsShared(h)
         THEN [@ EXCEPT !.at = "store", !.delta = sum]
         ELSE [@ EXCEPT !.at = "done", !.delta = 0, !.count = sum]]

ReadPending(h) ==
  /\ HasPending(h, pending)
  /\ UNCHANGED <<dbVars, deltaVars, cacheVars, truths>>

\* Mutant: only the pending delta is added.
PendingOnly == 0

ProcessingSum == IF batch.at \in {"processing", "booked"} THEN batch.d ELSE 0

ReadProcessing(h) ==
  /\ HasProcessing(h, ProcessingSum)
  /\ UNCHANGED <<dbVars, deltaVars, cacheVars, truths>>

\* A delta that cannot be read counts as none.
DeltaUnread(h) ==
  /\ HasPending(h, 0) \/ HasProcessing(h, 0)
  /\ Blur({h})
  /\ UNCHANGED <<dbVars, deltaVars, cacheVars>>

StoreCount(h) ==
  /\ job[h].at = "store"
  /\ LET g == IF job[h].struct = Own THEN h ELSE job[h].struct IN
     job' = [job EXCEPT ![g].count = job[h].delta, ![h].at = "done", ![h].delta = 0]
  /\ UNCHANGED <<dbVars, deltaVars, cacheVars, truths>>

\* The count in the struct is copied to the reply.
Answer(h) ==
  /\ job[h].at = "done"
  /\ Done(h)
  /\ UNCHANGED <<dbVars, deltaVars, cacheVars>>

----------------------------------------------------------------------------
(* Writing.                                                                *)

\* The post and its counter in one transaction; no key is touched.
CreatePost ==
  /\ row = None
  /\ row' = [life |-> "live", ver |-> 0]
  /\ UNCHANGED <<stored, deltaVars, cacheVars, job, truths>>

\* The biz layer has found the post, and its author to be the caller.
BeginWrite(h, op) ==
  /\ job[h].op = "visitor" /\ job[h].at = "done" /\ Given(h) = {}
  /\ job' = [job EXCEPT ![h] = [Idle EXCEPT !.op = op, !.at = "write"]]
  /\ truths' = [truths EXCEPT ![h] = {}]
  /\ UNCHANGED <<dbVars, deltaVars, cacheVars>>

\* UPDATE ... WHERE post_id = ?.  The check may have read an old core: the post may be
\* deleted by then.
WritePost(h) ==
  /\ job[h].at = "write"
  /\ \/ /\ job[h].op = "update"
        /\ row.ver < MaxUpdates
        /\ row' = [row EXCEPT !.ver = @ + 1]
     \/ /\ job[h].op = "delete"
        /\ row' = [row EXCEPT !.life = "deleted"]
  /\ GoTo(h, "delKeys")
  /\ UNCHANGED <<stored, deltaVars, cacheVars, truths>>

\* The UPDATE errs, or its edit is one too many for the bound.
WriteFails(h) ==
  /\ job[h].at = "write"
  /\ Done(h)
  /\ UNCHANGED <<dbVars, deltaVars, cacheVars>>

\* Mutant: an edit deletes the stats, and not the core.
UpdateDropsStats(h) ==
  /\ job[h].at = "delKeys"
  /\ Done(h)
  /\ stats' = NoStats
  /\ IF job[h].op = "delete"
       THEN core' = Absent /\ outdated' = {}
       ELSE UNCHANGED core /\ Mark("stats", FALSE)
  /\ UNCHANGED <<dbVars, deltaVars>>

DelKeys(h) ==
  /\ job[h].at = "delKeys"
  /\ Done(h)
  /\ core' = Absent
  /\ IF job[h].op = "delete"
       THEN stats' = NoStats /\ outdated' = {}
       ELSE UNCHANGED stats /\ Mark("core", FALSE)
  /\ UNCHANGED <<dbVars, deltaVars>>

\* The DEL errs and is ignored, or the process stops before it.
DelKeysFails(h) ==
  /\ job[h].at = "delKeys"
  /\ Done(h)
  /\ Mark("core", TRUE)
  /\ UNCHANGED <<dbVars, deltaVars, core, stats>>

ExpireCore ==
  /\ core # Absent
  /\ core' = Absent
  /\ Mark("core", FALSE)
  /\ UNCHANGED <<dbVars, deltaVars, stats, job, truths>>

ExpireStats ==
  /\ stats # NoStats
  /\ stats' = NoStats
  /\ Mark("stats", FALSE)
  /\ UNCHANGED <<dbVars, deltaVars, core, job, truths>>

----------------------------------------------------------------------------
Arrive(h) ==
  \/ \E op \in Readers : Begin(h, op)
  \/ \E op \in Writers : BeginWrite(h, op)

Proceed(h) ==
  \/ SelectPage(h) \/ CoreHit(h) \/ CoreIsNull(h) \/ SelectPost(h) \/ SelectCounter(h)
  \/ SetPage(h) \/ SetCore(h) \/ SetBoth(h) \/ SetNull(h) \/ StatsHit(h) \/ SelectStats(h) \/ SetStats(h)
  \/ (\E g \in Handlers : Join(h, g)) \/ TurnedDown(h)
  \/ ReadPending(h) \/ ReadProcessing(h) \/ StoreCount(h) \/ Answer(h)
  \/ WritePost(h) \/ DelKeys(h)

Fail(h) == SetFails(h) \/ DeltaUnread(h) \/ WriteFails(h) \/ DelKeysFails(h)

BookDeltas ==
  \/ \E d \in {-1, 1} : RecordDelta(d) \/ PostDirectly(d)
  \/ ClaimDelta \/ BookBatch \/ ClearBatch \/ DelStatsAfterClear \/ DelStatsFails

Next ==
  \/ CreatePost
  \/ \E h \in Handlers : Arrive(h) \/ Proceed(h) \/ Fail(h)
  \/ BookDeltas
  \/ ExpireCore \/ ExpireStats

Spec == Init /\ [][Next]_vars

----------------------------------------------------------------------------
(* Properties.                                                             *)

\* The core agrees with the row, except while a writer is between its UPDATE and its DEL,
\* after a DEL that did not happen, or after a SET of what was selected before the UPDATE.
CoreStaleOnlyByRace ==
  \/ core = Absent \/ core = row \/ "core" \in outdated
  \/ core = Null /\ row.life = "deleted"
  \/ \E h \in Handlers : job[h].at = "delKeys"

\* The stats agree with post_counter, except while a writer of post_counter is between its
\* write and the DEL, after a DEL that did not happen, or after a late SET.
StatsStaleOnlyByRace ==
  \/ stats = NoStats \/ stats = stored \/ "stats" \in outdated
  \/ batch.at \in {"booked", "cleared"}

\* The count in an answer was true at some time during the request, unless a batch was
\* booked meanwhile, the stats key was already old, Redis did not answer, or the struct was
\* shared: the sum of three stores, read in four calls, counts no delta twice and none not
\* at all as a batch moves from one to the next.
CountShownWasTrue ==
  \A h \in Handlers :
    job[h].at = "done" /\ truths[h] # {} => Count(h) \in truths[h]

\* What the README says: the count shown is the stored one plus the deltas.  As long as all
\* that was written is pending and adds up, it is no more than that.  (Not so for requests
\* that share a flight: each adds the delta to the one struct.)
CountIsStoredPlusDeltas ==
  pending = writes =>
    \A h \in Handlers : job[h].at = "done" => Count(h) <= stored + pending
=============================================================================
