---------------------------- MODULE LikeRelation ----------------------------
(***************************************************************************)
(* LikePost and UnlikePost of comment-service for one student and one      *)
(* post: the post_like row, its status cache, and the short Redis lock     *)
(* that keeps the requests of this student for this post apart.            *)
(*                                                                         *)
(* Handlers are requests.  The lock and the cache live in Redis, the row   *)
(* in MySQL; each call to either is a step of its own.  What becomes of a  *)
(* recorded delta is the subject of CounterPipeline.                       *)
(***************************************************************************)
EXTENDS Integers, FiniteSets, Functions

CONSTANTS
  Handlers,     \* requests, each served once
  OpOf,         \* OpOf[h]: "like" or "unlike"
  NoHandler,    \* not a request: the lock is free
  MaxAttempts,  \* postLikeTxnMaxAttempts
  Faults,       \* the kinds of failure that may happen
  MaxFaults     \* bound: failures in a behaviour

FaultKinds ==
  {"lock",    \* SETNX errs, having set the key or not
   "expiry",  \* the 3 s of the lock pass while its holder runs
   "get",     \* the cache GET errs
   "set",     \* the cache SET errs
   "busy",    \* MySQL answers deadlock or lock wait timeout
   "reply",   \* the write takes effect, and the call errs
   "crash"}   \* the request is cut off

ASSUME LikeAssumption ==
  /\ OpOf \in [Handlers -> {"like", "unlike"}]
  /\ IsFiniteSet(Handlers)
  /\ NoHandler \notin Handlers
  /\ MaxAttempts \in Nat \ {0}
  /\ Faults \subseteq FaultKinds
  /\ MaxFaults \in Nat

VARIABLES
  row,      \* post_like.status; "absent" if there is no row
  cache,    \* the cached status; "absent" on a miss
  lock,     \* whose token the lock key holds
  at,       \* at[h]: the step h is at
  locked,   \* the handlers that will unlock: SETNX answered true
  tries,    \* tries[h]: attempts of the write so far
  changed,  \* the handlers whose write changed the row
  result,   \* result[h]: the answer of h
  delta,    \* sum of the deltas handed to the counter queue
  cutOff,   \* handlers that changed the row and will never record it
  met,      \* the handlers during whose run the row was, at some time, as they want it
  seen,     \* kinds of the failures so far
  faults    \* failures so far

vars == <<row, cache, lock, at, locked, tries, changed, result, delta, cutOff, met, seen, faults>>

Wanted(h) == IF OpOf[h] = "like" THEN "active" ELSE "inactive"
DeltaOf(h) == IF OpOf[h] = "like" THEN 1 ELSE -1

Steps == {"start", "check", "write", "fill", "record", "unlock", "done"}

\* The handlers that have been started and have not answered.
Running == {h \in Handlers : at[h] \in {"check", "write", "fill", "record", "unlock"}}

TypeOK ==
  /\ row \in {"absent", "active", "inactive"}
  /\ cache \in {"absent", "active", "inactive"}
  /\ lock \in Handlers \cup {NoHandler}
  /\ at \in [Handlers -> Steps]
  /\ locked \subseteq Handlers
  /\ tries \in [Handlers -> 0..MaxAttempts]
  /\ changed \subseteq Handlers
  /\ result \in [Handlers -> {"none", "ok", "busy", "notLiked", "error"}]
  /\ delta \in Int
  /\ cutOff \subseteq changed
  /\ met \subseteq Handlers
  /\ seen \subseteq Faults
  /\ faults \in 0..MaxFaults

Init ==
  /\ row = "absent"
  /\ cache = "absent"
  /\ lock = NoHandler
  /\ at = [h \in Handlers |-> "start"]
  /\ locked = {}
  /\ tries = [h \in Handlers |-> 0]
  /\ changed = {}
  /\ result = [h \in Handlers |-> "none"]
  /\ delta = 0
  /\ cutOff = {}
  /\ met = {}
  /\ seen = {}
  /\ faults = 0

Fault(k) ==
  /\ k \in Faults /\ faults < MaxFaults
  /\ faults' = faults + 1
  /\ seen' = seen \cup {k}

NoFault == UNCHANGED <<seen, faults>>

GoTo(h, step) == at' = [at EXCEPT ![h] = step]
Answer(h, r) == result' = [result EXCEPT ![h] = r]

----------------------------------------------------------------------------
(* lockPostLike.                                                           *)

\* Entering, a request meets the row if it is as it wants it already.
Enter(h) ==
  /\ GoTo(h, "check")
  /\ met' = IF row = Wanted(h) THEN met \cup {h} ELSE met

TakeLock(h) ==
  /\ at[h] = "start"
  /\ lock = NoHandler
  /\ lock' = h
  /\ locked' = locked \cup {h}
  /\ Enter(h)
  /\ NoFault
  /\ UNCHANGED <<row, cache, tries, changed, result, delta, cutOff>>

\* The lock stays taken for 200 ms: the request is refused.
LockBusy(h) ==
  /\ at[h] = "start"
  /\ lock # NoHandler
  /\ GoTo(h, "done")
  /\ Answer(h, "busy")
  /\ NoFault
  /\ UNCHANGED <<row, cache, lock, locked, tries, changed, delta, cutOff, met>>

\* Redis errs: the request goes on without the lock, and may have left its token.
LockErrs(h) ==
  /\ at[h] = "start"
  /\ lock' \in {lock} \cup (IF lock = NoHandler THEN {h} ELSE {})
  /\ Enter(h)
  /\ Fault("lock")
  /\ UNCHANGED <<row, cache, locked, tries, changed, result, delta, cutOff>>

\* The key expires: at no one's cost if its holder will not unlock it any more.
LockExpires ==
  /\ lock # NoHandler
  /\ IF lock \in Running /\ lock \in locked THEN Fault("expiry") ELSE NoFault
  /\ lock' = NoHandler
  /\ UNCHANGED <<row, cache, at, locked, tries, changed, result, delta, cutOff, met>>

----------------------------------------------------------------------------
(* The body of LikePost and UnlikePost.                                    *)

\* Mutant: any cached status answers an UnlikePost.
AnswersAny(h) == cache # "absent"

\* The cached status says that there is nothing to do.
CacheAnswers(h) == cache = Wanted(h)

CheckCache(h) ==
  /\ at[h] = "check"
  /\ IF CacheAnswers(h)
       THEN /\ GoTo(h, "unlock")
            /\ Answer(h, IF OpOf[h] = "like" THEN "ok" ELSE "notLiked")
       ELSE GoTo(h, "write") /\ UNCHANGED result
  /\ NoFault
  /\ UNCHANGED <<row, cache, lock, locked, tries, changed, delta, cutOff, met>>

CacheErrs(h) ==
  /\ at[h] = "check"
  /\ GoTo(h, "write")
  /\ Fault("get")
  /\ UNCHANGED <<row, cache, lock, locked, tries, changed, result, delta, cutOff, met>>

\* Mutant: RowsAffected counts the no-op upsert as well.
WriteAlwaysCounts(h) ==
  /\ row' = IF OpOf[h] = "unlike" /\ row = "absent" THEN row ELSE Wanted(h)
  /\ changed' = changed \cup {h}
  /\ met' = met \cup {g \in Running : row' = Wanted(g)}

\* The upsert of LikePost, the conditional UPDATE of UnlikePost: whether the row
\* changed is what RowsAffected tells.
WriteRow(h) ==
  /\ row' = IF OpOf[h] = "unlike" /\ row = "absent" THEN row ELSE Wanted(h)
  /\ changed' = IF row' # row THEN changed \cup {h} ELSE changed
  /\ met' = met \cup {g \in Running : row' = Wanted(g)}

\* An UnlikePost that finds no like answers ErrPostNotLiked, once the cache is set.
Write(h) ==
  /\ at[h] = "write"
  /\ WriteRow(h)
  /\ GoTo(h, "fill")
  /\ IF OpOf[h] = "unlike" /\ row # "active" THEN Answer(h, "notLiked") ELSE UNCHANGED result
  /\ NoFault
  /\ UNCHANGED <<cache, lock, locked, tries, delta, cutOff>>

\* Mutant: one attempt more.
GivesUpLate(n) == n > MaxAttempts

\* The loop over the attempts ends with the n-th.
GivesUp(n) == n = MaxAttempts

\* A retryable error: the write is tried again, and given up after MaxAttempts.
WriteBusy(h) ==
  /\ at[h] = "write"
  /\ Fault("busy")
  /\ tries' = [tries EXCEPT ![h] = @ + 1]
  /\ IF GivesUp(tries[h] + 1)
       THEN GoTo(h, "unlock") /\ Answer(h, "busy")
       ELSE UNCHANGED <<at, result>>
  /\ UNCHANGED <<row, cache, lock, locked, changed, delta, cutOff, met>>

\* The write takes effect and the connection fails: the delta is never recorded.
WriteReplyLost(h) ==
  /\ at[h] = "write"
  /\ Fault("reply")
  /\ WriteRow(h)
  /\ cutOff' = IF h \in changed' THEN cutOff \cup {h} ELSE cutOff
  /\ GoTo(h, "unlock")
  /\ Answer(h, "error")
  /\ UNCHANGED <<cache, lock, locked, tries, delta>>

\* Mutant: SET NX.
KeepCached(h) == cache' = IF cache = "absent" THEN Wanted(h) ELSE cache

SetCache(h) == cache' = Wanted(h)

\* setPostLikeStatusCache, whose error is only logged.
FillCache(h) ==
  /\ at[h] = "fill"
  /\ \/ SetCache(h) /\ NoFault
     \/ UNCHANGED cache /\ Fault("set")
  /\ IF h \in changed
       THEN GoTo(h, "record") /\ UNCHANGED result
       ELSE /\ GoTo(h, "unlock")
            /\ Answer(h, IF result[h] = "none" THEN "ok" ELSE result[h])
  /\ UNCHANGED <<row, lock, locked, tries, changed, delta, cutOff, met>>

RecordDelta(h) ==
  /\ at[h] = "record"
  /\ delta' = delta + DeltaOf(h)
  /\ GoTo(h, "unlock")
  /\ Answer(h, "ok")
  /\ NoFault
  /\ UNCHANGED <<row, cache, lock, locked, tries, changed, cutOff, met>>

\* Mutant: the key is deleted whoever holds it.
ReleaseAny(h) == lock' = NoHandler

\* The unlock script: the key is deleted if it still holds this token.
Release(h) == lock' = IF lock = h THEN NoHandler ELSE lock

\* A request that never got the lock has nothing to unlock.
Unlock(h) ==
  /\ at[h] = "unlock"
  /\ IF h \in locked THEN Release(h) ELSE UNCHANGED lock
  /\ GoTo(h, "done")
  /\ NoFault
  /\ UNCHANGED <<row, cache, locked, tries, changed, result, delta, cutOff, met>>

\* The request is cut off; its lock key is left to expire.
Crash(h) ==
  /\ h \in Running
  /\ Fault("crash")
  /\ GoTo(h, "done")
  /\ Answer(h, "error")
  /\ cutOff' = IF h \in changed /\ at[h] \in {"fill", "record"} THEN cutOff \cup {h} ELSE cutOff
  /\ UNCHANGED <<row, cache, lock, locked, tries, changed, delta, met>>

\* The cached status expires after its 30 minutes.
CacheExpires ==
  /\ cache # "absent"
  /\ cache' = "absent"
  /\ NoFault
  /\ UNCHANGED <<row, lock, at, locked, tries, changed, result, delta, cutOff, met>>

----------------------------------------------------------------------------
Step(h) ==
  \/ TakeLock(h) \/ LockBusy(h) \/ LockErrs(h)
  \/ CheckCache(h) \/ CacheErrs(h)
  \/ Write(h) \/ WriteBusy(h) \/ WriteReplyLost(h)
  \/ FillCache(h) \/ RecordDelta(h) \/ Unlock(h) \/ Crash(h)

Next ==
  \/ \E h \in Handlers : Step(h)
  \/ LockExpires
  \/ CacheExpires

Spec == Init /\ [][Next]_vars

----------------------------------------------------------------------------
(* Properties.                                                             *)

\* The deltas handlers have still to record.
Owed == {h \in changed : at[h] \in {"fill", "record"}}

SumDeltas(S) == SumFunctionOnSet([h \in Handlers |-> DeltaOf(h)], S)

\* Whatever fails, the deltas recorded, still owed, and lost with a handler that was cut
\* off sum to what the row says: with or without the lock, a like is counted once, and
\* an unlike only if there was a like (RowsAffected in LikePost and UnlikePost).
DeltasMatchRow ==
  delta + SumDeltas(Owed) + SumDeltas(cutOff) = IF row = "active" THEN 1 ELSE 0

\* Nobody has lost the lock, and nobody failed to write the cache.
Guarded == seen \cap {"lock", "expiry", "set", "reply", "crash"} = {}

\* While the lock holds and the cache is written, a cached status never contradicts the
\* row except between a handler's write and its SET ("不能让 Redis 中出现数据库尚未确认的
\* 点赞关系", LikePost).
CacheFollowsRow ==
  Guarded /\ (\A h \in Handlers : at[h] # "fill") =>
    cache \in {"absent", row} \/ (cache = "inactive" /\ row = "absent")

\* While the lock holds and the cache is written, no request is told "done" for nothing:
\* a LikePost that answers success ran while the like was, at some time, in MySQL.
OkMeansMet ==
  \A h \in Handlers : Guarded /\ result[h] = "ok" => h \in met

\* A request that runs with the lock loses it by expiry only: a request whose own key
\* has expired never deletes, with its late unlock, the key of the next holder
\* (the token of lockPostLike).
OnlyExpiryTakesTheLock ==
  [][\A h \in Running \cap locked :
       lock = h /\ lock' # h => at'[h] = "done" \/ faults' = faults + 1]_vars
=============================================================================
