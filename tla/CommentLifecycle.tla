-------------------------- MODULE CommentLifecycle --------------------------
(***************************************************************************)
(* The life of a comment in comment-service: a student creates it, a       *)
(* student or the tutor deletes it, operators approve or reject it, the    *)
(* tutor replies to it once and may withdraw the reply.                    *)
(*                                                                         *)
(* A handler checks the comment first, in the biz layer, through a Bloom   *)
(* filter and an object cache, and what it sees there may be old.  It then *)
(* writes in MySQL with conditions of its own.  A deletion and a rejection *)
(* decide from the snapshot their transaction reads (REPEATABLE READ)      *)
(* whether to take one off comment_count; their UPDATE reads the current   *)
(* row.  What becomes of a recorded delta is in CounterPipeline.           *)
(***************************************************************************)
EXTENDS Integers, FiniteSets, Functions

CONSTANTS
  Comments,     \* comments, of one post
  Handlers,     \* requests, each served once
  OpOf,         \* OpOf[h]: what h does
  CommentOf,    \* CommentOf[h]: the comment h is about
  NoHandler,    \* not a request
  Faults,       \* the kinds of failure that may happen
  MaxFaults     \* bound: failures in a behaviour

Ops == {"create", "delete", "approve", "reject", "reply", "withdraw"}

FaultKinds ==
  {"check",   \* the comment is not found though it is there: Bloom filter, cache, or MySQL
   "txn",     \* the statement or transaction has no effect and errs
   "reply",   \* it takes effect and errs
   "crash"}   \* the handler stops between its write and its delta

ASSUME LifecycleAssumption ==
  /\ OpOf \in [Handlers -> Ops]
  /\ CommentOf \in [Handlers -> Comments]
  /\ IsFiniteSet(Handlers) /\ IsFiniteSet(Comments)
  /\ NoHandler \notin Handlers
  /\ Faults \subseteq FaultKinds
  /\ MaxFaults \in Nat

VARIABLES
  postLive,   \* the post is published and not deleted
  state,      \* state[c]: "absent", "present", or "deleted" (deleted_at)
  visible,    \* the comments with visible_status = 1
  audit,      \* audit_status: "pending" 0, "approved" 1, "rejected" 2
  verdictBy,  \* manual_operator_id: the request that audited
  reply,      \* reply_status: "none" 0, "given" 1, "withdrawn" 2
  replyBy,    \* reply_id: the request that replied
  at,         \* at[h]: the step h is at
  snapshot,   \* the handlers whose transaction read a visible comment
  result,     \* result[h]: the answer of h
  count,      \* sum of the deltas recorded for comment_count
  dropped,    \* sum of the deltas that will never be recorded
  faults      \* failures so far

rowVars == <<state, visible, audit, verdictBy, reply, replyBy>>
vars == <<postLive, rowVars, at, snapshot, result, count, dropped, faults>>

Steps == {"start", "read", "write", "record", "done"}

\* visible_status says what deleted_at and audit_status say.
VisibleIsShown ==
  visible = {c \in Comments : state[c] = "present" /\ audit[c] # "rejected"}

TypeOK ==
  /\ VisibleIsShown
  /\ postLive \in BOOLEAN
  /\ state \in [Comments -> {"absent", "present", "deleted"}]
  /\ visible \subseteq Comments
  /\ audit \in [Comments -> {"pending", "approved", "rejected"}]
  /\ verdictBy \in [Comments -> Handlers \cup {NoHandler}]
  /\ reply \in [Comments -> {"none", "given", "withdrawn"}]
  /\ replyBy \in [Comments -> Handlers \cup {NoHandler}]
  /\ at \in [Handlers -> Steps]
  /\ snapshot \subseteq Handlers
  /\ result \in [Handlers -> {"none", "ok", "error"}]
  /\ count \in Int
  /\ dropped \in Int
  /\ faults \in 0..MaxFaults

Init ==
  /\ postLive = TRUE
  /\ state = [c \in Comments |-> "absent"]
  /\ visible = {}
  /\ audit = [c \in Comments |-> "pending"]
  /\ verdictBy = [c \in Comments |-> NoHandler]
  /\ reply = [c \in Comments |-> "none"]
  /\ replyBy = [c \in Comments |-> NoHandler]
  /\ at = [h \in Handlers |-> "start"]
  /\ snapshot = {}
  /\ result = [h \in Handlers |-> "none"]
  /\ count = 0
  /\ dropped = 0
  /\ faults = 0

Fault(k) == k \in Faults /\ faults < MaxFaults /\ faults' = faults + 1

GoTo(h, step) ==
  /\ at' = [at EXCEPT ![h] = step]
  /\ UNCHANGED result

Answer(h, r) ==
  /\ at' = [at EXCEPT ![h] = "done"]
  /\ result' = [result EXCEPT ![h] = r]

----------------------------------------------------------------------------
(* The check in the biz layer.                                             *)

NeedsTransaction(h) == OpOf[h] \in {"create", "delete", "reject"}

\* What the check sees may be any state the comment has been in, so a comment that
\* has been audited, replied to, or deleted still passes.
CheckPasses(h) ==
  /\ at[h] = "start"
  /\ OpOf[h] # "create" => state[CommentOf[h]] # "absent"
  /\ OpOf[h] = "withdraw" => replyBy[CommentOf[h]] # NoHandler
  /\ GoTo(h, IF NeedsTransaction(h) THEN "read" ELSE "write")
  /\ UNCHANGED <<postLive, rowVars, snapshot, count, dropped, faults>>

\* There is nothing to do it to, or it has been done.
TooLate(h) ==
  LET c == CommentOf[h] IN
  \/ state[c] # "present"
  \/ OpOf[h] \in {"approve", "reject"} /\ audit[c] # "pending"
  \/ OpOf[h] = "reply" /\ reply[c] # "none"
  \/ OpOf[h] = "withdraw" /\ reply[c] # "given"

CheckFails(h) ==
  /\ at[h] = "start"
  /\ OpOf[h] # "create"
  /\ \/ TooLate(h) /\ UNCHANGED faults
     \/ ~TooLate(h) /\ Fault("check")
  /\ Answer(h, "error")
  /\ UNCHANGED <<postLive, rowVars, snapshot, count, dropped>>

----------------------------------------------------------------------------
(* The first read of a transaction, which fixes its snapshot.              *)

\* CreateComment reads the post.
ReadPost(h) ==
  /\ at[h] = "read"
  /\ OpOf[h] = "create"
  /\ IF postLive THEN GoTo(h, "write") ELSE Answer(h, "error")
  /\ UNCHANGED <<postLive, rowVars, snapshot, count, dropped, faults>>

\* DeleteComment and RejectComment read the comment; a deletion is content if it is gone.
ReadComment(h) ==
  LET c == CommentOf[h] IN
  /\ at[h] = "read"
  /\ OpOf[h] \in {"delete", "reject"}
  /\ IF state[c] = "present"
       THEN /\ GoTo(h, "write")
            /\ snapshot' = IF c \in visible THEN snapshot \cup {h} ELSE snapshot
       ELSE /\ Answer(h, IF OpOf[h] = "delete" THEN "ok" ELSE "error")
            /\ UNCHANGED snapshot
  /\ UNCHANGED <<postLive, rowVars, count, dropped, faults>>

----------------------------------------------------------------------------
(* What each statement finds, and what it does to the row.                 *)

\* Mutant: the UPDATE of a deletion does not look at deleted_at.
Created(c) == state[c] # "absent"

\* WHERE comment_id = ? AND deleted_at IS NULL
Present(c) == state[c] = "present"

\* Mutant: the UPDATE of an audit does not look at audit_status.
Auditable(c) == state[c] = "present"

\* AND audit_status = 0
AwaitsAudit(c) == state[c] = "present" /\ audit[c] = "pending"

\* Mutant: the UPDATE of a reply does not look at reply_status.
Repliable(c) == state[c] = "present"

\* AND reply_status = 0
AwaitsReply(c) == state[c] = "present" /\ reply[c] = "none"

\* AND reply_id = ? AND reply_status = 1
HasReply(c) == state[c] = "present" /\ reply[c] = "given"

Finds(h) ==
  LET c == CommentOf[h] IN
  \/ OpOf[h] = "create" /\ state[c] = "absent"
  \/ OpOf[h] = "delete" /\ Present(c)
  \/ OpOf[h] \in {"approve", "reject"} /\ AwaitsAudit(c)
  \/ OpOf[h] = "reply" /\ AwaitsReply(c)
  \/ OpOf[h] = "withdraw" /\ HasReply(c)

InsertComment(h, c) ==
  /\ OpOf[h] = "create"
  /\ state' = [state EXCEPT ![c] = "present"]
  /\ visible' = visible \cup {c}
  /\ UNCHANGED <<audit, verdictBy, reply, replyBy>>

MarkDeleted(h, c) ==
  /\ OpOf[h] = "delete"
  /\ state' = [state EXCEPT ![c] = "deleted"]
  /\ visible' = visible \ {c}
  /\ UNCHANGED <<audit, verdictBy, reply, replyBy>>

MarkApproved(h, c) ==
  /\ OpOf[h] = "approve"
  /\ audit' = [audit EXCEPT ![c] = "approved"]
  /\ verdictBy' = [verdictBy EXCEPT ![c] = h]
  /\ UNCHANGED <<state, visible, reply, replyBy>>

MarkRejected(h, c) ==
  /\ OpOf[h] = "reject"
  /\ audit' = [audit EXCEPT ![c] = "rejected"]
  /\ verdictBy' = [verdictBy EXCEPT ![c] = h]
  /\ visible' = visible \ {c}
  /\ UNCHANGED <<state, reply, replyBy>>

GiveReply(h, c) ==
  /\ OpOf[h] = "reply"
  /\ reply' = [reply EXCEPT ![c] = "given"]
  /\ replyBy' = [replyBy EXCEPT ![c] = h]
  /\ UNCHANGED <<state, visible, audit, verdictBy>>

WithdrawReply(h, c) ==
  /\ OpOf[h] = "withdraw"
  /\ reply' = [reply EXCEPT ![c] = "withdrawn"]
  /\ UNCHANGED <<state, visible, audit, verdictBy, replyBy>>

Change(h) ==
  /\ Finds(h)
  /\ \/ InsertComment(h, CommentOf[h]) \/ MarkDeleted(h, CommentOf[h])
     \/ MarkApproved(h, CommentOf[h]) \/ MarkRejected(h, CommentOf[h])
     \/ GiveReply(h, CommentOf[h]) \/ WithdrawReply(h, CommentOf[h])

\* What h takes to comment_count once it has committed.
DeltaOf(h) ==
  CASE OpOf[h] = "create" -> 1
    [] OpOf[h] \in {"delete", "reject"} /\ h \in snapshot -> -1
    [] OTHER -> 0

----------------------------------------------------------------------------
(* The write, with its COMMIT.                                             *)

Write(h) ==
  /\ at[h] = "write"
  /\ Change(h)
  /\ IF DeltaOf(h) = 0 THEN Answer(h, "ok") ELSE GoTo(h, "record")
  /\ UNCHANGED <<postLive, snapshot, count, dropped, faults>>

\* RowsAffected is 0: someone was faster.  Only a deletion is content with that.
WriteFindsNothing(h) ==
  /\ at[h] = "write"
  /\ ~Finds(h)
  /\ Answer(h, IF OpOf[h] = "delete" THEN "ok" ELSE "error")
  /\ UNCHANGED <<postLive, rowVars, snapshot, count, dropped, faults>>

WriteFails(h) ==
  /\ at[h] \in {"read", "write"}
  /\ Fault("txn")
  /\ Answer(h, "error")
  /\ UNCHANGED <<postLive, rowVars, snapshot, count, dropped>>

\* The write takes effect, and the handler is told otherwise: no delta.
WriteReplyLost(h) ==
  /\ at[h] = "write"
  /\ Fault("reply")
  /\ Change(h)
  /\ dropped' = dropped + DeltaOf(h)
  /\ Answer(h, "error")
  /\ UNCHANGED <<postLive, snapshot, count>>

RecordDelta(h) ==
  /\ at[h] = "record"
  /\ count' = count + DeltaOf(h)
  /\ Answer(h, "ok")
  /\ UNCHANGED <<postLive, rowVars, snapshot, dropped, faults>>

CrashBeforeDelta(h) ==
  /\ at[h] = "record"
  /\ Fault("crash")
  /\ dropped' = dropped + DeltaOf(h)
  /\ Answer(h, "error")
  /\ UNCHANGED <<postLive, rowVars, snapshot, count>>

\* The tutor deletes the post; its comments stay as they are.
DeletePost ==
  /\ postLive
  /\ postLive' = FALSE
  /\ UNCHANGED <<rowVars, at, snapshot, result, count, dropped, faults>>

----------------------------------------------------------------------------
Serve(h) ==
  \/ CheckPasses(h) \/ CheckFails(h)
  \/ ReadPost(h) \/ ReadComment(h)
  \/ Write(h) \/ WriteFindsNothing(h) \/ WriteFails(h) \/ WriteReplyLost(h)
  \/ RecordDelta(h) \/ CrashBeforeDelta(h)

Next == (\E h \in Handlers : Serve(h)) \/ DeletePost

Spec == Init /\ [][Next]_vars

----------------------------------------------------------------------------
(* Properties.                                                             *)

\* The deltas that have still to be recorded, by the handlers that wrote.
Owed == {h \in Handlers : at[h] = "record"}
OwedSum == SumFunctionOnSet([h \in Handlers |-> DeltaOf(h)], Owed)

\* The deltas recorded, to be recorded, and lost with their handler.
Accounted == count + dropped + OwedSum

\* The comments that were both rejected and deleted: the ones whose two handlers may
\* both have read them visible.
Contested == {c \in Comments : state[c] = "deleted" /\ audit[c] = "rejected"}

\* However deletions, rejections, and creations meet, the deltas never add up to more
\* than the visible comments, and fall short of them by contested comments only: two
\* deletions of one comment take one off (the deleted_at condition of DeleteComment).
CountOnlyDriftsByContest ==
  /\ Accounted <= Cardinality(visible)
  /\ Accounted >= Cardinality(visible) - Cardinality(Contested)

\* A comment is taken off the count by the one handler that hides it ("only what was
\* visible and is deleted by this call is subtracted", DeleteComment of student.go).
CountsVisible == Accounted = Cardinality(visible)

\* Of the operators who audit a comment at the same time, one is told that it was done,
\* and the verdict that stands is that one's (audit_status = 0 in the UPDATEs).
OneVerdict ==
  \A h \in Handlers :
    OpOf[h] \in {"approve", "reject"} /\ (result[h] = "ok" \/ at[h] = "record") =>
      /\ verdictBy[CommentOf[h]] = h
      /\ audit[CommentOf[h]] = IF OpOf[h] = "approve" THEN "approved" ELSE "rejected"

\* A comment is replied to once, also after the reply was withdrawn: the reply that
\* stands is that of the one request that was told so (reply_status = 0).
OneReply ==
  \A h \in Handlers :
    OpOf[h] = "reply" /\ result[h] = "ok" => replyBy[CommentOf[h]] = h
=============================================================================
