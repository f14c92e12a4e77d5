----------------------- MODULE CommentLifecycleProofs -----------------------
(***************************************************************************)
(* Proofs about CommentLifecycle, for any comments, requests, and          *)
(* failures: the verdict and the reply that stand are those of the one     *)
(* request that was told so.                                               *)
(***************************************************************************)
EXTENDS CommentLifecycle, FunctionSums, FiniteSetTheorems, TLAPS

\* A comment that is not there has been neither audited nor replied to.
Untouched == \A c \in Comments : state[c] = "absent" => audit[c] = "pending" /\ reply[c] = "none"

RowTypes ==
  /\ state \in [Comments -> {"absent", "present", "deleted"}]
  /\ visible \subseteq Comments
  /\ audit \in [Comments -> {"pending", "approved", "rejected"}]
  /\ verdictBy \in [Comments -> Handlers \cup {NoHandler}]
  /\ reply \in [Comments -> {"none", "given", "withdrawn"}]
  /\ replyBy \in [Comments -> Handlers \cup {NoHandler}]

RowsOK == RowTypes /\ VisibleIsShown /\ Untouched

\* The rest of TypeOK.
RequestsOK ==
  /\ postLive \in BOOLEAN
  /\ at \in [Handlers -> Steps]
  /\ snapshot \subseteq Handlers
  /\ result \in [Handlers -> {"none", "ok", "error"}]
  /\ count \in Int
  /\ dropped \in Int
  /\ faults \in 0..MaxFaults

\* Only these have a delta to record.
Recorders == \A h \in Handlers : at[h] = "record" => OpOf[h] \in {"create", "delete", "reject"}

Done(h) == result[h] = "ok" \/ at[h] = "record"

VerdictStands(h) ==
  /\ verdictBy[CommentOf[h]] = h
  /\ audit[CommentOf[h]] = IF OpOf[h] = "approve" THEN "approved" ELSE "rejected"

Verdicts == \A h \in Handlers : OpOf[h] \in {"approve", "reject"} /\ Done(h) => VerdictStands(h)

ReplyStands(h) == replyBy[CommentOf[h]] = h /\ reply[CommentOf[h]] # "none"

Replies == \A h \in Handlers : OpOf[h] = "reply" /\ Done(h) => ReplyStands(h)

IInv == RowsOK /\ RequestsOK /\ Recorders /\ Verdicts /\ Replies

----------------------------------------------------------------------------
LEMMA Requests == \A h \in Handlers : CommentOf[h] \in Comments /\ OpOf[h] \in Ops
BY LifecycleAssumption

\* A write leaves the row as it should be, and undoes no verdict and no reply.
LEMMA ChangeStep ==
  ASSUME RowsOK, NEW h \in Handlers, Change(h)
  PROVE  /\ RowsOK'
         /\ \A c \in Comments : audit[c] # "pending" =>
              audit'[c] = audit[c] /\ verdictBy'[c] = verdictBy[c]
         /\ \A c \in Comments : reply[c] # "none" => reply'[c] # "none" /\ replyBy'[c] = replyBy[c]
         /\ OpOf[h] \in {"approve", "reject"} => VerdictStands(h)'
         /\ OpOf[h] = "reply" => ReplyStands(h)'
<1> DEFINE c == CommentOf[h]
<1>1. c \in Comments /\ Finds(h)
  BY Requests DEF Change
<1>2. CASE InsertComment(h, c)
  <2>1. state[c] = "absent" /\ OpOf[h] = "create"
    BY <1>1, <1>2 DEF InsertComment, Finds
  <2>2. QED
    BY <1>1, <1>2, <2>1 DEF InsertComment, RowsOK, RowTypes, VisibleIsShown, Untouched
<1>3. CASE MarkDeleted(h, c)
  <2>1. state[c] = "present" /\ OpOf[h] = "delete"
    BY <1>1, <1>3 DEF MarkDeleted, Finds, Present
  <2>2. QED
    BY <1>1, <1>3, <2>1 DEF MarkDeleted, RowsOK, RowTypes, VisibleIsShown, Untouched
<1>4. CASE MarkApproved(h, c)
  <2>1. state[c] = "present" /\ audit[c] = "pending" /\ OpOf[h] = "approve"
    BY <1>1, <1>4 DEF MarkApproved, Finds, AwaitsAudit
  <2>2. QED
    BY <1>1, <1>4, <2>1
       DEF MarkApproved, RowsOK, RowTypes, VisibleIsShown, Untouched, VerdictStands
<1>5. CASE MarkRejected(h, c)
  <2>1. state[c] = "present" /\ audit[c] = "pending" /\ OpOf[h] = "reject"
    BY <1>1, <1>5 DEF MarkRejected, Finds, AwaitsAudit
  <2>2. QED
    BY <1>1, <1>5, <2>1
       DEF MarkRejected, RowsOK, RowTypes, VisibleIsShown, Untouched, VerdictStands
<1>6. CASE GiveReply(h, c)
  <2>1. state[c] = "present" /\ reply[c] = "none" /\ OpOf[h] = "reply"
    BY <1>1, <1>6 DEF GiveReply, Finds, AwaitsReply
  <2>2. QED
    BY <1>1, <1>6, <2>1
       DEF GiveReply, RowsOK, RowTypes, VisibleIsShown, Untouched, ReplyStands
<1>7. CASE WithdrawReply(h, c)
  <2>1. state[c] = "present" /\ reply[c] = "given" /\ OpOf[h] = "withdraw"
    BY <1>1, <1>7 DEF WithdrawReply, Finds, HasReply
  <2>2. QED
    BY <1>1, <1>7, <2>1 DEF WithdrawReply, RowsOK, RowTypes, VisibleIsShown, Untouched
<1>8. QED
  BY <1>2, <1>3, <1>4, <1>5, <1>6, <1>7 DEF Change

LEMMA FaultCounts ==
  ASSUME RequestsOK, NEW k, UNCHANGED faults \/ Fault(k)
  PROVE  faults' \in 0..MaxFaults
BY LifecycleAssumption DEF RequestsOK, Fault

LEMMA DeltaIsInt == ASSUME NEW h \in Handlers PROVE DeltaOf(h) \in Int
BY DEF DeltaOf

\* No verdict and no reply that stands is undone.
RowsKeep ==
  /\ RowsOK'
  /\ \A c \in Comments : audit[c] # "pending" =>
       audit'[c] = audit[c] /\ verdictBy'[c] = verdictBy[c]
  /\ \A c \in Comments : reply[c] # "none" => reply'[c] # "none" /\ replyBy'[c] = replyBy[c]

LEMMA RowsUnchanged == ASSUME RowsOK, UNCHANGED rowVars PROVE RowsKeep
BY DEF RowsKeep, rowVars, RowsOK, RowTypes, VisibleIsShown, Untouched

\* A request moves, and what it is told is true.
LEMMA Moved ==
  ASSUME IInv, NEW h \in Handlers, NEW step \in Steps, NEW r \in {"ok", "error"}, RowsKeep,
         at' = [at EXCEPT ![h] = step],
         result' = result \/ result' = [result EXCEPT ![h] = r],
         snapshot' \subseteq Handlers, postLive' \in BOOLEAN,
         count' \in Int, dropped' \in Int, faults' \in 0..MaxFaults,
         step = "record" => OpOf[h] \in {"create", "delete", "reject"},
         Done(h)' => /\ OpOf[h] \in {"approve", "reject"} => VerdictStands(h)'
                     /\ OpOf[h] = "reply" => ReplyStands(h)'
  PROVE  IInv'
<1>1. /\ at' \in [Handlers -> Steps]
      /\ \A g \in Handlers : g # h => at'[g] = at[g]
      /\ at'[h] = step
      /\ result' \in [Handlers -> {"none", "ok", "error"}]
      /\ \A g \in Handlers : g # h => result'[g] = result[g]
  BY DEF IInv, RequestsOK
<1>2. RequestsOK' /\ Recorders'
  BY <1>1 DEF IInv, RequestsOK, Recorders
<1>3. ASSUME NEW g \in Handlers, g # h, OpOf[g] \in {"approve", "reject"}, Done(g)'
      PROVE  VerdictStands(g)'
  <2>1. VerdictStands(g) /\ CommentOf[g] \in Comments
    BY <1>1, <1>3, Requests DEF IInv, Verdicts, Done
  <2>2. QED
    BY <2>1 DEF VerdictStands, RowsKeep
<1>4. ASSUME NEW g \in Handlers, g # h, OpOf[g] = "reply", Done(g)'
      PROVE  ReplyStands(g)'
  <2>1. ReplyStands(g) /\ CommentOf[g] \in Comments
    BY <1>1, <1>4, Requests DEF IInv, Replies, Done
  <2>2. QED
    BY <2>1 DEF ReplyStands, RowsKeep
<1>5. Verdicts' /\ Replies'
  BY <1>3, <1>4 DEF Verdicts, Replies
<1>6. QED
  BY <1>2, <1>5 DEF IInv, RowsKeep

\* The steps that leave the row alone and tell the request nothing, or of a failure.
LEMMA QuietSteps ==
  ASSUME IInv, NEW h \in Handlers,
         CheckPasses(h) \/ CheckFails(h) \/ WriteFails(h) \/ ReadPost(h) \/ CrashBeforeDelta(h)
  PROVE  IInv'
<1>1. /\ UNCHANGED <<postLive, rowVars, snapshot, count>>
      /\ dropped' = dropped \/ dropped' = dropped + DeltaOf(h)
      /\ UNCHANGED faults \/ \E k \in FaultKinds : Fault(k)
      /\ \E step \in {"read", "write", "done"} : at' = [at EXCEPT ![h] = step]
      /\ result' = result \/ result' = [result EXCEPT ![h] = "error"]
  BY DEF CheckPasses, CheckFails, WriteFails, ReadPost, CrashBeforeDelta, GoTo, Answer, FaultKinds
<1>2. /\ RowsKeep /\ snapshot' \subseteq Handlers /\ postLive' \in BOOLEAN
      /\ count' \in Int /\ dropped' \in Int /\ faults' \in 0..MaxFaults
  BY <1>1, RowsUnchanged, FaultCounts, DeltaIsInt DEF IInv, RequestsOK
<1>3. /\ VerdictStands(h) => VerdictStands(h)'
      /\ ReplyStands(h) => ReplyStands(h)'
  BY <1>1 DEF VerdictStands, ReplyStands, rowVars
<1>4. Done(h)' => Done(h)
  BY <1>1 DEF Done, IInv, RequestsOK
<1>5. Done(h)' => /\ OpOf[h] \in {"approve", "reject"} => VerdictStands(h)'
                  /\ OpOf[h] = "reply" => ReplyStands(h)'
  BY <1>3, <1>4 DEF IInv, Verdicts, Replies
<1>6. {"read", "write", "done"} \subseteq Steps \ {"record"}
  BY DEF Steps
<1>7. QED
  BY <1>1, <1>2, <1>5, <1>6, Moved

\* A transaction that finds nothing to do; only a deletion is told "ok".
LEMMA NothingToDo ==
  ASSUME IInv, NEW h \in Handlers, ReadComment(h) \/ WriteFindsNothing(h)
  PROVE  IInv'
<1>1. /\ UNCHANGED <<postLive, rowVars, count, dropped, faults>>
      /\ snapshot' \subseteq snapshot \cup {h}
      /\ at[h] # "record"
      /\ \E step \in {"write", "done"} : at' = [at EXCEPT ![h] = step]
      /\ \/ result' = result
         \/ result' = [result EXCEPT ![h] = IF OpOf[h] = "delete" THEN "ok" ELSE "error"]
  BY DEF ReadComment, WriteFindsNothing, GoTo, Answer
<1>2. /\ RowsKeep /\ snapshot' \subseteq Handlers /\ postLive' \in BOOLEAN
      /\ count' \in Int /\ dropped' \in Int /\ faults' \in 0..MaxFaults
  BY <1>1, RowsUnchanged DEF IInv, RequestsOK
<1>3. /\ VerdictStands(h) => VerdictStands(h)'
      /\ ReplyStands(h) => ReplyStands(h)'
  BY <1>1 DEF VerdictStands, ReplyStands, rowVars
<1>4. OpOf[h] # "delete" => (Done(h)' => Done(h))
  BY <1>1 DEF Done, IInv, RequestsOK
<1>5. Done(h)' => /\ OpOf[h] \in {"approve", "reject"} => VerdictStands(h)'
                  /\ OpOf[h] = "reply" => ReplyStands(h)'
  BY <1>3, <1>4 DEF IInv, Verdicts, Replies
<1>6. {"write", "done"} \subseteq Steps \ {"record"}
  BY DEF Steps
<1>7. QED
  BY <1>1, <1>2, <1>5, <1>6, Moved

LEMMA WriteStep ==
  ASSUME IInv, NEW h \in Handlers, Write(h) \/ WriteReplyLost(h)
  PROVE  IInv'
<1>1. /\ Change(h) /\ UNCHANGED <<postLive, snapshot, count>>
      /\ dropped' = dropped \/ dropped' = dropped + DeltaOf(h)
      /\ UNCHANGED faults \/ Fault("reply")
      /\ \E step \in {"record", "done"} :
           /\ at' = [at EXCEPT ![h] = step]
           /\ step = "record" => DeltaOf(h) # 0
      /\ \E r \in {"ok", "error"} : result' = result \/ result' = [result EXCEPT ![h] = r]
  BY DEF Write, WriteReplyLost, GoTo, Answer
<1>2. RowsKeep /\ (OpOf[h] \in {"approve", "reject"} => VerdictStands(h)')
               /\ (OpOf[h] = "reply" => ReplyStands(h)')
  BY <1>1, ChangeStep DEF IInv, RowsKeep
<1>3. /\ snapshot' \subseteq Handlers /\ postLive' \in BOOLEAN
      /\ count' \in Int /\ dropped' \in Int /\ faults' \in 0..MaxFaults
  BY <1>1, FaultCounts, DeltaIsInt DEF IInv, RequestsOK
<1>4. DeltaOf(h) # 0 => OpOf[h] \in {"create", "delete", "reject"}
  BY DEF DeltaOf
<1>5. {"record", "done"} \subseteq Steps
  BY DEF Steps
<1>6. QED
  BY <1>1, <1>2, <1>3, <1>4, <1>5, Moved

LEMMA RecordStep ==
  ASSUME IInv, NEW h \in Handlers, RecordDelta(h)
  PROVE  IInv'
<1>1. /\ at[h] = "record"
      /\ count' = count + DeltaOf(h)
      /\ at' = [at EXCEPT ![h] = "done"]
      /\ result' = [result EXCEPT ![h] = "ok"]
      /\ UNCHANGED <<postLive, rowVars, snapshot, dropped, faults>>
  BY DEF RecordDelta, Answer
<1>2. /\ RowsKeep /\ snapshot' \subseteq Handlers /\ postLive' \in BOOLEAN
      /\ count' \in Int /\ dropped' \in Int /\ faults' \in 0..MaxFaults
  BY <1>1, RowsUnchanged, DeltaIsInt DEF IInv, RequestsOK
<1>3. /\ OpOf[h] \in {"approve", "reject"} => VerdictStands(h)'
      /\ OpOf[h] = "reply" => ReplyStands(h)'
  BY <1>1 DEF IInv, Verdicts, Replies, Done, VerdictStands, ReplyStands, rowVars
<1>4. "done" \in Steps /\ "done" # "record" /\ "ok" \in {"ok", "error"}
  BY DEF Steps
<1>5. QED
  BY <1>1, <1>2, <1>3, <1>4, Moved

----------------------------------------------------------------------------
(* The invariant.                                                          *)

LEMMA InitIInv == Init => IInv
BY LifecycleAssumption
   DEF Init, IInv, RowsOK, RowTypes, VisibleIsShown, Untouched, RequestsOK, Steps, Recorders,
       Verdicts, Replies, Done

LEMMA NextIInv == IInv /\ [Next]_vars => IInv'
<1> SUFFICES ASSUME IInv, [Next]_vars PROVE IInv'
  OBVIOUS
<1>1. CASE DeletePost \/ UNCHANGED vars
  <2>1. /\ UNCHANGED <<rowVars, at, snapshot, result, count, dropped, faults>>
        /\ postLive' \in BOOLEAN
    BY <1>1 DEF DeletePost, vars, IInv, RequestsOK
  <2>2. RowsOK'
    BY <2>1, RowsUnchanged DEF IInv, RowsKeep
  <2>3. RequestsOK' /\ Recorders' /\ Verdicts' /\ Replies'
    BY <2>1 DEF IInv, RequestsOK, Recorders, Verdicts, Replies, Done, VerdictStands, ReplyStands,
                rowVars
  <2>4. QED
    BY <2>2, <2>3 DEF IInv
<1>2. QED
  BY <1>1, QuietSteps, NothingToDo, WriteStep, RecordStep DEF Next, Serve

\* Every reachable state is well typed, and a comment is visible exactly while it is neither
\* deleted nor rejected: visible_status is kept in step with the other two columns by every
\* handler that writes one of them.
THEOREM TypeCorrect == Spec => []TypeOK
<1>1. IInv => TypeOK
  BY DEF IInv, RowsOK, RowTypes, RequestsOK, TypeOK
<1>2. QED
  BY <1>1, InitIInv, NextIInv, PTL DEF Spec

\* However many operators audit a comment at once, the one whose UPDATE found it pending is
\* the only one that is told "ok", and its verdict is never overwritten.
THEOREM TheVerdictStands == Spec => []OneVerdict
<1>1. IInv => OneVerdict
  BY DEF IInv, Verdicts, VerdictStands, Done, OneVerdict
<1>2. QED
  BY <1>1, InitIInv, NextIInv, PTL DEF Spec

\* However many replies, withdrawals, and deletions meet, a comment is replied to once.
THEOREM TheReplyStands == Spec => []OneReply
<1>1. IInv => OneReply
  BY DEF IInv, Replies, ReplyStands, Done, OneReply
<1>2. QED
  BY <1>1, InitIInv, NextIInv, PTL DEF Spec

----------------------------------------------------------------------------
(* The count.                                                              *)

\* A deletion or rejection that did not read the comment visible found it rejected.
Blind ==
  \A h \in Handlers :
    at[h] = "write" /\ OpOf[h] \in {"delete", "reject"} /\ h \notin snapshot =>
      audit[CommentOf[h]] = "rejected"

Drift == Blind /\ CountOnlyDriftsByContest

LEMMA RowsAreCounted ==
  ASSUME RowsOK
  PROVE  /\ IsFiniteSet(visible) /\ Cardinality(visible) \in Nat
         /\ IsFiniteSet(Contested) /\ Cardinality(Contested) \in Nat
<1>1. visible \subseteq Comments /\ Contested \subseteq Comments
  BY DEF RowsOK, RowTypes, Contested
<1>2. IsFiniteSet(visible) /\ IsFiniteSet(Contested)
  BY <1>1, FS_Subset, LifecycleAssumption
<1>3. QED
  BY <1>2, FS_CardinalityType

\* A write changes the visible comments by its delta, or makes a comment contested.
LEMMA ChangeCounts ==
  ASSUME RowsOK, Blind, NEW h \in Handlers, at[h] = "write", Change(h)
  PROVE  \/ /\ Cardinality(visible') = Cardinality(visible) + DeltaOf(h)
            /\ Contested' = Contested
         \/ /\ visible' = visible
            /\ Cardinality(Contested') = Cardinality(Contested) + 1
            /\ DeltaOf(h) \in {-1, 0}
<1> DEFINE c == CommentOf[h]
<1>1. c \in Comments /\ Finds(h)
  BY Requests DEF Change
<1>2. /\ IsFiniteSet(visible) /\ Cardinality(visible) \in Nat
      /\ IsFiniteSet(Contested) /\ Cardinality(Contested) \in Nat
  BY RowsAreCounted
<1>3. CASE InsertComment(h, c)
  <2>1. state[c] = "absent" /\ OpOf[h] = "create"
    BY <1>1, <1>3 DEF InsertComment, Finds
  <2>2. c \notin visible /\ visible' = visible \cup {c} /\ DeltaOf(h) = 1
    BY <1>3, <2>1 DEF InsertComment, RowsOK, VisibleIsShown, DeltaOf
  <2>3. Contested' = Contested
    BY <1>1, <1>3, <2>1 DEF InsertComment, RowsOK, RowTypes, Contested
  <2>4. Cardinality(visible \cup {c}) = Cardinality(visible) + 1
    BY <1>2, <2>2, FS_AddElement
  <2>5. QED
    BY <2>2, <2>3, <2>4
<1>4. CASE MarkDeleted(h, c)
  <2>1. state[c] = "present" /\ OpOf[h] = "delete"
    BY <1>1, <1>4 DEF MarkDeleted, Finds, Present
  <2>2. /\ state' = [state EXCEPT ![c] = "deleted"]
        /\ visible' = visible \ {c}
        /\ UNCHANGED audit
    BY <1>4 DEF MarkDeleted
  <2>3. CASE c \in visible
    <3>1. audit[c] # "rejected" /\ h \in snapshot
      BY <2>1, <2>3 DEF RowsOK, VisibleIsShown, Blind
    <3>2. DeltaOf(h) = -1
      BY <2>1, <3>1 DEF DeltaOf
    <3>3. Contested' = Contested
      BY <1>1, <2>2, <3>1 DEF RowsOK, RowTypes, Contested
    <3>4. Cardinality(visible \ {c}) = Cardinality(visible) - 1
      BY <1>2, <2>3, FS_RemoveElement
    <3>5. QED
      BY <1>2, <2>2, <3>2, <3>3, <3>4
  <2>4. CASE c \notin visible
    <3>1. audit[c] = "rejected" /\ c \notin Contested
      BY <1>1, <2>1, <2>4 DEF RowsOK, VisibleIsShown, Contested
    <3>2. visible' = visible /\ Contested' = Contested \cup {c}
      BY <1>1, <2>2, <2>4, <3>1 DEF RowsOK, RowTypes, Contested
    <3>3. Cardinality(Contested \cup {c}) = Cardinality(Contested) + 1
      BY <1>2, <3>1, FS_AddElement
    <3>4. DeltaOf(h) \in {-1, 0}
      BY <2>1 DEF DeltaOf
    <3>5. QED
      BY <3>2, <3>3, <3>4
  <2>5. QED
    BY <2>3, <2>4
<1>5. CASE MarkRejected(h, c)
  <2>1. state[c] = "present" /\ audit[c] = "pending" /\ OpOf[h] = "reject"
    BY <1>1, <1>5 DEF MarkRejected, Finds, AwaitsAudit
  <2>2. h \in snapshot /\ c \in visible
    BY <1>1, <2>1 DEF RowsOK, VisibleIsShown, Blind
  <2>3. DeltaOf(h) = -1
    BY <2>1, <2>2 DEF DeltaOf
  <2>4. Contested' = Contested /\ visible' = visible \ {c}
    BY <1>1, <1>5, <2>1 DEF MarkRejected, RowsOK, RowTypes, Contested
  <2>5. Cardinality(visible \ {c}) = Cardinality(visible) - 1
    BY <1>2, <2>2, FS_RemoveElement
  <2>6. QED
    BY <1>2, <2>3, <2>4, <2>5
<1>6. CASE MarkApproved(h, c)
  <2>1. state[c] = "present" /\ OpOf[h] = "approve"
    BY <1>1, <1>6 DEF MarkApproved, Finds, AwaitsAudit
  <2>2. Contested' = Contested /\ visible' = visible /\ DeltaOf(h) = 0
    BY <1>1, <1>6, <2>1 DEF MarkApproved, RowsOK, RowTypes, Contested, DeltaOf
  <2>3. QED
    BY <1>2, <2>2
<1>7. CASE GiveReply(h, c) \/ WithdrawReply(h, c)
  <2>1. Contested' = Contested /\ visible' = visible /\ DeltaOf(h) = 0
    BY <1>7 DEF GiveReply, WithdrawReply, Contested, DeltaOf
  <2>2. QED
    BY <1>2, <2>1
<1>8. QED
  BY <1>3, <1>4, <1>5, <1>6, <1>7 DEF Change

----------------------------------------------------------------------------
(* What is owed.                                                           *)

LEMMA OwedIsFinite ==
  /\ IsFiniteSet(Owed) /\ OwedSum \in Int
  /\ \A h \in Handlers : DeltaOf(h) \in Int
<1> DEFINE d == [h \in Handlers |-> DeltaOf(h)]
<1>1. IsFiniteSet(Owed) /\ Owed \subseteq Handlers
  BY FS_Subset, LifecycleAssumption DEF Owed
<1>2. \A h \in Handlers : DeltaOf(h) \in Int
  BY DeltaIsInt
<1>3. \A h \in Owed : d[h] \in Int
  BY <1>1, <1>2
<1> HIDE DEF d
<1>4. SumFunctionOnSet(d, Owed) \in Int
  BY <1>1, <1>3, SumIsInt
<1>5. QED
  BY <1>1, <1>2, <1>4 DEF OwedSum, d

\* A handler that wrote owes its delta.
LEMMA OweOne ==
  ASSUME RequestsOK, NEW h \in Handlers, at[h] # "record", at' = [at EXCEPT ![h] = "record"],
         UNCHANGED snapshot
  PROVE  OwedSum' = OwedSum + DeltaOf(h)
<1> DEFINE d == [g \in Handlers |-> DeltaOf(g)]
           S == Owed
<1>1. IsFiniteSet(S) /\ h \notin S /\ \A g \in S \cup {h} : d[g] \in Int
  BY OwedIsFinite DEF Owed
<1>2. Owed' = S \cup {h}
  BY DEF Owed, RequestsOK
<1>3. d' = d /\ d[h] = DeltaOf(h)
  BY DEF DeltaOf
<1>4. OwedSum = SumFunctionOnSet(d, S) /\ OwedSum' = SumFunctionOnSet(d', Owed')
  BY DEF OwedSum
<1> HIDE DEF d, S
<1>5. SumFunctionOnSet(d, S \cup {h}) = SumFunctionOnSet(d, S) + d[h]
  BY <1>1, SumAdds
<1>6. QED
  BY <1>2, <1>3, <1>4, <1>5

\* A handler that has recorded its delta, or will never, owes it no longer.
LEMMA OweOneLess ==
  ASSUME RequestsOK, NEW h \in Handlers, at[h] = "record", at' = [at EXCEPT ![h] = "done"],
         UNCHANGED snapshot
  PROVE  OwedSum' = OwedSum - DeltaOf(h)
<1> DEFINE d == [g \in Handlers |-> DeltaOf(g)]
           S == Owed
<1>1. IsFiniteSet(S) /\ h \in S /\ \A g \in S : d[g] \in Int
  BY OwedIsFinite DEF Owed
<1>2. Owed' = S \ {h}
  BY DEF Owed, RequestsOK
<1>3. d' = d /\ d[h] = DeltaOf(h)
  BY DEF DeltaOf
<1>4. OwedSum = SumFunctionOnSet(d, S) /\ OwedSum' = SumFunctionOnSet(d', Owed')
  BY DEF OwedSum
<1> HIDE DEF d, S
<1>5. SumFunctionOnSet(d, S \ {h}) = SumFunctionOnSet(d, S) - d[h]
  BY <1>1, SumLoses
<1>6. QED
  BY <1>2, <1>3, <1>4, <1>5

\* The others owe what they owed.
LEMMA OweTheSame ==
  ASSUME RequestsOK, NEW h \in Handlers, at[h] # "record", NEW step, step # "record",
         at' = [at EXCEPT ![h] = step], snapshot' \in {snapshot, snapshot \cup {h}}
  PROVE  OwedSum' = OwedSum
<1> DEFINE d == [g \in Handlers |-> DeltaOf(g)]
           e == d'
           S == Owed
<1>1. IsFiniteSet(S) /\ Owed' = S
  BY OwedIsFinite DEF Owed, RequestsOK
<1>2. ASSUME NEW g \in S PROVE d[g] = e[g]
  <2>1. g \in Handlers /\ g # h
    BY <1>2 DEF Owed
  <2>2. g \in snapshot' <=> g \in snapshot
    BY <2>1
  <2>3. QED
    BY <2>1, <2>2 DEF DeltaOf
<1>3. OwedSum = SumFunctionOnSet(d, S) /\ OwedSum' = SumFunctionOnSet(e, Owed')
  BY DEF OwedSum
<1> HIDE DEF d, e, S
<1>4. SumFunctionOnSet(d, S) = SumFunctionOnSet(e, S)
  BY <1>1, <1>2, SumsSame
<1>5. QED
  BY <1>1, <1>3, <1>4

----------------------------------------------------------------------------
(* The count drifts by contested comments only.                            *)

\* A verdict that stands keeps a blind handler blind; who comes to write has looked.
LEMMA BlindKept ==
  ASSUME IInv, Blind, RowsKeep, NEW h \in Handlers, NEW step,
         at' = [at EXCEPT ![h] = step],
         snapshot' = snapshot \/ snapshot' = snapshot \cup {h},
         step = "write" /\ OpOf[h] \in {"delete", "reject"} /\ h \notin snapshot' =>
           audit'[CommentOf[h]] = "rejected"
  PROVE  Blind'
<1>1. SUFFICES ASSUME NEW g \in Handlers, at'[g] = "write", OpOf[g] \in {"delete", "reject"},
                      g \notin snapshot', g # h
               PROVE  audit'[CommentOf[g]] = "rejected"
  BY DEF Blind, IInv, RequestsOK
<1>2. at[g] = "write" /\ g \notin snapshot
  BY <1>1 DEF IInv, RequestsOK
<1>3. audit[CommentOf[g]] = "rejected" /\ CommentOf[g] \in Comments
  BY <1>1, <1>2, Requests DEF Blind
<1>4. QED
  BY <1>3 DEF RowsKeep

\* The steps that leave the rows alone and hand over no delta.
LEMMA NothingCounted ==
  ASSUME IInv, Drift, UNCHANGED <<rowVars, count, dropped>>, OwedSum' = OwedSum
  PROVE  CountOnlyDriftsByContest'
BY DEF Drift, CountOnlyDriftsByContest, Accounted, Contested, rowVars

\* A request is checked, reads, or fails.
LEMMA ReadsDrift ==
  ASSUME IInv, Drift, NEW h \in Handlers,
         \/ CheckPasses(h) \/ CheckFails(h) \/ ReadPost(h) \/ ReadComment(h)
         \/ WriteFindsNothing(h) \/ WriteFails(h)
  PROVE  Drift'
<1>1. /\ UNCHANGED <<rowVars, count, dropped>>
      /\ at[h] \in {"start", "read", "write"}
      /\ snapshot' = snapshot \/ snapshot' = snapshot \cup {h}
      /\ \E step \in {"read", "write", "done"} :
           /\ at' = [at EXCEPT ![h] = step]
           /\ step = "write" /\ OpOf[h] \in {"delete", "reject"} =>
                state[CommentOf[h]] = "present" /\
                (CommentOf[h] \in visible => h \in snapshot')
  BY DEF CheckPasses, CheckFails, ReadPost, ReadComment, WriteFindsNothing, WriteFails, GoTo,
         Answer, NeedsTransaction
<1>2. PICK step \in {"read", "write", "done"} :
        /\ at' = [at EXCEPT ![h] = step]
        /\ step = "write" /\ OpOf[h] \in {"delete", "reject"} =>
             state[CommentOf[h]] = "present" /\ (CommentOf[h] \in visible => h \in snapshot')
  BY <1>1
<1>3. step = "write" /\ OpOf[h] \in {"delete", "reject"} /\ h \notin snapshot' =>
        audit'[CommentOf[h]] = "rejected"
  BY <1>1, <1>2, Requests DEF rowVars, IInv, RowsOK, VisibleIsShown
<1>4. RowsKeep
  BY <1>1, RowsUnchanged DEF IInv
<1>5. Blind'
  BY <1>1, <1>2, <1>3, <1>4, BlindKept DEF Drift
<1>6. OwedSum' = OwedSum
  BY <1>1, <1>2, OweTheSame DEF IInv
<1>7. QED
  BY <1>1, <1>5, <1>6, NothingCounted DEF Drift

\* The deltas handed over change with the visible comments, or a comment becomes contested.
LEMMA WritesDrift ==
  ASSUME IInv, Drift, NEW h \in Handlers, Write(h) \/ WriteReplyLost(h)
  PROVE  Drift'
<1>1. /\ Change(h) /\ at[h] = "write" /\ UNCHANGED <<snapshot, count>>
      /\ \/ Write(h) /\ dropped' = dropped
         \/ WriteReplyLost(h) /\ dropped' = dropped + DeltaOf(h) /\ at' = [at EXCEPT ![h] = "done"]
  BY DEF Write, WriteReplyLost, Answer
<1>2. DeltaOf(h) \in Int /\ OwedSum \in Int /\ count \in Int /\ dropped \in Int
  BY OwedIsFinite DEF IInv, RequestsOK
<1>3. \E step \in {"record", "done"} : at' = [at EXCEPT ![h] = step]
  BY DEF Write, WriteReplyLost, GoTo, Answer
<1>4. RowsKeep
  BY <1>1, ChangeStep DEF IInv, RowsKeep
<1>5. Blind'
  BY <1>1, <1>3, <1>4, BlindKept DEF Drift
<1>6. Accounted' = Accounted + DeltaOf(h)
  <2>1. CASE WriteReplyLost(h)
    <3>1. dropped' = dropped + DeltaOf(h) /\ at' = [at EXCEPT ![h] = "done"]
      BY <2>1 DEF WriteReplyLost, Answer
    <3>2. OwedSum' = OwedSum
      BY <1>1, <3>1, OweTheSame DEF IInv
    <3>3. QED
      BY <1>1, <1>2, <3>1, <3>2 DEF Accounted
  <2>2. CASE Write(h) /\ DeltaOf(h) = 0
    <3>1. at' = [at EXCEPT ![h] = "done"] /\ dropped' = dropped
      BY <2>2 DEF Write, Answer
    <3>2. OwedSum' = OwedSum
      BY <1>1, <3>1, OweTheSame DEF IInv
    <3>3. QED
      BY <1>1, <1>2, <2>2, <3>1, <3>2 DEF Accounted
  <2>3. CASE Write(h) /\ DeltaOf(h) # 0
    <3>1. at' = [at EXCEPT ![h] = "record"] /\ dropped' = dropped
      BY <2>3 DEF Write, GoTo
    <3>2. OwedSum' = OwedSum + DeltaOf(h)
      BY <1>1, <3>1, OweOne DEF IInv
    <3>3. QED
      BY <1>1, <1>2, <3>1, <3>2 DEF Accounted
  <2>4. QED
    BY <2>1, <2>2, <2>3
<1>7. \/ /\ Cardinality(visible') = Cardinality(visible) + DeltaOf(h)
         /\ Contested' = Contested
      \/ /\ visible' = visible
         /\ Cardinality(Contested') = Cardinality(Contested) + 1
         /\ DeltaOf(h) \in {-1, 0}
  BY <1>1, ChangeCounts DEF IInv, Drift
<1>8. /\ Cardinality(visible) \in Nat /\ Cardinality(Contested) \in Nat /\ Accounted \in Int
      /\ Accounted <= Cardinality(visible)
      /\ Accounted >= Cardinality(visible) - Cardinality(Contested)
  BY <1>2, RowsAreCounted DEF IInv, Drift, CountOnlyDriftsByContest, Accounted
<1>9. CountOnlyDriftsByContest'
  <2> DEFINE a == Accounted
             d == DeltaOf(h)
             v == Cardinality(visible)
             c == Cardinality(Contested)
             vv == Cardinality(visible')
             cc == Cardinality(Contested')
  <2>1. /\ v \in Nat /\ c \in Nat /\ a \in Int /\ d \in Int /\ a <= v /\ a >= v - c
        /\ \/ vv = v + d /\ cc = c
           \/ vv = v /\ cc = c + 1 /\ d \in {-1, 0}
    BY <1>2, <1>7, <1>8
  <2>2. Accounted' = a + d /\ Cardinality(visible)' = vv /\ Cardinality(Contested)' = cc
    BY <1>6
  <2> HIDE DEF a, d, v, c, vv, cc
  <2>3. a + d <= vv /\ a + d >= vv - cc
    BY <2>1
  <2>4. QED
    BY <2>2, <2>3 DEF CountOnlyDriftsByContest
<1>10. QED
  BY <1>5, <1>9 DEF Drift

\* A delta is recorded, or lost with its handler.
LEMMA RecordDrift ==
  ASSUME IInv, Drift, NEW h \in Handlers, RecordDelta(h) \/ CrashBeforeDelta(h)
  PROVE  Drift'
<1>1. /\ at[h] = "record" /\ at' = [at EXCEPT ![h] = "done"]
      /\ UNCHANGED <<rowVars, snapshot>>
      /\ \/ count' = count + DeltaOf(h) /\ dropped' = dropped
         \/ count' = count /\ dropped' = dropped + DeltaOf(h)
  BY DEF RecordDelta, CrashBeforeDelta, Answer
<1>2. DeltaOf(h) \in Int /\ OwedSum \in Int /\ count \in Int /\ dropped \in Int
  BY OwedIsFinite DEF IInv, RequestsOK
<1>3. RowsKeep
  BY <1>1, RowsUnchanged DEF IInv
<1>4. Blind'
  BY <1>1, <1>3, BlindKept DEF Drift
<1>5. OwedSum' = OwedSum - DeltaOf(h)
  BY <1>1, OweOneLess DEF IInv
<1>6. Accounted' = Accounted
  BY <1>1, <1>2, <1>5 DEF Accounted
<1>7. UNCHANGED <<visible, Contested>>
  BY <1>1 DEF rowVars, Contested
<1>8. QED
  BY <1>4, <1>6, <1>7 DEF Drift, CountOnlyDriftsByContest

LEMMA InitDrift == Init => Drift
<1> SUFFICES ASSUME Init PROVE Drift
  OBVIOUS
<1>1. Owed = {} /\ Contested = {} /\ visible = {} /\ count = 0 /\ dropped = 0
  BY DEF Init, Owed, Contested
<1>2. OwedSum = 0
  <2> DEFINE d == [h \in Handlers |-> DeltaOf(h)]
  <2>1. OwedSum = SumFunctionOnSet(d, {})
    BY <1>1 DEF OwedSum
  <2> HIDE DEF d
  <2>2. QED
    BY <2>1, SumOfNone
<1>3. Cardinality({}) = 0
  BY FS_EmptySet
<1>4. CountOnlyDriftsByContest
  BY <1>1, <1>2, <1>3 DEF CountOnlyDriftsByContest, Accounted
<1>5. QED
  BY <1>4 DEF Drift, Blind, Init

LEMMA NextDrift == IInv /\ Drift /\ [Next]_vars => Drift'
<1> SUFFICES ASSUME IInv, Drift, [Next]_vars PROVE Drift'
  OBVIOUS
<1>1. CASE DeletePost \/ UNCHANGED vars
  <2>1. UNCHANGED <<rowVars, at, snapshot, count, dropped>>
    BY <1>1 DEF DeletePost, vars
  <2>2. OwedSum' = OwedSum
    BY <2>1 DEF OwedSum, Owed, DeltaOf
  <2>3. CountOnlyDriftsByContest'
    BY <2>1, <2>2, NothingCounted
  <2>4. QED
    BY <2>1, <2>3 DEF Drift, Blind, rowVars
<1>2. QED
  BY <1>1, ReadsDrift, WritesDrift, RecordDrift DEF Next, Serve

\* Whatever the requests are and however they interleave and fail, comment_count follows the
\* visible comments, short of them by one at most for each comment both rejected and deleted.
THEOREM TheCountDriftsByContest == Spec => []CountOnlyDriftsByContest
<1>1. Drift => CountOnlyDriftsByContest
  BY DEF Drift
<1>2. QED
  BY <1>1, InitIInv, NextIInv, InitDrift, NextDrift, PTL DEF Spec
=============================================================================
