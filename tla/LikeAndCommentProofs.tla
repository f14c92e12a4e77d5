------------------------ MODULE LikeAndCommentProofs ------------------------
(***************************************************************************)
(* Proofs about what a student's request races with: the requests for the  *)
(* same like (LikeRelation), for any requests, attempts, and failures, and *)
(* the readers and writers of the same comment (CommentCache), for any     *)
(* number of requests.                                                     *)
(***************************************************************************)
EXTENDS LikeRelation, CommentCache, FunctionSums, FiniteSetTheorems, TLAPS

----------------------------------------------------------------------------
(* LikeRelation: deltas follow the row, and what the lock is good for.     *)

\* Where a request is says what it has done: it changes the row once, in its write, and
\* has met the row as it wants it if it is to be told "ok" for that write.
Phase(h) ==
  /\ at[h] \in {"start", "check", "write"} =>
       h \notin changed /\ tries[h] < MaxAttempts /\ result[h] = "none"
  /\ at[h] = "fill" => result[h] \in {"none", "notLiked"}
  /\ at[h] = "fill" /\ result[h] = "none" => h \in met
  /\ at[h] = "record" => h \in changed
  /\ h \in cutOff => at[h] \in {"unlock", "done"}
  /\ h \in changed => h \in met
  /\ h \in Running /\ row = Wanted(h) => h \in met
  /\ Guarded /\ result[h] = "ok" => h \in met

\* The lock excludes: whoever runs holds it, and will release it.
Exclusive == Guarded => \A h \in Running : lock = h /\ h \in locked

\* What h wrote, or found written.
Written(h) == row = Wanted(h) \/ (row = "absent" /\ Wanted(h) = "inactive")

CacheTrue == cache \in {"absent", row} \/ (cache = "inactive" /\ row = "absent")

CacheWritten ==
  Guarded =>
    /\ \A h \in Handlers : at[h] = "fill" => Written(h)
    /\ (\A h \in Handlers : at[h] # "fill") => CacheTrue

IInv ==
  /\ TypeOK
  /\ \A h \in Handlers : Phase(h)
  /\ DeltasMatchRow
  /\ Exclusive
  /\ CacheWritten

----------------------------------------------------------------------------
(* Sums of deltas.                                                         *)

LEMMA WantedTypes ==
  ASSUME NEW h \in Handlers
  PROVE  /\ Wanted(h) \in {"active", "inactive"} /\ DeltaOf(h) \in {1, -1}
         /\ Wanted(h) = "active" <=> OpOf[h] = "like"
         /\ DeltaOf(h) = IF Wanted(h) = "active" THEN 1 ELSE -1
         /\ OpOf[h] \in {"like", "unlike"}
BY LikeAssumption DEF Wanted, DeltaOf

LEMMA SumTypes ==
  ASSUME NEW S, S \subseteq Handlers
  PROVE  IsFiniteSet(S) /\ SumDeltas(S) \in Int
<1> DEFINE d == [h \in Handlers |-> DeltaOf(h)]
<1>1. IsFiniteSet(S)
  BY FS_Subset, LikeAssumption
<1>2. \A h \in S : d[h] \in Int
  BY WantedTypes
<1> HIDE DEF d
<1>3. SumFunctionOnSet(d, S) \in Int
  BY <1>1, <1>2, SumIsInt
<1>4. QED
  BY <1>1, <1>3 DEF SumDeltas, d

LEMMA SumWith ==
  ASSUME NEW S, S \subseteq Handlers, NEW h \in Handlers, h \notin S
  PROVE  SumDeltas(S \cup {h}) = SumDeltas(S) + DeltaOf(h)
<1> DEFINE d == [g \in Handlers |-> DeltaOf(g)]
<1>1. IsFiniteSet(S) /\ (\A g \in S \cup {h} : d[g] \in Int) /\ d[h] = DeltaOf(h)
  BY SumTypes, WantedTypes
<1> HIDE DEF d
<1>2. SumFunctionOnSet(d, S \cup {h}) = SumFunctionOnSet(d, S) + d[h]
  BY <1>1, SumAdds
<1>3. QED
  BY <1>1, <1>2 DEF SumDeltas, d

LEMMA SumWithout ==
  ASSUME NEW S, S \subseteq Handlers, NEW h \in S
  PROVE  SumDeltas(S \ {h}) = SumDeltas(S) - DeltaOf(h)
<1> DEFINE d == [g \in Handlers |-> DeltaOf(g)]
<1>1. IsFiniteSet(S) /\ (\A g \in S : d[g] \in Int) /\ d[h] = DeltaOf(h)
  BY SumTypes, WantedTypes
<1> HIDE DEF d
<1>2. SumFunctionOnSet(d, S \ {h}) = SumFunctionOnSet(d, S) - d[h]
  BY <1>1, SumLoses
<1>3. QED
  BY <1>1, <1>2 DEF SumDeltas, d

LEMMA NothingSummed == SumDeltas({}) = 0
<1> DEFINE d == [g \in Handlers |-> DeltaOf(g)]
<1> HIDE DEF d
<1>1. SumFunctionOnSet(d, {}) = 0
  BY SumOfNone
<1>2. QED
  BY <1>1 DEF SumDeltas, d

----------------------------------------------------------------------------
(* Types.                                                                  *)

LEMMA StepTypes ==
  ASSUME TypeOK, NEW h \in Handlers, Step(h), at[h] = "write" => tries[h] < MaxAttempts
  PROVE  TypeOK'
<1> USE LikeAssumption
<1>1. ASSUME NEW k, Fault(k) PROVE seen' \subseteq Faults /\ faults' \in 0..MaxFaults
  BY <1>1 DEF Fault, TypeOK
<1>2. ASSUME NoFault PROVE seen' \subseteq Faults /\ faults' \in 0..MaxFaults
  BY <1>2 DEF NoFault, TypeOK
<1>3. ASSUME NEW s \in Steps, GoTo(h, s) PROVE at' \in [Handlers -> Steps]
  BY <1>3 DEF GoTo, TypeOK
<1>4. ASSUME NEW r \in {"ok", "busy", "notLiked", "error"}, Answer(h, r)
      PROVE  result' \in [Handlers -> {"none", "ok", "busy", "notLiked", "error"}]
  BY <1>4 DEF Answer, TypeOK
<1>5. Running \subseteq Handlers /\ Wanted(h) \in {"active", "inactive"} /\ DeltaOf(h) \in Int
  BY WantedTypes DEF Running
<1>6. CASE TakeLock(h) \/ LockErrs(h)
  BY <1>1, <1>2, <1>3, <1>6 DEF TakeLock, LockErrs, Enter, TypeOK, Steps
<1>7. CASE LockBusy(h)
  BY <1>2, <1>3, <1>4, <1>7 DEF LockBusy, TypeOK, Steps
<1>8. CASE CheckCache(h) \/ CacheErrs(h)
  BY <1>1, <1>2, <1>3, <1>4, <1>8 DEF CheckCache, CacheErrs, TypeOK, Steps
<1>9. WriteRow(h) => /\ row' \in {"absent", "active", "inactive"}
                     /\ changed' \subseteq Handlers /\ changed \subseteq changed'
                     /\ met' \subseteq Handlers
  BY <1>5 DEF WriteRow, TypeOK
<1>10. CASE Write(h)
  BY <1>2, <1>3, <1>4, <1>9, <1>10 DEF Write, TypeOK, Steps
<1>11. CASE WriteBusy(h)
  <2>1. tries' \in [Handlers -> 0..MaxAttempts]
    BY <1>11 DEF WriteBusy, TypeOK
  <2>2. QED
    BY <1>1, <1>3, <1>4, <1>11, <2>1 DEF WriteBusy, TypeOK, Steps
<1>12. CASE WriteReplyLost(h)
  BY <1>1, <1>3, <1>4, <1>9, <1>12 DEF WriteReplyLost, TypeOK, Steps
<1>13. CASE FillCache(h)
  BY <1>1, <1>2, <1>3, <1>4, <1>5, <1>13 DEF FillCache, SetCache, Answer, TypeOK, Steps
<1>14. CASE RecordDelta(h)
  BY <1>2, <1>3, <1>4, <1>5, <1>14 DEF RecordDelta, TypeOK, Steps
<1>15. CASE Unlock(h)
  BY <1>2, <1>3, <1>15 DEF Unlock, Release, TypeOK, Steps
<1>16. CASE Crash(h)
  BY <1>1, <1>3, <1>4, <1>16 DEF Crash, TypeOK, Steps
<1>17. QED
  BY <1>6, <1>7, <1>8, <1>10, <1>11, <1>12, <1>13, <1>14, <1>15, <1>16 DEF Step

----------------------------------------------------------------------------
(* What a step does to the request that takes it, and to the others.       *)

\* The others are where they were, and have met what they had met.
OthersStay(h) ==
  /\ \A g \in Handlers \ {h} :
       /\ at'[g] = at[g] /\ tries'[g] = tries[g] /\ result'[g] = result[g]
       /\ g \in changed' <=> g \in changed
       /\ g \in cutOff' <=> g \in cutOff
       /\ g \in locked' <=> g \in locked
  /\ met \subseteq met' /\ seen \subseteq seen'

LEMMA StepLeavesOthers ==
  ASSUME TypeOK, NEW h \in Handlers, Step(h)
  PROVE  OthersStay(h)
<1> USE DEF OthersStay, TypeOK, GoTo, Answer, NoFault
<1>1. ASSUME NEW k, Fault(k) PROVE seen \subseteq seen'
  BY <1>1 DEF Fault
<1>2. CASE TakeLock(h) \/ LockBusy(h) \/ LockErrs(h)
  BY <1>1, <1>2 DEF TakeLock, LockBusy, LockErrs, Enter
<1>3. CASE CheckCache(h) \/ CacheErrs(h)
  BY <1>1, <1>3 DEF CheckCache, CacheErrs
<1>4. CASE Write(h) \/ WriteReplyLost(h)
  BY <1>1, <1>4 DEF Write, WriteReplyLost, WriteRow
<1>5. CASE WriteBusy(h)
  BY <1>1, <1>5 DEF WriteBusy
<1>6. CASE FillCache(h)
  BY <1>1, <1>6 DEF FillCache
<1>7. CASE RecordDelta(h) \/ Unlock(h)
  BY <1>7 DEF RecordDelta, Unlock
<1>8. CASE Crash(h)
  BY <1>1, <1>8 DEF Crash
<1>9. QED
  BY <1>2, <1>3, <1>4, <1>5, <1>6, <1>7, <1>8 DEF Step

LEMMA GuardedBefore == ASSUME seen \subseteq seen', Guarded' PROVE Guarded
BY DEF Guarded

\* A write that gives a running request the row it wants is met by it.
LEMMA WriteIsMet ==
  ASSUME TypeOK, NEW h \in Handlers, WriteRow(h), at[h] = "write"
  PROVE  /\ \A g \in Running : row' = Wanted(g) => g \in met'
         /\ met \subseteq met'
         /\ h \in Running
         /\ h \notin changed /\ h \in changed' => h \in met' /\ row' = Wanted(h) /\ row' # row
         /\ h \notin changed' => row' = row
         /\ Written(h)'
         /\ row' \in {"absent", "active", "inactive"}
         /\ OpOf[h] = "like" \/ row = "active" => h \in met'
<1>1. h \in Running /\ OpOf[h] \in {"like", "unlike"}
  BY WantedTypes DEF Running
<1>2. /\ row' = IF OpOf[h] = "unlike" /\ row = "absent" THEN row ELSE Wanted(h)
      /\ changed' = IF row' # row THEN changed \cup {h} ELSE changed
      /\ met' = met \cup {g \in Running : row' = Wanted(g)}
  BY DEF WriteRow
<1>3. row' = Wanted(h) \/ (OpOf[h] = "unlike" /\ row' = "absent" /\ row = "absent")
  BY <1>2
<1>4. QED
  BY <1>1, <1>2, <1>3, WantedTypes DEF Written, TypeOK

LEMMA OtherPhases ==
  ASSUME IInv, NEW h \in Handlers, Step(h), NEW g \in Handlers, g # h
  PROVE  Phase(g)'
<1>1. OthersStay(h) /\ Phase(g)
  BY StepLeavesOthers DEF IInv
<1>2. g \in Running' <=> g \in Running
  BY <1>1 DEF OthersStay, Running
<1>3. CASE row' = row
  BY <1>1, <1>2, <1>3, GuardedBefore DEF OthersStay, Phase
<1>4. CASE row' # row
  <2>1. WriteRow(h) /\ at[h] = "write"
    BY <1>4 DEF Step, TakeLock, LockBusy, LockErrs, CheckCache, CacheErrs, Write, WriteBusy,
                WriteReplyLost, FillCache, RecordDelta, Unlock, Crash
  <2>2. \A r \in Running : row' = Wanted(r) => r \in met'
    BY <2>1, WriteIsMet DEF IInv
  <2>3. QED
    BY <1>1, <1>2, <2>2, GuardedBefore DEF OthersStay, Phase
<1>5. QED
  BY <1>3, <1>4

\* A request that runs under the lock runs alone.
LEMMA RunsAlone ==
  ASSUME Exclusive, Guarded, NEW h \in Running, NEW g \in Running
  PROVE  g = h
BY DEF Exclusive

LEMMA OwnPhase ==
  ASSUME IInv, NEW h \in Handlers, Step(h)
  PROVE  Phase(h)'
<1>1. TypeOK /\ Phase(h) /\ OthersStay(h) /\ OpOf[h] \in {"like", "unlike"}
  BY StepLeavesOthers, WantedTypes DEF IInv
<1>2. met \subseteq met' /\ (Guarded' => Guarded)
  BY <1>1, GuardedBefore DEF OthersStay
<1>3. CASE TakeLock(h) \/ LockErrs(h)
  BY <1>1, <1>2, <1>3 DEF TakeLock, LockErrs, Enter, GoTo, Phase, TypeOK, Running
<1>4. CASE LockBusy(h)
  BY <1>1, <1>2, <1>4 DEF LockBusy, GoTo, Answer, Phase, TypeOK, Running
<1>5. CASE CheckCache(h)
  <2>1. at[h] = "check" /\ h \in Running /\ row' = row /\ changed' = changed /\ met' = met
        /\ cutOff' = cutOff /\ tries' = tries
    BY <1>5 DEF CheckCache, Running
  <2>2. CASE CacheAnswers(h)
    <3>1. /\ at' = [at EXCEPT ![h] = "unlock"]
          /\ result' = [result EXCEPT ![h] = IF OpOf[h] = "like" THEN "ok" ELSE "notLiked"]
      BY <1>5, <2>2 DEF CheckCache, GoTo, Answer
    <3>2. Guarded /\ OpOf[h] = "like" => row = "active"
      <4>1. SUFFICES ASSUME Guarded, OpOf[h] = "like" PROVE row = "active"
        OBVIOUS
      <4>2. \A g \in Handlers : at[g] # "fill"
        BY <2>1, <4>1, RunsAlone DEF IInv, Running
      <4>3. CacheTrue /\ cache = "active"
        BY <2>2, <4>1, <4>2 DEF IInv, CacheWritten, CacheAnswers, Wanted
      <4>4. QED
        BY <4>3 DEF CacheTrue
    <3>3. Guarded /\ OpOf[h] = "like" => h \in met
      BY <1>1, <2>1, <3>2 DEF Phase, Wanted
    <3>4. at'[h] = "unlock" /\ result'[h] = (IF OpOf[h] = "like" THEN "ok" ELSE "notLiked")
      BY <1>1, <3>1 DEF TypeOK
    <3>5. QED
      BY <1>1, <1>2, <2>1, <3>3, <3>4 DEF Phase, Running
  <2>3. CASE ~CacheAnswers(h)
    BY <1>1, <1>2, <1>5, <2>3 DEF CheckCache, GoTo, Phase, TypeOK, Running
  <2>4. QED
    BY <2>2, <2>3
<1>6. CASE CacheErrs(h)
  BY <1>1, <1>2, <1>6 DEF CacheErrs, GoTo, Phase, TypeOK, Running
<1>7. CASE Write(h)
  <2>1. /\ at[h] = "write" /\ WriteRow(h)
        /\ at' = [at EXCEPT ![h] = "fill"]
        /\ result' = IF OpOf[h] = "unlike" /\ row # "active"
                       THEN [result EXCEPT ![h] = "notLiked"] ELSE result
        /\ cutOff' = cutOff
    BY <1>7 DEF Write, GoTo, Answer
  <2>2. h \notin changed /\ result[h] = "none" /\ h \notin cutOff
    BY <1>1, <2>1 DEF Phase
  <2>3. /\ h \in changed' => h \in met'
        /\ h \in Running
        /\ \A g \in Running : row' = Wanted(g) => g \in met'
        /\ OpOf[h] = "like" \/ row = "active" => h \in met'
    BY <1>1, <2>1, <2>2, WriteIsMet
  <2>4. at'[h] = "fill" /\ result'[h] \in {"none", "notLiked"}
        /\ (result'[h] = "none" => OpOf[h] = "like" \/ row = "active")
    BY <1>1, <2>1, <2>2 DEF TypeOK
  <2>5. QED
    BY <2>2, <2>1, <2>3, <2>4 DEF Phase
<1>8. CASE WriteBusy(h)
  <2>1. /\ at[h] = "write" /\ tries' = [tries EXCEPT ![h] = @ + 1]
        /\ \/ tries[h] + 1 = MaxAttempts /\ at' = [at EXCEPT ![h] = "unlock"]
                                         /\ result' = [result EXCEPT ![h] = "busy"]
           \/ tries[h] + 1 # MaxAttempts /\ at' = at /\ result' = result
        /\ UNCHANGED <<row, changed, cutOff, met>>
    BY <1>8 DEF WriteBusy, GivesUp, GoTo, Answer
  <2>2. tries'[h] = tries[h] + 1 /\ tries[h] \in Nat /\ tries[h] < MaxAttempts /\ MaxAttempts \in Nat
    BY <1>1, <2>1, LikeAssumption DEF TypeOK, Phase
  <2>3. QED
    BY <1>1, <1>2, <2>1, <2>2 DEF Phase, TypeOK, Running
<1>9. CASE WriteReplyLost(h)
  <2>1. /\ at[h] = "write" /\ WriteRow(h)
        /\ at'[h] = "unlock" /\ result'[h] = "error"
    BY <1>1, <1>9 DEF WriteReplyLost, GoTo, Answer, TypeOK
  <2>2. /\ h \notin changed
        /\ h \in changed' => h \in met'
        /\ h \in Running
        /\ \A g \in Running : row' = Wanted(g) => g \in met'
    BY <1>1, <2>1, WriteIsMet DEF Phase
  <2>3. QED
    BY <2>1, <2>2 DEF Phase
<1>10. CASE FillCache(h)
  <2>1. /\ at[h] = "fill" /\ UNCHANGED <<row, changed, cutOff, met>>
        /\ \/ h \in changed /\ at'[h] = "record" /\ result'[h] = result[h]
           \/ h \notin changed /\ at'[h] = "unlock"
                               /\ result'[h] = IF result[h] = "none" THEN "ok" ELSE result[h]
    BY <1>1, <1>10 DEF FillCache, GoTo, Answer, TypeOK
  <2>2. h \in Running
    BY <2>1 DEF Running
  <2>3. QED
    BY <1>1, <1>2, <2>1, <2>2 DEF Phase
<1>11. CASE RecordDelta(h)
  BY <1>1, <1>2, <1>11 DEF RecordDelta, GoTo, Answer, Phase, TypeOK, Running
<1>12. CASE Unlock(h)
  BY <1>1, <1>2, <1>12 DEF Unlock, GoTo, Phase, TypeOK, Running
<1>13. CASE Crash(h)
  <2>1. /\ at'[h] = "done" /\ result'[h] = "error" /\ UNCHANGED <<row, changed, met>>
    BY <1>1, <1>13 DEF Crash, GoTo, Answer, TypeOK
  <2>2. QED
    BY <1>1, <2>1 DEF Phase, Running
<1>14. QED
  BY <1>3, <1>4, <1>5, <1>6, <1>7, <1>8, <1>9, <1>10, <1>11, <1>12, <1>13 DEF Step

----------------------------------------------------------------------------
(* The deltas follow the row.                                              *)

LEMMA DeltasKept ==
  ASSUME DeltasMatchRow, UNCHANGED <<delta, cutOff, row>>, Owed' = Owed
  PROVE  DeltasMatchRow'
BY DEF DeltasMatchRow, SumDeltas

LEMMA StepDeltas ==
  ASSUME IInv, NEW h \in Handlers, Step(h)
  PROVE  DeltasMatchRow'
<1> DEFINE w == SumDeltas(Owed)
           z == SumDeltas(cutOff)
<1>1. TypeOK /\ Phase(h) /\ DeltasMatchRow /\ OthersStay(h)
  BY StepLeavesOthers DEF IInv
<1>2. /\ Owed \subseteq Handlers /\ cutOff \subseteq Handlers
      /\ delta \in Int /\ DeltaOf(h) \in Int /\ w \in Int /\ z \in Int
  BY <1>1, SumTypes, WantedTypes DEF TypeOK, Owed
<1>3. delta + w + z = IF row = "active" THEN 1 ELSE 0
  BY <1>1 DEF DeltasMatchRow
<1>4. Owed' \ {h} = Owed \ {h} /\ cutOff' \ {h} = cutOff \ {h}
  <2>1. changed' \subseteq Handlers /\ cutOff' \subseteq Handlers
    BY <1>1, StepTypes DEF Phase, TypeOK
  <2>2. \A g \in Handlers \ {h} : (g \in Owed' <=> g \in Owed) /\ (g \in cutOff' <=> g \in cutOff)
    BY <1>1 DEF OthersStay, Owed
  <2>3. Owed' \subseteq Handlers /\ Owed \subseteq Handlers /\ cutOff \subseteq Handlers
    BY <1>2, <2>1 DEF Owed
  <2>4. QED
    BY <2>1, <2>2, <2>3
<1>5. CASE \/ TakeLock(h) \/ LockBusy(h) \/ LockErrs(h) \/ CheckCache(h) \/ CacheErrs(h)
           \/ WriteBusy(h) \/ Unlock(h) \/ FillCache(h)
  <2>1. UNCHANGED <<delta, cutOff, row, changed>>
    BY <1>5 DEF TakeLock, LockBusy, LockErrs, CheckCache, CacheErrs, WriteBusy, Unlock, FillCache
  <2>2. h \in Owed' <=> h \in Owed
    BY <1>1, <1>5
       DEF TakeLock, LockBusy, LockErrs, CheckCache, CacheErrs, WriteBusy, Unlock, FillCache,
           Enter, GoTo, Owed, Phase, TypeOK
  <2>3. QED
    BY <1>1, <1>4, <2>1, <2>2, DeltasKept
<1>6. ASSUME WriteRow(h), at[h] = "write"
      PROVE  \/ row' = row /\ changed' = changed
             \/ /\ changed' = changed \cup {h}
                /\ (IF row' = "active" THEN 1 ELSE 0) = (IF row = "active" THEN 1 ELSE 0) + DeltaOf(h)
  <2>1. /\ row' = IF OpOf[h] = "unlike" /\ row = "absent" THEN row ELSE Wanted(h)
        /\ changed' = IF row' # row THEN changed \cup {h} ELSE changed
    BY <1>6 DEF WriteRow
  <2>2. CASE row' = row
    BY <2>1, <2>2
  <2>3. CASE row' # row
    <3>1. row' = Wanted(h) /\ changed' = changed \cup {h}
      BY <2>1, <2>3
    <3>2. Wanted(h) = "active" => DeltaOf(h) = 1 /\ row # "active"
      BY <2>3, <3>1, WantedTypes
    <3>3. Wanted(h) # "active" => DeltaOf(h) = -1 /\ row = "active"
      BY <1>1, <2>1, <2>3, <3>1, WantedTypes DEF TypeOK
    <3>4. QED
      BY <3>1, <3>2, <3>3
  <2>4. QED
    BY <2>2, <2>3
<1>7. CASE Write(h)
  <2>1. /\ WriteRow(h) /\ at[h] = "write" /\ at'[h] = "fill"
        /\ UNCHANGED <<delta, cutOff>> /\ h \notin changed
    BY <1>1, <1>7 DEF Write, GoTo, TypeOK, Phase
  <2>2. h \notin Owed
    BY <2>1 DEF Owed
  <2>3. CASE row' = row /\ changed' = changed
    <3>1. Owed' = Owed
      BY <1>4, <2>1, <2>2, <2>3 DEF Owed
    <3>2. QED
      BY <1>1, <2>1, <2>3, <3>1, DeltasKept
  <2>4. CASE /\ changed' = changed \cup {h}
             /\ (IF row' = "active" THEN 1 ELSE 0) = (IF row = "active" THEN 1 ELSE 0) + DeltaOf(h)
    <3>1. Owed' = Owed \cup {h}
      BY <1>4, <2>1, <2>2, <2>4 DEF Owed
    <3>2. SumDeltas(Owed \cup {h}) = w + DeltaOf(h)
      BY <1>2, <2>2, SumWith
    <3> HIDE DEF w, z
    <3>3. delta + (w + DeltaOf(h)) + z = IF row' = "active" THEN 1 ELSE 0
      BY <1>2, <1>3, <2>4
    <3>4. SumDeltas(Owed') = w + DeltaOf(h) /\ SumDeltas(cutOff') = z /\ delta' = delta
      BY <2>1, <3>1, <3>2 DEF z
    <3>5. QED
      BY <3>3, <3>4 DEF DeltasMatchRow, SumDeltas
  <2>5. QED
    BY <1>6, <2>1, <2>3, <2>4
<1>8. CASE WriteReplyLost(h)
  <2>1. /\ WriteRow(h) /\ at[h] = "write" /\ at'[h] = "unlock"
        /\ delta' = delta /\ h \notin changed /\ h \notin cutOff
        /\ cutOff' = IF h \in changed' THEN cutOff \cup {h} ELSE cutOff
    BY <1>1, <1>8 DEF WriteReplyLost, GoTo, TypeOK, Phase
  <2>2. Owed' = Owed
    BY <1>4, <2>1 DEF Owed
  <2>3. CASE row' = row /\ changed' = changed
    BY <1>1, <2>1, <2>2, <2>3, DeltasKept
  <2>4. CASE /\ changed' = changed \cup {h}
             /\ (IF row' = "active" THEN 1 ELSE 0) = (IF row = "active" THEN 1 ELSE 0) + DeltaOf(h)
    <3>1. cutOff' = cutOff \cup {h}
      BY <2>1, <2>4
    <3>2. SumDeltas(cutOff \cup {h}) = z + DeltaOf(h)
      BY <1>2, <2>1, SumWith
    <3> HIDE DEF w, z
    <3>3. delta + w + (z + DeltaOf(h)) = IF row' = "active" THEN 1 ELSE 0
      BY <1>2, <1>3, <2>4
    <3>4. SumDeltas(cutOff') = z + DeltaOf(h) /\ SumDeltas(Owed') = w /\ delta' = delta
      BY <2>1, <2>2, <3>1, <3>2 DEF w
    <3>5. QED
      BY <3>3, <3>4 DEF DeltasMatchRow, SumDeltas
  <2>5. QED
    BY <1>6, <2>1, <2>3, <2>4
<1>9. CASE RecordDelta(h)
  <2>1. /\ at[h] = "record" /\ at'[h] = "unlock" /\ delta' = delta + DeltaOf(h)
        /\ UNCHANGED <<row, changed, cutOff>> /\ h \in changed
    BY <1>1, <1>9 DEF RecordDelta, GoTo, TypeOK, Phase
  <2>2. h \in Owed /\ Owed' = Owed \ {h}
    BY <1>4, <2>1 DEF Owed
  <2>3. SumDeltas(Owed \ {h}) = w - DeltaOf(h)
    BY <1>2, <2>2, SumWithout
  <2> HIDE DEF w, z
  <2>4. (delta + DeltaOf(h)) + (w - DeltaOf(h)) + z = IF row = "active" THEN 1 ELSE 0
    BY <1>2, <1>3
  <2>5. SumDeltas(Owed') = w - DeltaOf(h) /\ SumDeltas(cutOff') = z
    BY <2>1, <2>2, <2>3 DEF z
  <2>6. QED
    BY <2>1, <2>4, <2>5 DEF DeltasMatchRow, SumDeltas
<1>10. CASE Crash(h)
  <2>1. /\ at'[h] = "done" /\ UNCHANGED <<row, changed, delta>>
        /\ cutOff' = IF h \in changed /\ at[h] \in {"fill", "record"} THEN cutOff \cup {h} ELSE cutOff
    BY <1>1, <1>10 DEF Crash, GoTo, TypeOK
  <2>2. Owed' = Owed \ {h}
    BY <1>4, <2>1 DEF Owed
  <2>3. CASE h \notin Owed
    <3>1. Owed' = Owed /\ cutOff' = cutOff
      BY <2>1, <2>2, <2>3 DEF Owed
    <3>2. QED
      BY <1>1, <2>1, <3>1, DeltasKept
  <2>4. CASE h \in Owed
    <3>1. cutOff' = cutOff \cup {h} /\ h \notin cutOff
      BY <1>1, <2>1, <2>4 DEF Owed, Phase
    <3>2. SumDeltas(Owed \ {h}) = w - DeltaOf(h) /\ SumDeltas(cutOff \cup {h}) = z + DeltaOf(h)
      BY <1>2, <2>4, <3>1, SumWith, SumWithout
    <3> HIDE DEF w, z
    <3>3. delta + (w - DeltaOf(h)) + (z + DeltaOf(h)) = IF row = "active" THEN 1 ELSE 0
      BY <1>2, <1>3
    <3>4. SumDeltas(Owed') = w - DeltaOf(h) /\ SumDeltas(cutOff') = z + DeltaOf(h)
      BY <2>2, <3>1, <3>2
    <3>5. QED
      BY <2>1, <3>3, <3>4 DEF DeltasMatchRow, SumDeltas
  <2>5. QED
    BY <2>3, <2>4
<1>11. QED
  BY <1>5, <1>7, <1>8, <1>9, <1>10 DEF Step

----------------------------------------------------------------------------
(* The lock excludes, and the cache follows the row.                       *)

LEMMA StepExclusive ==
  ASSUME IInv, NEW h \in Handlers, Step(h)
  PROVE  Exclusive'
<1>1. TypeOK /\ OthersStay(h) /\ Exclusive
  BY StepLeavesOthers DEF IInv
<1>2. SUFFICES ASSUME Guarded', NEW g \in Running'
               PROVE  lock' = g /\ g \in locked'
  BY DEF Exclusive
<1>3. Guarded /\ g \in Handlers
  BY <1>1, <1>2, GuardedBefore DEF OthersStay, Running
<1>4. ~LockErrs(h) /\ ~Crash(h)
  BY <1>2 DEF LockErrs, Crash, Fault, Guarded
<1>5. CASE TakeLock(h)
  <2>1. lock' = h /\ h \in locked' /\ lock = NoHandler
    BY <1>5 DEF TakeLock
  <2>2. g = h
    <3>1. SUFFICES ASSUME g # h PROVE FALSE
      OBVIOUS
    <3>2. g \in Running
      BY <1>1, <1>2, <1>3, <3>1 DEF OthersStay, Running
    <3>3. QED
      BY <1>1, <1>3, <2>1, <3>2, LikeAssumption DEF Exclusive
  <2>3. QED
    BY <2>1, <2>2
<1>6. CASE Unlock(h)
  <2>1. g # h /\ h \in Running
    BY <1>1, <1>2, <1>6 DEF Unlock, GoTo, TypeOK, Running
  <2>2. g \in Running
    BY <1>1, <1>2, <1>3, <2>1 DEF OthersStay, Running
  <2>3. QED
    BY <1>1, <1>3, <2>1, <2>2, RunsAlone
<1>7. CASE LockBusy(h)
  BY <1>1, <1>2, <1>3, <1>7 DEF LockBusy, GoTo, TypeOK, Running, Exclusive
<1>8. CASE \/ CheckCache(h) \/ CacheErrs(h) \/ Write(h) \/ WriteBusy(h) \/ WriteReplyLost(h)
           \/ FillCache(h) \/ RecordDelta(h)
  <2>1. lock' = lock /\ locked' = locked /\ h \in Running
    BY <1>8 DEF CheckCache, CacheErrs, Write, WriteBusy, WriteReplyLost, FillCache, RecordDelta,
                Running
  <2>2. g \in Running
    BY <1>1, <1>2, <1>3, <2>1 DEF OthersStay, Running
  <2>3. QED
    BY <1>1, <1>3, <2>1, <2>2 DEF Exclusive
<1>9. QED
  BY <1>4, <1>5, <1>6, <1>7, <1>8 DEF Step

LEMMA StepCache ==
  ASSUME IInv, NEW h \in Handlers, Step(h)
  PROVE  CacheWritten'
<1>1. TypeOK /\ OthersStay(h) /\ Exclusive /\ CacheWritten
  BY StepLeavesOthers DEF IInv
<1>2. SUFFICES ASSUME Guarded'
               PROVE  /\ \A g \in Handlers : at'[g] = "fill" => Written(g)'
                      /\ (\A g \in Handlers : at'[g] # "fill") => CacheTrue'
  BY DEF CacheWritten
<1>3. Guarded
  BY <1>1, <1>2, GuardedBefore DEF OthersStay
<1>4. ~LockErrs(h) /\ ~Crash(h) /\ ~WriteReplyLost(h)
  BY <1>2 DEF LockErrs, Crash, WriteReplyLost, Fault, Guarded
<1>5. CASE /\ row' = row /\ cache' = cache
           /\ at[h] # "fill" /\ at'[h] # "fill"
  BY <1>1, <1>3, <1>5 DEF CacheWritten, OthersStay, Written, CacheTrue
<1>6. CASE TakeLock(h) \/ LockBusy(h) \/ CheckCache(h) \/ CacheErrs(h) \/ WriteBusy(h)
           \/ RecordDelta(h) \/ Unlock(h)
  <2>1. /\ row' = row /\ cache' = cache
        /\ at[h] # "fill" /\ at'[h] # "fill"
    BY <1>1, <1>6 DEF TakeLock, Enter, LockBusy, CheckCache, CacheErrs, WriteBusy, RecordDelta,
                      Unlock, GoTo, TypeOK
  <2>2. QED
    BY <1>5, <2>1
<1>7. CASE Write(h)
  <2>1. WriteRow(h) /\ at[h] = "write" /\ at'[h] = "fill"
    BY <1>1, <1>7 DEF Write, GoTo, TypeOK
  <2>2. Written(h)' /\ h \in Running
    BY <1>1, <2>1, WriteIsMet
  <2>3. \A g \in Handlers : at'[g] = "fill" => g = h
    BY <1>1, <1>3, <2>2, RunsAlone DEF OthersStay, Running
  <2>4. QED
    BY <2>1, <2>2, <2>3
<1>8. CASE FillCache(h)
  <2>1. /\ at[h] = "fill" /\ at'[h] # "fill" /\ row' = row
        /\ cache' = Wanted(h)
    BY <1>1, <1>2, <1>8 DEF FillCache, SetCache, GoTo, TypeOK, Fault, Guarded
  <2>2. Written(h)
    BY <1>1, <1>3, <2>1 DEF CacheWritten
  <2>3. CacheTrue'
    BY <2>1, <2>2 DEF CacheTrue, Written
  <2>4. \A g \in Handlers : at'[g] # "fill"
    <3>1. h \in Running
      BY <2>1 DEF Running
    <3>2. QED
      BY <1>1, <1>3, <2>1, <3>1, RunsAlone DEF OthersStay, Running
  <2>5. QED
    BY <2>3, <2>4
<1>9. QED
  BY <1>4, <1>6, <1>7, <1>8 DEF Step

----------------------------------------------------------------------------
(* The invariant.                                                          *)

LEMMA InitIInv == Init => IInv
<1> SUFFICES ASSUME Init PROVE IInv
  OBVIOUS
<1> USE LikeAssumption DEF Init
<1>1. TypeOK
  BY DEF TypeOK, Steps
<1>2. ASSUME NEW h \in Handlers PROVE Phase(h)
  BY DEF Phase, Running
<1>3. Owed = {} /\ cutOff = {}
  BY DEF Owed
<1>4. DeltasMatchRow
  BY <1>3, NothingSummed DEF DeltasMatchRow
<1>5. Exclusive /\ CacheWritten
  BY DEF Exclusive, CacheWritten, CacheTrue, Running
<1>6. QED
  BY <1>1, <1>2, <1>4, <1>5 DEF IInv

\* Expiry: a lock that no running request would release any more, or a failure.
LEMMA ExpirySteps ==
  ASSUME IInv, LockExpires \/ CacheExpires
  PROVE  IInv'
<1>1. TypeOK /\ Exclusive /\ CacheWritten /\ DeltasMatchRow
  BY DEF IInv
<1>2. /\ UNCHANGED <<row, at, locked, tries, changed, result, delta, cutOff, met>>
      /\ seen \subseteq seen'
  BY DEF LockExpires, CacheExpires, Fault, NoFault
<1>3. TypeOK'
  BY <1>1, <1>2, LikeAssumption DEF LockExpires, CacheExpires, Fault, NoFault, TypeOK
<1>4. Guarded' => Guarded
  BY <1>2, GuardedBefore
<1>5. ASSUME NEW h \in Handlers PROVE Phase(h)'
  BY <1>2, <1>4 DEF IInv, Phase, Running
<1>6. DeltasMatchRow'
  BY <1>1, <1>2, DeltasKept DEF Owed
<1>7. Exclusive'
  <2>1. SUFFICES ASSUME Guarded', NEW h \in Running PROVE lock' = h /\ h \in locked'
    BY <1>2 DEF Exclusive, Running
  <2>2. lock = h /\ h \in locked
    BY <1>1, <1>4, <2>1 DEF Exclusive
  <2>3. ~LockExpires
    BY <2>1, <2>2 DEF LockExpires, Fault, Guarded
  <2>4. QED
    BY <1>2, <2>2, <2>3 DEF CacheExpires
<1>8. CacheWritten'
  BY <1>1, <1>2, <1>4 DEF LockExpires, CacheExpires, CacheWritten, CacheTrue, Written
<1>9. QED
  BY <1>3, <1>5, <1>6, <1>7, <1>8 DEF IInv

LEMMA NextIInv == IInv /\ [Next]_vars => IInv'
<1> SUFFICES ASSUME IInv, [Next]_vars PROVE IInv'
  OBVIOUS
<1>1. ASSUME NEW h \in Handlers, Step(h) PROVE IInv'
  <2>1. TypeOK'
    BY <1>1, StepTypes DEF IInv, Phase
  <2>2. ASSUME NEW g \in Handlers PROVE Phase(g)'
    BY <1>1, OtherPhases, OwnPhase
  <2>3. QED
    BY <1>1, <2>1, <2>2, StepDeltas, StepExclusive, StepCache DEF IInv
<1>2. CASE UNCHANGED vars
  BY <1>2 DEF vars, IInv, TypeOK, Phase, Running, Guarded, DeltasMatchRow, SumDeltas, Owed,
              Exclusive, CacheWritten, CacheTrue, Written
<1>3. QED
  BY <1>1, <1>2, ExpirySteps DEF Next

\* Every reachable state is well typed; in particular a write is tried MaxAttempts times
\* at most, and a delta is lost only with a request that changed the row.
THEOREM TypeCorrect == Spec => []TypeOK
<1>1. IInv => TypeOK
  BY DEF IInv
<1>2. QED
  BY <1>1, InitIInv, NextIInv, PTL DEF Spec

\* With or without the lock, whatever fails: what the requests of a student hand to the
\* counter, still owe it, and lost, adds up to whether the student likes the post.
THEOREM TheDeltasMatchTheRow == Spec => []DeltasMatchRow
<1>1. IInv => DeltasMatchRow
  BY DEF IInv
<1>2. QED
  BY <1>1, InitIInv, NextIInv, PTL DEF Spec

\* As long as the lock is not lost and the cache can be written, the cached status is that
\* of the row whenever no request is between its write and its SET.
THEOREM TheCacheFollowsTheRow == Spec => []CacheFollowsRow
<1>1. IInv => CacheFollowsRow
  BY DEF IInv, CacheWritten, CacheTrue, CacheFollowsRow
<1>2. QED
  BY <1>1, InitIInv, NextIInv, PTL DEF Spec

\* Under the same conditions "ok" is the truth: the row was as the request wants it at some
\* time while it ran.
THEOREM TheAnswerIsTrue == Spec => []OkMeansMet
<1>1. IInv => OkMeansMet
  BY DEF IInv, Phase, OkMeansMet
<1>2. QED
  BY <1>1, InitIInv, NextIInv, PTL DEF Spec

\* No request takes the lock of one that runs: it passes on only when its holder answers,
\* or when the key expires under it.
THEOREM OnlyExpiryTakesIt == Spec => OnlyExpiryTakesTheLock
<1> DEFINE Safe == \A h \in Running \cap locked :
                     lock = h /\ lock' # h => at'[h] = "done" \/ faults' = faults + 1
<1>1. ASSUME TypeOK, [Next]_vars PROVE [Safe]_vars
  <2>1. SUFFICES ASSUME NEW h \in Handlers, h \in Running, h \in locked, lock = h, lock' # h
                 PROVE  at'[h] = "done" \/ faults' = faults + 1
    BY DEF Running
  <2>2. ASSUME NEW g \in Handlers, Step(g) PROVE g = h /\ Unlock(g)
    <3>1. h # NoHandler
      BY LikeAssumption
    <3>2. CASE Unlock(g)
      BY <2>1, <3>2 DEF Unlock, Release
    <3>3. QED
      BY <2>1, <2>2, <3>1, <3>2 DEF Step, TakeLock, LockBusy, LockErrs, CheckCache, CacheErrs,
         Write, WriteBusy, WriteReplyLost, FillCache, RecordDelta, Crash
  <2>3. CASE LockExpires
    BY <2>1, <2>3 DEF LockExpires, Fault
  <2>4. CASE CacheExpires \/ UNCHANGED vars
    BY <2>1, <2>4 DEF CacheExpires, vars
  <2>5. ASSUME NEW g \in Handlers, Step(g) PROVE at'[h] = "done"
    BY <1>1, <2>2, <2>5 DEF Unlock, GoTo, TypeOK
  <2>6. QED
    BY <1>1, <2>3, <2>4, <2>5 DEF Next
<1>2. QED
  BY <1>1, TypeCorrect, PTL DEF Spec, OnlyExpiryTakesTheLock

----------------------------------------------------------------------------
(* CommentCache: what the shared object and the lists of ids hold, and when *)
(* they may be old.                                                        *)

\* What the request h carries: an audit status to its write, a row that was live to a SET,
\* and nothing only if the comment was gone.
Stage(h) ==
  /\ job[h] \in Jobs
  /\ job[h].at \in {"write", "setObject", "setLoaded", "delObject"} => comment.life # "unborn"
  /\ job[h].at = "write" =>
       /\ job[h].op \in {"delete", "reject"} /\ job[h].saw \in [audit : AuditStatuses]
       /\ comment.life = "live" /\ comment.audit = 0 => job[h].saw.audit = 0
  /\ job[h].at \in {"delObject", "delLists"} => job[h].op \in Writes
  /\ job[h].at = "setObject" =>
       \/ job[h].saw \in LiveRows /\ job[h].op \in {"detail", "page"}
       \/ job[h].saw = None /\ job[h].op = "detail" /\ comment.life = "deleted"
  /\ job[h].at = "setLoaded" => job[h].saw \in LiveRows

Unborn == comment.life = "unborn" => object = Absent /\ comment.audit = 0

CacheIInv ==
  /\ CacheTypeOK /\ Unborn
  /\ \A h \in Requests : Stage(h)
  /\ ObjectStaleOnlyByRace /\ ListStaleOnlyByRace /\ NullOnlyWhenGone

----------------------------------------------------------------------------
(* Values, and jobs.                                                       *)

\* What stands for a key that is missing, and for a missing row, is no row.
LEMMA NoRow ==
  ASSUME NEW r \in Rows
  PROVE  r # None /\ r # Null /\ r # Absent
<1>1. DOMAIN r = {"life", "visible", "audit", "reply"}
  BY DEF Rows
<1>2. DOMAIN None = {"no"} /\ DOMAIN Null = {"no"} /\ DOMAIN Absent = {"no"}
  BY DEF None, Null, Absent
<1>3. QED
  BY <1>1, <1>2

LEMMA Keys == Absent # Null /\ None # Found
<1>1. Absent.no # Null.no /\ DOMAIN None # DOMAIN Found
  BY DEF None, Null, Absent, Found
<1>2. QED
  BY <1>1

Stops == {"write", "delObject", "delLists", "setObject", "setList", "load", "setLoaded"}
Sights == LiveRows \cup {None, Found} \cup [audit : AuditStatuses]

\* The others do what they did.
OtherJobsStay(h) == \A g \in Requests \ {h} : job'[g] = job[g]

LEMMA Idling == Idle.at = "idle" /\ Idle.op = "idle" /\ Idle \in Jobs
BY DEF Idle, Jobs

LEMMA Busy ==
  ASSUME NEW j \in Jobs, j.at # "idle"
  PROVE  /\ j \in [op : Writes \cup {"detail", "page"}, at : Stops, saw : Sights]
         /\ j # Idle
BY Idling DEF Jobs, Stops, Sights

LEMMA JobAdvances ==
  ASSUME job \in [Requests -> Jobs], NEW h \in Requests, job[h].at # "idle",
         NEW step \in Stops, Advance(h, step)
  PROVE  /\ job' \in [Requests -> Jobs] /\ OtherJobsStay(h)
         /\ job'[h].op = job[h].op /\ job'[h].at = step /\ job'[h].saw = job[h].saw
<1>1. job[h] \in [op : Writes \cup {"detail", "page"}, at : Stops, saw : Sights]
  BY Busy
<1>2. job' = [job EXCEPT ![h] = [job[h] EXCEPT !.at = step]]
  BY DEF Advance
<1>3. [job[h] EXCEPT !.at = step] \in [op : Writes \cup {"detail", "page"}, at : Stops, saw : Sights]
  BY <1>1
<1>4. [job[h] EXCEPT !.at = step] \in Jobs
  BY <1>3 DEF Jobs, Stops, Sights
<1>5. QED
  BY <1>1, <1>2, <1>4 DEF OtherJobsStay

LEMMA JobCarries ==
  ASSUME job \in [Requests -> Jobs], NEW h \in Requests, job[h].at # "idle",
         NEW step \in Stops, NEW saw \in Sights,
         job' = [job EXCEPT ![h].at = step, ![h].saw = saw]
  PROVE  /\ job' \in [Requests -> Jobs] /\ OtherJobsStay(h)
         /\ job'[h].op = job[h].op /\ job'[h].at = step /\ job'[h].saw = saw
<1>1. job[h] \in [op : Writes \cup {"detail", "page"}, at : Stops, saw : Sights]
  BY Busy
<1> DEFINE j == [[job[h] EXCEPT !.at = step] EXCEPT !.saw = saw]
<1>2. job' = [job EXCEPT ![h] = j]
  OBVIOUS
<1>3. /\ j \in [op : Writes \cup {"detail", "page"}, at : Stops, saw : Sights]
      /\ j.op = job[h].op /\ j.at = step /\ j.saw = saw
  BY <1>1
<1> HIDE DEF j
<1>4. j \in Jobs
  BY <1>3 DEF Jobs, Stops, Sights
<1>5. job' \in [Requests -> Jobs] /\ job'[h] = j /\ OtherJobsStay(h)
  BY <1>2, <1>4 DEF OtherJobsStay
<1>6. QED
  BY <1>3, <1>5

LEMMA JobBegins ==
  ASSUME job \in [Requests -> Jobs], NEW h \in Requests, NEW op \in Writes \cup {"detail", "page"},
         NEW step \in Stops, NEW saw \in Sights, Begin(h, op, step, saw)
  PROVE  /\ job' \in [Requests -> Jobs] /\ OtherJobsStay(h) /\ job[h].at = "idle"
         /\ job'[h].op = op /\ job'[h].at = step /\ job'[h].saw = saw
<1>1. job' = [job EXCEPT ![h] = [op |-> op, at |-> step, saw |-> saw]] /\ job[h].at = "idle"
  BY Idling DEF Begin
<1>2. [op |-> op, at |-> step, saw |-> saw] \in Jobs
  BY DEF Jobs, Stops, Sights
<1>3. QED
  BY <1>1, <1>2 DEF OtherJobsStay

LEMMA JobEnds ==
  ASSUME job \in [Requests -> Jobs], NEW h \in Requests, Done(h)
  PROVE  /\ job' \in [Requests -> Jobs] /\ OtherJobsStay(h)
         /\ job'[h] = Idle /\ job'[h].at = "idle" /\ job'[h].op = "idle"
BY Idling DEF Done, OtherJobsStay

----------------------------------------------------------------------------
(* Pages.                                                                  *)

LEMMA SweptBy ==
  ASSUME NEW saw
  PROVE  /\ Swept("create", saw) = CommentPages({0})
         /\ saw # None => Swept("delete", saw) = CommentPages({saw.audit})
         /\ Swept("reject", saw) = CommentPages({saw.audit, 2})
         /\ Swept("approve", saw) = {Audit(0), Audit(1)}
         /\ Swept("reply", saw) = {} /\ Swept("withdraw", saw) = {}
BY DEF Swept

\* What a list of a post, or the student's own, would show changes with the comment; what
\* an audit list shows changes for the status the comment leaves and the one it takes.
LEMMA PageChanges ==
  ASSUME NEW p, NEW r \in Rows, NEW q \in Rows, Holds(p, r) # Holds(p, q)
  PROVE  /\ p \in PostPages \cup {<<"my">>} \cup {Audit(r.audit), Audit(q.audit)}
         /\ p \in CommentPages({r.audit, q.audit})
         /\ r.life = "live" /\ q.life = "live" /\ r.visible = q.visible =>
              p \in {Audit(r.audit), Audit(q.audit)} /\ r.audit # q.audit
<1>1. r.audit \in AuditStatuses /\ q.audit \in AuditStatuses /\ r.visible \in BOOLEAN
      /\ q.visible \in BOOLEAN
  BY DEF Rows
<1>2. CASE \E s \in AuditStatuses : p = Audit(s) /\ QueryByAudit(r, s) # QueryByAudit(q, s)
  <2>1. PICK s \in AuditStatuses : p = Audit(s) /\ QueryByAudit(r, s) # QueryByAudit(q, s)
    BY <1>2
  <2>2. r.audit = s \/ q.audit = s
    BY <2>1 DEF QueryByAudit
  <2>3. r.life = "live" /\ q.life = "live" => r.audit # q.audit
    BY <2>1 DEF QueryByAudit
  <2>4. QED
    BY <1>1, <2>1, <2>2, <2>3 DEF CommentPages
<1>3. CASE \A s \in AuditStatuses : p = Audit(s) => (QueryByAudit(r, s) <=> QueryByAudit(q, s))
  <2>1. \/ p \in {<<"studentPost">>, <<"tutorPost">>} /\ ~(QueryVisible(r) <=> QueryVisible(q))
        \/ p \in {<<"operatorPost">>, <<"my">>} /\ ~(QueryComment(r) <=> QueryComment(q))
    BY <1>3 DEF Holds
  <2>2. p \in PostPages \cup {<<"my">>}
    BY <2>1 DEF PostPages
  <2>3. ~(r.life = "live" /\ q.life = "live" /\ r.visible = q.visible)
    BY <1>1, <2>1 DEF QueryVisible, QueryComment
  <2>4. QED
    BY <2>2, <2>3 DEF CommentPages
<1>4. QED
  BY <1>2, <1>3 DEF QueryByAudit

----------------------------------------------------------------------------
(* What a step does: its request, the comment, the object, the list.       *)

\* A comment is deleted for good, and audited once.
Ages ==
  /\ comment' \in Rows
  /\ comment.life = "deleted" => comment'.life = "deleted"
  /\ comment.life # "unborn" =>
       /\ comment'.life # "unborn"
       /\ comment'.life = "live" /\ comment'.audit = 0 => comment.life = "live" /\ comment.audit = 0

LEMMA SameAge == ASSUME comment \in Rows, comment' = comment PROVE Ages
BY DEF Ages

Turn(h) == job' \in [Requests -> Jobs] /\ OtherJobsStay(h) /\ Stage(h)' /\ Ages

LEMMA OtherStages ==
  ASSUME \A g \in Requests : Stage(g), NEW h \in Requests, Turn(h)
  PROVE  \A g \in Requests : Stage(g)'
<1>1. SUFFICES ASSUME NEW g \in Requests, g # h PROVE Stage(g)'
  BY DEF Turn
<1>2. Stage(g) /\ job'[g] = job[g] /\ Ages
  BY <1>1 DEF Turn, OtherJobsStay
<1>3. QED
  BY <1>2 DEF Stage, Ages

\* Whose DEL of the object is on its way, and whose of the page.
DelsObject(h) == job[h].at = "delObject"
DelsPage(h) == job[h].at \in {"delObject", "delLists"} /\ page \in Swept(job[h].op, job[h].saw)

ObjectPart ==
  /\ object \in {Absent, Null} \cup LiveRows
  /\ Unborn /\ ObjectStaleOnlyByRace /\ NullOnlyWhenGone

ListPart == page \in Pages /\ list \in {"absent", "with", "without"} /\ ListStaleOnlyByRace

\* The object stays, and so do the excuses for it.
LEMMA ObjectStays ==
  ASSUME ObjectPart, NEW h \in Requests, OtherJobsStay(h), UNCHANGED <<comment, object>>,
         "object" \in outdated => "object" \in outdated',
         DelsObject(h) => DelsObject(h)' \/ "object" \in outdated'
  PROVE  ObjectPart'
<1>1. ASSUME NEW g \in Requests, job[g].at = "delObject"
      PROVE  "object" \in outdated' \/ \E r \in Requests : job'[r].at = "delObject"
  BY <1>1 DEF OtherJobsStay, DelsObject
<1>2. QED
  BY <1>1 DEF ObjectPart, Unborn, ObjectStaleOnlyByRace, ObjectFresh, NullOnlyWhenGone

LEMMA ObjectGoes ==
  ASSUME ObjectPart, UNCHANGED comment, object' = Absent
  PROVE  ObjectPart'
BY Keys DEF ObjectPart, Unborn, ObjectStaleOnlyByRace, ObjectFresh, NullOnlyWhenGone

\* A writer has committed, and will delete the object.
LEMMA ObjectToGo ==
  ASSUME ObjectPart, NEW h \in Requests, UNCHANGED object, Ages, comment.life # "unborn",
         DelsObject(h)'
  PROVE  ObjectPart'
BY DEF ObjectPart, Unborn, ObjectStaleOnlyByRace, NullOnlyWhenGone, Ages, DelsObject

\* A reader SETs what it has selected, and an old SELECT is on record.
LEMMA ObjectIsSet ==
  ASSUME ObjectPart, UNCHANGED comment, comment \in Rows, comment.life # "unborn", NEW saw,
         \/ saw \in LiveRows /\ object' = saw
         \/ saw = None /\ object' = Null /\ comment.life = "deleted",
         (saw # IF QueryComment(comment) THEN comment ELSE None) => "object" \in outdated'
  PROVE  ObjectPart'
<1>1. saw \in LiveRows => saw \in Rows /\ saw # None /\ saw # Null
  BY NoRow DEF LiveRows
<1>2. CASE saw \in LiveRows /\ object' = saw
  <2>1. object' # Null
    BY <1>1, <1>2
  <2>2. "object" \in outdated' \/ (QueryComment(comment) /\ object' = comment)
    BY <1>1, <1>2
  <2>3. QED
    BY <1>2, <2>1, <2>2
       DEF ObjectPart, Unborn, ObjectStaleOnlyByRace, ObjectFresh, NullOnlyWhenGone
<1>3. CASE saw = None /\ object' = Null /\ comment.life = "deleted"
  BY <1>3 DEF ObjectPart, Unborn, ObjectStaleOnlyByRace, ObjectFresh, NullOnlyWhenGone,
              QueryComment
<1>4. QED
  BY <1>2, <1>3

LEMMA ListStays ==
  ASSUME ListPart, NEW h \in Requests, OtherJobsStay(h), UNCHANGED <<page, list>>,
         Holds(page, comment') = Holds(page, comment),
         "list" \in outdated => "list" \in outdated',
         DelsPage(h) => DelsPage(h)' \/ "list" \in outdated'
  PROVE  ListPart'
<1>1. ASSUME NEW g \in Requests, DelsPage(g)
      PROVE  "list" \in outdated' \/ \E r \in Requests : DelsPage(r)'
  BY <1>1 DEF OtherJobsStay, DelsPage
<1>2. QED
  BY <1>1 DEF ListPart, ListStaleOnlyByRace, ListFresh, DelsPage

LEMMA ListGoes ==
  ASSUME ListPart, UNCHANGED page, list' = "absent" \/ "list" \in outdated',
         list' \in {"absent", "with", "without"}
  PROVE  ListPart'
BY DEF ListPart, ListStaleOnlyByRace, ListFresh

\* A writer has committed, and will delete the page if its change may show there.
LEMMA ListToGo ==
  ASSUME ListPart, NEW h \in Requests, OtherJobsStay(h), ~DelsPage(h), UNCHANGED <<page, list>>,
         "list" \in outdated => "list" \in outdated',
         job'[h].at \in {"delObject", "delLists"},
         Holds(page, comment') # Holds(page, comment) =>
           \/ page \in Swept(job'[h].op, job'[h].saw)
           \/ "list" \in outdated' \/ list = "absent"
  PROVE  ListPart'
<1>1. CASE page \in Swept(job'[h].op, job'[h].saw)
  BY <1>1 DEF ListPart, ListStaleOnlyByRace
<1>2. CASE "list" \in outdated' \/ list = "absent"
  BY <1>2, ListGoes DEF ListPart
<1>3. CASE Holds(page, comment') = Holds(page, comment)
  BY <1>3, ListStays
<1>4. QED
  BY <1>1, <1>2, <1>3

----------------------------------------------------------------------------
(* The writers.                                                            *)

\* What holds before each step.
Before(h) ==
  /\ comment \in Rows /\ job \in [Requests -> Jobs] /\ outdated \subseteq {"object", "list"}
  /\ Stage(h) /\ ObjectPart /\ ListPart

\* What holds after it.
After(h) == Turn(h) /\ ObjectPart' /\ ListPart' /\ outdated' \subseteq {"object", "list"}

LEMMA CreateStep ==
  ASSUME NEW h \in Requests, Before(h), CreateComment(h)
  PROVE  After(h)
<1>1. /\ comment.life = "unborn" /\ comment' = [comment EXCEPT !.life = "live"]
      /\ Begin(h, "create", "delLists", None)
      /\ UNCHANGED <<object, page, list, outdated>>
  BY DEF CreateComment
<1>2. /\ job' \in [Requests -> Jobs] /\ OtherJobsStay(h) /\ job[h].at = "idle"
      /\ job'[h].op = "create" /\ job'[h].at = "delLists" /\ job'[h].saw = None
  BY <1>1, JobBegins DEF Before, Writes, Stops, Sights
<1>3. /\ comment' \in Rows /\ comment'.life = "live"
      /\ object = Absent /\ comment.audit = 0 /\ comment'.audit = 0
  BY <1>1 DEF Before, ObjectPart, Unborn, Rows
<1>4. Turn(h)
  BY <1>1, <1>2, <1>3 DEF Turn, Ages, Stage, Writes
<1>5. ObjectPart'
  BY <1>1, <1>3, Keys DEF ObjectPart, Unborn, ObjectStaleOnlyByRace, ObjectFresh, NullOnlyWhenGone
<1>6. Holds(page, comment') # Holds(page, comment) => page \in Swept("create", None)
  BY <1>3, PageChanges, SweptBy DEF Before, CommentPages
<1>7. ListPart'
  BY <1>1, <1>2, <1>6, ListToGo DEF Before, DelsPage
<1>8. QED
  BY <1>1, <1>4, <1>5, <1>7 DEF After, Before

\* The SELECT of a deletion or a rejection.
LEMMA ReadStep ==
  ASSUME NEW h \in Requests, Before(h), NEW op \in {"delete", "reject"}, comment.life # "unborn",
         ReadComment(h, op)
  PROVE  After(h)
<1> DEFINE step == IF QueryComment(comment) THEN "write" ELSE "delObject"
           saw == IF QueryComment(comment) THEN [audit |-> comment.audit] ELSE None
<1>1. Begin(h, op, step, saw) /\ UNCHANGED <<comment, object, page, list, outdated>>
  BY DEF ReadComment
<1>2. saw \in Sights /\ step \in Stops /\ op \in Writes
      /\ (step = "write" => saw = [audit |-> comment.audit] /\ saw \in [audit : AuditStatuses])
  BY DEF Before, Rows, Sights, Stops, Writes
<1>3. step \in {"write", "delObject"}
  OBVIOUS
<1> HIDE DEF step, saw
<1>4. /\ job' \in [Requests -> Jobs] /\ OtherJobsStay(h) /\ job[h].at = "idle"
      /\ job'[h].op = op /\ job'[h].at = step /\ job'[h].saw = saw
  BY <1>1, <1>2, JobBegins DEF Before
<1>5. Ages
  BY <1>1, SameAge DEF Before
<1>6. Turn(h)
  BY <1>1, <1>2, <1>3, <1>4, <1>5 DEF Turn, Stage
<1>7. ObjectPart'
  BY <1>1, <1>4, ObjectStays DEF Before, DelsObject
<1>8. ListPart'
  BY <1>1, <1>4, ListStays DEF Before, DelsPage
<1>9. QED
  BY <1>1, <1>6, <1>7, <1>8 DEF After, Before

LEMMA DeleteStep ==
  ASSUME NEW h \in Requests, Before(h), DeleteComment(h)
  PROVE  After(h)
<1>1. /\ job[h].op = "delete" /\ job[h].at = "write" /\ Advance(h, "delObject")
      /\ UNCHANGED <<object, page, list>>
      /\ \/ comment.life # "live" /\ UNCHANGED <<comment, outdated>>
         \/ /\ comment.life = "live" /\ comment' = Deleted
            /\ outdated' = IF list # "absent" /\ page = Audit(comment.audit)
                              /\ page \notin Swept("delete", job[h].saw)
                             THEN outdated \cup {"list"} ELSE outdated
  BY DEF DeleteComment, Doing
<1>2. /\ job' \in [Requests -> Jobs] /\ OtherJobsStay(h)
      /\ job'[h].op = "delete" /\ job'[h].at = "delObject" /\ job'[h].saw = job[h].saw
  BY <1>1, JobAdvances DEF Before, Stops
<1>3. Deleted \in Rows /\ Deleted.life = "deleted"
  BY DEF Deleted, Rows, AuditStatuses
<1>4. comment.life # "unborn" /\ job[h].saw \in [audit : AuditStatuses]
  BY <1>1 DEF Before, Stage
<1>5. Ages
  BY <1>1, <1>3, <1>4 DEF Ages, Before
<1>6. Turn(h)
  BY <1>2, <1>4, <1>5 DEF Turn, Stage, Ages, Writes
<1>7. ObjectPart'
  BY <1>1, <1>2, <1>4, <1>5, ObjectToGo DEF Before, DelsObject
<1>8. job[h].saw # None
  <2>1. DOMAIN job[h].saw = {"audit"} /\ DOMAIN None = {"no"}
    BY <1>4 DEF None
  <2>2. QED
    BY <2>1
<1>9. Holds(page, comment') # Holds(page, comment) =>
        \/ page \in Swept("delete", job[h].saw) \/ "list" \in outdated' \/ list = "absent"
  <2>1. SUFFICES ASSUME Holds(page, comment') # Holds(page, comment)
                 PROVE  \/ page \in Swept("delete", job[h].saw) \/ "list" \in outdated'
                        \/ list = "absent"
    OBVIOUS
  <2>2. comment.life = "live" /\ comment' = Deleted
    BY <1>1, <2>1
  <2>3. ~Holds(page, Deleted)
    BY <1>3 DEF Holds, QueryVisible, QueryComment, QueryByAudit
  <2>4. Holds(page, comment)
    BY <2>1, <2>2, <2>3 DEF Holds
  <2>5. page \in PostPages \cup {<<"my">>} \cup {Audit(comment.audit)}
    BY <2>4 DEF Holds, PostPages, QueryByAudit
  <2>6. PostPages \cup {<<"my">>} \subseteq Swept("delete", job[h].saw)
    BY <1>8, SweptBy DEF CommentPages
  <2>7. QED
    BY <1>1, <2>2, <2>5, <2>6
<1>10. ListPart'
  BY <1>1, <1>2, <1>9, ListToGo DEF Before, DelsPage
<1>11. outdated' \subseteq {"object", "list"}
  BY <1>1 DEF Before
<1>12. QED
  BY <1>6, <1>7, <1>10, <1>11 DEF After

LEMMA RejectStep ==
  ASSUME NEW h \in Requests, Before(h), RejectComment(h)
  PROVE  After(h)
<1>1. /\ job[h].op = "reject" /\ job[h].at = "write"
      /\ UNCHANGED <<object, page, list, outdated>>
      /\ \/ /\ comment.life = "live" /\ comment.audit = 0 /\ Advance(h, "delObject")
            /\ comment' = [life |-> "live", visible |-> FALSE, audit |-> 2, reply |-> comment.reply]
         \/ comment' = comment /\ Done(h)
  BY DEF RejectComment, Doing
<1>2. comment.life # "unborn" /\ comment \in Rows
  BY <1>1 DEF Before, Stage
<1>3. CASE comment' = comment /\ Done(h)
  <2>1. job' \in [Requests -> Jobs] /\ OtherJobsStay(h) /\ job'[h] = Idle /\ job'[h].at = "idle"
    BY <1>3, JobEnds DEF Before
  <2>2. Turn(h)
    BY <1>2, <1>3, <2>1, SameAge, Idling DEF Turn, Stage
  <2>3. ObjectPart' /\ ListPart'
    BY <1>1, <1>3, <2>1, ObjectStays, ListStays DEF Before, DelsObject, DelsPage
  <2>4. QED
    BY <1>1, <2>2, <2>3 DEF After, Before
<1>4. CASE /\ comment.life = "live" /\ comment.audit = 0 /\ Advance(h, "delObject")
           /\ comment' = [life |-> "live", visible |-> FALSE, audit |-> 2, reply |-> comment.reply]
  <2>1. /\ job' \in [Requests -> Jobs] /\ OtherJobsStay(h)
        /\ job'[h].op = "reject" /\ job'[h].at = "delObject" /\ job'[h].saw = job[h].saw
    BY <1>1, <1>4, JobAdvances DEF Before, Stops
  <2>2. comment' \in Rows /\ comment'.life = "live" /\ comment'.audit = 2
    BY <1>2, <1>4 DEF Rows, AuditStatuses
  <2>3. Ages /\ Turn(h)
    BY <1>4, <2>1, <2>2 DEF Ages, Turn, Stage, Writes
  <2>4. ObjectPart'
    BY <1>1, <1>2, <2>1, <2>3, ObjectToGo DEF Before, DelsObject
  <2>5. job[h].saw.audit = 0
    BY <1>1, <1>4 DEF Before, Stage
  <2>6. Holds(page, comment') # Holds(page, comment) => page \in Swept("reject", job[h].saw)
    <3>1. Swept("reject", job[h].saw) = CommentPages({0, 2})
      BY <2>5, SweptBy
    <3>2. Holds(page, comment') # Holds(page, comment) => page \in CommentPages({2, 0})
      BY <1>2, <1>4, <2>2, PageChanges
    <3>3. {2, 0} = {0, 2}
      OBVIOUS
    <3>4. QED
      BY <3>1, <3>2, <3>3
  <2>7. ListPart'
    BY <1>1, <2>1, <2>6, ListToGo DEF Before, DelsPage
  <2>8. QED
    BY <1>1, <2>3, <2>4, <2>7 DEF After, Before
<1>5. QED
  BY <1>1, <1>3, <1>4

LEMMA ApproveStep ==
  ASSUME NEW h \in Requests, Before(h), ApproveComment(h)
  PROVE  After(h)
<1>1. /\ comment.life = "live" /\ comment.audit = 0 /\ comment' = [comment EXCEPT !.audit = 1]
      /\ Begin(h, "approve", "delObject", None)
      /\ UNCHANGED <<object, page, list, outdated>>
  BY DEF ApproveComment
<1>2. /\ job' \in [Requests -> Jobs] /\ OtherJobsStay(h) /\ job[h].at = "idle"
      /\ job'[h].op = "approve" /\ job'[h].at = "delObject" /\ job'[h].saw = None
  BY <1>1, JobBegins DEF Before, Writes, Stops, Sights
<1>3. /\ comment \in Rows /\ comment' \in Rows /\ comment'.life = "live" /\ comment'.audit = 1
      /\ comment'.visible = comment.visible
  BY <1>1 DEF Before, Rows, AuditStatuses
<1>4. Ages /\ Turn(h)
  BY <1>1, <1>2, <1>3 DEF Ages, Turn, Stage, Writes
<1>5. ObjectPart'
  BY <1>1, <1>2, <1>4, ObjectToGo DEF Before, DelsObject
<1>6. Holds(page, comment') # Holds(page, comment) => page \in Swept("approve", None)
  <2>1. ASSUME Holds(page, comment') # Holds(page, comment) PROVE page \in {Audit(1), Audit(0)}
    <3> DEFINE r == comment
               q == comment'
    <3>1. /\ r \in Rows /\ q \in Rows /\ r.life = "live" /\ q.life = "live" /\ r.visible = q.visible
          /\ r.audit = 0 /\ q.audit = 1 /\ Holds(page, r) # Holds(page, q)
      BY <1>1, <1>3, <2>1
    <3> HIDE DEF r, q
    <3>2. page \in {Audit(r.audit), Audit(q.audit)}
      BY <3>1, PageChanges
    <3>3. QED
      BY <3>1, <3>2
  <2>2. QED
    BY <2>1, SweptBy
<1>7. ListPart'
  BY <1>1, <1>2, <1>6, ListToGo DEF Before, DelsPage
<1>8. QED
  BY <1>1, <1>4, <1>5, <1>7 DEF After, Before

LEMMA ReplyStep ==
  ASSUME NEW h \in Requests, Before(h), CreateCommentReply(h) \/ DeleteReply(h)
  PROVE  After(h)
<1>1. /\ comment.life = "live" /\ UNCHANGED <<object, page, list, outdated>>
      /\ \E n \in 0..2 : comment' = [comment EXCEPT !.reply = n]
      /\ \E op \in {"reply", "withdraw"} : Begin(h, op, "delObject", None)
  BY DEF CreateCommentReply, DeleteReply
<1>2. PICK op \in {"reply", "withdraw"} : Begin(h, op, "delObject", None)
  BY <1>1
<1>3. /\ job' \in [Requests -> Jobs] /\ OtherJobsStay(h) /\ job[h].at = "idle"
      /\ job'[h].op = op /\ job'[h].at = "delObject" /\ job'[h].saw = None
  BY <1>2, JobBegins DEF Before, Writes, Stops, Sights
<1>4. /\ comment \in Rows /\ comment' \in Rows
      /\ comment.life = "live" /\ comment'.life = "live"
      /\ comment'.audit = comment.audit /\ comment'.visible = comment.visible
  BY <1>1 DEF Before, Rows
<1>5. Ages /\ Turn(h)
  BY <1>1, <1>3, <1>4 DEF Ages, Turn, Stage, Writes
<1>6. ObjectPart'
  BY <1>1, <1>3, <1>5, ObjectToGo DEF Before, DelsObject
<1>7. Holds(page, comment') = Holds(page, comment)
  BY <1>4, PageChanges
<1>8. ListPart'
  BY <1>1, <1>3, <1>7, ListStays DEF Before, DelsPage
<1>9. QED
  BY <1>1, <1>5, <1>6, <1>8 DEF After, Before

\* A writer is done, or goes on from the object to the lists.
LEMMA WriterGoesOn ==
  ASSUME NEW h \in Requests, Before(h), UNCHANGED comment,
         \/ job[h].at \in Stops /\ Done(h)
         \/ job[h].at = "delObject" /\ Advance(h, "delLists")
  PROVE  /\ Turn(h)
         /\ Done(h) => job'[h].at = "idle"
         /\ job[h].at = "delObject" /\ Advance(h, "delLists") =>
              job'[h].at = "delLists" /\ job'[h].op = job[h].op /\ job'[h].saw = job[h].saw
<1>1. Ages
  BY SameAge DEF Before
<1>2. CASE Done(h) /\ ~(job[h].at = "delObject" /\ Advance(h, "delLists"))
  <2>1. job' \in [Requests -> Jobs] /\ OtherJobsStay(h) /\ job'[h] = Idle /\ job'[h].at = "idle"
    BY <1>2, JobEnds DEF Before
  <2>2. Stage(h)'
    BY <2>1, Idling DEF Stage
  <2>3. QED
    BY <1>1, <1>2, <2>1, <2>2 DEF Turn
<1>3. CASE job[h].at = "delObject" /\ Advance(h, "delLists")
  <2>1. /\ job' \in [Requests -> Jobs] /\ OtherJobsStay(h)
        /\ job'[h].op = job[h].op /\ job'[h].at = "delLists" /\ job'[h].saw = job[h].saw
    BY <1>3, JobAdvances DEF Before, Stops
  <2>2. Stage(h)'
    BY <1>3, <2>1 DEF Stage, Before
  <2>3. ~Done(h)
    BY <2>1, JobEnds DEF Before
  <2>4. QED
    BY <1>1, <1>3, <2>1, <2>2, <2>3 DEF Turn
<1>4. QED
  BY <1>2, <1>3

\* A reply changes no list, and no list is deleted for it.
LEMMA NoPageForReplies ==
  ASSUME NEW h \in Requests, job[h].op \in {"reply", "withdraw"}
  PROVE  ~DelsPage(h)
BY SweptBy DEF DelsPage

LEMMA DelObjectStep ==
  ASSUME NEW h \in Requests, Before(h), DelObject(h)
  PROVE  After(h)
<1>1. /\ job[h].at = "delObject" /\ UNCHANGED <<comment, page, list>> /\ object' = Absent
      /\ \/ job[h].op \in {"reply", "withdraw"} /\ Done(h)
         \/ Advance(h, "delLists")
      /\ outdated' = outdated \ {"object"}
  BY DEF DelObject, Mark
<1>2. /\ Turn(h)
      /\ \/ job[h].op \in {"reply", "withdraw"}
         \/ job'[h].at = "delLists" /\ job'[h].op = job[h].op /\ job'[h].saw = job[h].saw
  BY <1>1, WriterGoesOn DEF Stops
<1>3. ObjectPart'
  BY <1>1, ObjectGoes DEF Before
<1>4. ListPart'
  BY <1>1, <1>2, ListStays, NoPageForReplies DEF Before, DelsPage, Turn
<1>5. QED
  BY <1>1, <1>2, <1>3, <1>4 DEF After, Before

LEMMA DelListsStep ==
  ASSUME NEW h \in Requests, Before(h), DelLists(h)
  PROVE  After(h)
<1>1. /\ job[h].at = "delLists" /\ UNCHANGED <<comment, object, page>> /\ Done(h)
      /\ \/ page \notin Swept(job[h].op, job[h].saw) /\ UNCHANGED <<list, outdated>>
         \/ list' = "absent" /\ outdated' = outdated \ {"list"}
  BY DEF DelLists, Mark
<1>2. Turn(h) /\ job'[h].at = "idle"
  BY <1>1, WriterGoesOn DEF Stops
<1>3. ObjectPart'
  BY <1>1, <1>2, ObjectStays DEF Before, DelsObject, Turn
<1>4. ListPart'
  <2>1. CASE page \notin Swept(job[h].op, job[h].saw) /\ UNCHANGED <<list, outdated>>
    BY <1>1, <1>2, <2>1, ListStays DEF Before, DelsPage, Turn
  <2>2. CASE list' = "absent" /\ outdated' = outdated \ {"list"}
    BY <1>1, <2>2, ListGoes DEF Before
  <2>3. QED
    BY <1>1, <2>1, <2>2
<1>5. QED
  BY <1>1, <1>2, <1>3, <1>4 DEF After, Before

LEMMA DelFailsStep ==
  ASSUME NEW h \in Requests, Before(h), DelFails(h) \/ DelNeverRuns(h)
  PROVE  After(h)
<1>1. /\ UNCHANGED <<comment, object, page, list>>
      /\ \/ /\ job[h].at = "delObject" /\ outdated' = outdated \cup {"object"}
            /\ \/ job[h].op \in {"reply", "withdraw"} /\ Done(h)
               \/ Advance(h, "delLists")
         \/ job[h].at = "delLists" /\ Done(h) /\ outdated' = outdated \cup {"list"}
         \/ /\ job[h].at \in {"delObject", "delLists"} /\ Done(h)
            /\ outdated' = outdated \cup {"object", "list"}
  BY DEF DelFails, DelNeverRuns
<1>2. /\ Turn(h)
      /\ \/ job[h].op \in {"reply", "withdraw"} \/ "list" \in outdated'
         \/ job'[h].at = "delLists" /\ job'[h].op = job[h].op /\ job'[h].saw = job[h].saw
  BY <1>1, WriterGoesOn DEF Stops
<1>3. ObjectPart'
  BY <1>1, <1>2, ObjectStays DEF Before, DelsObject, Turn
<1>4. ListPart'
  BY <1>1, <1>2, ListStays, NoPageForReplies DEF Before, DelsPage, Turn
<1>5. QED
  BY <1>1, <1>2, <1>3, <1>4 DEF After, Before

----------------------------------------------------------------------------
(* The readers.                                                            *)

\* Only a live comment is in a page.
LEMMA HoldsLive ==
  ASSUME NEW p, NEW r, Holds(p, r)
  PROVE  r.life = "live"
BY DEF Holds, QueryVisible, QueryComment, QueryByAudit

\* A request that deletes nothing takes a step that writes nothing.
LEMMA ReadsOn ==
  ASSUME NEW h \in Requests, Before(h), job[h].at \notin {"delObject", "delLists"},
         OtherJobsStay(h), UNCHANGED <<comment, object, page, list, outdated>>
  PROVE  ObjectPart' /\ ListPart' /\ outdated' \subseteq {"object", "list"}
<1>1. ~DelsObject(h) /\ ~DelsPage(h)
  BY DEF DelsObject, DelsPage
<1>2. ObjectPart'
  BY <1>1, ObjectStays DEF Before
<1>3. ListPart'
  BY <1>1, ListStays DEF Before
<1>4. QED
  BY <1>2, <1>3 DEF Before

LEMMA DetailStep ==
  ASSUME NEW h \in Requests, Before(h), GetCommentByID(h)
  PROVE  After(h)
<1> DEFINE saw == IF QueryComment(comment) THEN comment ELSE None
<1>1. /\ comment.life # "unborn" /\ Begin(h, "detail", "setObject", saw)
      /\ UNCHANGED <<comment, object, page, list, outdated>>
  BY DEF GetCommentByID
<1>2. saw \in LiveRows \/ (saw = None /\ comment.life = "deleted")
  BY <1>1 DEF Before, Rows, LiveRows, QueryComment
<1> HIDE DEF saw
<1>3. /\ job' \in [Requests -> Jobs] /\ OtherJobsStay(h) /\ job[h].at = "idle"
      /\ job'[h].op = "detail" /\ job'[h].at = "setObject" /\ job'[h].saw = saw
  BY <1>1, <1>2, JobBegins DEF Before, Stops, Sights
<1>4. Turn(h)
  BY <1>1, <1>2, <1>3, SameAge DEF Before, Turn, Stage
<1>5. QED
  BY <1>1, <1>3, <1>4, ReadsOn DEF After

LEMMA SetCommentStep ==
  ASSUME NEW h \in Requests, Before(h), SetComment(h)
  PROVE  After(h)
<1> DEFINE old == job[h].saw # IF QueryComment(comment) THEN comment ELSE None
<1>1. /\ job[h].op = "detail" /\ job[h].at = "setObject" /\ Done(h)
      /\ object' = IF job[h].saw = None THEN Null ELSE job[h].saw
      /\ outdated' = IF old THEN outdated \cup {"object"} ELSE outdated \ {"object"}
      /\ UNCHANGED <<comment, page, list>>
  BY DEF SetComment, Mark, Doing
<1>2. Turn(h) /\ ~DelsPage(h)
  BY <1>1, WriterGoesOn DEF Stops, DelsPage
<1>3. /\ comment.life # "unborn"
      /\ job[h].saw \in LiveRows \/ (job[h].saw = None /\ comment.life = "deleted")
  BY <1>1 DEF Before, Stage
<1>4. job[h].saw \in LiveRows => job[h].saw # None
  BY NoRow DEF LiveRows
<1>5. old => "object" \in outdated'
  BY <1>1
<1>6. ObjectPart'
  BY <1>1, <1>3, <1>4, <1>5, ObjectIsSet DEF Before
<1>7. ("list" \in outdated => "list" \in outdated') /\ outdated' \subseteq {"object", "list"}
  BY <1>1 DEF Before
<1>8. ListPart'
  BY <1>1, <1>2, <1>7, ListStays DEF Before, Turn
<1>9. QED
  BY <1>2, <1>6, <1>7, <1>8 DEF After

\* The five lists are read alike.
LEMMA ReadPageStep ==
  ASSUME NEW h \in Requests, Before(h), ReadPage(h)
  PROVE  After(h)
<1>1. UNCHANGED <<comment, object, page, list, outdated>>
  BY DEF ReadPage
<1>2. \E step \in {"load", "setList", "setObject"}, saw \in Sights :
        /\ Begin(h, "page", step, saw)
        /\ step = "setObject" => saw \in LiveRows /\ comment.life # "unborn"
  <2>1. Holds(page, comment) => comment \in LiveRows /\ comment.life # "unborn"
    BY HoldsLive DEF Before, LiveRows
  <2>2. CASE list = "with" /\ Begin(h, "page", "load", None)
    BY <2>2 DEF Sights
  <2>3. CASE Holds(page, comment) /\ Begin(h, "page", "setObject", comment)
    BY <2>1, <2>3 DEF Sights
  <2>4. CASE ~Holds(page, comment) /\ Begin(h, "page", "setList", None)
    BY <2>4 DEF Sights
  <2>5. QED
    BY <2>2, <2>3, <2>4 DEF ReadPage
<1>3. PICK step \in {"load", "setList", "setObject"}, saw \in Sights :
        /\ Begin(h, "page", step, saw)
        /\ step = "setObject" => saw \in LiveRows /\ comment.life # "unborn"
  BY <1>2
<1>4. /\ job' \in [Requests -> Jobs] /\ OtherJobsStay(h) /\ job[h].at = "idle"
      /\ job'[h].op = "page" /\ job'[h].at = step /\ job'[h].saw = saw
  BY <1>3, JobBegins DEF Before, Stops
<1>5. Turn(h)
  BY <1>1, <1>3, <1>4, SameAge DEF Before, Turn, Stage
<1>6. QED
  BY <1>1, <1>4, <1>5, ReadsOn DEF After

\* A page request goes on to its list, or from its list to the missing comments.
LEMMA PageGoesOn ==
  ASSUME NEW h \in Requests, Before(h), UNCHANGED comment,
         \/ job[h].at = "setObject" /\ ToSetList(h)
         \/ job[h].at = "setList" /\ ToLoad(h)
  PROVE  Turn(h)
<1>1. Ages
  BY SameAge DEF Before
<1>2. CASE job[h].at = "setObject" /\ ToSetList(h)
  <2>1. /\ job' \in [Requests -> Jobs] /\ OtherJobsStay(h)
        /\ job'[h].op = job[h].op /\ job'[h].at = "setList" /\ job'[h].saw = Found
    BY <1>2, JobCarries DEF Before, Stops, Sights, ToSetList
  <2>2. QED
    BY <1>1, <2>1 DEF Turn, Stage
<1>3. CASE job[h].at = "setList" /\ Done(h)
  BY <1>3, WriterGoesOn DEF Stops
<1>4. CASE job[h].at = "setList" /\ job' = [job EXCEPT ![h].at = "load", ![h].saw = None]
  <2>1. /\ job' \in [Requests -> Jobs] /\ OtherJobsStay(h)
        /\ job'[h].op = job[h].op /\ job'[h].at = "load" /\ job'[h].saw = None
    BY <1>4, JobCarries DEF Before, Stops, Sights
  <2>2. QED
    BY <1>1, <2>1 DEF Turn, Stage
<1>5. QED
  BY <1>2, <1>3, <1>4 DEF ToLoad

\* The comments of a page, or those its cache lacked, are SET.
LEMMA SetObjectsStep ==
  ASSUME NEW h \in Requests, Before(h), SetCommentObjects(h) \/ SetLoaded(h)
  PROVE  After(h)
<1> DEFINE old == job[h].saw # comment
<1>1. /\ object' = job[h].saw
      /\ outdated' = IF old THEN outdated \cup {"object"} ELSE outdated \ {"object"}
      /\ UNCHANGED <<comment, page, list>>
      /\ \/ job[h].op = "page" /\ job[h].at = "setObject" /\ ToSetList(h)
         \/ job[h].at = "setLoaded" /\ Done(h)
  BY DEF SetCommentObjects, SetLoaded, Mark, Doing
<1>2. comment.life # "unborn"
  BY <1>1 DEF Before, Stage
<1>3. job[h].saw \in LiveRows
  <2>1. CASE job[h].op = "page" /\ job[h].at = "setObject"
    BY <2>1 DEF Before, Stage
  <2>2. CASE job[h].at = "setLoaded"
    BY <2>2 DEF Before, Stage
  <2>3. QED
    BY <1>1, <2>1, <2>2
<1>4. Turn(h) /\ ~DelsPage(h)
  BY <1>1, PageGoesOn, WriterGoesOn DEF Stops, DelsPage
<1>5. (job[h].saw # IF QueryComment(comment) THEN comment ELSE None) => "object" \in outdated'
  <2>1. CASE old
    BY <1>1, <2>1
  <2>2. CASE ~old
    BY <1>3, <2>2 DEF LiveRows, QueryComment
  <2>3. QED
    BY <2>1, <2>2
<1>6. ObjectPart'
  BY <1>1, <1>2, <1>3, <1>5, ObjectIsSet DEF Before
<1>7. ("list" \in outdated => "list" \in outdated') /\ outdated' \subseteq {"object", "list"}
  BY <1>1 DEF Before
<1>8. ListPart'
  BY <1>1, <1>4, <1>7, ListStays DEF Before, Turn
<1>9. QED
  BY <1>4, <1>6, <1>7, <1>8 DEF After

LEMMA SetListStep ==
  ASSUME NEW h \in Requests, Before(h), SetList(h)
  PROVE  After(h)
<1> DEFINE found == job[h].saw # None
           old == found # Holds(page, comment)
<1>1. /\ job[h].at = "setList" /\ ToLoad(h) /\ list' = PageOf(found)
      /\ outdated' = IF old THEN outdated \cup {"list"} ELSE outdated \ {"list"}
      /\ UNCHANGED <<comment, object, page>>
  BY DEF SetList, Mark, Doing
<1>2. Turn(h) /\ ~DelsObject(h)
  BY <1>1, PageGoesOn DEF DelsObject
<1>3. ("object" \in outdated => "object" \in outdated') /\ outdated' \subseteq {"object", "list"}
  BY <1>1 DEF Before
<1>4. ObjectPart'
  BY <1>1, <1>2, <1>3, ObjectStays DEF Before, Turn
<1>5. "list" \in outdated' \/ list' = PageOf(Holds(page', comment'))
  <2>1. CASE old
    BY <1>1, <2>1
  <2>2. CASE ~old
    BY <1>1, <2>2 DEF PageOf, Holds
  <2>3. QED
    BY <2>1, <2>2
<1>6. list' \in {"absent", "with", "without"}
  BY <1>1 DEF PageOf
<1>7. ListPart'
  BY <1>1, <1>5, <1>6 DEF Before, ListPart, ListStaleOnlyByRace, ListFresh
<1>8. QED
  BY <1>2, <1>3, <1>4, <1>7 DEF After

\* The comments the cache lacks are in it by now, or are selected, or the SELECT errs.
LEMMA LoadStep ==
  ASSUME NEW h \in Requests, Before(h), LoadHits(h) \/ QueryMissed(h) \/ QueryFails(h)
  PROVE  After(h)
<1>1. /\ job[h].at = "load" /\ UNCHANGED <<comment, object, page, list, outdated>>
      /\ \/ Done(h)
         \/ /\ LoadFinds(page, comment)
            /\ job' = [job EXCEPT ![h].at = "setLoaded", ![h].saw = comment]
  BY DEF LoadHits, QueryMissed, QueryFails, Doing
<1>2. CASE Done(h)
  BY <1>1, <1>2, WriterGoesOn, ReadsOn DEF Stops, Turn, After
<1>3. CASE /\ LoadFinds(page, comment)
           /\ job' = [job EXCEPT ![h].at = "setLoaded", ![h].saw = comment]
  <2>1. comment \in LiveRows /\ comment.life = "live"
    BY <1>3 DEF Before, LoadFinds, QueryVisible, QueryComment, LiveRows
  <2>2. /\ job' \in [Requests -> Jobs] /\ OtherJobsStay(h)
        /\ job'[h].op = job[h].op /\ job'[h].at = "setLoaded" /\ job'[h].saw = comment
    BY <1>1, <1>3, <2>1, JobCarries DEF Before, Stops, Sights
  <2>3. Turn(h)
    BY <1>1, <2>1, <2>2, SameAge DEF Before, Turn, Stage
  <2>4. QED
    BY <1>1, <2>3, ReadsOn DEF After, Turn
<1>4. QED
  BY <1>1, <1>2, <1>3

LEMMA SetFailsStep ==
  ASSUME NEW h \in Requests, Before(h), SetFails(h)
  PROVE  After(h)
<1>1. /\ UNCHANGED <<comment, object, page, list, outdated>>
      /\ \/ job[h].at = "setObject" /\ ToSetList(h)
         \/ job[h].at = "setList" /\ ToLoad(h)
         \/ job[h].at \in {"setObject", "setLoaded"} /\ Done(h)
  BY DEF SetFails, Doing
<1>2. Turn(h)
  BY <1>1, PageGoesOn, WriterGoesOn DEF Stops
<1>3. QED
  BY <1>1, <1>2, ReadsOn DEF After, Turn

----------------------------------------------------------------------------
(* Every step.                                                             *)

LEMMA ExpireStep ==
  ASSUME CacheIInv, ExpireObject \/ ExpireList
  PROVE  CacheIInv'
<1>1. UNCHANGED <<comment, page, job>> /\ outdated' \subseteq {"object", "list"}
  BY DEF ExpireObject, ExpireList, Mark, CacheIInv, CacheTypeOK
<1>2. \A h \in Requests : Stage(h)'
  BY <1>1 DEF CacheIInv, Stage
<1>3. CASE ExpireObject
  <2>1. object' = Absent /\ UNCHANGED list /\ ("list" \in outdated => "list" \in outdated')
    BY <1>3 DEF ExpireObject, Mark
  <2>2. ListStaleOnlyByRace'
    BY <1>1, <2>1 DEF CacheIInv, ListStaleOnlyByRace, ListFresh
  <2>3. Unborn' /\ ObjectStaleOnlyByRace' /\ NullOnlyWhenGone'
    BY <1>1, <2>1, Keys DEF CacheIInv, Unborn, ObjectStaleOnlyByRace, ObjectFresh, NullOnlyWhenGone
  <2>4. CacheTypeOK'
    BY <1>1, <2>1 DEF CacheIInv, CacheTypeOK
  <2>5. QED
    BY <1>2, <2>2, <2>3, <2>4 DEF CacheIInv
<1>4. CASE ExpireList
  <2>1. list' = "absent" /\ UNCHANGED object /\ ("object" \in outdated => "object" \in outdated')
    BY <1>4 DEF ExpireList, Mark
  <2>2. ListStaleOnlyByRace'
    BY <2>1 DEF ListStaleOnlyByRace, ListFresh
  <2>3. Unborn' /\ ObjectStaleOnlyByRace' /\ NullOnlyWhenGone'
    BY <1>1, <2>1 DEF CacheIInv, Unborn, ObjectStaleOnlyByRace, ObjectFresh, NullOnlyWhenGone
  <2>4. CacheTypeOK'
    BY <1>1, <2>1 DEF CacheIInv, CacheTypeOK
  <2>5. QED
    BY <1>2, <2>2, <2>3, <2>4 DEF CacheIInv
<1>5. QED
  BY <1>3, <1>4

LEMMA RequestStep ==
  ASSUME NEW h \in Requests, Before(h), Arrive(h) \/ Proceed(h) \/ Fail(h)
  PROVE  After(h)
<1>1. CASE Arrive(h)
  <2>1. CASE CreateComment(h)
    BY <2>1, CreateStep
  <2>2. CASE ApproveComment(h)
    BY <2>2, ApproveStep
  <2>3. CASE CreateCommentReply(h) \/ DeleteReply(h)
    BY <2>3, ReplyStep
  <2>4. ASSUME NEW op \in {"delete", "reject"}, comment.life # "unborn", ReadComment(h, op)
        PROVE  After(h)
    BY <2>4, ReadStep
  <2>5. CASE GetCommentByID(h)
    BY <2>5, DetailStep
  <2>6. CASE \/ ListPostCommentsStudent(h) \/ ListPostComments(h) \/ ListPostCommentsForOperator(h)
             \/ ListMyComments(h) \/ ListCommentsByAuditStatus(h)
    BY <2>6, ReadPageStep
       DEF ListPostCommentsStudent, ListPostComments, ListPostCommentsForOperator,
           ListMyComments, ListCommentsByAuditStatus
  <2>7. QED
    BY <1>1, <2>1, <2>2, <2>3, <2>4, <2>5, <2>6 DEF Arrive
<1>2. CASE Proceed(h)
  <2>1. CASE DeleteComment(h)
    BY <2>1, DeleteStep
  <2>2. CASE RejectComment(h)
    BY <2>2, RejectStep
  <2>3. CASE DelObject(h)
    BY <2>3, DelObjectStep
  <2>4. CASE DelLists(h)
    BY <2>4, DelListsStep
  <2>5. CASE SetComment(h)
    BY <2>5, SetCommentStep
  <2>6. CASE SetCommentObjects(h) \/ SetLoaded(h)
    BY <2>6, SetObjectsStep
  <2>7. CASE SetList(h)
    BY <2>7, SetListStep
  <2>8. CASE LoadHits(h) \/ QueryMissed(h)
    BY <2>8, LoadStep
  <2>9. QED
    BY <1>2, <2>1, <2>2, <2>3, <2>4, <2>5, <2>6, <2>7, <2>8 DEF Proceed
<1>3. CASE Fail(h)
  <2>1. CASE DelFails(h) \/ DelNeverRuns(h)
    BY <2>1, DelFailsStep
  <2>2. CASE QueryFails(h)
    BY <2>2, LoadStep
  <2>3. CASE SetFails(h)
    BY <2>3, SetFailsStep
  <2>4. QED
    BY <1>3, <2>1, <2>2, <2>3 DEF Fail
<1>4. QED
  BY <1>1, <1>2, <1>3

LEMMA CacheInitIInv == CacheInit => CacheIInv
<1> SUFFICES ASSUME CacheInit PROVE CacheIInv
  OBVIOUS
<1>1. comment = [life |-> "unborn", visible |-> TRUE, audit |-> 0, reply |-> 0]
      /\ object = Absent /\ list = "absent" /\ page \in Pages /\ outdated = {}
      /\ job = [h \in Requests |-> Idle]
  BY DEF CacheInit
<1>2. comment \in Rows
  BY <1>1 DEF Rows, AuditStatuses
<1>3. CacheTypeOK
  BY <1>1, <1>2, Idling DEF CacheTypeOK
<1>4. \A h \in Requests : Stage(h)
  BY <1>1, Idling DEF Stage
<1>5. Unborn /\ ObjectStaleOnlyByRace /\ ListStaleOnlyByRace /\ NullOnlyWhenGone
  BY <1>1, Keys DEF Unborn, ObjectStaleOnlyByRace, ObjectFresh, ListStaleOnlyByRace, ListFresh,
                    NullOnlyWhenGone
<1>6. QED
  BY <1>3, <1>4, <1>5 DEF CacheIInv

LEMMA CacheNextIInv == CacheIInv /\ [CacheNext]_cacheVars => CacheIInv'
<1> SUFFICES ASSUME CacheIInv, [CacheNext]_cacheVars PROVE CacheIInv'
  OBVIOUS
<1>1. ASSUME NEW h \in Requests, Arrive(h) \/ Proceed(h) \/ Fail(h)
      PROVE  CacheIInv'
  <2>1. Before(h)
    BY DEF Before, CacheIInv, CacheTypeOK, ObjectPart, ListPart
  <2>2. After(h)
    BY <1>1, <2>1, RequestStep
  <2>3. \A g \in Requests : Stage(g)'
    BY <2>2, OtherStages DEF After, CacheIInv
  <2>4. QED
    BY <2>2, <2>3 DEF After, Turn, Ages, CacheIInv, CacheTypeOK, ObjectPart, ListPart
<1>2. CASE ExpireObject \/ ExpireList
  BY <1>2, ExpireStep
<1>3. CASE UNCHANGED cacheVars
  BY <1>3 DEF cacheVars, CacheIInv, CacheTypeOK, Unborn, Stage, ObjectStaleOnlyByRace, ObjectFresh,
              ListStaleOnlyByRace, ListFresh, NullOnlyWhenGone
<1>4. QED
  BY <1>1, <1>2, <1>3 DEF CacheNext

LEMMA CacheInvariant == CacheSpec => []CacheIInv
BY CacheInitIInv, CacheNextIInv, PTL DEF CacheSpec

----------------------------------------------------------------------------
(* What the runs check.                                                    *)

\* Nothing but a live row, or the mark of a missing one, is ever carried to the cache: the
\* types of the model's variables, for any number of requests at a time.
THEOREM CacheTypesHold == CacheSpec => []CacheTypeOK
<1>1. CacheIInv => CacheTypeOK
  BY DEF CacheIInv
<1>2. QED
  BY <1>1, CacheInvariant, PTL

\* The object shared by the three roles is old only while a writer has its DEL ahead, or
\* because an old SELECT was SET or a DEL was lost.
THEOREM TheObjectIsOldByRaceOnly == CacheSpec => []ObjectStaleOnlyByRace
<1>1. CacheIInv => ObjectStaleOnlyByRace
  BY DEF CacheIInv
<1>2. QED
  BY <1>1, CacheInvariant, PTL

\* So is each of the lists of ids: the prefixes that each writer sweeps are those of every
\* list its change may show on.
THEOREM ThePagesAreOldByRaceOnly == CacheSpec => []ListStaleOnlyByRace
<1>1. CacheIInv => ListStaleOnlyByRace
  BY DEF CacheIInv
<1>2. QED
  BY <1>1, CacheInvariant, PTL

\* The null object, which hides a comment from everyone, is cached for deleted ones only.
THEOREM NullMeansDeleted == CacheSpec => []NullOnlyWhenGone
<1>1. CacheIInv => NullOnlyWhenGone
  BY DEF CacheIInv
<1>2. QED
  BY <1>1, CacheInvariant, PTL
=============================================================================
