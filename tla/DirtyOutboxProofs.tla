------------------------- MODULE DirtyOutboxProofs -------------------------
(***************************************************************************)
(* Proofs about DirtyOutbox, for any number of rows and publishers and any *)
(* failures: no message without its reason, and the safety half of what    *)
(* NoticePromise asks.                                                     *)
(***************************************************************************)
EXTENDS DirtyOutbox, FiniteSetTheorems, TLAPS

Work == [at : {"idle", "claim", "notify", "sent", "pending"},
         row : Rows \cup {0}, left : SUBSET Rows]

\* A publisher works on rows that are there, and marks as sent what it has announced.
Placed ==
  \A p \in Publishers :
    /\ pub[p].at # "idle" => pub[p].row \in Rows /\ status[pub[p].row] # "none"
    /\ \A r \in pub[p].left : status[r] # "none"
    /\ pub[p].at = "sent" => written[pub[p].row] > 0

Announced == \A r \in Rows : status[r] = "sent" => written[r] > 0

\* The work x may lead to a message for r that is not written yet; it holds row r.
WillWrite(x, r) == x.row = r /\ x.at \in {"notify", "pending"}
Holds(x, r) == x.row = r /\ x.at \in {"notify", "sent", "pending"}

Writers(r) == {p \in Publishers : WillWrite(pub[p], r)}
Held(r) == \E p \in Publishers : Holds(pub[p], r)

\* A publisher may come and claim row r with nobody overtaken.
Free(r) ==
  \/ status[r] \in {"none", "pending"}
  \/ status[r] = "processing" /\ (stale[r] \/ ~Held(r))

One(b) == IF b THEN 1 ELSE 0

\* The messages written for r, and those that may follow with no further reason.
Within(r) == written[r] + Cardinality(Writers(r)) + One(Free(r)) <= 1 + spoilt[r]
Budget == \A r \in Rows : Within(r)

IInv == TypeOK /\ Placed /\ Announced /\ Budget

----------------------------------------------------------------------------
(* One publisher, or none, works on one row.                               *)

LEMMA Numbers ==
  /\ 0 \notin Rows /\ NumRows \in Nat /\ MaxFaults \in Nat
  /\ Idle \in Work /\ Idle.at = "idle" /\ Idle.row = 0 /\ Idle.left = {}
BY OutboxAssumption DEF Rows, Idle, Working, Work

LEMMA Types ==
  TypeOK <=>
    /\ status \in [Rows -> {"none", "pending", "processing", "sent"}]
    /\ due \in [Rows -> BOOLEAN] /\ stale \in [Rows -> BOOLEAN]
    /\ pub \in [Publishers -> Work]
    /\ written \in [Rows -> Nat] /\ spoilt \in [Rows -> Nat] /\ faults \in 0..MaxFaults
BY DEF TypeOK, Work

LEMMA FaultIsCounted ==
  ASSUME TypeOK, NoFault \/ \E k \in FaultKinds : Fault(k)
  PROVE  faults' \in 0..MaxFaults
BY Types, Numbers DEF NoFault, Fault

LEMMA WritersAreFinite ==
  ASSUME NEW r
  PROVE  IsFiniteSet(Writers(r)) /\ Cardinality(Writers(r)) \in Nat
<1>1. IsFiniteSet(Publishers) /\ Writers(r) \subseteq Publishers
  BY OutboxAssumption DEF Writers
<1>2. QED
  BY <1>1, FS_Subset, FS_CardinalityType

LEMMA WritersChange ==
  ASSUME TypeOK, NEW p \in Publishers, NEW x \in Work, NEW r \in Rows,
         pub' = [pub EXCEPT ![p] = x]
  PROVE  /\ Cardinality(Writers(r)') \in Nat
         /\ Cardinality(Writers(r)') + One(WillWrite(pub[p], r))
              = Cardinality(Writers(r)) + One(WillWrite(x, r))
<1>1. \A q \in Publishers : pub'[q] = IF q = p THEN x ELSE pub[q]
  BY Types
<1>2. Writers(r)' = {q \in Publishers : IF q = p THEN WillWrite(x, r) ELSE WillWrite(pub[q], r)}
  BY <1>1 DEF Writers, WillWrite
<1>3. IsFiniteSet(Writers(r)) /\ Cardinality(Writers(r)) \in Nat
  BY WritersAreFinite
<1>4. p \in Writers(r) <=> WillWrite(pub[p], r)
  BY DEF Writers
<1>5. CASE WillWrite(x, r) /\ WillWrite(pub[p], r)
  <2>1. Writers(r)' = Writers(r)
    BY <1>2, <1>5 DEF Writers
  <2>2. QED
    BY <1>3, <1>5, <2>1
<1>6. CASE WillWrite(x, r) /\ ~WillWrite(pub[p], r)
  <2>1. Writers(r)' = Writers(r) \cup {p} /\ p \notin Writers(r)
    BY <1>2, <1>4, <1>6 DEF Writers
  <2>2. Cardinality(Writers(r)') = Cardinality(Writers(r)) + 1
    BY <1>3, <2>1, FS_AddElement
  <2>3. QED
    BY <1>3, <1>6, <2>2 DEF One
<1>7. CASE ~WillWrite(x, r) /\ WillWrite(pub[p], r)
  <2>1. Writers(r)' = Writers(r) \ {p} /\ p \in Writers(r)
    BY <1>2, <1>4, <1>7 DEF Writers
  <2>2. /\ IsFiniteSet(Writers(r) \ {p})
        /\ Cardinality(Writers(r) \ {p}) = Cardinality(Writers(r)) - 1
    BY <1>3, <2>1, FS_RemoveElement
  <2>3. Cardinality(Writers(r)') \in Nat
    BY <2>1, <2>2, FS_CardinalityType
  <2>4. QED
    BY <1>3, <1>7, <2>1, <2>2, <2>3 DEF One
<1>8. CASE ~WillWrite(x, r) /\ ~WillWrite(pub[p], r)
  <2>1. Writers(r)' = Writers(r)
    BY <1>2, <1>4, <1>8 DEF Writers
  <2>2. QED
    BY <1>3, <1>8, <2>1 DEF One
<1>9. QED
  BY <1>5, <1>6, <1>7, <1>8

\* Row s is neither changed nor held, before or after, by the one that works as x.
LEMMA OtherRow ==
  ASSUME IInv, NEW p \in Publishers, NEW x \in Work, NEW s \in Rows,
         pub' = [pub EXCEPT ![p] = x],
         ~Holds(pub[p], s), ~Holds(x, s),
         status'[s] = status[s], stale'[s] = stale[s],
         written'[s] = written[s], spoilt'[s] = spoilt[s]
  PROVE  Within(s)'
<1>1. \A q \in Publishers : pub'[q] = IF q = p THEN x ELSE pub[q]
  BY Types DEF IInv
<1>2. Held(s)' <=> Held(s)
  BY <1>1 DEF Held
<1>3. Free(s)' <=> Free(s)
  BY <1>2 DEF Free
<1>4. ~WillWrite(pub[p], s) /\ ~WillWrite(x, s)
  BY DEF Holds, WillWrite
<1>5. Cardinality(Writers(s)') = Cardinality(Writers(s))
  <2>1. /\ Cardinality(Writers(s)') \in Nat /\ Cardinality(Writers(s)) \in Nat
        /\ Cardinality(Writers(s)') + One(WillWrite(pub[p], s))
             = Cardinality(Writers(s)) + One(WillWrite(x, s))
    BY WritersChange, WritersAreFinite DEF IInv
  <2>2. One(WillWrite(pub[p], s)) = 0 /\ One(WillWrite(x, s)) = 0
    BY <1>4 DEF One
  <2>3. QED
    BY <2>1, <2>2
<1>6. One(Free(s))' = One(Free(s))
  BY <1>3 DEF One
<1>7. QED
  BY <1>5, <1>6 DEF IInv, Budget, Within

\* Row r is the one that is worked on.
LEMMA ThisRow ==
  ASSUME IInv, NEW p \in Publishers, NEW x \in Work, NEW r \in Rows,
         pub' = [pub EXCEPT ![p] = x],
         written'[r] \in Nat, spoilt'[r] \in Nat,
         written'[r] + One(WillWrite(x, r)) + One(Free(r))'
           + (Cardinality(Writers(r)) - One(WillWrite(pub[p], r))) <= 1 + spoilt'[r]
  PROVE  Within(r)'
<1> DEFINE c == Cardinality(Writers(r))
           d == Cardinality(Writers(r)')
           a == One(WillWrite(pub[p], r))
           b == One(WillWrite(x, r))
           f == One(Free(r))'
<1>1. d \in Nat /\ c \in Nat /\ d + a = c + b
  BY WritersChange, WritersAreFinite DEF IInv
<1>2. a \in Int /\ b \in Int /\ f \in Int
  BY DEF One
<1>3. written'[r] + d + f <= 1 + spoilt'[r]
  <2> HIDE DEF a, b, c, d, f
  <2>1. written'[r] + b + f + (c - a) <= 1 + spoilt'[r]
    BY DEF a, b, c, f
  <2>2. QED
    BY <1>1, <1>2, <2>1
<1>4. QED
  BY <1>3 DEF Within

\* Publisher p, about row r, goes on as x: what must be checked of a step.
LEMMA PublisherMoves ==
  ASSUME IInv, NEW p \in Publishers, NEW x \in Work, NEW r \in Rows \cup {0},
         pub' = [pub EXCEPT ![p] = x],
         status' \in [Rows -> {"none", "pending", "processing", "sent"}],
         due' \in [Rows -> BOOLEAN], stale' \in [Rows -> BOOLEAN],
         written' \in [Rows -> Nat], spoilt' \in [Rows -> Nat], faults' \in 0..MaxFaults,
         \A s \in Rows : s # r => /\ ~Holds(pub[p], s) /\ ~Holds(x, s)
                                  /\ status'[s] = status[s] /\ stale'[s] = stale[s]
                                  /\ written'[s] = written[s] /\ spoilt'[s] = spoilt[s],
         r \in Rows => /\ status[r] # "none" => status'[r] # "none"
                       /\ written'[r] >= written[r]
                       /\ status'[r] = "sent" => written'[r] > 0
                       /\ Within(r)',
         x.at # "idle" => x.row = r /\ r \in Rows /\ status'[r] # "none",
         \A s \in x.left : status[s] # "none",
         x.at = "sent" => written'[r] > 0
  PROVE  IInv'
<1>1. /\ pub' \in [Publishers -> Work]
      /\ \A q \in Publishers : pub'[q] = IF q = p THEN x ELSE pub[q]
  BY Types DEF IInv
<1>2. TypeOK'
  BY <1>1 DEF TypeOK, Work
<1>3. /\ \A s \in Rows : status[s] # "none" => status'[s] # "none"
      /\ \A s \in Rows : written[s] > 0 => written'[s] > 0
  <2>1. written \in [Rows -> Nat]
    BY Types DEF IInv
  <2>2. QED
    BY <2>1
<1>4. Placed'
  <2> SUFFICES ASSUME NEW q \in Publishers
               PROVE  (/\ pub[q].at # "idle" => pub[q].row \in Rows /\ status[pub[q].row] # "none"
                       /\ \A s \in pub[q].left : status[s] # "none"
                       /\ pub[q].at = "sent" => written[pub[q].row] > 0)'
    BY DEF Placed
  <2>1. CASE q = p
    <3>1. pub'[q] = x /\ x.left \subseteq Rows
      BY <1>1, <2>1 DEF Work
    <3>2. QED
      BY <1>3, <3>1
  <2>2. CASE q # p
    <3>1. pub'[q] = pub[q] /\ pub[q].left \subseteq Rows
      BY <1>1, <2>2, Types DEF IInv, Work
    <3>2. QED
      BY <1>3, <3>1 DEF IInv, Placed
  <2>3. QED
    BY <2>1, <2>2
<1>5. Announced'
  BY <1>3 DEF IInv, Announced
<1>6. Budget'
  <2>1. ASSUME NEW s \in Rows, s # r PROVE Within(s)'
    BY <2>1, OtherRow
  <2>2. QED
    BY <2>1 DEF Budget
<1>7. QED
  BY <1>2, <1>4, <1>5, <1>6 DEF IInv

\* Nobody goes on: row r is recorded, or its time passes.
LEMMA RowMoves ==
  ASSUME IInv, NEW r \in Rows, UNCHANGED <<pub, written>>,
         status' \in [Rows -> {"none", "pending", "processing", "sent"}],
         due' \in [Rows -> BOOLEAN], stale' \in [Rows -> BOOLEAN],
         spoilt' \in [Rows -> Nat], faults' \in 0..MaxFaults,
         \A s \in Rows : s # r => /\ status'[s] = status[s] /\ stale'[s] = stale[s]
                                  /\ spoilt'[s] = spoilt[s],
         status'[r] # "none", status'[r] = "sent" => status[r] = "sent",
         One(Free(r))' + spoilt[r] <= One(Free(r)) + spoilt'[r]
  PROVE  IInv'
<1>1. TypeOK'
  <2>1. pub' \in [Publishers -> Work] /\ written' \in [Rows -> Nat]
    BY Types DEF IInv
  <2>2. QED
    BY <2>1 DEF TypeOK, Work
<1>2. \A s \in Rows : status[s] # "none" => status'[s] # "none"
  OBVIOUS
<1>3. Placed'
  <2>1. \A p \in Publishers : pub[p].left \subseteq Rows
    BY Types DEF IInv, Work
  <2>2. QED
    BY <1>2, <2>1 DEF IInv, Placed
<1>4. Announced'
  BY DEF IInv, Announced
<1>5. ASSUME NEW s \in Rows PROVE Within(s)'
  <2>1. Writers(s)' = Writers(s) /\ (Held(s)' <=> Held(s))
    BY DEF Writers, Held
  <2>2. CASE s # r
    <3>1. Free(s)' <=> Free(s)
      BY <2>1, <2>2 DEF Free
    <3>2. One(Free(s))' = One(Free(s))
      BY <3>1 DEF One
    <3>3. QED
      BY <2>1, <2>2, <3>2 DEF IInv, Budget, Within
  <2>3. CASE s = r
    <3> DEFINE c == Cardinality(Writers(r))
               f == One(Free(r))
               g == One(Free(r))'
    <3>1. c \in Nat /\ f \in Int /\ g \in Int
      BY WritersAreFinite DEF One
    <3>2. written[r] \in Nat /\ spoilt[r] \in Nat /\ spoilt'[r] \in Nat
      BY Types DEF IInv
    <3>3. written[r] + c + f <= 1 + spoilt[r] /\ g + spoilt[r] <= f + spoilt'[r]
      BY DEF IInv, Budget, Within
    <3>4. written[r] + c + g <= 1 + spoilt'[r]
      <4> HIDE DEF c, f, g
      <4>1. QED
        BY <3>1, <3>2, <3>3
    <3>5. QED
      BY <2>1, <2>3, <3>4 DEF Within
  <2>4. QED
    BY <2>2, <2>3
<1>6. QED
  BY <1>1, <1>3, <1>4, <1>5 DEF IInv, Budget

LEMMA RecordStep ==
  ASSUME IInv, Record
  PROVE  IInv'
<1>1. PICK r \in Rows : /\ status[r] = "none" /\ SetStatus(r, "pending")
                        /\ due' = [due EXCEPT ![r] = TRUE]
                        /\ UNCHANGED <<pub, written, spoilt, faults>>
  BY DEF Record
<1>2. /\ status' \in [Rows -> {"none", "pending", "processing", "sent"}] /\ status'[r] = "pending"
      /\ due' \in [Rows -> BOOLEAN] /\ stale' \in [Rows -> BOOLEAN]
      /\ spoilt' \in [Rows -> Nat] /\ faults' \in 0..MaxFaults
      /\ \A s \in Rows : s # r => status'[s] = status[s] /\ stale'[s] = stale[s]
  BY <1>1, Types DEF IInv, SetStatus
<1>3. Free(r) /\ Free(r)'
  BY <1>1, <1>2 DEF Free
<1>4. One(Free(r)) = 1 /\ One(Free(r))' = 1
  BY <1>3 DEF One
<1>5. spoilt[r] \in Nat
  BY Types DEF IInv
<1>6. QED
  BY <1>1, <1>2, <1>4, <1>5, RowMoves

LEMMA TimeStep ==
  ASSUME IInv, NEW r \in Rows, RetryDelayPasses(r) \/ MinutePasses(r)
  PROVE  IInv'
<1>1. /\ status \in [Rows -> {"none", "pending", "processing", "sent"}]
      /\ due \in [Rows -> BOOLEAN] /\ stale \in [Rows -> BOOLEAN] /\ spoilt \in [Rows -> Nat]
      /\ faults \in 0..MaxFaults /\ One(Free(r)) \in {0, 1} /\ One(Free(r))' \in {0, 1}
  BY Types DEF IInv, One
<1>2. CASE RetryDelayPasses(r)
  <2>1. /\ status[r] = "pending" /\ due' = [due EXCEPT ![r] = TRUE]
        /\ UNCHANGED <<status, stale, pub, written, spoilt, faults>>
    BY <1>2 DEF RetryDelayPasses
  <2>2. Free(r) /\ Free(r)' /\ due' \in [Rows -> BOOLEAN]
    BY <1>1, <2>1 DEF Free
  <2>3. One(Free(r)) = 1 /\ One(Free(r))' = 1
    BY <2>2 DEF One
  <2>4. /\ One(Free(r))' + spoilt[r] <= One(Free(r)) + spoilt'[r]
        /\ spoilt' \in [Rows -> Nat] /\ faults' \in 0..MaxFaults
    BY <1>1, <2>1, <2>3
  <2>5. QED
    BY <1>1, <2>1, <2>2, <2>4, RowMoves
<1>3. CASE MinutePasses(r)
  <2>1. /\ status[r] = "processing" /\ stale' = [stale EXCEPT ![r] = TRUE]
        /\ UNCHANGED <<status, due, pub, written>>
        /\ stale' \in [Rows -> BOOLEAN] /\ \A s \in Rows : s # r => stale'[s] = stale[s]
    BY <1>1, <1>3 DEF MinutePasses
  <2>2. faults' \in 0..MaxFaults
    <3>1. NoFault \/ Fault("slow")
      BY <1>3 DEF MinutePasses
    <3>2. QED
      BY <3>1, FaultIsCounted DEF IInv, FaultKinds
  <2>3. CASE Held(r)
    <3>1. \E p \in Publishers : HeldBy(p, r)
      BY <2>3 DEF Held, Holds, HeldBy
    <3>2. spoilt' = [spoilt EXCEPT ![r] = @ + 1]
      BY <1>3, <3>1 DEF MinutePasses, Spoil
    <3>3. spoilt' \in [Rows -> Nat] /\ spoilt'[r] = spoilt[r] + 1
          /\ \A s \in Rows : s # r => spoilt'[s] = spoilt[s]
      BY <1>1, <3>2
    <3>4. One(Free(r))' + spoilt[r] <= One(Free(r)) + spoilt'[r]
      BY <1>1, <3>3
    <3>5. QED
      BY <1>1, <2>1, <2>2, <3>3, <3>4, RowMoves
  <2>4. CASE ~Held(r)
    <3>1. ~\E p \in Publishers : HeldBy(p, r)
      BY <2>4 DEF Held, Holds, HeldBy
    <3>2. spoilt' = spoilt
      BY <1>3, <3>1 DEF MinutePasses
    <3>3. Free(r) /\ Free(r)'
      BY <1>1, <2>1, <2>4 DEF Free, Held
    <3>4. One(Free(r)) = 1 /\ One(Free(r))' = 1
      BY <3>3 DEF One
    <3>5. /\ One(Free(r))' + spoilt[r] <= One(Free(r)) + spoilt'[r]
          /\ spoilt' \in [Rows -> Nat]
      BY <1>1, <3>2, <3>4
    <3>6. QED
      BY <1>1, <2>1, <2>2, <3>2, <3>5, RowMoves
  <2>5. QED
    BY <2>3, <2>4
<1>4. QED
  BY <1>2, <1>3

----------------------------------------------------------------------------
(* The steps of a publisher.                                               *)

LEMMA SelectStep ==
  ASSUME IInv, NEW p \in Publishers, Select(p)
  PROVE  IInv'
<1>1. PICK L \in SUBSET Rows :
        /\ \A s \in L : status[s] # "none"
        /\ pub' = [pub EXCEPT ![p] = [at |-> "idle", row |-> 0, left |-> L]]
  <2> DEFINE found == {r \in Rows : Selectable(r)}
             L == {r \in found : Cardinality({s \in found : s < r}) < BatchSize}
  <2>1. pub' = [pub EXCEPT ![p] = [at |-> "idle", row |-> 0, left |-> L]]
    BY DEF Select, Working
  <2>2. L \in SUBSET Rows /\ \A s \in L : status[s] # "none"
    BY DEF Selectable
  <2>3. QED
    BY <2>1, <2>2
<1> DEFINE x == [at |-> "idle", row |-> 0, left |-> L]
<1>2. x \in Work /\ x.at = "idle" /\ x.row = 0 /\ x.left = L
  BY DEF Work
<1>3. pub[p] = Idle /\ UNCHANGED <<status, due, stale, written, spoilt, faults>>
  BY DEF Select, NoFault, rowVars
<1>4. \A s \in Rows : ~Holds(pub[p], s) /\ ~Holds(x, s)
  BY <1>2, <1>3, Numbers DEF Holds
<1>5. /\ status' \in [Rows -> {"none", "pending", "processing", "sent"}]
      /\ due' \in [Rows -> BOOLEAN] /\ stale' \in [Rows -> BOOLEAN]
      /\ written' \in [Rows -> Nat] /\ spoilt' \in [Rows -> Nat] /\ faults' \in 0..MaxFaults
  BY <1>3, Types DEF IInv
<1>6. 0 \in Rows \cup {0} /\ 0 \notin Rows
  BY Numbers
<1>7. QED
  BY <1>1, <1>2, <1>3, <1>4, <1>5, <1>6, PublisherMoves, ZenonT(30)

\* What a publisher at work knows of its row.
LEMMA AtWork ==
  ASSUME IInv, NEW p \in Publishers, pub[p].at # "idle"
  PROVE  /\ pub[p] \in Work /\ pub[p].row \in Rows /\ pub[p].left \subseteq Rows
         /\ status[pub[p].row] # "none"
         /\ \A s \in pub[p].left : status[s] # "none"
         /\ \A s \in Rows : s # pub[p].row => ~Holds(pub[p], s)
         /\ written[pub[p].row] \in Nat /\ spoilt[pub[p].row] \in Nat
         /\ Cardinality(Writers(pub[p].row)) \in Nat
         /\ Within(pub[p].row)
         /\ Idle \in Work /\ Working("idle", 0, pub[p].left) \in Work
         /\ \A step \in {"claim", "notify", "sent", "pending"} :
              Working(step, pub[p].row, pub[p].left) \in Work
<1>1. pub[p] \in Work /\ pub[p].row \in Rows
  BY Types DEF IInv, Placed
<1>2. pub[p].left \subseteq Rows
  BY <1>1 DEF Work
<1>3. /\ status[pub[p].row] # "none" /\ \A s \in pub[p].left : status[s] # "none"
      /\ Within(pub[p].row)
  BY <1>1 DEF IInv, Placed, Budget
<1>4. \A s \in Rows : s # pub[p].row => ~Holds(pub[p], s)
  BY DEF Holds
<1>5. written[pub[p].row] \in Nat /\ spoilt[pub[p].row] \in Nat
  BY <1>1, Types DEF IInv
<1>6. /\ Idle \in Work /\ Working("idle", 0, pub[p].left) \in Work
      /\ \A step \in {"claim", "notify", "sent", "pending"} :
           Working(step, pub[p].row, pub[p].left) \in Work
  BY <1>1, <1>2, Numbers DEF Working, Work
<1>7. QED
  BY <1>1, <1>2, <1>3, <1>4, <1>5, <1>6, WritersAreFinite

\* Publisher p is done with its row r, or holds it on as x; r' may change.
LEMMA WorkMoves ==
  ASSUME IInv, NEW p \in Publishers, NEW r \in Rows, NEW x \in Work,
         pub[p].at # "idle", r = pub[p].row,
         pub' = [pub EXCEPT ![p] = x],
         x.at # "idle" => x.row = r, x.at = "idle" => x.row = 0,
         x.left \subseteq pub[p].left,
         \/ UNCHANGED <<status, stale>>
         \/ \E st \in {"pending", "processing", "sent"} : SetStatus(r, st),
         due' \in [Rows -> BOOLEAN], faults' \in 0..MaxFaults,
         UNCHANGED written \/ WriteMessage(r),
         UNCHANGED spoilt \/ Spoil(r),
         x.at = "sent" \/ status'[r] = "sent" => written'[r] > 0,
         Within(r)'
  PROVE  IInv'
<1>1. /\ status \in [Rows -> {"none", "pending", "processing", "sent"}]
      /\ stale \in [Rows -> BOOLEAN] /\ written \in [Rows -> Nat] /\ spoilt \in [Rows -> Nat]
  BY Types DEF IInv
<1>2. /\ status' \in [Rows -> {"none", "pending", "processing", "sent"}]
      /\ stale' \in [Rows -> BOOLEAN] /\ status'[r] # "none"
      /\ \A s \in Rows : s # r => status'[s] = status[s] /\ stale'[s] = stale[s]
  <2>1. status[r] # "none"
    BY AtWork
  <2>2. CASE UNCHANGED <<status, stale>>
    BY <1>1, <2>1, <2>2
  <2>3. ASSUME NEW st \in {"pending", "processing", "sent"},
               status' = [status EXCEPT ![r] = st], stale' = [stale EXCEPT ![r] = FALSE]
        PROVE  /\ status' \in [Rows -> {"none", "pending", "processing", "sent"}]
               /\ stale' \in [Rows -> BOOLEAN] /\ status'[r] # "none"
               /\ \A s \in Rows : s # r => status'[s] = status[s] /\ stale'[s] = stale[s]
    BY <1>1, <2>3
  <2>4. QED
    BY <2>2, <2>3 DEF SetStatus
<1>3. /\ written' \in [Rows -> Nat] /\ spoilt' \in [Rows -> Nat] /\ written'[r] >= written[r]
      /\ \A s \in Rows : s # r => written'[s] = written[s] /\ spoilt'[s] = spoilt[s]
  BY <1>1 DEF WriteMessage, Spoil
<1>4. \A s \in Rows : s # r => ~Holds(pub[p], s) /\ ~Holds(x, s)
  BY Numbers DEF Holds
<1>5. \A s \in x.left : status[s] # "none"
  BY AtWork
<1>6. QED
  <2>1. r \in Rows \cup {0}
    OBVIOUS
  <2>2. /\ status[r] # "none" => status'[r] # "none"
        /\ status'[r] = "sent" => written'[r] > 0
        /\ x.at # "idle" => x.row = r /\ r \in Rows /\ status'[r] # "none"
    BY <1>2
  <2>3. QED
    BY <1>2, <1>3, <1>4, <1>5, <2>1, <2>2, PublisherMoves, ZenonT(30)

LEMMA TakeStep ==
  ASSUME IInv, NEW p \in Publishers, TakeRow(p)
  PROVE  IInv'
<1>1. PICK r \in pub[p].left :
        pub' = [pub EXCEPT ![p] = [at |-> "claim", row |-> r, left |-> pub[p].left \ {r}]]
  BY DEF TakeRow, Working
<1> DEFINE x == [at |-> "claim", row |-> r, left |-> pub[p].left \ {r}]
<1>2. /\ pub[p].at = "idle" /\ UNCHANGED <<status, due, stale, written, spoilt, faults>>
      /\ pub[p] \in Work
  BY Types DEF TakeRow, NoFault, rowVars, IInv
<1>3. r \in Rows /\ pub[p].left \subseteq Rows /\ \A s \in pub[p].left : status[s] # "none"
  BY <1>2 DEF Work, IInv, Placed
<1>4. x \in Work /\ x.at = "claim" /\ x.row = r /\ x.left \subseteq pub[p].left
  BY <1>3 DEF Work
<1>5. \A s \in Rows : ~Holds(pub[p], s) /\ ~Holds(x, s)
  BY <1>2, <1>4 DEF Holds
<1>6. Within(r)'
  BY <1>1, <1>2, <1>3, <1>4, <1>5, OtherRow
<1>7. /\ status' \in [Rows -> {"none", "pending", "processing", "sent"}]
      /\ due' \in [Rows -> BOOLEAN] /\ stale' \in [Rows -> BOOLEAN]
      /\ written' \in [Rows -> Nat] /\ spoilt' \in [Rows -> Nat] /\ faults' \in 0..MaxFaults
      /\ written[r] \in Nat /\ written'[r] >= written[r]
      /\ status'[r] = "sent" => written'[r] > 0
      /\ status'[r] # "none" /\ r \in Rows \cup {0}
      /\ \A s \in Rows : /\ status'[s] = status[s] /\ stale'[s] = stale[s]
                        /\ written'[s] = written[s] /\ spoilt'[s] = spoilt[s]
  BY <1>2, <1>3, Types DEF IInv, Announced
<1>8. QED
  <2>1. x.at # "sent" /\ \A s \in x.left : status[s] # "none"
    BY <1>3, <1>4
  <2>2. QED
    BY <1>1, <1>3, <1>4, <1>5, <1>6, <1>7, <2>1, PublisherMoves

\* A row that a publisher may claim is free, and is not while a publisher holds it.
LEMMA ClaimedIsFree ==
  ASSUME NEW r \in Rows, Claimable(r)
  PROVE  Free(r)
BY DEF Claimable, Free

LEMMA ClaimStep ==
  ASSUME IInv, NEW p \in Publishers, Claim(p) \/ ClaimFails(p)
  PROVE  IInv'
<1>0. PICK r, left : r = pub[p].row /\ left = pub[p].left
  OBVIOUS
<1>1. /\ pub[p].at = "claim" /\ UNCHANGED <<due, written, spoilt>>
      /\ NoFault \/ Fault("claim")
  BY DEF Claim, ClaimFails
<1>2. /\ pub[p] \in Work /\ r \in Rows /\ written[r] \in Nat /\ spoilt[r] \in Nat
      /\ Cardinality(Writers(r)) \in Nat /\ Within(r) /\ status[r] # "none"
      /\ status[r] = "sent" => written[r] > 0
      /\ Idle \in Work /\ Working("idle", 0, left) \in Work /\ Working("notify", r, left) \in Work
  BY <1>0, <1>1, AtWork DEF IInv, Announced
<1>3. due' \in [Rows -> BOOLEAN] /\ faults' \in 0..MaxFaults
  BY <1>1, Types, FaultIsCounted DEF IInv, FaultKinds
<1>4. One(Free(r)) \in {0, 1} /\ One(Free(r))' \in {0, 1} /\ One(WillWrite(pub[p], r)) = 0
  BY <1>0, <1>1 DEF One, WillWrite
<1>5. ASSUME NEW x \in Work, x.at = "idle", x.row = 0, x.left \subseteq left,
             pub' = [pub EXCEPT ![p] = x], UNCHANGED <<status, stale>>
      PROVE  IInv'
  <2>1. ~Holds(pub[p], r) /\ ~Holds(x, r)
    BY <1>0, <1>1, <1>5 DEF Holds
  <2>2. Within(r)'
    BY <1>1, <1>2, <1>5, <2>1, OtherRow
  <2>3. QED
    BY <1>1, <1>2, <1>3, <1>5, <2>2, <1>0, WorkMoves
<1>6. ASSUME Claimable(r), SetStatus(r, "processing")
      PROVE  /\ status'[r] = "processing" /\ ~stale'[r] /\ One(Free(r)) = 1
  <2>1. status' = [status EXCEPT ![r] = "processing"] /\ stale' = [stale EXCEPT ![r] = FALSE]
    BY <1>6 DEF SetStatus
  <2>2. QED
    BY <1>2, <1>6, <2>1, ClaimedIsFree, Types DEF IInv, One
<1>7. CASE Claim(p)
  <2>1. CASE Claimable(r)
    <3> DEFINE x == Working("notify", r, left)
    <3>1. SetStatus(r, "processing") /\ pub' = [pub EXCEPT ![p] = x]
      BY <1>0, <1>7, <2>1 DEF Claim, GoTo
    <3>2. x.at = "notify" /\ x.row = r /\ x.left = left
      BY DEF Working
    <3>3. Held(r)' /\ One(WillWrite(x, r)) = 1
      <4>1. pub'[p] = x
        BY <3>1, Types DEF IInv
      <4>2. QED
        BY <3>2, <4>1 DEF Held, Holds, WillWrite, One
    <3>4. One(Free(r))' = 0
      BY <1>6, <2>1, <3>1, <3>3 DEF Free, One
    <3>5. written'[r] + One(WillWrite(x, r)) + One(Free(r))'
            + (Cardinality(Writers(r)) - One(WillWrite(pub[p], r))) <= 1 + spoilt'[r]
      BY <1>1, <1>2, <1>4, <1>6, <2>1, <3>1, <3>3, <3>4 DEF Within
    <3>6. Within(r)'
      BY <1>1, <1>2, <3>1, <3>5, ThisRow
    <3>7. status'[r] # "sent" /\ x.at # "sent" /\ x.at # "idle"
      BY <1>6, <2>1, <3>1, <3>2
    <3>8. QED
      BY <1>1, <1>2, <1>3, <3>1, <3>2, <3>6, <3>7, <1>0, WorkMoves
  <2>2. CASE ~Claimable(r)
    <3> DEFINE x == Working("idle", 0, left)
    <3>1. UNCHANGED <<status, stale>> /\ pub' = [pub EXCEPT ![p] = x]
      BY <1>0, <1>7, <2>2 DEF Claim, NextRow
    <3>2. x.at = "idle" /\ x.row = 0 /\ x.left = left
      BY DEF Working
    <3>3. QED
      BY <1>2, <1>5, <3>1, <3>2
  <2>3. QED
    BY <2>1, <2>2
<1>8. CASE ClaimFails(p)
  <2>1. /\ pub' = [pub EXCEPT ![p] = Idle]
        /\ UNCHANGED <<status, stale>> \/ (Claimable(r) /\ SetStatus(r, "processing"))
    BY <1>0, <1>8 DEF ClaimFails, EndTick
  <2>2. CASE UNCHANGED <<status, stale>>
    BY <1>2, <1>5, <2>1, <2>2, Numbers
  <2>3. CASE Claimable(r) /\ SetStatus(r, "processing")
    <3>1. One(WillWrite(Idle, r)) = 0
      BY Numbers DEF WillWrite, One
    <3>2. written'[r] + One(WillWrite(Idle, r)) + One(Free(r))'
            + (Cardinality(Writers(r)) - One(WillWrite(pub[p], r))) <= 1 + spoilt'[r]
      BY <1>1, <1>2, <1>4, <1>6, <2>3, <3>1 DEF Within
    <3>3. Within(r)'
      BY <1>1, <1>2, <2>1, <3>2, ThisRow
    <3>4. status'[r] # "sent"
      BY <1>6, <2>3
    <3>5. QED
      BY <1>1, <1>2, <1>3, <2>1, <2>3, <3>3, <3>4, Numbers, <1>0, WorkMoves
  <2>4. QED
    BY <2>1, <2>2, <2>3
<1>9. QED
  BY <1>7, <1>8

LEMMA NotifyStep ==
  ASSUME IInv, NEW p \in Publishers, Notify(p) \/ NotifyFails(p)
  PROVE  IInv'
<1>0. PICK r, left : r = pub[p].row /\ left = pub[p].left
  OBVIOUS
<1> DEFINE x(step) == Working(step, r, left)
<1>1. /\ pub[p].at = "notify" /\ UNCHANGED <<status, due, stale>>
      /\ NoFault \/ Fault("kafka") \/ Fault("late")
      /\ \/ /\ pub' = [pub EXCEPT ![p] = x("sent")]
            /\ WriteMessage(r) /\ UNCHANGED spoilt
         \/ /\ pub' = [pub EXCEPT ![p] = x("pending")]
            /\ \/ UNCHANGED <<written, spoilt>>
               \/ WriteMessage(r) /\ Spoil(r)
  BY <1>0 DEF Notify, NotifyFails, AfterNotifyError, GoTo, rowVars
<1>2. /\ pub[p] \in Work /\ r \in Rows /\ written[r] \in Nat /\ spoilt[r] \in Nat
      /\ Cardinality(Writers(r)) \in Nat /\ Within(r) /\ status[r] # "none"
      /\ status[r] = "sent" => written[r] > 0
      /\ x("sent") \in Work /\ x("pending") \in Work
  BY <1>0, <1>1, AtWork DEF IInv, Announced
<1>3. due' \in [Rows -> BOOLEAN] /\ faults' \in 0..MaxFaults
  BY <1>1, Types, FaultIsCounted DEF IInv, FaultKinds
<1>4. /\ One(Free(r)) \in {0, 1} /\ One(WillWrite(pub[p], r)) = 1
      /\ One(WillWrite(x("sent"), r)) = 0 /\ One(WillWrite(x("pending"), r)) = 1
  BY <1>0, <1>1 DEF One, WillWrite, Working
<1>5. \A step \in {"sent", "pending"} :
        x(step).at = step /\ x(step).row = r /\ x(step).left = left
  BY DEF Working
<1>6. ASSUME NEW step \in {"sent", "pending"}, pub' = [pub EXCEPT ![p] = x(step)]
      PROVE  One(Free(r))' = One(Free(r))
  <2>1. pub'[p] = x(step)
    BY <1>6, Types DEF IInv
  <2>2. Held(r) /\ Held(r)'
    BY <1>0, <1>1, <1>5, <2>1 DEF Held, Holds
  <2>3. Free(r)' <=> Free(r)
    BY <1>1, <2>2 DEF Free
  <2>4. QED
    BY <2>3 DEF One
<1>7. /\ WriteMessage(r) => written'[r] = written[r] + 1
      /\ Spoil(r) => spoilt'[r] = spoilt[r] + 1
  BY <1>2, Types DEF IInv, WriteMessage, Spoil
<1>8. CASE pub' = [pub EXCEPT ![p] = x("sent")] /\ WriteMessage(r) /\ UNCHANGED spoilt
  <2>1. written'[r] + One(WillWrite(x("sent"), r)) + One(Free(r))'
          + (Cardinality(Writers(r)) - One(WillWrite(pub[p], r))) <= 1 + spoilt'[r]
    BY <1>2, <1>4, <1>6, <1>7, <1>8 DEF Within
  <2>2. written'[r] \in Nat /\ written'[r] > 0 /\ spoilt'[r] \in Nat
    BY <1>2, <1>7, <1>8
  <2>3. Within(r)'
    BY <1>2, <1>8, <2>1, <2>2, ThisRow
  <2>4. QED
    BY <1>1, <1>2, <1>3, <1>5, <1>8, <2>2, <2>3, <1>0, WorkMoves
<1>9. CASE /\ pub' = [pub EXCEPT ![p] = x("pending")]
           /\ UNCHANGED <<written, spoilt>> \/ (WriteMessage(r) /\ Spoil(r))
  <2>1. /\ written'[r] \in Nat /\ spoilt'[r] \in Nat /\ written'[r] >= written[r]
        /\ written'[r] - written[r] = spoilt'[r] - spoilt[r]
    BY <1>2, <1>7, <1>9
  <2>2. written'[r] + One(WillWrite(x("pending"), r)) + One(Free(r))'
          + (Cardinality(Writers(r)) - One(WillWrite(pub[p], r))) <= 1 + spoilt'[r]
    BY <1>2, <1>4, <1>6, <1>9, <2>1 DEF Within
  <2>3. Within(r)'
    BY <1>2, <1>9, <2>1, <2>2, ThisRow
  <2>4. /\ x("pending").at # "sent" /\ x("pending").at # "idle"
        /\ status'[r] = "sent" => written'[r] > 0
    BY <1>1, <1>2, <1>5, <2>1
  <2>5. QED
    BY <1>1, <1>2, <1>3, <1>5, <1>9, <2>3, <2>4, <1>0, WorkMoves
<1>10. QED
  BY <1>1, <1>8, <1>9

LEMMA MarkStep ==
  ASSUME IInv, NEW p \in Publishers, Mark(p) \/ MarkFails(p) \/ MarkUnanswered(p)
  PROVE  IInv'
<1>0. PICK r, left, at : r = pub[p].row /\ left = pub[p].left /\ at = pub[p].at
  OBVIOUS
<1>1. /\ at \in {"sent", "pending"} /\ UNCHANGED written
      /\ NoFault \/ Fault("mark")
      /\ pub' = [pub EXCEPT ![p] = Idle] \/ pub' = [pub EXCEPT ![p] = Working("idle", 0, left)]
      /\ \/ /\ SetStatus(r, "sent") /\ at = "sent" /\ UNCHANGED <<due, spoilt>>
         \/ /\ SetStatus(r, "pending") /\ at = "pending"
            /\ due' = [due EXCEPT ![r] = FALSE] /\ UNCHANGED spoilt
         \/ /\ UNCHANGED <<status, stale, due>>
            /\ IF at = "sent" THEN Spoil(r) ELSE UNCHANGED spoilt
  BY <1>0 DEF Mark, MarkFails, MarkUnanswered, EndTick, NextRow, rowVars
<1>2. PICK x \in Work : /\ x.at = "idle" /\ x.row = 0 /\ x.left \subseteq left
                        /\ pub' = [pub EXCEPT ![p] = x]
  <2>1. Idle \in Work /\ Working("idle", 0, left) \in Work
    BY <1>0, <1>1, AtWork
  <2>2. /\ Working("idle", 0, left).at = "idle" /\ Working("idle", 0, left).row = 0
        /\ Working("idle", 0, left).left = left
    BY DEF Working
  <2>3. QED
    BY <1>1, <2>1, <2>2, Numbers
<1>3. /\ pub[p] \in Work /\ r \in Rows /\ written[r] \in Nat /\ spoilt[r] \in Nat
      /\ Cardinality(Writers(r)) \in Nat /\ Within(r) /\ status[r] # "none"
      /\ status[r] = "sent" => written[r] > 0
      /\ at = "sent" => written[r] > 0
  BY <1>0, <1>1, AtWork DEF IInv, Announced, Placed
<1>4. due' \in [Rows -> BOOLEAN] /\ faults' \in 0..MaxFaults
  <2>1. faults' \in 0..MaxFaults
    BY <1>1, FaultIsCounted DEF IInv, FaultKinds
  <2>2. due' \in [Rows -> BOOLEAN]
    BY <1>1, Types DEF IInv
  <2>3. QED
    BY <2>1, <2>2
<1>5. /\ One(Free(r)) \in {0, 1} /\ One(Free(r))' \in {0, 1} /\ One(WillWrite(x, r)) = 0
      /\ at = "pending" => One(WillWrite(pub[p], r)) = 1
      /\ at = "sent" => One(WillWrite(pub[p], r)) = 0
  BY <1>0, <1>2 DEF One, WillWrite
<1>6. \A st : SetStatus(r, st) => status'[r] = st
  BY <1>3, Types DEF IInv, SetStatus
<1>7. CASE UNCHANGED spoilt /\ SetStatus(r, "sent") /\ at = "sent"
  <2>1. One(Free(r))' = 0 /\ status'[r] = "sent"
    BY <1>6, <1>7 DEF Free, One
  <2>2. written'[r] + One(WillWrite(x, r)) + One(Free(r))'
          + (Cardinality(Writers(r)) - One(WillWrite(pub[p], r))) <= 1 + spoilt'[r]
    BY <1>1, <1>3, <1>5, <1>7, <2>1 DEF Within
  <2>3. Within(r)'
    BY <1>1, <1>2, <1>3, <1>7, <2>2, ThisRow
  <2>4. QED
    BY <1>0, <1>1, <1>2, <1>3, <1>4, <1>7, <2>3, WorkMoves
<1>8. CASE /\ UNCHANGED spoilt /\ at = "pending"
           /\ SetStatus(r, "pending") \/ UNCHANGED <<status, stale>>
  <2>1. status'[r] = "sent" => written'[r] > 0
    BY <1>1, <1>3, <1>6, <1>8
  <2>2. written'[r] + One(WillWrite(x, r)) + One(Free(r))'
          + (Cardinality(Writers(r)) - One(WillWrite(pub[p], r))) <= 1 + spoilt'[r]
    BY <1>1, <1>3, <1>5, <1>8 DEF Within
  <2>3. Within(r)'
    BY <1>1, <1>2, <1>3, <1>8, <2>2, ThisRow
  <2>4. QED
    BY <1>0, <1>1, <1>2, <1>3, <1>4, <1>8, <2>1, <2>3, WorkMoves
<1>9. CASE Spoil(r) /\ UNCHANGED <<status, stale>> /\ at = "sent"
  <2>1. spoilt'[r] = spoilt[r] + 1
    BY <1>3, <1>9, Types DEF IInv, Spoil
  <2>2. written'[r] + One(WillWrite(x, r)) + One(Free(r))'
          + (Cardinality(Writers(r)) - One(WillWrite(pub[p], r))) <= 1 + spoilt'[r]
    BY <1>1, <1>3, <1>5, <1>9, <2>1 DEF Within
  <2>3. spoilt'[r] \in Nat
    BY <1>3, <2>1
  <2>4. Within(r)'
    BY <1>1, <1>2, <1>3, <2>2, <2>3, ThisRow
  <2>5. QED
    BY <1>0, <1>1, <1>2, <1>3, <1>4, <1>9, <2>4, WorkMoves
<1>10. QED
  BY <1>1, <1>7, <1>8, <1>9

\* A tick ends with nothing done, and its publisher holds no row.
LEMMA EmptyHanded ==
  ASSUME IInv, NEW p \in Publishers, pub[p].at \in {"idle", "claim"},
         pub' = [pub EXCEPT ![p] = Idle], faults' \in 0..MaxFaults,
         UNCHANGED <<status, due, stale, written, spoilt>>
  PROVE  IInv'
<1>1. \A s \in Rows : ~Holds(pub[p], s) /\ ~Holds(Idle, s)
  BY Numbers DEF Holds
<1>2. /\ status' \in [Rows -> {"none", "pending", "processing", "sent"}]
      /\ due' \in [Rows -> BOOLEAN] /\ stale' \in [Rows -> BOOLEAN]
      /\ written' \in [Rows -> Nat] /\ spoilt' \in [Rows -> Nat]
  BY Types DEF IInv
<1>3. 0 \in Rows \cup {0} /\ 0 \notin Rows
  BY Numbers
<1>4. QED
  BY <1>1, <1>2, <1>3, Numbers, PublisherMoves

LEMMA CrashStep ==
  ASSUME IInv, NEW p \in Publishers, Crash(p)
  PROVE  IInv'
<1>0. PICK r : r = pub[p].row
  OBVIOUS
<1>1. /\ pub' = [pub EXCEPT ![p] = Idle] /\ Fault("crash")
      /\ IF pub[p].at = "sent" THEN Spoil(r) ELSE UNCHANGED spoilt
      /\ UNCHANGED <<status, due, stale, written>>
  BY <1>0 DEF Crash, EndTick, rowVars
<1>2. faults' \in 0..MaxFaults
  BY <1>1, FaultIsCounted DEF IInv, FaultKinds
<1>3. pub[p] \in Work
  BY Types DEF IInv
<1>4. CASE pub[p].at \in {"idle", "claim"}
  BY <1>1, <1>2, <1>4, EmptyHanded
<1>5. CASE pub[p].at \in {"notify", "sent", "pending"}
  <2>1. /\ r \in Rows /\ written[r] \in Nat /\ spoilt[r] \in Nat
        /\ Cardinality(Writers(r)) \in Nat /\ Within(r)
        /\ status[r] = "sent" => written[r] > 0
    BY <1>0, <1>5, AtWork DEF IInv, Announced
  <2>2. /\ One(Free(r)) \in {0, 1} /\ One(Free(r))' \in {0, 1} /\ One(WillWrite(Idle, r)) = 0
        /\ pub[p].at # "sent" => One(WillWrite(pub[p], r)) = 1
        /\ pub[p].at = "sent" => One(WillWrite(pub[p], r)) = 0
    BY <1>0, <1>5, Numbers DEF One, WillWrite
  <2>3. spoilt'[r] = IF pub[p].at = "sent" THEN spoilt[r] + 1 ELSE spoilt[r]
    BY <1>1, <2>1, Types DEF IInv, Spoil
  <2>4. written'[r] + One(WillWrite(Idle, r)) + One(Free(r))'
          + (Cardinality(Writers(r)) - One(WillWrite(pub[p], r))) <= 1 + spoilt'[r]
    BY <1>1, <2>1, <2>2, <2>3 DEF Within
  <2>5. written'[r] \in Nat /\ spoilt'[r] \in Nat
    BY <1>1, <2>1, <2>3
  <2>6. Within(r)'
    BY <1>1, <2>1, <2>4, <2>5, Numbers, ThisRow
  <2>7. due' \in [Rows -> BOOLEAN]
    BY <1>1, Types DEF IInv
  <2>8. QED
    BY <1>0, <1>1, <1>2, <1>5, <2>1, <2>6, <2>7, Numbers, WorkMoves
<1>6. QED
  BY <1>3, <1>4, <1>5 DEF Work

----------------------------------------------------------------------------
(* The invariant.                                                          *)

LEMMA InitIInv ==
  ASSUME Init
  PROVE  IInv
<1>1. TypeOK
  BY Types, Numbers DEF Init
<1>2. Placed /\ Announced
  BY Numbers DEF Init, Placed, Announced
<1>3. ASSUME NEW r \in Rows PROVE Within(r)
  <2>1. Writers(r) = {}
    BY Numbers DEF Init, Writers, WillWrite
  <2>2. Cardinality(Writers(r)) = 0
    BY <2>1, FS_EmptySet
  <2>3. written[r] = 0 /\ spoilt[r] = 0 /\ One(Free(r)) \in {0, 1}
    BY DEF Init, One
  <2>4. QED
    BY <2>2, <2>3 DEF Within
<1>4. QED
  BY <1>1, <1>2, <1>3 DEF IInv, Budget

LEMMA NextIInv ==
  ASSUME IInv, [Next]_vars
  PROVE  IInv'
<1>1. CASE Record
  BY <1>1, RecordStep
<1>2. ASSUME NEW p \in Publishers, Select(p) \/ Publish(p) PROVE IInv'
  BY <1>2, SelectStep, TakeStep, ClaimStep, NotifyStep, MarkStep DEF Publish
<1>3. ASSUME NEW p \in Publishers, Fails(p) PROVE IInv'
  <2>1. CASE SelectFails(p)
    <3>1. /\ pub[p] = Idle /\ Fault("select")
          /\ UNCHANGED <<status, due, stale, pub, written, spoilt>>
      BY <2>1 DEF SelectFails, rowVars
    <3>2. pub' = [pub EXCEPT ![p] = Idle] /\ faults' \in 0..MaxFaults
      BY <3>1, FaultIsCounted, Types DEF IInv, FaultKinds
    <3>3. QED
      BY <3>1, <3>2, Numbers, EmptyHanded
  <2>2. QED
    BY <1>3, <2>1, ClaimStep, NotifyStep, MarkStep, CrashStep DEF Fails
<1>4. ASSUME NEW r \in Rows, RetryDelayPasses(r) \/ MinutePasses(r) PROVE IInv'
  BY <1>4, TimeStep
<1>5. CASE UNCHANGED vars
  <2>1. TypeOK' /\ Placed' /\ Announced'
    BY <1>5 DEF IInv, TypeOK, Placed, Announced, vars, rowVars
  <2>2. ASSUME NEW r \in Rows PROVE Within(r)'
    <3>1. Writers(r)' = Writers(r) /\ (Held(r)' <=> Held(r))
      BY <1>5 DEF vars, rowVars, Writers, Held
    <3>2. Free(r)' <=> Free(r)
      BY <1>5, <3>1 DEF vars, rowVars, Free
    <3>3. One(Free(r))' = One(Free(r))
      BY <3>2 DEF One
    <3>4. QED
      BY <1>5, <3>1, <3>3 DEF vars, rowVars, IInv, Budget, Within
  <2>3. QED
    BY <2>1, <2>2 DEF IInv, Budget
<1>6. QED
  BY <1>1, <1>2, <1>3, <1>4, <1>5 DEF Next

\* The publishers keep the columns of the table and their own steps among the values that
\* the code knows (publishCounterDirtyOutbox).
THEOREM TypeCorrect == Spec => []TypeOK
<1>1. Init => IInv
  BY InitIInv
<1>2. IInv /\ [Next]_vars => IInv'
  BY NextIInv
<1>3. IInv => TypeOK
  BY DEF IInv
<1>4. QED
  BY <1>1, <1>2, <1>3, PTL DEF Spec

\* However many publishers work on the rows and whatever fails, a row has no more messages
\* than one, and one for every late message, lost mark, crash or takeover that it met
\* (claimCounterDirtyOutbox).
THEOREM EveryDuplicateHasAReason == Spec => []NoIdleDuplicates
<1>1. Init => IInv
  BY InitIInv
<1>2. IInv /\ [Next]_vars => IInv'
  BY NextIInv
<1>3. ASSUME IInv PROVE NoIdleDuplicates
  <2>1. ASSUME NEW r \in Rows PROVE written[r] <= 1 + spoilt[r]
    <3> DEFINE c == Cardinality(Writers(r))
               f == One(Free(r))
    <3>1. written[r] + c + f <= 1 + spoilt[r]
      BY <1>3 DEF IInv, Budget, Within
    <3>2. c \in Nat /\ f \in {0, 1} /\ written[r] \in Nat /\ spoilt[r] \in Nat
      BY <1>3, WritersAreFinite, Types DEF One, IInv
    <3>3. QED
      <4> HIDE DEF c, f
      <4>1. QED
        BY <3>1, <3>2
  <2>2. QED
    BY <2>1 DEF NoIdleDuplicates
<1>4. QED
  BY <1>1, <1>2, <1>3, PTL DEF Spec

----------------------------------------------------------------------------
(* The outbox implements the safety half of NoticePromise.                 *)

Put(r, st) == status' = [status EXCEPT ![r] = st] /\ UNCHANGED written

\* All that a step may do to the rows, as far as the promise can tell.
LEMMA RowSteps ==
  ASSUME IInv, [Next]_vars
  PROVE  \/ UNCHANGED <<status, written>>
         \/ \E r \in Rows : status[r] = "none" /\ Put(r, "pending")
         \/ \E r \in Rows : status[r] # "none" /\ WriteMessage(r) /\ UNCHANGED status
         \/ \E r \in Rows : status[r] \in {"pending", "processing"} /\ Put(r, "processing")
         \/ \E r \in Rows : status[r] # "none" /\ written[r] > 0 /\ Put(r, "sent")
         \/ \E r \in Rows : status[r] # "none" /\ Put(r, "pending")
<1> DEFINE Still == UNCHANGED <<status, written>>
<1>1. CASE Record
  BY <1>1 DEF Record, SetStatus, Put
<1>2. ASSUME NEW p \in Publishers, Select(p) \/ TakeRow(p) \/ SelectFails(p) \/ Crash(p)
      PROVE  Still
  BY <1>2 DEF Select, TakeRow, SelectFails, Crash, rowVars
<1>3. ASSUME NEW p \in Publishers, Claim(p) \/ ClaimFails(p)
      PROVE  Still \/ \E r \in Rows : status[r] \in {"pending", "processing"} /\ Put(r, "processing")
  <2>1. pub[p].row \in Rows /\ pub[p].at = "claim"
    BY <1>3, AtWork DEF Claim, ClaimFails
  <2>2. Still \/ (Claimable(pub[p].row) /\ Put(pub[p].row, "processing"))
    BY <1>3 DEF Claim, ClaimFails, SetStatus, Put
  <2>3. QED
    BY <2>1, <2>2 DEF Claimable
<1>4. ASSUME NEW p \in Publishers, Notify(p) \/ NotifyFails(p)
      PROVE  Still \/ \E r \in Rows : status[r] # "none" /\ WriteMessage(r) /\ UNCHANGED status
  <2>1. pub[p].row \in Rows /\ status[pub[p].row] # "none"
    BY <1>4, AtWork DEF Notify, NotifyFails
  <2>2. Still \/ (WriteMessage(pub[p].row) /\ UNCHANGED status)
    BY <1>4 DEF Notify, NotifyFails, rowVars
  <2>3. QED
    BY <2>1, <2>2
<1>5. ASSUME NEW p \in Publishers, Mark(p) \/ MarkFails(p) \/ MarkUnanswered(p)
      PROVE  \/ Still
             \/ \E r \in Rows : status[r] # "none" /\ written[r] > 0 /\ Put(r, "sent")
             \/ \E r \in Rows : status[r] # "none" /\ Put(r, "pending")
  <2>1. /\ pub[p].row \in Rows /\ status[pub[p].row] # "none"
        /\ pub[p].at = "sent" => written[pub[p].row] > 0
    BY <1>5, AtWork DEF Mark, MarkFails, MarkUnanswered, IInv, Placed
  <2>2. \/ Still
        \/ pub[p].at = "sent" /\ Put(pub[p].row, "sent")
        \/ pub[p].at = "pending" /\ Put(pub[p].row, "pending")
    BY <1>5 DEF Mark, MarkFails, MarkUnanswered, SetStatus, Put, rowVars
  <2>3. QED
    BY <2>1, <2>2
<1>6. ASSUME NEW r \in Rows, RetryDelayPasses(r) \/ MinutePasses(r)
      PROVE  Still
  BY <1>6 DEF RetryDelayPasses, MinutePasses
<1>7. CASE UNCHANGED vars
  BY <1>7 DEF vars, rowVars
<1>8. QED
  BY <1>1, <1>2, <1>3, <1>4, <1>5, <1>6, <1>7 DEF Next, Publish, Fails

RecordedNow == {r \in Rows : status[r] # "none"}
AnnouncedNow == {r \in Rows : written[r] > 0}
ClosedNow == {r \in Rows : status[r] = "sent"}

LEMMA PromiseStep ==
  ASSUME IInv, [Next]_vars
  PROVE  [Promise!Next]_(Promise!vars)
<1>1. /\ status \in [Rows -> {"none", "pending", "processing", "sent"}]
      /\ written \in [Rows -> Nat]
      /\ \A r \in Rows : written[r] + 1 > 0
  BY Types DEF IInv
<1>2. CASE UNCHANGED <<status, written>>
  <2>1. UNCHANGED <<RecordedNow, AnnouncedNow, ClosedNow>>
    BY <1>2 DEF RecordedNow, AnnouncedNow, ClosedNow
  <2>2. QED
    BY <2>1 DEF Promise!vars, RecordedNow, AnnouncedNow, ClosedNow
<1>3. ASSUME NEW r \in Rows, status[r] = "none", Put(r, "pending") PROVE Promise!Next
  <2>1. /\ r \notin RecordedNow /\ RecordedNow' = RecordedNow \cup {r}
        /\ AnnouncedNow' = AnnouncedNow /\ ClosedNow' = ClosedNow
    BY <1>1, <1>3 DEF Put, RecordedNow, AnnouncedNow, ClosedNow
  <2>2. QED
    BY <2>1 DEF Promise!Next, Promise!Record, RecordedNow, AnnouncedNow, ClosedNow
<1>4. ASSUME NEW r \in Rows, status[r] # "none", WriteMessage(r), UNCHANGED status
      PROVE  Promise!Next
  <2>1. /\ r \in RecordedNow /\ AnnouncedNow' = AnnouncedNow \cup {r}
        /\ RecordedNow' = RecordedNow /\ ClosedNow' = ClosedNow
    BY <1>1, <1>4 DEF WriteMessage, RecordedNow, AnnouncedNow, ClosedNow
  <2>2. QED
    BY <2>1 DEF Promise!Next, Promise!Announce, RecordedNow, AnnouncedNow, ClosedNow
<1>5. ASSUME NEW r \in Rows, status[r] \in {"pending", "processing"}, Put(r, "processing")
      PROVE  UNCHANGED <<RecordedNow, AnnouncedNow, ClosedNow>>
  BY <1>1, <1>5 DEF Put, RecordedNow, AnnouncedNow, ClosedNow
<1>6. ASSUME NEW r \in Rows, status[r] # "none", written[r] > 0, Put(r, "sent")
      PROVE  Promise!Next
  <2>1. /\ r \in AnnouncedNow /\ ClosedNow' = ClosedNow \cup {r}
        /\ RecordedNow' = RecordedNow /\ AnnouncedNow' = AnnouncedNow
    BY <1>1, <1>6 DEF Put, RecordedNow, AnnouncedNow, ClosedNow
  <2>2. QED
    BY <2>1 DEF Promise!Next, Promise!Close, RecordedNow, AnnouncedNow, ClosedNow
<1>7. ASSUME NEW r \in Rows, status[r] # "none", Put(r, "pending")
      PROVE  Promise!Next
  <2>1. /\ ClosedNow' = ClosedNow \ {r}
        /\ RecordedNow' = RecordedNow /\ AnnouncedNow' = AnnouncedNow
    BY <1>1, <1>7 DEF Put, RecordedNow, AnnouncedNow, ClosedNow
  <2>2. QED
    BY <2>1 DEF Promise!Next, Promise!Reopen, RecordedNow, AnnouncedNow, ClosedNow
<1>8. ASSUME UNCHANGED <<RecordedNow, AnnouncedNow, ClosedNow>>
      PROVE  UNCHANGED Promise!vars
  BY <1>8 DEF Promise!vars, RecordedNow, AnnouncedNow, ClosedNow
<1>9. QED
  BY <1>2, <1>3, <1>4, <1>5, <1>6, <1>7, <1>8, RowSteps

\* Whatever fails, a row is announced only when it is recorded, and marked as sent only
\* when it has been announced, by one publisher or another (publishCounterDirtyOutbox):
\* the safety half of the refinement that the model checker checks with its fairness.
THEOREM TheOutboxKeepsItsPromise == Spec => Promise!SafeSpec
<1>1. Init => IInv
  BY InitIInv
<1>2. IInv /\ [Next]_vars => IInv'
  BY NextIInv
<1>3. Init => Promise!Init
  BY DEF Init, Promise!Init
<1>4. IInv /\ [Next]_vars => [Promise!Next]_(Promise!vars)
  BY PromiseStep
<1>5. QED
  BY <1>1, <1>2, <1>3, <1>4, PTL DEF Spec, Promise!SafeSpec
=============================================================================
