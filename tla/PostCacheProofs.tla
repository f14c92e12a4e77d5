--------------------------- MODULE PostCacheProofs ---------------------------
(***************************************************************************)
(* Proofs about PostCache, for any number of requests, edits, and writes:  *)
(* when the two keys of a post may be old, and that the count shown was    *)
(* true.                                                                   *)
(***************************************************************************)
EXTENDS PostCache, TLAPS

----------------------------------------------------------------------------
(* The inductive invariant.                                                *)

Size(d) == IF d < 0 THEN -d ELSE d

InProcessing == IF batch.at = "processing" THEN batch.d ELSE 0

\* Every delta was written once, and is in one of the three stores.
Numbers ==
  /\ stored \in Nat /\ pending \in Int /\ writes \in 0..MaxWrites
  /\ batch \in [at : {"none", "processing", "booked", "cleared"}, d : Deltas]
  /\ TrueCount >= 0
  /\ stored + Size(pending) + Size(InProcessing) <= OldCount + writes
  /\ Size(pending) + Size(InProcessing) <= writes

Cached ==
  /\ row \in Posts \cup {None}
  /\ core \in Posts \cup {Absent, Null}
  /\ stats \in Counts \cup {NoStats}
  /\ outdated \subseteq {"core", "stats"}
  /\ row = None => core = Absent /\ \A h \in Handlers : job[h] = Idle

Steps == {"idle", "core", "setPage", "setCore", "counter", "setNull", "setBoth", "stats", "setStats",
          "waits", "pending", "processing", "store", "done", "write", "delKeys"}
JobTypes == [op : Readers \cup Writers \cup {"idle"}, at : Steps, saw : Posts \cup {None},
             count : Nat, delta : Int, struct : Handlers \cup {Own}]

\* What a request carries to a SET.
Stage(h) ==
  /\ job[h].at \in {"setPage", "setCore", "setBoth"} => job[h].saw \in Posts
  /\ job[h].at \in {"setPage", "setCore"} => job[h].op = "list"
  /\ job[h].at = "counter" /\ job[h].op # "list" => job[h].saw \in Posts
  /\ job[h].at \in {"setBoth", "setStats"} => job[h].count \in Counts
  /\ job[h].at = "store" => job[h].delta \in Nat
  /\ job[h].at = "setNull" => row # None /\ row.life = "deleted"
  /\ job[h].at \in {"setBoth", "setNull"} => job[h].op # "list"

\* Those who are given a struct wait for its owner, and they land together.
InFlight == {"counter", "setBoth", "setNull"}
Landed == {"pending", "processing", "store", "done"}

Flights ==
  \A h \in Handlers : job[h].struct # Own =>
    LET g == job[h].struct IN
    /\ g \in Handlers /\ job[g].struct = Own /\ job[g].op # "list"
    /\ \/ job[h].at = "waits" /\ job[g].at \in InFlight
       \/ job[h].at \in Landed /\ job[g].at \in Landed

\* What the count will be, or is, is among the counts that were true.
Truth(h) ==
  /\ truths[h] \subseteq Counts
  /\ truths[h] # {} =>
       /\ TrueCount \in truths[h] /\ batch.at # "booked"
       /\ job[h].struct = Own /\ Given(h) = {} /\ job[h].at # "store"
       /\ job[h].at \in {"setBoth", "setStats", "pending", "processing"} => job[h].count = stored
       /\ job[h].at = "processing" => stored + job[h].delta + InProcessing \in truths[h]
       /\ job[h].at = "done" => job[h].count \in truths[h]

PostInv ==
  /\ Numbers /\ Cached
  /\ job \in [Handlers -> JobTypes] /\ truths = [h \in Handlers |-> truths[h]]
  /\ \A h \in Handlers : Stage(h) /\ Truth(h)
  /\ Flights
  /\ CoreStaleOnlyByRace /\ StatsStaleOnlyByRace

----------------------------------------------------------------------------
(* Values.                                                                 *)

LEMMA NoPost ==
  ASSUME NEW r \in Posts
  PROVE  r # None /\ r # Null /\ r # Absent
<1>1. DOMAIN r = {"life", "ver"}
  BY DEF Posts
<1>2. DOMAIN None = {"no"} /\ DOMAIN Null = {"no"} /\ DOMAIN Absent = {"no"}
  BY DEF None, Null, Absent
<1>3. QED
  BY <1>1, <1>2

LEMMA Marks == None # Null /\ None # Absent /\ Null # Absent
<1>1. None.no # Null.no /\ None.no # Absent.no /\ Null.no # Absent.no
  BY DEF None, Null, Absent
<1>2. QED
  BY <1>1

LEMMA IdleJob ==
  /\ Idle \in JobTypes /\ Idle.op = "idle" /\ Idle.at = "idle" /\ Idle.struct = Own
  /\ Idle.count = 0 /\ Idle.delta = 0 /\ Idle.saw = None
BY DEF Idle, JobTypes, Steps

----------------------------------------------------------------------------
(* The deltas.                                                             *)

LEMMA TrueCountIs == TrueCount = stored + pending + InProcessing
BY DEF TrueCount, InProcessing

LEMMA NumberTypes ==
  ASSUME Numbers
  PROVE  /\ stored \in Counts /\ pending \in Deltas /\ InProcessing \in Deltas /\ TrueCount \in Counts
         /\ stored \in Int /\ pending \in Int /\ InProcessing \in Int /\ writes \in 0..MaxWrites
<1>1. /\ stored \in Nat /\ pending \in Int /\ writes \in 0..MaxWrites /\ TrueCount >= 0
      /\ stored + Size(pending) + Size(InProcessing) <= OldCount + writes
      /\ Size(pending) + Size(InProcessing) <= writes
      /\ TrueCount = stored + pending + InProcessing
  BY TrueCountIs DEF Numbers
<1>2. InProcessing \in Int
  BY PostCacheAssumption DEF Numbers, InProcessing, Deltas
<1> DEFINE p == InProcessing
           t == TrueCount
<1>3. p \in Int /\ t = stored + pending + p /\ t >= 0
      /\ stored + Size(pending) + Size(p) <= OldCount + writes
      /\ Size(pending) + Size(p) <= writes
  BY <1>1, <1>2
<1> HIDE DEF p, t
<1>4. /\ stored \in Counts /\ pending \in Deltas /\ p \in Deltas /\ t \in Counts
  BY <1>1, <1>3, PostCacheAssumption DEF Size, Counts, Deltas
<1>5. QED
  BY <1>1, <1>2, <1>4 DEF p, t

\* What Numbers asks, of numbers.
Adds(s, p, b, w) ==
  /\ s + p + b >= 0
  /\ s + Size(p) + Size(b) <= OldCount + w
  /\ Size(p) + Size(b) <= w

LEMMA AnotherDelta ==
  ASSUME NEW s \in Nat, NEW p \in Int, NEW b \in Int, NEW w \in Nat, Adds(s, p, b, w),
         NEW d \in {-1, 1}, s + p + b + d >= 0
  PROVE  Adds(s, p + d, b, w + 1) /\ (b = 0 => Adds(AtLeastZero(s + d), p, 0, w + 1))
BY PostCacheAssumption DEF Adds, Size, AtLeastZero

LEMMA DeltasMove ==
  ASSUME NEW s \in Nat, NEW p \in Int, NEW b \in Int, NEW w \in Nat, Adds(s, p, b, w)
  PROVE  (b = 0 => Adds(s, 0, p, w)) /\ Adds(AtLeastZero(s + b), p, 0, w)
BY PostCacheAssumption DEF Adds, Size, AtLeastZero

LEMMA NumbersAdd ==
  Numbers <=>
    /\ stored \in Nat /\ pending \in Int /\ writes \in 0..MaxWrites
    /\ batch \in [at : {"none", "processing", "booked", "cleared"}, d : Deltas]
    /\ Adds(stored, pending, InProcessing, writes)
BY TrueCountIs DEF Numbers, Adds

LEMMA NumbersAddNext ==
  Numbers' <=>
    /\ stored' \in Nat /\ pending' \in Int /\ writes' \in 0..MaxWrites
    /\ batch' \in [at : {"none", "processing", "booked", "cleared"}, d : Deltas]
    /\ Adds(stored', pending', InProcessing', writes')
BY DEF Numbers, Adds, TrueCount, InProcessing

CountIsRight == TrueCount \in Counts

LEMMA CountOfNumbers == Numbers => CountIsRight
BY NumberTypes DEF CountIsRight

LEMMA CountIsRightNext == Numbers' => CountIsRight'
BY CountOfNumbers, PTL

\* Nothing is known of the counts that were true.
LEMMA TruthGone ==
  ASSUME NEW h \in Handlers, truths'[h] = {}
  PROVE  Truth(h)'
BY DEF Truth

\* The requests stay where they are, and so does what was stored.
LEMMA TruthKept ==
  ASSUME NEW h \in Handlers, Truth(h), UNCHANGED <<job, stored>>,
         job[h].at = "processing" => InProcessing' = InProcessing,
         truths[h] \subseteq truths'[h], truths'[h] \subseteq Counts, truths[h] # {},
         TrueCount' \in truths'[h], batch'.at # "booked"
  PROVE  Truth(h)'
<1>1. Given(h)' = Given(h)
  BY DEF Given
<1>2. QED
  BY <1>1 DEF Truth

\* A delta is written or moves: no request and no post does, and the stats key goes at most.
Moved ==
  /\ UNCHANGED <<row, core, job>>
  /\ ("core" \in outdated => "core" \in outdated') /\ outdated' \subseteq {"core", "stats"}
  /\ stats' \in {stats, NoStats}
  /\ Numbers' /\ StatsStaleOnlyByRace'
  /\ truths' = [k \in Handlers |-> truths'[k]] /\ \A h \in Handlers : Truth(h)'

LEMMA MovedInv ==
  ASSUME PostInv, Moved
  PROVE  PostInv'
<1>1. Cached'
  BY DEF PostInv, Moved, Cached
<1>2. \A h \in Handlers : Stage(h)'
  BY DEF PostInv, Moved, Stage
<1>3. Flights'
  BY DEF PostInv, Moved, Flights
<1>4. CoreStaleOnlyByRace'
  BY DEF PostInv, Moved, CoreStaleOnlyByRace
<1>5. QED
  BY <1>1, <1>2, <1>3, <1>4 DEF PostInv, Moved

LEMMA RecordDeltaStep ==
  ASSUME PostInv, NEW d \in {-1, 1}, RecordDelta(d)
  PROVE  PostInv'
<1>1. /\ UNCHANGED <<row, stored, batch, core, stats, outdated, job>>
      /\ writes < MaxWrites /\ TrueCount + d >= 0 /\ pending' = pending + d /\ writes' = writes + 1
      /\ truths' = [h \in Handlers |->
           IF truths[h] = {} THEN {} ELSE truths[h] \cup {TrueCount + d}]
  BY DEF RecordDelta, dbVars, cacheVars
<1>2. Numbers
  BY DEF PostInv
<1>3. InProcessing' = InProcessing
  BY <1>1 DEF InProcessing
<1>4. Numbers'
  <2>1. Adds(stored, pending + d, InProcessing, writes + 1)
    <3>1. stored \in Nat /\ pending \in Int /\ InProcessing \in Int /\ writes \in Nat
          /\ Adds(stored, pending, InProcessing, writes)
      BY <1>2, NumberTypes, NumbersAdd, PostCacheAssumption
    <3>2. stored + pending + InProcessing + d >= 0
      BY <1>1, TrueCountIs
    <3>3. QED
      BY <3>1, <3>2, AnotherDelta
  <2>2. pending + d \in Int /\ writes + 1 \in 0..MaxWrites
    BY <1>1, <1>2, PostCacheAssumption DEF Numbers
  <2>3. QED
    BY <1>1, <1>2, <1>3, <2>1, <2>2, NumbersAdd, NumbersAddNext
<1>5. TrueCount' = TrueCount + d /\ TrueCount' \in Counts
  <2>1. TrueCount' \in Counts
    BY <1>4, CountIsRightNext DEF CountIsRight
  <2>2. TrueCount' = stored' + pending' + InProcessing'
    BY DEF TrueCount, InProcessing
  <2>3. TrueCount = stored + pending + InProcessing /\ stored \in Int /\ pending \in Int
        /\ InProcessing \in Int
    BY <1>2, NumberTypes, TrueCountIs
  <2>4. QED
    BY <1>1, <1>3, <2>1, <2>2, <2>3
<1>6. ASSUME NEW h \in Handlers PROVE Truth(h)'
  <2>1. CASE truths[h] = {}
    BY <1>1, <2>1, TruthGone
  <2>2. CASE truths[h] # {}
    <3>1. Truth(h)
      BY DEF PostInv
    <3>2. truths'[h] = truths[h] \cup {TrueCount'} /\ truths[h] \subseteq Counts /\ batch.at # "booked"
      BY <1>1, <1>5, <2>2, <3>1 DEF Truth
    <3>3. QED
      BY <1>1, <1>3, <1>5, <2>2, <3>1, <3>2, TruthKept
  <2>3. QED
    BY <2>1, <2>2
<1>7. StatsStaleOnlyByRace'
  BY <1>1 DEF PostInv, StatsStaleOnlyByRace
<1>8. Moved
  BY <1>1, <1>4, <1>6, <1>7 DEF Moved, PostInv, Cached
<1>9. QED
  BY <1>8, MovedInv

\* A batch is booked, or a delta written directly: no count is known to have been true.
LEMMA PostDirectlyStep ==
  ASSUME PostInv, NEW d \in {-1, 1}, PostDirectly(d)
  PROVE  PostInv'
<1>1. /\ UNCHANGED <<row, pending, core, stats, outdated, job>> /\ batch = NoBatch
      /\ writes < MaxWrites /\ TrueCount + d >= 0 /\ stored' = AtLeastZero(stored + d)
      /\ writes' = writes + 1 /\ batch' = [at |-> "cleared", d |-> 0]
      /\ truths' = [h \in Handlers |-> {}]
  BY DEF PostDirectly, cacheVars, Blur
<1>2. Numbers
  BY DEF PostInv
<1>3. InProcessing = 0 /\ InProcessing' = 0
  BY <1>1 DEF InProcessing, NoBatch
<1>4. /\ stored \in Nat /\ pending \in Int /\ writes \in Nat
      /\ Adds(stored, pending, 0, writes) /\ stored + pending + 0 + d >= 0
  BY <1>1, <1>2, <1>3, NumberTypes, NumbersAdd, TrueCountIs, PostCacheAssumption
<1>5. Numbers'
  <2>1. Adds(AtLeastZero(stored + d), pending, 0, writes + 1)
    BY <1>4, AnotherDelta
  <2>2. AtLeastZero(stored + d) \in Nat /\ writes + 1 \in 0..MaxWrites
    BY <1>1, <1>2, <1>4, PostCacheAssumption DEF Numbers, AtLeastZero
  <2>3. batch' \in [at : {"none", "processing", "booked", "cleared"}, d : Deltas]
    BY <1>1, PostCacheAssumption DEF Deltas
  <2>4. QED
    BY <1>1, <1>3, <1>4, <2>1, <2>2, <2>3, NumbersAddNext
<1>6. \A h \in Handlers : Truth(h)'
  BY <1>1, TruthGone
<1>7. StatsStaleOnlyByRace'
  BY <1>1 DEF StatsStaleOnlyByRace
<1>8. Moved
  BY <1>1, <1>5, <1>6, <1>7 DEF Moved, PostInv, Cached
<1>9. QED
  BY <1>8, MovedInv

LEMMA BookBatchStep ==
  ASSUME PostInv, BookBatch
  PROVE  PostInv'
<1>1. /\ UNCHANGED <<row, pending, writes, core, stats, outdated, job>>
      /\ batch.at = "processing" /\ stored' = AtLeastZero(stored + batch.d)
      /\ batch' = [batch EXCEPT !.at = "booked"]
      /\ truths' = [h \in Handlers |-> {}]
  BY DEF BookBatch, cacheVars, Blur
<1>2. Numbers
  BY DEF PostInv
<1>3. /\ batch' \in [at : {"none", "processing", "booked", "cleared"}, d : Deltas]
      /\ batch'.at = "booked"
  BY <1>1, <1>2 DEF Numbers
<1>4. InProcessing = batch.d /\ InProcessing' = 0
  BY <1>1, <1>3 DEF InProcessing
<1>5. /\ stored \in Nat /\ pending \in Int /\ writes \in Nat /\ batch.d \in Int
      /\ Adds(stored, pending, batch.d, writes)
  BY <1>2, <1>4, NumberTypes, NumbersAdd, PostCacheAssumption
<1>6. Numbers'
  <2>1. Adds(AtLeastZero(stored + batch.d), pending, 0, writes)
    BY <1>5, DeltasMove
  <2>2. AtLeastZero(stored + batch.d) \in Nat
    BY <1>5 DEF AtLeastZero
  <2>3. QED
    BY <1>1, <1>2, <1>3, <1>4, <1>5, <2>1, <2>2, NumbersAddNext DEF Numbers
<1>7. \A h \in Handlers : Truth(h)'
  BY <1>1, TruthGone
<1>8. StatsStaleOnlyByRace'
  BY <1>3 DEF StatsStaleOnlyByRace
<1>9. Moved
  BY <1>1, <1>6, <1>7, <1>8 DEF Moved, PostInv, Cached
<1>10. QED
  BY <1>9, MovedInv

\* The claim moves the whole of pending: a reader of one of the two hashes loses track.
LEMMA ClaimDeltaStep ==
  ASSUME PostInv, ClaimDelta
  PROVE  PostInv'
<1>1. /\ UNCHANGED <<row, stored, writes, core, stats, outdated, job>> /\ batch = NoBatch
      /\ pending' = 0 /\ batch' = [at |-> "processing", d |-> pending]
      /\ truths' = [h \in Handlers |-> IF job[h].at = "processing" THEN {} ELSE truths[h]]
  BY DEF ClaimDelta, dbVars, cacheVars, Blur
<1>2. Numbers
  BY DEF PostInv
<1>3. InProcessing = 0 /\ InProcessing' = pending
  BY <1>1 DEF InProcessing, NoBatch
<1>4. /\ stored \in Nat /\ pending \in Int /\ pending \in Deltas /\ writes \in Nat
      /\ Adds(stored, pending, 0, writes)
  BY <1>2, <1>3, NumberTypes, NumbersAdd, PostCacheAssumption
<1>5. Numbers'
  <2>1. Adds(stored, 0, pending, writes)
    BY <1>4, DeltasMove
  <2>2. QED
    BY <1>1, <1>2, <1>3, <1>4, <2>1, NumbersAddNext DEF Numbers
<1>6. TrueCount' = TrueCount
  <2>1. TrueCount' = stored' + pending' + InProcessing'
    BY DEF TrueCount, InProcessing
  <2>2. QED
    BY <1>1, <1>3, <1>4, <2>1, TrueCountIs
<1>7. ASSUME NEW h \in Handlers PROVE Truth(h)'
  <2>1. CASE truths'[h] = {}
    BY <2>1, TruthGone
  <2>2. CASE truths'[h] # {}
    <3>1. Truth(h) /\ truths'[h] = truths[h] /\ job[h].at # "processing" /\ batch'.at # "booked"
      BY <1>1, <2>2 DEF PostInv
    <3>2. QED
      BY <1>1, <1>6, <2>2, <3>1, TruthKept DEF Truth
  <2>3. QED
    BY <2>1, <2>2
<1>8. StatsStaleOnlyByRace'
  BY <1>1 DEF PostInv, StatsStaleOnlyByRace, NoBatch
<1>9. Moved
  BY <1>1, <1>5, <1>7, <1>8 DEF Moved, PostInv, Cached
<1>10. QED
  BY <1>9, MovedInv

\* A booked batch is cleared, and then the stats key deleted, or not.
LEMMA ClearSteps ==
  ASSUME PostInv, ClearBatch \/ DelStatsAfterClear \/ DelStatsFails
  PROVE  PostInv'
<1>1. /\ UNCHANGED <<row, stored, pending, writes, core, job, truths>>
      /\ batch.at \in {"booked", "cleared"}
      /\ \/ batch.at = "booked" /\ batch' = [batch EXCEPT !.at = "cleared"] /\ UNCHANGED <<stats, outdated>>
         \/ /\ batch.at = "cleared" /\ batch' = NoBatch
            /\ \/ stats' = NoStats /\ outdated' = outdated \ {"stats"}
               \/ /\ UNCHANGED stats
                  /\ outdated' = IF stats # NoStats THEN outdated \cup {"stats"} ELSE outdated \ {"stats"}
  BY DEF ClearBatch, DelStatsAfterClear, DelStatsFails, dbVars, cacheVars, Mark
<1>2. Numbers
  BY DEF PostInv
<1>3. /\ batch' \in [at : {"none", "processing", "booked", "cleared"}, d : Deltas]
      /\ batch'.at \in {"none", "cleared"}
      /\ batch.at = "booked" => batch'.at = "cleared"
  <2>1. NoBatch \in [at : {"none", "processing", "booked", "cleared"}, d : Deltas]
    BY PostCacheAssumption DEF NoBatch, Deltas
  <2>2. NoBatch.at = "none"
    BY DEF NoBatch
  <2>3. batch \in [at : {"none", "processing", "booked", "cleared"}, d : Deltas]
    BY <1>2 DEF Numbers
  <2>4. QED
    BY <1>1, <2>1, <2>2, <2>3
<1>4. InProcessing = 0 /\ InProcessing' = 0
  BY <1>1, <1>3 DEF InProcessing
<1>5. Numbers' /\ TrueCount' = TrueCount
  <2>1. TrueCount' = stored' + pending' + InProcessing'
    BY DEF TrueCount, InProcessing
  <2>2. QED
    BY <1>1, <1>2, <1>3, <1>4, <2>1, TrueCountIs, NumbersAdd, NumbersAddNext
<1>6. ASSUME NEW h \in Handlers PROVE Truth(h)'
  <2>1. CASE truths'[h] = {}
    BY <2>1, TruthGone
  <2>2. CASE truths'[h] # {}
    <3>1. Truth(h) /\ truths'[h] = truths[h]
      BY <1>1 DEF PostInv
    <3>2. QED
      BY <1>1, <1>3, <1>4, <1>5, <2>2, <3>1, TruthKept DEF Truth
  <2>3. QED
    BY <2>1, <2>2
<1>7. StatsStaleOnlyByRace'
  BY <1>1, <1>3 DEF StatsStaleOnlyByRace
<1>8. Moved
  <2>1. outdated' \subseteq {"core", "stats"} /\ ("core" \in outdated => "core" \in outdated')
    BY <1>1 DEF PostInv, Cached
  <2>2. QED
    BY <1>1, <1>5, <1>6, <1>7, <2>1 DEF Moved, PostInv
<1>9. QED
  BY <1>8, MovedInv

----------------------------------------------------------------------------
(* Jobs.                                                                   *)

OthersStay(h) == \A g \in Handlers \ {h} : job'[g] = job[g]

\* The request h goes on with its operation.
Becomes(h, at, saw, count, delta, struct) ==
  /\ job' \in [Handlers -> JobTypes] /\ OthersStay(h)
  /\ job'[h].op = job[h].op /\ job'[h].at = at /\ job'[h].saw = saw
  /\ job'[h].count = count /\ job'[h].delta = delta /\ job'[h].struct = struct

LEMMA NewJob ==
  ASSUME job \in [Handlers -> JobTypes], NEW h \in Handlers, NEW j \in JobTypes,
         j.op = job[h].op, job' = [job EXCEPT ![h] = j]
  PROVE  Becomes(h, j.at, j.saw, j.count, j.delta, j.struct)
BY DEF Becomes, OthersStay

LEMMA JobGoesTo ==
  ASSUME job \in [Handlers -> JobTypes], NEW h \in Handlers, NEW step \in Steps, GoTo(h, step)
  PROVE  Becomes(h, step, job[h].saw, job[h].count, job[h].delta, job[h].struct)
<1> DEFINE j == [job[h] EXCEPT !.at = step]
<1>1. job' = [job EXCEPT ![h] = j]
  BY DEF GoTo
<1>2. j \in JobTypes /\ j.op = job[h].op /\ j.at = step /\ j.saw = job[h].saw
      /\ j.count = job[h].count /\ j.delta = job[h].delta /\ j.struct = job[h].struct
  BY DEF JobTypes
<1> HIDE DEF j
<1>3. QED
  BY <1>1, <1>2, NewJob

LEMMA JobSees ==
  ASSUME job \in [Handlers -> JobTypes], NEW h \in Handlers, NEW step \in Steps,
         NEW saw \in Posts \cup {None}, job' = [job EXCEPT ![h].at = step, ![h].saw = saw]
  PROVE  Becomes(h, step, saw, job[h].count, job[h].delta, job[h].struct)
<1> DEFINE j == [[job[h] EXCEPT !.at = step] EXCEPT !.saw = saw]
<1>1. job' = [job EXCEPT ![h] = j]
  OBVIOUS
<1>2. j \in JobTypes /\ j.op = job[h].op /\ j.at = step /\ j.saw = saw
      /\ j.count = job[h].count /\ j.delta = job[h].delta /\ j.struct = job[h].struct
  BY DEF JobTypes
<1> HIDE DEF j
<1>3. QED
  BY <1>1, <1>2, NewJob

LEMMA JobCounts ==
  ASSUME job \in [Handlers -> JobTypes], NEW h \in Handlers, NEW step \in Steps,
         NEW count \in Nat, job' = [job EXCEPT ![h].at = step, ![h].count = count]
  PROVE  Becomes(h, step, job[h].saw, count, job[h].delta, job[h].struct)
<1> DEFINE j == [[job[h] EXCEPT !.at = step] EXCEPT !.count = count]
<1>1. job' = [job EXCEPT ![h] = j]
  OBVIOUS
<1>2. j \in JobTypes /\ j.op = job[h].op /\ j.at = step /\ j.saw = job[h].saw
      /\ j.count = count /\ j.delta = job[h].delta /\ j.struct = job[h].struct
  BY DEF JobTypes
<1> HIDE DEF j
<1>3. QED
  BY <1>1, <1>2, NewJob

LEMMA JobReads ==
  ASSUME job \in [Handlers -> JobTypes], NEW h \in Handlers, NEW step \in Steps,
         NEW delta \in Int, NEW saw \in Posts \cup {None},
         job' = [job EXCEPT ![h].at = step, ![h].delta = delta, ![h].saw = saw]
  PROVE  Becomes(h, step, saw, job[h].count, delta, job[h].struct)
<1> DEFINE i == [[job[h] EXCEPT !.at = step] EXCEPT !.delta = delta]
           j == [i EXCEPT !.saw = saw]
<1>1. job' = [job EXCEPT ![h] = j]
  OBVIOUS
<1>2. i \in JobTypes /\ i.op = job[h].op /\ i.at = step
      /\ i.count = job[h].count /\ i.delta = delta /\ i.struct = job[h].struct
  BY DEF JobTypes
<1> HIDE DEF i
<1>3. j \in JobTypes /\ j.op = i.op /\ j.at = i.at /\ j.saw = saw
      /\ j.count = i.count /\ j.delta = i.delta /\ j.struct = i.struct
  BY <1>2 DEF JobTypes
<1> HIDE DEF j
<1>4. j \in JobTypes /\ j.op = job[h].op
  BY <1>2, <1>3
<1>5. Becomes(h, j.at, j.saw, j.count, j.delta, j.struct)
  BY <1>1, <1>4, NewJob
<1>6. QED
  BY <1>2, <1>3, <1>5

\* The request is over, or begins.
Restarts(h, op, at) ==
  /\ job' \in [Handlers -> JobTypes] /\ OthersStay(h)
  /\ job'[h].op = op /\ job'[h].at = at /\ job'[h].saw = None
  /\ job'[h].count = 0 /\ job'[h].delta = 0 /\ job'[h].struct = Own

LEMMA JobEnds ==
  ASSUME job \in [Handlers -> JobTypes], NEW h \in Handlers, job' = [job EXCEPT ![h] = Idle]
  PROVE  Restarts(h, "idle", "idle")
<1>1. job' \in [Handlers -> JobTypes] /\ job'[h] = Idle /\ OthersStay(h)
  BY IdleJob DEF OthersStay
<1>2. QED
  BY <1>1, IdleJob DEF Restarts

LEMMA JobBegins ==
  ASSUME job \in [Handlers -> JobTypes], NEW h \in Handlers, NEW op \in Readers \cup Writers,
         NEW step \in Steps, job' = [job EXCEPT ![h] = [Idle EXCEPT !.op = op, !.at = step]]
  PROVE  Restarts(h, op, step)
<1> DEFINE i == [Idle EXCEPT !.op = op]
           j == [i EXCEPT !.at = step]
<1>1. i \in JobTypes /\ i.op = op /\ i.saw = None /\ i.count = 0 /\ i.delta = 0 /\ i.struct = Own
  BY IdleJob DEF JobTypes
<1>2. job' = [job EXCEPT ![h] = j]
  OBVIOUS
<1> HIDE DEF i
<1>3. /\ j \in JobTypes /\ j.op = op /\ j.at = step /\ j.saw = None /\ j.count = 0 /\ j.delta = 0
      /\ j.struct = Own
  BY <1>1 DEF JobTypes
<1> HIDE DEF j
<1>4. QED
  BY <1>2, <1>3 DEF Restarts, OthersStay

----------------------------------------------------------------------------
(* A step of one request.                                                  *)

\* Whoever has not met another has a struct of his own, that nobody else holds.
LEMMA Alone ==
  ASSUME PostInv, NEW h \in Handlers
  PROVE  /\ job[h].at \notin Landed \cup {"waits"} => job[h].struct = Own
         /\ job[h].at \notin Landed \cup InFlight => Given(h) = {}
         /\ job[h].op = "list" => Given(h) = {}
<1>1. Flights
  BY DEF PostInv
<1>2. ASSUME NEW g \in Given(h)
      PROVE  job[h].at \in Landed \cup InFlight /\ job[h].op # "list"
  <2>1. g \in Handlers /\ job[g].struct = h /\ h # Own
    BY PostCacheAssumption DEF Given
  <2>2. QED
    BY <1>1, <2>1 DEF Flights
<1>3. job[h].at \notin Landed \cup {"waits"} => job[h].struct = Own
  BY <1>1 DEF Flights
<1>4. QED
  BY <1>2, <1>3

LEMMA RowIsThere ==
  ASSUME PostInv, NEW h \in Handlers, job[h].at # "idle"
  PROVE  row \in Posts /\ row # None
<1>1. job[h] # Idle
  BY IdleJob
<1>2. QED
  BY <1>1, NoPost DEF PostInv, Cached

\* h keeps to its flight, or is in none.
KeepsFlight(h) ==
  \/ job'[h].struct = Own /\ Given(h) = {}
  \/ /\ job'[h].struct = job[h].struct /\ job'[h].op = job[h].op
     /\ \/ job[h].at \in Landed /\ job'[h].at \in Landed
        \/ job[h].at \in InFlight /\ job'[h].at \in InFlight

LEMMA OneFlight ==
  ASSUME Flights, NEW h \in Handlers, OthersStay(h), KeepsFlight(h)
  PROVE  Flights'
<1> SUFFICES ASSUME NEW g \in Handlers, job'[g].struct # Own
             PROVE  LET f == job'[g].struct IN
                    /\ f \in Handlers /\ job'[f].struct = Own /\ job'[f].op # "list"
                    /\ \/ job'[g].at = "waits" /\ job'[f].at \in InFlight
                       \/ job'[g].at \in Landed /\ job'[f].at \in Landed
  BY DEF Flights
<1>1. CASE g = h
  <2>1. /\ job'[h].struct = job[h].struct /\ job[h].struct # Own
        /\ \/ job[h].at \in Landed /\ job'[h].at \in Landed
           \/ job[h].at \in InFlight /\ job'[h].at \in InFlight
    BY <1>1 DEF KeepsFlight
  <2>2. LET f == job[h].struct IN
        /\ f \in Handlers /\ job[f].struct = Own /\ job[f].op # "list"
        /\ \/ job[h].at = "waits" /\ job[f].at \in InFlight
           \/ job[h].at \in Landed /\ job[f].at \in Landed
    BY <2>1 DEF Flights
  <2>3. job[h].struct # h
    BY <2>1, <2>2
  <2>4. job'[job[h].struct] = job[job[h].struct]
    BY <2>2, <2>3 DEF OthersStay
  <2>5. job[h].at # "waits"
    BY <2>1 DEF Landed, InFlight
  <2>6. job[h].at \in Landed /\ job'[h].at \in Landed
    BY <2>1, <2>2, <2>5 DEF Landed, InFlight
  <2>7. QED
    BY <1>1, <2>1, <2>2, <2>4, <2>5, <2>6
<1>2. CASE g # h
  <2>1. job'[g] = job[g]
    BY <1>2 DEF OthersStay
  <2> DEFINE f == job[g].struct
  <2>2. /\ f \in Handlers /\ job[f].struct = Own /\ job[f].op # "list"
        /\ \/ job[g].at = "waits" /\ job[f].at \in InFlight
           \/ job[g].at \in Landed /\ job[f].at \in Landed
    BY <2>1 DEF Flights
  <2>3. CASE f = h
    <3>1. g \in Given(h)
      BY <2>3 DEF Given
    <3>2. /\ job'[h].struct = job[h].struct /\ job'[h].op = job[h].op
          /\ \/ job[h].at \in Landed /\ job'[h].at \in Landed
             \/ job[h].at \in InFlight /\ job'[h].at \in InFlight
      BY <3>1 DEF KeepsFlight
    <3>3. Landed \cap InFlight = {}
      BY DEF Landed, InFlight
    <3>4. QED
      BY <2>1, <2>2, <2>3, <3>2, <3>3
  <2>4. CASE f # h
    BY <2>1, <2>2, <2>4 DEF OthersStay
  <2>5. QED
    BY <2>3, <2>4
<1>3. QED
  BY <1>1, <1>2

\* A deleted post stays deleted.
LEMMA OtherStages ==
  ASSUME \A g \in Handlers : Stage(g), NEW h \in Handlers, OthersStay(h), Stage(h)',
         row' = row \/ (row' # None /\ (row # None /\ row.life = "deleted" => row'.life = "deleted"))
  PROVE  \A g \in Handlers : Stage(g)'
<1>1. SUFFICES ASSUME NEW g \in Handlers, g # h PROVE Stage(g)'
  OBVIOUS
<1>2. Stage(g) /\ job'[g] = job[g]
  BY <1>1 DEF OthersStay
<1>3. QED
  BY <1>2 DEF Stage

LEMMA OtherTruths ==
  ASSUME \A g \in Handlers : Truth(g), NEW h \in Handlers, OthersStay(h), Truth(h)',
         job'[h].struct \in {job[h].struct, Own}, UNCHANGED <<stored, pending, batch>>,
         \A g \in Handlers \ {h} : truths'[g] = truths[g]
  PROVE  \A g \in Handlers : Truth(g)'
<1>1. SUFFICES ASSUME NEW g \in Handlers, g # h PROVE Truth(g)'
  OBVIOUS
<1>2. Truth(g) /\ job'[g] = job[g] /\ truths'[g] = truths[g]
  BY <1>1 DEF OthersStay
<1>3. Given(g)' \subseteq Given(g)
  BY PostCacheAssumption DEF OthersStay, Given
<1>4. TrueCount' = TrueCount /\ InProcessing' = InProcessing
  BY DEF TrueCount, InProcessing
<1>5. QED
  BY <1>2, <1>3, <1>4 DEF Truth

\* h goes on knowing what it knew.
LEMMA OwnTruth ==
  ASSUME NEW h \in Handlers, Truth(h), OthersStay(h), UNCHANGED <<stored, pending, batch>>,
         truths'[h] = truths[h], job'[h].struct = job[h].struct,
         truths[h] # {} /\ job[h].struct = Own /\ Given(h) = {} =>
           /\ job'[h].at # "store"
           /\ job'[h].at \in {"setBoth", "setStats", "pending", "processing"} => job'[h].count = stored
           /\ job'[h].at = "processing" => stored + job'[h].delta + InProcessing \in truths[h]
           /\ job'[h].at = "done" => job'[h].count \in truths[h]
  PROVE  Truth(h)'
<1>1. Given(h)' = Given(h)
  BY DEF OthersStay, Given
<1>2. TrueCount' = TrueCount /\ InProcessing' = InProcessing
  BY DEF TrueCount, InProcessing
<1>3. QED
  BY <1>1, <1>2 DEF Truth

\* What h does to the caches: at most what h's step says of them.
CachesKept ==
  /\ core' \in Posts \cup {Absent, Null} /\ stats' \in Counts \cup {NoStats}
  /\ outdated' \subseteq {"core", "stats"}
  /\ CoreStaleOnlyByRace' /\ StatsStaleOnlyByRace'

LEMMA CachesUntouched ==
  ASSUME PostInv, NEW h \in Handlers, OthersStay(h), job[h].at # "delKeys",
         UNCHANGED <<row, stored, batch, core, stats, outdated>>
  PROVE  CachesKept
<1>1. ASSUME NEW g \in Handlers, job[g].at = "delKeys" PROVE job'[g].at = "delKeys"
  BY <1>1 DEF OthersStay
<1>2. CoreStaleOnlyByRace'
  BY <1>1 DEF PostInv, CoreStaleOnlyByRace
<1>3. StatsStaleOnlyByRace'
  BY DEF PostInv, StatsStaleOnlyByRace
<1>4. QED
  BY <1>2, <1>3 DEF PostInv, Cached, CachesKept

\* A step of h alone.
LEMMA OwnStep ==
  ASSUME PostInv, NEW h \in Handlers, job' \in [Handlers -> JobTypes], OthersStay(h), KeepsFlight(h),
         UNCHANGED <<stored, pending, batch, writes>>, row' \in Posts, row # None,
         row' = row \/ (row.life = "deleted" => row'.life = "deleted"),
         CachesKept, Stage(h)', Truth(h)', job'[h].struct \in {job[h].struct, Own},
         truths' = [k \in Handlers |-> truths'[k]], \A g \in Handlers \ {h} : truths'[g] = truths[g]
  PROVE  PostInv'
<1>1. Numbers'
  BY DEF PostInv, Numbers, TrueCount, InProcessing
<1>2. row' # None
  BY NoPost
<1>3. Cached'
  BY <1>2 DEF CachesKept, Cached
<1>4. (\A g \in Handlers : Stage(g)') /\ (\A g \in Handlers : Truth(g)') /\ Flights'
  BY <1>2, OtherStages, OtherTruths, OneFlight DEF PostInv
<1>5. QED
  BY <1>1, <1>3, <1>4 DEF PostInv, CachesKept

LEMMA QuietStep ==
  ASSUME PostInv, NEW h \in Handlers, job' \in [Handlers -> JobTypes], OthersStay(h), KeepsFlight(h),
         UNCHANGED <<dbVars, deltaVars, cacheVars>>, row # None, job[h].at # "delKeys",
         Stage(h)', Truth(h)', job'[h].struct \in {job[h].struct, Own},
         truths' = [k \in Handlers |-> truths'[k]], \A g \in Handlers \ {h} : truths'[g] = truths[g]
  PROVE  PostInv'
<1>1. UNCHANGED <<row, stored, pending, batch, writes, core, stats, outdated>>
  BY DEF dbVars, deltaVars, cacheVars
<1>2. CachesKept
  BY <1>1, CachesUntouched
<1>3. row' \in Posts
  BY <1>1 DEF PostInv, Cached
<1>4. QED
  BY <1>1, <1>2, <1>3, OwnStep

LEMMA BeginStep ==
  ASSUME PostInv, NEW h \in Handlers, NEW op \in Readers, Begin(h, op)
  PROVE  PostInv'
<1>1. /\ row # None /\ job[h] = Idle /\ UNCHANGED <<dbVars, deltaVars, cacheVars>>
      /\ job' = [job EXCEPT ![h] = [Idle EXCEPT !.op = op, !.at = "core"]]
      /\ truths' = [truths EXCEPT ![h] = IF batch.at = "booked" THEN {} ELSE {TrueCount}]
  BY DEF Begin
<1>2. Restarts(h, op, "core")
  BY <1>1, JobBegins DEF PostInv, Steps
<1>3. Given(h) = {} /\ job[h].at = "idle"
  BY <1>1, IdleJob, Alone DEF Landed, InFlight
<1>4. KeepsFlight(h) /\ Stage(h)'
  BY <1>2, <1>3 DEF Restarts, KeepsFlight, Stage
<1>5. Given(h)' = {}
  BY <1>2, <1>3, PostCacheAssumption DEF Restarts, OthersStay, Given
<1>6. TrueCount' = TrueCount /\ TrueCount \in Counts /\ batch' = batch
  BY <1>1, NumberTypes DEF PostInv, TrueCount, dbVars, deltaVars
<1>7. truths'[h] = IF batch.at = "booked" THEN {} ELSE {TrueCount}
  BY <1>1 DEF PostInv
<1>8. Truth(h)'
  BY <1>2, <1>5, <1>6, <1>7 DEF Truth, Restarts
<1>9. QED
  BY <1>1, <1>2, <1>3, <1>4, <1>8, QuietStep DEF Restarts, PostInv

\* The request is over; whoever holds its struct would not let it.
LEMMA EndStep ==
  ASSUME PostInv, NEW h \in Handlers, UNCHANGED <<dbVars, deltaVars, cacheVars>>,
         job[h].at # "idle", job[h].at # "delKeys", Done(h)
  PROVE  PostInv'
<1>1. Given(h) = {} /\ job' = [job EXCEPT ![h] = Idle] /\ truths' = [truths EXCEPT ![h] = {}]
  BY DEF Done
<1>2. Restarts(h, "idle", "idle")
  BY <1>1, JobEnds DEF PostInv
<1>3. KeepsFlight(h) /\ Stage(h)'
  BY <1>1, <1>2 DEF Restarts, KeepsFlight, Stage
<1>4. Truth(h)'
  BY <1>1, TruthGone DEF PostInv
<1>5. row # None
  BY RowIsThere
<1>6. QED
  BY <1>1, <1>2, <1>3, <1>4, <1>5, QuietStep DEF Restarts, PostInv

LEMMA BeginWriteStep ==
  ASSUME PostInv, NEW h \in Handlers, NEW op \in Writers, BeginWrite(h, op)
  PROVE  PostInv'
<1>1. /\ job[h].at = "done" /\ Given(h) = {} /\ UNCHANGED <<dbVars, deltaVars, cacheVars>>
      /\ job' = [job EXCEPT ![h] = [Idle EXCEPT !.op = op, !.at = "write"]]
      /\ truths' = [truths EXCEPT ![h] = {}]
  BY DEF BeginWrite
<1>2. Restarts(h, op, "write")
  BY <1>1, JobBegins DEF PostInv, Steps
<1>3. KeepsFlight(h) /\ Stage(h)'
  BY <1>1, <1>2 DEF Restarts, KeepsFlight, Stage
<1>4. Truth(h)'
  BY <1>1, TruthGone DEF PostInv
<1>5. row # None
  BY <1>1, RowIsThere
<1>6. QED
  BY <1>1, <1>2, <1>3, <1>4, <1>5, QuietStep DEF Restarts, PostInv

\* A request that is in no flight, or alone in its own, reads on.
LEMMA ReadStep ==
  ASSUME PostInv, NEW h \in Handlers, UNCHANGED <<dbVars, deltaVars, cacheVars, truths>>,
         job[h].at \notin {"idle", "delKeys", "waits"} \cup Landed,
         job[h].at \notin InFlight \/ job[h].op = "list",
         job' \in [Handlers -> JobTypes], OthersStay(h),
         job'[h].op = job[h].op, job'[h].struct = job[h].struct,
         job'[h].at \notin {"store", "processing", "done"},
         \/ job'[h].at \notin {"setBoth", "setStats", "pending"}
         \/ job'[h].count = stored \/ truths[h] = {},
         Stage(h)'
  PROVE  PostInv'
<1>1. job[h].struct = Own /\ Given(h) = {} /\ row # None
  BY Alone, RowIsThere
<1>2. KeepsFlight(h)
  BY <1>1 DEF KeepsFlight
<1>3. Truth(h)'
  BY OwnTruth DEF PostInv, dbVars, deltaVars
<1>4. QED
  BY <1>1, <1>2, <1>3, QuietStep DEF PostInv

LEMMA SelectPageStep ==
  ASSUME PostInv, NEW h \in Handlers, SelectPage(h)
  PROVE  PostInv'
<1>1. /\ job[h].op = "list" /\ job[h].at = "core" /\ UNCHANGED <<dbVars, deltaVars, cacheVars, truths>>
      /\ job' = [job EXCEPT ![h].at = "setPage", ![h].saw = row]
  BY DEF SelectPage
<1>2. row \in Posts
  BY <1>1, RowIsThere
<1>3. Becomes(h, "setPage", row, job[h].count, job[h].delta, job[h].struct)
  BY <1>1, <1>2, JobSees DEF PostInv, Steps
<1>4. Stage(h)'
  BY <1>1, <1>2, <1>3 DEF Stage, Becomes
<1>5. QED
  BY <1>1, <1>3, <1>4, ReadStep DEF Becomes, Landed, InFlight

LEMMA CoreHitStep ==
  ASSUME PostInv, NEW h \in Handlers, CoreHit(h)
  PROVE  PostInv'
<1> DEFINE step == IF job[h].op = "list" THEN "counter" ELSE "stats"
           saw == Kept(job[h].op, core)
<1>1. /\ job[h].at = "core" /\ core \in Posts /\ UNCHANGED <<dbVars, deltaVars, cacheVars, truths>>
      /\ job' = [job EXCEPT ![h].at = step, ![h].saw = saw]
  BY DEF CoreHit
<1>2. saw \in Posts \cup {None} /\ step \in {"counter", "stats"} /\ (step = "counter" => job[h].op = "list")
  BY <1>1 DEF Kept
<1> HIDE DEF saw, step
<1>3. Becomes(h, step, saw, job[h].count, job[h].delta, job[h].struct)
  BY <1>1, <1>2, JobSees DEF PostInv, Steps
<1>4. Stage(h)'
  BY <1>2, <1>3 DEF Stage, Becomes
<1>5. QED
  BY <1>1, <1>2, <1>3, <1>4, ReadStep DEF Becomes, Landed, InFlight

\* A post that is there but not found is deleted.
LEMMA SelectPostStep ==
  ASSUME PostInv, NEW h \in Handlers, SelectPost(h)
  PROVE  PostInv'
<1>1. job[h].at = "core" /\ UNCHANGED <<dbVars, deltaVars, cacheVars>>
  BY DEF SelectPost
<1>2. row \in Posts /\ row # None
  BY <1>1, RowIsThere
<1>3. CASE QueryPost(job[h].op)
  <2> DEFINE step == IF job[h].op = "list" THEN "setCore" ELSE "counter"
  <2>1. UNCHANGED truths /\ job' = [job EXCEPT ![h].at = step, ![h].saw = row]
    BY <1>3 DEF SelectPost
  <2>2. step \in {"setCore", "counter"} /\ (step = "setCore" => job[h].op = "list")
    OBVIOUS
  <2> HIDE DEF step
  <2>3. Becomes(h, step, row, job[h].count, job[h].delta, job[h].struct)
    BY <1>2, <2>1, <2>2, JobSees DEF PostInv, Steps
  <2>4. Stage(h)'
    BY <1>2, <2>2, <2>3 DEF Stage, Becomes
  <2>5. QED
    BY <1>1, <2>1, <2>2, <2>3, <2>4, ReadStep DEF Becomes, Landed, InFlight
<1>4. CASE ~QueryPost(job[h].op) /\ job[h].op = "list"
  BY <1>1, <1>4, EndStep DEF SelectPost
<1>5. CASE ~QueryPost(job[h].op) /\ job[h].op # "list"
  <2>1. UNCHANGED truths /\ GoTo(h, "setNull")
    BY <1>5 DEF SelectPost
  <2>2. row.life = "deleted"
    BY <1>2, <1>5 DEF QueryPost, Posts
  <2>3. Becomes(h, "setNull", job[h].saw, job[h].count, job[h].delta, job[h].struct)
    BY <2>1, JobGoesTo DEF PostInv, Steps
  <2>4. Stage(h)'
    BY <1>1, <1>2, <1>5, <2>2, <2>3 DEF Stage, Becomes, dbVars
  <2>5. QED
    BY <1>1, <2>1, <2>3, <2>4, ReadStep DEF Becomes, Landed, InFlight
<1>6. QED
  BY <1>3, <1>4, <1>5

LEMMA SelectCounterStep ==
  ASSUME PostInv, NEW h \in Handlers, SelectCounter(h)
  PROVE  PostInv'
<1> DEFINE step == IF job[h].op = "list" THEN "pending" ELSE "setBoth"
<1>1. /\ job[h].at = "counter" /\ UNCHANGED <<dbVars, deltaVars, cacheVars, truths>>
      /\ job' = [job EXCEPT ![h].at = step, ![h].count = stored]
  BY DEF SelectCounter
<1>2. stored \in Counts /\ stored \in Nat /\ row # None
  BY <1>1, NumberTypes, RowIsThere DEF PostInv, Numbers
<1>3. step \in Steps /\ step \in {"pending", "setBoth"} /\ (step = "pending" <=> job[h].op = "list")
  BY DEF Steps
<1> HIDE DEF step
<1>4. Becomes(h, step, job[h].saw, stored, job[h].delta, job[h].struct)
  BY <1>1, <1>2, <1>3, JobCounts DEF PostInv
<1>5. Stage(h)
  BY DEF PostInv
<1>6. Stage(h)'
  BY <1>1, <1>2, <1>3, <1>4, <1>5 DEF Stage, Becomes
<1>7. CASE job[h].op = "list"
  BY <1>1, <1>3, <1>4, <1>6, <1>7, ReadStep DEF Becomes, Landed
<1>8. CASE job[h].op # "list"
  <2>1. KeepsFlight(h)
    BY <1>1, <1>3, <1>4, <1>8 DEF KeepsFlight, Becomes, InFlight
  <2>2. Truth(h)'
    BY <1>1, <1>3, <1>4, OwnTruth DEF PostInv, Becomes, dbVars, deltaVars
  <2>3. QED
    BY <1>1, <1>2, <1>4, <1>6, <2>1, <2>2, QuietStep DEF Becomes, PostInv
<1>9. QED
  BY <1>7, <1>8

LEMMA SelectStatsStep ==
  ASSUME PostInv, NEW h \in Handlers, SelectStats(h)
  PROVE  PostInv'
<1>1. /\ job[h].at = "stats" /\ UNCHANGED <<dbVars, deltaVars, cacheVars, truths>>
      /\ job' = [job EXCEPT ![h].at = "setStats", ![h].count = stored]
  BY DEF SelectStats
<1>2. stored \in Counts /\ stored \in Nat
  BY NumberTypes DEF PostInv, Numbers
<1>3. Becomes(h, "setStats", job[h].saw, stored, job[h].delta, job[h].struct)
  BY <1>1, <1>2, JobCounts DEF PostInv, Steps
<1>4. Stage(h)'
  BY <1>2, <1>3 DEF Stage, Becomes
<1>5. QED
  BY <1>1, <1>3, <1>4, ReadStep DEF Becomes, Landed, InFlight

\* An old stats key says nothing of the counts that were true.
LEMMA StatsHitStep ==
  ASSUME PostInv, NEW h \in Handlers, StatsHit(h)
  PROVE  PostInv'
<1>1. /\ job[h].at = "stats" /\ stats # NoStats /\ UNCHANGED <<dbVars, deltaVars, cacheVars>>
      /\ job' = [job EXCEPT ![h].at = "pending", ![h].count = stats]
      /\ truths' = [g \in Handlers |-> IF g = h /\ stats # stored THEN {} ELSE truths[g]]
  BY DEF StatsHit, Blur
<1>2. stats \in Counts /\ stats \in Nat
  BY <1>1 DEF PostInv, Cached, Counts
<1>3. Becomes(h, "pending", job[h].saw, stats, job[h].delta, job[h].struct)
  BY <1>1, <1>2, JobCounts DEF PostInv, Steps
<1>4. Stage(h)'
  BY <1>3 DEF Stage, Becomes
<1>5. job[h].struct = Own /\ Given(h) = {} /\ row # None
  BY <1>1, Alone, RowIsThere DEF Landed, InFlight
<1>6. KeepsFlight(h)
  BY <1>3, <1>5 DEF KeepsFlight, Becomes
<1>7. Truth(h)'
  <2>1. CASE stats # stored
    BY <1>1, <2>1, TruthGone
  <2>2. CASE stats = stored
    <3>1. truths'[h] = truths[h]
      BY <1>1, <2>2
    <3>2. QED
      BY <1>1, <1>3, <2>2, <3>1, OwnTruth DEF PostInv, Becomes, dbVars, deltaVars
  <2>3. QED
    BY <2>1, <2>2
<1>8. QED
  BY <1>1, <1>3, <1>4, <1>5, <1>6, <1>7, QuietStep DEF Becomes

----------------------------------------------------------------------------
(* The SETs of one request.                                                *)

LEMMA CoreIsSet ==
  ASSUME PostInv, UNCHANGED <<row, stored, batch, stats>>, core' \in Posts \cup {Absent, Null},
         outdated' \in {outdated \cup {"core"}, outdated \ {"core"}},
         \/ core' = row \/ core' = Absent \/ "core" \in outdated'
         \/ core' = Null /\ row.life = "deleted"
  PROVE  CachesKept
<1>1. CoreStaleOnlyByRace'
  BY DEF CoreStaleOnlyByRace
<1>2. StatsStaleOnlyByRace'
  BY DEF PostInv, StatsStaleOnlyByRace
<1>3. outdated' \subseteq {"core", "stats"} /\ stats' \in Counts \cup {NoStats}
  BY DEF PostInv, Cached
<1>4. QED
  BY <1>1, <1>2, <1>3 DEF CachesKept

\* What was selected for a page is SET, or not, and the list goes on.
Leaves(h) == LeavePage(h) \/ LeaveCore(h)

LEMMA ListGoesOn ==
  ASSUME PostInv, NEW h \in Handlers, Leaves(h), UNCHANGED <<row, stored, pending, batch, writes, truths>>
  PROVE  /\ job' \in [Handlers -> JobTypes] /\ OthersStay(h) /\ KeepsFlight(h) /\ Stage(h)' /\ Truth(h)'
         /\ job'[h].struct = job[h].struct /\ row \in Posts /\ row # None
         /\ job[h].saw \in Posts /\ job[h].at # "delKeys"
<1>1. job[h].at \in {"setPage", "setCore"} /\ Stage(h)
  BY DEF Leaves, LeavePage, LeaveCore, PostInv
<1>2. /\ job[h].op = "list" /\ job[h].saw \in Posts /\ job[h].struct = Own /\ Given(h) = {}
      /\ row \in Posts /\ row # None
  BY <1>1, Alone, RowIsThere DEF Stage, Landed, InFlight
<1>3. \E step \in {"core", "counter"}, saw \in Posts \cup {None} :
        Becomes(h, step, saw, job[h].count, job[h].delta, job[h].struct)
  <2>1. CASE LeavePage(h)
    <3>1. Becomes(h, "core", job[h].saw, job[h].count, job[h].delta, job[h].struct)
      BY <2>1, JobGoesTo DEF PostInv, Steps, LeavePage
    <3>2. QED
      BY <1>2, <3>1
  <2>2. CASE LeaveCore(h)
    <3>1. Becomes(h, "counter", None, job[h].count, job[h].delta, job[h].struct)
      BY <2>2, JobSees DEF PostInv, Steps, LeaveCore
    <3>2. QED
      BY <3>1
  <2>3. QED
    BY <2>1, <2>2 DEF Leaves
<1>4. /\ job' \in [Handlers -> JobTypes] /\ OthersStay(h) /\ job'[h].at \in {"core", "counter"}
      /\ job'[h].op = job[h].op /\ job'[h].struct = job[h].struct
  BY <1>3 DEF Becomes
<1>5. KeepsFlight(h) /\ Stage(h)'
  BY <1>2, <1>4 DEF KeepsFlight, Stage
<1>6. Truth(h)'
  BY <1>4, OwnTruth DEF PostInv
<1>7. QED
  BY <1>1, <1>2, <1>4, <1>5, <1>6

LEMMA SetCoreSteps ==
  ASSUME PostInv, NEW h \in Handlers, SetPage(h) \/ SetCore(h)
  PROVE  PostInv'
<1>1. /\ Leaves(h) /\ core' = job[h].saw /\ UNCHANGED <<row, stored, pending, batch, writes, stats, truths>>
      /\ outdated' = IF job[h].saw # row THEN outdated \cup {"core"} ELSE outdated \ {"core"}
  BY DEF SetPage, SetCore, SetCoreOf, Leaves, Mark, dbVars, deltaVars
<1>2. /\ job' \in [Handlers -> JobTypes] /\ OthersStay(h) /\ KeepsFlight(h) /\ Stage(h)' /\ Truth(h)'
      /\ job'[h].struct = job[h].struct /\ row \in Posts /\ row # None /\ job[h].saw \in Posts
  BY <1>1, ListGoesOn
<1>3. CachesKept
  BY <1>1, <1>2, CoreIsSet
<1>4. QED
  BY <1>1, <1>2, <1>3, OwnStep DEF PostInv

LEMMA SetStatsStep ==
  ASSUME PostInv, NEW h \in Handlers, SetStats(h)
  PROVE  PostInv'
<1>1. /\ job[h].at = "setStats" /\ GoTo(h, "pending") /\ stats' = job[h].count
      /\ UNCHANGED <<row, stored, pending, batch, writes, core, truths>>
      /\ outdated' = IF job[h].count # stored THEN outdated \cup {"stats"} ELSE outdated \ {"stats"}
  BY DEF SetStats, Mark, dbVars, deltaVars
<1>2. /\ job[h].count \in Counts /\ job[h].struct = Own /\ Given(h) = {} /\ row \in Posts /\ row # None
  BY <1>1, Alone, RowIsThere DEF PostInv, Stage, Landed, InFlight
<1>3. Becomes(h, "pending", job[h].saw, job[h].count, job[h].delta, job[h].struct)
  BY <1>1, JobGoesTo DEF PostInv, Steps
<1>4. KeepsFlight(h) /\ Stage(h)'
  BY <1>2, <1>3 DEF KeepsFlight, Stage, Becomes
<1>5. Truth(h)'
  BY <1>1, <1>3, OwnTruth DEF PostInv, Becomes, Truth
<1>6. CoreStaleOnlyByRace'
  BY <1>1, <1>3 DEF PostInv, CoreStaleOnlyByRace, Becomes, OthersStay
<1>7. CachesKept
  BY <1>1, <1>2, <1>6 DEF PostInv, Cached, CachesKept, StatsStaleOnlyByRace
<1>8. QED
  BY <1>1, <1>2, <1>3, <1>4, <1>5, <1>7, OwnStep DEF Becomes, PostInv

LEMMA SetStatsFails ==
  ASSUME PostInv, NEW h \in Handlers, UNCHANGED <<dbVars, deltaVars, cacheVars, truths>>,
         job[h].at = "setStats", GoTo(h, "pending")
  PROVE  PostInv'
<1>1. Becomes(h, "pending", job[h].saw, job[h].count, job[h].delta, job[h].struct)
  BY JobGoesTo DEF PostInv, Steps
<1>2. Stage(h)'
  BY <1>1 DEF Stage, Becomes
<1>3. job[h].count = stored \/ truths[h] = {}
  BY DEF PostInv, Truth
<1>4. QED
  BY <1>1, <1>2, <1>3, ReadStep DEF Becomes, Landed, InFlight

LEMMA SetCoreFails ==
  ASSUME PostInv, NEW h \in Handlers, UNCHANGED <<dbVars, deltaVars, cacheVars, truths>>, Leaves(h)
  PROVE  PostInv'
<1>1. UNCHANGED <<row, stored, pending, batch, writes>>
  BY DEF dbVars, deltaVars
<1>2. /\ job' \in [Handlers -> JobTypes] /\ OthersStay(h) /\ KeepsFlight(h) /\ Stage(h)' /\ Truth(h)'
      /\ job'[h].struct = job[h].struct /\ row # None /\ job[h].at # "delKeys"
  BY <1>1, ListGoesOn
<1>3. QED
  BY <1>2, QuietStep DEF PostInv

----------------------------------------------------------------------------
(* The deltas are read, and the count is stored.                           *)

\* A delta is read as it is, or taken for none and what was true forgotten.
LEMMA PendingStep ==
  ASSUME PostInv, NEW h \in Handlers, NEW n \in Int, HasPending(h, n),
         UNCHANGED <<dbVars, deltaVars, cacheVars>>,
         \/ truths' = truths /\ n = pending
         \/ truths' = [g \in Handlers |-> IF g \in {h} THEN {} ELSE truths[g]]
  PROVE  PostInv'
<1>1. /\ job[h].at = "pending"
      /\ job' = [job EXCEPT ![h].at = "processing", ![h].delta = n, ![h].saw = None]
  BY DEF HasPending
<1>2. Becomes(h, "processing", None, job[h].count, n, job[h].struct)
  BY <1>1, JobReads DEF PostInv, Steps
<1>3. KeepsFlight(h) /\ Stage(h)'
  BY <1>1, <1>2 DEF KeepsFlight, Stage, Becomes, Landed
<1>4. row # None
  BY <1>1, RowIsThere
<1>5. Truth(h)'
  <2>1. CASE truths' = truths /\ n = pending
    <3>1. Truth(h)
      BY DEF PostInv
    <3>2. truths[h] # {} => job[h].count = stored /\ stored + n + InProcessing \in truths[h]
      BY <1>1, <2>1, <3>1, TrueCountIs DEF Truth
    <3>3. QED
      BY <1>2, <2>1, <3>1, <3>2, OwnTruth DEF Becomes, dbVars, deltaVars
  <2>2. CASE truths' = [g \in Handlers |-> IF g \in {h} THEN {} ELSE truths[g]]
    BY <2>2, TruthGone
  <2>3. QED
    BY <2>1, <2>2
<1>6. truths' = [k \in Handlers |-> truths'[k]] /\ \A g \in Handlers \ {h} : truths'[g] = truths[g]
  BY DEF PostInv
<1>7. QED
  BY <1>1, <1>2, <1>3, <1>4, <1>5, <1>6, QuietStep DEF Becomes

LEMMA CountIsNat ==
  ASSUME job \in [Handlers -> JobTypes], NEW h \in Handlers
  PROVE  Count(h) \in Nat
BY DEF Count, JobTypes

LEMMA JobSums ==
  ASSUME job \in [Handlers -> JobTypes], NEW h \in Handlers, NEW n \in Int, HasProcessing(h, n)
  PROVE  LET sum == AtLeastZero(Count(h) + job[h].delta + n) IN
         /\ sum \in Nat
         /\ IsShared(h) => Becomes(h, "store", job[h].saw, job[h].count, sum, job[h].struct)
         /\ ~IsShared(h) => Becomes(h, "done", job[h].saw, sum, 0, job[h].struct)
<1> DEFINE sum == AtLeastZero(Count(h) + job[h].delta + n)
<1>1. sum \in Nat
  BY CountIsNat DEF AtLeastZero, JobTypes
<1>2. job' = [job EXCEPT ![h] =
        IF IsShared(h)
          THEN [job[h] EXCEPT !.at = "store", !.delta = sum]
          ELSE [job[h] EXCEPT !.at = "done", !.delta = 0, !.count = sum]]
  BY DEF HasProcessing
<1> HIDE DEF sum
<1> DEFINE i == [job[h] EXCEPT !.at = "store"]
           j == [i EXCEPT !.delta = sum]
           d == [job[h] EXCEPT !.at = "done"]
           k == [d EXCEPT !.delta = 0]
           l == [k EXCEPT !.count = sum]
<1>4. job' = [job EXCEPT ![h] = IF IsShared(h) THEN j ELSE l]
  BY <1>2
<1>3. /\ i \in JobTypes /\ i.op = job[h].op /\ i.at = "store" /\ i.saw = job[h].saw
      /\ i.count = job[h].count /\ i.struct = job[h].struct
  BY DEF JobTypes, Steps
<1>9. d \in JobTypes /\ d.op = job[h].op /\ d.at = "done" /\ d.saw = job[h].saw /\ d.struct = job[h].struct
  BY DEF JobTypes, Steps
<1> HIDE DEF d
<1>10. /\ k \in JobTypes /\ k.op = job[h].op /\ k.at = "done" /\ k.saw = job[h].saw
       /\ k.delta = 0 /\ k.struct = job[h].struct
  BY <1>9 DEF JobTypes
<1> HIDE DEF i, k
<1>5. /\ j \in JobTypes /\ j.op = job[h].op /\ j.at = "store" /\ j.saw = job[h].saw
      /\ j.count = job[h].count /\ j.delta = sum /\ j.struct = job[h].struct
  BY <1>1, <1>3 DEF JobTypes
<1>6. /\ l \in JobTypes /\ l.op = job[h].op /\ l.at = "done" /\ l.saw = job[h].saw
      /\ l.count = sum /\ l.delta = 0 /\ l.struct = job[h].struct
  BY <1>1, <1>10 DEF JobTypes
<1> HIDE DEF j, l
<1>7. ASSUME IsShared(h) PROVE Becomes(h, "store", job[h].saw, job[h].count, sum, job[h].struct)
  <2>1. job' = [job EXCEPT ![h] = j]
    BY <1>4, <1>7
  <2>2. Becomes(h, j.at, j.saw, j.count, j.delta, j.struct)
    BY <1>5, <2>1, NewJob
  <2>3. QED
    BY <1>5, <2>2
<1>8. ASSUME ~IsShared(h) PROVE Becomes(h, "done", job[h].saw, sum, 0, job[h].struct)
  <2>1. job' = [job EXCEPT ![h] = l]
    BY <1>4, <1>8
  <2>2. Becomes(h, l.at, l.saw, l.count, l.delta, l.struct)
    BY <1>6, <2>1, NewJob
  <2>3. QED
    BY <1>6, <2>2
<1>11. QED
  BY <1>1, <1>7, <1>8 DEF sum

LEMMA ProcessingStep ==
  ASSUME PostInv, NEW h \in Handlers, NEW n \in Int, HasProcessing(h, n),
         UNCHANGED <<dbVars, deltaVars, cacheVars>>,
         \/ truths' = truths /\ n = ProcessingSum
         \/ truths' = [g \in Handlers |-> IF g \in {h} THEN {} ELSE truths[g]]
  PROVE  PostInv'
<1> DEFINE sum == AtLeastZero(Count(h) + job[h].delta + n)
<1>1. job[h].at = "processing"
  BY DEF HasProcessing
<1>2. /\ sum \in Nat
      /\ IsShared(h) => Becomes(h, "store", job[h].saw, job[h].count, sum, job[h].struct)
      /\ ~IsShared(h) => Becomes(h, "done", job[h].saw, sum, 0, job[h].struct)
  BY JobSums DEF PostInv
<1>3. Truth(h) /\ truths[h] # {} => sum \in truths[h] \/ n # ProcessingSum
  <2>1. SUFFICES ASSUME Truth(h), truths[h] # {}, n = ProcessingSum PROVE sum \in truths[h]
    OBVIOUS
  <2>2. /\ job[h].struct = Own /\ job[h].count = stored /\ batch.at # "booked"
        /\ stored + job[h].delta + InProcessing \in truths[h] /\ truths[h] \subseteq Counts
    BY <1>1, <2>1 DEF Truth
  <2>3. ProcessingSum = InProcessing /\ Count(h) = stored
    BY <2>2 DEF ProcessingSum, InProcessing, Count
  <2>4. stored + job[h].delta + InProcessing \in Nat
    BY <2>2, PostCacheAssumption DEF Counts
  <2>5. sum = stored + job[h].delta + InProcessing
    BY <2>1, <2>3, <2>4 DEF AtLeastZero
  <2>6. QED
    BY <2>2, <2>5
<1> HIDE DEF sum
<1>4. /\ job' \in [Handlers -> JobTypes] /\ OthersStay(h) /\ job'[h].op = job[h].op
      /\ job'[h].struct = job[h].struct /\ job'[h].at \in {"store", "done"}
      /\ IsShared(h) => job'[h].at = "store" /\ job'[h].delta \in Nat
      /\ ~IsShared(h) => job'[h].at = "done" /\ job'[h].count = sum
  BY <1>2 DEF Becomes
<1>5. KeepsFlight(h) /\ Stage(h)'
  BY <1>1, <1>4 DEF KeepsFlight, Stage, Landed
<1>6. row # None
  BY <1>1, RowIsThere
<1>7. Truth(h)'
  <2>1. CASE truths' = truths /\ n = ProcessingSum
    <3>1. Truth(h)
      BY DEF PostInv
    <3>2. job[h].struct = Own /\ Given(h) = {} => ~IsShared(h)
      BY DEF IsShared
    <3>3. QED
      BY <1>3, <1>4, <2>1, <3>1, <3>2, OwnTruth DEF dbVars, deltaVars
  <2>2. CASE truths' = [g \in Handlers |-> IF g \in {h} THEN {} ELSE truths[g]]
    BY <2>2, TruthGone
  <2>3. QED
    BY <2>1, <2>2
<1>8. truths' = [k \in Handlers |-> truths'[k]] /\ \A g \in Handlers \ {h} : truths'[g] = truths[g]
  BY DEF PostInv
<1>9. QED
  BY <1>1, <1>4, <1>5, <1>6, <1>7, <1>8, QuietStep

LEMMA DeltaSteps ==
  ASSUME PostInv, NEW h \in Handlers, ReadPending(h) \/ ReadProcessing(h) \/ DeltaUnread(h)
  PROVE  PostInv'
<1>1. pending \in Int /\ ProcessingSum \in Int
  BY PostCacheAssumption DEF PostInv, Numbers, ProcessingSum, Deltas
<1>2. CASE ReadPending(h)
  BY <1>1, <1>2, PendingStep DEF ReadPending
<1>3. CASE ReadProcessing(h)
  BY <1>1, <1>3, ProcessingStep DEF ReadProcessing
<1>4. CASE DeltaUnread(h)
  BY <1>4, PendingStep, ProcessingStep DEF DeltaUnread, Blur
<1>5. QED
  BY <1>2, <1>3, <1>4

----------------------------------------------------------------------------
(* Steps of the requests of a flight.                                      *)

LEMMA FlightStep ==
  ASSUME PostInv, UNCHANGED <<row, stored, pending, batch, writes>>, row # None,
         job' \in [Handlers -> JobTypes], Flights', CachesKept, truths' = [k \in Handlers |-> truths'[k]],
         \A k \in Handlers : Stage(k)' /\ Truth(k)'
  PROVE  PostInv'
<1>1. Numbers'
  BY DEF PostInv, Numbers, TrueCount, InProcessing
<1>2. Cached'
  BY DEF PostInv, CachesKept, Cached
<1>3. QED
  BY <1>1, <1>2 DEF PostInv, CachesKept

LEMMA JobJoins ==
  ASSUME job \in [Handlers -> JobTypes], NEW h \in Handlers, NEW g \in Handlers,
         job' = [job EXCEPT ![h].at = "waits", ![h].struct = g]
  PROVE  Becomes(h, "waits", job[h].saw, job[h].count, job[h].delta, g)
<1> DEFINE i == [job[h] EXCEPT !.at = "waits"]
           j == [i EXCEPT !.struct = g]
<1>1. job' = [job EXCEPT ![h] = j]
  OBVIOUS
<1>2. i \in JobTypes /\ i.op = job[h].op /\ i.at = "waits" /\ i.saw = job[h].saw
      /\ i.count = job[h].count /\ i.delta = job[h].delta
  BY DEF JobTypes, Steps
<1> HIDE DEF i
<1>3. j \in JobTypes /\ j.op = i.op /\ j.at = i.at /\ j.saw = i.saw
      /\ j.count = i.count /\ j.delta = i.delta /\ j.struct = g
  BY <1>2 DEF JobTypes
<1> HIDE DEF j
<1>4. Becomes(h, j.at, j.saw, j.count, j.delta, j.struct)
  BY <1>1, <1>2, <1>3, NewJob
<1>5. QED
  BY <1>2, <1>3, <1>4

LEMMA JoinStep ==
  ASSUME PostInv, NEW h \in Handlers, NEW g \in Handlers, Join(h, g)
  PROVE  PostInv'
<1>1. /\ job[h].at = "core" /\ job[h].op # "list" /\ job[g].op = job[h].op /\ job[g].struct = Own
      /\ job[g].at \in InFlight /\ UNCHANGED <<row, stored, pending, batch, writes, core, stats, outdated>>
      /\ job' = [job EXCEPT ![h].at = "waits", ![h].struct = g]
      /\ truths' = [k \in Handlers |-> IF k \in {h, g} THEN {} ELSE truths[k]]
  BY DEF Join, InFlight, Blur, dbVars, deltaVars, cacheVars
<1>2. Becomes(h, "waits", job[h].saw, job[h].count, job[h].delta, g)
  BY <1>1, JobJoins DEF PostInv
<1>3. job[h].struct = Own /\ Given(h) = {} /\ row # None /\ h # g
  BY <1>1, Alone, RowIsThere DEF Landed, InFlight
<1>4. Flights'
  <2> SUFFICES ASSUME NEW k \in Handlers, job'[k].struct # Own
               PROVE  LET f == job'[k].struct IN
                      /\ f \in Handlers /\ job'[f].struct = Own /\ job'[f].op # "list"
                      /\ \/ job'[k].at = "waits" /\ job'[f].at \in InFlight
                         \/ job'[k].at \in Landed /\ job'[f].at \in Landed
    BY DEF Flights
  <2>1. CASE k = h
    BY <1>1, <1>2, <1>3, <2>1 DEF Becomes, OthersStay
  <2>2. CASE k # h
    <3>1. job'[k] = job[k]
      BY <1>2, <2>2 DEF Becomes, OthersStay
    <3> DEFINE f == job[k].struct
    <3>2. /\ f \in Handlers /\ job[f].struct = Own /\ job[f].op # "list"
          /\ \/ job[k].at = "waits" /\ job[f].at \in InFlight
             \/ job[k].at \in Landed /\ job[f].at \in Landed
      BY <3>1 DEF PostInv, Flights
    <3>3. f # h
      BY <1>3 DEF Given
    <3>4. job'[f] = job[f]
      BY <1>2, <3>2, <3>3 DEF Becomes, OthersStay
    <3>5. QED
      BY <3>1, <3>2, <3>4
  <2>3. QED
    BY <2>1, <2>2
<1>5. ASSUME NEW k \in Handlers PROVE Stage(k)' /\ Truth(k)'
  <2>1. CASE k \in {h, g}
    <3>1. Truth(k)'
      BY <1>1, <2>1, TruthGone
    <3>2. Stage(k)'
      BY <1>1, <1>2, <1>3, <2>1 DEF PostInv, Stage, Becomes, OthersStay
    <3>3. QED
      BY <3>1, <3>2
  <2>2. CASE k \notin {h, g}
    <3>1. Stage(k) /\ Truth(k) /\ job'[k] = job[k] /\ truths'[k] = truths[k]
      BY <1>1, <1>2, <2>2 DEF PostInv, Becomes, OthersStay
    <3>2. Given(k)' \subseteq Given(k)
      BY <1>2, <2>2 DEF Given, Becomes, OthersStay
    <3>3. TrueCount' = TrueCount /\ InProcessing' = InProcessing
      BY <1>1 DEF TrueCount, InProcessing
    <3>4. QED
      BY <1>1, <3>1, <3>2, <3>3 DEF Stage, Truth
  <2>3. QED
    BY <2>1, <2>2
<1>6. CachesKept
  BY <1>1, <1>2, CachesUntouched DEF Becomes
<1>7. QED
  BY <1>1, <1>2, <1>3, <1>4, <1>5, <1>6, FlightStep DEF Becomes

\* The struct of the sum is h's, or the one h was given; nobody's step changes but h's.
LEMMA JobStores ==
  ASSUME PostInv, NEW h \in Handlers, StoreCount(h)
  PROVE  LET g == IF job[h].struct = Own THEN h ELSE job[h].struct IN
         /\ job[h].at = "store" /\ g \in Handlers /\ job[g].at \in Landed
         /\ g # h => h \in Given(g)
         /\ job' \in [Handlers -> JobTypes] /\ job'[h].at = "done"
         /\ \A k \in Handlers : job'[k].op = job[k].op /\ job'[k].struct = job[k].struct
         /\ \A k \in Handlers \ {h} : job'[k].at = job[k].at /\ job'[k].delta = job[k].delta
         /\ \A k \in Handlers \ {h, g} : job'[k] = job[k]
<1> DEFINE g == IF job[h].struct = Own THEN h ELSE job[h].struct
<1>1. job[h].at = "store" /\ job \in [Handlers -> JobTypes] /\ job[h].delta \in Nat
  BY DEF PostInv, Stage, StoreCount
<1>2. g \in Handlers /\ job[g].at \in Landed /\ (g # h => h \in Given(g))
  BY <1>1 DEF PostInv, Flights, Landed, Given
<1>3. job' = [job EXCEPT ![g].count = job[h].delta, ![h].at = "done", ![h].delta = 0]
  BY DEF StoreCount
<1> HIDE DEF g
<1> DEFINE a == [job[g] EXCEPT !.count = job[h].delta]
           b == [job EXCEPT ![g] = a]
           c == [b[h] EXCEPT !.at = "done"]
           d == [c EXCEPT !.delta = 0]
<1>4. job' = [b EXCEPT ![h] = d]
  BY <1>3
<1>5. /\ a \in JobTypes /\ a.op = job[g].op /\ a.at = job[g].at /\ a.delta = job[g].delta
      /\ a.struct = job[g].struct
  BY <1>1, <1>2 DEF JobTypes
<1> HIDE DEF a
<1>6. /\ b \in [Handlers -> JobTypes] /\ \A k \in Handlers \ {g} : b[k] = job[k]
      /\ \A k \in Handlers : /\ b[k].op = job[k].op /\ b[k].at = job[k].at
                             /\ b[k].delta = job[k].delta /\ b[k].struct = job[k].struct
  BY <1>1, <1>2, <1>5
<1> HIDE DEF b
<1>7. c \in JobTypes /\ c.op = b[h].op /\ c.at = "done" /\ c.struct = b[h].struct
  BY <1>6 DEF JobTypes, Steps
<1> HIDE DEF c
<1>8. d \in JobTypes /\ d.op = c.op /\ d.at = "done" /\ d.struct = c.struct
  BY <1>7 DEF JobTypes
<1> HIDE DEF d
<1>9. /\ job' \in [Handlers -> JobTypes] /\ job'[h].at = "done"
      /\ \A k \in Handlers : job'[k].op = job[k].op /\ job'[k].struct = job[k].struct
      /\ \A k \in Handlers \ {h} : job'[k].at = job[k].at /\ job'[k].delta = job[k].delta
      /\ \A k \in Handlers \ {h, g} : job'[k] = job[k]
  BY <1>4, <1>6, <1>7, <1>8
<1>10. QED
  BY <1>1, <1>2, <1>9 DEF g

LEMMA StoreCountStep ==
  ASSUME PostInv, NEW h \in Handlers, StoreCount(h)
  PROVE  PostInv'
<1>1. UNCHANGED <<row, stored, pending, batch, writes, core, stats, outdated, truths>>
  BY DEF StoreCount, dbVars, deltaVars, cacheVars
<1> DEFINE g == IF job[h].struct = Own THEN h ELSE job[h].struct
<1>2. /\ job[h].at = "store" /\ g \in Handlers /\ job[g].at \in Landed
      /\ g # h => h \in Given(g)
      /\ job' \in [Handlers -> JobTypes] /\ job'[h].at = "done"
      /\ \A k \in Handlers : job'[k].op = job[k].op /\ job'[k].struct = job[k].struct
      /\ \A k \in Handlers \ {h} : job'[k].at = job[k].at /\ job'[k].delta = job[k].delta
      /\ \A k \in Handlers \ {h, g} : job'[k] = job[k]
  BY JobStores
<1> HIDE DEF g
<1>3. Flights'
  <2> SUFFICES ASSUME NEW k \in Handlers, job'[k].struct # Own
               PROVE  LET f == job'[k].struct IN
                      /\ f \in Handlers /\ job'[f].struct = Own /\ job'[f].op # "list"
                      /\ \/ job'[k].at = "waits" /\ job'[f].at \in InFlight
                         \/ job'[k].at \in Landed /\ job'[f].at \in Landed
    BY DEF Flights
  <2> DEFINE f == job[k].struct
  <2>1. job'[k].struct = f
    BY <1>2
  <2>2. /\ f \in Handlers /\ job[f].struct = Own /\ job[f].op # "list"
        /\ \/ job[k].at = "waits" /\ job[f].at \in InFlight
           \/ job[k].at \in Landed /\ job[f].at \in Landed
    BY <2>1 DEF PostInv, Flights
  <2>3. job'[f].struct = Own /\ job'[f].op # "list"
    BY <1>2, <2>2
  <2>4. CASE job[k].at = "waits" /\ job[f].at \in InFlight
    BY <1>2, <2>1, <2>2, <2>3, <2>4 DEF InFlight
  <2>5. CASE job[k].at \in Landed /\ job[f].at \in Landed
    <3>1. job'[k].at \in Landed /\ job'[f].at \in Landed
      BY <1>2, <2>2, <2>5 DEF Landed
    <3>2. QED
      BY <2>1, <2>2, <2>3, <3>1
  <2>6. QED
    BY <2>2, <2>4, <2>5
<1>4. \A k \in Handlers : Given(k)' = Given(k)
  BY <1>2 DEF Given
<1>5. TrueCount' = TrueCount /\ InProcessing' = InProcessing
  BY <1>1 DEF TrueCount, InProcessing
<1>6. ASSUME NEW k \in Handlers PROVE Stage(k)' /\ Truth(k)'
  <2>1. Stage(k) /\ Truth(k)
    BY DEF PostInv
  <2>2. CASE k \in {h, g}
    <3>1. truths[k] = {}
      BY <1>2, <2>1, <2>2 DEF Truth
    <3>3. Truth(k)'
      BY <1>1, <3>1, TruthGone
    <3>4. Stage(k)'
      <4>1. CASE k = h
        BY <1>2, <4>1 DEF Stage
      <4>2. CASE k # h
        <5>1. job[k].at \in Landed /\ job'[k].at = job[k].at /\ job'[k].delta = job[k].delta
          BY <1>2, <2>2, <4>2
        <5>2. QED
          BY <1>1, <2>1, <5>1 DEF Stage, Landed
      <4>3. QED
        BY <4>1, <4>2
    <3>5. QED
      BY <3>3, <3>4
  <2>3. CASE k \notin {h, g}
    BY <1>1, <1>2, <1>4, <1>5, <2>1, <2>3 DEF Stage, Truth
  <2>4. QED
    BY <2>2, <2>3
<1>7. CachesKept
  <2>1. ASSUME NEW k \in Handlers, job[k].at = "delKeys" PROVE job'[k].at = "delKeys"
    BY <1>2, <2>1
  <2>2. CoreStaleOnlyByRace'
    BY <1>1, <2>1 DEF PostInv, CoreStaleOnlyByRace
  <2>3. QED
    BY <1>1, <2>2 DEF PostInv, Cached, CachesKept, StatsStaleOnlyByRace
<1>8. row # None
  BY <1>2, RowIsThere
<1>9. QED
  BY <1>1, <1>2, <1>3, <1>6, <1>7, <1>8, FlightStep DEF PostInv

\* A flight lands: all of it goes on, with what each had.
LEMMA JobsLand ==
  ASSUME PostInv, NEW h \in Handlers, Land(h)
  PROVE  /\ job' \in [Handlers -> JobTypes]
         /\ \A k \in Handlers :
              IF k = h \/ k \in Given(h)
                THEN /\ job'[k].at = "pending" /\ job'[k].op = job[k].op
                     /\ job'[k].count = job[k].count /\ job'[k].struct = job[k].struct
                ELSE job'[k] = job[k]
<1> DEFINE saw == Kept(job[h].op, job[h].saw)
           at(k) == [job[k] EXCEPT !.at = "pending"]
           go(k) == [at(k) EXCEPT !.saw = saw]
<1>1. job' = [k \in Handlers |-> IF k = h \/ k \in Given(h) THEN go(k) ELSE job[k]]
  BY DEF Land
<1>2. job \in [Handlers -> JobTypes]
  BY DEF PostInv
<1>3. saw \in Posts \cup {None}
  BY <1>2 DEF JobTypes, Kept
<1> HIDE DEF saw
<1>4. \A k \in Handlers : /\ go(k) \in JobTypes /\ go(k).at = "pending" /\ go(k).op = job[k].op
                          /\ go(k).count = job[k].count /\ go(k).struct = job[k].struct
  <2> SUFFICES ASSUME NEW k \in Handlers
               PROVE  /\ go(k) \in JobTypes /\ go(k).at = "pending" /\ go(k).op = job[k].op
                      /\ go(k).count = job[k].count /\ go(k).struct = job[k].struct
    OBVIOUS
  <2> DEFINE i == at(k)
             j == [i EXCEPT !.saw = saw]
  <2>1. i \in JobTypes /\ i.at = "pending" /\ i.op = job[k].op
        /\ i.count = job[k].count /\ i.struct = job[k].struct
    BY <1>2 DEF JobTypes, Steps
  <2>2. go(k) = j
    OBVIOUS
  <2> HIDE DEF i, go
  <2>3. j \in JobTypes /\ j.at = i.at /\ j.op = i.op /\ j.count = i.count /\ j.struct = i.struct
    BY <1>3, <2>1 DEF JobTypes
  <2> HIDE DEF j
  <2>4. QED
    BY <2>1, <2>2, <2>3
<1> HIDE DEF at, go
<1>5. QED
  BY <1>1, <1>2, <1>4

LEMMA LandStep ==
  ASSUME PostInv, NEW h \in Handlers, job[h].at = "setBoth", Land(h), CachesKept,
         UNCHANGED <<row, stored, pending, batch, writes, truths>>
  PROVE  PostInv'
<1>1. /\ job' \in [Handlers -> JobTypes]
      /\ \A k \in Handlers :
           IF k = h \/ k \in Given(h)
             THEN /\ job'[k].at = "pending" /\ job'[k].op = job[k].op
                  /\ job'[k].count = job[k].count /\ job'[k].struct = job[k].struct
             ELSE job'[k] = job[k]
  BY JobsLand
<1>2. job[h].struct = Own /\ row # None
  BY Alone, RowIsThere DEF Landed
<1>3. \A k \in Handlers : job'[k].struct = job[k].struct /\ job'[k].op = job[k].op
  BY <1>1
<1>4. Flights'
  <2> SUFFICES ASSUME NEW k \in Handlers, job'[k].struct # Own
               PROVE  LET f == job'[k].struct IN
                      /\ f \in Handlers /\ job'[f].struct = Own /\ job'[f].op # "list"
                      /\ \/ job'[k].at = "waits" /\ job'[f].at \in InFlight
                         \/ job'[k].at \in Landed /\ job'[f].at \in Landed
    BY DEF Flights
  <2> DEFINE f == job[k].struct
  <2>1. job'[k].struct = f
    BY <1>3
  <2>2. /\ f \in Handlers /\ job[f].struct = Own /\ job[f].op # "list"
        /\ \/ job[k].at = "waits" /\ job[f].at \in InFlight
           \/ job[k].at \in Landed /\ job[f].at \in Landed
    BY <2>1 DEF PostInv, Flights
  <2>3. job'[f].struct = Own /\ job'[f].op # "list"
    BY <1>3, <2>2
  <2>4. CASE f = h
    <3>1. k \in Given(h)
      BY <2>4 DEF Given
    <3>2. job'[k].at \in Landed /\ job'[f].at \in Landed
      BY <1>1, <2>4, <3>1 DEF Landed
    <3>3. QED
      BY <2>1, <2>2, <2>3, <3>2
  <2>5. CASE f # h
    <3>1. k # h /\ k \notin Given(h) /\ f \notin Given(h)
      BY <1>2, <2>1, <2>2, <2>5, PostCacheAssumption DEF Given
    <3>2. job'[k] = job[k] /\ job'[f] = job[f]
      BY <1>1, <2>2, <2>5, <3>1
    <3>3. QED
      BY <2>1, <2>2, <3>2
  <2>6. QED
    BY <2>4, <2>5
<1>5. \A k \in Handlers : Given(k)' = Given(k)
  BY <1>3 DEF Given
<1>6. TrueCount' = TrueCount /\ InProcessing' = InProcessing
  BY DEF TrueCount, InProcessing
<1>7. ASSUME NEW k \in Handlers PROVE Stage(k)' /\ Truth(k)'
  <2>1. Stage(k) /\ Truth(k)
    BY DEF PostInv
  <2>2. CASE k = h
    BY <1>1, <1>5, <1>6, <2>1, <2>2 DEF Stage, Truth
  <2>3. CASE k # h /\ k \in Given(h)
    <3>1. job'[k].at = "pending"
      BY <1>1, <2>3
    <3>2. job[k].struct # Own
      BY <2>3, PostCacheAssumption DEF Given
    <3>3. truths'[k] = {}
      BY <2>1, <3>2 DEF Truth
    <3>4. QED
      BY <3>1, <3>3, TruthGone DEF Stage
  <2>4. CASE k # h /\ k \notin Given(h)
    <3>1. job'[k] = job[k]
      BY <1>1, <2>4
    <3>2. QED
      BY <1>5, <1>6, <2>1, <3>1 DEF Stage, Truth
  <2>5. QED
    BY <2>2, <2>3, <2>4
<1>8. QED
  BY <1>1, <1>2, <1>4, <1>7, FlightStep DEF PostInv

\* One that has found no post ends, for all of it.
LEMMA LandEmptyStep ==
  ASSUME PostInv, NEW h \in Handlers, job[h].at = "setNull", LandEmpty(h), CachesKept,
         UNCHANGED <<row, stored, pending, batch, writes>>
  PROVE  PostInv'
<1>1. /\ job' = [k \in Handlers |-> IF k = h \/ k \in Given(h) THEN Idle ELSE job[k]]
      /\ truths' = [k \in Handlers |-> IF k = h \/ k \in Given(h) THEN {} ELSE truths[k]]
  BY DEF LandEmpty
<1>2. job' \in [Handlers -> JobTypes]
  BY <1>1, IdleJob DEF PostInv
<1>3. row # None
  BY RowIsThere
<1>4. Flights'
  <2> SUFFICES ASSUME NEW k \in Handlers, job'[k].struct # Own
               PROVE  LET f == job'[k].struct IN
                      /\ f \in Handlers /\ job'[f].struct = Own /\ job'[f].op # "list"
                      /\ \/ job'[k].at = "waits" /\ job'[f].at \in InFlight
                         \/ job'[k].at \in Landed /\ job'[f].at \in Landed
    BY DEF Flights
  <2>1. k # h /\ k \notin Given(h) /\ job'[k] = job[k]
    BY <1>1, IdleJob
  <2> DEFINE f == job[k].struct
  <2>2. /\ f \in Handlers /\ job[f].struct = Own /\ job[f].op # "list"
        /\ \/ job[k].at = "waits" /\ job[f].at \in InFlight
           \/ job[k].at \in Landed /\ job[f].at \in Landed
    BY <2>1 DEF PostInv, Flights
  <2>3. f # h
    BY <2>1 DEF Given
  <2>4. f \notin Given(h)
    BY <2>2, PostCacheAssumption DEF Given
  <2>5. job'[f] = job[f]
    BY <1>1, <2>2, <2>3, <2>4
  <2>6. QED
    BY <2>1, <2>2, <2>5
<1>5. \A k \in Handlers : Given(k)' \subseteq Given(k)
  BY <1>1, IdleJob, PostCacheAssumption DEF Given
<1>6. TrueCount' = TrueCount /\ InProcessing' = InProcessing
  BY DEF TrueCount, InProcessing
<1>7. ASSUME NEW k \in Handlers PROVE Stage(k)' /\ Truth(k)'
  <2>1. Stage(k) /\ Truth(k)
    BY DEF PostInv
  <2>2. CASE k = h \/ k \in Given(h)
    <3>1. job'[k] = Idle /\ truths'[k] = {}
      BY <1>1, <2>2
    <3>2. QED
      BY <3>1, IdleJob, TruthGone DEF Stage
  <2>3. CASE ~(k = h \/ k \in Given(h))
    <3>1. job'[k] = job[k] /\ truths'[k] = truths[k]
      BY <1>1, <2>3
    <3>2. QED
      BY <1>5, <1>6, <2>1, <3>1 DEF Stage, Truth
  <2>4. QED
    BY <2>2, <2>3
<1>8. QED
  BY <1>1, <1>2, <1>3, <1>4, <1>7, FlightStep DEF PostInv

\* A writer is in no flight.
LEMMA WritersStay ==
  ASSUME PostInv, NEW h \in Handlers, job[h].at # "delKeys",
         \A k \in Handlers \ {h} : k \notin Given(h) => job'[k] = job[k]
  PROVE  \A k \in Handlers : job[k].at = "delKeys" => job'[k] = job[k]
<1> SUFFICES ASSUME NEW k \in Handlers, job[k].at = "delKeys" PROVE job'[k] = job[k]
  OBVIOUS
<1>1. job[k].struct = Own
  BY Alone DEF Landed
<1>2. k # h /\ k \notin Given(h)
  BY <1>1, PostCacheAssumption DEF Given
<1>3. QED
  BY <1>2

LEMMA SetBothStep ==
  ASSUME PostInv, NEW h \in Handlers, SetBoth(h)
  PROVE  PostInv'
<1>1. /\ job[h].at = "setBoth" /\ Land(h) /\ core' = job[h].saw /\ stats' = job[h].count
      /\ outdated' = {k \in {"core", "stats"} :
           IF k = "core" THEN job[h].saw # row ELSE job[h].count # stored}
      /\ UNCHANGED <<row, stored, pending, batch, writes, truths>>
  BY DEF SetBoth, dbVars, deltaVars
<1>2. job[h].saw \in Posts /\ job[h].count \in Counts
  BY <1>1 DEF PostInv, Stage
<1>3. CoreStaleOnlyByRace'
  BY <1>1 DEF CoreStaleOnlyByRace
<1>4. StatsStaleOnlyByRace'
  BY <1>1 DEF StatsStaleOnlyByRace
<1>5. CachesKept
  BY <1>1, <1>2, <1>3, <1>4 DEF CachesKept
<1>6. QED
  BY <1>1, <1>5, LandStep

LEMMA SetNullStep ==
  ASSUME PostInv, NEW h \in Handlers, SetNull(h)
  PROVE  PostInv'
<1>1. /\ job[h].at = "setNull" /\ LandEmpty(h) /\ core' = Null /\ outdated' = outdated \ {"core"}
      /\ UNCHANGED <<row, stored, pending, batch, writes, stats>>
  BY DEF SetNull, Mark, dbVars, deltaVars
<1>2. row.life = "deleted"
  BY <1>1 DEF PostInv, Stage
<1>3. CachesKept
  BY <1>1, <1>2, CoreIsSet
<1>4. QED
  BY <1>1, <1>3, LandEmptyStep

\* The SET errs: the caches stay, and so does a writer who is to delete from them.
LEMMA LandFails ==
  ASSUME PostInv, NEW h \in Handlers, UNCHANGED <<dbVars, deltaVars, cacheVars>>,
         \/ job[h].at = "setBoth" /\ Land(h) /\ UNCHANGED truths
         \/ job[h].at = "setNull" /\ LandEmpty(h)
  PROVE  PostInv'
<1>1. UNCHANGED <<row, stored, pending, batch, writes, core, stats, outdated>>
  BY DEF dbVars, deltaVars, cacheVars
<1>2. \A k \in Handlers \ {h} : k \notin Given(h) => job'[k] = job[k]
  BY DEF Land, LandEmpty
<1>3. CoreStaleOnlyByRace'
  BY <1>1, <1>2, WritersStay DEF PostInv, CoreStaleOnlyByRace
<1>4. CachesKept
  BY <1>1, <1>3 DEF PostInv, Cached, CachesKept, StatsStaleOnlyByRace
<1>5. QED
  BY <1>1, <1>4, LandStep, LandEmptyStep

LEMMA SetFailsStep ==
  ASSUME PostInv, NEW h \in Handlers, SetFails(h)
  PROVE  PostInv'
<1>1. UNCHANGED <<dbVars, deltaVars, cacheVars>>
  BY DEF SetFails
<1>2. CASE Leaves(h) /\ UNCHANGED truths
  BY <1>1, <1>2, SetCoreFails
<1>3. CASE job[h].at = "setStats" /\ GoTo(h, "pending") /\ UNCHANGED truths
  BY <1>1, <1>3, SetStatsFails
<1>4. CASE \/ job[h].at = "setBoth" /\ Land(h) /\ UNCHANGED truths
           \/ job[h].at = "setNull" /\ LandEmpty(h)
  BY <1>1, <1>4, LandFails
<1>5. QED
  BY <1>2, <1>3, <1>4 DEF SetFails, Leaves

\* A request that is turned down or answered, or whose write fails.
LEMMA EndSteps ==
  ASSUME PostInv, NEW h \in Handlers, CoreIsNull(h) \/ TurnedDown(h) \/ Answer(h) \/ WriteFails(h)
  PROVE  PostInv'
<1>1. /\ job[h].at \in {"core", "pending", "done", "write"} /\ Done(h)
      /\ UNCHANGED <<dbVars, deltaVars, cacheVars>>
  BY DEF CoreIsNull, TurnedDown, Answer, WriteFails
<1>2. QED
  BY <1>1, EndStep

----------------------------------------------------------------------------
(* Writers, and what happens to the keys by themselves.                    *)

\* Once the row has changed, h is between its UPDATE and its DEL.
LEMMA WritePostStep ==
  ASSUME PostInv, NEW h \in Handlers, WritePost(h)
  PROVE  PostInv'
<1>1. /\ job[h].at = "write" /\ GoTo(h, "delKeys")
      /\ UNCHANGED <<stored, pending, batch, writes, core, stats, outdated, truths>>
      /\ \/ row.ver < MaxUpdates /\ row' = [row EXCEPT !.ver = @ + 1]
         \/ row' = [row EXCEPT !.life = "deleted"]
  BY DEF WritePost, deltaVars, cacheVars
<1>2. row \in Posts /\ row # None /\ job[h].struct = Own /\ Given(h) = {}
  BY <1>1, RowIsThere, Alone DEF Landed, InFlight
<1>3. row' \in Posts /\ (row.life = "deleted" => row'.life = "deleted")
  BY <1>1, <1>2, PostCacheAssumption DEF Posts
<1>4. Becomes(h, "delKeys", job[h].saw, job[h].count, job[h].delta, job[h].struct)
  BY <1>1, JobGoesTo DEF PostInv, Steps
<1>5. KeepsFlight(h) /\ Stage(h)'
  BY <1>2, <1>4 DEF KeepsFlight, Stage, Becomes
<1>6. Truth(h)'
  BY <1>1, <1>4, OwnTruth DEF PostInv, Becomes
<1>7. CoreStaleOnlyByRace'
  BY <1>4 DEF CoreStaleOnlyByRace, Becomes
<1>8. CachesKept
  BY <1>1, <1>7 DEF PostInv, Cached, CachesKept, StatsStaleOnlyByRace
<1>9. QED
  BY <1>1, <1>2, <1>3, <1>4, <1>5, <1>6, <1>8, OwnStep DEF Becomes, PostInv

\* The DEL is done, or is not and the core marked.
LEMMA DelKeysSteps ==
  ASSUME PostInv, NEW h \in Handlers, DelKeys(h) \/ DelKeysFails(h)
  PROVE  PostInv'
<1>1. /\ job[h].at = "delKeys" /\ Done(h) /\ UNCHANGED <<row, stored, pending, batch, writes>>
  BY DEF DelKeys, DelKeysFails, dbVars, deltaVars
<1>2. Given(h) = {} /\ job' = [job EXCEPT ![h] = Idle] /\ truths' = [truths EXCEPT ![h] = {}]
  BY <1>1 DEF Done
<1>3. Restarts(h, "idle", "idle") /\ row # None /\ row \in Posts
  BY <1>1, <1>2, JobEnds, RowIsThere DEF PostInv
<1>4. KeepsFlight(h) /\ Stage(h)' /\ Truth(h)'
  BY <1>2, <1>3, TruthGone DEF PostInv, Restarts, KeepsFlight, Stage
<1>5. CachesKept
  <2>1. CASE DelKeysFails(h)
    <3>1. outdated' = outdated \cup {"core"} /\ UNCHANGED <<core, stats>>
      BY <2>1 DEF DelKeysFails, Mark
    <3>2. QED
      BY <1>1, <3>1, CoreIsSet DEF PostInv, Cached
  <2>2. CASE DelKeys(h) /\ job[h].op # "delete"
    <3>1. outdated' = outdated \ {"core"} /\ UNCHANGED stats /\ core' = Absent
      BY <2>2 DEF DelKeys, Mark
    <3>2. QED
      BY <1>1, <3>1, CoreIsSet
  <2>3. CASE DelKeys(h) /\ job[h].op = "delete"
    BY <2>3 DEF DelKeys, CachesKept, CoreStaleOnlyByRace, StatsStaleOnlyByRace
  <2>4. QED
    BY <2>1, <2>2, <2>3
<1>6. QED
  BY <1>1, <1>2, <1>3, <1>4, <1>5, OwnStep DEF Restarts, PostInv

LEMMA CreatePostStep ==
  ASSUME PostInv, CreatePost
  PROVE  PostInv'
<1>1. /\ row = None /\ row' = [life |-> "live", ver |-> 0]
      /\ UNCHANGED <<stored, pending, batch, writes, core, stats, outdated, job, truths>>
  BY DEF CreatePost, deltaVars, cacheVars
<1>2. row' \in Posts /\ row' # None
  BY <1>1, PostCacheAssumption, NoPost DEF Posts
<1>3. core = Absent /\ \A h \in Handlers : job[h].at = "idle"
  BY <1>1, IdleJob DEF PostInv, Cached
<1>4. Numbers' /\ Cached'
  BY <1>1, <1>2 DEF PostInv, Numbers, TrueCount, InProcessing, Cached
<1>5. \A h \in Handlers : Stage(h)'
  BY <1>1, <1>3 DEF Stage
<1>6. \A h \in Handlers : Truth(h)'
  <2> SUFFICES ASSUME NEW h \in Handlers PROVE Truth(h)'
    OBVIOUS
  <2>1. Truth(h) /\ Given(h)' = Given(h) /\ TrueCount' = TrueCount /\ InProcessing' = InProcessing
    BY <1>1 DEF PostInv, Given, TrueCount, InProcessing
  <2>2. QED
    BY <1>1, <2>1 DEF Truth
<1>7. Flights' /\ CoreStaleOnlyByRace' /\ StatsStaleOnlyByRace'
  BY <1>1, <1>3 DEF PostInv, Flights, CoreStaleOnlyByRace, StatsStaleOnlyByRace
<1>8. QED
  BY <1>1, <1>4, <1>5, <1>6, <1>7 DEF PostInv

LEMMA ExpirySteps ==
  ASSUME PostInv, ExpireCore \/ ExpireStats
  PROVE  PostInv'
<1>1. /\ UNCHANGED <<row, stored, pending, batch, writes, job, truths>>
      /\ \/ core' = Absent /\ UNCHANGED stats /\ outdated' = outdated \ {"core"}
         \/ UNCHANGED core /\ stats' = NoStats /\ outdated' = outdated \ {"stats"}
  BY DEF ExpireCore, ExpireStats, Mark, dbVars, deltaVars
<1>2. Numbers' /\ Cached'
  BY <1>1 DEF PostInv, Numbers, TrueCount, InProcessing, Cached
<1>3. \A h \in Handlers : Stage(h)'
  BY <1>1 DEF PostInv, Stage
<1>4. \A h \in Handlers : Truth(h)'
  <2> SUFFICES ASSUME NEW h \in Handlers PROVE Truth(h)'
    OBVIOUS
  <2>1. Truth(h) /\ Given(h)' = Given(h) /\ TrueCount' = TrueCount /\ InProcessing' = InProcessing
    BY <1>1 DEF PostInv, Given, TrueCount, InProcessing
  <2>2. QED
    BY <1>1, <2>1 DEF Truth
<1>5. Flights'
  BY <1>1 DEF PostInv, Flights
<1>6. CoreStaleOnlyByRace' /\ StatsStaleOnlyByRace'
  BY <1>1 DEF PostInv, CoreStaleOnlyByRace, StatsStaleOnlyByRace
<1>7. QED
  BY <1>1, <1>2, <1>3, <1>4, <1>5, <1>6 DEF PostInv

LEMMA SameStep ==
  ASSUME PostInv, UNCHANGED vars
  PROVE  PostInv'
<1>1. UNCHANGED <<row, stored, pending, batch, writes, core, stats, outdated, job, truths>>
  BY DEF vars, dbVars, deltaVars, cacheVars
<1>2. Numbers' /\ Cached'
  BY <1>1 DEF PostInv, Numbers, TrueCount, InProcessing, Cached
<1>3. \A h \in Handlers : Stage(h)'
  BY <1>1 DEF PostInv, Stage
<1>4. \A h \in Handlers : Truth(h)'
  <2> SUFFICES ASSUME NEW h \in Handlers PROVE Truth(h)'
    OBVIOUS
  <2>1. Truth(h) /\ Given(h)' = Given(h) /\ TrueCount' = TrueCount /\ InProcessing' = InProcessing
    BY <1>1 DEF PostInv, Given, TrueCount, InProcessing
  <2>2. QED
    BY <1>1, <2>1 DEF Truth
<1>5. Flights' /\ CoreStaleOnlyByRace' /\ StatsStaleOnlyByRace'
  BY <1>1 DEF PostInv, Flights, CoreStaleOnlyByRace, StatsStaleOnlyByRace
<1>6. QED
  BY <1>1, <1>2, <1>3, <1>4, <1>5 DEF PostInv

----------------------------------------------------------------------------
(* The theorems.                                                           *)

LEMMA InitPostInv ==
  ASSUME Init
  PROVE  PostInv
<1>1. /\ \/ row = None /\ stored = 0
         \/ row = [life |-> "live", ver |-> 0] /\ stored = OldCount
      /\ pending = 0 /\ batch = NoBatch /\ core = Absent /\ stats = NoStats /\ outdated = {}
      /\ job = [h \in Handlers |-> Idle] /\ truths = [h \in Handlers |-> {}] /\ writes = 0
  BY DEF Init
<1>2. InProcessing = 0 /\ batch \in [at : {"none", "processing", "booked", "cleared"}, d : Deltas]
  BY <1>1, PostCacheAssumption DEF InProcessing, NoBatch, Deltas
<1>3. Adds(stored, pending, InProcessing, writes)
  BY <1>1, <1>2, PostCacheAssumption DEF Adds, Size
<1>4. Numbers
  BY <1>1, <1>2, <1>3, NumbersAdd, PostCacheAssumption
<1>5. row \in Posts \cup {None}
  BY <1>1, PostCacheAssumption DEF Posts
<1>6. Cached
  BY <1>1, <1>5 DEF Cached
<1>7. \A h \in Handlers : Stage(h) /\ Truth(h)
  BY <1>1, IdleJob DEF Stage, Truth
<1>8. Flights /\ CoreStaleOnlyByRace /\ StatsStaleOnlyByRace
  BY <1>1, IdleJob DEF Flights, CoreStaleOnlyByRace, StatsStaleOnlyByRace
<1>9. QED
  BY <1>1, <1>4, <1>6, <1>7, <1>8, IdleJob DEF PostInv

LEMMA NextPostInv ==
  ASSUME PostInv, [Next]_vars
  PROVE  PostInv'
<1>1. CASE \E h \in Handlers : Arrive(h)
  BY <1>1, BeginStep, BeginWriteStep DEF Arrive
<1>2. CASE \E h \in Handlers : Proceed(h)
  <2>1. PICK h \in Handlers : Proceed(h)
    BY <1>2
  <2>2. CASE \/ SelectPage(h) \/ CoreHit(h) \/ CoreIsNull(h) \/ SelectPost(h) \/ SelectCounter(h)
             \/ SetPage(h) \/ SetCore(h) \/ SetBoth(h) \/ SetNull(h)
    BY <2>2, SelectPageStep, CoreHitStep, EndSteps, SelectPostStep, SelectCounterStep, SetCoreSteps,
       SetBothStep, SetNullStep
  <2>3. CASE \/ StatsHit(h) \/ SelectStats(h) \/ SetStats(h) \/ TurnedDown(h)
             \/ ReadPending(h) \/ ReadProcessing(h)
    BY <2>3, StatsHitStep, SelectStatsStep, SetStatsStep, EndSteps, DeltaSteps
  <2>4. CASE (\E g \in Handlers : Join(h, g)) \/ StoreCount(h) \/ Answer(h) \/ WritePost(h) \/ DelKeys(h)
    BY <2>4, JoinStep, StoreCountStep, EndSteps, WritePostStep, DelKeysSteps
  <2>5. QED
    BY <2>1, <2>2, <2>3, <2>4 DEF Proceed
<1>3. CASE \E h \in Handlers : Fail(h)
  BY <1>3, SetFailsStep, DeltaSteps, EndSteps, DelKeysSteps DEF Fail
<1>4. CASE BookDeltas
  BY <1>4, RecordDeltaStep, PostDirectlyStep, ClaimDeltaStep, BookBatchStep, ClearSteps DEF BookDeltas
<1>5. CASE CreatePost \/ ExpireCore \/ ExpireStats
  BY <1>5, CreatePostStep, ExpirySteps
<1>6. CASE UNCHANGED vars
  BY <1>6, SameStep
<1>7. QED
  BY <1>1, <1>2, <1>3, <1>4, <1>5, <1>6 DEF Next

LEMMA PostInvTypes ==
  ASSUME PostInv
  PROVE  TypeOK
<1>1. stored \in Counts /\ pending \in Deltas /\ writes \in 0..MaxWrites
  BY NumberTypes DEF PostInv
<1>2. truths \in [Handlers -> SUBSET Counts]
  <2>1. \A h \in Handlers : truths[h] \in SUBSET Counts
    BY DEF PostInv, Truth
  <2>2. QED
    BY <2>1 DEF PostInv
<1>3. job \in [Handlers -> JobTypes]
  BY DEF PostInv
<1>4. QED
  BY <1>1, <1>2, <1>3 DEF PostInv, Numbers, Cached, TypeOK, JobTypes, Steps

\* Whoever still knows of a count that was true has a struct of his own.
LEMMA PostInvTruth ==
  ASSUME PostInv
  PROVE  CountShownWasTrue
BY DEF PostInv, Truth, CountShownWasTrue, Count

\* The types of what MySQL, Redis and the requests hold.
THEOREM PostTypesHold == Spec => []TypeOK
<1>1. Spec => []PostInv
  BY InitPostInv, NextPostInv, PTL DEF Spec
<1>2. QED
  BY <1>1, PostInvTypes, PTL

\* The post in the cache is the row, unless a writer is between its UPDATE and its DEL, a DEL
\* did not happen, or a SET came late (loadPostWithSplitCache against UpdatePost, DeletePost).
THEOREM TheCoreIsOldByRaceOnly == Spec => []CoreStaleOnlyByRace
<1>1. Spec => []PostInv
  BY InitPostInv, NextPostInv, PTL DEF Spec
<1>2. PostInv => CoreStaleOnlyByRace
  BY DEF PostInv
<1>3. QED
  BY <1>1, <1>2, PTL

\* The same of the counts and whoever writes post_counter.
THEOREM TheStatsAreOldByRaceOnly == Spec => []StatsStaleOnlyByRace
<1>1. Spec => []PostInv
  BY InitPostInv, NextPostInv, PTL DEF Spec
<1>2. PostInv => StatsStaleOnlyByRace
  BY DEF PostInv
<1>3. QED
  BY <1>1, <1>2, PTL

\* The comment count of an answer, summed from three stores that are read one after the
\* other, was true during the request, in the cases that the property names.
THEOREM TheCountWasTrue == Spec => []CountShownWasTrue
<1>1. Spec => []PostInv
  BY InitPostInv, NextPostInv, PTL DEF Spec
<1>2. QED
  BY <1>1, PostInvTruth, PTL
=============================================================================
