---------------------------- MODULE ESSyncProofs ----------------------------
(***************************************************************************)
(* Proofs about ESSync, for any number of instances, events, and failures: *)
(* the document never goes back, and no committed event is forgotten.      *)
(***************************************************************************)
EXTENDS ESSync, FiniteSetTheorems, TLAPS

\* e need not be processed any more, or the retry worker will see to it.
Covered(e) == doc >= e \/ e \in dlq \/ \E id \in RowIds : saved[id] = e

\* An instance knows an event or a row while it works on one, and only then.
Busy ==
  /\ \A i \in Instances : doing[i].ev = 0 <=> doing[i].at = "fetch"
  /\ \A i \in Instances : trying[i].at # "idle" => trying[i].row \in SavedRow

\* Every row has a failure of its own: there is an id for the next one.
Saving == {i \in Instances : doing[i].at = "save"}
Paid == nextRow - 1 + Cardinality(Saving) <= faults

\* The version of the document is the one of the event it was built from.
Versioned == esVersion = IF doc = 0 THEN 0 ELSE ExternalVersion(doc)

\* Ids are not used again, so a row that a worker has read is as it was read, or gone.
Known(r) == r.id < nextRow /\ saved[r.id] \in {0, r.ev}

Rows ==
  /\ \A id \in RowIds : id >= nextRow => saved[id] = 0
  /\ \A i \in Instances : \A r \in scan[i] : Known(r)
  /\ \A i \in Instances : trying[i].at # "idle" => Known(trying[i].row)
  /\ \A i \in Instances : trying[i].at = "done" => doc >= trying[i].row.ev

\* What is before the event of a consumer is covered, and what is before its next event,
\* but for the one it works on.
Commits ==
  /\ \A e \in Events : e <= committed => Covered(e)
  /\ \A i \in Instances, e \in Events :
       /\ e < doing[i].ev => Covered(e)
       /\ e < next[i] => e = doing[i].ev \/ Covered(e)
       /\ doing[i].at = "commit" /\ e = doing[i].ev => Covered(e)

IInv == TypeOK /\ Busy /\ Paid /\ Versioned /\ Rows /\ Commits

----------------------------------------------------------------------------
(* Versions.                                                               *)

LEMMA Products ==
  ASSUME NEW a \in Nat, NEW b \in Nat, NEW f \in Nat, a < b
  PROVE  a * f + f <= b * f
<1>1. PICK d \in Nat : b = a + 1 + d
  <2>1. b - a - 1 \in Nat /\ b = a + 1 + (b - a - 1)
    OBVIOUS
  <2>2. QED
    BY <2>1
<1>2. (a + 1 + d) * f = a * f + f + d * f /\ d * f \in Nat /\ a * f \in Nat
  OBVIOUS
<1>3. QED
  BY <1>1, <1>2

LEMMA VersionTypes ==
  ASSUME NEW e \in Events
  PROVE  /\ VersionOf[e].seq \in Nat /\ VersionOf[e].pos \in 1..(Factor - 1)
         /\ ExternalVersion(e) \in Nat /\ ExternalVersion(e) > 0
<1>1. VersionOf[e].seq \in Nat /\ VersionOf[e].pos \in 1..(Factor - 1) /\ Factor \in Nat
  BY ESSyncAssumption
<1>2. VersionOf[e].seq * Factor \in Nat
  BY <1>1
<1>3. QED
  BY <1>1, <1>2 DEF ExternalVersion

\* The product that makes an external version keeps the order of the binlog.
LEMMA VersionsGrow ==
  ASSUME NEW d \in Events, NEW e \in Events, d < e
  PROVE  ExternalVersion(d) < ExternalVersion(e) /\ IsNewer(VersionOf[e], VersionOf[d])
<1>1. \/ VersionOf[d].seq < VersionOf[e].seq
      \/ VersionOf[d].seq = VersionOf[e].seq /\ VersionOf[d].pos < VersionOf[e].pos
  BY ESSyncAssumption
<1>2. /\ VersionOf[d].seq \in Nat /\ VersionOf[d].pos \in 1..(Factor - 1)
      /\ VersionOf[e].seq \in Nat /\ VersionOf[e].pos \in 1..(Factor - 1)
      /\ Factor \in Nat
  BY VersionTypes, ESSyncAssumption
<1>3. CASE VersionOf[d].seq < VersionOf[e].seq
  <2>1. VersionOf[d].seq * Factor + Factor <= VersionOf[e].seq * Factor
    BY <1>2, <1>3, Products
  <2>2. VersionOf[d].seq * Factor \in Nat /\ VersionOf[e].seq * Factor \in Nat
    BY <1>2
  <2>3. QED
    BY <1>2, <1>3, <2>1, <2>2 DEF ExternalVersion, IsNewer
<1>4. CASE VersionOf[d].seq = VersionOf[e].seq /\ VersionOf[d].pos < VersionOf[e].pos
  <2>1. VersionOf[d].seq * Factor \in Nat
    BY <1>2
  <2>2. QED
    BY <1>2, <1>4, <2>1 DEF ExternalVersion, IsNewer
<1>5. QED
  BY <1>1, <1>3, <1>4

\* An event the GET finds old is covered by the document.
LEMMA OldIsCovered ==
  ASSUME NEW e \in Events, doc \in 0..NumEvents, IsOld(e)
  PROVE  doc >= e
<1>1. doc \in Events /\ ~IsNewer(VersionOf[e], VersionOf[doc])
  BY ESSyncAssumption DEF IsOld, Events
<1>2. QED
  BY <1>1, VersionsGrow DEF Events

LEMMA IndexStep ==
  ASSUME NEW e \in Events, doc \in 0..NumEvents, Versioned, IndexDocument(e)
  PROVE  /\ doc' \in 0..NumEvents /\ doc' >= doc /\ doc' >= e
         /\ esVersion' \in Nat /\ Versioned'
<1>1. NumEvents \in Nat /\ ExternalVersion(e) \in Nat /\ ExternalVersion(e) > 0
  BY ESSyncAssumption, VersionTypes
<1>2. ASSUME NEW d \in Events PROVE ExternalVersion(d) \in Nat
  BY VersionTypes
<1>3. esVersion \in Nat
  BY <1>2 DEF Versioned, Events
<1>4. doc = 0 \/ doc \in Events
  BY <1>1 DEF Events
<1>5. CASE ExternalVersion(e) >= esVersion
  <2>1. doc' = e /\ esVersion' = ExternalVersion(e)
    BY <1>5 DEF IndexDocument
  <2>2. ~(doc \in Events /\ e < doc)
    <3> SUFFICES ASSUME doc \in Events, e < doc PROVE FALSE
      OBVIOUS
    <3>1. ExternalVersion(e) < ExternalVersion(doc) /\ esVersion = ExternalVersion(doc)
      BY VersionsGrow, ESSyncAssumption DEF Versioned, Events
    <3>2. QED
      BY <1>1, <1>3, <1>5, <3>1
  <2>3. doc' >= doc /\ doc' >= e /\ doc' \in 0..NumEvents
    BY <1>1, <1>4, <2>1, <2>2 DEF Events
  <2>4. ExternalVersion(e)' = ExternalVersion(e)
    BY DEF ExternalVersion
  <2>5. Versioned'
    BY <2>1, <1>1 DEF Versioned, Events, ExternalVersion
  <2>6. QED
    BY <1>1, <2>1, <2>3, <2>5
<1>6. CASE ~(ExternalVersion(e) >= esVersion)
  <2>1. doc' = doc /\ esVersion' = esVersion
    BY <1>6 DEF IndexDocument, docVars
  <2>2. doc # 0 /\ esVersion = ExternalVersion(doc)
    BY <1>1, <1>6 DEF Versioned
  <2>3. ~(doc < e)
    BY <1>1, <1>3, <1>4, <1>6, <2>2, VersionsGrow
  <2>4. Versioned'
    BY <2>1 DEF Versioned, ExternalVersion
  <2>5. QED
    BY <1>1, <1>3, <1>4, <2>1, <2>3, <2>4 DEF Events
<1>7. QED
  BY <1>5, <1>6

----------------------------------------------------------------------------
(* What the steps have in common.                                          *)

LEMMA Bounds ==
  /\ NumEvents \in Nat /\ MaxFaults \in Nat /\ MaxAttempts \in Nat \ {0}
  /\ Events = 1..NumEvents /\ RowIds = 1..MaxFaults
BY ESSyncAssumption DEF Events, RowIds

LEMMA FaultCounts ==
  ASSUME faults \in 0..MaxFaults, NEW k, NoFault \/ Fault(k)
  PROVE  faults' \in 0..MaxFaults /\ faults' >= faults /\ (Fault(k) => faults' = faults + 1)
BY Bounds DEF NoFault, Fault

\* What is covered stays covered.
LEMMA Stays ==
  ASSUME TypeOK, doc' \in 0..NumEvents, doc' >= doc, dlq \subseteq dlq',
         \A id \in RowIds : \/ saved'[id] = saved[id] \/ saved[id] = 0
                            \/ doc' >= saved[id] \/ saved[id] \in dlq'
  PROVE  \A e \in Events : Covered(e) => Covered(e)'
<1> SUFFICES ASSUME NEW e \in Events, Covered(e) PROVE Covered(e)'
  OBVIOUS
<1>1. CASE doc >= e
  BY <1>1, Bounds DEF Covered, TypeOK
<1>2. CASE e \in dlq
  BY <1>2 DEF Covered
<1>3. ASSUME NEW id \in RowIds, saved[id] = e PROVE Covered(e)'
  <2>1. e # 0
    BY Bounds
  <2>2. QED
    BY <1>3, <2>1 DEF Covered
<1>4. QED
  BY <1>1, <1>2, <1>3 DEF Covered

\* Instance i of the consumers takes a step, but for a fetch.
LEMMA CommitsKept ==
  ASSUME TypeOK, Commits, NEW i \in Instances,
         \A e \in Events : Covered(e) => Covered(e)',
         \A j \in Instances \ {i} : doing'[j] = doing[j] /\ next'[j] = next[j],
         doing'[i].ev \in {0, doing[i].ev},
         \/ next'[i] = committed + 1
         \/ next'[i] = next[i] /\ (doing'[i].ev = doing[i].ev \/ doing[i].at = "commit"),
         doing'[i].at = "commit" =>
           \A e \in Events : e = doing'[i].ev => Covered(e)',
         committed' = committed \/ (committed' = doing[i].ev /\ doing[i].at = "commit")
  PROVE  Commits'
<1>1. /\ committed \in Int /\ Events \subseteq Int
      /\ \A j \in Instances : doing[j].ev \in Int /\ next[j] \in Int
  BY Bounds DEF TypeOK
<1>2. ASSUME NEW e \in Events, e <= committed' PROVE Covered(e)'
  BY <1>1, <1>2 DEF Commits
<1>3. ASSUME NEW j \in Instances, NEW e \in Events
      PROVE  /\ e < doing'[j].ev => Covered(e)'
             /\ e < next'[j] => e = doing'[j].ev \/ Covered(e)'
             /\ doing'[j].at = "commit" /\ e = doing'[j].ev => Covered(e)'
  <2>1. CASE j # i
    BY <2>1 DEF Commits
  <2>2. CASE j = i
    <3>1. e < doing'[i].ev => Covered(e)'
      BY <1>1, Bounds DEF Commits
    <3>2. e < next'[i] => e = doing'[i].ev \/ Covered(e)'
      BY <1>1 DEF Commits
    <3>3. QED
      BY <2>2, <3>1, <3>2
  <2>3. QED
    BY <2>1, <2>2
<1>4. QED
  BY <1>2, <1>3 DEF Commits

\* The same, for the rows that are still to be saved.
LEMMA PaidKept ==
  ASSUME TypeOK, Paid, NEW i \in Instances, NEW x,
         doing' = [doing EXCEPT ![i] = x], nextRow' \in Int, faults' \in Int,
         \/ x.at # "save" /\ nextRow' = nextRow /\ faults' >= faults
         \/ x.at # "save" /\ doing[i].at = "save" /\ nextRow' = nextRow + 1 /\ faults' = faults
         \/ x.at = "save" /\ nextRow' = nextRow /\ faults' = faults + 1
  PROVE  Paid'
<1>1. /\ IsFiniteSet(Instances) /\ Saving \subseteq Instances
      /\ \A j \in Instances : doing'[j] = IF j = i THEN x ELSE doing[j]
  BY ESSyncAssumption DEF Saving, TypeOK
<1>2. IsFiniteSet(Saving) /\ Cardinality(Saving) \in Nat /\ nextRow \in Int /\ faults \in Int
  BY <1>1, FS_Subset, FS_CardinalityType DEF TypeOK
<1>3. CASE x.at # "save"
  <2>1. Saving' = Saving \ {i}
    BY <1>1, <1>3 DEF Saving
  <2>2. /\ Cardinality(Saving \ {i}) \in Nat
        /\ Cardinality(Saving \ {i}) = IF i \in Saving THEN Cardinality(Saving) - 1
                                        ELSE Cardinality(Saving)
    BY <1>2, FS_RemoveElement, FS_CardinalityType
  <2>3. doing[i].at = "save" => i \in Saving
    BY DEF Saving
  <2>4. QED
    BY <1>2, <1>3, <2>1, <2>2, <2>3 DEF Paid
<1>4. CASE x.at = "save"
  <2>1. Saving' = Saving \cup {i}
    BY <1>1, <1>4 DEF Saving
  <2>2. Cardinality(Saving \cup {i}) = IF i \in Saving THEN Cardinality(Saving)
                                       ELSE Cardinality(Saving) + 1
    BY <1>2, FS_AddElement
  <2>3. QED
    BY <1>2, <1>4, <2>1, <2>2 DEF Paid
<1>5. QED
  BY <1>3, <1>4

LEMMA RowsKept ==
  ASSUME TypeOK, Busy, Rows, UNCHANGED <<saved, nextRow, workerVars>>,
         doc' \in 0..NumEvents, doc' >= doc
  PROVE  Rows'
<1>1. /\ doc \in Int /\ doc' \in Int
      /\ \A i \in Instances : trying[i].at # "idle" => trying[i].row.ev \in Int
  BY Bounds DEF TypeOK, Busy, SavedRow
<1>2. QED
  BY <1>1 DEF Rows, Known, workerVars

TableStates == {"untried", "ready", "failed"}

\* Creating the tables, or failing to, is between a process and its database.
LEMMA TablesTyped ==
  ASSUME TypeOK, NEW i \in Instances, NEW t \in TableStates,
         tables' = [tables EXCEPT ![i] = t]
  PROVE  tables' \in [Instances -> TableStates]
BY DEF TypeOK, TableStates

Work == [at : {"fetch", "get", "index", "save", "bury", "commit"}, ev : 0..NumEvents]

\* A consumer goes on with its event.
LEMMA ConsumerMoves ==
  ASSUME IInv, NEW i \in Instances, doing[i].ev \in Events,
         NEW step \in {"get", "index", "save", "bury", "commit"}, GoTo(i, step),
         UNCHANGED <<committed, owner, next, workerVars>>,
         tables' \in [Instances -> TableStates],
         doc' \in 0..NumEvents, doc' >= doc, esVersion' \in Nat, Versioned',
         dlq \subseteq dlq', dlq' \subseteq Events, retries' = retries,
         faults' \in 0..MaxFaults,
         \/ UNCHANGED <<saved, nextRow>> /\ ((step # "save" /\ faults' >= faults) \/ faults' = faults + 1)
         \/ /\ step # "save" /\ doing[i].at = "save" /\ faults' = faults
            /\ saved' = [saved EXCEPT ![nextRow] = doing[i].ev] /\ nextRow' = nextRow + 1
            /\ nextRow \in RowIds,
         step = "commit" =>
           doc' >= doing[i].ev \/ doing[i].ev \in dlq' \/ \E id \in RowIds : saved'[id] = doing[i].ev
  PROVE  IInv'
<1>1. /\ doing' = [doing EXCEPT ![i] = Doing(step, doing[i].ev)]
      /\ Doing(step, doing[i].ev) \in Work
      /\ Doing(step, doing[i].ev).at = step /\ Doing(step, doing[i].ev).ev = doing[i].ev
  BY Bounds DEF GoTo, Doing, Work
<1>2. /\ doing' \in [Instances -> Work]
      /\ \A j \in Instances : doing'[j] = IF j = i THEN Doing(step, doing[i].ev) ELSE doing[j]
  BY <1>1 DEF IInv, TypeOK, Work
<1>3. /\ saved' \in [RowIds -> 0..NumEvents] /\ nextRow' \in 1..(MaxFaults + 1)
      /\ nextRow' >= nextRow
      /\ \A id \in RowIds : saved'[id] = saved[id] \/ (id = nextRow /\ nextRow' = nextRow + 1)
  <2>1. saved \in [RowIds -> 0..NumEvents] /\ nextRow \in 1..(MaxFaults + 1)
    BY DEF IInv, TypeOK
  <2>2. CASE UNCHANGED <<saved, nextRow>>
    BY <2>1, <2>2
  <2>3. CASE /\ saved' = [saved EXCEPT ![nextRow] = doing[i].ev] /\ nextRow' = nextRow + 1
             /\ nextRow \in RowIds
    BY <2>1, <2>3, Bounds
  <2>4. QED
    BY <2>2, <2>3
<1>4. TypeOK'
  BY <1>2, <1>3 DEF IInv, TypeOK, Work, TableStates, workerVars
<1>5. Busy'
  BY <1>1, <1>2, Bounds DEF IInv, Busy, workerVars
<1>6. Paid'
  <2>1. nextRow' \in Int /\ faults' \in Int /\ faults \in Int
    BY <1>3, Bounds DEF IInv, TypeOK
  <2>2. \/ step # "save" /\ nextRow' = nextRow /\ faults' >= faults
        \/ step # "save" /\ doing[i].at = "save" /\ nextRow' = nextRow + 1 /\ faults' = faults
        \/ step = "save" /\ nextRow' = nextRow /\ faults' = faults + 1
    BY <2>1
  <2>3. TypeOK /\ Paid
    BY DEF IInv
  <2>4. QED
    BY <1>1, <2>1, <2>2, <2>3, PaidKept
<1>7. Rows'
  <2>1. /\ doc \in Int /\ doc' \in Int /\ nextRow \in Int /\ nextRow' \in Int
        /\ \A j \in Instances : trying[j].at # "idle" => trying[j].row \in SavedRow
        /\ \A j \in Instances : scan[j] \subseteq SavedRow
        /\ \A r \in SavedRow : r.id \in Int /\ r.id \in RowIds /\ r.ev \in Int
    <3>1. \A r \in SavedRow : r.id \in RowIds /\ r.ev \in Events
      BY DEF SavedRow
    <3>2. \A j \in Instances : scan[j] \subseteq SavedRow
      BY DEF IInv, TypeOK
    <3>3. \A j \in Instances : trying[j].at # "idle" => trying[j].row \in SavedRow
      BY DEF IInv, Busy
    <3>4. doc \in Int /\ nextRow \in Int
      BY Bounds DEF IInv, TypeOK
    <3>5. doc' \in Int /\ nextRow' \in Int
      BY <1>3, Bounds
    <3>6. QED
      BY <3>1, <3>2, <3>3, <3>4, <3>5, Bounds
  <2>2. \A r \in SavedRow : Known(r) => Known(r)'
    BY <1>3, <2>1 DEF Known
  <2>3. \A id \in RowIds : id >= nextRow' => saved'[id] = 0
    <3> SUFFICES ASSUME NEW id \in RowIds, id >= nextRow'
                 PROVE  saved'[id] = 0
      OBVIOUS
    <3>1. id \in Int
      BY Bounds
    <3>2. id >= nextRow /\ ~(id = nextRow /\ nextRow' = nextRow + 1)
      <4>1. nextRow' >= nextRow
        BY <1>3
      <4>2. QED
        BY <2>1, <3>1, <4>1
    <3>3. saved'[id] = saved[id]
      BY <1>3, <3>2
    <3>4. saved[id] = 0
      <4>1. \A n \in RowIds : n >= nextRow => saved[n] = 0
        BY DEF IInv, Rows
      <4>2. QED
        BY <3>2, <4>1
    <3>5. QED
      BY <3>3, <3>4
  <2>4. QED
    BY <2>1, <2>2, <2>3 DEF IInv, Rows, workerVars
<1>8. \A e \in Events : Covered(e) => Covered(e)'
  <2>1. \A id \in RowIds : saved'[id] = saved[id] \/ saved[id] = 0
    <3>1. nextRow \in RowIds => saved[nextRow] = 0
      BY Bounds DEF IInv, Rows
    <3>2. QED
      BY <1>3, <3>1
  <2>2. QED
    BY <2>1, Stays DEF IInv
<1>9. step = "commit" => \A e \in Events : e = doing[i].ev => Covered(e)'
  BY DEF Covered
<1>10. Commits'
  BY <1>1, <1>2, <1>8, <1>9, CommitsKept DEF IInv
<1>11. QED
  BY <1>4, <1>5, <1>6, <1>7, <1>10 DEF IInv

----------------------------------------------------------------------------
(* The consumer, one lemma for each of its actions.                        *)

\* In a step that leaves docVars alone.
LEMMA DocKept ==
  ASSUME IInv, UNCHANGED docVars
  PROVE  doc' \in 0..NumEvents /\ doc' >= doc /\ esVersion' \in Nat /\ Versioned'
<1>1. doc \in 0..NumEvents /\ esVersion \in Nat /\ doc' = doc /\ esVersion' = esVersion
  BY DEF IInv, TypeOK, docVars
<1>2. Versioned'
  BY <1>1 DEF IInv, Versioned, ExternalVersion
<1>3. QED
  BY <1>1, <1>2, Bounds

LEMMA FetchStep ==
  ASSUME IInv, NEW i \in Instances, FetchMessage(i)
  PROVE  IInv' /\ doc' >= doc
<1> DEFINE x == Doing(IF next[i] \in Poison THEN "bury" ELSE "get", next[i])
<1>1. /\ doing[i].at = "fetch" /\ next[i] <= NumEvents
      /\ doing' = [doing EXCEPT ![i] = x]
      /\ next' = [next EXCEPT ![i] = @ + 1]
      /\ NoFault
      /\ UNCHANGED <<committed, owner, docVars, retryVars, workerVars, tables, dlq>>
  BY DEF FetchMessage
<1>2. /\ next \in [Instances -> 1..(NumEvents + 1)] /\ doing \in [Instances -> Work]
      /\ next[i] \in Events /\ doing[i].ev = 0
      /\ nextRow \in Int /\ faults \in Int
  BY <1>1, Bounds DEF IInv, TypeOK, Busy, Work
<1>3. x \in Work /\ x.at \in {"bury", "get"} /\ x.ev = next[i]
  BY <1>2, Bounds DEF Doing, Work
<1>4. /\ doing' \in [Instances -> Work]
      /\ \A j \in Instances : doing'[j] = IF j = i THEN x ELSE doing[j]
      /\ next' \in [Instances -> 1..(NumEvents + 1)]
      /\ \A j \in Instances : next'[j] = IF j = i THEN next[i] + 1 ELSE next[j]
  BY <1>1, <1>2, <1>3, Bounds
<1>5. doc' \in 0..NumEvents /\ doc' >= doc /\ esVersion' \in Nat /\ Versioned'
  BY <1>1, DocKept
<1>6. TypeOK'
  BY <1>1, <1>4, <1>5 DEF IInv, TypeOK, Work, retryVars, workerVars, NoFault
<1>7. Busy'
  BY <1>1, <1>2, <1>3, <1>4, Bounds DEF IInv, Busy, workerVars
<1>8. Paid'
  <2>1. TypeOK /\ Paid /\ nextRow' = nextRow /\ faults' = faults
    BY <1>1 DEF IInv, retryVars, NoFault
  <2>2. x.at # "save"
    BY <1>3
  <2>3. faults' >= faults
    BY <1>2, <2>1
  <2>4. QED
    BY <1>1, <1>2, <2>1, <2>2, <2>3, PaidKept
<1>9. Rows'
  BY <1>1, <1>5, RowsKept DEF IInv, retryVars
<1>10. \A e \in Events : Covered(e)' <=> Covered(e)
  BY <1>1 DEF Covered, docVars, retryVars
<1>11. Commits'
  <2>1. ASSUME NEW e \in Events, e < next[i] PROVE Covered(e)
    BY <1>2, <2>1, Bounds DEF IInv, Commits
  <2>2. ASSUME NEW e \in Events, e < next[i] + 1 PROVE e = next[i] \/ e < next[i]
    BY <1>2, <2>2, Bounds
  <2>3. QED
    BY <1>1, <1>3, <1>4, <1>10, <2>1, <2>2 DEF IInv, Commits
<1>12. QED
  BY <1>5, <1>6, <1>7, <1>8, <1>9, <1>11 DEF IInv

LEMMA GetStep ==
  ASSUME IInv, NEW i \in Instances, GetVersion(i)
  PROVE  IInv' /\ doc' >= doc
<1>1. /\ doing[i].at = "get"
      /\ UNCHANGED <<committed, owner, next, docVars, retryVars, workerVars, tables, dlq>>
      /\ \/ GoTo(i, IF IsOld(doing[i].ev) THEN "commit" ELSE "index") /\ NoFault
         \/ GoTo(i, "save") /\ Fault("get")
  BY DEF GetVersion
<1>2. /\ doing[i].ev \in Events /\ faults \in 0..MaxFaults /\ dlq \subseteq Events
      /\ tables' \in [Instances -> TableStates]
  BY <1>1, Bounds DEF IInv, TypeOK, Busy, TableStates
<1>3. doc' \in 0..NumEvents /\ doc' >= doc /\ esVersion' \in Nat /\ Versioned'
  BY <1>1, DocKept
<1>4. IsOld(doing[i].ev) => doc' >= doing[i].ev
  <2>1. IsOld(doing[i].ev) => doc >= doing[i].ev
    BY <1>2, OldIsCovered DEF IInv, TypeOK
  <2>2. QED
    BY <1>1, <2>1 DEF docVars
<1>5. CASE GoTo(i, IF IsOld(doing[i].ev) THEN "commit" ELSE "index") /\ NoFault
  <2>1. faults' \in 0..MaxFaults /\ faults' >= faults
    BY <1>2, <1>5, FaultCounts
  <2>2. CASE IsOld(doing[i].ev)
    BY <1>1, <1>2, <1>3, <1>4, <1>5, <2>1, <2>2, ConsumerMoves DEF retryVars
  <2>3. CASE ~IsOld(doing[i].ev)
    BY <1>1, <1>2, <1>3, <1>5, <2>1, <2>3, ConsumerMoves DEF retryVars
  <2>4. QED
    BY <2>2, <2>3
<1>6. CASE GoTo(i, "save") /\ Fault("get")
  <2>1. faults' \in 0..MaxFaults /\ faults' = faults + 1
    BY <1>2, <1>6, FaultCounts
  <2>2. QED
    BY <1>1, <1>2, <1>3, <1>6, <2>1, ConsumerMoves DEF retryVars
<1>7. QED
  BY <1>1, <1>5, <1>6

LEMMA IndexEventStep ==
  ASSUME IInv, NEW i \in Instances, Index(i)
  PROVE  IInv' /\ doc' >= doc
<1> DEFINE e == doing[i].ev
<1>1. /\ doing[i].at = "index"
      /\ UNCHANGED <<committed, owner, next, retryVars, workerVars, tables, dlq>>
      /\ \/ IndexDocument(e) /\ GoTo(i, "commit") /\ NoFault
         \/ UNCHANGED docVars /\ GoTo(i, "save") /\ Fault("index")
         \/ IndexDocument(e) /\ GoTo(i, "save") /\ Fault("reply")
  BY DEF Index
<1>2. /\ e \in Events /\ faults \in 0..MaxFaults /\ dlq \subseteq Events /\ doc \in 0..NumEvents
      /\ tables' \in [Instances -> TableStates]
  BY <1>1, Bounds DEF IInv, TypeOK, Busy, TableStates
<1>3. doc' \in 0..NumEvents /\ doc' >= doc /\ esVersion' \in Nat /\ Versioned'
  BY <1>1, <1>2, DocKept, IndexStep DEF IInv
<1>4. CASE IndexDocument(e) /\ GoTo(i, "commit") /\ NoFault
  <2>1. faults' \in 0..MaxFaults /\ faults' >= faults /\ doc' >= e
    BY <1>2, <1>4, FaultCounts, IndexStep DEF IInv
  <2>2. QED
    BY <1>1, <1>2, <1>3, <1>4, <2>1, ConsumerMoves DEF retryVars
<1>5. CASE GoTo(i, "save") /\ (Fault("index") \/ Fault("reply"))
  <2>1. faults' \in 0..MaxFaults /\ faults' = faults + 1
    BY <1>2, <1>5, FaultCounts
  <2>2. QED
    BY <1>1, <1>2, <1>3, <1>5, <2>1, ConsumerMoves DEF retryVars
<1>6. QED
  BY <1>1, <1>4, <1>5

LEMMA SaveStep ==
  ASSUME IInv, NEW i \in Instances, SaveRetry(i)
  PROVE  IInv' /\ doc' >= doc
<1>1. /\ doing[i].at = "save" /\ GoTo(i, "commit") /\ NoFault
      /\ tables' = [tables EXCEPT ![i] = "ready"]
      /\ saved' = [saved EXCEPT ![nextRow] = doing[i].ev] /\ nextRow' = nextRow + 1
      /\ UNCHANGED <<committed, owner, next, docVars, retries, workerVars, dlq>>
  BY DEF SaveRetry, TablesReady
<1>2. /\ doing[i].ev \in Events /\ faults \in 0..MaxFaults /\ dlq \subseteq Events
      /\ saved \in [RowIds -> 0..NumEvents] /\ nextRow \in 1..(MaxFaults + 1)
  BY <1>1, Bounds DEF IInv, TypeOK, Busy
<1>3. doc' \in 0..NumEvents /\ doc' >= doc /\ esVersion' \in Nat /\ Versioned'
  BY <1>1, DocKept
<1>4. nextRow \in RowIds
  <2>1. i \in Saving /\ Saving \subseteq Instances
    BY <1>1 DEF Saving
  <2>2. IsFiniteSet(Saving) /\ Cardinality(Saving) \in Nat /\ Cardinality(Saving) # 0
    BY <2>1, ESSyncAssumption, FS_Subset, FS_CardinalityType, FS_EmptySet
  <2>3. QED
    BY <1>2, <2>2, Bounds DEF IInv, Paid
<1>5. saved'[nextRow] = doing[i].ev /\ faults' = faults
  BY <1>1, <1>2, <1>4 DEF NoFault
<1>6. tables' \in [Instances -> TableStates]
  BY <1>1, TablesTyped DEF IInv, TableStates
<1>7. QED
  BY <1>1, <1>2, <1>3, <1>4, <1>5, <1>6, ConsumerMoves

LEMMA BuryStep ==
  ASSUME IInv, NEW i \in Instances, Bury(i)
  PROVE  IInv' /\ doc' >= doc
<1>1. /\ doing[i].at = "bury" /\ GoTo(i, "commit") /\ NoFault
      /\ tables' = [tables EXCEPT ![i] = "ready"]
      /\ dlq' = dlq \cup {doing[i].ev}
      /\ UNCHANGED <<committed, owner, next, docVars, retryVars, workerVars>>
  BY DEF Bury, TablesReady
<1>2. doing[i].ev \in Events /\ faults \in 0..MaxFaults /\ dlq \subseteq Events
  BY <1>1, Bounds DEF IInv, TypeOK, Busy
<1>3. doc' \in 0..NumEvents /\ doc' >= doc /\ esVersion' \in Nat /\ Versioned'
  BY <1>1, DocKept
<1>4. faults' \in 0..MaxFaults /\ faults' >= faults
  BY <1>1, <1>2, FaultCounts
<1>5. tables' \in [Instances -> TableStates]
  BY <1>1, TablesTyped DEF IInv, TableStates
<1>6. QED
  BY <1>1, <1>2, <1>3, <1>4, <1>5, ConsumerMoves DEF retryVars

\* Instance i has nothing in hand any more.
LEMMA RestingWork ==
  ASSUME IInv, NEW i \in Instances, doing' = [doing EXCEPT ![i] = Resting]
  PROVE  /\ doing' \in [Instances -> Work]
         /\ \A j \in Instances : doing'[j] = IF j = i THEN Resting ELSE doing[j]
         /\ Resting.at = "fetch" /\ Resting.ev = 0
<1>1. Resting \in Work /\ Resting.at = "fetch" /\ Resting.ev = 0
  BY Bounds DEF Resting, Doing, Work
<1>2. doing \in [Instances -> Work]
  BY DEF IInv, TypeOK, Work
<1>3. QED
  BY <1>1, <1>2

LEMMA CommitStep ==
  ASSUME IInv, NEW i \in Instances, CommitMessage(i)
  PROVE  IInv' /\ doc' >= doc
<1>1. /\ doing[i].at = "commit"
      /\ committed' = doing[i].ev
      /\ doing' = [doing EXCEPT ![i] = Resting]
      /\ NoFault
      /\ UNCHANGED <<owner, next, docVars, retryVars, workerVars, tables, dlq>>
  BY DEF CommitMessage
<1>2. /\ doing' \in [Instances -> Work]
      /\ \A j \in Instances : doing'[j] = IF j = i THEN Resting ELSE doing[j]
      /\ Resting.at = "fetch" /\ Resting.ev = 0
  BY <1>1, RestingWork
<1>3. doc' \in 0..NumEvents /\ doc' >= doc /\ esVersion' \in Nat /\ Versioned'
  BY <1>1, DocKept
<1>4. TypeOK'
  BY <1>1, <1>2, <1>3 DEF IInv, TypeOK, Work, retryVars, workerVars, NoFault
<1>5. Busy'
  BY <1>1, <1>2 DEF IInv, Busy, workerVars
<1>6. Paid'
  <2>1. TypeOK /\ Paid /\ nextRow' = nextRow /\ faults' = faults
    BY <1>1 DEF IInv, retryVars, NoFault
  <2>2. nextRow \in Int /\ faults \in Int
    BY Bounds DEF IInv, TypeOK
  <2>3. faults' >= faults
    BY <2>1, <2>2
  <2>4. QED
    BY <1>1, <1>2, <2>1, <2>2, <2>3, PaidKept
<1>7. Rows'
  BY <1>1, <1>3, RowsKept DEF IInv, retryVars
<1>8. \A e \in Events : Covered(e) => Covered(e)'
  BY <1>1 DEF Covered, docVars, retryVars
<1>9. Commits'
  BY <1>1, <1>2, <1>8, CommitsKept DEF IInv
<1>10. QED
  BY <1>3, <1>4, <1>5, <1>6, <1>7, <1>9 DEF IInv

LEMMA RestartStep ==
  ASSUME IInv, NEW i \in Instances, Restart(i), faults' \in 0..MaxFaults, faults' >= faults
  PROVE  IInv' /\ doc' >= doc
<1>1. /\ doing' = [doing EXCEPT ![i] = Resting]
      /\ next' = [next EXCEPT ![i] = committed + 1]
      /\ scan' = [scan EXCEPT ![i] = {}]
      /\ trying' = [trying EXCEPT ![i] = Idle]
      /\ tables' = [tables EXCEPT ![i] = "untried"]
      /\ UNCHANGED <<committed, owner, docVars, retryVars, dlq>>
  BY DEF Restart
<1>2. /\ doing' \in [Instances -> Work]
      /\ \A j \in Instances : doing'[j] = IF j = i THEN Resting ELSE doing[j]
      /\ Resting.at = "fetch" /\ Resting.ev = 0
  BY <1>1, RestingWork
<1>3. /\ next' \in [Instances -> 1..(NumEvents + 1)]
      /\ \A j \in Instances : next'[j] = IF j = i THEN committed + 1 ELSE next[j]
  <2>1. next \in [Instances -> 1..(NumEvents + 1)] /\ committed + 1 \in 1..(NumEvents + 1)
    BY Bounds DEF IInv, TypeOK
  <2>2. QED
    BY <1>1, <2>1
<1>4. /\ scan' \in [Instances -> SUBSET SavedRow]
      /\ \A j \in Instances : scan'[j] = IF j = i THEN {} ELSE scan[j]
  BY <1>1 DEF IInv, TypeOK
<1>5. /\ trying' \in [Instances -> [at : {"idle", "get", "index", "done", "failed"},
                                   row : SavedRow \cup {NoRow}]]
      /\ \A j \in Instances : trying'[j] = IF j = i THEN Idle ELSE trying[j]
      /\ Idle.at = "idle"
  BY <1>1 DEF IInv, TypeOK, Idle, Trying
<1>6. doc' \in 0..NumEvents /\ doc' >= doc /\ esVersion' \in Nat /\ Versioned'
  BY <1>1, DocKept
<1>7. TypeOK'
  <2>1. tables' \in [Instances -> TableStates]
    BY <1>1, TablesTyped DEF IInv, TableStates
  <2>2. QED
    BY <1>1, <1>2, <1>3, <1>4, <1>5, <1>6, <2>1 DEF IInv, TypeOK, Work, TableStates, retryVars
<1>8. Busy'
  BY <1>2, <1>5 DEF IInv, Busy
<1>9. Paid'
  <2>1. TypeOK /\ Paid /\ nextRow' = nextRow
    BY <1>1 DEF IInv, retryVars
  <2>2. nextRow \in Int /\ faults' \in Int
    BY Bounds DEF IInv, TypeOK
  <2>3. QED
    BY <1>1, <1>2, <2>1, <2>2, PaidKept
<1>10. Rows'
  BY <1>1, <1>4, <1>5 DEF IInv, Rows, Known, docVars, retryVars
<1>11. \A e \in Events : Covered(e) => Covered(e)'
  BY <1>1 DEF Covered, docVars, retryVars
<1>12. Commits'
  BY <1>1, <1>2, <1>3, <1>11, CommitsKept DEF IInv
<1>13. QED
  BY <1>6, <1>7, <1>8, <1>9, <1>10, <1>12 DEF IInv

LEMMA StopStep ==
  ASSUME IInv, NEW i \in Instances, \/ CommitRefused(i) \/ SaveRefused(i)
                                \/ SaveFails(i) \/ Crash(i)
  PROVE  IInv' /\ doc' >= doc
<1>1. Restart(i) /\ (NoFault \/ Fault("db") \/ Fault("ddl") \/ Fault("crash"))
  BY DEF CommitRefused, SaveRefused, SaveFails, Crash
<1>2. faults' \in 0..MaxFaults /\ faults' >= faults
  BY <1>1, FaultCounts DEF IInv, TypeOK
<1>3. QED
  BY <1>1, <1>2, RestartStep

LEMMA RebalanceStep ==
  ASSUME IInv, NEW i \in Instances, Rebalance(i)
  PROVE  IInv' /\ doc' >= doc
<1>1. /\ Fault("rebalance") /\ owner' = i
      /\ next' = [next EXCEPT ![i] = committed + 1]
      /\ UNCHANGED <<committed, doing, docVars, retryVars, workerVars, tables, dlq>>
  BY DEF Rebalance
<1>2. faults' \in 0..MaxFaults /\ faults' >= faults /\ faults \in Int /\ nextRow \in Int
  BY <1>1, FaultCounts, Bounds DEF IInv, TypeOK
<1>3. /\ next' \in [Instances -> 1..(NumEvents + 1)]
      /\ \A j \in Instances : next'[j] = IF j = i THEN committed + 1 ELSE next[j]
  <2>1. next \in [Instances -> 1..(NumEvents + 1)] /\ committed + 1 \in 1..(NumEvents + 1)
    BY Bounds DEF IInv, TypeOK
  <2>2. QED
    BY <1>1, <2>1
<1>4. doc' \in 0..NumEvents /\ doc' >= doc /\ esVersion' \in Nat /\ Versioned'
  BY <1>1, DocKept
<1>5. TypeOK'
  BY <1>1, <1>2, <1>3, <1>4 DEF IInv, TypeOK, retryVars, workerVars
<1>6. Busy'
  BY <1>1 DEF IInv, Busy, workerVars
<1>7. Paid'
  <2>1. Saving' = Saving /\ nextRow' = nextRow
    BY <1>1 DEF Saving, retryVars
  <2>2. Cardinality(Saving) \in Nat
    BY ESSyncAssumption, Saving \subseteq Instances, FS_Subset, FS_CardinalityType DEF Saving
  <2>3. QED
    BY <1>2, <2>1, <2>2, Bounds DEF IInv, Paid
<1>8. Rows'
  BY <1>1, <1>4, RowsKept DEF IInv, retryVars
<1>9. \A e \in Events : Covered(e) => Covered(e)'
  BY <1>1 DEF Covered, docVars, retryVars
<1>10. doing'[i].at = "commit" => \A e \in Events : e = doing'[i].ev => Covered(e)'
  BY <1>1, <1>9 DEF IInv, Commits
<1>11. Commits'
  BY <1>1, <1>3, <1>9, <1>10, CommitsKept DEF IInv
<1>12. QED
  BY <1>4, <1>5, <1>6, <1>7, <1>8, <1>11 DEF IInv

----------------------------------------------------------------------------
(* The retry worker.                                                       *)

\* Nothing changes for the consumers.
LEMMA ConsumersKept ==
  ASSUME IInv, UNCHANGED <<consumerVars, nextRow>>, faults' \in 0..MaxFaults, faults' >= faults,
         \A e \in Events : Covered(e) => Covered(e)'
  PROVE  Paid' /\ Commits'
<1>1. Saving' = Saving /\ UNCHANGED <<committed, owner, next, doing, nextRow>>
  BY DEF Saving, consumerVars
<1>2. Cardinality(Saving) \in Nat /\ faults \in Int /\ nextRow \in Int
  BY ESSyncAssumption, Saving \subseteq Instances, FS_Subset, FS_CardinalityType, Bounds
     DEF Saving, IInv, TypeOK
<1>3. Paid'
  BY <1>1, <1>2, Bounds DEF IInv, Paid
<1>4. Commits'
  BY <1>1 DEF IInv, Commits
<1>5. QED
  BY <1>3, <1>4

Attempt == [at : {"idle", "get", "index", "done", "failed"}, row : SavedRow \cup {NoRow}]

LEMMA RowTypes ==
  ASSUME NEW r \in SavedRow
  PROVE  r.id \in RowIds /\ r.ev \in Events /\ r.n \in 0..(MaxAttempts - 1)
BY DEF SavedRow

LEMMA ScanStep ==
  ASSUME IInv, NEW i \in Instances, NEW S \in SUBSET RowsNow, ScanRetries(i, S)
  PROVE  IInv' /\ doc' >= doc
<1>1. /\ scan' = [scan EXCEPT ![i] = S]
      /\ tables' = [tables EXCEPT ![i] = "ready"]
      /\ UNCHANGED <<consumerVars, docVars, retryVars, trying, dlq, faults>>
  BY DEF ScanRetries, TablesReady
<1>2. \A r \in S : r \in SavedRow /\ Known(r)
  <2> SUFFICES ASSUME NEW r \in S PROVE r \in SavedRow /\ Known(r)
    OBVIOUS
  <2>1. PICK id \in RowIds : saved[id] # 0 /\ r = [id |-> id, ev |-> saved[id], n |-> retries[id]]
    BY DEF RowsNow
  <2>2. saved[id] \in Events /\ retries[id] \in 0..(MaxAttempts - 1)
    BY <2>1, Bounds DEF IInv, TypeOK
  <2>3. id < nextRow
    BY <2>1, Bounds DEF IInv, TypeOK, Rows
  <2>4. QED
    BY <2>1, <2>2, <2>3 DEF SavedRow, Known
<1>3. /\ scan' \in [Instances -> SUBSET SavedRow]
      /\ \A j \in Instances : scan'[j] = IF j = i THEN S ELSE scan[j]
  BY <1>1, <1>2 DEF IInv, TypeOK
<1>4. doc' \in 0..NumEvents /\ doc' >= doc /\ esVersion' \in Nat /\ Versioned'
  BY <1>1, DocKept
<1>5. TypeOK'
  <2>1. tables' \in [Instances -> TableStates]
    BY <1>1, TablesTyped DEF IInv, TableStates
  <2>2. QED
    BY <1>1, <1>3, <1>4, <2>1 DEF IInv, TypeOK, TableStates, consumerVars, retryVars
<1>6. Busy'
  BY <1>1 DEF IInv, Busy, consumerVars
<1>7. Rows'
  <2>1. \A r \in SavedRow : Known(r) => Known(r)'
    BY <1>1 DEF Known, retryVars
  <2>2. QED
    BY <1>1, <1>2, <1>3, <2>1 DEF IInv, Rows, TypeOK, Known, retryVars, docVars
<1>8. Paid' /\ Commits'
  <2>1. faults' \in 0..MaxFaults /\ faults' >= faults /\ nextRow' = nextRow
    BY <1>1, Bounds DEF IInv, TypeOK, retryVars
  <2>2. \A e \in Events : Covered(e) => Covered(e)'
    BY <1>1 DEF Covered, docVars, retryVars
  <2>3. QED
    BY <1>1, <2>1, <2>2, ConsumersKept
<1>9. QED
  BY <1>4, <1>5, <1>6, <1>7, <1>8 DEF IInv

\* The worker of i goes on: with a row it has read, or with none.
LEMMA WorkerMoves ==
  ASSUME IInv, NEW i \in Instances, NEW x \in Attempt,
         trying' = [trying EXCEPT ![i] = x],
         x.at # "idle" => x.row \in SavedRow /\ Known(x.row),
         x.at = "done" => doc' >= x.row.ev,
         NEW T \in SUBSET scan[i], scan' = [scan EXCEPT ![i] = T],
         UNCHANGED <<consumerVars, tables, nextRow>>,
         doc' \in 0..NumEvents, doc' >= doc, esVersion' \in Nat, Versioned',
         faults' \in 0..MaxFaults, faults' >= faults,
         saved' \in [RowIds -> 0..NumEvents], retries' \in [RowIds -> 0..(MaxAttempts - 1)],
         dlq \subseteq dlq', dlq' \subseteq Events,
         \A id \in RowIds : \/ saved'[id] = saved[id]
                            \/ saved'[id] = 0 /\ (doc' >= saved[id] \/ saved[id] \in dlq')
  PROVE  IInv' /\ doc' >= doc
<1>1. /\ scan' \in [Instances -> SUBSET SavedRow]
      /\ \A j \in Instances : scan'[j] \subseteq scan[j]
  BY DEF IInv, TypeOK
<1>2. /\ trying' \in [Instances -> Attempt]
      /\ \A j \in Instances : trying'[j] = IF j = i THEN x ELSE trying[j]
  BY DEF IInv, TypeOK, Attempt
<1>3. TypeOK'
  BY <1>1, <1>2 DEF IInv, TypeOK, Attempt, consumerVars
<1>4. Busy'
  BY <1>2 DEF IInv, Busy, consumerVars
<1>5. Rows'
  <2>1. \A r \in SavedRow : Known(r) => Known(r)'
    BY RowTypes DEF Known
  <2>2. \A id \in RowIds : id >= nextRow' => saved'[id] = 0
    BY DEF IInv, Rows
  <2>3. \A j \in Instances : \A r \in scan'[j] : Known(r)'
    BY <1>1, <2>1 DEF IInv, TypeOK, Rows
  <2>4. ASSUME NEW j \in Instances, (trying[j].at # "idle")' PROVE Known(trying[j].row)'
    <3>1. CASE j = i
      <4>1. x.row \in SavedRow /\ Known(x.row) /\ (trying[j].row)' = x.row
        BY <1>2, <2>4, <3>1
      <4>2. QED
        BY <2>1, <4>1 DEF Known
    <3>2. CASE j # i
      <4>1. trying[j].row \in SavedRow /\ Known(trying[j].row) /\ (trying[j].row)' = trying[j].row
        BY <1>2, <2>4, <3>2 DEF IInv, Busy, Rows
      <4>2. QED
        BY <2>1, <4>1 DEF Known
    <3>3. QED
      BY <3>1, <3>2
  <2>5. ASSUME NEW j \in Instances, (trying[j].at = "done")' PROVE (doc >= trying[j].row.ev)'
    <3>1. CASE j = i
      BY <1>2, <2>5, <3>1
    <3>2. CASE j # i
      <4>1. /\ trying[j].row \in SavedRow /\ doc >= trying[j].row.ev
            /\ trying'[j] = trying[j]
        BY <1>2, <2>5, <3>2 DEF IInv, Busy, Rows
      <4>2. trying[j].row.ev \in Int /\ doc \in Int
        BY <4>1, RowTypes, Bounds DEF IInv, TypeOK
      <4>3. trying'[j].row.ev = trying[j].row.ev /\ doc' \in Int /\ doc' >= doc
        BY <4>1, Bounds
      <4>4. doc' >= trying[j].row.ev
        BY <4>1, <4>2, <4>3
      <4>5. QED
        BY <4>3, <4>4
    <3>3. QED
      BY <3>1, <3>2
  <2>6. QED
    BY <2>2, <2>3, <2>4, <2>5 DEF Rows
<1>6. Paid' /\ Commits'
  <2>1. \A e \in Events : Covered(e) => Covered(e)'
    BY Stays DEF IInv
  <2>2. QED
    BY <2>1, ConsumersKept
<1>7. QED
  BY <1>3, <1>4, <1>5, <1>6 DEF IInv

\* The rows stay as they are.
LEMMA WorkerKeepsRows ==
  ASSUME IInv, UNCHANGED <<retryVars, dlq>>
  PROVE  /\ saved' \in [RowIds -> 0..NumEvents] /\ retries' \in [RowIds -> 0..(MaxAttempts - 1)]
         /\ nextRow' = nextRow /\ saved' = saved /\ dlq \subseteq dlq' /\ dlq' \subseteq Events
BY DEF IInv, TypeOK, retryVars

LEMMA ScanFailsStep ==
  ASSUME IInv, NEW I \in SUBSET Instances, ScanFails(I)
  PROVE  IInv' /\ doc' >= doc
<1>1. /\ Fault("ddl")
      /\ tables' = [i \in Instances |-> IF i \in I THEN "failed" ELSE tables[i]]
      /\ UNCHANGED <<consumerVars, docVars, retryVars, workerVars, dlq>>
  BY DEF ScanFails
<1>2. faults' \in 0..MaxFaults /\ faults' >= faults
  BY <1>1, FaultCounts DEF IInv, TypeOK
<1>3. doc' \in 0..NumEvents /\ doc' >= doc /\ esVersion' \in Nat /\ Versioned'
  BY <1>1, DocKept
<1>4. TypeOK'
  <2>1. tables' \in [Instances -> TableStates]
    BY <1>1 DEF IInv, TypeOK, TableStates
  <2>2. QED
    BY <1>1, <1>2, <1>3, <2>1 DEF IInv, TypeOK, TableStates, consumerVars, retryVars, workerVars
<1>5. Busy'
  BY <1>1 DEF IInv, Busy, consumerVars, workerVars
<1>6. Rows'
  BY <1>1, <1>3, RowsKept DEF IInv, retryVars
<1>7. Paid' /\ Commits'
  <2>1. \A e \in Events : Covered(e) => Covered(e)'
    BY <1>1 DEF Covered, docVars, retryVars
  <2>2. QED
    BY <1>1, <1>2, <2>1, ConsumersKept DEF retryVars
<1>8. QED
  BY <1>3, <1>4, <1>5, <1>6, <1>7 DEF IInv

LEMMA TakeRowStep ==
  ASSUME IInv, NEW i \in Instances, TakeRow(i)
  PROVE  IInv' /\ doc' >= doc
<1>1. PICK r \in scan[i] :
        /\ trying' = [trying EXCEPT ![i] = Trying("get", r)]
        /\ scan' = [scan EXCEPT ![i] = scan[i] \ {r}]
  BY DEF TakeRow
<1>2. UNCHANGED <<consumerVars, docVars, retryVars, tables, dlq, faults>>
  BY DEF TakeRow
<1>3. r \in SavedRow /\ Known(r) /\ faults \in 0..MaxFaults
  BY DEF IInv, TypeOK, Rows
<1>4. /\ Trying("get", r) \in Attempt
      /\ Trying("get", r).at = "get" /\ Trying("get", r).row = r
  BY <1>3 DEF Trying, Attempt
<1>5. doc' \in 0..NumEvents /\ doc' >= doc /\ esVersion' \in Nat /\ Versioned'
  BY <1>2, DocKept
<1>6. faults' \in 0..MaxFaults /\ faults' >= faults /\ scan[i] \ {r} \in SUBSET scan[i]
  BY <1>2, <1>3, Bounds
<1>7. QED
  BY <1>1, <1>2, <1>3, <1>4, <1>5, <1>6, WorkerKeepsRows, WorkerMoves

\* The worker of i goes on with the row it has.
LEMMA TryMoves ==
  ASSUME IInv, NEW i \in Instances, trying[i].at # "idle",
         NEW step \in {"index", "done", "failed"}, TryStep(i, step),
         step = "done" => doc' >= trying[i].row.ev,
         UNCHANGED <<consumerVars, retryVars, scan, tables, dlq>>,
         doc' \in 0..NumEvents, doc' >= doc, esVersion' \in Nat, Versioned',
         NEW k, NoFault \/ Fault(k)
  PROVE  IInv' /\ doc' >= doc
<1> DEFINE x == Trying(step, trying[i].row)
<1>1. trying[i].row \in SavedRow /\ Known(trying[i].row)
  BY DEF IInv, Busy, Rows
<1>2. /\ trying' = [trying EXCEPT ![i] = x]
      /\ x \in Attempt /\ x.at = step /\ x.row = trying[i].row
  BY <1>1 DEF TryStep, Trying, Attempt
<1>3. faults' \in 0..MaxFaults /\ faults' >= faults
  BY FaultCounts DEF IInv, TypeOK
<1>4. scan[i] \in SUBSET scan[i] /\ scan' = [scan EXCEPT ![i] = scan[i]]
  BY DEF IInv, TypeOK
<1>5. QED
  BY <1>1, <1>2, <1>3, <1>4, WorkerKeepsRows, WorkerMoves

LEMMA RetryGetStep ==
  ASSUME IInv, NEW i \in Instances, RetryGet(i)
  PROVE  IInv' /\ doc' >= doc
<1> DEFINE e == trying[i].row.ev
<1>1. /\ trying[i].at = "get"
      /\ UNCHANGED <<consumerVars, docVars, retryVars, scan, tables, dlq>>
      /\ \/ TryStep(i, IF IsOld(e) THEN "done" ELSE "index") /\ NoFault
         \/ TryStep(i, "failed") /\ Fault("get")
  BY DEF RetryGet
<1>2. doc' \in 0..NumEvents /\ doc' >= doc /\ esVersion' \in Nat /\ Versioned'
  BY <1>1, DocKept
<1>3. IsOld(e) => doc' >= e
  <2>1. e \in Events /\ doc \in 0..NumEvents
    BY <1>1, RowTypes DEF IInv, TypeOK, Busy
  <2>2. IsOld(e) => doc >= e
    BY <2>1, OldIsCovered
  <2>3. QED
    BY <1>1, <2>2 DEF docVars
<1>4. CASE TryStep(i, IF IsOld(e) THEN "done" ELSE "index") /\ NoFault
  <2>1. CASE IsOld(e)
    BY <1>1, <1>2, <1>3, <1>4, <2>1, TryMoves
  <2>2. CASE ~IsOld(e)
    BY <1>1, <1>2, <1>4, <2>2, TryMoves
  <2>3. QED
    BY <2>1, <2>2
<1>5. CASE TryStep(i, "failed") /\ Fault("get")
  BY <1>1, <1>2, <1>5, TryMoves
<1>6. QED
  BY <1>1, <1>4, <1>5

LEMMA RetryIndexStep ==
  ASSUME IInv, NEW i \in Instances, RetryIndex(i)
  PROVE  IInv' /\ doc' >= doc
<1> DEFINE e == trying[i].row.ev
<1>1. /\ trying[i].at = "index"
      /\ UNCHANGED <<consumerVars, retryVars, scan, tables, dlq>>
      /\ \/ IndexDocument(e) /\ TryStep(i, "done") /\ NoFault
         \/ UNCHANGED docVars /\ TryStep(i, "failed") /\ Fault("index")
         \/ IndexDocument(e) /\ TryStep(i, "failed") /\ Fault("reply")
  BY DEF RetryIndex
<1>2. e \in Events /\ doc \in 0..NumEvents /\ Versioned
  BY <1>1, RowTypes DEF IInv, TypeOK, Busy
<1>3. doc' \in 0..NumEvents /\ doc' >= doc /\ esVersion' \in Nat /\ Versioned'
  BY <1>1, <1>2, DocKept, IndexStep
<1>4. CASE IndexDocument(e) /\ TryStep(i, "done") /\ NoFault
  <2>1. doc' >= e
    BY <1>2, <1>4, IndexStep
  <2>2. QED
    BY <1>1, <1>3, <1>4, <2>1, TryMoves
<1>5. CASE TryStep(i, "failed") /\ (Fault("index") \/ Fault("reply"))
  BY <1>1, <1>3, <1>5, TryMoves
<1>6. QED
  BY <1>1, <1>4, <1>5

LEMMA SettleStep ==
  ASSUME IInv, NEW i \in Instances, SettleRow(i)
  PROVE  IInv' /\ doc' >= doc
<1> DEFINE r == trying[i].row
<1>1. /\ \/ trying[i].at = "done" /\ DeleteRow(r.id) /\ UNCHANGED dlq
         \/ /\ trying[i].at = "failed"
            /\ IF GivesUp(Counted(r.n)) THEN MoveToDLQ(r) ELSE CountFailure(r)
      /\ trying' = [trying EXCEPT ![i] = Idle]
      /\ UNCHANGED <<consumerVars, docVars, scan, tables, faults>>
  BY DEF SettleRow
<1>2. /\ r \in SavedRow /\ r.id \in RowIds /\ r.ev \in Events /\ r.n \in 0..(MaxAttempts - 1)
      /\ saved[r.id] \in {0, r.ev}
      /\ trying[i].at = "done" => doc >= r.ev
  BY <1>1, RowTypes DEF IInv, Busy, Rows, Known
<1>3. /\ saved \in [RowIds -> 0..NumEvents] /\ retries \in [RowIds -> 0..(MaxAttempts - 1)]
      /\ dlq \subseteq Events /\ doc \in 0..NumEvents /\ faults \in 0..MaxFaults
  BY DEF IInv, TypeOK
<1>4. doc' \in 0..NumEvents /\ doc' = doc /\ doc' >= doc /\ esVersion' \in Nat /\ Versioned'
  BY <1>1, DocKept DEF docVars
<1>5. /\ nextRow' = nextRow
      /\ saved' \in [RowIds -> 0..NumEvents] /\ retries' \in [RowIds -> 0..(MaxAttempts - 1)]
      /\ dlq \subseteq dlq' /\ dlq' \subseteq Events
      /\ \A id \in RowIds : \/ saved'[id] = saved[id]
                            \/ saved'[id] = 0 /\ (doc' >= saved[id] \/ saved[id] \in dlq')
  <2>1. ASSUME DeleteRow(r.id), dlq \subseteq dlq', dlq' \subseteq Events,
               doc >= r.ev \/ r.ev \in dlq'
        PROVE  /\ saved' \in [RowIds -> 0..NumEvents] /\ UNCHANGED <<retries, nextRow>>
               /\ \A id \in RowIds :
                    \/ saved'[id] = saved[id]
                    \/ saved'[id] = 0 /\ (doc' >= saved[id] \/ saved[id] \in dlq')
    <3>1. /\ saved' \in [RowIds -> 0..NumEvents] /\ UNCHANGED <<retries, nextRow>>
          /\ \A id \in RowIds : saved'[id] = IF id = r.id THEN 0 ELSE saved[id]
      BY <1>2, <1>3, <2>1, Bounds DEF DeleteRow
    <3>2. saved[r.id] = 0 \/ doc' >= saved[r.id] \/ saved[r.id] \in dlq'
      BY <1>2, <1>4, <2>1
    <3>3. saved[r.id] = 0 => saved'[r.id] = saved[r.id]
      BY <1>2, <3>1
    <3>4. QED
      BY <1>3, <2>1, <3>1, <3>2, <3>3
  <2>2. CASE \/ trying[i].at = "done" /\ DeleteRow(r.id) /\ UNCHANGED dlq
             \/ GivesUp(Counted(r.n)) /\ MoveToDLQ(r)
    <3>1. DeleteRow(r.id) /\ dlq \subseteq dlq' /\ dlq' \subseteq Events
      BY <1>2, <1>3, <2>2 DEF MoveToDLQ
    <3>2. doc >= r.ev \/ r.ev \in dlq'
      BY <1>2, <2>2 DEF MoveToDLQ
    <3>3. QED
      BY <1>3, <2>1, <3>1, <3>2
  <2>3. CASE ~GivesUp(Counted(r.n)) /\ CountFailure(r)
    <3>1. Counted(r.n) \in 0..(MaxAttempts - 1)
      BY <1>2, <2>3, Bounds DEF GivesUp, Counted
    <3>2. QED
      BY <1>2, <1>3, <2>3, <3>1 DEF CountFailure
  <2>4. QED
    BY <1>1, <2>2, <2>3
<1>6. Idle \in Attempt /\ Idle.at = "idle"
  BY DEF Idle, Trying, Attempt
<1>7. /\ scan[i] \in SUBSET scan[i] /\ scan' = [scan EXCEPT ![i] = scan[i]]
      /\ faults' \in 0..MaxFaults /\ faults' >= faults
  BY <1>1, <1>3, Bounds DEF IInv, TypeOK
<1>8. QED
  BY <1>1, <1>4, <1>5, <1>6, <1>7, WorkerMoves

LEMMA SettleFailsStep ==
  ASSUME IInv, NEW i \in Instances, SettleFails(i)
  PROVE  IInv' /\ doc' >= doc
<1>1. /\ Fault("db")
      /\ trying' = [trying EXCEPT ![i] = Idle]
      /\ scan' = [scan EXCEPT ![i] = {}]
      /\ UNCHANGED <<consumerVars, docVars, retryVars, tables, dlq>>
  BY DEF SettleFails
<1>2. faults' \in 0..MaxFaults /\ faults' >= faults
  BY <1>1, FaultCounts DEF IInv, TypeOK
<1>3. doc' \in 0..NumEvents /\ doc' >= doc /\ esVersion' \in Nat /\ Versioned'
  BY <1>1, DocKept
<1>4. Idle \in Attempt /\ Idle.at = "idle" /\ {} \in SUBSET scan[i]
  BY DEF Idle, Trying, Attempt
<1>5. QED
  BY <1>1, <1>2, <1>3, <1>4, WorkerKeepsRows, WorkerMoves

----------------------------------------------------------------------------
(* The invariant.                                                          *)

LEMMA InitIInv == Init => IInv
<1> SUFFICES ASSUME Init PROVE IInv
  OBVIOUS
<1>1. Busy /\ Versioned /\ Rows /\ Commits
  BY Bounds DEF Init, Busy, Versioned, Rows, Commits, Resting, Doing, Idle, Trying
<1>2. Paid
  <2>1. Saving = {}
    BY DEF Init, Saving, Resting, Doing
  <2>2. QED
    BY <2>1, FS_EmptySet DEF Init, Paid
<1>3. TypeOK
  BY Bounds DEF Init, TypeOK, Resting, Doing, Idle, Trying
<1>4. QED
  BY <1>1, <1>2, <1>3 DEF IInv

LEMMA NextStep ==
  ASSUME IInv, Next
  PROVE  IInv' /\ doc' >= doc
<1>1. CASE \E I \in (SUBSET Instances) \ {{}} : ScanFails(I)
  BY <1>1, ScanFailsStep
<1>2. CASE \E i \in Instances :
             \/ Consume(i)
             \/ \E S \in SUBSET RowsNow : ScanRetries(i, S)
             \/ Retry(i)
             \/ SaveFails(i) \/ SettleFails(i) \/ Crash(i) \/ Rebalance(i)
  <2>1. PICK i \in Instances :
          \/ Consume(i)
          \/ \E S \in SUBSET RowsNow : ScanRetries(i, S)
          \/ Retry(i)
          \/ SaveFails(i) \/ SettleFails(i) \/ Crash(i) \/ Rebalance(i)
    BY <1>2
  <2>2. CASE Consume(i)
    BY <2>2, FetchStep, GetStep, IndexEventStep, SaveStep, BuryStep, CommitStep, StopStep DEF Consume
  <2>3. CASE Retry(i)
    BY <2>3, TakeRowStep, RetryGetStep, RetryIndexStep, SettleStep DEF Retry
  <2>4. QED
    BY <2>1, <2>2, <2>3, ScanStep, StopStep, SettleFailsStep, RebalanceStep
<1>3. QED
  BY <1>1, <1>2 DEF Next

LEMMA StutterStep ==
  ASSUME IInv, UNCHANGED vars
  PROVE  IInv'
<1>1. /\ UNCHANGED <<consumerVars, docVars, retryVars, workerVars, tables, dlq, faults>>
      /\ Saving' = Saving
  BY DEF vars, Saving, consumerVars
<1>2. TypeOK' /\ Busy' /\ Paid' /\ Rows'
  BY <1>1 DEF IInv, TypeOK, Busy, Paid, Rows, Known, consumerVars, docVars, retryVars, workerVars
<1>3. Versioned'
  BY <1>1, DocKept
<1>4. Commits'
  BY <1>1 DEF IInv, Commits, Covered, consumerVars, docVars, retryVars
<1>5. QED
  BY <1>2, <1>3, <1>4 DEF IInv

LEMMA NextIInv == IInv /\ [Next]_vars => IInv'
BY NextStep, StutterStep

\* Every reachable state is well typed: in particular there is a retry row for every failure
\* that needs one, and a retry count stays below the limit.
THEOREM TypeCorrect == Spec => []TypeOK
<1>1. IInv => TypeOK
  BY DEF IInv
<1>2. QED
  BY <1>1, InitIInv, NextIInv, PTL DEF Spec

\* Whatever crashes, moves, or fails, an event whose offset is committed is in the index or
\* overtaken there, or it is kept in es_sync_retry or es_sync_dlq.
THEOREM NothingIsForgotten == Spec => []NothingForgotten
<1>1. IInv => NothingForgotten
  <2> SUFFICES ASSUME IInv, NEW e \in 1..committed
               PROVE  doc >= e \/ e \in dlq \/ \E id \in RowIds : saved[id] = e
    BY DEF NothingForgotten
  <2>1. e \in Events /\ e <= committed
    BY Bounds DEF IInv, TypeOK
  <2>2. QED
    BY <2>1 DEF IInv, Commits, Covered
<1>2. QED
  BY <1>1, InitIInv, NextIInv, PTL DEF Spec

\* With any number of consumers and retry workers between their GET and their write, the
\* external version (file number times factor plus position) keeps the document from going
\* back to an older event.
THEOREM TheDocumentIsNeverOlder == Spec => NeverOlder
<1>1. IInv /\ [Next]_vars => [doc' >= doc]_vars
  BY NextStep
<1>2. QED
  BY <1>1, InitIInv, NextIInv, PTL DEF Spec, NeverOlder
=============================================================================
