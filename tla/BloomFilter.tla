---------------------------- MODULE BloomFilter ----------------------------
(***************************************************************************)
(* The Bloom filter in front of the posts (the one of the comments is the  *)
(* same code over other keys).  Whoever creates a post adds its id after   *)
(* the commit and ignores an error; a reader turns away an id that the     *)
(* filter does not have, provided the ready key is there.  Every instance  *)
(* of comment-service that starts deletes filter and ready key, adds the   *)
(* ids of the table, a page at a time in the order of ids, and sets the    *)
(* ready key.  Nothing keeps two instances from doing so at once.          *)
(***************************************************************************)
EXTENDS Integers, FiniteSets

CONSTANTS
  Instances,  \* instances of comment-service
  NumPosts,   \* posts have the ids 1..NumPosts, and are created in any order
  BatchSize,  \* bloomWarmupBatchSize
  Readers,    \* requests being served at a time
  MaxStarts   \* bound: how often instances start

ASSUME BloomAssumption ==
  /\ NumPosts \in Nat /\ BatchSize \in Nat \ {0} /\ MaxStarts \in Nat

Posts == 1..NumPosts

VARIABLES
  post,       \* post[r]: "none", "committed", or "done" when its handler is done with the filter
  filter,     \* the ids in bf:post; a filter without the key answers as an empty one
  ready,      \* the key bf:post:ready is there
  warmup,     \* warmup[i]: the step of instance i, its cursor, and the ids it has selected
  asking,     \* asking[h]: the step of reader h, its id, and (history) if there is a
              \* reason for it to be turned away
  starts,     \* starts so far
  lastDel,    \* history: the instance that last deleted the filter
  premature,  \* history: ready was set by an instance whose filter another one had deleted
  lost        \* history: the ids whose BF.ADD failed and that nothing has added since

filterVars == <<filter, ready, lastDel, premature>>
bloomVars == <<post, filterVars, warmup, asking, starts, lost>>

NoOne == "no one"
WarmUp(step, cursor, ids) == [at |-> step, cursor |-> cursor, ids |-> ids]
Resting == WarmUp("off", 0, {})
Question(step, r, shaken) == [at |-> step, id |-> r, shaken |-> shaken]
NotAsking == Question("idle", 0, FALSE)

FilterTypeOK ==
  /\ post \in [Posts -> {"none", "committed", "done"}]
  /\ filter \subseteq Posts
  /\ ready \in BOOLEAN
  /\ warmup \in [Instances -> [at : {"off", "del", "reserve", "select", "add", "ready"},
                               cursor : 0..NumPosts, ids : SUBSET Posts]]
  /\ asking \in [Readers -> [at : {"idle", "ready", "exists", "add", "away"},
                             id : 0..NumPosts, shaken : BOOLEAN]]
  /\ starts \in 0..MaxStarts
  /\ lastDel \in Instances \cup {NoOne}
  /\ premature \in BOOLEAN
  /\ lost \subseteq Posts

\* Before the first start there is no filter; posts of an earlier run may be there.
FilterInit ==
  /\ post \in [Posts -> {"none", "done"}]
  /\ filter = {} /\ ready = FALSE
  /\ warmup = [i \in Instances |-> Resting]
  /\ asking = [h \in Readers |-> NotAsking]
  /\ starts = 0
  /\ lastDel = NoOne /\ premature = FALSE
  /\ lost = {}

----------------------------------------------------------------------------
(* CreatePost.                                                             *)

InsertPost(r) ==
  /\ post[r] = "none"
  /\ post' = [post EXCEPT ![r] = "committed"]
  /\ UNCHANGED <<filterVars, warmup, asking, starts, lost>>

\* BF.ADD creates a filter that is not there.
AddCreated(r) ==
  /\ post[r] = "committed"
  /\ post' = [post EXCEPT ![r] = "done"]
  /\ filter' = filter \cup {r}
  /\ UNCHANGED <<ready, lastDel, premature, warmup, asking, starts, lost>>

\* The BF.ADD errs, which is ignored, or the process stops after the commit.
AddIsLost(r) ==
  /\ post[r] = "committed"
  /\ post' = [post EXCEPT ![r] = "done"]
  /\ lost' = lost \cup {r}
  /\ UNCHANGED <<filterVars, warmup, asking, starts>>

----------------------------------------------------------------------------
(* rebuildBloomFilter, by instance i.                                      *)

Step(i, step) == warmup' = [warmup EXCEPT ![i] = WarmUp(step, @.cursor, @.ids)]

\* The instance starts, also in the middle of a rebuild: it had stopped there.
StartBloomWarmup(i) ==
  /\ starts < MaxStarts
  /\ starts' = starts + 1
  /\ warmup' = [warmup EXCEPT ![i] = WarmUp("del", 0, {})]
  /\ UNCHANGED <<post, filterVars, asking, lost>>

\* Mutant: the ready key stays while the filter is rebuilt.
DeleteFilterOnly(i) ==
  /\ warmup[i].at = "del"
  /\ Step(i, "reserve")
  /\ filter' = {}
  /\ lastDel' = i
  /\ asking' = [h \in Readers |->
       IF asking[h].at = "exists" THEN Question("exists", asking[h].id, TRUE) ELSE asking[h]]
  /\ UNCHANGED <<post, ready, premature, starts, lost>>

\* One DEL of both keys.  A reader that has seen the ready key asks an empty filter.
DeleteFilter(i) ==
  /\ warmup[i].at = "del"
  /\ Step(i, "reserve")
  /\ filter' = {}
  /\ ready' = FALSE
  /\ lastDel' = i
  /\ premature' = FALSE
  /\ asking' = [h \in Readers |->
       IF asking[h].at = "exists" THEN Question("exists", asking[h].id, TRUE) ELSE asking[h]]
  /\ UNCHANGED <<post, starts, lost>>

\* That the filter exists already, through an ADD or another instance, is no error.
Reserve(i) ==
  /\ warmup[i].at = "reserve"
  /\ Step(i, "select")
  /\ UNCHANGED <<post, filterVars, asking, starts, lost>>

Beyond(cursor) == {r \in Posts : post[r] # "none" /\ r > cursor}

\* The rows beyond the cursor, deleted ones included, by id, one page; none ends the loop.
SelectIds(i) ==
  LET found == Beyond(warmup[i].cursor) IN
  /\ warmup[i].at = "select"
  /\ IF found = {}
       THEN Step(i, "ready")
       ELSE warmup' = [warmup EXCEPT ![i] =
              WarmUp("add", @.cursor, {r \in found : Cardinality({s \in found : s < r}) < BatchSize})]
  /\ UNCHANGED <<post, filterVars, asking, starts, lost>>

LastOf(ids) == CHOOSE r \in ids : \A s \in ids : s <= r

\* Mutant: the loop ends after one page.
AddFirstPageOnly(i) ==
  /\ warmup[i].at = "add"
  /\ filter' = filter \cup warmup[i].ids
  /\ lost' = lost \ warmup[i].ids
  /\ warmup' = [warmup EXCEPT ![i] = WarmUp("ready", LastOf(@.ids), {})]
  /\ UNCHANGED <<post, ready, lastDel, premature, asking, starts>>

\* The page is added in one call, and the cursor moves to its last id.
AddIds(i) ==
  /\ warmup[i].at = "add"
  /\ filter' = filter \cup warmup[i].ids
  /\ lost' = lost \ warmup[i].ids
  /\ warmup' = [warmup EXCEPT ![i] = WarmUp("select", LastOf(@.ids), {})]
  /\ UNCHANGED <<post, ready, lastDel, premature, asking, starts>>

SetReady(i) ==
  /\ warmup[i].at = "ready"
  /\ warmup' = [warmup EXCEPT ![i] = Resting]
  /\ ready' = TRUE
  /\ premature' = (lastDel # i /\ (ready => premature))
  /\ UNCHANGED <<post, filter, lastDel, asking, starts, lost>>

\* Any of the calls errs: the rebuild ends where it is, with a warning.
WarmUpFails(i) ==
  /\ warmup[i] # Resting
  /\ warmup' = [warmup EXCEPT ![i] = Resting]
  /\ UNCHANGED <<post, filterVars, asking, starts, lost>>

----------------------------------------------------------------------------
(* GetPostByID and the other readers by id.                                *)

Asking(h, step, r, shaken) ==
  asking' = [asking EXCEPT ![h] = Question(step, r, shaken)]

\* An id is asked for once its post is created.
Ask(h, r) ==
  /\ asking[h] = NotAsking
  /\ post[r] = "done"
  /\ Asking(h, "ready", r, FALSE)
  /\ UNCHANGED <<post, filterVars, warmup, starts, lost>>

\* bloomExists: without the ready key, or with an error, the filter is not asked.
IsReady(h) ==
  /\ asking[h].at = "ready"
  /\ \/ ready /\ Asking(h, "exists", asking[h].id, FALSE)
     \/ Asking(h, "add", asking[h].id, FALSE)
  /\ UNCHANGED <<post, filterVars, warmup, starts, lost>>

\* An id that is not in the filter may pass all the same (a false positive, or an error).
Exists(h) ==
  /\ asking[h].at = "exists"
  /\ \/ Asking(h, "add", asking[h].id, FALSE)
     \/ /\ asking[h].id \notin filter
        /\ Asking(h, "away", asking[h].id,
                  asking[h].shaken \/ premature \/ asking[h].id \in lost)
  /\ UNCHANGED <<post, filterVars, warmup, starts, lost>>

\* The post was found in the cache or in MySQL, and its id is added again; or that fails.
AddFound(h) ==
  /\ asking[h].at = "add"
  /\ asking' = [asking EXCEPT ![h] = NotAsking]
  /\ \/ filter' = filter \cup {asking[h].id} /\ lost' = lost \ {asking[h].id}
     \/ UNCHANGED <<filter, lost>>
  /\ UNCHANGED <<post, ready, lastDel, premature, warmup, starts>>

TurnedAway(h) ==
  /\ asking[h].at = "away"
  /\ asking' = [asking EXCEPT ![h] = NotAsking]
  /\ UNCHANGED <<post, filterVars, warmup, starts, lost>>

----------------------------------------------------------------------------
Create == \E r \in Posts : InsertPost(r) \/ AddCreated(r) \/ AddIsLost(r)

Rebuild(i) ==
  \/ DeleteFilter(i) \/ Reserve(i) \/ SelectIds(i) \/ AddIds(i) \/ SetReady(i) \/ WarmUpFails(i)

Read(h) ==
  \/ \E r \in Posts : Ask(h, r)
  \/ IsReady(h) \/ Exists(h) \/ AddFound(h) \/ TurnedAway(h)

FilterNext ==
  \/ Create
  \/ \E i \in Instances : StartBloomWarmup(i) \/ Rebuild(i)
  \/ \E h \in Readers : Read(h)

FilterSpec == FilterInit /\ [][FilterNext]_bloomVars

----------------------------------------------------------------------------
(* Properties.                                                             *)

\* While the ready key is there, the filter has every post whose handler is done, however
\* posts are created during a rebuild and whatever their ids: except those whose BF.ADD
\* was lost, and unless two instances rebuilt the filter at once and the ready key was set
\* by the one whose ids the other had deleted.
FilterComplete ==
  ready /\ ~premature => \A r \in Posts : post[r] = "done" => r \in filter \cup lost

\* A reader turns away a post that exists only for those two reasons, or because an
\* instance started between its two calls: never in the ordinary course of a rebuild.
TurnedAwayOnlyByRace ==
  \A h \in Readers : asking[h].at = "away" => asking[h].shaken
=============================================================================
