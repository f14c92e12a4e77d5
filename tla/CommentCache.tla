---------------------------- MODULE CommentCache ----------------------------
(***************************************************************************)
(* What Redis holds of one comment: the object mysql:comment:{id}, shared  *)
(* by students, tutors and operators, and one page of a list of comment    *)
(* ids.  Readers fill both from MySQL, with several calls between the      *)
(* SELECT and the SET; writers commit and only then delete, first the      *)
(* object, then the pages their change may touch, and ignore the errors.   *)
(*                                                                         *)
(* The pages do not interact, so a behaviour watches one, chosen in Init   *)
(* among the five kinds of list (the audit list once per audit_status).    *)
(* A request that the caches answer changes nothing and is not a step; a   *)
(* GET that errs counts as a miss, so a GET that misses is one with the    *)
(* SELECT it leads to.  singleflight only makes requests of one process    *)
(* share the request that goes to MySQL.  Ids are drawn inside             *)
(* CreateComment and the Bloom filter turns away an id that is not in it,  *)
(* so nobody asks for a comment before it exists.                          *)
(***************************************************************************)
EXTENDS Integers, FiniteSets

CONSTANT Requests   \* requests being served at a time

ASSUME CacheAssumption == IsFiniteSet(Requests)

AuditStatuses == 0 .. 2
Audit(status) == <<"audit", status>>
PostPages == {<<"studentPost">>, <<"tutorPost">>, <<"operatorPost">>}
Pages == PostPages \cup {<<"my">>} \cup {Audit(s) : s \in AuditStatuses}

Rows ==
  [life : {"unborn", "live", "deleted"}, visible : BOOLEAN,
   audit : AuditStatuses, reply : 0 .. 2]
LiveRows == {r \in Rows : r.life = "live"}
\* every query asks for deleted_at IS NULL: the rest of such a row is moot
Deleted == [life |-> "deleted", visible |-> FALSE, audit |-> 0, reply |-> 0]

Absent == [no |-> "key"]      \* no key
Null == [no |-> "comment"]    \* the __nil__ value
None == [no |-> "row"]        \* nothing read, or nothing found
Found == [a |-> "row"]        \* a row of which nothing more is needed

VARIABLES
  comment,    \* the row of study_comment
  object,     \* mysql:comment:{id}: Absent, Null or a row
  page,       \* the list watched
  list,       \* its cached page: "absent", or "with" or "without" the id
  job,        \* job[h]: what h does, where it is, what it read
  outdated    \* history: which of "object" and "list" was SET from an old
              \* SELECT, or missed the deletion meant for it

cacheVars == <<comment, object, page, list, job, outdated>>

Writes == {"create", "delete", "approve", "reject", "reply", "withdraw"}
Idle == [op |-> "idle", at |-> "idle", saw |-> None]
Jobs ==
  {Idle} \cup
  [op : Writes \cup {"detail", "page"},
   at : {"write", "delObject", "delLists", "setObject", "setList", "load", "setLoaded"},
   saw : LiveRows \cup {None, Found} \cup [audit : AuditStatuses]]

(***************************************************************************)
(* What the queries find.                                                  *)
(***************************************************************************)
\* mutant of QueryComment: without deleted_at IS NULL
QueryUnscoped(r) == r.life # "unborn"

QueryComment(r) == r.life = "live"
QueryVisible(r) == r.life = "live" /\ r.visible
QueryByAudit(r, status) == r.life = "live" /\ r.audit = status

Holds(p, r) ==
  \/ p \in {<<"studentPost">>, <<"tutorPost">>} /\ QueryVisible(r)
  \/ p \in {<<"operatorPost">>, <<"my">>} /\ QueryComment(r)
  \/ \E s \in AuditStatuses : p = Audit(s) /\ QueryByAudit(r, s)

PageOf(found) == IF found THEN "with" ELSE "without"

\* the query that completes page p with the comments the object cache lacks
LoadFinds(p, r) ==
  IF p \in {<<"studentPost">>, <<"tutorPost">>} THEN QueryVisible(r) ELSE QueryComment(r)

(***************************************************************************)
(* What a writer deletes.  saw is the audit status its transaction first   *)
(* read, None when it found no row: then post and student are 0 as well.   *)
(***************************************************************************)
\* mutant of CommentPages: the tutors' lists are forgotten
PagesButTutors(audits) ==
  (PostPages \ {<<"tutorPost">>}) \cup {<<"my">>} \cup {Audit(s) : s \in audits}

CommentPages(audits) == PostPages \cup {<<"my">>} \cup {Audit(s) : s \in audits}

Swept(op, saw) ==
  CASE op = "create" -> CommentPages({0})
    [] op = "delete" -> IF saw = None THEN {Audit(0)} ELSE CommentPages({saw.audit})
    [] op = "reject" -> CommentPages({saw.audit, 2})
    [] op = "approve" -> {Audit(0), Audit(1)}
    [] OTHER -> {}

Advance(h, step) == job' = [job EXCEPT ![h].at = step]
Begin(h, op, step, saw) == job[h] = Idle /\ job' = [job EXCEPT ![h] = [op |-> op, at |-> step, saw |-> saw]]
Done(h) == job' = [job EXCEPT ![h] = Idle]
Doing(h, op, step) == job[h].op = op /\ job[h].at = step

Mark(key, isOld) == outdated' = IF isOld THEN outdated \cup {key} ELSE outdated \ {key}

(***************************************************************************)
(* Writers.                                                                *)
(***************************************************************************)
CreateComment(h) ==
  /\ comment.life = "unborn"
  /\ Begin(h, "create", "delLists", None)
  /\ comment' = [comment EXCEPT !.life = "live"]
  /\ UNCHANGED <<object, page, list, outdated>>

\* the SELECT that opens the transactions of DeleteComment and RejectComment
ReadComment(h, op) ==
  /\ op = "reject" => QueryComment(comment)
  /\ Begin(h, op, IF QueryComment(comment) THEN "write" ELSE "delObject",
           IF QueryComment(comment) THEN [audit |-> comment.audit] ELSE None)
  /\ UNCHANGED <<comment, object, page, list, outdated>>

\* An approval committed since the SELECT puts the comment on a list that
\* this deletion does not know of.
DeleteComment(h) ==
  /\ Doing(h, "delete", "write")
  /\ Advance(h, "delObject")
  /\ IF comment.life = "live"
       THEN /\ comment' = Deleted
            /\ IF list # "absent" /\ page = Audit(comment.audit) /\ page \notin Swept("delete", job[h].saw)
                 THEN outdated' = outdated \cup {"list"}
                 ELSE UNCHANGED outdated
       ELSE UNCHANGED <<comment, outdated>>
  /\ UNCHANGED <<object, page, list>>

RejectComment(h) ==
  /\ Doing(h, "reject", "write")
  /\ IF comment.life = "live" /\ comment.audit = 0
       THEN /\ comment' = [life |-> "live", visible |-> FALSE, audit |-> 2, reply |-> comment.reply]
            /\ Advance(h, "delObject")
       ELSE UNCHANGED comment /\ Done(h)
  /\ UNCHANGED <<object, page, list, outdated>>

ApproveComment(h) ==
  /\ comment.life = "live" /\ comment.audit = 0
  /\ Begin(h, "approve", "delObject", None)
  /\ comment' = [comment EXCEPT !.audit = 1]
  /\ UNCHANGED <<object, page, list, outdated>>

\* mutant of CreateCommentReply: the object is not deleted
ReplyKeepsObject(h) ==
  /\ comment.life = "live" /\ comment.reply = 0
  /\ job[h] = Idle
  /\ comment' = [comment EXCEPT !.reply = 1]
  /\ UNCHANGED <<object, page, list, job, outdated>>

CreateCommentReply(h) ==
  /\ comment.life = "live" /\ comment.reply = 0
  /\ Begin(h, "reply", "delObject", None)
  /\ comment' = [comment EXCEPT !.reply = 1]
  /\ UNCHANGED <<object, page, list, outdated>>

DeleteReply(h) ==
  /\ comment.life = "live" /\ comment.reply = 1
  /\ Begin(h, "withdraw", "delObject", None)
  /\ comment' = [comment EXCEPT !.reply = 2]
  /\ UNCHANGED <<object, page, list, outdated>>

DelObject(h) ==
  /\ job[h].at = "delObject"
  /\ IF job[h].op \in {"reply", "withdraw"} THEN Done(h) ELSE Advance(h, "delLists")
  /\ object' = Absent
  /\ Mark("object", FALSE)
  /\ UNCHANGED <<comment, page, list>>

\* SCAN and DEL, prefix by prefix: a page SET in between by a reader that
\* selected before the write is as well SET after this step.
DelLists(h) ==
  /\ job[h].at = "delLists"
  /\ Done(h)
  /\ IF page \in Swept(job[h].op, job[h].saw)
       THEN list' = "absent" /\ Mark("list", FALSE)
       ELSE UNCHANGED <<list, outdated>>
  /\ UNCHANGED <<comment, object, page>>

\* The DEL, or the SCAN, errs: logged or ignored, the write stands.
DelFails(h) ==
  /\ job[h].at \in {"delObject", "delLists"}
  /\ IF job[h].at = "delObject"
       THEN /\ IF job[h].op \in {"reply", "withdraw"} THEN Done(h) ELSE Advance(h, "delLists")
            /\ outdated' = outdated \cup {"object"}
       ELSE /\ Done(h)
            /\ outdated' = outdated \cup {"list"}
  /\ UNCHANGED <<comment, object, page, list>>

\* The process stops after the commit, or the commit's answer is lost and
\* the handler returns the error: no key is deleted.
DelNeverRuns(h) ==
  /\ job[h].at \in {"delObject", "delLists"}
  /\ Done(h)
  /\ outdated' = outdated \cup {"object", "list"}
  /\ UNCHANGED <<comment, object, page, list>>

(***************************************************************************)
(* Readers.                                                                *)
(***************************************************************************)
GetCommentByID(h) ==
  /\ comment.life # "unborn"
  /\ Begin(h, "detail", "setObject", IF QueryComment(comment) THEN comment ELSE None)
  /\ UNCHANGED <<comment, object, page, list, outdated>>

SetComment(h) ==
  /\ Doing(h, "detail", "setObject")
  /\ Done(h)
  /\ object' = IF job[h].saw = None THEN Null ELSE job[h].saw
  /\ Mark("object", job[h].saw # (IF QueryComment(comment) THEN comment ELSE None))
  /\ UNCHANGED <<comment, page, list>>

\* The page is in the cache and lists the comment, or is selected.
ReadPage(h) ==
  /\ \/ list = "with" /\ Begin(h, "page", "load", None)
     \/ Holds(page, comment) /\ Begin(h, "page", "setObject", comment)
     \/ ~Holds(page, comment) /\ Begin(h, "page", "setList", None)
  /\ UNCHANGED <<comment, object, page, list, outdated>>

ListPostCommentsStudent(h) == page = <<"studentPost">> /\ ReadPage(h)

ListPostComments(h) == page = <<"tutorPost">> /\ ReadPage(h)

ListPostCommentsForOperator(h) == page = <<"operatorPost">> /\ ReadPage(h)

ListMyComments(h) == page = <<"my">> /\ ReadPage(h)

ListCommentsByAuditStatus(h) == page \in {Audit(s) : s \in AuditStatuses} /\ ReadPage(h)

ToSetList(h) == job' = [job EXCEPT ![h].at = "setList", ![h].saw = Found]
ToLoad(h) ==
  IF job[h].saw = None THEN Done(h) ELSE job' = [job EXCEPT ![h].at = "load", ![h].saw = None]

SetCommentObjects(h) ==
  /\ Doing(h, "page", "setObject")
  /\ ToSetList(h)
  /\ object' = job[h].saw
  /\ Mark("object", job[h].saw # comment)
  /\ UNCHANGED <<comment, page, list>>

SetList(h) ==
  /\ Doing(h, "page", "setList")
  /\ ToLoad(h)
  /\ list' = PageOf(job[h].saw # None)
  /\ Mark("list", (job[h].saw # None) # Holds(page, comment))
  /\ UNCHANGED <<comment, object, page>>

\* MGET: a row is a hit
LoadHits(h) ==
  /\ Doing(h, "page", "load")
  /\ object \in Rows
  /\ Done(h)
  /\ UNCHANGED <<comment, object, page, list, outdated>>

\* mutant of QueryMissed: what the query does not find is cached as null
QueryMissedCachesNull(h) ==
  /\ Doing(h, "page", "load")
  /\ IF LoadFinds(page, comment)
       THEN /\ job' = [job EXCEPT ![h].at = "setLoaded", ![h].saw = comment]
            /\ UNCHANGED <<object, outdated>>
       ELSE /\ Done(h) /\ object' = Null
            /\ Mark("object", QueryComment(comment))
  /\ UNCHANGED <<comment, page, list>>

\* No key, the null value or an error is a miss: the comment is selected.
\* One that the query does not find is left out, and nothing is cached.
QueryMissed(h) ==
  /\ Doing(h, "page", "load")
  /\ IF LoadFinds(page, comment)
       THEN job' = [job EXCEPT ![h].at = "setLoaded", ![h].saw = comment]
       ELSE Done(h)
  /\ UNCHANGED <<comment, object, page, list, outdated>>

QueryFails(h) ==
  /\ Doing(h, "page", "load")
  /\ Done(h)
  /\ UNCHANGED <<comment, object, page, list, outdated>>

SetLoaded(h) ==
  /\ Doing(h, "page", "setLoaded")
  /\ Done(h)
  /\ object' = job[h].saw
  /\ Mark("object", job[h].saw # comment)
  /\ UNCHANGED <<comment, page, list>>

\* a SET that errs is ignored
SetFails(h) ==
  /\ \/ Doing(h, "page", "setObject") /\ ToSetList(h)
     \/ Doing(h, "detail", "setObject") /\ Done(h)
     \/ job[h].at = "setList" /\ ToLoad(h)
     \/ job[h].at = "setLoaded" /\ Done(h)
  /\ UNCHANGED <<comment, object, page, list, outdated>>

\* mutant of ExpireObject: only the null value has a time to live
ExpireNull ==
  /\ object = Null
  /\ object' = Absent
  /\ Mark("object", FALSE)
  /\ UNCHANGED <<comment, page, list, job>>

\* the keys' time to live runs out
ExpireObject ==
  /\ object # Absent
  /\ object' = Absent
  /\ Mark("object", FALSE)
  /\ UNCHANGED <<comment, page, list, job>>

ExpireList ==
  /\ list # "absent"
  /\ list' = "absent"
  /\ Mark("list", FALSE)
  /\ UNCHANGED <<comment, object, page, job>>

-----------------------------------------------------------------------------
CacheInit ==
  /\ comment = [life |-> "unborn", visible |-> TRUE, audit |-> 0, reply |-> 0]
  /\ object = Absent /\ list = "absent"
  /\ page \in Pages
  /\ job = [h \in Requests |-> Idle]
  /\ outdated = {}

Arrive(h) ==
  \/ CreateComment(h) \/ ApproveComment(h) \/ CreateCommentReply(h) \/ DeleteReply(h)
  \/ \E op \in {"delete", "reject"} : comment.life # "unborn" /\ ReadComment(h, op)
  \/ GetCommentByID(h)
  \/ ListPostCommentsStudent(h) \/ ListPostComments(h) \/ ListPostCommentsForOperator(h)
  \/ ListMyComments(h) \/ ListCommentsByAuditStatus(h)

Proceed(h) ==
  \/ DeleteComment(h) \/ RejectComment(h) \/ DelObject(h) \/ DelLists(h)
  \/ SetComment(h) \/ SetCommentObjects(h) \/ SetList(h)
  \/ LoadHits(h) \/ QueryMissed(h) \/ SetLoaded(h)

Fail(h) == DelFails(h) \/ DelNeverRuns(h) \/ QueryFails(h) \/ SetFails(h)

CacheNext ==
  \/ \E h \in Requests : Arrive(h) \/ Proceed(h) \/ Fail(h)
  \/ ExpireObject \/ ExpireList

CacheSpec == CacheInit /\ [][CacheNext]_cacheVars

\* A request being served goes on, and keys expire.
FairSpec ==
  /\ CacheSpec
  /\ \A h \in Requests : WF_cacheVars(Proceed(h))
  /\ WF_cacheVars(ExpireObject) /\ WF_cacheVars(ExpireList)

-----------------------------------------------------------------------------
(* Types.  Only a row that is not deleted is ever carried to the cache.    *)
CacheTypeOK ==
  /\ comment \in Rows
  /\ object \in {Absent, Null} \cup LiveRows
  /\ page \in Pages
  /\ list \in {"absent", "with", "without"}
  /\ job \in [Requests -> Jobs]
  /\ outdated \subseteq {"object", "list"}

ObjectFresh ==
  object = Absent \/ object = (IF QueryComment(comment) THEN comment ELSE Null)

ListFresh == list = "absent" \/ list = PageOf(Holds(page, comment))

(***************************************************************************)
(* The shared object (student.go, tutor.go and operator.go) differs from   *)
(* the row only while a writer is between its commit and its DEL, or when  *)
(* a reader SET what it had selected before the write, or when the DEL was *)
(* lost: no writer forgets the key, or deletes it too early.               *)
(***************************************************************************)
ObjectStaleOnlyByRace ==
  ObjectFresh \/ "object" \in outdated \/ \E h \in Requests : job[h].at = "delObject"

(***************************************************************************)
(* A page of ids holds the comment exactly when its query would find it,   *)
(* with the same exceptions, and one more: a deletion that read the audit  *)
(* status before an approval committed (see DeleteComment).  So the        *)
(* prefixes each writer sweeps are enough for each of the lists.           *)
(***************************************************************************)
ListStaleOnlyByRace ==
  \/ ListFresh
  \/ "list" \in outdated
  \/ \E h \in Requests :
       /\ job[h].at \in {"delObject", "delLists"}
       /\ page \in Swept(job[h].op, job[h].saw)

(***************************************************************************)
(* A null object is cached only for a comment that is gone for good, never *)
(* because MySQL erred or a query filtered the comment out: it hides the   *)
(* comment from every role, and from the handlers that act on it.          *)
(***************************************************************************)
NullOnlyWhenGone == object = Null => comment.life = "deleted"

(***************************************************************************)
(* Whatever the races and the lost deletions left behind, the time to live *)
(* repairs it: the caches agree with MySQL for good in the end.            *)
(***************************************************************************)
CachesConverge == <>[](ObjectFresh /\ ListFresh)

=============================================================================
