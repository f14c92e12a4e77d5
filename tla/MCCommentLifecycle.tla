------------------------- MODULE MCCommentLifecycle -------------------------
(* CommentLifecycle with one comment that everyone works on at once. *)
EXTENDS CommentLifecycle, TLC

CONSTANTS c1, create, delete1, delete2, approve, reject, reply1, reply2, withdraw

MCOpOf ==
  [h \in Handlers |->
     CASE h = create -> "create"
       [] h \in {delete1, delete2} -> "delete"
       [] h = approve -> "approve"
       [] h = reject -> "reject"
       [] h \in {reply1, reply2} -> "reply"
       [] OTHER -> "withdraw"]

MCCommentOf == [h \in Handlers |-> c1]

RequestSymmetry ==
  Permutations({delete1, delete2}) \cup Permutations({reply1, reply2})
=============================================================================
