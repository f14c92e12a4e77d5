--------------------------- MODULE MCCommentCache ---------------------------
(* CommentCache with two requests at a time, on every kind of list. *)
EXTENDS CommentCache, TLC

CONSTANTS h1, h2
=============================================================================
