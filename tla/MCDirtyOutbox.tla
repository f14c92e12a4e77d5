--------------------------- MODULE MCDirtyOutbox ---------------------------
(* DirtyOutbox with two publishers and two rows.                           *)
EXTENDS DirtyOutbox

CONSTANTS p1, p2
=============================================================================
