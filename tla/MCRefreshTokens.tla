-------------------------- MODULE MCRefreshTokens --------------------------
(* RefreshTokens with two registrations, a login, refreshes, and logouts. *)
EXTENDS RefreshTokens, TLC

CONSTANTS reg1, reg2, login, ref1, ref2, ref3, out1, out2

MCOpOf ==
  [h \in Handlers |->
     CASE h \in {reg1, reg2} -> "register"
       [] h = login -> "login"
       [] h \in {ref1, ref2, ref3} -> "refresh"
       [] OTHER -> "logout"]

RequestSymmetry ==
  Permutations({reg1, reg2}) \cup Permutations({ref1, ref2, ref3}) \cup Permutations({out1, out2})
=============================================================================
