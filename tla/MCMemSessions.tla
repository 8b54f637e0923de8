--------------------------- MODULE MCMemSessions ----------------------------
(***************************************************************************)
(* MemSessions on a small instance: two requests at a time, three session  *)
(* ids, two users and one flash message.                                   *)
(***************************************************************************)
EXTENDS MemSessions, TLC

Symmetry == Permutations(Requests) \cup Permutations(Ids) \cup Permutations(Users)
=============================================================================
