---------------------------- MODULE MCDBSessions ----------------------------
(***************************************************************************)
(* DBSessions on a small instance: two requests in flight at a time (each  *)
(* slot is used again and again, so behaviours hold any number of          *)
(* requests), three session ids, two users and one flash message.          *)
(***************************************************************************)
EXTENDS DBSessions, TLC

CONSTANTS r1, r2, s1, s2, s3, u1, u2, m1

MCRequests == {r1, r2}
MCIds == {s1, s2, s3}
MCUsers == {u1, u2}
MCSymmetry ==
    Permutations(MCRequests) \cup Permutations(MCIds) \cup Permutations(MCUsers)
MCMessages == {m1}
=============================================================================
