-------------------------- MODULE MCDBSessionPages --------------------------
(***************************************************************************)
(* DBSessionPages with one request at a time: no concurrency is needed.    *)
(***************************************************************************)
EXTENDS DBSessionPages

CONSTANTS r1, s1, s2, u1, m1

MCRequests == {r1}
MCIds == {s1, s2}
MCUsers == {u1}
MCMessages == {m1}
=============================================================================
