------------------------------ MODULE MCPages ------------------------------
(* Two requests of two browsers for one page. *)
EXTENDS Pages

CONSTANTS r1, r2, b1, b2, v1

TwoRequests == {r1, r2}
OneView == {v1}
OwnBrowsers == [r \in TwoRequests |-> IF r = r1 THEN b1 ELSE b2]

Spec == Init /\ [][Next]_vars
=============================================================================
