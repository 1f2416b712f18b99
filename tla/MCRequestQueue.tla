--------------------------- MODULE MCRequestQueue ---------------------------
(* A small instance of RequestQueue for TLC: three requests, two of them to *)
(* the same endpoint.                                                       *)
EXTENDS RequestQueue

CONSTANTS r1, r2, r3, p1

MCEndpoint == [r \in Requests |-> IF r = r3 THEN 2 ELSE 1]
=============================================================================
