------------------------------ MODULE MCFunnel ------------------------------
(* Funnel with a limit of one request at a time and a buffer of two.        *)
EXTENDS Funnel

CONSTANTS q1, q2, q3, d1, p1
=============================================================================
