---------------------------- MODULE MCHotelClerk ----------------------------
(* HotelClerk on one node of a cluster of two, with two or three            *)
(* connections.  Rooms are interchangeable (safety runs only).              *)
EXTENDS HotelClerk, TLC

CONSTANTS self, other, c1, c2, c3, r1, r2

Symmetry == Permutations(Rooms)
=============================================================================
