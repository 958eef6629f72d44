----------------------------- MODULE MCSessions -----------------------------
EXTENDS Sessions
CONSTANTS c1, c2, f1, f2, i1, u1, u2
MCExp == f1 :> 1 @@ f2 :> 2 @@ i1 :> Never
MCOwner == f1 :> u1 @@ f2 :> u1 @@ i1 :> u2
MCSessions0 == << <<f2, {c1}>>, <<i1, {c2}>> >>
=============================================================================
