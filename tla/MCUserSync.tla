----------------------------- MODULE MCUserSync -----------------------------
(* Small instances of UserSync. *)
EXTENDS UserSync

CONSTANTS u1, u2, e1, zA, a1, a2
=============================================================================
