------------------------------ MODULE MCFieldHub ------------------------------
(* Instances of FieldHub. *)
EXTENDS FieldHub, TLC

CONSTANTS p1, p2, none, c1, c2

Alike == Permutations({p1, p2}) \cup Permutations({c1, c2})
=============================================================================
