------------------------------ MODULE MCResource ------------------------------
(* Instances of ResourceController for TLC. *)
EXTENDS ResourceController, TLC

CONSTANTS t1, t2, p1, p2

\* Types and parameters are interchangeable.
DataSymmetry == Permutations({t1, t2}) \cup Permutations({p1, p2})

=============================================================================
