------------------------------ MODULE MCStrategy ------------------------------
(* Instances of Strategy for TLC. *)
EXTENDS Strategy, TLC

CONSTANTS r1, m1, m2

\* One host: the runs about two goroutines.
OneHost == r1 :> "worker"

\* Goroutines are interchangeable.
MonitorSymmetry == Permutations({m1, m2})

=============================================================================
