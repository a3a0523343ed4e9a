------------------------------ MODULE MCMonitor ------------------------------
(* Instances of MonitorFramework for TLC. *)
EXTENDS MonitorFramework

CONSTANTS o1, g1, g2

=============================================================================
