--------------------------- MODULE MCPlatformClient ---------------------------
(* Instances of PlatformClient for TLC. *)
EXTENDS PlatformClient

CONSTANTS d1, d2

=============================================================================
