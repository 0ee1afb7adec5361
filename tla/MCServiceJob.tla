---------------------------- MODULE MCServiceJob ----------------------------
(* Two threads that cancel, one failure tolerated, one rebuild.            *)
EXTENDS ServiceJob

CONSTANTS c1, c2

=============================================================================
