---------------------------- MODULE MCEventSync -----------------------------
(* Two devices of one identity and one or two servers.                      *)
EXTENDS EventSync

=============================================================================
