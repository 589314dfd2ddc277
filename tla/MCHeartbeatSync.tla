-------------------------- MODULE MCHeartbeatSync --------------------------
(* The instance of HeartbeatSync that TLC checks.                          *)
EXTENDS HeartbeatSync
=============================================================================
