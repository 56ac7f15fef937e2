----------------------------- MODULE MCSupervisor -----------------------------
(* Small instances of Supervisor for TLC. *)
EXTENDS SupervisorProperties

CONSTANT dawn  \* one daemon
=============================================================================
