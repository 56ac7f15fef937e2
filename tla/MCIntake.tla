------------------------------- MODULE MCIntake -------------------------------
(* Small instances of Intake for TLC. *)
EXTENDS IntakeProperties

CONSTANTS cron, daemon
===============================================================================
