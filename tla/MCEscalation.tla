----------------------------- MODULE MCEscalation -----------------------------
(* Small instances of Escalation for TLC. *)
EXTENDS EscalationProperties
=============================================================================
