------------------------------ MODULE MCWorktrees ------------------------------
(* Small instances of Worktrees for TLC. *)
EXTENDS WorktreeProperties
=============================================================================
