-------------------------- MODULE WorktreeProperties --------------------------
(***************************************************************************)
(* What module Worktrees promises about work and about the queue.          *)
(***************************************************************************)
EXTENDS Worktrees

-----------------------------------------------------------------------------

Kept(t) ==
  git[t].local \cup git[t].remote \cup git[t].landed \cup git[t].stray
    \cup disk[t].dirty \cup disk[t].head

\* What provision says it throws away: a worktree on another branch, or on none.
Removed(t) ==
  IF Drifted(disk[t]) /\ disk'[t].dir # disk[t].dir THEN disk[t].dirty \cup disk[t].head ELSE {}

\* What other people pushed after the fetch that branch_janitor decided by.
PushedTooLate(t) ==
  IF git[t].pushed /\ ~git'[t].pushed THEN git[t].remote \ (checked \cup Attempts) ELSE {}

\* Work is never lost: what a session has written stays in its worktree until it
\* is committed, and what is committed stays on a branch or has landed, whatever
\* provision, ship_recovery, the janitor and other sessions do meanwhile.  Two
\* exceptions: a worktree that is removed because it is on another branch takes
\* with it what no branch has, and the janitor's deletion what other people push
\* behind its back; a session's commits survive that, too
\* (worktree_provision.py:295-307, ship_recovery.py, branch_janitor.py:164-189).
WorkIsKept ==
  [][\A t \in Tasks : Kept(t) \subseteq Kept(t)' \cup Removed(t) \cup PushedTooLate(t)]_vars

-----------------------------------------------------------------------------
(* Liveness: the daemon dispatches and its sessions end, cron runs heartbeat *)
(* and ship_recovery again and again, a pass that has begun goes on, time    *)
(* passes.                                                                   *)

Fairness ==
  /\ \A t \in Tasks : /\ WF_vars(Dispatch(t)) /\ WF_vars(FinishSession(t))
                      /\ SF_vars(Reap(t))
                      /\ WF_vars(GoStale(t))
  /\ SF_vars(LoadUnshipped)
  /\ WF_vars(PassStep)

FairSpec == Spec /\ Fairness

Unshipped(t) == row[t].status = "dispatched" /\ row[t].pr_number = NULL

\* An attempt to ship t fails, and stamps the row.
ShipFails(t) == ShipNoBranch(t) \/ (held = t /\ (ShipCommitFails \/ ShipPushFails))

\* A row without a PR stays dispatched for ever only if ship_recovery fails on it
\* for ever: a hook that refuses each commit, a remote that refuses each push or a
\* detached worktree is stamped in every pass, against the `normal cadence` of
\* ship_recovery.py:177.  Nothing else keeps such a row: neither work that is
\* shipped, nor a PR that was merged before pr_watcher listed it (heartbeat.py:107).
ReleasedUnlessShippingFails ==
  \A t \in Tasks : <>[]Unshipped(t) => []<><<ShipFails(t)>>_vars

=============================================================================
