-------------------------- MODULE WatcherProperties --------------------------
(* What the passes of Watchers promise. *)
EXTENDS Watchers

\* Nothing is said, filed or proposed more often within its window than there are
\* runners, plus once for each runner that was killed between saying it and
\* recording it.  Two passes that ask before either records both go on, however
\* long each takes; no third repeat can come of it (deadman.py:249,
\* ci_issue_filer.py:236, dedup.py:339).
RepeatsAreBounded ==
  /\ \A k \in Notices : Len(said[k]) <= Cardinality(Runners) + faults
  /\ \A f \in Failures : filed[f] <= Cardinality(Runners)
  /\ \A r \in Repos : Len(proposed[r]) <= Cardinality(Runners)

\* Silence that lasts and credentials that stay expired are announced again and
\* again: the rate limit delays a notice and never ends them (deadman.py:228-276,
\* oauth_watch.py:262-302).
TroubleKeepsBeingAnnounced ==
  /\ <>[](silence = DeadAt /\ ~stopping) => []<>(said["dead"] # <<>>)
  /\ <>[](left = 0) => []<>(said["expired"] # <<>>)

\* A check that stays red on the pull request of a dispatched task is filed for
\* that task, whatever other tasks' checks of that name did
\* (ci_issue_filer.py:205-255).
FailingCheckIsFiled ==
  \A t \in Tasks, c \in Checks :
    <>[](c \in FailedRuns(runs[t]) /\ row[t] = "dispatched" /\ ~stopping)
      => <>(filed[<<t, c>>] > 0)
===============================================================================
