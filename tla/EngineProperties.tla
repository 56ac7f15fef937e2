--------------------------- MODULE EngineProperties ---------------------------
(***************************************************************************)
(* What the processes of module Engine promise about tasks, sessions and   *)
(* pull requests.                                                          *)
(***************************************************************************)
EXTENDS Engine

-----------------------------------------------------------------------------
(* Whatever processes share the database *)

\* A row that says merged is backed by a merged PR whose branch carries the
\* task's slug (whoever pushed it: pr_watcher.py asks for no more): neither
\* pr_watcher.py nor auto_merge.py records a merge that did not land, however
\* stale the snapshot they act on is.
MergedMeansLanded ==
  \A t \in Tasks : row[t].status = "merged" => Landed(t)

\* auto_recover.py reads the number of attempts and resets the row in two
\* transactions: each further tick process can slip in one reset too many,
\* and no more.
RetriesBounded ==
  \A t \in Tasks : Ticks # {} => attempts[t] + 1 <= MaxRetries + Cardinality(Ticks)

-----------------------------------------------------------------------------
(* A single tick process, and no daemon *)

\* The snapshot a pass works through still agrees with the table when the pass
\* acts on it, though most of the UPDATEs do not ask again for what the SELECT
\* asked for (heartbeat.py, pr_watcher.py, auto_merge.py, auto_recover.py).
SnapshotsAgree ==
  \A p \in Procs :
    /\ \A i \in todo[p] :
         /\ pc[p] \in {"reaping", "stamping"} =>
              row[i.task].status = "dispatched" /\ row[i.task].pr_number = NULL
         /\ pc[p] = "recovering" => row[i.task].status \in {"failed", "abandoned"}
         /\ pc[p] \in {"watching", "merging"} =>
              row[i.task].status = "dispatched" /\ row[i.task].pr_number = i.pr
    /\ pc[p] = "resetting" =>
         /\ row[held[p].task].status \in {"failed", "abandoned"}
         /\ attempts[held[p].task] = held[p].retries
    /\ pc[p] \in {"observed", "reviewing", "approved"} =>
         /\ row[held[p].task].status = "dispatched"
         /\ row[held[p].task].pr_number = held[p].pr

\* While a session runs its row is dispatched and carries no PR yet, so the
\* outcome that dispatch.py writes without a status check overwrites nothing.
SessionOwnsRow ==
  \A p \in Procs : pc[p] = "session" => /\ row[held[p].task].status = "dispatched"
                                        /\ row[held[p].task].pr_number = NULL

\* A row that is planned again carries no PR of an earlier attempt: the next
\* attempt cannot be decided by the last one's PR.
PlannedRowsAreClean ==
  \A t \in Tasks : row[t].status \in {"absent", "planned"} => row[t].pr_number = NULL

\* Once a PR is recorded, a dispatched row only becomes merged or failed:
\* heartbeat and dispatch leave it to pr_watcher and auto_merge.
WatcherOwnsPRRows ==
  [][\A t \in Tasks :
       row[t].status = "dispatched" /\ row[t].pr_number # NULL
         => row'[t].status \in {"dispatched", "merged", "failed"}]_vars

\* One engine process, however it is interleaved with crashes, workers and
\* GitHub users, takes each task through the life that module TaskLifecycle
\* describes: merged is final and has landed, each retry is counted.
Lifecycle == INSTANCE TaskLifecycle
               WITH status  <- [t \in Tasks |-> row[t].status],
                    retries <- attempts,
                    landed  <- {t \in Tasks : Landed(t)}

LifecycleSpec == Lifecycle!Spec

-----------------------------------------------------------------------------
(* The daemon alone *)

\* No task is worked on by two sessions at once, left over sessions of a
\* crashed daemon included (dispatch.py, dispatch_loop).
AtMostOneSession ==
  \A t \in Tasks, p \in Procs :
    pc[p] = "session" /\ held[p].task = t =>
      /\ t \notin orphans
      /\ \A q \in Procs \ {p} : ~(pc[q] = "session" /\ held[q].task = t)

-----------------------------------------------------------------------------
(* Liveness: a process that runs takes its next step, sessions end (invoke *)
(* has a wall-clock timeout) and time passes.  GitHub users need not act.  *)

Fairness ==
  /\ \A p \in Ticks : WF_vars(TickStep(p)) /\ WF_vars(DispatchStep(p))
  /\ \A t \in Tasks : WF_vars(GoStale(t)) /\ WF_vars(CoolDown(t))

FairSpec == Spec /\ Fairness

\* A process still works on the row with what GitHub answered before the merge.
HeldBeforeMerge(t) ==
  \E p \in Procs : /\ pc[p] \in {"observed", "reviewing"}
                   /\ held[p].task = t
                   /\ held[p].seen # "merged"

\* A merge that lands on a recorded PR is recorded as merged, also when the engine
\* crashes between `gh pr merge` and its own UPDATE: a PR that GitHub reports as
\* merged is never rejected (auto_merge.py).  A review or an observation begun
\* before the merge is the exception: the PR is not asked for again, and the
\* critic may reject what has landed meanwhile.
LandedPRIsRecorded ==
  \A t \in Tasks :
    (/\ row[t].status = "dispatched"
     /\ row[t].pr_number # NULL
     /\ pr[row[t].pr_number].state = "merged"
     /\ ~HeldBeforeMerge(t))
      ~> row[t].status = "merged"

\* No row stays dispatched for ever without a PR, also when the process that
\* claimed it is gone.
UnshippedRowsAreReleased ==
  \A t \in Tasks :
    (row[t].status = "dispatched" /\ row[t].pr_number = NULL)
      ~> (row[t].status # "dispatched" \/ row[t].pr_number # NULL)

\* A row that failed on its PR is retried as long as it has retries left.
FailedPRIsRetried ==
  \A t \in Tasks :
    (row[t].status = "failed" /\ row[t].failure_reason \in RecoverableReasons
       /\ attempts[t] < MaxRetries)
      ~> row[t].status = "planned"

-----------------------------------------------------------------------------
(* What the sources say and the engine does not do *)

\* auto_recover.py: a row that heartbeat reaped is recoverable.
StalledRowIsRetried ==
  \A t \in Tasks :
    (row[t].status = "abandoned" /\ row[t].failure_reason = "stale_no_progress"
       /\ attempts[t] < MaxRetries)
      ~> row[t].status = "planned"

=============================================================================
