------------------------------- MODULE TaskRow -------------------------------
(***************************************************************************)
(* One row of the SQLite `task` table (db.py) and the statements that      *)
(* change it.  Every engine pass writes a row with one UPDATE in one       *)
(* transaction, so each UPDATE is an operator from the row before it to    *)
(* the row after it.  The statement's WHERE clause is the IF of the        *)
(* operator: a clause that does not match leaves the row as it is.         *)
(*                                                                         *)
(* Columns kept: status, pr_number, failure_reason, failed_at and the age  *)
(* of last_progress_at.  Timestamps are kept as what the code asks of      *)
(* them: `fresh` is "last_progress_at is within heartbeat's grace period", *)
(* `failed_at` is NULL, "recent" or "cooled" (past auto_recover's          *)
(* cooldown).                                                              *)
(***************************************************************************)
CONSTANTS PRNumbers,   \* the pull request numbers GitHub may hand out
          NULL         \* SQL NULL

ASSUME NullIsNoNumber == NULL \notin PRNumbers

-----------------------------------------------------------------------------

\* "absent" is a roadmap item that has no row in the task table yet.
Statuses == {"absent", "planned", "dispatched", "merged", "failed", "abandoned"}

\* dispatch_invoke.Classification: what a worker session came to.
Classifications == {"success", "retryable_transient", "failed", "timeout"}

FailureReasons == {"failed", "timeout", "stale_no_progress",
                   "pr_closed_unmerged", "critic_rejected"}

\* auto_recover resets rows that failed for one of these reasons only.
RecoverableReasons == {"critic_rejected", "pr_closed_unmerged", "stale_no_progress"}

Ages == {"recent", "cooled"}

Rows == [status         : Statuses,
         pr_number      : PRNumbers \cup {NULL},
         failure_reason : FailureReasons \cup {"none"},
         failed_at      : Ages \cup {"none"},
         fresh          : BOOLEAN]

NoRow == [status |-> "absent", pr_number |-> NULL, failure_reason |-> "none",
          failed_at |-> "none", fresh |-> FALSE]

-----------------------------------------------------------------------------
(* seed_from_roadmap *)

\* INSERT of a planned row for a roadmap item; the identifier is UNIQUE, so a
\* second insert is an error that leaves the row alone.
SeedOne(r) ==
  IF r.status = "absent"
  THEN [r EXCEPT !.status = "planned", !.fresh = TRUE]
  ELSE r

(* dispatch *)

TransitionToDispatched(r) ==
  IF r.status = "planned"
  THEN [r EXCEPT !.status = "dispatched", !.fresh = TRUE]
  ELSE r

OutcomeStatus(c) ==
  CASE c = "success"             -> "dispatched"
    [] c = "retryable_transient" -> "planned"
    [] c = "timeout"             -> "abandoned"
    [] OTHER                     -> "failed"

\* Mutant: every outcome is written as a failure reason.
RecordOutcomeAlwaysReason(r, c) ==
  [r EXCEPT !.status = OutcomeStatus(c), !.fresh = TRUE, !.failure_reason = c]

\* WHERE id = ? and nothing else: the row takes the outcome whatever its status
\* has become.  failed_at is not written, failure_reason only on a failure.
RecordOutcome(r, c) ==
  [r EXCEPT !.status = OutcomeStatus(c),
            !.fresh = TRUE,
            !.failure_reason = IF c \in {"failed", "timeout"} THEN c ELSE @]

\* Mutant: a row with a recorded PR counts as an orphan.
AnyRowIsReapable(r) == TRUE

IsOrphanReapable(r) == r.pr_number = NULL

(* heartbeat *)

\* Mutant: the staleness comparison is the wrong way round.
ReapableWhenFresh(r) == r.status = "dispatched" /\ IsOrphanReapable(r) /\ r.fresh

Reapable(r) == r.status = "dispatched" /\ IsOrphanReapable(r) /\ ~r.fresh

\* Does not write failed_at, and does not ask for pr_number again.
Abandon(r) ==
  IF r.status = "dispatched"
  THEN [r EXCEPT !.status = "abandoned", !.fresh = TRUE,
                 !.failure_reason = "stale_no_progress"]
  ELSE r

(* pr_watcher and auto_merge *)

\* WHERE pr_number IS NULL: the status is not asked for.
StampPRNumber(r, n) ==
  IF r.pr_number = NULL THEN [r EXCEPT !.pr_number = n, !.fresh = TRUE] ELSE r

StampProgress(r) == [r EXCEPT !.fresh = TRUE]

TransitionToMerged(r) ==
  IF r.status = "dispatched"
  THEN [r EXCEPT !.status = "merged", !.fresh = TRUE]
  ELSE r

\* Mutant: failed_at is not stamped.
TransitionToFailedUndated(r, reason) ==
  IF r.status = "dispatched"
  THEN [r EXCEPT !.status = "failed", !.fresh = TRUE, !.failure_reason = reason]
  ELSE r

TransitionToFailed(r, reason) ==
  IF r.status = "dispatched"
  THEN [r EXCEPT !.status = "failed", !.fresh = TRUE,
                 !.failed_at = "recent", !.failure_reason = reason]
  ELSE r

(* auto_recover *)

RecoveryDue(r) ==
  /\ r.status \in {"failed", "abandoned"}
  /\ r.failure_reason \in RecoverableReasons
  /\ r.failed_at = "cooled"

\* Mutant: the reset forgets to clear pr_number.
ResetToPlannedKeepingPR(r) ==
  IF r.status \in {"failed", "abandoned"}
  THEN [r EXCEPT !.status = "planned", !.fresh = TRUE,
                 !.failed_at = "none", !.failure_reason = "none"]
  ELSE r

ResetToPlanned(r) ==
  IF r.status \in {"failed", "abandoned"}
  THEN [r EXCEPT !.status = "planned", !.fresh = TRUE, !.pr_number = NULL,
                 !.failed_at = "none", !.failure_reason = "none"]
  ELSE r

(* deep_fix *)

\* WHERE id = ? and nothing else; pr_number and failed_at stay.
EmitEscalated(r) ==
  [r EXCEPT !.status = "planned", !.fresh = TRUE, !.failure_reason = "none"]

=============================================================================
