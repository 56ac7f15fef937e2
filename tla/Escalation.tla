------------------------------ MODULE Escalation ------------------------------
(***************************************************************************)
(* The retries of one task, and what each of its sessions is started with. *)
(*                                                                         *)
(* Several parts of the engine decide from the task's events in the ledger:*)
(*                                                                         *)
(*   deep_fix      counts failures and escalations, and plans a failed     *)
(*                 task again with the next recipe                         *)
(*   auto_recover  counts its own resets                                   *)
(*   dispatch      looks up the last recipe, counts the failures in a row  *)
(*                 and the recent rate limits, and picks model and prompt  *)
(*                                                                         *)
(* One engine process runs its passes one after the other and waits for    *)
(* the session it has started, so a pass over one row is one step.  The    *)
(* ledger is kept whole, as the sequence of the events that are read back. *)
(***************************************************************************)
EXTENDS Naturals, FiniteSets, Sequences, SequencesExt, TaskRow

CONSTANTS
  Threshold,      \* EscalationConfig.failure_threshold
  Recipes,        \* the number of EscalationConfig.recipes
  DecomposeAfter, \* DECOMPOSE_FIRST_FAILURE_THRESHOLD
  Chain,          \* the length of the model chain of the operator's plan
  MaxRetries,     \* auto_recover's max_retries
  MaxAttempts     \* bound: sessions of the task

ASSUME EscalationConstants ==
  /\ PRNumbers \subseteq Nat
  /\ Threshold \in Nat \ {0}
  /\ Recipes \in Nat
  /\ DecomposeAfter \in Nat \ {0}
  /\ Chain \in Nat \ {0}
  /\ MaxRetries \in Nat
  /\ MaxAttempts \in Nat

VARIABLES
  row,      \* the task's row
  log,      \* its events, the oldest first
  pr,       \* the pull requests of its branch, in the order they were opened
  running,  \* the session's model and prompt; NULL when there is no session
  started,  \* how many sessions there have been
  dead      \* the PRs that were closed or merged when the last session started

vars == <<row, log, pr, running, started, dead>>

-----------------------------------------------------------------------------
(* Events.  An event is hot within deep_fix's cooldown, warm within the six *)
(* hours that rate limits count, and old after that.                        *)

FailureKinds == {"dispatch_failed", "dispatch_timeout", "auto_merge_rejected"}
Kinds == FailureKinds \cup {"dispatch_succeeded", "dispatch_retryable", "rate_limited",
                            "deep_fix_escalated", "deep_fix_exhausted",
                            "auto_recover_attempted"}
EventAges == {"hot", "warm", "old"}
Events == [kind : Kinds, age : EventAges]

Emit(k) == log' = Append(log, [kind |-> k, age |-> "hot"])
Count(K) == Cardinality({i \in DOMAIN log : log[i].kind \in K})

Escalations == Count({"deep_fix_escalated"})

\* What a session is started with: the rung of the model chain, or the recipe
\* whose model and note take its place.
Starts == [recipe : 0..Recipes, rung : 0..(Chain - 1), decompose : BOOLEAN]
PRStates == {"none", "open", "merged", "closed"}

TypeOK ==
  /\ row \in Rows
  /\ log \in Seq(Events)
  /\ pr \in [PRNumbers -> PRStates]
  /\ running \in Starts \cup {NULL}
  /\ running # NULL => row.status = "dispatched"
  /\ started \in 0..MaxAttempts
  /\ dead \subseteq PRNumbers

Init ==
  /\ row = SeedOne(NoRow)
  /\ log = <<>>
  /\ pr = [n \in PRNumbers |-> "none"]
  /\ running = NULL
  /\ started = 0
  /\ dead = {}

OpenPRs == {n \in PRNumbers : pr[n] = "open"}

\* Bound: a task that could not have another session is not planned again.
MayRunAgain == started < MaxAttempts

-----------------------------------------------------------------------------
(* dispatch.dispatch_one *)

\* get_escalation_override: the recipe of the last escalation, however long ago.
Override == Escalations

\* _count_recent_terminal_failures: back from the newest event up to a success.
FailuresInRow ==
  LET ends == {i \in DOMAIN log : log[i].kind = "dispatch_succeeded"}
  IN  Cardinality({i \in DOMAIN log : /\ log[i].kind = "dispatch_failed"
                                      /\ \A j \in ends : j < i})

\* _count_recent_rate_limit_failures
Strikes == Cardinality({i \in DOMAIN log : log[i].kind = "rate_limited" /\ log[i].age # "old"})

\* Mutant: the fallback walks off the chain.
PickModelUnclamped == Strikes

\* _pick_model: one rung down for each strike, and never off the chain.
PickModel == IF Strikes < Chain THEN Strikes ELSE Chain - 1

Start ==
  [recipe |-> Override,
   rung |-> IF Override = 0 THEN PickModel ELSE 0,
   decompose |-> Override = 0 /\ FailuresInRow >= DecomposeAfter]

Dispatch ==
  /\ running = NULL /\ row.status = "planned" /\ MayRunAgain
  /\ row' = TransitionToDispatched(row)
  /\ running' = Start
  /\ started' = started + 1
  /\ dead' = {n \in PRNumbers : pr[n] \in {"closed", "merged"}}
  /\ UNCHANGED <<log, pr>>

(* dispatch_invoke.invoke: how a session ends *)

\* Killed at the wall-clock limit or not, its exit status (EXIT_SIGTERM is "term"),
\* and whether its stream or its stderr says that rate-limit retries ran out.
Exits == [timed_out : BOOLEAN, status : {"ok", "term", "error"}, limited : BOOLEAN]

RateLimitExhausted(e) == ~e.timed_out /\ e.status = "error" /\ e.limited

Classify(e) ==
  CASE e.timed_out -> "timeout"
    [] ~e.timed_out /\ e.status = "ok" -> "success"
    [] ~e.timed_out /\ (e.status = "term" \/ RateLimitExhausted(e)) -> "retryable_transient"
    [] OTHER -> "failed"

\* With an open PR a failure counts as a success, unless git or gh does not answer.
MaybeUpgrade(c) ==
  IF c = "failed" /\ OpenPRs # {} THEN {"failed", "success"} ELSE {c}

OutcomeKind(c) ==
  CASE c = "success"             -> "dispatch_succeeded"
    [] c = "retryable_transient" -> "dispatch_retryable"
    [] c = "timeout"             -> "dispatch_timeout"
    [] OTHER                     -> "dispatch_failed"

\* "rate_limited" is a dispatch_retryable event that carries rate_limit_exhausted.
FinishSession ==
  /\ running # NULL
  /\ running' = NULL
  /\ \E e \in Exits : \E c \in MaybeUpgrade(Classify(e)) :
       /\ c = "retryable_transient" => MayRunAgain
       /\ row' = RecordOutcome(row, c)
       /\ Emit(IF RateLimitExhausted(e) THEN "rate_limited" ELSE OutcomeKind(c))
  /\ UNCHANGED <<pr, started, dead>>

-----------------------------------------------------------------------------
(* Passes over the row *)

PassStep == running = NULL /\ UNCHANGED <<pr, running, started, dead>>

(* deep_fix.run *)

\* Mutant: the cooldown is compared the wrong way round.
EscalationDueWhileHot ==
  /\ Count(FailureKinds) >= Threshold
  /\ Escalations < Recipes
  /\ \E e \in Range(log) : e.kind \in FailureKinds /\ e.age = "hot"

\* The threshold is reached, a recipe is left, no failure is within the cooldown.
EscalationDue ==
  /\ Count(FailureKinds) >= Threshold
  /\ Escalations < Recipes
  /\ \A e \in Range(log) : e.kind \in FailureKinds => e.age # "hot"

LoadFailed == row.status = "failed"

Escalate ==
  /\ PassStep
  /\ LoadFailed /\ EscalationDue /\ MayRunAgain
  /\ row' = EmitEscalated(row)
  /\ Emit("deep_fix_escalated")

\* Mutant: the event is written in every pass.
ExhaustedAgain ==
  /\ PassStep
  /\ LoadFailed /\ Count(FailureKinds) >= Threshold /\ Escalations >= Recipes
  /\ Count({"deep_fix_exhausted"}) < 2
  /\ Emit("deep_fix_exhausted")
  /\ UNCHANGED row

Exhausted ==
  /\ PassStep
  /\ LoadFailed /\ Count(FailureKinds) >= Threshold /\ Escalations >= Recipes
  /\ Count({"deep_fix_exhausted"}) = 0
  /\ Emit("deep_fix_exhausted")
  /\ UNCHANGED row

(* auto_recover.run *)

\* Mutant: the attempt is not recorded.
RecoverUncounted ==
  /\ PassStep
  /\ RecoveryDue(row) /\ Count({"auto_recover_attempted"}) < MaxRetries /\ MayRunAgain
  /\ row' = ResetToPlanned(row)
  /\ UNCHANGED log

Recover ==
  /\ PassStep
  /\ RecoveryDue(row) /\ Count({"auto_recover_attempted"}) < MaxRetries /\ MayRunAgain
  /\ row' = ResetToPlanned(row)
  /\ Emit("auto_recover_attempted")

(* heartbeat, pr_watcher, auto_merge *)

Reap ==
  /\ PassStep
  /\ Reapable(row)
  /\ row' = Abandon(row)
  /\ UNCHANGED log

Stamp ==
  /\ PassStep
  /\ row.status = "dispatched" /\ row.pr_number = NULL
  /\ \E n \in OpenPRs : row' = StampPRNumber(row, n)
  /\ UNCHANGED log

Watched(state) ==
  row.status = "dispatched" /\ row.pr_number # NULL /\ pr[row.pr_number] = state

Watch ==
  /\ PassStep
  /\ \/ Watched("merged") /\ row' = TransitionToMerged(row)
     \/ Watched("closed") /\ row' = TransitionToFailed(row, "pr_closed_unmerged")
  /\ UNCHANGED log

(* critic.ClaudeCriticBackend *)

\* The last thing a critic's session says: a verdict, something else, or nothing.
CriticTexts == {"approve", "reject", "other", "empty"}

\* parse_critic_response: what is not a verdict rejects.
ParseCriticResponse(text) == IF text = "approve" THEN "approve" ELSE "reject"

\* review: a critic whose own session fails rejects, too.
Review(classification, text) ==
  IF classification = "success" THEN ParseCriticResponse(text) ELSE "reject"

Verdicts == {Review(Classify(e), text) : e \in Exits, text \in CriticTexts}

\* The PR stays open.
CriticRejects ==
  /\ PassStep
  /\ Watched("open") /\ "reject" \in Verdicts
  /\ row' = TransitionToFailed(row, "critic_rejected")
  /\ Emit("auto_merge_rejected")

\* The merge and the row's UPDATE; that GitHub refuses the merge changes nothing.
CriticApproves ==
  /\ running = NULL
  /\ Watched("open") /\ "approve" \in Verdicts
  /\ pr' = [pr EXCEPT ![row.pr_number] = "merged"]
  /\ row' = TransitionToMerged(row)
  /\ UNCHANGED <<log, running, started, dead>>

-----------------------------------------------------------------------------
(* The worker, GitHub and the clock *)

OpenPR ==
  /\ running # NULL /\ OpenPRs = {}
  /\ \E n \in PRNumbers :
       /\ pr[n] = "none" /\ \A m \in PRNumbers : pr[m] = "none" => n <= m
       /\ pr' = [pr EXCEPT ![n] = "open"]
  /\ UNCHANGED <<row, log, running, started, dead>>

EndPR ==
  /\ \E n \in OpenPRs, s \in {"merged", "closed"} : pr' = [pr EXCEPT ![n] = s]
  /\ UNCHANGED <<row, log, running, started, dead>>

GoStale ==
  /\ row.status = "dispatched" /\ row.fresh
  /\ row' = [row EXCEPT !.fresh = FALSE]
  /\ UNCHANGED <<log, pr, running, started, dead>>

\* The cooldowns of deep_fix and auto_recover, both half an hour, are over.
CoolDown ==
  /\ row' = [row EXCEPT !.failed_at = IF @ = "recent" THEN "cooled" ELSE @]
  /\ log' = [i \in DOMAIN log |->
               [log[i] EXCEPT !.age = IF @ = "hot" THEN "warm" ELSE @]]
  /\ <<row, log>>' # <<row, log>>
  /\ UNCHANGED <<pr, running, started, dead>>

\* The rate limits so far lie more than six hours back.
ForgetRateLimits ==
  /\ Strikes > 0
  /\ \A e \in Range(log) : e.age # "hot"
  /\ log' = [i \in DOMAIN log |-> [log[i] EXCEPT !.age = "old"]]
  /\ UNCHANGED <<row, pr, running, started, dead>>

-----------------------------------------------------------------------------

EngineStep ==
  \/ Dispatch \/ FinishSession
  \/ Escalate \/ Exhausted \/ Recover
  \/ Reap \/ Stamp \/ Watch \/ CriticRejects \/ CriticApproves

Next == EngineStep \/ OpenPR \/ EndPR \/ GoStale \/ CoolDown \/ ForgetRateLimits

Spec == Init /\ [][Next]_vars

=============================================================================
