--------------------------- MODULE SchedulerPolicy ---------------------------
(***************************************************************************)
(* The scheduling policy of one provider, scheduler/policy.py: operators   *)
(* that map a provider's durable state, a quota observation and the time   *)
(* to the next durable state.  There are no variables here; the modules    *)
(* that own state (ProviderSchedule, Application) apply these operators.   *)
(*                                                                         *)
(* Instants are natural numbers.  Unset is Python's None: it is not a      *)
(* number, so arithmetic on a missing value is an error in the model as    *)
(* it is in the code.  Log texts ("reason") are left out.                  *)
(***************************************************************************)
EXTENDS Integers

CONSTANTS
  Unset,           \* None
  RUN_INTERVAL,    \* fallback distance between two runs (18060 s)
  RESET_BUFFER,    \* how long after a reset the run is due (240 s)
  RESET_NEAR,      \* jitter accepted around the anchor (300 s)
  CONFIRM_MIN_AGE, \* age a candidate needs before it is confirmed (60 s)
  CONFIRM_MATCH,   \* distance at which two readings agree (30 s)
  MAX_WINDOW       \* farthest plausible reset (21600 s)

ASSUME UnsetAssumption == Unset \notin Int

ASSUME PolicyAssumption ==
  /\ RUN_INTERVAL    \in Nat \ {0}
  /\ RESET_BUFFER    \in Nat \ {0}
  /\ RESET_NEAR      \in Nat
  /\ CONFIRM_MIN_AGE \in Nat
  /\ CONFIRM_MATCH   \in Nat
  /\ MAX_WINDOW      \in Nat \ {0}

Instant == Nat \cup {Unset}

ResetCandidate == [reset_at : Nat, observed_at : Nat]

ProviderState ==
  [last_attempt_at       : Instant,
   last_task_at          : Instant,
   retry_pending         : BOOLEAN,
   reset_candidate       : ResetCandidate \cup {Unset},
   reset_anchor          : Instant,
   last_known_reset      : Instant,
   last_triggered_window : Instant,
   next_due_at           : Instant]

\* A provider nothing has been recorded about: every slot is absent.
EmptyState ==
  [last_attempt_at       |-> Unset,
   last_task_at          |-> Unset,
   retry_pending         |-> FALSE,
   reset_candidate       |-> Unset,
   reset_anchor          |-> Unset,
   last_known_reset      |-> Unset,
   last_triggered_window |-> Unset,
   next_due_at           |-> Unset]

QuotaObservation == [fresh : BOOLEAN, reset_at : Instant]

NO_OBSERVATION == [fresh |-> FALSE, reset_at |-> Unset]

-----------------------------------------------------------------------------
(* Reads that are policy.                                                  *)

Max2(a, b) == IF a >= b THEN a ELSE b
Distance(a, b) == IF a >= b THEN a - b ELSE b - a

fallback_due(s, now) ==
  IF s.last_task_at # Unset THEN s.last_task_at + RUN_INTERVAL ELSE now

current_trusted_reset(s) ==
  IF /\ s.last_known_reset # Unset
     /\ s.last_task_at # Unset => s.last_known_reset > s.last_task_at
  THEN s.last_known_reset
  ELSE Unset

\* Mutant: the deadline is committed only once the buffer has matured.
schedule_blocked_without_buffer(s, now) ==
  \/ s.retry_pending
  \/ s.next_due_at # Unset /\ now >= s.next_due_at

\* Mutant: an unpaid debt does not block recalibration.
schedule_blocked_without_debt(s, now) ==
  s.next_due_at # Unset /\ now >= s.next_due_at

\* schedule_block_reason(...) is not None.
schedule_blocked(s, now) ==
  \/ s.retry_pending
  \/ /\ s.next_due_at # Unset
     /\ \/ now >= s.next_due_at
        \/ /\ s.last_known_reset # Unset
           /\ s.next_due_at = s.last_known_reset + RESET_BUFFER
           /\ now >= s.last_known_reset

\* Mutant: the plausibility window is not checked.
valid_reset_without_window(obs, now) ==
  IF obs.fresh /\ obs.reset_at # Unset /\ obs.reset_at > now
  THEN obs.reset_at
  ELSE Unset

\* Mutant: a reset that has already passed is believed.
valid_reset_in_the_past(obs, now) ==
  IF obs.fresh /\ obs.reset_at # Unset /\ obs.reset_at <= now + MAX_WINDOW
  THEN obs.reset_at
  ELSE Unset

valid_reset_at(obs, now) ==
  IF /\ obs.fresh
     /\ obs.reset_at # Unset
     /\ obs.reset_at > now
     /\ obs.reset_at <= now + MAX_WINDOW
  THEN obs.reset_at
  ELSE Unset

\* The wake-up of the precision timer over a roster of states.
min_next_due(states) ==
  LET candidates == {s \in states : ~s.retry_pending /\ s.next_due_at # Unset}
  IN  IF candidates = {} THEN Unset
      ELSE CHOOSE d \in {s.next_due_at : s \in candidates} :
             \A s \in candidates : d <= s.next_due_at

retry_due(s, now, gap) ==
  /\ s.retry_pending
  /\ s.last_attempt_at # Unset => now - s.last_attempt_at >= gap

-----------------------------------------------------------------------------
(* Transitions.                                                            *)

begin_attempt(s, now) ==
  [s EXCEPT !.retry_pending = TRUE, !.last_attempt_at = now]

\* Mutant: a new round forgets the debt.
record_attempt_clears_debt(s, now) ==
  [s EXCEPT !.last_attempt_at = now, !.retry_pending = FALSE]

record_attempt(s, now) == [s EXCEPT !.last_attempt_at = now]

\* Mutant: the previous generation's anchor and candidate survive a success.
commit_success_keeping_generation(s, now) ==
  [s EXCEPT !.last_attempt_at = now, !.last_task_at = now,
            !.retry_pending = FALSE, !.next_due_at = now + RUN_INTERVAL]

\* Mutant: a success leaves the old deadline in place.
commit_success_keeping_due(s, now) ==
  [s EXCEPT !.last_attempt_at = now, !.last_task_at = now,
            !.retry_pending = FALSE, !.reset_candidate = Unset,
            !.reset_anchor = Unset]

commit_success(s, now) ==
  [s EXCEPT !.last_attempt_at = now,
            !.last_task_at    = now,
            !.retry_pending   = FALSE,
            !.reset_candidate = Unset,
            !.reset_anchor    = Unset,
            !.next_due_at     = now + RUN_INTERVAL]

record_last_window(s, reset) == [s EXCEPT !.last_triggered_window = reset]

\* The anchor a reading is compared with: the recorded one or, for a
\* generation that has none yet, the reset it already trusts.
anchor_reset(s) ==
  IF s.reset_anchor = Unset THEN current_trusted_reset(s) ELSE s.reset_anchor

\* Mutant: a promoted candidate is not cleared.
accept_reset_keeping_candidate(s, anchor, reset) ==
  [s EXCEPT !.reset_anchor     = anchor,
            !.last_known_reset = reset,
            !.next_due_at      = reset + RESET_BUFFER]

\* What the accepting branches of sync_deadline write.
accept_reset(s, anchor, reset) ==
  [s EXCEPT !.reset_candidate  = Unset,
            !.reset_anchor     = anchor,
            !.last_known_reset = reset,
            !.next_due_at      = reset + RESET_BUFFER]

\* Mutant: agreement with the candidate is enough, at any age.
matching_candidate_at_any_age(s, reset, now) ==
  /\ s.reset_candidate # Unset
  /\ Distance(reset, s.reset_candidate.reset_at) <= CONFIRM_MATCH

matches_candidate(s, reset) ==
  /\ s.reset_candidate # Unset
  /\ Distance(reset, s.reset_candidate.reset_at) <= CONFIRM_MATCH

confirms_candidate(s, reset, now) ==
  /\ matches_candidate(s, reset)
  /\ now - s.reset_candidate.observed_at >= CONFIRM_MIN_AGE

\* Mutant: the slot holds the reset alone, without the time it was seen.
park_candidate_without_stamp(s, reset, now) ==
  [s EXCEPT !.reset_candidate = [reset_at |-> reset, observed_at |-> Unset],
            !.reset_anchor = anchor_reset(s)]

park_candidate(s, reset, now) ==
  [s EXCEPT !.reset_candidate = [reset_at |-> reset, observed_at |-> now],
            !.reset_anchor    = anchor_reset(s)]

\* The branch sync_deadline takes; the order of the tests is the code's.
sync_action(s, obs, now) ==
  LET reset == valid_reset_at(obs, now)
  IN  IF reset = Unset                             THEN "no_valid_quota"
      ELSE IF schedule_blocked(s, now)             THEN "blocked"
      ELSE IF current_trusted_reset(s) = Unset     THEN "anchor_established"
      ELSE IF reset <= anchor_reset(s) + RESET_NEAR THEN "near_movement"
      ELSE IF confirms_candidate(s, reset, now)    THEN "candidate_promoted"
      ELSE IF matches_candidate(s, reset)          THEN "candidate_pending"
      ELSE "candidate_created"

sync_deadline(s, obs, now) ==
  LET reset  == valid_reset_at(obs, now)
      action == sync_action(s, obs, now)
  IN  IF action = "anchor_established" THEN accept_reset(s, reset, reset)
      ELSE IF action = "near_movement" THEN accept_reset(s, anchor_reset(s), reset)
      ELSE IF action = "candidate_promoted"
      THEN LET confirmed == Max2(s.reset_candidate.reset_at, reset)
           IN  accept_reset(s, confirmed, confirmed)
      ELSE IF action = "candidate_created"
      THEN park_candidate(s, reset, now)
      ELSE s

matured(s, now) == s.next_due_at # Unset /\ now >= s.next_due_at

seed_fallback(s, now) ==
  IF s.next_due_at = Unset
  THEN [s EXCEPT !.next_due_at = fallback_due(s, now)]
  ELSE s

\* Mutant: a fresh reading at due time recalibrates a matured deadline,
\* the starvation bug the comment in evaluate_due records.
evaluate_due_syncing_first(s, obs, now) ==
  LET reset == valid_reset_at(obs, now)
  IN  seed_fallback(IF reset # Unset THEN accept_reset(s, reset, reset) ELSE s, now)

\* The state evaluate_due leaves behind ...
evaluate_due(s, obs, now) ==
  IF matured(s, now) THEN s ELSE seed_fallback(sync_deadline(s, obs, now), now)

\* ... and its verdict: RUN_NOW, or WAIT.
run_now(s, obs, now) == matured(evaluate_due(s, obs, now), now)

\* Mutant: without a fresh reset the deadline is left where it was.
reanchor_probe_only_lingering(s, obs, now) ==
  LET reset == valid_reset_at(obs, now)
  IN  IF reset # Unset
      THEN [accept_reset(s, reset, reset) EXCEPT !.retry_pending = FALSE]
      ELSE [s EXCEPT !.retry_pending = FALSE, !.reset_candidate = Unset]

reanchor_probe_only(s, obs, now) ==
  LET reset == valid_reset_at(obs, now)
      floor == IF s.next_due_at = Unset THEN 0 ELSE s.next_due_at
  IN  IF reset # Unset
      THEN [accept_reset(s, reset, reset) EXCEPT !.retry_pending = FALSE]
      ELSE [s EXCEPT !.retry_pending   = FALSE,
                     !.reset_candidate = Unset,
                     !.next_due_at     = Max2(floor, now + RUN_INTERVAL)]
=============================================================================
