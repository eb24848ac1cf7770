-------------------------- MODULE ProviderSchedule --------------------------
(***************************************************************************)
(* The life of one provider's schedule: which service calls the program    *)
(* makes on it and in which order.  A call loads the state, applies one    *)
(* operator of SchedulerPolicy and commits the result; here the call is    *)
(* one step, because every writer holds run.lock from load to commit.      *)
(* (StateStore looks inside the commit, Application at the locks.)         *)
(*                                                                         *)
(* The provider is in a burst while a holder of run.lock is working on it: *)
(*   idle         nobody is; run.lock is free for a recalibration          *)
(*   selected     on a roster, its attempt not yet recorded                *)
(*   attempting   its debt is recorded and the model may be running        *)
(*   calibrating  its success is committed, the new window not yet read    *)
(***************************************************************************)
EXTENDS SchedulerPolicy

CONSTANTS
  RETRY_GAP,  \* AppConfig.watchdog_retry_gap
  MaxTime     \* bound on the clock

ASSUME ScheduleAssumption == RETRY_GAP \in Nat /\ MaxTime \in Nat

VARIABLES
  now,      \* the wall clock, which does not step back
  st,       \* the provider's durable state
  trigger,  \* may the model be run: enabled, probe_only or awaiting_resume
  burst     \* where a holder of run.lock is with this provider

vars == <<now, st, trigger, burst>>

Triggers == {"enabled", "probe_only", "awaiting_resume"}
Bursts == {"idle", "selected", "attempting", "calibrating"}

\* Readings a probe can return.  An implausible reset is one value, and so
\* is a stale reading: the policy may not look further than that.
Readings ==
  {NO_OBSERVATION, [fresh |-> FALSE, reset_at |-> now + 1]} \cup
  {[fresh |-> TRUE, reset_at |-> r] : r \in now .. now + MAX_WINDOW + 1}

TypeOK ==
  /\ now \in Nat
  /\ st \in ProviderState
  /\ trigger \in Triggers
  /\ burst \in Bursts

Init ==
  /\ now = 1
  /\ st = EmptyState
  /\ trigger \in Triggers
  /\ burst = "idle"

-----------------------------------------------------------------------------
Tick ==
  /\ now < MaxTime
  /\ now' = now + 1
  /\ UNCHANGED <<st, trigger, burst>>

\* The operator edits the configuration; the next process reads it.  A
\* provider enabled again first waits for a verified current window.
Reconfigure(t) ==
  /\ burst = "idle"
  /\ t # trigger
  /\ trigger' = t
  /\ UNCHANGED <<now, st, burst>>

\* Application._sync, reached from /usage.
Recalibrate(obs) ==
  /\ burst = "idle"
  /\ st' = IF trigger = "probe_only"
           THEN reanchor_probe_only(st, obs, now)
           ELSE sync_deadline(st, obs, now)
  /\ UNCHANGED <<now, trigger, burst>>

\* check: an unpaid debt whose gap has passed goes into the retry burst.
SelectRetry ==
  /\ burst = "idle"
  /\ trigger = "enabled"
  /\ retry_due(st, now, RETRY_GAP)
  /\ burst' = "selected"
  /\ UNCHANGED <<now, st, trigger>>

\* Mutant: a provider still waiting out its retry gap is decided as well.
DecideDue_with_debt(obs) ==
  /\ burst = "idle"
  /\ trigger = "enabled"
  /\ st' = evaluate_due(st, obs, now)
  /\ burst' = IF run_now(st, obs, now) THEN "selected" ELSE "idle"
  /\ UNCHANGED <<now, trigger>>

\* check: a provider without debt is decided; RUN_NOW puts it on the roster.
DecideDue(obs) ==
  /\ burst = "idle"
  /\ trigger = "enabled"
  /\ ~st.retry_pending
  /\ st' = evaluate_due(st, obs, now)
  /\ burst' = IF run_now(st, obs, now) THEN "selected" ELSE "idle"
  /\ UNCHANGED <<now, trigger>>

\* check: a probe-only provider is measured and its deadline kept ahead.
ReanchorProbeOnly(obs) ==
  /\ burst = "idle"
  /\ trigger = "probe_only"
  /\ st' = reanchor_probe_only(st, obs, now)
  /\ UNCHANGED <<now, trigger, burst>>

\* Mutant: the first check resumes the provider, verified window or not.
ResumeProvider_unverified(obs) ==
  /\ burst = "idle"
  /\ trigger = "awaiting_resume"
  /\ st' = reanchor_probe_only(st, obs, now)
  /\ trigger' = "enabled"
  /\ UNCHANGED <<now, burst>>

\* check: a re-enabled provider resumes on the first verified window.  The
\* acknowledgement is written after the state, so a crash can lose it.
ResumeProvider(obs) ==
  /\ burst = "idle"
  /\ trigger = "awaiting_resume"
  /\ valid_reset_at(obs, now) # Unset
  /\ st' = reanchor_probe_only(st, obs, now)
  /\ trigger' \in {"enabled", "awaiting_resume"}
  /\ UNCHANGED <<now, burst>>

\* run: the operator asks for the provider; only probe-only is refused.
RunCommand ==
  /\ burst = "idle"
  /\ trigger # "probe_only"
  /\ burst' = "selected"
  /\ UNCHANGED <<now, st, trigger>>

BeginAttempt ==
  /\ burst = "selected"
  /\ st' = begin_attempt(st, now)
  /\ burst' = "attempting"
  /\ UNCHANGED <<now, trigger>>

\* A later round of the same burst.
RecordAttempt ==
  /\ burst = "attempting"
  /\ st' = record_attempt(st, now)
  /\ UNCHANGED <<now, trigger, burst>>

Succeed ==
  /\ burst = "attempting"
  /\ st' = commit_success(st, now)
  /\ burst' = "calibrating"
  /\ UNCHANGED <<now, trigger>>

\* The last round failed: the debt stays.
GiveUp ==
  /\ burst = "attempting"
  /\ burst' = "idle"
  /\ UNCHANGED <<now, st, trigger>>

\* The post-run probe.  Without a valid reset, or without quota.lock, the
\* fallback deadline of commit_success remains.
PostRunSync(obs) ==
  /\ burst = "calibrating"
  /\ LET reset == valid_reset_at(obs, now)
     IN  st' = IF reset # Unset
               THEN sync_deadline(record_last_window(st, reset), obs, now)
               ELSE st
  /\ burst' = "idle"
  /\ UNCHANGED <<now, trigger>>

\* The process dies between the two commits of the post-run probe.
PostRunCut(obs) ==
  /\ burst = "calibrating"
  /\ valid_reset_at(obs, now) # Unset
  /\ st' = record_last_window(st, valid_reset_at(obs, now))
  /\ burst' = "idle"
  /\ UNCHANGED <<now, trigger>>

\* The process dies, or refuses the roster before its first attempt.
Abandon ==
  /\ burst # "idle"
  /\ burst' = "idle"
  /\ UNCHANGED <<now, st, trigger>>

\* One step of the system when the probes may return the readings R.
Step(R) ==
  \/ Tick
  \/ \E t \in Triggers : Reconfigure(t)
  \/ \E obs \in R : \/ Recalibrate(obs)
                    \/ DecideDue(obs)
                    \/ ReanchorProbeOnly(obs)
                    \/ ResumeProvider(obs)
                    \/ PostRunSync(obs)
                    \/ PostRunCut(obs)
  \/ SelectRetry
  \/ RunCommand
  \/ BeginAttempt
  \/ RecordAttempt
  \/ Succeed
  \/ GiveUp
  \/ Abandon

Next == Step(Readings)

Spec == Init /\ [][Next]_vars

-----------------------------------------------------------------------------
(* Safety.                                                                 *)

\* Near-window movement cannot accumulate: the trusted reset never strays
\* beyond the generation's anchor, however many readings each moved it a
\* little; and a parked candidate is beyond that reach, so that accepting
\* near movements can never amount to accepting the candidate.
Tethered ==
  st.reset_anchor # Unset =>
    /\ st.last_known_reset # Unset
    /\ st.last_known_reset <= st.reset_anchor + RESET_NEAR
    /\ st.last_task_at # Unset => st.last_known_reset > st.last_task_at

CandidateBeyondTether ==
  st.reset_candidate # Unset =>
    /\ st.reset_anchor # Unset
    /\ st.reset_candidate.reset_at > st.reset_anchor + RESET_NEAR
    /\ st.reset_candidate.observed_at <= now

\* The farthest ahead of the clock a deadline may lie.
Horizon == Max2(RUN_INTERVAL, MAX_WINDOW + RESET_BUFFER)

\* No reading, sequence of readings, candidate or configuration change puts
\* the deadline farther ahead than one window plus its buffer (or one run
\* interval): the provider cannot be scheduled out of sight.
NeverBeyondHorizon ==
  st.next_due_at # Unset => st.next_due_at <= now + Horizon

\* A success is never followed at once by another run: whatever is observed
\* or reconfigured after it, the deadline lies after the last task, by the
\* buffer or the run interval.
NoRerunStorm ==
  st.next_due_at # Unset /\ st.last_task_at # Unset =>
    \/ st.next_due_at >= st.last_task_at + RUN_INTERVAL
    \/ st.next_due_at > st.last_task_at + RESET_BUFFER

\* A debt is on disk from before the model starts until the attempt is over.
DebtDuringAttempt == burst = "attempting" => st.retry_pending

-----------------------------------------------------------------------------
(* What a step may never do.                                               *)

SuccessStep ==
  /\ st'.last_task_at = now
  /\ ~st'.retry_pending
  /\ st'.next_due_at = now + RUN_INTERVAL

\* The deadline is committed: owed, matured, or past the reset it waits for.
DeadlineCommitted ==
  \/ st.retry_pending
  \/ matured(st, now)
  \/ /\ st.next_due_at # Unset /\ st.last_known_reset # Unset
     /\ st.next_due_at = st.last_known_reset + RESET_BUFFER
     /\ now >= st.last_known_reset

\* A committed deadline is moved by a verified success alone (a provider that
\* may not run is the documented exception): no reading, late or fresh, from
\* check or from /usage, postpones a due task.
CommittedDeadlineHolds ==
  [][ DeadlineCommitted /\ st'.next_due_at # st.next_due_at
        => SuccessStep \/ trigger # "enabled" ]_vars

\* A debt is retired by a verified success, or by the program giving up on
\* running the provider at all; in that case the deadline is ahead again.
DebtOnlyPaid ==
  [][ st.retry_pending /\ ~st'.retry_pending
        => \/ SuccessStep /\ burst = "attempting"
           \/ /\ trigger # "enabled"
              /\ st'.next_due_at # Unset /\ st'.next_due_at > now ]_vars

\* A deadline is postponed past its generation's tether only by a second
\* reading that agrees with the first and is at least the minimum age
\* younger; the confirmed reset is never the earlier of the two.
PostponedBeyondTether ==
  /\ trigger = "enabled"
  /\ burst = "idle"
  /\ st.reset_anchor # Unset
  /\ st'.next_due_at # st.next_due_at
  /\ st'.next_due_at > st.reset_anchor + RESET_NEAR + RESET_BUFFER

PostponedOnlyConfirmed ==
  [][ PostponedBeyondTether =>
        /\ st.reset_candidate # Unset
        /\ now - st.reset_candidate.observed_at >= CONFIRM_MIN_AGE
        /\ st'.last_known_reset >= st.reset_candidate.reset_at
        /\ st'.last_known_reset <= st.reset_candidate.reset_at + CONFIRM_MATCH
    ]_vars
=============================================================================
