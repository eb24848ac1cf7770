----------------------- MODULE ProviderSchedule_proofs -----------------------
(***************************************************************************)
(* Theorems about ProviderSchedule, for every value of the timing          *)
(* constants.  The argument is one predicate on a provider state and a     *)
(* time, Sound, that every operator of SchedulerPolicy preserves; the      *)
(* invariants of ProviderSchedule are its conjuncts.  The last part is     *)
(* about RollingWindow, the same schedule in front of rolling readings.    *)
(***************************************************************************)
EXTENDS RollingWindow, SchedulerPolicy_proofs, TLAPS

-----------------------------------------------------------------------------
(* The inductive strengthening.                                            *)

\* No recorded instant lies ahead of the clock, and a candidate was
\* plausible when it was observed.
PastIsPast(s, t) ==
  /\ s.last_task_at # Unset => s.last_task_at <= t
  /\ s.reset_candidate # Unset =>
       /\ s.reset_candidate.observed_at <= t
       /\ s.reset_candidate.reset_at <= s.reset_candidate.observed_at + MAX_WINDOW

TetheredState(s) ==
  s.reset_anchor # Unset =>
    /\ s.last_known_reset # Unset
    /\ s.last_known_reset <= s.reset_anchor + RESET_NEAR
    /\ s.last_task_at # Unset => s.last_known_reset > s.last_task_at

CandidateState(s) ==
  s.reset_candidate # Unset =>
    /\ s.reset_anchor # Unset
    /\ s.reset_candidate.reset_at > s.reset_anchor + RESET_NEAR

DueState(s, t) ==
  /\ s.last_known_reset # Unset => s.next_due_at # Unset
  /\ s.next_due_at # Unset =>
       /\ s.next_due_at <= t + Horizon
       /\ s.last_task_at # Unset =>
            \/ s.next_due_at >= s.last_task_at + RUN_INTERVAL
            \/ s.next_due_at > s.last_task_at + RESET_BUFFER

Sound(s, t) ==
  /\ s \in ProviderState
  /\ PastIsPast(s, t)
  /\ TetheredState(s)
  /\ CandidateState(s)
  /\ DueState(s, t)

IInv ==
  /\ now \in Nat
  /\ trigger \in Triggers
  /\ burst \in Bursts
  /\ Sound(st, now)
  /\ DebtDuringAttempt

-----------------------------------------------------------------------------
(* The operators of the policy.                                            *)

LEMMA HorizonBound ==
  Horizon \in Nat /\ Horizon >= RUN_INTERVAL /\ Horizon >= MAX_WINDOW + RESET_BUFFER
BY PolicyAssumption DEF Horizon, Max2

LEMMA TrustedReset ==
  ASSUME NEW s \in ProviderState, current_trusted_reset(s) # Unset
  PROVE  /\ current_trusted_reset(s) = s.last_known_reset
         /\ s.last_known_reset \in Nat
         /\ s.last_task_at # Unset => s.last_known_reset > s.last_task_at
BY DEF current_trusted_reset, ProviderState, Instant

\* Accepting a plausible reset under an anchor that tethers it is sound.
LEMMA AcceptSound ==
  ASSUME NEW s, NEW t \in Nat, Sound(s, t),
         NEW anchor \in Nat, NEW r \in Nat,
         r > t, r <= t + MAX_WINDOW, r <= anchor + RESET_NEAR
  PROVE  Sound(accept_reset(s, anchor, r), t)
<1> DEFINE u == accept_reset(s, anchor, r)
<1>0. s \in ProviderState
  BY DEF Sound
<1>1. u \in ProviderState
  <2>1. r + RESET_BUFFER \in Nat
    BY PolicyAssumption
  <2>2. QED
    BY <1>0, <2>1 DEF accept_reset, ProviderState, Instant
<1>2. /\ u.last_task_at = s.last_task_at
      /\ u.reset_candidate = Unset
      /\ u.reset_anchor = anchor
      /\ u.last_known_reset = r
      /\ u.next_due_at = r + RESET_BUFFER
  BY <1>0 DEF accept_reset, ProviderState
<1> HIDE DEF u
<1>3. PastIsPast(u, t)
  BY <1>2 DEF Sound, PastIsPast
<1>4. TetheredState(u)
  BY <1>0, <1>2, UnsetAssumption DEF Sound, PastIsPast, TetheredState, ProviderState, Instant
<1>5. CandidateState(u)
  BY <1>2 DEF CandidateState
<1>6. DueState(u, t)
  BY <1>0, <1>2, HorizonBound, PolicyAssumption, UnsetAssumption
     DEF Sound, PastIsPast, DueState, ProviderState, Instant
<1>7. QED
  BY <1>1, <1>3, <1>4, <1>5, <1>6 DEF Sound, u

\* Parking a far reset as the candidate is sound.
LEMMA ParkSound ==
  ASSUME NEW s, NEW t \in Nat, Sound(s, t),
         NEW r \in Nat, r > t, r <= t + MAX_WINDOW,
         current_trusted_reset(s) # Unset,
         r > anchor_reset(s) + RESET_NEAR
  PROVE  Sound(park_candidate(s, r, t), t)
<1> DEFINE c == [reset_at |-> r, observed_at |-> t]
           u == [s EXCEPT !.reset_candidate = c, !.reset_anchor = anchor_reset(s)]
<1>0. s \in ProviderState
  BY DEF Sound
<1>1. anchor_reset(s) \in Nat
  BY <1>0, TrustedReset DEF anchor_reset, ProviderState, Instant
<1>2. c \in ResetCandidate /\ c.reset_at = r /\ c.observed_at = t
  BY DEF ResetCandidate
<1> HIDE DEF c
<1>3. u \in ProviderState
  BY <1>0, <1>1, <1>2 DEF ProviderState, Instant
<1>4. /\ u.last_task_at = s.last_task_at
      /\ u.reset_candidate = c
      /\ u.reset_anchor = anchor_reset(s)
      /\ u.last_known_reset = s.last_known_reset
      /\ u.next_due_at = s.next_due_at
  BY <1>0 DEF ProviderState
<1> HIDE DEF u
<1>5. PastIsPast(u, t)
  BY <1>2, <1>4 DEF Sound, PastIsPast
<1>6. TetheredState(u)
  BY <1>0, <1>4, TrustedReset, PolicyAssumption, UnsetAssumption
     DEF Sound, TetheredState, anchor_reset, ProviderState, Instant
<1>7. CandidateState(u)
  BY <1>1, <1>2, <1>4, UnsetAssumption DEF CandidateState
<1>8. DueState(u, t)
  BY <1>4 DEF Sound, DueState
<1>9. QED
  BY <1>3, <1>5, <1>6, <1>7, <1>8 DEF Sound, park_candidate, u, c

\* The reset a confirmation takes over is plausible, and the later of two.
LEMMA ConfirmedReset ==
  ASSUME NEW s, NEW t \in Nat, Sound(s, t),
         NEW r \in Nat, r > t, r <= t + MAX_WINDOW,
         confirms_candidate(s, r, t)
  PROVE  LET m == Max2(s.reset_candidate.reset_at, r)
         IN  /\ m \in Nat /\ m > t /\ m <= t + MAX_WINDOW
             /\ m >= s.reset_candidate.reset_at
             /\ m <= s.reset_candidate.reset_at + CONFIRM_MATCH
<1>1. s.reset_candidate # Unset /\ s.reset_candidate \in ResetCandidate
  BY DEF Sound, ProviderState, confirms_candidate, matches_candidate
<1>2. /\ s.reset_candidate.reset_at \in Nat
      /\ s.reset_candidate.observed_at \in Nat
      /\ s.reset_candidate.reset_at <= t + MAX_WINDOW
  BY <1>1, PolicyAssumption DEF Sound, PastIsPast, ResetCandidate
<1>3. QED
  BY <1>2, PolicyAssumption DEF Max2, confirms_candidate, matches_candidate, Distance

LEMMA SyncSound ==
  ASSUME NEW s, NEW t \in Nat, Sound(s, t), NEW obs \in QuotaObservation
  PROVE  Sound(sync_deadline(s, obs, t), t)
<1> DEFINE r == valid_reset_at(obs, t)
           action == sync_action(s, obs, t)
<1>0. s \in ProviderState
  BY DEF Sound
<1>1. CASE action = "anchor_established"
  <2>1. r \in Nat /\ r > t /\ r <= t + MAX_WINDOW
    BY <1>1, ValidReset DEF sync_action
  <2>2. Sound(accept_reset(s, r, r), t)
    BY <2>1, AcceptSound, PolicyAssumption
  <2>3. QED
    BY <1>1, <2>2 DEF sync_deadline, park_candidate
<1>2. CASE action = "near_movement"
  <2>1. /\ r \in Nat /\ r > t /\ r <= t + MAX_WINDOW
        /\ current_trusted_reset(s) # Unset
        /\ r <= anchor_reset(s) + RESET_NEAR
    BY <1>2, ValidReset DEF sync_action
  <2>2. anchor_reset(s) \in Nat
    BY <1>0, <2>1, TrustedReset DEF anchor_reset, ProviderState, Instant
  <2>3. Sound(accept_reset(s, anchor_reset(s), r), t)
    BY <2>1, <2>2, AcceptSound
  <2>4. QED
    BY <1>2, <2>3 DEF sync_deadline, park_candidate
<1>3. CASE action = "candidate_promoted"
  <2> DEFINE m == Max2(s.reset_candidate.reset_at, r)
  <2>1. r \in Nat /\ r > t /\ r <= t + MAX_WINDOW /\ confirms_candidate(s, r, t)
    BY <1>3, ValidReset DEF sync_action
  <2>2. m \in Nat /\ m > t /\ m <= t + MAX_WINDOW
    BY <2>1, ConfirmedReset
  <2>3. Sound(accept_reset(s, m, m), t)
    BY <2>2, AcceptSound, PolicyAssumption
  <2>4. QED
    BY <1>3, <2>3 DEF sync_deadline, park_candidate
<1>4. CASE action = "candidate_created"
  <2>1. /\ r \in Nat /\ r > t /\ r <= t + MAX_WINDOW
        /\ current_trusted_reset(s) # Unset
        /\ ~(r <= anchor_reset(s) + RESET_NEAR)
    BY <1>4, ValidReset DEF sync_action
  <2>2. anchor_reset(s) \in Nat
    BY <1>0, <2>1, TrustedReset DEF anchor_reset, ProviderState, Instant
  <2>3. r > anchor_reset(s) + RESET_NEAR
    BY <2>1, <2>2, PolicyAssumption
  <2>4. QED
    BY <1>4, <2>1, <2>3, ParkSound DEF sync_deadline, park_candidate
<1>5. CASE action \notin {"anchor_established", "near_movement",
                           "candidate_promoted", "candidate_created"}
  BY <1>5 DEF sync_deadline, park_candidate
<1>6. QED
  BY <1>1, <1>2, <1>3, <1>4, <1>5

\* Setting a deadline that is near enough and not too soon is sound.
LEMMA SetDueSound ==
  ASSUME NEW s, NEW t \in Nat, Sound(s, t), NEW d \in Nat,
         d <= t + Horizon,
         s.last_task_at # Unset =>
           d >= s.last_task_at + RUN_INTERVAL \/ d > s.last_task_at + RESET_BUFFER
  PROVE  Sound([s EXCEPT !.next_due_at = d], t)
<1> DEFINE u == [s EXCEPT !.next_due_at = d]
<1>0. s \in ProviderState
  BY DEF Sound
<1>1. u \in ProviderState
  BY <1>0 DEF ProviderState, Instant
<1>2. /\ u.last_task_at = s.last_task_at
      /\ u.reset_candidate = s.reset_candidate
      /\ u.reset_anchor = s.reset_anchor
      /\ u.last_known_reset = s.last_known_reset
      /\ u.next_due_at = d
  BY <1>0 DEF ProviderState
<1> HIDE DEF u
<1>3. PastIsPast(u, t) /\ TetheredState(u) /\ CandidateState(u) /\ DueState(u, t)
  BY <1>2, UnsetAssumption DEF Sound, PastIsPast, TetheredState, CandidateState, DueState
<1>4. QED
  BY <1>1, <1>3 DEF Sound, u

LEMMA EvaluateSound ==
  ASSUME NEW s, NEW t \in Nat, Sound(s, t), NEW obs \in QuotaObservation
  PROVE  Sound(evaluate_due(s, obs, t), t)
<1> DEFINE u == sync_deadline(s, obs, t)
<1>1. Sound(u, t)
  BY SyncSound
<1> HIDE DEF u
<1>2. CASE u.next_due_at = Unset
  <2>1. u \in ProviderState /\ (u.last_task_at # Unset => u.last_task_at <= t)
    BY <1>1 DEF Sound, PastIsPast
  <2>2. /\ fallback_due(u, t) \in Nat
        /\ fallback_due(u, t) <= t + Horizon
        /\ u.last_task_at # Unset => fallback_due(u, t) = u.last_task_at + RUN_INTERVAL
    BY <2>1, HorizonBound, PolicyAssumption DEF fallback_due, ProviderState, Instant
  <2>3. u.last_task_at # Unset => fallback_due(u, t) >= u.last_task_at + RUN_INTERVAL
    BY <2>1, <2>2, PolicyAssumption DEF ProviderState, Instant
  <2>4. Sound([u EXCEPT !.next_due_at = fallback_due(u, t)], t)
    BY <1>1, <2>2, <2>3, SetDueSound
  <2>5. QED
    BY <1>2, <2>4 DEF evaluate_due, seed_fallback, u
<1>3. CASE u.next_due_at # Unset
  BY <1>1, <1>3 DEF evaluate_due, seed_fallback, u
<1>4. QED
  BY <1>2, <1>3

\* A transition that leaves the deadline, the reset slots and the last task
\* alone is sound.
LEMMA BookkeepingSound ==
  ASSUME NEW s, NEW t \in Nat, Sound(s, t), NEW u \in ProviderState,
         u.last_task_at = s.last_task_at,
         u.reset_candidate = s.reset_candidate,
         u.reset_anchor = s.reset_anchor,
         u.last_known_reset = s.last_known_reset,
         u.next_due_at = s.next_due_at
  PROVE  Sound(u, t)
BY DEF Sound, PastIsPast, TetheredState, CandidateState, DueState

LEMMA BeginSound ==
  ASSUME NEW s, NEW t \in Nat, Sound(s, t)
  PROVE  Sound(begin_attempt(s, t), t)
<1>0. s \in ProviderState
  BY DEF Sound
<1>1. begin_attempt(s, t) \in ProviderState
  BY <1>0 DEF begin_attempt, ProviderState, Instant
<1>2. QED
  BY <1>0, <1>1, BookkeepingSound DEF begin_attempt, ProviderState

LEMMA RecordSound ==
  ASSUME NEW s, NEW t \in Nat, Sound(s, t)
  PROVE  Sound(record_attempt(s, t), t)
<1>0. s \in ProviderState
  BY DEF Sound
<1>1. record_attempt(s, t) \in ProviderState
  BY <1>0 DEF record_attempt, ProviderState, Instant
<1>2. QED
  BY <1>0, <1>1, BookkeepingSound DEF record_attempt, ProviderState

LEMMA LastWindowSound ==
  ASSUME NEW s, NEW t \in Nat, Sound(s, t), NEW r \in Nat
  PROVE  Sound(record_last_window(s, r), t)
<1>0. s \in ProviderState
  BY DEF Sound
<1>1. record_last_window(s, r) \in ProviderState
  BY <1>0 DEF record_last_window, ProviderState, Instant
<1>2. QED
  BY <1>0, <1>1, BookkeepingSound DEF record_last_window, ProviderState

LEMMA SuccessSound ==
  ASSUME NEW s, NEW t \in Nat, Sound(s, t)
  PROVE  Sound(commit_success(s, t), t)
<1> DEFINE u == commit_success(s, t)
<1>0. s \in ProviderState
  BY DEF Sound
<1>1. t + RUN_INTERVAL \in Nat
  BY PolicyAssumption
<1>2. u \in ProviderState
  BY <1>0, <1>1 DEF commit_success, ProviderState, Instant
<1>3. /\ u.last_task_at = t
      /\ u.reset_candidate = Unset
      /\ u.reset_anchor = Unset
      /\ u.next_due_at = t + RUN_INTERVAL
  BY <1>0 DEF commit_success, ProviderState
<1> HIDE DEF u
<1>4. PastIsPast(u, t) /\ TetheredState(u) /\ CandidateState(u)
  BY <1>3 DEF PastIsPast, TetheredState, CandidateState
<1>5. DueState(u, t)
  BY <1>3, <1>1, HorizonBound, PolicyAssumption, UnsetAssumption DEF DueState
<1>6. QED
  BY <1>2, <1>4, <1>5 DEF Sound, u

\* Retiring the debt, with or without the candidate, is sound.
LEMMA RetireSound ==
  ASSUME NEW s, NEW t \in Nat, Sound(s, t), NEW u \in ProviderState,
         u.last_task_at = s.last_task_at,
         u.reset_candidate = Unset,
         u.reset_anchor = s.reset_anchor,
         u.last_known_reset = s.last_known_reset,
         u.next_due_at = s.next_due_at
  PROVE  Sound(u, t)
BY DEF Sound, PastIsPast, TetheredState, CandidateState, DueState

LEMMA ReanchorSound ==
  ASSUME NEW s, NEW t \in Nat, Sound(s, t), NEW obs \in QuotaObservation
  PROVE  Sound(reanchor_probe_only(s, obs, t), t)
<1> DEFINE r == valid_reset_at(obs, t)
<1>0. s \in ProviderState
  BY DEF Sound
<1>1. CASE r # Unset
  <2> DEFINE a == accept_reset(s, r, r)
             u == [a EXCEPT !.retry_pending = FALSE]
  <2>1. r \in Nat /\ r > t /\ r <= t + MAX_WINDOW
    BY <1>1, ValidReset
  <2>2. Sound(a, t)
    BY <2>1, AcceptSound, PolicyAssumption
  <2> HIDE DEF a
  <2>3. a \in ProviderState
    BY <2>2 DEF Sound
  <2>4. u \in ProviderState
    BY <2>3 DEF ProviderState
  <2>5. Sound(u, t)
    BY <2>2, <2>3, <2>4, BookkeepingSound DEF ProviderState
  <2>6. QED
    BY <1>1, <2>5 DEF reanchor_probe_only, a
<1>2. CASE r = Unset
  <2> DEFINE floor == IF s.next_due_at = Unset THEN 0 ELSE s.next_due_at
             d == Max2(floor, t + RUN_INTERVAL)
             a == [s EXCEPT !.retry_pending = FALSE, !.reset_candidate = Unset]
  <2>1. a \in ProviderState
    BY <1>0 DEF ProviderState
  <2>2. /\ a.last_task_at = s.last_task_at
        /\ a.reset_candidate = Unset
        /\ a.reset_anchor = s.reset_anchor
        /\ a.last_known_reset = s.last_known_reset
        /\ a.next_due_at = s.next_due_at
    BY <1>0 DEF ProviderState
  <2>3. Sound(a, t)
    BY <2>1, <2>2, RetireSound
  <2>4. floor \in Nat /\ floor <= t + Horizon
    BY <1>0, HorizonBound DEF Sound, DueState, ProviderState, Instant
  <2>5. d \in Nat /\ d <= t + Horizon /\ d >= t + RUN_INTERVAL
    BY <2>4, HorizonBound, PolicyAssumption DEF Max2
  <2>6. s.last_task_at # Unset => d >= s.last_task_at + RUN_INTERVAL
    BY <1>0, <2>5, PolicyAssumption DEF Sound, PastIsPast, ProviderState, Instant
  <2> HIDE DEF d
  <2>7. Sound([a EXCEPT !.next_due_at = d], t)
    BY <2>2, <2>3, <2>5, <2>6, SetDueSound
  <2>8. [a EXCEPT !.next_due_at = d]
          = [s EXCEPT !.retry_pending = FALSE, !.reset_candidate = Unset,
                      !.next_due_at = d]
    BY <1>0 DEF ProviderState
  <2>9. QED
    BY <1>2, <2>7, <2>8 DEF reanchor_probe_only, d
<1>3. QED
  BY <1>1, <1>2

LEMMA LaterSound ==
  ASSUME NEW s, NEW t \in Nat, Sound(s, t)
  PROVE  Sound(s, t + 1)
BY HorizonBound, UnsetAssumption
   DEF Sound, PastIsPast, DueState, ProviderState, Instant, ResetCandidate

-----------------------------------------------------------------------------
(* The invariant.                                                          *)

LEMMA EmptySound == Sound(EmptyState, 1)
BY UnsetAssumption
   DEF Sound, EmptyState, ProviderState, Instant,
       PastIsPast, TetheredState, CandidateState, DueState

LEMMA ReadingsAreObservations == now \in Nat => Readings \subseteq QuotaObservation
<1> SUFFICES ASSUME now \in Nat, NEW obs \in Readings
             PROVE  obs \in QuotaObservation
  OBVIOUS
<1>1. CASE obs = NO_OBSERVATION
  BY <1>1 DEF QuotaObservation, NO_OBSERVATION, Instant
<1>2. CASE obs = [fresh |-> FALSE, reset_at |-> now + 1]
  <2>1. now + 1 \in Nat
    OBVIOUS
  <2>2. QED
    BY <1>2, <2>1 DEF QuotaObservation, Instant
<1>3. ASSUME NEW r \in now .. now + MAX_WINDOW + 1,
             obs = [fresh |-> TRUE, reset_at |-> r]
      PROVE  obs \in QuotaObservation
  <2>1. r \in Nat
    BY PolicyAssumption
  <2>2. QED
    BY <1>3, <2>1 DEF QuotaObservation, Instant
<1>4. QED
  BY <1>1, <1>2, <1>3 DEF Readings

\* One step with readings of the right type preserves the invariant.
LEMMA StepInvariant ==
  ASSUME IInv, NEW R, R \subseteq QuotaObservation, Step(R)
  PROVE  IInv'
<1>0. now \in Nat /\ trigger \in Triggers /\ burst \in Bursts /\ Sound(st, now)
  BY DEF IInv
<1>1. CASE Tick
  BY <1>0, <1>1, LaterSound DEF Tick, IInv, DebtDuringAttempt
<1>2. ASSUME NEW t \in Triggers, Reconfigure(t)
      PROVE  IInv'
  BY <1>0, <1>2 DEF Reconfigure, IInv, DebtDuringAttempt
<1>3. ASSUME NEW obs \in R, Recalibrate(obs)
      PROVE  IInv'
  BY <1>0, <1>3, SyncSound, ReanchorSound DEF Recalibrate, IInv, DebtDuringAttempt
<1>4. ASSUME NEW obs \in R, DecideDue(obs)
      PROVE  IInv'
  BY <1>0, <1>4, EvaluateSound DEF DecideDue, IInv, DebtDuringAttempt, Bursts
<1>5. ASSUME NEW obs \in R, ReanchorProbeOnly(obs)
      PROVE  IInv'
  BY <1>0, <1>5, ReanchorSound DEF ReanchorProbeOnly, IInv, DebtDuringAttempt
<1>6. ASSUME NEW obs \in R, ResumeProvider(obs)
      PROVE  IInv'
  BY <1>0, <1>6, ReanchorSound DEF ResumeProvider, IInv, DebtDuringAttempt, Triggers
<1>7. ASSUME NEW obs \in R, PostRunSync(obs)
      PROVE  IInv'
  <2> DEFINE r == valid_reset_at(obs, now)
  <2>1. r # Unset => r \in Nat
    BY <1>0, ValidReset
  <2>2. r # Unset => Sound(sync_deadline(record_last_window(st, r), obs, now), now)
    BY <1>0, <2>1, LastWindowSound, SyncSound
  <2>3. QED
    BY <1>0, <1>7, <2>2 DEF PostRunSync, IInv, DebtDuringAttempt, Bursts
<1>7a. ASSUME NEW obs \in R, PostRunCut(obs)
       PROVE  IInv'
  <2>1. valid_reset_at(obs, now) \in Nat
    BY <1>0, <1>7a, ValidReset DEF PostRunCut
  <2>2. QED
    BY <1>0, <1>7a, <2>1, LastWindowSound DEF PostRunCut, IInv, DebtDuringAttempt, Bursts
<1>8. CASE SelectRetry
  BY <1>0, <1>8 DEF SelectRetry, IInv, DebtDuringAttempt, Bursts
<1>9. CASE RunCommand
  BY <1>0, <1>9 DEF RunCommand, IInv, DebtDuringAttempt, Bursts
<1>10. CASE BeginAttempt
  <2>1. Sound(st', now) /\ st'.retry_pending
    BY <1>0, <1>10, BeginSound DEF BeginAttempt, begin_attempt, Sound, ProviderState
  <2>2. QED
    BY <1>0, <1>10, <2>1 DEF BeginAttempt, IInv, DebtDuringAttempt, Bursts
<1>11. CASE RecordAttempt
  <2>1. Sound(st', now)
    BY <1>0, <1>11, RecordSound DEF RecordAttempt
  <2>2. st'.retry_pending = st.retry_pending
    BY <1>0, <1>11 DEF RecordAttempt, record_attempt, Sound, ProviderState
  <2>3. QED
    BY <1>0, <1>11, <2>1, <2>2 DEF RecordAttempt, IInv, DebtDuringAttempt, Bursts
<1>12. CASE Succeed
  BY <1>0, <1>12, SuccessSound DEF Succeed, IInv, DebtDuringAttempt, Bursts
<1>13. CASE GiveUp
  BY <1>0, <1>13 DEF GiveUp, IInv, DebtDuringAttempt, Bursts
<1>14. CASE Abandon
  BY <1>0, <1>14 DEF Abandon, IInv, DebtDuringAttempt, Bursts
<1>15. QED
  BY <1>1, <1>2, <1>3, <1>4, <1>5, <1>6, <1>7, <1>7a, <1>8, <1>9, <1>10, <1>11,
     <1>12, <1>13, <1>14 DEF Step

LEMMA InitInvariant == Init => IInv
BY EmptySound DEF Init, IInv, Triggers, Bursts, DebtDuringAttempt

LEMMA NextInvariant == IInv /\ [Next]_vars => IInv'
<1> SUFFICES ASSUME IInv, [Next]_vars PROVE IInv'
  OBVIOUS
<1>1. CASE Next
  BY <1>1, StepInvariant, ReadingsAreObservations DEF Next, IInv
<1>2. CASE UNCHANGED vars
  BY <1>2 DEF vars, IInv, DebtDuringAttempt
<1>3. QED
  BY <1>1, <1>2

LEMMA Inductive == Spec => []IInv
BY InitInvariant, NextInvariant, PTL DEF Spec

LEMMA InvariantParts ==
  IInv => /\ TypeOK /\ Tethered /\ CandidateBeyondTether
          /\ NeverBeyondHorizon /\ NoRerunStorm
BY UnsetAssumption
   DEF IInv, Sound, TypeOK, PastIsPast, TetheredState, CandidateState, DueState,
       Tethered, CandidateBeyondTether, NeverBeyondHorizon, NoRerunStorm

-----------------------------------------------------------------------------
(* The theorems.                                                           *)

\* The state ProviderSchedule keeps is always one the stores can hold.
THEOREM TypeCorrect == Spec => []TypeOK
BY Inductive, InvariantParts, PTL

\* sync_deadline: movements accepted one by one never add up to more than
\* RESET_NEAR beyond the generation's anchor.
THEOREM NearMovementIsTethered == Spec => []Tethered
BY Inductive, InvariantParts, PTL

\* sync_deadline: a parked candidate is out of reach of near movement.
THEOREM CandidateIsFar == Spec => []CandidateBeyondTether
BY Inductive, InvariantParts, PTL

\* No reading schedules a provider out of sight.
THEOREM DeadlineIsBounded == Spec => []NeverBeyondHorizon
BY Inductive, InvariantParts, PTL

\* After a success no reading makes the provider due again at once.
THEOREM SuccessIsNotRepeated == Spec => []NoRerunStorm
BY Inductive, InvariantParts, PTL

\* begin_attempt and record_attempt: the debt is there while the model runs.
THEOREM AttemptIsOwed == Spec => []DebtDuringAttempt
<1>1. IInv => DebtDuringAttempt
  BY DEF IInv
<1>2. QED
  BY <1>1, Inductive, PTL

-----------------------------------------------------------------------------
(* What a step may never do.                                               *)

\* A blocked schedule is not touched by a reading.
LEMMA BlockedSync ==
  ASSUME NEW s, NEW obs, NEW t, schedule_blocked(s, t)
  PROVE  sync_deadline(s, obs, t) = s
BY DEF sync_deadline, park_candidate, sync_action

LEMMA BlockedEvaluate ==
  ASSUME NEW s, NEW obs, NEW t, schedule_blocked(s, t), ~s.retry_pending
  PROVE  evaluate_due(s, obs, t) = s
BY BlockedSync DEF evaluate_due, seed_fallback, schedule_blocked, matured

LEMMA SyncKeepsDebt ==
  ASSUME NEW s \in ProviderState, NEW obs, NEW t
  PROVE  /\ sync_deadline(s, obs, t).retry_pending = s.retry_pending
         /\ sync_deadline(s, obs, t).last_task_at = s.last_task_at
BY DEF sync_deadline, park_candidate, accept_reset, ProviderState

\* A probe-only transition always leaves the deadline ahead of the clock.
LEMMA ReanchorAhead ==
  ASSUME NEW s \in ProviderState, NEW obs \in QuotaObservation, NEW t \in Nat
  PROVE  LET u == reanchor_probe_only(s, obs, t)
         IN  u.next_due_at # Unset /\ u.next_due_at > t
<1> DEFINE r == valid_reset_at(obs, t)
           floor == IF s.next_due_at = Unset THEN 0 ELSE s.next_due_at
<1>1. CASE r # Unset
  <2>1. r \in Nat /\ r > t
    BY <1>1, ValidReset
  <2>2. reanchor_probe_only(s, obs, t).next_due_at = r + RESET_BUFFER
    BY <1>1 DEF reanchor_probe_only, accept_reset, ProviderState
  <2>3. QED
    BY <2>1, <2>2, PolicyAssumption, UnsetAssumption
<1>2. CASE r = Unset
  <2>1. floor \in Nat
    BY DEF ProviderState, Instant
  <2>2. reanchor_probe_only(s, obs, t).next_due_at = Max2(floor, t + RUN_INTERVAL)
    BY <1>2 DEF reanchor_probe_only, ProviderState
  <2>3. QED
    BY <2>1, <2>2, PolicyAssumption, UnsetAssumption DEF Max2
<1>3. QED
  BY <1>1, <1>2

LEMMA SuccessIsSuccessStep ==
  ASSUME IInv, Succeed
  PROVE  SuccessStep /\ burst = "attempting"
BY DEF IInv, Sound, Succeed, SuccessStep, commit_success, ProviderState

\* evaluate_due, sync_deadline, /usage: a committed deadline is moved by a
\* verified success alone.
THEOREM CommittedDeadlineIsKept == Spec => CommittedDeadlineHolds
<1> DEFINE Held == DeadlineCommitted /\ st'.next_due_at # st.next_due_at
                     => SuccessStep \/ trigger # "enabled"
<1>1. IInv /\ [Next]_vars => [Held]_vars
  <2> SUFFICES ASSUME IInv, Next, DeadlineCommitted, trigger = "enabled",
                      st'.next_due_at # st.next_due_at
               PROVE  SuccessStep
    OBVIOUS
  <2>0. st \in ProviderState /\ schedule_blocked(st, now)
    BY DEF IInv, Sound, DeadlineCommitted, schedule_blocked, matured
  <2>1. ASSUME NEW obs, Recalibrate(obs) PROVE FALSE
    BY <2>0, <2>1, BlockedSync DEF Recalibrate
  <2>2. ASSUME NEW obs, DecideDue(obs) PROVE FALSE
    BY <2>0, <2>2, BlockedEvaluate DEF DecideDue
  <2>3. ASSUME NEW obs, PostRunSync(obs) PROVE FALSE
    <3> DEFINE r == valid_reset_at(obs, now)
               w == record_last_window(st, r)
    <3>1. schedule_blocked(w, now) /\ w.next_due_at = st.next_due_at
      BY <2>0 DEF schedule_blocked, record_last_window, ProviderState
    <3>2. sync_deadline(w, obs, now) = w
      BY <3>1, BlockedSync
    <3>3. QED
      BY <2>3, <3>1, <3>2 DEF PostRunSync
  <2>3a. ASSUME NEW obs, PostRunCut(obs) PROVE FALSE
    BY <2>0, <2>3a DEF PostRunCut, record_last_window, ProviderState
  <2>4. CASE BeginAttempt
    BY <2>0, <2>4 DEF BeginAttempt, begin_attempt, ProviderState
  <2>5. CASE RecordAttempt
    BY <2>0, <2>5 DEF RecordAttempt, record_attempt, ProviderState
  <2>6. CASE Succeed
    BY <2>6, SuccessIsSuccessStep
  <2>7. QED
    BY <2>1, <2>2, <2>3, <2>3a, <2>4, <2>5, <2>6
       DEF Next, Step, Tick, Reconfigure, ReanchorProbeOnly, ResumeProvider,
           SelectRetry, RunCommand, GiveUp, Abandon
<1>2. QED
  BY <1>1, Inductive, PTL DEF Spec, CommittedDeadlineHolds

\* commit_success, reanchor_probe_only: a debt disappears only with a
\* verified success, or with the provider's right to run.
THEOREM DebtIsPaid == Spec => DebtOnlyPaid
<1> DEFINE Paid == st.retry_pending /\ ~st'.retry_pending
                     => \/ SuccessStep /\ burst = "attempting"
                        \/ /\ trigger # "enabled"
                           /\ st'.next_due_at # Unset /\ st'.next_due_at > now
<1>1. IInv /\ [Next]_vars => [Paid]_vars
  <2> SUFFICES ASSUME IInv, Next, st.retry_pending, ~st'.retry_pending
               PROVE  \/ SuccessStep /\ burst = "attempting"
                      \/ /\ trigger # "enabled"
                         /\ st'.next_due_at # Unset /\ st'.next_due_at > now
    BY DEF vars
  <2>0. st \in ProviderState /\ now \in Nat /\ Readings \subseteq QuotaObservation
    BY ReadingsAreObservations DEF IInv, Sound
  <2>1. ASSUME NEW obs \in Readings, Recalibrate(obs)
        PROVE  trigger # "enabled" /\ st'.next_due_at # Unset /\ st'.next_due_at > now
    BY <2>0, <2>1, SyncKeepsDebt, ReanchorAhead DEF Recalibrate
  <2>2. ASSUME NEW obs \in Readings, DecideDue(obs) PROVE FALSE
    BY <2>2 DEF DecideDue
  <2>3. ASSUME NEW obs \in Readings, ReanchorProbeOnly(obs)
        PROVE  trigger # "enabled" /\ st'.next_due_at # Unset /\ st'.next_due_at > now
    BY <2>0, <2>3, ReanchorAhead DEF ReanchorProbeOnly
  <2>4. ASSUME NEW obs \in Readings, ResumeProvider(obs)
        PROVE  trigger # "enabled" /\ st'.next_due_at # Unset /\ st'.next_due_at > now
    BY <2>0, <2>4, ReanchorAhead DEF ResumeProvider
  <2>5. ASSUME NEW obs \in Readings, PostRunSync(obs) PROVE FALSE
    <3> DEFINE r == valid_reset_at(obs, now)
               w == record_last_window(st, r)
    <3>1. w.retry_pending = st.retry_pending /\ (r # Unset => w \in ProviderState)
      BY <2>0, ValidReset DEF record_last_window, ProviderState, Instant
    <3>2. QED
      BY <2>5, <3>1, SyncKeepsDebt DEF PostRunSync
  <2>5a. ASSUME NEW obs \in Readings, PostRunCut(obs) PROVE FALSE
    BY <2>0, <2>5a DEF PostRunCut, record_last_window, ProviderState
  <2>6. CASE BeginAttempt
    BY <2>0, <2>6 DEF BeginAttempt, begin_attempt, ProviderState
  <2>7. CASE RecordAttempt
    BY <2>0, <2>7 DEF RecordAttempt, record_attempt, ProviderState
  <2>8. CASE Succeed
    BY <2>8, SuccessIsSuccessStep
  <2>9. QED
    BY <2>1, <2>2, <2>3, <2>4, <2>5, <2>5a, <2>6, <2>7, <2>8
       DEF Next, Step, Tick, Reconfigure, SelectRetry, RunCommand, GiveUp, Abandon
<1>2. QED
  BY <1>1, Inductive, PTL DEF Spec, DebtOnlyPaid

\* sync_deadline moves the deadline beyond the tether only by a promotion.
LEMMA BeyondTetherIsPromotion ==
  ASSUME NEW s, NEW t \in Nat, Sound(s, t), NEW obs \in QuotaObservation,
         s.reset_anchor # Unset,
         sync_deadline(s, obs, t).next_due_at # s.next_due_at,
         sync_deadline(s, obs, t).next_due_at > s.reset_anchor + RESET_NEAR + RESET_BUFFER
  PROVE  /\ sync_action(s, obs, t) = "candidate_promoted"
         /\ sync_deadline(s, obs, t).last_known_reset
              = Max2(s.reset_candidate.reset_at, valid_reset_at(obs, t))
<1> DEFINE r == valid_reset_at(obs, t)
           action == sync_action(s, obs, t)
<1>0. s \in ProviderState /\ s.reset_anchor \in Nat
  BY DEF Sound, ProviderState, Instant
<1>1. action # "anchor_established"
  <2>1. current_trusted_reset(s) # Unset
    BY DEF Sound, TetheredState, current_trusted_reset
  <2>2. QED
    BY <2>1 DEF sync_action
<1>2. action # "near_movement"
  <2> SUFFICES ASSUME action = "near_movement" PROVE FALSE
    OBVIOUS
  <2>1. r \in Nat /\ r <= s.reset_anchor + RESET_NEAR
    BY ValidReset DEF sync_action, anchor_reset
  <2>2. sync_deadline(s, obs, t).next_due_at = r + RESET_BUFFER
    BY <1>0 DEF sync_deadline, park_candidate, accept_reset, ProviderState
  <2>3. QED
    BY <1>0, <2>1, <2>2, PolicyAssumption
<1>3. action # "candidate_created"
  BY <1>0 DEF sync_deadline, park_candidate, ProviderState
<1>4. action = "candidate_promoted"
  BY <1>1, <1>2, <1>3 DEF sync_deadline, park_candidate, sync_action
<1>5. QED
  BY <1>0, <1>4 DEF sync_deadline, park_candidate, accept_reset, ProviderState

\* sync_deadline, README.md:788-790: beyond the tether a deadline moves only
\* to a reset two fresh readings agree on, stamped the minimum age apart.
THEOREM PostponementIsConfirmed == Spec => PostponedOnlyConfirmed
<1> DEFINE Confirmed ==
             PostponedBeyondTether =>
               /\ st.reset_candidate # Unset
               /\ now - st.reset_candidate.observed_at >= CONFIRM_MIN_AGE
               /\ st'.last_known_reset >= st.reset_candidate.reset_at
               /\ st'.last_known_reset <= st.reset_candidate.reset_at + CONFIRM_MATCH
<1>1. IInv /\ [Next]_vars => [Confirmed]_vars
  <2> SUFFICES ASSUME IInv, Next, PostponedBeyondTether
               PROVE  Confirmed
    BY DEF vars
  <2>0. /\ now \in Nat /\ Sound(st, now) /\ st \in ProviderState
        /\ Readings \subseteq QuotaObservation
    BY ReadingsAreObservations DEF IInv, Sound
  <2>1. PICK obs \in QuotaObservation : st' = sync_deadline(st, obs, now)
    <3>1. ASSUME NEW obs \in Readings, Recalibrate(obs)
          PROVE  st' = sync_deadline(st, obs, now)
      BY <3>1 DEF Recalibrate, PostponedBeyondTether
    <3>2. ASSUME NEW obs \in Readings, DecideDue(obs)
          PROVE  st' = sync_deadline(st, obs, now)
      <4>1. st.next_due_at # Unset
        BY <2>0 DEF PostponedBeyondTether, Sound, TetheredState, DueState
      <4>2. sync_deadline(st, obs, now).next_due_at # Unset
        <5>1. Sound(sync_deadline(st, obs, now), now)
          BY <2>0, SyncSound
        <5>2. sync_deadline(st, obs, now).last_known_reset # Unset
          BY <2>0, ValidReset, ConfirmedReset, UnsetAssumption
             DEF PostponedBeyondTether, Sound, TetheredState, sync_deadline, park_candidate,
                 sync_action, accept_reset, ProviderState, Max2
        <5>3. QED
          BY <5>1, <5>2 DEF Sound, DueState
      <4>3. QED
        BY <3>2, <4>2 DEF DecideDue, PostponedBeyondTether, evaluate_due, seed_fallback
    <3>3. QED
      BY <2>0, <3>1, <3>2
         DEF Next, Step, PostponedBeyondTether, Tick, Reconfigure,
             ReanchorProbeOnly, ResumeProvider, PostRunSync, PostRunCut,
             SelectRetry, RunCommand, BeginAttempt, RecordAttempt, Succeed, GiveUp, Abandon
  <2> DEFINE r == valid_reset_at(obs, now)
  <2>2. /\ sync_action(st, obs, now) = "candidate_promoted"
        /\ st'.last_known_reset = Max2(st.reset_candidate.reset_at, r)
    BY <2>0, <2>1, BeyondTetherIsPromotion DEF PostponedBeyondTether
  <2>3. /\ r \in Nat /\ r > now /\ r <= now + MAX_WINDOW
        /\ confirms_candidate(st, r, now)
    BY <2>0, <2>2, ValidReset DEF sync_action
  <2>4. QED
    BY <2>0, <2>2, <2>3, ConfirmedReset DEF confirms_candidate, matches_candidate
<1>2. QED
  BY <1>1, Inductive, PTL DEF Spec, PostponedOnlyConfirmed

-----------------------------------------------------------------------------
(* RollingWindow: a rolling reset cannot chase the deadline, for every     *)
(* window, lag and timing constant that satisfies PromptStamps.            *)

LEMMA RollingReading ==
  ASSUME now \in Nat, NEW obs \in RollingReadings
  PROVE  /\ obs \in QuotaObservation
         /\ valid_reset_at(obs, now) # Unset =>
              /\ valid_reset_at(obs, now) <= now + Window
              /\ valid_reset_at(obs, now) + MaxLag >= now + Window
<1>1. CASE obs = NO_OBSERVATION
  BY <1>1 DEF NO_OBSERVATION, QuotaObservation, Instant, valid_reset_at
<1>2. ASSUME NEW taken \in Max2(0, now - MaxLag) .. now,
             obs = [fresh |-> TRUE, reset_at |-> taken + Window]
      PROVE  /\ obs \in QuotaObservation
             /\ valid_reset_at(obs, now) # Unset =>
                  valid_reset_at(obs, now) = taken + Window
             /\ taken \in Nat /\ taken <= now /\ taken + MaxLag >= now
  <2>1. taken \in Nat /\ taken <= now /\ taken + MaxLag >= now
    BY RollingAssumption DEF Max2
  <2>2. taken + Window \in Nat
    BY <2>1, RollingAssumption
  <2>3. obs \in QuotaObservation
    BY <1>2, <2>2 DEF QuotaObservation, Instant
  <2>4. QED
    BY <1>2, <2>1, <2>3 DEF valid_reset_at
<1>3. QED
  BY <1>1, <1>2, RollingAssumption DEF RollingReadings

\* The candidate sync_deadline leaves behind rolls too.
LEMMA SyncKeepsRolling ==
  ASSUME NEW s \in ProviderState, now \in Nat, NEW obs \in RollingReadings,
         s.reset_candidate # Unset =>
           /\ s.reset_candidate.reset_at <= s.reset_candidate.observed_at + Window
           /\ s.reset_candidate.reset_at + MaxLag >= s.reset_candidate.observed_at + Window
  PROVE  LET c == sync_deadline(s, obs, now).reset_candidate
         IN  c # Unset => /\ c.reset_at <= c.observed_at + Window
                          /\ c.reset_at + MaxLag >= c.observed_at + Window
<1> DEFINE r == valid_reset_at(obs, now)
           c == sync_deadline(s, obs, now).reset_candidate
<1>1. CASE sync_action(s, obs, now) = "candidate_created"
  <2>1. r # Unset
    BY <1>1 DEF sync_action
  <2>2. c = [reset_at |-> r, observed_at |-> now]
    BY <1>1 DEF sync_deadline, park_candidate, ProviderState
  <2>3. QED
    BY <2>1, <2>2, RollingReading
<1>2. CASE sync_action(s, obs, now) # "candidate_created"
  BY <1>2 DEF sync_deadline, park_candidate, accept_reset, ProviderState
<1>3. QED
  BY <1>1, <1>2

RollingInv == IInv /\ CandidateRolls

LEMMA RollingStep == RollingInv /\ [RollingNext]_vars => RollingInv'
<1> SUFFICES ASSUME RollingInv, [RollingNext]_vars PROVE RollingInv'
  OBVIOUS
<1>0. now \in Nat /\ st \in ProviderState /\ RollingReadings \subseteq QuotaObservation
  BY RollingReading DEF RollingInv, IInv, Sound
<1>1. IInv'
  <2>1. CASE RollingNext
    BY <1>0, <2>1, StepInvariant DEF RollingNext, RollingInv
  <2>2. CASE UNCHANGED vars
    BY <2>2 DEF vars, RollingInv, IInv, DebtDuringAttempt
  <2>3. QED
    BY <2>1, <2>2
<1>2. CandidateRolls'
  <2>1. ASSUME NEW obs \in RollingReadings, Recalibrate(obs) PROVE CandidateRolls'
    <3>1. CASE trigger = "probe_only"
      <4>1. st'.reset_candidate = Unset
        BY <1>0, <2>1, <3>1
           DEF Recalibrate, reanchor_probe_only, accept_reset, ProviderState
      <4>2. QED
        BY <4>1 DEF CandidateRolls
    <3>2. CASE trigger # "probe_only"
      BY <1>0, <2>1, <3>2, SyncKeepsRolling DEF Recalibrate, RollingInv, CandidateRolls
    <3>3. QED
      BY <3>1, <3>2
  <2>2. ASSUME NEW obs \in RollingReadings, DecideDue(obs) PROVE CandidateRolls'
    <3>1. st'.reset_candidate \in {st.reset_candidate,
                                   sync_deadline(st, obs, now).reset_candidate}
      <4>1. Sound(sync_deadline(st, obs, now), now)
        BY <1>0, SyncSound DEF RollingInv, IInv
      <4>2. sync_deadline(st, obs, now) \in ProviderState
        BY <4>1 DEF Sound
      <4>3. QED
        BY <2>2, <4>2 DEF DecideDue, evaluate_due, seed_fallback, ProviderState
    <3>2. QED
      BY <1>0, <3>1, SyncKeepsRolling DEF RollingInv, CandidateRolls
  <2>3. ASSUME NEW obs \in RollingReadings,
               ReanchorProbeOnly(obs) \/ ResumeProvider(obs)
        PROVE  CandidateRolls'
    <3>1. st'.reset_candidate = Unset
      BY <1>0, <2>3 DEF ReanchorProbeOnly, ResumeProvider, reanchor_probe_only,
                        accept_reset, ProviderState
    <3>2. QED
      BY <3>1 DEF CandidateRolls
  <2>4. ASSUME NEW obs \in RollingReadings, PostRunSync(obs) PROVE CandidateRolls'
    <3> DEFINE r == valid_reset_at(obs, now)
               w == record_last_window(st, r)
    <3>1. w.reset_candidate = st.reset_candidate
      BY <1>0 DEF record_last_window, ProviderState
    <3>2. r # Unset => w \in ProviderState
      BY <1>0, ValidReset DEF record_last_window, ProviderState, Instant
    <3>3. CASE r # Unset
      <4> HIDE DEF w
      <4>1. st' = sync_deadline(w, obs, now)
        BY <2>4, <3>3 DEF PostRunSync, w
      <4>2. QED
        BY <1>0, <3>1, <3>2, <3>3, <4>1, SyncKeepsRolling DEF RollingInv, CandidateRolls
    <3>4. CASE r = Unset
      BY <2>4, <3>4 DEF PostRunSync, RollingInv, CandidateRolls
    <3>5. QED
      BY <3>3, <3>4
  <2>4a. ASSUME NEW obs \in RollingReadings, PostRunCut(obs) PROVE CandidateRolls'
    BY <1>0, <2>4a DEF PostRunCut, record_last_window, RollingInv, CandidateRolls, ProviderState
  <2>5. CASE Succeed
    BY <1>0, <2>5 DEF Succeed, commit_success, CandidateRolls, ProviderState
  <2>6. CASE BeginAttempt
    BY <1>0, <2>6 DEF BeginAttempt, begin_attempt, RollingInv, CandidateRolls, ProviderState
  <2>7. CASE RecordAttempt
    BY <1>0, <2>7 DEF RecordAttempt, record_attempt, RollingInv, CandidateRolls, ProviderState
  <2>8. CASE UNCHANGED st
    BY <2>8 DEF RollingInv, CandidateRolls
  <2>9. QED
    BY <2>1, <2>2, <2>3, <2>4, <2>4a, <2>5, <2>6, <2>7, <2>8
       DEF RollingNext, Step, vars, Tick, Reconfigure, SelectRetry, RunCommand,
           GiveUp, Abandon
<1>3. QED
  BY <1>1, <1>2 DEF RollingInv

LEMMA RollingInductive == RollingSpec => []RollingInv
<1>1. Init => RollingInv
  BY InitInvariant DEF RollingInv, Init, EmptyState, CandidateRolls
<1>2. QED
  BY <1>1, RollingStep, PTL DEF RollingSpec

\* A candidate is never confirmed by a reading that rolls with the clock.
LEMMA RollingNotConfirmed ==
  ASSUME PromptStamps, RollingInv, NEW obs \in RollingReadings,
         valid_reset_at(obs, now) # Unset
  PROVE  ~confirms_candidate(st, valid_reset_at(obs, now), now)
<1> DEFINE r == valid_reset_at(obs, now)
           c == st.reset_candidate
<1> SUFFICES ASSUME confirms_candidate(st, r, now) PROVE FALSE
  OBVIOUS
<1>1. now \in Nat /\ st \in ProviderState /\ c # Unset
  BY DEF RollingInv, IInv, Sound, confirms_candidate, matches_candidate
<1>2. /\ c.reset_at \in Nat /\ c.observed_at \in Nat
      /\ c.reset_at <= c.observed_at + Window
  BY <1>1 DEF ProviderState, ResetCandidate, RollingInv, CandidateRolls
<1>3. r \in Nat /\ r + MaxLag >= now + Window
  BY <1>1, RollingReading, ValidReset
<1>4. Distance(r, c.reset_at) <= CONFIRM_MATCH /\ now - c.observed_at >= CONFIRM_MIN_AGE
  BY DEF confirms_candidate, matches_candidate
<1>5. r - c.reset_at <= CONFIRM_MATCH
  BY <1>2, <1>3, <1>4, PolicyAssumption DEF Distance
<1>6. QED
  BY <1>1, <1>2, <1>3, <1>4, <1>5, PolicyAssumption, RollingAssumption DEF PromptStamps

LEMMA RollingSyncKeepsAnchor ==
  ASSUME PromptStamps, RollingInv, NEW obs \in RollingReadings,
         st.reset_anchor # Unset
  PROVE  sync_deadline(st, obs, now).reset_anchor = st.reset_anchor
<1> DEFINE action == sync_action(st, obs, now)
<1>0. st \in ProviderState /\ TetheredState(st)
  BY DEF RollingInv, IInv, Sound
<1>1. action # "anchor_established"
  BY <1>0 DEF sync_action, current_trusted_reset, TetheredState
<1>2. action # "candidate_promoted"
  BY RollingNotConfirmed DEF sync_action
<1>3. QED
  BY <1>0, <1>1, <1>2 DEF sync_deadline, park_candidate, accept_reset, anchor_reset, ProviderState

\* last_triggered_window is recorded for the operator; the policy ignores it.
LEMMA WindowDoesNotMatter ==
  ASSUME NEW s \in ProviderState, NEW r, NEW obs, NEW t
  PROVE  sync_deadline(record_last_window(s, r), obs, t).reset_anchor
           = sync_deadline(s, obs, t).reset_anchor
<1> DEFINE w == record_last_window(s, r)
<1>1. /\ w.retry_pending = s.retry_pending
      /\ w.last_task_at = s.last_task_at
      /\ w.reset_candidate = s.reset_candidate
      /\ w.reset_anchor = s.reset_anchor
      /\ w.last_known_reset = s.last_known_reset
      /\ w.next_due_at = s.next_due_at
  BY DEF record_last_window, ProviderState
<1>2. DOMAIN w = DOMAIN s /\ "reset_anchor" \in DOMAIN s
  BY DEF record_last_window, ProviderState
<1> HIDE DEF w
<1>3. sync_action(w, obs, t) = sync_action(s, obs, t) /\ anchor_reset(w) = anchor_reset(s)
  BY <1>1 DEF sync_action, schedule_blocked, current_trusted_reset, anchor_reset,
              confirms_candidate, matches_candidate
<1>4. sync_deadline(w, obs, t).reset_anchor = sync_deadline(s, obs, t).reset_anchor
  BY <1>1, <1>2, <1>3 DEF sync_deadline, park_candidate, accept_reset
<1>5. QED
  BY <1>4 DEF w

\* sync_deadline, README.md:788-793: whatever a provider with a rolling
\* window reports, the anchor of a generation is final until a success.
THEOREM RollingAnchorStays ==
  ASSUME PromptStamps
  PROVE  RollingSpec => AnchorStays
<1> DEFINE Kept == trigger = "enabled" /\ st.reset_anchor # Unset
                     => st'.reset_anchor = st.reset_anchor \/ SuccessStep
<1>1. RollingInv /\ [RollingNext]_vars => [Kept]_vars
  <2> SUFFICES ASSUME RollingInv, RollingNext, trigger = "enabled",
                      st.reset_anchor # Unset, st'.reset_anchor # st.reset_anchor
               PROVE  SuccessStep
    OBVIOUS
  <2>0. st \in ProviderState /\ now \in Nat /\ IInv
    BY DEF RollingInv, IInv, Sound
  <2>1. ASSUME NEW obs \in RollingReadings, Recalibrate(obs) PROVE FALSE
    BY <2>1, RollingSyncKeepsAnchor DEF Recalibrate
  <2>2. ASSUME NEW obs \in RollingReadings, DecideDue(obs) PROVE FALSE
    <3>1. sync_deadline(st, obs, now).reset_anchor = st.reset_anchor
      BY RollingSyncKeepsAnchor
    <3>2. sync_deadline(st, obs, now) \in ProviderState
      BY <2>0, SyncSound, RollingReading DEF IInv, Sound
    <3>3. QED
      BY <2>2, <3>1, <3>2 DEF DecideDue, evaluate_due, seed_fallback, ProviderState
  <2>3. CASE BeginAttempt
    BY <2>0, <2>3 DEF BeginAttempt, begin_attempt, ProviderState
  <2>4. CASE RecordAttempt
    BY <2>0, <2>4 DEF RecordAttempt, record_attempt, ProviderState
  <2>5. CASE Succeed
    BY <2>0, <2>5, SuccessIsSuccessStep
  <2>6. ASSUME NEW obs \in RollingReadings, PostRunSync(obs) PROVE FALSE
    <3> DEFINE r == valid_reset_at(obs, now)
    <3>1. r # Unset => sync_deadline(record_last_window(st, r), obs, now).reset_anchor
                         = sync_deadline(st, obs, now).reset_anchor
      BY <2>0, WindowDoesNotMatter
    <3>2. QED
      BY <2>6, <3>1, RollingSyncKeepsAnchor DEF PostRunSync
  <2>6a. ASSUME NEW obs \in RollingReadings, PostRunCut(obs) PROVE FALSE
    BY <2>0, <2>6a DEF PostRunCut, record_last_window, ProviderState
  <2>7. QED
    BY <2>1, <2>2, <2>3, <2>4, <2>5, <2>6, <2>6a
       DEF RollingNext, Step, Tick, Reconfigure, ReanchorProbeOnly, ResumeProvider,
           SelectRetry, RunCommand, GiveUp, Abandon
<1>2. QED
  BY <1>1, RollingInductive, PTL DEF RollingSpec, AnchorStays

\* sync_deadline, RollingWindow: every candidate the policy parks is one that
\* rolls with the clock, at most Window after its stamp and not much less.
THEOREM ParkedCandidateRolls == RollingSpec => []CandidateRolls
<1>1. RollingInv => CandidateRolls
  BY DEF RollingInv
<1>2. QED
  BY <1>1, RollingInductive, PTL
=============================================================================
