----------------------- MODULE SchedulerPolicy_proofs -----------------------
(***************************************************************************)
(* What the operators of SchedulerPolicy return, for every value of the    *)
(* timing constants: lemmas the proofs about the modules that apply them   *)
(* share.                                                                  *)
(***************************************************************************)
EXTENDS SchedulerPolicy, TLAPS

-----------------------------------------------------------------------------
\* What valid_reset_at returns is unset, or a plausible reset in the future.
LEMMA ValidReset ==
  ASSUME NEW obs \in QuotaObservation, NEW t \in Nat
  PROVE  LET r == valid_reset_at(obs, t)
         IN  r \in Instant /\ (r # Unset => r \in Nat /\ r > t /\ r <= t + MAX_WINDOW)
BY UnsetAssumption, PolicyAssumption DEF valid_reset_at, QuotaObservation, Instant

LEMMA AcceptType ==
  ASSUME NEW s \in ProviderState, NEW anchor \in Nat, NEW r \in Nat
  PROVE  /\ accept_reset(s, anchor, r) \in ProviderState
         /\ accept_reset(s, anchor, r).retry_pending = s.retry_pending
<1>1. r + RESET_BUFFER \in Nat
  BY PolicyAssumption
<1>2. QED
  BY <1>1 DEF accept_reset, ProviderState, Instant

LEMMA AnchorType ==
  ASSUME NEW s \in ProviderState, current_trusted_reset(s) # Unset
  PROVE  anchor_reset(s) \in Nat
BY DEF anchor_reset, current_trusted_reset, ProviderState, Instant

LEMMA ParkType ==
  ASSUME NEW s \in ProviderState, NEW r \in Nat, NEW t \in Nat,
         current_trusted_reset(s) # Unset
  PROVE  /\ park_candidate(s, r, t) \in ProviderState
         /\ park_candidate(s, r, t).retry_pending = s.retry_pending
<1> DEFINE c == [reset_at |-> r, observed_at |-> t]
<1>1. c \in ResetCandidate /\ anchor_reset(s) \in Nat
  BY AnchorType DEF ResetCandidate
<1> HIDE DEF c
<1>2. park_candidate(s, r, t) = [s EXCEPT !.reset_candidate = c, !.reset_anchor = anchor_reset(s)]
  BY DEF park_candidate, c
<1>3. QED
  BY <1>1, <1>2 DEF ProviderState, Instant

\* sync_deadline keeps the debt, and of a blocked provider everything.
LEMMA SyncKeeps ==
  ASSUME NEW s \in ProviderState, NEW t \in Nat, NEW obs \in QuotaObservation
  PROVE  /\ sync_deadline(s, obs, t) \in ProviderState
         /\ sync_deadline(s, obs, t).retry_pending = s.retry_pending
         /\ schedule_blocked(s, t) => sync_deadline(s, obs, t) = s
<1> DEFINE r == valid_reset_at(obs, t)
           action == sync_action(s, obs, t)
           u == sync_deadline(s, obs, t)
<1>1. CASE action = "anchor_established"
  <2>1. r \in Nat /\ u = accept_reset(s, r, r) /\ ~schedule_blocked(s, t)
    BY <1>1, ValidReset DEF sync_action, sync_deadline
  <2>2. QED
    BY <2>1, AcceptType
<1>2. CASE action = "near_movement"
  <2>1. /\ r \in Nat /\ current_trusted_reset(s) # Unset /\ ~schedule_blocked(s, t)
        /\ u = accept_reset(s, anchor_reset(s), r)
    BY <1>2, ValidReset DEF sync_action, sync_deadline
  <2>2. QED
    BY <2>1, AcceptType, AnchorType
<1>3. CASE action = "candidate_promoted"
  <2> DEFINE m == Max2(s.reset_candidate.reset_at, r)
  <2>1. /\ r \in Nat /\ s.reset_candidate # Unset /\ ~schedule_blocked(s, t)
        /\ u = accept_reset(s, m, m)
    BY <1>3, ValidReset DEF sync_action, sync_deadline, confirms_candidate, matches_candidate
  <2>2. m \in Nat
    BY <2>1 DEF Max2, ProviderState, ResetCandidate
  <2> HIDE DEF m
  <2>3. QED
    BY <2>1, <2>2, AcceptType
<1>4. CASE action = "candidate_created"
  <2>1. /\ r \in Nat /\ current_trusted_reset(s) # Unset /\ ~schedule_blocked(s, t)
        /\ u = park_candidate(s, r, t)
    BY <1>4, ValidReset DEF sync_action, sync_deadline
  <2>2. QED
    BY <2>1, ParkType
<1>5. CASE action \notin {"anchor_established", "near_movement",
                          "candidate_promoted", "candidate_created"}
  BY <1>5 DEF sync_deadline
<1>6. QED
  BY <1>1, <1>2, <1>3, <1>4, <1>5

\* What a provider is owed, as a restarted process would find it.
OwedBy(s, t) == s.retry_pending \/ matured(s, t)

LEMMA OwedBlocks ==
  ASSUME NEW s, NEW t, OwedBy(s, t)  PROVE  schedule_blocked(s, t)
BY DEF OwedBy, matured, schedule_blocked

LEMMA EvaluateKeeps ==
  ASSUME NEW s \in ProviderState, NEW t \in Nat, NEW obs \in QuotaObservation
  PROVE  /\ evaluate_due(s, obs, t) \in ProviderState
         /\ evaluate_due(s, obs, t).retry_pending = s.retry_pending
         /\ matured(s, t) => evaluate_due(s, obs, t) = s
<1> DEFINE u == sync_deadline(s, obs, t)
<1>1. u \in ProviderState /\ u.retry_pending = s.retry_pending
  BY SyncKeeps
<1> HIDE DEF u
<1>2. fallback_due(u, t) \in Nat
  BY <1>1, PolicyAssumption DEF fallback_due, ProviderState, Instant
<1>3. /\ seed_fallback(u, t) \in ProviderState
      /\ seed_fallback(u, t).retry_pending = u.retry_pending
  BY <1>1, <1>2 DEF seed_fallback, ProviderState, Instant
<1>4. QED
  BY <1>1, <1>3 DEF evaluate_due, u

LEMMA ReanchorType ==
  ASSUME NEW s \in ProviderState, NEW t \in Nat, NEW obs \in QuotaObservation
  PROVE  reanchor_probe_only(s, obs, t) \in ProviderState
<1> DEFINE r == valid_reset_at(obs, t)
           floor == IF s.next_due_at = Unset THEN 0 ELSE s.next_due_at
           d == Max2(floor, t + RUN_INTERVAL)
<1>1. CASE r # Unset
  <2> DEFINE a == accept_reset(s, r, r)
  <2>1. a \in ProviderState
    BY <1>1, ValidReset, AcceptType
  <2> HIDE DEF a
  <2>2. [a EXCEPT !.retry_pending = FALSE] \in ProviderState
    BY <2>1 DEF ProviderState
  <2>3. QED
    BY <1>1, <2>2 DEF reanchor_probe_only, a
<1>2. CASE r = Unset
  <2>1. d \in Nat
    BY PolicyAssumption DEF Max2, ProviderState, Instant
  <2> HIDE DEF d
  <2>2. [s EXCEPT !.retry_pending = FALSE, !.reset_candidate = Unset, !.next_due_at = d]
          \in ProviderState
    BY <2>1 DEF ProviderState, Instant
  <2>3. QED
    BY <1>2, <2>2 DEF reanchor_probe_only, d
<1>3. QED
  BY <1>1, <1>2

LEMMA ReanchorPaid ==
  ASSUME NEW s \in ProviderState, NEW t, NEW obs
  PROVE  reanchor_probe_only(s, obs, t).retry_pending = FALSE
BY DEF reanchor_probe_only, accept_reset, ProviderState

LEMMA AttemptType ==
  ASSUME NEW s \in ProviderState, NEW t \in Nat
  PROVE  /\ begin_attempt(s, t) \in ProviderState
         /\ begin_attempt(s, t).retry_pending = TRUE
         /\ begin_attempt(s, t).next_due_at = s.next_due_at
         /\ record_attempt(s, t) \in ProviderState
         /\ record_attempt(s, t).retry_pending = s.retry_pending
         /\ record_attempt(s, t).next_due_at = s.next_due_at
BY DEF begin_attempt, record_attempt, ProviderState, Instant

LEMMA SuccessType ==
  ASSUME NEW s \in ProviderState, NEW t \in Nat
  PROVE  /\ commit_success(s, t) \in ProviderState
         /\ commit_success(s, t).last_task_at = t
<1>1. t + RUN_INTERVAL \in Nat
  BY PolicyAssumption
<1>2. QED
  BY <1>1 DEF commit_success, ProviderState, Instant

LEMMA WindowType ==
  ASSUME NEW s \in ProviderState, NEW r \in Nat
  PROVE  /\ record_last_window(s, r) \in ProviderState
         /\ record_last_window(s, r).retry_pending = s.retry_pending
         /\ record_last_window(s, r).next_due_at = s.next_due_at
BY DEF record_last_window, ProviderState, Instant
=============================================================================
