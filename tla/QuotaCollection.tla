--------------------------- MODULE QuotaCollection ---------------------------
(***************************************************************************)
(* One collection: every provider of the plan walks its ladder of tiers,   *)
(* live probes and stored readings (runtime/quota_probe.py).               *)
(*                                                                         *)
(* A collection for the card takes the first reading it finds; one for the *)
(* schedule goes on until a live one and keeps the first as a fallback.    *)
(* The set `up` says which live tiers of the provider would answer with an *)
(* acceptable reading; the walk finds out one call at a time.              *)
(*                                                                         *)
(* Every call takes the longest its deadlines allow; `clock` is what the   *)
(* provider of the moment has cost so far.                                 *)
(***************************************************************************)
EXTENDS Budgets, QuotaReadings

VARIABLES
  walk,     \* where the collection is
  written   \* the reading the last step stored: {} or {q}

NoWalk == [at |-> "idle"]

FRESH_TIERS == {"native", "codexbar-live", "pi-live"}
TIERS == FRESH_TIERS \cup {"codexbar-cache", "pi-snapshot"}
Unavailable == [some |-> FALSE, fresh |-> FALSE]
Found(tier, q) == [some |-> TRUE, fresh |-> tier \in FRESH_TIERS /\ q.fresh]
-----------------------------------------------------------------------------
(* What one call of a tier costs at most, and what it may yield.           *)

_native_codex == 2 * 5 + CLEANUP_ALLOWANCE_SECONDS

_api_key == run_bounded(Budget.credential_timeout, 0)

_native_helper(p) ==
  (IF p \in Keyed THEN _api_key ELSE 0)
    + run_bounded(NativeTimeout(p) + NATIVE_HELPER_SLACK_SECONDS, 1)

\* The sources of Codex are tried one after the other.
_codexbar(p) == codexbar_calls(p) * run_bounded(CodexbarTimeout(p), Budget.codexbar_kill_grace)

pi_live_query(p) ==
  IF p = "clinepass" THEN 0 ELSE run_bounded(Budget.pi_live_timeout, Budget.pi_live_kill_grace)

Cost(p, tier) ==
  CASE tier = "native"        -> IF p = "codex" THEN _native_codex ELSE _native_helper(p)
    [] tier = "codexbar-live" -> _codexbar(p)
    [] tier = "pi-live"       -> pi_live_query(p)
    [] OTHER                  -> 1

Normalized(p, tier, r) ==
  CASE tier = "native"        -> NORMALIZE_NATIVE(p, r)
    [] tier = "codexbar-live" -> NORMALIZE_BAR(p, r)
    [] tier = "pi-live"       -> normalize_pi_live(p, r)

Answers(p, tier) == UNION {Normalized(p, tier, r) : r \in Report}

\* What a file of an earlier command may hold: a sound reading, or a damaged one.
Documents ==
  {ProviderQuota(FALSE, 60, 60, {}), ProviderQuota(FALSE, 60, -4, {}),
   [ProviderQuota(FALSE, 60, 60, {}) EXCEPT !.resets = FALSE]}
-----------------------------------------------------------------------------
(* The walk.                                                               *)

Collecting == walk.at # "idle"

\* collect() starts; capture says which channel left a capture of a provider.
Collect(plan, purpose, capture) ==
  walk' = [at |-> "next", purpose |-> purpose, capture |-> capture,
           queue |-> plan.probes, auth_required |-> FALSE]

Between == [at |-> "next", purpose |-> walk.purpose, capture |-> walk.capture,
            queue |-> walk.queue, auth_required |-> walk.auth_required]

Tiers(plan) == plan.tiers[walk.p]
At(plan, tiers) == walk.at = "tier" /\ Tiers(plan)[walk.tier] \in tiers
Tier(plan) == Tiers(plan)[walk.tier]

NextProvider(plan) ==
  /\ walk.at = "next" /\ walk.queue # <<>>
  /\ LET p == Head(walk.queue) IN
       \E up \in SUBSET {t \in ToSet(plan.tiers[p]) \cap FRESH_TIERS : Answers(p, t) # {}} :
         walk' = [at |-> "tier", purpose |-> walk.purpose, capture |-> walk.capture,
                  queue |-> Tail(walk.queue), auth_required |-> walk.auth_required,
                  p |-> p, up |-> up, tier |-> 1, first |-> Unavailable, clock |-> 0]
  /\ written' = {}

\* Mutant: any reading will do, for the schedule too.
Enough_any(tier, q) == TRUE

\* Whether a reading ends the walk of its provider.
Enough(tier, q) == walk.purpose = "display" \/ Found(tier, q).fresh

\* A tier has yielded a reading, or none: {q} or {}.
After(plan, quota, cost, auth) ==
  LET tier == Tier(plan)
      enough == \E q \in quota : Enough(tier, q)
      found == {Found(tier, q) : q \in quota}
  IN  walk' = [walk EXCEPT
        !.clock = @ + cost,
        !.auth_required = auth,
        !.first = IF found # {} /\ (enough \/ ~@.some) THEN CHOOSE f \in found : TRUE ELSE @,
        !.at = IF enough \/ walk.tier = Len(Tiers(plan)) THEN "chosen" ELSE @,
        !.tier = IF enough \/ @ = Len(Tiers(plan)) THEN @ ELSE @ + 1]

\* After an auth_required CodexBar is not asked: it would open a sign-in.
Skipped == IF walk.p = "antigravity" /\ walk.auth_required THEN {"codexbar-live"} ELSE {}

CodexbarSkipped(plan) ==
  /\ At(plan, Skipped)
  /\ After(plan, {}, 0, TRUE)
  /\ written' = {}

\* A live tier that does not answer: an error, a timeout, or a report that is
\* rejected.  Only the helper of antigravity tells that a sign-in is needed.
LiveFails(plan) ==
  /\ At(plan, FRESH_TIERS \ (walk.up \cup Skipped))
  /\ \E auth \in {walk.auth_required,
                  walk.auth_required \/ (walk.p = "antigravity" /\ Tier(plan) = "native")} :
       After(plan, {}, Cost(walk.p, Tier(plan)), auth)
  /\ written' = {}

LiveAnswers(plan) ==
  /\ At(plan, walk.up \ Skipped)
  /\ \E q \in Answers(walk.p, Tier(plan)) :
       /\ After(plan, {q}, Cost(walk.p, Tier(plan)), walk.auth_required)
       \* _save_cache: the reading, demoted; a failure to store it is ignored.
       /\ \/ Tier(plan) = "codexbar-live" /\ written' = {demote_to_cached(q)}
          \/ written' = {}

StoredOrNone == {{}} \cup {ReadStored(doc) : doc \in Documents}

_read_cache(plan) ==
  /\ At(plan, {"codexbar-cache"})
  /\ \E quota \in StoredOrNone : After(plan, quota, 1, walk.auth_required)
  /\ written' = {}

\* This command's capture first; the stored snapshot when there is none, or
\* when it is rejected.
_read_pi(plan) ==
  /\ At(plan, {"pi-snapshot"})
  /\ \E quota \in StoredOrNone \cup
         {NORMALIZE_PI(walk.p, r) : r \in Captured(walk.p, walk.capture[walk.p])} :
       After(plan, quota, 1, walk.auth_required)
  /\ written' = {}

Settle == walk.at = "chosen" /\ walk' = Between /\ written' = {}

Collected == walk.at = "next" /\ walk.queue = <<>>

WalkStep(plan) ==
  \/ NextProvider(plan) \/ LiveFails(plan) \/ CodexbarSkipped(plan) \/ LiveAnswers(plan)
  \/ _read_cache(plan) \/ _read_pi(plan) \/ Settle

\* save_pi_snapshots, for one provider: a capture its normalizer accepts
\* replaces the stored snapshot; any other leaves it alone.
save_pi_snapshot(p, channel) ==
  \E r \in Captured(p, channel) : written' \in {{}, NORMALIZE_PI(p, r)}
-----------------------------------------------------------------------------
(* Properties.                                                             *)

(* The time of one provider's walk never exceeds what the budget has for   *)
(* its ladder.                                                             *)
WalkWithinBudget(plan) ==
  walk.at \in {"tier", "chosen"} => walk.clock <= TiersFrom(plan, walk.p, 1)

(* A collection for the schedule ends on a live reading exactly when some  *)
(* live tier of the ladder, wherever it stands in it, would have answered: *)
(* a stored reading never stands in for one.                               *)
SchedulesOnLive ==
  walk.at = "chosen" /\ walk.purpose = "schedule"
    => (walk.first.fresh <=> walk.up \ Skipped # {})

(* Whatever is stored can be read back by the next command, with the same  *)
(* windows: the limits of the normalizers are those of the strict reader.  *)
ReadsBack == \A q \in written : \E r \in ReadStored(q) : SameWindows(q, r)
=============================================================================
