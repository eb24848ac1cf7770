------------------------------- MODULE Budgets -------------------------------
(***************************************************************************)
(* How long a command may take, as the program computes it from its        *)
(* settings (runtime/budgets.py, runtime/probe_budget.py).  The host kills *)
(* a command that outlives its budget; CheckRuntime runs the steps these   *)
(* formulas stand for and compares.                                        *)
(*                                                                         *)
(* Whole seconds, but for the budgets of commands; minima below one second *)
(* are left out.                                                           *)
(***************************************************************************)
EXTENDS Integers, FiniteSetsExt, Functions, SequencesExt

CONSTANT Budget  \* SoftwareConfig.budgets and .app, one record

\* What the configuration accepts: numbers that are not negative, and not zero
\* but for the graces, the free retries, the wait for the lock and the host's
\* own deadline (0: not set).
ASSUME BudgetAssumption ==
  /\ \A name \in {"agy_timeout", "pi_timeout", "pi_auth_timeout", "pi_plugin_timeout",
                  "codex_timeout", "direct_timeout", "credential_timeout",
                  "notification_timeout", "antigravity_native_timeout",
                  "opencode_native_timeout", "clinepass_native_timeout", "codexbar_timeout",
                  "antigravity_codexbar_timeout", "opencode_codexbar_timeout",
                  "clinepass_codexbar_timeout", "pi_live_timeout", "retry_interval",
                  "initial_attempts", "watchdog_attempts"} : Budget[name] \in Nat \ {0}
  /\ \A name \in {"agy_kill_grace", "pi_kill_grace", "codex_kill_grace", "codexbar_kill_grace",
                  "pi_live_kill_grace", "agy_transient_attempts", "quota_wait",
                  "check_timeout"} : Budget[name] \in Nat
  /\ Budget.agy_preflight \in BOOLEAN

\* process.py: starting a process, and stopping and reaping it.
CLEANUP_ALLOWANCE_SECONDS == 7

\* An external call: its deadline, the grace of the stop, and the clean-up.
run_bounded(timeout, grace) == timeout + grace + CLEANUP_ALLOWANCE_SECONDS

\* helpers/run_with_timeout.py: the command's deadline, the grace it is given
\* after the first signal, and the owner's clean-up.
run_with_timeout(timeout, grace) == timeout + grace + CLEANUP_ALLOWANCE_SECONDS

PROVIDERS == {"codex", "antigravity", "opencode", "clinepass"}
Keyed == {"opencode", "clinepass"}

Least(a, b) == IF a < b THEN a ELSE b
Most(S) == IF S = {} THEN 0 ELSE Max(S)
-----------------------------------------------------------------------------
(* Opening: the preparation and the turn of one channel.                   *)

_guard_deadline ==
  LET grace == Least(Budget.agy_kill_grace, Budget.agy_timeout \div 2)
  IN  (Budget.agy_timeout - grace) + grace + 1

_guard == _guard_deadline + CLEANUP_ALLOWANCE_SECONDS

_credential == Budget.credential_timeout + CLEANUP_ALLOWANCE_SECONDS

_prepare(p, ch) ==
  CASE ch = "pi" ->
         (IF p = "codex"
          THEN Budget.pi_auth_timeout + Budget.pi_kill_grace + CLEANUP_ALLOWANCE_SECONDS ELSE 0)
         + (IF p \in {"antigravity", "clinepass"}
            THEN Budget.pi_plugin_timeout + CLEANUP_ALLOWANCE_SECONDS ELSE 0)
    [] ch = "direct" -> _credential
    [] ch = "agy"    -> IF Budget.agy_preflight THEN _guard ELSE 0
    [] ch = "codex"  -> 15 + 1 + CLEANUP_ALLOWANCE_SECONDS

\* A turn under run_with_timeout: two owners, two clean-ups.
Wrapped(timeout, grace) == timeout + grace + 2 * CLEANUP_ALLOWANCE_SECONDS

\* Mutant: the free retries of the handshake are not paid for.
_turn_once(plan, p, ch) ==
  CASE ch = "pi" -> Wrapped(Budget.pi_timeout, Budget.pi_kill_grace)
    [] ch = "codex" -> Wrapped(Budget.codex_timeout, Budget.codex_kill_grace)
                         + 20 + CLEANUP_ALLOWANCE_SECONDS
    [] ch = "agy" -> Wrapped(Budget.agy_timeout, Budget.agy_kill_grace)
                       + (IF Budget.agy_preflight THEN _guard ELSE 0)
                       + 20 + CLEANUP_ALLOWANCE_SECONDS
    [] ch = "direct" -> (Budget.direct_timeout + 5 + 2 + CLEANUP_ALLOWANCE_SECONDS) + _credential

CapturesSnapshot(plan, p) == "pi-snapshot" \in ToSet(plan.tiers[p])

_turn(plan, p, ch) ==
  CASE ch = "pi" -> Wrapped(Budget.pi_timeout, Budget.pi_kill_grace)
    [] ch = "codex" -> Wrapped(Budget.codex_timeout, Budget.codex_kill_grace)
                         + 20 + CLEANUP_ALLOWANCE_SECONDS
    [] ch = "agy" -> (Budget.agy_transient_attempts + 1)
                         * Wrapped(Budget.agy_timeout, Budget.agy_kill_grace)
                       + (IF Budget.agy_preflight THEN _guard ELSE 0)
                       + 20 + CLEANUP_ALLOWANCE_SECONDS
    [] ch = "direct" -> (IF CapturesSnapshot(plan, p) THEN 2 ELSE 1)
                          * (Budget.direct_timeout + 5 + 2 + CLEANUP_ALLOWANCE_SECONDS)
                        + _credential

\* What each channel of the chain adds to an attempt that enters it at `start`.
ChannelCosts(plan, p, start) ==
  [i \in 1 .. Len(plan.chains[p]) |->
     _turn(plan, p, plan.chains[p][i]) + IF i = start THEN 0 ELSE _prepare(p, plan.chains[p][i])]

\* One attempt of a provider that enters its chain at channel `start`.
AttemptFrom(plan, p, start) ==
  SumFunctionOnSet(ChannelCosts(plan, p, start), start .. Len(plan.chains[p]))
-----------------------------------------------------------------------------
(* Probing: every provider of the plan, tier by tier.                      *)

NATIVE_HELPER_SLACK_SECONDS == 5
KEYCHAIN_READ_TIMEOUT_SECONDS == 5

NativeTimeout(p) ==
  CASE p = "antigravity" -> Budget.antigravity_native_timeout
    [] p = "opencode"    -> Budget.opencode_native_timeout
    [] p = "clinepass"   -> Budget.clinepass_native_timeout

CodexbarTimeout(p) ==
  CASE p = "codex"       -> Budget.codexbar_timeout
    [] p = "antigravity" -> Budget.antigravity_codexbar_timeout
    [] p = "opencode"    -> Budget.opencode_codexbar_timeout
    [] p = "clinepass"   -> Budget.clinepass_codexbar_timeout

codexbar_calls(p) == IF p = "codex" THEN 2 ELSE 1

_native_bound_seconds(p) ==
  IF p = "codex" THEN 2 * 5 + CLEANUP_ALLOWANCE_SECONDS
  ELSE NativeTimeout(p) + NATIVE_HELPER_SLACK_SECONDS + 1 + CLEANUP_ALLOWANCE_SECONDS
         + (IF p \in Keyed THEN KEYCHAIN_READ_TIMEOUT_SECONDS + CLEANUP_ALLOWANCE_SECONDS ELSE 0)

_codexbar_bound_seconds(p) ==
  codexbar_calls(p) * (CodexbarTimeout(p) + Budget.codexbar_kill_grace + CLEANUP_ALLOWANCE_SECONDS)

TierBound(p, tier) ==
  CASE tier = "native" ->
         _native_bound_seconds(p)
           + (IF p \in Keyed THEN Budget.credential_timeout - KEYCHAIN_READ_TIMEOUT_SECONDS ELSE 0)
    [] tier = "codexbar-live" -> _codexbar_bound_seconds(p)
    [] tier = "pi-live" -> Budget.pi_live_timeout + Budget.pi_live_kill_grace + CLEANUP_ALLOWANCE_SECONDS
    [] OTHER -> 1

\* What is left to pay for a provider whose walk is at tier `from`.
TierBounds(plan, p) == [i \in 1 .. Len(plan.tiers[p]) |-> TierBound(p, plan.tiers[p][i])]
TiersFrom(plan, p, from) == SumFunctionOnSet(TierBounds(plan, p), from .. Len(plan.tiers[p]))

probe_phase(plan) ==
  SumFunction([i \in DOMAIN plan.probes |-> TiersFrom(plan, plan.probes[i], 1)])
-----------------------------------------------------------------------------
(* Delivery, and the two commands.  A budget is its terms and a tenth of   *)
(* them: what the host gives a command is in tenths of a second.           *)

_delivery(plan) ==
  IF plan.notify THEN 4 * Budget.notification_timeout + 3 + 6 * _credential ELSE 0

UsageTerms(plan) == probe_phase(plan) + Budget.quota_wait + 10 + _delivery(plan)

usage_budget(plan) == 11 * UsageTerms(plan)

\* Each provider's first channel is prepared.
preparation(plan) == SumFunction([p \in plan.opening |-> _prepare(p, plan.chains[p][1])])

CheckTerms(plan) ==
  IF plan.opening = {} THEN probe_phase(plan) + 10
  ELSE LET attempt == Most({AttemptFrom(plan, p, 1) : p \in plan.opening})
           rounds == Budget.initial_attempts + Budget.watchdog_attempts
           gaps == Most({0, Budget.initial_attempts - 1})
                     + Most({0, Budget.watchdog_attempts - 1})
       IN  rounds * attempt + 2 * preparation(plan) + gaps * Budget.retry_interval
             + 2 * probe_phase(plan) + Budget.quota_wait + 10 + 2 * _delivery(plan)
             + (IF plan.notify THEN 6 * _credential ELSE 0)

check_budget(plan) == 11 * CheckTerms(plan)

\* What the hosts give the two commands; an operator may set the first, and
\* then answers for it (0: not set): nothing is added to it.
check_command_timeout(plan) ==
  IF Budget.check_timeout > 0 THEN 10 * Budget.check_timeout ELSE check_budget(plan)

\* A question from the chat is answered there, whatever else is notified.
listener_usage_budget(plan) == usage_budget([plan EXCEPT !.notify = TRUE])
=============================================================================
