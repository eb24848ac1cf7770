--------------------------- MODULE MCCheckRuntime ----------------------------
(* The defaults of config/defaults.py, and the plans the run goes through. *)
EXTENDS CheckRuntime

MCBudget ==
  [agy_timeout |-> 120, agy_kill_grace |-> 10, agy_preflight |-> TRUE,
   agy_transient_attempts |-> 3, pi_timeout |-> 300, pi_kill_grace |-> 10,
   pi_auth_timeout |-> 30, pi_plugin_timeout |-> 15, codex_timeout |-> 120,
   codex_kill_grace |-> 10, direct_timeout |-> 120, credential_timeout |-> 15,
   notification_timeout |-> 45, antigravity_native_timeout |-> 20,
   opencode_native_timeout |-> 15, clinepass_native_timeout |-> 15,
   codexbar_timeout |-> 20, antigravity_codexbar_timeout |-> 35,
   opencode_codexbar_timeout |-> 20, clinepass_codexbar_timeout |-> 20,
   codexbar_kill_grace |-> 10, pi_live_timeout |-> 30, pi_live_kill_grace |-> 10,
   quota_wait |-> 20, retry_interval |-> 30, initial_attempts |-> 3, watchdog_attempts |-> 2,
   check_timeout |-> 0]

Chains == [codex |-> <<"codex", "pi">>, antigravity |-> <<"agy", "pi">>,
           opencode |-> <<"direct", "pi">>, clinepass |-> <<"direct", "pi">>]

Ladder == <<"native", "codexbar-live", "codexbar-cache", "pi-snapshot">>
Ladders == [codex |-> Ladder \o <<"pi-live">>, antigravity |-> Ladder \o <<"pi-live">>,
            opencode |-> Ladder \o <<"pi-live">>, clinepass |-> Ladder]

Plan(opening, probes, notify) ==
  [opening |-> opening, probes |-> probes, chains |-> Chains, tiers |-> Ladders, notify |-> notify]

MCPlans ==
  {Plan({"codex", "opencode"}, <<"codex", "opencode">>, TRUE),
   Plan({"antigravity", "clinepass"}, <<"antigravity", "clinepass">>, FALSE),
   Plan({}, <<"codex", "antigravity", "opencode", "clinepass">>, TRUE)}

\* The defaults grant every plan of the run its time.
ASSUME DefaultsCover == \A pl \in Plans : pl.opening # {} => Covers(pl)
=============================================================================
