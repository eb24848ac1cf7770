---------------------------- MODULE CheckRuntime -----------------------------
(***************************************************************************)
(* What a check or a /usage does in real time (app.py, runtime/): its      *)
(* bursts of attempts, its collections and its cards, composed of          *)
(* ModelAttempt, QuotaCollection and Delivery, against the budget after    *)
(* which its host kills it.                                                *)
(*                                                                         *)
(* Which providers owe a retry and which are due is Application's matter:  *)
(* here any are.  The attempts of a round run at once and take as long as  *)
(* the longest; they share nothing, so they are stepped one by one.  A     *)
(* part's own clock is compared with its bound, and the bound is what      *)
(* `elapsed` adds.                                                         *)
(***************************************************************************)
EXTENDS ModelAttempt, QuotaCollection, Delivery

CONSTANT Plans  \* the runtime plans of selection.build_runtime_plan to run

\* A plan names a provider at most once and opens only what it probes; the
\* chains it uses are of the configuration, which refuses an empty one.
ASSUME PlansAssumption ==
  \A pl \in Plans :
    /\ DOMAIN pl = {"opening", "probes", "chains", "tiers", "notify"}
    /\ pl.probes \in Seq(PROVIDERS) /\ pl.notify \in BOOLEAN
    /\ \A i, j \in DOMAIN pl.probes : pl.probes[i] = pl.probes[j] => i = j
    /\ \A i \in DOMAIN pl.probes : pl.tiers[pl.probes[i]] \in Seq(TIERS) \ {<<>>}
    /\ \A p \in pl.opening : \E i \in DOMAIN pl.probes : pl.probes[i] = p
    /\ \A p \in pl.opening : pl.chains[p] \in Seq({"pi", "codex", "agy", "direct"}) \ {<<>>}

VARIABLES plan, cmd

vars == <<plan, cmd, attempt, answered, lost, walk, written, post, inflight, shown>>
KeepAttempt == UNCHANGED <<attempt, answered, lost>>
KeepWalk == UNCHANGED <<walk, written>>
KeepPost == UNCHANGED <<post, inflight, shown>>
KeepParts == KeepAttempt /\ KeepWalk /\ KeepPost

\* Of the providers still to do, the first in the order of the plan.
Place(p) == CHOOSE i \in DOMAIN plan.probes : plan.probes[i] = p
First(p) == p \in cmd.todo /\ \A q \in cmd.todo : Place(p) <= Place(q)
NoCapture == [p \in PROVIDERS |-> "none"]

\* burst: the providers the burst still has to open; failed: those whose
\* attempt of this round failed; start: the channel that was prepared.
Init ==
  /\ plan \in Plans
  /\ cmd = [stage |-> "begin", phase |-> IF plan.opening = {} THEN "usage" ELSE "retry",
            todo |-> {}, channel |-> 1, round |-> 0, burst |-> {}, failed |-> {},
            retry |-> {}, due |-> {}, recovered |-> {},
            start |-> [p \in PROVIDERS |-> 1], capture |-> NoCapture, elapsed |-> 0]
  /\ attempt = NoAttempt
  /\ answered = [p \in PROVIDERS |-> 0] /\ lost = [p \in PROVIDERS |-> 0]
  /\ walk = NoWalk /\ written = {}
  /\ post = NoPost /\ inflight = {} /\ shown = {}

At_(stage) == cmd.stage = stage
Ended(state) == [state EXCEPT !.stage = "ended"]
Then(state, stage) == [state EXCEPT !.stage = stage]

\* A burst over S: readiness first, then the preparation of each of S.
Burst(state, phase, S) ==
  [state EXCEPT !.stage = "ready", !.phase = phase, !.burst = S, !.failed = {},
                !.round = 0, !.capture = NoCapture]
-----------------------------------------------------------------------------
(* The command.                                                            *)

Begin ==
  /\ At_("begin")
  /\ IF cmd.phase = "usage" THEN cmd' = Then(cmd, "lock")
     ELSE \E retry \in SUBSET plan.opening :
            cmd' = IF retry = {} THEN Then(cmd, "lock")
                   ELSE Burst([cmd EXCEPT !.retry = retry], "retry", retry)
  /\ KeepParts

\* _require_ready: the notifier's three credentials, before any attempt.
Ready ==
  LET cost == IF plan.notify THEN 3 * CredentialRead ELSE 0
      ready == [cmd EXCEPT !.stage = "prepare", !.todo = cmd.burst,
                           !.channel = 1, !.elapsed = @ + cost]
  IN  /\ At_("ready")
      /\ cmd' \in {ready, Ended(ready)}
      /\ KeepParts

\* chains.prepare, channel by channel; a provider with none ends the command.
Prepare ==
  /\ At_("prepare")
  /\ \E p \in cmd.todo :
       LET chain == plan.chains[p]
           paid == [cmd EXCEPT !.elapsed = @ + PrepareCost(p, chain[cmd.channel])]
       IN  /\ First(p)
           /\ \/ cmd' = [paid EXCEPT !.start[p] = cmd.channel, !.todo = @ \ {p}, !.channel = 1]
              \/ cmd' = IF cmd.channel < Len(chain) THEN [paid EXCEPT !.channel = @ + 1]
                        ELSE Ended(paid)
  /\ KeepParts

FirstRound ==
  /\ At_("prepare") /\ cmd.todo = {}
  /\ cmd' = [cmd EXCEPT !.stage = "round", !.round = 1, !.todo = cmd.burst]
  /\ KeepParts

RunModel ==
  /\ At_("round") /\ ~Attempting
  /\ \E p \in cmd.todo : First(p) /\ Attempt(p, cmd.start[p])
  /\ UNCHANGED <<cmd, answered, lost>> /\ KeepWalk /\ KeepPost

\* An attempt that raised leaves the capture of the round before.
ModelDone ==
  LET p == attempt.p IN
  /\ attempt.at = "done"
  /\ cmd' = [cmd EXCEPT
       !.todo = @ \ {p},
       !.failed = IF attempt.success THEN @ ELSE @ \cup {p},
       !.capture[p] = IF attempt.success \/ attempt.last # "none" THEN attempt.capture ELSE @]
  /\ attempt' = NoAttempt
  /\ UNCHANGED <<answered, lost>> /\ KeepWalk /\ KeepPost

Limit == IF cmd.phase = "retry" THEN Budget.watchdog_attempts ELSE Budget.initial_attempts

EndRound ==
  LET longest == Most({AttemptFrom(plan, p, cmd.start[p]) : p \in cmd.burst})
      after == [cmd EXCEPT !.burst = cmd.failed, !.failed = {}, !.elapsed = @ + longest]
      opened == IF cmd.phase = "retry" THEN cmd.retry ELSE cmd.due
  IN  /\ At_("round") /\ cmd.todo = {} /\ ~Attempting
      /\ cmd' = IF cmd.failed # {} /\ cmd.round < Limit
                THEN [after EXCEPT !.round = @ + 1, !.todo = cmd.failed,
                                   !.elapsed = @ + Budget.retry_interval]
                ELSE [after EXCEPT !.stage = "save",
                        !.recovered = IF cmd.phase = "retry" THEN opened \ cmd.failed ELSE @,
                        !.todo = {p \in opened : cmd.capture[p] # "none"}]
      /\ KeepParts

SaveSnapshot ==
  /\ At_("save")
  /\ \E p \in cmd.todo :
       /\ First(p)
       /\ save_pi_snapshot(p, cmd.capture[p])
       /\ cmd' = [cmd EXCEPT !.todo = @ \ {p}]
  /\ UNCHANGED walk /\ KeepAttempt /\ KeepPost

SnapshotsSaved ==
  /\ At_("save") /\ cmd.todo = {}
  /\ cmd' = Then(cmd, "lock")
  /\ written' = {} /\ UNCHANGED walk /\ KeepAttempt /\ KeepPost

\* quota.lock, at once in the middle of a check, else after a wait; when it is
\* busy the collection is left out, and the card is still sent.
QuotaLock ==
  LET waited == [cmd EXCEPT !.elapsed = @ + IF cmd.phase = "retry" THEN 0 ELSE Budget.quota_wait]
      busy == IF cmd.phase = "retry" /\ cmd.recovered = {} THEN "ended" ELSE "card"
  IN  /\ At_("lock")
      /\ \/ /\ cmd' = Then(waited, "collect")
            /\ Collect(plan, IF cmd.phase = "usage" THEN "display" ELSE "schedule", cmd.capture)
            /\ UNCHANGED written
         \/ cmd' = Then(waited, busy) /\ KeepWalk
      /\ KeepAttempt /\ KeepPost

\* The readings are in.  A check then decides who is due, of those that had no
\* debt when it began.
EndCollect ==
  LET paid == [cmd EXCEPT !.elapsed = @ + probe_phase(plan)] IN
  /\ Collected
  /\ IF cmd.phase # "retry" THEN cmd' = Then(paid, "card")
     ELSE \E due \in SUBSET (plan.opening \ cmd.retry) :
            LET decided == [paid EXCEPT !.due = due] IN
            cmd' = CASE cmd.recovered # {} -> Then(decided, "card")
                     [] cmd.recovered = {} /\ due # {} -> Burst(decided, "initial", due)
                     [] OTHER -> Ended(decided)
  /\ walk' = NoWalk /\ written' = {}
  /\ KeepAttempt /\ KeepPost

AfterCard(state) ==
  IF state.phase = "retry" /\ state.due # {} THEN Burst(state, "initial", state.due)
  ELSE Ended(state)

Card ==
  /\ At_("card") /\ ~Posting
  /\ IF plan.notify THEN Deliver /\ UNCHANGED cmd ELSE cmd' = AfterCard(cmd) /\ KeepPost
  /\ KeepAttempt /\ KeepWalk

CardDone ==
  /\ post.at \in {"sent", "failed"}
  /\ LET paid == [cmd EXCEPT !.elapsed = @ + _delivery(plan)] IN
       cmd' = IF post.at = "sent" THEN AfterCard(paid) ELSE Ended(paid)
  /\ post' = NoPost /\ inflight' = {} /\ shown' = {}
  /\ KeepAttempt /\ KeepWalk

CommandStep ==
  \/ Begin \/ Ready \/ Prepare \/ FirstRound \/ RunModel \/ ModelDone \/ EndRound
  \/ SaveSnapshot \/ SnapshotsSaved \/ QuotaLock \/ EndCollect \/ Card \/ CardDone

Next ==
  /\ \/ CommandStep
     \/ UNCHANGED cmd /\ KeepWalk /\ KeepPost /\ AttemptStep(plan)
     \/ UNCHANGED cmd /\ KeepAttempt /\ KeepPost /\ WalkStep(plan)
     \/ UNCHANGED cmd /\ KeepAttempt /\ KeepWalk /\ DeliveryStep
  /\ UNCHANGED plan

Spec == Init /\ [][Next]_vars
-----------------------------------------------------------------------------
(* Properties.                                                             *)

\* When the host kills the command, in tenths of a second.
budget ==
  IF plan.opening = {} THEN listener_usage_budget(plan) ELSE check_command_timeout(plan)

(* The host never kills a command that is within its own deadlines, of     *)
(* settings that cover its plan (Covers, below): its budget, or what the   *)
(* operator has set in its place, pays for every call the command makes,   *)
(* and each part stays within the share that the budget names.             *)
WithinBudget ==
  /\ 10 * cmd.elapsed <= budget
  /\ WalkWithinBudget(plan)
  /\ AttemptWithinBudget(plan)
  /\ DeliveryWithinBudget(plan)
-----------------------------------------------------------------------------
(* What the settings have to grant.  The budget prepares the first channel *)
(* of a chain for each of the two bursts and has a tenth on top; the       *)
(* command may prepare every channel of a chain once.                      *)

\* The preparations of a provider's channels, from channel i on, and those of
\* all the channels of a set of providers.
Preparing(pl, p) == [i \in 1 .. Len(pl.chains[p]) |-> _prepare(p, pl.chains[p][i])]
Rest(pl, p, i) == SumFunctionOnSet(Preparing(pl, p), i .. Len(pl.chains[p]))
WholeChains(pl) == [p \in pl.opening |-> Rest(pl, p, 1)]
Every(pl, S) == SumFunctionOnSet(WholeChains(pl), S)

\* The settings grant a plan its time; an operator's own deadline, which has no
\* tenth of its own, is not below the budget with its tenth.
Covers(pl) ==
  /\ 10 * Every(pl, pl.opening) <= 20 * preparation(pl) + 100 + CheckTerms(pl)
  /\ Budget.check_timeout > 0 => 10 * Budget.check_timeout >= check_budget(pl)
=============================================================================
