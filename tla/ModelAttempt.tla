---------------------------- MODULE ModelAttempt -----------------------------
(***************************************************************************)
(* One attempt to open a provider's window: its chain of channels, from    *)
(* the one that was prepared, until a turn is accepted (runtime/chains.py  *)
(* and the four transports models.py, codex_exec.py, agy_exec.py and       *)
(* direct.py, as runtime/selected_factory.py composes them).               *)
(*                                                                         *)
(* What the vendor did (billed) and what the client reported of it are     *)
(* apart: the code sees the report only.  The ledger `answered` counts the *)
(* turns that anchored the window, `lost` those whose result the process   *)
(* then could not write down.                                              *)
(*                                                                         *)
(* Every call takes the longest its deadlines allow.                       *)
(***************************************************************************)
EXTENDS Budgets

CONSTANT MaxLost  \* bound: writes that fail after an answer, per provider

VARIABLES
  attempt,   \* the attempt in flight
  answered,  \* p -> turns whose answer anchored the window, in this command
  lost       \* p -> answers lost to a failed write, in this command

NoAttempt == [at |-> "idle"]
Attempting == attempt.at # "idle"
-----------------------------------------------------------------------------
(* Preparing a channel: what it costs.                                     *)

\* The wrapper's deadline and grace, and a margin for the parent on top.
_guard_deadlines ==
  LET grace == Least(Budget.agy_kill_grace, Budget.agy_timeout \div 2)
      deadline == Budget.agy_timeout - grace
  IN  [deadline |-> deadline, grace |-> grace, parent |-> deadline + grace + 1]

agent_listed == run_bounded(_guard_deadlines.parent, 0)
agy_ready == IF Budget.agy_preflight THEN agent_listed ELSE 0

\* `codex login status`
codex_ready == run_bounded(15, 1)

direct_ready == run_bounded(Budget.credential_timeout, 0)

\* Refreshing Pi's login, for Codex; listing the plugin's models.
_refresh_pi_credentials(p) ==
  IF p = "codex" THEN run_bounded(Budget.pi_auth_timeout + Budget.pi_kill_grace, 0) ELSE 0
check_pi_plugin(p) ==
  IF p \in {"antigravity", "clinepass"} THEN run_bounded(Budget.pi_plugin_timeout, 0) ELSE 0
pi_prepare(p) == check_pi_plugin(p) + _refresh_pi_credentials(p)

PrepareCost(p, ch) ==
  CASE ch = "pi"     -> pi_prepare(p)
    [] ch = "codex"  -> codex_ready
    [] ch = "agy"    -> agy_ready
    [] ch = "direct" -> direct_ready
-----------------------------------------------------------------------------
(* Turns.                                                                  *)

\* reply: the expected answer; completed: the client says the turn ended well;
\* reported: the tokens it reports, none, as expected, or above the ceiling;
\* reasoned: reasoning tokens among them; marker: the pre-turn handshake error
\* in this turn's diagnostics; billed: what the vendor charged.  Only a turn
\* that started reports tokens, and the handshake fails before the turn.
Turns ==
  {t \in [reply : BOOLEAN, completed : BOOLEAN, reported : 0 .. 2, reasoned : BOOLEAN,
          marker : BOOLEAN, billed : BOOLEAN] :
     /\ t.reported > 0 \/ t.reply => t.billed
     /\ t.reasoned => t.reported > 0
     /\ t.marker /\ t.reported = 0 => ~t.billed /\ ~t.completed}

NoTurn == [reply |-> FALSE, completed |-> FALSE, reported |-> 0, reasoned |-> FALSE,
           marker |-> FALSE, billed |-> FALSE]

\* What each client's output tells of a turn: agy one JSON object and its
\* stderr, codex a stream of events, Pi and the completion the text only.
parse_result == {t \in Turns : ~t.reasoned}
parse_events == {t \in Turns : ~t.marker}
pi_output == {t \in Turns : ~t.reasoned /\ ~t.marker /\ t.reported = 0}
_read_completion == {t \in Turns : ~t.reasoned /\ ~t.marker /\ t.reported = 0}

TurnsOf(ch) ==
  CASE ch = "agy"    -> parse_result
    [] ch = "codex"  -> parse_events
    [] ch = "pi"     -> pi_output
    [] ch = "direct" -> _read_completion

\* The longest a turn takes.  Codex, agy and Pi run under the wrapper.
_run_cli == run_bounded(run_with_timeout(Budget.agy_timeout, Budget.agy_kill_grace), 0)
_run_codex == run_bounded(run_with_timeout(Budget.codex_timeout, Budget.codex_kill_grace), 0)
pi_run == run_bounded(run_with_timeout(Budget.pi_timeout, Budget.pi_kill_grace), 0)
_curl == run_bounded(Budget.direct_timeout + 5, 2)

TurnCost(ch) ==
  CASE ch = "agy"    -> _run_cli
    [] ch = "codex"  -> _run_codex
    [] ch = "pi"     -> pi_run
    [] ch = "direct" -> _curl
-----------------------------------------------------------------------------
(* Judging a turn.  A cost regression (reported = 2) is logged, and the    *)
(* answer accepted.                                                        *)

Answered(t) == t.completed /\ t.reply

agy_functional(t) == Answered(t) /\ t.reported >= 1
codex_functional(t) == Answered(t) /\ t.reported >= 1 /\ ~t.reasoned
pi_success(t) == Answered(t)
direct_success(t) == Answered(t)

\* Mutant: a turn above the ceiling counts as a failure.
_functional_strict(ch, t) ==
  CASE ch = "agy"    -> agy_functional(t) /\ t.reported = 1
    [] ch = "codex"  -> codex_functional(t) /\ t.reported = 1
    [] ch = "pi"     -> pi_success(t)
    [] ch = "direct" -> direct_success(t)

\* No functional problem.
_functional(ch, t) ==
  CASE ch = "agy"    -> agy_functional(t)
    [] ch = "codex"  -> codex_functional(t)
    [] ch = "pi"     -> pi_success(t)
    [] ch = "direct" -> direct_success(t)

\* agy's handshake failed and nothing was spent: free to try again.
_one_turn(t) == ~t.completed /\ t.reported = 0 /\ t.marker

\* The answer came, at a cost that is known where the client tells, and codex
\* did not reason: by its profile such a turn is not taken for the answer.
Anchors(ch, t) ==
  /\ t.billed /\ Answered(t)
  /\ ch \in {"agy", "codex"} => t.reported > 0 /\ ~t.reasoned
-----------------------------------------------------------------------------
(* The chain.                                                              *)

Channel(plan) == plan.chains[attempt.p][attempt.i]

\* chains.run, from the prepared channel on.
Attempt(p, start) ==
  attempt' = [at |-> "visit", p |-> p, start |-> start, i |-> start, last |-> "none",
              clock |-> 0, turn |-> NoTurn, tries |-> 0, billed |-> 0,
              success |-> FALSE, capture |-> "none"]

\* Pi's extension leaves its capture with the turn.
Captures(plan, ch) == IF ch = "pi" /\ CapturesSnapshot(plan, attempt.p) THEN "pi" ELSE "none"

Spend(cost, change) == attempt' = [change EXCEPT !.clock = @ + cost]

\* What a channel does before its turn.
Opening(ch) ==
  CASE ch = "pi"     -> "turn"
    [] ch = "codex"  -> "version"
    [] ch = "agy"    -> IF Budget.agy_preflight THEN "guard" ELSE "version"
    [] ch = "direct" -> "credential"

\* The channel raises, or ends without success: the next one, or the end.
NextChannel(plan, cost, last) ==
  LET left == attempt.i < Len(plan.chains[attempt.p]) IN
  Spend(cost, [attempt EXCEPT !.at = IF left THEN "visit" ELSE "done",
                              !.i = IF left THEN @ + 1 ELSE @,
                              !.last = last, !.capture = Captures(plan, last), !.turn = NoTurn, !.tries = 0, !.billed = 0])
Raises(plan, cost) == NextChannel(plan, cost, attempt.last)
Fails(plan, cost) == NextChannel(plan, cost, Channel(plan))

KeepLedger == UNCHANGED <<answered, lost>>

\* A channel that was not prepared is prepared now, or refuses.
Visit(plan) ==
  /\ attempt.at = "visit"
  /\ LET prepared == [attempt EXCEPT !.at = Opening(Channel(plan))]
         cost == PrepareCost(attempt.p, Channel(plan)) IN
       IF attempt.i = attempt.start THEN attempt' = prepared
       ELSE Spend(cost, prepared) \/ Raises(plan, cost)
  /\ KeepLedger

On(plan, channels, at) == attempt.at = at /\ Channel(plan) \in channels

\* agy, before any token: an agent that is not listed is not asked; a guard
\* that cannot tell does not stop the turn.
AgyGuard(plan) ==
  /\ On(plan, {"agy"}, "guard")
  /\ \/ Spend(agent_listed, [attempt EXCEPT !.at = "version"])
     \/ Fails(plan, agent_listed)
  /\ KeepLedger

agy_version(plan) ==
  /\ On(plan, {"agy"}, "version")
  /\ Spend(run_bounded(20, 0), [attempt EXCEPT !.at = "turn"])
  /\ KeepLedger

codex_version(plan) ==
  /\ On(plan, {"codex"}, "version")
  /\ Spend(run_bounded(20, 0), [attempt EXCEPT !.at = "turn"])
  /\ KeepLedger

\* direct: the key again; without it the turn is not taken.
_key_reader(plan) ==
  /\ On(plan, {"direct"}, "credential")
  /\ Spend(direct_ready, [attempt EXCEPT !.at = "turn"]) \/ Fails(plan, direct_ready)
  /\ KeepLedger

\* One turn of the channel.
Turn(plan) ==
  /\ attempt.at = "turn"
  /\ \E t \in TurnsOf(Channel(plan)) :
       /\ Spend(TurnCost(Channel(plan)),
                [attempt EXCEPT !.at = "judge", !.turn = t, !.tries = @ + 1,
                                !.billed = @ + IF t.billed THEN 1 ELSE 0])
       /\ answered' = [answered EXCEPT
            ![attempt.p] = @ + IF Anchors(Channel(plan), t) THEN 1 ELSE 0]
  /\ UNCHANGED lost

\* The client or the working files are gone, and nothing is asked.
CannotAsk(plan) == attempt.at = "turn" /\ Raises(plan, 0) /\ KeepLedger

\* A file that belongs to the turn cannot be written: the channel raises, and
\* if the answer had come, it is lost.
LoseTurn(plan, cost) ==
  LET answer == Anchors(Channel(plan), attempt.turn) IN
  /\ answer => lost[attempt.p] < MaxLost
  /\ Raises(plan, cost)
  /\ lost' = [lost EXCEPT ![attempt.p] = @ + IF answer THEN 1 ELSE 0]
  /\ UNCHANGED answered

WriteFails(plan) == attempt.at = "judge" /\ LoseTurn(plan, 0)

Accept(change) == attempt' = [change EXCEPT !.at = "done", !.success = TRUE]
Accepted(plan) == _functional(Channel(plan), attempt.turn)

\* codex and Pi: one turn, accepted or not.
codex_run(plan) ==
  /\ On(plan, {"codex"}, "judge")
  /\ IF Accepted(plan) THEN Accept(attempt) ELSE Fails(plan, 0)
  /\ KeepLedger

pi_run_judged(plan) ==
  /\ On(plan, {"pi"}, "judge")
  /\ IF Accepted(plan) THEN Accept([attempt EXCEPT !.capture = Captures(plan, "pi")])
     ELSE Fails(plan, 0)
  /\ KeepLedger

\* agy: a transient turn is taken again, as often as the retries allow.
_run_agy(plan) ==
  /\ On(plan, {"agy"}, "judge")
  /\ _one_turn(attempt.turn) /\ attempt.tries <= Budget.agy_transient_attempts
  /\ attempt' = [attempt EXCEPT !.at = "turn"]
  /\ KeepLedger

agy_run(plan) ==
  /\ On(plan, {"agy"}, "judge")
  /\ ~_one_turn(attempt.turn) \/ attempt.tries > Budget.agy_transient_attempts
  /\ IF Accepted(plan) THEN Accept(attempt) ELSE Fails(plan, 0)
  /\ KeepLedger

\* direct: an accepted answer is followed by the snapshot, where one is due.
direct_run(plan) ==
  /\ On(plan, {"direct"}, "judge")
  /\ IF ~Accepted(plan) THEN Fails(plan, 0)
     ELSE IF CapturesSnapshot(plan, attempt.p) THEN attempt' = [attempt EXCEPT !.at = "snapshot"]
     ELSE Accept(attempt)
  /\ KeepLedger

\* A second request, which may leave no capture; the answer is written down
\* after it.
_write_snapshot(plan) ==
  /\ On(plan, {"direct"}, "snapshot")
  /\ \/ /\ \E capture \in {"none", "direct"} :
             Accept([attempt EXCEPT !.clock = @ + _curl, !.capture = capture])
        /\ KeepLedger
     \/ LoseTurn(plan, _curl)

AttemptStep(plan) ==
  \/ Visit(plan) \/ AgyGuard(plan) \/ agy_version(plan) \/ codex_version(plan)
  \/ _key_reader(plan) \/ Turn(plan) \/ CannotAsk(plan) \/ WriteFails(plan)
  \/ codex_run(plan) \/ pi_run_judged(plan) \/ _run_agy(plan) \/ agy_run(plan)
  \/ direct_run(plan) \/ _write_snapshot(plan)
-----------------------------------------------------------------------------
(* Properties.                                                             *)

(* The time of an attempt never exceeds what the budget has for a chain    *)
(* entered at the prepared channel.                                        *)
AttemptWithinBudget(plan) ==
  Attempting => attempt.clock <= AttemptFrom(plan, attempt.p, attempt.start)

(* A provider is asked again only while no answer of it has been accepted: *)
(* within a command every answer but one was lost to a failed write; and a *)
(* channel's free retries are free, at most one of its turns is billed.    *)
SpentOnce ==
  /\ \A p \in DOMAIN answered : answered[p] <= 1 + lost[p]
  /\ Attempting => attempt.billed <= 1
=============================================================================
