# quota-sentinel: a TLA+ verification

quota-sentinel keeps the quota windows of several model providers running: each
provider has a deadline (`next_due_at`), and when it is due the program runs a
tiny task on the provider's model, which opens a new window, reads the new reset
time, and sets the next deadline. It promises *at least once*: a due task is not
lost by a crash, a failed model, or a quota reading that keeps moving. These
modules model that promise, the processes that keep it, and what one command does
inside: the attempts on the models, the quota readings, the cards and the time
they take. TLC checks them on small instances. TLAPS proves, for every value of the
constants, the safety properties of eight of these parts: the scheduling policy,
the stores, the commands and their locks, the host's loop, the switch between the
two storage backends, the activation journals, and what one command spends, reads
and shows. It also proves that the document store and the application implement
the policy's specification of one provider.

Source paths below are relative to `src/quota_sentinel/`.

## 1. Inventory

### Components

| component | source | state it keeps | operations | status |
|---|---|---|---|---|
| scheduling policy | `scheduler/policy.py`, `scheduler/models.py`, `state/models.py` | none: pure functions on a `ProviderState` | `begin_attempt`, `record_attempt`, `commit_success`, `sync_deadline`, `evaluate_due`, `reanchor_probe_only`, `retry_due`, ... | modelled |
| scheduler service | `scheduler/service.py` | none: load, policy, commit | one call per policy transition | modelled |
| state stores | `state/store.py`, `state/json_store.py` | eight slots per provider, as files or as one document | `load`, `commit` (compare-and-publish, slot by slot) | commit order and crashes modelled; encodings not |
| application commands | `app.py`, `state/runlock.py`, `runtime/locks.py` | `run.lock`, `quota.lock` | `check`, `run`, `usage`, (`wait`, `status`) | modelled |
| task orchestrator, daemon | `helpers/task_orchestrator.py`, `daemon.py` | watchdog slot, deadline backoff, the active child, task rows | loop, startup, `run_external_task`, `cancel`, `stop` | modelled except the budget of a host without a configuration |
| backend authority | `state/authority.py`, `router.py`, `cutover.py`, `migration.py`, `new_installation.py` | the manifest (backend, epoch), legacy slots, documents | cutover, rollback, bootstrap, migrate, installation, routed reads and commits | modelled |
| activation journal, configuration | `state/activation.py`, `config/store.py`, `config/edit_lock.py` | the saved profile, its journal, the host's copy of both, `runtime-providers.json` | `save_config`, apply, `persist_activation` | modelled except validation of a profile |
| Feishu listener | `helpers/feishu_listener.py` | the command slot, seen message ids, the registered future and process, closing flag | receive, submit, run, finish, stop | modelled |
| process ownership | `platform/posix_process.py`, `process.py` | known processes and groups of a child, guard, closed flag | spawn, track, stop, close | POSIX modelled, Windows not |
| quota collection | `runtime/quota_probe.py`, `pi_live.py`, `quota/`, `helpers/*usage*`, `capture-*.ts` | stored readings, the walk of a ladder | tiers per provider, fall-through, cache, snapshots | modelled |
| model transports | `runtime/chains.py`, `models.py`, `agy_exec.py`, `codex_exec.py`, `direct.py` | an attempt: channel, tries, answer | prepare, turn, judge, retry, next channel | modelled as the selected composition builds them |
| Feishu delivery, cards | `runtime/feishu.py`, `cards.py` | request id, tries | read credentials, token, post, post again | modelled except layout |
| budgets | `runtime/budgets.py`, `probe_budget.py` | none | sums of timeouts | modelled |
| check runtime | `app.py`, `runtime/selected_factory.py`, `selection.py` | what one command has opened, read and spent | bursts, collections, cards in order | modelled |
| platform services, credentials | `platform/`, `runtime/keychain.py` | the operating system's | install, start, read a key | not modelled |
| command line, composition | `__main__.py`, `configure.py`, `runtime/factory.py`, ... | none | parse, wire, print | not modelled |
| diagnostics | `diagnostics/`, `runtime/runlog.py` | trace files | write | not modelled |

### How they interact

The *orchestrator* (a thread of the daemon) decides **when** `check` runs: at
startup, on a 15-minute grid, and when a provider's deadline matures. It spawns
`check` as a child process. `check`, an operator's `run`, and `usage` (from the
command line or from the listener's worker) are the *application commands*: they
share a state directory and nothing else, and are kept apart by `run.lock`
(writers of provider state) and `quota.lock` (probes). Inside a command the
*service* loads a provider's state, applies one operator of the *policy*, and
commits the result to the authoritative *store*. The orchestrator reads the
committed deadlines to place its next wake-up.

Inside one command a *burst* gives every chosen provider an *attempt*: a chain of
channels (a vendor's client, a direct request, Pi) tried until a turn is accepted.
A *collection* asks every provider's ladder of tiers for a reading, and a *card*
tells the user. The host gives the command a *budget* computed from the same
settings and kills what outlives it. The *listener* turns a chat message into one
`usage` process and must take that process with it when the host stops. The
*editors* of the profile switch providers off and on while all this runs; a
journal of what was switched off makes the next check resume a provider before it
may find it due.

### What is hard

* **Moving resets.** A provider whose window is not open reports "now plus the
  window" for ever; another jitters by seconds; a third is right and really
  moved. The policy distinguishes them with an anchor, a tolerance and a
  two-reading candidate (`policy.py:234-344`), and must not let any sequence of
  readings postpone a due task or follow a success with another run.
* **Crashes between two writes.** The debt is written before the model starts,
  the success after; the slots of one commit are separate files.
* **Processes.** A `usage` probes under one lock and applies its readings later
  under the other; a `check` re-reads debts after it has probed; the burst of
  one process is a window in which a second may probe but not write.
* **A change of owner.** Provider state lives in slot files or in documents, and
  one manifest says which. Switches, seeds and deaths must not bring a
  superseded state back, and readers take no lock.
* **Time.** The outer limit of a command is a sum that has to mention every call
  the command may make, at its slowest, in every order of failures.
* **Money.** A turn that was billed and not recognised as an answer is bought
  again; a client that fails before its turn costs nothing and is asked again.
* **Readings that lie about their age.** Stored readings stand in for live ones on
  a card and must not for the schedule, whatever the file says of itself.
* **Threads.** The orchestrator's loop spawns a child outside its lock while the
  main thread cancels; notifications may come when nobody waits; the machine
  sleeps, and waits do not advance while the wall clock does.

### What makes each part correct

* policy: near movement cannot accumulate (`Tethered`), a far reset is accepted
  only after a second agreeing reading (`PostponedOnlyConfirmed`), a committed
  deadline is moved by a success alone (`CommittedDeadlineHolds`), a success is
  not followed at once by another run (`NoRerunStorm`), no deadline is out of
  sight (`NeverBeyondHorizon`);
* service and commands: a debt is on disk while the model runs
  (`DebtDuringAttempt`) and only a success pays it (`DebtOnlyPaid`);
* stores: one document makes a commit atomic (`ImplementsSchedule`); with slots,
  what is owed stays owed at every crash point (`OwedOnlyPaid`,
  `SuccessRerunsNotLoses`);
* commands: locks serialise writers and probes (`OneAtATime`), every command
  ends, due work is attempted, a recovered run is reported,
  and the debts that keep a provider out of the due decision are those of now, not
  of before the probe (`GapIsKept`);
* backend authority: the backend in charge holds the last committed state
  (`OwnerIsCurrent`), a roster that is returned comes from one epoch
  (`RosterOfOneEpoch`), and no second check ever fires (`NoAlarm`);
* activation: a provider that was switched off is resumed before it may be due
  (`ResumedBeforeDue`), and an edit nobody has seen is not acknowledged
  (`NeverAcknowledgesNewerEdit`);
* one command: it fits its budget however slowly every call fails
  (`WithinBudget`), no provider is paid twice for one window (`SpentOnce`), the
  schedule takes a live reading exactly when there is one (`SchedulesOnLive`), what
  is stored can be read back (`ReadsBack`), a card is seen at most once and a
  sent one is seen (`OneCard`);
* listener: no query survives the stop (`NoQueryOutlivesHost`); until a signal comes,
  a busy slot stands for a query on its way (`CoalescesWithQuery`) and comes back
  (`SlotComesBack`). After one neither holds in every case, and the stop itself may
  be lost: see Findings;
* orchestrator: no orphaned child, prompt deadlines, no silent gap, no backlog,
  rows that tell the truth, a loop that does not die and a stop that ends.

`PROJECT.json` lists the hazards line by line with the properties that cover
them, and says of the rest why they are not covered.

## 2. The modules

```
SchedulerPolicy          operators: policy.py on one provider state
  ProviderSchedule       state machine: the service calls made on one provider
    RollingWindow        ... in front of a provider whose reset moves with the clock
    MCProviderSchedule   instance for TLC
    ProviderSchedule_proofs
  StateStore             one provider's commits in both stores, with crashes
                         (the document store implements ProviderSchedule)
    StateStore_proofs
  Application            check / run / usage processes, two locks, all providers
    MCApplication        instance; each provider implements ProviderSchedule
    Application_proofs
  SchedulerPolicy_proofs lemmas on the policy's operators, shared by the three above
TaskOrchestrator         the host: loop, stop, usage worker, child process
  Host_proofs            (also proves UsageListener: the host runs both)
BackendAuthority         which backend owns the state: commits, switches, readers
  BackendAuthority_proofs
ActivationJournal        editors, host and checks around the journals
  ActivationJournal_proofs
Budgets                  operators: the sums of timeouts
  ModelAttempt           one attempt through its chain of channels
  Delivery               one card
  QuotaCollection        one collection, ladder by ladder
    QuotaReadings        operators: what a report, a capture or a file yields
  CheckRuntime           a whole check or /usage: the three above, and the budget
    MCCheckRuntime       instance: the program's default settings, three plans
    CheckRuntime_proofs
OwnedProcess             a child, what it forks, the tracker, stop and close
  UsageListener          receive loop, worker and signal around an owned query
```

ProviderSchedule is the abstract specification that StateStore (documents) and
MCApplication implement by INSTANCE ... WITH. The modules from ActivationJournal
on look inside what the others take as one step: `Reconfigure` and
`ResumeProvider`, an attempt that succeeds or fails, the readings of a
collection, the card, a usage worker.

**SchedulerPolicy** has one operator per function of `policy.py`, with the
source's names. `None` is `Unset`; instants are natural numbers; the six timing
constants are the ones at the head of `policy.py`, and `PolicyAssumption` says
what the proofs need of them. The reason a function returns beside its new state
is wording and is left out, except where it decides (`schedule_blocked`,
`run_now`).

**ProviderSchedule** gives the life of one provider: `st` (durable state), `now`,
`trigger` (may the model be run), `burst` (where a holder of `run.lock` is with
it). Each action is one service call with the guard the caller tests
(`SelectRetry`, `DecideDue`, `Recalibrate`, `ReanchorProbeOnly`,
`ResumeProvider`, `RunCommand`, `BeginAttempt`, `RecordAttempt`, `Succeed`,
`PostRunSync`), plus the crash points (`Abandon`, `PostRunCut`). It is the
abstract specification of the two modules below it.

**RollingWindow** is the same machine with `RollingReadings` as input: a
provider that always answers its own clock plus the window, stamped up to
`MaxLag` later because `app.py:450` takes one stamp after the whole collect.

**StateStore** replaces the atomic step by a call in flight (`commit`): where it
started, the states the disk has yet to reach, and where its process is when it
returns. `Publish` is one mutation towards the first of these states: the next
slot in the order of `SLOTS` that differs (legacy), or the document (json).
`Crash` may come between any two. A commit in flight ends within the second it was
stamped with.
The store in charge is chosen at the start. Under the refinement mapping the
document store is ProviderSchedule; the slot store is mapped to an idle provider,
because it promises only what its own two properties say.

**Application** has a record per process (`job`: phase, roster, round, readings),
the two locks and all providers. A burst goes through begin, models, commit,
record; `check` goes retry burst, probe (no waiting for `quota.lock`), collect,
decide, due burst, post-run probe, and takes the list of what its retry recovered
along (`recovered`) to the card of either exit; `usage` probes under `quota.lock`,
frees it, and recalibrates if `run.lock` is free at once. `Crash` stands for a death
and for every exception that leaves a command. `unreported` is history: what the
retry of the process with `run.lock` has paid for and no card has named. A command
that dies or raises sends no card and nobody sends it later, so `Crash` empties it:
`RecoveredIsReported` speaks of the checks that end by themselves. `BurstOf` maps a
process's phase to the `burst` of ProviderSchedule.

**TaskOrchestrator** has one action per step of `_run_loop`,
`SubprocessRunner.run`, `cancel`, `stop` and `run_external_task`, cut where
another thread can see the difference: between spawn and registration, between
the computation of the wait and the wait, between `cancel` and its notification.
Instants are relative to the clock, so the clock needs no bound. `Tick(FALSE)` is
the machine asleep: the wall clock moves and the waits do not. A thread step
takes no time unless the thread waits.

**BackendAuthority** abstracts a provider's state to a version number and gives
each kind of process its own actions: writers (load, select, publish, confirm:
`router.commit`), lifecycle verbs (the passes of `cutover_to_json` and
`rollback_to_legacy` provider by provider, `write_authority` as `Flip`,
`bootstrap_legacy_authority`), readers (`load_all` with its two manifest reads and
its retries), seeders (`migrate`, which takes no lock: read the slots, link the
document later), and a new installation. `Crash` is a death, or an error that ends
the process, at any place. `committed` is history: what the last commit of each
provider published. A code path that raises because a precondition is broken
goes to the place `alarm`. A bootstrap happens to a deployment that really
predates the manifest, which is what its operator has to assert.

**ActivationJournal** has the files (the saved profile, the journal beside it, the
host's applied copy of both, `runtime-providers.json`) and everyone who publishes
one: editors (`PublishJournal` and `PublishConfig` are the two halves of
`save_config`, a death may separate them), the host's restart (`Apply`), and
checks by hand or by the host, which read the journals, publish, acknowledge and
resume, one publication per action, under `configuration.lock` and `run.lock`. A
journal's revision is the hash of its content and so is its content here.
`off_since` is history: the last edit whose journal record switched the provider
off.

**Budgets** has one operator per formula of `budgets.py` and of the part of
`probe_budget.py` it uses, over one record of settings (`Budget`). `UsageTerms` and
`CheckTerms` are the sums in seconds; a budget is the sum and its tenth, and so is in
tenths of a second. The operator's own `check_timeout` is taken as it is, with no
tenth, as `check_command_timeout` does.

**QuotaReadings** has one operator per normalizer, per capture and for the strict
reader of stored readings. A report is a window per period, and of a window the
code tells apart whether it is there, whether its percentage is a number, which,
and whether its reset can be used. An operator yields the set of readings it makes
of a report: one, or none when the code rejects it.

**QuotaCollection** walks the ladders: `walk` is the provider and tier of the
moment, with the set `up` of live tiers that would answer, which the code learns
one call at a time. A walk for the card stops at the first reading, one for the
schedule at the first live one. What a file of an earlier command holds is chosen
when it is read.

**ModelAttempt** goes through a chain. What a turn did (`billed`) and what the
client reports of it (reply, completion, tokens, reasoning, the handshake's error)
are different fields, and the code sees the second only; `answered` counts the
turns that anchored the window. A write that
fails after an answer raises and the next channel runs: `lost` counts these, and
`SpentOnce` allows one more answer for each. Two outside facts are assumed: a turn
whose diagnostics show the handshake error and no tokens was not billed (the
reason `agy_exec.py` gives for its free retries), and a codex turn with reasoning
tokens does not count as the answer, which is what the code's own profile says.

**Delivery** reads six credentials, gets a token and posts; a post that times out
may arrive later (`Arrive`), and Feishu (external) shows one message per request
id.

**CheckRuntime** is the order in which `app.py` uses the three: retry burst,
collection, card, due burst, collection, card; or a usage's collection and card.
Inside a burst `todo` holds the providers still to be prepared, or attempted, and
`First` takes them in the order of the plan. Which providers owe a retry and which are due is Application's business and free
here. Every call takes as long as its own deadline lets it, local computation
takes none. The attempts of a round run at once and share nothing, so they are
stepped one by one and the round costs what the longest may.

**OwnedProcess** has the process tree (external: it forks, detaches, exits as it
likes and need not heed SIGTERM), the tracker's snapshots and `stop` and `close`
under the guard. **UsageListener** puts the listener's main thread, its worker and
a signal at any point around it. The exception that serve's signal handler raises
does one of two things. Between two handlers it leaves the SDK's `run()`
(`SignalInLoop`). Inside a handler it ends that handler only (`SignalInHandler`): the
handler runs in an asyncio task, and a task keeps every BaseException but
KeyboardInterrupt and SystemExit, so the loop goes on (external: asyncio's own rule).
What the handler had done stays done, the slot it took included. `stop` is serve's
event, which nobody reads while the listener runs. Left out: the SDK's own tasks,
which would keep a signal in the same way, and a second signal between the end of
`run()` and `listening = False`, which would raise out of serve. Its specification is
`ListenerSpec`; the names it would share with TaskOrchestrator carry the word, so that
one proof module can extend both.

## 3. Runs

| run | module / cfg | what it shows |
|---|---|---|
| `provider_schedule` | MCProviderSchedule | the policy's invariants and action properties under every sequence of readings, commands and crashes |
| `rolling_window` | RollingWindow | a rolling reset never moves the anchor when stamps are prompt |
| `rolling_window_late` (violation) | RollingWindowLate | with a late stamp it does: see Findings |
| `state_store` | StateStore | slots: crashes re-run and never lose; the document store implements ProviderSchedule |
| `application` | Application | three processes, locks, crash: exclusion, refinement, liveness |
| `application_roster` | ApplicationRoster | two providers in one check beside a usage; a retry that recovers one of them reports it |
| `task_orchestrator` | TaskOrchestrator | the host's safety and liveness |
| `backend_authority` | BackendAuthority | the owner is current and no reader mixes reigns, under switches, seeds and deaths |
| `activation_journal` | ActivationJournal | edits, applies and checks around the journals, with a death between publications: a resumption is neither skipped nor forged |
| `check_runtime` | MCCheckRuntime | whole commands at their slowest: the budget pays for them, answers are bought once, live readings win, one card |
| `usage_listener` | UsageListener | messages, worker, process tree and a signal at any moment: nothing is left running after a stop; until a signal comes, a busy slot has its query and comes back |
| `listener_slot_lost` (violation) | ListenerSlotLost | a signal inside a handler loses the slot, and the stop it asked for: see Findings |

**Bounds.** In `provider_schedule` the unit is about a minute: buffer 1, near
movement 1, run interval 4, window 5, candidate age 2, agreement 1, `MaxTime` 6.
These keep the order of the real constants (buffer < interval < window, agreement
< age), so each comparison of `sync_deadline` has both outcomes and both sides
of its boundary, and seven instants are enough for accept, park, confirm, mature,
run and the next window. `rolling_window` needs a candidate to be
parked, aged and compared twice, hence age 3 and `MaxTime` 9. The store run uses
window 2 and `MaxTime` 4: a commit touches at most all eight slots whatever the
times are, and two generations fit; the comparisons of the policy with a window
longer than the interval are `provider_schedule`'s. `application` uses the coarsest clock (the
unit is the run interval), because the policy's arithmetic is checked elsewhere;
two attempt rounds, one crash and one process of each command give every pair of
interleaved commands, and a second check is the same process begun again.
`application_roster` trades the runner for a second provider.
`task_orchestrator` has a grid of 3, a recheck of 2, backoffs of 1 and a check
bound of 4: the check outlasts a slot, the recheck is shorter than the grid and
longer than the backoff, so that none of the four can stand in for another.
`MaxDue` bounds how far ahead a deadline lies, and `moved` lets others move it
once between two ticks.

`backend_authority` has two providers (a pass can be cut between them), one process
of each kind (`run.lock` keeps a second holder out anyway; a reader and a seeder
beside it make every lock-free race with it), three switches after the first
manifest (cutover, rollback, cutover: the same backend in two epochs), two
commits and two read attempts.

`activation_journal` has one provider (the journals treat each by itself), two
editors, so that one finds its profile changed under it, two saved edits (off and
on), one death, and a check by hand beside one of the host.

`check_runtime` has the shipped defaults of `config/defaults.py` for every timeout
and count, and three plans that between them have all four providers, all
channels and tiers, with and without notification: {codex, opencode},
{antigravity, clinepass}, and a usage over all four. A percentage is 0, 40 or 104:
inside, at the edge and beyond what the readers accept. `MaxLost` allows one lost
answer per provider and command.
The invariant compares with what the host gives, tenth included
(`10 * elapsed <= budget`, in tenths of a second): preparation is in the sum for the
first channel of a chain only, while a preparation that fails goes on to the next,
and the tenth pays for that (section 4 says for which settings).
Each part by itself stays within the exact share the sum names.

`usage_listener` has two messages and two deliveries (so a message comes twice, or
two come at once), a cache of one id (so it evicts), and a query that forks twice:
one descendant stays in the group and one detaches. A signal may come again and
again. `listener_slot_lost` shares these bounds.

`CHECK_DEADLOCK FALSE` appears where `MaxTime` stops the clock: nothing is left to
happen at the last instant to a provider with nothing owed. It appears in
`activation_journal` because edits and deaths are bounded and an editor with a
dead profile has nothing to do, in `check_runtime` because a command ends, and in
the listener's runs because a stopped host does nothing. `Application`,
`TaskOrchestrator` and `BackendAuthority` are checked for deadlock.

**Fairness.** `Application`: a process that has begun goes on (weak fairness of its
steps: the operating system schedules it); `check` is started again and again and
gets a lock that is free again and again (strong fairness of `CheckStart` and
`CheckProbe`: the timer and the watchdog call it for ever, so some tick falls into
a moment when the lock is free). Nobody is obliged to call `run` or `usage`.
`DueIsAttempted` is conditional on usage requests pausing, because `check` tries
`quota.lock` without waiting (`app.py:428-447`). `TaskOrchestrator`: threads run
(weak), time passes while the machine is awake and an insert or a spawn does not
fail for ever (strong). Nothing obliges a deadline, the child, the operator or a
usage worker to move. `stop` joins for ten seconds: the join gives up only on a
thread that waits. `UsageListener`: each of the two threads goes on, and a stop that
waits for its processes ends with SIGKILL when its grace is over (weak fairness of
the steps that leave a wait). `capture_owned` has a deadline and ends whatever the
query does. Nothing is assumed of messages, of signals, of the tracker or of the
processes.

## 4. Proofs

Every safety property of a passing run is the statement of a theorem. Each proof has
the same plan: an inductive invariant stronger than what is promised, first put to
TLC on the instances of the module's run; one lemma per action or group of actions
that keeps it; and a last step in temporal logic.

| module | theorems |
|---|---|
| ProviderSchedule_proofs | `TypeCorrect`, `NearMovementIsTethered`, `CandidateIsFar`, `DeadlineIsBounded`, `SuccessIsNotRepeated`, `AttemptIsOwed`, `CommittedDeadlineIsKept`, `DebtIsPaid`, `PostponementIsConfirmed`; of RollingWindow `RollingAnchorStays`, `ParkedCandidateRolls` |
| StateStore_proofs | `TypeCorrect`, `SuccessReruns`, `DebtIsOnDisk`, `OwedIsPaid`, `DocumentIsAtomic` (refinement) |
| Application_proofs | `TypeCorrect`, `OneProcessWrites`, `RecoveryIsReported`, `RetryWaitsForGap`, `ProviderIsScheduled` (refinement) |
| Host_proofs | `TypeCorrect`, `StopLeavesNoCheck`, `DeadlineIsPrompt`, `GapIsBounded`, `SlotIsServedOnce`, `RunningRowHasWorker`; of UsageListener `QueryNeverOutlivesHost`, `SlotIsExclusive`, `BusySlotHasQuery` |
| BackendAuthority_proofs | `TypeCorrect`, `OwnerStaysCurrent`, `RosterComesFromOneEpoch`, `NoAlarmIsRaised` |
| ActivationJournal_proofs | `TypeCorrect`, `ResumptionComesFirst`, `NewerEditIsKept` |
| CheckRuntime_proofs | `ShownOnce`, `DeliversInTime`, `CollectsForTheSchedule`, `StoredIsReadBack`, `AskedOnce`, `CollectsInTime`, `AttemptsInTime`, `CommandsKeepTheirBudget` |

The bounds of the modules (`MaxTime`, `MaxCrashes`, `MaxEdits`, ...) appear in
guards only, so the theorems hold for whatever bound is chosen.

**Assumptions.** Constants are typed. Beyond that:
`PolicyAssumption` and `UnsetAssumption` give the order of the timing constants at
the head of `policy.py`; `PromptStamps` (agreement + lag < age) is a hypothesis of
`RollingAnchorStays` alone, and a run shows it is needed; `BackoffAssumption` says
that the host retries a failed iteration within one slot of the grid (60 s and
900 s, constants of `task_orchestrator.py`); `BudgetAssumption` that settings are
natural numbers and that timeouts and numbers of attempts are not zero
(`config/store.py` refuses zero for these);
`PlansAssumption` that a plan has the fields it has, names a provider once, opens
only what it probes, and has no empty chain or ladder (`runtime/selection.py`,
`config/store.py`); `Covers` is a hypothesis of `CommandsKeepTheirBudget` alone (see
below), and `MCCheckRuntime` evaluates it for the shipped defaults;
`OneOfProviders` names the provider the refinement is about, any one.

**ProviderSchedule.** `Tethered`, `NeverBeyondHorizon` and
the others are not inductive by themselves: `Tethered` needs that the trusted
reset was plausible when accepted and that no recorded instant is ahead of the
clock, `NoRerunStorm` needs `Tethered`. The inductive invariant is one
predicate on a state and a time,

    Sound(s, t) == s \in ProviderState /\ PastIsPast(s, t) /\ TetheredState(s)
                   /\ CandidateState(s) /\ DueState(s, t)

and the proof has one lemma per policy operator saying it preserves `Sound`
(`AcceptSound`, `ParkSound`, `SyncSound`, `EvaluateSound`, `SuccessSound`,
`ReanchorSound`, ...), one that time does (`LaterSound`), and one step per action
(`StepInvariant`). The action properties follow from the same invariant.
RollingWindow adds what a candidate looks like in front of a rolling reset
(`CandidateRolls`): two of them cannot agree at a distance.

**StateStore.** `InFlight` says which call is under way, with the guard it was made
under, the result the policy computed and how much of it is left to publish.
`Between` says where the disk is meanwhile: a document is still the old one; of the
slots the deadline is still the old one, and the debt is the old or the new.
`SlotOrder` and `OneMutation` are the arithmetic of the canonical order behind it.
From it follow the three properties about crashes:
`SuccessReruns` (the deadline goes last), `DebtIsOnDisk` (the debt is there before
the model) and `OwedIsPaid` (the task is stamped before the debt is retired).
`DocumentIsAtomic` is the refinement. The schedule sees a call when its document
is published: before that the disk is the old state and the step stutters
(`Unseen`), and the publication is the whole call (`ImplementsPublish`). Two calls
publish two documents, a resumption and the synchronisation after a run. A crash
between these two is a cut the schedule names (`PostRunCut`), or a step it has
anyway.

**Application.** `LockInv` ties each phase of a process to the locks it holds, and
exclusion follows. `Coherent` says how the lists of a job belong together: who is
left to attempt has not succeeded, who is due does not owe. `PendingInv` is the
fact the code re-reads its debts for: who owes when the due decision is made was
owing when the readings were stamped, or has been resumed, because
nobody else could write in between. `ReportInv` says that whatever is unreported is
owed by the holder of `run.lock` (`Owed`: what its retry has recovered so far, or the
list it goes on with), so that the card with that list leaves nothing, and a job that
owes nothing has left nothing unreported. `ProviderIsScheduled` maps an application to
the schedule of one provider: its `burst` is the place of whoever holds `run.lock`
with it (`BurstOf`). Every step of a process that works on another provider, or
only on locks and lists, is a stutter, and a reading that was collected
earlier and is applied now has the effect of one the schedule may be given now.

**TaskOrchestrator.** One invariant in five parts. `ChildInv` follows the child
through the places where the loop and `stop` can meet (after `cancel` no child is
watched that `cancel` did not find); `RowInv` the rows; `SlotInv` the grid: after a
watchdog check the next slot is the rest of this one. `LateInv` and `GapInv` are
sums that stay bounded: what a ready deadline has waited and what is left of the
wait, and the time since the last attempt and what is left until the next.

**UsageListener** (in Host_proofs). `TrackInv`: the leader's group is known to the
tracker until the process is closed, whatever the tree does between two snapshots.
`WorkerInv` follows the worker from the last signal to the deregistration: the
group is gone before the process is closed, and closed before it is struck off.
`StopInv` is the main thread's side: commands are closed before anything is
stopped, and the thread goes on only when the group is gone. It needs that the
group of a tree that is gone stays gone (`TreeKeepsGone`), which holds because a
child is born into its parent's group. `CommandInv` ties the slot, the future and
the worker, and gives `SlotIsExclusive`. `AnswerInv` follows one submission as long as
no signal has come: whoever meets a busy slot meets a pending or running query with
its callback, because a query that ends before the callback is attached frees the slot
when it is (`BusySlotHasQuery`).

**BackendAuthority.** `OwnerIsCurrent` says nothing of a switch under way, so it is
not inductive. The invariant behind it has a part about the disk (`DiskInv`: the
owner's states are the committed ones; an installation in the making has no
manifest) and one about each process (`ProcessInv`: at a locked place it holds
`run.lock`; a commit has what the owner has; a cutover's passes have left equal
documents behind them; a reader has seen the manifest or an older epoch, and has
mixed only if older). Each action gets a lemma for the process that moves; the
others are covered by three ways in which the disk can change under them
(`UndisturbedQuiet`: documents appear; `UndisturbedHeld`: the holder of the lock
writes and the epoch does not fall; `UndisturbedUnmanaged`: there is no manifest
yet), put together in `StepOfOne`.

**ActivationJournal.** `OwedInv`: a provider switched off and not resumed is named
by the saved journal, and by the host's copy as far as the host's generation goes.
`CheckInv`, of a check that has read one of them: whom it needs not resume was not
switched off in its generation, and if the journal is still the one it read, not
since either. The second half carries `NewerEditIsKept`, because an edit gives the
journal a uuid no check has read (`CountInv`). `CrossOutStep` is the common
shape of the three acknowledgements and a resumption.

**CheckRuntime.** Three invariants over the whole composition, one per part.
`CardIInv`: every post carries one id, and what a delivery has spent at a place is
what the reads and requests up to there cost. `WalkIInv`: the ladder below the
tier of the moment has nothing live (`LadderInv`), and what is stored is sound and
not fresh (`StoredInv`). `SpentIInv`: a provider whose turn is still to come in a
burst has been answered no more often than its answers were lost (`OwedInv`), and
an attempt has at most one answer in hand (`AttemptInv`, `LedgerInv`).

The time is bounded on top of these, by one idea used three times: at every place
what a clock shows, and what the budget's sum still has from that place on, are
together no more than the whole sum. `WalkClockInv` says it of a walk and the tiers
left of its ladder (`TiersFrom`), `AttemptClockInv` of an attempt, with what its
channel may still cost where it is (`HereAt`: the preparation or not, the free
retries left, the second request) and the channels left of its chain (`Beyond`), and
`ElapsedInv` of a command: `Ceiling` is what it may have spent when it comes to a
stage, and inside a burst the preparations left (`Rest`, `Every`) or the rounds
passed (`Passed`) say the rest. The burst of the retries and the burst of those due
share nobody, so their preparations are two disjoint parts of one sum
(`SumsApart`); the last step is the arithmetic of `check_budget`, term by term
(`CheckBudget`, `CheckIsBounded`).

The sums are folds of the library. What holds of a fold over every finite set is an
induction, and the library's induction theorems cannot be instantiated here; the
first section of the module proves one for sets of numbers from the pigeonhole
principle (`SetInduction`), and from it that such a sum has a value, that any term
may be taken out first, that it grows with its set and its terms (`SumStep`,
`SumSplit`, `SumGrows`).

`WithinBudget` does not hold for all settings the program accepts. The budget
prepares the first channel of each chain twice; the command prepares the first
once, and goes on to the next when it fails. What it prepares in vain beyond that is
paid for by the second preparation of the first channel, the ten spare seconds and
the tenth. `Covers` says that these are enough, and that a deadline the operator sets
is not below the derived budget, its tenth included: nothing is added to that
deadline, and the host kills at it.
The shipped defaults satisfy it with much to spare, because the tenth is taken of
five whole attempts.

`SchedulerPolicy_proofs` holds what the proofs of ProviderSchedule, StateStore and
Application share: what each operator of the policy returns, keeps and bounds.

**Only model-checked.**

* Liveness (`DueIsAttempted`, `CommandsEnd`, `CheckForever`, `StopEnds`,
  `SlotComesBack`): fairness and ENABLED are out of the prover's reach.
* The two disagreements of section 5, which are counterexamples.

## 5. Findings

* `rolling_window_late`: `check` takes one stamp after all providers were probed
  (`app.py:449-450`), so two readings of a rolling window that were taken less
  than a minute apart can be stamped a minute apart; they agree, and the
  candidate is promoted. The README promises (lines 788-793) that a rolling value
  cannot chase the deadline. It needs a stamp later than the reading by more than
  30 s, which a slow sequential collect reaches. The effect is bounded by what
  `CommittedDeadlineHolds` says: a matured deadline is still not moved.
* `listener_slot_lost`: serve's signal handler raises `_StopServing`, a BaseException
  (`daemon.py:11`, `21-24`), in whatever the main thread is doing. In a handler of the
  listener that is a task of the SDK's loop; asyncio keeps the exception in the task
  and the loop goes on. Between the acquisition of the slot
  (`helpers/feishu_listener.py:234`) and its callback (253) it passes the
  `except Exception` of line 244 as well, and the slot stays taken. Every later
  `/usage` is then logged as "Coalescing /usage with the query already in progress",
  and there is no such query.
  The same trace loses the stop: a signal in any handler sets the event, and nobody
  reads it while the listener runs (`daemon.py:34-39`). The test
  `test_signal_stops_both_and_restores_handler`
  (`tests/python-daemon-regression.py:60-72`) has `run()` itself raise the signal,
  outside a task. A handler takes a moment and messages are rare, so it needs luck; a
  second signal between two handlers still stops the host, and `NoQueryOutlivesHost`
  holds of that stop.

Met on the way and checked by no run: `begin_attempt`'s docstring
(`policy.py:159-170`) says "debt first, then the attempt timestamp", and the slot
store publishes `last_attempt_at` first (`store.py:74-83`), so a crash between two
slots can leave the timestamp alone. Nothing owed is lost (`OwedOnlyPaid`), and no
model runs without its debt on disk (`DebtIsOnDisk`).

Met on the way too: a check by hand that loaded the profile before
an edit, and reads the journal after the edit has published it and before it has
published the profile, acknowledges that newer entry when it resumes the provider.
`NeverAcknowledgesNewerEdit` counts it as resumed, which it is.

Met when the budget was proved, and checked by no run: a plan with one round in each
burst (`initial_attempts` and `watchdog_attempts` 1), `pi_auth_timeout` and
`pi_plugin_timeout` 3600 and the providers codex, antigravity and clinepass, with Pi
second in each chain, violates the first part of `WithinBudget`: all three fall
through to Pi, whose preparations take three hours one after the other, and
`budgets.py:59-60` has one of them in each round. The configuration accepts these
values, and `docs/superpowers/plans/2026-10-02-modular-configuration.md:117` asks
that "every legal inner path is below its outer deadline". `Covers`
is false of these settings; it is sufficient, and the proof needs no more of them.

## 6. Not modelled, and the plan

* Wording and encodings: slots and documents on disk, time formats and layout of
  vendors' payloads, command lines, prompts, cards, diagnostics. Nothing the
  modules state depends on more of them than QuotaReadings keeps.
* The operating system: services, key stores, lock files (taken as mutual exclusion
  that ends with the process), Windows job objects, reuse of process numbers. A
  descendant that forks and leaves the group between two 20 ms snapshots is unknown
  to the owner and may survive; `NoQueryOutlivesHost` speaks of the query's group.
* The composition without a configuration (`runtime/factory.py`): its one-hop
  fallbacks between runners (`models.py:404-418`), its router of quota probes, and
  the budget its host computes from the environment
  (`task_orchestrator.py:163-332`). In the composition that is modelled a runner's
  `fallback` is None and the chain takes its place.
* Readings of environment overrides and validation of a profile: they reject or
  they set the constants the modules take as given.
* Of the backend switch: loss or damage of the manifest after it was written (the
  program refuses to go on), and a lock-free legacy load that sees half a commit.

What is left to prove lies outside the prover's reach (liveness); what is left to
model is the list above, first the slot-by-slot reads of a legacy load and the
composition without a configuration.
