----------------------------- MODULE Application -----------------------------
(***************************************************************************)
(* The commands of app.py as processes that share the state directory:     *)
(*   check   the scheduler tick: retry burst, due decision, due burst      *)
(*   run     a burst the operator asks for                                 *)
(*   usage   a quota card, and a recalibration if run.lock is free         *)
(* Every process takes and frees run.lock and quota.lock itself, works on  *)
(* the roster one provider at a time, and may die at any step; its locks   *)
(* die with it.  For each provider this implements ProviderSchedule, whose *)
(* one "burst" stands for whichever process is working on the provider.    *)
(*                                                                         *)
(* A commit is one step here (StateStore looks inside it).  The clock      *)
(* stamps a whole collect and does not move while the stamped readings are *)
(* being applied: a tick may pass anywhere else.  Config and journal are   *)
(* those every process read when it started; only check edits the journal. *)
(***************************************************************************)
EXTENDS SchedulerPolicy, FiniteSets

CONSTANTS
  Providers,          \* opening_providers
  Checkers,           \* processes running check, again and again
  Runners,            \* ... run
  Users,              \* ... usage
  Nobody,             \* the owner of a free lock
  INITIAL_ATTEMPTS,   \* AppConfig.initial_attempts
  WATCHDOG_ATTEMPTS,  \* AppConfig.watchdog_attempts
  RETRY_GAP,          \* AppConfig.watchdog_retry_gap
  MaxTime,            \* bound on the clock
  MaxCrashes          \* bound on the processes that die

Processes == Checkers \cup Runners \cup Users

ASSUME ApplicationAssumption ==
  /\ IsFiniteSet(Providers) /\ Nobody \notin Processes
  /\ INITIAL_ATTEMPTS \in Nat \ {0} /\ WATCHDOG_ATTEMPTS \in Nat \ {0}
  /\ RETRY_GAP \in Nat /\ MaxTime \in Nat /\ MaxCrashes \in Nat
  /\ Checkers \cap Runners = {} /\ Checkers \cap Users = {} /\ Runners \cap Users = {}

VARIABLES
  now,         \* the wall clock
  st,          \* the durable state of each provider
  trigger,     \* the configuration of each provider
  run_lock,    \* the process that holds run.lock
  quota_lock,  \* the process that holds quota.lock
  job,         \* what each process is doing
  unreported,  \* ghost: providers a running retry has paid for, on no card yet
  crashes      \* processes that have died so far

vars == <<now, st, trigger, run_lock, quota_lock, job, unreported, crashes>>

Triggers == {"enabled", "probe_only", "awaiting_resume"}

Phases ==
  {"start",                                \* not running, or waiting for its first lock
   "begin", "models", "commit", "record",  \* _burst
   "probe", "collect", "decide",           \* check, phase C
   "post", "reprobe", "calibrate",         \* _run_selected, after its burst
   "display", "sync", "recalibrate"}       \* usage

Idle ==
  [phase |-> "start", retry |-> FALSE, names |-> {}, todo |-> {}, remaining |-> {},
   round |-> 0, succeeded |-> {}, recovered |-> {}, pending |-> {}, due |-> {},
   readings |-> [p \in Providers |-> NO_OBSERVATION]]

Jobs ==
  [phase : Phases, retry : BOOLEAN, names : SUBSET Providers, todo : SUBSET Providers,
   remaining : SUBSET Providers, round : Nat, succeeded : SUBSET Providers,
   recovered : SUBSET Providers, pending : SUBSET Providers, due : SUBSET Providers,
   readings : [Providers -> QuotaObservation]]

Readings ==
  {NO_OBSERVATION} \cup {[fresh |-> TRUE, reset_at |-> r] : r \in now + 1 .. now + MAX_WINDOW}

TypeOK ==
  /\ now \in Nat /\ crashes \in Nat
  /\ st \in [Providers -> ProviderState]
  /\ trigger \in [Providers -> Triggers]
  /\ run_lock \in Processes \cup {Nobody} /\ quota_lock \in Processes \cup {Nobody}
  /\ unreported \subseteq Providers
  /\ job \in [Processes -> Jobs]

Init ==
  /\ now = 1 /\ crashes = 0
  /\ st = [p \in Providers |-> EmptyState]
  /\ trigger \in [Providers -> Triggers]
  /\ run_lock = Nobody /\ quota_lock = Nobody
  /\ job = [self \in Processes |-> Idle]
  /\ unreported = {}

-----------------------------------------------------------------------------
(* Steps all processes share.                                              *)

Become(self, j) == job' = [job EXCEPT ![self] = j]

\* The readings of a collect are being applied with the stamp it was given.
Stamped(self) == job[self].phase \in {"decide", "calibrate", "recalibrate"}

Tick ==
  /\ now < MaxTime
  /\ \A self \in Processes : ~Stamped(self)
  /\ now' = now + 1
  /\ UNCHANGED <<st, trigger, run_lock, quota_lock, job, unreported, crashes>>

\* `with` frees the locks on the way out, also when the call raises.
FreeLocks(self) ==
  /\ run_lock' = IF run_lock = self THEN Nobody ELSE run_lock
  /\ quota_lock' = IF quota_lock = self THEN Nobody ELSE quota_lock

\* The process dies, or an exception ends the command: a refused preflight, a
\* prepare or a commit that fails.  It sends no card, and nobody else will: what
\* its retry recovered is never reported, and the ghost lets go of it.
Crash(self) ==
  /\ job[self].phase # "start"
  /\ crashes < MaxCrashes
  /\ crashes' = crashes + 1
  /\ Become(self, Idle)
  /\ FreeLocks(self)
  /\ unreported' = IF run_lock = self THEN {} ELSE unreported
  /\ UNCHANGED <<now, st, trigger>>

-----------------------------------------------------------------------------
(* _burst: attempts for a roster, in rounds.                               *)

Limit(self) == IF job[self].retry THEN WATCHDOG_ATTEMPTS ELSE INITIAL_ATTEMPTS

Burst(names, retry) ==
  [Idle EXCEPT !.phase = "begin", !.retry = retry, !.names = names,
               !.todo = names, !.remaining = names, !.round = 1]

\* Mutant: the first provider of a list is taken for the whole of it.
Advance_after_first(self, p, next) ==
  Become(self, [job[self] EXCEPT !.todo = {}, !.phase = next])

\* One provider of the list `todo` is done; after the last the job goes on.
Advance(self, p, next) ==
  LET left == job[self].todo \ {p}
  IN  Become(self, [job[self] EXCEPT !.todo = left,
                                     !.phase = IF left = {} THEN next ELSE @])

BeginAttempt(self, p) ==
  /\ job[self].phase = "begin"
  /\ p \in job[self].todo
  /\ st' = [st EXCEPT ![p] = begin_attempt(@, now)]
  /\ Advance(self, p, "models")
  /\ UNCHANGED <<now, trigger, run_lock, quota_lock, unreported, crashes>>

RecordAttempt(self, p) ==
  /\ job[self].phase = "record"
  /\ p \in job[self].todo
  /\ st' = [st EXCEPT ![p] = record_attempt(@, now)]
  /\ Advance(self, p, "models")
  /\ UNCHANGED <<now, trigger, run_lock, quota_lock, unreported, crashes>>

\* The models of the round run side by side; `won` are those that succeed.
RunModels(self, won) ==
  /\ job[self].phase = "models"
  /\ won \subseteq job[self].remaining
  /\ Become(self, [job[self] EXCEPT !.phase = "commit", !.todo = won])
  /\ UNCHANGED <<now, st, trigger, run_lock, quota_lock, unreported, crashes>>

CommitSuccess(self, p) ==
  /\ job[self].phase = "commit"
  /\ p \in job[self].todo
  /\ st' = [st EXCEPT ![p] = commit_success(@, now)]
  /\ Become(self, [job[self] EXCEPT !.todo = @ \ {p}, !.remaining = @ \ {p},
                                    !.succeeded = @ \cup {p}])
  /\ unreported' = IF job[self].retry THEN unreported \cup {p} ELSE unreported
  /\ UNCHANGED <<now, trigger, run_lock, quota_lock, crashes>>

\* Mutant: the round is not counted, so a model that fails is run for ever.
NextRound_uncounted(self) ==
  /\ job[self].phase = "commit" /\ job[self].todo = {}
  /\ job[self].remaining # {} /\ job[self].round < Limit(self)
  /\ Become(self, [job[self] EXCEPT !.phase = "record", !.todo = job[self].remaining])
  /\ UNCHANGED <<now, st, trigger, run_lock, quota_lock, unreported, crashes>>

NextRound(self) ==
  /\ job[self].phase = "commit" /\ job[self].todo = {}
  /\ job[self].remaining # {} /\ job[self].round < Limit(self)
  /\ Become(self, [job[self] EXCEPT !.phase = "record", !.todo = job[self].remaining,
                                    !.round = @ + 1])
  /\ UNCHANGED <<now, st, trigger, run_lock, quota_lock, unreported, crashes>>

\* Mutant: a retry that recovers some providers and not all has no list of them.
EndBurst_all_or_none(self) ==
  /\ job[self].phase = "commit" /\ job[self].todo = {}
  /\ job[self].remaining = {} \/ job[self].round = Limit(self)
  /\ Become(self, IF job[self].retry
                  THEN [Idle EXCEPT !.phase = "probe",
                          !.recovered = IF job[self].remaining = {} THEN job[self].succeeded ELSE {}]
                  ELSE [Idle EXCEPT !.phase = "post", !.succeeded = job[self].succeeded])
  /\ UNCHANGED <<now, st, trigger, run_lock, quota_lock, unreported, crashes>>

\* check goes on from its retry burst with the list of what that has recovered.
AfterRetry(j) == [Idle EXCEPT !.phase = "probe", !.recovered = j.succeeded]

\* Any other burst is calibrated.
EndBurst(self) ==
  /\ job[self].phase = "commit" /\ job[self].todo = {}
  /\ job[self].remaining = {} \/ job[self].round = Limit(self)
  /\ Become(self, IF job[self].retry
                  THEN AfterRetry(job[self])
                  ELSE [Idle EXCEPT !.phase = "post", !.succeeded = job[self].succeeded])
  /\ UNCHANGED <<now, st, trigger, run_lock, quota_lock, unreported, crashes>>

-----------------------------------------------------------------------------
(* check.                                                                  *)

\* Mutant: a tick goes ahead although run.lock is busy.
CheckStart_unlocked(self) ==
  /\ job[self].phase = "start"
  /\ run_lock' = self
  /\ LET retry == {p \in Providers : trigger[p] = "enabled" /\ retry_due(st[p], now, RETRY_GAP)}
     IN  Become(self, IF retry = {} THEN [Idle EXCEPT !.phase = "probe"] ELSE Burst(retry, TRUE))
  /\ UNCHANGED <<now, st, trigger, quota_lock, unreported, crashes>>

\* Unpaid debts whose gap has passed come first.  With run.lock busy the tick
\* is skipped: nothing happens.
CheckStart(self) ==
  /\ job[self].phase = "start"
  /\ run_lock = Nobody
  /\ run_lock' = self
  /\ LET retry == {p \in Providers : trigger[p] = "enabled" /\ retry_due(st[p], now, RETRY_GAP)}
     IN  Become(self, IF retry = {} THEN [Idle EXCEPT !.phase = "probe"] ELSE Burst(retry, TRUE))
  /\ UNCHANGED <<now, st, trigger, quota_lock, unreported, crashes>>

CheckProbe(self) ==
  /\ job[self].phase = "probe"
  /\ quota_lock = Nobody
  /\ quota_lock' = self
  /\ Become(self, [job[self] EXCEPT !.phase = "collect"])
  /\ UNCHANGED <<now, st, trigger, run_lock, unreported, crashes>>

\* notifier.task(recovered, ...): the card names the providers of that list.
card(recovered) == unreported' = unreported \ recovered

\* Another process is probing: no decision, but recovered retries are reported.
CheckQuotaBusy(self) ==
  /\ job[self].phase = "probe"
  /\ quota_lock # Nobody
  /\ Become(self, Idle)
  /\ FreeLocks(self)
  /\ card(job[self].recovered)
  /\ UNCHANGED <<now, st, trigger, crashes>>

\* Mutant: only the debts whose gap has passed are kept out of the decision.
CheckCollect_gap_filtered(self, readings) ==
  /\ job[self].phase = "collect"
  /\ Become(self, [job[self] EXCEPT
       !.phase = "decide", !.todo = Providers, !.readings = readings,
       !.pending = {p \in Providers : retry_due(st[p], now, RETRY_GAP)}])
  /\ UNCHANGED <<now, st, trigger, run_lock, quota_lock, unreported, crashes>>

\* The readings get one stamp, and the pending debts are read again.
CheckCollect(self, readings) ==
  /\ job[self].phase = "collect"
  /\ Become(self, [job[self] EXCEPT
       !.phase = "decide", !.todo = Providers, !.readings = readings,
       !.pending = {p \in Providers : st[p].retry_pending}])
  /\ UNCHANGED <<now, st, trigger, run_lock, quota_lock, unreported, crashes>>

\* One provider of the roster: resumed, kept ahead, skipped or decided.
Decide(self, p) ==
  LET obs   == job[self].readings[p]
      reset == valid_reset_at(obs, now)
      resumes == trigger[p] = "awaiting_resume" /\ reset # Unset
      decides == trigger[p] = "enabled" /\ p \notin job[self].pending
  IN  /\ job[self].phase = "decide"
      /\ p \in job[self].todo
      /\ st' = [st EXCEPT ![p] =
                  IF trigger[p] = "probe_only" \/ resumes
                  THEN reanchor_probe_only(@, obs, now)
                  ELSE IF decides THEN evaluate_due(@, obs, now) ELSE @]
      /\ trigger' = [trigger EXCEPT ![p] = IF resumes THEN "enabled" ELSE @]
      /\ Become(self, [job[self] EXCEPT
           !.todo = @ \ {p},
           !.due = IF decides /\ run_now(st[p], obs, now) THEN @ \cup {p} ELSE @])
      /\ UNCHANGED <<now, run_lock, quota_lock, unreported, crashes>>

\* quota.lock is freed, recovered retries are reported, and what is due runs.
EndDecide(self) ==
  /\ job[self].phase = "decide" /\ job[self].todo = {}
  /\ quota_lock' = Nobody
  /\ card(job[self].recovered)
  /\ IF job[self].due = {}
     THEN Become(self, Idle) /\ run_lock' = Nobody
     ELSE Become(self, Burst(job[self].due, FALSE)) /\ UNCHANGED run_lock
  /\ UNCHANGED <<now, st, trigger, crashes>>

-----------------------------------------------------------------------------
(* run, and what _run_selected does after its burst.                       *)

RunStart(self, names) ==
  /\ job[self].phase = "start"
  /\ run_lock = Nobody
  /\ names # {} /\ \A p \in names : trigger[p] # "probe_only"
  /\ run_lock' = self
  /\ Become(self, Burst(names, FALSE))
  /\ UNCHANGED <<now, st, trigger, quota_lock, unreported, crashes>>

PostProbe(self) ==
  /\ job[self].phase = "post"
  /\ quota_lock = Nobody
  /\ quota_lock' = self
  /\ Become(self, [job[self] EXCEPT !.phase = "reprobe"])
  /\ UNCHANGED <<now, st, trigger, run_lock, unreported, crashes>>

\* quota_wait ran out: the fallback deadlines remain.
PostTimeout(self) ==
  /\ job[self].phase = "post"
  /\ quota_lock # Nobody
  /\ Become(self, Idle)
  /\ FreeLocks(self)
  /\ UNCHANGED <<now, st, trigger, unreported, crashes>>

PostCollect(self, readings) ==
  /\ job[self].phase = "reprobe"
  /\ Become(self, [job[self] EXCEPT !.phase = "calibrate", !.todo = job[self].succeeded,
                                    !.readings = readings])
  /\ UNCHANGED <<now, st, trigger, run_lock, quota_lock, unreported, crashes>>

Calibrate(self, p) ==
  /\ job[self].phase = "calibrate"
  /\ p \in job[self].todo
  /\ LET obs   == job[self].readings[p]
         reset == valid_reset_at(obs, now)
     IN  st' = [st EXCEPT ![p] = IF reset # Unset
                                 THEN sync_deadline(record_last_window(@, reset), obs, now)
                                 ELSE @]
  /\ Become(self, [job[self] EXCEPT !.todo = @ \ {p}])
  /\ UNCHANGED <<now, trigger, run_lock, quota_lock, unreported, crashes>>

EndCalibrate(self) ==
  /\ job[self].phase = "calibrate" /\ job[self].todo = {}
  /\ Become(self, Idle)
  /\ FreeLocks(self)
  /\ UNCHANGED <<now, st, trigger, unreported, crashes>>

-----------------------------------------------------------------------------
(* usage.  Waiting for quota.lock and giving up leaves no trace.           *)

UsageProbe(self) ==
  /\ job[self].phase = "start"
  /\ quota_lock = Nobody
  /\ quota_lock' = self
  /\ Become(self, [Idle EXCEPT !.phase = "display"])
  /\ UNCHANGED <<now, st, trigger, run_lock, unreported, crashes>>

\* quota.lock is freed before run.lock is tried.
UsageCollect(self, readings) ==
  /\ job[self].phase = "display"
  /\ quota_lock' = Nobody
  /\ Become(self, [Idle EXCEPT !.phase = "sync", !.readings = readings])
  /\ UNCHANGED <<now, st, trigger, run_lock, unreported, crashes>>

\* Mutant: the deadlines are recalibrated beside a running scheduler.
UsageSync_unlocked(self) ==
  /\ job[self].phase = "sync"
  /\ Become(self, [job[self] EXCEPT !.phase = "recalibrate", !.todo = Providers])
  /\ UNCHANGED <<now, st, trigger, run_lock, quota_lock, unreported, crashes>>

UsageSync(self) ==
  /\ job[self].phase = "sync"
  /\ run_lock = Nobody
  /\ run_lock' = self
  /\ Become(self, [job[self] EXCEPT !.phase = "recalibrate", !.todo = Providers])
  /\ UNCHANGED <<now, st, trigger, quota_lock, unreported, crashes>>

UsageRunBusy(self) ==
  /\ job[self].phase = "sync"
  /\ run_lock # Nobody
  /\ Become(self, Idle)
  /\ UNCHANGED <<now, st, trigger, run_lock, quota_lock, unreported, crashes>>

\* _sync, with the reading taken before run.lock was.
Recalibrate(self, p) ==
  /\ job[self].phase = "recalibrate"
  /\ p \in job[self].todo
  /\ LET obs == job[self].readings[p]
     IN  st' = [st EXCEPT ![p] = IF trigger[p] = "probe_only"
                                 THEN reanchor_probe_only(@, obs, now)
                                 ELSE sync_deadline(@, obs, now)]
  /\ Become(self, [job[self] EXCEPT !.todo = @ \ {p}])
  /\ UNCHANGED <<now, trigger, run_lock, quota_lock, unreported, crashes>>

EndUsage(self) ==
  /\ job[self].phase = "recalibrate" /\ job[self].todo = {}
  /\ Become(self, Idle)
  /\ FreeLocks(self)
  /\ UNCHANGED <<now, st, trigger, unreported, crashes>>

-----------------------------------------------------------------------------
\* A process that has begun takes its next step.
BurstStep(self) ==
  \/ \E p \in Providers : \/ BeginAttempt(self, p)
                          \/ RecordAttempt(self, p)
                          \/ CommitSuccess(self, p)
  \/ \E won \in SUBSET Providers : RunModels(self, won)
  \/ NextRound(self)
  \/ EndBurst(self)

PostStep(self) ==
  \/ PostProbe(self)
  \/ PostTimeout(self)
  \/ \E readings \in [Providers -> Readings] : PostCollect(self, readings)
  \/ \E p \in Providers : Calibrate(self, p)
  \/ EndCalibrate(self)

CheckStep(self) ==
  \/ CheckProbe(self)
  \/ CheckQuotaBusy(self)
  \/ \E readings \in [Providers -> Readings] : CheckCollect(self, readings)
  \/ \E p \in Providers : Decide(self, p)
  \/ EndDecide(self)

UsageStep(self) ==
  \/ \E readings \in [Providers -> Readings] : UsageCollect(self, readings)
  \/ UsageSync(self)
  \/ UsageRunBusy(self)
  \/ \E p \in Providers : Recalibrate(self, p)
  \/ EndUsage(self)

Next ==
  \/ Tick
  \/ \E self \in Processes : Crash(self)
  \/ \E self \in Checkers : CheckStart(self) \/ CheckStep(self)
  \/ \E self \in Checkers \cup Runners : BurstStep(self) \/ PostStep(self)
  \/ \E self \in Runners, names \in SUBSET Providers : RunStart(self, names)
  \/ \E self \in Users : UsageProbe(self) \/ UsageStep(self)

Spec == Init /\ [][Next]_vars

\* A process that has begun goes on.  The timer and the watchdog start check
\* again and again, and a tick that finds a lock free now and then gets it in
\* the end; nobody is obliged to call run or usage.
Fairness ==
  /\ \A self \in Checkers :
       /\ WF_vars(CheckStep(self)) /\ WF_vars(BurstStep(self)) /\ WF_vars(PostStep(self))
       /\ SF_vars(CheckStart(self)) /\ SF_vars(CheckProbe(self))
  /\ \A self \in Runners : WF_vars(BurstStep(self)) /\ WF_vars(PostStep(self))
  /\ \A self \in Users : WF_vars(UsageStep(self))

FairSpec == Spec /\ Fairness
-----------------------------------------------------------------------------
\* run.lock and quota.lock are what keep these apart: at most one process
\* writes provider state, and at most one probes.
Writing == {"begin", "models", "commit", "record", "decide", "post", "calibrate", "recalibrate"}
Probing == {"collect", "reprobe", "display"}

OneAtATime ==
  \A a, b \in Processes :
    /\ job[a].phase \in Writing /\ job[b].phase \in Writing => a = b
    /\ job[a].phase \in Probing /\ job[b].phase \in Probing => a = b

\* Where the process that works on provider p is with it.
BurstOf(p) ==
  LET In(phases) == {j \in {job[self] : self \in Processes} : j.phase \in phases}
  IN  IF \E j \in In({"begin"}) : p \in j.todo THEN "selected"
      ELSE IF \E j \in In({"decide"}) : p \in j.due THEN "selected"
      ELSE IF \E j \in In({"begin", "models", "commit", "record"}) : p \in j.remaining
      THEN "attempting"
      ELSE IF \E j \in In({"commit", "record", "models", "post", "reprobe"}) : p \in j.succeeded
      THEN "calibrating"
      ELSE IF \E j \in In({"calibrate"}) : p \in j.todo THEN "calibrating"
      ELSE "idle"

\* check's comment on a recovered retry: its debt is paid, so a tick that ends
\* without sending its card has made it invisible for ever.  When a check has
\* ended by itself, its card has named every provider that its retry recovered,
\* in whatever round; one that dies or raises sends none (see Crash).
RecoveredIsReported == run_lock = Nobody => unreported = {}

\* app.py's comment on the pending debts it reads again: a check makes a first
\* attempt at an owing provider only when the gap since the last one has
\* passed, whether its burst is a retry or what its decision made due.
GapIsKept ==
  \A self \in Checkers : job[self].phase = "begin" =>
    \A p \in job[self].todo : st[p].retry_pending => retry_due(st[p], now, RETRY_GAP)

\* What is due is attempted in the end, whoever else takes run.lock and dies.
\* A tick does not wait for quota.lock, so /usage requests without end could
\* starve it; the promise is for when they pause.
UsagePauses == <>[](\A self \in Users : job[self].phase = "start")

DueIsAttempted ==
  UsagePauses =>
    \A p \in Providers :
      (trigger[p] = "enabled" /\ matured(st[p], now)) ~> st[p].retry_pending

\* Every command ends: no wait for a lock, no round of a burst lasts for ever.
CommandsEnd ==
  \A self \in Processes : (job[self].phase # "start") ~> (job[self].phase = "start")
=============================================================================
