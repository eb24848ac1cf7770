------------------------- MODULE Application_proofs -------------------------
(***************************************************************************)
(* Theorems about Application, for any number of processes and providers,  *)
(* every bound and every timing constant: the locks keep the processes     *)
(* apart, a recovered retry is reported, the retry gap is kept, and what   *)
(* happens to a provider, whoever does it, is ProviderSchedule.            *)
(***************************************************************************)
EXTENDS MCApplication, SchedulerPolicy_proofs, TLAPS

-----------------------------------------------------------------------------
(* The inductive invariant.                                                *)

\* Where run.lock, or quota.lock, is held.
RunHeld ==
  {"begin", "models", "commit", "record", "probe", "collect", "decide",
   "post", "reprobe", "calibrate", "recalibrate"}
QuotaHeld == {"collect", "decide", "reprobe", "calibrate", "display"}

LockInv ==
  \A self \in Processes :
    /\ job[self].phase \in RunHeld <=> run_lock = self
    /\ job[self].phase \in QuotaHeld <=> quota_lock = self

InBurst == {"begin", "models", "commit", "record"}

\* How the lists of a job belong together.
Coherent(j) ==
  /\ j.phase \in InBurst => j.remaining \cap j.succeeded = {}
  /\ j.phase \in {"begin", "commit", "record"} => j.todo \subseteq j.remaining
  /\ j.phase = "begin" => j.succeeded = {}
  /\ j.phase \in {"probe", "collect"} => j.due = {}
  /\ j.phase = "decide" => j.todo \cap j.due = {} /\ j.due \cap j.pending = {}

\* Who owed when the readings were stamped still owes, or has been resumed.
PendingInv ==
  \A self \in Processes : job[self].phase = "decide" =>
    \A p \in Providers : st[p].retry_pending => p \in job[self].pending

\* What a job is still to put on a card: what its retry burst has recovered so
\* far and, after that burst, the list it goes on with.
Owed(j) ==
  IF j.phase \in InBurst /\ j.retry THEN j.succeeded
  ELSE IF j.phase \in {"probe", "collect", "decide"} THEN j.recovered
  ELSE {}

ReportInv ==
  \A self \in Processes : job[self].phase \in RunHeld => unreported \subseteq Owed(job[self])

IInv ==
  /\ TypeOK
  /\ LockInv
  /\ \A self \in Processes : Coherent(job[self])
  /\ PendingInv
  /\ ReportInv
  /\ RecoveredIsReported
  /\ GapIsKept


-----------------------------------------------------------------------------
(* One step of one process.                                                *)

\* A lock stays where it is, is taken when free, or is freed.
Handed(lock, next, self) ==
  \/ next = lock
  \/ lock = Nobody /\ next = self
  \/ lock = self /\ next = Nobody

\* self goes on to j, and holds the locks j needs.
Moves(self, j) ==
  /\ Become(self, j)
  /\ j \in Jobs /\ Coherent(j)
  /\ Handed(run_lock, run_lock', self) /\ (j.phase \in RunHeld <=> run_lock' = self)
  /\ Handed(quota_lock, quota_lock', self) /\ (j.phase \in QuotaHeld <=> quota_lock' = self)

\* What it does to the providers: nothing, unless it holds run.lock.
Writes(self) ==
  /\ now' = now /\ crashes' \in Nat
  /\ st' \in [Providers -> ProviderState] /\ trigger' \in [Providers -> Triggers]
  /\ unreported' \subseteq Providers
  /\ run_lock # self => st' = st /\ unreported' \subseteq unreported

\* What j owes the invariant.
Keeps(self, j) ==
  /\ j.phase = "decide" =>
       \A p \in Providers : st'[p].retry_pending => p \in j.pending
  /\ self \in Checkers /\ j.phase = "begin" =>
       \A p \in j.todo : st'[p].retry_pending => retry_due(st'[p], now, RETRY_GAP)
  /\ run_lock' = Nobody => unreported' = {}
  /\ j.phase \in RunHeld => unreported' \subseteq Owed(j)

LEMMA LocksMove ==
  ASSUME IInv, NEW self \in Processes, NEW j, Moves(self, j)
  PROVE  /\ job' \in [Processes -> Jobs]
         /\ run_lock' \in Processes \cup {Nobody} /\ quota_lock' \in Processes \cup {Nobody}
         /\ LockInv'
         /\ job'[self] = j
         /\ \A other \in Processes \ {self} :
              /\ job'[other] = job[other]
              /\ run_lock \in {self, Nobody} /\ run_lock' \in {self, Nobody}
                   => job[other].phase \notin RunHeld
<1>1. job \in [Processes -> Jobs] /\ Nobody \notin Processes
  BY ApplicationAssumption DEF IInv, TypeOK
<1>2. job' = [job EXCEPT ![self] = j] /\ j \in Jobs
  BY DEF Moves, Become
<1>3. job' \in [Processes -> Jobs] /\ job'[self] = j
  BY <1>1, <1>2
<1>4. \A other \in Processes \ {self} : job'[other] = job[other]
  BY <1>1, <1>2
<1>5. run_lock' \in Processes \cup {Nobody} /\ quota_lock' \in Processes \cup {Nobody}
  BY DEF Moves, Handed, IInv, TypeOK
<1>6. LockInv'
  <2> SUFFICES ASSUME NEW other \in Processes
               PROVE  /\ job'[other].phase \in RunHeld <=> run_lock' = other
                      /\ job'[other].phase \in QuotaHeld <=> quota_lock' = other
    BY DEF LockInv
  <2>1. CASE other = self
    BY <1>3, <2>1 DEF Moves
  <2>2. CASE other # self
    BY <1>1, <1>4, <2>2 DEF Moves, Handed, IInv, LockInv
  <2>3. QED
    BY <2>1, <2>2
<1>7. ASSUME NEW other \in Processes \ {self},
             run_lock \in {self, Nobody}, run_lock' \in {self, Nobody}
      PROVE  job[other].phase \notin RunHeld
  BY <1>1, <1>7 DEF IInv, LockInv
<1>8. QED
  BY <1>3, <1>4, <1>5, <1>6, <1>7

LEMMA MoveKeepsInvariant ==
  ASSUME IInv, NEW self \in Processes, NEW j, Moves(self, j), Writes(self), Keeps(self, j)
  PROVE  IInv'
<1>1. /\ job' \in [Processes -> Jobs] /\ job'[self] = j /\ LockInv'
      /\ \A other \in Processes \ {self} : job'[other] = job[other]
  BY LocksMove
<1>2. TypeOK'
  BY <1>1, LocksMove DEF TypeOK, IInv, Writes
<1>3. \A other \in Processes : Coherent(job'[other])
  BY <1>1 DEF Moves, IInv
<1>4. \A other \in Processes \ {self} :
        job[other].phase \in RunHeld => st' = st /\ unreported' \subseteq unreported
  BY DEF IInv, LockInv, Writes
<1>5. ASSUME NEW other \in Processes, job'[other].phase = "decide",
             NEW p \in Providers, st'[p].retry_pending
      PROVE  p \in job'[other].pending
  <2>1. CASE other = self
    BY <1>1, <1>5, <2>1 DEF Keeps
  <2>2. CASE other # self
    BY <1>1, <1>4, <1>5, <2>2 DEF RunHeld, IInv, PendingInv
  <2>3. QED
    BY <2>1, <2>2
<1>6. ASSUME NEW other \in Processes, job'[other].phase \in RunHeld
      PROVE  unreported' \subseteq Owed(job'[other])
  <2>1. CASE other = self
    BY <1>1, <1>6, <2>1 DEF Keeps
  <2>2. CASE other # self
    <3>1. job'[other] = job[other] /\ unreported \subseteq Owed(job[other])
      BY <1>1, <1>6, <2>2 DEF IInv, ReportInv
    <3>2. QED
      BY <1>4, <1>6, <2>2, <3>1
  <2>3. QED
    BY <2>1, <2>2
<1>7. run_lock' = Nobody => unreported' = {}
  BY DEF Keeps
<1>8. ASSUME NEW other \in Checkers, job'[other].phase = "begin",
             NEW p \in job'[other].todo, st'[p].retry_pending
      PROVE  retry_due(st'[p], now', RETRY_GAP)
  <2>1. CASE other = self
    BY <1>1, <1>8, <2>1 DEF Keeps, Writes
  <2>2. CASE other # self
    <3>1. other \in Processes
      BY DEF Processes
    <3>2. job'[other] = job[other] /\ st' = st
      BY <1>1, <1>4, <1>8, <2>2, <3>1 DEF RunHeld
    <3>3. QED
      BY <1>8, <3>2 DEF IInv, GapIsKept, Writes
  <2>3. QED
    BY <2>1, <2>2
<1>9. QED
  BY <1>1, <1>2, <1>3, <1>5, <1>6, <1>7, <1>8
  DEF IInv, PendingInv, ReportInv, RecoveredIsReported, GapIsKept

-----------------------------------------------------------------------------
(* What ProviderSchedule sees of the step.                                 *)

\* Both modules apply the same policy.
LEMMA SameSync ==
  ASSUME NEW s, NEW obs, NEW t
  PROVE  Schedule!sync_deadline(s, obs, t) = sync_deadline(s, obs, t)
<1>1. /\ Schedule!valid_reset_at(obs, t) = valid_reset_at(obs, t)
      /\ Schedule!current_trusted_reset(s) = current_trusted_reset(s)
      /\ Schedule!anchor_reset(s) = anchor_reset(s)
      /\ Schedule!schedule_blocked(s, t) <=> schedule_blocked(s, t)
  BY DEF Schedule!valid_reset_at, valid_reset_at, Schedule!anchor_reset, anchor_reset,
     Schedule!current_trusted_reset, current_trusted_reset,
     Schedule!schedule_blocked, schedule_blocked
<1>2. \A r : /\ Schedule!matches_candidate(s, r) <=> matches_candidate(s, r)
             /\ Schedule!confirms_candidate(s, r, t) <=> confirms_candidate(s, r, t)
             /\ Schedule!park_candidate(s, r, t) = park_candidate(s, r, t)
  BY <1>1 DEF Schedule!matches_candidate, matches_candidate, Schedule!confirms_candidate,
     confirms_candidate, Schedule!Distance, Distance, Schedule!park_candidate, park_candidate
<1>3. \A a, r : Schedule!accept_reset(s, a, r) = accept_reset(s, a, r)
  BY DEF Schedule!accept_reset, accept_reset
<1>4. \A a, b : Schedule!Max2(a, b) = Max2(a, b)
  BY DEF Schedule!Max2, Max2
<1>5. Schedule!sync_action(s, obs, t) = sync_action(s, obs, t)
  BY <1>1, <1>2 DEF Schedule!sync_action, sync_action
<1>6. QED
  BY <1>1, <1>2, <1>3, <1>4, <1>5 DEF Schedule!sync_deadline, sync_deadline

LEMMA SamePolicy ==
  ASSUME NEW s, NEW obs, NEW t
  PROVE  /\ Schedule!valid_reset_at(obs, t) = valid_reset_at(obs, t)
         /\ Schedule!retry_due(s, t, RETRY_GAP) <=> retry_due(s, t, RETRY_GAP)
         /\ Schedule!evaluate_due(s, obs, t) = evaluate_due(s, obs, t)
         /\ Schedule!run_now(s, obs, t) <=> run_now(s, obs, t)
         /\ Schedule!reanchor_probe_only(s, obs, t) = reanchor_probe_only(s, obs, t)
         /\ Schedule!begin_attempt(s, t) = begin_attempt(s, t)
         /\ Schedule!record_attempt(s, t) = record_attempt(s, t)
         /\ Schedule!commit_success(s, t) = commit_success(s, t)
         /\ \A r : Schedule!record_last_window(s, r) = record_last_window(s, r)
<1>1. Schedule!valid_reset_at(obs, t) = valid_reset_at(obs, t)
  BY DEF Schedule!valid_reset_at, valid_reset_at
<1>2. Schedule!retry_due(s, t, RETRY_GAP) <=> retry_due(s, t, RETRY_GAP)
  BY DEF Schedule!retry_due, retry_due
<1>3. Schedule!evaluate_due(s, obs, t) = evaluate_due(s, obs, t)
  BY SameSync DEF Schedule!evaluate_due, evaluate_due, Schedule!matured, matured,
     Schedule!seed_fallback, seed_fallback, Schedule!fallback_due, fallback_due
<1>4. Schedule!run_now(s, obs, t) <=> run_now(s, obs, t)
  BY <1>3 DEF Schedule!run_now, run_now, Schedule!matured, matured
<1>5. Schedule!reanchor_probe_only(s, obs, t) = reanchor_probe_only(s, obs, t)
  BY <1>1 DEF Schedule!reanchor_probe_only, reanchor_probe_only, Schedule!accept_reset,
     accept_reset, Schedule!Max2, Max2
<1>6. /\ Schedule!begin_attempt(s, t) = begin_attempt(s, t)
      /\ Schedule!record_attempt(s, t) = record_attempt(s, t)
      /\ Schedule!commit_success(s, t) = commit_success(s, t)
      /\ \A r : Schedule!record_last_window(s, r) = record_last_window(s, r)
  BY DEF Schedule!begin_attempt, begin_attempt, Schedule!record_attempt, record_attempt,
     Schedule!commit_success, commit_success, Schedule!record_last_window, record_last_window
<1>7. QED
  BY <1>1, <1>2, <1>3, <1>4, <1>5, <1>6

\* The policy looks at a reading through valid_reset_at alone ...
LEMMA ReadingsAlike ==
  ASSUME NEW s, NEW t, NEW a, NEW b, valid_reset_at(a, t) = valid_reset_at(b, t)
  PROVE  /\ sync_deadline(s, a, t) = sync_deadline(s, b, t)
         /\ evaluate_due(s, a, t) = evaluate_due(s, b, t)
         /\ run_now(s, a, t) <=> run_now(s, b, t)
         /\ reanchor_probe_only(s, a, t) = reanchor_probe_only(s, b, t)
<1>1. sync_action(s, a, t) = sync_action(s, b, t)
  BY DEF sync_action
<1>2. sync_deadline(s, a, t) = sync_deadline(s, b, t)
  BY <1>1 DEF sync_deadline
<1>3. evaluate_due(s, a, t) = evaluate_due(s, b, t)
  BY <1>2 DEF evaluate_due
<1>4. reanchor_probe_only(s, a, t) = reanchor_probe_only(s, b, t)
  BY DEF reanchor_probe_only
<1>5. QED
  BY <1>2, <1>3, <1>4 DEF run_now

\* ... so that one from an earlier second is one ProviderSchedule knows.
LEMMA KnownReading ==
  ASSUME now \in Nat, NEW obs \in QuotaObservation
  PROVE  \E known \in Schedule!Readings :
           valid_reset_at(known, now) = valid_reset_at(obs, now)
<1>1. CASE valid_reset_at(obs, now) = Unset
  <2>1. NO_OBSERVATION \in Schedule!Readings
    BY DEF Schedule!Readings, Schedule!NO_OBSERVATION, NO_OBSERVATION
  <2>2. valid_reset_at(NO_OBSERVATION, now) = Unset
    BY DEF valid_reset_at, NO_OBSERVATION
  <2>3. QED
    BY <1>1, <2>1, <2>2
<1>2. CASE valid_reset_at(obs, now) # Unset
  <2> DEFINE r == obs.reset_at
  <2>1. /\ valid_reset_at(obs, now) = r /\ r \in Nat /\ r > now /\ r <= now + MAX_WINDOW
        /\ r # Unset
    BY <1>2 DEF valid_reset_at, QuotaObservation, Instant
  <2>2. r \in now .. now + MAX_WINDOW + 1
    BY <2>1, PolicyAssumption
  <2>3. [fresh |-> TRUE, reset_at |-> r] \in Schedule!Readings
    BY <2>2 DEF Schedule!Readings
  <2>4. valid_reset_at([fresh |-> TRUE, reset_at |-> r], now) = r
    BY <2>1 DEF valid_reset_at
  <2>5. QED
    BY <2>1, <2>3, <2>4
<1>3. QED
  BY <1>1, <1>2

\* Where a job is with provider p, when it holds run.lock.
Place(j, p) ==
  IF j.phase = "begin" /\ p \in j.todo THEN "selected"
  ELSE IF j.phase = "decide" /\ p \in j.due THEN "selected"
  ELSE IF j.phase \in InBurst /\ p \in j.remaining THEN "attempting"
  ELSE IF j.phase \in {"commit", "record", "models", "post", "reprobe"} /\ p \in j.succeeded
  THEN "calibrating"
  ELSE IF j.phase = "calibrate" /\ p \in j.todo THEN "calibrating"
  ELSE "idle"

\* BurstOf, of any jobs: at most one has a place, that which holds run.lock.
PlaceAmong(jobs, p) ==
  LET In(phases) == {j \in {jobs[self] : self \in Processes} : j.phase \in phases}
  IN  IF \E j \in In({"begin"}) : p \in j.todo THEN "selected"
      ELSE IF \E j \in In({"decide"}) : p \in j.due THEN "selected"
      ELSE IF \E j \in In(InBurst) : p \in j.remaining THEN "attempting"
      ELSE IF \E j \in In({"commit", "record", "models", "post", "reprobe"}) : p \in j.succeeded
      THEN "calibrating"
      ELSE IF \E j \in In({"calibrate"}) : p \in j.todo THEN "calibrating"
      ELSE "idle"

LEMMA BurstIsPlace ==
  ASSUME NEW jobs, NEW self \in Processes, NEW p,
         \A other \in Processes \ {self} : jobs[other].phase \notin RunHeld
  PROVE  PlaceAmong(jobs, p) = Place(jobs[self], p)
<1> DEFINE In(phases) == {j \in {jobs[other] : other \in Processes} : j.phase \in phases}
<1>1. ASSUME NEW phases, phases \subseteq RunHeld
      PROVE  In(phases) = IF jobs[self].phase \in phases THEN {jobs[self]} ELSE {}
  BY <1>1
<1>2. /\ {"begin"} \subseteq RunHeld /\ {"decide"} \subseteq RunHeld
      /\ InBurst \subseteq RunHeld /\ {"calibrate"} \subseteq RunHeld
      /\ {"commit", "record", "models", "post", "reprobe"} \subseteq RunHeld
  BY DEF RunHeld, InBurst
<1>3. PlaceAmong(jobs, p) =
        IF \E j \in In({"begin"}) : p \in j.todo THEN "selected"
        ELSE IF \E j \in In({"decide"}) : p \in j.due THEN "selected"
        ELSE IF \E j \in In(InBurst) : p \in j.remaining THEN "attempting"
        ELSE IF \E j \in In({"commit", "record", "models", "post", "reprobe"}) : p \in j.succeeded
        THEN "calibrating"
        ELSE IF \E j \in In({"calibrate"}) : p \in j.todo THEN "calibrating"
        ELSE "idle"
  BY DEF PlaceAmong
<1> HIDE DEF In
<1>4. QED
  BY <1>1, <1>2, <1>3 DEF Place

LEMMA BurstAmong ==
  /\ BurstOf(p1) = PlaceAmong(job, p1)
  /\ BurstOf(p1)' = PlaceAmong(job', p1)
BY DEF BurstOf, PlaceAmong, InBurst

\* Without run.lock a job has no place.
LEMMA NoPlace ==
  ASSUME NEW j, j.phase \notin RunHeld, NEW p  PROVE Place(j, p) = "idle"
BY DEF Place, RunHeld, InBurst

\* The step of a process that holds run.lock, or takes it, or frees it, moves
\* the provider; no other step does.
LEMMA BurstMoves ==
  ASSUME IInv, NEW self \in Processes, NEW j, Moves(self, j)
  PROVE  /\ run_lock \in {self, Nobody} =>
              BurstOf(p1) = Place(job[self], p1) /\ BurstOf(p1)' = Place(j, p1)
         /\ run_lock \notin {self, Nobody} => BurstOf(p1)' = BurstOf(p1)
<1>1. CASE run_lock \in {self, Nobody}
  <2>1. /\ job'[self] = j
        /\ \A other \in Processes \ {self} :
             job[other].phase \notin RunHeld /\ job'[other].phase \notin RunHeld
    BY <1>1, LocksMove DEF Moves, Handed
  <2>2. QED
    BY <1>1, <2>1, BurstIsPlace, BurstAmong
<1>2. CASE run_lock \notin {self, Nobody}
  <2>1. PICK holder \in Processes : holder = run_lock
    BY <1>2 DEF IInv, TypeOK
  <2>2. /\ run_lock' = run_lock /\ holder # self
        /\ LockInv /\ LockInv' /\ job'[holder] = job[holder]
    BY <1>2, <2>1, LocksMove DEF Moves, Handed, IInv
  <2>3. \A other \in Processes \ {holder} :
          job[other].phase \notin RunHeld /\ job'[other].phase \notin RunHeld
    BY <2>1, <2>2 DEF LockInv
  <2>4. QED
    BY <1>2, <2>1, <2>2, <2>3, BurstIsPlace, BurstAmong
<1>3. QED
  BY <1>1, <1>2

\* A step that leaves the provider and its place alone.
LEMMA PlaceStutters ==
  ASSUME IInv, NEW self \in Processes, NEW j, Moves(self, j),
         now' = now, st'[p1] = st[p1], trigger'[p1] = trigger[p1],
         run_lock \in {self, Nobody} => Place(j, p1) = Place(job[self], p1)
  PROVE  UNCHANGED Schedule!vars
BY BurstMoves DEF Schedule!vars

LEMMA ReadingsAreObservations ==
  ASSUME now \in Nat  PROVE  Readings \subseteq QuotaObservation
<1> SUFFICES ASSUME NEW obs \in Readings PROVE obs \in QuotaObservation
  OBVIOUS
<1>1. CASE obs = NO_OBSERVATION
  BY <1>1 DEF QuotaObservation, NO_OBSERVATION, Instant
<1>2. ASSUME NEW r \in now + 1 .. now + MAX_WINDOW, obs = [fresh |-> TRUE, reset_at |-> r]
      PROVE  obs \in QuotaObservation
  <2>1. r \in Nat
    BY <1>2, PolicyAssumption
  <2>2. QED
    BY <1>2, <2>1 DEF QuotaObservation, Instant
<1>3. QED
  BY <1>1, <1>2 DEF Readings

-----------------------------------------------------------------------------
(* The steps of a burst.                                                   *)

\* The process whose step it is, and what it holds.
LEMMA Holder ==
  ASSUME IInv, NEW self \in Processes
  PROVE  /\ job[self] \in Jobs /\ Coherent(job[self])
         /\ st \in [Providers -> ProviderState] /\ trigger \in [Providers -> Triggers]
         /\ now \in Nat /\ crashes \in Nat /\ unreported \subseteq Providers
         /\ run_lock = self <=> job[self].phase \in RunHeld
         /\ quota_lock = self <=> job[self].phase \in QuotaHeld
         /\ self # Nobody
         /\ job[self].phase \in RunHeld => unreported \subseteq Owed(job[self])
BY ApplicationAssumption DEF IInv, TypeOK, LockInv, ReportInv

LEMMA BeginStep ==
  ASSUME IInv, NEW self \in Checkers \cup Runners, NEW p \in Providers, BeginAttempt(self, p)
  PROVE  IInv' /\ [Schedule!Next]_(Schedule!vars)
<1> DEFINE left == job[self].todo \ {p}
           j == [job[self] EXCEPT !.todo = left, !.phase = IF left = {} THEN "models" ELSE @]
<1>1. self \in Processes
  BY DEF Processes
<1>2. /\ Become(self, j) /\ job[self].phase = "begin" /\ p \in job[self].todo
      /\ st' = [st EXCEPT ![p] = begin_attempt(@, now)]
      /\ UNCHANGED <<now, trigger, run_lock, quota_lock, unreported, crashes>>
  BY DEF BeginAttempt, Advance
<1>3. job[self] \in Jobs
  BY <1>1, Holder
<1>4. /\ j \in Jobs /\ j.todo = left /\ j.phase \in {"begin", "models"}
      /\ left # {} => j.phase = "begin"
      /\ j.remaining = job[self].remaining /\ j.succeeded = job[self].succeeded
      /\ j.retry = job[self].retry
  BY <1>2, <1>3 DEF Jobs, Phases
<1> HIDE DEF j
<1>5. Coherent(j) /\ run_lock = self /\ Owed(j) = Owed(job[self])
  BY <1>1, <1>2, <1>4, Holder DEF Coherent, InBurst, RunHeld, Owed
<1>6. Moves(self, j)
  BY <1>1, <1>2, <1>4, <1>5, Holder DEF Moves, Handed, RunHeld, QuotaHeld
<1>7. /\ st' \in [Providers -> ProviderState] /\ st'[p] = begin_attempt(st[p], now)
      /\ \A other \in Providers \ {p} : st'[other] = st[other]
  BY <1>1, <1>2, Holder, AttemptType
<1>8. Writes(self) /\ Keeps(self, j)
  <2>1. self \in Checkers =>
          \A q \in job[self].todo : st[q].retry_pending => retry_due(st[q], now, RETRY_GAP)
    BY <1>2 DEF IInv, GapIsKept
  <2>2. left \subseteq Providers \ {p} /\ left \subseteq job[self].todo
    BY <1>1, Holder DEF Jobs
  <2>3. QED
    BY <1>1, <1>2, <1>4, <1>5, <1>7, <2>1, <2>2, Holder DEF Writes, Keeps
<1>9. IInv'
  BY <1>1, <1>6, <1>8, MoveKeepsInvariant
<1>10. [Schedule!Next]_(Schedule!vars)
  <2>1. CASE p = p1
    <3>1. Place(job[self], p1) = "selected" /\ Place(j, p1) = "attempting"
      BY <1>1, <1>2, <1>4, <2>1, Holder DEF Place, Coherent, InBurst
    <3>2. Schedule!BeginAttempt
      BY <1>1, <1>2, <1>5, <1>6, <1>7, <2>1, <3>1, BurstMoves, SamePolicy DEF Schedule!BeginAttempt
    <3>3. QED
      BY <3>2 DEF Schedule!Next, Schedule!Step
  <2>2. CASE p # p1
    <3>1. Place(j, p1) = Place(job[self], p1)
      BY <1>2, <1>4, <2>2, Holder, <1>1 DEF Place, Coherent, InBurst
    <3>2. QED
      BY <1>1, <1>2, <1>6, <1>7, <2>2, <3>1, PlaceStutters, OneOfProviders
  <2>3. QED
    BY <2>1, <2>2
<1>11. QED
  BY <1>9, <1>10

LEMMA RecordStep ==
  ASSUME IInv, NEW self \in Checkers \cup Runners, NEW p \in Providers, RecordAttempt(self, p)
  PROVE  IInv' /\ [Schedule!Next]_(Schedule!vars)
<1> DEFINE left == job[self].todo \ {p}
           j == [job[self] EXCEPT !.todo = left, !.phase = IF left = {} THEN "models" ELSE @]
<1>1. self \in Processes
  BY DEF Processes
<1>2. /\ Become(self, j) /\ job[self].phase = "record" /\ p \in job[self].todo
      /\ st' = [st EXCEPT ![p] = record_attempt(@, now)]
      /\ UNCHANGED <<now, trigger, run_lock, quota_lock, unreported, crashes>>
  BY DEF RecordAttempt, Advance
<1>3. job[self] \in Jobs
  BY <1>1, Holder
<1>4. /\ j \in Jobs /\ j.todo = left /\ j.phase \in {"record", "models"}
      /\ j.remaining = job[self].remaining /\ j.succeeded = job[self].succeeded
      /\ j.retry = job[self].retry
  BY <1>2, <1>3 DEF Jobs, Phases
<1> HIDE DEF j
<1>5. Coherent(j) /\ run_lock = self /\ Owed(j) = Owed(job[self])
  BY <1>1, <1>2, <1>4, Holder DEF Coherent, InBurst, RunHeld, Owed
<1>6. Moves(self, j)
  BY <1>1, <1>2, <1>4, <1>5, Holder DEF Moves, Handed, RunHeld, QuotaHeld
<1>7. /\ st' \in [Providers -> ProviderState] /\ st'[p] = record_attempt(st[p], now)
      /\ \A other \in Providers \ {p} : st'[other] = st[other]
  BY <1>1, <1>2, Holder, AttemptType
<1>8. Writes(self) /\ Keeps(self, j)
  BY <1>1, <1>2, <1>4, <1>5, <1>7, Holder DEF Writes, Keeps
<1>9. IInv'
  BY <1>1, <1>6, <1>8, MoveKeepsInvariant
<1>10. Place(j, p1) = Place(job[self], p1)
  BY <1>1, <1>2, <1>4, Holder DEF Place, Coherent, InBurst
<1>11. [Schedule!Next]_(Schedule!vars)
  <2>1. CASE p = p1
    <3>1. Place(job[self], p1) = "attempting"
      BY <1>1, <1>2, <2>1, Holder DEF Place, Coherent, InBurst
    <3>2. Schedule!RecordAttempt
      BY <1>1, <1>2, <1>5, <1>6, <1>7, <1>10, <2>1, <3>1, BurstMoves, SamePolicy
      DEF Schedule!RecordAttempt
    <3>3. QED
      BY <3>2 DEF Schedule!Next, Schedule!Step
  <2>2. CASE p # p1
    BY <1>1, <1>2, <1>6, <1>7, <1>10, <2>2, PlaceStutters, OneOfProviders
  <2>3. QED
    BY <2>1, <2>2
<1>12. QED
  BY <1>9, <1>11

\* The models' own time is not in this module: a round is where it was.
LEMMA ModelsStep ==
  ASSUME IInv, NEW self \in Checkers \cup Runners, NEW won \in SUBSET Providers,
         RunModels(self, won)
  PROVE  IInv' /\ [Schedule!Next]_(Schedule!vars)
<1> DEFINE j == [job[self] EXCEPT !.phase = "commit", !.todo = won]
<1>1. self \in Processes
  BY DEF Processes
<1>2. /\ Become(self, j) /\ job[self].phase = "models" /\ won \subseteq job[self].remaining
      /\ UNCHANGED <<now, st, trigger, run_lock, quota_lock, unreported, crashes>>
  BY DEF RunModels
<1>3. job[self] \in Jobs
  BY <1>1, Holder
<1>4. /\ j \in Jobs /\ j.todo = won /\ j.phase = "commit"
      /\ j.remaining = job[self].remaining /\ j.succeeded = job[self].succeeded
      /\ j.retry = job[self].retry
  BY <1>2, <1>3 DEF Jobs, Phases
<1> HIDE DEF j
<1>5. Coherent(j) /\ run_lock = self /\ Owed(j) = Owed(job[self])
  BY <1>1, <1>2, <1>4, Holder DEF Coherent, InBurst, RunHeld, Owed
<1>6. Moves(self, j)
  BY <1>1, <1>2, <1>4, <1>5, Holder DEF Moves, Handed, RunHeld, QuotaHeld
<1>7. Writes(self) /\ Keeps(self, j)
  BY <1>1, <1>2, <1>4, <1>5, Holder DEF Writes, Keeps
<1>8. IInv'
  BY <1>1, <1>6, <1>7, MoveKeepsInvariant
<1>9. Place(j, p1) = Place(job[self], p1)
  BY <1>2, <1>4 DEF Place, InBurst
<1>10. UNCHANGED Schedule!vars
  BY <1>1, <1>2, <1>6, <1>9, PlaceStutters
<1>11. QED
  BY <1>8, <1>10

LEMMA CommitStep ==
  ASSUME IInv, NEW self \in Checkers \cup Runners, NEW p \in Providers, CommitSuccess(self, p)
  PROVE  IInv' /\ [Schedule!Next]_(Schedule!vars)
<1> DEFINE j == [job[self] EXCEPT !.todo = @ \ {p}, !.remaining = @ \ {p},
                                  !.succeeded = @ \cup {p}]
<1>1. self \in Processes
  BY DEF Processes
<1>2. /\ Become(self, j) /\ job[self].phase = "commit" /\ p \in job[self].todo
      /\ st' = [st EXCEPT ![p] = commit_success(@, now)]
      /\ unreported' = IF job[self].retry THEN unreported \cup {p} ELSE unreported
      /\ UNCHANGED <<now, trigger, run_lock, quota_lock, crashes>>
  BY DEF CommitSuccess
<1>3. job[self] \in Jobs
  BY <1>1, Holder
<1>4. /\ j \in Jobs /\ j.phase = "commit" /\ j.retry = job[self].retry
      /\ j.todo = job[self].todo \ {p} /\ j.remaining = job[self].remaining \ {p}
      /\ j.succeeded = job[self].succeeded \cup {p}
  BY <1>2, <1>3 DEF Jobs, Phases
<1> HIDE DEF j
<1>5. Coherent(j) /\ run_lock = self /\ unreported' \subseteq Owed(j)
  BY <1>1, <1>2, <1>4, Holder DEF Coherent, InBurst, RunHeld, Owed
<1>6. Moves(self, j)
  BY <1>1, <1>2, <1>4, <1>5, Holder DEF Moves, Handed, RunHeld, QuotaHeld
<1>7. /\ st' \in [Providers -> ProviderState] /\ st'[p] = commit_success(st[p], now)
      /\ \A other \in Providers \ {p} : st'[other] = st[other]
  BY <1>1, <1>2, Holder, SuccessType
<1>8. Writes(self) /\ Keeps(self, j)
  BY <1>1, <1>2, <1>4, <1>5, <1>7, Holder DEF Writes, Keeps
<1>9. IInv'
  BY <1>1, <1>6, <1>8, MoveKeepsInvariant
<1>10. [Schedule!Next]_(Schedule!vars)
  <2>1. CASE p = p1
    <3>1. Place(job[self], p1) = "attempting" /\ Place(j, p1) = "calibrating"
      BY <1>1, <1>2, <1>4, <2>1, Holder DEF Place, Coherent, InBurst
    <3>2. Schedule!Succeed
      BY <1>1, <1>2, <1>5, <1>6, <1>7, <2>1, <3>1, BurstMoves, SamePolicy DEF Schedule!Succeed
    <3>3. QED
      BY <3>2 DEF Schedule!Next, Schedule!Step
  <2>2. CASE p # p1
    <3>1. Place(j, p1) = Place(job[self], p1)
      BY <1>2, <1>4, <2>2 DEF Place, InBurst
    <3>2. QED
      BY <1>1, <1>2, <1>6, <1>7, <2>2, <3>1, PlaceStutters, OneOfProviders
  <2>3. QED
    BY <2>1, <2>2
<1>11. QED
  BY <1>9, <1>10

LEMMA NextRoundStep ==
  ASSUME IInv, NEW self \in Checkers \cup Runners, NextRound(self)
  PROVE  IInv' /\ [Schedule!Next]_(Schedule!vars)
<1> DEFINE next == job[self].round + 1
           j == [job[self] EXCEPT !.phase = "record", !.todo = job[self].remaining,
                                  !.round = next]
<1>1. self \in Processes
  BY DEF Processes
<1>2. /\ Become(self, j) /\ job[self].phase = "commit"
      /\ UNCHANGED <<now, st, trigger, run_lock, quota_lock, unreported, crashes>>
  BY DEF NextRound
<1>3. job[self] \in Jobs /\ job[self].round \in Nat
  BY <1>1, Holder DEF Jobs
<1> HIDE DEF next
<1>4. /\ j \in Jobs /\ j.todo = job[self].remaining /\ j.phase = "record"
      /\ j.remaining = job[self].remaining /\ j.succeeded = job[self].succeeded
      /\ j.retry = job[self].retry
  <2>1. next \in Nat
    BY <1>3 DEF next
  <2>2. QED
    BY <1>2, <1>3, <2>1 DEF Jobs, Phases
<1> HIDE DEF j
<1>5. Coherent(j) /\ run_lock = self /\ Owed(j) = Owed(job[self])
  BY <1>1, <1>2, <1>4, Holder DEF Coherent, InBurst, RunHeld, Owed
<1>6. Moves(self, j)
  BY <1>1, <1>2, <1>4, <1>5, Holder DEF Moves, Handed, RunHeld, QuotaHeld
<1>7. Writes(self) /\ Keeps(self, j)
  BY <1>1, <1>2, <1>4, <1>5, Holder DEF Writes, Keeps
<1>8. IInv'
  BY <1>1, <1>6, <1>7, MoveKeepsInvariant
<1>9. Place(j, p1) = Place(job[self], p1)
  BY <1>2, <1>4 DEF Place, InBurst
<1>10. UNCHANGED Schedule!vars
  BY <1>1, <1>2, <1>6, <1>9, PlaceStutters
<1>11. QED
  BY <1>8, <1>10

\* A step after which the provider is where it was, or nowhere.
LEMMA PlaceLost ==
  ASSUME IInv, NEW self \in Processes, NEW j, Moves(self, j),
         now' = now, st'[p1] = st[p1], trigger'[p1] = trigger[p1],
         Place(j, p1) \in {Place(job[self], p1), "idle"}
  PROVE  [Schedule!Next]_(Schedule!vars)
<1>1. CASE run_lock \notin {self, Nobody} \/ Place(j, p1) = Place(job[self], p1)
  BY <1>1, PlaceStutters, ApplicationAssumption
<1>2. CASE run_lock \in {self, Nobody} /\ Place(j, p1) # Place(job[self], p1)
  <2>1. Schedule!Abandon
    BY <1>2, BurstMoves DEF Schedule!Abandon
  <2>2. QED
    BY <2>1 DEF Schedule!Next, Schedule!Step
<1>3. QED
  BY <1>1, <1>2

LEMMA IdleJob ==
  /\ Idle \in Jobs
  /\ Idle.phase = "start" /\ Idle.retry = FALSE /\ Idle.due = {} /\ Idle.succeeded = {}
  /\ Idle.recovered = {} /\ Coherent(Idle)
  /\ \A p : Place(Idle, p) = "idle"
<1>1. [p \in Providers |-> NO_OBSERVATION] \in [Providers -> QuotaObservation]
  BY DEF NO_OBSERVATION, QuotaObservation, Instant
<1>2. /\ Idle \in Jobs /\ Idle.phase = "start" /\ Idle.retry = FALSE /\ Idle.due = {}
      /\ Idle.succeeded = {} /\ Idle.recovered = {}
  BY <1>1 DEF Idle, Jobs, Phases
<1>3. QED
  BY <1>2 DEF Coherent, Place, InBurst

\* A process that has nothing more to do.
LEMMA EndStep ==
  ASSUME IInv, NEW self \in Processes, Become(self, Idle), FreeLocks(self),
         UNCHANGED <<now, st, trigger>>, crashes' \in Nat, unreported' \subseteq unreported,
         run_lock' = Nobody => unreported' = {}
  PROVE  IInv' /\ [Schedule!Next]_(Schedule!vars)
<1>1. Moves(self, Idle)
  BY IdleJob, Holder DEF Moves, FreeLocks, Handed, RunHeld, QuotaHeld
<1>2. Writes(self) /\ Keeps(self, Idle)
  BY IdleJob, Holder DEF Writes, Keeps, RunHeld
<1>3. IInv'
  BY <1>1, <1>2, MoveKeepsInvariant
<1>4. [Schedule!Next]_(Schedule!vars)
  BY <1>1, IdleJob, PlaceLost
<1>5. QED
  BY <1>3, <1>4

LEMMA CrashStep ==
  ASSUME IInv, NEW self \in Processes, Crash(self)
  PROVE  IInv' /\ [Schedule!Next]_(Schedule!vars)
<1>1. /\ Become(self, Idle) /\ FreeLocks(self) /\ UNCHANGED <<now, st, trigger>>
      /\ crashes' \in Nat /\ unreported' = IF run_lock = self THEN {} ELSE unreported
  BY Holder DEF Crash
<1>2. run_lock' = Nobody => unreported' = {}
  BY <1>1 DEF FreeLocks, IInv, RecoveredIsReported
<1>3. QED
  BY <1>1, <1>2, EndStep

\* A burst that has just been formed.
LEMMA NewBurst ==
  ASSUME NEW names \in SUBSET Providers, NEW retry \in BOOLEAN
  PROVE  /\ Burst(names, retry) \in Jobs
         /\ Burst(names, retry).phase = "begin" /\ Burst(names, retry).retry = retry
         /\ Burst(names, retry).todo = names
         /\ Coherent(Burst(names, retry))
         /\ \A p : Place(Burst(names, retry), p) = IF p \in names THEN "selected" ELSE "idle"
<1> DEFINE j == Burst(names, retry)
<1>1. /\ j \in Jobs /\ j.phase = "begin" /\ j.retry = retry /\ j.todo = names
      /\ j.remaining = names /\ j.succeeded = {}
  BY IdleJob DEF Burst, Jobs, Phases
<1> HIDE DEF j
<1>2. Coherent(j) /\ \A p : Place(j, p) = IF p \in names THEN "selected" ELSE "idle"
  BY <1>1 DEF Coherent, Place, InBurst
<1>3. QED
  BY <1>1, <1>2 DEF j

LEMMA EndBurstStep ==
  ASSUME IInv, NEW self \in Checkers \cup Runners, EndBurst(self)
  PROVE  IInv' /\ [Schedule!Next]_(Schedule!vars)
<1> DEFINE j == IF job[self].retry
                THEN AfterRetry(job[self])
                ELSE [Idle EXCEPT !.phase = "post", !.succeeded = job[self].succeeded]
<1>1. self \in Processes
  BY DEF Processes
<1>2. /\ Become(self, j) /\ job[self].phase = "commit" /\ job[self].todo = {}
      /\ UNCHANGED <<now, st, trigger, run_lock, quota_lock, unreported, crashes>>
  BY DEF EndBurst
<1>3. job[self] \in Jobs
  BY <1>1, Holder
<1>4. /\ j \in Jobs
      /\ \/ job[self].retry /\ j.phase = "probe" /\ j.due = {} /\ j.recovered = job[self].succeeded
         \/ ~job[self].retry /\ j.phase = "post" /\ j.succeeded = job[self].succeeded
  BY <1>3, IdleJob DEF AfterRetry, Jobs, Phases
<1> HIDE DEF j
<1>5. Coherent(j) /\ run_lock = self /\ Owed(job[self]) \subseteq Owed(j)
  BY <1>1, <1>2, <1>4, Holder DEF Coherent, InBurst, RunHeld, Owed
<1>6. Moves(self, j)
  BY <1>1, <1>2, <1>4, <1>5, Holder DEF Moves, Handed, RunHeld, QuotaHeld
<1>7. Writes(self) /\ Keeps(self, j)
  BY <1>1, <1>2, <1>4, <1>5, Holder DEF Writes, Keeps
<1>8. IInv'
  BY <1>1, <1>6, <1>7, MoveKeepsInvariant
<1>9. Place(j, p1) \in {Place(job[self], p1), "idle"}
  BY <1>1, <1>2, <1>4, Holder DEF Place, Coherent, InBurst
<1>10. QED
  BY <1>1, <1>2, <1>6, <1>8, <1>9, PlaceLost

-----------------------------------------------------------------------------
(* The steps of check.                                                     *)

LEMMA CheckStartStep ==
  ASSUME IInv, NEW self \in Checkers, CheckStart(self)
  PROVE  IInv' /\ [Schedule!Next]_(Schedule!vars)
<1> DEFINE retry == {p \in Providers : trigger[p] = "enabled" /\ retry_due(st[p], now, RETRY_GAP)}
           j == IF retry = {} THEN [Idle EXCEPT !.phase = "probe"] ELSE Burst(retry, TRUE)
<1>1. self \in Processes
  BY DEF Processes
<1>2. /\ Become(self, j) /\ job[self].phase = "start" /\ run_lock = Nobody /\ run_lock' = self
      /\ UNCHANGED <<now, st, trigger, quota_lock, unreported, crashes>>
  BY DEF CheckStart
<1>3. retry \in SUBSET Providers
  OBVIOUS
<1>4. /\ j \in Jobs /\ j.phase \in {"probe", "begin"}
      /\ j.phase = "probe" => j.due = {}
      /\ j.phase = "begin" => j.todo = retry /\ j.retry = TRUE
      /\ Coherent(j)
      /\ Place(j, p1) = IF p1 \in retry THEN "selected" ELSE "idle"
  <2>1. CASE retry = {}
    <3>1. /\ [Idle EXCEPT !.phase = "probe"] \in Jobs
          /\ [Idle EXCEPT !.phase = "probe"].phase = "probe"
          /\ [Idle EXCEPT !.phase = "probe"].due = {}
      BY IdleJob DEF Jobs, Phases
    <3>2. j = [Idle EXCEPT !.phase = "probe"] /\ p1 \notin retry
      BY <2>1
    <3> HIDE DEF j, retry
    <3>3. QED
      BY <3>1, <3>2 DEF Coherent, Place, InBurst
  <2>2. CASE retry # {}
    <3>1. j = Burst(retry, TRUE)
      BY <2>2
    <3> HIDE DEF j, retry
    <3>2. QED
      BY <1>3, <3>1, NewBurst
  <2>3. QED
    BY <2>1, <2>2
<1>5. \A p \in retry : trigger[p] = "enabled" /\ retry_due(st[p], now, RETRY_GAP)
  OBVIOUS
<1> HIDE DEF j, retry
<1>6. unreported = {} /\ Place(job[self], p1) = "idle"
  BY <1>2 DEF IInv, RecoveredIsReported, InBurst, Place
<1>7. Moves(self, j)
  BY <1>1, <1>2, <1>4, Holder DEF Moves, Handed, RunHeld, QuotaHeld
<1>8. Writes(self) /\ Keeps(self, j)
  BY <1>1, <1>2, <1>4, <1>5, <1>6, Holder DEF Writes, Keeps
<1>9. IInv'
  BY <1>1, <1>7, <1>8, MoveKeepsInvariant
<1>10. [Schedule!Next]_(Schedule!vars)
  <2>1. CASE p1 \in retry
    <3>1. Schedule!SelectRetry
      BY <1>1, <1>2, <1>4, <1>5, <1>6, <1>7, <2>1, BurstMoves, SamePolicy DEF Schedule!SelectRetry
    <3>2. QED
      BY <3>1 DEF Schedule!Next, Schedule!Step
  <2>2. CASE p1 \notin retry
    BY <1>1, <1>2, <1>4, <1>6, <1>7, <2>2, PlaceLost
  <2>3. QED
    BY <2>1, <2>2
<1>11. QED
  BY <1>9, <1>10

LEMMA ProbeStep ==
  ASSUME IInv, NEW self \in Checkers, CheckProbe(self)
  PROVE  IInv' /\ [Schedule!Next]_(Schedule!vars)
<1> DEFINE j == [job[self] EXCEPT !.phase = "collect"]
<1>1. self \in Processes
  BY DEF Processes
<1>2. /\ Become(self, j) /\ job[self].phase = "probe" /\ quota_lock = Nobody /\ quota_lock' = self
      /\ UNCHANGED <<now, st, trigger, run_lock, unreported, crashes>>
  BY DEF CheckProbe
<1>3. job[self] \in Jobs
  BY <1>1, Holder
<1>4. /\ j \in Jobs /\ j.phase = "collect"
      /\ j.due = job[self].due /\ j.recovered = job[self].recovered
  BY <1>2, <1>3 DEF Jobs, Phases
<1> HIDE DEF j
<1>5. /\ Coherent(j) /\ run_lock = self /\ Owed(j) = Owed(job[self])
      /\ Place(j, p1) = "idle"
  BY <1>1, <1>2, <1>4, Holder DEF Coherent, InBurst, RunHeld, Owed, Place
<1>6. Moves(self, j)
  BY <1>1, <1>2, <1>4, <1>5, Holder DEF Moves, Handed, RunHeld, QuotaHeld
<1>7. Writes(self) /\ Keeps(self, j)
  BY <1>1, <1>2, <1>4, <1>5, Holder DEF Writes, Keeps
<1>8. IInv'
  BY <1>1, <1>6, <1>7, MoveKeepsInvariant
<1>9. QED
  BY <1>1, <1>2, <1>5, <1>6, <1>8, PlaceLost

LEMMA CheckCollectStep ==
  ASSUME IInv, NEW self \in Checkers, NEW readings \in [Providers -> Readings],
         CheckCollect(self, readings)
  PROVE  IInv' /\ [Schedule!Next]_(Schedule!vars)
<1> DEFINE pending == {p \in Providers : st[p].retry_pending}
           j == [job[self] EXCEPT !.phase = "decide", !.todo = Providers,
                                  !.readings = readings, !.pending = pending]
<1>1. self \in Processes
  BY DEF Processes
<1>2. /\ Become(self, j) /\ job[self].phase = "collect"
      /\ UNCHANGED <<now, st, trigger, run_lock, quota_lock, unreported, crashes>>
  BY DEF CheckCollect
<1>3. job[self] \in Jobs /\ readings \in [Providers -> QuotaObservation]
  BY <1>1, Holder, ReadingsAreObservations
<1>4. pending \in SUBSET Providers /\ \A p \in Providers : st[p].retry_pending => p \in pending
  OBVIOUS
<1> HIDE DEF pending
<1>5. /\ j \in Jobs /\ j.phase = "decide" /\ j.pending = pending
      /\ j.due = job[self].due /\ j.recovered = job[self].recovered
  BY <1>2, <1>3, <1>4 DEF Jobs, Phases
<1> HIDE DEF j
<1>6. j.due = {} /\ run_lock = self
  BY <1>1, <1>2, <1>5, Holder DEF Coherent, RunHeld
<1>7. Coherent(j) /\ Owed(j) = Owed(job[self]) /\ Place(j, p1) = "idle"
  BY <1>2, <1>5, <1>6 DEF Coherent, InBurst, Owed, Place
<1>8. Moves(self, j)
  BY <1>1, <1>2, <1>5, <1>6, <1>7, Holder DEF Moves, Handed, RunHeld, QuotaHeld
<1>9. Writes(self) /\ Keeps(self, j)
  BY <1>1, <1>2, <1>4, <1>5, <1>6, <1>7, Holder DEF Writes, Keeps
<1>10. IInv'
  BY <1>1, <1>8, <1>9, MoveKeepsInvariant
<1>11. QED
  BY <1>1, <1>2, <1>7, <1>8, <1>10, PlaceLost

LEMMA DecideStep ==
  ASSUME IInv, NEW self \in Checkers, NEW p \in Providers, Decide(self, p)
  PROVE  IInv' /\ [Schedule!Next]_(Schedule!vars)
<1> DEFINE obs == job[self].readings[p]
           reset == valid_reset_at(obs, now)
           resumes == trigger[p] = "awaiting_resume" /\ reset # Unset
           decides == trigger[p] = "enabled" /\ p \notin job[self].pending
           after == IF trigger[p] = "probe_only" \/ resumes
                    THEN reanchor_probe_only(st[p], obs, now)
                    ELSE IF decides THEN evaluate_due(st[p], obs, now) ELSE st[p]
           due == IF decides /\ run_now(st[p], obs, now)
                  THEN job[self].due \cup {p} ELSE job[self].due
           j == [job[self] EXCEPT !.todo = @ \ {p}, !.due = due]
<1>1. self \in Processes
  BY DEF Processes
<1>2. /\ Become(self, j) /\ job[self].phase = "decide" /\ p \in job[self].todo
      /\ st' = [st EXCEPT ![p] = after]
      /\ trigger' = [trigger EXCEPT ![p] = IF resumes THEN "enabled" ELSE @]
      /\ UNCHANGED <<now, run_lock, quota_lock, unreported, crashes>>
  BY DEF Decide
<1>3. job[self] \in Jobs /\ obs \in QuotaObservation /\ st[p] \in ProviderState /\ now \in Nat
  BY <1>1, Holder DEF Jobs
<1>4. due \subseteq job[self].due \cup {p}
  OBVIOUS
<1>5. p \in due /\ p \notin job[self].due => decides /\ run_now(st[p], obs, now)
  OBVIOUS
<1>6. decides /\ run_now(st[p], obs, now) => p \in due
  OBVIOUS
<1>7. job[self].due \subseteq due
  OBVIOUS
<1>8. /\ after \in ProviderState
      /\ after.retry_pending => st[p].retry_pending
  <2>1. CASE trigger[p] = "probe_only" \/ resumes
    BY <1>3, <2>1, ReanchorType, ReanchorPaid
  <2>2. CASE ~(trigger[p] = "probe_only" \/ resumes) /\ decides
    BY <1>3, <2>2, EvaluateKeeps
  <2>3. CASE ~(trigger[p] = "probe_only" \/ resumes) /\ ~decides
    BY <1>3, <2>3
  <2>4. QED
    BY <2>1, <2>2, <2>3
<1>9. /\ trigger[p] = "probe_only" \/ resumes => after = reanchor_probe_only(st[p], obs, now)
      /\ decides => after = evaluate_due(st[p], obs, now)
      /\ ~(trigger[p] = "probe_only" \/ resumes) /\ ~decides => after = st[p]
  OBVIOUS
<1> HIDE DEF due, after
<1>10. /\ j \in Jobs /\ j.phase = "decide" /\ j.todo = job[self].todo \ {p}
       /\ j.due = due /\ j.pending = job[self].pending
       /\ j.recovered = job[self].recovered
  BY <1>2, <1>3, <1>4 DEF Jobs, Phases
<1>11. p \notin job[self].due /\ run_lock = self
  BY <1>1, <1>2, Holder DEF Coherent, RunHeld
<1> HIDE DEF j
<1>12. Coherent(j) /\ Owed(j) = Owed(job[self])
  <2>1. j.todo \cap j.due = {}
    BY <1>1, <1>2, <1>4, <1>10, Holder DEF Coherent
  <2>2. j.due \cap j.pending = {}
    BY <1>1, <1>2, <1>4, <1>5, <1>10, Holder DEF Coherent
  <2>3. QED
    BY <1>2, <1>10, <2>1, <2>2 DEF Coherent, InBurst, Owed
<1>13. Moves(self, j)
  BY <1>1, <1>2, <1>10, <1>11, <1>12, Holder DEF Moves, Handed, RunHeld, QuotaHeld
<1>14. /\ st' \in [Providers -> ProviderState] /\ st'[p] = after
       /\ \A other \in Providers \ {p} : st'[other] = st[other]
  BY <1>1, <1>2, <1>8, Holder
<1>15. /\ trigger' \in [Providers -> Triggers]
       /\ trigger'[p] = IF resumes THEN "enabled" ELSE trigger[p]
       /\ \A other \in Providers \ {p} : trigger'[other] = trigger[other]
  BY <1>1, <1>2, Holder DEF Triggers
<1>16. Writes(self) /\ Keeps(self, j)
  <2>1. \A q \in Providers : st'[q].retry_pending => q \in j.pending
    BY <1>1, <1>2, <1>8, <1>10, <1>14 DEF IInv, PendingInv
  <2>2. QED
    BY <1>1, <1>2, <1>10, <1>11, <1>12, <1>14, <1>15, <2>1, Holder DEF Writes, Keeps
<1>17. IInv'
  BY <1>1, <1>13, <1>16, MoveKeepsInvariant
<1>18. [Schedule!Next]_(Schedule!vars)
  <2>1. CASE p = p1
    <3>1. Place(job[self], p1) = "idle"
      BY <1>1, <1>2, <1>11, <2>1, Holder DEF Place, Coherent, InBurst
    <3>2. Place(j, p1) = IF decides /\ run_now(st[p], obs, now) THEN "selected" ELSE "idle"
      BY <1>5, <1>6, <1>10, <1>11, <2>1 DEF Place, InBurst
    <3>3. /\ BurstOf(p1) = "idle" /\ BurstOf(p1)' = Place(j, p1)
          /\ st'[p1] = after /\ now' = now
      BY <1>1, <1>2, <1>11, <1>13, <1>14, <2>1, <3>1, BurstMoves
    <3>4. PICK known \in Schedule!Readings :
            valid_reset_at(known, now) = valid_reset_at(obs, now)
      BY <1>3, KnownReading
    <3>5. CASE trigger[p] = "probe_only"
      <4>1. Schedule!ReanchorProbeOnly(known)
        BY <1>9, <1>15, <2>1, <3>2, <3>3, <3>4, <3>5, SamePolicy, ReadingsAlike
        DEF Schedule!ReanchorProbeOnly
      <4>2. QED
        BY <4>1 DEF Schedule!Next, Schedule!Step
    <3>6. CASE resumes
      <4>1. Schedule!ResumeProvider(known)
        BY <1>9, <1>15, <2>1, <3>2, <3>3, <3>4, <3>6, SamePolicy, ReadingsAlike
        DEF Schedule!ResumeProvider
      <4>2. QED
        BY <4>1 DEF Schedule!Next, Schedule!Step
    <3>7. CASE decides
      <4>1. ~st[p].retry_pending
        BY <1>1, <1>2, <3>7 DEF IInv, PendingInv
      <4>2. Schedule!DecideDue(known)
        BY <1>9, <1>15, <2>1, <3>2, <3>3, <3>4, <3>7, <4>1, SamePolicy, ReadingsAlike
        DEF Schedule!DecideDue
      <4>3. QED
        BY <4>2 DEF Schedule!Next, Schedule!Step
    <3>8. CASE trigger[p] # "probe_only" /\ ~resumes /\ ~decides
      BY <1>1, <1>9, <1>13, <1>15, <2>1, <3>2, <3>3, <3>8, PlaceLost
    <3>9. QED
      BY <3>5, <3>6, <3>7, <3>8
  <2>2. CASE p # p1
    <3>1. Place(j, p1) = Place(job[self], p1)
      BY <1>2, <1>4, <1>7, <1>10, <2>2 DEF Place, InBurst
    <3>2. QED
      BY <1>1, <1>2, <1>13, <1>14, <1>15, <2>2, <3>1, PlaceStutters, OneOfProviders
  <2>3. QED
    BY <2>1, <2>2
<1>19. QED
  BY <1>17, <1>18

LEMMA EndDecideStep ==
  ASSUME IInv, NEW self \in Checkers, EndDecide(self)
  PROVE  IInv' /\ [Schedule!Next]_(Schedule!vars)
<1>1. self \in Processes
  BY DEF Processes
<1>2. /\ job[self].phase = "decide" /\ job[self].todo = {}
      /\ quota_lock' = Nobody /\ unreported' = unreported \ job[self].recovered
      /\ UNCHANGED <<now, st, trigger, crashes>>
  BY DEF EndDecide, card
<1>3. run_lock = self /\ quota_lock = self /\ unreported' = {}
  BY <1>1, <1>2, Holder DEF RunHeld, QuotaHeld, Owed, InBurst
<1>4. CASE job[self].due = {}
  <2>1. Become(self, Idle) /\ FreeLocks(self)
    BY <1>2, <1>3, <1>4 DEF EndDecide, FreeLocks
  <2>2. QED
    BY <1>1, <1>2, <1>3, <2>1, EndStep, Holder
<1>5. CASE job[self].due # {}
  <2> DEFINE j == Burst(job[self].due, FALSE)
  <2>1. Become(self, j) /\ run_lock' = run_lock
    BY <1>5 DEF EndDecide
  <2>2. job[self].due \in SUBSET Providers
    BY <1>1, Holder DEF Jobs
  <2>3. /\ j \in Jobs /\ j.phase = "begin" /\ j.todo = job[self].due /\ Coherent(j)
        /\ Place(j, p1) = IF p1 \in job[self].due THEN "selected" ELSE "idle"
    BY <2>2, NewBurst
  <2> HIDE DEF j
  <2>4. Place(job[self], p1) = Place(j, p1)
    BY <1>2, <2>3 DEF Place, InBurst
  <2>5. Moves(self, j)
    BY <1>1, <1>2, <1>3, <2>1, <2>3, Holder DEF Moves, Handed, RunHeld, QuotaHeld
  <2>6. \A p \in j.todo : ~st[p].retry_pending
    BY <1>1, <1>2, <2>2, <2>3, Holder DEF Coherent, IInv, PendingInv
  <2>7. Writes(self) /\ Keeps(self, j)
    BY <1>1, <1>2, <1>3, <2>1, <2>3, <2>6, Holder DEF Writes, Keeps
  <2>8. IInv'
    BY <1>1, <2>5, <2>7, MoveKeepsInvariant
  <2>9. QED
    BY <1>1, <1>2, <2>4, <2>5, <2>8, PlaceLost
<1>6. QED
  BY <1>4, <1>5

-----------------------------------------------------------------------------
(* run, the calibration after a burst, and usage.                          *)

LEMMA RunStartStep ==
  ASSUME IInv, NEW self \in Runners, NEW names \in SUBSET Providers, RunStart(self, names)
  PROVE  IInv' /\ [Schedule!Next]_(Schedule!vars)
<1> DEFINE j == Burst(names, FALSE)
<1>1. self \in Processes /\ self \notin Checkers
  BY ApplicationAssumption DEF Processes
<1>2. /\ Become(self, j) /\ job[self].phase = "start" /\ run_lock = Nobody /\ run_lock' = self
      /\ names # {} /\ \A p \in names : trigger[p] # "probe_only"
      /\ UNCHANGED <<now, st, trigger, quota_lock, unreported, crashes>>
  BY DEF RunStart
<1>3. /\ j \in Jobs /\ j.phase = "begin" /\ Coherent(j)
      /\ Place(j, p1) = IF p1 \in names THEN "selected" ELSE "idle"
  BY NewBurst
<1> HIDE DEF j
<1>4. Place(job[self], p1) = "idle" /\ unreported = {}
  BY <1>2 DEF Place, InBurst, IInv, RecoveredIsReported
<1>5. Moves(self, j)
  BY <1>1, <1>2, <1>3, Holder DEF Moves, Handed, RunHeld, QuotaHeld
<1>6. Writes(self) /\ Keeps(self, j)
  BY <1>1, <1>2, <1>3, <1>4, Holder DEF Writes, Keeps
<1>7. IInv'
  BY <1>1, <1>5, <1>6, MoveKeepsInvariant
<1>8. [Schedule!Next]_(Schedule!vars)
  <2>1. CASE p1 \in names
    <3>1. Schedule!RunCommand
      BY <1>1, <1>2, <1>3, <1>4, <1>5, <2>1, BurstMoves DEF Schedule!RunCommand
    <3>2. QED
      BY <3>1 DEF Schedule!Next, Schedule!Step
  <2>2. CASE p1 \notin names
    BY <1>1, <1>2, <1>3, <1>5, <2>2, PlaceLost
  <2>3. QED
    BY <2>1, <2>2
<1>9. QED
  BY <1>7, <1>8

LEMMA PostProbeStep ==
  ASSUME IInv, NEW self \in Checkers \cup Runners, PostProbe(self)
  PROVE  IInv' /\ [Schedule!Next]_(Schedule!vars)
<1> DEFINE j == [job[self] EXCEPT !.phase = "reprobe"]
<1>1. self \in Processes
  BY DEF Processes
<1>2. /\ Become(self, j) /\ job[self].phase = "post" /\ quota_lock = Nobody /\ quota_lock' = self
      /\ UNCHANGED <<now, st, trigger, run_lock, unreported, crashes>>
  BY DEF PostProbe
<1>3. job[self] \in Jobs
  BY <1>1, Holder
<1>4. j \in Jobs /\ j.phase = "reprobe" /\ j.succeeded = job[self].succeeded
  BY <1>2, <1>3 DEF Jobs, Phases
<1> HIDE DEF j
<1>5. /\ Coherent(j) /\ run_lock = self /\ unreported = {}
      /\ Place(j, p1) = Place(job[self], p1)
  BY <1>1, <1>2, <1>4, Holder DEF Coherent, InBurst, RunHeld, Owed, Place
<1>6. Moves(self, j)
  BY <1>1, <1>2, <1>4, <1>5, Holder DEF Moves, Handed, RunHeld, QuotaHeld
<1>7. Writes(self) /\ Keeps(self, j)
  BY <1>1, <1>2, <1>4, <1>5, Holder DEF Writes, Keeps
<1>8. IInv'
  BY <1>1, <1>6, <1>7, MoveKeepsInvariant
<1>9. QED
  BY <1>1, <1>2, <1>5, <1>6, <1>8, PlaceLost

LEMMA PostCollectStep ==
  ASSUME IInv, NEW self \in Checkers \cup Runners, NEW readings \in [Providers -> Readings],
         PostCollect(self, readings)
  PROVE  IInv' /\ [Schedule!Next]_(Schedule!vars)
<1> DEFINE j == [job[self] EXCEPT !.phase = "calibrate", !.todo = job[self].succeeded,
                                  !.readings = readings]
<1>1. self \in Processes
  BY DEF Processes
<1>2. /\ Become(self, j) /\ job[self].phase = "reprobe"
      /\ UNCHANGED <<now, st, trigger, run_lock, quota_lock, unreported, crashes>>
  BY DEF PostCollect
<1>3. /\ job[self] \in Jobs /\ job[self].succeeded \subseteq Providers
      /\ readings \in [Providers -> QuotaObservation]
  BY <1>1, Holder, ReadingsAreObservations DEF Jobs
<1>4. j \in Jobs /\ j.phase = "calibrate" /\ j.todo = job[self].succeeded
  BY <1>2, <1>3 DEF Jobs, Phases
<1> HIDE DEF j
<1>5. /\ Coherent(j) /\ run_lock = self /\ unreported = {}
      /\ Place(j, p1) = Place(job[self], p1)
  BY <1>1, <1>2, <1>4, Holder DEF Coherent, InBurst, RunHeld, Owed, Place
<1>6. Moves(self, j)
  BY <1>1, <1>2, <1>4, <1>5, Holder DEF Moves, Handed, RunHeld, QuotaHeld
<1>7. Writes(self) /\ Keeps(self, j)
  BY <1>1, <1>2, <1>4, <1>5, Holder DEF Writes, Keeps
<1>8. IInv'
  BY <1>1, <1>6, <1>7, MoveKeepsInvariant
<1>9. QED
  BY <1>1, <1>2, <1>5, <1>6, <1>8, PlaceLost

LEMMA CalibrateStep ==
  ASSUME IInv, NEW self \in Checkers \cup Runners, NEW p \in Providers, Calibrate(self, p)
  PROVE  IInv' /\ [Schedule!Next]_(Schedule!vars)
<1> DEFINE obs == job[self].readings[p]
           reset == valid_reset_at(obs, now)
           after == IF reset # Unset
                    THEN sync_deadline(record_last_window(st[p], reset), obs, now)
                    ELSE st[p]
           j == [job[self] EXCEPT !.todo = @ \ {p}]
<1>1. self \in Processes
  BY DEF Processes
<1>2. /\ Become(self, j) /\ job[self].phase = "calibrate" /\ p \in job[self].todo
      /\ st' = [st EXCEPT ![p] = after]
      /\ UNCHANGED <<now, trigger, run_lock, quota_lock, unreported, crashes>>
  BY DEF Calibrate
<1>3. job[self] \in Jobs /\ obs \in QuotaObservation /\ st[p] \in ProviderState /\ now \in Nat
  BY <1>1, Holder DEF Jobs
<1>4. after \in ProviderState
  BY <1>3, ValidReset, WindowType, SyncKeeps
<1>5. after = IF reset # Unset
              THEN sync_deadline(record_last_window(st[p], reset), obs, now) ELSE st[p]
  OBVIOUS
<1> HIDE DEF after
<1>6. j \in Jobs /\ j.phase = "calibrate" /\ j.todo = job[self].todo \ {p}
  BY <1>2, <1>3 DEF Jobs
<1> HIDE DEF j
<1>7. Coherent(j) /\ run_lock = self /\ unreported = {}
  BY <1>1, <1>2, <1>6, Holder DEF Coherent, InBurst, RunHeld, Owed
<1>8. Moves(self, j)
  BY <1>1, <1>2, <1>6, <1>7, Holder DEF Moves, Handed, RunHeld, QuotaHeld
<1>9. /\ st' \in [Providers -> ProviderState] /\ st'[p] = after
      /\ \A other \in Providers \ {p} : st'[other] = st[other]
  BY <1>1, <1>2, <1>4, Holder
<1>10. Writes(self) /\ Keeps(self, j)
  BY <1>1, <1>2, <1>6, <1>7, <1>9, Holder DEF Writes, Keeps
<1>11. IInv'
  BY <1>1, <1>8, <1>10, MoveKeepsInvariant
<1>12. [Schedule!Next]_(Schedule!vars)
  <2>1. CASE p = p1
    <3>1. /\ Place(job[self], p1) = "calibrating" /\ Place(j, p1) = "idle"
          /\ BurstOf(p1) = "calibrating" /\ BurstOf(p1)' = "idle"
      BY <1>1, <1>2, <1>6, <1>7, <1>8, <2>1, BurstMoves DEF Place, InBurst
    <3>2. PICK known \in Schedule!Readings : valid_reset_at(known, now) = reset
      BY <1>3, KnownReading
    <3>3. /\ Schedule!valid_reset_at(known, now) = reset
          /\ \A s : Schedule!sync_deadline(s, known, now) = sync_deadline(s, obs, now)
          /\ Schedule!record_last_window(st[p1], reset) = record_last_window(st[p1], reset)
      BY <3>2, SamePolicy, SameSync, ReadingsAlike
    <3> HIDE DEF reset, obs
    <3>4. Schedule!PostRunSync(known)
      BY <1>2, <1>5, <1>9, <2>1, <3>1, <3>3 DEF Schedule!PostRunSync
    <3>5. QED
      BY <3>4 DEF Schedule!Next, Schedule!Step
  <2>2. CASE p # p1
    <3>1. Place(j, p1) = Place(job[self], p1)
      BY <1>2, <1>6, <2>2 DEF Place, InBurst
    <3>2. QED
      BY <1>1, <1>2, <1>8, <1>9, <2>2, <3>1, PlaceStutters, OneOfProviders
  <2>3. QED
    BY <2>1, <2>2
<1>13. QED
  BY <1>11, <1>12

LEMMA UsageProbeStep ==
  ASSUME IInv, NEW self \in Users, UsageProbe(self)
  PROVE  IInv' /\ [Schedule!Next]_(Schedule!vars)
<1> DEFINE j == [Idle EXCEPT !.phase = "display"]
<1>1. self \in Processes
  BY DEF Processes
<1>2. /\ Become(self, j) /\ job[self].phase = "start" /\ quota_lock = Nobody /\ quota_lock' = self
      /\ UNCHANGED <<now, st, trigger, run_lock, unreported, crashes>>
  BY DEF UsageProbe
<1>3. j \in Jobs /\ j.phase = "display"
  BY IdleJob DEF Jobs, Phases
<1> HIDE DEF j
<1>4. Coherent(j) /\ run_lock # self /\ Place(j, p1) = "idle"
  BY <1>1, <1>2, <1>3, Holder DEF Coherent, InBurst, RunHeld, Place
<1>5. Moves(self, j)
  BY <1>1, <1>2, <1>3, <1>4, Holder DEF Moves, Handed, RunHeld, QuotaHeld
<1>6. Writes(self) /\ Keeps(self, j)
  BY <1>1, <1>2, <1>3, <1>4, Holder DEF Writes, Keeps, IInv, RecoveredIsReported, RunHeld
<1>7. IInv'
  BY <1>1, <1>5, <1>6, MoveKeepsInvariant
<1>8. QED
  BY <1>1, <1>2, <1>4, <1>5, <1>7, PlaceLost

LEMMA UsageCollectStep ==
  ASSUME IInv, NEW self \in Users, NEW readings \in [Providers -> Readings],
         UsageCollect(self, readings)
  PROVE  IInv' /\ [Schedule!Next]_(Schedule!vars)
<1> DEFINE j == [Idle EXCEPT !.phase = "sync", !.readings = readings]
<1>1. self \in Processes
  BY DEF Processes
<1>2. /\ Become(self, j) /\ job[self].phase = "display" /\ quota_lock' = Nobody
      /\ UNCHANGED <<now, st, trigger, run_lock, unreported, crashes>>
  BY DEF UsageCollect
<1>3. readings \in [Providers -> QuotaObservation]
  BY <1>1, Holder, ReadingsAreObservations
<1>4. j \in Jobs /\ j.phase = "sync"
  BY <1>3, IdleJob DEF Jobs, Phases
<1> HIDE DEF j
<1>5. Coherent(j) /\ run_lock # self /\ quota_lock = self /\ Place(j, p1) = "idle"
  BY <1>1, <1>2, <1>4, Holder DEF Coherent, InBurst, RunHeld, QuotaHeld, Place
<1>6. Moves(self, j)
  BY <1>1, <1>2, <1>4, <1>5, Holder DEF Moves, Handed, RunHeld, QuotaHeld
<1>7. Writes(self) /\ Keeps(self, j)
  BY <1>1, <1>2, <1>4, <1>5, Holder DEF Writes, Keeps, IInv, RecoveredIsReported, RunHeld
<1>8. IInv'
  BY <1>1, <1>6, <1>7, MoveKeepsInvariant
<1>9. QED
  BY <1>1, <1>2, <1>5, <1>6, <1>8, PlaceLost

LEMMA UsageSyncStep ==
  ASSUME IInv, NEW self \in Users, UsageSync(self)
  PROVE  IInv' /\ [Schedule!Next]_(Schedule!vars)
<1> DEFINE j == [job[self] EXCEPT !.phase = "recalibrate", !.todo = Providers]
<1>1. self \in Processes
  BY DEF Processes
<1>2. /\ Become(self, j) /\ job[self].phase = "sync" /\ run_lock = Nobody /\ run_lock' = self
      /\ UNCHANGED <<now, st, trigger, quota_lock, unreported, crashes>>
  BY DEF UsageSync
<1>3. job[self] \in Jobs
  BY <1>1, Holder
<1>4. j \in Jobs /\ j.phase = "recalibrate"
  BY <1>3 DEF Jobs, Phases
<1> HIDE DEF j
<1>5. Coherent(j) /\ unreported = {} /\ Place(j, p1) = "idle"
  BY <1>1, <1>2, <1>4 DEF Coherent, InBurst, Place, IInv, RecoveredIsReported
<1>6. Moves(self, j)
  BY <1>1, <1>2, <1>4, <1>5, Holder DEF Moves, Handed, RunHeld, QuotaHeld
<1>7. Writes(self) /\ Keeps(self, j)
  BY <1>1, <1>2, <1>4, <1>5, Holder DEF Writes, Keeps
<1>8. IInv'
  BY <1>1, <1>6, <1>7, MoveKeepsInvariant
<1>9. QED
  BY <1>1, <1>2, <1>5, <1>6, <1>8, PlaceLost

LEMMA RecalibrateStep ==
  ASSUME IInv, NEW self \in Users, NEW p \in Providers, Recalibrate(self, p)
  PROVE  IInv' /\ [Schedule!Next]_(Schedule!vars)
<1> DEFINE obs == job[self].readings[p]
           after == IF trigger[p] = "probe_only"
                    THEN reanchor_probe_only(st[p], obs, now)
                    ELSE sync_deadline(st[p], obs, now)
           j == [job[self] EXCEPT !.todo = @ \ {p}]
<1>1. self \in Processes
  BY DEF Processes
<1>2. /\ Become(self, j) /\ job[self].phase = "recalibrate" /\ p \in job[self].todo
      /\ st' = [st EXCEPT ![p] = after]
      /\ UNCHANGED <<now, trigger, run_lock, quota_lock, unreported, crashes>>
  BY DEF Recalibrate
<1>3. job[self] \in Jobs /\ obs \in QuotaObservation /\ st[p] \in ProviderState /\ now \in Nat
  BY <1>1, Holder DEF Jobs
<1>4. after \in ProviderState
  BY <1>3, ReanchorType, SyncKeeps
<1>5. after = IF trigger[p] = "probe_only" THEN reanchor_probe_only(st[p], obs, now)
              ELSE sync_deadline(st[p], obs, now)
  OBVIOUS
<1> HIDE DEF after
<1>6. j \in Jobs /\ j.phase = "recalibrate"
  BY <1>2, <1>3 DEF Jobs
<1> HIDE DEF j
<1>7. /\ Coherent(j) /\ run_lock = self /\ unreported = {}
      /\ Place(j, p1) = "idle" /\ Place(job[self], p1) = "idle"
  BY <1>1, <1>2, <1>6, Holder DEF Coherent, InBurst, RunHeld, Owed, Place
<1>8. Moves(self, j)
  BY <1>1, <1>2, <1>6, <1>7, Holder DEF Moves, Handed, RunHeld, QuotaHeld
<1>9. /\ st' \in [Providers -> ProviderState] /\ st'[p] = after
      /\ \A other \in Providers \ {p} : st'[other] = st[other]
  BY <1>1, <1>2, <1>4, Holder
<1>10. Writes(self) /\ Keeps(self, j)
  BY <1>1, <1>2, <1>6, <1>7, <1>9, Holder DEF Writes, Keeps
<1>11. IInv'
  BY <1>1, <1>8, <1>10, MoveKeepsInvariant
<1>12. [Schedule!Next]_(Schedule!vars)
  <2>1. CASE p = p1
    <3>1. BurstOf(p1) = "idle" /\ BurstOf(p1)' = "idle"
      BY <1>1, <1>7, <1>8, BurstMoves
    <3>2. PICK known \in Schedule!Readings :
            valid_reset_at(known, now) = valid_reset_at(obs, now)
      BY <1>3, KnownReading
    <3>3. Schedule!Recalibrate(known)
      BY <1>2, <1>5, <1>9, <2>1, <3>1, <3>2, SamePolicy, SameSync, ReadingsAlike
      DEF Schedule!Recalibrate
    <3>4. QED
      BY <3>3 DEF Schedule!Next, Schedule!Step
  <2>2. CASE p # p1
    BY <1>1, <1>2, <1>7, <1>8, <1>9, <2>2, PlaceStutters, OneOfProviders
  <2>3. QED
    BY <2>1, <2>2
<1>13. QED
  BY <1>11, <1>12

\* The steps that end a command.
LEMMA CommandEndStep ==
  ASSUME IInv, NEW self \in Processes,
         CheckQuotaBusy(self) \/ PostTimeout(self) \/ EndCalibrate(self)
           \/ UsageRunBusy(self) \/ EndUsage(self)
  PROVE  IInv' /\ [Schedule!Next]_(Schedule!vars)
<1>1. CASE CheckQuotaBusy(self)
  <2>1. unreported' = {}
    BY <1>1, Holder DEF CheckQuotaBusy, card, RunHeld, Owed, InBurst
  <2>2. QED
    BY <1>1, <2>1, EndStep, Holder DEF CheckQuotaBusy
<1>2. CASE PostTimeout(self) \/ EndCalibrate(self) \/ EndUsage(self)
  <2>1. unreported = {}
    BY <1>2, Holder DEF PostTimeout, EndCalibrate, EndUsage, RunHeld, Owed, InBurst
  <2>2. QED
    BY <1>2, <2>1, EndStep, Holder DEF PostTimeout, EndCalibrate, EndUsage
<1>3. CASE UsageRunBusy(self)
  <2>1. run_lock # self /\ quota_lock # self
    BY <1>3, Holder DEF UsageRunBusy, RunHeld, QuotaHeld
  <2>2. QED
    BY <1>3, <2>1, EndStep, Holder DEF UsageRunBusy, FreeLocks
<1>4. QED
  BY <1>1, <1>2, <1>3

-----------------------------------------------------------------------------
(* The system.                                                             *)

LEMMA InitInvariant == Init => IInv /\ Schedule!Init
<1> SUFFICES ASSUME Init PROVE IInv /\ Schedule!Init
  OBVIOUS
<1>1. EmptyState \in ProviderState
  BY DEF EmptyState, ProviderState, Instant
<1>2. \A self \in Processes : job[self] = Idle
  BY DEF Init
<1>3. TypeOK
  BY <1>1, IdleJob DEF Init, TypeOK
<1>4. LockInv
  BY <1>2, IdleJob, ApplicationAssumption DEF Init, LockInv, RunHeld, QuotaHeld
<1>5. IInv
  <2>1. (\A self \in Processes : Coherent(job[self])) /\ PendingInv /\ ReportInv
    BY <1>2, IdleJob DEF PendingInv, ReportInv, RunHeld
  <2>2. RecoveredIsReported /\ GapIsKept
    BY <1>2, IdleJob DEF Init, RecoveredIsReported, GapIsKept, Processes
  <2>3. QED
    BY <1>3, <1>4, <2>1, <2>2 DEF IInv
<1>6. BurstOf(p1) = "idle"
  <2>1. \A j \in {job[self] : self \in Processes} : j.phase = "start"
    BY <1>2, IdleJob
  <2>2. QED
    BY <2>1 DEF BurstOf
<1>7. Schedule!Init
  BY <1>6, OneOfProviders
  DEF Init, Schedule!Init, Triggers, Schedule!Triggers, EmptyState, Schedule!EmptyState
<1>8. QED
  BY <1>5, <1>7

LEMMA TickStep == IInv /\ Tick => IInv' /\ [Schedule!Next]_(Schedule!vars)
<1> SUFFICES ASSUME IInv, Tick PROVE IInv' /\ Schedule!Tick
  BY DEF Schedule!Next, Schedule!Step
<1>1. /\ now < MaxTime /\ now' = now + 1 /\ now \in Nat
      /\ UNCHANGED <<st, trigger, run_lock, quota_lock, job, unreported, crashes>>
  BY DEF Tick, IInv, TypeOK
<1>2. \A s \in ProviderState : retry_due(s, now, RETRY_GAP) => retry_due(s, now', RETRY_GAP)
  BY <1>1, ApplicationAssumption DEF retry_due, ProviderState, Instant
<1>3. GapIsKept'
  <2> SUFFICES ASSUME NEW self \in Checkers, job[self].phase = "begin",
                      NEW p \in job[self].todo, st[p].retry_pending
               PROVE  retry_due(st[p], now', RETRY_GAP)
    BY <1>1 DEF GapIsKept
  <2>1. self \in Processes
    BY DEF Processes
  <2>2. p \in Providers /\ st[p] \in ProviderState
    BY <2>1, Holder DEF Jobs
  <2>3. QED
    BY <1>2, <2>2 DEF IInv, GapIsKept
<1>4. TypeOK' /\ LockInv' /\ PendingInv' /\ ReportInv' /\ RecoveredIsReported'
  BY <1>1 DEF IInv, TypeOK, LockInv, PendingInv, ReportInv, RecoveredIsReported
<1>5. \A self \in Processes : Coherent(job[self])'
  BY <1>1 DEF IInv
<1>6. BurstOf(p1)' = BurstOf(p1)
  BY <1>1, BurstAmong
<1>7. QED
  BY <1>1, <1>3, <1>4, <1>5, <1>6 DEF IInv, Schedule!Tick

LEMMA NextStep == IInv /\ [Next]_vars => IInv' /\ [Schedule!Next]_(Schedule!vars)
<1> SUFFICES ASSUME IInv, [Next]_vars PROVE IInv' /\ [Schedule!Next]_(Schedule!vars)
  OBVIOUS
<1>1. CASE UNCHANGED vars
  <2>1. BurstOf(p1)' = BurstOf(p1)
    BY <1>1, BurstAmong DEF vars
  <2>2. UNCHANGED Schedule!vars
    BY <1>1, <2>1 DEF vars, Schedule!vars
  <2>3. IInv'
    BY <1>1 DEF vars, IInv, TypeOK, LockInv, PendingInv, ReportInv, RecoveredIsReported, GapIsKept
  <2>4. QED
    BY <2>2, <2>3
<1>2. CASE Tick
  BY <1>2, TickStep
<1>3. CASE \E self \in Processes : Crash(self)
  BY <1>3, CrashStep
<1>4. CASE \E self \in Checkers : CheckStart(self) \/ CheckStep(self)
  BY <1>4, CheckStartStep, ProbeStep, CheckCollectStep, DecideStep, EndDecideStep, CommandEndStep
  DEF CheckStep, Processes
<1>5. CASE \E self \in Checkers \cup Runners : BurstStep(self)
  BY <1>5, BeginStep, RecordStep, CommitStep, ModelsStep, NextRoundStep, EndBurstStep DEF BurstStep
<1>6. CASE \E self \in Checkers \cup Runners : PostStep(self)
  BY <1>6, PostProbeStep, PostCollectStep, CalibrateStep, CommandEndStep DEF PostStep, Processes
<1>7. CASE \E self \in Runners, names \in SUBSET Providers : RunStart(self, names)
  BY <1>7, RunStartStep
<1>8. CASE \E self \in Users : UsageProbe(self) \/ UsageStep(self)
  BY <1>8, UsageProbeStep, UsageCollectStep, UsageSyncStep, RecalibrateStep, CommandEndStep
  DEF UsageStep, Processes
<1>9. QED
  BY <1>1, <1>2, <1>3, <1>4, <1>5, <1>6, <1>7, <1>8 DEF Next

LEMMA Invariance == Spec => []IInv
BY InitInvariant, NextStep, PTL DEF Spec

\* Every variable is well typed, the jobs in particular.
THEOREM TypeCorrect == Spec => []TypeOK
BY Invariance, PTL DEF IInv

\* run.lock and quota.lock, app.py: at most one process writes provider state,
\* and at most one probes.
THEOREM OneProcessWrites == Spec => []OneAtATime
<1>1. IInv => OneAtATime
  <2> SUFFICES ASSUME IInv, NEW a \in Processes, NEW b \in Processes
               PROVE  /\ job[a].phase \in Writing /\ job[b].phase \in Writing => a = b
                      /\ job[a].phase \in Probing /\ job[b].phase \in Probing => a = b
    BY DEF OneAtATime
  <2>1. Writing \subseteq RunHeld /\ Probing \subseteq QuotaHeld
    BY DEF Writing, RunHeld, Probing, QuotaHeld
  <2>2. QED
    BY <2>1 DEF IInv, LockInv
<1>2. QED
  BY <1>1, Invariance, PTL

\* check: in whatever round of its retry a provider recovers, and whichever of
\* the others fail, the list a check goes on with has it, and the card from
\* either exit names it.  A check that dies or raises sends no card: the ghost
\* is emptied there, and nothing is claimed.
THEOREM RecoveryIsReported == Spec => []RecoveredIsReported
BY Invariance, PTL DEF IInv

\* check: no burst of the scheduler attempts an owing provider before its retry
\* gap has passed.
THEOREM RetryWaitsForGap == Spec => []GapIsKept
BY Invariance, PTL DEF IInv

\* Whichever process works on it, a provider lives the life ProviderSchedule
\* describes: commands, locks and crashes add nothing to it.
THEOREM ProviderIsScheduled == Spec => ImplementsSchedule
BY InitInvariant, NextStep, Invariance, PTL DEF Spec, ImplementsSchedule, Schedule!Spec
=============================================================================
