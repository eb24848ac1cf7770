-------------------------- MODULE StateStore_proofs --------------------------
(***************************************************************************)
(* Theorems about StateStore, for every value of the timing constants and  *)
(* for both stores.  The invariant behind them says of a commit in flight  *)
(* which call it belongs to, what that call computed, and how far the disk *)
(* has come; the theorems follow from how the calls of the policy treat a  *)
(* debt and a deadline, and from the order of SLOTS.                       *)
(***************************************************************************)
EXTENDS StateStore, SchedulerPolicy_proofs, SequenceTheorems, TLAPS

-----------------------------------------------------------------------------
(* The operators of the policy.                                            *)

LEMMA ReadingsAreObservations ==
  ASSUME now \in Nat  PROVE  Readings \subseteq QuotaObservation
<1> SUFFICES ASSUME NEW obs \in Readings PROVE obs \in QuotaObservation
  OBVIOUS
<1>1. CASE obs = NO_OBSERVATION
  BY <1>1 DEF QuotaObservation, NO_OBSERVATION, Instant
<1>2. ASSUME NEW r \in now + 1 .. now + MAX_WINDOW, obs = [fresh |-> TRUE, reset_at |-> r]
      PROVE  obs \in QuotaObservation
  <2>1. r \in Nat
    BY <1>2, PolicyAssumption
  <2>2. QED
    BY <1>2, <2>1 DEF QuotaObservation, Instant
<1>3. QED
  BY <1>1, <1>2 DEF Readings

-----------------------------------------------------------------------------
(* The order of the slots.                                                 *)

Slots == {"last_attempt_at", "last_task_at", "retry_pending", "reset_candidate",
          "reset_anchor", "last_known_reset", "last_triggered_window", "next_due_at"}

\* The next slot is one that changes; the debt comes after the task, and the
\* deadline after everything.
LEMMA SlotOrder ==
  ASSUME NEW changed, changed \subseteq Slots, changed # {}
  PROVE  /\ NextSlot(changed) \in changed
         /\ NextSlot(changed) = "retry_pending" => "last_task_at" \notin changed
         /\ NextSlot(changed) = "next_due_at" => changed = {"next_due_at"}
<1> DEFINE First(i) == SLOTS[i] \in changed /\ \A j \in 1 .. i - 1 : SLOTS[j] \notin changed
           i == CHOOSE k \in DOMAIN SLOTS : First(k)
<1>1. DOMAIN SLOTS = 1 .. 8
  BY DEF SLOTS
<1>2. /\ SLOTS[1] = "last_attempt_at" /\ SLOTS[2] = "last_task_at"
      /\ SLOTS[3] = "retry_pending" /\ SLOTS[4] = "reset_candidate"
      /\ SLOTS[5] = "reset_anchor" /\ SLOTS[6] = "last_known_reset"
      /\ SLOTS[7] = "last_triggered_window" /\ SLOTS[8] = "next_due_at"
  BY DEF SLOTS
<1>3. \E k \in 1 .. 8 : SLOTS[k] \in changed
  <2>1. PICK slot \in Slots : slot \in changed
    OBVIOUS
  <2>2. \E k \in 1 .. 8 : SLOTS[k] = slot
    <3>1. /\ 1 \in 1 .. 8 /\ 2 \in 1 .. 8 /\ 3 \in 1 .. 8 /\ 4 \in 1 .. 8
          /\ 5 \in 1 .. 8 /\ 6 \in 1 .. 8 /\ 7 \in 1 .. 8 /\ 8 \in 1 .. 8
      OBVIOUS
    <3>2. QED
      BY <1>2, <3>1, Zenon DEF Slots
  <2>3. QED
    BY <2>1, <2>2
<1>4. \E k \in 1 .. 8 : First(k)
  <2>1. CASE SLOTS[1] \in changed
    BY <2>1
  <2>2. CASE SLOTS[1] \notin changed /\ SLOTS[2] \in changed
    BY <2>2
  <2>3. CASE (\A j \in 1 .. 2 : SLOTS[j] \notin changed) /\ SLOTS[3] \in changed
    BY <2>3
  <2>4. CASE (\A j \in 1 .. 3 : SLOTS[j] \notin changed) /\ SLOTS[4] \in changed
    BY <2>4
  <2>5. CASE (\A j \in 1 .. 4 : SLOTS[j] \notin changed) /\ SLOTS[5] \in changed
    BY <2>5
  <2>6. CASE (\A j \in 1 .. 5 : SLOTS[j] \notin changed) /\ SLOTS[6] \in changed
    BY <2>6
  <2>7. CASE (\A j \in 1 .. 6 : SLOTS[j] \notin changed) /\ SLOTS[7] \in changed
    BY <2>7
  <2>8. CASE (\A j \in 1 .. 7 : SLOTS[j] \notin changed) /\ SLOTS[8] \in changed
    BY <2>8
  <2>9. QED
    BY <1>3, <2>1, <2>2, <2>3, <2>4, <2>5, <2>6, <2>7, <2>8
<1>5. i \in 1 .. 8 /\ First(i) /\ NextSlot(changed) = SLOTS[i]
  BY <1>1, <1>4 DEF NextSlot
<1> HIDE DEF i
<1>5a. i = 1 \/ i = 2 \/ i = 3 \/ i = 4 \/ i = 5 \/ i = 6 \/ i = 7 \/ i = 8
  BY <1>5
<1>6. NextSlot(changed) = "retry_pending" => i = 3
  BY <1>2, <1>5, <1>5a
<1>7. NextSlot(changed) = "next_due_at" => i = 8
  BY <1>2, <1>5, <1>5a
<1>8. i = 8 => changed = {"next_due_at"}
  <2> SUFFICES ASSUME i = 8, NEW slot \in changed PROVE slot = "next_due_at"
    BY <1>2, <1>5
  <2>1. \A j \in 1 .. 7 : SLOTS[j] \notin changed
    BY <1>5
  <2>2. QED
    BY <2>1, <1>2 DEF Slots
<1>9. i = 3 => "last_task_at" \notin changed
  BY <1>2, <1>5
<1>10. QED
  BY <1>5, <1>6, <1>7, <1>8, <1>9

\* How far one mutation takes the disk towards its target.
LEMMA OneMutation ==
  ASSUME disk \in ProviderState, NEW target \in ProviderState
  PROVE  /\ Published(target) \in ProviderState
         /\ Published(target).retry_pending \in {disk.retry_pending, target.retry_pending}
         /\ Published(target).next_due_at \in {disk.next_due_at, target.next_due_at}
         /\ Published(target).next_due_at # disk.next_due_at => Published(target) = target
         /\ Published(target).retry_pending # disk.retry_pending =>
              Published(target).last_task_at = target.last_task_at
         /\ backend = "json" => Published(target) = target
<1> DEFINE p == Published(target)
           changed == Changed(disk, target)
<1>1. DOMAIN disk = Slots /\ DOMAIN target = Slots
  BY DEF ProviderState, Slots
<1>2. DOMAIN p = Slots /\ \A slot \in Slots : p[slot] \in {disk[slot], target[slot]}
  BY <1>1 DEF Published
<1>3. p \in ProviderState
  BY <1>2 DEF Published, ProviderState, Slots
<1>4. changed \subseteq Slots /\ \A slot \in Slots \ changed : disk[slot] = target[slot]
  BY <1>1 DEF Changed
<1>5. \A slot \in Slots : p[slot] # disk[slot] => slot \in Written(target) /\ p[slot] = target[slot]
  BY <1>1 DEF Published
<1>6. backend = "json" => p = target
  BY <1>1, <1>4 DEF Published, Written, Slots, ProviderState
<1>7. ASSUME backend # "json", changed # {}
      PROVE  Written(target) = {NextSlot(changed)}
  BY <1>7 DEF Written
<1>8. ASSUME changed = {}  PROVE \A slot \in Slots : p[slot] = disk[slot]
  BY <1>2, <1>4, <1>8
<1>9. QED
  <2>1. p.retry_pending \in {disk.retry_pending, target.retry_pending}
    BY <1>2 DEF Slots
  <2>2. p.next_due_at \in {disk.next_due_at, target.next_due_at}
    BY <1>2 DEF Slots
  <2>3. ASSUME backend # "json", p.next_due_at # disk.next_due_at
        PROVE  p = target
    <3>1. changed # {} /\ NextSlot(changed) = "next_due_at"
      BY <1>5, <1>7, <1>8, <2>3 DEF Slots
    <3>2. changed = {"next_due_at"}
      BY <1>4, <3>1, SlotOrder
    <3>3. \A slot \in Slots : p[slot] = target[slot]
      BY <1>2, <1>4, <1>5, <2>3, <3>2 DEF Slots
    <3>4. QED
      BY <1>1, <1>2, <1>3, <3>3 DEF ProviderState, Slots
  <2>4. ASSUME backend # "json", p.retry_pending # disk.retry_pending
        PROVE  p.last_task_at = target.last_task_at
    <3>1. changed # {} /\ NextSlot(changed) = "retry_pending"
      BY <1>5, <1>7, <1>8, <2>4 DEF Slots
    <3>2. "last_task_at" \in Slots /\ "last_task_at" \notin changed
      BY <1>4, <3>1, SlotOrder DEF Slots
    <3>3. QED
      BY <1>2, <1>4, <3>2
  <2>5. QED
    BY <1>3, <1>6, <2>1, <2>2, <2>3, <2>4

-----------------------------------------------------------------------------
(* The calls in flight.                                                    *)

\* The disk is on its way from one state to the next; the deadline comes last.
Between(from, to) ==
  /\ backend = "json" => disk = from
  /\ disk.next_due_at = from.next_due_at
  /\ disk.retry_pending \in {from.retry_pending, to.retry_pending}

\* A call that began at `at` and computed `after`.
Returns(at, after, then) ==
  /\ burst = at
  /\ commit.left = <<after>>
  /\ commit.then = then
  /\ commit.acknowledge = FALSE
  /\ Between(commit.before, after)

Recalibrated(s, obs) ==
  IF trigger = "probe_only" THEN reanchor_probe_only(s, obs, now) ELSE sync_deadline(s, obs, now)

Recalibrating ==
  \E obs \in Readings : Returns("idle", Recalibrated(commit.before, obs), "idle")

Deciding ==
  /\ trigger = "enabled"
  /\ ~commit.before.retry_pending
  /\ \E obs \in Readings :
       Returns("idle", evaluate_due(commit.before, obs, now),
               IF run_now(commit.before, obs, now) THEN "selected" ELSE "idle")

Reanchoring ==
  /\ trigger = "probe_only"
  /\ \E obs \in Readings :
       Returns("idle", reanchor_probe_only(commit.before, obs, now), "idle")

Beginning == Returns("selected", begin_attempt(commit.before, now), "attempting")

Recording == Returns("attempting", record_attempt(commit.before, now), "attempting")

Succeeding == Returns("attempting", commit_success(commit.before, now), "calibrating")

\* A resumption: the state, then its acknowledgement.
Resumes(after) ==
  \/ commit.left = <<after>> /\ Between(commit.before, after)
  \/ commit.left = <<>> /\ (backend = "json" => disk = after)

Resuming ==
  /\ trigger = "awaiting_resume" /\ burst = "idle"
  /\ commit.then = "idle" /\ commit.acknowledge = TRUE
  /\ \E obs \in Readings :
       /\ valid_reset_at(obs, now) # Unset
       /\ Resumes(reanchor_probe_only(commit.before, obs, now))

\* The post-run probe: the window, then the deadline.
Calibrates(recorded, after) ==
  \/ commit.left = <<recorded, after>> /\ Between(commit.before, recorded)
  \/ commit.left = <<after>> /\ Between(recorded, after)
  \/ commit.left = <<recorded>> /\ after = recorded /\ Between(commit.before, recorded)

Calibrating ==
  /\ burst = "calibrating"
  /\ commit.then = "idle" /\ commit.acknowledge = FALSE
  /\ \E obs \in Readings :
       LET reset    == valid_reset_at(obs, now)
           recorded == record_last_window(commit.before, reset)
       IN  reset # Unset /\ Calibrates(recorded, sync_deadline(recorded, obs, now))

InFlight ==
  /\ commit.op = "sync" => Recalibrating
  /\ commit.op = "decide" => Deciding
  /\ commit.op = "reanchor" => Reanchoring
  /\ commit.op = "begin" => Beginning
  /\ commit.op = "record" => Recording
  /\ commit.op = "success" => Succeeding
  /\ commit.op = "resume" => Resuming
  /\ commit.op = "calibrate" => Calibrating

\* Nothing but a success is under way between a debt and its model.
DebtInv ==
  /\ burst = "attempting" /\ commit = NoCommit => disk.retry_pending
  /\ commit # NoCommit /\ commit.op = "record" => commit.before.retry_pending

IInv ==
  /\ TypeOK
  /\ commit # NoCommit => InFlight
  /\ DebtInv

LEMMA InitInvariant == Init => IInv
<1>1. EmptyState \in ProviderState
  BY DEF EmptyState, ProviderState, Instant
<1>2. QED
  BY <1>1 DEF Init, IInv, TypeOK, DebtInv, Bursts

\* A call returns at once, or leaves one state to be published.
LEMMA ApplyStep ==
  ASSUME IInv, NEW op \in Operations, NEW after \in ProviderState, NEW then \in Bursts,
         Apply(op, after, then), UNCHANGED backend
  PROVE  /\ TypeOK'
         /\ UNCHANGED <<now, trigger, disk, backend>>
         /\ \/ after = disk /\ commit' = NoCommit /\ burst' = then
            \/ /\ commit' # NoCommit /\ commit'.op = op /\ commit'.before = disk
               /\ commit'.left = <<after>> /\ commit'.then = then
               /\ commit'.acknowledge = FALSE /\ burst' = burst
<1>1. /\ commit = NoCommit /\ UNCHANGED <<now, trigger, disk, backend>>
      /\ disk \in ProviderState /\ burst \in Bursts
  BY DEF Apply, Carry, IInv, TypeOK
<1>2. CASE after = disk
  <2>1. commit' = NoCommit /\ burst' = then
    BY <1>1, <1>2 DEF Apply, Carry, Plan
  <2>2. QED
    BY <1>1, <1>2, <2>1 DEF IInv, TypeOK
<1>3. CASE after # disk
  <2>1. /\ commit' = [op |-> op, before |-> disk, left |-> <<after>>, then |-> then,
                      acknowledge |-> FALSE]
        /\ burst' = burst
    BY <1>3 DEF Apply, Carry, Plan, Commit
  <2>2. commit' # NoCommit
    BY <2>1 DEF NoCommit, Operations
  <2>3. <<after>> \in Seq(ProviderState)
    OBVIOUS
  <2>4. TypeOK'
    BY <1>1, <2>1, <2>3 DEF IInv, TypeOK
  <2>5. QED
    BY <1>1, <2>1, <2>2, <2>4
<1>4. QED
  BY <1>2, <1>3

LEMMA RecalibrateStep ==
  ASSUME IInv, NEW obs \in Readings, Recalibrate(obs), UNCHANGED backend
  PROVE  IInv'
<1> DEFINE after == Recalibrated(disk, obs)
<1>1. now \in Nat /\ disk \in ProviderState /\ obs \in QuotaObservation
  BY ReadingsAreObservations DEF IInv, TypeOK
<1>2. after \in ProviderState /\ "sync" \in Operations /\ "idle" \in Bursts
  BY <1>1, SyncKeeps, ReanchorType DEF Recalibrated, Operations, Bursts
<1>3. burst = "idle" /\ Apply("sync", after, "idle")
  BY DEF Recalibrate, Recalibrated
<1> HIDE DEF after
<1>4. /\ TypeOK' /\ UNCHANGED <<now, trigger, disk, backend>>
      /\ \/ commit' = NoCommit /\ burst' = "idle"
         \/ /\ commit' # NoCommit /\ commit'.op = "sync" /\ commit'.before = disk
            /\ commit'.left = <<after>> /\ commit'.then = "idle"
            /\ commit'.acknowledge = FALSE /\ burst' = "idle"
  BY <1>2, <1>3, ApplyStep
<1>5. ASSUME commit' # NoCommit  PROVE Recalibrating'
  <2>1. Returns("idle", Recalibrated(commit.before, obs), "idle")'
    BY <1>4, <1>5 DEF Returns, Between, Recalibrated, after
  <2>2. Readings' = Readings
    BY <1>4 DEF Readings
  <2>3. QED
    BY <2>1, <2>2 DEF Recalibrating
<1>6. QED
  BY <1>4, <1>5 DEF IInv, InFlight, DebtInv

LEMMA DecideStep ==
  ASSUME IInv, NEW obs \in Readings, DecideDue(obs), UNCHANGED backend
  PROVE  IInv'
<1> DEFINE after == evaluate_due(disk, obs, now)
           then == IF run_now(disk, obs, now) THEN "selected" ELSE "idle"
<1>1. now \in Nat /\ disk \in ProviderState /\ obs \in QuotaObservation
  BY ReadingsAreObservations DEF IInv, TypeOK
<1>2. after \in ProviderState /\ "decide" \in Operations /\ then \in Bursts
  BY <1>1, EvaluateKeeps DEF Operations, Bursts
<1>3. /\ burst = "idle" /\ trigger = "enabled" /\ ~disk.retry_pending
      /\ Apply("decide", after, then)
  BY DEF DecideDue
<1> HIDE DEF after, then
<1>4. /\ TypeOK' /\ UNCHANGED <<now, trigger, disk, backend>>
      /\ \/ commit' = NoCommit /\ burst' = then
         \/ /\ commit' # NoCommit /\ commit'.op = "decide" /\ commit'.before = disk
            /\ commit'.left = <<after>> /\ commit'.then = then
            /\ commit'.acknowledge = FALSE /\ burst' = "idle"
  BY <1>2, <1>3, ApplyStep
<1>5. ASSUME commit' # NoCommit  PROVE Deciding'
  <2>1. Returns("idle", evaluate_due(commit.before, obs, now),
                IF run_now(commit.before, obs, now) THEN "selected" ELSE "idle")'
    BY <1>4, <1>5 DEF Returns, Between, after, then
  <2>2. Readings' = Readings
    BY <1>4 DEF Readings
  <2>3. QED
    BY <1>3, <1>4, <1>5, <2>1, <2>2 DEF Deciding
<1>6. QED
  BY <1>4, <1>5 DEF IInv, InFlight, DebtInv, then

LEMMA ReanchorStep ==
  ASSUME IInv, NEW obs \in Readings, ReanchorProbeOnly(obs), UNCHANGED backend
  PROVE  IInv'
<1> DEFINE after == reanchor_probe_only(disk, obs, now)
<1>1. now \in Nat /\ disk \in ProviderState /\ obs \in QuotaObservation
  BY ReadingsAreObservations DEF IInv, TypeOK
<1>2. after \in ProviderState /\ "reanchor" \in Operations /\ "idle" \in Bursts
  BY <1>1, ReanchorType DEF Operations, Bursts
<1>3. burst = "idle" /\ trigger = "probe_only" /\ Apply("reanchor", after, "idle")
  BY DEF ReanchorProbeOnly
<1> HIDE DEF after
<1>4. /\ TypeOK' /\ UNCHANGED <<now, trigger, disk, backend>>
      /\ \/ commit' = NoCommit /\ burst' = "idle"
         \/ /\ commit' # NoCommit /\ commit'.op = "reanchor" /\ commit'.before = disk
            /\ commit'.left = <<after>> /\ commit'.then = "idle"
            /\ commit'.acknowledge = FALSE /\ burst' = "idle"
  BY <1>2, <1>3, ApplyStep
<1>5. ASSUME commit' # NoCommit  PROVE Reanchoring'
  <2>1. Returns("idle", reanchor_probe_only(commit.before, obs, now), "idle")'
    BY <1>4, <1>5 DEF Returns, Between, after
  <2>2. Readings' = Readings
    BY <1>4 DEF Readings
  <2>3. QED
    BY <1>3, <1>4, <2>1, <2>2 DEF Reanchoring
<1>6. QED
  BY <1>4, <1>5 DEF IInv, InFlight, DebtInv

LEMMA BeginStep ==
  ASSUME IInv, BeginAttempt, UNCHANGED backend
  PROVE  IInv'
<1> DEFINE after == begin_attempt(disk, now)
<1>1. now \in Nat /\ disk \in ProviderState
  BY DEF IInv, TypeOK
<1>2. after \in ProviderState /\ "begin" \in Operations /\ "attempting" \in Bursts
  BY <1>1, AttemptType DEF Operations, Bursts
<1>3. burst = "selected" /\ commit = NoCommit /\ Apply("begin", after, "attempting")
  BY DEF BeginAttempt, Apply
<1> HIDE DEF after
<1>4. /\ TypeOK' /\ UNCHANGED <<now, trigger, disk, backend>>
      /\ \/ after = disk /\ commit' = NoCommit /\ burst' = "attempting"
         \/ /\ commit' # NoCommit /\ commit'.op = "begin" /\ commit'.before = disk
            /\ commit'.left = <<after>> /\ commit'.then = "attempting"
            /\ commit'.acknowledge = FALSE /\ burst' = "selected"
  BY <1>2, <1>3, ApplyStep
<1>5. ASSUME commit' # NoCommit  PROVE Beginning'
  BY <1>4, <1>5 DEF Beginning, Returns, Between, after
<1>6. DebtInv'
  <2>1. after.retry_pending = TRUE
    BY <1>1, AttemptType DEF after
  <2>2. QED
    BY <1>4, <2>1 DEF DebtInv
<1>7. QED
  BY <1>4, <1>5, <1>6 DEF IInv, InFlight

LEMMA RecordStep ==
  ASSUME IInv, RecordAttempt, UNCHANGED backend
  PROVE  IInv'
<1> DEFINE after == record_attempt(disk, now)
<1>1. now \in Nat /\ disk \in ProviderState
  BY DEF IInv, TypeOK
<1>2. after \in ProviderState /\ "record" \in Operations /\ "attempting" \in Bursts
  BY <1>1, AttemptType DEF Operations, Bursts
<1>3. burst = "attempting" /\ commit = NoCommit /\ Apply("record", after, "attempting")
  BY DEF RecordAttempt, Apply
<1> HIDE DEF after
<1>4. /\ TypeOK' /\ UNCHANGED <<now, trigger, disk, backend>>
      /\ \/ after = disk /\ commit' = NoCommit /\ burst' = "attempting"
         \/ /\ commit' # NoCommit /\ commit'.op = "record" /\ commit'.before = disk
            /\ commit'.left = <<after>> /\ commit'.then = "attempting"
            /\ commit'.acknowledge = FALSE /\ burst' = "attempting"
  BY <1>2, <1>3, ApplyStep
<1>5. ASSUME commit' # NoCommit  PROVE Recording'
  BY <1>4, <1>5 DEF Recording, Returns, Between, after
<1>6. DebtInv'
  BY <1>3, <1>4 DEF IInv, DebtInv
<1>7. QED
  BY <1>4, <1>5, <1>6 DEF IInv, InFlight

LEMMA SucceedStep ==
  ASSUME IInv, Succeed, UNCHANGED backend
  PROVE  IInv'
<1> DEFINE after == commit_success(disk, now)
<1>1. now \in Nat /\ disk \in ProviderState
  BY DEF IInv, TypeOK
<1>2. after \in ProviderState /\ "success" \in Operations /\ "calibrating" \in Bursts
  BY <1>1, SuccessType DEF Operations, Bursts
<1>3. burst = "attempting" /\ commit = NoCommit /\ Apply("success", after, "calibrating")
  BY DEF Succeed, Apply
<1> HIDE DEF after
<1>4. /\ TypeOK' /\ UNCHANGED <<now, trigger, disk, backend>>
      /\ \/ after = disk /\ commit' = NoCommit /\ burst' = "calibrating"
         \/ /\ commit' # NoCommit /\ commit'.op = "success" /\ commit'.before = disk
            /\ commit'.left = <<after>> /\ commit'.then = "calibrating"
            /\ commit'.acknowledge = FALSE /\ burst' = "attempting"
  BY <1>2, <1>3, ApplyStep
<1>5. ASSUME commit' # NoCommit  PROVE Succeeding'
  BY <1>4, <1>5 DEF Succeeding, Returns, Between, after
<1>6. DebtInv'
  BY <1>4 DEF DebtInv
<1>7. QED
  BY <1>4, <1>5, <1>6 DEF IInv, InFlight

LEMMA ResumeStep ==
  ASSUME IInv, NEW obs \in Readings, ResumeProvider(obs), UNCHANGED backend
  PROVE  IInv'
<1> DEFINE after == reanchor_probe_only(disk, obs, now)
           plan == Plan(disk, after)
<1>1. now \in Nat /\ disk \in ProviderState /\ obs \in QuotaObservation
  BY ReadingsAreObservations DEF IInv, TypeOK
<1>2. after \in ProviderState
  BY <1>1, ReanchorType
<1>3. /\ burst = "idle" /\ trigger = "awaiting_resume" /\ valid_reset_at(obs, now) # Unset
      /\ commit' = Commit("resume", plan, "idle", TRUE)
      /\ UNCHANGED <<now, trigger, burst, disk, backend>>
  BY DEF ResumeProvider
<1> HIDE DEF after
<1>4. plan \in Seq(ProviderState) /\ (plan = <<after>> \/ (plan = <<>> /\ after = disk))
  BY <1>2 DEF Plan
<1> HIDE DEF plan
<1>5. /\ commit' = [op |-> "resume", before |-> disk, left |-> plan, then |-> "idle",
                    acknowledge |-> TRUE]
      /\ commit' # NoCommit
      /\ commit'.op = "resume" /\ commit'.before = disk /\ commit'.left = plan
      /\ commit'.then = "idle" /\ commit'.acknowledge = TRUE
  BY <1>3 DEF Commit, NoCommit
<1>6. TypeOK'
  <2>1. disk \in ProviderState /\ "resume" \in Operations /\ "idle" \in Bursts
    BY <1>1 DEF Operations, Bursts
  <2>2. commit' \in [op : Operations, before : ProviderState, left : Seq(ProviderState),
                     then : Bursts, acknowledge : BOOLEAN]
    BY <1>4, <1>5, <2>1
  <2>3. QED
    BY <1>3, <2>2 DEF IInv, TypeOK
<1>7. Resuming'
  <2>1. reanchor_probe_only(commit.before, obs, now)' = after
    BY <1>3, <1>5 DEF after
  <2>2. Resumes(reanchor_probe_only(commit.before, obs, now))'
    BY <1>3, <1>4, <1>5, <2>1 DEF Resumes, Between
  <2>3. Readings' = Readings /\ valid_reset_at(obs, now)' # Unset
    BY <1>3 DEF Readings
  <2>4. QED
    BY <1>3, <1>5, <2>2, <2>3 DEF Resuming
<1>8. QED
  BY <1>3, <1>5, <1>6, <1>7 DEF IInv, InFlight, DebtInv

LEMMA Pair ==
  ASSUME NEW a, NEW b  PROVE <<a>> \o <<b>> = <<a, b>>
<1> DEFINE S == {a, b}
<1>1. <<a>> \in Seq(S) /\ <<b>> \in Seq(S) /\ <<a, b>> \in Seq(S)
  OBVIOUS
<1>2. /\ <<a>> \o <<b>> \in Seq(S) /\ Len(<<a>> \o <<b>>) = 2
      /\ \A i \in 1 .. 2 : (<<a>> \o <<b>>)[i] = <<a, b>>[i]
  BY <1>1
<1> HIDE DEF S
<1>3. QED
  BY <1>1, <1>2, SeqEqual

LEMMA PostRunStep ==
  ASSUME IInv, NEW obs \in Readings, PostRunSync(obs), UNCHANGED backend
  PROVE  IInv'
<1> DEFINE reset == valid_reset_at(obs, now)
           recorded == record_last_window(disk, reset)
           after == sync_deadline(recorded, obs, now)
           plan == IF reset = Unset THEN <<>> ELSE Plan(disk, recorded) \o Plan(recorded, after)
<1>1. now \in Nat /\ disk \in ProviderState /\ obs \in QuotaObservation
  BY ReadingsAreObservations DEF IInv, TypeOK
<1>2. reset # Unset => recorded \in ProviderState /\ after \in ProviderState
  BY <1>1, ValidReset, WindowType, SyncKeeps
<1>3. /\ burst = "calibrating" /\ commit = NoCommit
      /\ UNCHANGED <<now, trigger, disk, backend>>
      /\ \/ plan = <<>> /\ burst' = "idle" /\ commit' = commit
         \/ /\ plan # <<>> /\ burst' = burst
            /\ commit' = Commit("calibrate", plan, "idle", FALSE)
  BY DEF PostRunSync, Carry
<1> HIDE DEF after, recorded, reset
<1>4. plan # <<>> =>
        /\ reset # Unset /\ plan \in Seq(ProviderState)
        /\ \/ plan = <<recorded, after>>
           \/ plan = <<after>> /\ recorded = disk
           \/ plan = <<recorded>> /\ after = recorded
  <2> SUFFICES ASSUME reset # Unset
               PROVE  /\ plan \in Seq(ProviderState)
                      /\ \/ plan = <<>>
                         \/ plan = <<recorded, after>>
                         \/ plan = <<after>> /\ recorded = disk
                         \/ plan = <<recorded>> /\ after = recorded
    OBVIOUS
  <2>1. plan = Plan(disk, recorded) \o Plan(recorded, after)
    OBVIOUS
  <2>2. /\ Plan(disk, recorded) = IF recorded = disk THEN <<>> ELSE <<recorded>>
        /\ Plan(recorded, after) = IF after = recorded THEN <<>> ELSE <<after>>
    BY DEF Plan
  <2> HIDE DEF plan
  <2>3. CASE recorded = disk /\ after = recorded
    BY <2>1, <2>2, <2>3
  <2>4. CASE recorded = disk /\ after # recorded
    BY <1>2, <2>1, <2>2, <2>4
  <2>5. CASE recorded # disk /\ after = recorded
    BY <1>2, <2>1, <2>2, <2>5
  <2>6. CASE recorded # disk /\ after # recorded
    <3>1. plan = <<recorded>> \o <<after>>
      BY <2>1, <2>2, <2>6
    <3>2. plan = <<recorded, after>>
      BY <3>1, Pair
    <3>3. recorded \in ProviderState /\ after \in ProviderState
      BY <1>2
    <3>4. <<recorded, after>> \in Seq(ProviderState)
      BY <3>3
    <3>5. QED
      BY <3>2, <3>4
  <2>7. QED
    BY <2>3, <2>4, <2>5, <2>6
<1> HIDE DEF plan
<1>5. CASE plan = <<>>
  BY <1>3, <1>5 DEF IInv, TypeOK, DebtInv, Bursts
<1>6. CASE plan # <<>>
  <2>1. /\ commit' = [op |-> "calibrate", before |-> disk, left |-> plan, then |-> "idle",
                      acknowledge |-> FALSE]
        /\ commit' # NoCommit
        /\ commit'.op = "calibrate" /\ commit'.before = disk /\ commit'.left = plan
        /\ commit'.then = "idle" /\ commit'.acknowledge = FALSE
    BY <1>3, <1>6 DEF Commit, NoCommit
  <2>2. TypeOK'
    BY <1>3, <1>4, <1>6, <2>1 DEF IInv, TypeOK, Operations, Bursts
  <2>3. Calibrating'
    <3>1. /\ valid_reset_at(obs, now)' = reset
          /\ record_last_window(commit.before, valid_reset_at(obs, now))' = recorded
          /\ sync_deadline(record_last_window(commit.before, valid_reset_at(obs, now)),
                           obs, now)' = after
      BY <1>3, <2>1 DEF reset, recorded, after
    <3>2. Calibrates(record_last_window(commit.before, valid_reset_at(obs, now)),
                     sync_deadline(record_last_window(commit.before, valid_reset_at(obs, now)),
                                   obs, now))'
      BY <1>3, <1>4, <1>6, <2>1, <3>1 DEF Calibrates, Between
    <3>3. Readings' = Readings
      BY <1>3 DEF Readings
    <3>4. QED
      BY <1>3, <1>4, <1>6, <2>1, <3>1, <3>2, <3>3 DEF Calibrating
  <2>4. QED
    BY <1>3, <1>6, <2>1, <2>2, <2>3 DEF IInv, InFlight, DebtInv
<1>7. QED
  BY <1>5, <1>6

-----------------------------------------------------------------------------
(* A mutation.                                                             *)

CommitType ==
  [op : Operations, before : ProviderState, left : Seq(ProviderState),
   then : Bursts, acknowledge : BOOLEAN]

LEMMA PublishType ==
  ASSUME IInv, Publish, UNCHANGED backend
  PROVE  /\ TypeOK' /\ UNCHANGED <<now, trigger, backend>>
         /\ commit \in CommitType /\ commit # NoCommit /\ commit.left # <<>>
         /\ Head(commit.left) \in ProviderState
         /\ disk' = Published(Head(commit.left))
         /\ \/ disk' # Head(commit.left) /\ UNCHANGED <<burst, commit>>
            \/ /\ disk' = Head(commit.left) /\ UNCHANGED burst
               /\ Tail(commit.left) # <<>> \/ commit.acknowledge = TRUE
               /\ commit' = [commit EXCEPT !.left = Tail(commit.left)]
               /\ commit' \in CommitType /\ commit' # NoCommit
            \/ /\ disk' = Head(commit.left)
               /\ Tail(commit.left) = <<>> /\ commit.acknowledge = FALSE
               /\ commit' = NoCommit /\ burst' = commit.then
<1>1. /\ commit \in CommitType /\ commit.left \in Seq(ProviderState) /\ commit.left # <<>>
      /\ disk \in ProviderState /\ commit # NoCommit
      /\ commit.then \in Bursts /\ commit.acknowledge \in BOOLEAN
  BY DEF Publish, IInv, TypeOK, CommitType
<1>2. Head(commit.left) \in ProviderState /\ Tail(commit.left) \in Seq(ProviderState)
  BY <1>1
<1>3. disk' = Published(Head(commit.left)) /\ disk' \in ProviderState
  BY <1>1, <1>2, OneMutation DEF Publish
<1>4. [commit EXCEPT !.left = Tail(commit.left)] \in CommitType
  BY <1>1, <1>2 DEF CommitType
<1>5. \A c \in CommitType : c # NoCommit
  BY DEF CommitType, NoCommit, Operations
<1>6. UNCHANGED <<now, trigger, backend>>
  BY DEF Publish
<1>7. \/ disk' # Head(commit.left) /\ UNCHANGED <<burst, commit>>
      \/ /\ disk' = Head(commit.left) /\ UNCHANGED burst
         /\ Tail(commit.left) # <<>> \/ commit.acknowledge = TRUE
         /\ commit' = [commit EXCEPT !.left = Tail(commit.left)]
      \/ /\ disk' = Head(commit.left)
         /\ Tail(commit.left) = <<>> /\ commit.acknowledge = FALSE
         /\ commit' = NoCommit /\ burst' = commit.then
  BY <1>1 DEF Publish
<1>8. commit' \in CommitType \/ commit' = NoCommit
  BY <1>1, <1>4, <1>7
<1>9. burst' \in Bursts
  BY <1>1, <1>7 DEF IInv, TypeOK
<1>10. TypeOK'
  BY <1>3, <1>6, <1>8, <1>9 DEF IInv, TypeOK, CommitType
<1>11. QED
  BY <1>1, <1>2, <1>3, <1>4, <1>5, <1>6, <1>7, <1>10

\* The last state of a call: it returns, or it is nearer.
LEMMA PublishReturns ==
  ASSUME IInv, Publish, UNCHANGED backend, NEW at, NEW after, NEW then,
         Returns(at, after, then)
  PROVE  \/ commit' = NoCommit /\ burst' = then /\ disk' = after
         \/ /\ commit' = commit /\ burst' = burst /\ disk' # after
            /\ backend # "json"
            /\ disk'.next_due_at = commit.before.next_due_at
            /\ disk'.retry_pending \in {commit.before.retry_pending, after.retry_pending}
<1>1. /\ Head(commit.left) = after /\ Tail(commit.left) = <<>>
      /\ commit.acknowledge = FALSE /\ commit.then = then
      /\ Between(commit.before, after)
  BY DEF Returns
<1>2. disk \in ProviderState /\ after \in ProviderState
  BY <1>1, PublishType DEF IInv, TypeOK
<1>3. CASE commit' = NoCommit
  BY <1>1, <1>3, PublishType
<1>4. CASE commit' # NoCommit
  <2>1. commit' = commit /\ burst' = burst /\ disk' # after /\ disk' = Published(after)
    BY <1>1, <1>4, PublishType
  <2>2. QED
    BY <1>1, <1>2, <2>1, OneMutation DEF Between
<1>5. QED
  BY <1>3, <1>4

LEMMA PublishAlone ==
  ASSUME IInv, Publish, UNCHANGED backend,
         commit.op \in {"sync", "decide", "reanchor", "begin", "record", "success"}
  PROVE  IInv'
<1> USE DEF InFlight
<1>1. /\ TypeOK' /\ UNCHANGED <<now, trigger, backend>> /\ Readings' = Readings
      /\ commit # NoCommit /\ commit.before \in ProviderState /\ now \in Nat
  BY PublishType DEF Readings, CommitType, IInv, TypeOK
<1>2. CASE commit.op = "sync"
  <2>1. PICK obs \in Readings : Returns("idle", Recalibrated(commit.before, obs), "idle")
    BY <1>1, <1>2 DEF IInv, Recalibrating
  <2>2. CASE commit' = NoCommit
    BY <1>1, <2>1, <2>2, PublishReturns DEF IInv, DebtInv
  <2>3. CASE commit' # NoCommit
    <3>1. commit' = commit /\ Returns("idle", Recalibrated(commit.before, obs), "idle")'
      BY <1>1, <2>1, <2>3, PublishReturns DEF Returns, Between, Recalibrated
    <3>2. QED
      BY <1>1, <1>2, <3>1 DEF IInv, DebtInv, Recalibrating
  <2>4. QED
    BY <2>2, <2>3
<1>3. CASE commit.op = "decide"
  <2>1. PICK obs \in Readings :
          Returns("idle", evaluate_due(commit.before, obs, now),
                  IF run_now(commit.before, obs, now) THEN "selected" ELSE "idle")
    BY <1>1, <1>3 DEF IInv, Deciding
  <2>2. CASE commit' = NoCommit
    BY <1>1, <2>1, <2>2, PublishReturns DEF IInv, DebtInv
  <2>3. CASE commit' # NoCommit
    <3>1. /\ commit' = commit
          /\ Returns("idle", evaluate_due(commit.before, obs, now),
                     IF run_now(commit.before, obs, now) THEN "selected" ELSE "idle")'
      BY <1>1, <2>1, <2>3, PublishReturns DEF Returns, Between
    <3>2. QED
      BY <1>1, <1>3, <3>1 DEF IInv, DebtInv, Deciding
  <2>4. QED
    BY <2>2, <2>3
<1>4. CASE commit.op = "reanchor"
  <2>1. PICK obs \in Readings :
          Returns("idle", reanchor_probe_only(commit.before, obs, now), "idle")
    BY <1>1, <1>4 DEF IInv, Reanchoring
  <2>2. CASE commit' = NoCommit
    BY <1>1, <2>1, <2>2, PublishReturns DEF IInv, DebtInv
  <2>3. CASE commit' # NoCommit
    <3>1. /\ commit' = commit
          /\ Returns("idle", reanchor_probe_only(commit.before, obs, now), "idle")'
      BY <1>1, <2>1, <2>3, PublishReturns DEF Returns, Between
    <3>2. QED
      BY <1>1, <1>4, <3>1 DEF IInv, DebtInv, Reanchoring
  <2>4. QED
    BY <2>2, <2>3
<1>5. CASE commit.op = "begin"
  <2>1. /\ Returns("selected", begin_attempt(commit.before, now), "attempting")
        /\ begin_attempt(commit.before, now).retry_pending = TRUE
    BY <1>1, <1>5, AttemptType DEF IInv, Beginning
  <2>2. CASE commit' = NoCommit
    BY <1>1, <2>1, <2>2, PublishReturns DEF IInv, DebtInv
  <2>3. CASE commit' # NoCommit
    <3>1. commit' = commit /\ Beginning'
      BY <1>1, <2>1, <2>3, PublishReturns DEF Beginning, Returns, Between
    <3>2. QED
      BY <1>1, <1>5, <3>1 DEF IInv, DebtInv
  <2>4. QED
    BY <2>2, <2>3
<1>6. CASE commit.op = "record"
  <2>1. /\ Returns("attempting", record_attempt(commit.before, now), "attempting")
        /\ commit.before.retry_pending
        /\ record_attempt(commit.before, now).retry_pending = commit.before.retry_pending
    BY <1>1, <1>6, AttemptType DEF IInv, Recording, DebtInv
  <2>2. CASE commit' = NoCommit
    BY <1>1, <2>1, <2>2, PublishReturns DEF IInv, DebtInv
  <2>3. CASE commit' # NoCommit
    <3>1. commit' = commit /\ Recording'
      BY <1>1, <2>1, <2>3, PublishReturns DEF Recording, Returns, Between
    <3>2. QED
      BY <1>1, <1>6, <2>1, <3>1 DEF IInv, DebtInv
  <2>4. QED
    BY <2>2, <2>3
<1>7. CASE commit.op = "success"
  <2>1. Returns("attempting", commit_success(commit.before, now), "calibrating")
    BY <1>1, <1>7 DEF IInv, Succeeding
  <2>2. CASE commit' = NoCommit
    BY <1>1, <2>1, <2>2, PublishReturns DEF IInv, DebtInv
  <2>3. CASE commit' # NoCommit
    <3>1. commit' = commit /\ Succeeding'
      BY <1>1, <2>1, <2>3, PublishReturns DEF Succeeding, Returns, Between
    <3>2. QED
      BY <1>1, <1>7, <3>1 DEF IInv, DebtInv
  <2>4. QED
    BY <2>2, <2>3
<1>8. QED
  BY <1>2, <1>3, <1>4, <1>5, <1>6, <1>7

LEMMA PublishResumption ==
  ASSUME IInv, Publish, UNCHANGED backend, commit.op = "resume"
  PROVE  IInv'
<1>1. /\ TypeOK' /\ UNCHANGED <<now, trigger, backend>> /\ Readings' = Readings
      /\ commit # NoCommit /\ commit.before \in ProviderState /\ now \in Nat
      /\ disk \in ProviderState
  BY PublishType DEF Readings, CommitType, IInv, TypeOK
<1>2. PICK obs \in Readings : /\ valid_reset_at(obs, now) # Unset
                              /\ Resumes(reanchor_probe_only(commit.before, obs, now))
  BY <1>1 DEF IInv, InFlight, Resuming
<1>3. /\ trigger = "awaiting_resume" /\ burst = "idle"
      /\ commit.then = "idle" /\ commit.acknowledge = TRUE
  BY <1>1 DEF IInv, InFlight, Resuming
<1> DEFINE after == reanchor_probe_only(commit.before, obs, now)
<1>4. /\ commit.left = <<after>> /\ Between(commit.before, after)
      /\ Head(commit.left) = after /\ Tail(commit.left) = <<>> /\ after \in ProviderState
  <2>1. commit.left # <<>>
    BY PublishType
  <2>2. commit.left = <<after>> /\ Between(commit.before, after)
    BY <1>2, <2>1 DEF Resumes
  <2> HIDE DEF after
  <2>3. Head(commit.left) = after /\ Tail(commit.left) = <<>>
    BY <2>2
  <2>4. QED
    BY <2>2, <2>3, PublishType
<1>5. /\ commit' # NoCommit /\ UNCHANGED burst /\ commit'.op = "resume"
      /\ commit'.before = commit.before /\ commit'.then = "idle"
      /\ commit'.acknowledge = TRUE
      /\ \/ disk' = after /\ commit'.left = <<>>
         \/ disk' # after /\ commit'.left = <<after>>
  BY <1>3, <1>4, PublishType DEF CommitType
<1>6. reanchor_probe_only(commit.before, obs, now)' = after
  BY <1>1, <1>5
<1>7. disk' = Published(after)
  BY <1>4, PublishType
<1> HIDE DEF after
<1>8. disk' # after => /\ backend # "json"
                       /\ disk'.next_due_at = commit.before.next_due_at
                       /\ disk'.retry_pending \in {commit.before.retry_pending,
                                                   after.retry_pending}
  BY <1>1, <1>4, <1>7, OneMutation DEF Between
<1>9. Resumes(reanchor_probe_only(commit.before, obs, now))'
  BY <1>1, <1>5, <1>6, <1>8 DEF Resumes, Between
<1>10. Resuming'
  BY <1>1, <1>2, <1>3, <1>5, <1>9 DEF Resuming
<1>11. QED
  BY <1>1, <1>3, <1>5, <1>10 DEF IInv, InFlight, DebtInv

LEMMA PublishCalibration ==
  ASSUME IInv, Publish, UNCHANGED backend, commit.op = "calibrate"
  PROVE  IInv'
<1>1. /\ TypeOK' /\ UNCHANGED <<now, trigger, backend>> /\ Readings' = Readings
      /\ commit # NoCommit /\ commit.before \in ProviderState /\ now \in Nat
      /\ disk \in ProviderState
  BY PublishType DEF Readings, CommitType, IInv, TypeOK
<1>2. PICK obs \in Readings :
        LET reset    == valid_reset_at(obs, now)
            recorded == record_last_window(commit.before, reset)
        IN  reset # Unset /\ Calibrates(recorded, sync_deadline(recorded, obs, now))
  BY <1>1 DEF IInv, InFlight, Calibrating
<1>3. burst = "calibrating" /\ commit.then = "idle" /\ commit.acknowledge = FALSE
  BY <1>1 DEF IInv, InFlight, Calibrating
<1> DEFINE reset == valid_reset_at(obs, now)
           recorded == record_last_window(commit.before, reset)
           after == sync_deadline(recorded, obs, now)
<1>4. /\ recorded \in ProviderState /\ after \in ProviderState
      /\ recorded.next_due_at = commit.before.next_due_at
      /\ recorded.retry_pending = commit.before.retry_pending
  BY <1>1, <1>2, ReadingsAreObservations, ValidReset, WindowType, SyncKeeps
<1>5. CASE commit' = NoCommit
  BY <1>1, <1>3, <1>5, PublishType DEF IInv, DebtInv
<1>6. CASE commit' # NoCommit
  <2>1. /\ UNCHANGED burst /\ commit'.op = "calibrate" /\ commit'.before = commit.before
        /\ commit'.then = "idle" /\ commit'.acknowledge = FALSE
        /\ \/ disk' # Head(commit.left) /\ commit' = commit
           \/ /\ disk' = Head(commit.left) /\ Tail(commit.left) # <<>>
              /\ commit'.left = Tail(commit.left)
    BY <1>3, <1>6, PublishType DEF CommitType
  <2>2. /\ valid_reset_at(obs, now)' = reset
        /\ record_last_window(commit.before, valid_reset_at(obs, now))' = recorded
        /\ sync_deadline(record_last_window(commit.before, valid_reset_at(obs, now)),
                         obs, now)' = after
    BY <1>1, <2>1
  <2>3. disk' = Published(Head(commit.left)) /\ Calibrates(recorded, after) /\ reset # Unset
    BY <1>2, PublishType
  <2> HIDE DEF after, recorded, reset
  <2> DEFINE Nearer(from, to) ==
               /\ backend = "json" => disk' = from
               /\ disk'.next_due_at = from.next_due_at
               /\ disk'.retry_pending \in {from.retry_pending, to.retry_pending}
  <2>4. \/ commit'.left = <<recorded, after>> /\ Nearer(commit.before, recorded)
        \/ commit'.left = <<after>> /\ Nearer(recorded, after)
        \/ /\ commit'.left = <<recorded>> /\ after = recorded
           /\ Nearer(commit.before, recorded)
    <3>1. CASE commit.left = <<recorded, after>> /\ Between(commit.before, recorded)
      <4>1. Head(commit.left) = recorded /\ Tail(commit.left) = <<after>>
        BY <3>1
      <4>2. CASE disk' = recorded
        <5>1. commit'.left = <<after>>
          BY <2>1, <4>1, <4>2
        <5>2. Nearer(recorded, after)
          BY <4>2
        <5>3. QED
          BY <5>1, <5>2
      <4>3. CASE disk' # recorded
        <5>1. commit'.left = <<recorded, after>>
          BY <2>1, <3>1, <4>1, <4>3
        <5>2. disk' = Published(recorded)
          BY <2>3, <4>1
        <5>3. Nearer(commit.before, recorded)
          BY <1>1, <1>4, <3>1, <4>3, <5>2, OneMutation DEF Between
        <5>4. QED
          BY <5>1, <5>3
      <4>4. QED
        BY <4>2, <4>3
    <3>2. CASE commit.left = <<after>> /\ Between(recorded, after)
      <4>1. Head(commit.left) = after /\ Tail(commit.left) = <<>>
        BY <3>2
      <4>2. disk' # after /\ disk' = Published(after) /\ commit'.left = <<after>>
        BY <2>1, <2>3, <3>2, <4>1
      <4>3. Nearer(recorded, after)
        BY <1>1, <1>4, <3>2, <4>2, OneMutation DEF Between
      <4>4. QED
        BY <4>2, <4>3
    <3>3. CASE /\ commit.left = <<recorded>> /\ after = recorded
               /\ Between(commit.before, recorded)
      <4>1. Head(commit.left) = recorded /\ Tail(commit.left) = <<>>
        BY <3>3
      <4>2. disk' # recorded /\ disk' = Published(recorded) /\ commit'.left = <<recorded>>
        BY <2>1, <2>3, <3>3, <4>1
      <4>3. Nearer(commit.before, recorded)
        BY <1>1, <1>4, <3>3, <4>2, OneMutation DEF Between
      <4>4. QED
        BY <3>3, <4>2, <4>3
    <3>4. QED
      BY <2>3, <3>1, <3>2, <3>3 DEF Calibrates
  <2>5. Calibrates(record_last_window(commit.before, valid_reset_at(obs, now)),
                   sync_deadline(record_last_window(commit.before, valid_reset_at(obs, now)),
                                 obs, now))'
    BY <1>1, <2>1, <2>2, <2>4 DEF Calibrates, Between
  <2>6. Calibrating'
    BY <1>1, <1>3, <2>1, <2>2, <2>3, <2>5 DEF Calibrating
  <2>7. QED
    BY <1>1, <1>3, <1>6, <2>1, <2>6 DEF IInv, InFlight, DebtInv
<1>7. QED
  BY <1>5, <1>6

-----------------------------------------------------------------------------
LEMMA QuietStep ==
  ASSUME IInv, UNCHANGED backend,
         \/ Tick
         \/ \E t \in Triggers : Reconfigure(t)
         \/ SelectRetry \/ RunCommand \/ GiveUp \/ Acknowledge \/ Crash
  PROVE  IInv'
<1>1. CASE Tick
  BY <1>1 DEF Tick, IInv, TypeOK, DebtInv
<1>2. CASE \E t \in Triggers : Reconfigure(t)
  BY <1>2 DEF Reconfigure, IInv, TypeOK, DebtInv
<1>3. CASE SelectRetry \/ RunCommand \/ GiveUp
  BY <1>3 DEF SelectRetry, RunCommand, GiveUp, IInv, TypeOK, DebtInv, Bursts
<1>4. CASE Acknowledge
  <2>1. burst = "idle" \/ commit.op # "resume"
    BY <1>4 DEF Acknowledge, IInv, InFlight, Resuming
  <2>2. burst # "attempting"
    <3>1. commit.op \in Operations /\ commit.left = <<>> /\ InFlight
      BY <1>4 DEF Acknowledge, IInv, TypeOK
    <3>2. \A x : <<x>> # <<>>
      OBVIOUS
    <3>3. QED
      BY <2>1, <3>1, <3>2 DEF InFlight, Recalibrating, Deciding, Reanchoring, Beginning,
         Recording, Succeeding, Calibrating, Returns, Operations
  <2>3. QED
    BY <1>4, <2>2 DEF Acknowledge, IInv, TypeOK, DebtInv, Triggers
<1>5. CASE Crash
  BY <1>5 DEF Crash, IInv, TypeOK, DebtInv, Bursts
<1>6. QED
  BY <1>1, <1>2, <1>3, <1>4, <1>5

LEMMA StepInvariant == IInv /\ [Next]_vars => IInv'
<1> SUFFICES ASSUME IInv, [Next]_vars PROVE IInv'
  OBVIOUS
<1>1. CASE UNCHANGED vars
  <2>1. Readings' = Readings
    BY <1>1 DEF vars, Readings
  <2>2. TypeOK' /\ DebtInv'
    BY <1>1 DEF vars, IInv, TypeOK, DebtInv
  <2>3. commit' # NoCommit => InFlight'
    BY <1>1, <2>1 DEF vars, IInv, InFlight, Recalibrating, Deciding, Reanchoring, Beginning,
       Recording, Succeeding, Resuming, Calibrating, Returns, Between, Recalibrated, Resumes,
       Calibrates
  <2>4. QED
    BY <2>2, <2>3 DEF IInv
<1>2. CASE Next
  <2>1. UNCHANGED backend
    BY <1>2 DEF Next
  <2>2. CASE Publish
    <3>1. commit.op \in Operations
      BY <2>2 DEF Publish, IInv, TypeOK
    <3>2. QED
      BY <2>1, <2>2, <3>1, PublishAlone, PublishResumption, PublishCalibration DEF Operations
  <2>3. QED
    BY <1>2, <2>1, <2>2, RecalibrateStep, DecideStep, ReanchorStep, ResumeStep, PostRunStep,
       BeginStep, RecordStep, SucceedStep, QuietStep
    DEF Next, Step
<1>3. QED
  BY <1>1, <1>2

LEMMA Invariance == Spec => []IInv
BY InitInvariant, StepInvariant, PTL DEF Spec

\* Every variable is well typed, in particular the disk between any two slots.
THEOREM TypeCorrect == Spec => []TypeOK
BY Invariance, PTL DEF IInv

\* The comment above SLOTS (state/store.py), for every timing and every crash
\* point: while a success is being committed, a provider that was due stays due.
THEOREM SuccessReruns == Spec => []SuccessRerunsNotLoses
<1>1. IInv => SuccessRerunsNotLoses
  BY DEF IInv, InFlight, Succeeding, Returns, Between, SuccessRerunsNotLoses, matured
<1>2. QED
  BY <1>1, Invariance, PTL

\* The debt is on disk for as long as the model may be running, with either store.
THEOREM DebtIsOnDisk == Spec => []DebtDuringAttempt
<1>1. IInv => DebtDuringAttempt
  <2> SUFFICES ASSUME IInv, burst = "attempting",
                      commit # NoCommit => commit.op # "success"
               PROVE  disk.retry_pending
    BY DEF DebtDuringAttempt
  <2>1. CASE commit = NoCommit
    BY <2>1 DEF IInv, DebtInv
  <2>2. CASE commit # NoCommit
    <3>1. commit.op \in Operations /\ InFlight /\ commit.before \in ProviderState /\ now \in Nat
      BY <2>2 DEF IInv, TypeOK
    <3>2. commit.op = "record" /\ Recording
      BY <2>2, <3>1 DEF Operations, InFlight, Recalibrating, Deciding, Reanchoring,
         Beginning, Resuming, Calibrating, Returns
    <3>3. /\ record_attempt(commit.before, now).retry_pending = commit.before.retry_pending
          /\ commit.before.retry_pending
      BY <2>2, <3>1, <3>2, AttemptType DEF IInv, DebtInv
    <3>4. disk.retry_pending \in {commit.before.retry_pending,
                                  record_attempt(commit.before, now).retry_pending}
      BY <3>2 DEF Recording, Returns, Between
    <3>5. QED
      BY <3>3, <3>4
  <2>3. QED
    BY <2>1, <2>2
<1>2. QED
  BY <1>1, Invariance, PTL

-----------------------------------------------------------------------------
(* What is owed.                                                           *)

\* A mutation towards a state that keeps what is owed keeps what is owed.
LEMMA KeepsOwed ==
  ASSUME disk \in ProviderState, NEW from \in ProviderState, NEW to \in ProviderState,
         Between(from, to), disk' = Published(to), UNCHANGED now, Owed,
         to.retry_pending = from.retry_pending \/ to.retry_pending = TRUE,
         OwedBy(from, now) => to.next_due_at = from.next_due_at
  PROVE  Owed'
<1>1. /\ disk'.retry_pending \in {disk.retry_pending, to.retry_pending}
      /\ disk'.next_due_at \in {disk.next_due_at, to.next_due_at}
      /\ disk.next_due_at = from.next_due_at
      /\ disk.retry_pending \in {from.retry_pending, to.retry_pending}
      /\ from.retry_pending \in BOOLEAN
  BY OneMutation DEF Between, ProviderState
<1>2. CASE disk.retry_pending
  <2>1. to.retry_pending = TRUE
    BY <1>1, <1>2
  <2>2. QED
    BY <1>1, <1>2, <2>1 DEF Owed
<1>3. CASE matured(disk, now)
  <2>1. to.next_due_at = from.next_due_at
    BY <1>1, <1>3 DEF OwedBy, matured
  <2>2. QED
    BY <1>1, <1>3, <2>1 DEF Owed, matured
<1>4. QED
  BY <1>2, <1>3 DEF Owed

\* Of an enabled provider no call but a success retires what is owed.
LEMMA PublishKeepsOwed ==
  ASSUME IInv, Publish, UNCHANGED backend, trigger = "enabled", commit.op # "success", Owed
  PROVE  Owed'
<1>1. /\ commit # NoCommit /\ commit.op \in Operations /\ InFlight
      /\ commit.before \in ProviderState /\ disk \in ProviderState /\ now \in Nat
      /\ Readings \subseteq QuotaObservation /\ UNCHANGED now
      /\ commit.left # <<>> /\ disk' = Published(Head(commit.left))
  BY PublishType, ReadingsAreObservations DEF CommitType, IInv, TypeOK
<1> DEFINE s == commit.before
<1>2. CASE commit.op = "sync"
  <2>1. PICK obs \in Readings : Returns("idle", Recalibrated(s, obs), "idle")
    BY <1>1, <1>2 DEF InFlight, Recalibrating
  <2>2. /\ commit.left = <<sync_deadline(s, obs, now)>>
        /\ Between(s, sync_deadline(s, obs, now))
    BY <2>1 DEF Returns, Recalibrated
  <2> DEFINE after == sync_deadline(s, obs, now)
  <2>3. /\ after \in ProviderState /\ after.retry_pending = s.retry_pending
        /\ OwedBy(s, now) => after.next_due_at = s.next_due_at
    BY <1>1, SyncKeeps, OwedBlocks
  <2> HIDE DEF after
  <2>4. Head(commit.left) = after /\ Between(s, after)
    BY <2>2 DEF after
  <2>5. QED
    BY <1>1, <2>3, <2>4, KeepsOwed
<1>3. CASE commit.op = "decide"
  <2>1. PICK obs \in Readings :
          Returns("idle", evaluate_due(s, obs, now),
                  IF run_now(s, obs, now) THEN "selected" ELSE "idle")
    BY <1>1, <1>3 DEF InFlight, Deciding
  <2>2. ~s.retry_pending
    BY <1>1, <1>3 DEF InFlight, Deciding
  <2>3. /\ commit.left = <<evaluate_due(s, obs, now)>>
        /\ Between(s, evaluate_due(s, obs, now))
    BY <2>1 DEF Returns
  <2> DEFINE after == evaluate_due(s, obs, now)
  <2>4. /\ after \in ProviderState /\ after.retry_pending = s.retry_pending
        /\ OwedBy(s, now) => after.next_due_at = s.next_due_at
    BY <1>1, <2>2, EvaluateKeeps DEF OwedBy
  <2> HIDE DEF after
  <2>5. Head(commit.left) = after /\ Between(s, after)
    BY <2>3 DEF after
  <2>6. QED
    BY <1>1, <2>4, <2>5, KeepsOwed
<1>4. CASE commit.op = "begin"
  <2> DEFINE after == begin_attempt(s, now)
  <2>1. /\ after \in ProviderState /\ after.retry_pending = TRUE
        /\ after.next_due_at = s.next_due_at
    BY <1>1, AttemptType
  <2>2. commit.left = <<after>> /\ Between(s, after)
    BY <1>1, <1>4 DEF InFlight, Beginning, Returns
  <2> HIDE DEF after
  <2>3. Head(commit.left) = after
    BY <2>2
  <2>4. QED
    BY <1>1, <2>1, <2>2, <2>3, KeepsOwed
<1>5. CASE commit.op = "record"
  <2> DEFINE after == record_attempt(s, now)
  <2>1. /\ after \in ProviderState /\ after.retry_pending = s.retry_pending
        /\ after.next_due_at = s.next_due_at
    BY <1>1, AttemptType
  <2>2. commit.left = <<after>> /\ Between(s, after)
    BY <1>1, <1>5 DEF InFlight, Recording, Returns
  <2> HIDE DEF after
  <2>3. Head(commit.left) = after
    BY <2>2
  <2>4. QED
    BY <1>1, <2>1, <2>2, <2>3, KeepsOwed
<1>6. CASE commit.op = "calibrate"
  <2>1. PICK obs \in Readings :
          LET reset    == valid_reset_at(obs, now)
              recorded == record_last_window(s, reset)
          IN  reset # Unset /\ Calibrates(recorded, sync_deadline(recorded, obs, now))
    BY <1>1, <1>6 DEF InFlight, Calibrating
  <2> DEFINE recorded == record_last_window(s, valid_reset_at(obs, now))
             after == sync_deadline(recorded, obs, now)
  <2>2. /\ recorded \in ProviderState
        /\ recorded.retry_pending = s.retry_pending
        /\ recorded.next_due_at = s.next_due_at
    BY <1>1, <2>1, ValidReset, WindowType
  <2> HIDE DEF recorded
  <2>3. /\ after \in ProviderState
        /\ after.retry_pending = recorded.retry_pending
        /\ OwedBy(recorded, now) => after.next_due_at = recorded.next_due_at
    BY <1>1, <2>2, SyncKeeps, OwedBlocks
  <2>4. Calibrates(recorded, after)
    BY <2>1 DEF recorded
  <2> HIDE DEF after
  <2>5. \/ Head(commit.left) = recorded /\ Between(s, recorded)
        \/ Head(commit.left) = after /\ Between(recorded, after)
    <3>1. /\ Head(<<recorded, after>>) = recorded
          /\ Head(<<recorded>>) = recorded /\ Head(<<after>>) = after
      OBVIOUS
    <3>2. QED
      BY <2>4, <3>1 DEF Calibrates
  <2>6. CASE Head(commit.left) = recorded /\ Between(s, recorded)
    BY <1>1, <2>2, <2>6, KeepsOwed
  <2>7. CASE Head(commit.left) = after /\ Between(recorded, after)
    BY <1>1, <2>2, <2>3, <2>7, KeepsOwed
  <2>8. QED
    BY <2>5, <2>6, <2>7
<1>7. QED
  BY <1>1, <1>2, <1>3, <1>4, <1>5, <1>6 DEF Operations, InFlight, Reanchoring, Resuming

\* Only a success retires what is owed, and the task it retires it for is on
\* disk by then: at every crash point of every commit of either store, the debt
\* or the due deadline of an enabled provider survives (state/store.py, SLOTS).
THEOREM OwedIsPaid == Spec => OwedOnlyPaid
<1> DEFINE Paid == Owed /\ ~Owed' /\ trigger = "enabled"
                     => commit.op = "success" /\ disk'.last_task_at = now
<1>1. IInv /\ [Next]_vars => [Paid]_vars
  <2> SUFFICES ASSUME IInv, Next, Owed, ~Owed', trigger = "enabled"
               PROVE  commit.op = "success" /\ disk'.last_task_at = now
    BY DEF vars
  <2>1. now \in Nat /\ disk \in ProviderState
    BY DEF IInv, TypeOK
  <2>2. CASE Publish
    <3>1. commit.op = "success" /\ UNCHANGED backend
      BY <2>2, PublishKeepsOwed DEF Next
    <3>2. /\ commit # NoCommit /\ commit.before \in ProviderState /\ now' = now
          /\ disk' = Published(Head(commit.left))
      BY <2>2, <3>1, PublishType DEF CommitType
    <3> DEFINE after == commit_success(commit.before, now)
    <3>3. after \in ProviderState /\ after.last_task_at = now
      BY <2>1, <3>2, SuccessType
    <3>4. commit.left = <<after>>
      BY <3>1, <3>2 DEF IInv, InFlight, Succeeding, Returns
    <3> HIDE DEF after
    <3>5. disk' = Published(after)
      BY <3>2, <3>4
    <3>6. CASE disk'.retry_pending # disk.retry_pending
      BY <2>1, <3>1, <3>3, <3>5, <3>6, OneMutation
    <3>7. CASE disk'.retry_pending = disk.retry_pending
      <4>1. disk'.next_due_at # disk.next_due_at
        BY <3>2, <3>7 DEF Owed, matured
      <4>2. disk' = after
        BY <2>1, <3>3, <3>5, <4>1, OneMutation
      <4>3. QED
        BY <3>1, <3>3, <4>2
    <3>8. QED
      BY <3>6, <3>7
  <2>3. CASE Tick
    BY <2>1, <2>3 DEF Tick, Owed, matured, ProviderState, Instant
  <2>4. CASE ~Publish /\ ~Tick
    <3>1. disk' = disk /\ now' = now
      BY <2>4 DEF Next, Step, Reconfigure, Recalibrate, DecideDue, ReanchorProbeOnly,
         ResumeProvider, PostRunSync, SelectRetry, RunCommand, BeginAttempt, RecordAttempt,
         Succeed, GiveUp, Acknowledge, Crash, Apply, Carry
    <3>2. QED
      BY <3>1 DEF Owed, matured
  <2>5. QED
    BY <2>2, <2>3, <2>4
<1>2. QED
  BY <1>1, Invariance, PTL DEF Spec, OwedOnlyPaid

-----------------------------------------------------------------------------
(* The document store implements ProviderSchedule.                         *)

\* Both modules apply the same policy.
LEMMA SameSync ==
  ASSUME NEW s, NEW obs, NEW t
  PROVE  Atomic!sync_deadline(s, obs, t) = sync_deadline(s, obs, t)
<1>1. /\ Atomic!valid_reset_at(obs, t) = valid_reset_at(obs, t)
      /\ Atomic!current_trusted_reset(s) = current_trusted_reset(s)
      /\ Atomic!anchor_reset(s) = anchor_reset(s)
      /\ Atomic!schedule_blocked(s, t) <=> schedule_blocked(s, t)
  BY DEF Atomic!valid_reset_at, valid_reset_at, Atomic!anchor_reset, anchor_reset,
     Atomic!current_trusted_reset, current_trusted_reset,
     Atomic!schedule_blocked, schedule_blocked
<1>2. \A r : /\ Atomic!matches_candidate(s, r) <=> matches_candidate(s, r)
             /\ Atomic!confirms_candidate(s, r, t) <=> confirms_candidate(s, r, t)
             /\ Atomic!park_candidate(s, r, t) = park_candidate(s, r, t)
  BY <1>1 DEF Atomic!matches_candidate, matches_candidate, Atomic!confirms_candidate,
     confirms_candidate, Atomic!Distance, Distance, Atomic!park_candidate, park_candidate
<1>3. \A a, r : Atomic!accept_reset(s, a, r) = accept_reset(s, a, r)
  BY DEF Atomic!accept_reset, accept_reset
<1>4. \A a, b : Atomic!Max2(a, b) = Max2(a, b)
  BY DEF Atomic!Max2, Max2
<1>5. Atomic!sync_action(s, obs, t) = sync_action(s, obs, t)
  BY <1>1, <1>2 DEF Atomic!sync_action, sync_action
<1>6. QED
  BY <1>1, <1>2, <1>3, <1>4, <1>5 DEF Atomic!sync_deadline, sync_deadline

LEMMA SamePolicy ==
  ASSUME NEW s, NEW obs, NEW t
  PROVE  /\ Atomic!valid_reset_at(obs, t) = valid_reset_at(obs, t)
         /\ Atomic!retry_due(s, t, RETRY_GAP) <=> retry_due(s, t, RETRY_GAP)
         /\ Atomic!evaluate_due(s, obs, t) = evaluate_due(s, obs, t)
         /\ Atomic!run_now(s, obs, t) <=> run_now(s, obs, t)
         /\ Atomic!reanchor_probe_only(s, obs, t) = reanchor_probe_only(s, obs, t)
         /\ Atomic!begin_attempt(s, t) = begin_attempt(s, t)
         /\ Atomic!record_attempt(s, t) = record_attempt(s, t)
         /\ Atomic!commit_success(s, t) = commit_success(s, t)
         /\ \A r : Atomic!record_last_window(s, r) = record_last_window(s, r)
<1>1. Atomic!valid_reset_at(obs, t) = valid_reset_at(obs, t)
  BY DEF Atomic!valid_reset_at, valid_reset_at
<1>2. Atomic!retry_due(s, t, RETRY_GAP) <=> retry_due(s, t, RETRY_GAP)
  BY DEF Atomic!retry_due, retry_due
<1>3. Atomic!evaluate_due(s, obs, t) = evaluate_due(s, obs, t)
  BY SameSync DEF Atomic!evaluate_due, evaluate_due, Atomic!matured, matured,
     Atomic!seed_fallback, seed_fallback, Atomic!fallback_due, fallback_due
<1>4. Atomic!run_now(s, obs, t) <=> run_now(s, obs, t)
  BY <1>3 DEF Atomic!run_now, run_now, Atomic!matured, matured
<1>5. Atomic!reanchor_probe_only(s, obs, t) = reanchor_probe_only(s, obs, t)
  BY <1>1 DEF Atomic!reanchor_probe_only, reanchor_probe_only, Atomic!accept_reset,
     accept_reset, Atomic!Max2, Max2
<1>6. /\ Atomic!begin_attempt(s, t) = begin_attempt(s, t)
      /\ Atomic!record_attempt(s, t) = record_attempt(s, t)
      /\ Atomic!commit_success(s, t) = commit_success(s, t)
      /\ \A r : Atomic!record_last_window(s, r) = record_last_window(s, r)
  BY DEF Atomic!begin_attempt, begin_attempt, Atomic!record_attempt, record_attempt,
     Atomic!commit_success, commit_success, Atomic!record_last_window, record_last_window
<1>7. QED
  BY <1>1, <1>2, <1>3, <1>4, <1>5, <1>6

LEMMA ImplementsInit == Init => Atomic!Init
BY DEF Init, Atomic!Init, Document, Triggers, Atomic!Triggers, EmptyState, Atomic!EmptyState

LEMMA SameReadings ==
  ASSUME now \in Nat, backend = "json"  PROVE Readings \subseteq Atomic!Readings
BY PolicyAssumption DEF Readings, Atomic!Readings, Document, NO_OBSERVATION, Atomic!NO_OBSERVATION

\* What the schedule sees: the state left by the last call that ended.
Seen == IF commit = NoCommit THEN disk ELSE commit.before

\* A step it does not see: no call ends.
Unseen == UNCHANGED <<now, trigger, burst, backend>> /\ Seen' = Seen

LEMMA UnseenStutters == Unseen => UNCHANGED Atomic!vars
BY DEF Unseen, Seen, Atomic!vars, Document

\* A call that changes nothing is its action; another one has not ended yet.
LEMMA ImplementsCalls ==
  ASSUME IInv, backend = "json", UNCHANGED backend, NEW obs \in Readings
  PROVE  /\ Recalibrate(obs) => Unseen
         /\ DecideDue(obs) => Atomic!DecideDue(obs) \/ Unseen
         /\ ReanchorProbeOnly(obs) => Unseen
         /\ ResumeProvider(obs) => Unseen
         /\ PostRunSync(obs) => Atomic!PostRunSync(obs) \/ Unseen
         /\ BeginAttempt => Atomic!BeginAttempt \/ Unseen
         /\ RecordAttempt => Unseen
         /\ Succeed => Atomic!Succeed \/ Unseen
<1>1. ASSUME NEW op, NEW plan, NEW then, NEW ack, commit' = Commit(op, plan, then, ack),
             op # "none"
      PROVE  commit' # NoCommit /\ commit'.before = disk
  BY <1>1 DEF Commit, NoCommit
<1>2. ASSUME NEW op, op # "none", NEW after, NEW then, Apply(op, after, then)
      PROVE  /\ commit = NoCommit /\ UNCHANGED <<now, trigger, disk>>
             /\ \/ after = disk /\ commit' = NoCommit /\ burst' = then
                \/ Unseen
  BY <1>1, <1>2 DEF Apply, Carry, Plan, Unseen, Seen
<1>3. Recalibrate(obs) => Unseen
  BY <1>2 DEF Recalibrate, Unseen, Seen
<1>4. DecideDue(obs) => Atomic!DecideDue(obs) \/ Unseen
  BY <1>2, SamePolicy DEF DecideDue, Atomic!DecideDue, Document
<1>5. ReanchorProbeOnly(obs) => Unseen
  BY <1>2 DEF ReanchorProbeOnly, Unseen, Seen
<1>6. ResumeProvider(obs) => Unseen
  BY <1>1 DEF ResumeProvider, Unseen, Seen
<1>7. PostRunSync(obs) => Atomic!PostRunSync(obs) \/ Unseen
  <2> SUFFICES ASSUME PostRunSync(obs) PROVE Atomic!PostRunSync(obs) \/ Unseen
    OBVIOUS
  <2> DEFINE reset == valid_reset_at(obs, now)
             recorded == record_last_window(disk, reset)
             after == sync_deadline(recorded, obs, now)
             plan == IF reset = Unset THEN <<>>
                     ELSE Plan(disk, recorded) \o Plan(recorded, after)
  <2>1. /\ burst = "calibrating" /\ commit = NoCommit
        /\ UNCHANGED <<now, trigger, disk, backend>>
        /\ \/ plan = <<>> /\ burst' = "idle" /\ commit' = commit
           \/ /\ plan # <<>> /\ burst' = burst
              /\ commit' = Commit("calibrate", plan, "idle", FALSE)
    BY DEF PostRunSync, Carry
  <2>2. Plan(disk, recorded) \o Plan(recorded, after) = <<>> =>
          recorded = disk /\ after = recorded
    <3>1. /\ Plan(disk, recorded) = IF recorded = disk THEN <<>> ELSE <<recorded>>
          /\ Plan(recorded, after) = IF after = recorded THEN <<>> ELSE <<after>>
      BY DEF Plan
    <3> HIDE DEF recorded, after
    <3>2. /\ <<recorded>> \o <<>> # <<>> /\ <<>> \o <<after>> # <<>>
          /\ <<recorded>> \o <<after>> # <<>>
      BY Pair
    <3>3. QED
      BY <3>1, <3>2
  <2>3. CASE plan = <<>>
    <3>1. Atomic!valid_reset_at(obs, now) = reset
      BY SamePolicy
    <3>2. reset # Unset =>
            Atomic!sync_deadline(Atomic!record_last_window(disk, reset), obs, now) = disk
      BY <2>2, <2>3, SameSync, SamePolicy
    <3> HIDE DEF plan, reset
    <3>3. QED
      BY <2>1, <2>3, <3>1, <3>2 DEF Atomic!PostRunSync, Document
  <2>4. CASE plan # <<>>
    <3> HIDE DEF plan
    <3>1. QED
      BY <1>1, <2>1, <2>4 DEF Unseen, Seen
  <2>5. QED
    BY <2>3, <2>4
<1>8. BeginAttempt => Atomic!BeginAttempt \/ Unseen
  BY <1>2, SamePolicy DEF BeginAttempt, Atomic!BeginAttempt, Document
<1>9. RecordAttempt => Unseen
  BY <1>2 DEF RecordAttempt, Unseen, Seen
<1>10. Succeed => Atomic!Succeed \/ Unseen
  BY <1>2, SamePolicy DEF Succeed, Atomic!Succeed, Document
<1>11. QED
  BY <1>3, <1>4, <1>5, <1>6, <1>7, <1>8, <1>9, <1>10

\* The steps no commit takes part in are the schedule's own.
LEMMA ImplementsQuiet ==
  ASSUME IInv, backend = "json", UNCHANGED backend
  PROVE  /\ Tick => Atomic!Tick
         /\ \A t \in Triggers : Reconfigure(t) => Atomic!Reconfigure(t)
         /\ SelectRetry => Atomic!SelectRetry
         /\ RunCommand => Atomic!RunCommand
         /\ GiveUp => Atomic!GiveUp
<1>1. Tick => Atomic!Tick
  BY DEF Tick, Atomic!Tick, Document
<1>2. \A t \in Triggers : Reconfigure(t) => Atomic!Reconfigure(t)
  BY DEF Reconfigure, Atomic!Reconfigure, Document
<1>3. SelectRetry => Atomic!SelectRetry
  BY SamePolicy DEF SelectRetry, Atomic!SelectRetry, Document
<1>4. RunCommand => Atomic!RunCommand
  BY DEF RunCommand, Atomic!RunCommand, Document
<1>5. GiveUp => Atomic!GiveUp
  BY DEF GiveUp, Atomic!GiveUp, Document
<1>6. QED
  BY <1>1, <1>2, <1>3, <1>4, <1>5

\* The publication of a call's last state is the call itself.
LEMMA ImplementsReturn ==
  ASSUME IInv, Publish, backend = "json", UNCHANGED backend,
         NEW at, NEW after, NEW then, Returns(at, after, then)
  PROVE  /\ commit # NoCommit /\ commit' = NoCommit
         /\ burst = at /\ burst' = then /\ disk' = after
         /\ UNCHANGED <<now, trigger>>
BY PublishReturns, PublishType DEF Returns

LEMMA ImplementsPublish ==
  ASSUME IInv, Publish, backend = "json", UNCHANGED backend
  PROVE  \/ Unseen
         \/ \E obs \in Readings : \/ Atomic!Recalibrate(obs)
                                  \/ Atomic!DecideDue(obs)
                                  \/ Atomic!ReanchorProbeOnly(obs)
                                  \/ Atomic!PostRunSync(obs)
         \/ Atomic!BeginAttempt \/ Atomic!RecordAttempt \/ Atomic!Succeed
<1>1. /\ commit.op \in Operations /\ InFlight /\ commit # NoCommit
  BY DEF Publish, IInv, TypeOK
<1>2. CASE commit.op = "sync"
  <2>1. PICK obs \in Readings : Returns("idle", Recalibrated(commit.before, obs), "idle")
    BY <1>1, <1>2 DEF InFlight, Recalibrating
  <2>2. Atomic!Recalibrate(obs)
    BY <2>1, ImplementsReturn, SamePolicy, SameSync
    DEF Atomic!Recalibrate, Recalibrated, Document
  <2>3. QED
    BY <2>2
<1>3. CASE commit.op = "decide"
  <2>1. trigger = "enabled" /\ ~commit.before.retry_pending
    BY <1>1, <1>3 DEF InFlight, Deciding
  <2>2. PICK obs \in Readings :
          Returns("idle", evaluate_due(commit.before, obs, now),
                  IF run_now(commit.before, obs, now) THEN "selected" ELSE "idle")
    BY <1>1, <1>3 DEF InFlight, Deciding
  <2>3. Atomic!DecideDue(obs)
    BY <2>1, <2>2, ImplementsReturn, SamePolicy DEF Atomic!DecideDue, Document
  <2>4. QED
    BY <2>3
<1>4. CASE commit.op = "reanchor"
  <2>1. PICK obs \in Readings :
          Returns("idle", reanchor_probe_only(commit.before, obs, now), "idle")
    BY <1>1, <1>4 DEF InFlight, Reanchoring
  <2>2. trigger = "probe_only"
    BY <1>1, <1>4 DEF InFlight, Reanchoring
  <2>3. Atomic!ReanchorProbeOnly(obs)
    BY <2>1, <2>2, ImplementsReturn, SamePolicy DEF Atomic!ReanchorProbeOnly, Document
  <2>4. QED
    BY <2>3
<1>5. CASE commit.op = "begin"
  BY <1>1, <1>5, ImplementsReturn, SamePolicy
  DEF InFlight, Beginning, Atomic!BeginAttempt, Document
<1>6. CASE commit.op = "record"
  BY <1>1, <1>6, ImplementsReturn, SamePolicy
  DEF InFlight, Recording, Atomic!RecordAttempt, Document
<1>7. CASE commit.op = "success"
  BY <1>1, <1>7, ImplementsReturn, SamePolicy
  DEF InFlight, Succeeding, Atomic!Succeed, Document
<1>8. CASE commit.op = "resume"
  <2>1. commit.acknowledge = TRUE
    BY <1>1, <1>8 DEF InFlight, Resuming
  <2>2. disk' = Head(commit.left)
    BY PublishType, OneMutation DEF IInv, TypeOK
  <2>3. /\ UNCHANGED <<now, trigger, burst>> /\ commit' # NoCommit
        /\ commit' = [commit EXCEPT !.left = Tail(commit.left)]
        /\ commit \in CommitType
    BY <2>1, <2>2, PublishType
  <2>4. commit'.before = commit.before
    BY <2>3 DEF CommitType
  <2>5. Unseen
    BY <1>1, <2>3, <2>4 DEF Unseen, Seen
  <2>6. QED
    BY <2>5
<1>9. CASE commit.op = "calibrate"
  <2>1. burst = "calibrating" /\ commit.then = "idle" /\ commit.acknowledge = FALSE
    BY <1>1, <1>9 DEF InFlight, Calibrating
  <2>2. PICK obs \in Readings :
          LET reset    == valid_reset_at(obs, now)
              recorded == record_last_window(commit.before, reset)
          IN  reset # Unset /\ Calibrates(recorded, sync_deadline(recorded, obs, now))
    BY <1>1, <1>9 DEF InFlight, Calibrating
  <2> DEFINE reset == valid_reset_at(obs, now)
             recorded == record_last_window(commit.before, reset)
             after == sync_deadline(recorded, obs, now)
  <2>3. /\ disk' = Head(commit.left)
        /\ UNCHANGED <<now, trigger>> /\ commit \in CommitType
        /\ \/ /\ UNCHANGED burst /\ Tail(commit.left) # <<>> /\ commit' # NoCommit
              /\ commit' = [commit EXCEPT !.left = Tail(commit.left)]
           \/ Tail(commit.left) = <<>> /\ commit' = NoCommit /\ burst' = "idle"
    BY <2>1, PublishType, OneMutation DEF IInv, TypeOK
  <2>4. \/ commit.left = <<recorded, after>>
        \/ commit.left = <<after>>
        \/ commit.left = <<recorded>> /\ after = recorded
    BY <2>2 DEF Calibrates
  <2>5. Atomic!valid_reset_at(obs, now) = reset /\ reset # Unset
    BY <2>2, SamePolicy
  <2>6. Atomic!sync_deadline(Atomic!record_last_window(commit.before, reset), obs, now) = after
    BY SameSync, SamePolicy
  <2> HIDE DEF reset, recorded, after
  <2>7. CASE Tail(commit.left) # <<>>
    <3>1. commit'.before = commit.before
      BY <2>3, <2>7 DEF CommitType
    <3>2. Unseen
      BY <1>1, <2>3, <2>7, <3>1 DEF Unseen, Seen
    <3>3. QED
      BY <3>2
  <2>8. CASE Tail(commit.left) = <<>>
    <3>1. Tail(<<recorded, after>>) # <<>> /\ Head(<<after>>) = after
          /\ Head(<<recorded>>) = recorded
      OBVIOUS
    <3>2. disk' = after /\ commit' = NoCommit /\ burst' = "idle"
      BY <2>3, <2>4, <2>8, <3>1
    <3>3. Atomic!PostRunSync(obs)
      BY <1>1, <2>1, <2>3, <2>5, <2>6, <3>2 DEF Atomic!PostRunSync, Document
    <3>4. QED
      BY <3>3
  <2>9. QED
    BY <2>7, <2>8
<1>10. QED
  BY <1>1, <1>2, <1>3, <1>4, <1>5, <1>6, <1>7, <1>8, <1>9 DEF Operations

\* The acknowledgement is the end of a resumption.
LEMMA ImplementsAcknowledge ==
  ASSUME IInv, Acknowledge, backend = "json", UNCHANGED backend
  PROVE  \E obs \in Readings : Atomic!ResumeProvider(obs)
<1>1. /\ commit.op \in Operations /\ InFlight /\ commit # NoCommit /\ commit.left = <<>>
  BY DEF Acknowledge, IInv, TypeOK
<1>2. \A x, y : <<x>> # <<>> /\ <<x, y>> # <<>>
  OBVIOUS
<1>3. Resuming
  BY <1>1, <1>2 DEF InFlight, Recalibrating, Deciding, Reanchoring, Beginning,
     Recording, Succeeding, Calibrating, Calibrates, Returns, Operations
<1>4. PICK obs \in Readings :
        /\ valid_reset_at(obs, now) # Unset
        /\ Resumes(reanchor_probe_only(commit.before, obs, now))
  BY <1>3 DEF Resuming
<1>5. disk = reanchor_probe_only(commit.before, obs, now)
  BY <1>1, <1>2, <1>4 DEF Resumes
<1>6. Atomic!ResumeProvider(obs)
  BY <1>1, <1>3, <1>4, <1>5, SamePolicy
  DEF Acknowledge, Resuming, Atomic!ResumeProvider, Document
<1>7. QED
  BY <1>6

\* A crash leaves the call undone, or done up to one of the schedule's cuts.
LEMMA ImplementsCrash ==
  ASSUME IInv, Crash, backend = "json", UNCHANGED backend
  PROVE  \/ Unseen
         \/ Atomic!Abandon
         \/ \E obs \in Readings : Atomic!ResumeProvider(obs) \/ Atomic!PostRunCut(obs)
<1>1. /\ commit' = NoCommit /\ burst' = "idle" /\ UNCHANGED <<now, trigger, disk>>
      /\ burst # "idle" \/ commit # NoCommit
  BY DEF Crash
<1>2. CASE Seen = disk
  <2>1. CASE burst = "idle"
    BY <1>1, <1>2, <2>1 DEF Unseen, Seen
  <2>2. CASE burst # "idle"
    BY <1>1, <1>2, <2>2 DEF Atomic!Abandon, Document, Seen
  <2>3. QED
    BY <2>1, <2>2
<1>3. CASE Seen # disk
  <2>1. commit.op \in Operations /\ InFlight /\ commit # NoCommit /\ commit.before # disk
    BY <1>3 DEF Seen, IInv, TypeOK
  <2>2. CASE commit.op = "resume"
    <3>1. Resuming
      BY <2>1, <2>2 DEF InFlight
    <3>2. PICK obs \in Readings :
            /\ valid_reset_at(obs, now) # Unset
            /\ Resumes(reanchor_probe_only(commit.before, obs, now))
      BY <3>1 DEF Resuming
    <3>3. disk = reanchor_probe_only(commit.before, obs, now)
      BY <2>1, <3>2 DEF Resumes, Between
    <3>4. Atomic!ResumeProvider(obs)
      BY <1>1, <2>1, <3>1, <3>2, <3>3, SamePolicy
      DEF Resuming, Atomic!ResumeProvider, Document
    <3>5. QED
      BY <3>4
  <2>3. CASE commit.op = "calibrate"
    <3>1. Calibrating
      BY <2>1, <2>3 DEF InFlight
    <3>2. PICK obs \in Readings :
            LET reset    == valid_reset_at(obs, now)
                recorded == record_last_window(commit.before, reset)
            IN  reset # Unset /\ Calibrates(recorded, sync_deadline(recorded, obs, now))
      BY <3>1 DEF Calibrating
    <3>3. disk = record_last_window(commit.before, valid_reset_at(obs, now))
      BY <2>1, <3>2 DEF Calibrates, Between
    <3>4. Atomic!PostRunCut(obs)
      BY <1>1, <2>1, <3>1, <3>2, <3>3, SamePolicy
      DEF Calibrating, Atomic!PostRunCut, Document
    <3>5. QED
      BY <3>4
  <2>4. CASE commit.op \notin {"resume", "calibrate"}
    BY <2>1, <2>4 DEF InFlight, Recalibrating, Deciding, Reanchoring, Beginning, Recording,
       Succeeding, Returns, Between, Operations
  <2>5. QED
    BY <2>2, <2>3, <2>4
<1>4. QED
  BY <1>2, <1>3

LEMMA ImplementsStep == IInv /\ [Next]_vars => [Atomic!Next]_(Atomic!vars)
<1> SUFFICES ASSUME IInv, [Next]_vars PROVE Atomic!Next \/ UNCHANGED Atomic!vars
  OBVIOUS
<1>1. CASE UNCHANGED vars
  BY <1>1 DEF vars, Atomic!vars, Document
<1>2. CASE Next /\ backend = "json"
  <2>1. Readings \subseteq Atomic!Readings /\ Triggers = Atomic!Triggers /\ UNCHANGED backend
    BY <1>2, SameReadings DEF IInv, TypeOK, Triggers, Atomic!Triggers, Next
  <2> USE DEF Atomic!Next, Atomic!Step
  <2>2. CASE Tick \/ (\E t \in Triggers : Reconfigure(t)) \/ SelectRetry \/ RunCommand \/ GiveUp
    BY <1>2, <2>1, <2>2, ImplementsQuiet
  <2>3. CASE \E obs \in Readings : \/ Recalibrate(obs) \/ DecideDue(obs)
                                   \/ ReanchorProbeOnly(obs) \/ ResumeProvider(obs)
                                   \/ PostRunSync(obs)
    BY <1>2, <2>1, <2>3, ImplementsCalls, UnseenStutters
  <2>4. CASE BeginAttempt \/ RecordAttempt \/ Succeed
    <3>1. NO_OBSERVATION \in Readings
      BY DEF Readings
    <3>2. QED
      BY <1>2, <2>1, <2>4, <3>1, ImplementsCalls, UnseenStutters
  <2>5. CASE Publish
    BY <1>2, <2>1, <2>5, ImplementsPublish, UnseenStutters
  <2>6. CASE Acknowledge
    BY <1>2, <2>1, <2>6, ImplementsAcknowledge
  <2>7. CASE Crash
    BY <1>2, <2>1, <2>7, ImplementsCrash, UnseenStutters
  <2>8. QED
    BY <1>2, <2>2, <2>3, <2>4, <2>5, <2>6, <2>7 DEF Next, Step
<1>3. CASE Next /\ backend # "json"
  BY <1>3 DEF Next, Atomic!vars, Document
<1>4. QED
  BY <1>1, <1>2, <1>3

\* json_store.py: whatever crashes and whenever, a provider behind one document
\* behaves as one whose service calls are atomic.
THEOREM DocumentIsAtomic == Spec => ImplementsSchedule
BY ImplementsInit, ImplementsStep, Invariance, PTL DEF Spec, ImplementsSchedule, Atomic!Spec
=============================================================================
