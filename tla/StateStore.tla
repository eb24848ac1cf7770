----------------------------- MODULE StateStore -----------------------------
(***************************************************************************)
(* How one provider's state reaches the disk (state/store.py,              *)
(* state/json_store.py).  ProviderSchedule takes a service call as one     *)
(* step; here the call computes its result, and the store takes the disk   *)
(* to it by mutations, each atomic, any of which may be the last one       *)
(* before a crash or a refused write:                                      *)
(*   legacy  one file per slot, in the canonical order SLOTS               *)
(*   json    one document                                                  *)
(* Both are checked with the same actions.  With the document the store    *)
(* implements ProviderSchedule, whatever crashes; with the slots it does   *)
(* not, and what is left is the order in which the slots are published.    *)
(*                                                                         *)
(* A call reads the clock once, before its commit, and the clock counts    *)
(* seconds: a commit in flight is taken to end before the next tick.       *)
(***************************************************************************)
EXTENDS SchedulerPolicy, Sequences

CONSTANTS
  Backends,   \* the stores that may be authoritative: legacy, json
  RETRY_GAP,  \* AppConfig.watchdog_retry_gap
  MaxTime     \* bound on the clock

ASSUME StoreAssumption ==
  Backends \subseteq {"legacy", "json"} /\ RETRY_GAP \in Nat /\ MaxTime \in Nat

VARIABLES
  now, trigger, burst,  \* as in ProviderSchedule
  backend,              \* the authoritative store
  disk,                 \* what the slots, or the document, say
  commit                \* the commit in flight

vars == <<now, trigger, burst, backend, disk, commit>>

Triggers == {"enabled", "probe_only", "awaiting_resume"}
Bursts == {"idle", "selected", "attempting", "calibrating"}

\* Mutant: the deadline is published first.
SLOTS_deadline_first ==
  <<"next_due_at", "last_attempt_at", "last_task_at", "retry_pending",
    "reset_candidate", "reset_anchor", "last_known_reset", "last_triggered_window">>

\* Mutant: the debt is retired before the task is stamped.
SLOTS_debt_before_task ==
  <<"last_attempt_at", "retry_pending", "last_task_at", "reset_candidate",
    "reset_anchor", "last_known_reset", "last_triggered_window", "next_due_at">>

SLOTS ==
  <<"last_attempt_at", "last_task_at", "retry_pending", "reset_candidate",
    "reset_anchor", "last_known_reset", "last_triggered_window", "next_due_at">>

Changed(before, after) == {slot \in DOMAIN before : before[slot] # after[slot]}

\* The slot a commit publishes next: the first one that changes.
NextSlot(changed) ==
  SLOTS[CHOOSE i \in DOMAIN SLOTS :
          SLOTS[i] \in changed /\ \A j \in 1 .. i - 1 : SLOTS[j] \notin changed]

\* Mutant: the document is written slot by slot.
Written_piecemeal(target) == {NextSlot(Changed(disk, target))}

\* What one mutation writes on the way to `target`.
Written(target) ==
  IF backend = "json" THEN Changed(disk, target) ELSE {NextSlot(Changed(disk, target))}

Published(target) ==
  [slot \in DOMAIN disk |-> IF slot \in Written(target) THEN target[slot] ELSE disk[slot]]

NoCommit == [op |-> "none"]

\* A call that changes nothing writes nothing.
Plan(before, after) == IF after = before THEN <<>> ELSE <<after>>

\* A call under way: the states the disk has yet to reach, where its process
\* is when it returns, and whether a resumption is acknowledged at the end.
Commit(op, plan, then, acknowledge) ==
  [op |-> op, before |-> disk, left |-> plan, then |-> then, acknowledge |-> acknowledge]

\* Return at once, or leave the plan to be published.
Carry(op, plan, then) ==
  /\ IF plan = <<>>
     THEN burst' = then /\ UNCHANGED commit
     ELSE commit' = Commit(op, plan, then, FALSE) /\ UNCHANGED burst
  /\ UNCHANGED <<now, trigger, disk>>

Apply(op, after, then) ==
  commit = NoCommit /\ Carry(op, Plan(disk, after), then)

Operations ==
  {"sync", "decide", "reanchor", "resume", "begin", "record", "success", "calibrate"}

TypeOK ==
  /\ now \in Nat /\ trigger \in Triggers /\ burst \in Bursts
  /\ backend \in Backends /\ disk \in ProviderState
  /\ \/ commit = NoCommit
     \/ commit \in [op : Operations, before : ProviderState, left : Seq(ProviderState),
                    then : Bursts, acknowledge : BOOLEAN]

Readings ==
  {NO_OBSERVATION} \cup {[fresh |-> TRUE, reset_at |-> r] : r \in now + 1 .. now + MAX_WINDOW}

Init ==
  /\ now = 1 /\ trigger \in Triggers /\ burst = "idle"
  /\ backend \in Backends /\ disk = EmptyState
  /\ commit = NoCommit
-----------------------------------------------------------------------------
Tick ==
  /\ commit = NoCommit
  /\ now < MaxTime
  /\ now' = now + 1
  /\ UNCHANGED <<trigger, burst, disk, commit>>

Reconfigure(t) ==
  /\ commit = NoCommit
  /\ burst = "idle"
  /\ t # trigger
  /\ trigger' = t
  /\ UNCHANGED <<now, burst, disk, commit>>

Recalibrate(obs) ==
  /\ burst = "idle"
  /\ Apply("sync",
           IF trigger = "probe_only"
           THEN reanchor_probe_only(disk, obs, now)
           ELSE sync_deadline(disk, obs, now),
           "idle")

SelectRetry ==
  /\ commit = NoCommit
  /\ burst = "idle" /\ trigger = "enabled"
  /\ retry_due(disk, now, RETRY_GAP)
  /\ burst' = "selected"
  /\ UNCHANGED <<now, trigger, disk, commit>>

DecideDue(obs) ==
  /\ burst = "idle" /\ trigger = "enabled"
  /\ ~disk.retry_pending
  /\ Apply("decide", evaluate_due(disk, obs, now),
           IF run_now(disk, obs, now) THEN "selected" ELSE "idle")

ReanchorProbeOnly(obs) ==
  /\ burst = "idle" /\ trigger = "probe_only"
  /\ Apply("reanchor", reanchor_probe_only(disk, obs, now), "idle")

\* The state is committed first, the resumption acknowledged afterwards.
ResumeProvider(obs) ==
  /\ commit = NoCommit
  /\ burst = "idle" /\ trigger = "awaiting_resume"
  /\ valid_reset_at(obs, now) # Unset
  /\ LET after == reanchor_probe_only(disk, obs, now)
     IN  commit' = Commit("resume", Plan(disk, after), "idle", TRUE)
  /\ UNCHANGED <<now, trigger, burst, disk>>

RunCommand ==
  /\ commit = NoCommit
  /\ burst = "idle" /\ trigger # "probe_only"
  /\ burst' = "selected"
  /\ UNCHANGED <<now, trigger, disk, commit>>

BeginAttempt ==
  /\ burst = "selected"
  /\ Apply("begin", begin_attempt(disk, now), "attempting")

RecordAttempt ==
  /\ burst = "attempting"
  /\ Apply("record", record_attempt(disk, now), "attempting")

Succeed ==
  /\ burst = "attempting"
  /\ Apply("success", commit_success(disk, now), "calibrating")

GiveUp ==
  /\ commit = NoCommit
  /\ burst = "attempting"
  /\ burst' = "idle"
  /\ UNCHANGED <<now, trigger, disk, commit>>

\* Two commits, one after the other: the window, then the deadline.
PostRunSync(obs) ==
  /\ commit = NoCommit
  /\ burst = "calibrating"
  /\ LET reset    == valid_reset_at(obs, now)
         recorded == record_last_window(disk, reset)
         after    == sync_deadline(recorded, obs, now)
     IN  Carry("calibrate",
               IF reset = Unset THEN <<>> ELSE Plan(disk, recorded) \o Plan(recorded, after),
               "idle")

\* _publish_atomic: the next mutation; the last one ends the call.
Publish ==
  /\ commit # NoCommit
  /\ commit.left # <<>>
  /\ LET target == Head(commit.left)
         rest   == Tail(commit.left)
     IN  /\ disk' = Published(target)
         /\ \/ /\ disk' # target
               /\ UNCHANGED <<burst, commit>>
            \/ /\ disk' = target
               /\ rest # <<>> \/ commit.acknowledge
               /\ commit' = [commit EXCEPT !.left = rest]
               /\ UNCHANGED burst
            \/ /\ disk' = target
               /\ rest = <<>> /\ ~commit.acknowledge
               /\ commit' = NoCommit
               /\ burst' = commit.then
  /\ UNCHANGED <<now, trigger>>

\* _write_active_transitions, after resume_provider has returned.
Acknowledge ==
  /\ commit # NoCommit
  /\ commit.left = <<>>
  /\ trigger' = "enabled"
  /\ commit' = NoCommit
  /\ UNCHANGED <<now, burst, disk>>

\* The process dies, or a write is refused and the call raises.
Crash ==
  /\ burst # "idle" \/ commit # NoCommit
  /\ burst' = "idle"
  /\ commit' = NoCommit
  /\ UNCHANGED <<now, trigger, disk>>

Step ==
  \/ Tick
  \/ \E t \in Triggers : Reconfigure(t)
  \/ \E obs \in Readings : \/ Recalibrate(obs)
                           \/ DecideDue(obs)
                           \/ ReanchorProbeOnly(obs)
                           \/ ResumeProvider(obs)
                           \/ PostRunSync(obs)
  \/ SelectRetry
  \/ RunCommand
  \/ BeginAttempt
  \/ RecordAttempt
  \/ Succeed
  \/ GiveUp
  \/ Publish
  \/ Acknowledge
  \/ Crash

\* Moving from one store to the other is BackendAuthority's.
Next == Step /\ UNCHANGED backend

Spec == Init /\ [][Next]_vars
-----------------------------------------------------------------------------
\* With one document a commit happens when its call returns; a call cut short
\* after its document was published is one of ProviderSchedule's own cuts.
\* The slots promise nothing of the kind: for them the schedule stands still.
Document(value, otherwise) == IF backend = "json" THEN value ELSE otherwise

Atomic == INSTANCE ProviderSchedule WITH
  st      <- Document(IF commit = NoCommit THEN disk ELSE commit.before, EmptyState),
  now     <- Document(now, 1),
  trigger <- Document(trigger, "enabled"),
  burst   <- Document(burst, "idle")

\* json_store.py: the document store implements the atomic schedule, at every
\* crash point.
ImplementsSchedule == Atomic!Spec

\* What a restarted process would find owed: a debt, or a due deadline.
Owed == disk.retry_pending \/ matured(disk, now)

\* The at-least-once guarantee across every slot of every commit: what is owed
\* stays owed until the success is on disk, or the provider may not run.
OwedOnlyPaid ==
  [][ Owed /\ ~Owed' /\ trigger = "enabled"
        => commit.op = "success" /\ disk'.last_task_at = now ]_vars

\* The comment above SLOTS: until its deadline is published, a provider whose
\* success is being committed still looks due on its old one, so a crash
\* anywhere re-runs it, and never loses it.
SuccessRerunsNotLoses ==
  commit # NoCommit =>
    (commit.op = "success" /\ matured(commit.before, now) => matured(disk, now))

\* The debt is on disk for as long as the model may be running.
DebtDuringAttempt ==
  burst = "attempting" /\ (commit # NoCommit => commit.op # "success")
    => disk.retry_pending
=============================================================================
