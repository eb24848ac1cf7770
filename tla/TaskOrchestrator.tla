--------------------------- MODULE TaskOrchestrator ---------------------------
(***************************************************************************)
(* The background host that decides when `check` is run                    *)
(* (helpers/task_orchestrator.py, started and stopped by daemon.serve).    *)
(* Its threads:                                                            *)
(*   the loop thread   _run_loop: startup check, then whenever a deadline  *)
(*                     or the watchdog grid is ready; between two checks   *)
(*                     it waits on the condition                           *)
(*   the main thread   serve: signalled, it stops the scheduler            *)
(*   a usage worker    run_external_task, which notifies the condition     *)
(* and one child process, `check`, owned by SubprocessRunner.              *)
(*                                                                         *)
(* Instants are kept relative to the clock, in ticks: how long until the   *)
(* next watchdog slot, until the deadline, until the wait times out.  The  *)
(* model needs no bound on the clock.  A thread that is not waiting and    *)
(* not watching the child takes no time between two steps.                 *)
(***************************************************************************)
EXTENDS Integers

CONSTANTS
  Unset,             \* None
  WATCHDOG_INTERVAL, \* the slots of the watchdog grid (900 s)
  DEADLINE_BACKOFF,  \* after a check, before a deadline triggers again (60 s)
  EXTERNAL_RECHECK,  \* the longest wait: state changes elsewhere too (60 s)
  ERROR_BACKOFF,     \* the wait after a failed iteration (60 s)
  CHECK_TIMEOUT,     \* the outer bound of one check
  MaxDue             \* bound on how far ahead a deadline is placed

ASSUME OrchestratorAssumption ==
  /\ Unset \notin Int
  /\ WATCHDOG_INTERVAL \in Nat \ {0} /\ DEADLINE_BACKOFF \in Nat
  /\ EXTERNAL_RECHECK \in Nat \ {0} /\ ERROR_BACKOFF \in Nat \ {0}
  /\ CHECK_TIMEOUT \in Nat \ {0} /\ MaxDue \in Nat

\* The host retries a failed iteration well within a slot of the grid.
ASSUME BackoffAssumption == ERROR_BACKOFF <= WATCHDOG_INTERVAL

VARIABLES
  grid,         \* the clock, modulo the grid
  to_watchdog,  \* until _next_watchdog_at, 0 once reached; Unset before startup
  hold,         \* until _deadline_not_before
  due,          \* until ScheduleState.next_due(); Unset: none, owed, or unreadable
  moved,        \* bound: others move the deadline once between two ticks
  loop,         \* where the loop thread is
  trigger,      \* what the iteration found ready
  left,         \* until the wait, or the wait for the child, times out
  process,      \* the child: none, alive or dead
  active,       \* SubprocessRunner._active is the child
  cancelled,    \* SubprocessRunner._cancelled
  main,         \* where the main thread is
  grabbed,      \* cancel() found an active process
  usage,        \* where the usage worker is
  rows,         \* rows that say "running": of the check, of the usage, and
                \* "unclosed": those the database refused to close
  served,       \* history: a watchdog check has completed in this slot
  late,         \* history: ticks a ready deadline has spent in a wait
  since         \* history: ticks since the last attempt at a check

world == <<grid, due, moved>>
timers == <<to_watchdog, hold>>
child == <<process, active>>
thread == <<loop, trigger, left>>
tasks == <<usage, rows>>
host == <<cancelled, main, grabbed>>
history == <<served, late, since>>
vars == <<world, timers, child, thread, tasks, host, history>>

Down == 0 .. MaxDue \cup {Unset}
Left(t) == IF t = Unset \/ t = 0 THEN t ELSE t - 1
AtMost(a, b) == IF a <= b THEN a ELSE b

LoopPlaces ==
  {"top", "decide", "begin", "enter", "spawn", "own", "running", "close",
   "record", "fail", "error", "plan", "wait", "ended"}
Triggers == {{}, {"startup"}, {"deadline"}, {"watchdog"}, {"deadline", "watchdog"}}

TypeOK ==
  /\ grid \in 0 .. WATCHDOG_INTERVAL - 1
  /\ to_watchdog \in 0 .. WATCHDOG_INTERVAL \cup {Unset}
  /\ hold \in 0 .. DEADLINE_BACKOFF /\ due \in Down /\ moved \in BOOLEAN
  /\ loop \in LoopPlaces /\ trigger \in Triggers
  /\ left \in Nat
  /\ process \in {"none", "alive", "dead"}
  /\ active \in BOOLEAN /\ cancelled \in BOOLEAN /\ grabbed \in BOOLEAN
  /\ main \in {"serving", "cancel", "kill", "notify", "join", "down"}
  /\ usage \in {"idle", "acting", "ending"}
  /\ rows \subseteq {"check", "usage", "unclosed"}
  /\ served \in BOOLEAN /\ late \in Nat /\ since \in Nat

\* TaskStore opens, and closes the rows of an earlier life; then start().
Fresh ==
  /\ to_watchdog' = Unset /\ hold' = 0
  /\ loop' = "top" /\ trigger' = {} /\ left' = 0
  /\ process' = "none" /\ active' = FALSE
  /\ cancelled' = FALSE /\ main' = "serving" /\ grabbed' = FALSE
  /\ rows' = {}
  /\ served' = FALSE /\ late' = 0 /\ since' = 0

Init ==
  /\ grid = 0 /\ due \in Down /\ moved = FALSE
  /\ to_watchdog = Unset /\ hold = 0
  /\ loop = "top" /\ trigger = {} /\ left = 0
  /\ process = "none" /\ active = FALSE
  /\ cancelled = FALSE /\ main = "serving" /\ grabbed = FALSE
  /\ usage = "idle" /\ rows = {}
  /\ served = FALSE /\ late = 0 /\ since = 0

-----------------------------------------------------------------------------
(* Time and the world outside.                                             *)

\* finish_run: the row is closed, or the database refuses and it stays open.
Close(task, closed) == rows' = (rows \ {task}) \cup IF closed THEN {} ELSE {"unclosed"}

deadline_ready == due = 0 /\ hold = 0
watchdog_ready == to_watchdog = 0

Waiting == loop \in {"wait", "running"}

\* The machine may sleep: the wall clock goes on, the waits do not.
Tick(awake) ==
  /\ loop = "ended" \/ (Waiting /\ (awake => left > 0))
  /\ grid' = (grid + 1) % WATCHDOG_INTERVAL
  /\ to_watchdog' = Left(to_watchdog) /\ hold' = Left(hold) /\ due' = Left(due)
  /\ left' = IF awake THEN Left(left) ELSE left
  /\ served' = (served /\ grid' # 0)
  /\ late' = IF awake /\ loop = "wait" /\ deadline_ready THEN late + 1 ELSE late
  /\ since' = IF awake /\ Waiting THEN since + 1 ELSE since
  /\ moved' = FALSE
  /\ UNCHANGED <<loop, trigger, child, tasks, host>>

\* A check, a usage or another process moves the deadlines; the state may
\* become unreadable.
MoveDeadline(d) ==
  /\ d # due /\ ~moved
  /\ due' = d /\ moved' = TRUE
  /\ late' = IF d = 0 THEN late ELSE 0
  /\ UNCHANGED <<grid, timers, thread, child, tasks, host, served, since>>

ProcessExits ==
  /\ process = "alive"
  /\ process' = "dead"
  /\ UNCHANGED <<world, timers, thread, active, tasks, host, history>>

-----------------------------------------------------------------------------
(* The loop thread.                                                        *)

Go(place) == loop' = place

\* Mutant: the loop does not look at the stop event.
LoopTop_unstopped ==
  /\ loop = "top"
  /\ Go("decide")
  /\ UNCHANGED <<world, timers, trigger, left, child, tasks, host, history>>

\* while not stop: run_startup, or run_ready_once.
LoopTop ==
  /\ loop = "top"
  /\ Go(IF main # "serving" THEN "ended" ELSE "decide")
  /\ UNCHANGED <<world, timers, trigger, left, child, tasks, host, history>>

Ready ==
  IF to_watchdog = Unset THEN {"startup"}
  ELSE (IF deadline_ready THEN {"deadline"} ELSE {}) \cup
       (IF watchdog_ready THEN {"watchdog"} ELSE {})

Decide ==
  /\ loop = "decide"
  /\ trigger' = Ready
  /\ Go(IF Ready = {} THEN "plan" ELSE "begin")
  /\ IF Ready = {} THEN UNCHANGED <<late, since>> ELSE late' = 0 /\ since' = 0
  /\ UNCHANGED <<world, timers, left, child, tasks, host, served>>

\* begin_run raises when the insert is refused, or when the files cannot be
\* secured after it.
BeginRun(ok) ==
  /\ loop = "begin"
  /\ Go(IF ok THEN "enter" ELSE "error")
  /\ IF ok THEN rows' = rows \cup {"check"}
           ELSE \E refused \in BOOLEAN : Close("check", refused)
  /\ UNCHANGED <<world, timers, trigger, left, child, usage, host, history>>

\* SubprocessRunner.run: cancelled before it began, it answers 130.
RunEnter ==
  /\ loop = "enter"
  /\ Go(IF cancelled THEN "record" ELSE "spawn")
  /\ UNCHANGED <<world, timers, trigger, left, child, tasks, host, history>>

RunSpawn(ok) ==
  /\ loop = "spawn"
  /\ Go(IF ok THEN "own" ELSE "fail")
  /\ process' = IF ok THEN "alive" ELSE process
  /\ UNCHANGED <<world, timers, trigger, left, active, tasks, host, history>>

\* Mutant: a cancellation that came between spawn and registration is missed.
RunOwn_unchecked ==
  /\ loop = "own"
  /\ active' = TRUE
  /\ left' = CHECK_TIMEOUT
  /\ Go("running")
  /\ UNCHANGED <<world, timers, trigger, process, tasks, host, history>>

\* The child is registered, and the flag read again under the same lock.
RunOwn ==
  /\ loop = "own"
  /\ active' = TRUE
  /\ left' = CHECK_TIMEOUT
  /\ Go(IF cancelled THEN "close" ELSE "running")
  /\ UNCHANGED <<world, timers, trigger, process, tasks, host, history>>

\* The child has ended, or its time is up.
RunWait ==
  /\ loop = "running"
  /\ process = "dead" \/ left = 0
  /\ Go("close")
  /\ UNCHANGED <<world, timers, trigger, left, child, tasks, host, history>>

\* process.stop and process.close leave nothing of the child's tree.
RunClose ==
  /\ loop = "close"
  /\ process' = "none" /\ active' = FALSE
  /\ Go("record")
  /\ UNCHANGED <<world, timers, trigger, left, tasks, host, history>>

\* Mutant: a slot that has passed is not advanced.
next_watchdog_after_unmoved ==
  IF to_watchdog = Unset THEN WATCHDOG_INTERVAL - grid ELSE to_watchdog

\* _next_watchdog_after(finished): the first slot after the check has ended.
next_watchdog_after == WATCHDOG_INTERVAL - grid

\* finish_run and the snapshot succeed, and the iteration sets its timers.
RecordRun ==
  /\ loop = "record"
  /\ Close("check", TRUE)
  /\ to_watchdog' = IF trigger = {"deadline"} THEN to_watchdog ELSE next_watchdog_after
  /\ hold' = IF trigger = {"watchdog"} THEN hold ELSE DEADLINE_BACKOFF
  /\ served' = (served \/ trigger # {"deadline"})
  /\ trigger' = {}
  /\ Go("top")
  /\ UNCHANGED <<world, left, child, usage, host, late, since>>

\* finish_run or the snapshot raises; the timers stay as they were.
RecordFails ==
  /\ loop \in {"record", "fail"}
  /\ \E closed \in BOOLEAN : Close("check", closed)
  /\ trigger' = {}
  /\ Go("error")
  /\ UNCHANGED <<world, timers, left, child, usage, host, history>>

\* Mutant: an iteration that fails is the last one.
LoopError_ends ==
  /\ loop = "error"
  /\ Go("ended")
  /\ left' = ERROR_BACKOFF
  /\ trigger' = {}
  /\ UNCHANGED <<world, timers, child, tasks, host, history>>

\* except Exception: an iteration that failed is retried after a while.
LoopError ==
  /\ loop = "error"
  /\ Go(IF main # "serving" THEN "ended" ELSE "wait")
  /\ left' = ERROR_BACKOFF
  /\ trigger' = {}
  /\ UNCHANGED <<world, timers, child, tasks, host, history>>

\* Mutant: the wait does not end at the next watchdog slot.
next_wake_without_watchdog(d) ==
  AtMost(EXTERNAL_RECHECK, IF d = Unset THEN EXTERNAL_RECHECK ELSE IF d = 0 THEN hold ELSE d)

\* Mutant: the wait is as long as the next known event allows.
next_wake_without_recheck(d) ==
  AtMost(to_watchdog, IF d = Unset THEN to_watchdog ELSE IF d = 0 THEN hold ELSE d)

\* next_wake_at, with the deadline it reads.
next_wake(d) ==
  AtMost(AtMost(EXTERNAL_RECHECK, to_watchdog),
         IF d = Unset THEN EXTERNAL_RECHECK ELSE IF d = 0 THEN hold ELSE d)

\* A notification after the timeout is computed and before the wait is lost.
PlanWait ==
  /\ loop = "plan"
  /\ left' = next_wake(due)
  /\ Go("wait")
  /\ UNCHANGED <<world, timers, trigger, child, tasks, host, history>>

WaitTimesOut ==
  /\ loop = "wait" /\ left = 0
  /\ Go("top")
  /\ UNCHANGED <<world, timers, trigger, left, child, tasks, host, history>>

LoopStep ==
  \/ LoopTop \/ Decide \/ RunEnter \/ RunOwn \/ RunWait \/ RunClose
  \/ RecordRun \/ RecordFails \/ LoopError \/ PlanWait \/ WaitTimesOut
  \/ \E ok \in BOOLEAN : BeginRun(ok) \/ RunSpawn(ok)

-----------------------------------------------------------------------------
(* The main thread.                                                        *)

\* notify_state_changed: a waiting loop goes on at once.
Notify ==
  /\ loop' = IF loop = "wait" THEN "top" ELSE loop
  /\ UNCHANGED <<timers, trigger, left, child>>

\* A signal; the stop event is set.
StopSet ==
  /\ main = "serving"
  /\ main' = "cancel"
  /\ UNCHANGED <<world, timers, thread, child, tasks, cancelled, grabbed, history>>

StopCancel ==
  /\ main = "cancel"
  /\ cancelled' = TRUE
  /\ grabbed' = active
  /\ main' = "kill"
  /\ UNCHANGED <<world, timers, thread, child, tasks, history>>

\* process.stop outside the lock; on a process already closed it does nothing.
StopKill ==
  /\ main = "kill"
  /\ process' = IF grabbed /\ process = "alive" THEN "dead" ELSE process
  /\ main' = "notify"
  /\ UNCHANGED <<world, timers, thread, active, tasks, cancelled, grabbed, history>>

StopNotify ==
  /\ main = "notify"
  /\ Notify
  /\ main' = "join"
  /\ UNCHANGED <<world, tasks, cancelled, grabbed, history>>

\* The join ends with the thread, or gives up on a thread that waits (whose
\* notification was lost); either way the process exits.
StopJoin ==
  /\ main = "join"
  /\ loop \in {"ended", "wait"}
  /\ main' = "down"
  /\ loop' = "ended" /\ usage' = "idle"
  /\ UNCHANGED <<world, timers, trigger, left, child, rows, cancelled, grabbed, history>>

MainStep == StopCancel \/ StopKill \/ StopNotify \/ StopJoin

\* The host is killed.  Its child is on its own, and ends on its own.
Crash ==
  /\ main # "down"
  /\ main' = "down"
  /\ loop' = "ended" /\ usage' = "idle"
  /\ process' = "none" /\ active' = FALSE
  /\ UNCHANGED <<world, timers, trigger, left, rows, cancelled, grabbed, history>>

\* Mutant: the history of an earlier life is left as it was.
Restart_unrecovered ==
  /\ main = "down"
  /\ to_watchdog' = Unset /\ hold' = 0
  /\ loop' = "top" /\ trigger' = {} /\ left' = 0
  /\ process' = "none" /\ active' = FALSE
  /\ cancelled' = FALSE /\ main' = "serving" /\ grabbed' = FALSE
  /\ served' = FALSE /\ late' = 0 /\ since' = 0
  /\ UNCHANGED <<world, tasks>>

Restart ==
  /\ main = "down"
  /\ Fresh
  /\ UNCHANGED <<world, usage>>

-----------------------------------------------------------------------------
(* A usage worker of the listener.                                         *)

UsageBegin ==
  /\ main = "serving" /\ usage = "idle"
  /\ usage' = "acting"
  /\ rows' = rows \cup {"usage"}
  /\ UNCHANGED <<world, timers, thread, child, host, history>>

\* The action is over, done or failed.
UsageFinish ==
  /\ usage = "acting"
  /\ usage' = "ending"
  /\ \E closed \in BOOLEAN : Close("usage", closed)
  /\ UNCHANGED <<world, timers, thread, child, host, history>>

\* finally: the snapshot, then the notification -- unless the snapshot raises.
UsageEnd(snapshot) ==
  /\ usage = "ending"
  /\ usage' = "idle"
  /\ IF snapshot THEN Notify ELSE UNCHANGED <<timers, thread, child>>
  /\ UNCHANGED <<world, rows, host, history>>

UsageStep == UsageFinish \/ \E snapshot \in BOOLEAN : UsageEnd(snapshot)

-----------------------------------------------------------------------------
Next ==
  \/ \E awake \in BOOLEAN : Tick(awake)
  \/ \E d \in Down : MoveDeadline(d)
  \/ ProcessExits
  \/ LoopStep
  \/ StopSet
  \/ MainStep
  \/ Crash
  \/ Restart
  \/ UsageBegin
  \/ UsageStep

Spec == Init /\ [][Next]_vars

\* Threads run, time passes while the machine is awake (however many usage
\* requests come in between), and the database and the spawn do not fail for
\* ever.  Nothing makes the deadline, the child, the operator or the usage
\* worker move.
Fairness ==
  /\ WF_vars(LoopStep) /\ WF_vars(MainStep) /\ SF_vars(Tick(TRUE))
  /\ SF_vars(BeginRun(TRUE)) /\ SF_vars(RunSpawn(TRUE))

FairSpec == Spec /\ Fairness
-----------------------------------------------------------------------------
\* stop(): whatever the loop thread was doing when the signal came -- about to
\* spawn, spawning, registering the child, watching it -- no check it started
\* is left running when the host has gone, and none is watched after cancel()
\* has done its part.
NoOrphan ==
  /\ main = "down" => process # "alive"
  /\ main \in {"notify", "join"} /\ process = "alive" => loop \in {"own", "close"}

\* A ready deadline is picked up within one recheck, although notifications
\* are lost and state changes unseen, the machine sleeps and iterations fail.
PromptDeadline ==
  late <= IF EXTERNAL_RECHECK >= ERROR_BACKOFF THEN EXTERNAL_RECHECK ELSE ERROR_BACKOFF

\* The watchdog grid is the safety net: a check is attempted at least once per
\* interval plus one check's bound, also when no deadline can be read, when
\* checks are killed at their bound, and when iterations fail.
NoSilentGap ==
  since <= CHECK_TIMEOUT + WATCHDOG_INTERVAL

\* Slots that pass during a long check do not pile up: after a completed
\* watchdog check the next one is in a later slot.
NoBacklog == loop = "begin" /\ "watchdog" \in trigger => ~served

\* A "running" row is a task somebody is still working on, or one the database
\* refused to close -- never one of an earlier life.
RunningRowIsLive ==
  main # "down" =>
    /\ "check" \in rows => loop \in {"enter", "spawn", "own", "running", "close", "record", "fail"}
    /\ "usage" \in rows => usage = "acting"

\* Neither failing iterations nor a stuck child silence the host: while it is
\* not stopped, check after check is begun.
CheckForever == []<>(main # "serving") \/ []<>(loop = "enter")

\* A stop that has begun comes to its end.
StopEnds == (main = "cancel") ~> (main = "down")
=============================================================================
