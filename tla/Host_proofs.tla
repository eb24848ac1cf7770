----------------------------- MODULE Host_proofs ------------------------------
(***************************************************************************)
(* Safety of the two services the background host runs, for every value of *)
(* their constants: the scheduler (TaskOrchestrator) and the /usage        *)
(* listener with the process it owns (UsageListener).                      *)
(*                                                                         *)
(* The scheduler has one inductive invariant, in parts: who owns the child *)
(* (ChildInv), what the rows say (RowInv), where the grid is (SlotInv),    *)
(* how long a ready deadline has been waiting (LateInv) and the last       *)
(* attempt is past (GapInv).  So has the listener: which groups are on     *)
(* record (TrackInv), where the query's group is gone (WorkerInv, StopInv) *)
(* and who has the command slot (CommandInv).                              *)
(***************************************************************************)
EXTENDS TaskOrchestrator, UsageListener, TLAPS

\* The longest wait between two looks at the deadline.
MaxWait == IF EXTERNAL_RECHECK >= ERROR_BACKOFF THEN EXTERNAL_RECHECK ELSE ERROR_BACKOFF

\* The runner knows its child while it watches it or closes it.  After
\* cancel() no child is watched that cancel() did not find.
ChildInv ==
  /\ main = "down" => loop = "ended"
  /\ process = "alive" => loop \in {"own", "running", "close"}
  /\ active <=> loop \in {"running", "close"}
  /\ main \in {"kill", "notify", "join"} => cancelled
  /\ main \in {"kill", "notify", "join"} /\ loop = "running" => grabbed
  /\ main \in {"notify", "join"} /\ loop = "running" => process # "alive"

RowInv == RunningRowIsLive

\* A watchdog check that completed in this slot has moved the next one to the
\* end of the slot.
SlotInv ==
  /\ served => to_watchdog = WATCHDOG_INTERVAL - grid
  /\ loop = "begin" /\ "watchdog" \in trigger => to_watchdog = 0

\* A deadline that waits is ready, and what it has waited and what is left of
\* the wait are together at most one wait.
LateInv ==
  /\ late <= MaxWait
  /\ late > 0 => deadline_ready /\ loop \in {"wait", "top", "decide", "ended"}
  /\ loop = "wait" => late + left <= MaxWait

\* The last attempt and what is left until the next slot are together at most
\* one check and one interval, and so is what is left of a wait.
GapInv ==
  /\ since <= CHECK_TIMEOUT + WATCHDOG_INTERVAL
  /\ to_watchdog # Unset /\ to_watchdog > 0
       => since + to_watchdog <= CHECK_TIMEOUT + WATCHDOG_INTERVAL
  /\ loop \in {"begin", "enter", "spawn", "own", "fail"} => since = 0
  /\ loop = "running" => since + left <= CHECK_TIMEOUT
  /\ loop \in {"close", "record", "error"} => since <= CHECK_TIMEOUT
  /\ loop = "plan" => to_watchdog # Unset /\ to_watchdog > 0
  /\ loop = "wait" => since + left <= CHECK_TIMEOUT + WATCHDOG_INTERVAL

IInv == TypeOK /\ ChildInv /\ RowInv /\ SlotInv /\ LateInv /\ GapInv

-----------------------------------------------------------------------------
(* The arithmetic of the grid.                                             *)

LEMMA GridTurns ==
  ASSUME NEW g \in 0 .. WATCHDOG_INTERVAL - 1
  PROVE  \/ g < WATCHDOG_INTERVAL - 1 /\ (g + 1) % WATCHDOG_INTERVAL = g + 1
         \/ g = WATCHDOG_INTERVAL - 1 /\ (g + 1) % WATCHDOG_INTERVAL = 0
BY OrchestratorAssumption

-----------------------------------------------------------------------------

LEMMA InitInvariant == Init => IInv
<1> SUFFICES ASSUME Init PROVE IInv
  OBVIOUS
<1>1. TypeOK
  <2>1. /\ grid \in 0 .. WATCHDOG_INTERVAL - 1
        /\ to_watchdog \in 0 .. WATCHDOG_INTERVAL \cup {Unset}
        /\ hold \in 0 .. DEADLINE_BACKOFF /\ due \in Down
    BY OrchestratorAssumption DEF Init
  <2>2. loop \in LoopPlaces /\ trigger \in Triggers /\ left \in Nat
    BY DEF Init, LoopPlaces, Triggers
  <2>3. /\ moved \in BOOLEAN /\ active \in BOOLEAN
        /\ cancelled \in BOOLEAN /\ grabbed \in BOOLEAN /\ served \in BOOLEAN
    BY DEF Init
  <2>4. process = "none" /\ main = "serving" /\ usage = "idle" /\ rows = {}
    BY DEF Init
  <2>5. late \in Nat /\ since \in Nat
    BY DEF Init
  <2>6. QED
    BY <2>1, <2>2, <2>3, <2>4, <2>5 DEF TypeOK
<1> USE OrchestratorAssumption DEF Init
<1>2. ChildInv /\ RowInv /\ SlotInv
  BY DEF ChildInv, RowInv, RunningRowIsLive, SlotInv
<1>3. LateInv /\ GapInv
  BY DEF LateInv, GapInv, MaxWait
<1>4. QED
  BY <1>1, <1>2, <1>3 DEF IInv

LEMMA StepInvariant == IInv /\ [Next]_vars => IInv'
<1> SUFFICES ASSUME IInv, [Next]_vars PROVE IInv'
  OBVIOUS
<1> USE OrchestratorAssumption, BackoffAssumption
    DEF IInv, TypeOK, LoopPlaces, ChildInv, RowInv, RunningRowIsLive, SlotInv,
        LateInv,
        GapInv, deadline_ready, Go, world, timers, child, thread, tasks, host, history
<1>1. ASSUME NEW awake \in BOOLEAN, Tick(awake) PROVE IInv'
  <2> USE <1>1, GridTurns DEF Tick, Waiting
  <2>1. (grid \in 0 .. WATCHDOG_INTERVAL - 1)'
    OBVIOUS
  <2>2. to_watchdog' \in 0 .. WATCHDOG_INTERVAL \cup {Unset}
    BY DEF Left
  <2>3. hold' \in 0 .. DEADLINE_BACKOFF
    BY DEF Left
  <2>4. due' \in Down
    BY DEF Left, Down
  <2>5. left' \in Nat
    BY DEF Left
  <2>6. served' \in BOOLEAN
    OBVIOUS
  <2>7. late' \in Nat
    OBVIOUS
  <2>8. since' \in Nat
    OBVIOUS
  <2>9. TypeOK'
    BY <2>1, <2>2, <2>3, <2>4, <2>5, <2>6, <2>7, <2>8
  <2>10. ChildInv' /\ RowInv'
    OBVIOUS
  <2>11. ASSUME served' PROVE to_watchdog' = WATCHDOG_INTERVAL - grid'
    <3>1. served /\ grid' = grid + 1 /\ grid < WATCHDOG_INTERVAL - 1
      BY <2>11
    <3>2. to_watchdog = WATCHDOG_INTERVAL - grid
      BY <3>1
    <3>3. to_watchdog' = to_watchdog - 1
      BY <3>1, <3>2 DEF Left
    <3>4. QED
      BY <3>1, <3>2, <3>3
  <2>12. SlotInv'
    BY <2>11
  <2>13. LateInv'
    BY DEF Left, MaxWait
  <2>14. GapInv'
    BY DEF Left
  <2>15. QED
    BY <2>9, <2>10, <2>12, <2>13, <2>14
<1>2. ASSUME NEW d \in Down, MoveDeadline(d) PROVE IInv'
  <2>1. TypeOK' /\ ChildInv' /\ RowInv' /\ SlotInv' /\ GapInv'
    BY <1>2 DEF MoveDeadline
  <2>2. LateInv'
    BY <1>2 DEF MoveDeadline, MaxWait
  <2>3. QED
    BY <2>1, <2>2
<1>3. CASE ProcessExits
  BY <1>3 DEF ProcessExits
<1>4. CASE LoopTop
  BY <1>4 DEF LoopTop
<1>5. CASE Decide
  <2>1. TypeOK'
    <3>1. trigger' \in Triggers
      BY <1>5 DEF Decide, Ready, Triggers
    <3>2. QED
      BY <1>5, <3>1 DEF Decide
  <2>2. ChildInv' /\ RowInv'
    BY <1>5 DEF Decide
  <2>3. "watchdog" \in Ready => to_watchdog = 0
    BY DEF Ready, watchdog_ready
  <2>4. SlotInv'
    BY <1>5, <2>3 DEF Decide
  <2>5. LateInv'
    <3>1. late > 0 => Ready # {}
      BY DEF Ready
    <3>2. QED
      BY <1>5, <3>1 DEF Decide, MaxWait
  <2>6. GapInv'
    <3>1. Ready = {} => to_watchdog # Unset /\ to_watchdog # 0
      BY DEF Ready, watchdog_ready
    <3>2. CASE Ready = {}
      BY <1>5, <3>1, <3>2 DEF Decide
    <3>3. CASE Ready # {}
      BY <1>5, <3>3 DEF Decide
    <3>4. QED
      BY <3>2, <3>3
  <2>7. QED
    BY <2>1, <2>2, <2>3, <2>4, <2>5, <2>6
<1>6. CASE RunEnter
  BY <1>6 DEF RunEnter
<1>7. CASE RunOwn
  BY <1>7 DEF RunOwn
<1>8. CASE RunWait
  BY <1>8 DEF RunWait
<1>9. CASE RunClose
  <2>1. /\ loop = "close" /\ loop' = "record" /\ process' = "none" /\ active' = FALSE
        /\ UNCHANGED <<world, timers, trigger, left, tasks, host, history>>
    BY <1>9 DEF RunClose
  <2>2. TypeOK' /\ ChildInv' /\ RowInv'
    BY <2>1
  <2>3. SlotInv' /\ LateInv' /\ GapInv'
    BY <2>1
  <2>4. QED
    BY <2>2, <2>3
<1>10. CASE RecordRun
  BY <1>10 DEF RecordRun, Close, next_watchdog_after, Triggers
<1>11. CASE RecordFails
  BY <1>11 DEF RecordFails, Close, Triggers
<1>12. CASE LoopError
  BY <1>12 DEF LoopError, Triggers, MaxWait
<1>13. CASE PlanWait
  BY <1>13 DEF PlanWait, next_wake, AtMost, Down, MaxWait
<1>14. CASE WaitTimesOut
  BY <1>14 DEF WaitTimesOut
<1>15. ASSUME NEW ok \in BOOLEAN, BeginRun(ok) PROVE IInv'
  <2>1. TypeOK' /\ RowInv'
    <3>1. CASE ok
      BY <1>15, <3>1 DEF BeginRun
    <3>2. CASE ~ok
      <4>1. PICK refused \in BOOLEAN : Close("check", refused)
        BY <1>15, <3>2 DEF BeginRun
      <4>2. rows' \subseteq {"usage", "unclosed"} /\ ("usage" \in rows' => "usage" \in rows)
        BY <4>1 DEF Close
      <4>3. QED
        BY <1>15, <3>2, <4>2 DEF BeginRun
    <3>3. QED
      BY <3>1, <3>2
  <2>2. ChildInv' /\ SlotInv'
    BY <1>15 DEF BeginRun
  <2>3. LateInv'
    BY <1>15 DEF BeginRun, MaxWait
  <2>4. GapInv'
    BY <1>15 DEF BeginRun
  <2>5. QED
    BY <2>1, <2>2, <2>3, <2>4
<1>16. ASSUME NEW ok \in BOOLEAN, RunSpawn(ok) PROVE IInv'
  BY <1>16 DEF RunSpawn
<1>17. CASE StopSet
  BY <1>17 DEF StopSet
<1>18. CASE StopCancel
  BY <1>18 DEF StopCancel
<1>19. CASE StopKill
  BY <1>19 DEF StopKill
<1>20. CASE StopNotify
  BY <1>20 DEF StopNotify, Notify
<1>21. CASE StopJoin
  BY <1>21 DEF StopJoin
<1>22. CASE Crash
  BY <1>22 DEF Crash
<1>23. CASE Restart
  <2>1. trigger' \in Triggers
    BY <1>23 DEF Restart, Fresh, Triggers
  <2>2. TypeOK'
    <3>1. /\ moved' \in BOOLEAN /\ active' \in BOOLEAN /\ cancelled' \in BOOLEAN
          /\ grabbed' \in BOOLEAN /\ served' \in BOOLEAN
      BY <1>23 DEF Restart, Fresh
    <3>2. late' \in Nat /\ since' \in Nat /\ left' \in Nat
      BY <1>23 DEF Restart, Fresh
    <3>3. /\ to_watchdog' = Unset /\ hold' = 0 /\ rows' = {} /\ process' = "none"
          /\ main' = "serving" /\ loop' = "top" /\ UNCHANGED <<grid, due, usage>>
      BY <1>23 DEF Restart, Fresh
    <3>4. QED
      BY <2>1, <3>1, <3>2, <3>3
  <2>3. ChildInv' /\ RowInv' /\ SlotInv'
    BY <1>23 DEF Restart, Fresh
  <2>4. LateInv' /\ GapInv'
    BY <1>23 DEF Restart, Fresh, MaxWait
  <2>5. QED
    BY <2>2, <2>3, <2>4
<1>24. CASE UsageBegin
  BY <1>24 DEF UsageBegin
<1>25. CASE UsageFinish
  BY <1>25 DEF UsageFinish, Close
<1>26. ASSUME NEW snapshot \in BOOLEAN, UsageEnd(snapshot) PROVE IInv'
  BY <1>26 DEF UsageEnd, Notify
<1>27. CASE UNCHANGED vars
  BY <1>27 DEF vars
<1>28. QED
  BY <1>1, <1>2, <1>3, <1>4, <1>5, <1>6, <1>7, <1>8, <1>9, <1>10, <1>11, <1>12, <1>13,
     <1>14, <1>15, <1>16, <1>17, <1>18, <1>19, <1>20, <1>21, <1>22, <1>23, <1>24, <1>25,
     <1>26, <1>27
  DEF Next, LoopStep, MainStep, UsageStep

-----------------------------------------------------------------------------
LEMMA Invariance == Spec => []IInv
  BY InitInvariant, StepInvariant, PTL DEF Spec

\* Type correctness of the host, its runner and its usage worker.
THEOREM TypeCorrect == Spec => []TypeOK
<1>1. IInv => TypeOK
  BY DEF IInv
<1>2. QED
  BY <1>1, Invariance, PTL

\* stop() leaves no check running, wherever the signal finds the loop thread:
\* about to spawn, spawning, registering the child or watching it.
THEOREM StopLeavesNoCheck == Spec => []NoOrphan
<1>1. IInv => NoOrphan
  BY DEF IInv, TypeOK, LoopPlaces, ChildInv, NoOrphan
<1>2. QED
  BY <1>1, Invariance, PTL

\* A ready deadline waits at most the longer of a recheck and an error backoff.
THEOREM DeadlineIsPrompt == Spec => []PromptDeadline
<1>1. IInv => PromptDeadline
  BY DEF IInv, LateInv, MaxWait, PromptDeadline
<1>2. QED
  BY <1>1, Invariance, PTL

\* While the machine is awake, a check is attempted within one interval of the
\* grid and the bound of the check before it.
THEOREM GapIsBounded == Spec => []NoSilentGap
<1>1. IInv => NoSilentGap
  BY DEF IInv, GapInv, NoSilentGap
<1>2. QED
  BY <1>1, Invariance, PTL

\* No slot of the grid is served twice: a watchdog check begins in a slot only
\* when none has completed in it.
THEOREM SlotIsServedOnce == Spec => []NoBacklog
<1>1. IInv => NoBacklog
  <2>1. IInv /\ loop = "begin" /\ "watchdog" \in trigger /\ served => FALSE
    BY OrchestratorAssumption DEF IInv, TypeOK, SlotInv
  <2>2. QED
    BY <2>1 DEF NoBacklog, IInv, TypeOK
<1>2. QED
  BY <1>1, Invariance, PTL

\* Whatever fails or crashes, a row that says "running" belongs to somebody who
\* is working on it.
THEOREM RunningRowHasWorker == Spec => []RunningRowIsLive
<1>1. IInv => RunningRowIsLive
  BY DEF IInv, RowInv
<1>2. QED
  BY <1>1, Invariance, PTL

-----------------------------------------------------------------------------
(* The /usage listener.                                                    *)

MainPlaces == {"loop", "submit", "register", "callback", "remember", "stop",
               "terminate", "terminating", "shutdown", "wait", "stopped"}
WorkerPlaces == {"idle", "spawn", "capture", "stop", "stopping", "close",
                 "closing", "closed", "discard", "done"}

MainStates == [at : MainPlaces] \cup [at : MainPlaces, id : Messages]
Futures == [state : {"none", "pending", "running", "done"}, callback : BOOLEAN]
Groups == [Processes -> Processes]
USE DEF MainStates, Futures, Groups

ListenerTypeOK ==
  /\ alive \subseteq Processes /\ group \in Groups
  /\ listener \in MainStates
  /\ worker \in WorkerPlaces
  /\ future \in Futures
  /\ _closed \in BOOLEAN /\ active_process \in BOOLEAN /\ commands_closing \in BOOLEAN
  /\ command_slot \in BOOLEAN

\* No process of the query's own group runs.
Gone == \A p \in alive : group[p] # Leader

\* The query's group is on record as long as anybody may signal it.
TrackInv ==
  /\ ~_closed => Leader \in _groups
  /\ _guard # {} => Leader \in _groups

\* A closed process has no group left, and is closed before it is struck off.
WorkerInv ==
  /\ _closed => Gone
  /\ worker \in {"close", "closing", "closed"} => Gone
  /\ worker = "discard" => _closed
  /\ ~active_process => _closed

\* No command starts once the host stops, and it goes on only when the group
\* is gone.
StopInv ==
  /\ listener.at \in {"terminate", "terminating", "shutdown", "wait", "stopped"}
       => commands_closing
  /\ listener.at \in {"shutdown", "wait", "stopped"} => Gone

\* The worker has what was submitted; a free slot has nothing behind it, and
\* the handler that took the slot submits to an idle worker.
CommandInv ==
  /\ worker # "idle" <=> future.state = "running"
  /\ command_slot => future = NoFuture
  /\ listener.at = "submit" => ~command_slot /\ future = NoFuture
  /\ listener.at \in {"register", "callback"} => ~command_slot /\ ~future.callback

OwnedInv == ListenerTypeOK /\ TrackInv /\ WorkerInv /\ StopInv
ListenerInv == OwnedInv /\ CommandInv

-----------------------------------------------------------------------------
(* The processes: what any of their steps keeps.                           *)

\* A tree that is gone stays gone by itself: a child is born into its parent's
\* group, and who leaves a group leads its own.
LEMMA TreeKeepsGone ==
  ASSUME ListenerTypeOK, TreeStep
  PROVE  /\ alive' \subseteq Processes /\ group' \in Groups
         /\ Gone => Gone'
         /\ UNCHANGED <<_groups, _guard, _closed>>
<1>1. ASSUME NEW p \in Processes, Detach(p)
      PROVE  /\ alive' \subseteq Processes /\ group' \in Groups
             /\ Gone => Gone'
             /\ UNCHANGED <<_groups, _guard, _closed>>
  BY <1>1 DEF Detach, ListenerTypeOK, Gone
<1>2. ASSUME NEW p \in Processes, Exit(p)
      PROVE  /\ alive' \subseteq Processes /\ group' \in Groups
             /\ Gone => Gone'
             /\ UNCHANGED <<_groups, _guard, _closed>>
  BY <1>2 DEF Exit, ListenerTypeOK, Gone
<1>3. ASSUME NEW p \in Processes, NEW c \in Descendants, Fork(p, c)
      PROVE  /\ alive' \subseteq Processes /\ group' \in Groups
             /\ Gone => Gone'
             /\ UNCHANGED <<_groups, _guard, _closed>>
  <2>1. c \in Processes /\ group[p] \in Processes
    BY DEF Processes, ListenerTypeOK
  <2>2. QED
    BY <1>3, <2>1 DEF Fork, ListenerTypeOK, Gone
<1>4. QED
  BY <1>1, <1>2, <1>3 DEF TreeStep

\* The last signal of a stop reaches every process of a recorded group.
LEMMA KillEndsGroup ==
  ASSUME NEW who, StopFinish(who), Leader \in _groups
  PROVE  Gone'
BY DEF StopFinish, Killed, Signalled, Gone

\* What the steps of a stop leave alone, and what they add.
LEMMA StopKeeps ==
  ASSUME NEW who, ListenerTypeOK,
         StopBegin(who) \/ StopWait(who) \/ StopFinish(who)
  PROVE  /\ alive' \subseteq alive /\ UNCHANGED <<group, _closed>>
         /\ _groups \subseteq _groups'
         /\ Gone => Gone'
BY DEF StopBegin, StopWait, StopFinish, Killed,
       _snapshot, Running, Gone

-----------------------------------------------------------------------------
\* Nothing runs and nothing is on its way.
LEMMA ListenerStarts == ListenerInit => ListenerInv
<1> SUFFICES ASSUME ListenerInit PROVE ListenerInv
  OBVIOUS
<1>1. ListenerTypeOK
  <2>1. alive \subseteq Processes /\ group \in Groups
    BY DEF ListenerInit, InitTree, Processes
  <2>2. listener \in [at : MainPlaces] /\ worker \in WorkerPlaces
    BY DEF ListenerInit, MainPlaces, WorkerPlaces
  <2>3. future \in Futures
    BY DEF ListenerInit, NoFuture
  <2>4. QED
    BY <2>1, <2>2, <2>3 DEF ListenerInit, InitTree, ListenerTypeOK
<1>2. TrackInv /\ WorkerInv /\ StopInv /\ CommandInv
  BY DEF ListenerInit, InitTree, NoFuture, TrackInv, WorkerInv,
      StopInv, CommandInv, Gone
<1>3. QED
  BY <1>1, <1>2 DEF ListenerInv, OwnedInv

-----------------------------------------------------------------------------
(* The handler and the main thread's other steps that touch no process.    *)

\* A step that leaves the processes, the worker and the end of the host alone.
LEMMA QuietStep ==
  ASSUME OwnedInv, KeepTree,
         UNCHANGED <<worker, active_process, commands_closing>>,
         listener' \in MainStates,
         future' \in Futures,
         command_slot' \in BOOLEAN,
         listener'.at \in {"terminate", "terminating", "shutdown", "wait", "stopped"}
           => commands_closing,
         listener'.at \in {"shutdown", "wait", "stopped"} => Gone
  PROVE  OwnedInv'
<1>1. Gone' <=> Gone
  BY DEF KeepTree, treeVars, Gone
<1>2. ListenerTypeOK'
  BY DEF OwnedInv, ListenerTypeOK, KeepTree, treeVars
<1>3. TrackInv' /\ WorkerInv' /\ StopInv'
  BY <1>1
  DEF OwnedInv, TrackInv, WorkerInv, StopInv, KeepTree, treeVars
<1>4. QED
  BY <1>2, <1>3 DEF OwnedInv

\* Where the main thread is, and where it may go next.
LEMMA MainGoes ==
  ASSUME ListenerTypeOK, NEW place \in MainPlaces
  PROVE  /\ [listener EXCEPT !.at = place] \in MainStates
         /\ [listener EXCEPT !.at = place].at = place
         /\ [at |-> place] \in [at : MainPlaces]
         /\ \A id \in Messages : [at |-> place, id |-> id] \in [at : MainPlaces, id : Messages]
         /\ listener.at \in MainPlaces
BY DEF ListenerTypeOK

LEMMA ListenerMainStep ==
  ASSUME ListenerInv,
         \/ \E id \in Messages : on_message_receive(id)
         \/ cleanup \/ Handler \/ Signal
         \/ Closing \/ Shutdown \/ Stopped
  PROVE  ListenerInv'
<1> USE DEF ListenerInv
<1>t. OwnedInv /\ ListenerTypeOK
  BY DEF OwnedInv
<1>f. /\ NoFuture \in Futures
      /\ future \in Futures
  BY <1>t DEF NoFuture, ListenerTypeOK
<1>1. ASSUME NEW id \in Messages, on_message_receive(id)
      PROVE  ListenerInv'
  <2>1. CASE UNCHANGED listener
    <3>1. command_slot' \in BOOLEAN
      BY <1>1, <1>t DEF on_message_receive, ListenerTypeOK
    <3>2. OwnedInv'
      BY <1>1, <1>t, <1>f, <2>1, <3>1, QuietStep
      DEF on_message_receive, ListenerTypeOK, OwnedInv, StopInv
    <3>3. CommandInv'
      BY <1>1, <2>1 DEF on_message_receive, CommandInv
    <3>4. QED
      BY <3>2, <3>3
  <2>2. CASE /\ command_slot' = FALSE
             /\ listener' = [at |-> IF command_slot THEN "submit" ELSE "remember", id |-> id]
    <3>1. /\ listener' \in [at : MainPlaces, id : Messages]
          /\ listener'.at = IF command_slot THEN "submit" ELSE "remember"
      BY <2>2 DEF MainPlaces
    <3>2. OwnedInv'
      BY <1>1, <1>t, <1>f, <2>2, <3>1, QuietStep DEF on_message_receive
    <3>3. CommandInv'
      BY <1>1, <2>2, <3>1 DEF on_message_receive, CommandInv
    <3>4. QED
      BY <3>2, <3>3
  <2>3. QED
    BY <1>1, <2>1, <2>2 DEF on_message_receive
<1>2. CASE cleanup
  <2>1. OwnedInv'
    BY <1>2, <1>t, <1>f, QuietStep
    DEF cleanup, KeepCommand, ListenerTypeOK, OwnedInv, StopInv
  <2>2. CommandInv'
    BY <1>2 DEF cleanup, KeepCommand, CommandInv
  <2>3. QED
    BY <2>1, <2>2
<1>3. CASE submit
  <2>1. /\ listener' \in MainStates
        /\ listener'.at = "register"
    BY <1>3, <1>t, MainGoes DEF submit, MainPlaces
  <2>2. OwnedInv'
    BY <1>3, <1>t, <2>1, QuietStep DEF submit, ListenerTypeOK
  <2>3. CommandInv'
    BY <1>3, <2>1 DEF submit, CommandInv, NoFuture
  <2>4. QED
    BY <2>2, <2>3
<1>4. CASE register
  <2>1. /\ listener' \in MainStates
        /\ listener'.at = "callback"
    BY <1>4, <1>t, MainGoes DEF register, MainPlaces
  <2>2. OwnedInv'
    BY <1>4, <1>t, <1>f, <2>1, QuietStep DEF register, ListenerTypeOK
  <2>3. CommandInv'
    BY <1>4, <2>1 DEF register, CommandInv
  <2>4. QED
    BY <2>2, <2>3
<1>5. CASE add_done_callback
  <2>1. /\ listener' \in MainStates
        /\ listener'.at = "remember"
    BY <1>5, <1>t, MainGoes DEF add_done_callback, MainPlaces
  <2>2. /\ future' \in Futures
        /\ command_slot' \in BOOLEAN
        /\ future'.state = "running" <=> future.state = "running"
        /\ command_slot' => future' = NoFuture
    BY <1>5, <1>t, <1>f
    DEF add_done_callback, finished, ListenerTypeOK, CommandInv,
        NoFuture
  <2>3. OwnedInv'
    BY <1>5, <1>t, <2>1, <2>2, QuietStep DEF add_done_callback
  <2>4. CommandInv'
    BY <1>5, <2>1, <2>2 DEF add_done_callback, CommandInv
  <2>5. QED
    BY <2>3, <2>4
<1>6. CASE remember
  <2>1. listener' \in [at : MainPlaces] /\ listener'.at = "loop"
    BY <1>6 DEF remember, MainPlaces
  <2>2. OwnedInv'
    BY <1>6, <1>t, <1>f, <2>1, QuietStep
    DEF remember, KeepCommand, ListenerTypeOK
  <2>3. CommandInv'
    BY <1>6, <2>1 DEF remember, KeepCommand, CommandInv
  <2>4. QED
    BY <2>2, <2>3
<1>7. CASE SignalInLoop
  <2>1. listener' \in [at : MainPlaces] /\ listener'.at = "stop"
    BY <1>7 DEF SignalInLoop, MainPlaces
  <2>2. OwnedInv'
    BY <1>7, <1>t, <1>f, <2>1, QuietStep
    DEF SignalInLoop, KeepCommand, ListenerTypeOK
  <2>3. CommandInv'
    BY <1>7, <2>1 DEF SignalInLoop, KeepCommand, CommandInv
  <2>4. QED
    BY <2>2, <2>3
<1>8. CASE Closing
  <2>1. /\ listener' \in [at : MainPlaces]
        /\ listener'.at = IF active_process THEN "terminate" ELSE "shutdown"
    BY <1>8 DEF Closing, MainPlaces
  <2>2. Gone' <=> Gone
    BY <1>8 DEF Closing, KeepTree, treeVars, Gone
  <2>3. ListenerTypeOK'
    BY <1>8, <1>t, <1>f, <2>1
    DEF Closing, KeepTree, KeepCommand, treeVars,
        ListenerTypeOK
  <2>4. TrackInv' /\ WorkerInv' /\ StopInv'
    BY <1>8, <1>t, <2>1, <2>2
    DEF Closing, KeepTree, treeVars, OwnedInv, TrackInv,
        WorkerInv, StopInv
  <2>5. CommandInv'
    BY <1>8, <2>1 DEF Closing, KeepCommand, CommandInv
  <2>6. QED
    BY <2>3, <2>4, <2>5 DEF OwnedInv
<1>9. CASE Shutdown
  <2>1. /\ listener' \in [at : MainPlaces] /\ listener'.at = "wait"
        /\ commands_closing /\ Gone
    BY <1>9, <1>t DEF Shutdown, MainPlaces, OwnedInv, StopInv
  <2>2. /\ future' \in Futures
        /\ command_slot' \in BOOLEAN
        /\ future'.state = "running" <=> future.state = "running"
        /\ command_slot' => future' = NoFuture
    BY <1>9, <1>t, <1>f
    DEF Shutdown, KeepCommand, finished, ListenerTypeOK,
        CommandInv, NoFuture
  <2>3. OwnedInv'
    BY <1>9, <1>t, <2>1, <2>2, QuietStep DEF Shutdown
  <2>4. CommandInv'
    BY <1>9, <2>1, <2>2 DEF Shutdown, CommandInv
  <2>5. QED
    BY <2>3, <2>4
<1>10. CASE Stopped
  <2>1. /\ listener' \in [at : MainPlaces] /\ listener'.at = "stopped"
        /\ commands_closing /\ Gone
    BY <1>10, <1>t DEF Stopped, MainPlaces, OwnedInv, StopInv
  <2>2. OwnedInv'
    BY <1>10, <1>t, <1>f, <2>1, QuietStep
    DEF Stopped, KeepCommand, ListenerTypeOK
  <2>3. CommandInv'
    BY <1>10, <2>1 DEF Stopped, KeepCommand, CommandInv
  <2>4. QED
    BY <2>2, <2>3
<1>11. CASE SignalInHandler
  <2>1. listener' \in [at : MainPlaces] /\ listener'.at = "loop"
    BY <1>11 DEF SignalInHandler, MainPlaces
  <2>2. OwnedInv'
    BY <1>11, <1>t, <1>f, <2>1, QuietStep DEF SignalInHandler, ListenerTypeOK
  <2>3. CommandInv'
    BY <1>11, <2>1 DEF SignalInHandler, CommandInv
  <2>4. QED
    BY <2>2, <2>3
<1>12. QED
  BY <1>1, <1>2, <1>3, <1>4, <1>5, <1>6, <1>7, <1>8, <1>9, <1>10, <1>11
  DEF Handler, Signal

-----------------------------------------------------------------------------
(* stop(): the owned process is signalled, or is closed already.           *)

LEMMA TerminateStep ==
  ASSUME ListenerInv, Terminate
  PROVE  ListenerInv'
<1>t. OwnedInv /\ ListenerTypeOK /\ TrackInv /\ WorkerInv /\ StopInv /\ CommandInv
  BY DEF ListenerInv, OwnedInv
<1>k. /\ UNCHANGED <<worker, active_process, commands_closing, command_slot, future>>
      /\ commands_closing
      /\ listener.at \in {"terminate", "terminating"}
  BY <1>t DEF Terminate, HostStops, KeepCommand, StopInv
<1>s. listener'.at \notin {"submit", "register", "callback"} => CommandInv'
  BY <1>t, <1>k DEF CommandInv
<1>1. CASE /\ listener.at = "terminate" /\ _closed
           /\ listener' = [at |-> "shutdown"] /\ KeepTree
  <2>1. listener' \in [at : MainPlaces] /\ listener'.at = "shutdown" /\ Gone
    BY <1>1, <1>t DEF MainPlaces, WorkerInv
  <2>2. OwnedInv'
    BY <1>1, <1>t, <1>k, <2>1, QuietStep DEF ListenerTypeOK
  <2>3. QED
    BY <1>s, <2>1, <2>2 DEF ListenerInv
<1>2. CASE /\ listener.at = "terminate" /\ StopBegin("main")
           /\ listener' = [at |-> "terminating"]
  <2>1. listener' \in [at : MainPlaces] /\ listener'.at = "terminating"
    BY <1>2 DEF MainPlaces
  <2>2. /\ alive' \subseteq alive /\ UNCHANGED <<group, _closed>>
        /\ _groups \subseteq _groups' /\ (Gone => Gone')
    BY <1>2, <1>t, StopKeeps
  <2>3. ListenerTypeOK'
    BY <1>t, <1>k, <2>1, <2>2 DEF ListenerTypeOK
  <2>4. TrackInv'
    BY <1>2, <1>t, <2>2 DEF StopBegin, TrackInv
  <2>5. WorkerInv' /\ StopInv'
    BY <1>t, <1>k, <2>1, <2>2 DEF WorkerInv, StopInv
  <2>6. QED
    BY <1>s, <2>1, <2>3, <2>4, <2>5 DEF ListenerInv, OwnedInv
<1>3. CASE /\ listener.at = "terminating" /\ StopWait("main")
           /\ UNCHANGED listener
  <2>2. /\ alive' \subseteq alive /\ UNCHANGED <<group, _closed>>
        /\ _groups \subseteq _groups' /\ (Gone => Gone')
    BY <1>3, <1>t, StopKeeps
  <2>3. ListenerTypeOK'
    BY <1>3, <1>t, <1>k, <2>2 DEF ListenerTypeOK
  <2>4. TrackInv'
    BY <1>3, <1>t, <2>2 DEF StopWait, TrackInv
  <2>5. WorkerInv' /\ StopInv'
    BY <1>3, <1>t, <1>k, <2>2 DEF WorkerInv, StopInv
  <2>6. QED
    BY <1>3, <1>s, <2>3, <2>4, <2>5 DEF ListenerInv, OwnedInv
<1>4. CASE /\ listener.at = "terminating" /\ StopFinish("main")
           /\ listener' = [at |-> "shutdown"]
  <2>1. listener' \in [at : MainPlaces] /\ listener'.at = "shutdown"
    BY <1>4 DEF MainPlaces
  <2>2. /\ alive' \subseteq alive /\ UNCHANGED <<group, _closed>>
        /\ _groups \subseteq _groups'
    BY <1>4, <1>t, StopKeeps
  <2>3. Gone' /\ _guard' = {} /\ Leader \in _groups
    BY <1>4, <1>t, KillEndsGroup DEF StopFinish, TrackInv
  <2>4. ListenerTypeOK'
    BY <1>t, <1>k, <2>1, <2>2 DEF ListenerTypeOK
  <2>5. TrackInv' /\ WorkerInv' /\ StopInv'
    BY <1>t, <1>k, <2>1, <2>2, <2>3 DEF TrackInv, WorkerInv, StopInv
  <2>6. QED
    BY <1>s, <2>1, <2>4, <2>5 DEF ListenerInv, OwnedInv
<1>5. QED
  BY <1>1, <1>2, <1>3, <1>4 DEF Terminate, HostStops

-----------------------------------------------------------------------------
(* The worker.                                                             *)

\* A step of the worker that starts and ends no query.
LEMMA WorkerStopStep ==
  ASSUME ListenerInv, WorkerStop
  PROVE  ListenerInv'
<1>t. OwnedInv /\ ListenerTypeOK /\ TrackInv /\ WorkerInv /\ StopInv /\ CommandInv
  BY DEF ListenerInv, OwnedInv
<1>k. UNCHANGED <<listener, active_process, commands_closing, command_slot, future>>
  BY DEF WorkerStop, KeepMain, KeepCommand
<1>w. /\ worker \in {"stop", "stopping", "close", "closing", "closed"}
      /\ worker' \in WorkerPlaces \ {"idle"}
  BY DEF WorkerStop, WorkerStops, At, WorkerPlaces
<1>s. CommandInv'
  BY <1>t, <1>k, <1>w DEF CommandInv
<1>1. ASSUME NEW next, next \in {"stopping", "closing"}, next = "closing" => worker = "close",
             StopBegin("worker"), worker' = next
      PROVE  ListenerTypeOK' /\ TrackInv' /\ WorkerInv' /\ StopInv'
  <2>1. /\ alive' \subseteq alive /\ UNCHANGED <<group, _closed>>
        /\ _groups \subseteq _groups' /\ (Gone => Gone')
    BY <1>1, <1>t, StopKeeps
  <2>2. ListenerTypeOK'
    BY <1>t, <1>k, <1>w, <2>1 DEF ListenerTypeOK
  <2>3. TrackInv'
    BY <1>1, <1>t, <2>1 DEF StopBegin, TrackInv
  <2>4. WorkerInv' /\ StopInv'
    BY <1>1, <1>t, <1>k, <2>1 DEF WorkerInv, StopInv
  <2>5. QED
    BY <2>2, <2>3, <2>4
<1>2. ASSUME StopWait("worker"), UNCHANGED worker
      PROVE  ListenerTypeOK' /\ TrackInv' /\ WorkerInv' /\ StopInv'
  <2>1. /\ alive' \subseteq alive /\ UNCHANGED <<group, _closed>>
        /\ _groups \subseteq _groups' /\ (Gone => Gone')
    BY <1>2, <1>t, StopKeeps
  <2>2. ListenerTypeOK'
    BY <1>2, <1>t, <1>k, <2>1 DEF ListenerTypeOK
  <2>3. TrackInv'
    BY <1>2, <1>t, <2>1 DEF StopWait, TrackInv
  <2>4. WorkerInv' /\ StopInv'
    BY <1>2, <1>t, <1>k, <2>1 DEF WorkerInv, StopInv
  <2>5. QED
    BY <2>2, <2>3, <2>4
<1>3. ASSUME StopFinish("worker"), worker' \in {"close", "closed"}
      PROVE  ListenerTypeOK' /\ TrackInv' /\ WorkerInv' /\ StopInv'
  <2>1. /\ alive' \subseteq alive /\ UNCHANGED <<group, _closed>>
        /\ _groups \subseteq _groups'
    BY <1>3, <1>t, StopKeeps
  <2>2. Gone' /\ _guard' = {}
    BY <1>3, <1>t, KillEndsGroup DEF StopFinish, TrackInv
  <2>3. ListenerTypeOK'
    BY <1>t, <1>k, <1>w, <2>1 DEF ListenerTypeOK
  <2>4. TrackInv' /\ WorkerInv' /\ StopInv'
    BY <1>3, <1>t, <1>k, <2>1, <2>2 DEF TrackInv, WorkerInv, StopInv
  <2>5. QED
    BY <2>3, <2>4
<1>4. ASSUME At("closed"), CloseDone, worker' = "discard"
      PROVE  ListenerTypeOK' /\ TrackInv' /\ WorkerInv' /\ StopInv'
  <2>1. Gone /\ UNCHANGED <<alive, group, _groups, _guard>> /\ _closed'
    BY <1>4, <1>t DEF CloseDone, Running, At, WorkerInv
  <2>2. Gone'
    BY <2>1 DEF Gone
  <2>3. ListenerTypeOK'
    BY <1>t, <1>k, <1>w, <1>4, <2>1 DEF ListenerTypeOK, CloseDone
  <2>4. TrackInv' /\ WorkerInv' /\ StopInv'
    BY <1>4, <1>t, <1>k, <2>1, <2>2 DEF TrackInv, WorkerInv, StopInv
  <2>5. QED
    BY <2>3, <2>4
<1>5. ListenerTypeOK' /\ TrackInv' /\ WorkerInv' /\ StopInv'
  BY <1>1, <1>2, <1>3, <1>4 DEF WorkerStop, WorkerStops, At
<1>6. QED
  BY <1>s, <1>5 DEF ListenerInv, OwnedInv

LEMMA WorkerQueryStep ==
  ASSUME ListenerInv,
         \/ Pick \/ execute_owned_usage \/ capture_owned
         \/ Discard \/ Done
  PROVE  ListenerInv'
<1>t. OwnedInv /\ ListenerTypeOK /\ TrackInv /\ WorkerInv /\ StopInv /\ CommandInv
  BY DEF ListenerInv, OwnedInv
<1>k. UNCHANGED <<listener, commands_closing>>
  BY DEF Pick, execute_owned_usage, capture_owned,
      Discard, Done, KeepMain
<1>q. ASSUME KeepTree, worker' \in WorkerPlaces \ {"close", "closing", "closed"},
             worker' = "discard" => _closed,
             active_process' \in BOOLEAN, ~active_process' => _closed,
             future' \in Futures,
             command_slot' \in BOOLEAN
      PROVE  OwnedInv'
  <2>1. Gone' <=> Gone
    BY <1>q DEF KeepTree, treeVars, Gone
  <2>2. ListenerTypeOK'
    BY <1>q, <1>t, <1>k DEF ListenerTypeOK, KeepTree, treeVars
  <2>3. TrackInv' /\ WorkerInv' /\ StopInv'
    BY <1>q, <1>t, <1>k, <2>1
    DEF KeepTree, treeVars, TrackInv, WorkerInv, StopInv
  <2>4. QED
    BY <2>2, <2>3 DEF OwnedInv
<1>1. CASE Pick
  <2>1. /\ future' \in Futures
        /\ future'.state = "running" /\ future'.callback = future.callback
        /\ worker' = "spawn" /\ future # NoFuture
    BY <1>1, <1>t DEF Pick, ListenerTypeOK, NoFuture
  <2>2. OwnedInv'
    BY <1>1, <1>t, <1>q, <2>1
    DEF Pick, WorkerPlaces, WorkerInv, ListenerTypeOK
  <2>3. CommandInv'
    BY <1>1, <1>t, <1>k, <2>1 DEF Pick, CommandInv
  <2>4. QED
    BY <2>2, <2>3 DEF ListenerInv
<1>2. CASE execute_owned_usage
  <2>1. UNCHANGED <<command_slot, future>> /\ worker = "spawn"
    BY <1>2 DEF execute_owned_usage, KeepCommand, At
  <2>2. CASE /\ MaySpawn
             /\ spawn_owned /\ active_process' = TRUE /\ worker' = "capture"
    <3>1. ListenerTypeOK'
      BY <2>2, <2>1, <1>t, <1>k
      DEF ListenerTypeOK, spawn_owned, Processes, WorkerPlaces
    <3>2. TrackInv' /\ WorkerInv' /\ StopInv'
      BY <2>2, <1>t, <1>k
      DEF MaySpawn, spawn_owned, TrackInv, WorkerInv, StopInv
    <3>3. CommandInv'
      BY <2>1, <2>2, <1>t, <1>k DEF CommandInv
    <3>4. QED
      BY <3>1, <3>2, <3>3 DEF ListenerInv, OwnedInv
  <2>3. CASE KeepTree /\ UNCHANGED active_process /\ worker' = "done"
    <3>1. OwnedInv'
      BY <2>1, <2>3, <1>t, <1>q DEF WorkerPlaces, WorkerInv, ListenerTypeOK
    <3>2. CommandInv'
      BY <2>1, <2>3, <1>t, <1>k DEF CommandInv
    <3>3. QED
      BY <3>1, <3>2 DEF ListenerInv
  <2>4. QED
    BY <1>2, <2>2, <2>3 DEF execute_owned_usage
<1>3. CASE capture_owned
  <2>1. OwnedInv'
    BY <1>3, <1>t, <1>q
    DEF capture_owned, KeepCommand, WorkerPlaces, WorkerInv,
        ListenerTypeOK
  <2>2. CommandInv'
    BY <1>3, <1>t, <1>k
    DEF capture_owned, KeepCommand, At, CommandInv
  <2>3. QED
    BY <2>1, <2>2 DEF ListenerInv
<1>4. CASE Discard
  <2>1. OwnedInv'
    BY <1>4, <1>t, <1>q
    DEF Discard, KeepCommand, At, WorkerPlaces, WorkerInv,
        ListenerTypeOK
  <2>2. CommandInv'
    BY <1>4, <1>t, <1>k
    DEF Discard, KeepCommand, At, CommandInv
  <2>3. QED
    BY <2>1, <2>2 DEF ListenerInv
<1>5. CASE Done
  <2>1. /\ future' \in Futures
        /\ command_slot' \in BOOLEAN
        /\ future'.state # "running" /\ (~future.callback => ~future'.callback)
        /\ command_slot' => future' = NoFuture
        /\ ~future.callback => command_slot' = command_slot
    <3>1. future.state = "running" /\ ~command_slot
      BY <1>5, <1>t DEF Done, At, CommandInv, NoFuture
    <3>2. CASE future.callback
      <4>1. future' = NoFuture /\ command_slot' = TRUE
        BY <1>5, <3>2 DEF Done, finished
      <4>2. /\ NoFuture \in Futures
            /\ NoFuture.state = "none" /\ NoFuture.callback = FALSE
        BY DEF NoFuture
      <4>3. QED
        BY <3>2, <4>1, <4>2
    <3>3. CASE ~future.callback
      <4>1. future' = [future EXCEPT !.state = "done"] /\ command_slot' = command_slot
        BY <1>5, <3>3 DEF Done
      <4>2. future' \in Futures
        BY <1>t, <4>1 DEF ListenerTypeOK
      <4>3. future'.state = "done" /\ future'.callback = future.callback
        BY <1>t, <4>1 DEF ListenerTypeOK
      <4>4. command_slot' = FALSE
        BY <1>t, <3>1, <4>1 DEF ListenerTypeOK
      <4>5. QED
        BY <3>3, <4>1, <4>2, <4>3, <4>4
    <3>4. QED
      BY <3>2, <3>3
  <2>2. OwnedInv'
    BY <1>5, <1>t, <1>q, <2>1
    DEF Done, WorkerPlaces, WorkerInv, ListenerTypeOK
  <2>3. listener.at # "submit"
    BY <1>5, <1>t DEF Done, At, CommandInv, NoFuture
  <2>4. CommandInv'
    BY <1>5, <1>t, <1>k, <2>1, <2>3 DEF Done, CommandInv
  <2>5. QED
    BY <2>2, <2>4 DEF ListenerInv
<1>6. QED
  BY <1>1, <1>2, <1>3, <1>4, <1>5

-----------------------------------------------------------------------------
\* The processes run on, and are tracked.
LEMMA TreeRunsStep ==
  ASSUME ListenerInv, TreeRuns
  PROVE  ListenerInv'
<1>t. OwnedInv /\ ListenerTypeOK /\ TrackInv /\ WorkerInv /\ StopInv /\ CommandInv
  BY DEF ListenerInv, OwnedInv
<1>k. UNCHANGED <<listener, worker, active_process, commands_closing, command_slot, future>>
  BY DEF TreeRuns, KeepCommand
<1>1. /\ alive' \subseteq Processes /\ group' \in Groups
      /\ Gone => Gone'
      /\ UNCHANGED <<_guard, _closed>> /\ _groups \subseteq _groups'
  <2>1. CASE TreeStep
    BY <2>1, <1>t, TreeKeepsGone
  <2>2. CASE Track
    BY <2>2, <1>t
    DEF Track, _snapshot, Running, ListenerTypeOK, Gone
  <2>3. QED
    BY <2>1, <2>2 DEF TreeRuns
<1>2. ListenerTypeOK'
  BY <1>t, <1>k, <1>1 DEF ListenerTypeOK
<1>3. TrackInv' /\ WorkerInv' /\ StopInv' /\ CommandInv'
  BY <1>t, <1>k, <1>1 DEF TrackInv, WorkerInv, StopInv, CommandInv
<1>4. QED
  BY <1>2, <1>3 DEF ListenerInv, OwnedInv

LEMMA ListenerStep == ListenerInv /\ [ListenerNext]_listenerVars => ListenerInv'
<1> SUFFICES ASSUME ListenerInv, [ListenerNext]_listenerVars PROVE ListenerInv'
  OBVIOUS
<1>1. CASE \/ \E id \in Messages : on_message_receive(id)
           \/ cleanup \/ Handler \/ Signal
           \/ Closing \/ Shutdown \/ Stopped
  BY <1>1, ListenerMainStep
<1>2. CASE Terminate
  BY <1>2, TerminateStep
<1>3. CASE WorkerStep
  BY <1>3, WorkerStopStep, WorkerQueryStep DEF WorkerStep
<1>4. CASE TreeRuns
  BY <1>4, TreeRunsStep
<1>5. CASE UNCHANGED listenerVars
  <2>1. ListenerTypeOK'
    BY <1>5
    DEF listenerVars, treeVars, ListenerInv, OwnedInv, ListenerTypeOK
  <2>2. Gone' <=> Gone
    BY <1>5 DEF listenerVars, treeVars, Gone
  <2>3. TrackInv' /\ WorkerInv' /\ StopInv' /\ CommandInv'
    BY <1>5, <2>2
    DEF listenerVars, treeVars, ListenerInv, OwnedInv, TrackInv, WorkerInv,
        StopInv, CommandInv
  <2>4. QED
    BY <2>1, <2>3 DEF ListenerInv, OwnedInv
<1>6. QED
  BY <1>1, <1>2, <1>3, <1>4, <1>5 DEF ListenerNext, Stop

\* The inductive invariant holds throughout.
THEOREM ListenerInvariant == ListenerSpec => []ListenerInv
<1>1. ListenerInit => ListenerInv
  BY ListenerStarts
<1>2. ListenerInv /\ [ListenerNext]_listenerVars => ListenerInv'
  BY ListenerStep
<1>3. QED
  BY <1>1, <1>2, PTL DEF ListenerSpec

(* feishu_listener.stop(): whatever the moment of the signal, and however  *)
(* the processes fork, detach and hang, no process of a query's group runs *)
(* once the host has stopped.                                              *)
THEOREM QueryNeverOutlivesHost == ListenerSpec => []NoQueryOutlivesHost
<1>1. ListenerInv => NoQueryOutlivesHost
  BY DEF ListenerInv, OwnedInv, StopInv, NoQueryOutlivesHost, Gone
<1>2. QED
  BY <1>1, ListenerInvariant, PTL

\* A handler that took the slot has the worker to itself.
SlotExclusive == listener.at = "submit" => future = NoFuture /\ worker = "idle"

(* on_message_receive and finished: the slot is given back only when the   *)
(* command it stood for is over, so what is submitted never waits behind   *)
(* another query.                                                          *)
THEOREM SlotIsExclusive == ListenerSpec => []SlotExclusive
<1>1. ListenerInv => SlotExclusive
  BY DEF ListenerInv, CommandInv, SlotExclusive, NoFuture
<1>2. QED
  BY <1>1, ListenerInvariant, PTL
-----------------------------------------------------------------------------
(* What a busy slot stands for, as long as no signal has come.             *)

\* A handler in the middle of its submission has submitted, and whoever meets a
\* busy slot after that meets a command on its way, with its callback.
AnswerInv ==
  /\ stop \in BOOLEAN
  /\ listener.at \in {"register", "callback"} => future.state # "none"
  /\ ~stop /\ listener.at \in {"loop", "remember"} /\ ~command_slot
       => future.state \in {"pending", "running"} /\ future.callback

\* The main thread submits, attaches the callback and remembers; once a signal
\* has come nothing is claimed.
LEMMA AnswerMainStep ==
  ASSUME ListenerInv, AnswerInv,
         \/ \E id \in Messages : on_message_receive(id)
         \/ cleanup \/ Handler \/ Signal \/ Stop
  PROVE  AnswerInv'
<1>t. ListenerTypeOK /\ CommandInv
  BY DEF ListenerInv, OwnedInv
<1>1. ASSUME NEW id \in Messages, on_message_receive(id)
      PROVE  AnswerInv'
  <2>1. UNCHANGED <<future, stop>>
    BY <1>1 DEF on_message_receive
  <2>2. CASE UNCHANGED <<listener, command_slot>>
    BY <2>1, <2>2 DEF AnswerInv
  <2>3. CASE /\ command_slot' = FALSE
             /\ listener' = [at |-> IF command_slot THEN "submit" ELSE "remember", id |-> id]
    <3>1. listener.at = "loop" /\ command_slot \in BOOLEAN
      BY <1>1, <1>t DEF on_message_receive, ListenerTypeOK
    <3>2. QED
      BY <2>1, <2>3, <3>1 DEF AnswerInv
  <2>4. QED
    BY <1>1, <2>2, <2>3 DEF on_message_receive
<1>2. CASE cleanup
  BY <1>2 DEF cleanup, KeepCommand, AnswerInv
<1>3. CASE submit
  <2>1. listener'.at = "register"
    BY <1>3, <1>t, MainGoes DEF submit, MainPlaces
  <2>2. QED
    BY <1>3, <2>1 DEF submit, AnswerInv
<1>4. CASE register
  <2>1. listener'.at = "callback"
    BY <1>4, <1>t, MainGoes DEF register, MainPlaces
  <2>2. QED
    BY <1>4, <2>1 DEF register, AnswerInv
<1>5. CASE add_done_callback
  <2>1. listener'.at = "remember" /\ UNCHANGED stop
    BY <1>5, <1>t, MainGoes DEF add_done_callback, MainPlaces
  <2>2. CASE future.state = "done"
    BY <1>5, <2>1, <2>2 DEF add_done_callback, finished, AnswerInv
  <2>3. CASE future.state # "done"
    <3>1. future' = [future EXCEPT !.callback = TRUE]
      BY <1>5, <2>3 DEF add_done_callback
    <3>2. future'.state \in {"pending", "running"} /\ future'.callback
      BY <1>5, <1>t, <2>3, <3>1 DEF add_done_callback, AnswerInv, ListenerTypeOK
    <3>3. QED
      BY <2>1, <3>2 DEF AnswerInv
  <2>4. QED
    BY <2>2, <2>3
<1>6. CASE remember
  BY <1>6 DEF remember, KeepCommand, AnswerInv
<1>7. CASE Signal
  <2>1. stop' = TRUE /\ (listener' = [at |-> "stop"] \/ listener' = [at |-> "loop"])
    BY <1>7 DEF Signal, SignalInLoop, SignalInHandler
  <2>2. listener'.at \notin {"register", "callback"}
    BY <2>1
  <2>3. QED
    BY <2>1, <2>2 DEF AnswerInv
<1>8. CASE Stop
  <2>1. listener'.at \notin {"loop", "remember", "register", "callback"} /\ UNCHANGED stop
    BY <1>8, <1>t, MainGoes
    DEF Stop, Closing, Terminate, HostStops, Shutdown, Stopped, MainPlaces
  <2>2. QED
    BY <2>1 DEF AnswerInv
<1>9. QED
  BY <1>1, <1>2, <1>3, <1>4, <1>5, <1>6, <1>7, <1>8 DEF Handler

\* The worker takes what is pending, and gives the slot back at the end of a
\* command that has its callback.
LEMMA AnswerWorkerStep ==
  ASSUME ListenerInv, AnswerInv, WorkerStep
  PROVE  AnswerInv'
<1>t. ListenerTypeOK /\ CommandInv
  BY DEF ListenerInv, OwnedInv
<1>k. UNCHANGED <<listener, stop>>
  BY DEF WorkerStep, Pick, execute_owned_usage, capture_owned, WorkerStop,
         Discard, Done, KeepMain
<1>1. CASE Pick
  <2>1. future' = [future EXCEPT !.state = "running"] /\ UNCHANGED command_slot
    BY <1>1 DEF Pick
  <2>2. future'.state = "running" /\ future'.callback = future.callback
    BY <1>t, <2>1 DEF ListenerTypeOK
  <2>3. QED
    BY <1>k, <2>1, <2>2 DEF AnswerInv
<1>2. CASE Done
  <2>1. CASE future.callback
    <3>1. command_slot' = TRUE /\ listener.at \notin {"register", "callback"}
      BY <1>2, <1>t, <2>1 DEF Done, finished, CommandInv
    <3>2. QED
      BY <1>k, <3>1 DEF AnswerInv
  <2>2. CASE ~future.callback
    <3>1. future' = [future EXCEPT !.state = "done"] /\ UNCHANGED command_slot
      BY <1>2, <2>2 DEF Done
    <3>2. future'.state = "done"
      BY <1>t, <3>1 DEF ListenerTypeOK
    <3>3. QED
      BY <1>k, <2>2, <3>1, <3>2 DEF AnswerInv
  <2>3. QED
    BY <2>1, <2>2
<1>3. CASE execute_owned_usage \/ capture_owned \/ WorkerStop \/ Discard
  <2>1. UNCHANGED <<future, command_slot>>
    BY <1>3 DEF execute_owned_usage, capture_owned, WorkerStop, Discard, KeepCommand
  <2>2. QED
    BY <1>k, <2>1 DEF AnswerInv
<1>4. QED
  BY <1>1, <1>2, <1>3 DEF WorkerStep

(* submit_usage_command on a busy slot: until a signal comes, whichever    *)
(* moment the worker ends at, a message that finds the slot busy is        *)
(* answered by a query on its way, whose callback frees the slot.          *)
THEOREM BusySlotHasQuery == ListenerSpec => []CoalescesWithQuery
<1>1. ListenerInit => AnswerInv
  <2> SUFFICES ASSUME ListenerInit PROVE AnswerInv
    OBVIOUS
  <2>1. listener.at = "loop" /\ command_slot = TRUE /\ stop = FALSE
    BY DEF ListenerInit
  <2>2. QED
    BY <2>1 DEF AnswerInv
<1>2. ListenerInv /\ AnswerInv /\ [ListenerNext]_listenerVars => AnswerInv'
  <2> SUFFICES ASSUME ListenerInv, AnswerInv, [ListenerNext]_listenerVars PROVE AnswerInv'
    OBVIOUS
  <2>1. CASE \/ \E id \in Messages : on_message_receive(id)
             \/ cleanup \/ Handler \/ Signal \/ Stop
    BY <2>1, AnswerMainStep
  <2>2. CASE WorkerStep
    BY <2>2, AnswerWorkerStep
  <2>3. CASE TreeRuns \/ UNCHANGED listenerVars
    BY <2>3 DEF TreeRuns, KeepCommand, listenerVars, AnswerInv
  <2>4. QED
    BY <2>1, <2>2, <2>3 DEF ListenerNext
<1>3. AnswerInv => CoalescesWithQuery
  BY DEF AnswerInv, CoalescesWithQuery
<1>4. QED
  BY <1>1, <1>2, <1>3, ListenerInvariant, PTL DEF ListenerSpec
=============================================================================
