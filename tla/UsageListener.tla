---------------------------- MODULE UsageListener ----------------------------
(***************************************************************************)
(* The Feishu listener (helpers/feishu_listener.py): /usage messages, each *)
(* possibly delivered again, become at most one query at a time, run as an *)
(* owned process by one worker thread; a signal stops the whole of it.     *)
(*                                                                         *)
(* Two threads: the main one runs the SDK's asyncio loop, which calls the  *)
(* handlers one after the other, until a signal takes it out of there and  *)
(* it runs stop(); the worker runs the query.  They meet in command_lock,  *)
(* the slot and the process's own guard.                                   *)
(*                                                                         *)
(* The host runs this service beside the scheduler of TaskOrchestrator;    *)
(* names the two would share are told apart here, so that Host_proofs can  *)
(* speak of both.                                                          *)
(***************************************************************************)
EXTENDS OwnedProcess, Sequences

CONSTANTS
  Messages,       \* ids of /usage messages of the authorized user
  MaxSize,        \* entries of dedup_cache
  MaxDeliveries   \* bound: deliveries of all messages together

VARIABLES
  listener,         \* the main thread: where it is, and the message at hand
  worker,           \* the worker thread
  deliveries,       \* messages delivered so far
  dedup_cache,      \* ids remembered, the oldest first
  command_slot,     \* whether the slot is free
  future,           \* the submitted command
  active_futures,   \* whether it is registered
  active_process,   \* whether its process is registered
  commands_closing,
  stop              \* serve's event: a signal has come

listenerVars == <<treeVars, listener, worker, deliveries, dedup_cache, command_slot,
          future, active_futures, active_process, commands_closing, stop>>
KeepTree == UNCHANGED treeVars
KeepCommand == UNCHANGED <<command_slot, future, active_futures>>

NoFuture == [state |-> "none", callback |-> FALSE]

ListenerInit ==
  /\ InitTree
  /\ listener = [at |-> "loop"] /\ worker = "idle" /\ deliveries = 0
  /\ dedup_cache = <<>> /\ command_slot = TRUE
  /\ future = NoFuture /\ active_futures = FALSE
  /\ active_process = FALSE /\ commands_closing = FALSE /\ stop = FALSE
-----------------------------------------------------------------------------
(* The handler.  commands_closing is still false whenever it runs: only    *)
(* the thread that runs it sets it.                                        *)

Remembered == {dedup_cache[i] : i \in DOMAIN dedup_cache}

\* LRUCache.add: the oldest entry makes room.
add(id) ==
  IF id \in Remembered THEN dedup_cache
  ELSE IF Len(dedup_cache) < MaxSize THEN Append(dedup_cache, id)
  ELSE Append(Tail(dedup_cache), id)

\* An id may be forgotten after ttl_seconds, the oldest first.
cleanup ==
  /\ listener.at = "loop" /\ dedup_cache # <<>>
  /\ dedup_cache' = Tail(dedup_cache)
  /\ KeepTree /\ KeepCommand
  /\ UNCHANGED <<listener, worker, deliveries, active_process, commands_closing, stop>>

\* on_message_receive, to the slot; a known id, or a busy slot, ends it.
on_message_receive(id) ==
  /\ listener.at = "loop" /\ deliveries < MaxDeliveries
  /\ deliveries' = deliveries + 1
  /\ IF id \in Remembered THEN UNCHANGED <<listener, command_slot>>
     ELSE /\ command_slot' = FALSE
          /\ listener' = [at |-> IF command_slot THEN "submit" ELSE "remember", id |-> id]
  /\ KeepTree
  /\ UNCHANGED <<worker, dedup_cache, future, active_futures, active_process, commands_closing, stop>>

submit ==
  /\ listener.at = "submit"
  /\ future' = [state |-> "pending", callback |-> FALSE]
  /\ listener' = [listener EXCEPT !.at = "register"]
  /\ KeepTree
  /\ UNCHANGED <<worker, deliveries, dedup_cache, command_slot, active_futures,
                 active_process, commands_closing, stop>>

register ==
  /\ listener.at = "register"
  /\ active_futures' = TRUE
  /\ listener' = [listener EXCEPT !.at = "callback"]
  /\ KeepTree
  /\ UNCHANGED <<worker, deliveries, dedup_cache, command_slot, future,
                 active_process, commands_closing, stop>>

\* finished: the future is struck off and the slot is free.
finished == active_futures' = FALSE /\ command_slot' = TRUE /\ future' = NoFuture

\* Mutant: a callback that comes after the end is never called.
add_done_callback_late ==
  /\ listener.at = "callback"
  /\ future' = [future EXCEPT !.callback = TRUE] /\ UNCHANGED <<active_futures, command_slot>>
  /\ listener' = [listener EXCEPT !.at = "remember"]
  /\ KeepTree /\ UNCHANGED <<worker, deliveries, dedup_cache, active_process, commands_closing, stop>>

\* add_done_callback: called at once if the command is done already.
add_done_callback ==
  /\ listener.at = "callback"
  /\ IF future.state = "done" THEN finished
     ELSE future' = [future EXCEPT !.callback = TRUE] /\ UNCHANGED <<active_futures, command_slot>>
  /\ listener' = [listener EXCEPT !.at = "remember"]
  /\ KeepTree /\ UNCHANGED <<worker, deliveries, dedup_cache, active_process, commands_closing, stop>>

remember ==
  /\ listener.at = "remember"
  /\ dedup_cache' = add(listener.id) /\ listener' = [at |-> "loop"]
  /\ KeepTree /\ KeepCommand
  /\ UNCHANGED <<worker, deliveries, active_process, commands_closing, stop>>

Handler == submit \/ register \/ add_done_callback \/ remember
-----------------------------------------------------------------------------
(* The worker: one command, its process and its end.                       *)

At(step) == worker = step
KeepMain == UNCHANGED <<listener, deliveries, dedup_cache, commands_closing, stop>>

Pick ==
  /\ At("idle") /\ future.state = "pending"
  /\ worker' = "spawn" /\ future' = [future EXCEPT !.state = "running"]
  /\ KeepTree /\ KeepMain /\ UNCHANGED <<command_slot, active_futures, active_process>>

\* Mutant: the command is started whatever stop() has said.
MaySpawn_always == TRUE

MaySpawn == ~commands_closing

\* execute_owned_usage, in command_lock: the check, the process and its
\* registration are one step.  Starting it may fail.
execute_owned_usage ==
  /\ At("spawn")
  /\ \/ /\ MaySpawn
        /\ spawn_owned /\ active_process' = TRUE /\ worker' = "capture"
     \/ KeepTree /\ UNCHANGED active_process /\ worker' = "done"
  /\ KeepMain /\ KeepCommand

\* Ends when the leader has exited, when there is too much output, and,
\* whatever the process does, when the time is up.
capture_owned ==
  /\ At("capture")
  /\ worker' = "stop"
  /\ KeepTree /\ KeepMain /\ KeepCommand /\ UNCHANGED active_process

\* The stop of capture_owned and the stop(0) of its close; both go through
\* the guard, and neither touches a closed process.
WorkerStops ==
  \/ /\ At("stop") /\ StopBegin("worker") /\ worker' = "stopping"
  \/ /\ At("stopping") /\ StopWait("worker") /\ UNCHANGED worker
  \/ /\ At("stopping") /\ StopFinish("worker") /\ worker' = "close"
  \/ /\ At("close") /\ StopBegin("worker") /\ worker' = "closing"
  \/ /\ At("closing") /\ StopWait("worker") /\ UNCHANGED worker
  \/ /\ At("closing") /\ StopFinish("worker") /\ worker' = "closed"
  \/ /\ At("closed") /\ CloseDone /\ worker' = "discard"

WorkerStop == WorkerStops /\ KeepMain /\ KeepCommand /\ UNCHANGED active_process

\* handle_usage_command's finally; the process is closed, stop returns.
Discard ==
  /\ At("discard")
  /\ active_process' = FALSE /\ worker' = "done"
  /\ KeepTree /\ KeepMain /\ KeepCommand

\* The command is done, and its callback, if it has one, is called.
Done ==
  /\ At("done")
  /\ worker' = "idle"
  /\ IF future.callback THEN finished
     ELSE future' = [future EXCEPT !.state = "done"] /\ UNCHANGED <<active_futures, command_slot>>
  /\ KeepTree /\ KeepMain /\ UNCHANGED active_process

WorkerStep ==
  Pick \/ execute_owned_usage \/ capture_owned \/ WorkerStop \/ Discard \/ Done
-----------------------------------------------------------------------------
(* Stopping.                                                               *)

\* `stopped` raises _StopServing in the main thread.  Between two handlers that
\* takes it out of listener.run(), and serve goes on to stop().
SignalInLoop ==
  /\ listener.at = "loop"
  /\ stop' = TRUE /\ listener' = [at |-> "stop"]
  /\ KeepTree /\ KeepCommand
  /\ UNCHANGED <<worker, deliveries, dedup_cache, active_process, commands_closing>>

\* Inside one it ends the handler, past every `except Exception`, and no more:
\* the handler runs in a task, and a task keeps what is raised in it but for
\* KeyboardInterrupt and SystemExit (external).  Nothing done so far is undone;
\* a callback called at once may have struck the future off.
SignalInHandler ==
  /\ listener.at \in {"submit", "register", "callback", "remember"}
  /\ stop' = TRUE /\ listener' = [at |-> "loop"]
  /\ \/ UNCHANGED active_futures
     \/ listener.at = "callback" /\ future.state = "done" /\ active_futures' = FALSE
  /\ KeepTree
  /\ UNCHANGED <<worker, deliveries, dedup_cache, command_slot, future,
                 active_process, commands_closing>>

Signal == SignalInLoop \/ SignalInHandler

\* In command_lock: no more commands, and the processes that are registered.
Closing ==
  /\ listener.at = "stop"
  /\ commands_closing' = TRUE
  /\ listener' = [at |-> IF active_process THEN "terminate" ELSE "shutdown"]
  /\ KeepTree /\ KeepCommand /\ UNCHANGED <<worker, deliveries, dedup_cache, active_process, stop>>

\* terminate_process_group
HostStops ==
  \/ listener.at = "terminate" /\ _closed /\ listener' = [at |-> "shutdown"] /\ KeepTree
  \/ listener.at = "terminate" /\ StopBegin("main") /\ listener' = [at |-> "terminating"]
  \/ listener.at = "terminating" /\ StopWait("main") /\ UNCHANGED listener
  \/ listener.at = "terminating" /\ StopFinish("main") /\ listener' = [at |-> "shutdown"]

Terminate ==
  /\ HostStops
  /\ KeepCommand /\ UNCHANGED <<worker, deliveries, dedup_cache, active_process, commands_closing, stop>>

\* executor.shutdown(cancel_futures): a command nobody has picked is cancelled.
Shutdown ==
  /\ listener.at = "shutdown" /\ listener' = [at |-> "wait"]
  /\ IF future.state # "pending" THEN KeepCommand
     ELSE IF future.callback THEN finished
     ELSE future' = NoFuture /\ UNCHANGED <<active_futures, command_slot>>
  /\ KeepTree /\ UNCHANGED <<worker, deliveries, dedup_cache, active_process, commands_closing, stop>>

\* No future is left, or six seconds are over, and stop() raises; the host goes
\* on to stop the scheduler either way.
Stopped ==
  /\ listener.at = "wait" /\ listener' = [at |-> "stopped"]
  /\ KeepTree /\ KeepCommand
  /\ UNCHANGED <<worker, deliveries, dedup_cache, active_process, commands_closing, stop>>

Stop == Closing \/ Terminate \/ Shutdown \/ Stopped

TreeRuns ==
  /\ TreeStep \/ Track
  /\ KeepCommand
  /\ UNCHANGED <<listener, worker, deliveries, dedup_cache, active_process, commands_closing, stop>>

ListenerNext ==
  \/ \E id \in Messages : on_message_receive(id)
  \/ cleanup \/ Handler \/ WorkerStep \/ Signal \/ Stop \/ TreeRuns

\* Each thread goes on, and a stop that waits ends with SIGKILL; nothing is
\* assumed of messages, of signals or of the processes.
ListenerFairness ==
  /\ WF_listenerVars(Handler) /\ WF_listenerVars(Closing \/ Shutdown \/ Stopped)
  /\ WF_listenerVars(Pick \/ execute_owned_usage \/ capture_owned \/ Discard \/ Done)
  /\ WF_listenerVars(WorkerStop /\ worker' # worker)
  /\ WF_listenerVars(Terminate /\ listener' # listener)

ListenerSpec == ListenerInit /\ [][ListenerNext]_listenerVars /\ ListenerFairness
-----------------------------------------------------------------------------
(* Properties.                                                             *)

(* Once stop() has returned, whatever the moment of the signal and of the  *)
(* worker, no process of a query's group runs, and none is ever started.   *)
NoQueryOutlivesHost ==
  listener.at = "stopped" => \A p \in alive : group[p] # Leader

(* submit_usage_command's comment on a busy slot: "Let the in-flight result *)
(* satisfy repeated commands".  Until a signal comes, a message that meets *)
(* a busy slot has a query that is still to give its answer and then,      *)
(* through its callback, the slot.                                         *)
CoalescesWithQuery ==
  ~stop /\ listener.at = "loop" /\ ~command_slot
    => future.state \in {"pending", "running"} /\ future.callback

(* However its processes hang, a query gives the slot back, unless a       *)
(* signal comes: /usage does not go silent by itself.                      *)
SlotComesBack == ~command_slot ~> (command_slot \/ stop)

(* The same comment taken at its word, whether or not a signal has come.   *)
(* It does not hold: SignalInHandler.                                      *)
CoalescedIsAnswered ==
  listener.at = "loop" /\ ~command_slot
    => future.state \in {"pending", "running"} /\ future.callback
=============================================================================
