---------------------------- MODULE OwnedProcess -----------------------------
(***************************************************************************)
(* One external command and the processes it forks, owned until they are   *)
(* gone (platform/posix_process.py): a tracker thread records the groups   *)
(* of the descendants, and stop signals every recorded group, first TERM,  *)
(* then, after a grace, KILL.                                              *)
(*                                                                         *)
(* `_guard` is held by at most one thread; the processes of the tree run   *)
(* on meanwhile.  A recorded stamp of a process that has gone is never met *)
(* again: process numbers are not reused in the model.                     *)
(***************************************************************************)
EXTENDS Integers, FiniteSets

CONSTANTS Leader, Descendants
ASSUME OwnedProcessAssumption == Leader \notin Descendants

Processes == {Leader} \cup Descendants

VARIABLES
  alive,    \* the processes of the tree that run
  parent,   \* p -> the process that forked it, itself before that
  group,    \* p -> the process group of p, named by its leader
  _known,   \* processes the tracker has seen
  _groups,  \* process groups it has recorded
  _guard,   \* the thread in a guarded section, or {}
  _closed   \* close() has ended, or nothing was ever started

treeVars == <<alive, parent, group, _known, _groups, _guard, _closed>>
Running == UNCHANGED <<alive, parent, group>>

InitTree ==
  /\ alive = {}
  /\ parent = [p \in Processes |-> p] /\ group = [p \in Processes |-> Leader]
  /\ _known = {} /\ _groups = {} /\ _guard = {} /\ _closed = TRUE

\* Popen in a new session: the child leads a group of its own.
spawn_owned ==
  /\ alive' = {Leader}
  /\ parent' = [p \in Processes |-> p] /\ group' = [p \in Processes |-> Leader]
  /\ _known' = {Leader} /\ _groups' = {Leader} /\ _guard' = {} /\ _closed' = FALSE
-----------------------------------------------------------------------------
(* The tree by itself (external): it forks, detaches and exits as it likes, *)
(* whether it has been sent SIGTERM or not.                                *)

Fork(p, c) ==
  /\ p \in alive /\ c \in Descendants /\ parent[c] = c
  /\ alive' = alive \cup {c}
  /\ parent' = [parent EXCEPT ![c] = p] /\ group' = [group EXCEPT ![c] = group[p]]
  /\ UNCHANGED <<_known, _groups, _guard, _closed>>

Detach(p) ==
  /\ p \in alive \ {Leader} /\ group[p] # p
  /\ group' = [group EXCEPT ![p] = p]
  /\ UNCHANGED <<alive, parent, _known, _groups, _guard, _closed>>

Exit(p) ==
  /\ p \in alive
  /\ alive' = alive \ {p}
  /\ UNCHANGED <<parent, group, _known, _groups, _guard, _closed>>

TreeStep ==
  \E p \in Processes : Detach(p) \/ Exit(p) \/ \E c \in Descendants : Fork(p, c)
-----------------------------------------------------------------------------
(* Tracking and stopping.                                                  *)

\* Children are listed of a process that runs: an orphan has no parent here.
_children(p) == {c \in alive : parent[c] = p /\ c # p /\ p \in alive}

\* What a walk from `known` down the tree reaches, level by level.
Reached(known) ==
  LET level[n \in 0 .. Cardinality(Processes)] ==
        IF n = 0 THEN known
        ELSE level[n - 1] \cup UNION {_children(p) : p \in level[n - 1]}
  IN  level[Cardinality(Processes)]

\* The group of a process is read when it is found as somebody's child.
FoundGroups == {group[c] : c \in UNION {_children(p) : p \in Reached(_known \cap alive)}}

_snapshot ==
  /\ _known' = Reached(_known \cap alive)
  /\ _groups' = _groups \cup FoundGroups

Track ==
  /\ ~_closed /\ _guard = {}
  /\ _snapshot
  /\ Running /\ UNCHANGED <<_guard, _closed>>

Signalled == {p \in alive : group[p] \in _groups}

\* stop, up to SIGTERM: a closed process is left alone.
StopBegin(thread) ==
  /\ _guard = {} /\ ~_closed
  /\ _snapshot /\ _guard' = {thread}
  /\ Running /\ UNCHANGED _closed

\* The grace: signal 0 still finds somebody, and the tree is walked again.
StopWait(thread) ==
  /\ _guard = {thread} /\ Signalled # {}
  /\ _snapshot
  /\ Running /\ UNCHANGED <<_guard, _closed>>

Killed == Signalled

\* SIGKILL, when nobody is left or the grace is over.
StopFinish(thread) ==
  /\ _guard = {thread}
  /\ alive' = alive \ Killed /\ _guard' = {}
  /\ UNCHANGED <<parent, group, _known, _groups, _closed>>

\* close, after its stop(0).
CloseDone ==
  /\ _guard = {} /\ _closed' = TRUE
  /\ Running /\ UNCHANGED <<_known, _groups, _guard>>
=============================================================================
