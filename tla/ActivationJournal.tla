-------------------------- MODULE ActivationJournal --------------------------
(***************************************************************************)
(* Switching a provider off and on again (config/store.py save_config,     *)
(* state/activation.py, app.py _active_transitions, __main__.py run_serve, *)
(* daemon.py run_selected_host).                                           *)
(*                                                                         *)
(* A provider that was switched off keeps its old deadline.  When it comes *)
(* back it must first be resumed, its deadline anchored on a live reading, *)
(* before a check may find it due.  What remembers this are three files    *)
(* that no single lock covers:                                             *)
(*   journal   beside the saved profile, written by every edit             *)
(*   applied   the host's private copy, taken with the profile it runs     *)
(*   runtime   runtime-providers.json, written by every check              *)
(* Editors, checks started by hand and checks of a host that runs an older *)
(* generation work on them at once, and any may die between two publishes. *)
(* A journal's revision is the hash of its content: here, its content.     *)
(***************************************************************************)
EXTENDS Integers, FiniteSets

CONSTANTS
  Providers,  \* the providers of the profile
  Editors,    \* processes that edit the saved profile
  Nobody,     \* the holder of a free lock
  MaxEdits,   \* bound on the edits that are saved
  MaxCrashes  \* bound on the processes that die

Checks == {"manual", "host"}

ASSUME JournalAssumption ==
  /\ IsFiniteSet(Providers)
  /\ Nobody \notin Editors \cup Checks
  /\ MaxEdits \in Nat /\ MaxCrashes \in Nat

VARIABLES
  config,       \* the saved profile
  journal,      \* the journal beside it
  host,         \* the generation the running host applied
  runtime,      \* runtime-providers.json
  edit,         \* what each editor is doing
  job,          \* what each check is doing
  source_lock,  \* configuration.lock of the saved profile
  run_lock,     \* run.lock of the state directory
  edits,        \* saved edits so far
  records,      \* journal records so far: each has a uuid of its own
  off_since,    \* the edit whose record switched a provider off, 0 once resumed
  crashes

vars == <<config, journal, host, runtime, edit, job, source_lock, run_lock,
          edits, records, off_since, crashes>>

NoProfile == [active |-> {}, automatic |-> FALSE]
NoJournal == [pending |-> {}, uuid |-> 0]
NoHost == [opening |-> {}, edit |-> 0, pending |-> {}, source |-> NoJournal, runs |-> FALSE]
NoRecord == [exists |-> FALSE, enabled |-> {}, awaiting |-> {}]
NoEdit == [at |-> "idle", seen |-> NoProfile, target |-> NoProfile]
NoCheck == [at |-> "idle", opening |-> {}, generation |-> 0, saw |-> NoJournal, awaiting |-> {}]

Profiles == [active : SUBSET Providers, automatic : BOOLEAN]
Journals == [pending : SUBSET Providers, uuid : Nat]

\* build_runtime_plan: what a check may open.
Opening(profile) == IF profile.automatic THEN profile.active ELSE {}

TypeOK ==
  /\ config \in Profiles
  /\ journal \in Journals
  /\ host \in [opening : SUBSET Providers, edit : Nat, pending : SUBSET Providers,
               source : Journals, runs : BOOLEAN]
  /\ runtime \in [exists : BOOLEAN, enabled : SUBSET Providers, awaiting : SUBSET Providers]
  /\ edit \in [Editors -> [at : {"idle", "editing", "saving"}, seen : Profiles, target : Profiles]]
  /\ job \in [Checks ->
       [at : {"idle", "loaded", "publish", "acknowledge", "applied", "decide"},
        opening : SUBSET Providers, generation : Nat, saw : Journals,
        awaiting : SUBSET Providers]]
  /\ source_lock \in Editors \cup {Nobody} /\ run_lock \in Checks \cup {Nobody}
  /\ off_since \in [Providers -> Nat] /\ edits \in Nat /\ records \in Nat /\ crashes \in Nat

Init ==
  /\ config = [active |-> Providers, automatic |-> TRUE]
  /\ journal = NoJournal /\ host = NoHost /\ runtime = NoRecord
  /\ edit = [e \in Editors |-> NoEdit]
  /\ job = [self \in Checks |-> NoCheck]
  /\ source_lock = Nobody /\ run_lock = Nobody
  /\ edits = 0 /\ records = 0 /\ crashes = 0
  /\ off_since = [p \in Providers |-> 0]
-----------------------------------------------------------------------------
(* The editors: __main__.py run_configure.                                 *)

\* The profile is read without a lock, and edited for as long as it takes.
Edit(e, target) ==
  /\ edit[e].at = "idle"
  /\ edits < MaxEdits
  /\ target # config
  /\ edit' = [edit EXCEPT ![e] = [at |-> "editing", seen |-> config, target |-> target]]
  /\ UNCHANGED <<config, journal, host, runtime, job, source_lock, run_lock,
                 edits, records, off_since, crashes>>

\* Mutant: switching automatic opening off is not a reason to resume.
SwitchedOff_automatic_forgotten(old, new) == old.active \ new.active

\* What the new profile switches off.
SwitchedOff(old, new) ==
  (old.active \ new.active)
    \cup (IF old.automatic /\ ~new.automatic THEN old.active ELSE {})

\* save_config, first half: under the lock the profile must still be the one
\* that was edited; the journal is published before the profile.
PublishJournal(e) ==
  /\ edit[e].at = "editing"
  /\ source_lock = Nobody
  /\ IF config # edit[e].seen \/ edits = MaxEdits
     THEN /\ edit' = [edit EXCEPT ![e] = NoEdit]
          /\ UNCHANGED <<journal, source_lock, records, off_since>>
     ELSE LET target == edit[e].target
              off == SwitchedOff(config, target)
          IN  /\ IF off = {} THEN UNCHANGED <<journal, records>>
                 ELSE /\ records' = records + 1
                      /\ journal' = [pending |-> journal.pending \cup off, uuid |-> records']
              /\ off_since' = [p \in Providers |->
                                 IF p \in Opening(config) \ Opening(target)
                                 THEN edits + 1 ELSE off_since[p]]
              /\ source_lock' = e
              /\ edit' = [edit EXCEPT ![e].at = "saving"]
  /\ UNCHANGED <<config, host, runtime, job, run_lock, edits, crashes>>

\* save_config, second half.
PublishConfig(e) ==
  /\ edit[e].at = "saving"
  /\ config' = edit[e].target
  /\ edits' = edits + 1
  /\ edit' = [edit EXCEPT ![e] = NoEdit]
  /\ source_lock' = Nobody
  /\ UNCHANGED <<journal, host, runtime, job, run_lock, records, off_since, crashes>>

EditorDies(e) ==
  /\ edit[e].at = "saving"
  /\ crashes < MaxCrashes
  /\ crashes' = crashes + 1
  /\ edit' = [edit EXCEPT ![e] = NoEdit]
  /\ source_lock' = Nobody
  /\ UNCHANGED <<config, journal, host, runtime, job, run_lock, edits, records, off_since>>
-----------------------------------------------------------------------------
(* The host: a restart stops its checks and applies the saved generation.  *)

Applied(profile, saved) ==
  [opening |-> Opening(profile), edit |-> edits, pending |-> saved.pending,
   source |-> saved, runs |-> TRUE]

Apply ==
  /\ source_lock = Nobody
  /\ host' = Applied(config, journal)
  /\ host' # host
  /\ job' = [job EXCEPT !["host"] = NoCheck]
  /\ run_lock' = IF run_lock = "host" THEN Nobody ELSE run_lock
  /\ UNCHANGED <<config, journal, runtime, edit, source_lock, edits, records, off_since, crashes>>
-----------------------------------------------------------------------------
(* The checks.                                                             *)

Become(self, j) == job' = [job EXCEPT ![self] = j]

\* A check started by hand reads the saved profile, one of the host's the
\* applied one; run.lock comes later.
Load(self) ==
  /\ job[self].at = "idle"
  /\ self = "host" => host.runs
  /\ Become(self, [NoCheck EXCEPT
       !.at = "loaded",
       !.opening = IF self = "host" THEN host.opening ELSE Opening(config)])
  /\ UNCHANGED <<config, journal, host, runtime, edit, source_lock, run_lock,
                 edits, records, off_since, crashes>>

JournalOf(self) ==
  IF self = "host" THEN [pending |-> host.pending, uuid |-> host.edit] ELSE journal

\* Who has to be resumed: the journal's, those the last check left, and those
\* it did not open.
Awaiting(self) ==
  IF ~runtime.exists THEN JournalOf(self).pending
  ELSE JournalOf(self).pending \cup runtime.awaiting
         \cup (job[self].opening \ runtime.enabled)

\* _active_transitions reads.  A check that finds run.lock busy is skipped.
ReadTransitions(self) ==
  /\ job[self].at = "loaded"
  /\ IF run_lock # Nobody
     THEN Become(self, NoCheck) /\ UNCHANGED run_lock
     ELSE /\ run_lock' = self
          /\ Become(self, [job[self] EXCEPT
               !.at = "publish", !.saw = JournalOf(self), !.awaiting = Awaiting(self),
               !.generation = IF self = "host" THEN host.edit ELSE edits])
  /\ UNCHANGED <<config, journal, host, runtime, edit, source_lock, edits, records, off_since, crashes>>

\* persist_activation publishes what this check knows ...
PublishRuntime(self) ==
  /\ job[self].at = "publish"
  /\ runtime' = [exists |-> TRUE, enabled |-> job[self].opening,
                 awaiting |-> job[self].awaiting]
  /\ Become(self, [job[self] EXCEPT !.at = "acknowledge"])
  /\ UNCHANGED <<config, journal, host, edit, source_lock, run_lock, edits, records, off_since, crashes>>

Resumed(self) == job[self].opening \ job[self].awaiting

\* Mutant: the journal is acknowledged whatever became of it meanwhile.
Unchanged_ignored(saw, current) == current # NoJournal

\* The journal a check acknowledges is the one it read.
Unchanged(saw, current) == current # NoJournal /\ current = saw

\* ... and acknowledges, in the saved journal, whom it resumed.
AcknowledgeSaved(self) ==
  /\ self = "manual" /\ job[self].at = "acknowledge"
  /\ source_lock = Nobody
  /\ IF Unchanged(job[self].saw, journal)
     THEN LET left == [journal EXCEPT !.pending = @ \ Resumed(self)]
          IN  journal' = left /\ Become(self, [job[self] EXCEPT !.at = "decide", !.saw = left])
     ELSE UNCHANGED journal /\ Become(self, [job[self] EXCEPT !.at = "decide"])
  /\ UNCHANGED <<config, host, runtime, edit, source_lock, run_lock, edits, records, off_since, crashes>>

\* A check of the host acknowledges in the saved journal first, as long as
\* that is the one the host applied ...
AcknowledgeSource(self) ==
  /\ self = "host" /\ job[self].at = "acknowledge"
  /\ LET acknowledged == host.pending \cap Resumed(self)
         left == [journal EXCEPT !.pending = @ \ acknowledged]
     IN  IF acknowledged # {} /\ Unchanged(host.source, journal)
         THEN /\ source_lock = Nobody
              /\ journal' = left
              /\ Become(self, [job[self] EXCEPT !.at = "applied", !.saw = left])
         ELSE /\ acknowledged # {} => source_lock = Nobody
              /\ UNCHANGED journal
              /\ Become(self, [job[self] EXCEPT !.at = "applied", !.saw = host.source])
  /\ UNCHANGED <<config, host, runtime, edit, source_lock, run_lock, edits, records, off_since, crashes>>

\* ... and then in its own copy.
AcknowledgeApplied(self) ==
  /\ job[self].at = "applied"
  /\ host' = [host EXCEPT !.pending = @ \ Resumed(self), !.source = job[self].saw]
  /\ Become(self, [job[self] EXCEPT !.at = "decide"])
  /\ UNCHANGED <<config, journal, runtime, edit, source_lock, run_lock, edits, records, off_since, crashes>>

\* resume_provider on a live reading, recorded at once.
Resume(self, p) ==
  /\ job[self].at = "decide"
  /\ p \in job[self].opening \cap job[self].awaiting
  /\ off_since' = [off_since EXCEPT ![p] = 0]
  /\ Become(self, [job[self] EXCEPT !.at = "publish", !.awaiting = @ \ {p}])
  /\ UNCHANGED <<config, journal, host, runtime, edit, source_lock, run_lock, edits, records, crashes>>

Finish(self) ==
  /\ job[self].at = "decide"
  /\ Become(self, NoCheck)
  /\ run_lock' = Nobody
  /\ UNCHANGED <<config, journal, host, runtime, edit, source_lock, edits, records, off_since, crashes>>

\* The process dies, or a lock is not free in time and the check raises.
CheckDies(self) ==
  /\ run_lock = self
  /\ crashes < MaxCrashes
  /\ crashes' = crashes + 1
  /\ Become(self, NoCheck)
  /\ run_lock' = Nobody
  /\ UNCHANGED <<config, journal, host, runtime, edit, source_lock, edits, records, off_since>>

Next ==
  \/ \E e \in Editors : \/ \E target \in Profiles : Edit(e, target)
                        \/ PublishJournal(e)
                        \/ PublishConfig(e)
                        \/ EditorDies(e)
  \/ Apply
  \/ \E self \in Checks : \/ Load(self)
                          \/ ReadTransitions(self)
                          \/ PublishRuntime(self)
                          \/ AcknowledgeSaved(self)
                          \/ AcknowledgeSource(self)
                          \/ AcknowledgeApplied(self)
                          \/ \E p \in Providers : Resume(self, p)
                          \/ Finish(self)
                          \/ CheckDies(self)

Spec == Init /\ [][Next]_vars
-----------------------------------------------------------------------------
\* store.py, app.py: a check that may find a provider due has it resumed since
\* it was last switched off, in every profile up to the one the check runs on.
ResumedBeforeDue ==
  \A self \in Checks : job[self].at = "decide" =>
    \A p \in job[self].opening \ job[self].awaiting :
      off_since[p] = 0 \/ off_since[p] > job[self].generation

\* activation.py: a resumption leaves the saved journal only when the provider
\* was resumed; an edit made in the meantime is never acknowledged.
NeverAcknowledgesNewerEdit ==
  [][ \A p \in journal.pending \ journal'.pending : off_since[p] = 0 ]_vars
=============================================================================
