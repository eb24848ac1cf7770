---------------------- MODULE ActivationJournal_proofs ----------------------
(***************************************************************************)
(* Theorems about ActivationJournal, for any providers, editors, edits and *)
(* crashes.  The argument: a provider that was switched off is named by    *)
(* the saved journal until it is resumed, and the host's private copy      *)
(* names it as far as the host's generation goes; a check that has read    *)
(* one of them may cross out only what it has itself resumed, because an   *)
(* edit in the meantime gives the journal a uuid no check has seen.        *)
(***************************************************************************)
EXTENDS ActivationJournal, TLAPS

-----------------------------------------------------------------------------
(* The inductive invariant.                                                *)

\* A provider switched off and not resumed is in the saved journal, and in
\* the host's copy unless the edit is newer than the host's generation.
OwedInv ==
  \A p \in Providers : off_since[p] # 0 =>
    /\ p \in journal.pending
    /\ off_since[p] > host.edit \/ p \in host.pending

\* A check between reading the journal and its end, with the journal it read.
Reading == {"publish", "acknowledge", "applied", "decide"}
Saw(self) == IF self = "host" THEN host.source ELSE job[self].saw

\* Whom such a check finds in no need of a resumption.
CheckInv ==
  \A self \in Checks : job[self].at \in Reading =>
    /\ \A p \in Resumed(self) : off_since[p] = 0 \/ off_since[p] > job[self].generation
    /\ Saw(self).uuid = journal.uuid =>
         \A p \in Resumed(self) : p \in JournalOf(self).pending => off_since[p] = 0

\* Edits and journal records are counted up, and a host's check runs on the
\* generation its host has applied.
CountInv ==
  /\ host.edit <= edits
  /\ journal.uuid <= records /\ host.source.uuid <= records
  /\ \A self \in Checks : job[self].generation <= edits
  /\ job["manual"].saw.uuid <= records
  /\ job["host"].at \in Reading => job["host"].generation = host.edit
  /\ job["host"].at = "applied" => job["host"].saw.uuid = host.source.uuid
  /\ job["manual"].at # "applied"

IInv == TypeOK /\ OwedInv /\ CheckInv /\ CountInv


LEMMA InitInvariant == Init => IInv
<1> SUFFICES ASSUME Init PROVE IInv
  OBVIOUS
<1>1. /\ NoProfile \in Profiles /\ NoJournal \in Journals
      /\ config \in Profiles
  BY DEF Init, NoProfile, NoJournal, Profiles, Journals
<1>2. TypeOK
  BY <1>1 DEF Init, TypeOK, NoHost, NoRecord, NoEdit, NoCheck
<1>3. OwedInv /\ CheckInv /\ CountInv
  BY DEF Init, OwedInv, CheckInv, CountInv, NoJournal, NoHost, NoCheck, Reading, Checks
<1>4. QED
  BY <1>2, <1>3 DEF IInv

-----------------------------------------------------------------------------
(* The editors.                                                            *)

\* Whoever a profile stops opening, its edit records.
LEMMA OffIsRecorded ==
  ASSUME NEW old, NEW new
  PROVE  Opening(old) \ Opening(new) \subseteq SwitchedOff(old, new)
BY DEF Opening, SwitchedOff

LEMMA EditStep ==
  ASSUME IInv, NEW e \in Editors,
         (\E target \in Profiles : Edit(e, target)) \/ PublishConfig(e) \/ EditorDies(e)
  PROVE  IInv' /\ journal' = journal
<1>1. /\ UNCHANGED <<journal, host, runtime, job, run_lock, records, off_since>>
      /\ edits' \in Nat /\ edits <= edits' /\ crashes' \in Nat
      /\ config' \in Profiles /\ source_lock' \in Editors \cup {Nobody}
  BY DEF Edit, PublishConfig, EditorDies, IInv, TypeOK
<1>2. NoEdit \in [at : {"idle", "editing", "saving"}, seen : Profiles, target : Profiles]
  BY DEF NoEdit, NoProfile, Profiles
<1>3. edit' \in [Editors -> [at : {"idle", "editing", "saving"}, seen : Profiles, target : Profiles]]
  BY <1>2 DEF Edit, PublishConfig, EditorDies, IInv, TypeOK
<1>4. TypeOK'
  BY <1>1, <1>3 DEF IInv, TypeOK
<1>5. OwedInv' /\ CheckInv'
  BY <1>1 DEF IInv, OwedInv, CheckInv, Resumed, Saw, JournalOf
<1>6. CountInv'
  BY <1>1, <1>4 DEF IInv, TypeOK, CountInv
<1>7. QED
  BY <1>1, <1>4, <1>5, <1>6 DEF IInv

LEMMA PublishJournalStep ==
  ASSUME IInv, NEW e \in Editors, PublishJournal(e)
  PROVE  IInv' /\ journal.pending \subseteq journal'.pending
<1> DEFINE target == edit[e].target
           off == SwitchedOff(config, target)
           gone == Opening(config) \ Opening(target)
<1>1. /\ UNCHANGED <<config, host, runtime, job, run_lock, edits, crashes>>
      /\ edits \in Nat /\ records \in Nat /\ edit[e].target \in Profiles
      /\ journal \in Journals /\ off_since \in [Providers -> Nat]
  BY DEF PublishJournal, IInv, TypeOK
<1>2. NoEdit \in [at : {"idle", "editing", "saving"}, seen : Profiles, target : Profiles]
  BY DEF NoEdit, NoProfile, Profiles
<1>3. edit' \in [Editors -> [at : {"idle", "editing", "saving"}, seen : Profiles, target : Profiles]]
  BY <1>2 DEF PublishJournal, IInv, TypeOK
<1>4. CASE UNCHANGED <<journal, source_lock, records, off_since>>
  <2>1. TypeOK'
    BY <1>1, <1>3, <1>4 DEF IInv, TypeOK
  <2>2. OwedInv' /\ CheckInv' /\ CountInv'
    BY <1>1, <1>4 DEF IInv, OwedInv, CheckInv, CountInv, Resumed, Saw, JournalOf
  <2>3. QED
    BY <1>4, <2>1, <2>2 DEF IInv
<1>5. ASSUME ~UNCHANGED <<journal, source_lock, records, off_since>>
      PROVE  /\ IF off = {} THEN UNCHANGED <<journal, records>>
                ELSE /\ records' = records + 1
                     /\ journal' = [pending |-> journal.pending \cup off, uuid |-> records']
             /\ off_since' = [p \in Providers |-> IF p \in gone THEN edits + 1 ELSE off_since[p]]
             /\ source_lock' = e
  BY <1>5 DEF PublishJournal
<1>6. CASE ~UNCHANGED <<journal, source_lock, records, off_since>>
  <2>1. gone \subseteq off /\ off \subseteq Providers
    BY <1>1, OffIsRecorded DEF SwitchedOff, IInv, TypeOK, Profiles
  <2> HIDE DEF off, gone
  <2>2. /\ journal' \in Journals /\ records' \in Nat /\ records <= records'
        /\ journal'.uuid <= records'
        /\ off # {} => journal'.uuid > records /\ journal'.pending = journal.pending \cup off
        /\ off = {} => journal' = journal
    BY <1>1, <1>5, <1>6, <2>1 DEF IInv, CountInv, Journals
  <2>3. /\ off_since' \in [Providers -> Nat]
        /\ \A p \in Providers : off_since'[p] = IF p \in gone THEN edits + 1 ELSE off_since[p]
    BY <1>1, <1>5, <1>6
  <2>4. TypeOK'
    BY <1>1, <1>3, <1>5, <1>6, <2>2, <2>3 DEF IInv, TypeOK
  <2>5. OwedInv'
    BY <1>1, <2>1, <2>2, <2>3 DEF IInv, TypeOK, OwedInv, CountInv
  <2>6. CountInv'
    BY <1>1, <2>2 DEF IInv, TypeOK, CountInv, Journals, Checks
  <2>7. CheckInv'
    <3> SUFFICES ASSUME NEW self \in Checks, job[self].at \in Reading
                 PROVE  /\ \A p \in Resumed(self) :
                             off_since'[p] = 0 \/ off_since'[p] > job[self].generation
                        /\ Saw(self).uuid = journal'.uuid =>
                             \A p \in Resumed(self) :
                               p \in JournalOf(self)'.pending => off_since'[p] = 0
      BY <1>1 DEF CheckInv, Resumed, Saw
    <3>1. Resumed(self) \subseteq Providers /\ job[self].generation \in Nat
      BY DEF Resumed, IInv, TypeOK
    <3>2. Saw(self).uuid \in Nat /\ Saw(self).uuid <= records
      BY DEF Saw, IInv, TypeOK, CountInv, Checks, Journals
    <3>3. job[self].generation <= edits
      BY DEF IInv, CountInv
    <3>4. \A p \in Resumed(self) : off_since'[p] = 0 \/ off_since'[p] > job[self].generation
      BY <1>1, <2>3, <3>1, <3>3 DEF IInv, CheckInv
    <3>5. CASE off = {}
      <4>1. JournalOf(self)' = JournalOf(self) /\ journal' = journal /\ gone = {}
        BY <1>1, <2>1, <2>2, <3>5 DEF JournalOf
      <4>2. QED
        BY <2>3, <3>1, <3>4, <4>1 DEF IInv, CheckInv
    <3>6. CASE off # {}
      BY <1>1, <2>2, <3>2, <3>4, <3>6 DEF Journals
    <3>7. QED
      BY <3>5, <3>6
  <2>8. QED
    BY <2>2, <2>4, <2>5, <2>6, <2>7 DEF IInv
<1>7. QED
  BY <1>4, <1>6

-----------------------------------------------------------------------------
(* The host, and the checks.                                               *)

JobType ==
  [at : {"idle", "loaded", "publish", "acknowledge", "applied", "decide"},
   opening : SUBSET Providers, generation : Nat, saw : Journals, awaiting : SUBSET Providers]

LEMMA NoCheckType == NoCheck \in JobType /\ NoCheck.at = "idle" /\ NoCheck.generation = 0
                       /\ NoCheck.saw.uuid = 0
BY DEF NoCheck, JobType, NoJournal, Journals

LEMMA ApplyStep ==
  ASSUME IInv, Apply
  PROVE  IInv' /\ journal' = journal
<1>1. /\ host' = Applied(config, journal) /\ job' = [job EXCEPT !["host"] = NoCheck]
      /\ run_lock' = IF run_lock = "host" THEN Nobody ELSE run_lock
      /\ UNCHANGED <<config, journal, runtime, edit, source_lock, edits, records, off_since,
                     crashes>>
      /\ edits \in Nat /\ records \in Nat /\ journal \in Journals /\ config \in Profiles
      /\ job \in [Checks -> JobType] /\ off_since \in [Providers -> Nat]
  BY DEF Apply, IInv, TypeOK, JobType
<1>2. /\ host'.edit = edits /\ host'.pending = journal.pending /\ host'.source = journal
      /\ host'.opening = Opening(config) /\ host'.runs = TRUE
      /\ host' = [opening |-> Opening(config), edit |-> edits, pending |-> journal.pending,
                  source |-> journal, runs |-> TRUE]
  BY <1>1 DEF Applied
<1>3. /\ job' \in [Checks -> JobType] /\ job'["host"] = NoCheck /\ job'["manual"] = job["manual"]
  BY <1>1, NoCheckType DEF Checks
<1>4. TypeOK'
  <2>1. Opening(config) \subseteq Providers
    BY <1>1 DEF Opening, Profiles
  <2>2. host' \in [opening : SUBSET Providers, edit : Nat, pending : SUBSET Providers,
                   source : Journals, runs : BOOLEAN]
    BY <1>1, <1>2, <2>1 DEF Journals
  <2>3. run_lock' \in Checks \cup {Nobody}
    BY <1>1 DEF IInv, TypeOK
  <2>4. QED
    BY <1>1, <1>3, <2>2, <2>3 DEF IInv, TypeOK, JobType
<1>5. OwedInv'
  BY <1>1, <1>2 DEF IInv, OwedInv
<1>6. CheckInv'
  BY <1>1, <1>3, NoCheckType
  DEF IInv, CheckInv, Checks, Reading, Resumed, Saw, JournalOf
<1>7. CountInv'
  BY <1>1, <1>2, <1>3, NoCheckType DEF IInv, CountInv, Checks, Reading
<1>8. QED
  BY <1>1, <1>4, <1>5, <1>6, <1>7 DEF IInv

\* One check goes on to j; files, edits and the other check stay.
LEMMA CheckMoves ==
  ASSUME IInv, NEW self \in Checks, NEW j \in JobType, Become(self, j),
         UNCHANGED <<config, edit, source_lock, edits, records>>,
         run_lock' \in Checks \cup {Nobody}, crashes' \in Nat,
         runtime' \in [exists : BOOLEAN, enabled : SUBSET Providers, awaiting : SUBSET Providers]
  PROVE  /\ job' \in [Checks -> JobType] /\ job'[self] = j
         /\ \A other \in Checks \ {self} : job'[other] = job[other]
<1>1. job \in [Checks -> JobType]
  BY DEF IInv, TypeOK, JobType
<1>2. QED
  BY <1>1 DEF Become

\* The steps of a check that leave both journals alone.
LEMMA PlainStep ==
  ASSUME IInv, NEW self \in Checks, NEW j \in JobType, Become(self, j),
         UNCHANGED <<config, edit, source_lock, edits, records, journal, host, off_since>>,
         run_lock' \in Checks \cup {Nobody}, crashes' \in Nat,
         runtime' \in [exists : BOOLEAN, enabled : SUBSET Providers, awaiting : SUBSET Providers],
         j.generation <= edits,
         self = "manual" => j.saw.uuid <= records /\ j.at # "applied",
         self = "host" /\ j.at \in Reading => j.generation = host.edit /\ j.at # "applied",
         j.at \in Reading =>
           /\ \A p \in j.opening \ j.awaiting : off_since[p] = 0 \/ off_since[p] > j.generation
           /\ (IF self = "host" THEN host.source ELSE j.saw).uuid = journal.uuid =>
                \A p \in j.opening \ j.awaiting : p \in JournalOf(self).pending => off_since[p] = 0
  PROVE  IInv'
<1>1. /\ job' \in [Checks -> JobType] /\ job'[self] = j
      /\ \A other \in Checks \ {self} : job'[other] = job[other]
  BY CheckMoves
<1>2. TypeOK'
  BY <1>1 DEF IInv, TypeOK, JobType
<1>3. OwedInv'
  BY DEF IInv, OwedInv
<1>4. CheckInv'
  <2> SUFFICES ASSUME NEW other \in Checks, job'[other].at \in Reading
               PROVE  /\ \A p \in Resumed(other)' :
                           off_since[p] = 0 \/ off_since[p] > job'[other].generation
                      /\ Saw(other)'.uuid = journal.uuid =>
                           \A p \in Resumed(other)' :
                             p \in JournalOf(other).pending => off_since[p] = 0
    BY DEF CheckInv, JournalOf
  <2>1. CASE other = self
    BY <1>1, <2>1 DEF Resumed, Saw
  <2>2. CASE other # self
    <3>1. job'[other] = job[other]
      BY <1>1, <2>2
    <3>2. QED
      BY <3>1 DEF IInv, CheckInv, Resumed, Saw
  <2>3. QED
    BY <2>1, <2>2
<1>5. CountInv'
  <2>1. CASE self = "host"
    <3>1. job'["host"] = j /\ job'["manual"] = job["manual"]
      BY <1>1, <2>1 DEF Checks
    <3>2. QED
      BY <2>1, <3>1 DEF IInv, CountInv, Checks, Reading
  <2>2. CASE self = "manual"
    <3>1. job'["manual"] = j /\ job'["host"] = job["host"]
      BY <1>1, <2>2 DEF Checks
    <3>2. QED
      BY <2>2, <3>1 DEF IInv, CountInv, Checks, Reading
  <2>3. QED
    BY <2>1, <2>2 DEF Checks
<1>6. QED
  BY <1>2, <1>3, <1>4, <1>5 DEF IInv

LEMMA QuietCheckStep ==
  ASSUME IInv, NEW self \in Checks,
         Load(self) \/ ReadTransitions(self) \/ PublishRuntime(self) \/ Finish(self)
           \/ CheckDies(self)
  PROVE  IInv' /\ journal' = journal
<1>1. /\ UNCHANGED <<config, journal, host, edit, source_lock, edits, records, off_since>>
      /\ crashes' \in Nat /\ run_lock' \in Checks \cup {Nobody}
      /\ job[self] \in JobType /\ edits \in Nat /\ records \in Nat /\ config \in Profiles
  BY DEF Load, ReadTransitions, PublishRuntime, Finish, CheckDies, IInv, TypeOK, JobType
<1>2. runtime' \in [exists : BOOLEAN, enabled : SUBSET Providers, awaiting : SUBSET Providers]
  <2>1. CASE PublishRuntime(self)
    BY <1>1, <2>1 DEF PublishRuntime, JobType
  <2>2. CASE ~PublishRuntime(self)
    <3>1. runtime' = runtime
      BY <2>2 DEF Load, ReadTransitions, Finish, CheckDies
    <3>2. QED
      BY <3>1 DEF IInv, TypeOK
  <2>3. QED
    BY <2>1, <2>2
<1>3. CASE Become(self, NoCheck)
  <2>1. NoCheck.generation <= edits /\ NoCheck.saw.uuid <= records /\ NoCheck.at \notin Reading
    BY <1>1, NoCheckType DEF Reading
  <2>2. QED
    BY <1>1, <1>2, <1>3, <2>1, NoCheckType, PlainStep
<1>4. CASE Load(self)
  <2> DEFINE opening == IF self = "host" THEN host.opening ELSE Opening(config)
             j == [NoCheck EXCEPT !.at = "loaded", !.opening = opening]
  <2>1. Become(self, j) /\ opening \subseteq Providers
    BY <1>1, <1>4 DEF Load, IInv, TypeOK, Opening, Profiles
  <2> HIDE DEF opening
  <2>2. /\ j \in JobType /\ j.at = "loaded" /\ j.generation = 0 /\ j.saw.uuid = 0
    BY <2>1, NoCheckType DEF JobType
  <2> HIDE DEF j
  <2>3. QED
    BY <1>1, <1>2, <2>1, <2>2, PlainStep DEF Reading
<1>5. CASE ReadTransitions(self) /\ ~Become(self, NoCheck)
  <2> DEFINE generation == IF self = "host" THEN host.edit ELSE edits
             j == [job[self] EXCEPT !.at = "publish", !.saw = JournalOf(self),
                                    !.awaiting = Awaiting(self), !.generation = generation]
  <2>1. Become(self, j) /\ job[self].at = "loaded"
    BY <1>5 DEF ReadTransitions
  <2>2. /\ JournalOf(self) \in Journals /\ Awaiting(self) \subseteq Providers
        /\ JournalOf(self).pending \subseteq Awaiting(self) /\ generation \in Nat
        /\ generation <= edits
        /\ self = "manual" => JournalOf(self) = journal /\ journal.uuid <= records
    BY <1>1 DEF JournalOf, Awaiting, IInv, TypeOK, JobType, Journals, CountInv, Checks
  <2>3. generation = IF self = "host" THEN host.edit ELSE edits
    OBVIOUS
  <2> HIDE DEF generation
  <2>4. /\ j \in JobType /\ j.at = "publish" /\ j.saw = JournalOf(self)
        /\ j.awaiting = Awaiting(self) /\ j.generation = generation
        /\ j.opening = job[self].opening
    BY <1>1, <2>2 DEF JobType
  <2> HIDE DEF j
  <2>5. \A p \in j.opening \ j.awaiting : p \in Providers /\ p \notin JournalOf(self).pending
    BY <2>2, <2>4 DEF JobType
  <2>6. \A p \in j.opening \ j.awaiting : off_since[p] = 0 \/ off_since[p] > j.generation
    BY <2>3, <2>4, <2>5 DEF IInv, OwedInv, JournalOf
  <2>7. QED
    BY <1>1, <1>2, <2>1, <2>2, <2>3, <2>4, <2>5, <2>6, PlainStep DEF Reading
<1>6. CASE PublishRuntime(self)
  <2> DEFINE j == [job[self] EXCEPT !.at = "acknowledge"]
  <2>1. Become(self, j) /\ job[self].at = "publish"
    BY <1>6 DEF PublishRuntime
  <2>2. /\ j \in JobType /\ j.at = "acknowledge" /\ j.saw = job[self].saw
        /\ j.awaiting = job[self].awaiting /\ j.generation = job[self].generation
        /\ j.opening = job[self].opening
    BY <1>1 DEF JobType
  <2> HIDE DEF j
  <2>3. QED
    BY <1>1, <1>2, <2>1, <2>2, PlainStep
    DEF Reading, IInv, CheckInv, CountInv, Resumed, Saw
<1>7. QED
  BY <1>3, <1>4, <1>5, <1>6 DEF Finish, CheckDies

-----------------------------------------------------------------------------
(* The steps that cross out: what leaves a journal was resumed, or was     *)
(* switched off by an edit the host has not applied.                       *)

LEMMA CrossOutStep ==
  ASSUME IInv, NEW self \in Checks, NEW j \in JobType, Become(self, j),
         UNCHANGED <<config, runtime, edit, source_lock, run_lock, edits, records, crashes>>,
         journal' \in Journals, journal'.uuid = journal.uuid,
         journal'.pending \subseteq journal.pending,
         host' \in [opening : SUBSET Providers, edit : Nat, pending : SUBSET Providers,
                    source : Journals, runs : BOOLEAN],
         host'.edit = host.edit, host'.source.uuid = host.source.uuid,
         host'.pending \subseteq host.pending,
         off_since' \in [Providers -> Nat],
         \A p \in Providers : off_since'[p] \in {0, off_since[p]},
         \A p \in journal.pending \ journal'.pending : off_since'[p] = 0,
         \A p \in host.pending \ host'.pending : off_since'[p] = 0 \/ off_since'[p] > host.edit,
         job[self].at \in Reading,
         j.opening = job[self].opening, j.generation = job[self].generation,
         \A p \in job[self].awaiting \ j.awaiting : off_since'[p] = 0,
         j.at = "applied" => self = "host" /\ j.saw.uuid = host.source.uuid,
         self = "manual" => j.saw.uuid = job[self].saw.uuid
  PROVE  IInv'
<1>1. /\ job \in [Checks -> JobType] /\ off_since \in [Providers -> Nat]
      /\ host.edit \in Nat /\ host.pending \subseteq Providers
      /\ journal.pending \subseteq Providers
  BY DEF IInv, TypeOK, JobType, Journals
<1>2. /\ job' \in [Checks -> JobType] /\ job'[self] = j
      /\ \A other \in Checks \ {self} : job'[other] = job[other]
  BY <1>1 DEF Become
<1>3. TypeOK'
  BY <1>2 DEF IInv, TypeOK, JobType
<1>4. OwedInv'
  BY <1>1 DEF IInv, OwedInv
<1>5. CheckInv'
  <2> SUFFICES ASSUME NEW other \in Checks, job'[other].at \in Reading
               PROVE  /\ \A p \in Resumed(other)' :
                           off_since'[p] = 0 \/ off_since'[p] > job'[other].generation
                      /\ Saw(other)'.uuid = journal'.uuid =>
                           \A p \in Resumed(other)' :
                             p \in JournalOf(other)'.pending => off_since'[p] = 0
    BY DEF CheckInv
  <2>1. /\ job[other].at \in Reading /\ job'[other].generation = job[other].generation
        /\ job'[other].opening = job[other].opening
        /\ \A p \in job[other].awaiting \ job'[other].awaiting : off_since'[p] = 0
    BY <1>2
  <2>2. Saw(other)'.uuid = Saw(other).uuid
    BY <1>2 DEF Saw, Checks
  <2>3. JournalOf(other)'.pending \subseteq JournalOf(other).pending
    BY DEF JournalOf
  <2>4. job[other].opening \subseteq Providers /\ job[other].generation \in Nat
    BY <1>1 DEF JobType
  <2>5. ASSUME NEW p \in Resumed(other)'
        PROVE  p \in Providers /\ (off_since'[p] = 0 \/ p \in Resumed(other))
    BY <2>1, <2>4 DEF Resumed
  <2>6. /\ \A p \in Resumed(other) : off_since[p] = 0 \/ off_since[p] > job[other].generation
        /\ Saw(other).uuid = journal.uuid =>
             \A p \in Resumed(other) : p \in JournalOf(other).pending => off_since[p] = 0
    BY <2>1 DEF IInv, CheckInv
  <2>7. \A p \in Resumed(other)' :
          off_since'[p] = 0 \/ off_since'[p] > job'[other].generation
    BY <1>1, <2>1, <2>4, <2>5, <2>6
  <2>8. ASSUME Saw(other)'.uuid = journal'.uuid, NEW p \in Resumed(other)',
               p \in JournalOf(other)'.pending
        PROVE  off_since'[p] = 0
    BY <1>1, <2>2, <2>3, <2>5, <2>6, <2>8
  <2>9. QED
    BY <2>7, <2>8
<1>6. CountInv'
  <2>1. \A other \in Checks : job'[other].generation = job[other].generation
    BY <1>2
  <2>2. CASE self = "host"
    <3>1. job'["host"] = j /\ job'["manual"] = job["manual"]
      BY <1>2, <2>2 DEF Checks
    <3>2. QED
      BY <2>1, <2>2, <3>1 DEF IInv, CountInv, Checks
  <2>3. CASE self = "manual"
    <3>1. job'["manual"] = j /\ job'["host"] = job["host"]
      BY <1>2, <2>3 DEF Checks
    <3>2. QED
      BY <2>1, <2>3, <3>1 DEF IInv, CountInv, Checks
  <2>4. QED
    BY <2>2, <2>3 DEF Checks
<1>7. QED
  BY <1>3, <1>4, <1>5, <1>6 DEF IInv

\* What the three acknowledgements and a resumption start from.
LEMMA CheckFacts ==
  ASSUME IInv, NEW self \in Checks, job[self].at \in Reading
  PROVE  /\ job[self] \in JobType /\ journal \in Journals /\ off_since \in [Providers -> Nat]
         /\ host \in [opening : SUBSET Providers, edit : Nat, pending : SUBSET Providers,
                      source : Journals, runs : BOOLEAN]
         /\ \A p \in Resumed(self) : off_since[p] = 0 \/ off_since[p] > job[self].generation
         /\ Saw(self).uuid = journal.uuid =>
              \A p \in Resumed(self) : p \in JournalOf(self).pending => off_since[p] = 0
BY DEF IInv, TypeOK, JobType, CheckInv

LEMMA AcknowledgeSavedStep ==
  ASSUME IInv, NEW self \in Checks, AcknowledgeSaved(self)
  PROVE  IInv' /\ \A p \in journal.pending \ journal'.pending : off_since[p] = 0
<1>1. /\ self = "manual" /\ job[self].at = "acknowledge" /\ job[self].at \in Reading
      /\ UNCHANGED <<config, host, runtime, edit, source_lock, run_lock, edits, records,
                     off_since, crashes>>
  BY DEF AcknowledgeSaved, Reading
<1>2. CASE Unchanged(job[self].saw, journal)
  <2> DEFINE left == [journal EXCEPT !.pending = @ \ Resumed(self)]
             j == [job[self] EXCEPT !.at = "decide", !.saw = left]
  <2>1. journal' = left /\ Become(self, j) /\ journal = job[self].saw
    BY <1>2 DEF AcknowledgeSaved, Unchanged
  <2>2. /\ left \in Journals /\ left.uuid = journal.uuid
        /\ left.pending = journal.pending \ Resumed(self)
    BY <1>1, CheckFacts DEF Journals
  <2> HIDE DEF left
  <2>3. /\ j \in JobType /\ j.at = "decide" /\ j.saw = left /\ j.opening = job[self].opening
        /\ j.generation = job[self].generation /\ j.awaiting = job[self].awaiting
    BY <1>1, <2>2, CheckFacts DEF JobType
  <2> HIDE DEF j
  <2>4. \A p \in Resumed(self) : p \in journal.pending => off_since[p] = 0
    BY <1>1, <2>1, CheckFacts DEF Saw, JournalOf
  <2>5. IInv'
    BY <1>1, <2>1, <2>2, <2>3, <2>4, CheckFacts, CrossOutStep
  <2>6. QED
    BY <2>1, <2>2, <2>4, <2>5
<1>3. CASE ~Unchanged(job[self].saw, journal)
  <2> DEFINE j == [job[self] EXCEPT !.at = "decide"]
  <2>1. journal' = journal /\ Become(self, j)
    BY <1>3 DEF AcknowledgeSaved
  <2>2. /\ j \in JobType /\ j.at = "decide" /\ j.saw = job[self].saw
        /\ j.opening = job[self].opening
        /\ j.generation = job[self].generation /\ j.awaiting = job[self].awaiting
    BY <1>1, CheckFacts DEF JobType
  <2> HIDE DEF j
  <2>3. IInv'
    BY <1>1, <2>1, <2>2, CheckFacts, CrossOutStep
  <2>4. QED
    BY <2>1, <2>3
<1>4. QED
  BY <1>2, <1>3

LEMMA AcknowledgeSourceStep ==
  ASSUME IInv, NEW self \in Checks, AcknowledgeSource(self)
  PROVE  IInv' /\ \A p \in journal.pending \ journal'.pending : off_since[p] = 0
<1> DEFINE acknowledged == host.pending \cap Resumed(self)
           left == [journal EXCEPT !.pending = @ \ acknowledged]
<1>1. /\ self = "host" /\ job[self].at = "acknowledge" /\ job[self].at \in Reading
      /\ UNCHANGED <<config, host, runtime, edit, source_lock, run_lock, edits, records,
                     off_since, crashes>>
  BY DEF AcknowledgeSource, Reading
<1>2. CASE acknowledged # {} /\ Unchanged(host.source, journal)
  <2> DEFINE j == [job[self] EXCEPT !.at = "applied", !.saw = left]
  <2>1. journal' = left /\ Become(self, j) /\ journal = host.source
    BY <1>2 DEF AcknowledgeSource, Unchanged
  <2>2. /\ left \in Journals /\ left.uuid = journal.uuid
        /\ left.pending = journal.pending \ acknowledged
    BY <1>1, CheckFacts DEF Journals
  <2> HIDE DEF left
  <2>3. /\ j \in JobType /\ j.at = "applied" /\ j.saw = left /\ j.opening = job[self].opening
        /\ j.generation = job[self].generation /\ j.awaiting = job[self].awaiting
    BY <1>1, <2>2, CheckFacts DEF JobType
  <2> HIDE DEF j
  <2>4. \A p \in acknowledged : off_since[p] = 0
    BY <1>1, <2>1, CheckFacts DEF Saw, JournalOf
  <2>5. IInv'
    BY <1>1, <2>1, <2>2, <2>3, <2>4, CheckFacts, CrossOutStep
  <2>6. QED
    BY <2>1, <2>2, <2>4, <2>5
<1>3. CASE ~(acknowledged # {} /\ Unchanged(host.source, journal))
  <2> DEFINE j == [job[self] EXCEPT !.at = "applied", !.saw = host.source]
  <2>1. journal' = journal /\ Become(self, j)
    BY <1>3 DEF AcknowledgeSource
  <2>2. /\ j \in JobType /\ j.at = "applied" /\ j.saw = host.source
        /\ j.opening = job[self].opening
        /\ j.generation = job[self].generation /\ j.awaiting = job[self].awaiting
    BY <1>1, CheckFacts DEF JobType
  <2> HIDE DEF j
  <2>3. IInv'
    BY <1>1, <2>1, <2>2, CheckFacts, CrossOutStep
  <2>4. QED
    BY <2>1, <2>3
<1>4. QED
  BY <1>2, <1>3

LEMMA AcknowledgeAppliedStep ==
  ASSUME IInv, NEW self \in Checks, AcknowledgeApplied(self)
  PROVE  IInv' /\ journal' = journal
<1> DEFINE j == [job[self] EXCEPT !.at = "decide"]
<1>1. /\ job[self].at = "applied" /\ job[self].at \in Reading /\ Become(self, j)
      /\ host' = [host EXCEPT !.pending = @ \ Resumed(self), !.source = job[self].saw]
      /\ UNCHANGED <<config, journal, runtime, edit, source_lock, run_lock, edits, records,
                     off_since, crashes>>
  BY DEF AcknowledgeApplied, Reading
<1>2. /\ self = "host" /\ job[self].saw.uuid = host.source.uuid
      /\ job[self].generation = host.edit
  BY <1>1 DEF IInv, CountInv, Checks
<1>3. /\ j \in JobType /\ j.at = "decide" /\ j.saw = job[self].saw
      /\ j.opening = job[self].opening
      /\ j.generation = job[self].generation /\ j.awaiting = job[self].awaiting
  BY <1>1, CheckFacts DEF JobType
<1> HIDE DEF j
<1>4. /\ host' \in [opening : SUBSET Providers, edit : Nat, pending : SUBSET Providers,
                    source : Journals, runs : BOOLEAN]
      /\ host'.edit = host.edit /\ host'.source = job[self].saw
      /\ host'.pending = host.pending \ Resumed(self)
  BY <1>1, CheckFacts DEF JobType
<1>5. IInv'
  BY <1>1, <1>2, <1>3, <1>4, CheckFacts, CrossOutStep
<1>6. QED
  BY <1>1, <1>5

LEMMA ResumeStep ==
  ASSUME IInv, NEW self \in Checks, NEW p \in Providers, Resume(self, p)
  PROVE  IInv' /\ journal' = journal
<1> DEFINE j == [job[self] EXCEPT !.at = "publish", !.awaiting = @ \ {p}]
<1>1. /\ job[self].at = "decide" /\ job[self].at \in Reading /\ Become(self, j)
      /\ off_since' = [off_since EXCEPT ![p] = 0]
      /\ UNCHANGED <<config, journal, host, runtime, edit, source_lock, run_lock, edits, records,
                     crashes>>
  BY DEF Resume, Reading
<1>2. /\ j \in JobType /\ j.at = "publish" /\ j.saw = job[self].saw
      /\ j.opening = job[self].opening
      /\ j.generation = job[self].generation /\ j.awaiting = job[self].awaiting \ {p}
  BY <1>1, CheckFacts DEF JobType
<1> HIDE DEF j
<1>3. /\ off_since' \in [Providers -> Nat] /\ off_since'[p] = 0
      /\ \A q \in Providers : off_since'[q] \in {0, off_since[q]}
  BY <1>1, CheckFacts
<1>4. IInv'
  BY <1>1, <1>2, <1>3, CheckFacts, CrossOutStep
<1>5. QED
  BY <1>1, <1>4

-----------------------------------------------------------------------------
LEMMA StutterStep == ASSUME IInv, UNCHANGED vars PROVE IInv'
BY DEF vars, IInv, TypeOK, OwedInv, CheckInv, CountInv, Resumed, Saw, JournalOf

LEMMA NextStep ==
  ASSUME IInv, [Next]_vars
  PROVE  IInv' /\ \A p \in journal.pending \ journal'.pending : off_since[p] = 0
<1>1. CASE UNCHANGED vars
  BY <1>1, StutterStep DEF vars
<1>2. ASSUME NEW e \in Editors,
             (\E target \in Profiles : Edit(e, target)) \/ PublishConfig(e) \/ EditorDies(e)
      PROVE  IInv' /\ journal' = journal
  BY <1>2, EditStep
<1>3. ASSUME NEW e \in Editors, PublishJournal(e)
      PROVE  IInv' /\ journal.pending \subseteq journal'.pending
  BY <1>3, PublishJournalStep
<1>4. CASE Apply
  BY <1>4, ApplyStep
<1>5. ASSUME NEW self \in Checks,
             Load(self) \/ ReadTransitions(self) \/ PublishRuntime(self) \/ Finish(self)
               \/ CheckDies(self)
      PROVE  IInv' /\ journal' = journal
  BY <1>5, QuietCheckStep
<1>6. ASSUME NEW self \in Checks, AcknowledgeSaved(self) \/ AcknowledgeSource(self)
      PROVE  IInv' /\ \A p \in journal.pending \ journal'.pending : off_since[p] = 0
  BY <1>6, AcknowledgeSavedStep, AcknowledgeSourceStep
<1>7. ASSUME NEW self \in Checks,
             AcknowledgeApplied(self) \/ \E p \in Providers : Resume(self, p)
      PROVE  IInv' /\ journal' = journal
  BY <1>7, AcknowledgeAppliedStep, ResumeStep
<1>8. QED
  BY <1>1, <1>2, <1>3, <1>4, <1>5, <1>6, <1>7 DEF Next

LEMMA Invariance == Spec => []IInv
<1>1. IInv /\ [Next]_vars => IInv'
  BY NextStep
<1>2. QED
  BY <1>1, InitInvariant, PTL DEF Spec

-----------------------------------------------------------------------------
(* The theorems.                                                           *)

\* The profiles, the journals and the checks keep their shapes.
THEOREM TypeCorrect == Spec => []TypeOK
<1>1. IInv => TypeOK
  BY DEF IInv
<1>2. QED
  BY <1>1, Invariance, PTL

\* state/activation.py, app.py: whatever was edited, applied or crashed in
\* between, a check that decides who is due has resumed every provider that
\* was switched off by an edit of the generation it runs on.
THEOREM ResumptionComesFirst == Spec => []ResumedBeforeDue
<1>1. IInv => ResumedBeforeDue
  BY DEF IInv, CheckInv, ResumedBeforeDue, Reading, Resumed
<1>2. QED
  BY <1>1, Invariance, PTL

\* state/activation.py acknowledge: nothing leaves the saved journal while the
\* provider it names is still to be resumed.
THEOREM NewerEditIsKept == Spec => NeverAcknowledgesNewerEdit
<1>1. IInv /\ [Next]_vars =>
        [\A p \in journal.pending \ journal'.pending : off_since[p] = 0]_vars
  BY NextStep
<1>2. QED
  BY <1>1, Invariance, PTL DEF Spec, NeverAcknowledgesNewerEdit
=============================================================================
