--------------------------- MODULE BackendAuthority ---------------------------
(***************************************************************************)
(* Which of the two backends holds the scheduler state (state/authority.py,*)
(* router.py, cutover.py, migration.py, new_installation.py): the slot     *)
(* files ("legacy") or the documents ("json").  One manifest says which,   *)
(* and everything else follows it:                                         *)
(*   writers    commands that commit through the router, under run.lock    *)
(*   operators  the lifecycle verbs: cutover, rollback, bootstrap-authority*)
(*   readers    load a roster through the router, without a lock           *)
(*   seeders    the verb migrate: documents made from slots, without a lock*)
(* and an installation that starts a state directory from nothing.  Any of *)
(* them may die between two steps; run.lock dies with its holder.          *)
(*                                                                         *)
(* A provider's state is a version number here.  A legacy commit cut short *)
(* between two slots leaves a state of its own: one more version, followed *)
(* by a death.                                                             *)
(***************************************************************************)
EXTENDS Integers

CONSTANTS
  Providers,          \* DEFAULT_PROVIDERS
  Writers, Operators, Readers, Seeders,
  Nobody,             \* the owner of a free lock
  Nothing,            \* no manifest, no document
  Damaged,            \* a document that does not decode
  MAX_READ_ATTEMPTS,  \* AuthoritativeStateStore.max_read_attempts
  MaxEpoch,           \* bound on the ownership switches
  MaxVersion          \* bound on the commits

Processes == Writers \cup Operators \cup Readers \cup Seeders

ASSUME AuthorityAssumption ==
  /\ Providers # {}  \* _require_non_empty_roster
  /\ Nobody \notin Processes
  /\ Nothing \notin Nat \cup [backend : {"legacy", "json"}, epoch : Nat]
  /\ Damaged \notin Nat
  /\ MAX_READ_ATTEMPTS \in Nat \ {0} /\ MaxEpoch \in Nat /\ MaxVersion \in Nat

VARIABLES
  manifest,   \* backend-authority.json
  legacy,     \* the slot files of each provider
  document,   \* the document of each provider
  run_lock,
  version,    \* the newest version published by anyone
  committed,  \* history: what the last commit on each provider published
  install,    \* initialize_new_installation: none, seeding, done or dead
  pc,         \* where each process is
  seen,       \* the manifest it has read
  left,       \* the providers it has still to go through
  got,        \* the states it has read
  at,         \* the provider it is working on
  tries,      \* the read attempts of a reader
  mixed       \* history: this attempt read a backend in another epoch

disk == <<manifest, legacy, document>>
local == <<seen, left, got, at, tries, mixed>>
vars == <<disk, run_lock, version, committed, install, pc, local>>

Backends == {"legacy", "json"}
BackendAuthorities == [backend : Backends, epoch : Nat]
Documents == Nat \cup {Nothing, Damaged}

Writing == {"write", "commit", "publish", "confirm"}
Switching == {"cutover", "read", "prepare", "verify", "rollback", "compare", "flip",
              "flipped", "bootstrap"}
Locked == Writing \cup Switching
Unlocked == {"idle", "load", "again", "returned", "seed", "link"}

TypeOK ==
  /\ manifest \in BackendAuthorities \cup {Nothing}
  /\ legacy \in [Providers -> Nat]
  /\ document \in [Providers -> Documents]
  /\ run_lock \in Processes \cup {Nobody}
  /\ version \in Nat /\ committed \in [Providers -> Nat]
  /\ install \in {"none", "seeding", "done", "dead"}
  /\ pc \in [Processes -> Locked \cup Unlocked \cup {"alarm"}]
  /\ seen \in [Processes -> BackendAuthorities \cup {Nothing}]
  /\ left \in [Processes -> SUBSET Providers]
  /\ got \in [Processes -> [Providers -> Nat]]
  /\ at \in [Processes -> Providers \cup {Nobody}]
  /\ tries \in [Processes -> Nat] /\ mixed \in [Processes -> BOOLEAN]

\* A process that is through knows nothing of what it read.
Blank == [p \in Providers |-> 0]

Forget(self) ==
  /\ seen' = [seen EXCEPT ![self] = Nothing] /\ left' = [left EXCEPT ![self] = {}]
  /\ got' = [got EXCEPT ![self] = Blank] /\ at' = [at EXCEPT ![self] = Nobody]
  /\ tries' = [tries EXCEPT ![self] = 0] /\ mixed' = [mixed EXCEPT ![self] = FALSE]

\* A deployment from before the protocol, whatever documents lie about in it,
\* or a directory that is being made.
Init ==
  /\ manifest = Nothing
  /\ legacy = [p \in Providers |-> 1] /\ committed = legacy /\ version = 1
  /\ \/ /\ install = "none"
        /\ document \in [Providers -> {0, 1, Nothing, Damaged}]
     \/ /\ install = "seeding"
        /\ document = [p \in Providers |-> Nothing]
  /\ run_lock = Nobody
  /\ pc = [self \in Processes |-> "idle"]
  /\ seen = [self \in Processes |-> Nothing]
  /\ left = [self \in Processes |-> {}]
  /\ got = [self \in Processes |-> Blank]
  /\ at = [self \in Processes |-> Nobody]
  /\ tries = [self \in Processes |-> 0] /\ mixed = [self \in Processes |-> FALSE]

-----------------------------------------------------------------------------
Go(self, place) == pc' = [pc EXCEPT ![self] = place]

\* The one mapping from authority to backend, store_for.
Stored(authority, p) ==
  IF authority.backend = "json" THEN document[p] ELSE legacy[p]

Other(backend) == IF backend = "json" THEN "legacy" ELSE "json"

Release(self) ==
  /\ run_lock' = IF run_lock = self THEN Nobody ELSE run_lock
  /\ Go(self, "idle")
  /\ Forget(self)

\* The process dies, or an error ends it.
Crash(self) ==
  /\ pc[self] \notin {"idle", "alarm"}
  /\ Release(self)
  /\ UNCHANGED <<disk, version, committed, install>>

\* acquire_run_lock, for a command or for a lifecycle verb.
Acquire(self, place) ==
  /\ pc[self] = "idle" /\ run_lock = Nobody
  /\ run_lock' = self
  /\ Go(self, place)
  /\ UNCHANGED <<disk, version, committed, install, local>>

Leave(self, places) ==
  /\ pc[self] \in places
  /\ Release(self)
  /\ UNCHANGED <<disk, version, committed, install>>

-----------------------------------------------------------------------------
(* Writers.                                                                *)

\* Mutant: a command writes without run.lock.
WriteStart_unlocked(self) ==
  /\ pc[self] = "idle"
  /\ Go(self, "write")
  /\ UNCHANGED <<disk, run_lock, version, committed, install, local>>

WriteStart(self) == Acquire(self, "write")

\* Without a manifest every load raises, and the command ends.
WriteEnd(self) == Leave(self, {"write"})

WriteLoad(self, p) ==
  /\ pc[self] = "write"
  /\ manifest # Nothing /\ version < MaxVersion
  /\ IF Stored(manifest, p) \in Nat
     THEN /\ got' = [got EXCEPT ![self][p] = Stored(manifest, p)]
          /\ at' = [at EXCEPT ![self] = p]
          /\ Go(self, "commit")
     ELSE Go(self, "alarm") /\ UNCHANGED <<got, at>>
  /\ UNCHANGED <<disk, run_lock, version, committed, install, seen, left, tries, mixed>>

\* commit: the authority, then the store's own check that nothing has changed.
CommitSelect(self) ==
  /\ pc[self] = "commit"
  /\ seen' = [seen EXCEPT ![self] = manifest]
  /\ Go(self, IF Stored(manifest, at[self]) = got[self][at[self]] THEN "publish" ELSE "alarm")
  /\ UNCHANGED <<disk, run_lock, version, committed, install, left, got, at, tries, mixed>>

CommitPublish(self) ==
  /\ pc[self] = "publish"
  /\ version' = version + 1
  /\ committed' = [committed EXCEPT ![at[self]] = version + 1]
  /\ IF seen[self].backend = "json"
     THEN document' = [document EXCEPT ![at[self]] = version + 1] /\ UNCHANGED legacy
     ELSE legacy' = [legacy EXCEPT ![at[self]] = version + 1] /\ UNCHANGED document
  /\ Go(self, "confirm")
  /\ UNCHANGED <<manifest, run_lock, install, local>>

\* The authority again: if it moved, the write may be in the wrong backend.
CommitConfirm(self) ==
  /\ pc[self] = "confirm"
  /\ IF manifest = seen[self] THEN Go(self, "write") /\ Forget(self)
     ELSE Go(self, "alarm") /\ UNCHANGED local
  /\ UNCHANGED <<disk, run_lock, version, committed, install>>

WriterStep(self) ==
  \/ WriteStart(self)
  \/ WriteEnd(self)
  \/ \E p \in Providers : WriteLoad(self, p)
  \/ CommitSelect(self)
  \/ CommitPublish(self)
  \/ CommitConfirm(self)

-----------------------------------------------------------------------------
(* Lifecycle verbs.                                                        *)

OperatorStart(self, verb) ==
  /\ manifest # Nothing => manifest.epoch < MaxEpoch
  /\ Acquire(self, verb)

\* A verb with nothing to do: no manifest (it raises), or the backend already
\* is what was asked for.
Idempotent(self) ==
  /\ \/ pc[self] = "cutover" /\ (manifest # Nothing => manifest.backend = "json")
     \/ pc[self] = "rollback" /\ (manifest # Nothing => manifest.backend = "legacy")
     \/ pc[self] = "bootstrap" /\ manifest # Nothing
  /\ Leave(self, {"cutover", "rollback", "bootstrap"})

\* The operator asserts that the deployment predates the protocol, truthfully.
Bootstrap(self) ==
  /\ pc[self] = "bootstrap"
  /\ manifest = Nothing /\ install = "none"
  /\ manifest' = [backend |-> "legacy", epoch |-> 0]
  /\ Release(self)
  /\ UNCHANGED <<legacy, document, version, committed, install>>

\* read_authority: the switch begins.
SwitchBegin(self) ==
  /\ manifest # Nothing
  /\ \/ pc[self] = "cutover" /\ manifest.backend = "legacy" /\ Go(self, "read")
     \/ pc[self] = "rollback" /\ manifest.backend = "json" /\ Go(self, "compare")
  /\ seen' = [seen EXCEPT ![self] = manifest]
  /\ left' = [left EXCEPT ![self] = Providers]
  /\ UNCHANGED <<disk, run_lock, version, committed, install, got, at, tries, mixed>>

\* One provider of a pass is done; after the last one the next pass begins.
Advance(self, p, next, remaining) ==
  LET rest == left[self] \ {p}
  IN  /\ left' = [left EXCEPT ![self] = IF rest = {} THEN remaining ELSE rest]
      /\ IF rest = {} THEN Go(self, next) ELSE UNCHANGED pc

CutoverRead(self, p) ==
  /\ pc[self] = "read" /\ p \in left[self]
  /\ got' = [got EXCEPT ![self][p] = legacy[p]]
  /\ Advance(self, p, "prepare", Providers)
  /\ UNCHANGED <<disk, run_lock, version, committed, install, seen, at, tries, mixed>>

\* prepare_provider_cutover: the slots are read again, and a document that says
\* something else, or nothing, is replaced.  One step: a seeder that links a
\* document in the middle of it is overwritten.
CutoverPrepare(self, p) ==
  /\ pc[self] = "prepare" /\ p \in left[self]
  /\ document' = [document EXCEPT ![p] = legacy[p]]
  /\ Advance(self, p, "verify", Providers)
  /\ UNCHANGED <<manifest, legacy, run_lock, version, committed, install, seen, got, at,
                 tries, mixed>>

\* Every document must decode to the state read in the first pass.
CutoverVerify(self, p) ==
  /\ pc[self] = "verify" /\ p \in left[self]
  /\ IF document[p] = got[self][p]
     THEN Advance(self, p, "flip", {})
     ELSE Go(self, "alarm") /\ UNCHANGED left
  /\ UNCHANGED <<disk, run_lock, version, committed, install, seen, got, at, tries, mixed>>

\* Mutant: rollback looks at no document.
RollbackCompare_unchecked(self, p) ==
  /\ pc[self] = "compare" /\ p \in left[self]
  /\ Advance(self, p, "flip", {})
  /\ UNCHANGED <<disk, run_lock, version, committed, install, seen, got, at, tries, mixed>>

RollbackCompare(self, p) ==
  /\ pc[self] = "compare" /\ p \in left[self]
  /\ document[p] = legacy[p]
  /\ Advance(self, p, "flip", {})
  /\ UNCHANGED <<disk, run_lock, version, committed, install, seen, got, at, tries, mixed>>

\* A document has diverged: rollback would not be a pure undo.
RollbackRefused(self, p) ==
  /\ p \in left[self] /\ document[p] # legacy[p]
  /\ Leave(self, {"compare"})

\* write_authority: the commit point of a switch.
Flip(self) ==
  /\ pc[self] = "flip"
  /\ manifest' = [backend |-> Other(seen[self].backend), epoch |-> seen[self].epoch + 1]
  /\ Go(self, "flipped")
  /\ UNCHANGED <<legacy, document, run_lock, version, committed, install, local>>

FlipConfirm(self) ==
  /\ pc[self] = "flipped"
  /\ IF manifest.backend = Other(seen[self].backend)
     THEN Release(self)
     ELSE Go(self, "alarm") /\ UNCHANGED <<run_lock, local>>
  /\ UNCHANGED <<disk, version, committed, install>>

OperatorStep(self) ==
  \/ \E verb \in {"cutover", "rollback", "bootstrap"} : OperatorStart(self, verb)
  \/ Idempotent(self)
  \/ Bootstrap(self)
  \/ SwitchBegin(self)
  \/ \E p \in Providers : \/ CutoverRead(self, p)
                          \/ CutoverPrepare(self, p)
                          \/ CutoverVerify(self, p)
                          \/ RollbackCompare(self, p)
                          \/ RollbackRefused(self, p)
  \/ Flip(self)
  \/ FlipConfirm(self)

-----------------------------------------------------------------------------
(* Readers: load and load_all of the router.                               *)

\* Without a manifest the read raises.
ReadBegin(self) ==
  /\ pc[self] \in {"idle", "again"}
  /\ manifest # Nothing
  /\ seen' = [seen EXCEPT ![self] = manifest]
  /\ tries' = [tries EXCEPT ![self] = IF pc[self] = "idle" THEN 1 ELSE @ + 1]
  /\ left' = [left EXCEPT ![self] = Providers]
  /\ mixed' = [mixed EXCEPT ![self] = FALSE]
  /\ Go(self, "load")
  /\ UNCHANGED <<disk, run_lock, version, committed, install, got, at>>

ReadLoad(self, p) ==
  /\ pc[self] = "load" /\ p \in left[self]
  /\ left' = [left EXCEPT ![self] = @ \ {p}]
  /\ mixed' = [mixed EXCEPT ![self] = @ \/ manifest # seen[self]]
  /\ IF Stored(seen[self], p) \in Nat
     THEN UNCHANGED pc
     ELSE Go(self, "alarm")
  /\ UNCHANGED <<disk, run_lock, version, committed, install, seen, got, at, tries>>

\* Mutant: the backends are compared, not the epochs.
same_backend(before, after) == before.backend = after.backend

\* BackendAuthority's equality.
same_authority(before, after) == before = after

ReadCheck(self) ==
  /\ pc[self] = "load" /\ left[self] = {}
  /\ IF same_authority(seen[self], manifest) THEN Go(self, "returned") /\ UNCHANGED local
     ELSE IF tries[self] < MAX_READ_ATTEMPTS THEN Go(self, "again") /\ UNCHANGED local
     ELSE Go(self, "idle") /\ Forget(self)
  /\ UNCHANGED <<disk, run_lock, version, committed, install>>

ReadReturn(self) ==
  /\ pc[self] = "returned"
  /\ Go(self, "idle") /\ Forget(self)
  /\ UNCHANGED <<disk, run_lock, version, committed, install>>

ReaderStep(self) ==
  \/ ReadBegin(self)
  \/ \E p \in Providers : ReadLoad(self, p)
  \/ ReadCheck(self)
  \/ ReadReturn(self)

-----------------------------------------------------------------------------
(* Seeders: the verb migrate, and a new installation.                      *)

\* Only under legacy authority; read once, at the start.
SeedBegin(self) ==
  /\ pc[self] = "idle"
  /\ manifest # Nothing /\ manifest.backend = "legacy"
  /\ left' = [left EXCEPT ![self] = Providers]
  /\ Go(self, "seed")
  /\ UNCHANGED <<disk, run_lock, version, committed, install, seen, got, at, tries, mixed>>

\* migrate_provider: the slots of a provider that has no document are read ...
SeedRead(self, p) ==
  /\ pc[self] = "seed" /\ p \in left[self]
  /\ left' = [left EXCEPT ![self] = @ \ {p}]
  /\ IF document[p] = Nothing
     THEN /\ got' = [got EXCEPT ![self][p] = legacy[p]]
          /\ at' = [at EXCEPT ![self] = p]
          /\ Go(self, "link")
     ELSE UNCHANGED <<got, at, pc>>
  /\ UNCHANGED <<disk, run_lock, version, committed, install, seen, tries, mixed>>

\* ... and the document is linked, unless there is one by now.
SeedLink(self) ==
  /\ pc[self] = "link"
  /\ document' = [document EXCEPT ![at[self]] = IF @ = Nothing THEN got[self][at[self]] ELSE @]
  /\ Go(self, "seed")
  /\ UNCHANGED <<manifest, legacy, run_lock, version, committed, install, local>>

\* The roster of the verb is done; it may be any part of the whole.
SeedEnd(self) == Leave(self, {"seed"})

SeederStep(self) ==
  \/ SeedBegin(self)
  \/ \E p \in Providers : SeedRead(self, p)
  \/ SeedLink(self)
  \/ SeedEnd(self)

InstallSeed(p) ==
  /\ install = "seeding" /\ document[p] = Nothing
  /\ document' = [document EXCEPT ![p] = legacy[p]]
  /\ UNCHANGED <<manifest, legacy, run_lock, version, committed, install, pc, local>>

\* The authority is published last.
InstallPublish ==
  /\ install = "seeding" /\ \A p \in Providers : document[p] # Nothing
  /\ manifest' = [backend |-> "json", epoch |-> 0]
  /\ install' = "done"
  /\ UNCHANGED <<legacy, document, run_lock, version, committed, pc, local>>

InstallDies ==
  /\ install = "seeding"
  /\ install' = "dead"
  /\ UNCHANGED <<disk, run_lock, version, committed, pc, local>>

-----------------------------------------------------------------------------
Next ==
  \/ \E self \in Processes : Crash(self)
  \/ \E self \in Writers : WriterStep(self)
  \/ \E self \in Operators : OperatorStep(self)
  \/ \E self \in Readers : ReaderStep(self)
  \/ \E self \in Seeders : SeederStep(self)
  \/ \E p \in Providers : InstallSeed(p)
  \/ InstallPublish
  \/ InstallDies

Spec == Init /\ [][Next]_vars
-----------------------------------------------------------------------------
\* The backend the manifest names holds, for every provider, the state the
\* last commit published: no cutover, rollback, seed or installation, and no
\* death in the middle of one, brings back a state that has been superseded,
\* or hands a provider to a backend that cannot serve it.
OwnerIsCurrent ==
  manifest # Nothing => \A p \in Providers : Stored(manifest, p) = committed[p]

\* router.load_all: all states of a roster it returns were read from their
\* owner, in one epoch.  A reader holds no lock; switches go on around it.
RosterOfOneEpoch ==
  \A self \in Readers : pc[self] = "returned" => ~mixed[self]

\* run.lock keeps every precondition the store, the router and the cutover
\* check a second time: none of them ever finds it broken, and no load finds
\* the owner's document missing or damaged.
NoAlarm == \A self \in Processes : pc[self] # "alarm"
=============================================================================
