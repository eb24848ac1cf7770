----------------------- MODULE BackendAuthority_proofs -----------------------
(***************************************************************************)
(* Theorems about BackendAuthority, for any providers and any processes.   *)
(* The inductive invariant says what the disk holds (DiskInv), what each   *)
(* process knows of it at each place (ProcessInv), and who may change it   *)
(* (the holder of run.lock).  The proof of a step has two parts: the       *)
(* process that moves, by its actions; and every other process, by the     *)
(* four ways in which the disk can change under it (Undisturbed).          *)
(***************************************************************************)
EXTENDS BackendAuthority, TLAPS

DiskInv ==
  /\ manifest # Nothing /\ manifest.backend = "json" => document = committed
  /\ manifest = Nothing \/ manifest.backend = "legacy" => legacy = committed
  /\ install = "seeding" =>
       /\ manifest = Nothing
       /\ \A p \in Providers : document[p] \in {Nothing, committed[p]}

\* A writer holds the state the owner has.
WriterInv(self) ==
  /\ pc[self] \in {"commit", "publish"} => at[self] \in Providers
  /\ pc[self] = "commit" => got[self][at[self]] = committed[at[self]]
  /\ pc[self] \in {"publish", "confirm"} => seen[self] = manifest

\* What a switch has read is still so, and what it has written is there.
SwitchInv(self) ==
  /\ pc[self] \in {"read", "prepare", "verify", "compare", "flip"} => seen[self] = manifest
  /\ pc[self] \in {"read", "prepare", "verify"} =>
       /\ manifest.backend = "legacy"
       /\ \A p \in Providers : (pc[self] = "read" /\ p \in left[self]) \/ got[self][p] = legacy[p]
  /\ pc[self] = "compare" => manifest.backend = "json"
  /\ pc[self] \in {"prepare", "compare"} =>
       \A p \in Providers \ left[self] : document[p] = legacy[p]
  /\ pc[self] \in {"verify", "flip"} => \A p \in Providers : document[p] = legacy[p]
  /\ pc[self] = "flipped" => manifest.backend = Other(seen[self].backend)

\* What a reader has seen is the manifest, or an older epoch.
ReaderInv(self) ==
  /\ pc[self] = "load" =>
       /\ seen[self] # Nothing
       /\ seen[self] = manifest \/ seen[self].epoch < manifest.epoch
       /\ mixed[self] => seen[self].epoch < manifest.epoch
       /\ seen[self].backend = "json" => \A p \in Providers : document[p] \in Nat
  /\ pc[self] = "returned" => ~mixed[self]
  /\ pc[self] = "link" => at[self] \in Providers

ProcessInv(self) ==
  /\ pc[self] \in Locked => run_lock = self
  /\ pc[self] \notin {"idle", "write", "cutover", "rollback", "bootstrap"} => manifest # Nothing
  /\ pc[self] # "alarm"
  /\ WriterInv(self) /\ SwitchInv(self) /\ ReaderInv(self)

IInv == TypeOK /\ DiskInv /\ \A self \in Processes : ProcessInv(self)

-----------------------------------------------------------------------------
(* A process that does not move.                                           *)

Untouched(s) ==
  /\ pc'[s] = pc[s] /\ seen'[s] = seen[s] /\ left'[s] = left[s]
  /\ got'[s] = got[s] /\ at'[s] = at[s] /\ mixed'[s] = mixed[s]
  /\ pc[s] \in Locked => run_lock' = run_lock

\* The disk stays, or documents appear where there were none.
Quiet ==
  /\ UNCHANGED <<manifest, legacy, committed>>
  /\ \A p \in Providers : document[p] # Nothing => document'[p] = document[p]

\* The holder of run.lock writes: the manifest stays, or enters its next epoch.
Held ==
  /\ manifest # Nothing /\ manifest' # Nothing
  /\ manifest' = manifest \/ manifest'.epoch = manifest.epoch + 1
  /\ \A p \in Providers : document[p] \in Nat => document'[p] \in Nat

LEMMA UndisturbedQuiet ==
  ASSUME IInv, NEW s \in Processes, Untouched(s), Quiet
  PROVE  ProcessInv(s)'
<1>1. ProcessInv(s) /\ TypeOK
  BY DEF IInv
<1>2. \A p \in Providers : legacy[p] \in Nat /\ Nothing \notin Nat
  BY <1>1, AuthorityAssumption DEF TypeOK
<1>3. WriterInv(s)'
  BY <1>1 DEF Untouched, Quiet, ProcessInv, WriterInv, Locked, Writing
<1>4. SwitchInv(s)'
  BY <1>1, <1>2 DEF Untouched, Quiet, ProcessInv, SwitchInv, Other
<1>5. ReaderInv(s)'
  BY <1>1, <1>2 DEF Untouched, Quiet, ProcessInv, ReaderInv
<1> QED
  BY <1>1, <1>3, <1>4, <1>5 DEF ProcessInv, Untouched, Quiet

LEMMA UndisturbedHeld ==
  ASSUME IInv, NEW s \in Processes, Untouched(s), Held, pc[s] \notin Locked
  PROVE  ProcessInv(s)'
<1>1. ProcessInv(s) /\ TypeOK
  BY DEF IInv
<1>2. WriterInv(s)' /\ SwitchInv(s)'
  BY DEF Untouched, WriterInv, SwitchInv, Locked, Writing, Switching
<1>3. /\ manifest \in BackendAuthorities
      /\ seen[s] # Nothing => seen[s] \in BackendAuthorities
  BY <1>1 DEF TypeOK, Held
<1>4. ReaderInv(s)'
  <2>1. ASSUME pc[s] = "load"
        PROVE  /\ seen[s] # Nothing
               /\ seen[s] = manifest' \/ seen[s].epoch < manifest'.epoch
               /\ mixed[s] => seen[s].epoch < manifest'.epoch
    <3>1. ReaderInv(s)
      BY <1>1 DEF ProcessInv
    <3>2. seen[s].epoch \in Nat /\ manifest.epoch \in Nat
      BY <1>3, <2>1, <3>1 DEF ReaderInv, BackendAuthorities
    <3>3. seen[s] # Nothing /\ (seen[s] = manifest \/ seen[s].epoch < manifest.epoch)
          /\ (mixed[s] => seen[s].epoch < manifest.epoch)
      BY <2>1, <3>1 DEF ReaderInv
    <3> QED
      BY <3>2, <3>3 DEF Held
  <2>2. ASSUME pc[s] = "load", seen[s].backend = "json", NEW p \in Providers
        PROVE  document'[p] \in Nat
    BY <1>1, <2>2 DEF ProcessInv, ReaderInv, Held
  <2> QED
    BY <1>1, <2>1, <2>2 DEF Untouched, ProcessInv, ReaderInv
<1> QED
  BY <1>1, <1>2, <1>4 DEF ProcessInv, Untouched, Held

LEMMA UndisturbedUnmanaged ==
  ASSUME IInv, NEW s \in Processes, Untouched(s), manifest = Nothing
  PROVE  ProcessInv(s)'
BY DEF IInv, Untouched, ProcessInv, WriterInv, SwitchInv, ReaderInv, Locked, Writing,
       Switching

-----------------------------------------------------------------------------
(* A process that moves.                                                   *)

\* Only self moves, and only it can have had the lock, or have it now.
Elsewhere(self) ==
  /\ \A s \in Processes \ {self} :
       /\ pc'[s] = pc[s] /\ seen'[s] = seen[s] /\ left'[s] = left[s]
       /\ got'[s] = got[s] /\ at'[s] = at[s] /\ mixed'[s] = mixed[s]
  /\ run_lock' = run_lock \/ run_lock \in {self, Nobody}

\* A step of self that keeps its part keeps the invariant.
LEMMA StepOfOne ==
  ASSUME IInv, NEW self \in Processes, Elsewhere(self),
         Quiet \/ manifest = Nothing \/ (Held /\ run_lock = self),
         TypeOK', DiskInv', ProcessInv(self)'
  PROVE  IInv'
<1>1. ASSUME NEW s \in Processes \ {self} PROVE ProcessInv(s)'
  <2>1. ProcessInv(s) /\ s # self /\ s # Nobody
    BY AuthorityAssumption DEF IInv
  <2>2. Untouched(s)
    BY <2>1 DEF Elsewhere, Untouched, ProcessInv
  <2>3. CASE Quiet
    BY <2>2, <2>3, UndisturbedQuiet
  <2>4. CASE manifest = Nothing
    BY <2>2, <2>4, UndisturbedUnmanaged
  <2>5. CASE Held /\ run_lock = self
    <3>1. pc[s] \notin Locked
      BY <2>1, <2>5 DEF ProcessInv
    <3> QED
      BY <2>2, <2>5, <3>1, UndisturbedHeld
  <2> QED
    BY <2>3, <2>4, <2>5
<1> QED
  BY <1>1 DEF IInv

LEMMA DiskStays ==
  ASSUME IInv, UNCHANGED <<disk, committed, install>>
  PROVE  DiskInv' /\ Quiet
BY DEF IInv, DiskInv, Quiet, disk

LEMMA Releasing ==
  ASSUME IInv, NEW self \in Processes, Release(self)
  PROVE  /\ Elsewhere(self)
         /\ pc'[self] = "idle"
         /\ run_lock' \in Processes \cup {Nobody}
         /\ pc' \in [Processes -> Locked \cup Unlocked \cup {"alarm"}]
         /\ seen' \in [Processes -> BackendAuthorities \cup {Nothing}]
         /\ left' \in [Processes -> SUBSET Providers]
         /\ got' \in [Processes -> [Providers -> Nat]]
         /\ at' \in [Processes -> Providers \cup {Nobody}]
         /\ tries' \in [Processes -> Nat] /\ mixed' \in [Processes -> BOOLEAN]
<1>1. TypeOK
  BY DEF IInv
<1>2. Blank \in [Providers -> Nat] /\ "idle" \in Unlocked
  BY DEF Blank, Unlocked
<1> QED
  BY <1>1, <1>2 DEF TypeOK, Release, Go, Forget, Elsewhere

\* A process at rest has nothing to keep.
LEMMA AtRest ==
  ASSUME NEW self \in Processes, pc'[self] = "idle"
  PROVE  ProcessInv(self)'
BY DEF ProcessInv, WriterInv, SwitchInv, ReaderInv, Locked, Writing, Switching

LEMMA CrashStep ==
  ASSUME IInv, NEW self \in Processes, Crash(self)
  PROVE  IInv'
<1>1. TypeOK'
  BY Releasing DEF Crash, IInv, TypeOK, disk
<1> QED
  BY <1>1, Releasing, AtRest, DiskStays, StepOfOne DEF Crash

LEMMA LeaveStep ==
  ASSUME IInv, NEW self \in Processes, NEW places, Leave(self, places)
  PROVE  IInv'
<1>1. TypeOK'
  BY Releasing DEF Leave, IInv, TypeOK, disk
<1> QED
  BY <1>1, Releasing, AtRest, DiskStays, StepOfOne DEF Leave

LEMMA AcquireStep ==
  ASSUME IInv, NEW self \in Processes,
         NEW place \in {"write", "cutover", "rollback", "bootstrap"},
         Acquire(self, place)
  PROVE  IInv'
<1>1. TypeOK /\ ProcessInv(self)
  BY DEF IInv
<1>2. TypeOK'
  BY <1>1 DEF Acquire, Go, TypeOK, disk, local, Locked, Writing, Switching
<1>3. ProcessInv(self)'
  BY <1>1 DEF Acquire, Go, TypeOK, ProcessInv, WriterInv, SwitchInv, ReaderInv
<1>4. Elsewhere(self)
  BY <1>1 DEF Acquire, Go, TypeOK, Elsewhere, local
<1> QED
  BY <1>2, <1>3, <1>4, DiskStays, StepOfOne DEF Acquire

\* A step of self that only reads, and keeps or moves what it knows.
LEMMA ReadingStep ==
  ASSUME IInv, NEW self \in Processes, Elsewhere(self),
         UNCHANGED <<disk, version, committed, install>>,
         TypeOK', ProcessInv(self)'
  PROVE  IInv'
BY DiskStays, StepOfOne

\* The owner's state is the last one committed, and decodes.
LEMMA OwnerHolds ==
  ASSUME IInv, manifest # Nothing, NEW p \in Providers
  PROVE  Stored(manifest, p) = committed[p] /\ committed[p] \in Nat
<1>1. manifest.backend \in {"legacy", "json"}
  BY DEF IInv, TypeOK, BackendAuthorities, Backends
<1> QED
  BY <1>1 DEF IInv, TypeOK, DiskInv, Stored

-----------------------------------------------------------------------------
(* Writers.                                                                *)

LEMMA WriteLoadStep ==
  ASSUME IInv, NEW self \in Processes, NEW p \in Providers, WriteLoad(self, p)
  PROVE  IInv'
<1>1. TypeOK /\ ProcessInv(self) /\ pc[self] = "write"
  BY DEF IInv, WriteLoad
<1>2. Stored(manifest, p) = committed[p] /\ committed[p] \in Nat
  BY OwnerHolds DEF WriteLoad
<1>3. /\ got' = [got EXCEPT ![self][p] = committed[p]]
      /\ at' = [at EXCEPT ![self] = p]
      /\ pc' = [pc EXCEPT ![self] = "commit"]
  BY <1>2 DEF WriteLoad, Go
<1>4. UNCHANGED <<disk, run_lock, version, committed, install, seen, left, tries, mixed>>
  BY DEF WriteLoad
<1>5. TypeOK'
  BY <1>1, <1>2, <1>3, <1>4 DEF TypeOK, disk, Locked, Writing
<1>6. ProcessInv(self)'
  <2>1. pc'[self] = "commit" /\ at'[self] = p /\ got'[self][p] = committed[p]
    BY <1>1, <1>3 DEF TypeOK
  <2>2. run_lock' = self /\ manifest' # Nothing
    BY <1>1, <1>4 DEF ProcessInv, Locked, Writing, WriteLoad, disk
  <2> QED
    BY <1>4, <2>1, <2>2 DEF ProcessInv, WriterInv, SwitchInv, ReaderInv
<1>7. Elsewhere(self)
  BY <1>1, <1>3, <1>4 DEF TypeOK, Elsewhere
<1> QED
  BY <1>4, <1>5, <1>6, <1>7, ReadingStep

LEMMA CommitSelectStep ==
  ASSUME IInv, NEW self \in Processes, CommitSelect(self)
  PROVE  IInv'
<1>1. TypeOK /\ ProcessInv(self) /\ pc[self] = "commit"
  BY DEF IInv, CommitSelect
<1>2. manifest # Nothing /\ at[self] \in Providers /\ got[self][at[self]] = committed[at[self]]
  BY <1>1 DEF ProcessInv, WriterInv
<1>3. pc' = [pc EXCEPT ![self] = "publish"] /\ seen' = [seen EXCEPT ![self] = manifest]
  BY <1>2, OwnerHolds DEF CommitSelect, Go
<1>4. UNCHANGED <<disk, run_lock, version, committed, install, left, got, at, tries, mixed>>
  BY DEF CommitSelect
<1>5. TypeOK'
  BY <1>1, <1>3, <1>4 DEF TypeOK, disk, Locked, Writing
<1>6. ProcessInv(self)'
  BY <1>1, <1>2, <1>3, <1>4
     DEF TypeOK, disk, ProcessInv, WriterInv, SwitchInv, ReaderInv, Locked, Writing
<1>7. Elsewhere(self)
  BY <1>1, <1>3, <1>4 DEF TypeOK, Elsewhere
<1> QED
  BY <1>4, <1>5, <1>6, <1>7, ReadingStep

LEMMA CommitPublishStep ==
  ASSUME IInv, NEW self \in Processes, CommitPublish(self)
  PROVE  IInv'
<1>1. TypeOK /\ DiskInv /\ ProcessInv(self) /\ pc[self] = "publish"
  BY DEF IInv, CommitPublish
<1>2. /\ manifest # Nothing /\ run_lock = self
      /\ at[self] \in Providers /\ seen[self] = manifest
  BY <1>1 DEF ProcessInv, WriterInv, Locked, Writing
<1>3. manifest.backend \in {"legacy", "json"} /\ version + 1 \in Nat
  BY <1>1, <1>2 DEF TypeOK, BackendAuthorities, Backends
<1>4. /\ pc' = [pc EXCEPT ![self] = "confirm"]
      /\ version' = version + 1
      /\ committed' = [committed EXCEPT ![at[self]] = version + 1]
      /\ UNCHANGED <<manifest, run_lock, install, local>>
  BY DEF CommitPublish, Go
<1>5. IF manifest.backend = "json"
      THEN document' = [document EXCEPT ![at[self]] = version + 1] /\ UNCHANGED legacy
      ELSE legacy' = [legacy EXCEPT ![at[self]] = version + 1] /\ UNCHANGED document
  BY <1>2 DEF CommitPublish
<1>6. TypeOK'
  <2>1. legacy' \in [Providers -> Nat] /\ document' \in [Providers -> Documents]
    BY <1>1, <1>3, <1>5 DEF TypeOK, Documents
  <2>2. version' \in Nat /\ committed' \in [Providers -> Nat]
    BY <1>1, <1>3, <1>4 DEF TypeOK
  <2>3. pc' \in [Processes -> Locked \cup Unlocked \cup {"alarm"}]
    BY <1>1, <1>4 DEF TypeOK, Locked, Writing
  <2> QED
    BY <1>1, <1>4, <2>1, <2>2, <2>3 DEF TypeOK, local
<1>7. DiskInv'
  BY <1>1, <1>2, <1>3, <1>4, <1>5 DEF DiskInv
<1>8. ProcessInv(self)'
  BY <1>1, <1>2, <1>4
     DEF TypeOK, local, ProcessInv, WriterInv, SwitchInv, ReaderInv, Locked, Writing
<1>9. Elsewhere(self)
  BY <1>1, <1>4 DEF TypeOK, Elsewhere, local
<1>10. Held
  BY <1>1, <1>2, <1>3, <1>4, <1>5 DEF Held, TypeOK
<1> QED
  BY <1>2, <1>6, <1>7, <1>8, <1>9, <1>10, StepOfOne

LEMMA CommitConfirmStep ==
  ASSUME IInv, NEW self \in Processes, CommitConfirm(self)
  PROVE  IInv'
<1>1. TypeOK /\ ProcessInv(self) /\ pc[self] = "confirm"
  BY DEF IInv, CommitConfirm
<1>2. manifest = seen[self] /\ run_lock = self
  BY <1>1 DEF ProcessInv, WriterInv, Locked, Writing
<1>3. /\ Go(self, "write") /\ Forget(self)
      /\ UNCHANGED <<disk, run_lock, version, committed, install>>
  BY <1>2 DEF CommitConfirm
<1>4. Blank \in [Providers -> Nat]
  BY DEF Blank
<1>5. TypeOK'
  BY <1>1, <1>3, <1>4 DEF TypeOK, Go, Forget, disk, Locked, Writing
<1>6. ProcessInv(self)'
  BY <1>1, <1>2, <1>3 DEF TypeOK, Go, ProcessInv, WriterInv, SwitchInv, ReaderInv
<1>7. Elsewhere(self)
  BY <1>1, <1>3 DEF TypeOK, Go, Forget, Elsewhere
<1> QED
  BY <1>3, <1>5, <1>6, <1>7, ReadingStep

LEMMA WriterKeeps ==
  ASSUME IInv, NEW self \in Processes, WriterStep(self)
  PROVE  IInv'
BY AcquireStep, LeaveStep, WriteLoadStep, CommitSelectStep, CommitPublishStep,
   CommitConfirmStep DEF WriterStep, WriteStart, WriteEnd

-----------------------------------------------------------------------------
(* Lifecycle verbs.                                                        *)

LEMMA BootstrapStep ==
  ASSUME IInv, NEW self \in Processes, Bootstrap(self)
  PROVE  IInv'
<1>1. TypeOK /\ DiskInv /\ manifest = Nothing
  BY DEF IInv, Bootstrap
<1>2. /\ manifest' = [backend |-> "legacy", epoch |-> 0] /\ Release(self)
      /\ UNCHANGED <<legacy, document, version, committed, install>> /\ install = "none"
  BY DEF Bootstrap
<1>3. TypeOK'
  <2>1. manifest' \in BackendAuthorities
    BY <1>2 DEF BackendAuthorities, Backends
  <2> QED
    BY <1>1, <1>2, <2>1, Releasing DEF TypeOK
<1>4. DiskInv'
  BY <1>1, <1>2 DEF DiskInv
<1> QED
  BY <1>1, <1>2, <1>3, <1>4, Releasing, AtRest, StepOfOne

LEMMA SwitchBeginStep ==
  ASSUME IInv, NEW self \in Processes, SwitchBegin(self)
  PROVE  IInv'
<1>1. TypeOK /\ ProcessInv(self) /\ pc[self] \in {"cutover", "rollback"}
  BY DEF IInv, SwitchBegin
<1>2. /\ manifest # Nothing
      /\ \/ manifest.backend = "legacy" /\ pc' = [pc EXCEPT ![self] = "read"]
         \/ manifest.backend = "json" /\ pc' = [pc EXCEPT ![self] = "compare"]
      /\ seen' = [seen EXCEPT ![self] = manifest]
      /\ left' = [left EXCEPT ![self] = Providers]
      /\ UNCHANGED <<disk, run_lock, version, committed, install, got, at, tries, mixed>>
  BY DEF SwitchBegin, Go
<1>3. TypeOK'
  BY <1>1, <1>2 DEF TypeOK, disk, Locked, Switching
<1>4. ProcessInv(self)'
  BY <1>1, <1>2
     DEF TypeOK, disk, ProcessInv, WriterInv, SwitchInv, ReaderInv, Locked, Switching
<1>5. Elsewhere(self)
  BY <1>1, <1>2 DEF TypeOK, Elsewhere
<1> QED
  BY <1>2, <1>3, <1>4, <1>5, ReadingStep

\* What a pass over the providers leaves behind, wherever it stands.
LEMMA Advancing ==
  ASSUME TypeOK, NEW self \in Processes, NEW p \in left[self],
         NEW next \in Switching, NEW remaining \in SUBSET Providers,
         Advance(self, p, next, remaining)
  PROVE  /\ pc' \in [Processes -> Locked \cup Unlocked \cup {"alarm"}]
         /\ left' \in [Processes -> SUBSET Providers]
         /\ \A s \in Processes \ {self} : pc'[s] = pc[s] /\ left'[s] = left[s]
         /\ \/ /\ pc'[self] = pc[self] /\ left'[self] = left[self] \ {p}
            \/ /\ left[self] = {p} /\ pc'[self] = next /\ left'[self] = remaining
BY DEF TypeOK, Advance, Go, Locked

LEMMA CutoverReadStep ==
  ASSUME IInv, NEW self \in Processes, NEW p \in Providers, CutoverRead(self, p)
  PROVE  IInv'
<1>1. TypeOK /\ ProcessInv(self) /\ pc[self] = "read" /\ p \in left[self]
  BY DEF IInv, CutoverRead
<1>2. /\ got' = [got EXCEPT ![self][p] = legacy[p]]
      /\ Advance(self, p, "prepare", Providers)
      /\ UNCHANGED <<disk, run_lock, version, committed, install, seen, at, tries, mixed>>
  BY DEF CutoverRead
<1>3. "prepare" \in Switching /\ Providers \in SUBSET Providers
  BY DEF Switching
<1>4. /\ pc' \in [Processes -> Locked \cup Unlocked \cup {"alarm"}]
      /\ left' \in [Processes -> SUBSET Providers]
      /\ \A s \in Processes \ {self} : pc'[s] = pc[s] /\ left'[s] = left[s]
      /\ \/ pc'[self] = "read" /\ left'[self] = left[self] \ {p}
         \/ left[self] = {p} /\ pc'[self] = "prepare" /\ left'[self] = Providers
  BY <1>1, <1>2, <1>3, Advancing
<1>5. TypeOK'
  BY <1>1, <1>2, <1>4 DEF TypeOK, disk
<1>6. ProcessInv(self)'
  <2>1. /\ run_lock = self /\ manifest # Nothing /\ manifest.backend = "legacy"
        /\ seen[self] = manifest
        /\ \A q \in Providers : q \in left[self] \/ got[self][q] = legacy[q]
    BY <1>1 DEF ProcessInv, SwitchInv, Locked, Switching
  <2>2. \A q \in Providers : q \in left[self] \ {p} \/ got'[self][q] = legacy[q]
    BY <1>1, <1>2, <2>1 DEF TypeOK
  <2>3. run_lock' = self /\ manifest' = manifest /\ legacy' = legacy
        /\ seen'[self] = manifest
    BY <1>2, <2>1 DEF disk
  <2>4. SwitchInv(self)'
    BY <1>4, <2>1, <2>2, <2>3 DEF SwitchInv
  <2> QED
    BY <1>4, <2>1, <2>3, <2>4 DEF ProcessInv, WriterInv, ReaderInv
<1>7. Elsewhere(self)
  BY <1>1, <1>2, <1>4 DEF TypeOK, Elsewhere
<1> QED
  BY <1>2, <1>5, <1>6, <1>7, ReadingStep

LEMMA CutoverPrepareStep ==
  ASSUME IInv, NEW self \in Processes, NEW p \in Providers, CutoverPrepare(self, p)
  PROVE  IInv'
<1>1. TypeOK /\ DiskInv /\ ProcessInv(self) /\ pc[self] = "prepare" /\ p \in left[self]
  BY DEF IInv, CutoverPrepare
<1>2. /\ document' = [document EXCEPT ![p] = legacy[p]]
      /\ Advance(self, p, "verify", Providers)
      /\ UNCHANGED <<manifest, legacy, run_lock, version, committed, install, seen, got, at,
                     tries, mixed>>
  BY DEF CutoverPrepare
<1>3. "verify" \in Switching /\ Providers \in SUBSET Providers
  BY DEF Switching
<1>4. /\ pc' \in [Processes -> Locked \cup Unlocked \cup {"alarm"}]
      /\ left' \in [Processes -> SUBSET Providers]
      /\ \A s \in Processes \ {self} : pc'[s] = pc[s] /\ left'[s] = left[s]
      /\ \/ pc'[self] = "prepare" /\ left'[self] = left[self] \ {p}
         \/ left[self] = {p} /\ pc'[self] = "verify" /\ left'[self] = Providers
  BY <1>1, <1>2, <1>3, Advancing
<1>5. TypeOK'
  BY <1>1, <1>2, <1>4 DEF TypeOK, Documents
<1>6. /\ run_lock = self /\ manifest # Nothing /\ manifest.backend = "legacy"
      /\ seen[self] = manifest
      /\ \A q \in Providers : got[self][q] = legacy[q]
      /\ \A q \in Providers \ left[self] : document[q] = legacy[q]
  BY <1>1 DEF ProcessInv, SwitchInv, Locked, Switching
<1>7. ProcessInv(self)'
  <2>1. \A q \in Providers \ (left[self] \ {p}) : document'[q] = legacy[q]
    BY <1>1, <1>2, <1>6 DEF TypeOK
  <2>2. SwitchInv(self)'
    BY <1>2, <1>4, <1>6, <2>1 DEF SwitchInv
  <2> QED
    BY <1>2, <1>4, <1>6, <2>2 DEF ProcessInv, WriterInv, ReaderInv
<1>8. DiskInv'
  BY <1>1, <1>2, <1>6 DEF DiskInv
<1>9. Elsewhere(self)
  BY <1>2, <1>4 DEF Elsewhere
<1>10. Held
  BY <1>1, <1>2, <1>6 DEF Held, TypeOK
<1> QED
  BY <1>5, <1>6, <1>7, <1>8, <1>9, <1>10, StepOfOne

LEMMA CutoverVerifyStep ==
  ASSUME IInv, NEW self \in Processes, NEW p \in Providers, CutoverVerify(self, p)
  PROVE  IInv'
<1>1. TypeOK /\ ProcessInv(self) /\ pc[self] = "verify" /\ p \in left[self]
  BY DEF IInv, CutoverVerify
<1>2. /\ run_lock = self /\ manifest # Nothing /\ manifest.backend = "legacy"
      /\ seen[self] = manifest
      /\ \A q \in Providers : got[self][q] = legacy[q]
      /\ \A q \in Providers : document[q] = legacy[q]
  BY <1>1 DEF ProcessInv, SwitchInv, Locked, Switching
<1>3. /\ Advance(self, p, "flip", {})
      /\ UNCHANGED <<disk, run_lock, version, committed, install, seen, got, at, tries, mixed>>
  BY <1>2 DEF CutoverVerify
<1>4. "flip" \in Switching /\ {} \in SUBSET Providers
  BY DEF Switching
<1>5. /\ pc' \in [Processes -> Locked \cup Unlocked \cup {"alarm"}]
      /\ left' \in [Processes -> SUBSET Providers]
      /\ \A s \in Processes \ {self} : pc'[s] = pc[s] /\ left'[s] = left[s]
      /\ pc'[self] \in {"verify", "flip"}
  BY <1>1, <1>3, <1>4, Advancing
<1>6. TypeOK'
  BY <1>1, <1>3, <1>5 DEF TypeOK, disk
<1>7. ProcessInv(self)'
  BY <1>2, <1>3, <1>5 DEF disk, ProcessInv, WriterInv, SwitchInv, ReaderInv
<1>8. Elsewhere(self)
  BY <1>3, <1>5 DEF Elsewhere
<1> QED
  BY <1>3, <1>6, <1>7, <1>8, ReadingStep

LEMMA RollbackCompareStep ==
  ASSUME IInv, NEW self \in Processes, NEW p \in Providers, RollbackCompare(self, p)
  PROVE  IInv'
<1>1. TypeOK /\ ProcessInv(self) /\ pc[self] = "compare" /\ p \in left[self]
  BY DEF IInv, RollbackCompare
<1>2. /\ run_lock = self /\ manifest # Nothing /\ manifest.backend = "json"
      /\ seen[self] = manifest
      /\ \A q \in Providers \ left[self] : document[q] = legacy[q]
  BY <1>1 DEF ProcessInv, SwitchInv, Locked, Switching
<1>3. /\ document[p] = legacy[p]
      /\ Advance(self, p, "flip", {})
      /\ UNCHANGED <<disk, run_lock, version, committed, install, seen, got, at, tries, mixed>>
  BY DEF RollbackCompare
<1>4. "flip" \in Switching /\ {} \in SUBSET Providers
  BY DEF Switching
<1>5. /\ pc' \in [Processes -> Locked \cup Unlocked \cup {"alarm"}]
      /\ left' \in [Processes -> SUBSET Providers]
      /\ \A s \in Processes \ {self} : pc'[s] = pc[s] /\ left'[s] = left[s]
      /\ \/ pc'[self] = "compare" /\ left'[self] = left[self] \ {p}
         \/ left[self] = {p} /\ pc'[self] = "flip"
  BY <1>1, <1>3, <1>4, Advancing
<1>6. TypeOK'
  BY <1>1, <1>3, <1>5 DEF TypeOK, disk
<1>7. ProcessInv(self)'
  <2>1. SwitchInv(self)'
    BY <1>2, <1>3, <1>5 DEF disk, SwitchInv
  <2> QED
    BY <1>2, <1>3, <1>5, <2>1 DEF disk, ProcessInv, WriterInv, ReaderInv
<1>8. Elsewhere(self)
  BY <1>3, <1>5 DEF Elsewhere
<1> QED
  BY <1>3, <1>6, <1>7, <1>8, ReadingStep

\* The commit point: both backends hold the same states, so either may own.
LEMMA FlipStep ==
  ASSUME IInv, NEW self \in Processes, Flip(self)
  PROVE  IInv'
<1>1. TypeOK /\ DiskInv /\ ProcessInv(self) /\ pc[self] = "flip"
  BY DEF IInv, Flip
<1>2. /\ run_lock = self /\ manifest # Nothing /\ seen[self] = manifest
      /\ \A q \in Providers : document[q] = legacy[q]
  BY <1>1 DEF ProcessInv, SwitchInv, Locked, Switching
<1>3. /\ manifest' = [backend |-> Other(manifest.backend), epoch |-> manifest.epoch + 1]
      /\ pc' = [pc EXCEPT ![self] = "flipped"]
      /\ UNCHANGED <<legacy, document, run_lock, version, committed, install, local>>
  BY <1>2 DEF Flip, Go
<1>4. /\ manifest.epoch \in Nat /\ manifest.backend \in Backends
      /\ Other(manifest.backend) \in Backends
  BY <1>1, <1>2 DEF TypeOK, BackendAuthorities, Backends, Other
<1>5. manifest' \in BackendAuthorities /\ manifest' # Nothing
  <2>1. manifest' \in BackendAuthorities
    BY <1>3, <1>4 DEF BackendAuthorities
  <2> QED
    BY <2>1, AuthorityAssumption DEF BackendAuthorities, Backends
<1>6. TypeOK'
  BY <1>1, <1>3, <1>5 DEF TypeOK, local, Locked, Switching
<1>7. DiskInv'
  <2>1. document = [q \in Providers |-> document[q]] /\ legacy = [q \in Providers |-> legacy[q]]
    BY <1>1 DEF TypeOK
  <2>2. document = legacy
    BY <1>2, <2>1
  <2>3. legacy = committed
    BY <1>1, <1>2, <1>4, <2>2 DEF DiskInv, Backends
  <2> QED
    BY <1>1, <1>2, <1>3, <2>2, <2>3 DEF DiskInv
<1>8. ProcessInv(self)'
  <2>1. pc'[self] = "flipped"
    BY <1>1, <1>3 DEF TypeOK
  <2>2. SwitchInv(self)'
    BY <1>2, <1>3, <2>1 DEF SwitchInv, local
  <2> QED
    BY <1>2, <1>3, <1>5, <2>1, <2>2 DEF ProcessInv, WriterInv, ReaderInv
<1>9. Elsewhere(self)
  BY <1>1, <1>3 DEF TypeOK, Elsewhere, local
<1>10. Held
  BY <1>2, <1>3, <1>5 DEF Held
<1> QED
  BY <1>2, <1>6, <1>7, <1>8, <1>9, <1>10, StepOfOne

LEMMA FlipConfirmStep ==
  ASSUME IInv, NEW self \in Processes, FlipConfirm(self)
  PROVE  IInv'
<1>1. manifest.backend = Other(seen[self].backend)
  BY DEF IInv, FlipConfirm, ProcessInv, SwitchInv
<1>2. Leave(self, {"flipped"})
  BY <1>1 DEF FlipConfirm, Leave
<1> QED
  BY <1>2, LeaveStep

LEMMA OperatorKeeps ==
  ASSUME IInv, NEW self \in Processes, OperatorStep(self)
  PROVE  IInv'
BY AcquireStep, LeaveStep, BootstrapStep, SwitchBeginStep, CutoverReadStep,
   CutoverPrepareStep, CutoverVerifyStep, RollbackCompareStep, FlipStep, FlipConfirmStep
   DEF OperatorStep, OperatorStart, Idempotent, RollbackRefused

-----------------------------------------------------------------------------
(* Readers.                                                                *)

LEMMA ReadBeginStep ==
  ASSUME IInv, NEW self \in Processes, ReadBegin(self)
  PROVE  IInv'
<1>1. TypeOK /\ DiskInv /\ ProcessInv(self) /\ pc[self] \in {"idle", "again"}
  BY DEF IInv, ReadBegin
<1>2. /\ manifest # Nothing
      /\ seen' = [seen EXCEPT ![self] = manifest]
      /\ left' = [left EXCEPT ![self] = Providers]
      /\ mixed' = [mixed EXCEPT ![self] = FALSE]
      /\ pc' = [pc EXCEPT ![self] = "load"]
      /\ UNCHANGED <<disk, run_lock, version, committed, install, got, at>>
  BY DEF ReadBegin, Go
<1>3. tries' \in [Processes -> Nat]
  BY <1>1 DEF TypeOK, ReadBegin
<1>4. TypeOK'
  BY <1>1, <1>2, <1>3 DEF TypeOK, disk, Unlocked
<1>5. ProcessInv(self)'
  <2>1. pc'[self] = "load" /\ seen'[self] = manifest /\ ~mixed'[self]
    BY <1>1, <1>2 DEF TypeOK
  <2>2. manifest.backend = "json" => \A p \in Providers : document[p] \in Nat
    BY <1>1, <1>2 DEF TypeOK, DiskInv
  <2> QED
    BY <1>2, <2>1, <2>2
       DEF disk, ProcessInv, WriterInv, SwitchInv, ReaderInv, Locked, Writing, Switching
<1>6. Elsewhere(self)
  BY <1>1, <1>2 DEF TypeOK, Elsewhere
<1> QED
  BY <1>2, <1>4, <1>5, <1>6, ReadingStep

LEMMA ReadLoadStep ==
  ASSUME IInv, NEW self \in Processes, NEW p \in Providers, ReadLoad(self, p)
  PROVE  IInv'
<1>1. TypeOK /\ ProcessInv(self) /\ pc[self] = "load"
  BY DEF IInv, ReadLoad
<1>2. ReaderInv(self) /\ manifest # Nothing
  BY <1>1 DEF ProcessInv
<1>3. Stored(seen[self], p) \in Nat
  BY <1>1, <1>2 DEF TypeOK, ReaderInv, Stored
<1>4. /\ left' = [left EXCEPT ![self] = @ \ {p}]
      /\ mixed' = [mixed EXCEPT ![self] = @ \/ manifest # seen[self]]
      /\ UNCHANGED pc
      /\ UNCHANGED <<disk, run_lock, version, committed, install, seen, got, at, tries>>
  BY <1>3 DEF ReadLoad
<1>5. TypeOK'
  <2>1. mixed' \in [Processes -> BOOLEAN]
    BY <1>1, <1>4 DEF TypeOK
  <2>2. left' \in [Processes -> SUBSET Providers]
    BY <1>1, <1>4 DEF TypeOK
  <2> QED
    BY <1>1, <1>4, <2>1, <2>2 DEF TypeOK, disk
<1>6. ProcessInv(self)'
  <2>1. mixed'[self] => mixed[self] \/ manifest # seen[self]
    BY <1>1, <1>4 DEF TypeOK
  <2>2. ReaderInv(self)'
    BY <1>1, <1>2, <1>4, <2>1 DEF disk, ReaderInv
  <2> QED
    BY <1>1, <1>2, <1>4, <2>2
       DEF disk, ProcessInv, WriterInv, SwitchInv, Locked, Writing, Switching
<1>7. Elsewhere(self)
  BY <1>1, <1>4 DEF TypeOK, Elsewhere
<1> QED
  BY <1>4, <1>5, <1>6, <1>7, ReadingStep

LEMMA ReadCheckStep ==
  ASSUME IInv, NEW self \in Processes, ReadCheck(self)
  PROVE  IInv'
<1>1. TypeOK /\ ProcessInv(self) /\ pc[self] = "load"
  BY DEF IInv, ReadCheck
<1>2. UNCHANGED <<disk, run_lock, version, committed, install>>
  BY DEF ReadCheck
<1>3. Blank \in [Providers -> Nat]
  BY DEF Blank
<1>4. /\ ReaderInv(self) /\ manifest # Nothing
      /\ manifest.epoch \in Nat
  BY <1>1 DEF ProcessInv, TypeOK, BackendAuthorities
<1>5. CASE seen[self] = manifest /\ Go(self, "returned") /\ UNCHANGED local
  <2>1. TypeOK'
    BY <1>1, <1>2, <1>5 DEF TypeOK, Go, disk, local, Unlocked
  <2>2. ~mixed[self]
    BY <1>1, <1>4, <1>5 DEF ReaderInv
  <2>3. ProcessInv(self)'
    BY <1>1, <1>2, <1>4, <1>5, <2>2
       DEF TypeOK, Go, disk, local, ProcessInv, WriterInv, SwitchInv, ReaderInv, Locked,
           Writing, Switching
  <2>4. Elsewhere(self)
    BY <1>1, <1>2, <1>5 DEF TypeOK, Go, Elsewhere, local
  <2> QED
    BY <1>2, <2>1, <2>3, <2>4, ReadingStep
<1>6. CASE Go(self, "again") /\ UNCHANGED local
  <2>1. TypeOK'
    BY <1>1, <1>2, <1>6 DEF TypeOK, Go, disk, local, Unlocked
  <2>2. ProcessInv(self)'
    BY <1>1, <1>2, <1>4, <1>6
       DEF TypeOK, Go, disk, local, ProcessInv, WriterInv, SwitchInv, ReaderInv, Locked,
           Writing, Switching
  <2>3. Elsewhere(self)
    BY <1>1, <1>2, <1>6 DEF TypeOK, Go, Elsewhere, local
  <2> QED
    BY <1>2, <2>1, <2>2, <2>3, ReadingStep
<1>7. CASE Go(self, "idle") /\ Forget(self)
  <2>1. TypeOK' /\ Elsewhere(self) /\ pc'[self] = "idle"
    BY <1>1, <1>2, <1>3, <1>7 DEF TypeOK, Go, Forget, disk, Unlocked, Elsewhere
  <2> QED
    BY <1>2, <2>1, AtRest, ReadingStep
<1> QED
  BY <1>5, <1>6, <1>7 DEF ReadCheck, same_authority

LEMMA ReadReturnStep ==
  ASSUME IInv, NEW self \in Processes, ReadReturn(self)
  PROVE  IInv'
<1>1. TypeOK /\ Blank \in [Providers -> Nat]
  BY DEF IInv, Blank
<1>2. TypeOK' /\ Elsewhere(self) /\ pc'[self] = "idle"
  BY <1>1 DEF ReadReturn, TypeOK, Go, Forget, disk, Unlocked, Elsewhere
<1> QED
  BY <1>2, AtRest, ReadingStep DEF ReadReturn

LEMMA ReaderKeeps ==
  ASSUME IInv, NEW self \in Processes, ReaderStep(self)
  PROVE  IInv'
BY ReadBeginStep, ReadLoadStep, ReadCheckStep, ReadReturnStep DEF ReaderStep

-----------------------------------------------------------------------------
(* Seeders, and a new installation.                                        *)

LEMMA SeedBeginStep ==
  ASSUME IInv, NEW self \in Processes, SeedBegin(self)
  PROVE  IInv'
<1>1. TypeOK
  BY DEF IInv
<1>2. /\ manifest # Nothing
      /\ left' = [left EXCEPT ![self] = Providers] /\ pc' = [pc EXCEPT ![self] = "seed"]
      /\ UNCHANGED <<disk, run_lock, version, committed, install, seen, got, at, tries, mixed>>
  BY DEF SeedBegin, Go
<1>3. TypeOK'
  BY <1>1, <1>2 DEF TypeOK, disk, Unlocked
<1>4. ProcessInv(self)'
  BY <1>1, <1>2
     DEF TypeOK, disk, ProcessInv, WriterInv, SwitchInv, ReaderInv, Locked, Writing, Switching
<1>5. Elsewhere(self)
  BY <1>1, <1>2 DEF TypeOK, Elsewhere
<1> QED
  BY <1>2, <1>3, <1>4, <1>5, ReadingStep

LEMMA SeedReadStep ==
  ASSUME IInv, NEW self \in Processes, NEW p \in Providers, SeedRead(self, p)
  PROVE  IInv'
<1>1. TypeOK /\ ProcessInv(self) /\ pc[self] = "seed" /\ manifest # Nothing
  BY DEF IInv, SeedRead, ProcessInv
<1>2. /\ left' = [left EXCEPT ![self] = @ \ {p}]
      /\ UNCHANGED <<disk, run_lock, version, committed, install, seen, tries, mixed>>
  BY DEF SeedRead
<1>3. CASE /\ got' = [got EXCEPT ![self][p] = legacy[p]]
           /\ at' = [at EXCEPT ![self] = p]
           /\ pc' = [pc EXCEPT ![self] = "link"]
  <2>1. TypeOK'
    BY <1>1, <1>2, <1>3 DEF TypeOK, disk, Unlocked
  <2>2. ProcessInv(self)'
    BY <1>1, <1>2, <1>3
       DEF TypeOK, disk, ProcessInv, WriterInv, SwitchInv, ReaderInv, Locked, Writing,
           Switching
  <2>3. Elsewhere(self)
    BY <1>1, <1>2, <1>3 DEF TypeOK, Elsewhere
  <2> QED
    BY <1>2, <2>1, <2>2, <2>3, ReadingStep
<1>4. CASE UNCHANGED <<got, at, pc>>
  <2>1. TypeOK'
    BY <1>1, <1>2, <1>4 DEF TypeOK, disk
  <2>2. ProcessInv(self)'
    BY <1>1, <1>2, <1>4
       DEF disk, ProcessInv, WriterInv, SwitchInv, ReaderInv, Locked, Writing, Switching
  <2>3. Elsewhere(self)
    BY <1>1, <1>2, <1>4 DEF TypeOK, Elsewhere
  <2> QED
    BY <1>2, <2>1, <2>2, <2>3, ReadingStep
<1> QED
  BY <1>3, <1>4 DEF SeedRead, Go

\* Where the documents own, every provider has one: a link changes nothing.
LEMMA SeedLinkStep ==
  ASSUME IInv, NEW self \in Processes, SeedLink(self)
  PROVE  IInv'
<1>1. TypeOK /\ DiskInv /\ ProcessInv(self) /\ pc[self] = "link" /\ manifest # Nothing
  BY DEF IInv, SeedLink, ProcessInv
<1>2. at[self] \in Providers /\ got[self][at[self]] \in Nat
  BY <1>1 DEF ProcessInv, ReaderInv, TypeOK
<1>3. /\ document' = [document EXCEPT ![at[self]] =
                        IF @ = Nothing THEN got[self][at[self]] ELSE @]
      /\ pc' = [pc EXCEPT ![self] = "seed"]
      /\ UNCHANGED <<manifest, legacy, run_lock, version, committed, install, local>>
  BY DEF SeedLink, Go
<1>4. /\ document' \in [Providers -> Documents]
      /\ \A q \in Providers : document[q] # Nothing => document'[q] = document[q]
  BY <1>1, <1>2, <1>3 DEF TypeOK, Documents
<1>5. TypeOK'
  BY <1>1, <1>3, <1>4 DEF TypeOK, local, Unlocked
<1>6. manifest.backend = "json" => document' = document
  <2>1. ASSUME manifest.backend = "json" PROVE \A q \in Providers : document[q] # Nothing
    BY <1>1, <2>1, AuthorityAssumption DEF DiskInv, TypeOK
  <2> QED
    BY <1>1, <1>4, <2>1 DEF TypeOK
<1>7. DiskInv'
  BY <1>1, <1>3, <1>6 DEF DiskInv
<1>8. ProcessInv(self)'
  BY <1>1, <1>3
     DEF TypeOK, local, ProcessInv, WriterInv, SwitchInv, ReaderInv, Locked, Writing,
         Switching
<1>9. Elsewhere(self) /\ Quiet
  BY <1>1, <1>3, <1>4 DEF TypeOK, Elsewhere, Quiet, local
<1> QED
  BY <1>5, <1>7, <1>8, <1>9, StepOfOne

LEMMA SeederKeeps ==
  ASSUME IInv, NEW self \in Processes, SeederStep(self)
  PROVE  IInv'
BY SeedBeginStep, SeedReadStep, SeedLinkStep, LeaveStep DEF SeederStep, SeedEnd

\* Nobody relies on a disk without a manifest.
LEMMA InstallKeeps ==
  ASSUME IInv, (\E p \in Providers : InstallSeed(p)) \/ InstallPublish \/ InstallDies
  PROVE  IInv'
<1>1. TypeOK /\ DiskInv /\ install = "seeding" /\ manifest = Nothing
  BY DEF IInv, DiskInv, InstallSeed, InstallPublish, InstallDies
<1>2. UNCHANGED <<legacy, run_lock, version, committed, pc, local>>
  BY DEF InstallSeed, InstallPublish, InstallDies, disk
<1>3. \A s \in Processes : ProcessInv(s)'
  BY <1>1, <1>2, UndisturbedUnmanaged DEF Untouched, local
<1>4. TypeOK' /\ DiskInv'
  <2>1. ASSUME NEW p \in Providers, InstallSeed(p) PROVE TypeOK' /\ DiskInv'
    BY <1>1, <1>2, <2>1 DEF InstallSeed, TypeOK, DiskInv, Documents, local
  <2>2. CASE InstallPublish
    <3>1. manifest' = [backend |-> "json", epoch |-> 0] /\ manifest' \in BackendAuthorities
      BY <2>2 DEF InstallPublish, BackendAuthorities, Backends
    <3>2. TypeOK'
      BY <1>1, <1>2, <2>2, <3>1 DEF InstallPublish, TypeOK, local
    <3>3. document = committed
      BY <1>1, <2>2 DEF InstallPublish, TypeOK, DiskInv
    <3>4. DiskInv'
      BY <1>2, <2>2, <3>1, <3>3, AuthorityAssumption
         DEF InstallPublish, DiskInv, BackendAuthorities, Backends
    <3> QED
      BY <3>2, <3>4
  <2>3. CASE InstallDies
    BY <1>1, <1>2, <2>3 DEF InstallDies, TypeOK, DiskInv, disk, local
  <2> QED
    BY <2>1, <2>2, <2>3
<1> QED
  BY <1>3, <1>4 DEF IInv

-----------------------------------------------------------------------------
(* The theorems.                                                           *)

LEMMA InitHolds == Init => IInv
<1> SUFFICES ASSUME Init PROVE IInv
  OBVIOUS
<1>1. TypeOK
  BY DEF Init, TypeOK, Blank, Documents, Unlocked
<1>2. DiskInv
  BY <1>1 DEF Init, DiskInv, TypeOK
<1>3. ASSUME NEW self \in Processes PROVE ProcessInv(self)
  BY DEF Init, ProcessInv, WriterInv, SwitchInv, ReaderInv, Locked, Writing, Switching
<1> QED
  BY <1>1, <1>2, <1>3 DEF IInv

LEMMA StepKeeps == IInv /\ [Next]_vars => IInv'
<1> SUFFICES ASSUME IInv, [Next]_vars PROVE IInv'
  OBVIOUS
<1>1. CASE UNCHANGED vars
  BY <1>1 DEF vars, disk, local, IInv, TypeOK, DiskInv, ProcessInv, WriterInv, SwitchInv,
              ReaderInv
<1>2. CASE Next
  BY <1>2, CrashStep, WriterKeeps, OperatorKeeps, ReaderKeeps, SeederKeeps, InstallKeeps
     DEF Next, Processes
<1> QED
  BY <1>1, <1>2

THEOREM Inductive == Spec => []IInv
BY InitHolds, StepKeeps, PTL DEF Spec

\* Every variable keeps its type: in particular an epoch is a number, which a
\* switch that counted backwards would leave.
THEOREM TypeCorrect == Spec => []TypeOK
<1>1. IInv => TypeOK
  BY DEF IInv
<1> QED
  BY <1>1, Inductive, PTL

\* However many providers, commands, verbs, readers and seeders there are, and
\* whichever of them dies, the backend the manifest names holds the state that
\* the last commit published.
THEOREM OwnerStaysCurrent == Spec => []OwnerIsCurrent
<1>1. IInv => OwnerIsCurrent
  BY OwnerHolds DEF OwnerIsCurrent
<1> QED
  BY <1>1, Inductive, PTL

\* A roster load_all returns was read in one epoch, however often the backend
\* was switched around the lock-free reader.
THEOREM RosterComesFromOneEpoch == Spec => []RosterOfOneEpoch
<1>1. IInv => RosterOfOneEpoch
  BY DEF IInv, ProcessInv, ReaderInv, RosterOfOneEpoch, Processes
<1> QED
  BY <1>1, Inductive, PTL

\* run.lock makes every second check of store, router and cutover redundant:
\* none of them fires.
THEOREM NoAlarmIsRaised == Spec => []NoAlarm
<1>1. IInv => NoAlarm
  BY DEF IInv, ProcessInv, NoAlarm
<1> QED
  BY <1>1, Inductive, PTL
=============================================================================
