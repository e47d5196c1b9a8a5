------------------------- MODULE CaptureUpdateProofs -------------------------
(***************************************************************************)
(* Proofs about managed updates and the capture migration they carry out,  *)
(* for any releases, accounts and numbers of updates, attempts and faults. *)
(***************************************************************************)
EXTENDS CaptureUpdate, TLAPS

\* The names of phases and steps.
LEMMA Names ==
  /\ {"prepared", "begun", "fenced", "recovering", "completed", "recovered"} \subseteq ControlPhases
  /\ {"authorized", "applying", "completed"} \subseteq LedgerPhases
  /\ {"idle", "prepared", "authorized", "begun", "handoff", "apply", "wait", "ready", "recover",
      "selected"} \subseteq WorkerSteps
  /\ {"none", "start", "run", "gone"} \subseteq ChildSteps
BY DEF ControlPhases, LedgerPhases, WorkerSteps, ChildSteps

LEMMA NullLemma ==
  /\ Null \notin Versions /\ Null \notin Requirements /\ Null \notin RequiredFile
  /\ Null \notin ControlFile /\ Null \notin LedgerFile
BY ReleaseAssumption

LEMMA Releases ==
  /\ Versions \subseteq Nat /\ Boot \in Versions
  /\ \A v \in Versions : Contract[v] \in {7, 8}
  /\ \A v, w \in Versions : v <= w /\ Contract[v] = 8 => Contract[w] = 8
BY ReleaseAssumption

-----------------------------------------------------------------------------
(* Reading the pair                                                        *)

\* The ledger is the marker's own.
Current == IF ledger = Null THEN FALSE ELSE ledger.required = required
InPhase(p) == Current /\ ledger.phase = p
Pending == required # Null /\ ~InPhase("completed")
OwnsPair == required # Null /\ Owns(required.requirement.key)

\* While the pair is readable, the marker is what is known.
LEMMA Views ==
  ASSUME TypeOK, PairReadable
  PROVE  /\ Known = required
         /\ KnownKey = IF required = Null THEN 0 ELSE required.requirement.key
         /\ Ledger = IF Current THEN ledger ELSE Null
         /\ MigrationPending <=> Pending
         /\ \A p \in LedgerPhases : Phase = p <=> InPhase(p)
<1>1. Known = required
  BY DEF Known, PairReadable
<1>2. Ledger = IF Current THEN ledger ELSE Null
  BY DEF Ledger, Current, PairReadable
<1>3. \A p \in LedgerPhases : Phase = p <=> InPhase(p)
  <2>1. CASE Current
    <3>1. ledger # Null
      BY <2>1 DEF Current
    <3> QED BY <1>2, <2>1, <3>1 DEF Phase, InPhase
  <2>2. CASE ~Current
    BY <1>2, <2>2 DEF Phase, InPhase, LedgerPhases
  <2> QED BY <2>1, <2>2
<1>4. MigrationPending <=> Pending
  BY <1>1, <1>3, Names DEF MigrationPending, Pending
<1> QED BY <1>1, <1>2, <1>3, <1>4 DEF KnownKey

-----------------------------------------------------------------------------
(* The inductive invariant                                                 *)

\* Migrations lead to format 8, and a marker names an older one as its prior.
Eight ==
    /\ required # Null =>
          /\ Contract[required.requirement.target] = 8
          /\ required.prior # Null => /\ Contract[required.prior.target] = 8
                                      /\ required.prior.key < required.requirement.key
    /\ auth # Null => Contract[auth.target] = 8

\* Transactions are numbered in the order they begin.
Ordered ==
    /\ control # Null => control.key <= updates
    /\ control = Null => pointer = Null /\ required = Null
    /\ required # Null => required.requirement.key <= control.key
    /\ auth # Null => auth.key = updates

\* The transaction and the pointer. The target is behind the floor once the
\* transaction only goes forward; until then the baseline is what it replaces.
Sound(c) ==
    /\ c.previous <= c.target
    /\ c.forwardOnly => c.floor = c.target /\ Contract[c.target] = 8
    /\ ~c.forwardOnly => /\ Accepts(c.floor, c.previous)
                         /\ c.previous = IF c.baseline = Null THEN Boot ELSE c.baseline
    /\ c.phase \in {"prepared", "begun"} => ~c.forwardOnly
    /\ c.phase = "completed" => \/ c.forwardOnly
                                \/ /\ Contract[c.previous] = Contract[c.target]
                                   /\ Accepts(c.floor, c.target)

HandedOver == auth # Null /\ Owns(auth.key)

Selected ==
    control # Null =>
        /\ control.phase = "completed" => pointer = control.target \/ HandedOver
        /\ control.phase = "recovered" =>
              pointer = IF control.forwardOnly THEN control.target ELSE control.baseline

Shape ==
    /\ control # Null => Sound(control)
    /\ Selected
    /\ HandedOver =>
          control.forwardOnly /\ control.target = auth.target /\ control.phase = "completed"

\* The migration is that of the transaction, or of an earlier one whose target
\* this transaction started from.
Chain ==
    required # Null =>
        /\ Pending => OwnsPair
        /\ OwnsPair => /\ required.requirement.target = control.target
                       /\ required.prior # Null => required.prior.target <= control.previous
                       /\ InPhase("applying") \/ InPhase("completed") => control.forwardOnly
        /\ ~OwnsPair => required.requirement.target <= control.previous

\* No migration has passed its fence.
Unfenced == required = Null \/ (required.prior = Null /\ OwnsPair /\ ~control.forwardOnly)

Untouched ==
    /\ Unfenced => /\ \A a \in Accounts : journal[a] \in {0, 1, Contract[Boot]}
                   /\ \A v \in live : Contract[v] = Contract[Boot]
                   /\ control # Null => Contract[control.previous] = Contract[Boot]
    /\ required = Null /\ control # Null /\ control.forwardOnly => HandedOver

\* After the first migration no journal of the old format is left.
Clean ==
    required # Null /\ (InPhase("completed") \/ required.prior # Null) =>
        \A a \in Accounts : journal[a] # 7

\* What the worker has found out and nobody can change under it.
Posted ==
    /\ At("prepared") => /\ auth = Null /\ ~Pending /\ control # Null
                         /\ control.phase = "prepared" /\ Contract[control.target] = 8
    /\ At("authorized") => auth = Null /\ control # Null /\ control.phase = "prepared"
    /\ At("begun") => auth = Null /\ control # Null /\ control.phase = "begun"
    /\ At("handoff") => /\ auth # Null /\ ~Pending /\ ~Open(control) /\ ~Owns(auth.key)
                        /\ Effective <= auth.target
    /\ At("selected") => auth = Null

\* The process that applies the latest attempt has the inventory of the marker,
\* and what it has done is in the new format or deferred.
Applies(a) == child[a].pc = "run" /\ InPhase("applying") /\ ledger.attempt = a

Applying ==
    /\ \A a \in 1..MaxAttempts : /\ a > attempts => child[a].pc = "none"
                                 /\ child[a].pc # "run" => child[a].done = {}
    /\ \A a \in 1..MaxAttempts : Applies(a) =>
          /\ Inventory = required.requirement.inventory
          /\ Deferred = required.requirement.deferred
          /\ \A x \in child[a].done : x \in required.requirement.deferred \/ journal[x] = 8

Inv == /\ TypeOK /\ PairReadable /\ Eight /\ Ordered /\ Shape /\ Chain /\ Untouched /\ Clean
       /\ Posted /\ Applying

-----------------------------------------------------------------------------
(* What the invariant says of the properties                               *)

LEMMA Fields ==
  ASSUME TypeOK
  PROVE  /\ control # Null => /\ control \in ControlFile /\ control.key \in Nat
                              /\ control.target \in Versions /\ control.previous \in Versions
                              /\ control.baseline \in Optional(Versions)
                              /\ control.floor \in Optional(Versions)
         /\ required # Null => /\ required \in RequiredFile
                               /\ required.requirement \in Requirements
                               /\ required.requirement.target \in Versions
                               /\ required.requirement.key \in Nat
                               /\ required.prior # Null => /\ required.prior \in Requirements
                                                           /\ required.prior.target \in Versions
                                                           /\ required.prior.key \in Nat
         /\ ledger # Null => /\ ledger \in LedgerFile /\ ledger.required \in RequiredFile
                             /\ ledger.required.requirement \in Requirements
         /\ auth # Null => auth \in Requirements /\ auth.target \in Versions /\ auth.key \in Nat
         /\ pointer # Null => pointer \in Versions
         /\ Effective \in Versions /\ updates \in Nat
<1>1. control # Null => /\ control \in ControlFile /\ control.key \in Nat
                        /\ control.target \in Versions /\ control.previous \in Versions
                        /\ control.baseline \in Optional(Versions)
                        /\ control.floor \in Optional(Versions)
  BY DEF TypeOK, Optional, ControlFile, Keys
<1>2. required # Null => /\ required \in RequiredFile /\ required.requirement \in Requirements
                         /\ required.prior # Null => required.prior \in Requirements
  BY DEF TypeOK, Optional, RequiredFile
<1>3. \A r \in Requirements : r.target \in Versions /\ r.key \in Nat
  BY DEF Requirements, Keys
<1>4. ledger # Null => /\ ledger \in LedgerFile /\ ledger.required \in RequiredFile
                       /\ ledger.required.requirement \in Requirements
  BY DEF TypeOK, Optional, LedgerFile, RequiredFile
<1>5. auth # Null => auth \in Requirements
  BY DEF TypeOK, Optional
<1>6. (pointer # Null => pointer \in Versions) /\ Effective \in Versions /\ updates \in Nat
  BY Releases DEF TypeOK, Optional, Effective
<1> QED BY <1>1, <1>2, <1>3, <1>4, <1>5, <1>6

\* The control file names the selected runtime, and nothing is pending.
Settled == ~Pending /\ ~Open(control) /\ ~HandedOver

\* The runtime that would be started from settled files.
LEMMA SettledAdmits ==
  ASSUME TypeOK, PairReadable, Eight, Ordered, Shape, Chain, Untouched, Settled
  PROVE  /\ RuntimeAdmitted(Effective) /\ Accepts(Floor, Effective)
         /\ required = Null => Contract[Effective] = Contract[Boot]
         /\ required # Null => /\ Contract[Effective] = 8
                               /\ required.requirement.target <= Effective
<1> USE Fields, Releases, NullLemma
<1>1. CASE control = Null
  BY <1>1 DEF Ordered, Effective, RuntimeAdmitted, Accepts, Floor
<1>2. CASE control # Null
  <2>0. Sound(control) /\ Selected
    BY <1>2 DEF Shape
  <2>1. control.phase \in {"completed", "recovered"}
    BY <1>2 DEF Settled, Open
  <2>2. CASE control.forwardOnly \/ control.phase = "completed"
    <3>1. pointer = control.target /\ Effective = control.target
      BY <1>2, <2>0, <2>1, <2>2 DEF Settled, Selected, Effective
    <3>2. Accepts(control.floor, control.target)
      <4>1. control.target \in Nat
        BY <1>2
      <4> QED BY <2>0, <2>2, <4>1 DEF Sound, Accepts
    <3>3. RuntimeAdmitted(Effective) /\ Accepts(Floor, Effective)
      BY <1>2, <2>2, <3>1, <3>2 DEF RuntimeAdmitted, Floor
    <3>4. required = Null => Contract[Effective] = Contract[Boot]
      BY <1>2, <2>0, <2>2, <3>1 DEF Untouched, Unfenced, Settled, Sound
    <3>5. required # Null => required.requirement.target <= Effective
      <4> SUFFICES ASSUME required # Null PROVE required.requirement.target <= control.target
        BY <3>1
      <4>1. /\ control.target \in Nat /\ control.previous \in Nat
            /\ required.requirement.target \in Nat
        BY <1>2
      <4>2. control.previous <= control.target
        BY <2>0 DEF Sound
      <4>3. \/ required.requirement.target = control.target
            \/ required.requirement.target <= control.previous
        BY DEF Chain
      <4> QED BY <4>1, <4>2, <4>3
    <3> QED BY <3>1, <3>3, <3>4, <3>5 DEF Eight
  <2>3. CASE ~control.forwardOnly /\ control.phase = "recovered"
    <3>1. pointer = control.baseline /\ Effective = control.previous
      BY <1>2, <2>0, <2>3 DEF Selected, Sound, Effective
    <3>2. RuntimeAdmitted(Effective) /\ Accepts(Floor, Effective)
      BY <1>2, <2>0, <2>3, <3>1 DEF RuntimeAdmitted, Floor, Sound
    <3>3. required = Null => Contract[Effective] = Contract[Boot]
      BY <1>2, <3>1 DEF Untouched, Unfenced
    <3>4. required # Null => required.requirement.target <= Effective
      <4>1. required # Null => InPhase("completed") /\ ~OwnsPair
        BY <2>3 DEF Settled, Pending, Chain
      <4> QED BY <3>1, <4>1 DEF Chain
    <3> QED BY <3>1, <3>2, <3>3, <3>4 DEF Eight
  <2> QED BY <2>1, <2>2, <2>3
<1> QED BY <1>1, <1>2

\* Whoever is admitted to capture, at any time, with which journals.
LEMMA AdmittedFacts ==
  ASSUME TypeOK, PairReadable, Eight, NEW v \in Versions, CaptureAdmitted(v), required # Null
  PROVE  InPhase("completed") /\ Contract[v] = 8
<1>1. InPhase("completed") /\ Ledger = ledger /\ Contract[v] = Contract[Ledger.required.requirement.target]
  BY Views, Names DEF CaptureAdmitted, MigrationAdmitted, InPhase
<1>2. ledger.required = required
  BY <1>1 DEF InPhase, Current
<1> QED BY <1>1, <1>2 DEF Eight

LEMMA InvImplies == Inv => AdmittedReads /\ NeverStranded /\ ReceiptTruthful
<1> SUFFICES ASSUME Inv PROVE AdmittedReads /\ NeverStranded /\ ReceiptTruthful
  OBVIOUS
<1> USE DEF Inv
<1>j. \A a \in Accounts : journal[a] \in {0, 1, 7, 8}
  BY DEF TypeOK
<1>1. AdmittedReads
  <2> SUFFICES ASSUME NEW v \in live, CaptureAdmitted(v)
               PROVE  \A a \in Accounts : journal[a] \in {0, 1, Contract[v]}
    BY DEF AdmittedReads
  <2>1. v \in Versions
    BY DEF TypeOK
  <2>2. CASE required = Null
    BY <2>2 DEF Untouched, Unfenced
  <2>3. CASE required # Null
    BY <1>j, <2>1, <2>3, AdmittedFacts DEF Clean
  <2> QED BY <2>2, <2>3
<1>2. NeverStranded
  <2> SUFFICES ASSUME ~RecoveryPending
               PROVE  /\ CaptureAdmitted(Effective)
                      /\ \A a \in Accounts : journal[a] \in {0, 1, Contract[Effective]}
    BY DEF NeverStranded
  <2>1. Settled
    BY Views DEF RecoveryPending, Settled, HandedOver
  <2>2. CASE required = Null
    <3>1. MigrationAdmitted(Effective)
      BY <2>2, Views DEF MigrationAdmitted
    <3> QED BY <2>1, <2>2, <3>1, SettledAdmits DEF CaptureAdmitted, Untouched, Unfenced
  <2>3. CASE required # Null
    <3>1. InPhase("completed") /\ ledger # Null /\ ledger.required = required
      BY <2>1, <2>3 DEF Settled, Pending, InPhase, Current
    <3>2. Phase = "completed" /\ Ledger = ledger
      BY <3>1, Views, Names DEF InPhase
    <3>3. MigrationAdmitted(Effective)
      <4>1. Effective \in Nat /\ required.requirement.target \in Nat
        BY <2>3, Fields, Releases
      <4> QED BY <2>1, <2>3, <3>1, <3>2, <4>1, SettledAdmits DEF MigrationAdmitted, Eight
    <3> QED BY <1>j, <2>1, <2>3, <3>1, <3>3, SettledAdmits DEF CaptureAdmitted, Clean
  <2> QED BY <2>2, <2>3
<1>3. ReceiptTruthful
  <2> SUFFICES ASSUME ledger # Null, ledger.phase = "completed"
               PROVE  \A a \in Accounts : journal[a] # 7
    BY DEF ReceiptTruthful
  <2>1. required # Null
    BY DEF PairReadable
  <2>2. CASE required = ledger.required
    BY <2>1, <2>2 DEF Clean, InPhase, Current
  <2>3. CASE required # ledger.required
    <3>1. required.prior # Null
      BY <2>3, Fields, NullLemma DEF PairReadable
    <3> QED BY <2>1, <3>1 DEF Clean
  <2> QED BY <2>2, <2>3
<1> QED BY <1>1, <1>2, <1>3

-----------------------------------------------------------------------------
(* Frames: what a step does not touch                                      *)

Filed == PairReadable /\ Eight /\ Ordered /\ Shape /\ Chain /\ Clean

LEMMA PairKept ==
  ASSUME UNCHANGED <<required, ledger>>
  PROVE  /\ PairReadable => PairReadable'
         /\ \A p : InPhase(p)' <=> InPhase(p)
         /\ (Current' <=> Current) /\ (Pending' <=> Pending)
BY DEF PairReadable, InPhase, Current, Pending

LEMMA FilesKept ==
  ASSUME Filed, UNCHANGED <<files, journal>>, updates' = updates
  PROVE  Filed'
<1> USE DEF files
<1>1. PairReadable' /\ Eight' /\ Ordered'
  BY DEF Filed, PairReadable, Eight, Ordered
<1>2. Shape'
  BY DEF Filed, Shape, Selected, Sound, HandedOver, Owns, Accepts
<1>3. Chain'
  BY DEF Filed, Chain, OwnsPair, Owns, Pending, InPhase, Current
<1>4. Clean'
  BY PairKept DEF Filed, Clean
<1> QED BY <1>1, <1>2, <1>3, <1>4 DEF Filed

LEMMA UntouchedKept ==
  ASSUME Untouched, UNCHANGED <<required, control, auth, journal, live>>
  PROVE  Untouched'
BY DEF Untouched, Unfenced, HandedOver, OwnsPair, Owns

\* Steps of the worker that promise nothing, or only that no authorization waits.
Neutral == {"idle", "apply", "wait", "ready", "recover"}

LEMMA PostedKept ==
  ASSUME Posted, UNCHANGED <<files, updates>>,
         worker' = worker \/ worker'.pc \in Neutral \/ (worker'.pc = "selected" /\ auth = Null)
  PROVE  Posted'
<1>1. CASE worker' = worker
  BY <1>1 DEF Posted, At, Open, Owns, Pending, InPhase, Current, Effective, files
<1>2. CASE worker'.pc \in Neutral \/ (worker'.pc = "selected" /\ auth = Null)
  BY <1>2 DEF Posted, At, Neutral, files
<1> QED BY <1>1, <1>2

LEMMA PostedNeutral ==
  ASSUME worker'.pc \in Neutral
  PROVE  Posted'
BY DEF Posted, At, Neutral

LEMMA ApplyingKept ==
  ASSUME Applying, UNCHANGED <<required, ledger, journal, child, attempts>>
  PROVE  Applying'
BY PairKept DEF Applying, Applies, Inventory, Deferred

\* A process that stops applies nothing.
LEMMA ApplyingStops ==
  ASSUME TypeOK, Applying, UNCHANGED <<required, ledger, journal, attempts>>,
         NEW a \in 1..MaxAttempts, child[a].pc \in {"start", "run"},
         child' = [child EXCEPT ![a] = [pc |-> "gone", done |-> {}]]
  PROVE  Applying' /\ child' \in [1..MaxAttempts -> Children]
<1>1. [pc |-> "gone", done |-> {}] \in Children
  BY Names DEF Children
<1>2. child' \in [1..MaxAttempts -> Children]
  BY <1>1 DEF TypeOK
<1>3. \A b \in 1..MaxAttempts : b # a => child'[b] = child[b]
  BY DEF TypeOK
<1>4. child'[a].pc = "gone" /\ child'[a].done = {}
  BY DEF TypeOK
<1>5. Inventory' = Inventory /\ Deferred' = Deferred
  BY DEF Inventory, Deferred
<1>6. ASSUME NEW b \in 1..MaxAttempts
      PROVE  /\ b > attempts => child'[b].pc = "none"
             /\ child'[b].pc # "run" => child'[b].done = {}
  BY <1>3, <1>4, <1>6 DEF Applying
<1>7. ASSUME NEW b \in 1..MaxAttempts, Applies(b)'
      PROVE  /\ Inventory' = required'.requirement.inventory
             /\ Deferred' = required'.requirement.deferred
             /\ \A x \in child'[b].done : x \in required'.requirement.deferred \/ journal'[x] = 8
  <2>1. b # a /\ Applies(b)
    BY <1>3, <1>4, <1>7, PairKept DEF Applies
  <2> QED BY <1>3, <1>5, <2>1 DEF Applying
<1> QED BY <1>2, <1>6, <1>7 DEF Applying

-----------------------------------------------------------------------------
(* Types of the worker, the counters and the control file                  *)

LEMMA WorkerTypes ==
  /\ Idle \in Workers /\ Idle.pc = "idle"
  /\ \A w \in Workers : \A pc \in WorkerSteps :
        [w EXCEPT !.pc = pc] \in Workers /\ [w EXCEPT !.pc = pc].pc = pc
        /\ [w EXCEPT !.pc = pc].key = w.key
  /\ \A pc \in WorkerSteps : \A k \in 0..MaxUpdates : [pc |-> pc, key |-> k] \in Workers
<1>1. Idle \in Workers /\ Idle.pc = "idle"
  BY Names, ReleaseAssumption DEF Idle, Workers
<1>2. ASSUME NEW w \in Workers, NEW pc \in WorkerSteps
      PROVE  [w EXCEPT !.pc = pc] \in Workers /\ [w EXCEPT !.pc = pc].pc = pc
             /\ [w EXCEPT !.pc = pc].key = w.key
  BY DEF Workers
<1>3. \A pc \in WorkerSteps : \A k \in 0..MaxUpdates : [pc |-> pc, key |-> k] \in Workers
  BY DEF Workers
<1> QED BY <1>1, <1>2, <1>3

LEMMA GoType ==
  ASSUME TypeOK, NEW pc \in WorkerSteps, Go(pc)
  PROVE  worker' \in Workers /\ worker'.pc = pc /\ worker'.key = worker.key
BY WorkerTypes DEF TypeOK, Go

LEMMA CountTypes ==
  ASSUME TypeOK, NoFault \/ Fault
  PROVE  /\ updates' = updates /\ attempts' = attempts
         /\ updates' \in 0..MaxUpdates /\ attempts' \in 0..MaxAttempts /\ faults' \in 0..MaxFaults
BY ReleaseAssumption DEF TypeOK, NoFault, Fault, counts

\* The fields of a transaction that its phase does not change.
SameBut(c, d) ==
    /\ d.key = c.key /\ d.target = c.target /\ d.previous = c.previous
    /\ d.baseline = c.baseline

LEMMA ControlPhase ==
  ASSUME NEW c \in ControlFile, NEW ph \in ControlPhases
  PROVE  /\ [c EXCEPT !.phase = ph] \in ControlFile /\ SameBut(c, [c EXCEPT !.phase = ph])
         /\ [c EXCEPT !.phase = ph].phase = ph
         /\ [c EXCEPT !.phase = ph].floor = c.floor
         /\ [c EXCEPT !.phase = ph].forwardOnly = c.forwardOnly
         /\ [c EXCEPT !.phase = ph] # Null
<1>1. [c EXCEPT !.phase = ph] \in ControlFile
  BY DEF ControlFile
<1> QED BY <1>1, NullLemma DEF ControlFile, SameBut

-----------------------------------------------------------------------------
(* Steps that write no file and no journal                                 *)

QuietWork ==
    \/ ApplyReturned \/ Receipt \/ BeginRecovery \/ ResumeApply \/ Refused \/ Fails

LEMMA QuietWorkStep == Inv /\ QuietWork => Inv'
<1> SUFFICES ASSUME Inv, QuietWork PROVE Inv'
  OBVIOUS
<1> USE DEF files
<1>1. UNCHANGED <<files, journal, child, live, proof>> /\ (NoFault \/ Fault)
  BY Zenon DEF QuietWork, ApplyReturned, Receipt, BeginRecovery, ResumeApply, Refused, Fails, NoFault
<1>2. worker' \in Workers /\ worker'.pc \in Neutral
  <2>1. CASE ResumeApply
    <3>1. KnownKey \in 0..MaxUpdates
      <4>1. \A r \in Requirements : r.key \in 0..MaxUpdates
        BY ReleaseAssumption DEF Requirements, Keys
      <4> QED BY <4>1, Views, Fields, ReleaseAssumption DEF Inv
    <3> QED BY <2>1, <3>1, WorkerTypes, Names DEF ResumeApply, Neutral
  <2>2. CASE ApplyReturned \/ Receipt \/ BeginRecovery
    BY <2>2, GoType, Names DEF ApplyReturned, Receipt, BeginRecovery, Inv, Neutral
  <2>3. CASE Refused \/ Fails
    BY <2>3, WorkerTypes DEF Refused, Fails, Stops, Neutral
  <2> QED BY <2>1, <2>2, <2>3 DEF QuietWork
<1>3. updates' = updates /\ attempts' = attempts
  BY <1>1, CountTypes DEF Inv
<1>4. TypeOK'
  BY <1>1, <1>2, CountTypes DEF TypeOK, Inv
<1> QED BY <1>1, <1>2, <1>3, <1>4, FilesKept, UntouchedKept, PostedNeutral, ApplyingKept DEF Inv, Filed

LEMMA ProcessStep ==
  ASSUME Inv, NEW a \in 1..MaxAttempts, Acquire(a) \/ Superseded(a) \/ Dies(a)
  PROVE  Inv'
<1> USE DEF files
<1>1. UNCHANGED <<files, journal, worker, live, proof>> /\ (NoFault \/ Fault)
  BY Zenon DEF Acquire, Superseded, Dies, NoFault
<1>2. updates' = updates /\ attempts' = attempts
  BY <1>1, CountTypes DEF Inv
<1>3. child' \in [1..MaxAttempts -> Children] /\ Applying'
  <2>1. CASE Superseded(a) \/ Dies(a)
    BY <1>1, <1>2, <2>1, ApplyingStops DEF Superseded, Dies, Inv
  <2>2. CASE Acquire(a)
    <3>1. child' = [child EXCEPT ![a].pc = "run"] /\ child[a].pc = "start"
      BY <2>2 DEF Acquire
    <3>2. child \in [1..MaxAttempts -> Children]
      BY DEF Inv, TypeOK
    <3>3. child' \in [1..MaxAttempts -> Children]
      BY <3>1, <3>2, Names DEF Children
    <3>4. child'[a].pc = "run" /\ child'[a].done = {}
      BY <3>1, <3>2 DEF Children, Inv, Applying
    <3>5. \A b \in 1..MaxAttempts : b # a => child'[b] = child[b]
      BY <3>1, <3>2
    <3>6. Inventory' = Inventory /\ Deferred' = Deferred
      BY <1>1 DEF Inventory, Deferred
    <3>7. Inventory = required.requirement.inventory /\ Deferred = required.requirement.deferred
      BY <2>2, Views DEF Acquire, Inv
    <3>8. ASSUME NEW b \in 1..MaxAttempts
          PROVE  /\ b > attempts' => child'[b].pc = "none"
                 /\ child'[b].pc # "run" => child'[b].done = {}
      <4>1. a > attempts => child[a].pc = "none"
        BY DEF Inv, Applying
      <4> QED BY <1>2, <3>1, <3>4, <3>5, <4>1 DEF Inv, Applying
    <3>9. ASSUME NEW b \in 1..MaxAttempts, Applies(b)'
          PROVE  /\ Inventory' = required'.requirement.inventory
                 /\ Deferred' = required'.requirement.deferred
                 /\ \A x \in child'[b].done : x \in required'.requirement.deferred \/ journal'[x] = 8
      <4>1. CASE b = a
        BY <1>1, <3>4, <3>6, <3>7, <4>1
      <4>2. CASE b # a
        <5>1. Applies(b)
          BY <1>1, <3>5, <3>9, <4>2, PairKept DEF Applies
        <5> QED BY <1>1, <3>5, <3>6, <4>2, <5>1 DEF Inv, Applying
      <4> QED BY <4>1, <4>2
    <3> QED BY <3>3, <3>8, <3>9 DEF Applying
  <2> QED BY <2>1, <2>2
<1>4. TypeOK'
  BY <1>1, <1>3, CountTypes DEF TypeOK, Inv
<1> QED BY <1>1, <1>2, <1>3, <1>4, FilesKept, UntouchedKept, PostedKept DEF Inv, Filed

LEMMA RuntimeQuiet ==
  ASSUME Inv, OpenRuntime \/ EndAttempt \/ (\E v \in Versions : RecordAttempt(v))
  PROVE  Inv'
<1> USE DEF files, counts
<1>1. UNCHANGED <<files, journal, worker, child, counts>>
  BY Zenon DEF OpenRuntime, EndAttempt, RecordAttempt
<1>2. Filed' /\ Posted' /\ Applying'
  BY <1>1, FilesKept, PostedKept, ApplyingKept DEF Inv, Filed
<1>3. CASE OpenRuntime
  <2>1. live' = live \cup {Effective} /\ proof' = proof
    BY <1>3 DEF OpenRuntime
  <2>2. TypeOK'
    BY <1>1, <2>1, Fields DEF Inv, TypeOK
  <2>3. Settled
    BY <1>3, Views DEF OpenRuntime, RecoveryPending, Settled, HandedOver, Inv
  <2>4. Unfenced => required = Null
    BY <2>3 DEF Unfenced, Settled, Pending, Inv, Chain
  <2>5. required = Null => Contract[Effective] = Contract[Boot]
    BY <2>3, SettledAdmits DEF Inv
  <2>6. Unfenced' = Unfenced /\ HandedOver' = HandedOver
    BY <1>1 DEF Unfenced, OwnsPair, Owns, HandedOver
  <2>7. Untouched'
    BY <1>1, <2>1, <2>4, <2>5, <2>6 DEF Inv, Untouched
  <2> QED BY <1>2, <2>2, <2>7 DEF Inv, Filed
<1>4. CASE EndAttempt \/ \E v \in Versions : RecordAttempt(v)
  <2>1. live' = live /\ proof' \in Optional(Versions)
    BY <1>4 DEF EndAttempt, RecordAttempt, Optional
  <2>2. TypeOK'
    BY <1>1, <2>1 DEF Inv, TypeOK
  <2> QED BY <1>1, <1>2, <2>1, <2>2, UntouchedKept DEF Inv, Filed
<1> QED BY <1>3, <1>4

-----------------------------------------------------------------------------
(* Steps that write a journal                                              *)

\* What a process with authority knows.
LEMMA AuthorityFacts ==
  ASSUME TypeOK, PairReadable, NEW a \in 1..MaxAttempts, Authority(a)
  PROVE  /\ required # Null /\ InPhase("applying") /\ ledger # Null /\ ledger.required = required
         /\ ledger.phase = "applying" /\ ledger.attempt = a
         /\ OwnsPair /\ control # Null /\ control.forwardOnly /\ Known = required
<1>1. required # Null /\ InPhase("applying") /\ Known = required
  BY Views, Names DEF Authority
<1>2. Current
  BY <1>1 DEF InPhase
<1>3. ledger # Null /\ ledger.required = required /\ Ledger = ledger
  BY <1>2, Views DEF Current
<1> QED BY <1>1, <1>3, Views DEF Authority, OwnsPair, Owns, InPhase

LEMMA MigrateStep ==
  ASSUME Inv, NEW a \in 1..MaxAttempts, NEW x \in Accounts, Migrate(a, x)
  PROVE  Inv'
<1> USE DEF files, counts
<1>1. /\ UNCHANGED <<files, worker, child, live, proof, counts>> /\ journal[x] = 7
      /\ journal' = [journal EXCEPT ![x] = 8] /\ Authority(a)
  BY DEF Migrate
<1>2. journal \in [Accounts -> {0, 1, 7, 8}]
  BY DEF Inv, TypeOK
<1>3. \A y \in Accounts : journal'[y] = IF y = x THEN 8 ELSE journal[y]
  BY <1>1, <1>2
<1>4. TypeOK'
  BY <1>1, <1>2 DEF Inv, TypeOK
<1>5. PairReadable' /\ Eight' /\ Ordered' /\ Shape' /\ Chain' /\ Posted'
  <2>1. PairReadable' /\ Eight' /\ Ordered' /\ Chain'
    BY <1>1, PairKept DEF Inv, Eight, Ordered, Chain, OwnsPair, Owns
  <2>2. Shape'
    BY <1>1 DEF Inv, Shape, Selected, Sound, HandedOver, Owns, Accepts
  <2> QED BY <1>1, <2>1, <2>2, PostedKept DEF Inv
<1>6. Clean'
  BY <1>1, <1>3, PairKept DEF Inv, Clean
<1>7. Untouched'
  <2>1. ~Unfenced /\ required # Null
    BY <1>1, AuthorityFacts DEF Inv, Unfenced
  <2>2. ~Unfenced'
    BY <1>1, <2>1 DEF Unfenced, OwnsPair, Owns
  <2> QED BY <1>1, <2>1, <2>2 DEF Untouched
<1>8. Applying'
  <2>1. Inventory' = Inventory /\ Deferred' = Deferred
    BY <1>1, <1>3 DEF Inventory, Deferred
  <2>2. \A b \in 1..MaxAttempts : Applies(b)' <=> Applies(b)
    BY <1>1, PairKept DEF Applies
  <2> QED BY <1>1, <1>3, <2>1, <2>2, <1>2 DEF Inv, Applying, TypeOK, Children
<1> QED BY <1>4, <1>5, <1>6, <1>7, <1>8 DEF Inv

LEMMA InitializeStep ==
  ASSUME Inv, NEW v \in Versions, NEW x \in Accounts, InitializeAccount(v, x)
  PROVE  Inv'
<1> USE DEF files
<1>1. /\ UNCHANGED <<files, worker, child, live, proof>> /\ v \in live /\ CaptureAdmitted(v)
      /\ NoFault \/ Fault
      /\ \/ journal' = [journal EXCEPT ![x] = Contract[v]]
         \/ journal' = [journal EXCEPT ![x] = 1]
  BY DEF InitializeAccount
<1>2. journal \in [Accounts -> {0, 1, 7, 8}] /\ Contract[v] \in {7, 8}
  BY Releases DEF Inv, TypeOK
<1>3. \A y \in Accounts : journal'[y] = journal[y] \/ journal'[y] \in {1, Contract[v]}
  BY <1>1, <1>2
<1>4. TypeOK' /\ updates' = updates /\ attempts' = attempts
  <2>1. journal' \in [Accounts -> {0, 1, 7, 8}]
    BY <1>1, <1>2
  <2> QED BY <1>1, <2>1, CountTypes DEF Inv, TypeOK
<1>5. PairReadable' /\ Eight' /\ Ordered' /\ Shape' /\ Chain' /\ Posted'
  <2>1. PairReadable' /\ Eight' /\ Ordered' /\ Chain'
    BY <1>1, <1>4, PairKept DEF Inv, Eight, Ordered, Chain, OwnsPair, Owns
  <2>2. Shape'
    BY <1>1 DEF Inv, Shape, Selected, Sound, HandedOver, Owns, Accepts
  <2> QED BY <1>1, <1>4, <2>1, <2>2, PostedKept DEF Inv
<1>6. Unfenced' = Unfenced /\ HandedOver' = HandedOver
  BY <1>1 DEF Unfenced, OwnsPair, Owns, HandedOver
<1>7. CASE required = Null
  <2>1. Clean'
    BY <1>1, <1>7 DEF Clean
  <2>2. ~InPhase("applying")'
    BY <1>1, <1>7 DEF Inv, PairReadable, InPhase, Current
  <2>3. Applying'
    BY <1>1, <1>4, <2>2 DEF Inv, Applying, Applies
  <2>4. Contract[v] = Contract[Boot] /\ \A y \in Accounts : journal[y] \in {0, 1, Contract[Boot]}
    BY <1>1, <1>7 DEF Inv, Untouched, Unfenced
  <2>5. Untouched'
    BY <1>1, <1>3, <1>6, <2>4 DEF Inv, Untouched
  <2> QED BY <1>4, <1>5, <2>1, <2>3, <2>5 DEF Inv
<1>8. CASE required # Null
  <2>1. InPhase("completed") /\ Contract[v] = 8
    BY <1>1, <1>8, AdmittedFacts DEF Inv
  <2>2. Clean'
    BY <1>1, <1>3, <1>8, <2>1, PairKept DEF Inv, Clean
  <2>3. ~InPhase("applying")'
    BY <1>1, <2>1, PairKept DEF InPhase
  <2>4. Applying'
    BY <1>1, <1>4, <2>3 DEF Inv, Applying, Applies
  <2>5. ~Unfenced
    BY <1>8, <2>1 DEF Inv, Unfenced, Chain
  <2>6. Untouched'
    BY <1>1, <1>6, <1>8, <2>5 DEF Untouched
  <2> QED BY <1>4, <1>5, <2>2, <2>4, <2>6 DEF Inv
<1> QED BY <1>7, <1>8

-----------------------------------------------------------------------------
(* Steps that write the ledger                                             *)

\* A ledger of the same marker is written; the rest of the files stays.
LEMMA LedgerWritten ==
  ASSUME Inv, UNCHANGED <<control, pointer, auth, required>>, updates' = updates, required # Null,
         ledger' # Null, ledger'.required = required
  PROVE  /\ PairReadable' /\ Eight' /\ Ordered' /\ Shape'
         /\ \A p : InPhase(p)' <=> ledger'.phase = p
         /\ (OwnsPair' <=> OwnsPair) /\ (Unfenced' <=> Unfenced) /\ (HandedOver' <=> HandedOver)
<1>1. PairReadable' /\ Eight' /\ Ordered'
  BY DEF Inv, PairReadable, Eight, Ordered
<1>2. Shape'
  BY DEF Inv, Shape, Selected, Sound, HandedOver, Owns, Accepts
<1>3. \A p : InPhase(p)' <=> ledger'.phase = p
  BY DEF InPhase, Current
<1> QED BY <1>1, <1>2, <1>3 DEF OwnsPair, Owns, Unfenced, HandedOver

LedgerAt(l, ph, n) == [l EXCEPT !.phase = ph, !.attempt = n]
LedgerDone(l, S) == [l EXCEPT !.phase = "completed", !.attempt = 0, !.progress = S]

LEMMA LedgerAtType ==
  ASSUME NEW l \in LedgerFile, NEW ph \in LedgerPhases, NEW n \in 0..MaxAttempts
  PROVE  /\ LedgerAt(l, ph, n) \in LedgerFile /\ LedgerAt(l, ph, n).required = l.required
         /\ LedgerAt(l, ph, n).phase = ph /\ LedgerAt(l, ph, n).attempt = n
         /\ LedgerAt(l, ph, n).progress = l.progress
<1> DEFINE k == [l EXCEPT !.phase = ph]
<1>1. k \in LedgerFile /\ k.required = l.required /\ k.phase = ph /\ k.progress = l.progress
  BY DEF LedgerFile
<1>2. LedgerAt(l, ph, n) = [k EXCEPT !.attempt = n]
  BY DEF LedgerFile, LedgerAt
<1> HIDE DEF k
<1> QED BY <1>1, <1>2 DEF LedgerFile

LEMMA LedgerDoneType ==
  ASSUME NEW l \in LedgerFile, NEW S \in SUBSET Accounts
  PROVE  /\ LedgerDone(l, S) \in LedgerFile /\ LedgerDone(l, S).required = l.required
         /\ LedgerDone(l, S).phase = "completed"
<1> DEFINE k == LedgerAt(l, "completed", 0)
<1>1. "completed" \in LedgerPhases /\ 0 \in 0..MaxAttempts
  BY Names, ReleaseAssumption
<1>2. k \in LedgerFile /\ k.required = l.required /\ k.phase = "completed"
  BY <1>1, LedgerAtType
<1>3. LedgerDone(l, S) = [k EXCEPT !.progress = S]
  BY DEF LedgerFile, LedgerAt, LedgerDone
<1> HIDE DEF k
<1> QED BY <1>2, <1>3 DEF LedgerFile

LEMMA ProgressStep ==
  ASSUME Inv, NEW a \in 1..MaxAttempts, NEW x \in Accounts, Progress(a, x)
  PROVE  Inv'
<1> USE DEF counts
<1>1. /\ UNCHANGED <<control, pointer, auth, required, journal, worker, live, proof, counts>>
      /\ ledger' = [ledger EXCEPT !.progress = ledger.progress \cup {x}]
      /\ child' = [child EXCEPT ![a].done = child[a].done \cup {x}]
      /\ child[a].pc = "run" /\ Authority(a)
  BY DEF Progress
<1>2. /\ required # Null /\ InPhase("applying") /\ ledger # Null /\ ledger.required = required
      /\ ledger.phase = "applying" /\ ledger.attempt = a
  BY <1>1, AuthorityFacts DEF Inv
<1>3. ledger \in LedgerFile
  BY <1>2, Fields DEF Inv
<1>4. /\ ledger' \in LedgerFile /\ ledger' # Null /\ ledger'.required = required
      /\ ledger'.phase = "applying" /\ ledger'.attempt = a
  <2>1. ledger.progress \cup {x} \in SUBSET Accounts
    BY <1>3 DEF LedgerFile
  <2>2. ledger' \in LedgerFile
    BY <1>1, <1>3, <2>1 DEF LedgerFile
  <2> QED BY <1>1, <1>2, <1>3, <2>2, NullLemma DEF LedgerFile
<1>5. /\ child' \in [1..MaxAttempts -> Children] /\ child'[a].pc = "run"
      /\ child'[a].done = child[a].done \cup {x}
      /\ \A b \in 1..MaxAttempts : b # a => child'[b] = child[b]
  BY <1>1 DEF Inv, TypeOK, Children
<1>6. TypeOK'
  BY <1>1, <1>4, <1>5 DEF Inv, TypeOK, Optional
<1>7. /\ PairReadable' /\ Eight' /\ Ordered' /\ Shape'
      /\ \A p : InPhase(p)' <=> ledger'.phase = p
      /\ (OwnsPair' <=> OwnsPair) /\ (Unfenced' <=> Unfenced) /\ (HandedOver' <=> HandedOver)
  BY <1>1, <1>2, <1>4, LedgerWritten
<1>8. \A p : InPhase(p)' <=> InPhase(p)
  BY <1>2, <1>4, <1>7 DEF InPhase
<1>9. Pending' <=> Pending
  BY <1>1, <1>8 DEF Pending
<1>10. Chain' /\ Clean' /\ Untouched'
  <2>1. Chain'
    BY <1>1, <1>7, <1>8, <1>9 DEF Inv, Chain
  <2>2. Clean'
    BY <1>1, <1>8 DEF Inv, Clean
  <2>3. Untouched'
    BY <1>1, <1>7 DEF Inv, Untouched
  <2> QED BY <2>1, <2>2, <2>3
<1>11. Posted'
  BY <1>1, <1>9 DEF Inv, Posted, At, Open, Owns, Effective
<1>12. Applying'
  <2>1. Inventory' = Inventory /\ Deferred' = Deferred
    BY <1>1 DEF Inventory, Deferred
  <2>2. x \in required.requirement.deferred \/ journal[x] = 8
    BY <1>1, AuthorityFacts DEF Progress, Inv
  <2>3. \A b \in 1..MaxAttempts : Applies(b)' => b = a /\ Applies(b)
    BY <1>1, <1>2, <1>4, <1>8 DEF Applies
  <2>4. \A b \in 1..MaxAttempts : /\ b > attempts' => child'[b].pc = "none"
                                  /\ child'[b].pc # "run" => child'[b].done = {}
    BY <1>1, <1>5 DEF Inv, Applying
  <2> QED BY <1>1, <1>5, <2>1, <2>2, <2>3, <2>4 DEF Inv, Applying
<1> QED BY <1>6, <1>7, <1>10, <1>11, <1>12 DEF Inv

LEMMA FinishStep ==
  ASSUME Inv, NEW a \in 1..MaxAttempts, Finish(a)
  PROVE  Inv'
<1> USE DEF counts
<1>1. /\ UNCHANGED <<control, pointer, auth, required, journal, worker, live, proof, counts>>
      /\ ledger' = [ledger EXCEPT !.phase = "completed", !.attempt = 0,
                                  !.progress = Known.requirement.inventory]
      /\ child' = [child EXCEPT ![a] = [pc |-> "gone", done |-> {}]]
      /\ child[a].pc = "run" /\ Authority(a) /\ child[a].done = Known.requirement.inventory
  BY DEF Finish, FinishWhen
<1>2. /\ required # Null /\ InPhase("applying") /\ ledger # Null /\ ledger.required = required
      /\ ledger.attempt = a /\ OwnsPair /\ control.forwardOnly /\ Known = required
  BY <1>1, AuthorityFacts DEF Inv
<1>3. ledger \in LedgerFile /\ required.requirement.inventory \in SUBSET Accounts
  BY <1>2, Fields DEF Inv, Requirements
<1>4. /\ ledger' \in LedgerFile /\ ledger' # Null /\ ledger'.required = required
      /\ ledger'.phase = "completed"
  <2>1. ledger' = LedgerDone(ledger, required.requirement.inventory)
    BY <1>1, <1>2 DEF LedgerDone
  <2> QED BY <1>2, <1>3, <2>1, LedgerDoneType, NullLemma
<1>5. /\ child' \in [1..MaxAttempts -> Children] /\ child'[a].pc = "gone" /\ child'[a].done = {}
      /\ \A b \in 1..MaxAttempts : b # a => child'[b] = child[b]
  <2>1. [pc |-> "gone", done |-> {}] \in Children
    BY Names DEF Children
  <2> QED BY <1>1, <2>1 DEF Inv, TypeOK
<1>6. TypeOK'
  BY <1>1, <1>4, <1>5 DEF Inv, TypeOK, Optional
<1>7. /\ PairReadable' /\ Eight' /\ Ordered' /\ Shape'
      /\ \A p : InPhase(p)' <=> ledger'.phase = p
      /\ (OwnsPair' <=> OwnsPair) /\ (Unfenced' <=> Unfenced) /\ (HandedOver' <=> HandedOver)
  BY <1>1, <1>2, <1>4, LedgerWritten
<1>8. InPhase("completed")' /\ ~InPhase("applying")' /\ ~Pending'
  BY <1>4, <1>7 DEF Pending
<1>9. Chain'
  BY <1>1, <1>2, <1>7, <1>8 DEF Inv, Chain
<1>10. \A y \in Accounts : journal[y] # 7
  <2>1. Applies(a)
    BY <1>1, <1>2 DEF Applies
  <2>2. /\ Inventory = required.requirement.inventory /\ Deferred = required.requirement.deferred
        /\ \A y \in Inventory : y \in Deferred \/ journal[y] = 8
    BY <1>1, <1>2, <2>1 DEF Inv, Applying
  <2> QED BY <2>2 DEF Inventory, Deferred
<1>11. Clean' /\ Untouched'
  BY <1>1, <1>7, <1>10 DEF Inv, Clean, Untouched
<1>12. Posted'
  BY <1>1, <1>8 DEF Inv, Posted, At, Open, Owns, Effective
<1>13. Applying'
  <2>1. \A b \in 1..MaxAttempts : /\ b > attempts' => child'[b].pc = "none"
                                  /\ child'[b].pc # "run" => child'[b].done = {}
    <3>1. a > attempts => child[a].pc = "none"
      BY DEF Inv, Applying
    <3> QED BY <1>1, <1>5, <3>1 DEF Inv, Applying
  <2> QED BY <1>8, <2>1 DEF Applying, Applies
<1> QED BY <1>6, <1>7, <1>9, <1>11, <1>12, <1>13 DEF Inv

LEMMA NextAttemptStep == Inv /\ NextAttempt => Inv'
<1> SUFFICES ASSUME Inv, NextAttempt PROVE Inv'
  OBVIOUS
<1> DEFINE l == IF Ledger = Null THEN BaseLedger(Known) ELSE Ledger
           n == attempts + 1
<1>1. /\ UNCHANGED <<control, pointer, auth, journal, live, proof, updates, faults>>
      /\ required' = Known /\ ledger' = [l EXCEPT !.phase = "applying", !.attempt = n]
      /\ child' = [child EXCEPT ![n].pc = "start"] /\ attempts' = n /\ attempts < MaxAttempts
      /\ Pending /\ Phase # "completed" /\ Owns(KnownKey) /\ control.forwardOnly /\ Go("wait")
  BY Views DEF NextAttempt, Inv
<1>2. /\ required # Null /\ required' = required /\ OwnsPair /\ ~InPhase("completed")
  BY <1>1, Views, Names DEF Pending, OwnsPair, Inv
<1>3. l \in LedgerFile /\ l.required = required
  <2>1. CASE Current
    <3>1. ledger # Null /\ ledger.required = required /\ Ledger = ledger
      BY <2>1, Views DEF Current, Inv
    <3> QED BY <3>1, Fields DEF Inv
  <2>2. CASE ~Current
    <3>1. l = BaseLedger(required)
      BY <2>2, Views DEF Inv
    <3>2. required \in RequiredFile /\ 0 \in 0..MaxAttempts
      BY <1>2, Fields, ReleaseAssumption DEF Inv
    <3> QED BY <3>1, <3>2, Names DEF BaseLedger, LedgerFile
  <2> QED BY <2>1, <2>2
<1> HIDE DEF l
<1>4. n \in 1..MaxAttempts /\ n \in 0..MaxAttempts
  <2>1. attempts \in 0..MaxAttempts
    BY DEF Inv, TypeOK
  <2> QED BY <1>1, <2>1, ReleaseAssumption
<1>5. /\ ledger' \in LedgerFile /\ ledger' # Null /\ ledger'.required = required
      /\ ledger'.phase = "applying" /\ ledger'.attempt = n
  <2>1. /\ ledger' \in LedgerFile /\ ledger'.required = required
        /\ ledger'.phase = "applying" /\ ledger'.attempt = n
    <3>1. ledger' = LedgerAt(l, "applying", n)
      BY <1>1 DEF LedgerAt
    <3>2. "applying" \in LedgerPhases
      BY Names
    <3> HIDE DEF n
    <3> QED BY <1>3, <1>4, <3>1, <3>2, LedgerAtType
  <2> QED BY <2>1, NullLemma
<1>6. /\ child' \in [1..MaxAttempts -> Children] /\ child'[n].pc = "start" /\ child'[n].done = {}
      /\ \A b \in 1..MaxAttempts : b # n => child'[b] = child[b]
  <2>1. child[n].pc = "none" /\ child[n].done = {}
    <3>1. n > attempts
      BY DEF Inv, TypeOK
    <3> QED BY <1>4, <3>1 DEF Inv, Applying
  <2>2. child \in [1..MaxAttempts -> Children]
    BY DEF Inv, TypeOK
  <2> HIDE DEF n
  <2> QED BY <1>1, <1>4, <2>1, <2>2, Names DEF Children
<1>7. worker' \in Workers /\ worker'.pc = "wait"
  BY <1>1, GoType, Names DEF Inv
<1>8. TypeOK'
  BY <1>1, <1>2, <1>4, <1>5, <1>6, <1>7 DEF Inv, TypeOK, Optional
<1>9. /\ PairReadable' /\ Eight' /\ Ordered' /\ Shape'
      /\ \A p : InPhase(p)' <=> ledger'.phase = p
      /\ (OwnsPair' <=> OwnsPair) /\ (Unfenced' <=> Unfenced) /\ (HandedOver' <=> HandedOver)
  BY <1>1, <1>2, <1>5, LedgerWritten
<1>10. Chain'
  BY <1>1, <1>2, <1>9 DEF Inv, Chain
<1>11. Clean' /\ Untouched'
  BY <1>1, <1>2, <1>5, <1>9 DEF Inv, Clean, Untouched
<1>12. Posted'
  BY <1>7, PostedNeutral DEF Neutral
<1>13. Applying'
  <2>1. \A b \in 1..MaxAttempts : b > n => b > attempts /\ b # n
    BY DEF Inv, TypeOK
  <2>2. \A b \in 1..MaxAttempts : /\ b > attempts' => child'[b].pc = "none"
                                  /\ child'[b].pc # "run" => child'[b].done = {}
    BY <1>1, <1>6, <2>1 DEF Inv, Applying
  <2>3. \A b \in 1..MaxAttempts : ~Applies(b)'
    BY <1>5, <1>6 DEF Applies
  <2> QED BY <2>2, <2>3 DEF Applying
<1> QED BY <1>8, <1>9, <1>10, <1>11, <1>12, <1>13 DEF Inv

-----------------------------------------------------------------------------
(* Steps that write the control file or the pointer                        *)

\* A transaction goes on: its identity stays, and it never becomes reversible.
LEMMA ControlWritten ==
  ASSUME Inv, UNCHANGED <<auth, required, ledger, journal, live>>, updates' = updates,
         control # Null, control' # Null, SameBut(control, control'),
         control.forwardOnly => control'.forwardOnly,
         required = Null => control'.forwardOnly = control.forwardOnly
  PROVE  /\ PairReadable' /\ Eight' /\ Ordered' /\ Chain' /\ Untouched' /\ Clean'
         /\ (HandedOver' <=> HandedOver)
<1>1. /\ PairReadable' /\ Eight' /\ Ordered' /\ Clean'
  BY PairKept DEF Inv, Eight, Ordered, Clean, SameBut
<1>2. (HandedOver' <=> HandedOver) /\ (OwnsPair' <=> OwnsPair)
  BY DEF HandedOver, OwnsPair, Owns, SameBut
<1>3. Chain'
  BY <1>2, PairKept DEF Inv, Chain, SameBut
<1>4. Untouched'
  BY <1>2 DEF Inv, Untouched, Unfenced, SameBut
<1> QED BY <1>1, <1>2, <1>3, <1>4

LEMMA BeginStep == Inv /\ Begin => Inv'
<1> SUFFICES ASSUME Inv, Begin PROVE Inv'
  OBVIOUS
<1>1. /\ UNCHANGED <<auth, required, ledger, journal, child, live, proof>> /\ At("authorized")
      /\ control' = [control EXCEPT !.phase = "begun"]
      /\ \/ pointer' = control.target /\ Go("begun") /\ NoFault
         \/ pointer' = pointer /\ worker' = Idle /\ Fault
  BY DEF Begin, Writes
<1>2. auth = Null /\ control # Null /\ control.phase = "prepared"
  BY <1>1 DEF Inv, Posted
<1>3. control \in ControlFile /\ Sound(control) /\ ~control.forwardOnly
  BY <1>2, Fields DEF Inv, Shape, Sound
<1>4. /\ control' \in ControlFile /\ SameBut(control, control') /\ control'.phase = "begun"
      /\ control'.floor = control.floor /\ control'.forwardOnly = control.forwardOnly /\ control' # Null
  BY <1>1, <1>3, ControlPhase, Names
<1>5. updates' = updates /\ attempts' = attempts
  BY <1>1, CountTypes DEF Inv
<1>6. worker' \in Workers /\ (worker'.pc \in {"begun", "idle"})
  BY <1>1, GoType, WorkerTypes, Names DEF Inv
<1>7. TypeOK'
  <2>1. pointer' \in Optional(Versions)
    BY <1>1, <1>2, Fields DEF Optional, Inv, TypeOK
  <2> QED BY <1>1, <1>4, <1>6, <2>1, CountTypes DEF Inv, TypeOK, Optional
<1>8. /\ PairReadable' /\ Eight' /\ Ordered' /\ Chain' /\ Untouched' /\ Clean'
      /\ (HandedOver' <=> HandedOver)
  BY <1>1, <1>2, <1>4, <1>5, ControlWritten
<1>9. Shape'
  <2>1. Sound(control')
    BY <1>3, <1>4 DEF Sound, SameBut
  <2> QED BY <1>2, <1>4, <1>8, <2>1 DEF Shape, Selected, HandedOver
<1>10. Posted'
  BY <1>1, <1>2, <1>4, <1>6 DEF Posted, At
<1>11. Applying'
  BY <1>1, <1>5, ApplyingKept DEF Inv
<1> QED BY <1>7, <1>8, <1>9, <1>10, <1>11 DEF Inv

LEMMA FenceStep == Inv /\ Fence => Inv'
<1> SUFFICES ASSUME Inv, Fence PROVE Inv'
  OBVIOUS
<1>1. /\ UNCHANGED <<auth, required, ledger, journal, child, live, proof>> /\ At("begun") /\ Pending
      /\ control' = [control EXCEPT !.phase = "fenced", !.forwardOnly = TRUE, !.floor = control.target]
      /\ \/ pointer' = control.target /\ Go("apply") /\ NoFault
         \/ pointer' = pointer /\ worker' = Idle /\ Fault
  BY Views DEF Fence, Writes, Inv
<1>2. auth = Null /\ control # Null
  BY <1>1 DEF Inv, Posted
<1>3. control \in ControlFile /\ control.target \in Versions /\ Sound(control)
  BY <1>2, Fields DEF Inv, Shape
<1>4. /\ control' \in ControlFile /\ SameBut(control, control') /\ control'.phase = "fenced"
      /\ control'.floor = control.target /\ control'.forwardOnly = TRUE
  <2> DEFINE c == [control EXCEPT !.phase = "fenced"]
             d == [c EXCEPT !.forwardOnly = TRUE]
  <2>1. c \in ControlFile /\ SameBut(control, c) /\ c.phase = "fenced"
    BY <1>3, ControlPhase, Names
  <2>2. control' = [d EXCEPT !.floor = control.target]
    BY <1>1, <1>3 DEF ControlFile
  <2> HIDE DEF c
  <2>3. /\ d \in ControlFile /\ SameBut(control, d) /\ d.phase = "fenced" /\ d.forwardOnly = TRUE
    BY <2>1 DEF ControlFile, SameBut
  <2> HIDE DEF d
  <2> QED BY <1>3, <2>2, <2>3 DEF ControlFile, SameBut, Optional
<1>5. control' # Null /\ updates' = updates /\ attempts' = attempts
  BY <1>1, <1>4, CountTypes, NullLemma DEF Inv
<1>6. worker' \in Workers /\ worker'.pc \in Neutral
  BY <1>1, GoType, WorkerTypes, Names DEF Inv, Neutral
<1>7. TypeOK'
  <2>1. pointer' \in Optional(Versions)
    BY <1>1, <1>3 DEF Optional, Inv, TypeOK
  <2> QED BY <1>1, <1>4, <1>6, <2>1, CountTypes DEF Inv, TypeOK, Optional
<1>8. required # Null /\ OwnsPair /\ Contract[control.target] = 8
  BY <1>1 DEF Pending, Inv, Chain, Eight
<1>9. /\ PairReadable' /\ Eight' /\ Ordered' /\ Chain' /\ Untouched' /\ Clean'
      /\ (HandedOver' <=> HandedOver)
  BY <1>1, <1>2, <1>4, <1>5, <1>8, ControlWritten
<1>10. Shape'
  <2>1. Sound(control')
    BY <1>3, <1>4, <1>8 DEF Sound, SameBut
  <2> QED BY <1>2, <1>4, <1>9, <2>1 DEF Shape, Selected, HandedOver
<1>11. Posted' /\ Applying'
  BY <1>1, <1>5, <1>6, PostedNeutral, ApplyingKept DEF Inv
<1> QED BY <1>7, <1>9, <1>10, <1>11 DEF Inv

LEMMA CompleteStep == Inv /\ Complete => Inv'
<1> SUFFICES ASSUME Inv, Complete PROVE Inv'
  OBVIOUS
<1>1. /\ UNCHANGED <<pointer, auth, required, ledger, journal, child, live, proof>>
      /\ control' = [control EXCEPT !.phase = "completed"] /\ worker' = Idle /\ NoFault
      /\ Owns(worker.key) /\ pointer = control.target /\ Accepts(control.floor, control.target)
      /\ control.forwardOnly \/ Contract[control.previous] = Contract[control.target]
  BY DEF Complete
<1>2. control # Null
  BY <1>1 DEF Owns
<1>3. control \in ControlFile /\ Sound(control)
  BY <1>2, Fields DEF Inv, Shape
<1>4. /\ control' \in ControlFile /\ SameBut(control, control') /\ control'.phase = "completed"
      /\ control'.floor = control.floor /\ control'.forwardOnly = control.forwardOnly /\ control' # Null
  BY <1>1, <1>3, ControlPhase, Names
<1>5. updates' = updates /\ attempts' = attempts
  BY <1>1, CountTypes DEF Inv
<1>6. worker' \in Workers /\ worker'.pc \in Neutral
  BY <1>1, WorkerTypes DEF Neutral
<1>7. TypeOK'
  BY <1>1, <1>4, <1>6, CountTypes DEF Inv, TypeOK, Optional
<1>8. /\ PairReadable' /\ Eight' /\ Ordered' /\ Chain' /\ Untouched' /\ Clean'
      /\ (HandedOver' <=> HandedOver)
  BY <1>1, <1>2, <1>4, <1>5, ControlWritten
<1>9. Shape'
  <2>1. Sound(control')
    BY <1>1, <1>3, <1>4 DEF Sound, SameBut
  <2>2. Selected'
    BY <1>1, <1>4 DEF Selected, SameBut
  <2>3. HandedOver => control.forwardOnly /\ control.target = auth.target
    BY DEF Inv, Shape
  <2> QED BY <1>1, <1>4, <1>8, <2>1, <2>2, <2>3 DEF Shape, SameBut
<1>10. Posted' /\ Applying'
  BY <1>1, <1>5, <1>6, PostedNeutral, ApplyingKept DEF Inv
<1> QED BY <1>7, <1>8, <1>9, <1>10 DEF Inv

LEMMA RepairStep == Inv /\ RepairTargetPointer => Inv'
<1> SUFFICES ASSUME Inv, RepairTargetPointer PROVE Inv'
  OBVIOUS
<1>1. /\ UNCHANGED <<control, auth, required, ledger, journal, child, live, proof>>
      /\ pointer' = control.target /\ worker' = [pc |-> "apply", key |-> auth.key] /\ NoFault
      /\ HandedOver
  BY DEF RepairTargetPointer, HandedOver
<1>2. control # Null /\ auth # Null /\ Sound(control)
  BY <1>1 DEF HandedOver, Owns, Inv, Shape
<1>3. updates' = updates /\ attempts' = attempts
  BY <1>1, CountTypes DEF Inv
<1>4. worker' \in Workers /\ worker'.pc \in Neutral
  <2>1. auth.key \in 0..MaxUpdates
    BY <1>2, Fields, ReleaseAssumption DEF Inv, Requirements, Keys
  <2> QED BY <1>1, <2>1, WorkerTypes, Names DEF Neutral
<1>5. TypeOK'
  BY <1>1, <1>2, <1>4, Fields, CountTypes DEF Inv, TypeOK, Optional
<1>6. PairReadable' /\ Eight' /\ Ordered' /\ Chain' /\ Clean'
  BY <1>1, <1>2, <1>3, PairKept DEF Inv, Eight, Ordered, Chain, Clean, OwnsPair, Owns
<1>7. Shape'
  <2>1. control.phase = "completed" /\ control.forwardOnly /\ control.target = auth.target
    BY <1>1 DEF Inv, Shape
  <2>2. Sound(control)'
    BY <1>1, <1>2 DEF Sound, Accepts
  <2> QED BY <1>1, <2>1, <2>2 DEF Shape, Selected
<1>8. Untouched'
  BY <1>1, UntouchedKept DEF Inv
<1>9. Posted' /\ Applying'
  BY <1>1, <1>3, <1>4, PostedNeutral, ApplyingKept DEF Inv
<1> QED BY <1>5, <1>6, <1>7, <1>8, <1>9 DEF Inv

LEMMA RecoverSelectionStep == Inv /\ RecoverSelection => Inv'
<1> SUFFICES ASSUME Inv, RecoverSelection PROVE Inv'
  OBVIOUS
<1>1. /\ UNCHANGED <<auth, required, ledger, journal, child, live, proof>> /\ auth = Null
      /\ NoFault \/ Fault
      /\ Go("selected") \/ worker' = Idle
  BY DEF RecoverSelection, RecoverSelectionWhen, Writes
<1>2. updates' = updates /\ attempts' = attempts
  BY <1>1, CountTypes DEF Inv
<1>3. worker' \in Workers /\ worker'.pc \in {"idle", "selected"}
  BY <1>1, GoType, WorkerTypes, Names DEF Inv
<1>4. Posted' /\ Applying'
  BY <1>1, <1>2, <1>3, ApplyingKept DEF Inv, Posted, At
<1>5. CASE UNCHANGED <<control, pointer>>
  <2>1. TypeOK'
    BY <1>1, <1>3, <1>5, CountTypes DEF Inv, TypeOK
  <2> QED BY <1>1, <1>2, <1>4, <1>5, <2>1, FilesKept, UntouchedKept DEF Inv, Filed, files
<1>6. CASE ~UNCHANGED <<control, pointer>>
  <2>1. /\ Open(control) /\ pointer' \in {control.target, control.baseline}
        /\ control' \in {control, [control EXCEPT !.phase = "recovering"]}
    BY <1>6 DEF RecoverSelection, RecoverSelectionWhen, Writes
  <2>2. control # Null /\ control.phase \notin {"completed", "recovered"}
    BY <2>1 DEF Open
  <2>3. control \in ControlFile /\ Sound(control)
    BY <2>2, Fields DEF Inv, Shape
  <2>4. /\ control' \in ControlFile /\ SameBut(control, control') /\ control' # Null
        /\ control'.phase \in {control.phase, "recovering"}
        /\ control'.floor = control.floor /\ control'.forwardOnly = control.forwardOnly
    <3>1. CASE control' = control
      BY <2>2, <2>3, <3>1 DEF SameBut
    <3>2. CASE control' = [control EXCEPT !.phase = "recovering"]
      BY <2>3, <3>2, ControlPhase, Names
    <3> QED BY <2>1, <3>1, <3>2
  <2>5. TypeOK'
    <3>1. pointer' \in Optional(Versions)
      BY <2>1, <2>2, Fields DEF Inv, Optional
    <3> QED BY <1>1, <1>3, <2>4, <3>1, CountTypes DEF Inv, TypeOK, Optional
  <2>6. /\ PairReadable' /\ Eight' /\ Ordered' /\ Chain' /\ Untouched' /\ Clean'
        /\ (HandedOver' <=> HandedOver)
    BY <1>1, <1>2, <2>2, <2>4, ControlWritten
  <2>7. Shape'
    <3>1. Sound(control')
      BY <2>3, <2>4 DEF Sound, SameBut
    <3> QED BY <1>1, <2>2, <2>4, <2>6, <3>1 DEF Shape, Selected, HandedOver
  <2> QED BY <1>4, <2>5, <2>6, <2>7 DEF Inv
<1> QED BY <1>5, <1>6

LEMMA CompleteRecoveryStep == Inv /\ CompleteRecovery => Inv'
<1> SUFFICES ASSUME Inv, CompleteRecovery PROVE Inv'
  OBVIOUS
<1>1. /\ UNCHANGED <<pointer, auth, required, ledger, journal, child, live, proof>>
      /\ worker' = Idle /\ NoFault
  BY DEF CompleteRecovery
<1>2. updates' = updates /\ attempts' = attempts
  BY <1>1, CountTypes DEF Inv
<1>3. worker' \in Workers /\ worker'.pc \in Neutral
  BY <1>1, WorkerTypes DEF Neutral
<1>4. Posted' /\ Applying'
  BY <1>1, <1>2, <1>3, PostedNeutral, ApplyingKept DEF Inv
<1>5. CASE ~Open(control)
  <2>0. control' = control
    BY <1>5 DEF CompleteRecovery
  <2>1. TypeOK'
    BY <1>1, <1>3, <2>0, CountTypes DEF Inv, TypeOK
  <2> QED BY <1>1, <1>2, <1>4, <2>0, <2>1, FilesKept, UntouchedKept DEF Inv, Filed, files
<1>6. CASE Open(control)
  <2>1. /\ pointer = IF control.forwardOnly THEN control.target ELSE control.baseline
        /\ control' = [control EXCEPT !.phase = "recovered"]
    BY <1>6 DEF CompleteRecovery
  <2>2. control # Null /\ control.phase # "completed"
    BY <1>6 DEF Open
  <2>3. control \in ControlFile /\ Sound(control) /\ ~HandedOver
    BY <2>2, Fields DEF Inv, Shape
  <2>4. /\ control' \in ControlFile /\ SameBut(control, control') /\ control'.phase = "recovered"
        /\ control'.floor = control.floor /\ control'.forwardOnly = control.forwardOnly
        /\ control' # Null
    BY <2>1, <2>3, ControlPhase, Names
  <2>5. TypeOK'
    BY <1>1, <1>3, <2>4, CountTypes DEF Inv, TypeOK, Optional
  <2>6. /\ PairReadable' /\ Eight' /\ Ordered' /\ Chain' /\ Untouched' /\ Clean'
        /\ (HandedOver' <=> HandedOver)
    BY <1>1, <1>2, <2>2, <2>4, ControlWritten
  <2>7. Shape'
    <3>1. Sound(control')
      BY <2>3, <2>4 DEF Sound, SameBut
    <3>2. Selected'
      BY <1>1, <2>1, <2>4 DEF Selected, SameBut
    <3> QED BY <2>3, <2>6, <3>1, <3>2 DEF Shape
  <2> QED BY <1>4, <2>5, <2>6, <2>7 DEF Inv
<1> QED BY <1>5, <1>6

-----------------------------------------------------------------------------
(* Steps that begin a transaction or hand one over                         *)

\* When nothing is to be recovered, the files are settled.
LEMMA SettledFacts ==
  ASSUME Inv, Settled
  PROVE  /\ RuntimeAdmitted(Effective) /\ Accepts(Floor, Effective) /\ Effective \in Versions
         /\ required = Null => Contract[Effective] = Contract[Boot]
         /\ required # Null => /\ required.requirement.target <= Effective
                               /\ InPhase("completed") /\ control # Null
         /\ required # Null => required.requirement.key <= control.key
<1>1. required # Null => InPhase("completed") /\ control # Null
  BY DEF Settled, Pending, Inv, Ordered
<1> QED BY <1>1, SettledAdmits, Fields DEF Inv, Ordered

\* A new transaction over settled files: nothing known belongs to it.
LEMMA TransactionBegun ==
  ASSUME Inv, Settled, UNCHANGED <<auth, required, ledger, journal, live>>,
         control' \in ControlFile, control'.previous = Effective, updates' \in Nat,
         updates <= updates', control'.key <= updates', auth # Null => auth.key = updates',
         control = Null \/ control.key < control'.key,
         control'.forwardOnly => HandedOver'
  PROVE  PairReadable' /\ Eight' /\ Ordered' /\ Chain' /\ Untouched' /\ Clean'
<1>1. control' # Null
  BY NullLemma
<1>2. required # Null => required.requirement.key < control'.key
  <2> SUFFICES ASSUME required # Null PROVE required.requirement.key < control'.key
    OBVIOUS
  <2>1. control # Null /\ required.requirement.key <= control.key
    BY SettledFacts
  <2>2. control.key \in Nat /\ required.requirement.key \in Nat /\ control'.key \in Nat
    BY <2>1, Fields DEF Inv, ControlFile, Keys
  <2> QED BY <2>1, <2>2
<1>3. ~OwnsPair'
  <2>1. required # Null => required.requirement.key # control'.key
    <3> SUFFICES ASSUME required # Null PROVE required.requirement.key # control'.key
      OBVIOUS
    <3>1. required.requirement.key \in Nat /\ control'.key \in Nat
      BY Fields DEF Inv, ControlFile, Keys
    <3> QED BY <1>2, <3>1
  <2> QED BY <1>1, <2>1 DEF OwnsPair, Owns
<1>4. PairReadable' /\ Eight' /\ Clean'
  BY PairKept DEF Inv, Eight, Clean
<1>5. Ordered'
  <2>1. required' # Null => required'.requirement.key <= control'.key
    <3> SUFFICES ASSUME required # Null PROVE required.requirement.key <= control'.key
      OBVIOUS
    <3>1. required.requirement.key \in Nat /\ control'.key \in Nat
      BY Fields DEF Inv, ControlFile, Keys
    <3> QED BY <1>2, <3>1
  <2> QED BY <1>1, <2>1 DEF Ordered
<1>6. Chain'
  BY <1>3, PairKept, SettledFacts DEF Chain, Settled
<1>7. Untouched'
  <2>1. Unfenced' => required = Null
    BY <1>3 DEF Unfenced
  <2>2. required = Null => Unfenced
    BY DEF Unfenced
  <2> QED BY <2>1, <2>2, SettledFacts DEF Inv, Untouched
<1> QED BY <1>4, <1>5, <1>6, <1>7

LEMMA PrepareStep ==
  ASSUME Inv, NEW t \in Versions, NEW migrate \in BOOLEAN, Prepare(t, migrate)
  PROVE  Inv'
<1>1. /\ UNCHANGED <<pointer, auth, required, ledger, journal, child, live, proof, attempts, faults>>
      /\ ~RecoveryPending /\ updates < MaxUpdates /\ Effective <= t /\ Accepts(Floor, Effective)
      /\ control' = [key |-> updates + 1, phase |-> "prepared", baseline |-> pointer,
                     previous |-> Effective, target |-> t, floor |-> Floor, forwardOnly |-> FALSE]
      /\ updates' = updates + 1
      /\ worker' = [pc |-> IF migrate THEN "prepared" ELSE "authorized", key |-> updates + 1]
      /\ migrate => Contract[t] = 8
  <2>1. t \in Nat /\ Effective \in Nat
    BY Fields, Releases DEF Inv
  <2> QED BY <2>1 DEF Prepare
<1>2. Settled /\ auth = Null /\ ~Pending
  BY <1>1, Views DEF RecoveryPending, Settled, HandedOver, Inv
<1>3. updates \in Nat /\ updates + 1 \in Keys /\ updates + 1 \in 0..MaxUpdates
  BY <1>1, ReleaseAssumption DEF Inv, TypeOK, Keys
<1>4. Floor \in Optional(Versions) /\ pointer \in Optional(Versions) /\ Effective \in Versions
  BY Fields DEF Inv, Floor, Optional, TypeOK
<1>5. /\ control' \in ControlFile /\ control'.key = updates + 1 /\ control'.phase = "prepared"
      /\ control'.baseline = pointer /\ control'.previous = Effective /\ control'.target = t
      /\ control'.floor = Floor /\ control'.forwardOnly = FALSE
  BY <1>1, <1>3, <1>4, Names DEF ControlFile
<1>6. control' # Null
  BY <1>5, NullLemma
<1>7. worker' \in Workers /\ worker'.pc \in {"prepared", "authorized"} /\ (worker'.pc = "prepared" => migrate)
  BY <1>1, <1>3, Names DEF Workers
<1>8. TypeOK'
  BY <1>1, <1>3, <1>5, <1>7 DEF Inv, TypeOK, Optional
<1>9. PairReadable' /\ Eight' /\ Ordered' /\ Chain' /\ Untouched' /\ Clean'
  <2>1. control = Null \/ control.key < updates + 1
    <3>1. control # Null => control.key \in Nat /\ control.key <= updates
      BY Fields DEF Inv, Ordered
    <3> QED BY <1>3, <3>1
  <2> QED BY <1>1, <1>2, <1>3, <1>5, <2>1, TransactionBegun
<1>10. Shape'
  <2>1. Sound(control')
    BY <1>1, <1>5 DEF Sound, Effective
  <2> QED BY <1>1, <1>2, <1>5, <2>1 DEF Shape, Selected, HandedOver
<1>11. Posted'
  <2>1. ~Pending'
    BY <1>1, <1>2, PairKept
  <2> QED BY <1>1, <1>2, <1>5, <1>6, <1>7, <2>1 DEF Posted, At
<1>12. Applying'
  BY <1>1, ApplyingKept DEF Inv
<1> QED BY <1>8, <1>9, <1>10, <1>11, <1>12 DEF Inv

LEMMA SaveAuthorizationStep ==
  ASSUME Inv, NEW t \in Versions, SaveTargetAuthorization(t)
  PROVE  Inv'
<1>1. /\ UNCHANGED <<control, pointer, required, ledger, journal, child, live, proof, attempts, faults>>
      /\ ~RecoveryPending /\ updates < MaxUpdates /\ Effective <= t /\ Contract[t] = 8
      /\ auth' = Requirement(updates + 1, t, Effective) /\ updates' = updates + 1
      /\ worker' = [pc |-> "handoff", key |-> updates + 1]
  <2>1. t \in Nat /\ Effective \in Nat
    BY Fields, Releases DEF Inv
  <2> QED BY <2>1 DEF SaveTargetAuthorization
<1>2. Settled /\ auth = Null /\ ~Pending
  BY <1>1, Views DEF RecoveryPending, Settled, HandedOver, Inv
<1>3. updates \in Nat /\ updates + 1 \in Keys /\ updates + 1 \in 0..MaxUpdates
  BY <1>1, ReleaseAssumption DEF Inv, TypeOK, Keys
<1>4. auth' \in Requirements /\ auth'.key = updates + 1 /\ auth'.target = t
  <2>1. Inventory \in SUBSET Accounts /\ Deferred \in SUBSET Accounts /\ Effective \in Versions
    BY Fields DEF Inventory, Deferred, Inv
  <2> QED BY <1>1, <1>3, <2>1 DEF Requirement, Requirements
<1>5. auth' # Null
  BY <1>4, NullLemma
<1>6. worker' \in Workers /\ worker'.pc = "handoff"
  BY <1>1, <1>3, WorkerTypes, Names
<1>7. TypeOK'
  BY <1>1, <1>3, <1>4, <1>6 DEF Inv, TypeOK, Optional
<1>8. ~HandedOver' /\ ~HandedOver
  <2>1. control # Null => control.key # updates + 1
    <3>1. control # Null => control.key \in Nat /\ control.key <= updates
      BY Fields DEF Inv, Ordered
    <3> QED BY <1>3, <3>1
  <2> QED BY <1>1, <1>2, <1>4, <2>1 DEF HandedOver, Owns
<1>9. PairReadable' /\ Eight' /\ Chain' /\ Clean'
  BY <1>1, <1>4, PairKept DEF Inv, Eight, Chain, Clean, OwnsPair, Owns
<1>10. Ordered'
  <2>1. control # Null => control.key <= updates + 1
    <3>1. control # Null => control.key \in Nat /\ control.key <= updates
      BY Fields DEF Inv, Ordered
    <3> QED BY <1>3, <3>1
  <2> QED BY <1>1, <1>4, <2>1 DEF Inv, Ordered
<1>11. Shape'
  <2>1. control' # Null => Sound(control)'
    BY <1>1 DEF Inv, Shape, Sound, Accepts
  <2>2. Selected'
    BY <1>1, <1>8 DEF Inv, Shape, Selected
  <2> QED BY <1>8, <2>1, <2>2 DEF Shape
<1>12. Untouched'
  <2>1. Unfenced' = Unfenced
    BY <1>1 DEF Unfenced, OwnsPair, Owns
  <2> QED BY <1>1, <1>8, <2>1 DEF Inv, Untouched
<1>13. Posted'
  <2>1. ~Pending' /\ ~Open(control)' /\ (Effective <= auth.target)'
    BY <1>1, <1>2, <1>4, PairKept DEF Settled, Open, Effective
  <2> QED BY <1>5, <1>6, <1>8, <2>1 DEF Posted, At, HandedOver
<1>14. Applying'
  BY <1>1, ApplyingKept DEF Inv
<1> QED BY <1>7, <1>9, <1>10, <1>11, <1>12, <1>13, <1>14 DEF Inv

LEMMA DiscardStep == Inv /\ DiscardAuthorization => Inv'
<1> SUFFICES ASSUME Inv, DiscardAuthorization PROVE Inv'
  OBVIOUS
<1>1. /\ UNCHANGED <<control, pointer, required, ledger, journal, child, live, proof>>
      /\ auth' = Null /\ worker' = Idle /\ NoFault /\ ~HandedOver
  BY DEF DiscardAuthorization, HandedOver
<1>2. updates' = updates /\ attempts' = attempts
  BY <1>1, CountTypes DEF Inv
<1>3. worker' \in Workers /\ worker'.pc \in Neutral
  BY <1>1, WorkerTypes DEF Neutral
<1>4. TypeOK'
  BY <1>1, <1>3, CountTypes DEF Inv, TypeOK, Optional
<1>5. ~HandedOver'
  BY <1>1 DEF HandedOver
<1>6. PairReadable' /\ Eight' /\ Ordered' /\ Chain' /\ Clean'
  BY <1>1, <1>2, PairKept DEF Inv, Eight, Ordered, Chain, Clean, OwnsPair, Owns
<1>7. Shape'
  <2>1. control' # Null => Sound(control)'
    BY <1>1 DEF Inv, Shape, Sound, Accepts
  <2>2. Selected'
    BY <1>1, <1>5 DEF Inv, Shape, Selected
  <2> QED BY <1>5, <2>1, <2>2 DEF Shape
<1>8. Untouched'
  <2>1. Unfenced' = Unfenced
    BY <1>1 DEF Unfenced, OwnsPair, Owns
  <2> QED BY <1>1, <1>5, <2>1 DEF Inv, Untouched
<1>9. Posted' /\ Applying'
  BY <1>1, <1>2, <1>3, PostedNeutral, ApplyingKept DEF Inv
<1> QED BY <1>4, <1>6, <1>7, <1>8, <1>9 DEF Inv

LEMMA HandoffStep == Inv /\ HandoffTarget => Inv'
<1> SUFFICES ASSUME Inv, HandoffTarget PROVE Inv'
  OBVIOUS
<1>1. /\ UNCHANGED <<auth, required, ledger, journal, child, live, proof>> /\ At("handoff")
      /\ control' = [key |-> auth.key, phase |-> "completed", baseline |-> pointer,
                     previous |-> Effective, target |-> auth.target,
                     floor |-> auth.target, forwardOnly |-> TRUE]
      /\ \/ pointer' = auth.target /\ Go("apply") /\ NoFault
         \/ pointer' = pointer /\ worker' = Idle /\ Fault
  BY DEF HandoffTarget, HandoffInOrder, Writes
<1>2. auth # Null /\ ~Pending /\ ~Open(control) /\ ~Owns(auth.key) /\ Effective <= auth.target
  BY <1>1 DEF Inv, Posted
<1>3. Settled
  BY <1>2 DEF Settled, HandedOver
<1>4. /\ auth \in Requirements /\ auth.target \in Versions /\ auth.key \in Keys
      /\ auth.key = updates /\ Contract[auth.target] = 8
  BY <1>2, Fields DEF Inv, Ordered, Eight, Requirements
<1>5. /\ control' \in ControlFile /\ control'.key = auth.key /\ control'.phase = "completed"
      /\ control'.previous = Effective /\ control'.target = auth.target
      /\ control'.floor = auth.target /\ control'.forwardOnly = TRUE
  <2>1. pointer \in Optional(Versions) /\ Effective \in Versions
    BY Fields DEF Inv, TypeOK
  <2> QED BY <1>1, <1>4, <2>1, Names DEF ControlFile, Optional
<1>6. control' # Null /\ updates' = updates /\ attempts' = attempts
  BY <1>1, <1>5, NullLemma, CountTypes DEF Inv
<1>7. worker' \in Workers /\ worker'.pc \in Neutral
  BY <1>1, GoType, WorkerTypes, Names DEF Inv, Neutral
<1>8. TypeOK'
  <2>1. pointer' \in Optional(Versions)
    BY <1>1, <1>4 DEF Inv, TypeOK, Optional
  <2> QED BY <1>1, <1>5, <1>7, <2>1, CountTypes DEF Inv, TypeOK, Optional
<1>9. HandedOver'
  BY <1>1, <1>2, <1>5, <1>6 DEF HandedOver, Owns
<1>10. PairReadable' /\ Eight' /\ Ordered' /\ Chain' /\ Untouched' /\ Clean'
  <2>1. updates \in Nat
    BY Fields DEF Inv
  <2>2. control = Null \/ control.key < auth.key
    <3>1. control # Null => control.key \in Nat /\ control.key <= updates /\ control.key # auth.key
      BY <1>2, Fields DEF Inv, Ordered, Owns
    <3> QED BY <1>4, <2>1, <3>1
  <2>3. control'.key <= updates' /\ updates <= updates'
    BY <1>4, <1>5, <1>6, <2>1
  <2> QED BY <1>1, <1>3, <1>4, <1>5, <1>6, <1>9, <2>1, <2>2, <2>3, TransactionBegun
<1>11. Shape'
  <2>1. Sound(control')
    BY <1>2, <1>4, <1>5 DEF Sound
  <2> QED BY <1>1, <1>5, <1>9, <2>1 DEF Shape, Selected
<1>12. Posted' /\ Applying'
  BY <1>1, <1>6, <1>7, PostedNeutral, ApplyingKept DEF Inv
<1> QED BY <1>8, <1>10, <1>11, <1>12 DEF Inv

-----------------------------------------------------------------------------
(* Steps that write the marker                                             *)

LEMMA RequiredTypes ==
  ASSUME NEW req \in Requirements, NEW prior \in Optional(Requirements)
  PROVE  LET r == [requirement |-> req, prior |-> prior] IN
         r \in RequiredFile /\ r # Null /\ BaseLedger(r) \in LedgerFile /\ BaseLedger(r) # Null
<1> DEFINE r == [requirement |-> req, prior |-> prior]
<1>1. r \in RequiredFile
  BY DEF RequiredFile
<1> HIDE DEF r
<1>2. 0 \in 0..MaxAttempts
  BY ReleaseAssumption
<1>3. BaseLedger(r) \in LedgerFile
  BY <1>1, <1>2, Names DEF BaseLedger, LedgerFile
<1> QED BY <1>1, <1>3, NullLemma DEF r

\* A marker of the running transaction supersedes what was known, which was
\* complete; a ledger left beside it is the predecessor's.
LEMMA MarkerWritten ==
  ASSUME Inv, UNCHANGED <<control, journal, live>>, updates' = updates, ~Pending, ~OwnsPair,
         control # Null, NEW req \in Requirements, req.key = control.key,
         req.target = control.target, Contract[req.target] = 8,
         required' = NewRequired(req), ledger' \in {ledger, BaseLedger(required')},
         auth' \in {auth, Null}
  PROVE  /\ required' \in RequiredFile /\ ledger' \in Optional(LedgerFile)
         /\ PairReadable' /\ Eight' /\ Ordered' /\ Chain' /\ Untouched' /\ Clean'
         /\ \A p \in {"applying", "completed"} : ~InPhase(p)'
<1>1. required' = [requirement |-> req, prior |-> IF required = Null THEN Null ELSE required.requirement]
  BY Views DEF NewRequired, Inv
<1>2. (IF required = Null THEN Null ELSE required.requirement) \in Optional(Requirements)
  BY Fields DEF Optional, Inv
<1>3. /\ required' \in RequiredFile /\ required' # Null
      /\ BaseLedger(required') \in LedgerFile /\ BaseLedger(required') # Null
  BY <1>1, <1>2, RequiredTypes
<1>4. /\ required'.requirement = req
      /\ required'.prior = IF required = Null THEN Null ELSE required.requirement
  BY <1>1
<1>5. required = Null => ledger = Null
  BY DEF Inv, PairReadable
<1>6. required # Null => /\ ledger # Null /\ ledger.required = required
                         /\ ledger.phase = "completed" /\ InPhase("completed")
  BY DEF Pending, InPhase, Current
<1>7. required # Null => /\ required.requirement.key \in Nat
                         /\ required.requirement.key < req.key
                         /\ required.requirement # Null /\ required # required'
  <2> SUFFICES ASSUME required # Null
               PROVE  /\ required.requirement.key \in Nat
                      /\ required.requirement.key < req.key
                      /\ required.requirement # Null /\ required # required'
    OBVIOUS
  <2>1. /\ required.requirement.key \in Nat /\ control.key \in Nat /\ required.requirement # Null
        /\ required.requirement.key <= control.key /\ required.requirement.key # control.key
    BY Fields, NullLemma DEF Inv, Ordered, OwnsPair, Owns
  <2> QED BY <1>4, <2>1
<1>8. /\ BaseLedger(required').required = required'
      /\ BaseLedger(required').phase = "authorized"
  BY DEF BaseLedger
<1>9. PairReadable'
  <2>1. CASE ledger' = ledger
    BY <1>3, <1>4, <1>5, <1>6, <2>1 DEF PairReadable
  <2>2. CASE ledger' = BaseLedger(required')
    BY <1>3, <1>8, <2>2 DEF PairReadable
  <2> QED BY <2>1, <2>2
<1>10. \A p \in {"applying", "completed"} : ~InPhase(p)'
  <2>1. CASE ledger' = ledger
    BY <1>5, <1>6, <1>7, <2>1 DEF InPhase, Current
  <2>2. CASE ledger' = BaseLedger(required')
    BY <1>8, <2>2 DEF InPhase
  <2> QED BY <2>1, <2>2
<1>11. Eight'
  BY <1>4, <1>7 DEF Inv, Eight
<1>12. Ordered'
  <2>1. req.key <= control.key
    BY Fields DEF Inv
  <2> QED BY <1>3, <1>4, <2>1 DEF Inv, Ordered
<1>13. OwnsPair'
  BY <1>3, <1>4 DEF OwnsPair, Owns
<1>14. Chain'
  BY <1>4, <1>10, <1>13 DEF Inv, Chain
<1>15. Clean'
  BY <1>4, <1>6, <1>10 DEF Inv, Clean
<1>16. Untouched'
  <2>1. Unfenced' => required = Null
    BY <1>3, <1>4, <1>7 DEF Unfenced
  <2> QED BY <1>3, <2>1 DEF Inv, Untouched, Unfenced
<1> QED BY <1>3, <1>9, <1>10, <1>11, <1>12, <1>14, <1>15, <1>16 DEF Optional, Inv, TypeOK

LEMMA AuthorizeStep == Inv /\ Authorize => Inv'
<1> SUFFICES ASSUME Inv, Authorize PROVE Inv'
  OBVIOUS
<1> DEFINE req == Requirement(control.key, control.target, control.previous)
<1>1. /\ UNCHANGED <<control, pointer, auth, journal, child, live, proof>> /\ At("prepared")
      /\ required' = NewRequired(req)
      /\ \/ ledger' = BaseLedger(required') /\ Go("authorized") /\ NoFault
         \/ ledger' = ledger /\ worker' = Idle /\ Fault
  BY DEF Authorize, AuthorizeInOrder, Writes
<1>2. /\ auth = Null /\ ~Pending /\ control # Null /\ control.phase = "prepared"
      /\ Contract[control.target] = 8
  BY <1>1 DEF Inv, Posted
<1>3. ~control.forwardOnly
  BY <1>2 DEF Inv, Shape, Sound
<1>4. ~OwnsPair
  BY <1>2, <1>3 DEF Inv, Chain, Pending, OwnsPair
<1>5. req \in Requirements /\ req.key = control.key /\ req.target = control.target
  <2>1. Inventory \in SUBSET Accounts /\ Deferred \in SUBSET Accounts
    BY DEF Inventory, Deferred
  <2>2. control.key \in Keys /\ control.target \in Versions /\ control.previous \in Versions
    BY <1>2, Fields DEF Inv, ControlFile
  <2> QED BY <2>1, <2>2 DEF Requirement, Requirements
<1> HIDE DEF req
<1>6. updates' = updates /\ attempts' = attempts
  BY <1>1, CountTypes DEF Inv
<1>7. /\ required' \in RequiredFile /\ ledger' \in Optional(LedgerFile)
      /\ PairReadable' /\ Eight' /\ Ordered' /\ Chain' /\ Untouched' /\ Clean'
      /\ \A p \in {"applying", "completed"} : ~InPhase(p)'
  BY <1>1, <1>2, <1>4, <1>5, <1>6, MarkerWritten
<1>8. worker' \in Workers /\ worker'.pc \in {"authorized", "idle"}
  BY <1>1, GoType, WorkerTypes, Names DEF Inv
<1>9. TypeOK'
  BY <1>1, <1>7, <1>8, CountTypes DEF Inv, TypeOK, Optional
<1>10. Shape'
  <2>1. Sound(control)'
    BY <1>1, <1>2 DEF Inv, Shape, Sound, Accepts
  <2>2. ~HandedOver' /\ ~HandedOver
    BY <1>1, <1>2 DEF HandedOver
  <2>3. Selected'
    BY <1>1, <2>2 DEF Inv, Shape, Selected
  <2> QED BY <2>1, <2>2, <2>3 DEF Shape
<1>11. Posted'
  BY <1>1, <1>2, <1>8 DEF Posted, At
<1>12. Applying'
  BY <1>1, <1>6, <1>7 DEF Inv, Applying, Applies
<1> QED BY <1>7, <1>9, <1>10, <1>11, <1>12 DEF Inv

LEMMA ConsumeStep == Inv /\ ConsumeAuthorization => Inv'
<1> SUFFICES ASSUME Inv, ConsumeAuthorization PROVE Inv'
  OBVIOUS
<1> DEFINE r == IF KnownKey = auth.key THEN Known ELSE NewRequired(auth)
           l == IF KnownKey = auth.key /\ Ledger # Null THEN Ledger ELSE BaseLedger(r)
<1>1. /\ UNCHANGED <<control, pointer, journal, child, live, proof>>
      /\ auth # Null /\ Owns(auth.key) /\ pointer = auth.target
      /\ required' = r /\ ledger' \in {ledger, l} /\ auth' \in {auth, Null}
      /\ \/ Go("apply") /\ NoFault
         \/ worker' = Idle /\ Fault
  BY DEF ConsumeAuthorization
<1>2. /\ HandedOver /\ control # Null /\ control.forwardOnly /\ control.key = auth.key
      /\ control.target = auth.target /\ control.phase = "completed" /\ auth \in Requirements
      /\ Contract[auth.target] = 8 /\ auth.key \in Nat /\ auth.key # 0
  <2>1. HandedOver /\ control # Null /\ control.key = auth.key
    BY <1>1 DEF HandedOver, Owns
  <2>2. auth \in Requirements /\ auth.key \in Nat /\ auth.key # 0
    BY <1>1, Fields DEF Inv, Requirements, Keys
  <2> QED BY <1>1, <2>1, <2>2 DEF Inv, Shape, Eight
<1>3. updates' = updates /\ attempts' = attempts
  BY <1>1, CountTypes DEF Inv
<1>4. worker' \in Workers /\ worker'.pc \in Neutral
  BY <1>1, GoType, WorkerTypes, Names DEF Inv, Neutral
<1>5. Shape'
  <2>1. Sound(control)'
    BY <1>1, <1>2 DEF Inv, Shape, Sound, Accepts
  <2>2. Selected'
    BY <1>1, <1>2 DEF Selected
  <2>3. HandedOver' => auth' = auth
    BY <1>1 DEF HandedOver
  <2> QED BY <1>1, <1>2, <2>1, <2>2, <2>3 DEF Shape
<1>6. CASE KnownKey # auth.key
  <2>1. required' = NewRequired(auth) /\ ledger' \in {ledger, BaseLedger(required')}
    BY <1>1, <1>6
  <2>2. ~OwnsPair
    BY <1>2, <1>6, Views DEF OwnsPair, Owns, Inv
  <2>3. ~Pending
    BY <2>2 DEF Pending, Inv, Chain
  <2> HIDE DEF r, l
  <2>4. /\ required' \in RequiredFile /\ ledger' \in Optional(LedgerFile)
        /\ PairReadable' /\ Eight' /\ Ordered' /\ Chain' /\ Untouched' /\ Clean'
        /\ \A p \in {"applying", "completed"} : ~InPhase(p)'
    BY <1>1, <1>2, <1>3, <2>1, <2>2, <2>3, MarkerWritten
  <2>5. TypeOK'
    BY <1>1, <1>4, <2>4, CountTypes DEF Inv, TypeOK, Optional
  <2>6. Applying'
    BY <1>1, <1>3, <2>4 DEF Inv, Applying, Applies
  <2> QED BY <1>4, <1>5, <2>4, <2>5, <2>6, PostedNeutral DEF Inv
<1>7. CASE KnownKey = auth.key
  <2>1. required # Null /\ required' = required /\ OwnsPair
    BY <1>1, <1>2, <1>7, Views DEF OwnsPair, Owns, Inv
  <2>2. ledger' = ledger \/ (ledger' = BaseLedger(required) /\ ~Current)
    <3>1. CASE Current
      <4>1. Ledger = ledger /\ ledger # Null
        BY <3>1, Views DEF Current, Inv
      <4> QED BY <1>1, <1>7, <4>1
    <3>2. CASE ~Current
      BY <1>1, <1>7, <3>2, Views DEF Inv
    <3> QED BY <3>1, <3>2
  <2> HIDE DEF r, l
  <2>3. /\ BaseLedger(required) \in LedgerFile /\ BaseLedger(required) # Null
        /\ BaseLedger(required).required = required /\ BaseLedger(required).phase = "authorized"
    <3>1. BaseLedger(required) \in LedgerFile
      <4>1. required \in RequiredFile /\ 0 \in 0..MaxAttempts
        BY <2>1, Fields, ReleaseAssumption DEF Inv
      <4> QED BY <4>1, Names DEF BaseLedger, LedgerFile
    <3> QED BY <3>1, NullLemma DEF BaseLedger
  <2>4. PairReadable' /\ \A p \in {"applying", "completed"} : InPhase(p)' <=> InPhase(p)
    <3>1. CASE ledger' = ledger
      BY <2>1, <3>1, PairKept DEF Inv
    <3>2. CASE ledger' = BaseLedger(required) /\ ~Current
      BY <2>1, <2>3, <3>2 DEF PairReadable, InPhase, Current
    <3> QED BY <2>2, <3>1, <3>2
  <2>5. TypeOK'
    <3>1. ledger' \in Optional(LedgerFile)
      BY <2>2, <2>3 DEF Inv, TypeOK, Optional
    <3> QED BY <1>1, <1>4, <2>1, <3>1, CountTypes DEF Inv, TypeOK, Optional
  <2>6. Eight' /\ Ordered' /\ Chain' /\ Clean'
    <3>1. Eight' /\ Ordered'
      BY <1>1, <1>3, <2>1 DEF Inv, Eight, Ordered
    <3>2. OwnsPair' /\ (Pending' <=> Pending)
      BY <1>1, <2>1, <2>4 DEF OwnsPair, Owns, Pending
    <3> QED BY <1>1, <2>1, <2>4, <3>1, <3>2 DEF Inv, Chain, Clean
  <2>7. Untouched'
    <3>1. ~Unfenced'
      BY <1>1, <1>2, <2>1 DEF Unfenced
    <3> QED BY <2>1, <3>1 DEF Untouched
  <2>8. Applying'
    <3>1. CASE ledger' = ledger
      BY <1>1, <1>3, <2>1, <3>1, ApplyingKept DEF Inv
    <3>2. CASE ledger' = BaseLedger(required) /\ ~Current
      <4>1. ~InPhase("applying")'
        BY <2>4, <3>2 DEF InPhase
      <4> QED BY <1>1, <1>3, <4>1 DEF Inv, Applying, Applies
    <3> QED BY <2>2, <3>1, <3>2
  <2> QED BY <1>4, <1>5, <2>4, <2>5, <2>6, <2>7, <2>8, PostedNeutral DEF Inv
<1> QED BY <1>6, <1>7

LEMMA AbandonStep == Inv /\ Abandon => Inv'
<1> SUFFICES ASSUME Inv, Abandon PROVE Inv'
  OBVIOUS
<1> DEFINE prior == required.prior
           restored == [requirement |-> prior, prior |-> Null]
<1>1. /\ UNCHANGED <<control, pointer, auth, journal, child, live, proof>> /\ At("selected")
      /\ Pending /\ Owns(KnownKey) /\ ~control.forwardOnly
      /\ NoFault \/ Fault
      /\ Go("selected") \/ worker' = Idle
      /\ IF prior = Null
         THEN ledger' = Null /\ required' \in {Null, required}
         ELSE /\ ledger' = [required |-> restored, phase |-> "completed", attempt |-> 0,
                            progress |-> prior.inventory]
              /\ required' \in {restored, required}
  BY Views DEF Abandon, Writes, Inv
<1>2. required # Null /\ OwnsPair /\ auth = Null /\ control # Null
  BY <1>1, Views DEF Pending, OwnsPair, Owns, Inv, Posted
<1>3. updates' = updates /\ attempts' = attempts
  BY <1>1, CountTypes DEF Inv
<1>4. worker' \in Workers /\ worker'.pc \in {"idle", "selected"}
  BY <1>1, GoType, WorkerTypes, Names DEF Inv
<1>5. Posted'
  BY <1>1, <1>2, <1>4 DEF Posted, At
<1>6. Shape' /\ ~HandedOver
  <2>1. Sound(control)'
    BY <1>1, <1>2 DEF Inv, Shape, Sound, Accepts
  <2>2. ~HandedOver' /\ ~HandedOver
    BY <1>1, <1>2 DEF HandedOver
  <2>3. Selected'
    BY <1>1, <2>2 DEF Inv, Shape, Selected
  <2> QED BY <2>1, <2>2, <2>3 DEF Shape
<1>7. CASE prior = Null
  <2>1. ledger' = Null /\ required' \in {Null, required}
    BY <1>1, <1>7
  <2>2. TypeOK'
    BY <1>1, <1>4, <2>1, CountTypes DEF Inv, TypeOK, Optional
  <2>3. PairReadable' /\ Eight' /\ Ordered' /\ \A p : ~InPhase(p)'
    BY <1>1, <1>3, <2>1 DEF Inv, PairReadable, Eight, Ordered, InPhase, Current
  <2>4. required' = required => OwnsPair'
    BY <1>1, <1>2 DEF OwnsPair, Owns
  <2>5. Chain' /\ Clean'
    BY <1>1, <1>2, <1>7, <2>1, <2>3, <2>4 DEF Inv, Chain, Clean
  <2>6. Untouched'
    <3>1. Unfenced
      BY <1>1, <1>2, <1>7 DEF Unfenced
    <3> QED BY <1>1, <1>2, <3>1 DEF Inv, Untouched
  <2>7. Applying'
    BY <1>1, <1>3, <2>3 DEF Inv, Applying, Applies
  <2> QED BY <1>5, <1>6, <2>2, <2>3, <2>5, <2>6, <2>7 DEF Inv
<1>8. CASE prior # Null
  <2>1. /\ prior \in Requirements /\ prior.key \in Nat /\ required.requirement.key \in Nat
        /\ Contract[prior.target] = 8 /\ prior.key < required.requirement.key
        /\ prior.target <= control.previous /\ control.key = required.requirement.key
    BY <1>2, <1>8, Fields DEF Inv, Eight, Chain, OwnsPair, Owns
  <2>2. restored \in RequiredFile /\ restored # Null
    BY <2>1, RequiredTypes DEF Optional
  <2>3. restored.requirement = prior /\ restored.prior = Null /\ restored # required
    BY <2>1
  <2>4. /\ ledger' \in LedgerFile /\ ledger'.required = restored /\ ledger'.phase = "completed"
        /\ required' \in {restored, required}
    <3>1. prior.inventory \in SUBSET Accounts /\ 0 \in 0..MaxAttempts
      BY <2>1, ReleaseAssumption DEF Requirements
    <3> HIDE DEF prior, restored
    <3> QED BY <1>1, <1>8, <2>2, <3>1, Names DEF LedgerFile
  <2>5. ledger' # Null
    BY <2>4, NullLemma
  <2>6. TypeOK'
    <3> HIDE DEF restored
    <3> QED BY <1>1, <1>4, <2>2, <2>4, CountTypes DEF Inv, TypeOK, Optional
  <2>7. \A a \in Accounts : journal[a] # 7
    BY <1>2, <1>8 DEF Inv, Clean
  <2>8. Clean'
    BY <1>1, <2>7 DEF Clean
  <2> HIDE DEF restored
  <2>9. ~InPhase("applying")'
    BY <2>4 DEF InPhase
  <2>10. Applying'
    BY <1>1, <1>3, <2>9 DEF Inv, Applying, Applies
  <2>11. CASE required' = restored
    <3>1. PairReadable' /\ Eight'
      BY <1>1, <2>1, <2>2, <2>3, <2>4, <2>11 DEF Inv, PairReadable, Eight
    <3>2. Ordered'
      <4>1. prior.key <= control.key
        BY <2>1
      <4> HIDE DEF prior
      <4> QED BY <1>1, <1>2, <1>3, <2>3, <2>11, <4>1 DEF Inv, Ordered
    <3>3. ~OwnsPair' /\ ~Pending'
      <4>1. prior.key # control.key
        BY <2>1
      <4>2. InPhase("completed")'
        BY <2>4, <2>5, <2>11 DEF InPhase, Current
      <4> HIDE DEF prior
      <4> QED BY <1>1, <2>3, <2>11, <4>1, <4>2 DEF OwnsPair, Owns, Pending
    <3>4. Chain'
      BY <1>1, <2>1, <2>3, <2>11, <3>3 DEF Chain
    <3>5. Untouched'
      BY <2>2, <2>11, <3>3 DEF Untouched, Unfenced
    <3> QED BY <1>5, <1>6, <2>6, <2>8, <2>10, <3>1, <3>2, <3>4, <3>5 DEF Inv
  <2>12. CASE required' = required
    <3>1. PairReadable' /\ Eight' /\ Ordered'
      BY <1>1, <1>2, <1>3, <2>3, <2>4, <2>12 DEF Inv, PairReadable, Eight, Ordered
    <3>2. OwnsPair' /\ Pending' /\ \A p : ~InPhase(p)'
      <4>1. \A p : ~InPhase(p)'
        BY <2>3, <2>4, <2>12 DEF InPhase, Current
      <4> QED BY <1>1, <1>2, <2>12, <4>1 DEF OwnsPair, Owns, Pending
    <3>3. Chain'
      BY <1>1, <1>2, <2>12, <3>2 DEF Inv, Chain
    <3>4. Untouched'
      BY <1>2, <1>8, <2>12 DEF Untouched, Unfenced
    <3> QED BY <1>5, <1>6, <2>6, <2>8, <2>10, <3>1, <3>3, <3>4 DEF Inv
  <2> QED BY <2>4, <2>11, <2>12
<1> QED BY <1>7, <1>8

-----------------------------------------------------------------------------
(* The theorems                                                            *)

LEMMA InvInit == Init => Inv
<1> SUFFICES ASSUME Init PROVE Inv
  OBVIOUS
<1>1. TypeOK
  <2>1. Contract[Boot] \in {7, 8}
    BY Releases
  <2>2. journal \in [Accounts -> {0, 1, 7, 8}]
    BY <2>1 DEF Init
  <2>3. [pc |-> "none", done |-> {}] \in Children
    BY Names DEF Children
  <2>4. child \in [1..MaxAttempts -> Children]
    BY <2>3 DEF Init
  <2>5. worker \in Workers
    BY WorkerTypes DEF Init, Idle
  <2>6. 0 \in 0..MaxUpdates /\ 0 \in 0..MaxAttempts /\ 0 \in 0..MaxFaults
    BY ReleaseAssumption
  <2> QED BY <2>2, <2>4, <2>5, <2>6, Releases DEF Init, TypeOK, Optional
<1>2. PairReadable /\ Eight /\ Ordered /\ Chain /\ Clean
  BY DEF Init, PairReadable, Eight, Ordered, Chain, Clean
<1>3. Shape
  BY DEF Init, Shape, Selected, HandedOver
<1>4. Untouched
  BY DEF Init, Untouched
<1>5. Posted
  BY DEF Init, Posted, At
<1>6. Applying
  BY DEF Init, Applying, Applies, InPhase, Current
<1> QED BY <1>1, <1>2, <1>3, <1>4, <1>5, <1>6 DEF Inv

LEMMA InvStep == Inv /\ [Next]_vars => Inv'
<1> SUFFICES ASSUME Inv, [Next]_vars PROVE Inv'
  OBVIOUS
<1>1. CASE Update
  <2>1. \/ Authorize \/ Begin \/ Fence \/ HandoffTarget \/ ConsumeAuthorization \/ NextAttempt
        \/ QuietWork \/ Complete
    BY <1>1 DEF Update, QuietWork
  <2> QED BY <2>1, AuthorizeStep, BeginStep, FenceStep, HandoffStep, ConsumeStep, NextAttemptStep,
             QuietWorkStep, CompleteStep
<1>2. CASE Recover
  <2>1. \/ QuietWork \/ DiscardAuthorization \/ RepairTargetPointer \/ RecoverSelection
        \/ Abandon \/ CompleteRecovery
    BY <1>2 DEF Recover, QuietWork
  <2> QED BY <2>1, QuietWorkStep, DiscardStep, RepairStep, RecoverSelectionStep, AbandonStep,
             CompleteRecoveryStep
<1>3. CASE Refused \/ Fails
  BY <1>3, QuietWorkStep DEF QuietWork
<1>4. CASE Runtime
  BY <1>4, RuntimeQuiet, InitializeStep DEF Runtime
<1>5. ASSUME NEW a \in 1..MaxAttempts, Apply(a) \/ Superseded(a) \/ Dies(a) PROVE Inv'
  BY <1>5, ProcessStep, FinishStep, MigrateStep, ProgressStep DEF Apply
<1>6. ASSUME NEW t \in Versions,
             SaveTargetAuthorization(t) \/ \E mig \in BOOLEAN : Prepare(t, mig)
      PROVE  Inv'
  BY <1>6, SaveAuthorizationStep, PrepareStep
<1>7. CASE UNCHANGED vars
  <2>1. UNCHANGED <<files, journal, worker, child, live, proof, counts>>
    BY <1>7 DEF vars
  <2>2. TypeOK'
    BY <2>1 DEF Inv, TypeOK, files, counts
  <2> QED BY <2>1, <2>2, FilesKept, UntouchedKept, PostedKept, ApplyingKept DEF Inv, Filed, files, counts
<1> QED BY <1>1, <1>2, <1>3, <1>4, <1>5, <1>6, <1>7 DEF Next

LEMMA InvAlways == Spec => []Inv
BY InvInit, InvStep, PTL DEF Spec

\* The marker and the ledger are readable together after every crash between two
\* writes (authorize, consumeTargetAuthorization, abandon, readCaptureMigrationPair).
THEOREM PairIsReadable == Spec => []PairReadable
<1>1. Inv => PairReadable
  BY DEF Inv
<1> QED BY <1>1, InvAlways, PTL

\* A runtime that is admitted to capture reads and writes the format of every
\* journal, old and new runtimes alike (guardCaptureRuntimeWrite).
THEOREM AdmittedCanRead == Spec => []AdmittedReads
BY InvImplies, InvAlways, PTL

\* With nothing left to recover, the selected runtime is admitted and can read the
\* journals: no crash leaves an installation that cannot start (recoverSelection).
THEOREM NobodyIsStranded == Spec => []NeverStranded
BY InvImplies, InvAlways, PTL

\* A completed ledger means that no journal is left in the old format, however many
\* attempts it took (applyCaptureMigrationEntry, receiptFor).
THEOREM ReceiptIsTruthful == Spec => []ReceiptTruthful
BY InvImplies, InvAlways, PTL
=============================================================================
