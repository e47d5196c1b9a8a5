---------------------------- MODULE CaptureUpdate ----------------------------
(***************************************************************************)
(* Managed updates and the capture migration they carry out.  Five files   *)
(* decide which runtime runs and which one may write captured data:        *)
(*   control.json   (control)   the update transaction and the reader floor*)
(*   runtime.json   (pointer)   the selected runtime                       *)
(*   the target authorization   (auth)                                     *)
(*   capture-migration.required.json and capture-migration.json            *)
(*                              (required, ledger): the migration          *)
(* They are written one after the other by an update worker that may die   *)
(* between any two writes.  Work inside one admission barrier is one       *)
(* action, with a crash after each of its writes as an alternative.        *)
(* The worker holds update ownership and Collector maintenance throughout  *)
(* (see CollectorDaemon), so there is one worker at a time.                *)
(***************************************************************************)
EXTENDS Naturals, FiniteSets

CONSTANTS Versions,     \* the releases, ordered as numbers; Boot is installed by npm
          Boot,
          Contract,     \* [Versions -> {7, 8}]: the journal format a release writes
          Accounts,
          Null,
          MaxUpdates,   \* bound: update transactions
          MaxAttempts,  \* bound: apply attempts
          MaxFaults     \* bound: crashes, failed steps and deadlines

Optional(S) == S \cup {Null}
Keys == 1..MaxUpdates
Requirements == [key : Keys, target : Versions, source : Versions,
                 inventory : SUBSET Accounts, deferred : SUBSET Accounts]
RequiredFile == [requirement : Requirements, prior : Optional(Requirements)]
ControlPhases == {"prepared", "begun", "fenced", "recovering", "completed", "recovered"}
ControlFile == [key : Keys, target : Versions, previous : Versions, phase : ControlPhases,
                baseline : Optional(Versions), floor : Optional(Versions),
                forwardOnly : BOOLEAN]
LedgerPhases == {"authorized", "applying", "completed"}
LedgerFile == [required : RequiredFile, phase : LedgerPhases, attempt : 0..MaxAttempts,
               progress : SUBSET Accounts]
WorkerSteps == {"idle", "prepared", "authorized", "begun", "handoff", "apply", "wait",
                "ready", "recover", "selected"}
Workers == [pc : WorkerSteps, key : 0..MaxUpdates]
ChildSteps == {"none", "start", "run", "gone"}
Children == [pc : ChildSteps, done : SUBSET Accounts]

ASSUME ReleaseAssumption ==
    /\ Versions \subseteq Nat /\ Boot \in Versions /\ Contract \in [Versions -> {7, 8}]
    /\ \A v, w \in Versions : v <= w => Contract[v] <= Contract[w]
    /\ Null \notin Versions \cup Requirements \cup RequiredFile \cup ControlFile \cup LedgerFile
    /\ MaxUpdates \in Nat /\ MaxFaults \in Nat /\ MaxAttempts \in Nat
    /\ MaxAttempts >= MaxUpdates + MaxFaults   \* the bound never stops a retry

VARIABLES control, pointer, auth, required, ledger,
          journal,   \* each account's journal: its format, 0 unknown, 1 registered but not created
          worker,    \* the update worker
          child,     \* apply processes, by attempt
          live,      \* Collectors that became ready and may still be open
          proof,     \* runtime holding a pending creation proof, or Null
          updates, attempts, faults

files == <<control, pointer, auth, required, ledger>>
counts == <<updates, attempts, faults>>
vars == <<files, journal, worker, child, live, proof, counts>>

\* The shapes of the files and processes.
TypeOK ==
    /\ control \in Optional(ControlFile) /\ pointer \in Optional(Versions)
    /\ auth \in Optional(Requirements) /\ required \in Optional(RequiredFile)
    /\ ledger \in Optional(LedgerFile) /\ journal \in [Accounts -> {0, 1, 7, 8}]
    /\ worker \in Workers /\ child \in [1..MaxAttempts -> Children]
    /\ live \subseteq Versions /\ proof \in Optional(Versions)
    /\ updates \in 0..MaxUpdates /\ attempts \in 0..MaxAttempts /\ faults \in 0..MaxFaults

Init ==
    /\ control = Null /\ pointer = Null /\ auth = Null /\ required = Null /\ ledger = Null
    /\ journal \in [Accounts -> {0, 1, Contract[Boot]}]
    /\ worker = [pc |-> "idle", key |-> 0]
    /\ child = [a \in 1..MaxAttempts |-> [pc |-> "none", done |-> {}]]
    /\ live = {Boot} /\ proof = Null
    /\ updates = 0 /\ attempts = 0 /\ faults = 0

-----------------------------------------------------------------------------
(* Reading the files. *)

\* resolveRuntimeEntry
Effective == IF pointer = Null THEN Boot ELSE pointer

Open(c) == IF c = Null THEN FALSE ELSE c.phase \notin {"completed", "recovered"}
Floor == IF control = Null THEN Null ELSE control.floor

\* A floor is a release: its version is the minimum, its contract the only one.
Accepts(floor, v) == IF floor = Null THEN TRUE ELSE v >= floor /\ Contract[v] = Contract[floor]
AdvancesFloor(floor, t) ==
    IF floor = Null THEN TRUE ELSE floor < t \/ Contract[floor] # Contract[t]

\* assertRuntimeAdmission
RuntimeAdmitted(v) ==
    IF control = Null THEN TRUE
    ELSE /\ Accepts(control.floor, v)
         /\ Contract[v] = IF ~control.forwardOnly /\ control.phase # "completed"
                          THEN Contract[control.previous] ELSE Contract[control.target]

\* readCaptureMigrationPair: a completed ledger beside its successor's marker is
\* the predecessor's, and does not count.
Known == IF required # Null THEN required ELSE IF ledger # Null THEN ledger.required ELSE Null
Ledger == IF ledger = Null THEN Null
          ELSE IF required # Null /\ required # ledger.required THEN Null ELSE ledger
Phase == IF Ledger = Null THEN "none" ELSE Ledger.phase

\* pendingOuter
MigrationPending == Known # Null /\ ~(required # Null /\ Phase = "completed")
KnownKey == IF Known = Null THEN 0 ELSE Known.requirement.key

\* assertCompletedCaptureMigration
MigrationAdmitted(v) ==
    Known # Null => /\ required # Null /\ Phase = "completed"
                    /\ Contract[v] = Contract[Ledger.required.requirement.target]
                    /\ v >= Ledger.required.requirement.target

\* guardCaptureRuntimeWrite
Unguarded(v) == v \in Versions
CaptureAdmitted(v) == RuntimeAdmitted(v) /\ MigrationAdmitted(v)

RecoveryPending == auth # Null \/ MigrationPending \/ Open(control)
Owns(key) == IF control = Null THEN FALSE ELSE control.key = key

-----------------------------------------------------------------------------
(* The worker's plumbing. *)
Idle == [pc |-> "idle", key |-> 0]
At(pc) == worker.pc = pc
Go(pc) == worker' = [worker EXCEPT !.pc = pc]
Fault == faults < MaxFaults /\ faults' = faults + 1 /\ UNCHANGED <<updates, attempts>>
NoFault == UNCHANGED counts

\* Two writes, f then g, and on to pc; or the worker dies between the two.
Writes(f, g, unchangedByF, pc) ==
    \/ f /\ g /\ Go(pc) /\ NoFault
    \/ f /\ unchangedByF /\ worker' = Idle /\ Fault

BaseLedger(r) == [required |-> r, phase |-> "authorized", attempt |-> 0, progress |-> {}]
NewRequired(req) ==
    [requirement |-> req, prior |-> IF Known = Null THEN Null ELSE Known.requirement]

-----------------------------------------------------------------------------
(* The update, up to its point of no return. *)

\* updateControl.prepare. A release of another contract needs a migration; the
\* historical updater only takes releases of the same contract.
Prepare(t, migrate) ==
    /\ At("idle") /\ ~RecoveryPending /\ updates < MaxUpdates
    /\ t >= Effective /\ Accepts(Floor, Effective) /\ (Floor # Null => t >= Floor)
    /\ IF migrate THEN Contract[t] = 8 ELSE Contract[t] = Contract[Effective]
    /\ control' = [key |-> updates + 1, phase |-> "prepared", baseline |-> pointer,
                   previous |-> Effective, target |-> t, floor |-> Floor, forwardOnly |-> FALSE]
    /\ worker' = [pc |-> IF migrate THEN "prepared" ELSE "authorized", key |-> updates + 1]
    /\ updates' = updates + 1
    /\ UNCHANGED <<pointer, auth, required, ledger, journal, child, live, proof, attempts, faults>>

\* localInventory: the registered accounts; one without a journal yet is deferred.
Inventory == {a \in Accounts : journal[a] # 0}
Deferred == {a \in Accounts : journal[a] = 1}
Requirement(key, target, source) ==
    [key |-> key, target |-> target, source |-> source,
     inventory |-> Inventory, deferred |-> Deferred]

\* authorize: the marker before the ledger.
AuthorizeInOrder(markerFirst) ==
    /\ At("prepared") /\ Owns(worker.key) /\ RuntimeAdmitted(control.previous)
    /\ LET r == NewRequired(Requirement(control.key, control.target, control.previous)) IN
       IF markerFirst
       THEN Writes(required' = r, ledger' = BaseLedger(r), UNCHANGED ledger, "authorized")
       ELSE Writes(ledger' = BaseLedger(r), required' = r, UNCHANGED required, "authorized")
    /\ UNCHANGED <<control, pointer, auth, journal, child, live, proof>>
AuthorizeLedgerFirst == AuthorizeInOrder(FALSE)
Authorize == AuthorizeInOrder(TRUE)

\* begin
Begin ==
    /\ At("authorized") /\ Owns(worker.key) /\ pointer = control.baseline
    /\ Writes(control' = [control EXCEPT !.phase = "begun"],
              pointer' = control.target, UNCHANGED pointer, "begun")
    /\ UNCHANGED <<auth, required, ledger, journal, child, live, proof>>

\* fence: never while an older runtime still has a creation proof to confirm.
Fence ==
    /\ At("begun") /\ Owns(worker.key) /\ MigrationPending
    /\ AdvancesFloor(control.floor, control.target) => proof = Null
    /\ Writes(control' = [control EXCEPT !.phase = "fenced", !.forwardOnly = TRUE,
                                         !.floor = control.target],
              pointer' = control.target, UNCHANGED pointer, "apply")
    /\ UNCHANGED <<auth, required, ledger, journal, child, live, proof>>

\* saveTargetAuthorization, for an update the target itself carries out.
SaveTargetAuthorization(t) ==
    /\ At("idle") /\ ~RecoveryPending /\ updates < MaxUpdates
    /\ t >= Effective /\ Contract[t] = 8 /\ RuntimeAdmitted(Effective)
    /\ auth' = Requirement(updates + 1, t, Effective)
    /\ worker' = [pc |-> "handoff", key |-> updates + 1]
    /\ updates' = updates + 1
    /\ UNCHANGED <<control, pointer, required, ledger, journal, child, live, proof, attempts, faults>>

\* handoffTarget commits executable selection at once, as a completed control.
HandoffInOrder(controlFirst) ==
    /\ At("handoff") /\ Accepts(Floor, Effective) /\ (Floor # Null => auth.target >= Floor)
    /\ AdvancesFloor(Floor, auth.target) => proof = Null
    /\ LET c == [key |-> auth.key, phase |-> "completed", baseline |-> pointer,
                 previous |-> Effective, target |-> auth.target,
                 floor |-> auth.target, forwardOnly |-> TRUE] IN
       IF controlFirst
       THEN Writes(control' = c, pointer' = auth.target, UNCHANGED pointer, "apply")
       ELSE Writes(pointer' = auth.target, control' = c, UNCHANGED control, "apply")
    /\ UNCHANGED <<auth, required, ledger, journal, child, live, proof>>
HandoffPointerFirst == HandoffInOrder(FALSE)
HandoffTarget == HandoffInOrder(TRUE)

-----------------------------------------------------------------------------
(* Applying the migration. *)

\* consumeTargetAuthorization: the pair first, then the authorization goes. A pair
\* of the same key is repaired instead.
ConsumeAuthorization ==
    /\ At("apply") /\ auth # Null /\ Owns(auth.key) /\ pointer = auth.target
    /\ KnownKey # auth.key => auth.inventory = Inventory /\ auth.deferred = Deferred
    /\ LET r == IF KnownKey = auth.key THEN Known ELSE NewRequired(auth)
           l == IF KnownKey = auth.key /\ Ledger # Null THEN Ledger ELSE BaseLedger(r) IN
       \/ required' = r /\ ledger' = l /\ auth' = Null /\ Go("apply") /\ NoFault
       \/ /\ required' = r /\ ledger' \in {ledger, l} /\ auth' = auth
          /\ worker' = Idle /\ Fault
    /\ UNCHANGED <<control, pointer, journal, child, live, proof>>

\* nextAttempt supersedes every earlier attempt; executeApply starts the target.
NextAttempt ==
    /\ At("apply") /\ auth = Null /\ MigrationPending /\ Phase # "completed"
    /\ attempts < MaxAttempts
    /\ Owns(KnownKey) /\ control.forwardOnly /\ pointer = control.target
    /\ LET l == IF Ledger = Null THEN BaseLedger(Known) ELSE Ledger IN
       /\ required' = Known
       /\ ledger' = [l EXCEPT !.phase = "applying", !.attempt = attempts + 1]
    /\ attempts' = attempts + 1
    /\ child' = [child EXCEPT ![attempts + 1].pc = "start"]
    /\ Go("wait")
    /\ UNCHANGED <<control, pointer, auth, journal, live, proof, updates, faults>>

\* The target's process has ended: with its receipt the worker goes on.
ApplyReturned ==
    /\ At("wait") /\ child[attempts].pc = "gone" /\ Phase = "completed"
    /\ Go("apply") /\ NoFault
    /\ UNCHANGED <<files, journal, child, live, proof>>

\* receipt: the exact completed receipt under its exact boundary.
Receipt ==
    /\ At("apply") /\ auth = Null /\ ~MigrationPending /\ Known # Null
    /\ Owns(KnownKey) /\ control.forwardOnly /\ pointer = control.target
    /\ Go("ready") /\ NoFault
    /\ UNCHANGED <<files, journal, child, live, proof>>

\* complete, once the collector has been resumed.
Complete ==
    /\ \/ At("ready")
       \/ At("begun") /\ ~MigrationPending
    /\ Owns(worker.key) /\ pointer = control.target
    /\ control.phase \in {"begun", "fenced", "completed"}
    /\ Accepts(control.floor, control.target)
    /\ control.forwardOnly \/ Contract[control.previous] = Contract[control.target]
    /\ control' = [control EXCEPT !.phase = "completed"]
    /\ worker' = Idle /\ NoFault
    /\ UNCHANGED <<pointer, auth, required, ledger, journal, child, live, proof>>

-----------------------------------------------------------------------------
(* The apply process: applyCaptureMigrationEntry. *)
\* validateAuthority, checked again in the barrier of every write.
Authority(a) ==
    /\ required # Null /\ Phase = "applying" /\ Ledger.attempt = a
    /\ Owns(KnownKey) /\ control.forwardOnly /\ pointer = control.target

Acquire(a) ==
    /\ child[a].pc = "start" /\ Authority(a)
    /\ Inventory = Known.requirement.inventory /\ Deferred = Known.requirement.deferred
    /\ \A b \in 1..MaxAttempts : child[b].pc # "run"
    /\ child' = [child EXCEPT ![a].pc = "run"]
    /\ UNCHANGED <<files, journal, worker, live, proof, counts>>

\* migrateCaptureJournalV7ToV8, then the account's progress, in two barriers.
Migrate(a, acct) ==
    /\ child[a].pc = "run" /\ Authority(a) /\ acct \in Known.requirement.inventory
    /\ journal[acct] = 7
    /\ journal' = [journal EXCEPT ![acct] = 8]
    /\ UNCHANGED <<files, worker, child, live, proof, counts>>

Progress(a, acct) ==
    /\ child[a].pc = "run" /\ Authority(a)
    /\ acct \in Known.requirement.inventory \ child[a].done
    /\ acct \in Known.requirement.deferred \/ journal[acct] = 8
    /\ ledger' = [ledger EXCEPT !.progress = @ \cup {acct}]
    /\ child' = [child EXCEPT ![a].done = @ \cup {acct}]
    /\ UNCHANGED <<control, pointer, auth, required, journal, worker, live, proof, counts>>

FinishWhen(a, complete) ==
    /\ child[a].pc = "run" /\ Authority(a) /\ complete
    /\ ledger' = [ledger EXCEPT !.phase = "completed", !.attempt = 0,
                                !.progress = Known.requirement.inventory]
    /\ child' = [child EXCEPT ![a] = [pc |-> "gone", done |-> {}]]
    /\ UNCHANGED <<control, pointer, auth, required, journal, worker, live, proof, counts>>
FinishEarly(a) == FinishWhen(a, child[a].done # {})
Finish(a) == FinishWhen(a, child[a].done = Known.requirement.inventory)

\* A superseded process stops at its next check; any process may die or run out of time.
Superseded(a) ==
    /\ child[a].pc \in {"start", "run"} /\ ~Authority(a)
    /\ child' = [child EXCEPT ![a] = [pc |-> "gone", done |-> {}]]
    /\ UNCHANGED <<files, journal, worker, live, proof, counts>>

Dies(a) ==
    /\ child[a].pc \in {"start", "run"} /\ Fault
    /\ child' = [child EXCEPT ![a] = [pc |-> "gone", done |-> {}]]
    /\ UNCHANGED <<files, journal, worker, live, proof>>

-----------------------------------------------------------------------------
(* Recovery: by the same maintenance after a failure, or by a later worker. *)
BeginRecovery ==
    /\ At("idle") /\ RecoveryPending
    /\ Go("recover") /\ NoFault
    /\ UNCHANGED <<files, journal, child, live, proof>>

\* An authorization whose handoff never committed is discarded.
DiscardAuthorization ==
    /\ At("recover") /\ auth # Null /\ ~Owns(auth.key)
    /\ auth' = Null /\ worker' = Idle /\ NoFault
    /\ UNCHANGED <<control, pointer, required, ledger, journal, child, live, proof>>

\* repairTargetPointer: a committed handoff goes forward.
RepairTargetPointer ==
    /\ At("recover") /\ auth # Null /\ Owns(auth.key)
    /\ pointer \in {control.baseline, control.target}
    /\ pointer' = control.target
    /\ worker' = [pc |-> "apply", key |-> auth.key] /\ NoFault
    /\ UNCHANGED <<control, auth, required, ledger, journal, child, live, proof>>

\* recoverSelection: forward after the fence, back to the baseline before it. The
\* pointer is written before the phase.
RecoverSelectionWhen(forward) ==
    /\ At("recover") /\ auth = Null
    /\ IF Open(control)
       THEN LET restore == IF control.forwardOnly THEN control.target ELSE control.previous IN
            /\ pointer \in {control.baseline, control.target, control.previous}
            /\ control.forwardOnly \/ control.floor = Null \/ control.baseline # Null
            /\ Accepts(control.floor, restore)
            /\ Writes(pointer' = IF forward THEN control.target ELSE control.baseline,
                      control' = [control EXCEPT !.phase = "recovering"],
                      UNCHANGED control, "selected")
       ELSE Go("selected") /\ NoFault /\ UNCHANGED <<control, pointer>>
    /\ UNCHANGED <<auth, required, ledger, journal, child, live, proof>>
RecoverToBaseline == RecoverSelectionWhen(FALSE)
RecoverSelection == RecoverSelectionWhen(IF control = Null THEN FALSE ELSE control.forwardOnly)

\* A fenced migration is applied again with the same target.
ResumeApply ==
    /\ At("selected") /\ MigrationPending /\ Owns(KnownKey) /\ control.forwardOnly
    /\ worker' = [pc |-> "apply", key |-> KnownKey] /\ NoFault
    /\ UNCHANGED <<files, journal, child, live, proof>>

\* abandon: before the fence only; the preceding completed pair comes back,
\* ledger first.
Abandon ==
    /\ At("selected") /\ MigrationPending /\ Owns(KnownKey) /\ ~control.forwardOnly
    /\ pointer = control.baseline
    /\ LET prior == Known.prior
           restored == [requirement |-> prior, prior |-> Null] IN
       IF prior = Null
       THEN Writes(ledger' = Null, required' = Null, required' = required, "selected")
       ELSE Writes(ledger' = [required |-> restored, phase |-> "completed", attempt |-> 0,
                              progress |-> prior.inventory],
                   required' = restored, required' = required, "selected")
    /\ UNCHANGED <<control, pointer, auth, journal, child, live, proof>>

\* completeRecovery
CompleteRecovery ==
    /\ \/ At("selected") /\ ~MigrationPending
       \/ At("ready") /\ control.phase = "recovering"
    /\ IF Open(control)
       THEN /\ pointer = IF control.forwardOnly THEN control.target ELSE control.baseline
            /\ control' = [control EXCEPT !.phase = "recovered"]
       ELSE control' = control
    /\ worker' = Idle /\ NoFault
    /\ UNCHANGED <<pointer, auth, required, ledger, journal, child, live, proof>>

\* A failure is recovered by a later step: of the same maintenance or of a later worker.
Stops == worker' = Idle

\* A pending creation proof refuses the fence; the apply process ended without a receipt.
Refused ==
    /\ \/ At("begun") /\ MigrationPending /\ proof # Null
       \/ At("handoff") /\ proof # Null
       \/ At("wait") /\ child[attempts].pc = "gone" /\ Phase # "completed"
    /\ Stops
    /\ UNCHANGED <<files, journal, child, live, proof, counts>>

\* A deadline, a storage error, or the worker's death, anywhere.
Fails ==
    /\ ~At("idle") /\ Fault /\ Stops
    /\ UNCHANGED <<files, journal, child, live, proof>>

-----------------------------------------------------------------------------
(* The runtimes. *)
\* prepareCollectorReadiness: the selected Collector begins to work when nothing is
\* pending. Nothing proves that it ends before the next update.
OpenRuntime ==
    /\ At("idle") /\ ~RecoveryPending /\ Effective \notin live
    /\ live' = live \cup {Effective}
    /\ UNCHANGED <<files, journal, worker, child, proof, counts>>

\* CaptureJournals.open, under the Collector state lock that an update holds from its
\* preparation to its fence: register the account, then create its journal, each a
\* guarded write; a death in between leaves the account registered. Maintenance keeps
\* the selected runtime's Collector stopped (see CollectorDaemon); an older executable
\* that knows nothing of the gate may still be writing.
UpdateHoldsState ==
    \/ At("prepared") \/ At("handoff")
    \/ (At("authorized") \/ At("begun")) /\ MigrationPending

InitializeAccount(v, acct) ==
    /\ v \in live /\ CaptureAdmitted(v) /\ ~UpdateHoldsState
    /\ v < Effective \/ (At("idle") /\ ~RecoveryPending)
    /\ journal[acct] \in {0, 1}
    /\ \/ journal' = [journal EXCEPT ![acct] = Contract[v]] /\ NoFault
       \/ journal' = [journal EXCEPT ![acct] = 1] /\ journal[acct] = 0 /\ Fault
    /\ UNCHANGED <<files, worker, child, live, proof>>

\* recordAttempt takes the shared lease inside a guarded write; confirm, abandon or
\* the death of its process releases it.
RecordAttempt(v) ==
    /\ v \in live \cup {Effective} /\ proof = Null /\ RuntimeAdmitted(v)
    /\ proof' = v
    /\ UNCHANGED <<files, journal, worker, child, live, counts>>

EndAttempt ==
    /\ proof # Null /\ proof' = Null
    /\ UNCHANGED <<files, journal, worker, child, live, counts>>

-----------------------------------------------------------------------------
Apply(a) == Acquire(a) \/ Finish(a) \/ \E acct \in Accounts : Migrate(a, acct) \/ Progress(a, acct)
Update == \/ Authorize \/ Begin \/ Fence \/ HandoffTarget
          \/ ConsumeAuthorization \/ NextAttempt
          \/ ApplyReturned \/ Receipt \/ Complete
Recover == \/ BeginRecovery \/ DiscardAuthorization \/ RepairTargetPointer \/ RecoverSelection
           \/ ResumeApply \/ Abandon \/ CompleteRecovery
Runtime == \/ OpenRuntime \/ EndAttempt
           \/ \E v \in Versions : RecordAttempt(v) \/ \E acct \in Accounts : InitializeAccount(v, acct)

Next == \/ \E t \in Versions : SaveTargetAuthorization(t) \/ \E mig \in BOOLEAN : Prepare(t, mig)
        \/ Update \/ Recover \/ Refused \/ Fails \/ Runtime
        \/ \E a \in 1..MaxAttempts : Apply(a) \/ Superseded(a) \/ Dies(a)

Spec == Init /\ [][Next]_vars

-----------------------------------------------------------------------------
(* Safety. *)

\* Whatever executable is still open, old or new, it is admitted to capture only
\* while every initialized journal has the format it reads and writes
\* (guardCaptureRuntimeWrite against authorize, fence, handoffTarget and apply).
AdmittedReads ==
    \A v \in live : CaptureAdmitted(v) => \A a \in Accounts : journal[a] \in {0, 1, Contract[v]}

\* When no recovery is pending, the runtime the user would start is admitted and can
\* read the journals: no crash strands the installation between two releases.
NeverStranded ==
    At("idle") /\ ~RecoveryPending =>
        /\ CaptureAdmitted(Effective)
        /\ \A a \in Accounts : journal[a] \in {0, 1, Contract[Effective]}

\* A completed ledger, however many attempts it took and whatever was deferred, means
\* no journal of the old format is left (applyCaptureMigrationEntry, receiptFor).
ReceiptTruthful ==
    ledger # Null /\ ledger.phase = "completed" =>
        \A a \in Accounts : journal[a] # 7

\* The marker and the ledger never reach a combination that the reader rejects as
\* disagreeing (readCaptureMigrationPair), whichever of the two a crash left behind;
\* nor does a ledger stand alone, so that its marker would have to be rebuilt from it.
PairReadable ==
    ledger # Null =>
        /\ required # Null
        /\ required # ledger.required =>
              ledger.phase = "completed" /\ ledger.required.requirement = required.prior

-----------------------------------------------------------------------------
(* Liveness. The worker and the apply process make progress; the hourly wake, a *)
(* login or an interactive start begins recovery.                              *)
Fairness ==
    /\ WF_vars(Update \/ (Recover /\ ~At("idle")) \/ Refused)
    /\ WF_vars(BeginRecovery)
    /\ \A a \in 1..MaxAttempts : WF_vars(Apply(a) \/ Superseded(a))

FairSpec == Spec /\ Fairness

\* Every interrupted update is settled, forward or back.
UpdatesSettle == RecoveryPending ~> ~RecoveryPending
=============================================================================
