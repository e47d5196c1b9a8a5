# ATape: TLA+ verification of capture, publication and the CLI's own state

ATape collects coding-agent conversations on developers' machines and publishes
them to a team Server. This directory models the paths on which data or authority
can really be lost, forged or duplicated: the client's durable **capture journal**,
the **delivery** protocol for Canonical and Raw content that survives crashes and lost
replies, the Server's **publication store**, which switches readers from one complete
version of a Session to the next, the older **paged collector** that some adapters
still use, and the files by which the CLI manages its **collector process**, its
**updates** with their journal migration, and its **credential**. The modules are
checked with TLC on small instances. The safety of the publication store, with its two
refinements, of the journal, the delivery protocol, the collector daemon, the updates and
the sign-in is proved with TLAPS for all values of the constants.

`PROJECT.json` lists components, runs, mutants, hazards, theorems and, for every
definition that models code, the lines it models.

## 1. Inventory of the system

| Component | State | Operations | Hard behaviour |
|---|---|---|---|
| Publication store (`server/internal/adapters/postgres/publication*.go`, `queries/publication.sql`) | sources (head, fence, floor), reservations, attempts, parts, members, version ledger | Reserve, AdoptLegacy, Begin, Put, Seal, Validate, Renew, Reject, Activate, Reclaim | competing writers, leases read against a moving clock, partial validation, batched cleanup, quotas |
| Canonical ingestion (`store.go`, `ingestion/`) | Sessions, Threads, Events, batch receipts | ApplyBatch, DeleteSession | replayed batches, legacy writers after a Session changed mode |
| Publication reader, conversation, workspace, analytics, overview | none of their own | reads through the `visible_canonical_*` views | seeing half of a target |
| Raw archive (`rawarchive/`, `raw.go`, `rawchunks/`) | objects, generations, chunks, files | Append, Receipt, Read | file and row written separately, replay, revoked policy |
| Search projection (`projectsearch/`, `search.go`) | two work tables with leases, documents | lease, upsert, acknowledge | several projectors, a head that moves under them |
| Authentication (`authentication/`) | device authorizations, CLI credentials, web sessions, sign-in flows | create, decide, poll, rotate, revoke, maintain | lost grant replies, expiry against approval |
| Teams and authorization (`team/`, `authorization/`) | memberships, join codes | join, promote, demote, leave, rotate | last owner, attempt limits |
| Capture journal (`apps/cli/src/runtime/captureJournal.ts`) | scopes, captures, units, records, source versions, byte counters (SQLite) | claim, adoptBaseline, reserve, append, record, bindRecord, seal, settle, pruneRecords, reclaim | crash between any two calls, receipts in any order, several processes |
| Delivery (`packages/application/src/publicationDelivery.ts`, `sourceCollector.ts`) | none beyond the journal | begin, prepare, seal, deliver, recover, retire | lost and late calls, expiring leases, changed redaction policy, small budgets |
| Legacy collector (`legacyCollector.ts`, `codexArchive.ts`, `collectorState.ts`) | one checkpoint per Project and adapter: cursor, Raw progress, pending outcome | collect a page, publish it, append Raw segments, commit | sources that change between two reads of a page, lost replies, turns and quarantines, policy changes |
| Collector daemon (`collectorDaemonLayers.ts`) | saved intent, process record, maintenance gate | start, resume, refresh, pause, stop, inspect, maintain | death between two writes, a child that runs before it is recorded, Stop during maintenance |
| Managed updates, runtime selection, capture migration (`managedUpdates.ts`, `updateControl.ts`, `captureMigration.ts`, …) | update transaction, selected runtime, target authorization, migration requirement and ledger | prepare, authorize, fence, hand over, apply, recover | stop between two file writes, superseded apply processes, old executables still open |
| CLI sign-in (`cliAuthentication.ts`, `authenticationLayers.ts`) | credential file, lock file | login, logout | concurrent commands, killed lock holders, answers that carry the only copy of a credential |
| Adapters, redaction, web and CLI presentation, deployment | – | parsing, matching, rendering | no protocol of their own |

How they interact. The daemon lets a collector *claim* a source in the journal. The
collector first resolves the capture it finds, then may begin a new one: it reserves
an identity at the Server, writes the capture to the journal, *begins* the attempt
remotely, freezes the prepared records in the journal and delivers them part by part.
The Server validates the sealed parts in bounded calls and *activates* the target by
one compare-and-set on the head; readers and the search projector follow the head.
The client moves its checkpoint only on the Server's activation receipt. Before a
Session enters this protocol it may be written by the older batch protocol; adoption
moves it over and fixes a revision floor. Raw content follows an activated capture
under the Raw authority it was captured under, and a capture is complete only when each
Raw unit has its receipt or is canceled. Beside this, the CLI manages the process that
does all of it: an update stops the collector through the maintenance gate, migrates the
journals, selects the new runtime and starts the collector again.

What makes each part correct: the store publishes complete targets in one chain, keeps
receipts, versions and quotas; the journal never loses owed content, never gives one
revision to two contents and has at most one unresolved capture per source; delivery
never lets journal and Server disagree about what was published, and resolves every
capture and every Raw unit. The legacy collector never records progress the Server does
not have; the daemon runs at most one recorded collector and none after Stop; an update
never leaves a runtime admitted to a journal it cannot read; a login never loses or
overwrites authority unnoticed. The list of hazards in `PROJECT.json` names, line by line, what could break
these and which property would notice.

## 2. Modules

| Module | Models | Kind |
|---|---|---|
| `PublicationStore` | Server tables and all publication operations, legacy writes and Session deletion | detailed specification |
| `AtomicPublication` | what readers are promised: a Session's visible content changes only by one whole publication | abstract, implemented by `PublicationStore` |
| `AttemptAuthority` | what writers are promised: who may write, lost authority never returns | abstract, implemented by `PublicationStore`, used by `PublicationDelivery` |
| `CaptureJournal` | the journal's tables and operations | detailed specification |
| `PublicationDelivery` | collectors, network, Raw archive and faults; composes `CaptureJournal` and `AttemptAuthority` through INSTANCE | composition |
| `CollectorDaemon` | the managed collector process and the maintenance gate | detailed specification |
| `CaptureUpdate` | update transaction, runtime selection, admission and journal migration | detailed specification |
| `CLIAuthentication` | login and logout commands, credential and lock file, device authorizations and credentials of the Server | composition of client and Server |
| `LegacyCollector` | the paged collector, the Codex archive, the checkpoint store and the Server's batch and Raw endpoints | composition of client and Server |
| `PublicationStoreProofs` | rows, heads, receipts, tombstones, versions and accounts of the store, what it publishes, and that it implements its two abstractions | proofs |
| `SumTheorems` | sums over finite sets, for the accounts of store and journal | proofs |
| `CaptureJournalProofs` | settlement, completion, versions and retention in the journal | proofs |
| `PublicationDeliveryProofs` | the protocol between journal, Server, processes and calls in flight, and what is settled | proofs |
| `CollectorDaemonProofs` | the files, the recorded collector, maintenance and Stop | proofs |
| `CaptureUpdateProofs` | the migration pair, admission and recovery | proofs |
| `CLIAuthenticationProofs` | approval, revocation, leaks and the credential file | proofs |
| `LegacyCollectorProofs` | cursor, Raw progress and archive against changing sources | proofs |
| `MC…` (one for each specification) | constants and symmetry for TLC | instances |

`PublicationDelivery` runs against `AttemptAuthority` rather than the full store; the
theorem `WritersSeeAttemptAuthority` justifies the substitution, and the run
`store_replacement` checks it on an instance (`ImplementsAttemptAuthority`).

### PublicationStore

Every operation is one database transaction under the account's advisory lock
(`publicationTransaction`), hence one action. A refused call rolls back and is a
stuttering step. Tables are functions over identities. `now` is
`clock_timestamp()`; expiry and supersession are computed on each read
(`EffectiveState`), exactly as `GetPublicationAttempt` does, and never stored.
A transaction reads the clock several times and fails when a deadline passes in
between, so a transaction that commits behaves as if it ran at one instant.
A part's content is a set of record versions (Thread, revision, fingerprint), a wire
size and a normalized size; one Thread holds one record. `Validate` handles one part,
or one step of the inherited Threads, per call. Deleted or revoked access is the guard
`Access`. Not in the module: the byte format of parts, Session metadata carried by the
header, Raw references, the capture time of a Project, prepared Search work.

### CaptureJournal

Every operation is one SQLite transaction (`transaction`), hence one action; replays
return what is stored and stutter. An operation presents the epoch of its claim and is
refused once a later claim exists. Session, Thread, Event and Usage records follow the
same rules and are one record kind, which carries the Raw reference the code gives to
Events. Trigger-kept counters (`metadata_entries`, `metadata_bytes`) are operators over
the rows. Not in the module: upgrading older file formats, the legacy migration row,
payload text.

### PublicationDelivery

A process has a program point, the epoch and checkpoint of its claim, the capture and
attempt it works on, whether its redaction policy differs from the capture's, the Raw
authority it was granted, the number of remote calls of the slice and the last reply.
`net` holds calls not yet served. A process may stop at any point (`Fail`); the call it
waited for is lost or remains in flight without a caller and may be served at any later
time, in any order with other calls. Failed or refused calls, unexpected answers and
exhausted budgets end the slice (`GiveUp`). A deleted Session refuses every later call:
the client then keeps a sealed capture unresolved, since "unknown is never a rejection".

A capture has one Canonical record in one unit and, with Raw enabled, one Raw record,
which is packed into a unit of its own or borrows the unit of an earlier capture
(`Reusable`); each journal transaction of the preparation is a step, and the process may
stop between two. When the Canonical side is unchanged and only Raw coverage is missing,
a fresh Raw observation is begun under the proven activation. Raw delivery asks for the
receipt of each pending unit before it sends or cancels it. `archive` holds the captures
whose chunk the Server stores; `policy` is the effective Raw policy with the revision that
makes an authority unique: an authority that ended never returns, so reading the policy at
the start of Raw delivery is fused with that step (the append checks it again). New
capture and attempt identities are taken by CHOOSE because unused ones are
interchangeable. After the recovery walk the source is claimed again for a fresh capture,
as in `processSource`. Remote cleanup, adoption, digests, explicit Raw gaps and several
units of a kind per capture are not in this composition; several units are the subject of
`CaptureJournal`.

### CollectorDaemon

Three files are the whole authority: the saved intent, the process record and the
maintenance gate. The process lock is the variable `job` (what runs in it); every durable
write in it is a step of its own, and the command or the maintenance owner may die before
any of them. Collectors read the files without the lock (`admitCollectorProcess`). A daemon
token may be used again once nothing refers to it. `intent` and `halted` are history
variables. The run status file, which is only shown to the user, is left out, and so is the
wait of a ready collector for a pending update transaction, which only delays it.

### CaptureUpdate

Five files, written one after the other by an update worker that may die between any two
writes. Work inside one admission barrier is one action with a crash after each write as
an alternative. One worker at a time: it holds update ownership and the maintenance of
`CollectorDaemon`. Apply processes are identified by their attempt and may go on after
they were given up. Rewriting one account's journal is one step. Not in the module:
staging and digests of releases, adapter overlays, the historical `pending.json`,
candidate cooldowns, checks of paths and prerequisites.

### CLIAuthentication

One process is one run of `login` or `logout`; a database transaction and a filesystem
call are one step each. `Earlier` is the credential that a login of the past may have
left on disk. Time is a clock per authorization with three values: it may be polled, the
client's deadline has passed, the Server's expiry has passed. `reported` and `lost` are
history variables: what the user was told to revoke by hand, and what became unreachable
through a lost answer, a killed command or a write over a credential that the writer never
read (`Overwritten`; this needs the stale-lock race of the finding below and three
commands). Not in the module: attempt limits for user codes,
deletion of old rows, the use of a credential in requests.

### LegacyCollector

A rollout is an append-only file with a generation (it may be replaced, archived or
removed) and a time of change. Cursor, snapshots, turns (`QuantumPages`), quarantine and
the checkpoint's compare-and-swap are modelled as in the code; a redacted record is one
unit of length. One Session has one rollout and a page carries one Raw segment: the
concurrency of several Raw objects of a page, and the semaphore around their commits, are
left out. Every change advances the file's time; the case of an append within the same
time stamp, which `codexArchive.ts:1892` treats, is not covered. Also left out: the
baseline watermark, partial tail lines, unarchiving, redactors without a policy identity,
upgrades of the cursor's encoding and of the projection. A job whose attempt has an unknown
outcome pauses when its policy changed (`Held`); the code pauses it on purpose until the
user decides (`collectorPolicy.test.ts:179`).

## 3. Runs

Every passing run has a mutant for each of its properties: a plausible bug in a mapped
definition under which TLC finds the property violated. `CHECK_DEADLOCK FALSE` is used,
except in `daemon`, because identities, revisions, changes and time are finite in an
instance and the system legitimately stops when they are used up or nothing is left to do.

| Run | Instance | Shows |
|---|---|---|
| `store_replacement` | 1 Session, 3 attempts, clock to 2, lease 1, lifetime 2 | `LinearHistory`; `DeadStaysDead`; `ReceiptStable`; `ImplementsAttemptAuthority` |
| `store_content` | 2 attempts, two-part targets that inherit, grow, shrink or sit at the floor, legacy history to revision 2, a quota of 3, cleanup of one part per call | `Accounting`; `HeadComplete`; `VersionAgreement`; `NoLegacyRegression`; `TombstoneFinal`; `ImplementsAtomicPublication` |
| `journal_delivery` | 2 captures, tracked or not, an Event and a Raw record, Raw and Canonical units, a second publication or a Raw observation that borrows, cancellation, metadata; `DeliveryBounds` | `OwedContentRetained`; `SettlementNeverConflicts`; `ByteAccounting`; `CompletionExact` |
| `journal_versions` | 3 tracked captures, 2 Events of 2 contents and 2 kinds of Raw reference, a source that is new or adopted at floor 1, pruning; `VersionBounds` | `VersionIdentity`; `ReappearsAsNew` |
| `delivery_safety` | 2 processes, 2 captures, 2 attempts, 3 claims, 2 faults, 1 orphaned call, deletion, Raw off | `SettledTruthfully`; `HeadAccounted` |
| `delivery_recovery` | 1 process, 2 captures, budget 3, 12 claims, 1 fault, 1 orphaned call, Raw on, 1 change of the Raw policy | `SettledTruthfully`; `CapturesResolve` |
| `daemon` | 2 runtimes, 3 tokens, 3 commands, 1 update, 2 faults | `RunningIsRecorded`; `ActivationQuiesced`; `StopWins`; `HandoverExact`; `MaintenanceEnds`; `SyncReturns` |
| `update` | 2 releases of different journal formats, 2 accounts, 2 updates, 4 apply attempts, 2 faults | `AdmittedReads`; `NeverStranded`; `ReceiptTruthful`; `PairReadable`; `UpdatesSettle` |
| `auth` | 2 commands, 1 user who may be disabled, 1 lost answer or failing call, 1 killed command | `AuthorityApproved`; `StoredNotRevoked`; `NoSilentLeak`; `NoSilentOverwrite`; `CommandsEnd` |
| `auth_lock` | 3 commands, 1 killed | violation of `NoSilentOverwrite` (finding) |
| `legacy` | 2 Sessions of 2 records, 2 policies, 2 changes, 1 fault | `ArchiveFaithful`; `ProgressAcknowledged`; `CursorCovered`; `EverythingCollected` |
| `legacy_replay` | 1 Session, 1 change, 1 fault | violation of `ReplayIsOneEffect` (finding) |

Why the bounds are enough for the questions asked:

- Three attempts (`store_replacement`) give a head, the writer that replaced it and the
  one that lost; lease 1 within lifetime 2 lets a lease be renewed, run out before its
  reservation, and both run out. Two attempts suffice for content: one that is inherited
  from and one that inherits.
- `store_content` holds the clock still: attempts die there by rejection and supersession,
  and expiry is the subject of `store_replacement`. Its quota is smaller than two full
  targets, so that it is reached, and a cleanup batch of one interrupts the removal of a
  two-part attempt.
- `journal_delivery` needs two captures: one whose Raw unit is borrowed and the borrower.
  Only a tracked publication, which has an Event, lets a later capture observe Raw
  records again, so borrowing starts there. Once an Event is recorded, the constraint
  `DeliveryBounds` keeps to tracked captures with Raw content and without source headers,
  one unit of each kind per capture, and Events that point into Raw objects; everything
  else (untracked or Raw-off captures, headers and baselines in the budget, several units
  of a kind) is explored without Events. The run reaches sealed publications and sealed
  observations whose borrowed unit is still pending, and borrowers whose unit was
  acknowledged or canceled and then reclaimed while they are sealed.
- `journal_versions` needs three captures: one that publishes a record, one that drops
  or abandons it, one that brings it back. Two captures are unrestricted: contents,
  references, adoption and headers in any combination. For the third, `VersionBounds`
  keeps to one Event, or to two Events of one content, one reference and two revisions in
  a source that was not adopted and has no header: a record of changing content needs one
  key, and one that vanishes needs a second key to publish without it. One claim
  suffices in the journal runs: a stale epoch is refused in every operation, and several
  claims are the subject of `delivery_safety`.
- `delivery_safety` covers two successive captures, each with its own attempt, handled by
  two processes in any interleaving. Two faults are enough for a crash followed by a crash
  of the recovering process, or by an expired lease; one orphaned call is served late.
- `delivery_recovery` uses the smallest budget the code accepts, since larger budgets
  only make slices longer. It reaches a stored chunk whose receipt was lost before the
  policy changed, an append that is refused, a unit canceled under a lost authority, a
  unit borrowed by the second capture and a completed Raw observation. Each fault, each
  exhausted budget and the policy change costs a claim; no behaviour of this instance
  needs twelve, so the bound never stops the daemon.
- `daemon` has three tokens: the collector before the maintenance, its successor, and a
  spawned child whose parent died. Two faults let the owner of the gate and the one that
  recovers it die. In `update` a second update starts from every settlement of the
  first; `MaxAttempts` is at least updates plus faults, so the bound never refuses a retry.
- Two commands suffice for the races of `auth`; the race on a stale lock needs the dead
  holder and two others, which is `auth_lock`.
- `legacy` has two Sessions so that turns are given and taken, and two records with pages of
  one so that every page can be interrupted. Two collectors on one checkpoint make each
  other's commits fail for ever if they alternate, so the instance has one.

Symmetry is used for safety only, over identities and contents that no definition tells
apart. The constraints of the journal runs are named in `MCCaptureJournal`; those runs check
invariants only, and the theorems of section 4 hold without any bound.

**Fairness.** Faults, expiry, policy changes, lost calls and everything a user decides are
never assumed to happen, and faults are finitely many: with endless crashes nothing could
be promised. Assumed is only what the code's own loops do:

- `delivery_recovery`: the daemon claims its sources in a loop (`Claim`), a running slice
  takes its next step, and the Server answers the calls that reach it (`Serve`). The
  Session is not deleted, because then the code intends to keep the capture.
- `daemon`: work in the process lock, the maintenance owner and spawned collectors go on;
  a login or the next command resumes sync (`Resume`); the hourly wake takes over a gate
  whose owner died (`Recovery`).
- `update`: the worker and a running apply process go on, and the hourly wake, a login or an
  interactive start begins a pending recovery (`BeginRecovery`).
- `auth`: a running command takes its next step and time passes. No person is assumed to
  decide: the deadline ends the command.
- `legacy`: the collector runs a cycle every interval and a quarantine ends. In
  this instance a source rests while the Server may hold Raw content of it that the
  checkpoint does not record, unless it only grows and its snapshot is saved
  (`SettledSources`): without that, the finding below would stop the Session for good.

Observation on depth of defence: the journal's epoch, its checkpoint comparison and the
Server's base comparison protect the head independently. With the epoch check removed,
and even with the epoch and checkpoint checks both removed, `delivery_safety` still
finds no violation of its properties, since the Server then refuses the attempt.

Observation on canceled Raw units: a unit canceled because the *client's redaction policy*
changed can still be stored afterwards by an append that was already on its way, because
the Server's authority has not changed. `SettledTruthfully` therefore claims a real gap
only for cancellations by Raw authority, where the Server refuses the late call.

**Findings.** Two statements of the repository do not hold of the code; each has a run that
shows it.

- `auth_lock` (`authenticationLayers.ts:618`): a lock file is judged stale and unlinked by
  path in a later call. Of two commands that both judge the lock of a dead command
  stale, the slower removes the lock the faster has just created; both then hold it, and
  the second write replaces a credential its command never read.
  `cliAuthentication.ts:64` promises compare-and-swap.
- `legacy_replay` (`legacyCollector.ts:132`): before a Session's first Raw page is sent the
  checkpoint records that an outcome is pending but not the snapshot that was selected. If
  the process stops after the Server accepted a chunk and the rollout changes, the replay
  sends the same chunk identity with other content and is refused, in that and every later
  cycle. ADR 0009 line 51 promises that a replayed page is one Server effect.

## 4. Proofs

Eight modules prove theorems of the specifications, for any Sessions, captures, tokens,
releases, accounts, commands and limits. They rest only on the assumptions stated in the
specifications, which TLC evaluates in every run. These say what the code guarantees of its
inputs: bounds are numbers, sizes are positive, `Null` is no value, every publication
capture has an attempt of its own (`IssuedFor`), contracts of journals never decrease with the
release, and the sets of records in a part body and of Sessions a legacy collector pages are finite. No
other set has to be finite.

The invariants that a run checks are seldom inductive. Each proof names the strengthening,
shows in one lemma per action that a step keeps it, and derives the property from it.

### PublicationStoreProofs

| Theorem | Statement |
|---|---|
| `TypeCorrect` | `Spec => []TypeOK` |
| `HistoryIsLinear` | `Spec => []LinearHistory` |
| `DeadAttemptsStayDead` | `Spec => DeadStaysDead` |
| `ReceiptsAreStable` | `Spec => ReceiptStable` |
| `TombstonesAreFinal` | `Spec => TombstoneFinal` |
| `VersionsAgree` | `Spec => []VersionAgreement` |

`TypeOK` is inductive by itself. `LinearHistory` is not: a state could hold
a live attempt with the fence of another one, or with a base that was never activated,
and activating it would fork the chain. The inductive invariant
`Authority == RowsKnown /\ FencesOwned /\ BasesActivated /\ LinearHistory` adds that
rows exist only for issued identities (so a fresh reservation disturbs nothing), that the
attempts of a Session have distinct fences not above the Session's counter (so only the
last writer has the current fence), and that an attempt's base is an activated
attempt with a smaller fence. Four lemmas cover the actions that touch these
rows (issue, begin, activate, reclaim); `AuthorityPreserved` covers the others.
Activation is the interesting case: a live attempt has the Session's current fence and
its base equals the head, so the new head extends the chain at its end.

`DeadStaysDead` rests on `AttemptSteps`, which describes what one step can do to a begun
attempt, and on the monotonicity of the clock and of fences: renewal raises a lease only
for an attempt that is live, and a replaced base never returns because the chain is
linear. `ReceiptStable` and `TombstoneFinal` use that cleanup spares the head and removes
reservations only of attempts that were not activated, and that every writing
operation on a deleted Session is refused. `VersionAgreement` needs that parts exist
only for begun attempts (`PartsBegun`): together they are `LedgerInv`, which is inductive
relative to `TypeOK` and `Authority`.

The same module goes on to what the store publishes, and to its accounts:

| Theorem | Statement |
|---|---|
| `SourcesCorrect` | `Spec => []Sources` |
| `HeadIsComplete` | `Spec => []HeadComplete` |
| `LegacyNeverRegresses` | `Spec => NoLegacyRegression` |
| `ReadersSeeAtomicPublication` | `Spec => ImplementsAtomicPublication` |
| `WritersSeeAttemptAuthority` | `Spec => ImplementsAttemptAuthority` |
| `AccountsAgree` | `Spec => []Accounting` |

`HeadComplete` speaks of a head that was prepared over many calls. The invariant behind it,
`TargetsOK`, follows an attempt from its first part: while an attempt is live or is the
head (`Intact`), its parts are either an upload that nothing has normalized, or exactly
the sealed manifest, normalized up to the validation cursor, with the declared count,
above the adoption floor, and with copies taken only from what readers of its base see;
once validated, with all of them. Two facts carry it: cleanup takes no part of an intact
attempt, and while an attempt is live no rival can be activated, so the records it inherits
from do not move under it. Adding up the members of parts needs finite bodies, which is why
`ConstantsAssumption` says so.

`NoLegacyRegression` then follows from `Sources` (a Session with a reservation is a
publication source, and its legacy records lie at or below the floor) and from the floor
that validation enforces on explicit records.

For both refinements the mapped variables get names, every abstract action is restated in
those names once (`PublishedMeans`, `ReserveMeans` and the lemmas after it), and each
operation of the store is shown to be one abstract action or a stutter. For readers, only
`Activate`, the first `Reserve` or `AdoptLegacy`, `LegacyApply` and `DeleteSession` are
visible, and activation publishes precisely the content of the manifest, which is what
`TargetsOK` says of a validated attempt. For writers, the clock is the abstract `Lose`, a
`Begin` takes the authority of its rivals, and the calls of `Validate` stutter until the
last one. The invariant here also needs `Blank`: the row of an attempt that was not begun
tells its writer nothing.

`Accounting` is inductive with the rows it sums: `Holdings` adds that part rows and pending
attempts are finitely many (each is written by one step, so no set of identities has to
be finite), that every row has a size, and that a reader sees finitely many records. Then each
write of a row is followed to the counter that must move with it. Three steps need more
than arithmetic. A normalized row replaces the uploaded one and equals no other, because the
ordinals of a live target are distinct (`Distinct`, from `TargetsOK`). A derived row is new,
because its records are not in the target yet. And the usage that admission computes from the
counters is the size of the rows themselves (`UsageIsStored`), because every part has its
attempt row (`PartsBegun`).

### SumTheorems

The accounts are sums over sets, `SumFunction` of the community modules, which is defined by a
recursive function over the subsets of its domain. The module proves that this function exists and
what it yields: the empty sum, one element more (`SumAdd`) or less (`SumRemove`, in any
order), a split into disjoint parts (`SumSplit`), a family of disjoint sets (`SumNested`),
that fewer naturals sum to less (`SumMonotonic`), that one row that grows raises the sum by no
more (`SumRaised`, the journal's metadata), and that elements may be renamed when each keeps its
value (`SumRenamed`, units that change their disposition and keep their bytes). Induction rules take an operator as
a parameter, which the provers cannot instantiate. `SubsetInduction` does without: a *set* of
subsets that is closed under "all strict subsets are in it" is everything, because otherwise
`WFMin` names a smallest subset outside it.

### CaptureJournalProofs

| Theorem | Statement |
|---|---|
| `RowsCorrect`, `UnitsCorrect`, `RecordsCorrect` | the shape of scopes, captures, units, records and versions |
| `TypeCorrect` | `Spec => []TypeOK` |
| `SettlementIsSafe` | `Spec => []SettlementNeverConflicts` |
| `CompletionIsExact` | `Spec => []CompletionExact` |
| `VersionsIdentify` | `Spec => []VersionIdentity` |
| `OwedContentIsRetained` | `Spec => []OwedContentRetained` |
| `DroppedRecordsReappearAsNew` | `Spec => []ReappearsAsNew` |
| `BytesAgree` | `Spec => []ByteAccounting` |
| `ReclaimIsCovered` | `Spec => []ReclaimCovered` |

`SettlementNeverConflicts` and `CompletionExact` are inductive relative to the rows: a
reservation needs the previous capture resolved, and a receipt or a cancellation completes
a capture in the transaction that settles its last unit. `VersionIdentity` is inductive with
`Versions`: allocated revisions lie above the floor of their scope, and a version names a
capture of its scope. `OwedContentRetained` is split into what a capture owes itself and what
it borrows (`Borrowed`): a borrowed unit belongs to an activated capture, and an activated
capture is never abandoned, so `reclaim` does not take its pending content.

`ReappearsAsNew` is the deepest result about the journal, and needs all of
`Reappearance == Begun /\ Chained /\ Tracking /\ Observations /\ Remembered /\ Renumbered`. A
record that the published predecessor had and a sealed capture left out (`Dropped`) is
remembered: either its version was renumbered since, or the next observation will see
that it was absent (`WasAbsent`). That lasts because the captures of a source form a
chain of expected checkpoints (`Chained`), because a source that was tracked stays tracked
(`Tracking`), and because the observation that a version is compared with was sealed
(`Observations`), whatever was abandoned or pruned in between.

`ByteAccounting` is inductive with `Bookkeeping == Numbering /\ Metered /\ Counted /\ Budgeted`.
`Numbering`: a unit is known by its capture, channel and ordinal, and ordinals lie below the
capture's next one, so an appended unit is new and its bytes are counted once. `Metered`:
what is not stored has no metadata bytes, and finitely many rows are stored, whatever the
number of identities. `Counted`: the counters are sums over the stored units; a receipt or a
cancellation renames units and keeps their bytes, and only `reclaim` takes bytes, as
many as it subtracts. `Budgeted`: a step adds at most the rows and bytes that the admission
check (`Capacity`) counted. `ReclaimCovered` follows: the check at the end of `reclaim`
(`captureJournal.ts:838`) never fails.

### PublicationDeliveryProofs

| Theorem | Statement |
|---|---|
| `DeliveryProtocol` | `Spec => [](Rows /\ Protocol)`: journal, Server, processes and calls in flight agree |
| `HeadNeverLost` | `Spec => []HeadAccounted` |
| `DeliveryRaw` | `Spec => [](Rows /\ Protocol /\ Raw)`: what is known of the archive is true of it |
| `SettledIsTrue` | `Spec => []SettledTruthfully` |

`HeadAccounted` is not inductive: an activation may be served long after the process that
sent it has died and others have claimed the source, and it must then still be the
activation of the one sealed capture, over the current checkpoint. The invariant therefore
says what binds each pair of parties:

- *Journal and Server* (`Store`). An attempt past `reserved` belongs to its capture and was
  begun over the checkpoint that capture expected; only a frozen capture gets it past
  `open` (`Bound`). At most one capture is unresolved, and it expects the checkpoint
  (`Owning`). What is settled is what the Server did (`Settled`).
- *Processes* (`Actors`). An epoch belongs to one process and the latest to the owner
  (`Claims`). A program point says which capture and attempt a process works on
  (`Placed`). An identity that is reserved but bound to no capture is in the hands of one
  process (`Held`), so no two captures are begun with one attempt. An answer "activated"
  or "rejected" concerns the attempt of the process that holds it and stays true (`Told`).
- *Calls in flight* (`Linked`, `Called`). A call was made for a capture that existed, with
  its attempt and the checkpoint it expects, whether or not anybody waits for it; a process
  that waits stands where it sent the call.
- *Raw content* (`Raw`). An authority that ended never returns, since the policy's revision
  only grows; what the archive answered stays true while the process that asked acts on
  it, and a canceled unit belongs to a canceled capture.

The proof has one lemma per journal transaction, saying what it does to the rows delivery
depends on; one per Server call, saying what it does to attempts and to the process that
gets the reply; and one per step of a process. The bounds on claims, faults, orphaned calls
and policy changes are any numbers, and the sets of processes, captures and attempts any
sets, so a step may meet any number of late calls and stopped processes.

### CollectorDaemonProofs

| Theorem | Statement |
|---|---|
| `FilesCorrect` | `Spec => []Order` |
| `CollectorIsRecorded` | `Spec => []RunningIsRecorded` |
| `ActivationIsQuiet` | `Spec => []ActivationQuiesced` |
| `HandoverIsExact` | `Spec => HandoverExact` |
| `StopIsFinal` | `Spec => []StopWins` |

`Order` says which work may be in the lock: a command works towards a start only with the
gate open, and the job of the maintenance owner is the one its own step waits for. `Authority`
relates the lock to the files: a job that is about to replace or remove the record has
stopped the process it names (`Emptied`), and from quiescence on the record is empty or
names the collector that the owner launched (`Handed`). `Halted` says what a Stop leaves
behind: no record, no resume in the gate, and a saved intent that is off or used up; none of
the ways to start a collector gets past these three files.

### CaptureUpdateProofs

| Theorem | Statement |
|---|---|
| `PairIsReadable` | `Spec => []PairReadable` |
| `AdmittedCanRead` | `Spec => []AdmittedReads` |
| `NobodyIsStranded` | `Spec => []NeverStranded` |
| `ReceiptIsTruthful` | `Spec => []ReceiptTruthful` |

One invariant, `Inv`, carries all four. Requirement and ledger are readable together and name
a migration to format 8 (`PairReadable`, `Eight`); transactions are numbered in order
(`Ordered`); a transaction that only goes forward has its target as floor, and until then
the replaced runtime still satisfies the floor (`Shape`); a pending migration is that of the
current transaction, and an older marker names a target this transaction started from
(`Chain`); before the first fence no journal has changed format (`Untouched`), and after the
first completed migration none is old (`Clean`); the worker's own readings stay
true (`Posted`); and the apply process of the current attempt has really done what
it counts (`Applying`), which a superseded process cannot disturb.

### CLIAuthenticationProofs

| Theorem | Statement |
|---|---|
| `OrderCorrect` | `Spec => [](TypeOK /\ Stage)` |
| `AuthorityIsApproved` | `Spec => []AuthorityApproved` |
| `StoredIsNotRevoked` | `Spec => []StoredNotRevoked` |
| `NoneLeaksSilently` | `Spec => []NoSilentLeak` |
| `TwoNeverOverwrite` | `AtMostTwo /\ Spec => NoSilentOverwrite` |

`StoredNotRevoked` needs the history of the file (`Stored`, `Discarding`): what a swap
replaced never returns to disk, because only the command that received a credential writes
it, once; and a command revokes only what was replaced or never saved. `NoSilentLeak` is
inductive with the order of a command's steps. `TwoNeverOverwrite` is stated for at most two
commands because with three it is false (run `auth_lock`): of two, the one that judges the
lock stale has the dead owner as its only rival, so nobody can take the lock before it is
unlinked (`Exclusive`).

The attempt to prove `NoSilentLeak` for any number of commands found an error of the model: with
three commands a write through the stale-lock race replaces a credential that nobody
accounts for. The model now names that loss (`Overwritten`), and the theorem holds for any
number of commands.

### LegacyCollectorProofs

| Theorem | Statement |
|---|---|
| `CollectionHolds` | `Spec => []Collection` |
| `ArchiveIsFaithful` | `Spec => []ArchiveFaithful` |
| `ProgressIsAcknowledged` | `Spec => []ProgressAcknowledged` |
| `CursorIsCovered` | `Spec => []CursorCovered` |

They hold for any number of collectors on one checkpoint and whether or not
`SettledSources` lets a source rest. A job reads a page from a file that goes on changing,
so `Collection` says what it may rely on: a snapshot is an extent of its generation, the
whole of it when the file was archived (`Extent`); a cursor covers published records only
(`Cursor`), and the cursor of a page whose batch is not accepted yet covers them once it is
(`With`); Raw progress is a prefix that the Server has (`Progress`); a segment in
flight starts at that progress and ends inside the file (`Segmented`); what the job counts as
sent is on the Server, from its own generation (`Acknowledged`); a chunk row is part of its
object (`Stored`), so a replayed chunk acknowledges what is there. Generations of a file
only grow and none returns (`Past`). Two groups of lemmas carry the proof: the `…Last` lemmas
show that all of this survives a file that grows, is archived, replaced or removed and a
Server that holds more (`After`, `Grown`), so each action is left with its own
rows (`Steps`); and the page lemmas show it of every page `collectPage` can return. An
append extends the object's prefix because the Server takes a chunk only at the object's
end, and the job's `sent` is that end in records of the page's generation.

### What is only model-checked

- *Liveness*: `CapturesResolve`, `MaintenanceEnds`, `SyncReturns`, `UpdatesSettle`,
  `CommandsEnd` and `EverythingCollected`, under the fairness of section 3, which the
  prover does not handle.

## 5. Plan

Done: publication store, its two abstractions and both refinement proofs, capture journal,
Canonical and Raw delivery, collector daemon, updates and journal migration, CLI sign-in,
legacy collector, and the proofs of section 4: every safety property that a passing run checks is a
theorem. Next: proofs that connect modules, such as the journal's
settlement inside delivery, and what the operators of the legacy collector's turns
(`selectSession`) guarantee to a Session that waits.

## 6. Not modelled, and why

- *Search projection* (leased work in two tables, several projectors) has a protocol worth a
  model; the hazards list names it. The index is derived data: a document carries the
  descriptor of the content it was made from, queries compare it with the selected head,
  and work stays in its table until it is acknowledged. The modelled paths hold the only
  copy of something and came first.
- *Teams* (last owner, join codes): each operation is one transaction that first locks the
  Team's row, so operations on a Team are serial; what remains is a sequential rule.
- *Federated sign-in and web sessions*: flows with an external identity provider.
- *Chunk files of the Raw archive*: a file is written before its row, under a name derived
  from its content, and an upload that finds the file reuses it; a leftover file is
  harmless by construction.
- *Upgrade of older journal files*: one transaction per step, run before any other operation.
- *Adoption inside delivery*: the same transactions are checked in `PublicationStore` and
  `CaptureJournal`.
- *Adapters other than Codex, redaction, projection, packing by size*: text processing on
  payloads; the protocol sees identities, sizes and policy identities only. These, with
  the web application and the presentation code of the CLI, are most of the repository's
  TypeScript, so the modelled lines are a small share of it.
- *HTTP API, authorization tables, analytics, queries, deployment*: decoding, pure decisions
  and reads without protocol state.
