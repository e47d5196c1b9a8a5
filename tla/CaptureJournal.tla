---------------------------- MODULE CaptureJournal ----------------------------
(***************************************************************************)
(* The CLI's durable capture journal (apps/cli/src/runtime/                *)
(* captureJournal.ts).  For each source scope it freezes what a capture    *)
(* observed, keeps the content until delivery is resolved, allocates the   *)
(* revisions records are published under, and remembers the checkpoint of  *)
(* the last capture that the Server really activated.                      *)
(*                                                                         *)
(* Every operation is one SQLite transaction, so it is one action; a       *)
(* refused call is rolled back and a replayed call returns what is stored: *)
(* neither changes the tables, and both are stuttering steps here.  An     *)
(* operation presents the epoch `e' of its claim, and a later claim of the *)
(* same scope fences every earlier one.                                    *)
(***************************************************************************)
EXTENDS Integers, FiniteSets, Functions

CONSTANTS
  Scopes,            \* sources of the account
  Captures,          \* capture identities (random UUIDs, never reused)
  Attempts,          \* Server-issued attempts; the host's checkpoints name them
  IssuedFor,         \* the attempt the Server issues for a capture
  Policies,          \* kinds of capture the host reserves: purpose, raw, track
  Reasons,           \* reasons to cancel Raw delivery
  Receipts,          \* activation and rejection receipts of the Server
  UnitReceipts,      \* receipts of the Server for one unit
  EventKeys,         \* keys of Canonical records
  RawKeys,           \* keys of Raw records
  Observed,          \* content of a record: fingerprint and projection version
  Sizes,             \* byte counts of a prepared unit
  MetadataSizes,     \* byte counts of a source header or an adoption baseline
  Floors,            \* revision floors an adoption can return
  Null,
  UnitsPerTarget, TargetBytes, PendingBytes, RecordsPerTarget, MetadataEntries,
  PruneLimit, ReclaimLimit,  \* largest batch of pruneRecords and of reclaim
  MaxEpoch, MaxRevision      \* bounds; the code's are 2^53 - 1

ASSUME JournalAssumption ==
  /\ Null \notin Scopes \cup Captures \cup Attempts \cup Receipts \cup UnitReceipts
  /\ IssuedFor \in [Captures -> Attempts]
  /\ \A c, d \in Captures : IssuedFor[c] = IssuedFor[d] => c = d
  /\ Policies \subseteq [purpose: {"publication", "raw-observation"}, raw: BOOLEAN, track: BOOLEAN]
  /\ Sizes \subseteq Nat \ {0} /\ MetadataSizes \subseteq Nat \ {0} /\ Floors \subseteq Nat
  /\ PendingBytes \in Nat /\ MaxEpoch \in Nat /\ MaxRevision \in Nat
  /\ {UnitsPerTarget, RecordsPerTarget, PruneLimit, ReclaimLimit} \subseteq Nat

VARIABLES
  scopes,    \* scope rows; epoch 0 when there is none
  captures,  \* capture rows; state "none" when there is none
  units,     \* unit rows
  records,   \* capture_records rows
  versions,  \* source_record_versions rows; revision 0 when there is none
  retained   \* binding.retained_bytes

vars == <<scopes, captures, units, records, versions, retained>>

-----------------------------------------------------------------------------
(* Rows                                                                    *)

UnitKinds == {"canonical", "raw"}
\* Session, Thread, Event and Usage records follow one rule and are one kind
\* here; it carries the Raw reference that the code gives to Events.
RecordKinds == {"event", "raw"}
References == {"object", "unavailable"}
KeysOf(k) == IF k = "raw" THEN RawKeys ELSE EventKeys
RecordIds == {v \in Scopes \X RecordKinds \X (EventKeys \cup RawKeys) : v[3] \in KeysOf(v[2])}
Unactivated == {"preparing", "sealed"}

NoScope == [epoch |-> 0, checkpoint |-> Null, floor |-> 0, adopted |-> FALSE,
            baseline |-> 0, initialized |-> FALSE, coverage |-> Null,
            observedCanonical |-> Null, observedRaw |-> Null]
NoCapture == [state |-> "none", scope |-> Null, expected |-> Null, begin |-> Null,
              purpose |-> "publication", raw |-> FALSE, track |-> FALSE,
              next |-> Null, activation |-> Null, rejection |-> Null,
              canceled |-> Null, header |-> 0, retained |-> 0, retired |-> FALSE]
NoVersion == [content |-> Null, rev |-> 0, ref |-> Null, capture |-> Null, comparison |-> Null]

UnitsOf(c, k) == {u \in units : u.capture = c /\ u.kind = k}
RecordsOf(c) == {r \in records : r.capture = c}
RecordOf(c, k, key) == {r \in RecordsOf(c) : r.kind = k /\ r.key = key}
PendingRaw(c) == {u \in UnitsOf(c, "raw") : u.disposition = "pending"}
CapturesOf(s) == {c \in Captures : captures[c].scope = s}
UnitBytes(U) == SumFunction([u \in U |-> u.bytes])

-----------------------------------------------------------------------------
(* Guards every operation shares                                           *)

\* ownerScope: the claim is the scope's latest one.
OwnerScope(s, e) == e # 0 /\ scopes[s].epoch = e
Owned(c, e) == captures[c].state # "none" /\ OwnerScope(captures[c].scope, e)

\* The metadata_entries and metadata_bytes counters, which SQL triggers keep.
ScopeRows == {s \in Scopes : scopes[s].epoch # 0}
CaptureRows == {c \in Captures : captures[c].state # "none"}
Entries ==
  Cardinality(ScopeRows) + Cardinality(CaptureRows) + Cardinality(units)
  + Cardinality(records) + Cardinality({v \in RecordIds : versions[v].rev # 0})
MetadataBytes ==
  SumFunction([s \in ScopeRows |-> scopes[s].baseline])
  + SumFunction([c \in CaptureRows |-> captures[c].header])
AdmitMetadata(n) == Entries + n <= MetadataEntries
Capacity(bytes) == retained + MetadataBytes + bytes <= PendingBytes

-----------------------------------------------------------------------------
Init ==
  /\ scopes = [s \in Scopes |-> NoScope]
  /\ captures = [c \in Captures |-> NoCapture]
  /\ units = {}
  /\ records = {}
  /\ versions = [v \in RecordIds |-> NoVersion]
  /\ retained = 0

-----------------------------------------------------------------------------
(* Scope ownership and adoption                                            *)

Claim(s) ==
  /\ scopes[s].epoch < MaxEpoch
  /\ scopes[s].epoch = 0 => AdmitMetadata(1)
  /\ scopes' = [scopes EXCEPT ![s].epoch = @ + 1]
  /\ UNCHANGED <<captures, units, records, versions, retained>>

\* The floor and baseline of a legacy Session, before anything is prepared.
AdoptBaseline(s, e, floor, bytes) ==
  /\ OwnerScope(s, e)
  /\ ~scopes[s].adopted
  /\ ~scopes[s].initialized /\ CapturesOf(s) = {}
  /\ Capacity(bytes)
  /\ scopes' = [scopes EXCEPT ![s] =
       [@ EXCEPT !.adopted = TRUE, !.floor = floor, !.baseline = bytes]]
  /\ UNCHANGED <<captures, units, records, versions, retained>>

-----------------------------------------------------------------------------
(* Preparation                                                             *)

\* Mutant: an unresolved capture does not block the next one.
ReservableAnyway(s, c, expected, purpose, raw, track) ==
  /\ captures[c].state = "none"
  /\ scopes[s].checkpoint = expected
  /\ purpose = "raw-observation" => raw /\ expected # Null
  /\ track => scopes[s].initialized \/ scopes[s].checkpoint = Null
  /\ ~track /\ purpose = "publication" => ~scopes[s].initialized

\* One capture at a time may still reach the Server; tracking of source
\* versions is decided by the first capture and never dropped.
Reservable(s, c, expected, purpose, raw, track) ==
  /\ captures[c].state = "none"
  /\ scopes[s].checkpoint = expected
  /\ purpose = "raw-observation" => raw /\ expected # Null
  /\ track => scopes[s].initialized \/ scopes[s].checkpoint = Null
  /\ ~track /\ purpose = "publication" => ~scopes[s].initialized
  /\ \A d \in CapturesOf(s) : captures[d].state \notin Unactivated

Reserve(s, e, c, expected, begin, purpose, raw, track) ==
  /\ OwnerScope(s, e)
  /\ Reservable(s, c, expected, purpose, raw, track)
  /\ AdmitMetadata(1)
  /\ scopes' = [scopes EXCEPT ![s].initialized = @ \/ track]
  /\ captures' = [captures EXCEPT ![c] =
       [NoCapture EXCEPT !.state = "preparing", !.scope = s, !.expected = expected,
                         !.begin = begin, !.purpose = purpose, !.raw = raw, !.track = track]]
  /\ UNCHANGED <<units, records, versions, retained>>

\* The source header is frozen before any record or unit.
SetSourceMetadata(c, e, bytes) ==
  /\ Owned(c, e)
  /\ captures[c].header = 0
  /\ captures[c].state = "preparing"
  /\ RecordsOf(c) = {} /\ \A u \in units : u.capture # c
  /\ captures[c].retained + bytes <= TargetBytes /\ Capacity(bytes)
  /\ captures' = [captures EXCEPT ![c].header = bytes]
  /\ UNCHANGED <<scopes, units, records, versions, retained>>

Unit(c, k, n, bytes) ==
  [capture |-> c, kind |-> k, ordinal |-> n, bytes |-> bytes, body |-> TRUE,
   disposition |-> "pending", receipt |-> Null]

\* Units are appended contiguously per channel, within the target's and the
\* journal's budget; the counters are kept beside the rows.
Append(c, e, k, bytes) ==
  LET n == Cardinality(UnitsOf(c, k)) IN
  /\ Owned(c, e)
  /\ captures[c].state = "preparing"
  /\ captures[c].purpose = "raw-observation" => k = "raw"
  /\ k = "raw" => captures[c].raw /\ captures[c].canceled = Null
  /\ Cardinality(UnitsOf(c, "canonical") \cup UnitsOf(c, "raw")) < UnitsPerTarget
  /\ captures[c].retained + captures[c].header + bytes <= TargetBytes
  /\ Capacity(bytes)
  /\ AdmitMetadata(1)
  /\ units' = units \cup {Unit(c, k, n, bytes)}
  /\ captures' = [captures EXCEPT ![c].retained = @ + bytes]
  /\ retained' = retained + bytes
  /\ UNCHANGED <<scopes, records, versions>>

-----------------------------------------------------------------------------
(* Source versions                                                         *)

LastComplete(s, k) == IF k = "raw" THEN scopes[s].observedRaw ELSE scopes[s].observedCanonical

\* The last complete observation since this version was allocated lacks it.
WasAbsent(s, k, key) ==
  LET last == LastComplete(s, k) IN
  /\ last # Null
  /\ last # versions[<<s, k, key>>].comparison
  /\ RecordOf(last, k, key) = {}

\* The version points into Raw content that was never accepted.
OrphanedReference(v) == v.ref = "object" /\ captures[v.capture].activation = Null

\* Mutant: a record that was gone in between keeps its revision.
ChangedByContent(s, k, key, content) ==
  LET v == versions[<<s, k, key>>] IN
  v.rev = 0 \/ v.content # content \/ OrphanedReference(v)

Changed(s, k, key, content) ==
  LET v == versions[<<s, k, key>>] IN
  v.rev = 0 \/ v.content # content \/ WasAbsent(s, k, key) \/ OrphanedReference(v)

\* Mutant: the increment binds to the floor alone.
NextRevisionOfFloor(s, k, key) ==
  LET v == versions[<<s, k, key>>] IN IF v.rev = 0 THEN scopes[s].floor + 1 ELSE v.rev

NextRevision(s, k, key) ==
  LET v == versions[<<s, k, key>>] IN
  (IF v.rev = 0 THEN scopes[s].floor ELSE v.rev) + 1

NewVersion(s, k, key, content, ref, c) ==
  [content |-> content, rev |-> NextRevision(s, k, key), ref |-> ref, capture |-> c,
   comparison |-> LastComplete(s, k)]

RecordRow(c, k, key, v) ==
  [capture |-> c, kind |-> k, key |-> key, content |-> v.content, rev |-> v.rev,
   ref |-> v.ref, version |-> v.capture, unit |-> Null, gap |-> FALSE]

\* An observation either confirms the current version of the record or
\* allocates the next revision; a Raw-off capture allocates no object reference.
Record(c, e, k, key, content, ref) ==
  LET s == captures[c].scope
      changed == Changed(s, k, key, content)
      v == IF changed THEN NewVersion(s, k, key, content, ref, c) ELSE versions[<<s, k, key>>]
  IN
  /\ Owned(c, e)
  /\ captures[c].track /\ ~captures[c].retired
  /\ captures[c].state = "preparing"
  /\ captures[c].purpose = "raw-observation" => k = "raw"
  /\ k = "raw" => captures[c].raw
  /\ (k = "event") <=> (ref # Null)
  /\ RecordOf(c, k, key) = {}
  /\ Cardinality(RecordsOf(c)) < RecordsPerTarget
  /\ AdmitMetadata(IF versions[<<s, k, key>>].rev = 0 THEN 2 ELSE 1)
  /\ changed => v.rev <= MaxRevision /\ (~captures[c].raw => ref # "object")
  /\ versions' = [versions EXCEPT ![<<s, k, key>>] = v]
  /\ records' = records \cup {RecordRow(c, k, key, v)}
  /\ UNCHANGED <<scopes, captures, units, retained>>

Bound(r) == r.unit # Null \/ r.gap

\* Mutant: the unit of a capture that was abandoned, or still may be, is lent.
BorrowableUnactivated(r, p) ==
  /\ r.kind = "raw" /\ p.kind = "raw" /\ p.key = r.key /\ p.capture # r.capture
  /\ captures[p.capture].scope = captures[r.capture].scope
  /\ ~captures[p.capture].retired
  /\ p.rev = r.rev /\ p.content = r.content
  /\ \E u \in units :
       /\ p.unit = <<u.capture, u.ordinal>> /\ u.kind = "raw"
       /\ u.disposition # "canceled"
       /\ u.disposition = "pending" => u.body

\* A Raw record may borrow the unit of an activated capture that observed the
\* same version, unless that unit was canceled or has lost its content.
Borrowable(r, p) ==
  /\ r.kind = "raw" /\ p.kind = "raw" /\ p.key = r.key /\ p.capture # r.capture
  /\ captures[p.capture].scope = captures[r.capture].scope
  /\ ~captures[p.capture].retired
  /\ p.rev = r.rev /\ p.content = r.content
  /\ captures[p.capture].activation # Null
  /\ \E u \in units :
       /\ p.unit = <<u.capture, u.ordinal>> /\ u.kind = "raw"
       /\ captures[u.capture].activation # Null
       /\ u.disposition # "canceled"
       /\ u.disposition = "pending" => u.body

Rebound(r, unit, gap) == (records \ {r}) \cup {[r EXCEPT !.unit = unit, !.gap = gap]}

\* Every record gets frozen content of its own capture, a borrowed Raw unit or
\* an explicit Raw gap, once.
BindRecord(e, r) ==
  /\ r \in records /\ ~Bound(r)
  /\ Owned(r.capture, e)
  /\ captures[r.capture].state = "preparing"
  /\ \/ \E u \in UnitsOf(r.capture, IF r.kind = "raw" THEN "raw" ELSE "canonical") :
          records' = Rebound(r, <<u.capture, u.ordinal>>, FALSE)
     \/ \E p \in records : Borrowable(r, p) /\ records' = Rebound(r, p.unit, FALSE)
     \/ r.kind = "raw" /\ records' = Rebound(r, Null, TRUE)
  /\ UNCHANGED <<scopes, captures, units, versions, retained>>

\* recordManifest: a tracked seal covers every record, all of them bound.
ManifestComplete(c, complete) ==
  LET row == captures[c] IN
  /\ row.track => \A r \in RecordsOf(c) : Bound(r)
  /\ row.track /\ row.purpose = "publication" => \E r \in RecordsOf(c) : r.kind = "event"
  /\ complete => row.track /\ row.raw
  /\ row.track /\ row.purpose = "raw-observation" =>
       complete \/ \E r \in RecordsOf(c) : r.kind = "raw"

\* The capture is frozen.  A tracked publication becomes the last complete
\* Canonical observation, and a complete Raw one the last Raw observation.
Seal(c, e, next, complete) ==
  LET row == captures[c] IN
  /\ Owned(c, e)
  /\ row.state = "preparing"
  /\ IF row.purpose = "publication" THEN UnitsOf(c, "canonical") # {}
     ELSE next = row.expected /\ (row.track \/ UnitsOf(c, "raw") # {})
  /\ ManifestComplete(c, complete)
  /\ captures' = [captures EXCEPT ![c] = [@ EXCEPT !.state = "sealed", !.next = next]]
  /\ scopes' = [scopes EXCEPT
       ![row.scope].observedCanonical = IF row.track /\ row.purpose = "publication" THEN c ELSE @,
       ![row.scope].observedRaw = IF complete THEN c ELSE @]
  /\ UNCHANGED <<units, records, versions, retained>>

-----------------------------------------------------------------------------
(* Settlement                                                              *)

Disposed(u, how, receipt) == [u EXCEPT !.disposition = how, !.receipt = receipt]
Replaced(old, new) == (units \ old) \cup new

\* Mutant: unacknowledged Canonical units are counted as Raw ones.
CompletedOfAnyKind(c, row, rows) ==
  IF row.activation # Null /\ ~\E u \in rows : u.capture = c /\ u.disposition = "pending"
  THEN [row EXCEPT !.state = "completed"] ELSE row

\* complete(): the state an activated capture is left in, given its unit rows.
Completed(c, row, rows) ==
  IF row.activation # Null
     /\ ~\E u \in rows : u.capture = c /\ u.kind = "raw" /\ u.disposition = "pending"
  THEN [row EXCEPT !.state = "completed"] ELSE row

CanonicalAcknowledged(c, e, u, receipt) ==
  /\ Owned(c, e) /\ u \in UnitsOf(c, "canonical")
  /\ u.receipt = Null
  /\ captures[c].state = "sealed"
  /\ units' = Replaced({u}, {Disposed(u, "acknowledged", receipt)})
  /\ UNCHANGED <<scopes, captures, records, versions, retained>>

\* Only headers the next source comparison needs survive an activation.
WithoutHeaders(c, row) ==
  [d \in Captures |->
     IF d = c THEN row
     ELSE IF captures[d].scope = row.scope /\ captures[d].activation # Null
            THEN [captures[d] EXCEPT !.header = 0]
            ELSE captures[d]]

\* The checkpoint moves by compare-and-set, with the receipt that justifies
\* it; a Raw observation records the proof and leaves the checkpoint alone.
Activated(c, e, receipt) ==
  LET row == captures[c]
      done == Completed(c, [row EXCEPT !.state = "activated", !.activation = receipt], units)
  IN
  /\ Owned(c, e)
  /\ row.activation = Null /\ row.state = "sealed"
  /\ scopes[row.scope].checkpoint = row.expected
  /\ IF row.purpose = "publication"
       THEN /\ scopes' = [scopes EXCEPT
                 ![row.scope].checkpoint = row.next, ![row.scope].baseline = 0,
                 ![row.scope].coverage = IF row.track THEN c ELSE @]
            /\ captures' = WithoutHeaders(c, done)
       ELSE /\ captures' = [captures EXCEPT ![c] = done]
            /\ UNCHANGED scopes
  /\ UNCHANGED <<units, records, versions, retained>>

RawAcknowledged(c, e, u, receipt) ==
  LET rows == Replaced({u}, {Disposed(u, "acknowledged", receipt)}) IN
  /\ Owned(c, e) /\ u \in UnitsOf(c, "raw")
  /\ captures[c].activation # Null
  /\ u.receipt \in {Null, receipt}
  /\ units' = rows
  /\ captures' = [captures EXCEPT ![c] = Completed(c, @, rows)]
  /\ UNCHANGED <<scopes, records, versions, retained>>

\* An actual receipt always wins over cancellation.
Cancelable(U) == {u \in U : u.disposition = "pending"}

\* The first cancellation reason is kept.
CancelUnits(c, U, reason) ==
  LET rows == Replaced(Cancelable(U), {Disposed(u, "canceled", Null) : u \in Cancelable(U)})
      row == [captures[c] EXCEPT !.canceled = IF @ = Null THEN reason ELSE @]
  IN
  /\ units' = rows
  /\ captures' = [captures EXCEPT ![c] = Completed(c, row, rows)]

RawUnitCanceled(c, e, u) ==
  /\ Owned(c, e) /\ u \in UnitsOf(c, "raw")
  /\ captures[c].activation # Null /\ captures[c].canceled # Null
  /\ CancelUnits(c, {u}, Null)
  /\ UNCHANGED <<scopes, records, versions, retained>>

RawCancellationStarted(c, e, reason) ==
  /\ Owned(c, e)
  /\ CancelUnits(c, {}, reason)
  /\ UNCHANGED <<scopes, records, versions, retained>>

RawCanceled(c, e, reason) ==
  /\ Owned(c, e)
  /\ CancelUnits(c, UnitsOf(c, "raw"), reason)
  /\ UNCHANGED <<scopes, records, versions, retained>>

Abandoned(c, rejection) ==
  captures' = [captures EXCEPT ![c] =
    [@ EXCEPT !.state = "abandoned", !.rejection = rejection, !.header = 0]]

Rejected(c, e, receipt) ==
  /\ Owned(c, e)
  /\ captures[c].rejection = Null /\ captures[c].state = "sealed"
  /\ Abandoned(c, receipt)
  /\ UNCHANGED <<scopes, units, records, versions, retained>>

AbandonUnsealed(c, e) ==
  /\ Owned(c, e)
  /\ captures[c].state = "preparing"
  /\ Abandoned(c, Null)
  /\ UNCHANGED <<scopes, units, records, versions, retained>>

-----------------------------------------------------------------------------
(* Cleanup                                                                 *)

Protected(s) == {scopes[s].coverage, scopes[s].observedCanonical, scopes[s].observedRaw}

\* A terminal capture's membership goes batch by batch, unless a later
\* comparison still reads it.
PruneRecords(s, e, c, R, limit) ==
  /\ OwnerScope(s, e)
  /\ c \in CapturesOf(s) \ Protected(s)
  /\ captures[c].state \in {"completed", "abandoned"}
  /\ R \subseteq RecordsOf(c) /\ R # {}
  /\ Cardinality(R) = Cardinality(RecordsOf(c)) \/ Cardinality(R) = limit
  /\ Cardinality(R) <= limit
  /\ records' = records \ R
  /\ captures' = [captures EXCEPT ![c].retired = TRUE]
  /\ UNCHANGED <<scopes, units, versions, retained>>

\* Mutant: units whose content is gone already are counted again.
ReclaimableAgain(c) ==
  {u \in units : u.capture = c
     /\ \/ captures[c].state = "abandoned"
        \/ u.kind = "canonical" /\ captures[c].activation # Null
        \/ u.kind = "raw" /\ u.disposition # "pending"}

\* Content nobody owes any more: of an abandoned capture, Canonical content
\* once activated, Raw content once acknowledged or canceled.
Reclaimable(c) ==
  {u \in units : u.capture = c /\ u.body
     /\ \/ captures[c].state = "abandoned"
        \/ u.kind = "canonical" /\ captures[c].activation # Null
        \/ u.kind = "raw" /\ u.disposition # "pending"}

Reclaim(c, e, R, limit) ==
  LET bytes == UnitBytes(R) IN
  /\ Owned(c, e)
  /\ R \subseteq Reclaimable(c) /\ R # {}
  /\ Cardinality(R) <= limit
  /\ Cardinality(R) = limit \/ R = Reclaimable(c)
  /\ \A u \in R : \A w \in Reclaimable(c) :
       (w.kind = u.kind /\ w.ordinal < u.ordinal) \/ (w.kind = "canonical" /\ u.kind = "raw") => w \in R
  /\ units' = Replaced(R, {[u EXCEPT !.body = FALSE] : u \in R})
  /\ captures' = [captures EXCEPT ![c].retained = @ - bytes]
  /\ retained' = retained - bytes
  /\ UNCHANGED <<scopes, records, versions>>

-----------------------------------------------------------------------------
Epochs == 1..MaxEpoch

Prepare ==
  \/ \E s \in Scopes : Claim(s)
  \/ \E s \in Scopes, e \in Epochs, f \in Floors, b \in MetadataSizes : AdoptBaseline(s, e, f, b)
  \/ \E s \in Scopes, e \in Epochs, c \in Captures, x \in Attempts \cup {Null}, p \in Policies :
       Reserve(s, e, c, x, IF p.purpose = "publication" THEN IssuedFor[c] ELSE x,
               p.purpose, p.raw, p.track)
  \/ \E c \in Captures, e \in Epochs, b \in MetadataSizes : SetSourceMetadata(c, e, b)
  \/ \E c \in Captures, e \in Epochs, k \in UnitKinds, b \in Sizes : Append(c, e, k, b)
  \/ \E c \in Captures, e \in Epochs, k \in RecordKinds, o \in Observed,
        ref \in References \cup {Null} : \E key \in KeysOf(k) : Record(c, e, k, key, o, ref)
  \/ \E e \in Epochs, r \in records : BindRecord(e, r)
  \/ \E c \in Captures, e \in Epochs, complete \in BOOLEAN : Seal(c, e, captures[c].begin, complete)

Settle ==
  \/ \E c \in Captures, e \in Epochs, u \in units, x \in UnitReceipts :
       CanonicalAcknowledged(c, e, u, x) \/ RawAcknowledged(c, e, u, x)
  \/ \E c \in Captures, e \in Epochs, u \in units : RawUnitCanceled(c, e, u)
  \/ \E c \in Captures, e \in Epochs, x \in Receipts : Activated(c, e, x) \/ Rejected(c, e, x)
  \/ \E c \in Captures, e \in Epochs, reason \in Reasons :
       RawCancellationStarted(c, e, reason) \/ RawCanceled(c, e, reason)
  \/ \E c \in Captures, e \in Epochs : AbandonUnsealed(c, e)

Clean ==
  \/ \E s \in Scopes, e \in Epochs, c \in Captures, n \in 1..PruneLimit :
       \E R \in SUBSET RecordsOf(c) : PruneRecords(s, e, c, R, n)
  \/ \E c \in Captures, e \in Epochs, n \in 1..ReclaimLimit :
       \E R \in SUBSET Reclaimable(c) : Reclaim(c, e, R, n)

Next == Prepare \/ Settle \/ Clean

\* A publication is bound to an attempt of its own, which becomes its checkpoint; a
\* Raw observation stays at the checkpoint it found.
Spec == Init /\ [][Next]_vars

-----------------------------------------------------------------------------
(* Properties                                                              *)

ScopeOK(s) ==
  /\ s.epoch \in Nat /\ s.floor \in Nat /\ s.baseline \in Nat
  /\ s.checkpoint \in Attempts \cup {Null}
  /\ {s.coverage, s.observedCanonical, s.observedRaw} \subseteq Captures \cup {Null}
  /\ {s.adopted, s.initialized} \subseteq BOOLEAN
CaptureOK(c) ==
  /\ c.state \in {"none", "preparing", "sealed", "activated", "completed", "abandoned"}
  /\ (c.state = "none") = (c.scope = Null) /\ c.scope \in Scopes \cup {Null}
  /\ (c.state \in {"activated", "completed"}) = (c.activation # Null)
  /\ c.next = Null => c.state \in {"none", "preparing", "abandoned"}
  /\ c.retained \in Nat

\* The rows have their types; a capture's state agrees with the receipts and
\* the seal stored beside it.
TypeOK ==
  /\ \A s \in Scopes : ScopeOK(scopes[s])
  /\ \A c \in Captures : CaptureOK(captures[c])
  /\ \A u \in units : u.capture \in Captures /\ u.kind \in UnitKinds
       /\ u.disposition \in {"pending", "acknowledged", "canceled"}
       /\ (u.disposition = "acknowledged") = (u.receipt # Null)
  /\ \A r \in records : r.capture \in Captures /\ r.rev \in 1..MaxRevision
  /\ retained \in Nat

\* A capture that may still be activated remotely can always be settled: it is
\* the only one of its source, and the checkpoint it expects is the current
\* one, however many captures were abandoned or activated before it.
SettlementNeverConflicts ==
  \A c \in Captures : captures[c].state \in Unactivated =>
    /\ captures[c].expected = scopes[captures[c].scope].checkpoint
    /\ \A d \in CapturesOf(captures[c].scope) : captures[d].state \in Unactivated => c = d

SameRecord(r, q) ==
  r.kind = q.kind /\ r.key = q.key /\ captures[r.capture].scope = captures[q.capture].scope

\* A revision names one content and one Raw reference for ever, in every
\* capture that was prepared (abandoned ones may have reached the Server), and
\* an adopted source never allocates a revision legacy ingestion may have used.
VersionIdentity ==
  \A r \in records :
    LET s == captures[r.capture].scope
        v == versions[<<s, r.kind, r.key>>]
    IN
    /\ r.rev > scopes[s].floor /\ r.rev <= v.rev
    /\ r.rev = v.rev => r.content = v.content /\ r.ref = v.ref
    /\ \A q \in records : SameRecord(r, q) /\ r.rev = q.rev => r.content = q.content /\ r.ref = q.ref

Follows(c, d) ==
  /\ captures[c].scope = captures[d].scope
  /\ captures[c].purpose = "publication" /\ captures[d].purpose = "publication"
  /\ captures[c].activation # Null /\ captures[d].activation # Null
  /\ captures[d].expected = captures[c].next /\ c # d

\* A record that one published capture dropped and a later one brought back is
\* published under a greater revision, so the Server never sees the old version
\* return, also when captures in between were abandoned or pruned.
ReappearsAsNew ==
  \A r, q \in records : SameRecord(r, q) /\ r.kind = "event" =>
    \A c \in Captures :
      (Follows(r.capture, c) /\ Follows(c, q.capture) /\ ~captures[c].retired
        /\ RecordOf(c, r.kind, r.key) = {}) => q.rev > r.rev

\* Content that is still owed keeps its bytes: Canonical units until the
\* capture activates or is abandoned, Raw units until they are acknowledged or
\* canceled, the units of another capture that a record borrows included.
OwedContentRetained ==
  /\ \A u \in units :
       (captures[u.capture].state # "abandoned" /\ u.disposition = "pending"
         /\ (u.kind = "canonical" => captures[u.capture].activation = Null)) => u.body
  /\ \A u \in units : (u.kind = "canonical" /\ captures[u.capture].state \in Unactivated) => u.body
  /\ \A r \in records : r.unit # Null /\ r.unit[1] # r.capture =>
       \E u \in units : /\ u.kind = "raw" /\ r.unit = <<u.capture, u.ordinal>>
                        /\ u.disposition = "pending" => u.body

BytesOf(U) == UnitBytes({u \in U : u.body})

\* The counters that admit new content equal the bytes really stored, and the
\* journal stays within its budget.
ByteAccounting ==
  /\ retained = BytesOf(units)
  /\ \A c \in Captures :
       captures[c].retained = BytesOf(UnitsOf(c, "canonical") \cup UnitsOf(c, "raw"))
  /\ retained + MetadataBytes <= PendingBytes

\* An activated capture is left in the recovery walk exactly while it owes Raw
\* content, in whatever order receipts and cancellations arrive.
CompletionExact ==
  \A c \in Captures : captures[c].activation # Null =>
    (captures[c].state = "activated" <=> PendingRaw(c) # {})
=============================================================================
