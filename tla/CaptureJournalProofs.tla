------------------------- MODULE CaptureJournalProofs -------------------------
(***************************************************************************)
(* Theorems about CaptureJournal, for every number of sources, captures    *)
(* and records and for every value of the limits.                          *)
(***************************************************************************)
EXTENDS CaptureJournal, SumTheorems

-----------------------------------------------------------------------------
(* Rows.  A row is described by the fields it has and by the types the     *)
(* proofs up to "Bytes" read; the byte counters are typed there.           *)

ScopeFields == {"epoch", "checkpoint", "floor", "adopted", "baseline", "initialized", "coverage",
                "observedCanonical", "observedRaw"}
CaptureFields == {"state", "scope", "expected", "begin", "purpose", "raw", "track", "next",
                  "activation", "rejection", "canceled", "header", "retained", "retired"}
UnitFields == {"capture", "kind", "ordinal", "bytes", "body", "disposition", "receipt"}
RecordFields == {"capture", "kind", "key", "content", "rev", "ref", "version", "unit", "gap"}
States == {"none", "preparing", "sealed", "activated", "completed", "abandoned"}

ScopeRow(r) == DOMAIN r = ScopeFields /\ r.floor \in Nat
CaptureRow(r) ==
  /\ DOMAIN r = CaptureFields
  /\ r.state \in States
  /\ IF r.state = "none" THEN r.scope = Null ELSE r.scope \in Scopes
  /\ (r.state \in {"activated", "completed"}) <=> (r.activation # Null)

\* A row of the scopes and of the captures table per identity; a capture's
\* state agrees with the receipt stored beside it.
Rows ==
  /\ DOMAIN scopes = Scopes /\ \A s \in Scopes : ScopeRow(scopes[s])
  /\ DOMAIN captures = Captures /\ \A c \in Captures : CaptureRow(captures[c])

-----------------------------------------------------------------------------
(* What the actions do to the two tables, field by field.                  *)

\* What a capture is stays fixed from its reservation.
Frozen(d) ==
  /\ captures'[d].scope = captures[d].scope
  /\ captures'[d].expected = captures[d].expected
  /\ captures'[d].begin = captures[d].begin
  /\ captures'[d].purpose = captures[d].purpose
  /\ captures'[d].track = captures[d].track
Kept(d) ==
  /\ Frozen(d)
  /\ captures'[d].state = captures[d].state
  /\ captures'[d].next = captures[d].next
  /\ captures'[d].activation = captures[d].activation
  /\ captures'[d].retired = captures[d].retired
ScopeKept(s) ==
  /\ scopes'[s].checkpoint = scopes[s].checkpoint
  /\ scopes'[s].floor = scopes[s].floor
  /\ scopes'[s].initialized = scopes[s].initialized
  /\ scopes'[s].coverage = scopes[s].coverage
  /\ scopes'[s].observedCanonical = scopes[s].observedCanonical
AllKept == \A d \in Captures : Kept(d)
OthersKept(c) == \A d \in Captures \ {c} : Kept(d)
ScopesKept == \A s \in Scopes : ScopeKept(s)

\* The empty journal.
LEMMA RowsInit == Init => Rows
<1>1. ScopeRow(NoScope)
  BY DEF NoScope, ScopeRow, ScopeFields
<1>2. CaptureRow(NoCapture)
  BY DEF NoCapture, CaptureRow, CaptureFields, States
<1> QED BY <1>1, <1>2 DEF Init, Rows

\* Claim advances the epoch of one scope.
LEMMA ClaimEffect ==
  ASSUME Rows, NEW s \in Scopes, Claim(s)
  PROVE  Rows' /\ ScopesKept /\ AllKept
BY DEF Claim, Rows, ScopeRow, ScopeFields, ScopesKept, ScopeKept, AllKept, Kept, Frozen

\* AdoptBaseline sets the floor of a scope that has no captures.
LEMMA AdoptEffect ==
  ASSUME Rows, NEW s \in Scopes, NEW e, NEW f \in Floors, NEW b, AdoptBaseline(s, e, f, b)
  PROVE  /\ Rows' /\ AllKept
         /\ \A t \in Scopes \ {s} : ScopeKept(t)
         /\ scopes'[s].checkpoint = scopes[s].checkpoint
         /\ scopes'[s].initialized = scopes[s].initialized
         /\ scopes'[s].coverage = scopes[s].coverage
         /\ scopes'[s].observedCanonical = scopes[s].observedCanonical
         /\ CapturesOf(s) = {}
<1>1. f \in Nat
  BY JournalAssumption
<1> QED BY <1>1 DEF AdoptBaseline, Rows, ScopeRow, ScopeFields, ScopeKept, AllKept, Kept, Frozen

\* A new capture of scope s that expects the current checkpoint.
Reserving(s, c, x, b, purpose, track) ==
  /\ captures[c].state = "none"
  /\ captures'[c].state = "preparing" /\ captures'[c].scope = s
  /\ captures'[c].expected = x /\ captures'[c].begin = b
  /\ captures'[c].purpose = purpose /\ captures'[c].track = track
  /\ captures'[c].next = Null /\ captures'[c].activation = Null
  /\ x = scopes[s].checkpoint
  /\ \A d \in CapturesOf(s) : captures[d].state \notin Unactivated
  /\ (~track /\ purpose = "publication") => ~scopes[s].initialized
  /\ \A t \in Scopes : /\ scopes'[t].checkpoint = scopes[t].checkpoint
                       /\ scopes'[t].floor = scopes[t].floor
                       /\ scopes[t].initialized => scopes'[t].initialized
                       /\ scopes'[t].observedCanonical = scopes[t].observedCanonical
  /\ track => scopes'[s].initialized

\* Reserve creates such a capture and touches no other.
LEMMA ReserveEffect ==
  ASSUME Rows, NEW s \in Scopes, NEW e, NEW c \in Captures, NEW x, NEW b,
         NEW purpose, NEW raw, NEW track, Reserve(s, e, c, x, b, purpose, raw, track)
  PROVE  Rows' /\ OthersKept(c) /\ Reserving(s, c, x, b, purpose, track)
<1>1. DOMAIN NoCapture = CaptureFields /\ NoCapture.next = Null /\ NoCapture.activation = Null
  BY DEF NoCapture, CaptureFields
<1>2. /\ DOMAIN captures'[c] = CaptureFields
      /\ captures'[c].state = "preparing" /\ captures'[c].scope = s
      /\ captures'[c].expected = x /\ captures'[c].begin = b
      /\ captures'[c].purpose = purpose /\ captures'[c].track = track
      /\ captures'[c].next = Null /\ captures'[c].activation = Null
  BY <1>1 DEF Reserve, Rows, CaptureFields
<1>3. DOMAIN captures' = Captures /\ \A d \in Captures \ {c} : captures'[d] = captures[d]
  BY DEF Reserve, Rows
<1>4. \A d \in Captures : CaptureRow(captures'[d])
  BY <1>2, <1>3 DEF Rows, CaptureRow, States
<1>5. /\ DOMAIN scopes' = Scopes /\ \A t \in Scopes : ScopeRow(scopes'[t])
      /\ \A t \in Scopes : /\ scopes'[t].checkpoint = scopes[t].checkpoint
                           /\ scopes'[t].floor = scopes[t].floor
                           /\ scopes[t].initialized => scopes'[t].initialized
                           /\ scopes'[t].observedCanonical = scopes[t].observedCanonical
      /\ track => scopes'[s].initialized
  BY DEF Reserve, Rows, ScopeRow, ScopeFields
<1>6. Reserving(s, c, x, b, purpose, track)
  BY <1>2, <1>5 DEF Reserve, Reservable, Reserving
<1> QED BY <1>3, <1>4, <1>5, <1>6 DEF Rows, OthersKept, Kept, Frozen

\* The operations that leave every field the properties read alone.
Quiet ==
  \/ \E c \in Captures, e \in Epochs, b \in MetadataSizes : SetSourceMetadata(c, e, b)
  \/ \E c \in Captures, e \in Epochs, k \in UnitKinds, b \in Sizes : Append(c, e, k, b)
  \/ \E c \in Captures, e \in Epochs, n \in 1..ReclaimLimit :
       \E R \in SUBSET Reclaimable(c) : Reclaim(c, e, R, n)
  \/ \E c \in Captures, e \in Epochs, u \in units, x \in UnitReceipts : CanonicalAcknowledged(c, e, u, x)
  \/ UNCHANGED <<scopes, captures, units, retained>>

\* They change neither what a capture is nor how far it is.
LEMMA QuietEffect ==
  ASSUME Rows, Quiet
  PROVE  Rows' /\ ScopesKept /\ AllKept
<1> USE DEF Rows, ScopesKept, ScopeKept, AllKept, Kept, Frozen
<1>1. CASE \E c \in Captures, e \in Epochs, b \in MetadataSizes : SetSourceMetadata(c, e, b)
  BY <1>1 DEF SetSourceMetadata, CaptureRow, CaptureFields
<1>2. CASE \E c \in Captures, e \in Epochs, k \in UnitKinds, b \in Sizes : Append(c, e, k, b)
  BY <1>2 DEF Append, CaptureRow, CaptureFields
<1>3. CASE \E c \in Captures, e \in Epochs, n \in 1..ReclaimLimit :
             \E R \in SUBSET Reclaimable(c) : Reclaim(c, e, R, n)
  BY <1>3 DEF Reclaim, CaptureRow, CaptureFields
<1>4. CASE UNCHANGED <<scopes, captures>>
  BY <1>4
<1> QED BY <1>1, <1>2, <1>3, <1>4 DEF Quiet, CanonicalAcknowledged

\* Seal freezes a capture and makes a tracked publication the last complete
\* Canonical observation of its source.
LEMMA SealEffect ==
  ASSUME Rows, NEW c \in Captures, NEW e, NEW next, NEW complete, Seal(c, e, next, complete)
  PROVE  /\ Rows' /\ OthersKept(c) /\ Frozen(c)
         /\ captures[c].state = "preparing" /\ captures'[c].state = "sealed"
         /\ captures'[c].next = next /\ captures'[c].activation = captures[c].activation
         /\ captures'[c].retired = captures[c].retired
         /\ captures[c].scope \in Scopes
         /\ \A t \in Scopes : /\ scopes'[t].checkpoint = scopes[t].checkpoint
                              /\ scopes'[t].floor = scopes[t].floor
                              /\ scopes'[t].initialized = scopes[t].initialized
                              /\ t # captures[c].scope =>
                                   scopes'[t].observedCanonical = scopes[t].observedCanonical
         /\ scopes'[captures[c].scope].observedCanonical =
              IF captures[c].track /\ captures[c].purpose = "publication" THEN c
              ELSE scopes[captures[c].scope].observedCanonical
<1>1. captures[c].scope \in Scopes /\ captures[c].state = "preparing"
  BY DEF Seal, Owned, Rows, CaptureRow
<1>2. /\ DOMAIN captures' = Captures /\ DOMAIN captures'[c] = CaptureFields
      /\ captures'[c].state = "sealed" /\ captures'[c].next = next
      /\ captures'[c].activation = captures[c].activation
      /\ captures'[c].retired = captures[c].retired
      /\ Frozen(c)
      /\ \A d \in Captures \ {c} : captures'[d] = captures[d]
  BY DEF Seal, Rows, CaptureRow, CaptureFields, Frozen
<1>3. \A d \in Captures : CaptureRow(captures'[d])
  BY <1>1, <1>2 DEF Rows, CaptureRow, States, Frozen
<1>4. /\ DOMAIN scopes' = Scopes /\ \A t \in Scopes : ScopeRow(scopes'[t])
      /\ \A t \in Scopes : /\ scopes'[t].checkpoint = scopes[t].checkpoint
                           /\ scopes'[t].floor = scopes[t].floor
                           /\ scopes'[t].initialized = scopes[t].initialized
                           /\ t # captures[c].scope =>
                                scopes'[t].observedCanonical = scopes[t].observedCanonical
  BY <1>1 DEF Seal, Rows, ScopeRow, ScopeFields
<1>5. scopes'[captures[c].scope].observedCanonical =
              IF captures[c].track /\ captures[c].purpose = "publication" THEN c
              ELSE scopes[captures[c].scope].observedCanonical
  BY <1>1 DEF Seal, Rows, ScopeRow, ScopeFields
<1> QED BY <1>1, <1>2, <1>3, <1>4, <1>5 DEF Rows, OthersKept, Kept, Frozen

\* complete() only moves an activated capture to "completed".
LEMMA CompletedRow ==
  ASSUME NEW c, NEW r, DOMAIN r = CaptureFields, NEW rows
  PROVE  LET d == Completed(c, r, rows) IN
         /\ DOMAIN d = CaptureFields
         /\ d.scope = r.scope /\ d.expected = r.expected /\ d.begin = r.begin
         /\ d.purpose = r.purpose /\ d.track = r.track /\ d.next = r.next
         /\ d.activation = r.activation /\ d.retired = r.retired /\ d.canceled = r.canceled
         /\ d.state = r.state \/ (d.state = "completed" /\ r.activation # Null)
BY DEF Completed, CaptureFields

\* Activated stores the receipt, and a publication moves the checkpoint.
LEMMA ActivatedEffect ==
  ASSUME Rows, NEW c \in Captures, NEW e, NEW x \in Receipts, Activated(c, e, x)
  PROVE  /\ Rows' /\ OthersKept(c) /\ Frozen(c)
         /\ captures[c].state = "sealed" /\ captures'[c].state \in {"activated", "completed"}
         /\ captures'[c].next = captures[c].next /\ captures'[c].activation = x
         /\ captures'[c].retired = captures[c].retired
         /\ captures[c].scope \in Scopes
         /\ \A t \in Scopes : /\ scopes'[t].floor = scopes[t].floor
                              /\ scopes'[t].initialized = scopes[t].initialized
                              /\ scopes'[t].observedCanonical = scopes[t].observedCanonical
                              /\ t # captures[c].scope => scopes'[t].checkpoint = scopes[t].checkpoint
         /\ captures[c].purpose # "publication" =>
              scopes'[captures[c].scope].checkpoint = scopes[captures[c].scope].checkpoint
         /\ captures[c].purpose = "publication" =>
              scopes'[captures[c].scope].checkpoint = captures[c].next
<1> DEFINE row == [captures[c] EXCEPT !.state = "activated", !.activation = x]
           done == Completed(c, row, units)
<1>1. captures[c].scope \in Scopes /\ captures[c].state = "sealed" /\ x # Null
  BY JournalAssumption DEF Activated, Owned, Rows, CaptureRow
<1>2. /\ DOMAIN row = CaptureFields /\ row.state = "activated" /\ row.activation = x
      /\ row.scope = captures[c].scope /\ row.expected = captures[c].expected
      /\ row.begin = captures[c].begin /\ row.purpose = captures[c].purpose
      /\ row.track = captures[c].track /\ row.next = captures[c].next
      /\ row.retired = captures[c].retired
  BY DEF Rows, CaptureRow, CaptureFields
<1>3. captures' = [captures EXCEPT ![c] = done] \/ captures' = WithoutHeaders(c, done)
  BY DEF Activated
<1> HIDE DEF row
<1>4. /\ DOMAIN done = CaptureFields /\ done.state \in {"activated", "completed"}
      /\ done.activation = x
      /\ done.scope = captures[c].scope /\ done.expected = captures[c].expected
      /\ done.begin = captures[c].begin /\ done.purpose = captures[c].purpose
      /\ done.track = captures[c].track /\ done.next = captures[c].next
      /\ done.retired = captures[c].retired
  BY <1>2, CompletedRow
<1> HIDE DEF done
<1>5. /\ DOMAIN captures' = Captures /\ captures'[c] = done
      /\ \A d \in Captures \ {c} : captures'[d] \in {captures[d], [captures[d] EXCEPT !.header = 0]}
  BY <1>3 DEF Rows, WithoutHeaders
<1>6. \A d \in Captures \ {c} : Kept(d) /\ CaptureRow(captures'[d])
  BY <1>5 DEF Rows, CaptureRow, CaptureFields, Kept, Frozen
<1>7. CaptureRow(captures'[c]) /\ Frozen(c)
  BY <1>1, <1>4, <1>5 DEF CaptureRow, States, Frozen
<1>8. /\ DOMAIN scopes' = Scopes /\ \A t \in Scopes : ScopeRow(scopes'[t])
      /\ \A t \in Scopes : /\ scopes'[t].floor = scopes[t].floor
                           /\ scopes'[t].initialized = scopes[t].initialized
                           /\ scopes'[t].observedCanonical = scopes[t].observedCanonical
                           /\ t # captures[c].scope => scopes'[t].checkpoint = scopes[t].checkpoint
  BY <1>1 DEF Activated, Rows, ScopeRow, ScopeFields
<1>9. /\ captures[c].purpose # "publication" =>
           scopes'[captures[c].scope].checkpoint = scopes[captures[c].scope].checkpoint
      /\ captures[c].purpose = "publication" =>
           scopes'[captures[c].scope].checkpoint = captures[c].next
  BY <1>1 DEF Activated, Rows, ScopeRow, ScopeFields
<1> QED BY <1>1, <1>4, <1>5, <1>6, <1>7, <1>8, <1>9 DEF Rows, OthersKept

\* A Raw receipt or a cancellation of capture c: it may complete c.
RawSettlement(c) ==
  \/ \E e \in Epochs, u \in units, x \in UnitReceipts : RawAcknowledged(c, e, u, x)
  \/ \E e \in Epochs, u \in units : RawUnitCanceled(c, e, u)
  \/ \E e \in Epochs, reason \in Reasons : RawCancellationStarted(c, e, reason) \/ RawCanceled(c, e, reason)

\* The settlement of Raw units changes nothing but the units and the state of
\* an activated capture.
LEMMA RawSettlementEffect ==
  ASSUME Rows, NEW c \in Captures, RawSettlement(c)
  PROVE  /\ Rows' /\ OthersKept(c) /\ Frozen(c) /\ ScopesKept
         /\ captures'[c].next = captures[c].next
         /\ captures'[c].activation = captures[c].activation
         /\ captures'[c].retired = captures[c].retired
         /\ captures'[c].state = captures[c].state
              \/ (captures'[c].state = "completed" /\ captures[c].activation # Null)
         /\ UNCHANGED <<scopes, records, versions>>
<1>1. PICK r : /\ DOMAIN r = CaptureFields /\ r.state = captures[c].state
               /\ r.activation = captures[c].activation /\ r.scope = captures[c].scope
               /\ r.expected = captures[c].expected /\ r.begin = captures[c].begin
               /\ r.purpose = captures[c].purpose /\ r.track = captures[c].track
               /\ r.next = captures[c].next /\ r.retired = captures[c].retired
               /\ captures' = [captures EXCEPT ![c] = Completed(c, r, units')]
               /\ UNCHANGED <<scopes, records, versions>>
  <2>1. ASSUME NEW U, NEW reason, CancelUnits(c, U, reason)
        PROVE  LET r == [captures[c] EXCEPT !.canceled = IF @ = Null THEN reason ELSE @] IN
               /\ DOMAIN r = CaptureFields /\ r.state = captures[c].state
               /\ r.activation = captures[c].activation /\ r.scope = captures[c].scope
               /\ r.expected = captures[c].expected /\ r.begin = captures[c].begin
               /\ r.purpose = captures[c].purpose /\ r.track = captures[c].track
               /\ r.next = captures[c].next /\ r.retired = captures[c].retired
               /\ captures' = [captures EXCEPT ![c] = Completed(c, r, units')]
    BY <2>1 DEF CancelUnits, Rows, CaptureRow, CaptureFields
  <2>2. CASE \E e \in Epochs, u \in units, x \in UnitReceipts : RawAcknowledged(c, e, u, x)
    <3>1. DOMAIN captures[c] = CaptureFields
      BY DEF Rows, CaptureRow
    <3>2. captures' = [captures EXCEPT ![c] = Completed(c, captures[c], units')]
      BY <2>2 DEF RawAcknowledged
    <3> QED BY <2>2, <3>1, <3>2 DEF RawAcknowledged
  <2>3. CASE \E e \in Epochs, u \in units : RawUnitCanceled(c, e, u)
    BY <2>1, <2>3 DEF RawUnitCanceled
  <2>4. ASSUME NEW e \in Epochs, NEW reason \in Reasons, RawCancellationStarted(c, e, reason)
        PROVE  /\ CancelUnits(c, {}, reason) /\ UNCHANGED <<scopes, records, versions>>
    BY <2>4 DEF RawCancellationStarted
  <2>5. ASSUME NEW e \in Epochs, NEW reason \in Reasons, RawCanceled(c, e, reason)
        PROVE  /\ CancelUnits(c, UnitsOf(c, "raw"), reason) /\ UNCHANGED <<scopes, records, versions>>
    BY <2>5 DEF RawCanceled
  <2>6. CASE \E e \in Epochs, reason \in Reasons : RawCancellationStarted(c, e, reason) \/ RawCanceled(c, e, reason)
    <3>1. PICK U, reason : CancelUnits(c, U, reason) /\ UNCHANGED <<scopes, records, versions>>
      BY <2>4, <2>5, <2>6
    <3> WITNESS [captures[c] EXCEPT !.canceled = IF @ = Null THEN reason ELSE @]
    <3> QED BY <2>1, <3>1
  <2> QED BY <2>2, <2>3, <2>6 DEF RawSettlement
<1> DEFINE done == Completed(c, r, units')
<1>2. /\ DOMAIN done = CaptureFields
      /\ done.scope = r.scope /\ done.expected = r.expected /\ done.begin = r.begin
      /\ done.purpose = r.purpose /\ done.track = r.track /\ done.next = r.next
      /\ done.activation = r.activation /\ done.retired = r.retired
      /\ done.state = r.state \/ (done.state = "completed" /\ r.activation # Null)
  BY <1>1, CompletedRow
<1> HIDE DEF done
<1>3. captures' = [captures EXCEPT ![c] = done]
  BY <1>1 DEF done
<1>4. /\ DOMAIN captures' = Captures /\ captures'[c] = done
      /\ \A d \in Captures \ {c} : captures'[d] = captures[d]
  BY <1>3 DEF Rows
<1>5. CaptureRow(done)
  BY <1>1, <1>2 DEF Rows, CaptureRow, States
<1> QED BY <1>1, <1>2, <1>4, <1>5 DEF Rows, OthersKept, Kept, Frozen, ScopesKept, ScopeKept

\* It completes an activated capture when no Raw unit is left pending.
LEMMA RawSettlementCompletes ==
  ASSUME Rows, NEW c \in Captures, RawSettlement(c), captures[c].activation # Null
  PROVE  captures'[c].state =
           IF \E u \in units' : u.capture = c /\ u.kind = "raw" /\ u.disposition = "pending"
           THEN captures[c].state ELSE "completed"
<1>1. ASSUME NEW r, DOMAIN r = CaptureFields, r.state = captures[c].state, r.activation # Null,
             captures' = [captures EXCEPT ![c] = Completed(c, r, units')]
      PROVE  captures'[c].state =
               IF \E u \in units' : u.capture = c /\ u.kind = "raw" /\ u.disposition = "pending"
               THEN captures[c].state ELSE "completed"
  BY <1>1 DEF Rows, Completed, CaptureFields
<1>2. ASSUME NEW U, NEW reason, CancelUnits(c, U, reason)
      PROVE  \E r : /\ DOMAIN r = CaptureFields /\ r.state = captures[c].state /\ r.activation # Null
                    /\ captures' = [captures EXCEPT ![c] = Completed(c, r, units')]
  <2> DEFINE r == [captures[c] EXCEPT !.canceled = IF @ = Null THEN reason ELSE @]
  <2>1. captures' = [captures EXCEPT ![c] = Completed(c, r, units')]
    BY <1>2 DEF CancelUnits
  <2>2. DOMAIN r = CaptureFields /\ r.state = captures[c].state /\ r.activation # Null
    BY DEF Rows, CaptureRow, CaptureFields
  <2> HIDE DEF r
  <2> QED BY <2>1, <2>2
<1>3. CASE \E e \in Epochs, u \in units, x \in UnitReceipts : RawAcknowledged(c, e, u, x)
  <2>1. captures' = [captures EXCEPT ![c] = Completed(c, captures[c], units')]
    BY <1>3 DEF RawAcknowledged
  <2> QED BY <1>1, <2>1 DEF Rows, CaptureRow
<1>4. CASE \E U, reason : CancelUnits(c, U, reason)
  BY <1>1, <1>2, <1>4
<1>5. ASSUME NEW e, NEW u, RawUnitCanceled(c, e, u)
      PROVE  \E U, reason : CancelUnits(c, U, reason)
  BY <1>5 DEF RawUnitCanceled
<1>6. ASSUME NEW e, NEW reason, RawCancellationStarted(c, e, reason) \/ RawCanceled(c, e, reason)
      PROVE  \E U : CancelUnits(c, U, reason)
  BY <1>6 DEF RawCancellationStarted, RawCanceled
<1> QED BY <1>3, <1>4, <1>5, <1>6 DEF RawSettlement

\* Rejected and AbandonUnsealed end a capture that was not activated.
LEMMA AbandonEffect ==
  ASSUME Rows, NEW c \in Captures,
         \E e \in Epochs : (\E x \in Receipts : Rejected(c, e, x)) \/ AbandonUnsealed(c, e)
  PROVE  /\ Rows' /\ OthersKept(c) /\ Frozen(c) /\ ScopesKept
         /\ captures[c].state \in Unactivated /\ captures'[c].state = "abandoned"
         /\ captures'[c].next = captures[c].next
         /\ captures'[c].activation = captures[c].activation
         /\ captures'[c].retired = captures[c].retired
         /\ UNCHANGED <<scopes, units, records, versions>>
<1>1. PICK x : /\ Abandoned(c, x) /\ captures[c].state \in Unactivated
               /\ UNCHANGED <<scopes, units, records, versions>>
  <2>1. ASSUME NEW e, NEW x, Rejected(c, e, x)
        PROVE  /\ Abandoned(c, x) /\ captures[c].state \in Unactivated
               /\ UNCHANGED <<scopes, units, records, versions>>
    BY <2>1 DEF Rejected, Unactivated
  <2>2. ASSUME NEW e, AbandonUnsealed(c, e)
        PROVE  /\ Abandoned(c, Null) /\ captures[c].state \in Unactivated
               /\ UNCHANGED <<scopes, units, records, versions>>
    BY <2>2 DEF AbandonUnsealed, Unactivated
  <2> QED BY <2>1, <2>2
<1>2. /\ DOMAIN captures' = Captures /\ DOMAIN captures'[c] = CaptureFields
      /\ captures'[c].state = "abandoned" /\ captures'[c].next = captures[c].next
      /\ captures'[c].activation = captures[c].activation
      /\ captures'[c].retired = captures[c].retired /\ Frozen(c)
      /\ \A d \in Captures \ {c} : captures'[d] = captures[d]
  BY <1>1 DEF Abandoned, Rows, CaptureRow, CaptureFields, Frozen
<1>3. CaptureRow(captures'[c])
  BY <1>1, <1>2 DEF Rows, CaptureRow, States, Unactivated, Frozen
<1> QED BY <1>1, <1>2, <1>3 DEF Rows, OthersKept, Kept, Frozen, ScopesKept, ScopeKept

\* Pruning retires a terminal capture that no later comparison reads.
LEMMA PruneEffect ==
  ASSUME Rows, NEW s \in Scopes, NEW e, NEW c \in Captures, NEW R, NEW n, PruneRecords(s, e, c, R, n)
  PROVE  /\ Rows' /\ OthersKept(c) /\ Frozen(c) /\ ScopesKept
         /\ captures'[c].state = captures[c].state
         /\ captures'[c].next = captures[c].next
         /\ captures'[c].activation = captures[c].activation
         /\ captures'[c].retired
         /\ captures[c].scope = s /\ c # scopes[s].observedCanonical
         /\ R \subseteq RecordsOf(c) /\ records' = records \ R
         /\ UNCHANGED <<scopes, units, versions>>
<1>1. /\ DOMAIN captures' = Captures /\ DOMAIN captures'[c] = CaptureFields
      /\ captures'[c].state = captures[c].state /\ captures'[c].next = captures[c].next
      /\ captures'[c].activation = captures[c].activation
      /\ captures'[c].retired /\ Frozen(c)
      /\ \A d \in Captures \ {c} : captures'[d] = captures[d]
  BY DEF PruneRecords, Rows, CaptureRow, CaptureFields, Frozen
<1>2. CaptureRow(captures'[c])
  BY <1>1 DEF Rows, CaptureRow, Frozen
<1> QED BY <1>1, <1>2 DEF PruneRecords, CapturesOf, Protected, Rows, OthersKept, Kept, Frozen, ScopesKept, ScopeKept

\* The steps of the journal, by what they do to captures and scopes.
LEMMA StepCases ==
  ASSUME [Next]_vars
  PROVE  \/ \E s \in Scopes : Claim(s)
         \/ \E s \in Scopes, e \in Epochs, f \in Floors, b \in MetadataSizes : AdoptBaseline(s, e, f, b)
         \/ \E s \in Scopes, e \in Epochs, c \in Captures, x \in Attempts \cup {Null}, p \in Policies :
              Reserve(s, e, c, x, IF p.purpose = "publication" THEN IssuedFor[c] ELSE x,
                      p.purpose, p.raw, p.track)
         \/ Quiet
         \/ \E c \in Captures, e \in Epochs, complete \in BOOLEAN : Seal(c, e, captures[c].begin, complete)
         \/ \E c \in Captures, e \in Epochs, x \in Receipts : Activated(c, e, x)
         \/ \E c \in Captures : RawSettlement(c)
         \/ \E c \in Captures, e \in Epochs : (\E x \in Receipts : Rejected(c, e, x)) \/ AbandonUnsealed(c, e)
         \/ \E s \in Scopes, e \in Epochs, c \in Captures, n \in 1..PruneLimit :
              \E R \in SUBSET RecordsOf(c) : PruneRecords(s, e, c, R, n)
<1>1. ASSUME NEW c \in Captures, NEW e \in Epochs, NEW k \in RecordKinds, NEW o \in Observed,
             NEW ref \in References \cup {Null}, NEW key \in KeysOf(k), Record(c, e, k, key, o, ref)
      PROVE  UNCHANGED <<scopes, captures, units, retained>>
  BY <1>1 DEF Record
<1>2. ASSUME NEW e \in Epochs, NEW r \in records, BindRecord(e, r)
      PROVE  UNCHANGED <<scopes, captures, units, retained>>
  BY <1>2 DEF BindRecord
<1>3. CASE UNCHANGED vars
  BY <1>3 DEF vars, Quiet
<1>4. CASE Prepare
  BY <1>4, <1>1, <1>2 DEF Prepare, Quiet
<1>5. CASE Settle
  BY <1>5 DEF Settle, Quiet, RawSettlement
<1>6. CASE Clean
  BY <1>6 DEF Clean, Quiet
<1> QED BY <1>3, <1>4, <1>5, <1>6 DEF Next

\* Every step keeps the rows.
LEMMA RowsNext == Rows /\ [Next]_vars => Rows'
<1> SUFFICES ASSUME Rows, [Next]_vars PROVE Rows'
  OBVIOUS
<1> QED BY StepCases, ClaimEffect, AdoptEffect, ReserveEffect, QuietEffect, SealEffect, ActivatedEffect,
           RawSettlementEffect, AbandonEffect, PruneEffect

\* The scope and capture tables have a row per identity with its fields, a
\* capture that exists belongs to a scope, and its state says whether a receipt
\* of activation is stored.
THEOREM RowsCorrect == Spec => []Rows
BY RowsInit, RowsNext, PTL DEF Spec

-----------------------------------------------------------------------------
(* Settlement                                                              *)

LEMMA SettlementInit == Init => SettlementNeverConflicts
BY DEF Init, SettlementNeverConflicts, NoCapture, Unactivated

\* A step that freezes what captures are, makes none unactivated and moves no
\* checkpoint.
LEMMA SettlementFrame ==
  ASSUME Rows, SettlementNeverConflicts,
         \A d \in Captures : Frozen(d) /\ (captures'[d].state \in Unactivated => captures[d].state \in Unactivated),
         \A s \in Scopes : scopes'[s].checkpoint = scopes[s].checkpoint
  PROVE  SettlementNeverConflicts'
BY DEF Rows, CaptureRow, SettlementNeverConflicts, Frozen, CapturesOf, Unactivated

LEMMA SettlementNext == Rows /\ SettlementNeverConflicts /\ [Next]_vars => SettlementNeverConflicts'
<1> SUFFICES ASSUME Rows, SettlementNeverConflicts, [Next]_vars PROVE SettlementNeverConflicts'
  OBVIOUS
<1>1. CASE \E s \in Scopes : Claim(s)
  BY <1>1, ClaimEffect, SettlementFrame DEF ScopesKept, ScopeKept, AllKept, Kept
<1>2. CASE \E s \in Scopes, e \in Epochs, f \in Floors, b \in MetadataSizes : AdoptBaseline(s, e, f, b)
  BY <1>2, AdoptEffect, SettlementFrame DEF ScopeKept, AllKept, Kept
<1>3. ASSUME NEW s \in Scopes, NEW e \in Epochs, NEW c \in Captures, NEW x \in Attempts \cup {Null},
             NEW b, NEW p \in Policies, Reserve(s, e, c, x, b, p.purpose, p.raw, p.track)
      PROVE  SettlementNeverConflicts'
  <2>1. /\ OthersKept(c) /\ captures[c].state = "none"
        /\ captures'[c].state = "preparing" /\ captures'[c].scope = s
        /\ captures'[c].expected = scopes[s].checkpoint
        /\ \A d \in CapturesOf(s) : captures[d].state \notin Unactivated
        /\ \A t \in Scopes : scopes'[t].checkpoint = scopes[t].checkpoint
    <3>1. OthersKept(c) /\ Reserving(s, c, x, b, p.purpose, p.track)
      BY <1>3, ReserveEffect
    <3> QED BY <3>1 DEF Reserving
  <2>2. \A d \in Captures \ {c} : captures'[d].scope = s => captures'[d].state \notin Unactivated
    BY <2>1 DEF OthersKept, Kept, Frozen, CapturesOf
  <2>3. ASSUME NEW d \in Captures, captures'[d].state \in Unactivated
        PROVE  /\ captures'[d].expected = scopes'[captures'[d].scope].checkpoint
               /\ \A a \in Captures : captures'[a].scope = captures'[d].scope
                    /\ captures'[a].state \in Unactivated => d = a
    <3>1. CASE d = c
      BY <2>1, <2>2, <3>1
    <3>2. CASE d # c
      <4>1. /\ captures[d].state \in Unactivated /\ captures'[d].scope = captures[d].scope
            /\ captures'[d].expected = captures[d].expected /\ captures[d].scope \in Scopes
            /\ captures[d].scope # s
        BY <2>1, <2>2, <2>3, <3>2 DEF OthersKept, Kept, Frozen, Rows, CaptureRow, Unactivated
      <4>2. \A a \in Captures : captures'[a].scope = captures[d].scope
              /\ captures'[a].state \in Unactivated =>
                   captures[a].scope = captures[d].scope /\ captures[a].state \in Unactivated
        BY <2>1, <4>1 DEF OthersKept, Kept, Frozen
      <4> QED BY <2>1, <4>1, <4>2 DEF SettlementNeverConflicts, CapturesOf
    <3> QED BY <3>1, <3>2
  <2> QED BY <2>3 DEF SettlementNeverConflicts, CapturesOf
<1>4. CASE Quiet
  BY <1>4, QuietEffect, SettlementFrame DEF ScopesKept, ScopeKept, AllKept, Kept
<1>5. ASSUME NEW c \in Captures, NEW e \in Epochs, NEW complete, Seal(c, e, captures[c].begin, complete)
      PROVE  SettlementNeverConflicts'
  BY <1>5, SealEffect, SettlementFrame DEF OthersKept, Kept, Unactivated
<1>6. ASSUME NEW c \in Captures, NEW e \in Epochs, NEW x \in Receipts, Activated(c, e, x)
      PROVE  SettlementNeverConflicts'
  <2>1. /\ OthersKept(c) /\ Frozen(c) /\ captures[c].state = "sealed"
        /\ captures'[c].state \in {"activated", "completed"} /\ captures[c].scope \in Scopes
        /\ \A t \in Scopes : t # captures[c].scope => scopes'[t].checkpoint = scopes[t].checkpoint
    BY <1>6, ActivatedEffect
  <2>2. ASSUME NEW d \in Captures, captures'[d].state \in Unactivated
        PROVE  /\ captures[d].state \in Unactivated /\ captures[d].scope \in Scopes
               /\ captures[d].scope # captures[c].scope
    BY <2>1, <2>2 DEF OthersKept, Kept, Frozen, Rows, CaptureRow, Unactivated, SettlementNeverConflicts, CapturesOf
  <2> QED BY <2>1, <2>2 DEF SettlementNeverConflicts, CapturesOf, OthersKept, Kept, Frozen
<1>7. CASE \E c \in Captures : RawSettlement(c)
  BY <1>7, RawSettlementEffect, SettlementFrame DEF OthersKept, Kept, Unactivated, ScopesKept, ScopeKept
<1>8. CASE \E c \in Captures, e \in Epochs : (\E x \in Receipts : Rejected(c, e, x)) \/ AbandonUnsealed(c, e)
  BY <1>8, AbandonEffect, SettlementFrame DEF OthersKept, Kept, Unactivated, ScopesKept, ScopeKept
<1>9. ASSUME NEW s \in Scopes, NEW e \in Epochs, NEW c \in Captures, NEW n, NEW R,
             PruneRecords(s, e, c, R, n)
      PROVE  SettlementNeverConflicts'
  <2>1. OthersKept(c) /\ Frozen(c) /\ ScopesKept /\ captures'[c].state = captures[c].state
    BY <1>9, PruneEffect
  <2> QED BY <2>1, SettlementFrame DEF OthersKept, Kept, ScopesKept, ScopeKept
<1> QED BY <1>1, <1>2, <1>3, <1>4, <1>5, <1>6, <1>7, <1>8, <1>9, StepCases

\* A capture that may still be activated on the Server can always be settled.
THEOREM SettlementIsSafe == Spec => []SettlementNeverConflicts
BY SettlementInit, SettlementNext, RowsCorrect, PTL DEF Spec

-----------------------------------------------------------------------------
(* Progress of a capture                                                   *)

\* What no step takes back from a capture that exists.
Progress(d) ==
  captures[d].state # "none" =>
    /\ captures'[d].state # "none" /\ Frozen(d)
    /\ captures[d].activation # Null => captures'[d].activation # Null
    /\ captures'[d].state \in Unactivated => captures[d].state \in Unactivated
    /\ captures'[d].state = "preparing" => captures[d].state = "preparing"
    /\ captures[d].state = "abandoned" => captures'[d].state = "abandoned"
    /\ captures[d].state # "preparing" => captures'[d].next = captures[d].next
    /\ captures[d].retired => captures'[d].retired

\* A capture is never un-reserved, un-activated or revived.
LEMMA CapturesProgress ==
  ASSUME Rows, [Next]_vars, NEW d \in Captures
  PROVE  Progress(d)
<1> USE DEF Progress
<1>1. ASSUME Kept(d) PROVE Progress(d)
  BY <1>1 DEF Kept
<1>2. CASE \E s \in Scopes : Claim(s)
  BY <1>1, <1>2, ClaimEffect DEF AllKept
<1>3. CASE \E s \in Scopes, e \in Epochs, f \in Floors, b \in MetadataSizes : AdoptBaseline(s, e, f, b)
  BY <1>1, <1>3, AdoptEffect DEF AllKept
<1>4. ASSUME NEW s \in Scopes, NEW e \in Epochs, NEW c \in Captures, NEW x, NEW b, NEW p \in Policies,
             Reserve(s, e, c, x, b, p.purpose, p.raw, p.track)
      PROVE  Progress(d)
  <2>1. OthersKept(c) /\ Reserving(s, c, x, b, p.purpose, p.track)
    BY <1>4, ReserveEffect
  <2> QED BY <1>1, <2>1 DEF OthersKept, Reserving
<1>5. CASE Quiet
  BY <1>1, <1>5, QuietEffect DEF AllKept
<1>6. ASSUME NEW c \in Captures, NEW e \in Epochs, NEW complete, Seal(c, e, captures[c].begin, complete)
      PROVE  Progress(d)
  BY <1>1, <1>6, SealEffect DEF OthersKept, Unactivated
<1>7. ASSUME NEW c \in Captures, NEW e \in Epochs, NEW x \in Receipts, Activated(c, e, x)
      PROVE  Progress(d)
  <2>1. x # Null
    BY JournalAssumption
  <2> QED BY <1>1, <1>7, <2>1, ActivatedEffect DEF OthersKept, Unactivated
<1>8. ASSUME NEW c \in Captures, RawSettlement(c)
      PROVE  Progress(d)
  <2>1. captures[c].activation # Null => captures[c].state \in {"activated", "completed"}
    BY DEF Rows, CaptureRow
  <2> QED BY <1>1, <1>8, <2>1, RawSettlementEffect DEF OthersKept, Unactivated
<1>9. ASSUME NEW c \in Captures, NEW e \in Epochs,
             (\E x \in Receipts : Rejected(c, e, x)) \/ AbandonUnsealed(c, e)
      PROVE  Progress(d)
  BY <1>1, <1>9, AbandonEffect DEF OthersKept, Unactivated
<1>10. ASSUME NEW s \in Scopes, NEW e \in Epochs, NEW c \in Captures, NEW n, NEW R,
              PruneRecords(s, e, c, R, n)
       PROVE  Progress(d)
  BY <1>1, <1>10, PruneEffect DEF OthersKept
<1> HIDE DEF Progress
<1> QED BY <1>2, <1>3, <1>4, <1>5, <1>6, <1>7, <1>8, <1>9, <1>10, StepCases

-----------------------------------------------------------------------------
(* Units                                                                   *)

UnitRow(u) == DOMAIN u = UnitFields /\ u.capture \in Captures /\ u.kind \in UnitKinds

\* A unit belongs to a capture that exists.
Units == \A u \in units : UnitRow(u) /\ captures[u.capture].state # "none"

\* What a step may leave of unit u: the same row, a row that is settled, or
\* one that lost its content because nobody owed it.
Descends(w, u) == UnitRow(w) /\ w.capture = u.capture /\ w.kind = u.kind /\ w.ordinal = u.ordinal
Settles(w, u) == w.disposition # "pending" /\ w.body = u.body
Loses(w, u) == w.disposition = u.disposition /\ u \in Reclaimable(u.capture)
Fate(w, u) == Descends(w, u) /\ (w = u \/ Settles(w, u) \/ Loses(w, u))

\* Every unit survives, and no other appears.
UnitsFollow ==
  /\ \A w \in units' : \E u \in units : Fate(w, u)
  /\ \A u \in units : \E w \in units' : Fate(w, u)

\* A receipt or a cancellation of the units D.
Disposing(D, how, receipt) ==
  /\ D \subseteq units
  /\ \/ how = "acknowledged" /\ receipt # Null
     \/ how = "canceled" /\ receipt = Null
  /\ units' = Replaced(D, {Disposed(u, how, receipt) : u \in D})

LEMMA DisposedFate ==
  ASSUME Units, NEW D, NEW how, NEW receipt, Disposing(D, how, receipt)
  PROVE  UnitsFollow
<1>1. \A u \in units : Fate(u, u)
  BY DEF Units, Fate, Descends
<1>2. ASSUME NEW u \in D
      PROVE  Fate(Disposed(u, how, receipt), u)
  <2>1. UnitRow(u) /\ how # "pending"
    BY DEF Units, Disposing
  <2> DEFINE w == Disposed(u, how, receipt)
  <2>2. /\ DOMAIN w = UnitFields /\ w.capture = u.capture /\ w.kind = u.kind
        /\ w.ordinal = u.ordinal /\ w.body = u.body /\ w.disposition = how
    BY <2>1 DEF UnitRow, UnitFields, Disposed
  <2> HIDE DEF w
  <2> QED BY <2>1, <2>2 DEF Fate, Descends, Settles, UnitRow, w
<1> QED BY <1>1, <1>2 DEF UnitsFollow, Replaced, Disposing

LEMMA SameUnits ==
  ASSUME Units, units' = units
  PROVE  UnitsFollow
BY DEF Units, UnitsFollow, Fate, Descends

LEMMA ReclaimFate ==
  ASSUME Units, NEW c \in Captures, NEW e, NEW R, NEW n, Reclaim(c, e, R, n)
  PROVE  UnitsFollow
<1>1. /\ R \subseteq units /\ \A u \in R : u.capture = c /\ u \in Reclaimable(u.capture)
      /\ units' = Replaced(R, {[u EXCEPT !.body = FALSE] : u \in R})
  BY DEF Reclaim, Reclaimable
<1>2. \A u \in units : Fate(u, u)
  BY DEF Units, Fate, Descends
<1>3. \A u \in R : Fate([u EXCEPT !.body = FALSE], u)
  BY <1>1 DEF Units, UnitRow, UnitFields, Fate, Descends, Loses
<1> QED BY <1>1, <1>2, <1>3 DEF UnitsFollow, Replaced

\* The units that a Raw settlement of capture c disposes of are its own.
LEMMA RawSettlementUnits ==
  ASSUME NEW c \in Captures, RawSettlement(c)
  PROVE  \E D, how, receipt : D \subseteq UnitsOf(c, "raw") /\ Disposing(D, how, receipt)
<1>1. ASSUME NEW e, NEW u \in units, NEW x \in UnitReceipts, RawAcknowledged(c, e, u, x)
      PROVE  {u} \subseteq UnitsOf(c, "raw") /\ Disposing({u}, "acknowledged", x)
  <2>1. {Disposed(w, "acknowledged", x) : w \in {u}} = {Disposed(u, "acknowledged", x)}
    OBVIOUS
  <2>2. x # Null
    BY JournalAssumption
  <2> QED BY <1>1, <2>1, <2>2 DEF RawAcknowledged, Disposing, UnitsOf
<1>2. ASSUME NEW U, U \subseteq UnitsOf(c, "raw"), NEW reason, CancelUnits(c, U, reason)
      PROVE  Cancelable(U) \subseteq UnitsOf(c, "raw") /\ Disposing(Cancelable(U), "canceled", Null)
  BY <1>2 DEF CancelUnits, Cancelable, Disposing, UnitsOf
<1>3. CASE \E e \in Epochs, u \in units, x \in UnitReceipts : RawAcknowledged(c, e, u, x)
  <2>1. PICK e \in Epochs, u \in units, x \in UnitReceipts : RawAcknowledged(c, e, u, x)
    BY <1>3
  <2>2. {u} \subseteq UnitsOf(c, "raw") /\ Disposing({u}, "acknowledged", x)
    BY <1>1, <2>1
  <2> QED BY <2>2, Zenon
<1>4. CASE \E U, reason : U \subseteq UnitsOf(c, "raw") /\ CancelUnits(c, U, reason)
  <2>1. PICK U, reason : U \subseteq UnitsOf(c, "raw") /\ CancelUnits(c, U, reason)
    BY <1>4
  <2>2. Cancelable(U) \subseteq UnitsOf(c, "raw") /\ Disposing(Cancelable(U), "canceled", Null)
    BY <1>2, <2>1
  <2> QED BY <2>2, Zenon
<1>5. ASSUME NEW e, NEW u, RawUnitCanceled(c, e, u)
      PROVE  {u} \subseteq UnitsOf(c, "raw") /\ CancelUnits(c, {u}, Null)
  BY <1>5 DEF RawUnitCanceled
<1>6. ASSUME NEW e, NEW reason, RawCancellationStarted(c, e, reason) \/ RawCanceled(c, e, reason)
      PROVE  \E U : U \subseteq UnitsOf(c, "raw") /\ CancelUnits(c, U, reason)
  BY <1>6 DEF RawCancellationStarted, RawCanceled
<1> QED BY <1>3, <1>4, <1>5, <1>6 DEF RawSettlement

\* CanonicalAcknowledged disposes of one Canonical unit.
LEMMA CanonicalUnits ==
  ASSUME NEW c, NEW e, NEW u, NEW x \in UnitReceipts, CanonicalAcknowledged(c, e, u, x)
  PROVE  {u} \subseteq UnitsOf(c, "canonical") /\ Disposing({u}, "acknowledged", x)
<1>1. {Disposed(w, "acknowledged", x) : w \in {u}} = {Disposed(u, "acknowledged", x)}
  OBVIOUS
<1>2. x # Null
  BY JournalAssumption
<1> QED BY <1>1, <1>2 DEF CanonicalAcknowledged, Disposing, UnitsOf

\* Append adds a pending unit with its content to a capture that is preparing.
Appending(c, k, w) ==
  /\ units' = units \cup {w}
  /\ DOMAIN w = UnitFields /\ w.capture = c /\ w.kind = k /\ w.body
  /\ w.disposition = "pending" /\ w.receipt = Null
  /\ captures[c].state = "preparing"

LEMMA AppendUnit ==
  ASSUME NEW c, NEW e, NEW k, NEW b, Append(c, e, k, b)
  PROVE  \E w : Appending(c, k, w)
<1> DEFINE w == Unit(c, k, Cardinality(UnitsOf(c, k)), b)
<1>1. units' = units \cup {w} /\ captures[c].state = "preparing"
  BY DEF Append
<1>2. /\ DOMAIN w = UnitFields /\ w.capture = c /\ w.kind = k /\ w.body
      /\ w.disposition = "pending" /\ w.receipt = Null
  BY DEF Unit, UnitFields
<1> QED BY <1>1, <1>2 DEF Appending

\* The other operations leave the units alone.
LEMMA OtherUnits ==
  /\ \A s : Claim(s) => units' = units
  /\ \A s, e, f, b : AdoptBaseline(s, e, f, b) => units' = units
  /\ \A s, e, c, x, b, purpose, raw, track : Reserve(s, e, c, x, b, purpose, raw, track) => units' = units
  /\ \A c, e, next, complete : Seal(c, e, next, complete) => units' = units
  /\ \A c, e, x : Activated(c, e, x) \/ Rejected(c, e, x) => units' = units
  /\ \A c, e : AbandonUnsealed(c, e) => units' = units
  /\ \A s, e, c, R, n : PruneRecords(s, e, c, R, n) => units' = units
<1>1. \A s : Claim(s) => units' = units
  BY DEF Claim
<1>2. \A s, e, f, b : AdoptBaseline(s, e, f, b) => units' = units
  BY DEF AdoptBaseline
<1>3. \A s, e, c, x, b, purpose, raw, track : Reserve(s, e, c, x, b, purpose, raw, track) => units' = units
  BY DEF Reserve
<1>4. \A c, e, next, complete : Seal(c, e, next, complete) => units' = units
  BY DEF Seal
<1>5. \A c, e, x : Activated(c, e, x) \/ Rejected(c, e, x) => units' = units
  BY DEF Activated, Rejected
<1>6. \A c, e : AbandonUnsealed(c, e) => units' = units
  BY DEF AbandonUnsealed
<1>7. \A s, e, c, R, n : PruneRecords(s, e, c, R, n) => units' = units
  BY DEF PruneRecords
<1> QED BY <1>1, <1>2, <1>3, <1>4, <1>5, <1>6, <1>7

\* A step appends one unit, or every unit has its fate.
LEMMA UnitsStep ==
  ASSUME Rows, Units, [Next]_vars
  PROVE  UnitsFollow \/ \E c \in Captures, k \in UnitKinds : \E w : Appending(c, k, w) /\ UNCHANGED records
<1>1. CASE Quiet
  <2>1. ASSUME NEW c \in Captures, NEW e \in Epochs, NEW k \in UnitKinds, NEW b \in Sizes, Append(c, e, k, b)
        PROVE  UNCHANGED records
    BY <2>1 DEF Append
  <2>2. CASE \E c \in Captures, e \in Epochs, u \in units, x \in UnitReceipts : CanonicalAcknowledged(c, e, u, x)
    BY <2>2, CanonicalUnits, DisposedFate
  <2>3. ASSUME NEW c \in Captures, NEW e \in Epochs, NEW n, NEW R, Reclaim(c, e, R, n)
        PROVE  UnitsFollow
    BY <2>3, ReclaimFate
  <2>4. CASE \E c \in Captures, e \in Epochs, b \in MetadataSizes : SetSourceMetadata(c, e, b)
    BY <2>4, SameUnits DEF SetSourceMetadata
  <2> QED BY <1>1, <2>1, <2>2, <2>3, <2>4, AppendUnit, SameUnits DEF Quiet
<1>2. CASE \E c \in Captures : RawSettlement(c)
  BY <1>2, RawSettlementUnits, DisposedFate
<1>3. ASSUME ~Quiet, ~\E c \in Captures : RawSettlement(c)
      PROVE  units' = units
  BY <1>3, StepCases, OtherUnits
<1> QED BY <1>1, <1>2, <1>3, SameUnits

LEMMA UnitsNext == Rows /\ Units /\ [Next]_vars => Units'
<1> SUFFICES ASSUME Rows, Units, [Next]_vars PROVE Units'
  OBVIOUS
<1>1. \A d \in Captures : captures[d].state # "none" => captures'[d].state # "none"
  BY CapturesProgress DEF Progress
<1>2. CASE UnitsFollow
  <2> SUFFICES ASSUME NEW w \in units' PROVE UnitRow(w) /\ captures'[w.capture].state # "none"
    BY DEF Units
  <2>1. PICK u \in units : Fate(w, u)
    BY <1>2 DEF UnitsFollow
  <2> QED BY <1>1, <2>1 DEF Units, Fate, Descends, UnitRow
<1>3. ASSUME NEW c \in Captures, NEW k \in UnitKinds, NEW w, Appending(c, k, w)
      PROVE  Units'
  BY <1>1, <1>3 DEF Units, Appending, UnitRow
<1> QED BY <1>2, <1>3, UnitsStep

\* Every unit row has its fields and belongs to a capture that exists.
THEOREM UnitsCorrect == Spec => []Units
<1>1. Init => Units
  BY DEF Init, Units
<1> QED BY <1>1, UnitsNext, RowsCorrect, PTL DEF Spec

-----------------------------------------------------------------------------
(* Completion                                                              *)

\* Whether capture c still owes Raw content.
Owes(c) == \E u \in units : u.capture = c /\ u.kind = "raw" /\ u.disposition = "pending"

LEMMA OwesPending == \A c : Owes(c) <=> PendingRaw(c) # {}
BY DEF Owes, PendingRaw, UnitsOf

\* Raw content is never owed anew.
LEMMA OwedBefore ==
  ASSUME UnitsFollow, NEW d, Owes(d)'
  PROVE  Owes(d)
<1>1. PICK w \in units' : w.capture = d /\ w.kind = "raw" /\ w.disposition = "pending"
  BY DEF Owes
<1>2. PICK u \in units : Fate(w, u)
  BY DEF UnitsFollow
<1> QED BY <1>1, <1>2 DEF Owes, Fate, Descends, Settles, Loses

\* Disposing of units leaves what other units owe.
LEMMA OwedAfter ==
  ASSUME NEW D, NEW how, NEW receipt, Disposing(D, how, receipt), NEW d,
         \A u \in D : u.capture # d \/ u.kind # "raw", Owes(d)
  PROVE  Owes(d)'
BY DEF Owes, Disposing, Replaced

\* In terms of Owes.
Completion ==
  \A c \in Captures : captures[c].activation # Null => (captures[c].state = "activated" <=> Owes(c))

LEMMA CompletionEquivalent == Completion <=> CompletionExact
BY OwesPending DEF Completion, CompletionExact

\* A step that keeps states and receipts and what is owed.
LEMMA CompletionFrame ==
  ASSUME Completion,
         \A d \in Captures : captures'[d].activation # Null =>
           /\ captures[d].activation # Null /\ captures'[d].state = captures[d].state
           /\ Owes(d)' <=> Owes(d)
  PROVE  Completion'
BY DEF Completion

LEMMA CompletionNext == Rows /\ Units /\ Completion /\ [Next]_vars => Completion'
<1> SUFFICES ASSUME Rows, Units, Completion, [Next]_vars PROVE Completion'
  OBVIOUS
<1>1. ASSUME units' = units
      PROVE  \A d : Owes(d)' <=> Owes(d)
  BY <1>1 DEF Owes
<1>2. ASSUME AllKept, \A d \in Captures : captures[d].activation # Null => (Owes(d)' <=> Owes(d))
      PROVE  Completion'
  BY <1>2, CompletionFrame DEF AllKept, Kept
<1>3. CASE \E s \in Scopes : Claim(s)
  BY <1>1, <1>2, <1>3, ClaimEffect, OtherUnits
<1>4. CASE \E s \in Scopes, e \in Epochs, f \in Floors, b \in MetadataSizes : AdoptBaseline(s, e, f, b)
  BY <1>1, <1>2, <1>4, AdoptEffect, OtherUnits
<1>5. ASSUME NEW s \in Scopes, NEW e \in Epochs, NEW c \in Captures, NEW x, NEW b, NEW p \in Policies,
             Reserve(s, e, c, x, b, p.purpose, p.raw, p.track)
      PROVE  Completion'
  <2>1. OthersKept(c) /\ Reserving(s, c, x, b, p.purpose, p.track) /\ units' = units
    BY <1>5, ReserveEffect, OtherUnits
  <2> QED BY <1>1, <2>1, CompletionFrame DEF OthersKept, Kept, Reserving
<1>6. CASE Quiet
  <2> SUFFICES ASSUME NEW d \in Captures, captures[d].activation # Null
               PROVE  Owes(d)' <=> Owes(d)
    BY <1>2, <1>6, QuietEffect
  <2>1. ASSUME NEW c \in Captures, NEW e, NEW k, NEW b, Append(c, e, k, b)
        PROVE  Owes(d)' <=> Owes(d)
    <3>1. PICK w : Appending(c, k, w)
      BY <2>1, AppendUnit
    <3>2. w.capture # d
      BY <3>1 DEF Appending, Rows, CaptureRow
    <3> QED BY <3>1, <3>2 DEF Appending, Owes
  <2>2. ASSUME NEW c \in Captures, NEW e, NEW n, NEW R, Reclaim(c, e, R, n)
        PROVE  Owes(d)' <=> Owes(d)
    <3>1. UnitsFollow
      BY <2>2, ReclaimFate
    <3>2. \A u \in units : u \in units' \/ [u EXCEPT !.body = FALSE] \in units'
      <4>1. units' = (units \ R) \cup {[u EXCEPT !.body = FALSE] : u \in R}
        BY <2>2 DEF Reclaim, Replaced
      <4>2. \A u \in R : [u EXCEPT !.body = FALSE] \in {[v EXCEPT !.body = FALSE] : v \in R}
        OBVIOUS
      <4> QED BY <4>1, <4>2, Zenon
    <3>3. ASSUME NEW u \in units
          PROVE  LET w == [u EXCEPT !.body = FALSE] IN
                 w.capture = u.capture /\ w.kind = u.kind /\ w.disposition = u.disposition
      BY DEF Units, UnitRow, UnitFields
    <3>4. ASSUME Owes(d) PROVE Owes(d)'
      <4>1. PICK u \in units : u.capture = d /\ u.kind = "raw" /\ u.disposition = "pending"
        BY <3>4 DEF Owes
      <4> QED BY <3>2, <3>3, <4>1 DEF Owes
    <3> QED BY <3>1, <3>4, OwedBefore
  <2>3. ASSUME NEW c \in Captures, NEW e, NEW u \in units, NEW x \in UnitReceipts, CanonicalAcknowledged(c, e, u, x)
        PROVE  Owes(d)' <=> Owes(d)
    <3>1. {u} \subseteq UnitsOf(c, "canonical") /\ Disposing({u}, "acknowledged", x)
      BY <2>3, CanonicalUnits
    <3>2. u.kind = "canonical"
      BY <3>1 DEF UnitsOf
    <3>3. UnitsFollow
      BY <3>1, DisposedFate
    <3> QED BY <3>1, <3>2, <3>3, OwedBefore, OwedAfter
  <2>4. ASSUME NEW c \in Captures, NEW e, NEW b, SetSourceMetadata(c, e, b)
        PROVE  Owes(d)' <=> Owes(d)
    BY <1>1, <2>4 DEF SetSourceMetadata
  <2> QED BY <1>6, <1>1, <2>1, <2>2, <2>3, <2>4 DEF Quiet
<1>7. ASSUME NEW c \in Captures, NEW e \in Epochs, NEW complete, Seal(c, e, captures[c].begin, complete)
      PROVE  Completion'
  <2>1. /\ OthersKept(c) /\ captures'[c].activation = captures[c].activation
        /\ captures[c].state = "preparing" /\ units' = units
    BY <1>7, SealEffect, OtherUnits
  <2>2. captures'[c].activation = Null
    BY <2>1 DEF Rows, CaptureRow
  <2> QED BY <1>1, <2>1, <2>2, CompletionFrame DEF OthersKept, Kept
<1>8. ASSUME NEW c \in Captures, NEW e \in Epochs, NEW x \in Receipts, Activated(c, e, x)
      PROVE  Completion'
  <2>1. OthersKept(c) /\ units' = units
    BY <1>8, ActivatedEffect, OtherUnits
  <2>2. captures'[c].state = "activated" <=> Owes(c)
    <3> DEFINE row == [captures[c] EXCEPT !.state = "activated", !.activation = x]
               done == Completed(c, row, units)
    <3>1. captures'[c] = done
      BY <1>8 DEF Activated, Rows, WithoutHeaders
    <3>2. row.state = "activated" /\ row.activation = x /\ x # Null /\ DOMAIN row = CaptureFields
      BY JournalAssumption DEF Rows, CaptureRow, CaptureFields
    <3> HIDE DEF row
    <3>3. done.state = "activated" <=> Owes(c)
      BY <3>2 DEF Completed, Owes, CaptureFields
    <3> QED BY <3>1, <3>3
  <2> QED BY <1>1, <2>1, <2>2 DEF Completion, OthersKept, Kept
<1>9. ASSUME NEW c \in Captures, RawSettlement(c)
      PROVE  Completion'
  <2>1. OthersKept(c) /\ captures'[c].activation = captures[c].activation
    BY <1>9, RawSettlementEffect
  <2>2. PICK D, how, receipt : D \subseteq UnitsOf(c, "raw") /\ Disposing(D, how, receipt)
    BY <1>9, RawSettlementUnits
  <2>3. UnitsFollow
    BY <2>2, DisposedFate
  <2>4. \A d \in Captures \ {c} : Owes(d)' <=> Owes(d)
    BY <2>2, <2>3, OwedBefore, OwedAfter DEF UnitsOf
  <2>5. captures[c].activation # Null =>
          captures'[c].state = IF Owes(c)' THEN captures[c].state ELSE "completed"
    BY <1>9, RawSettlementCompletes DEF Owes
  <2>6. captures[c].activation # Null => (captures'[c].state = "activated" <=> Owes(c)')
    BY <2>3, <2>5, OwedBefore DEF Completion
  <2> QED BY <2>1, <2>4, <2>6 DEF Completion, OthersKept, Kept
<1>10. ASSUME NEW c \in Captures, NEW e \in Epochs,
              (\E x \in Receipts : Rejected(c, e, x)) \/ AbandonUnsealed(c, e)
       PROVE  Completion'
  <2>1. /\ OthersKept(c) /\ captures'[c].activation = captures[c].activation
        /\ captures[c].state \in Unactivated /\ units' = units
    BY <1>10, AbandonEffect, OtherUnits
  <2>2. captures'[c].activation = Null
    BY <2>1 DEF Rows, CaptureRow, Unactivated
  <2> QED BY <1>1, <2>1, <2>2, CompletionFrame DEF OthersKept, Kept
<1>11. ASSUME NEW s \in Scopes, NEW e \in Epochs, NEW c \in Captures, NEW n, NEW R,
              PruneRecords(s, e, c, R, n)
       PROVE  Completion'
  <2>1. /\ OthersKept(c) /\ captures'[c].activation = captures[c].activation
        /\ captures'[c].state = captures[c].state /\ units' = units
    BY <1>11, PruneEffect, OtherUnits
  <2> QED BY <1>1, <2>1, CompletionFrame DEF OthersKept, Kept
<1> QED BY <1>3, <1>4, <1>5, <1>6, <1>7, <1>8, <1>9, <1>10, <1>11, StepCases

\* An activated capture stays in the recovery walk exactly while it owes Raw
\* content, in whatever order receipts and cancellations arrive.
THEOREM CompletionIsExact == Spec => []CompletionExact
<1>1. Init => Completion
  BY DEF Init, Completion, NoCapture
<1>2. Completion <=> CompletionExact
  BY CompletionEquivalent
<1> QED BY <1>1, <1>2, CompletionNext, RowsCorrect, UnitsCorrect, PTL DEF Spec

-----------------------------------------------------------------------------
(* Records and versions                                                    *)

RecordRowOK(r) ==
  /\ DOMAIN r = RecordFields
  /\ r.capture \in Captures /\ r.kind \in RecordKinds /\ r.key \in KeysOf(r.kind)
  /\ r.rev \in Nat

\* A record belongs to a tracked capture that exists.
Records ==
  \A r \in records :
    RecordRowOK(r) /\ captures[r.capture].state # "none" /\ captures[r.capture].track

\* The version a record is an observation of.
IdOf(r) == <<captures[r.capture].scope, r.kind, r.key>>

\* A version that was allocated lies above the floor of its scope and names a
\* capture of that scope.
Versions ==
  /\ DOMAIN versions = RecordIds
  /\ \A v \in RecordIds :
       /\ versions[v].rev \in Nat
       /\ versions[v].rev # 0 =>
            /\ versions[v].rev > scopes[v[1]].floor
            /\ versions[v].capture \in Captures /\ captures[versions[v].capture].scope = v[1]

\* What binding a record to its content keeps.
SameObservation(w, r) ==
  /\ DOMAIN w = RecordFields /\ w.capture = r.capture /\ w.kind = r.kind /\ w.key = r.key
  /\ w.content = r.content /\ w.rev = r.rev /\ w.ref = r.ref
RecordsFollow ==
  /\ \A w \in records' : \E r \in records : SameObservation(w, r)
  /\ \A r \in records : captures'[r.capture].retired \/ \E w \in records' : SameObservation(w, r)
  /\ UNCHANGED versions

\* One observation by capture c: the current version, or the next one.
Allocates(c, k, key, v) ==
  /\ v.rev = NextRevision(captures[c].scope, k, key)
  /\ v.rev <= MaxRevision
  /\ v.capture = c /\ v.comparison = LastComplete(captures[c].scope, k)
Confirms(c, k, key, v) ==
  /\ v = versions[<<captures[c].scope, k, key>>] /\ v.rev # 0
  /\ ~WasAbsent(captures[c].scope, k, key)
Recording(c, k, key, v) ==
  /\ captures[c].state = "preparing" /\ captures[c].track /\ captures[c].scope \in Scopes
  /\ Allocates(c, k, key, v) \/ Confirms(c, k, key, v)
  /\ versions' = [versions EXCEPT ![<<captures[c].scope, k, key>>] = v]
  /\ records' = records \cup {RecordRow(c, k, key, v)}
  /\ UNCHANGED <<scopes, captures>>

LEMMA RecordStep ==
  ASSUME Rows, NEW c \in Captures, NEW e, NEW k, NEW key, NEW o, NEW ref, Record(c, e, k, key, o, ref)
  PROVE  \E v : Recording(c, k, key, v)
<1> DEFINE s == captures[c].scope
           old == versions[<<s, k, key>>]
           v == IF Changed(s, k, key, o) THEN NewVersion(s, k, key, o, ref, c) ELSE old
<1>1. captures[c].state = "preparing" /\ captures[c].track /\ s \in Scopes
  BY DEF Record, Owned, Rows, CaptureRow
<1>2. /\ versions' = [versions EXCEPT ![<<s, k, key>>] = v]
      /\ records' = records \cup {RecordRow(c, k, key, v)}
      /\ UNCHANGED <<scopes, captures>>
  BY DEF Record
<1>3. CASE Changed(s, k, key, o)
  <2>1. v = NewVersion(s, k, key, o, ref, c)
    BY <1>3
  <2>2. v.rev <= MaxRevision
    BY <1>3 DEF Record
  <2>3. Allocates(c, k, key, v)
    BY <2>1, <2>2 DEF Allocates, NewVersion
  <2> QED BY <1>1, <1>2, <2>3 DEF Recording
<1>4. CASE ~Changed(s, k, key, o)
  <2>1. v = old
    BY <1>4
  <2>2. old.rev # 0 /\ ~WasAbsent(s, k, key)
    BY <1>4 DEF Changed
  <2>3. Confirms(c, k, key, v)
    BY <2>1, <2>2 DEF Confirms
  <2> QED BY <1>1, <1>2, <2>3 DEF Recording
<1> QED BY <1>3, <1>4

LEMMA BindStep ==
  ASSUME Records, NEW e, NEW r \in records, BindRecord(e, r)
  PROVE  RecordsFollow
<1>1. PICK unit, gap : records' = (records \ {r}) \cup {[r EXCEPT !.unit = unit, !.gap = gap]}
  <2>1. PICK unit, gap : records' = Rebound(r, unit, gap)
    BY DEF BindRecord
  <2> QED BY <2>1, Zenon DEF Rebound
<1> DEFINE w == [r EXCEPT !.unit = unit, !.gap = gap]
<1>2. SameObservation(w, r)
  BY DEF Records, RecordRowOK, RecordFields, SameObservation
<1>3. \A q \in records : SameObservation(q, q)
  BY DEF Records, RecordRowOK, SameObservation
<1>4. records' = (records \ {r}) \cup {w} /\ UNCHANGED versions
  BY <1>1 DEF BindRecord
<1> HIDE DEF w
<1> QED BY <1>2, <1>3, <1>4 DEF RecordsFollow

\* The operations that change records: everything else leaves them and the
\* versions alone.
LEMMA OtherRecords ==
  ASSUME [Next]_vars, Rows
  PROVE  \/ \E c \in Captures, e \in Epochs, k \in RecordKinds, o \in Observed, ref \in References \cup {Null} :
              \E key \in KeysOf(k) : Record(c, e, k, key, o, ref)
         \/ \E e \in Epochs, r \in records : BindRecord(e, r)
         \/ \E s \in Scopes, e \in Epochs, c \in Captures, n \in 1..PruneLimit :
              \E R \in SUBSET RecordsOf(c) : PruneRecords(s, e, c, R, n)
         \/ UNCHANGED <<records, versions>>
<1>1. ASSUME NEW c \in Captures, RawSettlement(c) PROVE UNCHANGED <<records, versions>>
  BY <1>1, RawSettlementEffect
<1>2. CASE Prepare
  <2>1. ASSUME NEW s, NEW e, NEW f, NEW b, AdoptBaseline(s, e, f, b)
        PROVE  UNCHANGED <<records, versions>>
    BY <2>1 DEF AdoptBaseline
  <2>2. \A s : Claim(s) => UNCHANGED <<records, versions>>
    BY DEF Claim
  <2>3. \A s, e, c, x, b, purpose, raw, track :
          Reserve(s, e, c, x, b, purpose, raw, track) => UNCHANGED <<records, versions>>
    BY DEF Reserve
  <2>4. \A c, e, b : SetSourceMetadata(c, e, b) => UNCHANGED <<records, versions>>
    BY DEF SetSourceMetadata
  <2>5. \A c, e, k, b : Append(c, e, k, b) => UNCHANGED <<records, versions>>
    BY DEF Append
  <2>6. \A c, e, next, complete : Seal(c, e, next, complete) => UNCHANGED <<records, versions>>
    BY DEF Seal
  <2> QED BY <1>2, <2>1, <2>2, <2>3, <2>4, <2>5, <2>6 DEF Prepare
<1>3. CASE Settle
  <2>1. \A c, e, u, x : CanonicalAcknowledged(c, e, u, x) => UNCHANGED <<records, versions>>
    BY DEF CanonicalAcknowledged
  <2>2. \A c, e, x : Activated(c, e, x) \/ Rejected(c, e, x) => UNCHANGED <<records, versions>>
    BY DEF Activated, Rejected
  <2>3. \A c, e : AbandonUnsealed(c, e) => UNCHANGED <<records, versions>>
    BY DEF AbandonUnsealed
  <2> QED BY <1>1, <1>3, <2>1, <2>2, <2>3 DEF Settle, RawSettlement
<1>4. CASE Clean
  <2>1. ASSUME NEW c, NEW e, NEW R, NEW n, Reclaim(c, e, R, n)
        PROVE  UNCHANGED <<records, versions>>
    BY <2>1 DEF Reclaim
  <2> QED BY <1>4, <2>1 DEF Clean
<1>5. CASE UNCHANGED vars
  BY <1>5 DEF vars
<1> QED BY <1>2, <1>3, <1>4, <1>5 DEF Next

\* A step records one observation, or every record keeps its observation until
\* its capture is retired.
LEMMA RecordsStep ==
  ASSUME Rows, Records, [Next]_vars
  PROVE  \/ RecordsFollow
         \/ \E c \in Captures, k \in RecordKinds : \E key \in KeysOf(k) : \E v : Recording(c, k, key, v)
<1>1. ASSUME UNCHANGED <<records, versions>> PROVE RecordsFollow
  BY <1>1 DEF Records, RecordRowOK, SameObservation, RecordsFollow
<1>2. ASSUME NEW s \in Scopes, NEW e, NEW c \in Captures, NEW R, NEW n, PruneRecords(s, e, c, R, n)
      PROVE  RecordsFollow
  <2>1. captures'[c].retired /\ R \subseteq RecordsOf(c) /\ records' = records \ R /\ UNCHANGED versions
    BY <1>2, PruneEffect
  <2> QED BY <2>1 DEF RecordsOf, Records, RecordRowOK, SameObservation, RecordsFollow
<1>3. CASE \E c \in Captures, e \in Epochs, k \in RecordKinds, o \in Observed, ref \in References \cup {Null} :
             \E key \in KeysOf(k) : Record(c, e, k, key, o, ref)
  BY <1>3, RecordStep
<1>4. CASE \E e \in Epochs, r \in records : BindRecord(e, r)
  BY <1>4, BindStep
<1> QED BY <1>1, <1>2, <1>3, <1>4, OtherRecords

\* An identity of the versions table.
LEMMA RecordIdOK ==
  ASSUME NEW s \in Scopes, NEW k \in RecordKinds, NEW key \in KeysOf(k)
  PROVE  <<s, k, key>> \in RecordIds /\ <<s, k, key>>[1] = s
BY DEF RecordIds, KeysOf

\* The row an observation adds.
LEMMA RecordRowFields ==
  ASSUME NEW c, NEW k, NEW key, NEW v
  PROVE  LET r == RecordRow(c, k, key, v) IN
         /\ DOMAIN r = RecordFields /\ r.capture = c /\ r.kind = k /\ r.key = key
         /\ r.content = v.content /\ r.rev = v.rev /\ r.ref = v.ref /\ r.unit = Null
BY DEF RecordRow, RecordFields

\* An observation never goes back: a confirmed version is the current one, an
\* allocated one lies above it and above the floor.
LEMMA RecordedVersion ==
  ASSUME Rows, Versions, NEW c \in Captures, NEW k \in RecordKinds, NEW key \in KeysOf(k), NEW v,
         Recording(c, k, key, v)
  PROVE  LET s == captures[c].scope
             id == <<s, k, key>>
         IN  /\ s \in Scopes /\ id \in RecordIds /\ id[1] = s
             /\ v.rev \in Nat /\ v.rev > scopes[s].floor /\ scopes[s].floor \in Nat
             /\ v = versions[id] \/ (v.rev > versions[id].rev /\ v.capture = c)
             /\ versions[id].rev \in Nat
             /\ versions'[id] = v /\ DOMAIN versions' = RecordIds
             /\ \A w \in RecordIds \ {id} : versions'[w] = versions[w]
<1> DEFINE s == captures[c].scope
           id == <<s, k, key>>
<1>1. s \in Scopes /\ scopes[s].floor \in Nat
  BY DEF Recording, Rows, ScopeRow
<1>2. id \in RecordIds /\ id[1] = s
  BY <1>1, RecordIdOK
<1>3. /\ versions'[id] = v /\ DOMAIN versions' = RecordIds
      /\ \A w \in RecordIds \ {id} : versions'[w] = versions[w]
  BY <1>2 DEF Recording, Versions
<1>4. versions[id].rev \in Nat /\ (versions[id].rev # 0 => versions[id].rev > scopes[s].floor)
  BY <1>2 DEF Versions
<1>5. CASE Allocates(c, k, key, v)
  <2>1. v.rev = (IF versions[id].rev = 0 THEN scopes[s].floor ELSE versions[id].rev) + 1 /\ v.capture = c
    BY <1>5 DEF Allocates, NextRevision
  <2>2. v.rev \in Nat /\ v.rev > scopes[s].floor /\ v.rev > versions[id].rev
    BY <1>1, <1>4, <2>1
  <2> QED BY <1>1, <1>2, <1>3, <1>4, <2>1, <2>2
<1>6. CASE Confirms(c, k, key, v)
  <2>1. v = versions[id] /\ v.rev # 0
    BY <1>6 DEF Confirms
  <2> QED BY <1>1, <1>2, <1>3, <1>4, <2>1
<1> QED BY <1>5, <1>6 DEF Recording

\* What a step does to the scope of a capture that exists, and to floors.
LEMMA ScopeFloors ==
  ASSUME Rows, [Next]_vars
  PROVE  \A s \in Scopes : scopes'[s].floor = scopes[s].floor \/ CapturesOf(s) = {}
<1>1. ASSUME NEW s \in Scopes, NEW e, NEW c \in Captures, NEW x, NEW b, NEW p,
             Reserve(s, e, c, x, b, p.purpose, p.raw, p.track)
      PROVE  \A t \in Scopes : scopes'[t].floor = scopes[t].floor
  <2>1. Reserving(s, c, x, b, p.purpose, p.track)
    BY <1>1, ReserveEffect
  <2> QED BY <2>1 DEF Reserving
<1>2. ASSUME NEW s \in Scopes, NEW e, NEW f \in Floors, NEW b, AdoptBaseline(s, e, f, b)
      PROVE  \A t \in Scopes : scopes'[t].floor = scopes[t].floor \/ CapturesOf(t) = {}
  BY <1>2, AdoptEffect DEF ScopeKept
<1>3. ASSUME ScopesKept
      PROVE  \A s \in Scopes : scopes'[s].floor = scopes[s].floor
  BY <1>3 DEF ScopesKept, ScopeKept
<1>4. ASSUME NEW s \in Scopes, NEW e, NEW c \in Captures, NEW R, NEW n, PruneRecords(s, e, c, R, n)
      PROVE  ScopesKept
  BY <1>4, PruneEffect
<1> QED BY <1>1, <1>2, <1>3, <1>4, StepCases, ClaimEffect, QuietEffect, SealEffect, ActivatedEffect,
           RawSettlementEffect, AbandonEffect

LEMMA RecordsNext == Rows /\ Records /\ Versions /\ [Next]_vars => Records' /\ Versions'
<1> SUFFICES ASSUME Rows, Records, Versions, [Next]_vars PROVE Records' /\ Versions'
  OBVIOUS
<1>1. \A d \in Captures : captures[d].state # "none" =>
        captures'[d].state # "none" /\ captures'[d].scope = captures[d].scope /\ captures'[d].track = captures[d].track
  BY CapturesProgress DEF Progress, Frozen
<1>2. CASE RecordsFollow
  <2>1. ASSUME NEW w \in records'
        PROVE  RecordRowOK(w) /\ captures'[w.capture].state # "none" /\ captures'[w.capture].track
    <3>1. PICK r \in records : SameObservation(w, r)
      BY <1>2 DEF RecordsFollow
    <3> QED BY <1>1, <3>1 DEF Records, RecordRowOK, SameObservation
  <2>2. ASSUME NEW v \in RecordIds, versions[v].rev # 0
        PROVE  /\ scopes'[v[1]].floor = scopes[v[1]].floor
               /\ captures'[versions[v].capture].scope = captures[versions[v].capture].scope
    <3>1. v[1] \in Scopes
      BY DEF RecordIds
    <3>2. versions[v].capture \in CapturesOf(v[1]) /\ versions[v].capture \in Captures
      BY <2>2 DEF Versions, CapturesOf
    <3>3. scopes'[v[1]].floor = scopes[v[1]].floor
      BY <3>1, <3>2, ScopeFloors
    <3>4. captures[versions[v].capture].state # "none"
      BY <3>1, <3>2, JournalAssumption DEF CapturesOf, Rows, CaptureRow
    <3> QED BY <1>1, <3>2, <3>3, <3>4
  <2> QED BY <1>2, <2>1, <2>2 DEF RecordsFollow, Records, Versions
<1>3. ASSUME NEW c \in Captures, NEW k \in RecordKinds, NEW key \in KeysOf(k), NEW v, Recording(c, k, key, v)
      PROVE  Records' /\ Versions'
  <2> DEFINE s == captures[c].scope
             id == <<s, k, key>>
             r == RecordRow(c, k, key, v)
  <2>1. /\ s \in Scopes /\ id \in RecordIds /\ id[1] = s
        /\ v.rev \in Nat /\ v.rev > scopes[s].floor /\ scopes[s].floor \in Nat
        /\ v = versions[id] \/ (v.rev > versions[id].rev /\ v.capture = c)
        /\ versions'[id] = v /\ DOMAIN versions' = RecordIds
        /\ \A w \in RecordIds \ {id} : versions'[w] = versions[w]
    BY <1>3, RecordedVersion
  <2>2. DOMAIN r = RecordFields /\ r.capture = c /\ r.kind = k /\ r.key = key /\ r.rev = v.rev
    BY RecordRowFields
  <2>3. /\ records' = records \cup {r} /\ UNCHANGED <<scopes, captures>>
        /\ captures[c].state # "none" /\ captures[c].track
    BY <1>3 DEF Recording
  <2>4. RecordRowOK(r)
    BY <2>1, <2>2 DEF RecordRowOK
  <2> HIDE DEF r
  <2>5. Records'
    BY <2>2, <2>3, <2>4 DEF Records
  <2>6. v.capture \in Captures /\ captures[v.capture].scope = s
    BY <2>1 DEF Versions
  <2>7. Versions'
    BY <2>1, <2>3, <2>6 DEF Versions
  <2> QED BY <2>5, <2>7
<1> QED BY <1>2, <1>3, RecordsStep

\* Every record is a row of its fields of a tracked capture, and every version
\* lies above the floor of the scope it belongs to.
THEOREM RecordsCorrect == Spec => [](Records /\ Versions)
<1>1. Init => Records /\ Versions
  BY DEF Init, Records, Versions, NoVersion
<1> QED BY <1>1, RecordsNext, RowsCorrect, PTL DEF Spec

\* What VersionIdentity says of a record and of two records of one identity.
Sound(r) ==
  LET v == versions[IdOf(r)] IN
  /\ r.rev > scopes[captures[r.capture].scope].floor /\ r.rev <= v.rev
  /\ r.rev = v.rev => r.content = v.content /\ r.ref = v.ref
Agree(r, q) == SameRecord(r, q) /\ r.rev = q.rev => r.content = q.content /\ r.ref = q.ref

Identity == \A r \in records : Sound(r) /\ \A q \in records : Agree(r, q)

LEMMA IdentityEquivalent == Identity <=> VersionIdentity
BY DEF VersionIdentity, Identity, Sound, Agree, IdOf

LEMMA IdentityNext == Rows /\ Records /\ Versions /\ Identity /\ [Next]_vars => Identity'
<1> SUFFICES ASSUME Rows, Records, Versions, Identity, [Next]_vars
             PROVE  \A r \in records' : Sound(r)' /\ \A q \in records' : Agree(r, q)'
  BY DEF Identity
<1>1. \A r \in records : Sound(r) /\ \A q \in records : Agree(r, q)
  BY DEF Identity
<1>2. CASE RecordsFollow
  <2>1. ASSUME NEW w \in records', NEW r \in records, SameObservation(w, r)
        PROVE  /\ captures'[w.capture].scope = captures[r.capture].scope
               /\ scopes'[captures[r.capture].scope].floor = scopes[captures[r.capture].scope].floor
    <3>1. r.capture \in Captures /\ captures[r.capture].state # "none"
      BY DEF Records, RecordRowOK
    <3>2. captures'[r.capture].scope = captures[r.capture].scope
      BY <3>1, CapturesProgress DEF Progress, Frozen
    <3>3. captures[r.capture].scope \in Scopes /\ r.capture \in CapturesOf(captures[r.capture].scope)
      BY <3>1 DEF Rows, CaptureRow, CapturesOf
    <3> QED BY <2>1, <3>2, <3>3, ScopeFloors DEF SameObservation
  <2>2. ASSUME NEW w \in records' PROVE Sound(w)'
    <3>1. PICK r \in records : SameObservation(w, r)
      BY <1>2 DEF RecordsFollow
    <3> QED BY <1>1, <1>2, <2>1, <3>1 DEF Sound, IdOf, SameObservation, RecordsFollow
  <2>3. ASSUME NEW w \in records', NEW z \in records' PROVE Agree(w, z)'
    <3>1. PICK r \in records : SameObservation(w, r)
      BY <1>2 DEF RecordsFollow
    <3>2. PICK q \in records : SameObservation(z, q)
      BY <1>2 DEF RecordsFollow
    <3>3. Agree(r, q)
      BY <1>1
    <3>4. /\ captures'[w.capture].scope = captures[r.capture].scope
          /\ captures'[z.capture].scope = captures[q.capture].scope
      BY <2>1, <3>1, <3>2
    <3> QED BY <3>1, <3>2, <3>3, <3>4 DEF Agree, SameRecord, SameObservation
  <2> QED BY <2>2, <2>3
<1>3. ASSUME NEW c \in Captures, NEW k \in RecordKinds, NEW key \in KeysOf(k), NEW v, Recording(c, k, key, v)
      PROVE  \A r \in records' : Sound(r)' /\ \A q \in records' : Agree(r, q)'
  <2> DEFINE s == captures[c].scope
             id == <<s, k, key>>
             n == RecordRow(c, k, key, v)
  <2>1. /\ s \in Scopes /\ id \in RecordIds
        /\ v.rev \in Nat /\ v.rev > scopes[s].floor /\ scopes[s].floor \in Nat
        /\ v = versions[id] \/ v.rev > versions[id].rev
        /\ versions[id].rev \in Nat
        /\ versions'[id] = v
        /\ \A w \in RecordIds \ {id} : versions'[w] = versions[w]
    BY <1>3, RecordedVersion
  <2>2. n.capture = c /\ n.kind = k /\ n.key = key /\ n.rev = v.rev /\ n.content = v.content /\ n.ref = v.ref
    BY RecordRowFields
  <2>3. records' = records \cup {n} /\ UNCHANGED <<scopes, captures>>
    BY <1>3 DEF Recording
  <2> HIDE DEF n
  <2>4. ASSUME NEW r \in records
        PROVE  /\ r.rev \in Nat /\ IdOf(r) \in RecordIds
               /\ IdOf(r) = id => r.rev <= v.rev /\ (r.rev = v.rev => r.content = v.content /\ r.ref = v.ref)
    <3>1. r.rev \in Nat /\ captures[r.capture].scope \in Scopes /\ r.kind \in RecordKinds /\ r.key \in KeysOf(r.kind)
      BY DEF Records, RecordRowOK, Rows, CaptureRow
    <3>2. IdOf(r) \in RecordIds
      BY <3>1, RecordIdOK DEF IdOf
    <3>3. Sound(r)
      BY <1>1
    <3> QED BY <2>1, <3>1, <3>2, <3>3 DEF Sound
  <2>5. ASSUME NEW r \in records PROVE Sound(r)'
    <3>1. Sound(r)
      BY <1>1
    <3>2. IdOf(r)' = IdOf(r)
      BY <2>3 DEF IdOf
    <3>3. CASE IdOf(r) = id
      BY <2>1, <2>3, <2>4, <3>1, <3>2, <3>3 DEF Sound
    <3>4. CASE IdOf(r) # id
      BY <2>1, <2>3, <2>4, <3>1, <3>2, <3>4 DEF Sound
    <3> QED BY <3>3, <3>4
  <2>6. Sound(n)'
    BY <2>1, <2>2, <2>3 DEF Sound, IdOf
  <2>7. ASSUME NEW r \in records PROVE Agree(r, n)' /\ Agree(n, r)'
    BY <2>2, <2>3, <2>4 DEF Agree, SameRecord, IdOf
  <2>8. Agree(n, n)' /\ \A r, q \in records : Agree(r, q)'
    BY <1>1, <2>3 DEF Agree, SameRecord
  <2> QED BY <2>3, <2>5, <2>6, <2>7, <2>8
<1> QED BY <1>2, <1>3, RecordsStep

\* A revision names one content and one Raw reference for ever, also in
\* captures that were abandoned, and an adopted source allocates no revision
\* that legacy ingestion may have used.
THEOREM VersionsIdentify == Spec => []VersionIdentity
<1>1. Init => Identity
  BY DEF Init, Identity
<1>2. Identity <=> VersionIdentity
  BY IdentityEquivalent
<1> QED BY <1>1, <1>2, IdentityNext, RowsCorrect, RecordsCorrect, PTL DEF Spec

-----------------------------------------------------------------------------
(* Content that is owed                                                    *)

\* The unit a record points to, in an activated capture that still has what
\* was not delivered.  An activated capture is never abandoned, so its pending
\* Raw content is not reclaimed: this is what borrowing rests on.
Lent(unit) ==
  \E u \in units : /\ u.kind = "raw" /\ unit = <<u.capture, u.ordinal>>
                   /\ captures[u.capture].activation # Null
                   /\ u.disposition = "pending" => u.body
Borrowed == \A r \in records : r.unit # Null /\ r.unit[1] # r.capture => Lent(r.unit)

Owed(u) ==
  /\ (captures[u.capture].state # "abandoned" /\ u.disposition = "pending"
       /\ (u.kind = "canonical" => captures[u.capture].activation = Null)) => u.body
  /\ (u.kind = "canonical" /\ captures[u.capture].state \in Unactivated) => u.body
OwedUnits == \A u \in units : Owed(u)

LEMMA RetentionParts == OwedUnits /\ Borrowed => OwedContentRetained
BY DEF OwedUnits, Owed, Borrowed, Lent, OwedContentRetained

LEMMA OwedNext == Rows /\ Units /\ OwedUnits /\ [Next]_vars => OwedUnits'
<1> SUFFICES ASSUME Rows, Units, OwedUnits, [Next]_vars PROVE \A w \in units' : Owed(w)'
  BY DEF OwedUnits
<1>1. ASSUME NEW w \in units', NEW u \in units, Fate(w, u)
      PROVE  Owed(w)'
  <2>1. u.capture \in Captures /\ captures[u.capture].state # "none"
    BY DEF Units, UnitRow
  <2>2. /\ captures[u.capture].activation # Null => captures'[u.capture].activation # Null
        /\ captures'[u.capture].state \in Unactivated => captures[u.capture].state \in Unactivated
        /\ captures[u.capture].state = "abandoned" => captures'[u.capture].state = "abandoned"
    BY <2>1, CapturesProgress DEF Progress
  <2>3. captures[u.capture].state \in Unactivated =>
          captures[u.capture].activation = Null /\ captures[u.capture].state # "abandoned"
    BY <2>1 DEF Rows, CaptureRow, Unactivated
  <2>4. Owed(u)
    BY DEF OwedUnits
  <2>5. w.capture = u.capture /\ w.kind = u.kind
    BY <1>1 DEF Fate, Descends
  <2>6. CASE w = u
    BY <2>2, <2>4, <2>6 DEF Owed
  <2>7. CASE Settles(w, u)
    BY <2>2, <2>4, <2>5, <2>7 DEF Owed, Settles
  <2>8. CASE Loses(w, u)
    <3>1. \/ captures[u.capture].state = "abandoned"
          \/ u.kind = "canonical" /\ captures[u.capture].activation # Null
          \/ u.kind = "raw" /\ u.disposition # "pending"
      BY <2>8 DEF Loses, Reclaimable
    <3> QED BY <2>2, <2>3, <2>5, <2>8, <3>1 DEF Owed, Loses
  <2> QED BY <1>1, <2>6, <2>7, <2>8 DEF Fate
<1>2. CASE UnitsFollow
  BY <1>1, <1>2 DEF UnitsFollow
<1>3. ASSUME NEW c \in Captures, NEW k \in UnitKinds, NEW n, Appending(c, k, n)
      PROVE  \A w \in units' : Owed(w)'
  <2>1. \A u \in units : Fate(u, u)
    BY DEF Units, Fate, Descends
  <2> QED BY <1>1, <1>3, <2>1 DEF Appending, Owed
<1> QED BY <1>2, <1>3, UnitsStep

\* A unit that was lent stays lent.
LEMMA LentStays ==
  ASSUME Rows, Units, [Next]_vars, NEW unit, Lent(unit)
  PROVE  Lent(unit)'
<1>1. PICK u \in units : /\ u.kind = "raw" /\ unit = <<u.capture, u.ordinal>>
                         /\ captures[u.capture].activation # Null
                         /\ u.disposition = "pending" => u.body
  BY DEF Lent
<1>2. u.capture \in Captures /\ captures[u.capture].state # "none"
  BY DEF Units, UnitRow
<1>3. captures'[u.capture].activation # Null
  BY <1>1, <1>2, CapturesProgress DEF Progress
<1>4. captures[u.capture].state # "abandoned"
  BY <1>1, <1>2 DEF Rows, CaptureRow
<1>5. PICK w \in units' : Fate(w, u)
  <2>1. Fate(u, u)
    BY DEF Units, Fate, Descends
  <2> QED BY <2>1, UnitsStep DEF UnitsFollow, Appending
<1>6. w.kind = "raw" /\ unit = <<w.capture, w.ordinal>> /\ captures'[w.capture].activation # Null
  BY <1>1, <1>3, <1>5 DEF Fate, Descends
<1>7. w.disposition = "pending" => w.body
  BY <1>1, <1>4, <1>5 DEF Fate, Settles, Loses, Reclaimable
<1> QED BY <1>6, <1>7 DEF Lent

\* How the records of the next state are bound.
BoundAsBefore(w) == \E r \in records : w.unit = r.unit /\ w.capture = r.capture
LEMMA BindingStep ==
  ASSUME Rows, Units, Records, [Next]_vars, NEW w \in records', w.unit # Null, w.unit[1] # w.capture
  PROVE  BoundAsBefore(w) \/ Lent(w.unit)
<1>1. ASSUME NEW e \in Epochs, NEW r \in records, BindRecord(e, r), ~BoundAsBefore(w)
      PROVE  Lent(w.unit)
  <2>1. ASSUME NEW unit, NEW gap, records' = Rebound(r, unit, gap)
        PROVE  w.unit = unit /\ w.capture = r.capture
    <3>1. w \notin records
      BY <1>1 DEF BoundAsBefore
    <3>2. w = [r EXCEPT !.unit = unit, !.gap = gap]
      BY <2>1, <3>1 DEF Rebound
    <3>3. DOMAIN r = RecordFields
      BY DEF Records, RecordRowOK
    <3> QED BY <3>2, <3>3 DEF RecordFields
  <2>2. CASE \E u \in UnitsOf(r.capture, IF r.kind = "raw" THEN "raw" ELSE "canonical") :
               records' = Rebound(r, <<u.capture, u.ordinal>>, FALSE)
    <3>1. PICK u \in UnitsOf(r.capture, IF r.kind = "raw" THEN "raw" ELSE "canonical") :
               records' = Rebound(r, <<u.capture, u.ordinal>>, FALSE)
      BY <2>2
    <3>2. w.unit = <<u.capture, u.ordinal>> /\ w.capture = r.capture
      BY <2>1, <3>1
    <3>3. u.capture = r.capture
      BY DEF UnitsOf
    <3> QED BY <3>2, <3>3
  <2>3. CASE \E p \in records : Borrowable(r, p) /\ records' = Rebound(r, p.unit, FALSE)
    <3>1. PICK p \in records : Borrowable(r, p) /\ records' = Rebound(r, p.unit, FALSE)
      BY <2>3
    <3>2. w.unit = p.unit
      BY <2>1, <3>1
    <3>3. Lent(p.unit)
      BY <3>1 DEF Borrowable, Lent
    <3> QED BY <3>2, <3>3
  <2>4. CASE records' = Rebound(r, Null, TRUE)
    BY <2>1, <2>4
  <2> QED BY <1>1, <2>2, <2>3, <2>4 DEF BindRecord
<1>2. ASSUME NEW c, NEW k, NEW key, NEW v, Recording(c, k, key, v)
      PROVE  BoundAsBefore(w)
  <2>1. RecordRow(c, k, key, v).unit = Null
    BY RecordRowFields
  <2> QED BY <1>2, <2>1 DEF Recording, BoundAsBefore
<1>3. ASSUME records' \subseteq records
      PROVE  BoundAsBefore(w)
  BY <1>3 DEF BoundAsBefore
<1>4. CASE \E e \in Epochs, r \in records : BindRecord(e, r)
  BY <1>1, <1>4
<1>5. CASE \E c \in Captures, e \in Epochs, k \in RecordKinds, o \in Observed, ref \in References \cup {Null} :
             \E key \in KeysOf(k) : Record(c, e, k, key, o, ref)
  BY <1>2, <1>5, RecordStep
<1>6. ASSUME ~\E e \in Epochs, r \in records : BindRecord(e, r),
             ~\E c \in Captures, e \in Epochs, k \in RecordKinds, o \in Observed, ref \in References \cup {Null} :
                \E key \in KeysOf(k) : Record(c, e, k, key, o, ref)
      PROVE  records' \subseteq records
  BY <1>6, OtherRecords, PruneEffect
<1> QED BY <1>3, <1>4, <1>5, <1>6

LEMMA BorrowedNext == Rows /\ Units /\ Records /\ Borrowed /\ [Next]_vars => Borrowed'
<1> SUFFICES ASSUME Rows, Units, Records, Borrowed, [Next]_vars,
                    NEW w \in records', w.unit # Null, w.unit[1] # w.capture
             PROVE  Lent(w.unit)'
  BY DEF Borrowed
<1>1. Lent(w.unit)
  BY BindingStep DEF BoundAsBefore, Borrowed
<1> QED BY <1>1, LentStays

\* Content that is still owed keeps its bytes, the units of another capture
\* that a record borrows included.
THEOREM OwedContentIsRetained == Spec => []OwedContentRetained
<1>1. Init => OwedUnits /\ Borrowed
  BY DEF Init, OwedUnits, Borrowed
<1>2. OwedUnits /\ Borrowed => OwedContentRetained
  BY RetentionParts
<1> QED BY <1>1, <1>2, OwedNext, BorrowedNext, RowsCorrect, UnitsCorrect, RecordsCorrect, PTL DEF Spec

-----------------------------------------------------------------------------
(* Records that were dropped and come back                                 *)

\* A publication is begun with the attempt issued for it, which becomes its
\* checkpoint; whoever expects that checkpoint was reserved after the
\* publication was activated.
Begun ==
  \A c \in Captures : captures[c].state # "none" =>
    /\ captures[c].purpose = "publication" => captures[c].begin = IssuedFor[c]
    /\ captures[c].state = "preparing" => captures[c].next = Null
    /\ captures[c].next \in {Null, captures[c].begin}
    /\ captures[c].activation # Null => captures[c].next = captures[c].begin
    /\ captures[c].state = "sealed" => captures[c].next = captures[c].begin
Chained ==
  \A a \in Captures :
    /\ \A s \in Scopes : scopes[s].checkpoint = IssuedFor[a] => captures[a].activation # Null
    /\ \A c \in Captures :
         captures[c].state # "none" /\ captures[c].expected = IssuedFor[a] => captures[a].activation # Null

\* Tracking is never dropped.
Tracking ==
  \A a \in Captures : captures[a].state # "none" /\ captures[a].track =>
    /\ scopes[captures[a].scope].initialized
    /\ \A c \in Captures :
         (captures[c].state # "none" /\ captures[c].scope = captures[a].scope
           /\ captures[c].purpose = "publication" /\ captures[c].expected = IssuedFor[a]) => captures[c].track

\* The observations that versions are compared with were sealed.
SealedCapture(x) == x \in Captures /\ captures[x].state # "none" /\ captures[x].next # Null
Observations ==
  /\ \A s \in Scopes : scopes[s].observedCanonical # Null => SealedCapture(scopes[s].observedCanonical)
  /\ \A v \in RecordIds : v[2] = "event" /\ versions[v].rev # 0 /\ versions[v].comparison # Null =>
       SealedCapture(versions[v].comparison)

\* Capture c was sealed without the record that the publication before it had.
Dropped(r, c) ==
  /\ r.kind = "event" /\ c # r.capture
  /\ SealedCapture(c) /\ captures[c].purpose = "publication"
  /\ captures[c].scope = captures[r.capture].scope
  /\ captures[c].expected = IssuedFor[r.capture]
  /\ ~captures[c].retired /\ RecordOf(c, r.kind, r.key) = {}

\* Such a record was renumbered since, or its next observation will be.
Marked(r) ==
  \/ versions[IdOf(r)].rev > r.rev
  \/ WasAbsent(captures[r.capture].scope, r.kind, r.key)
Remembered == \A r \in records, c \in Captures : Dropped(r, c) => Marked(r)

\* An observation made after c was sealed.
Later(q, c) ==
  /\ q.capture # c
  /\ \/ captures[q.capture].state \in Unactivated
     \/ captures[q.capture].expected = IssuedFor[c]
Renumbered ==
  \A r \in records, q \in records, c \in Captures :
    Dropped(r, c) /\ SameRecord(r, q) /\ Later(q, c) => q.rev > r.rev

Reappearance == Begun /\ Chained /\ Tracking /\ Observations /\ Remembered /\ Renumbered

\* How one step moves one capture.
Created(d) ==
  /\ captures[d].state = "none" /\ captures'[d].state = "preparing"
  /\ captures'[d].scope \in Scopes
  /\ captures'[d].next = Null /\ captures'[d].activation = Null
  /\ captures'[d].begin \in Attempts
  /\ captures'[d].purpose = "publication" => captures'[d].begin = IssuedFor[d]
  /\ captures'[d].expected = scopes[captures'[d].scope].checkpoint
  /\ captures'[d].purpose = "publication" /\ scopes[captures'[d].scope].initialized => captures'[d].track
  /\ captures'[d].track => scopes'[captures'[d].scope].initialized
Sealing(d) ==
  /\ Frozen(d) /\ captures[d].state = "preparing" /\ captures'[d].state = "sealed"
  /\ captures'[d].next = captures[d].begin /\ captures'[d].activation = captures[d].activation
  /\ captures[d].track /\ captures[d].purpose = "publication" =>
       scopes'[captures[d].scope].observedCanonical = d
  /\ UNCHANGED <<records, versions>>
Settling(d) ==
  /\ Frozen(d) /\ captures'[d].next = captures[d].next
  /\ \/ captures'[d].state = captures[d].state /\ captures'[d].activation = captures[d].activation
     \/ /\ captures[d].state # "none" /\ captures'[d].state \in {"activated", "completed", "abandoned"}
        /\ captures'[d].activation = captures[d].activation \/ captures[d].state = "sealed"
Moves(d) == Created(d) \/ Sealing(d) \/ Settling(d)

\* How it moves the scopes: a checkpoint by an activation, the last complete
\* Canonical observation by the seal of a tracked publication.
CheckpointMoves(s) ==
  \/ scopes'[s].checkpoint = scopes[s].checkpoint
  \/ \E c \in Captures : /\ captures[c].state = "sealed" /\ captures[c].purpose = "publication"
                         /\ captures'[c].activation # Null /\ scopes'[s].checkpoint = captures[c].next
SealsObservation(c) ==
  /\ Sealing(c) /\ captures[c].track /\ captures[c].purpose = "publication"
  /\ scopes'[captures[c].scope].observedCanonical = c
  /\ UNCHANGED <<records, versions>>
ObservationMoves(s) ==
  \/ scopes'[s].observedCanonical = scopes[s].observedCanonical
  \/ \E c \in Captures : captures[c].scope = s /\ SealsObservation(c)
ScopeMoves(s) ==
  /\ CheckpointMoves(s) /\ ObservationMoves(s)
  /\ scopes[s].initialized => scopes'[s].initialized

LEMMA KeptMoves ==
  ASSUME NEW d, Kept(d) PROVE Settling(d)
BY DEF Kept, Settling

LEMMA ScopeKeptMoves ==
  ASSUME NEW s, ScopeKept(s) PROVE ScopeMoves(s)
BY DEF ScopeKept, ScopeMoves, CheckpointMoves, ObservationMoves

AllMove == (\A d \in Captures : Moves(d)) /\ (\A s \in Scopes : ScopeMoves(s))

LEMMA StepMoves ==
  ASSUME Rows, [Next]_vars
  PROVE  (\A d \in Captures : Moves(d)) /\ (\A s \in Scopes : ScopeMoves(s))
<1> SUFFICES AllMove
  BY DEF AllMove
<1>1. ASSUME AllKept, ScopesKept PROVE AllMove
  BY <1>1, KeptMoves, ScopeKeptMoves DEF AllMove, AllKept, ScopesKept, Moves
<1>2. CASE \E s \in Scopes : Claim(s)
  BY <1>1, <1>2, ClaimEffect
<1>3. ASSUME NEW s \in Scopes, NEW e, NEW f \in Floors, NEW b, AdoptBaseline(s, e, f, b) PROVE AllMove
  <2>1. /\ AllKept /\ \A t \in Scopes \ {s} : ScopeKept(t)
        /\ scopes'[s].checkpoint = scopes[s].checkpoint
        /\ scopes'[s].initialized = scopes[s].initialized
        /\ scopes'[s].observedCanonical = scopes[s].observedCanonical
    BY <1>3, AdoptEffect
  <2>2. ScopeMoves(s)
    BY <2>1 DEF ScopeMoves, CheckpointMoves, ObservationMoves
  <2> QED BY <2>1, <2>2, KeptMoves, ScopeKeptMoves DEF AllMove, AllKept, Moves
<1>4. ASSUME NEW s \in Scopes, NEW e, NEW c \in Captures, NEW x, NEW b, NEW p \in Policies,
             b \in Attempts, p.purpose = "publication" => b = IssuedFor[c],
             Reserve(s, e, c, x, b, p.purpose, p.raw, p.track)
      PROVE  AllMove
  <2>1. OthersKept(c) /\ Reserving(s, c, x, b, p.purpose, p.track)
    BY <1>4, ReserveEffect
  <2>2. Created(c)
    BY <1>4, <2>1 DEF Reserving, Created
  <2>3. \A t \in Scopes : ScopeMoves(t)
    BY <2>1 DEF Reserving, ScopeMoves, CheckpointMoves, ObservationMoves
  <2> QED BY <2>1, <2>2, <2>3, KeptMoves DEF AllMove, OthersKept, Moves
<1>5. CASE Quiet
  BY <1>1, <1>5, QuietEffect
<1>6. ASSUME NEW c \in Captures, NEW e, NEW complete, Seal(c, e, captures[c].begin, complete) PROVE AllMove
  <2>1. /\ OthersKept(c) /\ Frozen(c) /\ captures[c].scope \in Scopes
        /\ captures[c].state = "preparing" /\ captures'[c].state = "sealed"
        /\ captures'[c].next = captures[c].begin /\ captures'[c].activation = captures[c].activation
        /\ \A t \in Scopes : /\ scopes'[t].checkpoint = scopes[t].checkpoint
                             /\ scopes'[t].initialized = scopes[t].initialized
                             /\ t # captures[c].scope =>
                                  scopes'[t].observedCanonical = scopes[t].observedCanonical
        /\ scopes'[captures[c].scope].observedCanonical =
             IF captures[c].track /\ captures[c].purpose = "publication" THEN c
             ELSE scopes[captures[c].scope].observedCanonical
    BY <1>6, SealEffect
  <2>2. UNCHANGED <<records, versions>>
    BY <1>6 DEF Seal
  <2>3. Sealing(c)
    BY <2>1, <2>2 DEF Sealing
  <2>4. \A t \in Scopes : ObservationMoves(t)
    BY <2>1, <2>2, <2>3 DEF ObservationMoves, SealsObservation
  <2> QED BY <2>1, <2>3, <2>4, KeptMoves DEF AllMove, OthersKept, Moves, ScopeMoves, CheckpointMoves
<1>7. ASSUME NEW c \in Captures, NEW e, NEW x \in Receipts, Activated(c, e, x) PROVE AllMove
  <2>1. /\ OthersKept(c) /\ Frozen(c) /\ captures[c].state = "sealed"
        /\ captures'[c].state \in {"activated", "completed"}
        /\ captures'[c].next = captures[c].next /\ captures'[c].activation = x /\ captures[c].scope \in Scopes
        /\ \A t \in Scopes : /\ scopes'[t].initialized = scopes[t].initialized
                             /\ scopes'[t].observedCanonical = scopes[t].observedCanonical
                             /\ t # captures[c].scope => scopes'[t].checkpoint = scopes[t].checkpoint
        /\ captures[c].purpose # "publication" =>
             scopes'[captures[c].scope].checkpoint = scopes[captures[c].scope].checkpoint
        /\ captures[c].purpose = "publication" =>
             scopes'[captures[c].scope].checkpoint = captures[c].next
    BY <1>7, ActivatedEffect
  <2>2. x # Null
    BY JournalAssumption
  <2>3. Settling(c)
    BY <2>1 DEF Settling
  <2>4. \A t \in Scopes : CheckpointMoves(t)
    BY <2>1, <2>2 DEF CheckpointMoves
  <2> QED BY <2>1, <2>3, <2>4, KeptMoves DEF AllMove, OthersKept, Moves, ScopeMoves, ObservationMoves
<1>8. ASSUME NEW c \in Captures, RawSettlement(c) PROVE AllMove
  <2>1. /\ OthersKept(c) /\ Frozen(c) /\ ScopesKept /\ captures'[c].next = captures[c].next
        /\ captures'[c].activation = captures[c].activation
        /\ captures'[c].state = captures[c].state
             \/ (captures'[c].state = "completed" /\ captures[c].activation # Null)
    BY <1>8, RawSettlementEffect
  <2>2. Settling(c)
    BY <2>1 DEF Settling, Rows, CaptureRow
  <2> QED BY <2>1, <2>2, KeptMoves, ScopeKeptMoves DEF AllMove, OthersKept, Moves, ScopesKept
<1>9. ASSUME NEW c \in Captures, NEW e \in Epochs,
             (\E x \in Receipts : Rejected(c, e, x)) \/ AbandonUnsealed(c, e)
      PROVE  AllMove
  <2>1. /\ OthersKept(c) /\ Frozen(c) /\ ScopesKept /\ captures[c].state \in Unactivated
        /\ captures'[c].state = "abandoned" /\ captures'[c].next = captures[c].next
        /\ captures'[c].activation = captures[c].activation
    BY <1>9, AbandonEffect
  <2>2. Settling(c)
    BY <2>1 DEF Settling, Unactivated
  <2> QED BY <2>1, <2>2, KeptMoves, ScopeKeptMoves DEF AllMove, OthersKept, Moves, ScopesKept
<1>10. ASSUME NEW s \in Scopes, NEW e, NEW c \in Captures, NEW R, NEW n, PruneRecords(s, e, c, R, n)
       PROVE  AllMove
  <2>1. /\ OthersKept(c) /\ Frozen(c) /\ ScopesKept /\ captures'[c].state = captures[c].state
        /\ captures'[c].next = captures[c].next /\ captures'[c].activation = captures[c].activation
    BY <1>10, PruneEffect
  <2>2. Settling(c)
    BY <2>1 DEF Settling
  <2> QED BY <2>1, <2>2, KeptMoves, ScopeKeptMoves DEF AllMove, OthersKept, Moves, ScopesKept
<1>11. CASE \E s \in Scopes, e \in Epochs, c \in Captures, x \in Attempts \cup {Null}, p \in Policies :
              Reserve(s, e, c, x, IF p.purpose = "publication" THEN IssuedFor[c] ELSE x,
                      p.purpose, p.raw, p.track)
  <2>1. PICK s \in Scopes, e \in Epochs, c \in Captures, x \in Attempts \cup {Null}, p \in Policies :
               Reserve(s, e, c, x, IF p.purpose = "publication" THEN IssuedFor[c] ELSE x,
                       p.purpose, p.raw, p.track)
    BY <1>11
  <2> DEFINE b == IF p.purpose = "publication" THEN IssuedFor[c] ELSE x
  <2>2. (p.purpose = "publication" => b = IssuedFor[c]) /\ Reserve(s, e, c, x, b, p.purpose, p.raw, p.track)
    BY <2>1
  <2>3. b \in Attempts
    <3>1. p.purpose \in {"publication", "raw-observation"} /\ IssuedFor[c] \in Attempts
      BY JournalAssumption
    <3>2. p.purpose = "raw-observation" => x # Null
      BY <2>1 DEF Reserve, Reservable
    <3> QED BY <3>1, <3>2
  <2> HIDE DEF b
  <2> QED BY <1>4, <2>2, <2>3
<1> QED BY <1>2, <1>3, <1>5, <1>6, <1>7, <1>8, <1>9, <1>10, <1>11, StepCases

\* Attempts are issued to one capture each.
LEMMA IssuedOnce ==
  /\ \A c \in Captures : IssuedFor[c] # Null
  /\ \A c, d \in Captures : IssuedFor[c] = IssuedFor[d] => c = d
BY JournalAssumption

LEMMA BegunNext == Rows /\ Begun /\ [Next]_vars => Begun'
<1> SUFFICES ASSUME Rows, Begun, [Next]_vars, NEW c \in Captures, captures'[c].state # "none"
             PROVE  /\ captures'[c].purpose = "publication" => captures'[c].begin = IssuedFor[c]
                    /\ captures'[c].state = "preparing" => captures'[c].next = Null
                    /\ captures'[c].next \in {Null, captures'[c].begin}
                    /\ captures'[c].activation # Null => captures'[c].next = captures'[c].begin
                    /\ captures'[c].state = "sealed" => captures'[c].next = captures'[c].begin
  BY DEF Begun
<1>1. CASE Created(c)
  BY <1>1 DEF Created
<1>2. CASE Sealing(c)
  BY <1>2 DEF Sealing, Frozen, Begun, Rows, CaptureRow
<1>3. CASE Settling(c)
  BY <1>3 DEF Settling, Frozen, Begun
<1> QED BY <1>1, <1>2, <1>3, StepMoves DEF Moves

LEMMA ChainedNext == Rows /\ Begun /\ Chained /\ [Next]_vars => Chained'
<1> SUFFICES ASSUME Rows, Begun, Chained, [Next]_vars, NEW a \in Captures
             PROVE  /\ \A s \in Scopes : scopes'[s].checkpoint = IssuedFor[a] => captures'[a].activation # Null
                    /\ \A c \in Captures :
                         captures'[c].state # "none" /\ captures'[c].expected = IssuedFor[a] =>
                           captures'[a].activation # Null
  BY DEF Chained
<1>1. captures[a].activation # Null => captures'[a].activation # Null
  BY CapturesProgress DEF Progress, Rows, CaptureRow
<1>2. ASSUME NEW s \in Scopes, scopes'[s].checkpoint = IssuedFor[a]
      PROVE  captures'[a].activation # Null
  <2>1. CheckpointMoves(s)
    BY StepMoves DEF ScopeMoves
  <2>2. ASSUME NEW c \in Captures, captures[c].state = "sealed", captures[c].purpose = "publication",
               captures'[c].activation # Null, scopes'[s].checkpoint = captures[c].next
        PROVE  captures'[a].activation # Null
    <3>1. captures[c].next = IssuedFor[c]
      BY <2>2 DEF Begun
    <3>2. c = a
      BY <1>2, <2>2, <3>1, IssuedOnce
    <3> QED BY <2>2, <3>2
  <2> QED BY <1>1, <1>2, <2>1, <2>2 DEF CheckpointMoves, Chained
<1>3. ASSUME NEW c \in Captures, captures'[c].state # "none", captures'[c].expected = IssuedFor[a]
      PROVE  captures'[a].activation # Null
  <2>1. CASE Created(c)
    BY <1>1, <1>3, <2>1 DEF Created, Chained
  <2>2. CASE Sealing(c) \/ Settling(c)
    BY <1>1, <1>3, <2>2 DEF Sealing, Settling, Frozen, Chained
  <2> QED BY <2>1, <2>2, StepMoves DEF Moves
<1> QED BY <1>2, <1>3

LEMMA TrackingNext == Rows /\ Chained /\ Tracking /\ [Next]_vars => Tracking'
<1> SUFFICES ASSUME Rows, Chained, Tracking, [Next]_vars,
                    NEW a \in Captures, captures'[a].state # "none", captures'[a].track
             PROVE  /\ scopes'[captures'[a].scope].initialized
                    /\ \A c \in Captures :
                         (captures'[c].state # "none" /\ captures'[c].scope = captures'[a].scope
                           /\ captures'[c].purpose = "publication"
                           /\ captures'[c].expected = IssuedFor[a]) => captures'[c].track
  BY DEF Tracking
<1>1. CASE Created(a)
  <2>1. ASSUME NEW c \in Captures, captures'[c].state # "none", captures'[c].expected = IssuedFor[a]
        PROVE  FALSE
    <3>1. captures[a].activation = Null
      BY <1>1 DEF Created, Rows, CaptureRow
    <3>2. CASE Created(c)
      BY <2>1, <3>1, <3>2 DEF Created, Chained
    <3>3. CASE Sealing(c) \/ Settling(c)
      BY <2>1, <3>1, <3>3 DEF Sealing, Settling, Frozen, Chained
    <3> QED BY <3>2, <3>3, StepMoves DEF Moves
  <2> QED BY <1>1, <2>1 DEF Created
<1>2. CASE Sealing(a) \/ Settling(a)
  <2>1. /\ captures[a].state # "none" /\ captures'[a].scope = captures[a].scope
        /\ captures[a].track /\ captures[a].scope \in Scopes
    BY <1>2 DEF Sealing, Settling, Frozen, Rows, CaptureRow
  <2>2. scopes[captures[a].scope].initialized /\ scopes'[captures[a].scope].initialized
    BY <2>1, StepMoves DEF Tracking, ScopeMoves
  <2>3. ASSUME NEW c \in Captures, captures'[c].state # "none", captures'[c].scope = captures'[a].scope,
               captures'[c].purpose = "publication", captures'[c].expected = IssuedFor[a]
        PROVE  captures'[c].track
    <3>1. CASE Created(c)
      BY <2>1, <2>2, <2>3, <3>1 DEF Created
    <3>2. CASE Sealing(c) \/ Settling(c)
      <4>1. Frozen(c) /\ captures[c].state # "none"
        BY <2>3, <3>2 DEF Sealing, Settling
      <4> QED BY <2>1, <2>3, <4>1 DEF Frozen, Tracking
    <3> QED BY <3>1, <3>2, StepMoves DEF Moves
  <2> QED BY <2>1, <2>2, <2>3
<1> QED BY <1>1, <1>2, StepMoves DEF Moves

\* What was sealed stays sealed.
LEMMA SealedStays ==
  ASSUME Rows, Begun, [Next]_vars, NEW x, SealedCapture(x)
  PROVE  SealedCapture(x)'
BY CapturesProgress DEF SealedCapture, Begun, Progress

LEMMA ObservationsNext ==
  Rows /\ Records /\ Versions /\ Begun /\ Observations /\ [Next]_vars => Observations'
<1> SUFFICES ASSUME Rows, Records, Versions, Begun, Observations, [Next]_vars
             PROVE  Observations'
  OBVIOUS
<1>1. ASSUME NEW s \in Scopes, scopes'[s].observedCanonical # Null
      PROVE  SealedCapture(scopes[s].observedCanonical)'
  <2>1. ASSUME NEW c \in Captures, captures[c].scope = s, SealsObservation(c)
        PROVE  SealedCapture(c)' /\ scopes'[s].observedCanonical = c
    <3>1. captures[c].begin # Null
      BY <2>1, IssuedOnce DEF SealsObservation, Sealing, Begun
    <3> QED BY <2>1, <3>1 DEF SealsObservation, Sealing, SealedCapture
  <2>2. ObservationMoves(s)
    BY StepMoves DEF ScopeMoves
  <2>3. CASE scopes'[s].observedCanonical = scopes[s].observedCanonical
    <3>1. SealedCapture(scopes[s].observedCanonical)
      BY <1>1, <2>3 DEF Observations
    <3>2. SealedCapture(scopes[s].observedCanonical)'
      BY <1>1, <2>3, <3>1, CapturesProgress DEF SealedCapture, Begun, Progress
    <3> QED BY <2>3, <3>2
  <2> QED BY <2>1, <2>2, <2>3 DEF ObservationMoves
<1>2. ASSUME NEW v \in RecordIds, v[2] = "event", versions'[v].rev # 0, versions'[v].comparison # Null
      PROVE  SealedCapture(versions[v].comparison)'
  <2>1. ASSUME NEW x, SealedCapture(x), versions'[v].comparison = x
        PROVE  SealedCapture(versions[v].comparison)'
    BY <2>1, CapturesProgress DEF SealedCapture, Begun, Progress
  <2>2. CASE versions'[v] = versions[v]
    BY <1>2, <2>1, <2>2 DEF Observations
  <2>3. ASSUME NEW c \in Captures, NEW k \in RecordKinds, NEW key \in KeysOf(k), NEW n,
               Recording(c, k, key, n), versions'[v] # versions[v]
        PROVE  SealedCapture(versions[v].comparison)'
    <3> DEFINE id == <<captures[c].scope, k, key>>
    <3>0. /\ captures[c].scope \in Scopes /\ versions'[id] = n
          /\ \A w \in RecordIds \ {id} : versions'[w] = versions[w]
      BY <2>3, RecordedVersion
    <3>1. id = v /\ captures[c].scope \in Scopes /\ versions'[v] = n /\ n # versions[v]
      BY <2>3, <3>0
    <3>2. n.comparison = scopes[captures[c].scope].observedCanonical
      BY <1>2, <2>3, <3>1 DEF Recording, Allocates, Confirms, LastComplete
    <3> QED BY <1>2, <2>1, <3>1, <3>2 DEF Observations
  <2> QED BY <2>2, <2>3, RecordsStep DEF RecordsFollow
<1> QED BY <1>1, <1>2 DEF Observations

\* A record is lost only with the capture it belongs to.
LEMMA RecordsSurvive ==
  ASSUME Rows, Records, [Next]_vars, NEW r \in records
  PROVE  captures'[r.capture].retired \/ \E w \in records' : SameObservation(w, r)
<1>1. SameObservation(r, r)
  BY DEF Records, RecordRowOK, SameObservation
<1> QED BY <1>1, RecordsStep DEF RecordsFollow, Recording

\* The record was dropped by the capture that this step seals.
DropsNow(r, c) ==
  /\ r.kind = "event" /\ c # r.capture
  /\ Sealing(c) /\ captures[c].purpose = "publication"
  /\ captures[c].scope = captures[r.capture].scope
  /\ captures[c].expected = IssuedFor[r.capture]
DroppedFrom(w, r, c) == SameObservation(w, r) /\ (Dropped(r, c) \/ DropsNow(r, c))

\* A record is dropped when the next publication is sealed, not later.
LEMMA DroppedStep ==
  ASSUME Rows, Records, Begun, Chained, [Next]_vars, NEW w \in records', NEW c \in Captures, Dropped(w, c)'
  PROVE  \E r \in records : DroppedFrom(w, r, c)
<1>1. ASSUME NEW r \in records, SameObservation(w, r) PROVE DroppedFrom(w, r, c)
  <2>1. /\ w.capture = r.capture /\ w.kind = r.kind /\ w.key = r.key
        /\ r.capture \in Captures /\ captures[r.capture].state # "none"
    BY <1>1 DEF SameObservation, Records, RecordRowOK
  <2>2. captures'[r.capture].scope = captures[r.capture].scope
    BY <2>1, CapturesProgress DEF Progress, Frozen
  <2>3. /\ r.kind = "event" /\ c # r.capture /\ captures'[c].purpose = "publication"
        /\ captures'[c].state # "none" /\ captures'[c].next # Null
        /\ captures'[c].scope = captures[r.capture].scope
        /\ captures'[c].expected = IssuedFor[r.capture]
        /\ ~captures'[c].retired /\ RecordOf(c, r.kind, r.key)' = {}
    BY <2>1, <2>2 DEF Dropped, SealedCapture
  <2>4. CASE Created(c)
    BY <2>3, <2>4 DEF Created
  <2>5. CASE Sealing(c)
    <3>1. DropsNow(r, c)
      BY <2>3, <2>5 DEF DropsNow, Sealing, Frozen
    <3> QED BY <1>1, <3>1 DEF DroppedFrom
  <2>6. CASE Settling(c)
    <3>1. /\ captures[c].state # "none" /\ captures[c].next # Null
          /\ captures[c].purpose = "publication" /\ captures[c].scope = captures[r.capture].scope
          /\ captures[c].expected = IssuedFor[r.capture]
      BY <2>3, <2>6 DEF Settling, Frozen
    <3>2. ~captures[c].retired
      BY <2>3, <3>1, CapturesProgress DEF Progress
    <3>3. RecordOf(c, r.kind, r.key) = {}
      <4>1. ASSUME NEW q \in RecordOf(c, r.kind, r.key) PROVE FALSE
        <5>1. q \in records /\ q.capture = c /\ q.kind = r.kind /\ q.key = r.key
          BY <4>1 DEF RecordOf, RecordsOf
        <5>2. PICK z \in records' : SameObservation(z, q)
          BY <2>3, <5>1, RecordsSurvive
        <5>3. z \in RecordOf(c, r.kind, r.key)'
          BY <5>1, <5>2 DEF SameObservation, RecordOf, RecordsOf
        <5> QED BY <2>3, <5>3
      <4> QED BY <4>1
    <3>4. Dropped(r, c)
      BY <2>3, <3>1, <3>2, <3>3 DEF Dropped, SealedCapture
    <3> QED BY <1>1, <3>4 DEF DroppedFrom
  <2> QED BY <2>4, <2>5, <2>6, StepMoves DEF Moves
<1>2. ASSUME NEW d \in Captures, NEW k \in RecordKinds, NEW key \in KeysOf(k), NEW v,
             Recording(d, k, key, v), w \notin records
      PROVE  FALSE
  <2>1. w.capture = d
    BY <1>2, RecordRowFields DEF Recording
  <2>2. captures[d].activation = Null
    BY <1>2 DEF Recording, Rows, CaptureRow
  <2>3. captures[c].state # "none" /\ captures[c].expected = IssuedFor[d]
    BY <1>2, <2>1 DEF Recording, Dropped, SealedCapture
  <2> QED BY <2>2, <2>3 DEF Chained
<1>3. \A r \in records : SameObservation(r, r)
  BY DEF Records, RecordRowOK, SameObservation
<1> QED BY <1>1, <1>2, <1>3, RecordsStep DEF RecordsFollow

\* The identity of a record, and its revision against the current one.
LEMMA RecordIdentity ==
  ASSUME Rows, Records, Versions, Identity, NEW r \in records
  PROVE  /\ captures[r.capture].scope \in Scopes /\ IdOf(r) \in RecordIds
         /\ r.rev \in Nat /\ versions[IdOf(r)].rev \in Nat /\ versions[IdOf(r)].rev # 0
         /\ r.rev <= versions[IdOf(r)].rev
<1>1. /\ captures[r.capture].scope \in Scopes /\ r.kind \in RecordKinds /\ r.key \in KeysOf(r.kind)
      /\ r.rev \in Nat /\ scopes[captures[r.capture].scope].floor \in Nat
  BY DEF Records, RecordRowOK, Rows, CaptureRow, ScopeRow
<1>2. IdOf(r) \in RecordIds
  BY <1>1, RecordIdOK DEF IdOf
<1>3. versions[IdOf(r)].rev \in Nat
  BY <1>2 DEF Versions
<1>4. r.rev > scopes[captures[r.capture].scope].floor /\ r.rev <= versions[IdOf(r)].rev
  BY DEF Identity, Sound
<1> QED BY <1>1, <1>2, <1>3, <1>4

\* An observation of a record that was dropped gets a greater revision.
LEMMA MarkedRenumbered ==
  ASSUME Rows, Records, Versions, Identity, NEW r \in records, Marked(r),
         NEW d \in Captures, NEW k \in RecordKinds, NEW key \in KeysOf(k), NEW v, Recording(d, k, key, v),
         IdOf(r) = <<captures[d].scope, k, key>>
  PROVE  v.rev > r.rev
<1> DEFINE id == <<captures[d].scope, k, key>>
<1>1. r.rev \in Nat /\ versions[id].rev \in Nat /\ r.rev <= versions[id].rev
  BY RecordIdentity
<1>2. v.rev \in Nat /\ (v = versions[id] \/ v.rev > versions[id].rev)
  BY RecordedVersion
<1>3. r.kind = k /\ r.key = key /\ captures[r.capture].scope = captures[d].scope
  BY DEF IdOf
<1>4. CASE versions[id].rev > r.rev
  BY <1>1, <1>2, <1>4
<1>5. CASE WasAbsent(captures[d].scope, k, key)
  <2>1. Allocates(d, k, key, v)
    BY <1>5 DEF Recording, Confirms
  <2>2. v.rev > versions[id].rev
    <3>1. v.rev = versions[id].rev + 1
      BY <1>1, <2>1, RecordIdentity DEF Allocates, NextRevision
    <3> QED BY <1>1, <3>1
  <2> QED BY <1>1, <1>2, <2>2
<1> QED BY <1>3, <1>4, <1>5 DEF Marked

\* The observation a record was dropped from stays one that lacks it.
LEMMA MarkedByObservation ==
  ASSUME Rows, Records, Versions, Identity, Begun, Observations, [Next]_vars,
         NEW r \in records, r.kind = "event", NEW c \in Captures, SealsObservation(c),
         captures[c].scope = captures[r.capture].scope, RecordOf(c, r.kind, r.key)' = {}
  PROVE  WasAbsent(captures[r.capture].scope, r.kind, r.key)'
<1> DEFINE s == captures[r.capture].scope
           id == <<s, r.kind, r.key>>
<1>1. s \in Scopes /\ id \in RecordIds /\ versions[id].rev # 0 /\ id[2] = "event"
  BY RecordIdentity DEF IdOf
<1>2. captures'[r.capture].scope = s
  BY CapturesProgress DEF Records, RecordRowOK, Progress, Frozen
<1>3. captures[c].next = Null /\ c # Null
  BY JournalAssumption DEF SealsObservation, Sealing, Begun
<1>4. scopes'[s].observedCanonical = c /\ versions' = versions
  BY DEF SealsObservation
<1>5. versions[id].comparison # c
  BY <1>1, <1>3 DEF Observations, SealedCapture
<1> QED BY <1>1, <1>2, <1>3, <1>4, <1>5 DEF WasAbsent, LastComplete

\* An observation that lacks a record keeps lacking it.
LEMMA AbsentStays ==
  ASSUME Rows, Records, Versions, Begun, Observations, [Next]_vars,
         NEW s \in Scopes, NEW key, WasAbsent(s, "event", key),
         versions'[<<s, "event", key>>] = versions[<<s, "event", key>>],
         scopes'[s].observedCanonical = scopes[s].observedCanonical
  PROVE  WasAbsent(s, "event", key)'
<1> DEFINE last == scopes[s].observedCanonical
<1>1. SealedCapture(last) /\ RecordOf(last, "event", key) = {}
  BY DEF WasAbsent, LastComplete, Observations
<1>2. ASSUME NEW z \in records', z.capture = last, z.kind = "event", z.key = key
      PROVE  FALSE
  <2>1. ASSUME NEW q \in records, SameObservation(z, q) PROVE FALSE
    BY <1>1, <1>2, <2>1 DEF SameObservation, RecordOf, RecordsOf
  <2>2. ASSUME NEW d \in Captures, NEW k \in RecordKinds, NEW ke \in KeysOf(k), NEW v,
               Recording(d, k, ke, v), z \notin records
        PROVE  FALSE
    <3>1. z.capture = d
      BY <2>2, RecordRowFields DEF Recording
    <3> QED BY <1>1, <1>2, <2>2, <3>1 DEF Recording, SealedCapture, Begun
  <2>3. \A r \in records : SameObservation(r, r)
    BY DEF Records, RecordRowOK, SameObservation
  <2> QED BY <2>1, <2>2, <2>3, RecordsStep DEF RecordsFollow
<1>3. RecordOf(scopes[s].observedCanonical, "event", key)' = {}
  BY <1>2 DEF RecordOf, RecordsOf
<1> QED BY <1>3 DEF WasAbsent, LastComplete

LEMMA RememberedNext ==
  Rows /\ Records /\ Versions /\ Identity /\ Reappearance /\ [Next]_vars => Remembered'
<1> SUFFICES ASSUME Rows, Records, Versions, Identity, Reappearance, [Next]_vars,
                    NEW w \in records', NEW c \in Captures, Dropped(w, c)'
             PROVE  Marked(w)'
  BY DEF Remembered
<1> USE DEF Reappearance
<1>1. PICK r \in records : DroppedFrom(w, r, c)
  BY DroppedStep
<1> DEFINE s == captures[r.capture].scope
           id == <<s, r.kind, r.key>>
<1>2. /\ w.capture = r.capture /\ w.kind = r.kind /\ w.key = r.key /\ w.rev = r.rev
      /\ r.kind = "event" /\ captures'[r.capture].scope = s /\ r.capture \in Captures
  <2>1. r.capture \in Captures /\ captures'[r.capture].scope = s
    BY CapturesProgress DEF Records, RecordRowOK, Progress, Frozen
  <2> QED BY <1>1, <2>1 DEF DroppedFrom, SameObservation, Dropped, DropsNow
<1>3. /\ s \in Scopes /\ id \in RecordIds /\ id = IdOf(r) /\ r.rev \in Nat
      /\ versions[id].rev \in Nat /\ r.rev <= versions[id].rev
  BY RecordIdentity DEF IdOf
<1>4. SUFFICES versions'[id].rev > r.rev \/ WasAbsent(s, r.kind, r.key)'
  BY <1>2 DEF Marked, IdOf, WasAbsent, LastComplete
<1>5. CASE Dropped(r, c)
  <2>1. Marked(r)
    BY <1>5 DEF Remembered
  <2>2. ASSUME NEW d \in Captures, NEW k \in RecordKinds, NEW key \in KeysOf(k), NEW v,
               Recording(d, k, key, v), id = <<captures[d].scope, k, key>>
        PROVE  versions'[id].rev > r.rev
    <3>1. v.rev > r.rev
      BY <1>3, <2>1, <2>2, MarkedRenumbered
    <3>2. versions'[<<captures[d].scope, k, key>>] = v
      BY <2>2, RecordedVersion
    <3> QED BY <2>2, <3>1, <3>2
  <2>3. ASSUME versions'[id] = versions[id], versions[id].rev <= r.rev
        PROVE  WasAbsent(s, r.kind, r.key)' \/ versions'[id].rev > r.rev
    <3>1. WasAbsent(s, "event", r.key)
      BY <1>2, <1>3, <2>1, <2>3 DEF Marked
    <3>2. CASE scopes'[s].observedCanonical = scopes[s].observedCanonical
      BY <1>2, <1>3, <2>3, <3>1, <3>2, AbsentStays
    <3>3. ASSUME NEW d \in Captures, captures[d].scope = s, SealsObservation(d),
                 RecordOf(d, r.kind, r.key)' # {}
          PROVE  FALSE
      <4>1. PICK q \in records' : q.capture = d /\ q.kind = r.kind /\ q.key = r.key
        BY <3>3 DEF RecordOf, RecordsOf
      <4>2. q \in records
        BY <3>3 DEF SealsObservation
      <4>3. d # c /\ captures[d].state \in Unactivated
        BY <1>5, <3>3 DEF SealsObservation, Sealing, Begun, Dropped, SealedCapture, Unactivated
      <4>4. SameRecord(r, q) /\ Later(q, c)
        BY <3>3, <4>1, <4>3 DEF SameRecord, Later
      <4>5. q.rev > r.rev
        BY <1>5, <4>2, <4>4 DEF Renumbered
      <4>6. q.rev \in Nat /\ q.rev <= versions[id].rev
        BY <3>3, <4>1, <4>2, RecordIdentity DEF IdOf
      <4> QED BY <1>3, <2>3, <4>5, <4>6
    <3>4. ASSUME NEW d \in Captures, captures[d].scope = s, SealsObservation(d),
                 RecordOf(d, r.kind, r.key)' = {}
          PROVE  WasAbsent(s, r.kind, r.key)'
      <4>1. WasAbsent(captures[r.capture].scope, r.kind, r.key)'
        BY <1>2, <3>4, MarkedByObservation
      <4> QED BY <1>2, <4>1 DEF WasAbsent, LastComplete
    <3>5. ObservationMoves(s)
      BY <1>3, StepMoves DEF ScopeMoves
    <3> QED BY <3>2, <3>3, <3>4, <3>5 DEF ObservationMoves
  <2>4. ASSUME versions'[id] = versions[id]
        PROVE  WasAbsent(s, r.kind, r.key)' \/ versions'[id].rev > r.rev
    BY <1>3, <2>3, <2>4
  <2>5. ASSUME NEW d \in Captures, NEW k \in RecordKinds, NEW key \in KeysOf(k), NEW v,
               Recording(d, k, key, v), id # <<captures[d].scope, k, key>>
        PROVE  versions'[id] = versions[id]
    <3> DEFINE n == <<captures[d].scope, k, key>>
    <3>1. n \in RecordIds /\ versions' = [versions EXCEPT ![n] = v]
      BY <2>5, RecordIdOK DEF Recording
    <3> HIDE DEF id, n
    <3>2. id # n
      BY <2>5 DEF n
    <3> QED BY <1>3, <3>1, <3>2 DEF Versions
  <2> HIDE DEF id
  <2> QED BY <2>2, <2>4, <2>5, RecordsStep DEF RecordsFollow
<1>6. CASE DropsNow(r, c)
  <2>1. captures[r.capture].state # "none" /\ captures[r.capture].track
    BY DEF Records
  <2>2. captures[c].track
    BY <1>2, <1>6, <2>1 DEF DropsNow, Sealing, Tracking
  <2>3. SealsObservation(c)
    BY <1>6, <2>2 DEF DropsNow, Sealing, SealsObservation
  <2>4. RecordOf(c, r.kind, r.key)' = {}
    BY <1>2 DEF Dropped
  <2>5. WasAbsent(captures[r.capture].scope, r.kind, r.key)'
    BY <1>2, <1>6, <2>3, <2>4, MarkedByObservation DEF DropsNow
  <2> QED BY <1>2, <2>5 DEF WasAbsent, LastComplete
<1> QED BY <1>1, <1>5, <1>6 DEF DroppedFrom

LEMMA RenumberedNext ==
  ASSUME Rows, Records, Versions, Identity, Reappearance, [Next]_vars,
         Rows', Chained', SettlementNeverConflicts'
  PROVE  Renumbered'
<1> SUFFICES ASSUME NEW w \in records', NEW z \in records', NEW c \in Captures,
                    Dropped(w, c)', SameRecord(w, z)', Later(z, c)'
             PROVE  z.rev > w.rev
  BY DEF Renumbered
<1> USE DEF Reappearance
<1>1. PICK r \in records : DroppedFrom(w, r, c)
  BY DroppedStep
<1> DEFINE s == captures[r.capture].scope
<1>2. /\ w.capture = r.capture /\ w.kind = r.kind /\ w.key = r.key /\ w.rev = r.rev
      /\ r.kind = "event" /\ captures'[r.capture].scope = s /\ r.capture \in Captures
  <2>1. r.capture \in Captures /\ captures'[r.capture].scope = s
    BY CapturesProgress DEF Records, RecordRowOK, Progress, Frozen
  <2> QED BY <1>1, <2>1 DEF DroppedFrom, SameObservation, Dropped, DropsNow
<1>3. z.kind = r.kind /\ z.key = r.key /\ captures'[z.capture].scope = s /\ z.capture # c
  BY <1>2 DEF SameRecord, Later
<1>4. CASE DropsNow(r, c)
  <2>1. /\ captures'[c].state = "sealed" /\ captures'[c].scope = s /\ z \in records
        /\ captures'[c].activation = Null
    BY <1>4 DEF DropsNow, Sealing, Frozen, Rows, CaptureRow
  <2>2. z.capture \in Captures /\ captures'[z.capture].state # "none"
    BY <2>1, CapturesProgress DEF Records, RecordRowOK, Progress
  <2>3. CASE captures'[z.capture].state \in Unactivated
    BY <1>3, <2>1, <2>2, <2>3 DEF SettlementNeverConflicts, CapturesOf, Unactivated
  <2>4. CASE captures'[z.capture].expected = IssuedFor[c]
    BY <2>1, <2>2, <2>4 DEF Chained
  <2> QED BY <2>3, <2>4 DEF Later
<1>5. CASE Dropped(r, c)
  <2>1. ASSUME NEW q \in records, SameObservation(z, q) PROVE z.rev > w.rev
    <3>1. /\ z.capture = q.capture /\ z.rev = q.rev /\ z.kind = q.kind /\ z.key = q.key
          /\ q.capture \in Captures /\ captures[q.capture].state # "none"
      BY <2>1 DEF SameObservation, Records, RecordRowOK
    <3>2. /\ captures'[q.capture].scope = captures[q.capture].scope
          /\ captures'[q.capture].expected = captures[q.capture].expected
          /\ captures'[q.capture].state \in Unactivated => captures[q.capture].state \in Unactivated
      BY <3>1, CapturesProgress DEF Progress, Frozen
    <3>3. SameRecord(r, q)
      BY <1>2, <1>3, <3>1, <3>2 DEF SameRecord
    <3>4. Later(q, c)
      BY <3>1, <3>2 DEF Later
    <3> QED BY <1>2, <1>5, <3>1, <3>3, <3>4 DEF Renumbered
  <2>2. ASSUME NEW d \in Captures, NEW k \in RecordKinds, NEW key \in KeysOf(k), NEW v,
               Recording(d, k, key, v), z \notin records
        PROVE  z.rev > w.rev
    <3>1. z.capture = d /\ z.kind = k /\ z.key = key /\ z.rev = v.rev /\ captures' = captures
      BY <2>2, RecordRowFields DEF Recording
    <3>2. IdOf(r) = <<captures[d].scope, k, key>>
      BY <1>3, <3>1 DEF IdOf
    <3>3. Marked(r)
      BY <1>5 DEF Remembered
    <3> QED BY <1>2, <2>2, <3>1, <3>2, <3>3, MarkedRenumbered
  <2>3. \A q \in records : SameObservation(q, q)
    BY DEF Records, RecordRowOK, SameObservation
  <2> QED BY <2>1, <2>2, <2>3, RecordsStep DEF RecordsFollow
<1> QED BY <1>1, <1>4, <1>5 DEF DroppedFrom

LEMMA ReappearanceNext ==
  /\ Rows /\ Records /\ Versions /\ Identity /\ Reappearance /\ [Next]_vars
  /\ Rows' /\ SettlementNeverConflicts'
  => Reappearance'
<1> SUFFICES ASSUME Rows, Records, Versions, Identity, Reappearance, [Next]_vars,
                    Rows', SettlementNeverConflicts'
             PROVE  Reappearance'
  OBVIOUS
<1>1. Begun /\ Chained /\ Tracking /\ Observations
  BY DEF Reappearance
<1>2. Begun' /\ Chained' /\ Tracking' /\ Observations'
  BY <1>1, BegunNext, ChainedNext, TrackingNext, ObservationsNext
<1>3. Remembered' /\ Renumbered'
  BY <1>2, RememberedNext, RenumberedNext
<1> QED BY <1>2, <1>3 DEF Reappearance

LEMMA ReappearanceInit == Init => Reappearance
<1> SUFFICES ASSUME Init PROVE Reappearance
  OBVIOUS
<1>1. /\ records = {} /\ \A c \in Captures : captures[c].state = "none"
      /\ \A s \in Scopes : scopes[s].checkpoint = Null /\ scopes[s].observedCanonical = Null
      /\ \A v \in RecordIds : versions[v].rev = 0
  BY DEF Init, NoCapture, NoScope, NoVersion
<1>2. Begun /\ Tracking /\ Observations /\ Remembered /\ Renumbered
  BY <1>1 DEF Begun, Tracking, Observations, Remembered, Renumbered
<1>3. Chained
  BY <1>1, IssuedOnce DEF Chained
<1> QED BY <1>2, <1>3 DEF Reappearance

LEMMA ReappearanceSuffices == Rows /\ Records /\ Reappearance => ReappearsAsNew
<1> SUFFICES ASSUME Rows, Records, Reappearance, NEW r \in records, NEW q \in records,
                    SameRecord(r, q), r.kind = "event", NEW c \in Captures,
                    Follows(r.capture, c), Follows(c, q.capture), ~captures[c].retired,
                    RecordOf(c, r.kind, r.key) = {}
             PROVE  q.rev > r.rev
  BY DEF ReappearsAsNew
<1>1. r.capture \in Captures /\ captures[r.capture].state # "none"
  BY DEF Records, RecordRowOK
<1>2. captures[c].state # "none"
  BY DEF Follows, Rows, CaptureRow
<1>3. captures[r.capture].next = IssuedFor[r.capture] /\ captures[c].next = IssuedFor[c]
  BY <1>1, <1>2 DEF Follows, Reappearance, Begun
<1>4. Dropped(r, c)
  BY <1>2, <1>3, IssuedOnce DEF Follows, Dropped, SealedCapture
<1>5. Later(q, c)
  BY <1>3 DEF Follows, Later
<1> QED BY <1>4, <1>5 DEF Reappearance, Renumbered

\* A record that one published capture dropped and a later one brought back is
\* published under a greater revision, also when captures in between were
\* abandoned or pruned.
THEOREM DroppedRecordsReappearAsNew == Spec => []ReappearsAsNew
<1>1. Spec => []Identity
  <2>1. Identity <=> VersionIdentity
    BY IdentityEquivalent
  <2> QED BY <2>1, VersionsIdentify, PTL
<1> QED BY <1>1, ReappearanceInit, ReappearanceNext, ReappearanceSuffices, RowsCorrect, RecordsCorrect,
           SettlementIsSafe, PTL DEF Spec

-----------------------------------------------------------------------------
(* Bytes.  Units are told apart by their key; the counters are the sums of *)
(* the bytes of the rows that exist.                                       *)

Key(u) == <<u.capture, u.kind, u.ordinal>>
UnitMeasured(u) == u.ordinal \in Nat /\ u.bytes \in Nat /\ u.body \in BOOLEAN
Keyed(U) ==
  /\ IsFiniteSet(U)
  /\ \A u \in U : UnitMeasured(u)
  /\ \A u, w \in U : Key(u) = Key(w) => u = w

\* The rows of one capture, and the ordinals of one of its channels.
OwnedBy(U, c) == {u \in U : u.capture = c}
Channel(U, c, k) == {u \in U : u.capture = c /\ u.kind = k}
Ordinals(U, c, k) == {u.ordinal : u \in Channel(U, c, k)}

\* The next unit of a channel has the number of its units as its ordinal: the
\* stored ordinals are below that number.
Numbered(U) ==
  \A c \in Captures, k \in UnitKinds : \A n \in Ordinals(U, c, k) : n < Cardinality(Ordinals(U, c, k))

\* A channel has as many units as ordinals.
LEMMA ChannelCount ==
  ASSUME NEW U, Keyed(U), NEW c, NEW k
  PROVE  /\ IsFiniteSet(Channel(U, c, k))
         /\ Cardinality(Channel(U, c, k)) = Cardinality(Ordinals(U, c, k))
         /\ Cardinality(Channel(U, c, k)) \in Nat
<1>1. IsFiniteSet(Channel(U, c, k))
  BY FS_Subset DEF Keyed, Channel
<1> DEFINE f == [u \in Channel(U, c, k) |-> u.ordinal]
<1>2. f \in Surjection(Channel(U, c, k), Ordinals(U, c, k))
  BY DEF Surjection, Ordinals
<1>3. f \in Injection(Channel(U, c, k), Ordinals(U, c, k))
  <2>1. \A u, w \in Channel(U, c, k) : u.ordinal = w.ordinal => u = w
    BY DEF Channel, Keyed, Key
  <2> QED BY <1>2, <2>1 DEF Injection, Surjection, IsInjective
<1>4. f \in Bijection(Channel(U, c, k), Ordinals(U, c, k))
  BY <1>2, <1>3 DEF Bijection
<1> HIDE DEF f
<1>5. ExistsBijection(Channel(U, c, k), Ordinals(U, c, k))
  BY <1>4 DEF ExistsBijection
<1> QED BY <1>1, <1>5, FS_Bijection, FS_CardinalityType

\* A row for the same unit, with the same bytes.
SameUnit(w, u) ==
  /\ w.capture = u.capture /\ w.kind = u.kind /\ w.ordinal = u.ordinal
  /\ w.bytes = u.bytes /\ w.body \in BOOLEAN

\* Rewriting rows in place keeps keys and ordinals.
LEMMA RenewedKeyed ==
  ASSUME NEW U, NEW n, Keyed(U), \A u \in U : SameUnit(n[u], u)
  PROVE  /\ Keyed({n[u] : u \in U})
         /\ \A c, k : Ordinals({n[u] : u \in U}, c, k) = Ordinals(U, c, k)
         /\ Numbered(U) => Numbered({n[u] : u \in U})
<1> DEFINE W == {n[u] : u \in U}
<1>1. IsFiniteSet(W)
  <2> DEFINE f == [u \in U |-> n[u]]
  <2>1. f \in Surjection(U, W)
    BY DEF Surjection
  <2> QED BY <2>1, FS_Surjection DEF Keyed
<1>2. \A w \in W : UnitMeasured(w)
  BY DEF Keyed, UnitMeasured, SameUnit
<1>3. \A v, w \in W : Key(v) = Key(w) => v = w
  BY DEF Keyed, Key, SameUnit
<1>4. ASSUME NEW c, NEW k PROVE Ordinals(W, c, k) = Ordinals(U, c, k)
  <2>1. \A o \in Ordinals(W, c, k) : o \in Ordinals(U, c, k)
    BY DEF Ordinals, Channel, SameUnit
  <2>2. ASSUME NEW u \in U, u.capture = c, u.kind = k PROVE u.ordinal \in Ordinals(W, c, k)
    <3>1. n[u] \in W /\ n[u].capture = c /\ n[u].kind = k /\ n[u].ordinal = u.ordinal
      BY <2>2 DEF SameUnit
    <3> HIDE DEF W
    <3> QED BY <3>1 DEF Ordinals, Channel
  <2>3. \A o \in Ordinals(U, c, k) : o \in Ordinals(W, c, k)
    BY <2>2 DEF Ordinals, Channel
  <2> QED BY <2>1, <2>3
<1> HIDE DEF W
<1>5. Keyed(W) /\ (\A c, k : Ordinals(W, c, k) = Ordinals(U, c, k)) /\ (Numbered(U) => Numbered(W))
  BY <1>1, <1>2, <1>3, <1>4 DEF Keyed, Numbered
<1> QED BY <1>5 DEF W

\* The bytes of a set of rows.
LEMMA BytesAre ==
  ASSUME NEW U, Keyed(U), NEW V \in SUBSET U
  PROVE  /\ IsFiniteSet(V) /\ Keyed(V) /\ UnitBytes(V) \in Nat /\ BytesOf(V) \in Nat
         /\ UnitBytes(V) = SumFunctionOnSet([u \in U |-> u.bytes], V)
<1>1. IsFiniteSet(V) /\ Keyed(V) /\ IsFiniteSet({u \in V : u.body})
  BY FS_Subset DEF Keyed
<1>2. ASSUME NEW T \in SUBSET U, IsFiniteSet(T)
      PROVE  /\ UnitBytes(T) \in Nat
             /\ UnitBytes(T) = SumFunctionOnSet([u \in U |-> u.bytes], T)
  <2>1. UnitBytes(T) = SumFunctionOnSet([u \in T |-> u.bytes], T)
    BY SumOverDomain DEF UnitBytes
  <2>2. \A u \in T : [x \in T |-> x.bytes][u] = [x \in U |-> x.bytes][u]
    OBVIOUS
  <2>3. SumFunctionOnSet([u \in T |-> u.bytes], T) = SumFunctionOnSet([u \in U |-> u.bytes], T)
    BY <1>2, <2>2, SumAgree
  <2>4. \A u \in T : [x \in T |-> x.bytes][u] \in Nat
    BY DEF Keyed, UnitMeasured
  <2>5. SumFunctionOnSet([u \in T |-> u.bytes], T) \in Nat
    BY <1>2, <2>4, SumNat
  <2> QED BY <2>1, <2>3, <2>5
<1>3. {u \in V : u.body} \in SUBSET U
  OBVIOUS
<1> QED BY <1>1, <1>2, <1>3 DEF BytesOf

\* Settling a unit keeps its content, and so the bytes.
LEMMA RenewedBytes ==
  ASSUME NEW U, NEW n, Keyed(U), \A u \in U : SameUnit(n[u], u) /\ n[u].body = u.body,
         NEW V \in SUBSET U
  PROVE  BytesOf({n[u] : u \in V}) = BytesOf(V)
<1> DEFINE B == {u \in V : u.body}
           W == {n[u] : u \in B}
           f == [u \in B |-> u.bytes]
           g == [w \in W |-> w.bytes]
<1>1. {w \in {n[u] : u \in V} : w.body} = W
  BY DEF SameUnit
<1>2. IsFiniteSet(B)
  BY FS_Subset DEF Keyed
<1>3. Renames(B, n, f, g)
  <2>1. \A x, y \in B : n[x] = n[y] => x = y
    BY DEF SameUnit, Keyed, Key
  <2>2. \A x \in B : g[n[x]] = n[x].bytes /\ f[x] = x.bytes /\ n[x].bytes = x.bytes /\ x.bytes \in Int
    BY DEF SameUnit, Keyed, UnitMeasured
  <2> QED BY <2>1, <2>2 DEF Renames
<1>4. SumFunctionOnSet(f, B) = SumFunctionOnSet(g, W)
  <2> HIDE DEF B, f, g
  <2> QED BY <1>2, <1>3, SumRenamed
<1>5. UnitBytes(B) = SumFunctionOnSet(f, B) /\ UnitBytes(W) = SumFunctionOnSet(g, W)
  BY SumOverDomain DEF UnitBytes
<1> HIDE DEF W, B, f, g
<1>6. BytesOf({n[u] : u \in V}) = UnitBytes(W)
  BY <1>1, Zenon DEF BytesOf
<1>7. BytesOf(V) = UnitBytes(B)
  BY DEF BytesOf, B
<1> QED BY <1>4, <1>5, <1>6, <1>7

\* Dropping the content of the rows R takes their bytes away.
LEMMA DroppedBytes ==
  ASSUME NEW V, Keyed(V), NEW R \in SUBSET {u \in V : u.body}
  PROVE  /\ UnitBytes(R) \in Nat
         /\ UnitBytes({u \in V : u.body} \ R) = BytesOf(V) - UnitBytes(R)
<1> DEFINE B == {u \in V : u.body}
           f == [u \in V |-> u.bytes]
<1>1. B \in SUBSET V /\ R \in SUBSET V /\ B \ R \in SUBSET V
  OBVIOUS
<1>2. /\ IsFiniteSet(B) /\ UnitBytes(B) = SumFunctionOnSet(f, B)
      /\ UnitBytes(R) = SumFunctionOnSet(f, R) /\ UnitBytes(R) \in Nat
      /\ UnitBytes(B \ R) = SumFunctionOnSet(f, B \ R) /\ UnitBytes(B \ R) \in Nat
  <2> HIDE DEF B
  <2> QED BY <1>1, BytesAre
<1>3. \A u \in B : f[u] \in Int
  BY DEF Keyed, UnitMeasured
<1> HIDE DEF f
<1>4. SumFunctionOnSet(f, B) = SumFunctionOnSet(f, R) + SumFunctionOnSet(f, B \ R)
  <2> HIDE DEF B
  <2>1. R \in SUBSET B
    BY DEF B
  <2> QED BY <1>2, <1>3, <2>1, SumSplit
<1>5. BytesOf(V) = UnitBytes(B)
  BY DEF BytesOf
<1> QED BY <1>2, <1>4, <1>5

\* An appended unit adds its bytes.
LEMMA AddedBytes ==
  ASSUME NEW V, NEW w, Keyed(V \cup {w}), w \notin V, w.body
  PROVE  BytesOf(V \cup {w}) = BytesOf(V) + w.bytes
<1> DEFINE U == V \cup {w}
           f == [u \in U |-> u.bytes]
           B == {u \in V : u.body}
<1>1. {u \in U : u.body} = B \cup {w} /\ w \notin B
  OBVIOUS
<1>2. B \in SUBSET U /\ B \cup {w} \in SUBSET U
  OBVIOUS
<1>3. /\ IsFiniteSet(B) /\ UnitBytes(B) = SumFunctionOnSet(f, B) /\ UnitBytes(B) \in Nat
      /\ UnitBytes(B \cup {w}) = SumFunctionOnSet(f, B \cup {w})
  <2> HIDE DEF B, U
  <2>1. Keyed(U)
    BY DEF U
  <2> QED BY <1>2, <2>1, BytesAre
<1>4. (\A y \in B \cup {w} : f[y] \in Int) /\ f[w] = w.bytes /\ w.bytes \in Int
  BY DEF Keyed, UnitMeasured
<1> HIDE DEF f
<1>5. SumFunctionOnSet(f, B \cup {w}) = f[w] + SumFunctionOnSet(f, B)
  <2> HIDE DEF B
  <2> QED BY <1>1, <1>3, <1>4, SumAdd
<1>6. BytesOf(U) = UnitBytes(B \cup {w}) /\ BytesOf(V) = UnitBytes(B)
  <2>1. BytesOf(V) = UnitBytes(B)
    BY DEF BytesOf
  <2>2. BytesOf(U) = UnitBytes({u \in U : u.body})
    BY DEF BytesOf
  <2> QED BY <2>1, <2>2, <1>1
<1> QED BY <1>3, <1>4, <1>5, <1>6

-----------------------------------------------------------------------------
(* Metadata                                                                *)

ScopeMetered(r) ==
  /\ r.epoch \in Nat /\ r.baseline \in Nat
  /\ ~r.adopted \/ r.epoch = 0 => r.baseline = 0
CaptureMetered(r) == r.header \in Nat /\ (r.state = "none" => r.header = 0)

\* What is not stored has no bytes, and finitely many rows are stored.
Metered ==
  /\ IsFiniteSet(ScopeRows) /\ \A s \in Scopes : ScopeMetered(scopes[s])
  /\ IsFiniteSet(CaptureRows) /\ \A c \in Captures : CaptureMetered(captures[c])

BaselineBytes == SumFunction([s \in ScopeRows |-> scopes[s].baseline])
HeaderBytes == SumFunction([c \in CaptureRows |-> captures[c].header])

\* A step keeps or clears the metadata of every row, except that row x may be
\* new or may have got b bytes.
ScopesRaised(x, b) ==
  \A s \in Scopes :
    /\ ScopeMetered(scopes'[s])
    /\ scopes[s].epoch # 0 => scopes'[s].epoch # 0
    /\ s # x => scopes'[s].baseline <= scopes[s].baseline /\ (scopes'[s].epoch # 0 => scopes[s].epoch # 0)
    /\ scopes'[s].baseline <= scopes[s].baseline + b
CapturesRaised(x, b) ==
  \A c \in Captures :
    /\ CaptureMetered(captures'[c])
    /\ captures[c].state # "none" => captures'[c].state # "none"
    /\ c # x => captures'[c].header <= captures[c].header
                  /\ (captures'[c].state # "none" => captures[c].state # "none")
    /\ captures'[c].header <= captures[c].header + b

LEMMA BaselineSum ==
  ASSUME NEW r, NEW T, IsFiniteSet(T), NEW S \in SUBSET T
  PROVE  SumFunction([s \in S |-> r[s].baseline]) = SumFunctionOnSet([s \in T |-> r[s].baseline], S)
<1> DEFINE f == [s \in S |-> r[s].baseline]
           g == [s \in T |-> r[s].baseline]
<1>1. SumFunction(f) = SumFunctionOnSet(f, S)
  BY SumOverDomain
<1>2. \A s \in S : f[s] = g[s]
  OBVIOUS
<1> HIDE DEF f, g
<1>3. SumFunctionOnSet(f, S) = SumFunctionOnSet(g, S)
  BY <1>2, FS_Subset, SumAgree
<1> QED BY <1>1, <1>3 DEF f, g

LEMMA HeaderSum ==
  ASSUME NEW r, NEW T, IsFiniteSet(T), NEW S \in SUBSET T
  PROVE  SumFunction([c \in S |-> r[c].header]) = SumFunctionOnSet([c \in T |-> r[c].header], S)
<1> DEFINE f == [c \in S |-> r[c].header]
           g == [c \in T |-> r[c].header]
<1>1. SumFunction(f) = SumFunctionOnSet(f, S)
  BY SumOverDomain
<1>2. \A c \in S : f[c] = g[c]
  OBVIOUS
<1> HIDE DEF f, g
<1>3. SumFunctionOnSet(f, S) = SumFunctionOnSet(g, S)
  BY <1>2, FS_Subset, SumAgree
<1> QED BY <1>1, <1>3 DEF f, g

LEMMA BaselinesRaised ==
  ASSUME Metered, NEW x, NEW b \in Nat, ScopesRaised(x, b)
  PROVE  /\ IsFiniteSet(ScopeRows)' /\ (\A s \in Scopes : ScopeMetered(scopes[s]))'
         /\ BaselineBytes \in Nat /\ BaselineBytes' \in Nat
         /\ BaselineBytes' <= BaselineBytes + b
<1> DEFINE S == ScopeRows
           T == ScopeRows'
           f == [s \in T |-> scopes[s].baseline]
           g == [s \in T |-> scopes'[s].baseline]
<1>1. T = {s \in Scopes : scopes'[s].epoch # 0} /\ S = {s \in Scopes : scopes[s].epoch # 0}
  BY DEF ScopeRows
<1>2. S \subseteq T /\ T \subseteq S \cup {x}
  BY <1>1 DEF ScopesRaised
<1>3. IsFiniteSet(T)
  BY <1>2, FS_AddElement, FS_Subset DEF Metered
<1>4. Raised(f, g, S, T, x, b)
  <2>1. \A s \in T : /\ f[s] = scopes[s].baseline /\ f[s] \in Nat
                     /\ g[s] = scopes'[s].baseline /\ g[s] \in Nat
                     /\ s \notin S => f[s] = 0
                     /\ s # x => g[s] <= f[s]
                     /\ g[s] <= f[s] + b
    BY <1>1 DEF Metered, ScopesRaised, ScopeMetered
  <2> HIDE DEF f, g, S, T
  <2> QED BY <1>2, <1>3, <2>1 DEF Raised
<1>5. BaselineBytes = SumFunctionOnSet(f, S)
  <2> HIDE DEF T
  <2>1. S \in SUBSET T
    BY <1>2
  <2> QED BY <1>3, <2>1, BaselineSum DEF BaselineBytes
<1>6. BaselineBytes' = SumFunctionOnSet(g, T)
  <2>1. BaselineBytes' = SumFunction([s \in T |-> scopes'[s].baseline])
    BY DEF BaselineBytes
  <2>2. T \in SUBSET T
    OBVIOUS
  <2> HIDE DEF T
  <2> QED BY <1>3, <2>1, <2>2, BaselineSum
<1>7. \A s \in Scopes : ScopeMetered(scopes'[s])
  BY DEF ScopesRaised
<1>8. IsFiniteSet(ScopeRows')
  BY <1>3
<1> HIDE DEF f, g, S, T
<1>9. /\ SumFunctionOnSet(f, S) \in Nat /\ SumFunctionOnSet(g, T) \in Nat
      /\ SumFunctionOnSet(g, T) <= SumFunctionOnSet(f, S) + b
  BY <1>4, SumRaised
<1> QED BY <1>5, <1>6, <1>7, <1>8, <1>9

LEMMA HeadersRaised ==
  ASSUME Metered, NEW x, NEW b \in Nat, CapturesRaised(x, b)
  PROVE  /\ IsFiniteSet(CaptureRows)' /\ (\A c \in Captures : CaptureMetered(captures[c]))'
         /\ HeaderBytes \in Nat /\ HeaderBytes' \in Nat
         /\ HeaderBytes' <= HeaderBytes + b
<1> DEFINE S == CaptureRows
           T == CaptureRows'
           f == [c \in T |-> captures[c].header]
           g == [c \in T |-> captures'[c].header]
<1>1. T = {c \in Captures : captures'[c].state # "none"} /\ S = {c \in Captures : captures[c].state # "none"}
  BY DEF CaptureRows
<1>2. S \subseteq T /\ T \subseteq S \cup {x}
  BY <1>1 DEF CapturesRaised
<1>3. IsFiniteSet(T)
  BY <1>2, FS_AddElement, FS_Subset DEF Metered
<1>4. Raised(f, g, S, T, x, b)
  <2>1. \A c \in T : /\ f[c] = captures[c].header /\ f[c] \in Nat
                     /\ g[c] = captures'[c].header /\ g[c] \in Nat
                     /\ c \notin S => f[c] = 0
                     /\ c # x => g[c] <= f[c]
                     /\ g[c] <= f[c] + b
    BY <1>1 DEF Metered, CapturesRaised, CaptureMetered
  <2> HIDE DEF f, g, S, T
  <2> QED BY <1>2, <1>3, <2>1 DEF Raised
<1>5. HeaderBytes = SumFunctionOnSet(f, S)
  <2> HIDE DEF T
  <2>1. S \in SUBSET T
    BY <1>2
  <2> QED BY <1>3, <2>1, HeaderSum DEF HeaderBytes
<1>6. HeaderBytes' = SumFunctionOnSet(g, T)
  <2>1. HeaderBytes' = SumFunction([c \in T |-> captures'[c].header])
    BY DEF HeaderBytes
  <2>2. T \in SUBSET T
    OBVIOUS
  <2> HIDE DEF T
  <2> QED BY <1>3, <2>1, <2>2, HeaderSum
<1>7. \A c \in Captures : CaptureMetered(captures'[c])
  BY DEF CapturesRaised
<1>8. IsFiniteSet(CaptureRows')
  BY <1>3
<1> HIDE DEF f, g, S, T
<1>9. /\ SumFunctionOnSet(f, S) \in Nat /\ SumFunctionOnSet(g, T) \in Nat
      /\ SumFunctionOnSet(g, T) <= SumFunctionOnSet(f, S) + b
  BY <1>4, SumRaised
<1> QED BY <1>5, <1>6, <1>7, <1>8, <1>9

-----------------------------------------------------------------------------
(* What the steps do to the counters                                       *)

\* The step may add n bytes of metadata, and no content.
MetadataAdds(n) ==
  /\ Metered' /\ MetadataBytes \in Nat /\ MetadataBytes' \in Nat
  /\ MetadataBytes' <= MetadataBytes + n

LEMMA MetadataRaised ==
  ASSUME Metered, NEW x, NEW y, NEW a \in Nat, NEW b \in Nat, ScopesRaised(x, a), CapturesRaised(y, b)
  PROVE  MetadataAdds(a + b)
<1>1. /\ IsFiniteSet(ScopeRows)' /\ (\A s \in Scopes : ScopeMetered(scopes[s]))'
      /\ BaselineBytes \in Nat /\ BaselineBytes' \in Nat
      /\ BaselineBytes' <= BaselineBytes + a
  BY BaselinesRaised
<1>2. /\ IsFiniteSet(CaptureRows)' /\ (\A c \in Captures : CaptureMetered(captures[c]))'
      /\ HeaderBytes \in Nat /\ HeaderBytes' \in Nat
      /\ HeaderBytes' <= HeaderBytes + b
  BY HeadersRaised
<1>3. MetadataBytes = BaselineBytes + HeaderBytes
  BY DEF MetadataBytes, BaselineBytes, HeaderBytes
<1>4. MetadataBytes' = BaselineBytes' + HeaderBytes'
  BY DEF MetadataBytes, BaselineBytes, HeaderBytes
<1>5. Metered'
  BY <1>1, <1>2 DEF Metered
<1>6. \A p, q, u, v \in Nat : u <= p + a /\ v <= q + b =>
        p + q \in Nat /\ u + v \in Nat /\ u + v <= (p + q) + (a + b)
  OBVIOUS
<1>7. /\ MetadataBytes \in Nat /\ MetadataBytes' \in Nat
      /\ MetadataBytes' <= MetadataBytes + (a + b)
  BY <1>1, <1>2, <1>3, <1>4, <1>6
<1> QED BY <1>5, <1>7 DEF MetadataAdds

LEMMA SameScopes ==
  ASSUME Metered, scopes' = scopes, NEW x
  PROVE  ScopesRaised(x, 0)
BY DEF Metered, ScopesRaised, ScopeMetered

LEMMA SameCaptures ==
  ASSUME Metered, captures' = captures, NEW x
  PROVE  CapturesRaised(x, 0)
BY DEF Metered, CapturesRaised, CaptureMetered

\* The counter of a capture's content stays what it is.
RetainedKept == retained' = retained /\ \A c \in Captures : captures'[c].retained = captures[c].retained

LEMMA ClaimMeters ==
  ASSUME Rows, Metered, NEW s \in Scopes, Claim(s)
  PROVE  MetadataAdds(0) /\ RetainedKept
<1>1. ScopesRaised(s, 0)
  BY DEF Claim, Rows, ScopeRow, ScopeFields, Metered, ScopesRaised, ScopeMetered
<1>2. CapturesRaised(s, 0)
  BY SameCaptures DEF Claim
<1>3. RetainedKept
  BY DEF Claim, RetainedKept
<1> QED BY <1>1, <1>2, <1>3, MetadataRaised

LEMMA AdoptMeters ==
  ASSUME Rows, Metered, NEW s \in Scopes, NEW e \in Epochs, NEW f, NEW b \in MetadataSizes, AdoptBaseline(s, e, f, b)
  PROVE  b \in Nat /\ MetadataAdds(b) /\ Capacity(b) /\ RetainedKept
<1>1. b \in Nat
  BY JournalAssumption
<1>2. ScopesRaised(s, b)
  BY <1>1 DEF AdoptBaseline, OwnerScope, Rows, ScopeRow, ScopeFields, Metered, ScopesRaised, ScopeMetered
<1>3. CapturesRaised(s, 0)
  BY SameCaptures DEF AdoptBaseline
<1>4. RetainedKept /\ Capacity(b)
  BY DEF AdoptBaseline, RetainedKept
<1>5. MetadataAdds(b + 0) /\ b + 0 = b
  BY <1>1, <1>2, <1>3, MetadataRaised
<1> QED BY <1>1, <1>4, <1>5

\* A new capture has neither metadata nor content.
LEMMA ReserveMeters ==
  ASSUME Rows, Metered, NEW s \in Scopes, NEW e, NEW c \in Captures, NEW x, NEW b,
         NEW purpose, NEW raw, NEW track, Reserve(s, e, c, x, b, purpose, raw, track)
  PROVE  /\ MetadataAdds(0) /\ retained' = retained
         /\ captures[c].state = "none" /\ captures'[c].retained = 0
         /\ \A d \in Captures \ {c} : captures'[d].retained = captures[d].retained
<1>1. DOMAIN NoCapture = CaptureFields /\ NoCapture.header = 0 /\ NoCapture.retained = 0
  BY DEF NoCapture, CaptureFields
<1>2. /\ captures'[c].state = "preparing" /\ captures'[c].header = 0 /\ captures'[c].retained = 0
      /\ captures[c].state = "none"
      /\ \A d \in Captures \ {c} : captures'[d] = captures[d]
  BY <1>1 DEF Reserve, Reservable, Rows, CaptureFields
<1>3. CapturesRaised(c, 0)
  BY <1>2 DEF Metered, CapturesRaised, CaptureMetered
<1>4. ScopesRaised(s, 0)
  BY DEF Reserve, Rows, ScopeRow, ScopeFields, Metered, ScopesRaised, ScopeMetered
<1>5. MetadataAdds(0)
  BY <1>3, <1>4, MetadataRaised
<1> QED BY <1>2, <1>5 DEF Reserve

LEMMA HeaderMeters ==
  ASSUME Rows, Metered, NEW c \in Captures, NEW e, NEW b \in MetadataSizes, SetSourceMetadata(c, e, b)
  PROVE  b \in Nat /\ MetadataAdds(b) /\ Capacity(b) /\ RetainedKept
<1>1. b \in Nat
  BY JournalAssumption
<1>2. /\ captures'[c].state = captures[c].state /\ captures'[c].header = b
      /\ captures'[c].retained = captures[c].retained
      /\ captures[c].state # "none" /\ captures[c].header = 0
      /\ \A d \in Captures \ {c} : captures'[d] = captures[d]
  BY DEF SetSourceMetadata, Owned, Rows, CaptureRow, CaptureFields
<1>3. CapturesRaised(c, b)
  BY <1>1, <1>2 DEF Metered, CapturesRaised, CaptureMetered
<1>4. ScopesRaised(c, 0)
  BY SameScopes DEF SetSourceMetadata
<1>5. MetadataAdds(0 + b) /\ 0 + b = b
  BY <1>1, <1>3, <1>4, MetadataRaised
<1>6. RetainedKept /\ Capacity(b)
  BY <1>2 DEF SetSourceMetadata, RetainedKept
<1> QED BY <1>1, <1>5, <1>6

\* A step that leaves the headers, or clears some, and reserves nothing.
LEMMA HeadersKept ==
  ASSUME Metered, scopes' = scopes,
         \A d \in Captures : /\ captures'[d].header = captures[d].header \/ captures'[d].header = 0
                             /\ captures'[d].state = "none" <=> captures[d].state = "none"
  PROVE  MetadataAdds(0)
<1>1. ASSUME NEW x PROVE CapturesRaised(x, 0)
  BY DEF Metered, CapturesRaised, CaptureMetered
<1> QED BY <1>1, SameScopes, MetadataRaised

LEMMA AppendMeters ==
  ASSUME Rows, Metered, NEW c \in Captures, NEW e, NEW k, NEW b, Append(c, e, k, b)
  PROVE  /\ MetadataAdds(0) /\ retained' = retained + b /\ Capacity(b)
         /\ captures'[c].retained = captures[c].retained + b
         /\ \A d \in Captures \ {c} : captures'[d].retained = captures[d].retained
<1>1. /\ captures'[c].state = captures[c].state /\ captures'[c].header = captures[c].header
      /\ captures'[c].retained = captures[c].retained + b
      /\ \A d \in Captures \ {c} : captures'[d] = captures[d]
  BY DEF Append, Rows, CaptureRow, CaptureFields
<1>2. MetadataAdds(0)
  BY <1>1, HeadersKept DEF Append
<1> QED BY <1>1, <1>2 DEF Append

LEMMA ReclaimMeters ==
  ASSUME Rows, Metered, NEW c \in Captures, NEW e, NEW R, NEW n, Reclaim(c, e, R, n)
  PROVE  /\ MetadataAdds(0) /\ retained' = retained - UnitBytes(R)
         /\ captures'[c].retained = captures[c].retained - UnitBytes(R)
         /\ \A d \in Captures \ {c} : captures'[d].retained = captures[d].retained
<1>1. /\ captures'[c].state = captures[c].state /\ captures'[c].header = captures[c].header
      /\ captures'[c].retained = captures[c].retained - UnitBytes(R)
      /\ \A d \in Captures \ {c} : captures'[d] = captures[d]
  BY DEF Reclaim, Rows, CaptureRow, CaptureFields
<1>2. MetadataAdds(0)
  BY <1>1, HeadersKept DEF Reclaim
<1> QED BY <1>1, <1>2 DEF Reclaim

LEMMA SealMeters ==
  ASSUME Rows, Metered, NEW c \in Captures, NEW e, NEW next, NEW complete, Seal(c, e, next, complete)
  PROVE  MetadataAdds(0) /\ RetainedKept
<1>1. /\ captures'[c].state = "sealed" /\ captures[c].state = "preparing"
      /\ captures'[c].header = captures[c].header /\ captures'[c].retained = captures[c].retained
      /\ \A d \in Captures \ {c} : captures'[d] = captures[d]
  BY DEF Seal, Rows, CaptureRow, CaptureFields
<1>2. CapturesRaised(c, 0)
  BY <1>1 DEF Metered, CapturesRaised, CaptureMetered
<1>3. captures[c].scope \in Scopes
  BY <1>1 DEF Rows, CaptureRow
<1>4. ScopesRaised(c, 0)
  BY <1>3 DEF Seal, Rows, ScopeRow, ScopeFields, Metered, ScopesRaised, ScopeMetered
<1>5. MetadataAdds(0)
  BY <1>2, <1>4, MetadataRaised
<1> QED BY <1>1, <1>5 DEF Seal, RetainedKept

\* complete() changes the state alone.
LEMMA CompletedMeters ==
  ASSUME NEW c, NEW r, DOMAIN r = CaptureFields, NEW rows, r.state # "none"
  PROVE  LET d == Completed(c, r, rows) IN
         d.header = r.header /\ d.retained = r.retained /\ d.state # "none"
BY DEF Completed, CaptureFields

\* An activation clears the baseline and the headers no comparison reads.
LEMMA ActivatedMeters ==
  ASSUME Rows, Metered, NEW c \in Captures, NEW e, NEW x \in Receipts, Activated(c, e, x)
  PROVE  MetadataAdds(0) /\ RetainedKept
<1> DEFINE row == [captures[c] EXCEPT !.state = "activated", !.activation = x]
           done == Completed(c, row, units)
<1>1. /\ DOMAIN row = CaptureFields /\ row.state = "activated"
      /\ row.header = captures[c].header /\ row.retained = captures[c].retained
      /\ captures[c].state = "sealed" /\ captures[c].scope \in Scopes
  BY DEF Activated, Rows, CaptureRow, CaptureFields
<1>2. captures' = [captures EXCEPT ![c] = done] \/ captures' = WithoutHeaders(c, done)
  BY DEF Activated
<1> HIDE DEF row
<1>3. done.header = captures[c].header /\ done.retained = captures[c].retained /\ done.state # "none"
  BY <1>1, CompletedMeters
<1> HIDE DEF done
<1>4. /\ captures'[c] = done
      /\ \A d \in Captures \ {c} : captures'[d] \in {captures[d], [captures[d] EXCEPT !.header = 0]}
  BY <1>2 DEF Rows, WithoutHeaders
<1>5. \A d \in Captures : /\ captures'[d].retained = captures[d].retained
                          /\ captures'[d].header \in {captures[d].header, 0}
                          /\ captures'[d].state = "none" <=> captures[d].state = "none"
  BY <1>1, <1>3, <1>4 DEF Rows, CaptureRow, CaptureFields
<1>6. CapturesRaised(c, 0)
  BY <1>5 DEF Metered, CapturesRaised, CaptureMetered
<1>7. ScopesRaised(c, 0)
  BY <1>1 DEF Activated, Rows, ScopeRow, ScopeFields, Metered, ScopesRaised, ScopeMetered
<1>8. MetadataAdds(0)
  BY <1>6, <1>7, MetadataRaised
<1> QED BY <1>5, <1>8 DEF Activated, RetainedKept

LEMMA RawSettlementMeters ==
  ASSUME Rows, Units, Metered, NEW c \in Captures, RawSettlement(c)
  PROVE  MetadataAdds(0) /\ RetainedKept
<1>1. ASSUME NEW r, DOMAIN r = CaptureFields, r.state = captures[c].state, r.header = captures[c].header,
             r.retained = captures[c].retained, captures[c].state # "none",
             captures' = [captures EXCEPT ![c] = Completed(c, r, units')],
             UNCHANGED <<scopes, retained>>
      PROVE  MetadataAdds(0) /\ RetainedKept
  <2> DEFINE done == Completed(c, r, units')
  <2>1. done.header = r.header /\ done.retained = r.retained /\ done.state # "none"
    BY <1>1, CompletedMeters
  <2> HIDE DEF done
  <2>2. captures' = [captures EXCEPT ![c] = done]
    BY <1>1 DEF done
  <2>3. \A d \in Captures : /\ captures'[d].retained = captures[d].retained
                            /\ captures'[d].header = captures[d].header
                            /\ captures'[d].state = "none" <=> captures[d].state = "none"
    BY <1>1, <2>1, <2>2 DEF Rows
  <2> QED BY <1>1, <2>3, HeadersKept DEF RetainedKept
<1>2. ASSUME NEW U, NEW reason, CancelUnits(c, U, reason), captures[c].state # "none",
             UNCHANGED <<scopes, retained>>
      PROVE  MetadataAdds(0) /\ RetainedKept
  <2> DEFINE r == [captures[c] EXCEPT !.canceled = IF @ = Null THEN reason ELSE @]
  <2>1. captures' = [captures EXCEPT ![c] = Completed(c, r, units')]
    BY <1>2 DEF CancelUnits
  <2>2. /\ DOMAIN r = CaptureFields /\ r.state = captures[c].state
        /\ r.header = captures[c].header /\ r.retained = captures[c].retained
    BY DEF Rows, CaptureRow, CaptureFields
  <2> HIDE DEF r
  <2> QED BY <1>1, <1>2, <2>1, <2>2
<1>3. ASSUME NEW e \in Epochs, NEW u \in units, NEW x \in UnitReceipts, RawAcknowledged(c, e, u, x)
      PROVE  MetadataAdds(0) /\ RetainedKept
  <2>1. /\ captures' = [captures EXCEPT ![c] = Completed(c, captures[c], units')]
        /\ captures[c].state # "none" /\ UNCHANGED <<scopes, retained>>
    BY <1>3 DEF RawAcknowledged, Owned
  <2> QED BY <1>1, <2>1 DEF Rows, CaptureRow
<1>4. ASSUME NEW e, NEW u, RawUnitCanceled(c, e, u)
      PROVE  MetadataAdds(0) /\ RetainedKept
  <2>1. CancelUnits(c, {u}, Null) /\ captures[c].state # "none" /\ UNCHANGED <<scopes, retained>>
    BY <1>4 DEF RawUnitCanceled, Owned
  <2> QED BY <1>2, <2>1
<1>5. ASSUME NEW e, NEW reason, RawCancellationStarted(c, e, reason) \/ RawCanceled(c, e, reason)
      PROVE  MetadataAdds(0) /\ RetainedKept
  <2>1. /\ CancelUnits(c, {}, reason) \/ CancelUnits(c, UnitsOf(c, "raw"), reason)
        /\ captures[c].state # "none" /\ UNCHANGED <<scopes, retained>>
    BY <1>5 DEF RawCancellationStarted, RawCanceled, Owned
  <2> QED BY <1>2, <2>1
<1> QED BY <1>3, <1>4, <1>5 DEF RawSettlement

LEMMA AbandonMeters ==
  ASSUME Rows, Metered, NEW c \in Captures,
         \E e \in Epochs : (\E x \in Receipts : Rejected(c, e, x)) \/ AbandonUnsealed(c, e)
  PROVE  MetadataAdds(0) /\ RetainedKept
<1>1. ASSUME NEW x, Abandoned(c, x), captures[c].state # "none", UNCHANGED <<scopes, retained>>
      PROVE  MetadataAdds(0) /\ RetainedKept
  <2>1. \A d \in Captures : /\ captures'[d].retained = captures[d].retained
                            /\ captures'[d].header \in {captures[d].header, 0}
                            /\ captures'[d].state = "none" <=> captures[d].state = "none"
    BY <1>1 DEF Abandoned, Rows, CaptureRow, CaptureFields
  <2> QED BY <1>1, <2>1, HeadersKept DEF RetainedKept
<1>2. ASSUME NEW e, NEW x, Rejected(c, e, x)
      PROVE  MetadataAdds(0) /\ RetainedKept
  BY <1>1, <1>2 DEF Rejected, Owned
<1>3. ASSUME NEW e, AbandonUnsealed(c, e)
      PROVE  MetadataAdds(0) /\ RetainedKept
  BY <1>1, <1>3 DEF AbandonUnsealed, Owned
<1> QED BY <1>2, <1>3

LEMMA PruneMeters ==
  ASSUME Rows, Metered, NEW s \in Scopes, NEW e, NEW c \in Captures, NEW R, NEW n, PruneRecords(s, e, c, R, n)
  PROVE  MetadataAdds(0) /\ RetainedKept
<1>1. \A d \in Captures : /\ captures'[d].retained = captures[d].retained
                          /\ captures'[d].header = captures[d].header
                          /\ captures'[d].state = captures[d].state
  BY DEF PruneRecords, Rows, CaptureRow, CaptureFields
<1>2. scopes' = scopes /\ retained' = retained
  BY DEF PruneRecords
<1> QED BY <1>1, <1>2, HeadersKept DEF RetainedKept

-----------------------------------------------------------------------------
(* The counters                                                            *)

Numbering == Keyed(units) /\ Numbered(units)
Counted ==
  /\ retained = BytesOf(units)
  /\ \A c \in Captures : captures[c].retained = BytesOf(OwnedBy(units, c))
Budgeted == MetadataBytes \in Nat /\ retained + MetadataBytes <= PendingBytes
Bookkeeping == Numbering /\ Metered /\ Counted /\ Budgeted

\* The two channels hold all units of a capture.
LEMMA OwnUnits ==
  ASSUME Units, NEW c
  PROVE  UnitsOf(c, "canonical") \cup UnitsOf(c, "raw") = OwnedBy(units, c)
BY DEF Units, UnitRow, UnitKinds, UnitsOf, OwnedBy

LEMMA BookkeepingSuffices == Units /\ Bookkeeping => ByteAccounting
<1> SUFFICES ASSUME Units, Bookkeeping PROVE ByteAccounting
  OBVIOUS
<1>1. \A c : UnitsOf(c, "canonical") \cup UnitsOf(c, "raw") = OwnedBy(units, c)
  BY OwnUnits
<1>2. \A c \in Captures : captures[c].retained = BytesOf(UnitsOf(c, "canonical") \cup UnitsOf(c, "raw"))
  <2> SUFFICES ASSUME NEW c \in Captures
               PROVE  captures[c].retained = BytesOf(UnitsOf(c, "canonical") \cup UnitsOf(c, "raw"))
    OBVIOUS
  <2>1. captures[c].retained = BytesOf(OwnedBy(units, c))
    BY DEF Bookkeeping, Counted
  <2> QED BY <1>1, <2>1
<1> QED BY <1>2 DEF Bookkeeping, Counted, Budgeted, ByteAccounting

\* The rows of a capture that was not reserved.
LEMMA NothingOwned ==
  ASSUME Units, NEW c, captures[c].state = "none"
  PROVE  BytesOf(OwnedBy(units, c)) = 0
<1>1. {u \in OwnedBy(units, c) : u.body} = {}
  BY DEF Units, OwnedBy
<1>2. UnitBytes({}) = 0
  BY SumOverDomain, SumEmpty DEF UnitBytes
<1> QED BY <1>1, <1>2 DEF BytesOf

\* A step rewrites the units in place, and each keeps its content.
Settled(n) ==
  /\ \A u \in units : SameUnit(n[u], u) /\ n[u].body = u.body
  /\ units' = {n[u] : u \in units}

LEMMA DisposedSettled ==
  ASSUME Units, Keyed(units), NEW D, NEW how, NEW receipt, Disposing(D, how, receipt)
  PROVE  \E n : Settled(n)
<1> DEFINE n == [u \in units |-> IF u \in D THEN Disposed(u, how, receipt) ELSE u]
<1>1. ASSUME NEW u \in units PROVE SameUnit(n[u], u) /\ n[u].body = u.body
  <2>1. UnitRow(u) /\ u.body \in BOOLEAN
    BY DEF Units, Keyed, UnitMeasured
  <2>2. CASE u \in D
    <3>1. n[u] = Disposed(u, how, receipt)
      BY <2>2
    <3> HIDE DEF n
    <3> QED BY <2>1, <3>1 DEF Disposed, UnitRow, UnitFields, SameUnit
  <2>3. CASE u \notin D
    BY <2>1, <2>3 DEF SameUnit
  <2> QED BY <2>2, <2>3
<1>2. units' = {n[u] : u \in units}
  BY DEF Disposing, Replaced
<1> HIDE DEF n
<1>3. Settled(n)
  BY <1>1, <1>2 DEF Settled
<1> QED BY <1>3

LEMMA UnitsUnchanged ==
  ASSUME Keyed(units), units' = units
  PROVE  \E n : Settled(n)
<1> DEFINE n == [u \in units |-> u]
<1>1. \A u \in units : SameUnit(n[u], u) /\ n[u].body = u.body
  BY DEF Keyed, UnitMeasured, SameUnit
<1>2. units' = {n[u] : u \in units}
  OBVIOUS
<1> HIDE DEF n
<1> QED BY <1>1, <1>2 DEF Settled

\* Then no bytes move.
LEMMA SettledBytes ==
  ASSUME Numbering, NEW n, Settled(n)
  PROVE  /\ Numbering' /\ BytesOf(units)' = BytesOf(units)
         /\ \A c : BytesOf(OwnedBy(units, c))' = BytesOf(OwnedBy(units, c))
<1>1. Keyed({n[u] : u \in units}) /\ Numbered({n[u] : u \in units})
  <2>1. Keyed(units) /\ Numbered(units) /\ \A u \in units : SameUnit(n[u], u)
    BY DEF Settled, Numbering
  <2> QED BY <2>1, RenewedKeyed
<1>2. Numbering'
  BY <1>1 DEF Settled, Numbering
<1>3. ASSUME NEW V \in SUBSET units PROVE BytesOf({n[u] : u \in V}) = BytesOf(V)
  BY RenewedBytes DEF Settled, Numbering
<1>4. BytesOf(units') = BytesOf(units)
  BY <1>3 DEF Settled
<1>5. ASSUME NEW c PROVE BytesOf(OwnedBy(units', c)) = BytesOf(OwnedBy(units, c))
  <2>1. OwnedBy(units', c) = {n[u] : u \in OwnedBy(units, c)}
    BY DEF Settled, OwnedBy, SameUnit
  <2>2. OwnedBy(units, c) \in SUBSET units
    BY DEF OwnedBy
  <2> QED BY <1>3, <2>1, <2>2
<1>6. BytesOf(units)' = BytesOf(units') /\ \A c : BytesOf(OwnedBy(units, c))' = BytesOf(OwnedBy(units', c))
  BY DEF BytesOf, OwnedBy, UnitBytes
<1> QED BY <1>2, <1>4, <1>5, <1>6

\* The whole step, when nothing is appended or dropped.
LEMMA SettledCounts ==
  ASSUME Numbering, Counted, NEW n, Settled(n), RetainedKept
  PROVE  Numbering' /\ Counted'
<1>1. /\ Numbering' /\ BytesOf(units)' = BytesOf(units)
      /\ \A c : BytesOf(OwnedBy(units, c))' = BytesOf(OwnedBy(units, c))
  BY SettledBytes
<1>2. Counted'
  BY <1>1 DEF Counted, RetainedKept
<1> QED BY <1>1, <1>2

\* Reserve: the new capture owns nothing yet.
LEMMA ReservedCounts ==
  ASSUME Units, Numbering, Counted, NEW c \in Captures, captures[c].state = "none", units' = units,
         retained' = retained, captures'[c].retained = 0,
         \A d \in Captures \ {c} : captures'[d].retained = captures[d].retained
  PROVE  Numbering' /\ Counted'
<1>1. PICK n : Settled(n)
  BY UnitsUnchanged DEF Numbering
<1>2. /\ Numbering' /\ BytesOf(units)' = BytesOf(units)
      /\ \A d : BytesOf(OwnedBy(units, d))' = BytesOf(OwnedBy(units, d))
  BY <1>1, SettledBytes
<1>3. BytesOf(OwnedBy(units, c)) = 0
  BY NothingOwned
<1>4. ASSUME NEW d \in Captures PROVE captures'[d].retained = BytesOf(OwnedBy(units, d))
  <2>1. CASE d = c
    BY <1>3, <2>1
  <2>2. CASE d # c
    BY <2>2 DEF Counted
  <2> QED BY <2>1, <2>2
<1>5. Counted'
  BY <1>2, <1>4 DEF Counted
<1> QED BY <1>2, <1>5

\* Append: the unit's ordinal is new in its channel.
LEMMA AppendCounts ==
  ASSUME Rows, Units, Numbering, Metered, Counted,
         NEW c \in Captures, NEW e, NEW k \in UnitKinds, NEW b \in Sizes, Append(c, e, k, b)
  PROVE  Numbering' /\ Counted'
<1> DEFINE o == Cardinality(UnitsOf(c, k))
           w == Unit(c, k, o, b)
           W == units \cup {w}
<1>1. /\ w.capture = c /\ w.kind = k /\ w.ordinal = o /\ w.bytes = b /\ w.body = TRUE
      /\ units' = W
  BY DEF Append, Unit
<1> HIDE DEF w
<1>2. b \in Nat
  BY JournalAssumption
<1>3. UnitsOf(c, k) = Channel(units, c, k)
  BY DEF UnitsOf, Channel
<1>4. IsFiniteSet(Channel(units, c, k)) /\ o = Cardinality(Ordinals(units, c, k)) /\ o \in Nat
  BY <1>3, ChannelCount DEF Numbering
<1> HIDE DEF o
<1>5. \A n \in Ordinals(units, c, k) : n < o /\ n # o
  <2>1. \A n \in Ordinals(units, c, k) : n < o /\ n \in Nat
    BY <1>4 DEF Numbering, Numbered, Ordinals, Channel, Keyed, UnitMeasured
  <2> QED BY <1>4, <2>1
<1>6. \A u \in units : Key(u) # Key(w)
  BY <1>1, <1>5 DEF Key, Ordinals, Channel
<1>7. w \notin units
  BY <1>6
<1>8. Keyed(W)
  <2>1. IsFiniteSet(W)
    BY FS_AddElement DEF Numbering, Keyed
  <2>2. \A u \in W : UnitMeasured(u)
    BY <1>1, <1>2, <1>4 DEF Numbering, Keyed, UnitMeasured
  <2>3. \A u, v \in W : Key(u) = Key(v) => u = v
    BY <1>6 DEF Numbering, Keyed
  <2> HIDE DEF W
  <2> QED BY <2>1, <2>2, <2>3 DEF Keyed
<1>9. Numbered(W)
  <2> SUFFICES ASSUME NEW d \in Captures, NEW j \in UnitKinds, NEW n \in Ordinals(W, d, j)
               PROVE  n < Cardinality(Ordinals(W, d, j))
    BY DEF Numbered
  <2>1. CASE d = c /\ j = k
    <3>1. Ordinals(W, c, k) = Ordinals(units, c, k) \cup {o}
      BY <1>1 DEF Ordinals, Channel
    <3>2. IsFiniteSet(Ordinals(units, c, k))
      <4> DEFINE f == [u \in Channel(units, c, k) |-> u.ordinal]
      <4>1. f \in Surjection(Channel(units, c, k), Ordinals(units, c, k))
        BY DEF Surjection, Ordinals
      <4> QED BY <1>4, <4>1, FS_Surjection
    <3>3. Cardinality(Ordinals(W, c, k)) = o + 1
      BY <1>4, <1>5, <3>1, <3>2, FS_AddElement
    <3>4. n < o \/ n = o
      BY <2>1, <3>1, <1>5
    <3>5. n \in Nat
      BY <1>8 DEF Ordinals, Channel, Keyed, UnitMeasured
    <3> HIDE DEF W
    <3> QED BY <2>1, <3>3, <3>4, <3>5, <1>4
  <2>2. CASE ~(d = c /\ j = k)
    <3>1. Ordinals(W, d, j) = Ordinals(units, d, j)
      BY <1>1, <2>2 DEF Ordinals, Channel
    <3> HIDE DEF W
    <3> QED BY <3>1 DEF Numbering, Numbered
  <2> QED BY <2>1, <2>2
<1>10. BytesOf(W) = BytesOf(units) + b
  BY <1>1, <1>7, <1>8, AddedBytes
<1>11. OwnedBy(W, c) = OwnedBy(units, c) \cup {w} /\ w \notin OwnedBy(units, c)
  BY <1>1, <1>7 DEF OwnedBy
<1>12. BytesOf(OwnedBy(W, c)) = BytesOf(OwnedBy(units, c)) + b
  <2>1. OwnedBy(W, c) \in SUBSET W
    BY DEF OwnedBy
  <2>2. Keyed(OwnedBy(W, c))
    <3> HIDE DEF W
    <3> QED BY <1>8, <2>1, BytesAre
  <2> HIDE DEF W
  <2> QED BY <1>1, <1>11, <2>2, AddedBytes
<1>13. \A d \in Captures \ {c} : OwnedBy(W, d) = OwnedBy(units, d)
  BY <1>1 DEF OwnedBy
<1>14. /\ retained' = retained + b
       /\ captures'[c].retained = captures[c].retained + b
       /\ \A d \in Captures \ {c} : captures'[d].retained = captures[d].retained
  BY AppendMeters
<1> HIDE DEF W
<1>15. \A d \in Captures : captures'[d].retained = BytesOf(OwnedBy(W, d))
  <2> SUFFICES ASSUME NEW d \in Captures PROVE captures'[d].retained = BytesOf(OwnedBy(W, d))
    OBVIOUS
  <2>1. captures[d].retained = BytesOf(OwnedBy(units, d))
    BY DEF Counted
  <2>2. CASE d = c
    BY <1>12, <1>14, <2>1, <2>2
  <2>3. CASE d # c
    BY <1>13, <1>14, <2>1, <2>3
  <2> QED BY <2>2, <2>3
<1>16. Counted'
  <2>1. BytesOf(units)' = BytesOf(units') /\ \A d : BytesOf(OwnedBy(units, d))' = BytesOf(OwnedBy(units', d))
    BY DEF BytesOf, OwnedBy, UnitBytes
  <2>2. retained' = BytesOf(W)
    BY <1>10, <1>14 DEF Counted
  <2> QED BY <1>1, <1>15, <2>1, <2>2 DEF Counted
<1>17. Numbering'
  BY <1>1, <1>8, <1>9 DEF Numbering
<1> QED BY <1>16, <1>17

\* Reclaim: the dropped content is that of the capture, and it was stored.
LEMMA ReclaimCounts ==
  ASSUME Rows, Units, Numbering, Metered, Counted,
         NEW c \in Captures, NEW e, NEW R, NEW limit, Reclaim(c, e, R, limit)
  PROVE  Numbering' /\ Counted' /\ retained' <= retained /\ retained' \in Nat
<1> DEFINE n == [u \in units |-> IF u \in R THEN [u EXCEPT !.body = FALSE] ELSE u]
           W == {n[u] : u \in units}
<1>1. /\ R \subseteq units /\ \A u \in R : u.capture = c /\ u.body
      /\ units' = Replaced(R, {[u EXCEPT !.body = FALSE] : u \in R})
  BY DEF Reclaim, Reclaimable
<1>2. units' = W
  BY <1>1 DEF Replaced
<1>3. Keyed(units)
  BY DEF Numbering
<1>4. ASSUME NEW u \in units
      PROVE  /\ SameUnit(n[u], u)
             /\ u \in R => ~n[u].body
             /\ u \notin R => n[u] = u
  <2>1. UnitRow(u) /\ u.body \in BOOLEAN
    BY <1>3 DEF Units, Keyed, UnitMeasured
  <2>2. CASE u \in R
    <3>1. n[u] = [u EXCEPT !.body = FALSE]
      BY <2>2
    <3> HIDE DEF n
    <3> QED BY <2>1, <2>2, <3>1 DEF UnitRow, UnitFields, SameUnit
  <2>3. CASE u \notin R
    BY <2>1, <2>3 DEF SameUnit
  <2> QED BY <2>2, <2>3
<1> HIDE DEF n
<1>5. Keyed(W) /\ Numbered(W)
  BY <1>3, <1>4, RenewedKeyed DEF Numbering
<1>6. {w \in W : w.body} = {u \in units : u.body} \ R
  BY <1>4
<1>7. {w \in OwnedBy(W, c) : w.body} = {u \in OwnedBy(units, c) : u.body} \ R
  BY <1>4 DEF OwnedBy, SameUnit
<1>8. \A d \in Captures \ {c} : {w \in OwnedBy(W, d) : w.body} = {u \in OwnedBy(units, d) : u.body}
  BY <1>1, <1>4 DEF OwnedBy, SameUnit
<1>9. UnitBytes(R) \in Nat /\ BytesOf(W) = BytesOf(units) - UnitBytes(R)
  <2>1. R \in SUBSET {u \in units : u.body}
    BY <1>1
  <2>2. UnitBytes(R) \in Nat /\ UnitBytes({u \in units : u.body} \ R) = BytesOf(units) - UnitBytes(R)
    BY <1>3, <2>1, DroppedBytes
  <2> HIDE DEF W
  <2> QED BY <1>6, <2>2 DEF BytesOf
<1>10. BytesOf(OwnedBy(W, c)) = BytesOf(OwnedBy(units, c)) - UnitBytes(R)
  <2>1. R \in SUBSET {u \in OwnedBy(units, c) : u.body}
    BY <1>1 DEF OwnedBy
  <2>2. OwnedBy(units, c) \in SUBSET units
    BY DEF OwnedBy
  <2>3. Keyed(OwnedBy(units, c))
    BY <1>3, <2>2, BytesAre
  <2>4. UnitBytes({u \in OwnedBy(units, c) : u.body} \ R) = BytesOf(OwnedBy(units, c)) - UnitBytes(R)
    BY <2>1, <2>3, DroppedBytes
  <2> HIDE DEF W
  <2> QED BY <1>7, <2>4 DEF BytesOf
<1>11. \A d \in Captures \ {c} : BytesOf(OwnedBy(W, d)) = BytesOf(OwnedBy(units, d))
  BY <1>8 DEF BytesOf
<1>12. /\ retained' = retained - UnitBytes(R)
       /\ captures'[c].retained = captures[c].retained - UnitBytes(R)
       /\ \A d \in Captures \ {c} : captures'[d].retained = captures[d].retained
  BY ReclaimMeters
<1>13. BytesOf(units) \in Nat /\ BytesOf(W) \in Nat
  <2> HIDE DEF W
  <2>1. units \in SUBSET units /\ W \in SUBSET W
    OBVIOUS
  <2> QED BY <1>3, <1>5, <2>1, BytesAre
<1> HIDE DEF W
<1>14. retained' = BytesOf(W) /\ retained' <= retained /\ retained' \in Nat
  BY <1>9, <1>12, <1>13 DEF Counted
<1>15. \A d \in Captures : captures'[d].retained = BytesOf(OwnedBy(W, d))
  <2> SUFFICES ASSUME NEW d \in Captures PROVE captures'[d].retained = BytesOf(OwnedBy(W, d))
    OBVIOUS
  <2>1. captures[d].retained = BytesOf(OwnedBy(units, d))
    BY DEF Counted
  <2>2. CASE d = c
    BY <1>10, <1>12, <2>1, <2>2
  <2>3. CASE d # c
    BY <1>11, <1>12, <2>1, <2>3
  <2> QED BY <2>2, <2>3
<1>16. BytesOf(units)' = BytesOf(units') /\ \A d : BytesOf(OwnedBy(units, d))' = BytesOf(OwnedBy(units', d))
  BY DEF BytesOf, OwnedBy, UnitBytes
<1>17. Counted'
  BY <1>2, <1>14, <1>15, <1>16 DEF Counted
<1>18. Numbering'
  BY <1>2, <1>5 DEF Numbering
<1> QED BY <1>14, <1>17, <1>18

LEMMA PendingNat == PendingBytes \in Nat
BY JournalAssumption

\* What is stored fits when nothing was added, or what was added was admitted.
LEMMA BudgetKept ==
  ASSUME Budgeted, MetadataAdds(0), retained' <= retained, retained \in Nat, retained' \in Nat
  PROVE  Budgeted'
<1>1. \A q, r, p, m \in Nat : r + m <= PendingBytes /\ q <= r /\ p <= m + 0 => q + p <= PendingBytes
  BY PendingNat
<1> QED BY <1>1 DEF Budgeted, MetadataAdds

LEMMA BudgetAdmitted ==
  ASSUME NEW n \in Nat, MetadataAdds(n), Capacity(n), retained' = retained, retained \in Nat
  PROVE  Budgeted'
<1>1. \A r, p, m \in Nat : r + m + n <= PendingBytes /\ p <= m + n => r + p <= PendingBytes
  BY PendingNat
<1>2. retained + MetadataBytes + n <= PendingBytes
  BY DEF Capacity
<1> QED BY <1>1, <1>2 DEF Budgeted, MetadataAdds

\* Append: the room it was admitted for holds its content.
LEMMA BudgetFilled ==
  ASSUME NEW b \in Nat, MetadataAdds(0), Capacity(b), retained' = retained + b, retained \in Nat
  PROVE  Budgeted'
<1>1. \A r, p, m \in Nat : r + m + b <= PendingBytes /\ p <= m + 0 => (r + b) + p <= PendingBytes
  BY PendingNat
<1>2. retained + MetadataBytes + b <= PendingBytes
  BY DEF Capacity
<1> QED BY <1>1, <1>2 DEF Budgeted, MetadataAdds

LEMMA BookkeepingInit == Init => Bookkeeping
<1> SUFFICES ASSUME Init PROVE Bookkeeping
  OBVIOUS
<1>1. units = {} /\ retained = 0 /\ ScopeRows = {} /\ CaptureRows = {}
  BY DEF Init, ScopeRows, CaptureRows, NoScope, NoCapture
<1>2. UnitBytes({}) = 0 /\ BaselineBytes = 0 /\ HeaderBytes = 0
  <2>1. \A f : DOMAIN f = {} => SumFunction(f) = 0
    BY SumOverDomain, SumEmpty
  <2> QED BY <1>1, <2>1 DEF UnitBytes, BaselineBytes, HeaderBytes
<1>3. MetadataBytes = 0
  BY <1>2 DEF MetadataBytes, BaselineBytes, HeaderBytes
<1>4. BytesOf(units) = 0 /\ \A c : BytesOf(OwnedBy(units, c)) = 0
  <2>1. {u \in units : u.body} = {} /\ \A c : {u \in OwnedBy(units, c) : u.body} = {}
    BY <1>1 DEF OwnedBy
  <2> QED BY <1>2, <2>1 DEF BytesOf
<1>5. Numbering
  BY <1>1, FS_EmptySet DEF Numbering, Keyed, Numbered, Ordinals, Channel
<1>6. Metered
  BY <1>1, FS_EmptySet DEF Init, Metered, ScopeMetered, CaptureMetered, NoScope, NoCapture
<1>7. \A c \in Captures : captures[c].retained = 0
  BY DEF Init, NoCapture
<1>8. Counted
  BY <1>1, <1>4, <1>7 DEF Counted
<1>9. Budgeted
  BY <1>1, <1>3, JournalAssumption DEF Budgeted
<1> QED BY <1>5, <1>6, <1>8, <1>9 DEF Bookkeeping

LEMMA BookkeepingNext == Rows /\ Units /\ Bookkeeping /\ [Next]_vars => Bookkeeping'
<1> SUFFICES ASSUME Rows, Units, Bookkeeping, [Next]_vars PROVE Bookkeeping'
  OBVIOUS
<1>1. Numbering /\ Metered /\ Counted /\ Budgeted
  BY DEF Bookkeeping
<1>2. Keyed(units) /\ retained \in Nat
  <2>1. Keyed(units) /\ units \in SUBSET units
    BY <1>1 DEF Numbering
  <2> QED BY <1>1, <2>1, BytesAre DEF Counted
<1>3. ASSUME NEW n, Settled(n), MetadataAdds(0), RetainedKept
      PROVE  Bookkeeping'
  <2>1. Numbering' /\ Counted'
    BY <1>1, <1>3, SettledCounts
  <2>2. Budgeted' /\ Metered'
    BY <1>1, <1>2, <1>3, BudgetKept DEF RetainedKept, MetadataAdds
  <2> QED BY <2>1, <2>2 DEF Bookkeeping
<1>4. ASSUME units' = units, MetadataAdds(0), RetainedKept
      PROVE  Bookkeeping'
  BY <1>2, <1>3, <1>4, UnitsUnchanged
<1>5. ASSUME units' = units, NEW b \in Nat, MetadataAdds(b), Capacity(b), RetainedKept
      PROVE  Bookkeeping'
  <2>1. PICK n : Settled(n)
    BY <1>2, <1>5, UnitsUnchanged
  <2>2. Numbering' /\ Counted'
    BY <1>1, <1>5, <2>1, SettledCounts
  <2>3. Budgeted' /\ Metered'
    BY <1>2, <1>5, BudgetAdmitted DEF RetainedKept, MetadataAdds
  <2> QED BY <2>2, <2>3 DEF Bookkeeping
<1>6. ASSUME NEW s \in Scopes, Claim(s) PROVE Bookkeeping'
  BY <1>1, <1>4, <1>6, ClaimMeters, OtherUnits
<1>7. ASSUME NEW s \in Scopes, NEW e \in Epochs, NEW f \in Floors, NEW b \in MetadataSizes, AdoptBaseline(s, e, f, b)
      PROVE  Bookkeeping'
  BY <1>1, <1>5, <1>7, AdoptMeters, OtherUnits
<1>8. ASSUME NEW s \in Scopes, NEW e, NEW c \in Captures, NEW x, NEW b, NEW purpose, NEW raw, NEW track,
             Reserve(s, e, c, x, b, purpose, raw, track)
      PROVE  Bookkeeping'
  <2>1. /\ MetadataAdds(0) /\ retained' = retained
        /\ captures[c].state = "none" /\ captures'[c].retained = 0
        /\ \A d \in Captures \ {c} : captures'[d].retained = captures[d].retained
    BY <1>1, <1>8, ReserveMeters
  <2>2. units' = units
    BY <1>8, OtherUnits
  <2>3. Numbering' /\ Counted'
    BY <1>1, <2>1, <2>2, ReservedCounts
  <2>4. Budgeted' /\ Metered'
    BY <1>1, <1>2, <2>1, BudgetKept DEF MetadataAdds
  <2> QED BY <2>3, <2>4 DEF Bookkeeping
<1>9. ASSUME NEW c \in Captures, NEW e \in Epochs, NEW b \in MetadataSizes, SetSourceMetadata(c, e, b)
      PROVE  Bookkeeping'
  <2>1. units' = units
    BY <1>9 DEF SetSourceMetadata
  <2> QED BY <1>1, <1>5, <1>9, <2>1, HeaderMeters
<1>10. ASSUME NEW c \in Captures, NEW e \in Epochs, NEW k \in UnitKinds, NEW b \in Sizes, Append(c, e, k, b)
       PROVE  Bookkeeping'
  <2>1. MetadataAdds(0) /\ retained' = retained + b /\ Capacity(b)
    BY <1>1, <1>10, AppendMeters
  <2>2. Numbering' /\ Counted'
    BY <1>1, <1>10, AppendCounts
  <2>3. b \in Nat
    BY JournalAssumption
  <2>4. Budgeted' /\ Metered'
    BY <1>2, <2>1, <2>3, BudgetFilled DEF MetadataAdds
  <2> QED BY <2>2, <2>4 DEF Bookkeeping
<1>11. ASSUME NEW c \in Captures, NEW e, NEW R, NEW n, Reclaim(c, e, R, n)
       PROVE  Bookkeeping'
  <2>1. MetadataAdds(0)
    BY <1>1, <1>11, ReclaimMeters
  <2>2. Numbering' /\ Counted' /\ retained' <= retained /\ retained' \in Nat
    BY <1>1, <1>11, ReclaimCounts
  <2>3. Budgeted' /\ Metered'
    BY <1>1, <1>2, <2>1, <2>2, BudgetKept DEF MetadataAdds
  <2> QED BY <2>2, <2>3 DEF Bookkeeping
<1>12. ASSUME NEW c \in Captures, NEW e, NEW u, NEW x \in UnitReceipts, CanonicalAcknowledged(c, e, u, x)
       PROVE  Bookkeeping'
  <2>1. PICK n : Settled(n)
    BY <1>2, <1>12, CanonicalUnits, DisposedSettled
  <2>2. scopes' = scopes /\ captures' = captures /\ retained' = retained
    BY <1>12 DEF CanonicalAcknowledged
  <2>3. MetadataAdds(0) /\ RetainedKept
    BY <1>1, <2>2, HeadersKept DEF RetainedKept
  <2> QED BY <1>3, <2>1, <2>3
<1>13. CASE UNCHANGED <<scopes, captures, units, retained>>
  <2>1. MetadataAdds(0) /\ RetainedKept
    BY <1>1, <1>13, HeadersKept DEF RetainedKept
  <2> QED BY <1>4, <1>13, <2>1
<1>14. CASE Quiet
  BY <1>14, <1>9, <1>10, <1>11, <1>12, <1>13 DEF Quiet
<1>15. ASSUME NEW c \in Captures, NEW e, NEW next, NEW complete, Seal(c, e, next, complete)
       PROVE  Bookkeeping'
  BY <1>1, <1>4, <1>15, SealMeters, OtherUnits
<1>16. ASSUME NEW c \in Captures, NEW e \in Epochs, NEW x \in Receipts, Activated(c, e, x)
       PROVE  Bookkeeping'
  BY <1>1, <1>4, <1>16, ActivatedMeters, OtherUnits
<1>17. ASSUME NEW c \in Captures, RawSettlement(c)
       PROVE  Bookkeeping'
  <2>1. PICK n : Settled(n)
    BY <1>2, <1>17, RawSettlementUnits, DisposedSettled
  <2> QED BY <1>1, <1>3, <1>17, <2>1, RawSettlementMeters
<1>18. ASSUME NEW c \in Captures,
              \E e \in Epochs : (\E x \in Receipts : Rejected(c, e, x)) \/ AbandonUnsealed(c, e)
       PROVE  Bookkeeping'
  BY <1>1, <1>4, <1>18, AbandonMeters, AbandonEffect
<1>19. ASSUME NEW s \in Scopes, NEW e, NEW c \in Captures, NEW R, NEW n, PruneRecords(s, e, c, R, n)
       PROVE  Bookkeeping'
  BY <1>1, <1>4, <1>19, PruneMeters, OtherUnits
<1> QED BY <1>6, <1>7, <1>8, <1>14, <1>15, <1>16, <1>17, <1>18, <1>19, StepCases

\* In every journal, of any number of sources, captures and units of any sizes
\* and under any interleaving of appends, receipts, cancellations, activations,
\* rejections and cleanup, the counters of the account and of each capture
\* equal the bytes of the units whose content is stored, and content and
\* metadata together stay within the budget.
THEOREM BytesAgree == Spec => []ByteAccounting
<1>1. Spec => []Bookkeeping
  BY BookkeepingInit, BookkeepingNext, RowsCorrect, UnitsCorrect, PTL DEF Spec
<1> QED BY <1>1, BookkeepingSuffices, UnitsCorrect, PTL

\* What reclaim is about to drop was counted.
ReclaimCovered == \A c \in Captures : \A R \in SUBSET Reclaimable(c) : UnitBytes(R) <= captures[c].retained

\* The check at the end of reclaim ("Reclamation exceeds retained capture
\* bytes") never fails: no batch of reclaimable units has more bytes than its
\* capture is charged for.
THEOREM ReclaimIsCovered == Spec => []ReclaimCovered
<1>1. ASSUME Bookkeeping PROVE ReclaimCovered
  <2> SUFFICES ASSUME NEW c \in Captures, NEW R \in SUBSET Reclaimable(c)
               PROVE  UnitBytes(R) <= captures[c].retained
    BY DEF ReclaimCovered
  <2> DEFINE V == OwnedBy(units, c)
  <2>1. Keyed(units) /\ V \in SUBSET units /\ captures[c].retained = BytesOf(V)
    BY <1>1 DEF Bookkeeping, Numbering, Counted, OwnedBy
  <2>2. R \in SUBSET {u \in V : u.body}
    BY DEF Reclaimable, OwnedBy
  <2> HIDE DEF V
  <2>3. Keyed(V) /\ BytesOf(V) \in Nat
    BY <2>1, BytesAre
  <2>4. UnitBytes(R) \in Nat /\ UnitBytes({u \in V : u.body} \ R) = BytesOf(V) - UnitBytes(R)
    BY <2>2, <2>3, DroppedBytes
  <2>5. {u \in V : u.body} \ R \in SUBSET V
    OBVIOUS
  <2>6. UnitBytes({u \in V : u.body} \ R) \in Nat
    BY <2>3, <2>5, BytesAre
  <2> QED BY <2>1, <2>3, <2>4, <2>6
<1>2. Spec => []Bookkeeping
  BY BookkeepingInit, BookkeepingNext, RowsCorrect, UnitsCorrect, PTL DEF Spec
<1> QED BY <1>1, <1>2, PTL

-----------------------------------------------------------------------------
(* Types                                                                   *)

ScopeTyped(r) ==
  /\ r.checkpoint \in Attempts \cup {Null}
  /\ r.coverage \in Captures \cup {Null}
  /\ r.observedCanonical \in Captures \cup {Null} /\ r.observedRaw \in Captures \cup {Null}
  /\ r.adopted \in BOOLEAN /\ r.initialized \in BOOLEAN
ScopesTyped == \A s \in Scopes : ScopeTyped(scopes[s])

\* The attempt a capture is begun with becomes its checkpoint.
Begins == \A c \in Captures : captures[c].state # "none" => captures[c].begin \in Attempts

\* An acknowledged unit has its receipt.
UnitSettled(u) ==
  /\ u.disposition \in {"pending", "acknowledged", "canceled"}
  /\ (u.disposition = "acknowledged") <=> (u.receipt # Null)
UnitsSettled == \A u \in units : UnitSettled(u)

Bounded ==
  /\ \A v \in RecordIds : versions[v].rev <= MaxRevision
  /\ \A r \in records : r.rev <= MaxRevision

LEMMA BeginsNext == Rows /\ Begins /\ [Next]_vars => Begins'
<1> SUFFICES ASSUME Rows, Begins, [Next]_vars, NEW c \in Captures, captures'[c].state # "none"
             PROVE  captures'[c].begin \in Attempts
  BY DEF Begins
<1>1. CASE Created(c)
  BY <1>1 DEF Created
<1>2. CASE Sealing(c)
  BY <1>2 DEF Sealing, Frozen, Begins
<1>3. CASE Settling(c)
  BY <1>3 DEF Settling, Frozen, Begins
<1> QED BY <1>1, <1>2, <1>3, StepMoves DEF Moves

LEMMA ScopesTypedNext == Rows /\ Begun /\ Begins /\ ScopesTyped /\ [Next]_vars => ScopesTyped'
<1> SUFFICES ASSUME Rows, Begun, Begins, ScopesTyped, [Next]_vars PROVE ScopesTyped'
  OBVIOUS
<1> USE DEF ScopesTyped, ScopeTyped
<1>1. ASSUME scopes' = scopes PROVE ScopesTyped'
  BY <1>1
<1>2. ASSUME NEW s \in Scopes, Claim(s) PROVE ScopesTyped'
  BY <1>2 DEF Claim, Rows, ScopeRow, ScopeFields
<1>3. ASSUME NEW s \in Scopes, NEW e, NEW f, NEW b, AdoptBaseline(s, e, f, b) PROVE ScopesTyped'
  BY <1>3 DEF AdoptBaseline, Rows, ScopeRow, ScopeFields
<1>4. ASSUME NEW s \in Scopes, NEW e, NEW c, NEW x, NEW b, NEW p \in Policies,
             Reserve(s, e, c, x, b, p.purpose, p.raw, p.track)
      PROVE  ScopesTyped'
  <2>1. p.track \in BOOLEAN
    BY JournalAssumption
  <2> DEFINE track == p.track
  <2>2. scopes' = [scopes EXCEPT ![s].initialized = @ \/ track]
    BY <1>4 DEF Reserve
  <2>3. track \in BOOLEAN
    BY <2>1
  <2> HIDE DEF track
  <2> QED BY <2>2, <2>3 DEF Rows, ScopeRow, ScopeFields
<1>5. CASE Quiet
  BY <1>1, <1>5 DEF Quiet, SetSourceMetadata, Append, Reclaim, CanonicalAcknowledged
<1>6. ASSUME NEW c \in Captures, NEW e, NEW next, NEW complete, Seal(c, e, next, complete) PROVE ScopesTyped'
  <2>1. captures[c].scope \in Scopes
    BY <1>6 DEF Seal, Owned, Rows, CaptureRow
  <2> QED BY <1>6, <2>1 DEF Seal, Rows, ScopeRow, ScopeFields
<1>7. ASSUME NEW c \in Captures, NEW e, NEW x \in Receipts, Activated(c, e, x) PROVE ScopesTyped'
  <2>1. captures[c].scope \in Scopes /\ captures[c].state = "sealed"
    BY <1>7 DEF Activated, Owned, Rows, CaptureRow
  <2>2. captures[c].next \in Attempts
    BY <2>1 DEF Begun, Begins
  <2> QED BY <1>7, <2>1, <2>2 DEF Activated, Rows, ScopeRow, ScopeFields
<1>8. ASSUME NEW c \in Captures, RawSettlement(c) PROVE ScopesTyped'
  BY <1>1, <1>8, RawSettlementEffect
<1>9. ASSUME NEW c \in Captures,
             \E e \in Epochs : (\E x \in Receipts : Rejected(c, e, x)) \/ AbandonUnsealed(c, e)
      PROVE  ScopesTyped'
  BY <1>1, <1>9, AbandonEffect
<1>10. ASSUME NEW s \in Scopes, NEW e, NEW c \in Captures, NEW R, NEW n, PruneRecords(s, e, c, R, n)
       PROVE  ScopesTyped'
  BY <1>1, <1>10, PruneEffect
<1>11. ASSUME NEW s \in Scopes, NEW e \in Epochs, NEW c \in Captures, NEW x \in Attempts \cup {Null}, NEW p \in Policies,
              Reserve(s, e, c, x, IF p.purpose = "publication" THEN IssuedFor[c] ELSE x,
                      p.purpose, p.raw, p.track)
       PROVE  ScopesTyped'
  <2> DEFINE b == IF p.purpose = "publication" THEN IssuedFor[c] ELSE x
  <2>1. Reserve(s, e, c, x, b, p.purpose, p.raw, p.track)
    BY <1>11
  <2> HIDE DEF b
  <2> QED BY <1>4, <2>1
<1> HIDE DEF ScopesTyped
<1> QED BY <1>2, <1>3, <1>5, <1>6, <1>7, <1>8, <1>9, <1>10, <1>11, StepCases

LEMMA DisposedTyped ==
  ASSUME Units, UnitsSettled, NEW D, NEW how, NEW receipt, Disposing(D, how, receipt)
  PROVE  UnitsSettled'
<1>1. ASSUME NEW u \in D PROVE UnitSettled(Disposed(u, how, receipt))
  <2>1. UnitRow(u)
    BY DEF Units, Disposing
  <2>2. Disposed(u, how, receipt).disposition = how /\ Disposed(u, how, receipt).receipt = receipt
    BY <2>1 DEF UnitRow, UnitFields, Disposed
  <2> QED BY <2>2 DEF Disposing, UnitSettled
<1> QED BY <1>1 DEF UnitsSettled, Disposing, Replaced

LEMMA UnitsSettledNext == Rows /\ Units /\ UnitsSettled /\ [Next]_vars => UnitsSettled'
<1> SUFFICES ASSUME Rows, Units, UnitsSettled, [Next]_vars PROVE UnitsSettled'
  OBVIOUS
<1>1. ASSUME units' = units PROVE UnitsSettled'
  BY <1>1 DEF UnitsSettled
<1>2. CASE Quiet
  <2>1. ASSUME NEW c \in Captures, NEW e \in Epochs, NEW k \in UnitKinds, NEW b \in Sizes, Append(c, e, k, b)
        PROVE  UnitsSettled'
    <3>1. PICK w : Appending(c, k, w)
      BY <2>1, AppendUnit
    <3>2. UnitSettled(w)
      BY <3>1 DEF Appending, UnitSettled
    <3> QED BY <3>1, <3>2 DEF Appending, UnitsSettled
  <2>2. ASSUME NEW c \in Captures, NEW e, NEW R, NEW n, Reclaim(c, e, R, n)
        PROVE  UnitsSettled'
    <3>1. /\ R \subseteq units
          /\ units' = Replaced(R, {[u EXCEPT !.body = FALSE] : u \in R})
      BY <2>2 DEF Reclaim, Reclaimable
    <3>2. \A u \in R : UnitSettled([u EXCEPT !.body = FALSE])
      BY <3>1 DEF Units, UnitRow, UnitFields, UnitsSettled, UnitSettled
    <3> QED BY <3>1, <3>2 DEF UnitsSettled, Replaced
  <2>3. CASE \E c \in Captures, e \in Epochs, u \in units, x \in UnitReceipts : CanonicalAcknowledged(c, e, u, x)
    BY <2>3, CanonicalUnits, DisposedTyped
  <2>4. CASE \E c \in Captures, e \in Epochs, b \in MetadataSizes : SetSourceMetadata(c, e, b)
    BY <1>1, <2>4 DEF SetSourceMetadata
  <2> QED BY <1>1, <1>2, <2>1, <2>2, <2>3, <2>4 DEF Quiet
<1>3. CASE \E c \in Captures : RawSettlement(c)
  BY <1>3, RawSettlementUnits, DisposedTyped
<1>4. ASSUME ~Quiet, ~\E c \in Captures : RawSettlement(c)
      PROVE  units' = units
  BY <1>4, StepCases, OtherUnits
<1> QED BY <1>1, <1>2, <1>3, <1>4

LEMMA BoundedNext == Rows /\ Records /\ Versions /\ Bounded /\ [Next]_vars => Bounded'
<1> SUFFICES ASSUME Rows, Records, Versions, Bounded, [Next]_vars PROVE Bounded'
  OBVIOUS
<1>1. CASE RecordsFollow
  BY <1>1 DEF RecordsFollow, SameObservation, Bounded
<1>2. ASSUME NEW c \in Captures, NEW k \in RecordKinds, NEW key \in KeysOf(k), NEW v, Recording(c, k, key, v)
      PROVE  Bounded'
  <2> DEFINE id == <<captures[c].scope, k, key>>
             r == RecordRow(c, k, key, v)
  <2>1. /\ id \in RecordIds /\ versions'[id] = v
        /\ \A w \in RecordIds \ {id} : versions'[w] = versions[w]
    BY <1>2, RecordedVersion
  <2>2. r.rev = v.rev
    BY RecordRowFields
  <2>3. records' = records \cup {r}
    BY <1>2 DEF Recording
  <2>4. v.rev <= MaxRevision
    BY <1>2, <2>1 DEF Recording, Allocates, Confirms, Bounded
  <2> HIDE DEF id, r
  <2> QED BY <2>1, <2>2, <2>3, <2>4 DEF Bounded
<1> QED BY <1>1, <1>2, RecordsStep

LEMMA TypesInit == Init => Begun /\ Begins /\ ScopesTyped /\ UnitsSettled /\ Bounded
<1> SUFFICES ASSUME Init PROVE Begun /\ Begins /\ ScopesTyped /\ UnitsSettled /\ Bounded
  OBVIOUS
<1>1. Begun /\ Begins
  BY DEF Init, NoCapture, Begun, Begins
<1>2. ScopesTyped
  BY DEF Init, NoScope, ScopesTyped, ScopeTyped
<1>3. UnitsSettled
  BY DEF Init, UnitsSettled
<1>4. Bounded
  BY JournalAssumption DEF Init, NoVersion, Bounded
<1> QED BY <1>1, <1>2, <1>3, <1>4

LEMMA TypesSuffice ==
  ASSUME Rows, Units, Records, Versions, VersionIdentity, Bookkeeping,
         Begun, Begins, ScopesTyped, UnitsSettled, Bounded
  PROVE  TypeOK
<1>1. ASSUME NEW s \in Scopes PROVE ScopeOK(scopes[s])
  <2>1. ScopeTyped(scopes[s]) /\ ScopeMetered(scopes[s]) /\ scopes[s].floor \in Nat
    BY DEF ScopesTyped, Bookkeeping, Metered, Rows, ScopeRow
  <2> QED BY <2>1 DEF ScopeTyped, ScopeMetered, ScopeOK
<1>2. ASSUME NEW c \in Captures PROVE CaptureOK(captures[c])
  <2> DEFINE r == captures[c]
  <2>1. /\ r.state \in States
        /\ IF r.state = "none" THEN r.scope = Null ELSE r.scope \in Scopes
        /\ (r.state \in {"activated", "completed"}) <=> (r.activation # Null)
    BY DEF Rows, CaptureRow
  <2>2. (r.state = "none") = (r.scope = Null) /\ r.scope \in Scopes \cup {Null}
    BY <2>1, JournalAssumption
  <2>3. r.next = Null => r.state \in {"none", "preparing", "abandoned"}
    <3>1. Null \notin Attempts
      BY JournalAssumption
    <3>2. r.state \notin {"none", "preparing", "abandoned"} => r.next \in Attempts
      BY <2>1 DEF States, Begun, Begins
    <3> QED BY <3>1, <3>2
  <2>4. r.retained \in Nat
    <3>1. Keyed(units) /\ OwnedBy(units, c) \in SUBSET units
      BY DEF Bookkeeping, Numbering, OwnedBy
    <3> QED BY <3>1, BytesAre DEF Bookkeeping, Counted
  <2> HIDE DEF r
  <2> QED BY <2>1, <2>2, <2>3, <2>4 DEF r, States, CaptureOK
<1>3. ASSUME NEW u \in units
      PROVE  /\ u.capture \in Captures /\ u.kind \in UnitKinds
             /\ u.disposition \in {"pending", "acknowledged", "canceled"}
             /\ (u.disposition = "acknowledged") = (u.receipt # Null)
  BY DEF Units, UnitRow, UnitsSettled, UnitSettled
<1>4. ASSUME NEW r \in records PROVE r.capture \in Captures /\ r.rev \in 1..MaxRevision
  <2>1. r.capture \in Captures /\ r.rev \in Nat /\ captures[r.capture].scope \in Scopes
    BY DEF Records, RecordRowOK, Rows, CaptureRow
  <2>2. r.rev > scopes[captures[r.capture].scope].floor
    BY DEF VersionIdentity
  <2>3. scopes[captures[r.capture].scope].floor \in Nat /\ r.rev <= MaxRevision /\ MaxRevision \in Nat
    BY <2>1, JournalAssumption DEF Rows, ScopeRow, Bounded
  <2> QED BY <2>1, <2>2, <2>3
<1>5. retained \in Nat
  <2>1. Keyed(units) /\ units \in SUBSET units
    BY DEF Bookkeeping, Numbering
  <2> QED BY <2>1, BytesAre DEF Bookkeeping, Counted
<1> QED BY <1>1, <1>2, <1>3, <1>4, <1>5 DEF TypeOK

\* Every row of the journal has its type: a capture's state agrees with its
\* scope, its seal and its receipt, a checkpoint is an attempt that was issued,
\* a unit is acknowledged exactly with a receipt, and revisions and counters
\* are in range.
THEOREM TypeCorrect == Spec => []TypeOK
<1>1. Spec => [](Begun /\ Begins /\ ScopesTyped /\ UnitsSettled /\ Bounded)
  BY TypesInit, BegunNext, BeginsNext, ScopesTypedNext, UnitsSettledNext, BoundedNext,
     RowsCorrect, UnitsCorrect, RecordsCorrect, PTL DEF Spec
<1>2. Spec => []Bookkeeping
  BY BookkeepingInit, BookkeepingNext, RowsCorrect, UnitsCorrect, PTL DEF Spec
<1> QED BY <1>1, <1>2, TypesSuffice, VersionsIdentify, RowsCorrect, UnitsCorrect, RecordsCorrect, PTL
=============================================================================
