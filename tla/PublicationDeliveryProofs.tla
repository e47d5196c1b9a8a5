---------------------- MODULE PublicationDeliveryProofs ----------------------
(***************************************************************************)
(* Proofs about delivery, for any processes, captures and attempts and any *)
(* number of claims, faults, orphaned calls and changes of the Raw policy: *)
(* what the journal records is what the Server did.                        *)
(***************************************************************************)
EXTENDS PublicationDelivery, TLAPS

-----------------------------------------------------------------------------
(* Rows                                                                    *)

ScopeFields == {"epoch", "checkpoint", "floor", "adopted", "baseline", "initialized", "coverage",
                "observedCanonical", "observedRaw"}
CaptureFields == {"state", "scope", "expected", "begin", "purpose", "raw", "track", "next",
                  "activation", "rejection", "canceled", "header", "retained", "retired"}
UnitFields == {"capture", "kind", "ordinal", "bytes", "body", "disposition", "receipt"}
AttFields == {"state", "session", "capture", "base", "filled"}
ProcFields == {"at", "epoch", "checkpoint", "base", "cap", "attempt", "changed", "ops", "view",
               "grant", "canceling", "walked"}
CallFields == {"op", "attempt", "cap", "base", "from"}

CaptureStates == {"none", "preparing", "sealed", "activated", "completed", "abandoned"}
AttStates == {"unissued", "reserved", "open", "sealed", "validated", "activated", "rejected"}
Sending == {"put", "seal", "validate", "activate", "reject", "renew"}
RawOps == {"receipt", "append"}

\* A capture row as delivery makes it: every one belongs to the source, tracks
\* versions and names the attempt it was begun with.
CaptureRow(r) ==
  /\ DOMAIN r = CaptureFields /\ r.state \in CaptureStates
  /\ r.state \in {"activated", "completed"} <=> r.activation # Null
  /\ r.state # "none" =>
       /\ r.scope = Source /\ r.track /\ r.begin \in Attempts
       /\ r.expected \in Attempts \cup {Null} /\ r.purpose \in {"publication", "raw-observation"}
       /\ r.purpose = "raw-observation" => r.expected # Null
       /\ r.state \in {"sealed", "activated", "completed"} => r.next # Null
       /\ r.state = "preparing" => r.next = Null
       /\ r.purpose = "publication" => r.next \in {Null, r.begin}
UnitRow(u) ==
  /\ DOMAIN u = UnitFields /\ u.kind \in Journal!UnitKinds
  /\ u.capture \in Captures /\ captures[u.capture].state # "none"
AttRow(r) ==
  /\ DOMAIN r = AttFields /\ r.state \in AttStates
  /\ r.session = IF r.state = "unissued" THEN Null ELSE Source
ProcRow(r) == DOMAIN r = ProcFields /\ DOMAIN r.view = {"state", "filled"} /\ r.epoch \in Nat
CallRow(r) == DOMAIN r = CallFields /\ r.from \in Processes \cup {Null}

JournalRows ==
  /\ DOMAIN scopes = {Source} /\ DOMAIN scopes[Source] = ScopeFields
  /\ scopes[Source].epoch \in Nat
  /\ DOMAIN captures = Captures /\ \A c \in Captures : CaptureRow(captures[c])
  /\ \A u \in units : UnitRow(u)
ServerRows ==
  /\ DOMAIN att = Attempts /\ \A i \in Attempts : AttRow(att[i])
  /\ DOMAIN head = {Source} /\ head[Source] \in Attempts \cup {Null}
ActorRows ==
  /\ DOMAIN procs = Processes /\ \A p \in Processes : ProcRow(procs[p])
  /\ \A r \in net : CallRow(r)

Rows == JournalRows /\ ServerRows /\ ActorRows

-----------------------------------------------------------------------------
(* The inductive invariant                                                 *)

Checkpoint == scopes[Source].checkpoint
Exists(c) == c \in Captures /\ captures[c].state # "none"
Publication(c, i) == Exists(c) /\ captures[c].purpose = "publication" /\ captures[c].begin = i
\* It was frozen once, and its attempt may have been delivered since.
Frozen(c, i) == Publication(c, i) /\ captures[c].next # Null

\* A claim belongs to one process, and the latest is the owner's.
Claims ==
  \A p \in Processes :
    /\ procs[p].epoch <= scopes[Source].epoch
    /\ \A q \in Processes : procs[p].epoch # 0 /\ procs[q].epoch = procs[p].epoch => p = q

\* Where a process stands says what it works on.
Delivering == {"reconcile", "renewed", "stored", "activated"}
Capturing ==
  Delivering \cup {"begun", "freeze", "observing", "settled", "raw", "receipt", "appended", "closing"}
Placed(p) ==
  LET q == procs[p] IN
  /\ q.at \in Capturing \cup {"idle", "owner", "reserved", "proving"}
  /\ q.at \in {"idle", "owner", "settled"} => q.view.state = "none"
  /\ q.at \in Capturing => Exists(q.cap)
  /\ q.at \in {"begun", "freeze"} => Publication(q.cap, q.attempt)
  /\ q.at \in Delivering => Frozen(q.cap, q.attempt)
  /\ q.at = "observing" => captures[q.cap].purpose = "raw-observation"
  /\ q.at = "reserved" /\ Owner(p) => q.base = Checkpoint

\* A reserved identity that no capture was bound to yet is held by one process.
Holds(p) == procs[p].at = "reserved" /\ procs[p].view.state = "reserved"
Held(p) ==
  Holds(p) =>
    LET i == procs[p].attempt IN
    /\ i \in Attempts /\ att[i].state = "reserved"
    /\ \A c \in Captures : ~Publication(c, i)
    /\ \A q \in Processes : Holds(q) /\ procs[q].attempt = i => p = q

\* A call was made for a capture that existed, and a process waits only for calls
\* about its own attempt.
Calling == {"reserved", "begun", "freeze", "proving", "receipt", "appended"} \cup Delivering
Linked(r) ==
  r.from # Null =>
    LET q == procs[r.from] IN
    /\ q.at \in Calling
    /\ r.op = "reserve" <=> q.at = "reserved"
    /\ r.op # "reserve" => r.attempt = q.attempt
    /\ r.op \in RawOps => r.cap = q.cap
Called(r) ==
  /\ r.op \in {"reserve", "begin", "status"} \cup Sending \cup RawOps
  /\ r.op = "status" => r.attempt \in Attempts
  /\ r.op = "begin" => Publication(r.cap, r.attempt) /\ captures[r.cap].expected = r.base
  /\ r.op \in Sending => Frozen(r.cap, r.attempt)
  /\ r.op \in RawOps => Exists(r.cap)

\* An attempt is the one of its capture, over the checkpoint the capture
\* expected; only a frozen capture gets it past "open".
Bound(i) ==
  LET a == att[i] IN
  /\ a.state \notin {"unissued", "reserved"} =>
       Publication(a.capture, i) /\ captures[a.capture].expected = a.base
  /\ a.state \notin {"unissued", "reserved", "open"} => captures[a.capture].next # Null

\* A capture has an issued attempt of its own; one at a time is unresolved.
Unresolved(c) == captures[c].state \in {"preparing", "sealed"}
Owning(c) ==
  Exists(c) =>
    /\ att[captures[c].begin].state # "unissued"
    /\ captures[c].purpose = "publication" =>
         \A d \in Captures : Publication(d, captures[c].begin) => d = c
    /\ Unresolved(c) => captures[c].expected = Checkpoint
    /\ \A d \in Captures : Unresolved(c) /\ Unresolved(d) => d = c

\* The head the next capture is compared with is the checkpoint.
Covering ==
  LET c == scopes[Source].coverage IN
  IF c = Null THEN Checkpoint = Null ELSE c \in Captures /\ captures[c].activation = Checkpoint

\* What the journal has settled is what the Server did.
Settled(c) ==
  Exists(c) =>
    LET i == captures[c].begin IN
    /\ captures[c].activation # Null => captures[c].activation = i
    /\ captures[c].activation # Null \/ captures[c].purpose = "raw-observation" =>
         att[i].state = "activated"
    /\ captures[c].state = "abandoned" /\ captures[c].purpose = "publication"
         /\ captures[c].next # Null => att[i].state = "rejected"
    /\ captures[c].state = "sealed" /\ captures[c].purpose = "publication"
         /\ att[i].state = "activated" => head[Source] = i
HeadActive == head[Source] # Null => att[head[Source]].state = "activated"

\* A terminal answer is about the attempt the process works on.
Told(p) ==
  procs[p].view.state \in {"activated", "rejected"} =>
    /\ procs[p].attempt \in Attempts
    /\ att[procs[p].attempt].state = procs[p].view.state

\* What the journal and the Server know ...
Store ==
  /\ Covering /\ HeadActive /\ HeadAccounted
  /\ \A i \in Attempts : Bound(i)
  /\ \A c \in Captures : Owning(c) /\ Settled(c)
\* ... and what the processes and the calls in flight may rely on.
Actors ==
  /\ Claims
  /\ \A p \in Processes : Placed(p) /\ Held(p) /\ Told(p)
  /\ \A r \in net : Linked(r) /\ Called(r)
Protocol == Store /\ Actors

\* Raw content.  What the archive answered stands, and an authority that has
\* ended never returns.
Authorized(c) == policy.enabled /\ intents[c] = policy.revision
Archived(p) ==
  LET v == procs[p].view.state
      c == procs[p].cap
  IN
  v \in {"stored", "refused", "absent"} =>
    /\ Exists(c)
    /\ v = "stored" => c \in archive
    /\ v = "refused" => ~Authorized(c)
    /\ v = "absent" /\ Owner(p) /\ captures[c].canceled = "authority" => c \notin archive
RawIntent(c) ==
  /\ intents[c] # Null => intents[c] \in 1..policy.revision
  /\ Exists(c) /\ captures[c].canceled = "authority" => ~Authorized(c)
Granting(p) == procs[p].grant # Null => procs[p].grant \in 1..policy.revision
Canceled(u) ==
  u.kind = "raw" /\ u.disposition = "canceled" => captures[u.capture].canceled # Null

Raw ==
  /\ policy.revision \in 1..MaxRevoked + 1 /\ DOMAIN intents = Captures
  /\ \A p \in Processes : Archived(p) /\ Granting(p)
  /\ \A c \in Captures : RawIntent(c) /\ RawTruthfully(c)
  /\ \A u \in units : Canceled(u)

-----------------------------------------------------------------------------
(* What journal transactions do to the rows delivery depends on.           *)

\* What a capture is never changes; what it has reached it keeps.
Same(d) ==
  /\ captures'[d].scope = captures[d].scope
  /\ captures'[d].expected = captures[d].expected
  /\ captures'[d].begin = captures[d].begin
  /\ captures'[d].purpose = captures[d].purpose
  /\ captures'[d].track = captures[d].track
Kept(d) ==
  /\ Same(d)
  /\ captures'[d].state = captures[d].state
  /\ captures'[d].next = captures[d].next
  /\ captures'[d].activation = captures[d].activation
  /\ captures'[d].canceled = captures[d].canceled
AllKept == \A d \in Captures : Kept(d)
OthersKept(c) == \A d \in Captures \ {c} : Kept(d)
ScopeKept ==
  /\ scopes'[Source].epoch = scopes[Source].epoch
  /\ scopes'[Source].checkpoint = scopes[Source].checkpoint
  /\ scopes'[Source].coverage = scopes[Source].coverage
\* A Raw unit is pending, or as it was.
RawKept(w) ==
  w.kind = "raw" =>
    \/ w.disposition = "pending"
    \/ \E u \in units : u.capture = w.capture /\ u.kind = w.kind /\ u.disposition = w.disposition
UnitsKept == \A w \in units' : RawKept(w)

LEMMA NullLemma == Null \notin Processes /\ Null \notin Captures /\ Null \notin Attempts
BY DeliveryAssumption

\* Claim advances the epoch.
LEMMA ClaimEffect ==
  ASSUME JournalRows, Journal!Claim(Source)
  PROVE  /\ JournalRows' /\ AllKept /\ UnitsKept
         /\ scopes'[Source].epoch = scopes[Source].epoch + 1
         /\ scopes'[Source].checkpoint = scopes[Source].checkpoint
         /\ scopes'[Source].coverage = scopes[Source].coverage
<1>1. captures' = captures /\ units' = units
  BY DEF Journal!Claim
<1>2. AllKept /\ UnitsKept
  BY <1>1 DEF AllKept, Kept, Same, UnitsKept, RawKept
<1>3. /\ DOMAIN scopes' = {Source} /\ DOMAIN scopes'[Source] = ScopeFields
      /\ scopes'[Source].epoch = scopes[Source].epoch + 1
      /\ scopes'[Source].checkpoint = scopes[Source].checkpoint
      /\ scopes'[Source].coverage = scopes[Source].coverage
  BY DEF Journal!Claim, JournalRows, ScopeFields
<1> QED BY <1>1, <1>2, <1>3 DEF JournalRows, UnitRow

\* The preparation of a capture, and the cleanup of what is no longer owed.
Quiet ==
  \/ \E c \in Captures : \E e, n : \E k \in Journal!UnitKinds : Journal!Append(c, e, k, n)
  \/ \E c, e, k, key, content, ref : Journal!Record(c, e, k, key, content, ref)
  \/ \E e, r : Journal!BindRecord(e, r)
  \/ \E c, e, u, x : Journal!CanonicalAcknowledged(c, e, u, x)
  \/ \E c \in Captures : \E e, R, n : Journal!Reclaim(c, e, R, n)
  \/ \E c \in Captures : \E e, R, n : Journal!PruneRecords(Source, e, c, R, n)
  \/ UNCHANGED journalVars

LEMMA QuietEffect ==
  ASSUME JournalRows, Quiet
  PROVE  JournalRows' /\ AllKept /\ ScopeKept /\ UnitsKept
<1> USE DEF JournalRows, AllKept, Kept, Same, ScopeKept
<1>1. CASE scopes' = scopes /\ captures' = captures /\ units' = units
  BY <1>1 DEF UnitsKept, RawKept, UnitRow
<1>2. ASSUME NEW c \in Captures, NEW e, NEW k \in Journal!UnitKinds, NEW n, Journal!Append(c, e, k, n)
      PROVE  JournalRows' /\ AllKept /\ ScopeKept /\ UnitsKept
  <2>0. PICK m : units' = units \cup {Journal!Unit(c, k, m, n)}
    BY <1>2, Zenon DEF Journal!Append
  <2> DEFINE w == Journal!Unit(c, k, m, n)
  <2>1. /\ units' = units \cup {w} /\ scopes' = scopes
        /\ captures' = [captures EXCEPT ![c].retained = @ + n] /\ captures[c].state = "preparing"
    BY <1>2, <2>0 DEF Journal!Append
  <2>2. DOMAIN w = UnitFields /\ w.kind = k /\ w.capture = c /\ w.disposition = "pending"
    BY DEF Journal!Unit, UnitFields
  <2> HIDE DEF w
  <2>3. AllKept /\ DOMAIN captures' = Captures /\ \A d \in Captures : CaptureRow(captures'[d])
    BY <2>1 DEF CaptureRow, CaptureFields
  <2>4. \A u \in units' : UnitRow(u)'
    BY <2>1, <2>2, <2>3 DEF UnitRow
  <2>5. UnitsKept
    BY <2>1, <2>2 DEF UnitsKept, RawKept
  <2> QED BY <2>1, <2>3, <2>4, <2>5
<1>3. ASSUME NEW c, NEW e, NEW u, NEW x, Journal!CanonicalAcknowledged(c, e, u, x)
      PROVE  JournalRows' /\ AllKept /\ ScopeKept /\ UnitsKept
  <2> DEFINE w == Journal!Disposed(u, "acknowledged", x)
  <2>1. /\ units' = (units \ {u}) \cup {w} /\ scopes' = scopes /\ captures' = captures
        /\ u \in units /\ u.kind = "canonical"
    BY <1>3 DEF Journal!CanonicalAcknowledged, Journal!Replaced, Journal!UnitsOf
  <2>2. DOMAIN w = UnitFields /\ w.kind = u.kind /\ w.capture = u.capture
    BY <2>1 DEF Journal!Disposed, UnitFields, UnitRow
  <2> HIDE DEF w
  <2>3. \A v \in units' : UnitRow(v)'
    BY <2>1, <2>2 DEF UnitRow
  <2>4. UnitsKept
    BY <2>1, <2>2 DEF UnitsKept, RawKept
  <2> QED BY <2>1, <2>3, <2>4
<1>4. ASSUME NEW c \in Captures, NEW e, NEW R, NEW n, Journal!Reclaim(c, e, R, n)
      PROVE  JournalRows' /\ AllKept /\ ScopeKept /\ UnitsKept
  <2>1. /\ units' = (units \ R) \cup {[u EXCEPT !.body = FALSE] : u \in R}
        /\ R \subseteq units /\ scopes' = scopes
        /\ \E b : captures' = [captures EXCEPT ![c].retained = @ - b]
    BY <1>4 DEF Journal!Reclaim, Journal!Replaced, Journal!Reclaimable
  <2>2. AllKept /\ DOMAIN captures' = Captures /\ \A d \in Captures : CaptureRow(captures'[d])
    BY <2>1 DEF CaptureRow, CaptureFields
  <2>3. ASSUME NEW v \in units'
        PROVE  \E u \in units : /\ DOMAIN v = UnitFields /\ v.kind = u.kind /\ v.capture = u.capture
                                /\ v.disposition = u.disposition
    <3>1. CASE v \in units
      BY <3>1 DEF UnitRow
    <3>2. CASE v \notin units
      <4>1. PICK u \in R : v = [u EXCEPT !.body = FALSE]
        BY <2>1, <3>2
      <4>2. u \in units /\ DOMAIN u = UnitFields
        BY <2>1 DEF UnitRow
      <4> QED BY <4>1, <4>2 DEF UnitFields
    <3> QED BY <3>1, <3>2
  <2>4. \A v \in units' : UnitRow(v)'
    BY <2>2, <2>3 DEF UnitRow
  <2>5. UnitsKept
    BY <2>3 DEF UnitsKept, RawKept
  <2> QED BY <2>1, <2>2, <2>4, <2>5
<1>5. ASSUME NEW c \in Captures, NEW e, NEW R, NEW n, Journal!PruneRecords(Source, e, c, R, n)
      PROVE  JournalRows' /\ AllKept /\ ScopeKept /\ UnitsKept
  <2>1. /\ scopes' = scopes /\ units' = units
        /\ captures' = [captures EXCEPT ![c].retired = TRUE]
    BY <1>5 DEF Journal!PruneRecords
  <2>2. AllKept /\ DOMAIN captures' = Captures /\ \A d \in Captures : CaptureRow(captures'[d])
    BY <2>1 DEF CaptureRow, CaptureFields
  <2>3. \A u \in units' : UnitRow(u)'
    BY <2>1, <2>2 DEF UnitRow
  <2>4. UnitsKept
    BY <2>1 DEF UnitsKept, RawKept
  <2> QED BY <2>1, <2>2, <2>3, <2>4
<1>6. CASE \E c, e, k, key, content, ref : Journal!Record(c, e, k, key, content, ref)
  BY <1>1, <1>6 DEF Journal!Record
<1>7. CASE \E e, r : Journal!BindRecord(e, r)
  BY <1>1, <1>7 DEF Journal!BindRecord
<1>8. CASE UNCHANGED journalVars
  BY <1>1, <1>8 DEF journalVars
<1> QED BY <1>2, <1>3, <1>4, <1>5, <1>6, <1>7, <1>8 DEF Quiet

\* Delivery reserves every capture with its flags set: it tracks source versions.
Tracked == TRUE

\* A new capture that expects the checkpoint, when no other is unresolved.
Reserving(c, i, purpose) ==
  /\ captures[c].state = "none"
  /\ \A d \in Captures : captures[d].state \notin {"preparing", "sealed"}
  /\ captures'[c].state = "preparing" /\ captures'[c].expected = Checkpoint
  /\ captures'[c].begin = i /\ captures'[c].purpose = purpose
  /\ captures'[c].next = Null /\ captures'[c].activation = Null
  /\ captures'[c].canceled = Null

\* Reserve makes one and touches no other.
LEMMA ReserveEffect ==
  ASSUME JournalRows, Checkpoint \in Attempts \cup {Null},
         NEW e, NEW c \in Captures, NEW x, NEW i \in Attempts,
         NEW purpose \in {"publication", "raw-observation"}, NEW raw,
         Journal!Reserve(Source, e, c, x, i, purpose, raw, Tracked)
  PROVE  /\ JournalRows' /\ OthersKept(c) /\ ScopeKept /\ units' = units
         /\ Reserving(c, i, purpose) /\ x = Checkpoint
         /\ Journal!OwnerScope(Source, e)
<1>1. /\ DOMAIN Journal!NoCapture = CaptureFields /\ Journal!NoCapture.next = Null
      /\ Journal!NoCapture.activation = Null /\ Journal!NoCapture.canceled = Null
  BY DEF Journal!NoCapture, CaptureFields
<1>2. /\ DOMAIN captures'[c] = CaptureFields
      /\ captures'[c].state = "preparing" /\ captures'[c].scope = Source
      /\ captures'[c].expected = x /\ captures'[c].begin = i
      /\ captures'[c].purpose = purpose /\ captures'[c].track = Tracked
      /\ captures'[c].next = Null /\ captures'[c].activation = Null
      /\ captures'[c].canceled = Null
  BY <1>1 DEF Journal!Reserve, JournalRows, CaptureFields
<1>3. DOMAIN captures' = Captures /\ \A d \in Captures \ {c} : captures'[d] = captures[d]
  BY DEF Journal!Reserve, JournalRows
<1>4. /\ x = Checkpoint /\ captures[c].state = "none" /\ units' = units
      /\ purpose = "raw-observation" => x # Null
      /\ Journal!OwnerScope(Source, e)
  BY DEF Journal!Reserve, Journal!Reservable, Checkpoint
<1>5. \A d \in Captures : CaptureRow(captures'[d])
  <2>1. captures'[c].track
    BY <1>2 DEF Tracked
  <2>2. CaptureRow(captures'[c])
    BY <1>2, <1>4, <2>1 DEF CaptureRow, CaptureStates
  <2> QED BY <1>3, <2>2 DEF JournalRows
<1>6. \A d \in Captures : captures[d].state \notin {"preparing", "sealed"}
  <2>1. \A d \in Captures : captures[d].scope = Source => captures[d].state \notin Journal!Unactivated
    <3>1. Journal!Reservable(Source, c, x, purpose, raw, Tracked)
      BY DEF Journal!Reserve
    <3> QED BY <3>1 DEF Journal!Reservable, Journal!CapturesOf
  <2>2. \A d \in Captures : captures[d].state # "none" => captures[d].scope = Source
    BY DEF JournalRows, CaptureRow
  <2> QED BY <2>1, <2>2 DEF Journal!Unactivated
<1>7. /\ DOMAIN scopes' = {Source} /\ DOMAIN scopes'[Source] = ScopeFields /\ ScopeKept
  BY DEF Journal!Reserve, JournalRows, ScopeFields, ScopeKept
<1>8. \A u \in units' : UnitRow(u)'
  BY <1>2, <1>3, <1>4 DEF JournalRows, UnitRow
<1>9. scopes'[Source].epoch \in Nat
  BY <1>7 DEF ScopeKept, JournalRows
<1> QED BY <1>2, <1>3, <1>4, <1>5, <1>6, <1>7, <1>8, <1>9
        DEF JournalRows, OthersKept, Kept, Same, Reserving

\* Seal freezes a capture; no checkpoint moves.
LEMMA SealEffect ==
  ASSUME JournalRows, NEW c \in Captures, NEW e, NEW next, NEW complete,
         Journal!Seal(c, e, next, complete), next # Null,
         captures[c].purpose = "publication" => next = captures[c].begin
  PROVE  /\ JournalRows' /\ OthersKept(c) /\ Same(c) /\ ScopeKept /\ units' = units
         /\ captures[c].state = "preparing" /\ captures'[c].state = "sealed"
         /\ captures'[c].next = next /\ captures'[c].activation = captures[c].activation
         /\ captures'[c].canceled = captures[c].canceled
         /\ Journal!OwnerScope(Source, e)
<1>1. /\ captures[c].state = "preparing" /\ captures[c].scope = Source /\ units' = units
      /\ Journal!OwnerScope(Source, e)
  BY DEF Journal!Seal, Journal!Owned, JournalRows, CaptureRow
<1>2. /\ DOMAIN captures' = Captures /\ DOMAIN captures'[c] = CaptureFields
      /\ captures'[c].state = "sealed" /\ captures'[c].next = next
      /\ captures'[c].activation = captures[c].activation
      /\ captures'[c].canceled = captures[c].canceled
      /\ Same(c)
      /\ \A d \in Captures \ {c} : captures'[d] = captures[d]
  BY DEF Journal!Seal, JournalRows, CaptureRow, CaptureFields, Same
<1>3. \A d \in Captures : CaptureRow(captures'[d])
  BY <1>1, <1>2 DEF JournalRows, CaptureRow, CaptureStates, Same
<1>4. DOMAIN scopes' = {Source} /\ DOMAIN scopes'[Source] = ScopeFields /\ ScopeKept
  BY <1>1 DEF Journal!Seal, JournalRows, ScopeFields, ScopeKept
<1>5. \A u \in units' : UnitRow(u)'
  BY <1>1, <1>2 DEF JournalRows, UnitRow
<1>6. scopes'[Source].epoch \in Nat
  BY <1>4 DEF ScopeKept, JournalRows
<1> QED BY <1>1, <1>2, <1>3, <1>4, <1>5, <1>6 DEF JournalRows, OthersKept, Kept, Same

\* complete() only moves an activated capture to "completed".
LEMMA CompletedRow ==
  ASSUME NEW c, NEW r, DOMAIN r = CaptureFields, NEW rows
  PROVE  LET d == Journal!Completed(c, r, rows) IN
         /\ DOMAIN d = CaptureFields
         /\ d.scope = r.scope /\ d.expected = r.expected /\ d.begin = r.begin
         /\ d.purpose = r.purpose /\ d.track = r.track /\ d.next = r.next
         /\ d.activation = r.activation /\ d.canceled = r.canceled
         /\ d.state = r.state \/ (d.state = "completed" /\ r.activation # Null)
BY DEF Journal!Completed, CaptureFields

\* Activated stores the receipt; a publication moves the checkpoint.
LEMMA ActivatedEffect ==
  ASSUME JournalRows, NEW c \in Captures, NEW e, NEW x, x # Null, Journal!Activated(c, e, x)
  PROVE  /\ JournalRows' /\ OthersKept(c) /\ Same(c) /\ units' = units
         /\ captures[c].state = "sealed" /\ captures'[c].state \in {"activated", "completed"}
         /\ captures'[c].next = captures[c].next /\ captures'[c].activation = x
         /\ captures'[c].canceled = captures[c].canceled
         /\ scopes'[Source].epoch = scopes[Source].epoch
         /\ captures[c].purpose = "publication" =>
              /\ scopes'[Source].checkpoint = captures[c].next
              /\ scopes'[Source].coverage = c
         /\ captures[c].purpose # "publication" => scopes' = scopes
         /\ Journal!OwnerScope(Source, e)
<1> DEFINE row == [captures[c] EXCEPT !.state = "activated", !.activation = x]
           done == Journal!Completed(c, row, units)
<1>1. /\ captures[c].scope = Source /\ captures[c].state = "sealed" /\ captures[c].track
      /\ Journal!OwnerScope(Source, e) /\ units' = units
  BY DEF Journal!Activated, Journal!Owned, JournalRows, CaptureRow
<1>2. /\ DOMAIN row = CaptureFields /\ row.state = "activated" /\ row.activation = x
      /\ row.scope = captures[c].scope /\ row.expected = captures[c].expected
      /\ row.begin = captures[c].begin /\ row.purpose = captures[c].purpose
      /\ row.track = captures[c].track /\ row.next = captures[c].next
      /\ row.canceled = captures[c].canceled
  BY DEF JournalRows, CaptureRow, CaptureFields
<1>3. captures' = [captures EXCEPT ![c] = done] \/ captures' = Journal!WithoutHeaders(c, done)
  BY DEF Journal!Activated
<1> HIDE DEF row
<1>4. /\ DOMAIN done = CaptureFields /\ done.state \in {"activated", "completed"}
      /\ done.activation = x
      /\ done.scope = captures[c].scope /\ done.expected = captures[c].expected
      /\ done.begin = captures[c].begin /\ done.purpose = captures[c].purpose
      /\ done.track = captures[c].track /\ done.next = captures[c].next
      /\ done.canceled = captures[c].canceled
  BY <1>2, CompletedRow
<1> HIDE DEF done
<1>5. /\ DOMAIN captures' = Captures /\ captures'[c] = done
      /\ \A d \in Captures \ {c} : captures'[d] \in {captures[d], [captures[d] EXCEPT !.header = 0]}
  BY <1>3 DEF JournalRows, Journal!WithoutHeaders
<1>6. \A d \in Captures \ {c} : Kept(d) /\ CaptureRow(captures'[d])
  BY <1>5 DEF JournalRows, CaptureRow, CaptureFields, Kept, Same
<1>7. CaptureRow(captures'[c]) /\ Same(c)
  BY <1>1, <1>4, <1>5 DEF JournalRows, CaptureRow, CaptureStates, Same
<1>8. /\ DOMAIN scopes' = {Source} /\ DOMAIN scopes'[Source] = ScopeFields
      /\ scopes'[Source].epoch = scopes[Source].epoch
      /\ captures[c].purpose = "publication" =>
           /\ scopes'[Source].checkpoint = captures[c].next
           /\ scopes'[Source].coverage = c
      /\ captures[c].purpose # "publication" => scopes' = scopes
  BY <1>1 DEF Journal!Activated, JournalRows, ScopeFields
<1>9. \A u \in units' : UnitRow(u)'
  BY <1>1, <1>4, <1>5, <1>6 DEF JournalRows, UnitRow, Kept
<1> QED BY <1>1, <1>4, <1>5, <1>6, <1>7, <1>8, <1>9 DEF JournalRows, OthersKept

\* A capture whose Raw content is settled keeps what it is and may complete.
Settling(c) ==
  /\ OthersKept(c) /\ Same(c) /\ scopes' = scopes
  /\ captures[c].state # "none"
  /\ captures'[c].next = captures[c].next /\ captures'[c].activation = captures[c].activation
  /\ captures'[c].state = captures[c].state
       \/ (captures'[c].state = "completed" /\ captures[c].activation # Null)

LEMMA SettlingEffect ==
  ASSUME JournalRows, NEW c \in Captures, captures[c].state # "none", scopes' = scopes,
         \A w \in units' : \E u \in units : DOMAIN w = UnitFields /\ w.capture = u.capture /\ w.kind = u.kind,
         NEW canceled, NEW rows, NEW r, DOMAIN r = CaptureFields,
         r.scope = captures[c].scope, r.expected = captures[c].expected, r.begin = captures[c].begin,
         r.purpose = captures[c].purpose, r.track = captures[c].track, r.next = captures[c].next,
         r.activation = captures[c].activation, r.state = captures[c].state, r.canceled = canceled,
         captures' = [captures EXCEPT ![c] = Journal!Completed(c, r, rows)]
  PROVE  JournalRows' /\ Settling(c) /\ captures'[c].canceled = canceled
<1> DEFINE d == Journal!Completed(c, r, rows)
<1>1. /\ DOMAIN d = CaptureFields
      /\ d.scope = r.scope /\ d.expected = r.expected /\ d.begin = r.begin
      /\ d.purpose = r.purpose /\ d.track = r.track /\ d.next = r.next
      /\ d.activation = r.activation /\ d.canceled = r.canceled
      /\ d.state = r.state \/ (d.state = "completed" /\ r.activation # Null)
  BY CompletedRow
<1> HIDE DEF d
<1>2. DOMAIN captures' = Captures /\ captures'[c] = d /\ \A b \in Captures \ {c} : captures'[b] = captures[b]
  BY DEF JournalRows, d
<1>3. CaptureRow(captures[c])
  BY DEF JournalRows
<1>4. CaptureRow(d)
  <2>1. d.track <=> captures[c].track
    BY <1>1
  <2> QED BY <1>1, <1>3, <2>1 DEF CaptureRow, CaptureStates
<1>5. \A b \in Captures : CaptureRow(captures'[b])
  BY <1>2, <1>4 DEF JournalRows
<1>6. Settling(c) /\ captures'[c].canceled = canceled
  BY <1>1, <1>2 DEF Settling, OthersKept, Kept, Same
<1>7. ASSUME NEW w \in units' PROVE UnitRow(w)'
  <2>1. PICK u \in units : DOMAIN w = UnitFields /\ w.capture = u.capture /\ w.kind = u.kind
    OBVIOUS
  <2>2. UnitRow(u)
    BY DEF JournalRows
  <2>3. captures'[u.capture].state # "none"
    BY <2>2, <1>1, <1>2 DEF UnitRow
  <2> QED BY <2>1, <2>2, <2>3 DEF UnitRow
<1> QED BY <1>2, <1>5, <1>6, <1>7 DEF JournalRows

\* RawAcknowledged stores the receipt of one unit of capture c.
LEMMA RawAcknowledgedEffect ==
  ASSUME JournalRows, NEW c \in Captures, NEW e, NEW u, NEW x, Journal!RawAcknowledged(c, e, u, x)
  PROVE  /\ JournalRows' /\ Settling(c) /\ captures'[c].canceled = captures[c].canceled
         /\ Journal!OwnerScope(Source, e)
         /\ \A w \in units' : RawKept(w) \/ (w.capture = c /\ w.disposition = "acknowledged")
<1> DEFINE v == Journal!Disposed(u, "acknowledged", x)
           rows == Journal!Replaced({u}, {v})
<1>1. /\ u \in units /\ u.capture = c /\ captures[c].state # "none"
      /\ Journal!OwnerScope(Source, e) /\ scopes' = scopes /\ units' = rows
      /\ captures' = [captures EXCEPT ![c] = Journal!Completed(c, captures[c], rows)]
  BY DEF Journal!RawAcknowledged, Journal!Owned, Journal!UnitsOf, JournalRows, CaptureRow
<1>2. DOMAIN v = UnitFields /\ v.capture = c /\ v.kind = u.kind /\ v.disposition = "acknowledged"
  BY <1>1 DEF Journal!Disposed, JournalRows, UnitRow, UnitFields
<1> HIDE DEF v
<1>3. rows = (units \ {u}) \cup {v}
  BY DEF Journal!Replaced
<1> HIDE DEF rows
<1>4. \A w \in units' : \E q \in units : DOMAIN w = UnitFields /\ w.capture = q.capture /\ w.kind = q.kind
  BY <1>1, <1>2, <1>3 DEF JournalRows, UnitRow
<1>5. DOMAIN captures[c] = CaptureFields
  BY DEF JournalRows, CaptureRow
<1>6. JournalRows' /\ Settling(c) /\ captures'[c].canceled = captures[c].canceled
  BY <1>1, <1>4, <1>5, SettlingEffect
<1>7. \A w \in units' : RawKept(w) \/ (w.capture = c /\ w.disposition = "acknowledged")
  BY <1>1, <1>2, <1>3 DEF RawKept
<1> QED BY <1>1, <1>6, <1>7

\* CancelUnits keeps the first reason.
LEMMA CancelUnitsEffect ==
  ASSUME JournalRows, NEW c \in Captures, captures[c].state # "none", scopes' = scopes,
         NEW U, U \subseteq units, \A u \in U : u.capture = c,
         NEW reason, Journal!CancelUnits(c, U, reason)
  PROVE  /\ JournalRows' /\ Settling(c)
         /\ captures'[c].canceled =
              IF captures[c].canceled = Null THEN reason ELSE captures[c].canceled
         /\ \A w \in units' : w \in units \/ (w.capture = c /\ w.disposition = "canceled" /\ U # {})
<1> DEFINE X == Journal!Cancelable(U)
           Y == {Journal!Disposed(u, "canceled", Null) : u \in X}
           rows == Journal!Replaced(X, Y)
           r == [captures[c] EXCEPT !.canceled = IF captures[c].canceled = Null THEN reason ELSE @]
           canceled == IF captures[c].canceled = Null THEN reason ELSE captures[c].canceled
<1>1. /\ units' = rows /\ captures' = [captures EXCEPT ![c] = Journal!Completed(c, r, rows)]
  BY DEF Journal!CancelUnits
<1>2. X \subseteq U
  BY DEF Journal!Cancelable
<1>3. ASSUME NEW w \in Y
      PROVE  \E u \in units : /\ DOMAIN w = UnitFields /\ w.capture = u.capture /\ w.kind = u.kind
                              /\ w.capture = c /\ w.disposition = "canceled" /\ U # {}
  <2>1. PICK u \in X : w = Journal!Disposed(u, "canceled", Null)
    OBVIOUS
  <2>2. u \in units /\ DOMAIN u = UnitFields /\ u.capture = c /\ U # {}
    BY <1>2 DEF JournalRows, UnitRow
  <2>3. DOMAIN w = UnitFields /\ w.capture = u.capture /\ w.kind = u.kind /\ w.disposition = "canceled"
    BY <2>1, <2>2 DEF Journal!Disposed, UnitFields
  <2> QED BY <2>2, <2>3
<1>4. rows = (units \ X) \cup Y
  BY DEF Journal!Replaced
<1> HIDE DEF rows, X, Y
<1>5. \A w \in units' : \E u \in units : DOMAIN w = UnitFields /\ w.capture = u.capture /\ w.kind = u.kind
  BY <1>1, <1>3, <1>4 DEF JournalRows, UnitRow
<1>6. DOMAIN captures[c] = CaptureFields
  BY DEF JournalRows, CaptureRow
<1>7. /\ DOMAIN r = CaptureFields /\ r.scope = captures[c].scope
      /\ r.expected = captures[c].expected /\ r.begin = captures[c].begin
      /\ r.purpose = captures[c].purpose /\ r.track = captures[c].track /\ r.next = captures[c].next
      /\ r.activation = captures[c].activation /\ r.state = captures[c].state
      /\ r.canceled = canceled
  BY <1>6 DEF CaptureFields
<1> HIDE DEF r, canceled
<1>8. JournalRows' /\ Settling(c) /\ captures'[c].canceled = canceled
  BY <1>1, <1>5, <1>7, SettlingEffect
<1>9. \A w \in units' : w \in units \/ (w.capture = c /\ w.disposition = "canceled" /\ U # {})
  BY <1>1, <1>3, <1>4
<1> QED BY <1>8, <1>9 DEF canceled

\* RawUnitCanceled cancels one unit of a capture that is being canceled.
LEMMA RawUnitCanceledEffect ==
  ASSUME JournalRows, NEW c \in Captures, NEW e, NEW u, Journal!RawUnitCanceled(c, e, u)
  PROVE  /\ JournalRows' /\ Settling(c)
         /\ captures[c].canceled # Null /\ captures'[c].canceled = captures[c].canceled
         /\ Journal!OwnerScope(Source, e)
         /\ \A w \in units' : RawKept(w) \/ (w.capture = c /\ w.disposition = "canceled")
<1>1. /\ u \in units /\ u.capture = c /\ captures[c].state # "none" /\ captures[c].canceled # Null
      /\ Journal!OwnerScope(Source, e) /\ scopes' = scopes /\ Journal!CancelUnits(c, {u}, Null)
  BY DEF Journal!RawUnitCanceled, Journal!Owned, Journal!UnitsOf, JournalRows, CaptureRow
<1>2. /\ JournalRows' /\ Settling(c)
      /\ captures'[c].canceled =
              IF captures[c].canceled = Null THEN Null ELSE captures[c].canceled
      /\ \A w \in units' : w \in units \/ (w.capture = c /\ w.disposition = "canceled" /\ {u} # {})
  BY <1>1, CancelUnitsEffect
<1> QED BY <1>1, <1>2 DEF RawKept

\* RawCancellationStarted durably records why.
LEMMA RawCancellationStartedEffect ==
  ASSUME JournalRows, NEW c \in Captures, NEW e, NEW reason, Journal!RawCancellationStarted(c, e, reason)
  PROVE  /\ JournalRows' /\ Settling(c) /\ UnitsKept
         /\ captures'[c].canceled =
              IF captures[c].canceled = Null THEN reason ELSE captures[c].canceled
         /\ Journal!OwnerScope(Source, e)
<1>1. /\ captures[c].state # "none" /\ Journal!OwnerScope(Source, e) /\ scopes' = scopes
      /\ Journal!CancelUnits(c, {}, reason)
  BY DEF Journal!RawCancellationStarted, Journal!Owned, JournalRows, CaptureRow
<1>2. /\ JournalRows' /\ Settling(c)
      /\ captures'[c].canceled =
              IF captures[c].canceled = Null THEN reason ELSE captures[c].canceled
      /\ \A w \in units' : w \in units \/ (w.capture = c /\ w.disposition = "canceled" /\ {} # {})
  BY <1>1, CancelUnitsEffect
<1> QED BY <1>1, <1>2 DEF UnitsKept, RawKept

\* Rejected and AbandonUnsealed end an unresolved capture.
LEMMA AbandonedEffect ==
  ASSUME JournalRows, NEW c \in Captures, NEW e, NEW x,
         Journal!Rejected(c, e, x) \/ Journal!AbandonUnsealed(c, e)
  PROVE  /\ JournalRows' /\ OthersKept(c) /\ Same(c) /\ scopes' = scopes /\ units' = units
         /\ captures'[c].state = "abandoned"
         /\ captures'[c].next = captures[c].next /\ captures'[c].activation = captures[c].activation
         /\ captures'[c].canceled = captures[c].canceled
         /\ captures[c].state =
              IF Journal!Rejected(c, e, x) THEN "sealed" ELSE "preparing"
         /\ Journal!OwnerScope(Source, e)
<1>1. /\ Journal!OwnerScope(Source, e) /\ scopes' = scopes /\ units' = units
      /\ captures[c].state = IF Journal!Rejected(c, e, x) THEN "sealed" ELSE "preparing"
  BY DEF Journal!Rejected, Journal!AbandonUnsealed, Journal!Owned, JournalRows, CaptureRow
<1>2. \E y : captures' = [captures EXCEPT ![c] = [@ EXCEPT !.state = "abandoned", !.rejection = y, !.header = 0]]
  BY DEF Journal!Rejected, Journal!AbandonUnsealed, Journal!Abandoned
<1>3. /\ DOMAIN captures' = Captures /\ DOMAIN captures'[c] = CaptureFields
      /\ captures'[c].state = "abandoned" /\ captures'[c].next = captures[c].next
      /\ captures'[c].activation = captures[c].activation
      /\ captures'[c].canceled = captures[c].canceled /\ Same(c)
      /\ \A d \in Captures \ {c} : captures'[d] = captures[d]
  BY <1>2 DEF JournalRows, CaptureRow, CaptureFields, Same
<1>4. CaptureRow(captures'[c])
  BY <1>1, <1>3 DEF JournalRows, CaptureRow, CaptureStates, Same
<1>5. \A u \in units' : UnitRow(u)'
  BY <1>1, <1>3 DEF JournalRows, UnitRow
<1> QED BY <1>1, <1>3, <1>4, <1>5 DEF JournalRows, OthersKept, Kept, Same

-----------------------------------------------------------------------------
(* The journal and the Server, under each journal transaction.             *)

LEMMA CheckpointKnown ==
  ASSUME JournalRows, Store
  PROVE  Checkpoint \in Attempts \cup {Null} /\ BaseHead = Checkpoint
<1>1. CASE scopes[Source].coverage = Null
  BY <1>1 DEF Store, Covering, BaseHead, Checkpoint
<1>2. CASE scopes[Source].coverage # Null
  <2> DEFINE c == scopes[Source].coverage
  <2>1. c \in Captures /\ captures[c].activation = Checkpoint
    BY <1>2 DEF Store, Covering
  <2>2. BaseHead = Checkpoint
    BY <1>2, <2>1 DEF BaseHead
  <2>3. Checkpoint # Null => captures[c].state # "none"
    BY <2>1 DEF JournalRows, CaptureRow
  <2>4. Checkpoint # Null => captures[c].activation = captures[c].begin /\ captures[c].begin \in Attempts
    BY <2>1, <2>3 DEF JournalRows, CaptureRow, Store, Settled, Exists
  <2> QED BY <2>1, <2>2, <2>4
<1> QED BY <1>1, <1>2

\* A transaction that leaves every capture where it is.
LEMMA StoreQuiet ==
  ASSUME JournalRows, JournalRows', Store, AllKept, UNCHANGED <<att, head>>,
         scopes'[Source].checkpoint = scopes[Source].checkpoint,
         scopes'[Source].coverage = scopes[Source].coverage
  PROVE  Store'
<1> USE DEF AllKept, Kept, Same
<1>1. Checkpoint' = Checkpoint
  BY DEF Checkpoint
<1>2. Covering' /\ HeadActive'
  BY <1>1 DEF Store, Covering, HeadActive
<1>3. HeadAccounted'
  BY DEF Store, HeadAccounted
<1>4. \A i \in Attempts : Bound(i)'
  BY DEF Store, Bound, Publication, Exists
<1>5. \A c \in Captures : Owning(c)'
  BY <1>1 DEF Store, Owning, Publication, Exists, Unresolved
<1>6. \A c \in Captures : Settled(c)'
  BY DEF Store, Settled, Exists
<1> QED BY <1>2, <1>3, <1>4, <1>5, <1>6 DEF Store

\* A transaction about one capture that leaves no more of it unresolved; the
\* checkpoint moves only when it resolves the capture.
LEMMA StoreChange ==
  ASSUME JournalRows, JournalRows', Store, UNCHANGED <<att, head>>,
         NEW c \in Captures, OthersKept(c), Same(c),
         captures[c].state # "none", captures'[c].state # "none",
         captures[c].next # Null => captures'[c].next = captures[c].next,
         Unresolved(c)' => Unresolved(c),
         scopes'[Source].checkpoint = scopes[Source].checkpoint \/ (Unresolved(c) /\ ~Unresolved(c)')
  PROVE  /\ \A i \in Attempts : Bound(i)'
         /\ \A d \in Captures : Owning(d)'
         /\ \A d \in Captures \ {c} : Settled(d)'
         /\ HeadActive'
<1> USE DEF OthersKept, Kept, Same
<1>1. \A d \in Captures : Exists(d)' <=> Exists(d)
  BY DEF Exists
<1>2. \A d \in Captures : \A i : Publication(d, i)' <=> Publication(d, i)
  BY <1>1 DEF Publication
<1>3. \A d \in Captures : captures[d].next # Null => captures'[d].next = captures[d].next
  OBVIOUS
<1>4. \A d \in Captures : captures'[d].expected = captures[d].expected /\ captures'[d].begin = captures[d].begin
  OBVIOUS
<1>5. ASSUME NEW i \in Attempts PROVE Bound(i)'
  <2>1. Bound(i)
    BY DEF Store
  <2> QED BY <1>2, <1>3, <1>4, <2>1 DEF Bound, Publication, Exists
<1>6. ASSUME NEW d \in Captures PROVE Owning(d)'
  <2>1. Owning(d) /\ Owning(c)
    BY DEF Store
  <2>2. \A b \in Captures : Unresolved(b)' => Unresolved(b)
    BY DEF Unresolved
  <2>3. Exists(d) /\ Unresolved(d)' => scopes'[Source].checkpoint = scopes[Source].checkpoint
    <3>1. CASE d = c
      BY <3>1
    <3>2. CASE d # c
      <4>1. Exists(c)
        BY DEF Exists
      <4> QED BY <2>1, <2>2, <3>2, <4>1 DEF Owning
    <3> QED BY <3>1, <3>2
  <2>4. CASE Exists(d)
    <3>1. att'[captures'[d].begin].state # "unissued"
      BY <1>4, <2>1, <2>4 DEF Owning
    <3>2. captures'[d].purpose = "publication" =>
            \A b \in Captures : Publication(b, captures[d].begin)' => b = d
      BY <1>1, <1>4, <2>1, <2>4 DEF Owning, Publication
    <3>3. Unresolved(d)' => captures'[d].expected = scopes'[Source].checkpoint
      BY <1>4, <2>1, <2>2, <2>3, <2>4 DEF Owning, Checkpoint
    <3>4. \A b \in Captures : Unresolved(d)' /\ Unresolved(b)' => b = d
      BY <2>1, <2>2, <2>4 DEF Owning
    <3> QED BY <3>1, <3>2, <3>3, <3>4 DEF Owning, Checkpoint
  <2>5. CASE ~Exists(d)
    BY <1>1, <2>5 DEF Owning
  <2> QED BY <2>4, <2>5
<1>7. \A d \in Captures \ {c} : Settled(d)'
  BY DEF Store, Settled, Exists
<1>8. HeadActive'
  BY DEF Store, HeadActive
<1> QED BY <1>5, <1>6, <1>7, <1>8

\* The published head stays accounted for when nothing sealed is resolved.
LEMMA HeadStays ==
  ASSUME HeadAccounted, head' = head, att' = att,
         scopes'[Source].checkpoint = scopes[Source].checkpoint,
         \A d \in Captures :
           captures[d].state = "sealed" /\ captures[d].purpose = "publication" /\ captures[d].begin = head[Source] =>
             /\ captures'[d].state = "sealed" /\ captures'[d].purpose = "publication"
             /\ captures'[d].begin = captures[d].begin /\ captures'[d].expected = captures[d].expected
  PROVE  HeadAccounted'
BY DEF HeadAccounted

\* A new capture has an attempt of its own, or observes an activated one.
LEMMA StoreReserve ==
  ASSUME Rows, Store, UNCHANGED <<att, head>>,
         NEW e, NEW c \in Captures, NEW x, NEW i \in Attempts,
         NEW purpose \in {"publication", "raw-observation"}, NEW raw,
         Journal!Reserve(Source, e, c, x, i, purpose, raw, Tracked),
         att[i].state # "unissued",
         purpose = "publication" => \A d \in Captures : ~Publication(d, i),
         purpose = "raw-observation" => att[i].state = "activated"
  PROVE  Store'
<1>1. Checkpoint \in Attempts \cup {Null}
  BY CheckpointKnown DEF Rows
<1>2. /\ JournalRows' /\ OthersKept(c) /\ ScopeKept
      /\ captures[c].state = "none"
      /\ \A d \in Captures : captures[d].state \notin {"preparing", "sealed"}
      /\ captures'[c].state = "preparing" /\ captures'[c].expected = Checkpoint
      /\ captures'[c].begin = i /\ captures'[c].purpose = purpose
      /\ captures'[c].next = Null /\ captures'[c].activation = Null
  <2>1. JournalRows
    BY DEF Rows
  <2>2. JournalRows' /\ OthersKept(c) /\ ScopeKept /\ Reserving(c, i, purpose)
    BY <1>1, <2>1, ReserveEffect
  <2> QED BY <2>2 DEF Reserving
<1>3. Checkpoint' = Checkpoint
  BY <1>2 DEF Checkpoint, ScopeKept
<1>4. captures[c].activation = Null
  BY <1>2 DEF Rows, JournalRows, CaptureRow
<1>5. \A d \in Captures \ {c} : Exists(d)' <=> Exists(d)
  BY <1>2 DEF OthersKept, Kept, Exists
<1>6. HeadAccounted'
  BY <1>2, HeadStays DEF ScopeKept, Store
<1>7. Covering' /\ HeadActive'
  <2>1. scopes'[Source].coverage = scopes[Source].coverage
    BY <1>2 DEF ScopeKept
  <2>2. \A d \in Captures : captures'[d].activation = captures[d].activation
    BY <1>2, <1>4 DEF OthersKept, Kept
  <2> QED BY <1>3, <2>1, <2>2 DEF Store, Covering, HeadActive
<1>8. ASSUME NEW j \in Attempts PROVE Bound(j)'
  <2>1. Bound(j)
    BY DEF Store
  <2>2. \A d \in Captures : Publication(d, j) => d # c
    BY <1>2 DEF Publication, Exists
  <2> QED BY <1>2, <2>1, <2>2 DEF Bound, Publication, Exists, OthersKept, Kept, Same
<1>9. ASSUME NEW d \in Captures PROVE Owning(d)'
  <2>1. CASE d = c
    <3>1. captures'[c].purpose = "publication" => \A b \in Captures : Publication(b, captures[c].begin)' => b = c
      BY <1>2, <1>5 DEF Publication, OthersKept, Kept, Same
    <3>2. \A b \in Captures : Unresolved(b)' => b = c
      BY <1>2 DEF Unresolved, OthersKept, Kept
    <3> QED BY <1>2, <1>3, <2>1, <3>1, <3>2 DEF Owning, Checkpoint
  <2>2. CASE d # c /\ Exists(d)
    <3>1. Owning(d) /\ Kept(d) /\ ~Unresolved(d)'
      BY <1>2, <2>2 DEF Store, OthersKept, Kept, Unresolved
    <3>2. captures'[d].purpose = "publication" => \A b \in Captures : Publication(b, captures[d].begin)' => b = d
      <4> SUFFICES ASSUME captures[d].purpose = "publication", NEW b \in Captures,
                          Publication(b, captures[d].begin)'
                   PROVE  b = d
        BY <3>1 DEF Kept, Same
      <4>1. CASE b = c
        BY <4>1, <1>2, <2>2, <3>1 DEF Publication, Kept, Same
      <4>2. CASE b # c
        BY <4>2, <1>2, <1>5, <2>2, <3>1 DEF Owning, Publication, OthersKept, Kept, Same
      <4> QED BY <4>1, <4>2
    <3>3. att'[captures'[d].begin].state # "unissued"
      BY <2>2, <3>1 DEF Owning, Kept, Same
    <3> QED BY <3>1, <3>2, <3>3 DEF Owning
  <2>3. CASE ~Exists(d) /\ d # c
    BY <1>5, <2>3 DEF Owning
  <2> QED BY <2>1, <2>2, <2>3
<1>10. ASSUME NEW d \in Captures PROVE Settled(d)'
  <2>1. CASE d = c
    BY <1>2, <2>1 DEF Settled
  <2>2. CASE d # c
    BY <1>2, <2>2 DEF Store, Settled, Exists, OthersKept, Kept, Same
  <2> QED BY <2>1, <2>2
<1> QED BY <1>6, <1>7, <1>8, <1>9, <1>10 DEF Store

\* A capture is frozen before its attempt is sealed, so it is not active yet.
LEMMA StoreSeal ==
  ASSUME Rows, Store, UNCHANGED <<att, head>>, NEW c \in Captures, NEW e, NEW next, NEW complete,
         Journal!Seal(c, e, next, complete), next # Null,
         captures[c].purpose = "publication" => next = captures[c].begin
  PROVE  Store'
<1>1. /\ JournalRows' /\ OthersKept(c) /\ Same(c) /\ ScopeKept
      /\ captures[c].state = "preparing" /\ captures'[c].state = "sealed"
      /\ captures'[c].next = next /\ captures'[c].activation = captures[c].activation
  BY SealEffect DEF Rows
<1>2. captures[c].next = Null /\ captures[c].activation = Null /\ captures[c].begin \in Attempts
  BY <1>1 DEF Rows, JournalRows, CaptureRow
<1>3. /\ \A i \in Attempts : Bound(i)'
      /\ \A d \in Captures : Owning(d)'
      /\ \A d \in Captures \ {c} : Settled(d)'
      /\ HeadActive'
  BY <1>1, <1>2, StoreChange DEF Rows, Unresolved, ScopeKept
<1>4. Settled(c)'
  <2> DEFINE i == captures[c].begin
  <2>1. captures[c].purpose = "publication" => att[i].state # "activated"
    <3> SUFFICES ASSUME captures[c].purpose = "publication", att[i].state = "activated" PROVE FALSE
      OBVIOUS
    <3>1. Publication(att[i].capture, i) /\ captures[att[i].capture].next # Null
      BY <1>2 DEF Store, Bound
    <3>2. att[i].capture = c
      BY <1>1, <3>1 DEF Store, Owning, Exists, Publication
    <3> QED BY <1>2, <3>1, <3>2
  <2>2. captures[c].purpose = "raw-observation" => att[i].state = "activated"
    BY <1>1 DEF Store, Settled, Exists
  <2> QED BY <1>1, <1>2, <2>1, <2>2 DEF Settled, Same
<1>5. Covering'
  BY <1>1 DEF Store, Covering, ScopeKept, OthersKept, Kept, Checkpoint
<1>6. HeadAccounted'
  BY <1>1, HeadStays DEF Store, ScopeKept, OthersKept, Kept, Same
<1> QED BY <1>3, <1>4, <1>5, <1>6 DEF Store

\* The head is what an activated publication leaves as the checkpoint.
LEMMA StoreActivated ==
  ASSUME Rows, Store, UNCHANGED <<att, head>>, NEW c \in Captures, NEW e,
         Journal!Activated(c, e, captures[c].begin),
         att[captures[c].begin].state = "activated"
  PROVE  Store'
<1> DEFINE i == captures[c].begin
<1>0. Journal!Owned(c, e) /\ captures[c].state = "sealed"
  BY DEF Journal!Activated
<1>1. i \in Attempts /\ i # Null /\ captures[c].track
  BY <1>0, NullLemma DEF Rows, JournalRows, CaptureRow
<1>2. /\ JournalRows' /\ OthersKept(c) /\ Same(c)
      /\ captures[c].state = "sealed" /\ captures'[c].state \in {"activated", "completed"}
      /\ captures'[c].next = captures[c].next /\ captures'[c].activation = i
      /\ captures[c].purpose = "publication" =>
           /\ scopes'[Source].checkpoint = captures[c].next
           /\ scopes'[Source].coverage = c
      /\ captures[c].purpose # "publication" => scopes' = scopes
  BY <1>1, ActivatedEffect DEF Rows
<1>3. /\ \A j \in Attempts : Bound(j)'
      /\ \A d \in Captures : Owning(d)'
      /\ \A d \in Captures \ {c} : Settled(d)'
      /\ HeadActive'
  BY <1>2, StoreChange DEF Rows, Unresolved
<1>4. Settled(c)'
  BY <1>2 DEF Settled, Same
<1>5. Covering' /\ HeadAccounted'
  <2>1. CASE captures[c].purpose = "publication"
    <3>1. captures[c].next = i
      BY <1>2, <2>1 DEF Rows, JournalRows, CaptureRow
    <3>2. head[Source] = i
      BY <1>2, <2>1 DEF Store, Settled, Exists
    <3> QED BY <1>1, <1>2, <2>1, <3>1, <3>2, NullLemma DEF Covering, HeadAccounted, Checkpoint
  <2>2. CASE captures[c].purpose # "publication"
    <3>1. captures[c].activation = Null
      BY <1>2 DEF Rows, JournalRows, CaptureRow
    <3>2. HeadAccounted'
      BY <1>2, <2>2, HeadStays DEF Store, OthersKept, Kept, Same
    <3>3. Covering'
      <4>1. CASE scopes[Source].coverage = Null
        BY <1>2, <2>2, <4>1 DEF Store, Covering, Checkpoint
      <4>2. CASE scopes[Source].coverage # Null
        <5>0. Checkpoint # Null
          <6>1. captures[c].expected # Null
            BY <1>2, <2>2 DEF Rows, JournalRows, CaptureRow
          <6>2. Exists(c) /\ Unresolved(c) /\ Owning(c)
            BY <1>2 DEF Exists, Unresolved, Store
          <6> QED BY <6>1, <6>2 DEF Owning
        <5>1. scopes[Source].coverage # c
          BY <3>1, <4>2, <5>0 DEF Store, Covering
        <5> QED BY <1>2, <2>2, <4>2, <5>1 DEF Store, Covering, Checkpoint, OthersKept, Kept
      <4> QED BY <4>1, <4>2
    <3> QED BY <3>2, <3>3
  <2> QED BY <2>1, <2>2
<1> QED BY <1>3, <1>4, <1>5 DEF Store

LEMMA StoreSettling ==
  ASSUME Rows, JournalRows', Store, UNCHANGED <<att, head>>, NEW c \in Captures, Settling(c)
  PROVE  Store'
<1>1. captures'[c].state # "none"
  BY DEF Settling
<1>2. captures[c].activation # Null => captures[c].state \in {"activated", "completed"}
  BY DEF Rows, JournalRows, CaptureRow
<1>3. /\ \A j \in Attempts : Bound(j)'
      /\ \A d \in Captures : Owning(d)'
      /\ \A d \in Captures \ {c} : Settled(d)'
      /\ HeadActive'
  BY <1>1, StoreChange DEF Rows, Unresolved, Settling
<1>4. Settled(c)'
  BY <1>2 DEF Store, Settled, Settling, Same, Exists
<1>5. Covering'
  BY DEF Store, Covering, Settling, OthersKept, Kept, Checkpoint
<1>6. HeadAccounted'
  BY <1>2, HeadStays DEF Store, Settling, OthersKept, Kept, Same
<1> QED BY <1>3, <1>4, <1>5, <1>6 DEF Store

\* A capture is abandoned before it was frozen, or with the Server's rejection.
LEMMA StoreAbandoned ==
  ASSUME Rows, Store, UNCHANGED <<att, head>>, NEW c \in Captures, NEW e, NEW x,
         Journal!Rejected(c, e, x) \/ Journal!AbandonUnsealed(c, e),
         Journal!Rejected(c, e, x) => att[captures[c].begin].state = "rejected"
  PROVE  Store'
<1>1. /\ JournalRows' /\ OthersKept(c) /\ Same(c) /\ scopes' = scopes
      /\ captures'[c].state = "abandoned"
      /\ captures'[c].next = captures[c].next /\ captures'[c].activation = captures[c].activation
      /\ captures[c].state =
           IF Journal!Rejected(c, e, x) THEN "sealed" ELSE "preparing"
  BY AbandonedEffect DEF Rows
<1>2. captures[c].activation = Null /\ captures[c].begin \in Attempts
  BY <1>1 DEF Rows, JournalRows, CaptureRow
<1>3. /\ \A j \in Attempts : Bound(j)'
      /\ \A d \in Captures : Owning(d)'
      /\ \A d \in Captures \ {c} : Settled(d)'
      /\ HeadActive'
  BY <1>1, StoreChange DEF Rows, Unresolved
<1>4. Settled(c)'
  <2>1. Exists(c) /\ Settled(c)
    BY <1>1 DEF Exists, Store
  <2>2. captures[c].state = "preparing" => captures[c].next = Null
    BY DEF Rows, JournalRows, CaptureRow
  <2> QED BY <1>1, <1>2, <2>1, <2>2 DEF Settled, Same
<1>5. Covering'
  BY <1>1 DEF Store, Covering, OthersKept, Kept, Checkpoint
<1>6. HeadAccounted'
  <2>1. captures[c].state = "sealed" => captures[c].begin # head[Source]
    BY <1>1, <1>2, NullLemma DEF Store, HeadActive
  <2> QED BY <1>1, <2>1, HeadStays DEF Store, OthersKept, Kept, Same
<1> QED BY <1>3, <1>4, <1>5, <1>6 DEF Store

-----------------------------------------------------------------------------
(* The journal and the Server, under each call the Server serves.          *)

AttKept(j) ==
  /\ DOMAIN att'[j] = AttFields
  /\ att'[j].state = att[j].state /\ att'[j].session = att[j].session
  /\ att'[j].capture = att[j].capture /\ att'[j].base = att[j].base
OtherAttKept(i) == \A j \in Attempts \ {i} : AttKept(j)

\* What no call undoes: an identity stays issued, an answer stays given.
Lasting(j) ==
  /\ att[j].state # "unissued" => att'[j].state # "unissued"
  /\ att[j].state \in {"activated", "rejected"} =>
       att'[j].state = att[j].state /\ att'[j].base = att[j].base

\* A call about attempt i leaves it in the given state.
Reaches(i, state) ==
  /\ ServerRows' /\ OtherAttKept(i) /\ att'[i].state = state

LEMMA LosingKept ==
  ASSUME ServerRows, NEW L, NEW j \in Attempts
  PROVE  LET r == Server!Losing(L)[j] IN
         /\ DOMAIN r = AttFields /\ r.state = att[j].state /\ r.session = att[j].session
         /\ r.capture = att[j].capture /\ r.base = att[j].base
<1>1. DOMAIN att[j] = AttFields
  BY DEF ServerRows, AttRow
<1>2. Server!Losing(L)[j] \in {att[j], [att[j] EXCEPT !.filled = FALSE]}
  BY DEF Server!Losing
<1> QED BY <1>1, <1>2 DEF AttFields

LEMMA ServeReserveEffect ==
  ASSUME ServerRows, NEW i \in Attempts, Server!Reserve(Source, i)
  PROVE  Reaches(i, "reserved") /\ att[i].state = "unissued" /\ head' = head
<1>1. /\ att[i].state = "unissued" /\ head' = head
      /\ att' = [att EXCEPT ![i] = [Server!Unissued EXCEPT !.state = "reserved", !.session = Source]]
  BY DEF Server!Reserve
<1>2. DOMAIN Server!Unissued = AttFields
  BY DEF Server!Unissued, AttFields
<1>3. DOMAIN att' = Attempts /\ OtherAttKept(i)
  BY <1>1 DEF ServerRows, AttRow, OtherAttKept, AttKept
<1>4. DOMAIN att'[i] = AttFields /\ att'[i].state = "reserved" /\ att'[i].session = Source
  BY <1>1, <1>2 DEF ServerRows, AttFields
<1>5. \A j \in Attempts : AttRow(att'[j])
  BY <1>3, <1>4 DEF ServerRows, AttRow, AttStates, OtherAttKept, AttKept
<1> QED BY <1>1, <1>3, <1>4, <1>5 DEF Reaches, ServerRows

LEMMA ServeBeginEffect ==
  ASSUME ServerRows, NEW i \in Attempts, NEW c, NEW b, Server!Begin(i, c, b)
  PROVE  /\ Reaches(i, "open") /\ att[i].state = "reserved" /\ head' = head
         /\ att'[i].capture = c /\ att'[i].base = b /\ att'[i].session = att[i].session
<1> DEFINE L == Server!Rivals(i)
           f == Server!Losing(L)
<1>1. /\ att[i].state = "reserved" /\ head' = head
      /\ att' = [f EXCEPT ![i] = [f[i] EXCEPT !.state = "open", !.capture = c, !.base = b]]
  BY DEF Server!Begin
<1>2. DOMAIN f = Attempts
  BY DEF Server!Losing
<1>3. \A j \in Attempts : /\ DOMAIN f[j] = AttFields /\ f[j].state = att[j].state
                          /\ f[j].session = att[j].session
                          /\ f[j].capture = att[j].capture /\ f[j].base = att[j].base
  BY LosingKept
<1> HIDE DEF f
<1>4. DOMAIN att' = Attempts /\ OtherAttKept(i)
  BY <1>1, <1>2, <1>3 DEF OtherAttKept, AttKept
<1>5. /\ DOMAIN att'[i] = AttFields /\ att'[i].state = "open" /\ att'[i].session = att[i].session
      /\ att'[i].capture = c /\ att'[i].base = b
  BY <1>1, <1>2, <1>3 DEF AttFields
<1>6. \A j \in Attempts : AttRow(att'[j])
  BY <1>1, <1>4, <1>5 DEF ServerRows, AttRow, AttStates, OtherAttKept, AttKept
<1> QED BY <1>1, <1>4, <1>5, <1>6 DEF Reaches, ServerRows

\* A call that changes only the state of attempt i, or what it holds.
Moves(i, state) ==
  /\ Reaches(i, state)
  /\ att'[i].capture = att[i].capture /\ att'[i].base = att[i].base

LEMMA MovesTo ==
  ASSUME ServerRows, head'[Source] \in Attempts \cup {Null}, DOMAIN head' = {Source},
         NEW i \in Attempts, NEW state \in AttStates \ {"unissued"}, att[i].state # "unissued",
         DOMAIN att' = Attempts, \A j \in Attempts \ {i} : att'[j] = att[j],
         DOMAIN att'[i] = AttFields, att'[i].state = state, att'[i].session = att[i].session,
         att'[i].capture = att[i].capture, att'[i].base = att[i].base
  PROVE  Moves(i, state)
<1>1. OtherAttKept(i)
  BY DEF ServerRows, AttRow, OtherAttKept, AttKept
<1>2. \A j \in Attempts : AttRow(att'[j])
  BY DEF ServerRows, AttRow
<1> QED BY <1>1, <1>2 DEF Moves, Reaches, ServerRows

LEMMA ServePutEffect ==
  ASSUME ServerRows, NEW i \in Attempts, Server!Put(i)
  PROVE  Moves(i, "open") /\ att[i].state = "open" /\ head' = head
<1>1. att[i].state = "open" /\ head' = head /\ att' = [att EXCEPT ![i].filled = TRUE]
  BY DEF Server!Put
<1>2. /\ DOMAIN att' = Attempts /\ \A j \in Attempts \ {i} : att'[j] = att[j]
      /\ DOMAIN att'[i] = AttFields /\ att'[i].state = "open" /\ att'[i].session = att[i].session
      /\ att'[i].capture = att[i].capture /\ att'[i].base = att[i].base
  BY <1>1 DEF ServerRows, AttRow, AttFields
<1> QED BY <1>1, <1>2, MovesTo DEF ServerRows, AttStates

LEMMA ServeSealEffect ==
  ASSUME ServerRows, NEW i \in Attempts, Server!Seal(i)
  PROVE  Moves(i, "sealed") /\ att[i].state = "open" /\ head' = head
<1>1. /\ att[i].state = "open" /\ head' = head
      /\ att' = [att EXCEPT ![i] = [@ EXCEPT !.state = "sealed", !.filled = FALSE]]
  BY DEF Server!Seal
<1>2. /\ DOMAIN att' = Attempts /\ \A j \in Attempts \ {i} : att'[j] = att[j]
      /\ DOMAIN att'[i] = AttFields /\ att'[i].state = "sealed" /\ att'[i].session = att[i].session
      /\ att'[i].capture = att[i].capture /\ att'[i].base = att[i].base
  BY <1>1 DEF ServerRows, AttRow, AttFields
<1> QED BY <1>1, <1>2, MovesTo DEF ServerRows, AttStates

LEMMA ServeValidateEffect ==
  ASSUME ServerRows, NEW i \in Attempts, Server!Validate(i)
  PROVE  Moves(i, "validated") /\ att[i].state = "sealed" /\ head' = head
<1>1. att[i].state = "sealed" /\ head' = head /\ att' = [att EXCEPT ![i].state = "validated"]
  BY DEF Server!Validate
<1>2. /\ DOMAIN att' = Attempts /\ \A j \in Attempts \ {i} : att'[j] = att[j]
      /\ DOMAIN att'[i] = AttFields /\ att'[i].state = "validated" /\ att'[i].session = att[i].session
      /\ att'[i].capture = att[i].capture /\ att'[i].base = att[i].base
  BY <1>1 DEF ServerRows, AttRow, AttFields
<1> QED BY <1>1, <1>2, MovesTo DEF ServerRows, AttStates

LEMMA ServeRejectEffect ==
  ASSUME ServerRows, NEW i \in Attempts, Server!Reject(i)
  PROVE  /\ Moves(i, "rejected") /\ head' = head
         /\ att[i].state \in {"open", "sealed", "validated", "rejected"}
<1>1. /\ att[i].state \in {"open", "sealed", "validated", "rejected"} /\ head' = head
      /\ att' = [att EXCEPT ![i] = [@ EXCEPT !.state = "rejected", !.filled = FALSE]]
  BY DEF Server!Reject, Server!Writable
<1>2. /\ DOMAIN att' = Attempts /\ \A j \in Attempts \ {i} : att'[j] = att[j]
      /\ DOMAIN att'[i] = AttFields /\ att'[i].state = "rejected" /\ att'[i].session = att[i].session
      /\ att'[i].capture = att[i].capture /\ att'[i].base = att[i].base
  BY <1>1 DEF ServerRows, AttRow, AttFields
<1> QED BY <1>1, <1>2, MovesTo DEF ServerRows, AttStates

LEMMA ServeActivateEffect ==
  ASSUME ServerRows, NEW i \in Attempts, Server!Activate(i)
  PROVE  /\ Moves(i, "activated") /\ att[i].state = "validated"
         /\ att[i].base = head[Source] /\ head'[Source] = i
<1>1. att[i].session = Source
  BY DEF Server!Activate, ServerRows, AttRow
<1>2. /\ att[i].state = "validated" /\ att[i].base = head[Source]
      /\ DOMAIN head' = {Source} /\ head'[Source] = i
      /\ att' = [att EXCEPT ![i].state = "activated"]
  BY <1>1 DEF Server!Activate, ServerRows
<1>3. /\ DOMAIN att' = Attempts /\ \A j \in Attempts \ {i} : att'[j] = att[j]
      /\ DOMAIN att'[i] = AttFields /\ att'[i].state = "activated" /\ att'[i].session = att[i].session
      /\ att'[i].capture = att[i].capture /\ att'[i].base = att[i].base
  BY <1>2 DEF ServerRows, AttRow, AttFields
<1> QED BY <1>2, <1>3, MovesTo DEF ServerRows, AttStates

LEMMA ExpireEffect ==
  ASSUME ServerRows, NEW L, Server!Lose(L)
  PROVE  ServerRows' /\ head' = head /\ \A j \in Attempts : AttKept(j)
<1>1. att' = Server!Losing(L) /\ head' = head
  BY DEF Server!Lose
<1>2. DOMAIN att' = Attempts
  BY <1>1 DEF Server!Losing
<1>3. \A j \in Attempts : AttKept(j)
  BY <1>1, LosingKept DEF AttKept
<1>4. \A j \in Attempts : AttRow(att'[j])
  BY <1>3 DEF ServerRows, AttRow, AttKept
<1> QED BY <1>1, <1>2, <1>3, <1>4 DEF ServerRows

\* A call that activates nothing and keeps attempts bound to their captures.
LEMMA StoreServed ==
  ASSUME Rows, Store, UNCHANGED <<scopes, captures>>, head' = head,
         \A j \in Attempts : Lasting(j) /\ Bound(j)' /\ (att'[j].state = "activated" => att[j].state = "activated")
  PROVE  Store'
<1>1. HeadActive'
  BY DEF Store, HeadActive, Lasting, Rows, ServerRows
<1>2. HeadAccounted'
  <2>1. CASE head[Source] = scopes[Source].checkpoint
    BY <2>1 DEF HeadAccounted
  <2>2. CASE head[Source] # scopes[Source].checkpoint
    <3>1. PICK c \in Captures :
            /\ captures[c].state = "sealed" /\ captures[c].purpose = "publication"
            /\ captures[c].begin = head[Source]
            /\ captures[c].expected = scopes[Source].checkpoint
            /\ att[head[Source]].base = scopes[Source].checkpoint
      BY <2>2 DEF Store, HeadAccounted
    <3>2. head[Source] \in Attempts
      BY <3>1 DEF Rows, JournalRows, CaptureRow
    <3>3. att[head[Source]].state = "activated"
      BY <3>2, NullLemma DEF Store, HeadActive
    <3>4. att'[head[Source]].base = scopes[Source].checkpoint
      BY <3>1, <3>2, <3>3 DEF Lasting
    <3> QED BY <3>1, <3>4 DEF HeadAccounted
  <2> QED BY <2>1, <2>2
<1>3. Covering'
  BY DEF Store, Covering, Checkpoint
<1>4. \A c \in Captures : Exists(c) => captures[c].begin \in Attempts
  BY DEF Exists, Rows, JournalRows, CaptureRow
<1>5. ASSUME NEW c \in Captures PROVE Owning(c)'
  <2>1. Exists(c) => att'[captures[c].begin].state # "unissued"
    BY <1>4 DEF Store, Owning, Lasting
  <2> QED BY <2>1 DEF Store, Owning, Publication, Exists, Unresolved, Checkpoint
<1>6. ASSUME NEW c \in Captures PROVE Settled(c)'
  BY <1>4 DEF Store, Settled, Lasting, Exists
<1> QED BY <1>1, <1>2, <1>3, <1>5, <1>6 DEF Store

\* The capture of an attempt that can be activated is the one sealed capture,
\* and what it replaces is the checkpoint.
LEMMA ActivatableCapture ==
  ASSUME Rows, Store, NEW i \in Attempts, att[i].state \in {"sealed", "validated"}
  PROVE  LET c == att[i].capture IN
         /\ c \in Captures /\ captures[c].state = "sealed" /\ captures[c].purpose = "publication"
         /\ captures[c].begin = i /\ captures[c].expected = Checkpoint /\ att[i].base = Checkpoint
<1> DEFINE c == att[i].capture
<1>1. /\ c \in Captures /\ captures[c].state # "none" /\ captures[c].purpose = "publication"
      /\ captures[c].begin = i /\ captures[c].expected = att[i].base /\ captures[c].next # Null
  BY DEF Store, Bound, Publication, Exists
<1>2. Settled(c) /\ Owning(c) /\ Exists(c)
  BY <1>1 DEF Store, Exists
<1>3. captures[c].activation = Null
  BY <1>1, <1>2 DEF Settled
<1>4. captures[c].state # "abandoned"
  BY <1>1, <1>2 DEF Settled
<1>5. captures[c].state = "sealed"
  BY <1>1, <1>3, <1>4 DEF Rows, JournalRows, CaptureRow, CaptureStates
<1>6. captures[c].expected = Checkpoint
  BY <1>2, <1>5 DEF Owning, Unresolved
<1> QED BY <1>1, <1>5, <1>6

\* Activation publishes over the checkpoint, so the new head is accounted for.
LEMMA StoreActivate ==
  ASSUME Rows, Store, UNCHANGED <<scopes, captures>>, NEW i \in Attempts, Server!Activate(i)
  PROVE  ServerRows' /\ Store' /\ \A j \in Attempts : Lasting(j)
<1> DEFINE c == att[i].capture
<1>1. /\ Moves(i, "activated") /\ att[i].state = "validated"
      /\ att[i].base = head[Source] /\ head'[Source] = i
  BY ServeActivateEffect DEF Rows
<1>2. /\ c \in Captures /\ captures[c].state = "sealed" /\ captures[c].purpose = "publication"
      /\ captures[c].begin = i /\ captures[c].expected = Checkpoint /\ att[i].base = Checkpoint
  BY <1>1, ActivatableCapture
<1>3. /\ ServerRows' /\ att'[i].state = "activated" /\ att'[i].base = att[i].base
      /\ att'[i].capture = c /\ \A j \in Attempts \ {i} : AttKept(j)
  BY <1>1 DEF Moves, Reaches, OtherAttKept
<1>4. \A j \in Attempts : Lasting(j)
  BY <1>1, <1>3 DEF Lasting, AttKept
<1>5. HeadActive' /\ HeadAccounted' /\ Covering'
  BY <1>1, <1>2, <1>3 DEF Store, HeadActive, HeadAccounted, Covering, Checkpoint
<1>6. ASSUME NEW j \in Attempts PROVE Bound(j)'
  <2>1. Bound(j)
    BY DEF Store
  <2>2. CASE j = i
    BY <1>1, <1>3, <2>1, <2>2 DEF Bound, Publication, Exists
  <2>3. CASE j # i
    BY <1>3, <2>1, <2>3 DEF Bound, Publication, Exists, AttKept
  <2> QED BY <2>2, <2>3
<1>7. \A d \in Captures : Exists(d) => captures[d].begin \in Attempts
  BY DEF Exists, Rows, JournalRows, CaptureRow
<1>8. ASSUME NEW d \in Captures PROVE Owning(d)'
  <2>1. Exists(d) => att'[captures[d].begin].state # "unissued"
    BY <1>4, <1>7 DEF Store, Owning, Lasting
  <2> QED BY <2>1 DEF Store, Owning, Publication, Exists, Unresolved, Checkpoint
<1>9. ASSUME NEW d \in Captures PROVE Settled(d)'
  <2>1. Settled(d) /\ Owning(c)
    BY <1>2 DEF Store
  <2>2. captures[d].state = "sealed" => d = c
    BY <1>2, <2>1 DEF Owning, Exists, Unresolved
  <2> QED BY <1>1, <1>2, <1>3, <1>4, <1>7, <2>1, <2>2 DEF Settled, Exists, Lasting
<1> QED BY <1>3, <1>4, <1>5, <1>6, <1>8, <1>9 DEF Store

\* Attempt i goes to a state that is not "activated"; its capture was frozen if
\* the state says that it was sealed.
LEMMA StoreReaches ==
  ASSUME Rows, Store, UNCHANGED <<scopes, captures>>, head' = head,
         NEW i \in Attempts, NEW state \in AttStates \ {"unissued", "activated"}, Reaches(i, state),
         att[i].state \in {"activated", "rejected"} =>
           att[i].state = state /\ att'[i].base = att[i].base,
         Bound(i)'
  PROVE  ServerRows' /\ Store' /\ \A j \in Attempts : Lasting(j)
<1>1. ServerRows' /\ att'[i].state = state /\ \A j \in Attempts \ {i} : AttKept(j)
  BY DEF Reaches, OtherAttKept
<1>2. \A j \in Attempts : Lasting(j)
  BY <1>1 DEF Lasting, AttKept
<1>3. ASSUME NEW j \in Attempts PROVE Bound(j)' /\ (att'[j].state = "activated" => att[j].state = "activated")
  <2>1. CASE j = i
    BY <1>1, <2>1
  <2>2. CASE j # i
    BY <1>1, <2>2 DEF Store, Bound, Publication, Exists, AttKept
  <2> QED BY <2>1, <2>2
<1> QED BY <1>1, <1>2, <1>3, StoreServed

LEMMA StoreReserved ==
  ASSUME Rows, Store, UNCHANGED <<scopes, captures>>, NEW i \in Attempts, Server!Reserve(Source, i)
  PROVE  ServerRows' /\ Store' /\ \A j \in Attempts : Lasting(j)
<1>1. Reaches(i, "reserved") /\ att[i].state = "unissued" /\ head' = head
  BY ServeReserveEffect DEF Rows
<1>2. Bound(i)'
  BY <1>1 DEF Reaches, Bound
<1> QED BY <1>1, <1>2, StoreReaches DEF AttStates

LEMMA StoreBegun ==
  ASSUME Rows, Store, UNCHANGED <<scopes, captures>>, NEW i \in Attempts, NEW c, NEW b,
         Publication(c, i), captures[c].expected = b, Server!Begin(i, c, b)
  PROVE  ServerRows' /\ Store' /\ \A j \in Attempts : Lasting(j)
<1>1. /\ Reaches(i, "open") /\ att[i].state = "reserved" /\ head' = head
      /\ att'[i].capture = c /\ att'[i].base = b
  BY ServeBeginEffect DEF Rows
<1>2. Bound(i)'
  BY <1>1 DEF Reaches, Bound, Publication, Exists
<1> QED BY <1>1, <1>2, StoreReaches DEF AttStates

\* The calls that move an attempt on come from delivery of a frozen capture.
LEMMA StoreMoved ==
  ASSUME Rows, Store, UNCHANGED <<scopes, captures>>, NEW i \in Attempts, NEW c, Frozen(c, i),
         Server!Put(i) \/ Server!Seal(i) \/ Server!Validate(i) \/ Server!Reject(i)
  PROVE  ServerRows' /\ Store' /\ \A j \in Attempts : Lasting(j)
<1>1. /\ head' = head /\ att[i].state \in {"open", "sealed", "validated", "rejected"}
      /\ \E state \in {"open", "sealed", "validated", "rejected"} :
           Moves(i, state) /\ (att[i].state = "rejected" => state = "rejected")
  BY ServePutEffect, ServeSealEffect, ServeValidateEffect, ServeRejectEffect DEF Rows
<1>2. PICK state \in {"open", "sealed", "validated", "rejected"} :
        Moves(i, state) /\ (att[i].state = "rejected" => state = "rejected")
  BY <1>1
<1>3. Bound(i)'
  <2>1. Publication(att[i].capture, i) /\ captures[att[i].capture].expected = att[i].base
    BY <1>1 DEF Store, Bound
  <2>2. att[i].capture = c
    BY <2>1 DEF Store, Owning, Frozen, Publication, Exists
  <2> QED BY <1>2, <2>1, <2>2 DEF Moves, Reaches, Bound, Publication, Exists, Frozen
<1> QED BY <1>1, <1>2, <1>3, StoreReaches DEF Moves, AttStates

LEMMA StoreExpired ==
  ASSUME Rows, Store, UNCHANGED <<scopes, captures>>, NEW L, Server!Lose(L)
  PROVE  ServerRows' /\ Store' /\ \A j \in Attempts : Lasting(j) /\ att'[j].state = att[j].state
<1>1. ServerRows' /\ head' = head /\ \A j \in Attempts : AttKept(j)
  BY ExpireEffect DEF Rows
<1>2. \A j \in Attempts : Lasting(j) /\ Bound(j)' /\ att'[j].state = att[j].state
  BY <1>1 DEF Lasting, AttKept, Store, Bound, Publication, Exists
<1> QED BY <1>1, <1>2, StoreServed

-----------------------------------------------------------------------------
(* What the processes and the calls in flight rely on.                     *)

ProcKept(q) ==
  /\ procs'[q].at = procs[q].at /\ procs'[q].epoch = procs[q].epoch
  /\ procs'[q].base = procs[q].base /\ procs'[q].cap = procs[q].cap
  /\ procs'[q].attempt = procs[q].attempt
\* q is answered; a terminal answer is about its own attempt.
Answered(q) ==
  LET v == procs'[q].view IN
  /\ procs[q].at \in Calling /\ v.state # "reserved"
  /\ v.state \in {"activated", "rejected"} =>
       procs[q].attempt \in Attempts /\ att'[procs[q].attempt].state = v.state
\* An identity stays reserved until a capture is bound to it.
StaysReserved(j) ==
  att[j].state = "reserved" /\ (\A c \in Captures : ~Publication(c, j)) => att'[j].state = "reserved"

LEMMA ActorsServed ==
  ASSUME Rows, Actors, UNCHANGED <<scopes, captures>>, net' \subseteq net,
         \A j \in Attempts : Lasting(j) /\ StaysReserved(j),
         \A q \in Processes : ProcKept(q) /\ (procs'[q].view = procs[q].view \/ Answered(q))
  PROVE  Actors'
<1> USE DEF ProcKept
<1>1. Claims'
  BY DEF Actors, Claims
<1>2. ASSUME NEW q \in Processes PROVE Placed(q)'
  <2>1. Placed(q)
    BY DEF Actors
  <2>2. q \in Processes /\ procs'[q].at \in {"idle", "owner", "settled"} => procs'[q].view.state = "none"
    BY <2>1 DEF Placed, Answered, Calling, Delivering
  <2>3. Owner(q)' <=> Owner(q)
    BY DEF Owner, Journal!OwnerScope
  <2> QED BY <2>1, <2>2, <2>3 DEF Placed, Exists, Publication, Frozen, Checkpoint
<1>3. ASSUME NEW q \in Processes PROVE Held(q)'
  <2>1. \A p \in Processes : Holds(p)' => Holds(p)
    BY DEF Holds, Answered
  <2>2. Held(q)
    BY DEF Actors
  <2> QED BY <2>1, <2>2 DEF Held, StaysReserved, Publication, Exists
<1>4. ASSUME NEW q \in Processes PROVE Told(q)'
  <2>1. Told(q)
    BY DEF Actors
  <2>2. CASE procs'[q].view = procs[q].view
    BY <2>1, <2>2 DEF Told, Lasting
  <2>3. CASE Answered(q)
    BY <2>3 DEF Told, Answered
  <2> QED BY <2>2, <2>3
<1>5. ASSUME NEW r \in net' PROVE Linked(r)' /\ Called(r)'
  <2>1. r \in net /\ Linked(r) /\ Called(r) /\ r.from \in Processes \cup {Null}
    BY DEF Actors, Rows, ActorRows, CallRow
  <2>2. Linked(r)'
    BY <2>1 DEF Linked
  <2>3. Called(r)'
    BY <2>1 DEF Called, Publication, Frozen, Exists
  <2> QED BY <2>2, <2>3
<1> QED BY <1>1, <1>2, <1>3, <1>4, <1>5 DEF Actors

OthersAs(p) == DOMAIN procs' = Processes /\ \A q \in Processes \ {p} : procs'[q] = procs[q]
\* Captures only grow, and only the holder of an identity binds one to it.
Growing(p) ==
  /\ \A c \in Captures : captures[c].state # "none" =>
       /\ captures'[c].state # "none" /\ Same(c)
       /\ captures[c].next # Null => captures'[c].next = captures[c].next
  /\ \A c \in Captures : captures[c].state = "none" /\ captures'[c].state # "none" /\ captures'[c].purpose = "publication" =>
       Holds(p) /\ captures'[c].begin = procs[p].attempt
\* Only the owner of the source moves its checkpoint.
SoleOwner(p) ==
  \A q \in Processes \ {p} : Owner(q)' =>
    Owner(q) /\ scopes'[Source].checkpoint = scopes[Source].checkpoint

LEMMA ActorsClient ==
  ASSUME Rows, Actors, NEW p \in Processes, att' = att, OthersAs(p), Growing(p), SoleOwner(p), Claims',
         ~Holds(p)', Placed(p)', Told(p)',
         \A r \in net' : (r \in net /\ r.from # p) \/ (Called(r)' /\ Linked(r)')
  PROVE  Actors'
<1>1. \A c, i : Publication(c, i) => Publication(c, i)'
  BY DEF Growing, Publication, Exists, Same
<1>2. \A c, i : Frozen(c, i) => Frozen(c, i)'
  BY DEF Growing, Frozen, Publication, Exists, Same
<1>3. \A c : Exists(c) => Exists(c)' /\ captures'[c].purpose = captures[c].purpose /\ captures'[c].expected = captures[c].expected
  BY DEF Growing, Exists, Same
<1>4. ASSUME NEW q \in Processes \ {p} PROVE Placed(q)' /\ Held(q)' /\ Told(q)'
  <2>1. Placed(q) /\ Held(q) /\ Told(q) /\ procs'[q] = procs[q]
    BY DEF Actors, OthersAs
  <2>2. Placed(q)'
    <3>1. q \in Processes /\ (Owner(q)' => Owner(q) /\ Checkpoint' = Checkpoint)
      BY DEF SoleOwner, Checkpoint
    <3>2. procs[q].at \in Capturing => Exists(procs[q].cap)
      BY <2>1 DEF Placed
    <3>3. procs[q].at \in Capturing => Exists(procs[q].cap)' /\ captures'[procs[q].cap].purpose = captures[procs[q].cap].purpose
      BY <1>3, <3>2, <2>1
    <3>4. procs[q].at \in {"begun", "freeze"} => Publication(procs[q].cap, procs[q].attempt)'
      BY <1>1, <2>1 DEF Placed
    <3>5. procs[q].at \in Delivering => Frozen(procs[q].cap, procs[q].attempt)'
      BY <1>2, <2>1 DEF Placed
    <3>6. procs[q].at = "observing" => captures'[procs[q].cap].purpose = "raw-observation"
      BY <2>1, <3>3 DEF Placed, Capturing
    <3>7. procs[q].at = "reserved" /\ Owner(q)' => procs[q].base = Checkpoint'
      BY <2>1, <3>1 DEF Placed
    <3> QED BY <2>1, <3>3, <3>4, <3>5, <3>6, <3>7 DEF Placed
  <2>3. Held(q)'
    <3> SUFFICES ASSUME Holds(q)' PROVE Held(q)'
      BY DEF Held
    <3> DEFINE i == procs[q].attempt
    <3>1. /\ Holds(q) /\ i \in Attempts /\ att[i].state = "reserved"
          /\ \A c \in Captures : ~Publication(c, i)
          /\ \A b \in Processes : Holds(b) /\ procs[b].attempt = i => q = b
      BY <2>1 DEF Held, Holds
    <3>2. ASSUME NEW c \in Captures, Publication(c, i)' PROVE FALSE
      <4>1. captures'[c].purpose = "publication" /\ captures'[c].begin = i /\ captures'[c].state # "none"
        BY <2>1, <3>2 DEF Publication, Exists
      <4>2. CASE captures[c].state # "none"
        BY <3>1, <4>1, <4>2 DEF Growing, Publication, Exists, Same
      <4>3. CASE captures[c].state = "none"
        BY <3>1, <4>1, <4>3 DEF Growing
      <4> QED BY <4>2, <4>3
    <3>3. \A b \in Processes : Holds(b)' /\ procs'[b].attempt = i => q = b
      BY <3>1 DEF OthersAs, Holds
    <3> QED BY <2>1, <3>1, <3>2, <3>3 DEF Held
  <2>4. Told(q)'
    BY <2>1 DEF Told
  <2> QED BY <2>2, <2>3, <2>4
<1>5. Held(p)'
  BY DEF Held
<1>6. ASSUME NEW r \in net, r.from # p PROVE Called(r)' /\ Linked(r)'
  <2>1. Called(r) /\ Linked(r) /\ r.from \in Processes \cup {Null}
    BY DEF Actors, Rows, ActorRows, CallRow
  <2>2. Linked(r)'
    BY <1>6, <2>1 DEF Linked, OthersAs
  <2>3. Called(r)'
    BY <1>1, <1>2, <1>3, <2>1 DEF Called, Publication
  <2> QED BY <2>2, <2>3
<1> QED BY <1>4, <1>5, <1>6 DEF Actors

\* Claims stay one process's own while the epoch stands.
LEMMA ClaimsKept ==
  ASSUME Claims, ActorRows, scopes'[Source].epoch = scopes[Source].epoch,
         \A q \in Processes : procs'[q].epoch \in {0, procs[q].epoch}, scopes[Source].epoch \in Nat
  PROVE  Claims'
BY DEF Claims, ActorRows, ProcRow

-----------------------------------------------------------------------------
(* Serving a call.                                                         *)

ViewFields == {"state", "filled"}

LEMMA Views ==
  /\ DOMAIN Failure = ViewFields /\ Failure.state = "error"
  /\ \A state : DOMAIN Became(state) = ViewFields /\ Became(state).state = state
  /\ \A i : /\ DOMAIN Reported(i) = ViewFields /\ Reported(i).state # "reserved"
            /\ Reported(i).state \in {"activated", "rejected"} => att[i].state = Reported(i).state
BY DEF Failure, Became, Reported, Known, ViewFields

\* The reply reaches the process that waits, and the call is gone.
LEMMA ReplyEffect ==
  ASSUME Rows, Actors, UNCHANGED <<scopes, captures>>, NEW r \in net, net' = net \ {r},
         \A j \in Attempts : Lasting(j) /\ StaysReserved(j),
         NEW v, DOMAIN v = ViewFields, v.state # "reserved", Reply(r, v),
         v.state \in {"activated", "rejected"} =>
           r.op # "reserve" /\ r.attempt \in Attempts /\ att'[r.attempt].state = v.state
  PROVE  ActorRows' /\ Actors'
<1>1. /\ DOMAIN procs' = Processes
      /\ \A q \in Processes : /\ ProcKept(q) /\ DOMAIN procs'[q] = ProcFields
                              /\ procs'[q].view = IF q = r.from THEN v ELSE procs[q].view
  <2>1. CASE r.from = Null
    BY <2>1, NullLemma DEF Reply, Rows, ActorRows, ProcRow, ProcKept
  <2>2. CASE r.from # Null
    BY <2>2 DEF Reply, Rows, ActorRows, ProcRow, ProcFields, ProcKept
  <2> QED BY <2>1, <2>2
<1>2. ActorRows'
  BY <1>1 DEF Rows, ActorRows, ProcRow, ProcKept, ViewFields
<1>3. ASSUME NEW q \in Processes, q = r.from PROVE Answered(q)
  <2>1. Linked(r) /\ q # Null
    BY NullLemma DEF Actors
  <2>2. procs[q].at \in Calling /\ (r.op # "reserve" => r.attempt = procs[q].attempt)
    BY <1>3, <2>1 DEF Linked
  <2> QED BY <1>1, <1>3, <2>2 DEF Answered
<1> QED BY <1>1, <1>2, <1>3, ActorsServed

\* A call that changes nothing about attempts.
LEMMA ServedUnchanged ==
  ASSUME Rows, Protocol, UNCHANGED <<scopes, captures, att, head>>, NEW r \in net, net' = net \ {r},
         NEW v, DOMAIN v = ViewFields, v.state # "reserved", Reply(r, v),
         v.state \in {"activated", "rejected"} =>
           r.op # "reserve" /\ r.attempt \in Attempts /\ att[r.attempt].state = v.state
  PROVE  ServerRows' /\ ActorRows' /\ Protocol'
<1>1. \A j \in Attempts : Lasting(j) /\ StaysReserved(j)
  BY DEF Lasting, StaysReserved
<1>2. ServerRows' /\ Store'
  BY StoreServed, <1>1 DEF Protocol, Store, Bound, Publication, Exists, Rows, ServerRows
<1>3. ActorRows' /\ Actors'
  BY <1>1, ReplyEffect DEF Protocol
<1> QED BY <1>2, <1>3 DEF Protocol

\* A call that changes what is known of attempts.
LEMMA ServedChange ==
  ASSUME Rows, Protocol, UNCHANGED <<scopes, captures>>, NEW r \in net, net' = net \ {r},
         ServerRows', Store', \A j \in Attempts : Lasting(j) /\ StaysReserved(j),
         NEW state, state # "reserved", Reply(r, Became(state)),
         state \in {"activated", "rejected"} =>
           r.op # "reserve" /\ r.attempt \in Attempts /\ att'[r.attempt].state = state
  PROVE  ServerRows' /\ ActorRows' /\ Protocol'
<1>1. DOMAIN Became(state) = ViewFields /\ Became(state).state = state
  BY Views
<1>2. ActorRows' /\ Actors'
  BY <1>1, ReplyEffect DEF Protocol
<1> QED BY <1>2 DEF Protocol

\* An identity that no capture is bound to yet stays reserved.
LEMMA OnlyBound ==
  ASSUME NEW i \in Attempts, OtherAttKept(i), att[i].state # "reserved" \/ \E c \in Captures : Publication(c, i)
  PROVE  \A j \in Attempts : StaysReserved(j)
BY DEF OtherAttKept, AttKept, StaysReserved

\* What calls about attempts are about.
LEMMA CallAttempt ==
  ASSUME Rows, Actors, NEW r \in net, r.op \in {"begin", "status"} \cup Sending
  PROVE  /\ r.attempt \in Attempts /\ r.op # "reserve"
         /\ r.op = "begin" => Publication(r.cap, r.attempt) /\ captures[r.cap].expected = r.base
         /\ r.op \in Sending => Frozen(r.cap, r.attempt)
<1>1. Called(r)
  BY DEF Actors
<1>2. \A c, i : Publication(c, i) => i \in Attempts
  BY DEF Publication, Exists, Rows, JournalRows, CaptureRow
<1> QED BY <1>1, <1>2 DEF Called, Frozen, Sending

LEMMA ServeReadKeeps ==
  ASSUME Rows, Protocol, UNCHANGED <<scopes, captures>>, NEW r \in net, net' = net \ {r}, ServeRead(r)
  PROVE  ServerRows' /\ ActorRows' /\ Protocol'
<1> DEFINE v == IF r.op = "renew" /\ ~Server!Authority(r.attempt) THEN Failure ELSE Reported(r.attempt)
<1>1. r.op \in {"status", "renew"} /\ Reply(r, v) /\ UNCHANGED <<att, head>>
  BY DEF ServeRead, Unchanged, serverVars
<1>2. r.attempt \in Attempts /\ r.op # "reserve"
  BY <1>1, CallAttempt DEF Protocol, Sending
<1>3. /\ DOMAIN v = ViewFields /\ v.state # "reserved"
      /\ v.state \in {"activated", "rejected"} => att[r.attempt].state = v.state
  BY Views
<1> HIDE DEF v
<1> QED BY <1>1, <1>2, <1>3, ServedUnchanged

LEMMA ServeBeginKeeps ==
  ASSUME Rows, Protocol, UNCHANGED <<scopes, captures>>, NEW r \in net, net' = net \ {r}, ServeBegin(r)
  PROVE  ServerRows' /\ ActorRows' /\ Protocol'
<1> DEFINE i == r.attempt
<1>1. /\ r.op = "begin" /\ i \in Attempts
      /\ Publication(r.cap, i) /\ captures[r.cap].expected = r.base
  BY CallAttempt DEF Protocol, ServeBegin
<1>2. CASE Server!Begin(i, r.cap, r.base) /\ Reply(r, Became("open"))
  <2>1. ServerRows' /\ Store' /\ \A j \in Attempts : Lasting(j)
    BY <1>1, <1>2, StoreBegun DEF Protocol
  <2>2. \A j \in Attempts : StaysReserved(j)
    BY <1>1, <1>2, ServeBeginEffect, OnlyBound DEF Rows, Reaches, Publication, Exists
  <2> QED BY <1>2, <2>1, <2>2, ServedChange
<1>3. CASE Unchanged(r, Reported(i))
  BY <1>1, <1>3, Views, ServedUnchanged DEF Unchanged, serverVars
<1> QED BY <1>2, <1>3 DEF ServeBegin

\* Put, Seal, Validate and Reject.
LEMMA ServedMove ==
  ASSUME Rows, Protocol, UNCHANGED <<scopes, captures>>, NEW r \in net, net' = net \ {r},
         r.op \in Sending, NEW state \in {"open", "sealed", "validated", "rejected"},
         \/ Server!Put(r.attempt) /\ state = "open"
         \/ Server!Seal(r.attempt) /\ state = "sealed"
         \/ Server!Validate(r.attempt) /\ state = "validated"
         \/ Server!Reject(r.attempt) /\ state = "rejected",
         Reply(r, Became(state))
  PROVE  ServerRows' /\ ActorRows' /\ Protocol'
<1> DEFINE i == r.attempt
<1>1. i \in Attempts /\ Frozen(r.cap, i) /\ r.op # "reserve"
  BY CallAttempt DEF Protocol
<1>2. Moves(i, state) /\ att[i].state # "reserved"
  BY <1>1, ServePutEffect, ServeSealEffect, ServeValidateEffect, ServeRejectEffect DEF Rows
<1>3. ServerRows' /\ Store' /\ \A j \in Attempts : Lasting(j)
  BY <1>1, StoreMoved DEF Protocol
<1>4. \A j \in Attempts : StaysReserved(j)
  BY <1>1, <1>2, OnlyBound DEF Moves, Reaches
<1>5. att'[i].state = state
  BY <1>2 DEF Moves, Reaches
<1> QED BY <1>1, <1>3, <1>4, <1>5, ServedChange

LEMMA ServePutKeeps ==
  ASSUME Rows, Protocol, UNCHANGED <<scopes, captures>>, NEW r \in net, net' = net \ {r}, ServePut(r)
  PROVE  ServerRows' /\ ActorRows' /\ Protocol'
<1>1. r.op \in Sending
  BY DEF ServePut, Sending
<1>2. CASE Server!Put(r.attempt) /\ Reply(r, Became("open"))
  BY <1>1, <1>2, ServedMove
<1>3. CASE Unchanged(r, Became("open")) \/ Unchanged(r, Failure)
  BY <1>3, Views, ServedUnchanged DEF Unchanged, serverVars
<1> QED BY <1>2, <1>3 DEF ServePut

LEMMA ServeSealKeeps ==
  ASSUME Rows, Protocol, UNCHANGED <<scopes, captures>>, NEW r \in net, net' = net \ {r}, ServeSeal(r)
  PROVE  ServerRows' /\ ActorRows' /\ Protocol'
<1>1. r.op \in Sending /\ r.attempt \in Attempts /\ r.op # "reserve"
  BY CallAttempt DEF ServeSeal, Sending, Protocol
<1>2. CASE Server!Seal(r.attempt) /\ Reply(r, Became("sealed"))
  BY <1>1, <1>2, ServedMove
<1>3. CASE Unchanged(r, Reported(r.attempt)) \/ Unchanged(r, Failure)
  BY <1>1, <1>3, Views, ServedUnchanged DEF Unchanged, serverVars
<1> QED BY <1>2, <1>3 DEF ServeSeal

LEMMA ServeValidateKeeps ==
  ASSUME Rows, Protocol, UNCHANGED <<scopes, captures>>, NEW r \in net, net' = net \ {r}, ServeValidate(r)
  PROVE  ServerRows' /\ ActorRows' /\ Protocol'
<1>1. r.op \in Sending /\ r.attempt \in Attempts /\ r.op # "reserve"
  BY CallAttempt DEF ServeValidate, Sending, Protocol
<1>2. CASE Server!Validate(r.attempt) /\ Reply(r, Became("validated"))
  BY <1>1, <1>2, ServedMove
<1>3. CASE Unchanged(r, Reported(r.attempt)) \/ Unchanged(r, Failure)
  BY <1>1, <1>3, Views, ServedUnchanged DEF Unchanged, serverVars
<1> QED BY <1>2, <1>3 DEF ServeValidate

LEMMA ServeRejectKeeps ==
  ASSUME Rows, Protocol, UNCHANGED <<scopes, captures>>, NEW r \in net, net' = net \ {r}, ServeReject(r)
  PROVE  ServerRows' /\ ActorRows' /\ Protocol'
<1>1. r.op \in Sending
  BY DEF ServeReject, Sending
<1>2. CASE Server!Reject(r.attempt) /\ Reply(r, Became("rejected"))
  BY <1>1, <1>2, ServedMove
<1>3. CASE Unchanged(r, Failure)
  BY <1>3, Views, ServedUnchanged DEF Unchanged, serverVars
<1> QED BY <1>2, <1>3 DEF ServeReject

LEMMA ServeActivateKeeps ==
  ASSUME Rows, Protocol, UNCHANGED <<scopes, captures>>, NEW r \in net, net' = net \ {r}, ServeActivate(r)
  PROVE  ServerRows' /\ ActorRows' /\ Protocol'
<1> DEFINE i == r.attempt
<1>1. i \in Attempts /\ r.op # "reserve"
  BY CallAttempt DEF ServeActivate, Sending, Protocol
<1>2. CASE Server!Activate(i) /\ Reply(r, Became("activated"))
  <2>1. ServerRows' /\ Store' /\ \A j \in Attempts : Lasting(j)
    BY <1>1, <1>2, StoreActivate DEF Protocol
  <2>2. Moves(i, "activated") /\ att[i].state = "validated"
    BY <1>1, <1>2, ServeActivateEffect DEF Rows
  <2>3. (\A j \in Attempts : StaysReserved(j)) /\ att'[i].state = "activated"
    BY <1>1, <2>2, OnlyBound DEF Moves, Reaches
  <2> QED BY <1>1, <1>2, <2>1, <2>3, ServedChange
<1>3. CASE Known(i) /\ att[i].state = "activated" /\ Unchanged(r, Became("activated"))
  BY <1>1, <1>3, Views, ServedUnchanged DEF Unchanged, serverVars
<1>4. CASE Unchanged(r, Failure)
  BY <1>4, Views, ServedUnchanged DEF Unchanged, serverVars
<1> QED BY <1>2, <1>3, <1>4 DEF ServeActivate

\* The holder of a new identity is the process that asked for it.
LEMMA ServeReserveKeeps ==
  ASSUME Rows, Protocol, UNCHANGED <<scopes, captures>>, NEW r \in net, net' = net \ {r}, ServeReserve(r)
  PROVE  ServerRows' /\ ActorRows' /\ Protocol'
<1>1. CASE Unchanged(r, Failure)
  BY <1>1, Views, ServedUnchanged DEF Unchanged, serverVars
<1>2. ASSUME NEW i \in Attempts, Server!Reserve(Source, i), r.op = "reserve",
             procs' = IF r.from = Null THEN procs
                      ELSE [procs EXCEPT ![r.from] =
                              [@ EXCEPT !.attempt = i, !.view = Became("reserved")]]
      PROVE  ServerRows' /\ ActorRows' /\ Protocol'
  <2>1. ServerRows' /\ Store' /\ \A j \in Attempts : Lasting(j)
    BY <1>2, StoreReserved DEF Protocol
  <2>2. att[i].state = "unissued" /\ att'[i].state = "reserved" /\ OtherAttKept(i)
    BY <1>2, ServeReserveEffect DEF Rows, Reaches
  <2>3. \A j \in Attempts : StaysReserved(j)
    BY <2>2, OnlyBound
  <2>4. CASE r.from = Null
    <3>1. procs' = procs
      BY <1>2, <2>4
    <3>2. ActorRows'
      BY <3>1 DEF Rows, ActorRows
    <3>3. Actors'
      BY <2>1, <2>3, <3>1, ActorsServed DEF Protocol, ProcKept
    <3> QED BY <2>1, <3>2, <3>3 DEF Protocol
  <2>5. CASE r.from # Null
    <3> DEFINE p == r.from
    <3>1. Linked(r) /\ p \in Processes
      BY <2>5 DEF Protocol, Actors, Rows, ActorRows, CallRow
    <3>2. procs[p].at = "reserved"
      BY <1>2, <2>5, <3>1 DEF Linked
    <3>3. /\ DOMAIN procs' = Processes /\ \A q \in Processes \ {p} : procs'[q] = procs[q]
          /\ DOMAIN procs'[p] = ProcFields /\ procs'[p].attempt = i /\ procs'[p].view = Became("reserved")
          /\ procs'[p].at = procs[p].at /\ procs'[p].epoch = procs[p].epoch
          /\ procs'[p].base = procs[p].base /\ procs'[p].cap = procs[p].cap
      BY <1>2, <2>5, <3>1 DEF Rows, ActorRows, ProcRow, ProcFields
    <3>4. DOMAIN procs'[p].view = ViewFields /\ procs'[p].view.state = "reserved"
      BY <3>3, Views
    <3>5. ActorRows'
      BY <3>3, <3>4 DEF Rows, ActorRows, ProcRow, ViewFields
    <3>6. Claims'
      BY <3>3 DEF Protocol, Actors, Claims
    <3>7. ASSUME NEW q \in Processes PROVE Placed(q)' /\ Told(q)'
      <4>1. Placed(q) /\ Told(q)
        BY DEF Protocol, Actors
      <4>2. CASE q = p
        <5>1. Owner(q)' <=> Owner(q)
          BY <3>3, <4>2 DEF Owner, Journal!OwnerScope
        <5> QED BY <3>2, <3>3, <3>4, <4>1, <4>2, <5>1 DEF Placed, Told, Capturing, Delivering, Checkpoint
      <4>3. CASE q # p
        <5>1. procs'[q] = procs[q]
          BY <3>3, <4>3
        <5>2. Owner(q)' <=> Owner(q)
          BY <5>1 DEF Owner, Journal!OwnerScope
        <5> QED BY <2>1, <4>1, <5>1, <5>2 DEF Placed, Told, Exists, Publication, Frozen, Checkpoint, Lasting
      <4> QED BY <4>2, <4>3
    <3>8. \A c \in Captures : ~Publication(c, i)
      BY <2>2 DEF Protocol, Store, Owning, Publication
    <3>9. \A q \in Processes : Holds(q) => procs[q].attempt # i
      BY <2>2 DEF Protocol, Actors, Held
    <3>10. ASSUME NEW q \in Processes PROVE Held(q)'
      <4>1. CASE q = p
        <5>1. \A c \in Captures : ~Publication(c, i)'
          BY <3>8 DEF Publication, Exists
        <5>2. \A b \in Processes : Holds(b)' /\ procs'[b].attempt = i => b = p
          BY <3>3, <3>9 DEF Holds
        <5> QED BY <2>2, <3>3, <4>1, <5>1, <5>2 DEF Held
      <4>2. CASE q # p
        <5>1. Held(q) /\ procs'[q] = procs[q] /\ (Holds(q) => procs[q].attempt # i)
          BY <3>3, <3>9, <4>2 DEF Protocol, Actors
        <5>2. \A b \in Processes : Holds(b)' => b = p \/ (Holds(b) /\ procs'[b] = procs[b])
          BY <3>3 DEF Holds
        <5> QED BY <2>3, <3>3, <5>1, <5>2 DEF Held, Holds, StaysReserved, Publication, Exists
      <4> QED BY <4>1, <4>2
    <3>11. ASSUME NEW s \in net' PROVE Linked(s)' /\ Called(s)'
      <4>1. s \in net /\ Linked(s) /\ Called(s) /\ s.from \in Processes \cup {Null}
        BY DEF Protocol, Actors, Rows, ActorRows, CallRow
      <4>2. Linked(s)'
        BY <3>2, <3>3, <4>1 DEF Linked, RawOps
      <4>3. Called(s)'
        BY <4>1 DEF Called, Publication, Frozen, Exists
      <4> QED BY <4>2, <4>3
    <3> QED BY <2>1, <3>5, <3>6, <3>7, <3>10, <3>11 DEF Protocol, Actors
  <2> QED BY <2>4, <2>5
<1>3. CASE Unissued # {} /\ ~Unchanged(r, Failure)
  <2> DEFINE i == CHOOSE i \in Unissued : TRUE
  <2>1. i \in Attempts
    BY <1>3 DEF Unissued
  <2>2. /\ Server!Reserve(Source, i) /\ r.op = "reserve"
        /\ procs' = IF r.from = Null THEN procs
                    ELSE [procs EXCEPT ![r.from] =
                            [@ EXCEPT !.attempt = i, !.view = Became("reserved")]]
    BY <1>3 DEF ServeReserve
  <2> HIDE DEF i
  <2> QED BY <1>2, <2>1, <2>2
<1> QED BY <1>1, <1>3 DEF ServeReserve

LEMMA ServeRawKeeps ==
  ASSUME Rows, Protocol, UNCHANGED <<scopes, captures>>, NEW r \in net, net' = net \ {r},
         ServeReceipt(r) \/ ServeAppend(r)
  PROVE  ServerRows' /\ ActorRows' /\ Protocol'
<1>1. UNCHANGED <<att, head>>
  BY DEF ServeReceipt, ServeAppend, Unchanged, serverVars
<1>2. \E v \in {Failure, Became("stored"), Became("absent"), Became("refused")} : Reply(r, v)
  BY DEF ServeReceipt, ServeAppend, Unchanged
<1> QED BY <1>1, <1>2, Views, ServedUnchanged

\* Every call the Server serves.
LEMMA ServeKeeps ==
  ASSUME Rows, Protocol, NEW r, Serve(r)
  PROVE  Rows' /\ Protocol'
<1>1. UNCHANGED <<scopes, captures, units>> /\ r \in net /\ net' = net \ {r}
  BY DEF Serve, journalVars
<1>2. ServerRows' /\ ActorRows' /\ Protocol'
  BY <1>1, ServeReserveKeeps, ServeBeginKeeps, ServeReadKeeps, ServePutKeeps, ServeSealKeeps,
     ServeValidateKeeps, ServeActivateKeeps, ServeRejectKeeps, ServeRawKeeps DEF Serve
<1>3. JournalRows'
  BY <1>1 DEF Rows, JournalRows, UnitRow
<1> QED BY <1>2, <1>3 DEF Rows

-----------------------------------------------------------------------------
(* A step of one process.                                                  *)

\* What the journal transaction of a step of p does.
Transacts(p) ==
  /\ JournalRows' /\ Store' /\ Growing(p)
  /\ scopes'[Source].epoch = scopes[Source].epoch
  /\ Owner(p) \/ scopes'[Source].checkpoint = scopes[Source].checkpoint

LEMMA ClientKeeps ==
  ASSUME Rows, Protocol, NEW p \in Processes, UNCHANGED <<att, head>>, Transacts(p),
         OthersAs(p), ProcRow(procs'[p]), procs'[p].epoch \in {0, procs[p].epoch},
         Placed(p)', Told(p)', ~Holds(p)',
         \A r \in net' : (r \in net /\ r.from # p) \/ (CallRow(r) /\ Called(r)' /\ Linked(r)')
  PROVE  Rows' /\ Protocol'
<1>1. ActorRows'
  BY DEF Rows, ActorRows, OthersAs
<1>2. Claims'
  <2>1. \A q \in Processes : procs'[q].epoch \in {0, procs[q].epoch}
    BY DEF OthersAs
  <2> QED BY <2>1, ClaimsKept DEF Rows, JournalRows, Protocol, Actors, Transacts
<1>3. SoleOwner(p)
  <2> SUFFICES ASSUME NEW q \in Processes \ {p}, Owner(q)'
               PROVE  Owner(q) /\ scopes'[Source].checkpoint = scopes[Source].checkpoint
    BY DEF SoleOwner
  <2>1. Owner(q)
    BY DEF OthersAs, Transacts, Owner, Journal!OwnerScope
  <2>2. ~Owner(p)
    BY <2>1 DEF Protocol, Actors, Claims, Owner, Journal!OwnerScope
  <2> QED BY <2>1, <2>2 DEF Transacts
<1>4. Actors'
  BY <1>2, <1>3, ActorsClient DEF Protocol, Transacts
<1>5. ServerRows'
  BY DEF Rows, ServerRows
<1> QED BY <1>1, <1>4, <1>5 DEF Rows, Protocol, Transacts

LEMMA NotWaiting ==
  ASSUME NEW p \in Processes, ~Waiting(p)
  PROVE  \A r \in net : r.from # p
BY DEF Waiting

\* p goes on with a capture that exists.
LEMMA TurnKeeps ==
  ASSUME Rows, Protocol, NEW p \in Processes, UNCHANGED <<att, head>>, Transacts(p), ~Waiting(p),
         NEW label \in {"owner", "settled", "observing", "closing"}, NEW c, Turn(p, label, c),
         label # "owner" => Exists(c)',
         label = "observing" => captures'[c].purpose = "raw-observation"
  PROVE  Rows' /\ Protocol'
<1> DEFINE q == OnCapture(p, label, c)
<1>1. /\ DOMAIN q = ProcFields /\ q.at = label /\ q.epoch = procs[p].epoch /\ q.cap = c
      /\ DOMAIN q.view = {"state", "filled"} /\ q.view.state = "none"
  BY DEF OnCapture, Idle, NoView, ProcFields
<1>2. procs' = [procs EXCEPT ![p] = q] /\ net' = net
  BY DEF Turn
<1> HIDE DEF q
<1>3. OthersAs(p) /\ procs'[p] = q
  BY <1>2 DEF OthersAs, Rows, ActorRows
<1>4. ProcRow(procs'[p]) /\ procs'[p].epoch \in {0, procs[p].epoch}
  BY <1>1, <1>3 DEF ProcRow, Rows, ActorRows
<1>5. Placed(p)' /\ Told(p)' /\ ~Holds(p)'
  BY <1>1, <1>3 DEF Placed, Told, Holds, Capturing, Delivering
<1> QED BY <1>2, <1>3, <1>4, <1>5, NotWaiting, ClientKeeps

\* p stops.
LEMMA StopKeeps ==
  ASSUME Rows, Protocol, NEW p \in Processes, UNCHANGED <<att, head>>, Transacts(p),
         procs' = [procs EXCEPT ![p] = Idle],
         \A r \in net' : (r \in net /\ r.from # p) \/ (CallRow(r) /\ Called(r)' /\ Linked(r)')
  PROVE  Rows' /\ Protocol'
<1>1. /\ DOMAIN Idle = ProcFields /\ Idle.at = "idle" /\ Idle.epoch = 0
      /\ DOMAIN Idle.view = {"state", "filled"} /\ Idle.view.state = "none"
  BY DEF Idle, NoView, ProcFields
<1>2. OthersAs(p) /\ procs'[p] = Idle
  BY DEF OthersAs, Rows, ActorRows
<1>3. ProcRow(procs'[p]) /\ procs'[p].epoch \in {0, procs[p].epoch}
  BY <1>1, <1>2 DEF ProcRow
<1>4. Placed(p)' /\ Told(p)' /\ ~Holds(p)'
  BY <1>1, <1>2 DEF Placed, Told, Holds, Capturing, Delivering
<1> QED BY <1>2, <1>3, <1>4, ClientKeeps

\* p goes on with the capture and the attempt it has, with or without a call.
GoesOn(p, label) ==
  /\ DOMAIN procs'[p] = ProcFields /\ procs'[p].at = label /\ procs'[p].epoch = procs[p].epoch
  /\ procs'[p].cap = procs[p].cap /\ procs'[p].attempt = procs[p].attempt
  /\ procs'[p].view = procs[p].view
LEMMA MovesOn ==
  ASSUME Rows, Protocol, NEW p \in Processes, UNCHANGED <<att, head>>, Transacts(p), ~Waiting(p),
         NEW label \in Capturing, procs[p].at \in Capturing, OthersAs(p), GoesOn(p, label),
         label = "settled" => procs[p].at = "settled",
         label = "observing" => procs[p].at = "observing",
         label \in {"begun", "freeze"} => procs[p].at \in {"begun", "freeze"},
         label \in Delivering => procs[p].at \in Delivering,
         \A r \in net' : r \in net \/ (/\ r = Call(r.op, procs[p].attempt, procs[p].cap, Null, p)
                                       /\ label \in Calling /\ label # "reserved" /\ r.op # "reserve"
                                       /\ Called(r)')
  PROVE  Rows' /\ Protocol'
<1>0. PICK c, i, e : c = procs[p].cap /\ i = procs[p].attempt /\ e = procs[p].epoch
  OBVIOUS
<1>1. /\ DOMAIN procs'[p] = ProcFields /\ procs'[p].at = label /\ procs'[p].epoch = e
      /\ procs'[p].cap = c /\ procs'[p].attempt = i /\ procs'[p].view = procs[p].view
  BY <1>0 DEF GoesOn
<1>2. ProcRow(procs'[p]) /\ procs'[p].epoch \in {0, procs[p].epoch}
  BY <1>0, <1>1 DEF Rows, ActorRows, ProcRow
<1>3. Placed(p) /\ Told(p)
  BY DEF Protocol, Actors
<1>4. Exists(c) /\ Exists(c)' /\ captures'[c].purpose = captures[c].purpose
  BY <1>0, <1>3 DEF Placed, Exists, Transacts, Growing, Same
<1>5. label \in {"begun", "freeze"} => Publication(c, i)'
  BY <1>0, <1>3 DEF Placed, Publication, Exists, Transacts, Growing, Same
<1>6. label \in Delivering => Frozen(c, i)'
  BY <1>0, <1>3 DEF Placed, Frozen, Publication, Exists, Transacts, Growing, Same
<1>7. label \notin {"idle", "owner", "reserved"}
  BY DEF Capturing, Delivering
<1>8. Placed(p)'
  <2>1. label = "observing" => captures'[c].purpose = "raw-observation"
    BY <1>0, <1>3, <1>4 DEF Placed
  <2>2. Exists(procs[p].cap)'
    BY <1>1, <1>4 DEF Exists
  <2>3. label \in {"begun", "freeze"} => Publication(procs[p].cap, procs[p].attempt)'
    BY <1>1, <1>5 DEF Publication, Exists
  <2>4. label \in Delivering => Frozen(procs[p].cap, procs[p].attempt)'
    BY <1>1, <1>6 DEF Frozen, Publication, Exists
  <2>5. label = "settled" => procs[p].view.state = "none"
    BY <1>3 DEF Placed
  <2> QED BY <1>1, <1>7, <2>1, <2>2, <2>3, <2>4, <2>5 DEF Placed
<1>9. Told(p)' /\ ~Holds(p)'
  BY <1>0, <1>1, <1>3, <1>7 DEF Told, Holds
<1>10. ASSUME NEW r \in net'
       PROVE  (r \in net /\ r.from # p) \/ (CallRow(r) /\ Called(r)' /\ Linked(r)')
  <2>1. CASE r \in net
    BY <2>1, NotWaiting
  <2>2. CASE r \notin net
    <3>1. /\ r = Call(r.op, procs[p].attempt, procs[p].cap, Null, p)
          /\ label \in Calling /\ label # "reserved" /\ r.op # "reserve" /\ Called(r)'
      BY <2>2
    <3>2. /\ DOMAIN r = CallFields /\ r.attempt = procs[p].attempt /\ r.cap = procs[p].cap /\ r.from = p
      BY <3>1 DEF Call, CallFields
    <3> QED BY <1>0, <1>1, <3>1, <3>2 DEF CallRow, Linked
  <2> QED BY <2>1, <2>2
<1> QED BY <1>2, <1>8, <1>9, <1>10, ClientKeeps

LEMMA SendKeeps ==
  ASSUME Rows, Protocol, NEW p \in Processes, UNCHANGED <<att, head>>, Transacts(p), ~Waiting(p),
         NEW label \in Calling \ {"reserved", "proving"}, NEW op, procs[p].at \in Capturing, Send(p, op, label),
         label \in {"begun", "freeze"} => procs[p].at \in {"begun", "freeze"},
         label \in Delivering => procs[p].at \in Delivering,
         \/ op = "status" /\ procs[p].attempt \in Attempts
         \/ op \in Sending /\ procs[p].at \in Delivering
         \/ op \in RawOps
  PROVE  Rows' /\ Protocol'
<1>0. PICK s, c, i : /\ c = procs[p].cap /\ i = procs[p].attempt /\ s = Call(op, i, c, Null, p)
  OBVIOUS
<1>1. OthersAs(p) /\ GoesOn(p, label) /\ net' = net \cup {s}
  BY <1>0 DEF Send, OthersAs, Rows, ActorRows, ProcRow, ProcFields, GoesOn
<1>2. label \in Capturing /\ label # "settled" /\ label # "observing"
  BY DEF Calling, Capturing, Delivering
<1>3. s.op = op /\ s.attempt = i /\ s.cap = c /\ s.from = p
  BY <1>0 DEF Call
<1>4. Called(s)'
  <2>1. Placed(p)
    BY DEF Protocol, Actors
  <2>2. Exists(c)'
    BY <1>0, <2>1 DEF Placed, Exists, Transacts, Growing, Same
  <2>3. op \in Sending => Frozen(c, i)'
    <3> SUFFICES ASSUME op \in Sending PROVE Frozen(c, i)'
      OBVIOUS
    <3>1. Frozen(c, i)
      BY <1>0, <2>1 DEF Placed, Sending, RawOps
    <3> QED BY <3>1 DEF Frozen, Publication, Exists, Transacts, Growing, Same
  <2>4. op = "status" => i \in Attempts
    BY <1>0 DEF Sending, RawOps
  <2> QED BY <1>3, <2>2, <2>3, <2>4 DEF Called, Sending, RawOps
<1>5. \A r \in net' : r \in net \/ (/\ r = Call(r.op, procs[p].attempt, procs[p].cap, Null, p)
                                    /\ label \in Calling /\ label # "reserved" /\ r.op # "reserve"
                                    /\ Called(r)')
  <2>1. op # "reserve"
    BY DEF Sending, RawOps
  <2> QED BY <1>0, <1>1, <1>3, <1>4, <2>1
<1> QED BY <1>1, <1>2, <1>5, MovesOn

LEMMA GotoKeeps ==
  ASSUME Rows, Protocol, NEW p \in Processes, UNCHANGED <<att, head>>, Transacts(p), ~Waiting(p),
         NEW label \in {"reconcile", "raw"}, procs[p].at \in Capturing, Goto(p, label),
         label \in Delivering => procs[p].at \in Delivering
  PROVE  Rows' /\ Protocol'
<1>1. OthersAs(p) /\ net' = net
  BY DEF Goto, OthersAs, Rows, ActorRows
<1>2. GoesOn(p, label)
  BY DEF Goto, Rows, ActorRows, ProcRow, ProcFields, GoesOn
<1>3. label \in Capturing /\ label \notin {"settled", "observing", "begun", "freeze"}
  BY DEF Capturing, Delivering
<1> QED BY <1>1, <1>2, <1>3, MovesOn

-----------------------------------------------------------------------------
(* The steps of a process.                                                 *)

LEMMA QuietTransacts ==
  ASSUME Rows, Protocol, NEW p \in Processes, UNCHANGED <<att, head>>, Quiet
  PROVE  Transacts(p)
<1>1. JournalRows' /\ AllKept /\ ScopeKept
  BY QuietEffect DEF Rows
<1>2. Store'
  BY <1>1, StoreQuiet DEF Rows, Protocol, ScopeKept
<1> QED BY <1>1, <1>2 DEF Transacts, Growing, AllKept, Kept, ScopeKept

LEMMA SealTransacts ==
  ASSUME Rows, Protocol, NEW p \in Processes, UNCHANGED <<att, head>>,
         NEW c \in Captures, NEW e, NEW next, NEW complete,
         Journal!Seal(c, e, next, complete), next # Null,
         captures[c].purpose = "publication" => next = captures[c].begin
  PROVE  Transacts(p)
<1>1. /\ JournalRows' /\ OthersKept(c) /\ Same(c) /\ ScopeKept
      /\ captures[c].state = "preparing" /\ captures'[c].state = "sealed" /\ captures'[c].next = next
  BY SealEffect DEF Rows
<1>2. captures[c].next = Null
  BY <1>1 DEF Rows, JournalRows, CaptureRow
<1>3. Store'
  BY StoreSeal DEF Protocol
<1> QED BY <1>1, <1>2, <1>3 DEF Transacts, Growing, OthersKept, Kept, ScopeKept

LEMMA ActivatedTransacts ==
  ASSUME Rows, Protocol, NEW p \in Processes, UNCHANGED <<att, head>>, NEW c \in Captures,
         Journal!Activated(c, procs[p].epoch, captures[c].begin),
         att[captures[c].begin].state = "activated"
  PROVE  Transacts(p)
<1>1. captures[c].begin # Null
  BY NullLemma DEF Journal!Activated, Rows, JournalRows, CaptureRow
<1>2. /\ JournalRows' /\ OthersKept(c) /\ Same(c) /\ captures'[c].next = captures[c].next
      /\ captures'[c].state \in {"activated", "completed"} /\ captures[c].state = "sealed"
      /\ scopes'[Source].epoch = scopes[Source].epoch /\ Owner(p)
  BY <1>1, ActivatedEffect DEF Rows, Owner
<1>3. Store'
  BY StoreActivated DEF Protocol
<1> QED BY <1>2, <1>3 DEF Transacts, Growing, OthersKept, Kept

LEMMA SettlingTransacts ==
  ASSUME Rows, Protocol, NEW p \in Processes, UNCHANGED <<att, head>>,
         NEW c \in Captures, JournalRows', Settling(c)
  PROVE  Transacts(p)
<1>1. Store'
  BY StoreSettling DEF Protocol
<1> QED BY <1>1 DEF Transacts, Growing, Settling, OthersKept, Kept

LEMMA AbandonedTransacts ==
  ASSUME Rows, Protocol, NEW p \in Processes, UNCHANGED <<att, head>>, NEW c \in Captures, NEW e, NEW x,
         Journal!Rejected(c, e, x) \/ Journal!AbandonUnsealed(c, e),
         Journal!Rejected(c, e, x) => att[captures[c].begin].state = "rejected"
  PROVE  Transacts(p)
<1>1. /\ JournalRows' /\ OthersKept(c) /\ Same(c) /\ scopes' = scopes
      /\ captures'[c].state = "abandoned" /\ captures'[c].next = captures[c].next
      /\ captures[c].state \in {"sealed", "preparing"}
  BY AbandonedEffect DEF Rows
<1>2. Store'
  BY StoreAbandoned DEF Protocol
<1> QED BY <1>1, <1>2 DEF Transacts, Growing, OthersKept, Kept

\* Where p is says which capture and attempt it works on.
LEMMA PlaceOf ==
  ASSUME Rows, Protocol, NEW p \in Processes
  PROVE  LET q == procs[p] IN
         /\ q.at \in Capturing => Exists(q.cap)
         /\ q.at \in {"begun", "freeze"} \cup Delivering =>
              Publication(q.cap, q.attempt) /\ q.attempt \in Attempts
         /\ q.at = "observing" => captures[q.cap].purpose = "raw-observation" /\ captures[q.cap].expected # Null
         /\ q.view.state \in {"activated", "rejected"} => att[q.attempt].state = q.view.state
<1>1. Placed(p) /\ Told(p)
  BY DEF Protocol, Actors
<1>2. \A c, i : Publication(c, i) => i \in Attempts
  BY DEF Publication, Exists, Rows, JournalRows, CaptureRow
<1>3. \A c : Exists(c) /\ captures[c].purpose = "raw-observation" => captures[c].expected # Null
  BY DEF Exists, Rows, JournalRows, CaptureRow
<1> QED BY <1>1, <1>2, <1>3 DEF Placed, Told, Frozen, Capturing

LEMMA DiscardKeeps ==
  ASSUME Rows, Protocol, NEW p \in Processes, NEW c \in Captures, Discard(p, c)
  PROVE  Rows' /\ Protocol'
<1>1. /\ Journal!AbandonUnsealed(c, procs[p].epoch) /\ Turn(p, "settled", c) /\ ~Waiting(p)
      /\ UNCHANGED <<att, head>> /\ captures[c].state = "preparing"
  BY DEF Discard, At, serverVars
<1>2. ~Journal!Rejected(c, procs[p].epoch, Null)
  BY <1>1 DEF Journal!Rejected
<1>3. Transacts(p)
  BY <1>1, <1>2, AbandonedTransacts
<1>4. Exists(c)'
  BY <1>1, <1>3 DEF Exists, Transacts, Growing
<1> QED BY <1>1, <1>3, <1>4, TurnKeeps

LEMMA RecoverRawKeeps ==
  ASSUME Rows, Protocol, NEW p \in Processes, NEW c \in Captures, RecoverRaw(p, c)
  PROVE  Rows' /\ Protocol'
<1>1. /\ Turn(p, "settled", c) /\ ~Waiting(p) /\ UNCHANGED <<att, head>> /\ UNCHANGED journalVars
      /\ captures[c].state # "none"
  BY DEF RecoverRaw, At, serverVars, RawOwed
<1>2. Transacts(p)
  BY <1>1, QuietTransacts DEF Quiet
<1>3. Exists(c)'
  BY <1>1, <1>2 DEF Exists, Transacts, Growing
<1> QED BY <1>1, <1>2, <1>3, TurnKeeps

LEMMA FreezeKeeps ==
  ASSUME Rows, Protocol, NEW p \in Processes, Freeze(p)
  PROVE  Rows' /\ Protocol'
<1> DEFINE c == procs[p].cap
<1>1. /\ Journal!Seal(c, procs[p].epoch, captures[c].begin, captures[c].raw)
      /\ Turn(p, "owner", c) /\ ~Waiting(p) /\ procs[p].at = "freeze" /\ UNCHANGED <<att, head>>
  BY DEF Freeze, At, serverVars
<1>2. c \in Captures /\ captures[c].begin \in Attempts
  BY <1>1, PlaceOf DEF Publication, Exists
<1>3. Transacts(p)
  BY <1>1, <1>2, SealTransacts, NullLemma
<1> QED BY <1>1, <1>3, TurnKeeps

LEMMA FreezeObservationKeeps ==
  ASSUME Rows, Protocol, NEW p \in Processes, FreezeObservation(p)
  PROVE  Rows' /\ Protocol'
<1>0. PICK c : c = procs[p].cap
  OBVIOUS
<1>1. /\ Journal!Seal(c, procs[p].epoch, captures[c].expected, TRUE)
      /\ Turn(p, "settled", c) /\ ~Waiting(p) /\ procs[p].at = "observing" /\ UNCHANGED <<att, head>>
  BY <1>0 DEF FreezeObservation, At, serverVars
<1>2. Exists(c) /\ captures[c].purpose = "raw-observation" /\ captures[c].expected # Null
  BY <1>0, <1>1, PlaceOf DEF Capturing
<1>3. Transacts(p)
  BY <1>1, <1>2, SealTransacts DEF Exists
<1>4. Exists(c)'
  BY <1>2, <1>3 DEF Exists, Transacts, Growing
<1> QED BY <1>1, <1>3, <1>4, TurnKeeps

LEMMA SettleActivatedKeeps ==
  ASSUME Rows, Protocol, NEW p \in Processes, SettleActivated(p)
  PROVE  Rows' /\ Protocol'
<1>0. PICK c : c = procs[p].cap
  OBVIOUS
<1>1. /\ Journal!Activated(c, procs[p].epoch, procs[p].attempt) /\ procs[p].at \in Delivering
      /\ procs[p].view.state = "activated"
      /\ Turn(p, "settled", c) /\ ~Waiting(p) /\ UNCHANGED <<att, head>>
  BY <1>0 DEF SettleActivated, At, serverVars, Proven, View, Delivering
<1>2. /\ Exists(c) /\ captures[c].begin = procs[p].attempt /\ att[captures[c].begin].state = "activated"
  BY <1>0, <1>1, PlaceOf DEF Publication
<1>3. Transacts(p)
  BY <1>1, <1>2, ActivatedTransacts DEF Exists
<1>4. Exists(c)'
  BY <1>2, <1>3 DEF Exists, Transacts, Growing
<1> QED BY <1>1, <1>3, <1>4, TurnKeeps

LEMMA SettleRejectedKeeps ==
  ASSUME Rows, Protocol, NEW p \in Processes, SettleRejected(p)
  PROVE  Rows' /\ Protocol'
<1>0. PICK c : c = procs[p].cap
  OBVIOUS
<1>1. /\ Journal!Rejected(c, procs[p].epoch, procs[p].attempt) /\ procs[p].at \in Delivering
      /\ procs[p].view.state = "rejected"
      /\ Turn(p, "settled", c) /\ ~Waiting(p) /\ UNCHANGED <<att, head>>
  BY <1>0 DEF SettleRejected, At, serverVars, Refused, View, Delivering
<1>2. /\ Exists(c) /\ captures[c].begin = procs[p].attempt /\ att[captures[c].begin].state = "rejected"
  BY <1>0, <1>1, PlaceOf DEF Publication
<1>3. Transacts(p)
  BY <1>1, <1>2, AbandonedTransacts DEF Exists
<1>4. Exists(c)'
  BY <1>2, <1>3 DEF Exists, Transacts, Growing
<1> QED BY <1>1, <1>3, <1>4, TurnKeeps

\* The activation of a Raw observation's attempt was proved when it was begun.
LEMMA ProveObservationKeeps ==
  ASSUME Rows, Protocol, NEW p \in Processes, ProveObservation(p)
  PROVE  Rows' /\ Protocol'
<1>0. PICK c : c = procs[p].cap
  OBVIOUS
<1>1. /\ Journal!Activated(c, procs[p].epoch, captures[c].begin) /\ procs[p].at = "settled"
      /\ captures[c].purpose = "raw-observation"
      /\ Turn(p, "settled", c) /\ ~Waiting(p) /\ UNCHANGED <<att, head>>
  BY <1>0 DEF ProveObservation, At, serverVars
<1>2. Exists(c)
  BY <1>0, <1>1, PlaceOf DEF Capturing
<1>3. att[captures[c].begin].state = "activated"
  BY <1>1, <1>2 DEF Protocol, Store, Settled, Exists
<1>4. Transacts(p)
  BY <1>1, <1>2, <1>3, ActivatedTransacts DEF Exists
<1>5. Exists(c)'
  BY <1>2, <1>4 DEF Exists, Transacts, Growing
<1> QED BY <1>1, <1>4, <1>5, TurnKeeps

LEMMA EndRawKeeps ==
  ASSUME Rows, Protocol, NEW p \in Processes, EndRaw(p)
  PROVE  Rows' /\ Protocol'
<1>0. PICK c : c = procs[p].cap
  OBVIOUS
<1>1. /\ Turn(p, "closing", c) /\ ~Waiting(p) /\ UNCHANGED <<att, head>> /\ UNCHANGED journalVars
      /\ procs[p].at \in Capturing
  BY <1>0 DEF EndRaw, At, serverVars, Capturing
<1>2. Transacts(p)
  BY <1>1, QuietTransacts DEF Quiet
<1>3. Exists(c)'
  BY <1>0, <1>1, <1>2, PlaceOf DEF Exists, Transacts, Growing
<1> QED BY <1>1, <1>2, <1>3, TurnKeeps

\* The steps that make a call about the capture at hand.
LEMMA AskKeeps ==
  ASSUME Rows, Protocol, NEW p \in Processes,
         CheckOpen(p) \/ AskRejection(p) \/ AskRenewal(p) \/ Advance(p) \/ AskReceipt(p) \/ SendRaw(p)
  PROVE  Rows' /\ Protocol'
<1>1. UNCHANGED journalVars /\ UNCHANGED <<att, head>> /\ ~Waiting(p)
  BY DEF CheckOpen, AskRejection, AskRenewal, Advance, AskReceipt, SendRaw, At, serverVars
<1>2. Transacts(p)
  BY <1>1, QuietTransacts DEF Quiet
<1>3. CASE CheckOpen(p)
  <2>1. procs[p].at = "begun" /\ Send(p, "status", "freeze")
    BY <1>3 DEF CheckOpen, At
  <2>2. procs[p].attempt \in Attempts
    BY <2>1, PlaceOf
  <2> QED BY <1>1, <1>2, <2>1, <2>2, SendKeeps DEF Calling, Capturing, Delivering
<1>4. ASSUME NEW op \in Sending, NEW label \in Delivering, Send(p, op, label), procs[p].at \in Delivering
      PROVE  Rows' /\ Protocol'
  BY <1>1, <1>2, <1>4, SendKeeps DEF Calling, Capturing, Delivering
<1>5. CASE AskRejection(p) \/ AskRenewal(p) \/ Advance(p)
  BY <1>4, <1>5 DEF AskRejection, AskRenewal, Advance, At, Sending, Delivering
<1>6. ASSUME NEW op \in RawOps, NEW label \in {"receipt", "appended"}, Send(p, op, label),
             procs[p].at \in Capturing
      PROVE  Rows' /\ Protocol'
  BY <1>1, <1>2, <1>6, SendKeeps DEF Calling, Delivering
<1>7. CASE AskReceipt(p) \/ SendRaw(p)
  BY <1>6, <1>7 DEF AskReceipt, SendRaw, At, RawOps, Capturing
<1> QED BY <1>3, <1>5, <1>7

LEMMA AcknowledgeKeeps ==
  ASSUME Rows, Protocol, NEW p \in Processes, Acknowledge(p)
  PROVE  Rows' /\ Protocol'
<1>1. /\ Quiet /\ Goto(p, "reconcile") /\ ~Waiting(p) /\ procs[p].at = "stored" /\ UNCHANGED <<att, head>>
  BY DEF Acknowledge, At, serverVars, Quiet
<1> QED BY <1>1, QuietTransacts, GotoKeeps DEF Delivering, Capturing

\* The steps that settle one Raw unit.
LEMMA SettleRawKeeps ==
  ASSUME Rows, Protocol, NEW p \in Processes, AcknowledgeRaw(p) \/ CancelRaw(p)
  PROVE  Rows' /\ Protocol'
<1> DEFINE c == procs[p].cap
<1>1. /\ Goto(p, "raw") /\ ~Waiting(p) /\ procs[p].at \in {"receipt", "appended"} /\ UNCHANGED <<att, head>>
      /\ \E e, u, x : Journal!RawAcknowledged(c, e, u, x) \/ Journal!RawUnitCanceled(c, e, u)
  BY DEF AcknowledgeRaw, CancelRaw, At, serverVars
<1>2. c \in Captures
  BY <1>1, PlaceOf DEF Capturing, Exists
<1>3. JournalRows' /\ Settling(c)
  BY <1>1, <1>2, RawAcknowledgedEffect, RawUnitCanceledEffect DEF Rows
<1>4. Transacts(p)
  BY <1>1, <1>2, <1>3, SettlingTransacts
<1> QED BY <1>1, <1>4, GotoKeeps DEF Delivering, Capturing

\* p stays where it is while the journal moves on.
LEMMA StayKeeps ==
  ASSUME Rows, Protocol, NEW p \in Processes, UNCHANGED <<att, head, procs, net>>, Quiet,
         ~Waiting(p), procs[p].at \in Capturing
  PROVE  Rows' /\ Protocol'
<1>0. PICK label : label = procs[p].at
  OBVIOUS
<1>1. Transacts(p)
  BY QuietTransacts
<1>2. GoesOn(p, label)
  BY <1>0 DEF Rows, ActorRows, ProcRow, GoesOn
<1>3. OthersAs(p)
  BY DEF OthersAs, Rows, ActorRows
<1> QED BY <1>0, <1>1, <1>2, <1>3, MovesOn

LEMMA PrepareKeeps ==
  ASSUME Rows, Protocol, NEW p \in Processes, Prepare(p)
  PROVE  Rows' /\ Protocol'
<1> DEFINE c == procs[p].cap
           e == procs[p].epoch
<1>1. /\ ~Waiting(p) /\ procs[p].at \in Capturing /\ UNCHANGED <<att, head, procs, net>>
      /\ PrepareRawRecord(p, c, e) \/ PrepareCanonical(p, c, e) \/ PrepareRawUnit(p, c, e)
  BY DEF Prepare, At, serverVars, Capturing
<1>2. c \in Captures
  BY <1>1, PlaceOf DEF Exists
<1>3. Quiet
  BY <1>1, <1>2 DEF PrepareRawRecord, PrepareCanonical, PrepareRawUnit, BindTo, Quiet, Journal!UnitKinds
<1> QED BY <1>1, <1>3, StayKeeps

LEMMA TidyKeeps ==
  ASSUME Rows, Protocol, NEW p \in Processes, Tidy(p)
  PROVE  Rows' /\ Protocol'
<1> DEFINE c == procs[p].cap
<1>1. ~Waiting(p) /\ procs[p].at \in Capturing /\ UNCHANGED <<att, head, procs, net>>
  BY DEF Tidy, Closed, At, serverVars, Capturing
<1>2. c \in Captures
  BY <1>1, PlaceOf DEF Exists
<1>3. Quiet
  BY <1>2 DEF Tidy, Quiet
<1> QED BY <1>1, <1>3, StayKeeps

\* A sealed capture is recovered with the attempt it was begun with.
LEMMA RecoverKeeps ==
  ASSUME Rows, Protocol, NEW p \in Processes, NEW c \in Captures, Recover(p, c)
  PROVE  Rows' /\ Protocol'
<1>0. PICK i, s, q : /\ i = captures[c].begin /\ s = Call("status", i, c, Null, p)
                     /\ q = [OnCapture(p, "reconcile", c) EXCEPT !.attempt = i, !.ops = 1]
  OBVIOUS
<1>1. /\ captures[c].state = "sealed" /\ captures[c].purpose = "publication" /\ ~Waiting(p)
      /\ UNCHANGED <<att, head>> /\ UNCHANGED journalVars
      /\ procs' = [procs EXCEPT ![p] = q] /\ net' = net \cup {s}
  BY <1>0 DEF Recover, At, serverVars
<1>2. /\ DOMAIN q = ProcFields /\ q.at = "reconcile" /\ q.epoch = procs[p].epoch /\ q.cap = c
      /\ DOMAIN q.view = {"state", "filled"} /\ q.view.state = "none" /\ q.attempt = i
  BY <1>0 DEF OnCapture, Idle, NoView, ProcFields
<1>3. /\ DOMAIN s = CallFields /\ s.op = "status" /\ s.attempt = i /\ s.from = p
  BY <1>0 DEF Call, CallFields
<1>4. Transacts(p)
  BY <1>1, QuietTransacts DEF Quiet
<1>5. OthersAs(p) /\ procs'[p] = q
  BY <1>1 DEF OthersAs, Rows, ActorRows
<1>6. ProcRow(procs'[p]) /\ procs'[p].epoch = procs[p].epoch
  BY <1>2, <1>5 DEF ProcRow, Rows, ActorRows
<1>7. i \in Attempts /\ Frozen(c, i)
  BY <1>0, <1>1 DEF Frozen, Publication, Exists, Rows, JournalRows, CaptureRow
<1>8. Placed(p)' /\ Told(p)' /\ ~Holds(p)'
  BY <1>1, <1>2, <1>5, <1>7
     DEF Placed, Told, Holds, Capturing, Delivering, Frozen, Publication, Exists, journalVars
<1>9. CallRow(s) /\ Called(s)' /\ Linked(s)'
  BY <1>2, <1>3, <1>5, <1>7 DEF CallRow, Called, Linked, Calling, Delivering, Sending, RawOps
<1> QED BY <1>1, <1>4, <1>5, <1>6, <1>8, <1>9, NotWaiting, ClientKeeps

\* A new capture is compared with the head the checkpoint stands for.
LEMMA StartCaptureKeeps ==
  ASSUME Rows, Protocol, NEW p \in Processes, StartCapture(p)
  PROVE  Rows' /\ Protocol'
<1>0. PICK s, q : /\ s = Call("reserve", Null, Null, Null, p)
                  /\ q = [procs[p] EXCEPT !.at = "reserved", !.base = BaseHead, !.grant = Granted]
  OBVIOUS
<1>1. /\ procs[p].at = "owner" /\ ~Waiting(p)
      /\ UNCHANGED <<att, head>> /\ UNCHANGED journalVars
      /\ procs' = [procs EXCEPT ![p] = q] /\ net' = net \cup {s}
  BY <1>0 DEF StartCapture, MayCapture, At, serverVars
<1>2. BaseHead = Checkpoint
  BY CheckpointKnown DEF Rows, Protocol
<1>3. procs[p].view.state = "none"
  BY <1>1 DEF Protocol, Actors, Placed
<1>4. /\ DOMAIN q = ProcFields /\ q.at = "reserved" /\ q.epoch = procs[p].epoch
      /\ q.base = Checkpoint /\ q.view = procs[p].view
  BY <1>0, <1>2 DEF Rows, ActorRows, ProcRow, ProcFields
<1>5. /\ DOMAIN s = CallFields /\ s.op = "reserve" /\ s.from = p
  BY <1>0 DEF Call, CallFields
<1>6. Transacts(p)
  BY <1>1, QuietTransacts DEF Quiet
<1>7. OthersAs(p) /\ procs'[p] = q
  BY <1>1 DEF OthersAs, Rows, ActorRows
<1>8. ProcRow(procs'[p]) /\ procs'[p].epoch = procs[p].epoch
  BY <1>4, <1>7 DEF ProcRow, Rows, ActorRows
<1>9. Placed(p)' /\ Told(p)' /\ ~Holds(p)'
  BY <1>1, <1>3, <1>4, <1>7 DEF Placed, Told, Holds, Capturing, Delivering, Checkpoint, journalVars
<1>10. CallRow(s) /\ Called(s)' /\ Linked(s)'
  BY <1>4, <1>5, <1>7 DEF CallRow, Called, Linked, Calling, Sending, RawOps
<1> QED BY <1>1, <1>6, <1>7, <1>8, <1>9, <1>10, NotWaiting, ClientKeeps

LEMMA ReserveTransacts ==
  ASSUME Rows, Protocol, NEW p \in Processes, UNCHANGED <<att, head>>,
         NEW e, NEW c \in Captures, NEW x, NEW i \in Attempts,
         NEW purpose \in {"publication", "raw-observation"}, NEW raw,
         Journal!Reserve(Source, e, c, x, i, purpose, raw, Tracked),
         purpose = "publication" => Holds(p) /\ i = procs[p].attempt,
         purpose = "raw-observation" => att[i].state = "activated"
  PROVE  Transacts(p) /\ Reserving(c, i, purpose) /\ Journal!OwnerScope(Source, e)
<1>1. Checkpoint \in Attempts \cup {Null}
  BY CheckpointKnown DEF Rows, Protocol
<1>2. /\ JournalRows' /\ OthersKept(c) /\ ScopeKept /\ Reserving(c, i, purpose)
      /\ Journal!OwnerScope(Source, e)
  BY <1>1, ReserveEffect DEF Rows
<1>3. /\ att[i].state # "unissued"
      /\ purpose = "publication" => \A d \in Captures : ~Publication(d, i)
  BY DEF Protocol, Actors, Held
<1>4. Store'
  BY <1>3, StoreReserve DEF Protocol
<1> QED BY <1>2, <1>4 DEF Transacts, Growing, OthersKept, Kept, ScopeKept, Reserving

\* The capture is bound to the identity its process holds.
LEMMA ReserveLocallyKeeps ==
  ASSUME Rows, Protocol, NEW p \in Processes, ReserveLocally(p)
  PROVE  Rows' /\ Protocol'
<1>0. PICK i, c, b, s, q :
        /\ i = procs[p].attempt /\ c = NewCapture /\ b = procs[p].base
        /\ s = Call("begin", i, c, b, p) /\ q = [OnCapture(p, "begun", c) EXCEPT !.attempt = i]
  OBVIOUS
<1>1. /\ procs[p].at = "reserved" /\ procs[p].view.state = "reserved" /\ ~Waiting(p) /\ Fresh # {}
      /\ Journal!Reserve(Source, procs[p].epoch, c, procs[p].checkpoint, i, "publication",
                         procs[p].grant # Null, Tracked)
      /\ UNCHANGED <<att, head>>
      /\ procs' = [procs EXCEPT ![p] = q] /\ net' = net \cup {s}
  BY <1>0 DEF ReserveLocally, At, View, serverVars, Tracked
<1>2. c \in Captures
  BY <1>0, <1>1 DEF NewCapture, Fresh
<1>3. Holds(p) /\ i \in Attempts
  BY <1>0, <1>1 DEF Holds, Protocol, Actors, Held
<1>4. Transacts(p) /\ Reserving(c, i, "publication") /\ Owner(p)
  BY <1>0, <1>1, <1>2, <1>3, ReserveTransacts DEF Owner
<1>5. /\ DOMAIN q = ProcFields /\ q.at = "begun" /\ q.epoch = procs[p].epoch /\ q.cap = c
      /\ DOMAIN q.view = {"state", "filled"} /\ q.view.state = "none" /\ q.attempt = i
  BY <1>0 DEF OnCapture, Idle, NoView, ProcFields
<1>6. /\ DOMAIN s = CallFields /\ s.op = "begin" /\ s.attempt = i /\ s.cap = c /\ s.base = b /\ s.from = p
  BY <1>0 DEF Call, CallFields
<1>7. OthersAs(p) /\ procs'[p] = q
  BY <1>1 DEF OthersAs, Rows, ActorRows
<1>8. ProcRow(procs'[p]) /\ procs'[p].epoch = procs[p].epoch
  BY <1>5, <1>7 DEF ProcRow, Rows, ActorRows
<1>9. Publication(c, i)' /\ captures'[c].expected = b
  <2>1. b = Checkpoint
    BY <1>0, <1>1, <1>4 DEF Protocol, Actors, Placed
  <2> QED BY <1>2, <1>4, <2>1 DEF Reserving, Publication, Exists
<1>10. Placed(p)' /\ Told(p)' /\ ~Holds(p)'
  BY <1>5, <1>7, <1>9 DEF Placed, Told, Holds, Capturing, Delivering, Publication, Exists
<1>11. CallRow(s) /\ Called(s)' /\ Linked(s)'
  BY <1>5, <1>6, <1>7, <1>9 DEF CallRow, Called, Linked, Calling, Sending, RawOps, Publication, Exists
<1> QED BY <1>1, <1>4, <1>7, <1>8, <1>10, <1>11, NotWaiting, ClientKeeps

\* The activation of the head is proved before a Raw observation is begun.
LEMMA StartObservationKeeps ==
  ASSUME Rows, Protocol, NEW p \in Processes, StartObservation(p)
  PROVE  Rows' /\ Protocol'
<1>0. PICK i, s, q :
        /\ i = BaseHead /\ s = Call("status", i, Null, Null, p)
        /\ q = [procs[p] EXCEPT !.at = "proving", !.attempt = i, !.grant = Granted]
  OBVIOUS
<1>1. /\ procs[p].at = "owner" /\ ~Waiting(p) /\ BaseHead # Null
      /\ UNCHANGED <<att, head>> /\ UNCHANGED journalVars
      /\ procs' = [procs EXCEPT ![p] = q] /\ net' = net \cup {s}
  BY <1>0 DEF StartObservation, MayCapture, At, serverVars
<1>2. i \in Attempts
  BY <1>0, <1>1, CheckpointKnown DEF Rows, Protocol
<1>3. procs[p].view.state = "none"
  BY <1>1 DEF Protocol, Actors, Placed
<1>4. /\ DOMAIN q = ProcFields /\ q.at = "proving" /\ q.epoch = procs[p].epoch
      /\ q.attempt = i /\ q.view = procs[p].view
  BY <1>0 DEF Rows, ActorRows, ProcRow, ProcFields
<1>5. /\ DOMAIN s = CallFields /\ s.op = "status" /\ s.attempt = i /\ s.from = p
  BY <1>0 DEF Call, CallFields
<1>6. Transacts(p)
  BY <1>1, QuietTransacts DEF Quiet
<1>7. OthersAs(p) /\ procs'[p] = q
  BY <1>1 DEF OthersAs, Rows, ActorRows
<1>8. ProcRow(procs'[p]) /\ procs'[p].epoch = procs[p].epoch
  BY <1>4, <1>7 DEF ProcRow, Rows, ActorRows
<1>9. Placed(p)' /\ Told(p)' /\ ~Holds(p)'
  BY <1>3, <1>4, <1>7 DEF Placed, Told, Holds, Capturing, Delivering
<1>10. CallRow(s) /\ Called(s)' /\ Linked(s)'
  BY <1>2, <1>4, <1>5, <1>7 DEF CallRow, Called, Linked, Calling, Sending, RawOps
<1> QED BY <1>1, <1>6, <1>7, <1>8, <1>9, <1>10, NotWaiting, ClientKeeps

LEMMA ReserveObservationKeeps ==
  ASSUME Rows, Protocol, NEW p \in Processes, ReserveObservation(p)
  PROVE  Rows' /\ Protocol'
<1>0. PICK i, c : i = procs[p].attempt /\ c = NewCapture
  OBVIOUS
<1>1. /\ procs[p].view.state = "activated" /\ ~Waiting(p) /\ Fresh # {}
      /\ Journal!Reserve(Source, procs[p].epoch, c, procs[p].checkpoint, i, "raw-observation",
                         Tracked, Tracked)
      /\ Turn(p, "observing", c) /\ UNCHANGED <<att, head>>
  BY <1>0 DEF ReserveObservation, At, View, serverVars, Tracked
<1>2. c \in Captures
  BY <1>0, <1>1 DEF NewCapture, Fresh
<1>3. i \in Attempts /\ att[i].state = "activated"
  BY <1>0, <1>1 DEF Protocol, Actors, Told
<1>4. Transacts(p) /\ Reserving(c, i, "raw-observation")
  BY <1>1, <1>2, <1>3, ReserveTransacts
<1>5. Exists(c)' /\ captures'[c].purpose = "raw-observation"
  BY <1>2, <1>4 DEF Reserving, Exists
<1> QED BY <1>1, <1>4, <1>5, TurnKeeps

\* The steps that begin or end a capture's Raw delivery.
LEMMA StartRawKeeps ==
  ASSUME Rows, Protocol, NEW p \in Processes, StartRaw(p)
  PROVE  Rows' /\ Protocol'
<1>0. PICK c, i, e, reason : /\ c = procs[p].cap /\ i = captures[c].begin /\ e = procs[p].epoch
                             /\ reason = IF captures[c].canceled # Null THEN Null ELSE Revoked(p, c)
  OBVIOUS
<1>1. /\ procs[p].at = "settled" /\ ~Waiting(p)
      /\ UNCHANGED <<att, head>> /\ net' = net
      /\ UNCHANGED journalVars \/ Journal!RawCancellationStarted(c, e, reason)
      /\ \E canceling, ops :
           procs' = [procs EXCEPT ![p] =
             [@ EXCEPT !.at = "raw", !.attempt = i, !.canceling = canceling, !.ops = ops]]
  BY <1>0 DEF StartRaw, At, serverVars
<1>2. c \in Captures /\ procs[p].view.state = "none"
  BY <1>0, <1>1, PlaceOf DEF Capturing, Exists, Protocol, Actors, Placed
<1>3. Transacts(p)
  <2>1. CASE UNCHANGED journalVars
    BY <1>1, <2>1, QuietTransacts DEF Quiet
  <2>2. CASE Journal!RawCancellationStarted(c, e, reason)
    BY <1>1, <1>2, <2>2, RawCancellationStartedEffect, SettlingTransacts DEF Rows
  <2> QED BY <1>1, <2>1, <2>2
<1>4. /\ OthersAs(p) /\ DOMAIN procs'[p] = ProcFields /\ procs'[p].at = "raw" /\ procs'[p].epoch = e
      /\ procs'[p].cap = c /\ procs'[p].view = procs[p].view
  BY <1>0, <1>1 DEF OthersAs, Rows, ActorRows, ProcRow, ProcFields
<1>5. ProcRow(procs'[p]) /\ procs'[p].epoch = procs[p].epoch
  BY <1>0, <1>4 DEF ProcRow, Rows, ActorRows
<1>6. Exists(c)'
  BY <1>0, <1>1, <1>3, PlaceOf DEF Capturing, Exists, Transacts, Growing
<1>7. Placed(p)' /\ Told(p)' /\ ~Holds(p)'
  BY <1>2, <1>4, <1>6 DEF Placed, Told, Holds, Capturing, Delivering, Exists
<1> QED BY <1>1, <1>3, <1>4, <1>5, <1>7, NotWaiting, ClientKeeps

LEMMA StopRawKeeps ==
  ASSUME Rows, Protocol, NEW p \in Processes, StopRaw(p)
  PROVE  Rows' /\ Protocol'
<1>0. PICK c : c = procs[p].cap
  OBVIOUS
<1>1. /\ procs[p].at = "appended" /\ ~Waiting(p)
      /\ UNCHANGED <<att, head>> /\ net' = net
      /\ Journal!RawCancellationStarted(c, procs[p].epoch, "authority")
      /\ procs' = [procs EXCEPT ![p] = [@ EXCEPT !.at = "raw", !.canceling = TRUE]]
  BY <1>0 DEF StopRaw, At, serverVars
<1>2. c \in Captures
  BY <1>0, <1>1, PlaceOf DEF Capturing, Exists
<1>3. Transacts(p)
  BY <1>1, <1>2, RawCancellationStartedEffect, SettlingTransacts DEF Rows
<1>4. OthersAs(p) /\ GoesOn(p, "raw")
  BY <1>1 DEF OthersAs, Rows, ActorRows, ProcRow, ProcFields, GoesOn
<1> QED BY <1>1, <1>3, <1>4, MovesOn DEF Capturing, Delivering

\* A claim takes the source from every other process.
LEMMA ClaimKeeps ==
  ASSUME Rows, Protocol, NEW p \in Processes, UNCHANGED <<att, head, net>>, ~Waiting(p),
         Journal!Claim(Source), NEW q, procs' = [procs EXCEPT ![p] = q],
         DOMAIN q = ProcFields, DOMAIN q.view = ViewFields, q.view.state = "none",
         q.at = "owner", q.epoch = scopes'[Source].epoch
  PROVE  Rows' /\ Protocol'
<1>1. /\ JournalRows' /\ AllKept
      /\ scopes'[Source].epoch = scopes[Source].epoch + 1
      /\ scopes'[Source].checkpoint = scopes[Source].checkpoint
      /\ scopes'[Source].coverage = scopes[Source].coverage
  BY ClaimEffect DEF Rows
<1>2. Store'
  BY <1>1, StoreQuiet DEF Rows, Protocol
<1>3. OthersAs(p) /\ procs'[p] = q
  BY DEF OthersAs, Rows, ActorRows
<1>4. scopes[Source].epoch \in Nat /\ scopes'[Source].epoch \in Nat
  BY <1>1 DEF Rows, JournalRows
<1>5. \A b \in Processes : procs[b].epoch \in Nat /\ procs[b].epoch < scopes'[Source].epoch
  BY <1>1, <1>4 DEF Protocol, Actors, Claims, Rows, ActorRows, ProcRow
<1>6. Claims'
  <2> SUFFICES ASSUME NEW a \in Processes
               PROVE  /\ procs'[a].epoch <= scopes'[Source].epoch
                      /\ \A b \in Processes :
                           procs'[a].epoch # 0 /\ procs'[b].epoch = procs'[a].epoch => a = b
    BY DEF Claims
  <2>1. \A b \in Processes \ {p} : procs'[b].epoch = procs[b].epoch
    BY <1>3 DEF OthersAs
  <2>2. procs'[p].epoch = scopes'[Source].epoch
    BY <1>3
  <2> QED BY <1>4, <1>5, <2>1, <2>2 DEF Protocol, Actors, Claims
<1>7. SoleOwner(p)
  BY <1>3, <1>5 DEF SoleOwner, OthersAs, Owner, Journal!OwnerScope
<1>8. Growing(p)
  BY <1>1 DEF Growing, AllKept, Kept
<1>9. Placed(p)' /\ Told(p)' /\ ~Holds(p)'
  BY <1>3 DEF Placed, Told, Holds, Capturing, Delivering
<1>10. Actors'
  BY <1>3, <1>6, <1>7, <1>8, <1>9, NotWaiting, ActorsClient DEF Protocol
<1>11. ActorRows'
  BY <1>3, <1>4 DEF Rows, ActorRows, OthersAs, ProcRow, ViewFields
<1>12. ServerRows'
  BY DEF Rows, ServerRows
<1> QED BY <1>1, <1>2, <1>10, <1>11, <1>12 DEF Rows, Protocol

LEMMA ClaimsKeep ==
  ASSUME Rows, Protocol, NEW p \in Processes,
         (\E changed \in BOOLEAN : Claim(p, changed)) \/ ClaimSource(p)
  PROVE  Rows' /\ Protocol'
<1>1. Journal!Claim(Source) /\ ~Waiting(p) /\ UNCHANGED <<att, head, net>>
  BY DEF Claim, ClaimSource, Closed, At, serverVars
<1>2. ASSUME NEW changed \in BOOLEAN, Claim(p, changed)
      PROVE  Rows' /\ Protocol'
  <2> DEFINE q == [Idle EXCEPT !.at = "owner", !.epoch = scopes'[Source].epoch,
                               !.checkpoint = scopes[Source].checkpoint, !.changed = changed]
  <2>1. /\ DOMAIN q = ProcFields /\ DOMAIN q.view = ViewFields /\ q.view.state = "none"
        /\ q.at = "owner" /\ q.epoch = scopes'[Source].epoch
    BY DEF Idle, NoView, ProcFields, ViewFields
  <2>2. procs' = [procs EXCEPT ![p] = q]
    BY <1>2 DEF Claim
  <2> HIDE DEF q
  <2> QED BY <1>1, <2>1, <2>2, ClaimKeeps
<1>3. ASSUME ClaimSource(p)
      PROVE  Rows' /\ Protocol'
  <2> DEFINE q == [Idle EXCEPT !.at = "owner", !.epoch = scopes'[Source].epoch, !.walked = TRUE,
                               !.checkpoint = scopes[Source].checkpoint, !.changed = procs[p].changed]
  <2>1. /\ DOMAIN q = ProcFields /\ DOMAIN q.view = ViewFields /\ q.view.state = "none"
        /\ q.at = "owner" /\ q.epoch = scopes'[Source].epoch
    BY DEF Idle, NoView, ProcFields, ViewFields
  <2>2. procs' = [procs EXCEPT ![p] = q]
    BY <1>3 DEF ClaimSource
  <2> HIDE DEF q
  <2> QED BY <1>1, <2>1, <2>2, ClaimKeeps
<1> QED BY <1>2, <1>3

LEMMA GiveUpKeeps ==
  ASSUME Rows, Protocol, NEW p \in Processes, GiveUp(p)
  PROVE  Rows' /\ Protocol'
<1>1. /\ ~Waiting(p) /\ UNCHANGED <<att, head, net>> /\ UNCHANGED journalVars
      /\ procs' = [procs EXCEPT ![p] = Idle]
  BY DEF GiveUp, Stop, serverVars
<1>2. Transacts(p)
  BY <1>1, QuietTransacts DEF Quiet
<1> QED BY <1>1, <1>2, NotWaiting, StopKeeps

\* The call a stopped process waited for may outlive it.
LEMMA FailKeeps ==
  ASSUME Rows, Protocol, NEW p \in Processes, Fail(p)
  PROVE  Rows' /\ Protocol'
<1>1. /\ UNCHANGED <<att, head, captures, scopes>> /\ UNCHANGED journalVars
      /\ procs' = [procs EXCEPT ![p] = Idle]
      /\ \A r \in net' : (r \in net /\ r.from # p) \/ \E s \in net : r = [s EXCEPT !.from = Null]
  BY DEF Fail, serverVars, journalVars
<1>2. Transacts(p)
  BY <1>1, QuietTransacts DEF Quiet
<1>3. ASSUME NEW s \in net, NEW r, r = [s EXCEPT !.from = Null]
      PROVE  CallRow(r) /\ Called(r)' /\ Linked(r)'
  <2>1. Called(s) /\ DOMAIN s = CallFields
    BY DEF Protocol, Actors, Rows, ActorRows, CallRow
  <2>2. /\ DOMAIN r = CallFields /\ r.from = Null /\ r.op = s.op /\ r.attempt = s.attempt
        /\ r.cap = s.cap /\ r.base = s.base
    BY <1>3, <2>1 DEF CallFields
  <2>3. Called(r)'
    BY <1>1, <2>1, <2>2 DEF Called, Publication, Frozen, Exists
  <2> QED BY <2>2, <2>3 DEF CallRow, Linked
<1> QED BY <1>1, <1>2, <1>3, StopKeeps

-----------------------------------------------------------------------------
(* The environment, and every step.                                        *)

\* What the Server's clock, its users and the network do to nobody in particular.
LEMMA EnvironmentKeeps ==
  ASSUME Rows, Protocol, UNCHANGED <<scopes, captures, units, procs>>, net' \subseteq net,
         UNCHANGED <<att, head>> \/ \E L : Server!Lose(L)
  PROVE  Rows' /\ Protocol'
<1>1. ServerRows' /\ Store' /\ \A j \in Attempts : Lasting(j) /\ StaysReserved(j)
  <2>1. CASE UNCHANGED <<att, head>>
    BY <2>1, StoreServed DEF Protocol, Store, Bound, Publication, Exists, Rows, ServerRows, Lasting, StaysReserved
  <2>2. CASE \E L : Server!Lose(L)
    BY <2>2, StoreExpired DEF StaysReserved, Protocol
  <2> QED BY <2>1, <2>2
<1>2. Actors'
  BY <1>1, ActorsServed DEF Protocol, ProcKept
<1>3. JournalRows' /\ ActorRows'
  BY DEF Rows, JournalRows, UnitRow, ActorRows
<1> QED BY <1>1, <1>2, <1>3 DEF Rows, Protocol

LEMMA EnvironmentSteps ==
  ASSUME Rows, Protocol,
         \/ \E r \in net : LoseCall(r)
         \/ \E i \in Attempts : Expire(i)
         \/ DeleteSession
         \/ \E enabled \in BOOLEAN : ChangeRawPolicy(enabled)
         \/ UNCHANGED vars
  PROVE  Rows' /\ Protocol'
<1>1. UNCHANGED <<scopes, captures, units, procs>> /\ net' \subseteq net
  BY DEF LoseCall, Expire, DeleteSession, ChangeRawPolicy, vars, journalVars
<1>2. UNCHANGED <<att, head>> \/ \E L : Server!Lose(L)
  BY DEF LoseCall, Expire, DeleteSession, ChangeRawPolicy, vars, serverVars, Server!Close
<1> QED BY <1>1, <1>2, EnvironmentKeeps

LEMMA StepKeeps ==
  ASSUME Rows, Protocol, NEW p \in Processes, Step(p)
  PROVE  Rows' /\ Protocol'
BY DiscardKeeps, RecoverKeeps, RecoverRawKeeps, StartCaptureKeeps, ReserveLocallyKeeps,
   StartObservationKeeps, ReserveObservationKeeps, PrepareKeeps, AskKeeps, FreezeKeeps,
   FreezeObservationKeeps, SettleActivatedKeeps, SettleRejectedKeeps, AcknowledgeKeeps,
   ProveObservationKeeps, StartRawKeeps, SettleRawKeeps, StopRawKeeps, EndRawKeeps, TidyKeeps,
   ClaimsKeep, GiveUpKeeps DEF Step

LEMMA NextKeeps ==
  ASSUME Rows, Protocol, [Next]_vars
  PROVE  Rows' /\ Protocol'
BY ClaimsKeep, StepKeeps, FailKeeps, ServeKeeps, EnvironmentSteps DEF Next

LEMMA InitKeeps ==
  ASSUME Init
  PROVE  Rows /\ Protocol
<1>1. /\ scopes = [s \in {Source} |-> Journal!NoScope] /\ captures = [c \in Captures |-> Journal!NoCapture]
      /\ units = {} /\ att = [i \in Attempts |-> Server!Unissued] /\ head = [s \in {Source} |-> Null]
      /\ procs = [p \in Processes |-> Idle] /\ net = {}
  BY DEF Init, Journal!Init, Server!AuthorityInit
<1>2. /\ DOMAIN Journal!NoScope = ScopeFields /\ Journal!NoScope.epoch = 0
      /\ Journal!NoScope.checkpoint = Null /\ Journal!NoScope.coverage = Null
  BY DEF Journal!NoScope, ScopeFields
<1>3. /\ DOMAIN Journal!NoCapture = CaptureFields /\ Journal!NoCapture.state = "none"
      /\ Journal!NoCapture.activation = Null
  BY DEF Journal!NoCapture, CaptureFields
<1>4. /\ DOMAIN Server!Unissued = AttFields /\ Server!Unissued.state = "unissued"
      /\ Server!Unissued.session = Null
  BY DEF Server!Unissued, AttFields
<1>5. /\ DOMAIN Idle = ProcFields /\ Idle.at = "idle" /\ Idle.epoch = 0
      /\ DOMAIN Idle.view = {"state", "filled"} /\ Idle.view.state = "none"
  BY DEF Idle, NoView, ProcFields
<1>6. JournalRows
  BY <1>1, <1>2, <1>3 DEF JournalRows, CaptureRow, CaptureStates
<1>7. ServerRows /\ ActorRows
  BY <1>1, <1>4, <1>5 DEF ServerRows, AttRow, AttStates, ActorRows, ProcRow
<1>8. Store
  BY <1>1, <1>2, <1>3, <1>4
     DEF Store, Covering, Checkpoint, HeadActive, HeadAccounted, Bound, Owning, Settled, Exists
<1>9. Actors
  BY <1>1, <1>2, <1>5 DEF Actors, Claims, Placed, Held, Holds, Told, Capturing, Delivering
<1> QED BY <1>6, <1>7, <1>8, <1>9 DEF Rows, Protocol

-----------------------------------------------------------------------------
(* The published head                                                      *)

\* The rows keep their shape, and the journal, the Server, every process and every
\* call in flight agree: beginPublicationCapture, deliverPublicationCapture and
\* recovery act only on attempts of their own capture, over its checkpoint.
THEOREM DeliveryProtocol == Spec => [](Rows /\ Protocol)
<1>1. Init => Rows /\ Protocol
  BY InitKeeps
<1>2. Rows /\ Protocol /\ [Next]_vars => Rows' /\ Protocol'
  BY NextKeeps
<1> QED BY <1>1, <1>2, PTL DEF Spec

\* The client never loses the published head, wherever deliverPublicationCapture
\* stops and however late its activation is served: the head is the checkpoint, or
\* the attempt of the one sealed capture that recovery asks the Server about.
THEOREM HeadNeverLost == Spec => []HeadAccounted
<1>1. Rows /\ Protocol => HeadAccounted
  BY DEF Protocol, Store
<1> QED BY <1>1, DeliveryProtocol, PTL

-----------------------------------------------------------------------------
(* Raw content.                                                            *)

\* What a step of p does to its own answers, claims and grant.
Answers(p) ==
  /\ OthersAs(p)
  /\ \/ procs'[p].view.state = "none"
     \/ procs'[p].view = procs[p].view /\ procs'[p].cap = procs[p].cap
  /\ procs'[p].grant \in {Null, procs[p].grant, Granted}
  /\ \A q \in Processes : Owner(q)' => Owner(q) \/ procs'[q].view.state = "none"

\* A capture is canceled by its owner only, which has not just found its chunk
\* absent, and for "authority" only once that authority has ended.
Cancels(p, c) ==
  \/ captures'[c].canceled = captures[c].canceled
  \/ /\ captures[c].canceled = Null /\ Owner(p) /\ procs[p].view.state # "absent"
     /\ captures'[c].canceled = "authority" => ~Authorized(c)
\* A Raw unit is settled by its owner on the archive's word.
UnitSettled(p, w) ==
  LET c == w.capture IN
  /\ Exists(c)
  /\ \/ w.disposition = "acknowledged" /\ c \in archive
     \/ /\ w.disposition = "canceled" /\ captures'[c].canceled # Null
        /\ captures'[c].canceled = "authority" => c \notin archive
\* What the journal transaction of a step of p does to Raw content.
Delivers(p) ==
  /\ DOMAIN intents' = Captures
  /\ \A c \in Captures :
       /\ Exists(c) => Exists(c)' /\ intents'[c] = intents[c] /\ Cancels(p, c)
       /\ ~Exists(c) => /\ intents'[c] \in {intents[c], procs[p].grant}
                        /\ Exists(c)' => captures'[c].canceled = Null
  /\ \A w \in units' : RawKept(w) \/ (w.kind = "raw" /\ UnitSettled(p, w))

LEMMA RawClient ==
  ASSUME Rows, Protocol, Raw, NEW p \in Processes, UNCHANGED <<policy, archive>>,
         Answers(p), Delivers(p)
  PROVE  Raw'
<1>1. policy'.revision \in 1..MaxRevoked + 1 /\ DOMAIN intents' = Captures
  BY DEF Raw, Delivers
<1>2. \A c : Exists(c) => Exists(c)' /\ (Authorized(c)' <=> Authorized(c)) /\ Cancels(p, c)
  BY DEF Delivers, Authorized, Exists
<1>3. ASSUME NEW q \in Processes PROVE Archived(q)'
  <2>1. CASE procs'[q].view.state = "none"
    BY <2>1 DEF Archived
  <2>2. CASE procs'[q].view.state # "none"
    <3>0. PICK c, v : c = procs[q].cap /\ v = procs[q].view.state
      OBVIOUS
    <3>1. /\ procs'[q].view.state = v /\ procs'[q].cap = c /\ Archived(q)
          /\ Owner(q)' => Owner(q)
      BY <2>2, <3>0 DEF Answers, OthersAs, Raw
    <3>2. SUFFICES ASSUME v \in {"stored", "refused", "absent"}
                   PROVE  /\ Exists(c)'
                          /\ v = "stored" => c \in archive'
                          /\ v = "refused" => ~Authorized(c)'
                          /\ v = "absent" /\ Owner(q)' /\ captures'[c].canceled = "authority" => c \notin archive'
      BY <3>1 DEF Archived, Exists, Authorized
    <3>3. /\ Exists(c) /\ (v = "stored" => c \in archive) /\ (v = "refused" => ~Authorized(c))
          /\ v = "absent" /\ Owner(q) /\ captures[c].canceled = "authority" => c \notin archive
      BY <3>0, <3>1, <3>2 DEF Archived
    <3>4. Exists(c)' /\ (Authorized(c)' <=> Authorized(c)) /\ Cancels(p, c)
      BY <1>2, <3>3
    <3>5. ASSUME v = "absent", Owner(q)', captures'[c].canceled # captures[c].canceled
          PROVE  FALSE
      <4>1. Owner(p) /\ procs[p].view.state # "absent"
        BY <3>4, <3>5 DEF Cancels
      <4>2. p = q
        BY <3>1, <3>5, <4>1 DEF Protocol, Actors, Claims, Owner, Journal!OwnerScope
      <4> QED BY <3>0, <3>5, <4>1, <4>2
    <3> QED BY <3>1, <3>3, <3>4, <3>5
  <2> QED BY <2>1, <2>2
<1>4. ASSUME NEW q \in Processes PROVE Granting(q)'
  <2>1. procs'[q].grant \in {Null, procs[q].grant, Granted}
    BY DEF Answers, OthersAs
  <2>2. Granted \in 1..policy.revision \cup {Null}
    BY DEF Granted, Raw
  <2> QED BY <2>1, <2>2 DEF Raw, Granting
<1>5. ASSUME NEW c \in Captures PROVE RawIntent(c)'
  <2>1. RawIntent(c) /\ Granting(p)
    BY DEF Raw
  <2>2. intents'[c] # Null => intents'[c] \in 1..policy'.revision
    BY <2>1 DEF RawIntent, Granting, Delivers
  <2>3. CASE Exists(c)
    BY <1>2, <2>1, <2>2, <2>3 DEF RawIntent, Cancels
  <2>4. CASE ~Exists(c)
    BY <2>2, <2>4, DeliveryAssumption DEF RawIntent, Delivers
  <2> QED BY <2>3, <2>4
<1>6. ASSUME NEW w \in units'
      PROVE  /\ Canceled(w)'
             /\ w.kind = "raw" /\ w.disposition = "acknowledged" => w.capture \in archive
             /\ w.kind = "raw" /\ w.disposition = "canceled" /\ captures'[w.capture].canceled = "authority" =>
                  w.capture \notin archive
  <2>1. CASE w.kind = "raw" /\ UnitSettled(p, w)
    BY <2>1 DEF UnitSettled, Canceled
  <2>2. CASE w.kind = "raw" /\ w.disposition = "pending"
    BY <2>2 DEF Canceled
  <2>3. CASE w.kind = "raw" /\ \E u \in units : u.capture = w.capture /\ u.kind = w.kind /\ u.disposition = w.disposition
    <3>1. PICK u \in units : u.capture = w.capture /\ u.kind = "raw" /\ u.disposition = w.disposition
      BY <2>3
    <3> DEFINE c == w.capture
    <3>2. Exists(c) /\ c \in Captures /\ Canceled(u) /\ RawTruthfully(c) /\ u \in Journal!UnitsOf(c, "raw")
      BY <3>1 DEF Rows, JournalRows, UnitRow, Raw, Exists, Journal!UnitsOf
    <3>3. Cancels(p, c)
      BY <1>2, <3>2
    <3>4. w.disposition = "canceled" => captures[c].canceled # Null /\ captures'[c].canceled = captures[c].canceled
      BY <3>1, <3>2, <3>3 DEF Canceled, Cancels
    <3> QED BY <2>3, <3>1, <3>2, <3>4 DEF RawTruthfully, Canceled
  <2>4. CASE w.kind # "raw"
    BY <2>4 DEF Canceled
  <2> QED BY <2>1, <2>2, <2>3, <2>4 DEF Delivers, RawKept
<1>7. ASSUME NEW c \in Captures PROVE RawTruthfully(c)'
  BY <1>6 DEF RawTruthfully, Journal!UnitsOf
<1> QED BY <1>1, <1>3, <1>4, <1>5, <1>6, <1>7 DEF Raw

\* The archive's answers reach the process that waits.
ArchiveAnswered(q) ==
  LET v == procs'[q].view.state
      c == procs'[q].cap
  IN
  v \in {"stored", "refused", "absent"} =>
    /\ Exists(c)
    /\ v = "stored" => c \in archive'
    /\ v = "refused" => ~Authorized(c)
    /\ v = "absent" => c \notin archive'

LEMMA RawServed ==
  ASSUME Rows, Raw, UNCHANGED <<scopes, captures, units, intents, policy>>,
         archive' = archive \/ \E c : Exists(c) /\ Authorized(c) /\ archive' = archive \cup {c},
         \A q \in Processes :
           /\ procs'[q].epoch = procs[q].epoch /\ procs'[q].cap = procs[q].cap
           /\ procs'[q].grant = procs[q].grant
           /\ procs'[q].view = procs[q].view \/ ArchiveAnswered(q)
  PROVE  Raw'
<1>1. \A c : (Exists(c)' <=> Exists(c)) /\ (Authorized(c)' <=> Authorized(c))
  BY DEF Exists, Authorized
<1>2. \A c : Exists(c) /\ captures[c].canceled = "authority" => (c \in archive' <=> c \in archive)
  <2>1. \A c : Exists(c) /\ captures[c].canceled = "authority" => ~Authorized(c)
    BY DEF Raw, RawIntent, Exists
  <2> QED BY <2>1
<1>3. archive \subseteq archive'
  OBVIOUS
<1>4. ASSUME NEW q \in Processes PROVE Archived(q)' /\ Granting(q)'
  <2>0. PICK c, v : c = procs[q].cap /\ v = procs'[q].view.state
    OBVIOUS
  <2>1. procs'[q].cap = c /\ (Owner(q)' => Owner(q)) /\ Archived(q) /\ Granting(q)
    BY <2>0 DEF Owner, Journal!OwnerScope, Raw
  <2>2. Granting(q)'
    BY <2>1 DEF Granting
  <2>3. SUFFICES ASSUME v \in {"stored", "refused", "absent"}
                 PROVE  /\ Exists(c)
                        /\ v = "stored" => c \in archive'
                        /\ v = "refused" => ~Authorized(c)
                        /\ v = "absent" /\ Owner(q) /\ captures[c].canceled = "authority" => c \notin archive'
    BY <2>0, <2>1, <2>2 DEF Archived, Exists, Authorized
  <2>4. CASE procs'[q].view = procs[q].view
    BY <1>2, <1>3, <2>0, <2>1, <2>3, <2>4 DEF Archived
  <2>5. CASE ArchiveAnswered(q)
    BY <2>0, <2>1, <2>3, <2>5 DEF ArchiveAnswered
  <2> QED BY <2>4, <2>5
<1>5. ASSUME NEW c \in Captures PROVE RawIntent(c)' /\ RawTruthfully(c)'
  <2>1. RawIntent(c) /\ RawTruthfully(c)
    BY DEF Raw
  <2>2. \A u \in Journal!UnitsOf(c, "raw") : Exists(c)
    BY DEF Rows, JournalRows, UnitRow, Journal!UnitsOf, Exists
  <2> QED BY <1>1, <1>2, <1>3, <2>1, <2>2 DEF RawIntent, RawTruthfully, Journal!UnitsOf
<1>6. \A u \in units' : Canceled(u)'
  BY DEF Raw, Canceled
<1> QED BY <1>4, <1>5, <1>6 DEF Raw

\* A changed policy ends every authority there was.
LEMMA RawChanged ==
  ASSUME Raw, NEW enabled, ChangeRawPolicy(enabled)
  PROVE  Raw'
<1>1. /\ policy' = [enabled |-> enabled, revision |-> policy.revision + 1]
      /\ policy.revision \in 1..MaxRevoked + 1 /\ policy.revision <= MaxRevoked
      /\ UNCHANGED <<scopes, captures, units, intents, archive, procs>>
  BY DEF ChangeRawPolicy, Raw, journalVars
<1>2. /\ policy'.revision \in 1..MaxRevoked + 1 /\ policy'.revision = policy.revision + 1
      /\ policy'.revision # Null
  BY <1>1, DeliveryAssumption
<1>3. \A c \in Captures : ~Authorized(c)'
  BY <1>1, <1>2 DEF Authorized, Raw, RawIntent
<1>4. \A x \in 1..policy.revision : x \in 1..policy'.revision
  BY <1>1, <1>2
<1>5. ASSUME NEW q \in Processes PROVE Archived(q)' /\ Granting(q)'
  <2>1. Archived(q) /\ Granting(q)
    BY DEF Raw
  <2>2. Owner(q)' <=> Owner(q)
    BY <1>1 DEF Owner, Journal!OwnerScope
  <2>3. Granting(q)'
    BY <1>1, <1>4, <2>1 DEF Granting
  <2>4. \A c : Exists(c) => ~Authorized(c)'
    BY <1>3 DEF Exists
  <2> QED BY <1>1, <2>1, <2>2, <2>3, <2>4 DEF Archived, Exists, Authorized
<1>6. ASSUME NEW c \in Captures PROVE RawIntent(c)' /\ RawTruthfully(c)'
  BY <1>1, <1>3, <1>4 DEF Raw, RawIntent, RawTruthfully, Exists, Journal!UnitsOf
<1>7. \A u \in units' : Canceled(u)'
  BY <1>1 DEF Raw, Canceled
<1> QED BY <1>1, <1>2, <1>5, <1>6, <1>7 DEF Raw

\* A step of p leaves the answer it has, or goes on without one.
Speaks(p) ==
  /\ OthersAs(p)
  /\ procs'[p].grant \in {Null, procs[p].grant, Granted}
  /\ \/ procs'[p].view.state = "none"
     \/ /\ procs'[p].view = procs[p].view /\ procs'[p].cap = procs[p].cap
        /\ procs'[p].epoch = procs[p].epoch

LEMMA MoveSpeaks ==
  ASSUME Rows, NEW p \in Processes,
         \/ \E label, c : Turn(p, label, c)
         \/ Stop(p)
         \/ \E label : Goto(p, label)
         \/ \E op, label : Send(p, op, label)
         \/ procs' = procs
  PROVE  Speaks(p)
<1>1. ASSUME NEW label, NEW c, Turn(p, label, c) PROVE Speaks(p)
  <2> DEFINE q == OnCapture(p, label, c)
  <2>1. q.view.state = "none" /\ q.grant = Null
    BY DEF OnCapture, Idle, NoView
  <2>2. procs' = [procs EXCEPT ![p] = q]
    BY <1>1 DEF Turn
  <2> HIDE DEF q
  <2> QED BY <2>1, <2>2 DEF Speaks, OthersAs, Rows, ActorRows
<1>2. CASE procs' = [procs EXCEPT ![p] = Idle]
  <2>1. Idle.view.state = "none" /\ Idle.grant = Null
    BY DEF Idle, NoView
  <2> QED BY <1>2, <2>1 DEF Speaks, OthersAs, Rows, ActorRows
<1>3. CASE \E label : procs' = [procs EXCEPT ![p].at = label]
  BY <1>3 DEF Speaks, OthersAs, Rows, ActorRows, ProcRow, ProcFields
<1>4. CASE \E label, n : procs' = [procs EXCEPT ![p] = [@ EXCEPT !.at = label, !.ops = n]]
  BY <1>4 DEF Speaks, OthersAs, Rows, ActorRows, ProcRow, ProcFields
<1>5. CASE procs' = procs
  BY <1>5 DEF Speaks, OthersAs, Rows, ActorRows
<1> QED BY <1>1, <1>2, <1>3, <1>4, <1>5 DEF Stop, Goto, Send

LEMMA StepSpeaks ==
  ASSUME Rows, Protocol, NEW p \in Processes,
         Step(p) \/ (\E changed \in BOOLEAN : Claim(p, changed)) \/ Fail(p)
  PROVE  Speaks(p)
<1>1. ASSUME NEW c \in Captures, Discard(p, c) \/ Recover(p, c) \/ RecoverRaw(p, c)
      PROVE  Speaks(p)
  <2>1. CASE Recover(p, c)
    <3> DEFINE q == [OnCapture(p, "reconcile", c) EXCEPT !.attempt = captures[c].begin, !.ops = 1]
    <3>1. q.view.state = "none" /\ q.grant = Null
      BY DEF OnCapture, Idle, NoView
    <3>2. procs' = [procs EXCEPT ![p] = q]
      BY <2>1 DEF Recover
    <3> HIDE DEF q
    <3> QED BY <3>1, <3>2 DEF Speaks, OthersAs, Rows, ActorRows
  <2> QED BY <1>1, <2>1, MoveSpeaks DEF Discard, RecoverRaw
<1>2. CASE StartCapture(p) \/ StartObservation(p) \/ StartRaw(p) \/ StopRaw(p)
  BY <1>2 DEF StartCapture, StartObservation, StartRaw, StopRaw,
              Speaks, OthersAs, Rows, ActorRows, ProcRow, ProcFields
<1>3. CASE ReserveLocally(p)
  <2> DEFINE q == [OnCapture(p, "begun", NewCapture) EXCEPT !.attempt = procs[p].attempt]
  <2>1. q.view.state = "none" /\ q.grant = Null
    BY DEF OnCapture, Idle, NoView
  <2>2. procs' = [procs EXCEPT ![p] = q]
    BY <1>3 DEF ReserveLocally
  <2> HIDE DEF q
  <2> QED BY <2>1, <2>2 DEF Speaks, OthersAs, Rows, ActorRows
<1>4. ASSUME NEW q, procs' = [procs EXCEPT ![p] = q], q.view.state = "none", q.grant = Null
      PROVE  Speaks(p)
  BY <1>4 DEF Speaks, OthersAs, Rows, ActorRows
<1>5. ASSUME NEW changed \in BOOLEAN, Claim(p, changed)
      PROVE  Speaks(p)
  <2> DEFINE q == [Idle EXCEPT !.at = "owner", !.epoch = scopes'[Source].epoch,
                               !.checkpoint = scopes[Source].checkpoint, !.changed = changed]
  <2>1. procs' = [procs EXCEPT ![p] = q]
    BY <1>5 DEF Claim
  <2>2. q.view.state = "none" /\ q.grant = Null
    BY DEF Idle, NoView
  <2> HIDE DEF q
  <2> QED BY <1>4, <2>1, <2>2
<1>6. CASE ClaimSource(p)
  <2> DEFINE q == [Idle EXCEPT !.at = "owner", !.epoch = scopes'[Source].epoch, !.walked = TRUE,
                               !.checkpoint = scopes[Source].checkpoint, !.changed = procs[p].changed]
  <2>1. procs' = [procs EXCEPT ![p] = q]
    BY <1>6 DEF ClaimSource
  <2>2. q.view.state = "none" /\ q.grant = Null
    BY DEF Idle, NoView
  <2> HIDE DEF q
  <2> QED BY <1>4, <2>1, <2>2
<1>7. CASE ReserveObservation(p) \/ Freeze(p) \/ FreezeObservation(p) \/ SettleActivated(p)
           \/ SettleRejected(p) \/ ProveObservation(p) \/ EndRaw(p)
  BY <1>7, MoveSpeaks
     DEF ReserveObservation, Freeze, FreezeObservation, SettleActivated, SettleRejected, ProveObservation, EndRaw
<1>8. CASE CheckOpen(p) \/ AskRejection(p) \/ AskRenewal(p) \/ Advance(p) \/ AskReceipt(p) \/ SendRaw(p)
  BY <1>8, MoveSpeaks DEF CheckOpen, AskRejection, AskRenewal, Advance, AskReceipt, SendRaw
<1>9. CASE Acknowledge(p) \/ AcknowledgeRaw(p) \/ CancelRaw(p) \/ Prepare(p) \/ Tidy(p)
  BY <1>9, MoveSpeaks DEF Acknowledge, AcknowledgeRaw, CancelRaw, Prepare, Tidy
<1>10. CASE GiveUp(p) \/ Fail(p)
  <2>1. procs' = [procs EXCEPT ![p] = Idle]
    BY <1>10 DEF GiveUp, Fail, Stop
  <2>2. Idle.view.state = "none" /\ Idle.grant = Null
    BY DEF Idle, NoView
  <2> QED BY <2>1, <2>2 DEF Speaks, OthersAs, Rows, ActorRows
<1> QED BY <1>1, <1>2, <1>3, <1>5, <1>6, <1>7, <1>8, <1>9, <1>10 DEF Step

\* The owner is still the owner, or was taken over.
Reigns == scopes'[Source].epoch = scopes[Source].epoch

LEMMA SpokenAnswers ==
  ASSUME NEW p \in Processes, Speaks(p), Reigns
  PROVE  Answers(p)
BY DEF Speaks, Reigns, Answers, OthersAs, Owner, Journal!OwnerScope

\* Journal transactions that settle no Raw unit.
LEMMA QuietDelivers ==
  ASSUME Rows, Raw, NEW p \in Processes, intents' = intents, Quiet
  PROVE  Delivers(p) /\ Reigns
<1>1. AllKept /\ ScopeKept /\ UnitsKept
  BY QuietEffect DEF Rows
<1> QED BY <1>1 DEF AllKept, Kept, ScopeKept, UnitsKept, Delivers, Exists, Cancels, Raw, Reigns

LEMMA OneDelivers ==
  ASSUME Raw, NEW p \in Processes, intents' = intents, units' = units, NEW c \in Captures,
         OthersKept(c), captures[c].state # "none", captures'[c].state # "none",
         captures'[c].canceled = captures[c].canceled
  PROVE  Delivers(p)
BY DEF OthersKept, Kept, Delivers, Exists, Cancels, Raw, RawKept

LEMMA SealDelivers ==
  ASSUME Rows, Protocol, Raw, NEW p \in Processes, Freeze(p) \/ FreezeObservation(p)
  PROVE  Delivers(p) /\ Reigns
<1>0. PICK c, e : c = procs[p].cap /\ e = procs[p].epoch
  OBVIOUS
<1>1. /\ intents' = intents
      /\ \E next, complete :
           /\ Journal!Seal(c, e, next, complete)
           /\ \/ procs[p].at = "freeze" /\ next = captures[c].begin
              \/ procs[p].at = "observing" /\ next = captures[c].expected
  BY <1>0 DEF Freeze, FreezeObservation, At
<1>2. PICK next, complete :
           /\ Journal!Seal(c, e, next, complete)
           /\ \/ procs[p].at = "freeze" /\ next = captures[c].begin
              \/ procs[p].at = "observing" /\ next = captures[c].expected
  BY <1>1
<1>3. c \in Captures /\ next # Null /\ (captures[c].purpose = "publication" => next = captures[c].begin)
  BY <1>0, <1>2, PlaceOf, NullLemma DEF Capturing, Publication, Exists
<1>4. /\ OthersKept(c) /\ ScopeKept /\ units' = units
      /\ captures[c].state = "preparing" /\ captures'[c].state = "sealed"
      /\ captures'[c].canceled = captures[c].canceled
  BY <1>2, <1>3, SealEffect DEF Rows
<1> QED BY <1>1, <1>3, <1>4, OneDelivers DEF ScopeKept, Reigns

LEMMA ResolveDelivers ==
  ASSUME Rows, Protocol, Raw, NEW p \in Processes,
         SettleActivated(p) \/ SettleRejected(p) \/ ProveObservation(p) \/ \E c \in Captures : Discard(p, c)
  PROVE  Delivers(p) /\ Reigns
<1>1. ASSUME NEW c \in Captures, NEW e, NEW x, x # Null, Journal!Activated(c, e, x), intents' = intents
      PROVE  Delivers(p) /\ Reigns
  <2>1. /\ OthersKept(c) /\ units' = units
        /\ captures[c].state = "sealed" /\ captures'[c].state \in {"activated", "completed"}
        /\ captures'[c].canceled = captures[c].canceled /\ Reigns
    BY <1>1, ActivatedEffect DEF Rows, Reigns
  <2> QED BY <1>1, <2>1, OneDelivers
<1>2. ASSUME NEW c \in Captures, NEW e, NEW x, intents' = intents,
             Journal!Rejected(c, e, x) \/ Journal!AbandonUnsealed(c, e)
      PROVE  Delivers(p) /\ Reigns
  <2>1. /\ OthersKept(c) /\ scopes' = scopes /\ units' = units
        /\ captures'[c].state = "abandoned" /\ captures[c].state \in {"sealed", "preparing"}
        /\ captures'[c].canceled = captures[c].canceled
    BY <1>2, AbandonedEffect DEF Rows
  <2> QED BY <1>2, <2>1, OneDelivers DEF Reigns
<1>3. CASE SettleActivated(p)
  <2>1. procs[p].at \in Delivering /\ Journal!Activated(procs[p].cap, procs[p].epoch, procs[p].attempt) /\ intents' = intents
    BY <1>3 DEF SettleActivated, At, Delivering
  <2>2. procs[p].cap \in Captures /\ procs[p].attempt # Null
    BY <2>1, PlaceOf, NullLemma DEF Publication, Exists
  <2> QED BY <1>1, <2>1, <2>2
<1>4. CASE SettleRejected(p)
  <2>1. procs[p].at \in Delivering /\ Journal!Rejected(procs[p].cap, procs[p].epoch, procs[p].attempt) /\ intents' = intents
    BY <1>4 DEF SettleRejected, At, Delivering
  <2>2. procs[p].cap \in Captures
    BY <2>1, PlaceOf DEF Publication, Exists
  <2> QED BY <1>2, <2>1, <2>2
<1>5. CASE ProveObservation(p)
  <2> DEFINE c == procs[p].cap
  <2>1. procs[p].at \in Capturing /\ Journal!Activated(c, procs[p].epoch, captures[c].begin) /\ intents' = intents
    BY <1>5 DEF ProveObservation, At, Capturing
  <2>2. Exists(c)
    BY <2>1, PlaceOf
  <2>3. c \in Captures /\ captures[c].begin # Null
    BY <2>2, NullLemma DEF Exists, Rows, JournalRows, CaptureRow
  <2> HIDE DEF c
  <2> QED BY <1>1, <2>1, <2>3
<1>6. CASE \E c \in Captures : Discard(p, c)
  BY <1>2, <1>6 DEF Discard
<1> QED BY <1>3, <1>4, <1>5, <1>6

LEMMA ReserveDelivers ==
  ASSUME Rows, Protocol, Raw, NEW p \in Processes, ReserveLocally(p) \/ ReserveObservation(p)
  PROVE  Delivers(p) /\ Reigns
<1>0. PICK c, i, g : c = NewCapture /\ i = procs[p].attempt /\ g = procs[p].grant
  OBVIOUS
<1>1. /\ intents' = [intents EXCEPT ![c] = g] /\ Fresh # {}
      /\ \/ /\ Journal!Reserve(Source, procs[p].epoch, c, procs[p].checkpoint, i, "publication",
                               g # Null, Tracked)
            /\ Holds(p)
         \/ /\ Journal!Reserve(Source, procs[p].epoch, c, procs[p].checkpoint, i, "raw-observation",
                               Tracked, Tracked)
            /\ procs[p].view.state = "activated"
  BY <1>0 DEF ReserveLocally, ReserveObservation, At, View, Tracked, Holds
<1>2. c \in Captures
  BY <1>0, <1>1 DEF NewCapture, Fresh
<1>3. i \in Attempts
  BY <1>0, <1>1 DEF Protocol, Actors, Held, Told
<1>4. Checkpoint \in Attempts \cup {Null}
  BY CheckpointKnown DEF Rows, Protocol
<1>5. /\ OthersKept(c) /\ ScopeKept /\ units' = units
      /\ captures[c].state = "none" /\ captures'[c].canceled = Null
  <2>1. CASE Journal!Reserve(Source, procs[p].epoch, c, procs[p].checkpoint, i, "publication",
                             g # Null, Tracked)
    BY <1>2, <1>3, <1>4, <2>1, ReserveEffect DEF Rows, Reserving
  <2>2. CASE Journal!Reserve(Source, procs[p].epoch, c, procs[p].checkpoint, i, "raw-observation",
                             Tracked, Tracked)
    BY <1>2, <1>3, <1>4, <2>2, ReserveEffect DEF Rows, Reserving
  <2> QED BY <1>1, <2>1, <2>2
<1>6. DOMAIN intents' = Captures /\ intents'[c] = g /\ \A d \in Captures \ {c} : intents'[d] = intents[d]
  BY <1>1, <1>2 DEF Raw
<1> QED BY <1>0, <1>2, <1>5, <1>6
        DEF OthersKept, Kept, ScopeKept, Reigns, Delivers, Exists, Cancels, RawKept

\* A receipt is stored for a chunk the archive has, and a unit is canceled only
\* when its owner found its chunk absent.
LEMMA SettleRawDelivers ==
  ASSUME Rows, Protocol, Raw, NEW p \in Processes, AcknowledgeRaw(p) \/ CancelRaw(p)
  PROVE  Delivers(p) /\ Reigns
<1>0. PICK c, e : c = procs[p].cap /\ e = procs[p].epoch
  OBVIOUS
<1>1. Archived(p)
  BY DEF Raw
<1>2. ASSUME Settling(c), captures'[c].canceled = captures[c].canceled, intents' = intents, c \in Captures,
             \A w \in units' : RawKept(w) \/ UnitSettled(p, w)
      PROVE  Delivers(p) /\ Reigns
  BY <1>2 DEF Settling, OthersKept, Kept, Delivers, Exists, Cancels, Raw, Reigns, RawKept
<1>3. CASE AcknowledgeRaw(p)
  <2>1. procs[p].view.state = "stored" /\ intents' = intents /\ \E u, x : Journal!RawAcknowledged(c, e, u, x)
    BY <1>0, <1>3 DEF AcknowledgeRaw, View
  <2>2. Exists(c) /\ c \in archive /\ c \in Captures
    BY <1>0, <1>1, <2>1 DEF Archived, Exists
  <2>3. /\ Settling(c) /\ captures'[c].canceled = captures[c].canceled
        /\ \A w \in units' : RawKept(w) \/ (w.capture = c /\ w.disposition = "acknowledged")
    BY <2>1, <2>2, RawAcknowledgedEffect DEF Rows
  <2> QED BY <1>2, <2>1, <2>2, <2>3 DEF UnitSettled
<1>4. CASE CancelRaw(p)
  <2>1. procs[p].view.state = "absent" /\ intents' = intents /\ \E u : Journal!RawUnitCanceled(c, e, u)
    BY <1>0, <1>4 DEF CancelRaw, View
  <2>2. Exists(c) /\ c \in Captures
    BY <1>0, <1>1, <2>1 DEF Archived, Exists
  <2>3. /\ Settling(c) /\ captures[c].canceled # Null /\ captures'[c].canceled = captures[c].canceled
        /\ Journal!OwnerScope(Source, e)
        /\ \A w \in units' : RawKept(w) \/ (w.capture = c /\ w.disposition = "canceled")
    BY <2>1, <2>2, RawUnitCanceledEffect DEF Rows
  <2>4. captures[c].canceled = "authority" => c \notin archive
    BY <1>0, <1>1, <2>1, <2>3 DEF Archived, Owner
  <2> QED BY <1>2, <2>1, <2>2, <2>3, <2>4 DEF UnitSettled
<1> QED BY <1>3, <1>4

\* Cancellation for "authority" starts only when that authority has ended.
LEMMA StopRawDelivers ==
  ASSUME Rows, Protocol, Raw, NEW p \in Processes, StartRaw(p) \/ StopRaw(p)
  PROVE  Delivers(p) /\ Reigns
<1>0. PICK c, e : c = procs[p].cap /\ e = procs[p].epoch
  OBVIOUS
<1>1. ASSUME NEW reason, Journal!RawCancellationStarted(c, e, reason), intents' = intents,
             Exists(c), procs[p].view.state # "absent",
             reason = "authority" => ~Authorized(c)
      PROVE  Delivers(p) /\ Reigns
  <2>1. c \in Captures
    BY <1>1 DEF Exists
  <2>2. /\ Settling(c) /\ UnitsKept
        /\ captures'[c].canceled =
             IF captures[c].canceled = Null THEN reason ELSE captures[c].canceled
        /\ Journal!OwnerScope(Source, e)
    BY <1>1, <2>1, RawCancellationStartedEffect DEF Rows
  <2>3. Owner(p)
    BY <1>0, <2>2 DEF Owner
  <2>4. Cancels(p, c)
    BY <1>1, <2>2, <2>3 DEF Cancels
  <2> QED BY <1>1, <2>1, <2>2, <2>4
          DEF Settling, OthersKept, Kept, UnitsKept, Delivers, Exists, Cancels, Raw, Reigns
<1>2. Archived(p) /\ procs[p].at \in Capturing /\ Exists(c)
  BY <1>0, PlaceOf DEF StartRaw, StopRaw, At, Capturing, Raw
<1>3. CASE StartRaw(p)
  <2>0. PICK reason : reason = IF captures[c].canceled # Null THEN Null ELSE Revoked(p, c)
    OBVIOUS
  <2>1. /\ IF reason = Null THEN UNCHANGED journalVars ELSE Journal!RawCancellationStarted(c, e, reason)
        /\ intents' = intents /\ procs[p].view.state = "none"
    BY <1>0, <1>3, <2>0 DEF StartRaw, At, Protocol, Actors, Placed
  <2>2. CASE reason = Null
    BY <2>1, <2>2, QuietDelivers DEF Quiet
  <2>3. CASE reason # Null
    <3>1. reason = "authority" => intents[c] # Granted
      BY <2>0, <2>3 DEF Revoked
    <3>2. intents[c] # Granted => ~Authorized(c)
      BY DEF Granted, Authorized
    <3> QED BY <1>1, <1>2, <2>1, <2>3, <3>1, <3>2
  <2> QED BY <2>2, <2>3
<1>4. CASE StopRaw(p)
  <2>1. Journal!RawCancellationStarted(c, e, "authority") /\ intents' = intents /\ procs[p].view.state = "refused"
    BY <1>0, <1>4 DEF StopRaw, View
  <2>2. ~Authorized(c)
    BY <1>0, <1>2, <2>1 DEF Archived
  <2> QED BY <1>1, <1>2, <2>1, <2>2
<1> QED BY <1>3, <1>4

LEMMA StepRaw ==
  ASSUME Rows, Protocol, Raw, NEW p \in Processes, Step(p) \/ Fail(p), ~ClaimSource(p)
  PROVE  Raw'
<1>1. UNCHANGED <<policy, archive>>
  BY DEF Step, Fail, Discard, Recover, RecoverRaw, StartCapture, ReserveLocally, StartObservation,
     ReserveObservation, Prepare, CheckOpen, Freeze, FreezeObservation, SettleActivated, SettleRejected,
     AskRejection, AskRenewal, Advance, Acknowledge, ProveObservation, StartRaw, AskReceipt,
     AcknowledgeRaw, CancelRaw, SendRaw, StopRaw, EndRaw, Tidy, GiveUp, serverVars, rawVars
<1>2. Delivers(p) /\ Reigns
  <2>1. CASE Quiet /\ intents' = intents
    BY <2>1, QuietDelivers
  <2>2. CASE UNCHANGED journalVars /\ intents' = intents
    BY <2>1, <2>2 DEF Quiet
  <2>3. CASE \E c \in Captures : Recover(p, c) \/ RecoverRaw(p, c)
    BY <2>2, <2>3 DEF Recover, RecoverRaw
  <2>4. CASE StartCapture(p) \/ StartObservation(p) \/ CheckOpen(p) \/ AskRejection(p) \/ AskRenewal(p)
             \/ Advance(p) \/ AskReceipt(p) \/ SendRaw(p) \/ EndRaw(p) \/ GiveUp(p) \/ Fail(p)
    BY <2>2, <2>4 DEF StartCapture, StartObservation, CheckOpen, AskRejection, AskRenewal, Advance,
       AskReceipt, SendRaw, EndRaw, GiveUp, Fail
  <2>5. CASE Acknowledge(p)
    BY <2>1, <2>5 DEF Acknowledge, Quiet
  <2>6. CASE Prepare(p) \/ Tidy(p)
    <3>1. procs[p].at \in Capturing
      BY <2>6 DEF Prepare, Tidy, Closed, At, Capturing
    <3>2. procs[p].cap \in Captures
      BY <3>1, PlaceOf DEF Exists
    <3>3. CASE Prepare(p)
      BY <2>1, <3>2, <3>3 DEF Prepare, PrepareRawRecord, PrepareCanonical, PrepareRawUnit, BindTo, Quiet,
                              Journal!UnitKinds
    <3>4. CASE Tidy(p)
      BY <2>1, <3>2, <3>4 DEF Tidy, Quiet
    <3> QED BY <2>6, <3>3, <3>4
  <2> QED BY <2>3, <2>4, <2>5, <2>6, SealDelivers, ResolveDelivers, ReserveDelivers,
             SettleRawDelivers, StopRawDelivers DEF Step
<1>3. Answers(p)
  BY <1>2, StepSpeaks, SpokenAnswers
<1> QED BY <1>1, <1>2, <1>3, RawClient

LEMMA ClaimRaw ==
  ASSUME Rows, Protocol, Raw, NEW p \in Processes,
         (\E changed \in BOOLEAN : Claim(p, changed)) \/ ClaimSource(p)
  PROVE  Raw'
<1>1. Journal!Claim(Source) /\ UNCHANGED <<policy, archive, intents>>
  BY DEF Claim, ClaimSource, serverVars, rawVars
<1>2. AllKept /\ UnitsKept /\ scopes'[Source].epoch = scopes[Source].epoch + 1
  BY <1>1, ClaimEffect DEF Rows
<1>3. Delivers(p)
  BY <1>1, <1>2 DEF AllKept, Kept, UnitsKept, Delivers, Exists, Cancels, Raw
<1>4. Speaks(p)
  BY StepSpeaks DEF Step
<1>5. \A q \in Processes : procs[q].epoch # scopes'[Source].epoch
  BY <1>2 DEF Protocol, Actors, Claims, Rows, JournalRows, ActorRows, ProcRow
<1>6. Answers(p)
  BY <1>4, <1>5 DEF Speaks, Answers, OthersAs, Owner, Journal!OwnerScope
<1> QED BY <1>1, <1>3, <1>6, RawClient

\* An answer about Raw content is about the capture its process delivers.
LEMMA RawReplied ==
  ASSUME Rows, Protocol, Raw, NEW r \in net, UNCHANGED <<scopes, captures, units, intents, policy>>,
         archive' = archive \/ \E c : Exists(c) /\ Authorized(c) /\ archive' = archive \cup {c},
         NEW v, Reply(r, v),
         v.state \in {"stored", "refused", "absent"} =>
           /\ r.op \in RawOps
           /\ v.state = "stored" => r.cap \in archive'
           /\ v.state = "refused" => ~Authorized(r.cap)
           /\ v.state = "absent" => r.cap \notin archive'
  PROVE  Raw'
<1>1. ASSUME NEW q \in Processes
      PROVE  /\ procs'[q].epoch = procs[q].epoch /\ procs'[q].cap = procs[q].cap
             /\ procs'[q].grant = procs[q].grant
             /\ procs'[q].view = IF q = r.from THEN v ELSE procs[q].view
  <2>1. CASE r.from = Null
    BY <2>1, NullLemma DEF Reply
  <2>2. CASE r.from # Null
    BY <2>2 DEF Reply, Rows, ActorRows, ProcRow, ProcFields
  <2> QED BY <2>1, <2>2
<1>2. ASSUME NEW q \in Processes, q = r.from
      PROVE  ArchiveAnswered(q)
  <2>1. Linked(r) /\ Called(r) /\ r.from # Null
    BY <1>2, NullLemma DEF Protocol, Actors
  <2>2. r.op \in RawOps => r.cap = procs'[q].cap /\ Exists(r.cap)
    BY <1>1, <1>2, <2>1 DEF Linked, Called
  <2> QED BY <1>1, <1>2, <2>2 DEF ArchiveAnswered
<1> QED BY <1>1, <1>2, RawServed

LEMMA RawViews ==
  /\ Failure.state = "error"
  /\ \A state : Became(state).state = state
  /\ \A i \in Attempts : ServerRows => Reported(i).state \notin {"stored", "refused", "absent"}
BY DEF Failure, Became, Reported, Known, ServerRows, AttRow, AttStates

LEMMA ServeRaw ==
  ASSUME Rows, Protocol, Raw, NEW r, Serve(r)
  PROVE  Raw'
<1>1. r \in net /\ UNCHANGED <<scopes, captures, units, intents>>
  BY DEF Serve, journalVars
<1>2. CASE ServeAppend(r)
  <2>1. UNCHANGED policy
    BY <1>2 DEF ServeAppend, Unchanged, serverVars, rawVars
  <2>2. Exists(r.cap) /\ r.op \in RawOps
    BY <1>1, <1>2 DEF ServeAppend, Protocol, Actors, Called, RawOps
  <2>3. Appendable(r) <=> Authorized(r.cap)
    BY DEF Appendable, Authorized
  <2>4. CASE Appendable(r) /\ archive' = archive \cup {r.cap} /\ Reply(r, Became("stored"))
    BY <1>1, <2>1, <2>2, <2>3, <2>4, RawViews, RawReplied
  <2>5. CASE ~Appendable(r) /\ Unchanged(r, Became("refused"))
    BY <1>1, <2>1, <2>2, <2>3, <2>5, RawViews, RawReplied DEF Unchanged, serverVars, rawVars
  <2>6. CASE Unchanged(r, Failure)
    BY <1>1, <2>1, <2>6, RawViews, RawReplied DEF Unchanged, serverVars, rawVars
  <2> QED BY <1>2, <2>4, <2>5, <2>6 DEF ServeAppend
<1>3. CASE UNCHANGED rawVars /\ ServeReceipt(r)
  <2> DEFINE v == CASE closed # {} -> Failure
                    [] closed = {} /\ r.cap \in archive -> Became("stored")
                    [] OTHER -> Became("absent")
  <2>1. Reply(r, v) /\ r.op \in RawOps /\ UNCHANGED <<policy, archive>>
    BY <1>3 DEF ServeReceipt, Unchanged, rawVars, RawOps
  <2>2. /\ v.state = "stored" => r.cap \in archive
        /\ v.state = "absent" => r.cap \notin archive
        /\ v.state # "refused"
    BY RawViews
  <2> HIDE DEF v
  <2> QED BY <1>1, <2>1, <2>2, RawReplied
<1>4. CASE UNCHANGED rawVars /\ ServeReserve(r)
  <2>1. CASE Unchanged(r, Failure)
    BY <1>1, <1>4, <2>1, RawViews, RawReplied DEF Unchanged, rawVars
  <2>2. CASE ~Unchanged(r, Failure)
    <3>1. \E i : procs' = IF r.from = Null THEN procs
                          ELSE [procs EXCEPT ![r.from] = [@ EXCEPT !.attempt = i, !.view = Became("reserved")]]
      BY <1>4, <2>2 DEF ServeReserve
    <3>2. ASSUME NEW q \in Processes
          PROVE  /\ procs'[q].epoch = procs[q].epoch /\ procs'[q].cap = procs[q].cap
                 /\ procs'[q].grant = procs[q].grant
                 /\ procs'[q].view \in {procs[q].view, Became("reserved")}
      BY <3>1 DEF Rows, ActorRows, ProcRow, ProcFields
    <3>3. \A q \in Processes : procs'[q].view = procs[q].view \/ ArchiveAnswered(q)
      BY <3>2, RawViews DEF ArchiveAnswered
    <3> QED BY <1>1, <1>4, <3>2, <3>3, RawServed DEF rawVars
  <2> QED BY <2>1, <2>2
<1>5. ASSUME NEW v, Reply(r, v), UNCHANGED rawVars, v.state \notin {"stored", "refused", "absent"}
      PROVE  Raw'
  BY <1>1, <1>5, RawReplied DEF rawVars
<1>6. CASE UNCHANGED rawVars /\ ServeRead(r)
  <2>1. r.attempt \in Attempts
    BY <1>1, <1>6, CallAttempt DEF ServeRead, Protocol, Sending
  <2> QED BY <1>5, <1>6, <2>1, RawViews DEF ServeRead, Unchanged, Rows
<1>7. CASE UNCHANGED rawVars /\ (ServeBegin(r) \/ ServePut(r) \/ ServeSeal(r) \/ ServeValidate(r)
                                 \/ ServeActivate(r) \/ ServeReject(r))
  <2>1. r.attempt \in Attempts
    BY <1>1, <1>7, CallAttempt
       DEF ServeBegin, ServePut, ServeSeal, ServeValidate, ServeActivate, ServeReject, Protocol, Sending
  <2>2. \E v \in {Failure, Reported(r.attempt)} \cup
                 {Became(state) : state \in {"open", "sealed", "validated", "activated", "rejected"}} : Reply(r, v)
    BY <1>7 DEF ServeBegin, ServePut, ServeSeal, ServeValidate, ServeActivate, ServeReject, Unchanged
  <2> QED BY <1>5, <1>7, <2>1, <2>2, RawViews DEF Rows
<1> QED BY <1>2, <1>3, <1>4, <1>6, <1>7 DEF Serve

LEMMA NextRaw ==
  ASSUME Rows, Protocol, Raw, [Next]_vars
  PROVE  Raw'
<1>1. CASE \E p \in Processes : (\E changed \in BOOLEAN : Claim(p, changed)) \/ Step(p) \/ Fail(p)
  BY <1>1, ClaimRaw, StepRaw
<1>2. CASE \E r \in net : Serve(r)
  BY <1>2, ServeRaw
<1>3. CASE \E enabled \in BOOLEAN : ChangeRawPolicy(enabled)
  BY <1>3, RawChanged
<1>4. CASE (\E r \in net : LoseCall(r)) \/ (\E i \in Attempts : Expire(i)) \/ DeleteSession \/ UNCHANGED vars
  <2>1. UNCHANGED <<scopes, captures, units, intents, policy, archive, procs>>
    BY <1>4 DEF LoseCall, Expire, DeleteSession, vars, journalVars, serverVars, rawVars
  <2> QED BY <2>1, RawServed
<1> QED BY <1>1, <1>2, <1>3, <1>4 DEF Next

LEMMA InitRaw ==
  ASSUME Init
  PROVE  Raw
<1>1. /\ intents = [c \in Captures |-> Null] /\ policy = [enabled |-> RawAllowed, revision |-> 1]
      /\ units = {} /\ procs = [p \in Processes |-> Idle] /\ captures = [c \in Captures |-> Journal!NoCapture]
  BY DEF Init, Journal!Init
<1>2. Idle.view.state = "none" /\ Idle.grant = Null /\ Journal!NoCapture.state = "none"
  BY DEF Idle, NoView, Journal!NoCapture
<1> QED BY <1>1, <1>2, DeliveryAssumption
        DEF Raw, Archived, Granting, RawIntent, RawTruthfully, Exists, Journal!UnitsOf

-----------------------------------------------------------------------------
(* What is settled                                                         *)

\* The archive's answers that deliverPublicationRaw acts on, and the Raw units it
\* settled by receipt or cancellation, are true of the archive, whatever becomes of
\* the Raw policy meanwhile.
THEOREM DeliveryRaw == Spec => [](Rows /\ Protocol /\ Raw)
<1>1. Init => Rows /\ Protocol /\ Raw
  BY InitKeeps, InitRaw
<1>2. Rows /\ Protocol /\ Raw /\ [Next]_vars => Rows' /\ Protocol' /\ Raw'
  BY NextKeeps, NextRaw
<1> QED BY <1>1, <1>2, PTL DEF Spec

\* What the journal's settle records of a capture is what the Server did: its own attempt
\* was activated over the checkpoint it expected, or never will be, and its Raw
\* units were stored, or canceled when nothing can store them any more.
THEOREM SettledIsTrue == Spec => []SettledTruthfully
<1>1. ASSUME Rows, Protocol, Raw
      PROVE  SettledTruthfully
  <2> SUFFICES ASSUME NEW c \in Captures
               PROVE  LET row == captures[c] IN
                      /\ row.activation # Null =>
                           /\ row.activation = row.begin /\ att[row.begin].state = "activated"
                           /\ row.purpose = "publication" =>
                                att[row.begin].capture = c /\ att[row.begin].base = row.expected
                      /\ row.state = "abandoned" /\ row.purpose = "publication" =>
                           att[row.begin].state # "activated"
                      /\ RawTruthfully(c)
    BY DEF SettledTruthfully
  <2> DEFINE i == captures[c].begin
  <2>1. captures[c].activation # Null \/ captures[c].state = "abandoned" => Exists(c)
    BY <1>1 DEF Exists, Rows, JournalRows, CaptureRow
  <2>2. Exists(c) => Settled(c) /\ i \in Attempts
    BY <1>1 DEF Protocol, Store, Exists, Rows, JournalRows, CaptureRow
  <2>3. Exists(c) /\ captures[c].purpose = "publication" /\ att[i].state = "activated" =>
          /\ att[i].capture = c /\ att[i].base = captures[c].expected
          /\ captures[c].next # Null
    <3> SUFFICES ASSUME Exists(c), captures[c].purpose = "publication", att[i].state = "activated"
                 PROVE  /\ att[i].capture = c /\ att[i].base = captures[c].expected
                        /\ captures[c].next # Null
      OBVIOUS
    <3>1. /\ Publication(att[i].capture, i) /\ captures[att[i].capture].expected = att[i].base
          /\ captures[att[i].capture].next # Null
      BY <1>1, <2>2 DEF Protocol, Store, Bound
    <3>2. att[i].capture = c
      BY <1>1, <3>1 DEF Protocol, Store, Owning, Publication, Exists
    <3> QED BY <3>1, <3>2
  <2> QED BY <1>1, <2>1, <2>2, <2>3 DEF Settled, Raw
<1> QED BY <1>1, DeliveryRaw, PTL
=============================================================================
