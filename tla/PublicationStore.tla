--------------------------- MODULE PublicationStore ---------------------------
(***************************************************************************)
(* The Server's Canonical publication store (PublicationStore of           *)
(* server/internal/adapters/postgres).  A client reserves an identity,     *)
(* begins an attempt under a writer fence, uploads numbered parts, seals   *)
(* their manifest, has the Server validate one bounded unit per call and   *)
(* finally activates the target: one compare-and-set selects it as the     *)
(* head that readers see.                                                  *)
(*                                                                         *)
(* Every operation is one database transaction under the account's         *)
(* advisory lock, so every operation is one action.  A call that is        *)
(* refused (wrong state, lost authority, exhausted capacity, revoked       *)
(* membership) or that crosses a deadline before its last check is rolled  *)
(* back: it leaves the tables alone and is a stuttering step here.  The    *)
(* module describes one account; tables are functions over identities and  *)
(* a row that does not exist has session Null or state "none".             *)
(***************************************************************************)
EXTENDS Naturals, FiniteSets, Sequences, Functions

CONSTANTS
  Sessions,          \* Sessions (source scopes) of the account
  Origins,           \* Origin keys a source may be bound to
  Ids,               \* reservation identities the Server can issue
  Captures,          \* client-chosen capture identities
  Keys,              \* Threads of a Session, one record each
  Fingerprints,      \* content fingerprints of a record version
  Bodies,            \* part bodies a client can upload
  LegacyRecords,     \* records legacy ingestion can write
  Null,              \* SQL NULL
  PartLimit,         \* limits.Parts
  PartBytes,         \* limits.PartBytes
  TargetBytes,       \* limits.TargetBytes
  UserPendingBytes,  \* limits.UserPendingBytes
  ReservationLimit,  \* limits.Reservations
  Lifetime,          \* limits.ReservationLifetime
  LeaseLifetime,     \* limits.LeaseLifetime
  ReclaimLimit,      \* largest batch of one Reclaim call
  MaxRevision,       \* largest safe revision (2^53 - 1 in the code)
  MaxTime            \* bound of the clock, for TLC

\* A record version: one Thread's content at one source revision.
Member == [key: Keys, rev: 1..MaxRevision, fp: Fingerprints]

\* The header every part repeats: member count and Threads to inherit.
Header == [declares: Nat, retain: SUBSET Keys]

ASSUME ConstantsAssumption ==
  /\ Null \notin Sessions \cup Ids \cup Origins \cup Captures \cup Bodies
  /\ Bodies \subseteq [header: Header, members: SUBSET Member, wire: Nat, fixed: Nat]
  /\ \A b \in Bodies : IsFiniteSet(b.members)
  /\ LegacyRecords \subseteq Member
  /\ PartLimit \in Nat \ {0}
  /\ TargetBytes \in Nat /\ UserPendingBytes \in Nat /\ ReservationLimit \in Nat
  /\ Lifetime \in Nat \ {0} /\ LeaseLifetime \in Nat \ {0}
  /\ MaxTime \in Nat /\ MaxRevision \in Nat \ {0}

VARIABLES
  now,           \* clock_timestamp()
  origin,        \* publication source row: its Origin, Null when there is no row
  fence,         \* source.writer_fence
  head,          \* source.current_head
  adopted,       \* source.legacy_adopted
  floor,         \* source.revision_floor
  sessions,      \* canonical_sessions.record_state, "absent" when there is no row
  legacy,        \* records of the legacy Canonical tables
  issued,        \* identities ever issued (UUIDs are never reused)
  reservations,  \* reservation rows
  attempts,      \* attempt rows
  storage,       \* the byte and part counters of the attempt rows
  parts,         \* part rows, with the membership of each validated one
  versions       \* record-version ledger

vars == <<now, origin, fence, head, adopted, floor, sessions, legacy, issued,
          reservations, attempts, storage, parts, versions>>

-----------------------------------------------------------------------------
(* Rows                                                                    *)

LiveStates == {"open", "sealed", "validating", "validated"}
Manifests == UNION {[1..n -> Bodies] : n \in 1..PartLimit}

NoReservation == [session |-> Null, expires |-> 0]
NoAttempt == [state |-> "none", capture |-> Null, base |-> Null, fence |-> 0,
              lease |-> 0, seal |-> <<>>, validated |-> 0]
NoStorage == [count |-> 0, derived |-> 0, bytes |-> 0]

ReservationRow == [session: Sessions \cup {Null}, expires: Nat]
AttemptRow ==
  [state: LiveStates \cup {"none", "activated", "rejected"},
   capture: Captures \cup {Null}, base: Ids \cup {Null}, fence: Nat,
   lease: Nat, seal: Manifests \cup {<<>>}, validated: Nat]
\* A wire part holds the client's body until it is normalized (`fixed'); a
\* derived part is written by the Server and is normalized from the start.
WirePart(i, n, b) ==
  [attempt |-> i, ordinal |-> n, body |-> b, derived |-> FALSE, fixed |-> FALSE,
   members |-> {}, stored |-> b.wire]
FixedPart(p) ==
  [attempt |-> p.attempt, ordinal |-> p.ordinal, body |-> p.body, derived |-> FALSE,
   fixed |-> TRUE, members |-> p.body.members, stored |-> p.body.fixed]
Version == [session: Sessions, key: Keys, rev: 1..MaxRevision, fp: Fingerprints]

Smaller(a, b) == IF a <= b THEN a ELSE b
Larger(a, b) == IF a <= b THEN b ELSE a

Reserved(i) == reservations[i].session # Null
SessionOf(i) == reservations[i].session
Begun(i) == attempts[i].state # "none"
PartsOf(i) == {p \in parts : p.attempt = i}
WireParts(i) == {p \in PartsOf(i) : ~p.derived}
MembersOf(i) == UNION {p.members : p \in PartsOf(i)}
KeysOf(S) == {m.key : m \in S}
StoredBytes(P) == SumFunction([p \in P |-> p.stored])

-----------------------------------------------------------------------------
(* Authority                                                               *)

\* Mutant: a retained reservation outlives the Session's deletion.
AccessAfterDeletion(i) == Reserved(i)

\* reservation + sourceAccess: the row exists and its Session is not deleted.
Access(i) == Reserved(i) /\ sessions[SessionOf(i)] # "deleted"

\* Mutant: the fence is compared the wrong way round.
SupersededByOlder(i) == attempts[i].fence > fence[SessionOf(i)]

\* Mutant: a later writer's fence is not compared.
SupersededByHead(i) == attempts[i].base # head[SessionOf(i)]

Superseded(i) ==
  \/ attempts[i].fence # fence[SessionOf(i)]
  \/ attempts[i].base # head[SessionOf(i)]
Expired(i) == attempts[i].lease <= now \/ reservations[i].expires <= now

\* GetPublicationAttempt: the state a caller is told, not the stored one.
EffectiveState(i) ==
  IF attempts[i].state \notin LiveStates THEN attempts[i].state
  ELSE IF Superseded(i) THEN "superseded"
  ELSE IF Expired(i) THEN "expired"
  ELSE attempts[i].state

\* liveAttempt
Live(i) == EffectiveState(i) \in LiveStates

-----------------------------------------------------------------------------
(* Quota                                                                   *)

LiveReservations == {i \in Ids : Reserved(i) /\ reservations[i].expires > now}
PendingIds == {i \in Ids : Begun(i) /\ attempts[i].state # "activated"}
PublicationUsage == SumFunction([i \in PendingIds |-> storage[i].bytes])
FitsQuota(i, bytes) ==
  /\ storage[i].bytes + bytes <= TargetBytes
  /\ PublicationUsage + bytes <= UserPendingBytes

-----------------------------------------------------------------------------
(* Reads                                                                   *)

\* The visible_canonical_* views: the selected head's fixed parts, or the
\* legacy tables while no head is selected.
Visible(s) ==
  IF head[s] = Null THEN legacy[s]
  ELSE UNION {p.members : p \in {q \in PartsOf(head[s]) : q.fixed}}

-----------------------------------------------------------------------------
Init ==
  /\ now = 0
  /\ origin = [s \in Sessions |-> Null]
  /\ fence = [s \in Sessions |-> 0]
  /\ head = [s \in Sessions |-> Null]
  /\ adopted = [s \in Sessions |-> FALSE]
  /\ floor = [s \in Sessions |-> 0]
  /\ sessions = [s \in Sessions |-> "absent"]
  /\ legacy = [s \in Sessions |-> {}]
  /\ issued = {}
  /\ reservations = [i \in Ids |-> NoReservation]
  /\ attempts = [i \in Ids |-> NoAttempt]
  /\ storage = [i \in Ids |-> NoStorage]
  /\ parts = {}
  /\ versions = {}

Tick ==
  /\ now < MaxTime
  /\ now' = now + 1
  /\ UNCHANGED <<origin, fence, head, adopted, floor, sessions, legacy, issued,
                 reservations, attempts, storage, parts, versions>>

-----------------------------------------------------------------------------
(* Reservation and adoption                                                *)

\* The tail of reserveSource: quota, then a fresh server-issued identity.
IssueReservation(s, i) ==
  /\ Cardinality(LiveReservations) < ReservationLimit
  /\ i \notin issued
  /\ issued' = issued \cup {i}
  /\ reservations' = [reservations EXCEPT ![i] = [session |-> s, expires |-> now + Lifetime]]

\* A source row is bound once to its Origin; an ordinary reservation never
\* turns a legacy Session into a publication source.
Reserve(s, o, i) ==
  /\ sessions[s] # "deleted"
  /\ \/ origin[s] = o
     \/ origin[s] = Null /\ sessions[s] = "absent"
  /\ origin' = [origin EXCEPT ![s] = o]
  /\ IssueReservation(s, i)
  /\ UNCHANGED <<now, fence, head, adopted, floor, sessions, legacy, attempts,
                 storage, parts, versions>>

\* LegacyRevisionFloor: f is the greatest revision legacy ingestion stored.
LegacyFloor(s, f) ==
  /\ \A m \in legacy[s] : m.rev <= f
  /\ f = 0 \/ \E m \in legacy[s] : m.rev = f

\* Explicit adoption of the account's own legacy Session; a repeated call
\* returns the stored floor.
AdoptLegacy(s, o, i) ==
  /\ sessions[s] = "active"
  /\ \/ /\ origin[s] = o /\ adopted[s]
        /\ UNCHANGED <<origin, adopted, floor>>
     \/ /\ origin[s] = Null
        /\ origin' = [origin EXCEPT ![s] = o]
        /\ adopted' = [adopted EXCEPT ![s] = TRUE]
        /\ \E f \in 0..(MaxRevision - 1) :
             LegacyFloor(s, f) /\ floor' = [floor EXCEPT ![s] = f]
  /\ IssueReservation(s, i)
  /\ UNCHANGED <<now, fence, head, sessions, legacy, attempts, storage, parts, versions>>

-----------------------------------------------------------------------------
(* Candidate preparation                                                   *)

\* A repeated identical Begin returns the existing row and changes nothing.
Begin(i, c, b) ==
  LET s == SessionOf(i) IN
  /\ Access(i)
  /\ ~Begun(i)
  /\ reservations[i].expires > now
  /\ b = head[s]
  /\ fence' = [fence EXCEPT ![s] = @ + 1]
  /\ attempts' = [attempts EXCEPT ![i] =
       [NoAttempt EXCEPT !.state = "open", !.capture = c, !.base = b,
                         !.fence = fence[s] + 1,
                         !.lease = Smaller(reservations[i].expires, now + LeaseLifetime)]]
  /\ UNCHANGED <<now, origin, head, adopted, floor, sessions, legacy, issued,
                 reservations, storage, parts, versions>>

\* A stored ordinal is only ever replayed (same bytes) or refused.
Put(i, n, b) ==
  /\ Access(i) /\ Live(i)
  /\ attempts[i].state = "open"
  /\ \A p \in PartsOf(i) : p.ordinal # n
  /\ b.wire <= PartBytes
  /\ storage[i].count < PartLimit
  /\ FitsQuota(i, b.wire)
  /\ parts' = parts \cup {WirePart(i, n, b)}
  /\ storage' = [storage EXCEPT ![i].count = @ + 1, ![i].bytes = @ + b.wire]
  /\ UNCHANGED <<now, origin, fence, head, adopted, floor, sessions, legacy, issued,
                 reservations, attempts, versions>>

\* The manifest names the complete contiguous part set, ordinal by ordinal.
ManifestMatches(i, m) ==
  {<<p.ordinal, p.body>> : p \in WireParts(i)} = {<<k - 1, m[k]>> : k \in DOMAIN m}

Seal(i, m) ==
  /\ Access(i) /\ Live(i)
  /\ attempts[i].seal = <<>>
  /\ storage[i].count = Len(m)
  /\ ManifestMatches(i, m)
  /\ attempts' = [attempts EXCEPT ![i] = [@ EXCEPT !.state = "sealed", !.seal = m]]
  /\ UNCHANGED <<now, origin, fence, head, adopted, floor, sessions, legacy, issued,
                 reservations, storage, parts, versions>>

-----------------------------------------------------------------------------
(* Validation                                                              *)

\* Mutant: a known version is accepted without comparing its content.
RecordableByKey(i, S) == KeysOf(S) \cap KeysOf(MembersOf(i)) = {}

\* recordPublicationMember: no duplicate membership in the target, and a
\* source version keeps the content it was first bound to.
Recordable(i, S) ==
  /\ KeysOf(S) \cap KeysOf(MembersOf(i)) = {}
  /\ \A m, n \in S : m.key = n.key => m = n
  /\ \A m \in S : \A v \in versions :
       (v.session = SessionOf(i) /\ v.key = m.key /\ v.rev = m.rev) => v.fp = m.fp

Bind(i, S) ==
  versions' = versions \cup
    {[session |-> SessionOf(i), key |-> m.key, rev |-> m.rev, fp |-> m.fp] : m \in S}

\* Declared counts bound the target and are met exactly by its last part.
CountsAgree(i, b, last) ==
  LET total == Cardinality(MembersOf(i)) + Cardinality(b.members) IN
  /\ total <= b.header.declares
  /\ last => total = b.header.declares

\* Mutant: the floor itself is accepted.
AtOrAboveFloor(s, b) == adopted[s] => \A m \in b.members : m.rev >= floor[s]

\* preparePublicationPart on an adopted source
AboveFloor(s, b) == adopted[s] => \A m \in b.members : m.rev > floor[s]

\* Validate while wire parts remain: the next part is checked, normalized in
\* place and indexed, with the cursor and the byte accounting.
ValidatePart(i, p) ==
  LET a == attempts[i]
      b == p.body
      last == a.validated + 1 = Len(a.seal)
  IN
  /\ Access(i) /\ Live(i)
  /\ a.state \in {"sealed", "validating"}
  /\ a.validated < Len(a.seal)
  /\ p \in PartsOf(i) /\ p.ordinal = a.validated /\ ~p.fixed
  /\ b.header = a.seal[1].header
  /\ KeysOf(b.members) \cap b.header.retain = {}
  /\ AboveFloor(SessionOf(i), b)
  /\ CountsAgree(i, b, last)
  /\ Recordable(i, b.members)
  /\ b.fixed <= PartBytes
  /\ b.fixed > p.stored => FitsQuota(i, b.fixed - p.stored)
  /\ Bind(i, b.members)
  /\ parts' = (parts \ {p}) \cup {FixedPart(p)}
  /\ storage' = [storage EXCEPT ![i].bytes = (@ + b.fixed) - p.stored]
  /\ attempts' = [attempts EXCEPT ![i] =
       [@ EXCEPT !.validated = a.validated + 1,
                 !.state = IF last /\ b.header.retain = {} THEN "validated" ELSE "validating"]]
  /\ UNCHANGED <<now, origin, fence, head, adopted, floor, sessions, legacy, issued,
                 reservations>>

\* Base members of the Threads this target inherits, not copied yet.
Retain(i) == attempts[i].seal[1].header.retain
Baseline(i) == {m \in Visible(SessionOf(i)) : m.key \in Retain(i)}
Remaining(i) == Baseline(i) \ MembersOf(i)

DerivedPart(i, chunk) ==
  [attempt |-> i, ordinal |-> Len(attempts[i].seal) + storage[i].derived, body |-> Null,
   derived |-> TRUE, fixed |-> TRUE, members |-> chunk, stored |-> Cardinality(chunk)]

\* Validate once every wire part is fixed: copy a bounded chunk of inherited
\* members into a derived part.  The call that finds nothing beyond its chunk
\* ends the target; one that stops at its read budget leaves that to the next.
ValidateRetention(i, chunk, done) ==
  LET a == attempts[i] IN
  /\ Access(i) /\ Live(i)
  /\ a.state = "validating"
  /\ a.validated = Len(a.seal)
  /\ Retain(i) \subseteq KeysOf(Visible(SessionOf(i)))
  /\ chunk \subseteq Remaining(i)
  /\ done => chunk = Remaining(i)
  /\ ~done => chunk # {}
  /\ chunk # {} => /\ Len(a.seal) + storage[i].derived < PartLimit
                  /\ Cardinality(chunk) <= PartBytes
                  /\ FitsQuota(i, Cardinality(chunk))
                  /\ Recordable(i, chunk)
  /\ Bind(i, chunk)
  /\ IF chunk = {} THEN UNCHANGED <<parts, storage>>
     ELSE /\ parts' = parts \cup {DerivedPart(i, chunk)}
          /\ storage' = [storage EXCEPT ![i].derived = @ + 1, ![i].bytes = @ + Cardinality(chunk)]
  /\ attempts' = [attempts EXCEPT ![i].state = IF done THEN "validated" ELSE "validating"]
  /\ UNCHANGED <<now, origin, fence, head, adopted, floor, sessions, legacy, issued,
                 reservations>>

-----------------------------------------------------------------------------
(* Lease, rejection and activation                                         *)

\* Mutant: an expired lease is renewed.
RenewExpired(i) ==
  /\ Access(i) /\ attempts[i].state \in LiveStates
  /\ attempts' = [attempts EXCEPT ![i].lease =
       Larger(@, Smaller(reservations[i].expires, now + LeaseLifetime))]
  /\ UNCHANGED <<now, origin, fence, head, adopted, floor, sessions, legacy, issued,
                 reservations, storage, parts, versions>>

Renew(i) ==
  /\ Access(i) /\ Live(i)
  /\ attempts' = [attempts EXCEPT ![i].lease =
       Larger(@, Smaller(reservations[i].expires, now + LeaseLifetime))]
  /\ UNCHANGED <<now, origin, fence, head, adopted, floor, sessions, legacy, issued,
                 reservations, storage, parts, versions>>

\* A known unactivated attempt is rejected whatever its effective state.
Reject(i) ==
  /\ Access(i) /\ Begun(i)
  /\ attempts[i].state # "activated"
  /\ attempts' = [attempts EXCEPT ![i].state = "rejected"]
  /\ UNCHANGED <<now, origin, fence, head, adopted, floor, sessions, legacy, issued,
                 reservations, storage, parts, versions>>

\* Mutant: a target whose inherited records are not copied yet is selected.
ActivateValidating(i) ==
  /\ Access(i) /\ Live(i)
  /\ attempts[i].state \in {"validating", "validated"}
  /\ attempts[i].validated = Len(attempts[i].seal)
  /\ attempts' = [attempts EXCEPT ![i].state = "activated"]
  /\ head' = [head EXCEPT ![SessionOf(i)] = i]
  /\ sessions' = [sessions EXCEPT ![SessionOf(i)] = "active"]
  /\ UNCHANGED <<now, origin, fence, adopted, floor, legacy, issued, reservations,
                 storage, parts, versions>>

\* One transaction: the Session row, the receipt (the attempt row's immutable
\* columns in state "activated") and the compare-and-set of the head.
Activate(i) ==
  LET a == attempts[i]
      s == SessionOf(i)
  IN
  /\ Access(i) /\ Live(i)
  /\ a.state = "validated" /\ a.seal # <<>> /\ a.validated = Len(a.seal)
  /\ a.validated = storage[i].count
  /\ attempts' = [attempts EXCEPT ![i].state = "activated"]
  /\ head' = [head EXCEPT ![s] = i]
  /\ sessions' = [sessions EXCEPT ![s] = "active"]
  /\ UNCHANGED <<now, origin, fence, adopted, floor, legacy, issued, reservations,
                 storage, parts, versions>>

-----------------------------------------------------------------------------
(* Cleanup                                                                 *)

\* Mutant: the selected head is not told apart from replaced ones.
ReclaimableActivated ==
  {p \in parts :
     \/ attempts[p.attempt].state = "activated"
     \/ EffectiveState(p.attempt) \in {"rejected", "superseded", "expired"}}

Reclaimable ==
  {p \in parts :
     \/ attempts[p.attempt].state = "activated" /\ head[SessionOf(p.attempt)] # p.attempt
     \/ EffectiveState(p.attempt) \in {"rejected", "superseded", "expired"}}

\* Rows of one attempt go in ordinal order, `limit' of them at most.
ReclaimBatch(R, limit) ==
  /\ R \subseteq Reclaimable
  /\ Cardinality(R) = Smaller(limit, Cardinality(Reclaimable))
  /\ \A p \in R : \A q \in Reclaimable :
       (q.attempt = p.attempt /\ q.ordinal < p.ordinal) => q \in R

\* Mutant: a derived part is counted as a wire part.
AfterReclaimOfWire(i, R) ==
  LET gone == {p \in R : p.attempt = i} IN
  [count |-> storage[i].count - Cardinality(gone),
   derived |-> storage[i].derived,
   bytes |-> storage[i].bytes - StoredBytes(gone)]

AfterReclaim(i, R) ==
  LET gone == {p \in R : p.attempt = i} IN
  [count |-> storage[i].count - Cardinality({p \in gone : ~p.derived}),
   derived |-> storage[i].derived - Cardinality({p \in gone : p.derived}),
   bytes |-> storage[i].bytes - StoredBytes(gone)]

\* Mutant: an activated attempt without bodies is removed with its receipt.
RemovableWhenEmpty(i, R) ==
  /\ Reserved(i) /\ reservations[i].expires <= now
  /\ AfterReclaim(i, R).count = 0 /\ AfterReclaim(i, R).derived = 0

\* Expired reservations without an attempt, or with an unactivated empty one.
Removable(i, R) ==
  /\ Reserved(i) /\ reservations[i].expires <= now
  /\ Begun(i) => /\ attempts[i].state # "activated"
                 /\ AfterReclaim(i, R).count = 0 /\ AfterReclaim(i, R).derived = 0

Reclaim(R, D, limit) ==
  /\ ReclaimBatch(R, limit)
  /\ D \subseteq {i \in Ids : Removable(i, R)}
  /\ Cardinality(D) = Smaller(limit, Cardinality({i \in Ids : Removable(i, R)}))
  /\ parts' = {p \in parts \ R : p.attempt \notin D}
  /\ storage' = [i \in Ids |-> IF i \in D THEN NoStorage ELSE AfterReclaim(i, R)]
  /\ reservations' = [i \in Ids |-> IF i \in D THEN NoReservation ELSE reservations[i]]
  /\ attempts' = [i \in Ids |-> IF i \in D THEN NoAttempt ELSE attempts[i]]
  /\ UNCHANGED <<now, origin, fence, head, adopted, floor, sessions, legacy, issued, versions>>

-----------------------------------------------------------------------------
(* The rest of the Server                                                  *)

\* A captured Session becomes a tombstone; publication rows stay.
DeleteSession(s) ==
  /\ sessions[s] = "active"
  /\ sessions' = [sessions EXCEPT ![s] = "deleted"]
  /\ UNCHANGED <<now, origin, fence, head, adopted, floor, legacy, issued,
                 reservations, attempts, storage, parts, versions>>

\* Legacy ingestion of one record: refused once the source has a row here.
LegacyApply(s, m) ==
  /\ origin[s] = Null
  /\ sessions[s] # "deleted"
  /\ \A old \in legacy[s] : old.key = m.key => old.rev < m.rev
  /\ legacy' = [legacy EXCEPT ![s] = {old \in @ : old.key # m.key} \cup {m}]
  /\ sessions' = [sessions EXCEPT ![s] = "active"]
  /\ UNCHANGED <<now, origin, fence, head, adopted, floor, issued, reservations,
                 attempts, storage, parts, versions>>

Next ==
  \/ Tick
  \/ \E s \in Sessions, o \in Origins, i \in Ids :
       Reserve(s, o, i) \/ AdoptLegacy(s, o, i)
  \/ \E i \in Ids, c \in Captures, b \in Ids \cup {Null} : Begin(i, c, b)
  \/ \E i \in Ids, n \in 0..(PartLimit - 1), b \in Bodies : Put(i, n, b)
  \/ \E i \in Ids, m \in Manifests : Seal(i, m)
  \/ \E i \in Ids : \E p \in PartsOf(i) : ValidatePart(i, p)
  \/ \E i \in Ids, done \in BOOLEAN :
       /\ attempts[i].seal # <<>>
       /\ \E chunk \in SUBSET Remaining(i) : ValidateRetention(i, chunk, done)
  \/ \E i \in Ids : Renew(i) \/ Reject(i) \/ Activate(i)
  \/ \E R \in SUBSET Reclaimable, D \in SUBSET Ids, limit \in 1..ReclaimLimit : Reclaim(R, D, limit)
  \/ \E s \in Sessions : DeleteSession(s)
  \/ \E s \in Sessions, m \in LegacyRecords : LegacyApply(s, m)

Spec == Init /\ [][Next]_vars

-----------------------------------------------------------------------------
(* Properties                                                              *)

PartOK(p) ==
  /\ p.attempt \in Ids
  /\ p.members \subseteq Member
  /\ IF p.derived THEN p.body = Null /\ p.fixed ELSE p.body \in Bodies

\* Every table holds rows of its type.  The counters of `storage' have no
\* conjunct here: Accounting says exactly what they are.
TypeOK ==
  /\ now \in Nat
  /\ origin \in [Sessions -> Origins \cup {Null}]
  /\ fence \in [Sessions -> Nat]
  /\ head \in [Sessions -> Ids \cup {Null}]
  /\ adopted \in [Sessions -> BOOLEAN]
  /\ floor \in [Sessions -> Nat]
  /\ sessions \in [Sessions -> {"absent", "active", "deleted"}]
  /\ legacy \in [Sessions -> SUBSET Member]
  /\ issued \subseteq Ids
  /\ reservations \in [Ids -> ReservationRow]
  /\ attempts \in [Ids -> AttemptRow]
  /\ \A p \in parts : PartOK(p)
  /\ versions \subseteq Version

Activated(s) == {i \in Ids : SessionOf(i) = s /\ attempts[i].state = "activated"}

\* The activated targets of a Session form one chain: each replaced the head
\* it names as its base, no two replaced the same one, and the selected head
\* is the last.  Fence and base are compared when Begin, Renew and Activate
\* run at different times and other writers run in between.
LinearHistory ==
  \A s \in Sessions :
    /\ head[s] = Null <=> Activated(s) = {}
    /\ head[s] # Null => head[s] \in Activated(s)
    /\ \A i \in Activated(s) :
         /\ attempts[i].fence <= attempts[head[s]].fence
         /\ attempts[i].base # Null =>
              /\ attempts[i].base \in Activated(s)
              /\ attempts[attempts[i].base].fence < attempts[i].fence
         /\ \A j \in Activated(s) : i # j =>
              /\ attempts[i].base # attempts[j].base
              /\ attempts[i].fence # attempts[j].fence

Explicit(i) == UNION {attempts[i].seal[k].members : k \in DOMAIN attempts[i].seal}

\* Whatever Reclaim removed, the selected head is complete: its wire parts are
\* the sealed manifest, every part is normalized, and its records are the ones
\* it declared and one for each Thread it inherits.
HeadComplete ==
  \A s \in Sessions : head[s] # Null =>
    LET h == head[s] IN
    /\ ManifestMatches(h, attempts[h].seal)
    /\ \A p \in PartsOf(h) : p.fixed
    /\ KeysOf(MembersOf(h)) = KeysOf(Explicit(h)) \cup Retain(h)
    /\ Cardinality(Explicit(h)) = attempts[h].seal[1].header.declares

\* A source version keeps one content for ever: the ledger survives every
\* cleanup, and every member an attempt indexed is bound in it.
VersionAgreement ==
  /\ \A v, w \in versions :
       (v.session = w.session /\ v.key = w.key /\ v.rev = w.rev) => v.fp = w.fp
  /\ \A p \in parts : \A m \in p.members :
       [session |-> SessionOf(p.attempt), key |-> m.key, rev |-> m.rev, fp |-> m.fp] \in versions

\* The counters of an attempt row (part_count, derived_parts, retained_bytes)
\* are those of the rows really stored, through normalization, inheritance and
\* any number of partial reclaims; so the quotas computed from them bound what
\* an account really holds, its dead attempts included.
Accounting ==
  /\ \A i \in Ids :
       storage[i] = [count |-> Cardinality(WireParts(i)),
                     derived |-> Cardinality(PartsOf(i) \ WireParts(i)),
                     bytes |-> StoredBytes(PartsOf(i))]
  /\ StoredBytes({p \in parts : attempts[p.attempt].state # "activated"}) <= UserPendingBytes
  /\ \A i \in Ids : StoredBytes(PartsOf(i)) <= TargetBytes
  /\ Cardinality(LiveReservations) <= ReservationLimit

\* A begun attempt that lost its write authority (superseded, expired,
\* rejected, activated, removed) never regains it: clients settle on that.
DeadStaysDead == [][\A i \in Ids : (Begun(i) /\ ~Live(i)) => ~Live(i)']_vars

\* The receipt of an activation is permanent: no later call, expiry or cleanup
\* changes the row or the reservation it hangs on.
ReceiptStable ==
  [][\A i \in Ids : attempts[i].state = "activated" =>
       attempts'[i] = attempts[i] /\ reservations'[i] = reservations[i]]_vars

\* A deleted Session stays deleted and nothing is published to it, whatever
\* reservation or validated target its writers still hold.
TombstoneFinal ==
  [][\A s \in Sessions : sessions[s] = "deleted" =>
       sessions'[s] = "deleted" /\ head'[s] = head[s] /\ Visible(s)' = Visible(s)]_vars

\* While a Session has no selected head (legacy ingestion, then adoption and
\* the first publication), a record a reader saw is never replaced by an older
\* version, nor by different content under the same revision.
NoLegacyRegression ==
  [][\A s \in Sessions : head[s] = Null =>
       \A m \in Visible(s), n \in Visible(s)' :
         m.key = n.key => (n.rev > m.rev \/ n = m)]_vars

\* What a sealed manifest publishes.
Content(m) == [target |-> UNION {m[k].members : k \in DOMAIN m}, retain |-> m[1].header.retain]
Contents == {Content(m) : m \in Manifests}

\* Readers see atomic publications: the refinement mapping keeps the selected
\* head, what its readers see, and a receipt for each activated attempt.
Published == INSTANCE AtomicPublication WITH
  mode <- [s \in Sessions |-> IF origin[s] = Null THEN "legacy" ELSE "publication"],
  closed <- {s \in Sessions : sessions[s] = "deleted"},
  visible <- [s \in Sessions |-> Visible(s)],
  receipts <- [i \in Ids |->
    IF attempts[i].state = "activated"
      THEN [session |-> SessionOf(i), base |-> attempts[i].base,
            content |-> Content(attempts[i].seal)]
      ELSE Null]

ImplementsAtomicPublication == Published!Spec

\* The state a writer can tell apart; validation of one more unit is not one.
WriterState(i) ==
  CASE i \notin issued -> "unissued"
    [] i \in issued /\ ~Reserved(i) -> "removed"
    [] Reserved(i) /\ ~Begun(i) -> "reserved"
    [] Begun(i) -> IF attempts[i].state = "validating" THEN "sealed" ELSE attempts[i].state

\* Writers see the authority protocol: what a client knows of an attempt, which
\* attempts lost their authority, and the selected head.
Writers == INSTANCE AttemptAuthority WITH
  att <- [i \in Ids |->
    [state |-> WriterState(i), session |-> SessionOf(i),
     capture |-> attempts[i].capture, base |-> attempts[i].base,
     filled |-> attempts[i].state = "open" /\ Live(i) /\ WireParts(i) # {}]],
  lost <- {i \in Ids : attempts[i].state \in LiveStates /\ ~Live(i)},
  closed <- {s \in Sessions : sessions[s] = "deleted"}

ImplementsAttemptAuthority == Writers!AuthoritySpec
=============================================================================
