------------------------ MODULE PublicationStoreProofs ------------------------
(***************************************************************************)
(* Theorems about PublicationStore, for every number of Sessions, writers, *)
(* attempts and parts and for every value of the limits: what its rows     *)
(* keep, that the selected head is complete, that readers of a legacy      *)
(* Session never go back, that the store implements AtomicPublication for  *)
(* readers and AttemptAuthority for writers, and that its counters and     *)
(* quotas agree with the rows it holds.                                    *)
(***************************************************************************)
EXTENDS PublicationStore, SumTheorems

-----------------------------------------------------------------------------
(* Typing                                                                  *)

\* The records the actions start from are rows of their tables.
LEMMA RowTypes == NoReservation \in ReservationRow /\ NoAttempt \in AttemptRow
BY DEF NoReservation, ReservationRow, NoAttempt, AttemptRow

\* A body holds record versions.
LEMMA BodyMembers == \A b \in Bodies : b.members \subseteq Member
BY ConstantsAssumption

\* Reservation and lease lifetimes are durations.
LEMMA Lifetimes == Lifetime \in Nat /\ LeaseLifetime \in Nat
BY ConstantsAssumption

\* The empty store is well typed.
LEMMA TypeInit == Init => TypeOK
BY RowTypes DEF Init, TypeOK

\* The order of two naturals, as LEAST and GREATEST use it.
LEMMA LeastGreatest ==
  ASSUME NEW a \in Nat, NEW b \in Nat
  PROVE  Smaller(a, b) \in Nat /\ Larger(a, b) \in Nat
BY DEF Smaller, Larger

\* The field updates of an attempt row that the actions make.
LEMMA AttemptUpdates ==
  ASSUME NEW a \in AttemptRow, NEW st \in LiveStates \cup {"activated", "rejected"}, NEW n \in Nat
  PROVE  /\ [a EXCEPT !.state = st] \in AttemptRow
         /\ \A m \in Manifests : [a EXCEPT !.state = st, !.seal = m] \in AttemptRow
         /\ [a EXCEPT !.validated = n, !.state = st] \in AttemptRow
         /\ [a EXCEPT !.lease = n] \in AttemptRow
BY DEF AttemptRow

\* Every operation of the store, and every stuttering step, keeps its rows typed.
LEMMA TypeNext == TypeOK /\ [Next]_vars => TypeOK'
<1> SUFFICES ASSUME TypeOK, [Next]_vars PROVE TypeOK'
  OBVIOUS
<1>1. CASE Tick
  BY <1>1 DEF Tick, TypeOK, PartOK
<1>2. ASSUME NEW s \in Sessions, NEW o \in Origins, NEW i \in Ids, Reserve(s, o, i)
      PROVE  TypeOK'
  <2>1. [session |-> s, expires |-> now + Lifetime] \in ReservationRow
    BY Lifetimes DEF ReservationRow, TypeOK
  <2> QED BY <1>2, <2>1 DEF Reserve, IssueReservation, TypeOK, PartOK
<1>3. ASSUME NEW s \in Sessions, NEW o \in Origins, NEW i \in Ids, AdoptLegacy(s, o, i)
      PROVE  TypeOK'
  <2>1. [session |-> s, expires |-> now + Lifetime] \in ReservationRow
    BY Lifetimes DEF ReservationRow, TypeOK
  <2>2. CASE UNCHANGED <<origin, adopted, floor>>
    BY <1>3, <2>1, <2>2 DEF AdoptLegacy, IssueReservation, TypeOK, PartOK
  <2>3. ASSUME origin' = [origin EXCEPT ![s] = o], adopted' = [adopted EXCEPT ![s] = TRUE],
               NEW f \in 0..(MaxRevision - 1), floor' = [floor EXCEPT ![s] = f]
        PROVE  TypeOK'
    <3>1. f \in Nat
      BY ConstantsAssumption
    <3>2. adopted' \in [Sessions -> BOOLEAN]
      BY <2>3 DEF TypeOK
    <3> QED BY <1>3, <2>1, <2>3, <3>1, <3>2 DEF AdoptLegacy, IssueReservation, TypeOK, PartOK
  <2> QED BY <1>3, <2>2, <2>3 DEF AdoptLegacy
<1>4. ASSUME NEW i \in Ids, NEW c \in Captures, NEW b \in Ids \cup {Null}, Begin(i, c, b)
      PROVE  TypeOK'
  <2>1. SessionOf(i) \in Sessions /\ fence[SessionOf(i)] + 1 \in Nat
    BY <1>4 DEF Begin, Access, Reserved, SessionOf, TypeOK, ReservationRow
  <2>2. Smaller(reservations[i].expires, now + LeaseLifetime) \in Nat
    <3>1. reservations[i].expires \in Nat /\ now + LeaseLifetime \in Nat
      BY Lifetimes DEF TypeOK, ReservationRow
    <3> QED BY <3>1, LeastGreatest
  <2>3. attempts' \in [Ids -> AttemptRow]
    BY <1>4, <2>1, <2>2, RowTypes DEF Begin, TypeOK, AttemptRow, NoAttempt, LiveStates
  <2>4. fence' \in [Sessions -> Nat]
    BY <1>4, <2>1 DEF Begin, TypeOK
  <2> QED BY <1>4, <2>3, <2>4 DEF Begin, TypeOK, PartOK
<1>5. ASSUME NEW i \in Ids, NEW n \in 0..(PartLimit - 1), NEW b \in Bodies, Put(i, n, b)
      PROVE  TypeOK'
  <2>1. PartOK(WirePart(i, n, b))
    BY DEF PartOK, WirePart
  <2>2. \A p \in parts' : PartOK(p)
    BY <1>5, <2>1 DEF Put, TypeOK
  <2> QED BY <1>5, <2>2 DEF Put, TypeOK
<1>6. ASSUME NEW i \in Ids, NEW m \in Manifests, Seal(i, m)
      PROVE  TypeOK'
  <2>1. attempts' \in [Ids -> AttemptRow]
    <3>1. [attempts[i] EXCEPT !.state = "sealed", !.seal = m] \in AttemptRow
      BY AttemptUpdates, 0 \in Nat DEF TypeOK, LiveStates
    <3> QED BY <1>6, <3>1 DEF Seal, TypeOK
  <2> QED BY <1>6, <2>1 DEF Seal, TypeOK, PartOK
<1>7. ASSUME NEW i \in Ids, NEW p \in PartsOf(i), ValidatePart(i, p)
      PROVE  TypeOK'
  <2>1. p \in parts /\ p.attempt = i /\ p.body \in Bodies
    BY <1>7 DEF PartsOf, ValidatePart, TypeOK, PartOK
  <2>2. PartOK(FixedPart(p))
    BY <2>1, BodyMembers DEF PartOK, FixedPart
  <2>3. \A q \in parts' : PartOK(q)
    BY <1>7, <2>2 DEF ValidatePart, TypeOK
  <2>4. SessionOf(i) \in Sessions
    BY <1>7 DEF ValidatePart, Access, Reserved, SessionOf, TypeOK, ReservationRow
  <2>5. versions' \subseteq Version
    <3>1. p.body.members \subseteq Member
      BY <2>1, BodyMembers
    <3> QED BY <1>7, <2>4, <3>1 DEF ValidatePart, Bind, TypeOK, Version, Member
  <2>6. attempts' \in [Ids -> AttemptRow]
    <3>1. attempts[i].validated + 1 \in Nat
      BY DEF TypeOK, AttemptRow
    <3>2. \A st \in {"validated", "validating"} :
            [attempts[i] EXCEPT !.validated = attempts[i].validated + 1, !.state = st] \in AttemptRow
      BY <3>1, AttemptUpdates DEF TypeOK, LiveStates
    <3> QED BY <1>7, <3>2 DEF ValidatePart, TypeOK
  <2> QED BY <1>7, <2>3, <2>5, <2>6 DEF ValidatePart, TypeOK
<1>8. ASSUME NEW i \in Ids, NEW done \in BOOLEAN, NEW chunk \in SUBSET Remaining(i),
             ValidateRetention(i, chunk, done)
      PROVE  TypeOK'
  <2>1. SessionOf(i) \in Sessions
    BY <1>8 DEF ValidateRetention, Access, Reserved, SessionOf, TypeOK, ReservationRow
  <2>2. Visible(SessionOf(i)) \subseteq Member
    BY <2>1 DEF Visible, PartsOf, TypeOK, PartOK
  <2>3. chunk \subseteq Member
    BY <2>2 DEF Remaining, Baseline
  <2>4. PartOK(DerivedPart(i, chunk))
    BY <2>3 DEF PartOK, DerivedPart
  <2>5. \A q \in parts' : PartOK(q)
    BY <1>8, <2>4 DEF ValidateRetention, TypeOK
  <2>6. versions' \subseteq Version
    BY <1>8, <2>1, <2>3 DEF ValidateRetention, Bind, TypeOK, Version, Member
  <2>7. attempts' \in [Ids -> AttemptRow]
    <3>1. \A st \in {"validated", "validating"} : [attempts[i] EXCEPT !.state = st] \in AttemptRow
      BY AttemptUpdates, 0 \in Nat DEF TypeOK, LiveStates
    <3> QED BY <1>8, <3>1 DEF ValidateRetention, TypeOK
  <2> QED BY <1>8, <2>5, <2>6, <2>7 DEF ValidateRetention, TypeOK
<1>9. ASSUME NEW i \in Ids, Renew(i)
      PROVE  TypeOK'
  <2>1. Larger(attempts[i].lease, Smaller(reservations[i].expires, now + LeaseLifetime)) \in Nat
    <3>1. /\ reservations[i].expires \in Nat /\ now + LeaseLifetime \in Nat
          /\ attempts[i].lease \in Nat
      BY Lifetimes DEF TypeOK, ReservationRow, AttemptRow
    <3> QED BY <3>1, LeastGreatest
  <2>2. attempts' \in [Ids -> AttemptRow]
    <3>1. [attempts[i] EXCEPT !.lease =
              Larger(attempts[i].lease, Smaller(reservations[i].expires, now + LeaseLifetime))]
            \in AttemptRow
      BY <2>1, AttemptUpdates DEF TypeOK
    <3> QED BY <1>9, <3>1 DEF Renew, TypeOK
  <2> QED BY <1>9, <2>2 DEF Renew, TypeOK, PartOK
<1>10. ASSUME NEW i \in Ids, Reject(i)
       PROVE  TypeOK'
  <2>1. attempts' \in [Ids -> AttemptRow]
    <3>1. [attempts[i] EXCEPT !.state = "rejected"] \in AttemptRow
      BY AttemptUpdates, 0 \in Nat DEF TypeOK
    <3> QED BY <1>10, <3>1 DEF Reject, TypeOK
  <2> QED BY <1>10, <2>1 DEF Reject, TypeOK, PartOK
<1>11. ASSUME NEW i \in Ids, Activate(i)
       PROVE  TypeOK'
  <2>1. attempts' \in [Ids -> AttemptRow]
    <3>1. [attempts[i] EXCEPT !.state = "activated"] \in AttemptRow
      BY AttemptUpdates, 0 \in Nat DEF TypeOK
    <3> QED BY <1>11, <3>1 DEF Activate, TypeOK
  <2> QED BY <1>11, <2>1 DEF Activate, TypeOK, PartOK
<1>12. ASSUME NEW R \in SUBSET Reclaimable, NEW D \in SUBSET Ids, NEW limit \in 1..ReclaimLimit,
              Reclaim(R, D, limit)
       PROVE  TypeOK'
  BY <1>12, RowTypes DEF Reclaim, TypeOK, PartOK
<1>13. ASSUME NEW s \in Sessions, DeleteSession(s)
       PROVE  TypeOK'
  BY <1>13 DEF DeleteSession, TypeOK, PartOK
<1>14. ASSUME NEW s \in Sessions, NEW m \in LegacyRecords, LegacyApply(s, m)
       PROVE  TypeOK'
  BY <1>14, ConstantsAssumption DEF LegacyApply, TypeOK, PartOK
<1>15. CASE UNCHANGED vars
  BY <1>15 DEF vars, TypeOK, PartOK
<1> QED
  BY <1>1, <1>2, <1>3, <1>4, <1>5, <1>6, <1>7, <1>8, <1>9, <1>10, <1>11, <1>12, <1>13,
     <1>14, <1>15 DEF Next

\* Every reachable state of the store is well typed, whatever the constants.
THEOREM TypeCorrect == Spec => []TypeOK
BY TypeInit, TypeNext, PTL DEF Spec

-----------------------------------------------------------------------------
(* Linear history                                                          *)
(*                                                                         *)
(* LinearHistory speaks of activated attempts only.  An attempt becomes    *)
(* activated long after Begin chose its fence and its base, so the         *)
(* inductive invariant keeps those facts for every begun attempt: its      *)
(* reservation is issued and still there, its fence is its own and at most *)
(* the source's, and its base is an activated attempt with a smaller fence.*)

RowsKnown ==
  \A i \in Ids : /\ Begun(i) => Reserved(i)
                 /\ Reserved(i) => i \in issued
FencesOwned ==
  \A i \in Ids : Begun(i) =>
    /\ attempts[i].fence <= fence[SessionOf(i)]
    /\ \A j \in Ids : (Begun(j) /\ SessionOf(j) = SessionOf(i) /\ j # i) =>
         attempts[j].fence # attempts[i].fence
BasesActivated ==
  \A i \in Ids : (Begun(i) /\ attempts[i].base # Null) =>
    /\ attempts[i].base \in Activated(SessionOf(i))
    /\ attempts[attempts[i].base].fence < attempts[i].fence
Authority == RowsKnown /\ FencesOwned /\ BasesActivated /\ LinearHistory

\* What every action but Reserve, AdoptLegacy, Begin, Activate and Reclaim
\* leaves alone.
SameAuthority ==
  /\ fence' = fence /\ head' = head /\ issued' = issued /\ reservations' = reservations
  /\ \A i \in Ids : /\ attempts'[i].fence = attempts[i].fence
                    /\ attempts'[i].base = attempts[i].base
                    /\ Begun(i)' = Begun(i)
                    /\ (attempts'[i].state = "activated") = (attempts[i].state = "activated")

\* The empty store satisfies the inductive invariant.
LEMMA AuthorityInit == Init => Authority
BY DEF Init, Authority, RowsKnown, FencesOwned, BasesActivated, LinearHistory, Activated,
       Begun, Reserved, NoAttempt, NoReservation, SessionOf

\* A step that leaves them alone keeps the invariant.
LEMMA AuthorityPreserved == TypeOK /\ Authority /\ SameAuthority => Authority'
<1> SUFFICES ASSUME TypeOK, Authority, SameAuthority PROVE Authority'
  OBVIOUS
<1>1. \A i \in Ids : SessionOf(i)' = SessionOf(i) /\ Reserved(i)' = Reserved(i)
  BY DEF SameAuthority, SessionOf, Reserved
<1>2. \A s \in Sessions : Activated(s)' = Activated(s)
  BY <1>1 DEF Activated, SameAuthority
<1>3. RowsKnown'
  BY <1>1 DEF Authority, RowsKnown, SameAuthority
<1>4. FencesOwned'
  BY <1>1 DEF Authority, FencesOwned, SameAuthority
<1>5. \A i \in Ids : Begun(i) => SessionOf(i) \in Sessions
  BY DEF Authority, RowsKnown, Reserved, SessionOf, TypeOK, ReservationRow
<1>6. BasesActivated'
  BY <1>1, <1>2, <1>5 DEF Authority, BasesActivated, SameAuthority, Activated
<1>7. LinearHistory'
  BY <1>2 DEF Authority, LinearHistory, SameAuthority, Activated
<1> QED BY <1>3, <1>4, <1>6, <1>7 DEF Authority

\* A reservation concerns an identity that was never issued, so no row of it.
LEMMA AuthorityIssue ==
  ASSUME TypeOK, Authority, NEW s \in Sessions, NEW i \in Ids, IssueReservation(s, i),
         fence' = fence, head' = head, attempts' = attempts
  PROVE  Authority'
<1>1. ~Begun(i)
  BY DEF IssueReservation, Authority, RowsKnown
<1>2. \A j \in Ids : j # i => reservations'[j] = reservations[j]
  BY DEF IssueReservation, TypeOK
<1>3. \A j \in Ids : Begun(j)' = Begun(j)
  BY DEF Begun
<1>4. \A j \in Ids : Begun(j) => SessionOf(j)' = SessionOf(j) /\ Reserved(j)' = Reserved(j)
  BY <1>1, <1>2 DEF SessionOf, Reserved
<1>5. RowsKnown'
  BY <1>2, <1>3, <1>4 DEF RowsKnown, Authority, IssueReservation, Reserved
<1>6. FencesOwned'
  BY <1>3, <1>4 DEF FencesOwned, Authority
<1>7. \A t \in Sessions : Activated(t)' = Activated(t)
  BY <1>3, <1>4, <1>1, <1>2 DEF Activated, Begun, SessionOf
<1>8. \A j \in Ids : Begun(j) => SessionOf(j) \in Sessions
  BY DEF Authority, RowsKnown, Reserved, SessionOf, TypeOK, ReservationRow
<1>9. BasesActivated'
  BY <1>3, <1>4, <1>7, <1>8 DEF BasesActivated, Authority
<1>10. LinearHistory'
  BY <1>7 DEF LinearHistory, Authority
<1> QED BY <1>5, <1>6, <1>9, <1>10 DEF Authority

\* Begin writes a row under a fresh fence and the selected head, the only head
\* its compare-and-set admits.
LEMMA AuthorityBegin ==
  ASSUME TypeOK, Authority, NEW i \in Ids, NEW c \in Captures, NEW b \in Ids \cup {Null},
         Begin(i, c, b)
  PROVE  Authority'
<1>1. PICK s \in Sessions : s = SessionOf(i) /\ Reserved(i) /\ ~Begun(i)
  BY DEF Begin, Access, Reserved, SessionOf, TypeOK, ReservationRow
<1>2. /\ reservations' = reservations /\ head' = head /\ issued' = issued
      /\ \A j \in Ids : j # i => attempts'[j] = attempts[j]
      /\ attempts'[i].state = "open" /\ attempts'[i].base = head[s]
      /\ attempts'[i].fence = fence[s] + 1
  BY <1>1 DEF Begin, TypeOK, NoAttempt
<1>3. /\ fence'[s] = fence[s] + 1 /\ fence[s] \in Nat
      /\ \A t \in Sessions : t # s => fence'[t] = fence[t]
  BY <1>1 DEF Begin, TypeOK
<1>4. \A j \in Ids : SessionOf(j)' = SessionOf(j) /\ Reserved(j)' = Reserved(j)
  BY <1>2 DEF SessionOf, Reserved
<1>5. Begun(i)' /\ \A j \in Ids : j # i => Begun(j)' = Begun(j)
  BY <1>2 DEF Begun
<1>6. RowsKnown'
  BY <1>1, <1>2, <1>4, <1>5 DEF RowsKnown, Authority
<1>7. \A j \in Ids : Begun(j) => SessionOf(j) \in Sessions /\ attempts[j].fence \in Nat
  BY DEF Authority, RowsKnown, Reserved, SessionOf, TypeOK, ReservationRow, AttemptRow
<1>8. FencesOwned'
  <2>1. \A j \in Ids : j # i /\ Begun(j) => attempts[j].fence <= fence[SessionOf(j)]
    BY DEF Authority, FencesOwned
  <2>2. \A j \in Ids : j # i /\ Begun(j) /\ SessionOf(j) = s => attempts[j].fence < fence[s] + 1
    BY <1>1, <1>3, <1>7, <2>1
  <2>3. \A j \in Ids : j # i /\ Begun(j) => attempts'[j].fence <= fence'[SessionOf(j)]
    BY <1>1, <1>2, <1>3, <1>7, <2>1
  <2> QED BY <1>1, <1>2, <1>3, <1>4, <1>5, <1>7, <2>2, <2>3 DEF Authority, FencesOwned
<1>9. \A t \in Sessions : Activated(t)' = Activated(t)
  BY <1>1, <1>2, <1>4 DEF Activated, Begun
<1>10. \A t \in Sessions : \A j \in Activated(t) : j # i /\ attempts'[j] = attempts[j]
  BY <1>1, <1>2 DEF Activated, Begun
<1>11. BasesActivated'
  <2>1. head[s] # Null => head[s] \in Activated(s) /\ attempts[head[s]].fence < fence[s] + 1
    BY <1>1, <1>3, <1>7 DEF Authority, LinearHistory, FencesOwned, Activated, Begun
  <2>2. \A j \in Ids : j # i /\ Begun(j) /\ attempts[j].base # Null =>
          /\ attempts[j].base \in Activated(SessionOf(j))
          /\ attempts[attempts[j].base].fence < attempts[j].fence
    BY DEF Authority, BasesActivated
  <2> QED BY <1>1, <1>2, <1>4, <1>5, <1>7, <1>9, <1>10, <2>1, <2>2 DEF BasesActivated
<1>12. LinearHistory'
  <2>1. \A t \in Sessions : head[t] # Null => head[t] \in Activated(t)
    BY DEF Authority, LinearHistory
  <2> QED BY <1>2, <1>9, <1>10, <2>1 DEF LinearHistory, Authority
<1> QED BY <1>6, <1>8, <1>11, <1>12 DEF Authority

\* Live, without its case distinction.
LEMMA LiveMeans ==
  ASSUME TypeOK, NEW i \in Ids
  PROVE  Live(i) <=> attempts[i].state \in LiveStates /\ ~Superseded(i) /\ ~Expired(i)
BY DEF Live, EffectiveState, LiveStates

\* Activate extends the chain of heads: the live attempt holds the highest
\* fence, so its base is still the selected head.
LEMMA AuthorityActivate ==
  ASSUME TypeOK, Authority, NEW i \in Ids, Activate(i)
  PROVE  Authority'
<1>1. PICK s \in Sessions : s = SessionOf(i) /\ Reserved(i)
  BY DEF Activate, Access, Reserved, SessionOf, TypeOK, ReservationRow
<1>2. /\ attempts[i].state = "validated" /\ Begun(i)
      /\ attempts[i].fence = fence[s] /\ attempts[i].base = head[s]
  BY <1>1, LiveMeans DEF Activate, Superseded, Begun
<1>3. /\ reservations' = reservations /\ issued' = issued /\ fence' = fence
      /\ \A j \in Ids : j # i => attempts'[j] = attempts[j]
      /\ attempts'[i].state = "activated"
      /\ \A j \in Ids : attempts'[j].base = attempts[j].base /\ attempts'[j].fence = attempts[j].fence
      /\ head'[s] = i /\ \A t \in Sessions : t # s => head'[t] = head[t]
  BY <1>1 DEF Activate, TypeOK, AttemptRow
<1>4. \A j \in Ids : /\ SessionOf(j)' = SessionOf(j) /\ Reserved(j)' = Reserved(j)
                     /\ Begun(j)' = Begun(j)
  BY <1>2, <1>3 DEF SessionOf, Reserved, Begun
<1>5. /\ i \notin Activated(s) /\ Activated(s)' = Activated(s) \cup {i}
      /\ \A t \in Sessions : t # s => Activated(t)' = Activated(t)
  BY <1>1, <1>2, <1>3, <1>4 DEF Activated
<1>6. \A j \in Ids : Begun(j) => SessionOf(j) \in Sessions /\ attempts[j].fence \in Nat
  BY DEF Authority, RowsKnown, Reserved, SessionOf, TypeOK, ReservationRow, AttemptRow
<1>7. RowsKnown'
  BY <1>3, <1>4 DEF RowsKnown, Authority
<1>8. FencesOwned'
  BY <1>3, <1>4 DEF FencesOwned, Authority
<1>9. BasesActivated'
  <2>1. \A j \in Ids : Begun(j) /\ attempts[j].base # Null =>
          /\ attempts[j].base \in Activated(SessionOf(j))
          /\ attempts[j].base \in Ids
          /\ attempts[attempts[j].base].fence < attempts[j].fence
    BY DEF Authority, BasesActivated, Activated
  <2>2. \A t \in Sessions : Activated(t) \subseteq Activated(t)'
    BY <1>5
  <2> QED BY <1>3, <1>4, <1>6, <2>1, <2>2 DEF BasesActivated
<1>10. LinearHistory'
  <2> SUFFICES ASSUME NEW t \in Sessions
               PROVE  /\ (head[t] = Null <=> Activated(t) = {})'
                      /\ (head[t] # Null => head[t] \in Activated(t))'
                      /\ \A j \in Activated(t)' :
                           /\ attempts'[j].fence <= attempts'[head'[t]].fence
                           /\ attempts'[j].base # Null =>
                                /\ attempts'[j].base \in Activated(t)'
                                /\ attempts'[attempts'[j].base].fence < attempts'[j].fence
                           /\ \A k \in Activated(t)' : j # k =>
                                /\ attempts'[j].base # attempts'[k].base
                                /\ attempts'[j].fence # attempts'[k].fence
    BY DEF LinearHistory
  <2>1. CASE t # s
    BY <2>1, <1>3, <1>5 DEF Authority, LinearHistory, Activated
  <2>2. CASE t = s
    <3>1. \A j \in Activated(s) : /\ j \in Ids /\ j # i /\ Begun(j) /\ SessionOf(j) = s
                                  /\ attempts[j].fence \in Nat
      BY <1>2, <1>5, <1>6 DEF Activated, Begun
    <3>2. \A j \in Activated(s) : attempts[j].fence < attempts[i].fence
      BY <1>1, <1>2, <1>6, <3>1 DEF Authority, FencesOwned
    <3>3. \A j \in Activated(s) : attempts[j].base # attempts[i].base
      <4>1. CASE head[s] = Null
        BY <4>1, <1>1 DEF Authority, LinearHistory
      <4>2. CASE head[s] # Null
        <5>1. \A j \in Activated(s) :
                /\ attempts[j].fence <= attempts[head[s]].fence
                /\ attempts[j].base = head[s] => attempts[head[s]].fence < attempts[j].fence
          BY <4>2, <1>1 DEF Authority, LinearHistory
        <5>2. head[s] \in Activated(s)
          BY <4>2, <1>1 DEF Authority, LinearHistory
        <5> QED BY <5>1, <5>2, <3>1, <1>2
      <4> QED BY <4>1, <4>2
    <3>4. attempts[i].base # Null => attempts[i].base \in Activated(s)
      BY <1>1, <1>2 DEF Authority, BasesActivated
    <3>5. /\ head'[s] = i /\ i \in Activated(s)' /\ i # Null
          /\ \A j \in Activated(s)' : attempts'[j].fence <= attempts'[i].fence
      BY <1>2, <1>3, <1>5, <1>6, <3>1, <3>2, ConstantsAssumption
    <3>6. \A j \in Activated(s) : attempts[j].base # Null =>
            /\ attempts[j].base \in Activated(s)
            /\ attempts[attempts[j].base].fence < attempts[j].fence
      BY <1>1 DEF Authority, LinearHistory
    <3>7. \A j \in Activated(s)' : attempts'[j].base # Null =>
            /\ attempts'[j].base \in Activated(s)'
            /\ attempts'[attempts'[j].base].fence < attempts'[j].fence
      BY <1>3, <1>5, <3>1, <3>2, <3>4, <3>6
    <3>8. \A j, k \in Activated(s) : j # k =>
            attempts[j].base # attempts[k].base /\ attempts[j].fence # attempts[k].fence
      BY <1>1 DEF Authority, LinearHistory
    <3>9. \A j, k \in Activated(s)' : j # k =>
            attempts'[j].base # attempts'[k].base /\ attempts'[j].fence # attempts'[k].fence
      BY <1>3, <1>5, <1>6, <1>2, <3>1, <3>2, <3>3, <3>8
    <3> QED BY <2>2, <3>5, <3>7, <3>9
  <2> QED BY <2>1, <2>2
<1> QED BY <1>7, <1>8, <1>9, <1>10 DEF Authority

\* Reclaim removes whole rows, never activated ones.
LEMMA AuthorityReclaim ==
  ASSUME TypeOK, Authority, NEW R \in SUBSET Reclaimable, NEW D \in SUBSET Ids, NEW limit,
         Reclaim(R, D, limit)
  PROVE  Authority'
<1>1. /\ fence' = fence /\ head' = head /\ issued' = issued
      /\ \A j \in D : attempts'[j] = NoAttempt /\ reservations'[j] = NoReservation
      /\ \A j \in Ids \ D : attempts'[j] = attempts[j] /\ reservations'[j] = reservations[j]
      /\ \A j \in D : attempts[j].state # "activated"
  BY DEF Reclaim, Removable, Begun
<1>2. \A j \in D : ~Begun(j)' /\ ~Reserved(j)'
  BY <1>1 DEF Begun, Reserved, NoAttempt, NoReservation
<1>3. \A j \in Ids \ D : /\ Begun(j)' = Begun(j) /\ Reserved(j)' = Reserved(j)
                         /\ SessionOf(j)' = SessionOf(j)
  BY <1>1 DEF Begun, Reserved, SessionOf
<1>4. RowsKnown'
  BY <1>1, <1>2, <1>3 DEF RowsKnown, Authority
<1>5. FencesOwned'
  BY <1>1, <1>2, <1>3 DEF FencesOwned, Authority
<1>6. \A t \in Sessions : Activated(t)' = Activated(t) /\ Activated(t) \cap D = {}
  BY <1>1, <1>3 DEF Activated, NoAttempt
<1>7. \A j \in Ids : Begun(j) => SessionOf(j) \in Sessions
  BY DEF Authority, RowsKnown, Reserved, SessionOf, TypeOK, ReservationRow
<1>8. \A t \in Sessions : \A j \in Activated(t) : j \in Ids \ D /\ attempts'[j] = attempts[j]
  BY <1>1, <1>6 DEF Activated
<1>9. BasesActivated'
  BY <1>1, <1>2, <1>3, <1>6, <1>7, <1>8 DEF BasesActivated, Authority
<1>10. LinearHistory'
  BY <1>1, <1>6, <1>8 DEF LinearHistory, Authority
<1> QED BY <1>4, <1>5, <1>9, <1>10 DEF Authority

\* The inductive step: every operation keeps the chain of heads.
LEMMA AuthorityNext == TypeOK /\ Authority /\ [Next]_vars => Authority'
<1> SUFFICES ASSUME TypeOK, Authority, [Next]_vars PROVE Authority'
  OBVIOUS
<1>1. CASE Tick
  BY <1>1, AuthorityPreserved DEF Tick, SameAuthority, Begun
<1>2. ASSUME NEW s \in Sessions, NEW o \in Origins, NEW i \in Ids,
             Reserve(s, o, i) \/ AdoptLegacy(s, o, i)
      PROVE  Authority'
  BY <1>2, AuthorityIssue DEF Reserve, AdoptLegacy
<1>3. ASSUME NEW i \in Ids, NEW c \in Captures, NEW b \in Ids \cup {Null}, Begin(i, c, b)
      PROVE  Authority'
  BY <1>3, AuthorityBegin
<1>4. ASSUME NEW i \in Ids, NEW n \in 0..(PartLimit - 1), NEW b \in Bodies, Put(i, n, b)
      PROVE  Authority'
  BY <1>4, AuthorityPreserved DEF Put, SameAuthority, Begun
<1>5. ASSUME NEW i \in Ids, NEW m \in Manifests, Seal(i, m)
      PROVE  Authority'
  <2>1. attempts[i].state \in LiveStates
    BY <1>5, LiveMeans DEF Seal
  <2>2. SameAuthority
    BY <1>5, <2>1 DEF Seal, SameAuthority, Begun, TypeOK, AttemptRow, LiveStates
  <2> QED BY <2>2, AuthorityPreserved
<1>6. ASSUME NEW i \in Ids, NEW p \in PartsOf(i), ValidatePart(i, p)
      PROVE  Authority'
  <2>1. SameAuthority
    BY <1>6 DEF ValidatePart, SameAuthority, Begun, TypeOK, AttemptRow
  <2> QED BY <2>1, AuthorityPreserved
<1>7. ASSUME NEW i \in Ids, NEW done \in BOOLEAN, NEW chunk \in SUBSET Remaining(i),
             ValidateRetention(i, chunk, done)
      PROVE  Authority'
  <2>1. SameAuthority
    BY <1>7 DEF ValidateRetention, SameAuthority, Begun, TypeOK, AttemptRow
  <2> QED BY <2>1, AuthorityPreserved
<1>8. ASSUME NEW i \in Ids, Renew(i)
      PROVE  Authority'
  <2>1. SameAuthority
    BY <1>8 DEF Renew, SameAuthority, Begun, TypeOK, AttemptRow
  <2> QED BY <2>1, AuthorityPreserved
<1>9. ASSUME NEW i \in Ids, Reject(i)
      PROVE  Authority'
  <2>1. SameAuthority
    BY <1>9 DEF Reject, SameAuthority, Begun, TypeOK, AttemptRow
  <2> QED BY <2>1, AuthorityPreserved
<1>10. ASSUME NEW i \in Ids, Activate(i)
       PROVE  Authority'
  BY <1>10, AuthorityActivate
<1>11. ASSUME NEW R \in SUBSET Reclaimable, NEW D \in SUBSET Ids, NEW limit \in 1..ReclaimLimit,
              Reclaim(R, D, limit)
       PROVE  Authority'
  BY <1>11, AuthorityReclaim
<1>12. ASSUME NEW s \in Sessions, DeleteSession(s)
       PROVE  Authority'
  BY <1>12, AuthorityPreserved DEF DeleteSession, SameAuthority, Begun
<1>13. ASSUME NEW s \in Sessions, NEW m \in LegacyRecords, LegacyApply(s, m)
       PROVE  Authority'
  BY <1>13, AuthorityPreserved DEF LegacyApply, SameAuthority, Begun
<1>14. CASE UNCHANGED vars
  BY <1>14, AuthorityPreserved DEF vars, SameAuthority, Begun
<1> QED
  BY <1>1, <1>2, <1>3, <1>4, <1>5, <1>6, <1>7, <1>8, <1>9, <1>10, <1>11, <1>12, <1>13,
     <1>14 DEF Next

\* The inductive invariant holds in every reachable state.
LEMMA AuthorityInvariant == Spec => []Authority
<1>1. Init => TypeOK /\ Authority
  BY TypeInit, AuthorityInit
<1>2. (TypeOK /\ Authority) /\ [Next]_vars => (TypeOK /\ Authority)'
  BY TypeNext, AuthorityNext
<1> QED BY <1>1, <1>2, PTL DEF Spec

\* The activated targets of every Session form one chain that ends in the
\* selected head, for any number of concurrent writers, retries and cleanups.
THEOREM HistoryIsLinear == Spec => []LinearHistory
<1>1. Authority => LinearHistory
  BY DEF Authority
<1> QED BY <1>1, AuthorityInvariant, PTL

-----------------------------------------------------------------------------
(* What a step may do to a begun attempt                                   *)

\* The row is removed, or keeps its reservation, fence and base; the source's
\* fence only grows; a settled state stays settled; the lease moves only while
\* the attempt is live; a new head is an attempt that was not activated.
AttemptStep(k) ==
  \/ attempts'[k] = NoAttempt
  \/ /\ now' >= now
     /\ reservations'[k] = reservations[k]
     /\ attempts'[k].fence = attempts[k].fence
     /\ attempts'[k].base = attempts[k].base
     /\ attempts[k].state \notin LiveStates => attempts'[k].state \notin LiveStates
     /\ attempts'[k].lease = attempts[k].lease \/ Live(k)
     /\ fence'[SessionOf(k)] >= fence[SessionOf(k)]
     /\ \/ head'[SessionOf(k)] = head[SessionOf(k)]
        \/ head'[SessionOf(k)] \in Ids \ Activated(SessionOf(k))

\* What any one step of the store may do to an attempt that has begun, to the
\* clock and to the head it competes for.
LEMMA AttemptSteps ==
  ASSUME TypeOK, Authority, [Next]_vars, NEW k \in Ids, Begun(k)
  PROVE  AttemptStep(k)
<1>1. /\ SessionOf(k) \in Sessions /\ k \in issued
      /\ now \in Nat /\ fence[SessionOf(k)] \in Nat
      /\ attempts[k] \in AttemptRow
  BY DEF Authority, RowsKnown, Reserved, SessionOf, TypeOK, ReservationRow
<1>2. CASE Tick
  BY <1>1, <1>2 DEF Tick, AttemptStep
<1>3. ASSUME NEW s \in Sessions, NEW o \in Origins, NEW i \in Ids,
             Reserve(s, o, i) \/ AdoptLegacy(s, o, i)
      PROVE  AttemptStep(k)
  <2>1. /\ k # i /\ reservations'[k] = reservations[k]
        /\ now' = now /\ fence' = fence /\ head' = head /\ attempts' = attempts
    BY <1>1, <1>3 DEF Reserve, AdoptLegacy, IssueReservation, TypeOK
  <2> QED BY <1>1, <2>1 DEF AttemptStep
<1>4. ASSUME NEW i \in Ids, NEW c \in Captures, NEW b \in Ids \cup {Null}, Begin(i, c, b)
      PROVE  AttemptStep(k)
  <2>1. /\ k # i /\ attempts'[k] = attempts[k]
        /\ now' = now /\ reservations' = reservations /\ head' = head
    BY <1>4 DEF Begin, TypeOK
  <2>2. fence'[SessionOf(k)] >= fence[SessionOf(k)]
    BY <1>1, <1>4 DEF Begin, TypeOK
  <2> QED BY <1>1, <2>1, <2>2 DEF AttemptStep
<1>5. ASSUME NEW i \in Ids, NEW n \in 0..(PartLimit - 1), NEW b \in Bodies, Put(i, n, b)
      PROVE  AttemptStep(k)
  BY <1>1, <1>5 DEF Put, AttemptStep
<1>6. ASSUME NEW i \in Ids, NEW m \in Manifests, Seal(i, m)
      PROVE  AttemptStep(k)
  <2>1. attempts[i].state \in LiveStates
    BY <1>6, LiveMeans DEF Seal
  <2> QED BY <1>1, <1>6, <2>1 DEF Seal, AttemptStep, TypeOK, AttemptRow
<1>7. ASSUME NEW i \in Ids, NEW p \in PartsOf(i), ValidatePart(i, p)
      PROVE  AttemptStep(k)
  BY <1>1, <1>7 DEF ValidatePart, AttemptStep, TypeOK, AttemptRow, LiveStates
<1>8. ASSUME NEW i \in Ids, NEW done \in BOOLEAN, NEW chunk \in SUBSET Remaining(i),
             ValidateRetention(i, chunk, done)
      PROVE  AttemptStep(k)
  BY <1>1, <1>8 DEF ValidateRetention, AttemptStep, TypeOK, AttemptRow, LiveStates
<1>9. ASSUME NEW i \in Ids, Renew(i)
      PROVE  AttemptStep(k)
  <2>1. k # i => attempts'[k] = attempts[k]
    BY <1>9 DEF Renew, TypeOK
  <2>2. /\ attempts'[k].fence = attempts[k].fence /\ attempts'[k].base = attempts[k].base
        /\ attempts'[k].state = attempts[k].state
    BY <1>1, <1>9 DEF Renew, TypeOK, AttemptRow
  <2> QED BY <1>1, <1>9, <2>1, <2>2 DEF Renew, AttemptStep
<1>10. ASSUME NEW i \in Ids, Reject(i)
       PROVE  AttemptStep(k)
  BY <1>1, <1>10 DEF Reject, AttemptStep, TypeOK, AttemptRow, LiveStates
<1>11. ASSUME NEW i \in Ids, Activate(i)
       PROVE  AttemptStep(k)
  <2>1. /\ attempts'[k].fence = attempts[k].fence /\ attempts'[k].base = attempts[k].base
        /\ attempts'[k].lease = attempts[k].lease
        /\ attempts[k].state \notin LiveStates => attempts'[k].state \notin LiveStates
    BY <1>1, <1>11 DEF Activate, TypeOK, AttemptRow, LiveStates
  <2>2. \/ head'[SessionOf(k)] = head[SessionOf(k)]
        \/ head'[SessionOf(k)] = i
    BY <1>1, <1>11 DEF Activate, TypeOK
  <2>3. i \notin Activated(SessionOf(k))
    BY <1>11 DEF Activate, Activated
  <2> QED BY <1>1, <1>11, <2>1, <2>2, <2>3 DEF Activate, AttemptStep
<1>12. ASSUME NEW R \in SUBSET Reclaimable, NEW D \in SUBSET Ids, NEW limit \in 1..ReclaimLimit,
              Reclaim(R, D, limit)
       PROVE  AttemptStep(k)
  BY <1>1, <1>12 DEF Reclaim, AttemptStep
<1>13. ASSUME NEW s \in Sessions, DeleteSession(s)
       PROVE  AttemptStep(k)
  BY <1>1, <1>13 DEF DeleteSession, AttemptStep
<1>14. ASSUME NEW s \in Sessions, NEW m \in LegacyRecords, LegacyApply(s, m)
       PROVE  AttemptStep(k)
  BY <1>1, <1>14 DEF LegacyApply, AttemptStep
<1>15. CASE UNCHANGED vars
  BY <1>1, <1>15 DEF vars, AttemptStep
<1> QED
  BY <1>2, <1>3, <1>4, <1>5, <1>6, <1>7, <1>8, <1>9, <1>10, <1>11, <1>12, <1>13, <1>14,
     <1>15 DEF Next

\* One step never gives a begun attempt its write authority back.
LEMMA NeverRevived ==
  ASSUME TypeOK, TypeOK', Authority, [Next]_vars, NEW k \in Ids, Begun(k), ~Live(k)
  PROVE  ~Live(k)'
<1>1. AttemptStep(k)
  BY AttemptSteps
<1>2. /\ SessionOf(k) \in Sessions
      /\ fence[SessionOf(k)] \in Nat /\ fence'[SessionOf(k)] \in Nat
      /\ now \in Nat /\ now' \in Nat
      /\ attempts[k] \in AttemptRow /\ reservations[k] \in ReservationRow
  BY DEF Authority, RowsKnown, Reserved, SessionOf, TypeOK, ReservationRow
<1>3. Live(k)' <=> /\ attempts'[k].state \in LiveStates
                   /\ ~Superseded(k)' /\ ~Expired(k)'
  BY DEF Live, EffectiveState, LiveStates
<1>4. CASE attempts'[k] = NoAttempt
  BY <1>3, <1>4 DEF NoAttempt, LiveStates
<1>5. CASE attempts'[k] # NoAttempt
  <2>1. /\ now' >= now /\ reservations'[k] = reservations[k]
        /\ attempts'[k].fence = attempts[k].fence /\ attempts'[k].base = attempts[k].base
        /\ attempts[k].state \notin LiveStates => attempts'[k].state \notin LiveStates
        /\ attempts'[k].lease = attempts[k].lease
        /\ fence'[SessionOf(k)] >= fence[SessionOf(k)]
        /\ \/ head'[SessionOf(k)] = head[SessionOf(k)]
           \/ head'[SessionOf(k)] \in Ids \ Activated(SessionOf(k))
    BY <1>1, <1>5 DEF AttemptStep
  <2>2. CASE attempts[k].state \notin LiveStates
    BY <1>3, <2>1, <2>2
  <2>3. CASE Superseded(k)
    <3>1. attempts[k].fence <= fence[SessionOf(k)] /\ attempts[k].fence \in Nat
      BY <1>2 DEF Authority, FencesOwned, AttemptRow
    <3>2. attempts[k].base = Null \/ attempts[k].base \in Activated(SessionOf(k))
      BY DEF Authority, BasesActivated
    <3>3. SessionOf(k)' = SessionOf(k)
      BY <2>1 DEF SessionOf
    <3>4. Superseded(k)'
      BY <1>2, <2>1, <2>3, <3>1, <3>2, <3>3, ConstantsAssumption DEF Superseded
    <3> QED BY <1>3, <3>4
  <2>4. CASE Expired(k)
    BY <1>2, <1>3, <2>1, <2>4 DEF Expired, AttemptRow, ReservationRow
  <2> QED BY <2>2, <2>3, <2>4, LiveMeans
<1> QED BY <1>4, <1>5

\* An attempt that lost its write authority never regains it: not by a renewal
\* in flight, a later head, a cleanup or the passing of time.
THEOREM DeadAttemptsStayDead == Spec => DeadStaysDead
<1>1. TypeOK /\ TypeOK' /\ Authority /\ [Next]_vars =>
        [\A i \in Ids : (Begun(i) /\ ~Live(i)) => ~Live(i)']_vars
  BY NeverRevived
<1> QED BY <1>1, TypeCorrect, AuthorityInvariant, PTL DEF Spec, DeadStaysDead

-----------------------------------------------------------------------------
(* Receipts and deleted Sessions                                           *)

\* One step never alters an activated attempt.
LEMMA ReceiptKept ==
  ASSUME TypeOK, Authority, [Next]_vars, NEW k \in Ids, attempts[k].state = "activated"
  PROVE  attempts'[k] = attempts[k] /\ reservations'[k] = reservations[k]
<1>1. k \in issued /\ Begun(k) /\ ~Live(k)
  BY LiveMeans DEF Authority, RowsKnown, Begun, LiveStates
<1>2. ASSUME NEW s \in Sessions, NEW o \in Origins, NEW i \in Ids,
             Reserve(s, o, i) \/ AdoptLegacy(s, o, i)
      PROVE  attempts'[k] = attempts[k] /\ reservations'[k] = reservations[k]
  BY <1>1, <1>2 DEF Reserve, AdoptLegacy, IssueReservation, TypeOK
<1>3. ASSUME NEW i \in Ids, NEW c \in Captures, NEW b \in Ids \cup {Null}, Begin(i, c, b)
      PROVE  attempts'[k] = attempts[k] /\ reservations'[k] = reservations[k]
  BY <1>1, <1>3 DEF Begin, TypeOK
<1>4. ASSUME NEW i \in Ids, NEW m \in Manifests, Seal(i, m)
      PROVE  attempts'[k] = attempts[k] /\ reservations'[k] = reservations[k]
  BY <1>1, <1>4 DEF Seal, TypeOK
<1>5. ASSUME NEW i \in Ids, NEW p \in PartsOf(i), ValidatePart(i, p)
      PROVE  attempts'[k] = attempts[k] /\ reservations'[k] = reservations[k]
  BY <1>1, <1>5 DEF ValidatePart, TypeOK
<1>6. ASSUME NEW i \in Ids, NEW done \in BOOLEAN, NEW chunk \in SUBSET Remaining(i),
             ValidateRetention(i, chunk, done)
      PROVE  attempts'[k] = attempts[k] /\ reservations'[k] = reservations[k]
  BY <1>1, <1>6 DEF ValidateRetention, TypeOK
<1>7. ASSUME NEW i \in Ids, Renew(i) \/ Reject(i) \/ Activate(i)
      PROVE  attempts'[k] = attempts[k] /\ reservations'[k] = reservations[k]
  BY <1>1, <1>7 DEF Renew, Reject, Activate, TypeOK
<1>8. ASSUME NEW R \in SUBSET Reclaimable, NEW D \in SUBSET Ids, NEW limit \in 1..ReclaimLimit,
             Reclaim(R, D, limit)
      PROVE  attempts'[k] = attempts[k] /\ reservations'[k] = reservations[k]
  BY <1>1, <1>8 DEF Reclaim, Removable
<1> QED
  BY <1>2, <1>3, <1>4, <1>5, <1>6, <1>7, <1>8
     DEF Next, Tick, Put, DeleteSession, LegacyApply, vars

\* The receipt of an activation is never altered or removed.
THEOREM ReceiptsAreStable == Spec => ReceiptStable
<1>1. TypeOK /\ Authority /\ [Next]_vars =>
        [\A i \in Ids : attempts[i].state = "activated" =>
           attempts'[i] = attempts[i] /\ reservations'[i] = reservations[i]]_vars
  BY ReceiptKept
<1> QED BY <1>1, TypeCorrect, AuthorityInvariant, PTL DEF Spec, ReceiptStable

\* No step touches the parts of a selected head: only live attempts take or
\* normalize parts, and only dead or replaced ones lose them.
LEMMA HeadPartsKept ==
  ASSUME TypeOK, Authority, [Next]_vars, NEW s \in Sessions, NEW h \in Ids, head[s] = h
  PROVE  PartsOf(h)' = PartsOf(h)
<1>1. attempts[h].state = "activated" /\ SessionOf(h) = s /\ ~Live(h)
  <2>1. h \in Activated(s)
    BY ConstantsAssumption DEF Authority, LinearHistory
  <2> QED BY <2>1, LiveMeans DEF Activated, LiveStates
<1>2. ASSUME NEW i \in Ids, NEW n \in 0..(PartLimit - 1), NEW b \in Bodies, Put(i, n, b)
      PROVE  PartsOf(h)' = PartsOf(h)
  BY <1>1, <1>2 DEF Put, PartsOf, WirePart
<1>3. ASSUME NEW i \in Ids, NEW p \in PartsOf(i), ValidatePart(i, p)
      PROVE  PartsOf(h)' = PartsOf(h)
  BY <1>1, <1>3 DEF ValidatePart, PartsOf, FixedPart
<1>4. ASSUME NEW i \in Ids, NEW done \in BOOLEAN, NEW chunk \in SUBSET Remaining(i),
             ValidateRetention(i, chunk, done)
      PROVE  PartsOf(h)' = PartsOf(h)
  BY <1>1, <1>4 DEF ValidateRetention, PartsOf, DerivedPart
<1>5. ASSUME NEW R \in SUBSET Reclaimable, NEW D \in SUBSET Ids, NEW limit \in 1..ReclaimLimit,
             Reclaim(R, D, limit)
      PROVE  PartsOf(h)' = PartsOf(h)
  <2>1. EffectiveState(h) = "activated"
    BY <1>1 DEF EffectiveState, LiveStates
  <2>2. \A p \in R : p.attempt # h
    BY <1>1, <2>1 DEF Reclaimable
  <2>3. h \notin D
    BY <1>1, <1>5 DEF Reclaim, Removable, Begun
  <2> QED BY <1>5, <2>2, <2>3 DEF Reclaim, PartsOf
<1>6. CASE parts' = parts
  BY <1>6 DEF PartsOf
<1> QED
  BY <1>2, <1>3, <1>4, <1>5, <1>6
     DEF Next, Tick, Reserve, AdoptLegacy, Begin, Seal, Renew, Reject, Activate,
         DeleteSession, LegacyApply, vars

\* One step never changes what a reader of a deleted Session sees.
LEMMA TombstoneKept ==
  ASSUME TypeOK, Authority, [Next]_vars, NEW s \in Sessions, sessions[s] = "deleted"
  PROVE  sessions'[s] = "deleted" /\ head'[s] = head[s] /\ Visible(s)' = Visible(s)
<1>1. /\ sessions'[s] = "deleted" /\ head'[s] = head[s] /\ legacy'[s] = legacy[s]
  <2>1. ASSUME NEW i \in Ids, Activate(i)
        PROVE  sessions'[s] = "deleted" /\ head'[s] = head[s] /\ legacy'[s] = legacy[s]
    <3>1. SessionOf(i) # s
      BY <2>1 DEF Activate, Access
    <3> QED BY <2>1, <3>1 DEF Activate, TypeOK
  <2>2. ASSUME NEW t \in Sessions, DeleteSession(t)
        PROVE  sessions'[s] = "deleted" /\ head'[s] = head[s] /\ legacy'[s] = legacy[s]
    BY <2>2 DEF DeleteSession, TypeOK
  <2>3. ASSUME NEW t \in Sessions, NEW m \in LegacyRecords, LegacyApply(t, m)
        PROVE  sessions'[s] = "deleted" /\ head'[s] = head[s] /\ legacy'[s] = legacy[s]
    BY <2>3 DEF LegacyApply, TypeOK
  <2>4. CASE sessions' = sessions /\ head' = head /\ legacy' = legacy
    BY <2>4
  <2> QED
    BY <2>1, <2>2, <2>3, <2>4
       DEF Next, Tick, Reserve, AdoptLegacy, Begin, Put, Seal, ValidatePart,
           ValidateRetention, Renew, Reject, Reclaim, vars
<1>2. CASE head[s] = Null
  BY <1>1, <1>2 DEF Visible
<1>3. CASE head[s] # Null
  <2>1. PICK h \in Ids : head[s] = h
    BY <1>3 DEF TypeOK
  <2>2. PartsOf(h)' = PartsOf(h)
    BY <2>1, HeadPartsKept
  <2> QED BY <1>1, <1>3, <2>1, <2>2 DEF Visible
<1> QED BY <1>1, <1>2, <1>3

\* A deleted Session is never revived and never changes for a reader.
THEOREM TombstonesAreFinal == Spec => TombstoneFinal
<1>1. TypeOK /\ Authority /\ [Next]_vars =>
        [\A s \in Sessions : sessions[s] = "deleted" =>
           sessions'[s] = "deleted" /\ head'[s] = head[s] /\ Visible(s)' = Visible(s)]_vars
  BY TombstoneKept
<1> QED BY <1>1, TypeCorrect, AuthorityInvariant, PTL DEF Spec, TombstoneFinal

-----------------------------------------------------------------------------
(* One content per source version                                          *)
(*                                                                         *)
(* The ledger outlives attempts and parts.  A part refers to it through    *)
(* the Session of its attempt's reservation, so the invariant also says    *)
(* that every stored part still has its attempt row.                       *)

PartsBegun == \A p \in parts : Begun(p.attempt)
LedgerInv == PartsBegun /\ VersionAgreement

\* The empty ledger agrees with itself.
LEMMA LedgerInit == Init => LedgerInv
BY DEF Init, LedgerInv, PartsBegun, VersionAgreement

\* Binding a recordable set of members keeps the ledger functional and binds
\* all of them.
LEMMA LedgerBind ==
  ASSUME NEW i \in Ids, NEW S \in SUBSET Member, VersionAgreement, Recordable(i, S), Bind(i, S)
  PROVE  /\ versions \subseteq versions'
         /\ \A m \in S : [session |-> SessionOf(i), key |-> m.key, rev |-> m.rev, fp |-> m.fp]
                          \in versions'
         /\ \A v, w \in versions' :
              (v.session = w.session /\ v.key = w.key /\ v.rev = w.rev) => v.fp = w.fp
<1> DEFINE row(m) == [session |-> SessionOf(i), key |-> m.key, rev |-> m.rev, fp |-> m.fp]
<1>1. versions' = versions \cup {row(m) : m \in S}
  BY DEF Bind
<1>2. ASSUME NEW v \in versions', NEW w \in versions',
             v.session = w.session, v.key = w.key, v.rev = w.rev
      PROVE  v.fp = w.fp
  <2>1. CASE v \in versions /\ w \in versions
    BY <1>2, <2>1 DEF VersionAgreement
  <2>2. ASSUME NEW m \in S, v = row(m), w \in versions PROVE v.fp = w.fp
    BY <1>2, <2>2 DEF Recordable
  <2>3. ASSUME NEW m \in S, w = row(m), v \in versions PROVE v.fp = w.fp
    BY <1>2, <2>3 DEF Recordable
  <2>4. ASSUME NEW m \in S, NEW n \in S, v = row(m), w = row(n) PROVE v.fp = w.fp
    BY <1>2, <2>4 DEF Recordable
  <2> QED BY <1>1, <2>1, <2>2, <2>3, <2>4
<1> QED BY <1>1, <1>2

\* Every operation keeps the version ledger functional and the stored parts
\* within it.
LEMMA LedgerNext == TypeOK /\ Authority /\ LedgerInv /\ [Next]_vars => LedgerInv'
<1> SUFFICES ASSUME TypeOK, Authority, LedgerInv, [Next]_vars PROVE LedgerInv'
  OBVIOUS
<1> DEFINE row(p, m) == [session |-> SessionOf(p.attempt), key |-> m.key, rev |-> m.rev, fp |-> m.fp]
<1>1. \A p \in parts : p.attempt \in Ids /\ Begun(p.attempt)
  BY DEF LedgerInv, PartsBegun, TypeOK, PartOK
<1>2. \A p \in parts : \A m \in p.members : row(p, m) \in versions
  BY DEF LedgerInv, VersionAgreement
<1>3. \A k \in Ids : Begun(k) => k \in issued
  BY DEF Authority, RowsKnown
\* Steps that write no part and no version, and remove nothing.
<1>4. ASSUME parts' = parts, versions' = versions,
             \A k \in Ids : Begun(k) => Begun(k)' /\ reservations'[k] = reservations[k]
      PROVE  LedgerInv'
  BY <1>1, <1>2, <1>4 DEF LedgerInv, PartsBegun, VersionAgreement, SessionOf
<1>5. ASSUME NEW s \in Sessions, NEW o \in Origins, NEW i \in Ids,
             Reserve(s, o, i) \/ AdoptLegacy(s, o, i)
      PROVE  LedgerInv'
  <2>1. \A k \in Ids : Begun(k) => Begun(k)' /\ reservations'[k] = reservations[k]
    BY <1>3, <1>5 DEF Reserve, AdoptLegacy, IssueReservation, Begun, TypeOK
  <2> QED BY <1>4, <1>5, <2>1 DEF Reserve, AdoptLegacy
<1>6. ASSUME NEW i \in Ids, NEW c \in Captures, NEW b \in Ids \cup {Null}, Begin(i, c, b)
      PROVE  LedgerInv'
  <2>1. \A k \in Ids : Begun(k) => Begun(k)' /\ reservations'[k] = reservations[k]
    BY <1>6 DEF Begin, Begun, TypeOK
  <2> QED BY <1>4, <1>6, <2>1 DEF Begin
<1>7. ASSUME NEW i \in Ids, NEW n \in 0..(PartLimit - 1), NEW b \in Bodies, Put(i, n, b)
      PROVE  LedgerInv'
  <2>1. Begun(i)
    BY <1>7 DEF Put, Begun
  <2>2. WirePart(i, n, b).attempt = i /\ WirePart(i, n, b).members = {}
    BY DEF WirePart
  <2> QED BY <1>1, <1>2, <1>7, <2>1, <2>2
             DEF Put, LedgerInv, PartsBegun, VersionAgreement, SessionOf, Begun
<1>8. ASSUME NEW i \in Ids,
             (\E m \in Manifests : Seal(i, m)) \/ Renew(i) \/ Reject(i) \/ Activate(i)
      PROVE  LedgerInv'
  <2>1. \A k \in Ids : Begun(k) => Begun(k)' /\ reservations'[k] = reservations[k]
    <3>1. ASSUME NEW m \in Manifests, Seal(i, m)
          PROVE  \A k \in Ids : Begun(k) => Begun(k)' /\ reservations'[k] = reservations[k]
      BY <3>1 DEF Seal, Begun, TypeOK, AttemptRow
    <3>2. CASE Renew(i)
      BY <3>2 DEF Renew, Begun, TypeOK, AttemptRow
    <3>3. CASE Reject(i)
      BY <3>3 DEF Reject, Begun, TypeOK, AttemptRow
    <3>4. CASE Activate(i)
      BY <3>4 DEF Activate, Begun, TypeOK, AttemptRow
    <3> QED BY <1>8, <3>1, <3>2, <3>3, <3>4
  <2> QED BY <1>4, <1>8, <2>1 DEF Seal, Renew, Reject, Activate
<1>9. ASSUME NEW i \in Ids, NEW p \in PartsOf(i), ValidatePart(i, p)
      PROVE  LedgerInv'
  <2>1. p \in parts /\ p.attempt = i /\ p.body \in Bodies
    BY <1>9 DEF PartsOf, ValidatePart, TypeOK, PartOK
  <2>2. p.body.members \in SUBSET Member
    BY <2>1, BodyMembers
  <2>3. /\ versions \subseteq versions'
        /\ \A m \in p.body.members : row(p, m) \in versions'
        /\ \A v, w \in versions' :
             (v.session = w.session /\ v.key = w.key /\ v.rev = w.rev) => v.fp = w.fp
    BY <1>9, <2>1, <2>2, LedgerBind DEF ValidatePart, LedgerInv
  <2>4. FixedPart(p).attempt = i /\ FixedPart(p).members = p.body.members
    BY <2>1 DEF FixedPart
  <2>5. reservations' = reservations /\ \A k \in Ids : Begun(k) => Begun(k)'
    BY <1>9 DEF ValidatePart, Begun, TypeOK, AttemptRow
  <2>6. \A q \in parts' : q \in parts \/ q = FixedPart(p)
    BY <1>9 DEF ValidatePart
  <2>7. \A q \in parts' : q.attempt \in Ids /\ Begun(q.attempt)
    BY <1>1, <2>1, <2>4, <2>6
  <2>8. \A q \in parts' : \A m \in q.members : row(q, m) \in versions'
    BY <1>2, <2>1, <2>3, <2>4, <2>6
  <2> QED BY <2>3, <2>5, <2>7, <2>8 DEF LedgerInv, PartsBegun, VersionAgreement, SessionOf
<1>10. ASSUME NEW i \in Ids, NEW done \in BOOLEAN, NEW chunk \in SUBSET Remaining(i),
              ValidateRetention(i, chunk, done)
       PROVE  LedgerInv'
  <2>1. Begun(i) /\ SessionOf(i) \in Sessions
    BY <1>10 DEF ValidateRetention, Access, Reserved, SessionOf, TypeOK, ReservationRow, Begun
  <2>2. chunk \in SUBSET Member
    BY <2>1 DEF Remaining, Baseline, Visible, PartsOf, TypeOK, PartOK
  <2>3. reservations' = reservations /\ \A k \in Ids : Begun(k) => Begun(k)'
    BY <1>10 DEF ValidateRetention, Begun, TypeOK, AttemptRow
  <2>4. CASE chunk = {}
    <3>1. versions' = versions /\ parts' = parts
      BY <1>10, <2>4 DEF ValidateRetention, Bind
    <3> QED BY <1>4, <2>3, <3>1
  <2>5. CASE chunk # {}
    <3>1. /\ versions \subseteq versions'
          /\ \A m \in chunk :
               [session |-> SessionOf(i), key |-> m.key, rev |-> m.rev, fp |-> m.fp] \in versions'
          /\ \A v, w \in versions' :
               (v.session = w.session /\ v.key = w.key /\ v.rev = w.rev) => v.fp = w.fp
      BY <1>10, <2>2, <2>5, LedgerBind DEF ValidateRetention, LedgerInv
    <3>2. DerivedPart(i, chunk).attempt = i /\ DerivedPart(i, chunk).members = chunk
      BY DEF DerivedPart
    <3>3. \A q \in parts' : q \in parts \/ q = DerivedPart(i, chunk)
      BY <1>10, <2>5 DEF ValidateRetention
    <3>4. \A q \in parts' : q.attempt \in Ids /\ Begun(q.attempt)
      BY <1>1, <2>1, <3>2, <3>3
    <3>5. \A q \in parts' : \A m \in q.members : row(q, m) \in versions'
      BY <1>2, <3>1, <3>2, <3>3
    <3> QED BY <2>3, <3>1, <3>4, <3>5 DEF LedgerInv, PartsBegun, VersionAgreement, SessionOf
  <2> QED BY <2>4, <2>5
<1>11. ASSUME NEW R \in SUBSET Reclaimable, NEW D \in SUBSET Ids, NEW limit \in 1..ReclaimLimit,
              Reclaim(R, D, limit)
       PROVE  LedgerInv'
  <2>1. /\ versions' = versions /\ parts' \subseteq parts
        /\ \A p \in parts' : p.attempt \notin D
        /\ \A k \in Ids \ D : attempts'[k] = attempts[k] /\ reservations'[k] = reservations[k]
    BY <1>11 DEF Reclaim
  <2> QED BY <1>1, <1>2, <2>1 DEF LedgerInv, PartsBegun, VersionAgreement, SessionOf, Begun
<1>12. CASE Tick \/ (\E s \in Sessions : DeleteSession(s) \/ \E m \in LegacyRecords : LegacyApply(s, m))
            \/ UNCHANGED vars
  BY <1>4, <1>12 DEF Tick, DeleteSession, LegacyApply, vars, Begun
<1> QED
  BY <1>5, <1>6, <1>7, <1>8, <1>9, <1>10, <1>11, <1>12 DEF Next

\* A source version never changes content: whatever was reclaimed meanwhile,
\* two attempts of one Session that hold the same version hold the same bytes.
THEOREM VersionsAgree == Spec => []VersionAgreement
<1>1. Init => LedgerInv
  BY LedgerInit
<1>2. TypeOK /\ Authority /\ LedgerInv /\ [Next]_vars => LedgerInv'
  BY LedgerNext
<1>3. LedgerInv => VersionAgreement
  BY DEF LedgerInv
<1> QED BY <1>1, <1>2, <1>3, TypeCorrect, AuthorityInvariant, PTL DEF Spec

-----------------------------------------------------------------------------
(* Steps                                                                   *)

Entering == \E s \in Sessions, o \in Origins, i \in Ids : Reserve(s, o, i) \/ AdoptLegacy(s, o, i)
Ingesting == \E s \in Sessions, m \in LegacyRecords : LegacyApply(s, m)
Deleting == \E s \in Sessions : DeleteSession(s)
Beginning == \E i \in Ids, c \in Captures, b \in Ids \cup {Null} : Begin(i, c, b)
Uploads(i) == \E n \in 0..(PartLimit - 1), b \in Bodies : Put(i, n, b)
Sealing(i) == \E m \in Manifests : Seal(i, m)
Validating(i) ==
  \/ \E p \in PartsOf(i) : ValidatePart(i, p)
  \/ \E done \in BOOLEAN, chunk \in SUBSET Remaining(i) : ValidateRetention(i, chunk, done)
Reclaiming ==
  \E R \in SUBSET Reclaimable, D \in SUBSET Ids, limit \in 1..ReclaimLimit : Reclaim(R, D, limit)
Preparing ==
  \E i \in Ids : Uploads(i) \/ Sealing(i) \/ Validating(i) \/ Renew(i) \/ Reject(i)

\* Every step is one of these.
LEMMA StepCases ==
  ASSUME [Next]_vars
  PROVE  \/ Tick \/ Entering \/ Beginning \/ Preparing \/ Reclaiming \/ Deleting \/ Ingesting
         \/ \E i \in Ids : Activate(i)
         \/ UNCHANGED vars
BY DEF Next, Entering, Beginning, Preparing, Uploads, Sealing, Validating, Reclaiming, Deleting, Ingesting

\* What the steps on one attempt's own rows leave alone.
LEMMA PreparingKeeps ==
  ASSUME Preparing
  PROVE  /\ now' = now /\ origin' = origin /\ fence' = fence /\ head' = head /\ adopted' = adopted
         /\ floor' = floor /\ sessions' = sessions /\ legacy' = legacy /\ issued' = issued
         /\ reservations' = reservations
<1> DEFINE Kept ==
      /\ now' = now /\ origin' = origin /\ fence' = fence /\ head' = head /\ adopted' = adopted
      /\ floor' = floor /\ sessions' = sessions /\ legacy' = legacy /\ issued' = issued
      /\ reservations' = reservations
<1> SUFFICES Kept
  OBVIOUS
<1>1. ASSUME NEW i, NEW n, NEW b, Put(i, n, b) PROVE Kept
  BY <1>1 DEF Put
<1>2. ASSUME NEW i, NEW m, Seal(i, m) PROVE Kept
  BY <1>2 DEF Seal
<1>3. ASSUME NEW i, NEW p, ValidatePart(i, p) PROVE Kept
  BY <1>3 DEF ValidatePart
<1>4. ASSUME NEW i, NEW chunk, NEW done, ValidateRetention(i, chunk, done) PROVE Kept
  BY <1>4 DEF ValidateRetention
<1>5. ASSUME NEW i, Renew(i) PROVE Kept
  BY <1>5 DEF Renew
<1>6. ASSUME NEW i, Reject(i) PROVE Kept
  BY <1>6 DEF Reject
<1> HIDE DEF Kept
<1> QED BY <1>1, <1>2, <1>3, <1>4, <1>5, <1>6 DEF Preparing, Uploads, Sealing, Validating

\* The source rows and the legacy tables change only when a writer enters or
\* legacy ingestion writes.
LEMMA SourceTables ==
  ASSUME [Next]_vars, ~Entering, ~Ingesting
  PROVE  origin' = origin /\ adopted' = adopted /\ floor' = floor /\ legacy' = legacy
<1> DEFINE Kept == origin' = origin /\ adopted' = adopted /\ floor' = floor /\ legacy' = legacy
<1> SUFFICES Kept
  OBVIOUS
<1>1. CASE Tick BY <1>1 DEF Tick
<1>2. CASE Beginning BY <1>2 DEF Beginning, Begin
<1>3. CASE Preparing BY <1>3, PreparingKeeps
<1>4. CASE Reclaiming BY <1>4 DEF Reclaiming, Reclaim
<1>5. CASE Deleting BY <1>5 DEF Deleting, DeleteSession
<1>6. ASSUME NEW i \in Ids, Activate(i) PROVE Kept BY <1>6 DEF Activate
<1>7. CASE UNCHANGED vars BY <1>7 DEF vars
<1> HIDE DEF Kept
<1> QED BY <1>1, <1>2, <1>3, <1>4, <1>5, <1>6, <1>7, StepCases

\* Reservations change only when a writer enters and in cleanup.
LEMMA ReservationTable ==
  ASSUME [Next]_vars, ~Entering, ~Reclaiming
  PROVE  reservations' = reservations /\ issued' = issued
<1> DEFINE Kept == reservations' = reservations /\ issued' = issued
<1> SUFFICES Kept
  OBVIOUS
<1>1. CASE Tick BY <1>1 DEF Tick
<1>2. CASE Beginning BY <1>2 DEF Beginning, Begin
<1>3. CASE Preparing BY <1>3, PreparingKeeps
<1>4. CASE Ingesting BY <1>4 DEF Ingesting, LegacyApply
<1>5. CASE Deleting BY <1>5 DEF Deleting, DeleteSession
<1>6. ASSUME NEW i \in Ids, Activate(i) PROVE Kept BY <1>6 DEF Activate
<1>7. CASE UNCHANGED vars BY <1>7 DEF vars
<1> HIDE DEF Kept
<1> QED BY <1>1, <1>2, <1>3, <1>4, <1>5, <1>6, <1>7, StepCases

-----------------------------------------------------------------------------
(* Sources                                                                 *)
(*                                                                         *)
(* A Session that any writer may publish to has a source row, and from     *)
(* then on legacy ingestion leaves it alone: its legacy records are those  *)
(* the floor was computed from, or there are none.                         *)

SourceBound == \A i \in Ids : Reserved(i) => origin[SessionOf(i)] # Null
LegacySettled ==
  \A s \in Sessions :
    /\ origin[s] = Null => ~adopted[s]
    /\ sessions[s] = "absent" => legacy[s] = {}
    /\ (origin[s] # Null /\ ~adopted[s]) => legacy[s] = {}
    /\ adopted[s] => \A m \in legacy[s] : m.rev <= floor[s]
    /\ \A m, n \in legacy[s] : m.key = n.key => m = n
Sources == SourceBound /\ LegacySettled

\* The empty store satisfies both parts.
LEMMA SourcesInit == Init => Sources
BY DEF Init, Sources, SourceBound, LegacySettled, Reserved, NoReservation, SessionOf

\* A source row stays, and what is known of it is settled with it.
LEMMA SourceKept ==
  ASSUME TypeOK, [Next]_vars, NEW s \in Sessions, origin[s] # Null
  PROVE  /\ origin'[s] = origin[s] /\ adopted'[s] = adopted[s] /\ floor'[s] = floor[s]
         /\ legacy'[s] = legacy[s]
<1> DEFINE Same == /\ origin'[s] = origin[s] /\ adopted'[s] = adopted[s] /\ floor'[s] = floor[s]
                   /\ legacy'[s] = legacy[s]
<1> SUFFICES Same
  OBVIOUS
<1>1. ASSUME NEW t \in Sessions, NEW o \in Origins, NEW i \in Ids, Reserve(t, o, i)
      PROVE  Same
  BY <1>1 DEF Reserve, TypeOK
<1>2. ASSUME NEW t \in Sessions, NEW o \in Origins, NEW i \in Ids, AdoptLegacy(t, o, i)
      PROVE  Same
  <2>1. CASE UNCHANGED <<origin, adopted, floor>>
    BY <1>2, <2>1 DEF AdoptLegacy
  <2>2. ASSUME origin[t] = Null, origin' = [origin EXCEPT ![t] = o],
               adopted' = [adopted EXCEPT ![t] = TRUE],
               NEW f, floor' = [floor EXCEPT ![t] = f]
        PROVE  Same
    BY <1>2, <2>2 DEF AdoptLegacy, TypeOK
  <2> QED BY <1>2, <2>1, <2>2 DEF AdoptLegacy
<1>3. ASSUME NEW t \in Sessions, NEW m \in LegacyRecords, LegacyApply(t, m)
      PROVE  Same
  BY <1>3 DEF LegacyApply, TypeOK
<1>4. CASE ~Entering /\ ~Ingesting
  BY <1>4, SourceTables
<1> HIDE DEF Same
<1> QED BY <1>1, <1>2, <1>3, <1>4 DEF Entering, Ingesting

\* Only Reserve and AdoptLegacy issue a reservation, and they create the source row.
LEMMA SourceBoundNext ==
  ASSUME TypeOK, SourceBound, [Next]_vars
  PROVE  SourceBound'
<1> SUFFICES ASSUME NEW k \in Ids, Reserved(k)' PROVE origin'[reservations'[k].session] # Null
  BY DEF SourceBound, SessionOf
<1>1. ASSUME NEW s \in Sessions, NEW o \in Origins, NEW i \in Ids,
             Reserve(s, o, i) \/ AdoptLegacy(s, o, i), k = i
      PROVE  origin'[reservations'[k].session] # Null
  <2>1. reservations'[k].session = s
    BY <1>1 DEF Reserve, AdoptLegacy, IssueReservation, TypeOK
  <2>2. origin'[s] = o
    BY <1>1 DEF Reserve, AdoptLegacy, TypeOK
  <2> QED BY <2>1, <2>2, ConstantsAssumption
<1>2. CASE reservations'[k] = reservations[k]
  <2>1. Reserved(k) /\ SessionOf(k) \in Sessions
    BY <1>2 DEF Reserved, SessionOf, TypeOK, ReservationRow
  <2> QED BY <1>2, <2>1, SourceKept DEF SourceBound, SessionOf
<1>3. ASSUME NEW R \in SUBSET Reclaimable, NEW D \in SUBSET Ids, NEW limit \in 1..ReclaimLimit,
             Reclaim(R, D, limit)
      PROVE  reservations'[k] = reservations[k]
  BY <1>3 DEF Reclaim, Reserved, NoReservation
<1>4. ASSUME NEW s \in Sessions, NEW o \in Origins, NEW i \in Ids,
             Reserve(s, o, i) \/ AdoptLegacy(s, o, i), k # i
      PROVE  reservations'[k] = reservations[k]
  BY <1>4 DEF Reserve, AdoptLegacy, IssueReservation, TypeOK
<1>5. CASE ~Entering /\ ~Reclaiming
  BY <1>2, <1>5, ReservationTable
<1> QED BY <1>1, <1>2, <1>3, <1>4, <1>5 DEF Entering, Reclaiming

\* Once a Session is a publication source no batch changes its legacy records.
LEMMA LegacySettledNext ==
  ASSUME TypeOK, LegacySettled, [Next]_vars
  PROVE  LegacySettled'
<1> DEFINE Settled(t) ==
      /\ origin[t] = Null => ~adopted[t]
      /\ sessions[t] = "absent" => legacy[t] = {}
      /\ (origin[t] # Null /\ ~adopted[t]) => legacy[t] = {}
      /\ adopted[t] => \A m \in legacy[t] : m.rev <= floor[t]
      /\ \A m, n \in legacy[t] : m.key = n.key => m = n
<1> SUFFICES ASSUME NEW t \in Sessions PROVE Settled(t)'
  BY DEF LegacySettled
<1>0. Settled(t)
  BY DEF LegacySettled
<1>1. ASSUME NEW s \in Sessions, NEW o \in Origins, NEW i \in Ids, Reserve(s, o, i)
      PROVE  Settled(t)'
  <2>1. UNCHANGED <<sessions, legacy, adopted, floor>>
    BY <1>1 DEF Reserve
  <2>2. CASE origin'[t] = origin[t]
    BY <1>0, <2>1, <2>2
  <2>3. CASE origin'[t] # origin[t]
    <3>1. origin[t] = Null /\ sessions[t] = "absent"
      BY <1>1, <2>3 DEF Reserve, TypeOK
    <3> QED BY <1>0, <2>1, <3>1
  <2> QED BY <2>2, <2>3
<1>2. ASSUME NEW s \in Sessions, NEW o \in Origins, NEW i \in Ids, AdoptLegacy(s, o, i)
      PROVE  Settled(t)'
  <2>1. UNCHANGED <<sessions, legacy>>
    BY <1>2 DEF AdoptLegacy
  <2>2. CASE UNCHANGED <<origin, adopted, floor>>
    BY <1>0, <2>1, <2>2
  <2>3. ASSUME origin' = [origin EXCEPT ![s] = o], adopted' = [adopted EXCEPT ![s] = TRUE],
               NEW f, LegacyFloor(s, f), floor' = [floor EXCEPT ![s] = f]
        PROVE  Settled(t)'
    <3>1. CASE t = s
      <4>1. origin'[t] = o /\ adopted'[t] /\ floor'[t] = f
        BY <2>3, <3>1 DEF TypeOK
      <4>2. o # Null
        BY ConstantsAssumption
      <4>3. \A m \in legacy[t] : m.rev <= f
        BY <2>3, <3>1 DEF LegacyFloor
      <4> QED BY <1>0, <2>1, <4>1, <4>2, <4>3
    <3>2. CASE t # s
      <4>1. origin'[t] = origin[t] /\ adopted'[t] = adopted[t] /\ floor'[t] = floor[t]
        BY <2>3, <3>2 DEF TypeOK
      <4> QED BY <1>0, <2>1, <4>1
    <3> QED BY <3>1, <3>2
  <2> QED BY <1>2, <2>2, <2>3 DEF AdoptLegacy
<1>3. ASSUME NEW s \in Sessions, NEW m \in LegacyRecords, LegacyApply(s, m)
      PROVE  Settled(t)'
  <2>1. UNCHANGED <<origin, adopted, floor>>
    BY <1>3 DEF LegacyApply
  <2>2. CASE t # s
    <3>1. legacy'[t] = legacy[t] /\ sessions'[t] = sessions[t]
      BY <1>3, <2>2 DEF LegacyApply, TypeOK
    <3> QED BY <1>0, <2>1, <3>1
  <2>3. CASE t = s
    <3>1. /\ legacy'[t] = {old \in legacy[t] : old.key # m.key} \cup {m}
          /\ sessions'[t] = "active" /\ origin[t] = Null
      BY <1>3, <2>3 DEF LegacyApply, TypeOK
    <3> QED BY <1>0, <2>1, <3>1
  <2> QED BY <2>2, <2>3
<1>4. ASSUME UNCHANGED <<origin, adopted, floor, legacy>>,
             sessions'[t] = "absent" => sessions[t] = "absent"
      PROVE  Settled(t)'
  BY <1>0, <1>4
<1>5. ASSUME NEW s \in Sessions, DeleteSession(s)
      PROVE  Settled(t)'
  BY <1>4, <1>5 DEF DeleteSession, TypeOK
<1>6. ASSUME NEW i \in Ids, Activate(i)
      PROVE  Settled(t)'
  <2>1. UNCHANGED <<origin, adopted, floor, legacy>>
    BY <1>6 DEF Activate
  <2>2. sessions'[t] = "absent" => sessions[t] = "absent"
    BY <1>6 DEF Activate, TypeOK
  <2> QED BY <1>4, <2>1, <2>2
<1>7. CASE /\ ~Entering /\ ~Ingesting
            /\ sessions' = sessions
  BY <1>4, <1>7, SourceTables
<1>8. CASE Tick \/ Beginning \/ Preparing \/ Reclaiming \/ UNCHANGED vars
  <2>1. sessions' = sessions
    <3>1. CASE Tick BY <3>1 DEF Tick
    <3>2. CASE Beginning BY <3>2 DEF Beginning, Begin
    <3>3. CASE Preparing BY <3>3, PreparingKeeps
    <3>4. CASE Reclaiming BY <3>4 DEF Reclaiming, Reclaim
    <3>5. CASE UNCHANGED vars BY <3>5 DEF vars
    <3> QED BY <1>8, <3>1, <3>2, <3>3, <3>4, <3>5
  <2>2. ~Entering /\ ~Ingesting => Settled(t)'
    BY <1>7, <2>1
  <2> HIDE DEF Settled
  <2> QED BY <1>1, <1>2, <1>3, <2>2 DEF Entering, Ingesting
<1> HIDE DEF Settled
<1> QED BY <1>1, <1>2, <1>3, <1>5, <1>6, <1>8, StepCases DEF Entering, Ingesting, Deleting

\* Every Session with a reservation has its source row, and a source row ends
\* legacy ingestion (reserveSource, AdoptLegacy, ApplyBatch).
THEOREM SourcesCorrect == Spec => []Sources
<1>1. TypeOK /\ Sources /\ [Next]_vars => Sources'
  BY SourceBoundNext, LegacySettledNext DEF Sources
<1> QED BY <1>1, SourcesInit, TypeCorrect, PTL DEF Spec

-----------------------------------------------------------------------------
(* Targets                                                                 *)
(*                                                                         *)
(* What is known of the parts of an attempt that cleanup may not touch: a  *)
(* live one or the selected head.                                          *)

Intact(i) == Live(i) \/ (attempts[i].state = "activated" /\ head[SessionOf(i)] = i)

DerivedParts(i) == PartsOf(i) \ WireParts(i)
WireMembers(i) == UNION {p.members : p \in WireParts(i)}
Copied(i) == UNION {p.members : p \in DerivedParts(i)}

\* An upload: numbered wire parts, none of them normalized.
Uploading(i) ==
  /\ attempts[i].seal = <<>> /\ attempts[i].validated = 0
  /\ \A p \in PartsOf(i) : ~p.derived /\ ~p.fixed /\ p.members = {}

\* A sealed target: its wire parts are the manifest, the ones before the
\* cursor are normalized and carry the members of their bodies.
Normalized(i) ==
  LET a == attempts[i] IN
  /\ a.seal \in Manifests
  /\ ManifestMatches(i, a.seal)
  /\ a.validated <= Len(a.seal)
  /\ \A p \in WireParts(i) :
       /\ p.fixed <=> p.ordinal < a.validated
       /\ p.members = IF p.fixed THEN p.body.members ELSE {}
       /\ p.fixed => KeysOf(p.members) \cap Retain(i) = {}
  /\ DerivedParts(i) # {} => a.validated = Len(a.seal)

\* The declared count, and the floor of an adopted source.
Counted(i) ==
  /\ IsFiniteSet(WireMembers(i))
  /\ attempts[i].validated = Len(attempts[i].seal) =>
       Cardinality(WireMembers(i)) = attempts[i].seal[1].header.declares
Floored(i) ==
  adopted[SessionOf(i)] => \A m \in WireMembers(i) : m.rev > floor[SessionOf(i)]

\* The inherited Threads: copied from what readers see, all of them in the end.
Inherited(i) ==
  LET a == attempts[i] IN
  /\ a.state \in {"validated", "activated"} => a.validated = Len(a.seal)
  /\ a.state \in {"sealed", "validating"} => Copied(i) \subseteq Baseline(i)
  /\ a.state = "validated" => /\ Retain(i) \subseteq KeysOf(Visible(SessionOf(i)))
                             /\ Copied(i) = Baseline(i)
  /\ a.state = "activated" => KeysOf(Copied(i)) = Retain(i)

Distinct(i) == \A p, q \in WireParts(i) : p.ordinal = q.ordinal => p = q

Prepared(i) == Normalized(i) /\ Counted(i) /\ Floored(i) /\ Inherited(i)
Target(i) ==
  /\ Distinct(i)
  /\ IF attempts[i].state = "open" THEN Uploading(i) ELSE Prepared(i)

TargetsOK == \A i \in Ids : Intact(i) => Target(i)

\* The invariants of the rows that the proofs about targets rest on.
Ground == TypeOK /\ Authority /\ LedgerInv /\ Sources

\* The four invariants of rows hold together.
LEMMA GroundAlways == Spec => []Ground
<1>1. Init => LedgerInv
  BY LedgerInit
<1>2. TypeOK /\ Authority /\ LedgerInv /\ [Next]_vars => LedgerInv'
  BY LedgerNext
<1> QED BY <1>1, <1>2, TypeCorrect, AuthorityInvariant, SourcesCorrect, PTL DEF Spec, Ground

\* An intact attempt is begun, and its Session has a source row.
LEMMA IntactMeans ==
  ASSUME Ground, NEW k \in Ids, Intact(k)
  PROVE  /\ Begun(k) /\ Reserved(k) /\ SessionOf(k) \in Sessions
         /\ origin[SessionOf(k)] # Null
         /\ attempts[k].state \in LiveStates \cup {"activated"}
<1>1. attempts[k].state \in LiveStates \cup {"activated"}
  BY LiveMeans DEF Intact, Ground
<1>2. Begun(k)
  BY <1>1 DEF Begun, LiveStates
<1>3. Reserved(k) /\ SessionOf(k) \in Sessions
  BY <1>2 DEF Ground, Authority, RowsKnown, Reserved, SessionOf, TypeOK, ReservationRow
<1> QED BY <1>1, <1>2, <1>3 DEF Ground, Sources, SourceBound

\* Only an activation moves a head, to the attempt it activates.
LEMMA HeadMoves ==
  ASSUME [Next]_vars, \A i \in Ids : ~Activate(i)
  PROVE  head' = head
<1>1. CASE Tick BY <1>1 DEF Tick
<1>2. CASE Entering BY <1>2 DEF Entering, Reserve, AdoptLegacy
<1>3. CASE Beginning BY <1>3 DEF Beginning, Begin
<1>4. CASE Preparing BY <1>4, PreparingKeeps
<1>5. CASE Reclaiming BY <1>5 DEF Reclaiming, Reclaim
<1>6. CASE Deleting BY <1>6 DEF Deleting, DeleteSession
<1>7. CASE Ingesting BY <1>7 DEF Ingesting, LegacyApply
<1>8. CASE UNCHANGED vars BY <1>8 DEF vars
<1> QED BY <1>1, <1>2, <1>3, <1>4, <1>5, <1>6, <1>7, <1>8, StepCases

\* Only an activation of an attempt makes its row activated.
LEMMA OnlyActivate ==
  ASSUME TypeOK, [Next]_vars, NEW k \in Ids, attempts'[k].state = "activated", ~Activate(k)
  PROVE  attempts[k].state = "activated"
<1> DEFINE Was == attempts[k].state = "activated"
<1> SUFFICES Was
  OBVIOUS
<1>1. CASE attempts' = attempts
  BY <1>1
<1>2. ASSUME NEW i \in Ids, NEW c \in Captures, NEW b \in Ids \cup {Null}, Begin(i, c, b)
      PROVE  Was
  BY <1>2 DEF Begin, TypeOK, NoAttempt
<1>3. ASSUME NEW i \in Ids, NEW m \in Manifests, Seal(i, m)
      PROVE  Was
  BY <1>3 DEF Seal, TypeOK, AttemptRow
<1>4. ASSUME NEW i \in Ids, NEW p \in PartsOf(i), ValidatePart(i, p)
      PROVE  Was
  BY <1>4 DEF ValidatePart, TypeOK, AttemptRow
<1>5. ASSUME NEW i \in Ids, NEW done \in BOOLEAN, NEW chunk \in SUBSET Remaining(i),
             ValidateRetention(i, chunk, done)
      PROVE  Was
  BY <1>5 DEF ValidateRetention, TypeOK, AttemptRow
<1>6. ASSUME NEW i \in Ids, Renew(i) \/ Reject(i)
      PROVE  Was
  <2>1. CASE Renew(i) BY <2>1 DEF Renew, TypeOK, AttemptRow
  <2>2. CASE Reject(i) BY <2>2 DEF Reject, TypeOK, AttemptRow
  <2> QED BY <1>6, <2>1, <2>2
<1>7. ASSUME NEW i \in Ids, Activate(i)
      PROVE  Was
  BY <1>7 DEF Activate, TypeOK, AttemptRow
<1>8. CASE Reclaiming
  BY <1>8 DEF Reclaiming, Reclaim, NoAttempt
<1>9. ASSUME NEW i \in Ids, Uploads(i) PROVE Was
  BY <1>1, <1>9 DEF Uploads, Put
<1>10. CASE Tick \/ Entering \/ Deleting \/ Ingesting \/ UNCHANGED vars
  <2>1. attempts' = attempts
    BY <1>10 DEF Tick, Entering, Reserve, AdoptLegacy, Deleting, DeleteSession, Ingesting, LegacyApply, vars
  <2> QED BY <1>1, <2>1
<1> HIDE DEF Was
<1> QED BY <1>2, <1>3, <1>4, <1>5, <1>6, <1>7, <1>8, <1>9, <1>10, StepCases
           DEF Beginning, Preparing, Sealing, Validating

\* An attempt is intact after a step only if it was, or has just begun.
LEMMA IntactWas ==
  ASSUME Ground, TypeOK', [Next]_vars, NEW k \in Ids, Intact(k)', Begun(k), ~Activate(k)
  PROVE  Intact(k)
<1>1. CASE Live(k)'
  BY <1>1, NeverRevived DEF Ground, Intact
<1>2. CASE ~Live(k)'
  <2>1. attempts'[k].state = "activated" /\ head'[reservations'[k].session] = k
    BY <1>2 DEF Intact, SessionOf
  <2>2. attempts[k].state = "activated"
    BY <2>1, OnlyActivate DEF Ground
  <2>3. reservations'[k] = reservations[k]
    BY <2>2, ReceiptKept DEF Ground
  <2>4. SessionOf(k) \in Sessions
    BY DEF Ground, Authority, RowsKnown, Reserved, SessionOf, TypeOK, ReservationRow
  <2>5. head'[SessionOf(k)] = k
    BY <2>1, <2>3 DEF SessionOf
  <2>6. head[SessionOf(k)] = k
    <3>1. ASSUME NEW i \in Ids, Activate(i) PROVE head[SessionOf(k)] = k
      <4>1. i # k
        BY <3>1
      <4> QED BY <2>4, <2>5, <3>1, <4>1 DEF Activate, Ground, TypeOK
    <3>2. CASE \A i \in Ids : ~Activate(i)
      BY <2>5, <3>2, HeadMoves
    <3> QED BY <3>1, <3>2
  <2> QED BY <2>2, <2>6 DEF Intact
<1> QED BY <1>1, <1>2

\* What readers see of a source changes only when its head moves.
LEMMA VisibleKept ==
  ASSUME Ground, [Next]_vars, NEW s \in Sessions, origin[s] # Null, head'[s] = head[s]
  PROVE  Visible(s)' = Visible(s)
<1>1. CASE head[s] = Null
  BY <1>1, SourceKept DEF Visible, Ground
<1>2. CASE head[s] # Null
  <2>1. PICK h \in Ids : head[s] = h
    BY <1>2 DEF Ground, TypeOK
  <2>2. PartsOf(h)' = PartsOf(h)
    BY <2>1, HeadPartsKept DEF Ground
  <2> QED BY <1>2, <2>1, <2>2 DEF Visible
<1> QED BY <1>1, <1>2

\* A step that leaves an attempt's row, parts and head alone leaves what is
\* known of its target.
Untouched(k) ==
  /\ attempts'[k].state = attempts[k].state /\ attempts'[k].seal = attempts[k].seal
  /\ attempts'[k].validated = attempts[k].validated
  /\ reservations'[k] = reservations[k]
  /\ PartsOf(k)' = PartsOf(k)
  /\ head'[SessionOf(k)] = head[SessionOf(k)]

LEMMA TargetFrame ==
  ASSUME Ground, [Next]_vars, NEW k \in Ids, Intact(k), Target(k), Untouched(k)
  PROVE  Target(k)'
<1>1. SessionOf(k) \in Sessions /\ origin[SessionOf(k)] # Null
  BY IntactMeans
<1>2. SessionOf(k)' = SessionOf(k)
  BY DEF Untouched, SessionOf
<1>3. /\ WireParts(k)' = WireParts(k) /\ DerivedParts(k)' = DerivedParts(k)
      /\ PartsOf(k)' = PartsOf(k)
  BY DEF Untouched, WireParts, DerivedParts
<1>4. WireMembers(k)' = WireMembers(k) /\ Copied(k)' = Copied(k)
  BY <1>3 DEF WireMembers, Copied
<1>5. Visible(SessionOf(k))' = Visible(SessionOf(k))
  <2>1. \A s \in Sessions : s = SessionOf(k) => Visible(s)' = Visible(s)
    BY <1>1, VisibleKept DEF Untouched
  <2> QED BY <1>1, <1>2, <2>1 DEF Visible
<1>6. /\ adopted'[SessionOf(k)] = adopted[SessionOf(k)]
      /\ floor'[SessionOf(k)] = floor[SessionOf(k)]
  BY <1>1, SourceKept DEF Ground
<1>7. Retain(k)' = Retain(k)
  BY DEF Untouched, Retain
<1>8. Baseline(k)' = Baseline(k)
  BY <1>5, <1>7 DEF Baseline
<1>9. Distinct(k)'
  BY <1>3 DEF Distinct, Target
<1>10. CASE attempts[k].state = "open"
  <2>1. Uploading(k)'
    BY <1>3, <1>10 DEF Target, Uploading, Untouched
  <2> QED BY <1>9, <1>10, <2>1 DEF Target, Untouched
<1>11. CASE attempts[k].state # "open"
  <2>0. Prepared(k)
    BY <1>11 DEF Target
  <2>1. Normalized(k)'
    BY <1>3, <1>7, <2>0 DEF Prepared, Normalized, ManifestMatches, Untouched
  <2>2. Counted(k)'
    BY <1>4, <2>0 DEF Prepared, Counted, Untouched
  <2>3. Floored(k)'
    BY <1>2, <1>4, <1>6, <2>0 DEF Prepared, Floored
  <2>4. Inherited(k)'
    BY <1>2, <1>4, <1>5, <1>7, <1>8, <2>0 DEF Prepared, Inherited, Untouched
  <2> QED BY <1>9, <1>11, <2>1, <2>2, <2>3, <2>4 DEF Target, Untouched, Prepared
<1> QED BY <1>10, <1>11

-----------------------------------------------------------------------------
(* The steps that write an attempt's target                                *)

\* A manifest is a non-empty sequence of bodies.
LEMMA ManifestShape ==
  ASSUME NEW m \in Manifests
  PROVE  /\ Len(m) \in Nat /\ Len(m) >= 1 /\ DOMAIN m = 1..Len(m) /\ m # <<>>
         /\ \A k \in 1..Len(m) : m[k] \in Bodies
         /\ m[1] \in Bodies
<1>1. PICK n \in 1..PartLimit : m \in [1..n -> Bodies]
  BY DEF Manifests
<1>2. n \in Nat /\ n >= 1
  BY <1>1, ConstantsAssumption
<1>3. Len(m) = n /\ m \in Seq(Bodies)
  BY <1>1, <1>2
<1> QED BY <1>1, <1>2, <1>3

\* The wire parts of a sealed target are numbered within its manifest and
\* carry its bodies, one for each.
LEMMA ManifestOrdinals ==
  ASSUME NEW i, NEW m \in Manifests, ManifestMatches(i, m)
  PROVE  /\ \A p \in WireParts(i) : /\ p.ordinal \in Nat /\ p.ordinal < Len(m)
                                    /\ p.body = m[p.ordinal + 1]
         /\ \A k \in 1..Len(m) : \E p \in WireParts(i) : p.body = m[k]
<1>0. Len(m) \in Nat /\ DOMAIN m = 1..Len(m)
  BY ManifestShape
<1>1. ASSUME NEW p \in WireParts(i)
      PROVE  p.ordinal \in Nat /\ p.ordinal < Len(m) /\ p.body = m[p.ordinal + 1]
  <2>1. <<p.ordinal, p.body>> \in {<<k - 1, m[k]>> : k \in DOMAIN m}
    BY DEF ManifestMatches
  <2>2. PICK k \in 1..Len(m) : p.ordinal = k - 1 /\ p.body = m[k]
    BY <1>0, <2>1
  <2> QED BY <1>0, <2>2
<1>2. ASSUME NEW k \in 1..Len(m)
      PROVE  \E p \in WireParts(i) : p.body = m[k]
  <2>1. <<k - 1, m[k]>> \in {<<p.ordinal, p.body>> : p \in WireParts(i)}
    BY <1>0 DEF ManifestMatches
  <2> QED BY <2>1
<1> QED BY <1>1, <1>2

\* A begun attempt has no parts yet.
LEMMA BeginTarget ==
  ASSUME Ground, NEW i \in Ids, NEW c, NEW b, Begin(i, c, b)
  PROVE  Target(i)'
<1>1. PartsOf(i)' = {}
  BY DEF Begin, PartsOf, Ground, LedgerInv, PartsBegun
<1>2. /\ attempts'[i].state = "open" /\ attempts'[i].seal = <<>>
      /\ attempts'[i].validated = 0
  BY DEF Begin, Ground, TypeOK, NoAttempt
<1> QED BY <1>1, <1>2 DEF Target, Distinct, Uploading, WireParts

\* Put adds a wire part at an ordinal that had none, or changes nothing.
LEMMA PutTarget ==
  ASSUME Ground, NEW i \in Ids, NEW n, NEW b, Put(i, n, b), Target(i)
  PROVE  Target(i)'
<1> DEFINE w == WirePart(i, n, b)
<1>1. /\ w.attempt = i /\ w.ordinal = n /\ ~w.derived /\ ~w.fixed /\ w.members = {}
  BY DEF WirePart
<1>2. attempts' = attempts /\ attempts[i].state = "open" /\ parts' = parts \cup {w}
      /\ \A p \in PartsOf(i) : p.ordinal # n
  BY DEF Put
<1> HIDE DEF w
<1>3. PartsOf(i)' = PartsOf(i) \cup {w} /\ WireParts(i)' = WireParts(i) \cup {w}
  BY <1>1, <1>2 DEF PartsOf, WireParts
<1>4. Distinct(i)'
  BY <1>1, <1>2, <1>3 DEF Target, Distinct, WireParts
<1>5. Uploading(i)'
  BY <1>1, <1>2, <1>3 DEF Target, Uploading
<1> QED BY <1>2, <1>4, <1>5 DEF Target

\* Seal accepts a manifest only if the uploaded parts are exactly its bodies.
LEMMA SealTarget ==
  ASSUME Ground, NEW i \in Ids, NEW m \in Manifests, Seal(i, m), Target(i)
  PROVE  Target(i)'
<1>1. attempts[i].state = "open"
  BY ManifestShape DEF Seal, Target, Prepared, Normalized
<1>2. Uploading(i) /\ Distinct(i)
  BY <1>1 DEF Target
<1>3. /\ attempts'[i].state = "sealed" /\ attempts'[i].seal = m
      /\ attempts'[i].validated = 0
  BY <1>2 DEF Seal, Ground, TypeOK, AttemptRow, Uploading
<1>4. /\ PartsOf(i)' = PartsOf(i) /\ WireParts(i)' = WireParts(i)
      /\ DerivedParts(i)' = {} /\ WireParts(i) = PartsOf(i)
  BY <1>2 DEF Seal, PartsOf, WireParts, DerivedParts, Uploading
<1>5. WireMembers(i)' = {} /\ Copied(i)' = {}
  BY <1>2, <1>4 DEF WireMembers, Copied, Uploading
<1>6. /\ Len(m) \in Nat /\ Len(m) >= 1
      /\ \A p \in WireParts(i) : p.ordinal \in Nat
  BY ManifestShape, ManifestOrdinals DEF Seal
<1>7. Normalized(i)'
  <2>1. ManifestMatches(i, attempts[i].seal)'
    BY <1>3, <1>4 DEF Seal, ManifestMatches
  <2>2. ASSUME NEW p \in WireParts(i)'
        PROVE  /\ p.fixed <=> p.ordinal < 0
               /\ p.members = IF p.fixed THEN p.body.members ELSE {}
               /\ p.fixed => KeysOf(p.members) \cap Retain(i)' = {}
    <3>1. ~p.fixed /\ p.members = {} /\ p.ordinal \in Nat
      BY <1>2, <1>4, <1>6 DEF Uploading
    <3> QED BY <3>1
  <2> QED BY <1>3, <1>4, <1>6, <2>1, <2>2 DEF Normalized
<1>8. Counted(i)'
  BY <1>3, <1>5, <1>6, FS_EmptySet DEF Counted
<1>9. Floored(i)' /\ Inherited(i)'
  BY <1>3, <1>5 DEF Floored, Inherited
<1>10. Distinct(i)'
  BY <1>2, <1>4 DEF Distinct
<1> QED BY <1>3, <1>7, <1>8, <1>9, <1>10 DEF Target, Prepared

\* The next wire part in manifest order is normalized in place.
LEMMA ValidatePartTarget ==
  ASSUME Ground, NEW i \in Ids, NEW p \in PartsOf(i), ValidatePart(i, p), Target(i)
  PROVE  Target(i)'
<1> DEFINE a == attempts[i]
           b == p.body
           f == FixedPart(p)
<1>1. /\ a.state \in {"sealed", "validating"} /\ a.validated < Len(a.seal)
      /\ p.ordinal = a.validated /\ ~p.fixed
      /\ b.header = a.seal[1].header
      /\ KeysOf(b.members) \cap b.header.retain = {}
      /\ AboveFloor(SessionOf(i), b)
      /\ CountsAgree(i, b, a.validated + 1 = Len(a.seal))
      /\ KeysOf(b.members) \cap KeysOf(MembersOf(i)) = {}
      /\ parts' = (parts \ {p}) \cup {f}
      /\ reservations' = reservations /\ adopted' = adopted /\ floor' = floor
      /\ head' = head /\ legacy' = legacy
  BY DEF ValidatePart, Recordable
<1>2. Normalized(i) /\ Counted(i) /\ Floored(i) /\ Inherited(i) /\ Distinct(i)
  BY <1>1 DEF Target, Prepared
<1>3. /\ a \in AttemptRow /\ a.validated \in Nat /\ a.seal \in Manifests
      /\ Len(a.seal) \in Nat /\ Len(a.seal) >= 1 /\ a.seal[1] \in Bodies
  BY <1>2, ManifestShape DEF Ground, TypeOK, AttemptRow, Normalized
<1>4. p \in parts /\ p.attempt = i /\ ~p.derived /\ b \in Bodies
  BY <1>1 DEF PartsOf, Ground, TypeOK, PartOK
<1>5. /\ f.attempt = i /\ ~f.derived /\ f.fixed /\ f.ordinal = p.ordinal
      /\ f.body = b /\ f.members = b.members
  BY <1>4 DEF FixedPart
<1>6. /\ attempts'[i].seal = a.seal /\ attempts'[i].validated = a.validated + 1
      /\ attempts'[i].state = IF a.validated + 1 = Len(a.seal) /\ b.header.retain = {}
                                THEN "validated" ELSE "validating"
  BY <1>3 DEF ValidatePart, Ground, TypeOK, AttemptRow
<1>7. DerivedParts(i) = {}
  BY <1>1, <1>2, <1>3 DEF Normalized
<1> HIDE DEF a, b, f
<1>8. /\ PartsOf(i)' = (PartsOf(i) \ {p}) \cup {f}
      /\ WireParts(i)' = (WireParts(i) \ {p}) \cup {f}
      /\ DerivedParts(i)' = {} /\ p \in WireParts(i) /\ PartsOf(i) = WireParts(i)
  <2>1. PartsOf(i)' = (PartsOf(i) \ {p}) \cup {f}
    BY <1>1, <1>4, <1>5 DEF PartsOf
  <2>2. PartsOf(i) = WireParts(i)
    BY <1>7 DEF DerivedParts, WireParts
  <2>3. \A q \in PartsOf(i)' : ~q.derived
    BY <1>5, <2>1, <2>2 DEF WireParts
  <2>4. WireParts(i)' = PartsOf(i)' /\ DerivedParts(i)' = {}
    BY <2>3 DEF WireParts, DerivedParts
  <2> QED BY <2>1, <2>2, <2>4
<1>9. Distinct(i)'
  BY <1>2, <1>5, <1>8 DEF Distinct
<1>10. Retain(i)' = Retain(i) /\ Retain(i) = b.header.retain
  BY <1>1, <1>6 DEF Retain, a
<1>11. Normalized(i)'
  <2>1. ManifestMatches(i, attempts[i].seal)'
    <3>1. {<<q.ordinal, q.body>> : q \in WireParts(i)'} = {<<q.ordinal, q.body>> : q \in WireParts(i)}
      BY <1>5, <1>8 DEF b
    <3>2. ManifestMatches(i, a.seal)
      BY <1>2 DEF Normalized, a
    <3> QED BY <1>6, <3>1, <3>2 DEF ManifestMatches
  <2>2. \A q \in WireParts(i) : q.ordinal \in Nat
    BY <1>2, <1>3, ManifestOrdinals DEF Normalized, a
  <2>3. ASSUME NEW q \in WireParts(i)'
        PROVE  /\ q.fixed <=> q.ordinal < a.validated + 1
               /\ q.members = IF q.fixed THEN q.body.members ELSE {}
               /\ q.fixed => KeysOf(q.members) \cap Retain(i) = {}
    <3>1. CASE q = f
      BY <1>1, <1>3, <1>5, <1>10, <3>1
    <3>2. CASE q # f
      <4>1. q \in WireParts(i) /\ q # p
        BY <1>8, <3>2
      <4>2. q.ordinal # p.ordinal
        BY <1>2, <1>8, <4>1 DEF Distinct
      <4>3. /\ q.fixed <=> q.ordinal < a.validated
            /\ q.members = IF q.fixed THEN q.body.members ELSE {}
            /\ q.fixed => KeysOf(q.members) \cap Retain(i) = {}
        BY <1>2, <4>1 DEF Normalized, a
      <4> QED BY <1>1, <1>3, <2>2, <4>1, <4>2, <4>3
    <3> QED BY <3>1, <3>2
  <2>4. a.validated + 1 <= Len(a.seal)
    BY <1>1, <1>3
  <2> QED BY <1>3, <1>6, <1>8, <1>10, <2>1, <2>3, <2>4 DEF Normalized
<1>12. WireMembers(i)' = WireMembers(i) \cup b.members /\ p.members = {}
  <2>1. p.members = {}
    BY <1>1, <1>2, <1>8 DEF Normalized
  <2> QED BY <1>5, <1>8, <2>1 DEF WireMembers
<1>13. Counted(i)'
  <2>1. IsFiniteSet(WireMembers(i)) /\ IsFiniteSet(b.members)
    BY <1>2, <1>4, ConstantsAssumption DEF Counted
  <2>2. MembersOf(i) = WireMembers(i)
    BY <1>8 DEF MembersOf, WireMembers
  <2>3. WireMembers(i) \cap b.members = {}
    <3> SUFFICES ASSUME NEW m \in WireMembers(i), m \in b.members PROVE FALSE
      OBVIOUS
    <3>1. m.key \in KeysOf(b.members) /\ m.key \in KeysOf(WireMembers(i))
      BY DEF KeysOf
    <3> QED BY <1>1, <2>2, <3>1
  <2>4. /\ IsFiniteSet(WireMembers(i) \cup b.members)
        /\ Cardinality(WireMembers(i) \cup b.members) =
             Cardinality(WireMembers(i)) + Cardinality(b.members)
             - Cardinality(WireMembers(i) \cap b.members)
    BY <2>1, FS_Union
  <2>5. Cardinality(WireMembers(i) \cap b.members) = 0
    BY <2>3, FS_EmptySet
  <2>6. Cardinality(WireMembers(i)) \in Nat /\ Cardinality(b.members) \in Nat
    BY <2>1, FS_CardinalityType
  <2>7. Cardinality(WireMembers(i)') = Cardinality(WireMembers(i)) + Cardinality(b.members)
    BY <1>12, <2>4, <2>5, <2>6
  <2>8. a.validated + 1 = Len(a.seal) =>
          Cardinality(WireMembers(i)) + Cardinality(b.members) = a.seal[1].header.declares
    BY <1>1, <2>2 DEF CountsAgree
  <2> QED BY <1>6, <1>12, <2>4, <2>7, <2>8 DEF Counted
<1>14. Floored(i)'
  BY <1>1, <1>2, <1>12 DEF Floored, AboveFloor, SessionOf
<1>15. Inherited(i)'
  <2>1. Copied(i)' = {}
    BY <1>8 DEF Copied
  <2>2. b.header.retain = {} => Baseline(i)' = {}
    BY <1>10 DEF Baseline
  <2>3. CASE a.validated + 1 = Len(a.seal) /\ b.header.retain = {}
    BY <1>6, <1>10, <2>1, <2>2, <2>3 DEF Inherited
  <2>4. CASE ~(a.validated + 1 = Len(a.seal) /\ b.header.retain = {})
    BY <1>6, <2>1, <2>4 DEF Inherited
  <2> QED BY <2>3, <2>4
<1>16. attempts'[i].state # "open"
  BY <1>6
<1> QED BY <1>9, <1>11, <1>13, <1>14, <1>15, <1>16 DEF Target, Prepared

\* What a validation step of one attempt leaves of the head that readers see.
LEMMA ReadersKept ==
  ASSUME Ground, [Next]_vars, NEW i \in Ids, Intact(i), reservations' = reservations, head' = head
  PROVE  /\ SessionOf(i)' = SessionOf(i)
         /\ Visible(SessionOf(i))' = Visible(SessionOf(i))
<1>1. SessionOf(i) \in Sessions /\ origin[SessionOf(i)] # Null
  BY IntactMeans
<1>2. SessionOf(i)' = SessionOf(i)
  BY DEF SessionOf
<1>3. \A s \in Sessions : s = SessionOf(i) => Visible(s)' = Visible(s)
  BY <1>1, VisibleKept
<1> QED BY <1>1, <1>2, <1>3 DEF Visible

\* A chunk of the inherited records is copied into a derived part.
LEMMA ValidateRetentionTarget ==
  ASSUME Ground, [Next]_vars, NEW i \in Ids, NEW done \in BOOLEAN,
         NEW chunk \in SUBSET Remaining(i), ValidateRetention(i, chunk, done), Intact(i), Target(i)
  PROVE  Target(i)'
<1> DEFINE a == attempts[i]
           d == DerivedPart(i, chunk)
<1>1. /\ a.state = "validating" /\ a.validated = Len(a.seal)
      /\ Retain(i) \subseteq KeysOf(Visible(SessionOf(i)))
      /\ done => chunk = Remaining(i)
      /\ reservations' = reservations /\ adopted' = adopted /\ floor' = floor /\ head' = head
      /\ IF chunk = {} THEN parts' = parts ELSE parts' = parts \cup {d}
  BY DEF ValidateRetention
<1>2. Normalized(i) /\ Counted(i) /\ Floored(i) /\ Inherited(i) /\ Distinct(i)
  BY <1>1 DEF Target, Prepared
<1>3. /\ attempts'[i].seal = a.seal /\ attempts'[i].validated = a.validated
      /\ attempts'[i].state = IF done THEN "validated" ELSE "validating"
  BY DEF ValidateRetention, Ground, TypeOK, AttemptRow
<1>4. d.attempt = i /\ d.derived /\ d.members = chunk
  BY DEF DerivedPart
<1> HIDE DEF a, d
<1>5. WireParts(i)' = WireParts(i)
  BY <1>1, <1>4 DEF WireParts, PartsOf
<1>6. Copied(i)' = Copied(i) \cup chunk
  <2>1. CASE chunk = {}
    <3>1. DerivedParts(i)' = DerivedParts(i)
      BY <1>1, <2>1 DEF DerivedParts, WireParts, PartsOf
    <3> QED BY <2>1, <3>1 DEF Copied
  <2>2. CASE chunk # {}
    <3>1. DerivedParts(i)' = DerivedParts(i) \cup {d}
      BY <1>1, <1>4, <2>2 DEF DerivedParts, WireParts, PartsOf
    <3> QED BY <1>4, <3>1 DEF Copied
  <2> QED BY <2>1, <2>2
<1>7. WireMembers(i)' = WireMembers(i)
  BY <1>5 DEF WireMembers
<1>8. SessionOf(i)' = SessionOf(i) /\ Visible(SessionOf(i))' = Visible(SessionOf(i))
  BY <1>1, ReadersKept
<1>9. Retain(i)' = Retain(i) /\ Baseline(i)' = Baseline(i)
  <2>1. Retain(i)' = Retain(i)
    BY <1>3 DEF Retain, a
  <2> QED BY <1>8, <2>1 DEF Baseline
<1>10. Distinct(i)'
  BY <1>2, <1>5 DEF Distinct
<1>11. Normalized(i)'
  <2>1. ManifestMatches(i, attempts[i].seal)'
    BY <1>2, <1>3, <1>5 DEF Normalized, ManifestMatches, a
  <2> QED BY <1>1, <1>2, <1>3, <1>5, <1>9, <2>1 DEF Normalized, a
<1>12. Counted(i)'
  BY <1>2, <1>3, <1>7 DEF Counted, a
<1>13. Floored(i)'
  BY <1>1, <1>2, <1>7, <1>8 DEF Floored
<1>14. Copied(i)' \subseteq Baseline(i)
  <2>1. Copied(i) \subseteq Baseline(i)
    BY <1>1, <1>2 DEF Inherited, a
  <2> QED BY <1>6, <2>1 DEF Remaining
<1>15. done => Baseline(i) \subseteq Copied(i)'
  <2> SUFFICES ASSUME done, NEW m \in Baseline(i) PROVE m \in Copied(i) \cup chunk
    BY <1>6
  <2>1. CASE m \in WireMembers(i)
    <3>1. PICK p \in WireParts(i) : m \in p.members
      BY <2>1 DEF WireMembers
    <3>2. KeysOf(p.members) \cap Retain(i) = {}
      BY <1>2, <3>1 DEF Normalized
    <3>3. m.key \in KeysOf(p.members) /\ m.key \in Retain(i)
      BY <3>1 DEF KeysOf, Baseline
    <3> QED BY <3>2, <3>3
  <2>2. CASE m \notin WireMembers(i)
    <3>1. m \in Copied(i) \/ m \notin MembersOf(i)
      BY <2>2 DEF Copied, WireMembers, MembersOf, DerivedParts
    <3> QED BY <1>1, <3>1 DEF Remaining
  <2> QED BY <2>1, <2>2
<1>16. Inherited(i)'
  <2>1. CASE done
    <3>1. Copied(i)' = Baseline(i)'
      BY <1>9, <1>14, <1>15, <2>1
    <3>2. Retain(i)' \subseteq KeysOf(Visible(SessionOf(i)))'
      BY <1>1, <1>8, <1>9 DEF KeysOf
    <3> QED BY <1>1, <1>3, <2>1, <3>1, <3>2 DEF Inherited, a
  <2>2. CASE ~done
    BY <1>3, <1>9, <1>14, <2>2 DEF Inherited
  <2> QED BY <2>1, <2>2
<1>17. attempts'[i].state # "open"
  BY <1>3
<1> QED BY <1>10, <1>11, <1>12, <1>13, <1>16, <1>17 DEF Target, Prepared

\* Activation selects a target whose inherited Threads are all there.
LEMMA ActivateTarget ==
  ASSUME Ground, NEW i \in Ids, Activate(i), Target(i)
  PROVE  Target(i)'
<1>1. /\ attempts[i].state = "validated"
      /\ reservations' = reservations /\ adopted' = adopted /\ floor' = floor /\ parts' = parts
  BY DEF Activate
<1>2. Normalized(i) /\ Counted(i) /\ Floored(i) /\ Inherited(i) /\ Distinct(i)
  BY <1>1 DEF Target, Prepared
<1>3. /\ attempts'[i].seal = attempts[i].seal /\ attempts'[i].validated = attempts[i].validated
      /\ attempts'[i].state = "activated"
  BY DEF Activate, Ground, TypeOK, AttemptRow
<1>4. /\ WireParts(i)' = WireParts(i) /\ DerivedParts(i)' = DerivedParts(i)
      /\ SessionOf(i)' = SessionOf(i) /\ Retain(i)' = Retain(i)
  BY <1>1, <1>3 DEF WireParts, DerivedParts, PartsOf, SessionOf, Retain
<1>5. WireMembers(i)' = WireMembers(i) /\ Copied(i)' = Copied(i)
  BY <1>4 DEF WireMembers, Copied
<1>6. Normalized(i)'
  <2>1. ManifestMatches(i, attempts[i].seal)'
    BY <1>2, <1>3, <1>4 DEF Normalized, ManifestMatches
  <2> QED BY <1>2, <1>3, <1>4, <2>1 DEF Normalized
<1>7. Counted(i)' /\ Floored(i)' /\ Distinct(i)'
  BY <1>1, <1>2, <1>3, <1>4, <1>5 DEF Counted, Floored, Distinct
<1>8. KeysOf(Copied(i)) = Retain(i)
  <2>1. Copied(i) = Baseline(i) /\ Retain(i) \subseteq KeysOf(Visible(SessionOf(i)))
    BY <1>1, <1>2 DEF Inherited
  <2>2. ASSUME NEW k \in Retain(i) PROVE k \in KeysOf(Baseline(i))
    <3>1. PICK m \in Visible(SessionOf(i)) : m.key = k
      BY <2>1 DEF KeysOf
    <3>2. m \in Baseline(i)
      BY <3>1 DEF Baseline
    <3> QED BY <3>1, <3>2 DEF KeysOf
  <2>3. KeysOf(Baseline(i)) \subseteq Retain(i)
    BY DEF KeysOf, Baseline
  <2> QED BY <2>1, <2>2, <2>3
<1>9. Inherited(i)'
  <2>1. KeysOf(Copied(i))' = Retain(i)'
    BY <1>4, <1>5, <1>8 DEF KeysOf
  <2>2. attempts[i].validated = Len(attempts[i].seal)
    BY <1>1, <1>2 DEF Inherited
  <2> QED BY <1>3, <2>1, <2>2 DEF Inherited
<1> QED BY <1>3, <1>6, <1>7, <1>9 DEF Target, Prepared

-----------------------------------------------------------------------------
(* The invariant on targets                                                *)

\* An attempt whose rows a step leaves alone keeps its target.
LEMMA KeptTarget ==
  ASSUME Ground, TypeOK', TargetsOK, [Next]_vars,
         NEW k \in Ids, Intact(k)', Begun(k), ~Activate(k), Untouched(k)
  PROVE  Target(k)'
<1>1. Intact(k)
  BY IntactWas
<1>2. Target(k)
  BY <1>1 DEF TargetsOK
<1> QED BY <1>1, <1>2, TargetFrame

\* A step that writes no attempt row and no part.
LEMMA IdleTarget ==
  ASSUME Ground, TypeOK', TargetsOK, [Next]_vars,
         Tick \/ Entering \/ Deleting \/ Ingesting \/ UNCHANGED vars,
         NEW k \in Ids, Intact(k)'
  PROVE  Target(k)'
<1>1. attempts' = attempts /\ parts' = parts /\ head' = head
  <2>1. CASE Tick BY <2>1 DEF Tick
  <2>2. CASE Entering BY <2>2 DEF Entering, Reserve, AdoptLegacy
  <2>3. CASE Deleting BY <2>3 DEF Deleting, DeleteSession
  <2>4. CASE Ingesting BY <2>4 DEF Ingesting, LegacyApply
  <2>5. CASE UNCHANGED vars BY <2>5 DEF vars
  <2> QED BY <2>1, <2>2, <2>3, <2>4, <2>5
<1>2. Begun(k)
  BY <1>1 DEF Intact, Live, EffectiveState, Begun, LiveStates
<1>3. reservations'[k] = reservations[k]
  <2>1. k \in issued
    BY <1>2 DEF Ground, Authority, RowsKnown
  <2>2. CASE Entering
    BY <2>1, <2>2 DEF Entering, Reserve, AdoptLegacy, IssueReservation, Ground, TypeOK
  <2>3. CASE Tick \/ Deleting \/ Ingesting \/ UNCHANGED vars
    BY <2>3 DEF Tick, Deleting, DeleteSession, Ingesting, LegacyApply, vars
  <2> QED BY <2>2, <2>3
<1>4. Untouched(k)
  BY <1>1, <1>3 DEF Untouched, PartsOf
<1>5. ~Activate(k)
  <2>1. Activate(k) => attempts' # attempts
    BY DEF Activate, Ground, TypeOK, AttemptRow
  <2> QED BY <1>1, <2>1
<1> QED BY <1>2, <1>4, <1>5, KeptTarget

\* A step on the row of another attempt.
LEMMA OtherTarget ==
  ASSUME Ground, TypeOK', TargetsOK, [Next]_vars, NEW k \in Ids, Intact(k)',
         attempts'[k] = attempts[k], reservations' = reservations, head' = head,
         PartsOf(k)' = PartsOf(k)
  PROVE  Target(k)'
<1>1. Begun(k)
  BY DEF Intact, Live, EffectiveState, Begun, LiveStates
<1>2. Untouched(k)
  BY DEF Untouched
<1>3. ~Activate(k)
  BY DEF Activate, Ground, TypeOK, AttemptRow
<1> QED BY <1>1, <1>2, <1>3, KeptTarget

\* Beginning an attempt disturbs no other.
LEMMA BeginningTarget ==
  ASSUME Ground, TypeOK', TargetsOK, [Next]_vars, NEW k \in Ids, Intact(k)', Beginning
  PROVE  Target(k)'
<1>1. PICK i \in Ids, c \in Captures, b \in Ids \cup {Null} : Begin(i, c, b)
  BY DEF Beginning
<1>2. CASE k = i
  BY <1>1, <1>2, BeginTarget
<1>3. CASE k # i
  <2>1. /\ attempts'[k] = attempts[k] /\ reservations' = reservations /\ head' = head
        /\ PartsOf(k)' = PartsOf(k)
    BY <1>1, <1>3 DEF Begin, Ground, TypeOK, PartsOf
  <2> QED BY <2>1, OtherTarget
<1> QED BY <1>2, <1>3

\* Put, Seal, Validate, Renew and Reject keep every target they may still use.
LEMMA PreparingTarget ==
  ASSUME Ground, TypeOK', TargetsOK, [Next]_vars, NEW k \in Ids, Intact(k)', Preparing
  PROVE  Target(k)'
<1>0. reservations' = reservations /\ head' = head
  BY PreparingKeeps
<1>1. ASSUME NEW i \in Ids, NEW n \in 0..(PartLimit - 1), NEW b \in Bodies, Put(i, n, b)
      PROVE  Target(k)'
  <2>1. CASE k = i
    <3>1. Intact(i)
      BY <1>1 DEF Put, Intact
    <3> QED BY <1>1, <2>1, <3>1, PutTarget DEF TargetsOK
  <2>2. CASE k # i
    <3>1. attempts'[k] = attempts[k] /\ PartsOf(k)' = PartsOf(k)
      BY <1>1, <2>2 DEF Put, PartsOf, WirePart
    <3> QED BY <1>0, <3>1, OtherTarget
  <2> QED BY <2>1, <2>2
<1>2. ASSUME NEW i \in Ids, NEW m \in Manifests, Seal(i, m)
      PROVE  Target(k)'
  <2>1. CASE k = i
    <3>1. Intact(i)
      BY <1>2 DEF Seal, Intact
    <3> QED BY <1>2, <2>1, <3>1, SealTarget DEF TargetsOK
  <2>2. CASE k # i
    <3>1. attempts'[k] = attempts[k] /\ PartsOf(k)' = PartsOf(k)
      BY <1>2, <2>2 DEF Seal, PartsOf, Ground, TypeOK
    <3> QED BY <1>0, <3>1, OtherTarget
  <2> QED BY <2>1, <2>2
<1>3. ASSUME NEW i \in Ids, NEW p \in PartsOf(i), ValidatePart(i, p)
      PROVE  Target(k)'
  <2>1. CASE k = i
    <3>1. Intact(i)
      BY <1>3 DEF ValidatePart, Intact
    <3> QED BY <1>3, <2>1, <3>1, ValidatePartTarget DEF TargetsOK
  <2>2. CASE k # i
    <3>1. attempts'[k] = attempts[k]
      BY <1>3, <2>2 DEF ValidatePart, Ground, TypeOK
    <3>2. PartsOf(k)' = PartsOf(k)
      BY <1>3, <2>2 DEF ValidatePart, PartsOf, FixedPart
    <3> QED BY <1>0, <3>1, <3>2, OtherTarget
  <2> QED BY <2>1, <2>2
<1>4. ASSUME NEW i \in Ids, NEW done \in BOOLEAN, NEW chunk \in SUBSET Remaining(i),
             ValidateRetention(i, chunk, done)
      PROVE  Target(k)'
  <2>1. CASE k = i
    <3>1. Intact(i)
      BY <1>4 DEF ValidateRetention, Intact
    <3> QED BY <1>4, <2>1, <3>1, ValidateRetentionTarget DEF TargetsOK
  <2>2. CASE k # i
    <3>1. attempts'[k] = attempts[k]
      BY <1>4, <2>2 DEF ValidateRetention, Ground, TypeOK
    <3>2. PartsOf(k)' = PartsOf(k)
      BY <1>4, <2>2 DEF ValidateRetention, PartsOf, DerivedPart
    <3> QED BY <1>0, <3>1, <3>2, OtherTarget
  <2> QED BY <2>1, <2>2
<1>5. ASSUME NEW i \in Ids, Renew(i)
      PROVE  Target(k)'
  <2>1. /\ attempts'[k].state = attempts[k].state /\ attempts'[k].seal = attempts[k].seal
        /\ attempts'[k].validated = attempts[k].validated
    BY <1>5 DEF Renew, Ground, TypeOK, AttemptRow
  <2>2. PartsOf(k)' = PartsOf(k)
    BY <1>5 DEF Renew, PartsOf
  <2>3. Begun(k)
    BY <2>1 DEF Intact, Live, EffectiveState, Begun, LiveStates
  <2>4. Untouched(k)
    BY <1>0, <2>1, <2>2 DEF Untouched
  <2>5. ~Activate(k)
    BY <2>1 DEF Activate, Ground, TypeOK, AttemptRow
  <2> QED BY <2>3, <2>4, <2>5, KeptTarget
<1>6. ASSUME NEW i \in Ids, Reject(i)
      PROVE  Target(k)'
  <2>1. CASE k = i
    <3>1. attempts'[k].state = "rejected"
      BY <1>6, <2>1 DEF Reject, Ground, TypeOK, AttemptRow
    <3> QED BY <3>1 DEF Intact, Live, EffectiveState, LiveStates
  <2>2. CASE k # i
    <3>1. attempts'[k] = attempts[k] /\ PartsOf(k)' = PartsOf(k)
      BY <1>6, <2>2 DEF Reject, PartsOf, Ground, TypeOK
    <3> QED BY <1>0, <3>1, OtherTarget
  <2> QED BY <2>1, <2>2
<1> QED BY <1>1, <1>2, <1>3, <1>4, <1>5, <1>6 DEF Preparing, Uploads, Sealing, Validating

\* The fence admits one writer: the others are no longer live when it activates.
LEMMA ActivationIsAlone ==
  ASSUME Ground, NEW i \in Ids, Live(i), NEW k \in Ids, k # i, SessionOf(k) = SessionOf(i),
         Live(k), Reserved(i)
  PROVE  FALSE
<1>1. Begun(i) /\ Begun(k)
  BY LiveMeans DEF Ground, Begun, LiveStates
<1>2. attempts[i].fence = fence[SessionOf(i)] /\ attempts[k].fence = fence[SessionOf(i)]
  BY LiveMeans DEF Ground, Superseded
<1> QED BY <1>1, <1>2 DEF Ground, Authority, FencesOwned

\* Activation turns the live target into the head; every rival loses its authority.
LEMMA ActivatingTarget ==
  ASSUME Ground, TypeOK', TargetsOK, [Next]_vars, NEW k \in Ids, Intact(k)',
         NEW i \in Ids, Activate(i)
  PROVE  Target(k)'
<1>1. Live(i) /\ Reserved(i) /\ Intact(i)
  BY DEF Activate, Access, Intact
<1>2. CASE k = i
  BY <1>1, <1>2, ActivateTarget DEF TargetsOK
<1>3. CASE k # i
  <2>1. attempts'[k] = attempts[k] /\ reservations' = reservations /\ PartsOf(k)' = PartsOf(k)
    BY <1>3 DEF Activate, PartsOf, Ground, TypeOK
  <2>2. Begun(k) /\ SessionOf(k)' = SessionOf(k)
    BY <2>1 DEF Intact, Live, EffectiveState, Begun, LiveStates, SessionOf
  <2>3. SessionOf(i) \in Sessions /\ SessionOf(k) \in Sessions
    BY <1>1, <2>2 DEF Ground, Authority, RowsKnown, Reserved, SessionOf, TypeOK, ReservationRow
  <2>4. SessionOf(k) # SessionOf(i)
    <3> SUFFICES ASSUME SessionOf(k) = SessionOf(i) PROVE FALSE
      OBVIOUS
    <3>1. ~Live(k)
      BY <1>1, <1>3, ActivationIsAlone
    <3>2. ~Live(k)'
      BY <2>2, <3>1, NeverRevived DEF Ground
    <3>3. head'[SessionOf(k)] = i
      BY <2>3 DEF Activate, Ground, TypeOK
    <3> QED BY <1>3, <2>2, <3>2, <3>3 DEF Intact
  <2>5. head'[SessionOf(k)] = head[SessionOf(k)]
    BY <2>3, <2>4 DEF Activate, Ground, TypeOK
  <2>6. ~Activate(k)
    BY <2>1 DEF Activate, Ground, TypeOK, AttemptRow
  <2>7. Untouched(k)
    BY <2>1, <2>5 DEF Untouched
  <2> QED BY <2>2, <2>6, <2>7, KeptTarget
<1> QED BY <1>2, <1>3

\* Cleanup takes no part of an intact attempt.
LEMMA IntactIsNotReclaimed ==
  ASSUME Ground, NEW k \in Ids, Intact(k), NEW R \in SUBSET Reclaimable, NEW p \in R
  PROVE  p.attempt # k
<1>1. EffectiveState(k) \in LiveStates \/ EffectiveState(k) = "activated"
  BY DEF Intact, Live, EffectiveState, LiveStates
<1>2. attempts[k].state = "activated" => head[SessionOf(k)] = k
  BY LiveMeans DEF Intact, Ground, LiveStates
<1> QED BY <1>1, <1>2 DEF Reclaimable, LiveStates

\* Cleanup takes no part of a live attempt or of the head.
LEMMA ReclaimingTarget ==
  ASSUME Ground, TypeOK', TargetsOK, [Next]_vars, NEW k \in Ids, Intact(k)', Reclaiming
  PROVE  Target(k)'
<1>1. PICK R \in SUBSET Reclaimable, D \in SUBSET Ids, limit \in 1..ReclaimLimit : Reclaim(R, D, limit)
  BY DEF Reclaiming
<1>2. k \notin D
  <2>1. k \in D => attempts'[k].state = "none"
    BY <1>1 DEF Reclaim, NoAttempt
  <2> QED BY <2>1 DEF Intact, Live, EffectiveState, LiveStates
<1>3. attempts'[k] = attempts[k] /\ reservations'[k] = reservations[k] /\ head' = head
  BY <1>1, <1>2 DEF Reclaim
<1>4. Begun(k) /\ ~Activate(k)
  <2>1. Begun(k)
    BY <1>3 DEF Intact, Live, EffectiveState, Begun, LiveStates
  <2>2. ~Activate(k)
    BY <1>3 DEF Activate, Ground, TypeOK, AttemptRow
  <2> QED BY <2>1, <2>2
<1>5. Intact(k)
  BY <1>4, IntactWas
<1>6. PartsOf(k)' = PartsOf(k)
  <2>1. \A p \in R : p.attempt # k
    BY <1>5, IntactIsNotReclaimed
  <2> QED BY <1>1, <1>2, <2>1 DEF Reclaim, PartsOf
<1>7. Untouched(k)
  BY <1>3, <1>6 DEF Untouched
<1> QED BY <1>4, <1>7, KeptTarget

\* Every step keeps the targets of the intact attempts.
LEMMA TargetsNext == Ground /\ TypeOK' /\ TargetsOK /\ [Next]_vars => TargetsOK'
<1> SUFFICES ASSUME Ground, TypeOK', TargetsOK, [Next]_vars, NEW k \in Ids, Intact(k)'
             PROVE  Target(k)'
  BY DEF TargetsOK
<1> QED BY StepCases, IdleTarget, BeginningTarget, PreparingTarget, ActivatingTarget, ReclaimingTarget

\* The empty store has no target.
LEMMA TargetsInit == Init => TargetsOK
BY DEF Init, TargetsOK, Intact, Live, EffectiveState, NoAttempt, LiveStates

\* Every target that cleanup may not touch is as its state says.
LEMMA TargetsAlways == Spec => [](Ground /\ TargetsOK)
<1>1. Ground => TypeOK
  BY DEF Ground
<1> QED BY <1>1, TargetsInit, TargetsNext, GroundAlways, PTL DEF Spec

\* A target whose wire parts are all normalized holds what its manifest says.
LEMMA ExplicitMembers ==
  ASSUME Ground, NEW i \in Ids, Prepared(i), attempts[i].validated = Len(attempts[i].seal)
  PROVE  /\ \A p \in PartsOf(i) : p.fixed
         /\ WireMembers(i) = Explicit(i)
<1> DEFINE m == attempts[i].seal
<1>1. m \in Manifests /\ ManifestMatches(i, m)
  BY DEF Prepared, Normalized
<1>2. Len(m) \in Nat /\ DOMAIN m = 1..Len(m)
  BY <1>1, ManifestShape
<1>3. \A p \in WireParts(i) : p.ordinal \in Nat /\ p.ordinal < Len(m) /\ p.body = m[p.ordinal + 1]
  BY <1>1, ManifestOrdinals
<1>4. \A p \in WireParts(i) : p.fixed /\ p.members = p.body.members
  BY <1>3 DEF Prepared, Normalized
<1>5. \A p \in PartsOf(i) : p.fixed
  <2>1. \A p \in PartsOf(i) : p.derived => p.fixed
    BY DEF PartsOf, Ground, TypeOK, PartOK
  <2> QED BY <1>4, <2>1 DEF WireParts
<1>6. \A x \in WireMembers(i) : x \in Explicit(i)
  <2> SUFFICES ASSUME NEW p \in WireParts(i), NEW x \in p.members PROVE x \in Explicit(i)
    BY DEF WireMembers
  <2>1. p.ordinal + 1 \in DOMAIN m /\ x \in m[p.ordinal + 1].members
    BY <1>2, <1>3, <1>4
  <2> QED BY <2>1 DEF Explicit
<1>7. \A x \in Explicit(i) : x \in WireMembers(i)
  <2> SUFFICES ASSUME NEW k \in DOMAIN m, NEW x \in m[k].members PROVE x \in WireMembers(i)
    BY DEF Explicit
  <2>1. PICK p \in WireParts(i) : p.body = m[k]
    BY <1>1, <1>2, ManifestOrdinals
  <2> QED BY <1>4, <2>1 DEF WireMembers
<1> QED BY <1>5, <1>6, <1>7

\* The selected head is complete after every operation, crash of a client and
\* batch of cleanup (Validate, Activate, Reclaim).
THEOREM HeadIsComplete == Spec => []HeadComplete
<1>1. Ground /\ TargetsOK => HeadComplete
  <2> SUFFICES ASSUME Ground, TargetsOK, NEW s \in Sessions, head[s] # Null
               PROVE  LET h == head[s] IN
                      /\ ManifestMatches(h, attempts[h].seal)
                      /\ \A p \in PartsOf(h) : p.fixed
                      /\ KeysOf(MembersOf(h)) = KeysOf(Explicit(h)) \cup Retain(h)
                      /\ Cardinality(Explicit(h)) = attempts[h].seal[1].header.declares
    BY DEF HeadComplete
  <2>1. PICK h \in Ids : h = head[s] /\ h \in Activated(s)
    BY DEF Ground, Authority, LinearHistory, TypeOK
  <2>2. attempts[h].state = "activated" /\ Intact(h)
    BY <2>1 DEF Activated, Intact
  <2>3. Prepared(h)
    BY <2>2 DEF TargetsOK, Target
  <2>4. /\ attempts[h].validated = Len(attempts[h].seal) /\ KeysOf(Copied(h)) = Retain(h)
        /\ ManifestMatches(h, attempts[h].seal)
        /\ Cardinality(WireMembers(h)) = attempts[h].seal[1].header.declares
    BY <2>2, <2>3 DEF Prepared, Inherited, Normalized, Counted
  <2>5. (\A p \in PartsOf(h) : p.fixed) /\ WireMembers(h) = Explicit(h)
    BY <2>3, <2>4, ExplicitMembers
  <2>6. MembersOf(h) = WireMembers(h) \cup Copied(h)
    BY DEF MembersOf, WireMembers, Copied, DerivedParts, WireParts
  <2>7. KeysOf(MembersOf(h)) = KeysOf(WireMembers(h)) \cup KeysOf(Copied(h))
    BY <2>6 DEF KeysOf
  <2> QED BY <2>1, <2>4, <2>5, <2>7
<1> QED BY <1>1, TargetsAlways, PTL

-----------------------------------------------------------------------------
(* What readers see                                                        *)

\* An activation shows readers exactly the explicit records of the manifest
\* and, of the inherited Threads, what they saw the moment before.
LEMMA ActivationShows ==
  ASSUME Ground, TargetsOK, NEW i \in Ids, Activate(i), NEW s \in Sessions, SessionOf(i) = s
  PROVE  /\ sessions[s] # "deleted" /\ origin[s] # Null
         /\ head'[s] = i /\ \A t \in Sessions : t # s => head'[t] = head[t]
         /\ attempts[i].base = head[s] /\ attempts[i].seal \in Manifests
         /\ Visible(s)' = Explicit(i) \cup {m \in Visible(s) : m.key \in Retain(i)}
         /\ KeysOf(Explicit(i)) \cap Retain(i) = {}
         /\ Retain(i) \subseteq KeysOf(Visible(s))
         /\ adopted[s] => \A m \in Explicit(i) : m.rev > floor[s]
<1>1. Live(i) /\ Intact(i) /\ attempts[i].state = "validated" /\ sessions[s] # "deleted"
  BY DEF Activate, Access, Intact
<1>2. origin[s] # Null
  BY <1>1, IntactMeans
<1>3. Prepared(i)
  BY <1>1 DEF TargetsOK, Target
<1>4. /\ attempts[i].validated = Len(attempts[i].seal) /\ attempts[i].seal \in Manifests
      /\ Copied(i) = Baseline(i) /\ Retain(i) \subseteq KeysOf(Visible(s))
  BY <1>1, <1>3 DEF Prepared, Inherited, Normalized
<1>5. (\A p \in PartsOf(i) : p.fixed) /\ WireMembers(i) = Explicit(i)
  BY <1>3, <1>4, ExplicitMembers
<1>6. /\ head'[s] = i /\ \A t \in Sessions : t # s => head'[t] = head[t]
      /\ PartsOf(i)' = PartsOf(i) /\ SessionOf(i)' = s
  BY <1>2 DEF Activate, Ground, TypeOK, PartsOf, SessionOf
<1>7. attempts[i].base = head[s]
  BY <1>1, LiveMeans DEF Ground, Superseded
<1>8. Visible(s)' = Explicit(i) \cup {m \in Visible(s) : m.key \in Retain(i)}
  <2>1. i # Null
    BY ConstantsAssumption
  <2>2. Visible(s)' = UNION {p.members : p \in {q \in PartsOf(i) : q.fixed}}
    BY <1>6, <2>1 DEF Visible, PartsOf
  <2>3. {q \in PartsOf(i) : q.fixed} = WireParts(i) \cup DerivedParts(i)
    BY <1>5 DEF WireParts, DerivedParts
  <2>4. Visible(s)' = WireMembers(i) \cup Copied(i)
    BY <2>2, <2>3 DEF WireMembers, Copied
  <2> QED BY <1>4, <1>5, <2>4 DEF Baseline
<1>9. KeysOf(Explicit(i)) \cap Retain(i) = {}
  <2> SUFFICES ASSUME NEW p \in WireParts(i), NEW m \in p.members, m.key \in Retain(i) PROVE FALSE
    BY <1>5 DEF KeysOf, WireMembers
  <2>1. KeysOf(p.members) \cap Retain(i) = {}
    BY <1>3, <1>5 DEF Prepared, Normalized, WireParts
  <2> QED BY <2>1 DEF KeysOf
<1>10. adopted[s] => \A m \in Explicit(i) : m.rev > floor[s]
  BY <1>3, <1>5 DEF Prepared, Floored
<1> QED BY <1>1, <1>2, <1>4, <1>6, <1>7, <1>8, <1>9, <1>10

\* A Session without a source row has no head.
LEMMA LegacyHasNoHead ==
  ASSUME Ground, NEW s \in Sessions, origin[s] = Null
  PROVE  head[s] = Null
<1> SUFFICES ASSUME head[s] # Null PROVE FALSE
  OBVIOUS
<1>1. PICK h \in Ids : h \in Activated(s)
  BY DEF Ground, Authority, LinearHistory, TypeOK
<1>2. Reserved(h) /\ SessionOf(h) = s
  BY <1>1 DEF Ground, Authority, RowsKnown, Activated, Begun
<1> QED BY <1>2 DEF Ground, Sources, SourceBound

\* A legacy write replaces at most an older record of one Thread.
LEMMA LegacyWriteShows ==
  ASSUME Ground, [Next]_vars, NEW s \in Sessions, NEW x \in LegacyRecords, LegacyApply(s, x)
  PROVE  /\ sessions[s] # "deleted" /\ origin[s] = Null /\ head[s] = Null /\ head' = head
         /\ Visible(s) = legacy[s]
         /\ Visible(s)' = {old \in legacy[s] : old.key # x.key} \cup {x}
         /\ \A old \in legacy[s] : old.key = x.key => old.rev < x.rev
         /\ \A t \in Sessions : t # s => Visible(t)' = Visible(t)
<1>1. /\ sessions[s] # "deleted" /\ origin[s] = Null /\ head' = head /\ parts' = parts
      /\ \A old \in legacy[s] : old.key = x.key => old.rev < x.rev
      /\ legacy'[s] = {old \in legacy[s] : old.key # x.key} \cup {x}
      /\ \A t \in Sessions : t # s => legacy'[t] = legacy[t]
  BY DEF LegacyApply, Ground, TypeOK
<1>2. head[s] = Null
  BY <1>1, LegacyHasNoHead
<1>3. Visible(s) = legacy[s] /\ Visible(s)' = legacy'[s]
  BY <1>1, <1>2 DEF Visible
<1>4. \A t \in Sessions : t # s => Visible(t)' = Visible(t)
  BY <1>1 DEF Visible, PartsOf
<1> QED BY <1>1, <1>2, <1>3, <1>4

\* What readers of a Session see changes by an activation or a legacy write
\* and by no other step.
LEMMA VisibleChanges ==
  ASSUME Ground, [Next]_vars, NEW s \in Sessions,
         \A i \in Ids : Activate(i) => SessionOf(i) # s,
         \A x \in LegacyRecords : ~LegacyApply(s, x)
  PROVE  head'[s] = head[s] /\ Visible(s)' = Visible(s)
<1>1. head'[s] = head[s]
  <2>1. ASSUME NEW i \in Ids, Activate(i) PROVE head'[s] = head[s]
    <3>1. SessionOf(i) # s
      BY <2>1
    <3> QED BY <2>1, <3>1 DEF Activate, Ground, TypeOK
  <2> QED BY <2>1, HeadMoves
<1>2. CASE origin[s] # Null
  BY <1>1, <1>2, VisibleKept
<1>3. CASE origin[s] = Null
  <2>1. head[s] = Null
    BY <1>3, LegacyHasNoHead
  <2>2. legacy'[s] = legacy[s]
    <3>1. CASE Entering
      BY <3>1 DEF Entering, Reserve, AdoptLegacy
    <3>2. ASSUME NEW t \in Sessions, NEW x \in LegacyRecords, LegacyApply(t, x)
          PROVE  legacy'[s] = legacy[s]
      <4>1. t # s
        BY <3>2
      <4> QED BY <3>2, <4>1 DEF LegacyApply, Ground, TypeOK
    <3> QED BY <3>1, <3>2, SourceTables DEF Ingesting
  <2> QED BY <1>1, <2>1, <2>2 DEF Visible
<1> QED BY <1>1, <1>2, <1>3

\* Until a Session has a head, readers never see an older version of a record
\* they saw, nor other content under its revision: not in legacy ingestion, at
\* adoption or with the first publication (LegacyRevisionFloor, AboveFloor).
LEMMA NoRegression ==
  ASSUME Ground, TargetsOK, [Next]_vars, NEW s \in Sessions, head[s] = Null,
         NEW m \in Visible(s), NEW n \in Visible(s)', m.key = n.key
  PROVE  n.rev > m.rev \/ n = m
<1>1. m \in legacy[s]
  BY DEF Visible
<1>2. legacy[s] \subseteq Member /\ \A x, y \in legacy[s] : x.key = y.key => x = y
  BY DEF Ground, TypeOK, Sources, LegacySettled
<1>3. ASSUME NEW x \in LegacyRecords, LegacyApply(s, x) PROVE n.rev > m.rev \/ n = m
  <2>1. /\ Visible(s)' = {old \in legacy[s] : old.key # x.key} \cup {x}
        /\ \A old \in legacy[s] : old.key = x.key => old.rev < x.rev
    BY <1>3, LegacyWriteShows
  <2>2. m.rev \in Nat /\ x.rev \in Nat
    BY <1>1, <1>2, ConstantsAssumption DEF Member
  <2> QED BY <1>1, <1>2, <2>1, <2>2
<1>4. ASSUME NEW i \in Ids, Activate(i), SessionOf(i) = s PROVE n.rev > m.rev \/ n = m
  <2>1. /\ origin[s] # Null
        /\ Visible(s)' = Explicit(i) \cup {x \in Visible(s) : x.key \in Retain(i)}
        /\ adopted[s] => \A x \in Explicit(i) : x.rev > floor[s]
        /\ attempts[i].seal \in Manifests
    BY <1>4, ActivationShows
  <2>2. CASE n \in Visible(s)
    BY <1>1, <1>2, <2>2 DEF Visible
  <2>3. CASE n \in Explicit(i)
    <3>1. adopted[s] /\ m.rev <= floor[s]
      BY <1>1, <2>1 DEF Ground, Sources, LegacySettled
    <3>2. n.rev > floor[s]
      BY <2>1, <2>3, <3>1
    <3>3. n.rev \in Nat
      <4>1. PICK k \in DOMAIN attempts[i].seal : n \in attempts[i].seal[k].members
        BY <2>3 DEF Explicit
      <4>2. attempts[i].seal[k] \in Bodies
        BY <2>1, <4>1, ManifestShape
      <4>3. n \in Member
        BY <4>1, <4>2, BodyMembers
      <4> QED BY <4>3, ConstantsAssumption DEF Member
    <3>4. m.rev \in Nat /\ floor[s] \in Nat
      BY <1>1, <1>2, ConstantsAssumption DEF Member, Ground, TypeOK
    <3> QED BY <3>1, <3>2, <3>3, <3>4
  <2> QED BY <2>1, <2>2, <2>3
<1>5. CASE /\ \A i \in Ids : Activate(i) => SessionOf(i) # s
           /\ \A x \in LegacyRecords : ~LegacyApply(s, x)
  <2>1. n \in legacy[s]
    BY <1>5, VisibleChanges DEF Visible
  <2> QED BY <1>1, <1>2, <2>1
<1> QED BY <1>3, <1>4, <1>5

\* What a reader sees of a Session before its first activation never goes back to
\* an older revision: batches raise revisions, and the first target's own records
\* lie above the floor that adoption fixed (ApplyBatch, AdoptLegacy, Validate).
THEOREM LegacyNeverRegresses == Spec => NoLegacyRegression
<1>1. Ground /\ TargetsOK /\ [Next]_vars =>
        [\A s \in Sessions : head[s] = Null =>
           \A m \in Visible(s), n \in Visible(s)' :
             m.key = n.key => (n.rev > m.rev \/ n = m)]_vars
  BY NoRegression
<1> QED BY <1>1, TargetsAlways, PTL DEF Spec, NoLegacyRegression

-----------------------------------------------------------------------------
(* The store implements AtomicPublication                                  *)
(*                                                                         *)
(* The mapped variables are named, so that a step is shown to leave each   *)
(* alone or to change it as the abstract action does.                      *)

Mode == [s \in Sessions |-> IF origin[s] = Null THEN "legacy" ELSE "publication"]
Closed == {s \in Sessions : sessions[s] = "deleted"}
Shown == [s \in Sessions |-> Visible(s)]
ReceiptOf(i) ==
  [session |-> SessionOf(i), base |-> attempts[i].base, content |-> Content(attempts[i].seal)]
Receipts == [i \in Ids |-> IF attempts[i].state = "activated" THEN ReceiptOf(i) ELSE Null]

\* Receipts are only added, by activations.
LEMMA ReceiptsKept ==
  ASSUME Ground, [Next]_vars, NEW k \in Ids, ~Activate(k)
  PROVE  Receipts'[k] = Receipts[k]
<1>1. CASE attempts[k].state = "activated"
  <2>1. attempts'[k] = attempts[k] /\ reservations'[k] = reservations[k]
    BY <1>1, ReceiptKept DEF Ground
  <2> QED BY <1>1, <2>1 DEF Receipts, ReceiptOf, SessionOf
<1>2. CASE attempts[k].state # "activated"
  <2>1. attempts'[k].state # "activated"
    BY <1>2, OnlyActivate DEF Ground
  <2> QED BY <1>2, <2>1 DEF Receipts
<1> QED BY <1>1, <1>2

\* Only activation writes a receipt.
LEMMA ReceiptsSame ==
  ASSUME Ground, [Next]_vars, \A i \in Ids : ~Activate(i)
  PROVE  Receipts' = Receipts
<1>1. \A k \in Ids : Receipts'[k] = Receipts[k]
  BY ReceiptsKept
<1> QED BY <1>1 DEF Receipts

\* Without an activation and a legacy write, readers see what they saw.
LEMMA ShownSame ==
  ASSUME Ground, [Next]_vars, \A i \in Ids : ~Activate(i), ~Ingesting
  PROVE  Shown' = Shown /\ head' = head
<1>1. \A s \in Sessions : Visible(s)' = Visible(s)
  BY VisibleChanges DEF Ingesting
<1> QED BY <1>1, HeadMoves DEF Shown

PublishedVars == <<Mode, Closed, head, Shown, Receipts>>

\* The abstract actions, in terms of the mapped variables.
LEMMA PublishedMeans ==
  /\ Published!vars = PublishedVars
  /\ (Published!vars)' = PublishedVars'
  /\ \A s \in Sessions : Published!EnterPublication(s) <=>
       /\ Mode[s] = "legacy" /\ s \notin Closed
       /\ Mode' = [Mode EXCEPT ![s] = "publication"]
       /\ Closed' = Closed /\ head' = head /\ Shown' = Shown /\ Receipts' = Receipts
  /\ \A s \in Sessions : Published!Delete(s) <=>
       /\ Closed' = Closed \cup {s}
       /\ Mode' = Mode /\ head' = head /\ Shown' = Shown /\ Receipts' = Receipts
  /\ \A s \in Sessions : Published!LegacyWrite(s) <=>
       /\ Mode[s] = "legacy" /\ s \notin Closed
       /\ \A m \in Shown[s] : \E n \in Shown'[s] : n.key = m.key /\ (n = m \/ n.rev > m.rev)
       /\ Shown' = [Shown EXCEPT ![s] = Shown'[s]]
       /\ Mode' = Mode /\ Closed' = Closed /\ head' = head /\ Receipts' = Receipts
<1>1. Published!vars = PublishedVars /\ (Published!vars)' = PublishedVars'
  BY DEF Published!vars, PublishedVars, Mode, Closed, Shown, Receipts, ReceiptOf
<1>2. \A s \in Sessions : Published!EnterPublication(s) <=>
       /\ Mode[s] = "legacy" /\ s \notin Closed
       /\ Mode' = [Mode EXCEPT ![s] = "publication"]
       /\ Closed' = Closed /\ head' = head /\ Shown' = Shown /\ Receipts' = Receipts
  BY Zenon DEF Published!EnterPublication, Mode, Closed, Shown, Receipts, ReceiptOf
<1>3. \A s \in Sessions : Published!Delete(s) <=>
       /\ Closed' = Closed \cup {s}
       /\ Mode' = Mode /\ head' = head /\ Shown' = Shown /\ Receipts' = Receipts
  BY Zenon DEF Published!Delete, Mode, Closed, Shown, Receipts, ReceiptOf
<1>4. \A s \in Sessions : Published!LegacyWrite(s) <=>
       /\ Mode[s] = "legacy" /\ s \notin Closed
       /\ \A m \in Shown[s] : \E n \in Shown'[s] : n.key = m.key /\ (n = m \/ n.rev > m.rev)
       /\ Shown' = [Shown EXCEPT ![s] = Shown'[s]]
       /\ Mode' = Mode /\ Closed' = Closed /\ head' = head /\ Receipts' = Receipts
  BY Zenon DEF Published!LegacyWrite, Mode, Closed, Shown, Receipts, ReceiptOf
<1> QED BY <1>1, <1>2, <1>3, <1>4

\* The abstract publication in the mapped names.
LEMMA PublishMeans ==
  ASSUME NEW s \in Sessions, NEW i \in Ids, NEW c \in Contents
  PROVE  Published!Publish(s, i, c) <=>
           /\ Mode[s] = "publication" /\ s \notin Closed
           /\ Receipts[i] = Null
           /\ Receipts' = [Receipts EXCEPT ![i] = [session |-> s, base |-> head[s], content |-> c]]
           /\ head' = [head EXCEPT ![s] = i]
           /\ KeysOf(c.target) \cap c.retain = {}
           /\ c.retain \subseteq KeysOf(Shown[s])
           /\ Shown' = [Shown EXCEPT ![s] = c.target \cup {m \in Shown[s] : m.key \in c.retain}]
           /\ Mode' = Mode /\ Closed' = Closed
BY Zenon DEF Published!Publish, Published!KeysIn, KeysOf, Mode, Closed, Shown, Receipts, ReceiptOf

\* The empty store is the initial state of the abstract specification.
LEMMA PublishedInit == Init => Published!Init
<1> SUFFICES ASSUME Init PROVE Published!Init
  OBVIOUS
<1>1. \A s \in Sessions : Visible(s) = {}
  BY DEF Init, Visible
<1>2. \A i \in Ids : attempts[i].state # "activated"
  BY DEF Init, NoAttempt
<1> QED BY <1>1, <1>2 DEF Published!Init, Init

\* A step that changes nothing a reader could tell is a stuttering step.
LEMMA PublishedStutter ==
  ASSUME Mode' = Mode, Closed' = Closed, head' = head, Shown' = Shown, Receipts' = Receipts
  PROVE  [Published!Next]_(Published!vars)
<1>1. PublishedVars' = PublishedVars
  BY DEF PublishedVars
<1> QED BY <1>1, PublishedMeans

\* A first reservation or an adoption is the abstract change of mode.
LEMMA EnteringPublished ==
  ASSUME Ground, [Next]_vars, NEW s \in Sessions, NEW o \in Origins, NEW i \in Ids,
         Reserve(s, o, i) \/ AdoptLegacy(s, o, i)
  PROVE  [Published!Next]_(Published!vars)
<1>1. /\ sessions' = sessions /\ sessions[s] # "deleted" /\ attempts' = attempts
      /\ \/ origin' = origin
         \/ origin[s] = Null /\ origin' = [origin EXCEPT ![s] = o]
  <2>1. CASE Reserve(s, o, i)
    BY <2>1 DEF Reserve, Ground, TypeOK
  <2>2. CASE AdoptLegacy(s, o, i)
    BY <2>2 DEF AdoptLegacy
  <2> QED BY <2>1, <2>2
<1>2. \A k \in Ids : ~Activate(k)
  <2>1. \A k \in Ids : Activate(k) => attempts' # attempts
    BY DEF Activate, Ground, TypeOK, AttemptRow
  <2> QED BY <1>1, <2>1
<1>3. ~Ingesting
  BY DEF Reserve, AdoptLegacy, Ingesting, LegacyApply, IssueReservation
<1>4. Closed' = Closed /\ head' = head /\ Shown' = Shown /\ Receipts' = Receipts
  BY <1>1, <1>2, <1>3, ShownSame, ReceiptsSame DEF Closed
<1>5. CASE origin' = origin
  BY <1>4, <1>5, PublishedStutter DEF Mode
<1>6. CASE origin[s] = Null /\ origin' = [origin EXCEPT ![s] = o]
  <2>1. o # Null /\ origin \in [Sessions -> Origins \cup {Null}]
    BY ConstantsAssumption DEF Ground, TypeOK
  <2>2. Mode' = [Mode EXCEPT ![s] = "publication"] /\ Mode[s] = "legacy"
    BY <1>6, <2>1 DEF Mode
  <2>3. Published!EnterPublication(s)
    BY <1>1, <1>4, <2>2, PublishedMeans DEF Closed
  <2> QED BY <2>3 DEF Published!Next
<1> QED BY <1>1, <1>5, <1>6

\* A legacy batch is the abstract legacy write.
LEMMA IngestingPublished ==
  ASSUME Ground, [Next]_vars, NEW s \in Sessions, NEW x \in LegacyRecords, LegacyApply(s, x)
  PROVE  [Published!Next]_(Published!vars)
<1>1. /\ sessions[s] # "deleted" /\ origin[s] = Null /\ head' = head
      /\ Visible(s) = legacy[s]
      /\ Visible(s)' = {old \in legacy[s] : old.key # x.key} \cup {x}
      /\ \A old \in legacy[s] : old.key = x.key => old.rev < x.rev
      /\ \A t \in Sessions : t # s => Visible(t)' = Visible(t)
  BY LegacyWriteShows
<1>2. /\ origin' = origin /\ attempts' = attempts
      /\ \A t \in Sessions : sessions'[t] = "deleted" <=> sessions[t] = "deleted"
  BY DEF LegacyApply, Ground, TypeOK
<1>3. \A k \in Ids : ~Activate(k)
  <2>1. \A k \in Ids : Activate(k) => attempts' # attempts
    BY DEF Activate, Ground, TypeOK, AttemptRow
  <2> QED BY <1>2, <2>1
<1>4. Mode' = Mode /\ Closed' = Closed /\ Receipts' = Receipts
  BY <1>2, <1>3, ReceiptsSame DEF Mode, Closed
<1>5. Mode[s] = "legacy" /\ s \notin Closed
  BY <1>1 DEF Mode, Closed
<1>6. Shown' = [Shown EXCEPT ![s] = Shown'[s]]
  BY <1>1 DEF Shown
<1>7. \A m \in Shown[s] : \E n \in Shown'[s] : n.key = m.key /\ (n = m \/ n.rev > m.rev)
  <2> SUFFICES ASSUME NEW m \in legacy[s]
               PROVE  \E n \in Visible(s)' : n.key = m.key /\ (n = m \/ n.rev > m.rev)
    BY <1>1 DEF Shown
  <2>1. CASE m.key # x.key
    BY <1>1, <2>1
  <2>2. CASE m.key = x.key
    <3>1. m.rev \in Nat /\ x.rev \in Nat
      BY ConstantsAssumption DEF Ground, TypeOK, Member
    <3>2. x \in Visible(s)' /\ x.rev > m.rev
      BY <1>1, <2>2, <3>1
    <3> QED BY <2>2, <3>2
  <2> QED BY <2>1, <2>2
<1>8. Published!LegacyWrite(s)
  BY <1>1, <1>4, <1>5, <1>6, <1>7, PublishedMeans
<1> QED BY <1>8 DEF Published!Next

\* Activation publishes the content of the sealed target, whole.
LEMMA ActivationPublished ==
  ASSUME Ground, TargetsOK, [Next]_vars, NEW i \in Ids, Activate(i)
  PROVE  [Published!Next]_(Published!vars)
<1> DEFINE m == attempts[i].seal
           c == Content(m)
<1>1. PICK s \in Sessions : SessionOf(i) = s
  BY IntactMeans DEF Activate, Intact
<1>2. /\ sessions[s] # "deleted" /\ origin[s] # Null
      /\ head'[s] = i /\ \A t \in Sessions : t # s => head'[t] = head[t]
      /\ attempts[i].base = head[s] /\ m \in Manifests
      /\ Visible(s)' = Explicit(i) \cup {x \in Visible(s) : x.key \in Retain(i)}
      /\ KeysOf(Explicit(i)) \cap Retain(i) = {}
      /\ Retain(i) \subseteq KeysOf(Visible(s))
  BY <1>1, ActivationShows
<1>3. c.target = Explicit(i) /\ c.retain = Retain(i) /\ c \in Contents
  BY <1>2 DEF Content, Contents, Explicit, Retain
<1>4. /\ origin' = origin /\ reservations' = reservations
      /\ attempts'[i].state = "activated" /\ attempts[i].state # "activated"
      /\ attempts'[i].base = attempts[i].base /\ attempts'[i].seal = m
      /\ \A k \in Ids : k # i => attempts'[k] = attempts[k]
      /\ \A t \in Sessions : sessions'[t] = "deleted" <=> sessions[t] = "deleted"
  BY <1>1, <1>2 DEF Activate, Ground, TypeOK, AttemptRow
<1> HIDE DEF m, c
<1>5. Mode' = Mode /\ Closed' = Closed /\ Mode[s] = "publication" /\ s \notin Closed
  BY <1>2, <1>4 DEF Mode, Closed
<1>6. Receipts[i] = Null
  BY <1>4 DEF Receipts
<1>7. Receipts' = [Receipts EXCEPT ![i] = [session |-> s, base |-> head[s], content |-> c]]
  <2>1. Receipts'[i] = [session |-> s, base |-> head[s], content |-> c]
    BY <1>1, <1>2, <1>4 DEF Receipts, ReceiptOf, SessionOf, c
  <2>2. \A k \in Ids : k # i => Receipts'[k] = Receipts[k]
    BY <1>4 DEF Receipts, ReceiptOf, SessionOf
  <2> QED BY <2>1, <2>2 DEF Receipts
<1>8. head' = [head EXCEPT ![s] = i]
  BY <1>1 DEF Activate
<1>9. Shown' = [Shown EXCEPT ![s] = c.target \cup {x \in Shown[s] : x.key \in c.retain}]
  <2>1. \A t \in Sessions : t # s => Visible(t)' = Visible(t)
    <3> SUFFICES ASSUME NEW t \in Sessions, t # s PROVE Visible(t)' = Visible(t)
      OBVIOUS
    <3>1. \A k \in Ids : Activate(k) => SessionOf(k) # t
      <4> SUFFICES ASSUME NEW k \in Ids, Activate(k), k # i PROVE FALSE
        BY <1>1
      <4>1. attempts'[k] = attempts[k]
        BY <1>4
      <4> QED BY <4>1 DEF Activate, Ground, TypeOK, AttemptRow
    <3>2. \A x \in LegacyRecords : ~LegacyApply(t, x)
      <4>1. \A x \in LegacyRecords : LegacyApply(t, x) => attempts' = attempts
        BY DEF LegacyApply
      <4> QED BY <1>4, <4>1
    <3> QED BY <3>1, <3>2, VisibleChanges
  <2>2. Shown[s] = Visible(s) /\ Shown'[s] = Visible(s)'
    BY DEF Shown
  <2>3. \A t \in Sessions : t # s => Shown'[t] = Shown[t]
    BY <2>1 DEF Shown
  <2>4. Shown'[s] = c.target \cup {x \in Shown[s] : x.key \in c.retain}
    BY <1>2, <1>3, <2>2
  <2> QED BY <2>3, <2>4 DEF Shown
<1>10. KeysOf(c.target) \cap c.retain = {} /\ c.retain \subseteq KeysOf(Shown[s])
  BY <1>2, <1>3 DEF Shown
<1>11. \E d \in Contents : Published!Publish(s, i, d)
  <2>1. PICK d \in Contents : d = c
    BY <1>3
  <2>2. Receipts' = [Receipts EXCEPT ![i] = [session |-> s, base |-> head[s], content |-> d]]
    BY <1>7, <2>1
  <2>3. Shown' = [Shown EXCEPT ![s] = d.target \cup {x \in Shown[s] : x.key \in d.retain}]
    BY <1>9, <2>1
  <2>4. KeysOf(d.target) \cap d.retain = {} /\ d.retain \subseteq KeysOf(Shown[s])
    BY <1>10, <2>1
  <2>5. Published!Publish(s, i, d)
    BY <1>5, <1>6, <1>8, <2>2, <2>3, <2>4, PublishMeans, Zenon
  <2> QED BY <2>5
<1>12. Published!Next
  BY <1>11, Zenon DEF Published!Next
<1> QED BY <1>12

\* Session deletion is the abstract deletion.
LEMMA DeletingPublished ==
  ASSUME Ground, [Next]_vars, NEW s \in Sessions, DeleteSession(s)
  PROVE  [Published!Next]_(Published!vars)
<1>1. /\ origin' = origin /\ attempts' = attempts /\ sessions' = [sessions EXCEPT ![s] = "deleted"]
  BY DEF DeleteSession
<1>2. \A k \in Ids : ~Activate(k)
  <2>1. \A k \in Ids : Activate(k) => attempts' # attempts
    BY DEF Activate, Ground, TypeOK, AttemptRow
  <2> QED BY <1>1, <2>1
<1>3. ~Ingesting
  <2>1. \A t \in Sessions, x \in LegacyRecords : LegacyApply(t, x) =>
          sessions' = [sessions EXCEPT ![t] = "active"] /\ sessions[t] # "deleted"
    BY DEF LegacyApply
  <2>2. sessions'[s] = "deleted" /\ sessions[s] = "active"
    BY <1>1 DEF DeleteSession, Ground, TypeOK
  <2>3. sessions \in [Sessions -> {"absent", "active", "deleted"}]
    BY DEF Ground, TypeOK
  <2> QED BY <2>1, <2>2, <2>3 DEF Ingesting
<1>4. Mode' = Mode /\ head' = head /\ Shown' = Shown /\ Receipts' = Receipts
  BY <1>1, <1>2, <1>3, ShownSame, ReceiptsSame DEF Mode
<1>5. Closed' = Closed \cup {s}
  BY <1>1 DEF Closed, Ground, TypeOK
<1>6. Published!Delete(s)
  BY <1>4, <1>5, PublishedMeans
<1> QED BY <1>6, Zenon DEF Published!Next

\* What the other steps, on an attempt's rows and in cleanup, leave alone.
LEMMA PrivatePublished ==
  ASSUME Ground, [Next]_vars, Tick \/ Beginning \/ Preparing \/ Reclaiming \/ UNCHANGED vars
  PROVE  [Published!Next]_(Published!vars)
<1>1. sessions' = sessions /\ origin' = origin /\ head' = head /\ legacy' = legacy
  <2>1. CASE Tick BY <2>1 DEF Tick
  <2>2. CASE Beginning
    <3>1. PICK i \in Ids, c \in Captures, b \in Ids \cup {Null} : Begin(i, c, b)
      BY <2>2 DEF Beginning
    <3> QED BY <3>1 DEF Begin
  <2>3. CASE Preparing BY <2>3, PreparingKeeps
  <2>4. CASE Reclaiming BY <2>4 DEF Reclaiming, Reclaim
  <2>5. CASE UNCHANGED vars BY <2>5 DEF vars
  <2> QED BY <2>1, <2>2, <2>3, <2>4, <2>5
<1>2. CASE \E k \in Ids : Activate(k)
  <2>1. PICK k \in Ids : Activate(k)
    BY <1>2
  <2>2. attempts[k].state = "validated" /\ head' = [head EXCEPT ![SessionOf(k)] = k]
    BY <2>1 DEF Activate
  <2>3. SessionOf(k) \in Sessions
    BY <2>1, IntactMeans DEF Activate, Intact
  <2>4. head[SessionOf(k)] = k
    BY <1>1, <2>2, <2>3 DEF Ground, TypeOK
  <2>5. k # Null
    BY ConstantsAssumption
  <2>6. k \in Activated(SessionOf(k))
    BY <2>3, <2>4, <2>5 DEF Ground, Authority, LinearHistory
  <2> QED BY <2>2, <2>6 DEF Activated
<1>3. CASE \A k \in Ids : ~Activate(k)
  <2>1. \A s \in Sessions : Visible(s)' = Visible(s)
    <3> SUFFICES ASSUME NEW s \in Sessions PROVE Visible(s)' = Visible(s)
      OBVIOUS
    <3>1. CASE origin[s] # Null
      BY <1>1, <3>1, VisibleKept
    <3>2. CASE origin[s] = Null
      BY <1>1, <3>2, LegacyHasNoHead DEF Visible
    <3> QED BY <3>1, <3>2
  <2>2. Mode' = Mode /\ Closed' = Closed /\ Shown' = Shown
    BY <1>1, <2>1 DEF Mode, Closed, Shown
  <2> QED BY <1>1, <1>3, <2>2, ReceiptsSame, PublishedStutter
<1> QED BY <1>2, <1>3

\* Readers see atomic publications: whatever attempts, crashes and cleanup do,
\* a Session's visible content changes by one legacy write or one whole target.
THEOREM ReadersSeeAtomicPublication == Spec => ImplementsAtomicPublication
<1>1. Ground /\ TargetsOK /\ [Next]_vars => [Published!Next]_(Published!vars)
  <2> SUFFICES ASSUME Ground, TargetsOK, [Next]_vars PROVE [Published!Next]_(Published!vars)
    OBVIOUS
  <2>1. CASE Entering
    BY <2>1, EnteringPublished DEF Entering
  <2>2. CASE Ingesting
    BY <2>2, IngestingPublished DEF Ingesting
  <2>3. CASE Deleting
    BY <2>3, DeletingPublished DEF Deleting
  <2> QED BY <2>1, <2>2, <2>3, StepCases, ActivationPublished, PrivatePublished
<1> QED BY <1>1, PublishedInit, TargetsAlways, PTL DEF Spec, ImplementsAtomicPublication, Published!Spec

-----------------------------------------------------------------------------
(* The store implements AttemptAuthority                                   *)
(*                                                                         *)
(* As for readers, the mapped variables are named.  A row that was never   *)
(* begun is blank, which is what a writer is told of it.                   *)

Lapsed == {i \in Ids : attempts[i].state \in LiveStates /\ ~Live(i)}
Filled(i) == attempts[i].state = "open" /\ Live(i) /\ WireParts(i) # {}
Row(st, se, ca, ba, fi) ==
  [state |-> st, session |-> se, capture |-> ca, base |-> ba, filled |-> fi]
Told(i) == Row(WriterState(i), SessionOf(i), attempts[i].capture, attempts[i].base, Filled(i))
Att == [i \in Ids |-> Told(i)]
WriterVars == <<Att, Lapsed, head, Closed>>

Blank == \A i \in Ids : ~Begun(i) => attempts[i] = NoAttempt

\* A row that is not begun after a step is blank.
LEMMA BlankNext == TypeOK /\ Blank /\ [Next]_vars => Blank'
<1> SUFFICES ASSUME TypeOK, Blank, [Next]_vars, NEW k \in Ids
             PROVE  attempts'[k].state = "none" => attempts'[k] = NoAttempt
  BY DEF Blank, Begun
<1> DEFINE Wiped == attempts'[k].state = "none" => attempts'[k] = NoAttempt
<1> SUFFICES Wiped
  OBVIOUS
<1>0. CASE attempts'[k] = attempts[k]
  BY <1>0 DEF Blank, Begun
<1>1. ASSUME NEW i \in Ids, NEW c \in Captures, NEW b \in Ids \cup {Null}, Begin(i, c, b)
      PROVE  Wiped
  <2>1. attempts'[i].state = "open" /\ (k # i => attempts'[k] = attempts[k])
    BY <1>1 DEF Begin, TypeOK, NoAttempt
  <2> QED BY <1>0, <2>1
<1>2. ASSUME NEW i \in Ids, NEW m \in Manifests, Seal(i, m)
      PROVE  Wiped
  <2>1. attempts'[i].state = "sealed" /\ (k # i => attempts'[k] = attempts[k])
    BY <1>2 DEF Seal, TypeOK, AttemptRow
  <2> QED BY <1>0, <2>1
<1>3. ASSUME NEW i \in Ids, NEW p \in PartsOf(i), ValidatePart(i, p)
      PROVE  Wiped
  <2>1. attempts'[i].state # "none" /\ (k # i => attempts'[k] = attempts[k])
    BY <1>3 DEF ValidatePart, TypeOK, AttemptRow
  <2> QED BY <1>0, <2>1
<1>4. ASSUME NEW i \in Ids, NEW done \in BOOLEAN, NEW chunk \in SUBSET Remaining(i),
             ValidateRetention(i, chunk, done)
      PROVE  Wiped
  <2>1. attempts'[i].state # "none" /\ (k # i => attempts'[k] = attempts[k])
    BY <1>4 DEF ValidateRetention, TypeOK, AttemptRow
  <2> QED BY <1>0, <2>1
<1>5. ASSUME NEW i \in Ids, Renew(i)
      PROVE  Wiped
  <2>1. attempts[i].state \in LiveStates
    BY <1>5, LiveMeans DEF Renew
  <2>2. attempts'[i].state = attempts[i].state /\ (k # i => attempts'[k] = attempts[k])
    BY <1>5 DEF Renew, TypeOK, AttemptRow
  <2> QED BY <1>0, <2>1, <2>2 DEF LiveStates
<1>6. ASSUME NEW i \in Ids, Reject(i) \/ Activate(i)
      PROVE  Wiped
  <2>1. attempts'[i].state # "none" /\ (k # i => attempts'[k] = attempts[k])
    BY <1>6 DEF Reject, Activate, TypeOK, AttemptRow
  <2> QED BY <1>0, <2>1
<1>7. CASE Reclaiming
  <2>1. attempts'[k] = attempts[k] \/ attempts'[k] = NoAttempt
    BY <1>7 DEF Reclaiming, Reclaim
  <2> QED BY <1>0, <2>1
<1>8. ASSUME NEW i \in Ids, Uploads(i) PROVE Wiped
  BY <1>0, <1>8 DEF Uploads, Put
<1>9. CASE Tick \/ Entering \/ Deleting \/ Ingesting \/ UNCHANGED vars
  <2>1. attempts' = attempts
    BY <1>9 DEF Tick, Entering, Reserve, AdoptLegacy, Deleting, DeleteSession, Ingesting, LegacyApply, vars
  <2> QED BY <1>0, <2>1
<1> HIDE DEF Wiped
<1> QED BY <1>1, <1>2, <1>3, <1>4, <1>5, <1>6, <1>7, <1>8, <1>9, StepCases
           DEF Beginning, Preparing, Sealing, Validating

\* All that the refinement rests on, in every reachable state.
Base == Ground /\ TargetsOK /\ Blank

\* All that the refinement for writers rests on is invariant.
LEMMA BaseAlways == Spec => []Base
<1>1. Init => Blank
  BY DEF Init, Blank
<1>2. Ground => TypeOK
  BY DEF Ground
<1> QED BY <1>1, <1>2, BlankNext, TargetsAlways, PTL DEF Spec, Base

\* The state a writer is told, case by case.
LEMMA WriterStates ==
  Ground => \A i \in Ids :
    /\ i \notin issued => WriterState(i) = "unissued" /\ ~Reserved(i) /\ ~Begun(i)
    /\ (i \in issued /\ ~Reserved(i)) => WriterState(i) = "removed" /\ ~Begun(i)
    /\ (Reserved(i) /\ ~Begun(i)) => WriterState(i) = "reserved"
    /\ Begun(i) =>
         WriterState(i) = (IF attempts[i].state = "validating" THEN "sealed" ELSE attempts[i].state)
<1> SUFFICES ASSUME Ground, NEW i \in Ids
             PROVE  /\ i \notin issued => WriterState(i) = "unissued" /\ ~Reserved(i) /\ ~Begun(i)
                    /\ (i \in issued /\ ~Reserved(i)) => WriterState(i) = "removed" /\ ~Begun(i)
                    /\ (Reserved(i) /\ ~Begun(i)) => WriterState(i) = "reserved"
                    /\ Begun(i) => WriterState(i) =
                         (IF attempts[i].state = "validating" THEN "sealed" ELSE attempts[i].state)
  OBVIOUS
<1>1. (Begun(i) => Reserved(i)) /\ (Reserved(i) => i \in issued)
  BY DEF Ground, Authority, RowsKnown
<1> QED BY <1>1 DEF WriterState

\* What a writer is told of an attempt is settled by its begun state.
LEMMA WriterMeans ==
  ASSUME Ground, NEW i \in Ids
  PROVE  /\ WriterState(i) = "unissued" <=> i \notin issued
         /\ WriterState(i) = "reserved" <=> Reserved(i) /\ ~Begun(i)
         /\ WriterState(i) \in Writers!Writable <=> attempts[i].state \in LiveStates
         /\ \A x \in {"open", "validated", "rejected"} :
              WriterState(i) = x <=> attempts[i].state = x
         /\ WriterState(i) = "sealed" <=> attempts[i].state \in {"sealed", "validating"}
<1>1. (Begun(i) => Reserved(i)) /\ (Reserved(i) => i \in issued)
  BY DEF Ground, Authority, RowsKnown
<1>2. attempts[i].state \in LiveStates \cup {"none", "activated", "rejected"}
  BY DEF Ground, TypeOK, AttemptRow
<1> QED BY <1>1, <1>2, WriterStates DEF Begun, LiveStates, Writers!Writable

\* Authority and what a writer is told depend on a few columns only.
LEMMA LiveSame ==
  ASSUME NEW k \in Ids, attempts'[k] = attempts[k],
         Begun(k) => /\ reservations'[k] = reservations[k] /\ now' = now
                     /\ fence'[SessionOf(k)] = fence[SessionOf(k)]
                     /\ head'[SessionOf(k)] = head[SessionOf(k)]
  PROVE  Live(k)' <=> Live(k)
<1>1. CASE ~Begun(k)
  BY <1>1 DEF Begun, Live, EffectiveState, LiveStates
<1>2. CASE Begun(k)
  <2>1. SessionOf(k)' = SessionOf(k) /\ Superseded(k)' = Superseded(k) /\ Expired(k)' = Expired(k)
    BY <1>2 DEF SessionOf, Superseded, Expired
  <2>2. EffectiveState(k)' = EffectiveState(k)
    BY <2>1 DEF EffectiveState
  <2> QED BY <2>2 DEF Live
<1> QED BY <1>1, <1>2

Same(k) == Told(k)' = Told(k) /\ (k \in Lapsed' <=> k \in Lapsed)

\* A step that keeps a row and its authority tells its writer nothing new.
LEMMA ToldSame ==
  ASSUME NEW k \in Ids, attempts'[k] = attempts[k], reservations'[k] = reservations[k],
         (k \in issued' <=> k \in issued), Live(k)' <=> Live(k),
         (attempts[k].state = "open" /\ Live(k)) => PartsOf(k)' = PartsOf(k)
  PROVE  Same(k)
<1>1. SessionOf(k)' = SessionOf(k) /\ Reserved(k)' = Reserved(k) /\ Begun(k)' = Begun(k)
  BY DEF SessionOf, Reserved, Begun
<1>2. WriterState(k)' = WriterState(k)
  BY <1>1 DEF WriterState
<1>3. Filled(k)' = Filled(k)
  BY DEF Filled, WireParts
<1> QED BY <1>1, <1>2, <1>3 DEF Told, Lapsed, Same

\* The abstract actions, in terms of the mapped variables.
LEMMA WriterVarsMean == Writers!authorityVars = WriterVars /\ (Writers!authorityVars)' = WriterVars'
BY DEF Writers!authorityVars, WriterVars, Att, Told, Row, Filled, Lapsed, Closed

Faded(L) == [j \in Ids |-> IF j \in L THEN [Att[j] EXCEPT !.filled = FALSE] ELSE Att[j]]
Challenged(i) ==
  {j \in Ids \ {i} : Att[j].session = Att[i].session /\ Att[j].state \in Writers!Writable}
Allowed(i) ==
  /\ Att[i].session # Null /\ Att[i].session \notin Closed
  /\ Att[i].state \in Writers!Writable /\ i \notin Lapsed

\* The operators of AttemptAuthority in the mapped names.
LEMMA WriterNames ==
  /\ \A L : Writers!Losing(L) = Faded(L)
  /\ \A i : Writers!Rivals(i) = Challenged(i)
  /\ \A i : Writers!Authority(i) <=> Allowed(i)
  /\ \A i : Writers!Admitted(i) <=> Att[i].session # Null /\ Att[i].session \notin Closed
BY DEF Writers!Losing, Faded, Writers!Rivals, Challenged, Writers!Authority, Writers!Admitted,
       Allowed, Att, Told, Row, Filled, Lapsed, Closed

\* The actions of AttemptAuthority, one by one, in the mapped names.
LEMMA ReserveMeans == \A s \in Sessions, i \in Ids : Writers!Reserve(s, i) <=>
  /\ s \notin Closed /\ Att[i].state = "unissued"
  /\ Att' = [Att EXCEPT ![i] = [Writers!Unissued EXCEPT !.state = "reserved", !.session = s]]
  /\ Lapsed' = Lapsed /\ head' = head /\ Closed' = Closed
BY Zenon DEF Writers!Reserve, Att, Told, Row, Filled, Lapsed, Closed

LEMMA BeginMeans == \A i \in Ids, c \in Captures, b \in Ids \cup {Null} : Writers!Begin(i, c, b) <=>
  /\ Writers!Admitted(i) /\ Att[i].state = "reserved" /\ b = head[Att[i].session]
  /\ Att' = [Writers!Losing(Writers!Rivals(i)) EXCEPT ![i] =
       [@ EXCEPT !.state = "open", !.capture = c, !.base = b]]
  /\ Lapsed' = Lapsed \cup Writers!Rivals(i) /\ head' = head /\ Closed' = Closed
BY Zenon DEF Writers!Begin, Att, Told, Row, Filled, Lapsed, Closed

LEMMA PutMeans == \A i \in Ids : Writers!Put(i) <=>
  /\ Writers!Authority(i) /\ Att[i].state = "open"
  /\ Att' = [Att EXCEPT ![i].filled = TRUE]
  /\ Lapsed' = Lapsed /\ head' = head /\ Closed' = Closed
BY Zenon DEF Writers!Put, Att, Told, Row, Filled, Lapsed, Closed

LEMMA SealMeans == \A i \in Ids : Writers!Seal(i) <=>
  /\ Writers!Authority(i) /\ Att[i].state = "open" /\ Att[i].filled
  /\ Att' = [Att EXCEPT ![i] = [@ EXCEPT !.state = "sealed", !.filled = FALSE]]
  /\ Lapsed' = Lapsed /\ head' = head /\ Closed' = Closed
BY Zenon DEF Writers!Seal, Att, Told, Row, Filled, Lapsed, Closed

LEMMA ValidateMeans == \A i \in Ids : Writers!Validate(i) <=>
  /\ Writers!Authority(i) /\ Att[i].state = "sealed"
  /\ Att' = [Att EXCEPT ![i].state = "validated"]
  /\ Lapsed' = Lapsed /\ head' = head /\ Closed' = Closed
BY Zenon DEF Writers!Validate, Att, Told, Row, Filled, Lapsed, Closed

LEMMA ActivateMeans == \A i \in Ids : Writers!Activate(i) <=>
  /\ Writers!Authority(i) /\ Att[i].state = "validated"
  /\ Att[i].base = head[Att[i].session]
  /\ Att' = [Att EXCEPT ![i].state = "activated"]
  /\ head' = [head EXCEPT ![Att[i].session] = i]
  /\ Lapsed' = Lapsed /\ Closed' = Closed
BY Zenon DEF Writers!Activate, Att, Told, Row, Filled, Lapsed, Closed

LEMMA RejectMeans == \A i \in Ids : Writers!Reject(i) <=>
  /\ Writers!Admitted(i) /\ Att[i].state \in Writers!Writable \cup {"rejected"}
  /\ Att' = [Att EXCEPT ![i] = [@ EXCEPT !.state = "rejected", !.filled = FALSE]]
  /\ Lapsed' = Lapsed \ {i} /\ head' = head /\ Closed' = Closed
BY Zenon DEF Writers!Reject, Att, Told, Row, Filled, Lapsed, Closed

LEMMA LoseMeans == \A L \in SUBSET Ids : Writers!Lose(L) <=>
  /\ L # {} /\ L \subseteq {i \in Ids : Att[i].state \in Writers!Writable}
  /\ Att' = Writers!Losing(L) /\ Lapsed' = Lapsed \cup L /\ head' = head /\ Closed' = Closed
BY Zenon DEF Writers!Lose, Att, Told, Row, Filled, Lapsed, Closed

LEMMA ForgetMeans == \A D \in SUBSET Ids : Writers!Forget(D) <=>
  /\ D # {} /\ \A i \in D : Att[i].state \in {"reserved", "rejected"} \/ i \in Lapsed
  /\ Att' = [i \in Ids |-> IF i \in D THEN Writers!Removed ELSE Att[i]]
  /\ Lapsed' = Lapsed \ D /\ head' = head /\ Closed' = Closed
BY Zenon DEF Writers!Forget, Att, Told, Row, Filled, Lapsed, Closed

LEMMA CloseMeans == \A s \in Sessions : Writers!Close(s) <=>
  Closed' = Closed \cup {s} /\ Att' = Att /\ Lapsed' = Lapsed /\ head' = head
BY Zenon DEF Writers!Close, Att, Told, Row, Filled, Lapsed, Closed

\* The rows written by the abstract actions.  The truth values of `filled' are
\* named, so that a row is the same term wherever it is written.
Empty == FALSE
Full == TRUE

\* The truth values of `filled` are named, so that a row is one value.
LEMMA TruthNames == (\A i : ~Filled(i) => Filled(i) = Empty) /\ (\A i : Filled(i) => Filled(i) = Full)
BY DEF Filled, Empty, Full

\* The rows without an attempt.
LEMMA BlankRows ==
  /\ Writers!Unissued = Row("unissued", Null, Null, Null, Empty)
  /\ Writers!Removed = Row("removed", Null, Null, Null, Empty)
  /\ \A s \in Sessions : [Writers!Unissued EXCEPT !.state = "reserved", !.session = s]
                            = Row("reserved", s, Null, Null, Empty)
<1> DEFINE u == Writers!Unissued
<1>1. u = Row("unissued", Null, Null, Null, Empty)
  BY DEF Row, Writers!Unissued, Empty
<1>2. Writers!Removed = [u EXCEPT !.state = "removed"]
  BY Zenon DEF Writers!Removed
<1>3. u = Writers!Unissued
  OBVIOUS
<1> HIDE DEF u
<1>4. [u EXCEPT !.state = "removed"] = Row("removed", Null, Null, Null, Empty)
  BY <1>1 DEF Row
<1>5. ASSUME NEW s \in Sessions
      PROVE  [Writers!Unissued EXCEPT !.state = "reserved", !.session = s]
               = Row("reserved", s, Null, Null, Empty)
  <2> DEFINE q == [u EXCEPT !.state = "reserved"]
  <2>1. q = Row("reserved", Null, Null, Null, Empty)
    BY <1>1 DEF Row
  <2>2. [Writers!Unissued EXCEPT !.state = "reserved", !.session = s] = [q EXCEPT !.session = s]
    BY Zenon DEF u
  <2> HIDE DEF q
  <2>3. [q EXCEPT !.session = s] = Row("reserved", s, Null, Null, Empty)
    BY <2>1 DEF Row
  <2> QED BY <2>2, <2>3, Zenon
<1> QED BY <1>1, <1>2, <1>3, <1>4, <1>5, Zenon

\* What the abstract actions do to a row, row by row.
LEMMA RowEdits ==
  ASSUME NEW i \in Ids
  PROVE  /\ [Att[i] EXCEPT !.filled = FALSE] = Row(WriterState(i), SessionOf(i), attempts[i].capture, attempts[i].base, Empty)
         /\ [Att[i] EXCEPT !.filled = TRUE] = Row(WriterState(i), SessionOf(i), attempts[i].capture, attempts[i].base, Full)
         /\ [Att[i] EXCEPT !.state = "validated"] = Row("validated", SessionOf(i), attempts[i].capture, attempts[i].base, Filled(i))
         /\ [Att[i] EXCEPT !.state = "activated"] = Row("activated", SessionOf(i), attempts[i].capture, attempts[i].base, Filled(i))
         /\ [Att[i] EXCEPT !.state = "sealed", !.filled = FALSE] = Row("sealed", SessionOf(i), attempts[i].capture, attempts[i].base, Empty)
         /\ [Att[i] EXCEPT !.state = "rejected", !.filled = FALSE] = Row("rejected", SessionOf(i), attempts[i].capture, attempts[i].base, Empty)
<1> DEFINE r == Att[i]
           st == WriterState(i)
           se == SessionOf(i)
           ca == attempts[i].capture
           ba == attempts[i].base
           fi == Filled(i)
           sealed == [r EXCEPT !.state = "sealed"]
           rejected == [r EXCEPT !.state = "rejected"]
<1>1. r = Row(st, se, ca, ba, fi)
  BY DEF Att, Told
<1> HIDE DEF r, st, se, ca, ba, fi
<1>2. [r EXCEPT !.filled = Empty] = Row(st, se, ca, ba, Empty)
  BY <1>1 DEF Row
<1>3. [r EXCEPT !.filled = Full] = Row(st, se, ca, ba, Full)
  BY <1>1 DEF Row
<1>4. [r EXCEPT !.state = "validated"] = Row("validated", se, ca, ba, fi)
  BY <1>1 DEF Row
<1>5. [r EXCEPT !.state = "activated"] = Row("activated", se, ca, ba, fi)
  BY <1>1 DEF Row
<1>6. sealed = Row("sealed", se, ca, ba, fi)
  BY <1>1 DEF Row
<1>7. rejected = Row("rejected", se, ca, ba, fi)
  BY <1>1 DEF Row
<1> HIDE DEF sealed, rejected
<1>9. [sealed EXCEPT !.filled = Empty] = Row("sealed", se, ca, ba, Empty)
  BY <1>6 DEF Row
<1>10. [rejected EXCEPT !.filled = Empty] = Row("rejected", se, ca, ba, Empty)
  BY <1>7 DEF Row
<1>11. /\ [r EXCEPT !.filled = FALSE] = [r EXCEPT !.filled = Empty]
       /\ [r EXCEPT !.filled = TRUE] = [r EXCEPT !.filled = Full]
       /\ [r EXCEPT !.state = "sealed", !.filled = FALSE] = [sealed EXCEPT !.filled = Empty]
       /\ [r EXCEPT !.state = "rejected", !.filled = FALSE] = [rejected EXCEPT !.filled = Empty]
  BY Zenon DEF sealed, rejected, Empty, Full
<1> QED BY <1>2, <1>3, <1>4, <1>5, <1>9, <1>10, <1>11, Zenon DEF r, st, se, ca, ba, fi

\* The row of an attempt that Begin opens.
LEMMA RowOpened ==
  ASSUME NEW i \in Ids, NEW c \in Captures, NEW b \in Ids \cup {Null}, ~Filled(i)
  PROVE  [Att[i] EXCEPT !.state = "open", !.capture = c, !.base = b]
           = Row("open", SessionOf(i), c, b, Empty)
<1> DEFINE r == Att[i]
           open == [r EXCEPT !.state = "open"]
           named == [open EXCEPT !.capture = c]
<1>1. r = Row(WriterState(i), SessionOf(i), attempts[i].capture, attempts[i].base, Empty)
  BY TruthNames DEF Att, Told
<1>2. [Att[i] EXCEPT !.state = "open", !.capture = c, !.base = b] = [named EXCEPT !.base = b]
  BY Zenon
<1> HIDE DEF r
<1>3. open = Row("open", SessionOf(i), attempts[i].capture, attempts[i].base, Empty)
  BY <1>1 DEF Row
<1> HIDE DEF open
<1>4. named = Row("open", SessionOf(i), c, attempts[i].base, Empty)
  BY <1>3 DEF Row
<1> HIDE DEF named
<1>5. [named EXCEPT !.base = b] = Row("open", SessionOf(i), c, b, Empty)
  BY <1>4 DEF Row
<1> QED BY <1>2, <1>5, Zenon

\* A step that changes nothing a writer could tell is a stuttering step.
LEMMA WritersStutter ==
  ASSUME \A k \in Ids : Same(k), head' = head, Closed' = Closed
  PROVE  [Writers!AuthorityNext]_(Writers!authorityVars)
<1>1. Att' = Att
  BY DEF Att, Same
<1>2. Lapsed' = Lapsed
  BY DEF Lapsed, Same
<1> QED BY <1>1, <1>2, WriterVarsMean DEF WriterVars

\* A change of one attempt.
LEMMA OneTold ==
  ASSUME NEW i \in Ids, \A k \in Ids : k # i => Same(k)
  PROVE  /\ Att' = [Att EXCEPT ![i] = Att'[i]]
         /\ Lapsed' = IF i \in Lapsed' THEN Lapsed \cup {i} ELSE Lapsed \ {i}
<1>1. Att' = [Att EXCEPT ![i] = Att'[i]]
  BY DEF Att, Same
<1>2. Lapsed' = IF i \in Lapsed' THEN Lapsed \cup {i} ELSE Lapsed \ {i}
  BY DEF Lapsed, Same
<1> QED BY <1>1, <1>2

\* Reserve and AdoptLegacy are the abstract reservation.
LEMMA EnteringWriters ==
  ASSUME Base, NEW s \in Sessions, NEW o \in Origins, NEW i \in Ids,
         Reserve(s, o, i) \/ AdoptLegacy(s, o, i)
  PROVE  [Writers!AuthorityNext]_(Writers!authorityVars)
<1>1. /\ sessions[s] # "deleted" /\ sessions' = sessions /\ attempts' = attempts /\ parts' = parts
      /\ now' = now /\ fence' = fence /\ head' = head
      /\ i \notin issued /\ issued' = issued \cup {i}
      /\ reservations' = [reservations EXCEPT ![i] = [session |-> s, expires |-> now + Lifetime]]
  BY DEF Reserve, AdoptLegacy, IssueReservation
<1>2. i \notin issued /\ ~Begun(i) /\ WriterState(i) = "unissued" /\ SessionOf(i) = Null
  BY <1>1, WriterStates DEF Base, Reserved, SessionOf
<1>3. \A k \in Ids : k # i => Same(k)
  <2> SUFFICES ASSUME NEW k \in Ids, k # i PROVE Same(k)
    OBVIOUS
  <2>1. /\ reservations'[k] = reservations[k] /\ attempts'[k] = attempts[k]
        /\ PartsOf(k)' = PartsOf(k) /\ (k \in issued' <=> k \in issued)
    BY <1>1 DEF PartsOf, Base, Ground, TypeOK
  <2>2. Live(k)' <=> Live(k)
    BY <1>1, <2>1, LiveSame
  <2> QED BY <2>1, <2>2, ToldSame
<1>4. attempts[i] = NoAttempt /\ attempts'[i] = NoAttempt
  BY <1>1, <1>2 DEF Base, Blank
<1>5. Told(i)' = Row("reserved", s, Null, Null, Empty)
  <2>1. /\ reservations'[i].session = s /\ s # Null /\ i \in issued'
    BY <1>1, ConstantsAssumption DEF Base, Ground, TypeOK
  <2>2. WriterState(i)' = "reserved" /\ Filled(i)' = Empty
    BY <1>4, <2>1 DEF WriterState, Reserved, Begun, NoAttempt, Filled, Empty
  <2>3. attempts'[i].capture = Null /\ attempts'[i].base = Null /\ SessionOf(i)' = s
    BY <1>4, <2>1 DEF SessionOf, NoAttempt
  <2> QED BY <2>2, <2>3 DEF Told
<1>6. i \notin Lapsed /\ i \notin Lapsed'
  BY <1>4 DEF Lapsed, NoAttempt, LiveStates
<1>7. Att[i].state = "unissued" /\ Att'[i] = Told(i)' /\ s \notin Closed /\ Closed' = Closed
  BY <1>1, <1>2 DEF Att, Told, Row, Closed
<1>8. Lapsed' = Lapsed
  BY <1>3, <1>6, OneTold
<1>9. Att' = [Att EXCEPT ![i] = [Writers!Unissued EXCEPT !.state = "reserved", !.session = s]]
  BY <1>3, <1>5, <1>7, OneTold, BlankRows, Zenon
<1>10. Writers!Reserve(s, i)
  BY <1>1, <1>7, <1>8, <1>9, ReserveMeans, Zenon
<1> QED BY <1>10 DEF Writers!AuthorityNext

\* Calls on one attempt leave what is told of the others alone.
LEMMA OthersTold ==
  ASSUME NEW i \in Ids, now' = now, fence' = fence, head' = head, issued' = issued,
         reservations' = reservations,
         \A k \in Ids : k # i => attempts'[k] = attempts[k] /\ PartsOf(k)' = PartsOf(k)
  PROVE  \A k \in Ids : k # i => Same(k)
<1> SUFFICES ASSUME NEW k \in Ids, k # i PROVE Same(k)
  OBVIOUS
<1>1. Live(k)' <=> Live(k)
  BY LiveSame
<1> QED BY <1>1, ToldSame

\* A live attempt one may write to has authority.
LEMMA LiveAllowed ==
  ASSUME Base, NEW i \in Ids, Access(i), Live(i)
  PROVE  /\ Writers!Authority(i) /\ Writers!Admitted(i) /\ i \notin Lapsed
         /\ Begun(i) /\ Reserved(i) /\ i \in issued /\ SessionOf(i) \in Sessions
<1>1. attempts[i].state \in LiveStates /\ Begun(i)
  BY LiveMeans DEF Base, Ground, Begun, LiveStates
<1>2. Reserved(i) /\ i \in issued /\ SessionOf(i) \in Sessions
  BY <1>1 DEF Base, Ground, Authority, RowsKnown, Reserved, SessionOf, TypeOK, ReservationRow
<1>3. SessionOf(i) \notin Closed /\ i \notin Lapsed
  BY DEF Access, Closed, Lapsed
<1>4. WriterState(i) \in Writers!Writable
  BY <1>1, WriterMeans DEF Base
<1>5. Allowed(i)
  BY <1>2, <1>3, <1>4 DEF Allowed, Att, Told, Row, Reserved, SessionOf
<1> QED BY <1>1, <1>2, <1>3, <1>5, WriterNames DEF Allowed

\* Begin opens the writer's own row and takes the authority of its rivals.
LEMMA BeginningWriters ==
  ASSUME Base, TypeOK', NEW i \in Ids, NEW c \in Captures, NEW b \in Ids \cup {Null}, Begin(i, c, b)
  PROVE  [Writers!AuthorityNext]_(Writers!authorityVars)
<1>1. PICK s \in Sessions : s = SessionOf(i) /\ Reserved(i) /\ ~Begun(i) /\ sessions[s] # "deleted"
  BY DEF Begin, Access, Reserved, SessionOf, Base, Ground, TypeOK, ReservationRow
<1>2. /\ reservations' = reservations /\ head' = head /\ issued' = issued /\ now' = now
      /\ parts' = parts /\ sessions' = sessions /\ b = head[s] /\ reservations[i].expires > now
      /\ \A j \in Ids : j # i => attempts'[j] = attempts[j]
      /\ attempts'[i] = [NoAttempt EXCEPT !.state = "open", !.capture = c, !.base = b,
           !.fence = fence[s] + 1, !.lease = Smaller(reservations[i].expires, now + LeaseLifetime)]
      /\ fence'[s] = fence[s] + 1 /\ \A t \in Sessions : t # s => fence'[t] = fence[t]
  BY <1>1 DEF Begin, Base, Ground, TypeOK
<1>3. PartsOf(i)' = {}
  BY <1>1, <1>2 DEF PartsOf, Base, Ground, LedgerInv, PartsBegun
<1>4. attempts[i] = NoAttempt
  BY <1>1 DEF Base, Blank
<1>5. i \notin Lapsed /\ i \notin Lapsed'
  <2>1. now \in Nat /\ LeaseLifetime \in Nat \ {0} /\ reservations[i].expires \in Nat /\ fence[s] \in Nat
    BY ConstantsAssumption DEF Base, Ground, TypeOK, ReservationRow
  <2>2. attempts'[i].lease > now' /\ reservations'[i].expires > now'
    BY <1>2, <2>1 DEF Smaller, NoAttempt
  <2>3. /\ attempts'[i].fence = fence'[s] /\ attempts'[i].base = head'[s]
        /\ attempts'[i].state = "open" /\ SessionOf(i)' = s
        /\ attempts'[i].lease \in Nat
    BY <1>1, <1>2, <2>1 DEF SessionOf, NoAttempt, Smaller
  <2>4. Live(i)'
    BY <2>1, <2>2, <2>3, <1>2 DEF Live, EffectiveState, Superseded, Expired, LiveStates
  <2> QED BY <1>4, <2>4 DEF Lapsed, NoAttempt, LiveStates
<1>6. WriterState(i) = "reserved" /\ ~Filled(i)
  BY <1>1, <1>4, WriterStates DEF Base, NoAttempt, Filled, Empty
<1>7. Told(i)' = Row("open", s, c, b, Empty)
  <2>1. attempts'[i].state = "open" /\ attempts'[i].capture = c /\ attempts'[i].base = b
    BY <1>2 DEF NoAttempt
  <2>2. i \in issued' /\ Reserved(i)' /\ Begun(i)' /\ SessionOf(i)' = s
    BY <1>1, <1>2, <2>1 DEF Base, Ground, Authority, RowsKnown, Reserved, SessionOf, Begun
  <2>3. WriterState(i)' = "open" /\ Filled(i)' = Empty
    BY <1>3, <2>1, <2>2 DEF WriterState, Filled, WireParts, Empty
  <2> QED BY <2>1, <2>2, <2>3 DEF Told
<1>8. \A k \in Ids : (k # i /\ k \notin Challenged(i)) => Same(k)
  <2> SUFFICES ASSUME NEW k \in Ids, k # i, k \notin Challenged(i) PROVE Same(k)
    OBVIOUS
  <2>1. /\ reservations'[k] = reservations[k] /\ attempts'[k] = attempts[k]
        /\ PartsOf(k)' = PartsOf(k) /\ (k \in issued' <=> k \in issued)
    BY <1>2 DEF PartsOf
  <2>2. CASE SessionOf(k) = s
    <3>1. attempts[k].state \notin LiveStates
      BY <1>1, <2>2, WriterMeans DEF Challenged, Att, Told, Row, Base
    <3>2. ~Live(k) /\ ~Live(k)'
      BY <2>1, <3>1 DEF Live, EffectiveState, LiveStates
    <3> QED BY <2>1, <3>2, ToldSame
  <2>3. CASE SessionOf(k) # s
    <3>1. Begun(k) => SessionOf(k) \in Sessions
      BY DEF Base, Ground, Authority, RowsKnown, Reserved, SessionOf, TypeOK, ReservationRow
    <3>2. Live(k)' <=> Live(k)
      BY <1>2, <2>1, <2>3, <3>1, LiveSame
    <3> QED BY <2>1, <3>2, ToldSame
  <2> QED BY <2>2, <2>3
<1>9. \A k \in Challenged(i) : Told(k)' = [Att[k] EXCEPT !.filled = FALSE] /\ k \in Lapsed'
  <2> SUFFICES ASSUME NEW k \in Challenged(i)
               PROVE  Told(k)' = [Att[k] EXCEPT !.filled = FALSE] /\ k \in Lapsed'
    OBVIOUS
  <2>1. /\ k \in Ids /\ k # i /\ SessionOf(k) = s /\ attempts[k].state \in LiveStates
    BY <1>1, WriterMeans DEF Challenged, Att, Told, Row, Base
  <2>2. /\ reservations'[k] = reservations[k] /\ attempts'[k] = attempts[k]
        /\ (k \in issued' <=> k \in issued)
    BY <1>2, <2>1
  <2>3. /\ SessionOf(k)' = SessionOf(k) /\ Reserved(k)' = Reserved(k) /\ Begun(k)' = Begun(k)
    BY <2>2 DEF SessionOf, Reserved, Begun
  <2>4. WriterState(k)' = WriterState(k)
    BY <2>2, <2>3 DEF WriterState
  <2>5. attempts[k].fence <= fence[s] /\ attempts[k].fence \in Nat /\ fence[s] \in Nat
    BY <2>1 DEF Base, Ground, Authority, FencesOwned, Begun, LiveStates, TypeOK, AttemptRow
  <2>6. attempts'[k].fence # fence'[SessionOf(k)']
    BY <1>2, <2>1, <2>2, <2>3, <2>5
  <2>7. ~Live(k)'
    BY <2>6 DEF Live, EffectiveState, Superseded, SessionOf, LiveStates
  <2>8. Filled(k)' = Empty
    BY <2>7 DEF Filled, Empty
  <2>9. Told(k)' = [Att[k] EXCEPT !.filled = FALSE]
    <3>1. Told(k)' = Row(WriterState(k), SessionOf(k), attempts[k].capture, attempts[k].base, Empty)
      BY <2>2, <2>3, <2>4, <2>8 DEF Told
    <3> QED BY <2>1, <3>1, RowEdits, Zenon
  <2> QED BY <2>1, <2>2, <2>7, <2>9 DEF Lapsed
<1>10. Att' = [Writers!Losing(Writers!Rivals(i)) EXCEPT ![i] =
                 [@ EXCEPT !.state = "open", !.capture = c, !.base = b]]
  <2>1. i \notin Challenged(i) /\ Challenged(i) \subseteq Ids
    BY DEF Challenged
  <2>2. Att' = [Faded(Challenged(i)) EXCEPT ![i] =
                  [@ EXCEPT !.state = "open", !.capture = c, !.base = b]]
    <3>1. Told(i)' = [Att[i] EXCEPT !.state = "open", !.capture = c, !.base = b]
      BY <1>1, <1>6, <1>7, RowOpened, Zenon
    <3>2. Faded(Challenged(i))[i] = Att[i]
      BY <2>1 DEF Faded
    <3>3. \A k \in Ids : k # i => Att'[k] = Faded(Challenged(i))[k]
      <4> SUFFICES ASSUME NEW k \in Ids, k # i PROVE Told(k)' = Faded(Challenged(i))[k]
        BY DEF Att
      <4>1. CASE k \in Challenged(i)
        BY <1>9, <4>1 DEF Faded
      <4>2. CASE k \notin Challenged(i)
        BY <1>8, <4>2 DEF Faded, Att, Same
      <4> QED BY <4>1, <4>2
    <3>4. Att' = [Faded(Challenged(i)) EXCEPT ![i] = Told(i)']
      BY <3>3 DEF Att, Faded
    <3> QED BY <3>1, <3>2, <3>4, Zenon
  <2> QED BY <2>2, WriterNames
<1>11. Lapsed' = Lapsed \cup Writers!Rivals(i)
  <2>1. i \notin Challenged(i) /\ Challenged(i) \subseteq Ids
    BY DEF Challenged
  <2>2. Lapsed' = Lapsed \cup Challenged(i)
    BY <1>5, <1>8, <1>9, <2>1 DEF Same, Lapsed
  <2> QED BY <2>2, WriterNames
<1>12. Writers!Admitted(i) /\ Att[i].state = "reserved" /\ b = head[Att[i].session] /\ Closed' = Closed
  <2>1. Att[i].state = "reserved" /\ Att[i].session = s
    BY <1>1, <1>6 DEF Att, Told, Row
  <2>2. s # Null /\ s \notin Closed /\ Closed' = Closed
    BY <1>1, <1>2, ConstantsAssumption DEF Closed
  <2> QED BY <1>2, <2>1, <2>2, WriterNames
<1>13. Writers!Begin(i, c, b)
  BY <1>2, <1>10, <1>11, <1>12, BeginMeans, Zenon
<1> QED BY <1>13, Zenon DEF Writers!AuthorityNext

\* What becomes of the row of an attempt that a call writes.
LEMMA OwnTold ==
  ASSUME Base, NEW i \in Ids, Begun(i), reservations' = reservations, issued' = issued,
         attempts'[i].state # "none",
         attempts'[i].capture = attempts[i].capture, attempts'[i].base = attempts[i].base
  PROVE  Told(i)' = Row(IF attempts'[i].state = "validating" THEN "sealed" ELSE attempts'[i].state,
                        SessionOf(i), attempts[i].capture, attempts[i].base, Filled(i)')
<1>1. i \in issued' /\ Reserved(i)' /\ Begun(i)' /\ SessionOf(i)' = SessionOf(i)
  BY DEF Base, Ground, Authority, RowsKnown, Reserved, SessionOf, Begun
<1>2. WriterState(i)' = IF attempts'[i].state = "validating" THEN "sealed" ELSE attempts'[i].state
  BY <1>1 DEF WriterState
<1> QED BY <1>1, <1>2 DEF Told

\* A call within an attempt's authority leaves it there.
LEMMA LiveKept ==
  ASSUME Base, TypeOK', NEW i \in Ids, Live(i), now' = now, fence' = fence, head' = head,
         reservations' = reservations, attempts'[i].state \in LiveStates,
         attempts'[i].fence = attempts[i].fence, attempts'[i].base = attempts[i].base,
         attempts'[i].lease >= attempts[i].lease
  PROVE  Live(i)' /\ i \notin Lapsed'
<1>1. ~Superseded(i) /\ ~Expired(i)
  BY LiveMeans DEF Base, Ground
<1>2. now \in Nat /\ attempts[i].lease \in Nat /\ attempts'[i].lease \in Nat
  BY DEF Base, Ground, TypeOK, AttemptRow
<1>3. ~Superseded(i)' /\ ~Expired(i)'
  BY <1>1, <1>2 DEF Superseded, Expired, SessionOf
<1>4. Live(i)'
  BY <1>3 DEF Live, EffectiveState, LiveStates
<1> QED BY <1>4 DEF Lapsed

\* Put fills the open row, or tells the writer nothing new.
LEMMA PutWriters ==
  ASSUME Base, TypeOK', NEW i \in Ids, NEW n, NEW b, Put(i, n, b)
  PROVE  [Writers!AuthorityNext]_(Writers!authorityVars)
<1>1. /\ Access(i) /\ Live(i) /\ attempts[i].state = "open" /\ attempts' = attempts
      /\ now' = now /\ fence' = fence /\ head' = head /\ issued' = issued
      /\ reservations' = reservations /\ sessions' = sessions
      /\ parts' = parts \cup {WirePart(i, n, b)}
  BY DEF Put
<1>2. Writers!Authority(i) /\ i \notin Lapsed /\ Begun(i)
  BY <1>1, LiveAllowed
<1>3. \A k \in Ids : k # i => Same(k)
  <2>1. \A k \in Ids : k # i => PartsOf(k)' = PartsOf(k)
    BY <1>1 DEF PartsOf, WirePart
  <2> QED BY <1>1, <2>1, OthersTold
<1>4. Live(i)' /\ i \notin Lapsed'
  <2>1. attempts[i].lease >= attempts[i].lease
    BY DEF Base, Ground, TypeOK, AttemptRow
  <2> QED BY <1>1, <2>1, LiveKept DEF LiveStates
<1>5. Filled(i)' = Full
  <2>1. WirePart(i, n, b) \in WireParts(i)'
    BY <1>1 DEF WireParts, PartsOf, WirePart
  <2> QED BY <1>1, <1>4, <2>1 DEF Filled, Full
<1>6. Told(i)' = [Att[i] EXCEPT !.filled = TRUE]
  <2>1. WriterState(i) = "open"
    BY <1>1, WriterMeans DEF Base
  <2>2. Told(i)' = Row("open", SessionOf(i), attempts[i].capture, attempts[i].base, Full)
    BY <1>1, <1>2, <1>5, OwnTold
  <2> QED BY <2>1, <2>2, RowEdits, Zenon
<1>7. Att' = [Att EXCEPT ![i].filled = TRUE]
  <2>1. Att' = [Att EXCEPT ![i] = Att'[i]] /\ Att'[i] = Told(i)'
    BY <1>3, OneTold DEF Att
  <2> QED BY <1>6, <2>1, Zenon
<1>8. Lapsed' = Lapsed /\ Closed' = Closed
  BY <1>1, <1>2, <1>3, <1>4, OneTold DEF Closed
<1>9. Att[i].state = "open"
  BY <1>1, WriterMeans DEF Base, Att, Told, Row
<1>10. Writers!Put(i)
  BY <1>1, <1>2, <1>7, <1>8, <1>9, PutMeans, Zenon
<1> QED BY <1>10, Zenon DEF Writers!AuthorityNext

\* Seal freezes the row.
LEMMA SealWriters ==
  ASSUME Base, TypeOK', NEW i \in Ids, NEW m \in Manifests, Seal(i, m)
  PROVE  [Writers!AuthorityNext]_(Writers!authorityVars)
<1>1. /\ Access(i) /\ Live(i) /\ attempts[i].seal = <<>> /\ ManifestMatches(i, m)
      /\ now' = now /\ fence' = fence /\ head' = head /\ issued' = issued
      /\ reservations' = reservations /\ sessions' = sessions /\ parts' = parts
      /\ attempts'[i].state = "sealed" /\ attempts'[i].capture = attempts[i].capture
      /\ attempts'[i].base = attempts[i].base /\ attempts'[i].fence = attempts[i].fence
      /\ attempts'[i].lease = attempts[i].lease
      /\ \A k \in Ids : k # i => attempts'[k] = attempts[k]
  BY DEF Seal, Base, Ground, TypeOK, AttemptRow
<1>2. Writers!Authority(i) /\ i \notin Lapsed /\ Begun(i)
  BY <1>1, LiveAllowed
<1>3. \A k \in Ids : k # i => Same(k)
  BY <1>1, OthersTold DEF PartsOf
<1>4. Live(i)' /\ i \notin Lapsed'
  <2>1. attempts'[i].lease >= attempts[i].lease
    BY <1>1 DEF Base, Ground, TypeOK, AttemptRow
  <2> QED BY <1>1, <2>1, LiveKept DEF LiveStates
<1>5. attempts[i].state = "open"
  <2>1. Target(i)
    BY <1>1 DEF Base, TargetsOK, Intact
  <2>2. attempts[i].seal \notin Manifests
    BY <1>1, ManifestShape
  <2> QED BY <2>1, <2>2 DEF Target, Prepared, Normalized
<1>6. Filled(i)
  <2>1. PICK p \in WireParts(i) : p.body = m[1]
    BY <1>1, ManifestOrdinals, ManifestShape
  <2> QED BY <1>1, <1>5, <2>1 DEF Filled
<1>7. Told(i)' = [Att[i] EXCEPT !.state = "sealed", !.filled = FALSE]
  <2>1. Filled(i)' = Empty
    BY <1>1 DEF Filled, Empty
  <2>2. Told(i)' = Row("sealed", SessionOf(i), attempts[i].capture, attempts[i].base, Empty)
    BY <1>1, <1>2, <2>1, OwnTold
  <2> QED BY <2>2, RowEdits, Zenon
<1>8. Att' = [Att EXCEPT ![i] = [@ EXCEPT !.state = "sealed", !.filled = FALSE]]
  <2>1. Att' = [Att EXCEPT ![i] = Att'[i]] /\ Att'[i] = Told(i)'
    BY <1>3, OneTold DEF Att
  <2> QED BY <1>7, <2>1, Zenon
<1>9. Lapsed' = Lapsed /\ Closed' = Closed
  BY <1>1, <1>2, <1>3, <1>4, OneTold DEF Closed
<1>10. Att[i].state = "open" /\ Att[i].filled
  BY <1>5, <1>6, WriterMeans DEF Base, Att, Told, Row
<1>11. Writers!Seal(i)
  BY <1>1, <1>2, <1>8, <1>9, <1>10, SealMeans, Zenon
<1> QED BY <1>11, Zenon DEF Writers!AuthorityNext

\* Validation is seen by a writer when it ends; a unit of it is a stuttering step.
LEMMA ValidationWriters ==
  ASSUME Base, TypeOK', NEW i \in Ids, Access(i), Live(i),
         attempts[i].state \in {"sealed", "validating"},
         attempts'[i].state \in {"validating", "validated"},
         now' = now, fence' = fence, head' = head, issued' = issued, sessions' = sessions,
         reservations' = reservations,
         attempts'[i].capture = attempts[i].capture, attempts'[i].base = attempts[i].base,
         attempts'[i].fence = attempts[i].fence, attempts'[i].lease = attempts[i].lease,
         \A k \in Ids : k # i => attempts'[k] = attempts[k] /\ PartsOf(k)' = PartsOf(k)
  PROVE  [Writers!AuthorityNext]_(Writers!authorityVars)
<1>1. Writers!Authority(i) /\ i \notin Lapsed /\ Begun(i)
  BY LiveAllowed
<1>2. \A k \in Ids : k # i => Same(k)
  BY OthersTold
<1>3. Live(i)' /\ i \notin Lapsed'
  <2>1. attempts'[i].lease >= attempts[i].lease
    BY DEF Base, Ground, TypeOK, AttemptRow
  <2> QED BY <2>1, LiveKept DEF LiveStates
<1>4. Filled(i)' = Empty /\ Filled(i) = Empty /\ WriterState(i) = "sealed"
  BY WriterMeans DEF Filled, Empty, Base
<1>5. Lapsed' = Lapsed /\ Closed' = Closed
  BY <1>1, <1>2, <1>3, OneTold DEF Closed
<1>6. CASE attempts'[i].state = "validating"
  <2>1. Told(i)' = Row("sealed", SessionOf(i), attempts[i].capture, attempts[i].base, Empty)
    BY <1>1, <1>4, <1>6, OwnTold
  <2>2. Told(i)' = Told(i)
    BY <1>4, <2>1 DEF Told
  <2>3. \A k \in Ids : Same(k)
    BY <1>1, <1>2, <1>3, <2>2 DEF Same
  <2> QED BY <1>5, <2>3, WritersStutter
<1>7. CASE attempts'[i].state = "validated"
  <2>1. Told(i)' = Row("validated", SessionOf(i), attempts[i].capture, attempts[i].base, Filled(i))
    BY <1>1, <1>4, <1>7, OwnTold
  <2>2. Told(i)' = [Att[i] EXCEPT !.state = "validated"]
    BY <2>1, RowEdits, Zenon
  <2>3. Att' = [Att EXCEPT ![i] = Att'[i]] /\ Att'[i] = Told(i)'
    BY <1>2, OneTold DEF Att
  <2>4. Att' = [Att EXCEPT ![i].state = "validated"]
    BY <2>2, <2>3, Zenon
  <2>5. Att[i].state = "sealed"
    BY <1>4 DEF Att, Told, Row
  <2>6. Writers!Validate(i)
    BY <1>1, <1>5, <2>4, <2>5, ValidateMeans, Zenon
  <2> QED BY <2>6, Zenon DEF Writers!AuthorityNext
<1> QED BY <1>6, <1>7

\* A bounded call of Validate is a stutter until the last part is done.
LEMMA ValidatingWriters ==
  ASSUME Base, TypeOK', NEW i \in Ids, Validating(i)
  PROVE  [Writers!AuthorityNext]_(Writers!authorityVars)
<1>1. ASSUME NEW p \in PartsOf(i), ValidatePart(i, p)
      PROVE  [Writers!AuthorityNext]_(Writers!authorityVars)
  <2>1. /\ Access(i) /\ Live(i) /\ attempts[i].state \in {"sealed", "validating"}
        /\ now' = now /\ fence' = fence /\ head' = head /\ issued' = issued
        /\ reservations' = reservations /\ sessions' = sessions
        /\ parts' = (parts \ {p}) \cup {FixedPart(p)}
    BY <1>1 DEF ValidatePart
  <2>2. /\ attempts'[i].state \in {"validating", "validated"}
        /\ attempts'[i].capture = attempts[i].capture /\ attempts'[i].base = attempts[i].base
        /\ attempts'[i].fence = attempts[i].fence /\ attempts'[i].lease = attempts[i].lease
        /\ \A k \in Ids : k # i => attempts'[k] = attempts[k]
    <3>1. \E x \in {"validating", "validated"} :
            attempts' = [attempts EXCEPT ![i] =
              [@ EXCEPT !.validated = attempts[i].validated + 1, !.state = x]]
      BY <1>1, Zenon DEF ValidatePart
    <3>2. attempts \in [Ids -> AttemptRow]
      BY DEF Base, Ground, TypeOK
    <3> QED BY <3>1, <3>2 DEF AttemptRow
  <2>3. \A k \in Ids : k # i => PartsOf(k)' = PartsOf(k)
    BY <1>1, <2>1 DEF PartsOf, FixedPart
  <2> QED BY <2>1, <2>2, <2>3, ValidationWriters
<1>2. ASSUME NEW done \in BOOLEAN, NEW chunk \in SUBSET Remaining(i), ValidateRetention(i, chunk, done)
      PROVE  [Writers!AuthorityNext]_(Writers!authorityVars)
  <2>1. /\ Access(i) /\ Live(i) /\ attempts[i].state \in {"sealed", "validating"}
        /\ now' = now /\ fence' = fence /\ head' = head /\ issued' = issued
        /\ reservations' = reservations /\ sessions' = sessions
        /\ parts' = parts \/ parts' = parts \cup {DerivedPart(i, chunk)}
    BY <1>2 DEF ValidateRetention
  <2>2. /\ attempts'[i].state \in {"validating", "validated"}
        /\ attempts'[i].capture = attempts[i].capture /\ attempts'[i].base = attempts[i].base
        /\ attempts'[i].fence = attempts[i].fence /\ attempts'[i].lease = attempts[i].lease
        /\ \A k \in Ids : k # i => attempts'[k] = attempts[k]
    BY <1>2 DEF ValidateRetention, Base, Ground, TypeOK, AttemptRow
  <2>3. \A k \in Ids : k # i => PartsOf(k)' = PartsOf(k)
    BY <2>1 DEF PartsOf, DerivedPart
  <2> QED BY <2>1, <2>2, <2>3, ValidationWriters
<1> QED BY <1>1, <1>2 DEF Validating

\* A renewal only extends a live lease: a writer can tell no difference.
LEMMA RenewWriters ==
  ASSUME Base, TypeOK', NEW i \in Ids, Renew(i)
  PROVE  [Writers!AuthorityNext]_(Writers!authorityVars)
<1>1. /\ Access(i) /\ Live(i)
      /\ now' = now /\ fence' = fence /\ head' = head /\ issued' = issued
      /\ reservations' = reservations /\ sessions' = sessions /\ parts' = parts
      /\ attempts'[i].state = attempts[i].state /\ attempts'[i].capture = attempts[i].capture
      /\ attempts'[i].base = attempts[i].base /\ attempts'[i].fence = attempts[i].fence
      /\ attempts'[i].lease = Larger(attempts[i].lease, Smaller(reservations[i].expires, now + LeaseLifetime))
      /\ \A k \in Ids : k # i => attempts'[k] = attempts[k]
  BY DEF Renew, Base, Ground, TypeOK, AttemptRow
<1>2. i \notin Lapsed /\ Begun(i) /\ attempts[i].state \in LiveStates
  BY <1>1, LiveAllowed, LiveMeans DEF Base, Ground
<1>3. \A k \in Ids : k # i => Same(k)
  BY <1>1, OthersTold DEF PartsOf
<1>4. Live(i)' /\ i \notin Lapsed'
  <2>1. attempts[i].lease \in Nat /\ attempts'[i].lease \in Nat
    BY DEF Base, Ground, TypeOK, AttemptRow
  <2>2. attempts'[i].lease >= attempts[i].lease
    <3> DEFINE l == Smaller(reservations[i].expires, now + LeaseLifetime)
    <3>1. l \in Nat
      BY Lifetimes DEF Smaller, Base, Ground, TypeOK, ReservationRow
    <3> HIDE DEF l
    <3> QED BY <1>1, <2>1, <3>1 DEF Larger, l
  <2> QED BY <1>1, <1>2, <2>2, LiveKept
<1>5. Filled(i)' = Filled(i)
  BY <1>1, <1>4 DEF Filled, WireParts, PartsOf
<1>6. Told(i)' = Told(i)
  <2>1. Reserved(i)' = Reserved(i) /\ Begun(i)' = Begun(i) /\ SessionOf(i)' = SessionOf(i)
    BY <1>1 DEF Reserved, Begun, SessionOf
  <2>2. WriterState(i)' = WriterState(i)
    BY <1>1, <2>1 DEF WriterState
  <2> QED BY <1>1, <1>5, <2>1, <2>2 DEF Told
<1>7. \A k \in Ids : Same(k)
  BY <1>2, <1>3, <1>4, <1>6 DEF Same
<1> QED BY <1>1, <1>7, WritersStutter DEF Closed

\* Reject ends the row and nothing else.
LEMMA RejectWriters ==
  ASSUME Base, NEW i \in Ids, Reject(i)
  PROVE  [Writers!AuthorityNext]_(Writers!authorityVars)
<1>1. /\ Access(i) /\ Begun(i) /\ attempts[i].state # "activated"
      /\ now' = now /\ fence' = fence /\ head' = head /\ issued' = issued
      /\ reservations' = reservations /\ sessions' = sessions /\ parts' = parts
      /\ attempts'[i].state = "rejected" /\ attempts'[i].capture = attempts[i].capture
      /\ attempts'[i].base = attempts[i].base
      /\ \A k \in Ids : k # i => attempts'[k] = attempts[k]
  BY DEF Reject, Base, Ground, TypeOK, AttemptRow
<1>2. \A k \in Ids : k # i => Same(k)
  BY <1>1, OthersTold DEF PartsOf
<1>3. Told(i)' = [Att[i] EXCEPT !.state = "rejected", !.filled = FALSE]
  <2>1. Filled(i)' = Empty
    BY <1>1 DEF Filled, Empty
  <2>2. Told(i)' = Row("rejected", SessionOf(i), attempts[i].capture, attempts[i].base, Empty)
    BY <1>1, <2>1, OwnTold
  <2> QED BY <2>2, RowEdits, Zenon
<1>4. Att' = [Att EXCEPT ![i] = [@ EXCEPT !.state = "rejected", !.filled = FALSE]]
  <2>1. Att' = [Att EXCEPT ![i] = Att'[i]] /\ Att'[i] = Told(i)'
    BY <1>2, OneTold DEF Att
  <2> QED BY <1>3, <2>1, Zenon
<1>5. Lapsed' = Lapsed \ {i} /\ Closed' = Closed
  <2>1. i \notin Lapsed'
    BY <1>1 DEF Lapsed, LiveStates
  <2> QED BY <1>1, <1>2, <2>1, OneTold DEF Closed
<1>6. Writers!Admitted(i)
  <2>1. Reserved(i) /\ SessionOf(i) \notin Closed
    BY <1>1 DEF Access, Closed
  <2>2. Att[i].session = SessionOf(i) /\ SessionOf(i) # Null
    BY <2>1 DEF Att, Told, Row, Reserved, SessionOf
  <2> QED BY <2>1, <2>2, WriterNames
<1>7. Att[i].state \in Writers!Writable \cup {"rejected"}
  <2>1. attempts[i].state \in LiveStates \cup {"rejected"}
    BY <1>1 DEF Begun, Base, Ground, TypeOK, AttemptRow
  <2> QED BY <2>1, WriterMeans DEF Base, Att, Told, Row
<1>8. Writers!Reject(i)
  BY <1>1, <1>4, <1>5, <1>6, <1>7, RejectMeans, Zenon
<1> QED BY <1>8, Zenon DEF Writers!AuthorityNext

\* Activation moves the head from the row's base and ends its rivals.
LEMMA ActivateWriters ==
  ASSUME Base, TypeOK', [Next]_vars, NEW i \in Ids, Activate(i)
  PROVE  [Writers!AuthorityNext]_(Writers!authorityVars)
<1>1. /\ Access(i) /\ Live(i) /\ attempts[i].state = "validated"
      /\ now' = now /\ fence' = fence /\ issued' = issued
      /\ reservations' = reservations /\ parts' = parts
      /\ head' = [head EXCEPT ![SessionOf(i)] = i]
      /\ sessions' = [sessions EXCEPT ![SessionOf(i)] = "active"]
      /\ attempts'[i].state = "activated" /\ attempts'[i].capture = attempts[i].capture
      /\ attempts'[i].base = attempts[i].base
      /\ \A k \in Ids : k # i => attempts'[k] = attempts[k]
  BY DEF Activate, Base, Ground, TypeOK, AttemptRow
<1>2. /\ Writers!Authority(i) /\ i \notin Lapsed /\ Begun(i) /\ Reserved(i) /\ SessionOf(i) \in Sessions
      /\ sessions[SessionOf(i)] # "deleted" /\ attempts[i].base = head[SessionOf(i)]
  BY <1>1, LiveAllowed, LiveMeans DEF Access, Superseded, Base, Ground
<1>3. \A k \in Ids : k # i => Same(k)
  <2> SUFFICES ASSUME NEW k \in Ids, k # i PROVE Same(k)
    OBVIOUS
  <2>1. attempts'[k] = attempts[k] /\ PartsOf(k)' = PartsOf(k)
    BY <1>1 DEF PartsOf
  <2>2. Live(k)' <=> Live(k)
    <3>1. CASE Begun(k) /\ SessionOf(k) = SessionOf(i)
      <4>1. ~Live(k)
        BY <1>1, <1>2, <3>1, ActivationIsAlone DEF Base
      <4>2. ~Live(k)'
        BY <3>1, <4>1, NeverRevived DEF Base, Ground
      <4> QED BY <4>1, <4>2
    <3>2. CASE Begun(k) /\ SessionOf(k) # SessionOf(i)
      <4>1. SessionOf(k) \in Sessions /\ head \in [Sessions -> Ids \cup {Null}]
        BY <3>2 DEF Base, Ground, Authority, RowsKnown, Reserved, SessionOf, TypeOK, ReservationRow
      <4>2. head'[SessionOf(k)] = head[SessionOf(k)]
        BY <1>1, <3>2, <4>1
      <4> QED BY <1>1, <2>1, <4>2, LiveSame
    <3>3. CASE ~Begun(k)
      BY <2>1, <3>3, LiveSame
    <3> QED BY <3>1, <3>2, <3>3
  <2> QED BY <1>1, <2>1, <2>2, ToldSame
<1>4. Told(i)' = [Att[i] EXCEPT !.state = "activated"]
  <2>1. Filled(i)' = Empty /\ Filled(i) = Empty
    BY <1>1 DEF Filled, Empty
  <2>2. Told(i)' = Row("activated", SessionOf(i), attempts[i].capture, attempts[i].base, Filled(i))
    BY <1>1, <1>2, <2>1, OwnTold
  <2> QED BY <2>2, RowEdits, Zenon
<1>5. Att' = [Att EXCEPT ![i].state = "activated"]
  <2>1. Att' = [Att EXCEPT ![i] = Att'[i]] /\ Att'[i] = Told(i)'
    BY <1>3, OneTold DEF Att
  <2> QED BY <1>4, <2>1, Zenon
<1>6. Lapsed' = Lapsed
  <2>1. i \notin Lapsed'
    BY <1>1 DEF Lapsed, LiveStates
  <2> QED BY <1>2, <1>3, <2>1, OneTold
<1>7. Closed' = Closed
  BY <1>1, <1>2 DEF Closed, Base, Ground, TypeOK
<1>8. Att[i].state = "validated" /\ Att[i].base = head[Att[i].session] /\ Att[i].session = SessionOf(i)
  BY <1>1, <1>2, WriterMeans DEF Base, Att, Told, Row
<1>9. head' = [head EXCEPT ![Att[i].session] = i]
  BY <1>1, <1>8
<1>10. Writers!Activate(i)
  BY <1>2, <1>5, <1>6, <1>7, <1>8, <1>9, ActivateMeans, Zenon
<1> QED BY <1>10, Zenon DEF Writers!AuthorityNext

\* Time takes the authority of those whose lease or reservation runs out.
LEMMA TickWriters ==
  ASSUME Base, TypeOK', [Next]_vars, Tick
  PROVE  [Writers!AuthorityNext]_(Writers!authorityVars)
<1>0. PICK L \in SUBSET Ids : L = {k \in Ids : Live(k) /\ ~Live(k)'}
  <2> DEFINE M == {k \in Ids : Live(k) /\ ~Live(k)'}
  <2>1. M \in SUBSET Ids
    OBVIOUS
  <2> QED BY <2>1, Zenon
<1>1. /\ attempts' = attempts /\ parts' = parts /\ reservations' = reservations /\ issued' = issued
      /\ head' = head /\ sessions' = sessions
  BY DEF Tick
<1>2. \A k \in Ids : k \notin L => Same(k)
  <2> SUFFICES ASSUME NEW k \in Ids, k \notin L PROVE Same(k)
    OBVIOUS
  <2>0. Live(k) => Live(k)'
    BY <1>0
  <2>1. Live(k)' => Live(k)
    <3>1. CASE Begun(k)
      BY <3>1, NeverRevived DEF Base, Ground
    <3>2. CASE ~Begun(k)
      BY <1>1, <3>2 DEF Begun, Live, EffectiveState, LiveStates
    <3> QED BY <3>1, <3>2
  <2>2. Live(k)' <=> Live(k)
    BY <2>0, <2>1
  <2>3. PartsOf(k)' = PartsOf(k)
    BY <1>1 DEF PartsOf
  <2> QED BY <1>1, <2>2, <2>3, ToldSame
<1>3. \A k \in L : /\ Told(k)' = [Att[k] EXCEPT !.filled = FALSE] /\ k \in Lapsed'
                   /\ Att[k].state \in Writers!Writable
  <2> SUFFICES ASSUME NEW k \in L
               PROVE  /\ Told(k)' = [Att[k] EXCEPT !.filled = FALSE] /\ k \in Lapsed'
                      /\ Att[k].state \in Writers!Writable
    OBVIOUS
  <2>1. k \in Ids /\ ~Live(k)' /\ attempts[k].state \in LiveStates
    BY <1>0, LiveMeans DEF Base, Ground
  <2>2. WriterState(k)' = WriterState(k) /\ SessionOf(k)' = SessionOf(k)
    BY <1>1 DEF WriterState, SessionOf, Reserved, Begun
  <2>3. Filled(k)' = Empty
    BY <2>1 DEF Filled, Empty
  <2>4. Told(k)' = Row(WriterState(k), SessionOf(k), attempts[k].capture, attempts[k].base, Empty)
    BY <1>1, <2>2, <2>3 DEF Told
  <2>5. Told(k)' = [Att[k] EXCEPT !.filled = FALSE]
    BY <2>1, <2>4, RowEdits, Zenon
  <2>6. Att[k].state \in Writers!Writable
    BY <2>1, WriterMeans DEF Base, Att, Told, Row
  <2> QED BY <1>1, <2>1, <2>5, <2>6 DEF Lapsed
<1>4. Closed' = Closed
  BY <1>1 DEF Closed
<1>5. CASE L = {}
  BY <1>1, <1>2, <1>4, <1>5, WritersStutter
<1>6. CASE L # {}
  <2>1. Att' = Faded(L)
    <3>1. \A k \in Ids : Told(k)' = Faded(L)[k]
      <4> SUFFICES ASSUME NEW k \in Ids PROVE Told(k)' = Faded(L)[k]
        OBVIOUS
      <4>1. CASE k \in L
        BY <1>3, <4>1 DEF Faded
      <4>2. CASE k \notin L
        BY <1>2, <4>2 DEF Faded, Att, Same
      <4> QED BY <4>1, <4>2
    <3> QED BY <3>1 DEF Att, Faded
  <2>2. Lapsed' = Lapsed \cup L
    BY <1>2, <1>3 DEF Same, Lapsed
  <2>3. L \subseteq {k \in Ids : Att[k].state \in Writers!Writable}
    BY <1>3
  <2>4. Att' = Writers!Losing(L)
    BY <2>1, WriterNames
  <2>5. Writers!Lose(L)
    BY <1>1, <1>4, <1>6, <2>2, <2>3, <2>4, LoseMeans, Zenon
  <2> QED BY <2>5, Zenon DEF Writers!AuthorityNext
<1> QED BY <1>5, <1>6

\* Cleanup of parts tells a writer nothing; that of reservations forgets rows.
LEMMA ReclaimWriters ==
  ASSUME Base, TypeOK', [Next]_vars, Reclaiming
  PROVE  [Writers!AuthorityNext]_(Writers!authorityVars)
<1>1. PICK R \in SUBSET Reclaimable, D \in SUBSET Ids, limit \in 1..ReclaimLimit : Reclaim(R, D, limit)
  BY DEF Reclaiming
<1>2. /\ now' = now /\ fence' = fence /\ head' = head /\ issued' = issued /\ sessions' = sessions
      /\ \A k \in Ids : k \notin D => attempts'[k] = attempts[k] /\ reservations'[k] = reservations[k]
      /\ \A k \in D : attempts'[k] = NoAttempt /\ reservations'[k] = NoReservation
      /\ \A k \in D : Removable(k, R)
      /\ parts' = {p \in parts \ R : p.attempt \notin D}
  BY <1>1 DEF Reclaim
<1>3. \A k \in Ids : k \notin D => Same(k)
  <2> SUFFICES ASSUME NEW k \in Ids, k \notin D PROVE Same(k)
    OBVIOUS
  <2>1. Live(k)' <=> Live(k)
    BY <1>2, LiveSame
  <2>2. Live(k) => PartsOf(k)' = PartsOf(k)
    <3> SUFFICES ASSUME Live(k) PROVE PartsOf(k)' = PartsOf(k)
      OBVIOUS
    <3>1. \A p \in R : p.attempt # k
      BY IntactIsNotReclaimed DEF Base, Intact
    <3> QED BY <1>2, <3>1 DEF PartsOf
  <2> QED BY <1>2, <2>1, <2>2, ToldSame
<1>4. \A k \in D : Told(k)' = Writers!Removed /\ k \notin Lapsed'
  <2> SUFFICES ASSUME NEW k \in D PROVE Told(k)' = Writers!Removed /\ k \notin Lapsed'
    OBVIOUS
  <2>1. k \in issued
    BY <1>2 DEF Removable, Base, Ground, Authority, RowsKnown
  <2>2. SessionOf(k)' = Null /\ attempts'[k].state = "none" /\ attempts'[k].capture = Null /\ attempts'[k].base = Null
    BY <1>2 DEF SessionOf, NoReservation, NoAttempt
  <2>3. WriterState(k)' = "removed" /\ Filled(k)' = Empty
    BY <1>2, <2>1, <2>2 DEF WriterState, Reserved, Begun, SessionOf, Filled, Empty
  <2>4. Told(k)' = Row("removed", Null, Null, Null, Empty)
    BY <2>2, <2>3 DEF Told
  <2>5. Told(k)' = Writers!Removed
    BY <2>4, BlankRows, Zenon
  <2>6. k \notin Lapsed'
    BY <2>2 DEF Lapsed, LiveStates
  <2> QED BY <2>5, <2>6
<1>5. \A k \in D : Att[k].state \in {"reserved", "rejected"} \/ k \in Lapsed
  <2> SUFFICES ASSUME NEW k \in D PROVE Att[k].state \in {"reserved", "rejected"} \/ k \in Lapsed
    OBVIOUS
  <2>1. Reserved(k) /\ reservations[k].expires <= now /\ attempts[k].state # "activated"
    BY <1>2 DEF Removable, Begun
  <2>2. ~Live(k)
    BY <2>1, LiveMeans DEF Expired, Base, Ground
  <2>3. attempts[k].state \in LiveStates \cup {"none", "rejected"}
    BY <2>1 DEF Base, Ground, TypeOK, AttemptRow
  <2>4. attempts[k].state \in {"none", "rejected"} => Att[k].state \in {"reserved", "rejected"}
    BY <2>1, WriterMeans DEF Base, Att, Told, Row, Begun
  <2> QED BY <2>2, <2>3, <2>4 DEF Lapsed
<1>6. Closed' = Closed
  BY <1>2 DEF Closed
<1>7. CASE D = {}
  BY <1>2, <1>3, <1>6, <1>7, WritersStutter
<1>8. CASE D # {}
  <2>1. Att' = [k \in Ids |-> IF k \in D THEN Writers!Removed ELSE Att[k]]
    BY <1>3, <1>4 DEF Att, Same
  <2>2. Lapsed' = Lapsed \ D
    BY <1>3, <1>4 DEF Same, Lapsed
  <2>3. Writers!Forget(D)
    BY <1>2, <1>5, <1>6, <1>8, <2>1, <2>2, ForgetMeans, Zenon
  <2> QED BY <2>3, Zenon DEF Writers!AuthorityNext
<1> QED BY <1>7, <1>8

\* Deletion closes a Session, and legacy ingestion concerns no attempt.
LEMMA ClosingWriters ==
  ASSUME Base, Deleting \/ Ingesting \/ UNCHANGED vars
  PROVE  [Writers!AuthorityNext]_(Writers!authorityVars)
<1>1. /\ attempts' = attempts /\ parts' = parts /\ reservations' = reservations /\ issued' = issued
      /\ now' = now /\ fence' = fence /\ head' = head
  <2>1. CASE Deleting BY <2>1 DEF Deleting, DeleteSession
  <2>2. CASE Ingesting BY <2>2 DEF Ingesting, LegacyApply
  <2>3. CASE UNCHANGED vars BY <2>3 DEF vars
  <2> QED BY <2>1, <2>2, <2>3
<1>2. \A k \in Ids : Same(k)
  <2> SUFFICES ASSUME NEW k \in Ids PROVE Same(k)
    OBVIOUS
  <2>1. PartsOf(k)' = PartsOf(k)
    BY <1>1 DEF PartsOf
  <2>2. Live(k)' <=> Live(k)
    BY <1>1, LiveSame
  <2> QED BY <1>1, <2>1, <2>2, ToldSame
<1>3. CASE Deleting
  <2>1. PICK s \in Sessions : DeleteSession(s)
    BY <1>3 DEF Deleting
  <2>2. Closed' = Closed \cup {s}
    BY <2>1 DEF DeleteSession, Closed, Base, Ground, TypeOK
  <2>3. Att' = Att /\ Lapsed' = Lapsed
    BY <1>2 DEF Att, Lapsed, Same
  <2>4. Writers!Close(s)
    BY <1>1, <2>2, <2>3, CloseMeans, Zenon
  <2> QED BY <2>4, Zenon DEF Writers!AuthorityNext
<1>4. CASE Ingesting \/ UNCHANGED vars
  <2>1. Closed' = Closed
    <3>1. CASE Ingesting
      <4>1. PICK s \in Sessions, x \in LegacyRecords : LegacyApply(s, x)
        BY <3>1 DEF Ingesting
      <4> QED BY <4>1 DEF LegacyApply, Closed, Base, Ground, TypeOK
    <3>2. CASE UNCHANGED vars
      BY <3>2 DEF vars, Closed
    <3> QED BY <1>4, <3>1, <3>2
  <2> QED BY <1>1, <1>2, <2>1, WritersStutter
<1> QED BY <1>3, <1>4

\* The empty store is the initial state of the protocol.
LEMMA WritersInit == Init => Writers!AuthorityInit
<1> SUFFICES ASSUME Init PROVE Writers!AuthorityInit
  OBVIOUS
<1>1. \A i \in Ids : Told(i) = Writers!Unissued
  <2> SUFFICES ASSUME NEW i \in Ids PROVE Told(i) = Writers!Unissued
    OBVIOUS
  <2>1. /\ i \notin issued /\ SessionOf(i) = Null /\ attempts[i].capture = Null
        /\ attempts[i].base = Null /\ attempts[i].state = "none" /\ Filled(i) = Empty
    BY DEF Init, SessionOf, NoReservation, NoAttempt, Filled, Empty
  <2>2. WriterState(i) = "unissued"
    BY <2>1 DEF WriterState, Reserved, Begun, SessionOf
  <2>3. Told(i) = Row("unissued", Null, Null, Null, Empty)
    BY <2>1, <2>2 DEF Told
  <2> QED BY <2>3, BlankRows, Zenon
<1>2. Att = [i \in Ids |-> Writers!Unissued] /\ Lapsed = {} /\ Closed = {}
  BY <1>1 DEF Att, Lapsed, Closed, Init, NoAttempt, LiveStates
<1>3. Writers!AuthorityInit <=>
        /\ Att = [i \in Ids |-> Writers!Unissued] /\ Lapsed = {}
        /\ head = [s \in Sessions |-> Null] /\ Closed = {}
  BY Zenon DEF Writers!AuthorityInit, Att, Told, Row, Filled, Lapsed, Closed
<1> QED BY <1>2, <1>3 DEF Init

\* Writers see the authority protocol: every call of every writer, and every
\* expiry and cleanup, does to what a writer knows of its attempts, to who may
\* still write and to the selected head what AttemptAuthority says.
THEOREM WritersSeeAttemptAuthority == Spec => ImplementsAttemptAuthority
<1>1. Base /\ TypeOK' /\ [Next]_vars => [Writers!AuthorityNext]_(Writers!authorityVars)
  <2> SUFFICES ASSUME Base, TypeOK', [Next]_vars
               PROVE  [Writers!AuthorityNext]_(Writers!authorityVars)
    OBVIOUS
  <2>1. CASE Entering
    BY <2>1, EnteringWriters DEF Entering
  <2>2. CASE Beginning
    BY <2>2, BeginningWriters DEF Beginning
  <2>3. CASE Preparing
    BY <2>3, PutWriters, SealWriters, ValidatingWriters, RenewWriters, RejectWriters
       DEF Preparing, Uploads, Sealing
  <2> QED BY <2>1, <2>2, <2>3, StepCases, TickWriters, ReclaimWriters, ClosingWriters, ActivateWriters
<1>2. Base => TypeOK
  BY DEF Base, Ground
<1> QED BY <1>1, <1>2, WritersInit, BaseAlways, PTL DEF Spec, ImplementsAttemptAuthority, Writers!AuthoritySpec

-----------------------------------------------------------------------------
(* Accounting                                                              *)
(*                                                                         *)
(* The counters are what quotas are computed from, so the proof follows    *)
(* each write of a part row to the counter that must move with it.  The    *)
(* invariant adds that the rows are finitely many, each one written by a   *)
(* single step; nothing is assumed of the number of identities.            *)

PendingParts == {p \in parts : attempts[p.attempt].state # "activated"}

\* The counters of one attempt row, computed from its part rows.
Counters(i) ==
  [count |-> Cardinality(WireParts(i)),
   derived |-> Cardinality(PartsOf(i) \ WireParts(i)),
   bytes |-> StoredBytes(PartsOf(i))]

Finite ==
  /\ IsFiniteSet(parts)
  /\ \A p \in parts : p.stored \in Nat /\ IsFiniteSet(p.members)
  /\ \A s \in Sessions : IsFiniteSet(legacy[s])
Tallied == storage = [i \in Ids |-> Counters(i)]
Bounded ==
  /\ StoredBytes(PendingParts) <= UserPendingBytes
  /\ \A i \in Ids : StoredBytes(PartsOf(i)) <= TargetBytes
Holdings == Finite /\ IsFiniteSet(PendingIds) /\ Tallied /\ Bounded
Reserving ==
  /\ IsFiniteSet(LiveReservations)
  /\ Cardinality(LiveReservations) <= ReservationLimit

\* The invariant gives the property.
LEMMA AccountingParts == Holdings /\ Reserving => Accounting
BY DEF Holdings, Reserving, Tallied, Bounded, Counters, Accounting, PendingParts

\* No rows take no room.
LEMMA StoredNone == StoredBytes({}) = 0
<1> DEFINE f == [p \in {} |-> p.stored]
<1>1. StoredBytes({}) = SumFunctionOnSet(f, {})
  BY SumOverDomain DEF StoredBytes
<1> HIDE DEF f
<1> QED
  BY <1>1, SumEmpty

\* The bytes of a finite set of rows, and of its subsets.
LEMMA StoredType ==
  ASSUME NEW P, IsFiniteSet(P), \A p \in P : p.stored \in Nat
  PROVE  StoredBytes(P) \in Nat
<1> DEFINE f == [p \in P |-> p.stored]
<1>1. StoredBytes(P) = SumFunctionOnSet(f, P)
  BY SumOverDomain DEF StoredBytes
<1>2. \A p \in P : f[p] \in Nat
  OBVIOUS
<1> HIDE DEF f
<1> QED
  BY <1>1, <1>2, SumNat

\* The bytes of a subset, as a sum over a function of the whole set.
LEMMA StoredWithin ==
  ASSUME NEW P, IsFiniteSet(P), \A p \in P : p.stored \in Nat, NEW T \in SUBSET P
  PROVE  StoredBytes(T) = SumFunctionOnSet([p \in P |-> p.stored], T)
<1> DEFINE f == [p \in P |-> p.stored]
           g == [p \in T |-> p.stored]
<1>1. StoredBytes(T) = SumFunctionOnSet(g, T)
  BY SumOverDomain DEF StoredBytes
<1>2. \A p \in T : f[p] = g[p]
  OBVIOUS
<1>3. IsFiniteSet(T)
  BY FS_Subset
<1> HIDE DEF f, g
<1>4. SumFunctionOnSet(g, T) = SumFunctionOnSet(f, T)
  BY <1>2, <1>3, SumAgree
<1> QED
  BY <1>1, <1>4 DEF f

\* A set of rows is a subset of it and the rest, and the subset is no larger.
LEMMA StoredSplit ==
  ASSUME NEW P, IsFiniteSet(P), \A p \in P : p.stored \in Nat, NEW T \in SUBSET P
  PROVE  /\ StoredBytes(P) = StoredBytes(T) + StoredBytes(P \ T)
         /\ StoredBytes(T) \in Nat /\ StoredBytes(P \ T) \in Nat
         /\ StoredBytes(T) <= StoredBytes(P)
<1> DEFINE f == [p \in P |-> p.stored]
<1>1. \A U \in SUBSET P : StoredBytes(U) = SumFunctionOnSet(f, U)
  BY StoredWithin
<1>2. \A p \in P : f[p] \in Int
  OBVIOUS
<1> HIDE DEF f
<1>3. SumFunctionOnSet(f, P) = SumFunctionOnSet(f, T) + SumFunctionOnSet(f, P \ T)
  BY <1>2, SumSplit
<1>4. P \in SUBSET P /\ P \ T \in SUBSET P /\ IsFiniteSet(T) /\ IsFiniteSet(P \ T)
  BY FS_Subset
<1>5. StoredBytes(T) \in Nat /\ StoredBytes(P \ T) \in Nat
  BY <1>4, StoredType
<1> QED
  BY <1>1, <1>3, <1>4, <1>5

\* One more row takes its own bytes.
LEMMA StoredAdd ==
  ASSUME NEW P, IsFiniteSet(P), \A p \in P : p.stored \in Nat,
         NEW q, q \notin P, q.stored \in Nat
  PROVE  /\ StoredBytes(P \cup {q}) = StoredBytes(P) + q.stored
         /\ StoredBytes(P) \in Nat
<1> DEFINE W == P \cup {q}
           f == [p \in W |-> p.stored]
<1>1. IsFiniteSet(W) /\ (\A p \in W : p.stored \in Nat) /\ P \in SUBSET W /\ W \in SUBSET W
  BY FS_AddElement
<1>2. (\A p \in P \cup {q} : f[p] \in Int) /\ f[q] = q.stored
  OBVIOUS
<1> HIDE DEF W
<1>3. StoredBytes(P) = SumFunctionOnSet(f, P) /\ StoredBytes(W) = SumFunctionOnSet(f, W)
  BY <1>1, StoredWithin
<1> HIDE DEF f
<1>4. SumFunctionOnSet(f, P \cup {q}) = f[q] + SumFunctionOnSet(f, P)
  BY <1>2, SumAdd
<1>5. StoredBytes(P) \in Nat
  BY StoredType
<1> QED
  BY <1>2, <1>3, <1>4, <1>5 DEF W

\* The empty store holds nothing.
LEMMA AccountingInit == Init => Holdings /\ Reserving
<1> SUFFICES ASSUME Init PROVE Holdings /\ Reserving
  OBVIOUS
<1>1. parts = {} /\ PendingIds = {} /\ LiveReservations = {} /\ PendingParts = {}
      /\ \A s \in Sessions : legacy[s] = {}
  BY DEF Init, PendingIds, LiveReservations, PendingParts, Begun, Reserved, NoAttempt, NoReservation
<1>2. \A i \in Ids : PartsOf(i) = {} /\ WireParts(i) = {} /\ PartsOf(i) \ WireParts(i) = {}
  BY <1>1 DEF PartsOf, WireParts
<1>3. IsFiniteSet({}) /\ Cardinality({}) = 0
  BY FS_EmptySet
<1>4. StoredBytes({}) = 0
  BY StoredNone
<1>5. \A i \in Ids : Counters(i) = NoStorage
  BY <1>2, <1>3, <1>4 DEF Counters, NoStorage
<1>6. Tallied
  BY <1>5 DEF Tallied, Init
<1>7. Bounded /\ Reserving
  <2>1. TargetBytes \in Nat /\ UserPendingBytes \in Nat /\ ReservationLimit \in Nat
    BY ConstantsAssumption
  <2>2. StoredBytes(PendingParts) = 0 /\ \A i \in Ids : StoredBytes(PartsOf(i)) = 0
    BY <1>1, <1>2, <1>4
  <2>3. Cardinality(LiveReservations) = 0 /\ IsFiniteSet(LiveReservations)
    BY <1>1, <1>3
  <2> QED
    BY <2>1, <2>2, <2>3 DEF Bounded, Reserving
<1> QED
  BY <1>1, <1>3, <1>6, <1>7 DEF Holdings, Finite

\* The usage that admission computes from the counters is what is stored for
\* attempts that were not activated: every part has its attempt row.
LEMMA UsageIsStored ==
  ASSUME TypeOK, LedgerInv, Holdings
  PROVE  /\ PublicationUsage = StoredBytes(PendingParts)
         /\ StoredBytes(PendingParts) \in Nat
<1> DEFINE f == [p \in parts |-> p.stored]
           g == [i \in PendingIds |-> storage[i].bytes]
           P == [i \in PendingIds |-> PartsOf(i)]
<1>1. IsFiniteSet(PendingIds) /\ IsFiniteSet(parts) /\ (\A p \in parts : p.stored \in Nat)
      /\ \A p \in parts : p.attempt \in Ids /\ Begun(p.attempt)
  BY DEF Holdings, Finite, LedgerInv, PartsBegun, TypeOK, PartOK
<1>2. \A i \in PendingIds : P[i] = PartsOf(i) /\ PartsOf(i) \in SUBSET parts /\ i \in Ids
  BY DEF PartsOf, PendingIds
<1>3. \A i \in PendingIds : IsFiniteSet(P[i])
  BY <1>1, <1>2, FS_Subset
<1>4. \A i, j \in PendingIds : i # j => P[i] \cap P[j] = {}
  BY <1>2 DEF PartsOf
<1>5. \A i \in PendingIds : \A p \in P[i] : f[p] \in Int
  BY <1>1, <1>2
<1>6. \A i \in PendingIds : g[i] = SumFunctionOnSet(f, P[i])
  <2> SUFFICES ASSUME NEW i \in PendingIds PROVE storage[i].bytes = SumFunctionOnSet(f, PartsOf(i))
    BY <1>2
  <2>1. storage[i].bytes = StoredBytes(PartsOf(i))
    BY <1>2 DEF Holdings, Tallied, Counters
  <2> QED
    BY <2>1, <1>1, <1>2, StoredWithin
<1>7. UNION {P[i] : i \in PendingIds} = PendingParts
  <2>1. ASSUME NEW p \in PendingParts PROVE p.attempt \in PendingIds /\ p \in P[p.attempt]
    BY <1>1, <1>2 DEF PartsOf, PendingIds, PendingParts
  <2>2. ASSUME NEW i \in PendingIds, NEW p \in P[i] PROVE p \in PendingParts
    BY <1>2 DEF PartsOf, PendingIds, PendingParts
  <2> QED
    BY <2>1, <2>2
<1>8. PublicationUsage = SumFunctionOnSet(g, PendingIds)
  BY SumOverDomain DEF PublicationUsage
<1>9. PendingParts \in SUBSET parts
  BY DEF PendingParts
<1>10. StoredBytes(PendingParts) = SumFunctionOnSet(f, PendingParts)
  BY <1>1, <1>9, StoredWithin
<1>11. StoredBytes(PendingParts) \in Nat
  BY <1>1, <1>9, StoredSplit
<1>12. DisjointFamily(PendingIds, P)
  BY <1>1, <1>3, <1>4 DEF DisjointFamily
<1>13. FamilySums(PendingIds, P, f, g)
  BY <1>5, <1>6 DEF FamilySums
<1> HIDE DEF f, g, P
<1>14. SumFunctionOnSet(g, PendingIds) = SumFunctionOnSet(f, UNION {P[i] : i \in PendingIds})
  BY <1>12, <1>13, SumNested
<1> QED
  BY <1>7, <1>8, <1>10, <1>11, <1>14

\* What one more row does to the counters computed from the rows.
LEMMA PartAdded ==
  ASSUME Finite, NEW i \in Ids, NEW q, q.attempt = i, q \notin parts, q.stored \in Nat,
         q.derived \in BOOLEAN, IsFiniteSet(q.members), parts' = parts \cup {q}, legacy' = legacy
  PROVE  /\ Finite'
         /\ \A j \in Ids : j # i => PartsOf(j)' = PartsOf(j) /\ Counters(j)' = Counters(j)
         /\ StoredBytes(PartsOf(i))' = StoredBytes(PartsOf(i)) + q.stored
         /\ Counters(i)' =
              [count |-> IF q.derived THEN Counters(i).count ELSE Counters(i).count + 1,
               derived |-> IF q.derived THEN Counters(i).derived + 1 ELSE Counters(i).derived,
               bytes |-> Counters(i).bytes + q.stored]
<1>1. IsFiniteSet(parts) /\ \A p \in parts : p.stored \in Nat
  BY DEF Finite
<1>2. IsFiniteSet(parts \cup {q})
  BY <1>1, FS_AddElement
<1>3. Finite'
  BY <1>2 DEF Finite
<1>4. \A j \in Ids : j # i => PartsOf(j)' = PartsOf(j) /\ WireParts(j)' = WireParts(j)
  BY DEF PartsOf, WireParts
<1>5. \A j \in Ids : j # i => Counters(j)' = Counters(j)
  BY <1>4 DEF Counters
<1>6. /\ PartsOf(i)' = PartsOf(i) \cup {q} /\ q \notin PartsOf(i)
      /\ WireParts(i)' = IF q.derived THEN WireParts(i) ELSE WireParts(i) \cup {q}
      /\ (PartsOf(i) \ WireParts(i))' =
           IF q.derived THEN (PartsOf(i) \ WireParts(i)) \cup {q} ELSE PartsOf(i) \ WireParts(i)
      /\ q \notin WireParts(i) /\ q \notin PartsOf(i) \ WireParts(i)
  BY DEF PartsOf, WireParts
<1>7. /\ IsFiniteSet(PartsOf(i)) /\ IsFiniteSet(WireParts(i)) /\ IsFiniteSet(PartsOf(i) \ WireParts(i))
      /\ \A p \in PartsOf(i) : p.stored \in Nat
  <2>1. PartsOf(i) \in SUBSET parts /\ WireParts(i) \in SUBSET parts
        /\ PartsOf(i) \ WireParts(i) \in SUBSET parts
    BY DEF PartsOf, WireParts
  <2> QED
    BY <1>1, <2>1, FS_Subset
<1>8. StoredBytes(PartsOf(i))' = StoredBytes(PartsOf(i)) + q.stored
  <2>1. StoredBytes(PartsOf(i) \cup {q}) = StoredBytes(PartsOf(i)) + q.stored
    BY <1>6, <1>7, StoredAdd
  <2>2. StoredBytes(PartsOf(i))' = StoredBytes(PartsOf(i)')
    BY DEF StoredBytes
  <2> QED
    BY <1>6, <2>1, <2>2
<1>9. /\ Cardinality(WireParts(i) \cup {q}) = Cardinality(WireParts(i)) + 1
      /\ Cardinality((PartsOf(i) \ WireParts(i)) \cup {q}) = Cardinality(PartsOf(i) \ WireParts(i)) + 1
  BY <1>6, <1>7, FS_AddElement
<1>10. CASE q.derived
  BY <1>6, <1>8, <1>9, <1>10, <1>3, <1>4, <1>5 DEF Counters
<1>11. CASE ~q.derived
  BY <1>6, <1>8, <1>9, <1>11, <1>3, <1>4, <1>5 DEF Counters
<1> QED
  BY <1>10, <1>11

\* What normalizing one wire row in place does to them.
LEMMA PartNormalized ==
  ASSUME Finite, NEW i \in Ids, NEW p \in parts, NEW q, p.attempt = i, q.attempt = i,
         q \notin parts, q.stored \in Nat, IsFiniteSet(q.members), ~p.derived, ~q.derived,
         parts' = (parts \ {p}) \cup {q}, legacy' = legacy
  PROVE  /\ Finite'
         /\ \A j \in Ids : j # i => PartsOf(j)' = PartsOf(j) /\ Counters(j)' = Counters(j)
         /\ StoredBytes(PartsOf(i))' = (StoredBytes(PartsOf(i)) + q.stored) - p.stored
         /\ StoredBytes(PartsOf(i)) \in Nat
         /\ Counters(i)' =
              [count |-> Counters(i).count, derived |-> Counters(i).derived,
               bytes |-> (Counters(i).bytes + q.stored) - p.stored]
<1>1. IsFiniteSet(parts) /\ \A r \in parts : r.stored \in Nat
  BY DEF Finite
<1>2. IsFiniteSet((parts \ {p}) \cup {q})
  <2>1. IsFiniteSet(parts \ {p})
    BY <1>1, FS_Subset
  <2> QED
    BY <2>1, FS_AddElement
<1>3. Finite'
  BY <1>2 DEF Finite
<1>4. \A j \in Ids : j # i => PartsOf(j)' = PartsOf(j) /\ WireParts(j)' = WireParts(j)
  BY DEF PartsOf, WireParts
<1>5. \A j \in Ids : j # i => Counters(j)' = Counters(j)
  BY <1>4 DEF Counters
<1> DEFINE P == PartsOf(i) \ {p}
           W == WireParts(i) \ {p}
<1>6. /\ PartsOf(i)' = P \cup {q} /\ q \notin P /\ p \notin P /\ PartsOf(i) = P \cup {p}
      /\ WireParts(i)' = W \cup {q} /\ q \notin W /\ p \notin W /\ WireParts(i) = W \cup {p}
      /\ (PartsOf(i) \ WireParts(i))' = PartsOf(i) \ WireParts(i)
  BY DEF PartsOf, WireParts
<1>7. IsFiniteSet(P) /\ IsFiniteSet(W) /\ \A r \in P : r.stored \in Nat
  <2>1. P \in SUBSET parts /\ W \in SUBSET parts
    BY DEF PartsOf, WireParts
  <2> QED
    BY <1>1, <2>1, FS_Subset
<1> HIDE DEF P, W
<1>8. /\ StoredBytes(PartsOf(i)) = StoredBytes(P) + p.stored
      /\ StoredBytes(P \cup {q}) = StoredBytes(P) + q.stored
      /\ StoredBytes(P) \in Nat /\ p.stored \in Nat
  BY <1>1, <1>6, <1>7, StoredAdd
<1>9. StoredBytes(PartsOf(i))' = StoredBytes(P) + q.stored
  <2>1. StoredBytes(PartsOf(i))' = StoredBytes(PartsOf(i)')
    BY DEF StoredBytes
  <2> QED
    BY <1>6, <1>8, <2>1
<1>10. Cardinality(WireParts(i)) = Cardinality(W) + 1 /\ Cardinality(W \cup {q}) = Cardinality(W) + 1
  BY <1>6, <1>7, FS_AddElement
<1>11. Cardinality(WireParts(i))' = Cardinality(WireParts(i))
  BY <1>6, <1>10
<1>12. StoredBytes(PartsOf(i))' = (StoredBytes(PartsOf(i)) + q.stored) - p.stored
       /\ StoredBytes(PartsOf(i)) \in Nat
  BY <1>8, <1>9
<1> QED
  BY <1>3, <1>4, <1>5, <1>6, <1>11, <1>12 DEF Counters

\* What the quota check compares.
LEMMA QuotaMeans ==
  ASSUME TypeOK, LedgerInv, Holdings, NEW i \in Ids, NEW n, FitsQuota(i, n)
  PROVE  /\ StoredBytes(PartsOf(i)) + n <= TargetBytes
         /\ StoredBytes(PendingParts) + n <= UserPendingBytes
<1>1. storage[i].bytes = StoredBytes(PartsOf(i))
  BY DEF Holdings, Tallied, Counters
<1>2. PublicationUsage = StoredBytes(PendingParts)
  BY UsageIsStored
<1> QED
  BY <1>1, <1>2 DEF FitsQuota

\* The bound of each target, once the step's own target is known to obey it.
LEMMA TargetsBounded ==
  ASSUME Bounded, NEW i \in Ids, \A j \in Ids : j # i => PartsOf(j)' = PartsOf(j),
         StoredBytes(PartsOf(i))' <= TargetBytes
  PROVE  \A j \in Ids : StoredBytes(PartsOf(j))' <= TargetBytes
<1>1. \A j \in Ids : StoredBytes(PartsOf(j))' = StoredBytes(PartsOf(j)')
  BY DEF StoredBytes
<1> QED
  BY <1>1 DEF Bounded

\* An admitted row keeps the account: Put and the copies of ValidateRetention.
LEMMA HoldingsAdd ==
  ASSUME TypeOK, LedgerInv, Holdings, NEW i \in Ids, NEW q, q.attempt = i, q \notin parts,
         q.stored \in Nat, q.derived \in BOOLEAN, IsFiniteSet(q.members),
         FitsQuota(i, q.stored),
         parts' = parts \cup {q}, legacy' = legacy,
         PendingIds' = PendingIds, PendingParts' = PendingParts \cup {q},
         storage' = [j \in Ids |-> storage'[j]],
         \A j \in Ids : j # i => storage'[j] = storage[j],
         storage'[i] =
              [count |-> IF q.derived THEN storage[i].count ELSE storage[i].count + 1,
               derived |-> IF q.derived THEN storage[i].derived + 1 ELSE storage[i].derived,
               bytes |-> storage[i].bytes + q.stored]
  PROVE  Holdings'
<1>1. Finite /\ Bounded /\ \A j \in Ids : storage[j] = Counters(j)
  BY DEF Holdings, Tallied
<1>2. /\ Finite'
      /\ \A j \in Ids : j # i => PartsOf(j)' = PartsOf(j) /\ Counters(j)' = Counters(j)
      /\ StoredBytes(PartsOf(i))' = StoredBytes(PartsOf(i)) + q.stored
      /\ Counters(i)' =
           [count |-> IF q.derived THEN Counters(i).count ELSE Counters(i).count + 1,
            derived |-> IF q.derived THEN Counters(i).derived + 1 ELSE Counters(i).derived,
            bytes |-> Counters(i).bytes + q.stored]
  BY <1>1, PartAdded
<1>3. \A j \in Ids : storage'[j] = Counters(j)'
  BY <1>1, <1>2
<1>4. Tallied'
  BY <1>3 DEF Tallied
<1>5. /\ StoredBytes(PartsOf(i)) + q.stored <= TargetBytes
      /\ StoredBytes(PendingParts) + q.stored <= UserPendingBytes
  BY QuotaMeans
<1>6. \A j \in Ids : StoredBytes(PartsOf(j))' <= TargetBytes
  BY <1>1, <1>2, <1>5, TargetsBounded
<1>7. StoredBytes(PendingParts)' <= UserPendingBytes
  <2>1. PendingParts \in SUBSET parts /\ IsFiniteSet(parts) /\ \A p \in parts : p.stored \in Nat
    BY <1>1 DEF PendingParts, Finite
  <2>2. IsFiniteSet(PendingParts) /\ q \notin PendingParts /\ \A p \in PendingParts : p.stored \in Nat
    BY <2>1, FS_Subset
  <2>3. StoredBytes(PendingParts \cup {q}) = StoredBytes(PendingParts) + q.stored
    BY <2>2, StoredAdd
  <2>4. StoredBytes(PendingParts)' = StoredBytes(PendingParts')
    BY DEF StoredBytes
  <2> QED
    BY <1>5, <2>3, <2>4
<1> QED
  BY <1>2, <1>4, <1>6, <1>7 DEF Holdings, Bounded

\* Put writes a new row: its ordinal is free.
LEMMA PutHoldings ==
  ASSUME TypeOK, LedgerInv, Holdings, NEW i \in Ids, NEW n \in 0..(PartLimit - 1), NEW b \in Bodies,
         Put(i, n, b)
  PROVE  Holdings'
<1> DEFINE q == WirePart(i, n, b)
<1>1. q.attempt = i /\ q.stored = b.wire /\ ~q.derived /\ q.derived \in BOOLEAN /\ q.members = {}
      /\ q.ordinal = n
  BY DEF WirePart
<1>2. q.stored \in Nat /\ IsFiniteSet(q.members)
  BY <1>1, ConstantsAssumption, FS_EmptySet
<1>3. q \notin parts
  BY <1>1 DEF Put, PartsOf
<1>4. parts' = parts \cup {q} /\ legacy' = legacy /\ attempts' = attempts
      /\ FitsQuota(i, q.stored)
  BY <1>1 DEF Put
<1>5. attempts[i].state = "open"
  BY DEF Put
<1>6. PendingIds' = PendingIds
  BY <1>4 DEF PendingIds, Begun
<1>7. PendingParts' = PendingParts \cup {q}
  BY <1>1, <1>4, <1>5 DEF PendingParts
<1>8. storage = [j \in Ids |-> Counters(j)]
  BY DEF Holdings, Tallied
<1>9. /\ storage' = [j \in Ids |-> storage'[j]]
      /\ \A j \in Ids : j # i => storage'[j] = storage[j]
      /\ storage'[i] = [count |-> storage[i].count + 1, derived |-> storage[i].derived,
                        bytes |-> storage[i].bytes + q.stored]
  BY <1>1, <1>8 DEF Put, Counters
<1> HIDE DEF q
<1> QED
  BY <1>1, <1>2, <1>3, <1>4, <1>6, <1>7, <1>9, HoldingsAdd

\* Normalization may grow a row only within the quota; the rewritten row is not
\* one of the others, because the ordinals of a live target are distinct.
LEMMA ValidatePartHoldings ==
  ASSUME Ground, TargetsOK, Holdings, NEW i \in Ids, NEW p \in PartsOf(i), ValidatePart(i, p)
  PROVE  Holdings'
<1> DEFINE q == FixedPart(p)
           b == p.body
<1>0. TypeOK /\ LedgerInv
  BY DEF Ground
<1>1. /\ p \in parts /\ p.attempt = i /\ ~p.fixed /\ ~p.derived /\ b \in Bodies
  BY <1>0 DEF PartsOf, ValidatePart, TypeOK, PartOK
<1>2. q.attempt = i /\ q.stored = b.fixed /\ ~q.derived /\ q.members = b.members
      /\ q.ordinal = p.ordinal /\ q.fixed
  BY <1>1 DEF FixedPart
<1>3. q.stored \in Nat /\ IsFiniteSet(q.members)
  BY <1>1, <1>2, ConstantsAssumption
<1>4. Live(i) /\ attempts[i].state \in {"sealed", "validating"}
  BY DEF ValidatePart
<1>5. q \notin parts
  <2>1. Distinct(i)
    BY <1>4 DEF TargetsOK, Intact, Target
  <2>2. p \in WireParts(i) /\ (q \in parts => q \in WireParts(i))
    BY <1>1, <1>2 DEF WireParts, PartsOf
  <2> QED
    BY <1>1, <1>2, <2>1, <2>2 DEF Distinct
<1>6. /\ parts' = (parts \ {p}) \cup {q} /\ legacy' = legacy
      /\ \A j \in Ids : j # i => attempts'[j] = attempts[j]
      /\ attempts'[i].state \in {"validated", "validating"}
      /\ b.fixed > p.stored => FitsQuota(i, b.fixed - p.stored)
  BY <1>0 DEF ValidatePart, TypeOK, AttemptRow
<1>7. Finite /\ Bounded /\ storage = [j \in Ids |-> Counters(j)] /\ IsFiniteSet(PendingIds)
  BY DEF Holdings, Tallied
<1>8. PendingIds' = PendingIds
  BY <1>4, <1>6 DEF PendingIds, Begun
<1>9. \A r \in parts : r.attempt \in Ids
  BY <1>0 DEF TypeOK, PartOK
<1>10. PendingParts' = (PendingParts \ {p}) \cup {q} /\ p \in PendingParts
  BY <1>1, <1>2, <1>4, <1>6, <1>9 DEF PendingParts
<1>11. /\ storage' = [j \in Ids |-> storage'[j]]
       /\ \A j \in Ids : j # i => storage'[j] = storage[j]
       /\ storage'[i] = [count |-> storage[i].count, derived |-> storage[i].derived,
                         bytes |-> (storage[i].bytes + q.stored) - p.stored]
  BY <1>2, <1>7 DEF ValidatePart, Counters
<1> HIDE DEF q
<1>12. /\ Finite'
       /\ \A j \in Ids : j # i => PartsOf(j)' = PartsOf(j) /\ Counters(j)' = Counters(j)
       /\ StoredBytes(PartsOf(i))' = (StoredBytes(PartsOf(i)) + q.stored) - p.stored
       /\ StoredBytes(PartsOf(i)) \in Nat
       /\ Counters(i)' =
            [count |-> Counters(i).count, derived |-> Counters(i).derived,
             bytes |-> (Counters(i).bytes + q.stored) - p.stored]
  BY <1>1, <1>2, <1>3, <1>5, <1>6, <1>7, PartNormalized
<1>13. Tallied'
  <2>1. \A j \in Ids : storage'[j] = Counters(j)'
    BY <1>7, <1>11, <1>12
  <2> QED
    BY <1>11, <2>1 DEF Tallied
<1>14. p.stored \in Nat
  BY <1>1, <1>7 DEF Finite
<1>15. b.fixed > p.stored =>
         /\ StoredBytes(PartsOf(i)) + (b.fixed - p.stored) <= TargetBytes
         /\ StoredBytes(PendingParts) + (b.fixed - p.stored) <= UserPendingBytes
  BY <1>0, <1>6, QuotaMeans
<1>16. \A j \in Ids : StoredBytes(PartsOf(j))' <= TargetBytes
  <2>1. StoredBytes(PartsOf(i)) <= TargetBytes /\ TargetBytes \in Nat
    BY <1>7, ConstantsAssumption DEF Bounded
  <2>2. StoredBytes(PartsOf(i))' <= TargetBytes
    BY <1>2, <1>3, <1>12, <1>14, <1>15, <2>1
  <2> QED
    BY <1>7, <1>12, <2>2, TargetsBounded
<1>17. StoredBytes(PendingParts)' <= UserPendingBytes
  <2> DEFINE P == PendingParts \ {p}
  <2>1. PendingParts \in SUBSET parts /\ P \in SUBSET parts /\ IsFiniteSet(parts)
        /\ \A r \in parts : r.stored \in Nat
    BY <1>7 DEF PendingParts, Finite
  <2>2. IsFiniteSet(P) /\ (\A r \in P : r.stored \in Nat) /\ q \notin P /\ p \notin P
        /\ PendingParts = P \cup {p} /\ PendingParts' = P \cup {q}
    BY <1>5, <1>10, <2>1, FS_Subset
  <2> HIDE DEF P
  <2>3. /\ StoredBytes(P \cup {q}) = StoredBytes(P) + q.stored
        /\ StoredBytes(P \cup {p}) = StoredBytes(P) + p.stored
        /\ StoredBytes(P) \in Nat
    BY <1>3, <1>14, <2>2, StoredAdd
  <2>4. StoredBytes(PendingParts)' = StoredBytes(PendingParts')
    BY DEF StoredBytes
  <2>5. StoredBytes(PendingParts) <= UserPendingBytes /\ UserPendingBytes \in Nat
    BY <1>7, ConstantsAssumption DEF Bounded
  <2>6. /\ StoredBytes(PendingParts) = StoredBytes(P) + p.stored
        /\ StoredBytes(PendingParts)' = StoredBytes(P) + q.stored
    BY <2>2, <2>3, <2>4
  <2> QED
    BY <1>2, <1>3, <1>14, <1>15, <2>3, <2>5, <2>6
<1> QED
  BY <1>7, <1>8, <1>12, <1>13, <1>16, <1>17 DEF Holdings, Bounded

\* A reader sees finitely many records, so an inherited chunk has a size.
LEMMA VisibleFinite ==
  ASSUME TypeOK, Finite, NEW s \in Sessions
  PROVE  IsFiniteSet(Visible(s))
<1>1. CASE head[s] = Null
  BY <1>1 DEF Visible, Finite
<1>2. CASE head[s] # Null
  <2> DEFINE P == {q \in PartsOf(head[s]) : q.fixed}
             M == {p.members : p \in P}
             f == [p \in P |-> p.members]
  <2>1. P \in SUBSET parts /\ IsFiniteSet(parts)
    BY DEF PartsOf, Finite
  <2>2. IsFiniteSet(P)
    BY <2>1, FS_Subset
  <2>3. f \in Surjection(P, M)
    BY DEF Surjection
  <2>4. IsFiniteSet(M)
    BY <2>2, <2>3, FS_Surjection
  <2>5. \A S \in M : IsFiniteSet(S)
    BY <2>1 DEF Finite
  <2>6. Visible(s) = UNION M
    BY <1>2 DEF Visible
  <2> HIDE DEF M
  <2> QED
    BY <2>4, <2>5, <2>6, FS_UNION
<1> QED
  BY <1>1, <1>2

\* A step that leaves the rows alone and makes no dead attempt's rows pending.
LEMMA HoldingsKept ==
  ASSUME Holdings, parts' = parts, storage' = storage,
         \A s \in Sessions : IsFiniteSet(legacy'[s]),
         IsFiniteSet(PendingIds'), PendingParts' \subseteq PendingParts
  PROVE  Holdings'
<1>1. Finite /\ Bounded /\ storage = [j \in Ids |-> Counters(j)]
  BY DEF Holdings, Tallied
<1>2. Finite'
  BY <1>1 DEF Finite
<1>3. \A j \in Ids : PartsOf(j)' = PartsOf(j) /\ WireParts(j)' = WireParts(j)
  BY DEF PartsOf, WireParts
<1>4. \A j \in Ids : Counters(j)' = Counters(j) /\ StoredBytes(PartsOf(j))' = StoredBytes(PartsOf(j))
  BY <1>3 DEF Counters, StoredBytes
<1>5. Tallied'
  BY <1>1, <1>4 DEF Tallied
<1>6. StoredBytes(PendingParts)' <= UserPendingBytes
  <2>1. IsFiniteSet(PendingParts) /\ \A p \in PendingParts : p.stored \in Nat
    <3>1. PendingParts \in SUBSET parts /\ IsFiniteSet(parts) /\ \A p \in parts : p.stored \in Nat
      BY <1>1 DEF PendingParts, Finite
    <3> QED
      BY <3>1, FS_Subset
  <2>2. PendingParts' \in SUBSET PendingParts
    OBVIOUS
  <2>3. StoredBytes(PendingParts') <= StoredBytes(PendingParts) /\ StoredBytes(PendingParts') \in Nat
        /\ StoredBytes(PendingParts) \in Nat
    BY <2>1, <2>2, StoredSplit, StoredType
  <2>4. StoredBytes(PendingParts)' = StoredBytes(PendingParts')
    BY DEF StoredBytes
  <2>5. StoredBytes(PendingParts) <= UserPendingBytes /\ UserPendingBytes \in Nat
    BY <1>1, ConstantsAssumption DEF Bounded
  <2> QED
    BY <2>3, <2>4, <2>5
<1> QED
  BY <1>1, <1>2, <1>4, <1>5, <1>6 DEF Holdings, Bounded

\* An inherited chunk is copied once: no part of the target holds its records.
LEMMA RetentionHoldings ==
  ASSUME Ground, Holdings, NEW i \in Ids, NEW done \in BOOLEAN, NEW chunk \in SUBSET Remaining(i),
         ValidateRetention(i, chunk, done)
  PROVE  Holdings'
<1>0. TypeOK /\ LedgerInv
  BY DEF Ground
<1>1. /\ Live(i) /\ attempts[i].state = "validating" /\ legacy' = legacy
      /\ \A j \in Ids : j # i => attempts'[j] = attempts[j]
      /\ attempts'[i].state \in {"validated", "validating"}
  BY <1>0 DEF ValidateRetention, TypeOK, AttemptRow
<1>2. Finite /\ storage = [j \in Ids |-> Counters(j)] /\ IsFiniteSet(PendingIds)
  BY DEF Holdings, Tallied
<1>3. PendingIds' = PendingIds
  BY <1>1 DEF PendingIds, Begun
<1>4. \A r \in parts : r.attempt \in Ids
  BY <1>0 DEF TypeOK, PartOK
<1>5. CASE chunk = {}
  <2>1. parts' = parts /\ storage' = storage
    BY <1>5 DEF ValidateRetention
  <2>2. PendingParts' \subseteq PendingParts
    BY <1>1, <1>4, <2>1 DEF PendingParts
  <2>3. \A s \in Sessions : IsFiniteSet(legacy'[s])
    BY <1>1, <1>2 DEF Finite
  <2> QED
    BY <1>2, <1>3, <2>1, <2>2, <2>3, HoldingsKept
<1>6. CASE chunk # {}
  <2> DEFINE q == DerivedPart(i, chunk)
  <2>1. q.attempt = i /\ q.stored = Cardinality(chunk) /\ q.derived /\ q.derived \in BOOLEAN
        /\ q.members = chunk
    BY DEF DerivedPart
  <2>2. SessionOf(i) \in Sessions
    BY <1>0 DEF ValidateRetention, Access, Reserved, SessionOf, TypeOK, ReservationRow
  <2>3. IsFiniteSet(chunk)
    <3>1. chunk \in SUBSET Visible(SessionOf(i))
      BY DEF Remaining, Baseline
    <3> QED
      BY <1>0, <1>2, <2>2, <3>1, VisibleFinite, FS_Subset
  <2>4. q.stored \in Nat /\ IsFiniteSet(q.members)
    BY <2>1, <2>3, FS_CardinalityType
  <2>5. q \notin parts
    <3>1. \A m \in chunk : m \notin MembersOf(i)
      BY DEF Remaining
    <3>2. q \in parts => chunk \subseteq MembersOf(i)
      BY <2>1 DEF MembersOf, PartsOf
    <3> QED
      BY <1>6, <3>1, <3>2
  <2>6. parts' = parts \cup {q} /\ FitsQuota(i, q.stored)
    BY <1>6, <2>1 DEF ValidateRetention
  <2>7. PendingParts' = PendingParts \cup {q}
    BY <1>1, <1>4, <2>1, <2>6 DEF PendingParts
  <2>8. /\ storage' = [j \in Ids |-> storage'[j]]
        /\ \A j \in Ids : j # i => storage'[j] = storage[j]
        /\ storage'[i] = [count |-> storage[i].count, derived |-> storage[i].derived + 1,
                          bytes |-> storage[i].bytes + q.stored]
    <3>1. storage' = [storage EXCEPT ![i].derived = @ + 1, ![i].bytes = @ + Cardinality(chunk)]
      BY <1>6 DEF ValidateRetention
    <3> HIDE DEF q
    <3>2. storage[i] = Counters(i)
      BY <1>2
    <3> QED
      BY <1>2, <2>1, <3>1, <3>2 DEF Counters
  <2> HIDE DEF q
  <2> QED
    BY <1>0, <1>1, <1>3, <2>1, <2>4, <2>5, <2>6, <2>7, <2>8, HoldingsAdd
<1> QED
  BY <1>5, <1>6

\* Reclaim subtracts from each row exactly what it removes; the rows it drops
\* with their reservation are left with nothing.
LEMMA ReclaimHoldings ==
  ASSUME Ground, Holdings, NEW R \in SUBSET Reclaimable, NEW D \in SUBSET Ids,
         NEW limit \in 1..ReclaimLimit, Reclaim(R, D, limit)
  PROVE  Holdings'
<1>0. TypeOK /\ LedgerInv
  BY DEF Ground
<1>1. Finite /\ Bounded /\ storage = [j \in Ids |-> Counters(j)] /\ IsFiniteSet(PendingIds)
  BY DEF Holdings, Tallied
<1>2. IsFiniteSet(parts) /\ (\A p \in parts : p.stored \in Nat /\ p.attempt \in Ids)
  BY <1>0, <1>1 DEF Finite, TypeOK, PartOK
<1>3. /\ R \subseteq parts
      /\ parts' = {p \in parts \ R : p.attempt \notin D}
      /\ storage' = [i \in Ids |-> IF i \in D THEN NoStorage ELSE AfterReclaim(i, R)]
      /\ attempts' = [i \in Ids |-> IF i \in D THEN NoAttempt ELSE attempts[i]]
      /\ legacy' = legacy
  BY DEF Reclaim, Reclaimable
<1>4. parts' \in SUBSET parts
  BY <1>3
<1>5. Finite'
  <2>1. IsFiniteSet(parts')
    BY <1>2, <1>4, FS_Subset
  <2> QED
    BY <1>1, <1>3, <1>4, <2>1 DEF Finite
<1>6. IsFiniteSet(PendingIds')
  <2>1. PendingIds' \in SUBSET PendingIds
    BY <1>3 DEF PendingIds, Begun, NoAttempt
  <2> QED
    BY <1>1, <2>1, FS_Subset
<1>7. ASSUME NEW i \in Ids
      PROVE  /\ Counters(i)' = IF i \in D THEN NoStorage ELSE AfterReclaim(i, R)
             /\ StoredBytes(PartsOf(i)') <= TargetBytes
  <2> DEFINE P == PartsOf(i)
             W == WireParts(i)
             G == {p \in R : p.attempt = i}
             X == {p \in G : ~p.derived}
             Y == {p \in G : p.derived}
  <2>1. /\ P \in SUBSET parts /\ IsFiniteSet(P) /\ \A p \in P : p.stored \in Nat
        /\ W \in SUBSET P /\ IsFiniteSet(W) /\ IsFiniteSet(P \ W)
        /\ G \in SUBSET P /\ X \in SUBSET W /\ Y \in SUBSET (P \ W)
    <3>1. P \in SUBSET parts /\ W \in SUBSET P
      BY DEF PartsOf, WireParts
    <3>2. G \in SUBSET P /\ X \in SUBSET W /\ Y \in SUBSET (P \ W)
      BY <1>3 DEF PartsOf, WireParts
    <3> QED
      BY <1>2, <3>1, <3>2, FS_Subset
  <2>2. Counters(i)' = [count |-> Cardinality(WireParts(i)'),
                        derived |-> Cardinality(PartsOf(i)' \ WireParts(i)'),
                        bytes |-> StoredBytes(PartsOf(i)')]
    BY DEF Counters, StoredBytes
  <2>3. StoredBytes(P) <= TargetBytes /\ TargetBytes \in Nat
    BY <1>1, ConstantsAssumption DEF Bounded
  <2>4. CASE i \in D
    <3>1. PartsOf(i)' = {} /\ WireParts(i)' = {} /\ PartsOf(i)' \ WireParts(i)' = {}
      BY <1>3, <2>4 DEF PartsOf, WireParts
    <3>2. Cardinality({}) = 0
      BY FS_EmptySet
    <3>3. StoredBytes({}) = 0
      BY StoredNone
    <3> QED
      BY <2>2, <2>3, <2>4, <3>1, <3>2, <3>3 DEF NoStorage
  <2>5. CASE i \notin D
    <3>1. /\ PartsOf(i)' = P \ G
          /\ WireParts(i)' = W \ X
          /\ PartsOf(i)' \ WireParts(i)' = (P \ W) \ Y
      BY <1>3, <2>5 DEF PartsOf, WireParts
    <3>2. storage[i] = Counters(i)
      BY <1>1
    <3>3. AfterReclaim(i, R) = [count |-> Cardinality(W) - Cardinality(X),
                                derived |-> Cardinality(P \ W) - Cardinality(Y),
                                bytes |-> StoredBytes(P) - StoredBytes(G)]
      BY <3>2 DEF AfterReclaim, Counters
    <3> HIDE DEF P, W, G, X, Y
    <3>4. /\ Cardinality(W \ X) = Cardinality(W) - Cardinality(X)
          /\ Cardinality((P \ W) \ Y) = Cardinality(P \ W) - Cardinality(Y)
      <4>1. W \cap X = X /\ (P \ W) \cap Y = Y
        BY <2>1
      <4> QED
        BY <2>1, <4>1, FS_Difference
    <3>5. /\ StoredBytes(P) = StoredBytes(G) + StoredBytes(P \ G)
          /\ StoredBytes(G) \in Nat /\ StoredBytes(P \ G) \in Nat
      BY <2>1, StoredSplit
    <3>6. StoredBytes(P \ G) = StoredBytes(P) - StoredBytes(G)
      BY <3>5
    <3>7. Counters(i)' = AfterReclaim(i, R)
      BY <2>2, <3>1, <3>3, <3>4, <3>6
    <3>8. StoredBytes(PartsOf(i)') <= TargetBytes
      BY <2>3, <3>1, <3>5
    <3> QED
      BY <2>5, <3>7, <3>8
  <2> QED
    BY <2>4, <2>5
<1>8. Tallied'
  BY <1>3, <1>7 DEF Tallied
<1>9. StoredBytes(PendingParts)' <= UserPendingBytes
  <2>1. PendingParts \in SUBSET parts /\ PendingParts' \in SUBSET PendingParts
    BY <1>2, <1>3, <1>4 DEF PendingParts
  <2>2. IsFiniteSet(PendingParts) /\ \A p \in PendingParts : p.stored \in Nat
    BY <1>2, <2>1, FS_Subset
  <2>3. StoredBytes(PendingParts') <= StoredBytes(PendingParts) /\ StoredBytes(PendingParts') \in Nat
        /\ StoredBytes(PendingParts) \in Nat
    BY <2>1, <2>2, StoredSplit, StoredType
  <2>4. StoredBytes(PendingParts)' = StoredBytes(PendingParts')
    BY DEF StoredBytes
  <2>5. StoredBytes(PendingParts) <= UserPendingBytes /\ UserPendingBytes \in Nat
    BY <1>1, ConstantsAssumption DEF Bounded
  <2> QED
    BY <2>3, <2>4, <2>5
<1>10. \A i \in Ids : StoredBytes(PartsOf(i))' <= TargetBytes
  BY <1>7 DEF StoredBytes
<1> QED
  BY <1>5, <1>6, <1>8, <1>9, <1>10 DEF Holdings, Bounded

\* The steps that write no part row: at most one attempt becomes pending, by
\* Begin, and it has no rows yet.
LEMMA QuietHoldings ==
  ASSUME Ground, Holdings, parts' = parts, storage' = storage, legacy' = legacy,
         NEW i \in Ids, \A j \in Ids : j # i => attempts'[j] = attempts[j],
         Begun(i) /\ attempts[i].state = "activated" => attempts'[i].state = "activated"
  PROVE  Holdings'
<1>1. (\A p \in parts : p.attempt \in Ids /\ Begun(p.attempt)) /\ Finite /\ IsFiniteSet(PendingIds)
  BY DEF Ground, LedgerInv, PartsBegun, TypeOK, PartOK, Holdings
<1>2. IsFiniteSet(PendingIds')
  <2>1. PendingIds' \in SUBSET (PendingIds \cup {i})
    BY DEF PendingIds, Begun
  <2>2. IsFiniteSet(PendingIds \cup {i})
    BY <1>1, FS_AddElement
  <2> QED
    BY <2>1, <2>2, FS_Subset
<1>3. PendingParts' \subseteq PendingParts
  BY <1>1 DEF PendingParts
<1>4. \A s \in Sessions : IsFiniteSet(legacy'[s])
  BY <1>1 DEF Finite
<1> QED
  BY <1>2, <1>3, <1>4, HoldingsKept

\* The steps that write no row of an attempt.
LEMMA StillHoldings ==
  ASSUME Holdings, parts' = parts, storage' = storage, attempts' = attempts,
         \A s \in Sessions : IsFiniteSet(legacy'[s])
  PROVE  Holdings'
<1>1. PendingIds' = PendingIds /\ PendingParts' = PendingParts /\ IsFiniteSet(PendingIds)
  BY DEF PendingIds, Begun, PendingParts, Holdings
<1> QED
  BY <1>1, HoldingsKept

\* Every operation keeps the counters and the quotas.
LEMMA HoldingsNext == Ground /\ TargetsOK /\ Holdings /\ [Next]_vars => Holdings'
<1> SUFFICES ASSUME Ground, TargetsOK, Holdings, [Next]_vars PROVE Holdings'
  OBVIOUS
<1>0. TypeOK /\ LedgerInv /\ \A s \in Sessions : IsFiniteSet(legacy[s])
  BY DEF Ground, Holdings, Finite
<1>1. CASE Tick
  BY <1>0, <1>1, StillHoldings DEF Tick
<1>2. ASSUME NEW s \in Sessions, NEW o \in Origins, NEW i \in Ids,
             Reserve(s, o, i) \/ AdoptLegacy(s, o, i)
      PROVE  Holdings'
  BY <1>0, <1>2, StillHoldings DEF Reserve, AdoptLegacy
<1>3. ASSUME NEW i \in Ids, NEW c \in Captures, NEW b \in Ids \cup {Null}, Begin(i, c, b)
      PROVE  Holdings'
  <2>1. parts' = parts /\ storage' = storage /\ legacy' = legacy /\ ~Begun(i)
        /\ \A j \in Ids : j # i => attempts'[j] = attempts[j]
    BY <1>0, <1>3 DEF Begin, TypeOK
  <2> QED
    BY <2>1, QuietHoldings
<1>4. ASSUME NEW i \in Ids, NEW n \in 0..(PartLimit - 1), NEW b \in Bodies, Put(i, n, b)
      PROVE  Holdings'
  BY <1>0, <1>4, PutHoldings
<1>5. ASSUME NEW i \in Ids, NEW m \in Manifests, Seal(i, m)
      PROVE  Holdings'
  <2>1. parts' = parts /\ storage' = storage /\ legacy' = legacy
        /\ (\A j \in Ids : j # i => attempts'[j] = attempts[j])
        /\ attempts[i].state # "activated"
    BY <1>0, <1>5, LiveMeans DEF Seal, TypeOK, LiveStates
  <2> QED
    BY <2>1, QuietHoldings
<1>6. ASSUME NEW i \in Ids, NEW p \in PartsOf(i), ValidatePart(i, p)
      PROVE  Holdings'
  BY <1>6, ValidatePartHoldings
<1>7. ASSUME NEW i \in Ids, NEW done \in BOOLEAN, NEW chunk \in SUBSET Remaining(i),
             ValidateRetention(i, chunk, done)
      PROVE  Holdings'
  BY <1>7, RetentionHoldings
<1>8. ASSUME NEW i \in Ids, Renew(i) \/ Reject(i) \/ Activate(i)
      PROVE  Holdings'
  <2>1. parts' = parts /\ storage' = storage /\ legacy' = legacy
        /\ (\A j \in Ids : j # i => attempts'[j] = attempts[j])
    BY <1>0, <1>8 DEF Renew, Reject, Activate, TypeOK
  <2>2. attempts[i].state = "activated" => attempts'[i].state = "activated"
    BY <1>0, <1>8 DEF Renew, Reject, Activate, TypeOK, AttemptRow
  <2> QED
    BY <2>1, <2>2, QuietHoldings
<1>9. ASSUME NEW R \in SUBSET Reclaimable, NEW D \in SUBSET Ids, NEW limit \in 1..ReclaimLimit,
             Reclaim(R, D, limit)
      PROVE  Holdings'
  BY <1>9, ReclaimHoldings
<1>10. ASSUME NEW s \in Sessions, DeleteSession(s)
       PROVE  Holdings'
  BY <1>0, <1>10, StillHoldings DEF DeleteSession
<1>11. ASSUME NEW s \in Sessions, NEW m \in LegacyRecords, LegacyApply(s, m)
       PROVE  Holdings'
  <2>1. parts' = parts /\ storage' = storage /\ attempts' = attempts
        /\ legacy' = [legacy EXCEPT ![s] = {old \in legacy[s] : old.key # m.key} \cup {m}]
    BY <1>11 DEF LegacyApply
  <2>2. IsFiniteSet({old \in legacy[s] : old.key # m.key} \cup {m})
    <3>1. IsFiniteSet({old \in legacy[s] : old.key # m.key})
      BY <1>0, FS_Subset
    <3> QED
      BY <3>1, FS_AddElement
  <2>3. \A t \in Sessions : IsFiniteSet(legacy'[t])
    BY <1>0, <2>1, <2>2 DEF TypeOK
  <2> QED
    BY <2>1, <2>3, StillHoldings
<1>12. CASE UNCHANGED vars
  BY <1>0, <1>12, StillHoldings DEF vars
<1> QED
  BY <1>1, <1>2, <1>3, <1>4, <1>5, <1>6, <1>7, <1>8, <1>9, <1>10, <1>11, <1>12 DEF Next

\* Only a reservation raises the number of live ones, and it counts them first.
LEMMA ReservingNext == TypeOK /\ Reserving /\ [Next]_vars => Reserving'
<1> SUFFICES ASSUME TypeOK, Reserving, [Next]_vars PROVE Reserving'
  OBVIOUS
<1>1. ASSUME LiveReservations' \subseteq LiveReservations PROVE Reserving'
  <2>1. LiveReservations' \in SUBSET LiveReservations
    BY <1>1
  <2>2. IsFiniteSet(LiveReservations') /\ Cardinality(LiveReservations') <= Cardinality(LiveReservations)
        /\ Cardinality(LiveReservations') \in Nat /\ Cardinality(LiveReservations) \in Nat
    BY <2>1, FS_Subset, FS_CardinalityType DEF Reserving
  <2>3. ReservationLimit \in Nat
    BY ConstantsAssumption
  <2> QED
    BY <2>2, <2>3 DEF Reserving
<1>2. ASSUME reservations' = reservations, now' = now PROVE Reserving'
  BY <1>1, <1>2 DEF LiveReservations, Reserved
<1>3. CASE Tick
  <2>1. \A i \in Ids : reservations[i].expires \in Nat
    BY DEF TypeOK, ReservationRow
  <2>2. LiveReservations' \subseteq LiveReservations
    BY <1>3, <2>1 DEF Tick, LiveReservations, Reserved, TypeOK
  <2> QED
    BY <1>1, <2>2
<1>4. ASSUME NEW s \in Sessions, NEW i \in Ids, IssueReservation(s, i), now' = now
      PROVE  Reserving'
  <2>1. LiveReservations' \in SUBSET (LiveReservations \cup {i})
    BY <1>4 DEF IssueReservation, LiveReservations, Reserved, TypeOK
  <2>2. /\ IsFiniteSet(LiveReservations) /\ Cardinality(LiveReservations) \in Nat
        /\ Cardinality(LiveReservations) < ReservationLimit
    BY <1>4, FS_CardinalityType DEF Reserving, IssueReservation
  <2>3. /\ IsFiniteSet(LiveReservations \cup {i})
        /\ Cardinality(LiveReservations \cup {i}) <= Cardinality(LiveReservations) + 1
    BY <2>2, FS_AddElement
  <2>4. /\ IsFiniteSet(LiveReservations')
        /\ Cardinality(LiveReservations') <= Cardinality(LiveReservations \cup {i})
        /\ Cardinality(LiveReservations') \in Nat /\ Cardinality(LiveReservations \cup {i}) \in Nat
    BY <2>1, <2>3, FS_Subset, FS_CardinalityType
  <2>5. ReservationLimit \in Nat
    BY ConstantsAssumption
  <2> QED
    BY <2>2, <2>3, <2>4, <2>5 DEF Reserving
<1>5. ASSUME NEW R \in SUBSET Reclaimable, NEW D \in SUBSET Ids, NEW limit \in 1..ReclaimLimit,
             Reclaim(R, D, limit)
      PROVE  Reserving'
  <2>1. LiveReservations' \subseteq LiveReservations
    BY <1>5 DEF Reclaim, LiveReservations, Reserved, NoReservation
  <2> QED
    BY <1>1, <2>1
<1>6. ASSUME NEW s \in Sessions, NEW o \in Origins, NEW i \in Ids,
             Reserve(s, o, i) \/ AdoptLegacy(s, o, i)
      PROVE  Reserving'
  BY <1>4, <1>6 DEF Reserve, AdoptLegacy
<1>7. CASE \E i \in Ids, c \in Captures, b \in Ids \cup {Null} : Begin(i, c, b)
  BY <1>2, <1>7 DEF Begin
<1>8. CASE \E i \in Ids, n \in 0..(PartLimit - 1), b \in Bodies : Put(i, n, b)
  BY <1>2, <1>8 DEF Put
<1>9. CASE \E i \in Ids, m \in Manifests : Seal(i, m)
  BY <1>2, <1>9 DEF Seal
<1>10. CASE \E i \in Ids : \E p \in PartsOf(i) : ValidatePart(i, p)
  BY <1>2, <1>10 DEF ValidatePart
<1>11. ASSUME NEW i \in Ids, NEW done \in BOOLEAN, NEW chunk \in SUBSET Remaining(i),
              ValidateRetention(i, chunk, done)
       PROVE  Reserving'
  BY <1>2, <1>11 DEF ValidateRetention
<1>12. CASE \E i \in Ids : Renew(i) \/ Reject(i) \/ Activate(i)
  BY <1>2, <1>12 DEF Renew, Reject, Activate
<1>13. CASE \E s \in Sessions : DeleteSession(s)
  BY <1>2, <1>13 DEF DeleteSession
<1>14. CASE \E s \in Sessions, m \in LegacyRecords : LegacyApply(s, m)
  BY <1>2, <1>14 DEF LegacyApply
<1>15. CASE UNCHANGED vars
  BY <1>2, <1>15 DEF vars
<1> QED
  BY <1>3, <1>5, <1>6, <1>7, <1>8, <1>9, <1>10, <1>11, <1>12, <1>13, <1>14, <1>15 DEF Next

\* The counters of every attempt row are those of the rows really stored, and
\* the quotas computed from them bound what the account holds.
THEOREM AccountsAgree == Spec => []Accounting
<1>1. Spec => [](Ground /\ TargetsOK)
  BY TargetsAlways
<1>2. Init => Holdings /\ Reserving
  BY AccountingInit
<1>3. Ground /\ TargetsOK /\ Holdings /\ Reserving /\ [Next]_vars => Holdings' /\ Reserving'
  BY HoldingsNext, ReservingNext DEF Ground
<1>4. Holdings /\ Reserving => Accounting
  BY AccountingParts
<1> QED
  BY <1>1, <1>2, <1>3, <1>4, PTL DEF Spec
===============================================================================
