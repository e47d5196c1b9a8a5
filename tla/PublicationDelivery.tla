------------------------- MODULE PublicationDelivery -------------------------
(***************************************************************************)
(* Delivery of captures (packages/application/src/publicationDelivery.ts,  *)
(* driven by sourceCollector.ts): the journal and the Server, joined by a  *)
(* network on which a call can outlive the caller.  A collector process    *)
(* claims the source, resolves the capture it finds or starts a new one,   *)
(* and talks to the Server one call at a time.  It may stop at any point   *)
(* (crash, timeout, exhausted budget): its durable obligations stay in the *)
(* journal, and the call it waited for may still reach the Server later.   *)
(*                                                                         *)
(* The journal is CaptureJournal, for one source with one Canonical and    *)
(* one Raw record per capture, each in one unit; the Server is             *)
(* AttemptAuthority, which PublicationStore implements, with the Raw       *)
(* archive beside it.  Raw content is owed only once its capture is        *)
(* active, and only under the Raw authority it was captured under.         *)
(***************************************************************************)
EXTENDS Naturals, FiniteSets

CONSTANTS
  Processes,   \* collector processes
  Captures, Attempts,
  Source,      \* the source and its Session
  Key, Content,
  Null,
  Deletable,   \* whether the Session may be deleted meanwhile
  Operations,  \* remote calls one recovery slice may make (3 to 64)
  MaxEpoch,    \* bound on claims
  MaxOrphans,  \* bound on calls in flight that nobody waits for
  MaxFaults,   \* bound on stopped processes and expired leases
  RawAllowed,  \* whether Raw capture is enabled at first
  MaxRevoked   \* bound on changes of the Raw policy

ASSUME DeliveryAssumption ==
  /\ Null \notin Processes \cup Captures \cup Attempts
  /\ Null \notin 1..MaxRevoked + 1 /\ Null \notin {"authority", "redaction"}
  /\ Deletable \in BOOLEAN
  /\ Operations \in 3..64
  /\ RawAllowed \in BOOLEAN
  /\ {MaxEpoch, MaxOrphans, MaxFaults, MaxRevoked} \subseteq Nat

VARIABLES
  scopes, captures, units, records, versions, retained,  \* the journal
  intents,                                               \* Raw authority a capture was begun under
  att, lost, head, closed,                               \* the Server
  policy,                                                \* effective Raw policy, with its revision
  archive,                                               \* captures whose Raw chunk is stored
  procs,                                                 \* collector processes
  net,                                                   \* calls not yet served
  faults

journalVars == <<scopes, captures, units, records, versions, retained>>
rawVars == <<policy, archive>>
serverVars == <<att, lost, head, closed, rawVars>>
vars == <<journalVars, intents, serverVars, procs, net, faults>>

Journal == INSTANCE CaptureJournal WITH
  Scopes <- {Source}, IssuedFor <- <<>>, Policies <- {}, Reasons <- {},
  Receipts <- Attempts, UnitReceipts <- Attempts, EventKeys <- {Key}, RawKeys <- {Key},
  Observed <- {Content}, Sizes <- {1}, MetadataSizes <- {}, Floors <- {},
  UnitsPerTarget <- 2, TargetBytes <- 2, PendingBytes <- 2 * Cardinality(Captures),
  RecordsPerTarget <- 2, MetadataEntries <- 7 * Cardinality(Captures) + 5,
  PruneLimit <- 2, ReclaimLimit <- 2, MaxRevision <- Cardinality(Captures)

Server == INSTANCE AttemptAuthority WITH Sessions <- {Source}, Ids <- Attempts

-----------------------------------------------------------------------------
(* Processes and calls                                                     *)

NoView == [state |-> "none", filled |-> FALSE]
Failure == [state |-> "error", filled |-> FALSE]
Idle == [at |-> "idle", epoch |-> 0, checkpoint |-> Null, base |-> Null,
         cap |-> Null, attempt |-> Null, changed |-> FALSE, ops |-> 0, view |-> NoView,
         grant |-> Null, canceling |-> FALSE, walked |-> FALSE]

Waiting(p) == \E r \in net : r.from = p
\* p has its reply (or needs none) and continues at `label'.
At(p, label) == procs[p].at = label /\ ~Waiting(p)
View(p) == procs[p].view.state
Owner(p) == Journal!OwnerScope(Source, procs[p].epoch)
Active == {c \in Captures : captures[c].state \in Journal!Unactivated}

Call(op, i, c, b, p) == [op |-> op, attempt |-> i, cap |-> c, base |-> b, from |-> p]

\* p calls the Server about its attempt and continues at `label' with the reply.
Send(p, op, label) ==
  /\ procs' = [procs EXCEPT ![p] = [@ EXCEPT !.at = label, !.ops = procs[p].ops + 1]]
  /\ net' = net \cup {Call(op, procs[p].attempt, procs[p].cap, Null, p)}
Goto(p, label) ==
  /\ procs' = [procs EXCEPT ![p].at = label]
  /\ UNCHANGED net
\* p goes on with capture c under its claim; what it knew of other work is gone.
OnCapture(p, label, c) ==
  [Idle EXCEPT !.at = label, !.epoch = procs[p].epoch, !.changed = procs[p].changed, !.cap = c]
Turn(p, label, c) ==
  /\ procs' = [procs EXCEPT ![p] = OnCapture(p, label, c)]
  /\ UNCHANGED net
Stop(p) ==
  /\ procs' = [procs EXCEPT ![p] = Idle]
  /\ UNCHANGED net

Init ==
  /\ Journal!Init
  /\ Server!AuthorityInit
  /\ intents = [c \in Captures |-> Null]
  /\ policy = [enabled |-> RawAllowed, revision |-> 1]
  /\ archive = {}
  /\ procs = [p \in Processes |-> Idle]
  /\ net = {}
  /\ faults = 0

-----------------------------------------------------------------------------
(* The collector: claim, recover, capture                                  *)

\* A new identity is any unused one; they are interchangeable, so one is chosen.
Fresh == {c \in Captures : captures[c].state = "none"}
NewCapture == CHOOSE c \in Fresh : TRUE
\* Activated captures that still owe Raw content.
RawOwed == {c \in Captures : captures[c].state = "activated"}
\* A claim that finds nothing to recover or to capture is left out.
Work == Active # {} \/ Fresh # {} \/ RawOwed # {}

\* Each process knows whether its redaction policy is the one captures were
\* prepared under (currentRedactionTransform).
Claim(p, changed) ==
  /\ At(p, "idle") /\ Work
  /\ Journal!Claim(Source)
  /\ procs' = [procs EXCEPT ![p] = [Idle EXCEPT
       !.at = "owner", !.epoch = scopes'[Source].epoch,
       !.checkpoint = scopes[Source].checkpoint, !.changed = changed]]
  /\ UNCHANGED <<intents, serverVars, net, faults>>

\* recover: what another process left unsealed is discarded, never completed.
Discard(p, c) ==
  /\ At(p, "owner") /\ Owner(p)
  /\ c \in Active /\ captures[c].state = "preparing"
  /\ Journal!AbandonUnsealed(c, procs[p].epoch)
  /\ Turn(p, "settled", c)
  /\ UNCHANGED <<intents, serverVars, faults>>

\* deliverPublicationCapture of a sealed capture starts from the Server's word.
Recover(p, c) ==
  /\ At(p, "owner") /\ Owner(p)
  /\ captures[c].state = "sealed" /\ captures[c].purpose = "publication"
  /\ procs' = [procs EXCEPT ![p] =
       [OnCapture(p, "reconcile", c) EXCEPT !.attempt = captures[c].begin, !.ops = 1]]
  /\ net' = net \cup {Call("status", captures[c].begin, c, Null, p)}
  /\ UNCHANGED <<journalVars, intents, serverVars, faults>>

\* The walk over captures that still owe Raw content, and a sealed observation.
RecoverRaw(p, c) ==
  /\ At(p, "owner") /\ Owner(p)
  /\ \/ c \in RawOwed /\ ~procs[p].walked
     \/ captures[c].state = "sealed" /\ captures[c].purpose = "raw-observation"
  /\ Turn(p, "settled", c)
  /\ UNCHANGED <<journalVars, intents, serverVars, faults>>

\* sourceComparisonContext: the head of the last capture known to be active.
BaseHead ==
  IF scopes[Source].coverage = Null THEN Null ELSE captures[scopes[Source].coverage].activation

\* The Raw authority the Server grants now; Null when Raw capture is off.
Granted == IF policy.enabled THEN policy.revision ELSE Null

\* Nothing is left to recover, or the recovery walk has had its turn.
MayCapture(p) ==
  /\ At(p, "owner") /\ Owner(p)
  /\ Active = {} /\ Fresh # {}
  /\ RawOwed = {} \/ procs[p].walked

\* processSource reads the Raw policy; beginPublicationCapture checks the owner,
\* then reserves remotely.
StartCapture(p) ==
  /\ MayCapture(p)
  /\ procs' = [procs EXCEPT ![p] =
       [@ EXCEPT !.at = "reserved", !.base = BaseHead, !.grant = Granted]]
  /\ net' = net \cup {Call("reserve", Null, Null, Null, p)}
  /\ UNCHANGED <<journalVars, intents, serverVars, faults>>

\* The capture is durable before the Server is asked to begin the attempt.
ReserveLocally(p) ==
  LET i == procs[p].attempt
      c == NewCapture
  IN
  /\ At(p, "reserved") /\ View(p) = "reserved" /\ Fresh # {}
  /\ Journal!Reserve(Source, procs[p].epoch, c, procs[p].checkpoint, i, "publication",
                     procs[p].grant # Null, TRUE)
  /\ intents' = [intents EXCEPT ![c] = procs[p].grant]
  /\ procs' = [procs EXCEPT ![p] = [OnCapture(p, "begun", c) EXCEPT !.attempt = i]]
  /\ net' = net \cup {Call("begin", i, c, procs[p].base, p)}
  /\ UNCHANGED <<serverVars, faults>>

\* Raw content that delivery still owes, or has delivered, under this authority.
Covered(u, grant) ==
  \/ u.disposition = "acknowledged"
  \/ /\ u.disposition = "pending" /\ captures[u.capture].canceled = Null
     /\ intents[u.capture] = grant

\* The units in which the last complete, activated Raw observation has the record.
ObservedUnits(grant) ==
  LET o == scopes[Source].observedRaw IN
  {u \in units :
     /\ o # Null /\ u.kind = "raw" /\ Covered(u, grant)
     /\ captures[o].activation # Null
     /\ \E r \in Journal!RecordOf(o, "raw", Key) : r.unit = <<u.capture, u.ordinal>>}

\* beginRawObservation: the Canonical side is unchanged and active, only Raw
\* coverage is missing; the activation is proved again remotely.
StartObservation(p) ==
  /\ MayCapture(p) /\ ~procs[p].changed
  /\ Granted # Null /\ BaseHead # Null /\ ObservedUnits(Granted) = {}
  /\ procs' = [procs EXCEPT ![p] =
       [@ EXCEPT !.at = "proving", !.attempt = BaseHead, !.grant = Granted]]
  /\ net' = net \cup {Call("status", BaseHead, Null, Null, p)}
  /\ UNCHANGED <<journalVars, intents, serverVars, faults>>

ReserveObservation(p) ==
  LET c == NewCapture IN
  /\ At(p, "proving") /\ View(p) = "activated" /\ Fresh # {}
  /\ Journal!Reserve(Source, procs[p].epoch, c, procs[p].checkpoint, procs[p].attempt,
                     "raw-observation", TRUE, TRUE)
  /\ intents' = [intents EXCEPT ![c] = procs[p].grant]
  /\ Turn(p, "observing", c)
  /\ UNCHANGED <<serverVars, faults>>

RowOf(c, k) == Journal!RecordOf(c, k, Key)
BoundAll(R) == R # {} /\ \A r \in R : Journal!Bound(r)
BindTo(e, r, u) ==
  Journal!BindRecord(e, r) /\ [r EXCEPT !.unit = <<u.capture, u.ordinal>>] \in records'

\* A changed redaction policy forbids borrowing what the old one produced.
Reusable(p) == IF procs[p].changed THEN {} ELSE ObservedUnits(intents[procs[p].cap])

\* createRawPreparation: record the row, then borrow the unit that has it.
PrepareRawRecord(p, c, e) ==
  \/ captures[c].raw /\ Journal!Record(c, e, "raw", Key, Content, Null)
  \/ \E r \in RowOf(c, "raw"), u \in Reusable(p) : BindTo(e, r, u)

\* The event, its unit and their binding.
PrepareCanonical(p, c, e) ==
  /\ captures[c].purpose = "publication"
  /\ captures[c].raw => RowOf(c, "raw") # {}
  /\ captures[c].raw /\ Reusable(p) # {} => BoundAll(RowOf(c, "raw"))
  /\ \/ Journal!Record(c, e, "event", Key, Content, IF captures[c].raw THEN "object" ELSE "unavailable")
     \/ /\ RowOf(c, "event") # {} /\ Journal!UnitsOf(c, "canonical") = {}
        /\ Journal!Append(c, e, "canonical", 1)
     \/ \E r \in RowOf(c, "event"), u \in Journal!UnitsOf(c, "canonical") : BindTo(e, r, u)

\* finish: the Raw rows that borrow nothing are packed last.
PrepareRawUnit(p, c, e) ==
  /\ Reusable(p) = {} /\ RowOf(c, "raw") # {}
  /\ captures[c].purpose = "publication" => BoundAll(RowOf(c, "event"))
  /\ \/ Journal!UnitsOf(c, "raw") = {} /\ Journal!Append(c, e, "raw", 1)
     \/ \E r \in RowOf(c, "raw"), u \in Journal!UnitsOf(c, "raw") : BindTo(e, r, u)

\* preparePublicationCanonical and prepareRawObservation, one journal
\* transaction at a time.
Prepare(p) ==
  LET c == procs[p].cap
      e == procs[p].epoch
  IN
  /\ (At(p, "begun") /\ View(p) = "open") \/ At(p, "observing")
  /\ PrepareRawRecord(p, c, e) \/ PrepareCanonical(p, c, e) \/ PrepareRawUnit(p, c, e)
  /\ UNCHANGED <<intents, serverVars, procs, net, faults>>

Prepared(c) ==
  /\ captures[c].purpose = "publication" => BoundAll(RowOf(c, "event"))
  /\ captures[c].raw => BoundAll(RowOf(c, "raw"))

\* sealRawObservation: the checkpoint stays, and delivery starts like a recovery.
FreezeObservation(p) ==
  LET c == procs[p].cap IN
  /\ At(p, "observing") /\ Prepared(c)
  /\ Journal!Seal(c, procs[p].epoch, captures[c].expected, TRUE)
  /\ Turn(p, "settled", procs[p].cap)
  /\ UNCHANGED <<intents, serverVars, faults>>

\* sealPublicationCapture: the attempt must still be open and empty ...
CheckOpen(p) ==
  /\ At(p, "begun") /\ View(p) = "open"
  /\ Owner(p) /\ Prepared(procs[p].cap)
  /\ Send(p, "status", "freeze")
  /\ UNCHANGED <<journalVars, intents, serverVars, faults>>

\* ... when the capture is frozen; delivery then starts like any recovery.
Freeze(p) ==
  LET c == procs[p].cap IN
  /\ At(p, "freeze") /\ View(p) = "open" /\ ~procs[p].view.filled
  /\ Journal!Seal(c, procs[p].epoch, captures[c].begin, captures[c].raw)
  /\ Turn(p, "owner", c)
  /\ UNCHANGED <<intents, serverVars, faults>>

-----------------------------------------------------------------------------
(* deliverPublicationCapture                                               *)

\* Mutant: a changed redaction policy abandons the capture without asking.
RefusedByPolicy(p) == View(p) = "rejected" \/ (procs[p].changed /\ View(p) # "activated")

\* Only the Server's own terminal answer abandons a sealed capture.
Refused(p) == View(p) = "rejected"

NeedsRejection(p) == procs[p].changed \/ View(p) = "lost"

\* Mutant: a failed activation call is taken for a late success.
ProvenOptimistically(p) == View(p) \in {"activated", "error"}

Proven(p) == View(p) = "activated"

\* activateLocally: the receipt moves the checkpoint.
SettleActivated(p) ==
  /\ At(p, "reconcile") \/ At(p, "activated")
  /\ Proven(p)
  /\ Journal!Activated(procs[p].cap, procs[p].epoch, procs[p].attempt)
  /\ Turn(p, "settled", procs[p].cap)
  /\ UNCHANGED <<intents, serverVars, faults>>

SettleRejected(p) ==
  /\ At(p, "reconcile") /\ Refused(p)
  /\ Journal!Rejected(procs[p].cap, procs[p].epoch, procs[p].attempt)
  /\ Turn(p, "settled", procs[p].cap)
  /\ UNCHANGED <<intents, serverVars, faults>>

\* Mutant: a renewal needs two operations to follow it.
RenewableOnlyEarly(p) == procs[p].ops + 2 < Operations

\* One operation is kept for useful work after the renewal.
Renewable(p) == procs[p].ops + 1 < Operations

AskRejection(p) ==
  /\ At(p, "reconcile") /\ View(p) \in Server!Writable \cup {"lost"}
  /\ NeedsRejection(p) /\ procs[p].ops < Operations
  /\ Send(p, "reject", "reconcile")
  /\ UNCHANGED <<journalVars, intents, serverVars, faults>>

AskRenewal(p) ==
  /\ At(p, "reconcile") /\ View(p) \in Server!Writable \cup {"lost"}
  /\ ~NeedsRejection(p) /\ Renewable(p)
  /\ Send(p, "renew", "renewed")
  /\ UNCHANGED <<journalVars, intents, serverVars, faults>>

Unsent(c) == {u \in Journal!UnitsOf(c, "canonical") : u.disposition = "pending"}

\* One useful operation after each renewal, by the state the Server reported;
\* the next unit is looked up in the journal, which checks the owner.
Advance(p) ==
  LET c == procs[p].cap IN
  /\ At(p, "renewed")
  /\ \/ /\ View(p) = "open" /\ Owner(p) /\ Unsent(c) # {}
        /\ Send(p, "put", "stored")
     \/ /\ View(p) = "open" /\ Owner(p) /\ Unsent(c) = {}
        /\ Send(p, "seal", "reconcile")
     \/ View(p) = "sealed" /\ Send(p, "validate", "reconcile")
     \/ View(p) = "validated" /\ Send(p, "activate", "activated")
  /\ UNCHANGED <<journalVars, intents, serverVars, faults>>

\* The unit's receipt is stored; the loop goes on with the attempt it knew.
Acknowledge(p) ==
  LET c == procs[p].cap IN
  /\ At(p, "stored") /\ View(p) # "error"
  /\ \E u \in Journal!UnitsOf(c, "canonical") :
       Journal!CanonicalAcknowledged(c, procs[p].epoch, u, procs[p].attempt)
  /\ Goto(p, "reconcile")
  /\ UNCHANGED <<intents, serverVars, faults>>

-----------------------------------------------------------------------------
(* deliverPublicationRaw                                                   *)

\* A Raw observation records the activation it was made under.
ProveObservation(p) ==
  LET c == procs[p].cap IN
  /\ At(p, "settled") /\ captures[c].purpose = "raw-observation"
  /\ Journal!Activated(c, procs[p].epoch, captures[c].begin)
  /\ Turn(p, "settled", procs[p].cap)
  /\ UNCHANGED <<intents, serverVars, faults>>

\* Why delivery under the capture's authority must stop, if it must.
Revoked(p, c) ==
  CASE procs[p].changed -> "redaction"
    [] ~procs[p].changed /\ intents[c] # Granted -> "authority"
    [] OTHER -> Null

\* Confirmed Canonical content is reclaimed before any Raw call.  A changed policy
\* durably starts cancellation before any unit is looked at.
StartRaw(p) ==
  LET c == procs[p].cap
      stopped == captures[c].canceled # Null
      reason == IF stopped THEN Null ELSE Revoked(p, c)
  IN
  /\ At(p, "settled") /\ Owner(p)
  /\ c \in RawOwed /\ Journal!Reclaimable(c) = {}
  /\ IF reason = Null THEN UNCHANGED journalVars
     ELSE Journal!RawCancellationStarted(c, procs[p].epoch, reason)
  /\ procs' = [procs EXCEPT ![p] =
       [@ EXCEPT !.at = "raw", !.attempt = captures[c].begin,
                 !.canceling = stopped \/ reason # Null,
                 !.ops = IF stopped \/ procs[p].changed THEN 0 ELSE 1]]
  /\ UNCHANGED <<intents, serverVars, net, faults>>

\* Mutant: a unit is canceled without asking for its receipt.
AskReceiptUnlessCanceling(p) ==
  LET c == procs[p].cap IN
  /\ At(p, "raw") /\ Owner(p)
  /\ Journal!PendingRaw(c) # {} /\ procs[p].ops < Operations
  /\ IF procs[p].canceling
       THEN /\ procs' = [procs EXCEPT ![p] =
                 [@ EXCEPT !.at = "receipt", !.view = [state |-> "absent", filled |-> FALSE]]]
            /\ UNCHANGED net
       ELSE Send(p, "receipt", "receipt")
  /\ UNCHANGED <<journalVars, intents, serverVars, faults>>

\* Each pending unit first asks for the receipt it may already have.
AskReceipt(p) ==
  /\ At(p, "raw") /\ Owner(p)
  /\ Journal!PendingRaw(procs[p].cap) # {} /\ procs[p].ops < Operations
  /\ Send(p, "receipt", "receipt")
  /\ UNCHANGED <<journalVars, intents, serverVars, faults>>

AcknowledgeRaw(p) ==
  LET c == procs[p].cap IN
  /\ (At(p, "receipt") \/ At(p, "appended")) /\ View(p) = "stored"
  /\ \E u \in Journal!PendingRaw(c) : Journal!RawAcknowledged(c, procs[p].epoch, u, procs[p].attempt)
  /\ Goto(p, "raw")
  /\ UNCHANGED <<intents, serverVars, faults>>

\* Only authorized absence cancels a unit or lets it be sent.
CancelRaw(p) ==
  LET c == procs[p].cap IN
  /\ At(p, "receipt") /\ View(p) = "absent" /\ procs[p].canceling
  /\ \E u \in Journal!PendingRaw(c) : Journal!RawUnitCanceled(c, procs[p].epoch, u)
  /\ Goto(p, "raw")
  /\ UNCHANGED <<intents, serverVars, faults>>

SendRaw(p) ==
  /\ At(p, "receipt") /\ View(p) = "absent" /\ ~procs[p].canceling
  /\ procs[p].ops < Operations
  /\ Send(p, "append", "appended")
  /\ UNCHANGED <<journalVars, intents, serverVars, faults>>

\* A refused append starts cancellation; it is no substitute for the receipt.
StopRaw(p) ==
  /\ At(p, "appended") /\ View(p) = "refused"
  /\ Journal!RawCancellationStarted(procs[p].cap, procs[p].epoch, "authority")
  /\ procs' = [procs EXCEPT ![p] = [@ EXCEPT !.at = "raw", !.canceling = TRUE]]
  /\ UNCHANGED <<intents, serverVars, net, faults>>

\* Delivery is complete, out of operations or failed: recover goes on.
EndRaw(p) ==
  /\ \/ At(p, "raw") /\ Journal!PendingRaw(procs[p].cap) = {}
     \/ At(p, "raw") /\ procs[p].ops >= Operations
     \/ At(p, "receipt") /\ View(p) = "absent" /\ ~procs[p].canceling /\ procs[p].ops >= Operations
     \/ (At(p, "receipt") \/ At(p, "appended")) /\ View(p) = "error"
  /\ Owner(p)
  /\ Turn(p, "closing", procs[p].cap)
  /\ UNCHANGED <<journalVars, intents, serverVars, faults>>

\* Nothing of the recovered capture is left to deliver or to reclaim.
Closed(p) ==
  LET c == procs[p].cap IN
  /\ Journal!Reclaimable(c) = {}
  /\ \/ At(p, "closing")
     \/ /\ At(p, "settled") /\ c \notin RawOwed
        /\ ~(captures[c].purpose = "raw-observation" /\ captures[c].state = "sealed")

\* recover reclaims what the settled capture no longer owes, and the collector
\* retires the records no later comparison reads.
Tidy(p) ==
  LET c == procs[p].cap IN
  /\ \/ /\ At(p, "settled") \/ At(p, "closing")
        /\ Journal!Reclaim(c, procs[p].epoch, Journal!Reclaimable(c), 2)
     \/ /\ Closed(p)
        /\ \E d \in Captures :
             Journal!PruneRecords(Source, procs[p].epoch, d, Journal!RecordsOf(d), 2)
  /\ UNCHANGED <<intents, serverVars, procs, net, faults>>

\* processSource: after the recovery walk the source is claimed again, for a
\* fresh capture.
ClaimSource(p) ==
  /\ Closed(p) /\ Fresh # {}
  /\ Journal!Claim(Source)
  /\ procs' = [procs EXCEPT ![p] = [Idle EXCEPT
       !.at = "owner", !.epoch = scopes'[Source].epoch, !.walked = TRUE,
       !.checkpoint = scopes[Source].checkpoint, !.changed = procs[p].changed]]
  /\ UNCHANGED <<intents, serverVars, net, faults>>

\* A failed call, an unexpected answer, a lost claim or an exhausted budget ends
\* the slice with every obligation intact.
GiveUp(p) ==
  /\ ~Waiting(p) /\ procs[p].at # "idle"
  /\ \/ ~Owner(p)
     \/ View(p) = "error" /\ procs[p].at \notin {"receipt", "appended"}
     \/ procs[p].at \in {"begun", "freeze"} /\ View(p) # "open"
     \/ procs[p].at = "proving" /\ View(p) # "activated"
     \/ procs[p].at = "freeze" /\ procs[p].view.filled
     \/ procs[p].at = "owner" /\ Active \cup Fresh \cup (IF procs[p].walked THEN {} ELSE RawOwed) = {}
     \/ Closed(p)
     \/ /\ procs[p].at = "reconcile" /\ View(p) \in Server!Writable \cup {"lost"}
        /\ IF NeedsRejection(p) THEN procs[p].ops >= Operations ELSE ~Renewable(p)
  /\ Stop(p)
  /\ UNCHANGED <<journalVars, intents, serverVars, faults>>

-----------------------------------------------------------------------------
(* Faults                                                                  *)

Orphans == {r \in net : r.from = Null}

\* The process stops; the call it waited for is lost or still on its way.
Fail(p) ==
  /\ procs[p].at # "idle" /\ faults < MaxFaults
  /\ faults' = faults + 1
  /\ procs' = [procs EXCEPT ![p] = Idle]
  /\ LET mine == {r \in net : r.from = p} IN
     \/ net' = net \ mine
     \/ /\ mine # {} /\ Cardinality(Orphans) < MaxOrphans
        /\ net' = (net \ mine) \cup {[r EXCEPT !.from = Null] : r \in mine}
  /\ UNCHANGED <<journalVars, intents, serverVars>>

LoseCall(r) ==
  /\ r \in Orphans
  /\ net' = net \ {r}
  /\ UNCHANGED <<journalVars, intents, serverVars, procs, faults>>

\* Leases and reservations run out.
Expire(i) ==
  /\ faults < MaxFaults
  /\ faults' = faults + 1
  /\ i \notin lost /\ Server!Lose({i})
  /\ UNCHANGED <<journalVars, intents, rawVars, procs, net>>

DeleteSession ==
  /\ Deletable /\ closed = {}
  /\ Server!Close(Source)
  /\ UNCHANGED <<journalVars, intents, rawVars, procs, net, faults>>

\* A changed Team policy or personal preference advances the revision, so that
\* switching Raw off and on again never revives an old authority.
ChangeRawPolicy(enabled) ==
  /\ policy.revision <= MaxRevoked /\ (policy.enabled \/ enabled)
  /\ policy' = [enabled |-> enabled, revision |-> policy.revision + 1]
  /\ UNCHANGED <<journalVars, intents, att, lost, head, closed, archive, procs, net, faults>>

-----------------------------------------------------------------------------
(* The Server serves one call                                              *)

Known(i) == Server!Admitted(i) /\ att[i].state \notin {"unissued", "reserved", "removed"}

\* The attempt as the Server reports it: lost authority is a state of its own.
Reported(i) ==
  IF ~Known(i) THEN Failure
  ELSE [state |-> IF i \in lost THEN "lost" ELSE att[i].state, filled |-> att[i].filled]

Became(state) == [state |-> state, filled |-> FALSE]

\* The reply reaches the process that still waits for this call.
Reply(r, view) ==
  procs' = IF r.from = Null THEN procs ELSE [procs EXCEPT ![r.from].view = view]
Unchanged(r, view) == Reply(r, view) /\ UNCHANGED serverVars

Unissued == {i \in Attempts : att[i].state = "unissued"}

ServeReserve(r) ==
  /\ r.op = "reserve"
  /\ \/ /\ Unissued # {}
        /\ LET i == CHOOSE i \in Unissued : TRUE IN
           /\ Server!Reserve(Source, i)
           /\ procs' = IF r.from = Null THEN procs
                       ELSE [procs EXCEPT ![r.from] =
                               [@ EXCEPT !.attempt = i, !.view = Became("reserved")]]
     \/ /\ closed # {} \/ Unissued = {}
        /\ Unchanged(r, Failure)

\* A repeated begin returns the attempt it made.
ServeBegin(r) ==
  LET i == r.attempt IN
  /\ r.op = "begin"
  /\ \/ Server!Begin(i, r.cap, r.base) /\ Reply(r, Became("open"))
     \/ /\ ~Server!Admitted(i) \/ att[i].state # "reserved" \/ r.base # head[Source]
        /\ Unchanged(r, Reported(i))

\* status and renew: renewal fails for an attempt without authority.
ServeRead(r) ==
  /\ r.op \in {"status", "renew"}
  /\ Unchanged(r, IF r.op = "renew" /\ ~Server!Authority(r.attempt) THEN Failure
                  ELSE Reported(r.attempt))

ServePut(r) ==
  LET i == r.attempt IN
  /\ r.op = "put"
  /\ \/ Server!Put(i) /\ Reply(r, Became("open"))
     \/ att[i].state # "open" /\ Server!Authority(i) /\ Unchanged(r, Became("open"))
     \/ ~Server!Authority(i) /\ Unchanged(r, Failure)

ServeSeal(r) ==
  LET i == r.attempt IN
  /\ r.op = "seal"
  /\ \/ Server!Seal(i) /\ Reply(r, Became("sealed"))
     \/ /\ Server!Authority(i) /\ att[i].state # "open"
        /\ Unchanged(r, Reported(i))
     \/ /\ ~Server!Authority(i) \/ (att[i].state = "open" /\ ~att[i].filled)
        /\ Unchanged(r, Failure)

\* One call may leave validation unfinished; the client asks again.
ServeValidate(r) ==
  LET i == r.attempt IN
  /\ r.op = "validate"
  /\ \/ Server!Validate(i) /\ Reply(r, Became("validated"))
     \/ Server!Authority(i) /\ att[i].state = "validated" /\ Unchanged(r, Reported(i))
     \/ /\ ~(Server!Authority(i) /\ att[i].state \in {"sealed", "validated"})
        /\ Unchanged(r, Failure)

ServeActivate(r) ==
  LET i == r.attempt IN
  /\ r.op = "activate"
  /\ \/ Server!Activate(i) /\ Reply(r, Became("activated"))
     \/ Known(i) /\ att[i].state = "activated" /\ Unchanged(r, Became("activated"))
     \/ /\ ~(Known(i) /\ att[i].state = "activated")
        /\ ~(Server!Authority(i) /\ att[i].state = "validated" /\ att[i].base = head[Source])
        /\ Unchanged(r, Failure)

\* An activated attempt cannot be rejected any more.
ServeReject(r) ==
  LET i == r.attempt IN
  /\ r.op = "reject"
  /\ \/ Server!Reject(i) /\ Reply(r, Became("rejected"))
     \/ /\ ~Known(i) \/ att[i].state = "activated"
        /\ Unchanged(r, Failure)

\* LookupChunk answers also when Raw is disabled now; lost access conceals.
ServeReceipt(r) ==
  /\ r.op = "receipt"
  /\ Unchanged(r, CASE closed # {} -> Failure
                     [] closed = {} /\ r.cap \in archive -> Became("stored")
                     [] OTHER -> Became("absent"))

Appendable(r) == policy.enabled /\ intents[r.cap] = policy.revision

\* Append: the authority is checked again, under the policy's lock, by the
\* transaction that commits the chunk; a repeated chunk is answered as stored.
ServeAppend(r) ==
  /\ r.op = "append"
  /\ \/ /\ closed = {} /\ Appendable(r) /\ att[r.attempt].state = "activated"
        /\ archive' = archive \cup {r.cap}
        /\ Reply(r, Became("stored"))
        /\ UNCHANGED <<att, lost, head, closed, policy>>
     \/ closed = {} /\ ~Appendable(r) /\ Unchanged(r, Became("refused"))
     \/ /\ closed # {} \/ (Appendable(r) /\ att[r.attempt].state # "activated")
        /\ Unchanged(r, Failure)

Serve(r) ==
  /\ r \in net
  /\ \/ /\ \/ ServeReserve(r) \/ ServeBegin(r) \/ ServeRead(r) \/ ServePut(r) \/ ServeSeal(r)
           \/ ServeValidate(r) \/ ServeActivate(r) \/ ServeReject(r) \/ ServeReceipt(r)
        /\ UNCHANGED rawVars
     \/ ServeAppend(r)
  /\ net' = net \ {r}
  /\ UNCHANGED <<journalVars, intents, faults>>

-----------------------------------------------------------------------------
Step(p) ==
  \/ \E c \in Captures : Discard(p, c) \/ Recover(p, c) \/ RecoverRaw(p, c)
  \/ StartCapture(p) \/ ReserveLocally(p) \/ StartObservation(p) \/ ReserveObservation(p)
  \/ Prepare(p)
  \/ CheckOpen(p) \/ Freeze(p) \/ FreezeObservation(p)
  \/ SettleActivated(p) \/ SettleRejected(p) \/ AskRejection(p) \/ AskRenewal(p)
  \/ Advance(p) \/ Acknowledge(p)
  \/ ProveObservation(p) \/ StartRaw(p) \/ AskReceipt(p) \/ AcknowledgeRaw(p)
  \/ CancelRaw(p) \/ SendRaw(p) \/ StopRaw(p) \/ EndRaw(p)
  \/ Tidy(p) \/ ClaimSource(p) \/ GiveUp(p)

Next ==
  \/ \E p \in Processes : (\E changed \in BOOLEAN : Claim(p, changed)) \/ Step(p) \/ Fail(p)
  \/ \E r \in net : Serve(r) \/ LoseCall(r)
  \/ \E i \in Attempts : Expire(i)
  \/ DeleteSession
  \/ \E enabled \in BOOLEAN : ChangeRawPolicy(enabled)

Spec == Init /\ [][Next]_vars

\* The daemon keeps claiming its sources and finishes the slices it starts, and
\* the Server answers the calls that reach it; MaxFaults says that processes stop
\* and leases run out only finitely often.
Fairness ==
  /\ \A p \in Processes :
       WF_vars(\E changed \in BOOLEAN : Claim(p, changed)) /\ WF_vars(Step(p))
  /\ WF_vars(\E r \in net : Serve(r))

FairSpec == Spec /\ Fairness

-----------------------------------------------------------------------------
(* Properties                                                              *)

ProcessOK(p) ==
  /\ p.at \in {"idle", "owner", "reserved", "begun", "freeze", "proving", "observing", "reconcile",
               "renewed", "stored", "activated", "settled", "raw", "receipt", "appended", "closing"}
  /\ p.epoch \in 0..MaxEpoch /\ p.ops \in 0..Operations
  /\ p.cap \in Captures \cup {Null} /\ {p.changed, p.canceling, p.walked} \subseteq BOOLEAN
  /\ {p.checkpoint, p.base, p.attempt} \subseteq Attempts \cup {Null}
  /\ p.grant \in 1..MaxRevoked + 1 \cup {Null}

\* Each process waits for at most one call and stays within its budget; the
\* journal's rows keep their types when a collector drives them.
TypeOK ==
  /\ \A p \in Processes : ProcessOK(procs[p]) /\ Cardinality({r \in net : r.from = p}) <= 1
  /\ Journal!TypeOK
  /\ lost \subseteq Attempts /\ head[Source] \in Attempts \cup {Null}
  /\ archive \subseteq Captures /\ policy.revision \in 1..MaxRevoked + 1
  /\ faults \in 0..MaxFaults

\* A Raw unit counts as acknowledged only when the archive has its chunk, and
\* one canceled because its authority ended is a gap: the archive does not have
\* the chunk, and no call still on its way can add it.
RawTruthfully(c) ==
  \A u \in Journal!UnitsOf(c, "raw") :
    /\ u.disposition = "acknowledged" => c \in archive
    /\ u.disposition = "canceled" /\ captures[c].canceled = "authority" => c \notin archive

\* What the journal records about a capture is what the Server did: a capture
\* counts as activated only when its own attempt was activated over the
\* checkpoint it expected, and an abandoned capture's attempt never is, even
\* by a call that arrives after the journal gave it up; the same holds of the
\* receipts and cancellations of its Raw content.
SettledTruthfully ==
  \A c \in Captures :
    LET row == captures[c] IN
    /\ row.activation # Null =>
         /\ row.activation = row.begin /\ att[row.begin].state = "activated"
         /\ row.purpose = "publication" =>
              att[row.begin].capture = c /\ att[row.begin].base = row.expected
    /\ row.state = "abandoned" /\ row.purpose = "publication" => att[row.begin].state # "activated"
    /\ RawTruthfully(c)

\* The published head is never lost to the client: it is the journal's
\* checkpoint, or the attempt of the one sealed capture that recovery will ask
\* the Server about, and that capture expects the checkpoint the head replaced.
\* So a checkpoint never falls more than one publication behind, whatever
\* process stops where.
HeadAccounted ==
  LET checkpoint == scopes[Source].checkpoint IN
  \/ head[Source] = checkpoint
  \/ \E c \in Captures :
       /\ captures[c].state = "sealed" /\ captures[c].purpose = "publication"
       /\ captures[c].begin = head[Source]
       /\ captures[c].expected = checkpoint /\ att[head[Source]].base = checkpoint

\* Every sealed capture is resolved: some slice learns that its attempt was
\* activated, or obtains the Server's rejection of it, and every Raw unit of an
\* activated one gets its receipt or is canceled, also when every slice is as
\* short as the smallest budget allows.
CapturesResolve ==
  \A c \in Captures :
    captures[c].state = "sealed" ~> captures[c].state \in {"completed", "abandoned"}
=============================================================================
