--------------------------- MODULE MCCaptureJournal ---------------------------
(* Finite instances of CaptureJournal.                                     *)
EXTENDS CaptureJournal, TLC

OneByte == {1}
FloorOne == {1}

Publication(raw, track) == [purpose |-> "publication", raw |-> raw, track |-> track]
Observation(track) == [purpose |-> "raw-observation", raw |-> TRUE, track |-> track]
Tracked == {Publication(TRUE, TRUE)}
Combined ==
  {Publication(TRUE, TRUE), Publication(FALSE, TRUE), Publication(TRUE, FALSE), Observation(TRUE)}

\* An attempt is named by the capture it was issued for.
OwnAttempt == [c \in Captures |-> c]
CaptureSymmetry == Permutations(Captures)
VersionSymmetry ==
  Permutations(Captures) \cup Permutations(EventKeys) \cup Permutations(Observed)

EventVersions == {v \in RecordIds : v[2] = "event" /\ versions[v].rev # 0}
EventRows == {r \in records : r.kind = "event"} \cup {versions[v] : v \in EventVersions}

\* journal_delivery: once an Event is recorded every capture is a tracked one with
\* Raw content and without a source header, has at most one unit of each kind, and
\* its Events point into Raw objects.  Captures without Events are not restricted.
DeliveryBounds ==
  EventVersions # {} =>
    /\ MetadataBytes = 0
    /\ \A c \in CaptureRows : captures[c].track /\ captures[c].raw
    /\ \A u \in units : u.ordinal = 0
    /\ \A r \in records : r.kind = "event" => r.ref = "object"

\* journal_versions: the third capture meets one Event, or two Events of one content,
\* one Raw reference and at most two revisions in a source without headers that was
\* not adopted.  Two captures are not restricted.
VersionBounds ==
  \/ Cardinality(CaptureRows) <= 2
  \/ Cardinality(EventVersions) <= 1
  \/ /\ Cardinality({<<r.content, r.ref>> : r \in EventRows}) = 1
     /\ \A r \in EventRows : r.rev <= 2
     /\ MetadataBytes = 0 /\ \A s \in Scopes : ~scopes[s].adopted
=============================================================================
