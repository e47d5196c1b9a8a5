--------------------------- MODULE LegacyCollector ---------------------------
(***************************************************************************)
(* Paged collection of provider archives: the host loop of                 *)
(* packages/application/src/legacyCollector.ts, the Codex archive adapter  *)
(* that serves it (adapters/codex/src/codexArchive.ts), the checkpoint     *)
(* store (apps/cli/src/runtime/collectorState.ts) and the Server's         *)
(* Canonical and Raw endpoints.                                            *)
(*                                                                         *)
(* A rollout is an append-only file of records.  One Session has one       *)
(* rollout here.  The adapter pages its records twice: as Canonical Events *)
(* and, once these are published, as Raw bytes.  The host commits every    *)
(* page: Canonical, Raw chunks, acknowledged Raw offsets, cursor.  Nothing *)
(* of the content is kept locally, so an interrupted page is read again    *)
(* from a source that may have changed.                                    *)
(***************************************************************************)
EXTENDS Integers, Sequences, FiniteSets, TLC

CONSTANTS
    Collectors,      \* host processes collecting the same Project and Adapter
    Sessions,        \* provider Sessions, numbered: ids break ties of age
    Policies,        \* compiled redaction policies, 1..n
    EventsPerPage,   \* AdapterCollectionLimits.eventsPerObservation
    SegmentRecords,  \* AdapterCollectionLimits.rawSegmentBytes, in records
    PagesPerCycle,   \* AdapterCollectionLimits.pagesPerCycle
    QuantumPages,    \* pages a Session keeps before it yields (4 in the code)
    Attempts,        \* attempts of retryTransport (3 in the code)
    InitialRecords,  \* records of each rollout at the start
    MaxChanges,      \* bound on changes of sources and policies
    MaxFaults,       \* bound on crashes, lost replies and unreadable sources
    SettledSources   \* TRUE: see Settled

ASSUME LegacyCollectorAssumption ==
    /\ Sessions \subseteq Nat \ {0} /\ IsFiniteSet(Sessions)
    /\ 1 \in Policies /\ Policies \subseteq Nat
    /\ {EventsPerPage, SegmentRecords, PagesPerCycle, QuantumPages, Attempts} \subseteq Nat \ {0}
    /\ {InitialRecords, MaxChanges, MaxFaults} \subseteq Nat
    /\ SettledSources \in BOOLEAN

VARIABLES
    src,        \* src[s]: the rollout: generation, records, archived, last change
    waiting,    \* quarantined Sessions whose retryAt has not come
    policy,     \* the redaction policy new jobs compile
    rawOn,      \* the Server's Raw policy of the Project
    checkpoint, \* the durable CollectorCheckpoint
    seen,       \* collectors whose expectedRevision is the checkpoint's
    run,        \* run[c]: the job of collector c
    canon,      \* canon[s]: records published as Canonical Events
    archive,    \* archive[s]: Raw generations: records and finalized
    chunks,     \* chunks[s]: Raw chunk rows
    refused,    \* a Raw chunk was refused as a conflict
    budget      \* what remains of the bounds

vars == <<src, waiting, policy, rawOn, checkpoint, seen, run, canon, archive, chunks, refused, budget>>
sources == <<src, waiting, policy>>
store == <<checkpoint, seen>>
server == <<canon, archive, chunks, refused>>

---------------------------------------------------------------------------
(* Source inventory (discoverSessions, inspectRollout).  Generation 0: no file. *)

Live == {s \in Sessions : src[s].gen # 0}

(* compareSessions *)
Before(s, t) == src[s].stamp < src[t].stamp \/ (src[s].stamp = src[t].stamp /\ s < t)

Oldest(S) == CHOOSE s \in S : \A t \in S \ {s} : Before(s, t)
Newest(S) == CHOOSE s \in S : \A t \in S \ {s} : Before(t, s)

NoActive == [s |-> 0]
NoPage == [s |-> 0]
NoProgress == [gen |-> 0]
NoRaw == [gen |-> 0]

(* The cursor of a null checkpoint: nothing published, no baseline. *)
InitialCursor == [prog |-> [s \in Sessions |-> NoProgress], active |-> NoActive,
                  pending |-> {}, failed |-> [s \in Sessions |-> 0], last |-> 0, turns |-> 0]

(* canonicalTurns grows without bound; the code asks only whether it is at  *)
(* least 4 and for its remainder by 4, which this keeps.                    *)
NextTurn(n) == IF n = 7 THEN 4 ELSE n + 1

(* The Session changed since its Canonical snapshot was completed. *)
isAfterWatermark(s, cur) ==
    LET p == cur.prog[s]
    IN  \/ p = NoProgress
        \/ src[s].stamp > p.stamp
        \/ src[s].gen # p.gen
        \/ p.size > src[s].size

sessionNeedsRaw(s, raw) ==
    \/ raw[s] = NoRaw
    \/ raw[s].gen # src[s].gen
    \/ src[s].archived /\ ~raw[s].finalized
    \/ raw[s].offset < src[s].size

(* Mutant: retryAt is never looked at. *)
VisibleUnlessFailed(cur) == {s \in Live : cur.failed[s] # src[s].stamp}

(* The Sessions a page looks at: readable ones and quarantined ones that are due. *)
Visible(cur) == {s \in Live : ~(cur.failed[s] = src[s].stamp /\ s \in waiting)}

(* The candidates of one page: fresh and paused Canonical work, Raw backlog of *)
(* Sessions whose Canonical snapshot is current; the last served goes last.    *)
selectSession(visible, cur, raw, rawEnabled) ==
    LET HasPending(s, phase) == \E a \in cur.pending : a.s = s /\ a.phase = phase
        First(S) == IF S \ {cur.last} # {} THEN Oldest(S \ {cur.last}) ELSE cur.last
        canonical == {s \in visible : isAfterWatermark(s, cur) \/ HasPending(s, "canonical")}
        others == canonical \ {cur.last}
        changed == IF cur.turns % 4 = 3 \/ cur.last = 0 \/ others = {}
                   THEN First(canonical) ELSE Newest(others)
        backlog == {s \in visible : /\ rawEnabled
                                    /\ HasPending(s, "raw") \/ sessionNeedsRaw(s, raw)
                                    /\ ~isAfterWatermark(s, cur)}
    IN  IF canonical # {} /\ (cur.turns < 4 \/ backlog = {})
        THEN [s |-> changed, phase |-> "canonical"]
        ELSE IF backlog # {} THEN [s |-> First(backlog), phase |-> "raw"] ELSE NoPage

(* A new snapshot of a Session: the extent that all its pages will read. *)
startSession(s, phase, cur) ==
    LET p == cur.prog[s]
        from == IF phase = "canonical" /\ p # NoProgress /\ p.gen = src[s].gen /\ p.size < src[s].size
                THEN p.size ELSE 0
    IN  [s |-> s, phase |-> phase, stamp |-> src[s].stamp, gen |-> src[s].gen, size |-> src[s].size,
         archived |-> src[s].archived, at |-> from, emitted |-> FALSE, quantum |-> 0]

---------------------------------------------------------------------------
(* One page of the active Session (collectActiveSession).  A page has an     *)
(* observation (emit), its Events and Raw records as half-open ranges of the *)
(* snapshot, whether it closes the Raw object, the next cursor and hasMore.  *)

LeastOf(m, n) == IF m < n THEN m ELSE n

(* The snapshot's file is gone or was replaced: its pages have nothing left. *)
Lost(a) == src[a.s].gen # a.gen

collectEvents(a) ==
    [from |-> a.at, to |-> IF Lost(a) THEN a.at ELSE LeastOf(a.size, a.at + EventsPerPage)]

(* Mutant: every segment of an archived rollout is final. *)
collectRawFinal(a, raw) ==
    LET from == IF raw[a.s].gen = a.gen THEN raw[a.s].offset ELSE 0
        closed == raw[a.s].gen = a.gen /\ raw[a.s].finalized
        to == IF Lost(a) \/ closed THEN from ELSE LeastOf(a.size, from + SegmentRecords)
    IN  [from |-> from, to |-> to, final |-> ~Lost(a) /\ ~closed /\ a.archived,
         complete |-> Lost(a) \/ (to >= a.size)]

(* Raw resumes from the acknowledged offset of the same generation. *)
collectRaw(a, raw) ==
    LET from == IF raw[a.s].gen = a.gen THEN raw[a.s].offset ELSE 0
        closed == raw[a.s].gen = a.gen /\ raw[a.s].finalized
        to == IF Lost(a) \/ closed THEN from ELSE LeastOf(a.size, from + SegmentRecords)
    IN  [from |-> from, to |-> to, final |-> ~Lost(a) /\ ~closed /\ a.archived /\ to = a.size,
         complete |-> Lost(a) \/ (to >= a.size)]

(* Mutant: progress is what the file holds now, not what the snapshot held. *)
completeActiveCurrent(cur, a) ==
    [cur EXCEPT !.active = NoActive, !.last = a.s,
                !.turns = IF a.phase = "canonical" THEN NextTurn(cur.turns) ELSE 0,
                !.prog[a.s] = IF a.phase = "canonical"
                              THEN [gen |-> src[a.s].gen, stamp |-> src[a.s].stamp, size |-> src[a.s].size] ELSE @]

completeActive(cur, a) ==
    LET done == [cur EXCEPT !.active = NoActive, !.last = a.s]
    IN  IF a.phase = "canonical"
        THEN [done EXCEPT !.turns = NextTurn(cur.turns),
                          !.prog[a.s] = [gen |-> a.gen, stamp |-> a.stamp, size |-> a.size]]
        ELSE [done EXCEPT !.turns = 0]

(* An unfinished Session keeps the turn for QuantumPages pages, then waits. *)
continueActive(cur, a) ==
    IF a.quantum < QuantumPages THEN [cur EXCEPT !.active = a]
    ELSE [cur EXCEPT !.active = NoActive, !.last = a.s,
                     !.turns = IF a.phase = "canonical" THEN NextTurn(cur.turns) ELSE 0,
                     !.pending = @ \cup {[a EXCEPT !.quantum = 0]}]

collectActiveSession(a, cur, raw, rawEnabled) ==
    LET ev == IF a.phase = "canonical" THEN collectEvents(a) ELSE [from |-> a.at, to |-> a.at]
        seg == IF a.phase = "raw" /\ rawEnabled THEN collectRaw(a, raw)
               ELSE [from |-> 0, to |-> 0, final |-> FALSE, complete |-> TRUE]
        complete == IF a.phase = "canonical" THEN Lost(a) \/ ev.to = a.size ELSE seg.complete
        emit == ev.to > ev.from \/ seg.to > seg.from \/ seg.final \/ ~a.emitted
        base == [cur EXCEPT !.failed[a.s] = 0]
        next == IF complete THEN completeActive(base, a)
                ELSE continueActive(base, [a EXCEPT !.at = ev.to, !.emitted = TRUE, !.quantum = @ + 1])
    IN  [s |-> a.s, gen |-> a.gen, stamp |-> a.stamp, emit |-> emit, events |-> ev, raw |-> seg,
         next |-> next, more |-> emit \/ complete \/ \E s \in Visible(cur) : isAfterWatermark(s, next)]

EmptyPage(cur, more) == [s |-> 0, emit |-> FALSE, next |-> cur, more |-> more]

(* A Session that cannot be read now steps aside until it changes or 60 s pass. *)
quarantineSession(a, cur) ==
    EmptyPage([cur EXCEPT !.active = NoActive, !.failed[a.s] = src[a.s].stamp,
                          !.pending = {b \in @ : b.s # a.s \/ b.phase # a.phase} \cup {a}], TRUE)

(* With Raw capture off the adapter forgets its paused Raw work. *)
WithoutRaw(cur) ==
    [cur EXCEPT !.active = IF @ # NoActive /\ @.phase = "raw" THEN NoActive ELSE @,
                !.pending = {a \in @ : a.phase # "raw"}]

(* The Session work of the next page: the cursor's, or else selected and       *)
(* resumed or started; a Session that changed after it failed starts afresh.   *)
ChosenActive(cur, raw, rawEnabled) ==
    IF cur.active # NoActive THEN {cur.active}
    ELSE UNION {
        IF sel = NoPage THEN {}
        ELSE LET paused == {a \in cur.pending : /\ a.s = sel.s /\ a.phase = sel.phase
                                                /\ cur.failed[a.s] \in {0, src[a.s].stamp}}
             IN  IF paused # {} THEN paused ELSE {startSession(sel.s, sel.phase, cur)} :
        sel \in {selectSession(Visible(cur), cur, raw, rawEnabled)}}

(* Work a that is under way in cursor cur; readable = FALSE: a read fails. *)
PageOf(a, cur, raw, rawEnabled, readable) ==
    IF a.s \notin Visible(cur)
    THEN LET next == [cur EXCEPT !.active = NoActive]
         IN  EmptyPage(next, \E s \in Visible(cur) : isAfterWatermark(s, next))
    ELSE IF readable THEN collectActiveSession(a, cur, raw, rawEnabled) ELSE quarantineSession(a, cur)

(* collectPage: the page a collect request gets, as a set of one. *)
collectPage(requested, raw, rawEnabled, readable) ==
    LET cursors == {IF rawEnabled THEN requested ELSE WithoutRaw(requested)}
        pages == UNION {{PageOf(a, [cur EXCEPT !.active = a,
                                      !.pending = {b \in @ : b.s # a.s \/ b.phase # a.phase}],
                                raw, rawEnabled, readable)
                          : a \in ChosenActive(cur, raw, rawEnabled)} : cur \in cursors}
    IN  IF pages # {} THEN pages ELSE {EmptyPage(cur, FALSE) : cur \in cursors}

---------------------------------------------------------------------------
(* The checkpoint store: replaced only by a writer that saw its revision. *)

Idle == [at |-> "idle"]

(* expectedRevision is still the checkpoint's: nobody else has committed. *)
Current(c) == c \in seen

(* commitCheckpoint; the cursor and Raw progress of job c become durable. *)
Commit(c, cur, raw, pending) ==
    /\ checkpoint' = [cursor |-> cur, raw |-> raw, pending |-> pending, policy |-> run[c].policy]
    /\ seen' = {c}

EndCycle(c) == run' = [run EXCEPT ![c] = Idle]

(* policyPause before any page: an attempt under another policy, or with Raw *)
(* now closed, has an unknown outcome.                                       *)
Paused == checkpoint.pending /\ (checkpoint.policy # policy \/ ~rawOn)

(* A job: snapshot the checkpoint, pin the policy, read the Raw policy. *)
BeginCycle(c) ==
    /\ run[c] = Idle
    /\ ~Paused
    /\ run' = [run EXCEPT ![c] =
         [at |-> "collect", cursor |-> checkpoint.cursor, raw |-> checkpoint.raw,
          policy |-> policy, rawOn |-> rawOn, unresolved |-> checkpoint.pending,
          pending |-> checkpoint.pending, pages |-> 0]]
    /\ seen' = seen \cup {c}
    /\ UNCHANGED <<sources, rawOn, checkpoint, server, budget>>

(* The loop's end of page: next page while there is more and room for it. *)
NextPage(c, r, page) ==
    run' = [run EXCEPT ![c] =
        IF page.more /\ r.pages + 1 < PagesPerCycle
        THEN [at |-> "collect", cursor |-> page.next, raw |-> r.raw, policy |-> r.policy,
              rawOn |-> r.rawOn, unresolved |-> r.unresolved, pending |-> FALSE, pages |-> r.pages + 1]
        ELSE Idle]

(* A page without observations: pause while an outcome is unknown, else only *)
(* the cursor moves.                                                         *)
EmptyPageStep(c, page) ==
    LET r == run[c]
        moved == page.next # r.cursor \/ checkpoint.policy # r.policy
    IN  IF r.pending \/ (moved /\ ~Current(c))
        THEN EndCycle(c) /\ UNCHANGED store
        ELSE /\ IF moved THEN Commit(c, page.next, r.raw, FALSE) ELSE UNCHANGED store
             /\ NextPage(c, r, page)

(* A page with an observation: the uncertainty is durable before any request. *)
ObservedPageStep(c, page) ==
    LET r == run[c]
    IN  IF ~Current(c) THEN EndCycle(c) /\ UNCHANGED store
        ELSE /\ Commit(c, r.cursor, r.raw, TRUE)
             /\ run' = [run EXCEPT ![c] = [at |-> "canonical", cursor |-> r.cursor,
                    raw |-> r.raw, policy |-> r.policy, rawOn |-> r.rawOn, unresolved |-> r.unresolved,
                    pages |-> r.pages, page |-> page, sent |-> page.raw.from, closed |-> FALSE,
                    unsure |-> FALSE, tries |-> 0]]

PageStep(c, page) ==
    IF page.emit THEN ObservedPageStep(c, page) ELSE EmptyPageStep(c, page)

Collect(c) ==
    /\ run[c].at = "collect"
    /\ \E page \in collectPage(run[c].cursor, run[c].raw, run[c].rawOn, TRUE) : PageStep(c, page)
    /\ UNCHANGED <<sources, rawOn, server, budget>>

(* The chosen Session cannot be read. *)
CollectUnreadable(c) ==
    /\ run[c].at = "collect"
    /\ budget.faults > 0
    /\ \E page \in collectPage(run[c].cursor, run[c].raw, run[c].rawOn, FALSE) :
         LET new == {s \in Sessions : page.next.failed[s] # run[c].cursor.failed[s]}
         IN  /\ new # {}
             /\ PageStep(c, page)
             /\ waiting' = waiting \cup new
    /\ budget' = [budget EXCEPT !.faults = @ - 1]
    /\ UNCHANGED <<src, policy, rawOn, server>>

---------------------------------------------------------------------------
(* Canonical: one batch, idempotent by its digest. *)

Published(p) == {[gen |-> p.gen, n |-> n] : n \in (p.events.from + 1)..p.events.to}

AcceptCanonical(p) == canon' = [canon EXCEPT ![p.s] = @ \cup Published(p)]

SubmitCanonical(c) ==
    /\ run[c].at = "canonical"
    /\ AcceptCanonical(run[c].page)
    /\ run' = [run EXCEPT ![c].at = "raw", ![c].tries = 0]
    /\ UNCHANGED <<sources, rawOn, store, archive, chunks, refused, budget>>

(* retryTransport: an unanswered request is repeated, the last attempt fails. *)
Retry(c) ==
    IF run[c].tries + 1 < Attempts THEN run' = [run EXCEPT ![c].tries = @ + 1] ELSE EndCycle(c)

CanonicalLost(c) ==
    /\ run[c].at = "canonical"
    /\ budget.faults > 0
    /\ AcceptCanonical(run[c].page) \/ UNCHANGED canon
    /\ Retry(c)
    /\ budget' = [budget EXCEPT !.faults = @ - 1]
    /\ UNCHANGED <<sources, rawOn, store, archive, chunks, refused>>

---------------------------------------------------------------------------
(* Raw: appendRawObjectSegments against CommitChunk of postgres/raw.go.     *)
(* A transport chunk is one record, or the empty chunk that only finalizes. *)

Segment(r) == r.page.raw
SegmentEmpty(page) == page.raw.to = page.raw.from /\ ~page.raw.final

(* nextRawProgress: where the segment goes in the Server's object. *)
ServerGeneration(r) ==
    LET known == r.raw[r.page.s]
    IN  IF known = NoRaw THEN 1 ELSE IF known.gen = r.page.gen THEN known.serverGen ELSE known.serverGen + 1

(* Mutant: the first acknowledged chunk settles its segment. *)
SegmentStarted(r) == SegmentEmpty(r.page) \/ r.sent > Segment(r).from \/ r.closed

SegmentDone(r) == r.sent = Segment(r).to /\ (~Segment(r).final \/ r.closed)

(* The next transport chunk: identity (serverGen, offset, policy) and payload. *)
NextChunk(r) ==
    [serverGen |-> ServerGeneration(r), offset |-> r.sent, policy |-> r.policy,
     record |-> IF r.sent < Segment(r).to
                THEN <<[gen |-> r.page.gen, n |-> r.sent + 1, policy |-> r.policy]>> ELSE <<>>,
     final |-> Segment(r).final /\ r.sent + 1 >= Segment(r).to,
     capturedAt |-> r.page.stamp]

SameIdentity(x, y) == x.serverGen = y.serverGen /\ x.offset = y.offset /\ x.policy = y.policy

(* CommitChunk: the Raw policy first, then identity, then append position. *)
RawOutcome(s, chunk) ==
    LET known == {x \in chunks[s] : SameIdentity(x, chunk)}
        gens == archive[s]
        current == gens[Len(gens)]
    IN  CASE ~rawOn -> "disabled"
          [] rawOn /\ known # {} -> IF chunk \in known THEN "replayed" ELSE "conflict"
          [] OTHER -> IF \/ chunk.serverGen = Len(gens) + 1 /\ chunk.offset = 0
                         \/ /\ gens # <<>> /\ chunk.serverGen = Len(gens)
                            /\ ~current.finalized /\ chunk.offset = Len(current.records)
                      THEN "appended" ELSE "conflict"

StoreChunk(s, chunk) ==
    LET gens == archive[s]
        k == chunk.serverGen
        held == IF k > Len(gens) THEN <<>> ELSE gens[k].records
        gen == [records |-> held \o chunk.record, finalized |-> chunk.final]
    IN  /\ chunks' = [chunks EXCEPT ![s] = @ \cup {chunk}]
        /\ archive' = [archive EXCEPT ![s] =
             IF k > Len(gens) THEN Append(gens, gen) ELSE [gens EXCEPT ![k] = gen]]

Sending(c) == run[c].at = "raw" /\ ~SegmentDone(run[c])

(* An acknowledged chunk; a refused one ends the job. *)
AppendRaw(c) ==
    /\ Sending(c)
    /\ LET s == run[c].page.s
           chunk == NextChunk(run[c])
           outcome == RawOutcome(s, chunk)
       IN  /\ outcome # "disabled"
           /\ IF outcome = "appended" THEN StoreChunk(s, chunk) ELSE UNCHANGED <<chunks, archive>>
           /\ refused' = (refused \/ outcome = "conflict")
           /\ IF outcome = "conflict" THEN EndCycle(c)
              ELSE run' = [run EXCEPT ![c].sent = @ + Len(chunk.record), ![c].closed = chunk.final,
                                      ![c].unsure = FALSE, ![c].tries = 0]
    /\ UNCHANGED <<sources, rawOn, store, canon, budget>>

RawLost(c) ==
    /\ Sending(c)
    /\ budget.faults > 0
    /\ LET s == run[c].page.s
           chunk == NextChunk(run[c])
       IN  \/ UNCHANGED <<chunks, archive>>
           \/ RawOutcome(s, chunk) = "appended" /\ StoreChunk(s, chunk)
    /\ IF run[c].tries + 1 < Attempts
       THEN run' = [run EXCEPT ![c].tries = @ + 1, ![c].unsure = TRUE] ELSE EndCycle(c)
    /\ budget' = [budget EXCEPT !.faults = @ - 1]
    /\ UNCHANGED <<sources, rawOn, store, canon, refused>>

(* The Server closed Raw.  With every earlier outcome known the page goes on *)
(* without Raw, keeping the receipts it has; otherwise the job pauses.       *)
RawDisabled(c) ==
    /\ Sending(c)
    /\ RawOutcome(run[c].page.s, NextChunk(run[c])) = "disabled"
    /\ IF run[c].unresolved \/ run[c].unsure THEN EndCycle(c)
       ELSE run' = [run EXCEPT ![c].at = "advance", ![c].rawOn = FALSE, ![c].raw = checkpoint.raw]
    /\ UNCHANGED <<sources, rawOn, store, server, budget>>

(* A segment with every chunk acknowledged is recorded; the cursor stays. *)
PersistRaw(c) ==
    /\ run[c].at = "raw" /\ SegmentDone(run[c])
    /\ LET r == run[c]
           seg == Segment(r)
           raw == [r.raw EXCEPT ![r.page.s] =
                     [gen |-> r.page.gen, offset |-> seg.to, serverGen |-> ServerGeneration(r),
                      finalized |-> seg.final]]
       IN  IF SegmentEmpty(r.page)
           THEN run' = [run EXCEPT ![c].at = "advance"] /\ UNCHANGED store
           ELSE IF Current(c)
           THEN /\ Commit(c, r.cursor, raw, TRUE)
                /\ run' = [run EXCEPT ![c].at = "advance", ![c].raw = raw]
           ELSE EndCycle(c) /\ UNCHANGED store
    /\ UNCHANGED <<sources, rawOn, server, budget>>

(* The whole page succeeded: its cursor replaces the one it was read from. *)
AdvanceCursor(c) ==
    /\ run[c].at = "advance"
    /\ IF Current(c)
       THEN Commit(c, run[c].page.next, run[c].raw, FALSE) /\ NextPage(c, run[c], run[c].page)
       ELSE EndCycle(c) /\ UNCHANGED store
    /\ UNCHANGED <<sources, rawOn, server, budget>>

---------------------------------------------------------------------------
(* The environment: the provider writes, the user changes policies, the host dies. *)

(* The Server holds Raw of s that the checkpoint does not record. *)
Unrecorded(s) ==
    LET known == checkpoint.raw[s]
        gens == archive[s]
    IN  IF known = NoRaw THEN gens # <<>>
        ELSE \/ Len(gens) > known.serverGen
             \/ Len(gens[known.serverGen].records) > known.offset
             \/ gens[known.serverGen].finalized # known.finalized

(* The checkpoint holds the snapshot from which the Raw pages of s are read. *)
Frozen(s) ==
    \E a \in checkpoint.cursor.pending \cup {checkpoint.cursor.active} :
        a.s = s /\ a.phase = "raw"

(* A Raw page of s has been read and is not recorded yet. *)
RawInFlight(s) ==
    \E c \in Collectors : /\ run[c].at \in {"canonical", "raw"}
                          /\ run[c].page.s = s /\ ~SegmentEmpty(run[c].page)

(* With SettledSources, a source rests while the Server may hold Raw of it   *)
(* that is not recorded, unless it only grows and the checkpoint holds its   *)
(* snapshot; the policy rests while the Server holds unrecorded Raw.         *)
SettledSource(s, grows) == SettledSources => ~(Unrecorded(s) \/ RawInFlight(s)) \/ (grows /\ Frozen(s))
SettledPolicy == SettledSources => \A s \in Sessions : ~Unrecorded(s)

Touch(s, gen, size, archived) ==
    /\ budget.changes > 0
    /\ src' = [src EXCEPT ![s] = [gen |-> gen, size |-> size, archived |-> archived,
                                 stamp |-> 1 + MaxChanges - budget.changes + 1]]
    /\ budget' = [budget EXCEPT !.changes = @ - 1]
    /\ UNCHANGED <<waiting, policy, rawOn, store, run, server>>

AppendRecord(s) ==
    /\ s \in Live /\ ~src[s].archived /\ SettledSource(s, TRUE)
    /\ Touch(s, src[s].gen, src[s].size + 1, FALSE)

(* The file is recreated under its name: a new inode, a new generation. *)
ReplaceRollout(s) ==
    /\ s \in Live /\ SettledSource(s, FALSE)
    /\ Touch(s, src[s].gen + 1, 1, FALSE)

RemoveRollout(s) ==
    /\ s \in Live /\ SettledSource(s, FALSE)
    /\ Touch(s, 0, 0, src[s].archived)

(* Archiving renames the file: same inode, same modification time. *)
ArchiveRollout(s) ==
    /\ s \in Live /\ ~src[s].archived
    /\ budget.changes > 0
    /\ SettledSource(s, TRUE)
    /\ src' = [src EXCEPT ![s].archived = TRUE]
    /\ budget' = [budget EXCEPT !.changes = @ - 1]
    /\ UNCHANGED <<waiting, policy, rawOn, store, run, server>>

ChangePolicy(p) ==
    /\ p # policy /\ SettledPolicy
    /\ budget.changes > 0
    /\ policy' = p
    /\ budget' = [budget EXCEPT !.changes = @ - 1]
    /\ UNCHANGED <<src, waiting, rawOn, store, run, server>>

ToggleRaw ==
    /\ budget.changes > 0
    /\ rawOn' = ~rawOn
    /\ budget' = [budget EXCEPT !.changes = @ - 1]
    /\ UNCHANGED <<sources, store, run, server>>

(* The 60 seconds of a quarantine are over. *)
RetryDue(s) ==
    /\ s \in waiting
    /\ waiting' = waiting \ {s}
    /\ UNCHANGED <<src, policy, rawOn, store, run, server, budget>>

Crash(c) ==
    /\ run[c] # Idle
    /\ budget.faults > 0
    /\ EndCycle(c)
    /\ budget' = [budget EXCEPT !.faults = @ - 1]
    /\ UNCHANGED <<sources, rawOn, store, server>>

---------------------------------------------------------------------------
Init ==
    /\ src = [s \in Sessions |-> [gen |-> 1, size |-> InitialRecords, archived |-> FALSE, stamp |-> 1]]
    /\ waiting = {}
    /\ policy = 1
    /\ rawOn = TRUE
    /\ checkpoint = [cursor |-> InitialCursor, raw |-> [s \in Sessions |-> NoRaw],
                     pending |-> FALSE, policy |-> policy]
    /\ seen = {}
    /\ run = [c \in Collectors |-> Idle]
    /\ canon = [s \in Sessions |-> {}]
    /\ archive = [s \in Sessions |-> <<>>]
    /\ chunks = [s \in Sessions |-> {}]
    /\ refused = FALSE
    /\ budget = [changes |-> MaxChanges, faults |-> MaxFaults]

(* Steps of a job that need no bad luck. *)
Step(c) ==
    \/ BeginCycle(c) \/ Collect(c) \/ SubmitCanonical(c)
    \/ AppendRaw(c) \/ RawDisabled(c) \/ PersistRaw(c) \/ AdvanceCursor(c)

Next ==
    \/ \E c \in Collectors :
          Step(c) \/ CollectUnreadable(c) \/ CanonicalLost(c) \/ RawLost(c) \/ Crash(c)
    \/ \E s \in Sessions :
          AppendRecord(s) \/ ReplaceRollout(s) \/ RemoveRollout(s) \/ ArchiveRollout(s) \/ RetryDue(s)
    \/ \E p \in Policies : ChangePolicy(p)
    \/ ToggleRaw

Spec == Init /\ [][Next]_vars

(* The collector runs a cycle every interval; a quarantine ends. *)
FairSpec ==
    /\ Spec
    /\ \A c \in Collectors : WF_vars(Step(c))
    /\ \A s \in Sessions : WF_vars(RetryDue(s))

---------------------------------------------------------------------------
(* Each Raw generation the Server keeps is an exact prefix of one source      *)
(* generation: records in order, none missing, doubled or of another          *)
(* generation; a finalized one has every record of its archived source.       *)
ArchiveFaithful ==
    \A s \in Sessions : \A i \in DOMAIN archive[s] :
        LET kept == archive[s][i]
        IN  \E g \in 1..(MaxChanges + 1) :
              /\ \A n \in DOMAIN kept.records : kept.records[n].gen = g /\ kept.records[n].n = n
              /\ kept.finalized /\ g = src[s].gen => Len(kept.records) = src[s].size
              /\ g = src[s].gen => Len(kept.records) <= src[s].size

(* Recorded Raw progress never runs ahead of the Server: what the checkpoint  *)
(* counts as acknowledged is there, from the source generation it names.      *)
ProgressAcknowledged ==
    \A s \in Sessions :
        LET known == checkpoint.raw[s]
        IN  known # NoRaw =>
              /\ known.serverGen \in DOMAIN archive[s]
              /\ known.offset <= Len(archive[s][known.serverGen].records)
              /\ \A n \in 1..known.offset : archive[s][known.serverGen].records[n].gen = known.gen
              /\ known.finalized => archive[s][known.serverGen].finalized

(* The cursor never passes an unpublished record: what completed snapshots    *)
(* and the positions of unfinished ones cover has been published, through     *)
(* crashes, lost replies and turns given to other Sessions.                   *)
CursorCovered ==
    LET Covered(s, gen, n) ==
            gen = src[s].gen => \A k \in 1..n : [gen |-> gen, n |-> k] \in canon[s]
        cur == checkpoint.cursor
    IN  /\ \A s \in Sessions : cur.prog[s] # NoProgress => Covered(s, cur.prog[s].gen, cur.prog[s].size)
        /\ \A a \in cur.pending \cup {cur.active} :
              a # NoActive /\ a.phase = "canonical" => Covered(a.s, a.gen, a.at)

(* An interrupted page is replayed as one Server effect: no Raw chunk is ever *)
(* refused because its identity was used with another payload or position.    *)
ReplayIsOneEffect == ~refused

(* A job that cannot go on by itself: an attempt with an unknown outcome, and *)
(* another policy, Raw closed, or a source that no longer offers the content. *)
Held ==
    /\ checkpoint.pending
    /\ \/ Paused
       \/ \A page \in collectPage(checkpoint.cursor, checkpoint.raw, rawOn, TRUE) : ~page.emit

(* Everything the provider keeps is collected in the end, unless the job is   *)
(* held: every record published and, with Raw enabled, archived and finalized *)
(* however turns, quarantines, lost replies and crashes fall.                 *)
Collected ==
    \A s \in Live :
        /\ \A n \in 1..src[s].size : [gen |-> src[s].gen, n |-> n] \in canon[s]
        /\ rawOn => ~sessionNeedsRaw(s, checkpoint.raw)

EverythingCollected == <>[](Held \/ Collected)

=============================================================================
