----------------------- MODULE LegacyCollectorProofs -----------------------
(***************************************************************************)
(* Proofs about paged collection, for any collectors, Sessions, policies,  *)
(* page sizes and numbers of changes and faults, and whether or not the    *)
(* sources rest while a page is uncertain: what the cursor covers is       *)
(* published, what Raw progress counts is archived, and the archive holds  *)
(* exact prefixes of the sources.                                          *)
(***************************************************************************)
EXTENDS LegacyCollector, TLAPS

Generations == 1..(MaxChanges + 1)

FileFields == {"gen", "size", "archived", "stamp"}
WorkFields == {"s", "phase", "stamp", "gen", "size", "archived", "at", "emitted", "quantum"}
CursorFields == {"prog", "active", "pending", "failed", "last", "turns"}
CheckpointFields == {"cursor", "raw", "pending", "policy"}
CollectFields == {"at", "cursor", "raw", "policy", "rawOn", "unresolved", "pending", "pages"}
SendFields == {"at", "cursor", "raw", "policy", "rawOn", "unresolved", "pages", "page", "sent",
               "closed", "unsure", "tries"}

-----------------------------------------------------------------------------
(* The inductive invariant.  f is a source file, pub what is published of a *)
(* Session, gens what the Server archived of it.                            *)

\* A generation the file had or has; after a removal none comes back.
Past(g, f) == g \in Generations /\ (f.gen = 0 \/ g <= f.gen)
Covers(g, n, f, pub) == g = f.gen => \A k \in 1..n : [gen |-> g, n |-> k] \in pub

\* A snapshot is an extent of an append-only file, and all of an archived one.
Extent(a, f) ==
  /\ Past(a.gen, f) /\ a.size \in Nat
  /\ a.gen = f.gen => a.size <= f.size /\ (a.archived => f.archived /\ a.size = f.size)
Work(a, f, pub) ==
  /\ DOMAIN a = WorkFields /\ Extent(a, f) /\ a.at \in Nat
  /\ a.phase = "canonical" => a.at <= a.size /\ Covers(a.gen, a.at, f, pub)
Completed(p, f, pub) ==
  p # NoProgress => Past(p.gen, f) /\ p.size \in Nat /\ Covers(p.gen, p.size, f, pub)
Cursor(cur, files, pub) ==
  /\ DOMAIN cur = CursorFields /\ DOMAIN cur.prog = Sessions
  /\ \A s \in Sessions : Completed(cur.prog[s], files[s], pub[s])
  /\ \A a \in cur.pending \cup {cur.active} :
       a # NoActive => a.s \in Sessions /\ Work(a, files[a.s], pub[a.s])

\* The first n records of the Server's generation k are there, from generation g.
Kept(gens, k, g, n) ==
  /\ k \in DOMAIN gens /\ n <= Len(gens[k].records)
  /\ \A m \in 1..n : gens[k].records[m].gen = g
Recorded(p, gens) ==
  p # NoRaw =>
    /\ p.gen \in Generations /\ p.offset \in Nat
    /\ Kept(gens, p.serverGen, p.gen, p.offset)
    /\ p.finalized => gens[p.serverGen].finalized
Progress(raw, kept) ==
  DOMAIN raw = Sessions /\ \A s \in Sessions : Recorded(raw[s], kept[s])

\* A page that was read, and what will be published once its batch is accepted.
Paged(page, f) ==
  /\ page.s \in Sessions /\ Past(page.gen, f)
  /\ page.events.from \in Nat /\ page.events.to \in Nat
With(page, pub) == [pub EXCEPT ![page.s] = @ \cup Published(page)]

\* A segment resumes where Raw progress ended, and lies within the file.
Segmented(page, raw, f) ==
  LET seg == page.raw IN
  /\ seg.from \in Nat /\ seg.to \in Nat /\ seg.final \in BOOLEAN
  /\ seg.from # 0 => raw[page.s].gen = page.gen /\ seg.from = raw[page.s].offset
  /\ page.gen = f.gen /\ seg.from < seg.to => seg.to <= f.size
  /\ seg.final => seg.from <= seg.to /\ (page.gen = f.gen => f.archived /\ seg.to = f.size)
\* What the job sent of its segment and the Server acknowledged.
Acknowledged(r, gens) ==
  /\ r.sent \in Nat /\ r.closed \in BOOLEAN
  /\ Segment(r).from <= r.sent
  /\ Segment(r).final => r.sent <= Segment(r).to
  /\ r.sent # 0 \/ r.closed => Kept(gens, ServerGeneration(r), r.page.gen, r.sent)
  /\ r.closed => gens[ServerGeneration(r)].finalized

Job(r, files, pub, kept) ==
  /\ r.at \in {"idle", "collect", "canonical", "raw", "advance"}
  /\ r.at = "idle" => r = Idle
  /\ r.at = "collect" => DOMAIN r = CollectFields
  /\ r.at \in {"canonical", "raw", "advance"} =>
       /\ DOMAIN r = SendFields /\ Paged(r.page, files[r.page.s])
       /\ Cursor(r.page.next, files, IF r.at = "canonical" THEN With(r.page, pub) ELSE pub)
  /\ r.at \in {"canonical", "raw"} =>
       /\ Segmented(r.page, r.raw, files[r.page.s])
       /\ Acknowledged(r, kept[r.page.s])
  /\ r.at # "idle" =>
       r.policy \in Policies /\ Cursor(r.cursor, files, pub) /\ Progress(r.raw, kept)

\* A chunk row is a part of the object.
Stored(x, gens) ==
  /\ x.serverGen \in DOMAIN gens /\ x.offset \in Nat
  /\ x.record = <<>> \/ \E rec :
       /\ x.record = <<rec>> /\ x.offset + 1 <= Len(gens[x.serverGen].records)
       /\ gens[x.serverGen].records[x.offset + 1].gen = rec.gen
  /\ x.final => gens[x.serverGen].finalized

\* An archived generation is a prefix of one source generation, and all of it
\* when it is final, as no finished file grows again.
Prefix(kept, g, f) ==
  /\ Past(g, f)
  /\ \A n \in DOMAIN kept.records : kept.records[n].gen = g /\ kept.records[n].n = n
  /\ g = f.gen => Len(kept.records) <= f.size
                  /\ (kept.finalized => f.archived /\ Len(kept.records) = f.size)

RawRecords == [gen : Generations, n : Nat, policy : Policies]
RawGenerations == [records : Seq(RawRecords), finalized : BOOLEAN]

File(f, changes) ==
  /\ DOMAIN f = FileFields
  /\ f.gen \in Nat /\ f.gen + changes <= MaxChanges + 1
  /\ f.size \in Nat /\ f.archived \in BOOLEAN
Sources ==
  /\ DOMAIN budget = {"changes", "faults"} /\ budget.changes \in Nat
  /\ policy \in Policies
  /\ DOMAIN src = Sessions /\ \A s \in Sessions : File(src[s], budget.changes)
Archives ==
  /\ DOMAIN canon = Sessions /\ archive \in [Sessions -> Seq(RawGenerations)]
  /\ DOMAIN chunks = Sessions
  /\ \A s \in Sessions :
       /\ \A x \in chunks[s] : Stored(x, archive[s])
       /\ \A i \in DOMAIN archive[s] : \E g \in Generations : Prefix(archive[s][i], g, src[s])
Checkpoints ==
  /\ DOMAIN checkpoint = CheckpointFields /\ checkpoint.policy \in Policies
  /\ Cursor(checkpoint.cursor, src, canon) /\ Progress(checkpoint.raw, archive)
Jobs ==
  DOMAIN run = Collectors /\ \A c \in Collectors : Job(run[c], src, canon, archive)

Collection == Sources /\ Archives /\ Checkpoints /\ Jobs
-----------------------------------------------------------------------------
(* What lasts: files only grow or are replaced, and the Server forgets nothing. *)

After(f, h) ==
  \/ h.gen = f.gen /\ f.size <= h.size /\ (f.archived => h.archived /\ h.size = f.size)
  \/ h.gen = 0
  \/ f.gen # 0 /\ h.gen = f.gen + 1
Grown(gens, more) ==
  \A k \in DOMAIN gens :
    /\ k \in DOMAIN more /\ Len(gens[k].records) <= Len(more[k].records)
    /\ \A m \in 1..Len(gens[k].records) : more[k].records[m] = gens[k].records[m]
    /\ gens[k].finalized => more[k].finalized
Sized(f) == f.gen \in Nat /\ f.size \in Nat
FilesLater(files, later) ==
  \A s \in Sessions : Sized(files[s]) /\ Sized(later[s]) /\ After(files[s], later[s])
PublishedMore(pub, more) ==
  /\ DOMAIN pub = Sessions /\ DOMAIN more = Sessions
  /\ \A s \in Sessions : pub[s] \subseteq more[s]
ArchivedMore(kept, more) ==
  \A s \in Sessions : kept[s] \in Seq(RawGenerations) /\ Grown(kept[s], more[s])

\* A past generation stays one, and the current one only grew.
LEMMA PastLasts ==
  ASSUME NEW f, NEW h, Sized(f), Sized(h), After(f, h), NEW g, Past(g, f)
  PROVE  /\ Past(g, h)
         /\ g = h.gen => /\ g = f.gen /\ f.size <= h.size
                         /\ f.archived => h.archived /\ h.size = f.size
  BY LegacyCollectorAssumption DEF Past, After, Sized, Generations

\* Published records stay published, and a replaced file owes none.
LEMMA CoversLast ==
  ASSUME NEW f, NEW h, Sized(f), Sized(h), After(f, h), NEW pub, NEW more, pub \subseteq more,
         NEW g, Past(g, f), NEW n, Covers(g, n, f, pub)
  PROVE  Covers(g, n, h, more)
  BY PastLasts DEF Covers

\* A snapshot stays an extent of the file it was taken from.
LEMMA WorkLasts ==
  ASSUME NEW f, NEW h, Sized(f), Sized(h), After(f, h), NEW pub, NEW more, pub \subseteq more,
         NEW a, Work(a, f, pub)
  PROVE  Work(a, h, more)
<1>1. Past(a.gen, f)
  BY DEF Work, Extent
<1>2. Extent(a, h)
  BY <1>1, PastLasts DEF Work, Extent, Sized
<1> QED BY <1>1, <1>2, CoversLast DEF Work

\* A cursor covers what it covered, whatever sources and Server do meanwhile.
LEMMA CursorLasts ==
  ASSUME NEW files, NEW later, FilesLater(files, later),
         NEW pub, NEW more, PublishedMore(pub, more), NEW cur, Cursor(cur, files, pub)
  PROVE  Cursor(cur, later, more)
<1>1. ASSUME NEW s \in Sessions
      PROVE  Completed(cur.prog[s], later[s], more[s])
  BY PastLasts, CoversLast DEF Cursor, Completed, FilesLater, PublishedMore
<1>2. ASSUME NEW a \in cur.pending \cup {cur.active}, a # NoActive
      PROVE  a.s \in Sessions /\ Work(a, later[a.s], more[a.s])
  BY <1>2, WorkLasts DEF Cursor, FilesLater, PublishedMore
<1> QED BY <1>1, <1>2 DEF Cursor

\* Archived records stay archived.
LEMMA KeptLasts ==
  ASSUME NEW gens \in Seq(RawGenerations), NEW more, Grown(gens, more),
         NEW k, NEW g, NEW n \in Nat, Kept(gens, k, g, n)
  PROVE  Kept(more, k, g, n)
<1>1. Len(gens[k].records) \in Nat /\ k \in DOMAIN gens
  BY DEF Kept, RawGenerations
<1>2. \A m \in 1..n : m \in 1..Len(gens[k].records)
  BY <1>1 DEF Kept
<1>3. Len(gens[k].records) <= Len(more[k].records) /\ k \in DOMAIN more
  BY <1>1 DEF Grown
<1>4. n <= Len(more[k].records)
  BY <1>1, <1>3 DEF Kept
<1> QED BY <1>1, <1>2, <1>3, <1>4 DEF Kept, Grown

\* Raw progress stays acknowledged.
LEMMA ProgressLasts ==
  ASSUME NEW kept, NEW more, ArchivedMore(kept, more), NEW raw, Progress(raw, kept)
  PROVE  Progress(raw, more)
<1> SUFFICES ASSUME NEW s \in Sessions, raw[s] # NoRaw
             PROVE  Recorded(raw[s], more[s])
  BY DEF Progress, Recorded
<1>1. Recorded(raw[s], kept[s])
  BY DEF Progress
<1>2. Kept(more[s], raw[s].serverGen, raw[s].gen, raw[s].offset)
  BY <1>1, KeptLasts DEF Recorded, ArchivedMore
<1>3. raw[s].finalized => more[s][raw[s].serverGen].finalized
  BY <1>1 DEF Recorded, Kept, ArchivedMore, Grown
<1> QED BY <1>1, <1>2, <1>3 DEF Recorded

\* What a job holds in memory stays true while others act.
LEMMA JobLasts ==
  ASSUME NEW files, NEW later, FilesLater(files, later),
         NEW pub, NEW more, PublishedMore(pub, more),
         NEW kept, NEW held, ArchivedMore(kept, held),
         NEW r, Job(r, files, pub, kept)
  PROVE  Job(r, later, more, held)
<1>1. r.at \in {"canonical", "raw", "advance"} =>
        /\ r.page.s \in Sessions /\ Paged(r.page, later[r.page.s])
        /\ Cursor(r.page.next, later, IF r.at = "canonical" THEN With(r.page, more) ELSE more)
  <2> SUFFICES ASSUME r.at \in {"canonical", "raw", "advance"}
               PROVE  /\ r.page.s \in Sessions /\ Paged(r.page, later[r.page.s])
                      /\ Cursor(r.page.next, later,
                                IF r.at = "canonical" THEN With(r.page, more) ELSE more)
    OBVIOUS
  <2>1. r.page.s \in Sessions /\ Paged(r.page, files[r.page.s])
    BY DEF Job, Paged
  <2>2. Paged(r.page, later[r.page.s])
    BY <2>1, PastLasts DEF Paged, FilesLater
  <2>3. PublishedMore(With(r.page, pub), With(r.page, more))
    BY DEF PublishedMore, With
  <2> QED BY <2>1, <2>2, <2>3, CursorLasts DEF Job
<1>2. r.at \in {"canonical", "raw"} => Segmented(r.page, r.raw, later[r.page.s])
  <2> SUFFICES ASSUME r.at \in {"canonical", "raw"}
               PROVE  Segmented(r.page, r.raw, later[r.page.s])
    OBVIOUS
  <2> DEFINE s == r.page.s
  <2>1. s \in Sessions /\ Past(r.page.gen, files[s]) /\ Segmented(r.page, r.raw, files[s])
    BY DEF Job, Paged
  <2>2. r.page.gen = later[s].gen =>
          /\ r.page.gen = files[s].gen /\ files[s].size <= later[s].size
          /\ files[s].archived => later[s].archived /\ later[s].size = files[s].size
    BY <2>1, PastLasts DEF FilesLater
  <2>3. Sized(files[s]) /\ Sized(later[s])
    BY <2>1 DEF FilesLater
  <2> HIDE DEF s
  <2>4. Segmented(r.page, r.raw, later[s])
    BY <2>1, <2>2, <2>3 DEF Segmented, Sized
  <2> QED BY <2>4 DEF s
<1>3. r.at \in {"canonical", "raw"} => Acknowledged(r, held[r.page.s])
  <2> SUFFICES ASSUME r.at \in {"canonical", "raw"}
               PROVE  Acknowledged(r, held[r.page.s])
    OBVIOUS
  <2>1. r.page.s \in Sessions /\ Acknowledged(r, kept[r.page.s])
    BY DEF Job, Paged
  <2>2. r.sent # 0 \/ r.closed =>
          Kept(held[r.page.s], ServerGeneration(r), r.page.gen, r.sent)
    BY <2>1, KeptLasts DEF Acknowledged, ArchivedMore
  <2>3. r.closed => held[r.page.s][ServerGeneration(r)].finalized
    BY <2>1 DEF Acknowledged, Kept, ArchivedMore, Grown
  <2> QED BY <2>1, <2>2, <2>3 DEF Acknowledged
<1>4. r.at # "idle" => Cursor(r.cursor, later, more) /\ Progress(r.raw, held)
  BY CursorLasts, ProgressLasts DEF Job
<1> QED BY <1>1, <1>2, <1>3, <1>4 DEF Job

-----------------------------------------------------------------------------
(* Pages *)

\* A file has a generation and a size.
LEMMA SourcesSized ==
  ASSUME Sources
  PROVE  \A s \in Sessions : Sized(src[s])
  BY DEF Sources, File, Sized

\* A selected Session resumes its paused work or starts a snapshot of the file.
LEMMA StartedWork ==
  ASSUME Sources, Archives, NEW cur, Cursor(cur, src, canon), NEW s \in Live, NEW phase
  PROVE  Work(startSession(s, phase, cur), src[s], canon[s])
<1> DEFINE a == startSession(s, phase, cur)
           p == cur.prog[s]
<1>1. s \in Sessions /\ File(src[s], budget.changes) /\ src[s].gen # 0
  BY DEF Live, Sources
<1>2. Past(src[s].gen, src[s])
  BY <1>1, LegacyCollectorAssumption DEF File, Past, Generations, Sources
<1>3. /\ DOMAIN a = WorkFields /\ a.gen = src[s].gen /\ a.size = src[s].size
      /\ a.archived = src[s].archived /\ a.phase = phase
      /\ a.at = 0 \/ (p # NoProgress /\ a.at = p.size /\ p.gen = src[s].gen /\ p.size < src[s].size)
  BY DEF startSession, WorkFields
<1>4. Completed(p, src[s], canon[s])
  BY <1>1 DEF Cursor
<1> HIDE DEF a, p
<1>5. Extent(a, src[s])
  BY <1>1, <1>2, <1>3 DEF Extent, File
<1>6. ASSUME a.at = 0
      PROVE  Work(a, src[s], canon[s])
  <2>1. a.at \in Nat /\ a.at <= a.size /\ Covers(a.gen, a.at, src[s], canon[s])
    BY <1>1, <1>3, <1>6 DEF Covers, File
  <2> QED BY <1>3, <1>5, <2>1 DEF Work
<1>7. ASSUME p # NoProgress, a.at = p.size, p.gen = src[s].gen, p.size < src[s].size
      PROVE  Work(a, src[s], canon[s])
  <2>1. p.size \in Nat /\ Covers(p.gen, p.size, src[s], canon[s])
    BY <1>4, <1>7 DEF Completed
  <2>2. a.at \in Nat /\ a.at <= a.size /\ Covers(a.gen, a.at, src[s], canon[s])
    BY <1>1, <1>3, <1>7, <2>1 DEF File
  <2> QED BY <1>3, <1>5, <2>2 DEF Work
<1> QED BY <1>3, <1>6, <1>7 DEF a

\* The Session work of a page, resumed or started, is a snapshot of its file.
LEMMA ChosenWork ==
  ASSUME Sources, Archives, NEW cur, Cursor(cur, src, canon), NEW raw, NEW on,
         NEW a \in ChosenActive(cur, raw, on), a.s \in Live
  PROVE  Work(a, src[a.s], canon[a.s])
<1>1. NoActive.s \notin Sessions
  BY LegacyCollectorAssumption DEF NoActive
<1>2. a # NoActive
  BY <1>1 DEF Live
<1>3. CASE a \in cur.pending \cup {cur.active}
  BY <1>2, <1>3 DEF Cursor
<1>4. CASE \E sel : a = startSession(sel.s, sel.phase, cur)
  <2>1. PICK sel : a = startSession(sel.s, sel.phase, cur)
    BY <1>4
  <2>2. a.s = sel.s
    BY <2>1 DEF startSession
  <2> QED BY <2>1, <2>2, StartedWork
<1> QED BY <1>3, <1>4 DEF ChosenActive

\* A cursor but for the work it has under way.
Resting(cur, files, pub) ==
  /\ DOMAIN cur = CursorFields /\ DOMAIN cur.prog = Sessions
  /\ \A s \in Sessions : Completed(cur.prog[s], files[s], pub[s])
  /\ \A a \in cur.pending : a # NoActive => a.s \in Sessions /\ Work(a, files[a.s], pub[a.s])

\* With its active work a resting cursor is a cursor.
LEMMA RestingCursor ==
  ASSUME NEW cur, NEW files, NEW pub, Resting(cur, files, pub),
         cur.active # NoActive =>
           cur.active.s \in Sessions /\ Work(cur.active, files[cur.active.s], pub[cur.active.s])
  PROVE  Cursor(cur, files, pub)
  BY DEF Cursor, Resting

\* A resting cursor stays one when more is published.
LEMMA RestingLasts ==
  ASSUME Sources, NEW pub, NEW more, PublishedMore(pub, more), NEW cur, Resting(cur, src, pub)
  PROVE  Resting(cur, src, more)
<1>1. \A s \in Sessions : Sized(src[s]) /\ After(src[s], src[s]) /\ pub[s] \subseteq more[s]
  BY SourcesSized DEF After, Sized, PublishedMore
<1>2. ASSUME NEW s \in Sessions
      PROVE  Completed(cur.prog[s], src[s], more[s])
  BY <1>1, CoversLast DEF Resting, Completed
<1>3. ASSUME NEW a \in cur.pending, a # NoActive
      PROVE  a.s \in Sessions /\ Work(a, src[a.s], more[a.s])
  BY <1>1, <1>3, WorkLasts DEF Resting
<1> QED BY <1>2, <1>3 DEF Resting

\* The Events of a page close the gap to its position.
LEMMA EventsCovered ==
  ASSUME Sources, NEW a, a.s \in Sessions, NEW pub, Work(a, src[a.s], pub), a.phase = "canonical",
         NEW ev, ev = collectEvents(a)
  PROVE  /\ ev.from \in Nat /\ ev.to \in Nat /\ ev.from = a.at /\ ev.from <= ev.to /\ ev.to <= a.size
         /\ Covers(a.gen, ev.to, src[a.s],
                   pub \cup {[gen |-> a.gen, n |-> n] : n \in (ev.from + 1)..ev.to})
<1>1. a.at \in Nat /\ a.size \in Nat /\ a.at <= a.size /\ EventsPerPage \in Nat
  BY LegacyCollectorAssumption DEF Work, Extent
<1>2. ev.from = a.at /\ ev.to = IF Lost(a) THEN a.at ELSE LeastOf(a.size, a.at + EventsPerPage)
  BY DEF collectEvents
<1>3. ev.to \in Nat /\ ev.from <= ev.to /\ ev.to <= a.size
  BY <1>1, <1>2 DEF LeastOf
<1>4. Covers(a.gen, a.at, src[a.s], pub)
  BY DEF Work
<1>5. \A k \in 1..ev.to : k \in 1..a.at \/ k \in (ev.from + 1)..ev.to
  BY <1>1, <1>2, <1>3
<1> QED BY <1>1, <1>2, <1>3, <1>4, <1>5 DEF Covers

\* A page with its observation, the segment left open.
LEMMA SessionPage ==
  ASSUME Sources, Archives, NEW a, a.s \in Sessions, Work(a, src[a.s], canon[a.s]),
         NEW cur, Resting(cur, src, canon), NEW raw, NEW on,
         NEW page, page = collectActiveSession(a, cur, raw, on)
  PROVE  /\ page.s = a.s /\ page.gen = a.gen /\ page.emit \in BOOLEAN
         /\ Paged(page, src[page.s]) /\ Cursor(page.next, src, With(page, canon))
         /\ ~page.emit => Cursor(page.next, src, canon)
         /\ page.raw = IF a.phase = "raw" /\ on THEN collectRaw(a, raw)
                       ELSE [from |-> 0, to |-> 0, final |-> FALSE, complete |-> TRUE]
<1> DEFINE ev == IF a.phase = "canonical" THEN collectEvents(a) ELSE [from |-> a.at, to |-> a.at]
           seg == IF a.phase = "raw" /\ on THEN collectRaw(a, raw)
                  ELSE [from |-> 0, to |-> 0, final |-> FALSE, complete |-> TRUE]
           complete == IF a.phase = "canonical" THEN Lost(a) \/ ev.to = a.size ELSE seg.complete
           base == [cur EXCEPT !.failed[a.s] = 0]
           b == [a EXCEPT !.at = ev.to, !.emitted = TRUE, !.quantum = @ + 1]
           next == IF complete THEN completeActive(base, a) ELSE continueActive(base, b)
           pub == With(page, canon)
<1>1. /\ page.s = a.s /\ page.gen = a.gen /\ page.emit \in BOOLEAN
      /\ page.events = ev /\ page.raw = seg /\ page.next = next
      /\ ~page.emit => ~(ev.to > ev.from)
  BY DEF collectActiveSession
<1>2. a.at \in Nat /\ a.size \in Nat /\ Past(a.gen, src[a.s]) /\ DOMAIN a = WorkFields
  BY DEF Work, Extent
<1>3. ev.from \in Nat /\ ev.to \in Nat /\ ev.from <= ev.to
      /\ (a.phase = "canonical" => ev.to <= a.size)
  <2>1. CASE a.phase = "canonical"
    BY <1>2, <2>1, EventsCovered
  <2>2. CASE a.phase # "canonical"
    BY <1>2, <2>2
  <2> QED BY <2>1, <2>2
<1>4. DOMAIN canon = Sessions
  BY DEF Archives
<1>5. pub[a.s] = canon[a.s] \cup {[gen |-> a.gen, n |-> n] : n \in (ev.from + 1)..ev.to}
  BY <1>1, <1>4 DEF With, Published
<1>6. a.phase = "canonical" => Covers(a.gen, ev.to, src[a.s], pub[a.s])
  <2> SUFFICES ASSUME a.phase = "canonical"
               PROVE  Covers(a.gen, ev.to, src[a.s], pub[a.s])
    OBVIOUS
  <2>1. ev = collectEvents(a)
    OBVIOUS
  <2> HIDE DEF ev, pub
  <2>2. Covers(a.gen, ev.to, src[a.s],
               canon[a.s] \cup {[gen |-> a.gen, n |-> n] : n \in (ev.from + 1)..ev.to})
    BY <2>1, EventsCovered
  <2> QED BY <1>5, <2>2
<1>7. PublishedMore(canon, pub)
  BY <1>1, <1>4 DEF PublishedMore, With
<1>8. Sized(src[a.s]) /\ After(src[a.s], src[a.s])
  BY SourcesSized DEF After, Sized
<1>9. Work(a, src[a.s], pub[a.s]) /\ Resting(cur, src, pub)
  BY <1>7, <1>8, WorkLasts, RestingLasts DEF PublishedMore
<1>10. DOMAIN b = WorkFields /\ b.s = a.s /\ b.gen = a.gen /\ b.size = a.size /\ b.archived = a.archived
       /\ b.phase = a.phase /\ b.at = ev.to
  BY <1>2 DEF WorkFields
<1>11. DOMAIN base = CursorFields /\ base.prog = cur.prog /\ base.pending = cur.pending
       /\ base.active = cur.active
  BY <1>9 DEF Resting, CursorFields
<1> HIDE DEF ev, seg, complete, base, b, next, pub
<1>12. Work(b, src[b.s], pub[b.s])
  BY <1>3, <1>6, <1>9, <1>10 DEF Work, Extent
<1>13. a.phase = "canonical" /\ complete =>
         Completed([gen |-> a.gen, stamp |-> a.stamp, size |-> a.size], src[a.s], pub[a.s])
  BY <1>2, <1>3, <1>6 DEF complete, Completed, Covers, Lost
<1>14. Cursor(next, src, pub)
  <2>1. CASE complete
    <3> DEFINE n == completeActive(base, a)
    <3>1. DOMAIN n = CursorFields /\ n.active = NoActive /\ n.pending = cur.pending
          /\ n.prog = IF a.phase = "canonical"
                      THEN [cur.prog EXCEPT ![a.s] = [gen |-> a.gen, stamp |-> a.stamp, size |-> a.size]]
                      ELSE cur.prog
      BY <1>11 DEF completeActive, CursorFields
    <3> HIDE DEF n
    <3>2. Resting(n, src, pub)
      BY <1>9, <1>13, <2>1, <3>1 DEF Resting
    <3>3. Cursor(n, src, pub)
      BY <3>1, <3>2, RestingCursor
    <3> QED BY <2>1, <3>3 DEF n, next
  <2>2. CASE ~complete
    <3> DEFINE n == continueActive(base, b)
               d == [b EXCEPT !.quantum = 0]
    <3>1. /\ DOMAIN n = CursorFields /\ n.prog = cur.prog
          /\ \/ n.active = b /\ n.pending = cur.pending
             \/ n.active = NoActive /\ n.pending = cur.pending \cup {d}
      BY <1>11 DEF continueActive, CursorFields
    <3>2. Work(d, src[d.s], pub[d.s]) /\ d.s = a.s
      BY <1>10, <1>12 DEF Work, Extent, WorkFields
    <3> HIDE DEF n, d
    <3>3. Resting(n, src, pub)
      BY <1>9, <3>1, <3>2 DEF Resting
    <3>4. Cursor(n, src, pub)
      BY <1>10, <1>12, <3>1, <3>3, RestingCursor
    <3> QED BY <2>2, <3>4 DEF n, next
  <2> QED BY <2>1, <2>2
<1>15. ~page.emit => Cursor(next, src, canon)
  <2> SUFFICES ASSUME ~page.emit
               PROVE  Cursor(next, src, canon)
    OBVIOUS
  <2>1. (ev.from + 1)..ev.to = {}
    BY <1>1, <1>3
  <2>2. pub[a.s] = canon[a.s]
    BY <1>5, <2>1
  <2>3. DOMAIN pub = Sessions /\ \A s \in Sessions \ {a.s} : pub[s] = canon[s]
    BY <1>1, <1>4 DEF pub, With
  <2>4. PublishedMore(pub, canon) /\ FilesLater(src, src)
    BY <1>4, <2>2, <2>3, SourcesSized DEF PublishedMore, FilesLater, After, Sized
  <2> QED BY <1>14, <2>4, CursorLasts
<1> QED BY <1>1, <1>2, <1>3, <1>14, <1>15 DEF Paged, pub, seg

\* Raw resumes where the acknowledged offset is, which lies within the file.
LEMMA ResumedOffset ==
  ASSUME Sources, Archives, NEW s \in Sessions, NEW p, p # NoRaw, Recorded(p, archive[s]),
         p.gen = src[s].gen
  PROVE  p.offset <= src[s].size
<1>1. File(src[s], budget.changes)
  BY DEF Sources
<1>2. CASE p.offset = 0
  BY <1>1, <1>2 DEF File
<1>3. CASE p.offset # 0
  <2> DEFINE kept == archive[s][p.serverGen]
  <2>1. p.serverGen \in DOMAIN archive[s] /\ p.offset <= Len(kept.records) /\ p.offset \in Nat
        /\ \A m \in 1..p.offset : kept.records[m].gen = p.gen
    BY DEF Recorded, Kept
  <2>2. PICK g \in Generations : Prefix(kept, g, src[s])
    BY <2>1 DEF Archives
  <2>3. kept.records \in Seq(RawRecords)
    <3>1. archive[s] \in Seq(RawGenerations)
      BY DEF Archives
    <3>2. kept \in RawGenerations
      BY <2>1, <3>1
    <3> QED BY <3>2 DEF RawGenerations
  <2>4. 1 \in 1..p.offset /\ 1 \in DOMAIN kept.records /\ Len(kept.records) \in Nat
    BY <1>3, <2>1, <2>3
  <2>5. g = src[s].gen
    BY <2>1, <2>2, <2>4 DEF Prefix
  <2> QED BY <1>1, <2>1, <2>2, <2>4, <2>5 DEF Prefix, File
<1> QED BY <1>2, <1>3

\* A Raw segment starts at the acknowledged offset and ends inside the file.
LEMMA SegmentRead ==
  ASSUME Sources, Archives, NEW a, a.s \in Sessions, Work(a, src[a.s], canon[a.s]),
         NEW raw, Progress(raw, archive), NEW seg, seg = collectRaw(a, raw)
  PROVE  /\ seg.from \in Nat /\ seg.to \in Nat /\ seg.final \in BOOLEAN
         /\ seg.from # 0 => raw[a.s].gen = a.gen /\ seg.from = raw[a.s].offset
         /\ a.gen = src[a.s].gen /\ seg.from < seg.to => seg.to <= src[a.s].size
         /\ seg.final => /\ seg.from <= seg.to
                         /\ a.gen = src[a.s].gen => src[a.s].archived /\ seg.to = src[a.s].size
<1> DEFINE known == raw[a.s]
           f == src[a.s]
<1>1. File(f, budget.changes) /\ Extent(a, f) /\ Recorded(known, archive[a.s]) /\ SegmentRecords \in Nat
  BY LegacyCollectorAssumption DEF Sources, Work, Progress
<1>2. a.gen \in Nat \ {0} /\ a.size \in Nat /\ f.size \in Nat
  BY <1>1, LegacyCollectorAssumption DEF File, Extent, Past, Generations
<1>3. known.gen = a.gen => known # NoRaw
  BY <1>2 DEF NoRaw
<1>4. known.gen = a.gen => known.offset \in Nat /\ (a.gen = f.gen => known.offset <= f.size)
  BY <1>1, <1>3, ResumedOffset DEF Recorded
<1> DEFINE closed == known.gen = a.gen /\ known.finalized
<1>5. /\ seg.from = IF known.gen = a.gen THEN known.offset ELSE 0
      /\ seg.to = IF f.gen # a.gen \/ closed THEN seg.from
                  ELSE LeastOf(a.size, seg.from + SegmentRecords)
      /\ seg.final => f.gen = a.gen /\ ~closed /\ a.archived /\ seg.to = a.size
      /\ seg.final \in BOOLEAN
  BY DEF collectRaw, Lost
<1> HIDE DEF known, closed, f
<1>6. seg.from \in Nat /\ seg.to \in Nat /\ seg.final \in BOOLEAN
  BY <1>1, <1>2, <1>4, <1>5 DEF LeastOf
<1>7. a.gen = f.gen /\ seg.from < seg.to => seg.to <= f.size
  BY <1>1, <1>2, <1>4, <1>5, <1>6 DEF LeastOf, Extent
<1>8. seg.final => seg.from <= seg.to /\ f.archived /\ seg.to = f.size
  BY <1>1, <1>2, <1>4, <1>5, <1>6 DEF Extent
<1> QED BY <1>5, <1>6, <1>7, <1>8 DEF known, f

\* A page without observations leaves a covering cursor; one with observations
\* leaves it once its Events are published.
PageSound(page, raw) ==
  /\ ~page.emit => Cursor(page.next, src, canon)
  /\ page.emit => /\ Paged(page, src[page.s]) /\ Cursor(page.next, src, With(page, canon))
                  /\ Segmented(page, raw, src[page.s])

\* One page of chosen work, read, failed or passed over.
LEMMA PageOfSound ==
  ASSUME Sources, Archives, NEW cur, Resting(cur, src, canon), NEW a,
         a.s \in Live => Work(a, src[a.s], canon[a.s]),
         NEW raw, Progress(raw, archive), NEW on, NEW readable
  PROVE  PageSound(PageOf(a, cur, raw, on, readable), raw)
<1>1. CASE a.s \notin Visible(cur)
  <2> DEFINE next == [cur EXCEPT !.active = NoActive]
             page == PageOf(a, cur, raw, on, readable)
  <2>1. ~page.emit /\ page.next = next
    BY <1>1 DEF PageOf, EmptyPage
  <2>2. DOMAIN next = CursorFields /\ next.active = NoActive /\ next.prog = cur.prog
        /\ next.pending = cur.pending
    BY DEF Resting, CursorFields
  <2> HIDE DEF next
  <2>3. Resting(next, src, canon)
    BY <2>2 DEF Resting
  <2> QED BY <2>1, <2>2, <2>3, RestingCursor DEF PageSound
<1>2. CASE a.s \in Visible(cur) /\ readable
  <2> DEFINE page == collectActiveSession(a, cur, raw, on)
  <2>1. a.s \in Sessions /\ Work(a, src[a.s], canon[a.s])
    BY <1>2 DEF Visible, Live
  <2>2. PageOf(a, cur, raw, on, readable) = page
    BY <1>2 DEF PageOf
  <2> HIDE DEF page
  <2>3. /\ page.s = a.s /\ page.gen = a.gen /\ page.emit \in BOOLEAN
        /\ Paged(page, src[page.s]) /\ Cursor(page.next, src, With(page, canon))
        /\ ~page.emit => Cursor(page.next, src, canon)
        /\ page.raw = IF a.phase = "raw" /\ on THEN collectRaw(a, raw)
                      ELSE [from |-> 0, to |-> 0, final |-> FALSE, complete |-> TRUE]
    BY <2>1, SessionPage DEF page
  <2>4. Segmented(page, raw, src[page.s])
    <3>1. CASE a.phase = "raw" /\ on
      <4> DEFINE seg == collectRaw(a, raw)
      <4>1. page.raw = seg
        BY <2>3, <3>1
      <4> HIDE DEF seg
      <4>2. /\ seg.from \in Nat /\ seg.to \in Nat /\ seg.final \in BOOLEAN
            /\ seg.from # 0 => raw[a.s].gen = a.gen /\ seg.from = raw[a.s].offset
            /\ a.gen = src[a.s].gen /\ seg.from < seg.to => seg.to <= src[a.s].size
            /\ seg.final => /\ seg.from <= seg.to
                            /\ a.gen = src[a.s].gen => src[a.s].archived /\ seg.to = src[a.s].size
        BY <2>1, SegmentRead DEF seg
      <4> QED BY <2>3, <4>1, <4>2 DEF Segmented
    <3>2. CASE ~(a.phase = "raw" /\ on)
      <4>1. page.raw = [from |-> 0, to |-> 0, final |-> FALSE, complete |-> TRUE]
        BY <2>3, <3>2
      <4>2. page.raw.from = 0 /\ page.raw.to = 0 /\ page.raw.final \in BOOLEAN /\ ~page.raw.final
        BY <4>1
      <4> QED BY <4>2 DEF Segmented
    <3> QED BY <3>1, <3>2
  <2> QED BY <2>2, <2>3, <2>4 DEF PageSound
<1>3. CASE a.s \in Visible(cur) /\ ~readable
  <2> DEFINE next == [cur EXCEPT !.active = NoActive, !.failed[a.s] = src[a.s].stamp,
                                 !.pending = {b \in @ : b.s # a.s \/ b.phase # a.phase} \cup {a}]
             page == PageOf(a, cur, raw, on, readable)
  <2>1. ~page.emit /\ page.next = next
    BY <1>3 DEF PageOf, EmptyPage, quarantineSession
  <2>2. DOMAIN next = CursorFields /\ next.active = NoActive /\ next.prog = cur.prog
        /\ next.pending \subseteq cur.pending \cup {a}
    BY DEF Resting, CursorFields
  <2>3. a.s \in Sessions /\ Work(a, src[a.s], canon[a.s])
    BY <1>3 DEF Visible, Live
  <2> HIDE DEF next
  <2>4. Resting(next, src, canon)
    BY <2>2, <2>3 DEF Resting
  <2> QED BY <2>1, <2>2, <2>4, RestingCursor DEF PageSound
<1> QED BY <1>1, <1>2, <1>3

\* Every page a collect request can get is sound.
LEMMA CollectedPage ==
  ASSUME Sources, Archives, NEW requested, Cursor(requested, src, canon),
         NEW raw, Progress(raw, archive), NEW on, NEW readable,
         NEW page \in collectPage(requested, raw, on, readable)
  PROVE  PageSound(page, raw)
<1> DEFINE cur == IF on THEN requested ELSE WithoutRaw(requested)
           taken(a) == [cur EXCEPT !.active = a,
                          !.pending = {b \in @ : b.s # a.s \/ b.phase # a.phase}]
<1>1. DOMAIN requested = CursorFields
  BY DEF Cursor
<1>2. DOMAIN cur = CursorFields /\ cur.prog = requested.prog
      /\ cur.pending \subseteq requested.pending /\ cur.active \in {requested.active, NoActive}
  BY <1>1 DEF WithoutRaw, CursorFields
<1>3. \/ page = EmptyPage(cur, FALSE)
      \/ \E a \in ChosenActive(cur, raw, on) : page = PageOf(a, taken(a), raw, on, readable)
  <2> DEFINE pages(d) == {PageOf(a, [d EXCEPT !.active = a,
                                       !.pending = {b \in @ : b.s # a.s \/ b.phase # a.phase}],
                                 raw, on, readable)
                           : a \in ChosenActive(d, raw, on)}
  <2>1. page \in IF UNION {pages(d) : d \in {cur}} # {} THEN UNION {pages(d) : d \in {cur}}
                 ELSE {EmptyPage(d, FALSE) : d \in {cur}}
    BY DEF collectPage
  <2> HIDE DEF pages, cur
  <2>2. page \in pages(cur) \/ page = EmptyPage(cur, FALSE)
    BY <2>1
  <2> QED BY <2>2 DEF pages
<1> HIDE DEF cur
<1>4. Cursor(cur, src, canon)
  BY <1>2 DEF Cursor
<1>5. CASE page = EmptyPage(cur, FALSE)
  BY <1>4, <1>5 DEF EmptyPage, PageSound
<1>6. ASSUME NEW a \in ChosenActive(cur, raw, on), page = PageOf(a, taken(a), raw, on, readable)
      PROVE  PageSound(page, raw)
  <2>1. DOMAIN taken(a) = CursorFields /\ taken(a).prog = cur.prog
        /\ taken(a).pending \subseteq cur.pending
    BY <1>2 DEF CursorFields
  <2>2. Resting(taken(a), src, canon)
    BY <1>4, <2>1 DEF Resting, Cursor
  <2>3. a.s \in Live => Work(a, src[a.s], canon[a.s])
    BY <1>4, <1>6, ChosenWork
  <2> HIDE DEF taken
  <2> QED BY <1>6, <2>2, <2>3, PageOfSound
<1> QED BY <1>3, <1>5, <1>6
-----------------------------------------------------------------------------
(* Steps *)

\* Nothing moves in a step that changes neither sources nor Server.
LEMMA Unmoved ==
  ASSUME Collection
  PROVE  /\ FilesLater(src, src) /\ PublishedMore(canon, canon) /\ ArchivedMore(archive, archive)
         /\ \A s \in Sessions : Sized(src[s]) /\ archive[s] \in Seq(RawGenerations)
  BY SourcesSized DEF Collection, Archives, FilesLater, After, Sized, PublishedMore, ArchivedMore, Grown

\* A step keeps the invariant when its own rows do: the rest lasts.
LEMMA Steps ==
  ASSUME Collection, Sources', Archives', FilesLater(src, src'), PublishedMore(canon, canon'),
         ArchivedMore(archive, archive'), checkpoint' = checkpoint \/ Checkpoints',
         DOMAIN run' = Collectors,
         \A c \in Collectors : run'[c] = run[c] \/ Job(run'[c], src', canon', archive')
  PROVE  Collection'
<1>1. Checkpoints'
  BY CursorLasts, ProgressLasts DEF Collection, Checkpoints
<1>2. ASSUME NEW c \in Collectors
      PROVE  Job(run'[c], src', canon', archive')
  <2>1. Job(run[c], src, canon, archive)
    BY DEF Collection, Jobs
  <2>2. Job(run[c], src', canon', archive')
    BY <2>1, JobLasts
  <2> QED BY <2>2
<1> QED BY <1>1, <1>2 DEF Collection, Jobs

Fault == budget' = [budget EXCEPT !.faults = @ - 1]
OthersRun(c) == DOMAIN run' = Collectors /\ \A q \in Collectors \ {c} : run'[q] = run[q]

\* Sources do not depend on the faults that are left.
LEMMA BudgetKept ==
  ASSUME Sources, UNCHANGED <<src, policy>>, UNCHANGED budget \/ Fault
  PROVE  Sources'
<1>1. DOMAIN budget' = {"changes", "faults"} /\ budget'.changes = budget.changes
  BY DEF Sources, Fault
<1> QED BY <1>1 DEF Sources, File

\* A step of collector c that the Server and the sources do not see.
LEMMA LocalStep ==
  ASSUME Collection, NEW c \in Collectors,
         UNCHANGED <<src, policy, canon, archive, chunks>>, UNCHANGED budget \/ Fault,
         checkpoint' = checkpoint \/ Checkpoints', OthersRun(c),
         run'[c] = run[c] \/ Job(run'[c], src, canon, archive)
  PROVE  Collection'
<1>1. Sources'
  BY BudgetKept DEF Collection
<1>2. Archives'
  BY DEF Collection, Archives
<1> QED BY <1>1, <1>2, Unmoved, Steps DEF OthersRun

\* A job that ended owes nothing.
LEMMA Ended ==
  ASSUME NEW files, NEW pub, NEW kept
  PROVE  Job(Idle, files, pub, kept)
  BY DEF Job, Idle

\* Ending a cycle leaves the other jobs alone.
LEMMA EndCycleEffect ==
  ASSUME Jobs, NEW c \in Collectors, EndCycle(c)
  PROVE  OthersRun(c) /\ run'[c] = Idle
  BY DEF Jobs, EndCycle, OthersRun

\* A job about to collect holds a cursor and progress that are true.
LEMMA Collecting ==
  ASSUME Collection, NEW r, DOMAIN r = CollectFields, r.at = "collect", r.policy \in Policies,
         Cursor(r.cursor, src, canon), Progress(r.raw, archive)
  PROVE  Job(r, src, canon, archive)
  BY DEF Job

\* Retries and the like: the same page with the same acknowledgements.
LEMMA JobAs ==
  ASSUME NEW files, NEW pub, NEW kept, NEW r, Job(r, files, pub, kept), r.at \in {"canonical", "raw"},
         NEW q, DOMAIN q = SendFields, q.at = r.at, q.cursor = r.cursor, q.raw = r.raw,
         q.policy = r.policy, q.page = r.page, q.sent = r.sent, q.closed = r.closed
  PROVE  Job(q, files, pub, kept)
<1>1. ServerGeneration(q) = ServerGeneration(r)
  BY DEF ServerGeneration
<1> QED BY <1>1 DEF Job, Acknowledged, Segment

\* A committed checkpoint is true when what the job committed is.
LEMMA CommitKeeps ==
  ASSUME Collection, UNCHANGED <<src, canon, archive>>, NEW c \in Collectors,
         NEW cur, NEW raw, NEW pending, Commit(c, cur, raw, pending), run[c].policy \in Policies,
         Cursor(cur, src, canon), Progress(raw, archive)
  PROVE  Checkpoints'
<1>1. DOMAIN checkpoint' = CheckpointFields /\ checkpoint'.cursor = cur /\ checkpoint'.raw = raw
      /\ checkpoint'.policy = run[c].policy
  BY DEF Commit, CheckpointFields
<1> QED BY <1>1 DEF Checkpoints

\* After a page the job collects the next one or ends.
LEMMA NextPageEffect ==
  ASSUME Collection, NEW c \in Collectors, NEW page, NextPage(c, run[c], page),
         run[c].policy \in Policies, Cursor(page.next, src, canon), Progress(run[c].raw, archive)
  PROVE  OthersRun(c) /\ Job(run'[c], src, canon, archive)
<1> DEFINE r == run[c]
           next == [at |-> "collect", cursor |-> page.next, raw |-> r.raw, policy |-> r.policy,
                    rawOn |-> r.rawOn, unresolved |-> r.unresolved, pending |-> FALSE,
                    pages |-> r.pages + 1]
<1>1. OthersRun(c) /\ run'[c] \in {next, Idle}
  BY DEF NextPage, Collection, Jobs, OthersRun
<1>2. DOMAIN next = CollectFields /\ next.at = "collect" /\ next.policy = r.policy
      /\ next.cursor = page.next /\ next.raw = r.raw
  BY DEF CollectFields
<1> HIDE DEF next
<1>3. Job(next, src, canon, archive)
  BY <1>2, Collecting
<1> QED BY <1>1, <1>3, Ended

\* A new job starts from the durable checkpoint.
LEMMA BeginCycleKeeps ==
  ASSUME Collection, NEW c \in Collectors, BeginCycle(c)
  PROVE  Collection'
<1> DEFINE r == [at |-> "collect", cursor |-> checkpoint.cursor, raw |-> checkpoint.raw,
                 policy |-> policy, rawOn |-> rawOn, unresolved |-> checkpoint.pending,
                 pending |-> checkpoint.pending, pages |-> 0]
<1>1. OthersRun(c) /\ run'[c] = r
  BY DEF BeginCycle, Collection, Jobs, OthersRun
<1>2. Job(r, src, canon, archive)
  BY Collecting DEF Collection, Checkpoints, Sources, CollectFields
<1> QED BY <1>1, <1>2, LocalStep DEF BeginCycle, sources, server

\* A page that was read is sent with nothing acknowledged beyond Raw progress.
LEMMA ObservedKeeps ==
  ASSUME Collection, NEW c \in Collectors, run[c].at = "collect", NEW page, page.emit,
         PageSound(page, run[c].raw), ObservedPageStep(c, page),
         UNCHANGED <<src, policy, canon, archive, chunks>>, UNCHANGED budget \/ Fault
  PROVE  Collection'
<1> DEFINE r == run[c]
           q == [at |-> "canonical", cursor |-> r.cursor,
                 raw |-> r.raw, policy |-> r.policy, rawOn |-> r.rawOn, unresolved |-> r.unresolved,
                 pages |-> r.pages, page |-> page, sent |-> page.raw.from, closed |-> FALSE,
                 unsure |-> FALSE, tries |-> 0]
<1>1. Job(r, src, canon, archive)
  BY DEF Collection, Jobs
<1>2. r.policy \in Policies /\ Cursor(r.cursor, src, canon) /\ Progress(r.raw, archive)
  BY <1>1 DEF Job
<1>3. CASE ~Current(c)
  BY <1>3, EndCycleEffect, Ended, LocalStep DEF ObservedPageStep, store, Collection
<1>4. CASE Current(c)
  <2>1. Commit(c, r.cursor, r.raw, TRUE) /\ run' = [run EXCEPT ![c] = q]
    BY <1>4 DEF ObservedPageStep
  <2>2. OthersRun(c) /\ run'[c] = q
    BY <2>1 DEF Collection, Jobs, OthersRun
  <2>3. Checkpoints'
    BY <1>2, <2>1, CommitKeeps
  <2>4. /\ DOMAIN q = SendFields /\ q.at = "canonical" /\ q.cursor = r.cursor /\ q.raw = r.raw
        /\ q.policy = r.policy /\ q.page = page /\ q.sent = page.raw.from
        /\ q.closed \in BOOLEAN /\ ~q.closed
    BY DEF SendFields
  <2> HIDE DEF q
  <2>5. Paged(page, src[page.s]) /\ Cursor(page.next, src, With(page, canon))
        /\ Segmented(page, r.raw, src[page.s])
    BY DEF PageSound
  <2>6. Acknowledged(q, archive[page.s])
    <3> DEFINE known == r.raw[page.s]
    <3>1. page.s \in Sessions /\ page.gen # 0
      BY <2>5, LegacyCollectorAssumption DEF Paged, Past, Generations
    <3>2. /\ page.raw.from \in Nat /\ (page.raw.final => page.raw.from <= page.raw.to)
          /\ page.raw.from # 0 => known.gen = page.gen /\ page.raw.from = known.offset
      BY <2>5 DEF Segmented
    <3>3. page.raw.from # 0 => Kept(archive[page.s], ServerGeneration(q), page.gen, q.sent)
      <4> SUFFICES ASSUME page.raw.from # 0
                   PROVE  Kept(archive[page.s], ServerGeneration(q), page.gen, q.sent)
        OBVIOUS
      <4>1. known # NoRaw /\ Recorded(known, archive[page.s])
        BY <1>2, <3>1, <3>2 DEF NoRaw, Progress
      <4>2. ServerGeneration(q) = known.serverGen
        BY <2>4, <3>2, <4>1 DEF ServerGeneration
      <4> QED BY <2>4, <3>2, <4>1, <4>2 DEF Recorded
    <3> QED BY <2>4, <3>2, <3>3 DEF Acknowledged, Segment
  <2>7. Job(q, src, canon, archive)
    BY <1>2, <2>4, <2>5, <2>6 DEF Job
  <2> QED BY <2>2, <2>3, <2>7, LocalStep
<1> QED BY <1>3, <1>4

\* The steps a page leads to, with an observation or without.
LEMMA PageKeeps ==
  ASSUME Collection, NEW c \in Collectors, run[c].at = "collect", NEW page,
         PageSound(page, run[c].raw), PageStep(c, page),
         UNCHANGED <<src, policy, canon, archive, chunks>>, UNCHANGED budget \/ Fault
  PROVE  Collection'
<1>1. CASE page.emit
  BY <1>1, ObservedKeeps DEF PageStep
<1>2. CASE ~page.emit
  <2> DEFINE r == run[c]
             moved == page.next # r.cursor \/ checkpoint.policy # r.policy
  <2>1. r.policy \in Policies /\ Progress(r.raw, archive) /\ Cursor(page.next, src, canon)
    BY <1>2 DEF Collection, Jobs, Job, PageSound
  <2>2. CASE r.pending \/ (moved /\ ~Current(c))
    BY <1>2, <2>2, EndCycleEffect, Ended, LocalStep
       DEF PageStep, EmptyPageStep, store, Collection
  <2>3. CASE ~(r.pending \/ (moved /\ ~Current(c)))
    <3>1. NextPage(c, r, page) /\ (Commit(c, page.next, r.raw, FALSE) \/ UNCHANGED store)
      BY <1>2, <2>3 DEF PageStep, EmptyPageStep
    <3>2. checkpoint' = checkpoint \/ Checkpoints'
      BY <2>1, <3>1, CommitKeeps DEF store
    <3> QED BY <2>1, <3>1, <3>2, NextPageEffect, LocalStep
  <2> QED BY <2>2, <2>3
<1> QED BY <1>1, <1>2

\* A page is collected, or fails to be read.
LEMMA CollectKeeps ==
  ASSUME Collection, NEW c \in Collectors, Collect(c) \/ CollectUnreadable(c)
  PROVE  Collection'
<1>1. PICK readable \in BOOLEAN :
        \E page \in collectPage(run[c].cursor, run[c].raw, run[c].rawOn, readable) : PageStep(c, page)
  BY DEF Collect, CollectUnreadable
<1>2. PICK page \in collectPage(run[c].cursor, run[c].raw, run[c].rawOn, readable) : PageStep(c, page)
  BY <1>1
<1>3. run[c].at = "collect" /\ UNCHANGED <<src, policy, canon, archive, chunks>>
      /\ (UNCHANGED budget \/ Fault)
  BY DEF Collect, CollectUnreadable, sources, server, Fault
<1>4. Cursor(run[c].cursor, src, canon) /\ Progress(run[c].raw, archive)
  BY <1>3 DEF Collection, Jobs, Job
<1>5. PageSound(page, run[c].raw)
  BY <1>4, CollectedPage DEF Collection
<1> QED BY <1>2, <1>3, <1>5, PageKeeps

\* Accepting a batch publishes what the page promised.
LEMMA AcceptEffect ==
  ASSUME Collection, NEW c \in Collectors, run[c].at = "canonical",
         AcceptCanonical(run[c].page) \/ UNCHANGED canon, UNCHANGED <<src, policy, archive, chunks>>,
         UNCHANGED budget \/ Fault
  PROVE  /\ PublishedMore(canon, canon') /\ Sources' /\ Archives' /\ FilesLater(src, src')
         /\ ArchivedMore(archive, archive') /\ Job(run[c], src, canon', archive)
         /\ AcceptCanonical(run[c].page) => Cursor(run[c].page.next, src, canon')
<1>1. Job(run[c], src, canon, archive) /\ DOMAIN canon = Sessions
  BY DEF Collection, Jobs, Archives
<1>2. run[c].page.s \in Sessions /\ Cursor(run[c].page.next, src, With(run[c].page, canon))
  BY <1>1 DEF Job, Paged
<1>3. PublishedMore(canon, canon')
  BY <1>1, <1>2 DEF AcceptCanonical, PublishedMore
<1>4. Sources' /\ Archives'
  BY <1>3, BudgetKept DEF Collection, Archives, PublishedMore
<1>5. FilesLater(src, src') /\ ArchivedMore(archive, archive')
  BY Unmoved
<1>6. Job(run[c], src, canon', archive)
  BY <1>1, <1>3, Unmoved, JobLasts
<1>7. AcceptCanonical(run[c].page) => canon' = With(run[c].page, canon)
  BY DEF AcceptCanonical, With
<1> QED BY <1>2, <1>3, <1>4, <1>5, <1>6, <1>7

\* The Server accepts the batch and the job goes on to Raw.
LEMMA SubmitCanonicalKeeps ==
  ASSUME Collection, NEW c \in Collectors, SubmitCanonical(c)
  PROVE  Collection'
<1> DEFINE r == run[c]
           q == [r EXCEPT !.at = "raw", !.tries = 0]
<1>1. r.at = "canonical" /\ AcceptCanonical(r.page) /\ run' = [run EXCEPT ![c] = q]
      /\ UNCHANGED <<src, policy, checkpoint, archive, chunks, budget>>
  BY DEF SubmitCanonical, sources, store
<1>2. Job(r, src, canon', archive) /\ Cursor(r.page.next, src, canon')
  BY <1>1, AcceptEffect
<1>3. DOMAIN r = SendFields
  BY <1>1, <1>2 DEF Job
<1>4. /\ DOMAIN q = SendFields /\ q.at = "raw" /\ q.cursor = r.cursor /\ q.raw = r.raw
      /\ q.policy = r.policy /\ q.page = r.page /\ q.sent = r.sent /\ q.closed = r.closed
  BY <1>3 DEF SendFields
<1>5. OthersRun(c) /\ run'[c] = q
  BY <1>1 DEF Collection, Jobs, OthersRun
<1> HIDE DEF q
<1>6. ServerGeneration(q) = ServerGeneration(r)
  BY <1>4 DEF ServerGeneration
<1>7. Job(q, src, canon', archive)
  BY <1>1, <1>2, <1>4, <1>6 DEF Job, Acknowledged, Segment
<1> QED BY <1>1, <1>5, <1>7, AcceptEffect, Steps DEF OthersRun

\* The reply is lost, whether or not the batch was accepted.
LEMMA CanonicalLostKeeps ==
  ASSUME Collection, NEW c \in Collectors, CanonicalLost(c)
  PROVE  Collection'
<1> DEFINE r == run[c]
           q == [r EXCEPT !.tries = @ + 1]
<1>1. r.at = "canonical" /\ (AcceptCanonical(r.page) \/ UNCHANGED canon) /\ Fault
      /\ UNCHANGED <<src, policy, checkpoint, archive, chunks>>
  BY DEF CanonicalLost, sources, store, Fault
<1>2. Job(r, src, canon', archive)
  BY <1>1, AcceptEffect
<1>3. DOMAIN r = SendFields
  BY <1>1, <1>2 DEF Job
<1>4. /\ DOMAIN q = SendFields /\ q.at = r.at /\ q.cursor = r.cursor /\ q.raw = r.raw
      /\ q.policy = r.policy /\ q.page = r.page /\ q.sent = r.sent /\ q.closed = r.closed
  BY <1>3 DEF SendFields
<1>5. OthersRun(c) /\ run'[c] \in {q, Idle}
  BY DEF CanonicalLost, Retry, EndCycle, Collection, Jobs, OthersRun
<1> HIDE DEF q
<1>6. Job(q, src, canon', archive)
  BY <1>1, <1>2, <1>4, JobAs
<1>7. Job(run'[c], src', canon', archive')
  BY <1>1, <1>5, <1>6, Ended
<1> QED BY <1>1, <1>5, <1>7, AcceptEffect, Steps DEF OthersRun

-----------------------------------------------------------------------------
(* Raw chunks *)

\* The next chunk of a job whose segment is not finished.
LEMMA NextChunkRow ==
  ASSUME Collection, NEW c \in Collectors, Sending(c), NEW s, s = run[c].page.s,
         NEW chunk, chunk = NextChunk(run[c])
  PROVE  LET r == run[c]
             seg == r.page.raw
         IN
         /\ s \in Sessions /\ Past(r.page.gen, src[s]) /\ r.sent \in Nat /\ seg.to \in Nat
         /\ seg.from <= r.sent /\ seg.from \in Nat
         /\ chunk.serverGen = ServerGeneration(r) /\ chunk.offset = r.sent /\ chunk.final \in BOOLEAN
         /\ \/ chunk.record = <<>> /\ r.sent >= seg.to
            \/ /\ r.sent < seg.to
               /\ chunk.record = <<[gen |-> r.page.gen, n |-> r.sent + 1, policy |-> r.policy]>>
         /\ chunk.record \in Seq(RawRecords)
         /\ chunk.final => /\ seg.final /\ r.sent + 1 >= seg.to /\ r.sent <= seg.to
                           /\ r.page.gen = src[s].gen => src[s].archived /\ seg.to = src[s].size
         /\ r.page.gen = src[s].gen /\ r.sent < seg.to => seg.to <= src[s].size
         /\ r.sent # 0 => Kept(archive[s], chunk.serverGen, r.page.gen, r.sent)
<1> DEFINE r == run[c]
           seg == r.page.raw
<1>1. Job(r, src, canon, archive) /\ r.at = "raw"
  BY DEF Collection, Jobs, Sending
<1>2. Paged(r.page, src[s]) /\ Segmented(r.page, r.raw, src[s]) /\ Acknowledged(r, archive[s])
      /\ r.policy \in Policies
  BY <1>1 DEF Job
<1>3. s \in Sessions /\ Past(r.page.gen, src[s]) /\ r.sent \in Nat
      /\ seg.from \in Nat /\ seg.to \in Nat /\ seg.final \in BOOLEAN
      /\ seg.from <= r.sent /\ (seg.final => r.sent <= seg.to)
  BY <1>2 DEF Paged, Segmented, Acknowledged, Segment
<1>4. /\ r.page.gen = src[s].gen /\ seg.from < seg.to => seg.to <= src[s].size
      /\ seg.final /\ r.page.gen = src[s].gen => src[s].archived /\ seg.to = src[s].size
  BY <1>2 DEF Segmented
<1>5. r.sent # 0 => Kept(archive[s], ServerGeneration(r), r.page.gen, r.sent)
  BY <1>2 DEF Acknowledged
<1>6. /\ chunk.serverGen = ServerGeneration(r) /\ chunk.offset = r.sent
      /\ chunk.record = IF r.sent < seg.to
                        THEN <<[gen |-> r.page.gen, n |-> r.sent + 1, policy |-> r.policy]>> ELSE <<>>
      /\ chunk.final \in BOOLEAN /\ (chunk.final => seg.final /\ r.sent + 1 >= seg.to)
  BY DEF NextChunk, Segment
<1>7. [gen |-> r.page.gen, n |-> r.sent + 1, policy |-> r.policy] \in RawRecords
  BY <1>2, <1>3 DEF RawRecords, Past
<1> HIDE DEF r, seg
<1>8. chunk.record \in Seq(RawRecords)
  BY <1>6, <1>7
<1>9. \/ chunk.record = <<>> /\ r.sent >= seg.to
      \/ /\ r.sent < seg.to
         /\ chunk.record = <<[gen |-> r.page.gen, n |-> r.sent + 1, policy |-> r.policy]>>
  BY <1>3, <1>6
<1>10. r.page.gen = src[s].gen /\ r.sent < seg.to => seg.to <= src[s].size
  BY <1>3, <1>4
<1> QED BY <1>3, <1>4, <1>5, <1>6, <1>8, <1>9, <1>10 DEF r, seg

\* The fields of an archived generation.
LEMMA ArchivedRow ==
  ASSUME NEW gens \in Seq(RawGenerations), NEW i \in DOMAIN gens
  PROVE  /\ gens[i].records \in Seq(RawRecords) /\ gens[i].finalized \in BOOLEAN
         /\ Len(gens[i].records) \in Nat
<1>1. gens[i] \in RawGenerations
  OBVIOUS
<1> QED BY <1>1 DEF RawGenerations

\* A concatenation of records.
LEMMA Concatenated ==
  ASSUME NEW x \in Seq(RawRecords), NEW y \in Seq(RawRecords)
  PROVE  /\ x \o y \in Seq(RawRecords) /\ Len(x \o y) = Len(x) + Len(y)
         /\ \A m \in 1..Len(x) : (x \o y)[m] = x[m]
         /\ \A m \in 1..Len(y) : (x \o y)[Len(x) + m] = y[m]
  OBVIOUS

\* What appending a chunk makes of the object it is appended to.
AppendedTo(s, chunk) ==
  LET gens == archive[s]
      k == chunk.serverGen
      old == IF k \in DOMAIN gens THEN gens[k].records ELSE <<>>
  IN
  /\ k \in Nat \ {0} /\ old \in Seq(RawRecords) /\ Len(old) = chunk.offset
  /\ archive'[s] \in Seq(RawGenerations) /\ DOMAIN archive'[s] = DOMAIN gens \cup {k}
  /\ archive'[s][k] = [records |-> old \o chunk.record, finalized |-> chunk.final]
  /\ \A i \in DOMAIN gens \ {k} : archive'[s][i] = gens[i]
  /\ k \in DOMAIN gens => ~gens[k].finalized
  /\ DOMAIN archive' = Sessions /\ \A t \in Sessions \ {s} : archive'[t] = archive[t]
  /\ archive' \in [Sessions -> Seq(RawGenerations)]
  /\ DOMAIN chunks' = Sessions /\ \A t \in Sessions \ {s} : chunks'[t] = chunks[t]
  /\ chunks'[s] = chunks[s] \cup {chunk}

\* Storing an accepted chunk appends it to its object.
LEMMA Appended ==
  ASSUME Collection, NEW c \in Collectors, Sending(c), NEW s, s = run[c].page.s,
         NEW chunk, chunk = NextChunk(run[c]),
         RawOutcome(s, chunk) = "appended", StoreChunk(s, chunk)
  PROVE  AppendedTo(s, chunk)
<1> DEFINE gens == archive[s]
           k == chunk.serverGen
           old == IF k \in DOMAIN gens THEN gens[k].records ELSE <<>>
           new == [records |-> old \o chunk.record, finalized |-> chunk.final]
<1>1. s \in Sessions /\ chunk.record \in Seq(RawRecords) /\ chunk.final \in BOOLEAN
      /\ chunk.offset \in Nat
  BY NextChunkRow
<1>2. archive \in [Sessions -> Seq(RawGenerations)] /\ gens \in Seq(RawGenerations)
      /\ DOMAIN chunks = Sessions
  BY <1>1 DEF Collection, Archives
<1>3. \/ k = Len(gens) + 1 /\ chunk.offset = 0
      \/ /\ gens # <<>> /\ k = Len(gens)
         /\ ~gens[Len(gens)].finalized /\ chunk.offset = Len(gens[Len(gens)].records)
  BY DEF RawOutcome
<1>4. Len(gens) \in Nat /\ DOMAIN gens = 1..Len(gens)
  BY <1>2
<1>5. gens # <<>> => Len(gens) # 0 /\ gens[Len(gens)] \in RawGenerations
  BY <1>2, <1>4
<1> DEFINE gen == [records |-> (IF k > Len(gens) THEN <<>> ELSE gens[k].records) \o chunk.record,
                   finalized |-> chunk.final]
           result == IF k > Len(gens) THEN Append(gens, gen) ELSE [gens EXCEPT ![k] = gen]
<1>6. archive' = [archive EXCEPT ![s] = result] /\ chunks' = [chunks EXCEPT ![s] = @ \cup {chunk}]
  BY DEF StoreChunk
<1>7. gen = new
  <2>1. k \in Nat /\ (k > Len(gens) <=> k \notin DOMAIN gens)
    BY <1>3, <1>4, <1>5
  <2>2. (IF k > Len(gens) THEN <<>> ELSE gens[k].records) = old
    BY <2>1
  <2> QED BY <2>2
<1> HIDE DEF gens, k, old, gen, new
<1>11. archive'[s] = result /\ DOMAIN archive' = Sessions
      /\ (\A t \in Sessions \ {s} : archive'[t] = archive[t])
  BY <1>1, <1>2, <1>6
<1>8. DOMAIN chunks' = Sessions /\ (\A t \in Sessions \ {s} : chunks'[t] = chunks[t])
      /\ chunks'[s] = chunks[s] \cup {chunk}
  BY <1>1, <1>2, <1>6
<1>9. /\ k \in Nat \ {0} /\ old \in Seq(RawRecords) /\ Len(old) = chunk.offset
      /\ new \in RawGenerations /\ (k \in DOMAIN gens => ~gens[k].finalized)
      /\ result \in Seq(RawGenerations) /\ DOMAIN result = DOMAIN gens \cup {k} /\ result[k] = new
      /\ \A i \in DOMAIN gens \ {k} : result[i] = gens[i]
  <2>1. CASE k = Len(gens) + 1 /\ chunk.offset = 0
    <3>1. k \notin DOMAIN gens /\ old = <<>> /\ old \in Seq(RawRecords) /\ Len(old) = 0
      BY <1>4, <2>1 DEF old
    <3>2. new \in RawGenerations
      <4>1. old \o chunk.record \in Seq(RawRecords)
        BY <1>1, <3>1
      <4> QED BY <1>1, <4>1 DEF new, RawGenerations
    <3>3. result = Append(gens, new)
      <4>1. k > Len(gens)
        BY <1>4, <2>1
      <4>2. result = Append(gens, gen)
        BY <4>1
      <4> QED BY <1>7, <4>2
    <3> HIDE DEF result
    <3>4. result \in Seq(RawGenerations) /\ DOMAIN result = DOMAIN gens \cup {k} /\ result[k] = new
          /\ \A i \in DOMAIN gens \ {k} : result[i] = gens[i]
      BY <1>2, <1>4, <2>1, <3>2, <3>3
    <3> QED BY <1>4, <2>1, <3>1, <3>2, <3>4
  <2>2. CASE /\ gens # <<>> /\ k = Len(gens)
             /\ ~gens[Len(gens)].finalized /\ chunk.offset = Len(gens[Len(gens)].records)
    <3>1. k \in DOMAIN gens /\ k \in Nat \ {0} /\ ~(k > Len(gens))
      BY <1>4, <1>5, <2>2
    <3>2. old = gens[k].records /\ old \in Seq(RawRecords)
      BY <1>5, <2>2, <3>1 DEF old, RawGenerations
    <3>3. new \in RawGenerations
      BY <1>1, <3>2 DEF new, RawGenerations
    <3>4. result = [gens EXCEPT ![k] = new]
      BY <1>7, <3>1
    <3> HIDE DEF result
    <3>5. result \in Seq(RawGenerations) /\ DOMAIN result = DOMAIN gens \cup {k} /\ result[k] = new
          /\ \A i \in DOMAIN gens \ {k} : result[i] = gens[i]
      BY <1>2, <1>4, <3>1, <3>3, <3>4
    <3> QED BY <2>2, <3>1, <3>2, <3>3, <3>5
  <2> QED BY <1>3, <2>1, <2>2 DEF gens, k
<1> HIDE DEF result
<1>10. archive' \in [Sessions -> Seq(RawGenerations)]
  <2>1. archive' = [archive EXCEPT ![s] = result]
    BY <1>6
  <2> QED BY <1>1, <1>2, <1>9, <2>1
<1> QED BY <1>8, <1>9, <1>10, <1>11 DEF gens, k, old, new, AppendedTo

\* An archived prefix stays one while its file grows or is replaced.
LEMMA PrefixLasts ==
  ASSUME NEW f, NEW h, Sized(f), Sized(h), After(f, h), NEW kept, NEW g, Prefix(kept, g, f)
  PROVE  Prefix(kept, g, h)
<1>1. Past(g, f)
  BY DEF Prefix
<1>2. Past(g, h) /\ (g = h.gen => /\ g = f.gen /\ f.size <= h.size
                                  /\ f.archived => h.archived /\ h.size = f.size)
  BY <1>1, PastLasts
<1>3. f.size \in Nat /\ h.size \in Nat
  BY DEF Sized
<1>4. g = h.gen => /\ Len(kept.records) <= h.size
                   /\ kept.finalized => h.archived /\ Len(kept.records) = h.size
  <2> SUFFICES ASSUME g = h.gen
               PROVE  /\ Len(kept.records) <= h.size
                      /\ kept.finalized => h.archived /\ Len(kept.records) = h.size
    OBVIOUS
  <2>1. Len(kept.records) <= f.size /\ f.size <= h.size
        /\ (kept.finalized => f.archived /\ Len(kept.records) = f.size)
        /\ (f.archived => h.archived /\ h.size = f.size)
    BY <1>2 DEF Prefix
  <2>2. kept.records = kept.records /\ (~kept.finalized \/ Len(kept.records) = f.size)
    BY <2>1
  <2> QED BY <1>3, <2>1, <2>2
<1> QED BY <1>2, <1>4 DEF Prefix

\* A chunk row stays part of its object.
LEMMA StoredLasts ==
  ASSUME NEW gens \in Seq(RawGenerations), NEW more, Grown(gens, more), NEW x, Stored(x, gens)
  PROVE  Stored(x, more)
<1>1. x.serverGen \in DOMAIN gens /\ x.offset \in Nat
  BY DEF Stored
<1>3. Len(gens[x.serverGen].records) \in Nat
  BY <1>1, ArchivedRow
<1>4. /\ x.serverGen \in DOMAIN more
      /\ Len(gens[x.serverGen].records) <= Len(more[x.serverGen].records)
      /\ \A m \in 1..Len(gens[x.serverGen].records) :
           more[x.serverGen].records[m] = gens[x.serverGen].records[m]
      /\ gens[x.serverGen].finalized => more[x.serverGen].finalized
  BY <1>1 DEF Grown
<1>5. CASE x.record = <<>>
  BY <1>1, <1>4, <1>5 DEF Stored
<1>6. ASSUME NEW rec, x.record = <<rec>>, x.offset + 1 <= Len(gens[x.serverGen].records),
             gens[x.serverGen].records[x.offset + 1].gen = rec.gen
      PROVE  Stored(x, more)
  <2>1. x.offset + 1 \in 1..Len(gens[x.serverGen].records)
    BY <1>1, <1>3, <1>6
  <2>2. more[x.serverGen].records[x.offset + 1].gen = rec.gen
    BY <1>4, <1>6, <2>1
  <2>3. x.offset + 1 <= Len(more[x.serverGen].records)
    <3> DEFINE m == Len(gens[x.serverGen].records)
               n == Len(more[x.serverGen].records)
    <3>1. x.offset + 1 <= m /\ m <= n
      BY <1>4, <1>6
    <3> QED BY <1>1, <1>3, <3>1
  <2> QED BY <1>1, <1>4, <1>6, <2>2, <2>3 DEF Stored
<1> QED BY <1>5, <1>6 DEF Stored

\* Everything the Server kept is still there, with the new chunk after it, which
\* belongs to the source generation of the page.
LEMMA AppendedEffect ==
  ASSUME Collection, NEW c \in Collectors, Sending(c), NEW s, s = run[c].page.s,
         NEW chunk, chunk = NextChunk(run[c]),
         RawOutcome(s, chunk) = "appended", StoreChunk(s, chunk), UNCHANGED <<src, policy, canon>>,
         UNCHANGED budget \/ Fault
  PROVE  /\ Sources' /\ Archives' /\ ArchivedMore(archive, archive')
         /\ Kept(archive'[s], chunk.serverGen, run[c].page.gen, run[c].sent + Len(chunk.record))
         /\ chunk.final => archive'[s][chunk.serverGen].finalized
<1> DEFINE gens == archive[s]
           more == archive'[s]
           k == chunk.serverGen
           g == run[c].page.gen
           sent == run[c].sent
           to == run[c].page.raw.to
           old == IF k \in DOMAIN gens THEN gens[k].records ELSE <<>>
           records == old \o chunk.record
           f == src[s]
<1>1. /\ s \in Sessions /\ Past(g, f) /\ sent \in Nat /\ to \in Nat
      /\ chunk.offset = sent /\ chunk.final \in BOOLEAN
      /\ \/ chunk.record = <<>> /\ sent >= to
         \/ sent < to /\ chunk.record = <<[gen |-> g, n |-> sent + 1, policy |-> run[c].policy]>>
      /\ chunk.record \in Seq(RawRecords)
      /\ chunk.final => /\ sent + 1 >= to /\ sent <= to
                        /\ g = f.gen => f.archived /\ to = f.size
      /\ g = f.gen /\ sent < to => to <= f.size
      /\ sent # 0 => Kept(gens, k, g, sent)
  BY NextChunkRow
<1>a. AppendedTo(s, chunk)
  BY Appended
<1>2. /\ k \in Nat \ {0} /\ old \in Seq(RawRecords) /\ Len(old) = sent
      /\ more \in Seq(RawGenerations) /\ DOMAIN more = DOMAIN gens \cup {k}
      /\ more[k] = [records |-> records, finalized |-> chunk.final]
      /\ \A i \in DOMAIN gens \ {k} : more[i] = gens[i]
      /\ k \in DOMAIN gens => ~gens[k].finalized
  BY <1>1, <1>a DEF AppendedTo
<1>3. /\ DOMAIN archive' = Sessions /\ \A t \in Sessions \ {s} : archive'[t] = archive[t]
      /\ archive' \in [Sessions -> Seq(RawGenerations)]
      /\ DOMAIN chunks' = Sessions /\ \A t \in Sessions \ {s} : chunks'[t] = chunks[t]
      /\ chunks'[s] = chunks[s] \cup {chunk}
  BY <1>a DEF AppendedTo
<1>4. gens \in Seq(RawGenerations) /\ File(f, budget.changes)
  BY <1>1 DEF Collection, Archives, Sources
<1> DEFINE rec == [gen |-> g, n |-> sent + 1, policy |-> run[c].policy]
           added == Len(chunk.record)
<1>5. \/ chunk.record = <<>> /\ sent >= to /\ added = 0
      \/ sent < to /\ chunk.record = <<rec>> /\ added = 1
  BY <1>1
<1> HIDE DEF gens, more, k, g, sent, to, old, f, rec, added, records
<1>6. more[k].records = records /\ more[k].finalized = chunk.final /\ k \in DOMAIN more
  BY <1>2
<1>7. /\ Len(records) = sent + added /\ records \in Seq(RawRecords)
      /\ \A m \in 1..sent : records[m] = old[m]
      /\ added = 1 => records[sent + 1] = rec
  <2>1. chunk.record \in Seq(RawRecords) /\ Len(chunk.record) = added /\ records = old \o chunk.record
    BY <1>1 DEF added, records
  <2>2. /\ Len(records) = sent + added /\ records \in Seq(RawRecords)
        /\ \A m \in 1..sent : records[m] = old[m]
        /\ \A m \in 1..added : records[sent + m] = chunk.record[m]
    <3>1. old \in Seq(RawRecords) /\ Len(old) = sent
      BY <1>2
    <3> DEFINE y == chunk.record
    <3>2. y \in Seq(RawRecords) /\ Len(y) = added /\ records = old \o y
      BY <2>1
    <3> HIDE DEF y
    <3>3. /\ old \o y \in Seq(RawRecords) /\ Len(old \o y) = Len(old) + Len(y)
          /\ \A m \in 1..Len(old) : (old \o y)[m] = old[m]
          /\ \A m \in 1..Len(y) : (old \o y)[Len(old) + m] = y[m]
      BY <3>1, <3>2, Concatenated
    <3>4. /\ Len(records) = sent + added /\ records \in Seq(RawRecords)
          /\ \A m \in 1..sent : records[m] = old[m]
          /\ \A m \in 1..added : records[sent + m] = y[m]
      BY <3>1, <3>2, <3>3
    <3> QED BY <3>4 DEF y
  <2>3. added = 1 => chunk.record[1] = rec
    BY <1>5
  <2> QED BY <2>2, <2>3
<1>8. rec.gen = g /\ rec.n = sent + 1
  BY DEF rec
<1>9. \A m \in 1..sent : old[m].gen = g
  <2>1. CASE sent = 0
    BY <2>1
  <2>2. CASE sent # 0
    BY <1>1, <2>2 DEF Kept, old
  <2> QED BY <2>1, <2>2
<1>10. \A m \in 1..(sent + added) : records[m].gen = g
  BY <1>1, <1>5, <1>7, <1>8, <1>9
<1>11. Kept(more, k, g, sent + added)
  BY <1>1, <1>5, <1>6, <1>7, <1>10 DEF Kept
<1>12. Grown(gens, more)
  <2> SUFFICES ASSUME NEW i \in DOMAIN gens
               PROVE  /\ i \in DOMAIN more /\ Len(gens[i].records) <= Len(more[i].records)
                      /\ \A m \in 1..Len(gens[i].records) : more[i].records[m] = gens[i].records[m]
                      /\ gens[i].finalized => more[i].finalized
    BY DEF Grown
  <2>1. CASE i = k
    <3>1. old = gens[i].records /\ ~gens[i].finalized
      BY <1>2, <2>1 DEF old
    <3> QED BY <1>1, <1>2, <1>5, <1>6, <1>7, <2>1, <3>1
  <2>2. CASE i # k
    <3>1. more[i] = gens[i] /\ i \in DOMAIN more
      BY <1>2, <2>2
    <3>2. Len(gens[i].records) \in Nat
      BY <1>4, ArchivedRow
    <3> QED BY <3>1, <3>2
  <2> QED BY <2>1, <2>2
<1>13. ArchivedMore(archive, archive')
  <2>1. \A t \in Sessions \ {s} : Grown(archive[t], archive'[t])
    BY <1>3, Unmoved DEF ArchivedMore
  <2> QED BY <1>1, <1>12, <2>1, Unmoved DEF ArchivedMore, gens, more
\* The records are a prefix: numbered in order, of one generation, within the file.
<1>14. \A i \in DOMAIN gens : \E q \in Generations : Prefix(gens[i], q, f)
  BY <1>1 DEF Collection, Archives, gens, f
<1>15. \A m \in 1..sent : records[m].n = m
  <2> SUFFICES ASSUME sent # 0
               PROVE  \A m \in 1..sent : records[m].n = m
    BY <1>1
  <2>1. k \in DOMAIN gens
    BY <1>1 DEF Kept
  <2>2. PICK q \in Generations : Prefix(gens[k], q, f)
    BY <1>14, <2>1
  <2>3. old = gens[k].records /\ DOMAIN old = 1..sent
    BY <1>1, <1>2, <2>1 DEF old
  <2> QED BY <1>7, <2>2, <2>3 DEF Prefix
<1>16. \A m \in 1..(sent + added) : records[m].n = m
  BY <1>1, <1>5, <1>7, <1>8, <1>15
<1>17. sent # 0 /\ g = f.gen => sent <= f.size
  <2> SUFFICES ASSUME sent # 0, g = f.gen
               PROVE  sent <= f.size
    OBVIOUS
  <2>1. k \in DOMAIN gens
    BY <1>1 DEF Kept
  <2>2. PICK q \in Generations : Prefix(gens[k], q, f)
    BY <1>14, <2>1
  <2>3. old = gens[k].records /\ DOMAIN old = 1..sent /\ 1 \in 1..sent
    BY <1>1, <1>2, <2>1 DEF old
  <2>4. q = g
    BY <1>9, <2>2, <2>3 DEF Prefix
  <2> QED BY <1>2, <2>2, <2>3, <2>4 DEF Prefix
<1>18. g = f.gen => sent + added <= f.size
  BY <1>1, <1>4, <1>5, <1>17 DEF File
<1>19. chunk.final => sent + added = to
  BY <1>1, <1>5
<1>20. Prefix(more[k], g, f)
  BY <1>1, <1>2, <1>6, <1>7, <1>10, <1>16, <1>18, <1>19 DEF Prefix
<1>21. \A i \in DOMAIN more : \E q \in Generations : Prefix(more[i], q, f)
  <2>1. g \in Generations
    BY <1>1 DEF Past
  <2> QED BY <1>2, <1>14, <1>20, <2>1
<1>22. Stored(chunk, more)
  <2>1. CASE chunk.record = <<>>
    BY <1>1, <1>6, <2>1 DEF Stored, k
  <2>2. CASE chunk.record # <<>>
    <3>1. chunk.record = <<rec>> /\ sent + 1 <= Len(more[k].records)
          /\ more[k].records[sent + 1].gen = rec.gen
      BY <1>1, <1>5, <1>6, <1>7, <2>2
    <3> QED BY <1>1, <1>6, <3>1 DEF Stored, k
  <2> QED BY <2>1, <2>2
<1>23. \A x \in chunks'[s] : Stored(x, more)
  <2>1. \A x \in chunks[s] : Stored(x, gens)
    BY <1>1 DEF Collection, Archives, gens
  <2> QED BY <1>3, <1>4, <1>12, <1>22, <2>1, StoredLasts
<1>24. Archives'
  <2>1. src' = src /\ canon' = canon /\ DOMAIN canon = Sessions
    BY DEF Collection, Archives
  <2>2. ASSUME NEW t \in Sessions
        PROVE  /\ \A x \in chunks'[t] : Stored(x, archive'[t])
               /\ \A i \in DOMAIN archive'[t] : \E q \in Generations : Prefix(archive'[t][i], q, src[t])
    <3>1. CASE t = s
      BY <1>21, <1>23, <3>1 DEF more, f
    <3>2. CASE t # s
      BY <1>3, <3>2 DEF Collection, Archives
    <3> QED BY <3>1, <3>2
  <2> QED BY <1>3, <2>1, <2>2 DEF Archives
<1>25. Sources'
  BY BudgetKept DEF Collection
<1> QED BY <1>6, <1>11, <1>13, <1>24, <1>25 DEF more, k, g, sent, added

\* A chunk that is replayed is in the object already.
LEMMA ReplayedRow ==
  ASSUME NEW gens \in Seq(RawGenerations), NEW chunk, Stored(chunk, gens), NEW g, NEW rec, rec.gen = g,
         NEW sent \in Nat, chunk.offset = sent, chunk.record = <<>> \/ chunk.record = <<rec>>,
         sent # 0 => Kept(gens, chunk.serverGen, g, sent), NEW k, k = chunk.serverGen
  PROVE  /\ Kept(gens, k, g, sent + Len(chunk.record))
         /\ chunk.final => gens[k].finalized
<1>1. /\ k \in DOMAIN gens /\ Len(gens[k].records) \in Nat
      /\ chunk.final => gens[k].finalized
  BY ArchivedRow DEF Stored
<1>2. CASE chunk.record = <<>>
  <2>1. Len(chunk.record) = 0
    BY <1>2
  <2>2. sent <= Len(gens[k].records) /\ \A m \in 1..sent : gens[k].records[m].gen = g
    BY <1>1 DEF Kept
  <2> QED BY <1>1, <2>1, <2>2 DEF Kept
<1>3. CASE chunk.record = <<rec>>
  <2>1. PICK x : /\ chunk.record = <<x>> /\ sent + 1 <= Len(gens[k].records)
                 /\ gens[k].records[sent + 1].gen = x.gen
    <3>1. chunk.record # <<>>
      BY <1>3
    <3> QED BY <3>1 DEF Stored
  <2>2. Len(chunk.record) = 1
    BY <1>3
  <2>3. x = rec
    <3>1. <<x>>[1] = <<rec>>[1]
      BY <1>3, <2>1
    <3> QED BY <3>1
  <2>4. \A m \in 1..sent : gens[k].records[m].gen = g
    BY DEF Kept
  <2>5. gens[k].records[sent + 1].gen = g
    BY <2>1, <2>3
  <2>6. \A m \in 1..(sent + 1) : m \in 1..sent \/ m = sent + 1
    OBVIOUS
  <2>7. \A m \in 1..(sent + 1) : gens[k].records[m].gen = g
    BY <2>4, <2>5, <2>6
  <2> QED BY <1>1, <2>1, <2>2, <2>7 DEF Kept
<1> QED BY <1>1, <1>2, <1>3

\* The Server has a chunk that it acknowledges, stored now or before.
LEMMA AppendRawKeeps ==
  ASSUME Collection, NEW c \in Collectors, AppendRaw(c)
  PROVE  Collection'
<1> DEFINE r == run[c]
           s == r.page.s
           chunk == NextChunk(r)
           outcome == RawOutcome(s, chunk)
           added == Len(chunk.record)
           q == [r EXCEPT !.sent = @ + added, !.closed = chunk.final,
                          !.unsure = FALSE, !.tries = 0]
           rec == [gen |-> r.page.gen, n |-> r.sent + 1, policy |-> r.policy]
<1>1. /\ Sending(c) /\ UNCHANGED <<src, policy, checkpoint, canon, budget>>
      /\ IF outcome = "appended" THEN StoreChunk(s, chunk) ELSE UNCHANGED <<chunks, archive>>
      /\ IF outcome = "conflict" THEN EndCycle(c) ELSE run' = [run EXCEPT ![c] = q]
      /\ outcome # "disabled"
  BY DEF AppendRaw, sources, store
<1>2. outcome \in {"appended", "conflict", "replayed", "disabled"}
      /\ (outcome = "replayed" => chunk \in chunks[s])
  BY DEF RawOutcome
<1>3. s = run[c].page.s /\ chunk = NextChunk(run[c]) /\ outcome = RawOutcome(s, chunk)
      /\ rec.gen = r.page.gen
  OBVIOUS
<1> HIDE DEF s, chunk, outcome, rec
<1>4. CASE outcome = "conflict"
  BY <1>1, <1>4, EndCycleEffect, Ended, LocalStep DEF Collection
<1>5. ASSUME outcome \in {"appended", "replayed"}
      PROVE  Collection'
  <2>1. /\ s \in Sessions /\ r.sent \in Nat /\ r.page.raw.to \in Nat /\ r.page.raw.from \in Nat
        /\ r.page.raw.from <= r.sent
        /\ chunk.serverGen = ServerGeneration(r) /\ chunk.offset = r.sent /\ chunk.final \in BOOLEAN
        /\ \/ chunk.record = <<>>
           \/ r.sent < r.page.raw.to /\ chunk.record = <<rec>>
        /\ r.sent # 0 => Kept(archive[s], chunk.serverGen, r.page.gen, r.sent)
    BY <1>1, <1>3, NextChunkRow DEF rec
  <2>2. added = 0 \/ (added = 1 /\ r.sent < r.page.raw.to)
    <3>1. CASE chunk.record = <<>>
      BY <3>1
    <3>2. CASE r.sent < r.page.raw.to /\ chunk.record = <<rec>>
      BY <3>2
    <3> QED BY <2>1, <3>1, <3>2
  <2>3. Sources' /\ Archives' /\ ArchivedMore(archive, archive')
        /\ Kept(archive'[s], chunk.serverGen, r.page.gen, r.sent + added)
        /\ (chunk.final => archive'[s][chunk.serverGen].finalized)
    <3>1. CASE outcome = "appended"
      <4>1. RawOutcome(s, chunk) = "appended" /\ StoreChunk(s, chunk)
        BY <1>1, <1>3, <3>1
      <4> QED BY <1>1, <1>3, <4>1, AppendedEffect
    <3>2. CASE outcome = "replayed"
      <4>1. archive' = archive /\ chunks' = chunks /\ chunk \in chunks[s]
        BY <1>1, <1>2, <3>2
      <4>2. Sources' /\ Archives' /\ ArchivedMore(archive, archive')
        BY <1>1, <4>1, BudgetKept, Unmoved DEF Collection, Archives
      <4>3. Stored(chunk, archive[s]) /\ archive[s] \in Seq(RawGenerations)
        BY <2>1, <4>1 DEF Collection, Archives
      <4>4. chunk.record = <<>> \/ chunk.record = <<rec>>
        BY <2>1
      <4>5. Kept(archive[s], chunk.serverGen, r.page.gen, r.sent + added)
            /\ (chunk.final => archive[s][chunk.serverGen].finalized)
        BY <1>3, <2>1, <4>3, <4>4, ReplayedRow
      <4> QED BY <4>1, <4>2, <4>5
    <3> QED BY <1>5, <3>1, <3>2
  <2>4. Job(r, src, canon, archive')
    BY <2>3, Unmoved, JobLasts DEF Collection, Jobs
  <2>5. DOMAIN r = SendFields /\ r.at = "raw"
    BY <1>1, <2>4 DEF Sending, Job
  <2> HIDE DEF added
  <2>6. /\ DOMAIN q = SendFields /\ q.at = "raw" /\ q.cursor = r.cursor /\ q.raw = r.raw
        /\ q.policy = r.policy /\ q.page = r.page /\ q.sent = r.sent + added
        /\ q.closed = chunk.final
    BY <2>5 DEF SendFields
  <2>7. OthersRun(c) /\ run'[c] = q
    BY <1>1, <1>5 DEF Collection, Jobs, OthersRun
  <2> HIDE DEF q
  <2>8. ServerGeneration(q) = ServerGeneration(r)
    BY <2>6 DEF ServerGeneration
  <2>9. Acknowledged(q, archive'[s])
    <3>1. (r.page.raw.final => r.sent <= r.page.raw.to) /\ r.page.raw.from <= r.sent
      BY <2>4, <2>5 DEF Job, Acknowledged, Segment
    <3>2. /\ q.sent \in Nat /\ q.closed \in BOOLEAN /\ q.page.raw.from <= q.sent
          /\ q.page.raw.final => q.sent <= q.page.raw.to
      <4> DEFINE n == r.sent
                 from == r.page.raw.from
                 to == r.page.raw.to
      <4>1. /\ n \in Nat /\ from \in Nat /\ to \in Nat /\ from <= n /\ q.sent = n + added
            /\ added = 0 \/ (added = 1 /\ n < to)
        BY <2>1, <2>2, <2>6
      <4>2. r.page.raw.final => n <= to
        BY <3>1
      <4> HIDE DEF n, from, to
      <4>3. q.sent \in Nat /\ from <= q.sent
        BY <4>1
      <4>4. ASSUME r.page.raw.final
            PROVE  q.sent <= to
        <5>1. n <= to
          BY <4>2, <4>4
        <5> QED BY <4>1, <5>1
      <4> QED BY <2>1, <2>6, <4>3, <4>4 DEF from, to
    <3>3. Kept(archive'[s], ServerGeneration(q), q.page.gen, q.sent)
      BY <2>1, <2>3, <2>6, <2>8
    <3>4. q.closed => archive'[s][ServerGeneration(q)].finalized
      BY <2>1, <2>3, <2>6, <2>8
    <3> QED BY <3>2, <3>3, <3>4 DEF Acknowledged, Segment
  <2>10. Job(q, src, canon, archive')
    BY <2>4, <2>5, <2>6, <2>9 DEF Job, s
  <2> QED BY <1>1, <2>3, <2>7, <2>10, Unmoved, Steps DEF OthersRun
<1> QED BY <1>1, <1>2, <1>4, <1>5

\* The reply to a chunk is lost, whether or not it was stored.
LEMMA RawLostKeeps ==
  ASSUME Collection, NEW c \in Collectors, RawLost(c)
  PROVE  Collection'
<1> DEFINE r == run[c]
           s == r.page.s
           chunk == NextChunk(r)
           q == [r EXCEPT !.tries = @ + 1, !.unsure = TRUE]
<1>1. /\ Sending(c) /\ UNCHANGED <<src, policy, checkpoint, canon>> /\ Fault
      /\ UNCHANGED <<chunks, archive>> \/ (RawOutcome(s, chunk) = "appended" /\ StoreChunk(s, chunk))
  BY DEF RawLost, sources, store, Fault
<1>2. Sources' /\ Archives' /\ ArchivedMore(archive, archive')
  <2>1. CASE UNCHANGED <<chunks, archive>>
    BY <1>1, <2>1, BudgetKept, Unmoved DEF Collection, Archives
  <2>2. CASE RawOutcome(s, chunk) = "appended" /\ StoreChunk(s, chunk)
    BY <1>1, <2>2, AppendedEffect
  <2> QED BY <1>1, <2>1, <2>2
<1>3. Job(r, src, canon, archive')
  BY <1>2, Unmoved, JobLasts DEF Collection, Jobs
<1>4. DOMAIN r = SendFields /\ r.at = "raw"
  BY <1>1, <1>3 DEF Sending, Job
<1>5. /\ DOMAIN q = SendFields /\ q.at = r.at /\ q.cursor = r.cursor /\ q.raw = r.raw
      /\ q.policy = r.policy /\ q.page = r.page /\ q.sent = r.sent /\ q.closed = r.closed
  BY <1>4 DEF SendFields
<1>6. OthersRun(c) /\ run'[c] \in {q, Idle}
  BY DEF RawLost, EndCycle, Collection, Jobs, OthersRun
<1> HIDE DEF q
<1>7. Job(q, src, canon, archive')
  BY <1>3, <1>4, <1>5, JobAs
<1>8. Job(run'[c], src', canon', archive')
  BY <1>1, <1>6, <1>7, Ended
<1> QED BY <1>1, <1>2, <1>6, <1>8, Unmoved, Steps DEF OthersRun

\* Without Raw the job goes on with the progress of the checkpoint.
LEMMA RawDisabledKeeps ==
  ASSUME Collection, NEW c \in Collectors, RawDisabled(c)
  PROVE  Collection'
<1> DEFINE r == run[c]
           q == [r EXCEPT !.at = "advance", !.rawOn = FALSE, !.raw = checkpoint.raw]
<1>1. Sending(c) /\ UNCHANGED <<src, policy, checkpoint, canon, archive, chunks, budget>>
  BY DEF RawDisabled, sources, store, server
<1>2. Job(r, src, canon, archive)
  BY DEF Collection, Jobs
<1>3. DOMAIN r = SendFields /\ r.at = "raw"
  BY <1>1, <1>2 DEF Sending, Job
<1>4. /\ DOMAIN q = SendFields /\ q.at = "advance" /\ q.cursor = r.cursor /\ q.raw = checkpoint.raw
      /\ q.policy = r.policy /\ q.page = r.page
  BY <1>3 DEF SendFields
<1>5. OthersRun(c) /\ run'[c] \in {q, Idle}
  BY DEF RawDisabled, EndCycle, Collection, Jobs, OthersRun
<1> HIDE DEF q
<1>6. Job(q, src, canon, archive)
  BY <1>2, <1>3, <1>4 DEF Job, Collection, Checkpoints
<1> QED BY <1>1, <1>5, <1>6, Ended, LocalStep

\* Progress is recorded once every chunk of the segment was acknowledged.
LEMMA PersistRawKeeps ==
  ASSUME Collection, NEW c \in Collectors, PersistRaw(c)
  PROVE  Collection'
<1> DEFINE r == run[c]
           s == r.page.s
           seg == r.page.raw
           p == [gen |-> r.page.gen, offset |-> seg.to, serverGen |-> ServerGeneration(r),
                 finalized |-> seg.final]
           raw == [r.raw EXCEPT ![s] = p]
           q == [r EXCEPT !.at = "advance"]
           w == [r EXCEPT !.at = "advance", !.raw = raw]
<1>1. r.at = "raw" /\ SegmentDone(r) /\ UNCHANGED <<src, policy, canon, archive, chunks, budget>>
  BY DEF PersistRaw, sources, server
<1>2. \/ run' = [run EXCEPT ![c] = q] /\ UNCHANGED store
      \/ ~SegmentEmpty(r.page) /\ Commit(c, r.cursor, raw, TRUE) /\ run' = [run EXCEPT ![c] = w]
      \/ EndCycle(c) /\ UNCHANGED store
  BY DEF PersistRaw, Segment
<1>3. Job(r, src, canon, archive)
  BY DEF Collection, Jobs
<1>4. /\ DOMAIN r = SendFields /\ r.policy \in Policies /\ Cursor(r.cursor, src, canon)
      /\ Progress(r.raw, archive) /\ Paged(r.page, src[s]) /\ Segmented(r.page, r.raw, src[s])
      /\ Acknowledged(r, archive[s]) /\ Cursor(r.page.next, src, canon)
  BY <1>1, <1>3 DEF Job
<1>5. /\ DOMAIN q = SendFields /\ q.at = "advance" /\ q.cursor = r.cursor /\ q.raw = r.raw
      /\ q.policy = r.policy /\ q.page = r.page
  BY <1>4 DEF SendFields
<1>6. /\ DOMAIN w = SendFields /\ w.at = "advance" /\ w.cursor = r.cursor /\ w.raw = raw
      /\ w.policy = r.policy /\ w.page = r.page
  BY <1>4 DEF SendFields
<1>7. DOMAIN run = Collectors
  BY DEF Collection, Jobs
<1>8. CASE run' = [run EXCEPT ![c] = q] /\ UNCHANGED store
  <2>1. OthersRun(c) /\ run'[c] = q
    BY <1>7, <1>8 DEF OthersRun
  <2> HIDE DEF q
  <2>2. Job(q, src, canon, archive)
    BY <1>4, <1>5 DEF Job
  <2> QED BY <1>1, <1>8, <2>1, <2>2, LocalStep DEF store
<1>9. CASE ~SegmentEmpty(r.page) /\ Commit(c, r.cursor, raw, TRUE) /\ run' = [run EXCEPT ![c] = w]
  <2>1. OthersRun(c) /\ run'[c] = w
    BY <1>7, <1>9 DEF OthersRun
  <2> HIDE DEF w
  <2>2. s \in Sessions /\ r.page.gen \in Generations
    BY <1>4 DEF Paged, Past
  <2>3. /\ r.sent \in Nat /\ seg.from \in Nat /\ seg.to \in Nat /\ seg.from <= r.sent
        /\ r.sent = seg.to /\ (seg.final => r.closed)
        /\ seg.to # seg.from \/ seg.final
        /\ r.sent # 0 \/ r.closed => Kept(archive[s], ServerGeneration(r), r.page.gen, r.sent)
        /\ r.closed => archive[s][ServerGeneration(r)].finalized
    BY <1>1, <1>4, <1>9 DEF SegmentDone, SegmentEmpty, Segment, Segmented, Acknowledged
  <2>4. Kept(archive[s], ServerGeneration(r), r.page.gen, seg.to)
        /\ (seg.final => archive[s][ServerGeneration(r)].finalized)
    BY <2>3
  <2>5. Recorded(p, archive[s])
    BY <2>2, <2>3, <2>4 DEF Recorded
  <2> HIDE DEF p
  <2>6. Progress(raw, archive)
    BY <1>4, <2>2, <2>5 DEF Progress
  <2> HIDE DEF raw
  <2>7. Job(w, src, canon, archive)
    BY <1>4, <1>6, <2>6 DEF Job
  <2>8. Checkpoints'
    BY <1>1, <1>4, <1>9, <2>6, CommitKeeps
  <2> QED BY <1>1, <2>1, <2>7, <2>8, LocalStep
<1>10. CASE EndCycle(c) /\ UNCHANGED store
  BY <1>1, <1>10, EndCycleEffect, Ended, LocalStep DEF store, Collection
<1> QED BY <1>2, <1>8, <1>9, <1>10

\* The cursor of a page whose batch was accepted becomes durable.
LEMMA AdvanceCursorKeeps ==
  ASSUME Collection, NEW c \in Collectors, AdvanceCursor(c)
  PROVE  Collection'
<1>1. run[c].at = "advance" /\ UNCHANGED <<src, policy, canon, archive, chunks, budget>>
  BY DEF AdvanceCursor, sources, server
<1>2. run[c].policy \in Policies /\ Progress(run[c].raw, archive)
      /\ Cursor(run[c].page.next, src, canon)
  BY <1>1 DEF Collection, Jobs, Job
<1>3. CASE Commit(c, run[c].page.next, run[c].raw, FALSE) /\ NextPage(c, run[c], run[c].page)
  <2>1. Checkpoints'
    BY <1>1, <1>2, <1>3, CommitKeeps
  <2> QED BY <1>1, <1>2, <1>3, <2>1, NextPageEffect, LocalStep
<1>4. CASE EndCycle(c) /\ UNCHANGED store
  BY <1>1, <1>4, EndCycleEffect, Ended, LocalStep DEF store, Collection
<1> QED BY <1>3, <1>4 DEF AdvanceCursor

\* A crash forgets the job and nothing else.
LEMMA CrashKeeps ==
  ASSUME Collection, NEW c \in Collectors, Crash(c)
  PROVE  Collection'
<1>1. UNCHANGED <<src, policy, checkpoint, canon, archive, chunks>> /\ Fault /\ EndCycle(c)
  BY DEF Crash, sources, store, server, Fault
<1> QED BY <1>1, EndCycleEffect, Ended, LocalStep DEF Collection

-----------------------------------------------------------------------------
(* The environment *)

\* A step of the sources alone keeps everything, as what was read lasts.
LEMMA SourceStep ==
  ASSUME Collection, UNCHANGED <<checkpoint, run, canon, archive, chunks>>, Sources',
         \A s \in Sessions : After(src[s], src'[s])
  PROVE  Collection'
<1>1. \A s \in Sessions : Sized(src[s]) /\ Sized(src'[s])
  BY DEF Collection, Sources, File, Sized
<1>2. FilesLater(src, src')
  BY <1>1 DEF FilesLater
<1>3. Archives'
  <2>1. ASSUME NEW s \in Sessions, NEW i \in DOMAIN archive[s]
        PROVE  \E g \in Generations : Prefix(archive[s][i], g, src'[s])
    <3>1. PICK g \in Generations : Prefix(archive[s][i], g, src[s])
      BY DEF Collection, Archives
    <3> QED BY <1>1, <3>1, PrefixLasts
  <2> QED BY <2>1 DEF Collection, Archives
<1> QED BY <1>2, <1>3, Unmoved, Steps DEF Collection, Jobs

\* A file that grows, is recreated or goes; only a removed one leaves generation 0.
LEMMA TouchKeeps ==
  ASSUME Collection, NEW s \in Sessions, NEW gen \in Nat, NEW size \in Nat, NEW archived \in BOOLEAN,
         Touch(s, gen, size, archived),
         \/ gen = src[s].gen /\ size >= src[s].size /\ ~src[s].archived
         \/ gen = 0
         \/ src[s].gen # 0 /\ gen = src[s].gen + 1
  PROVE  Collection'
<1> DEFINE f == src[s]
           h == [gen |-> gen, size |-> size, archived |-> archived,
                 stamp |-> 1 + MaxChanges - budget.changes + 1]
<1>1. File(f, budget.changes) /\ DOMAIN src = Sessions /\ budget.changes \in Nat
      /\ DOMAIN budget = {"changes", "faults"}
  BY DEF Collection, Sources
<1>2. DOMAIN h = FileFields /\ h.gen = gen /\ h.size = size /\ h.archived = archived
  BY DEF FileFields
<1>3. src' = [src EXCEPT ![s] = h] /\ budget' = [budget EXCEPT !.changes = @ - 1]
      /\ budget.changes > 0 /\ UNCHANGED <<policy, checkpoint, run, canon, archive, chunks>>
  BY DEF Touch, store, server
<1>4. \/ gen = f.gen /\ size >= f.size /\ ~f.archived
      \/ gen = 0
      \/ f.gen # 0 /\ gen = f.gen + 1
  OBVIOUS
<1> HIDE DEF f, h
<1>5. DOMAIN src' = Sessions /\ src'[s] = h /\ \A t \in Sessions \ {s} : src'[t] = src[t]
  BY <1>1, <1>3
<1>6. DOMAIN budget' = {"changes", "faults"} /\ budget'.changes = budget.changes - 1
  BY <1>1, <1>3
<1>7. After(f, h)
  BY <1>1, <1>2, <1>4 DEF After, File
<1>8. ASSUME NEW t \in Sessions
      PROVE  After(src[t], src'[t])
  <2>1. CASE t = s
    BY <1>5, <1>7, <2>1 DEF f
  <2>2. CASE t # s
    <3>1. src[t].size \in Nat /\ src'[t] = src[t]
      BY <1>5, <2>2 DEF Collection, Sources, File
    <3> QED BY <3>1 DEF After
  <2> QED BY <2>1, <2>2
<1>9. budget'.changes \in Nat
  BY <1>1, <1>3, <1>6
<1>10. ASSUME NEW t \in Sessions
       PROVE  File(src'[t], budget'.changes)
  <2>1. CASE t = s
    <3>1. gen + budget'.changes <= MaxChanges + 1
      BY <1>1, <1>4, <1>6, <1>9, LegacyCollectorAssumption DEF File
    <3> QED BY <1>2, <1>5, <2>1, <3>1 DEF File
  <2>2. CASE t # s
    <3>1. File(src[t], budget.changes) /\ src'[t] = src[t]
      BY <1>5, <2>2 DEF Collection, Sources
    <3> QED BY <1>1, <1>6, <3>1, LegacyCollectorAssumption DEF File
  <2> QED BY <2>1, <2>2
<1>11. Sources'
  BY <1>3, <1>5, <1>6, <1>9, <1>10 DEF Sources, Collection
<1> QED BY <1>3, <1>8, <1>11, SourceStep

\* The fields of a file that exists.
LEMMA LiveFile ==
  ASSUME Collection, NEW s \in Live
  PROVE  /\ s \in Sessions /\ src[s].gen \in Nat /\ src[s].gen # 0 /\ src[s].size \in Nat
         /\ src[s].archived \in BOOLEAN
  BY DEF Live, Collection, Sources, File

\* A rollout grows, is recreated or is removed.
LEMMA RolloutKeeps ==
  ASSUME Collection, NEW s \in Sessions, AppendRecord(s) \/ ReplaceRollout(s) \/ RemoveRollout(s)
  PROVE  Collection'
<1>1. s \in Live
  BY DEF AppendRecord, ReplaceRollout, RemoveRollout
<1>2. /\ src[s].gen \in Nat /\ src[s].gen # 0 /\ src[s].size \in Nat
      /\ src[s].archived \in BOOLEAN
  BY <1>1, LiveFile
<1>3. PICK gen, size, archived :
        /\ gen \in Nat /\ size \in Nat /\ archived \in BOOLEAN /\ Touch(s, gen, size, archived)
        /\ \/ gen = src[s].gen /\ size >= src[s].size /\ ~src[s].archived
           \/ gen = 0
           \/ src[s].gen # 0 /\ gen = src[s].gen + 1
  <2>1. CASE AppendRecord(s)
    <3>1. Touch(s, src[s].gen, src[s].size + 1, FALSE) /\ ~src[s].archived
      BY <2>1 DEF AppendRecord
    <3>2. src[s].size + 1 \in Nat /\ src[s].size + 1 >= src[s].size /\ FALSE \in BOOLEAN
      BY <1>2
    <3> QED BY <1>2, <3>1, <3>2
  <2>2. CASE ReplaceRollout(s)
    <3>1. Touch(s, src[s].gen + 1, 1, FALSE)
      BY <2>2 DEF ReplaceRollout
    <3>2. src[s].gen + 1 \in Nat /\ 1 \in Nat /\ FALSE \in BOOLEAN
      BY <1>2
    <3> QED BY <1>2, <3>1, <3>2
  <2>3. CASE RemoveRollout(s)
    <3>1. Touch(s, 0, 0, src[s].archived)
      BY <2>3 DEF RemoveRollout
    <3> QED BY <1>2, <3>1
  <2> QED BY <2>1, <2>2, <2>3
<1> QED BY <1>3, TouchKeeps

\* An archived file is complete: it keeps its extent and never grows again.
LEMMA ArchiveRolloutKeeps ==
  ASSUME Collection, NEW s \in Sessions, ArchiveRollout(s)
  PROVE  Collection'
<1> DEFINE f == src[s]
           h == [f EXCEPT !.archived = TRUE]
<1>1. File(f, budget.changes) /\ DOMAIN src = Sessions /\ budget.changes \in Nat
      /\ DOMAIN budget = {"changes", "faults"}
  BY DEF Collection, Sources
<1>2. src' = [src EXCEPT ![s] = h] /\ budget' = [budget EXCEPT !.changes = @ - 1]
      /\ budget.changes > 0 /\ ~f.archived
      /\ UNCHANGED <<policy, checkpoint, run, canon, archive, chunks>>
  BY DEF ArchiveRollout, store, server
<1>3. DOMAIN h = FileFields /\ h.gen = f.gen /\ h.size = f.size /\ h.archived = TRUE
  BY <1>1 DEF File, FileFields
<1> HIDE DEF f, h
<1>4. DOMAIN src' = Sessions /\ src'[s] = h /\ \A t \in Sessions \ {s} : src'[t] = src[t]
  BY <1>1, <1>2
<1>5. DOMAIN budget' = {"changes", "faults"} /\ budget'.changes = budget.changes - 1
      /\ budget'.changes \in Nat
  BY <1>1, <1>2
<1>6. ASSUME NEW t \in Sessions
      PROVE  After(src[t], src'[t])
  <2>1. CASE t = s
    BY <1>1, <1>2, <1>3, <1>4, <2>1 DEF f, After, File
  <2>2. CASE t # s
    <3>1. src[t].size \in Nat /\ src'[t] = src[t]
      BY <1>4, <2>2 DEF Collection, Sources, File
    <3> QED BY <3>1 DEF After
  <2> QED BY <2>1, <2>2
<1>7. ASSUME NEW t \in Sessions
      PROVE  File(src'[t], budget'.changes)
  <2>1. CASE t = s
    <3>1. f.gen \in Nat /\ f.gen + budget.changes <= MaxChanges + 1 /\ f.size \in Nat
      BY <1>1 DEF File
    <3>2. f.gen + budget'.changes <= MaxChanges + 1
      BY <1>1, <1>5, <3>1, LegacyCollectorAssumption
    <3> QED BY <1>3, <1>4, <2>1, <3>1, <3>2 DEF File
  <2>2. CASE t # s
    <3>1. File(src[t], budget.changes) /\ src'[t] = src[t]
      BY <1>4, <2>2 DEF Collection, Sources
    <3> QED BY <1>1, <1>5, <3>1, LegacyCollectorAssumption DEF File
  <2> QED BY <2>1, <2>2
<1>8. Sources'
  BY <1>2, <1>4, <1>5, <1>7 DEF Sources, Collection
<1> QED BY <1>2, <1>6, <1>8, SourceStep

\* A change of the redaction policy or of the Raw policy, or an ended quarantine.
LEMMA SettingKeeps ==
  ASSUME Collection, UNCHANGED <<src, checkpoint, run, canon, archive, chunks>>, policy' \in Policies,
         \/ UNCHANGED budget
         \/ budget.changes > 0 /\ budget' = [budget EXCEPT !.changes = @ - 1]
  PROVE  Collection'
<1>1. /\ DOMAIN budget = {"changes", "faults"} /\ budget.changes \in Nat
      /\ \A s \in Sessions : File(src[s], budget.changes)
  BY DEF Collection, Sources
<1>2. /\ DOMAIN budget' = {"changes", "faults"} /\ budget'.changes \in Nat
      /\ budget'.changes <= budget.changes
  BY <1>1
<1>3. ASSUME NEW s \in Sessions
      PROVE  File(src[s], budget'.changes)
  <2>1. File(src[s], budget.changes)
    BY <1>1
  <2> QED BY <1>1, <1>2, <2>1, LegacyCollectorAssumption DEF File
<1>4. Sources'
  BY <1>2, <1>3 DEF Sources, Collection
<1>5. \A s \in Sessions : After(src[s], src'[s])
  <2>1. \A s \in Sessions : src[s].size \in Nat
    BY <1>1 DEF File
  <2> QED BY <2>1 DEF After
<1> QED BY <1>4, <1>5, SourceStep

-----------------------------------------------------------------------------
(* The theorems *)

\* Nothing is published, archived or recorded at the start.
LEMMA InitKeeps == Init => Collection
<1> SUFFICES ASSUME Init PROVE Collection
  OBVIOUS
<1>1. Sources
  <2>1. /\ budget = [changes |-> MaxChanges, faults |-> MaxFaults] /\ policy = 1
        /\ src = [s \in Sessions |->
                    [gen |-> 1, size |-> InitialRecords, archived |-> FALSE, stamp |-> 1]]
    BY DEF Init
  <2>2. DOMAIN budget = {"changes", "faults"} /\ budget.changes = MaxChanges /\ budget.changes \in Nat
    BY <2>1, LegacyCollectorAssumption
  <2>3. ASSUME NEW s \in Sessions
        PROVE  File(src[s], budget.changes)
    <3>1. src[s] = [gen |-> 1, size |-> InitialRecords, archived |-> FALSE, stamp |-> 1]
      BY <2>1
    <3>2. DOMAIN src[s] = FileFields /\ src[s].gen = 1 /\ src[s].size = InitialRecords
          /\ src[s].archived = FALSE
      BY <3>1 DEF FileFields
    <3>3. src[s].gen + budget.changes <= MaxChanges + 1
      BY <2>2, <3>2, LegacyCollectorAssumption
    <3>4. src[s].gen \in Nat /\ src[s].size \in Nat /\ src[s].archived \in BOOLEAN
      BY <3>2, LegacyCollectorAssumption
    <3> QED BY <3>2, <3>3, <3>4 DEF File
  <2> QED BY <2>1, <2>2, <2>3, LegacyCollectorAssumption DEF Sources
<1>2. Archives
  BY DEF Init, Archives
<1>3. Cursor(checkpoint.cursor, src, canon)
  BY DEF Init, InitialCursor, Cursor, CursorFields, Completed
<1>4. Progress(checkpoint.raw, archive)
  BY DEF Init, Progress, Recorded
<1>5. Checkpoints
  BY <1>3, <1>4, LegacyCollectorAssumption DEF Init, Checkpoints, CheckpointFields
<1>6. Jobs
  BY DEF Init, Jobs, Job, Idle
<1> QED BY <1>1, <1>2, <1>5, <1>6 DEF Collection

\* A step of a job without faults.
LEMMA StepKeeps ==
  ASSUME Collection, NEW c \in Collectors, Step(c)
  PROVE  Collection'
<1>1. CASE BeginCycle(c)
  BY <1>1, BeginCycleKeeps
<1>2. CASE Collect(c)
  BY <1>2, CollectKeeps
<1>3. CASE SubmitCanonical(c)
  BY <1>3, SubmitCanonicalKeeps
<1>4. CASE AppendRaw(c)
  BY <1>4, AppendRawKeeps
<1>5. CASE RawDisabled(c)
  BY <1>5, RawDisabledKeeps
<1>6. CASE PersistRaw(c)
  BY <1>6, PersistRawKeeps
<1>7. CASE AdvanceCursor(c)
  BY <1>7, AdvanceCursorKeeps
<1> QED BY <1>1, <1>2, <1>3, <1>4, <1>5, <1>6, <1>7 DEF Step

\* Every step.
LEMMA NextKeeps == Collection /\ [Next]_vars => Collection'
<1> SUFFICES ASSUME Collection, [Next]_vars PROVE Collection'
  OBVIOUS
<1>1. ASSUME NEW c \in Collectors, Step(c)
      PROVE  Collection'
  BY <1>1, StepKeeps
<1>2. ASSUME NEW c \in Collectors, CollectUnreadable(c)
      PROVE  Collection'
  BY <1>2, CollectKeeps
<1>3. ASSUME NEW c \in Collectors, CanonicalLost(c)
      PROVE  Collection'
  BY <1>3, CanonicalLostKeeps
<1>4. ASSUME NEW c \in Collectors, RawLost(c)
      PROVE  Collection'
  BY <1>4, RawLostKeeps
<1>5. ASSUME NEW c \in Collectors, Crash(c)
      PROVE  Collection'
  BY <1>5, CrashKeeps
<1>6. ASSUME NEW s \in Sessions, AppendRecord(s) \/ ReplaceRollout(s) \/ RemoveRollout(s)
      PROVE  Collection'
  BY <1>6, RolloutKeeps
<1>7. ASSUME NEW s \in Sessions, ArchiveRollout(s)
      PROVE  Collection'
  BY <1>7, ArchiveRolloutKeeps
<1>8. policy \in Policies
  BY DEF Collection, Sources
<1>9. ASSUME NEW s \in Sessions, RetryDue(s)
      PROVE  Collection'
  BY <1>8, <1>9, SettingKeeps DEF RetryDue, store, server
<1>10. ASSUME NEW p \in Policies, ChangePolicy(p)
       PROVE  Collection'
  BY <1>10, SettingKeeps DEF ChangePolicy, store, server
<1>11. CASE ToggleRaw
  BY <1>8, <1>11, SettingKeeps DEF ToggleRaw, sources, store, server
<1>12. CASE UNCHANGED vars
  BY <1>8, <1>12, SettingKeeps DEF vars
<1> QED BY <1>1, <1>2, <1>3, <1>4, <1>5, <1>6, <1>7, <1>9, <1>10, <1>11, <1>12 DEF Next

\* Every page, chunk, checkpoint and source change, and every crash between them,
\* keeps the cursor, the Raw progress and the archive consistent with the sources
\* and with each other (collectProject, CommitChunk, commitCheckpoint).
THEOREM CollectionHolds == Spec => []Collection
<1>1. Init => Collection
  BY InitKeeps
<1>2. Collection /\ [Next]_vars => Collection'
  BY NextKeeps
<1> QED BY <1>1, <1>2, PTL DEF Spec

\* Each Raw generation the Server keeps is an exact prefix of one source generation,
\* and a finalized one is all of its archived source: appendRawObjectSegments sends
\* records in order and CommitChunk appends only at the end of the open object.
THEOREM ArchiveIsFaithful == Spec => []ArchiveFaithful
<1>1. Collection => ArchiveFaithful
  BY DEF Collection, Archives, Prefix, ArchiveFaithful, Generations
<1> QED BY <1>1, CollectionHolds, PTL

\* Recorded Raw progress never runs ahead of the Server: collectProject commits it
\* only when every chunk of the segment was acknowledged.
THEOREM ProgressIsAcknowledged == Spec => []ProgressAcknowledged
<1>1. Collection => ProgressAcknowledged
  BY DEF Collection, Checkpoints, Progress, Recorded, Kept, ProgressAcknowledged
<1> QED BY <1>1, CollectionHolds, PTL

\* The cursor never passes an unpublished record: a page's cursor is committed after
\* its batch was accepted, and a page that fails is read again from the old cursor.
THEOREM CursorIsCovered == Spec => []CursorCovered
<1>1. Collection => CursorCovered
  BY DEF Collection, Checkpoints, Cursor, Completed, Work, Covers, CursorCovered
<1> QED BY <1>1, CollectionHolds, PTL
=============================================================================
