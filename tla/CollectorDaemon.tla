--------------------------- MODULE CollectorDaemon ---------------------------
(***************************************************************************)
(* The managed collector process of the CLI (collectorDaemonLayers.ts).    *)
(* Three small files are the whole authority: the saved intent (desired),  *)
(* the process record (record) and the maintenance gate (gate).  Commands  *)
(* and the maintenance owner change them in the process lock, one durable  *)
(* write at a time; either can die between two writes, and the collectors  *)
(* they spawn read the same files without any lock.                        *)
(***************************************************************************)
EXTENDS Naturals, FiniteSets

CONSTANTS Runtimes,    \* executables an entry can resolve to
          Tokens,      \* daemon tokens; a token is used again once forgotten
          Null,
          MaxOps,      \* bound: Start, Stop, Pause, upgrades and legacy stops
          MaxUpdates,  \* bound: updates begun (recoveries are not counted)
          MaxFaults    \* bound: failed steps, crashes and collector deaths

ProcStates == {"gone", "spawned", "admitted", "ready", "collecting"}
Phases == {"pausing", "activating", "starting", "failed"}
Ops == {"start", "resume", "refresh", "pause", "stop", "launch"}
Steps == {"plan", "establish", "kill", "spawn", "publish", "settle", "confirm", "strip", "clear"}
Posts == {"idle", "stop", "quiesced", "activate", "recover", "resume", "launch",
          "ready", "cancel", "release", "failed"}
DesiredRows == [wanted : BOOLEAN, established : BOOLEAN]
RecordRows == [token : Tokens, key : Runtimes, restartPending : BOOLEAN]
GateRows == [generation : Nat, resume : BOOLEAN, phase : Phases]
JobRows == [who : {"cli", "m"}, op : Ops, pc : Steps, key : Runtimes,
            child : Tokens \cup {Null}, restart : BOOLEAN]
Owners == [pc : Posts, gen : Nat, child : Tokens \cup {Null}, stopped : BOOLEAN,
           recovering : BOOLEAN]

ASSUME NullIsNoValue ==
    Null \notin Runtimes \cup Tokens \cup DesiredRows \cup RecordRows \cup GateRows \cup JobRows
ASSUME BoundsAssumption == {MaxOps, MaxUpdates, MaxFaults} \subseteq Nat

VARIABLES desired, record, gate, proc, selected, job, m,
          intent,   \* history: the last request of the user, "on" or "off"
          halted,   \* history: a Stop has returned and no Start has followed
          ops, updates, faults

vars == <<desired, record, gate, proc, selected, job, m, intent, halted,
          ops, updates, faults>>
files == <<desired, record, gate>>
history == <<intent, halted>>

\* The invariant of the files' shapes (the schemas of the three files).
TypeOK ==
    /\ desired \in DesiredRows \cup {Null} /\ record \in RecordRows \cup {Null}
    /\ gate \in GateRows \cup {Null}
    /\ proc \in [Tokens -> ProcStates]
    /\ selected \in Runtimes /\ job \in JobRows \cup {Null} /\ m \in Owners
    /\ intent \in {"on", "off"} /\ halted \in BOOLEAN
    /\ ops \in 0..MaxOps /\ updates \in 0..MaxUpdates /\ faults \in 0..MaxFaults

-----------------------------------------------------------------------------
Unwanted == [wanted |-> FALSE, established |-> FALSE]
Idle == [pc |-> "idle", gen |-> 0, child |-> Null, stopped |-> FALSE, recovering |-> FALSE]

Alive(t) == proc[t] # "gone"
Named(t) == IF record = Null THEN FALSE ELSE record.token = t
Running(t) == proc[t] \in {"admitted", "ready", "collecting"}

\* isOwnedProcess: the recorded process exists and carries the recorded token.
IsOwned == record # Null /\ Alive(record.token)
RestartPending == record # Null /\ record.restartPending
GateResume == gate # Null /\ gate.resume

\* desiredState: a saved intent is authoritative, except that an established one
\* whose record and gate.resume are both gone was stopped by an older CLI.
DesiredState ==
    IF desired # Null
    THEN IF desired.wanted /\ desired.established /\ record = Null /\ ~GateResume
         THEN Unwanted ELSE desired
    ELSE IF GateResume \/ IsOwned THEN [wanted |-> TRUE, established |-> TRUE] ELSE Unwanted

EstablishDesiredState(d) == IF d # Null /\ d.wanted THEN [d EXCEPT !.established = TRUE] ELSE d

Pending == [record EXCEPT !.restartPending = TRUE]

Init ==
    /\ desired = Null /\ record = Null /\ gate = Null
    /\ proc = [t \in Tokens |-> "gone"] /\ selected \in Runtimes
    /\ job = Null /\ m = Idle /\ intent = "off" /\ halted = FALSE
    /\ ops = 0 /\ updates = 0 /\ faults = 0

Free == job = Null
Holds(who) == IF Free THEN FALSE ELSE job.who = who
Spend(n) == ops + n <= MaxOps /\ ops' = ops + n
Work(who, op, pc) == [who |-> who, op |-> op, pc |-> pc, key |-> selected,
                      child |-> Null, restart |-> FALSE]

-----------------------------------------------------------------------------
(* Commands. Each takes the process lock with its first durable write. *)

\* processStart saves the intent before it looks at the process.
StartWhen(open) ==
    /\ Free /\ open /\ Spend(1)
    /\ desired' = [wanted |-> TRUE, established |-> IsOwned \/ RestartPending]
    /\ job' = Work("cli", "start", "plan")
    /\ intent' = "on" /\ halted' = FALSE
    /\ UNCHANGED <<record, gate, proc, selected, m, updates, faults>>

StartIgnoresMaintenance == StartWhen(TRUE)
Start == StartWhen(gate = Null)

\* processResume (login, after an upgrade): continues the saved intent only.
Resume ==
    /\ Free
    /\ desired' = DesiredState
    /\ job' = IF DesiredState.wanted /\ gate = Null
              THEN Work("cli", "resume", "plan") ELSE Null
    /\ UNCHANGED <<record, gate, proc, selected, m, history, ops, updates, faults>>

\* processRefresh replaces a collector of another executable; a dead one is only
\* marked for restart.
Refresh ==
    /\ Free /\ gate = Null
    /\ desired' = DesiredState
    /\ LET act == DesiredState.wanted /\ record # Null IN
       /\ record' = IF act /\ ~RestartPending /\ ~IsOwned THEN Pending ELSE record
       /\ job' = IF act /\ (RestartPending \/ (IsOwned /\ record.key # selected))
                 THEN Work("cli", "refresh", "plan") ELSE Null
    /\ UNCHANGED <<gate, proc, selected, m, history, ops, updates, faults>>

\* startProcess: keep the owned collector of this executable, or persist the
\* restart before anything is stopped, or launch the first collector.
PlanWith(owned) ==
    /\ ~Free /\ job.pc = "plan"
    /\ IF owned /\ ~RestartPending /\ record.key = selected
       THEN desired' = EstablishDesiredState(desired) /\ job' = Null /\ record' = record
       ELSE /\ desired' = desired
            /\ record' = IF record = Null THEN Null ELSE Pending
            /\ job' = [job EXCEPT !.pc = IF record = Null THEN "spawn" ELSE "establish",
                                  !.restart = record # Null, !.key = selected]
    /\ UNCHANGED <<gate, proc, selected, m, history, ops, updates, faults>>

PlanTrustsRecord == PlanWith(record # Null)
Plan == PlanWith(IsOwned)

\* restartProcess establishes the intent, then stops the old host and keeps its record.
Establish ==
    /\ ~Free /\ job.pc = "establish"
    /\ desired' = EstablishDesiredState(desired)
    /\ job' = [job EXCEPT !.pc = "kill"]
    /\ UNCHANGED <<record, gate, proc, selected, m, history, ops, updates, faults>>

\* processPause.
Pause ==
    /\ Free /\ Spend(1)
    /\ desired' = DesiredState
    /\ IF record = Null THEN record' = record /\ job' = Null
       ELSE record' = Pending /\ job' = Work("cli", "pause", "kill")
    /\ UNCHANGED <<gate, proc, selected, m, history, updates, faults>>

\* processStop: the intent first, then the gate, then the process.
Stop ==
    /\ Free /\ Spend(1)
    /\ desired' = Unwanted
    /\ job' = Work("cli", "stop", "strip")
    /\ intent' = "off"
    /\ UNCHANGED <<record, gate, proc, selected, m, halted, updates, faults>>

StripResume ==
    /\ ~Free /\ job.pc = "strip"
    /\ gate' = IF gate = Null THEN Null
               ELSE [gate EXCEPT !.resume = FALSE, !.generation = @ + 1]
    /\ job' = IF record = Null THEN Null ELSE [job EXCEPT !.pc = "kill"]
    /\ halted' = (record = Null)
    /\ UNCHANGED <<desired, record, proc, selected, m, intent, ops, updates, faults>>

\* processInspect repairs what it finds.
Inspect ==
    /\ Free
    /\ desired' = IF IsOwned THEN EstablishDesiredState(DesiredState) ELSE DesiredState
    /\ record' = IF record = Null \/ IsOwned \/ RestartPending THEN record
                 ELSE IF DesiredState.wanted THEN Pending ELSE Null
    /\ UNCHANGED <<gate, proc, selected, job, m, history, ops, updates, faults>>

\* A retained CLI that predates the intent file: it stops the process and removes
\* the record and gate.resume.
LegacyStop ==
    /\ Free /\ record # Null /\ Spend(1)
    /\ proc' = [proc EXCEPT ![record.token] = "gone"]
    /\ record' = Null
    /\ gate' = IF gate = Null THEN Null
               ELSE [gate EXCEPT !.resume = FALSE, !.generation = @ + 1]
    /\ intent' = "off"
    /\ halted' = (desired = Null \/ ~desired.wanted \/ desired.established)
    /\ UNCHANGED <<desired, selected, job, m, updates, faults>>

\* A package manager replaces the executable outside any maintenance.
ManualUpgrade ==
    /\ Free /\ gate = Null /\ m = Idle /\ Spend(1)
    /\ \E r \in Runtimes \ {selected} : selected' = r
    /\ UNCHANGED <<files, proc, job, m, history, updates, faults>>

-----------------------------------------------------------------------------
(* launchProcess and stopOwnedProcess, for commands and for the maintenance. *)

\* The end of the work in the lock: a maintenance owner goes on at pc.
Return(pc) == job' = Null /\ m' = IF job.who = "m" THEN [m EXCEPT !.pc = pc] ELSE m

\* stopOwnedProcess: the process has exited when it returns.
Kill ==
    /\ ~Free /\ job.pc = "kill"
    /\ proc' = IF record = Null THEN proc ELSE [proc EXCEPT ![record.token] = "gone"]
    /\ CASE job.op = "pause" -> job' = Null
         [] job.restart      -> job' = [job EXCEPT !.pc = "spawn"]
         [] OTHER            -> job' = [job EXCEPT !.pc = "clear"]
    /\ UNCHANGED <<files, selected, m, history, ops, updates, faults>>

Clear ==
    /\ ~Free /\ job.pc = "clear"
    /\ record' = Null
    /\ halted' = IF job.op = "stop" /\ job.who = "cli" THEN TRUE ELSE halted
    /\ Return(CASE m.pc = "stop" /\ m.recovering -> "recover"
                [] m.pc = "cancel" -> "release"
                [] OTHER -> "quiesced")
    /\ UNCHANGED <<desired, gate, proc, selected, intent, ops, updates, faults>>

Fresh(t) == ~Alive(t) /\ ~Named(t) /\ m.child # t

Spawn ==
    /\ ~Free /\ job.pc = "spawn"
    /\ \E t \in Tokens :
         /\ Fresh(t)
         /\ proc' = [proc EXCEPT ![t] = "spawned"]
         /\ job' = [job EXCEPT !.pc = "publish", !.child = t]
    /\ UNCHANGED <<files, selected, m, history, ops, updates, faults>>

Publish ==
    /\ ~Free /\ job.pc = "publish"
    /\ record' = [token |-> job.child, key |-> job.key, restartPending |-> FALSE]
    /\ job' = [job EXCEPT !.pc = "settle"]
    /\ UNCHANGED <<desired, gate, proc, selected, m, history, ops, updates, faults>>

Settle ==
    /\ ~Free /\ job.pc = "settle"
    /\ desired' = EstablishDesiredState(desired)
    /\ job' = [job EXCEPT !.pc = "confirm"]
    /\ UNCHANGED <<record, gate, proc, selected, m, history, ops, updates, faults>>

Confirm ==
    /\ ~Free /\ job.pc = "confirm" /\ Alive(job.child)
    /\ job' = Null
    /\ m' = IF job.who = "m" THEN [m EXCEPT !.pc = "ready", !.child = job.child] ELSE m
    /\ UNCHANGED <<files, proc, selected, history, ops, updates, faults>>

-----------------------------------------------------------------------------
(* Maintenance: one owner at a time holds the maintenance lock. *)

Generation == IF gate = Null THEN 0 ELSE gate.generation

\* The first step of a handoff, or of a recovery, reads the intent and closes the
\* gate; an earlier gate keeps its generation and its resume.
ClaimWhen(open) ==
    /\ Free /\ m = Idle /\ open
    /\ updates' = IF gate = Null THEN updates + 1 ELSE updates
    /\ updates' <= MaxUpdates
    /\ desired' = DesiredState
    /\ gate' = [generation |-> Generation, phase |-> "pausing",
                resume |-> DesiredState.wanted /\ (gate = Null \/ gate.resume)]
    /\ m' = [Idle EXCEPT !.pc = "stop", !.gen = Generation]
    /\ UNCHANGED <<record, proc, selected, job, history, ops, faults>>

\* Mutant: a gate that a crash left behind is never taken over.
ClaimOnlyOpen == ClaimWhen(gate = Null)
Claim == ClaimWhen(TRUE)

\* stopCurrent: before activation, before recovery, or for a user's Stop.
StopCurrentFrom(pc) ==
    /\ Free /\ m.pc \in {"stop", "cancel"}
    /\ job' = Work("m", "stop", pc)
    /\ UNCHANGED <<files, proc, selected, m, history, ops, updates, faults>>

StopCurrentWhenWanted == StopCurrentFrom(IF desired.wanted THEN "kill" ELSE "clear")
StopCurrent == StopCurrentFrom("kill")

EnterActivation ==
    /\ Free /\ m.pc = "quiesced"
    /\ gate' = [gate EXCEPT !.phase = "activating"]
    /\ m' = [m EXCEPT !.pc = "activate", !.stopped = TRUE]
    /\ UNCHANGED <<desired, record, proc, selected, job, history, ops, updates, faults>>

\* activate and recover are the updater's: they leave some runtime selected.
Activate ==
    /\ m.pc \in {"activate", "recover"}
    /\ \E r \in Runtimes : selected' = r
    /\ m' = [m EXCEPT !.pc = "resume"]
    /\ UNCHANGED <<files, proc, job, history, ops, updates, faults>>

\* A Stop since the claim has changed the generation, removed resume, or both.
AlwaysResume == gate # Null
MayResume == gate.generation = m.gen /\ gate.resume /\ DesiredState.wanted

\* resume: the entry is resolved here, after activation.
ResumeCollector ==
    /\ Free /\ m.pc = "resume"
    /\ IF MayResume
       THEN /\ gate' = [gate EXCEPT !.phase = "starting"]
            /\ job' = Work("m", "launch", "spawn")
            /\ m' = [m EXCEPT !.pc = "launch"]
       ELSE gate' = gate /\ job' = job /\ m' = [m EXCEPT !.pc = "release"]
    /\ desired' = DesiredState
    /\ UNCHANGED <<record, proc, selected, history, ops, updates, faults>>

\* The readiness loop reads without the process lock.
AwaitReady ==
    /\ m.pc = "ready"
    /\ \/ /\ gate.generation # m.gen \/ ~gate.resume \/ ~desired.wanted
          /\ m' = [m EXCEPT !.pc = "cancel"]
       \/ /\ gate.generation = m.gen /\ gate.resume /\ desired.wanted
          /\ proc[m.child] = "ready"
          /\ m' = [m EXCEPT !.pc = "release"]
    /\ UNCHANGED <<files, proc, selected, job, history, ops, updates, faults>>

Release ==
    /\ Free /\ m.pc = "release"
    /\ gate' = Null /\ m' = Idle
    /\ UNCHANGED <<desired, record, proc, selected, job, history, ops, updates, faults>>

\* The catch of performCollectorMaintenance: recover once, then leave the gate.
Failed(o) == IF o.stopped /\ ~o.recovering
             THEN [o EXCEPT !.pc = "stop", !.recovering = TRUE, !.child = Null]
             ELSE [o EXCEPT !.pc = "failed", !.child = Null]

MarkFailed ==
    /\ Free /\ m.pc = "failed"
    /\ gate' = [gate EXCEPT !.phase = "failed"] /\ m' = Idle
    /\ UNCHANGED <<desired, record, proc, selected, job, history, ops, updates, faults>>

-----------------------------------------------------------------------------
(* The collector processes. *)

\* admitCollectorProcess: only the process the record names goes on.
AdmitWhen(t, named) ==
    /\ proc[t] = "spawned" /\ named
    /\ proc' = [proc EXCEPT ![t] = "admitted"]
    /\ UNCHANGED <<files, selected, job, m, history, ops, updates, faults>>

AdmitAny(t) == AdmitWhen(t, TRUE)
Admit(t) == AdmitWhen(t, Named(t))

\* The two seconds of an unrecorded child run out: its parent died, or, as a fault
\* (CollectorDies), is slower than that.
Reject(t) ==
    /\ proc[t] = "spawned" /\ ~Named(t) /\ ~(IF Free THEN FALSE ELSE job.child = t)
    /\ proc' = [proc EXCEPT ![t] = "gone"]
    /\ UNCHANGED <<files, selected, job, m, history, ops, updates, faults>>

\* prepareCollectorReadiness reports first and waits for the gate afterwards; it
\* also waits for a pending update transaction, which only delays it.
Prepare(t) ==
    /\ \/ proc[t] = "admitted" /\ proc' = [proc EXCEPT ![t] = "ready"]
       \/ proc[t] = "ready" /\ gate = Null /\ proc' = [proc EXCEPT ![t] = "collecting"]
    /\ UNCHANGED <<files, selected, job, m, history, ops, updates, faults>>

-----------------------------------------------------------------------------
(* Failures. *)
Fault == faults < MaxFaults /\ faults' = faults + 1

\* A probe, a spawn, a write or a deadline fails inside the lock. A record that
\* cannot be written kills its child; a restart keeps its restart mark.
WorkFails ==
    /\ ~Free /\ job.pc \in {"plan", "kill", "spawn", "publish", "confirm"} /\ Fault
    /\ proc' = IF job.pc = "publish" THEN [proc EXCEPT ![job.child] = "gone"] ELSE proc
    /\ record' = IF job.restart /\ record # Null THEN Pending ELSE record
    /\ job' = Null
    /\ m' = IF job.who = "m" THEN Failed(m) ELSE m
    /\ UNCHANGED <<desired, gate, selected, history, ops, updates>>

\* The collector exited during startup or preparation: found without a fault.
ChildLost ==
    /\ \/ /\ ~Free /\ job.pc = "confirm" /\ ~Alive(job.child)
          /\ record' = IF job.restart /\ record # Null THEN Pending ELSE record
          /\ job' = Null
          /\ m' = IF job.who = "m" THEN Failed(m) ELSE m
       \/ /\ m.pc = "ready" /\ ~Alive(m.child)
          /\ m' = Failed(m) /\ UNCHANGED <<record, job>>
    /\ UNCHANGED <<desired, gate, proc, selected, history, ops, updates, faults>>

\* A maintenance deadline, an activation or a recovery fails outside the lock.
MaintenanceFails ==
    /\ m.pc \notin {"idle", "launch", "failed"} /\ ~Holds("m") /\ Fault
    /\ m' = Failed(m)
    /\ UNCHANGED <<files, proc, selected, job, history, ops, updates>>

\* A command, or the maintenance owner, dies; the system drops its locks.
Crash ==
    /\ Fault
    /\ \/ ~Free /\ job' = Null /\ m' = IF job.who = "m" THEN Idle ELSE m
       \/ m # Idle /\ m' = Idle
          /\ job' = IF Holds("m") THEN Null ELSE job
    /\ UNCHANGED <<files, proc, selected, history, ops, updates>>

CollectorDies(t) ==
    /\ Alive(t) /\ Fault
    /\ proc' = [proc EXCEPT ![t] = "gone"]
    /\ UNCHANGED <<files, selected, job, m, history, ops, updates>>

-----------------------------------------------------------------------------
Command == Start \/ Resume \/ Refresh \/ Pause \/ Stop \/ Inspect \/ LegacyStop \/ ManualUpgrade
InLock == Plan \/ Establish \/ StripResume \/ Kill \/ Clear \/ Spawn \/ Publish \/ Settle \/ Confirm
Maintenance == Claim \/ StopCurrent \/ EnterActivation \/ Activate \/ ResumeCollector
               \/ AwaitReady \/ Release \/ MarkFailed
Child(t) == Admit(t) \/ Reject(t) \/ Prepare(t)

Next == \/ Command \/ InLock \/ Maintenance \/ ChildLost
        \/ WorkFails \/ MaintenanceFails \/ Crash
        \/ \E t \in Tokens : Child(t) \/ CollectorDies(t)

Spec == Init /\ [][Next]_vars

-----------------------------------------------------------------------------
(* Safety. *)

\* Every admitted collector is the one the record names, so there is never a second
\* and Stop always finds it (admitCollectorProcess, launchProcess, restartProcess).
RunningIsRecorded ==
    \A t \in Tokens : Running(t) => Named(t)

\* While the updater activates or recovers, no collector runs that could write the
\* state being migrated (performCollectorMaintenance, rejectMaintenance).
ActivationQuiesced == m.pc \in {"activate", "recover"} => \A t \in Tokens : ~Running(t)

\* Once a Stop has returned, no collector runs until the user starts one, whatever
\* login, maintenance or recovery does meanwhile (processStop, resume, release).
StopWins == halted => \A t \in Tokens : ~Running(t)

\* A gate is opened only over no collector or over one of the selected runtime.
HandoverExact ==
    [][gate # Null /\ gate' = Null /\ record # Null => record.key = selected]_vars

-----------------------------------------------------------------------------
(* Liveness. Work in the lock, collectors and the maintenance owner make     *)
(* progress; a login or a command resumes; the hourly wake recovers a gate.  *)
Recovery == gate # Null /\ Claim

Fairness ==
    /\ WF_vars(InLock \/ ChildLost)
    /\ WF_vars(Resume)
    /\ WF_vars(Recovery)
    /\ WF_vars(StopCurrent \/ EnterActivation \/ Activate \/ ResumeCollector
               \/ AwaitReady \/ Release \/ MarkFailed)
    /\ \A t \in Tokens : WF_vars(Child(t))

FairSpec == Spec /\ Fairness

\* A closed gate is always opened again, by its owner or by a recovery.
MaintenanceEnds == gate # Null ~> gate = Null

\* As long as the user wants sync, a collector ends up collecting again.
SyncReturns == intent = "on" ~> (intent = "off" \/ \E t \in Tokens : proc[t] = "collecting")
=============================================================================
