----------------------- MODULE CollectorDaemonProofs -----------------------
(***************************************************************************)
(* Proofs about the managed collector process, for any runtimes, tokens,   *)
(* commands, updates and faults.                                           *)
(***************************************************************************)
EXTENDS CollectorDaemon, TLAPS

\* The names of states and steps.
LEMMA States ==
  /\ {"gone", "spawned", "admitted", "ready", "collecting"} \subseteq ProcStates
  /\ {"pausing", "activating", "starting", "failed"} \subseteq Phases
  /\ {"start", "resume", "refresh", "pause", "stop", "launch"} \subseteq Ops
  /\ {"plan", "establish", "kill", "spawn", "publish", "settle", "confirm", "strip",
      "clear"} \subseteq Steps
  /\ {"idle", "stop", "quiesced", "activate", "recover", "resume", "launch", "ready",
      "cancel", "release", "failed"} \subseteq Posts
BY DEF ProcStates, Phases, Ops, Steps, Posts

\* Null is no row.
LEMMA NullLemma ==
  Null \notin DesiredRows /\ Null \notin RecordRows /\ Null \notin GateRows
  /\ Null \notin JobRows /\ Null \notin Tokens
BY NullIsNoValue

-----------------------------------------------------------------------------
(* Types                                                                   *)

LEMMA DesiredStateType == TypeOK => DesiredState \in DesiredRows
BY DEF TypeOK, DesiredState, DesiredRows, Unwanted

LEMMA EstablishType ==
  ASSUME NEW d \in DesiredRows \cup {Null}
  PROVE  /\ EstablishDesiredState(d) \in DesiredRows \cup {Null}
         /\ d \in DesiredRows => EstablishDesiredState(d) \in DesiredRows
         /\ EstablishDesiredState(d) = Null <=> d = Null
         /\ d # Null => EstablishDesiredState(d).wanted = d.wanted
BY NullLemma DEF EstablishDesiredState, DesiredRows

LEMMA PendingType ==
  ASSUME TypeOK, record # Null
  PROVE  /\ Pending \in RecordRows /\ Pending # Null
         /\ Pending.token = record.token /\ Pending.key = record.key
BY NullLemma DEF TypeOK, Pending, RecordRows

LEMMA WorkType ==
  ASSUME TypeOK, NEW who \in {"cli", "m"}, NEW op \in Ops, NEW pc \in Steps
  PROVE  /\ Work(who, op, pc) \in JobRows /\ Work(who, op, pc) # Null
         /\ Work(who, op, pc).who = who /\ Work(who, op, pc).op = op
         /\ Work(who, op, pc).pc = pc /\ Work(who, op, pc).key = selected
         /\ Work(who, op, pc).restart = FALSE /\ Work(who, op, pc).child = Null
<1>1. Work(who, op, pc) \in JobRows
  BY DEF TypeOK, Work, JobRows
<1> QED BY <1>1, NullLemma DEF Work

LEMMA OwnerTypes ==
  /\ Idle \in Owners /\ Idle.pc = "idle" /\ Idle.child = Null
  /\ \A o \in Owners : \A pc \in Posts :
        [o EXCEPT !.pc = pc] \in Owners /\ [o EXCEPT !.pc = pc].pc = pc
        /\ [o EXCEPT !.pc = pc].gen = o.gen
<1>1. Idle \in Owners /\ Idle.pc = "idle" /\ Idle.child = Null
  BY States DEF Idle, Owners
<1>2. ASSUME NEW o \in Owners, NEW pc \in Posts
      PROVE  [o EXCEPT !.pc = pc] \in Owners /\ [o EXCEPT !.pc = pc].pc = pc
             /\ [o EXCEPT !.pc = pc].gen = o.gen
  BY DEF Owners
<1> QED BY <1>1, <1>2

LEMMA FailedType ==
  ASSUME NEW o \in Owners
  PROVE  Failed(o) \in Owners /\ Failed(o).pc \in {"stop", "failed"}
<1>1. CASE o.stopped /\ ~o.recovering
  BY <1>1, States DEF Failed, Owners
<1>2. CASE ~(o.stopped /\ ~o.recovering)
  BY <1>2, States DEF Failed, Owners
<1> QED BY <1>1, <1>2

\* A job goes on to another step.
LEMMA JobType ==
  ASSUME NEW j \in JobRows, NEW pc \in Steps
  PROVE  /\ [j EXCEPT !.pc = pc] \in JobRows /\ [j EXCEPT !.pc = pc] # Null
         /\ [j EXCEPT !.pc = pc].pc = pc /\ [j EXCEPT !.pc = pc].who = j.who
         /\ [j EXCEPT !.pc = pc].op = j.op /\ [j EXCEPT !.pc = pc].restart = j.restart
         /\ [j EXCEPT !.pc = pc].key = j.key /\ [j EXCEPT !.pc = pc].child = j.child
<1>1. [j EXCEPT !.pc = pc] \in JobRows
  BY DEF JobRows
<1> QED BY <1>1, NullLemma DEF JobRows

LEMMA GateType ==
  ASSUME NEW g \in GateRows, NEW ph \in Phases
  PROVE  /\ [g EXCEPT !.phase = ph] \in GateRows /\ [g EXCEPT !.phase = ph] # Null
         /\ [g EXCEPT !.phase = ph].resume = g.resume
<1>1. [g EXCEPT !.phase = ph] \in GateRows
  BY DEF GateRows
<1> QED BY <1>1, NullLemma DEF GateRows

\* What a Stop leaves of the gate.
StrippedGate == IF gate = Null THEN Null ELSE [gate EXCEPT !.resume = FALSE, !.generation = @ + 1]

LEMMA StrippedType ==
  ASSUME TypeOK
  PROVE  /\ StrippedGate \in GateRows \cup {Null} /\ (StrippedGate = Null <=> gate = Null)
         /\ StrippedGate # Null => ~StrippedGate.resume
<1>1. CASE gate = Null
  BY <1>1 DEF StrippedGate
<1>2. CASE gate # Null
  <2>1. gate \in GateRows
    BY <1>2 DEF TypeOK
  <2> DEFINE g == [gate EXCEPT !.resume = FALSE]
  <2>2. g \in GateRows /\ ~g.resume
    BY <2>1 DEF GateRows
  <2>3. StrippedGate = [g EXCEPT !.generation = g.generation + 1]
    BY <1>2, <2>1 DEF StrippedGate, GateRows
  <2> HIDE DEF g
  <2>4. StrippedGate \in GateRows /\ ~StrippedGate.resume
    BY <2>2, <2>3 DEF GateRows
  <2> QED BY <1>2, <2>4, NullLemma
<1> QED BY <1>1, <1>2

LEMMA CounterTypes ==
  ASSUME TypeOK
  PROVE  /\ Spend(1) => ops' \in 0..MaxOps
         /\ Fault => faults' \in 0..MaxFaults
BY BoundsAssumption DEF TypeOK, Spend, Fault

-----------------------------------------------------------------------------
(* Who works in the lock                                                   *)

Starts == {"start", "resume", "refresh"}

\* Starting a collector happens only with the gate open; the work of the
\* maintenance owner is the one its own step waits for.
StartJob ==
    /\ job.who = "cli" /\ job.op \in Starts /\ job.pc \notin {"strip", "clear"}
    /\ gate = Null /\ (job.pc \in {"establish", "kill"} => job.restart)
PauseJob == job.who = "cli" /\ job.op = "pause" /\ job.pc = "kill" /\ ~job.restart
StopJob == job.who = "cli" /\ job.op = "stop" /\ job.pc \in {"strip", "kill", "clear"} /\ ~job.restart
HaltJob ==
    /\ job.who = "m" /\ job.op = "stop" /\ job.pc \in {"kill", "clear"} /\ ~job.restart
    /\ m.pc \in {"stop", "cancel"}
LaunchJob ==
    /\ job.who = "m" /\ job.op = "launch" /\ job.pc \in {"spawn", "publish", "settle", "confirm"}
    /\ ~job.restart /\ m.pc = "launch" /\ job.key = selected

JobKinds ==
    ~Free => /\ StartJob \/ PauseJob \/ StopJob \/ HaltJob \/ LaunchJob
             /\ job.pc \in {"publish", "settle", "confirm"} => job.child \in Tokens

\* Whoever maintains has closed the gate.
Gated == m.pc # "idle" => gate # Null

Order == TypeOK /\ JobKinds /\ Gated

LEMMA CommandOrder == Order /\ Command => Order'
<1> SUFFICES ASSUME TypeOK, JobKinds, Gated, Command PROVE Order'
  BY DEF Order
<1> USE DEF history, files
<1>w. \A op \in Ops : \A pc \in Steps : Work("cli", op, pc) \in JobRows
  BY WorkType
<1>j. ASSUME NEW op \in Starts, job' = Work("cli", op, "plan"), gate' = gate, gate = Null
      PROVE  JobKinds'
  <2>1. /\ job'.who = "cli" /\ job'.op = op /\ job'.pc = "plan" /\ job' # Null
    BY <1>j, <1>w, States, NullLemma DEF Starts, Work
  <2> QED BY <1>j, <2>1 DEF JobKinds, StartJob, Starts
<1>1. CASE Start
  <2>1. desired' \in DesiredRows
    BY <1>1 DEF Start, StartWhen, DesiredRows, IsOwned, RestartPending, TypeOK, RecordRows
  <2>2. ops' \in 0..MaxOps /\ job' \in JobRows
    BY <1>1, <1>w, States, CounterTypes DEF Start, StartWhen
  <2>3. TypeOK'
    BY <1>1, <2>1, <2>2 DEF Start, StartWhen, TypeOK
  <2>4. JobKinds' /\ Gated'
    BY <1>1, <1>j DEF Start, StartWhen, Starts, Gated
  <2> QED BY <2>3, <2>4 DEF Order
<1>2. CASE Resume
  <2>1. TypeOK'
    BY <1>2, <1>w, States, DesiredStateType DEF Resume, TypeOK
  <2>2. JobKinds' /\ Gated'
    BY <1>2, <1>j DEF Resume, Starts, Gated, JobKinds, Free
  <2> QED BY <2>1, <2>2 DEF Order
<1>3. CASE Refresh
  <2>1. record' \in RecordRows \cup {Null}
    <3>1. CASE record = Null
      BY <1>3, <3>1 DEF Refresh
    <3>2. CASE record # Null
      BY <1>3, <3>2, PendingType DEF Refresh, TypeOK
    <3> QED BY <3>1, <3>2
  <2>2. job' = Work("cli", "refresh", "plan") \/ job' = Null
    BY <1>3 DEF Refresh
  <2>3. TypeOK'
    BY <1>3, <1>w, <2>1, <2>2, States, DesiredStateType DEF Refresh, TypeOK
  <2>4. JobKinds' /\ Gated'
    BY <1>3, <1>j, <2>2 DEF Refresh, Starts, Gated, JobKinds, Free
  <2> QED BY <2>3, <2>4 DEF Order
<1>4. CASE Pause
  <2>1. record' \in RecordRows \cup {Null} /\ ops' \in 0..MaxOps
    BY <1>4, PendingType, CounterTypes DEF Pause, TypeOK
  <2>2. job' = Work("cli", "pause", "kill") \/ job' = Null
    BY <1>4 DEF Pause
  <2>3. TypeOK'
    BY <1>4, <1>w, <2>1, <2>2, States, DesiredStateType DEF Pause, TypeOK
  <2>4. CASE job' = Work("cli", "pause", "kill")
    <3>1. job'.who = "cli" /\ job'.op = "pause" /\ job'.pc = "kill" /\ job'.restart = FALSE
      BY <2>4 DEF Work
    <3> QED BY <1>4, <3>1, <2>3 DEF Pause, PauseJob, Gated, JobKinds, Order
  <2>5. CASE job' = Null
    BY <1>4, <2>5, <2>3 DEF Pause, Gated, JobKinds, Free, Order
  <2> QED BY <2>2, <2>4, <2>5
<1>5. CASE Stop
  <2>1. Unwanted \in DesiredRows /\ ops' \in 0..MaxOps
    BY <1>5, CounterTypes DEF Stop, Unwanted, DesiredRows
  <2>2. TypeOK'
    BY <1>5, <1>w, <2>1, States DEF Stop, TypeOK
  <2>3. job'.who = "cli" /\ job'.op = "stop" /\ job'.pc = "strip" /\ job'.restart = FALSE
    BY <1>5 DEF Stop, Work
  <2>4. JobKinds' /\ Gated'
    BY <1>5, <2>3 DEF Stop, StopJob, Gated, JobKinds
  <2> QED BY <2>2, <2>4 DEF Order
<1>6. CASE Inspect
  <2>1. record' \in RecordRows \cup {Null}
    BY <1>6, PendingType DEF Inspect, TypeOK
  <2>2. desired' \in DesiredRows
    BY <1>6, DesiredStateType, EstablishType DEF Inspect
  <2>3. TypeOK'
    BY <1>6, <2>1, <2>2 DEF Inspect, TypeOK
  <2>4. JobKinds' /\ Gated'
    BY <1>6 DEF Inspect, Gated, JobKinds, Free
  <2> QED BY <2>3, <2>4 DEF Order
<1>7. CASE LegacyStop
  <2>1. gate' = StrippedGate
    BY <1>7 DEF LegacyStop, StrippedGate
  <2>2. proc' \in [Tokens -> ProcStates] /\ ops' \in 0..MaxOps
    BY <1>7, States, CounterTypes DEF LegacyStop, TypeOK
  <2>3. halted' \in BOOLEAN
    BY <1>7 DEF LegacyStop, TypeOK, DesiredRows
  <2>4. TypeOK'
    BY <1>7, <2>1, <2>2, <2>3, StrippedType DEF LegacyStop, TypeOK
  <2>5. JobKinds' /\ Gated'
    BY <1>7, <2>1, StrippedType DEF LegacyStop, Gated, JobKinds, Free
  <2> QED BY <2>4, <2>5 DEF Order
<1>8. CASE ManualUpgrade
  <2>1. TypeOK'
    BY <1>8, CounterTypes DEF ManualUpgrade, TypeOK
  <2>2. JobKinds' /\ Gated'
    BY <1>8 DEF ManualUpgrade, Gated, JobKinds, Free
  <2> QED BY <2>1, <2>2 DEF Order
<1> QED BY <1>1, <1>2, <1>3, <1>4, <1>5, <1>6, <1>7, <1>8 DEF Command

LEMMA InLockOrder == Order /\ InLock => Order'
<1> SUFFICES ASSUME TypeOK, JobKinds, Gated, InLock PROVE Order'
  BY DEF Order
<1> USE DEF history, files
<1>n. job # Null /\ job \in JobRows
  <2>1. job # Null
    BY Zenon DEF InLock, Plan, PlanWith, Establish, StripResume, Kill, Clear, Spawn, Publish, Settle,
             Confirm, Free
  <2> QED BY <2>1 DEF TypeOK
<1>k. /\ StartJob \/ PauseJob \/ StopJob \/ HaltJob \/ LaunchJob
      /\ job.pc \in {"publish", "settle", "confirm"} => job.child \in Tokens
  BY <1>n DEF JobKinds, Free
<1>f. ASSUME job' = Null PROVE JobKinds'
  BY <1>f DEF JobKinds, Free
<1>1. CASE Plan
  <2>0. StartJob
    BY <1>1, <1>k DEF Plan, PlanWith, PauseJob, StopJob, HaltJob, LaunchJob
  <2>1. CASE job' = Null
    <3>1. TypeOK'
      BY <1>1, <2>1, EstablishType, PendingType DEF Plan, PlanWith, TypeOK
    <3> QED BY <1>1, <1>f, <2>1, <3>1 DEF Plan, PlanWith, Gated, Order
  <2>2. CASE job' # Null
    <3> DEFINE s == IF record = Null THEN "spawn" ELSE "establish"
    <3>1. /\ desired' = desired /\ record' = IF record = Null THEN Null ELSE Pending
          /\ job' = [job EXCEPT !.pc = s, !.restart = record # Null, !.key = selected]
      BY <1>1, <2>2 DEF Plan, PlanWith
    <3>2. s \in Steps /\ s \in {"spawn", "establish"}
      BY States
    <3> HIDE DEF s
    <3>3. /\ job' \in JobRows /\ job'.who = job.who /\ job'.op = job.op /\ job'.pc = s
          /\ s = "establish" => job'.restart
      <4> DEFINE j == [job EXCEPT !.pc = s]
                 k == [j EXCEPT !.restart = record # Null]
      <4>1. j \in JobRows /\ j.who = job.who /\ j.op = job.op /\ j.pc = s
        BY <1>n, <3>2 DEF JobRows
      <4>2. job' = [k EXCEPT !.key = selected]
        BY <3>1, <1>n DEF JobRows
      <4>r. s = "establish" => record # Null
        BY DEF s
      <4> HIDE DEF j
      <4>3. /\ k \in JobRows /\ k.who = job.who /\ k.op = job.op /\ k.pc = s
            /\ s = "establish" => k.restart
        BY <4>1, <4>r DEF JobRows
      <4> HIDE DEF k
      <4> QED BY <4>2, <4>3 DEF JobRows, TypeOK
    <3>4. record' \in RecordRows \cup {Null}
      BY <3>1, PendingType
    <3>5. TypeOK'
      BY <1>1, <3>1, <3>3, <3>4 DEF Plan, PlanWith, TypeOK
    <3>6. JobKinds'
      BY <1>1, <2>0, <3>2, <3>3 DEF Plan, PlanWith, JobKinds, StartJob
    <3> QED BY <1>1, <3>5, <3>6 DEF Plan, PlanWith, Gated, Order
  <2> QED BY <2>1, <2>2
<1>2. CASE Establish
  <2>0. StartJob
    BY <1>2, <1>k DEF Establish, PauseJob, StopJob, HaltJob, LaunchJob
  <2>1. TypeOK'
    BY <1>2, <1>n, JobType, States, EstablishType DEF Establish, TypeOK
  <2>2. JobKinds'
    BY <1>2, <1>n, <2>0, JobType, States DEF Establish, JobKinds, StartJob
  <2> QED BY <1>2, <2>1, <2>2 DEF Establish, Gated, Order
<1>3. CASE StripResume
  <2>0. StopJob
    BY <1>3, <1>k DEF StripResume, StartJob, PauseJob, HaltJob, LaunchJob
  <2>1. gate' = StrippedGate
    BY <1>3 DEF StripResume, StrippedGate
  <2>2. TypeOK'
    BY <1>3, <1>n, <2>1, StrippedType, JobType, States DEF StripResume, TypeOK
  <2>3. JobKinds'
    BY <1>3, <1>n, <1>f, <2>0, JobType, States DEF StripResume, JobKinds, StopJob
  <2> QED BY <1>3, <2>1, <2>2, <2>3, StrippedType DEF StripResume, Gated, Order
<1>4. CASE Kill
  <2>1. proc' \in [Tokens -> ProcStates]
    BY <1>4, States DEF Kill, TypeOK
  <2>2. CASE job.op = "pause"
    <3>0. ~job.restart
      BY <1>k, <2>2 DEF StartJob, PauseJob, StopJob, HaltJob, LaunchJob, Starts
    <3>1. job' = Null
      BY <1>4, <2>2, <3>0 DEF Kill
    <3>2. TypeOK'
      BY <1>4, <2>1, <3>1 DEF Kill, TypeOK
    <3> QED BY <1>4, <1>f, <3>1, <3>2 DEF Kill, Gated, Order
  <2>3. CASE job.op # "pause" /\ job.restart
    <3>1. job' = [job EXCEPT !.pc = "spawn"] /\ StartJob
      BY <1>4, <1>k, <2>3 DEF Kill, PauseJob, StopJob, HaltJob, LaunchJob
    <3>2. TypeOK'
      BY <1>4, <1>n, <2>1, <3>1, JobType, States DEF Kill, TypeOK
    <3>3. JobKinds'
      BY <1>4, <1>n, <3>1, JobType, States DEF Kill, JobKinds, StartJob
    <3> QED BY <1>4, <3>2, <3>3 DEF Kill, Gated, Order
  <2>4. CASE job.op # "pause" /\ ~job.restart
    <3>1. job' = [job EXCEPT !.pc = "clear"] /\ (StopJob \/ HaltJob)
      BY <1>4, <1>k, <2>4 DEF Kill, PauseJob, StartJob, LaunchJob
    <3>2. TypeOK'
      BY <1>4, <1>n, <2>1, <3>1, JobType, States DEF Kill, TypeOK
    <3>3. JobKinds'
      BY <1>4, <1>n, <3>1, JobType, States DEF Kill, JobKinds, StopJob, HaltJob
    <3> QED BY <1>4, <3>2, <3>3 DEF Kill, Gated, Order
  <2> QED BY <2>2, <2>3, <2>4
<1>5. CASE Clear
  <2>0. StopJob \/ HaltJob
    BY <1>5, <1>k DEF Clear, PauseJob, StartJob, LaunchJob
  <2> DEFINE next == CASE m.pc = "stop" /\ m.recovering -> "recover"
                       [] m.pc = "cancel" -> "release"
                       [] OTHER -> "quiesced"
  <2>1. next \in Posts
    BY States
  <2>2. job' = Null /\ m' = IF job.who = "m" THEN [m EXCEPT !.pc = next] ELSE m
    BY <1>5 DEF Clear, Return
  <2> HIDE DEF next
  <2>3. m' \in Owners
    BY <2>1, <2>2, OwnerTypes DEF TypeOK
  <2>4. TypeOK'
    BY <1>5, <2>2, <2>3 DEF Clear, TypeOK
  <2>5. Gated'
    BY <1>5, <2>0, <2>2 DEF Clear, Gated, StopJob, HaltJob
  <2> QED BY <1>f, <2>2, <2>4, <2>5 DEF Order
<1>6. CASE Spawn
  <2>0. StartJob \/ LaunchJob
    BY <1>6, <1>k DEF Spawn, PauseJob, StopJob, HaltJob
  <2>1. PICK t \in Tokens : /\ proc' = [proc EXCEPT ![t] = "spawned"]
                            /\ job' = [job EXCEPT !.pc = "publish", !.child = t]
    BY <1>6, Zenon DEF Spawn
  <2>2. /\ job' \in JobRows /\ job'.who = job.who /\ job'.op = job.op /\ job'.pc = "publish"
        /\ job'.restart = job.restart /\ job'.key = job.key /\ job'.child = t
    <3> DEFINE j == [job EXCEPT !.pc = "publish"]
    <3>1. /\ j \in JobRows /\ j.who = job.who /\ j.op = job.op /\ j.pc = "publish"
          /\ j.restart = job.restart /\ j.key = job.key
      BY <1>n, JobType, States
    <3>2. job' = [j EXCEPT !.child = t]
      BY <1>n, <2>1 DEF JobRows
    <3> HIDE DEF j
    <3> QED BY <3>1, <3>2 DEF JobRows
  <2>3. TypeOK'
    BY <1>6, <2>1, <2>2, States DEF Spawn, TypeOK
  <2>4. JobKinds'
    BY <1>6, <2>0, <2>2 DEF Spawn, JobKinds, StartJob, LaunchJob
  <2> QED BY <1>6, <2>3, <2>4 DEF Spawn, Gated, Order
<1>7. CASE Publish
  <2>0. (StartJob \/ LaunchJob) /\ job.child \in Tokens
    BY <1>7, <1>k DEF Publish, PauseJob, StopJob, HaltJob
  <2>1. record' \in RecordRows
    BY <1>7, <1>n, <2>0 DEF Publish, RecordRows, JobRows
  <2>2. TypeOK'
    BY <1>7, <1>n, <2>1, JobType, States DEF Publish, TypeOK
  <2>3. JobKinds'
    BY <1>7, <1>n, <2>0, JobType, States DEF Publish, JobKinds, StartJob, LaunchJob
  <2> QED BY <1>7, <2>2, <2>3 DEF Publish, Gated, Order
<1>8. CASE Settle
  <2>0. (StartJob \/ LaunchJob) /\ job.child \in Tokens
    BY <1>8, <1>k DEF Settle, PauseJob, StopJob, HaltJob
  <2>1. TypeOK'
    BY <1>8, <1>n, JobType, States, EstablishType DEF Settle, TypeOK
  <2>2. JobKinds'
    BY <1>8, <1>n, <2>0, JobType, States DEF Settle, JobKinds, StartJob, LaunchJob
  <2> QED BY <1>8, <2>1, <2>2 DEF Settle, Gated, Order
<1>9. CASE Confirm
  <2>0. job.child \in Tokens /\ (job.who = "m" => m.pc = "launch")
    BY <1>9, <1>k DEF Confirm, StartJob, PauseJob, StopJob, HaltJob, LaunchJob
  <2>1. m' \in Owners
    <3>1. CASE job.who = "m"
      <4> DEFINE o == [m EXCEPT !.pc = "ready"]
      <4>1. o \in Owners
        BY OwnerTypes, States DEF TypeOK
      <4>2. m' = [o EXCEPT !.child = job.child]
        BY <1>9, <3>1 DEF Confirm, TypeOK, Owners
      <4> HIDE DEF o
      <4> QED BY <2>0, <4>1, <4>2 DEF Owners
    <3>2. CASE job.who # "m"
      BY <1>9, <3>2 DEF Confirm, TypeOK
    <3> QED BY <3>1, <3>2
  <2>2. TypeOK'
    BY <1>9, <2>1 DEF Confirm, TypeOK
  <2>3. Gated'
    BY <1>9, <2>0 DEF Confirm, Gated
  <2> QED BY <1>9, <1>f, <2>2, <2>3 DEF Confirm, Order
<1> QED BY <1>1, <1>2, <1>3, <1>4, <1>5, <1>6, <1>7, <1>8, <1>9 DEF InLock

LEMMA MaintenanceOrder == Order /\ Maintenance => Order'
<1> SUFFICES ASSUME TypeOK, JobKinds, Gated, Maintenance PROVE Order'
  BY DEF Order
<1> USE DEF history, files
<1>1. CASE Claim
  <2>1. updates' \in 0..MaxUpdates
    BY <1>1, BoundsAssumption DEF Claim, ClaimWhen, TypeOK
  <2>2. gate' \in GateRows
    <3>1. Generation \in Nat
      BY DEF Generation, TypeOK, GateRows
    <3>2. (DesiredState.wanted /\ (gate = Null \/ gate.resume)) \in BOOLEAN
      BY DesiredStateType DEF DesiredRows, TypeOK, GateRows
    <3> QED BY <1>1, <3>1, <3>2, States DEF Claim, ClaimWhen, GateRows
  <2>3. m' \in Owners
    <3>1. Generation \in Nat
      BY DEF Generation, TypeOK, GateRows
    <3> QED BY <1>1, <3>1, States DEF Claim, ClaimWhen, Idle, Owners
  <2>4. TypeOK'
    BY <1>1, <2>1, <2>2, <2>3, DesiredStateType DEF Claim, ClaimWhen, TypeOK
  <2> QED BY <1>1, <2>2, <2>4, NullLemma DEF Claim, ClaimWhen, JobKinds, Gated, Free, Order
<1>2. CASE StopCurrent
  <2>0. job' = Work("m", "stop", "kill")
    BY <1>2 DEF StopCurrent, StopCurrentFrom
  <2>1. job' \in JobRows
    BY <2>0, WorkType, States
  <2>2. job'.who = "m" /\ job'.op = "stop" /\ job'.pc = "kill" /\ job'.restart = FALSE
    BY <2>0 DEF Work
  <2>3. TypeOK'
    BY <1>2, <2>1 DEF StopCurrent, StopCurrentFrom, TypeOK
  <2>4. JobKinds'
    BY <1>2, <2>2 DEF StopCurrent, StopCurrentFrom, JobKinds, HaltJob
  <2> QED BY <1>2, <2>3, <2>4 DEF StopCurrent, StopCurrentFrom, Gated, Order
<1>3. CASE EnterActivation
  <2>1. gate \in GateRows
    BY <1>3 DEF EnterActivation, Gated, TypeOK
  <2>2. m' \in Owners
    BY <1>3, States DEF EnterActivation, TypeOK, Owners
  <2>3. TypeOK'
    BY <1>3, <2>1, <2>2, GateType, States DEF EnterActivation, TypeOK
  <2> QED BY <1>3, <2>1, <2>3, GateType, States DEF EnterActivation, JobKinds, Gated, Free, Order
<1>4. CASE Activate
  <2>1. TypeOK'
    BY <1>4, OwnerTypes, States DEF Activate, TypeOK
  <2>2. ~Free => StartJob \/ PauseJob \/ StopJob
    BY <1>4 DEF Activate, JobKinds, HaltJob, LaunchJob
  <2>3. JobKinds'
    BY <1>4, <2>2 DEF Activate, JobKinds, StartJob, PauseJob, StopJob, Free
  <2> QED BY <1>4, <2>1, <2>3 DEF Activate, Gated, Order
<1>5. CASE ResumeCollector
  <2>1. CASE MayResume
    <3>1. gate \in GateRows
      BY <1>5 DEF ResumeCollector, Gated, TypeOK
    <3>2. gate' = [gate EXCEPT !.phase = "starting"]
      BY <1>5, <2>1 DEF ResumeCollector
    <3>3. gate' \in GateRows /\ gate' # Null
      BY <3>1, <3>2, GateType, States
    <3>4. job' = Work("m", "launch", "spawn") /\ m' = [m EXCEPT !.pc = "launch"]
      BY <1>5, <2>1 DEF ResumeCollector
    <3>5. job' \in JobRows
      BY <3>4, WorkType, States
    <3>6. m' \in Owners /\ m'.pc = "launch"
      BY <3>4, OwnerTypes, States DEF TypeOK
    <3>7. TypeOK'
      BY <1>5, <3>3, <3>5, <3>6, DesiredStateType DEF ResumeCollector, TypeOK
    <3>8. /\ job'.who = "m" /\ job'.op = "launch" /\ job'.pc = "spawn" /\ job'.restart = FALSE
          /\ job'.key = selected
      BY <3>4 DEF Work
    <3>9. JobKinds'
      BY <1>5, <3>6, <3>8 DEF ResumeCollector, JobKinds, LaunchJob
    <3> QED BY <3>3, <3>7, <3>9 DEF Gated, Order
  <2>2. CASE ~MayResume
    <3>1. gate' = gate /\ job' = job /\ m' = [m EXCEPT !.pc = "release"]
      BY <1>5, <2>2 DEF ResumeCollector
    <3>2. TypeOK'
      BY <1>5, <3>1, OwnerTypes, States, DesiredStateType DEF ResumeCollector, TypeOK
    <3> QED BY <1>5, <3>1, <3>2 DEF ResumeCollector, JobKinds, Gated, Free, Order
  <2> QED BY <2>1, <2>2
<1>6. CASE AwaitReady
  <2>1. \/ m' = [m EXCEPT !.pc = "cancel"]
        \/ m' = [m EXCEPT !.pc = "release"]
    BY <1>6 DEF AwaitReady
  <2>2. TypeOK'
    BY <1>6, <2>1, OwnerTypes, States DEF AwaitReady, TypeOK
  <2>3. ~Free => StartJob \/ PauseJob \/ StopJob
    BY <1>6 DEF AwaitReady, JobKinds, HaltJob, LaunchJob
  <2>4. JobKinds'
    BY <1>6, <2>3 DEF AwaitReady, JobKinds, StartJob, PauseJob, StopJob, Free
  <2> QED BY <1>6, <2>2, <2>4 DEF AwaitReady, Gated, Order
<1>7. CASE Release
  <2>1. TypeOK'
    BY <1>7, OwnerTypes DEF Release, TypeOK
  <2> QED BY <1>7, <2>1, OwnerTypes DEF Release, JobKinds, Gated, Free, Order
<1>8. CASE MarkFailed
  <2>1. gate \in GateRows
    BY <1>8 DEF MarkFailed, Gated, TypeOK
  <2>2. TypeOK'
    BY <1>8, <2>1, OwnerTypes, GateType, States DEF MarkFailed, TypeOK
  <2> QED BY <1>8, <2>2, OwnerTypes DEF MarkFailed, JobKinds, Gated, Free, Order
<1> QED BY <1>1, <1>2, <1>3, <1>4, <1>5, <1>6, <1>7, <1>8 DEF Maintenance

\* A failure, or a step of a collector process.
Failure == ChildLost \/ WorkFails \/ MaintenanceFails \/ Crash
ChildStep == \E t \in Tokens : Child(t) \/ CollectorDies(t)

LEMMA FailureOrder == Order /\ Failure => Order'
<1> SUFFICES ASSUME TypeOK, JobKinds, Gated, Failure PROVE Order'
  BY DEF Order
<1> USE DEF history, files
<1>f. ASSUME job' = Null PROVE JobKinds'
  BY <1>f DEF JobKinds, Free
<1>m. ~Free /\ job.who = "m" => m.pc # "idle"
  BY DEF JobKinds, StartJob, PauseJob, StopJob, HaltJob, LaunchJob
<1>p. record # Null => Pending \in RecordRows
  BY PendingType
<1>t. Failed(m) \in Owners
  BY FailedType DEF TypeOK
<1>1. CASE ChildLost
  <2>1. CASE /\ ~Free /\ job.pc = "confirm"
             /\ record' = IF job.restart /\ record # Null THEN Pending ELSE record
             /\ job' = Null
             /\ m' = IF job.who = "m" THEN Failed(m) ELSE m
    <3>1. record' \in RecordRows \cup {Null} /\ m' \in Owners
      BY <2>1, <1>p, <1>t DEF TypeOK
    <3>2. TypeOK'
      BY <1>1, <2>1, <3>1 DEF ChildLost, TypeOK
    <3>3. Gated'
      BY <1>1, <2>1, <1>m DEF ChildLost, Gated
    <3> QED BY <2>1, <1>f, <3>2, <3>3 DEF Order
  <2>2. CASE m.pc = "ready" /\ m' = Failed(m) /\ UNCHANGED <<record, job>>
    <3>1. TypeOK'
      BY <1>1, <2>2, <1>t DEF ChildLost, TypeOK
    <3>2. ~Free => StartJob \/ PauseJob \/ StopJob
      BY <2>2 DEF JobKinds, HaltJob, LaunchJob
    <3>3. JobKinds'
      BY <1>1, <2>2, <3>2 DEF ChildLost, JobKinds, StartJob, PauseJob, StopJob, Free
    <3> QED BY <1>1, <2>2, <3>1, <3>3 DEF ChildLost, Gated, Order
  <2> QED BY <1>1, <2>1, <2>2 DEF ChildLost
<1>2. CASE WorkFails
  <2>1. record' \in RecordRows \cup {Null} /\ m' \in Owners /\ faults' \in 0..MaxFaults
    BY <1>2, <1>p, <1>t, CounterTypes DEF WorkFails, TypeOK
  <2>2. proc' \in [Tokens -> ProcStates]
    BY <1>2, States DEF WorkFails, TypeOK
  <2>3. TypeOK'
    BY <1>2, <2>1, <2>2 DEF WorkFails, TypeOK
  <2>4. Gated'
    BY <1>2, <1>m DEF WorkFails, Gated
  <2> QED BY <1>2, <1>f, <2>3, <2>4 DEF WorkFails, Order
<1>3. CASE MaintenanceFails
  <2>1. TypeOK'
    BY <1>3, <1>t, CounterTypes DEF MaintenanceFails, TypeOK
  <2>2. ~Free => StartJob \/ PauseJob \/ StopJob
    BY <1>3 DEF MaintenanceFails, Holds, JobKinds, HaltJob, LaunchJob
  <2>3. JobKinds'
    BY <1>3, <2>2 DEF MaintenanceFails, JobKinds, StartJob, PauseJob, StopJob, Free
  <2> QED BY <1>3, <2>1, <2>3 DEF MaintenanceFails, Gated, Order
<1>4. CASE Crash
  <2>1. m' \in {m, Idle} /\ job' \in {job, Null}
    BY <1>4 DEF Crash
  <2>2. TypeOK'
    BY <1>4, <2>1, OwnerTypes, CounterTypes DEF Crash, TypeOK
  <2>3. Gated'
    BY <1>4, <2>1, OwnerTypes DEF Crash, Gated
  <2>4. CASE job' = Null
    BY <1>f, <2>2, <2>3, <2>4 DEF Order
  <2>5. CASE job' # Null
    <3>1. job' = job /\ ~Holds("m") /\ job # Null
      BY <1>4, <2>5 DEF Crash
    <3>2. StartJob \/ PauseJob \/ StopJob
      BY <3>1 DEF Holds, JobKinds, HaltJob, LaunchJob, Free
    <3>3. JobKinds'
      BY <1>4, <3>1, <3>2 DEF Crash, JobKinds, StartJob, PauseJob, StopJob, Free
    <3> QED BY <2>2, <2>3, <3>3 DEF Order
  <2> QED BY <2>4, <2>5
<1> QED BY <1>1, <1>2, <1>3, <1>4 DEF Failure

\* What a step of a collector process changes: its own state, and nothing
\* becomes admitted that the record does not name.
LEMMA ChildEffect ==
  ASSUME TypeOK, ChildStep
  PROVE  /\ UNCHANGED <<desired, record, gate, selected, job, m, intent, halted, ops, updates>>
         /\ faults' \in 0..MaxFaults /\ proc' \in [Tokens -> ProcStates]
         /\ \E t \in Tokens : \E s \in ProcStates :
               /\ proc' = [proc EXCEPT ![t] = s]
               /\ s \in {"admitted", "ready", "collecting"} => Running(t) \/ Named(t)
               /\ s # "gone" => Alive(t)
<1> USE DEF history, files
<1>1. PICK t \in Tokens : Child(t) \/ CollectorDies(t)
  BY DEF ChildStep
<1>2. CASE Admit(t)
  BY <1>2, States DEF Admit, AdmitWhen, Alive, TypeOK
<1>3. CASE Reject(t)
  BY <1>3, States DEF Reject, TypeOK
<1>4. CASE Prepare(t)
  BY <1>4, States DEF Prepare, Running, Alive, TypeOK
<1>5. CASE CollectorDies(t)
  BY <1>5, States, CounterTypes DEF CollectorDies, TypeOK
<1> QED BY <1>1, <1>2, <1>3, <1>4, <1>5 DEF Child

LEMMA ChildOrder == Order /\ ChildStep => Order'
<1> SUFFICES ASSUME Order, ChildStep PROVE Order'
  OBVIOUS
<1>1. TypeOK'
  BY ChildEffect DEF TypeOK, Order
<1>2. JobKinds' /\ Gated'
  BY ChildEffect DEF Order, JobKinds, Gated, Free, StartJob, PauseJob, StopJob, HaltJob, LaunchJob
<1> QED BY <1>1, <1>2 DEF Order

LEMMA StepCases ==
  ASSUME [Next]_vars
  PROVE  Command \/ InLock \/ Maintenance \/ Failure \/ ChildStep \/ UNCHANGED vars
BY DEF Next, Failure, ChildStep

LEMMA OrderInit == Init => Order
<1> SUFFICES ASSUME Init PROVE Order
  OBVIOUS
<1>1. TypeOK
  <2>1. 0 \in 0..MaxOps /\ 0 \in 0..MaxUpdates /\ 0 \in 0..MaxFaults
    BY BoundsAssumption
  <2>2. proc \in [Tokens -> ProcStates]
    BY States DEF Init
  <2> QED BY <2>1, <2>2, OwnerTypes DEF Init, TypeOK
<1> QED BY <1>1, OwnerTypes DEF Init, JobKinds, Gated, Free, Order

LEMMA OrderStep == Order /\ [Next]_vars => Order'
<1>1. ASSUME Order, UNCHANGED vars PROVE Order'
  <2>1. TypeOK'
    BY <1>1 DEF Order, TypeOK, vars
  <2>2. JobKinds' /\ Gated'
    BY <1>1 DEF Order, JobKinds, Gated, Free, StartJob, PauseJob, StopJob, HaltJob, LaunchJob, vars
  <2> QED BY <2>1, <2>2 DEF Order
<1> QED BY <1>1, StepCases, CommandOrder, InLockOrder, MaintenanceOrder, FailureOrder, ChildOrder

\* The files, the lock and the maintenance owner stay well-formed: a collector is
\* started by a command only while the gate is open, and whoever maintains holds
\* the gate closed (withProcessLock, rejectMaintenance, performCollectorMaintenance).
THEOREM FilesCorrect == Spec => []Order
BY OrderInit, OrderStep, PTL DEF Spec

-----------------------------------------------------------------------------
(* The processes and the record                                            *)

\* A job that is about to replace or to remove the record has stopped the
\* process it names.
Emptied == ~Free /\ job.pc \in {"spawn", "publish", "clear"} => ~IsOwned

\* The maintenance owner stopped the old collector, and only the collector it
\* launched itself is recorded when it opens the gate.
Handed ==
    /\ m.pc \in {"quiesced", "activate", "recover", "resume"} => record = Null
    /\ m.pc \in {"launch", "ready", "release"} /\ record # Null => record.key = selected

Authority == RunningIsRecorded /\ Emptied /\ Handed

LEMMA RunningAlive == \A t \in Tokens : Running(t) => Alive(t)
BY DEF Running, Alive

LEMMA NoneRuns ==
  ASSUME RunningIsRecorded, ~IsOwned
  PROVE  \A t \in Tokens : ~Running(t)
BY RunningAlive DEF RunningIsRecorded, Named, IsOwned

SameRecord ==
    /\ record' = Null <=> record = Null
    /\ record # Null => record'.token = record.token /\ record'.key = record.key

NoneComesUp ==
    \A t \in Tokens : (Alive(t)' => Alive(t)) /\ (Running(t)' => Running(t) \/ Named(t))

\* The job of a step that is not about to touch the record, or goes on as it was.
SafeJob == job' = Null \/ job'.pc \notin {"spawn", "publish", "clear"} \/ job' = job

LEMMA MarkedIsSame ==
  ASSUME TypeOK, record' \in {record, Pending}, record = Null => record' = Null
  PROVE  SameRecord
BY PendingType, NullLemma DEF SameRecord

LEMMA UpFromProc ==
  ASSUME TypeOK, proc' = proc \/ (\E t \in Tokens : proc' = [proc EXCEPT ![t] = "gone"])
  PROVE  NoneComesUp
BY DEF NoneComesUp, Alive, Running, TypeOK

LEMMA RecordedKept ==
  ASSUME TypeOK, RunningIsRecorded, SameRecord, NoneComesUp
  PROVE  RunningIsRecorded' /\ (~IsOwned => ~IsOwned')
<1>1. RunningIsRecorded'
  BY DEF RunningIsRecorded, SameRecord, NoneComesUp, Named
<1>2. ~IsOwned => ~IsOwned'
  BY DEF IsOwned, SameRecord, NoneComesUp, TypeOK, RecordRows
<1> QED BY <1>1, <1>2

LEMMA EmptiedKept ==
  ASSUME TypeOK, RunningIsRecorded, Emptied, SameRecord, NoneComesUp, SafeJob
  PROVE  RunningIsRecorded' /\ Emptied'
BY RecordedKept DEF Emptied, SafeJob, Free

LEMMA HandedKept ==
  ASSUME Handed, SameRecord \/ record' = Null, selected' = selected,
         m'.pc = m.pc \/ m'.pc \in {"idle", "stop", "cancel", "failed"}
  PROVE  Handed'
BY DEF Handed, SameRecord

LEMMA CommandAuthority == Order /\ Authority /\ Command => Authority'
<1> SUFFICES ASSUME TypeOK, RunningIsRecorded, Emptied, Handed, Command PROVE Authority'
  BY DEF Authority, Order
<1> USE DEF history, files
<1>w. \A op : \A pc \in {"plan", "kill", "strip"} :
         Work("cli", op, pc).pc \notin {"spawn", "publish", "clear"}
  BY DEF Work
<1>1. CASE Start \/ Resume \/ Refresh \/ Pause \/ Stop
  <2>1. SameRecord
    <3>1. record' \in {record, Pending} /\ (record = Null => record' = Null)
      BY <1>1, Zenon DEF Start, StartWhen, Resume, Refresh, Pause, Stop
    <3> QED BY <3>1, MarkedIsSame
  <2>2. NoneComesUp
    BY <1>1, UpFromProc DEF Start, StartWhen, Resume, Refresh, Pause, Stop
  <2>3. SafeJob
    BY <1>1, <1>w DEF Start, StartWhen, Resume, Refresh, Pause, Stop, SafeJob
  <2>4. Handed'
    BY <1>1, <2>1, HandedKept DEF Start, StartWhen, Resume, Refresh, Pause, Stop
  <2> QED BY <2>1, <2>2, <2>3, <2>4, EmptiedKept DEF Authority
<1>2. CASE Inspect
  <2>1. \/ record' \in {record, Pending} /\ (record = Null => record' = Null)
        \/ record' = Null /\ ~IsOwned
    BY <1>2 DEF Inspect
  <2>2. CASE record' \in {record, Pending} /\ (record = Null => record' = Null)
    <3>1. SameRecord /\ NoneComesUp /\ SafeJob
      BY <1>2, <2>2, MarkedIsSame, UpFromProc DEF Inspect, SafeJob
    <3> QED BY <1>2, <3>1, EmptiedKept, HandedKept DEF Authority, Inspect
  <2>3. CASE record' = Null /\ ~IsOwned
    <3>1. RunningIsRecorded'
      BY <1>2, <2>3, NoneRuns DEF Inspect, RunningIsRecorded, Running
    <3>2. Emptied'
      BY <2>3 DEF Emptied, IsOwned
    <3> QED BY <1>2, <2>3, <3>1, <3>2, HandedKept DEF Authority, Inspect
  <2> QED BY <2>1, <2>2, <2>3
<1>3. CASE LegacyStop
  <2>1. record' = Null /\ proc' = [proc EXCEPT ![record.token] = "gone"] /\ m' = m /\ selected' = selected
    BY <1>3 DEF LegacyStop
  <2>2. RunningIsRecorded'
    BY <1>3, <2>1 DEF LegacyStop, RunningIsRecorded, Running, Named, TypeOK
  <2>3. Emptied'
    BY <2>1 DEF Emptied, IsOwned
  <2> QED BY <2>1, <2>2, <2>3, HandedKept DEF Authority
<1>4. CASE ManualUpgrade
  <2>1. SameRecord /\ NoneComesUp /\ SafeJob
    BY <1>4, UpFromProc DEF ManualUpgrade, SameRecord, SafeJob
  <2>2. Handed'
    BY <1>4, OwnerTypes DEF ManualUpgrade, Handed
  <2> QED BY <2>1, <2>2, EmptiedKept DEF Authority
<1> QED BY <1>1, <1>2, <1>3, <1>4 DEF Command

LEMMA InLockAuthority == Order /\ Authority /\ InLock => Authority'
<1> SUFFICES ASSUME TypeOK, JobKinds, Gated, RunningIsRecorded, Emptied, Handed, InLock
             PROVE  Authority'
  BY DEF Authority, Order
<1> USE DEF history, files
<1>n. job # Null /\ job \in JobRows
  <2>1. job # Null
    BY Zenon DEF InLock, Plan, PlanWith, Establish, StripResume, Kill, Clear, Spawn, Publish, Settle,
             Confirm, Free
  <2> QED BY <2>1 DEF TypeOK
<1>k. /\ StartJob \/ PauseJob \/ StopJob \/ HaltJob \/ LaunchJob
      /\ job.pc \in {"publish", "settle", "confirm"} => job.child \in Tokens
  BY <1>n DEF JobKinds, Free
<1>e. job.pc \in {"spawn", "publish", "clear"} => ~IsOwned /\ \A t \in Tokens : ~Running(t)
  BY <1>n, NoneRuns DEF Emptied, Free
<1>1. CASE Plan
  <2>1. SameRecord /\ NoneComesUp
    BY <1>1, MarkedIsSame, UpFromProc DEF Plan, PlanWith
  <2>2. RunningIsRecorded' /\ (~IsOwned => ~IsOwned')
    BY <2>1, RecordedKept
  <2>3. job' = Null \/ record = Null \/ job'.pc = "establish"
    BY <1>1, <1>n DEF Plan, PlanWith, JobRows
  <2>4. Emptied'
    BY <2>1, <2>2, <2>3 DEF Emptied, Free, IsOwned, SameRecord
  <2> QED BY <1>1, <2>1, <2>2, <2>4, HandedKept DEF Plan, PlanWith, Authority
<1>2. CASE Establish \/ StripResume \/ Settle
  <2>1. SameRecord /\ NoneComesUp
    BY <1>2, UpFromProc DEF Establish, StripResume, Settle, SameRecord
  <2>2. SafeJob
    <3>1. [job EXCEPT !.pc = "kill"].pc = "kill" /\ [job EXCEPT !.pc = "confirm"].pc = "confirm"
      BY <1>n DEF JobRows
    <3>2. job' \in {Null, [job EXCEPT !.pc = "kill"], [job EXCEPT !.pc = "confirm"]}
      BY <1>2, Zenon DEF Establish, StripResume, Settle
    <3> QED BY <3>1, <3>2 DEF SafeJob
  <2> QED BY <1>2, <2>1, <2>2, EmptiedKept, HandedKept DEF Establish, StripResume, Settle, Authority
<1>3. CASE Kill
  <2>1. SameRecord /\ NoneComesUp
    <3>1. record # Null => record.token \in Tokens
      BY DEF TypeOK, RecordRows
    <3>2. proc' = proc \/ \E t \in Tokens : proc' = [proc EXCEPT ![t] = "gone"]
      BY <1>3, <3>1 DEF Kill
    <3> QED BY <1>3, <3>2, UpFromProc DEF Kill, SameRecord
  <2>2. ~IsOwned'
    BY <1>3 DEF Kill, IsOwned, Alive, TypeOK, RecordRows
  <2> QED BY <1>3, <2>1, <2>2, RecordedKept, HandedKept DEF Kill, Emptied, Authority
<1>4. CASE Clear
  <2>1. record' = Null /\ job' = Null /\ proc' = proc /\ selected' = selected
    BY <1>4 DEF Clear, Return
  <2>2. RunningIsRecorded'
    BY <1>4, <1>e, <2>1 DEF Clear, RunningIsRecorded, Running
  <2> QED BY <2>1, <2>2 DEF Authority, Emptied, Handed, Free
<1>5. CASE Spawn
  <2>1. PICK t \in Tokens : Fresh(t) /\ proc' = [proc EXCEPT ![t] = "spawned"]
    BY <1>5, Zenon DEF Spawn
  <2>2. RunningIsRecorded'
    BY <1>5, <1>e, <2>1 DEF Spawn, RunningIsRecorded, Running, TypeOK
  <2>3. ~IsOwned'
    <3>1. ~IsOwned /\ record' = record
      BY <1>5, <1>e DEF Spawn
    <3>2. CASE record = Null
      BY <3>1, <3>2 DEF IsOwned
    <3>3. CASE record # Null
      <4>1. record.token \in Tokens /\ record.token # t
        BY <2>1, <3>3 DEF Fresh, Named, TypeOK, RecordRows
      <4> QED BY <2>1, <3>1, <4>1 DEF IsOwned, Alive, TypeOK
    <3> QED BY <3>2, <3>3
  <2> QED BY <1>5, <2>2, <2>3, HandedKept DEF Spawn, SameRecord, Emptied, Authority
<1>6. CASE Publish
  <2>1. /\ record' = [token |-> job.child, key |-> job.key, restartPending |-> FALSE]
        /\ proc' = proc /\ m' = m /\ selected' = selected /\ gate' = gate
    BY <1>6 DEF Publish
  <2>2. RunningIsRecorded'
    BY <1>6, <1>e, <2>1 DEF Publish, RunningIsRecorded, Running
  <2>3. job'.pc = "settle"
    BY <1>6, <1>n, JobType, States DEF Publish
  <2>4. CASE StartJob
    <3>1. m.pc = "idle"
      BY <2>4 DEF StartJob, Gated
    <3> QED BY <2>1, <2>2, <2>3, <3>1 DEF Handed, Emptied, Authority
  <2>5. CASE LaunchJob
    BY <2>1, <2>2, <2>3, <2>5 DEF LaunchJob, Handed, Emptied, Authority
  <2> QED BY <1>6, <1>k, <2>4, <2>5 DEF Publish, PauseJob, StopJob, HaltJob
<1>7. CASE Confirm
  <2>1. SameRecord /\ NoneComesUp /\ SafeJob
    BY <1>7, UpFromProc DEF Confirm, SameRecord, SafeJob
  <2>2. Handed'
    <3>1. CASE job.who = "m"
      <4>1. m.pc = "launch"
        BY <1>7, <1>k, <3>1 DEF Confirm, StartJob, PauseJob, StopJob, HaltJob, LaunchJob
      <4>2. m'.pc = "ready"
        BY <1>7, <3>1 DEF Confirm, TypeOK, Owners
      <4> QED BY <1>7, <4>1, <4>2 DEF Confirm, Handed
    <3>2. CASE job.who # "m"
      BY <1>7, <2>1, <3>2, HandedKept DEF Confirm
    <3> QED BY <3>1, <3>2
  <2> QED BY <2>1, <2>2, EmptiedKept DEF Authority
<1> QED BY <1>1, <1>2, <1>3, <1>4, <1>5, <1>6, <1>7 DEF InLock

LEMMA MaintenanceAuthority == Order /\ Authority /\ Maintenance => Authority'
<1> SUFFICES ASSUME TypeOK, RunningIsRecorded, Emptied, Handed, Maintenance PROVE Authority'
  BY DEF Authority, Order
<1> USE DEF history, files
<1>s. SameRecord /\ NoneComesUp
  <2>1. record' = record /\ proc' = proc
    BY Zenon DEF Maintenance, Claim, ClaimWhen, StopCurrent, StopCurrentFrom, EnterActivation, Activate,
             ResumeCollector, AwaitReady, Release, MarkFailed
  <2> QED BY <2>1, UpFromProc DEF SameRecord
<1>r. RunningIsRecorded' /\ (~IsOwned => ~IsOwned')
  BY <1>s, RecordedKept
<1>1. CASE Claim
  <2>1. m'.pc = "stop"
    BY <1>1 DEF Claim, ClaimWhen, Idle
  <2> QED BY <1>1, <1>s, <2>1, EmptiedKept, HandedKept DEF Claim, ClaimWhen, SafeJob, Authority
<1>2. CASE StopCurrent
  <2>1. SafeJob
    BY <1>2 DEF StopCurrent, StopCurrentFrom, SafeJob, Work
  <2> QED BY <1>2, <1>s, <2>1, EmptiedKept, HandedKept DEF StopCurrent, StopCurrentFrom, Authority
<1>3. CASE EnterActivation
  <2>1. m'.pc = "activate"
    BY <1>3 DEF EnterActivation, TypeOK, Owners
  <2>2. Handed'
    BY <1>3, <2>1 DEF EnterActivation, Handed
  <2> QED BY <1>3, <1>s, <2>2, EmptiedKept DEF EnterActivation, SafeJob, Authority
<1>4. CASE Activate
  <2>1. m'.pc = "resume"
    BY <1>4, OwnerTypes, States DEF Activate, TypeOK
  <2>2. Handed'
    BY <1>4, <2>1 DEF Activate, Handed
  <2> QED BY <1>4, <1>s, <2>2, EmptiedKept DEF Activate, SafeJob, Authority
<1>5. CASE ResumeCollector
  <2>1. record' = Null /\ ~IsOwned'
    BY <1>5 DEF ResumeCollector, Handed, IsOwned
  <2>2. m'.pc \in {"launch", "release"}
    <3>1. [m EXCEPT !.pc = "launch"].pc = "launch" /\ [m EXCEPT !.pc = "release"].pc = "release"
      BY DEF TypeOK, Owners
    <3>2. m' \in {[m EXCEPT !.pc = "launch"], [m EXCEPT !.pc = "release"]}
      BY <1>5, Zenon DEF ResumeCollector
    <3> QED BY <3>1, <3>2
  <2> QED BY <1>r, <2>1, <2>2 DEF Emptied, Handed, Authority
<1>6. CASE AwaitReady
  <2>1. m'.pc \in {"cancel", "release"}
    <3>1. [m EXCEPT !.pc = "cancel"].pc = "cancel" /\ [m EXCEPT !.pc = "release"].pc = "release"
      BY DEF TypeOK, Owners
    <3>2. m' \in {[m EXCEPT !.pc = "cancel"], [m EXCEPT !.pc = "release"]}
      BY <1>6, Zenon DEF AwaitReady
    <3> QED BY <3>1, <3>2
  <2>2. Handed'
    BY <1>6, <2>1 DEF AwaitReady, Handed
  <2> QED BY <1>6, <1>s, <2>2, EmptiedKept DEF AwaitReady, SafeJob, Authority
<1>7. CASE Release \/ MarkFailed
  <2>1. m'.pc = "idle" /\ selected' = selected /\ SafeJob
    BY <1>7, OwnerTypes DEF Release, MarkFailed, SafeJob
  <2> QED BY <1>s, <2>1, EmptiedKept, HandedKept DEF Authority
<1> QED BY <1>1, <1>2, <1>3, <1>4, <1>5, <1>6, <1>7 DEF Maintenance

LEMMA FailureAuthority == Order /\ Authority /\ Failure => Authority'
<1> SUFFICES ASSUME TypeOK, JobKinds, RunningIsRecorded, Emptied, Handed, Failure PROVE Authority'
  BY DEF Authority, Order
<1> USE DEF history, files
<1>t. Failed(m).pc \in {"stop", "failed"} /\ Idle.pc = "idle"
  BY FailedType, OwnerTypes DEF TypeOK
<1>1. SameRecord
  <2>1. record' \in {record, Pending} /\ (record = Null => record' = Null)
    BY Zenon DEF Failure, ChildLost, WorkFails, MaintenanceFails, Crash
  <2> QED BY <2>1, MarkedIsSame
<1>2. NoneComesUp
  <2>1. WorkFails /\ job.pc = "publish" => job.child \in Tokens
    BY DEF WorkFails, JobKinds
  <2>2. proc' = proc \/ (\E t \in Tokens : proc' = [proc EXCEPT ![t] = "gone"])
    BY <2>1 DEF Failure, ChildLost, WorkFails, MaintenanceFails, Crash
  <2> QED BY <2>2, UpFromProc
<1>3. SafeJob
  BY DEF Failure, ChildLost, WorkFails, MaintenanceFails, Crash, SafeJob
<1>4. selected' = selected /\ (m' = m \/ m' = Failed(m) \/ m' = Idle)
  BY Zenon DEF Failure, ChildLost, WorkFails, MaintenanceFails, Crash
<1>5. Handed'
  BY <1>t, <1>1, <1>4, HandedKept
<1> QED BY <1>1, <1>2, <1>3, <1>5, EmptiedKept DEF Authority

LEMMA ChildAuthority == Order /\ Authority /\ ChildStep => Authority'
<1> SUFFICES ASSUME TypeOK, RunningIsRecorded, Emptied, Handed, ChildStep PROVE Authority'
  BY DEF Authority, Order
<1>1. UNCHANGED <<record, selected, job, m>>
  BY ChildEffect
<1>2. NoneComesUp
  BY ChildEffect DEF NoneComesUp, Running, Alive, TypeOK
<1> QED BY <1>1, <1>2, EmptiedKept, HandedKept DEF SameRecord, SafeJob, Authority

LEMMA AuthorityStep == Order /\ Authority /\ [Next]_vars => Authority'
<1>1. Authority /\ UNCHANGED vars => Authority'
  BY DEF Authority, RunningIsRecorded, Emptied, Handed, IsOwned, Running, Named, Alive, Free, vars
<1> QED BY <1>1, StepCases, CommandAuthority, InLockAuthority, MaintenanceAuthority,
           FailureAuthority, ChildAuthority

LEMMA AuthorityInit == Init => Authority
BY OwnerTypes DEF Init, Authority, RunningIsRecorded, Emptied, Handed, Running, Free

LEMMA AuthorityAlways == Spec => [](Order /\ Authority)
<1>1. Init => Order /\ Authority
  BY OrderInit, AuthorityInit
<1>2. (Order /\ Authority) /\ [Next]_vars => (Order /\ Authority)'
  BY OrderStep, AuthorityStep
<1> QED BY <1>1, <1>2, PTL DEF Spec

\* Every admitted collector is the one the record names, whatever commands,
\* maintenance owners and failures do between two writes (admitCollectorProcess,
\* launchProcess, restartProcess).
THEOREM CollectorIsRecorded == Spec => []RunningIsRecorded
<1>1. Order /\ Authority => RunningIsRecorded
  BY DEF Authority
<1> QED BY <1>1, AuthorityAlways, PTL

\* No collector runs while the updater activates or recovers a runtime
\* (performCollectorMaintenance, rejectMaintenance).
THEOREM ActivationIsQuiet == Spec => []ActivationQuiesced
<1>1. Order /\ Authority => ActivationQuiesced
  BY NoneRuns DEF Authority, Handed, ActivationQuiesced, IsOwned
<1> QED BY <1>1, AuthorityAlways, PTL

\* The gate is opened only over no collector or over one of the selected runtime
\* (release, performCollectorMaintenance).
THEOREM HandoverIsExact == Spec => HandoverExact
<1> DEFINE Exact == gate # Null /\ gate' = Null /\ record # Null => record.key = selected
<1>1. Order /\ Authority /\ [Next]_vars => [Exact]_vars
  <2> SUFFICES ASSUME TypeOK, Gated, Gated', Handed, Next PROVE Exact
    BY OrderStep DEF Order, Authority
  <2> USE DEF history, files
  <2>1. CASE gate' \in {gate, StrippedGate}
    BY <2>1, StrippedType
  <2>2. CASE m'.pc # "idle"
    BY <2>2 DEF Gated
  <2>3. CASE Release
    BY <2>3 DEF Release, Handed
  <2>4. CASE MarkFailed
    <3>1. gate \in GateRows
      BY <2>4 DEF MarkFailed, Gated, TypeOK
    <3> QED BY <2>4, <3>1, GateType, States DEF MarkFailed
  <2>5. CASE Claim
    BY <2>2, <2>5 DEF Claim, ClaimWhen, Idle
  <2>6. CASE EnterActivation
    <3>1. m'.pc = "activate"
      BY <2>6 DEF EnterActivation, TypeOK, Owners
    <3> QED BY <2>2, <3>1
  <2>7. CASE ResumeCollector
    <3>1. [m EXCEPT !.pc = "launch"].pc = "launch" /\ [m EXCEPT !.pc = "release"].pc = "release"
      BY DEF TypeOK, Owners
    <3>2. m' \in {[m EXCEPT !.pc = "launch"], [m EXCEPT !.pc = "release"]}
      BY <2>7, Zenon DEF ResumeCollector
    <3> QED BY <2>2, <3>1, <3>2
  <2>8. CASE Command
    <3>1. gate' \in {gate, StrippedGate}
      BY <2>8, Zenon DEF Command, Start, StartWhen, Resume, Refresh, Pause, Stop, Inspect, LegacyStop,
         ManualUpgrade, StrippedGate
    <3> QED BY <2>1, <3>1
  <2>9. CASE InLock
    <3>1. gate' \in {gate, StrippedGate}
      BY <2>9, Zenon DEF InLock, Plan, PlanWith, Establish, StripResume, Kill, Clear, Spawn, Publish,
         Settle, Confirm, StrippedGate
    <3> QED BY <2>1, <3>1
  <2>10. CASE StopCurrent \/ Activate \/ AwaitReady
    BY <2>1, <2>10 DEF StopCurrent, StopCurrentFrom, Activate, AwaitReady
  <2>11. CASE Failure
    BY <2>1, <2>11, Zenon DEF Failure, ChildLost, WorkFails, MaintenanceFails, Crash
  <2>12. CASE ChildStep
    BY <2>1, <2>12, ChildEffect
  <2> QED BY <2>3, <2>4, <2>5, <2>6, <2>7, <2>8, <2>9, <2>10, <2>11, <2>12
          DEF Next, Maintenance, Failure, ChildStep
<1> QED BY <1>1, AuthorityAlways, PTL DEF Spec, HandoverExact

-----------------------------------------------------------------------------
(* A Stop is final                                                         *)

\* Nothing the files hold would start a collector again: no record, no resume in
\* the gate, and an intent that is either off or already used up.
Off == record = Null /\ ~GateResume /\ (desired = Null \/ ~desired.wanted \/ desired.established)

Halted ==
    /\ halted => Off /\ (Free \/ job.op = "stop")
    /\ ~Free /\ job.who = "cli" /\ job.op = "stop" =>
          /\ desired # Null /\ ~desired.wanted
          /\ job.pc # "strip" => ~GateResume

\* Read after a Stop, the saved intent is off.
LEMMA OffIsUnwanted ==
  ASSUME TypeOK, Off
  PROVE  DesiredState \in DesiredRows /\ ~DesiredState.wanted
BY DesiredStateType DEF Off, DesiredState, Unwanted, IsOwned

\* What a step does not touch.
LEMMA HaltedKept ==
  ASSUME Halted, halted' => halted, desired' = desired, record = Null => record' = Null,
         GateResume' => GateResume,
         job' = Null \/ job' = job
  PROVE  Halted'
BY DEF Halted, Off, Free

LEMMA CommandHalted == Order /\ Halted /\ Command => Halted'
<1> SUFFICES ASSUME TypeOK, Halted, Command PROVE Halted'
  BY DEF Order
<1> USE DEF history, files
<1>f. Free
  BY Zenon DEF Command, Start, StartWhen, Resume, Refresh, Pause, Stop, Inspect, LegacyStop, ManualUpgrade
<1>o. halted => Off /\ ~DesiredState.wanted
  BY OffIsUnwanted DEF Halted
<1>w. \A op, pc : Work("cli", op, pc).op = op /\ Work("cli", op, pc).pc = pc
  BY DEF Work
<1>1. CASE Start
  BY <1>1, <1>w DEF Start, StartWhen, Halted
<1>2. CASE Resume
  <2>1. halted => job' = Null /\ desired' = DesiredState
    BY <1>2, <1>o DEF Resume
  <2>2. job' = Null \/ job'.op = "resume"
    BY <1>2, <1>w DEF Resume
  <2> QED BY <1>2, <1>o, <2>1, <2>2 DEF Resume, Halted, Off, GateResume, Free
<1>3. CASE Refresh
  <2>1. halted => job' = Null /\ desired' = DesiredState /\ record' = Null
    BY <1>3, <1>o DEF Refresh, Off
  <2>2. job' = Null \/ job'.op = "refresh"
    BY <1>3, <1>w DEF Refresh
  <2> QED BY <1>3, <1>o, <2>1, <2>2 DEF Refresh, Halted, Off, GateResume, Free
<1>4. CASE Pause
  <2>1. halted => job' = Null /\ desired' = DesiredState /\ record' = Null
    BY <1>4, <1>o DEF Pause, Off
  <2>2. job' = Null \/ job'.op = "pause"
    BY <1>4, <1>w DEF Pause
  <2> QED BY <1>4, <1>o, <2>1, <2>2 DEF Pause, Halted, Off, GateResume, Free
<1>5. CASE Stop
  <2>1. Unwanted \in DesiredRows /\ ~Unwanted.wanted
    BY DEF Unwanted, DesiredRows
  <2>2. job'.op = "stop" /\ job'.pc = "strip"
    BY <1>5, <1>w DEF Stop
  <2> QED BY <1>5, <1>o, <2>1, <2>2, NullLemma DEF Stop, Halted, Off, GateResume, Free
<1>6. CASE Inspect
  <2>1. halted => desired' = DesiredState /\ record' = Null
    BY <1>6, <1>o DEF Inspect, Off, IsOwned
  <2> QED BY <1>6, <1>f, <1>o, <2>1 DEF Inspect, Halted, Off, GateResume, Free
<1>7. CASE LegacyStop
  <2>1. gate' = StrippedGate
    BY <1>7 DEF LegacyStop, StrippedGate
  <2>2. ~GateResume'
    BY <2>1, StrippedType DEF GateResume
  <2> QED BY <1>7, <1>f, <2>2 DEF LegacyStop, Halted, Off, Free
<1>8. CASE ManualUpgrade
  BY <1>8, HaltedKept DEF ManualUpgrade, GateResume
<1> QED BY <1>1, <1>2, <1>3, <1>4, <1>5, <1>6, <1>7, <1>8 DEF Command

LEMMA InLockHalted == Order /\ Halted /\ InLock => Halted'
<1> SUFFICES ASSUME TypeOK, JobKinds, Halted, InLock PROVE Halted'
  BY DEF Order
<1> USE DEF history, files
<1>n. job # Null /\ job \in JobRows
  <2>1. job # Null
    BY Zenon DEF InLock, Plan, PlanWith, Establish, StripResume, Kill, Clear, Spawn, Publish, Settle,
             Confirm, Free
  <2> QED BY <2>1 DEF TypeOK
<1>k. StartJob \/ PauseJob \/ StopJob \/ HaltJob \/ LaunchJob
  BY <1>n DEF JobKinds, Free
<1>h. halted => StopJob \/ HaltJob
  BY <1>n, <1>k DEF Halted, StartJob, PauseJob, LaunchJob, Starts, Free
<1>s. StopJob => /\ desired # Null /\ ~desired.wanted
                 /\ job.pc # "strip" => ~GateResume
  BY <1>n DEF Halted, StopJob, Free
<1>j. \A pc : [job EXCEPT !.pc = pc].op = job.op /\ [job EXCEPT !.pc = pc].who = job.who
  BY <1>n DEF JobRows
<1>1. CASE Plan \/ Establish \/ Spawn \/ Publish \/ Settle \/ Confirm
  <2>0. job.pc \in {"plan", "establish", "spawn", "publish", "settle", "confirm"}
    BY <1>1, Zenon DEF Plan, PlanWith, Establish, Spawn, Publish, Settle, Confirm
  <2>1. ~StopJob /\ ~HaltJob /\ ~halted
    BY <1>h, <2>0 DEF StopJob, HaltJob
  <2>2. halted' = halted
    BY <1>1, Zenon DEF Plan, PlanWith, Establish, Spawn, Publish, Settle, Confirm
  <2>3. job.op # "stop"
    BY <1>k, <2>1 DEF StartJob, PauseJob, LaunchJob, Starts
  <2>4. job' = Null \/ job'.op = job.op
    <3>1. CASE Plan
      BY <1>n, <3>1 DEF Plan, PlanWith, JobRows
    <3>2. CASE Spawn
      <4>1. PICK t \in Tokens : job' = [job EXCEPT !.pc = "publish", !.child = t]
        BY <3>2, Zenon DEF Spawn
      <4> QED BY <1>n, <4>1 DEF JobRows
    <3> QED BY <1>1, <1>j, <3>1, <3>2 DEF Establish, Publish, Settle, Confirm
  <2> QED BY <2>1, <2>2, <2>3, <2>4 DEF Halted, Free
<1>2. CASE StripResume
  <2>0. StopJob
    BY <1>2, <1>k DEF StripResume, StartJob, PauseJob, HaltJob, LaunchJob
  <2>1. gate' = StrippedGate
    BY <1>2 DEF StripResume, StrippedGate
  <2>2. ~GateResume'
    BY <2>1, StrippedType DEF GateResume
  <2>3. (job' = Null <=> record = Null) /\ (job' = Null \/ job'.op = "stop")
    <3>1. [job EXCEPT !.pc = "kill"] # Null /\ [job EXCEPT !.pc = "kill"].op = "stop"
      BY <1>n, <2>0, JobType, States DEF StopJob
    <3> QED BY <1>2, <3>1 DEF StripResume
  <2> QED BY <1>2, <1>s, <2>0, <2>2, <2>3 DEF StripResume, Halted, Off, Free
<1>3. CASE Kill
  <2>1. job' = Null \/ (job'.op = job.op /\ job'.who = job.who)
    BY <1>3, <1>j DEF Kill
  <2>2. StopJob => job.pc # "strip"
    BY <1>3 DEF Kill
  <2> QED BY <1>3, <1>n, <1>h, <1>s, <1>k, <2>1, <2>2
          DEF Kill, Halted, Off, GateResume, Free, StartJob, PauseJob, StopJob, HaltJob, LaunchJob, Starts
<1>4. CASE Clear
  <2>1. job' = Null /\ record' = Null /\ desired' = desired /\ GateResume' = GateResume
    BY <1>4 DEF Clear, Return, GateResume
  <2>2. halted' => halted \/ StopJob
    BY <1>4, <1>k DEF Clear, StartJob, PauseJob, StopJob, HaltJob, LaunchJob
  <2>3. StopJob => job.pc # "strip"
    BY <1>4 DEF Clear
  <2> QED BY <1>s, <2>1, <2>2, <2>3 DEF Halted, Off, Free
<1> QED BY <1>1, <1>2, <1>3, <1>4 DEF InLock

LEMMA MaintenanceHalted == Order /\ Halted /\ Maintenance => Halted'
<1> SUFFICES ASSUME TypeOK, Gated, Halted, Maintenance PROVE Halted'
  BY DEF Order
<1> USE DEF history, files
<1>o. halted => Off /\ ~DesiredState.wanted
  BY OffIsUnwanted DEF Halted
<1>1. CASE Claim
  <2>1. halted => ~GateResume'
    BY <1>1, <1>o DEF Claim, ClaimWhen, GateResume
  <2> QED BY <1>1, <1>o, <2>1 DEF Claim, ClaimWhen, Halted, Off, Free
<1>2. CASE StopCurrent
  <2>1. job'.op = "stop" /\ job'.who = "m"
    BY <1>2 DEF StopCurrent, StopCurrentFrom, Work
  <2> QED BY <1>2, <2>1 DEF StopCurrent, StopCurrentFrom, Halted, Off, GateResume, Free
<1>3. CASE EnterActivation \/ MarkFailed
  <2>1. gate \in GateRows
    BY <1>3 DEF EnterActivation, MarkFailed, Gated, TypeOK
  <2>2. GateResume' => GateResume
    BY <1>3, <2>1, GateType, NullLemma, States DEF EnterActivation, MarkFailed, GateResume
  <2> QED BY <1>3, <2>2, HaltedKept DEF EnterActivation, MarkFailed
<1>4. CASE Activate \/ AwaitReady
  BY <1>4, HaltedKept DEF Activate, AwaitReady, GateResume
<1>5. CASE ResumeCollector
  <2>1. CASE MayResume
    <3>1. ~halted
      BY <1>5, <2>1, <1>o DEF MayResume
    <3>2. job'.op = "launch" /\ halted' = halted
      BY <1>5, <2>1 DEF ResumeCollector, Work
    <3> QED BY <3>1, <3>2 DEF Halted
  <2>2. CASE ~MayResume
    BY <1>5, <2>2, <1>o DEF ResumeCollector, Halted, Off, GateResume, Free
  <2> QED BY <2>1, <2>2
<1>6. CASE Release
  BY <1>6, HaltedKept DEF Release, GateResume
<1> QED BY <1>1, <1>2, <1>3, <1>4, <1>5, <1>6 DEF Maintenance

LEMMA FailureHalted == Order /\ Halted /\ Failure => Halted'
<1> SUFFICES ASSUME Halted, Failure PROVE Halted'
  OBVIOUS
<1> USE DEF history, files
<1>1. halted' = halted /\ desired' = desired /\ gate' = gate /\ (job' = Null \/ job' = job)
  BY Zenon DEF Failure, ChildLost, WorkFails, MaintenanceFails, Crash
<1>2. record = Null => record' = Null
  BY Zenon DEF Failure, ChildLost, WorkFails, MaintenanceFails, Crash
<1> QED BY <1>1, <1>2, HaltedKept DEF GateResume

LEMMA HaltedStep == Order /\ Halted /\ [Next]_vars => Halted'
<1>1. Halted /\ UNCHANGED vars => Halted'
  BY HaltedKept DEF vars, GateResume
<1>2. Order /\ Halted /\ ChildStep => Halted'
  BY ChildEffect, HaltedKept DEF GateResume, Order
<1> QED BY <1>1, <1>2, StepCases, CommandHalted, InLockHalted, MaintenanceHalted, FailureHalted

\* Once a Stop has returned, no collector runs until the user starts one: no login,
\* maintenance, recovery or late collector brings one back (processStop, resume).
THEOREM StopIsFinal == Spec => []StopWins
<1>1. Init => Halted
  BY DEF Init, Halted, Free
<1>2. (Order /\ Authority /\ Halted) /\ [Next]_vars => (Order /\ Authority /\ Halted)'
  BY OrderStep, AuthorityStep, HaltedStep
<1>3. Order /\ Authority /\ Halted => StopWins
  BY NoneRuns DEF Authority, Halted, Off, StopWins, IsOwned
<1> QED BY <1>1, <1>2, <1>3, OrderInit, AuthorityInit, PTL DEF Spec
=============================================================================
