-------------------------- MODULE TrialSkillsProofs --------------------------
(***************************************************************************)
(* Proofs about TrialSkills, for any number of trials, template versions,  *)
(* runs, workers, crashes and failures: the types, that the user's         *)
(* template survives, what a worker compiles, which scores count, what a   *)
(* ledger and a survivor may be without a warning, and that the doctor     *)
(* finds no error beside a session that is at work.                        *)
(***************************************************************************)
EXTENDS TrialSkills, SequenceTheorems, TLAPS

-----------------------------------------------------------------------------
(* Records *)

LEMMA TemplateIsSpec == \A v \in Version : Template(v) \in SpecFile
  BY DEF Template, SpecFile

LEMMA NoCallIsCall == NoCall \in Call /\ NoCall.trial = NoTrial /\ NoCall.op = "none"
<1>1. 1 \in Version /\ 1 \in 1 .. Runs
  BY SpecAssumption, TrialAssumption DEF Version
<1>2. Template(1) \in SpecFile
  BY <1>1, TemplateIsSpec
<1> QED
  BY <1>1, <1>2 DEF NoCall, Call, Artifact, SourceTree

LEMMA StartCall ==
    ASSUME NEW t \in Trial, NEW op \in {"start", "benchmark"}
    PROVE  /\ [NoCall EXCEPT !.op = op, !.trial = t] \in Call
           /\ [NoCall EXCEPT !.op = op, !.trial = t].op = op
           /\ [NoCall EXCEPT !.op = op, !.trial = t].trial = t
  BY NoCallIsCall DEF Call

LEMMA CompileCall ==
    ASSUME NEW t \in Trial, SpecTypeOK
    PROVE  LET c == [NoCall EXCEPT !.op = "compile", !.trial = t, !.pre = Snapshot]
           IN  c \in Call /\ c.op = "compile" /\ c.trial = t
<1>1. Snapshot \in [spec : SpecFile, source : SourceTree]
  BY DEF Snapshot, SpecTypeOK
<1> QED
  BY <1>1, NoCallIsCall DEF Call

LEMMA FailedCall ==
    ASSUME NEW c \in Call
    PROVE  LET d == [c EXCEPT !.failed = TRUE]
           IN  d \in Call /\ d.op = c.op /\ d.trial = c.trial
  BY DEF Call

LEMMA EndedCall ==
    ASSUME NEW c \in Call, NEW good \in BOOLEAN
    PROVE  LET d == [c EXCEPT !.good = good]
           IN  d \in Call /\ d.op = c.op /\ d.trial = c.trial
  BY DEF Call

LEMMA NextRunCall ==
    ASSUME NEW c \in Call, c.index < Runs
    PROVE  LET d == [c EXCEPT !.index = @ + 1, !.good = FALSE]
           IN  d \in Call /\ d.op = c.op /\ d.trial = c.trial
<1>1. c.index + 1 \in 1 .. Runs
  BY TrialAssumption DEF Call
<1> QED
  BY <1>1 DEF Call

LEMMA LookedAtCall ==
    ASSUME call \in Call, artifact \in Artifact,
           HashArtifact \/ ReadForScore \/ ArtifactChanges
    PROVE  /\ call' \in Call
           /\ call'.op = call.op /\ call'.trial = call.trial /\ call'.failed = call.failed
           /\ call'.ref = call.ref /\ call'.refs = call.refs /\ call'.good = call.good
           /\ call'.index = call.index
<1>1. CASE HashArtifact
  <2>1. call' = [call EXCEPT !.hash = artifact, !.raced = FALSE]
    BY <1>1, Zenon DEF HashArtifact
  <2> QED
    BY <2>1 DEF Call
<1>2. CASE ReadForScore
  <2>1. call' = [call EXCEPT !.measured = artifact]
    BY <1>2, Zenon DEF ReadForScore
  <2> QED
    BY <2>1 DEF Call
<1>3. CASE ArtifactChanges
  <2>1. call' = [call EXCEPT !.raced = @ \/ pc = "read"]
    BY <1>3, Zenon DEF ArtifactChanges
  <2>2. PICK b \in BOOLEAN : b <=> (call.raced \/ pc = "read")
    BY Zenon
  <2>3. call' = [call EXCEPT !.raced = b]
    BY <2>1, <2>2 DEF Call
  <2> QED
    BY <2>2, <2>3 DEF Call
<1> QED
  BY <1>1, <1>2, <1>3

LEMMA CallEventIsEvent ==
    ASSUME call \in Call, call.trial \in Trial,
           NEW kind \in {"process_started", "compile_result", "benchmark_run_result"}
    PROVE  CallEvent(kind) \in Event /\ CallEvent(kind).trial = call.trial
  BY DEF CallEvent, Event, Call

LEMMA StartEventIsEvent ==
    ASSUME NEW t \in Trial
    PROVE  [kind |-> "trial_start", trial |-> t, ref |-> 0, good |-> TRUE,
            measured |-> "none", raced |-> FALSE] \in Event
  BY DEF Event, Artifact

LEMMA CountedCheckpoint ==
    ASSUME NEW c \in Checkpoint, NEW n \in Nat
    PROVE  LET d == [c EXCEPT !.count = n]
           IN  d \in Checkpoint /\ d.trial = c.trial
  BY DEF Checkpoint

LEMMA TrialCheckpoint ==
    ASSUME NEW c \in Checkpoint, NEW t \in Trial, NEW n \in Nat
    PROVE  LET d == [c EXCEPT !.trial = t, !.start = n, !.operations = << >>]
           IN  d \in Checkpoint /\ d.trial = t
<1>1. << >> \in Seq(Operation)
  OBVIOUS
<1> QED
  BY <1>1 DEF Checkpoint

LEMMA OperationCheckpoint ==
    ASSUME NEW c \in Checkpoint, call \in Call, call.op \in {"compile", "benchmark"},
           NEW status \in OperationStatus
    PROVE  WithOperation(c, status) \in Checkpoint /\ WithOperation(c, status).trial = c.trial
<1> DEFINE o == [op |-> call.op, status |-> status, refs |-> call.refs]
           same == {i \in DOMAIN c.operations : Same(c.operations[i])}
           first == CHOOSE i \in same : \A j \in same : i <= j
<1>1. o \in Operation /\ c.operations \in Seq(Operation)
  BY DEF Operation, Call, Checkpoint
<1>2. Append(c.operations, o) \in Seq(Operation)
  BY <1>1
<1>3. [c.operations EXCEPT ![first] = o] \in Seq(Operation)
  <2> HIDE DEF o, first
  <2>1. CASE first \in 1 .. Len(c.operations)
    BY <1>1, <2>1, ExceptSeq
  <2>2. CASE first \notin 1 .. Len(c.operations)
    <3>1. DOMAIN c.operations = 1 .. Len(c.operations)
      BY <1>1
    <3>2. [c.operations EXCEPT ![first] = o] = c.operations
      BY <1>1, <2>2, <3>1
    <3> QED
      BY <1>1, <3>2
  <2> QED
    BY <2>1, <2>2
<1>4. WithOperation(c, status) =
        IF same = {} THEN [c EXCEPT !.operations = Append(c.operations, o)]
        ELSE [c EXCEPT !.operations = [c.operations EXCEPT ![first] = o]]
  BY DEF WithOperation, Checkpoint
<1> HIDE DEF o, same, first
<1>5. \A ops \in Seq(Operation) :
        [c EXCEPT !.operations = ops] \in Checkpoint
        /\ [c EXCEPT !.operations = ops].trial = c.trial
  BY DEF Checkpoint
<1> QED
  BY <1>2, <1>3, <1>4, <1>5

LEMMA InjectedSpec ==
    ASSUME NEW s \in SpecFile, NEW t \in Trial
    PROVE  [s EXCEPT !.injected = Append(@, t)] \in SpecFile
<1>1. Append(s.injected, t) \in Seq(Trial)
  BY DEF SpecFile
<1> QED
  BY <1>1 DEF SpecFile

-----------------------------------------------------------------------------
(* Types *)

\* A call has begun, and it has a writer.
Written == {"inject", "hash", "read", "spawn", "spawned", "started", "waiting", "restore",
            "verify", "result", "recorded"}

Writer == [count : Nat, ledger : Checkpoint \cup {NoCheckpoint}]

JournalTypes == trace \in Seq(Event) /\ torn \in BOOLEAN /\ disk \in Checkpoint

WorkTypes ==
    /\ DOMAIN lease \subseteq Ref /\ lease \in [DOMAIN lease -> LeaseStatus]
    /\ alive \subseteq Ref
    /\ artifact \in Artifact
    /\ spawned \in 0 .. MaxSpawns

AgentTypes ==
    /\ pc \in Steps
    /\ call \in Call
    /\ mine \in Checkpoint \cup {NoCheckpoint}
    /\ writer \in Writer
    /\ pc # "dead" => mine \in Checkpoint
    /\ pc \in Written => writer.ledger \in Checkpoint
    /\ pc \in Written \cup {"backup"} => call.op \in {"compile", "benchmark"}
    /\ pc \in Written \cup {"backup", "begun"} => call.trial \in Trial
    /\ pc \in {"hash", "read"} => call.op = "benchmark"
    /\ pc \in {"backup", "inject", "restore", "verify"} => call.op = "compile"

\* A call is for the trial in the checkpoint, and writes it again.
Current ==
    /\ pc # "dead" => mine.trial = disk.trial
    /\ pc \in Written => writer.ledger.trial = disk.trial
    /\ pc \in Written \cup {"backup"} => call.trial = disk.trial

BoundTypes == faults \in 0 .. MaxFaults /\ doctor.read \in 0 .. 6

Types ==
    SpecTypeOK /\ JournalTypes /\ WorkTypes /\ AgentTypes /\ Current /\ BoundTypes

LEMMA TypesInit == Init => Types
<1> SUFFICES ASSUME Init PROVE Types
  OBVIOUS
<1>1. SpecTypeOK
  <2>1. 1 \in Version
    BY SpecAssumption DEF Version
  <2>2. spec \in SpecFile
    BY <2>1, TemplateIsSpec DEF Init, SpecInit
  <2>3. DOMAIN backup = {}
    BY DEF Init, SpecInit
  <2> QED
    BY <2>1, <2>2, <2>3 DEF Init, SpecInit, SpecTypeOK, SourceTree
<1>2. JournalTypes
  <2>1. << >> \in Seq(Operation) /\ << >> \in Seq(Event)
    OBVIOUS
  <2>2. disk \in Checkpoint
    BY <2>1 DEF Init, Checkpoint
  <2> QED
    BY <2>1, <2>2 DEF Init, JournalTypes
<1>3. WorkTypes
  BY TrialAssumption DEF Init, WorkTypes, Artifact
<1>4. AgentTypes /\ Current
  <2>1. pc = "idle" /\ call \in Call /\ mine = disk /\ writer = NoWriter
    BY NoCallIsCall DEF Init
  <2>2. NoWriter \in Writer
    BY DEF NoWriter, Writer
  <2> QED
    BY <1>2, <2>1, <2>2 DEF AgentTypes, Current, JournalTypes, Steps, Written
<1>5. BoundTypes
  BY TrialAssumption DEF Init, BoundTypes
<1> QED
  BY <1>1, <1>2, <1>3, <1>4, <1>5 DEF Types

\* The spec and its backups.
LEMMA SpecStep == Types /\ [Next]_vars => SpecTypeOK'
<1> SUFFICES ASSUME Types, [Next]_vars PROVE SpecTypeOK'
  OBVIOUS
<1>0. SpecTypeOK
  BY DEF Types
<1>1. CASE BackUp
  <2>1. call.trial \in Trial /\ TakeBackup(call.trial)
    BY <1>1 DEF BackUp, Types, AgentTypes
  <2> QED
    BY <1>0, <2>1 DEF TakeBackup, With, SpecTypeOK
<1>2. CASE InjectCombo
  <2>1. call.trial \in Trial
    BY <1>2 DEF InjectCombo, Types, AgentTypes, Written
  <2>2. spec' = [spec EXCEPT !.injected = Append(@, call.trial)]
        /\ UNCHANGED <<backup, user, source>>
    BY <1>2, Zenon DEF InjectCombo, Inject
  <2>3. spec' \in SpecFile
    BY <1>0, <2>1, <2>2, InjectedSpec DEF SpecTypeOK
  <2> QED
    BY <1>0, <2>2, <2>3 DEF SpecTypeOK
<1>3. ASSUME NEW t, Restore(t) PROVE SpecTypeOK'
  BY <1>0, <1>3 DEF Restore, SpecTypeOK
<1>4. CASE RestoreSpec \/ DefensiveRestore
  BY <1>3, <1>4 DEF RestoreSpec, DefensiveRestore
<1>5. CASE UserSaves
  <2>1. user + 1 \in Version
    BY <1>0, <1>5, SpecAssumption DEF UserSaves, UserEdits, SpecTypeOK, Version
  <2> QED
    BY <1>0, <1>5, <2>1, TemplateIsSpec DEF UserSaves, UserEdits, SpecTypeOK
<1>6. CASE SourceTreeChanges
  BY <1>0, <1>6 DEF SourceTreeChanges, SourceChanges, SpecTypeOK, SourceTree
<1>7. CASE UNCHANGED specVars
  BY <1>0, <1>7 DEF specVars, SpecTypeOK
<1>8. \/ BackUp \/ InjectCombo \/ RestoreSpec \/ DefensiveRestore \/ UserSaves
      \/ SourceTreeChanges \/ UNCHANGED specVars
  BY DEF Next, Compile, Run, Recovery, World, BeginTrial, CheckpointTrial, CompileBegins,
         RefuseBackup, FindNoPlaceholder, BenchmarkBegins, Spawn, HashArtifact, ReadForScore,
         SpawnFails, CleanupFails, TraceStarted, CheckpointStarted, KillOnSpawnFailure,
         WorkerEnds, Verify, TraceResult, RejectRecord, CheckpointResult, WriteFails, Crash,
         Resume, CleanLease, CollectLeases, OrphanExits, ArtifactChanges, DoctorReads,
         DoctorReports, vars
<1> QED
  BY <1>1, <1>2, <1>4, <1>5, <1>6, <1>7, <1>8

\* Leases, workers and the artifact.
LEMMA WorkStep == Types /\ [Next]_vars => WorkTypes'
<1> SUFFICES ASSUME Types, [Next]_vars PROVE WorkTypes'
  OBVIOUS
<1>0. WorkTypes /\ call.ref \in Ref \cup {0}
  BY DEF Types, AgentTypes, Call
<1>1. CASE Spawn
  <2>1. spawned' \in Ref /\ spawned' \in 0 .. MaxSpawns
    BY <1>0, <1>1, TrialAssumption DEF Spawn, WorkTypes, Ref
  <2>2. lease' = With(lease, spawned', "running")
        /\ alive' = alive \cup {spawned'} /\ UNCHANGED artifact
    BY <1>1, Zenon DEF Spawn
  <2> QED
    BY <1>0, <2>1, <2>2 DEF WorkTypes, LeaseStatus, With
<1>2. ASSUME NEW r, NEW status \in LeaseStatus, lease' = [lease EXCEPT ![r] = status]
      PROVE  DOMAIN lease' \subseteq Ref /\ lease' \in [DOMAIN lease' -> LeaseStatus]
  BY <1>0, <1>2 DEF WorkTypes
<1>3. CASE KillOnSpawnFailure
  <2>1. PICK status \in {"ended", "unsafe_skip"} :
          /\ lease' = [lease EXCEPT ![call.ref] = status] /\ alive' \subseteq alive
          /\ UNCHANGED <<artifact, spawned>>
    BY <1>3 DEF KillOnSpawnFailure, Stopped
  <2> QED
    BY <1>0, <1>2, <2>1 DEF WorkTypes, LeaseStatus
<1>4. ASSUME NEW status \in {"ended", "unsafe_skip"}, NEW good \in BOOLEAN,
             WorkerEnds(status, good)
      PROVE  WorkTypes'
  <2>1. lease' = [lease EXCEPT ![call.ref] = status] /\ alive' \subseteq alive
        /\ artifact' \in Artifact /\ UNCHANGED spawned
    BY <1>0, <1>4 DEF WorkerEnds, Stopped, WorkTypes, Artifact
  <2> QED
    BY <1>0, <1>2, <2>1 DEF WorkTypes, LeaseStatus
<1>5. ASSUME NEW r \in Ref, CleanLease(r) PROVE WorkTypes'
  <2>1. lease' = [lease EXCEPT ![r] = "ended"] /\ alive' \subseteq alive
        /\ UNCHANGED <<artifact, spawned>>
    BY <1>5 DEF CleanLease
  <2> QED
    BY <1>0, <1>2, <2>1 DEF WorkTypes, LeaseStatus
<1>6. CASE CollectLeases
  <2>1. lease' = [x \in DOMAIN lease \cap alive |-> lease[x]]
        /\ UNCHANGED <<alive, artifact, spawned>>
    BY <1>6 DEF CollectLeases, Restrict
  <2> QED
    BY <1>0, <2>1 DEF WorkTypes
<1>7. ASSUME NEW r \in Ref, OrphanExits(r) PROVE WorkTypes'
  BY <1>0, <1>7 DEF OrphanExits, WorkTypes
<1>8. CASE ArtifactChanges
  BY <1>0, <1>8 DEF ArtifactChanges, WorkTypes, Artifact
<1>9. CASE CheckpointTrial
  BY <1>0, <1>9 DEF CheckpointTrial, WorkTypes, Artifact
<1>10. CASE UNCHANGED workers
  BY <1>0, <1>10 DEF workers, WorkTypes
<1>11. \/ Spawn \/ KillOnSpawnFailure \/ CollectLeases \/ ArtifactChanges \/ CheckpointTrial
       \/ (\E status \in {"ended", "unsafe_skip"}, good \in BOOLEAN : WorkerEnds(status, good))
       \/ (\E r \in Ref : CleanLease(r)) \/ (\E r \in Ref : OrphanExits(r))
       \/ UNCHANGED workers
  BY DEF Next, Compile, Run, Recovery, World, BeginTrial, CompileBegins, BackUp, RefuseBackup,
         InjectCombo, FindNoPlaceholder, BenchmarkBegins, HashArtifact, ReadForScore,
         SpawnFails, CleanupFails, TraceStarted, CheckpointStarted, RestoreSpec, Verify,
         TraceResult, RejectRecord, CheckpointResult, WriteFails, Crash, Resume,
         DefensiveRestore, UserSaves, SourceTreeChanges, DoctorReads, DoctorReports, vars,
         workers
<1> QED
  BY <1>1, <1>3, <1>4, <1>5, <1>6, <1>7, <1>8, <1>9, <1>10, <1>11

LEMMA Appending ==
    ASSUME NEW w \in Writer, NEW e \in Event, trace \in Seq(Event), Append1(w, e)
    PROVE  /\ trace' = Append(trace, e) /\ trace' \in Seq(Event)
           /\ writer' \in Writer /\ writer'.ledger = w.ledger
<1>1. trace' = Append(trace, e) /\ writer' = [w EXCEPT !.count = w.count + 1]
  BY Zenon DEF Append1
<1>2. w.count + 1 \in Nat
  BY DEF Writer
<1> QED
  BY <1>1, <1>2 DEF Writer

LEMMA Persisting ==
    ASSUME NEW c \in Checkpoint, writer \in Writer, Persist(c)
    PROVE  /\ disk' \in Checkpoint /\ disk'.trial = c.trial
           /\ writer' \in Writer /\ writer'.ledger = disk'
           /\ UNCHANGED <<trace, torn>>
<1>1. writer.count \in Nat
  BY DEF Writer
<1>2. disk' = [c EXCEPT !.count = writer.count] /\ writer' = [writer EXCEPT !.ledger = disk']
      /\ UNCHANGED <<trace, torn>>
  BY Zenon DEF Persist
<1>3. disk' \in Checkpoint /\ disk'.trial = c.trial
  BY <1>1, <1>2, CountedCheckpoint
<1> QED
  BY <1>2, <1>3 DEF Writer

LEMMA Attaching ==
    ASSUME NEW c \in Checkpoint, trace \in Seq(Event)
    PROVE  Attached(c) \in Writer /\ Attached(c).ledger = c
<1>1. Len(trace) \in Nat
  BY LenProperties
<1>2. c.count \in Nat \cup {Missing}
  BY DEF Checkpoint
<1> DEFINE n == IF c.count = Missing THEN Len(trace) ELSE c.count
<1>3. n \in Nat
  BY <1>1, <1>2, Zenon
<1>4. Attached(c) = [count |-> n, ledger |-> c]
  BY Zenon DEF Attached
<1> HIDE DEF n
<1> QED
  BY <1>3, <1>4 DEF Writer

LEMMA Statuses ==
    /\ "running" \in OperationStatus
    /\ FinalStatus \in OperationStatus
  BY DEF FinalStatus, OperationStatus

LEMMA Raising ==
    ASSUME AgentTypes, Current, Raise, pc # "dead", disk' = disk
    PROVE  AgentTypes' /\ Current'
<1>1. CASE call.op = "compile" /\ pc \in {"inject", "spawn", "spawned", "started", "waiting"}
  <2>1. pc' = "restore" /\ call' = [call EXCEPT !.failed = TRUE]
        /\ mine' = mine /\ writer' = writer
    BY <1>1, Zenon DEF Raise
  <2>2. call' \in Call /\ call'.op = call.op /\ call'.trial = call.trial
    BY <2>1, FailedCall DEF AgentTypes
  <2> QED
    BY <1>1, <2>1, <2>2 DEF AgentTypes, Current, Steps, Written
<1>2. CASE ~ (call.op = "compile" /\ pc \in {"inject", "spawn", "spawned", "started", "waiting"})
  <2>1. pc' = "idle" /\ call' = NoCall /\ writer' = NoWriter /\ mine' = mine
    BY <1>2, Zenon DEF Raise, CallEnds
  <2>2. NoWriter \in Writer
    BY DEF NoWriter, Writer
  <2> QED
    BY <2>1, <2>2, NoCallIsCall DEF AgentTypes, Current, Steps, Written
<1> QED
  BY <1>1, <1>2

LEMMA WritingOperation ==
    ASSUME Types, CheckpointStarted \/ CheckpointResult
    PROVE  /\ pc \in {"started", "recorded"}
           /\ disk' \in Checkpoint /\ disk'.trial = disk.trial
           /\ writer' \in Writer /\ writer'.ledger = disk'
           /\ UNCHANGED <<trace, torn>>
<1>0. AgentTypes /\ Current /\ writer \in Writer
  BY DEF Types, AgentTypes
<1>1. PICK status \in OperationStatus :
        pc \in {"started", "recorded"} /\ Persist(WithOperation(writer.ledger, status))
  <2>1. CASE CheckpointStarted
    BY <2>1, Statuses, Zenon DEF CheckpointStarted
  <2>2. CASE CheckpointResult
    BY <2>2, Statuses, Zenon DEF CheckpointResult
  <2> QED
    BY <2>1, <2>2
<1>2. WithOperation(writer.ledger, status) \in Checkpoint
      /\ WithOperation(writer.ledger, status).trial = writer.ledger.trial
  BY <1>0, <1>1, OperationCheckpoint DEF AgentTypes, Written
<1>3. writer.ledger.trial = disk.trial
  BY <1>0, <1>1 DEF Current, Written
<1> QED
  BY <1>0, <1>1, <1>2, <1>3, Persisting

\* The trace, the checkpoint and the agent, whose call is for the trial in it.
LEMMA JournalStep == Types /\ [Next]_vars => JournalTypes' /\ AgentTypes' /\ Current'
<1> SUFFICES ASSUME Types, [Next]_vars PROVE JournalTypes' /\ AgentTypes' /\ Current'
  OBVIOUS
<1>0. JournalTypes /\ AgentTypes /\ Current /\ SpecTypeOK /\ WorkTypes
  BY DEF Types
<1>a. trace \in Seq(Event) /\ torn \in BOOLEAN /\ disk \in Checkpoint
  BY <1>0 DEF JournalTypes
<1>b. call \in Call /\ mine \in Checkpoint \cup {NoCheckpoint} /\ writer \in Writer
  BY <1>0 DEF AgentTypes
<1>c. NoWriter \in Writer
  BY DEF NoWriter, Writer
<1>1. ASSUME NEW t \in Trial, BeginTrial(t) PROVE JournalTypes' /\ AgentTypes' /\ Current'
  <2> DEFINE e == [kind |-> "trial_start", trial |-> t, ref |-> 0, good |-> TRUE,
                   measured |-> "none", raced |-> FALSE]
  <2>1. pc = "idle" /\ pc' = "begun" /\ Append1(Attached(mine), e) /\ mine' = mine
        /\ call' = [NoCall EXCEPT !.op = "start", !.trial = t]
        /\ UNCHANGED <<torn, disk>>
    BY <1>1, Zenon DEF BeginTrial
  <2>2. e \in Event
    BY StartEventIsEvent
  <2> HIDE DEF e
  <2>3. mine \in Checkpoint
    BY <1>0, <2>1 DEF AgentTypes
  <2>4. trace' \in Seq(Event) /\ writer' \in Writer
    BY <1>a, <2>1, <2>2, <2>3, Attaching, Appending
  <2>5. call' \in Call /\ call'.trial = t
    BY <2>1, StartCall
  <2> QED
    BY <1>0, <2>1, <2>3, <2>4, <2>5 DEF JournalTypes, AgentTypes, Current, Steps, Written
<1>2. CASE CheckpointTrial
  <2> DEFINE c == [mine EXCEPT !.trial = call.trial, !.start = writer.count,
                               !.operations = << >>]
  <2>1. pc = "begun" /\ pc' = "idle" /\ Persist(c) /\ mine' = disk' /\ call' = NoCall
    BY <1>2, Zenon DEF CheckpointTrial, CallEnds
  <2>2. mine \in Checkpoint /\ call.trial \in Trial /\ writer.count \in Nat
    BY <1>0, <2>1 DEF AgentTypes, Writer
  <2>3. c \in Checkpoint
    BY <2>2, TrialCheckpoint, Zenon
  <2> HIDE DEF c
  <2>4. disk' \in Checkpoint /\ writer' \in Writer /\ UNCHANGED <<trace, torn>>
    BY <1>b, <2>1, <2>3, Persisting
  <2> QED
    BY <1>a, <2>1, <2>4, NoCallIsCall DEF JournalTypes, AgentTypes, Current, Steps, Written
<1>3. CASE CompileBegins
  <2>1. pc = "idle" /\ pc' = "backup" /\ mine.trial # NoTrial
        /\ call' = [NoCall EXCEPT !.op = "compile", !.trial = mine.trial, !.pre = Snapshot]
        /\ UNCHANGED <<mine, writer>> /\ UNCHANGED <<trace, torn, disk>>
    BY <1>3, Zenon DEF CompileBegins, journal
  <2>2. mine \in Checkpoint
    BY <1>0, <2>1 DEF AgentTypes
  <2>3. mine.trial \in Trial
    BY <2>1, <2>2 DEF Checkpoint
  <2>4. call' \in Call /\ call'.op = "compile" /\ call'.trial = mine.trial
    BY <1>0, <2>1, <2>3, CompileCall
  <2> QED
    BY <1>0, <2>1, <2>2, <2>3, <2>4 DEF JournalTypes, AgentTypes, Current, Steps, Written
<1>4. CASE BackUp
  <2>1. pc = "backup" /\ pc' = "inject" /\ writer' = Attached(mine)
        /\ UNCHANGED <<call, mine>> /\ UNCHANGED <<trace, torn, disk>>
    BY <1>4, Zenon DEF BackUp, journal
  <2>2. mine \in Checkpoint
    BY <1>0, <2>1 DEF AgentTypes
  <2>3. writer' \in Writer /\ writer'.ledger = mine
    BY <1>a, <2>1, <2>2, Attaching
  <2> QED
    BY <1>0, <1>a, <2>1, <2>2, <2>3 DEF JournalTypes, AgentTypes, Current, Steps, Written
<1>5. CASE BenchmarkBegins
  <2>1. pc = "idle" /\ pc' \in {"hash", "result"} /\ mine.trial # NoTrial
        /\ call' = [NoCall EXCEPT !.op = "benchmark", !.trial = mine.trial]
        /\ writer' = Attached(mine)
        /\ UNCHANGED mine /\ UNCHANGED <<trace, torn, disk>>
    BY <1>5 DEF BenchmarkBegins, journal
  <2>2. mine \in Checkpoint
    BY <1>0, <2>1 DEF AgentTypes
  <2>3. mine.trial \in Trial
    BY <2>1, <2>2 DEF Checkpoint
  <2>4. call' \in Call /\ call'.op = "benchmark" /\ call'.trial = mine.trial
    BY <2>1, <2>3, StartCall
  <2>5. writer' \in Writer /\ writer'.ledger = mine
    BY <1>a, <2>1, <2>2, Attaching
  <2> QED
    BY <1>0, <2>1, <2>2, <2>3, <2>4, <2>5 DEF JournalTypes, AgentTypes, Current, Steps, Written
<1>6. CASE Spawn
  <2>1. pc = "spawn" /\ pc' = "spawned" /\ UNCHANGED <<mine, writer>>
        /\ UNCHANGED <<trace, torn, disk>> /\ spawned' = spawned + 1 /\ spawned < MaxSpawns
        /\ call' = [call EXCEPT !.ref = spawned', !.refs = @ \cup {spawned'}]
    BY <1>6, Zenon DEF Spawn, journal
  <2>2. PICK r : r = spawned'
    OBVIOUS
  <2>3. r \in Ref
    BY <1>0, <2>1, <2>2, TrialAssumption DEF WorkTypes, Ref
  <2>4. call' = [call EXCEPT !.ref = r, !.refs = @ \cup {r}]
    BY <2>1, <2>2, Zenon
  <2>5. call' \in Call /\ call'.op = call.op /\ call'.trial = call.trial
    BY <1>b, <2>3, <2>4 DEF Call
  <2> QED
    BY <1>0, <2>1, <2>5 DEF JournalTypes, AgentTypes, Current, Steps, Written
<1>7. CASE TraceStarted \/ TraceResult
  <2>1. PICK kind \in {"process_started", "compile_result", "benchmark_run_result"} :
          /\ pc \in {"spawned", "result"} /\ pc' \in {"started", "recorded"}
          /\ Append1(writer, CallEvent(kind))
          /\ UNCHANGED <<call, mine>> /\ UNCHANGED <<torn, disk>>
    <3>1. CASE TraceStarted
      BY <3>1 DEF TraceStarted
    <3>2. CASE TraceResult /\ call.op = "compile"
      BY <3>2 DEF TraceResult
    <3>3. CASE TraceResult /\ call.op # "compile"
      BY <3>3 DEF TraceResult
    <3> QED
      BY <1>7, <3>1, <3>2, <3>3
  <2>2. CallEvent(kind) \in Event
    BY <1>0, <2>1, CallEventIsEvent DEF AgentTypes, Written
  <2>3. trace' \in Seq(Event) /\ writer' \in Writer /\ writer'.ledger = writer.ledger
    BY <1>a, <1>b, <2>1, <2>2, Appending
  <2> QED
    BY <1>0, <2>1, <2>3 DEF JournalTypes, AgentTypes, Current, Steps, Written
<1>8. CASE CheckpointStarted \/ CheckpointResult
  <2>1. pc \in {"started", "recorded"}
        /\ disk' \in Checkpoint /\ disk'.trial = disk.trial
        /\ writer' \in Writer /\ writer'.ledger = disk'
        /\ UNCHANGED <<trace, torn>>
    BY <1>8, WritingOperation
  <2>4. CASE CheckpointStarted
    <3>1. pc' = "waiting" /\ UNCHANGED <<call, mine>>
      BY <2>4, Zenon DEF CheckpointStarted
    <3> QED
      BY <1>0, <2>1, <3>1 DEF JournalTypes, AgentTypes, Current, Steps, Written
  <2>5. CASE CheckpointResult /\ MoreRuns
    <3>1. pc' = "hash" /\ call' = [call EXCEPT !.index = @ + 1, !.good = FALSE]
          /\ mine' = mine
      BY <2>5, Zenon DEF CheckpointResult
    <3>2. call' \in Call /\ call'.op = call.op /\ call'.trial = call.trial
      BY <1>b, <2>5, <3>1, NextRunCall DEF MoreRuns
    <3> QED
      BY <1>0, <2>1, <2>5, <3>1, <3>2
         DEF JournalTypes, AgentTypes, Current, Steps, Written, MoreRuns
  <2>6. CASE CheckpointResult /\ ~MoreRuns
    <3>1. pc' = "idle" /\ call' = NoCall /\ mine' = disk'
      BY <2>6, Zenon DEF CheckpointResult, CallEnds
    <3> QED
      BY <1>0, <2>1, <3>1, NoCallIsCall DEF JournalTypes, AgentTypes, Current, Steps, Written
  <2> QED
    BY <1>8, <2>4, <2>5, <2>6
<1>9. ASSUME NEW status, NEW good \in BOOLEAN, WorkerEnds(status, good)
      PROVE  JournalTypes' /\ AgentTypes' /\ Current'
  <2>1. pc = "waiting" /\ pc' \in {"restore", "result"} /\ UNCHANGED <<mine, writer>>
        /\ (pc' = "restore" => call.op = "compile")
        /\ UNCHANGED <<trace, torn, disk>> /\ call' = [call EXCEPT !.good = good]
    BY <1>9 DEF WorkerEnds, journal
  <2>2. call' \in Call /\ call'.op = call.op /\ call'.trial = call.trial
    BY <1>b, <2>1, EndedCall
  <2> QED
    BY <1>0, <2>1, <2>2 DEF JournalTypes, AgentTypes, Current, Steps, Written
<1>10. CASE pc # "dead" /\ Raise /\ UNCHANGED journal
  BY <1>0, <1>10, Raising DEF JournalTypes, journal
<1>11. CASE /\ \/ pc = "inject" /\ pc' = "spawn"
               \/ pc = "restore" /\ pc' = "verify"
               \/ pc = "verify" /\ pc' = "result"
            /\ UNCHANGED <<call, mine, writer>> /\ UNCHANGED journal
  BY <1>0, <1>11 DEF JournalTypes, AgentTypes, Current, Steps, Written, journal
<1>12. CASE RefuseBackup
  <2>1. pc = "backup" /\ pc' = "idle" /\ call' = NoCall /\ UNCHANGED <<mine, writer>>
        /\ UNCHANGED <<trace, torn, disk>>
    BY <1>12, Zenon DEF RefuseBackup, CallEnds, journal
  <2> QED
    BY <1>0, <2>1, NoCallIsCall DEF JournalTypes, AgentTypes, Current, Steps, Written
<1>13. CASE Crash
  <2>1. torn' \in BOOLEAN
    BY <1>a, <1>13 DEF Crash
  <2>2. pc' = "dead" /\ call' = NoCall /\ mine' = NoCheckpoint /\ writer' = NoWriter
        /\ UNCHANGED <<trace, disk>>
    BY <1>13, Zenon DEF Crash
  <2> QED
    BY <1>a, <1>c, <2>1, <2>2, NoCallIsCall DEF JournalTypes, AgentTypes, Current, Steps, Written
<1>14. CASE Resume
  <2>1. mine' = [disk EXCEPT !.count = Len(trace)] /\ pc' = "idle"
        /\ UNCHANGED <<call, writer>> /\ UNCHANGED <<trace, torn, disk>>
    BY <1>14, Zenon DEF Resume, Reconciled, journal
  <2>2. mine' \in Checkpoint /\ mine'.trial = disk.trial
    BY <1>a, <2>1, LenProperties, CountedCheckpoint
  <2> QED
    BY <1>a, <1>b, <2>1, <2>2 DEF JournalTypes, AgentTypes, Current, Steps, Written
<1>15. CASE UNCHANGED journal /\ UNCHANGED agent
  BY <1>0, <1>15 DEF JournalTypes, AgentTypes, Current, journal, agent
<1>16. CASE InjectCombo \/ RestoreSpec \/ Verify
  <2>1. CASE InjectCombo
    BY <1>11, <2>1, Zenon DEF InjectCombo, workers
  <2>2. CASE RestoreSpec
    BY <1>11, <2>2, Zenon DEF RestoreSpec
  <2>3. CASE Verify
    <3>1. pc = "verify" /\ pc # "dead"
      BY <2>3 DEF Verify
    <3> QED
      BY <1>10, <1>11, <2>3, <3>1, Zenon DEF Verify
  <2> QED
    BY <1>16, <2>1, <2>2, <2>3
<1>17. CASE FindNoPlaceholder \/ SpawnFails \/ CleanupFails \/ KillOnSpawnFailure \/ RejectRecord
            \/ WriteFails
  <2>1. pc # "dead"
    BY <1>17
       DEF FindNoPlaceholder, SpawnFails, CleanupFails, KillOnSpawnFailure, RejectRecord,
           WriteFails
  <2>2. Raise /\ UNCHANGED journal
    BY <1>17, Zenon
       DEF FindNoPlaceholder, SpawnFails, CleanupFails, KillOnSpawnFailure, RejectRecord,
           WriteFails
  <2> QED
    BY <1>10, <2>1, <2>2
<1>18. CASE \/ DefensiveRestore \/ (\E r \in Ref : CleanLease(r)) \/ CollectLeases
            \/ (\E r \in Ref : OrphanExits(r)) \/ UserSaves \/ SourceTreeChanges
            \/ DoctorReads \/ DoctorReports \/ UNCHANGED vars
  <2>1. UNCHANGED journal /\ UNCHANGED agent
    BY <1>18, Zenon
       DEF DefensiveRestore, CleanLease, CollectLeases, OrphanExits,
           UserSaves, SourceTreeChanges, DoctorReads, DoctorReports, vars
  <2> QED
    BY <1>15, <2>1
<1>19. CASE HashArtifact \/ ReadForScore \/ ArtifactChanges
  <2>1. /\ \/ pc \in {"hash", "read"} /\ pc' \in {"read", "spawn"}
           \/ pc' = pc
        /\ UNCHANGED <<mine, writer>> /\ UNCHANGED journal
    BY <1>19 DEF HashArtifact, ReadForScore, ArtifactChanges
  <2>2. call' \in Call /\ call'.op = call.op /\ call'.trial = call.trial
    BY <1>19, LookedAtCall, <1>0, <1>b DEF WorkTypes
  <2>3. pc # "begun" \/ pc' = "begun"
    BY <2>1
  <2> QED
    BY <1>0, <2>1, <2>2, <2>3 DEF JournalTypes, AgentTypes, Current, Steps, Written, journal
<1> QED
  BY <1>1, <1>2, <1>3, <1>4, <1>5, <1>6, <1>7, <1>8, <1>9, <1>12, <1>13, <1>14, <1>16,
     <1>17, <1>18, <1>19, Zenon DEF Next, Compile, Run, Recovery, World

LEMMA BoundStep == Types /\ [Next]_vars => BoundTypes'
<1> SUFFICES ASSUME Types, [Next]_vars PROVE BoundTypes'
  OBVIOUS
<1>0. BoundTypes
  BY DEF Types
<1>1. CASE Fault /\ UNCHANGED doctor
  <2>1. faults < MaxFaults /\ faults' = faults + 1 /\ doctor' = doctor
    BY <1>1, Zenon DEF Fault
  <2> QED
    BY <1>0, <2>1, TrialAssumption DEF BoundTypes
<1>2. CASE DoctorReads
  <2>1. PICK files : doctor' = [read |-> doctor.read + 1, files |-> files]
    BY <1>2, Zenon DEF DoctorReads
  <2>2. doctor.read < 6 /\ faults' = faults
    BY <1>2 DEF DoctorReads, ReadOrder
  <2> QED
    BY <1>0, <2>1, <2>2 DEF BoundTypes
<1>3. CASE DoctorReports
  BY <1>0, <1>3 DEF DoctorReports, BoundTypes
<1>4. CASE UNCHANGED <<faults, doctor>>
  BY <1>0, <1>4 DEF BoundTypes
<1>5. (Fault /\ UNCHANGED doctor) \/ DoctorReads \/ DoctorReports \/ UNCHANGED <<faults, doctor>>
  BY Zenon
     DEF Next, Compile, Run, Recovery, World, BeginTrial, CheckpointTrial, CompileBegins,
         BackUp, RefuseBackup, InjectCombo, FindNoPlaceholder, BenchmarkBegins, Spawn,
         HashArtifact, ReadForScore, SpawnFails, CleanupFails, TraceStarted, CheckpointStarted,
         KillOnSpawnFailure, WorkerEnds, RestoreSpec, Verify, TraceResult, RejectRecord,
         CheckpointResult, WriteFails, Crash, Resume, DefensiveRestore, CleanLease,
         CollectLeases, OrphanExits, ArtifactChanges, UserSaves, SourceTreeChanges, vars
<1> QED
  BY <1>1, <1>2, <1>3, <1>4, <1>5

\* Every variable keeps its type, for any number of trials, workers and faults.
THEOREM TrialTypes == Spec => []TrialTypeOK
<1>1. Types /\ [Next]_vars => Types'
  BY SpecStep, WorkStep, JournalStep, BoundStep DEF Types
<1>2. Types => TrialTypeOK
  BY DEF Types, JournalTypes, WorkTypes, AgentTypes, BoundTypes, TrialTypeOK, Writer
<1> QED
  BY TypesInit, <1>1, <1>2, PTL DEF Spec

-----------------------------------------------------------------------------
(* What is left of the user's template *)

\* The trial has an event in the trace.
Known(t) == \E i \in DOMAIN trace : trace[i].trial = t

\* A backup is the template the user saved last.
Kept == \E t \in DOMAIN backup : backup[t] = Template(user)

\* While the trial in the checkpoint has a backup, the template is kept, and a
\* trial that begins has none.
Recoverable ==
    /\ OriginalRecoverable
    /\ disk.trial \in DOMAIN backup => Kept
    /\ \A t \in DOMAIN backup : Known(t)
    /\ disk.trial # NoTrial => Known(disk.trial)
    /\ pc = "begun" => call.trial \notin DOMAIN backup /\ Known(call.trial)
    /\ pc = "inject" => call.trial \in DOMAIN backup

LEMMA KnownStays ==
    ASSUME Types, [Next]_vars
    PROVE  \A t : Known(t) => Known(t)'
<1>1. CASE trace' = trace
  BY <1>1 DEF Known
<1>2. CASE \E e : trace' = Append(trace, e)
  <2>1. trace \in Seq(Event)
    BY DEF Types, JournalTypes
  <2>2. PICK e : trace' = Append(trace, e)
    BY <1>2
  <2>3. \A i \in DOMAIN trace : i \in DOMAIN trace' /\ trace'[i] = trace[i]
    BY <2>1, <2>2
  <2> QED
    BY <2>3 DEF Known
<1>3. trace' = trace \/ \E e : trace' = Append(trace, e)
  <2>1. CASE \E w, e : Append1(w, e)
    BY <2>1 DEF Append1
  <2>2. CASE \E c : Persist(c)
    BY <2>2 DEF Persist
  <2>3. CASE UNCHANGED trace
    BY <2>3
  <2>4. (\E w, e : Append1(w, e)) \/ (\E c : Persist(c)) \/ UNCHANGED trace
    BY Zenon
       DEF Next, Compile, Run, Recovery, World, BeginTrial, CheckpointTrial, CompileBegins,
           BackUp, RefuseBackup, InjectCombo, FindNoPlaceholder, BenchmarkBegins, Spawn,
           HashArtifact, ReadForScore, SpawnFails, CleanupFails, TraceStarted,
           CheckpointStarted, KillOnSpawnFailure, WorkerEnds, RestoreSpec, Verify, TraceResult,
           RejectRecord, CheckpointResult, WriteFails, Crash, Resume, DefensiveRestore,
           CleanLease, CollectLeases, OrphanExits, ArtifactChanges, UserSaves,
           SourceTreeChanges, DoctorReads, DoctorReports, vars, journal
  <2> QED
    BY <2>1, <2>2, <2>3, <2>4
<1> QED
  BY <1>1, <1>2, <1>3

LEMMA BegunIsKnown ==
    ASSUME NEW t \in Trial, trace \in Seq(Event), NEW e, e.trial = t,
           trace' = Append(trace, e)
    PROVE  Known(t)'
<1>1. Len(trace) + 1 \in DOMAIN trace' /\ trace'[Len(trace) + 1] = e
  OBVIOUS
<1> QED
  BY <1>1 DEF Known

LEMMA RecoverableInit == Init => Recoverable
<1> SUFFICES ASSUME Init PROVE Recoverable
  OBVIOUS
<1>1. spec = Template(user) /\ DOMAIN backup = {}
  BY DEF Init, SpecInit
<1>2. disk.trial = NoTrial /\ pc = "idle"
  BY DEF Init
<1> QED
  BY <1>1, <1>2 DEF Recoverable, OriginalRecoverable

\* What a step does with the template and its backups.
LEMMA RecoverableStep == Types /\ Recoverable /\ [Next]_vars => Recoverable'
<1> SUFFICES ASSUME Types, Recoverable, [Next]_vars PROVE Recoverable'
  OBVIOUS
<1>0. /\ SpecTypeOK /\ JournalTypes /\ AgentTypes /\ Current
      /\ (disk.trial \in Trial \cup {NoTrial}) /\ (mine \in Checkpoint \/ pc = "dead")
  BY DEF Types, JournalTypes, AgentTypes, Checkpoint
<1>a. \A t : Known(t) => Known(t)'
  BY KnownStays
<1>b. NoTrial \notin DOMAIN backup
  BY <1>0, TrialAssumption DEF SpecTypeOK
<1>1. CASE /\ UNCHANGED <<spec, backup, user>> /\ disk'.trial = disk.trial
           /\ pc' \notin {"begun", "inject"} \/ UNCHANGED <<pc, call>>
  <2>1. Kept' = Kept /\ OriginalRecoverable' = OriginalRecoverable
    BY <1>1 DEF Kept, OriginalRecoverable
  <2> QED
    BY <1>1, <1>a, <2>1 DEF Recoverable
<1>2. ASSUME NEW t \in Trial, BeginTrial(t) PROVE Recoverable'
  <2> DEFINE e == [kind |-> "trial_start", trial |-> t, ref |-> 0, good |-> TRUE,
                   measured |-> "none", raced |-> FALSE]
  <2>1. pc' = "begun" /\ Append1(Attached(mine), e) /\ ~Known(t) /\ UNCHANGED <<specVars, disk>>
        /\ call' = [NoCall EXCEPT !.op = "start", !.trial = t]
    BY <1>2, Zenon DEF BeginTrial, Known
  <2>2. trace' = Append(trace, e) /\ e.trial = t
    BY <2>1 DEF Append1
  <2>3. Known(t)' /\ call'.trial = t
    BY <1>0, <2>1, <2>2, BegunIsKnown, StartCall DEF JournalTypes
  <2>4. UNCHANGED <<spec, backup, user>>
    BY <2>1 DEF specVars
  <2>5. Kept' = Kept /\ OriginalRecoverable' = OriginalRecoverable
    BY <2>4 DEF Kept, OriginalRecoverable
  <2>6. t \notin DOMAIN backup
    BY <2>1 DEF Recoverable
  <2> QED
    BY <1>a, <2>1, <2>3, <2>4, <2>5, <2>6 DEF Recoverable
<1>3. CASE CheckpointTrial
  <2> DEFINE c == [mine EXCEPT !.trial = call.trial, !.start = writer.count,
                               !.operations = << >>]
  <2>1. pc = "begun" /\ pc' = "idle" /\ Persist(c) /\ UNCHANGED specVars
    BY <1>3, Zenon DEF CheckpointTrial, CallEnds
  <2>2. mine \in Checkpoint /\ call.trial \in Trial /\ writer \in Writer
        /\ writer.count \in Nat
    BY <1>0, <2>1 DEF AgentTypes, Writer
  <2>3. c \in Checkpoint /\ c.trial = call.trial
    BY <2>2, TrialCheckpoint, Zenon
  <2> HIDE DEF c
  <2>4. disk'.trial = call.trial
    BY <2>1, <2>2, <2>3, Persisting
  <2>5. UNCHANGED <<spec, backup, user>>
    BY <2>1 DEF specVars
  <2>6. Kept' = Kept /\ OriginalRecoverable' = OriginalRecoverable
    BY <2>5 DEF Kept, OriginalRecoverable
  <2> QED
    BY <1>a, <2>1, <2>4, <2>5, <2>6 DEF Recoverable
<1>4. CASE BackUp
  <2>1. pc = "backup" /\ pc' = "inject" /\ TakeBackup(call.trial)
        /\ UNCHANGED <<call, disk>>
    BY <1>4, Zenon DEF BackUp, journal
  <2>2. call.trial \in Trial /\ call.trial = disk.trial
    BY <1>0, <2>1 DEF AgentTypes, Current
  <2>3. backup' = With(backup, call.trial, spec) /\ UNCHANGED <<spec, user>>
        /\ (call.trial \in DOMAIN backup => backup[call.trial] = spec)
    BY <2>1 DEF TakeBackup, BackupRefused
  <2>4. DOMAIN backup' = DOMAIN backup \cup {call.trial}
        /\ backup'[call.trial] = spec
        /\ \A t \in DOMAIN backup : backup'[t] = backup[t]
    BY <2>3 DEF With
  <2>5. Kept'
    BY <2>3, <2>4 DEF Recoverable, OriginalRecoverable, Kept
  <2>6. Known(disk.trial)
    BY <2>2, TrialAssumption DEF Recoverable
  <2> QED
    BY <1>a, <2>1, <2>2, <2>4, <2>5, <2>6 DEF Recoverable, OriginalRecoverable, Kept
<1>5. CASE InjectCombo
  <2>1. pc = "inject" /\ pc' = "spawn" /\ UNCHANGED <<call, disk, backup, user>>
    BY <1>5, Zenon DEF InjectCombo, Inject, journal
  <2>2. Kept
    BY <1>0, <2>1 DEF Recoverable, Current, Written
  <2>3. Kept'
    BY <2>1, <2>2 DEF Kept
  <2> QED
    BY <1>a, <2>1, <2>3 DEF Recoverable, OriginalRecoverable, Kept
<1>6. CASE RestoreSpec \/ DefensiveRestore
  <2>1. disk.trial \in DOMAIN backup
    <3>1. CASE RestoreSpec
      BY <1>0, <3>1 DEF RestoreSpec, Restore, Current, Written
    <3>2. CASE DefensiveRestore
      BY <3>2 DEF DefensiveRestore, Restore
    <3> QED
      BY <1>6, <3>1, <3>2
  <2>2. UNCHANGED <<backup, user, disk>> /\ pc' \notin {"begun", "inject"}
    BY <1>6 DEF RestoreSpec, DefensiveRestore, Restore, journal, agent
  <2>3. Kept /\ Kept' = Kept
    BY <2>1, <2>2 DEF Recoverable, Kept
  <2> QED
    BY <1>a, <2>2, <2>3 DEF Recoverable, OriginalRecoverable, Kept
<1>7. CASE UserSaves
  <2>1. pc = "idle" /\ disk.trial \notin DOMAIN backup /\ spec' = Template(user + 1)
        /\ user' = user + 1 /\ UNCHANGED <<backup, disk, pc>>
    BY <1>7 DEF UserSaves, UserEdits, journal, agent
  <2>2. spec' = Template(user')
    BY <2>1
  <2>3. OriginalRecoverable'
    BY <2>2, Zenon DEF OriginalRecoverable, Template
  <2> QED
    BY <1>a, <2>1, <2>3 DEF Recoverable
<1>8. CASE CheckpointStarted \/ CheckpointResult
  <2>1. disk'.trial = disk.trial
    BY <1>8, WritingOperation
  <2>2. UNCHANGED specVars /\ pc' \notin {"begun", "inject"}
    BY <1>8 DEF CheckpointStarted, CheckpointResult, CallEnds
  <2> QED
    BY <1>1, <2>1, <2>2 DEF specVars
<1>9. CASE Raise /\ UNCHANGED <<specVars, journal>>
  <2>1. pc' \notin {"begun", "inject"}
    BY <1>9 DEF Raise, CallEnds
  <2> QED
    BY <1>1, <1>9, <2>1 DEF specVars, journal
<1>10. CASE Verify
  BY <1>1, <1>9, <1>10 DEF Verify, specVars, journal
<1>11. CASE FindNoPlaceholder \/ SpawnFails \/ CleanupFails \/ KillOnSpawnFailure \/ RejectRecord
             \/ WriteFails
  BY <1>9, <1>11, Zenon
     DEF FindNoPlaceholder, SpawnFails, CleanupFails, KillOnSpawnFailure, RejectRecord, WriteFails
<1>12. CASE \/ CompileBegins \/ RefuseBackup \/ BenchmarkBegins \/ HashArtifact \/ ReadForScore
            \/ Spawn \/ TraceStarted \/ TraceResult \/ Crash \/ Resume
            \/ (\E status \in {"ended", "unsafe_skip"}, good \in BOOLEAN :
                    WorkerEnds(status, good))
  <2>1. UNCHANGED specVars /\ disk' = disk /\ pc' \notin {"begun", "inject"}
    BY <1>12
       DEF CompileBegins, RefuseBackup, BenchmarkBegins, HashArtifact, ReadForScore, Spawn,
           TraceStarted, TraceResult, Crash, Resume, WorkerEnds, CallEnds, journal
  <2> QED
    BY <1>1, <2>1 DEF specVars
<1>13. CASE \/ (\E r \in Ref : CleanLease(r)) \/ CollectLeases
            \/ (\E r \in Ref : OrphanExits(r)) \/ SourceTreeChanges
            \/ DoctorReads \/ DoctorReports \/ UNCHANGED vars
  <2>1. UNCHANGED <<spec, backup, user>> /\ disk' = disk /\ UNCHANGED <<pc, call>>
    BY <1>13
       DEF CleanLease, CollectLeases, OrphanExits, SourceTreeChanges,
           SourceChanges, DoctorReads, DoctorReports, vars, specVars, journal, agent
  <2> QED
    BY <1>1, <2>1
<1>14. CASE ArtifactChanges
  <2>1. UNCHANGED specVars /\ disk' = disk /\ (pc = "idle" \/ call.op = "benchmark")
        /\ pc' = pc
    BY <1>14 DEF ArtifactChanges, journal
  <2>2. call'.trial = call.trial
    BY <1>0, <1>14, LookedAtCall DEF AgentTypes, Types, WorkTypes
  <2>3. Kept' = Kept /\ OriginalRecoverable' = OriginalRecoverable
    BY <2>1 DEF Kept, OriginalRecoverable, specVars
  <2> QED
    BY <1>a, <2>1, <2>2, <2>3 DEF Recoverable, specVars
<1> QED
  BY <1>2, <1>3, <1>4, <1>5, <1>6, <1>7, <1>8, <1>10, <1>11, <1>12, <1>13, <1>14, Zenon
     DEF Next, Compile, Run, Recovery, World

\* Whatever fails and wherever the agent dies, the template the user saved last
\* is the spec or a backup.
THEOREM TemplateSurvives == Spec => []OriginalRecoverable
<1>1. Types /\ [Next]_vars => Types'
  BY SpecStep, WorkStep, JournalStep, BoundStep DEF Types
<1>2. Recoverable => OriginalRecoverable
  BY DEF Recoverable
<1> QED
  BY TypesInit, RecoverableInit, RecoverableStep, <1>1, <1>2, PTL DEF Spec

-----------------------------------------------------------------------------
(* What a worker compiles *)

\* The spec, and the backup of the trial in the checkpoint, are of the version
\* the user saved last; a template of one spelling has one injection in it while
\* a compile goes on.
Faithful ==
    /\ spec.version = user
    /\ disk.trial \in DOMAIN backup => backup[disk.trial].version = user
    /\ call.op = "compile" /\ pc \in {"spawn", "spawned", "started", "waiting"}
           /\ Spellings[spec.version] = 1
       => spec = [version |-> user, injected |-> <<call.trial>>]

LEMMA FaithfulInit == Init => Faithful
<1> SUFFICES ASSUME Init PROVE Faithful
  OBVIOUS
<1>1. spec.version = user /\ DOMAIN backup = {} /\ pc = "idle"
  BY DEF Init, SpecInit, Template
<1> QED
  BY <1>1 DEF Faithful

\* The injection finds a placeholder, so the only spelling is still there.
LEMMA InjectingOnce ==
    ASSUME NEW s \in SpecFile, NEW t \in Trial, Len(s.injected) < 1
    PROVE  [s EXCEPT !.injected = Append(@, t)] = [version |-> s.version, injected |-> <<t>>]
<1>1. s.injected \in Seq(Trial) /\ s = [version |-> s.version, injected |-> s.injected]
  BY DEF SpecFile
<1>2. Append(s.injected, t) = <<t>>
  <2>1. s.injected = << >>
    BY <1>1
  <2> QED
    BY <2>1
<1> QED
  BY <1>1, <1>2

LEMMA FaithfulStep == Types /\ Recoverable /\ Faithful /\ [Next]_vars => Faithful'
<1> SUFFICES ASSUME Types, Recoverable, Faithful, [Next]_vars PROVE Faithful'
  OBVIOUS
<1>0. /\ SpecTypeOK /\ JournalTypes /\ AgentTypes /\ Current
      /\ call \in Call /\ (mine \in Checkpoint \/ pc = "dead") /\ spec \in SpecFile
  BY DEF Types, AgentTypes, SpecTypeOK
<1> DEFINE building == {"spawn", "spawned", "started", "waiting"}
<1>1. CASE /\ UNCHANGED <<spec, backup, user>> /\ disk'.trial = disk.trial
           /\ \/ pc' \notin building
              \/ call'.op # "compile"
              \/ pc \in building /\ call'.op = call.op /\ call'.trial = call.trial
  BY <1>1 DEF Faithful
<1>2. CASE CheckpointTrial
  <2> DEFINE c == [mine EXCEPT !.trial = call.trial, !.start = writer.count,
                               !.operations = << >>]
  <2>1. pc = "begun" /\ pc' = "idle" /\ Persist(c) /\ UNCHANGED specVars
    BY <1>2, Zenon DEF CheckpointTrial, CallEnds
  <2>2. mine \in Checkpoint /\ call.trial \in Trial /\ writer \in Writer
        /\ writer.count \in Nat
    BY <1>0, <2>1 DEF AgentTypes, Writer
  <2>3. c \in Checkpoint /\ c.trial = call.trial
    BY <2>2, TrialCheckpoint, Zenon
  <2> HIDE DEF c
  <2>4. disk'.trial = call.trial
    BY <2>1, <2>2, <2>3, Persisting
  <2>5. call.trial \notin DOMAIN backup
    BY <2>1 DEF Recoverable
  <2> QED
    BY <2>1, <2>4, <2>5 DEF Faithful, specVars
<1>3. CASE BackUp
  <2>1. pc' = "inject" /\ TakeBackup(call.trial) /\ UNCHANGED <<call, disk>>
        /\ call.trial = disk.trial
    BY <1>0, <1>3 DEF BackUp, journal, Current
  <2>2. backup'[disk.trial] = spec /\ UNCHANGED <<spec, user>>
    BY <2>1 DEF TakeBackup, With
  <2> QED
    BY <2>1, <2>2 DEF Faithful
<1>4. CASE InjectCombo
  <2>1. call.trial \in Trial
    BY <1>0, <1>4 DEF InjectCombo, AgentTypes, Written
  <2>2. spec' = [spec EXCEPT !.injected = Append(@, call.trial)] /\ HasPlaceholder
        /\ UNCHANGED <<call, disk, backup, user>>
    BY <1>4, Zenon DEF InjectCombo, Inject, journal
  <2>3. spec'.version = spec.version
    BY <1>0, <2>2 DEF SpecFile
  <2>4. ASSUME Spellings[spec.version] = 1
        PROVE  spec' = [version |-> user, injected |-> <<call.trial>>]
    BY <1>0, <2>1, <2>2, <2>4, InjectingOnce DEF HasPlaceholder, Faithful
  <2> QED
    BY <2>2, <2>3, <2>4 DEF Faithful
<1>5. CASE RestoreSpec \/ DefensiveRestore
  <2>1. spec' = backup[disk.trial] /\ disk.trial \in DOMAIN backup
        /\ UNCHANGED <<backup, user, disk>>
    <3>1. CASE RestoreSpec
      BY <1>0, <3>1 DEF RestoreSpec, Restore, Current, Written, journal
    <3>2. CASE DefensiveRestore
      BY <3>2 DEF DefensiveRestore, Restore, journal
    <3> QED
      BY <1>5, <3>1, <3>2
  <2>2. pc' \notin building
    BY <1>5 DEF RestoreSpec, DefensiveRestore, agent
  <2> QED
    BY <2>1, <2>2 DEF Faithful
<1>6. CASE UserSaves
  <2>1. pc' = "idle" /\ disk' = disk /\ disk.trial \notin DOMAIN backup /\ backup' = backup
        /\ spec' = [version |-> user + 1, injected |-> << >>] /\ user' = user + 1
    BY <1>6 DEF UserSaves, UserEdits, Template, journal, agent
  <2> QED
    BY <2>1 DEF Faithful
<1>7. CASE CheckpointStarted \/ CheckpointResult
  <2>1. disk'.trial = disk.trial /\ pc \in {"started", "recorded"}
    BY <1>7, WritingOperation
  <2>2. UNCHANGED <<spec, backup, user>>
    BY <1>7 DEF CheckpointStarted, CheckpointResult, specVars
  <2>3. CASE CheckpointStarted
    <3>1. call' = call /\ pc = "started"
      BY <2>3 DEF CheckpointStarted
    <3> QED
      BY <1>1, <2>1, <2>2, <3>1
  <2>4. CASE CheckpointResult /\ MoreRuns
    <3>1. call' = [call EXCEPT !.index = @ + 1, !.good = FALSE]
      BY <2>4, Zenon DEF CheckpointResult
    <3>2. call'.op = "benchmark"
      BY <1>0, <2>4, <3>1, NextRunCall DEF MoreRuns
    <3> QED
      BY <1>1, <2>1, <2>2, <3>2
  <2>5. CASE CheckpointResult /\ ~MoreRuns
    <3>1. pc' = "idle"
      BY <2>5 DEF CheckpointResult, CallEnds
    <3> QED
      BY <1>1, <2>1, <2>2, <3>1
  <2> QED
    BY <1>7, <2>3, <2>4, <2>5
<1>8. CASE Raise /\ UNCHANGED <<specVars, journal>>
  <2>1. pc' \notin building
    BY <1>8 DEF Raise, CallEnds
  <2> QED
    BY <1>1, <1>8, <2>1 DEF specVars, journal
<1>9. CASE FindNoPlaceholder \/ SpawnFails \/ CleanupFails \/ KillOnSpawnFailure \/ RejectRecord
             \/ WriteFails
  BY <1>8, <1>9, Zenon
     DEF FindNoPlaceholder, SpawnFails, CleanupFails, KillOnSpawnFailure, RejectRecord, WriteFails
<1>10. CASE Verify
  BY <1>1, <1>8, <1>10 DEF Verify, specVars, journal
<1>11. CASE Spawn
  <2>1. pc \in building /\ UNCHANGED <<spec, backup, user>> /\ disk' = disk
    BY <1>11 DEF Spawn, specVars, journal
  <2>2. call'.op = call.op /\ call'.trial = call.trial
    BY <1>0, <1>11 DEF Spawn, Call
  <2> QED
    BY <1>1, <2>1, <2>2
<1>12. CASE BenchmarkBegins
  <2>1. mine.trial \in Trial
    BY <1>0, <1>12 DEF BenchmarkBegins, Checkpoint
  <2>2. call'.op = "benchmark"
    BY <1>12, <2>1, StartCall DEF BenchmarkBegins
  <2> QED
    BY <1>1, <1>12, <2>2 DEF BenchmarkBegins, specVars, journal
<1>13. CASE \/ (\E t \in Trial : BeginTrial(t)) \/ CompileBegins \/ RefuseBackup \/ TraceStarted
            \/ TraceResult \/ Crash \/ Resume
            \/ (\E status \in {"ended", "unsafe_skip"}, good \in BOOLEAN :
                    WorkerEnds(status, good))
  <2>1. UNCHANGED specVars /\ disk' = disk
        /\ (pc' \notin building \/ (pc \in building /\ call' = call))
    BY <1>13
       DEF BeginTrial, CompileBegins, RefuseBackup, TraceStarted, TraceResult, Crash, Resume,
           WorkerEnds, CallEnds, journal
  <2> QED
    BY <1>1, <2>1 DEF specVars
<1>14. CASE \/ (\E r \in Ref : CleanLease(r)) \/ CollectLeases
            \/ (\E r \in Ref : OrphanExits(r)) \/ SourceTreeChanges
            \/ DoctorReads \/ DoctorReports \/ UNCHANGED vars
  <2>1. UNCHANGED <<spec, backup, user>> /\ disk' = disk /\ UNCHANGED <<pc, call>>
    BY <1>14
       DEF CleanLease, CollectLeases, OrphanExits, SourceTreeChanges,
           SourceChanges, DoctorReads, DoctorReports, vars, specVars, journal, agent
  <2> QED
    BY <1>1, <2>1 DEF Faithful
<1>15. CASE HashArtifact \/ ReadForScore \/ ArtifactChanges
  <2>1. UNCHANGED specVars /\ disk' = disk
        /\ \/ pc \in {"hash", "read"} /\ call.op = "benchmark"
           \/ pc' = pc
    BY <1>0, <1>15 DEF HashArtifact, ReadForScore, ArtifactChanges, journal, AgentTypes
  <2>2. call'.op = call.op /\ call'.trial = call.trial
    BY <1>0, <1>15, LookedAtCall DEF Types, WorkTypes
  <2> QED
    BY <1>1, <2>1, <2>2 DEF Faithful, specVars
<1> QED
  BY <1>2, <1>3, <1>4, <1>5, <1>6, <1>7, <1>9, <1>10, <1>11, <1>12, <1>13, <1>14, <1>15, Zenon
     DEF Next, Compile, Run, Recovery, World

\* A worker compiles the user's template with the options of its own trial and
\* no others, whatever was left behind by the crashes before.
THEOREM WorkersCompileTheOriginal == Spec => []CompilesTheOriginal
<1>1. Types /\ [Next]_vars => Types'
  BY SpecStep, WorkStep, JournalStep, BoundStep DEF Types
<1>2. Faithful => CompilesTheOriginal
  <2>1. [Template(user) EXCEPT !.injected = <<call.trial>>]
          = [version |-> user, injected |-> <<call.trial>>]
    BY DEF Template
  <2> QED
    BY <2>1 DEF Faithful, CompilesTheOriginal
<1> QED
  BY TypesInit, RecoverableInit, RecoverableStep, FaithfulInit, FaithfulStep, <1>1, <1>2,
     PTL DEF Spec

-----------------------------------------------------------------------------
(* Scores *)

\* Between its hash and its score, a run is measured on what was hashed for it,
\* or the artifact was replaced in between.
HashedRun ==
    /\ pc = "read" /\ ~call.raced => call.hash = artifact
    /\ call.op = "benchmark" /\ pc \in {"spawn", "spawned", "started", "waiting", "result"}
           /\ ~call.raced
       => call.measured = call.hash

LEMMA HashedRunInit == Init => HashedRun
  BY DEF Init, HashedRun

LEMMA HashedRunStep == Types /\ HashedRun /\ [Next]_vars => HashedRun'
<1> SUFFICES ASSUME Types, HashedRun, [Next]_vars PROVE HashedRun'
  OBVIOUS
<1>0. AgentTypes /\ WorkTypes /\ call \in Call /\ (mine \in Checkpoint \/ pc = "dead")
  BY DEF Types, AgentTypes
<1> DEFINE measuring == {"spawn", "spawned", "started", "waiting", "result"}
<1>1. CASE pc' \notin measuring \cup {"read"}
  BY <1>1 DEF HashedRun
<1>2. CASE /\ pc \in measuring /\ pc' # "read"
           /\ call'.op = call.op /\ call'.hash = call.hash
           /\ call'.measured = call.measured /\ call'.raced = call.raced
  BY <1>2 DEF HashedRun
<1>3. CASE UNCHANGED <<pc, call, artifact>>
  BY <1>3 DEF HashedRun
<1>4. CASE BenchmarkBegins
  <2>1. pc' \in {"hash", "result"}
        /\ call' = [NoCall EXCEPT !.op = "benchmark", !.trial = mine.trial]
    BY <1>4 DEF BenchmarkBegins
  <2>2. call'.hash = "none" /\ call'.measured = "none"
    BY <2>1 DEF NoCall
  <2> QED
    BY <2>1, <2>2 DEF HashedRun
<1>5. CASE HashArtifact
  <2>1. pc' = "read" /\ call' = [call EXCEPT !.hash = artifact, !.raced = FALSE]
        /\ artifact' = artifact
    BY <1>5, Zenon DEF HashArtifact, workers
  <2>2. call'.hash = artifact
    BY <1>0, <2>1 DEF Call
  <2> QED
    BY <2>1, <2>2 DEF HashedRun
<1>6. CASE ReadForScore
  <2>1. pc = "read" /\ pc' = "spawn" /\ call' = [call EXCEPT !.measured = artifact]
    BY <1>6, Zenon DEF ReadForScore
  <2>2. call'.measured = artifact /\ call'.hash = call.hash /\ call'.raced = call.raced
    BY <1>0, <2>1 DEF Call
  <2> QED
    BY <2>1, <2>2 DEF HashedRun
<1>7. CASE ArtifactChanges
  <2>1. pc' = pc /\ call' = [call EXCEPT !.raced = @ \/ pc = "read"]
    BY <1>7, Zenon DEF ArtifactChanges
  <2>2. /\ call'.op = call.op /\ call'.hash = call.hash /\ call'.measured = call.measured
        /\ call'.raced <=> (call.raced \/ pc = "read")
    BY <1>0, <2>1, Zenon DEF Call
  <2> QED
    BY <2>1, <2>2 DEF HashedRun
<1>8. CASE Spawn
  <2>1. pc = "spawn" /\ pc' = "spawned"
        /\ call' = [call EXCEPT !.ref = spawned', !.refs = @ \cup {spawned'}]
    BY <1>8, Zenon DEF Spawn
  <2>2. /\ call'.op = call.op /\ call'.hash = call.hash /\ call'.measured = call.measured
        /\ call'.raced = call.raced
    BY <1>0, <2>1 DEF Call
  <2> QED
    BY <1>2, <2>1, <2>2
<1>9. CASE TraceStarted \/ CheckpointStarted
  <2>1. pc \in measuring /\ pc' \in {"started", "waiting"} /\ call' = call
    BY <1>9 DEF TraceStarted, CheckpointStarted
  <2> QED
    BY <1>2, <2>1
<1>10. ASSUME NEW status, NEW good, WorkerEnds(status, good) PROVE HashedRun'
  <2>1. pc = "waiting" /\ pc' \in {"restore", "result"} /\ call' = [call EXCEPT !.good = good]
    BY <1>10 DEF WorkerEnds
  <2>2. /\ call'.op = call.op /\ call'.hash = call.hash /\ call'.measured = call.measured
        /\ call'.raced = call.raced
    BY <1>0, <2>1 DEF Call
  <2> QED
    BY <1>2, <2>1, <2>2
<1>11. CASE Verify
  <2>1. CASE Raise
    BY <1>1, <1>11, <2>1 DEF Verify, Raise, CallEnds
  <2>2. CASE pc' = "result" /\ call' = call
    <3>1. call.op # "benchmark"
      BY <1>0, <1>11 DEF Verify, AgentTypes
    <3> QED
      BY <2>2, <3>1 DEF HashedRun
  <2> QED
    BY <1>11, <2>1, <2>2 DEF Verify
<1>12. CASE Raise
  BY <1>1, <1>12 DEF Raise, CallEnds
<1>13. CASE FindNoPlaceholder \/ SpawnFails \/ KillOnSpawnFailure \/ CleanupFails \/ RejectRecord
             \/ WriteFails
  BY <1>12, <1>13
     DEF FindNoPlaceholder, SpawnFails, KillOnSpawnFailure, CleanupFails, RejectRecord, WriteFails
<1>14. CASE InjectCombo
  <2>1. call.op # "benchmark" /\ call' = call /\ pc' = "spawn"
    BY <1>0, <1>14 DEF InjectCombo, AgentTypes
  <2> QED
    BY <2>1 DEF HashedRun
<1>15. CASE \/ (\E t \in Trial : BeginTrial(t)) \/ CheckpointTrial \/ CompileBegins \/ BackUp
            \/ RefuseBackup \/ RestoreSpec \/ TraceResult \/ CheckpointResult \/ Crash \/ Resume
  <2>1. pc' \notin measuring \cup {"read"}
    BY <1>15
       DEF BeginTrial, CheckpointTrial, CompileBegins, BackUp, RefuseBackup, RestoreSpec,
           TraceResult, CheckpointResult, Crash, Resume, CallEnds
  <2> QED
    BY <1>1, <2>1
<1>16. CASE \/ DefensiveRestore \/ (\E r \in Ref : CleanLease(r)) \/ CollectLeases
            \/ (\E r \in Ref : OrphanExits(r)) \/ UserSaves \/ SourceTreeChanges
            \/ DoctorReads \/ DoctorReports \/ UNCHANGED vars
  <2>1. UNCHANGED <<pc, call, artifact>>
    BY <1>16
       DEF DefensiveRestore, CleanLease, CollectLeases, OrphanExits, UserSaves,
           SourceTreeChanges, DoctorReads, DoctorReports, vars, agent, workers
  <2> QED
    BY <1>3, <2>1
<1> QED
  BY <1>4, <1>5, <1>6, <1>7, <1>8, <1>9, <1>10, <1>11, <1>13, <1>14, <1>15, <1>16, Zenon
     DEF Next, Compile, Run, Recovery, World

LEMMA ScoresStep ==
    Types /\ HashedRun /\ ScoresMeasureTheBuild /\ [Next]_vars => ScoresMeasureTheBuild'
<1> SUFFICES ASSUME Types, HashedRun, ScoresMeasureTheBuild, [Next]_vars
             PROVE  ScoresMeasureTheBuild'
  OBVIOUS
<1>0. trace \in Seq(Event) /\ AgentTypes
  BY DEF Types, JournalTypes
<1>1. CASE trace' = trace
  BY <1>1 DEF ScoresMeasureTheBuild
<1>2. ASSUME NEW e, trace' = Append(trace, e),
             (e.kind = "benchmark_run_result" /\ e.good) => e.measured = "built" \/ e.raced
      PROVE  ScoresMeasureTheBuild'
  <2>1. \A i \in DOMAIN trace' :
           (i \in DOMAIN trace /\ trace'[i] = trace[i]) \/ trace'[i] = e
    BY <1>0, <1>2
  <2> QED
    BY <1>2, <2>1, Zenon DEF ScoresMeasureTheBuild
<1>3. CASE \E t \in Trial : BeginTrial(t)
  <2>1. PICK e : trace' = Append(trace, e) /\ e.kind = "trial_start"
    BY <1>3 DEF BeginTrial, Append1
  <2> QED
    BY <1>2, <2>1
<1>4. CASE TraceStarted
  <2>1. trace' = Append(trace, CallEvent("process_started"))
    BY <1>4 DEF TraceStarted, Append1
  <2> QED
    BY <1>2, <2>1 DEF CallEvent
<1>5. CASE TraceResult
  <2>1. CASE call.op = "compile"
    <3>1. trace' = Append(trace, CallEvent("compile_result"))
      BY <1>5, <2>1 DEF TraceResult, Append1
    <3> QED
      BY <1>2, <3>1 DEF CallEvent
  <2>2. CASE call.op # "compile"
    <3>1. trace' = Append(trace, CallEvent("benchmark_run_result"))
      BY <1>5, <2>2 DEF TraceResult, Append1
    <3>2. call.op = "benchmark" /\ (call.good => call.hash = "built")
      BY <1>0, <1>5, <2>2 DEF TraceResult, RecordAccepted, AgentTypes, Written
    <3>3. ~call.raced => call.measured = call.hash
      BY <1>5, <3>2 DEF TraceResult, HashedRun
    <3> QED
      BY <1>2, <3>1, <3>2, <3>3, Zenon DEF CallEvent
  <2> QED
    BY <2>1, <2>2
<1>6. CASE CheckpointTrial \/ CheckpointStarted \/ CheckpointResult
  <2>1. trace' = trace
    BY <1>6 DEF CheckpointTrial, CheckpointStarted, CheckpointResult, Persist
  <2> QED
    BY <1>1, <2>1
<1>7. CASE ~ ((\E t \in Trial : BeginTrial(t)) \/ TraceStarted \/ TraceResult \/ CheckpointTrial
              \/ CheckpointStarted \/ CheckpointResult)
  <2>1. trace' = trace
    BY <1>7, Zenon
       DEF Next, Compile, Run, Recovery, World, CompileBegins, BackUp, RefuseBackup,
           InjectCombo, FindNoPlaceholder, BenchmarkBegins, HashArtifact, ReadForScore,
           Spawn, SpawnFails, CleanupFails, KillOnSpawnFailure, WorkerEnds, RestoreSpec,
           Verify, RejectRecord, WriteFails, Crash, Resume, DefensiveRestore, CleanLease,
           CollectLeases, OrphanExits, ArtifactChanges, UserSaves, SourceTreeChanges,
           DoctorReads, DoctorReports, vars, journal
  <2> QED
    BY <1>1, <2>1
<1> QED
  BY <1>3, <1>4, <1>5, <1>6, <1>7

\* Every score that counts was measured on the artifact the trial built, or the
\* artifact was replaced between the hash for that run and the read for its
\* score (fake_gbs.py:245 and 250): whenever and however often it is replaced,
\* for any number of runs.
THEOREM ScoresAreOfTheBuild == Spec => []ScoresMeasureTheBuild
<1>1. Types /\ [Next]_vars => Types'
  BY SpecStep, WorkStep, JournalStep, BoundStep DEF Types
<1>2. Init => ScoresMeasureTheBuild
  BY DEF Init, ScoresMeasureTheBuild
<1> QED
  BY TypesInit, HashedRunInit, HashedRunStep, ScoresStep, <1>1, <1>2, PTL DEF Spec

-----------------------------------------------------------------------------
(* The ledger and the trace *)

Leased(r) == r \in DOMAIN lease /\ lease[r] = "running"

\* The event e is about the operation o of the trial t, and says its status.
IsAbout(e, t, o) ==
    /\ e.trial = t
    /\ \/ e.ref \in o.refs
       \/ o.refs = {} /\ e.ref = 0 /\ e.kind = "benchmark_run_result"

Says(e, status) ==
    CASE status = "running" -> e.kind = "process_started"
      [] status = "completed" -> e.good
      [] OTHER -> e.kind # "process_started" /\ ~e.good

\* The last event in tr about o says its status.
ToldIn(tr, t, o) ==
    \E i \in DOMAIN tr :
        /\ IsAbout(tr[i], t, o) /\ Says(tr[i], o.status)
        /\ \A j \in DOMAIN tr : IsAbout(tr[j], t, o) => j <= i

Told(o) == ToldIn(trace, disk.trial, o)

\* What holds of every operation in a ledger on disk or in memory: it is told,
\* unless it runs and one of its workers does not.
OpTrue(o) ==
    /\ o.status \in {"running", "completed", "failed"}
    /\ o.refs \subseteq 1 .. spawned
    /\ o.refs = {} => o.status = "failed"
    /\ (o.status = "running" => \A r \in o.refs : Leased(r)) => Told(o)

Ops(c) == {c.operations[i] : i \in DOMAIN c.operations}

InLedgers ==
    Ops(disk) \cup (IF pc # "dead" THEN Ops(mine) ELSE {})
              \cup (IF pc \in Written THEN Ops(writer.ledger) ELSE {})

\* An operation of the worker that is waited for is not over in any ledger.
Ledgers == \A o \in InLedgers : OpTrue(o) /\ (call.ref \in o.refs => o.status = "running")

Working == {"spawned", "started", "waiting"}

ResultKind == IF call.op = "compile" THEN "compile_result" ELSE "benchmark_run_result"

\* Where the call is, and what it has put into the trace.
CallSound ==
    /\ call.refs \subseteq 1 .. spawned
    /\ IF call.ref = 0 THEN call.refs = {} /\ ~call.good ELSE call.ref \in call.refs
    /\ pc \in Working => call.ref # 0
    /\ pc \notin Working /\ ~call.failed => ~Leased(call.ref)
    /\ pc \in {"result", "recorded"} /\ call.op = "compile" => call.ref # 0
    /\ pc \in {"restore", "verify"} /\ ~call.failed => call.ref # 0
    /\ call.failed => pc \in {"restore", "verify"}
    /\ pc = "started" => trace # << >> /\ trace[Len(trace)] = CallEvent("process_started")
    /\ pc = "recorded" => trace # << >> /\ trace[Len(trace)] = CallEvent(ResultKind)

\* One more event leaves what is told, unless it tells something else.
LEMMA ToldAppended ==
    ASSUME NEW tr \in Seq(Event), NEW e \in Event, NEW t, NEW o, ToldIn(tr, t, o),
           IsAbout(e, t, o) => Says(e, o.status)
    PROVE  ToldIn(Append(tr, e), t, o)
<1> DEFINE tr2 == Append(tr, e)
<1>1. /\ DOMAIN tr2 = 1 .. Len(tr) + 1 /\ DOMAIN tr = 1 .. Len(tr) /\ Len(tr) \in Nat
      /\ \A i \in DOMAIN tr : tr2[i] = tr[i]
      /\ tr2[Len(tr) + 1] = e
  OBVIOUS
<1> HIDE DEF tr2
<1>2. CASE IsAbout(e, t, o)
  <2>1. Len(tr) + 1 \in DOMAIN tr2 /\ \A j \in DOMAIN tr2 : j <= Len(tr) + 1
    BY <1>1
  <2>2. IsAbout(tr2[Len(tr) + 1], t, o) /\ Says(tr2[Len(tr) + 1], o.status)
    BY <1>1, <1>2, Zenon
  <2> QED
    BY <2>1, <2>2, Zenon DEF ToldIn, tr2
<1>3. CASE ~IsAbout(e, t, o)
  <2>1. PICK i \in DOMAIN tr :
          /\ IsAbout(tr[i], t, o) /\ Says(tr[i], o.status)
          /\ \A j \in DOMAIN tr : IsAbout(tr[j], t, o) => j <= i
    BY DEF ToldIn
  <2>2. \A j \in DOMAIN tr2 : j \in DOMAIN tr \/ j = Len(tr) + 1
    BY <1>1
  <2>3. i \in DOMAIN tr2
    BY <1>1
  <2>4. \A j \in DOMAIN tr2 : IsAbout(tr2[j], t, o) => j <= i
    BY <1>1, <1>3, <2>1, <2>2, Zenon
  <2>5. IsAbout(tr2[i], t, o) /\ Says(tr2[i], o.status)
    BY <1>1, <2>1, Zenon
  <2> QED
    BY <2>3, <2>4, <2>5, Zenon DEF ToldIn, tr2
<1> QED
  BY <1>2, <1>3

LEMMA ToldLast ==
    ASSUME NEW tr \in Seq(Event), NEW t, NEW o, tr # << >>,
           IsAbout(tr[Len(tr)], t, o), Says(tr[Len(tr)], o.status)
    PROVE  ToldIn(tr, t, o)
<1>1. Len(tr) \in DOMAIN tr /\ \A j \in DOMAIN tr : j <= Len(tr)
  OBVIOUS
<1> QED
  BY <1>1, Zenon DEF ToldIn

\* What keeps an operation true.
LEMMA StillTrue ==
    ASSUME NEW o, OpTrue(o), spawned \in Nat, spawned' \in Nat, spawned <= spawned',
           disk'.trial = disk.trial, trace \in Seq(Event),
           \A r \in 1 .. spawned : Leased(r)' => Leased(r),
           trace' = trace \/
             \E e \in Event : /\ trace' = Append(trace, e)
                              /\ IsAbout(e, disk.trial, o)
                                   /\ (o.status = "running" => \A r \in o.refs : Leased(r))
                                 => Says(e, o.status)
    PROVE  OpTrue(o)'
<1>1. o.refs \subseteq 1 .. spawned'
  BY DEF OpTrue
<1>2. ASSUME o.status = "running" => \A r \in o.refs : Leased(r)' PROVE Told(o)'
  <2>1. o.status = "running" => \A r \in o.refs : Leased(r)
    BY <1>2 DEF OpTrue
  <2>2. Told(o)
    BY <2>1 DEF OpTrue
  <2>3. CASE trace' = trace
    BY <2>2, <2>3 DEF Told
  <2>4. CASE \E e \in Event : /\ trace' = Append(trace, e)
                              /\ IsAbout(e, disk.trial, o) => Says(e, o.status)
    BY <2>2, <2>4, ToldAppended DEF Told
  <2> QED
    BY <2>1, <2>3, <2>4
<1> QED
  BY <1>1, <1>2 DEF OpTrue

\* Leases do not come back, and workers have new numbers.
LEMMA LeasesEnd ==
    ASSUME Types, [Next]_vars
    PROVE  /\ spawned \in Nat /\ spawned' \in Nat /\ spawned <= spawned'
           /\ \A r \in 1 .. spawned : Leased(r)' => Leased(r)
<1>0. spawned \in Nat
  BY TrialAssumption DEF Types, WorkTypes
<1>1. CASE Spawn
  <2>1. spawned' = spawned + 1 /\ lease' = With(lease, spawned', "running")
    BY <1>1, Zenon DEF Spawn
  <2>2. \A r \in 1 .. spawned : r # spawned'
    BY <1>0, <2>1
  <2>3. \A r \in 1 .. spawned : Leased(r)' => Leased(r)
    BY <2>1, <2>2 DEF With, Leased
  <2> QED
    BY <1>0, <2>1, <2>3
<1>2. ASSUME NEW r, NEW status, status # "running", lease' = [lease EXCEPT ![r] = status]
      PROVE  \A q \in 1 .. spawned : Leased(q)' => Leased(q)
  <2> SUFFICES ASSUME NEW q, q \in DOMAIN lease', lease'[q] = "running"
               PROVE  q \in DOMAIN lease /\ lease[q] = "running"
    BY DEF Leased
  <2>1. DOMAIN lease' = DOMAIN lease
        /\ \A x \in DOMAIN lease : lease'[x] = lease[x] \/ lease'[x] = status
    BY <1>2
  <2> QED
    BY <1>2, <2>1
<1>3. CASE KillOnSpawnFailure
  <2>1. PICK status \in {"ended", "unsafe_skip"} :
          lease' = [lease EXCEPT ![call.ref] = status] /\ spawned' = spawned
    BY <1>3 DEF KillOnSpawnFailure
  <2>2. PICK r : lease' = [lease EXCEPT ![r] = status] /\ status # "running"
    BY <2>1
  <2>3. \A q \in 1 .. spawned : Leased(q)' => Leased(q)
    BY <1>2, <2>2
  <2> QED
    BY <1>0, <2>1, <2>3
<1>4. ASSUME NEW status \in {"ended", "unsafe_skip"}, NEW good \in BOOLEAN,
             WorkerEnds(status, good)
      PROVE  spawned' = spawned /\ \A r \in 1 .. spawned : Leased(r)' => Leased(r)
  <2>1. lease' = [lease EXCEPT ![call.ref] = status] /\ spawned' = spawned
    BY <1>4 DEF WorkerEnds
  <2> QED
    BY <1>2, <2>1
<1>5. ASSUME NEW r, CleanLease(r)
      PROVE  spawned' = spawned /\ \A q \in 1 .. spawned : Leased(q)' => Leased(q)
  <2>1. lease' = [lease EXCEPT ![r] = "ended"] /\ spawned' = spawned
    BY <1>5 DEF CleanLease
  <2> QED
    BY <1>2, <2>1
<1>6. CASE CollectLeases
  <2>1. lease' = [x \in DOMAIN lease \cap alive |-> lease[x]] /\ spawned' = spawned
    BY <1>6 DEF CollectLeases, Restrict
  <2> QED
    BY <1>0, <2>1 DEF Leased
<1>7. CASE UNCHANGED <<lease, spawned>>
  BY <1>0, <1>7 DEF Leased
<1>8. \/ Spawn \/ KillOnSpawnFailure \/ CollectLeases
      \/ (\E status \in {"ended", "unsafe_skip"}, good \in BOOLEAN : WorkerEnds(status, good))
      \/ (\E r \in Ref : CleanLease(r)) \/ UNCHANGED <<lease, spawned>>
  BY DEF Next, Compile, Run, Recovery, World, BeginTrial, CheckpointTrial, CompileBegins,
         BackUp, RefuseBackup, InjectCombo, FindNoPlaceholder, BenchmarkBegins, HashArtifact,
         ReadForScore, SpawnFails, CleanupFails, TraceStarted, CheckpointStarted, RestoreSpec,
         Verify, TraceResult, RejectRecord, CheckpointResult, WriteFails, Crash, Resume,
         DefensiveRestore, OrphanExits, ArtifactChanges, UserSaves, SourceTreeChanges,
         DoctorReads, DoctorReports, vars, workers
<1> QED
  BY <1>0, <1>1, <1>3, <1>4, <1>5, <1>6, <1>7, <1>8

LEMMA NewCalls ==
    /\ NoCall.ref = 0 /\ NoCall.refs = {} /\ NoCall.good = FALSE /\ NoCall.failed = FALSE
    /\ \A t, op, pre :
          /\ LET c == [NoCall EXCEPT !.op = op, !.trial = t]
             IN  c.ref = 0 /\ c.refs = {} /\ c.good = FALSE /\ c.failed = FALSE
          /\ LET c == [NoCall EXCEPT !.op = op, !.trial = t, !.pre = pre]
             IN  c.ref = 0 /\ c.refs = {} /\ c.good = FALSE /\ c.failed = FALSE
  BY DEF NoCall

LEMMA ChangedCalls ==
    ASSUME NEW c \in Call
    PROVE  /\ LET d == [c EXCEPT !.failed = TRUE]
              IN  d.ref = c.ref /\ d.refs = c.refs /\ d.good = c.good /\ d.failed = TRUE
           /\ \A good : LET d == [c EXCEPT !.good = good]
              IN  d.ref = c.ref /\ d.refs = c.refs /\ d.good = good /\ d.failed = c.failed
           /\ LET d == [c EXCEPT !.index = @ + 1, !.good = FALSE]
              IN  d.ref = c.ref /\ d.refs = c.refs /\ d.good = FALSE /\ d.failed = c.failed
           /\ \A r : LET d == [c EXCEPT !.ref = r, !.refs = @ \cup {r}]
              IN  d.ref = r /\ d.refs = c.refs \cup {r} /\ d.good = c.good /\ d.failed = c.failed
  BY DEF Call

LEMMA EventFields ==
    \A kind : LET e == CallEvent(kind) IN
        e.kind = kind /\ e.trial = call.trial /\ e.ref = call.ref /\ e.good = call.good
  BY DEF CallEvent

\* The operations of a checkpoint with another count, another trial or one
\* more operation.
LEMMA CountedOps ==
    ASSUME NEW c \in Checkpoint, NEW n
    PROVE  LET d == [c EXCEPT !.count = n]
           IN  Ops(d) = Ops(c) /\ d.operations = c.operations /\ d.start = c.start /\ d.count = n
  BY DEF Ops, Checkpoint

LEMMA TrialOps ==
    ASSUME NEW c \in Checkpoint, NEW t, NEW n
    PROVE  LET d == [c EXCEPT !.trial = t, !.start = n, !.operations = << >>]
           IN  Ops(d) = {} /\ d.start = n
  BY DEF Ops, Checkpoint

LEMMA OperationOps ==
    ASSUME NEW c \in Checkpoint, NEW status
    PROVE  /\ Ops(WithOperation(c, status))
                \subseteq Ops(c) \cup {[op |-> call.op, status |-> status, refs |-> call.refs]}
           /\ WithOperation(c, status).start = c.start
<1> DEFINE o == [op |-> call.op, status |-> status, refs |-> call.refs]
           same == {i \in DOMAIN c.operations : Same(c.operations[i])}
           first == CHOOSE i \in same : \A j \in same : i <= j
<1>1. c.operations \in Seq(Operation)
  BY DEF Checkpoint
<1>2. WithOperation(c, status) =
        IF same = {} THEN [c EXCEPT !.operations = Append(c.operations, o)]
        ELSE [c EXCEPT !.operations = [c.operations EXCEPT ![first] = o]]
  BY DEF WithOperation, Checkpoint
<1> HIDE DEF o, same, first
<1>3. \A ops : [c EXCEPT !.operations = ops].operations = ops
               /\ [c EXCEPT !.operations = ops].start = c.start
  BY DEF Checkpoint
<1>4. \A i \in DOMAIN Append(c.operations, o) :
        Append(c.operations, o)[i] \in {c.operations[j] : j \in DOMAIN c.operations} \cup {o}
  BY <1>1
<1>5. \A i \in DOMAIN [c.operations EXCEPT ![first] = o] :
        [c.operations EXCEPT ![first] = o][i]
            \in {c.operations[j] : j \in DOMAIN c.operations} \cup {o}
  OBVIOUS
<1>6. CASE same = {}
  BY <1>2, <1>3, <1>4, <1>6 DEF Ops, o
<1>7. CASE same # {}
  BY <1>2, <1>3, <1>5, <1>7 DEF Ops, o
<1> QED
  BY <1>6, <1>7

LEMMA WrittenOps ==
    ASSUME Types, NEW status \in OperationStatus, pc \in {"started", "recorded"},
           Persist(WithOperation(writer.ledger, status))
    PROVE  /\ Ops(disk') \subseteq Ops(writer.ledger)
                                \cup {[op |-> call.op, status |-> status, refs |-> call.refs]}
           /\ disk'.start = writer.ledger.start /\ disk'.count = writer.count
           /\ writer'.ledger = disk' /\ writer'.count = writer.count
           /\ trace' = trace
<1> DEFINE c == WithOperation(writer.ledger, status)
<1>0. AgentTypes /\ writer \in Writer
  BY DEF Types, AgentTypes
<1>1. writer.ledger \in Checkpoint /\ call \in Call /\ call.op \in {"compile", "benchmark"}
  BY <1>0 DEF AgentTypes, Written
<1>2. c \in Checkpoint
  BY <1>1, OperationCheckpoint
<1>3. Ops(c) \subseteq Ops(writer.ledger)
                  \cup {[op |-> call.op, status |-> status, refs |-> call.refs]}
      /\ c.start = writer.ledger.start
  BY <1>1, OperationOps
<1>4. disk' = [c EXCEPT !.count = writer.count] /\ writer' = [writer EXCEPT !.ledger = disk']
      /\ trace' = trace
  BY Zenon DEF Persist
<1> HIDE DEF c
<1>5. Ops(disk') = Ops(c) /\ disk'.start = c.start /\ disk'.count = writer.count
  BY <1>2, <1>4, CountedOps
<1>6. writer'.ledger = disk' /\ writer'.count = writer.count
  BY <1>0, <1>4 DEF Writer
<1> QED
  BY <1>3, <1>4, <1>5, <1>6

LEMMA LedgersInit == Init => Ledgers /\ CallSound
<1> SUFFICES ASSUME Init PROVE Ledgers /\ CallSound
  OBVIOUS
<1>1. pc = "idle" /\ mine = disk /\ call = NoCall /\ DOMAIN lease = {}
  BY DEF Init
<1>2. DOMAIN disk.operations = {}
  BY DEF Init
<1>3. InLedgers = {}
  BY <1>1, <1>2 DEF InLedgers, Written, Ops
<1>4. CallSound
  BY <1>1, NewCalls DEF CallSound, Working, Leased
<1> QED
  BY <1>3, <1>4 DEF Ledgers

\* What the call puts into the trace and into the ledger.
LEMMA LedgersStep == Types /\ CallSound /\ Ledgers /\ [Next]_vars => Ledgers'
<1> SUFFICES ASSUME Types, CallSound, Ledgers, [Next]_vars PROVE Ledgers'
  OBVIOUS
<1>0. /\ JournalTypes /\ AgentTypes /\ Current
      /\ trace \in Seq(Event) /\ disk \in Checkpoint /\ call \in Call
      /\ (mine \in Checkpoint \/ pc = "dead") /\ writer \in Writer
  BY DEF Types, JournalTypes, AgentTypes
<1>a. /\ spawned \in Nat /\ spawned' \in Nat /\ spawned <= spawned'
      /\ \A r \in 1 .. spawned : Leased(r)' => Leased(r)
  BY LeasesEnd
<1>b. \A o \in InLedgers : OpTrue(o) /\ (call.ref \in o.refs => o.status = "running")
  BY DEF Ledgers
<1>c. \A o \in InLedgers : o.refs \subseteq 1 .. spawned /\ 0 \notin o.refs
  BY <1>b DEF OpTrue
<1>1. ASSUME trace' = trace, disk'.trial = disk.trial, InLedgers' \subseteq InLedgers,
             call'.ref \in {call.ref, 0} \/ call'.ref \notin 1 .. spawned
      PROVE  Ledgers'
  <2> SUFFICES ASSUME NEW o \in InLedgers
               PROVE  OpTrue(o)' /\ (call'.ref \in o.refs => o.status = "running")
    BY <1>1 DEF Ledgers
  <2>1. OpTrue(o)'
    BY <1>0, <1>1, <1>a, <1>b, StillTrue
  <2> QED
    BY <1>1, <1>b, <1>c, <2>1
<1>2. ASSUME NEW e \in Event, trace' = Append(trace, e), disk' = disk,
             InLedgers' \subseteq InLedgers, call'.ref \in {call.ref, 0},
             \A o \in InLedgers :
                 IsAbout(e, disk.trial, o)
                    /\ (o.status = "running" => \A r \in o.refs : Leased(r))
                 => Says(e, o.status)
      PROVE  Ledgers'
  <2> SUFFICES ASSUME NEW o \in InLedgers
               PROVE  OpTrue(o)' /\ (call'.ref \in o.refs => o.status = "running")
    BY <1>2 DEF Ledgers
  <2>1. \E x \in Event : /\ trace' = Append(trace, x)
                         /\ IsAbout(x, disk.trial, o)
                              /\ (o.status = "running" => \A r \in o.refs : Leased(r))
                            => Says(x, o.status)
    BY <1>2
  <2>2. OpTrue(o)'
    BY <1>0, <1>2, <1>a, <1>b, <2>1, StillTrue
  <2> QED
    BY <1>2, <1>b, <1>c, <2>2
<1>3. ASSUME NEW n, OpTrue(n), trace' = trace, disk'.trial = disk.trial,
             InLedgers' \subseteq InLedgers \cup {n}, call'.ref \in {call.ref, 0},
             call'.ref \in n.refs => n.status = "running"
      PROVE  Ledgers'
  <2> SUFFICES ASSUME NEW o \in InLedgers \cup {n}
               PROVE  OpTrue(o)' /\ (call'.ref \in o.refs => o.status = "running")
    BY <1>3 DEF Ledgers
  <2>1. OpTrue(o)'
    <3>1. OpTrue(o)
      BY <1>3, <1>b
    <3> QED
      BY <1>0, <1>3, <1>a, <3>1, StillTrue
  <2> QED
    BY <1>3, <1>b, <1>c, <2>1
<1>4. ASSUME NEW t \in Trial, BeginTrial(t) PROVE Ledgers'
  <2> DEFINE e == [kind |-> "trial_start", trial |-> t, ref |-> 0, good |-> TRUE,
                   measured |-> "none", raced |-> FALSE]
  <2>1. pc = "idle" /\ pc' = "begun" /\ Append1(Attached(mine), e) /\ UNCHANGED <<mine, disk>>
        /\ call' = [NoCall EXCEPT !.op = "start", !.trial = t]
    BY <1>4, Zenon DEF BeginTrial
  <2>2. trace' = Append(trace, e)
    BY <2>1 DEF Append1
  <2>3. e \in Event /\ e.ref = 0 /\ e.kind = "trial_start"
    BY StartEventIsEvent
  <2> HIDE DEF e
  <2>4. InLedgers' \subseteq InLedgers
    BY <2>1 DEF InLedgers, Written, Ops
  <2>5. call'.ref = 0
    BY <2>1, NewCalls
  <2>6. \A o \in InLedgers : ~IsAbout(e, disk.trial, o)
    BY <1>c, <2>3 DEF IsAbout
  <2> QED
    BY <1>2, <2>1, <2>2, <2>3, <2>4, <2>5, <2>6
<1>5. CASE CheckpointTrial
  <2> DEFINE c == [mine EXCEPT !.trial = call.trial, !.start = writer.count,
                               !.operations = << >>]
  <2>1. pc = "begun" /\ pc' = "idle" /\ Persist(c) /\ mine' = disk'
    BY <1>5, Zenon DEF CheckpointTrial, CallEnds
  <2>2. mine \in Checkpoint /\ call.trial \in Trial /\ writer.count \in Nat
    BY <1>0, <2>1 DEF AgentTypes, Writer
  <2>3. c \in Checkpoint /\ Ops(c) = {}
    BY <2>2, TrialCheckpoint, TrialOps
  <2> HIDE DEF c
  <2>4. disk' = [c EXCEPT !.count = writer.count]
    BY <2>1, Zenon DEF Persist
  <2>5. Ops(disk') = {}
    BY <2>3, <2>4, CountedOps
  <2>6. InLedgers' = {}
    BY <2>1, <2>5 DEF InLedgers, Written
  <2> QED
    BY <2>6 DEF Ledgers
<1>6. CASE BackUp \/ BenchmarkBegins
  <2>1. pc \in {"backup", "idle"} /\ pc' # "dead" /\ UNCHANGED <<mine, disk, trace>>
        /\ writer' = Attached(mine)
        /\ (call' = call \/ call' = [NoCall EXCEPT !.op = "benchmark", !.trial = mine.trial])
    BY <1>6 DEF BackUp, BenchmarkBegins, journal
  <2>2. writer'.ledger = mine
    BY <2>1 DEF Attached
  <2>3. InLedgers' \subseteq InLedgers
    BY <2>1, <2>2 DEF InLedgers, Written, Ops
  <2>4. call'.ref \in {call.ref, 0}
    <3>1. CASE call' = [NoCall EXCEPT !.op = "benchmark", !.trial = mine.trial]
      BY <3>1, NewCalls, Zenon
    <3> QED
      BY <2>1, <3>1
  <2> QED
    BY <1>1, <2>1, <2>3, <2>4
<1>7. CASE TraceStarted \/ TraceResult
  <2>1. PICK kind \in {"process_started", "compile_result", "benchmark_run_result"} :
          /\ IF kind = "process_started" THEN pc = "spawned" ELSE pc = "result"
          /\ pc' \in {"started", "recorded"}
          /\ trace' = Append(trace, CallEvent(kind)) /\ Append1(writer, CallEvent(kind))
          /\ UNCHANGED <<call, mine, disk>>
    <3>1. CASE TraceStarted
      BY <3>1 DEF TraceStarted, Append1
    <3>2. CASE TraceResult /\ call.op = "compile"
      BY <3>2 DEF TraceResult, Append1
    <3>3. CASE TraceResult /\ call.op # "compile"
      BY <3>3 DEF TraceResult, Append1
    <3> QED
      BY <1>7, <3>1, <3>2, <3>3
  <2>2. PICK e : e = CallEvent(kind)
    OBVIOUS
  <2>3. e \in Event
    BY <1>0, <2>1, <2>2, CallEventIsEvent DEF AgentTypes, Written
  <2>4. e.kind = kind /\ e.ref = call.ref /\ e.good = call.good
    BY <2>2, EventFields
  <2>5. writer'.ledger = writer.ledger
    <3>1. writer' = [writer EXCEPT !.count = writer.count + 1]
      BY <2>1, Zenon DEF Append1
    <3> QED
      BY <1>0, <3>1 DEF Writer
  <2>6. InLedgers' \subseteq InLedgers
    BY <2>1, <2>5 DEF InLedgers, Written, Ops
  <2>7. ASSUME NEW o \in InLedgers, IsAbout(e, disk.trial, o),
               o.status = "running" => \A r \in o.refs : Leased(r)
        PROVE  Says(e, o.status)
    <3>1. CASE kind = "process_started"
      <4>1. call.ref \in o.refs
        BY <2>4, <2>7, <3>1 DEF IsAbout
      <4> QED
        BY <1>b, <2>4, <3>1, <4>1 DEF Says
    <3>2. CASE kind # "process_started"
      <4>1. ~Leased(call.ref)
        BY <2>1, <3>2 DEF CallSound, Working
      <4>2. call.ref \notin o.refs
        BY <1>b, <2>7, <4>1
      <4>3. o.refs = {} /\ call.ref = 0
        BY <2>4, <2>7, <4>2 DEF IsAbout
      <4>4. o.status = "failed" /\ ~e.good
        BY <1>b, <2>4, <4>3 DEF OpTrue, CallSound
      <4> QED
        BY <2>4, <3>2, <4>4 DEF Says
    <3> QED
      BY <3>1, <3>2
  <2> QED
    BY <1>2, <2>1, <2>2, <2>3, <2>6, <2>7
<1>8. CASE CheckpointStarted
  <2> DEFINE n == [op |-> call.op, status |-> "running", refs |-> call.refs]
  <2>1. pc = "started" /\ pc' = "waiting" /\ Persist(WithOperation(writer.ledger, "running"))
        /\ UNCHANGED <<call, mine>>
    BY <1>8, Zenon DEF CheckpointStarted
  <2>2. Ops(disk') \subseteq Ops(writer.ledger) \cup {n} /\ writer'.ledger = disk' /\ trace' = trace
    BY <2>1, Statuses, WrittenOps
  <2>3. disk'.trial = disk.trial
    BY <1>8, WritingOperation
  <2>4. InLedgers' \subseteq InLedgers \cup {n}
    BY <2>1, <2>2 DEF InLedgers, Written, Ops
  <2>5. OpTrue(n)
    <3>1. /\ call.refs \subseteq 1 .. spawned /\ call.ref \in call.refs
          /\ trace # << >> /\ trace[Len(trace)] = CallEvent("process_started")
          /\ call.trial = disk.trial
      BY <1>0, <2>1 DEF CallSound, Working, Current, Written
    <3>2. n.status = "running" /\ n.refs = call.refs
      OBVIOUS
    <3> HIDE DEF n
    <3>3. IsAbout(CallEvent("process_started"), disk.trial, n)
          /\ Says(CallEvent("process_started"), n.status)
      BY <3>1, <3>2, EventFields DEF IsAbout, Says
    <3>4. Told(n)
      BY <1>0, <3>1, <3>3, ToldLast DEF Told
    <3> QED
      BY <3>1, <3>2, <3>4 DEF OpTrue
  <2> QED
    BY <1>3, <2>1, <2>2, <2>3, <2>4, <2>5
<1>9. CASE CheckpointResult
  <2> DEFINE n == [op |-> call.op, status |-> FinalStatus, refs |-> call.refs]
  <2>1. pc = "recorded" /\ Persist(WithOperation(writer.ledger, FinalStatus))
    BY <1>9, Zenon DEF CheckpointResult
  <2>2. Ops(disk') \subseteq Ops(writer.ledger) \cup {n} /\ writer'.ledger = disk' /\ trace' = trace
    BY <2>1, Statuses, WrittenOps
  <2>3. disk'.trial = disk.trial
    BY <1>9, WritingOperation
  <2>4. /\ IF MoreRuns
           THEN /\ pc' = "hash" /\ mine' = mine
                /\ call' = [call EXCEPT !.index = @ + 1, !.good = FALSE]
           ELSE /\ pc' = "idle" /\ mine' = disk' /\ call' = NoCall
    BY <1>9, Zenon DEF CheckpointResult, CallEnds
  <2>5. InLedgers' \subseteq InLedgers \cup {n}
    BY <2>1, <2>2, <2>4 DEF InLedgers, Written, Ops
  <2>6. IF MoreRuns THEN call'.ref = call.ref ELSE call'.ref = 0
    <3>1. CASE MoreRuns
      <4>1. call' = [call EXCEPT !.index = @ + 1, !.good = FALSE]
        BY <2>4, <3>1, Zenon
      <4>2. call'.ref = call.ref
        BY <1>0, <4>1, ChangedCalls
      <4> QED
        BY <3>1, <4>2, Zenon
    <3>2. CASE ~MoreRuns
      <4>1. call' = NoCall
        BY <2>4, <3>2, Zenon
      <4>2. call'.ref = 0
        BY <4>1 DEF NoCall
      <4> QED
        BY <3>2, <4>2, Zenon
    <3> QED
      BY <3>1, <3>2, Zenon
  <2>7. /\ call.refs \subseteq 1 .. spawned /\ ~Leased(call.ref)
        /\ IF call.ref = 0 THEN call.refs = {} /\ ~call.good ELSE call.ref \in call.refs
        /\ trace # << >> /\ trace[Len(trace)] = CallEvent(ResultKind)
        /\ (call.op = "compile" => call.ref # 0)
        /\ call.trial = disk.trial /\ call.op \in {"compile", "benchmark"}
    BY <1>0, <2>1 DEF CallSound, Working, Current, AgentTypes, Written
  <2>8. n.status = FinalStatus /\ n.refs = call.refs
    OBVIOUS
  <2> HIDE DEF n
  <2>9. OpTrue(n)
    <3>1. IsAbout(CallEvent(ResultKind), disk.trial, n)
      BY <2>7, <2>8, EventFields DEF IsAbout, ResultKind
    <3>2. n.status # "running" => Says(CallEvent(ResultKind), n.status)
      BY <2>8, EventFields DEF Says, FinalStatus, ResultKind
    <3>3. n.status # "running" => Told(n)
      BY <1>0, <2>7, <3>1, <3>2, ToldLast DEF Told
    <3>4. n.status = "running" => ~(\A r \in n.refs : Leased(r))
      BY <2>7, <2>8 DEF FinalStatus, MoreRuns
    <3>5. n.status \in {"running", "completed", "failed"} /\ (n.refs = {} => n.status = "failed")
      BY <2>7, <2>8 DEF FinalStatus
    <3> QED
      BY <2>7, <2>8, <3>3, <3>4, <3>5 DEF OpTrue
  <2>10. call'.ref \in n.refs => n.status = "running"
    <3>1. CASE MoreRuns
      BY <2>8, <3>1 DEF FinalStatus, MoreRuns
    <3>2. CASE ~MoreRuns
      BY <2>6, <2>7, <2>8, <3>2
    <3> QED
      BY <3>1, <3>2
  <2> QED
    BY <1>3, <2>2, <2>3, <2>5, <2>6, <2>9, <2>10
<1>10. CASE Spawn
  <2>1. pc = "spawn" /\ pc' = "spawned" /\ UNCHANGED <<mine, writer, trace, disk>>
        /\ spawned' = spawned + 1
    BY <1>10, Zenon DEF Spawn, journal
  <2>2. PICK r : r = spawned' /\ call' = [call EXCEPT !.ref = r, !.refs = @ \cup {r}]
    BY <1>10, Zenon DEF Spawn
  <2>3. call'.ref = spawned + 1
    BY <1>0, <2>1, <2>2, ChangedCalls
  <2>4. call'.ref \notin 1 .. spawned
    BY <1>a, <2>3
  <2>5. InLedgers' \subseteq InLedgers
    BY <2>1 DEF InLedgers, Written, Ops
  <2> QED
    BY <1>1, <2>1, <2>4, <2>5
<1>11. CASE pc # "dead" /\ Raise /\ UNCHANGED journal
  <2>1. UNCHANGED <<trace, disk>>
    BY <1>11 DEF journal
  <2>2. pc' \in {"restore", "idle"} /\ mine' = mine
        /\ (pc' = "restore" => pc \in Written /\ writer' = writer)
    BY <1>11 DEF Raise, CallEnds, Written
  <2>3. call' = NoCall \/ call' = [call EXCEPT !.failed = TRUE]
    BY <1>11, Zenon DEF Raise, CallEnds
  <2>4. call'.ref \in {call.ref, 0}
    <3>1. CASE call' = NoCall
      BY <3>1 DEF NoCall
    <3>2. CASE call' = [call EXCEPT !.failed = TRUE]
      BY <1>0, <3>2, ChangedCalls
    <3> QED
      BY <2>3, <3>1, <3>2
  <2>5. InLedgers' \subseteq InLedgers
    BY <1>11, <2>1, <2>2 DEF InLedgers, Written, Ops
  <2> QED
    BY <1>1, <2>1, <2>4, <2>5
<1>12. CASE Resume
  <2>1. mine' = [disk EXCEPT !.count = Len(trace)] /\ pc' = "idle"
        /\ UNCHANGED <<call, trace, disk>>
    BY <1>12, Zenon DEF Resume, Reconciled, journal
  <2>2. Ops(mine') = Ops(disk)
    BY <1>0, <2>1, CountedOps
  <2>3. InLedgers' \subseteq InLedgers
    BY <2>1, <2>2 DEF InLedgers, Written, Ops
  <2> QED
    BY <1>1, <2>1, <2>3
<1>13. CASE /\ UNCHANGED <<trace, disk, mine, writer>>
            /\ pc' \in Written => pc \in Written
            /\ pc' # "dead" => pc # "dead"
            /\ call'.ref \in {call.ref, 0}
  <2>1. InLedgers' \subseteq InLedgers
    BY <1>13 DEF InLedgers, Ops
  <2> QED
    BY <1>1, <1>13, <2>1
<1>14. CASE CompileBegins \/ RefuseBackup
  <2>1. UNCHANGED <<trace, disk, mine, writer>> /\ pc # "dead" /\ pc' \notin Written
    BY <1>14 DEF CompileBegins, RefuseBackup, CallEnds, journal, Written
  <2>2. call'.ref = 0
    <3>1. CASE CompileBegins
      <4>1. call' = [NoCall EXCEPT !.op = "compile", !.trial = mine.trial, !.pre = Snapshot]
        BY <3>1, Zenon DEF CompileBegins
      <4> QED
        BY <4>1 DEF NoCall
    <3>2. CASE RefuseBackup
      BY <3>2, NewCalls DEF RefuseBackup, CallEnds
    <3> QED
      BY <1>14, <3>1, <3>2
  <2> QED
    BY <1>13, <2>1, <2>2
<1>15. CASE Crash
  <2>1. UNCHANGED <<trace, disk>> /\ pc' = "dead" /\ call' = NoCall
    BY <1>15, Zenon DEF Crash
  <2>2. InLedgers' \subseteq InLedgers
    BY <2>1 DEF InLedgers, Written, Ops
  <2> QED
    BY <1>1, <2>1, <2>2, NewCalls
<1>16. ASSUME NEW status, NEW good \in BOOLEAN, WorkerEnds(status, good) PROVE Ledgers'
  <2>1. pc = "waiting" /\ pc' \in {"restore", "result"} /\ UNCHANGED <<trace, disk, mine, writer>>
        /\ call' = [call EXCEPT !.good = good]
    BY <1>16 DEF WorkerEnds, journal
  <2>2. call'.ref = call.ref
    BY <1>0, <2>1, ChangedCalls
  <2> QED
    BY <1>13, <2>1, <2>2 DEF Written
<1>17. CASE InjectCombo \/ RestoreSpec \/ Verify
  <2>1. CASE \/ InjectCombo \/ RestoreSpec
             \/ Verify /\ pc' = "result" /\ UNCHANGED <<call, mine, writer>>
    <3>1. UNCHANGED <<trace, disk, mine, writer, call>> /\ pc \in Written
      BY <2>1 DEF InjectCombo, RestoreSpec, Verify, journal, Written
    <3> QED
      BY <1>13, <3>1 DEF Written
  <2>2. CASE Verify /\ Raise
    <3>1. pc # "dead" /\ UNCHANGED journal
      BY <2>2, Zenon DEF Verify
    <3> QED
      BY <1>11, <2>2, <3>1
  <2> QED
    BY <1>17, <2>1, <2>2, Zenon DEF Verify
<1>18. CASE FindNoPlaceholder \/ SpawnFails \/ CleanupFails \/ KillOnSpawnFailure \/ RejectRecord
             \/ WriteFails
  <2>1. pc # "dead"
    BY <1>18
       DEF FindNoPlaceholder, SpawnFails, CleanupFails, KillOnSpawnFailure, RejectRecord,
           WriteFails
  <2>2. Raise /\ UNCHANGED journal
    BY <1>18, Zenon
       DEF FindNoPlaceholder, SpawnFails, CleanupFails, KillOnSpawnFailure, RejectRecord,
           WriteFails
  <2> QED
    BY <1>11, <2>1, <2>2
<1>19. CASE \/ DefensiveRestore \/ (\E r \in Ref : CleanLease(r)) \/ CollectLeases
            \/ (\E r \in Ref : OrphanExits(r)) \/ UserSaves \/ SourceTreeChanges
            \/ DoctorReads \/ DoctorReports \/ UNCHANGED vars
  <2>1. UNCHANGED journal /\ UNCHANGED agent
    BY <1>19, Zenon
       DEF DefensiveRestore, CleanLease, CollectLeases, OrphanExits,
           UserSaves, SourceTreeChanges, DoctorReads, DoctorReports, vars
  <2> QED
    BY <1>13, <2>1 DEF journal, agent
<1>20. CASE HashArtifact \/ ReadForScore \/ ArtifactChanges
  <2>1. call'.ref = call.ref
    BY <1>0, <1>20, LookedAtCall DEF Types, WorkTypes
  <2>2. /\ UNCHANGED <<trace, disk, mine, writer>>
        /\ pc' = pc \/ (pc \in Written /\ pc # "dead" /\ pc' \in {"read", "spawn"})
    BY <1>20 DEF HashArtifact, ReadForScore, ArtifactChanges, journal, Written
  <2> QED
    BY <1>13, <2>1, <2>2
<1> QED
  BY <1>4, <1>5, <1>6, <1>7, <1>8, <1>9, <1>10, <1>12, <1>14, <1>15, <1>16, <1>17, <1>18, <1>19,
     <1>20, Zenon DEF Next, Compile, Run, Recovery, World

LEMMA AppendedLast ==
    ASSUME NEW tr \in Seq(Event), NEW e \in Event
    PROVE  Append(tr, e) # << >> /\ Append(tr, e)[Len(Append(tr, e))] = e
<1>1. Len(Append(tr, e)) = Len(tr) + 1 /\ Append(tr, e)[Len(tr) + 1] = e /\ Len(tr) \in Nat
  OBVIOUS
<1> QED
  BY <1>1

\* Where the call is.
LEMMA CallSoundStep == Types /\ CallSound /\ [Next]_vars => CallSound'
<1> SUFFICES ASSUME Types, CallSound, [Next]_vars PROVE CallSound'
  OBVIOUS
<1>0. /\ JournalTypes /\ AgentTypes /\ Current
      /\ trace \in Seq(Event) /\ call \in Call /\ call.refs \subseteq 1 .. spawned
  BY DEF Types, JournalTypes, AgentTypes, CallSound
<1>a. /\ spawned \in Nat /\ spawned' \in Nat /\ spawned <= spawned'
      /\ \A r \in 1 .. spawned : Leased(r)' => Leased(r)
  BY LeasesEnd
<1>b. 1 .. spawned \subseteq 1 .. spawned'
  BY <1>a
<1>e. PICK k : k = call.ref
  OBVIOUS
<1>c. ~Leased(0) /\ ~Leased(0)'
  <2>1. WorkTypes /\ WorkTypes'
    BY WorkStep DEF Types
  <2> QED
    BY <2>1 DEF WorkTypes, Ref, Leased
<1>f. Leased(k)' => Leased(k)
  <2>1. k = 0 \/ k \in 1 .. spawned
    BY <1>0, <1>e DEF CallSound
  <2> QED
    BY <1>a, <1>c, <2>1
<1>d. pc \notin Working /\ ~call.failed => ~Leased(k)'
  BY <1>e, <1>f DEF CallSound
<1>1. ASSUME call'.ref = 0, call'.refs = {}, call'.good = FALSE, call'.failed = FALSE,
             pc' \notin {"recorded", "started", "restore", "verify"} \cup Working,
             pc' # "result" \/ call'.op # "compile"
      PROVE  CallSound'
  BY <1>1, <1>c DEF CallSound, Leased
<1>2. ASSUME call'.ref = call.ref, call'.refs = call.refs,
             call'.good = FALSE \/ call'.good = call.good,
             call'.op = call.op, call'.failed = call.failed,
             pc' = pc, trace' = trace, call' = call
      PROVE  CallSound'
  <2>1. CallEvent(ResultKind)' = CallEvent(ResultKind)
        /\ CallEvent("process_started")' = CallEvent("process_started")
    BY <1>2 DEF CallEvent, ResultKind
  <2>2. pc' \notin Working /\ ~call'.failed => ~Leased(call.ref)'
    BY <1>2, <1>d, <1>e DEF Leased
  <2> QED
    BY <1>0, <1>b, <1>2, <2>1, <2>2 DEF CallSound
<1>3. ASSUME call'.ref = call.ref, call'.refs = call.refs,
             call'.good = FALSE \/ call'.good = call.good,
             pc' \notin {"recorded", "started"} \cup Working,
             call'.failed \/ ~Leased(k)', call'.failed => pc' \in {"restore", "verify"},
             pc' = "result" /\ call'.op = "compile" => call.ref # 0,
             pc' \in {"restore", "verify"} /\ ~call'.failed => call.ref # 0
      PROVE  CallSound'
  <2>1. /\ call'.refs \subseteq 1 .. spawned'
        /\ IF call'.ref = 0 THEN call'.refs = {} /\ ~call'.good ELSE call'.ref \in call'.refs
    BY <1>0, <1>b, <1>3 DEF CallSound
  <2>2. ~call'.failed => ~Leased(call.ref)'
    BY <1>3, <1>e DEF Leased
  <2> QED
    BY <1>3, <2>1, <2>2 DEF CallSound
<1>4. ASSUME NEW t \in Trial, BeginTrial(t) PROVE CallSound'
  <2>1. pc' = "begun" /\ call' = [NoCall EXCEPT !.op = "start", !.trial = t]
    BY <1>4, Zenon DEF BeginTrial
  <2>2. call'.ref = 0 /\ call'.refs = {} /\ call'.good = FALSE /\ call'.failed = FALSE
    BY <2>1 DEF NoCall
  <2> QED
    BY <1>1, <2>1, <2>2 DEF Working
<1>5. CASE pc' \in {"idle", "dead"} /\ call' = NoCall
  BY <1>1, <1>5, NewCalls DEF Working
<1>6. CASE CompileBegins
  <2>1. pc' = "backup"
        /\ call' = [NoCall EXCEPT !.op = "compile", !.trial = mine.trial, !.pre = Snapshot]
    BY <1>6, Zenon DEF CompileBegins
  <2>2. call'.ref = 0 /\ call'.refs = {} /\ call'.good = FALSE /\ call'.failed = FALSE
    BY <2>1 DEF NoCall
  <2> QED
    BY <1>1, <2>1, <2>2 DEF Working
<1>7. CASE BenchmarkBegins
  <2>1. pc' \in {"hash", "result"}
        /\ call' = [NoCall EXCEPT !.op = "benchmark", !.trial = mine.trial]
    BY <1>7 DEF BenchmarkBegins
  <2>2. call'.ref = 0 /\ call'.refs = {} /\ call'.good = FALSE /\ call'.failed = FALSE
        /\ call'.op = "benchmark"
    BY <2>1 DEF NoCall
  <2> QED
    BY <1>1, <2>1, <2>2 DEF Working
<1>8. CASE BackUp \/ InjectCombo
  <2>1. pc \in {"backup", "inject"} /\ pc' \in {"inject", "spawn"} /\ call' = call
    BY <1>8 DEF BackUp, InjectCombo
  <2>2. ~call.failed
    BY <2>1 DEF CallSound
  <2> QED
    BY <1>3, <1>d, <2>1, <2>2 DEF Working
<1>9. CASE Spawn
  <2>1. pc = "spawn" /\ pc' = "spawned" /\ spawned' = spawned + 1
    BY <1>9, Zenon DEF Spawn
  <2>2. PICK r : r = spawned' /\ call' = [call EXCEPT !.ref = r, !.refs = @ \cup {r}]
    BY <1>9, Zenon DEF Spawn
  <2>3. call'.ref = spawned' /\ call'.refs = call.refs \cup {spawned'} /\ ~call'.failed
    BY <1>0, <2>1, <2>2, ChangedCalls DEF CallSound
  <2>4. spawned' \in 1 .. spawned' /\ spawned' # 0
    BY <1>a, <2>1
  <2>5. /\ call'.refs \subseteq 1 .. spawned'
        /\ call'.ref # 0 /\ call'.ref \in call'.refs
    BY <1>0, <1>b, <2>3, <2>4
  <2> QED
    BY <2>1, <2>3, <2>5 DEF CallSound, Working
<1>10. CASE TraceStarted \/ TraceResult
  <2>1. PICK kind :
          /\ \/ pc = "spawned" /\ pc' = "started" /\ kind = "process_started"
             \/ pc = "result" /\ pc' = "recorded" /\ kind = ResultKind
          /\ trace' = Append(trace, CallEvent(kind))
          /\ call' = call
    <3>1. CASE TraceStarted
      BY <3>1 DEF TraceStarted, Append1
    <3>2. CASE TraceResult
      BY <3>2 DEF TraceResult, Append1, ResultKind
    <3> QED
      BY <1>10, <3>1, <3>2
  <2>2. CallEvent(kind) \in Event
    BY <1>0, <2>1, CallEventIsEvent DEF AgentTypes, Written, ResultKind
  <2>3. trace' # << >> /\ trace'[Len(trace')] = CallEvent(kind)
    BY <1>0, <2>1, <2>2, AppendedLast, Zenon
  <2>4. CallEvent(kind)' = CallEvent(kind) /\ ResultKind' = ResultKind
    BY <2>1 DEF CallEvent, ResultKind
  <2>5. /\ call'.refs \subseteq 1 .. spawned'
        /\ IF call'.ref = 0 THEN call'.refs = {} /\ ~call'.good ELSE call'.ref \in call'.refs
        /\ ~call.failed /\ ~call'.failed
    BY <1>0, <1>b, <2>1 DEF CallSound
  <2>6. CASE pc = "spawned"
    <3>1. call.ref # 0 /\ trace'[Len(trace')] = CallEvent("process_started")'
      BY <2>1, <2>3, <2>4, <2>6 DEF CallSound, Working, CallEvent
    <3> QED
      BY <2>1, <2>3, <2>5, <2>6, <3>1 DEF CallSound, Working
  <2>7. CASE pc = "result"
    <3>1. trace'[Len(trace')] = CallEvent(ResultKind)'
      BY <2>1, <2>3, <2>4, <2>7 DEF CallEvent
    <3>2. ~Leased(call.ref)' /\ (call'.op = "compile" => call'.ref # 0)
      BY <1>d, <1>e, <2>1, <2>5, <2>7 DEF CallSound, Working, Leased
    <3> QED
      BY <2>1, <2>3, <2>5, <2>7, <3>1, <3>2 DEF CallSound, Working
  <2> QED
    BY <2>1, <2>6, <2>7
<1>11. CASE CheckpointStarted
  <2>1. pc = "started" /\ pc' = "waiting" /\ call' = call /\ UNCHANGED spawned
    BY <1>11 DEF CheckpointStarted, workers
  <2> QED
    BY <1>0, <2>1 DEF CallSound, Working
<1>12. ASSUME NEW status \in {"ended", "unsafe_skip"}, NEW good \in BOOLEAN,
              WorkerEnds(status, good)
       PROVE  CallSound'
  <2>1. /\ pc = "waiting" /\ pc' = IF call.op = "compile" THEN "restore" ELSE "result"
        /\ call' = [call EXCEPT !.good = good] /\ lease' = [lease EXCEPT ![call.ref] = status]
    BY <1>12 DEF WorkerEnds
  <2>2. call'.ref = call.ref /\ call'.refs = call.refs /\ call'.op = call.op /\ ~call'.failed
    BY <1>0, <2>1, ChangedCalls, EndedCall DEF CallSound
  <2>3. call.ref # 0 /\ call.ref \in call.refs
    BY <2>1 DEF CallSound, Working
  <2>4. ~Leased(call.ref)'
    <3>1. ~(k \in DOMAIN lease' /\ lease'[k] = "running")
      BY <1>e, <2>1
    <3> QED
      BY <1>e, <2>2, <3>1 DEF Leased
  <2>5. call'.refs \subseteq 1 .. spawned'
    BY <1>0, <1>b, <2>2
  <2>6. pc' \in {"restore", "result"}
    BY <2>1
  <2> QED
    BY <2>2, <2>3, <2>4, <2>5, <2>6 DEF CallSound, Working
<1>13. CASE CheckpointResult
  <2>1. CASE MoreRuns
    <3>1. pc = "recorded" /\ pc' = "hash" /\ call' = [call EXCEPT !.index = @ + 1, !.good = FALSE]
      BY <1>13, <2>1, Zenon DEF CheckpointResult
    <3>2. call'.ref = call.ref /\ call'.refs = call.refs /\ call'.good = FALSE
          /\ ~call.failed /\ ~call'.failed
      BY <1>0, <3>1, ChangedCalls DEF CallSound
    <3> QED
      BY <1>3, <1>d, <3>1, <3>2 DEF Working
  <2>2. CASE ~MoreRuns
    BY <1>5, <1>13, <2>2, Zenon DEF CheckpointResult, CallEnds
  <2> QED
    BY <2>1, <2>2
<1>14. ASSUME pc # "dead", Raise PROVE CallSound'
  <2>1. CASE call.op = "compile" /\ pc \in {"inject", "spawn", "spawned", "started", "waiting"}
    <3>1. pc' = "restore" /\ call' = [call EXCEPT !.failed = TRUE]
      BY <1>14, <2>1, Zenon DEF Raise
    <3>2. call'.ref = call.ref /\ call'.refs = call.refs /\ call'.good = call.good
          /\ call'.failed = TRUE
      BY <1>0, <3>1, ChangedCalls
    <3> QED
      BY <1>3, <1>14, <3>1, <3>2 DEF Working
  <2>2. CASE ~ (call.op = "compile" /\ pc \in {"inject", "spawn", "spawned", "started", "waiting"})
    <3>1. pc' = "idle" /\ call' = NoCall
      BY <1>14, <2>2, Zenon DEF Raise, CallEnds
    <3> QED
      BY <1>5, <3>1
  <2> QED
    BY <2>1, <2>2
<1>15. CASE FindNoPlaceholder \/ SpawnFails \/ CleanupFails \/ KillOnSpawnFailure
             \/ RejectRecord \/ WriteFails
  <2>1. pc # "dead"
    BY <1>15
       DEF FindNoPlaceholder, SpawnFails, CleanupFails, KillOnSpawnFailure, RejectRecord,
           WriteFails
  <2>2. Raise
    BY <1>15, Zenon
       DEF FindNoPlaceholder, SpawnFails, CleanupFails, KillOnSpawnFailure, RejectRecord,
           WriteFails
  <2> QED
    BY <1>14, <2>1, <2>2
<1>16. CASE HashArtifact \/ ReadForScore \/ ArtifactChanges
  <2>1. /\ call'.ref = call.ref /\ call'.refs = call.refs /\ call'.good = call.good
        /\ call'.op = call.op /\ call'.failed = call.failed
    BY <1>0, <1>16, LookedAtCall DEF Types, WorkTypes
  <2>2. CASE HashArtifact \/ ReadForScore
    <3>1. pc \in {"hash", "read"} /\ pc' \in {"read", "spawn"}
      BY <2>2 DEF HashArtifact, ReadForScore
    <3>2. ~call.failed
      BY <3>1 DEF CallSound
    <3> QED
      BY <1>3, <1>d, <2>1, <3>1, <3>2 DEF Working
  <2>3. CASE ArtifactChanges
    <3>1. /\ UNCHANGED <<pc, trace, lease, spawned>>
          /\ call' = [call EXCEPT !.raced = @ \/ pc = "read"]
      BY <2>3, Zenon DEF ArtifactChanges, journal
    <3>2. CASE pc = "read"
      <4>1. ~call.failed
        BY <3>2 DEF CallSound
      <4> QED
        BY <1>3, <1>d, <2>1, <3>1, <3>2, <4>1 DEF Working
    <3>3. CASE pc # "read"
      <4>1. (call.raced \/ pc = "read") = call.raced
        BY <1>0, <3>3 DEF Call
      <4>2. call' = [call EXCEPT !.raced = call.raced]
        BY <3>1, <4>1, Zenon
      <4>3. call' = call
        BY <1>0, <4>2 DEF Call
      <4> QED
        BY <1>2, <2>1, <3>1, <4>3
    <3> QED
      BY <3>2, <3>3
  <2> QED
    BY <1>16, <2>2, <2>3
<1>17. CASE RestoreSpec
  <2>1. pc = "restore" /\ pc' = "verify" /\ call' = call
    BY <1>17 DEF RestoreSpec
  <2>2. ~call'.failed => call.ref # 0
    BY <2>1 DEF CallSound
  <2> QED
    BY <1>3, <1>d, <1>e, <2>1, <2>2 DEF Working
<1>18. CASE Verify
  <2>1. CASE call.failed \/ ~Verified(call.pre, FailOnDirtySource)
    <3>1. pc = "verify" /\ Raise
      BY <1>18, <2>1, Zenon DEF Verify
    <3> QED
      BY <1>14, <3>1
  <2>2. CASE ~(call.failed \/ ~Verified(call.pre, FailOnDirtySource))
    <3>1. pc = "verify" /\ pc' = "result" /\ call' = call
      BY <1>18, <2>2, Zenon DEF Verify
    <3>2. call.ref # 0 /\ ~call.failed
      BY <2>2, <3>1 DEF CallSound
    <3> QED
      BY <1>3, <1>d, <3>1, <3>2 DEF Working
  <2> QED
    BY <2>1, <2>2
<1>19. CASE RefuseBackup \/ Crash \/ CheckpointTrial
  BY <1>5, <1>19, Zenon DEF RefuseBackup, Crash, CheckpointTrial, CallEnds
<1>20. CASE Resume
  <2>1. pc \in {"dead", "idle"} /\ pc' = "idle" /\ call' = call
    BY <1>20, Zenon DEF Resume
  <2>2. ~call.failed
    BY <2>1 DEF CallSound
  <2> QED
    BY <1>3, <1>d, <2>1, <2>2 DEF Working
<1>21. CASE \/ DefensiveRestore \/ (\E r \in Ref : CleanLease(r)) \/ CollectLeases
            \/ (\E r \in Ref : OrphanExits(r)) \/ UserSaves \/ SourceTreeChanges
            \/ DoctorReads \/ DoctorReports \/ UNCHANGED vars
  <2>1. UNCHANGED journal /\ UNCHANGED agent
    BY <1>21, Zenon
       DEF DefensiveRestore, CleanLease, CollectLeases, OrphanExits, UserSaves,
           SourceTreeChanges, DoctorReads, DoctorReports, vars
  <2> QED
    BY <1>2, <2>1 DEF journal, agent
<1> QED
  BY <1>4, <1>6, <1>7, <1>8, <1>9, <1>10, <1>11, <1>12, <1>13, <1>15, <1>16, <1>17, <1>18,
     <1>19, <1>20, <1>21, Zenon DEF Next, Compile, Run, Recovery, World

-----------------------------------------------------------------------------
(* What the doctor would say *)

LEMMA OneIssue ==
    \A reason, code, severity :
        /\ reason => [code |-> code, severity |-> severity] \in Issue(reason, code, severity)
        /\ \A i \in Issue(reason, code, severity) :
               reason /\ i = [code |-> code, severity |-> severity] /\ i.severity = severity
  BY DEF Issue

LEMMA ReadAtOnce ==
    /\ Atomically.checkpoint = disk /\ Atomically.leases = lease
  BY DEF Atomically

\* No warning means that every lease of the ledger is there and fits its
\* operation, and that running leases are in the ledger.
LEMMA AllLoaded == WorkTypes => Loaded(lease) = DOMAIN lease
  BY DEF WorkTypes, LeaseStatus, Loaded

LEMMA NoWarning ==
    ASSUME JournalTypes, WorkTypes, Severities(Atomically) \subseteq {"info"}
    PROVE  /\ \A o \in Operations(disk) : \A r \in o.refs :
                  /\ r \in DOMAIN lease
                  /\ o.status = "running" => lease[r] = "running"
                  /\ o.status \in Terminal => lease[r] # "running"
                  /\ o.status # "pending"
           /\ \A r \in DOMAIN lease : lease[r] = "running" => r \in Refs(disk)
<1>0. Loaded(lease) = DOMAIN lease
  BY AllLoaded
<1>1. disk # NoCheckpoint
  BY CheckpointAssumption DEF JournalTypes
<1>2. \A i \in Issues(Atomically) : i.severity = "info"
  BY DEF Severities
<1>3. /\ \A o \in Operations(disk) : OperationIssues(o, lease) \subseteq Issues(Atomically)
      /\ OrphanIssues(disk, lease) \subseteq Issues(Atomically)
  BY <1>1, ReadAtOnce DEF Issues
<1>4. ASSUME NEW o \in Operations(disk), NEW r \in o.refs
      PROVE  /\ r \in DOMAIN lease
             /\ o.status = "running" => lease[r] = "running"
             /\ o.status \in Terminal => lease[r] # "running"
             /\ o.status # "pending"
  <2>1. \A i \in OperationIssues(o, lease) : i.severity = "info"
    BY <1>2, <1>3
  <2>2. Issue(o.status = "pending" /\ o.refs # {}, "pending_operation_has_process_refs", "warning")
          \subseteq OperationIssues(o, lease)
    BY DEF OperationIssues
  <2>3. (IF r \in DOMAIN lease THEN StatusIssues(o.status, lease[r])
         ELSE Issue(TRUE, "process_ref_missing", "error")) \subseteq OperationIssues(o, lease)
    BY <1>0 DEF OperationIssues
  <2>4. o.status # "pending"
    BY <2>1, <2>2, OneIssue
  <2>5. r \in DOMAIN lease
    BY <2>1, <2>3, OneIssue
  <2>6. \A i \in StatusIssues(o.status, lease[r]) : i.severity = "info"
    BY <2>1, <2>3, <2>5
  <2>7. ~(o.status = "running" /\ lease[r] # "running")
    BY <2>6, OneIssue DEF StatusIssues
  <2>8. ~(o.status \in Terminal /\ lease[r] = "running")
    BY <2>6, OneIssue DEF StatusIssues
  <2> QED
    BY <2>4, <2>5, <2>7, <2>8
<1>5. ASSUME NEW r \in DOMAIN lease, lease[r] = "running", r \notin Refs(disk)
      PROVE  FALSE
  <2>1. Issue(TRUE, "orphan_process_lease", IF lease[r] = "running" THEN "warning" ELSE "info")
          \subseteq OrphanIssues(disk, lease)
    BY <1>0, <1>5 DEF OrphanIssues
  <2>2. Issue(TRUE, "orphan_process_lease", "warning") \subseteq OrphanIssues(disk, lease)
    BY <1>5, <2>1
  <2>3. PICK i \in Issues(Atomically) : i.severity = "warning"
    <3>1. PICK i : i = [code |-> "orphan_process_lease", severity |-> "warning"]
      OBVIOUS
    <3>2. i \in Issue(TRUE, "orphan_process_lease", "warning") /\ i.severity = "warning"
      BY <3>1 DEF Issue
    <3> QED
      BY <1>3, <2>2, <3>2
  <2> QED
    BY <1>2, <2>3
<1> QED
  BY <1>4, <1>5

LEMMA LastIsTold ==
    ASSUME NEW o, trace \in Seq(Event), Told(o)
    PROVE  Says(LastEvent(o), o.status)
<1>1. PICK i \in DOMAIN trace :
        /\ IsAbout(trace[i], disk.trial, o) /\ Says(trace[i], o.status)
        /\ \A j \in DOMAIN trace : IsAbout(trace[j], disk.trial, o) => j <= i
  BY DEF Told, ToldIn
<1> DEFINE about == {j \in DOMAIN trace : IsAbout(trace[j], disk.trial, o)}
<1>2. i \in about /\ \A j \in about : j <= i
  BY <1>1
<1>3. \A j \in about : j \in Nat
  OBVIOUS
<1> HIDE DEF about
<1>4. (CHOOSE k \in about : \A j \in about : j <= k) = i
  <2>1. PICK l : l = CHOOSE k \in about : \A j \in about : j <= k
    OBVIOUS
  <2>2. l \in about /\ \A j \in about : j <= l
    BY <1>2, <2>1
  <2>3. l <= i /\ i <= l /\ l \in Nat /\ i \in Nat
    BY <1>2, <1>3, <2>2
  <2> QED
    BY <2>1, <2>3
<1>5. LastEvent(o) = trace[CHOOSE k \in about : \A j \in about : j <= k]
  BY DEF LastEvent, about, IsAbout
<1> QED
  BY <1>1, <1>4, <1>5

\* Whenever no call is running and the doctor would find nothing to warn of, the
\* ledger says what the trace says: for any number of workers, failed writes,
\* crashes and resumes (compile.py:168, benchmark.py:232, state_consistency.py:404).
THEOREM LedgerAndTraceAgree == Spec => []NoSilentDivergence
<1>1. Types /\ [Next]_vars => Types'
  BY SpecStep, WorkStep, JournalStep, BoundStep DEF Types
<1>2. Types /\ Ledgers => NoSilentDivergence
  <2> SUFFICES ASSUME Types, Ledgers, Severities(Atomically) \subseteq {"info"},
                      NEW o \in Operations(disk)
               PROVE  CASE o.status = "running" -> LastEvent(o).kind = "process_started"
                        [] o.status = "completed" -> LastEvent(o).good
                        [] OTHER -> LastEvent(o).kind # "process_started" /\ ~LastEvent(o).good
    BY Zenon DEF NoSilentDivergence
  <2>1. JournalTypes /\ WorkTypes /\ trace \in Seq(Event)
    BY DEF Types, JournalTypes
  <2>2. OpTrue(o)
    BY DEF Ledgers, InLedgers, Operations, Ops
  <2>3. o.status = "running" => \A r \in o.refs : Leased(r)
    BY <2>1, NoWarning DEF Leased
  <2>4. Says(LastEvent(o), o.status)
    BY <2>1, <2>2, <2>3, LastIsTold DEF OpTrue
  <2> QED
    BY <2>4 DEF Says
<1> QED
  BY TypesInit, LedgersInit, LedgersStep, CallSoundStep, <1>1, <1>2, PTL DEF Spec

\* A worker that is alive has its lease, and it is not over unless the cleaner
\* gave the worker up.
WorkersLeased == \A r \in alive : r \in DOMAIN lease /\ lease[r] \in {"running", "unsafe_skip"}

LEMMA WorkersLeasedStep == WorkersLeased /\ [Next]_vars => WorkersLeased'
<1> SUFFICES ASSUME WorkersLeased, [Next]_vars PROVE WorkersLeased'
  OBVIOUS
<1>1. CASE Spawn
  <2>1. lease' = With(lease, spawned', "running") /\ alive' = alive \cup {spawned'}
    BY <1>1, Zenon DEF Spawn
  <2> QED
    BY <2>1 DEF With, WorkersLeased
<1>2. ASSUME NEW r, NEW status, lease' = [lease EXCEPT ![r] = status],
             alive' \subseteq alive, r \in alive' => status \in {"running", "unsafe_skip"}
      PROVE  WorkersLeased'
  BY <1>2 DEF WorkersLeased
<1>3. CASE KillOnSpawnFailure
  <2>1. PICK status \in {"ended", "unsafe_skip"} :
          /\ lease' = [lease EXCEPT ![call.ref] = status]
          /\ alive' = IF status = "unsafe_skip" THEN alive ELSE alive \ {call.ref}
    BY <1>3, Zenon DEF KillOnSpawnFailure, Stopped, KeepsRunning
  <2>2. alive' \subseteq alive /\ (call.ref \in alive' => status \in {"running", "unsafe_skip"})
    BY <2>1
  <2> QED
    BY <1>2, <2>1, <2>2
<1>4. ASSUME NEW status \in {"ended", "unsafe_skip"}, NEW good \in BOOLEAN,
             WorkerEnds(status, good)
      PROVE  WorkersLeased'
  <2>1. lease' = [lease EXCEPT ![call.ref] = status]
        /\ alive' = IF status = "unsafe_skip" THEN alive ELSE alive \ {call.ref}
    BY <1>4, Zenon DEF WorkerEnds, Stopped, KeepsRunning
  <2>2. alive' \subseteq alive /\ (call.ref \in alive' => status \in {"running", "unsafe_skip"})
    BY <2>1
  <2> QED
    BY <1>2, <2>1, <2>2
<1>5. ASSUME NEW r, CleanLease(r) PROVE WorkersLeased'
  <2>1. lease' = [lease EXCEPT ![r] = "ended"] /\ alive' = alive \ {r}
    BY <1>5 DEF CleanLease
  <2>2. alive' \subseteq alive /\ r \notin alive'
    BY <2>1
  <2> QED
    BY <1>2, <2>1, <2>2
<1>6. CASE CollectLeases
  <2>1. lease' = [x \in DOMAIN lease \cap alive |-> lease[x]] /\ alive' = alive
    BY <1>6 DEF CollectLeases, Restrict
  <2> QED
    BY <2>1 DEF WorkersLeased
<1>7. CASE lease' = lease /\ alive' \subseteq alive
  BY <1>7 DEF WorkersLeased
<1>8. \/ Spawn \/ KillOnSpawnFailure \/ CollectLeases
      \/ (\E status \in {"ended", "unsafe_skip"}, good \in BOOLEAN : WorkerEnds(status, good))
      \/ (\E r \in Ref : CleanLease(r)) \/ (lease' = lease /\ alive' \subseteq alive)
  BY DEF Next, Compile, Run, Recovery, World, BeginTrial, CheckpointTrial, CompileBegins,
         BackUp, RefuseBackup, InjectCombo, FindNoPlaceholder, BenchmarkBegins, HashArtifact,
         ReadForScore, SpawnFails, CleanupFails, TraceStarted, CheckpointStarted, RestoreSpec,
         Verify, TraceResult, RejectRecord, CheckpointResult, WriteFails, Crash, Resume,
         DefensiveRestore, OrphanExits, ArtifactChanges, UserSaves, SourceTreeChanges,
         DoctorReads, DoctorReports, vars, workers
<1> QED
  BY <1>1, <1>3, <1>4, <1>5, <1>6, <1>7, <1>8

\* A worker that outlives its agent or its call is in the ledger as running,
\* was given up by the cleaner, or the doctor warns, for any number of workers
\* and crashes (state_consistency.py:404 and 437).
THEOREM SurvivorsStayKnown == Spec => []SurvivorsAreKnown
<1>1. Types /\ [Next]_vars => Types'
  BY SpecStep, WorkStep, JournalStep, BoundStep DEF Types
<1>2. Init => WorkersLeased
  BY DEF Init, WorkersLeased
<1>3. Types /\ WorkersLeased => SurvivorsAreKnown
  <2> SUFFICES ASSUME Types, WorkersLeased, NEW r \in alive,
                      Severities(Atomically) \subseteq {"info"}, lease[r] # "unsafe_skip"
               PROVE  \E o \in Operations(disk) : o.status = "running" /\ r \in o.refs
    BY DEF SurvivorsAreKnown, WorkersLeased
  <2>1. JournalTypes /\ WorkTypes
    BY DEF Types
  <2>2. r \in DOMAIN lease /\ lease[r] = "running"
    BY DEF WorkersLeased
  <2>3. PICK o \in Operations(disk) : r \in o.refs
    BY <2>1, <2>2, NoWarning DEF Refs
  <2>4. o.status \in OperationStatus
    <3>1. disk.operations \in Seq(Operation)
      BY <2>1 DEF JournalTypes, Checkpoint
    <3>2. \A i \in DOMAIN disk.operations : disk.operations[i] \in Operation
      BY <3>1
    <3>3. o \in Operation
      BY <3>2 DEF Operations
    <3> QED
      BY <3>3 DEF Operation
  <2>5. o.status \notin Terminal /\ o.status # "pending"
    BY <2>1, <2>2, <2>3, NoWarning
  <2> QED
    BY <2>3, <2>4, <2>5 DEF OperationStatus, Terminal
<1> QED
  BY TypesInit, WorkersLeasedStep, <1>1, <1>2, <1>3, PTL DEF Spec

-----------------------------------------------------------------------------
(* What the doctor reads while a session goes on *)

\* The lines a checkpoint counts, and the start line of its trial, are there.
Within(c) == (c.count # Missing => c.count <= Len(trace)) /\ c.start <= Len(trace)

\* Nobody counts a line that is not in the trace.
Counted ==
    /\ Within(disk)
    /\ pc # "dead" => Within(mine)
    /\ writer.count <= Len(trace)
    /\ pc \in Written => writer.ledger.start <= Len(trace)

LEMMA TraceGrows ==
    ASSUME Types, [Next]_vars
    PROVE  /\ Len(trace) \in Nat /\ Len(trace') \in Nat /\ Len(trace) <= Len(trace')
           /\ \A i \in DOMAIN trace : i \in DOMAIN trace' /\ trace'[i] = trace[i]
<1>1. trace \in Seq(Event)
  BY DEF Types, JournalTypes
<1>2. trace' = trace \/ \E e : trace' = Append(trace, e)
  <2>1. CASE \E w, e : Append1(w, e)
    BY <2>1 DEF Append1
  <2>2. CASE \E c : Persist(c)
    BY <2>2 DEF Persist
  <2>3. CASE UNCHANGED trace
    BY <2>3
  <2>4. (\E w, e : Append1(w, e)) \/ (\E c : Persist(c)) \/ UNCHANGED trace
    BY Zenon
       DEF Next, Compile, Run, Recovery, World, BeginTrial, CheckpointTrial, CompileBegins,
           BackUp, RefuseBackup, InjectCombo, FindNoPlaceholder, BenchmarkBegins, Spawn,
           HashArtifact, ReadForScore, SpawnFails, CleanupFails, TraceStarted,
           CheckpointStarted, KillOnSpawnFailure, WorkerEnds, RestoreSpec, Verify, TraceResult,
           RejectRecord, CheckpointResult, WriteFails, Crash, Resume, DefensiveRestore,
           CleanLease, CollectLeases, OrphanExits, ArtifactChanges, UserSaves,
           SourceTreeChanges, DoctorReads, DoctorReports, vars, journal
  <2> QED
    BY <2>1, <2>2, <2>3, <2>4
<1>3. CASE trace' = trace
  BY <1>1, <1>3
<1>4. CASE \E e : trace' = Append(trace, e)
  <2>1. PICK e : trace' = Append(trace, e)
    BY <1>4
  <2>2. Len(trace') = Len(trace) + 1
    BY <1>1, <2>1
  <2> QED
    BY <1>1, <2>1, <2>2
<1> QED
  BY <1>2, <1>3, <1>4

\* A lease that is gone does not come back, and a torn trace stays torn.
LEMMA LostIsLost ==
    ASSUME Types, [Next]_vars
    PROVE  /\ \A r \in DOMAIN lease' \ DOMAIN lease :
                  r = spawned' /\ spawned' = spawned + 1
           /\ torn => torn'
<1>1. \A r \in DOMAIN lease' \ DOMAIN lease : r = spawned' /\ spawned' = spawned + 1
  <2>1. CASE Spawn
    <3>1. spawned' = spawned + 1 /\ lease' = With(lease, spawned', "running")
      BY <2>1, Zenon DEF Spawn
    <3> QED
      BY <3>1 DEF With
  <2>2. CASE DOMAIN lease' \subseteq DOMAIN lease
    BY <2>2
  <2>3. CASE \E r, status : lease' = [lease EXCEPT ![r] = status]
    BY <2>3
  <2>4. CASE CollectLeases
    BY <2>4 DEF CollectLeases, Restrict
  <2>5. CASE UNCHANGED lease
    BY <2>5
  <2>6. \/ Spawn \/ (\E r, status : lease' = [lease EXCEPT ![r] = status]) \/ CollectLeases
        \/ UNCHANGED lease
    BY Zenon
       DEF Next, Compile, Run, Recovery, World, BeginTrial, CheckpointTrial, CompileBegins,
           BackUp, RefuseBackup, InjectCombo, FindNoPlaceholder, BenchmarkBegins, HashArtifact,
           ReadForScore, SpawnFails, CleanupFails, TraceStarted, CheckpointStarted,
           KillOnSpawnFailure, WorkerEnds, RestoreSpec, Verify, TraceResult, RejectRecord,
           CheckpointResult, WriteFails, Crash, Resume, DefensiveRestore, CleanLease,
           OrphanExits, ArtifactChanges, UserSaves, SourceTreeChanges, DoctorReads,
           DoctorReports, vars, workers
  <2> QED
    BY <2>1, <2>3, <2>4, <2>5, <2>6
<1>2. torn => torn'
  <2>1. CASE Crash
    BY <2>1 DEF Crash
  <2>2. CASE \E c : Persist(c)
    BY <2>2 DEF Persist
  <2>3. CASE UNCHANGED torn
    BY <2>3
  <2>4. Crash \/ (\E c : Persist(c)) \/ UNCHANGED torn
    BY Zenon
       DEF Next, Compile, Run, Recovery, World, BeginTrial, CheckpointTrial, CompileBegins,
           BackUp, RefuseBackup, InjectCombo, FindNoPlaceholder, BenchmarkBegins, Spawn,
           HashArtifact, ReadForScore, SpawnFails, CleanupFails, TraceStarted,
           CheckpointStarted, KillOnSpawnFailure, WorkerEnds, RestoreSpec, Verify, TraceResult,
           RejectRecord, CheckpointResult, WriteFails, Resume, DefensiveRestore, CleanLease,
           CollectLeases, OrphanExits, ArtifactChanges, UserSaves, SourceTreeChanges,
           DoctorReads, DoctorReports, vars, journal
  <2> QED
    BY <2>1, <2>2, <2>3, <2>4
<1> QED
  BY <1>1, <1>2

LEMMA AttachedCount ==
    ASSUME NEW c \in Checkpoint, trace \in Seq(Event), Within(c)
    PROVE  Attached(c).count \in Nat /\ Attached(c).count <= Len(trace)
<1>1. Len(trace) \in Nat
  BY LenProperties
<1>2. c.count # Missing => c.count \in Nat /\ c.count <= Len(trace)
  BY DEF Checkpoint, Within
<1> DEFINE n == IF c.count = Missing THEN Len(trace) ELSE c.count
<1>3. n \in Nat /\ n <= Len(trace)
  BY <1>1, <1>2
<1>4. Attached(c) = [count |-> n, ledger |-> c]
  BY Zenon DEF Attached
<1> HIDE DEF n
<1> QED
  BY <1>3, <1>4

LEMMA AppendedCount ==
    ASSUME NEW w \in Writer, NEW e, trace \in Seq(Event), Append1(w, e), w.count <= Len(trace)
    PROVE  /\ writer'.count <= Len(trace') /\ writer'.ledger = w.ledger
<1>1. trace' = Append(trace, e) /\ writer' = [w EXCEPT !.count = w.count + 1]
  BY Zenon DEF Append1
<1>2. writer'.count = w.count + 1 /\ writer'.ledger = w.ledger /\ w.count \in Nat
  BY <1>1 DEF Writer
<1>3. Len(trace') = Len(trace) + 1 /\ Len(trace) \in Nat
  BY <1>1
<1> QED
  BY <1>2, <1>3

LEMMA CountedInit == Init => Counted
<1> SUFFICES ASSUME Init PROVE Counted
  OBVIOUS
<1>1. pc = "idle" /\ mine = disk /\ writer.count = 0 /\ Len(trace) = 0
  BY DEF Init, NoWriter
<1>2. disk.start = 0 /\ disk.count \in {0, Missing}
  BY DEF Init
<1> QED
  BY <1>1, <1>2 DEF Counted, Within, Written

\* Lines are counted after they were appended, and none is ever removed.
LEMMA CountedStep == Types /\ Counted /\ [Next]_vars => Counted'
<1> SUFFICES ASSUME Types, Counted, [Next]_vars PROVE Counted'
  OBVIOUS
<1>0. /\ AgentTypes /\ Types' /\ trace \in Seq(Event) /\ disk \in Checkpoint
      /\ writer \in Writer /\ (pc # "dead" => mine \in Checkpoint)
      /\ (pc \in Written => writer.ledger \in Checkpoint)
  BY SpecStep, WorkStep, JournalStep, BoundStep DEF Types, JournalTypes, AgentTypes
<1>n. /\ Len(trace) \in Nat /\ Len(trace') \in Nat /\ Len(trace) <= Len(trace')
  BY TraceGrows
<1>a. \A n \in Nat : n <= Len(trace) => n <= Len(trace')
  BY <1>n
<1>b. /\ (disk.count \in Nat \/ disk.count = Missing) /\ disk.start \in Nat
      /\ (pc # "dead" => (mine.count \in Nat \/ mine.count = Missing) /\ mine.start \in Nat)
      /\ writer.count \in Nat
      /\ (pc \in Written => writer.ledger.start \in Nat)
  BY <1>0 DEF Checkpoint, Writer
<1>d. disk' = disk => Within(disk)'
  BY <1>a, <1>b DEF Counted, Within
<1>m. pc # "dead" /\ mine' = mine => Within(mine)'
  BY <1>a, <1>b DEF Counted, Within
<1>w. writer.count <= Len(trace') /\ (pc \in Written => writer.ledger.start <= Len(trace'))
  BY <1>a, <1>b DEF Counted
<1>1. CASE /\ disk' = disk /\ mine' = mine /\ writer' = writer
           /\ pc' = "dead" \/ pc # "dead"
           /\ pc' \in Written => pc \in Written
  BY <1>1, <1>d, <1>m, <1>w DEF Counted
<1>2. ASSUME NEW t \in Trial, BeginTrial(t) PROVE Counted'
  <2>1. PICK e : Append1(Attached(mine), e)
    BY <1>2 DEF BeginTrial
  <2>2. pc = "idle" /\ pc' = "begun" /\ UNCHANGED <<disk, mine>>
    BY <1>2, Zenon DEF BeginTrial
  <2>3. mine \in Checkpoint /\ Within(mine)
    BY <1>0, <2>2 DEF Counted
  <2>4. Attached(mine) \in Writer /\ Attached(mine).count <= Len(trace)
    BY <1>0, <2>3, Attaching, AttachedCount
  <2>5. writer'.count <= Len(trace')
    BY <1>0, <2>1, <2>4, AppendedCount
  <2> QED
    BY <1>d, <1>m, <2>2, <2>5 DEF Counted, Written
<1>3. CASE CheckpointTrial
  <2> DEFINE c == [mine EXCEPT !.trial = call.trial, !.start = writer.count,
                               !.operations = << >>]
  <2>1. pc = "begun" /\ pc' = "idle" /\ Persist(c) /\ mine' = disk'
    BY <1>3, Zenon DEF CheckpointTrial, CallEnds
  <2>2. mine \in Checkpoint /\ call.trial \in Trial /\ writer.count \in Nat
    BY <1>0, <2>1 DEF AgentTypes, Writer
  <2>3. c \in Checkpoint /\ c.start = writer.count
    <3>1. c \in Checkpoint
      BY <2>2, TrialCheckpoint, Zenon
    <3>2. c.start = writer.count
      BY <2>2 DEF Checkpoint
    <3> QED
      BY <3>1, <3>2
  <2>4. disk' = [c EXCEPT !.count = writer.count] /\ writer' = [writer EXCEPT !.ledger = disk']
    BY <2>1, Zenon DEF Persist
  <2> HIDE DEF c
  <2>5. disk'.count = writer.count /\ disk'.start = writer.count /\ writer'.count = writer.count
    BY <1>0, <2>3, <2>4, CountedOps DEF Writer
  <2> QED
    BY <1>w, <2>1, <2>5 DEF Counted, Within, Written
<1>4. CASE BackUp \/ BenchmarkBegins
  <2>1. pc \in {"idle", "backup"} /\ writer' = Attached(mine) /\ UNCHANGED <<mine, disk, trace>>
    BY <1>4, Zenon DEF BackUp, BenchmarkBegins, journal
  <2>2. mine \in Checkpoint /\ Within(mine)
    BY <1>0, <2>1 DEF Counted
  <2>3. writer'.ledger = mine /\ writer'.count <= Len(trace)
    BY <1>0, <2>1, <2>2, Attaching, AttachedCount
  <2> QED
    BY <1>d, <1>m, <2>1, <2>2, <2>3 DEF Counted, Within
<1>5. CASE TraceStarted \/ TraceResult
  <2>1. PICK e : Append1(writer, e)
    BY <1>5 DEF TraceStarted, TraceResult
  <2>2. pc \in {"spawned", "result"} /\ UNCHANGED <<disk, mine>>
    BY <1>5, Zenon DEF TraceStarted, TraceResult
  <2>3. writer'.count <= Len(trace') /\ writer'.ledger = writer.ledger
    BY <1>0, <2>1, AppendedCount DEF Counted
  <2> QED
    BY <1>d, <1>m, <1>w, <2>2, <2>3 DEF Counted, Written
<1>6. CASE CheckpointStarted \/ CheckpointResult
  <2>1. PICK status \in OperationStatus :
          pc \in {"started", "recorded"} /\ Persist(WithOperation(writer.ledger, status))
    <3>1. CASE CheckpointStarted
      BY <3>1, Statuses, Zenon DEF CheckpointStarted
    <3>2. CASE CheckpointResult
      BY <3>2, Statuses, Zenon DEF CheckpointResult
    <3> QED
      BY <1>6, <3>1, <3>2
  <2>2. /\ disk'.start = writer.ledger.start /\ disk'.count = writer.count
        /\ writer'.ledger = disk' /\ writer'.count = writer.count
    BY <2>1, WrittenOps
  <2>3. pc \in Written /\ (mine' = mine \/ mine' = disk')
    BY <1>6, <2>1 DEF CheckpointStarted, CheckpointResult, Written
  <2>4. Within(disk)' /\ writer'.count <= Len(trace') /\ writer'.ledger.start <= Len(trace')
    BY <1>w, <2>2, <2>3 DEF Within
  <2>5. Within(mine)'
    <3>1. pc # "dead"
      BY <2>1
    <3>2. CASE mine' = mine
      BY <1>m, <3>1, <3>2
    <3>3. CASE mine' = disk'
      BY <2>4, <3>3 DEF Within
    <3> QED
      BY <2>3, <3>2, <3>3
  <2> QED
    BY <2>4, <2>5 DEF Counted
<1>7. ASSUME pc # "dead", Raise, disk' = disk PROVE Counted'
  <2>1. /\ mine' = mine
        /\ \/ writer' = writer /\ pc \in Written
           \/ writer' = NoWriter /\ pc' = "idle"
    BY <1>7, Zenon DEF Raise, CallEnds, Written
  <2>2. NoWriter.count = 0
    BY DEF NoWriter
  <2>3. CASE writer' = writer /\ pc \in Written
    BY <1>7, <1>d, <1>m, <1>w, <2>1, <2>3 DEF Counted
  <2>4. CASE writer' = NoWriter /\ pc' = "idle"
    BY <1>7, <1>d, <1>m, <1>n, <2>1, <2>2, <2>4 DEF Counted, Written
  <2> QED
    BY <2>1, <2>3, <2>4
<1>8. CASE FindNoPlaceholder \/ SpawnFails \/ CleanupFails \/ KillOnSpawnFailure \/ RejectRecord
             \/ WriteFails
  <2>1. pc # "dead"
    BY <1>8
       DEF FindNoPlaceholder, SpawnFails, CleanupFails, KillOnSpawnFailure, RejectRecord,
           WriteFails
  <2>2. Raise /\ UNCHANGED journal
    BY <1>8, Zenon
       DEF FindNoPlaceholder, SpawnFails, CleanupFails, KillOnSpawnFailure, RejectRecord,
           WriteFails
  <2>3. disk' = disk
    BY <2>2 DEF journal
  <2> QED
    BY <1>7, <2>1, <2>2, <2>3
<1>9. CASE Verify
  <2>1. pc = "verify" /\ disk' = disk
    BY <1>9 DEF Verify, journal
  <2>2. Raise \/ (pc' = "result" /\ UNCHANGED <<mine, writer>>)
    BY <1>9, Zenon DEF Verify
  <2>3. CASE Raise
    BY <1>7, <2>1, <2>3
  <2>4. CASE pc' = "result" /\ UNCHANGED <<mine, writer>>
    BY <1>1, <2>1, <2>4 DEF Written
  <2> QED
    BY <2>2, <2>3, <2>4
<1>10. CASE Crash
  <2>1. pc' = "dead" /\ disk' = disk /\ writer' = NoWriter
    BY <1>10, Zenon DEF Crash
  <2>2. NoWriter.count = 0
    BY DEF NoWriter
  <2> QED
    BY <1>d, <1>n, <2>1, <2>2 DEF Counted, Written
<1>11. CASE Resume
  <2>1. mine' = [disk EXCEPT !.count = Len(trace)] /\ pc' = "idle" /\ disk' = disk
        /\ UNCHANGED <<trace, writer>>
    BY <1>11, Zenon DEF Resume, Reconciled, journal
  <2>2. mine'.count = Len(trace) /\ mine'.start = disk.start
    BY <1>0, <2>1, CountedOps
  <2>3. Within(mine)'
    BY <1>n, <2>1, <2>2 DEF Within, Counted
  <2> QED
    BY <1>d, <1>w, <2>1, <2>3 DEF Counted, Written
<1>12. CASE CompileBegins \/ RefuseBackup \/ InjectCombo \/ Spawn \/ RestoreSpec
            \/ (\E status \in {"ended", "unsafe_skip"}, good \in BOOLEAN : WorkerEnds(status, good))
  <2>1. UNCHANGED journal /\ UNCHANGED <<mine, writer>>
    BY <1>12, Zenon
       DEF CompileBegins, RefuseBackup, InjectCombo, Spawn, RestoreSpec, WorkerEnds
  <2>2. pc # "dead" /\ (pc' \in Written => pc \in Written)
    BY <1>12
       DEF CompileBegins, RefuseBackup, InjectCombo, Spawn, RestoreSpec, WorkerEnds,
           CallEnds, Written
  <2> QED
    BY <1>1, <2>1, <2>2 DEF journal
<1>13. CASE UNCHANGED journal /\ UNCHANGED agent
  BY <1>13 DEF journal, agent, Counted, Within
<1>14. CASE \/ DefensiveRestore \/ (\E r \in Ref : CleanLease(r)) \/ CollectLeases
            \/ (\E r \in Ref : OrphanExits(r)) \/ UserSaves \/ SourceTreeChanges
            \/ DoctorReads \/ DoctorReports \/ UNCHANGED vars
  <2>1. UNCHANGED journal /\ UNCHANGED agent
    BY <1>14, Zenon
       DEF DefensiveRestore, CleanLease, CollectLeases, OrphanExits, UserSaves,
           SourceTreeChanges, DoctorReads, DoctorReports, vars
  <2> QED
    BY <1>13, <2>1
<1>15. CASE HashArtifact \/ ReadForScore \/ ArtifactChanges
  <2>1. /\ UNCHANGED <<disk, mine, writer>>
        /\ pc' = pc \/ (pc \in Written /\ pc # "dead" /\ pc' \in {"read", "spawn"})
    BY <1>15 DEF HashArtifact, ReadForScore, ArtifactChanges, journal, Written
  <2> QED
    BY <1>1, <2>1
<1> QED
  BY <1>2, <1>3, <1>4, <1>5, <1>6, <1>8, <1>9, <1>10, <1>11, <1>12, <1>14, <1>15, Zenon
     DEF Next, Compile, Run, Recovery, World

\* What the files f that the doctor has read say, now that the session has gone
\* on: each was true when it was read, and what could make an error of it does
\* not happen later.
CheckpointSeen(f) ==
    /\ f.checkpoint \in Checkpoint /\ Within(f.checkpoint)
    /\ Refs(f.checkpoint) \subseteq 1 .. spawned

LinesSeen(f) ==
    /\ f.count \in Nat /\ f.count <= Len(trace)
    /\ f.checkpoint.count # Missing => f.checkpoint.count <= f.count
    /\ f.checkpoint.start <= f.count
    /\ f.readable \/ torn

SessionsSeen(f) == f.spanned \/ torn

ListSeen(f) ==
    /\ DOMAIN f.leases \subseteq 1 .. spawned
    /\ \A r \in Refs(f.checkpoint) : r \in DOMAIN lease => r \in DOMAIN f.leases

LeasesSeen(f) ==
    \A r \in DOMAIN f.leases : r \in DOMAIN lease => f.leases[r] \in LeaseStatus

StartSeen(f) ==
    /\ f.intact \/ torn
    /\ f.checkpoint.start # 0 => f.checkpoint.start \in DOMAIN f.anchored
    /\ \A k \in DOMAIN f.anchored : k \in DOMAIN trace /\ f.anchored[k] = trace[k]

Seen ==
    /\ DOMAIN lease \subseteq 1 .. spawned
    /\ DOMAIN doctor.files = DOMAIN NothingRead
    /\ doctor.read >= 1 => CheckpointSeen(doctor.files)
    /\ doctor.read >= 2 => LinesSeen(doctor.files)
    /\ doctor.read >= 3 => SessionsSeen(doctor.files)
    /\ doctor.read >= 4 => ListSeen(doctor.files)
    /\ doctor.read >= 5 => LeasesSeen(doctor.files)
    /\ doctor.read >= 6 => StartSeen(doctor.files)

LEMMA FieldsRead ==
    DOMAIN NothingRead = {"checkpoint", "count", "readable", "spanned", "sessions", "leases",
                          "anchored", "intact"}
  BY DEF NothingRead

LEMMA ReadingCheckpoint ==
    ASSUME NEW f, DOMAIN f = DOMAIN NothingRead, NEW g, g = Read("checkpoint", f)
    PROVE  DOMAIN g = DOMAIN f /\ g.checkpoint = disk
<1>1. g = [f EXCEPT !.checkpoint = disk]
  BY DEF Read
<1> QED
  BY <1>1, FieldsRead

LEMMA ReadingLines ==
    ASSUME NEW f, DOMAIN f = DOMAIN NothingRead, NEW g, g = Read("lines", f)
    PROVE  /\ DOMAIN g = DOMAIN f /\ g.checkpoint = f.checkpoint
           /\ g.count = Len(trace) /\ g.readable = ~torn
<1>1. g = [f EXCEPT !.count = Len(trace), !.readable = ~torn]
  BY DEF Read
<1> QED
  BY <1>1, FieldsRead

LEMMA ReadingSessions ==
    ASSUME NEW f, DOMAIN f = DOMAIN NothingRead, NEW g, g = Read("sessions", f)
    PROVE  /\ DOMAIN g = DOMAIN f /\ g.checkpoint = f.checkpoint
           /\ g.count = f.count /\ g.readable = f.readable /\ g.spanned = ~torn
<1>1. PICK s : g = [f EXCEPT !.spanned = ~torn, !.sessions = s]
  BY DEF Read
<1> QED
  BY <1>1, FieldsRead

LEMMA ReadingList ==
    ASSUME NEW f, DOMAIN f = DOMAIN NothingRead, NEW g, g = Read("lease list", f)
    PROVE  /\ DOMAIN g = DOMAIN f /\ g.checkpoint = f.checkpoint
           /\ g.count = f.count /\ g.readable = f.readable
           /\ g.spanned = f.spanned /\ DOMAIN g.leases = DOMAIN lease
<1>1. PICK a : a = [r \in DOMAIN lease |-> "invalid"] /\ g = [f EXCEPT !.leases = a]
  BY DEF Read
<1> QED
  BY <1>1, FieldsRead

LEMMA ReadingLeases ==
    ASSUME NEW f, DOMAIN f = DOMAIN NothingRead, NEW g, g = Read("leases", f)
    PROVE  /\ DOMAIN g = DOMAIN f /\ g.checkpoint = f.checkpoint
           /\ g.count = f.count /\ g.readable = f.readable
           /\ g.spanned = f.spanned /\ DOMAIN g.leases = DOMAIN f.leases
           /\ \A r \in DOMAIN g.leases : r \in DOMAIN lease => g.leases[r] = lease[r]
<1>1. PICK a : /\ a = [r \in DOMAIN f.leases |->
                          IF r \in DOMAIN lease THEN lease[r] ELSE "invalid"]
               /\ g = [f EXCEPT !.leases = a]
  BY DEF Read
<1> QED
  BY <1>1, FieldsRead

LEMMA ReadingStart ==
    ASSUME NEW f, DOMAIN f = DOMAIN NothingRead, NEW g, g = Read("start line", f)
    PROVE  /\ DOMAIN g = DOMAIN f /\ g.checkpoint = f.checkpoint
           /\ g.count = f.count /\ g.readable = f.readable
           /\ g.spanned = f.spanned /\ g.leases = f.leases /\ g.intact = ~torn
           /\ g.anchored = [k \in DOMAIN trace \cap {f.checkpoint.start} |-> trace[k]]
<1>1. PICK a : /\ a = [k \in DOMAIN trace \cap {f.checkpoint.start} |-> trace[k]]
               /\ g = [f EXCEPT !.intact = ~torn, !.anchored = a]
  BY DEF Read, Restrict
<1> QED
  BY <1>1, FieldsRead

LEMMA SeenInit == Init => Seen
<1> SUFFICES ASSUME Init PROVE Seen
  OBVIOUS
<1>1. doctor.read = 0 /\ doctor.files = NothingRead /\ DOMAIN lease = {}
  BY DEF Init
<1> QED
  BY <1>1 DEF Seen

\* What was seen stays so, in the files f or with one more file in g.
LEMMA SeenStays ==
    ASSUME Types, [Next]_vars, NEW f, NEW g, g.checkpoint = f.checkpoint
    PROVE  /\ CheckpointSeen(f) => CheckpointSeen(g)'
           /\ LinesSeen(f) /\ g.count = f.count /\ g.readable = f.readable => LinesSeen(g)'
           /\ SessionsSeen(f) /\ g.spanned = f.spanned => SessionsSeen(g)'
           /\ CheckpointSeen(f) /\ ListSeen(f) /\ DOMAIN g.leases = DOMAIN f.leases
                => ListSeen(g)'
           /\ ListSeen(f) /\ LeasesSeen(f) /\ g.leases = f.leases => LeasesSeen(g)'
           /\ StartSeen(f) /\ g.intact = f.intact /\ g.anchored = f.anchored => StartSeen(g)'
<1>1. /\ Len(trace) \in Nat /\ Len(trace') \in Nat /\ Len(trace) <= Len(trace')
      /\ \A i \in DOMAIN trace : i \in DOMAIN trace' /\ trace'[i] = trace[i]
  BY TraceGrows
<1>2. spawned \in Nat /\ spawned' \in Nat /\ spawned <= spawned'
  BY LeasesEnd
<1>3. /\ \A r \in 1 .. spawned : r \in DOMAIN lease' => r \in DOMAIN lease
      /\ torn => torn'
  BY <1>2, LostIsLost
<1>4. ASSUME CheckpointSeen(f) PROVE CheckpointSeen(g)'
  <2>1. /\ f.checkpoint \in Checkpoint /\ Within(f.checkpoint)
        /\ Refs(f.checkpoint) \subseteq 1 .. spawned
    BY <1>4 DEF CheckpointSeen
  <2>2. (f.checkpoint.count # Missing => f.checkpoint.count <= Len(trace'))
        /\ f.checkpoint.start <= Len(trace')
    BY <1>1, <2>1 DEF Within, Checkpoint
  <2>3. Refs(f.checkpoint) \subseteq 1 .. spawned'
    BY <1>2, <2>1
  <2> QED
    BY <2>1, <2>2, <2>3 DEF CheckpointSeen, Within
<1>5. ASSUME LinesSeen(f), g.count = f.count, g.readable = f.readable PROVE LinesSeen(g)'
  BY <1>1, <1>3, <1>5 DEF LinesSeen
<1>6. ASSUME SessionsSeen(f), g.spanned = f.spanned PROVE SessionsSeen(g)'
  BY <1>3, <1>6 DEF SessionsSeen
<1>7. ASSUME CheckpointSeen(f), ListSeen(f), DOMAIN g.leases = DOMAIN f.leases
      PROVE  ListSeen(g)'
  BY <1>2, <1>3, <1>7 DEF CheckpointSeen, ListSeen
<1>8. ASSUME ListSeen(f), LeasesSeen(f), g.leases = f.leases PROVE LeasesSeen(g)'
  BY <1>3, <1>8 DEF ListSeen, LeasesSeen
<1>9. ASSUME StartSeen(f), g.intact = f.intact, g.anchored = f.anchored PROVE StartSeen(g)'
  BY <1>1, <1>3, <1>9 DEF StartSeen
<1> QED
  BY <1>4, <1>5, <1>6, <1>7, <1>9, <1>8

\* The doctor reads the checkpoint first: what is read after it has all the
\* lines and leases that the checkpoint tells of.
LEMMA SeenStep == Types /\ Ledgers /\ Counted /\ Seen /\ [Next]_vars => Seen'
<1> SUFFICES ASSUME Types, Ledgers, Counted, Seen, [Next]_vars PROVE Seen'
  OBVIOUS
<1>0. /\ trace \in Seq(Event) /\ disk \in Checkpoint /\ torn \in BOOLEAN
      /\ doctor.read \in 0 .. 6
  BY DEF Types, JournalTypes, BoundTypes
<1>a. PICK f : f = doctor.files
  OBVIOUS
<1>b. PICK n : n = doctor.read
  OBVIOUS
<1>c. /\ DOMAIN f = DOMAIN NothingRead
      /\ n >= 1 => CheckpointSeen(f)
      /\ n >= 2 => LinesSeen(f)
      /\ n >= 3 => SessionsSeen(f)
      /\ n >= 4 => ListSeen(f)
      /\ n >= 5 => LeasesSeen(f)
      /\ n >= 6 => StartSeen(f)
  BY <1>a, <1>b, Zenon DEF Seen
<1>d. DOMAIN lease' \subseteq 1 .. spawned'
  <2>1. DOMAIN lease \subseteq 1 .. spawned
    BY DEF Seen
  <2>2. spawned \in Nat /\ spawned' \in Nat /\ spawned <= spawned'
    BY LeasesEnd
  <2>3. \A r \in DOMAIN lease' \ DOMAIN lease : r = spawned' /\ spawned' = spawned + 1
    BY LostIsLost
  <2> QED
    BY <2>1, <2>2, <2>3
<1>1. CASE doctor' = doctor
  <2>1. /\ n >= 1 => CheckpointSeen(f)'
        /\ n >= 2 => LinesSeen(f)'
        /\ n >= 3 => SessionsSeen(f)'
        /\ n >= 4 => ListSeen(f)'
        /\ n >= 5 => LeasesSeen(f)'
        /\ n >= 6 => StartSeen(f)'
    BY <1>0, <1>b, <1>c, SeenStays
  <2>2. doctor'.files = f /\ doctor'.read = n
    BY <1>1, <1>a, <1>b
  <2> QED
    BY <1>c, <1>d, <2>1, <2>2, Zenon DEF Seen
<1>2. CASE DoctorReads
  <2>1. n \in 0 .. 5 /\ doctor' = [read |-> n + 1, files |-> Read(ReadOrder[n + 1], f)]
    <3>1. /\ doctor.read < Len(ReadOrder)
          /\ doctor' = [read |-> n + 1, files |-> Read(ReadOrder[n + 1], f)]
      BY <1>2, <1>a, <1>b, Zenon DEF DoctorReads
    <3>2. Len(ReadOrder) = 6
      BY DEF ReadOrder
    <3> QED
      BY <1>0, <1>b, <3>1, <3>2
  <2>2. PICK g : g = Read(ReadOrder[n + 1], f)
    OBVIOUS
  <2>3. doctor'.read = n + 1 /\ doctor'.files = g
    BY <2>1, <2>2
  <2>4. UNCHANGED <<trace, torn, lease, spawned, disk>>
    BY <1>2, Zenon DEF DoctorReads, journal, workers
  <2>5. SUFFICES /\ DOMAIN g = DOMAIN NothingRead
                 /\ n >= 0 => CheckpointSeen(g)'
                 /\ n >= 1 => LinesSeen(g)'
                 /\ n >= 2 => SessionsSeen(g)'
                 /\ n >= 3 => ListSeen(g)'
                 /\ n >= 4 => LeasesSeen(g)'
                 /\ n >= 5 => StartSeen(g)'
    <3>1. /\ n + 1 >= 1 <=> n >= 0
          /\ n + 1 >= 2 <=> n >= 1
          /\ n + 1 >= 3 <=> n >= 2
          /\ n + 1 >= 4 <=> n >= 3
          /\ n + 1 >= 5 <=> n >= 4
          /\ n + 1 >= 6 <=> n >= 5
      BY <2>1
    <3> QED
      BY <1>d, <2>3, <3>1, Zenon DEF Seen
  <2>6. CASE n = 0
    <3>1. g = Read("checkpoint", f)
      BY <2>2, <2>6 DEF ReadOrder
    <3>2. DOMAIN g = DOMAIN f /\ g.checkpoint = disk
      BY <1>c, <3>1, ReadingCheckpoint
    <3>3. Refs(disk) \subseteq 1 .. spawned
      BY DEF Refs, Operations, Ledgers, InLedgers, Ops, OpTrue
    <3>4. Within(disk)
      BY DEF Counted
    <3>5. CheckpointSeen(g)'
      BY <1>0, <2>4, <3>2, <3>3, <3>4 DEF CheckpointSeen, Within
    <3> QED
      BY <1>c, <2>6, <3>2, <3>5
  <2>7. CASE n = 1
    <3>1. g = Read("lines", f)
      BY <2>2, <2>7 DEF ReadOrder
    <3>2. /\ DOMAIN g = DOMAIN f /\ g.checkpoint = f.checkpoint
          /\ g.count = Len(trace) /\ g.readable = ~torn
      BY <1>c, <3>1, ReadingLines
    <3>3. CheckpointSeen(f)
      BY <1>c, <2>7
    <3>4. LinesSeen(g)'
      <4>1. g.count \in Nat /\ g.count <= Len(trace')
        BY <1>0, <2>4, <3>2, LenProperties
      <4>2. g.readable \/ torn'
        BY <2>4, <3>2, Zenon
      <4>3. (f.checkpoint.count # Missing => f.checkpoint.count <= g.count)
            /\ f.checkpoint.start <= g.count
        BY <3>2, <3>3 DEF CheckpointSeen, Within
      <4> QED
        BY <3>2, <4>1, <4>2, <4>3, Zenon DEF LinesSeen
    <3> QED
      BY <1>c, <2>7, <3>2, <3>3, <3>4, SeenStays
  <2>8. CASE n = 2
    <3>1. g = Read("sessions", f)
      BY <2>2, <2>8 DEF ReadOrder
    <3>2. /\ DOMAIN g = DOMAIN f /\ g.checkpoint = f.checkpoint
          /\ g.count = f.count /\ g.readable = f.readable /\ g.spanned = ~torn
      BY <1>c, <3>1, ReadingSessions
    <3>3. SessionsSeen(g)'
      BY <2>4, <3>2 DEF SessionsSeen
    <3>4. CheckpointSeen(f) /\ LinesSeen(f)
      BY <1>c, <2>8
    <3> QED
      BY <1>c, <2>8, <3>2, <3>3, <3>4, SeenStays
  <2>9. CASE n = 3
    <3>1. g = Read("lease list", f)
      <4>1. ReadOrder[n + 1] = "lease list"
        BY <2>9 DEF ReadOrder
      <4> QED
        BY <2>2, <4>1
    <3>2. /\ DOMAIN g = DOMAIN f /\ g.checkpoint = f.checkpoint
          /\ g.count = f.count /\ g.readable = f.readable
          /\ g.spanned = f.spanned /\ DOMAIN g.leases = DOMAIN lease
      BY <1>c, <3>1, ReadingList
    <3>3. ListSeen(g)'
      BY <1>d, <2>4, <3>2 DEF ListSeen
    <3>4. CheckpointSeen(f) /\ LinesSeen(f) /\ SessionsSeen(f)
      BY <1>c, <2>9
    <3> QED
      BY <1>c, <2>9, <3>2, <3>3, <3>4, SeenStays
  <2>10. CASE n = 4
    <3>1. g = Read("leases", f)
      <4>1. ReadOrder[n + 1] = "leases"
        BY <2>10 DEF ReadOrder
      <4> QED
        BY <2>2, <4>1
    <3>2. /\ DOMAIN g = DOMAIN f /\ g.checkpoint = f.checkpoint
          /\ g.count = f.count /\ g.readable = f.readable
          /\ g.spanned = f.spanned /\ DOMAIN g.leases = DOMAIN f.leases
          /\ \A r \in DOMAIN g.leases : r \in DOMAIN lease => g.leases[r] = lease[r]
      BY <1>c, <3>1, ReadingLeases
    <3>3. LeasesSeen(g)'
      <4>1. \A r \in DOMAIN lease : lease[r] \in LeaseStatus
        BY DEF Types, WorkTypes
      <4> QED
        BY <2>4, <3>2, <4>1 DEF LeasesSeen
    <3>4. CheckpointSeen(f) /\ LinesSeen(f) /\ SessionsSeen(f) /\ ListSeen(f)
      BY <1>c, <2>10
    <3> QED
      BY <1>c, <2>10, <3>2, <3>3, <3>4, SeenStays
  <2>11. CASE n = 5
    <3>1. g = Read("start line", f)
      <4>1. ReadOrder[n + 1] = "start line"
        BY <2>11 DEF ReadOrder
      <4> QED
        BY <2>2, <4>1
    <3>2. /\ DOMAIN g = DOMAIN f /\ g.checkpoint = f.checkpoint
          /\ g.count = f.count /\ g.readable = f.readable
          /\ g.spanned = f.spanned /\ g.leases = f.leases /\ g.intact = ~torn
          /\ g.anchored = [k \in DOMAIN trace \cap {f.checkpoint.start} |-> trace[k]]
      BY <1>c, <3>1, ReadingStart
    <3>3. /\ CheckpointSeen(f) /\ LinesSeen(f) /\ SessionsSeen(f)
          /\ ListSeen(f) /\ LeasesSeen(f)
      BY <1>c, <2>11
    <3>4. f.checkpoint.start \in Nat /\ f.checkpoint.start <= Len(trace)
      BY <3>3 DEF CheckpointSeen, Within, Checkpoint
    <3>5. f.checkpoint.start # 0 => f.checkpoint.start \in DOMAIN trace
      BY <1>0, <3>4
    <3>6. /\ f.checkpoint.start # 0 => f.checkpoint.start \in DOMAIN g.anchored
          /\ \A k \in DOMAIN g.anchored : k \in DOMAIN trace /\ g.anchored[k] = trace[k]
      BY <3>2, <3>5
    <3>7. StartSeen(g)'
      BY <2>4, <3>2, <3>6 DEF StartSeen
    <3> QED
      BY <1>c, <2>11, <3>2, <3>3, <3>7, SeenStays
  <2> QED
    BY <2>1, <2>6, <2>7, <2>8, <2>9, <2>11, <2>10
<1>3. CASE DoctorReports
  <2>1. doctor'.read = 0 /\ doctor'.files = NothingRead
    BY <1>3, Zenon DEF DoctorReports
  <2> QED
    BY <1>d, <2>1 DEF Seen
<1>4. DoctorReads \/ DoctorReports \/ UNCHANGED doctor
  BY Zenon
     DEF Next, Compile, Run, Recovery, World, BeginTrial, CheckpointTrial, CompileBegins,
         BackUp, RefuseBackup, InjectCombo, FindNoPlaceholder, BenchmarkBegins, Spawn,
         HashArtifact, ReadForScore, SpawnFails, CleanupFails, TraceStarted, CheckpointStarted,
         KillOnSpawnFailure, WorkerEnds, RestoreSpec, Verify, TraceResult, RejectRecord,
         CheckpointResult, WriteFails, Crash, Resume, DefensiveRestore, CleanLease,
         CollectLeases, OrphanExits, ArtifactChanges, UserSaves, SourceTreeChanges, vars
<1> QED
  BY <1>1, <1>2, <1>3, <1>4

\* What has to be so that a report has no error in it.
LEMMA NoError ==
    ASSUME NEW read, read.spanned, read.readable, read.intact,
           NEW c, c = read.checkpoint, c # NoCheckpoint,
           c.count = Missing \/ ~(c.count > read.count),
           c.trial = NoTrial \/ /\ c.start # 0 /\ ~(c.start > read.count)
                                /\ c.start \in DOMAIN read.anchored
                                /\ read.anchored[c.start].trial = c.trial
                                /\ read.anchored[c.start].kind = "trial_start",
           \A r \in Refs(c) : r \in DOMAIN read.leases,
           Loaded(read.leases) = DOMAIN read.leases
    PROVE  "error" \notin Severities(read)
<1> DEFINE Harmless(issues) == \A i \in issues : i.severity # "error"
<1>1. ASSUME NEW reason, NEW code, NEW severity, severity # "error" \/ ~reason
      PROVE  Harmless(Issue(reason, code, severity))
  BY <1>1 DEF Issue
<1>2. Harmless(Issue(~read.spanned, "trace_session_spans_error", "error"))
  BY <1>1
<1>3. Harmless(AlignmentIssues(c, read.count, read.readable))
  BY <1>1 DEF AlignmentIssues
<1>4. Harmless(SessionIssues(c, read.count, read.readable, read.sessions))
  BY <1>1 DEF SessionIssues
<1>5. Harmless(AnchorIssues(c, read.count, read.readable, read.anchored, read.intact))
  BY <1>1 DEF AnchorIssues
<1>6. ASSUME NEW o \in Operations(c) PROVE Harmless(OperationIssues(o, read.leases))
  <2>1. \A r \in o.refs : r \in DOMAIN read.leases
    BY DEF Refs
  <2>2. \A status, leaseStatus : Harmless(StatusIssues(status, leaseStatus))
    BY <1>1 DEF StatusIssues
  <2>3. Harmless(Issue(o.status = "pending" /\ o.refs # {},
                       "pending_operation_has_process_refs", "warning"))
    BY <1>1
  <2>4. OperationIssues(o, read.leases) =
          Issue(o.status = "pending" /\ o.refs # {},
                "pending_operation_has_process_refs", "warning")
            \cup UNION {StatusIssues(o.status, read.leases[r]) : r \in o.refs}
    BY <2>1, Zenon DEF OperationIssues
  <2> QED
    BY <2>2, <2>3, <2>4
<1>7. Harmless(OrphanIssues(c, read.leases))
  <2>1. \A r : Harmless(Issue(TRUE, "orphan_process_lease",
                              IF read.leases[r] = "running" THEN "warning" ELSE "info"))
    BY DEF Issue
  <2> QED
    BY <2>1 DEF OrphanIssues
<1>8. Harmless(LeaseIssues(read.leases))
  BY <1>1 DEF LeaseIssues
<1>9. ASSUME NEW i \in Issues(read)
      PROVE  \/ i \in Issue(~read.spanned, "trace_session_spans_error", "error")
             \/ i \in LeaseIssues(read.leases)
             \/ i \in AlignmentIssues(c, read.count, read.readable)
             \/ i \in SessionIssues(c, read.count, read.readable, read.sessions)
             \/ i \in AnchorIssues(c, read.count, read.readable, read.anchored, read.intact)
             \/ \E o \in Operations(c) : i \in OperationIssues(o, read.leases)
             \/ i \in OrphanIssues(c, read.leases)
  <2>1. Issues(read) =
          Issue(~read.spanned, "trace_session_spans_error", "error")
          \cup LeaseIssues(read.leases) \cup
          UNION {AlignmentIssues(c, read.count, read.readable),
                 SessionIssues(c, read.count, read.readable, read.sessions),
                 AnchorIssues(c, read.count, read.readable, read.anchored, read.intact),
                 UNION {OperationIssues(o, read.leases) : o \in Operations(c)},
                 OrphanIssues(c, read.leases)}
    BY Zenon DEF Issues
  <2>2. i \notin Issue(~read.spanned, "trace_session_spans_error", "error")
          /\ i \notin LeaseIssues(read.leases) =>
          \/ i \in AlignmentIssues(c, read.count, read.readable)
          \/ i \in SessionIssues(c, read.count, read.readable, read.sessions)
          \/ i \in AnchorIssues(c, read.count, read.readable, read.anchored, read.intact)
          \/ i \in UNION {OperationIssues(o, read.leases) : o \in Operations(c)}
          \/ i \in OrphanIssues(c, read.leases)
    BY <1>9, <2>1, Zenon
  <2>3. i \in UNION {OperationIssues(o, read.leases) : o \in Operations(c)}
          => \E o \in Operations(c) : i \in OperationIssues(o, read.leases)
    OBVIOUS
  <2> QED
    BY <2>2, <2>3, Zenon
<1>10. Harmless(Issues(read))
  BY <1>2, <1>3, <1>4, <1>5, <1>6, <1>7, <1>8, <1>9
<1> QED
  BY <1>10 DEF Severities

\* A report read file by file while a session went on has no error in it that
\* is not there, however long the session and wherever its calls fail: unless
\* the trace is torn, a lease it asks for is gone or the start line is another
\* trial's, nothing the doctor reads contradicts the checkpoint it read first
\* (state_consistency.py:85).
THEOREM ReportedErrorsAreReal == Spec => []DoctorErrorsAreReal
<1>1. Types /\ [Next]_vars => Types'
  BY SpecStep, WorkStep, JournalStep, BoundStep DEF Types
<1>2. Types /\ Seen => DoctorErrorsAreReal
  <2> DEFINE f == doctor.files
             c == doctor.files.checkpoint
  <2> SUFFICES ASSUME Types, Seen, doctor.read = 6, ~torn,
                      Refs(c) \cup DOMAIN f.leases \subseteq DOMAIN lease,
                      c.trial = NoTrial \/ /\ c.start \in DOMAIN trace
                                           /\ trace[c.start].kind = "trial_start"
                                           /\ trace[c.start].trial = c.trial
               PROVE  "error" \notin Severities(f)
    BY Zenon DEF DoctorErrorsAreReal, ReadOrder
  <2>1. f.spanned /\ f.readable /\ f.intact
    BY DEF Seen, LinesSeen, SessionsSeen, StartSeen
  <2>2. c \in Checkpoint /\ c # NoCheckpoint
    BY CheckpointAssumption DEF Seen, CheckpointSeen
  <2>3. c.count = Missing \/ ~(c.count > f.count)
    BY <2>2 DEF Seen, LinesSeen, Checkpoint
  <2>4. ~(c.start > f.count)
    BY <2>2 DEF Seen, LinesSeen, Checkpoint
  <2>5. c.start \in DOMAIN trace => /\ c.start # 0 /\ c.start \in DOMAIN f.anchored
                                    /\ f.anchored[c.start] = trace[c.start]
    BY DEF Seen, StartSeen, Types, JournalTypes
  <2>6. \A r \in Refs(c) : r \in DOMAIN f.leases
    BY DEF Seen, ListSeen
  <2>7. Loaded(f.leases) = DOMAIN f.leases
    <3>1. \A r \in DOMAIN f.leases : f.leases[r] \in LeaseStatus
      BY DEF Seen, LeasesSeen
    <3> QED
      BY <3>1 DEF Loaded, LeaseStatus
  <2>8. c = f.checkpoint
    OBVIOUS
  <2> HIDE DEF f, c
  <2> QED
    BY <2>1, <2>2, <2>3, <2>4, <2>5, <2>6, <2>7, <2>8, NoError
<1> QED
  BY TypesInit, LedgersInit, LedgersStep, CallSoundStep, CountedInit, CountedStep, SeenInit,
     SeenStep, <1>1, <1>2, PTL DEF Spec

=============================================================================
