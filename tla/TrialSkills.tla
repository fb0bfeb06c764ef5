---------------------------- MODULE TrialSkills ----------------------------
(***************************************************************************)
(* The compile and benchmark skills of a trial, what they leave on disk at *)
(* every step, and the doctor that looks at it.                            *)
(*                                                                         *)
(* An agent starts trials and calls the two skills with the checkpoint it  *)
(* has in memory.  A skill starts a worker whose lease file is written     *)
(* before anything else, appends an event to the trace and then writes the *)
(* checkpoint with the ledger of operations, once when the worker starts   *)
(* and once for its result; the compile does this between an injection     *)
(* into the spec and its restoration.  Every write may fail, and the agent *)
(* may die between any two steps; then somebody cleans up leases, restores *)
(* the spec of the trial in the checkpoint, or does not, and resumes.      *)
(* Beside them the user saves new templates when no call is running, the   *)
(* source tree and the artifact change, and the doctor reads the files one *)
(* after the other without the lock.                                       *)
(*                                                                         *)
(* One session; the lock, the processes and the line ids are those of the  *)
(* modules WorkspaceLock, ProcessLease and TraceJournal.                   *)
(***************************************************************************)
EXTENDS SpecProtection, StateConsistency, FiniteSets, Functions

CONSTANTS
    FailOnDirtySource,  \* workspace_protection.source_dirty_action = "fail"
    Runs,               \* the runs of a benchmark, warmups included
    MaxSpawns,          \* bound: the workers ever started
    MaxEvents,          \* bound: no call starts with so many events
    MaxFaults           \* bound: the crashes and failures that may happen

ASSUME TrialAssumption ==
    /\ FailOnDirtySource \in BOOLEAN
    /\ Runs \in Nat \ {0}
    /\ MaxSpawns \in Nat /\ MaxEvents \in Nat /\ MaxFaults \in Nat
    /\ NoTrial \notin Trial

VARIABLES
    trace,      \* events.jsonl
    torn,       \* its last line is not terminated
    disk,       \* checkpoint.yaml
    lease,      \* the lease files, by reference
    alive,      \* the workers that run
    artifact,   \* the artifact of the last compile
    pc,         \* the step the agent is at
    call,       \* the call that is running
    mine,       \* the checkpoint its caller has in memory
    writer,     \* the lines it counts and the checkpoint it wrote last
    spawned,    \* the number of workers started
    faults,    \* the crashes and failures so far
    doctor      \* the files the doctor has read, and what it read

journal == <<trace, torn, disk>>
workers == <<lease, alive, artifact, spawned>>
agent == <<pc, call, mine, writer>>
vars == <<specVars, journal, workers, agent, faults, doctor>>

Ref == 1 .. MaxSpawns       \* a lease, by the order the workers start
Artifact == {"none", "built", "changed"}

Event == [kind : {"trial_start", "process_started", "compile_result",
                  "benchmark_run_result"},
          trial : Trial, ref : Ref \cup {0}, good : BOOLEAN, measured : Artifact,
          raced : BOOLEAN]

Operation == [op : {"compile", "benchmark"}, status : OperationStatus,
              refs : SUBSET Ref]

Checkpoint == [session : {"session"}, count : Nat \cup {Missing},
               trial : Trial \cup {NoTrial}, start : Nat,
               operations : Seq(Operation)]

\* A checkpoint that cannot be loaded is told from every one that can.
ASSUME CheckpointAssumption == NoCheckpoint \notin Checkpoint

\* `refs' are the leases of the call, `ref' the last of them; `index' is the
\* run of a benchmark; `hash' is the artifact as it was hashed for the run and
\* `measured' as it was read for its score, and `raced' is history: did it change
\* between the two?  `failed': an exception is on its way through the finally
\* clause.
Call == [op : {"none", "start", "compile", "benchmark"}, trial : Trial \cup {NoTrial},
         refs : SUBSET Ref, ref : Ref \cup {0}, index : 1 .. Runs, good : BOOLEAN,
         hash : Artifact, measured : Artifact, raced : BOOLEAN, failed : BOOLEAN,
         pre : [spec : SpecFile, source : SourceTree]]

NoCall == [op |-> "none", trial |-> NoTrial, refs |-> {}, ref |-> 0, index |-> 1,
           good |-> FALSE, hash |-> "none", measured |-> "none", raced |-> FALSE,
           failed |-> FALSE,
           pre |-> [spec |-> Template(1), source |-> "as given"]]

NoWriter == [count |-> 0, ledger |-> NoCheckpoint]

NothingRead == [checkpoint |-> NoCheckpoint, count |-> 0, readable |-> TRUE,
                spanned |-> TRUE, sessions |-> {}, leases |-> << >>,
                anchored |-> << >>, intact |-> TRUE]

Steps == {"idle", "begun", "backup", "inject", "hash", "read", "spawn", "spawned",
          "started", "waiting", "restore", "verify", "result", "recorded", "dead"}

TrialTypeOK ==
    /\ SpecTypeOK
    /\ trace \in Seq(Event)
    /\ torn \in BOOLEAN
    /\ disk \in Checkpoint
    /\ DOMAIN lease \subseteq Ref /\ lease \in [DOMAIN lease -> LeaseStatus]
    /\ alive \subseteq Ref
    /\ artifact \in Artifact
    /\ pc \in Steps
    /\ call \in Call
    /\ mine \in Checkpoint \cup {NoCheckpoint}
    /\ writer.count \in Nat /\ writer.ledger \in Checkpoint \cup {NoCheckpoint}
    /\ spawned \in 0 .. MaxSpawns
    /\ faults \in 0 .. MaxFaults
    /\ doctor.read \in 0 .. 6

Init ==
    /\ SpecInit
    /\ trace = << >>
    /\ torn = FALSE
    /\ \E count \in {0, Missing} :
           disk = [session |-> "session", count |-> count, trial |-> NoTrial,
                   start |-> 0, operations |-> << >>]
    /\ lease = [r \in {} |-> "running"]
    /\ alive = {}
    /\ artifact = "none"
    /\ pc = "idle"
    /\ call = NoCall
    /\ mine = disk
    /\ writer = NoWriter
    /\ spawned = 0
    /\ faults = 0
    /\ doctor = [read |-> 0, files |-> NothingRead]

-----------------------------------------------------------------------------
(* The writer of the trace and of the checkpoint *)

Attached(c) == [count |-> IF c.count = Missing THEN Len(trace) ELSE c.count,
                ledger |-> c]

\* append_trace_event refuses an unterminated trace and a line number 1 that
\* is not the first line, or the other way round.
CanAppend(w) == ~torn /\ (w.count = 0 <=> trace = << >>)

Append1(w, event) ==
    /\ CanAppend(w)
    /\ trace' = Append(trace, event)
    /\ writer' = [w EXCEPT !.count = @ + 1]

Persist(c) ==
    /\ disk' = [c EXCEPT !.count = writer.count]
    /\ writer' = [writer EXCEPT !.ledger = disk']
    /\ UNCHANGED <<trace, torn>>

\* The operation of the call in a ledger: a compile has one operation for
\* each worker, a benchmark one for all its runs.
Same(o) == o.op = call.op /\ (call.op = "compile" => call.ref \in o.refs)

WithOperation(c, status) ==
    LET o == [op |-> call.op, status |-> status, refs |-> call.refs]
        same == {i \in DOMAIN c.operations : Same(c.operations[i])}
    IN  IF same = {} THEN [c EXCEPT !.operations = Append(@, o)]
        ELSE [c EXCEPT !.operations[CHOOSE i \in same : \A j \in same : i <= j] = o]

\* Bound: the doctor reads before the first fault, and nothing but the session,
\* its workers and the collection of leases goes on meanwhile.
Fault ==
    /\ doctor.read = 0
    /\ faults < MaxFaults
    /\ faults' = faults + 1

CallEnds ==
    /\ pc' = "idle"
    /\ call' = NoCall

\* An exception leaves the call, by way of the restoration in a compile.
Raise ==
    IF call.op = "compile" /\ pc \in {"inject", "spawn", "spawned", "started", "waiting"}
    THEN /\ pc' = "restore"
         /\ call' = [call EXCEPT !.failed = TRUE]
         /\ UNCHANGED <<mine, writer>>
    ELSE /\ CallEnds
         /\ writer' = NoWriter
         /\ UNCHANGED mine

-----------------------------------------------------------------------------
(* A trial begins *)

Room == Len(trace) < MaxEvents

BeginTrial(t) ==
    /\ pc = "idle" /\ Room
    /\ \A i \in DOMAIN trace : trace[i].trial # t
    /\ Append1(Attached(mine), [kind |-> "trial_start", trial |-> t, ref |-> 0,
                               good |-> TRUE, measured |-> "none", raced |-> FALSE])
    /\ call' = [NoCall EXCEPT !.op = "start", !.trial = t]
    /\ pc' = "begun"
    /\ UNCHANGED <<specVars, torn, disk, workers, mine, faults, doctor>>

CheckpointTrial ==
    /\ pc = "begun"
    /\ Persist([mine EXCEPT !.trial = call.trial, !.start = writer.count,
                            !.operations = << >>])
    /\ mine' = disk'
    /\ artifact' = "none"
    /\ CallEnds
    /\ UNCHANGED <<specVars, lease, alive, spawned, faults, doctor>>

-----------------------------------------------------------------------------
(* compile_candidate and benchmark_candidate *)

\* The snapshot of the workspace before the trial.
CompileBegins ==
    /\ pc = "idle" /\ Room
    /\ mine.trial # NoTrial
    /\ call' = [NoCall EXCEPT !.op = "compile", !.trial = mine.trial, !.pre = Snapshot]
    /\ pc' = "backup"
    /\ UNCHANGED <<specVars, journal, workers, mine, writer, faults, doctor>>

BackUp ==
    /\ pc = "backup"
    /\ TakeBackup(call.trial)
    /\ writer' = Attached(mine)
    /\ pc' = "inject"
    /\ UNCHANGED <<journal, workers, call, mine, faults, doctor>>

RefuseBackup ==
    /\ pc = "backup"
    /\ BackupRefused(call.trial)
    /\ CallEnds
    /\ UNCHANGED <<specVars, journal, workers, mine, writer, faults, doctor>>

InjectCombo ==
    /\ pc = "inject"
    /\ Inject(call.trial)
    /\ pc' = "spawn"
    /\ UNCHANGED <<journal, workers, call, mine, writer, faults, doctor>>

FindNoPlaceholder ==
    /\ pc = "inject"
    /\ ~HasPlaceholder
    /\ Raise
    /\ UNCHANGED <<specVars, journal, workers, faults, doctor>>

\* benchmark_candidate compares the hash of the artifact with the one it was
\* given once, before its first run.
BenchmarkBegins ==
    /\ pc = "idle" /\ Room
    /\ mine.trial # NoTrial
    /\ \E o \in Operations(mine) : o.op = "compile" /\ o.status = "completed"
    /\ call' = [NoCall EXCEPT !.op = "benchmark", !.trial = mine.trial]
    /\ writer' = Attached(mine)
    /\ pc' = IF artifact = "built" THEN "hash" ELSE "result"
    /\ UNCHANGED <<specVars, journal, workers, mine, faults, doctor>>

\* Mutant: the hash of the first run is taken for the later ones.
HashFirstRun ==
    /\ pc = "hash"
    /\ call' = [call EXCEPT !.hash = IF call.index = 1 THEN artifact ELSE @,
                            !.raced = FALSE]
    /\ pc' = "read"
    /\ UNCHANGED <<specVars, journal, workers, mine, writer, faults, doctor>>

\* The harness hashes the artifact for the record of a run,
HashArtifact ==
    /\ pc = "hash"
    /\ call' = [call EXCEPT !.hash = artifact, !.raced = FALSE]
    /\ pc' = "read"
    /\ UNCHANGED <<specVars, journal, workers, mine, writer, faults, doctor>>

\* and reads it again for the score, which the worker is given and only prints.
ReadForScore ==
    /\ pc = "read"
    /\ call' = [call EXCEPT !.measured = artifact]
    /\ pc' = "spawn"
    /\ UNCHANGED <<specVars, journal, workers, mine, writer, faults, doctor>>

\* The harness starts the worker, whose lease is registered when spawn_process
\* returns.
Spawn ==
    /\ pc = "spawn"
    /\ spawned < MaxSpawns
    /\ spawned' = spawned + 1
    /\ lease' = With(lease, spawned', "running")
    /\ alive' = alive \cup {spawned'}
    /\ call' = [call EXCEPT !.ref = spawned', !.refs = @ \cup {spawned'}]
    /\ pc' = "spawned"
    /\ UNCHANGED <<specVars, journal, artifact, mine, writer, faults, doctor>>

\* The artifact cannot be read, or the worker not be started.
SpawnFails ==
    /\ pc \in {"hash", "read", "spawn"}
    /\ Fault
    /\ Raise
    /\ UNCHANGED <<specVars, journal, workers, doctor>>

CallEvent(kind) == [kind |-> kind, trial |-> call.trial, ref |-> call.ref,
                    good |-> call.good, measured |-> call.measured,
                    raced |-> call.raced]

\* on_spawn
TraceStarted ==
    /\ pc = "spawned"
    /\ Append1(writer, CallEvent("process_started"))
    /\ pc' = "started"
    /\ UNCHANGED <<specVars, torn, disk, workers, call, mine, faults, doctor>>

CheckpointStarted ==
    /\ pc = "started"
    /\ Persist(WithOperation(writer.ledger, "running"))
    /\ pc' = "waiting"
    /\ UNCHANGED <<specVars, workers, call, mine, faults, doctor>>

\* The status the harness finds for a worker that it no longer waits for: one
\* that a cleanup would not kill goes on running.
NeverWaitedFor(status) == TRUE

KeepsRunning(status) == status = "unsafe_skip"

Stopped(status) == IF KeepsRunning(status) THEN alive ELSE alive \ {call.ref}

\* on_spawn raises: the harness cleans up the worker it started.
KillOnSpawnFailure ==
    /\ pc \in {"spawned", "started"}
    /\ Fault
    /\ \E status \in {"ended", "unsafe_skip"} :
        /\ lease' = [lease EXCEPT ![call.ref] = status]
        /\ alive' = Stopped(status)
    /\ Raise
    /\ UNCHANGED <<specVars, journal, artifact, spawned, doctor>>

\* The cleanup after a failed on_spawn or after a timeout raises itself, or the
\* wait does: nobody has killed the worker, and its lease says it is running.
CleanupFails ==
    /\ pc \in {"spawned", "started", "waiting"}
    /\ Fault
    /\ Raise
    /\ UNCHANGED <<specVars, journal, workers, doctor>>

WorkerEnds(status, good) ==
    /\ pc = "waiting"
    /\ good => status = "ended" /\ (call.op = "benchmark" => artifact # "none")
    /\ lease' = [lease EXCEPT ![call.ref] = status]
    /\ alive' = Stopped(status)
    /\ artifact' = IF call.op = "benchmark" THEN artifact
                   ELSE IF good THEN "built" ELSE "none"
    /\ call' = [call EXCEPT !.good = good]
    /\ pc' = IF call.op = "compile" THEN "restore" ELSE "result"
    /\ UNCHANGED <<specVars, journal, mine, writer, spawned, faults, doctor>>

\* The finally clause of compile_candidate.
RestoreSpec ==
    /\ pc = "restore"
    /\ Restore(call.trial)
    /\ pc' = "verify"
    /\ UNCHANGED <<journal, workers, call, mine, writer, faults, doctor>>

Verify ==
    /\ pc = "verify"
    /\ IF call.failed \/ ~Verified(call.pre, FailOnDirtySource)
       THEN Raise
       ELSE pc' = "result" /\ UNCHANGED <<call, mine, writer>>
    /\ UNCHANGED <<specVars, journal, workers, faults, doctor>>

\* RunLevelRecord: a run that is valid for scoring has a verified artifact.
RecordAccepted == call.op = "benchmark" /\ call.good => call.hash = "built"

TraceResult ==
    /\ pc = "result"
    /\ RecordAccepted
    /\ Append1(writer, CallEvent(IF call.op = "compile" THEN "compile_result"
                                ELSE "benchmark_run_result"))
    /\ pc' = "recorded"
    /\ UNCHANGED <<specVars, torn, disk, workers, call, mine, faults, doctor>>

RejectRecord ==
    /\ pc = "result"
    /\ ~RecordAccepted
    /\ Raise
    /\ UNCHANGED <<specVars, journal, workers, faults, doctor>>

MoreRuns == call.op = "benchmark" /\ call.good /\ call.index < Runs

StatusOfExit == IF MoreRuns THEN "running" ELSE "completed"

StatusOfRecord == IF call.good THEN "completed" ELSE "artifact_invalid"

FinalStatus ==
    IF ~call.good THEN "failed" ELSE IF MoreRuns THEN "running" ELSE "completed"

CheckpointResult ==
    /\ pc = "recorded"
    /\ Persist(WithOperation(writer.ledger, FinalStatus))
    /\ IF MoreRuns
       THEN /\ pc' = "hash"
            /\ call' = [call EXCEPT !.index = @ + 1, !.good = FALSE]
            /\ UNCHANGED mine
       ELSE /\ CallEnds
            /\ mine' = disk'
    /\ UNCHANGED <<specVars, workers, faults, doctor>>

\* An append or the write of a checkpoint fails: the caller keeps what it had.
WriteFails ==
    /\ pc \in {"begun", "result", "recorded"}
    /\ Fault
    /\ Raise
    /\ UNCHANGED <<specVars, journal, workers, doctor>>

-----------------------------------------------------------------------------
(* Crashes and recovery *)

\* A dying agent can leave half a line where it was about to append one.
Crash ==
    /\ pc # "dead"
    /\ Fault
    /\ torn' \in IF pc \in {"spawned", "result"} THEN {torn, TRUE} ELSE {torn}
    /\ pc' = "dead"
    /\ call' = NoCall
    /\ mine' = NoCheckpoint
    /\ writer' = NoWriter
    /\ UNCHANGED <<specVars, trace, disk, workers, doctor>>

\* checkpoint_with_reconciled_trace_count
Reconciled(c) == [c EXCEPT !.count = Len(trace)]

\* A resume reads the checkpoint and takes the lines of the trace for counted.
Resume ==
    /\ pc \in {"dead", "idle"}
    /\ ~torn
    /\ mine # Reconciled(disk)
    /\ mine' = Reconciled(disk)
    /\ pc' = "idle"
    /\ UNCHANGED <<specVars, journal, workers, call, writer, faults, doctor>>

\* The restoration of the trial in the checkpoint, by hand or by a resume.
DefensiveRestore ==
    /\ pc = "dead"
    /\ disk.trial # NoTrial
    /\ Restore(disk.trial)
    /\ UNCHANGED <<journal, workers, agent, faults, doctor>>

\* cleanup_process_lease on a recorded lease
CleanLease(r) ==
    /\ pc = "dead"
    /\ r \in DOMAIN lease /\ lease[r] = "running"
    /\ lease' = [lease EXCEPT ![r] = "ended"]
    /\ alive' = alive \ {r}
    /\ UNCHANGED <<specVars, journal, artifact, spawned, agent, faults, doctor>>

\* garbage_collect_process_leases asks for a living process, not for the ledger.
CollectLeases ==
    /\ pc \in {"dead", "idle"}
    /\ ~ (DOMAIN lease \subseteq alive)
    /\ lease' = Restrict(lease, DOMAIN lease \cap alive)
    /\ UNCHANGED <<specVars, journal, alive, artifact, spawned, agent, faults, doctor>>

-----------------------------------------------------------------------------
(* The world around the agent *)

OrphanExits(r) ==
    /\ r \in alive \ {call.ref}
    /\ alive' = alive \ {r}
    /\ UNCHANGED <<specVars, journal, lease, artifact, spawned, agent, faults, doctor>>

\* Somebody else replaces the artifact, puts it back or removes it.  At another
\* time it is as if he did so just before the next benchmark.
ArtifactChanges ==
    /\ doctor.read = 0
    /\ pc = "idle" \/ call.op = "benchmark"
    /\ artifact # "none"
    /\ artifact' \in Artifact \ {artifact}
    /\ call' = [call EXCEPT !.raced = @ \/ pc = "read"]
    /\ UNCHANGED <<specVars, journal, lease, alive, spawned, pc, mine, writer, faults,
                   doctor>>

\* The user leaves the spec alone while a trial that has a backup is the current
\* one: its backup is kept, and a later restoration would undo the edit.
UserSaves ==
    /\ doctor.read = 0
    /\ pc = "idle"
    /\ disk.trial \notin DOMAIN backup
    /\ UserEdits
    /\ UNCHANGED <<journal, workers, agent, faults, doctor>>

\* The build, or somebody beside it, changes the source tree.
SourceTreeChanges ==
    /\ doctor.read = 0
    /\ call.op = "compile"
    /\ SourceChanges
    /\ UNCHANGED <<journal, workers, agent, faults, doctor>>

-----------------------------------------------------------------------------
(* The doctor *)

\* What inspect_state_consistency reads, in its order.
LeasesFirst == <<"lease list", "leases", "checkpoint", "lines", "sessions", "start line">>

ReadOrder == <<"checkpoint", "lines", "sessions", "lease list", "leases", "start line">>

\* A lease is listed before it is loaded, and may be gone when it is.
Read(file, files) ==
    CASE file = "checkpoint" -> [files EXCEPT !.checkpoint = disk]
      [] file = "lines"      -> [files EXCEPT !.count = Len(trace), !.readable = ~torn]
      [] file = "sessions"   -> [files EXCEPT !.spanned = ~torn,
                                    !.sessions = IF trace # << >> /\ ~torn
                                                 THEN {"session"} ELSE {}]
      [] file = "lease list" -> [files EXCEPT !.leases = [r \in DOMAIN lease |-> "invalid"]]
      [] file = "leases" ->
            [files EXCEPT !.leases = [r \in DOMAIN @ |-> IF r \in DOMAIN lease THEN lease[r]
                                                       ELSE "invalid"]]
      [] file = "start line" ->
            [files EXCEPT !.intact = ~torn,
                          !.anchored = Restrict(trace, DOMAIN trace
                                                       \cap {files.checkpoint.start})]

DoctorReads ==
    /\ faults = 0 /\ user = 1 /\ source = "as given"
    /\ doctor.read < Len(ReadOrder)
    /\ doctor' = [read |-> doctor.read + 1,
                  files |-> Read(ReadOrder[doctor.read + 1], doctor.files)]
    /\ UNCHANGED <<specVars, journal, workers, agent, faults>>

DoctorReports ==
    /\ doctor.read = Len(ReadOrder)
    /\ doctor' = [read |-> 0, files |-> NothingRead]
    /\ UNCHANGED <<specVars, journal, workers, agent, faults>>

-----------------------------------------------------------------------------

Compile == CompileBegins \/ BackUp \/ RefuseBackup \/ InjectCombo \/ FindNoPlaceholder
           \/ RestoreSpec \/ Verify

Run == \/ HashArtifact \/ ReadForScore \/ Spawn \/ SpawnFails
       \/ TraceStarted \/ CheckpointStarted \/ KillOnSpawnFailure \/ CleanupFails
       \/ \E status \in {"ended", "unsafe_skip"}, good \in BOOLEAN :
              WorkerEnds(status, good)
       \/ TraceResult \/ RejectRecord \/ CheckpointResult \/ WriteFails

Recovery == \/ Crash \/ Resume \/ DefensiveRestore
            \/ CollectLeases
            \/ \E r \in Ref : CleanLease(r)

World == \/ \E r \in Ref : OrphanExits(r)
         \/ ArtifactChanges \/ UserSaves \/ SourceTreeChanges

Next == \/ \E t \in Trial : BeginTrial(t)
        \/ CheckpointTrial \/ BenchmarkBegins
        \/ Compile \/ Run \/ Recovery \/ World
        \/ DoctorReads \/ DoctorReports

Spec == Init /\ [][Next]_vars

-----------------------------------------------------------------------------
(* Properties *)

\* Whatever fails and wherever the agent dies, the template the user saved last
\* is the spec or the backup of a trial.
OriginalRecoverable ==
    \/ spec = Template(user)
    \/ \E t \in DOMAIN backup : backup[t] = Template(user)

\* A worker compiles the user's template with the options of its own trial and
\* no others, if the template has placeholders of one spelling only: a spec
\* that an earlier crash left injected is refused.
CompilesTheOriginal ==
    call.op = "compile" /\ pc \in {"spawned", "started", "waiting"}
        /\ Spellings[spec.version] = 1
    => spec = [Template(user) EXCEPT !.injected = <<call.trial>>]

\* A score that counts was measured on the artifact the trial built, however often
\* the artifact is replaced before a benchmark, between two of its runs and while
\* a worker runs.  The one exception: it is replaced after the harness hashed it
\* for the very run and before it reads it again for the score.
ScoresMeasureTheBuild ==
    \A i \in DOMAIN trace :
        trace[i].kind = "benchmark_run_result" /\ trace[i].good
        => trace[i].measured = "built" \/ trace[i].raced

Atomically == [checkpoint |-> disk, count |-> Len(trace), readable |-> ~torn,
               spanned |-> ~torn, intact |-> ~torn, leases |-> lease,
               sessions |-> IF trace # << >> /\ ~torn THEN {"session"} ELSE {},
               anchored |-> Restrict(trace, DOMAIN trace \cap {disk.start})]

Quiet == pc \in {"idle", "dead"}

\* The last event about an operation of the trial in the checkpoint.
LastEvent(o) ==
    LET about == {i \in DOMAIN trace :
                     /\ trace[i].trial = disk.trial
                     /\ \/ trace[i].ref \in o.refs
                        \/ /\ o.refs = {} /\ trace[i].ref = 0
                           /\ trace[i].kind = "benchmark_run_result"}
    IN  trace[CHOOSE i \in about : \A j \in about : j <= i]

\* Whenever no call is running and the doctor finds nothing to warn of, every
\* operation in the ledger has the status that the trace tells: no failed
\* write, crash or resume leaves them apart unnoticed.
NoSilentDivergence ==
    Quiet /\ Severities(Atomically) \subseteq {"info"} =>
        \A o \in Operations(disk) :
            CASE o.status = "running" -> LastEvent(o).kind = "process_started"
              [] o.status = "completed" -> LastEvent(o).good
              [] OTHER -> LastEvent(o).kind # "process_started" /\ ~LastEvent(o).good

\* A worker that outlives its agent or its call is known: a running operation
\* in the ledger has its lease, the doctor warns, or the cleaner gave it up.
SurvivorsAreKnown ==
    Quiet => \A r \in alive :
        \/ \E o \in Operations(disk) : o.status = "running" /\ r \in o.refs
        \/ r \in DOMAIN lease /\ lease[r] = "unsafe_skip"
        \/ ~ Severities(Atomically) \subseteq {"info"}

\* A report that was read while a session went on has no error in it that is
\* not there: only a wrong start line, or a lease that the checkpoint names or
\* that was listed and is gone since, makes for one.
DoctorErrorsAreReal ==
    doctor.read = Len(ReadOrder) /\ "error" \in Severities(doctor.files) =>
        \/ torn
        \/ LET c == doctor.files.checkpoint IN
           \/ ~ (Refs(c) \cup DOMAIN doctor.files.leases \subseteq DOMAIN lease)
           \/ c.trial # NoTrial /\ ~ (/\ c.start \in DOMAIN trace
                                      /\ trace[c.start].kind = "trial_start"
                                      /\ trace[c.start].trial = c.trial)
=============================================================================
