# A verification development for the compiler-tuning agent

The agent (`src/src/agent`) runs optimisation sessions over a *workspace*, a
directory in which it compiles and benchmarks candidate compiler options.  All
it knows is in files there: an append-only trace, a checkpoint, trial records,
process leases, a lock file.  The code as it stands is the durable substrate of
the agent (locking, journalling, process ownership, protection of the spec file,
compile and benchmark skills, statistics); the session loop that will drive it
is not written yet.  Where a module below needs to know how the loop behaves, it
uses the contract the code documents ("callers must hold the workspace lock",
`fs_memory.py:1790`, `fs_memory.py:1925`, `trace.py:569`).

## 1. Inventory

| Component (files) | State | Operations | Hard behaviour | What makes it correct |
|---|---|---|---|---|
| workspace lock (`workspace_lock.py`) | `state/run.lock`: an flock on its inode, holder metadata in its content | `acquire`, `release`, `read_holder`, `probe_lock` | races of processes, probes and an operator; death at any step; pid reuse; timeout | one process inside; metadata never names another process; stale verdicts are right; `acquire` returns |
| trace journal and checkpoint (`trace.py`, part of `fs_memory.py`) | `trace/events.jsonl`, `state/checkpoint.yaml`; writer's line number in memory | append, append-and-checkpoint, resume, reconcile | crash between append and checkpoint, torn append | checkpoint never ahead; line ids exact; trial anchored; appends possible after resume |
| trace cleanup (`trace_cleanup.py`, `cli/clean_trace.py`) | rewrites `events.jsonl`, backups in `_trash/` | compute plan, execute plan | plan made without the lock; crash between backup and replacement | only old, unprotected, backed-up events go |
| trial store and index (part of `fs_memory.py`) | `trials/**/trial.yaml` (immutable), SQLite index | write record, rebuild, ensure current | a write cut off and tried again, perhaps a month later; an index that is stale, foreign or half built | a record is never changed; an index called current lists exactly the records |
| process leases (`process_registry.py`, `process_runner.py`, `process_identity.py`) | `state/processes/**.yaml` | spawn, register, transition, mark | crash between spawn and registration; stale copies of a lease | a live child is on record, and not as finished |
| process cleaner (`process_cleaner.py`) | reads leases and the process table, kills | attribute, find targets, clean up, collect garbage | pid and pgid reuse, partial kills | never kills a process that is not the lease's; finds what is left of a run |
| spec protection (`skills/spec_backup.py`, `spec_injector.py`, `spec_restore.py`, `workspace_snapshot.py`, `workspace_verify.py`) | the spec file, its backup, workspace snapshots | backup, inject, restore, snapshot, verify | crash between inject and restore | the user's template is always recoverable, and a worker compiles it with the options of one trial |
| compile and benchmark skills (`skills/compile.py`, `skills/benchmark.py`) | operation ledger in the checkpoint, leases | run a candidate: checkpoint, spawn, record, wait | crash around the spawn; stale checkpoint in memory | a ledger that differs from the trace, and a worker that survived, are noticed; scores are of the artifact that was built |
| state consistency doctor (`doctor/state_consistency.py`) | none (reads all) | inspect | reads without the lock | reports each inconsistency a crash can leave, and no error beside a running session |
| initialisation (`init.py`, `config.py`, `registry.py`) | `.initialized` of the namespace | prepare, run, assert | check-then-write without lock; configuration edited while a prompt waits | what is written is what the user confirmed |
| error analyzer (`skills/error_analyzer.py`) | none | classify a failure | repeated and contradicting lines of a log | options are blamed only on two sources |
| statistics core (`stats_core.py`), result schema (`skills/result_schema.py`) | none | compare, screen, accept | only neighbours in time are compared; reported gaps contradict time stamps; thresholds; ties in the screen | a candidate is accepted only with evidence from comparable runs |
| fake gbs (`skills/fake_gbs.py`) | none | start, wait for and kill a worker | timeout beside an exit; `on_spawn` fails | no worker is left unknown |
| candidate identity, filesystem probing, errors, command line | none | formatting, warnings, parsing | none | not modelled |

How they interact: every writer holds the workspace lock and shares nothing else
with other processes but the files.  Skills append to the trace through
`TraceCheckpointWriter`, which then persists the checkpoint; they spawn children
through `process_runner`, whose leases the cleaner and the doctor read after a
crash.  `clean trace` plans beside a running session and takes the lock only to
execute.  A trial's records, scored by the benchmark, are what the statistics
core compares; the verdict, the screen of the family and the gates of the
acceptance are functions the session loop will call one after the other.

## 2. Plan

Order of work, the most important behaviour first.

1. `ExclusiveLock`, `WorkspaceLock` and its refinement (done, proved).
2. `TraceJournal` over `ExclusiveLock` (done, proved).
3. `TraceClean` over `TraceJournal` (done, proved).
4. `ProcessLease`: spawn, registration, exit, pid and group reuse, cleanup and
   garbage collection (done, proved).
5. `SpecProtection`, `StateConsistency` and `TrialSkills`, which composes them:
   the two skills with their ledger, crashes, recovery and a doctor beside them
   (done, proved).
6. `Initialisation` and `TrialStore` (done, proved).
7. `FailureClassifier`, `PairQuality`, `StatsGates` and `Decisions`, which takes a
   candidate through them (done, proved).

Left: a composition of `TraceClean` with `WorkspaceLock` for the clean that
borrows a lock on the strength of its metadata; `TrialSkills` over `ProcessLease`
in place of its own leases of one step.  Every safety property that a passing run
checks is stated by a theorem.

Conventions: sets of actors and bounds are CONSTANTS with named assumptions; one
action per operation or per step at which another process may intervene; mutants
of an action stand in front of it and are used to show that a property can fail.

## 3. Modules

### ExclusiveLock
The promise: `owners` holds at most one client; `Take` needs it empty, `Drop`
needs to be the one in it.

### WorkspaceLock
`path` is what `state/run.lock` names; `content[i]`, `flock[i]` belong to inode
`i`; `fd`, `pc`, `deadline`, `busyHolder`, `replaced` are the local state of each
process in `acquire()`.  `Open`, `TryLock` / `Busy` / `DeadlinePasses` (one turn
of the retry loop), `ReplaceHolder` (read the previous holder, truncate),
`WriteHolder`, `AcquireFails` (the `except` clause) and `Release` follow the code
in order.  `Crash` and `Restart` are the kernel's: descriptors are closed and
pids reused.  `ProbeLock` / `ProbeUnlock` are the two system calls of
`probe_lock()` when it finds the lock free.  `OperatorRemove` is the `rm` of the
user documentation.  Metadata is reduced to a pid and the life of that pid (its
`create_time`), which is all `_is_stale()` looks at.  A short `os.write` may
leave unreadable metadata.

### TraceJournal
`trace` is the sequence of terminated lines and `torn` says whether an
unterminated one follows; `ckpt` is the checkpoint with its session, line count,
the line where the current trial started and whether that trial has any
operations in its ledger.  Per process: `phase`, `session`, `next`
(`next_line_number`), `start`, `operations`.  Processes use `ExclusiveLock!Take/Drop`
(the instance `Lock`), which `WorkspaceLock` implements.  `AppendEvent` and
`PersistCheckpoint` are the two halves of `append_and_checkpoint()`;
`TearAppend` is a write cut short; `LoseWriter` is the end of the process or an
exception.  A resume goes through `checkpoint_with_reconciled_trace_count()`
(`ResumeReconciled`) or straight to `for_checkpoint()` (`ResumeTrusting`): both
exist, and the session loop that will choose does not.  The history variable
`offset` records that a resume trusted a checkpoint that did not count the lines
of the trace, which is when the code's own comment expects offset line ids.

### TraceClean
Extends `TraceJournal`.  A cleaner runs `PlanCheckpoint`, `PlanLock`, `PlanScan`,
`PlanSpans` (the four reads of `compute_clean_plan`, without the lock),
`ExecLock`, `ExecVerify`, `ExecBackup`, `ExecCopy`, `ExecReplace`; any step may
end in `Abandon` (refusal, exception or death).  `SelfClean` is the clean of a
session under its own lock: one step, as nothing else may write meanwhile.
Events are ordered by age, so "older than keep_days" is an id up to `expired`,
which only grows (`Age`).  All lines have the same size: `total` then stands for
both the line count and the file size that `_require_plan_still_matches_trace`
compares, the case in which the check is weakest.  A plan protects the sessions of
the checkpoint and of a living holder of the lock, and the lines from the start of the
current trial on, but those only once that trial has operations
(`trace_cleanup.py:698`, and `:226` for the refusal): a trial that has just begun
has the protection of its session and no other (`CurrentTrial`,
`CheckpointAllows`).  `Keep` is the trace without a
set of lines, copied line by line as `_rewrite_trace_file` does.

### ProcessLease
`proc` is the process table, `lease` the files under `state/processes/`, and one
agent works on one lease at a time (`task`, its copy in memory).  A run is
`_spawn_worker()` of the build harness: `Spawn`, `Register` or `RegisterFails`,
then `ChildReaped` and `Refresh`, or `GiveUp` (timeout, or `on_spawn` raises) and
a forced cleanup.  `Recover` starts `cleanup_process_lease()` or one turn of
`garbage_collect_process_leases()` on a lease from disk.  Both look at the
processes in two steps, for `find_cleanup_targets()` lists pids first and reads
groups and environments later: what forks and exits in between is not seen.
`Attribute` has the scores (3 for pid and create_time, 3 for the group, 4 for
the marker) and the thresholds; `Term`, `Kill` are the two signals to the groups
of the targets; `Mark` is the transition of the lease, refused by `WriteFails`
when the copy in memory is terminal.  The operating system hands out a pid only
when no process and no group has it, keeps the agent's dead child as a zombie
until it is waited for, and lets any process fork, leave for a group of its own,
drop the marker and exit at any time.  Roles, trials and sessions are one: the
files of different trials do not meet, those of one trial and role are named by
the pid alone.

### SpecProtection, StateConsistency and TrialSkills
`SpecProtection` has the spec file as the version of the user's template and the
trials injected into it, with its backups by trial; its operators are the five
skills.  `StateConsistency` has no state: `Issues` and `Severities` are all the
doctor's checks of a set of files, in the order and with the early ends of
`inspect_state_consistency`; a lease that was listed and could not be loaded is
the issue `process_lease_invalid`, and a reference to it is missing.  `TrialSkills` composes them.  `pc` goes through the
steps of `compile_candidate` (`CompileBegins`, `BackUp`, `InjectCombo`, `Spawn`,
`TraceStarted`, `CheckpointStarted`, `WorkerEnds`, `RestoreSpec`, `Verify`,
`TraceResult`, `CheckpointResult`) and of `benchmark_candidate`, which has the
same ones without the spec, once for each run.  A run of a benchmark has two
steps before its worker: `HashArtifact` takes the hash for its record
(`fake_gbs.py:245`), `ReadForScore` reads the artifact again for the score
(`fake_gbs.py:250`), which the worker only prints.  The artifact may change
between any two steps (`ArtifactChanges`); `raced` is history and marks a run
in which it did so between these two.  `mine` is the checkpoint the
caller has in memory and keeps when a call raises, `writer` the line count and
ledger of `TraceCheckpointWriter`, `disk` what is in `checkpoint.yaml`.  `Raise`
is an exception, by way of the `finally` clause of a compile; `SpawnFails`,
`KillOnSpawnFailure` (`on_spawn` raises; the cleanup kills the worker or gives it
up as `unsafe_skip`), `CleanupFails` (that cleanup, the one after a timeout, or
the wait raises itself, and the worker goes on), `WriteFails`, `RejectRecord`,
`RefuseBackup` and `FindNoPlaceholder` are where one starts; `Crash` may come between any two steps
and tear the append that was due.  Then `DefensiveRestore`, `CleanLease` and
`CollectLeases` may or may not happen before `Resume`.  `DoctorReads` is one file
at a time, beside a session that goes on; the leases are listed in one read and
loaded in another, and a collection may come between.  `DoctorErrorsAreReal`
excuses an error only by a torn trace, a wrong start line, or a lease that is gone
although the checkpoint read names it or the list has it.

### Initialisation and TrialStore
`Initialisation` is `run_init` up to the prompt and after it, and the guard
`assert_initialized`; `TrialStore` extends it with the records, the index and the
lock, which callers hold around a call (`Locked`).  A write is `BeginWrite`, which
refuses a path that is taken or stages a file, and `CommitWrite`, its rename.
`BeginEnsure` and `CompareTimes` are `ensure_trial_index_current`, which goes on
to a rebuild when the index is missing, foreign or older than a record;
`BeginRebuild` is the reindex command.  `Discover` loads all records or refuses,
`WriteDatabase` makes the temporary database and `PublishIndex` renames it.  Time is a tick that orders modification
times, which is all the staleness check compares, and a month that is part of a
record's path.  The user edits, deletes and copies files (`EditRecord`,
`DeleteRecord`, `LoseIndex`, `CopyForeign`, `ChangeInitialized`).

### FailureClassifier, PairQuality, StatsGates and Decisions
Three modules of operators: `FailureClassifier` for `error_analyzer.py`,
`PairQuality` for the order, overlaps, gaps and tolerances of paired runs, and
`StatsGates` for verdict, exploratory signal, family screen and acceptance, with
every rule of the result schema that relates fields to each other
(`VerdictRules`, `NumberRules`, `EffectInInterval`).  `Decisions` walks one candidate through them:
`BuildFails` or `Builds`, `BenchmarkFails`, `MeasurePair`, `PairUp`, `Compare`, `Screen`,
`Decide`.  The functions keep no state; the walk gives them inputs that belong
together.  Confidence intervals, autocorrelations and effective sample sizes come
out of `Compare` as any values their definitions allow: the ends of an interval are
quantiles of one sorted list (`Intervals`), an effective size is clamped to the
size of its sample (`EffectiveSizes`), and that is all that is taken of them; the
counts of runs and the relative values are computed as in the code.  The measured
effect is no member of the list of bootstrap means, so it may lie outside the
interval: then `compare_run_records` raises on its own schema
(`result_schema.py:255`), the stage `refused`.  `comparable` is a history
variable that holds the promise of the design notes (`doc/ARCHITECTURE_HLD.md:255`)
for the pairs as measured: no two runs overlap, and
the runs of a pair have the same order and are close in time, whatever durations
and gaps were reported.

## 4. Runs

| Run | Instance | Shows |
|---|---|---|
| `lock_safety` | 3 processes, 1 prober, 2 lives per pid | `MutualExclusion`, `HeldNeverMisnamed`, `StaleVerdictSound`, `NoOrphanedFlock`, and that the lock implements `ExclusiveLock` |
| `lock_liveness` | 2 processes, 1 prober, operator | `AcquireReturns` |
| `journal` | 2 processes, 2 sessions, 4 events | `CheckpointNeverAhead` and `LineIdsNeverLate` always; `LineIdsExact`, `TrialAnchored`, `WriterCanGoOn` until `offset` |
| `clean_safety` | 1 process, 2 sessions, 1 cleaner, 3 events | `OnlyOldEventsGo`, `ProtectedLinesStay` |
| `clean_self` | 1 process, 2 sessions, 4 events | `ProtectedLinesStay` of a clean under one's own lock |
| `processes` | 3 pids, 4 starts or changes of group | `OnlyOwnProcessesDie`, `LiveLeaderOnRecord`, `CleanupReaches` |
| `trial` | 2 trials, 2 versions of the template (one and two spellings), 2 runs, 3 workers, 1 fault | `OriginalRecoverable`, `CompilesTheOriginal`, `ScoresMeasureTheBuild`; what a crash or a failed write leaves is noticed (`NoSilentDivergence`, `SurvivorsAreKnown`); `DoctorErrorsAreReal` beside a session |
| `store` | 2 agents with the lock, 2 trials, 1 experience, 2 writes, 2 edits, 1 crash | `RecordsImmutable`, `FreshMeansCurrent`, `RefusedOnlyForRetries`, `ConfirmedIsWritten` |
| `decisions` | logs of 2 lines, 2 pairs in 5 ticks, 4 samples and 1 spare or invalid run, effects and intervals in -1 .. 2, families of 3 | `TwoSourcesAgree`, `GoodMeansComparable`, `RefusedForInterval`, `ScreenIsStepUp`, `AcceptedIsSound` |

Runs expected to find a violation, each a disagreement between the code and what
its documentation says:

| Run | What TLC shows |
|---|---|
| `lock_operator` | p1 opens `run.lock`; the operator removes it while nobody has the flock; p1 locks the removed inode, p2 a new one: both are inside |
| `clean_two` | two plans for the same trace; one is executed, an event is appended, and the other plan passes its checks and removes it |
| `clean_checkpoint` | after a clean the checkpoint counts more lines than the trace has; a reconciled resume refuses it |

Other behaviour of the code that a reader of the documentation may not expect,
and that the models contain without a run of its own:

* a probe of a read-only command makes an `acquire(timeout=0)` fail
  (`ProbeLock` then `Busy`);
* between `TryLock` and `WriteHolder` the busy error names an earlier holder;
* when a resume trusts the checkpoint, a crash between the first append of all and its
  checkpoint makes the resumed writer number its line 1, and every append is
  refused (`fs_memory.py:1823`), where `trace.py:286` speaks of an offset only;
* a clean renumbers the lines that trial records name (`trace_id`);
* a cleanup of a lease that is already terminal kills first and raises then
  (`Kill`, then `WriteFails`), and `unsafe_skip` is terminal: the forced cleanup
  that would follow a refused one never updates the lease;
* descendants outlive a normal end of the child, whose lease is `exited`, and a
  descendant in the recorded group that dropped the marker outlives a cleanup
  that found only an escaped one (3 points are not enough to be killed), with
  the lease `killed`;
* any process that got the pid of a stale lease is a target, with a score of 0
  if need be, so that the lease is never `unknown` and never collected while
  the process lives;
* a crash between the start of a child and its registration leaves a child
  without a lease (`lost`), which neither cleanup nor collection can find.

* until the current trial has operations, a clean may remove lines behind its start
  line that are not in the span of its session (`CurrentTrial`);
* an artifact replaced between its hash and the read for the score gives a valid
  record with the score of another artifact (`ScoresMeasureTheBuild` excepts it);
* a percentile interval that misses the measured effect makes `compare_run_records`
  raise a validation error where a verdict could be given (`RefusedForInterval`);
* a cleanup that raises after a failed `on_spawn` leaves the worker alive with a
  running lease, which the doctor reports as an orphan (`CleanupFails`);
* a template with placeholders of several spellings is injected again after a
  crash that left it injected (`CompilesTheOriginal` excepts it);
* a backup outlives its trial, and the next restoration of that trial undoes what
  the user saved since (`UserSaves` stays away from that);
* `garbage_collect_process_leases` removes leases that the ledger names, which
  the doctor then reports as an error (`process_ref_missing`);
* the same trial id written again in a later month gives a second record, and
  every rebuild of the index fails from then on (`RefusedOnlyForRetries`);
* a record written in the very tick of the index is not newer than it
  (`fs_memory.py:1761`), and an edit while a rebuild reads is not noticed: the
  model's writes take a tick of their own, and its user waits for the rebuild;
* of two runs of `init` at once the second overwrites `.initialized` of the first;
* the tolerance of a gap has a floor of 5 s in the code that the argument in the
  design notes leaves out; `GoodPairsCompare` holds with it all the same;
* `can_accept` takes the caller's word that a confirmation was run.

**Bounds.**  `MaxLife = 2` is enough for a pid to be reused, `MaxInode = 2` for
one removal and a new file; three processes are enough for one to hold, one to
wait and one to be recorded.  Four events let a session of two trials crash after
either append and resume twice; two sessions are enough for interleaved spans.
Three events let a clean remove one line in front of a checkpointed and a later
one.  Three pids are a leader, a descendant in a group of its own and one in
reuse; four changes are a run, a fork, an escape and the birth of a stranger or
of a second run.  Two trials let one begin after another left its backup; one fault suffices for each
thing a crash can leave, and the recovery from it; three workers are a compile and
the two runs of a benchmark.  The doctor starts before the first fault and with
the first template, for its question is about a healthy session.  Two agents,
two trials and two edits let an index be rebuilt, used and outdated by the other
agent or the user.  Five ticks give two pairs every order, overlap and gap
on both sides of the scaled tolerances; the first pair starts at 0 and has all the
reported gaps, the second one varies in its times.  The thresholds of the
statistics are scaled down to the smallest that keep their order.
In the trace, trial, store and process runs deadlock is not checked, nor in the
decisions, where a candidate's way ends: when the bound on events is
reached (nothing is born any more), or the trace is torn (which no code repairs), everything may stop.  Trials, agents
and records are interchangeable, and the runs use that symmetry.

**Fairness.**  Only `lock_liveness` uses it.  The body of `acquire()` is
straight-line code and a loop that sleeps at most 50 ms, so each of its steps is
taken eventually (`WF`); the clock reaches every deadline; a probe gives the
flock back.  Nothing is assumed of holders, crashes or the operator.

## 5. Proofs

`WorkspaceLockProofs`, for any sets of processes and probes and any bounds:

* `TypeCorrect`, with `LivesLeft` (a pid is free only while lives are left).
* `NoFlockOrphaned`, from `FlockInv`: whoever is inside has the flock on the
  inode it has open, and conversely.
* `LockExcludes` and `LockRefines`, under `~OperatorRemoves`: `OneFile` says that
  `run.lock` is created once and every descriptor is on that inode, so that the
  owner of its single flock is the only one inside.  The assumption is needed:
  `lock_operator` is the counterexample without it.
* `HolderNeverMisnamed`, from `ContentInv` (who writes the content has the flock).
* `StaleVerdictsSound`, from `LivesInv`: no recorded life is in the future, so a
  life that is over stays over.

`TraceJournalProofs`, for any number of processes, sessions and events:

* `TypeCorrect`, `CheckpointBehind` and `LineIdsAreNeverLate`, from `JournalInv`,
  which adds to them that whoever has a writer is alone inside the lock, that no
  line is lost (so the bound on events bounds the trace) and that a writer never
  starts past the line after the last one.
* `LineIdsAreExact`, `TrialIsAnchored`, `WritersGoOn`, from `LinesInv`: until a
  resume trusts a lagging checkpoint a writer's next line is the one after the
  last, and its trial starts at a `trial_start` of its session.  The proviso is
  in the properties (`~offset`), so the theorems have no assumption.

`TrialSkillsProofs`, for any number of trials, versions, runs, workers and faults:

* `TrialTypes`, from `Types`, which adds to the types what a call has at each step
  and `Current`: the call, its ledger and the caller's checkpoint are all for the
  trial in the checkpoint on disk.
* `TemplateSurvives`, from `Recoverable`.  `OriginalRecoverable` alone is not
  inductive: a restoration could bring back another trial's injected spec.  What
  makes it so is that the trial in the checkpoint has a backup only while the
  user's template is kept in one, that whatever has a backup has begun, and that a
  trial begins only once.
* `WorkersCompileTheOriginal`, from `Faithful`: the spec and the backup of the
  current trial are of the version saved last, and an injection into a template of
  one spelling finds it as the user left it.
* `ScoresAreOfTheBuild`, from `HashedRun`: between the read and the result of a run
  that nobody raced, what was measured is what was hashed, however the artifact
  changes after; a record of a run with another hash is rejected, and what is in
  the trace stays.

* `LedgerAndTraceAgree`, from `Ledgers` and `CallSound`.  The property speaks of
  the ledger on disk between calls; what makes it inductive is what a call has
  promised so far.  `OpTrue` says of one operation that its status is what the last
  event about it tells, or that it runs on a lease that does not, of which the
  doctor warns; it holds of every operation in the ledger on disk, in the caller's
  checkpoint and in the writer's.
  `CallSound` says, step by step, which events of the call at hand are in the trace
  already, so that a crash there leaves what the doctor notices; a call that failed
  and is on its way through the restoration may leave a lease that nobody waits for.
* `SurvivorsStayKnown`, from `WorkersLeased`: a worker is alive only with a lease
  that is `running` or `unsafe_skip`.
* `ReportedErrorsAreReal`, from `Counted` (neither the checkpoint on disk nor one
  in memory counts a line that the trace does not have) and `Seen`, one conjunct
  for each of the doctor's reads (`CheckpointSeen`, `LinesSeen`, `SessionsSeen`,
  `LeasesSeen`, `StartSeen`): what was read later is about a later state, so it
  holds whatever the checkpoint, read first, refers to; a lease that was listed is
  loaded, or gone.  Every error of the doctor
  then contradicts one of these or has one of the excuses of the property.

`TraceCleanProofs`, for any number of sessions, cleaners and events:

* `CleanTypeCorrect` and `ProtectedStay`, from `CleanInv`: whoever executes a plan
  is alone in the lock (`ExecutorsAreOwners`), and from the check of the plan to
  the rename the plan still matches the trace and the checkpoint (`PlanHolds`).
  What a plan protects, it then protects at the time of the removal; for the
  current trial that is so because the operations of a trial are in the checkpoint
  the plan is checked against.  As a clean
  shortens the trace, the bound of the types is on the events ever born
  (`WithinBorn`), not on its length.
* `OnlyOldGo`, under `OneRemover` (one cleaner and no session that cleans by
  itself, or sessions only), with `PlanIsOld`: what a plan found old is still at
  its place, for the trace only grows, and is in the backup before it goes.  The
  assumption is needed: `clean_two` is the counterexample without it.
* What `Keep` copies is shown by looking at the least line at which it would be
  wrong (`LeastNatural` of `NaturalOrder`), as induction itself cannot be cited.

`ProcessLeaseProofs`, for any number of pids and any time, from `LeaseInv`: all of a
group are of one run (`GroupsOfOneFamily`), the only dead process that stays in
the table is the child the agent has not waited for (`OnlyChildLingers`), a lease is
about a child of the agent by pid and `create_time` (`LeasesAboutChildren`), and
each group the cleaner found is of the run at hand, or of processes born since it
looked (`ScanProper`).  `LeaseTypeCorrect`, `LiveLeaderStaysOnRecord` and
`CleanupReachesAll` are conjuncts; `OwnProcessesOnly` takes the groups of `ScanProper`
to the two signals.

`TrialStoreProofs`, for any number of agents, records, edits and crashes; the
theorems about records and the index assume `Locked`, the contract of their
callers:

* `StoreTypes`, with who is inside has the lock; `RecordsStay`, from `StagedFree`: a
  file staged under the lock is for a path that nobody can fill before its rename.
* `FreshIsCurrent`, from `StoreSound`: a readable index has the row of every trial
  that is not newer than it (`IndexSound`), and a call between its steps has read
  all the trials there are and made their rows (`CallsSound`).  Then as many rows
  as there are trials are the rows of the trials: `CountedRows`, by an injection
  between finite sets.
* `RefusalsAreRetries`, from `Untouched`: while the user has changed nothing, a
  call finds every record as it was written, so what refuses it can only be two
  records of one trial id.
* `ConfirmationsAreWritten`: an agent leaves its prompt by its own answer or by a
  crash (`LeavingPrompt`), and its answer writes what it was shown.

`DecisionsProofs`, for all thresholds, families and numbers of pairs:

* `GoodPairsCompare`.  `NeighboursSuffice`: if no run overlaps the next one in
  time, no two overlap, which is why the code may look at neighbours only;
  `GapCoversARun`: then a pair's run is over by the start of the other, and a
  long duration cannot stretch the tolerance past the gap.
  `GoodStaysComparable` follows with the invariant `Sampling`.
* `RefusalsAreForIntervals`: every result passes the rules about its verdict
  (`VerdictsAgree`) and its numbers (`NumbersAgree`), so that one that is refused
  fails the rule about its interval (`RefusedMissesInterval`).
* `ScreenStaysStepUp`: the screen by ranks equals the step-up procedure that is
  stated without ranks, ties included (`ByRank`, `ScreenedAreRejected`).
* `AcceptedStaysSound`, from `Deciding`: the evidence a decision rests on is that
  of this candidate.
* `TwoSourcesStayAgreed` and `DecisionsTypeCorrect`, from `Classified`: a failure on
  record is the classification of its input.  The classifier takes the candidate
  with the greatest key in a lexicographic order, which exists for logs of every
  length (`SomeKeyIsAbove`); a category with two sources is above all with one.

The assumptions are those named in the modules: bounds are natural numbers, model
values differ from the data (`CheckpointAssumption`: what stands for no checkpoint
is not one), thresholds are ordered as the configuration asks; and `~OperatorRemoves`,
`OneRemover` and `Locked` where the theorems state them.

Model-checked only: `AcquireReturns`, as liveness under
fairness is beyond the proof system, and the three runs that expect a violation.

## 6. Not modelled

`candidate_identity.py` and `identifiers.py` format and hash values without state:
a combo or an id is a model value here.  `filesystem.py`, `errors.py`, `types.py`
and `cli/__main__.py` warn, name exit codes and parse arguments.  The validation
of configuration fields (`config.py`) is pure data.

Inside the modelled parts:

* Windows (no `fcntl`, the lock refuses), remote file systems (a warning), symbolic
  links and directories in place of files, `fsync` (a completed write is durable),
  the encoding of events and records, byte sizes of lines other than equal ones;
* leases of older versions without a lease id, the reuse of a pid within the half
  second that the comparison of create_time tolerates, processes that survive
  SIGKILL, environments of living processes that may not be read, agents that
  clean up the same lease at the same time;
* in the trial run: other sessions, templates saved while a call runs, a resume
  that trusts the checkpoint (that is `TraceJournal`), and the steps inside one
  atomic write or one collection of leases;
* the queries of the trial index, and the fields of learned rules and experiences
  other than their id and integrity;
* the bootstrap, the autocorrelation and the effective sample size as arithmetic;
  the measure of a run's score; and that runs without a valid score are not looked
  at for overlaps (`stats_core.py:1261`), here as in the code.
