----------------------------- MODULE TrialStore -----------------------------
(***************************************************************************)
(* The files of one namespace that are the source of truth - trials,       *)
(* learned rules, experiences - and the index that is derived from the     *)
(* trials.                                                                 *)
(*                                                                         *)
(* An agent writes a record by staging a temporary file and renaming it    *)
(* over a path it found free, and renames a rebuilt index in the same way. *)
(* It holds the workspace lock over each call when Locked (the functions   *)
(* leave that to their callers).  The user holds no lock: he annotates,    *)
(* tampers with and deletes files, drops the index, and copies the         *)
(* directory of another project over this one.                             *)
(*                                                                         *)
(* A record and a change of the user take the clock to a new tick; an index *)
(* shares its tick with what came before it.                               *)
(***************************************************************************)
EXTENDS Initialisation, FiniteSets

CONSTANTS
    TrialId, RuleId, ExperienceId,
    NoIndex,        \* there is no _index.sqlite
    Nobody,         \* nobody holds the workspace lock
    Locked,         \* the agent holds the lock over a call
    MaxWrites,      \* bound: the writes ever begun
    MaxFaults       \* bound: crashes and failed writes

ASSUME StoreAssumption ==
    /\ Locked \in BOOLEAN
    /\ MaxWrites \in Nat /\ MaxFaults \in Nat
    /\ Nobody \notin Process

VARIABLES
    month,          \* the month of the clock on the wall
    clock,          \* the tick of the file system
    files,          \* the records, by path
    index,          \* _index.sqlite
    lock,           \* the process that holds the workspace lock
    work,           \* what the running call of each process has in memory
    writes, faults

storeVars == <<month, clock, files, index, lock, work, writes, faults>>
vars == <<initVars, pc, answer, storeVars>>

Month == {"last", "this"}

Path == [kind : {"trial"}, bucket : Month, id : TrialId]
        \cup [kind : {"rule"}, bucket : {"rules"}, id : RuleId]
        \cup [kind : {"experience"}, bucket : {"local", "imported"}, id : ExperienceId]

\* `author' tells one write from another; the user's edits keep it.
Record == [author : Nat, namespace : Namespace, mtime : Nat,
           edit : {"none", "notes", "payload"}]

Row == [path : Path, author : Nat]

Index == [rows : SUBSET Row, mtime : Nat, sound : BOOLEAN]

TrialPaths == {x \in DOMAIN files : x.kind = "trial"}

\* Where a record written now goes: trial_record_path takes the month of the
\* completion, experience_path the origin or the trust level.
Target(x) == x.kind = "trial" => x.bucket = month

\* MUTANT: the path is not looked at before it is written.
NeverTaken(x) == FALSE

Taken(x) == x \in DOMAIN files

\* load_*: the hash of a trial covers all of it, that of a rule or of an
\* experience leaves out the fields the user may edit.
Intact(x, r) == r.edit = "none" \/ (r.edit = "notes" /\ x.kind # "trial")

\* _validate_discovered_trial
AtHome(x) == files[x].namespace = "ours"

\* load_trial_record_for_layout
LoadsHere(x) == Intact(x, files[x]) /\ AtHome(x)

Discoverable == \A x \in TrialPaths : LoadsHere(x)

RowOf(x) == [path |-> x, author |-> files[x].author]

Rows(paths) == {RowOf(x) : x \in paths}

\* MUTANT: the rows are keyed by their month.
OneRowPerMonth(paths) ==
    \A x, y \in paths : x.bucket = y.bucket => x = y

\* trial_id is the primary key of the table.
OneRowPerTrial(paths) ==
    \A x, y \in paths : x.id = y.id => x = y

Gone(paths) == ~(paths \subseteq DOMAIN files)

\* trial_index_is_stale: the index can be read and counts as many trials as
\* there are files ...
Countable ==
    /\ index # NoIndex /\ index.sound
    /\ Cardinality(index.rows) = Cardinality(TrialPaths)

\* MUTANT: the times are not compared.
NeverNewer(paths) == FALSE

\* ... and no file is newer than it.
Newer(paths) == \E x \in paths \cap DOMAIN files : files[x].mtime > index.mtime

Nothing == [paths |-> {}, rows |-> {}, mtime |-> 0, author |-> 0]

Idle(p) == pc[p] = "idle" /\ p \in started

TakeLock(p) ==
    /\ Locked => lock = Nobody
    /\ lock' = IF Locked THEN p ELSE lock

\* MUTANT: the lock is kept when a call ends with an error.
KeptLock(p) == lock

Unlocked(p) == IF lock = p THEN Nobody ELSE lock

\* The call returns or raises, and its caller lets the lock go.
Finish(p, a) ==
    /\ End(p, a)
    /\ lock' = Unlocked(p)
    /\ work' = [work EXCEPT ![p] = Nothing]

Step(p, step, memory) ==
    /\ pc' = [pc EXCEPT ![p] = step]
    /\ work' = [work EXCEPT ![p] = memory]
    /\ UNCHANGED answer

----------------------------------------------------------------------------
(* The calls of an agent. *)

\* write_trial_record, write_learned_rule, write_experience: an existing path
\* is refused, or the temporary file is written.
BeginWrite(p, x) ==
    /\ Idle(p) /\ Target(x) /\ writes < MaxWrites
    /\ Locked => lock = Nobody
    /\ writes' = writes + 1
    /\ \/ /\ Taken(x)
          /\ Finish(p, "exists")
          /\ UNCHANGED clock
       \/ /\ ~Taken(x)
          /\ TakeLock(p)
          /\ clock' = clock + 1
          /\ Step(p, "staged", [Nothing EXCEPT !.paths = {x}, !.mtime = clock',
                                               !.author = writes'])
    /\ UNCHANGED <<month, files, index, faults, initVars>>

\* atomic_write_yaml: os.replace.
CommitWrite(p) ==
    /\ pc[p] = "staged"
    /\ \E x \in work[p].paths :
           files' = [y \in DOMAIN files \cup {x} |->
                        IF y = x THEN [author |-> work[p].author, namespace |-> "ours",
                                       mtime |-> work[p].mtime, edit |-> "none"]
                        ELSE files[y]]
    /\ Finish(p, "written")
    /\ UNCHANGED <<month, clock, index, writes, faults, initVars>>

\* load_learned_rule, load_experience
LoadRecord(p, x) ==
    /\ Idle(p)
    /\ x \in DOMAIN files /\ x.kind # "trial"
    /\ End(p, IF Intact(x, files[x]) THEN "loaded" ELSE "refused")
    /\ UNCHANGED <<storeVars, initVars>>

\* ensure_trial_index_current: trial_index_is_stale up to its loop over the
\* files, which it has listed by then.
BeginEnsure(p) ==
    /\ Idle(p)
    /\ TakeLock(p)
    /\ Step(p, IF Countable THEN "stats" ELSE "discover",
            [Nothing EXCEPT !.paths = TrialPaths])
    /\ UNCHANGED <<month, clock, files, index, writes, faults, initVars>>

\* The files are compared with the index one stat after the other until one is
\* newer; one that is gone before that raises FileNotFoundError, and so does
\* an index that is gone.  The summary is then loaded once more.
CompareTimes(p) ==
    /\ pc[p] = "stats"
    /\ \/ /\ Gone(work[p].paths) \/ index = NoIndex
          /\ Finish(p, "refused")
       \/ /\ index # NoIndex => Newer(work[p].paths) \/ ~index.sound
          /\ Step(p, "discover", Nothing)
          /\ UNCHANGED lock
       \/ /\ ~Gone(work[p].paths) /\ index # NoIndex
          /\ ~Newer(work[p].paths) /\ index.sound
          /\ Finish(p, "current")
    /\ UNCHANGED <<month, clock, files, index, writes, faults, initVars>>

\* agent reindex: rebuild_trial_index without a look at the index.
BeginRebuild(p) ==
    /\ Idle(p)
    /\ TakeLock(p)
    /\ Step(p, "discover", Nothing)
    /\ UNCHANGED <<month, clock, files, index, writes, faults, initVars>>

\* discover_trial_records: one record that does not load refuses them all.
Discover(p) ==
    /\ pc[p] = "discover"
    /\ \/ /\ ~Discoverable
          /\ Finish(p, "refused")
       \/ /\ Discoverable
          /\ Step(p, "rows", [Nothing EXCEPT !.paths = TrialPaths,
                                             !.rows = Rows(TrialPaths)])
          /\ UNCHANGED lock
    /\ UNCHANGED <<month, clock, files, index, writes, faults, initVars>>

\* The rows take the times of their files, and the temporary database is
\* written; on an error its files are removed and the old index stays.
WriteDatabase(p) ==
    /\ pc[p] = "rows"
    /\ \/ /\ Gone(work[p].paths) \/ ~OneRowPerTrial(work[p].paths)
          /\ Finish(p, "refused")
          /\ UNCHANGED faults
       \/ /\ faults < MaxFaults
          /\ faults' = faults + 1
          /\ Finish(p, "failed")
       \/ /\ ~Gone(work[p].paths) /\ OneRowPerTrial(work[p].paths)
          /\ Step(p, "database", [work[p] EXCEPT !.mtime = clock])
          /\ UNCHANGED <<lock, faults>>
    /\ UNCHANGED <<month, clock, files, index, writes, initVars>>

\* os.replace of the temporary database.
PublishIndex(p) ==
    /\ pc[p] = "database"
    /\ index' = [rows |-> work[p].rows, mtime |-> work[p].mtime, sound |-> TRUE]
    /\ Finish(p, "rebuilt")
    /\ UNCHANGED <<month, clock, files, writes, faults, initVars>>

\* A write of the agent fails: the temporary file is removed.
WriteFails(p) ==
    /\ pc[p] = "staged" /\ faults < MaxFaults
    /\ faults' = faults + 1
    /\ Finish(p, "failed")
    /\ UNCHANGED <<month, clock, files, index, writes, initVars>>

\* A process dies, and with it its lock.  The temporary files it leaves have
\* dotted names, which nothing lists.
Crash(p) ==
    /\ p \in started /\ faults < MaxFaults
    /\ faults' = faults + 1
    /\ started' = started \ {p}
    /\ Finish(p, "none")
    /\ UNCHANGED <<month, clock, files, index, writes,
                   config, registered, initialized, context, edits>>

\* A session ends.
Leave(p) ==
    /\ Idle(p)
    /\ started' = started \ {p}
    /\ UNCHANGED <<pc, answer, storeVars, config, registered, initialized, context, edits>>

\* The guard of a start, with the versions collected from the trials.
StartUp(p) ==
    /\ Startup(p, Discoverable, {files[x].namespace : x \in TrialPaths})
    /\ UNCHANGED storeVars

----------------------------------------------------------------------------
(* The user and the clock. *)

userVars == <<config, registered, initialized, context, started>>

\* He saves a file with other notes or another payload.  He is quiet while a
\* rebuild reads: see the README for what happens otherwise.
EditRecord(x) ==
    /\ UserActs
    /\ x \in DOMAIN files
    /\ \A p \in Process : pc[p] \notin {"rows", "database"}
    /\ clock' = clock + 1
    /\ \E edit \in {"notes", "payload"} :
           files' = [files EXCEPT ![x].edit = edit, ![x].mtime = clock']
    /\ UNCHANGED <<month, index, lock, work, writes, faults, userVars, pc, answer>>

DeleteRecord(x) ==
    /\ UserActs
    /\ x \in DOMAIN files
    /\ clock' = clock + 1
    /\ files' = [y \in DOMAIN files \ {x} |-> files[y]]
    /\ UNCHANGED <<month, index, lock, work, writes, faults, userVars, pc, answer>>

\* agent clean cache, or an index of another schema version.
LoseIndex ==
    /\ UserActs
    /\ index # NoIndex
    /\ index' \in {NoIndex, [index EXCEPT !.sound = FALSE]}
    /\ UNCHANGED <<month, clock, files, lock, work, writes, faults, userVars, pc, answer>>

\* He copies the directory of another project over this one while nothing
\* runs: its .initialized, its trials, and an index that lists them.
CopyForeign ==
    /\ UserActs
    /\ started = {} /\ DOMAIN files = {}
    /\ initialized' \in {initialized} \cup [namespace : {"foreign"}, baseline : Baseline]
    /\ clock' = clock + 1
    /\ \E x \in Path :
           /\ x.kind = "trial"
           /\ files' = [y \in {x} |-> [author |-> 0, namespace |-> "foreign",
                                      mtime |-> clock', edit |-> "none"]]
           /\ index' = [rows |-> {[path |-> x, author |-> 0]}, mtime |-> clock',
                        sound |-> TRUE]
    /\ UNCHANGED <<month, lock, work, writes, faults, config, registered, context,
                   started, pc, answer>>

\* He removes .initialized to answer the prompt again, or spoils it.
ChangeInitialized ==
    /\ UserActs
    /\ started = {} /\ initialized # NotInitialised
    /\ initialized' \in {NotInitialised, [initialized EXCEPT !.namespace = "unreadable"]}
    /\ UNCHANGED <<month, clock, files, index, lock, work, writes, faults,
                   config, registered, context, started, pc, answer>>

MonthTurns ==
    /\ month = "last"
    /\ month' = "this"
    /\ UNCHANGED <<clock, files, index, lock, work, writes, faults,
                   initVars, pc, answer>>

----------------------------------------------------------------------------

StoreTypeOK ==
    /\ month \in Month /\ clock \in Nat
    /\ DOMAIN files \subseteq Path /\ files \in [DOMAIN files -> Record]
    /\ index \in Index \cup {NoIndex}
    /\ lock \in Process \cup {Nobody}
    /\ pc \in [Process -> {"idle", "prompt", "staged", "stats", "discover",
                           "rows", "database"}]
    /\ \A p \in Process :
           /\ work[p].paths \subseteq Path /\ work[p].rows \subseteq Row
           /\ Locked => (lock = p <=> pc[p] \notin {"idle", "prompt"})
    /\ started \subseteq Process
    /\ initialized \in InitializedState \cup {NotInitialised}

Init ==
    /\ InitialisationInit
    /\ month = "last" /\ clock = 1
    /\ files = [x \in {} |-> 0]
    /\ index = NoIndex
    /\ lock = Nobody
    /\ work = [p \in Process |-> Nothing]
    /\ writes = 0 /\ faults = 0

Initialising ==
    \/ \E p \in Process :
           \/ RunInit(p) /\ UNCHANGED storeVars
           \/ Decline(p) /\ UNCHANGED storeVars
           \/ Confirm(p) /\ UNCHANGED storeVars
    \/ ConfigEdited /\ UNCHANGED storeVars
    \/ RegistryEdited /\ UNCHANGED storeVars

Calling(p) ==
    \/ StartUp(p)
    \/ \E x \in Path : BeginWrite(p, x) \/ LoadRecord(p, x)
    \/ CommitWrite(p)
    \/ WriteFails(p)
    \/ BeginEnsure(p)
    \/ CompareTimes(p)
    \/ BeginRebuild(p)
    \/ Discover(p)
    \/ WriteDatabase(p)
    \/ PublishIndex(p)
    \/ Crash(p)
    \/ Leave(p)

UserStep ==
    \/ \E x \in Path : EditRecord(x) \/ DeleteRecord(x)
    \/ LoseIndex
    \/ CopyForeign
    \/ ChangeInitialized
    \/ MonthTurns

Next == Initialising \/ (\E p \in Process : Calling(p)) \/ UserStep

Spec == Init /\ [][Next]_vars

(***************************************************************************)
(* A record on disk is never replaced by another write of an agent, although*)
(* the path is looked at before the file is staged and renamed after: the   *)
(* lock keeps the other writers out, and a retry of a write that a crash    *)
(* cut off finds the path taken or free (fs_memory.py:1353-1414).           *)
(***************************************************************************)
RecordsImmutable ==
    [][\A x \in DOMAIN files \cap DOMAIN files' :
           files'[x].author = files[x].author]_files

(***************************************************************************)
(* Whoever is told that the index is current reads from it exactly the     *)
(* trials that are on disk, each of them intact and of this project, in    *)
(* spite of files deleted while it was built, of edits and deletions made  *)
(* since, of records written in the same tick and of an index that came    *)
(* with the directory of another project (fs_memory.py:1748-1772).         *)
(***************************************************************************)
FreshMeansCurrent ==
    [][\A p \in Process :
           pc[p] = "stats" /\ pc'[p] = "idle" /\ answer' = "current" =>
               /\ index.rows = Rows(TrialPaths)
               /\ Discoverable]_<<pc, answer>>

(***************************************************************************)
(* While the user keeps his hands off the files, an agent is refused an    *)
(* index only when a trial was written once more in a later month: neither *)
(* crashes nor any order of calls of two agents leave a store that cannot  *)
(* be indexed (fs_memory.py:1649-1695).                                    *)
(***************************************************************************)
RefusedOnlyForRetries ==
    [][\A p \in started :
           edits = 0 /\ pc[p] # "idle" /\ pc'[p] = "idle" /\ answer' = "refused" =>
               \E x, y \in TrialPaths : x.id = y.id /\ x.bucket # y.bucket]_<<pc, answer>>
=============================================================================
