---------------------------- MODULE ProcessLease ----------------------------
(***************************************************************************)
(* The processes an agent starts, the leases it keeps of them under        *)
(* state/processes/, and the cleaner that finds them again and kills them. *)
(*                                                                         *)
(* A child gets a session and a process group of its own and, in its       *)
(* environment, a marker with the id of its lease.  Its descendants fork,  *)
(* leave for other groups, lose the marker and exit as they please, beside *)
(* strangers, and a pid or a group number that is free is used again.  The *)
(* agent runs one task at a time: a run of the build harness, the cleanup  *)
(* of a recorded lease, or the garbage collection of one.  It looks at the *)
(* process table at one moment to list it, at a later one to attribute     *)
(* what it listed, and signals groups later still.                         *)
(*                                                                         *)
(* Time is counted in changes of who is in which group.  Two processes     *)
(* with the same pid are never born within the half a second the cleaner   *)
(* tolerates between two readings of create_time, and SIGKILL kills.       *)
(***************************************************************************)
EXTENDS Naturals, Functions

CONSTANTS
    Pid,        \* process ids, which also name process groups
    NoPid,      \* the agent has no task
    MaxTime     \* bound: how often a process starts or changes its group

ASSUME ProcessLeaseAssumption ==
    /\ MaxTime \in Nat
    /\ NoPid \notin Pid

VARIABLES
    now,        \* the time
    proc,       \* the process table, by pid
    lease,      \* the lease files, <role>-<pid>.yaml, by pid
    pc,         \* the step the agent is at
    task,       \* the lease it works on, as it has it in memory
    child,      \* the birth of its child that is not waited for yet, 0 if none
    scan,       \* what it knows from looking at the process table
    lost        \* history: leaders whose agent died before it recorded them

vars == <<now, proc, lease, pc, task, child, scan, lost>>

Time == 0 .. MaxTime

\* `origin' is the birth of the child of the agent that a process descends
\* from, 0 for a stranger; `marked': it has that child's marker in its
\* environment; `settled': when it came into its group.
Process == [birth : Time, settled : Time, group : Pid, origin : Time,
            marked : BOOLEAN, zombie : BOOLEAN]

Lease == [birth : Time,
          status : {"running", "exited", "killed", "unsafe_skip", "unknown"}]

\* A run of the harness, a cleanup of a lease, a garbage collection of one.
Task == [kind : {"none", "run", "cleanup", "collect"}, pid : Pid \cup {NoPid},
         lease : Lease, force : BOOLEAN]

NoTask == [kind |-> "none", pid |-> NoPid, force |-> FALSE,
           lease |-> [birth |-> 0, status |-> "running"]]

Target == [pid : Pid, group : Pid, score : 0 .. 10]

\* When it looked, the recorded pid as found directly, the pids it listed, the
\* groups to kill and the status to write.
Scan == [since : Time, direct : SUBSET Target, listed : SUBSET Pid,
         groups : SUBSET Pid, verdict : {"none", "unknown", "unsafe_skip", "killed"}]

NoScan == [since |-> 0, direct |-> {}, listed |-> {}, groups |-> {},
           verdict |-> "none"]

ProcTypeOK ==
    /\ now \in Time
    /\ DOMAIN proc \subseteq Pid /\ proc \in [DOMAIN proc -> Process]
    /\ DOMAIN lease \subseteq Pid /\ lease \in [DOMAIN lease -> Lease]
    /\ pc \in {"idle", "started", "waiting", "reaped",
               "look", "attribute", "term", "kill", "mark", "unlink"}
    /\ task \in Task
    /\ child \in Time
    /\ scan \in Scan
    /\ lost \subseteq Time

NoFile == [p \in {} |-> 0]

Without(f, S) == Restrict(f, DOMAIN f \ S)

With(f, p, v) == [q \in DOMAIN f \cup {p} |-> IF q = p THEN v ELSE f[q]]

Init ==
    /\ now = 0
    /\ proc = NoFile
    /\ lease = NoFile
    /\ pc = "idle"
    /\ task = NoTask
    /\ child = 0
    /\ scan = NoScan
    /\ lost = {}

-----------------------------------------------------------------------------
(* The operating system *)

\* The table after the processes in S died: the agent's child stays in it
\* until the agent waits for it, the others are reaped by init.
After(S) ==
    LET dead == {q \in S \cap DOMAIN proc : proc[q].birth # child}
    IN  [q \in DOMAIN proc \ dead |->
            IF q \in S THEN [proc[q] EXCEPT !.zombie = TRUE] ELSE proc[q]]

\* The table once the agent waited for its child, if that is dead.
Reaped == Without(proc, {q \in DOMAIN proc : proc[q].zombie})

Alive(q) == q \in DOMAIN proc /\ ~proc[q].zombie

\* A pid is given out only when it names neither a process nor a group.
Free(p, table) ==
    p \notin DOMAIN table /\ \A q \in DOMAIN table : table[q].group # p

Members(groups) == {q \in DOMAIN proc : proc[q].group \in groups}

Born(p, table, process) ==
    /\ now < MaxTime
    /\ Free(p, table)
    /\ now' = now + 1
    /\ proc' = With(table, p, process)

StrangerStarts(p) ==
    /\ Born(p, proc, [birth |-> now + 1, settled |-> now + 1, group |-> p,
                      origin |-> 0, marked |-> FALSE, zombie |-> FALSE])
    /\ UNCHANGED <<lease, pc, task, child, scan, lost>>

\* q starts p, with its environment or with another one.
Fork(q, p) ==
    /\ Alive(q)
    /\ \E marked \in {proc[q].marked, FALSE} :
           Born(p, proc, [proc[q] EXCEPT !.birth = now + 1, !.settled = now + 1,
                                         !.marked = marked])
    /\ UNCHANGED <<lease, pc, task, child, scan, lost>>

\* setsid(): a process that leads no group gets one of its own.
Escape(q) ==
    /\ Alive(q)
    /\ proc[q].group # q
    /\ now < MaxTime
    /\ now' = now + 1
    /\ proc' = [proc EXCEPT ![q].group = q, ![q].settled = now + 1]
    /\ UNCHANGED <<lease, pc, task, child, scan, lost>>

\* execve() with another environment.
DropMarker(q) ==
    /\ Alive(q)
    /\ proc[q].marked
    /\ proc' = [proc EXCEPT ![q].marked = FALSE]
    /\ UNCHANGED <<now, lease, pc, task, child, scan, lost>>

Exit(q) ==
    /\ Alive(q)
    /\ proc' = After({q})
    /\ UNCHANGED <<now, lease, pc, task, child, scan, lost>>

-----------------------------------------------------------------------------
(* A run of the harness *)

Spawn(p) ==
    /\ pc = "idle"
    /\ Born(p, proc, [birth |-> now + 1, settled |-> now + 1, group |-> p,
                      origin |-> now + 1, marked |-> TRUE, zombie |-> FALSE])
    /\ child' = now + 1
    /\ task' = [kind |-> "run", pid |-> p, force |-> TRUE,
                lease |-> [birth |-> now + 1, status |-> "running"]]
    /\ pc' = "started"
    /\ UNCHANGED <<lease, scan, lost>>

\* The task is over, with a result or an exception, and its Popen goes.
Finish ==
    /\ pc' = "idle"
    /\ task' = NoTask
    /\ child' = 0
    /\ scan' = NoScan

\* The child may be dead by now, but it is not waited for: the pid is its own.
Register ==
    /\ pc = "started"
    /\ lease' = With(lease, task.pid, task.lease)
    /\ pc' = "waiting"
    /\ UNCHANGED <<now, proc, task, child, scan, lost>>

\* Signals the group until the leader is dead; others may outlive a SIGTERM.
RegisterFails ==
    /\ pc = "started"
    /\ \E S \in SUBSET Members({task.pid}) :
           /\ task.pid \in S
           /\ proc' = Without(After(S), {task.pid})
    /\ Finish
    /\ UNCHANGED <<now, lease, lost>>

ChildReaped ==
    /\ pc = "waiting"
    /\ ~Alive(task.pid)
    /\ proc' = Reaped
    /\ child' = 0
    /\ pc' = "reaped"
    /\ UNCHANGED <<now, lease, task, scan, lost>>

\* The timeout passes, or the caller's on_spawn raises.
GiveUp ==
    /\ pc = "waiting"
    /\ pc' = "look"
    /\ UNCHANGED <<now, proc, lease, task, child, scan, lost>>

\* What both transition_process_lease and a failing write of it are about.
Write(status) ==
    /\ task.lease.status = "running"
    /\ lease' = With(lease, task.pid, [task.lease EXCEPT !.status = status])

Refresh ==
    /\ pc = "reaped"
    /\ \E status \in {"exited", "killed"} : Write(status)
    /\ Finish
    /\ UNCHANGED <<now, proc, lost>>

-----------------------------------------------------------------------------
(* Cleanup and garbage collection *)

\* A later agent takes up a lease from disk.
Recover(p, kind, force) ==
    /\ pc = "idle"
    /\ p \in DOMAIN lease
    /\ kind = "collect" => ~force
    /\ task' = [kind |-> kind, pid |-> p, lease |-> lease[p], force |-> force]
    /\ pc' = "look"
    /\ UNCHANGED <<now, proc, lease, child, scan, lost>>

\* The marker of the lease at hand; that of a zombie cannot be read.
HasMarker(q) ==
    Alive(q) /\ proc[q].marked /\ proc[q].origin = task.lease.birth

Points(condition, points) == IF condition THEN points ELSE 0

\* Mutant: create_time is not compared.
ScoreByPid(q) ==
    Points(q = task.pid, 3)
        + Points(proc[q].group = task.pid, 3)
        + Points(HasMarker(q), 4)

\* Mutant: a process found by both scans gets the marker's points twice.
ScorePerSource(q) ==
    Points(q = task.pid /\ proc[q].birth = task.lease.birth, 3)
        + Points(proc[q].group = task.pid, 3)
        + Points(HasMarker(q), 4)
        + Points(HasMarker(q) /\ proc[q].group = task.pid, 4)

Score(q) ==
    Points(q = task.pid /\ proc[q].birth = task.lease.birth, 3)
        + Points(proc[q].group = task.pid, 3)
        + Points(HasMarker(q), 4)

Attribution(q) == [pid |-> q, group |-> proc[q].group, score |-> Score(q)]

\* The recorded pid is looked up, zombie or not, and the table is listed.
Look ==
    /\ pc = "look"
    /\ scan' = [NoScan EXCEPT
                    !.since = now,
                    !.direct = {Attribution(q) : q \in {task.pid} \cap DOMAIN proc},
                    !.listed = DOMAIN proc]
    /\ pc' = "attribute"
    /\ UNCHANGED <<now, proc, lease, task, child, lost>>

\* Mutant: only the recorded pid is looked at.
RecordedTarget == scan.direct

\* Of two attributions of the recorded pid the second counts if it is higher.
CleanupTargets ==
    LET found == {Attribution(q) : q \in {q \in scan.listed :
                      Alive(q) /\ (proc[q].group = task.pid \/ HasMarker(q))}}
    IN  {t \in found : \A d \in scan.direct : d.pid = t.pid => d.score < t.score}
            \cup {d \in scan.direct : \A t \in found : d.pid = t.pid => t.score <= d.score}

\* owned from 7 points on, suspected from 4.
Threshold == IF task.force THEN 4 ELSE 7

Killable == {t \in CleanupTargets : t.score >= Threshold}

Attribute ==
    /\ pc = "attribute"
    /\ task.kind # "collect"
    /\ LET verdict == IF CleanupTargets = {} THEN "unknown"
                      ELSE IF Killable = {} THEN "unsafe_skip" ELSE "killed"
       IN  /\ scan' = [scan EXCEPT !.verdict = verdict,
                                   !.groups = {t.group : t \in Killable}]
           /\ pc' = IF verdict = "killed" THEN "term" ELSE "mark"
    /\ UNCHANGED <<now, proc, lease, task, child, lost>>

\* SIGTERM: any process may ignore it.
Term ==
    /\ pc = "term"
    /\ \E S \in SUBSET Members(scan.groups) : proc' = After(S)
    /\ pc' = "kill"
    /\ UNCHANGED <<now, lease, task, child, scan, lost>>

\* Mutant: there is no SIGKILL after the SIGTERM.
KillNothing ==
    /\ pc = "kill"
    /\ pc' = "mark"
    /\ UNCHANGED <<now, proc, lease, task, child, scan, lost>>

\* SIGKILL to the groups that still have members; one that only has members
\* born while the table was read may be overlooked.
Kill ==
    /\ pc = "kill"
    /\ \E seen \in SUBSET scan.groups :
           /\ \A q \in DOMAIN proc :
                  Alive(q) /\ proc[q].group \in scan.groups /\ proc[q].settled <= scan.since
                      => proc[q].group \in seen
           /\ proc' = After(Members(seen))
    /\ pc' = "mark"
    /\ UNCHANGED <<now, lease, task, child, scan, lost>>

\* The lease is written and, after a run, the child waited for.
Mark ==
    /\ pc = "mark"
    /\ Write(scan.verdict)
    /\ proc' = Reaped
    /\ Finish
    /\ UNCHANGED <<now, lost>>

\* The lease in memory is in a terminal status, or the write fails.
WriteFails ==
    /\ pc \in {"mark", "reaped"}
    /\ proc' = Reaped
    /\ Finish
    /\ UNCHANGED <<now, lease, lost>>

KeepLease ==
    /\ pc = "attribute"
    /\ task.kind = "collect"
    /\ CleanupTargets # {}
    /\ Finish
    /\ UNCHANGED <<now, proc, lease, lost>>

FindNothing ==
    /\ pc = "attribute"
    /\ task.kind = "collect"
    /\ CleanupTargets = {}
    /\ pc' = "unlink"
    /\ UNCHANGED <<now, proc, lease, task, child, scan, lost>>

Unlink ==
    /\ pc = "unlink"
    /\ lease' = Without(lease, {task.pid})
    /\ Finish
    /\ UNCHANGED <<now, proc, lost>>

Crash ==
    /\ pc # "idle"
    /\ lost' = lost \cup (IF pc = "started" THEN {task.lease.birth} ELSE {})
    /\ proc' = Reaped
    /\ Finish
    /\ UNCHANGED <<now, lease>>

-----------------------------------------------------------------------------

Environment ==
    \/ \E p \in Pid : StrangerStarts(p)
    \/ \E q, p \in Pid : Fork(q, p)
    \/ \E q \in Pid : Escape(q) \/ DropMarker(q) \/ Exit(q)

Run ==
    \/ \E p \in Pid : Spawn(p)
    \/ Register \/ RegisterFails \/ ChildReaped \/ GiveUp \/ Refresh

Cleanup ==
    \/ \E p \in Pid, kind \in {"cleanup", "collect"}, force \in BOOLEAN : Recover(p, kind, force)
    \/ Look \/ Attribute \/ Term \/ Kill \/ Mark \/ WriteFails
    \/ KeepLease \/ FindNothing \/ Unlink

Next == Environment \/ Run \/ Cleanup \/ Crash

Spec == Init /\ [][Next]_vars

-----------------------------------------------------------------------------
(* Properties *)

\* The agent never kills a process that is not of the run at hand: not a
\* stranger and not a process of another lease, whatever pids and groups were
\* used again since the lease was written (process_cleaner's attribution).
\* What is born after the cleaner looked may have a group that died meanwhile.
OnlyOwnProcessesDie ==
    [][pc' # pc =>
          \A q \in DOMAIN proc :
              \/ q \in DOMAIN proc' /\ proc'[q].zombie = proc[q].zombie
              \/ proc[q].origin = task.lease.birth
              \/ pc # "started" /\ proc[q].birth > scan.since]_vars

\* A child that lives is on record: its lease is running or, if its ownership
\* was in doubt, unsafe_skip; never killed, exited, unknown or collected.
LiveLeaderOnRecord ==
    \A q \in DOMAIN proc :
        Alive(q) /\ proc[q].origin = proc[q].birth =>
            \/ /\ q \in DOMAIN lease
               /\ lease[q].birth = proc[q].birth
               /\ lease[q].status \in {"running", "unsafe_skip"}
            \/ pc = "started" /\ task.lease.birth = proc[q].birth
            \/ proc[q].birth \in lost

\* A descendant of the run that kept its marker and its group since the
\* cleaner looked outlives the cleanup only outside the recorded group, when
\* nothing was forced, and never passes for gone: the disappearance of the
\* recorded pid is not enough (find_cleanup_targets, garbage collection).
CleanupReaches ==
    pc \in {"mark", "unlink"} =>
        \A q \in DOMAIN proc :
            HasMarker(q) /\ proc[q].settled <= scan.since =>
                /\ pc = "mark"
                /\ scan.verdict # "unknown"
                /\ ~task.force
                /\ proc[q].group # task.pid

=============================================================================
