----------------------------- MODULE TraceClean -----------------------------
(***************************************************************************)
(* `agent clean trace` beside the sessions of TraceJournal.                *)
(*                                                                         *)
(* A cleaner plans without the workspace lock: it reads checkpoint.yaml,   *)
(* the lock, the lines of the trace and, in a second pass, the spans of    *)
(* the sessions in it, while sessions and other cleaners go on.  To        *)
(* execute, it takes the lock, checks that what it read is still there,    *)
(* copies the trace to _trash/, writes the kept lines to a temporary file  *)
(* and renames that over events.jsonl.  The checkpoint is left alone.      *)
(*                                                                         *)
(* Events are appended in the order of their time stamps, so an age is a   *)
(* number of events: the first `expired' ones are older than --keep-days.  *)
(* All lines have the same size, the worst case for a check of sizes.      *)
(***************************************************************************)
EXTENDS TraceJournal

CONSTANTS
    Cleaner,        \* processes that run `agent clean trace --yes' (with its backup)
    CleansItself    \* may a session clean under the lock it holds (force)?

ASSUME TraceCleanAssumption ==
    /\ Cleaner \cap Agent = {}
    /\ CleansItself \in BOOLEAN

VARIABLES
    expired,    \* events with an id up to this one are older than keep_days
    trash,      \* the ids of the events in the backups under _trash/
    stage,      \* stage[c]: the step cleaner c is at
    plan,       \* plan[c]: what it read (a CleanPlan)
    temp        \* temp[c]: its temporary file

cleaning == <<stage, plan, temp>>
cleanVars == <<vars, expired, trash, cleaning>>

CleanLock == INSTANCE ExclusiveLock WITH Client <- Agent \cup Cleaner

Plan == [ckpt : Checkpoint \cup {NoCheckpoint}, expired : Count, total : Count,
         old : SUBSET Count, protected : SUBSET Count]

NoPlan == [ckpt |-> NoCheckpoint, expired |-> 0, total |-> 0,
           old |-> {}, protected |-> {}]

Planning == {"idle", "lock", "scan", "spans", "planned"}
Executing == {"verify", "backup", "copy", "replace"}

CleanTypeOK ==
    /\ owners \in SUBSET (Agent \cup Cleaner)
    /\ trace \in Seq(Event)
    /\ ckpt \in Checkpoint \cup {NoCheckpoint}
    /\ expired \in 0 .. born
    /\ trash \in SUBSET (1 .. born)
    /\ stage \in [Cleaner -> Planning \cup Executing]
    /\ plan \in [Cleaner -> Plan]
    /\ temp \in [Cleaner -> Seq(Event)]

CleanInit ==
    /\ Init
    /\ expired = 0
    /\ trash = {}
    /\ stage = [c \in Cleaner |-> "idle"]
    /\ plan = [c \in Cleaner |-> NoPlan]
    /\ temp = [c \in Cleaner |-> <<>>]

-----------------------------------------------------------------------------
(* What a plan keeps *)

\* The lines from the first to the last one of a session, others in between
\* included (inspect_trace_session_spans).
Span(s) ==
    LET its == {i \in DOMAIN trace : trace[i].session = s}
    IN  {i \in DOMAIN trace : \E f, l \in its : f <= i /\ i <= l}

\* The lines from the start of the checkpoint's current trial to line `total',
\* as soon as the trial has an operation.
CurrentTrial(c, total) ==
    IF c # NoCheckpoint /\ c.operations THEN c.start .. total ELSE {}

Protected(c, sessions, total) ==
    (UNION {Span(s) : s \in sessions}) \cup CurrentTrial(c, total)

\* The sessions of the checkpoint c, here without that of a lock holder.
CheckpointSessions(c) == IF c = NoCheckpoint THEN {} ELSE {c.session}

\* No refusal_reason comes from the checkpoint.
CheckpointAllows(c, total) ==
    c # NoCheckpoint =>
        /\ c.count # Missing
        /\ c.count <= total
        /\ c.operations => c.start <= total

\* Mutant: one line past the boundary counts as checkpointed.
BoundaryOffByOne(p) ==
    {i \in p.old \ p.protected : p.ckpt # NoCheckpoint => i <= p.ckpt.count + 1}

\* Old, unprotected and not after the checkpoint.
Removable(p) ==
    {i \in p.old \ p.protected : p.ckpt # NoCheckpoint => i <= p.ckpt.count}

\* The lines of the trace without those at the positions gone: what is copied of
\* the first i lines.
Keep(gone) ==
    LET copied[i \in 0 .. Len(trace)] ==
            IF i = 0 THEN <<>>
            ELSE IF i \in gone THEN copied[i - 1]
            ELSE Append(copied[i - 1], trace[i])
    IN  copied[Len(trace)]

-----------------------------------------------------------------------------
(* Planning, without the lock *)

\* The cleaner's next step.  A step whose guard does not hold is refused: it
\* raises, or only reports the plan, see Abandon.
Move(c, from, to) ==
    /\ stage[c] = from
    /\ stage' = [stage EXCEPT ![c] = to]

\* The clock and checkpoint.yaml.
PlanCheckpoint(c) ==
    /\ Move(c, "idle", "lock")
    /\ plan' = [plan EXCEPT ![c].ckpt = ckpt, ![c].expired = expired]
    /\ UNCHANGED <<vars, expired, trash, temp>>

\* Only a free lock lets the plan be executed.
PlanLock(c) ==
    /\ owners = {}
    /\ Move(c, "lock", "scan")
    /\ UNCHANGED <<vars, expired, trash, plan, temp>>

\* The lines and their ages.  A torn tail is an error.
PlanScan(c) ==
    /\ ~torn
    /\ Move(c, "scan", "spans")
    /\ plan' = [plan EXCEPT ![c].total = Len(trace),
                            ![c].old = {i \in DOMAIN trace :
                                            trace[i].id <= plan[c].expired}]
    /\ UNCHANGED <<vars, expired, trash, temp>>

\* The spans of the protected sessions, from a second reading of the trace, and
\* the plan: executable when nothing refuses it and some line is removable.
PlanSpans(c) ==
    LET read == plan[c]
        p == [read EXCEPT !.protected =
                 Protected(read.ckpt, CheckpointSessions(read.ckpt), read.total)]
    IN  /\ ~torn
        /\ CheckpointAllows(p.ckpt, p.total)
        /\ Removable(p) # {}
        /\ Move(c, "spans", "planned")
        /\ plan' = [plan EXCEPT ![c] = p]
        /\ UNCHANGED <<vars, expired, trash, temp>>

-----------------------------------------------------------------------------
(* Executing, under the lock *)

\* acquire("agent clean trace"); a busy lock raises.
ExecLock(c) ==
    /\ Move(c, "planned", "verify")
    /\ CleanLock!Take(c)
    /\ UNCHANGED <<disk, writer, expired, trash, plan, temp>>

\* _require_plan_still_matches_state(): as many lines as planned, the checkpoint
\* and the protected lines that were read; anything else is a stale plan.
StillMatches(p) ==
    /\ ~torn
    /\ Len(trace) = p.total
    /\ ckpt = p.ckpt
    /\ p.protected = Protected(ckpt, CheckpointSessions(p.ckpt), p.total)

ExecVerify(c) ==
    /\ StillMatches(plan[c])
    /\ Move(c, "verify", "backup")
    /\ UNCHANGED <<vars, expired, trash, plan, temp>>

\* Mutant: the backup is made of the rewritten trace.
ExecBackupRewritten(c) ==
    /\ Move(c, "backup", "copy")
    /\ LET kept == Keep(Removable(plan[c]))
       IN  trash' = trash \cup {kept[i].id : i \in DOMAIN kept}
    /\ UNCHANGED <<vars, expired, plan, temp>>

\* The whole trace is copied to a new directory of _trash/.
ExecBackup(c) ==
    /\ Move(c, "backup", "copy")
    /\ trash' = trash \cup {trace[i].id : i \in DOMAIN trace}
    /\ UNCHANGED <<vars, expired, plan, temp>>

\* The lines that are kept are copied to a temporary file.
ExecCopy(c) ==
    /\ Move(c, "copy", "replace")
    /\ temp' = [temp EXCEPT ![c] = Keep(Removable(plan[c]))]
    /\ UNCHANGED <<vars, expired, trash, plan>>

\* The end of a clean; what it read and its temporary file are of no more use.
Finish(c) ==
    /\ stage' = [stage EXCEPT ![c] = "idle"]
    /\ plan' = [plan EXCEPT ![c] = NoPlan]
    /\ temp' = [temp EXCEPT ![c] = <<>>]

\* os.replace() of events.jsonl, and the release of the lock.
ExecReplace(c) ==
    /\ stage[c] = "replace"
    /\ trace' = temp[c]
    /\ CleanLock!Drop(c)
    /\ Finish(c)
    /\ UNCHANGED <<torn, born, ckpt, writer, expired, trash>>

\* A refusal, an exception or the death of the process: the lock, if it was
\* taken, is released, and the trace is as it was.
Abandon(c) ==
    /\ stage[c] # "idle"
    /\ IF stage[c] \in Executing THEN CleanLock!Drop(c) ELSE UNCHANGED owners
    /\ Finish(c)
    /\ UNCHANGED <<disk, writer, expired, trash>>

-----------------------------------------------------------------------------
(* The session cleans, and the rest of the world *)

\* Mutant: the session the lock is held for is not protected.
SelfCleanForgettingHolder(a) ==
    LET p == [ckpt |-> ckpt, expired |-> expired, total |-> Len(trace),
              old |-> {i \in DOMAIN trace : trace[i].id <= expired},
              protected |-> Protected(ckpt, CheckpointSessions(ckpt), Len(trace))]
    IN  /\ CleansItself
        /\ phase[a] # "off"
        /\ ~torn
        /\ CheckpointAllows(ckpt, Len(trace))
        /\ Removable(p) # {}
        /\ trash' = trash \cup {trace[i].id : i \in DOMAIN trace}
        /\ trace' = Keep(Removable(p))
        /\ UNCHANGED <<owners, torn, born, ckpt, writer, expired, cleaning>>

\* --force-clean-inactive-only in the process that holds the lock: it plans and
\* executes under its own lock; the session it holds the lock for is protected
\* too.  Its writer goes on with the line number it has.
SelfClean(a) ==
    LET sessions == CheckpointSessions(ckpt) \cup {session[a]}
        p == [ckpt |-> ckpt, expired |-> expired, total |-> Len(trace),
              old |-> {i \in DOMAIN trace : trace[i].id <= expired},
              protected |-> Protected(ckpt, sessions, Len(trace))]
    IN  /\ CleansItself
        /\ phase[a] # "off"
        /\ ~torn
        /\ CheckpointAllows(ckpt, Len(trace))
        /\ Removable(p) # {}
        /\ trash' = trash \cup {trace[i].id : i \in DOMAIN trace}
        /\ trace' = Keep(Removable(p))
        /\ UNCHANGED <<owners, torn, born, ckpt, writer, expired, cleaning>>

\* Mutant: a negative keep_days, which puts the cutoff in the future.
AgeNegative ==
    /\ expired' \in expired + 1 .. born + 1
    /\ UNCHANGED <<vars, trash, cleaning>>

\* keep_days pass: cutoff_ts moves on.
Age ==
    /\ expired' \in expired + 1 .. born
    /\ UNCHANGED <<vars, trash, cleaning>>

CleanStep(c) ==
    \/ PlanCheckpoint(c) \/ PlanLock(c) \/ PlanScan(c) \/ PlanSpans(c)
    \/ ExecLock(c) \/ ExecVerify(c) \/ ExecBackup(c) \/ ExecCopy(c)
    \/ ExecReplace(c) \/ Abandon(c)

CleanNext ==
    \/ Next /\ UNCHANGED <<expired, trash, cleaning>>
    \/ \E c \in Cleaner : CleanStep(c)
    \/ \E a \in Agent : SelfClean(a)
    \/ Age

CleanSpec == CleanInit /\ [][CleanNext]_cleanVars

-----------------------------------------------------------------------------
(* Properties *)

Ids(events) == {events[i].id : i \in DOMAIN events}

\* An event that is gone from the trace was older than keep_days, and a backup
\* has it: none that was appended while the trace was rewritten is lost, and no
\* crash comes between the backup and the removal.
OnlyOldEventsGo ==
    \A e \in 1 .. born : e \in Ids(trace) \/ (e <= expired /\ e \in trash)

\* The three protections of clean trace, at the time of the removal and not of
\* the plan: nothing goes of the checkpoint's session, after the checkpoint, or
\* of a trial in progress with operations, whose first line the checkpoint names.
ProtectedLinesStay ==
    [][\A i \in DOMAIN trace :
          \/ trace[i].id \in Ids(trace')
          \/ /\ ckpt # NoCheckpoint =>
                   /\ trace[i].session # ckpt.session
                   /\ i <= ckpt.count
                   /\ ckpt.operations => i < ckpt.start
             /\ \A a \in Agent : phase[a] # "off" => trace[i].session # session[a]
      ]_cleanVars

=============================================================================
