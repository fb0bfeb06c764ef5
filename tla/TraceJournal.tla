---------------------------- MODULE TraceJournal ----------------------------
(***************************************************************************)
(* The two durable files a session writes as it goes: trace/events.jsonl,  *)
(* an append-only log, and state/checkpoint.yaml, which counts the lines   *)
(* of the log that recovery may rely on and remembers the line at which    *)
(* the trial in progress started and the operations run in it.             *)
(*                                                                         *)
(* TraceCheckpointWriter appends first and persists the checkpoint after,  *)
(* so a process can stop between the two, or in the middle of the append,  *)
(* and the next process builds its writer from what is on disk.  Line      *)
(* numbers are never read back: the writer counts them in memory, trusting *)
(* the checkpoint, and hands them out as the ids of events ("L<n>").       *)
(*                                                                         *)
(* An event is reduced to its session, the line id it was given, whether   *)
(* it is a trial_start, and the order in which it was appended; the ledger *)
(* of operations of a trial to whether it has any.                         *)
(***************************************************************************)
EXTENDS Naturals, Sequences

CONSTANTS
    Agent,          \* processes that run sessions
    Session,        \* session ids
    MaxEvents,      \* bound: how many events are ever appended
    NoCheckpoint,   \* checkpoint.yaml does not exist
    Missing         \* a checkpoint of an older version, without trace_line_count

Count == 0 .. MaxEvents
Checkpoint == [session : Session, count : Count \cup {Missing}, start : Count,
               operations : BOOLEAN]
Event == [id : 1 .. MaxEvents, session : Session, line : 1 .. MaxEvents + 1,
          trialStart : BOOLEAN]

ASSUME TraceJournalAssumption ==
    /\ MaxEvents \in Nat
    /\ Missing \notin Nat
    /\ NoCheckpoint \notin Checkpoint

VARIABLES
    owners,     \* the processes inside the workspace lock (see ExclusiveLock)
    trace,      \* the newline-terminated lines of events.jsonl
    torn,       \* does an unterminated line follow them?
    born,       \* how many events were ever appended
    ckpt,       \* checkpoint.yaml
    phase,      \* phase[a]: has process a a writer, and an append to checkpoint?
    session,    \* session[a]: the session of a's writer
    next,       \* next[a]: its next_line_number
    start,      \* start[a]: current_trial_start_line in its checkpoint, 0 if none
    operations, \* operations[a]: has that trial any in its ledger?
    offset      \* history: has a resume trusted a checkpoint that did not count
                \* the lines of the trace?

disk == <<trace, torn, born, ckpt>>
writer == <<phase, session, next, start, operations, offset>>
vars == <<owners, disk, writer>>

Lock == INSTANCE ExclusiveLock WITH Client <- Agent

TypeOK ==
    /\ owners \in SUBSET Agent
    /\ trace \in Seq(Event)
    /\ torn \in BOOLEAN
    /\ born \in Count
    /\ ckpt \in Checkpoint \cup {NoCheckpoint}
    /\ phase \in [Agent -> {"off", "ready", "appended"}]
    /\ session \in [Agent -> Session]
    /\ next \in [Agent -> 1 .. MaxEvents + 1]
    /\ start \in [Agent -> Count]
    /\ operations \in [Agent -> BOOLEAN]
    /\ offset \in BOOLEAN

\* A workspace without trace; its checkpoint, if any, was written by hand or by
\* a version without trace_line_count.
Init ==
    /\ owners = {}
    /\ trace = <<>>
    /\ torn = FALSE
    /\ born = 0
    /\ \/ ckpt = NoCheckpoint
       \/ \E s \in Session, n \in {0, Missing} :
             ckpt = [session |-> s, count |-> n, start |-> 0, operations |-> FALSE]
    /\ phase = [a \in Agent |-> "off"]
    /\ session \in [Agent -> Session]
    /\ next = [a \in Agent |-> 1]
    /\ start = [a \in Agent |-> 0]
    /\ operations = [a \in Agent |-> FALSE]
    /\ offset = FALSE

HasCount(c) == c # NoCheckpoint /\ c.count # Missing

\* inspect_trace_checkpoint_alignment() for a checkpoint that exists.
Alignment(c) ==
    CASE c.count = Missing -> "checkpoint_missing"
      [] c.count = Len(trace) -> "aligned"
      [] c.count \in Nat /\ c.count < Len(trace) -> "trace_ahead"
      [] OTHER -> "checkpoint_ahead"

-----------------------------------------------------------------------------
(* Building a writer.  Every process first takes the workspace lock. *)

\* Mutant: the writer starts at the last line instead of the one after it.
AttachAtLastLine(a, s, n, first, ops) ==
    /\ phase[a] = "off"
    /\ Lock!Take(a)
    /\ phase' = [phase EXCEPT ![a] = "ready"]
    /\ session' = [session EXCEPT ![a] = s]
    /\ next' = [next EXCEPT ![a] = n - 1]
    /\ start' = [start EXCEPT ![a] = first]
    /\ operations' = [operations EXCEPT ![a] = ops]
    /\ UNCHANGED disk

\* A writer for session s that starts numbering at line n, in the trial that
\* started at line first.
Attach(a, s, n, first, ops) ==
    /\ phase[a] = "off"
    /\ Lock!Take(a)
    /\ phase' = [phase EXCEPT ![a] = "ready"]
    /\ session' = [session EXCEPT ![a] = s]
    /\ next' = [next EXCEPT ![a] = n]
    /\ start' = [start EXCEPT ![a] = first]
    /\ operations' = [operations EXCEPT ![a] = ops]
    /\ UNCHANGED disk

\* A new session: its checkpoint, still in memory only, has no trace_line_count,
\* so the validated lines of the trace are counted.  A torn tail refuses.
BeginSession(a, s) ==
    /\ ~torn
    /\ Attach(a, s, Len(trace) + 1, 0, FALSE)
    /\ UNCHANGED offset

\* Resume as for_checkpoint() does it: a checkpoint with a count is trusted and
\* the trace is not scanned.
ResumeTrusting(a) ==
    /\ ckpt # NoCheckpoint
    /\ IF ckpt.count = Missing
       THEN ~torn /\ Attach(a, ckpt.session, Len(trace) + 1, ckpt.start, ckpt.operations)
       ELSE Attach(a, ckpt.session, ckpt.count + 1, ckpt.start, ckpt.operations)
    /\ offset' = (offset \/ Alignment(ckpt) \in {"trace_ahead", "checkpoint_ahead"})

\* Mutant: reconciliation only fills in a missing count.
ResumeFillingMissing(a) ==
    /\ ckpt # NoCheckpoint
    /\ ~torn
    /\ IF ckpt.count = Missing
       THEN Attach(a, ckpt.session, Len(trace) + 1, ckpt.start, ckpt.operations)
       ELSE Attach(a, ckpt.session, ckpt.count + 1, ckpt.start, ckpt.operations)
    /\ UNCHANGED offset

\* Resume through checkpoint_with_reconciled_trace_count(), which counts the
\* validated lines and refuses a checkpoint that is ahead of them.
ResumeReconciled(a) ==
    /\ ckpt # NoCheckpoint
    /\ ~torn
    /\ Alignment(ckpt) # "checkpoint_ahead"
    /\ Attach(a, ckpt.session, Len(trace) + 1, ckpt.start, ckpt.operations)
    /\ UNCHANGED offset

-----------------------------------------------------------------------------
(* Appending and checkpointing *)

\* The checks of append_trace_event() on a file that it does not scan.
CanAppend(a) ==
    /\ ~torn
    /\ (Len(trace) = 0) <=> (next[a] = 1)

Stop(a) ==
    /\ Lock!Drop(a)
    /\ phase' = [phase EXCEPT ![a] = "off"]
    /\ UNCHANGED <<session, next, start, operations, offset>>

\* The whole line reaches the disk and the writer counts it.  The event may open
\* a trial (trial_start), which the checkpoint written next anchors at this
\* line, close it, or tell of an operation, which that checkpoint adds to the
\* ledger: a trial just opened has none, and none is taken back.
AppendEvent(a) ==
    /\ phase[a] = "ready"
    /\ CanAppend(a)
    /\ born < MaxEvents
    /\ \E first \in {start[a], next[a], 0} :
          /\ trace' = Append(trace, [id |-> born + 1, session |-> session[a],
                                     line |-> next[a],
                                     trialStart |-> first = next[a]])
          /\ start' = [start EXCEPT ![a] = first]
          /\ \E ops \in IF first \in {0, next[a]} THEN {FALSE}
                         ELSE {operations[a], TRUE} :
                operations' = [operations EXCEPT ![a] = ops]
    /\ born' = born + 1
    /\ next' = [next EXCEPT ![a] = @ + 1]
    /\ phase' = [phase EXCEPT ![a] = "appended"]
    /\ UNCHANGED <<owners, torn, ckpt, session, offset>>

\* The process dies, or the disk fills up, inside the write: an unterminated
\* line stays behind, and the exception or the crash ends the writer.
TearAppend(a) ==
    /\ phase[a] = "ready"
    /\ CanAppend(a)
    /\ born < MaxEvents
    /\ torn' = TRUE
    /\ Stop(a)
    /\ UNCHANGED <<trace, born, ckpt>>

\* append_trace_event() refuses; TraceWriteError ends the session's work.
RefuseAppend(a) ==
    /\ phase[a] = "ready"
    /\ ~CanAppend(a)
    /\ Stop(a)
    /\ UNCHANGED disk

\* Mutant: the checkpoint counts the line that is still to be written.
PersistNextLine(a) ==
    /\ phase[a] = "appended"
    /\ ckpt' = [session |-> session[a], count |-> next[a], start |-> start[a],
               operations |-> operations[a]]
    /\ phase' = [phase EXCEPT ![a] = "ready"]
    /\ UNCHANGED <<owners, trace, torn, born, session, next, start, operations, offset>>

\* write_checkpoint_state(): an atomic replacement of checkpoint.yaml by one
\* that counts every line the writer handed out.
PersistCheckpoint(a) ==
    /\ phase[a] = "appended"
    /\ ckpt' = [session |-> session[a], count |-> next[a] - 1, start |-> start[a],
               operations |-> operations[a]]
    /\ phase' = [phase EXCEPT ![a] = "ready"]
    /\ UNCHANGED <<owners, trace, torn, born, session, next, start, operations, offset>>

\* The process ends, dies, or an exception (a failed fsync after the append, a
\* failed checkpoint write) throws its writer away.  Only the disk remains.
LoseWriter(a) ==
    /\ phase[a] \in {"ready", "appended"}
    /\ Stop(a)
    /\ UNCHANGED disk

Next ==
    \E a \in Agent :
        \/ \E s \in Session : BeginSession(a, s)
        \/ ResumeTrusting(a)
        \/ ResumeReconciled(a)
        \/ AppendEvent(a)
        \/ TearAppend(a)
        \/ RefuseAppend(a)
        \/ PersistCheckpoint(a)
        \/ LoseWriter(a)

Spec == Init /\ [][Next]_vars

-----------------------------------------------------------------------------
(* Properties *)

\* The checkpoint never counts a line the trace does not have: checkpoint_ahead,
\* which reconciliation refuses, does not come from crashes.
CheckpointNeverAhead ==
    HasCount(ckpt) => ckpt.count <= Len(trace)

\* However a resume comes by its line number, crashes only make it too low: the
\* id of an event never names a line behind it.
LineIdsNeverLate ==
    \A i \in DOMAIN trace : trace[i].line <= i

\* Every event is where its trace_id says, "events.jsonl#L<n>" being line n,
\* until a resume trusts a checkpoint that a crash left behind.
LineIdsExact ==
    ~offset => \A i \in DOMAIN trace : trace[i].line = i

\* Until then, the line at which the checkpoint anchors the trial in progress
\* holds a trial_start of the checkpoint's session: what the doctor looks for and
\* what the protection of the current trial in clean trace relies on.
TrialAnchored ==
    ~offset /\ ckpt # NoCheckpoint /\ ckpt.start # 0 =>
        /\ ckpt.start \in DOMAIN trace
        /\ trace[ckpt.start].trialStart
        /\ trace[ckpt.start].session = ckpt.session

\* Until then, a resumed writer can go on: the trace does not refuse its next
\* append, unless its tail is torn.
WriterCanGoOn ==
    \A a \in Agent : phase[a] = "ready" /\ ~torn /\ ~offset => CanAppend(a)

\* Lines are handed out by one process at a time: whoever has a writer is alone
\* in the workspace lock, from before it read the checkpoint until it stops.
WritersAreOwners ==
    \A a \in Agent : phase[a] # "off" => owners = {a}

=============================================================================
