------------------------- MODULE TraceJournalProofs -------------------------
(***************************************************************************)
(* Proofs about TraceJournal, for any number of processes, sessions and    *)
(* events.                                                                 *)
(***************************************************************************)
EXTENDS TraceJournal, TLAPS

USE TraceJournalAssumption DEF Count

\* No line is lost, so the order of the appends bounds the length of the trace.
AllLinesKept == Len(trace) = born

\* A writer never starts past the line after the last one.
NextInReach ==
    \A a \in Agent : phase[a] # "off" => next[a] <= Len(trace) + 1

\* Inductive, whether resumes reconcile or trust.
JournalInv ==
    /\ TypeOK
    /\ WritersAreOwners
    /\ AllLinesKept
    /\ NextInReach
    /\ CheckpointNeverAhead
    /\ LineIdsNeverLate

\* Nothing is written yet, and an old checkpoint counts nothing.
LEMMA JournalInit ==
    ASSUME Init
    PROVE  JournalInv
<1>1. TypeOK
  <2>1. <<>> \in Seq(Event) /\ 0 \in Count /\ 1 \in 1 .. MaxEvents + 1
    OBVIOUS
  <2>2. ckpt \in Checkpoint \cup {NoCheckpoint}
    <3>1. CASE ckpt = NoCheckpoint
      BY <3>1
    <3>2. ASSUME NEW s \in Session, NEW n \in {0, Missing},
                 ckpt = [session |-> s, count |-> n, start |-> 0, operations |-> FALSE]
          PROVE  ckpt \in Checkpoint
      <4>1. n \in Count \cup {Missing} /\ 0 \in Count /\ FALSE \in BOOLEAN
        OBVIOUS
      <4> QED
        BY <3>2, <4>1, Zenon DEF Checkpoint
    <3> QED
      BY <3>1, <3>2, Zenon DEF Init
  <2> QED
    BY <2>1, <2>2 DEF Init, TypeOK
<1>2. WritersAreOwners /\ AllLinesKept /\ NextInReach
  BY DEF Init, WritersAreOwners, AllLinesKept, NextInReach
<1>3. CheckpointNeverAhead /\ LineIdsNeverLate
  BY DEF Init, CheckpointNeverAhead, HasCount, LineIdsNeverLate
<1> QED
  BY <1>1, <1>2, <1>3 DEF JournalInv

-----------------------------------------------------------------------------
(* The steps *)

\* A writer that starts within reach of the trace keeps the invariant.
LEMMA AttachKeeps ==
    ASSUME JournalInv, NEW a \in Agent, NEW s \in Session,
           NEW n \in 1 .. Len(trace) + 1, NEW first \in Count,
           NEW ops \in BOOLEAN, Attach(a, s, n, first, ops), offset' \in BOOLEAN
    PROVE  JournalInv'
<1>1. n \in 1 .. MaxEvents + 1
  BY DEF JournalInv, TypeOK, AllLinesKept
<1>2. owners = {} /\ owners' = {a}
  BY DEF Attach, Lock!Take
<1>3. TypeOK'
  BY <1>1, <1>2 DEF JournalInv, TypeOK, Attach, disk
<1>4. WritersAreOwners'
  BY <1>2 DEF JournalInv, TypeOK, WritersAreOwners, Attach
<1>5. AllLinesKept' /\ NextInReach' /\ CheckpointNeverAhead' /\ LineIdsNeverLate'
  BY DEF JournalInv, TypeOK, AllLinesKept, NextInReach, CheckpointNeverAhead,
         LineIdsNeverLate, HasCount, Attach, disk
<1> QED
  BY <1>3, <1>4, <1>5 DEF JournalInv

\* A writer that goes away takes nothing with it.
LEMMA StopKeeps ==
    ASSUME JournalInv, NEW a \in Agent, Stop(a),
           UNCHANGED <<trace, born, ckpt>>, torn' \in BOOLEAN
    PROVE  JournalInv'
<1>1. owners = {a} /\ owners' = {}
  BY DEF Stop, Lock!Drop
<1>2. TypeOK'
  BY <1>1 DEF JournalInv, TypeOK, Stop
<1>3. WritersAreOwners'
  BY <1>1 DEF JournalInv, TypeOK, WritersAreOwners, Stop
<1>4. AllLinesKept' /\ NextInReach' /\ CheckpointNeverAhead' /\ LineIdsNeverLate'
  BY DEF JournalInv, TypeOK, AllLinesKept, NextInReach, CheckpointNeverAhead,
         LineIdsNeverLate, HasCount, Stop
<1> QED
  BY <1>2, <1>3, <1>4 DEF JournalInv

\* The next line and the next event are within the bound.
LEMMA NextToAppend ==
    ASSUME JournalInv, NEW a \in Agent, AppendEvent(a)
    PROVE  /\ next[a] \in 1 .. MaxEvents
           /\ start[a] \in Count
           /\ born + 1 \in 1 .. MaxEvents
<1>1. phase[a] # "off" /\ born < MaxEvents
  BY DEF AppendEvent
<1>2. born \in Count /\ next[a] \in 1 .. MaxEvents + 1 /\ start[a] \in Count
  BY DEF JournalInv, TypeOK
<1>3. next[a] <= born + 1
  BY <1>1 DEF JournalInv, AllLinesKept, NextInReach
<1> QED
  BY <1>1, <1>2, <1>3

\* An append leaves operations in the ledger or none.
LEMMA AppendOperations ==
    ASSUME JournalInv, NEW a \in Agent, AppendEvent(a)
    PROVE  \E ops \in BOOLEAN : operations' = [operations EXCEPT ![a] = ops]
<1>1. operations[a] \in BOOLEAN
  BY DEF JournalInv, TypeOK
<1>2. PICK first \in {start[a], next[a], 0} :
         \E ops \in IF first \in {0, next[a]} THEN {FALSE} ELSE {operations[a], TRUE} :
            operations' = [operations EXCEPT ![a] = ops]
  BY DEF AppendEvent
<1>3. PICK ops \in IF first \in {0, next[a]} THEN {FALSE} ELSE {operations[a], TRUE} :
         operations' = [operations EXCEPT ![a] = ops]
  BY <1>2
<1>4. ops \in BOOLEAN
  BY <1>1, <1>3
<1> QED
  BY <1>3, <1>4

\* What one append does to the trace.
LEMMA AppendedTrace ==
    ASSUME JournalInv, NEW a \in Agent, AppendEvent(a)
    PROVE  \E first \in Count :
              /\ first \in {start[a], next[a], 0}
              /\ start' = [start EXCEPT ![a] = first]
              /\ \E ops \in BOOLEAN : operations' = [operations EXCEPT ![a] = ops]
              /\ LET e == [id |-> born + 1, session |-> session[a],
                           line |-> next[a], trialStart |-> first = next[a]]
                 IN  e \in Event /\ trace' = Append(trace, e)
<1>1. PICK first \in {start[a], next[a], 0} :
         /\ trace' = Append(trace, [id |-> born + 1, session |-> session[a],
                                    line |-> next[a],
                                    trialStart |-> first = next[a]])
         /\ start' = [start EXCEPT ![a] = first]
  BY DEF AppendEvent
<1>2. next[a] \in 1 .. MaxEvents /\ start[a] \in Count /\ born + 1 \in 1 .. MaxEvents
  BY NextToAppend
<1>3. [id |-> born + 1, session |-> session[a], line |-> next[a],
       trialStart |-> first = next[a]] \in Event
  BY <1>2 DEF JournalInv, TypeOK, Event
<1>4. first \in Count
  BY <1>1, <1>2
<1>5. \E ops \in BOOLEAN : operations' = [operations EXCEPT ![a] = ops]
  BY AppendOperations
<1> QED
  BY <1>1, <1>3, <1>4, <1>5

\* AppendEvent: the trace grows by the event that is counted, and the checkpoint
\* stays behind it.
LEMMA AppendKeeps ==
    ASSUME JournalInv, NEW a \in Agent, AppendEvent(a)
    PROVE  JournalInv'
<1>1. PICK first \in Count, e \in Event :
         /\ trace' = Append(trace, e)
         /\ start' = [start EXCEPT ![a] = first]
         /\ \E ops \in BOOLEAN : operations' = [operations EXCEPT ![a] = ops]
         /\ e.line = next[a]
  BY AppendedTrace
<1>2. trace' \in Seq(Event) /\ Len(trace') = Len(trace) + 1
  BY <1>1 DEF JournalInv, TypeOK
<1>3. next[a] + 1 \in 1 .. MaxEvents + 1 /\ born' = born + 1 /\ born' \in Count
  <2>1. born' = born + 1
    BY DEF AppendEvent
  <2>2. next[a] \in 1 .. MaxEvents /\ born + 1 \in 1 .. MaxEvents
    BY NextToAppend
  <2> QED
    BY <2>1, <2>2
<1>4. TypeOK'
  <2>1. operations' \in [Agent -> BOOLEAN]
    BY <1>1, Zenon DEF JournalInv, TypeOK
  <2> QED
    BY <1>1, <1>2, <1>3, <2>1 DEF JournalInv, TypeOK, AppendEvent
<1>5. WritersAreOwners'
  BY DEF JournalInv, TypeOK, WritersAreOwners, AppendEvent
<1>6. AllLinesKept' /\ CheckpointNeverAhead'
  BY <1>2 DEF JournalInv, TypeOK, Checkpoint, AllLinesKept, CheckpointNeverAhead, HasCount,
              AppendEvent
<1>7. NextInReach'
  BY <1>2 DEF JournalInv, TypeOK, NextInReach, AppendEvent
<1>8. LineIdsNeverLate'
  <2>1. next[a] <= Len(trace) + 1 /\ Len(trace) \in Nat
    BY DEF JournalInv, TypeOK, NextInReach, AppendEvent
  <2>2. \A i \in DOMAIN trace' :
           \/ i \in DOMAIN trace /\ trace'[i] = trace[i]
           \/ i = Len(trace) + 1 /\ trace'[i] = e
    BY <1>1 DEF JournalInv, TypeOK
  <2> QED
    BY <1>1, <2>1, <2>2 DEF JournalInv, LineIdsNeverLate
<1> QED
  BY <1>4, <1>5, <1>6, <1>7, <1>8 DEF JournalInv

\* PersistCheckpoint: the count it writes is that of lines in the trace.
LEMMA PersistKeeps ==
    ASSUME JournalInv, NEW a \in Agent, PersistCheckpoint(a)
    PROVE  JournalInv'
<1>1. next[a] - 1 \in Count /\ next[a] - 1 <= Len(trace)
  <2>1. phase[a] # "off"
    BY DEF PersistCheckpoint
  <2>2. next[a] \in 1 .. MaxEvents + 1 /\ Len(trace) \in Nat
    BY DEF JournalInv, TypeOK
  <2>3. next[a] <= Len(trace) + 1
    BY <2>1 DEF JournalInv, NextInReach
  <2> QED
    BY <2>2, <2>3
<1>2. ckpt' \in Checkpoint
  BY <1>1 DEF JournalInv, TypeOK, Checkpoint, PersistCheckpoint
<1>3. TypeOK' /\ WritersAreOwners'
  BY <1>2 DEF JournalInv, TypeOK, WritersAreOwners, PersistCheckpoint
<1>4. AllLinesKept' /\ NextInReach' /\ CheckpointNeverAhead' /\ LineIdsNeverLate'
  BY <1>1 DEF JournalInv, TypeOK, AllLinesKept, NextInReach, CheckpointNeverAhead,
              LineIdsNeverLate, PersistCheckpoint
<1> QED
  BY <1>3, <1>4 DEF JournalInv

\* Every step of the journal preserves JournalInv.
LEMMA JournalStep ==
    ASSUME JournalInv, [Next]_vars
    PROVE  JournalInv'
<1>1. CASE UNCHANGED vars
  BY <1>1 DEF vars, disk, writer, JournalInv, TypeOK, WritersAreOwners,
              AllLinesKept, NextInReach, CheckpointNeverAhead, LineIdsNeverLate,
              HasCount
<1>2. ASSUME NEW a \in Agent, NEW s \in Session, BeginSession(a, s)
      PROVE  JournalInv'
  <2>1. Len(trace) + 1 \in 1 .. Len(trace) + 1
    BY DEF JournalInv, TypeOK
  <2>2. offset' \in BOOLEAN
    BY <1>2 DEF JournalInv, TypeOK, BeginSession
  <2>3. Attach(a, s, Len(trace) + 1, 0, FALSE)
    BY <1>2, Zenon DEF BeginSession
  <2>4. 0 \in Count /\ FALSE \in BOOLEAN
    BY DEF Count
  <2> QED
    BY <2>1, <2>2, <2>3, <2>4, AttachKeeps, Zenon
<1>3. ASSUME NEW a \in Agent, ResumeTrusting(a)
      PROVE  JournalInv'
  <2>1. ckpt \in Checkpoint
    BY <1>3 DEF JournalInv, TypeOK, ResumeTrusting
  <2>2. CASE ckpt.count = Missing
    <3>1. Len(trace) + 1 \in 1 .. Len(trace) + 1
      BY DEF JournalInv, TypeOK
    <3> QED
      BY <1>3, <2>1, <2>2, <3>1, AttachKeeps DEF ResumeTrusting, Checkpoint
  <2>3. CASE ckpt.count # Missing
    <3>1. ckpt.count + 1 \in 1 .. Len(trace) + 1
      BY <1>3, <2>1, <2>3 DEF JournalInv, TypeOK, Checkpoint,
                 CheckpointNeverAhead, HasCount, ResumeTrusting
    <3> QED
      BY <1>3, <2>1, <2>3, <3>1, AttachKeeps DEF ResumeTrusting, Checkpoint
  <2> QED
    BY <2>2, <2>3
<1>4. ASSUME NEW a \in Agent, ResumeReconciled(a)
      PROVE  JournalInv'
  <2>1. ckpt \in Checkpoint
    BY <1>4 DEF JournalInv, TypeOK, ResumeReconciled
  <2>2. Len(trace) + 1 \in 1 .. Len(trace) + 1
    BY DEF JournalInv, TypeOK
  <2>3. offset' \in BOOLEAN
    BY <1>4 DEF JournalInv, TypeOK, ResumeReconciled
  <2> QED
    BY <1>4, <2>1, <2>2, <2>3, AttachKeeps DEF ResumeReconciled, Checkpoint
<1>5. ASSUME NEW a \in Agent, AppendEvent(a)
      PROVE  JournalInv'
  BY <1>5, AppendKeeps
<1>6. ASSUME NEW a \in Agent, TearAppend(a)
      PROVE  JournalInv'
  BY <1>6, StopKeeps DEF TearAppend
<1>7. ASSUME NEW a \in Agent, RefuseAppend(a)
      PROVE  JournalInv'
  BY <1>7, StopKeeps DEF RefuseAppend, disk, JournalInv, TypeOK
<1>8. ASSUME NEW a \in Agent, PersistCheckpoint(a)
      PROVE  JournalInv'
  BY <1>8, PersistKeeps
<1>9. ASSUME NEW a \in Agent, LoseWriter(a)
      PROVE  JournalInv'
  BY <1>9, StopKeeps DEF LoseWriter, disk, JournalInv, TypeOK
<1> QED
  BY <1>1, <1>2, <1>3, <1>4, <1>5, <1>6, <1>7, <1>8, <1>9 DEF Next

\* The journal's invariant in every state.
THEOREM JournalInvariant == Spec => []JournalInv
<1>1. JournalInv /\ [Next]_vars => JournalInv'
  BY JournalStep
<1> QED
  BY <1>1, JournalInit, PTL DEF Spec

\* The trace, the checkpoint and the writers keep their types.
THEOREM TypeCorrect == Spec => []TypeOK
<1>1. JournalInv => TypeOK
  BY DEF JournalInv
<1> QED
  BY <1>1, JournalInvariant, PTL

\* Because an append is persisted before it is counted, and the count before it
\* is trusted, no crash leaves a checkpoint that counts a line the trace lacks.
THEOREM CheckpointBehind == Spec => []CheckpointNeverAhead
<1>1. JournalInv => CheckpointNeverAhead
  BY DEF JournalInv
<1> QED
  BY <1>1, JournalInvariant, PTL

\* Whatever resumes do, the id of an event is the number of its line or of one
\* before it.
THEOREM LineIdsAreNeverLate == Spec => []LineIdsNeverLate
<1>1. JournalInv => LineIdsNeverLate
  BY DEF JournalInv
<1> QED
  BY <1>1, JournalInvariant, PTL

-----------------------------------------------------------------------------
(* Line ids, until a resume trusts a checkpoint that is behind the trace *)

\* Line n holds a trial_start of session s.
Anchored(n, s) ==
    n \in DOMAIN trace /\ trace[n].trialStart /\ trace[n].session = s

\* Until then a writer is exactly behind the trace, and knows where its trial
\* started.
WritersExact ==
    ~offset => \A a \in Agent : phase[a] # "off" =>
        /\ next[a] = Len(trace) + 1
        /\ start[a] # 0 => Anchored(start[a], session[a])

LinesInv == LineIdsExact /\ TrialAnchored /\ WritersExact

\* The empty trace satisfies LinesInv.
LEMMA LinesInit ==
    ASSUME Init
    PROVE  LinesInv
<1>1. LineIdsExact /\ WritersExact
  BY DEF Init, LineIdsExact, WritersExact
<1>2. TrialAnchored
  BY DEF Init, TrialAnchored
<1> QED
  BY <1>1, <1>2 DEF LinesInv

\* A writer that starts behind the last line, in the trial of the checkpoint or
\* in none, is exact.
LEMMA AttachExact ==
    ASSUME JournalInv, LinesInv, NEW a \in Agent, NEW s \in Session, NEW first, NEW ops,
           first # 0 => Anchored(first, s),
           Attach(a, s, Len(trace) + 1, first, ops), ~offset, ~offset'
    PROVE  LinesInv'
<1>1. LineIdsExact' /\ TrialAnchored'
  BY DEF LinesInv, LineIdsExact, TrialAnchored, Attach, disk
<1>2. WritersExact'
  BY DEF JournalInv, TypeOK, LinesInv, WritersExact, Anchored, Attach, disk
<1> QED
  BY <1>1, <1>2 DEF LinesInv

\* The trial in progress of a checkpoint is anchored for its session.
LEMMA CheckpointAnchored ==
    ASSUME LinesInv, ~offset, ckpt # NoCheckpoint, ckpt.start # 0
    PROVE  Anchored(ckpt.start, ckpt.session)
BY DEF LinesInv, TrialAnchored, Anchored

\* The steps that end a writer leave every line, and the other writers, alone.
LEMMA StopExact ==
    ASSUME JournalInv, LinesInv, NEW a \in Agent, Stop(a),
           UNCHANGED <<trace, ckpt>>
    PROVE  LinesInv'
BY DEF JournalInv, TypeOK, LinesInv, LineIdsExact, TrialAnchored, WritersExact,
       Anchored, Stop

\* The new line goes behind all others and takes the next id; what was anchored
\* stays where it was.
LEMMA AppendExact ==
    ASSUME JournalInv, LinesInv, ~offset, NEW a \in Agent, AppendEvent(a)
    PROVE  LinesInv'
<1>1. PICK first \in {start[a], next[a], 0} :
         /\ trace' = Append(trace, [id |-> born + 1, session |-> session[a],
                                    line |-> next[a],
                                    trialStart |-> first = next[a]])
         /\ start' = [start EXCEPT ![a] = first]
  BY DEF AppendEvent
<1> DEFINE e == [id |-> born + 1, session |-> session[a], line |-> next[a],
                 trialStart |-> first = next[a]]
<1>2. phase[a] # "off" /\ owners = {a}
  BY DEF JournalInv, WritersAreOwners, AppendEvent
<1>3. next[a] = Len(trace) + 1 /\ Len(trace) \in Nat
  BY <1>2 DEF JournalInv, TypeOK, LinesInv, WritersExact
<1>4. e \in Event
  <2>1. born + 1 \in 1 .. MaxEvents /\ next[a] \in 1 .. MaxEvents
    BY NextToAppend
  <2> QED
    BY <2>1 DEF JournalInv, TypeOK, Event
<1>5. /\ Len(trace') = Len(trace) + 1
      /\ \A i \in DOMAIN trace : i \in DOMAIN trace' /\ trace'[i] = trace[i]
      /\ Len(trace) + 1 \in DOMAIN trace' /\ trace'[Len(trace) + 1] = e
      /\ \A i \in DOMAIN trace' : i \in DOMAIN trace \/ i = Len(trace) + 1
  BY <1>1, <1>4 DEF JournalInv, TypeOK
<1>6. LineIdsExact'
  BY <1>3, <1>5 DEF LinesInv, LineIdsExact
<1>7. TrialAnchored'
  BY <1>5 DEF LinesInv, TrialAnchored, AppendEvent
<1>8. WritersExact'
  <2>1. \A b \in Agent \ {a} : phase[b] = "off"
    BY <1>2 DEF JournalInv, WritersAreOwners
  <2>2. \A b \in Agent \ {a} : phase'[b] = "off"
    BY <2>1 DEF JournalInv, TypeOK, AppendEvent
  <2>3. /\ next'[a] = Len(trace') + 1
        /\ start'[a] = first
        /\ session'[a] = session[a]
    BY <1>1, <1>3, <1>5 DEF JournalInv, TypeOK, AppendEvent
  <2>4. first # 0 => /\ first \in DOMAIN trace'
                     /\ trace'[first].trialStart
                     /\ trace'[first].session = session[a]
    <3>1. CASE first = next[a]
      <4>1. first \in DOMAIN trace' /\ trace'[first] = e
        BY <1>3, <1>5, <3>1
      <4>2. e.trialStart = (first = next[a]) /\ e.session = session[a]
        OBVIOUS
      <4> QED
        BY <3>1, <4>1, <4>2
    <3>2. CASE first = start[a] /\ first # 0
      BY <1>2, <1>5, <3>2 DEF LinesInv, WritersExact, Anchored
    <3> QED
      BY <3>1, <3>2
  <2> QED
    BY <2>2, <2>3, <2>4 DEF WritersExact, Anchored
<1> QED
  BY <1>6, <1>7, <1>8 DEF LinesInv

\* Once a line number was trusted, the history never forgets it.
LEMMA OffsetStays ==
    ASSUME [Next]_vars, offset
    PROVE  offset'
BY DEF Next, vars, disk, writer, BeginSession, ResumeTrusting, ResumeReconciled,
       AppendEvent, TearAppend, RefuseAppend, PersistCheckpoint, LoseWriter, Stop

\* Every step preserves LinesInv.
LEMMA LinesStep ==
    ASSUME JournalInv, LinesInv, [Next]_vars
    PROVE  LinesInv'
<1> SUFFICES ASSUME ~offset'
             PROVE  LinesInv'
  BY DEF LinesInv, LineIdsExact, TrialAnchored, WritersExact
<1>0. ~offset
  BY OffsetStays
<1>1. CASE UNCHANGED vars
  BY <1>1 DEF vars, disk, writer, LinesInv, LineIdsExact, TrialAnchored,
              WritersExact, Anchored
<1>2. ASSUME NEW a \in Agent, NEW s \in Session, BeginSession(a, s)
      PROVE  LinesInv'
  BY <1>0, <1>2, AttachExact DEF BeginSession
<1>3. ASSUME NEW a \in Agent, ResumeReconciled(a)
      PROVE  LinesInv'
  <2>1. ckpt \in Checkpoint
    BY <1>3 DEF JournalInv, TypeOK, ResumeReconciled
  <2> QED
    BY <1>0, <1>3, <2>1, AttachExact, CheckpointAnchored DEF ResumeReconciled, Checkpoint
<1>7. ASSUME NEW a \in Agent, ResumeTrusting(a)
      PROVE  LinesInv'
  <2>1. ckpt \in Checkpoint /\ ckpt # NoCheckpoint
    BY <1>7 DEF JournalInv, TypeOK, ResumeTrusting
  <2>2. Alignment(ckpt) \notin {"trace_ahead", "checkpoint_ahead"}
    BY <1>7 DEF ResumeTrusting
  <2>3. ckpt.count = Missing \/ ckpt.count = Len(trace)
    BY <2>2 DEF Alignment
  <2>4. Attach(a, ckpt.session, Len(trace) + 1, ckpt.start, ckpt.operations)
    BY <1>7, <2>3 DEF ResumeTrusting
  <2> QED
    BY <1>0, <2>1, <2>4, AttachExact, CheckpointAnchored DEF Checkpoint
<1>4. ASSUME NEW a \in Agent, AppendEvent(a)
      PROVE  LinesInv'
  BY <1>0, <1>4, AppendExact
<1>5. ASSUME NEW a \in Agent, TearAppend(a) \/ RefuseAppend(a) \/ LoseWriter(a)
      PROVE  LinesInv'
  BY <1>5, StopExact DEF TearAppend, RefuseAppend, LoseWriter, disk
<1>6. ASSUME NEW a \in Agent, PersistCheckpoint(a)
      PROVE  LinesInv'
  <2>1. phase[a] # "off"
    BY <1>6 DEF PersistCheckpoint
  <2>2. TrialAnchored'
    BY <1>6, <2>1 DEF LinesInv, WritersExact, Anchored, TrialAnchored, PersistCheckpoint
  <2>3. LineIdsExact' /\ WritersExact'
    BY <1>6, <2>1 DEF JournalInv, TypeOK, LinesInv, LineIdsExact, WritersExact,
                Anchored, PersistCheckpoint
  <2> QED
    BY <2>2, <2>3 DEF LinesInv
<1> QED
  BY <1>1, <1>2, <1>3, <1>4, <1>5, <1>6, <1>7 DEF Next

\* LinesInv in every state.
LEMMA LinesInvariant == Spec => [](JournalInv /\ LinesInv)
<1>1. JournalInv /\ LinesInv /\ [Next]_vars => LinesInv'
  BY LinesStep
<1> QED
  BY <1>1, LinesInit, JournalInvariant, PTL DEF Spec

\* As long as no resume trusts a checkpoint that is behind, trace_id "L<n>" is
\* line n, whatever crashes between appends and checkpoints.
THEOREM LineIdsAreExact == Spec => []LineIdsExact
<1>1. LinesInv => LineIdsExact
  BY DEF LinesInv
<1> QED
  BY <1>1, LinesInvariant, PTL

\* Then the checkpoint's current_trial_start_line is the line of a trial_start
\* of its session.
THEOREM TrialIsAnchored == Spec => []TrialAnchored
<1>1. LinesInv => TrialAnchored
  BY DEF LinesInv
<1> QED
  BY <1>1, LinesInvariant, PTL

\* Then the trace never refuses the append of a resumed writer, unless its tail
\* is torn.
THEOREM WritersGoOn == Spec => []WriterCanGoOn
<1>1. JournalInv /\ LinesInv => WriterCanGoOn
  <2> SUFFICES ASSUME JournalInv, LinesInv, ~offset,
                      NEW a \in Agent, phase[a] = "ready", ~torn
               PROVE  CanAppend(a)
    BY DEF WriterCanGoOn
  <2>1. next[a] = Len(trace) + 1 /\ Len(trace) \in Nat
    BY DEF JournalInv, TypeOK, LinesInv, WritersExact
  <2> QED
    BY <2>1 DEF CanAppend
<1> QED
  BY <1>1, LinesInvariant, PTL

=============================================================================
