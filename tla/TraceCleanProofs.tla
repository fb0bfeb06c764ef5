-------------------------- MODULE TraceCleanProofs --------------------------
(***************************************************************************)
(* Proofs about TraceClean, for any number of sessions, cleaners and       *)
(* events, and whether a session may clean under its own lock or not.      *)
(***************************************************************************)
EXTENDS TraceClean, NaturalOrder, TLAPS

USE TraceJournalAssumption, TraceCleanAssumption DEF Count

-----------------------------------------------------------------------------
(* What a rewriting of the trace copies *)

\* The recursion of Keep for a trace s, up to line n.
CopiesUpTo(f, n, s, gone) ==
    f = [i \in 0 .. n |->
            IF i = 0 THEN <<>>
            ELSE IF i \in gone THEN f[i - 1]
            ELSE Append(f[i - 1], s[i])]

\* There is a function that copies line by line.
LEMMA CopyExists ==
    ASSUME NEW s, NEW gone, NEW n \in Nat
    PROVE  \E f : CopiesUpTo(f, n, s, gone)
<1> DEFINE Bad == {k \in 0 .. n : ~ \E f : CopiesUpTo(f, k, s, gone)}
<1> SUFFICES ASSUME Bad # {} PROVE FALSE
  OBVIOUS
<1>1. PICK m \in Bad : \A k \in Bad : m <= k
  <2>1. Bad \in SUBSET Nat
    OBVIOUS
  <2> QED
    BY <2>1, LeastNatural
<1>2. m # 0
  <2> DEFINE f0 == [i \in 0 .. 0 |-> <<>>]
  <2>1. CopiesUpTo(f0, 0, s, gone)
    BY DEF CopiesUpTo
  <2> QED
    BY <2>1
<1>3. m \in Nat /\ m - 1 \in 0 .. n /\ m - 1 \notin Bad
  BY <1>1, <1>2
<1>4. PICK g : CopiesUpTo(g, m - 1, s, gone)
  BY <1>3
<1> DEFINE h == [i \in 0 .. m |->
                    IF i = 0 THEN <<>>
                    ELSE IF i \in gone THEN g[i - 1]
                    ELSE Append(g[i - 1], s[i])]
<1>5. \A i \in 0 .. m - 1 : h[i] = g[i]
  <2>1. TAKE i \in 0 .. m - 1
  <2>2. i \in 0 .. m
    BY <1>3
  <2>3. g[i] = IF i = 0 THEN <<>>
               ELSE IF i \in gone THEN g[i - 1]
               ELSE Append(g[i - 1], s[i])
    BY <1>4, Zenon DEF CopiesUpTo
  <2> QED
    BY <2>2, <2>3, Zenon
<1>6. CopiesUpTo(h, m, s, gone)
  <2>1. \A i \in 0 .. m : i # 0 => i - 1 \in 0 .. m - 1
    BY <1>3
  <2>2. \A i \in 0 .. m :
           h[i] = IF i = 0 THEN <<>>
                  ELSE IF i \in gone THEN h[i - 1]
                  ELSE Append(h[i - 1], s[i])
    BY <1>5, <2>1
  <2> HIDE DEF h
  <2>3. DOMAIN h = 0 .. m /\ h = [i \in 0 .. m |-> h[i]]
    BY DEF h
  <2> QED
    BY <2>2, <2>3, Zenon DEF CopiesUpTo
<1> QED
  BY <1>1, <1>6

\* Keep is the last value of such a function.
LEMMA KeepCopies ==
    ASSUME NEW gone, Len(trace) \in Nat
    PROVE  \E f : CopiesUpTo(f, Len(trace), trace, gone) /\ Keep(gone) = f[Len(trace)]
<1> DEFINE F == CHOOSE f : CopiesUpTo(f, Len(trace), trace, gone)
<1>1. CopiesUpTo(F, Len(trace), trace, gone)
  BY CopyExists, Zenon
<1>2. Keep(gone) = F[Len(trace)]
  BY Zenon DEF Keep, CopiesUpTo
<1> QED
  BY <1>1, <1>2

Elements(s) == {s[i] : i \in DOMAIN s}

\* The elements of s up to i, but for the positions gone.
Others(s, i, gone) == {s[j] : j \in (1 .. i) \ gone}

LEMMA AppendElements ==
    ASSUME NEW S, NEW s \in Seq(S), NEW e \in S
    PROVE  Elements(Append(s, e)) = Elements(s) \cup {e}
<1>1. /\ DOMAIN Append(s, e) = DOMAIN s \cup {Len(s) + 1}
      /\ \A i \in DOMAIN s : Append(s, e)[i] = s[i]
      /\ Append(s, e)[Len(s) + 1] = e
  OBVIOUS
<1> QED
  BY <1>1, Zenon DEF Elements

\* Of the first i lines, exactly those at other positions are copied.
LEMMA CopiedLines ==
    ASSUME NEW S, NEW s \in Seq(S), NEW gone,
           NEW f, CopiesUpTo(f, Len(s), s, gone)
    PROVE  \A i \in 0 .. Len(s) :
               /\ f[i] \in Seq(S)
               /\ Len(f[i]) <= i
               /\ Elements(f[i]) = Others(s, i, gone)
<1> DEFINE Good(i) == /\ f[i] \in Seq(S)
                      /\ Len(f[i]) <= i
                      /\ Elements(f[i]) = Others(s, i, gone)
           Bad == {i \in 0 .. Len(s) : ~Good(i)}
<1>0. Len(s) \in Nat
  OBVIOUS
<1>1. \A i \in 0 .. Len(s) :
         f[i] = IF i = 0 THEN <<>>
                ELSE IF i \in gone THEN f[i - 1]
                ELSE Append(f[i - 1], s[i])
  BY Zenon DEF CopiesUpTo
<1>2. Good(0)
  <2>1. f[0] = <<>>
    BY <1>0, <1>1
  <2>2. <<>> \in Seq(S) /\ Len(<<>>) = 0 /\ Elements(<<>>) = {}
    BY DEF Elements
  <2> QED
    BY <2>1, <2>2 DEF Others
<1>3. ASSUME NEW i \in 1 .. Len(s), Good(i - 1)
      PROVE  Good(i)
  <2>1. i \in 0 .. Len(s) /\ i # 0 /\ i - 1 \in Nat /\ s[i] \in S
    BY <1>0
  <2>2. CASE i \in gone
    <3>1. f[i] = f[i - 1]
      BY <1>1, <2>1, <2>2
    <3>2. (1 .. i) \ gone = (1 .. (i - 1)) \ gone
      BY <2>1, <2>2
    <3> QED
      BY <1>3, <2>1, <3>1, <3>2 DEF Others
  <2>3. CASE i \notin gone
    <3>1. f[i] = Append(f[i - 1], s[i])
      BY <1>1, <2>1, <2>3
    <3>2. (1 .. i) \ gone = ((1 .. (i - 1)) \ gone) \cup {i}
      BY <2>1, <2>3
    <3>3. Elements(f[i]) = Elements(f[i - 1]) \cup {s[i]}
      BY <1>3, <2>1, <3>1, AppendElements
    <3>4. Elements(f[i]) = Others(s, i, gone)
      BY <1>3, <3>2, <3>3, Zenon DEF Others
    <3>5. f[i] \in Seq(S) /\ Len(f[i]) <= i
      BY <1>3, <2>1, <3>1
    <3> QED
      BY <3>4, <3>5
  <2> QED
    BY <2>2, <2>3
<1> HIDE DEF Good
<1>4. Bad = {}
  <2> SUFFICES ASSUME Bad # {} PROVE FALSE
    OBVIOUS
  <2>1. Bad \in SUBSET Nat
    BY <1>0
  <2>2. PICK m \in Bad : \A k \in Bad : m <= k
    BY <2>1, LeastNatural
  <2>3. m \in 1 .. Len(s)
    BY <1>0, <1>2, <2>2
  <2>4. m - 1 \in 0 .. Len(s) /\ m - 1 \notin Bad
    BY <1>0, <2>2, <2>3
  <2> QED
    BY <1>3, <2>2, <2>3, <2>4
<1> QED
  BY <1>4 DEF Good

\* What is kept of the trace: its lines at the other positions, no more.
LEMMA KeepKeeps ==
    ASSUME NEW gone, trace \in Seq(Event)
    PROVE  /\ Keep(gone) \in Seq(Event)
           /\ Len(Keep(gone)) <= Len(trace)
           /\ Elements(Keep(gone)) = {trace[i] : i \in DOMAIN trace \ gone}
<1>1. PICK s \in Seq(Event) : s = trace
  OBVIOUS
<1>2. Len(s) \in Nat /\ DOMAIN s = 1 .. Len(s) /\ Len(s) \in 0 .. Len(s)
  OBVIOUS
<1>3. PICK f : CopiesUpTo(f, Len(s), s, gone) /\ Keep(gone) = f[Len(s)]
  BY <1>1, <1>2, KeepCopies
<1>4. \A i \in 0 .. Len(s) :
         /\ f[i] \in Seq(Event)
         /\ Len(f[i]) <= i
         /\ Elements(f[i]) = Others(s, i, gone)
  BY <1>3, CopiedLines, Zenon
<1> QED
  BY <1>1, <1>2, <1>3, <1>4, Zenon DEF Others

LEMMA KeptIds ==
    ASSUME NEW gone, trace \in Seq(Event)
    PROVE  /\ Keep(gone) \in Seq(Event)
           /\ Len(Keep(gone)) <= Len(trace)
           /\ Ids(Keep(gone)) = {trace[i].id : i \in DOMAIN trace \ gone}
<1>1. \A s : Ids(s) = {e.id : e \in Elements(s)}
  BY Zenon DEF Ids, Elements
<1>2. {e.id : e \in {trace[i] : i \in DOMAIN trace \ gone}}
         = {trace[i].id : i \in DOMAIN trace \ gone}
  BY Zenon
<1> QED
  BY <1>1, <1>2, KeepKeeps

LEMMA EventIds ==
    ASSUME NEW s \in Seq(Event), NEW i \in DOMAIN s
    PROVE  s[i].id \in Nat /\ 1 <= s[i].id
<1>1. s[i] \in Event
  OBVIOUS
<1> QED
  BY <1>1 DEF Event

-----------------------------------------------------------------------------
(* The invariant *)

JournalTypes ==
    /\ torn \in BOOLEAN
    /\ born \in Count
    /\ phase \in [Agent -> {"off", "ready", "appended"}]
    /\ session \in [Agent -> Session]
    /\ next \in [Agent -> 1 .. MaxEvents + 1]
    /\ start \in [Agent -> Count]
    /\ operations \in [Agent -> BOOLEAN]
    /\ offset \in BOOLEAN

\* No more lines than events ever appended, and no ids of later ones.
BornBefore(s) == Len(s) <= born /\ \A i \in DOMAIN s : s[i].id <= born

\* A rewriting only shortens the trace, so that the number of all appends, and
\* not the length of the trace as in TraceJournal, bounds what writers and the
\* checkpoint count.
WithinBorn ==
    /\ BornBefore(trace)
    /\ \A c \in Cleaner : BornBefore(temp[c])
    /\ \A a \in Agent : phase[a] # "off" => next[a] <= born + 1
    /\ HasCount(ckpt) => ckpt.count <= born

\* Whoever executes a plan is alone in the workspace lock, as whoever writes is.
ExecutorsAreOwners ==
    \A c \in Cleaner : stage[c] \in Executing => owners = {c}

\* From the check of the plan to the rename, the plan is still about the trace
\* and the checkpoint on disk, and the temporary file has the lines to keep.
PlanHolds ==
    \A c \in Cleaner :
        /\ stage[c] \in {"backup", "copy", "replace"} => StillMatches(plan[c])
        /\ stage[c] = "replace" => temp[c] = Keep(Removable(plan[c]))

CleanInv ==
    /\ CleanTypeOK
    /\ JournalTypes
    /\ WithinBorn
    /\ WritersAreOwners
    /\ ExecutorsAreOwners
    /\ PlanHolds

\* What a plan is made of, if there is one cleaner and nothing else removes
\* lines: positions of old lines, whatever is appended after the scan; and the
\* backup has what is about to be removed.
PlanIsOld ==
    \A c \in Cleaner :
        /\ plan[c].expired <= expired
        /\ stage[c] \in {"spans", "planned"} \cup Executing =>
               \A i \in plan[c].old :
                   i \in DOMAIN trace /\ trace[i].id <= plan[c].expired
        /\ stage[c] \in {"copy", "replace"} => Ids(trace) \subseteq trash

\* Nothing but one cleaner, or but sessions under their own lock, rewrites the
\* trace.  Two plans made side by side may remove lines that neither meant to.
OneRemover ==
    /\ \A c, d \in Cleaner : c = d
    /\ Cleaner # {} => ~CleansItself

\* Everything is empty, and an old checkpoint counts nothing.
LEMMA CleanInitial ==
    ASSUME CleanInit
    PROVE  CleanInv
<1>1. JournalTypes
  <2>1. 0 \in Count /\ 1 \in 1 .. MaxEvents + 1
    OBVIOUS
  <2> QED
    BY <2>1 DEF CleanInit, Init, JournalTypes
<1>2. CleanTypeOK
  <2>1. ckpt \in Checkpoint \cup {NoCheckpoint}
    <3>1. CASE ckpt = NoCheckpoint
      BY <3>1
    <3>2. ASSUME NEW s \in Session, NEW n \in {0, Missing},
                 ckpt = [session |-> s, count |-> n, start |-> 0, operations |-> FALSE]
          PROVE  ckpt \in Checkpoint
      <4>1. n \in Count \cup {Missing} /\ 0 \in Count /\ FALSE \in BOOLEAN
        OBVIOUS
      <4> QED
        BY <3>2, <4>1, Zenon DEF Checkpoint
    <3> QED
      BY <3>1, <3>2, Zenon DEF CleanInit, Init
  <2>2. NoPlan \in Plan
    BY DEF NoPlan, Plan
  <2>3. plan \in [Cleaner -> Plan] /\ temp \in [Cleaner -> Seq(Event)]
    BY <2>2 DEF CleanInit
  <2> QED
    BY <2>1, <2>3 DEF CleanInit, Init, CleanTypeOK, Planning
<1>3. WithinBorn
  <2>1. /\ ckpt = NoCheckpoint \/ ckpt.count \in {0, Missing}
        /\ born = 0 /\ trace = <<>> /\ \A a \in Agent : phase[a] = "off"
        /\ \A c \in Cleaner : temp[c] = <<>>
    BY DEF CleanInit, Init
  <2>2. HasCount(ckpt) => ckpt.count <= born
    BY <2>1 DEF HasCount
  <2> QED
    BY <2>1, <2>2 DEF WithinBorn, BornBefore
<1>4. WritersAreOwners /\ ExecutorsAreOwners /\ PlanHolds
  BY DEF CleanInit, Init, WritersAreOwners, ExecutorsAreOwners, PlanHolds, Executing
<1> QED
  BY <1>1, <1>2, <1>3, <1>4 DEF CleanInv

-----------------------------------------------------------------------------
(* The steps of the sessions *)

\* A session is at its work only while nobody executes a plan: it takes a lock
\* that is free, or it has a writer and with it the lock.
LEMMA SessionsExclude ==
    ASSUME CleanInv, Next
    PROVE  \A c \in Cleaner : stage[c] \notin Executing
<1> SUFFICES ASSUME NEW c \in Cleaner, owners = {c} PROVE FALSE
  BY DEF CleanInv, ExecutorsAreOwners
<1>1. \A a \in Agent : phase[a] = "off"
  <2>1. \A a \in Agent : a # c
    OBVIOUS
  <2> QED
    BY <2>1 DEF CleanInv, WritersAreOwners
<1>2. \A a \in Agent : \A s, n, first, ops : ~Attach(a, s, n, first, ops)
  BY DEF Attach, Lock!Take
<1>3. PICK a \in Agent :
         \/ \E s \in Session : BeginSession(a, s)
         \/ ResumeTrusting(a) \/ ResumeReconciled(a) \/ AppendEvent(a) \/ TearAppend(a)
         \/ RefuseAppend(a) \/ PersistCheckpoint(a) \/ LoseWriter(a)
  BY Zenon DEF Next
<1>4. ~ \E s \in Session : BeginSession(a, s)
  BY <1>2 DEF BeginSession
<1>5. ~ResumeTrusting(a) /\ ~ResumeReconciled(a)
  BY <1>2 DEF ResumeTrusting, ResumeReconciled
<1>6. /\ ~AppendEvent(a) /\ ~TearAppend(a) /\ ~RefuseAppend(a)
      /\ ~PersistCheckpoint(a) /\ ~LoseWriter(a)
  BY <1>1 DEF AppendEvent, TearAppend, RefuseAppend, PersistCheckpoint, LoseWriter
<1> QED
  BY <1>3, <1>4, <1>5, <1>6

\* A writer that starts no later than behind the last event.
LEMMA AttachClean ==
    ASSUME CleanInv, NEW a \in Agent, NEW s \in Session,
           NEW n \in 1 .. born + 1, NEW first \in Count,
           NEW ops \in BOOLEAN, Attach(a, s, n, first, ops), offset' \in BOOLEAN,
           UNCHANGED <<expired, trash, cleaning>>
    PROVE  (CleanTypeOK /\ JournalTypes /\ WithinBorn /\ WritersAreOwners)'
<1>1. born \in Nat /\ born <= MaxEvents /\ n \in 1 .. MaxEvents + 1
  BY DEF CleanInv, JournalTypes
<1>2. owners = {} /\ owners' = {a}
  BY DEF Attach, Lock!Take
<1>3. JournalTypes'
  BY <1>1 DEF CleanInv, JournalTypes, Attach, disk
<1>4. CleanTypeOK'
  BY <1>2 DEF CleanInv, CleanTypeOK, Attach, disk, cleaning
<1>5. WithinBorn'
  BY DEF CleanInv, JournalTypes, WithinBorn, BornBefore, HasCount, Attach, disk, cleaning
<1>6. WritersAreOwners'
  BY <1>2 DEF CleanInv, JournalTypes, WritersAreOwners, Attach
<1> QED
  BY <1>3, <1>4, <1>5, <1>6

LEMMA StopClean ==
    ASSUME CleanInv, NEW a \in Agent, Stop(a),
           UNCHANGED <<trace, born, ckpt>>, torn' \in BOOLEAN,
           UNCHANGED <<expired, trash, cleaning>>
    PROVE  (CleanTypeOK /\ JournalTypes /\ WithinBorn /\ WritersAreOwners)'
<1>1. owners = {a} /\ owners' = {}
  BY DEF Stop, Lock!Drop
<1>2. JournalTypes'
  BY DEF CleanInv, JournalTypes, Stop
<1>3. CleanTypeOK'
  BY <1>1 DEF CleanInv, CleanTypeOK, Stop, cleaning
<1>4. WithinBorn'
  BY DEF CleanInv, JournalTypes, WithinBorn, BornBefore, HasCount, Stop, cleaning
<1>5. WritersAreOwners'
  BY <1>1 DEF CleanInv, JournalTypes, WritersAreOwners, Stop
<1> QED
  BY <1>2, <1>3, <1>4, <1>5

\* An append leaves operations in the ledger or none.
LEMMA CleanOperations ==
    ASSUME CleanInv, NEW a \in Agent, AppendEvent(a)
    PROVE  operations' \in [Agent -> BOOLEAN]
<1>1. operations \in [Agent -> BOOLEAN]
  BY DEF CleanInv, JournalTypes
<1>2. PICK first \in {start[a], next[a], 0} :
         \E ops \in IF first \in {0, next[a]} THEN {FALSE} ELSE {operations[a], TRUE} :
            operations' = [operations EXCEPT ![a] = ops]
  BY DEF AppendEvent
<1>3. PICK ops \in IF first \in {0, next[a]} THEN {FALSE} ELSE {operations[a], TRUE} :
         operations' = [operations EXCEPT ![a] = ops]
  BY <1>2
<1>4. ops \in BOOLEAN
  BY <1>1, <1>3
<1> QED
  BY <1>1, <1>3, <1>4, Zenon

\* What one append does to the trace.
LEMMA CleanAppended ==
    ASSUME CleanInv, NEW a \in Agent, AppendEvent(a)
    PROVE  \E first \in Count, e \in Event :
              /\ start' = [start EXCEPT ![a] = first]
              /\ trace' = Append(trace, e)
              /\ e.id = born + 1
<1>1. PICK first \in {start[a], next[a], 0} :
         /\ trace' = Append(trace, [id |-> born + 1, session |-> session[a],
                                    line |-> next[a],
                                    trialStart |-> first = next[a]])
         /\ start' = [start EXCEPT ![a] = first]
  BY DEF AppendEvent
<1>2. next[a] \in 1 .. MaxEvents /\ start[a] \in Count /\ born + 1 \in 1 .. MaxEvents
  <2>1. phase[a] # "off" /\ born < MaxEvents
    BY DEF AppendEvent
  <2>2. born \in Count /\ next[a] \in 1 .. MaxEvents + 1 /\ start[a] \in Count
    BY DEF CleanInv, JournalTypes
  <2>3. next[a] <= born + 1
    BY <2>1 DEF CleanInv, WithinBorn
  <2> QED
    BY <2>1, <2>2, <2>3
<1> DEFINE e == [id |-> born + 1, session |-> session[a], line |-> next[a],
                 trialStart |-> first = next[a]]
<1>3. e \in Event /\ e.id = born + 1
  BY <1>2 DEF CleanInv, JournalTypes, Event
<1>4. first \in Count
  BY <1>1, <1>2
<1> QED
  BY <1>1, <1>3, <1>4

LEMMA AppendClean ==
    ASSUME CleanInv, NEW a \in Agent, AppendEvent(a),
           UNCHANGED <<expired, trash, cleaning>>
    PROVE  (CleanTypeOK /\ JournalTypes /\ WithinBorn /\ WritersAreOwners)'
<1>1. PICK first \in Count, e \in Event :
         /\ start' = [start EXCEPT ![a] = first]
         /\ trace' = Append(trace, e)
         /\ e.id = born + 1
  BY CleanAppended
<1>2. /\ born \in Nat /\ born < MaxEvents /\ born' = born + 1
      /\ next[a] \in Nat /\ 1 <= next[a] /\ next[a] <= born + 1
  BY DEF CleanInv, JournalTypes, WithinBorn, AppendEvent
<1>3. JournalTypes'
  <2>1. operations' \in [Agent -> BOOLEAN]
    BY CleanOperations
  <2> QED
    BY <1>1, <1>2, <2>1 DEF CleanInv, JournalTypes, AppendEvent
<1>4. trace \in Seq(Event) /\ trace' \in Seq(Event)
  BY <1>1 DEF CleanInv, CleanTypeOK
<1>5. CleanTypeOK'
  BY <1>2, <1>4 DEF CleanInv, CleanTypeOK, AppendEvent, cleaning
<1>6. WithinBorn'
  <2>1. BornBefore(trace)'
    <3>1. Len(trace') = Len(trace) + 1
      BY <1>1, <1>4
    <3>2. \A i \in DOMAIN trace' :
             \/ i \in DOMAIN trace /\ trace'[i] = trace[i]
             \/ trace'[i] = e
      BY <1>1, <1>4
    <3>3. \A i \in DOMAIN trace : trace[i].id \in Nat
      BY <1>4, EventIds
    <3> QED
      BY <1>1, <1>2, <1>4, <3>1, <3>2, <3>3 DEF CleanInv, WithinBorn, BornBefore
  <2>2. \A c \in Cleaner : BornBefore(temp[c])'
    <3> SUFFICES ASSUME NEW c \in Cleaner PROVE BornBefore(temp[c])'
      OBVIOUS
    <3>1. temp[c] \in Seq(Event) /\ BornBefore(temp[c]) /\ temp' = temp
      BY DEF CleanInv, CleanTypeOK, WithinBorn, cleaning
    <3>2. \A i \in DOMAIN temp[c] : temp[c][i].id \in Nat
      BY <3>1, EventIds
    <3> QED
      BY <1>2, <3>1, <3>2 DEF BornBefore
  <2>3. \A b \in Agent : phase'[b] # "off" => next'[b] <= born' + 1
    BY <1>2 DEF CleanInv, JournalTypes, WithinBorn, AppendEvent
  <2>4. HasCount(ckpt)' => ckpt'.count <= born'
    <3>1. ckpt' = ckpt /\ (HasCount(ckpt) => ckpt.count \in Nat /\ ckpt.count <= born)
      BY DEF CleanInv, CleanTypeOK, WithinBorn, HasCount, Checkpoint, AppendEvent
    <3> QED
      BY <1>2, <3>1 DEF HasCount
  <2> QED
    BY <2>1, <2>2, <2>3, <2>4 DEF WithinBorn
<1>7. WritersAreOwners'
  BY DEF CleanInv, JournalTypes, WritersAreOwners, AppendEvent
<1> QED
  BY <1>3, <1>5, <1>6, <1>7

LEMMA PersistClean ==
    ASSUME CleanInv, NEW a \in Agent, PersistCheckpoint(a),
           UNCHANGED <<expired, trash, cleaning>>
    PROVE  (CleanTypeOK /\ JournalTypes /\ WithinBorn /\ WritersAreOwners)'
<1>1. /\ born \in Nat /\ born <= MaxEvents /\ next[a] \in Nat
      /\ 1 <= next[a] /\ next[a] <= born + 1
      /\ start[a] \in Count /\ session[a] \in Session /\ operations[a] \in BOOLEAN
  BY DEF CleanInv, JournalTypes, WithinBorn, PersistCheckpoint
<1>2. ckpt' \in Checkpoint /\ ckpt'.count <= born
  BY <1>1 DEF Checkpoint, PersistCheckpoint
<1>3. JournalTypes'
  BY DEF CleanInv, JournalTypes, PersistCheckpoint
<1>4. CleanTypeOK'
  BY <1>2 DEF CleanInv, CleanTypeOK, PersistCheckpoint, cleaning
<1>5. WithinBorn'
  BY <1>1, <1>2 DEF CleanInv, JournalTypes, WithinBorn, BornBefore, HasCount,
                    PersistCheckpoint, cleaning
<1>6. WritersAreOwners'
  BY DEF CleanInv, JournalTypes, WritersAreOwners, PersistCheckpoint
<1> QED
  BY <1>3, <1>4, <1>5, <1>6

\* Every step of a session preserves the invariant.
LEMMA SessionStep ==
    ASSUME CleanInv, Next, UNCHANGED <<expired, trash, cleaning>>
    PROVE  CleanInv'
<1> DEFINE Goal == (CleanTypeOK /\ JournalTypes /\ WithinBorn /\ WritersAreOwners)'
<1>1. Goal
  <2>0. /\ trace \in Seq(Event) /\ Len(trace) \in Nat /\ Len(trace) <= born
        /\ born \in Nat /\ torn \in BOOLEAN
        /\ Len(trace) + 1 \in 1 .. born + 1 /\ offset \in BOOLEAN
    BY DEF CleanInv, CleanTypeOK, JournalTypes, WithinBorn, BornBefore
  <2>1. ASSUME NEW a \in Agent, NEW s \in Session, BeginSession(a, s)
        PROVE  Goal
    <3>1. Attach(a, s, Len(trace) + 1, 0, FALSE) /\ offset' = offset
      BY <2>1, Zenon DEF BeginSession
    <3>2. 0 \in Count /\ FALSE \in BOOLEAN
      BY DEF Count
    <3>3. offset' \in BOOLEAN
      BY <2>0, <3>1
    <3> QED
      BY <2>0, <3>1, <3>2, <3>3, AttachClean, Zenon
  <2>2. ASSUME NEW a \in Agent, ResumeTrusting(a)
        PROVE  Goal
    <3>1. /\ ckpt \in Checkpoint
          /\ ckpt.session \in Session /\ ckpt.start \in Count
          /\ ckpt.operations \in BOOLEAN
          /\ ckpt.count # Missing => ckpt.count \in Nat /\ ckpt.count <= born
      BY <2>2 DEF CleanInv, CleanTypeOK, WithinBorn, HasCount, Checkpoint, ResumeTrusting
    <3>2. offset' \in BOOLEAN
      BY <2>2 DEF ResumeTrusting
    <3>3. CASE ckpt.count = Missing
      BY <2>0, <2>2, <3>1, <3>2, <3>3, AttachClean DEF ResumeTrusting
    <3>4. CASE ckpt.count # Missing
      <4>1. ckpt.count + 1 \in 1 .. born + 1
        BY <2>0, <3>1, <3>4
      <4> QED
        BY <2>2, <3>1, <3>2, <3>4, <4>1, AttachClean DEF ResumeTrusting
    <3> QED
      BY <3>3, <3>4
  <2>3. ASSUME NEW a \in Agent, ResumeReconciled(a)
        PROVE  Goal
    <3>1. /\ ckpt.session \in Session /\ ckpt.start \in Count
          /\ ckpt.operations \in BOOLEAN
      BY <2>3 DEF CleanInv, CleanTypeOK, Checkpoint, ResumeReconciled
    <3> QED
      BY <2>0, <2>3, <3>1, AttachClean DEF ResumeReconciled
  <2>4. ASSUME NEW a \in Agent, AppendEvent(a)
        PROVE  Goal
    BY <2>4, AppendClean
  <2>5. ASSUME NEW a \in Agent, TearAppend(a) \/ RefuseAppend(a) \/ LoseWriter(a)
        PROVE  Goal
    BY <2>0, <2>5, StopClean DEF TearAppend, RefuseAppend, LoseWriter, disk
  <2>6. ASSUME NEW a \in Agent, PersistCheckpoint(a)
        PROVE  Goal
    BY <2>6, PersistClean
  <2> QED
    BY <2>1, <2>2, <2>3, <2>4, <2>5, <2>6, Zenon DEF Next
<1>2. \A c \in Cleaner : stage'[c] \notin Executing
  BY SessionsExclude DEF cleaning
<1>3. ExecutorsAreOwners' /\ PlanHolds'
  BY <1>2 DEF ExecutorsAreOwners, PlanHolds, Executing
<1> QED
  BY <1>1, <1>3 DEF CleanInv

-----------------------------------------------------------------------------
(* The steps of the cleaners *)

\* What a plan matches, and what it keeps, depends on the disk only.
LEMMA MatchesStay ==
    ASSUME UNCHANGED <<trace, torn, ckpt>>, NEW c \in Cleaner, plan'[c] = plan[c]
    PROVE  StillMatches(plan[c])' <=> StillMatches(plan[c])
<1>1. plan[c]' = plan[c] /\ trace' = trace /\ torn' = torn /\ ckpt' = ckpt
  OBVIOUS
<1>2. \A s : Span(s)' = Span(s)
  BY <1>1, Zenon DEF Span
<1>3. \A k, S, n : Protected(k, S, n)' = Protected(k, S, n)
  BY <1>2, Zenon DEF Protected, CurrentTrial
<1>4. Protected(ckpt, CheckpointSessions(plan[c].ckpt), plan[c].total)'
         = Protected(ckpt, CheckpointSessions(plan[c].ckpt), plan[c].total)
  BY <1>1, <1>3, Zenon DEF CheckpointSessions
<1> QED
  BY <1>1, <1>4 DEF StillMatches

LEMMA KeepStays ==
    ASSUME UNCHANGED trace, NEW c \in Cleaner, plan'[c] = plan[c]
    PROVE  Keep(Removable(plan[c]))' = Keep(Removable(plan[c]))
<1>1. Removable(plan[c])' = Removable(plan[c])
  BY Zenon DEF Removable
<1>2. \A gone : Keep(gone)' = Keep(gone)
  BY Zenon DEF Keep
<1> QED
  BY <1>1, <1>2, Zenon

\* Where the disk and what a cleaner has stay, its plan keeps holding.
LEMMA HoldingStays ==
    ASSUME PlanHolds, UNCHANGED <<trace, torn, ckpt>>, NEW c \in Cleaner,
           plan'[c] = plan[c], stage'[c] = stage[c], temp'[c] = temp[c]
    PROVE  /\ stage'[c] \in {"backup", "copy", "replace"} => StillMatches(plan[c])'
           /\ stage'[c] = "replace" => temp'[c] = Keep(Removable(plan[c]))'
BY MatchesStay, KeepStays, Zenon DEF PlanHolds

\* A cleaner that is not executing may read and plan what it likes.
LEMMA PlanningKeeps ==
    ASSUME CleanInv, NEW c \in Cleaner, NEW to \in Planning,
           stage' = [stage EXCEPT ![c] = to],
           plan' \in [Cleaner -> Plan],
           \A d \in Cleaner : d # c => plan'[d] = plan[d],
           UNCHANGED <<vars, expired, trash, temp>>
    PROVE  CleanInv'
<1>1. CleanTypeOK' /\ JournalTypes' /\ WritersAreOwners'
  BY DEF CleanInv, CleanTypeOK, JournalTypes, WritersAreOwners, vars, disk, writer
<1>2. WithinBorn'
  BY DEF CleanInv, WithinBorn, BornBefore, HasCount, vars, disk, writer
<1>3. to \notin Executing
  BY DEF Planning, Executing
<1>4. /\ stage'[c] = to
      /\ \A d \in Cleaner : d # c => stage'[d] = stage[d]
  BY DEF CleanInv, CleanTypeOK
<1>5. ExecutorsAreOwners'
  BY <1>3, <1>4 DEF CleanInv, ExecutorsAreOwners, vars
<1>6. PlanHolds'
  <2> SUFFICES ASSUME NEW d \in Cleaner
               PROVE  /\ stage'[d] \in {"backup", "copy", "replace"}
                            => StillMatches(plan[d])'
                      /\ stage'[d] = "replace" => temp'[d] = Keep(Removable(plan[d]))'
    BY Zenon DEF PlanHolds
  <2>1. CASE d = c
    BY <1>3, <1>4, <2>1 DEF Executing
  <2>2. CASE d # c
    <3>1. UNCHANGED <<trace, torn, ckpt>> /\ temp'[d] = temp[d]
      BY DEF vars, disk
    <3> QED
      BY <1>4, <2>2, <3>1, HoldingStays, Zenon DEF CleanInv
  <2> QED
    BY <2>1, <2>2
<1> QED
  BY <1>1, <1>2, <1>5, <1>6 DEF CleanInv

LEMMA NewPlan ==
    ASSUME plan \in [Cleaner -> Plan], NEW c \in Cleaner, NEW p \in Plan,
           plan' = [plan EXCEPT ![c] = p]
    PROVE  /\ plan' \in [Cleaner -> Plan]
           /\ plan'[c] = p
           /\ \A d \in Cleaner : d # c => plan'[d] = plan[d]
BY Zenon

LEMMA CheckpointPlanned ==
    ASSUME CleanInv, NEW c \in Cleaner, PlanCheckpoint(c)
    PROVE  /\ plan'[c] = [plan[c] EXCEPT !.ckpt = ckpt, !.expired = expired]
           /\ plan' \in [Cleaner -> Plan]
           /\ \A d \in Cleaner : d # c => plan'[d] = plan[d]
<1>1. plan \in [Cleaner -> Plan] /\ plan[c] \in Plan
  BY DEF CleanInv, CleanTypeOK
<1>2. ckpt \in Checkpoint \cup {NoCheckpoint} /\ expired \in Count
  BY DEF CleanInv, CleanTypeOK, JournalTypes
<1>3. PICK p \in Plan : p = [plan[c] EXCEPT !.ckpt = ckpt, !.expired = expired]
  BY <1>1, <1>2, Zenon DEF Plan
<1>4. plan' = [plan EXCEPT ![c] = p]
  BY <1>1, <1>3 DEF PlanCheckpoint
<1> QED
  BY <1>1, <1>3, <1>4, NewPlan, Zenon

LEMMA ScanPlanned ==
    ASSUME CleanInv, NEW c \in Cleaner, PlanScan(c)
    PROVE  /\ plan'[c] = [plan[c] EXCEPT
                             !.total = Len(trace),
                             !.old = {i \in DOMAIN trace : trace[i].id <= plan[c].expired}]
           /\ plan' \in [Cleaner -> Plan]
           /\ \A d \in Cleaner : d # c => plan'[d] = plan[d]
<1>1. plan \in [Cleaner -> Plan] /\ plan[c] \in Plan
  BY DEF CleanInv, CleanTypeOK
<1>2. DOMAIN trace \subseteq Count /\ Len(trace) \in Count
  BY DEF CleanInv, CleanTypeOK, JournalTypes, WithinBorn, BornBefore
<1>3. PICK old \in SUBSET Count :
         old = {i \in DOMAIN trace : trace[i].id <= plan[c].expired}
  BY <1>2
<1>4. PICK p \in Plan : p = [plan[c] EXCEPT !.total = Len(trace), !.old = old]
  BY <1>1, <1>2, Zenon DEF Plan
<1>5. plan' = [plan EXCEPT ![c] = p]
  BY <1>1, <1>3, <1>4 DEF PlanScan
<1> QED
  BY <1>1, <1>3, <1>4, <1>5, NewPlan, Zenon

LEMMA ProtectedPositions ==
    ASSUME CleanInv, NEW k \in Checkpoint \cup {NoCheckpoint}, NEW S, NEW n \in Count
    PROVE  Protected(k, S, n) \subseteq Count
<1>1. DOMAIN trace \subseteq Count
  BY DEF CleanInv, CleanTypeOK, JournalTypes, WithinBorn, BornBefore
<1>2. \A t : Span(t) \subseteq Count
  BY <1>1 DEF Span
<1>3. CurrentTrial(k, n) \subseteq Count
  BY DEF CurrentTrial, Checkpoint
<1>4. UNION {Span(t) : t \in S} \subseteq Count
  BY <1>2, Zenon
<1> QED
  BY <1>3, <1>4 DEF Protected

LEMMA SpansPlanned ==
    ASSUME CleanInv, NEW c \in Cleaner, PlanSpans(c)
    PROVE  /\ plan'[c] = [plan[c] EXCEPT !.protected =
                             Protected(plan[c].ckpt, CheckpointSessions(plan[c].ckpt),
                                       plan[c].total)]
           /\ plan' \in [Cleaner -> Plan]
           /\ \A d \in Cleaner : d # c => plan'[d] = plan[d]
<1>1. plan \in [Cleaner -> Plan] /\ plan[c] \in Plan
  BY DEF CleanInv, CleanTypeOK
<1>2. PICK kept \in SUBSET Count :
         kept = Protected(plan[c].ckpt, CheckpointSessions(plan[c].ckpt), plan[c].total)
  BY <1>1, ProtectedPositions DEF Plan
<1>3. PICK p \in Plan : p = [plan[c] EXCEPT !.protected = kept]
  BY <1>1, Zenon DEF Plan
<1>4. plan' = [plan EXCEPT ![c] = p]
  BY <1>2, <1>3, Zenon DEF PlanSpans
<1> QED
  BY <1>1, <1>2, <1>3, <1>4, NewPlan, Zenon

LEMMA PlanningStep ==
    ASSUME CleanInv, NEW c \in Cleaner,
           PlanCheckpoint(c) \/ PlanLock(c) \/ PlanScan(c) \/ PlanSpans(c)
    PROVE  CleanInv'
<1>0. plan \in [Cleaner -> Plan]
  BY DEF CleanInv, CleanTypeOK
<1>1. CASE PlanCheckpoint(c)
  BY <1>1, CheckpointPlanned, PlanningKeeps, Zenon DEF PlanCheckpoint, Move, Planning
<1>2. CASE PlanLock(c)
  BY <1>0, <1>2, PlanningKeeps, Zenon DEF PlanLock, Move, Planning
<1>3. CASE PlanScan(c)
  BY <1>3, ScanPlanned, PlanningKeeps, Zenon DEF PlanScan, Move, Planning
<1>4. CASE PlanSpans(c)
  BY <1>4, SpansPlanned, PlanningKeeps, Zenon DEF PlanSpans, Move, Planning
<1> QED
  BY <1>1, <1>2, <1>3, <1>4

\* A cleaner that executes is the only one that does.
LEMMA ExecutesAlone ==
    ASSUME CleanInv, NEW c \in Cleaner, NEW d \in Cleaner,
           d # c, owners = {c} \/ owners = {}
    PROVE  stage[d] \notin Executing
BY DEF CleanInv, ExecutorsAreOwners

\* The others, where the cleaner c alone moves.
OthersStay(c) ==
    /\ \A d \in Cleaner : d # c =>
           stage'[d] = stage[d] /\ plan'[d] = plan[d] /\ temp'[d] = temp[d]
    /\ stage' \in [Cleaner -> Planning \cup Executing]
    /\ plan' \in [Cleaner -> Plan]
    /\ temp' \in [Cleaner -> Seq(Event)]

\* A step of a cleaner beside others that execute nothing.
LEMMA ExecutingKeeps ==
    ASSUME CleanInv, NEW c \in Cleaner, OthersStay(c),
           \A d \in Cleaner : d # c => stage[d] \notin Executing,
           stage'[c] \in Executing => owners' = {c},
           stage'[c] \in {"backup", "copy", "replace"} => StillMatches(plan[c])',
           stage'[c] = "replace" => temp'[c] = Keep(Removable(plan[c]))'
    PROVE  ExecutorsAreOwners' /\ PlanHolds'
<1>1. \A d \in Cleaner : d # c => stage'[d] \notin Executing
  BY Zenon DEF OthersStay
<1>2. ExecutorsAreOwners'
  BY <1>1, Zenon DEF ExecutorsAreOwners
<1>3. \A d \in Cleaner : d # c => stage'[d] \notin {"backup", "copy", "replace"}
  BY <1>1 DEF Executing
<1>4. PlanHolds'
  <2> SUFFICES ASSUME NEW d \in Cleaner
               PROVE  /\ stage'[d] \in {"backup", "copy", "replace"}
                            => StillMatches(plan[d])'
                      /\ stage'[d] = "replace" => temp'[d] = Keep(Removable(plan[d]))'
    BY Zenon DEF PlanHolds
  <2>1. CASE d = c
    BY <2>1, Zenon
  <2>2. CASE d # c
    BY <1>3, <2>2
  <2> QED
    BY <2>1, <2>2
<1> QED
  BY <1>2, <1>4

LEMMA LockStep ==
    ASSUME CleanInv, NEW c \in Cleaner, ExecLock(c)
    PROVE  CleanInv'
<1>1. owners = {} /\ owners' = {c}
  BY DEF ExecLock, CleanLock!Take
<1>2. stage'[c] = "verify" /\ OthersStay(c)
  BY DEF CleanInv, CleanTypeOK, ExecLock, Move, OthersStay, Executing
<1>3. ExecutorsAreOwners' /\ PlanHolds'
  BY <1>1, <1>2, ExecutesAlone, ExecutingKeeps
<1>4. CleanTypeOK' /\ JournalTypes' /\ WithinBorn'
  BY <1>1, <1>2 DEF CleanInv, CleanTypeOK, JournalTypes, WithinBorn, BornBefore, HasCount,
               ExecLock, OthersStay, disk, writer
<1>5. WritersAreOwners'
  BY <1>1 DEF CleanInv, WritersAreOwners, ExecLock, writer
<1> QED
  BY <1>3, <1>4, <1>5 DEF CleanInv

LEMMA VerifyStep ==
    ASSUME CleanInv, NEW c \in Cleaner, ExecVerify(c)
    PROVE  CleanInv'
<1>1. owners = {c} /\ owners' = owners
  BY DEF CleanInv, ExecutorsAreOwners, ExecVerify, Move, Executing, vars
<1>2. stage'[c] = "backup" /\ OthersStay(c) /\ plan'[c] = plan[c]
  BY DEF CleanInv, CleanTypeOK, ExecVerify, Move, OthersStay, Executing
<1>3. StillMatches(plan[c])'
  BY <1>2, MatchesStay DEF ExecVerify, vars, disk
<1>4. ExecutorsAreOwners' /\ PlanHolds'
  BY <1>1, <1>2, <1>3, ExecutesAlone, ExecutingKeeps
<1>5. CleanTypeOK' /\ JournalTypes' /\ WithinBorn' /\ WritersAreOwners'
  BY <1>2 DEF CleanInv, CleanTypeOK, JournalTypes, WithinBorn, BornBefore, HasCount,
               WritersAreOwners, ExecVerify, OthersStay, vars, disk, writer
<1> QED
  BY <1>4, <1>5 DEF CleanInv

LEMMA IdsBorn ==
    ASSUME CleanInv
    PROVE  Ids(trace) \subseteq 1 .. born
<1> SUFFICES ASSUME NEW i \in DOMAIN trace PROVE trace[i].id \in 1 .. born
  BY DEF Ids
<1>1. trace \in Seq(Event) /\ trace[i].id <= born /\ born \in Nat
  BY DEF CleanInv, CleanTypeOK, JournalTypes, WithinBorn, BornBefore
<1> QED
  BY <1>1, EventIds

LEMMA BackupStep ==
    ASSUME CleanInv, NEW c \in Cleaner, ExecBackup(c)
    PROVE  CleanInv'
<1>1. owners = {c} /\ owners' = owners
  BY DEF CleanInv, ExecutorsAreOwners, ExecBackup, Move, Executing, vars
<1>2. stage'[c] = "copy" /\ OthersStay(c) /\ plan'[c] = plan[c] /\ stage[c] = "backup"
  BY DEF CleanInv, CleanTypeOK, ExecBackup, Move, OthersStay, Executing
<1>3. StillMatches(plan[c])'
  BY <1>2, MatchesStay DEF ExecBackup, vars, disk, CleanInv, PlanHolds
<1>4. ExecutorsAreOwners' /\ PlanHolds'
  BY <1>1, <1>2, <1>3, ExecutesAlone, ExecutingKeeps
<1>5. trash' = trash \cup Ids(trace)
  BY DEF ExecBackup, Ids
<1>6. CleanTypeOK'
  BY <1>2, <1>5, IdsBorn DEF CleanInv, CleanTypeOK, ExecBackup, OthersStay, vars, disk
<1>7. JournalTypes' /\ WithinBorn' /\ WritersAreOwners'
  BY <1>2 DEF CleanInv, JournalTypes, WithinBorn, BornBefore, HasCount,
               WritersAreOwners, ExecBackup, OthersStay, vars, disk, writer
<1> QED
  BY <1>4, <1>6, <1>7 DEF CleanInv

LEMMA KeptBorn ==
    ASSUME CleanInv, NEW gone
    PROVE  /\ Keep(gone) \in Seq(Event)
           /\ BornBefore(Keep(gone))
           /\ Ids(Keep(gone)) = {trace[i].id : i \in DOMAIN trace \ gone}
<1>1. trace \in Seq(Event) /\ BornBefore(trace) /\ born \in Nat
  BY DEF CleanInv, CleanTypeOK, JournalTypes, WithinBorn
<1>2. /\ Keep(gone) \in Seq(Event)
      /\ Len(Keep(gone)) <= Len(trace)
      /\ Ids(Keep(gone)) = {trace[i].id : i \in DOMAIN trace \ gone}
  BY <1>1, KeptIds
<1>3. Len(Keep(gone)) <= born
  <2>1. Len(Keep(gone)) \in Nat /\ Len(trace) \in Nat /\ Len(trace) <= born
    BY <1>1, <1>2 DEF BornBefore
  <2> QED
    BY <1>1, <1>2, <2>1
<1>4. \A i \in DOMAIN Keep(gone) : Keep(gone)[i].id <= born
  <2> SUFFICES ASSUME NEW i \in DOMAIN Keep(gone)
               PROVE  Keep(gone)[i].id <= born
    OBVIOUS
  <2>1. Keep(gone)[i].id \in Ids(Keep(gone))
    BY Zenon DEF Ids
  <2>2. PICK j \in DOMAIN trace : Keep(gone)[i].id = trace[j].id
    BY <1>2, <2>1, Zenon
  <2> QED
    BY <1>1, <2>2 DEF BornBefore
<1> QED
  BY <1>2, <1>3, <1>4 DEF BornBefore

LEMMA CopyStep ==
    ASSUME CleanInv, NEW c \in Cleaner, ExecCopy(c)
    PROVE  CleanInv'
<1>1. owners = {c} /\ owners' = owners
  BY DEF CleanInv, ExecutorsAreOwners, ExecCopy, Move, Executing, vars
<1>2. PICK kept \in Seq(Event) : kept = Keep(Removable(plan[c])) /\ BornBefore(kept)
  BY KeptBorn
<1>3. /\ stage'[c] = "replace" /\ OthersStay(c) /\ plan'[c] = plan[c]
      /\ stage[c] = "copy" /\ temp'[c] = kept
  <2>1. temp' = [temp EXCEPT ![c] = kept]
    BY <1>2 DEF ExecCopy
  <2> QED
    BY <2>1 DEF CleanInv, CleanTypeOK, ExecCopy, Move, OthersStay, Executing
<1>4. StillMatches(plan[c])'
  BY <1>3, MatchesStay DEF ExecCopy, vars, disk, CleanInv, PlanHolds
<1>5. temp'[c] = Keep(Removable(plan[c]))'
  BY <1>2, <1>3, KeepStays DEF ExecCopy, vars, disk
<1>6. ExecutorsAreOwners' /\ PlanHolds'
  BY <1>1, <1>3, <1>4, <1>5, ExecutesAlone, ExecutingKeeps
<1>7. CleanTypeOK' /\ JournalTypes' /\ WritersAreOwners'
  BY <1>3 DEF CleanInv, CleanTypeOK, JournalTypes, WritersAreOwners, ExecCopy,
              OthersStay, vars, disk, writer
<1>8. WithinBorn'
  <2>1. \A d \in Cleaner : BornBefore(temp[d])'
    BY <1>2, <1>3 DEF CleanInv, WithinBorn, BornBefore, OthersStay, ExecCopy, vars, disk
  <2> QED
    BY <2>1 DEF CleanInv, WithinBorn, BornBefore, HasCount, ExecCopy, vars, disk, writer
<1> QED
  BY <1>6, <1>7, <1>8 DEF CleanInv

LEMMA Finished ==
    ASSUME CleanInv, NEW c \in Cleaner, Finish(c)
    PROVE  stage'[c] = "idle" /\ OthersStay(c) /\ temp'[c] = <<>>
<1>1. /\ stage'[c] = "idle" /\ stage' \in [Cleaner -> Planning \cup Executing]
      /\ \A d \in Cleaner : d # c => stage'[d] = stage[d]
  BY DEF CleanInv, CleanTypeOK, Finish, Planning
<1>2. NoPlan \in Plan
  BY DEF NoPlan, Plan
<1>3. plan' \in [Cleaner -> Plan] /\ \A d \in Cleaner : d # c => plan'[d] = plan[d]
  BY <1>2 DEF CleanInv, CleanTypeOK, Finish
<1>4. /\ temp'[c] = <<>> /\ temp' \in [Cleaner -> Seq(Event)]
      /\ \A d \in Cleaner : d # c => temp'[d] = temp[d]
  BY DEF CleanInv, CleanTypeOK, Finish
<1> QED
  BY <1>1, <1>3, <1>4 DEF OthersStay

LEMMA ReplaceStep ==
    ASSUME CleanInv, NEW c \in Cleaner, ExecReplace(c)
    PROVE  CleanInv'
<1>1. owners = {c} /\ owners' = {}
  BY DEF ExecReplace, CleanLock!Drop
<1>2. stage'[c] = "idle" /\ OthersStay(c) /\ temp'[c] = <<>>
  BY Finished DEF ExecReplace
<1>3. ExecutorsAreOwners' /\ PlanHolds'
  BY <1>1, <1>2, ExecutesAlone, ExecutingKeeps DEF Executing
<1>4. CleanTypeOK' /\ JournalTypes'
  BY <1>1, <1>2 DEF CleanInv, CleanTypeOK, JournalTypes, ExecReplace, OthersStay, writer
<1>5. WithinBorn'
  <2>1. BornBefore(trace)'
    BY DEF CleanInv, WithinBorn, BornBefore, ExecReplace
  <2>2. \A d \in Cleaner : BornBefore(temp[d])'
    <3>1. BornBefore(<<>>)'
      BY DEF CleanInv, JournalTypes, BornBefore, ExecReplace
    <3> QED
      BY <1>2, <3>1 DEF CleanInv, WithinBorn, BornBefore, OthersStay, ExecReplace
  <2> QED
    BY <2>1, <2>2 DEF CleanInv, WithinBorn, HasCount, ExecReplace, writer
<1>6. WritersAreOwners'
  <2>1. \A a \in Agent : a # c
    OBVIOUS
  <2> QED
    BY <1>1, <2>1 DEF CleanInv, WritersAreOwners, ExecReplace, writer
<1> QED
  BY <1>3, <1>4, <1>5, <1>6 DEF CleanInv

LEMMA AbandonStep ==
    ASSUME CleanInv, NEW c \in Cleaner, Abandon(c)
    PROVE  CleanInv'
<1>1. stage'[c] = "idle" /\ OthersStay(c) /\ temp'[c] = <<>>
  BY Finished DEF Abandon
<1>2. UNCHANGED <<trace, torn, born, ckpt, phase, session, next, start, operations, offset,
                  expired, trash>>
  BY DEF Abandon, disk, writer
<1>3. (stage[c] \in Executing /\ owners = {c} /\ owners' = {})
         \/ (stage[c] \notin Executing /\ owners' = owners)
  BY DEF Abandon, CleanLock!Drop
<1>4. CleanTypeOK' /\ JournalTypes'
  BY <1>1, <1>2, <1>3 DEF CleanInv, CleanTypeOK, JournalTypes, OthersStay
<1>5. WithinBorn'
  <2>1. \A d \in Cleaner : BornBefore(temp[d])'
    <3>1. BornBefore(<<>>)'
      BY <1>2 DEF CleanInv, JournalTypes, BornBefore
    <3> QED
      BY <1>1, <1>2, <3>1 DEF CleanInv, WithinBorn, BornBefore, OthersStay
  <2> QED
    BY <1>2, <2>1 DEF CleanInv, WithinBorn, BornBefore, HasCount
<1>6. WritersAreOwners'
  <2>1. \A a \in Agent : a # c
    OBVIOUS
  <2> QED
    BY <1>2, <1>3, <2>1 DEF CleanInv, WritersAreOwners
<1>7. ExecutorsAreOwners'
  BY <1>1, <1>3 DEF CleanInv, ExecutorsAreOwners, OthersStay, Executing
<1>8. PlanHolds'
  <2> SUFFICES ASSUME NEW d \in Cleaner
               PROVE  /\ stage'[d] \in {"backup", "copy", "replace"}
                            => StillMatches(plan[d])'
                      /\ stage'[d] = "replace" => temp'[d] = Keep(Removable(plan[d]))'
    BY Zenon DEF PlanHolds
  <2>1. CASE d = c
    BY <1>1, <2>1
  <2>2. CASE d # c
    BY <1>1, <1>2, <2>2, HoldingStays, Zenon DEF CleanInv, OthersStay
  <2> QED
    BY <2>1, <2>2
<1> QED
  BY <1>4, <1>5, <1>6, <1>7, <1>8 DEF CleanInv

LEMMA SelfCleanStep ==
    ASSUME CleanInv, NEW a \in Agent, SelfClean(a)
    PROVE  CleanInv'
<1>1. owners = {a} /\ \A c \in Cleaner : stage[c] \notin Executing
  <2>1. owners = {a} /\ \A c \in Cleaner : a # c
    BY DEF CleanInv, WritersAreOwners, SelfClean
  <2> QED
    BY <2>1 DEF CleanInv, ExecutorsAreOwners
<1>2. PICK gone : trace' = Keep(gone)
  BY Zenon DEF SelfClean
<1>3. trace' \in Seq(Event) /\ BornBefore(trace')
  BY <1>2, KeptBorn
<1>4. UNCHANGED <<owners, torn, born, ckpt, writer, expired, cleaning>>
  BY Zenon DEF SelfClean
<1>5. trash' = trash \cup Ids(trace)
  BY Zenon DEF SelfClean, Ids
<1>6. CleanTypeOK'
  BY <1>3, <1>4, <1>5, IdsBorn DEF CleanInv, CleanTypeOK, cleaning
<1>7. JournalTypes' /\ WritersAreOwners'
  BY <1>4 DEF CleanInv, JournalTypes, WritersAreOwners, writer
<1>8. WithinBorn'
  BY <1>3, <1>4 DEF CleanInv, WithinBorn, BornBefore, HasCount, writer, cleaning
<1>9. ExecutorsAreOwners' /\ PlanHolds'
  BY <1>1, <1>4 DEF ExecutorsAreOwners, PlanHolds, Executing, cleaning
<1> QED
  BY <1>6, <1>7, <1>8, <1>9 DEF CleanInv

\* A step that touches neither the disk nor a cleaner.
LEMMA IdleStep ==
    ASSUME CleanInv, UNCHANGED <<vars, cleaning, trash>>, expired' \in 0 .. born
    PROVE  CleanInv'
<1>1. CleanTypeOK' /\ JournalTypes' /\ WithinBorn' /\ WritersAreOwners'
  BY DEF CleanInv, CleanTypeOK, JournalTypes, WithinBorn, BornBefore, HasCount,
         WritersAreOwners, vars, disk, writer, cleaning
<1>2. ExecutorsAreOwners'
  BY DEF CleanInv, ExecutorsAreOwners, vars, cleaning
<1>3. PlanHolds'
  <2>1. \A c \in Cleaner : plan'[c] = plan[c] /\ stage'[c] = stage[c] /\ temp'[c] = temp[c]
    BY DEF cleaning
  <2> QED
    BY <2>1, HoldingStays, Zenon DEF PlanHolds, CleanInv, vars, disk
<1> QED
  BY <1>1, <1>2, <1>3 DEF CleanInv

LEMMA CleanInvStep ==
    ASSUME CleanInv, [CleanNext]_cleanVars
    PROVE  CleanInv'
<1>1. CASE UNCHANGED cleanVars
  BY <1>1, IdleStep DEF cleanVars, CleanInv, CleanTypeOK
<1>2. CASE Next /\ UNCHANGED <<expired, trash, cleaning>>
  BY <1>2, SessionStep
<1>3. ASSUME NEW c \in Cleaner, CleanStep(c)
      PROVE  CleanInv'
  BY <1>3, PlanningStep, LockStep, VerifyStep, BackupStep, CopyStep, ReplaceStep,
     AbandonStep, Zenon DEF CleanStep
<1>4. ASSUME NEW a \in Agent, SelfClean(a)
      PROVE  CleanInv'
  BY <1>4, SelfCleanStep
<1>5. CASE Age
  BY <1>5, IdleStep DEF Age, CleanInv, CleanTypeOK, JournalTypes
<1> QED
  BY <1>1, <1>2, <1>3, <1>4, <1>5, Zenon DEF CleanNext

\* The invariant of sessions and cleaners in every state.
THEOREM CleanInvariant == CleanSpec => []CleanInv
<1>1. CleanInv /\ [CleanNext]_cleanVars => CleanInv'
  BY CleanInvStep
<1> QED
  BY <1>1, CleanInitial, PTL DEF CleanSpec

\* The trace, the backups, the plans and the temporary files keep their types.
THEOREM CleanTypeCorrect == CleanSpec => []CleanTypeOK
<1>1. CleanInv => CleanTypeOK
  BY DEF CleanInv
<1> QED
  BY <1>1, CleanInvariant, PTL

-----------------------------------------------------------------------------
(* Protected lines *)

\* A line that is gone for a plan is none of the sessions it protects, nor after
\* the checkpoint, nor of the current trial.
LEMMA RemovableUnprotected ==
    ASSUME trace \in Seq(Event), ckpt \in Checkpoint \cup {NoCheckpoint},
           NEW S, NEW p, p.protected = Protected(ckpt, S, Len(trace)), p.ckpt = ckpt,
           NEW i \in DOMAIN trace, i \in Removable(p)
    PROVE  /\ \A s \in S : trace[i].session # s
           /\ ckpt # NoCheckpoint => i <= ckpt.count /\ (ckpt.operations => i < ckpt.start)
<1>1. i \notin Protected(ckpt, S, Len(trace))
  BY DEF Removable
<1>2. \A s \in S : i \notin Span(s)
  BY <1>1, Zenon DEF Protected
<1>3. \A s : trace[i].session = s => i \in Span(s)
  <2>1. i <= i
    OBVIOUS
  <2> QED
    BY <2>1, Zenon DEF Span
<1>4. i \notin CurrentTrial(ckpt, Len(trace))
  BY <1>1, Zenon DEF Protected
<1>5. ASSUME ckpt # NoCheckpoint
      PROVE  i <= ckpt.count /\ (ckpt.operations => i < ckpt.start)
  <2>1. i <= ckpt.count
    BY <1>5 DEF Removable
  <2>2. ckpt.start \in Nat /\ i \in Nat /\ i <= Len(trace) /\ Len(trace) \in Nat
    BY <1>5 DEF Checkpoint
  <2>3. ckpt.operations => i \notin ckpt.start .. Len(trace)
    BY <1>4, <1>5, Zenon DEF CurrentTrial
  <2> QED
    BY <2>1, <2>2, <2>3
<1> QED
  BY <1>2, <1>3, <1>5, Zenon

\* Every line of the trace is kept, or it is one the plan removes.
LEMMA KeptOrRemovable ==
    ASSUME CleanInv, NEW gone, NEW i \in DOMAIN trace
    PROVE  trace[i].id \in Ids(Keep(gone)) \/ i \in gone
BY KeptBorn, Zenon

\* No cleaner that read a plan without the lock, and no session that cleans under
\* its own, takes away what the checkpoint or a session at work needs.
THEOREM ProtectedStay == CleanSpec => ProtectedLinesStay
<1> DEFINE Unprotected(i) ==
              /\ ckpt # NoCheckpoint =>
                   /\ trace[i].session # ckpt.session
                   /\ i <= ckpt.count
                   /\ ckpt.operations => i < ckpt.start
              /\ \A a \in Agent : phase[a] # "off" => trace[i].session # session[a]
           Stays == \A i \in DOMAIN trace : trace[i].id \in Ids(trace') \/ Unprotected(i)
<1>1. ASSUME CleanInv, [CleanNext]_cleanVars
      PROVE  Stays
  <2>0. trace \in Seq(Event) /\ ckpt \in Checkpoint \cup {NoCheckpoint}
    BY <1>1 DEF CleanInv, CleanTypeOK
  <2>1. CASE trace' = trace
    BY <2>1, Zenon DEF Ids
  <2>2. ASSUME NEW a \in Agent, AppendEvent(a)
        PROVE  Stays
    <3>1. PICK e \in Event : trace' = Append(trace, e)
      BY <1>1, <2>2, CleanAppended, Zenon
    <3>2. \A i \in DOMAIN trace : i \in DOMAIN trace' /\ trace'[i] = trace[i]
      BY <2>0, <3>1
    <3> QED
      BY <3>2, Zenon DEF Ids
  <2>3. ASSUME NEW c \in Cleaner, ExecReplace(c)
        PROVE  Stays
    <3>1. owners = {c} /\ stage[c] = "replace"
      BY <2>3 DEF ExecReplace, CleanLock!Drop
    <3>2. \A a \in Agent : phase[a] = "off"
      <4>1. \A a \in Agent : a # c
        OBVIOUS
      <4> QED
        BY <1>1, <3>1, <4>1 DEF CleanInv, WritersAreOwners
    <3>3. StillMatches(plan[c]) /\ trace' = Keep(Removable(plan[c]))
      BY <1>1, <2>3, <3>1 DEF CleanInv, PlanHolds, ExecReplace
    <3>4. /\ plan[c].ckpt = ckpt
          /\ plan[c].protected = Protected(ckpt, CheckpointSessions(ckpt), Len(trace))
      BY <3>3, Zenon DEF StillMatches
    <3>5. ASSUME NEW i \in DOMAIN trace, trace[i].id \notin Ids(trace')
          PROVE  Unprotected(i)
      <4>1. i \in Removable(plan[c])
        BY <1>1, <3>3, <3>5, KeptOrRemovable, Zenon
      <4>2. /\ \A s \in CheckpointSessions(ckpt) : trace[i].session # s
            /\ ckpt # NoCheckpoint => i <= ckpt.count /\ (ckpt.operations => i < ckpt.start)
        BY <2>0, <3>4, <3>5, <4>1, RemovableUnprotected, Zenon
      <4> QED
        BY <3>2, <4>2, Zenon DEF CheckpointSessions
    <3> QED
      BY <3>5, Zenon
  <2>4. ASSUME NEW a \in Agent, SelfClean(a)
        PROVE  Stays
    <3> DEFINE sessions == CheckpointSessions(ckpt) \cup {session[a]}
               p == [ckpt |-> ckpt, expired |-> expired, total |-> Len(trace),
                     old |-> {i \in DOMAIN trace : trace[i].id <= expired},
                     protected |-> Protected(ckpt, sessions, Len(trace))]
    <3>1. trace' = Keep(Removable(p)) /\ phase[a] # "off"
      BY <2>4, Zenon DEF SelfClean
    <3>2. p.ckpt = ckpt /\ p.protected = Protected(ckpt, sessions, Len(trace))
      BY Zenon
    <3> HIDE DEF p
    <3>3. \A b \in Agent : phase[b] # "off" => b = a
      BY <1>1, <3>1 DEF CleanInv, WritersAreOwners
    <3>4. ASSUME NEW i \in DOMAIN trace, trace[i].id \notin Ids(trace')
          PROVE  Unprotected(i)
      <4>1. i \in Removable(p)
        BY <1>1, <3>1, <3>4, KeptOrRemovable, Zenon
      <4>2. /\ \A s \in sessions : trace[i].session # s
            /\ ckpt # NoCheckpoint => i <= ckpt.count /\ (ckpt.operations => i < ckpt.start)
        BY <2>0, <3>2, <3>4, <4>1, RemovableUnprotected, Zenon
      <4>3. ckpt # NoCheckpoint => trace[i].session # ckpt.session
        BY <4>2, Zenon DEF CheckpointSessions
      <4>4. trace[i].session # session[a]
        BY <4>2, Zenon
      <4> QED
        BY <3>3, <4>2, <4>3, <4>4, Zenon
    <3> QED
      BY <3>4, Zenon
  <2>5. ASSUME trace' # trace
        PROVE  \/ \E a \in Agent : AppendEvent(a) \/ SelfClean(a)
               \/ \E c \in Cleaner : ExecReplace(c)
    <3>1. CASE UNCHANGED cleanVars \/ Age
      BY <2>5, <3>1 DEF cleanVars, vars, disk, Age
    <3>2. CASE Next
      BY <2>5, <3>2 DEF Next, BeginSession, ResumeTrusting, ResumeReconciled, Attach,
              TearAppend, RefuseAppend, PersistCheckpoint, LoseWriter, disk
    <3>3. ASSUME NEW c \in Cleaner, CleanStep(c), ~ExecReplace(c)
          PROVE  FALSE
      BY <2>5, <3>3, Zenon DEF CleanStep, PlanCheckpoint, PlanLock, PlanScan, PlanSpans, ExecLock,
              ExecVerify, ExecBackup, ExecCopy, Abandon, vars, disk
    <3> QED
      BY <1>1, <3>1, <3>2, <3>3, Zenon DEF CleanNext
  <2> QED
    BY <2>1, <2>2, <2>3, <2>4, <2>5, Zenon
<1>2. CleanInv /\ [CleanNext]_cleanVars =>
         [\A i \in DOMAIN trace :
             \/ trace[i].id \in Ids(trace')
             \/ /\ ckpt # NoCheckpoint =>
                      /\ trace[i].session # ckpt.session
                      /\ i <= ckpt.count
                      /\ ckpt.operations => i < ckpt.start
                /\ \A a \in Agent : phase[a] # "off" => trace[i].session # session[a]
         ]_cleanVars
  BY <1>1, Zenon
<1> QED
  BY <1>2, CleanInvariant, PTL DEF CleanSpec, ProtectedLinesStay

-----------------------------------------------------------------------------
(* Only old events go *)

\* The part of PlanIsOld that is about the cleaner c.
OldPlan(c) ==
    /\ plan[c].expired <= expired
    /\ stage[c] \in {"spans", "planned"} \cup Executing =>
           \A i \in plan[c].old : i \in DOMAIN trace /\ trace[i].id <= plan[c].expired
    /\ stage[c] \in {"copy", "replace"} => Ids(trace) \subseteq trash

LEMMA OldPlans == PlanIsOld <=> \A c \in Cleaner : OldPlan(c)
BY Zenon DEF PlanIsOld, OldPlan

\* A step that loses no line and no backup, and lets no event get younger.
LEMMA NothingGoes ==
    ASSUME OnlyOldEventsGo, CleanInv, CleanInv', born' = born,
           Ids(trace) \subseteq Ids(trace'), trash \subseteq trash', expired <= expired'
    PROVE  OnlyOldEventsGo'
<1> SUFFICES ASSUME NEW e \in 1 .. born
             PROVE  e \in Ids(trace') \/ (e <= expired' /\ e \in trash')
  BY DEF OnlyOldEventsGo
<1>1. expired \in Nat /\ expired' \in Nat /\ born \in Nat
  BY DEF CleanInv, CleanTypeOK, JournalTypes
<1>2. e \in Ids(trace) \/ (e <= expired /\ e \in trash)
  BY DEF OnlyOldEventsGo
<1> QED
  BY <1>1, <1>2

LEMMA SessionsKeepOld ==
    ASSUME CleanInv, CleanInv', PlanIsOld, OnlyOldEventsGo,
           Next, UNCHANGED <<expired, trash, cleaning>>
    PROVE  PlanIsOld' /\ OnlyOldEventsGo'
<1>0. /\ trace \in Seq(Event) /\ expired \in Nat /\ born \in Nat
      /\ trash' = trash /\ expired' = expired
      /\ \A c \in Cleaner : plan'[c] = plan[c] /\ stage'[c] = stage[c]
  BY DEF CleanInv, CleanTypeOK, JournalTypes, cleaning
<1>1. \A c \in Cleaner : stage[c] \notin {"copy", "replace"}
  BY SessionsExclude DEF Executing
<1>2. CASE \E a \in Agent : AppendEvent(a)
  <2>1. PICK a \in Agent : AppendEvent(a)
    BY <1>2
  <2>2. PICK e \in Event : trace' = Append(trace, e) /\ e.id = born + 1
    BY <2>1, CleanAppended, Zenon
  <2>3. /\ \A i \in DOMAIN trace : i \in DOMAIN trace' /\ trace'[i] = trace[i]
        /\ \E i \in DOMAIN trace' : trace'[i] = e
    BY <1>0, <2>2
  <2>4. born' = born + 1
    BY <2>1 DEF AppendEvent
  <2>5. Ids(trace) \subseteq Ids(trace') /\ born + 1 \in Ids(trace')
    BY <2>2, <2>3, Zenon DEF Ids
  <2>6. PlanIsOld'
    BY <1>0, <1>1, <2>3 DEF PlanIsOld
  <2>7. OnlyOldEventsGo'
    <3> SUFFICES ASSUME NEW n \in 1 .. born + 1
                 PROVE  n \in Ids(trace') \/ (n <= expired /\ n \in trash)
      BY <1>0, <2>4 DEF OnlyOldEventsGo
    <3>1. CASE n = born + 1
      BY <2>5, <3>1
    <3>2. CASE n # born + 1
      <4>1. n \in 1 .. born
        BY <1>0, <3>2
      <4> QED
        BY <2>5, <4>1 DEF OnlyOldEventsGo
    <3> QED
      BY <3>1, <3>2
  <2> QED
    BY <2>6, <2>7
<1>3. CASE ~ \E a \in Agent : AppendEvent(a)
  <2>1. trace' = trace /\ born' = born
    BY <1>3 DEF Next, BeginSession, ResumeTrusting, ResumeReconciled, Attach, TearAppend,
                RefuseAppend, PersistCheckpoint, LoseWriter, disk
  <2>2. PlanIsOld'
    BY <1>0, <1>1, <2>1 DEF PlanIsOld
  <2>3. OnlyOldEventsGo'
    BY <1>0, <2>1 DEF OnlyOldEventsGo
  <2> QED
    BY <2>2, <2>3
<1> QED
  BY <1>2, <1>3

LEMMA CleanersKeepOld ==
    ASSUME CleanInv, CleanInv', PlanIsOld, OnlyOldEventsGo, OneRemover,
           NEW c \in Cleaner, CleanStep(c)
    PROVE  PlanIsOld' /\ OnlyOldEventsGo'
<1> DEFINE Old(p) == \A i \in p.old : i \in DOMAIN trace /\ trace[i].id <= p.expired
<1>0. /\ trace \in Seq(Event) /\ expired \in Nat /\ born \in Nat
      /\ plan \in [Cleaner -> Plan] /\ plan[c] \in Plan /\ stage[c] \in Planning \cup Executing
      /\ stage \in [Cleaner -> Planning \cup Executing]
  BY DEF CleanInv, CleanTypeOK, JournalTypes
<1>1. OldPlan(c)
  BY OldPlans
<1>2. expired' = expired /\ born' = born
  BY Zenon DEF CleanStep, PlanCheckpoint, PlanLock, PlanScan, PlanSpans, ExecLock, ExecVerify,
           ExecBackup, ExecCopy, ExecReplace, Abandon, vars, disk
<1>3. OldPlan(c)' => PlanIsOld'
  <2>1. \A d \in Cleaner : d = c
    BY DEF OneRemover
  <2> QED
    BY <2>1 DEF PlanIsOld, OldPlan
<1>4. trace' = trace /\ trash' = trash => OnlyOldEventsGo'
  BY <1>2 DEF OnlyOldEventsGo
<1>5. CASE PlanCheckpoint(c)
  <2>1. stage'[c] = "lock" /\ trace' = trace /\ trash' = trash
    BY <1>0, <1>5 DEF PlanCheckpoint, Move, vars, disk
  <2>2. plan'[c].expired = expired
    BY <1>0, <1>5, CheckpointPlanned DEF Plan
  <2> QED
    BY <1>0, <1>2, <1>3, <1>4, <2>1, <2>2 DEF OldPlan, Executing
<1>6. CASE PlanLock(c)
  <2>1. stage'[c] = "scan" /\ plan' = plan /\ trace' = trace /\ trash' = trash
    BY <1>0, <1>6 DEF PlanLock, Move, vars, disk
  <2> QED
    BY <1>1, <1>2, <1>3, <1>4, <2>1 DEF OldPlan, Executing
<1>7. CASE PlanScan(c)
  <2>1. stage'[c] = "spans" /\ trace' = trace /\ trash' = trash
    BY <1>0, <1>7 DEF PlanScan, Move, vars, disk
  <2>2. /\ plan'[c].expired = plan[c].expired
        /\ plan'[c].old = {i \in DOMAIN trace : trace[i].id <= plan[c].expired}
    BY <1>0, <1>7, ScanPlanned DEF Plan
  <2>3. OldPlan(c)'
    BY <1>1, <1>2, <2>1, <2>2 DEF OldPlan
  <2> QED
    BY <1>3, <1>4, <2>1, <2>3
<1>8. CASE PlanSpans(c)
  <2>1. stage[c] = "spans" /\ stage'[c] = "planned" /\ trace' = trace /\ trash' = trash
    BY <1>0, <1>8, Zenon DEF PlanSpans, Move, vars, disk
  <2>2. plan'[c].expired = plan[c].expired /\ plan'[c].old = plan[c].old
    BY <1>0, <1>8, SpansPlanned DEF Plan
  <2>3. OldPlan(c)'
    BY <1>1, <1>2, <2>1, <2>2 DEF OldPlan
  <2> QED
    BY <1>3, <1>4, <2>1, <2>3
<1>9. CASE ExecLock(c)
  <2>1. /\ stage[c] = "planned" /\ stage'[c] = "verify"
        /\ plan' = plan /\ trace' = trace /\ trash' = trash
    BY <1>0, <1>9 DEF ExecLock, Move, disk
  <2> QED
    BY <1>1, <1>2, <1>3, <1>4, <2>1 DEF OldPlan, Executing
<1>10. CASE ExecVerify(c)
  <2>1. /\ stage[c] = "verify" /\ stage'[c] = "backup"
        /\ plan' = plan /\ trace' = trace /\ trash' = trash
    BY <1>0, <1>10 DEF ExecVerify, Move, vars, disk
  <2> QED
    BY <1>1, <1>2, <1>3, <1>4, <2>1 DEF OldPlan, Executing
<1>11. CASE ExecBackup(c)
  <2>1. /\ stage[c] = "backup" /\ stage'[c] = "copy"
        /\ plan' = plan /\ trace' = trace /\ trash' = trash \cup Ids(trace)
    BY <1>0, <1>11 DEF ExecBackup, Move, vars, disk, Ids
  <2>2. OldPlan(c)'
    BY <1>1, <1>2, <2>1 DEF OldPlan, Executing
  <2>3. OnlyOldEventsGo'
    BY <1>0, <1>2, <2>1, NothingGoes
  <2> QED
    BY <1>3, <2>2, <2>3
<1>12. CASE ExecCopy(c)
  <2>1. /\ stage[c] = "copy" /\ stage'[c] = "replace"
        /\ plan' = plan /\ trace' = trace /\ trash' = trash
    BY <1>0, <1>12 DEF ExecCopy, Move, vars, disk
  <2> QED
    BY <1>1, <1>2, <1>3, <1>4, <2>1 DEF OldPlan, Executing
<1>13. ASSUME Finish(c)
       PROVE  OldPlan(c)'
  <2>1. stage'[c] = "idle" /\ plan'[c] = NoPlan
    BY <1>0, <1>13 DEF Finish
  <2> QED
    BY <1>0, <1>2, <2>1 DEF OldPlan, Executing, NoPlan
<1>14. CASE ExecReplace(c)
  <2>1. stage[c] = "replace" /\ trash' = trash
    BY <1>14 DEF ExecReplace
  <2>2. trace' = Keep(Removable(plan[c]))
    BY <1>14, <2>1 DEF CleanInv, PlanHolds, ExecReplace
  <2>3. OnlyOldEventsGo'
    <3> SUFFICES ASSUME NEW e \in 1 .. born
                 PROVE  e \in Ids(trace') \/ (e <= expired /\ e \in trash)
      BY <1>2, <2>1 DEF OnlyOldEventsGo
    <3>1. CASE e \in Ids(trace)
      <4>1. PICK i \in DOMAIN trace : e = trace[i].id
        BY <3>1, Zenon DEF Ids
      <4>2. CASE i \in Removable(plan[c])
        <5>1. i \in plan[c].old
          BY <4>2, Zenon DEF Removable
        <5>2. trace[i].id <= plan[c].expired /\ plan[c].expired <= expired /\ e \in trash
          BY <1>1, <2>1, <3>1, <5>1 DEF OldPlan, Executing
        <5>3. plan[c].expired \in Nat
          BY <1>0 DEF Plan
        <5> QED
          BY <1>0, <4>1, <5>2, <5>3
      <4>3. CASE i \notin Removable(plan[c])
        BY <2>2, <4>1, <4>3, KeptOrRemovable, Zenon
      <4> QED
        BY <4>2, <4>3
    <3>2. CASE e \notin Ids(trace)
      BY <3>2 DEF OnlyOldEventsGo
    <3> QED
      BY <3>1, <3>2
  <2> QED
    BY <1>3, <1>13, <1>14, <2>3 DEF ExecReplace
<1>15. CASE Abandon(c)
  BY <1>3, <1>4, <1>13, <1>15 DEF Abandon, disk
<1> QED
  BY <1>5, <1>6, <1>7, <1>8, <1>9, <1>10, <1>11, <1>12, <1>14, <1>15, Zenon DEF CleanStep

LEMMA SelfCleanKeepsOld ==
    ASSUME CleanInv, CleanInv', PlanIsOld, OnlyOldEventsGo, OneRemover,
           NEW a \in Agent, SelfClean(a)
    PROVE  PlanIsOld' /\ OnlyOldEventsGo'
<1>1. Cleaner = {}
  BY DEF OneRemover, SelfClean
<1>2. PICK p : /\ p.old = {i \in DOMAIN trace : trace[i].id <= expired}
               /\ trace' = Keep(Removable(p))
  <2> DEFINE q == [ckpt |-> ckpt, expired |-> expired, total |-> Len(trace),
                   old |-> {i \in DOMAIN trace : trace[i].id <= expired},
                   protected |-> Protected(ckpt, CheckpointSessions(ckpt) \cup {session[a]},
                                           Len(trace))]
  <2>1. trace' = Keep(Removable(q))
    BY Zenon DEF SelfClean
  <2>2. q.old = {i \in DOMAIN trace : trace[i].id <= expired}
    BY Zenon
  <2> QED
    BY <2>1, <2>2, Zenon
<1>3. trash' = trash \cup Ids(trace) /\ born' = born /\ expired' = expired
  BY Zenon DEF SelfClean, Ids
<1>4. OnlyOldEventsGo'
  <2> SUFFICES ASSUME NEW e \in 1 .. born
               PROVE  e \in Ids(trace') \/ (e <= expired /\ e \in trash \cup Ids(trace))
    BY <1>3 DEF OnlyOldEventsGo
  <2>1. CASE e \in Ids(trace)
    <3>1. PICK i \in DOMAIN trace : e = trace[i].id
      BY <2>1, Zenon DEF Ids
    <3>2. i \in Removable(p) => e <= expired
      BY <1>2, <3>1, Zenon DEF Removable
    <3>3. i \in Removable(p) \/ e \in Ids(trace')
      BY <1>2, <3>1, KeptOrRemovable, Zenon
    <3> QED
      BY <2>1, <3>2, <3>3
  <2>2. CASE e \notin Ids(trace)
    BY <2>2 DEF OnlyOldEventsGo
  <2> QED
    BY <2>1, <2>2
<1> QED
  BY <1>1, <1>4 DEF PlanIsOld

\* If nothing but one cleaner, or but sessions under their own lock, rewrites the
\* trace, every event ever appended is in it, or was older than keep_days and is
\* in a backup, whatever is appended while the cleaner plans.
THEOREM OnlyOldGo ==
    ASSUME OneRemover
    PROVE  CleanSpec => []OnlyOldEventsGo
<1>1. CleanInit => PlanIsOld /\ OnlyOldEventsGo
  BY DEF CleanInit, Init, PlanIsOld, OnlyOldEventsGo, NoPlan, Executing
<1>2. ASSUME CleanInv, CleanInv', PlanIsOld, OnlyOldEventsGo, [CleanNext]_cleanVars
      PROVE  PlanIsOld' /\ OnlyOldEventsGo'
  <2>1. CASE UNCHANGED cleanVars
    BY <1>2, <2>1 DEF cleanVars, cleaning, vars, disk, PlanIsOld, OnlyOldEventsGo, Ids
  <2>2. CASE Next /\ UNCHANGED <<expired, trash, cleaning>>
    BY <1>2, <2>2, SessionsKeepOld
  <2>3. ASSUME NEW c \in Cleaner, CleanStep(c)
        PROVE  PlanIsOld' /\ OnlyOldEventsGo'
    BY <1>2, <2>3, CleanersKeepOld
  <2>4. ASSUME NEW a \in Agent, SelfClean(a)
        PROVE  PlanIsOld' /\ OnlyOldEventsGo'
    BY <1>2, <2>4, SelfCleanKeepsOld
  <2>5. CASE Age
    <3>1. /\ expired \in Nat /\ expired' \in Nat /\ expired <= expired'
          /\ trace' = trace /\ born' = born /\ trash' = trash /\ plan' = plan /\ stage' = stage
      BY <1>2, <2>5 DEF CleanInv, CleanTypeOK, JournalTypes, Age, vars, disk, cleaning
    <3>2. PlanIsOld'
      <4>1. \A c \in Cleaner : plan[c].expired \in Nat
        BY <1>2 DEF CleanInv, CleanTypeOK, Plan
      <4>2. \A c \in Cleaner : plan[c].expired <= expired'
        BY <1>2, <3>1, <4>1 DEF PlanIsOld
      <4> QED
        BY <1>2, <3>1, <4>2 DEF PlanIsOld, Ids
    <3>3. OnlyOldEventsGo'
      BY <1>2, <3>1, NothingGoes
    <3> QED
      BY <3>2, <3>3
  <2> QED
    BY <1>2, <2>1, <2>2, <2>3, <2>4, <2>5, Zenon DEF CleanNext
<1>3. CleanInv /\ CleanInv' /\ PlanIsOld /\ OnlyOldEventsGo /\ [CleanNext]_cleanVars
         => PlanIsOld' /\ OnlyOldEventsGo'
  BY <1>2
<1> QED
  BY <1>1, <1>3, CleanInvariant, PTL DEF CleanSpec

=============================================================================
