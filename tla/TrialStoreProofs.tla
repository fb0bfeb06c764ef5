-------------------------- MODULE TrialStoreProofs --------------------------
(***************************************************************************)
(* Proofs about TrialStore, for any number of agents, trials and crashes:  *)
(* the types, that no agent replaces the record of another, what an index  *)
(* called current lists, who is refused one, and what a confirmation       *)
(* writes.  Those about records and the index are under the workspace      *)
(* lock, which the callers of these functions must hold.                   *)
(*                                                                         *)
(* That records stay needs that a staged path is still free when it is renamed.   *)
(* The path was free when it was looked at; since then nobody has written: *)
(* the other agents because the lock is held from the look to the rename,  *)
(* which is what the lock part of the type invariant says, and the user    *)
(* because he copies files in only while nothing runs.                     *)
(*                                                                         *)
(* That an index lists exactly the trials on disk needs that every trial   *)
(* not newer than the index has its row in it: then as many rows as there  *)
(* are trials are the rows of the trials (CountedRows).                    *)
(***************************************************************************)
EXTENDS TrialStore, FiniteSetTheorems, TLAPS

USE StoreAssumption

Memory == [paths : SUBSET Path, rows : SUBSET Row, mtime : Nat, author : Nat]

Answering == {"idle", "prompt", "staged", "stats", "discover", "rows", "database"}

FileType == DOMAIN files \subseteq Path /\ files \in [DOMAIN files -> Record]

LockType ==
    /\ lock \in Process \cup {Nobody}
    /\ pc \in [Process -> Answering]
    /\ \A p \in Process : Locked => (lock = p <=> pc[p] \notin {"idle", "prompt"})

InitType ==
    /\ config \in Baseline
    /\ context \in [Process -> Baseline]
    /\ started \subseteq Process
    /\ initialized \in InitializedState \cup {NotInitialised}

\* What the type invariant of the store rests on.
TypeInv ==
    /\ month \in Month /\ clock \in Nat /\ writes \in Nat
    /\ FileType
    /\ index \in Index \cup {NoIndex}
    /\ LockType
    /\ work \in [Process -> Memory]
    /\ InitType

\* It gives the types of the store.
LEMMA TypeInvImplies == TypeInv => StoreTypeOK
  BY DEF TypeInv, StoreTypeOK, FileType, LockType, InitType, Memory, Answering

\* Before anything happens there is no file and nobody runs.
LEMMA InitialTypes == Init => TypeInv
<1> SUFFICES ASSUME Init PROVE TypeInv
  OBVIOUS
<1>1. FileType
  BY DEF Init, FileType
<1>2. LockType
  BY DEF Init, InitialisationInit, LockType, Answering
<1>3. work \in [Process -> Memory]
  BY DEF Init, Memory, Nothing
<1>4. InitType
  BY DEF Init, InitialisationInit, InitType
<1> QED
  BY <1>1, <1>2, <1>3, <1>4 DEF Init, TypeInv, Month

\* A call that ends gives the lock back, and leaves the process idle.
LEMMA FinishKeeps ==
    ASSUME LockType, work \in [Process -> Memory], NEW p \in Process, NEW a, Finish(p, a)
    PROVE  LockType' /\ work' \in [Process -> Memory]
<1>1. pc' = [pc EXCEPT ![p] = "idle"] /\ lock' = IF lock = p THEN Nobody ELSE lock
  BY DEF Finish, End, Unlocked
<1>2. work' \in [Process -> Memory]
  BY DEF Finish, Memory, Nothing
<1>3. pc' \in [Process -> Answering] /\ lock' \in Process \cup {Nobody}
  BY <1>1 DEF LockType, Answering
<1>4. ASSUME NEW q \in Process, Locked
      PROVE  lock' = q <=> pc'[q] \notin {"idle", "prompt"}
  <2>1. lock = q <=> pc[q] \notin {"idle", "prompt"}
    BY <1>4 DEF LockType
  <2>2. CASE q = p
    BY <2>1, <2>2, <1>1 DEF LockType
  <2>3. CASE q # p
    BY <2>1, <2>3, <1>1 DEF LockType
  <2> QED
    BY <2>2, <2>3
<1> QED
  BY <1>2, <1>3, <1>4 DEF LockType

\* A call that begins takes the lock, if calls do.
LEMMA BeginKeeps ==
    ASSUME LockType, NEW p \in Process, NEW s \in Answering \ {"idle", "prompt"}, NEW m,
           Idle(p), TakeLock(p), Step(p, s, m)
    PROVE  LockType'
<1>1. pc' = [pc EXCEPT ![p] = s] /\ pc[p] = "idle"
  BY DEF Step, Idle
<1>2. pc' \in [Process -> Answering] /\ lock' \in Process \cup {Nobody}
  BY <1>1 DEF LockType, TakeLock
<1>3. ASSUME NEW q \in Process, Locked
      PROVE  lock' = q <=> pc'[q] \notin {"idle", "prompt"}
  <2>1. lock = q <=> pc[q] \notin {"idle", "prompt"}
    BY <1>3 DEF LockType
  <2>2. lock = Nobody /\ lock' = p
    BY <1>3 DEF TakeLock
  <2>3. pc'[q] = IF q = p THEN s ELSE pc[q]
    BY <1>1 DEF LockType
  <2> QED
    BY <2>1, <2>2, <2>3
<1> QED
  BY <1>2, <1>3 DEF LockType

\* A call that goes on keeps the lock.
LEMMA StepKeeps ==
    ASSUME LockType, NEW p \in Process, NEW s \in Answering \ {"idle", "prompt"}, NEW m,
           pc[p] \notin {"idle", "prompt"}, Step(p, s, m), UNCHANGED lock
    PROVE  LockType'
<1>1. pc' = [pc EXCEPT ![p] = s]
  BY DEF Step
<1> QED
  BY <1>1 DEF LockType

\* A process between idle and the prompt is without the lock.
LEMMA UnlockedStepKeeps ==
    ASSUME LockType, NEW p \in Process, NEW s \in {"idle", "prompt"},
           pc[p] \in {"idle", "prompt"}, pc' = [pc EXCEPT ![p] = s], UNCHANGED lock
    PROVE  LockType'
  BY DEF LockType, Answering

\* What the calls of an agent keep apart from the lock.
LEMMA RowsTyped ==
    ASSUME FileType
    PROVE  TrialPaths \subseteq Path /\ Rows(TrialPaths) \subseteq Row
<1>1. TrialPaths \subseteq Path
  BY DEF TrialPaths, FileType
<1>2. ASSUME NEW x \in TrialPaths PROVE RowOf(x) \in Row
  BY <1>1 DEF RowOf, Row, FileType, Record, TrialPaths
<1> QED
  BY <1>1, <1>2 DEF Rows

-----------------------------------------------------------------------------
(* Types *)

LEMMA InitialisingTypes ==
    ASSUME TypeInv, Initialising
    PROVE  TypeInv'
<1>1. UNCHANGED storeVars
  BY DEF Initialising
<1>2. FileType' /\ work' \in [Process -> Memory] /\ month' \in Month /\ clock' \in Nat
      /\ writes' \in Nat /\ index' \in Index \cup {NoIndex}
  BY <1>1 DEF TypeInv, FileType, storeVars
<1>3. LockType' /\ InitType'
  <2>1. ASSUME NEW p \in Process, RunInit(p)
        PROVE  LockType' /\ InitType'
    <3>1. \E s \in {"idle", "prompt"} : pc' = [pc EXCEPT ![p] = s]
      BY <2>1 DEF RunInit, End
    <3>2. LockType'
      BY <3>1, <2>1, <1>1, UnlockedStepKeeps DEF RunInit, storeVars, TypeInv
    <3>3. context' \in [Process -> Baseline]
      BY <2>1 DEF RunInit, TypeInv, InitType
    <3> QED
      BY <2>1, <3>2, <3>3 DEF RunInit, TypeInv, InitType
  <2>2. ASSUME NEW p \in Process, Decline(p)
        PROVE  LockType' /\ InitType'
    <3>1. LockType'
      BY <2>2, <1>1, UnlockedStepKeeps DEF Decline, End, storeVars, TypeInv
    <3> QED
      BY <2>2, <3>1 DEF Decline, initVars, TypeInv, InitType
  <2>3. ASSUME NEW p \in Process, Confirm(p)
        PROVE  LockType' /\ InitType'
    <3>1. LockType'
      BY <2>3, <1>1, UnlockedStepKeeps DEF Confirm, End, storeVars, TypeInv
    <3>2. StateOf(p) \in InitializedState
      BY DEF StateOf, InitializedState, TypeInv, InitType, Namespace
    <3> QED
      BY <2>3, <3>1, <3>2 DEF Confirm, TypeInv, InitType
  <2>4. ASSUME ConfigEdited \/ RegistryEdited
        PROVE  LockType' /\ InitType'
    BY <2>4, <1>1 DEF ConfigEdited, RegistryEdited, storeVars, TypeInv, InitType, LockType
  <2> QED
    BY <2>1, <2>2, <2>3, <2>4 DEF Initialising
<1> QED
  BY <1>2, <1>3 DEF TypeInv

LEMMA CallingTypes ==
    ASSUME TypeInv, NEW p \in Process, Calling(p)
    PROVE  TypeInv'
<1>1. CASE StartUp(p)
  <2>1. UNCHANGED storeVars /\ pc[p] = "idle" /\ pc' = [pc EXCEPT ![p] = "idle"]
    BY <1>1 DEF StartUp, Startup, End
  <2>2. LockType'
    BY <2>1, UnlockedStepKeeps DEF storeVars, TypeInv
  <2>3. InitType'
    BY <1>1 DEF StartUp, Startup, TypeInv, InitType
  <2> QED
    BY <2>1, <2>2, <2>3 DEF storeVars, TypeInv, FileType
<1>2. ASSUME NEW x \in Path, BeginWrite(p, x)
      PROVE  TypeInv'
  <2>1. writes' \in Nat /\ InitType'
    BY <1>2 DEF BeginWrite, TypeInv, InitType, initVars
  <2>2. CASE Taken(x)
    <3>1. LockType' /\ work' \in [Process -> Memory]
      BY <1>2, <2>2, FinishKeeps DEF BeginWrite, TypeInv
    <3> QED
      BY <1>2, <2>1, <2>2, <3>1 DEF BeginWrite, TypeInv, FileType
  <2>3. CASE ~Taken(x)
    <3>1. LockType'
      BY <1>2, <2>3, BeginKeeps, "staged" \in Answering \ {"idle", "prompt"}
      DEF BeginWrite, TypeInv, Answering
    <3>2. clock' \in Nat /\ writes' \in Nat
      BY <1>2, <2>1, <2>3 DEF BeginWrite, TypeInv
    <3>3. [Nothing EXCEPT !.paths = {x}, !.mtime = clock', !.author = writes'] \in Memory
      BY <3>2 DEF Nothing, Memory
    <3>4. work' \in [Process -> Memory]
      BY <1>2, <2>3, <3>3 DEF BeginWrite, Step, TypeInv
    <3> QED
      BY <1>2, <2>1, <3>1, <3>2, <3>4 DEF BeginWrite, TypeInv, FileType
  <2> QED
    BY <2>2, <2>3
<1>3. ASSUME NEW x \in Path, LoadRecord(p, x)
      PROVE  TypeInv'
  <2>1. UNCHANGED storeVars /\ UNCHANGED initVars
        /\ pc[p] = "idle" /\ pc' = [pc EXCEPT ![p] = "idle"]
    BY <1>3 DEF LoadRecord, Idle, End
  <2>2. LockType'
    BY <2>1, UnlockedStepKeeps DEF storeVars, TypeInv
  <2> QED
    BY <2>1, <2>2 DEF storeVars, initVars, TypeInv, FileType, InitType
<1>4. CASE CommitWrite(p)
  <2>1. LockType' /\ work' \in [Process -> Memory]
    BY <1>4, FinishKeeps DEF CommitWrite, TypeInv
  <2>2. FileType'
    <3>1. PICK x \in work[p].paths :
             files' = [y \in DOMAIN files \cup {x} |->
                          IF y = x THEN [author |-> work[p].author, namespace |-> "ours",
                                         mtime |-> work[p].mtime, edit |-> "none"]
                          ELSE files[y]]
      BY <1>4 DEF CommitWrite
    <3>2. x \in Path /\ work[p].author \in Nat /\ work[p].mtime \in Nat
      BY DEF TypeInv, Memory
    <3>3. [author |-> work[p].author, namespace |-> "ours",
           mtime |-> work[p].mtime, edit |-> "none"] \in Record
      BY <3>2 DEF Record, Namespace
    <3>4. \A y \in DOMAIN files : files[y] \in Record
      BY DEF TypeInv, FileType
    <3> QED
      BY <3>1, <3>2, <3>3, <3>4 DEF TypeInv, FileType
  <2> QED
    BY <1>4, <2>1, <2>2 DEF CommitWrite, TypeInv, InitType, initVars
<1>5. CASE WriteFails(p)
  BY <1>5, FinishKeeps DEF WriteFails, TypeInv, InitType, FileType, initVars
<1>6. CASE BeginEnsure(p)
  <2>1. LockType'
    BY <1>6, BeginKeeps DEF BeginEnsure, TypeInv, Answering
  <2>2. [Nothing EXCEPT !.paths = TrialPaths] \in Memory
    BY RowsTyped DEF TypeInv, Nothing, Memory
  <2>3. work' \in [Process -> Memory]
    BY <1>6, <2>2 DEF BeginEnsure, Step, TypeInv
  <2> QED
    BY <1>6, <2>1, <2>3 DEF BeginEnsure, TypeInv, InitType, FileType, initVars
<1>7. CASE CompareTimes(p)
  <2>1. UNCHANGED <<month, clock, files, index, writes, initVars>>
    BY <1>7 DEF CompareTimes
  <2>2. LockType' /\ work' \in [Process -> Memory]
    <3>1. CASE \E a : Finish(p, a)
      BY <3>1, FinishKeeps DEF TypeInv
    <3>2. CASE Step(p, "discover", Nothing) /\ UNCHANGED lock
      <4>1. LockType'
        BY <1>7, <3>2, StepKeeps DEF CompareTimes, TypeInv, Answering
      <4>2. work' \in [Process -> Memory]
        BY <3>2 DEF Step, TypeInv, Nothing, Memory
      <4> QED
        BY <4>1, <4>2
    <3> QED
      BY <1>7, <3>1, <3>2 DEF CompareTimes
  <2> QED
    BY <2>1, <2>2 DEF TypeInv, InitType, FileType, initVars
<1>8. CASE BeginRebuild(p)
  <2>1. LockType'
    BY <1>8, BeginKeeps DEF BeginRebuild, TypeInv, Answering
  <2>2. work' \in [Process -> Memory]
    BY <1>8 DEF BeginRebuild, Step, TypeInv, Nothing, Memory
  <2> QED
    BY <1>8, <2>1, <2>2 DEF BeginRebuild, TypeInv, InitType, FileType, initVars
<1>9. CASE Discover(p)
  <2>1. CASE Discoverable
    <3>1. LockType'
      BY <1>9, <2>1, StepKeeps DEF Discover, TypeInv, Answering
    <3>2. [Nothing EXCEPT !.paths = TrialPaths, !.rows = Rows(TrialPaths)] \in Memory
      BY RowsTyped DEF TypeInv, Nothing, Memory
    <3>3. work' \in [Process -> Memory]
      BY <1>9, <2>1, <3>2 DEF Discover, Step, TypeInv
    <3> QED
      BY <1>9, <3>1, <3>3 DEF Discover, TypeInv, InitType, FileType, initVars
  <2>2. CASE ~Discoverable
    BY <1>9, <2>2, FinishKeeps DEF Discover, TypeInv, InitType, FileType, initVars
  <2> QED
    BY <2>1, <2>2
<1>10. CASE WriteDatabase(p)
  <2>1. UNCHANGED <<month, clock, files, index, writes, initVars>>
    BY <1>10 DEF WriteDatabase
  <2>2. LockType' /\ work' \in [Process -> Memory]
    <3>1. CASE \E a : Finish(p, a)
      BY <3>1, FinishKeeps DEF TypeInv
    <3>2. CASE Step(p, "database", [work[p] EXCEPT !.mtime = clock]) /\ UNCHANGED lock
      <4>1. LockType'
        BY <1>10, <3>2, StepKeeps DEF WriteDatabase, TypeInv, Answering
      <4>2. [work[p] EXCEPT !.mtime = clock] \in Memory
        BY DEF TypeInv, Memory
      <4>3. work' \in [Process -> Memory]
        BY <3>2, <4>2 DEF Step, TypeInv
      <4> QED
        BY <4>1, <4>3
    <3> QED
      BY <1>10, <3>1, <3>2 DEF WriteDatabase
  <2> QED
    BY <2>1, <2>2 DEF TypeInv, InitType, FileType, initVars
<1>11. CASE PublishIndex(p)
  <2>1. LockType' /\ work' \in [Process -> Memory]
    BY <1>11, FinishKeeps DEF PublishIndex, TypeInv
  <2>2. index' \in Index
    BY <1>11 DEF PublishIndex, TypeInv, Memory, Index
  <2> QED
    BY <1>11, <2>1, <2>2 DEF PublishIndex, TypeInv, InitType, FileType, initVars
<1>12. CASE Crash(p)
  BY <1>12, FinishKeeps DEF Crash, TypeInv, InitType, FileType
<1>13. CASE Leave(p)
  BY <1>13 DEF Leave, storeVars, TypeInv, InitType, FileType, LockType
<1> QED
  BY <1>1, <1>2, <1>3, <1>4, <1>5, <1>6, <1>7, <1>8, <1>9, <1>10, <1>11, <1>12, <1>13
  DEF Calling

LEMMA UserTypes ==
    ASSUME TypeInv, UserStep
    PROVE  TypeInv'
<1>1. /\ UNCHANGED <<lock, work, writes, config, context, started, pc>>
      /\ month' \in {month, "this"} /\ clock' \in {clock, clock + 1}
  <2>1. ASSUME NEW x \in Path, EditRecord(x) \/ DeleteRecord(x)
        PROVE  /\ UNCHANGED <<lock, work, writes, config, context, started, pc>>
               /\ month' \in {month, "this"} /\ clock' \in {clock, clock + 1}
    BY <2>1 DEF EditRecord, DeleteRecord, userVars
  <2>2. CASE LoseIndex \/ CopyForeign \/ ChangeInitialized
    BY <2>2 DEF LoseIndex, CopyForeign, ChangeInitialized, userVars
  <2>3. CASE MonthTurns
    BY <2>3 DEF MonthTurns, initVars
  <2> QED
    BY <2>1, <2>2, <2>3 DEF UserStep
<1>2. month' \in Month /\ clock' \in Nat
  BY <1>1 DEF TypeInv, Month
<1>3. initialized' \in InitializedState \cup {NotInitialised}
  <2>1. CASE CopyForeign
    BY <2>1 DEF CopyForeign, TypeInv, InitType, InitializedState, Namespace
  <2>2. CASE ChangeInitialized
    <3>1. initialized \in InitializedState
      BY <2>2 DEF ChangeInitialized, TypeInv, InitType
    <3>2. [initialized EXCEPT !.namespace = "unreadable"] \in InitializedState
      BY <3>1 DEF InitializedState
    <3> QED
      BY <2>2, <3>2 DEF ChangeInitialized
  <2>3. CASE ~CopyForeign /\ ~ChangeInitialized
    BY <2>3 DEF UserStep, EditRecord, DeleteRecord, LoseIndex, MonthTurns,
                userVars, initVars, TypeInv, InitType
  <2> QED
    BY <2>1, <2>2, <2>3
<1>4. FileType'
  <2>1. ASSUME NEW x \in Path, EditRecord(x)
        PROVE  FileType'
    <3>1. PICK edit \in {"notes", "payload"} :
             files' = [files EXCEPT ![x].edit = edit, ![x].mtime = clock']
      BY <2>1 DEF EditRecord
    <3>2. files[x] \in Record
      BY <2>1 DEF EditRecord, TypeInv, FileType
    <3>3. [files[x] EXCEPT !.edit = edit, !.mtime = clock'] \in Record
      BY <3>2, <1>2 DEF Record
    <3> QED
      BY <3>1, <3>3 DEF TypeInv, FileType
  <2>2. ASSUME NEW x \in Path, DeleteRecord(x)
        PROVE  FileType'
    BY <2>2 DEF DeleteRecord, TypeInv, FileType
  <2>3. CASE CopyForeign
    <3>1. PICK x \in Path :
             files' = [y \in {x} |-> [author |-> 0, namespace |-> "foreign",
                                      mtime |-> clock', edit |-> "none"]]
      BY <2>3 DEF CopyForeign
    <3> QED
      BY <3>1, <1>2 DEF FileType, Record, Namespace
  <2> QED
    BY <2>1, <2>2, <2>3
    DEF UserStep, LoseIndex, ChangeInitialized, MonthTurns, TypeInv, FileType
<1>5. index' \in Index \cup {NoIndex}
  <2>1. CASE LoseIndex
    BY <2>1 DEF LoseIndex, TypeInv, Index
  <2>2. CASE CopyForeign
    <3>1. PICK x \in Path :
             index' = [rows |-> {[path |-> x, author |-> 0]}, mtime |-> clock', sound |-> TRUE]
      BY <2>2 DEF CopyForeign
    <3> QED
      BY <3>1, <1>2 DEF Index, Row
  <2> QED
    BY <2>1, <2>2
    DEF UserStep, EditRecord, DeleteRecord, ChangeInitialized, MonthTurns, TypeInv
<1> QED
  BY <1>1, <1>4, <1>5, <1>3, <1>2 DEF TypeInv, LockType, InitType

\* Every step keeps the types.
LEMMA StepTypes ==
    ASSUME TypeInv, [Next]_vars
    PROVE  TypeInv'
<1>1. CASE UNCHANGED vars
  BY <1>1 DEF vars, storeVars, initVars, TypeInv, FileType, LockType, InitType
<1> QED
  BY <1>1, InitialisingTypes, CallingTypes, UserTypes DEF Next

(***************************************************************************)
(* The variables of the store keep their types, and the lock, if calls take *)
(* it, belongs to the process that is inside a call and to no other, over   *)
(* every failure and crash (fs_memory.py:1353-1414, 1649-1695).            *)
(***************************************************************************)
THEOREM StoreTypes == Spec => []StoreTypeOK
<1>1. Init => TypeInv
  BY InitialTypes
<1>2. TypeInv /\ [Next]_vars => TypeInv'
  BY StepTypes
<1>3. TypeInv => StoreTypeOK
  BY TypeInvImplies
<1> QED
  BY <1>1, <1>2, <1>3, PTL DEF Spec

-----------------------------------------------------------------------------
(* Records *)

\* Whoever has staged a file is in a session, and its path is free.
StagedFree ==
    \A p \in Process :
        pc[p] = "staged" =>
            /\ p \in started
            /\ \A x \in work[p].paths : x \notin DOMAIN files

\* No two processes are inside a call.
LEMMA OneCall ==
    ASSUME TypeInv, Locked, NEW p \in Process, NEW q \in Process,
           pc[p] \notin {"idle", "prompt"}, pc[q] \notin {"idle", "prompt"}
    PROVE  p = q
  BY DEF TypeInv, LockType

\* A step that stages nothing, and writes no file, leaves the staged as it is.
LEMMA FreeKept ==
    ASSUME StagedFree, DOMAIN files' \subseteq DOMAIN files,
           \A p \in Process : pc'[p] = "staged" =>
               pc[p] = "staged" /\ work'[p] = work[p] /\ (p \in started => p \in started')
    PROVE  StagedFree'
  BY DEF StagedFree

\* What the calls do to the steps of the others.
LEMMA OthersKept ==
    ASSUME TypeInv, NEW p \in Process, NEW s, s # "staged",
           pc' = [pc EXCEPT ![p] = s],
           \/ UNCHANGED work
           \/ \E m : work' = [work EXCEPT ![p] = m]
    PROVE  \A q \in Process : pc'[q] = "staged" =>
               q # p /\ pc[q] = "staged" /\ work'[q] = work[q]
  BY DEF TypeInv, LockType

LEMMA CallingFree ==
    ASSUME TypeInv, StagedFree, Locked, NEW p \in Process, Calling(p)
    PROVE  StagedFree'
<1>1. ASSUME NEW x \in Path, BeginWrite(p, x), ~Taken(x)
      PROVE  StagedFree'
  <2>1. /\ pc' = [pc EXCEPT ![p] = "staged"]
        /\ work' = [work EXCEPT ![p] = [Nothing EXCEPT !.paths = {x}, !.mtime = clock',
                                                       !.author = writes']]
        /\ UNCHANGED <<files, started>> /\ p \in started
    BY <1>1 DEF BeginWrite, Step, Idle, initVars
  <2>2. work'[p].paths = {x}
    BY <2>1 DEF TypeInv, Nothing
  <2>3. x \notin DOMAIN files
    BY <1>1 DEF Taken
  <2>4. ASSUME NEW q \in Process, q # p, pc'[q] = "staged"
        PROVE  q \in started' /\ \A y \in work'[q].paths : y \notin DOMAIN files'
    <3>1. pc[q] = "staged" /\ work'[q] = work[q]
      BY <2>1, <2>4 DEF TypeInv, LockType
    <3> QED
      BY <2>1, <3>1 DEF StagedFree
  <2> QED
    BY <2>1, <2>2, <2>3, <2>4 DEF StagedFree
<1>2. CASE CommitWrite(p)
  <2>1. pc' = [pc EXCEPT ![p] = "idle"] /\ work' = [work EXCEPT ![p] = Nothing]
        /\ pc[p] = "staged"
    BY <1>2 DEF CommitWrite, Finish, End
  <2>2. ASSUME NEW q \in Process, pc'[q] = "staged" PROVE FALSE
    <3>1. q # p /\ pc[q] = "staged"
      BY <2>1, <2>2 DEF TypeInv, LockType
    <3> QED
      BY <3>1, <2>1, OneCall
  <2> QED
    BY <2>2 DEF StagedFree
<1>3. ASSUME UNCHANGED files, NEW s, s # "staged", pc' = [pc EXCEPT ![p] = s],
             UNCHANGED work \/ (\E m : work' = [work EXCEPT ![p] = m]),
             started \ {p} \subseteq started'
      PROVE  StagedFree'
  <2>1. \A q \in Process : pc'[q] = "staged" =>
            q # p /\ pc[q] = "staged" /\ work'[q] = work[q]
    BY <1>3, OthersKept
  <2> QED
    BY <1>3, <2>1, FreeKept
<1>4. CASE StartUp(p)
  <2>1. UNCHANGED <<files, work>> /\ pc' = [pc EXCEPT ![p] = "idle"] /\ started \subseteq started'
    BY <1>4 DEF StartUp, Startup, End, storeVars
  <2> QED
    BY <2>1, <1>3
<1>5. ASSUME NEW x \in Path, LoadRecord(p, x) PROVE StagedFree'
  <2>1. UNCHANGED <<files, work, started>> /\ pc' = [pc EXCEPT ![p] = "idle"]
    BY <1>5 DEF LoadRecord, End, storeVars, initVars
  <2> QED
    BY <2>1, <1>3
<1>6. CASE Leave(p)
  <2>1. UNCHANGED <<files, work, pc>> /\ pc[p] = "idle" /\ started' = started \ {p}
    BY <1>6 DEF Leave, storeVars, Idle
  <2> QED
    BY <2>1, FreeKept
<1>7. ASSUME NEW a, Finish(p, a), UNCHANGED files, started \ {p} \subseteq started'
      PROVE  StagedFree'
  <2>1. pc' = [pc EXCEPT ![p] = "idle"] /\ work' = [work EXCEPT ![p] = Nothing]
    BY <1>7 DEF Finish, End
  <2> QED
    BY <2>1, <1>7, <1>3
<1>8. ASSUME NEW s, s # "staged", NEW m, Step(p, s, m), UNCHANGED <<files, started>>
      PROVE  StagedFree'
  <2>1. pc' = [pc EXCEPT ![p] = s] /\ work' = [work EXCEPT ![p] = m]
    BY <1>8 DEF Step
  <2> QED
    BY <2>1, <1>8, <1>3
<1>9. CASE \E x \in Path : BeginWrite(p, x) /\ Taken(x)
  BY <1>9, <1>7 DEF BeginWrite, initVars
<1>10. CASE WriteFails(p) \/ PublishIndex(p) \/ Crash(p)
  BY <1>10, <1>7 DEF WriteFails, PublishIndex, Crash, initVars
<1>11. CASE BeginEnsure(p) \/ BeginRebuild(p)
  BY <1>11, <1>8 DEF BeginEnsure, BeginRebuild, initVars
<1>12. CASE CompareTimes(p)
  BY <1>12, <1>7, <1>8 DEF CompareTimes, initVars
<1>13. CASE Discover(p)
  BY <1>13, <1>7, <1>8 DEF Discover, initVars
<1>14. CASE WriteDatabase(p)
  BY <1>14, <1>7, <1>8 DEF WriteDatabase, initVars
<1> QED
  BY <1>1, <1>2, <1>4, <1>5, <1>6, <1>9, <1>10, <1>11, <1>12, <1>13, <1>14 DEF Calling

LEMMA StepFree ==
    ASSUME TypeInv, StagedFree, Locked, [Next]_vars
    PROVE  StagedFree'
<1>1. CASE UNCHANGED vars
  BY <1>1 DEF vars, storeVars, initVars, StagedFree
<1>2. CASE Initialising
  <2>1. UNCHANGED <<files, work, started>>
    BY <1>2 DEF Initialising, RunInit, Decline, Confirm, ConfigEdited, RegistryEdited,
                storeVars, initVars
  <2>2. \/ UNCHANGED pc
        \/ \E p \in Process, s \in {"idle", "prompt"} : pc' = [pc EXCEPT ![p] = s]
    BY <1>2 DEF Initialising, RunInit, Decline, Confirm, ConfigEdited, RegistryEdited, End
  <2>3. \A p \in Process : pc'[p] = "staged" => pc[p] = "staged"
    BY <2>2 DEF TypeInv, LockType
  <2> QED
    BY <2>1, <2>3, FreeKept
<1>3. ASSUME NEW p \in Process, Calling(p) PROVE StagedFree'
  BY <1>3, CallingFree
<1>4. CASE UserStep
  <2>1. UNCHANGED <<work, pc, started>>
    BY <1>4 DEF UserStep, EditRecord, DeleteRecord, LoseIndex, CopyForeign,
                ChangeInitialized, MonthTurns, userVars, initVars
  <2>2. CASE CopyForeign
    BY <2>1, <2>2 DEF CopyForeign, StagedFree
  <2>3. CASE ~CopyForeign
    <3>1. DOMAIN files' \subseteq DOMAIN files
      BY <1>4, <2>3 DEF UserStep, EditRecord, DeleteRecord, LoseIndex,
                        ChangeInitialized, MonthTurns
    <3> QED
      BY <2>1, <3>1, FreeKept
  <2> QED
    BY <2>2, <2>3
<1> QED
  BY <1>1, <1>2, <1>3, <1>4 DEF Next

\* A step replaces no record.
LEMMA StepKeepsAuthors ==
    ASSUME TypeInv, StagedFree, [Next]_vars,
           NEW x \in DOMAIN files \cap DOMAIN files'
    PROVE  files'[x].author = files[x].author
<1>1. CASE files' = files
  BY <1>1
<1>2. ASSUME NEW p \in Process, CommitWrite(p)
      PROVE  files'[x] = files[x]
  <2>1. PICK y \in work[p].paths :
           files' = [z \in DOMAIN files \cup {y} |->
                        IF z = y THEN [author |-> work[p].author, namespace |-> "ours",
                                       mtime |-> work[p].mtime, edit |-> "none"]
                        ELSE files[z]]
    BY <1>2 DEF CommitWrite
  <2>2. y \notin DOMAIN files
    BY <1>2, <2>1 DEF CommitWrite, StagedFree
  <2> QED
    BY <2>1, <2>2
<1>3. ASSUME NEW y \in Path, EditRecord(y)
      PROVE  files'[x].author = files[x].author
  <2>1. PICK edit \in {"notes", "payload"} :
           files' = [files EXCEPT ![y].edit = edit, ![y].mtime = clock']
    BY <1>3 DEF EditRecord
  <2>2. files[x] \in Record
    BY DEF TypeInv, FileType
  <2> QED
    BY <2>1, <2>2 DEF Record
<1>4. ASSUME NEW y \in Path, DeleteRecord(y)
      PROVE  files'[x] = files[x]
  BY <1>4 DEF DeleteRecord
<1>5. CASE CopyForeign
  BY <1>5 DEF CopyForeign
<1>6. ASSUME NEW p \in Process, Calling(p), ~CommitWrite(p)
      PROVE  files' = files
  BY <1>6 DEF Calling, StartUp, BeginWrite, LoadRecord, WriteFails, BeginEnsure, CompareTimes,
              BeginRebuild, Discover, WriteDatabase, PublishIndex, Crash, Leave, storeVars
<1>7. CASE Initialising
  BY <1>7, <1>1 DEF Initialising, storeVars
<1>8. CASE UNCHANGED vars
  BY <1>8, <1>1 DEF vars, storeVars
<1>9. CASE UserStep
  BY <1>9, <1>1, <1>3, <1>4, <1>5 DEF UserStep, LoseIndex, ChangeInitialized, MonthTurns
<1> QED
  BY <1>1, <1>2, <1>6, <1>7, <1>8, <1>9 DEF Next

(***************************************************************************)
(* Under the lock no record is ever replaced by another write, for any     *)
(* number of agents, crashes and failed writes and whatever the user does  *)
(* to the files meanwhile (fs_memory.py:1353-1414).                        *)
(***************************************************************************)
THEOREM RecordsStay == Locked => (Spec => RecordsImmutable)
<1> SUFFICES ASSUME Locked PROVE Spec => RecordsImmutable
  OBVIOUS
<1>1. Init => TypeInv /\ StagedFree
  BY InitialTypes DEF Init, InitialisationInit, StagedFree
<1>2. TypeInv /\ StagedFree /\ [Next]_vars => (TypeInv /\ StagedFree)'
  BY StepTypes, StepFree
<1>3. TypeInv /\ StagedFree /\ [Next]_vars =>
        [\A x \in DOMAIN files \cap DOMAIN files' :
            files'[x].author = files[x].author]_files
  BY StepKeepsAuthors
<1> QED
  BY <1>1, <1>2, <1>3, PTL DEF Spec, RecordsImmutable

-----------------------------------------------------------------------------
(* The index *)

Inside(p) == pc[p] \notin {"idle", "prompt"}

\* Nobody runs over files of another project, and a file that is not newer than
\* the index has its row in it, as it was written: every other way to get or to
\* change a file takes it past the time of the index.
IndexSound ==
    /\ IsFiniteSet(DOMAIN files)
    /\ started # {} => \A x \in TrialPaths : AtHome(x)
    /\ index # NoIndex =>
           /\ IsFiniteSet(index.rows)
           /\ index.mtime <= clock
           /\ \A x \in TrialPaths :
                  files[x].mtime <= index.mtime => RowOf(x) \in index.rows /\ Intact(x, files[x])

\* What a call has in memory is not behind the files: it may list some that are
\* gone, and lacks none.
CallSound(p) ==
    /\ Inside(p) => p \in started
    /\ IsFiniteSet(work[p].rows) /\ work[p].mtime <= clock
    /\ pc[p] = "staged" /\ index # NoIndex => index.mtime < work[p].mtime
    /\ pc[p] \in {"stats", "rows", "database"} =>
           TrialPaths \subseteq work[p].paths /\ \A x \in work[p].paths : x.kind = "trial"
    /\ pc[p] = "stats" => \/ index = NoIndex \/ ~index.sound
                          \/ Cardinality(index.rows) = Cardinality(work[p].paths)
    /\ pc[p] \in {"rows", "database"} =>
           \A x \in TrialPaths : RowOf(x) \in work[p].rows /\ Intact(x, files[x])

CallsSound == \A p \in Process : CallSound(p)

\* What holds as long as the user has changed nothing.
PlainFiles == \A x \in DOMAIN files : files[x].namespace = "ours" /\ files[x].edit = "none"

Undisturbed(p) ==
    /\ pc[p] \in {"stats", "rows", "database"} => work[p].paths \subseteq DOMAIN files
    /\ pc[p] = "stats" => index # NoIndex /\ index.sound

Untouched ==
    /\ edits \in Nat
    /\ edits = 0 => PlainFiles /\ \A p \in Process : Undisturbed(p)

StoreSound == IndexSound /\ CallsSound /\ Untouched

LEMMA FiniteRows ==
    ASSUME IsFiniteSet(DOMAIN files)
    PROVE  IsFiniteSet(Rows(TrialPaths))
<1>1. IsFiniteSet(TrialPaths)
  BY FS_Subset, TrialPaths \subseteq DOMAIN files DEF TrialPaths
<1> DEFINE f == [x \in TrialPaths |-> RowOf(x)]
<1>2. f \in Bijection(TrialPaths, Rows(TrialPaths))
  BY DEF Bijection, Injection, Surjection, IsInjective, Rows, RowOf
<1> QED
  BY <1>1, <1>2, FS_Bijection DEF ExistsBijection

\* An index that has a row for every trial and as many rows as there are trials
\* has the rows of the trials and no others.
LEMMA CountedRows ==
    ASSUME NEW rows, IsFiniteSet(rows), Cardinality(rows) = Cardinality(TrialPaths),
           \A x \in TrialPaths : RowOf(x) \in rows
    PROVE  rows = Rows(TrialPaths)
<1> DEFINE f == [x \in TrialPaths |-> RowOf(x)]
<1>1. f \in Injection(TrialPaths, rows)
  BY DEF Injection, IsInjective, RowOf
<1>2. f \in Surjection(TrialPaths, rows)
  BY <1>1, FS_Injection
<1>3. \A r \in rows : \E x \in TrialPaths : f[x] = r
  BY <1>2 DEF Surjection
<1> QED
  BY <1>3 DEF Rows

LEMMA SoundInit == Init => StoreSound
<1> SUFFICES ASSUME Init PROVE StoreSound
  OBVIOUS
<1>1. DOMAIN files = {} /\ index = NoIndex /\ started = {} /\ clock = 1
  BY DEF Init, InitialisationInit
<1>2. \A p \in Process : pc[p] = "idle" /\ work[p] = Nothing
  BY DEF Init, InitialisationInit
<1>3. IsFiniteSet({}) /\ Nothing.rows = {} /\ Nothing.mtime = 0
  BY FS_EmptySet DEF Nothing
<1>4. IndexSound
  BY <1>1, <1>3 DEF IndexSound
<1>5. CallsSound
  <2>1. ASSUME NEW p \in Process PROVE work[p].mtime <= clock
    <3>1. work[p].mtime = 0
      BY <1>2, <1>3
    <3> QED
      BY <1>1, <3>1
  <2>2. \A p \in Process : IsFiniteSet(work[p].rows)
    BY <1>2, <1>3
  <2> QED
    BY <1>2, <2>1, <2>2 DEF CallsSound, CallSound, Inside
<1>6. Untouched
  <2>1. edits = 0
    BY DEF Init, InitialisationInit
  <2> QED
    BY <1>1, <1>2, <2>1 DEF Untouched, PlainFiles, Undisturbed
<1> QED
  BY <1>4, <1>5, <1>6 DEF StoreSound

\* Who takes the lock, or has it, is alone.
LEMMA NobodyElse ==
    ASSUME TypeInv, Locked, NEW p \in Process, lock = Nobody \/ Inside(p),
           NEW s, pc' = [pc EXCEPT ![p] = s]
    PROVE  /\ pc'[p] = s
           /\ \A q \in Process : q # p => pc'[q] \in {"idle", "prompt"}
<1>1. pc \in [Process -> Answering]
  BY DEF TypeInv, LockType
<1>2. \A q \in Process : lock = q <=> Inside(q)
  BY DEF TypeInv, LockType, Inside
<1>3. \A q \in Process : q # p => ~Inside(q)
  BY <1>2
<1> QED
  BY <1>1, <1>3 DEF Inside

\* A call ends, with no files or index changed or with its changes made.
LEMMA Finishing ==
    ASSUME TypeInv, Locked, CallsSound, NEW p \in Process, lock = Nobody \/ Inside(p),
           NEW a, Finish(p, a), clock' = clock
    PROVE  /\ CallsSound'
           /\ \A q \in Process : pc'[q] \in {"idle", "prompt"}
<1>1. pc' = [pc EXCEPT ![p] = "idle"] /\ work' = [work EXCEPT ![p] = Nothing]
  BY DEF Finish, End
<1>2. \A q \in Process : pc'[q] \in {"idle", "prompt"}
  BY <1>1, NobodyElse
<1>3. \A q \in Process : IsFiniteSet(work'[q].rows) /\ work'[q].mtime <= clock'
  <2> SUFFICES ASSUME NEW q \in Process
               PROVE  IsFiniteSet(work'[q].rows) /\ work'[q].mtime <= clock'
    OBVIOUS
  <2>1. CASE q = p
    <3>1. work'[q] = Nothing
      BY <1>1, <2>1 DEF TypeInv
    <3>2. IsFiniteSet(Nothing.rows) /\ Nothing.mtime = 0 /\ clock \in Nat
      BY FS_EmptySet DEF Nothing, TypeInv
    <3> QED
      BY <3>1, <3>2
  <2>2. CASE q # p
    BY <1>1, <2>2 DEF TypeInv, CallsSound, CallSound
  <2> QED
    BY <2>1, <2>2
<1> QED
  BY <1>2, <1>3 DEF CallsSound, CallSound, Inside

\* A call that is left alone, or ends, while no file changes.
LEMMA CallStays ==
    ASSUME TypeInv, NEW q \in Process, CallSound(q), UNCHANGED <<files, index>>,
           clock' \in {clock, clock + 1},
           work'[q] \in {work[q], Nothing},
           \/ pc'[q] \in {"idle", "prompt"}
           \/ pc'[q] = pc[q] /\ work'[q] = work[q] /\ (q \in started => q \in started')
    PROVE  CallSound(q)'
<1>1. IsFiniteSet(work'[q].rows) /\ work'[q].mtime <= clock'
  <2>1. IsFiniteSet(Nothing.rows) /\ Nothing.mtime = 0
    BY FS_EmptySet DEF Nothing
  <2>2. IsFiniteSet(work[q].rows) /\ work[q].mtime <= clock
    BY DEF CallSound
  <2>3. clock \in Nat /\ work[q].mtime \in Nat
    BY DEF TypeInv, Memory
  <2> QED
    BY <2>1, <2>2, <2>3
<1>2. CASE pc'[q] \in {"idle", "prompt"}
  BY <1>1, <1>2 DEF CallSound, Inside
<1>3. CASE pc'[q] = pc[q] /\ work'[q] = work[q] /\ (q \in started => q \in started')
  <2>1. TrialPaths' = TrialPaths /\ \A x : RowOf(x)' = RowOf(x)
    BY DEF TrialPaths, RowOf
  <2> QED
    BY <1>1, <1>3, <2>1 DEF CallSound, Inside
<1> QED
  BY <1>2, <1>3

LEMMA IndexStays ==
    ASSUME TypeInv, IndexSound, UNCHANGED <<files, index>>, clock' \in {clock, clock + 1},
           started' # {} => started # {} \/ \A x \in TrialPaths : AtHome(x)
    PROVE  IndexSound'
<1>1. TrialPaths' = TrialPaths /\ (\A x : RowOf(x)' = RowOf(x)) /\ (\A x : AtHome(x)' = AtHome(x))
  BY DEF TrialPaths, RowOf, AtHome
<1>2. clock \in Nat /\ (index # NoIndex => index.mtime \in Nat)
  BY DEF TypeInv, Index
<1> QED
  BY <1>1, <1>2 DEF IndexSound

LEMMA UndisturbedStays ==
    ASSUME NEW q \in Process, Undisturbed(q), UNCHANGED <<files, index>>,
           \/ pc'[q] \in {"idle", "prompt"}
           \/ pc'[q] = pc[q] /\ work'[q] = work[q]
    PROVE  Undisturbed(q)'
  BY DEF Undisturbed

\* Steps that change no file and no index.
LEMMA StillSteps ==
    ASSUME TypeInv, StoreSound, UNCHANGED <<files, index>>, clock' \in {clock, clock + 1},
           started' # {} => started # {} \/ \A x \in TrialPaths : AtHome(x),
           edits' \in {edits, edits + 1},
           \A q \in Process :
               \/ /\ work'[q] \in {work[q], Nothing}
                  /\ \/ pc'[q] \in {"idle", "prompt"}
                     \/ pc'[q] = pc[q] /\ work'[q] = work[q] /\ (q \in started => q \in started')
               \/ CallSound(q)' /\ (edits = 0 => Undisturbed(q)')
    PROVE  StoreSound'
<1>1. IndexSound'
  BY IndexStays DEF StoreSound
<1>2. ASSUME NEW q \in Process PROVE CallSound(q)'
  <2>1. CallSound(q)
    BY DEF StoreSound, CallsSound
  <2> QED
    BY <2>1, CallStays
<1>3. Untouched'
  <2>1. edits \in Nat
    BY DEF StoreSound, Untouched
  <2>2. CASE edits' = edits + 1
    BY <2>1, <2>2 DEF Untouched
  <2>3. CASE edits' = edits
    <3>1. edits = 0 => \A q \in Process : Undisturbed(q)
      BY DEF StoreSound, Untouched
    <3>2. ASSUME edits = 0, NEW q \in Process PROVE Undisturbed(q)'
      BY <3>1, <3>2, UndisturbedStays
    <3>3. edits = 0 => PlainFiles'
      BY DEF StoreSound, Untouched, PlainFiles
    <3> QED
      BY <2>1, <2>3, <3>2, <3>3 DEF Untouched
  <2> QED
    BY <2>2, <2>3
<1> QED
  BY <1>1, <1>2, <1>3 DEF StoreSound, CallsSound

LEMMA FinishingStill ==
    ASSUME TypeInv, StoreSound, NEW p \in Process, NEW a, Finish(p, a),
           UNCHANGED <<files, index, clock, edits>>,
           started \ {p} \subseteq started', started' \subseteq started
    PROVE  StoreSound'
<1>1. pc' = [pc EXCEPT ![p] = "idle"] /\ work' = [work EXCEPT ![p] = Nothing]
  BY DEF Finish, End
<1>2. pc \in [Process -> Answering] /\ work \in [Process -> Memory]
  BY DEF TypeInv, LockType
<1>3. ASSUME NEW q \in Process
      PROVE  /\ work'[q] \in {work[q], Nothing}
             /\ \/ pc'[q] \in {"idle", "prompt"}
                \/ pc'[q] = pc[q] /\ work'[q] = work[q] /\ (q \in started => q \in started')
  BY <1>1, <1>2
<1> QED
  BY <1>3, StillSteps

LEMMA SteppingStill ==
    ASSUME TypeInv, StoreSound, NEW p \in Process, NEW s, NEW m, Step(p, s, m),
           UNCHANGED <<files, index, edits, started>>, clock' \in {clock, clock + 1},
           pc'[p] = s /\ work'[p] = m => CallSound(p)' /\ (edits = 0 => Undisturbed(p)')
    PROVE  StoreSound'
<1>1. pc' = [pc EXCEPT ![p] = s] /\ work' = [work EXCEPT ![p] = m]
  BY DEF Step
<1>2. pc \in [Process -> Answering] /\ work \in [Process -> Memory]
  BY DEF TypeInv, LockType
<1>3. pc'[p] = s /\ work'[p] = m
  BY <1>1, <1>2
<1>4. ASSUME NEW q \in Process, q # p
      PROVE  /\ work'[q] \in {work[q], Nothing}
             /\ pc'[q] = pc[q] /\ work'[q] = work[q] /\ (q \in started => q \in started')
  BY <1>1, <1>2, <1>4
<1> QED
  BY <1>3, <1>4, StillSteps

LEMMA CallingSound ==
    ASSUME TypeInv, Locked, StoreSound, NEW p \in Process, Calling(p)
    PROVE  StoreSound'
<1>0. /\ IndexSound /\ CallSound(p) /\ Untouched /\ clock \in Nat
      /\ index \in Index \cup {NoIndex} /\ work[p] \in Memory
      /\ pc \in [Process -> Answering] /\ work \in [Process -> Memory]
  BY DEF StoreSound, CallsSound, TypeInv, LockType
<1>a. TrialPaths \subseteq Path /\ IsFiniteSet(Rows(TrialPaths))
  BY FiniteRows DEF IndexSound, StoreSound, TypeInv, FileType, TrialPaths
<1>b. IsFiniteSet(Nothing.rows) /\ Nothing.mtime = 0
  BY FS_EmptySet DEF Nothing
<1>1. CASE StartUp(p) \/ Leave(p) \/ (\E x \in Path : LoadRecord(p, x))
  <2>1. UNCHANGED storeVars /\ pc[p] = "idle" /\ UNCHANGED edits
    BY <1>1 DEF StartUp, Startup, Leave, LoadRecord, Idle, initVars
  <2>2. pc' = [pc EXCEPT ![p] = "idle"] \/ UNCHANGED pc
    BY <1>1 DEF StartUp, Startup, Leave, LoadRecord, End
  <2>3. started \ {p} \subseteq started'
        /\ (started' \subseteq started \/ \A x \in TrialPaths : AtHome(x))
    <3>1. CASE StartUp(p)
      BY <3>1 DEF StartUp, Startup, MayStart, Accepted, AtHome
    <3>2. CASE Leave(p)
      BY <3>2 DEF Leave
    <3>3. ASSUME NEW x, LoadRecord(p, x)
          PROVE  started' = started
      BY <3>3 DEF LoadRecord, initVars
    <3> QED
      BY <1>1, <3>1, <3>2, <3>3
  <2>4. ASSUME NEW q \in Process
        PROVE  /\ work'[q] = work[q]
               /\ \/ pc'[q] \in {"idle", "prompt"}
                  \/ pc'[q] = pc[q] /\ (q \in started => q \in started')
    BY <1>0, <2>1, <2>2, <2>3 DEF storeVars
  <2> QED
    BY <2>1, <2>3, <2>4, StillSteps DEF storeVars
<1>2. ASSUME NEW x \in Path, BeginWrite(p, x) PROVE StoreSound'
  <2>1. UNCHANGED <<files, index, edits, started>>
    BY <1>2 DEF BeginWrite, initVars
  <2>2. CASE \E a : Finish(p, a) /\ UNCHANGED clock
    BY <2>1, <2>2, FinishingStill
  <2>3. CASE ~Taken(x)
    <3>1. PICK m : m = [Nothing EXCEPT !.paths = {x}, !.mtime = clock', !.author = writes']
      OBVIOUS
    <3>2. clock' = clock + 1 /\ Step(p, "staged", m) /\ p \in started
      BY <1>2, <2>3, <3>1 DEF BeginWrite, Idle
    <3>3. m.rows = {} /\ m.mtime = clock'
      BY <3>1 DEF Nothing
    <3>4. index # NoIndex => index.mtime < clock' /\ index.mtime \in Nat
      BY <1>0, <3>2 DEF IndexSound, Index
    <3>5. ASSUME pc'[p] = "staged", work'[p] = m
          PROVE  CallSound(p)' /\ Undisturbed(p)'
      BY <1>0, <2>1, <3>2, <3>3, <3>4, <3>5, FS_EmptySet DEF CallSound, Undisturbed, Inside
    <3> QED
      BY <2>1, <3>2, <3>5, SteppingStill
  <2> QED
    BY <1>2, <2>2, <2>3 DEF BeginWrite
<1>3. CASE BeginEnsure(p) \/ BeginRebuild(p)
  <2>1. UNCHANGED <<files, index, clock, edits, started>> /\ p \in started
    BY <1>3 DEF BeginEnsure, BeginRebuild, initVars, Idle
  <2>2. CASE BeginRebuild(p)
    <3>1. Step(p, "discover", Nothing)
      BY <2>2 DEF BeginRebuild
    <3>2. ASSUME pc'[p] = "discover", work'[p] = Nothing
          PROVE  CallSound(p)' /\ Undisturbed(p)'
      BY <1>0, <1>b, <2>1, <3>2 DEF CallSound, Undisturbed, Inside
    <3> QED
      BY <2>1, <3>1, <3>2, SteppingStill
  <2>3. CASE BeginEnsure(p)
    <3>1. PICK m : m = [Nothing EXCEPT !.paths = TrialPaths]
      OBVIOUS
    <3>2. PICK s : s = IF Countable THEN "stats" ELSE "discover"
      OBVIOUS
    <3>3. Step(p, s, m)
      BY <2>3, <3>1, <3>2 DEF BeginEnsure
    <3>4. m.paths = TrialPaths /\ m.rows = {} /\ m.mtime = 0
      BY <3>1 DEF Nothing
    <3>5. TrialPaths' = TrialPaths /\ \A x \in TrialPaths : x.kind = "trial" /\ x \in DOMAIN files
      BY <2>1 DEF TrialPaths
    <3>6. s = "stats" => /\ index # NoIndex /\ index.sound
                         /\ Cardinality(index.rows) = Cardinality(TrialPaths)
      BY <3>2 DEF Countable
    <3>7. s \in {"stats", "discover"}
      BY <3>2
    <3>8. ASSUME pc'[p] = s, work'[p] = m
          PROVE  CallSound(p)' /\ Undisturbed(p)'
      <4>1. CallSound(p)'
        <5>1. IsFiniteSet(work'[p].rows) /\ work'[p].mtime <= clock'
          BY <1>0, <2>1, <3>4, <3>8, FS_EmptySet
        <5>2. TrialPaths' \subseteq work'[p].paths /\ \A x \in work'[p].paths : x.kind = "trial"
          BY <3>4, <3>5, <3>8
        <5>3. /\ pc'[p] \in {"stats", "discover"} /\ p \in started'
              /\ pc'[p] = "stats" =>
                    /\ index' # NoIndex /\ index'.sound
                    /\ Cardinality(index'.rows) = Cardinality(TrialPaths')
          BY <2>1, <3>5, <3>6, <3>7, <3>8
        <5> QED
          BY <5>1, <5>2, <5>3, <3>4, <3>5, <3>8 DEF CallSound, Inside
      <4>2. Undisturbed(p)'
        BY <2>1, <3>4, <3>5, <3>6, <3>7, <3>8 DEF Undisturbed
      <4> QED
        BY <4>1, <4>2
    <3> QED
      BY <2>1, <3>3, <3>8, SteppingStill
  <2> QED
    BY <1>3, <2>2, <2>3
<1>4. CASE CompareTimes(p)
  <2>1. UNCHANGED <<files, index, clock, edits, started>> /\ pc[p] = "stats"
    BY <1>4 DEF CompareTimes, initVars
  <2>2. CASE \E a : Finish(p, a)
    BY <2>1, <2>2, FinishingStill
  <2>3. CASE Step(p, "discover", Nothing)
    <3>1. p \in started
      BY <1>0, <2>1 DEF CallSound, Inside
    <3>2. ASSUME pc'[p] = "discover", work'[p] = Nothing
          PROVE  CallSound(p)' /\ Undisturbed(p)'
      BY <1>0, <1>b, <2>1, <3>1, <3>2 DEF CallSound, Undisturbed, Inside
    <3> QED
      BY <2>1, <2>3, <3>2, SteppingStill
  <2> QED
    BY <1>4, <2>2, <2>3 DEF CompareTimes
<1>5. CASE Discover(p)
  <2>1. UNCHANGED <<files, index, clock, edits, started>> /\ pc[p] = "discover"
    BY <1>5 DEF Discover, initVars
  <2>2. CASE \E a : Finish(p, a)
    BY <2>1, <2>2, FinishingStill
  <2>3. CASE Discoverable
    <3>1. PICK m : m = [Nothing EXCEPT !.paths = TrialPaths, !.rows = Rows(TrialPaths)]
      OBVIOUS
    <3>2. Step(p, "rows", m)
      BY <1>5, <2>3, <3>1 DEF Discover
    <3>3. m.paths = TrialPaths /\ m.rows = Rows(TrialPaths) /\ m.mtime = 0
      BY <3>1 DEF Nothing
    <3>4. /\ TrialPaths' = TrialPaths /\ (\A x : RowOf(x)' = RowOf(x))
          /\ \A x \in TrialPaths : x.kind = "trial" /\ x \in DOMAIN files
      BY <2>1 DEF TrialPaths, RowOf
    <3>5. \A x \in TrialPaths : RowOf(x) \in m.rows /\ Intact(x, files[x])
      BY <2>3, <3>3 DEF Discoverable, LoadsHere, Rows
    <3>6. p \in started
      BY <1>0, <2>1 DEF CallSound, Inside
    <3>7. ASSUME pc'[p] = "rows", work'[p] = m
          PROVE  CallSound(p)' /\ Undisturbed(p)'
      <4>1. CallSound(p)'
        <5>1. IsFiniteSet(work'[p].rows) /\ work'[p].mtime <= clock'
          BY <1>0, <1>a, <2>1, <3>3, <3>7
        <5>2. TrialPaths' \subseteq work'[p].paths /\ \A x \in work'[p].paths : x.kind = "trial"
          BY <3>3, <3>4, <3>7
        <5>3. \A x \in TrialPaths' : RowOf(x)' \in work'[p].rows /\ Intact(x, files'[x])
          BY <2>1, <3>4, <3>5, <3>7
        <5> QED
          BY <2>1, <3>6, <3>7, <5>1, <5>2, <5>3 DEF CallSound, Inside
      <4>2. Undisturbed(p)'
        BY <2>1, <3>3, <3>4, <3>7 DEF Undisturbed
      <4> QED
        BY <4>1, <4>2
    <3> QED
      BY <2>1, <3>2, <3>7, SteppingStill
  <2> QED
    BY <1>5, <2>2, <2>3 DEF Discover
<1>6. CASE WriteDatabase(p)
  <2>1. UNCHANGED <<files, index, clock, edits, started>> /\ pc[p] = "rows"
    BY <1>6 DEF WriteDatabase, initVars
  <2>2. CASE \E a : Finish(p, a)
    BY <2>1, <2>2, FinishingStill
  <2>3. CASE Step(p, "database", [work[p] EXCEPT !.mtime = clock])
    <3>1. PICK m : m = [work[p] EXCEPT !.mtime = clock]
      OBVIOUS
    <3>2. m.paths = work[p].paths /\ m.rows = work[p].rows /\ m.mtime = clock
      BY <1>0, <3>1 DEF Memory
    <3>3. TrialPaths' = TrialPaths /\ \A x : RowOf(x)' = RowOf(x)
      BY <2>1 DEF TrialPaths, RowOf
    <3>4. ASSUME pc'[p] = "database", work'[p] = m
          PROVE  CallSound(p)' /\ (edits = 0 => Undisturbed(p)')
      <4>1. CallSound(p)'
        BY <1>0, <2>1, <3>2, <3>3, <3>4 DEF CallSound, Inside
      <4>2. edits = 0 => Undisturbed(p)'
        BY <1>0, <2>1, <3>2, <3>4 DEF Untouched, Undisturbed
      <4> QED
        BY <4>1, <4>2
    <3> QED
      BY <2>1, <2>3, <3>1, <3>4, SteppingStill
  <2> QED
    BY <1>6, <2>2, <2>3 DEF WriteDatabase
<1>7. CASE WriteFails(p) \/ Crash(p)
  <2>1. UNCHANGED <<files, index, clock, edits>>
    BY <1>7 DEF WriteFails, Crash, initVars
  <2>2. (\E a : Finish(p, a)) /\ started \ {p} \subseteq started' /\ started' \subseteq started
    BY <1>7 DEF WriteFails, Crash, initVars
  <2> QED
    BY <2>1, <2>2, FinishingStill
<1>8. CASE CommitWrite(p)
  <2>1. PICK x \in work[p].paths :
          files' = [y \in DOMAIN files \cup {x} |->
                       IF y = x THEN [author |-> work[p].author, namespace |-> "ours",
                                      mtime |-> work[p].mtime, edit |-> "none"]
                       ELSE files[y]]
    BY <1>8 DEF CommitWrite
  <2>2. pc[p] = "staged" /\ UNCHANGED <<index, clock, edits, started>> /\ Finish(p, "written")
    BY <1>8 DEF CommitWrite, initVars
  <2>3. CallsSound' /\ \A q \in Process : pc'[q] \in {"idle", "prompt"}
    BY <2>2, Finishing DEF StoreSound, Inside
  <2>4. /\ DOMAIN files' = DOMAIN files \cup {x}
        /\ \A y \in DOMAIN files : y # x => files'[y] = files[y]
        /\ files'[x].namespace = "ours" /\ files'[x].edit = "none"
        /\ files'[x].mtime = work[p].mtime
    BY <2>1
  <2>5. IsFiniteSet(DOMAIN files')
    BY <2>4, FS_AddElement DEF StoreSound, IndexSound
  <2>6. \A y \in TrialPaths' : y = x \/ (y \in TrialPaths /\ y # x /\ files'[y] = files[y])
    BY <2>4 DEF TrialPaths
  <2>7. started # {} => \A y \in TrialPaths' : AtHome(y)'
    BY <1>0, <2>4, <2>6 DEF IndexSound, AtHome
  <2>8. index # NoIndex => index.mtime < work[p].mtime /\ index.mtime \in Nat /\ work[p].mtime \in Nat
    BY <1>0, <2>2 DEF CallSound, Index, Memory
  <2>9. ASSUME index # NoIndex, NEW y \in TrialPaths', files'[y].mtime <= index.mtime
        PROVE  RowOf(y)' \in index.rows /\ Intact(y, files'[y])
    <3>1. y # x
      BY <2>4, <2>8, <2>9
    <3>2. y \in TrialPaths /\ files'[y] = files[y]
      BY <2>6, <3>1
    <3> QED
      BY <1>0, <2>9, <3>2 DEF IndexSound, RowOf
  <2>10. IndexSound'
    BY <1>0, <2>2, <2>5, <2>7, <2>9 DEF IndexSound
  <2>11. Untouched'
    BY <1>0, <2>2, <2>3, <2>4 DEF Untouched, PlainFiles, Undisturbed
  <2> QED
    BY <2>3, <2>10, <2>11 DEF StoreSound
<1>9. CASE PublishIndex(p)
  <2>1. pc[p] = "database" /\ UNCHANGED <<files, clock, edits, started>> /\ Finish(p, "rebuilt")
        /\ index' = [rows |-> work[p].rows, mtime |-> work[p].mtime, sound |-> TRUE]
    BY <1>9 DEF PublishIndex, initVars
  <2>2. CallsSound' /\ \A q \in Process : pc'[q] \in {"idle", "prompt"}
    BY <2>1, Finishing DEF StoreSound, Inside
  <2>3. index'.rows = work[p].rows /\ index'.mtime = work[p].mtime
    BY <2>1
  <2>4. /\ TrialPaths' = TrialPaths /\ (\A x : RowOf(x)' = RowOf(x))
        /\ \A x : AtHome(x)' = AtHome(x)
    BY <2>1 DEF TrialPaths, RowOf, AtHome
  <2>5. \A x \in TrialPaths : RowOf(x) \in index'.rows /\ Intact(x, files[x])
    BY <1>0, <2>1, <2>3 DEF CallSound
  <2>6. IsFiniteSet(index'.rows) /\ index'.mtime <= clock
    BY <1>0, <2>3 DEF CallSound
  <2>7. IndexSound'
    BY <1>0, <2>1, <2>4, <2>5, <2>6 DEF IndexSound
  <2>8. Untouched'
    BY <1>0, <2>1, <2>2 DEF Untouched, PlainFiles, Undisturbed
  <2> QED
    BY <2>2, <2>7, <2>8 DEF StoreSound
<1> QED
  BY <1>1, <1>2, <1>3, <1>4, <1>5, <1>6, <1>7, <1>8, <1>9 DEF Calling

\* The user's edits take a file past the time of the index, his deletions only
\* take away, and he copies another project in while nobody runs.
LEMMA UserSound ==
    ASSUME TypeInv, StoreSound, UserStep
    PROVE  StoreSound'
<1>0. /\ IndexSound /\ CallsSound /\ Untouched /\ clock \in Nat /\ edits \in Nat
      /\ index \in Index \cup {NoIndex}
      /\ pc \in [Process -> Answering] /\ work \in [Process -> Memory]
  BY DEF StoreSound, TypeInv, LockType, Untouched
<1>a. \A q \in Process : work[q].mtime \in Nat
  BY <1>0 DEF Memory
<1>1. ASSUME NEW x \in Path, EditRecord(x) PROVE StoreSound'
  <2>1. /\ UNCHANGED <<index, work, pc, started>> /\ edits' = edits + 1 /\ clock' = clock + 1
        /\ x \in DOMAIN files /\ \A p \in Process : pc[p] \notin {"rows", "database"}
    BY <1>1 DEF EditRecord, UserActs, userVars
  <2>2. PICK edit \in {"notes", "payload"} :
          files' = [files EXCEPT ![x].edit = edit, ![x].mtime = clock']
    BY <1>1 DEF EditRecord
  <2>3. files[x] \in Record
    BY <2>1 DEF TypeInv, FileType
  <2>4. /\ DOMAIN files' = DOMAIN files
        /\ \A y \in DOMAIN files : y # x => files'[y] = files[y]
        /\ files'[x].mtime = clock'
        /\ \A y \in DOMAIN files : /\ files'[y].author = files[y].author
                                   /\ files'[y].namespace = files[y].namespace
    <3>1. files' = [files EXCEPT ![x] = [files[x] EXCEPT !.edit = edit, !.mtime = clock']]
      BY <2>2
    <3>2. LET r == [files[x] EXCEPT !.edit = edit, !.mtime = clock']
          IN  r.mtime = clock' /\ r.author = files[x].author /\ r.namespace = files[x].namespace
      BY <2>3 DEF Record
    <3> QED
      BY <2>1, <3>1, <3>2
  <2>5. TrialPaths' = TrialPaths
    BY <2>4 DEF TrialPaths
  <2>6. \A y \in TrialPaths : AtHome(y)' = AtHome(y) /\ RowOf(y)' = RowOf(y)
    BY <2>4 DEF TrialPaths, AtHome, RowOf
  <2>7. ASSUME index # NoIndex, NEW y \in TrialPaths, files'[y].mtime <= index.mtime
        PROVE  RowOf(y)' \in index.rows /\ Intact(y, files'[y])
    <3>1. index.mtime <= clock /\ index.mtime \in Nat
      BY <1>0, <2>7 DEF IndexSound, Index
    <3>2. y # x
      BY <1>0, <2>1, <2>4, <2>7, <3>1
    <3>3. files'[y] = files[y]
      BY <2>4, <3>2 DEF TrialPaths
    <3> QED
      BY <1>0, <2>6, <2>7, <3>3 DEF IndexSound
  <2>8. index # NoIndex => index.mtime <= clock'
    BY <1>0, <2>1 DEF IndexSound, Index
  <2>9. IndexSound'
    BY <1>0, <2>1, <2>4, <2>5, <2>6, <2>7, <2>8 DEF IndexSound
  <2>10. CallsSound'
    <3>1. \A q \in Process : work'[q].mtime <= clock'
      BY <1>0, <1>a, <2>1 DEF CallsSound, CallSound
    <3> QED
      BY <1>0, <2>1, <2>5, <3>1 DEF CallsSound, CallSound, Inside
  <2>11. Untouched'
    BY <1>0, <2>1 DEF Untouched
  <2> QED
    BY <2>9, <2>10, <2>11 DEF StoreSound
<1>2. ASSUME NEW x \in Path, DeleteRecord(x) PROVE StoreSound'
  <2>1. /\ UNCHANGED <<index, work, pc, started>> /\ edits' = edits + 1 /\ clock' = clock + 1
        /\ files' = [y \in DOMAIN files \ {x} |-> files[y]]
    BY <1>2 DEF DeleteRecord, UserActs, userVars
  <2>2. /\ DOMAIN files' \subseteq DOMAIN files
        /\ \A y \in DOMAIN files' : files'[y] = files[y]
    BY <2>1
  <2>3. /\ TrialPaths' \subseteq TrialPaths
        /\ \A y \in TrialPaths' : /\ files'[y] = files[y]
                                  /\ AtHome(y)' = AtHome(y) /\ RowOf(y)' = RowOf(y)
    BY <2>2 DEF TrialPaths, AtHome, RowOf
  <2>4. IsFiniteSet(DOMAIN files')
    BY <1>0, <2>2, FS_Subset DEF IndexSound
  <2>5. index # NoIndex => index.mtime <= clock'
    BY <1>0, <2>1 DEF IndexSound, Index
  <2>6. IndexSound'
    BY <1>0, <2>1, <2>3, <2>4, <2>5 DEF IndexSound
  <2>7. CallsSound'
    <3>1. \A q \in Process : work'[q].mtime <= clock'
      BY <1>0, <1>a, <2>1 DEF CallsSound, CallSound
    <3> QED
      BY <1>0, <2>1, <2>3, <3>1 DEF CallsSound, CallSound, Inside
  <2>8. Untouched'
    BY <1>0, <2>1 DEF Untouched
  <2> QED
    BY <2>6, <2>7, <2>8 DEF StoreSound
<1>3. CASE LoseIndex
  <2>1. /\ UNCHANGED <<files, clock, work, pc, started>> /\ edits' = edits + 1 /\ index # NoIndex
        /\ index' \in {NoIndex, [index EXCEPT !.sound = FALSE]}
    BY <1>3 DEF LoseIndex, UserActs, userVars
  <2>2. index' = NoIndex \/ (/\ index'.rows = index.rows /\ index'.mtime = index.mtime
                             /\ index'.sound = FALSE)
    BY <1>0, <2>1 DEF Index
  <2>3. /\ TrialPaths' = TrialPaths
        /\ \A y : AtHome(y)' = AtHome(y) /\ RowOf(y)' = RowOf(y)
    BY <2>1 DEF TrialPaths, AtHome, RowOf
  <2>4. IndexSound'
    BY <1>0, <2>1, <2>2, <2>3 DEF IndexSound
  <2>5. CallsSound'
    BY <1>0, <2>1, <2>2, <2>3 DEF CallsSound, CallSound, Inside
  <2>6. Untouched'
    BY <1>0, <2>1 DEF Untouched
  <2> QED
    BY <2>4, <2>5, <2>6 DEF StoreSound
<1>4. CASE CopyForeign
  <2>1. /\ UNCHANGED <<work, pc, started>> /\ edits' = edits + 1 /\ clock' = clock + 1
        /\ started = {}
    BY <1>4 DEF CopyForeign, UserActs
  <2>2. PICK x \in Path :
          /\ files' = [y \in {x} |-> [author |-> 0, namespace |-> "foreign",
                                     mtime |-> clock', edit |-> "none"]]
          /\ index' = [rows |-> {[path |-> x, author |-> 0]}, mtime |-> clock', sound |-> TRUE]
    BY <1>4 DEF CopyForeign
  <2>3. /\ DOMAIN files' = {x} /\ files'[x].author = 0 /\ files'[x].edit = "none"
        /\ index'.rows = {[path |-> x, author |-> 0]} /\ index'.mtime = clock'
    BY <2>2
  <2>4. \A y \in TrialPaths' : y = x /\ RowOf(y)' = [path |-> x, author |-> 0]
    BY <2>3 DEF TrialPaths, RowOf
  <2>5. IndexSound'
    <3>1. IsFiniteSet(DOMAIN files') /\ IsFiniteSet(index'.rows)
      <4>1. PICK row : row = [path |-> x, author |-> 0]
        OBVIOUS
      <4>2. IsFiniteSet({x}) /\ IsFiniteSet({row})
        BY FS_Singleton
      <4>3. DOMAIN files' = {x} /\ index'.rows = {row}
        BY <2>3, <4>1
      <4> QED
        BY <4>2, <4>3
    <3>2. \A y \in TrialPaths' : RowOf(y)' \in index'.rows /\ Intact(y, files'[y])
      BY <2>3, <2>4 DEF Intact
    <3>3. index'.mtime <= clock'
      BY <1>0, <2>1, <2>3
    <3> QED
      BY <2>1, <3>1, <3>2, <3>3 DEF IndexSound
  <2>6. CallsSound'
    <3>1. \A q \in Process : work'[q].mtime <= clock'
      BY <1>0, <1>a, <2>1 DEF CallsSound, CallSound
    <3>2. \A q \in Process : pc[q] \in {"idle", "prompt"}
      BY <1>0, <2>1 DEF CallsSound, CallSound, Inside
    <3> QED
      BY <1>0, <2>1, <3>1, <3>2 DEF CallsSound, CallSound, Inside
  <2>7. Untouched'
    BY <1>0, <2>1 DEF Untouched
  <2> QED
    BY <2>5, <2>6, <2>7 DEF StoreSound
<1>5. CASE ChangeInitialized \/ MonthTurns
  <2>1. UNCHANGED <<files, index, clock, work, pc, started>> /\ edits' \in {edits, edits + 1}
    BY <1>5 DEF ChangeInitialized, MonthTurns, UserActs, initVars
  <2> QED
    BY <2>1, StillSteps
<1> QED
  BY <1>1, <1>2, <1>3, <1>4, <1>5 DEF UserStep

LEMMA StepSound ==
    ASSUME TypeInv, Locked, StoreSound, [Next]_vars
    PROVE  StoreSound'
<1>1. CASE UNCHANGED vars
  <2>1. UNCHANGED <<files, index, clock, work, pc, started, edits>>
    BY <1>1 DEF vars, storeVars, initVars
  <2> QED
    BY <2>1, StillSteps
<1>2. CASE Initialising
  <2>1. UNCHANGED <<files, index, clock, work>>
    BY <1>2 DEF Initialising, storeVars
  <2>2. UNCHANGED started /\ edits' \in {edits, edits + 1}
    BY <1>2 DEF Initialising, RunInit, Decline, Confirm, ConfigEdited, RegistryEdited,
                UserActs, initVars
  <2>3. UNCHANGED pc \/ \E p \in Process, s \in {"idle", "prompt"} : pc' = [pc EXCEPT ![p] = s]
    BY <1>2 DEF Initialising, RunInit, Decline, Confirm, ConfigEdited, RegistryEdited, End
  <2>4. \A q \in Process : pc'[q] \in {"idle", "prompt"} \/ pc'[q] = pc[q]
    BY <2>3 DEF TypeInv, LockType
  <2> QED
    BY <2>1, <2>2, <2>4, StillSteps
<1>3. ASSUME NEW p \in Process, Calling(p) PROVE StoreSound'
  BY <1>3, CallingSound
<1>4. CASE UserStep
  BY <1>4, UserSound
<1> QED
  BY <1>1, <1>2, <1>3, <1>4 DEF Next

\* A process that leaves a call does so by a step of its own.
LEMMA OwnStep ==
    ASSUME TypeInv, [Next]_vars, NEW p \in Process, Inside(p), ~Inside(p)'
    PROVE  \/ CommitWrite(p) \/ WriteFails(p) \/ CompareTimes(p) \/ Discover(p)
           \/ WriteDatabase(p) \/ PublishIndex(p) \/ Crash(p)
<1>0. pc \in [Process -> Answering]
  BY DEF TypeInv, LockType
<1>1. pc' # pc
  BY DEF Inside
<1>2. ~UserStep
  BY <1>1 DEF UserStep, EditRecord, DeleteRecord, LoseIndex, CopyForeign,
              ChangeInitialized, MonthTurns, userVars, initVars
<1>3. ~Initialising
  <2>1. ASSUME NEW q \in Process, RunInit(q) \/ Decline(q) \/ Confirm(q) PROVE FALSE
    <3>1. pc[q] \in {"idle", "prompt"} /\ \E s : pc' = [pc EXCEPT ![q] = s]
      BY <1>1, <2>1 DEF RunInit, Decline, Confirm, End
    <3> QED
      BY <1>0, <3>1 DEF Inside
  <2> QED
    BY <1>1, <2>1 DEF Initialising, ConfigEdited, RegistryEdited
<1>4. PICK q \in Process : Calling(q)
  BY <1>1, <1>2, <1>3 DEF Next, vars
<1>5. \E s : pc' = [pc EXCEPT ![q] = s]
  BY <1>1, <1>4 DEF Calling, StartUp, Startup, BeginWrite, LoadRecord, CommitWrite, WriteFails,
                    BeginEnsure, CompareTimes, BeginRebuild, Discover, WriteDatabase,
                    PublishIndex, Crash, Leave, Finish, End, Step
<1>6. q = p
  BY <1>0, <1>5 DEF Inside
<1> QED
  BY <1>4, <1>6 DEF Calling, StartUp, Startup, BeginWrite, LoadRecord, BeginEnsure, BeginRebuild,
                    Leave, Idle, Inside

(***************************************************************************)
(* Under the lock, whoever is told that the index is current reads from it *)
(* exactly the trials on disk, for any number of agents, trials, crashes   *)
(* and changes of the user (fs_memory.py:1748-1772).                       *)
(***************************************************************************)
THEOREM FreshIsCurrent == Locked => (Spec => FreshMeansCurrent)
<1> SUFFICES ASSUME Locked PROVE Spec => FreshMeansCurrent
  OBVIOUS
<1>1. TypeInv /\ [Next]_vars => TypeInv'
  BY StepTypes
<1>2. TypeInv /\ StoreSound /\ [Next]_vars => StoreSound'
  BY StepSound
<1>3. TypeInv /\ StoreSound /\ [Next]_vars =>
        [\A p \in Process :
            pc[p] = "stats" /\ pc'[p] = "idle" /\ answer' = "current" =>
                /\ index.rows = Rows(TrialPaths)
                /\ Discoverable]_<<pc, answer>>
  <2> SUFFICES ASSUME TypeInv, StoreSound, [Next]_vars, NEW p \in Process,
                      pc[p] = "stats", pc'[p] = "idle", answer' = "current"
               PROVE  index.rows = Rows(TrialPaths) /\ Discoverable
    OBVIOUS
  <2>1. CompareTimes(p)
    <3>1. Inside(p) /\ ~Inside(p)'
      BY DEF Inside
    <3>2. ~Crash(p)
      BY DEF Crash, Finish, End
    <3> QED
      BY <3>1, <3>2, OwnStep DEF CommitWrite, WriteFails, Discover, WriteDatabase, PublishIndex
  <2>2. ~Gone(work[p].paths) /\ index # NoIndex /\ ~Newer(work[p].paths) /\ index.sound
    BY <2>1 DEF CompareTimes, Finish, End, Step, TypeInv, LockType
  <2>3. CallSound(p) /\ IndexSound /\ index \in Index /\ p \in started
    BY <2>2 DEF StoreSound, CallsSound, CallSound, TypeInv, Inside
  <2>4. TrialPaths = work[p].paths
    BY <2>2, <2>3 DEF CallSound, Gone, TrialPaths
  <2>5. \A x \in TrialPaths : files[x].mtime <= index.mtime
    <3>1. \A x \in TrialPaths : files[x].mtime \in Nat /\ ~(files[x].mtime > index.mtime)
      BY <2>2, <2>4 DEF Newer, TrialPaths, TypeInv, FileType, Record
    <3>2. index.mtime \in Nat
      BY <2>3 DEF Index
    <3> QED
      BY <3>1, <3>2
  <2>6. \A x \in TrialPaths : RowOf(x) \in index.rows /\ Intact(x, files[x]) /\ AtHome(x)
    BY <2>2, <2>3, <2>5 DEF IndexSound
  <2>7. Cardinality(index.rows) = Cardinality(TrialPaths)
    BY <2>2, <2>3, <2>4 DEF CallSound
  <2>8. index.rows = Rows(TrialPaths)
    <3>1. PICK rows : rows = index.rows
      OBVIOUS
    <3>2. IsFiniteSet(rows)
      BY <2>2, <2>3, <3>1 DEF IndexSound
    <3> QED
      BY <2>6, <2>7, <3>1, <3>2, CountedRows
  <2> QED
    BY <2>6, <2>8 DEF Discoverable, LoadsHere
<1> QED
  BY InitialTypes, SoundInit, <1>1, <1>2, <1>3, PTL DEF Spec, FreshMeansCurrent

\* An agent leaves its prompt by an answer or by a crash, and by nothing that
\* another agent or the user does (init.py:278-308).
LEMMA LeavingPrompt ==
  ASSUME TypeInv, [Next]_vars, NEW p \in Process, pc[p] = "prompt", pc'[p] = "idle"
  PROVE  Decline(p) \/ Confirm(p) \/ Crash(p)
<1>0. pc \in [Process -> Answering]
  BY DEF TypeInv, LockType
<1>1. pc' # pc
  OBVIOUS
<1>2. ~UserStep
  BY <1>1 DEF UserStep, EditRecord, DeleteRecord, LoseIndex, CopyForeign,
              ChangeInitialized, MonthTurns, userVars, initVars
<1>3. ASSUME NEW q \in Process, Calling(q) PROVE Crash(p)
  <2>1. \E s : pc' = [pc EXCEPT ![q] = s]
    BY <1>1, <1>3
    DEF Calling, StartUp, Startup, BeginWrite, LoadRecord, CommitWrite, WriteFails,
        BeginEnsure, CompareTimes, BeginRebuild, Discover, WriteDatabase,
        PublishIndex, Crash, Leave, Finish, End, Step
  <2>2. q = p
    BY <1>0, <2>1
  <2> QED
    BY <1>3, <2>2
    DEF Calling, StartUp, Startup, BeginWrite, LoadRecord, CommitWrite, WriteFails,
        BeginEnsure, CompareTimes, BeginRebuild, Discover, WriteDatabase,
        PublishIndex, Leave, Idle
<1>4. ASSUME Initialising PROVE Decline(p) \/ Confirm(p)
  <2>1. PICK q \in Process : RunInit(q) \/ Decline(q) \/ Confirm(q)
    BY <1>1, <1>4 DEF Initialising, ConfigEdited, RegistryEdited
  <2>2. \E s : pc' = [pc EXCEPT ![q] = s]
    BY <1>1, <2>1 DEF RunInit, Decline, Confirm, End
  <2>3. q = p
    BY <1>0, <2>2
  <2>4. ~RunInit(p)
    BY DEF RunInit, Idle
  <2> QED
    BY <2>1, <2>3, <2>4
<1> QED
  BY <1>1, <1>2, <1>3, <1>4 DEF Next, vars

(***************************************************************************)
(* Under the lock, and while the user changes no file, an agent is refused *)
(* an index only when a trial was written once more in a later month, for  *)
(* any number of agents, trials and crashes (fs_memory.py:1649-1695).      *)
(***************************************************************************)
THEOREM RefusalsAreRetries == Locked => (Spec => RefusedOnlyForRetries)
<1> SUFFICES ASSUME Locked PROVE Spec => RefusedOnlyForRetries
  OBVIOUS
<1>1. TypeInv /\ [Next]_vars => TypeInv'
  BY StepTypes
<1>2. TypeInv /\ StoreSound /\ [Next]_vars => StoreSound'
  BY StepSound
<1>3. TypeInv /\ StoreSound /\ [Next]_vars =>
        [\A p \in started :
            edits = 0 /\ pc[p] # "idle" /\ pc'[p] = "idle" /\ answer' = "refused" =>
                \E x, y \in TrialPaths : x.id = y.id /\ x.bucket # y.bucket]_<<pc, answer>>
  <2> SUFFICES ASSUME TypeInv, StoreSound, [Next]_vars, NEW p \in started, edits = 0,
                      pc[p] # "idle", pc'[p] = "idle", answer' = "refused"
               PROVE  \E x, y \in TrialPaths : x.id = y.id /\ x.bucket # y.bucket
    OBVIOUS
  <2>0. p \in Process /\ CallSound(p) /\ PlainFiles /\ Undisturbed(p)
    BY DEF StoreSound, CallsSound, Untouched, TypeInv, InitType
  <2>1. pc[p] # "prompt"
    <3> SUFFICES ASSUME pc[p] = "prompt" PROVE FALSE
      OBVIOUS
    <3>1. Decline(p) \/ Confirm(p) \/ Crash(p)
      BY <2>0, LeavingPrompt
    <3> QED
      BY <3>1 DEF Decline, Confirm, Crash, Finish, End
  <2>2. CompareTimes(p) \/ Discover(p) \/ WriteDatabase(p)
    BY <2>0, <2>1, OwnStep
    DEF Inside, CommitWrite, WriteFails, PublishIndex, Crash, Finish, End
  <2>3. ~CompareTimes(p)
    BY <2>0 DEF CompareTimes, Undisturbed, Gone, Finish, End, Step, TypeInv, LockType
  <2>4. ~Discover(p)
    <3>1. Discoverable
      BY <2>0 DEF PlainFiles, Discoverable, LoadsHere, Intact, AtHome, TrialPaths
    <3> QED
      BY <2>0, <3>1 DEF Discover, Step, TypeInv, LockType
  <2>5. WriteDatabase(p) /\ pc[p] = "rows"
    BY <2>2, <2>3, <2>4 DEF WriteDatabase
  <2>6. ~Gone(work[p].paths)
    BY <2>0, <2>5 DEF Undisturbed, Gone
  <2>7. ~OneRowPerTrial(work[p].paths)
    BY <2>0, <2>5, <2>6 DEF WriteDatabase, Finish, End, Step, TypeInv, LockType
  <2>8. TrialPaths = work[p].paths /\ TrialPaths \subseteq Path
    BY <2>0, <2>5, <2>6 DEF CallSound, Gone, TrialPaths, TypeInv, FileType
  <2>9. PICK x \in TrialPaths, y \in TrialPaths : x.id = y.id /\ x # y
    BY <2>7, <2>8 DEF OneRowPerTrial
  <2>10. x \in [kind : {"trial"}, bucket : Month, id : TrialId]
         /\ y \in [kind : {"trial"}, bucket : Month, id : TrialId]
    BY <2>8 DEF TrialPaths, Path
  <2> QED
    BY <2>9, <2>10
<1> QED
  BY InitialTypes, SoundInit, <1>1, <1>2, <1>3, PTL DEF Spec, RefusedOnlyForRetries

(***************************************************************************)
(* Whoever is told that the project was initialized has confirmed exactly  *)
(* the state on disk, for any number of agents at their prompts and of     *)
(* edits meanwhile, with the lock or without it (init.py:278-308).         *)
(***************************************************************************)
THEOREM ConfirmationsAreWritten == Spec => ConfirmedIsWritten
<1>1. TypeInv /\ [Next]_vars => TypeInv'
  BY StepTypes
<1>2. TypeInv /\ [Next]_vars =>
        [\A p \in Process :
            pc[p] = "prompt" /\ answer' = "initialized" /\ pc'[p] = "idle" =>
                initialized' = [namespace |-> "ours", baseline |-> context[p]]
        ]_<<initialized, pc, answer>>
  <2> SUFFICES ASSUME TypeInv, [Next]_vars, NEW p \in Process,
                      pc[p] = "prompt", answer' = "initialized", pc'[p] = "idle"
               PROVE  initialized' = [namespace |-> "ours", baseline |-> context[p]]
    OBVIOUS
  <2>1. Decline(p) \/ Confirm(p) \/ Crash(p)
    BY LeavingPrompt
  <2>2. Confirm(p)
    BY <2>1 DEF Decline, Crash, Finish, End
  <2> QED
    BY <2>2 DEF Confirm, StateOf
<1> QED
  BY InitialTypes, <1>1, <1>2, PTL DEF Spec, ConfirmedIsWritten

=============================================================================
