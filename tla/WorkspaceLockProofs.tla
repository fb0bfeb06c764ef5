------------------------- MODULE WorkspaceLockProofs -------------------------
(***************************************************************************)
(* Proofs about WorkspaceLock, for any number of processes, probes, lives  *)
(* of a pid and creations of run.lock.                                     *)
(***************************************************************************)
EXTENDS WorkspaceLock, TLAPS

USE WorkspaceLockAssumption, NullAssumption DEF NoFile, Inode, Life

-----------------------------------------------------------------------------
(* Types *)

\* A pid is free for another process only as long as the bound on lives allows.
LivesLeft ==
    \A p \in Process : ~alive[p] => life[p] < MaxLife

\* What read_holder() returns is a holder's metadata or nothing readable.
LEMMA ReadHolderType ==
    ASSUME TypeOK
    PROVE  ReadHolder \in Holder \cup {Unreadable}
BY DEF TypeOK, ReadHolder

\* A process writes metadata of the type that is read.
LEMMA SelfType ==
    ASSUME TypeOK, NEW p \in Process
    PROVE  Self(p) \in Holder
BY DEF TypeOK, Self, Holder

\* The types hold when nothing has happened yet ...
LEMMA TypeInit ==
    ASSUME Init
    PROVE  TypeOK /\ LivesLeft
BY DEF Init, TypeOK, LivesLeft

\* ... and no step of a process, a probe or the operator breaks them.
LEMMA TypeStep ==
    ASSUME TypeOK, LivesLeft, [Next]_vars
    PROVE  TypeOK' /\ LivesLeft'
<1>1. CASE UNCHANGED vars
  BY <1>1 DEF TypeOK, LivesLeft, vars
<1>2. ASSUME NEW p \in Process, Open(p)
      PROVE  TypeOK' /\ LivesLeft'
  BY <1>2 DEF TypeOK, LivesLeft, Open
<1>3. ASSUME NEW p \in Process, DeadlinePasses(p)
      PROVE  TypeOK' /\ LivesLeft'
  BY <1>3 DEF TypeOK, LivesLeft, DeadlinePasses
<1>4. ASSUME NEW p \in Process, TryLock(p)
      PROVE  TypeOK' /\ LivesLeft'
  BY <1>4 DEF TypeOK, LivesLeft, TryLock
<1>5. ASSUME NEW p \in Process, Busy(p)
      PROVE  TypeOK' /\ LivesLeft'
  BY <1>5, ReadHolderType DEF TypeOK, LivesLeft, Busy
<1>6. ASSUME NEW p \in Process, ReplaceHolder(p)
      PROVE  TypeOK' /\ LivesLeft'
  <2>1. content' \in [Inode -> Holder \cup {Unreadable}]
    BY <1>6 DEF TypeOK, ReplaceHolder
  <2>2. pc' \in [Process -> {"idle", "trying", "locked", "truncated", "held", "refused"}]
    BY <1>6 DEF TypeOK, ReplaceHolder
  <2>3. replaced' \in [Process -> Holder \cup {NoHolder}]
    <3>1. PICK r \in Holder \cup {NoHolder} : replaced' = [replaced EXCEPT ![p] = r]
      BY <1>6, ReadHolderType DEF TypeOK, ReplaceHolder
    <3> QED
      BY <3>1 DEF TypeOK
  <2> QED
    BY <1>6, <2>1, <2>2, <2>3 DEF TypeOK, LivesLeft, ReplaceHolder
<1>7. ASSUME NEW p \in Process, WriteHolder(p)
      PROVE  TypeOK' /\ LivesLeft'
  <2>1. content' \in [Inode -> Holder \cup {Unreadable}]
    <3>1. PICK written \in {Self(p), Unreadable} :
                content' = [content EXCEPT ![fd[p]] = written]
      BY <1>7 DEF WriteHolder
    <3>2. written \in Holder \cup {Unreadable}
      BY <3>1, SelfType
    <3> QED
      BY <3>1, <3>2 DEF TypeOK
  <2>2. pc' \in [Process -> {"idle", "trying", "locked", "truncated", "held", "refused"}]
    BY <1>7 DEF TypeOK, WriteHolder
  <2> QED
    BY <1>7, <2>1, <2>2 DEF TypeOK, LivesLeft, WriteHolder
<1>8. ASSUME NEW p \in Process, AcquireFails(p)
      PROVE  TypeOK' /\ LivesLeft'
  <2>1. content' \in [Inode -> Holder \cup {Unreadable}]
    <3>1. PICK left \in ContentAfterFailure(p) : content' = [content EXCEPT ![fd[p]] = left]
      BY <1>8 DEF AcquireFails
    <3>2. left \in Holder \cup {Unreadable} \/ left = content[fd[p]]
      BY <3>1, SelfType DEF ContentAfterFailure
    <3>3. CASE fd[p] \in Inode
      <4>1. left \in Holder \cup {Unreadable}
        BY <3>2, <3>3 DEF TypeOK
      <4> QED
        BY <3>1, <4>1 DEF TypeOK
    <3>4. CASE fd[p] \notin Inode
      BY <3>1, <3>4 DEF TypeOK
    <3> QED
      BY <3>3, <3>4
  <2>2. flock' \in [Inode -> Process \cup Prober \cup {Nobody}]
    BY <1>8 DEF TypeOK, AcquireFails
  <2>3. fd' \in [Process \cup Prober -> 0 .. MaxInode]
    BY <1>8 DEF TypeOK, AcquireFails
  <2>4. pc' \in [Process -> {"idle", "trying", "locked", "truncated", "held", "refused"}]
    BY <1>8 DEF TypeOK, AcquireFails
  <2> QED
    BY <1>8, <2>1, <2>2, <2>3, <2>4 DEF TypeOK, LivesLeft, AcquireFails
<1>9. ASSUME NEW p \in Process, Release(p)
      PROVE  TypeOK' /\ LivesLeft'
  <2>1. flock' \in [Inode -> Process \cup Prober \cup {Nobody}]
    BY <1>9 DEF TypeOK, Release
  <2>2. fd' \in [Process \cup Prober -> 0 .. MaxInode]
    BY <1>9 DEF TypeOK, Release
  <2>3. pc' \in [Process -> {"idle", "trying", "locked", "truncated", "held", "refused"}]
    BY <1>9 DEF TypeOK, Release
  <2> QED
    BY <1>9, <2>1, <2>2, <2>3 DEF TypeOK, LivesLeft, Release
<1>10. ASSUME NEW p \in Process, Crash(p)
       PROVE  TypeOK' /\ LivesLeft'
  <2>1. LivesLeft'
    BY <1>10 DEF TypeOK, LivesLeft, Crash
  <2> QED
    BY <1>10, <2>1 DEF TypeOK, Crash
<1>11. ASSUME NEW p \in Process, Restart(p)
       PROVE  TypeOK' /\ LivesLeft'
  <2>1. life[p] + 1 \in Life
    BY <1>11 DEF TypeOK, LivesLeft, Restart
  <2>2. life' \in [Process -> Life] /\ alive' \in [Process -> BOOLEAN]
    BY <1>11, <2>1 DEF TypeOK, Restart
  <2>3. LivesLeft'
    BY <1>11 DEF TypeOK, LivesLeft, Restart
  <2> QED
    BY <1>11, <2>2, <2>3 DEF TypeOK, Restart
<1>12. ASSUME NEW q \in Prober, ProbeLock(q)
       PROVE  TypeOK' /\ LivesLeft'
  BY <1>12 DEF TypeOK, LivesLeft, ProbeLock
<1>13. ASSUME NEW q \in Prober, ProbeUnlock(q)
       PROVE  TypeOK' /\ LivesLeft'
  BY <1>13 DEF TypeOK, LivesLeft, ProbeUnlock
<1>14. CASE OperatorRemove
  BY <1>14 DEF TypeOK, LivesLeft, OperatorRemove
<1> QED
  BY <1>1, <1>2, <1>3, <1>4, <1>5, <1>6, <1>7, <1>8, <1>9, <1>10, <1>11,
     <1>12, <1>13, <1>14 DEF Next, Acquire

\* Every variable of the lock keeps its type, whatever the processes, the probes
\* and the operator do.
THEOREM TypeCorrect == Spec => []TypeOK
<1>1. TypeOK /\ LivesLeft /\ [Next]_vars => (TypeOK /\ LivesLeft)'
  BY TypeStep
<1> QED
  BY <1>1, TypeInit, PTL DEF Spec

-----------------------------------------------------------------------------
(* Who has the flock *)

Opened(p) == pc[p] = "trying" \/ InLock(p)

\* What makes NoOrphanedFlock inductive: a process in acquire() has an inode
\* open, and having the lock is having the flock on that inode.
FlockInv ==
    /\ \A p \in Process : Opened(p) => fd[p] \in Inode /\ alive[p]
    /\ \A p \in Process : InLock(p) => flock[fd[p]] = p
    /\ \A q \in Prober : fd[q] # NoFile => flock[fd[q]] = q
    /\ NoOrphanedFlock

\* FlockInv holds before any process starts.
LEMMA FlockInit ==
    ASSUME Init
    PROVE  FlockInv
BY DEF Init, FlockInv, Opened, InLock, NoOrphanedFlock

\* Every step preserves FlockInv.
LEMMA FlockStep ==
    ASSUME TypeOK, FlockInv, [Next]_vars
    PROVE  FlockInv'
<1>1. CASE UNCHANGED vars
  BY <1>1 DEF TypeOK, FlockInv, Opened, InLock, NoOrphanedFlock, vars
<1>2. ASSUME NEW p \in Process, Open(p)
      PROVE  FlockInv'
  BY <1>2 DEF TypeOK, FlockInv, Opened, InLock, NoOrphanedFlock, Open
<1>3. ASSUME NEW p \in Process, DeadlinePasses(p)
      PROVE  FlockInv'
  BY <1>3 DEF TypeOK, FlockInv, Opened, InLock, NoOrphanedFlock, DeadlinePasses
<1>4. ASSUME NEW p \in Process, TryLock(p)
      PROVE  FlockInv'
  BY <1>4 DEF TypeOK, FlockInv, Opened, InLock, NoOrphanedFlock, TryLock
<1>5. ASSUME NEW p \in Process, Busy(p)
      PROVE  FlockInv'
  BY <1>5 DEF TypeOK, FlockInv, Opened, InLock, NoOrphanedFlock, Busy
<1>6. ASSUME NEW p \in Process, ReplaceHolder(p)
      PROVE  FlockInv'
  BY <1>6 DEF TypeOK, FlockInv, Opened, InLock, NoOrphanedFlock, ReplaceHolder
<1>7. ASSUME NEW p \in Process, WriteHolder(p)
      PROVE  FlockInv'
  BY <1>7 DEF TypeOK, FlockInv, Opened, InLock, NoOrphanedFlock, WriteHolder
<1>8. ASSUME NEW p \in Process, AcquireFails(p)
      PROVE  FlockInv'
  BY <1>8 DEF TypeOK, FlockInv, Opened, InLock, NoOrphanedFlock, AcquireFails
<1>9. ASSUME NEW p \in Process, Release(p)
      PROVE  FlockInv'
  BY <1>9 DEF TypeOK, FlockInv, Opened, InLock, NoOrphanedFlock, Release
<1>10. ASSUME NEW p \in Process, Crash(p)
       PROVE  FlockInv'
  BY <1>10 DEF TypeOK, FlockInv, Opened, InLock, NoOrphanedFlock, Crash
<1>11. ASSUME NEW p \in Process, Restart(p)
       PROVE  FlockInv'
  BY <1>11 DEF TypeOK, FlockInv, Opened, InLock, NoOrphanedFlock, Restart
<1>12. ASSUME NEW q \in Prober, ProbeLock(q)
       PROVE  FlockInv'
  BY <1>12 DEF TypeOK, FlockInv, Opened, InLock, NoOrphanedFlock, ProbeLock
<1>13. ASSUME NEW q \in Prober, ProbeUnlock(q)
       PROVE  FlockInv'
  BY <1>13 DEF TypeOK, FlockInv, Opened, InLock, NoOrphanedFlock, ProbeUnlock
<1>14. CASE OperatorRemove
  BY <1>14 DEF TypeOK, FlockInv, Opened, InLock, NoOrphanedFlock, OperatorRemove
<1> QED
  BY <1>1, <1>2, <1>3, <1>4, <1>5, <1>6, <1>7, <1>8,
     <1>9, <1>10, <1>11, <1>12, <1>13, <1>14 DEF Next, Acquire

\* No failed acquire(), no crash and no refused attempt leaves a flock behind,
\* even if the operator removes run.lock.
THEOREM NoFlockOrphaned == Spec => []NoOrphanedFlock
<1>1. FlockInv => NoOrphanedFlock
  BY DEF FlockInv
<1>2. TypeOK /\ FlockInv /\ [Next]_vars => FlockInv'
  BY FlockStep
<1> QED
  BY <1>1, <1>2, FlockInit, TypeCorrect, PTL DEF Spec

-----------------------------------------------------------------------------
(* Mutual exclusion, when nobody removes run.lock *)

\* Every open descriptor is on the inode the path names.
OneFile ==
    \A c \in Process \cup Prober : fd[c] # NoFile => fd[c] = path

\* OneFile holds of a workspace without run.lock.
LEMMA OneFileInit ==
    ASSUME Init
    PROVE  OneFile
BY DEF Init, OneFile

\* Without removals by the operator, run.lock is created once at most.
LEMMA OneFileStep ==
    ASSUME ~OperatorRemoves, TypeOK, FlockInv, OneFile, [Next]_vars
    PROVE  OneFile'
<1>1. CASE UNCHANGED vars
  BY <1>1 DEF TypeOK, OneFile, vars
<1>2. ASSUME NEW p \in Process, Open(p)
      PROVE  OneFile'
  BY <1>2 DEF TypeOK, OneFile, Open
<1>3. ASSUME NEW p \in Process, DeadlinePasses(p)
      PROVE  OneFile'
  BY <1>3 DEF TypeOK, OneFile, DeadlinePasses
<1>4. ASSUME NEW p \in Process, TryLock(p)
      PROVE  OneFile'
  BY <1>4 DEF TypeOK, OneFile, TryLock
<1>5. ASSUME NEW p \in Process, Busy(p)
      PROVE  OneFile'
  BY <1>5 DEF TypeOK, OneFile, Busy
<1>6. ASSUME NEW p \in Process, ReplaceHolder(p)
      PROVE  OneFile'
  BY <1>6 DEF TypeOK, OneFile, ReplaceHolder
<1>7. ASSUME NEW p \in Process, WriteHolder(p)
      PROVE  OneFile'
  BY <1>7 DEF TypeOK, OneFile, WriteHolder
<1>8. ASSUME NEW p \in Process, AcquireFails(p)
      PROVE  OneFile'
  BY <1>8 DEF TypeOK, OneFile, AcquireFails
<1>9. ASSUME NEW p \in Process, Release(p)
      PROVE  OneFile'
  BY <1>9 DEF TypeOK, OneFile, Release
<1>10. ASSUME NEW p \in Process, Crash(p)
       PROVE  OneFile'
  BY <1>10 DEF TypeOK, OneFile, Crash
<1>11. ASSUME NEW p \in Process, Restart(p)
       PROVE  OneFile'
  BY <1>11 DEF TypeOK, OneFile, Restart
<1>12. ASSUME NEW q \in Prober, ProbeLock(q)
       PROVE  OneFile'
  BY <1>12 DEF TypeOK, OneFile, ProbeLock
<1>13. ASSUME NEW q \in Prober, ProbeUnlock(q)
       PROVE  OneFile'
  BY <1>13 DEF TypeOK, OneFile, ProbeUnlock
<1>14. CASE OperatorRemove
  BY <1>14 DEF TypeOK, OneFile, OperatorRemove
<1> QED
  BY <1>1, <1>2, <1>3, <1>4, <1>5, <1>6, <1>7, <1>8,
     <1>9, <1>10, <1>11, <1>12, <1>13, <1>14 DEF Next, Acquire

\* OneFile is an invariant when the operator removes nothing.
LEMMA OneFileAlways ==
    ASSUME ~OperatorRemoves
    PROVE  Spec => [](TypeOK /\ FlockInv /\ OneFile)
<1>1. TypeOK /\ FlockInv /\ OneFile /\ [Next]_vars => OneFile'
  BY OneFileStep
<1>2. TypeOK /\ FlockInv /\ [Next]_vars => FlockInv'
  BY FlockStep
<1> QED
  BY <1>1, <1>2, OneFileInit, FlockInit, TypeCorrect, PTL DEF Spec

\* On one inode the kernel's lock is the workspace lock.
LEMMA OneFileExcludes ==
    ASSUME TypeOK, FlockInv, OneFile
    PROVE  MutualExclusion
<1> SUFFICES ASSUME NEW p \in Process, NEW q \in Process, InLock(p), InLock(q)
             PROVE  p = q
  BY DEF MutualExclusion
<1>1. fd[p] = path /\ fd[q] = path
  BY DEF FlockInv, OneFile, Opened
<1>2. flock[fd[p]] = p /\ flock[fd[q]] = q
  BY DEF FlockInv
<1> QED
  BY <1>1, <1>2

\* At most one process is inside the workspace lock as long as the operator does
\* not remove run.lock: the mutual exclusion every writer relies on.
THEOREM LockExcludes ==
    ASSUME ~OperatorRemoves
    PROVE  Spec => []MutualExclusion
BY OneFileAlways, OneFileExcludes, PTL

-----------------------------------------------------------------------------
(* The lock implements its abstract specification *)

\* Those inside the abstract lock are those that have the flock on the one file.
Inside == {p \in Process : InLock(p)} \cup {q \in Prober : fd[q] # NoFile}

\* Whoever is inside has the flock on the inode it has open.
LEMMA InsideHasFlock ==
    ASSUME TypeOK, FlockInv, OneFile, NEW c \in Process \cup Prober
    PROVE  c \in Inside <=> path # NoFile /\ flock[path] = c
<1>1. ASSUME c \in Inside
      PROVE  path # NoFile /\ flock[path] = c
  BY <1>1 DEF TypeOK, FlockInv, OneFile, Inside, Opened, InLock
<1>2. ASSUME path # NoFile, flock[path] = c
      PROVE  c \in Inside
  <2>1. fd[c] = path /\ (c \in Process => InLock(c))
    BY <1>2 DEF TypeOK, FlockInv, NoOrphanedFlock
  <2> QED
    BY <1>2, <2>1 DEF Inside
<1> QED
  BY <1>1, <1>2

\* So nobody is inside while the flock is free, and one process at most.
LEMMA InsideEmpty ==
    ASSUME TypeOK, FlockInv, OneFile, path = NoFile \/ flock[path] = Nobody
    PROVE  Inside = {}
<1>1. Inside \subseteq Process \cup Prober
  BY DEF Inside
<1> QED
  BY <1>1, InsideHasFlock

\* With a single file, the process inside is the only one.
LEMMA InsideOne ==
    ASSUME TypeOK, FlockInv, OneFile, NEW c \in Inside
    PROVE  Inside = {c}
<1>1. Inside \subseteq Process \cup Prober
  BY DEF Inside
<1>2. flock[path] = c /\ \A d \in Inside : flock[path] = d
  BY <1>1, InsideHasFlock
<1> QED
  BY <1>2

Enters == \E c \in Process \cup Prober : Inside = {} /\ Inside' = {c}

Leaves == \E c \in Process \cup Prober : Inside = {c} /\ Inside' = {}

\* Every step lets one process into an empty lock, lets the one inside out, or
\* leaves the set inside as it is.
LEMMA InsideStep ==
    ASSUME TypeOK, FlockInv, OneFile, [Next]_vars
    PROVE  Enters \/ Leaves \/ Inside' = Inside
<1>1. CASE UNCHANGED vars
  BY <1>1 DEF vars, Inside, InLock
<1>2. ASSUME NEW p \in Process, Open(p)
      PROVE  Enters \/ Leaves \/ Inside' = Inside
  BY <1>2 DEF Open, TypeOK, Inside, InLock
<1>3. ASSUME NEW p \in Process, DeadlinePasses(p)
      PROVE  Enters \/ Leaves \/ Inside' = Inside
  BY <1>3 DEF DeadlinePasses, TypeOK, Inside, InLock
<1>4. ASSUME NEW p \in Process, TryLock(p)
      PROVE  Enters \/ Leaves \/ Inside' = Inside
  <2>1. Inside = {}
    <3>1. fd[p] = path
      BY <1>4 DEF TryLock, FlockInv, OneFile, Opened
    <3> QED
      BY <1>4, <3>1, InsideEmpty DEF TryLock
  <2>2. Inside' = {p}
    BY <1>4, <2>1 DEF TryLock, TypeOK, Inside, InLock
  <2> QED
    BY <2>1, <2>2 DEF Enters
<1>5. ASSUME NEW p \in Process, Busy(p)
      PROVE  Enters \/ Leaves \/ Inside' = Inside
  BY <1>5 DEF Busy, TypeOK, Inside, InLock
<1>6. ASSUME NEW p \in Process, ReplaceHolder(p)
      PROVE  Enters \/ Leaves \/ Inside' = Inside
  BY <1>6 DEF ReplaceHolder, TypeOK, Inside, InLock
<1>7. ASSUME NEW p \in Process, WriteHolder(p)
      PROVE  Enters \/ Leaves \/ Inside' = Inside
  BY <1>7 DEF WriteHolder, TypeOK, Inside, InLock
<1>8. ASSUME NEW p \in Process, AcquireFails(p)
      PROVE  Enters \/ Leaves \/ Inside' = Inside
  <2>1. Inside = {p}
    BY <1>8, InsideOne DEF AcquireFails, Inside, InLock
  <2>2. Inside' = {}
    BY <1>8, <2>1 DEF AcquireFails, TypeOK, Inside, InLock
  <2> QED
    BY <2>1, <2>2 DEF Leaves
<1>9. ASSUME NEW p \in Process, Release(p)
      PROVE  Enters \/ Leaves \/ Inside' = Inside
  <2>1. Inside = {p}
    BY <1>9, InsideOne DEF Release, Inside, InLock
  <2>2. Inside' = {}
    BY <1>9, <2>1 DEF Release, TypeOK, Inside, InLock
  <2> QED
    BY <2>1, <2>2 DEF Leaves
<1>10. ASSUME NEW p \in Process, Crash(p)
       PROVE  Enters \/ Leaves \/ Inside' = Inside
  <2>1. CASE InLock(p)
    <3>1. Inside = {p}
      BY <2>1, InsideOne DEF Inside
    <3>2. Inside' = {}
      BY <1>10, <3>1 DEF Crash, TypeOK, Inside, InLock
    <3> QED
      BY <3>1, <3>2 DEF Leaves
  <2>2. CASE ~InLock(p)
    BY <1>10, <2>2 DEF Crash, TypeOK, Inside, InLock
  <2> QED
    BY <2>1, <2>2
<1>11. ASSUME NEW p \in Process, Restart(p)
       PROVE  Enters \/ Leaves \/ Inside' = Inside
  BY <1>11 DEF Restart, TypeOK, Inside, InLock
<1>12. ASSUME NEW q \in Prober, ProbeLock(q)
       PROVE  Enters \/ Leaves \/ Inside' = Inside
  <2>1. Inside = {}
    BY <1>12, InsideEmpty DEF ProbeLock
  <2>2. Inside' = {q}
    BY <1>12, <2>1 DEF ProbeLock, TypeOK, Inside, InLock
  <2> QED
    BY <2>1, <2>2 DEF Enters
<1>13. ASSUME NEW q \in Prober, ProbeUnlock(q)
       PROVE  Enters \/ Leaves \/ Inside' = Inside
  <2>1. Inside = {q}
    BY <1>13, InsideOne DEF ProbeUnlock, Inside, InLock
  <2>2. Inside' = {}
    BY <1>13, <2>1 DEF ProbeUnlock, TypeOK, Inside, InLock
  <2> QED
    BY <2>1, <2>2 DEF Leaves
<1>14. CASE OperatorRemove
  BY <1>14 DEF OperatorRemove, Inside, InLock
<1> QED
  BY <1>1, <1>2, <1>3, <1>4, <1>5, <1>6, <1>7, <1>8,
     <1>9, <1>10, <1>11, <1>12, <1>13, <1>14 DEF Next, Acquire

\* acquire(), release(), probes and crashes implement a plain exclusive lock, as
\* long as the operator does not remove run.lock.
THEOREM LockRefines ==
    ASSUME ~OperatorRemoves
    PROVE  Spec => ImplementsExclusiveLock
<1>1. Init => Promise!Init
  BY DEF Init, Promise!Init, InLock
<1>2. TypeOK /\ FlockInv /\ OneFile /\ [Next]_vars =>
        [Promise!Next]_({p \in Process : InLock(p)} \cup {q \in Prober : fd[q] # NoFile})
  BY InsideStep DEF Inside, Enters, Leaves, Promise!Next, Promise!Take, Promise!Drop
<1> QED
  BY <1>1, <1>2, OneFileAlways, PTL DEF Spec, ImplementsExclusiveLock, Promise!Spec

-----------------------------------------------------------------------------
(* What run.lock says *)

\* The file a process has locked holds its own metadata or nothing readable, from
\* the truncation on: whoever could write to it would need its flock.
ContentInv ==
    \A p \in Process :
        /\ pc[p] = "truncated" => content[fd[p]] = Unreadable
        /\ pc[p] = "held" => content[fd[p]] \in {Self(p), Unreadable}

\* Every step preserves ContentInv when the operator removes nothing.
LEMMA ContentStep ==
    ASSUME TypeOK, FlockInv, ContentInv, [Next]_vars
    PROVE  ContentInv'
<1>1. CASE UNCHANGED vars
  BY <1>1 DEF TypeOK, FlockInv, ContentInv, Opened, InLock, Self, vars
<1>2. ASSUME NEW p \in Process, Open(p)
      PROVE  ContentInv'
  BY <1>2 DEF TypeOK, FlockInv, ContentInv, Opened, InLock, Self, Open
<1>3. ASSUME NEW p \in Process, DeadlinePasses(p)
      PROVE  ContentInv'
  BY <1>3 DEF TypeOK, FlockInv, ContentInv, Opened, InLock, Self, DeadlinePasses
<1>4. ASSUME NEW p \in Process, TryLock(p)
      PROVE  ContentInv'
  BY <1>4 DEF TypeOK, FlockInv, ContentInv, Opened, InLock, Self, TryLock
<1>5. ASSUME NEW p \in Process, Busy(p)
      PROVE  ContentInv'
  BY <1>5 DEF TypeOK, FlockInv, ContentInv, Opened, InLock, Self, Busy
<1>6. ASSUME NEW p \in Process, ReplaceHolder(p)
      PROVE  ContentInv'
  BY <1>6 DEF TypeOK, FlockInv, ContentInv, Opened, InLock, Self, ReplaceHolder
<1>7. ASSUME NEW p \in Process, WriteHolder(p)
      PROVE  ContentInv'
  BY <1>7 DEF TypeOK, FlockInv, ContentInv, Opened, InLock, Self, WriteHolder
<1>8. ASSUME NEW p \in Process, AcquireFails(p)
      PROVE  ContentInv'
  BY <1>8 DEF TypeOK, FlockInv, ContentInv, Opened, InLock, Self, AcquireFails
<1>9. ASSUME NEW p \in Process, Release(p)
      PROVE  ContentInv'
  BY <1>9 DEF TypeOK, FlockInv, ContentInv, Opened, InLock, Self, Release
<1>10. ASSUME NEW p \in Process, Crash(p)
       PROVE  ContentInv'
  BY <1>10 DEF TypeOK, FlockInv, ContentInv, Opened, InLock, Self, Crash
<1>11. ASSUME NEW p \in Process, Restart(p)
       PROVE  ContentInv'
  BY <1>11 DEF TypeOK, FlockInv, ContentInv, Opened, InLock, Self, Restart
<1>12. ASSUME NEW q \in Prober, ProbeLock(q)
       PROVE  ContentInv'
  BY <1>12 DEF TypeOK, FlockInv, ContentInv, Opened, InLock, Self, ProbeLock
<1>13. ASSUME NEW q \in Prober, ProbeUnlock(q)
       PROVE  ContentInv'
  BY <1>13 DEF TypeOK, FlockInv, ContentInv, Opened, InLock, Self, ProbeUnlock
<1>14. CASE OperatorRemove
  BY <1>14 DEF TypeOK, FlockInv, ContentInv, Opened, InLock, Self, OperatorRemove
<1> QED
  BY <1>1, <1>2, <1>3, <1>4, <1>5, <1>6, <1>7, <1>8,
     <1>9, <1>10, <1>11, <1>12, <1>13, <1>14 DEF Next, Acquire

\* Between the return of acquire() and release() or death, run.lock names the
\* holder or nobody, as long as the operator does not remove the file.
THEOREM HolderNeverMisnamed ==
    ASSUME ~OperatorRemoves
    PROVE  Spec => []HeldNeverMisnamed
<1>1. Init => ContentInv
  BY DEF Init, ContentInv
<1>2. TypeOK /\ FlockInv /\ ContentInv /\ [Next]_vars => ContentInv'
  BY ContentStep
<1>3. TypeOK /\ FlockInv /\ OneFile /\ ContentInv => HeldNeverMisnamed
  BY DEF FlockInv, OneFile, ContentInv, HeldNeverMisnamed, ReadHolder, Opened, InLock
<1> QED
  BY <1>1, <1>2, <1>3, OneFileAlways, PTL DEF Spec

-----------------------------------------------------------------------------
(* Stale holders *)

\* No metadata is from the future, and a pid that was gone is never back in the
\* same life.
LivesInv ==
    /\ \A i \in Inode : content[i] \in Holder => content[i].life <= life[content[i].pid]
    /\ \A p \in Process : replaced[p] \in Holder =>
          /\ replaced[p].life <= life[replaced[p].pid]
          /\ Gone(replaced[p])

\* The metadata of a living process names no life that is still to come.
LEMMA SelfNotFuture ==
    ASSUME TypeOK, NEW p \in Process
    PROVE  Self(p).life <= life[Self(p).pid] /\ Unreadable \notin Holder
BY DEF TypeOK, Self

\* Every step preserves LivesInv: recorded lives are never in the future, and
\* those reported as stale are over.
LEMMA LivesStep ==
    ASSUME TypeOK, LivesInv, [Next]_vars
    PROVE  LivesInv'
<1>1. CASE UNCHANGED vars
  BY <1>1 DEF TypeOK, LivesInv, Gone, Holder, vars
<1>2. ASSUME NEW p \in Process, Open(p)
      PROVE  LivesInv'
  BY <1>2 DEF TypeOK, LivesInv, Gone, Holder, Open
<1>3. ASSUME NEW p \in Process, DeadlinePasses(p)
      PROVE  LivesInv'
  BY <1>3 DEF TypeOK, LivesInv, Gone, Holder, DeadlinePasses
<1>4. ASSUME NEW p \in Process, TryLock(p)
      PROVE  LivesInv'
  BY <1>4 DEF TypeOK, LivesInv, Gone, Holder, TryLock
<1>5. ASSUME NEW p \in Process, Busy(p)
      PROVE  LivesInv'
  BY <1>5 DEF TypeOK, LivesInv, Gone, Holder, Busy
<1>6. ASSUME NEW p \in Process, ReplaceHolder(p)
      PROVE  LivesInv'
  <2>1. PICK r : /\ replaced' = [replaced EXCEPT ![p] = r]
                 /\ r = replaced[p] \/ (r = ReadHolder /\ r \in Holder /\ Gone(r))
    BY <1>6 DEF TypeOK, ReplaceHolder, IsStale
  <2>2. r \in Holder => r.life <= life[r.pid] /\ Gone(r)
    BY <2>1 DEF TypeOK, LivesInv, ReadHolder
  <2>3. ASSUME NEW x \in Process, replaced'[x] \in Holder
        PROVE  replaced'[x].life <= life[replaced'[x].pid] /\ Gone(replaced'[x])
    BY <2>1, <2>2, <2>3 DEF TypeOK, LivesInv
  <2>4. ASSUME NEW i \in Inode, content'[i] \in Holder
        PROVE  content'[i].life <= life[content'[i].pid]
    BY <1>6, <2>4 DEF TypeOK, LivesInv, ReplaceHolder
  <2> QED
    BY <1>6, <2>3, <2>4 DEF LivesInv, Gone, ReplaceHolder
<1>7. ASSUME NEW p \in Process, WriteHolder(p)
      PROVE  LivesInv'
  <2>1. PICK written \in {Self(p), Unreadable} :
            content' = [content EXCEPT ![fd[p]] = written]
    BY <1>7 DEF WriteHolder
  <2>2. ASSUME NEW i \in Inode, content'[i] \in Holder
        PROVE  content'[i].life <= life[content'[i].pid]
    BY <2>1, <2>2, SelfNotFuture DEF TypeOK, LivesInv
  <2> QED
    BY <1>7, <2>2 DEF LivesInv, Gone, WriteHolder
<1>8. ASSUME NEW p \in Process, AcquireFails(p)
      PROVE  LivesInv'
  <2>1. PICK left \in ContentAfterFailure(p) :
            content' = [content EXCEPT ![fd[p]] = left]
    BY <1>8 DEF AcquireFails
  <2>2. left = content[fd[p]] \/ left \in {Self(p), Unreadable}
    BY <2>1 DEF ContentAfterFailure
  <2>3. ASSUME NEW i \in Inode, content'[i] \in Holder
        PROVE  content'[i].life <= life[content'[i].pid]
    BY <2>1, <2>2, <2>3, SelfNotFuture DEF TypeOK, LivesInv
  <2> QED
    BY <1>8, <2>3 DEF LivesInv, Gone, AcquireFails
<1>9. ASSUME NEW p \in Process, Release(p)
      PROVE  LivesInv'
  BY <1>9 DEF TypeOK, LivesInv, Gone, Holder, Release
<1>10. ASSUME NEW p \in Process, Crash(p)
       PROVE  LivesInv'
  BY <1>10 DEF TypeOK, LivesInv, Gone, Holder, Crash
<1>11. ASSUME NEW p \in Process, Restart(p)
       PROVE  LivesInv'
  BY <1>11 DEF TypeOK, LivesInv, Gone, Holder, Restart
<1>12. ASSUME NEW q \in Prober, ProbeLock(q)
       PROVE  LivesInv'
  BY <1>12 DEF TypeOK, LivesInv, Gone, Holder, ProbeLock
<1>13. ASSUME NEW q \in Prober, ProbeUnlock(q)
       PROVE  LivesInv'
  BY <1>13 DEF TypeOK, LivesInv, Gone, Holder, ProbeUnlock
<1>14. CASE OperatorRemove
  BY <1>14 DEF TypeOK, LivesInv, Gone, Holder, OperatorRemove
<1> QED
  BY <1>1, <1>2, <1>3, <1>4, <1>5, <1>6, <1>7, <1>8,
     <1>9, <1>10, <1>11, <1>12, <1>13, <1>14 DEF Next, Acquire

\* A holder that acquire() reports as replaced because stale does not exist any
\* more, even when its pid was given to another process.
THEOREM StaleVerdictsSound == Spec => []StaleVerdictSound
<1>1. Init => LivesInv
  BY DEF Init, LivesInv
<1>2. TypeOK /\ LivesInv /\ [Next]_vars => LivesInv'
  BY LivesStep
<1>3. LivesInv => StaleVerdictSound
  BY DEF LivesInv, StaleVerdictSound
<1> QED
  BY <1>1, <1>2, <1>3, TypeCorrect, PTL DEF Spec

=============================================================================
