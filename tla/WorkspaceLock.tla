--------------------------- MODULE WorkspaceLock ---------------------------
(***************************************************************************)
(* The workspace lock of src/src/agent/workspace_lock.py: an exclusive     *)
(* flock on <workspace>/state/run.lock whose file also carries, as YAML,   *)
(* the metadata of the process that holds it.                              *)
(*                                                                         *)
(* Two things make it hard.  The flock is on an inode while every process  *)
(* finds it through a path, and the metadata is written after the flock    *)
(* was granted, in two system calls, and is never erased on release.  So   *)
(* the steps of acquire() are separate actions, processes die between any  *)
(* two of them, pids are reused, a probe (probe_lock, run by read-only     *)
(* commands) takes the flock for an instant, and the operator may remove   *)
(* the file as doc/REQUIREMENTS.md 4.15.4 allows.                          *)
(*                                                                         *)
(* A holder's metadata is reduced to what identifies a process: its pid    *)
(* and its create_time, here the number of the pid's current life.         *)
(***************************************************************************)
EXTENDS Naturals, FiniteSets

CONSTANTS
    Process,            \* pids of the agent processes that acquire the lock
    Prober,             \* processes that only probe it (status, doctor, clean planning)
    MaxLife,            \* bound: how many processes may in turn have the same pid
    MaxInode,           \* bound: how many times run.lock may be created
    OperatorRemoves,    \* may the operator remove run.lock when no process holds it?
    Nobody,             \* no process has the flock
    Unreadable,         \* an empty, malformed or missing run.lock
    NoHolder            \* no holder recorded

ASSUME WorkspaceLockAssumption ==
    /\ Process \cap Prober = {}
    /\ MaxLife \in Nat \ {0}
    /\ MaxInode \in Nat \ {0}
    /\ OperatorRemoves \in BOOLEAN

NoFile == 0
Inode == 1 .. MaxInode
Life == 1 .. MaxLife
Holder == [pid : Process, life : Life]

ASSUME NullAssumption ==
    /\ Nobody \notin Process \cup Prober
    /\ {Unreadable, NoHolder} \cap Holder = {}
    /\ Unreadable # NoHolder

VARIABLES
    path,       \* the inode state/run.lock names, or NoFile
    created,    \* how many inodes were ever created at that path
    content,    \* content[i]: the holder metadata stored in inode i
    flock,      \* flock[i]: the process that has the flock on inode i
    fd,         \* fd[p]: the inode process p has open, or NoFile
    pc,         \* pc[p]: where process p is in acquire() / release()
    deadline,   \* deadline[p]: state of the timeout of p's acquire()
    busyHolder, \* busyHolder[p]: the holder p's WorkspaceBusyError carried
    replaced,   \* replaced[p]: p's replaced_stale_holder
    alive,      \* alive[p]: does a process with pid p exist?
    life        \* life[p]: its create_time

vars == <<path, created, content, flock, fd, pc, deadline, busyHolder,
          replaced, alive, life>>

TypeOK ==
    /\ path \in 0 .. MaxInode
    /\ created \in 0 .. MaxInode
    /\ content \in [Inode -> Holder \cup {Unreadable}]
    /\ flock \in [Inode -> Process \cup Prober \cup {Nobody}]
    /\ fd \in [Process \cup Prober -> 0 .. MaxInode]
    /\ pc \in [Process -> {"idle", "trying", "locked", "truncated", "held", "refused"}]
    /\ deadline \in [Process -> {"immediate", "pending", "passed"}]
    /\ busyHolder \in [Process -> Holder \cup {Unreadable, NoHolder}]
    /\ replaced \in [Process -> Holder \cup {NoHolder}]
    /\ alive \in [Process -> BOOLEAN]
    /\ life \in [Process -> Life]

Self(p) == [pid |-> p, life |-> life[p]]

\* The life of a pid that some metadata names is over.
Gone(h) == ~alive[h.pid] \/ life[h.pid] # h.life

\* The steps of acquire() and after it in which a process has the flock.
InLock(p) == pc[p] \in {"locked", "truncated", "held"}

\* What read_holder() returns: it goes through the path, not through a
\* descriptor, and reports a missing, empty or malformed file as unreadable.
ReadHolder == IF path = NoFile THEN Unreadable ELSE content[path]

Init ==
    /\ path = NoFile
    /\ created = 0
    /\ content = [i \in Inode |-> Unreadable]
    /\ flock = [i \in Inode |-> Nobody]
    /\ fd = [p \in Process \cup Prober |-> NoFile]
    /\ pc = [p \in Process |-> "idle"]
    /\ deadline = [p \in Process |-> "immediate"]
    /\ busyHolder = [p \in Process |-> NoHolder]
    /\ replaced = [p \in Process |-> NoHolder]
    /\ alive = [p \in Process |-> TRUE]
    /\ life = [p \in Process |-> 1]

-----------------------------------------------------------------------------
(* acquire() *)

\* A process that is not inside calls acquire(): os.open with O_CREAT opens
\* the file the path names, or creates it.  timeout = 0 asks for an immediate
\* answer, any other timeout starts a deadline.
Open(p) ==
    /\ alive[p]
    /\ pc[p] \in {"idle", "refused"}
    /\ \/ /\ path # NoFile
          /\ UNCHANGED <<path, created>>
       \/ /\ path = NoFile
          /\ created < MaxInode
          /\ path' = created + 1
          /\ created' = created + 1
    /\ fd' = [fd EXCEPT ![p] = path']
    /\ pc' = [pc EXCEPT ![p] = "trying"]
    /\ \E d \in {"immediate", "pending"} : deadline' = [deadline EXCEPT ![p] = d]
    /\ busyHolder' = [busyHolder EXCEPT ![p] = NoHolder]
    /\ UNCHANGED <<content, flock, replaced, alive, life>>

\* time.monotonic() reaches the deadline of a waiting acquire().
DeadlinePasses(p) ==
    /\ pc[p] = "trying"
    /\ deadline[p] = "pending"
    /\ deadline' = [deadline EXCEPT ![p] = "passed"]
    /\ UNCHANGED <<path, created, content, flock, fd, pc, busyHolder, replaced,
                   alive, life>>

\* Mutant: a lock whose metadata looks stale is taken from whoever has it, the
\* clean-up and retry that doc/REQUIREMENTS.md 4.15.3 sketches.
TryLockStealing(p) ==
    /\ pc[p] = "trying"
    /\ \/ flock[fd[p]] = Nobody
       \/ ReadHolder \in Holder /\ Gone(ReadHolder)
    /\ flock' = [flock EXCEPT ![fd[p]] = p]
    /\ pc' = [pc EXCEPT ![p] = "locked"]
    /\ UNCHANGED <<path, created, content, fd, deadline, busyHolder, replaced,
                   alive, life>>

\* flock(LOCK_EX | LOCK_NB) succeeds on the inode the process has open.
TryLock(p) ==
    /\ pc[p] = "trying"
    /\ flock[fd[p]] = Nobody
    /\ flock' = [flock EXCEPT ![fd[p]] = p]
    /\ pc' = [pc EXCEPT ![p] = "locked"]
    /\ UNCHANGED <<path, created, content, fd, deadline, busyHolder, replaced,
                   alive, life>>

\* Mutant: the retry loop forgets its deadline.
BusyOnlyAtOnce(p) ==
    /\ pc[p] = "trying"
    /\ flock[fd[p]] # Nobody
    /\ deadline[p] = "immediate"
    /\ busyHolder' = [busyHolder EXCEPT ![p] = ReadHolder]
    /\ fd' = [fd EXCEPT ![p] = NoFile]
    /\ pc' = [pc EXCEPT ![p] = "refused"]
    /\ UNCHANGED <<path, created, content, flock, deadline, replaced, alive, life>>

\* flock raises BlockingIOError and no time is left: WorkspaceBusyError with
\* whatever holder the file names now; the descriptor is closed.
Busy(p) ==
    /\ pc[p] = "trying"
    /\ flock[fd[p]] # Nobody
    /\ deadline[p] \in {"immediate", "passed"}
    /\ busyHolder' = [busyHolder EXCEPT ![p] = ReadHolder]
    /\ fd' = [fd EXCEPT ![p] = NoFile]
    /\ pc' = [pc EXCEPT ![p] = "refused"]
    /\ UNCHANGED <<path, created, content, flock, deadline, replaced, alive, life>>

\* Mutant: a process that may not be inspected counts as stale.
IsStaleWhenDenied(h, denied) == denied \/ Gone(h)

\* _is_stale(): the pid is gone or was given to another process; a process
\* psutil may not inspect is never called stale.
IsStale(h, denied) == ~denied /\ Gone(h)

\* Mutant: metadata that could not be read is remembered as a stale holder.
ReplaceUnreadableHolder(p) ==
    /\ pc[p] = "locked"
    /\ \E denied \in BOOLEAN :
          LET previous == ReadHolder
          IN  replaced' = [replaced EXCEPT ![p] =
                 IF previous \in Holder /\ ~IsStale(previous, denied)
                 THEN @ ELSE previous]
    /\ content' = [content EXCEPT ![fd[p]] = Unreadable]
    /\ pc' = [pc EXCEPT ![p] = "truncated"]
    /\ UNCHANGED <<path, created, flock, fd, deadline, busyHolder, alive, life>>

\* The lock is granted: the metadata of the previous holder is read and, when
\* it is stale, remembered; then the file is truncated.
ReplaceHolder(p) ==
    /\ pc[p] = "locked"
    /\ \E denied \in BOOLEAN :
          LET previous == ReadHolder
          IN  replaced' = [replaced EXCEPT ![p] =
                 IF previous \in Holder /\ IsStale(previous, denied)
                 THEN previous ELSE @]
    /\ content' = [content EXCEPT ![fd[p]] = Unreadable]
    /\ pc' = [pc EXCEPT ![p] = "truncated"]
    /\ UNCHANGED <<path, created, flock, fd, deadline, busyHolder, alive, life>>

\* os.write of the new metadata, and acquire() returns.  The number of bytes
\* written is not looked at, so on a full disk the metadata may be cut short.
WriteHolder(p) ==
    /\ pc[p] = "truncated"
    /\ \E written \in {Self(p), Unreadable} :
          content' = [content EXCEPT ![fd[p]] = written]
    /\ pc' = [pc EXCEPT ![p] = "held"]
    /\ UNCHANGED <<path, created, flock, fd, deadline, busyHolder, replaced,
                   alive, life>>

\* What the file holds when something fails before or while it is rewritten.
ContentAfterFailure(p) ==
    IF pc[p] = "locked" THEN {content[fd[p]]} ELSE {Self(p), Unreadable}

\* Mutant: the handler around acquire() forgets to close the descriptor.
AcquireFailsKeepingLock(p) ==
    /\ pc[p] \in {"locked", "truncated"}
    /\ \E left \in ContentAfterFailure(p) :
          content' = [content EXCEPT ![fd[p]] = left]
    /\ fd' = [fd EXCEPT ![p] = NoFile]
    /\ pc' = [pc EXCEPT ![p] = "refused"]
    /\ UNCHANGED <<path, created, flock, deadline, busyHolder, replaced, alive, life>>

\* Building, writing or syncing the metadata raises once the flock is granted:
\* acquire() closes the descriptor, which gives up the flock, and re-raises.
AcquireFails(p) ==
    /\ pc[p] \in {"locked", "truncated"}
    /\ \E left \in ContentAfterFailure(p) :
          content' = [content EXCEPT ![fd[p]] = left]
    /\ flock' = [flock EXCEPT ![fd[p]] = Nobody]
    /\ fd' = [fd EXCEPT ![p] = NoFile]
    /\ pc' = [pc EXCEPT ![p] = "refused"]
    /\ UNCHANGED <<path, created, deadline, busyHolder, replaced, alive, life>>

-----------------------------------------------------------------------------
(* release(), death, rebirth, probes, the operator *)

\* Mutant: release() also unlinks run.lock, as doc/REQUIREMENTS.md 4.15.3 has it.
ReleaseUnlinking(p) ==
    /\ pc[p] = "held"
    /\ created < MaxInode
    /\ flock' = [flock EXCEPT ![fd[p]] = Nobody]
    /\ fd' = [fd EXCEPT ![p] = NoFile]
    /\ path' = NoFile
    /\ pc' = [pc EXCEPT ![p] = "idle"]
    /\ UNCHANGED <<created, content, deadline, busyHolder, replaced, alive, life>>

\* release(): LOCK_UN and close.  The file stays, and so does its content.
Release(p) ==
    /\ pc[p] = "held"
    /\ flock' = [flock EXCEPT ![fd[p]] = Nobody]
    /\ fd' = [fd EXCEPT ![p] = NoFile]
    /\ pc' = [pc EXCEPT ![p] = "idle"]
    /\ UNCHANGED <<path, created, content, deadline, busyHolder, replaced,
                   alive, life>>

\* A process dies anywhere.  The kernel closes its descriptor and frees its
\* flock; run.lock keeps what was last written to it.
Crash(p) ==
    /\ alive[p]
    /\ life[p] < MaxLife
    /\ alive' = [alive EXCEPT ![p] = FALSE]
    /\ flock' = [i \in Inode |-> IF flock[i] = p THEN Nobody ELSE flock[i]]
    /\ fd' = [fd EXCEPT ![p] = NoFile]
    /\ pc' = [pc EXCEPT ![p] = "idle"]
    /\ deadline' = [deadline EXCEPT ![p] = "immediate"]
    /\ busyHolder' = [busyHolder EXCEPT ![p] = NoHolder]
    /\ replaced' = [replaced EXCEPT ![p] = NoHolder]
    /\ UNCHANGED <<path, created, content, life>>

\* Another process gets the pid: the same number with another create_time.
Restart(p) ==
    /\ ~alive[p]
    /\ alive' = [alive EXCEPT ![p] = TRUE]
    /\ life' = [life EXCEPT ![p] = @ + 1]
    /\ UNCHANGED <<path, created, content, flock, fd, pc, deadline, busyHolder,
                   replaced>>

\* probe_lock() on a free lock: to learn that it is free it takes the flock ...
ProbeLock(q) ==
    /\ fd[q] = NoFile
    /\ path # NoFile
    /\ flock[path] = Nobody
    /\ flock' = [flock EXCEPT ![path] = q]
    /\ fd' = [fd EXCEPT ![q] = path]
    /\ UNCHANGED <<path, created, content, pc, deadline, busyHolder, replaced,
                   alive, life>>

\* ... and gives it back (by LOCK_UN, or by dying).  A probe that finds the
\* lock taken closes its descriptor and changes nothing.
ProbeUnlock(q) ==
    /\ fd[q] # NoFile
    /\ flock' = [flock EXCEPT ![fd[q]] = Nobody]
    /\ fd' = [fd EXCEPT ![q] = NoFile]
    /\ UNCHANGED <<path, created, content, pc, deadline, busyHolder, replaced,
                   alive, life>>

\* `rm state/run.lock`, which the operator may do once the process that held
\* the lock is confirmed dead: no process has the flock.
OperatorRemove ==
    /\ OperatorRemoves
    /\ path # NoFile
    /\ created < MaxInode
    /\ flock[path] = Nobody
    /\ path' = NoFile
    /\ UNCHANGED <<created, content, flock, fd, pc, deadline, busyHolder,
                   replaced, alive, life>>

Acquire(p) ==
    \/ Open(p) \/ DeadlinePasses(p) \/ TryLock(p) \/ Busy(p)
    \/ ReplaceHolder(p) \/ WriteHolder(p) \/ AcquireFails(p)

Next ==
    \/ \E p \in Process : Acquire(p) \/ Release(p) \/ Crash(p) \/ Restart(p)
    \/ \E q \in Prober : ProbeLock(q) \/ ProbeUnlock(q)
    \/ OperatorRemove

Spec == Init /\ [][Next]_vars

\* A call of acquire() keeps running: its retry loop polls, its clock advances
\* and the steps after the flock are straight-line code.  A probe is two system
\* calls.  Nothing obliges a holder to release, a process to die or to start.
Fairness ==
    /\ \A p \in Process :
          /\ WF_vars(TryLock(p) \/ Busy(p))
          /\ WF_vars(DeadlinePasses(p))
          /\ WF_vars(ReplaceHolder(p) \/ AcquireFails(p))
          /\ WF_vars(WriteHolder(p) \/ AcquireFails(p))
    /\ \A q \in Prober : WF_vars(ProbeUnlock(q))

FairSpec == Spec /\ Fairness

-----------------------------------------------------------------------------
(* Safety *)

\* At most one process is between the grant of the flock and its release:
\* what every "callers must hold the workspace lock" in the code relies on.
MutualExclusion ==
    \A p, q \in Process : InLock(p) /\ InLock(q) => p = q

\* Once acquire() returned, and until release() or death, run.lock names the
\* holder or nobody, never another process: an earlier holder's late write
\* cannot survive into a later tenure.
HeldNeverMisnamed ==
    \A p \in Process : pc[p] = "held" => ReadHolder \in {Self(p), Unreadable}

\* The previous holder acquire() reports as replaced because stale is a process
\* that does not exist any more, even when its pid has been reused.
StaleVerdictSound ==
    \A p \in Process : replaced[p] \in Holder => Gone(replaced[p])

\* Every flock belongs to a process that is inside the lock with a descriptor on
\* that inode or to a probe in flight: no failed acquire(), no crash and no
\* refused attempt leaves a lock behind that nobody will give back.
NoOrphanedFlock ==
    \A i \in Inode : flock[i] # Nobody =>
        /\ fd[flock[i]] = i
        /\ flock[i] \in Process => alive[flock[i]] /\ InLock(flock[i])

\* Implementation of ExclusiveLock: the processes inside it are those that have
\* the flock, a probe included for as long as it keeps it.
Promise == INSTANCE ExclusiveLock
    WITH Client <- Process \cup Prober,
         owners <- {p \in Process : InLock(p)} \cup {q \in Prober : fd[q] # NoFile}

\* Every step of acquire(), release(), a probe and a crash is, for the caller,
\* entering an empty lock, leaving it, or nothing.
ImplementsExclusiveLock == Promise!Spec

(* Liveness *)

\* A call of acquire() comes to an end whatever the current holder does: the
\* lock is granted, the caller is told that the workspace is busy or that the
\* call failed, or the caller itself is gone.
AcquireReturns ==
    \A p \in Process : pc[p] = "trying" ~> pc[p] \in {"held", "refused", "idle"}

=============================================================================
