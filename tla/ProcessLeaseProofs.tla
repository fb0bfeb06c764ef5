------------------------- MODULE ProcessLeaseProofs -------------------------
(***************************************************************************)
(* Proofs about ProcessLease, for any number of pids and any time: who is  *)
(* in a group that a cleaner signals, and what a lease knows of a child.   *)
(***************************************************************************)
EXTENDS ProcessLease, TLAPS

USE ProcessLeaseAssumption DEF Time

-----------------------------------------------------------------------------
(* The invariant *)

\* A child of the agent leads the group that has its pid, and never leaves it.
ProcessesProper ==
    \A q \in DOMAIN proc :
        /\ 1 <= proc[q].birth
        /\ proc[q].birth <= proc[q].settled
        /\ proc[q].settled <= now
        /\ proc[q].origin <= proc[q].birth
        /\ proc[q].origin = proc[q].birth =>
               proc[q].group = q /\ proc[q].settled = proc[q].birth

\* A pair of pid and create_time is one of a kind, even the time alone.
BirthsUnique ==
    \A q, r \in DOMAIN proc : proc[q].birth = proc[r].birth => q = r

\* A group is of one family: it is entered by birth only, or by its leader when
\* nobody is in it.
GroupsOfOneFamily ==
    \A q, r \in DOMAIN proc :
        /\ proc[q].group = proc[r].group => proc[q].origin = proc[r].origin
        /\ proc[r].group = q => proc[q].group = q

\* Nobody stays in the table for long but the child that is not waited for.
OnlyChildLingers ==
    \A q \in DOMAIN proc : proc[q].zombie => proc[q].birth = child

\* A lease or a task is about a child of the agent, by pid and create_time.
AboutChild(pid, birth) ==
    /\ 1 <= birth
    /\ birth <= now
    /\ \A q \in DOMAIN proc :
           proc[q].birth = birth => q = pid /\ proc[q].origin = birth

LeasesAboutChildren ==
    \A p \in DOMAIN lease : AboutChild(p, lease[p].birth)

TaskProper ==
    /\ pc \in {"idle", "reaped", "unlink"} \/ task.kind # "run" => child = 0
    /\ pc # "idle" => task.pid \in Pid /\ AboutChild(task.pid, task.lease.birth)
    /\ child # 0 => /\ child = task.lease.birth
                    /\ task.pid \in DOMAIN proc
                    /\ proc[task.pid].birth = child
    /\ pc = "started" => task.lease.status = "running"
    /\ pc \in {"started", "waiting"} => child # 0
    /\ pc = "reaped" => \A q \in DOMAIN proc : proc[q].birth # task.lease.birth
    /\ pc \notin {"idle", "started"} =>
           task.pid \in DOMAIN lease /\ lease[task.pid] = task.lease

\* Who is in the group g, or may make it, is of the run at hand, or was born
\* after the cleaner looked.
Owned(g) ==
    \A q \in DOMAIN proc :
        q = g \/ proc[q].group = g =>
            proc[q].origin = task.lease.birth \/ scan.since < proc[q].birth

\* What the look at the recorded pid is worth later.
DirectProper ==
    \A t \in scan.direct :
        /\ t.pid = task.pid
        /\ 4 <= t.score => Owned(t.group)
        /\ 7 <= t.score => t.group = task.pid
        /\ t.pid \in DOMAIN proc /\ proc[t.pid].settled <= scan.since =>
               proc[t.pid].group = t.group

ScanProper ==
    pc \in {"attribute", "term", "kill", "mark", "unlink"} =>
        /\ scan.since <= now
        /\ task.lease.birth <= scan.since
        /\ \A q \in DOMAIN proc : proc[q].birth <= scan.since => q \in scan.listed
        /\ DirectProper
        /\ \A g \in scan.groups : Owned(g)

\* The recorded process is still alive.
LeaderAlive == \E q \in DOMAIN proc : Alive(q) /\ proc[q].birth = task.lease.birth

\* What a cleanup has to reach.
InReach(q) ==
    /\ HasMarker(q)
    /\ proc[q].settled <= scan.since
    /\ task.force \/ proc[q].group = task.pid

\* The groups that are signalled have everybody that must not survive, and a
\* verdict that ends the lease is not about a recorded process that is alive.
VerdictProper ==
    /\ pc \in {"term", "kill"} =>
           /\ scan.verdict = "killed"
           /\ LeaderAlive => task.pid \in scan.groups
           /\ \A q \in DOMAIN proc : InReach(q) => proc[q].group \in scan.groups
    /\ pc = "mark" => /\ scan.verdict \in {"unknown", "unsafe_skip", "killed"}
                      /\ LeaderAlive => scan.verdict = "unsafe_skip"
    /\ pc = "unlink" => ~LeaderAlive

TableInv == ProcessesProper /\ BirthsUnique /\ GroupsOfOneFamily

LeaseInv ==
    /\ ProcTypeOK
    /\ TableInv
    /\ OnlyChildLingers
    /\ LeasesAboutChildren
    /\ TaskProper
    /\ ScanProper
    /\ VerdictProper
    /\ CleanupReaches
    /\ LiveLeaderOnRecord

-----------------------------------------------------------------------------
(* The process table *)

LEMMA Fields ==
    ASSUME NEW f, f \in [DOMAIN f -> Process], NEW q \in DOMAIN f
    PROVE  /\ f[q].birth \in Nat /\ f[q].settled \in Nat /\ f[q].origin \in Nat
           /\ f[q].group \in Pid
           /\ f[q].zombie \in BOOLEAN /\ f[q].marked \in BOOLEAN
<1>1. f[q] \in Process
  OBVIOUS
<1> QED
  BY <1>1 DEF Process

\* What one process becomes.
Stays(q) ==
    /\ q \in DOMAIN proc
    /\ proc'[q].birth = proc[q].birth
    /\ proc'[q].origin = proc[q].origin
    /\ proc'[q].marked => proc[q].marked
    /\ proc[q].zombie => proc'[q].zombie
    /\ \/ proc'[q].group = proc[q].group /\ proc'[q].settled = proc[q].settled
       \/ proc'[q].group = q /\ now < proc'[q].settled

\* What the table may become in a step: processes go, some change a little, and
\* what is new is younger than all that was.
Evolves ==
    /\ now <= now'
    /\ \A q \in DOMAIN proc' :
           \/ Stays(q)
           \/ now < proc'[q].birth /\ now < proc'[q].settled

\* Nobody is born and nobody changes its group.
Shrinks ==
    /\ now' = now
    /\ \A q \in DOMAIN proc' :
           /\ q \in DOMAIN proc
           /\ proc'[q].birth = proc[q].birth
           /\ proc'[q].origin = proc[q].origin
           /\ proc'[q].group = proc[q].group
           /\ proc'[q].settled = proc[q].settled
           /\ proc'[q].marked => proc[q].marked
           /\ proc[q].zombie => proc'[q].zombie

LEMMA ShrinkingEvolves ==
    ASSUME now \in Nat, Shrinks
    PROVE  Evolves
<1>1. now <= now'
  BY DEF Shrinks
<1>2. \A q \in DOMAIN proc' : Stays(q)
  BY Zenon DEF Shrinks, Stays
<1> QED
  BY <1>1, <1>2, Zenon DEF Evolves

LEMMA ShrinkingTable ==
    ASSUME TableInv, Shrinks
    PROVE  TableInv'
<1>1. ProcessesProper'
  BY DEF TableInv, ProcessesProper, Shrinks
<1>2. BirthsUnique'
  BY Zenon DEF TableInv, BirthsUnique, Shrinks
<1>3. GroupsOfOneFamily'
  BY DEF TableInv, GroupsOfOneFamily, Shrinks
<1> QED
  BY <1>1, <1>2, <1>3 DEF TableInv

\* The table with one process more, of a new group or of that of its parent.
Joins(p, process) ==
    /\ p \in Pid
    /\ Born(p, proc, process)
    /\ process \in Process
    /\ process.birth = now + 1 /\ process.settled = now + 1
    /\ \/ process.group = p /\ process.origin \in {0, now + 1}
       \/ \E q \in DOMAIN proc : process.group = proc[q].group /\ process.origin = proc[q].origin

LEMMA JoiningTable ==
    ASSUME ProcTypeOK, TableInv, NEW p, NEW process, Joins(p, process)
    PROVE  /\ TableInv' /\ Evolves
           /\ now' \in Time /\ DOMAIN proc' = DOMAIN proc \cup {p} /\ DOMAIN proc' \subseteq Pid
           /\ proc' \in [DOMAIN proc' -> Process]
           /\ p \notin DOMAIN proc /\ proc'[p] = process
           /\ \A q \in DOMAIN proc : proc'[q] = proc[q]
<1>1. /\ DOMAIN proc' = DOMAIN proc \cup {p}
      /\ p \notin DOMAIN proc
      /\ proc'[p] = process
      /\ \A q \in DOMAIN proc : proc'[q] = proc[q] /\ proc[q].group # p
      /\ now' = now + 1 /\ now < MaxTime
      /\ proc' = [q \in DOMAIN proc \cup {p} |-> IF q = p THEN process ELSE proc[q]]
  BY DEF Joins, Born, Free, With
<1>2. now \in Nat /\ DOMAIN proc \subseteq Pid /\ proc \in [DOMAIN proc -> Process]
  BY DEF ProcTypeOK
<1>3. proc' \in [DOMAIN proc' -> Process] /\ DOMAIN proc' \subseteq Pid
  <2>1. process \in Process /\ p \in Pid
    BY DEF Joins
  <2>2. \A q \in DOMAIN proc \cup {p} : (IF q = p THEN process ELSE proc[q]) \in Process
    BY <1>2, <2>1, Zenon
  <2> QED
    BY <1>1, <1>2, <2>1, <2>2, Zenon
<1>4. now' \in Time
  BY <1>1, <1>2
<1>5. \A q \in DOMAIN proc : /\ proc[q].birth \in Nat /\ proc[q].settled \in Nat
                             /\ proc[q].origin \in Nat
                             /\ 1 <= proc[q].birth /\ proc[q].birth <= now /\ proc[q].settled <= now
                             /\ proc[q].origin <= proc[q].birth /\ proc[q].birth <= proc[q].settled
  BY <1>2, Fields DEF TableInv, ProcessesProper
<1>6. process.birth = now + 1 /\ process.settled = now + 1
  BY DEF Joins
<1>7. \/ process.group = p /\ process.origin \in {0, now + 1}
      \/ \E q \in DOMAIN proc : process.group = proc[q].group /\ process.origin = proc[q].origin
  BY DEF Joins
<1>8. ProcessesProper'
  <2> SUFFICES ASSUME NEW q \in DOMAIN proc'
               PROVE  /\ 1 <= proc'[q].birth
                      /\ proc'[q].birth <= proc'[q].settled
                      /\ proc'[q].settled <= now'
                      /\ proc'[q].origin <= proc'[q].birth
                      /\ proc'[q].origin = proc'[q].birth =>
                             proc'[q].group = q /\ proc'[q].settled = proc'[q].birth
    BY DEF ProcessesProper
  <2>1. CASE q = p
    BY <1>1, <1>2, <1>5, <1>6, <1>7, <2>1
  <2>2. CASE q \in DOMAIN proc
    BY <1>1, <1>2, <1>5, <2>2 DEF TableInv, ProcessesProper
  <2> QED
    BY <1>1, <2>1, <2>2
<1>9. BirthsUnique'
  <2>1. \A q \in DOMAIN proc : proc[q].birth # process.birth
    BY <1>2, <1>5, <1>6
  <2> QED
    BY <1>1, <2>1 DEF TableInv, BirthsUnique
<1>10. GroupsOfOneFamily'
  <2> SUFFICES ASSUME NEW q \in DOMAIN proc', NEW r \in DOMAIN proc'
               PROVE  /\ proc'[q].group = proc'[r].group => proc'[q].origin = proc'[r].origin
                      /\ proc'[r].group = q => proc'[q].group = q
    BY DEF GroupsOfOneFamily
  <2>1. CASE q \in DOMAIN proc /\ r \in DOMAIN proc
    BY <1>1, <2>1 DEF TableInv, GroupsOfOneFamily
  <2>2. CASE q = p /\ r = p
    BY <2>2
  <2>3. CASE q = p /\ r \in DOMAIN proc
    <3>1. proc'[r].group # q
      BY <1>1, <2>3
    <3>2. proc'[q].group = proc'[r].group => proc'[q].origin = proc'[r].origin
      BY <1>1, <1>7, <2>3 DEF TableInv, GroupsOfOneFamily
    <3> QED
      BY <3>1, <3>2
  <2>4. CASE q \in DOMAIN proc /\ r = p
    BY <1>1, <1>7, <2>4 DEF TableInv, GroupsOfOneFamily
  <2> QED
    BY <1>1, <2>1, <2>2, <2>3, <2>4
<1>11. Evolves
  <2>1. now <= now' /\ now < process.birth /\ now < process.settled
    BY <1>1, <1>2, <1>6
  <2>2. \A q \in DOMAIN proc : Stays(q)
    BY <1>1, Zenon DEF Stays
  <2> QED
    BY <1>1, <2>1, <2>2, Zenon DEF Evolves
<1> QED
  BY <1>1, <1>3, <1>4, <1>8, <1>9, <1>10, <1>11 DEF TableInv

\* The table after setsid().
LEMMA EscapingTable ==
    ASSUME ProcTypeOK, TableInv, NEW p \in Pid, Escape(p)
    PROVE  /\ TableInv' /\ Evolves
           /\ now' \in Time /\ DOMAIN proc' = DOMAIN proc
           /\ proc' \in [DOMAIN proc' -> Process]
           /\ \A q \in DOMAIN proc : /\ proc'[q].birth = proc[q].birth
                                     /\ proc'[q].origin = proc[q].origin
                                     /\ proc'[q].zombie = proc[q].zombie
<1>1. /\ now < MaxTime /\ now' = now + 1 /\ p \in DOMAIN proc /\ proc[p].group # p
      /\ now \in Nat /\ DOMAIN proc \subseteq Pid /\ proc \in [DOMAIN proc -> Process]
      /\ now' \in Time
  BY DEF Escape, Alive, ProcTypeOK
<1>2. PICK process \in Process :
         /\ process = [proc[p] EXCEPT !.group = p, !.settled = now + 1]
         /\ process.group = p /\ process.settled = now + 1
         /\ process.birth = proc[p].birth /\ process.origin = proc[p].origin
         /\ process.marked = proc[p].marked /\ process.zombie = proc[p].zombie
  <2>1. proc[p] \in Process /\ now + 1 \in Time
    BY <1>1
  <2> HIDE DEF Time
  <2>2. [proc[p] EXCEPT !.group = p, !.settled = now + 1] \in Process
    BY <2>1, Zenon DEF Process
  <2> QED
    BY <2>1, <2>2, Zenon DEF Process
<1>3. proc' = [proc EXCEPT ![p] = process]
  BY <1>1, <1>2 DEF Escape
<1>4. /\ DOMAIN proc' = DOMAIN proc /\ proc'[p] = process
      /\ \A q \in DOMAIN proc : q # p => proc'[q] = proc[q]
      /\ proc' \in [DOMAIN proc' -> Process]
  BY <1>1, <1>3, Zenon
<1>5. \A q \in DOMAIN proc : /\ proc[q].birth \in Nat /\ proc[q].settled \in Nat
                             /\ proc[q].origin \in Nat
  BY <1>1, Fields
<1>6. \A q \in DOMAIN proc : proc[q].group # p
  BY <1>1 DEF TableInv, GroupsOfOneFamily
<1>7. ProcessesProper'
  <2>0. \A q \in DOMAIN proc :
           /\ 1 <= proc[q].birth
           /\ proc[q].birth <= proc[q].settled
           /\ proc[q].settled <= now
           /\ proc[q].settled <= now'
           /\ proc[q].origin <= proc[q].birth
           /\ proc[q].origin = proc[q].birth =>
                  proc[q].group = q /\ proc[q].settled = proc[q].birth
    BY <1>1, <1>5 DEF TableInv, ProcessesProper
  <2> SUFFICES ASSUME NEW q \in DOMAIN proc
               PROVE  /\ 1 <= proc'[q].birth
                      /\ proc'[q].birth <= proc'[q].settled
                      /\ proc'[q].settled <= now'
                      /\ proc'[q].origin <= proc'[q].birth
                      /\ proc'[q].origin = proc'[q].birth =>
                             proc'[q].group = q /\ proc'[q].settled = proc'[q].birth
    BY <1>4 DEF ProcessesProper
  <2>1. CASE q = p
    <3>1. /\ proc'[p].birth = proc[p].birth /\ proc'[p].origin = proc[p].origin
          /\ proc'[p].settled = now + 1
      BY <1>2, <1>4, Zenon
    <3>2. /\ proc[p].birth \in Nat /\ proc[p].settled \in Nat /\ proc[p].origin \in Nat
          /\ 1 <= proc[p].birth /\ proc[p].birth <= proc[p].settled /\ proc[p].settled <= now
          /\ proc[p].origin <= proc[p].birth /\ proc[p].origin # proc[p].birth
      BY <1>1, <1>5, <2>0
    <3> QED
      BY <1>1, <2>1, <3>1, <3>2
  <2>2. CASE q # p
    <3>1. proc'[q] = proc[q]
      BY <1>4, <2>2
    <3> QED
      BY <2>0, <3>1, Zenon
  <2> QED
    BY <2>1, <2>2
<1>8. BirthsUnique'
  <2>1. \A q \in DOMAIN proc : proc'[q].birth = proc[q].birth
    BY <1>2, <1>4, Zenon
  <2> QED
    BY <1>4, <2>1, Zenon DEF TableInv, BirthsUnique
<1>9. GroupsOfOneFamily'
  <2>1. \A q \in DOMAIN proc :
           /\ proc'[q].origin = proc[q].origin
           /\ proc'[q].group = IF q = p THEN p ELSE proc[q].group
    BY <1>2, <1>4, Zenon
  <2> QED
    BY <1>4, <1>6, <2>1 DEF TableInv, GroupsOfOneFamily
<1>10. Evolves
  <2>1. now <= now' /\ now < process.settled
    BY <1>1, <1>2
  <2>2. \A q \in DOMAIN proc : Stays(q)
    BY <1>2, <1>4, <2>1, Zenon DEF Stays
  <2> QED
    BY <1>4, <2>1, <2>2, Zenon DEF Evolves
<1> QED
  BY <1>1, <1>2, <1>4, <1>7, <1>8, <1>9, <1>10 DEF TableInv

-----------------------------------------------------------------------------
(* What a step of the table leaves true *)

LEMMA AgentFields ==
    ASSUME ProcTypeOK
    PROVE  /\ now \in Nat /\ task.lease.birth \in Nat /\ scan.since \in Nat /\ child \in Nat
           /\ task.lease \in Lease /\ task.force \in BOOLEAN
           /\ scan.direct \subseteq Target /\ scan.groups \subseteq Pid
<1>1. now \in Nat /\ child \in Nat
  BY DEF ProcTypeOK
<1>2. task.lease \in Lease /\ task.force \in BOOLEAN
  BY Zenon DEF ProcTypeOK, Task
<1>3. task.lease.birth \in Time
  BY <1>2, Zenon DEF Lease
<1>4. scan.since \in Time /\ scan.direct \subseteq Target /\ scan.groups \subseteq Pid
  BY Zenon DEF ProcTypeOK, Scan
<1> QED
  BY <1>1, <1>2, <1>3, <1>4

\* The table of a step, with its types.
TypedStep ==
    /\ ProcTypeOK
    /\ Evolves
    /\ now' \in Nat
    /\ proc' \in [DOMAIN proc' -> Process]

\* What is known stays known while the agent waits or signals.
Proceeds == pc' = pc \/ (pc \in {"term", "kill"} /\ pc' \in {"kill", "mark"})

\* A process that is as old as something before the step was in the table.
LEMMA OldOnesStay ==
    ASSUME TypedStep, NEW b \in Nat, b <= now, NEW q \in DOMAIN proc',
           proc'[q].birth <= b
    PROVE  Stays(q)
<1>1. now \in Nat /\ proc'[q].birth \in Nat
  BY AgentFields, Fields DEF TypedStep
<1> QED
  BY <1>1 DEF TypedStep, Evolves

\* And one that is as long in its group was in it.
LEMMA SettledOnesStay ==
    ASSUME TypedStep, NEW b \in Nat, b <= now, NEW q \in DOMAIN proc',
           proc'[q].settled <= b
    PROVE  /\ Stays(q)
           /\ proc'[q].group = proc[q].group /\ proc'[q].settled = proc[q].settled
<1>1. now \in Nat /\ proc'[q].settled \in Nat
  BY AgentFields, Fields DEF TypedStep
<1> QED
  BY <1>1 DEF TypedStep, Evolves, Stays

LEMMA AboutChildStays ==
    ASSUME TypedStep, NEW p, NEW b \in Nat, AboutChild(p, b)
    PROVE  AboutChild(p, b)'
<1>1. 1 <= b /\ b <= now /\ now <= now' /\ now \in Nat /\ now' \in Nat
  BY AgentFields DEF TypedStep, Evolves, AboutChild
<1>2. ASSUME NEW q \in DOMAIN proc', proc'[q].birth = b
      PROVE  q = p /\ proc'[q].origin = b
  <2>1. Stays(q)
    BY <1>1, <1>2, OldOnesStay
  <2> QED
    BY <1>2, <2>1, Zenon DEF Stays, AboutChild
<1> QED
  BY <1>1, <1>2 DEF AboutChild

LEMMA OwnedStays ==
    ASSUME TypedStep, UNCHANGED <<task, scan>>, scan.since <= now,
           NEW g, Owned(g)
    PROVE  Owned(g)'
<1> SUFFICES ASSUME NEW q \in DOMAIN proc', q = g \/ proc'[q].group = g
             PROVE  proc'[q].origin = task.lease.birth \/ scan.since < proc'[q].birth
  BY DEF Owned
<1>1. CASE Stays(q)
  <2>1. q \in DOMAIN proc /\ (q = g \/ proc[q].group = g)
    BY <1>1, Zenon DEF Stays
  <2> QED
    BY <1>1, <2>1, Zenon DEF Stays, Owned
<1>2. CASE ~Stays(q)
  <2>1. now < proc'[q].birth
    BY <1>2, Zenon DEF TypedStep, Evolves
  <2>2. now \in Nat /\ scan.since \in Nat /\ proc'[q].birth \in Nat
    BY AgentFields, Fields DEF TypedStep
  <2> QED
    BY <2>1, <2>2
<1> QED
  BY <1>1, <1>2

LEMMA ScanStays ==
    ASSUME TypedStep, Proceeds, UNCHANGED <<task, scan>>, ScanProper
    PROVE  ScanProper'
<1> SUFFICES ASSUME pc \in {"attribute", "term", "kill", "mark", "unlink"}
             PROVE  /\ scan.since <= now'
                    /\ task.lease.birth <= scan.since
                    /\ \A q \in DOMAIN proc' : proc'[q].birth <= scan.since => q \in scan.listed
                    /\ DirectProper'
                    /\ \A g \in scan.groups : Owned(g)'
  BY DEF ScanProper, Proceeds
<1>1. /\ scan.since <= now /\ now <= now' /\ now \in Nat /\ now' \in Nat /\ scan.since \in Nat
      /\ task.lease.birth <= scan.since
  BY AgentFields DEF ScanProper, TypedStep, Evolves
<1>2. \A q \in DOMAIN proc' : proc'[q].birth <= scan.since => q \in scan.listed
  <2> SUFFICES ASSUME NEW q \in DOMAIN proc', proc'[q].birth <= scan.since
               PROVE  q \in scan.listed
    OBVIOUS
  <2>1. q \in DOMAIN proc /\ proc[q].birth = proc'[q].birth
    BY <1>1, OldOnesStay, Zenon DEF Stays
  <2> QED
    BY <2>1, Zenon DEF ScanProper
<1>3. DirectProper'
  <2> SUFFICES ASSUME NEW t \in scan.direct
               PROVE  /\ t.pid = task.pid
                      /\ 4 <= t.score => Owned(t.group)'
                      /\ 7 <= t.score => t.group = task.pid
                      /\ t.pid \in DOMAIN proc' /\ proc'[t.pid].settled <= scan.since =>
                             proc'[t.pid].group = t.group
    BY Zenon DEF DirectProper
  <2>1. DirectProper
    BY Zenon DEF ScanProper
  <2>2. 4 <= t.score => Owned(t.group)'
    BY <1>1, <2>1, OwnedStays, Zenon DEF DirectProper
  <2>3. ASSUME t.pid \in DOMAIN proc', proc'[t.pid].settled <= scan.since
        PROVE  proc'[t.pid].group = t.group
    <3>1. t.pid \in DOMAIN proc /\ proc'[t.pid].group = proc[t.pid].group
             /\ proc[t.pid].settled <= scan.since
      BY <1>1, <2>3, SettledOnesStay, Zenon DEF Stays
    <3> QED
      BY <2>1, <3>1, Zenon DEF DirectProper
  <2> QED
    BY <2>1, <2>2, <2>3, Zenon DEF DirectProper
<1>4. \A g \in scan.groups : Owned(g)'
  BY <1>1, OwnedStays, Zenon DEF ScanProper
<1> QED
  BY <1>1, <1>2, <1>3, <1>4

LEMMA LeaderStays ==
    ASSUME TypedStep, UNCHANGED task, task.lease.birth <= now, LeaderAlive'
    PROVE  LeaderAlive
<1>1. PICK q \in DOMAIN proc' : ~proc'[q].zombie /\ proc'[q].birth = task.lease.birth
  BY Zenon DEF LeaderAlive, Alive
<1>2. task.lease.birth \in Nat /\ proc'[q].birth <= task.lease.birth
  BY <1>1, AgentFields DEF TypedStep
<1>3. Stays(q)
  BY <1>2, OldOnesStay
<1> QED
  BY <1>1, <1>3, Zenon DEF Stays, LeaderAlive, Alive

\* Whoever has the marker of the task and is where it was when the cleaner
\* looked, had it and was there before the step.
LEMMA MarkedStays ==
    ASSUME TypedStep, UNCHANGED <<task, scan>>, scan.since <= now,
           NEW q \in DOMAIN proc', HasMarker(q)', proc'[q].settled <= scan.since
    PROVE  /\ q \in DOMAIN proc /\ HasMarker(q) /\ proc[q].settled <= scan.since
           /\ proc'[q].group = proc[q].group
<1>1. scan.since \in Nat
  BY AgentFields DEF TypedStep
<1>2. /\ Stays(q)
      /\ proc'[q].group = proc[q].group /\ proc'[q].settled = proc[q].settled
  BY <1>1, SettledOnesStay
<1> QED
  BY <1>2, Zenon DEF Stays, HasMarker, Alive

LEMMA VerdictStays ==
    ASSUME TypedStep, UNCHANGED <<pc, task, scan>>, ScanProper, VerdictProper, CleanupReaches
    PROVE  VerdictProper' /\ CleanupReaches'
<1> DEFINE Later == pc \in {"term", "kill", "mark", "unlink"}
<1>1. CASE ~Later
  BY <1>1 DEF VerdictProper, CleanupReaches
<1>2. CASE Later
  <2>1. scan.since <= now /\ task.lease.birth <= now
    BY <1>2, AgentFields DEF ScanProper, TypedStep
  <2>2. LeaderAlive' => LeaderAlive
    BY <2>1, LeaderStays
  <2>3. \A q \in DOMAIN proc' :
           HasMarker(q)' /\ proc'[q].settled <= scan.since =>
               /\ q \in DOMAIN proc /\ HasMarker(q) /\ proc[q].settled <= scan.since
               /\ proc'[q].group = proc[q].group
    BY <2>1, MarkedStays
  <2>4. \A q \in DOMAIN proc' : InReach(q)' =>
           q \in DOMAIN proc /\ InReach(q) /\ proc'[q].group = proc[q].group
    BY <2>3, Zenon DEF InReach
  <2>5. VerdictProper'
    BY <2>2, <2>4, Zenon DEF VerdictProper
  <2>6. CleanupReaches'
    BY <2>3, Zenon DEF CleanupReaches
  <2> QED
    BY <2>5, <2>6
<1> QED
  BY <1>1, <1>2

\* A child that lives on is on record as before.
LEMMA RecordStays ==
    ASSUME LiveLeaderOnRecord, Proceeds, UNCHANGED <<task, lease>>, lost \subseteq lost',
           \A q \in DOMAIN proc' : Stays(q) \/ proc'[q].origin # proc'[q].birth
    PROVE  LiveLeaderOnRecord'
<1> SUFFICES ASSUME NEW q \in DOMAIN proc', ~proc'[q].zombie, proc'[q].origin = proc'[q].birth
             PROVE  \/ /\ q \in DOMAIN lease
                       /\ lease[q].birth = proc'[q].birth
                       /\ lease[q].status \in {"running", "unsafe_skip"}
                    \/ pc = "started" /\ task.lease.birth = proc'[q].birth
                    \/ proc'[q].birth \in lost'
  <2>1. pc' = "started" <=> pc = "started"
    BY DEF Proceeds
  <2> QED
    BY <2>1, Zenon DEF LiveLeaderOnRecord, Alive
<1>1. /\ q \in DOMAIN proc /\ ~proc[q].zombie /\ proc[q].origin = proc[q].birth
      /\ proc'[q].birth = proc[q].birth
  BY Zenon DEF Stays
<1>2. \/ /\ q \in DOMAIN lease
         /\ lease[q].birth = proc[q].birth
         /\ lease[q].status \in {"running", "unsafe_skip"}
      \/ pc = "started" /\ task.lease.birth = proc[q].birth
      \/ proc[q].birth \in lost
  BY <1>1, Zenon DEF LiveLeaderOnRecord, Alive
<1> QED
  BY <1>1, <1>2

LEMMA TaskStays ==
    ASSUME TypedStep, Proceeds, UNCHANGED <<task, child, lease>>, TaskProper, LeasesAboutChildren,
           child # 0 => task.pid \in DOMAIN proc' /\ proc'[task.pid].birth = child
    PROVE  TaskProper' /\ LeasesAboutChildren'
<1>1. LeasesAboutChildren'
  <2>1. \A p \in DOMAIN lease : lease[p].birth \in Nat
    <3>1. \A p \in DOMAIN lease : lease[p] \in Lease
      BY Zenon DEF TypedStep, ProcTypeOK
    <3> QED
      BY <3>1 DEF Lease
  <2> QED
    BY <2>1, AboutChildStays, Zenon DEF LeasesAboutChildren
<1>2. pc # "idle" => AboutChild(task.pid, task.lease.birth)'
  BY AgentFields, AboutChildStays, Zenon DEF TypedStep, TaskProper
<1>3. pc = "reaped" => \A q \in DOMAIN proc' : proc'[q].birth # task.lease.birth
  <2> SUFFICES ASSUME pc = "reaped", NEW q \in DOMAIN proc', proc'[q].birth = task.lease.birth
               PROVE  FALSE
    OBVIOUS
  <2>1. task.lease.birth \in Nat /\ task.lease.birth <= now
    BY AgentFields DEF TypedStep, TaskProper, AboutChild
  <2>2. Stays(q)
    BY <2>1, OldOnesStay
  <2> QED
    BY <2>2, Zenon DEF Stays, TaskProper
<1> QED
  BY <1>1, <1>2, <1>3 DEF TaskProper, Proceeds

-----------------------------------------------------------------------------
(* The steps of the operating system *)

\* The processes of f are those of the table, or fewer.
SameFields(f, r) ==
    /\ f[r].birth = proc[r].birth /\ f[r].settled = proc[r].settled
    /\ f[r].origin = proc[r].origin /\ f[r].group = proc[r].group
    /\ f[r].marked = proc[r].marked

LEMMA AfterTable ==
    ASSUME proc \in [DOMAIN proc -> Process], NEW S
    PROVE  /\ After(S) \in [DOMAIN After(S) -> Process]
           /\ \A r : r \in DOMAIN After(S)
                   <=> r \in DOMAIN proc /\ (r \notin S \/ proc[r].birth = child)
           /\ \A r \in DOMAIN After(S) :
                  /\ SameFields(After(S), r)
                  /\ After(S)[r].zombie <=> (proc[r].zombie \/ r \in S)
<1> DEFINE dead == {q \in S \cap DOMAIN proc : proc[q].birth # child}
           f == [q \in DOMAIN proc \ dead |->
                    IF q \in S THEN [proc[q] EXCEPT !.zombie = TRUE] ELSE proc[q]]
<1>1. After(S) = f
  BY Zenon DEF After
<1>2. \A r \in DOMAIN proc : proc[r] \in Process
  OBVIOUS
<1>3. \A r \in DOMAIN proc :
         /\ [proc[r] EXCEPT !.zombie = TRUE] \in Process
         /\ [proc[r] EXCEPT !.zombie = TRUE].birth = proc[r].birth
         /\ [proc[r] EXCEPT !.zombie = TRUE].settled = proc[r].settled
         /\ [proc[r] EXCEPT !.zombie = TRUE].origin = proc[r].origin
         /\ [proc[r] EXCEPT !.zombie = TRUE].group = proc[r].group
         /\ [proc[r] EXCEPT !.zombie = TRUE].marked = proc[r].marked
         /\ [proc[r] EXCEPT !.zombie = TRUE].zombie
  BY <1>2, Zenon DEF Process
<1>4. f \in [DOMAIN f -> Process]
  BY <1>2, <1>3, Zenon
<1>5. \A r : r \in DOMAIN f <=> r \in DOMAIN proc /\ (r \notin S \/ proc[r].birth = child)
  BY Zenon
<1>6. ASSUME NEW r \in DOMAIN f
      PROVE  SameFields(f, r) /\ (f[r].zombie <=> (proc[r].zombie \/ r \in S))
  <2>1. CASE r \in S
    <3>1. f[r] = [proc[r] EXCEPT !.zombie = TRUE] /\ r \in DOMAIN proc
      BY <1>6, <2>1, Zenon
    <3> QED
      BY <1>3, <2>1, <3>1, Zenon DEF SameFields
  <2>2. CASE r \notin S
    <3>1. f[r] = proc[r]
      BY <1>6, <2>2, Zenon
    <3> QED
      BY <2>2, <3>1, Zenon DEF SameFields
  <2> QED
    BY <2>1, <2>2
<1> HIDE DEF f
<1> QED
  BY <1>1, <1>4, <1>5, <1>6, Zenon

LEMMA WithoutTable ==
    ASSUME NEW f, NEW T, f \in [DOMAIN f -> T], NEW S
    PROVE  /\ Without(f, S) \in [DOMAIN Without(f, S) -> T]
           /\ DOMAIN Without(f, S) = DOMAIN f \ S
           /\ \A r \in DOMAIN f \ S : Without(f, S)[r] = f[r]
BY Zenon DEF Without, Restrict

\* A step that is not the agent's, and leaves its child in the table.
LEMMA OutsideStep ==
    ASSUME LeaseInv, TypedStep, TableInv', OnlyChildLingers',
           now' \in Time, DOMAIN proc' \subseteq Pid,
           UNCHANGED <<lease, pc, task, child, scan, lost>>,
           child # 0 => task.pid \in DOMAIN proc' /\ proc'[task.pid].birth = child,
           \A q \in DOMAIN proc' : Stays(q) \/ proc'[q].origin # proc'[q].birth
    PROVE  LeaseInv'
<1>1. ProcTypeOK'
  BY Zenon DEF LeaseInv, ProcTypeOK, TypedStep
<1>2. TaskProper' /\ LeasesAboutChildren'
  BY TaskStays DEF LeaseInv, Proceeds
<1>3. ScanProper' /\ VerdictProper' /\ CleanupReaches'
  BY ScanStays, VerdictStays DEF LeaseInv, Proceeds
<1>4. LiveLeaderOnRecord'
  BY RecordStays DEF LeaseInv, Proceeds
<1> QED
  BY <1>1, <1>2, <1>3, <1>4 DEF LeaseInv

LEMMA JoiningKeeps ==
    ASSUME LeaseInv, NEW p, NEW process, Joins(p, process), ~process.zombie,
           process.origin # now + 1,
           UNCHANGED <<lease, pc, task, child, scan, lost>>
    PROVE  LeaseInv'
<1>1. /\ TableInv' /\ Evolves
      /\ now' \in Time /\ DOMAIN proc' = DOMAIN proc \cup {p} /\ DOMAIN proc' \subseteq Pid
      /\ proc' \in [DOMAIN proc' -> Process]
      /\ p \notin DOMAIN proc /\ proc'[p] = process
      /\ \A q \in DOMAIN proc : proc'[q] = proc[q]
  BY JoiningTable DEF LeaseInv
<1>2. TypedStep
  BY <1>1 DEF LeaseInv, TypedStep
<1>3. OnlyChildLingers'
  BY <1>1, Zenon DEF LeaseInv, OnlyChildLingers
<1>4. child # 0 => task.pid \in DOMAIN proc' /\ proc'[task.pid].birth = child
  BY <1>1 DEF LeaseInv, TaskProper
<1>5. process.birth = now + 1
  BY DEF Joins
<1>6. \A q \in DOMAIN proc' : Stays(q) \/ proc'[q].origin # proc'[q].birth
  <2>1. \A q \in DOMAIN proc : Stays(q)
    BY <1>1, Zenon DEF Stays
  <2> QED
    BY <1>1, <1>5, <2>1, Zenon
<1> QED
  BY <1>1, <1>2, <1>3, <1>4, <1>6, OutsideStep

LEMMA StrangerKeeps ==
    ASSUME LeaseInv, NEW p \in Pid, StrangerStarts(p)
    PROVE  LeaseInv'
<1>1. now \in Nat /\ now < MaxTime
  BY AgentFields DEF LeaseInv, StrangerStarts, Born
<1>2. PICK process : process = [birth |-> now + 1, settled |-> now + 1, group |-> p,
                                origin |-> 0, marked |-> FALSE, zombie |-> FALSE]
  OBVIOUS
<1>3. now + 1 \in Time /\ 0 \in Time /\ 0 # now + 1
  BY <1>1
<1>4. /\ process \in Process /\ ~process.zombie /\ process.origin = 0
      /\ process.birth = now + 1 /\ process.settled = now + 1 /\ process.group = p
  <2> HIDE DEF Time
  <2> QED
    BY <1>2, <1>3 DEF Process
<1>5. Joins(p, process)
  BY <1>2, <1>4 DEF Joins, StrangerStarts
<1> QED
  BY <1>3, <1>4, <1>5, JoiningKeeps DEF StrangerStarts

LEMMA ForkKeeps ==
    ASSUME LeaseInv, NEW q \in Pid, NEW p \in Pid, Fork(q, p)
    PROVE  LeaseInv'
<1>1. PICK marked \in {proc[q].marked, FALSE} :
         Born(p, proc, [proc[q] EXCEPT !.birth = now + 1, !.settled = now + 1,
                                       !.marked = marked])
  BY Zenon DEF Fork
<1>2. PICK process : process = [proc[q] EXCEPT !.birth = now + 1, !.settled = now + 1,
                                               !.marked = marked]
  OBVIOUS
<1>3. q \in DOMAIN proc /\ proc \in [DOMAIN proc -> Process] /\ ~proc[q].zombie
  BY DEF Fork, Alive, LeaseInv, ProcTypeOK
<1>4. now \in Nat /\ now < MaxTime /\ now + 1 \in Time
  BY <1>1, AgentFields DEF LeaseInv, Born
<1>5. marked \in BOOLEAN
  BY <1>3, Fields
<1>6. /\ process \in Process /\ process.birth = now + 1 /\ process.settled = now + 1
      /\ process.group = proc[q].group /\ process.origin = proc[q].origin
      /\ process.zombie = proc[q].zombie
  <2> HIDE DEF Time
  <2>1. proc[q] \in Process
    BY <1>3
  <2> QED
    BY <1>2, <1>4, <1>5, <2>1, Zenon DEF Process
<1>7. proc[q].origin # now + 1
  <2>1. /\ proc[q].origin \in Nat /\ proc[q].birth \in Nat /\ proc[q].settled \in Nat
        /\ proc[q].origin <= proc[q].birth /\ proc[q].birth <= proc[q].settled
        /\ proc[q].settled <= now
    BY <1>3, Fields DEF LeaseInv, TableInv, ProcessesProper
  <2> QED
    BY <1>4, <2>1
<1>8. Joins(p, process)
  BY <1>1, <1>2, <1>3, <1>6 DEF Joins
<1> QED
  BY <1>3, <1>6, <1>7, <1>8, JoiningKeeps DEF Fork

LEMMA EscapeKeeps ==
    ASSUME LeaseInv, NEW p \in Pid, Escape(p)
    PROVE  LeaseInv'
<1>1. /\ TableInv' /\ Evolves
      /\ now' \in Time /\ DOMAIN proc' = DOMAIN proc
      /\ proc' \in [DOMAIN proc' -> Process]
      /\ \A q \in DOMAIN proc : /\ proc'[q].birth = proc[q].birth
                                /\ proc'[q].origin = proc[q].origin
                                /\ proc'[q].zombie = proc[q].zombie
  BY EscapingTable DEF LeaseInv
<1>2. TypedStep /\ DOMAIN proc' \subseteq Pid
  BY <1>1 DEF LeaseInv, TypedStep, ProcTypeOK
<1>3. UNCHANGED <<lease, pc, task, child, scan, lost>>
  BY DEF Escape
<1>4. OnlyChildLingers'
  BY <1>1, <1>3, Zenon DEF LeaseInv, OnlyChildLingers
<1>5. child # 0 => task.pid \in DOMAIN proc' /\ proc'[task.pid].birth = child
  BY <1>1 DEF LeaseInv, TaskProper
<1>6. \A q \in DOMAIN proc' : Stays(q) \/ proc'[q].origin # proc'[q].birth
  <2> SUFFICES ASSUME NEW q \in DOMAIN proc', proc'[q].origin = proc'[q].birth
               PROVE  Stays(q)
    OBVIOUS
  <2>1. proc[q].origin = proc[q].birth /\ q \in DOMAIN proc
    BY <1>1
  <2>2. q # p
    BY <2>1 DEF Escape, LeaseInv, TableInv, ProcessesProper
  <2>3. proc'[q] = proc[q]
    BY <2>1, <2>2 DEF Escape
  <2> QED
    BY <2>1, <2>3, Zenon DEF Stays
<1> QED
  BY <1>1, <1>2, <1>3, <1>4, <1>5, <1>6, OutsideStep

\* Nobody is born, and the child stays.
LEMMA ShrinkingKeeps ==
    ASSUME LeaseInv, Shrinks, OnlyChildLingers',
           proc' \in [DOMAIN proc' -> Process],
           UNCHANGED <<lease, pc, task, child, scan, lost>>,
           \A q \in DOMAIN proc : proc[q].birth = child => q \in DOMAIN proc'
    PROVE  LeaseInv'
<1>1. TypedStep /\ now' \in Time /\ DOMAIN proc' \subseteq Pid
  <2>1. now \in Nat /\ now \in Time /\ now' = now /\ DOMAIN proc' \subseteq DOMAIN proc
        /\ DOMAIN proc \subseteq Pid
    BY DEF LeaseInv, ProcTypeOK, Shrinks
  <2> QED
    BY <2>1, ShrinkingEvolves DEF LeaseInv, TypedStep
<1>2. TableInv'
  BY ShrinkingTable DEF LeaseInv
<1>3. child # 0 => task.pid \in DOMAIN proc' /\ proc'[task.pid].birth = child
  BY Zenon DEF LeaseInv, TaskProper, Shrinks
<1>4. \A q \in DOMAIN proc' : Stays(q)
  BY Zenon DEF Shrinks, Stays
<1> QED
  BY <1>1, <1>2, <1>3, <1>4, OutsideStep

LEMMA DropMarkerKeeps ==
    ASSUME LeaseInv, NEW p \in Pid, DropMarker(p)
    PROVE  LeaseInv'
<1>1. p \in DOMAIN proc /\ proc \in [DOMAIN proc -> Process]
  BY DEF DropMarker, Alive, LeaseInv, ProcTypeOK
<1>2. PICK process \in Process :
         /\ process = [proc[p] EXCEPT !.marked = FALSE]
         /\ process.birth = proc[p].birth /\ process.settled = proc[p].settled
         /\ process.origin = proc[p].origin /\ process.group = proc[p].group
         /\ process.zombie = proc[p].zombie /\ ~process.marked
  <2>1. proc[p] \in Process
    BY <1>1
  <2>2. [proc[p] EXCEPT !.marked = FALSE] \in Process
    BY <2>1, Zenon DEF Process
  <2> QED
    BY <2>1, <2>2, Zenon DEF Process
<1>3. proc' = [proc EXCEPT ![p] = process]
  BY <1>1, <1>2 DEF DropMarker
<1>4. /\ DOMAIN proc' = DOMAIN proc /\ proc'[p] = process
      /\ \A q \in DOMAIN proc : q # p => proc'[q] = proc[q]
      /\ proc' \in [DOMAIN proc' -> Process]
  BY <1>1, <1>3, Zenon
<1>5. Shrinks
  BY <1>2, <1>4, Zenon DEF Shrinks, DropMarker
<1>6. OnlyChildLingers'
  BY <1>2, <1>4, Zenon DEF LeaseInv, OnlyChildLingers, DropMarker
<1> QED
  BY <1>4, <1>5, <1>6, ShrinkingKeeps DEF DropMarker

\* Deaths, of whomever.
LEMMA DyingTable ==
    ASSUME LeaseInv, NEW S, proc' = After(S), now' = now, child' = child
    PROVE  /\ Shrinks /\ OnlyChildLingers'
           /\ proc' \in [DOMAIN proc' -> Process]
           /\ \A q \in DOMAIN proc : proc[q].birth = child => q \in DOMAIN proc'
           /\ \A q \in DOMAIN proc' : q \in S => proc'[q].zombie
<1>1. /\ proc' \in [DOMAIN proc' -> Process]
      /\ \A r : r \in DOMAIN proc'
              <=> r \in DOMAIN proc /\ (r \notin S \/ proc[r].birth = child)
      /\ \A r \in DOMAIN proc' : /\ SameFields(proc', r)
                                 /\ proc'[r].zombie <=> (proc[r].zombie \/ r \in S)
  BY AfterTable DEF LeaseInv, ProcTypeOK
<1>2. Shrinks
  BY <1>1, Zenon DEF Shrinks, SameFields
<1>3. OnlyChildLingers'
  BY <1>1, Zenon DEF LeaseInv, OnlyChildLingers, SameFields
<1> QED
  BY <1>1, <1>2, <1>3, Zenon

LEMMA ExitKeeps ==
    ASSUME LeaseInv, NEW p \in Pid, Exit(p)
    PROVE  LeaseInv'
BY DyingTable, ShrinkingKeeps DEF Exit

LEMMA EnvironmentKeeps ==
    ASSUME LeaseInv, Environment
    PROVE  LeaseInv'
BY StrangerKeeps, ForkKeeps, EscapeKeeps, DropMarkerKeeps, ExitKeeps, Zenon DEF Environment

-----------------------------------------------------------------------------
(* The agent's run of a child *)

LEMMA ReapedTable ==
    ASSUME LeaseInv, proc' = Reaped, now' = now
    PROVE  /\ Shrinks
           /\ proc' \in [DOMAIN proc' -> Process]
           /\ \A q \in DOMAIN proc' : ~proc'[q].zombie
           /\ \A q : q \in DOMAIN proc' <=> q \in DOMAIN proc /\ ~proc[q].zombie
<1>1. /\ proc' \in [DOMAIN proc' -> Process]
      /\ DOMAIN proc' = DOMAIN proc \ {q \in DOMAIN proc : proc[q].zombie}
      /\ \A r \in DOMAIN proc \ {q \in DOMAIN proc : proc[q].zombie} : proc'[r] = proc[r]
  <2> DEFINE Z == {q \in DOMAIN proc : proc[q].zombie}
  <2>1. proc \in [DOMAIN proc -> Process] /\ proc' = Without(proc, Z)
    BY DEF LeaseInv, ProcTypeOK, Reaped
  <2> HIDE DEF Z
  <2>2. /\ proc' \in [DOMAIN proc' -> Process]
        /\ DOMAIN proc' = DOMAIN proc \ Z
        /\ \A r \in DOMAIN proc \ Z : proc'[r] = proc[r]
    <3>1. /\ Without(proc, Z) \in [DOMAIN Without(proc, Z) -> Process]
          /\ DOMAIN Without(proc, Z) = DOMAIN proc \ Z
          /\ \A r \in DOMAIN proc \ Z : Without(proc, Z)[r] = proc[r]
      BY <2>1, WithoutTable
    <3> QED
      BY <2>1, <3>1
  <2> QED
    BY <2>2 DEF Z
<1>2. \A q \in DOMAIN proc' : q \in DOMAIN proc /\ proc'[q] = proc[q] /\ ~proc[q].zombie
  BY <1>1, Zenon
<1> QED
  BY <1>1, <1>2, Zenon DEF Shrinks

LEMMA NoWorkTypes == NoTask \in Task /\ NoScan \in Scan
<1>1. NoTask \in Task
  BY DEF NoTask, Task, Lease
<1>2. NoScan \in Scan
  BY DEF NoScan, Scan
<1> QED
  BY <1>1, <1>2

\* While the table only shrinks and the agent works on, what is known of leases
\* and of the recorded children stays so.
LEMMA ShrinkingStep ==
    ASSUME LeaseInv, Shrinks, proc' \in [DOMAIN proc' -> Process]
    PROVE  /\ TypedStep /\ TableInv'
           /\ now' \in Time /\ DOMAIN proc' \subseteq Pid
           /\ \A p : \A b \in Nat : AboutChild(p, b) => AboutChild(p, b)'
<1>1. TypedStep /\ now' \in Time /\ DOMAIN proc' \subseteq Pid
  <2>1. now \in Nat /\ now \in Time /\ now' = now /\ DOMAIN proc' \subseteq DOMAIN proc
        /\ DOMAIN proc \subseteq Pid
    BY DEF LeaseInv, ProcTypeOK, Shrinks
  <2> QED
    BY <2>1, ShrinkingEvolves DEF LeaseInv, TypedStep
<1>2. TableInv'
  BY ShrinkingTable DEF LeaseInv
<1> QED
  BY <1>1, <1>2, AboutChildStays

\* The end of a task.
LEMMA FinishKeeps ==
    ASSUME LeaseInv, Finish, Shrinks, proc' \in [DOMAIN proc' -> Process],
           \A q \in DOMAIN proc' : ~proc'[q].zombie,
           DOMAIN lease' \subseteq Pid, lease' \in [DOMAIN lease' -> Lease],
           \A p \in DOMAIN lease' : p \in DOMAIN lease /\ lease'[p].birth = lease[p].birth,
           lost' \subseteq Time,
           LiveLeaderOnRecord'
    PROVE  LeaseInv'
<1>1. /\ TableInv'
      /\ now' \in Time /\ DOMAIN proc' \subseteq Pid
      /\ \A p : \A b \in Nat : AboutChild(p, b) => AboutChild(p, b)'
  BY ShrinkingStep
<1>2. ProcTypeOK'
  <2>1. pc' = "idle" /\ task' \in Task /\ child' \in Time /\ scan' \in Scan
    BY NoWorkTypes DEF Finish
  <2> QED
    BY <1>1, <2>1 DEF ProcTypeOK
<1>3. LeasesAboutChildren'
  <2>1. \A p \in DOMAIN lease : lease[p].birth \in Nat
    <3>1. \A p \in DOMAIN lease : lease[p] \in Lease
      BY Zenon DEF LeaseInv, ProcTypeOK
    <3> QED
      BY <3>1 DEF Lease
  <2> QED
    BY <1>1, <2>1, Zenon DEF LeaseInv, LeasesAboutChildren
<1>4. OnlyChildLingers'
  BY Zenon DEF OnlyChildLingers
<1>5. TaskProper' /\ ScanProper' /\ VerdictProper' /\ CleanupReaches'
  BY DEF Finish, TaskProper, ScanProper, VerdictProper, CleanupReaches
<1> QED
  BY <1>1, <1>2, <1>3, <1>4, <1>5 DEF LeaseInv

\* The end of a task that changes no lease: every child that lives on is on
\* record, as long as the one at hand is not lost.
LEMMA FinishSilently ==
    ASSUME LeaseInv, Finish, Shrinks, proc' \in [DOMAIN proc' -> Process],
           \A q \in DOMAIN proc' : ~proc'[q].zombie,
           UNCHANGED lease, lost \subseteq lost', lost' \subseteq Time,
           pc = "started" =>
               task.lease.birth \in lost' \/ \A q \in DOMAIN proc' : proc'[q].birth # task.lease.birth
    PROVE  LeaseInv'
<1>1. LiveLeaderOnRecord'
  <2> SUFFICES ASSUME NEW q \in DOMAIN proc', ~proc'[q].zombie, proc'[q].origin = proc'[q].birth
               PROVE  \/ /\ q \in DOMAIN lease
                         /\ lease[q].birth = proc'[q].birth
                         /\ lease[q].status \in {"running", "unsafe_skip"}
                      \/ proc'[q].birth \in lost'
    BY Zenon DEF LiveLeaderOnRecord, Alive
  <2>1. /\ q \in DOMAIN proc /\ ~proc[q].zombie /\ proc[q].origin = proc[q].birth
        /\ proc'[q].birth = proc[q].birth
    BY Zenon DEF Shrinks
  <2>2. \/ /\ q \in DOMAIN lease
           /\ lease[q].birth = proc[q].birth
           /\ lease[q].status \in {"running", "unsafe_skip"}
        \/ pc = "started" /\ task.lease.birth = proc[q].birth
        \/ proc[q].birth \in lost
    BY <2>1, Zenon DEF LeaseInv, LiveLeaderOnRecord, Alive
  <2> QED
    BY <2>1, <2>2, Zenon
<1> QED
  BY <1>1, FinishKeeps DEF LeaseInv, ProcTypeOK

LEMMA RegisterFailsKeeps ==
    ASSUME LeaseInv, RegisterFails
    PROVE  LeaseInv'
<1>1. PICK S \in SUBSET Members({task.pid}) :
         task.pid \in S /\ proc' = Without(After(S), {task.pid})
  BY DEF RegisterFails
<1>2. /\ After(S) \in [DOMAIN After(S) -> Process]
      /\ \A r : r \in DOMAIN After(S)
              <=> r \in DOMAIN proc /\ (r \notin S \/ proc[r].birth = child)
      /\ \A r \in DOMAIN After(S) :
             /\ SameFields(After(S), r)
             /\ After(S)[r].zombie <=> (proc[r].zombie \/ r \in S)
  BY AfterTable DEF LeaseInv, ProcTypeOK
<1>3. /\ proc' \in [DOMAIN proc' -> Process]
      /\ DOMAIN proc' = DOMAIN After(S) \ {task.pid}
      /\ \A r \in DOMAIN After(S) \ {task.pid} : proc'[r] = After(S)[r]
  <2>1. PICK f : f = After(S) /\ f \in [DOMAIN f -> Process]
    BY <1>2
  <2>2. PICK gone : gone = {task.pid}
    OBVIOUS
  <2>3. /\ Without(f, gone) \in [DOMAIN Without(f, gone) -> Process]
        /\ DOMAIN Without(f, gone) = DOMAIN f \ gone
        /\ \A r \in DOMAIN f \ gone : Without(f, gone)[r] = f[r]
    BY <2>1, WithoutTable
  <2> QED
    BY <1>1, <2>1, <2>2, <2>3
<1>4. Shrinks
  <2>1. now' = now
    BY DEF RegisterFails
  <2> QED
    BY <1>2, <1>3, <2>1, Zenon DEF Shrinks, SameFields
<1>5. pc = "started" /\ child # 0 /\ \A q \in DOMAIN proc : proc[q].birth = child => q = task.pid
  BY DEF RegisterFails, LeaseInv, TaskProper, AboutChild
<1>6. \A q \in DOMAIN proc' : ~proc'[q].zombie
  <2> SUFFICES ASSUME NEW q \in DOMAIN proc', proc'[q].zombie PROVE FALSE
    OBVIOUS
  <2>1. q \in DOMAIN proc /\ q # task.pid /\ proc[q].birth # child /\ q \notin S
    BY <1>2, <1>3, <1>5, Zenon
  <2>2. proc[q].zombie
    BY <1>2, <1>3, <2>1, Zenon
  <2> QED
    BY <2>1, <2>2, Zenon DEF LeaseInv, OnlyChildLingers
<1>7. \A q \in DOMAIN proc' : proc'[q].birth # task.lease.birth
  BY <1>3, <1>4, <1>5, Zenon DEF Shrinks, LeaseInv, TaskProper
<1>8. lost' \subseteq Time /\ lost' = lost /\ lease' = lease
  BY DEF RegisterFails, LeaseInv, ProcTypeOK
<1> QED
  BY <1>3, <1>4, <1>6, <1>7, <1>8, FinishSilently DEF RegisterFails

LEMMA CrashKeeps ==
    ASSUME LeaseInv, Crash
    PROVE  LeaseInv'
<1>1. /\ Shrinks
      /\ proc' \in [DOMAIN proc' -> Process]
      /\ \A q \in DOMAIN proc' : ~proc'[q].zombie
  BY ReapedTable DEF Crash
<1>2. lost \subseteq Time /\ task.lease.birth \in Time
  BY AgentFields DEF LeaseInv, ProcTypeOK, TaskProper, AboutChild, Crash
<1>3. lost \subseteq lost' /\ lost' \subseteq Time /\ (pc = "started" => task.lease.birth \in lost')
  BY <1>2 DEF Crash
<1> QED
  BY <1>1, <1>3, FinishSilently DEF Crash

LEMMA WriteFailsKeeps ==
    ASSUME LeaseInv, WriteFails
    PROVE  LeaseInv'
<1>1. /\ Shrinks
      /\ proc' \in [DOMAIN proc' -> Process]
      /\ \A q \in DOMAIN proc' : ~proc'[q].zombie
  BY ReapedTable DEF WriteFails
<1>2. lost' = lost /\ lost \subseteq Time /\ lease' = lease /\ pc # "started"
  BY DEF LeaseInv, ProcTypeOK, WriteFails
<1> QED
  BY <1>1, <1>2, FinishSilently DEF WriteFails

LEMMA SpawnKeeps ==
    ASSUME LeaseInv, NEW p \in Pid, Spawn(p)
    PROVE  LeaseInv'
<1>1. now \in Nat /\ now < MaxTime /\ now' = now + 1 /\ now + 1 \in Time
  BY AgentFields DEF LeaseInv, Spawn, Born
<1>2. PICK process : process = [birth |-> now + 1, settled |-> now + 1, group |-> p,
                                origin |-> now + 1, marked |-> TRUE, zombie |-> FALSE]
  OBVIOUS
<1>3. /\ process \in Process /\ ~process.zombie /\ process.origin = now + 1
      /\ process.birth = now + 1 /\ process.settled = now + 1 /\ process.group = p
  <2> HIDE DEF Time
  <2> QED
    BY <1>1, <1>2 DEF Process
<1>4. Joins(p, process)
  BY <1>2, <1>3 DEF Joins, Spawn
<1>5. /\ TableInv' /\ Evolves
      /\ now' \in Time /\ DOMAIN proc' = DOMAIN proc \cup {p} /\ DOMAIN proc' \subseteq Pid
      /\ proc' \in [DOMAIN proc' -> Process]
      /\ p \notin DOMAIN proc /\ proc'[p] = process
      /\ \A q \in DOMAIN proc : proc'[q] = proc[q]
  BY <1>4, JoiningTable DEF LeaseInv
<1>6. TypedStep
  BY <1>5 DEF LeaseInv, TypedStep
<1>7. PICK t : t = [kind |-> "run", pid |-> p, force |-> TRUE,
                    lease |-> [birth |-> now + 1, status |-> "running"]]
  OBVIOUS
<1>8. t \in Task /\ t.kind = "run" /\ t.pid = p /\ t.lease.birth = now + 1 /\ t.lease.status = "running"
  <2> HIDE DEF Time
  <2> QED
    BY <1>1, <1>7 DEF Task, Lease
<1>9. /\ pc = "idle" /\ child = 0 /\ pc' = "started" /\ child' = now + 1 /\ task' = t
      /\ UNCHANGED <<lease, scan, lost>>
  BY <1>7 DEF Spawn, LeaseInv, TaskProper
<1>10. ProcTypeOK'
  BY <1>1, <1>5, <1>8, <1>9 DEF LeaseInv, ProcTypeOK
<1>11. OnlyChildLingers'
  <2>1. \A q \in DOMAIN proc : proc[q].birth # 0
    BY DEF LeaseInv, TableInv, ProcessesProper
  <2> QED
    BY <1>3, <1>5, <1>9, <2>1, Zenon DEF LeaseInv, OnlyChildLingers
<1>12. LeasesAboutChildren'
  <2>1. \A r \in DOMAIN lease : lease[r].birth \in Nat
    <3>1. \A r \in DOMAIN lease : lease[r] \in Lease
      BY Zenon DEF LeaseInv, ProcTypeOK
    <3> QED
      BY <3>1 DEF Lease
  <2> QED
    BY <1>6, <1>9, <2>1, AboutChildStays, Zenon DEF LeaseInv, LeasesAboutChildren
<1>13. AboutChild(p, t.lease.birth)'
  <2>1. \A q \in DOMAIN proc : proc[q].birth # now + 1
    <3>1. \A q \in DOMAIN proc : /\ proc[q].birth \in Nat /\ proc[q].settled \in Nat
                                /\ proc[q].birth <= proc[q].settled /\ proc[q].settled <= now
      BY <1>6, Fields DEF LeaseInv, TypedStep, ProcTypeOK, TableInv, ProcessesProper
    <3> QED
      BY <1>1, <3>1
  <2> QED
    BY <1>1, <1>3, <1>5, <1>8, <2>1 DEF AboutChild
<1>14. TaskProper'
  BY <1>1, <1>3, <1>5, <1>8, <1>9, <1>13 DEF TaskProper
<1>15. ScanProper' /\ VerdictProper' /\ CleanupReaches'
  BY <1>9 DEF ScanProper, VerdictProper, CleanupReaches
<1>16. LiveLeaderOnRecord'
  <2> SUFFICES ASSUME NEW q \in DOMAIN proc', ~proc'[q].zombie, proc'[q].origin = proc'[q].birth
               PROVE  \/ /\ q \in DOMAIN lease
                         /\ lease[q].birth = proc'[q].birth
                         /\ lease[q].status \in {"running", "unsafe_skip"}
                      \/ t.lease.birth = proc'[q].birth
                      \/ proc'[q].birth \in lost
    BY <1>9, Zenon DEF LiveLeaderOnRecord, Alive
  <2>1. CASE q = p
    BY <1>3, <1>5, <1>8, <2>1
  <2>2. CASE q \in DOMAIN proc
    BY <1>5, <1>9, <2>2, Zenon DEF LeaseInv, LiveLeaderOnRecord, Alive
  <2> QED
    BY <1>5, <2>1, <2>2
<1> QED
  BY <1>5, <1>10, <1>11, <1>12, <1>14, <1>15, <1>16 DEF LeaseInv

\* What a change of one lease is.
LEMMA WrittenLeases ==
    ASSUME LeaseInv, NEW l \in Lease, task.pid \in Pid, lease' = With(lease, task.pid, l)
    PROVE  /\ lease' \in [DOMAIN lease' -> Lease] /\ DOMAIN lease' \subseteq Pid
           /\ DOMAIN lease' = DOMAIN lease \cup {task.pid}
           /\ lease'[task.pid] = l
           /\ \A p \in DOMAIN lease : p # task.pid => lease'[p] = lease[p]
<1>1. lease \in [DOMAIN lease -> Lease] /\ DOMAIN lease \subseteq Pid
  BY DEF LeaseInv, ProcTypeOK
<1>2. /\ DOMAIN lease' = DOMAIN lease \cup {task.pid}
      /\ lease'[task.pid] = l
      /\ \A p \in DOMAIN lease : p # task.pid => lease'[p] = lease[p]
  BY Zenon DEF With
<1>3. \A p \in DOMAIN lease' : lease'[p] \in Lease
  BY <1>1, <1>2
<1>4. lease' = [p \in DOMAIN lease' |-> lease'[p]]
  BY Zenon DEF With
<1> QED
  BY <1>1, <1>2, <1>3, <1>4

LEMMA RegisterKeeps ==
    ASSUME LeaseInv, Register
    PROVE  LeaseInv'
<1>1. /\ pc = "started" /\ pc' = "waiting" /\ UNCHANGED <<now, proc, task, child, scan, lost>>
      /\ lease' = With(lease, task.pid, task.lease)
  BY DEF Register
<1>2. task.pid \in Pid /\ task.lease \in Lease /\ AboutChild(task.pid, task.lease.birth)
      /\ task.lease.status = "running" /\ child # 0
  BY <1>1, AgentFields DEF LeaseInv, TaskProper
<1>3. /\ lease' \in [DOMAIN lease' -> Lease] /\ DOMAIN lease' \subseteq Pid
      /\ DOMAIN lease' = DOMAIN lease \cup {task.pid}
      /\ lease'[task.pid] = task.lease
      /\ \A p \in DOMAIN lease : p # task.pid => lease'[p] = lease[p]
  BY <1>1, <1>2, WrittenLeases
<1>4. ProcTypeOK'
  BY <1>1, <1>3 DEF LeaseInv, ProcTypeOK
<1>5. TableInv' /\ OnlyChildLingers'
  BY <1>1 DEF LeaseInv, TableInv, ProcessesProper, BirthsUnique, GroupsOfOneFamily, OnlyChildLingers
<1>6. \A p, b : AboutChild(p, b)' <=> AboutChild(p, b)
  BY <1>1 DEF AboutChild
<1>7. LeasesAboutChildren'
  BY <1>2, <1>3, <1>6, Zenon DEF LeaseInv, LeasesAboutChildren
<1>8. TaskProper'
  BY <1>1, <1>2, <1>3, <1>6 DEF LeaseInv, TaskProper
<1>9. ScanProper' /\ VerdictProper' /\ CleanupReaches'
  BY <1>1 DEF ScanProper, VerdictProper, CleanupReaches
<1>10. LiveLeaderOnRecord'
  <2> SUFFICES ASSUME NEW q \in DOMAIN proc, ~proc[q].zombie, proc[q].origin = proc[q].birth
               PROVE  \/ /\ q \in DOMAIN lease'
                         /\ lease'[q].birth = proc[q].birth
                         /\ lease'[q].status \in {"running", "unsafe_skip"}
                      \/ proc[q].birth \in lost
    BY <1>1, Zenon DEF LiveLeaderOnRecord, Alive
  <2>1. CASE q = task.pid
    <3>1. proc[q].birth = task.lease.birth
      BY <1>2, <2>1 DEF LeaseInv, TaskProper
    <3> QED
      BY <1>2, <1>3, <2>1, <3>1
  <2>2. CASE q # task.pid
    <3>1. proc[q].birth # task.lease.birth
      BY <1>2, <2>2, Zenon DEF AboutChild
    <3>2. \/ /\ q \in DOMAIN lease
             /\ lease[q].birth = proc[q].birth
             /\ lease[q].status \in {"running", "unsafe_skip"}
          \/ proc[q].birth \in lost
      BY <3>1, Zenon DEF LeaseInv, LiveLeaderOnRecord, Alive
    <3> QED
      BY <1>3, <2>2, <3>2, Zenon
  <2> QED
    BY <2>1, <2>2
<1> QED
  BY <1>4, <1>5, <1>7, <1>8, <1>9, <1>10 DEF LeaseInv

LEMMA ChildReapedKeeps ==
    ASSUME LeaseInv, ChildReaped
    PROVE  LeaseInv'
<1>1. /\ pc = "waiting" /\ pc' = "reaped" /\ child' = 0 /\ UNCHANGED <<now, lease, task, scan, lost>>
      /\ ~Alive(task.pid)
  BY DEF ChildReaped
<1>2. /\ Shrinks
      /\ proc' \in [DOMAIN proc' -> Process]
      /\ \A q \in DOMAIN proc' : ~proc'[q].zombie
      /\ \A q : q \in DOMAIN proc' <=> q \in DOMAIN proc /\ ~proc[q].zombie
  BY ReapedTable DEF ChildReaped
<1>3. /\ TypedStep /\ TableInv'
      /\ now' \in Time /\ DOMAIN proc' \subseteq Pid
      /\ \A p : \A b \in Nat : AboutChild(p, b) => AboutChild(p, b)'
  BY <1>2, ShrinkingStep
<1>4. ProcTypeOK'
  BY <1>1, <1>2, <1>3 DEF LeaseInv, ProcTypeOK
<1>5. OnlyChildLingers'
  BY <1>2, Zenon DEF OnlyChildLingers
<1>6. LeasesAboutChildren'
  <2>1. \A r \in DOMAIN lease : lease[r].birth \in Nat
    <3>1. \A r \in DOMAIN lease : lease[r] \in Lease
      BY Zenon DEF LeaseInv, ProcTypeOK
    <3> QED
      BY <3>1 DEF Lease
  <2> QED
    BY <1>1, <1>3, <2>1, Zenon DEF LeaseInv, LeasesAboutChildren
<1>7. \A q \in DOMAIN proc' : proc'[q].birth # task.lease.birth
  <2> SUFFICES ASSUME NEW q \in DOMAIN proc', proc'[q].birth = task.lease.birth PROVE FALSE
    OBVIOUS
  <2>1. q \in DOMAIN proc /\ ~proc[q].zombie /\ proc[q].birth = task.lease.birth
    BY <1>2, Zenon DEF Shrinks
  <2>2. q = task.pid
    BY <1>1, <2>1 DEF LeaseInv, TaskProper, AboutChild
  <2> QED
    BY <1>1, <2>1, <2>2, Zenon DEF Alive
<1>8. TaskProper'
  <2>1. AboutChild(task.pid, task.lease.birth)'
    BY <1>1, <1>3, AgentFields DEF LeaseInv, TaskProper
  <2> QED
    BY <1>1, <1>7, <2>1 DEF LeaseInv, TaskProper
<1>9. ScanProper' /\ VerdictProper' /\ CleanupReaches'
  BY <1>1 DEF ScanProper, VerdictProper, CleanupReaches
<1>10. LiveLeaderOnRecord'
  BY <1>1, <1>2, Zenon DEF LeaseInv, LiveLeaderOnRecord, Alive, Shrinks
<1> QED
  BY <1>3, <1>4, <1>5, <1>6, <1>8, <1>9, <1>10 DEF LeaseInv

LEMMA GiveUpKeeps ==
    ASSUME LeaseInv, GiveUp
    PROVE  LeaseInv'
<1>1. /\ pc = "waiting" /\ pc' = "look" /\ UNCHANGED <<now, proc, lease, task, child, scan, lost>>
  BY DEF GiveUp
<1>2. ProcTypeOK'
  BY <1>1 DEF LeaseInv, ProcTypeOK
<1>3. TableInv' /\ OnlyChildLingers'
  BY <1>1 DEF LeaseInv, TableInv, ProcessesProper, BirthsUnique, GroupsOfOneFamily, OnlyChildLingers
<1>4. \A p, b : AboutChild(p, b)' <=> AboutChild(p, b)
  BY <1>1 DEF AboutChild
<1>5. LeasesAboutChildren' /\ TaskProper'
  BY <1>1, <1>4, Zenon DEF LeaseInv, LeasesAboutChildren, TaskProper
<1>6. ScanProper' /\ VerdictProper' /\ CleanupReaches'
  BY <1>1 DEF ScanProper, VerdictProper, CleanupReaches
<1>7. LiveLeaderOnRecord'
  BY <1>1, Zenon DEF LeaseInv, LiveLeaderOnRecord, Alive
<1> QED
  BY <1>2, <1>3, <1>5, <1>6, <1>7 DEF LeaseInv

\* The end of a task that writes its lease: a status that ends the lease is not
\* given to a child that lives.
LEMMA FinishWriting ==
    ASSUME LeaseInv, NEW status \in {"exited", "killed", "unsafe_skip", "unknown"},
           Write(status), Finish, pc \notin {"idle", "started"},
           Shrinks, proc' \in [DOMAIN proc' -> Process],
           \A q \in DOMAIN proc' : ~proc'[q].zombie,
           lost' = lost,
           (\E q \in DOMAIN proc' : proc'[q].birth = task.lease.birth) => status = "unsafe_skip"
    PROVE  LeaseInv'
<1>1. task.pid \in Pid /\ task.lease \in Lease
      /\ task.pid \in DOMAIN lease /\ lease[task.pid] = task.lease
  BY AgentFields DEF LeaseInv, TaskProper
<1>2. PICK l \in Lease : /\ l = [task.lease EXCEPT !.status = status]
                         /\ l.birth = task.lease.birth /\ l.status = status
  <2>1. [task.lease EXCEPT !.status = status] \in Lease
    BY <1>1, Zenon DEF Lease
  <2> QED
    BY <1>1, <2>1, Zenon DEF Lease
<1>3. lease' = With(lease, task.pid, l)
  BY <1>2 DEF Write
<1>4. /\ lease' \in [DOMAIN lease' -> Lease] /\ DOMAIN lease' \subseteq Pid
      /\ DOMAIN lease' = DOMAIN lease \cup {task.pid}
      /\ lease'[task.pid] = l
      /\ \A p \in DOMAIN lease : p # task.pid => lease'[p] = lease[p]
  BY <1>1, <1>3, WrittenLeases
<1>5. \A p \in DOMAIN lease' : p \in DOMAIN lease /\ lease'[p].birth = lease[p].birth
  BY <1>1, <1>2, <1>4, Zenon
<1>6. LiveLeaderOnRecord'
  <2> SUFFICES ASSUME NEW q \in DOMAIN proc', ~proc'[q].zombie, proc'[q].origin = proc'[q].birth
               PROVE  \/ /\ q \in DOMAIN lease'
                         /\ lease'[q].birth = proc'[q].birth
                         /\ lease'[q].status \in {"running", "unsafe_skip"}
                      \/ proc'[q].birth \in lost'
    BY Zenon DEF LiveLeaderOnRecord, Alive
  <2>1. /\ q \in DOMAIN proc /\ ~proc[q].zombie /\ proc[q].origin = proc[q].birth
        /\ proc'[q].birth = proc[q].birth
    BY Zenon DEF Shrinks
  <2>2. \/ /\ q \in DOMAIN lease
           /\ lease[q].birth = proc[q].birth
           /\ lease[q].status \in {"running", "unsafe_skip"}
        \/ proc[q].birth \in lost
    BY <2>1, Zenon DEF LeaseInv, LiveLeaderOnRecord, Alive
  <2>3. CASE q # task.pid
    BY <1>4, <2>1, <2>2, <2>3, Zenon
  <2>4. CASE q = task.pid /\ proc[q].birth = task.lease.birth
    <3>1. status = "unsafe_skip"
      BY <2>1, <2>4, Zenon
    <3> QED
      BY <1>2, <1>4, <2>1, <2>4, <3>1
  <2>5. CASE q = task.pid /\ proc[q].birth # task.lease.birth
    BY <1>1, <2>1, <2>2, <2>5, Zenon
  <2> QED
    BY <2>3, <2>4, <2>5
<1>7. lost' \subseteq Time
  BY DEF LeaseInv, ProcTypeOK
<1> QED
  BY <1>4, <1>5, <1>6, <1>7, FinishKeeps

\* Where the agent has no child to wait for, nobody lingers.
LEMMA NothingWaited ==
    ASSUME LeaseInv, pc \in {"reaped", "unlink"} \/ task.kind = "collect"
    PROVE  \A q \in DOMAIN proc : ~proc[q].zombie
BY DEF LeaseInv, TaskProper, TableInv, ProcessesProper, OnlyChildLingers

LEMMA RefreshKeeps ==
    ASSUME LeaseInv, Refresh
    PROVE  LeaseInv'
<1>1. pc = "reaped" /\ UNCHANGED <<now, proc, lost>> /\ Finish
  BY DEF Refresh
<1>2. PICK status \in {"exited", "killed"} : Write(status)
  BY DEF Refresh
<1>3. Shrinks /\ proc' \in [DOMAIN proc' -> Process]
  BY <1>1 DEF Shrinks, LeaseInv, ProcTypeOK
<1>4. \A q \in DOMAIN proc' : ~proc'[q].zombie /\ proc'[q].birth # task.lease.birth
  BY <1>1, NothingWaited DEF LeaseInv, TaskProper
<1> QED
  BY <1>1, <1>2, <1>3, <1>4, FinishWriting

LEMMA MarkKeeps ==
    ASSUME LeaseInv, Mark
    PROVE  LeaseInv'
<1>1. pc = "mark" /\ Write(scan.verdict) /\ Finish /\ lost' = lost
  BY DEF Mark
<1>2. /\ Shrinks
      /\ proc' \in [DOMAIN proc' -> Process]
      /\ \A q \in DOMAIN proc' : ~proc'[q].zombie
      /\ \A q : q \in DOMAIN proc' <=> q \in DOMAIN proc /\ ~proc[q].zombie
  BY ReapedTable DEF Mark
<1>3. (\E q \in DOMAIN proc' : proc'[q].birth = task.lease.birth) => scan.verdict = "unsafe_skip"
  <2>1. (\E q \in DOMAIN proc' : proc'[q].birth = task.lease.birth) => LeaderAlive
    BY <1>2, Zenon DEF Shrinks, LeaderAlive, Alive
  <2> QED
    BY <1>1, <2>1, Zenon DEF LeaseInv, VerdictProper
<1>4. scan.verdict \in {"exited", "killed", "unsafe_skip", "unknown"}
  BY <1>1 DEF LeaseInv, VerdictProper
<1> QED
  BY <1>1, <1>2, <1>3, <1>4, FinishWriting

LEMMA KeepLeaseKeeps ==
    ASSUME LeaseInv, KeepLease
    PROVE  LeaseInv'
<1>1. pc = "attribute" /\ UNCHANGED <<now, proc, lease, lost>> /\ Finish
  BY DEF KeepLease
<1>2. Shrinks /\ proc' \in [DOMAIN proc' -> Process] /\ lost' \subseteq Time
  BY <1>1 DEF Shrinks, LeaseInv, ProcTypeOK
<1>3. \A q \in DOMAIN proc' : ~proc'[q].zombie
  BY <1>1, NothingWaited DEF KeepLease, Unlink
<1> QED
  BY <1>1, <1>2, <1>3, FinishSilently

LEMMA UnlinkKeeps ==
    ASSUME LeaseInv, Unlink
    PROVE  LeaseInv'
<1>1. pc = "unlink" /\ UNCHANGED <<now, proc, lost>> /\ Finish /\ lost \subseteq Time
  BY DEF Unlink, LeaseInv, ProcTypeOK
<1>2. Shrinks /\ proc' \in [DOMAIN proc' -> Process]
  BY <1>1 DEF Shrinks, LeaseInv, ProcTypeOK
<1>3. \A q \in DOMAIN proc' : ~proc'[q].zombie
  BY <1>1, NothingWaited DEF KeepLease, Unlink
<1>4. /\ lease' \in [DOMAIN lease' -> Lease] /\ DOMAIN lease' \subseteq Pid
      /\ DOMAIN lease' = DOMAIN lease \ {task.pid}
      /\ \A p \in DOMAIN lease' : lease'[p] = lease[p]
  <2>1. lease \in [DOMAIN lease -> Lease] /\ DOMAIN lease \subseteq Pid
    BY DEF LeaseInv, ProcTypeOK
  <2>2. PICK f : f = lease /\ f \in [DOMAIN f -> Lease]
    BY <2>1
  <2>3. PICK gone : gone = {task.pid}
    OBVIOUS
  <2>4. lease' = Without(f, gone)
    BY <2>2, <2>3 DEF Unlink
  <2>5. /\ Without(f, gone) \in [DOMAIN Without(f, gone) -> Lease]
        /\ DOMAIN Without(f, gone) = DOMAIN f \ gone
        /\ \A r \in DOMAIN f \ gone : Without(f, gone)[r] = f[r]
    BY <2>2, WithoutTable, Zenon
  <2> QED
    BY <2>1, <2>2, <2>3, <2>4, <2>5
<1>5. LiveLeaderOnRecord'
  <2> SUFFICES ASSUME NEW q \in DOMAIN proc, ~proc[q].zombie, proc[q].origin = proc[q].birth
               PROVE  \/ /\ q \in DOMAIN lease'
                         /\ lease'[q].birth = proc[q].birth
                         /\ lease'[q].status \in {"running", "unsafe_skip"}
                      \/ proc[q].birth \in lost
    BY <1>1, Zenon DEF LiveLeaderOnRecord, Alive
  <2>1. \/ /\ q \in DOMAIN lease
           /\ lease[q].birth = proc[q].birth
           /\ lease[q].status \in {"running", "unsafe_skip"}
        \/ proc[q].birth \in lost
    BY <1>1, Zenon DEF LeaseInv, LiveLeaderOnRecord, Alive
  <2>2. proc[q].birth # task.lease.birth
    BY <1>1, Zenon DEF LeaseInv, VerdictProper, LeaderAlive, Alive
  <2>3. lease[task.pid] = task.lease
    BY <1>1 DEF LeaseInv, TaskProper
  <2> QED
    BY <1>4, <2>1, <2>2, <2>3
<1>6. \A p \in DOMAIN lease' : p \in DOMAIN lease /\ lease'[p].birth = lease[p].birth
  BY <1>4
<1> QED
  BY <1>1, <1>2, <1>3, <1>4, <1>5, <1>6, FinishKeeps

-----------------------------------------------------------------------------
(* Looking and attributing *)

\* What the points say: from 4 on a process has the marker or is the recorded
\* one, which leads the recorded group; from 7 on it is in that group.
LEMMA ScoreFacts ==
    ASSUME LeaseInv, pc # "idle", NEW q \in DOMAIN proc
    PROVE  /\ Score(q) \in 0 .. 10
           /\ 4 <= Score(q) => proc[q].origin = task.lease.birth
           /\ 7 <= Score(q) => proc[q].group = task.pid
           /\ HasMarker(q) => 4 <= Score(q)
           /\ HasMarker(q) /\ proc[q].group = task.pid => 7 <= Score(q)
           /\ proc[q].birth = task.lease.birth =>
                  /\ q = task.pid /\ proc[q].group = task.pid
                  /\ proc[q].settled = proc[q].birth
                  /\ 6 <= Score(q)
<1> DEFINE recorded == q = task.pid /\ proc[q].birth = task.lease.birth
           near == proc[q].group = task.pid
           marked == HasMarker(q)
<1>1. proc[q].birth = task.lease.birth => q = task.pid /\ proc[q].origin = proc[q].birth
  BY DEF LeaseInv, TaskProper, AboutChild
<1>2. proc[q].birth = task.lease.birth =>
         q = task.pid /\ near /\ proc[q].settled = proc[q].birth /\ recorded
  BY <1>1 DEF LeaseInv, TableInv, ProcessesProper
<1>3. recorded => near /\ proc[q].origin = task.lease.birth
  BY <1>1, <1>2
<1>4. marked => proc[q].origin = task.lease.birth
  BY DEF HasMarker
<1>5. Score(q) = Points(recorded, 3) + Points(near, 3) + Points(marked, 4)
  BY DEF Score
<1> HIDE DEF recorded, near, marked
<1>6. /\ Score(q) \in 0 .. 10
      /\ 4 <= Score(q) => marked \/ (recorded /\ near)
      /\ 7 <= Score(q) => near \/ (recorded /\ marked)
      /\ marked => 4 <= Score(q)
      /\ marked /\ near => 7 <= Score(q)
      /\ recorded /\ near => 6 <= Score(q)
  BY <1>5 DEF Points
<1>7. 4 <= Score(q) => proc[q].origin = task.lease.birth
  BY <1>3, <1>4, <1>6
<1>8. 7 <= Score(q) => near
  BY <1>3, <1>6
<1> QED
  BY <1>2, <1>3, <1>6, <1>7, <1>8 DEF near, marked

\* A group that has one process of the run has no other.
LEMMA FamilyOwned ==
    ASSUME TableInv, NEW q \in DOMAIN proc, proc[q].origin = task.lease.birth
    PROVE  Owned(proc[q].group)
<1> SUFFICES ASSUME NEW r \in DOMAIN proc, r = proc[q].group \/ proc[r].group = proc[q].group
             PROVE  proc[r].origin = task.lease.birth
  BY Zenon DEF Owned
<1>1. proc[r].group = proc[q].group
  BY DEF TableInv, GroupsOfOneFamily
<1> QED
  BY <1>1 DEF TableInv, GroupsOfOneFamily

LEMMA LookKeeps ==
    ASSUME LeaseInv, Look
    PROVE  LeaseInv'
<1>1. /\ pc = "look" /\ pc' = "attribute" /\ UNCHANGED <<now, proc, lease, task, child, lost>>
      /\ scan'.since = now /\ scan'.listed = DOMAIN proc
      /\ scan'.groups = {} /\ scan'.verdict = "none"
      /\ scan'.direct = {Attribution(q) : q \in {task.pid} \cap DOMAIN proc}
  BY DEF Look, NoScan
<1>2. \A q \in DOMAIN proc : Attribution(q) \in Target
  <2> SUFFICES ASSUME NEW q \in DOMAIN proc PROVE Attribution(q) \in Target
    OBVIOUS
  <2>1. q \in Pid /\ proc[q].group \in Pid /\ Score(q) \in 0 .. 10
    BY <1>1, ScoreFacts, Fields DEF LeaseInv, ProcTypeOK
  <2> QED
    BY <2>1, Zenon DEF Attribution, Target
<1>3. ProcTypeOK'
  <2>1. now \in Time /\ DOMAIN proc \subseteq Pid
    BY DEF LeaseInv, ProcTypeOK
  <2>2. PICK direct \in SUBSET Target :
           direct = {Attribution(q) : q \in {task.pid} \cap DOMAIN proc}
    BY <1>2
  <2>3. scan' = [since |-> now, direct |-> direct, listed |-> DOMAIN proc,
                 groups |-> {}, verdict |-> "none"]
    BY <2>2 DEF Look, NoScan
  <2>4. scan' \in Scan
    <3> HIDE DEF Time
    <3> QED
      BY <2>1, <2>3 DEF Scan
  <2> QED
    BY <1>1, <2>4 DEF LeaseInv, ProcTypeOK
<1>4. TableInv' /\ OnlyChildLingers'
  BY <1>1 DEF LeaseInv, TableInv, ProcessesProper, BirthsUnique, GroupsOfOneFamily, OnlyChildLingers
<1>5. \A p, b : AboutChild(p, b)' <=> AboutChild(p, b)
  BY <1>1 DEF AboutChild
<1>6. LeasesAboutChildren' /\ TaskProper'
  BY <1>1, <1>5, Zenon DEF LeaseInv, LeasesAboutChildren, TaskProper
<1>7. DirectProper'
  <2> SUFFICES ASSUME NEW q \in {task.pid} \cap DOMAIN proc, NEW t, t = Attribution(q)
               PROVE  /\ t.pid = task.pid
                      /\ 4 <= t.score => Owned(t.group)'
                      /\ 7 <= t.score => t.group = task.pid
                      /\ t.pid \in DOMAIN proc /\ proc[t.pid].settled <= now =>
                             proc[t.pid].group = t.group
    BY <1>1, Zenon DEF DirectProper
  <2>1. t.pid = q /\ t.group = proc[q].group /\ t.score = Score(q)
    BY DEF Attribution
  <2>2. 4 <= t.score => Owned(t.group)'
    <3> SUFFICES ASSUME 4 <= t.score,
                        NEW r \in DOMAIN proc, r = t.group \/ proc[r].group = t.group
                 PROVE  proc[r].origin = task.lease.birth
      BY <1>1, Zenon DEF Owned
    <3>1. proc[q].origin = task.lease.birth
      BY <1>1, <2>1, ScoreFacts
    <3>2. proc[r].origin = proc[q].origin
      <4>1. proc[r].group = proc[q].group
        BY <2>1 DEF LeaseInv, TableInv, GroupsOfOneFamily
      <4> QED
        BY <4>1 DEF LeaseInv, TableInv, GroupsOfOneFamily
    <3> QED
      BY <3>1, <3>2
  <2> QED
    BY <1>1, <2>1, <2>2, ScoreFacts
<1>8. ScanProper'
  <2>1. now \in Nat /\ task.lease.birth <= now
    BY <1>1, AgentFields DEF LeaseInv, TaskProper, AboutChild
  <2> QED
    BY <1>1, <1>7, <2>1 DEF ScanProper
<1>9. VerdictProper' /\ CleanupReaches'
  BY <1>1 DEF VerdictProper, CleanupReaches
<1>10. LiveLeaderOnRecord'
  BY <1>1, Zenon DEF LeaseInv, LiveLeaderOnRecord, Alive
<1> QED
  BY <1>3, <1>4, <1>6, <1>8, <1>9, <1>10 DEF LeaseInv

\* A process that was listed and has not moved since is attributed, directly or
\* from the list, with no less than it deserves and to the group it is in.
LEMMA Attributed ==
    ASSUME LeaseInv, pc = "attribute", NEW q \in DOMAIN proc, Alive(q),
           proc[q].group = task.pid \/ HasMarker(q), proc[q].settled <= scan.since
    PROVE  \E t \in CleanupTargets : Score(q) <= t.score /\ t.group = proc[q].group
<1> DEFINE found == {Attribution(r) : r \in {r \in scan.listed :
                         Alive(r) /\ (proc[r].group = task.pid \/ HasMarker(r))}}
<1>1. CleanupTargets =
         {t \in found : \A d \in scan.direct : d.pid = t.pid => d.score < t.score}
             \cup {d \in scan.direct : \A t \in found : d.pid = t.pid => t.score <= d.score}
  BY Zenon DEF CleanupTargets
<1>2. q \in scan.listed
  <2>1. proc[q].birth <= scan.since
    BY Fields, AgentFields DEF LeaseInv, ProcTypeOK, TableInv, ProcessesProper
  <2> QED
    BY <2>1 DEF LeaseInv, ScanProper
<1>3. Attribution(q) \in found
  BY <1>2
<1>4. /\ Attribution(q).pid = q /\ Attribution(q).group = proc[q].group
      /\ Attribution(q).score = Score(q)
  BY DEF Attribution
<1>5. \A t \in found : t.pid = q => t = Attribution(q)
  BY DEF Attribution
<1> HIDE DEF found
<1>6. Score(q) \in Nat
  BY ScoreFacts
<1>7. CASE \A d \in scan.direct : d.pid = q => d.score < Score(q)
  <2>1. Attribution(q) \in CleanupTargets
    BY <1>1, <1>3, <1>4, <1>7, Zenon
  <2> QED
    BY <1>4, <1>6, <2>1
<1>8. CASE \E d \in scan.direct : d.pid = q /\ ~(d.score < Score(q))
  <2>1. PICK d \in scan.direct : d.pid = q /\ ~(d.score < Score(q))
    BY <1>8
  <2>2. d \in Target
    BY <2>1, AgentFields DEF LeaseInv
  <2>3. d.score \in Nat
    <3>1. d.score \in 0 .. 10
      BY <2>2, Zenon DEF Target
    <3> QED
      BY <3>1
  <2>4. Score(q) <= d.score
    BY <1>6, <2>1, <2>3
  <2>5. d \in CleanupTargets
    BY <1>1, <1>4, <1>5, <2>1, <2>4, Zenon
  <2>6. d.group = proc[q].group
    BY <2>1 DEF LeaseInv, ScanProper, DirectProper
  <2> QED
    BY <2>4, <2>5, <2>6
<1> QED
  BY <1>7, <1>8

\* What may be killed.
LEMMA TargetFacts ==
    ASSUME LeaseInv, pc = "attribute", NEW t \in CleanupTargets
    PROVE  /\ t.score \in Nat /\ t.group \in Pid
           /\ 4 <= t.score => Owned(t.group)
           /\ 7 <= t.score => t.group = task.pid
<1>1. \/ t \in scan.direct
      \/ \E r \in scan.listed : Alive(r) /\ t = Attribution(r)
  BY Zenon DEF CleanupTargets
<1>2. CASE t \in scan.direct
  <2>1. t \in Target
    BY <1>2, AgentFields DEF LeaseInv
  <2>2. t.score \in 0 .. 10 /\ t.group \in Pid
    BY <2>1, Zenon DEF Target
  <2>3. /\ 4 <= t.score => Owned(t.group)
        /\ 7 <= t.score => t.group = task.pid
    BY <1>2, Zenon DEF LeaseInv, ScanProper, DirectProper
  <2> QED
    BY <2>2, <2>3
<1>3. ASSUME NEW r \in scan.listed, Alive(r), t = Attribution(r)
      PROVE  /\ t.score \in Nat /\ t.group \in Pid
             /\ 4 <= t.score => Owned(t.group)
             /\ 7 <= t.score => t.group = task.pid
  <2>1. r \in DOMAIN proc /\ t.group = proc[r].group /\ t.score = Score(r)
    BY <1>3 DEF Alive, Attribution
  <2>2. t.score \in Nat /\ t.group \in Pid
    BY <2>1, ScoreFacts, Fields DEF LeaseInv, ProcTypeOK
  <2>3. 4 <= t.score => Owned(t.group)
    BY <2>1, ScoreFacts, FamilyOwned DEF LeaseInv
  <2>4. 7 <= t.score => t.group = task.pid
    BY <2>1, ScoreFacts
  <2> QED
    BY <2>2, <2>3, <2>4
<1> QED
  BY <1>1, <1>2, <1>3

\* What the verdict of an attribution is worth.
LEMMA VerdictFacts ==
    ASSUME LeaseInv, pc = "attribute"
    PROVE  /\ \A g \in {t.group : t \in Killable} : g \in Pid /\ Owned(g)
           /\ LeaderAlive =>
                  /\ CleanupTargets # {}
                  /\ Killable # {} => task.pid \in {t.group : t \in Killable}
           /\ \A q \in DOMAIN proc : HasMarker(q) /\ proc[q].settled <= scan.since =>
                  /\ CleanupTargets # {}
                  /\ InReach(q) => proc[q].group \in {t.group : t \in Killable}
<1>1. Threshold \in {4, 7} /\ (Threshold = 4 <=> task.force)
  BY DEF Threshold
<1>2. \A t \in CleanupTargets :
         /\ t.score \in Nat /\ t.group \in Pid
         /\ 4 <= t.score => Owned(t.group)
         /\ 7 <= t.score => t.group = task.pid
  BY TargetFacts
<1>3. \A t : t \in Killable <=> t \in CleanupTargets /\ Threshold <= t.score
  <2>1. \A t \in CleanupTargets : t.score >= Threshold <=> Threshold <= t.score
    BY <1>1, <1>2
  <2> QED
    BY <2>1 DEF Killable
<1>4. \A g \in {t.group : t \in Killable} : g \in Pid /\ Owned(g)
  BY <1>1, <1>2, <1>3
<1>5. ASSUME LeaderAlive
      PROVE  /\ CleanupTargets # {}
             /\ Killable # {} => task.pid \in {t.group : t \in Killable}
  <2>1. PICK q \in DOMAIN proc : Alive(q) /\ proc[q].birth = task.lease.birth
    BY <1>5, Zenon DEF LeaderAlive
  <2>2. /\ q = task.pid /\ proc[q].group = task.pid
        /\ proc[q].settled = proc[q].birth
        /\ 6 <= Score(q) /\ Score(q) \in Nat
    BY <2>1, ScoreFacts
  <2>3. proc[q].settled <= scan.since
    BY <2>1, <2>2 DEF LeaseInv, ScanProper
  <2>4. PICK t \in CleanupTargets : Score(q) <= t.score /\ t.group = task.pid
    BY <2>1, <2>2, <2>3, Attributed
  <2>5. CASE task.force
    BY <1>1, <1>2, <1>3, <2>2, <2>4, <2>5
  <2>6. CASE ~task.force
    <3>1. \A r \in Killable : r.group = task.pid
      BY <1>1, <1>2, <1>3, <2>6
    <3> QED
      BY <2>4, <3>1
  <2> QED
    BY <2>5, <2>6
<1>6. ASSUME NEW q \in DOMAIN proc, HasMarker(q), proc[q].settled <= scan.since
      PROVE  /\ CleanupTargets # {}
             /\ InReach(q) => proc[q].group \in {t.group : t \in Killable}
  <2>1. Alive(q)
    BY <1>6 DEF HasMarker
  <2>2. PICK t \in CleanupTargets : Score(q) <= t.score /\ t.group = proc[q].group
    BY <1>6, <2>1, Attributed
  <2>3. /\ Score(q) \in Nat /\ 4 <= Score(q)
        /\ proc[q].group = task.pid => 7 <= Score(q)
    BY <1>6, ScoreFacts
  <2>4. InReach(q) => Threshold <= t.score
    <3>1. t.score \in Nat
      BY <1>2, <2>2
    <3>2. InReach(q) => task.force \/ proc[q].group = task.pid
      BY DEF InReach
    <3> QED
      BY <1>1, <2>2, <2>3, <3>1, <3>2
  <2> QED
    BY <1>3, <2>2, <2>4
<1> QED
  BY <1>4, <1>5, <1>6

\* A step of a cleanup that leaves the table, the leases and the task alone.
LEMMA QuietStep ==
    ASSUME LeaseInv, UNCHANGED <<now, proc, lease, task, child, lost>>,
           pc \in {"look", "attribute", "term", "kill"},
           pc' \in {"attribute", "term", "kill", "mark", "unlink"},
           pc' = "unlink" => child = 0,
           scan' \in Scan, ScanProper', VerdictProper', CleanupReaches'
    PROVE  LeaseInv'
<1>1. ProcTypeOK'
  BY DEF LeaseInv, ProcTypeOK
<1>2. TableInv' /\ OnlyChildLingers'
  BY DEF LeaseInv, TableInv, ProcessesProper, BirthsUnique, GroupsOfOneFamily, OnlyChildLingers
<1>3. \A p, b : AboutChild(p, b)' <=> AboutChild(p, b)
  BY DEF AboutChild
<1>4. LeasesAboutChildren' /\ TaskProper'
  BY <1>3, Zenon DEF LeaseInv, LeasesAboutChildren, TaskProper
<1>5. LiveLeaderOnRecord'
  BY Zenon DEF LeaseInv, LiveLeaderOnRecord, Alive
<1> QED
  BY <1>1, <1>2, <1>4, <1>5 DEF LeaseInv

LEMMA AttributeKeeps ==
    ASSUME LeaseInv, Attribute
    PROVE  LeaseInv'
<1> DEFINE groups == {t.group : t \in Killable}
<1>0. PICK verdict :
         verdict = IF CleanupTargets = {} THEN "unknown"
                   ELSE IF Killable = {} THEN "unsafe_skip" ELSE "killed"
  OBVIOUS
<1>1. /\ scan' = [scan EXCEPT !.verdict = verdict, !.groups = groups]
      /\ pc' = IF verdict = "killed" THEN "term" ELSE "mark"
  BY <1>0 DEF Attribute
<1>2. /\ pc = "attribute" /\ UNCHANGED <<now, proc, lease, task, child, lost>>
      /\ verdict \in {"unknown", "unsafe_skip", "killed"}
      /\ pc' \in {"term", "mark"} /\ (pc' = "term" <=> verdict = "killed")
      /\ verdict = "killed" => Killable # {}
      /\ verdict = "unknown" => CleanupTargets = {}
      /\ verdict = "unsafe_skip" => Killable = {} /\ CleanupTargets # {}
  BY <1>0, <1>1 DEF Attribute
<1>3. /\ \A g \in groups : g \in Pid /\ Owned(g)
      /\ LeaderAlive => CleanupTargets # {} /\ (Killable # {} => task.pid \in groups)
      /\ \A q \in DOMAIN proc : HasMarker(q) /\ proc[q].settled <= scan.since =>
             CleanupTargets # {} /\ (InReach(q) => proc[q].group \in groups)
  BY <1>2, VerdictFacts
<1>4. Killable = {} => groups = {}
  OBVIOUS
<1> HIDE DEF groups
<1>5. /\ scan'.since = scan.since /\ scan'.direct = scan.direct /\ scan'.listed = scan.listed
      /\ scan'.groups = groups /\ scan'.verdict = verdict /\ scan' \in Scan
  <2>1. scan \in Scan
    BY DEF LeaseInv, ProcTypeOK
  <2>2. groups \subseteq Pid
    BY <1>3
  <2>3. [scan EXCEPT !.verdict = verdict, !.groups = groups] \in Scan
    BY <1>2, <2>1, <2>2, Zenon DEF Scan
  <2> QED
    BY <1>1, <2>1, <2>3, Zenon DEF Scan
<1>6. /\ \A g : Owned(g)' <=> Owned(g)
      /\ \A q : HasMarker(q)' <=> HasMarker(q)
      /\ \A q : InReach(q)' <=> InReach(q)
      /\ LeaderAlive' <=> LeaderAlive
  BY <1>2, <1>5 DEF Owned, HasMarker, InReach, LeaderAlive, Alive
<1>7. ScanProper'
  <2>1. DirectProper'
    BY <1>2, <1>5, <1>6, Zenon DEF LeaseInv, ScanProper, DirectProper
  <2> QED
    BY <1>2, <1>3, <1>5, <1>6, <2>1, Zenon DEF LeaseInv, ScanProper
<1>8. VerdictProper'
  <2>1. pc' = "mark" /\ LeaderAlive => verdict = "unsafe_skip"
    BY <1>2, <1>3, Zenon
  <2>2. pc' = "term" => /\ verdict = "killed"
                        /\ LeaderAlive => task.pid \in groups
                        /\ \A q \in DOMAIN proc : InReach(q) => proc[q].group \in groups
    BY <1>2, <1>3, Zenon DEF InReach
  <2> QED
    BY <1>2, <1>5, <1>6, <2>1, <2>2 DEF VerdictProper
<1>9. CleanupReaches'
  <2> SUFFICES ASSUME pc' = "mark", NEW q \in DOMAIN proc, HasMarker(q),
                      proc[q].settled <= scan.since
               PROVE  verdict # "unknown" /\ ~task.force /\ proc[q].group # task.pid
    BY <1>2, <1>5, <1>6, Zenon DEF CleanupReaches
  <2>1. verdict = "unsafe_skip"
    BY <1>2, <1>3
  <2>2. groups = {}
    BY <1>2, <1>4, <2>1
  <2>3. ~InReach(q)
    BY <1>3, <2>2
  <2> QED
    BY <2>1, <2>3 DEF InReach
<1> QED
  BY <1>2, <1>5, <1>7, <1>8, <1>9, QuietStep

LEMMA FindNothingKeeps ==
    ASSUME LeaseInv, FindNothing
    PROVE  LeaseInv'
<1>1. /\ pc = "attribute" /\ pc' = "unlink" /\ CleanupTargets = {}
      /\ UNCHANGED <<now, proc, lease, task, child, scan, lost>>
      /\ child = 0 /\ scan \in Scan
  BY DEF FindNothing, LeaseInv, TaskProper, ProcTypeOK
<1>2. /\ ~LeaderAlive
      /\ \A q \in DOMAIN proc : ~(HasMarker(q) /\ proc[q].settled <= scan.since)
  BY <1>1, VerdictFacts
<1>3. /\ \A g : Owned(g)' <=> Owned(g)
      /\ \A q : HasMarker(q)' <=> HasMarker(q)
      /\ LeaderAlive' <=> LeaderAlive
  BY <1>1 DEF Owned, HasMarker, LeaderAlive, Alive
<1>4. ScanProper'
  <2>1. DirectProper'
    BY <1>1, <1>3, Zenon DEF LeaseInv, ScanProper, DirectProper
  <2> QED
    BY <1>1, <1>3, <2>1, Zenon DEF LeaseInv, ScanProper
<1>5. VerdictProper'
  BY <1>1, <1>2, <1>3 DEF VerdictProper
<1>6. CleanupReaches'
  BY <1>1, <1>2, <1>3, Zenon DEF CleanupReaches
<1> QED
  BY <1>1, <1>4, <1>5, <1>6, QuietStep

-----------------------------------------------------------------------------
(* Signals *)

\* A signal kills whom it kills; what has to be shown is the verdict.
LEMMA SignalKeeps ==
    ASSUME LeaseInv, NEW S, proc' = After(S),
           pc \in {"term", "kill"}, pc' \in {"kill", "mark"},
           UNCHANGED <<now, lease, task, child, scan, lost>>,
           VerdictProper', CleanupReaches'
    PROVE  LeaseInv'
<1>1. /\ Shrinks /\ OnlyChildLingers'
      /\ proc' \in [DOMAIN proc' -> Process]
      /\ \A q \in DOMAIN proc : proc[q].birth = child => q \in DOMAIN proc'
  BY DyingTable
<1>2. TypedStep /\ TableInv' /\ now' \in Time /\ DOMAIN proc' \subseteq Pid /\ Proceeds
  BY <1>1, ShrinkingStep DEF Proceeds
<1>3. ProcTypeOK'
  BY <1>1, <1>2 DEF LeaseInv, ProcTypeOK
<1>4. child # 0 => task.pid \in DOMAIN proc' /\ proc'[task.pid].birth = child
  BY <1>1, Zenon DEF LeaseInv, TaskProper, Shrinks
<1>5. TaskProper' /\ LeasesAboutChildren'
  BY <1>2, <1>4, TaskStays DEF LeaseInv
<1>6. ScanProper'
  BY <1>2, ScanStays DEF LeaseInv
<1>7. \A q \in DOMAIN proc' : Stays(q)
  BY <1>1, Zenon DEF Shrinks, Stays
<1>8. LiveLeaderOnRecord'
  BY <1>2, <1>7, RecordStays DEF LeaseInv
<1> QED
  BY <1>1, <1>2, <1>3, <1>5, <1>6, <1>8 DEF LeaseInv

\* Who is left after a signal was there before it.
LEMMA SignalFacts ==
    ASSUME LeaseInv, NEW S, proc' = After(S), UNCHANGED <<now, task, child, scan>>
    PROVE  /\ LeaderAlive' => LeaderAlive
           /\ \A q : Alive(q)' => Alive(q) /\ q \notin S
           /\ \A q \in DOMAIN proc' :
                  /\ q \in DOMAIN proc
                  /\ proc'[q].birth = proc[q].birth
                  /\ proc'[q].group = proc[q].group /\ proc'[q].settled = proc[q].settled
                  /\ HasMarker(q)' => HasMarker(q)
                  /\ InReach(q)' => InReach(q)
<1>1. Shrinks /\ \A q \in DOMAIN proc' : q \in S => proc'[q].zombie
  BY DyingTable
<1>2. \A q : Alive(q)' => Alive(q) /\ q \notin S
  BY <1>1, Zenon DEF Shrinks, Alive
<1>3. \A q \in DOMAIN proc' : q \in DOMAIN proc /\ (HasMarker(q)' => HasMarker(q))
  BY <1>1, <1>2, Zenon DEF HasMarker, Shrinks
<1>4. \A q \in DOMAIN proc' : InReach(q)' => InReach(q)
  BY <1>1, <1>3, Zenon DEF InReach, Shrinks
<1>5. ASSUME LeaderAlive' PROVE LeaderAlive
  <2>1. PICK q \in DOMAIN proc' : Alive(q)' /\ proc'[q].birth = task.lease.birth
    BY <1>5, Zenon DEF LeaderAlive
  <2>2. q \in DOMAIN proc /\ Alive(q) /\ proc[q].birth = task.lease.birth
    BY <1>1, <1>2, <2>1 DEF Shrinks
  <2> QED
    BY <2>2, Zenon DEF LeaderAlive
<1> QED
  BY <1>1, <1>2, <1>3, <1>4, <1>5, Zenon DEF Shrinks

LEMMA TermKeeps ==
    ASSUME LeaseInv, Term
    PROVE  LeaseInv'
<1>1. /\ pc = "term" /\ pc' = "kill" /\ UNCHANGED <<now, lease, task, child, scan, lost>>
  BY DEF Term
<1>2. PICK S : proc' = After(S)
  BY Zenon DEF Term
<1>3. /\ LeaderAlive' => LeaderAlive
      /\ \A q \in DOMAIN proc' : /\ q \in DOMAIN proc
                                 /\ proc'[q].group = proc[q].group
                                 /\ InReach(q)' => InReach(q)
  BY <1>1, <1>2, SignalFacts
<1>4. VerdictProper'
  BY <1>1, <1>3 DEF LeaseInv, VerdictProper
<1>5. CleanupReaches'
  BY <1>1 DEF CleanupReaches
<1> QED
  BY <1>1, <1>2, <1>4, <1>5, SignalKeeps

LEMMA KillKeeps ==
    ASSUME LeaseInv, Kill
    PROVE  LeaseInv'
<1>1. /\ pc = "kill" /\ pc' = "mark" /\ UNCHANGED <<now, lease, task, child, scan, lost>>
  BY DEF Kill
<1>2. PICK seen \in SUBSET scan.groups :
         /\ \A q \in DOMAIN proc :
                Alive(q) /\ proc[q].group \in scan.groups /\ proc[q].settled <= scan.since
                    => proc[q].group \in seen
         /\ proc' = After(Members(seen))
  BY Zenon DEF Kill
<1>3. /\ LeaderAlive' => LeaderAlive
      /\ \A q : Alive(q)' => Alive(q) /\ q \notin Members(seen)
      /\ \A q \in DOMAIN proc' : /\ q \in DOMAIN proc
                                 /\ proc'[q].birth = proc[q].birth
                                 /\ proc'[q].group = proc[q].group
                                 /\ proc'[q].settled = proc[q].settled
                                 /\ HasMarker(q)' => HasMarker(q)
  BY <1>1, <1>2, SignalFacts
\* Nobody is left of a group that was signalled but who came later.
<1>4. \A q \in DOMAIN proc' :
         Alive(q)' /\ proc[q].settled <= scan.since => proc[q].group \notin scan.groups
  BY <1>2, <1>3, Zenon DEF Members
<1>5. /\ scan.verdict = "killed"
      /\ LeaderAlive => task.pid \in scan.groups
      /\ \A q \in DOMAIN proc : InReach(q) => proc[q].group \in scan.groups
      /\ task.lease.birth <= scan.since
  BY <1>1 DEF LeaseInv, VerdictProper, ScanProper
<1>6. ~LeaderAlive'
  <2> SUFFICES ASSUME NEW q \in DOMAIN proc', Alive(q)', proc'[q].birth = task.lease.birth
               PROVE  FALSE
    BY <1>1, Zenon DEF LeaderAlive
  <2>1. /\ Alive(q) /\ q \in DOMAIN proc /\ proc[q].birth = task.lease.birth
    BY <1>3, Zenon
  <2>2. proc[q].group = task.pid /\ proc[q].settled = proc[q].birth
    BY <1>1, <2>1, ScoreFacts
  <2>3. LeaderAlive
    BY <2>1, Zenon DEF LeaderAlive
  <2> QED
    BY <1>4, <1>5, <2>1, <2>2, <2>3
<1>7. VerdictProper'
  BY <1>1, <1>5, <1>6 DEF VerdictProper
<1>8. CleanupReaches'
  <2> SUFFICES ASSUME NEW q \in DOMAIN proc', HasMarker(q)', proc'[q].settled <= scan.since
               PROVE  ~task.force /\ proc'[q].group # task.pid
    BY <1>1, <1>5 DEF CleanupReaches
  <2>1. /\ HasMarker(q) /\ proc[q].settled <= scan.since /\ q \in DOMAIN proc
        /\ proc'[q].group = proc[q].group /\ Alive(q)'
    BY <1>3, Zenon DEF HasMarker
  <2>2. ~InReach(q)
    BY <1>4, <1>5, <2>1, Zenon
  <2> QED
    BY <2>1, <2>2, Zenon DEF InReach
<1> QED
  BY <1>1, <1>2, <1>7, <1>8, SignalKeeps

LEMMA RecoverKeeps ==
    ASSUME LeaseInv, NEW p \in Pid, NEW kind \in {"cleanup", "collect"}, NEW force \in BOOLEAN,
           Recover(p, kind, force)
    PROVE  LeaseInv'
<1>1. PICK t : t = [kind |-> kind, pid |-> p, lease |-> lease[p], force |-> force]
  OBVIOUS
<1>2. /\ pc = "idle" /\ pc' = "look" /\ task' = t /\ p \in DOMAIN lease /\ child = 0
      /\ UNCHANGED <<now, proc, lease, child, scan, lost>>
  BY <1>1 DEF Recover, LeaseInv, TaskProper
<1>3. t \in Task /\ t.pid = p /\ t.lease = lease[p]
  <2>1. lease[p] \in Lease
    BY <1>2 DEF LeaseInv, ProcTypeOK
  <2> QED
    BY <1>1, <2>1 DEF Task
<1>4. ProcTypeOK'
  BY <1>2, <1>3 DEF LeaseInv, ProcTypeOK
<1>5. TableInv' /\ OnlyChildLingers'
  BY <1>2 DEF LeaseInv, TableInv, ProcessesProper, BirthsUnique, GroupsOfOneFamily, OnlyChildLingers
<1>6. \A r, b : AboutChild(r, b)' <=> AboutChild(r, b)
  BY <1>2 DEF AboutChild
<1>7. LeasesAboutChildren'
  BY <1>2, <1>6, Zenon DEF LeaseInv, LeasesAboutChildren
<1>8. TaskProper'
  <2>1. AboutChild(p, lease[p].birth)
    BY <1>2, Zenon DEF LeaseInv, LeasesAboutChildren
  <2> QED
    BY <1>2, <1>3, <1>6, <2>1 DEF TaskProper
<1>9. ScanProper' /\ VerdictProper' /\ CleanupReaches'
  BY <1>2 DEF ScanProper, VerdictProper, CleanupReaches
<1>10. LiveLeaderOnRecord'
  BY <1>2, Zenon DEF LeaseInv, LiveLeaderOnRecord, Alive
<1> QED
  BY <1>4, <1>5, <1>7, <1>8, <1>9, <1>10 DEF LeaseInv

-----------------------------------------------------------------------------
(* The invariant holds *)

LEMMA RunKeeps ==
    ASSUME LeaseInv, Run
    PROVE  LeaseInv'
BY SpawnKeeps, RegisterKeeps, RegisterFailsKeeps, ChildReapedKeeps, GiveUpKeeps, RefreshKeeps,
   Zenon DEF Run

LEMMA CleanupKeeps ==
    ASSUME LeaseInv, Cleanup
    PROVE  LeaseInv'
BY RecoverKeeps, LookKeeps, AttributeKeeps, TermKeeps, KillKeeps, MarkKeeps, WriteFailsKeeps,
   KeepLeaseKeeps, FindNothingKeeps, UnlinkKeeps, Zenon DEF Cleanup

LEMMA StutterKeeps ==
    ASSUME LeaseInv, UNCHANGED vars
    PROVE  LeaseInv'
<1>1. UNCHANGED <<now, proc, lease, pc, task, child, scan, lost>>
  BY DEF vars
<1>2. TypedStep
  BY <1>1 DEF TypedStep, LeaseInv, ProcTypeOK, Evolves, Stays
<1>3. TableInv' /\ OnlyChildLingers' /\ now' \in Time /\ DOMAIN proc' \subseteq Pid
  BY <1>1 DEF LeaseInv, TableInv, ProcessesProper, BirthsUnique, GroupsOfOneFamily,
              OnlyChildLingers, ProcTypeOK
<1>4. child # 0 => task.pid \in DOMAIN proc' /\ proc'[task.pid].birth = child
  BY <1>1 DEF LeaseInv, TaskProper
<1>5. \A q \in DOMAIN proc' : Stays(q)
  BY <1>1 DEF Stays
<1> QED
  BY <1>1, <1>2, <1>3, <1>4, <1>5, OutsideStep

LEMMA InitLease ==
    ASSUME Init
    PROVE  LeaseInv
<1>1. /\ now = 0 /\ proc = NoFile /\ lease = NoFile /\ pc = "idle" /\ task = NoTask
      /\ child = 0 /\ scan = NoScan /\ lost = {}
  BY DEF Init
<1>2. /\ DOMAIN proc = {} /\ DOMAIN lease = {}
      /\ proc \in [DOMAIN proc -> Process] /\ lease \in [DOMAIN lease -> Lease]
  BY <1>1 DEF NoFile
<1>3. ProcTypeOK
  BY <1>1, <1>2, NoWorkTypes DEF ProcTypeOK
<1>4. TableInv /\ OnlyChildLingers /\ LeasesAboutChildren /\ LiveLeaderOnRecord
  BY <1>2 DEF TableInv, ProcessesProper, BirthsUnique, GroupsOfOneFamily, OnlyChildLingers,
              LeasesAboutChildren, LiveLeaderOnRecord
<1>5. TaskProper /\ ScanProper /\ VerdictProper /\ CleanupReaches
  BY <1>1 DEF TaskProper, ScanProper, VerdictProper, CleanupReaches
<1> QED
  BY <1>3, <1>4, <1>5 DEF LeaseInv

\* Whatever processes are started, change their group, lose their marker and
\* die, and wherever an agent stops, the leases and the cleaner's knowledge are
\* about the agent's own children.
THEOREM LeaseInvariant == Spec => []LeaseInv
<1>1. Init => LeaseInv
  BY InitLease
<1>2. LeaseInv /\ [Next]_vars => LeaseInv'
  BY EnvironmentKeeps, RunKeeps, CleanupKeeps, CrashKeeps, StutterKeeps, Zenon DEF Next
<1> QED
  BY <1>1, <1>2, PTL DEF Spec

\* Type correctness.
THEOREM LeaseTypeCorrect == Spec => []ProcTypeOK
<1>1. LeaseInv => ProcTypeOK
  BY DEF LeaseInv
<1> QED
  BY <1>1, LeaseInvariant, PTL

\* A child that lives is on record as running or in doubt, unless its agent died
\* before it could write the lease (process_registry, transition_process_lease).
THEOREM LiveLeaderStaysOnRecord == Spec => []LiveLeaderOnRecord
<1>1. LeaseInv => LiveLeaderOnRecord
  BY DEF LeaseInv
<1> QED
  BY <1>1, LeaseInvariant, PTL

\* A cleanup leaves nobody of the run who kept the marker and the group, but
\* outside the recorded group and when nothing was forced (find_cleanup_targets).
THEOREM CleanupReachesAll == Spec => []CleanupReaches
<1>1. LeaseInv => CleanupReaches
  BY DEF LeaseInv
<1> QED
  BY <1>1, LeaseInvariant, PTL

-----------------------------------------------------------------------------
(* Whom the agent kills *)

\* What may become of q in a step of the agent.
Spared(q) ==
    \/ q \in DOMAIN proc' /\ proc'[q].zombie = proc[q].zombie
    \/ proc[q].origin = task.lease.birth
    \/ pc # "started" /\ proc[q].birth > scan.since

LEMMA ReapingSpares ==
    ASSUME LeaseInv, pc # "idle", proc' = Reaped, NEW q \in DOMAIN proc
    PROVE  Spared(q)
<1>1. CASE ~proc[q].zombie
  <2>1. PICK Z : Z = {r \in DOMAIN proc : proc[r].zombie}
    OBVIOUS
  <2>2. PICK f : f = proc /\ f \in [DOMAIN f -> Process]
    BY DEF LeaseInv, ProcTypeOK
  <2>3. /\ DOMAIN Without(f, Z) = DOMAIN f \ Z
        /\ \A r \in DOMAIN f \ Z : Without(f, Z)[r] = f[r]
    BY <2>2, WithoutTable, Zenon
  <2>4. proc' = Without(f, Z) /\ q \in DOMAIN f \ Z
    BY <1>1, <2>1, <2>2 DEF Reaped
  <2> QED
    BY <2>2, <2>3, <2>4 DEF Spared
<1>2. CASE proc[q].zombie
  <2>1. proc[q].birth = child /\ child # 0
    BY <1>2 DEF LeaseInv, OnlyChildLingers, TableInv, ProcessesProper
  <2>2. proc[q].origin = task.lease.birth
    BY <2>1 DEF LeaseInv, TaskProper, AboutChild
  <2> QED
    BY <2>2 DEF Spared
<1> QED
  BY <1>1, <1>2

LEMMA SignalSpares ==
    ASSUME LeaseInv, pc \in {"term", "kill"},
           NEW S \in SUBSET Members(scan.groups), proc' = After(S), NEW q \in DOMAIN proc
    PROVE  Spared(q)
<1>1. CASE q \in S
  <2>1. proc[q].group \in scan.groups
    BY <1>1 DEF Members
  <2>2. proc[q].origin = task.lease.birth \/ scan.since < proc[q].birth
    BY <2>1 DEF LeaseInv, ScanProper, Owned
  <2>3. scan.since \in Nat /\ proc[q].birth \in Nat
    BY AgentFields, Fields DEF LeaseInv, ProcTypeOK
  <2> QED
    BY <2>2, <2>3 DEF Spared
<1>2. CASE q \notin S
  <2>1. q \in DOMAIN proc' /\ (proc'[q].zombie <=> proc[q].zombie)
        /\ proc' \in [DOMAIN proc' -> Process]
    BY <1>2, AfterTable DEF LeaseInv, ProcTypeOK
  <2>2. proc'[q].zombie \in BOOLEAN /\ proc[q].zombie \in BOOLEAN
    BY <2>1, Fields DEF LeaseInv, ProcTypeOK
  <2> QED
    BY <2>1, <2>2 DEF Spared
<1> QED
  BY <1>1, <1>2

LEMMA RegisterFailsSpares ==
    ASSUME LeaseInv, RegisterFails, NEW q \in DOMAIN proc
    PROVE  Spared(q)
<1>1. PICK S \in SUBSET Members({task.pid}) :
         task.pid \in S /\ proc' = Without(After(S), {task.pid})
  BY DEF RegisterFails
<1>2. pc = "started" /\ task.pid \in DOMAIN proc /\ proc[task.pid].birth = task.lease.birth
  BY DEF RegisterFails, LeaseInv, TaskProper
<1>3. proc[task.pid].group = task.pid /\ proc[task.pid].origin = task.lease.birth
  <2>1. proc[task.pid].origin = task.lease.birth
    BY <1>2 DEF LeaseInv, TaskProper, AboutChild
  <2> QED
    BY <1>2, <2>1 DEF LeaseInv, TableInv, ProcessesProper
<1>4. CASE proc[q].group = task.pid
  <2>1. proc[q].origin = task.lease.birth
    BY <1>2, <1>3, <1>4 DEF LeaseInv, TableInv, GroupsOfOneFamily
  <2> QED
    BY <2>1 DEF Spared
<1>5. CASE proc[q].group # task.pid
  <2>1. q \notin S /\ q # task.pid
    BY <1>1, <1>3, <1>5 DEF Members
  <2>2. /\ After(S) \in [DOMAIN After(S) -> Process]
        /\ q \in DOMAIN After(S) /\ (After(S)[q].zombie <=> proc[q].zombie)
    BY <2>1, AfterTable DEF LeaseInv, ProcTypeOK
  <2>3. PICK f : f = After(S) /\ f \in [DOMAIN f -> Process]
    BY <2>2
  <2>4. PICK gone : gone = {task.pid}
    OBVIOUS
  <2>5. /\ Without(f, gone) \in [DOMAIN Without(f, gone) -> Process]
        /\ DOMAIN Without(f, gone) = DOMAIN f \ gone
        /\ \A r \in DOMAIN f \ gone : Without(f, gone)[r] = f[r]
    <3>1. f \in [DOMAIN f -> Process]
      BY <2>3
    <3> QED
      BY <3>1, WithoutTable, Zenon
  <2>6. q \in DOMAIN proc' /\ proc'[q] = f[q]
    BY <1>1, <2>1, <2>2, <2>3, <2>4, <2>5
  <2>7. f[q].zombie \in BOOLEAN /\ proc[q].zombie \in BOOLEAN
    BY <2>2, <2>3, Fields DEF LeaseInv, ProcTypeOK
  <2> QED
    BY <2>2, <2>3, <2>6, <2>7 DEF Spared
<1> QED
  BY <1>4, <1>5

LEMMA QuietSpares ==
    ASSUME NEW q \in DOMAIN proc, UNCHANGED proc
    PROVE  Spared(q)
BY DEF Spared

LEMMA SpawnSpares ==
    ASSUME NEW p, Spawn(p), NEW q \in DOMAIN proc
    PROVE  Spared(q)
BY DEF Spawn, Born, Free, With, Spared

LEMMA AgentSpares ==
    ASSUME LeaseInv, [Next]_vars, pc' # pc, NEW q \in DOMAIN proc
    PROVE  Spared(q)
<1>1. CASE Environment
  BY <1>1 DEF Environment, StrangerStarts, Fork, Escape, DropMarker, Exit
<1>2. CASE Run
  <2>1. CASE \E p \in Pid : Spawn(p)
    BY <2>1, SpawnSpares
  <2>2. CASE Register \/ GiveUp \/ Refresh
    BY <2>2, QuietSpares DEF Register, GiveUp, Refresh
  <2>3. CASE RegisterFails
    BY <2>3, RegisterFailsSpares
  <2>4. CASE ChildReaped
    BY <2>4, ReapingSpares DEF ChildReaped
  <2> QED
    BY <1>2, <2>1, <2>2, <2>3, <2>4, Zenon DEF Run
<1>3. CASE Cleanup
  <2>1. CASE \E p \in Pid, kind \in {"cleanup", "collect"}, force \in BOOLEAN :
                Recover(p, kind, force)
    BY <2>1, QuietSpares DEF Recover
  <2>2. CASE Look \/ Attribute \/ KeepLease \/ FindNothing \/ Unlink
    BY <2>2, QuietSpares DEF Look, Attribute, KeepLease, FindNothing, Unlink
  <2>3. CASE Term
    BY <2>3, SignalSpares DEF Term
  <2>4. CASE Kill
    <3>1. PICK seen \in SUBSET scan.groups : proc' = After(Members(seen))
      BY <2>4, Zenon DEF Kill
    <3>2. Members(seen) \in SUBSET Members(scan.groups)
      BY DEF Members
    <3> QED
      BY <2>4, <3>1, <3>2, SignalSpares DEF Kill
  <2>5. CASE Mark \/ WriteFails
    BY <2>5, ReapingSpares DEF Mark, WriteFails
  <2> QED
    BY <1>3, <2>1, <2>2, <2>3, <2>4, <2>5, Zenon DEF Cleanup
<1>4. CASE Crash
  BY <1>4, ReapingSpares DEF Crash
<1>5. CASE UNCHANGED vars
  BY <1>5 DEF vars
<1> QED
  BY <1>1, <1>2, <1>3, <1>4, <1>5, Zenon DEF Next

\* No step of the agent kills a process that is not of the run at hand, however
\* pids and groups were used again, but one born after the cleaner looked.
THEOREM OwnProcessesOnly == Spec => OnlyOwnProcessesDie
<1>1. LeaseInv /\ [Next]_vars =>
         [pc' # pc =>
            \A q \in DOMAIN proc :
                \/ q \in DOMAIN proc' /\ proc'[q].zombie = proc[q].zombie
                \/ proc[q].origin = task.lease.birth
                \/ pc # "started" /\ proc[q].birth > scan.since]_vars
  BY AgentSpares, Zenon DEF Spared
<1> QED
  BY <1>1, LeaseInvariant, PTL DEF Spec, OnlyOwnProcessesDie

=============================================================================
