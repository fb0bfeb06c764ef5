--------------------------- MODULE ExclusiveLock ---------------------------
(***************************************************************************)
(* What the workspace lock promises its callers: at most one process is    *)
(* inside at any time, it gets in only when nobody is, and it leaves by a  *)
(* release or by dying.  Which file, which metadata and which system calls *)
(* provide that is the business of WorkspaceLock.                          *)
(***************************************************************************)
CONSTANT Client                 \* the processes that may take the lock

VARIABLE owners                 \* the processes inside

Init == owners = {}

\* A process enters an empty critical section.
Take(c) ==
    /\ owners = {}
    /\ owners' = {c}

\* The process inside leaves: release(), a failed acquire(), or its death.
Drop(c) ==
    /\ owners = {c}
    /\ owners' = {}

Next == \E c \in Client : Take(c) \/ Drop(c)

Spec == Init /\ [][Next]_owners

=============================================================================
