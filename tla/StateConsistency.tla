-------------------------- MODULE StateConsistency --------------------------
(***************************************************************************)
(* What the doctor makes of the checkpoint, the trace and the lease files  *)
(* it read: the issues of a report, with their severities.                 *)
(*                                                                         *)
(* A checkpoint is a record [session, count, trial, start, operations]:    *)
(* the lines it counts (Missing in an old one), its current trial or       *)
(* NoTrial, the line of that trial's trial_start event (0 when it has      *)
(* none) and the operation ledger, a sequence of records [op, status,      *)
(* refs].  A lease file is a status under the reference of the lease, or   *)
(* "invalid" when it was there and could not be loaded.                    *)
(***************************************************************************)
EXTENDS Naturals, Sequences

CONSTANTS
    NoCheckpoint,   \* checkpoint.yaml cannot be loaded
    Missing,        \* the trace_line_count of an old checkpoint
    NoTrial         \* no current trial

\* exited, killed and unknown are "ended": nobody tells them apart.
LeaseStatus == {"running", "ended", "unsafe_skip"}
OperationStatus == {"pending", "running", "completed", "failed", "cleaned", "skipped"}
Terminal == {"completed", "failed", "cleaned", "skipped"}

\* The issue `code', if there is reason for it.
Issue(reason, code, severity) ==
    IF reason THEN {[code |-> code, severity |-> severity]} ELSE {}

AlignmentIssues(c, count, readable) ==
    IF ~readable THEN Issue(TRUE, "trace_alignment_error", "error")
    ELSE IF c.count = Missing THEN Issue(TRUE, "trace_line_count_missing", "warning")
    ELSE Issue(c.count < count, "trace_ahead", "warning")
            \cup Issue(c.count > count, "checkpoint_ahead", "error")

\* `sessions' are the sessions of the trace, none of them if it is unreadable.
SessionIssues(c, count, readable, sessions) ==
    Issue(readable /\ count > 0 /\ c.session \notin sessions,
          "checkpoint_session_missing_from_trace", "warning")

\* `anchored' is the trace when the event at the start line was looked up.
AnchorIssues(c, count, readable, anchored, intact) ==
    IF c.trial = NoTrial THEN {}
    ELSE IF c.start = 0
    THEN Issue(c.operations # << >>, "current_trial_start_line_missing", "error")
    ELSE IF readable /\ c.start > count
    THEN Issue(TRUE, "current_trial_start_line_ahead", "error")
    ELSE IF c.start \notin DOMAIN anchored
    THEN IF intact
         THEN Issue(TRUE, "current_trial_start_line_missing_event", "error")
         ELSE Issue(TRUE, "trace_event_lookup_error", "error")
    ELSE Issue(anchored[c.start].trial # c.trial,
               "current_trial_start_line_mismatch", "error")
            \cup Issue(anchored[c.start].kind # "trial_start",
                       "current_trial_start_line_not_trial_start", "warning")

Operations(c) ==
    IF c.trial = NoTrial THEN {}
    ELSE {c.operations[i] : i \in DOMAIN c.operations}

Refs(c) == UNION {o.refs : o \in Operations(c)}

StatusIssues(status, leaseStatus) ==
    Issue(status = "running" /\ leaseStatus # "running",
          "running_operation_terminal_lease", "warning")
        \cup Issue(status \in Terminal /\ leaseStatus = "running",
                   "terminal_operation_running_lease", "warning")

\* The references of the leases that were loaded.
Loaded(leases) == {r \in DOMAIN leases : leases[r] # "invalid"}

LeaseIssues(leases) ==
    Issue(Loaded(leases) # DOMAIN leases, "process_lease_invalid", "error")

OperationIssues(o, leases) ==
    Issue(o.status = "pending" /\ o.refs # {},
          "pending_operation_has_process_refs", "warning")
        \cup UNION {IF r \in Loaded(leases)
                    THEN StatusIssues(o.status, leases[r])
                    ELSE Issue(TRUE, "process_ref_missing", "error") : r \in o.refs}

OrphanIssues(c, leases) ==
    UNION {Issue(TRUE, "orphan_process_lease",
                 IF leases[r] = "running" THEN "warning" ELSE "info") :
                    r \in Loaded(leases) \ Refs(c)}

\* The issues of a report on what was read: the checkpoint, the number of
\* lines and whether they could be parsed, the sessions in the trace, the
\* leases, and the trace as it was when the start line was looked up.
Issues(read) ==
    LET c == read.checkpoint IN
    Issue(~read.spanned, "trace_session_spans_error", "error")
    \cup LeaseIssues(read.leases) \cup
    IF c = NoCheckpoint
    THEN Issue(TRUE, "checkpoint_load_error", "error")
    ELSE UNION {AlignmentIssues(c, read.count, read.readable),
                SessionIssues(c, read.count, read.readable, read.sessions),
                AnchorIssues(c, read.count, read.readable, read.anchored, read.intact),
                UNION {OperationIssues(o, read.leases) : o \in Operations(c)},
                OrphanIssues(c, read.leases)}

Severities(read) == {i.severity : i \in Issues(read)}
=============================================================================
