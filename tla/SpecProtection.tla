--------------------------- MODULE SpecProtection ---------------------------
(***************************************************************************)
(* The spec file of the project under tuning, its backups and the skills   *)
(* that write them.  A spec is a template of the user with placeholders of *)
(* one or several spellings; an injection replaces every occurrence of the *)
(* first spelling it finds by the options of a trial, so a spec is the     *)
(* version of the user's template and the trials injected into it so far.  *)
(* Two specs have the same hash only if they are the same, and no option   *)
(* is itself a placeholder.                                                *)
(***************************************************************************)
EXTENDS Naturals, Sequences

CONSTANTS
    Trial,      \* the trial ids, each with a combo of its own
    MaxVersion, \* bound: the versions of the template the user saves
    Spellings   \* how many spellings of placeholders each version has

ASSUME SpecAssumption ==
    /\ MaxVersion \in Nat \ {0}
    /\ Spellings \in [1 .. MaxVersion -> Nat]

VARIABLES
    spec,       \* the spec file
    backup,     \* the files of spec_backups/, by trial
    user,       \* history: the version the user saved last
    source      \* the state of the source tree, as the key files hash

specVars == <<spec, backup, user, source>>

Version == 1 .. MaxVersion
SpecFile == [version : Version, injected : Seq(Trial)]
SourceTree == {"as given", "changed"}

\* A function with one more entry, or another one for the same key.
With(f, k, v) == [x \in DOMAIN f \cup {k} |-> IF x = k THEN v ELSE f[x]]

Template(v) == [version |-> v, injected |-> << >>]

SpecTypeOK ==
    /\ spec \in SpecFile
    /\ DOMAIN backup \subseteq Trial /\ backup \in [DOMAIN backup -> SpecFile]
    /\ user \in Version
    /\ source \in SourceTree

SpecInit ==
    /\ spec = Template(1)
    /\ backup = [t \in {} |-> Template(1)]
    /\ user = 1
    /\ source = "as given"

\* workspace_snapshot: the hashes of the spec and of the key files.
Snapshot == [spec |-> spec, source |-> source]

\* spec_backup writes a backup only where there is none, and refuses to go on
\* when the one it finds is not the current spec.
BackupRefused(t) == t \in DOMAIN backup /\ backup[t] # spec

BackupOverwriting(t) ==
    /\ backup' = With(backup, t, spec)
    /\ UNCHANGED <<spec, user, source>>

TakeBackup(t) ==
    /\ ~BackupRefused(t)
    /\ backup' = With(backup, t, spec)
    /\ UNCHANGED <<spec, user, source>>

\* spec_injector finds a placeholder that is not yet replaced.
PlaceholderAssumed == TRUE

HasPlaceholder == Len(spec.injected) < Spellings[spec.version]

Inject(t) ==
    /\ HasPlaceholder
    /\ spec' = [spec EXCEPT !.injected = Append(@, t)]
    /\ UNCHANGED <<backup, user, source>>

\* spec_restore
Restore(t) ==
    /\ t \in DOMAIN backup
    /\ spec' = backup[t]
    /\ UNCHANGED <<backup, user, source>>

\* workspace_verify against the snapshot taken before the trial.
Verified(pre, failOnDirtySource) ==
    /\ spec = pre.spec
    /\ failOnDirtySource => source = pre.source

UserEdits ==
    /\ spec = Template(user)
    /\ user < MaxVersion
    /\ user' = user + 1
    /\ spec' = Template(user + 1)
    /\ UNCHANGED <<backup, source>>

SourceChanges ==
    /\ source = "as given"
    /\ source' = "changed"
    /\ UNCHANGED <<spec, backup, user>>
=============================================================================
