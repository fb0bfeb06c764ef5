--------------------------- MODULE Initialisation ---------------------------
(***************************************************************************)
(* agent init and the guard every later start passes: the configuration is *)
(* read once, its project is looked up in the registry, the user confirms  *)
(* what was read, and .initialized keeps it.  Neither of the two takes the *)
(* workspace lock.                                                         *)
(*                                                                         *)
(* The directory is that of the configured project.  What it holds may     *)
(* have been copied from the directory of another one, "foreign".          *)
(***************************************************************************)
EXTENDS Naturals

CONSTANTS
    Process,        \* the agent processes
    Baseline,       \* the baseline combos a configuration may name
    NotInitialised, \* there is no .initialized
    MaxEdits        \* bound: the changes the user makes

VARIABLES
    config,         \* the baseline in agent.yaml
    registered,     \* the compiler version of the project is in the registry
    initialized,    \* .initialized
    pc,             \* the step each process is at
    context,        \* the configuration each process shows at its prompt
    started,        \* the processes that passed the guard of a start
    answer,         \* how the call that ended last ended
    edits           \* the changes the user made so far

initVars == <<config, registered, initialized, context, started, edits>>

Namespace == {"ours", "foreign"}

\* What .initialized may record; "unreadable" is one that does not load.
InitializedState == [namespace : Namespace \cup {"unreadable"}, baseline : Baseline]

ASSUME InitAssumption ==
    /\ MaxEdits \in Nat
    /\ NotInitialised \notin InitializedState

\* What validate_project_against_registry accepts: a registered project, and
\* no existing trial of another compiler version.
Accepted(existing) == registered /\ existing \subseteq {"ours"}

\* assert_initialized_matches: .initialized loads and names this project.
Matches == initialized.namespace = "ours"

\* MUTANT: the configuration is read again when the state is written.
ReloadedState(p) == [namespace |-> "ours", baseline |-> config]

\* write_initialized_state, for the configuration a process loaded.
StateOf(p) == [namespace |-> "ours", baseline |-> context[p]]

End(p, a) ==
    /\ pc' = [pc EXCEPT ![p] = "idle"]
    /\ answer' = a

\* run_init up to its prompt.
RunInit(p) ==
    /\ pc[p] = "idle" /\ p \notin started
    /\ \/ /\ ~Accepted({})
          /\ End(p, "refused")
          /\ UNCHANGED context
       \/ /\ Accepted({})
          /\ initialized # NotInitialised
          /\ End(p, IF Matches THEN "already initialized" ELSE "refused")
          /\ UNCHANGED context
       \/ /\ Accepted({})
          /\ initialized = NotInitialised
          /\ context' = [context EXCEPT ![p] = config]
          /\ pc' = [pc EXCEPT ![p] = "prompt"]
          /\ UNCHANGED answer
    /\ UNCHANGED <<config, registered, initialized, started, edits>>

\* The user says no, asks for an edit, or closes the input.
Decline(p) ==
    /\ pc[p] = "prompt"
    /\ End(p, "aborted")
    /\ UNCHANGED initVars

\* The user says yes: .initialized is written over whatever is there by now.
Confirm(p) ==
    /\ pc[p] = "prompt"
    /\ initialized' = StateOf(p)
    /\ End(p, "initialized")
    /\ UNCHANGED <<config, registered, context, started, edits>>

MayStart(readable, existing) ==
    /\ readable
    /\ Accepted(existing)
    /\ initialized # NotInitialised
    /\ Matches

\* verify_initialized_for_startup, given the compiler versions of the trials
\* in the directory; `readable' is false when collecting them has raised.
Startup(p, readable, existing) ==
    /\ pc[p] = "idle" /\ p \notin started
    /\ \/ /\ MayStart(readable, existing)
          /\ started' = started \cup {p}
          /\ End(p, "started")
       \/ /\ ~MayStart(readable, existing)
          /\ End(p, "refused")
          /\ UNCHANGED started
    /\ UNCHANGED <<config, registered, initialized, context, edits>>

UserActs ==
    /\ edits < MaxEdits
    /\ edits' = edits + 1

\* The user edits agent.yaml or the registry.
ConfigEdited ==
    /\ UserActs
    /\ config' \in Baseline \ {config}
    /\ UNCHANGED <<registered, initialized, context, started, pc, answer>>

RegistryEdited ==
    /\ UserActs
    /\ registered' = ~registered
    /\ UNCHANGED <<config, initialized, context, started, pc, answer>>

InitialisationInit ==
    /\ config \in Baseline
    /\ registered = TRUE
    /\ initialized = NotInitialised
    /\ pc = [p \in Process |-> "idle"]
    /\ context = [p \in Process |-> config]
    /\ started = {}
    /\ answer = "none" /\ edits = 0

(***************************************************************************)
(* Whoever is told that the project was initialized has confirmed exactly  *)
(* the state on disk at that moment, although the user may edit agent.yaml *)
(* while the prompt waits: the combo every score is later normalized with  *)
(* is the one that was shown (init.py:278-308).                            *)
(***************************************************************************)
ConfirmedIsWritten ==
    [][\A p \in Process :
           pc[p] = "prompt" /\ answer' = "initialized" /\ pc'[p] = "idle" =>
               initialized' = [namespace |-> "ours", baseline |-> context[p]]]_<<initialized, pc, answer>>
=============================================================================
