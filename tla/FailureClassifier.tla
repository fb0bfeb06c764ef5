------------------------- MODULE FailureClassifier -------------------------
(***************************************************************************)
(* Why a build or a benchmark failed: the status of the run and the lines  *)
(* of its logs are evidence for categories of failure; evidence of one     *)
(* category is merged, the best category is selected, and a combination of *)
(* options is to be remembered as failing only on strong evidence.         *)
(*                                                                         *)
(* A status names at most one rule, a log line any of the rules of its     *)
(* domain.  The rules are listed in the order of their names.              *)
(***************************************************************************)
EXTENDS Integers, FiniteSets

CONSTANT None           \* no failure, no rule

Rule(category, route, domains) ==
    [category |-> category, route |-> route, domains |-> domains]

Both == {"compile", "benchmark"}

\* _COMPILE_RULES and _BENCHMARK_RULES.
LogRules == <<
    Rule("artifact invalid", "unknown", {"benchmark"}),
    Rule("functional correctness", "unknown", {"benchmark"}),
    Rule("environment unstable", "environment", {"benchmark"}),
    Rule("score parse", "unknown", {"benchmark"}),
    Rule("too noisy", "environment", {"benchmark"}),
    Rule("compiler crash", "unknown", {"compile"}),
    Rule("option conflict", "option", {"compile"}),
    Rule("dependency missing", "environment", {"compile"}),
    Rule("disk full", "environment", Both),
    Rule("invalid option", "option", {"compile"}),
    Rule("network failure", "environment", Both),
    Rule("oom killed", "environment", {"compile"}),
    Rule("permission denied", "environment", Both) >>

\* _COMPILE_STATUS
CompileStatus ==
    [status \in {"invalid option", "option conflict", "timeout", "crash signal",
                 "oom-like exit", "artifact missing", "infra failure"} |->
        CASE status = "invalid option"   -> Rule("invalid option", "option", Both)
          [] status = "option conflict"  -> Rule("option conflict", "option", Both)
          [] status = "timeout"          -> Rule("build timeout", "environment", Both)
          [] status = "crash signal"     -> Rule("compiler crash", "unknown", Both)
          [] status = "oom-like exit"    -> Rule("oom killed", "environment", Both)
          [] status = "artifact missing" -> Rule("artifact missing", "unknown", Both)
          [] status = "infra failure"    -> Rule("infra failure", "environment", Both)]

\* _BENCHMARK_STATUS
BenchmarkStatus ==
    [status \in {"timeout", "crash signal", "oom-like exit", "artifact missing",
                 "artifact invalid", "score parse failed", "infra failure"} |->
        CASE status = "timeout"            -> Rule("benchmark timeout", "environment", Both)
          [] status = "crash signal"       -> Rule("benchmark crash", "unknown", Both)
          [] status = "oom-like exit"      -> Rule("environment unstable", "environment", Both)
          [] status = "artifact missing"   -> Rule("artifact invalid", "unknown", Both)
          [] status = "artifact invalid"   -> Rule("artifact invalid", "unknown", Both)
          [] status = "score parse failed" -> Rule("score parse", "unknown", Both)
          [] status = "infra failure"      -> Rule("infra failure", "environment", Both)]

StatusRules(domain) == IF domain = "compile" THEN CompileStatus ELSE BenchmarkStatus

\* What a line of a log says: the rule it matches, and the options it names.
RulesOf(domain) == {r \in DOMAIN LogRules : domain \in LogRules[r].domains}

\* _filter_options: of the options a line names, those of the combination, if
\* there is one.
Filtered(named, combo) == IF combo = {} THEN named ELSE named \cap combo

\* One piece of evidence: the rule behind it (0 for the status), where it was
\* found, and the options it blames.  The lines are those of _match_log_rules;
\* only the two rules about options extract any.
Evidence(category, route, rule, line, options) ==
    [category |-> category, route |-> route, rule |-> rule, line |-> line,
     options |-> options]

\* _status_affected_options: the status blames options whose name says invalid.
StatusEvidence(domain, status, combo, saysInvalid) ==
    IF status \notin DOMAIN StatusRules(domain) THEN {}
    ELSE LET s == StatusRules(domain)[status]
         IN  {Evidence(s.category, s.route, 0, 0,
                       IF status = "invalid option" THEN combo \cap saysInvalid ELSE {})}

LogEvidence(domain, lines, combo) ==
    {Evidence(LogRules[l.rule].category, LogRules[l.rule].route, l.rule, l.at,
              IF LogRules[l.rule].route = "option" THEN Filtered(l.named, combo) ELSE {}) :
        l \in {k \in lines : k.rule \in RulesOf(domain)}}

\* MUTANT: two lines of a log count as two sources.
LinesAgree(group) == Cardinality({e.line : e \in group}) >= 2

\* _merged_confidence: two sources, which are the status and the rules, not
\* the lines.
SourcesAgree(group) == Cardinality({e.rule : e \in group}) >= 2

ConfidenceOf(group) == IF SourcesAgree(group) THEN "HIGH" ELSE "MEDIUM"

\* _merge_candidates: the evidence of one category; the rule that gives the
\* candidate its name is one of the log if there is one.
Candidate(group) ==
    LET any == CHOOSE e \in group : TRUE
        logged == {e.rule : e \in group} \ {0}
    IN  [category |-> any.category, route |-> any.route,
         confidence |-> ConfidenceOf(group),
         options |-> UNION {e.options : e \in group},
         weight |-> Cardinality(group),
         rule |-> IF logged = {} THEN Cardinality(DOMAIN LogRules) + 1
                  ELSE CHOOSE r \in logged : TRUE]

Candidates(evidence) ==
    {Candidate({e \in evidence : e.category = c}) : c \in {e.category : e \in evidence}}

Level == [MEDIUM |-> 2, HIGH |-> 3]
RouteRank == [unknown |-> 1, environment |-> 2, option |-> 3]
Specific(c) == IF c.category = "infra failure" THEN 0 ELSE 1

\* _select_candidate: what is compared, in the order in which it counts.
Key(c) == <<Level[c.confidence], RouteRank[c.route], Specific(c), c.weight, c.rule>>

Above(k, l) ==
    \E i \in DOMAIN k : k[i] > l[i] /\ \A j \in 1 .. i - 1 : k[j] = l[j]

Selected(candidates) ==
    LET sure == {c \in candidates : c.route = "environment" /\ c.confidence = "HIGH"}
        field == IF sure # {} THEN sure ELSE candidates
    IN  CHOOSE c \in field : \A d \in field \ {c} : Above(Key(c), Key(d))

\* MUTANT: no option need be named.
RemembersUnnamed(domain, c) ==
    domain = "compile" /\ c.route = "option" /\ c.confidence = "HIGH"

\* write_failed_combos
Remembered(domain, c) ==
    domain = "compile" /\ c.route = "option" /\ c.confidence = "HIGH" /\ c.options # {}

\* _classify
Classify(domain, status, lines, combo, saysInvalid) ==
    LET evidence == StatusEvidence(domain, status, combo, saysInvalid)
                        \cup LogEvidence(domain, lines, combo)
        best == Selected(Candidates(evidence))
    IN  IF evidence = {}
        THEN [category |-> "unknown failure", route |-> "unknown", confidence |-> "LOW",
              options |-> {}, write |-> FALSE]
        ELSE [category |-> best.category, route |-> best.route,
              confidence |-> best.confidence, options |-> best.options,
              write |-> Remembered(domain, best)]
=============================================================================
