----------------------------- MODULE Decisions -----------------------------
(***************************************************************************)
(* The way of a candidate from its build to a decision: it fails to build  *)
(* or its benchmark fails, and the failure is classified; or its runs are  *)
(* compared with those of a baseline, the comparison is screened in its    *)
(* family, and the candidate is accepted or not.                           *)
(*                                                                         *)
(* compare_run_records, family_screen and can_accept are functions without *)
(* state that their callers use in this order.  `comparable' is a history  *)
(* variable: it says of the runs themselves what the quality of the pairs  *)
(* should say.                                                             *)
(***************************************************************************)
EXTENDS Sequences, PairQuality, StatsGates, FailureClassifier

CONSTANTS
    Horizon,        \* bound: runs start at 0 .. Horizon
    Lengths,        \* bound: how long runs take
    ReportedGaps,   \* bound: the gaps a harness writes into a record
    MaxPairs,       \* bound: pairs that are looked at in detail
    MaxN,           \* bound: pairs, or valid runs of the smaller side
    MaxSpare,       \* bound: runs that are invalid or beyond these
    MaxOthers,      \* bound: other comparisons of the family
    Options,        \* compiler options
    SaysInvalid,    \* the options with "invalid" in their names
    MaxLines        \* bound: lines of a log that match a rule

ASSUME DecisionsAssumption ==
    /\ Horizon \in Nat /\ Lengths \subseteq Nat /\ ReportedGaps \subseteq Nat \cup {Unknown}
    /\ MaxPairs \in Nat /\ MaxN \in Nat /\ MaxSpare \in Nat
    /\ MaxOthers \in Nat /\ MaxLines \in Nat
    /\ SaysInvalid \subseteq Options /\ None # "accepted"

VARIABLES
    stage,          \* how far the candidate is
    failure,        \* the classification of its failure, or None
    input,          \* what was classified
    pairs,          \* pairs of runs, by their keys 1, 2, ...
    sample,         \* what compare_run_records knows of the runs
    comparable,     \* history: are the runs of the pairs comparable?
    result,         \* the result of the comparison, refused or not, or None
    family,         \* the results of the other candidates
    screened,       \* did the candidate pass the screen?
    decision        \* the reason of can_accept, or None

vars == <<stage, failure, input, pairs, sample, comparable, result, family,
          screened, decision>>

Init ==
    /\ stage = "build"
    /\ failure = None /\ input = None
    /\ pairs = <<>> /\ sample = None /\ comparable = TRUE
    /\ result = None /\ family = <<>> /\ screened = FALSE /\ decision = None

\* A line that matches a rule; only the lines about options name some.
Line == {l \in [rule : DOMAIN LogRules, named : SUBSET Options] :
            LogRules[l.rule].route # "option" => l.named = {}}

\* A build or a benchmark ends with a status other than success; its logs
\* have some lines that say more.  A build is tried with a combination.
Fails(domain, combo) ==
    \E status \in DOMAIN StatusRules(domain) \cup {"other"} :
    \E n \in 0 .. MaxLines :
    \E log \in [1 .. n -> {l \in Line : l.rule \in RulesOf(domain)}] :
        LET lines == {[rule |-> log[i].rule, named |-> log[i].named, at |-> i] : i \in 1 .. n}
        IN  /\ input' = [domain |-> domain, status |-> status, lines |-> lines,
                         combo |-> combo]
            /\ failure' = Classify(domain, status, lines, combo, SaysInvalid)
            /\ stage' = "failed"
            /\ UNCHANGED <<pairs, sample, comparable, result, family, screened, decision>>

BuildFails ==
    /\ stage = "build"
    /\ \E combo \in (SUBSET Options) \ {{}} : Fails("compile", combo)

BenchmarkFails == stage = "measure" /\ pairs = <<>> /\ Fails("benchmark", {})

Builds ==
    /\ stage = "build"
    /\ stage' = "measure"
    /\ UNCHANGED <<failure, input, pairs, sample, comparable, result, family, screened, decision>>
\* A run as its record has it: it takes `length', and the record says
\* `duration'.  The records of the baseline come first in the list.
RunOf(start, length, duration, order, gap, index, position) ==
    [start |-> start, end |-> start + length, duration |-> duration,
     order |-> order, gap |-> gap, index |-> index, position |-> position]

\* The harness runs the two sides once more and writes a record of each.  Time
\* counts from the start of the first pair.  What the harness writes varies in
\* the first pair; of the others only the times vary.
MeasurePair ==
    LET i == Len(pairs) + 1
        plain == i > 1
    IN  /\ stage = "measure"
        /\ i <= MaxPairs
        /\ \E s, t \in 0 .. Horizon, k, l \in Lengths :
           \E d \in Lengths, o, p \in {"baseline first", Unknown} :
           \E g \in ReportedGaps : \E h \in {g, Unknown} :
            /\ plain => d = k /\ {o, p} = {"baseline first"} /\ g = Unknown
            /\ ~plain => Smaller(s, t) = 0
            /\ pairs' = Append(pairs,
                  [baseline  |-> RunOf(s, k, d, o, g, i, i),
                   candidate |-> RunOf(t, l, l, p, h, i, MaxPairs + i)])
        /\ UNCHANGED <<stage, failure, input, sample, comparable, result, family, screened, decision>>

\* compare_run_records up to _pair_quality.  The runs have pair keys in common,
\* or have not and are compared unpaired.
PairUp ==
    /\ stage = "measure"
    /\ stage' = "compare"
    /\ LET paired == pairs # <<>>
           all == {pairs[i] : i \in DOMAIN pairs}
       IN  /\ sample' = [paired  |-> paired,
                         quality |-> IF paired THEN Quality(all) ELSE "unknown",
                         seen    |-> Len(pairs)]
           /\ comparable' = (paired => Comparable(all))
    /\ pairs' = <<>>
    /\ UNCHANGED <<failure, input, result, family, screened, decision>>

\* The rest of compare_run_records.  Besides the pairs looked at there may be
\* others, about which there is nothing to say, and runs without a partner.  A
\* result that its schema does not accept is never made: the call raises.
Compare ==
    /\ stage = "compare"
    /\ \E c \in Comparisons(MaxN, MaxSpare), p \in 1 .. PUnit, provenance \in BOOLEAN :
        /\ c.paired = sample.paired /\ c.quality = sample.quality
        /\ c.n >= sample.seen
        /\ result' = ResultOf(c, p, provenance)
    /\ stage' = IF SchemaAccepts(result') THEN "screen" ELSE "refused"
    /\ sample' = None
    /\ UNCHANGED <<failure, input, pairs, comparable, family, screened, decision>>

\* family_screen, on a family the candidate belongs to; the candidate comes
\* first.  Of a result that is no improvement the screen does not look at the
\* p-value.
Other == {o \in [verdict : {"significant improvement", "no difference"}, p : 1 .. PUnit] :
            o.verdict = "no difference" => o.p = PUnit}

Screen ==
    /\ stage = "screen"
    /\ stage' = "decide"
    /\ \E n \in 0 .. MaxOthers :
       \E others \in [1 .. n -> Other] :
        /\ family' = others
        /\ screened' = (0 \in Screened([i \in 0 .. n |-> IF i = 0 THEN result ELSE others[i]]))
    /\ UNCHANGED <<failure, input, pairs, sample, comparable, result, decision>>

\* can_accept; whether the candidate was confirmed is its caller's word.
Decide ==
    /\ stage \in {"screen", "decide"}
    /\ stage' = "decided"
    /\ \E confirmed \in BOOLEAN : decision' = CanAccept(result, screened, confirmed)
    /\ UNCHANGED <<failure, input, pairs, sample, comparable, result, family, screened>>

Next ==
    \/ BuildFails \/ Builds \/ BenchmarkFails
    \/ MeasurePair \/ PairUp \/ Compare \/ Screen \/ Decide

Spec == Init /\ [][Next]_vars

-----------------------------------------------------------------------------

\* The shapes of what the functions return; a classification passes its
\* schema, which wants options named where options are to be remembered.
DecisionsTypeOK ==
    /\ stage \in {"build", "failed", "measure", "compare", "refused", "screen",
                 "decide", "decided"}
    /\ failure # None =>
        /\ failure.route \in {"option", "environment", "unknown"}
        /\ failure.confidence \in {"LOW", "MEDIUM", "HIGH"}
        /\ failure.options \subseteq Options
        /\ failure.write => failure.confidence = "HIGH" /\ failure.options # {}
    /\ sample # None => sample.quality \in {"good", "suspect", "unknown"}
    /\ result # None =>
        result.verdict \in Significant \cup {"no difference", "inconclusive"}
    /\ decision # None => stage = "decided"

\* A failure is certain only when two kinds of evidence agree: the status of
\* the run, and a rule for the same category that a line of its log matches;
\* then it is of that category.  A combination of options is remembered as
\* failing on these terms only, and for options that are in it: never for a
\* benchmark, an environment or a line that is there twice.
TwoSourcesAgree ==
    failure # None =>
        LET rules == StatusRules(input.domain)
            agreed == {LogRules[l.rule].category : l \in input.lines} \cap
                        (IF input.status \in DOMAIN rules
                         THEN {rules[input.status].category} ELSE {})
        IN  /\ (failure.confidence = "HIGH") <=> (agreed # {})
            /\ agreed # {} => failure.category \in agreed
            /\ failure.write => /\ agreed \subseteq {"invalid option", "option conflict"}
                                /\ failure.options \subseteq input.combo

\* Pairs pass for good only if their runs are comparable, whatever the harness
\* writes about gaps and durations and in whatever order the runs come.
GoodMeansComparable ==
    sample # None /\ sample.quality = "good" => comparable

\* When a comparison raises because its result does not pass its schema, then
\* the bootstrap interval missed the effect that was measured, relative to a
\* baseline that is not zero.  Nothing else is ever wrong with a result:
\* whatever the samples are, its verdict, its grade, its numbers of runs and
\* its intervals agree.
RefusedForInterval ==
    stage = "refused" =>
        /\ VerdictRules(result) /\ NumberRules(result)
        /\ \E e \in result.relEffect : e < result.low \/ result.high < e

\* The procedure of Benjamini and Hochberg by its definition: with k the
\* largest number such that k hypotheses have p-values of at most k/m of the
\* rate, these are rejected.
Rejected(p, m) ==
    LET within(k) == {i \in DOMAIN p : p[i] * m <= Q * k}
        possible == {k \in 1 .. m : Cardinality(within(k)) >= k}
    IN  IF possible = {} THEN {}
        ELSE within(CHOOSE k \in possible : \A l \in possible : l <= k)

Compared == [i \in 0 .. Len(family) |-> IF i = 0 THEN result ELSE family[i]]

PValues == [i \in Improvements(Compared) |-> Compared[i].p]

\* The screen selects what Benjamini and Hochberg reject among the significant
\* improvements, in a family that counts the other results as well.
ScreenIsStepUp ==
    stage = "decide" => (screened <=> 0 \in Rejected(PValues, Len(family) + 1))

\* An accepted candidate rests on comparable runs, or on unpaired ones without
\* autocorrelation; on enough of them; on an effect that is, with all of its
\* interval, above the threshold, and with its provenance; and on the screen of its family.
AcceptedIsSound ==
    decision = "accepted" =>
        /\ comparable
        /\ result.autocorrelated => result.paired /\ result.n >= MinAutocorrelated
        /\ result.n >= MinValid /\ result.ess >= MinEssPower
        /\ result.low > 0 /\ result.provenance
        /\ \A x \in result.relLow \cup result.relEffect \cup result.relHigh : x > Threshold
        /\ result.relEffect # {}
        /\ ~result.exploratory
        /\ 0 \in Rejected(PValues, Len(family) + 1)
=============================================================================
