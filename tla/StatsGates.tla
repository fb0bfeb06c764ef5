----------------------------- MODULE StatsGates -----------------------------
(***************************************************************************)
(* From a comparison to a decision: the gates a verdict passes, what the   *)
(* schema of a result insists on, the screen of a family of comparisons,   *)
(* and the conditions under which a candidate is accepted.                 *)
(*                                                                         *)
(* The arithmetic of the samples is left out: a comparison comes with its  *)
(* effective sample size (rounded down; there is one as soon as there is a *)
(* valid score), whether autocorrelation was detected, its effect and the  *)
(* bootstrap interval.  Effects are counted in one unit, absolute or       *)
(* relative to the baseline: the factor between the two is positive and    *)
(* changes no comparison.  p-values are multiples of one over PUnit.  The  *)
(* thresholds are parameters.                                              *)
(***************************************************************************)
EXTENDS Integers, FiniteSets

CONSTANTS
    MinRuns,            \* LOW_POWER_MEASURED_RUNS_MAX
    MinValid,           \* MIN_VALID_FOR_SIGNIFICANCE
    MinAutocorrelated,  \* AUTOCORRELATED_MIN_VALID_FOR_SIGNIFICANCE
    MinEss,             \* ESS_MIN
    MinEssPower,        \* LOW_POWER_ESS_MIN
    MinAcf,             \* the n below which an effective size is preliminary
    MinExploratory,     \* EXPLORATORY_MIN_N
    MinExploratoryEss,  \* EXPLORATORY_MIN_ESS
    MinExploratoryEffect, \* EXPLORATORY_MIN_RELATIVE_EFFECT_PCT
    Threshold,          \* practical_threshold_pct
    Effects,            \* bound: the effects there are
    PUnit,              \* the p-values are multiples of 1 / PUnit
    Q                   \* the rate of false discoveries, in the same unit

ASSUME GatesAssumption ==
    /\ MinRuns \in Nat /\ MinValid \in Nat /\ MinAutocorrelated \in Nat
    /\ MinRuns <= MinValid /\ MinValid <= MinAutocorrelated
    /\ MinEss \in Nat /\ MinEssPower \in Nat /\ MinEss <= MinEssPower
    /\ MinAcf \in Nat /\ MinExploratory \in Nat /\ MinExploratoryEss \in Nat
    /\ MinExploratoryEffect \in Nat /\ Threshold \in Nat /\ Effects \subseteq Int
    /\ PUnit \in Nat \ {0} /\ Q \in 1 .. PUnit

Significant == {"significant improvement", "significant regression"}

\* The effective size of a sample is clamped to the size it has, and of two
\* samples the smaller one counts.
EffectiveSizes(n) == 0 .. n

\* The quantiles at alpha / 2 and 1 - alpha / 2 of one sorted list: the lower
\* one comes first, but the effect of the sample itself, which is no member of
\* the list, may lie on either side of both.
Intervals == {i \in [low : Effects, high : Effects] : i.low <= i.high}

\* What compare_run_records knows when it asks for a verdict: n pairs, or n
\* valid runs on the smaller side; valid runs beyond these and invalid ones;
\* and whether the mean of the baseline is too close to zero to divide by.
Comparisons(MaxN, MaxSpare) ==
    {c \in [n : 1 .. MaxN, spare : 0 .. MaxSpare, invalid : 0 .. MaxSpare,
             paired : BOOLEAN, quality : {"good", "suspect", "unknown"},
             partial : BOOLEAN, ess : 0 .. MaxN, autocorrelated : BOOLEAN,
             ci : Intervals, point : Effects, zero : BOOLEAN] :
        /\ c.ess \in EffectiveSizes(c.n)
        /\ c.spare + c.invalid <= MaxSpare
        /\ c.partial => c.paired /\ c.spare > 0}

\* The pairs leave 2 n records matched; without pairs the sides have n records
\* and the spare ones more.
Measured(c) == 2 * c.n + c.spare + c.invalid

\* A value relative to the mean of the baseline: there is none, or one.
Relative(c, x) == IF c.zero THEN {} ELSE {x}

\* _statistical_verdict: grounds that exclude a verdict ...
HardInconclusive(c) ==
    \/ c.n < MinRuns
    \/ c.ess < MinEss
    \/ ~c.paired /\ c.autocorrelated

\* ... and grounds that make it one of low power, of which nothing follows.
LowPower(c) ==
    \/ c.n < MinValid
    \/ c.ess < MinEssPower
    \/ c.paired /\ c.quality # "good"
    \/ c.paired /\ c.partial
    \/ c.paired /\ c.autocorrelated /\ c.n < MinAutocorrelated
    \/ c.n < MinAcf

\* MUTANT: only the hard grounds stand in the way of a verdict.
OnlyHardGrounds(c) == HardInconclusive(c)

Insufficient(c) == HardInconclusive(c) \/ LowPower(c)

Verdict(c) ==
    IF Insufficient(c) THEN "inconclusive"
    ELSE IF c.ci.low > 0 THEN "significant improvement"
    ELSE IF c.ci.high < 0 THEN "significant regression"
    ELSE "no difference"

\* _exploratory_signal: a hint to confirm, from an autocorrelated comparison
\* without pairs.
Exploratory(c) ==
    /\ ~c.paired /\ c.autocorrelated /\ Verdict(c) = "inconclusive"
    /\ c.n >= MinExploratory /\ c.ess >= MinExploratoryEss
    /\ \E e \in Relative(c, c.point) : e >= MinExploratoryEffect \/ -e >= MinExploratoryEffect
    /\ c.ci.low > 0 \/ c.ci.high < 0

\* StatisticalResult
ResultOf(c, p, provenance) ==
    [verdict |-> Verdict(c), significant |-> Verdict(c) \in Significant,
     paired |-> c.paired, pairs |-> IF c.paired THEN c.n ELSE 0, quality |-> c.quality,
     n |-> c.n, invalid |-> c.invalid, measured |-> Measured(c),
     ess |-> c.ess, autocorrelated |-> c.autocorrelated, p |-> p,
     low |-> c.ci.low, high |-> c.ci.high,
     relEffect |-> Relative(c, c.point),
     relLow |-> Relative(c, c.ci.low), relHigh |-> Relative(c, c.ci.high),
     exploratory |-> Exploratory(c), confirm |-> Exploratory(c),
     provenance |-> provenance]

\* _statistical_result_is_decision_grade_predicate
DecisionGrade(r) ==
    /\ r.verdict \in Significant
    /\ IF r.paired THEN r.quality = "good" ELSE ~r.autocorrelated

\* statistical_result_must_be_consistent.  The rules on which a result and its
\* verdict have to agree ...
VerdictRules(r) ==
    /\ r.significant <=> r.verdict \in Significant
    /\ r.paired => r.pairs > 0
    /\ r.exploratory => r.verdict = "inconclusive" /\ r.confirm
    /\ r.verdict \in Significant => DecisionGrade(r)

\* ... those on which its numbers have to agree with each other ...
NumberRules(r) ==
    /\ r.low <= r.high
    /\ r.relLow \cup r.relHigh # {} => {} \notin {r.relLow, r.relEffect, r.relHigh}
    /\ \A l \in r.relLow, h \in r.relHigh : l <= h
    /\ r.n + r.invalid <= r.measured
    /\ r.ess <= r.n

\* ... and the one that asks for the effect within its interval.
EffectInInterval(r) ==
    \A l \in r.relLow, e \in r.relEffect, h \in r.relHigh : l <= e /\ e <= h

SchemaAccepts(r) == VerdictRules(r) /\ NumberRules(r) /\ EffectInInterval(r)

\* family_screen, over the results i \in DOMAIN family: the significant
\* improvements by their p-values, and the last rank within its share of Q.
Improvements(family) ==
    {i \in DOMAIN family : family[i].verdict = "significant improvement"}

Rank(family, i) ==
    Cardinality({j \in Improvements(family) : family[j].p <= family[i].p})

\* MUTANT: every p-value is compared with Q itself.
WithinRate(family, i) == family[i].p <= Q

WithinShare(family, i) ==
    family[i].p * Cardinality(DOMAIN family) <= Q * Rank(family, i)

Screened(family) ==
    {i \in Improvements(family) :
        \E j \in Improvements(family) :
            WithinShare(family, j) /\ family[i].p <= family[j].p}

\* MUTANT: the family is not asked.
AcceptsUnscreened(r, screened, confirmed) ==
    IF r.paired /\ r.quality # "good" THEN "pair quality"
    ELSE IF r.verdict # "significant improvement" \/ ~DecisionGrade(r) THEN "insignificant"
    ELSE IF ~confirmed THEN "needs confirmation"
    ELSE IF ~r.provenance THEN "incomplete provenance"
    ELSE IF r.relLow = {} THEN "no relative threshold"
    ELSE IF \E l \in r.relLow : l <= Threshold THEN "practical threshold"
    ELSE "accepted"

\* can_accept: the first gate that is closed, or "accepted".
CanAccept(r, screened, confirmed) ==
    IF r.paired /\ r.quality # "good" THEN "pair quality"
    ELSE IF r.verdict # "significant improvement" \/ ~DecisionGrade(r) THEN "insignificant"
    ELSE IF ~screened THEN "not screened"
    ELSE IF ~confirmed THEN "needs confirmation"
    ELSE IF ~r.provenance THEN "incomplete provenance"
    ELSE IF r.relLow = {} THEN "no relative threshold"
    ELSE IF \E l \in r.relLow : l <= Threshold THEN "practical threshold"
    ELSE "accepted"
=============================================================================
