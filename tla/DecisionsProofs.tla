--------------------------- MODULE DecisionsProofs ---------------------------
(***************************************************************************)
(* Proofs about Decisions, for every value of the thresholds and bounds,   *)
(* any number of pairs and families of any size.                           *)
(***************************************************************************)
EXTENDS Decisions, NaturalOrder, FiniteSetTheorems, TLAPS

USE PairAssumption

-----------------------------------------------------------------------------
(* Pairs *)

LEMMA RunFields ==
    ASSUME NEW r \in Run
    PROVE  /\ r.start \in Nat /\ r.end \in Nat /\ r.index \in Nat
           /\ r.position \in Nat /\ r.duration \in Nat
  BY DEF Run

\* Between two runs there is one that starts next after the first.
LEMMA NextRun ==
    ASSUME NEW runs \in SUBSET Run, NEW a \in runs, NEW b \in runs, Before(a, b)
    PROVE  \E c \in runs : Follows(c, a, runs)
<1> DEFINE After == {c \in runs : Before(a, c)}
           First == {c \in After : \A d \in After : c.start <= d.start}
           Front == {c \in First : \A d \in First : c.index <= d.index}
<1>0. \A r \in runs : r.start \in Nat /\ r.index \in Nat /\ r.position \in Nat
  BY DEF Run
<1>1. First # {}
  <2>1. {c.start : c \in After} \in SUBSET Nat /\ {c.start : c \in After} # {}
    BY <1>0
  <2>2. PICK m \in {c.start : c \in After} : \A n \in {c.start : c \in After} : m <= n
    BY <2>1, LeastNatural
  <2> QED
    BY <2>2
<1>2. Front # {}
  <2>1. {c.index : c \in First} \in SUBSET Nat /\ {c.index : c \in First} # {}
    BY <1>0, <1>1
  <2>2. PICK m \in {c.index : c \in First} : \A n \in {c.index : c \in First} : m <= n
    BY <2>1, LeastNatural
  <2> QED
    BY <2>2
<1>3. PICK c \in Front : \A d \in Front : c.position <= d.position
  <2>1. {c.position : c \in Front} \in SUBSET Nat /\ {c.position : c \in Front} # {}
    BY <1>0, <1>2
  <2>2. PICK m \in {c.position : c \in Front} : \A n \in {c.position : c \in Front} : m <= n
    BY <2>1, LeastNatural
  <2> QED
    BY <2>2
<1>4. /\ c \in runs /\ Before(a, c)
      /\ \A d \in runs : Before(a, d) => c.start <= d.start
      /\ \A d \in runs : Before(a, d) /\ d.start = c.start => c.index <= d.index
      /\ \A d \in runs : Before(a, d) /\ d.start = c.start /\ d.index = c.index
                           => c.position <= d.position
  <2>1. c \in Front /\ c \in First /\ c \in After
    BY <1>3
  <2>2. \A d \in After : d.start = c.start => d \in First
    BY <2>1
  <2>3. \A d \in First : d.index = c.index => d \in Front
    BY <2>1
  <2>4. \A d \in runs : Before(a, d) => d \in After
    OBVIOUS
  <2>5. c \in runs /\ Before(a, c)
    BY <2>1
  <2>6. \A d \in After : c.start <= d.start
    BY <2>1
  <2>7. \A d \in First : c.index <= d.index
    BY <2>1
  <2> HIDE DEF After, First, Front
  <2> QED
    BY <1>3, <2>2, <2>3, <2>4, <2>5, <2>6, <2>7
<1> HIDE DEF After, First, Front
<1>5. ASSUME NEW d \in runs, Before(a, d), Before(d, c) PROVE FALSE
  <2>1. /\ c.start \in Nat /\ c.index \in Nat /\ c.position \in Nat
        /\ d.start \in Nat /\ d.index \in Nat /\ d.position \in Nat
    BY <1>0, <1>4
  <2>2. c.start <= d.start /\ (d.start = c.start => c.index <= d.index)
        /\ (d.start = c.start /\ d.index = c.index => c.position <= d.position)
    BY <1>4, <1>5
  <2> QED
    BY <1>5, <2>1, <2>2 DEF Before
<1> QED
  BY <1>4, <1>5 DEF Follows

\* Looking at each run and the next is enough: without an overlap of these no
\* two runs overlap.
LEMMA NeighboursSuffice ==
    ASSUME NEW runs \in SUBSET Run, ~TimeOverlap(runs)
    PROVE  Disjoint(runs)
<1> SUFFICES ASSUME NEW a \in runs, NEW b \in runs, Before(a, b)
             PROVE  a.end - b.start <= OverlapTolerance
  BY DEF Disjoint
<1>1. PICK c \in runs : Follows(c, a, runs)
  BY NextRun
<1>2. /\ a.start \in Nat /\ a.end \in Nat /\ a.index \in Nat
      /\ b.start \in Nat /\ b.index \in Nat /\ b.position \in Nat
      /\ c.start \in Nat /\ c.index \in Nat /\ c.position \in Nat
  BY RunFields
<1>3. a.end - c.start <= OverlapTolerance
  <2>1. ~(a.end - c.start > OverlapTolerance)
    BY <1>1 DEF TimeOverlap
  <2> QED
    BY <1>2, <2>1
<1>4. c.start <= b.start
  BY <1>1, <1>2 DEF Follows, Before
<1> QED
  BY <1>2, <1>3, <1>4

\* A pair as it is measured: two runs, each over after its start, the one of
\* the baseline before the other in the list.
Pair == {p \in [baseline : Run, candidate : Run] :
            /\ p.baseline.start <= p.baseline.end
            /\ p.candidate.start <= p.candidate.end
            /\ p.baseline.position < p.candidate.position}

LEMMA RunsOfPairs ==
    ASSUME NEW pairing \in SUBSET Pair
    PROVE  Runs(pairing) \in SUBSET Run
  BY DEF Runs, Pair

\* What counts as the gap is not less than the distance of the starts, ...
LEMMA GapCounts ==
    ASSUME NEW p \in Pair
    PROVE  DerivedGap(p) \in Nat /\ EffectiveGap(p) \in Nat /\ DerivedGap(p) <= EffectiveGap(p)
<1>1. p.baseline.start \in Nat /\ p.candidate.start \in Nat
      /\ p.baseline.gap \in Nat \cup {Unknown} /\ p.candidate.gap \in Nat \cup {Unknown}
  BY DEF Pair, Run
<1>2. DerivedGap(p) \in Nat
  BY <1>1 DEF DerivedGap, Distance, Larger
<1>3. ASSUME Reported(p) # {} PROVE FieldGap(p) \in Nat
  <2>1. Reported(p) \subseteq Nat
    BY <1>1 DEF Reported
  <2>2. \E g \in Reported(p) : \A h \in Reported(p) : g >= h
    BY <1>1, <1>3 DEF Reported
  <2>3. FieldGap(p) \in Reported(p)
    BY <2>2 DEF FieldGap
  <2> QED
    BY <2>1, <2>3
<1> QED
  BY <1>2, <1>3 DEF EffectiveGap, Larger

\* ... and a run counts for no longer than it took.
LEMMA GapAllowed ==
    ASSUME NEW p \in Pair
    PROVE  /\ Smaller(Length(p.baseline), Length(p.candidate)) \in Nat
           /\ AllowedGap(p) \in Nat
           /\ AllowedGap(p) <= Larger(GapPerDuration * Smaller(Length(p.baseline),
                                                              Length(p.candidate)), GapFloor)
<1> DEFINE b == EffectiveDuration(p.baseline)
           c == EffectiveDuration(p.candidate)
           x == Smaller(b, c)
           y == Smaller(Length(p.baseline), Length(p.candidate))
<1>1. b \in Nat /\ c \in Nat /\ b <= Length(p.baseline) /\ c <= Length(p.candidate)
      /\ Length(p.baseline) \in Nat /\ Length(p.candidate) \in Nat
  <2>1. p.baseline \in Run /\ p.candidate \in Run
        /\ p.baseline.start <= p.baseline.end /\ p.candidate.start <= p.candidate.end
    BY DEF Pair
  <2>2. ASSUME NEW r \in Run, r.start <= r.end
        PROVE  EffectiveDuration(r) \in Nat /\ Length(r) \in Nat
               /\ EffectiveDuration(r) <= Length(r)
    <3>1. r.start \in Nat /\ r.end \in Nat /\ r.duration \in Nat
      BY RunFields
    <3> QED
      BY <2>2, <3>1 DEF EffectiveDuration, Smaller, Length
  <2> QED
    BY <2>1, <2>2
<1>2. x \in Nat /\ y \in Nat /\ x <= y
  BY <1>1 DEF Smaller
<1>3. GapPerDuration * x \in Nat /\ GapPerDuration * y \in Nat
      /\ GapPerDuration * x <= GapPerDuration * y
  <2> HIDE DEF x, y
  <2>1. PICK z \in Nat : y = x + z
    BY <1>2
  <2>2. GapPerDuration * y = GapPerDuration * x + GapPerDuration * z
    BY <1>2, <2>1
  <2>3. GapPerDuration * z \in Nat /\ GapPerDuration * x \in Nat
    BY <1>2, <2>1
  <2> QED
    BY <2>2, <2>3
<1>4. AllowedGap(p) = Larger(GapPerDuration * x, GapFloor)
  BY DEF AllowedGap
<1> HIDE DEF x, y
<1>5. AllowedGap(p) \in Nat /\ AllowedGap(p) <= Larger(GapPerDuration * y, GapFloor)
  BY <1>3, <1>4 DEF Larger
<1> QED
  BY <1>2, <1>5 DEF y

\* When no two runs overlap, the run that comes first in a pair is over by the
\* start of the other: no duration stretches the tolerance past the gap.
LEMMA GapCoversARun ==
    ASSUME NEW pairing \in SUBSET Pair, Disjoint(Runs(pairing)), NEW p \in pairing
    PROVE  Smaller(Length(p.baseline), Length(p.candidate)) <= DerivedGap(p) + OverlapTolerance
<1>1. p.baseline \in Runs(pairing) /\ p.candidate \in Runs(pairing)
  BY DEF Runs
<1>2. p.baseline \in Run /\ p.candidate \in Run /\ p.baseline.position < p.candidate.position
  BY DEF Pair
<1>3. /\ p.baseline.start \in Nat /\ p.baseline.end \in Nat /\ p.baseline.index \in Nat
      /\ p.candidate.start \in Nat /\ p.candidate.end \in Nat /\ p.candidate.index \in Nat
      /\ p.baseline.position \in Nat /\ p.candidate.position \in Nat
  BY <1>2, RunFields
<1>4. Before(p.baseline, p.candidate) \/ Before(p.candidate, p.baseline)
  BY <1>2, <1>3 DEF Before
<1>5. CASE Before(p.baseline, p.candidate)
  <2>1. p.baseline.end - p.candidate.start <= OverlapTolerance
    BY <1>1, <1>5 DEF Disjoint
  <2>2. p.baseline.start <= p.candidate.start
    BY <1>3, <1>5 DEF Before
  <2>3. p.candidate.start - p.baseline.start <= DerivedGap(p) /\ DerivedGap(p) \in Nat
    BY <1>3, <2>2 DEF DerivedGap, Distance, Larger
  <2>4. Smaller(Length(p.baseline), Length(p.candidate)) <= p.baseline.end - p.baseline.start
    BY <1>3 DEF Smaller, Length
  <2>5. Smaller(Length(p.baseline), Length(p.candidate)) \in Int
    BY <1>3 DEF Smaller, Length
  <2> QED
    BY <1>3, <2>1, <2>3, <2>4, <2>5
<1>6. CASE Before(p.candidate, p.baseline)
  <2>1. p.candidate.end - p.baseline.start <= OverlapTolerance
    BY <1>1, <1>6 DEF Disjoint
  <2>2. p.candidate.start <= p.baseline.start
    BY <1>3, <1>6 DEF Before
  <2>3. p.baseline.start - p.candidate.start <= DerivedGap(p) /\ DerivedGap(p) \in Nat
    BY <1>3, <2>2 DEF DerivedGap, Distance, Larger
  <2>4. Smaller(Length(p.baseline), Length(p.candidate)) <= p.candidate.end - p.candidate.start
    BY <1>3 DEF Smaller, Length
  <2>5. Smaller(Length(p.baseline), Length(p.candidate)) \in Int
    BY <1>3 DEF Smaller, Length
  <2> QED
    BY <1>3, <2>1, <2>3, <2>4, <2>5
<1> QED
  BY <1>4, <1>5, <1>6

(***************************************************************************)
(* The closure argument of the design notes: pairs of good quality are     *)
(* comparable, for every set of pairs and whatever gaps, durations and     *)
(* orders the records report (stats_core.py:1261-1300).                    *)
(***************************************************************************)
THEOREM GoodPairsCompare ==
    ASSUME NEW pairing \in SUBSET Pair, Quality(pairing) = "good"
    PROVE  Comparable(pairing)
<1>1. ~TimeOverlap(Runs(pairing)) /\ \A p \in pairing : GoodPair(p)
  BY DEF Quality
<1>2. Disjoint(Runs(pairing))
  BY <1>1, RunsOfPairs, NeighboursSuffice
<1>3. ASSUME NEW p \in pairing
      PROVE  LET shorter == Smaller(Length(p.baseline), Length(p.candidate)) IN
             /\ p.baseline.order = p.candidate.order
             /\ DerivedGap(p) <= GapMax
             /\ DerivedGap(p) <= Larger(GapPerDuration * shorter, GapFloor)
             /\ shorter <= DerivedGap(p) + OverlapTolerance
  <2> DEFINE shorter == Smaller(Length(p.baseline), Length(p.candidate))
             limit == Larger(GapPerDuration * shorter, GapFloor)
  <2>1. GoodPair(p) /\ p \in Pair
    BY <1>1
  <2>2. DerivedGap(p) \in Nat /\ EffectiveGap(p) \in Nat /\ DerivedGap(p) <= EffectiveGap(p)
    BY <2>1, GapCounts
  <2>3. AllowedGap(p) \in Nat /\ AllowedGap(p) <= limit /\ shorter \in Nat
    BY <2>1, GapAllowed
  <2>4. EffectiveGap(p) <= AllowedGap(p) /\ EffectiveGap(p) <= GapMax
        /\ p.baseline.order = p.candidate.order
    BY <2>1 DEF GoodPair
  <2>5. shorter <= DerivedGap(p) + OverlapTolerance
    BY <1>2, GapCoversARun
  <2>6. limit \in Int
    BY <2>3 DEF Larger
  <2> HIDE DEF limit
  <2>7. DerivedGap(p) <= limit /\ DerivedGap(p) <= GapMax
    BY <2>2, <2>3, <2>4, <2>6
  <2> QED
    BY <2>4, <2>5, <2>7 DEF limit
<1> QED
  BY <1>2, <1>3 DEF Comparable

\* What is known of the pairs on the way to a verdict.
Sampling ==
    /\ pairs \in Seq(Pair)
    /\ stage # "compare" => sample = None
    /\ stage = "compare" => (sample.quality = "good" \/ ~sample.paired => comparable)

LEMMA SamplingInit == Init => Sampling
  BY DEF Init, Sampling

\* The kinds of values a run holds, kept apart for the provers.
Orders == {"baseline first", "candidate first", Unknown}
Gaps == Nat \cup {Unknown}
OverAt(n) == {r \in Run : r.start <= r.end /\ r.position = n}

LEMMA RunIsRun ==
    ASSUME NEW s \in Nat, NEW k \in Nat, NEW d \in Nat, NEW g \in Gaps,
           NEW o \in Orders, NEW i \in Nat, NEW n \in Nat
    PROVE  RunOf(s, k, d, o, g, i, n) \in OverAt(n)
<1> DEFINE r == RunOf(s, k, d, o, g, i, n)
<1>1. s + k \in Nat /\ s <= s + k
  OBVIOUS
<1>2. r = [start |-> s, end |-> s + k, duration |-> d, order |-> o, gap |-> g,
           index |-> i, position |-> n]
  BY DEF RunOf
<1>3. r.start = s /\ r.end = s + k /\ r.position = n
  BY <1>2
<1>4. r \in Run
  <2>1. Run = [start : Nat, end : Nat, index : Nat, position : Nat, duration : Nat,
               order : Orders, gap : Gaps]
    BY Zenon DEF Run, Orders, Gaps
  <2> QED
    BY <1>1, <1>2, <2>1
<1> HIDE DEF r
<1> QED
  BY <1>1, <1>3, <1>4 DEF OverAt, r

LEMMA MeasurePairSampling == Sampling /\ MeasurePair => Sampling'
<1> SUFFICES ASSUME Sampling, MeasurePair PROVE Sampling'
  OBVIOUS
<1>0. pairs \in Seq(Pair) /\ Len(pairs) \in Nat
  BY DEF Sampling
<1> DEFINE i == Len(pairs) + 1
<1>1. PICK m \in Nat, n \in Nat : i = m /\ n = MaxPairs + m /\ m < n
  <2>1. i <= MaxPairs
    BY Zenon DEF MeasurePair
  <2> QED
    BY <1>0, <2>1, DecisionsAssumption
<1>2. UNCHANGED <<stage, sample, comparable>>
  BY DEF MeasurePair
<1>3. PICK s \in Nat, t \in Nat, k \in Nat, l \in Nat, d \in Nat,
           o \in Orders, p \in Orders, g \in Gaps, h \in Gaps :
        pairs' = Append(pairs, [baseline  |-> RunOf(s, k, d, o, g, i, i),
                                candidate |-> RunOf(t, l, l, p, h, i, MaxPairs + i)])
  <2>1. \A x \in {"baseline first", Unknown} : x \in Orders
    BY DEF Orders
  <2>2. \A x \in ReportedGaps : \A y \in {x, Unknown} : x \in Gaps /\ y \in Gaps
    BY DecisionsAssumption, Zenon DEF Gaps
  <2>3. Lengths \subseteq Nat /\ 0 .. Horizon \subseteq Nat
    BY DecisionsAssumption
  <2>4. PICK s \in 0 .. Horizon, t \in 0 .. Horizon, k \in Lengths, l \in Lengths :
           \E d \in Lengths, o, p \in {"baseline first", Unknown} :
           \E g \in ReportedGaps : \E h \in {g, Unknown} :
            /\ i > 1 => d = k /\ {o, p} = {"baseline first"} /\ g = Unknown
            /\ ~(i > 1) => Smaller(s, t) = 0
            /\ pairs' = Append(pairs, [baseline  |-> RunOf(s, k, d, o, g, i, i),
                                      candidate |-> RunOf(t, l, l, p, h, i, MaxPairs + i)])
    BY Zenon DEF MeasurePair
  <2> HIDE DEF i
  <2>5. PICK d \in Lengths, o \in {"baseline first", Unknown},
             p \in {"baseline first", Unknown} :
           \E g \in ReportedGaps : \E h \in {g, Unknown} :
            pairs' = Append(pairs, [baseline  |-> RunOf(s, k, d, o, g, i, i),
                                    candidate |-> RunOf(t, l, l, p, h, i, MaxPairs + i)])
    BY <2>4, ZenonT(30)
  <2> QED
    BY <2>1, <2>2, <2>3, <2>5, Zenon
<1> HIDE DEF i
<1>4. pairs' = Append(pairs, [baseline  |-> RunOf(s, k, d, o, g, m, m),
                              candidate |-> RunOf(t, l, l, p, h, m, n)])
  BY <1>1, <1>3, Zenon
<1>5. [baseline |-> RunOf(s, k, d, o, g, m, m), candidate |-> RunOf(t, l, l, p, h, m, n)]
        \in Pair
  <2> DEFINE b == RunOf(s, k, d, o, g, m, m)
             c == RunOf(t, l, l, p, h, m, n)
  <2>1. b \in OverAt(m) /\ c \in OverAt(n)
    BY RunIsRun, Zenon
  <2> HIDE DEF b, c
  <2>2. /\ b \in Run /\ b.start <= b.end /\ b.position = m
        /\ c \in Run /\ c.start <= c.end /\ c.position = n
    BY <2>1 DEF OverAt
  <2>3. [baseline |-> b, candidate |-> c] \in Pair
    BY <1>1, <2>2 DEF Pair
  <2> QED
    BY <2>3 DEF b, c
<1>6. pairs' \in Seq(Pair)
  BY <1>0, <1>4, <1>5
<1> QED
  BY <1>2, <1>6 DEF Sampling

LEMMA PairUpSampling == Sampling /\ PairUp => Sampling'
<1> SUFFICES ASSUME Sampling, PairUp PROVE Sampling'
  OBVIOUS
<1> DEFINE all == {pairs[i] : i \in DOMAIN pairs}
           paired == pairs # <<>>
<1>1. all \in SUBSET Pair
  BY DEF Sampling
<1>2. /\ sample' = [paired |-> paired, quality |-> IF paired THEN Quality(all) ELSE "unknown",
                    seen |-> Len(pairs)]
      /\ comparable' = (paired => Comparable(all))
      /\ pairs' = <<>>
  BY DEF PairUp
<1>3. Quality(all) = "good" => Comparable(all)
  BY <1>1, GoodPairsCompare
<1> HIDE DEF all, paired
<1>4. sample'.quality = "good" => comparable'
  <2>1. CASE paired
    BY <1>2, <1>3, <2>1
  <2>2. CASE ~paired
    BY <1>2, <2>2
  <2> QED
    BY <2>1, <2>2
<1>5. ~sample'.paired => comparable'
  <2>1. sample'.paired = paired
    BY <1>2
  <2> QED
    BY <1>2, <2>1
<1>6. pairs' \in Seq(Pair)
  BY <1>2
<1>7. stage' = "compare"
  BY DEF PairUp
<1> QED
  BY <1>4, <1>5, <1>6, <1>7 DEF Sampling

LEMMA SamplingStep == Sampling /\ [Next]_vars => Sampling'
<1> SUFFICES ASSUME Sampling, [Next]_vars PROVE Sampling'
  OBVIOUS
<1>1. CASE MeasurePair
  BY <1>1, MeasurePairSampling
<1>2. CASE PairUp
  BY <1>2, PairUpSampling
<1>3. CASE Compare
  BY <1>3 DEF Compare, Sampling
<1>4. CASE BuildFails \/ Builds \/ BenchmarkFails \/ Screen \/ Decide
  <2>1. stage # "compare" /\ stage' # "compare" /\ UNCHANGED <<pairs, sample>>
    BY <1>4 DEF BuildFails, Builds, BenchmarkFails, Fails, Screen, Decide
  <2> QED
    BY <2>1 DEF Sampling
<1>5. CASE UNCHANGED vars
  BY <1>5 DEF vars, Sampling
<1> QED
  BY <1>1, <1>2, <1>3, <1>4, <1>5 DEF Next

\* A set of pairs is judged good only when its runs are comparable: at every
\* step, for every number of pairs, every time and every report of a harness.
THEOREM GoodStaysComparable == Spec => []GoodMeansComparable
<1>1. Sampling => GoodMeansComparable
  BY DEF Sampling, GoodMeansComparable
<1> QED
  BY <1>1, SamplingInit, SamplingStep, PTL DEF Spec

-----------------------------------------------------------------------------
(* Results *)

\* The rules for verdicts hold because the verdict is decided on the grounds
\* the schema asks for (stats_core.py:800, result_schema.py:266).
LEMMA VerdictsAgree ==
    ASSUME NEW c \in Comparisons(MaxN, MaxSpare), NEW p, NEW provenance
    PROVE  VerdictRules(ResultOf(c, p, provenance))
<1> DEFINE r == ResultOf(c, p, provenance)
<1>1. /\ r.paired = c.paired /\ r.pairs = (IF c.paired THEN c.n ELSE 0)
      /\ r.quality = c.quality /\ r.significant = (Verdict(c) \in Significant)
      /\ r.autocorrelated = c.autocorrelated /\ r.verdict = Verdict(c)
      /\ r.exploratory = Exploratory(c) /\ r.confirm = Exploratory(c)
  BY DEF ResultOf
<1>2. c.n > 0
  BY DEF Comparisons
<1>3. Exploratory(c) => Verdict(c) = "inconclusive"
  BY DEF Exploratory
<1>4. Verdict(c) \in Significant => ~Insufficient(c)
  BY DEF Verdict, Significant
<1>5. ~Insufficient(c) => IF c.paired THEN c.quality = "good" ELSE ~c.autocorrelated
  BY DEF Insufficient, HardInconclusive, LowPower
<1> HIDE DEF r
<1> QED
  BY <1>1, <1>2, <1>3, <1>4, <1>5 DEF VerdictRules, DecisionGrade, r

\* The numbers agree because they are counted and scaled on the same samples
\* (stats_core.py:389 and 418, result_schema.py:237).
LEMMA NumbersAgree ==
    ASSUME NEW c \in Comparisons(MaxN, MaxSpare), NEW p, NEW provenance
    PROVE  NumberRules(ResultOf(c, p, provenance))
<1> DEFINE r == ResultOf(c, p, provenance)
<1>1. /\ r.low = c.ci.low /\ r.high = c.ci.high /\ r.ess = c.ess /\ r.n = c.n
      /\ r.invalid = c.invalid /\ r.measured = 2 * c.n + c.spare + c.invalid
      /\ r.relLow = Relative(c, c.ci.low) /\ r.relHigh = Relative(c, c.ci.high)
      /\ r.relEffect = Relative(c, c.point)
  BY DEF ResultOf, Measured
<1>2. /\ c.ci.low <= c.ci.high /\ c.ess <= c.n
      /\ c.n \in Nat /\ c.spare \in Nat /\ c.invalid \in Nat
  BY DecisionsAssumption DEF Comparisons, Intervals, EffectiveSizes
<1>3. c.n + c.invalid <= 2 * c.n + c.spare + c.invalid
  BY <1>2
<1> HIDE DEF r
<1>4. CASE c.zero
  BY <1>1, <1>2, <1>3, <1>4 DEF NumberRules, Relative, r
<1>5. CASE ~c.zero
  BY <1>1, <1>2, <1>3, <1>5 DEF NumberRules, Relative, r
<1> QED
  BY <1>4, <1>5

\* So a result that is not accepted has an effect, relative to the baseline,
\* that its interval misses.
LEMMA RefusedMissesInterval ==
    ASSUME NEW c \in Comparisons(MaxN, MaxSpare), NEW p, NEW provenance,
           ~SchemaAccepts(ResultOf(c, p, provenance))
    PROVE  LET r == ResultOf(c, p, provenance)
           IN  \E e \in r.relEffect : e < r.low \/ r.high < e
<1> DEFINE r == ResultOf(c, p, provenance)
<1>1. /\ r.low = c.ci.low /\ r.high = c.ci.high
      /\ r.relLow = Relative(c, c.ci.low) /\ r.relHigh = Relative(c, c.ci.high)
      /\ r.relEffect = Relative(c, c.point)
  BY DEF ResultOf
<1>2. c.ci.low \in Int /\ c.ci.high \in Int /\ c.point \in Int
  BY GatesAssumption DEF Comparisons, Intervals
<1>3. ~EffectInInterval(r)
  BY VerdictsAgree, NumbersAgree DEF SchemaAccepts
<1> HIDE DEF r
<1>4. ~c.zero
  BY <1>1, <1>3 DEF EffectInInterval, Relative
<1>5. r.relEffect = {c.point} /\ r.relLow = {c.ci.low} /\ r.relHigh = {c.ci.high}
  BY <1>1, <1>4 DEF Relative
<1>6. ~(c.ci.low <= c.point /\ c.point <= c.ci.high)
  BY <1>3, <1>5 DEF EffectInInterval
<1>7. c.point < r.low \/ r.high < c.point
  BY <1>1, <1>2, <1>6
<1>8. \E e \in r.relEffect : e < r.low \/ r.high < e
  BY <1>5, <1>7
<1> QED
  BY <1>8 DEF r

\* A comparison raises for its result only when the interval misses the effect:
\* for every choice of the thresholds and all numbers of runs, every other rule
\* of the schema holds of everything compare_run_records can come to.
THEOREM RefusalsAreForIntervals == Spec => []RefusedForInterval
<1>1. Init => RefusedForInterval
  BY DEF Init, RefusedForInterval
<1>2. RefusedForInterval /\ [Next]_vars => RefusedForInterval'
  <2> SUFFICES ASSUME RefusedForInterval, [Next]_vars PROVE RefusedForInterval'
    OBVIOUS
  <2>1. CASE Compare
    <3>1. PICK c \in Comparisons(MaxN, MaxSpare), p \in 1 .. PUnit, provenance \in BOOLEAN :
            result' = ResultOf(c, p, provenance)
      BY <2>1, Zenon DEF Compare
    <3>2. stage' = "refused" => ~SchemaAccepts(result')
      BY <2>1 DEF Compare
    <3>3. VerdictRules(result') /\ NumberRules(result')
      BY <3>1, VerdictsAgree, NumbersAgree, Zenon
    <3>4. stage' = "refused" =>
            \E e \in result'.relEffect : e < result'.low \/ result'.high < e
      BY <3>1, <3>2, RefusedMissesInterval, Zenon
    <3> QED
      BY <3>3, <3>4 DEF RefusedForInterval
  <2>2. CASE UNCHANGED <<stage, result>>
    BY <2>2 DEF RefusedForInterval, VerdictRules, NumberRules, DecisionGrade
  <2>3. BuildFails \/ Builds \/ BenchmarkFails \/ MeasurePair \/ PairUp \/ Screen \/ Decide
          => stage' # "refused" \/ UNCHANGED <<stage, result>>
    BY DEF BuildFails, Builds, BenchmarkFails, Fails, MeasurePair, PairUp, Screen, Decide
  <2>4. CASE stage' # "refused"
    BY <2>4 DEF RefusedForInterval
  <2>5. UNCHANGED vars => UNCHANGED <<stage, result>>
    BY DEF vars
  <2> QED
    BY <2>1, <2>2, <2>3, <2>4, <2>5 DEF Next
<1> QED
  BY <1>1, <1>2, PTL DEF Spec

-----------------------------------------------------------------------------
(* The screen of a family *)

LEMMA ProductGrows ==
    ASSUME NEW x \in Nat, NEW y \in Nat, NEW f \in Nat, x <= y
    PROVE  x * f \in Nat /\ y * f \in Nat /\ x * f <= y * f /\ f * x <= f * y
<1>1. PICK z \in Nat : y = x + z
  OBVIOUS
<1>2. y * f = x * f + z * f /\ f * y = f * x + f * z
  BY <1>1
<1>3. x * f \in Nat /\ z * f \in Nat /\ f * x \in Nat /\ f * z \in Nat
  BY <1>1
<1> QED
  BY <1>2, <1>3

\* The improvements that are within the share of k of m results.
Within(p, m, k) == {i \in DOMAIN p : p[i] * m <= Q * k}
Possible(p, m) == {k \in 1 .. m : Cardinality(Within(p, m, k)) >= k}
AtMost(p, j) == {i \in DOMAIN p : p[i] <= p[j]}

\* Screening by ranks.
ByRanks(p, m) ==
    {i \in DOMAIN p : \E j \in DOMAIN p : /\ p[j] * m <= Q * Cardinality(AtMost(p, j))
                                         /\ p[i] <= p[j]}

\* It selects what the procedure rejects, ...
LEMMA ByRank ==
    ASSUME NEW I, IsFiniteSet(I), NEW top \in Nat, NEW p \in [I -> 0 .. top],
           NEW m \in Nat, Cardinality(I) <= m
    PROVE  Rejected(p, m) = ByRanks(p, m)
<1> DEFINE R == {i \in I : \E j \in I : /\ p[j] * m <= Q * Cardinality(AtMost(p, j))
                                        /\ p[i] <= p[j]}
           K == CHOOSE k \in Possible(p, m) : \A l \in Possible(p, m) : l <= k
<1>1. Q \in Nat /\ DOMAIN p = I /\ \A x \in I : p[x] \in Nat
  BY GatesAssumption
<1>2. ASSUME NEW S \in SUBSET I
      PROVE  IsFiniteSet(S) /\ Cardinality(S) \in Nat /\ Cardinality(S) <= m
  <2>1. IsFiniteSet(S) /\ Cardinality(S) <= Cardinality(I)
    BY FS_Subset
  <2>2. Cardinality(S) \in Nat /\ Cardinality(I) \in Nat
    BY <2>1, FS_CardinalityType
  <2> QED
    BY <2>1, <2>2
<1>3. \A k : Within(p, m, k) \in SUBSET I
  BY <1>1 DEF Within
<1>4. \A j : AtMost(p, j) \in SUBSET I
  BY <1>1 DEF AtMost
<1>5. Rejected(p, m) = IF Possible(p, m) = {} THEN {} ELSE Within(p, m, K)
  BY DEF Rejected, Possible, Within
<1>6. Possible(p, m) # {} => K \in Possible(p, m) /\ \A l \in Possible(p, m) : l <= K
  <2> SUFFICES ASSUME Possible(p, m) # {}
               PROVE  \E k \in Possible(p, m) : \A l \in Possible(p, m) : l <= k
    OBVIOUS
  <2>1. Possible(p, m) \in SUBSET (0 .. m)
    BY DEF Possible
  <2> QED
    BY <2>1, GreatestNatural
<1> HIDE DEF K, R
<1>7. ASSUME NEW i \in R PROVE i \in Rejected(p, m)
  <2>1. PICK j \in I : p[j] * m <= Q * Cardinality(AtMost(p, j)) /\ p[i] <= p[j]
    BY DEF R
  <2> DEFINE k == Cardinality(AtMost(p, j))
  <2>2. i \in I /\ p[i] \in Nat /\ p[j] \in Nat
    BY DEF R
  <2>3. k \in Nat /\ k <= m
    BY <1>2, <1>4
  <2>4. k # 0
    <3>1. j \in AtMost(p, j)
      BY <1>1, <2>2 DEF AtMost
    <3> QED
      BY <3>1, <1>2, <1>4, FS_EmptySet
  <2>5. AtMost(p, j) \in SUBSET Within(p, m, k)
    <3> SUFFICES ASSUME NEW x \in AtMost(p, j) PROVE x \in Within(p, m, k)
      OBVIOUS
    <3>1. x \in I /\ p[x] \in Nat /\ p[x] <= p[j]
      BY <1>1 DEF AtMost
    <3>2. p[x] * m <= p[j] * m /\ p[x] * m \in Nat /\ p[j] * m \in Nat
      BY <2>2, <3>1, ProductGrows
    <3>3. Q * k \in Nat
      BY <1>1, <2>3
    <3> HIDE DEF k
    <3>4. p[j] * m <= Q * k
      BY <2>1 DEF k
    <3> QED
      BY <1>1, <3>1, <3>2, <3>3, <3>4 DEF Within
  <2>6. Cardinality(Within(p, m, k)) >= k
    <3>1. IsFiniteSet(Within(p, m, k)) /\ Cardinality(Within(p, m, k)) \in Nat
      BY <1>2, <1>3
    <3> QED
      BY <2>3, <2>5, <3>1, FS_Subset
  <2> HIDE DEF k
  <2>7. k \in Possible(p, m)
    BY <2>3, <2>4, <2>6 DEF Possible
  <2>8. K \in Nat /\ k <= K
    <3>1. K \in Possible(p, m) /\ k <= K
      BY <1>6, <2>7
    <3> QED
      BY <3>1 DEF Possible
  <2>9. Q * k \in Nat /\ Q * K \in Nat /\ Q * k <= Q * K
    <3>1. Q * k <= Q * K
      BY <1>1, <2>3, <2>8, ProductGrows
    <3> QED
      BY <1>1, <2>3, <2>8, <3>1
  <2>10. p[i] * m <= p[j] * m /\ p[i] * m \in Nat /\ p[j] * m \in Nat
    BY <2>1, <2>2, ProductGrows
  <2>11. p[i] * m <= Q * K
    BY <2>1, <2>9, <2>10 DEF k
  <2> QED
    BY <1>1, <1>5, <2>2, <2>7, <2>11 DEF Within
<1>8. ASSUME NEW i \in Rejected(p, m) PROVE i \in R
  <2>1. /\ K \in Possible(p, m) /\ i \in Within(p, m, K)
        /\ K \in Nat /\ Cardinality(Within(p, m, K)) >= K
    <3>1. Possible(p, m) # {}
      BY <1>5
    <3> QED
      BY <1>5, <1>6, <3>1 DEF Possible
  <2>2. PICK j \in Within(p, m, K) : \A x \in Within(p, m, K) : p[x] <= p[j]
    <3> DEFINE V == {p[x] : x \in Within(p, m, K)}
    <3>1. V \in SUBSET (0 .. top) /\ V # {}
      BY <1>3, <2>1
    <3>2. PICK v \in V : \A w \in V : w <= v
      BY <3>1, GreatestNatural
    <3> QED
      BY <3>2
  <2>3. /\ i \in I /\ j \in I /\ p[i] <= p[j]
        /\ p[j] * m <= Q * K
    BY <1>1, <1>3, <2>1, <2>2 DEF Within
  <2>4. K <= Cardinality(AtMost(p, j))
    <3>1. Within(p, m, K) \in SUBSET AtMost(p, j)
      BY <1>1, <1>3, <2>2 DEF AtMost
    <3>2. IsFiniteSet(AtMost(p, j)) /\ Cardinality(AtMost(p, j)) \in Nat
      BY <1>2, <1>4
    <3>3. Cardinality(Within(p, m, K)) <= Cardinality(AtMost(p, j))
      BY <3>1, <3>2, FS_Subset
    <3>4. Cardinality(Within(p, m, K)) \in Nat
      BY <1>2, <1>3
    <3> QED
      BY <2>1, <3>2, <3>3, <3>4
  <2> DEFINE k == Cardinality(AtMost(p, j))
  <2>5. k \in Nat
    BY <1>2, <1>4
  <2> HIDE DEF k
  <2>6. Q * K <= Q * k /\ Q * K \in Nat /\ Q * k \in Nat
    <3>1. K <= k
      BY <2>4 DEF k
    <3>2. Q * K <= Q * k
      BY <1>1, <2>1, <2>5, <3>1, ProductGrows
    <3> QED
      BY <1>1, <2>1, <2>5, <3>2
  <2>7. p[j] * m \in Nat
    BY <1>1, <2>3
  <2>8. p[j] * m <= Q * k
    BY <2>3, <2>6, <2>7
  <2> QED
    BY <2>3, <2>8 DEF R, k
<1>9. R = ByRanks(p, m)
  BY <1>1 DEF R, ByRanks
<1> QED
  BY <1>5, <1>7, <1>8, <1>9

\* ... so that family_screen, which asks for a rank within its share, finds
\* what the procedure of Benjamini and Hochberg rejects.
LEMMA ScreenedAreRejected ==
    ASSUME NEW n \in Nat, NEW fam, DOMAIN fam = 0 .. n,
           \A i \in 0 .. n : fam[i].p \in 1 .. PUnit
    PROVE  Screened(fam) = Rejected([i \in Improvements(fam) |-> fam[i].p], n + 1)
<1> DEFINE I == Improvements(fam)
           p == [i \in I |-> fam[i].p]
<1>1. I \in SUBSET (0 .. n)
  BY DEF Improvements
<1>2. IsFiniteSet(0 .. n) /\ Cardinality(0 .. n) = n + 1
  BY FS_Interval
<1>3. IsFiniteSet(I) /\ Cardinality(I) <= n + 1
  BY <1>1, <1>2, FS_Subset
<1>4. PUnit \in Nat
  BY GatesAssumption
<1>5. p \in [I -> 0 .. PUnit] /\ DOMAIN p = I /\ \A i \in I : p[i] = fam[i].p
  BY <1>1, <1>4
<1>6. \A j \in I : AtMost(p, j) = {i \in I : fam[i].p <= fam[j].p}
  BY <1>5 DEF AtMost
<1>7. \A j \in I : Rank(fam, j) = Cardinality(AtMost(p, j))
  BY <1>6 DEF Rank
<1>8. Screened(fam) = {i \in I : \E j \in I : WithinShare(fam, j) /\ fam[i].p <= fam[j].p}
  BY DEF Screened
<1>9. \A j \in I : WithinShare(fam, j) <=> p[j] * (n + 1) <= Q * Cardinality(AtMost(p, j))
  BY <1>2, <1>5, <1>7 DEF WithinShare
<1> HIDE DEF I, p
<1>10. Rejected(p, n + 1) = ByRanks(p, n + 1)
  <2>1. n + 1 \in Nat
    OBVIOUS
  <2> QED
    BY <1>3, <1>4, <1>5, <2>1, ByRank
<1>11. Screened(fam) = Rejected(p, n + 1)
  BY <1>5, <1>8, <1>9, <1>10 DEF ByRanks
<1> QED
  BY <1>11 DEF I, p

-----------------------------------------------------------------------------
(* From the result to the decision *)

\* Where a result comes from.
Backed ==
    \E c \in Comparisons(MaxN, MaxSpare), p \in 1 .. PUnit, v \in BOOLEAN :
        /\ result = ResultOf(c, p, v)
        /\ SchemaAccepts(result)
        /\ c.quality = "good" \/ ~c.paired => comparable

\* What a decision rests on, stage by stage.
Deciding ==
    /\ Sampling
    /\ stage \in {"screen", "decide"} => Backed
    /\ stage \notin {"decide", "decided"} => ~screened
    /\ ScreenIsStepUp
    /\ decision = "accepted" => stage = "decided"
    /\ AcceptedIsSound

LEMMA DecidingInit == Init => Deciding
<1> SUFFICES ASSUME Init PROVE Deciding
  OBVIOUS
<1>1. stage = "build" /\ decision # "accepted" /\ ~screened
  BY DecisionsAssumption DEF Init
<1> QED
  BY <1>1, SamplingInit DEF Deciding, ScreenIsStepUp, AcceptedIsSound

LEMMA CompareDeciding == Deciding /\ Compare => Deciding'
<1> SUFFICES ASSUME Deciding, Compare PROVE Deciding'
  OBVIOUS
<1>1. /\ stage = "compare" /\ stage' \in {"screen", "refused"}
      /\ stage' = "screen" => SchemaAccepts(result')
      /\ UNCHANGED <<comparable, screened, decision>>
  BY DEF Compare
<1>2. PICK c \in Comparisons(MaxN, MaxSpare), p \in 1 .. PUnit, v \in BOOLEAN :
        /\ c.paired = sample.paired /\ c.quality = sample.quality
        /\ result' = ResultOf(c, p, v)
  BY Zenon DEF Compare
<1>3. c.quality = "good" \/ ~c.paired => comparable
  BY <1>1, <1>2 DEF Deciding, Sampling
<1>4. stage' = "screen" => Backed'
  BY <1>1, <1>2, <1>3, Zenon DEF Backed
<1>5. Sampling'
  BY SamplingStep DEF Deciding, Next
<1> QED
  BY <1>1, <1>4, <1>5 DEF Deciding, ScreenIsStepUp, AcceptedIsSound

LEMMA ScreenDeciding == Deciding /\ Screen => Deciding'
<1> SUFFICES ASSUME Deciding, Screen PROVE Deciding'
  OBVIOUS
<1>1. /\ stage = "screen" /\ stage' = "decide"
      /\ UNCHANGED <<comparable, result, decision>>
  BY DEF Screen
<1>2. Backed /\ Backed'
  BY <1>1 DEF Deciding, Backed
<1>3. PICK n \in 0 .. MaxOthers :
        \E others \in [1 .. n -> Other] :
            /\ family' = others
            /\ screened' = (0 \in Screened([i \in 0 .. n |-> IF i = 0 THEN result ELSE others[i]]))
  BY Zenon DEF Screen
<1>4. n \in Nat /\ \A i \in 0 .. n : i = 0 \/ i \in 1 .. n
  <2>1. MaxOthers \in Nat
    BY DecisionsAssumption
  <2>2. n \in Nat
    BY <2>1
  <2> QED
    BY <2>2
<1>5. PICK others \in [1 .. n -> Other] :
        /\ family' = others
        /\ screened' = (0 \in Screened([i \in 0 .. n |-> IF i = 0 THEN result ELSE others[i]]))
  BY <1>3, Zenon
<1> DEFINE fam == [i \in 0 .. n |-> IF i = 0 THEN result ELSE others[i]]
<1>6. DOMAIN fam = 0 .. n
  BY Zenon
<1>7. \A i \in 0 .. n : fam[i].p \in 1 .. PUnit
  <2>1. result.p \in 1 .. PUnit
    <3>1. PICK c \in Comparisons(MaxN, MaxSpare), p \in 1 .. PUnit, v \in BOOLEAN :
            result = ResultOf(c, p, v)
      BY <1>2, Zenon DEF Backed
    <3>2. result.p = p
      BY <3>1, Zenon DEF ResultOf
    <3> QED
      BY <3>2
  <2>2. ASSUME NEW i \in 1 .. n PROVE others[i].p \in 1 .. PUnit
    <3>1. others[i] \in Other
      BY <1>5, Zenon
    <3> QED
      BY <3>1, Zenon DEF Other
  <2>3. \A i \in 0 .. n : fam[i] = IF i = 0 THEN result ELSE others[i]
    BY Zenon
  <2> HIDE DEF fam
  <2> QED
    BY <1>4, <2>1, <2>2, <2>3, Zenon
<1>8. Len(family') = n
  <2>1. others \in Seq(Other) /\ DOMAIN others = 1 .. n
    BY <1>4
  <2> QED
    BY <1>5, <1>4, <2>1
<1>9. Compared' = fam
  BY <1>1, <1>5, <1>8 DEF Compared
<1> HIDE DEF fam
<1>10. PValues' = [i \in Improvements(fam) |-> fam[i].p]
  BY <1>9 DEF PValues
<1>11. Screened(fam) = Rejected(PValues', Len(family') + 1)
  BY <1>4, <1>6, <1>7, <1>8, <1>10, ScreenedAreRejected
<1>12. screened' <=> 0 \in Rejected(PValues', Len(family') + 1)
  BY <1>5, <1>11 DEF fam
<1>13. Sampling'
  BY SamplingStep DEF Deciding, Next
<1> QED
  BY <1>1, <1>2, <1>12, <1>13 DEF Deciding, ScreenIsStepUp, AcceptedIsSound

LEMMA DecideDeciding == Deciding /\ Decide => Deciding'
<1> SUFFICES ASSUME Deciding, Decide PROVE Deciding'
  OBVIOUS
<1>1. /\ stage \in {"screen", "decide"} /\ stage' = "decided"
      /\ UNCHANGED <<comparable, result, family, screened>>
  BY DEF Decide
<1>2. PICK confirmed \in BOOLEAN : decision' = CanAccept(result, screened, confirmed)
  BY DEF Decide
<1>3. PValues' = PValues
  BY <1>1 DEF PValues, Compared
<1>4. ASSUME decision' = "accepted"
      PROVE  AcceptedIsSound'
  <2>1. /\ result.paired => result.quality = "good"
        /\ result.verdict = "significant improvement"
        /\ DecisionGrade(result) /\ screened /\ result.provenance
        /\ result.relLow # {} /\ ~\E l \in result.relLow : l <= Threshold
    BY <1>2, <1>4 DEF CanAccept
  <2>2. stage = "decide"
    BY <1>1, <2>1 DEF Deciding
  <2>3. 0 \in Rejected(PValues, Len(family) + 1)
    BY <2>1, <2>2 DEF Deciding, ScreenIsStepUp
  <2>4. PICK c \in Comparisons(MaxN, MaxSpare), p \in 1 .. PUnit, v \in BOOLEAN :
            /\ result = ResultOf(c, p, v)
            /\ SchemaAccepts(result)
            /\ c.quality = "good" \/ ~c.paired => comparable
    BY <1>1 DEF Deciding, Backed
  <2>5. /\ result.paired = c.paired /\ result.quality = c.quality /\ result.n = c.n
        /\ result.ess = c.ess /\ result.autocorrelated = c.autocorrelated
        /\ result.low = c.ci.low /\ result.relLow = Relative(c, c.ci.low)
        /\ result.relEffect = Relative(c, c.point) /\ result.relHigh = Relative(c, c.ci.high)
        /\ result.verdict = Verdict(c) /\ result.exploratory = Exploratory(c)
    BY <2>4 DEF ResultOf
  <2>6. /\ c.ci.low \in Int /\ c.ci.high \in Int /\ c.point \in Int
        /\ c.n \in Nat /\ c.ess \in Nat
        /\ c.paired \in BOOLEAN /\ c.autocorrelated \in BOOLEAN
    <3>1. MaxN \in Nat /\ Effects \subseteq Int
      BY DecisionsAssumption, GatesAssumption
    <3>2. /\ c.n \in 1 .. MaxN /\ c.ess \in 0 .. MaxN /\ c.ci \in Intervals /\ c.point \in Effects
          /\ c.paired \in BOOLEAN /\ c.autocorrelated \in BOOLEAN
      BY Zenon DEF Comparisons
    <3>3. c.ci.low \in Effects /\ c.ci.high \in Effects
      BY <3>2 DEF Intervals
    <3>4. c.ci.low \in Int /\ c.ci.high \in Int /\ c.point \in Int
      BY <3>1, <3>2, <3>3, Zenon
    <3>5. c.n \in Nat /\ c.ess \in Nat
      BY <3>1, <3>2
    <3> QED
      BY <3>2, <3>4, <3>5
  <2>7. ~Insufficient(c)
    BY <2>1, <2>5 DEF Verdict
  <2>8. /\ ~(c.n < MinValid) /\ ~(c.ess < MinEssPower)
        /\ c.autocorrelated => c.paired /\ ~(c.n < MinAutocorrelated)
    BY <2>7 DEF Insufficient, HardInconclusive, LowPower
  <2>9. /\ c.n >= MinValid /\ c.ess >= MinEssPower
        /\ c.autocorrelated => c.paired /\ c.n >= MinAutocorrelated
    BY <2>6, <2>8, GatesAssumption
  <2>10. ~Exploratory(c)
    BY <2>1, <2>5 DEF Exploratory
  <2>11. /\ \A x \in result.relLow \cup result.relEffect \cup result.relHigh : x > Threshold
         /\ result.relEffect # {} /\ result.low > 0
    <3>1. /\ result.relLow = {c.ci.low} /\ result.relEffect = {c.point}
          /\ result.relHigh = {c.ci.high}
      BY <2>1, <2>5 DEF Relative
    <3>2. ~(c.ci.low <= Threshold) /\ c.ci.low <= c.point /\ c.point <= c.ci.high
      <4>1. EffectInInterval(result)
        BY <2>4 DEF SchemaAccepts
      <4>2. c.ci.low \in result.relLow /\ c.point \in result.relEffect
            /\ c.ci.high \in result.relHigh
        BY <3>1
      <4> QED
        BY <2>1, <4>1, <4>2, Zenon DEF EffectInInterval
    <3>3. c.ci.low > Threshold /\ c.point > Threshold /\ c.ci.high > Threshold /\ c.ci.low > 0
      BY <2>6, <3>2, GatesAssumption
    <3> QED
      BY <2>5, <3>1, <3>3
  <2>12. comparable
    BY <2>1, <2>4, <2>5
  <2> QED
    BY <1>1, <1>3, <2>1, <2>3, <2>5, <2>9, <2>10, <2>11, <2>12 DEF AcceptedIsSound
<1>5. decision' # "accepted" => AcceptedIsSound'
  BY DEF AcceptedIsSound
<1>6. Sampling'
  BY SamplingStep DEF Deciding, Next
<1> QED
  BY <1>1, <1>4, <1>5, <1>6 DEF Deciding, ScreenIsStepUp

LEMMA DecidingStep == Deciding /\ [Next]_vars => Deciding'
<1> SUFFICES ASSUME Deciding, [Next]_vars PROVE Deciding'
  OBVIOUS
<1>1. CASE BuildFails \/ Builds \/ BenchmarkFails \/ MeasurePair \/ PairUp
  <2>1. stage \in {"build", "measure"} /\ stage' \in {"failed", "measure", "compare"}
        /\ UNCHANGED <<screened, decision>>
    BY <1>1 DEF BuildFails, Builds, BenchmarkFails, Fails, MeasurePair, PairUp
  <2>2. Sampling'
    BY SamplingStep DEF Deciding
  <2> QED
    BY <2>1, <2>2 DEF Deciding, ScreenIsStepUp, AcceptedIsSound
<1>2. CASE Compare
  BY <1>2, CompareDeciding
<1>3. CASE Screen
  BY <1>3, ScreenDeciding
<1>4. CASE Decide
  BY <1>4, DecideDeciding
<1>5. CASE UNCHANGED vars
  <2>1. Sampling'
    BY SamplingStep DEF Deciding
  <2> QED
    BY <1>5, <2>1 DEF vars, Deciding, Backed, ScreenIsStepUp, AcceptedIsSound, PValues, Compared
<1> QED
  BY <1>1, <1>2, <1>3, <1>4, <1>5 DEF Next

\* The screen of a family is the procedure of Benjamini and Hochberg, for
\* families of every size and every rate (stats_core.py:475).
THEOREM ScreenStaysStepUp == Spec => []ScreenIsStepUp
<1>1. Deciding => ScreenIsStepUp
  BY DEF Deciding
<1> QED
  BY <1>1, DecidingInit, DecidingStep, PTL DEF Spec

\* What is accepted rests on comparable runs, enough of them, and the screen,
\* for every choice of the thresholds (stats_core.py:509).
THEOREM AcceptedStaysSound == Spec => []AcceptedIsSound
<1>1. Deciding => AcceptedIsSound
  BY DEF Deciding
<1> QED
  BY <1>1, DecidingInit, DecidingStep, PTL DEF Spec

-----------------------------------------------------------------------------
(* The classification of a failure *)

Routes == {"option", "environment", "unknown"}
OptionCategories == {"invalid option", "option conflict"}

\* A category has one rule for the lines of a log, and the categories that blame
\* options are two.
LEMMA LogRulesFacts ==
    /\ DOMAIN LogRules = 1 .. 13
    /\ \A r \in 1 .. 13 :
           /\ LogRules[r].route \in Routes
           /\ LogRules[r].route = "option" => LogRules[r].category \in OptionCategories
    /\ \A r, t \in 1 .. 13 : LogRules[r].category = LogRules[t].category => r = t
<1>1. DOMAIN LogRules = 1 .. 13
  BY DEF LogRules
<1>2. \A r \in 1 .. 13 : r = 1 \/ r = 2 \/ r = 3 \/ r = 4 \/ r = 5 \/ r = 6 \/ r = 7
                       \/ r = 8 \/ r = 9 \/ r = 10 \/ r = 11 \/ r = 12 \/ r = 13
  OBVIOUS
<1>3. /\ LogRules[1].category = "artifact invalid" /\ LogRules[1].route = "unknown"
      /\ LogRules[2].category = "functional correctness" /\ LogRules[2].route = "unknown"
      /\ LogRules[3].category = "environment unstable" /\ LogRules[3].route = "environment"
      /\ LogRules[4].category = "score parse" /\ LogRules[4].route = "unknown"
      /\ LogRules[5].category = "too noisy" /\ LogRules[5].route = "environment"
      /\ LogRules[6].category = "compiler crash" /\ LogRules[6].route = "unknown"
      /\ LogRules[7].category = "option conflict" /\ LogRules[7].route = "option"
      /\ LogRules[8].category = "dependency missing" /\ LogRules[8].route = "environment"
      /\ LogRules[9].category = "disk full" /\ LogRules[9].route = "environment"
      /\ LogRules[10].category = "invalid option" /\ LogRules[10].route = "option"
      /\ LogRules[11].category = "network failure" /\ LogRules[11].route = "environment"
      /\ LogRules[12].category = "oom killed" /\ LogRules[12].route = "environment"
      /\ LogRules[13].category = "permission denied" /\ LogRules[13].route = "environment"
  BY DEF LogRules, Rule
<1>4. \A r \in 1 .. 13 :
         /\ LogRules[r].route \in Routes
         /\ LogRules[r].route = "option" => LogRules[r].category \in OptionCategories
  BY <1>2, <1>3 DEF Routes, OptionCategories
<1>5. \A r, t \in 1 .. 13 : LogRules[r].category = LogRules[t].category => r = t
  <2> SUFFICES ASSUME NEW r \in 1 .. 13, NEW t \in 1 .. 13,
                      LogRules[r].category = LogRules[t].category
               PROVE  r = t
    OBVIOUS
  <2>1. /\ r = 1 \/ r = 2 \/ r = 3 \/ r = 4 \/ r = 5 \/ r = 6 \/ r = 7
             \/ r = 8 \/ r = 9 \/ r = 10 \/ r = 11 \/ r = 12 \/ r = 13
        /\ t = 1 \/ t = 2 \/ t = 3 \/ t = 4 \/ t = 5 \/ t = 6 \/ t = 7
             \/ t = 8 \/ t = 9 \/ t = 10 \/ t = 11 \/ t = 12 \/ t = 13
    BY <1>2
  <2>2. CASE r = 1
    BY <1>3, <2>1, <2>2
  <2>3. CASE r = 2
    BY <1>3, <2>1, <2>3
  <2>4. CASE r = 3
    BY <1>3, <2>1, <2>4
  <2>5. CASE r = 4
    BY <1>3, <2>1, <2>5
  <2>6. CASE r = 5
    BY <1>3, <2>1, <2>6
  <2>7. CASE r = 6
    BY <1>3, <2>1, <2>7
  <2>8. CASE r = 7
    BY <1>3, <2>1, <2>8
  <2>9. CASE r = 8
    BY <1>3, <2>1, <2>9
  <2>10. CASE r = 9
    BY <1>3, <2>1, <2>10
  <2>11. CASE r = 10
    BY <1>3, <2>1, <2>11
  <2>12. CASE r = 11
    BY <1>3, <2>1, <2>12
  <2>13. CASE r = 12
    BY <1>3, <2>1, <2>13
  <2>14. CASE r = 13
    BY <1>3, <2>1, <2>14
  <2> QED
    BY <2>1, <2>2, <2>3, <2>4, <2>5, <2>6, <2>7,
       <2>8, <2>9, <2>10, <2>11, <2>12, <2>13, <2>14
<1> QED
  BY <1>1, <1>4, <1>5

LEMMA StatusRulesFacts ==
    ASSUME NEW domain, NEW status \in DOMAIN StatusRules(domain)
    PROVE  /\ StatusRules(domain)[status].route \in Routes
           /\ StatusRules(domain)[status].route = "option" =>
                  StatusRules(domain)[status].category \in OptionCategories
<1>2. ASSUME NEW t \in DOMAIN CompileStatus
      PROVE  /\ CompileStatus[t].route \in Routes
             /\ CompileStatus[t].route = "option" => CompileStatus[t].category \in OptionCategories
  <2>1. CASE t = "invalid option"
    <3>1. CompileStatus[t].route = "option" /\ CompileStatus[t].category = "invalid option"
      BY <2>1 DEF CompileStatus, Rule
    <3> QED
      BY <3>1 DEF Routes, OptionCategories
  <2>2. CASE t = "option conflict"
    <3>1. CompileStatus[t].route = "option" /\ CompileStatus[t].category = "option conflict"
      BY <2>2 DEF CompileStatus, Rule
    <3> QED
      BY <3>1 DEF Routes, OptionCategories
  <2>3. CASE t \in {"timeout", "crash signal", "oom-like exit", "artifact missing",
                    "infra failure"}
    <3>1. CompileStatus[t].route \in {"environment", "unknown"}
      BY <2>3 DEF CompileStatus, Rule
    <3> QED
      BY <3>1 DEF Routes
  <2> QED
    BY <2>1, <2>2, <2>3 DEF CompileStatus
<1>3. ASSUME NEW t \in DOMAIN BenchmarkStatus
      PROVE  /\ BenchmarkStatus[t].route \in Routes
             /\ BenchmarkStatus[t].route = "option" => BenchmarkStatus[t].category \in OptionCategories
  <2>1. BenchmarkStatus[t].route \in {"environment", "unknown"}
    BY DEF BenchmarkStatus, Rule
  <2> QED
    BY <2>1 DEF Routes
<1> QED
  BY <1>2, <1>3 DEF StatusRules

LEMMA FiniteImage ==
    ASSUME NEW S, IsFiniteSet(S), NEW f, DOMAIN f = S, f = [x \in S |-> f[x]]
    PROVE  IsFiniteSet({f[x] : x \in S})
<1> DEFINE T == {f[x] : x \in S}
<1>1. f \in Surjection(S, T)
  BY DEF Surjection
<1> QED
  BY <1>1, FS_Surjection

\* What a failure is classified from.
ProperInput(i) ==
    /\ i.domain \in {"compile", "benchmark"}
    /\ i.domain = "compile" => i.combo # {}
    /\ i.combo \subseteq Options
    /\ IsFiniteSet(i.lines)
    /\ \A l \in i.lines : l.rule \in RulesOf(i.domain) /\ l.named \subseteq Options

EvidenceFor(i) ==
    StatusEvidence(i.domain, i.status, i.combo, SaysInvalid)
        \cup LogEvidence(i.domain, i.lines, i.combo)

\* The categories both the status and a line speak for.
Agreed(i) ==
    {LogRules[l.rule].category : l \in i.lines} \cap
        (IF i.status \in DOMAIN StatusRules(i.domain)
         THEN {StatusRules(i.domain)[i.status].category} ELSE {})

\* What one piece of evidence is.
Sound(e, i) ==
    /\ e.route \in Routes
    /\ e.route = "option" => e.category \in OptionCategories
    /\ e.options \subseteq Options
    /\ i.domain = "compile" => e.options \subseteq i.combo
    /\ e.rule \in 0 .. 13
    /\ e.rule = 0 => /\ i.status \in DOMAIN StatusRules(i.domain)
                     /\ e.category = StatusRules(i.domain)[i.status].category
    /\ e.rule # 0 => /\ e.category = LogRules[e.rule].category
                     /\ \E l \in i.lines : l.rule = e.rule

LEMMA EvidenceFields ==
    \A c, r, k, n, o :
        LET e == Evidence(c, r, k, n, o) IN
        e.category = c /\ e.route = r /\ e.rule = k /\ e.line = n /\ e.options = o
BY DEF Evidence

LEMMA EvidenceFacts ==
    ASSUME NEW i, ProperInput(i)
    PROVE  /\ IsFiniteSet(EvidenceFor(i))
           /\ \A e \in EvidenceFor(i) : Sound(e, i)
           /\ i.status \in DOMAIN StatusRules(i.domain) =>
                  \E e \in EvidenceFor(i) :
                      e.rule = 0 /\ e.category = StatusRules(i.domain)[i.status].category
           /\ \A l \in i.lines :
                  \E e \in EvidenceFor(i) :
                      e.rule = l.rule /\ e.rule # 0 /\ e.category = LogRules[l.rule].category
<1> DEFINE blamed(l) == IF LogRules[l.rule].route = "option" THEN Filtered(l.named, i.combo) ELSE {}
           said(l) == Evidence(LogRules[l.rule].category, LogRules[l.rule].route, l.rule, l.at,
                               blamed(l))
           rules == StatusRules(i.domain)
           accused == IF i.status = "invalid option" THEN i.combo \cap SaysInvalid ELSE {}
           told == Evidence(rules[i.status].category, rules[i.status].route, 0, 0, accused)
<1>1. \A l \in i.lines : l.rule \in 1 .. 13 /\ l.rule \in RulesOf(i.domain)
                         /\ l.named \subseteq Options
  BY LogRulesFacts DEF ProperInput, RulesOf
<1>2. LogEvidence(i.domain, i.lines, i.combo) = {said(l) : l \in i.lines}
  BY <1>1 DEF LogEvidence
<1>3. StatusEvidence(i.domain, i.status, i.combo, SaysInvalid)
         = IF i.status \in DOMAIN rules THEN {told} ELSE {}
  BY DEF StatusEvidence
<1>4. \A l \in i.lines : blamed(l) \subseteq Options /\ (i.combo # {} => blamed(l) \subseteq i.combo)
  BY <1>1 DEF Filtered
<1>5. accused \subseteq Options /\ accused \subseteq i.combo
  BY DEF ProperInput
<1>6. \A l \in i.lines :
         /\ said(l).category = LogRules[l.rule].category /\ said(l).route = LogRules[l.rule].route
         /\ said(l).rule = l.rule /\ said(l).options = blamed(l)
  BY EvidenceFields
<1>7. /\ told.category = rules[i.status].category /\ told.route = rules[i.status].route
      /\ told.rule = 0 /\ told.options = accused
  <2>1. PICK c, r, o : c = rules[i.status].category /\ r = rules[i.status].route /\ o = accused
    OBVIOUS
  <2>2. told = Evidence(c, r, 0, 0, o)
    BY <2>1, Zenon
  <2> HIDE DEF told, accused
  <2> QED
    BY <2>1, <2>2, EvidenceFields
<1>8. i.domain = "compile" => i.combo # {}
  BY DEF ProperInput
<1>9. IsFiniteSet(EvidenceFor(i))
  <2>1. PICK f : f = [l \in i.lines |-> said(l)]
    OBVIOUS
  <2>2. IsFiniteSet({f[l] : l \in i.lines})
    BY <2>1, FiniteImage DEF ProperInput
  <2>3. {f[l] : l \in i.lines} = {said(l) : l \in i.lines}
    BY <2>1
  <2>4. IsFiniteSet({told}) /\ IsFiniteSet({})
    BY FS_Singleton, FS_EmptySet
  <2> HIDE DEF told, said
  <2> QED
    BY <1>2, <1>3, <2>2, <2>3, <2>4, FS_Union DEF EvidenceFor
<1> HIDE DEF blamed, accused, said, told
<1>10. ASSUME NEW l \in i.lines PROVE Sound(said(l), i)
  <2>1. l.rule \in 1 .. 13
    BY <1>1
  <2> QED
    BY <1>4, <1>6, <1>8, <2>1, LogRulesFacts DEF Sound
<1>11. ASSUME i.status \in DOMAIN rules PROVE Sound(told, i)
  <2>1. /\ rules[i.status].route \in Routes
        /\ rules[i.status].route = "option" => rules[i.status].category \in OptionCategories
    BY <1>11, StatusRulesFacts
  <2> QED
    BY <1>5, <1>7, <1>11, <2>1 DEF Sound
<1>12. \A e \in EvidenceFor(i) : Sound(e, i)
  BY <1>2, <1>3, <1>10, <1>11 DEF EvidenceFor
<1>13. i.status \in DOMAIN rules =>
          \E e \in EvidenceFor(i) : e.rule = 0 /\ e.category = rules[i.status].category
  BY <1>3, <1>7 DEF EvidenceFor
<1>14. \A l \in i.lines :
          \E e \in EvidenceFor(i) :
              e.rule = l.rule /\ e.rule # 0 /\ e.category = LogRules[l.rule].category
  <2> SUFFICES ASSUME NEW l \in i.lines
               PROVE  \E e \in EvidenceFor(i) :
                          e.rule = l.rule /\ e.rule # 0 /\ e.category = LogRules[l.rule].category
    OBVIOUS
  <2>1. said(l) \in EvidenceFor(i)
    BY <1>2 DEF EvidenceFor
  <2>2. l.rule \in 1 .. 13
    BY <1>1
  <2> QED
    BY <1>6, <2>1, <2>2
<1> QED
  BY <1>9, <1>12, <1>13, <1>14

\* The evidence of one category.
Group(i, c) == {e \in EvidenceFor(i) : e.category = c}

\* A category that the status and a line speak for is certain, and no other.
LEMMA GroupFacts ==
    ASSUME NEW i, ProperInput(i), NEW c \in {e.category : e \in EvidenceFor(i)}
    PROVE  /\ IsFiniteSet(Group(i, c)) /\ Group(i, c) # {}
           /\ Cardinality(Group(i, c)) \in 0 .. Cardinality(EvidenceFor(i))
           /\ SourcesAgree(Group(i, c)) <=> c \in Agreed(i)
<1> DEFINE g == Group(i, c)
           sources == {e.rule : e \in g}
<1>1. IsFiniteSet(g) /\ g # {} /\ Cardinality(g) \in 0 .. Cardinality(EvidenceFor(i))
  <2>1. IsFiniteSet(EvidenceFor(i)) /\ g \in SUBSET EvidenceFor(i) /\ g # {}
    BY EvidenceFacts DEF Group
  <2>2. IsFiniteSet(g) /\ Cardinality(g) <= Cardinality(EvidenceFor(i))
    BY <2>1, FS_Subset
  <2>3. Cardinality(g) \in Nat /\ Cardinality(EvidenceFor(i)) \in Nat
    BY <2>1, <2>2, FS_CardinalityType
  <2> QED
    BY <2>1, <2>2, <2>3
<1>2. \A e \in g : Sound(e, i) /\ e.category = c
  BY EvidenceFacts DEF Group
<1>3. \A e, f \in g : e.rule # 0 /\ f.rule # 0 => e.rule = f.rule
  BY <1>2, LogRulesFacts DEF Sound
<1>4. (\E e, f \in g : e.rule = 0 /\ f.rule # 0) <=> c \in Agreed(i)
  <2>1. ASSUME NEW e \in g, NEW f \in g, e.rule = 0, f.rule # 0
        PROVE  c \in Agreed(i)
    <3>1. /\ i.status \in DOMAIN StatusRules(i.domain)
          /\ c = StatusRules(i.domain)[i.status].category
      BY <1>2, <2>1 DEF Sound
    <3>2. \E l \in i.lines : c = LogRules[l.rule].category
      BY <1>2, <2>1 DEF Sound
    <3> QED
      BY <3>1, <3>2 DEF Agreed
  <2>2. ASSUME c \in Agreed(i)
        PROVE  \E e, f \in g : e.rule = 0 /\ f.rule # 0
    <3>1. /\ i.status \in DOMAIN StatusRules(i.domain)
          /\ c = StatusRules(i.domain)[i.status].category
      BY <2>2 DEF Agreed
    <3>2. PICK l \in i.lines : c = LogRules[l.rule].category
      BY <2>2 DEF Agreed
    <3>3. PICK e \in EvidenceFor(i) : e.rule = 0 /\ e.category = c
      BY <3>1, EvidenceFacts
    <3>4. PICK f \in EvidenceFor(i) : f.rule # 0 /\ f.category = c
      BY <3>2, EvidenceFacts
    <3> QED
      BY <3>3, <3>4 DEF Group
  <2> QED
    BY <2>1, <2>2
<1> HIDE DEF g
<1>5. ASSUME NEW e \in g, NEW f \in g, e.rule = 0, f.rule # 0
      PROVE  Cardinality(sources) >= 2
  <2>1. sources = {f.rule} \cup {e.rule}
    BY <1>3, <1>5
  <2>2. IsFiniteSet({f.rule}) /\ Cardinality({f.rule}) = 1
    BY FS_Singleton
  <2>3. e.rule \notin {f.rule}
    BY <1>5
  <2>4. Cardinality({f.rule} \cup {e.rule}) = 2
    <3>1. Cardinality({f.rule} \cup {e.rule}) = Cardinality({f.rule}) + 1
      BY <2>2, <2>3, FS_AddElement, Zenon
    <3> QED
      BY <2>2, <3>1
  <2> QED
    BY <2>1, <2>4
<1>6. ASSUME ~ \E e, f \in g : e.rule = 0 /\ f.rule # 0
      PROVE  ~(Cardinality(sources) >= 2)
  <2>1. PICK e \in g : TRUE
    BY <1>1
  <2>2. \A f \in g : f.rule = e.rule
    BY <1>3, <1>6
  <2>3. sources = {e.rule}
    BY <2>2
  <2>4. Cardinality(sources) = 1
    BY <2>3, FS_Singleton, Zenon
  <2> QED
    BY <2>4
<1>7. SourcesAgree(g) <=> c \in Agreed(i)
  BY <1>4, <1>5, <1>6 DEF SourcesAgree
<1> QED
  BY <1>1, <1>7 DEF g

\* What a candidate for the classification is.
LEMMA CandidateFacts ==
    ASSUME NEW i, ProperInput(i), NEW c \in {e.category : e \in EvidenceFor(i)}
    PROVE  LET x == Candidate(Group(i, c)) IN
           /\ x.category = c
           /\ x.route \in Routes /\ (x.route = "option" => c \in OptionCategories)
           /\ x.confidence = IF c \in Agreed(i) THEN "HIGH" ELSE "MEDIUM"
           /\ x.options \subseteq Options
           /\ i.domain = "compile" => x.options \subseteq i.combo
           /\ x.weight \in 0 .. Cardinality(EvidenceFor(i))
           /\ x.rule \in 1 .. 14
           /\ x.rule # 14 => LogRules[x.rule].category = c
           /\ x.rule = 14 => /\ i.status \in DOMAIN StatusRules(i.domain)
                             /\ c = StatusRules(i.domain)[i.status].category
<1> DEFINE g == Group(i, c)
           any == CHOOSE e \in g : TRUE
           logged == {e.rule : e \in g} \ {0}
           name == IF logged = {} THEN Cardinality(DOMAIN LogRules) + 1 ELSE CHOOSE r \in logged : TRUE
           x == Candidate(g)
<1>1. /\ g # {} /\ Cardinality(g) \in 0 .. Cardinality(EvidenceFor(i))
      /\ SourcesAgree(g) <=> c \in Agreed(i)
  BY GroupFacts
<1>2. \A e \in g : Sound(e, i) /\ e.category = c
  BY EvidenceFacts DEF Group
<1> HIDE DEF g
<1>3. any \in g
  BY <1>1
<1>4. /\ x.category = any.category /\ x.route = any.route
      /\ x.confidence = ConfidenceOf(g)
      /\ x.options = UNION {e.options : e \in g}
      /\ x.weight = Cardinality(g) /\ x.rule = name
  BY DEF Candidate
<1>5. Cardinality(DOMAIN LogRules) = 13
  <2>1. Cardinality(1 .. 13) = 13
    <3>1. PICK a \in Int, b \in Int : a = 1 /\ b = 13
      OBVIOUS
    <3>2. Cardinality(a .. b) = IF a > b THEN 0 ELSE b - a + 1
      BY FS_Interval, Zenon
    <3>3. ~(a > b) /\ b - a + 1 = 13
      BY <3>1
    <3> QED
      BY <3>1, <3>2, <3>3, Zenon
  <2>2. DOMAIN LogRules = 1 .. 13
    BY LogRulesFacts
  <2> QED
    BY <2>1, <2>2
<1>6. name \in 1 .. 14
      /\ (name # 14 => LogRules[name].category = c)
      /\ (name = 14 => /\ i.status \in DOMAIN StatusRules(i.domain)
                       /\ c = StatusRules(i.domain)[i.status].category)
  <2>1. CASE logged = {}
    <3>1. any.rule = 0
      BY <1>3, <2>1
    <3> QED
      BY <1>2, <1>3, <1>5, <2>1, <3>1 DEF Sound
  <2>2. CASE logged # {}
    <3>1. name \in logged
      BY <2>2
    <3>2. PICK e \in g : e.rule = name /\ e.rule # 0
      BY <3>1
    <3>3. /\ e.rule \in 0 .. 13 /\ e.rule # 0
          /\ LogRules[e.rule].category = c
      BY <1>2, <3>2 DEF Sound
    <3>4. e.rule \in 1 .. 14 /\ e.rule # 14
      BY <3>3
    <3> HIDE DEF name
    <3> QED
      BY <3>2, <3>3, <3>4
  <2> QED
    BY <2>1, <2>2
<1> HIDE DEF any, logged, name, x
<1>7. x.confidence = IF c \in Agreed(i) THEN "HIGH" ELSE "MEDIUM"
  BY <1>1, <1>4 DEF ConfidenceOf
<1>8. x.options \subseteq Options /\ (i.domain = "compile" => x.options \subseteq i.combo)
  BY <1>2, <1>4 DEF Sound
<1>9. x.category = c /\ x.route \in Routes /\ (x.route = "option" => c \in OptionCategories)
  BY <1>2, <1>3, <1>4 DEF Sound
<1> QED
  BY <1>1, <1>4, <1>6, <1>7, <1>8, <1>9 DEF x, g

\* Those of D whose keys have the highest component j.
Highest(T, D, key, j) ==
    /\ T \subseteq D /\ T # {}
    /\ \A c \in D : c \in T <=> \A d \in D : key[d][j] <= key[c][j]

LEMMA HighestFacts ==
    ASSUME NEW T, NEW D, NEW key, NEW j, Highest(T, D, key, j), NEW c \in T, NEW d \in D
    PROVE  key[d][j] <= key[c][j] /\ (key[d][j] = key[c][j] => d \in T)
<1>1. c \in D /\ \A e \in D : key[e][j] <= key[c][j]
  BY DEF Highest
<1>2. key[d][j] = key[c][j] => \A e \in D : key[e][j] <= key[d][j]
  BY <1>1
<1> QED
  BY <1>1, <1>2 DEF Highest

LEMMA HighestComponents ==
    ASSUME NEW C, C # {}, NEW key, NEW m \in Nat, NEW j, \A c \in C : key[c][j] \in 0 .. m
    PROVE  \E T : Highest(T, C, key, j)
<1> DEFINE T == {c \in C : \A d \in C : key[d][j] <= key[c][j]}
<1>1. {key[c][j] : c \in C} \in SUBSET (0 .. m) /\ {key[c][j] : c \in C} # {}
  OBVIOUS
<1>2. PICK n \in {key[c][j] : c \in C} : \A k \in {key[c][j] : c \in C} : k <= n
  BY <1>1, GreatestNatural
<1>3. T # {}
  BY <1>2
<1>4. Highest(T, C, key, j)
  BY <1>3 DEF Highest
<1> QED
  BY <1>4

\* Whoever compares keys, of any candidates, component by component, finds one
\* that is above all others.
LEMMA SomeKeyIsAbove ==
    ASSUME NEW C, C # {}, NEW key, NEW m \in Nat,
           \A c \in C : DOMAIN key[c] = 1 .. 5 /\ \A j \in 1 .. 5 : key[c][j] \in 0 .. m,
           \A c, d \in C : c # d => \E j \in 1 .. 5 : key[c][j] # key[d][j]
    PROVE  \E c \in C : \A d \in C \ {c} : Above(key[c], key[d])
<1>0. 1 \in 1 .. 5 /\ 2 \in 1 .. 5 /\ 3 \in 1 .. 5 /\ 4 \in 1 .. 5 /\ 5 \in 1 .. 5
  OBVIOUS
<1>a. \A D : \A j \in 1 .. 5 : D \subseteq C /\ D # {} => \E T : Highest(T, D, key, j)
  <2> SUFFICES ASSUME NEW D, NEW j \in 1 .. 5, D \subseteq C, D # {}
               PROVE  \E T : Highest(T, D, key, j)
    OBVIOUS
  <2>1. \A c \in D : key[c][j] \in 0 .. m
    OBVIOUS
  <2> QED
    BY <2>1, HighestComponents, Zenon
<1>1. PICK E1 : Highest(E1, C, key, 1)
  BY <1>0, <1>a, Zenon
<1>2. E1 \subseteq C /\ E1 \subseteq C /\ E1 # {}
  BY <1>1 DEF Highest
<1>3. PICK E2 : Highest(E2, E1, key, 2)
  BY <1>0, <1>a, <1>2, Zenon
<1>4. E2 \subseteq E1 /\ E2 \subseteq C /\ E2 # {}
  BY <1>3, <1>2 DEF Highest
<1>5. PICK E3 : Highest(E3, E2, key, 3)
  BY <1>0, <1>a, <1>4, Zenon
<1>6. E3 \subseteq E2 /\ E3 \subseteq C /\ E3 # {}
  BY <1>5, <1>4 DEF Highest
<1>7. PICK E4 : Highest(E4, E3, key, 4)
  BY <1>0, <1>a, <1>6, Zenon
<1>8. E4 \subseteq E3 /\ E4 \subseteq C /\ E4 # {}
  BY <1>7, <1>6 DEF Highest
<1>9. PICK E5 : Highest(E5, E4, key, 5)
  BY <1>0, <1>a, <1>8, Zenon
<1>10. E5 \subseteq E4 /\ E5 \subseteq C /\ E5 # {}
  BY <1>9, <1>8 DEF Highest
<1>11. PICK c \in E5 : TRUE
  BY <1>10
<1>12. c \in C /\ c \in E1 /\ c \in E2 /\ c \in E3 /\ c \in E4
  BY <1>2, <1>4, <1>6, <1>8, <1>10
<1>13. ASSUME NEW d \in C \ {c} PROVE Above(key[c], key[d])
  <2>1. \A j \in 1 .. 5 : key[c][j] \in Nat /\ key[d][j] \in Nat
    BY <1>12
  <2>2. /\ key[d][1] <= key[c][1] /\ (key[d][1] = key[c][1] => d \in E1)
        /\ d \in E1 => key[d][2] <= key[c][2] /\ (key[d][2] = key[c][2] => d \in E2)
        /\ d \in E2 => key[d][3] <= key[c][3] /\ (key[d][3] = key[c][3] => d \in E3)
        /\ d \in E3 => key[d][4] <= key[c][4] /\ (key[d][4] = key[c][4] => d \in E4)
        /\ d \in E4 => key[d][5] <= key[c][5] /\ (key[d][5] = key[c][5] => d \in E5)
    BY <1>1, <1>3, <1>5, <1>7, <1>9, <1>11, <1>12, HighestFacts
  <2>3. \E j \in 1 .. 5 : key[c][j] # key[d][j]
    BY <1>12
  <2>4. \E j \in 1 .. 5 : key[c][j] > key[d][j] /\ \A n \in 1 .. j - 1 : key[c][n] = key[d][n]
    BY <2>1, <2>2, <2>3
  <2> QED
    BY <1>12, <2>4 DEF Above
<1> QED
  BY <1>12, <1>13

\* What every candidate of the evidence is.
IsCandidate(x, i) ==
    /\ x = Candidate(Group(i, x.category))
    /\ x.route \in Routes /\ (x.route = "option" => x.category \in OptionCategories)
    /\ x.confidence = IF x.category \in Agreed(i) THEN "HIGH" ELSE "MEDIUM"
    /\ x.options \subseteq Options
    /\ i.domain = "compile" => x.options \subseteq i.combo
    /\ x.weight \in 0 .. Cardinality(EvidenceFor(i))
    /\ x.rule \in 1 .. 14
    /\ x.rule # 14 => LogRules[x.rule].category = x.category
    /\ x.rule = 14 => /\ i.status \in DOMAIN StatusRules(i.domain)
                      /\ x.category = StatusRules(i.domain)[i.status].category

LEMMA TheCandidates ==
    ASSUME NEW i, ProperInput(i)
    PROVE  /\ \A x \in Candidates(EvidenceFor(i)) : IsCandidate(x, i)
           /\ \A c \in {e.category : e \in EvidenceFor(i)} :
                  Candidate(Group(i, c)) \in Candidates(EvidenceFor(i))
<1> DEFINE categories == {e.category : e \in EvidenceFor(i)}
<1>1. Candidates(EvidenceFor(i)) = {Candidate(Group(i, c)) : c \in categories}
  BY DEF Candidates, Group
<1>2. ASSUME NEW c \in categories
      PROVE  IsCandidate(Candidate(Group(i, c)), i)
  <2>1. PICK x : x = Candidate(Group(i, c))
    OBVIOUS
  <2>2. /\ x.category = c
        /\ x.route \in Routes /\ (x.route = "option" => c \in OptionCategories)
        /\ x.confidence = IF c \in Agreed(i) THEN "HIGH" ELSE "MEDIUM"
        /\ x.options \subseteq Options
        /\ i.domain = "compile" => x.options \subseteq i.combo
        /\ x.weight \in 0 .. Cardinality(EvidenceFor(i))
        /\ x.rule \in 1 .. 14
        /\ x.rule # 14 => LogRules[x.rule].category = c
        /\ x.rule = 14 => /\ i.status \in DOMAIN StatusRules(i.domain)
                          /\ c = StatusRules(i.domain)[i.status].category
    BY <2>1, CandidateFacts
  <2>3. IsCandidate(x, i)
    BY <2>1, <2>2 DEF IsCandidate
  <2> QED
    BY <2>1, <2>3
<1> HIDE DEF categories
<1>3. \A c \in categories : Candidate(Group(i, c)) \in Candidates(EvidenceFor(i))
  BY <1>1
<1> QED
  BY <1>1, <1>2, <1>3 DEF categories

\* The key of a candidate; a name stands for one category.
LEMMA KeyFacts ==
    ASSUME NEW i, NEW x, IsCandidate(x, i), NEW m \in Nat, 14 <= m,
           Cardinality(EvidenceFor(i)) \in 0 .. m
    PROVE  /\ DOMAIN Key(x) = 1 .. 5
           /\ \A j \in 1 .. 5 : Key(x)[j] \in 0 .. m
           /\ Key(x)[1] = IF x.confidence = "HIGH" THEN 3 ELSE 2
           /\ Key(x)[5] = x.rule
<1>1. /\ Key(x) = <<Level[x.confidence], RouteRank[x.route], Specific(x), x.weight, x.rule>>
  BY DEF Key
<1>2. x.confidence \in {"HIGH", "MEDIUM"} /\ Level[x.confidence] = IF x.confidence = "HIGH" THEN 3 ELSE 2
  BY DEF IsCandidate, Level
<1>3. RouteRank[x.route] \in 1 .. 3
  BY DEF IsCandidate, Routes, RouteRank
<1>4. Specific(x) \in 0 .. 1
  BY DEF Specific
<1>5. x.weight \in 0 .. m /\ x.rule \in 0 .. m
  BY DEF IsCandidate
<1>6. PICK a, b, c, d, e : /\ a = Level[x.confidence] /\ b = RouteRank[x.route]
                           /\ c = Specific(x) /\ d = x.weight /\ e = x.rule
  OBVIOUS
<1>7. a \in 0 .. m /\ b \in 0 .. m /\ c \in 0 .. m /\ d \in 0 .. m /\ e \in 0 .. m
  BY <1>2, <1>3, <1>4, <1>5, <1>6
<1>8. Key(x) = <<a, b, c, d, e>>
  BY <1>1, <1>6
<1>9. DOMAIN <<a, b, c, d, e>> = 1 .. 5 /\ \A j \in 1 .. 5 : <<a, b, c, d, e>>[j] \in 0 .. m
  BY <1>7
<1> QED
  BY <1>2, <1>6, <1>8, <1>9

LEMMA KeysDiffer ==
    ASSUME NEW i, NEW x, IsCandidate(x, i), NEW y, IsCandidate(y, i), x.rule = y.rule
    PROVE  x = y
<1>1. x.category = y.category
  <2>1. CASE x.rule = 14
    BY <2>1 DEF IsCandidate
  <2>2. CASE x.rule # 14
    BY <2>2 DEF IsCandidate
  <2> QED
    BY <2>1, <2>2
<1> QED
  BY <1>1 DEF IsCandidate

\* The candidate selected is certain if one of them is.
LEMMA SelectedFacts ==
    ASSUME NEW i, ProperInput(i), EvidenceFor(i) # {}
    PROVE  LET best == Selected(Candidates(EvidenceFor(i))) IN
           /\ IsCandidate(best, i)
           /\ Agreed(i) # {} => best.category \in Agreed(i)
<1> DEFINE X == Candidates(EvidenceFor(i))
           sure == {c \in X : c.route = "environment" /\ c.confidence = "HIGH"}
           field == IF sure # {} THEN sure ELSE X
           best == CHOOSE c \in field : \A d \in field \ {c} : Above(Key(c), Key(d))
<1>1. PICK m \in Nat : 14 <= m /\ Cardinality(EvidenceFor(i)) \in 0 .. m
  <2>1. Cardinality(EvidenceFor(i)) \in Nat
    BY EvidenceFacts, FS_CardinalityType
  <2> QED
    BY <2>1
<1>2. /\ \A x \in X : IsCandidate(x, i)
      /\ \A c \in {e.category : e \in EvidenceFor(i)} : Candidate(Group(i, c)) \in X
  BY TheCandidates
<1>3. X # {}
  BY <1>2
<1> HIDE DEF X
<1>4. field # {} /\ field \subseteq X
  BY <1>3
<1> HIDE DEF field, sure
<1>5. best \in field /\ \A d \in field \ {best} : Above(Key(best), Key(d))
  <2> DEFINE key == [c \in field |-> Key(c)]
  <2>1. \A c \in field : key[c] = Key(c)
    OBVIOUS
  <2> HIDE DEF key
  <2>2. \A c \in field : DOMAIN key[c] = 1 .. 5 /\ \A j \in 1 .. 5 : key[c][j] \in 0 .. m
    BY <1>1, <1>2, <1>4, <2>1, KeyFacts
  <2>3. \A c, d \in field : c # d => \E j \in 1 .. 5 : key[c][j] # key[d][j]
    <3> SUFFICES ASSUME NEW c \in field, NEW d \in field, c # d
                 PROVE  key[c][5] # key[d][5]
      OBVIOUS
    <3>1. IsCandidate(c, i) /\ IsCandidate(d, i)
      BY <1>2, <1>4
    <3>2. Key(c)[5] = c.rule /\ Key(d)[5] = d.rule
      BY <1>1, <3>1, KeyFacts
    <3> QED
      BY <2>1, <3>1, <3>2, KeysDiffer
  <2>4. \E c \in field : \A d \in field \ {c} : Above(key[c], key[d])
    BY <1>1, <1>4, <2>2, <2>3, SomeKeyIsAbove, Zenon
  <2>5. \E c \in field : \A d \in field \ {c} : Above(Key(c), Key(d))
    BY <2>1, <2>4
  <2> QED
    BY <2>5
<1> HIDE DEF best
<1>6. IsCandidate(best, i)
  BY <1>2, <1>4, <1>5
<1>7. ASSUME NEW c \in Agreed(i) PROVE best.category \in Agreed(i)
  <2>1. c \in {e.category : e \in EvidenceFor(i)}
    BY EvidenceFacts DEF Agreed
  <2>2. PICK x \in X : x.confidence = "HIGH"
    <3>1. PICK x : x = Candidate(Group(i, c))
      OBVIOUS
    <3>2. x \in X
      BY <1>2, <2>1, <3>1
    <3>3. x.confidence = "HIGH"
      BY <2>1, <3>1, CandidateFacts
    <3> QED
      BY <3>2, <3>3
  <2>3. best.confidence = "HIGH"
    <3>1. CASE sure # {}
      BY <1>5, <3>1 DEF field, sure
    <3>2. CASE sure = {}
      <4>1. field = X
        BY <3>2 DEF field
      <4>2. SUFFICES ASSUME best # x, best.confidence # "HIGH" PROVE FALSE
        BY <2>2
      <4>3. Above(Key(best), Key(x))
        BY <1>5, <4>1, <4>2
      <4>4. Key(best)[1] = 2 /\ Key(x)[1] = 3 /\ DOMAIN Key(best) = 1 .. 5
        <5>1. IsCandidate(x, i)
          BY <1>2
        <5>2. /\ DOMAIN Key(best) = 1 .. 5
              /\ Key(best)[1] = IF best.confidence = "HIGH" THEN 3 ELSE 2
              /\ Key(x)[1] = IF x.confidence = "HIGH" THEN 3 ELSE 2
          BY <1>1, <1>6, <5>1, KeyFacts
        <5> QED
          BY <2>2, <4>2, <5>2
      <4>5. PICK j \in 1 .. 5 : /\ Key(best)[j] > Key(x)[j]
                               /\ \A n \in 1 .. j - 1 : Key(best)[n] = Key(x)[n]
        BY <4>3, <4>4 DEF Above
      <4>6. CASE j = 1
        BY <4>4, <4>5, <4>6
      <4>7. CASE j # 1
        <5>1. 1 \in 1 .. j - 1
          BY <4>7
        <5> QED
          BY <4>4, <4>5, <5>1
      <4> QED
        BY <4>6, <4>7
    <3> QED
      BY <3>1, <3>2
  <2> QED
    BY <1>6, <2>3 DEF IsCandidate
<1>8. best = Selected(X)
  BY DEF Selected, best, field, sure
<1> QED
  BY <1>6, <1>7, <1>8 DEF X

Classification(i) == Classify(i.domain, i.status, i.lines, i.combo, SaysInvalid)

\* What a classification says of its input.
LEMMA ClassificationFacts ==
    ASSUME NEW i, ProperInput(i)
    PROVE  LET k == Classification(i) IN
           /\ k.route \in Routes /\ k.confidence \in {"LOW", "MEDIUM", "HIGH"}
           /\ k.options \subseteq Options
           /\ k.write => k.confidence = "HIGH" /\ k.options # {}
           /\ k.confidence = "HIGH" <=> Agreed(i) # {}
           /\ Agreed(i) # {} => k.category \in Agreed(i)
           /\ k.write => Agreed(i) \subseteq OptionCategories /\ k.options \subseteq i.combo
<1> DEFINE k == Classification(i)
           best == Selected(Candidates(EvidenceFor(i)))
<1>1. CASE EvidenceFor(i) = {}
  <2>1. /\ k.route = "unknown" /\ k.confidence = "LOW" /\ k.options = {} /\ k.write = FALSE
    BY <1>1 DEF Classification, Classify, EvidenceFor
  <2>2. Agreed(i) = {}
    BY <1>1, EvidenceFacts DEF Agreed
  <2> QED
    BY <2>1, <2>2 DEF Routes
<1>2. CASE EvidenceFor(i) # {}
  <2>1. /\ k.route = best.route /\ k.confidence = best.confidence
        /\ k.options = best.options /\ k.category = best.category
        /\ k.write = Remembered(i.domain, best)
    BY <1>2 DEF Classification, Classify, EvidenceFor
  <2>2. IsCandidate(best, i) /\ (Agreed(i) # {} => best.category \in Agreed(i))
    BY <1>2, SelectedFacts
  <2> HIDE DEF best, k
  <2>3. /\ best.route \in Routes /\ (best.route = "option" => best.category \in OptionCategories)
        /\ best.confidence = IF best.category \in Agreed(i) THEN "HIGH" ELSE "MEDIUM"
        /\ best.options \subseteq Options
        /\ i.domain = "compile" => best.options \subseteq i.combo
    BY <2>2 DEF IsCandidate
  <2>4. k.write => /\ i.domain = "compile" /\ best.route = "option"
                   /\ best.confidence = "HIGH" /\ best.options # {}
    BY <2>1 DEF Remembered
  <2>5. k.confidence = "HIGH" <=> Agreed(i) # {}
    BY <2>1, <2>2, <2>3
  <2>6. ASSUME k.write PROVE Agreed(i) \subseteq OptionCategories
    <3>1. best.category \in Agreed(i) /\ best.category \in OptionCategories
      BY <2>3, <2>4, <2>6
    <3>2. \A c, d \in Agreed(i) : c = d
      BY DEF Agreed
    <3> QED
      BY <3>1, <3>2
  <2>7. k.route \in Routes /\ k.confidence \in {"LOW", "MEDIUM", "HIGH"} /\ k.options \subseteq Options
    BY <2>1, <2>3
  <2>8. k.write => k.confidence = "HIGH" /\ k.options # {} /\ k.options \subseteq i.combo
    BY <2>1, <2>3, <2>4
  <2>9. Agreed(i) # {} => k.category \in Agreed(i)
    BY <2>1, <2>2
  <2> QED
    BY <2>5, <2>6, <2>7, <2>8, <2>9 DEF k
<1> QED
  BY <1>1, <1>2

\* A failure on record is the classification of its input.
Classified == failure # None => ProperInput(input) /\ failure = Classification(input)

LEMMA FailsClassified ==
    ASSUME NEW domain \in {"compile", "benchmark"}, NEW combo \in SUBSET Options,
           domain = "compile" => combo # {}, Fails(domain, combo)
    PROVE  Classified'
<1>0. PICK status \in DOMAIN StatusRules(domain) \cup {"other"}, n \in 0 .. MaxLines :
     \E log \in [1 .. n -> {l \in Line : l.rule \in RulesOf(domain)}] :
     \E lines, i :
        /\ lines = {[rule |-> log[j].rule, named |-> log[j].named, at |-> j] : j \in 1 .. n}
        /\ i = [domain |-> domain, status |-> status, lines |-> lines, combo |-> combo]
        /\ input' = i
        /\ failure' = Classify(domain, status, lines, combo, SaysInvalid)
  BY DEF Fails
<1>1. PICK log \in [1 .. n -> {l \in Line : l.rule \in RulesOf(domain)}] :
     \E lines, i :
        /\ lines = {[rule |-> log[j].rule, named |-> log[j].named, at |-> j] : j \in 1 .. n}
        /\ i = [domain |-> domain, status |-> status, lines |-> lines, combo |-> combo]
        /\ input' = i
        /\ failure' = Classify(domain, status, lines, combo, SaysInvalid)
  BY <1>0
<1>2. PICK lines, i :
        /\ lines = {[rule |-> log[j].rule, named |-> log[j].named, at |-> j] : j \in 1 .. n}
        /\ i = [domain |-> domain, status |-> status, lines |-> lines, combo |-> combo]
        /\ input' = i
        /\ failure' = Classify(domain, status, lines, combo, SaysInvalid)
  BY <1>1
<1>3. /\ i.domain = domain /\ i.status = status /\ i.lines = lines /\ i.combo = combo
  BY <1>2
<1>4. IsFiniteSet(lines)
  <2> DEFINE f == [j \in 1 .. n |-> [rule |-> log[j].rule, named |-> log[j].named, at |-> j]]
  <2>1. IsFiniteSet(1 .. n)
    BY FS_Interval
  <2>2. DOMAIN f = 1 .. n /\ f = [j \in 1 .. n |-> f[j]]
    OBVIOUS
  <2>3. lines = {f[j] : j \in 1 .. n}
    BY <1>2
  <2> HIDE DEF f
  <2> QED
    BY <2>1, <2>2, <2>3, FiniteImage
<1>5. \A l \in lines : l.rule \in RulesOf(domain) /\ l.named \subseteq Options
  <2>1. \A j \in 1 .. n : /\ log[j].rule \in RulesOf(domain)
                          /\ log[j].named \subseteq Options
    <3>1. \A j \in 1 .. n : log[j] \in Line /\ log[j].rule \in RulesOf(domain)
      OBVIOUS
    <3>2. \A l \in Line : l.named \subseteq Options
      BY DEF Line
    <3> QED
      BY <3>1, <3>2
  <2> QED
    BY <1>2, <2>1
<1>6. ProperInput(i)
  BY <1>3, <1>4, <1>5 DEF ProperInput
<1>7. failure' = Classification(i)
  BY <1>2, <1>3 DEF Classification
<1> QED
  BY <1>2, <1>6, <1>7 DEF Classified

LEMMA ClassifiedInit == Init => Classified
BY DEF Init, Classified

LEMMA ClassifiedStep == Classified /\ [Next]_vars => Classified'
<1> SUFFICES ASSUME Classified, [Next]_vars PROVE Classified'
  OBVIOUS
<1>1. CASE BuildFails
  <2>1. PICK combo \in (SUBSET Options) \ {{}} : Fails("compile", combo)
    BY <1>1 DEF BuildFails
  <2>2. "compile" \in {"compile", "benchmark"} /\ combo \in SUBSET Options /\ combo # {}
    OBVIOUS
  <2> QED
    BY <2>1, <2>2, FailsClassified, Zenon
<1>2. CASE BenchmarkFails
  <2>1. Fails("benchmark", {})
    BY <1>2 DEF BenchmarkFails
  <2> QED
    BY <2>1, FailsClassified
<1>3. CASE UNCHANGED <<failure, input>>
  BY <1>3 DEF Classified
<1>4. Builds \/ MeasurePair \/ PairUp \/ Compare \/ Screen \/ Decide \/ UNCHANGED vars
        => UNCHANGED <<failure, input>>
  BY DEF Builds, MeasurePair, PairUp, Compare, Screen, Decide, vars
<1> QED
  BY <1>1, <1>2, <1>3, <1>4 DEF Next

\* A failure is certain, and its options are remembered, only on the word of
\* both the status and a line for the same category: for every set of options
\* and logs of every length (error_analyzer.py:365, 458 and 494).
THEOREM TwoSourcesStayAgreed == Spec => []TwoSourcesAgree
<1>1. Classified => TwoSourcesAgree
  <2> SUFFICES ASSUME Classified, failure # None PROVE TwoSourcesAgree
    BY DEF TwoSourcesAgree
  <2>1. ProperInput(input) /\ failure = Classification(input)
    BY DEF Classified
  <2>2. PICK i : i = input
    OBVIOUS
  <2>3. PICK k : k = failure
    OBVIOUS
  <2>4. /\ k.confidence = "HIGH" <=> Agreed(i) # {}
        /\ Agreed(i) # {} => k.category \in Agreed(i)
        /\ k.write => Agreed(i) \subseteq OptionCategories /\ k.options \subseteq i.combo
    BY <2>1, <2>2, <2>3, ClassificationFacts
  <2> QED
    BY <2>2, <2>3, <2>4 DEF TwoSourcesAgree, Agreed, OptionCategories
<1> QED
  BY <1>1, ClassifiedInit, ClassifiedStep, PTL DEF Spec

\* The functions return what their callers expect; in particular a
\* classification to be remembered is certain and names options, which its
\* schema insists on.
THEOREM DecisionsTypeCorrect == Spec => []DecisionsTypeOK
<1> DEFINE Inv == DecisionsTypeOK /\ Classified
<1>1. Init => Inv
  BY ClassifiedInit DEF Init, DecisionsTypeOK
<1>2. Inv /\ [Next]_vars => Inv'
  <2> SUFFICES ASSUME Inv, [Next]_vars PROVE Inv'
    OBVIOUS
  <2>1. Classified'
    BY ClassifiedStep
  <2>2. (failure # None =>
           /\ failure.route \in {"option", "environment", "unknown"}
           /\ failure.confidence \in {"LOW", "MEDIUM", "HIGH"}
           /\ failure.options \subseteq Options
           /\ failure.write => failure.confidence = "HIGH" /\ failure.options # {})'
    <3> SUFFICES ASSUME failure' # None
                 PROVE  /\ failure'.route \in {"option", "environment", "unknown"}
                        /\ failure'.confidence \in {"LOW", "MEDIUM", "HIGH"}
                        /\ failure'.options \subseteq Options
                        /\ failure'.write => failure'.confidence = "HIGH" /\ failure'.options # {}
      OBVIOUS
    <3>1. PICK i : i = input'
      OBVIOUS
    <3>2. PICK k : k = failure'
      OBVIOUS
    <3>3. ProperInput(i) /\ k = Classification(i)
      BY <2>1, <3>1, <3>2 DEF Classified
    <3>4. /\ k.route \in Routes /\ k.confidence \in {"LOW", "MEDIUM", "HIGH"}
          /\ k.options \subseteq Options
          /\ k.write => k.confidence = "HIGH" /\ k.options # {}
      BY <3>3, ClassificationFacts
    <3> QED
      BY <3>2, <3>4 DEF Routes
  <2>3. (/\ stage \in {"build", "failed", "measure", "compare", "refused", "screen", "decide", "decided"}
         /\ decision # None => stage = "decided")'
    BY DEF DecisionsTypeOK, Next, BuildFails, BenchmarkFails, Fails, Builds, MeasurePair,
           PairUp, Compare, Screen, Decide, vars
  <2>4. (sample # None => sample.quality \in {"good", "suspect", "unknown"})'
    <3>1. CASE PairUp
      <4> DEFINE all == {pairs[i] : i \in DOMAIN pairs}
      <4>1. Quality(all) \in {"good", "suspect"}
        BY DEF Quality
      <4>2. sample' = [paired  |-> pairs # <<>>,
                       quality |-> IF pairs # <<>> THEN Quality(all) ELSE "unknown",
                       seen    |-> Len(pairs)]
        BY <3>1 DEF PairUp
      <4> HIDE DEF all
      <4> QED
        BY <4>1, <4>2
    <3>2. CASE sample' = None \/ UNCHANGED sample
      BY <3>2 DEF DecisionsTypeOK
    <3>3. BuildFails \/ BenchmarkFails \/ Builds \/ MeasurePair \/ Compare \/ Screen \/ Decide
            \/ UNCHANGED vars => sample' = None \/ UNCHANGED sample
      BY DEF BuildFails, BenchmarkFails, Fails, Builds, MeasurePair, Compare, Screen, Decide, vars
    <3> QED
      BY <3>1, <3>2, <3>3 DEF Next
  <2>5. (result # None =>
           result.verdict \in Significant \cup {"no difference", "inconclusive"})'
    <3>1. CASE Compare
      <4>1. PICK c \in Comparisons(MaxN, MaxSpare), p \in 1 .. PUnit, provenance \in BOOLEAN :
              result' = ResultOf(c, p, provenance)
        BY <3>1, Zenon DEF Compare
      <4>2. result'.verdict = Verdict(c)
        BY <4>1 DEF ResultOf
      <4> QED
        BY <4>2 DEF Verdict, Significant
    <3>2. CASE UNCHANGED result
      BY <3>2 DEF DecisionsTypeOK
    <3>3. BuildFails \/ BenchmarkFails \/ Builds \/ MeasurePair \/ PairUp \/ Screen \/ Decide
            \/ UNCHANGED vars => UNCHANGED result
      BY DEF BuildFails, BenchmarkFails, Fails, Builds, MeasurePair, PairUp, Screen, Decide, vars
    <3> QED
      BY <3>1, <3>2, <3>3 DEF Next
  <2> QED
    BY <2>1, <2>2, <2>3, <2>4, <2>5 DEF DecisionsTypeOK
<1>3. Inv => DecisionsTypeOK
  OBVIOUS
<1> QED
  BY <1>1, <1>2, <1>3, PTL DEF Spec

=============================================================================
