---------------------------- MODULE PairQuality ----------------------------
(***************************************************************************)
(* Which runs of a baseline and of a candidate make a pair, and whether    *)
(* the pairs are good enough to lean a decision on: the two runs of a pair *)
(* close in time and in the announced order, and no two runs at once.      *)
(*                                                                         *)
(* A run says when it started and ended, its index among the runs of its   *)
(* side, and what the harness wrote about its pair: the key, the order, an *)
(* own account of the gap and of the duration.  Time is in whole units.    *)
(***************************************************************************)
EXTENDS Integers

CONSTANTS
    Unknown,            \* a field that is not there
    OverlapTolerance,   \* PAIR_RUN_OVERLAP_TOLERANCE_SEC
    GapFloor,           \* PAIR_QUALITY_GAP_FLOOR_SEC
    GapMax,             \* PAIR_QUALITY_GAP_ABS_MAX_SEC
    GapPerDuration,     \* PAIR_QUALITY_GAP_DURATION_MULT
    ConflictRatio,      \* PAIR_TIME_GAP_CONFLICT_RATIO
    ConflictGap         \* PAIR_TIME_GAP_CONFLICT_ABS_SEC

ASSUME PairAssumption ==
    /\ OverlapTolerance \in Nat /\ GapFloor \in Nat /\ GapMax \in Nat
    /\ GapPerDuration \in Nat /\ ConflictRatio \in Nat /\ ConflictGap \in Nat
    /\ Unknown \notin Nat

Larger(a, b) == IF a >= b THEN a ELSE b
Smaller(a, b) == IF a <= b THEN a ELSE b
Distance(a, b) == Larger(a - b, b - a)

\* RunLevelRecord, valid for scoring and with a pair_key; `position' is its
\* place in the list the order is computed from.
Run == [start : Nat, end : Nat, index : Nat, position : Nat, duration : Nat,
        order : {"baseline first", "candidate first", Unknown},
        gap : Nat \cup {Unknown}]

\* _record_order_key
Before(a, b) ==
    \/ a.start < b.start
    \/ a.start = b.start /\ a.index < b.index
    \/ a.start = b.start /\ a.index = b.index /\ a.position < b.position

Follows(b, a, runs) ==
    /\ Before(a, b)
    /\ ~ \E c \in runs : Before(a, c) /\ Before(c, b)

\* MUTANT: a run is looked at only with the other run of its index.
OverlapOfPair(runs) ==
    \E a, b \in runs :
        a.index = b.index /\ Before(a, b) /\ a.end - b.start > OverlapTolerance

\* _records_have_time_overlap: each run with the one that starts next.
TimeOverlap(runs) ==
    \E a, b \in runs :
        Follows(b, a, runs) /\ a.end - b.start > OverlapTolerance

\* What it stands for: of any two runs, the later one starts when the earlier
\* one is over.
Disjoint(runs) ==
    \A a, b \in runs : Before(a, b) => a.end - b.start <= OverlapTolerance

\* _effective_record_duration_sec
EffectiveDuration(r) == Smaller(r.duration, r.end - r.start)

DerivedGap(p) == Distance(p.baseline.start, p.candidate.start)

Reported(p) == {p.baseline.gap, p.candidate.gap} \ {Unknown}

FieldGap(p) == CHOOSE g \in Reported(p) : \A h \in Reported(p) : g >= h

\* _pair_time_gap_source_conflict
SourceConflict(p) ==
    /\ Reported(p) # {}
    /\ DerivedGap(p) > FieldGap(p)
    /\ \/ DerivedGap(p) > Larger(FieldGap(p) * ConflictRatio, GapFloor)
       \/ DerivedGap(p) - FieldGap(p) > ConflictGap

\* _pair_time_gap: the larger of the two accounts.
EffectiveGap(p) ==
    IF Reported(p) = {} THEN DerivedGap(p) ELSE Larger(FieldGap(p), DerivedGap(p))

\* _pair_effective_duration_sec
AllowedGap(p) ==
    Larger(GapPerDuration * Smaller(EffectiveDuration(p.baseline),
                                    EffectiveDuration(p.candidate)),
           GapFloor)

\* MUTANT: the harness is believed about the gap.
GoodAsReported(p) ==
    /\ p.baseline.order # Unknown /\ p.baseline.order = p.candidate.order
    /\ Reported(p) # {} => FieldGap(p) <= GapMax /\ FieldGap(p) <= AllowedGap(p)

\* _pair_quality, for one pair.
GoodPair(p) ==
    /\ p.baseline.order # Unknown /\ p.baseline.order = p.candidate.order
    /\ ~SourceConflict(p)
    /\ EffectiveGap(p) <= GapMax
    /\ EffectiveGap(p) <= AllowedGap(p)

Runs(pairs) == {p.baseline : p \in pairs} \cup {p.candidate : p \in pairs}

\* What a good quality stands for, told from the times alone: no two runs at
\* once, the order as announced, and the two runs of a pair as close as their
\* own lengths allow, so that no run is longer than the gap it accounts for.
Length(r) == r.end - r.start

Comparable(pairs) ==
    /\ Disjoint(Runs(pairs))
    /\ \A p \in pairs :
        LET shorter == Smaller(Length(p.baseline), Length(p.candidate)) IN
        /\ p.baseline.order = p.candidate.order
        /\ DerivedGap(p) <= GapMax
        /\ DerivedGap(p) <= Larger(GapPerDuration * shorter, GapFloor)
        /\ shorter <= DerivedGap(p) + OverlapTolerance

\* _pair_quality.  Every run has its times, so no pair is "unknown".
Quality(pairs) ==
    IF ~TimeOverlap(Runs(pairs)) /\ (\A p \in pairs : GoodPair(p))
    THEN "good" ELSE "suspect"
=============================================================================
