---------------------------- MODULE RuleMatching ----------------------------
(***************************************************************************)
(* Which rules of a pair an observation fires: the buckets of              *)
(* workers/rule_index.py, the score of workers/zscore_filter.py and the    *)
(* first half of evaluate_rules_for_pair (rules/evaluator.py).             *)
(*                                                                         *)
(* An observation is evaluated as it was quoted and stored rounded to the  *)
(* decimals of its columns, and the limit of a rule is rounded when the    *)
(* rule is saved.  Prices and limits are numbers of a unit that no quote   *)
(* and no request divides, Grain of which make the last stored decimal; a  *)
(* limit of Grain is one percent, or one standard deviation.               *)
(*                                                                         *)
(* The stored last price of an observation is Grain times a power of two,  *)
(* given by its exponent, its level: then a log return is a whole number   *)
(* of ln 2, which cancels in a z-score, and the comparison of a z-score    *)
(* with sigma is one of integers.  The code rounds where this is exact.    *)
(***************************************************************************)
EXTENDS Integers, SequencesExt

CONSTANTS
    Grain,            \* the last stored decimal, in units
    Window,           \* zscore_window
    MinObservations,  \* zscore_min_observations
    FlatPercent       \* zscore_zero_variance_min_percent

ASSUME MatchingAssumption ==
    /\ Grain \in Nat \ {0}
    /\ Window \in Nat \ {0}
    /\ MinObservations \in Nat \ {0}
    /\ FlatPercent \in Nat \ {0}

Types == {"absolute_below", "absolute_above", "zscore_move",
          "percent_change", "spread_widen"}

\* An alert rule.  "limit" is its threshold, sigma or percent, whichever its
\* type requires; no direction is "both".  A limit and a window may have any
\* sign.
Rule == [type : Types, limit : Int, window : Int,
         direction : {"up", "down", "both"}, cooldown : Nat]

\* An observation, as it was quoted or as a row of price_history.
Row == [at : Nat, last : Nat, level : Nat, bid : Nat, ask : Nat]

\* The nearest multiple of Grain, away from zero if there are two.
NearestGrain(x) == Grain * ((2 * x + Grain) \div (2 * Grain))
Round(x) == IF x < 0 THEN - NearestGrain(- x) ELSE NearestGrain(x)

\* The row that an observation leaves in price_history.
Stored(seen) == [seen EXCEPT !.last = Round(@), !.bid = Round(@), !.ask = Round(@)]

\* A rule as it is read back.
Saved(rule) == [rule EXCEPT !.limit = Round(@)]

Newest(s, n) == SubSeq(s, Max({1, Len(s) - n + 1}), Len(s))

-----------------------------------------------------------------------------
(* The buckets of a pair.                                                  *)

OfType(rules, type) == {r \in rules : r.type = type}

\* The keys to sort by.
Ascending(rules) == [r \in rules |-> r.limit]
Descending(rules) == [r \in rules |-> - r.limit]

\* sorted: the rules in the order of their keys, those that tie in any order.
Sorted(key) ==
    CHOOSE s \in [1 .. Cardinality(DOMAIN key) -> DOMAIN key] :
        /\ Range(s) = DOMAIN key
        /\ \A j \in DOMAIN s : \A i \in 1 .. j - 1 : key[s[i]] <= key[s[j]]

\* Mutant of PairRules: both thresholds ascend.
PairRulesAscending(rules) ==
    [absolute_below |-> Sorted(Ascending(OfType(rules, "absolute_below"))),
     absolute_above |-> Sorted(Ascending(OfType(rules, "absolute_above"))),
     zscore_move |-> OfType(rules, "zscore_move"),
     percent_change |-> OfType(rules, "percent_change"),
     spread_widen |-> OfType(rules, "spread_widen")]

\* _bucket_rules.
PairRules(rules) ==
    [absolute_below |-> Sorted(Descending(OfType(rules, "absolute_below"))),
     absolute_above |-> Sorted(Ascending(OfType(rules, "absolute_above"))),
     zscore_move |-> OfType(rules, "zscore_move"),
     percent_change |-> OfType(rules, "percent_change"),
     spread_widen |-> OfType(rules, "spread_widen")]

-----------------------------------------------------------------------------
(* Rules with a threshold.                                                 *)

\* rule_fires.
ThresholdFires(rule, price) ==
    \/ rule.type = "absolute_below" /\ price < rule.limit
    \/ rule.type = "absolute_above" /\ price > rule.limit

\* _matching_absolute_rules: the scan stops at the first that does not fire.
Scan(bucket, price) ==
    {bucket[i] : i \in {k \in DOMAIN bucket :
                          \A j \in 1 .. k : ThresholdFires(bucket[j], price)}}

-----------------------------------------------------------------------------
(* The z-score.                                                            *)

\* compute_zscore: the last return and the returns it is scored against,
\* which are none when there are too few.
Score(levels) ==
    LET returns == [i \in 1 .. Len(levels) - 1 |-> levels[i + 1] - levels[i]]
    IN  IF Len(levels) - 2 < MinObservations
        THEN [return |-> 0, baseline |-> <<>>]
        ELSE [return |-> Last(returns), baseline |-> Newest(Front(returns), Window)]

\* |e^r - 1| * 100 is at least FlatPercent.
FlatMove(r) ==
    IF r >= 0 THEN (2 ^ r - 1) * 100 >= FlatPercent
              ELSE (2 ^ (-r) - 1) * 100 >= FlatPercent * 2 ^ (-r)

\* zscore_rule_fires.  "off" is n times the distance to the mean, "spread" is
\* n (n - 1) times the variance.
ZScoreFires(rule, score) ==
    LET n == Len(score.baseline)
        sum == FoldLeft(+, 0, score.baseline)
        squares == FoldLeft(LAMBDA s, x : s + x * x, 0, score.baseline)
        spread == n * squares - sum * sum
        off == n * score.return - sum
        score2 == off * off * (n - 1) * Grain * Grain
        limit2 == rule.limit * rule.limit * n * spread
        \* whether the score, in the direction of x, is at least the limit
        Reaches(x) == IF rule.limit > 0 THEN x > 0 /\ score2 >= limit2
                                        ELSE x >= 0 \/ score2 <= limit2
        Either(up, down) == \/ rule.direction # "down" /\ up
                            \/ rule.direction # "up" /\ down
    IN  /\ n > 0
        /\ IF spread = 0
           THEN FlatMove(score.return) /\ Either(score.return > 0, score.return < 0)
           ELSE Either(Reaches(off), Reaches(- off))

\* Mutant of RecentLevels: one price too few.
RecentLevelsShort(history) ==
    LET rows == Newest(history, Window + 1)
    IN  [i \in DOMAIN rows |-> rows[i].level]

\* _fetch_recent_prices: the newest rows there are.
RecentLevels(history) ==
    LET rows == Newest(history, Window + 2)
    IN  [i \in DOMAIN rows |-> rows[i].level]

-----------------------------------------------------------------------------
(* Rules with a percentage.                                                *)

\* _fetch_price_at_or_before: the position of the row, 0 if there is none.
RowAsOf(history, cutoff) ==
    SelectLastInSeq(history, LAMBDA row : row.at <= cutoff)

\* percent_change_rule_fires.
PercentFires(rule, seen, history) ==
    LET past == RowAsOf(history, seen.at - rule.window)
    IN  /\ past # 0
        /\ LET was == history[past].last
               change == (seen.last - was) * 100 * Grain
           IN  /\ was # 0
               /\ \/ rule.direction # "down" /\ change >= rule.limit * was
                  \/ rule.direction # "up" /\ change <= - rule.limit * was

\* spread_widen_rule_fires.
SpreadFires(rule, seen) ==
    /\ seen.bid # 0
    /\ (seen.ask - seen.bid) * 100 * Grain >= rule.limit * seen.bid

-----------------------------------------------------------------------------
\* The candidates of evaluate_rules_for_pair, given an observation and the
\* rows it queries.
Candidates(pairRules, seen, history) ==
    LET score == Score(RecentLevels(history))
    IN  Scan(pairRules.absolute_below, seen.last)
        \cup Scan(pairRules.absolute_above, seen.last)
        \cup {r \in pairRules.zscore_move : ZScoreFires(r, score)}
        \cup {r \in pairRules.percent_change : PercentFires(r, seen, history)}
        \cup {r \in pairRules.spread_widen : SpreadFires(r, seen)}
=============================================================================
