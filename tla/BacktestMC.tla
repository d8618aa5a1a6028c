----------------------------- MODULE BacktestMC -----------------------------
(* Instances of Backtest for TLC.  A limit or a price has one decimal more *)
(* than is stored: Grain is 10.                                            *)
EXTENDS Backtest

Definition(type, limit, window) ==
    [type |-> type, limit |-> limit, window |-> window, direction |-> "both",
     cooldown |-> 4]

\* Two rules of one bucket, of which the price 20 fires one, and one that is
\* saved as the first of them.
MCThresholds == {Definition("absolute_below", 20, 0), Definition("absolute_below", 30, 0),
                 Definition("absolute_below", 24, 0)}
\* One that looks back to between two rows, and one that looks a row ahead.
MCPercents == {[Definition("percent_change", 1000, w) EXCEPT !.cooldown = 0] : w \in {3, -2}}
MCDefinitions == MCThresholds \cup MCPercents

\* Rises that are unusual.
MCZScores == {[Definition("zscore_move", 10, 0) EXCEPT !.direction = "up"]}

\* The second is stored as the third.
Quote(last, level, bid, ask) == [last |-> last, level |-> level, bid |-> bid, ask |-> ask]
MCQuotes == {Quote(10, 0, 10, 10), Quote(19, 1, 10, 20), Quote(20, 1, 10, 20)}

\* Quotes that are stored as they are.
MCExactQuotes == {Quote(10, 0, 10, 10), Quote(20, 1, 10, 20)}
=============================================================================
