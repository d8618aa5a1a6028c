------------------------------ MODULE Backtest ------------------------------
(***************************************************************************)
(* A backtest beside the live engine.  POST /rules/backtest                *)
(* (api/routes/rules.py) replays the price history of a pair through       *)
(* evaluate_rules_for_pair, the function the poller calls, one row at a    *)
(* time and in a transaction of its own, while the poller goes on adding   *)
(* rows and firing the rules that exist.                                   *)
(*                                                                         *)
(* There is one pair and one poller, so that the rows of the pair have     *)
(* increasing times; a rule is in the index as soon as it is created       *)
(* (RuleIndexSync is about the delay) and the evaluation of one row is one *)
(* step (AlertEngine is about its parts).                                  *)
(*                                                                         *)
(* The poller evaluates a quote with all its decimals, by rules read from  *)
(* their table; a backtest evaluates rows read from theirs, by the rule of *)
(* the request with all its decimals.  The text of a price, which is part  *)
(* of a detected state, is taken to be given by its value.                 *)
(***************************************************************************)
EXTENDS RuleMatching, FiniteSets

CONSTANTS
    Definitions,   \* the rules that are created or tried out
    Quotes,        \* what the market may show: last price, its level when
                   \* stored, bid and ask
    Gaps,          \* time from one observation to the next
    MinuteLength,  \* length of the minute bucket, in clock units
    MaxRows,       \* bound on the rows of the history
    MaxRules,      \* bound on the rules created
    MaxReplays     \* bound on the backtests that run at a time

ASSUME BacktestAssumption ==
    /\ Definitions \subseteq Rule
    /\ Quotes \subseteq [last : Nat, level : Nat, bid : Nat, ask : Nat]
    /\ Gaps \subseteq Nat \ {0}
    /\ MinuteLength \in Nat \ {0}
    /\ {MaxRows, MaxRules, MaxReplays} \subseteq Nat

\* A level is that of the stored price.
ASSUME LevelAssumption == \A q \in Quotes : Round(q.last) = Grain * 2 ^ q.level

VARIABLES
    history,  \* price_history of the pair, by observed_at
    quoted,   \* the same observations as they were quoted, which are not kept
    since,    \* the rules that exist, each with the length of the history
              \* when it was created
    live,     \* the notifications of each rule that exists
    replays   \* the backtests under way

vars == <<history, quoted, since, live, replays>>

Fire == [at : Nat, price : Nat,
         status : {"pending", "suppressed_cooldown"}]

\* A backtest: its temp_rule, the rows it has selected, the position of the
\* next one, and the notifications its transaction holds.
Replay == [rule : Definitions, rows : Seq(Row), next : Nat \ {0},
           fires : SUBSET Fire]

Rules == DOMAIN since

Init ==
    /\ history = <<>>
    /\ quoted = <<>>
    /\ since = [r \in {} |-> 0]
    /\ live = [r \in {} |-> {}]
    /\ replays = {}

\* compute_detected_state_hash: the price and the minute.
SameState(fire, seen) ==
    /\ fire.price = seen.last
    /\ fire.at \div MinuteLength = seen.at \div MinuteLength

\* _in_cooldown: every fire, suppressed or not, sets last_fired_at.
InCooldown(rule, fires, at) ==
    \E f \in fires : at - f.at < rule.cooldown

\* evaluate_rules_for_pair, from its loop on, for one candidate.
Record(rule, fires, seen) ==
    IF \E f \in fires : SameState(f, seen) THEN fires
    ELSE fires \cup
        {[at |-> seen.at, price |-> seen.last,
          status |-> IF InCooldown(rule, fires, seen.at)
                     THEN "suppressed_cooldown" ELSE "pending"]}

Now == IF history = <<>> THEN 0 ELSE Last(history).at

Observation(q, gap) ==
    [at |-> Now + gap, last |-> q.last, level |-> q.level, bid |-> q.bid, ask |-> q.ask]

\* Mutant of Observe: the index holds rules that nobody created.
ObserveAll(q, gap) ==
    LET seen == Observation(q, gap)
        cands == Candidates(PairRules({Saved(r) : r \in Definitions}), seen,
                            Append(history, Stored(seen)))
    IN  /\ Len(history) < MaxRows
        /\ history' = Append(history, Stored(seen))
        /\ quoted' = Append(quoted, seen)
        /\ live' = [r \in Rules \cup cands |->
              IF r \in cands
              THEN Record(r, IF r \in Rules THEN live[r] ELSE {}, seen)
              ELSE live[r]]
        /\ UNCHANGED <<since, replays>>

\* The poller adds a row and evaluates the quote it is from.
Observe(q, gap) ==
    LET seen == Observation(q, gap)
        cands == Candidates(PairRules(Rules), seen, Append(history, Stored(seen)))
    IN  /\ Len(history) < MaxRows
        /\ history' = Append(history, Stored(seen))
        /\ quoted' = Append(quoted, seen)
        /\ live' = [r \in Rules |-> IF r \in cands THEN Record(r, live[r], seen)
                                                   ELSE live[r]]
        /\ UNCHANGED <<since, replays>>

\* create_rule, until the index has read the rule.
CreateRule(r) ==
    /\ Saved(r) \notin Rules
    /\ Cardinality(Rules) < MaxRules
    /\ since' = [s \in Rules \cup {Saved(r)} |->
                    IF s = Saved(r) THEN Len(history) ELSE since[s]]
    /\ live' = [s \in Rules \cup {Saved(r)} |->
                    IF s = Saved(r) THEN {} ELSE live[s]]
    /\ UNCHANGED <<history, quoted, replays>>

\* backtest_rule: the rows from the lookback on are selected once.  As times
\* increase, a lookback is the position of the first of them.  The rule is
\* flushed and not read back.
Backtest(r, first) ==
    /\ Cardinality(replays) < MaxReplays
    /\ replays' = replays \cup
          {[rule |-> r, rows |-> SubSeq(history, first, Len(history)),
            next |-> 1, fires |-> {}]}
    /\ UNCHANGED <<history, quoted, since, live>>

\* One turn of its loop.  The evaluation queries the history as it is now.
ReplayRow(b) ==
    LET row == b.rows[b.next]
        cands == Candidates(PairRules({b.rule}), row, history)
    IN  /\ b.next <= Len(b.rows)
        /\ replays' = (replays \ {b}) \cup
              {[b EXCEPT !.next = @ + 1,
                         !.fires = IF b.rule \in cands
                                   THEN Record(b.rule, b.fires, row) ELSE @]}
        /\ UNCHANGED <<history, quoted, since, live>>

\* The response is built, and the transaction is rolled back.
Respond(b) ==
    /\ b.next > Len(b.rows)
    /\ replays' = replays \ {b}
    /\ UNCHANGED <<history, quoted, since, live>>

Next ==
    \/ \E q \in Quotes, gap \in Gaps : Observe(q, gap)
    \/ \E r \in Definitions : CreateRule(r)
    \/ \E r \in Definitions, first \in 1 .. Len(history) + 1 : Backtest(r, first)
    \/ \E b \in replays : ReplayRow(b) \/ Respond(b)

Spec == Init /\ [][Next]_vars

-----------------------------------------------------------------------------
(* Properties.                                                             *)

\* The variables have their types, observations have increasing times, and a
\* rule fires for no observation made before the rule was created.
TypeOK ==
    /\ history \in Seq(Row)
    /\ quoted \in Seq(Row)
    /\ Len(quoted) = Len(history)
    /\ \A i \in 2 .. Len(history) : history[i - 1].at < history[i].at
    /\ Rules \subseteq {Saved(r) : r \in Definitions}
    /\ \A r \in Rules : since[r] \in 0 .. Len(history)
    /\ DOMAIN live = Rules
    /\ \A r \in Rules : \A f \in live[r] :
          f \in Fire /\ \E i \in since[r] + 1 .. Len(history) : f.at = history[i].at
    /\ replays \subseteq Replay
    /\ \A b \in replays : b.next <= Len(b.rows) + 1

\* Whether the backtest replays the rows that the rule was live for.
SeesWhatLiveSaw(b) ==
    /\ Saved(b.rule) \in Rules
    /\ since[Saved(b.rule)] < Len(history)
    /\ b.rows # <<>>
    /\ b.rows[1] = history[since[Saved(b.rule)] + 1]

\* Whether the rows replayed so far were quoted with no more decimals than
\* price_history keeps (db/models.py:53-55).
QuotedAsStored(b) ==
    \A k \in 1 .. b.next - 1 : \E i \in DOMAIN quoted : quoted[i] = b.rows[k]

\* The backtests that can be compared.  Not those
\*   - of a z-score, which takes the newest prices (rules/evaluator.py:164-177);
\*   - of a percent_change with a negative window, which nothing refuses
\*     (api/routes/rules.py:89-91, 104): a replay looks ahead of its row;
\*   - of a limit with more decimals than a saved rule keeps (db/models.py:96-97
\*     and 99, against api/routes/rules.py:296-310);
\*   - over rows that the live engine judged by a quote with more decimals
\*     (workers/poller.py:124 and 137).
Comparable(b) ==
    /\ b.rule.type # "zscore_move"
    /\ b.rule.type = "percent_change" => b.rule.window >= 0
    /\ b.rule = Saved(b.rule)
    /\ QuotedAsStored(b)

\* What the live engine recorded for the rows replayed so far.
LiveSoFar(b) ==
    {f \in live[Saved(b.rule)] : b.next > 1 /\ f.at <= b.rows[b.next - 1].at}

\* A backtest that can be compared finds the fires, delivered and suppressed,
\* that the live engine recorded when the rule was in force
\* (api/routes/rules.py:261-265): though the live rule shares its bucket with
\* others, looks back over rows that are older than the rule or were rounded,
\* and the poller adds rows during the replay.
ReplayIsLive == \A b \in replays :
    Comparable(b) /\ SeesWhatLiveSaw(b) => b.fires = LiveSoFar(b)

\* The same for every backtest: "whatever this returns is what the live engine
\* would actually have done" (api/routes/rules.py:264-265).
ReplayIsAlwaysLive == \A b \in replays :
    SeesWhatLiveSaw(b) => b.fires = LiveSoFar(b)

\* The newest window + 2 prices are enough (rules/evaluator.py:262): the score
\* is the one that the whole history gives.
WindowSuffices ==
    Score(RecentLevels(history)) = Score([i \in DOMAIN history |-> history[i].level])
=============================================================================
