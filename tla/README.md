# dropwatch in TLA+

TLA+ models of dropwatch, the TLC runs that check them on small instances, and
proofs, checked by TLAPS, that the main properties hold for every value of the
constants. Paths below are relative to the repository.

## The system

| Part | Code | State it keeps | Operations |
| --- | --- | --- | --- |
| Scheduler | `workers/scheduler.py` | `pairs.last_checked_at` (the claim) | every 5 s: select due pairs, send one delayed message each, commit the claims |
| Poll queue and DLQ | SQS, `scripts/setup_sqs.py` | messages, visibility, receive counts | send, receive, expire, delete, redrive after 5 receives |
| Poller | `workers/poller.py` | one session per batch; `price_history`, `pairs` | receive up to 10 messages, one Ticker call, evaluate each pair, one commit, delete |
| Evaluation | `rules/evaluator.py` | `notifications`, `outbox_events`, `alert_rules.last_fired_at` | match rules, skip recorded states, decide the cooldown, insert, queue the alert |
| Rule index | `workers/rule_index.py` | rules in memory, with `last_fired_at` | rebuild at start, on an invalidation, every 300 s |
| Outbox publisher | `workers/outbox_publisher.py` | `outbox_events`, `notifications.status` | every 5 s: publish the due rows to SNS, back off what failed, one commit |
| Rules API | `api/routes/rules.py` | `alert_rules` | create, patch, announce on Redis; backtest |
| Pair registry | `workers/discovery.py`, `api/routes/pairs.py` | `pairs` | daily discovery with two floors; POST /pairs |
| Kraken provider | `providers/kraken.py` | a throttle and a cache per process, behind a lock each | AssetPairs, once per process, and Ticker |
| Alerts API, scripts | `api/routes/alerts.py`, `scripts/` | none | read-only query; one-shot provisioning |

The parts meet in the database, in SQS (scheduler to poller), in Redis pub/sub
(rules API to the rule index of each poller) and in the outbox table (evaluation
to publisher). Everything between two `await`s is atomic within a process, and
nothing else is: a refresh task of the poller's own event loop, another process
or the API may run at every `await`.

What is hard here: the check for an existing notification and its insertion are
separate statements of concurrent transactions; the cooldown is decided from
memory, which transactions do not roll back and rebuilds replace; messages are
delivered at least once, the poller commits before it deletes, and SNS is told
before the publisher commits. `PROJECT.json` lists each hazard at its line, and
the properties aimed at it.

What makes each part correct:

- evaluation: one notification for each detected state, never none, never two;
  an outbox event exactly when the alert is not suppressed; cooldowns kept, and
  nothing withheld without a fire that justifies it;
- publisher: nothing recorded as sent that SNS did not accept, nothing published
  again once recorded, duplicates only through faults, and every healthy event
  sent in the end;
- queue: every active pair polled in the end, no message lost before its pair was
  evaluated, no unbounded pile of messages;
- index: an edit is evaluated within a refresh interval and the time of a rebuild,
  and an older rebuild does not undo it for longer than that;
- backtest: what it reports is what the live engine recorded for the same rows, where
  both are given the same values;
- registry: what a client was told stays true, no flapping between the floors, and
  activity follows the market.

## The modules

| Module | What it holds |
| --- | --- |
| `AlertLedger` | the abstract promise: a detected state is recorded once, as owed or as withheld, for good; only owed alerts are sent |
| `AlertEngine` | pollers, transactions, the rule index in memory, evaluations |
| `AlertEngineMC` | its instances for TLC |
| `AlertEngineProofs` | theorems for any number of pollers, rules and refresh tasks |
| `CooldownProofs` | theorems for the deployed single poller |
| `OutboxPublisher` | the publisher, SNS and its faults |
| `OutboxProofs` | theorems about the publisher |
| `AlertPipeline` | pollers and publisher over one outbox table: an alert from a price to SNS |
| `AlertPipelineMC` | its instance for TLC |
| `AlertPipelineProofs` | theorems about the two together; the pipeline implements each of them, and the whole of `AlertLedger` |
| `PollQueue` | the scheduler, SQS with its DLQ, and the pollers as the queue sees them |
| `PollQueueMC` | its instances for TLC |
| `PollQueueProofs` | theorems about the queue |
| `RuleIndexSync` | edits of rules, announcements, the listener, rebuilds, and the rules that evaluations take |
| `RuleIndexSyncMC` | its instance for TLC |
| `RuleIndexSyncProofs` | theorems for any number of rules, requests, pollers and rebuilds |
| `RuleMatching` | which rules a quote fires: buckets, scan, z-score, percentages; operators only |
| `Backtest` | a history that grows, the live engine and a replay of it, both through `RuleMatching` |
| `BacktestMC` | its instances for TLC |
| `BacktestProofs` | what scans and scores compute, for any rules and rows; theorems for any rules, quotes and histories |
| `KrakenProvider` | the cache of AssetPairs, its lock and the throttle of one process |
| `PairRegistry` | POST /pairs on a `KrakenProvider`, the discovery job, and a market that moves |
| `PairRegistryProofs` | theorems for any number of names and requests |

### AlertEngine

`notifications`, `outbox` and `lastFired` are the committed tables. Each poller
has a program counter `pc`, an `index` (of each rule, what memory believes of
`last_fired_at`), the `rebuilds` in flight, an evaluation `ev` and an open
transaction `tx`. An action ends where the code awaits:

| Action | Code |
| --- | --- |
| `Start`, `Crash` | `main`: the first rebuild, then the loop; the death of the process |
| `Load`, `Swap` | the two halves of `RuleIndex.rebuild`, around its `await` |
| `ReceiveBatch`, `BeginPair`, `FlushPair`, `EndPair`, `Commit` | `process_batch`; the flush is the UPDATE of the pair's row that the first query of the evaluation causes, and it locks the row |
| `Rollback` | the `except` of `run_forever`: the session is closed, memory is not undone |
| `SkipRecorded`, `DecideCooldown` | the SELECT by idempotency key and the decision |
| `InsertConflict`, `InsertNotification` | the SAVEPOINT, with the unique key: an INSERT waits for an uncommitted row with its key |
| `UpdateLastFired` | the UPDATE of the rule, which waits for another transaction that did it |

Rule objects have an identity: an evaluation under way holds the objects it took
(`held`), and assigns to the index as well only while the index still holds the
same ones (`live`). A commit whose answer is lost has the effect of `Commit`; a
transaction that Postgres aborts to break a deadlock is a `Rollback`.

Left open: which rules match (any subset of the pair's rules), and which
messages arrive (any batch at any time, which covers redelivery and duplicates).
A batch whose Ticker call fails writes nothing, and is not a step. Rules are not
edited here: that is `RuleIndexSync`; which rules match is `RuleMatching`.

### OutboxPublisher

Rows are stored by the pollers (`Store`), those of one commit together, at any
moment and with any `created_at`, since that is the time a transaction began. A
tick selects (`Select`), tries its rows oldest first (`Publish`, `Refuse`,
`LoseAck`) and commits once (`CommitTick`); `Fail` and `PublisherCrash` lose what
it would have recorded. `Second` is the passing of time.
Time is what is left of each delay, so it needs no bound; `publish_attempts` is
counted up to where the delay no longer grows.

### AlertPipeline

The two processes share the table `outbox_events`, and the status of a notification,
which the publisher sets to `sent` and no poller reads. The module extends both, so that their theorems can be cited (tlapm cannot use a theorem
through an instance), and adds no state: what is `outbox` to the pollers is the
stored rows of the publisher, and `CommitBatch`, the commit of a batch and the
storing of its events, is the one step that both take part in. An event is its
notification (`KeyOf`): the rule, the price and the minute. The seconds of the
publisher and the ticks of the pollers run freely, since nothing in the code relates
them; events and notifications are never deleted, as in the code.

### PollQueue

`reg` is the pairs table as far as polling cares: whether a pair exists and is
active. `wait` is the time until it is due (what `last_checked_at` and
`poll_interval_seconds` amount to), `queue` the messages with the timer that hides
each, `sched` and `poll` the processes with what their open session holds.

| Action | Code |
| --- | --- |
| `SelectNothing`, `SelectDue` | `get_due_pairs` |
| `Send`, `CommitClaims` | the loop of `enqueue_due_pairs`, one message after the other, and its one commit |
| `SchedulerFails`, `SchedulerCrashes`, `SchedulerRestarts` | the `except` of `run_forever`; the death of the process: what was sent stays sent, its claims are lost |
| `Receive` | `_receive`, and of `process_batch` the one message it keeps for each pair and the SELECT of the pairs |
| `NoQuotes`, `Quotes` | the Ticker call: none, or one quote for each listed pair |
| `Commit`, `Delete` | the observations and `last_checked_at`; then `_delete_batch` |
| `Raise`, `DeleteFails`, `Crash`, `Restart` | the `except` of `run_forever`, a delete that fails, the death of the process |
| `Redrive` | the redrive policy of `scripts/setup_sqs.py` |
| `Track`, `Switch`, `Remove` | discovery, POST /pairs, and rows removed by hand: at any moment |

The receipt handle of a message that another poller has received since may or may
not delete it: SQS promises neither. `gap`, `lost` and `served` are auxiliary, and
no action looks at them. Malformed bodies, which `_parse_pair_id` leaves to the
DLQ, are left out: the scheduler writes every body. What a batch writes besides is
in `AlertEngine`: there the messages are left open, here the evaluation is, and
both have the same transaction, commit and failures.

### RuleIndexSync

`table` holds the committed rules, `requests` what each handler of the API is
doing, and each poller has its `index`, the `rebuilds` in flight, the `timer` of its
refresh, a `listener` with its subscription, and the rules that an evaluation has
`taken`. What is read from the table carries `stale`: for how long the table has
been ahead of it, or `UpToDate`. A later commit that restores the same rows does not
reset it; `Freshness` counts only rules that really differ.

| Action | Code |
| --- | --- |
| `CreateRule`, `ReadRule`, `CommitPatch` | `create_rule`; `update_rule` up to its validation, and its commit, which writes the columns that differ from what it read |
| `Announce`, `AnnounceFails` | `_publish_invalidation` |
| `Start` | `main`: the first rebuild |
| `RefreshLoad`, `ListenerLoad`, `Install`, `RebuildFails` | `RuleIndex.rebuild` by each of its tasks, around its `await`, and its failure |
| `Subscribe`, `Drop`, `Detect` | the connection of the listener: it can die unseen, and the health check of a bounded read notices |
| `TakeRules`, `EvaluationEnds` | `rules_for_pair` at the start of `evaluate_rules_for_pair`, and its end |
| `Crash` | the death of the process |

A PATCH that fails validation, or at a NOT NULL column, changes nothing and is no
step. The reconnect backoff of the listener is left open: `Subscribe` may take any
time, or never come.

### RuleMatching and Backtest

`RuleMatching` has no state. A quote is evaluated with all its decimals
(`providers/kraken.py:98-100`, `workers/poller.py:137`), and stored with the eight of its
columns (`db/models.py:53-55`); a rule is read back with the decimals of `threshold`,
`percent` or `sigma` (`db/models.py:96-99`). `Stored` and `Saved` are these roundings.
Prices and limits are multiples of a unit finer than any of them, `Grain` of which make
the last stored decimal; that the columns have different decimals is left out, since
nothing compares one with another.
The stored last price is a power of two of grains and carries its exponent, its
`level`, so a log return is a whole multiple of ln 2 and a z-score is compared with sigma
without roots or logarithms: `(n x - sum)^2 (n - 1) >= sigma^2 n spread`. The code computes
in floating point and may round where this is exact, at the boundary itself. Limits and
windows may have any sign, as `_validate_rule_fields` only asks for their presence.

In `Backtest`, `Observe` is the poller: it adds the `Stored` row and evaluates the quote,
by the `Saved` rules. `CreateRule` puts a rule in force, as saved. `Backtest` selects the
rows of a lookback for a rule as it is in the request, since `temp_rule` is flushed and not
read back; `ReplayRow` evaluates one of the rows with the history as it is then, and
`Respond` ends the replay. Live and replayed evaluation share `Candidates` and `Record`, as
in the code. A row is evaluated in one step: the transaction of the backtest is never
committed, so nobody sees its parts, and `AlertEngine` has the parts of the poller's.
`quoted` is auxiliary: the quotes that the rows are from. The detected state has the text
of a price, which is taken to be given by its value: a market quotes with a fixed
number of decimals.

The docstring of `backtest_rule` (`api/routes/rules.py:264-265`) promises "what the live
engine would actually have done". That is more than the code does, in four ways, and
`Comparable` leaves exactly these out of `ReplayIsLive` and its theorem:

- a `zscore_move` is scored by the newest prices, not by those before its row (the run
  `backtest_zscore`);
- a `percent_change` with a negative `window_seconds`, which `api/routes/rules.py:89-91`
  and `:104` accept, looks ahead of its row, at rows that did not exist when it was live;
- a limit with more decimals than its column is rounded for the live rule, not for the
  replay;
- a quote with more decimals than its column is judged as it is when it is live, and
  rounded when it is replayed.

### KrakenProvider and PairRegistry

`KrakenProvider` has the `line` of tasks at the lock of the cache, what its holder is
doing (`fetch`), and the time since the last request. `PairRegistry` adds the `market`
at Kraken, the table of `pairs`, the `requests` that POST /pairs and the discovery
`job`.

| Action | Code |
| --- | --- |
| `Post`, `Resolve`, `ResolveFails` | `create_pair` up to `resolve_pair`: from the cache, from the request of the lock's holder, or an error |
| `Select`, `Insert` | the check for the name; the row and its commit, which the unique name refuses if another came first |
| `JobStarts`, `JobLists`, `JobTakesSnapshot` | `run_discovery`: AssetPairs, then Ticker, between which the market moves |
| `JobSelects`, `JobCommits`, `JobFails` | the rows it knows, and its one commit, which fails as a whole when a name it inserts exists by then |
| `StartFetch`, `SendRequest`, `ProviderTick` | the throttle of a request |
| `MarketMoves` | Kraken lists, delists, or the volume changes |

The job has a provider of its own in each run. An UPDATE by SQLAlchemy writes the
columns that changed: `Updated` keeps an `is_active` that the job does not change.

## The runs

| Run | Question | Expected |
| --- | --- | --- |
| `engine_callers` | do two concurrent evaluations that do not lock the pair record each state once? | pass |
| `engine_pollers` | two pollers, overlapping refreshes, crashes: is a first alert ever withheld, or any without reason, and is there ever anything for the unique key to refuse? | pass |
| `engine_rollback` | the same question as `engine_pollers`, with failed batches | violation |
| `engine_refresh` | are cooldowns kept by one poller whose refreshes overlap its batches? | violation |
| `outbox` | is what is recorded as sent accepted, are duplicates accounted for, and is a healthy event sent behind a batch of broken ones? | pass |
| `pipeline` | one poller with batches of two pairs, the publisher, crashes of both: are cooldowns kept, is what reaches SNS recorded, sent once but for a crash, and a cooldown apart? | pass |
| `queue_safety` | two pollers, all faults: is any message deleted too early, or any pair sent too early? | pass |
| `queue_live` | is an active pair polled for ever beside one without a quote, does every message leave, and is none sent while an earlier one is still delayed? | pass |
| `index_sync` | lost announcements, a deaf listener, rebuilds that overtake each other, crashes, two requests at a time: how long is an edit missing, does it stay, and does a request take back what another committed? | pass |
| `backtest_live` | does a backtest find what the live engine recorded, for thresholds and percentages, where neither is given a rounded value? | pass |
| `backtest_zscore` | the same question for z-scores | violation |
| `pair_registry` | concurrent POSTs and the job: do answers stay true, do activity and volume agree, is anyone stuck? | pass |

`engine_callers` is `evaluate_rules_for_pair` called on its own, as in
`tests/test_idempotency_redelivery.py:132`; there the unique key of `notifications`
decides. Within `process_batch` the flush of the pair's row takes its lock before
the evaluation reads anything, and holds it to the end of the transaction:
`PairLockOrders` says that then no INSERT meets a row with its key, committed or
not, and that no UPDATE of a rule waits for another poller.

Bounds. The clock runs over 4 instants and a minute has 2 of them, so there are
two minute buckets, fires in the same and in different ones, and the cooldown
(2 ticks) ends inside the run, at its boundary and beyond. Two pollers make
every race between a pair of transactions.

`pipeline` has two rules in two pairs, for batches with several pairs and commits with
several events, and 3 instants, which is a fire in each of two minutes and a
cooldown of each length that ends; its publisher takes both events in a tick, and one
fault is enough for it to die with the answer of SNS not yet committed. Refusals,
lost answers and failed ticks of the publisher are in `outbox`, failed batches in
`engine_callers`; with two rules, two pairs and all of them the run grows beyond what
is checked in minutes, and the theorems about the pipeline hold for all of them.
The publisher of `outbox` has two events that SNS always refuses, a batch of two,
which they fill, and a third event behind them; at most two faults, enough for a
duplicate of a duplicate; refusals are not bounded.

`queue_safety` has one pair with two messages, the fewest for a batch with two
messages of a pair, and two pollers that take a message from
each other when its visibility ends; its interval is two seconds, a second longer
than a transaction may take (`MaxLag`), so that a claim is worth something, and two
faults may come, enough for a second one while the first is being repaired.
`queue_live` needs two pairs, one that the Ticker call never returns, and has one
poller, as deployed; there a transaction takes no time, and one fault may come.

`index_sync` has one rule, which is created, disabled and enabled again without
bound, by two requests at a time, so that one commits between the read and the commit of
the other; one poller, since pollers share nothing but the table; and one rebuild that
may fail. A refresh comes every two ticks and an evaluation takes at most one. A rebuild
takes no tick (`MaxRebuild` is 0), but other steps come between its read and its install:
commits, announcements, and the whole of another rebuild that overtakes it. With a tick
for it and two requests the run is too large; the theorem `EditsReachPollers` has any
length. `MaxRebuild` and `MaxEval` bound what the code does not: `Freshness` promises
no more than they allow.
`backtest_live` has four rows, two time units apart, in minutes of four, so that fires
share a minute, and a cooldown of four is met at its end and inside. A price is exact or
rounds to the price of another. Of three thresholds one is saved as another; a price fires
one, two or none. One `percent_change` rule looks back to between two rows, which may be
older than the rule, and one looks ahead. Dropping any condition of `Comparable` but the
first makes TLC find `ReplayIsLive` violated here, so all these cases do happen; the first
is what `backtest_zscore` shows, whose quotes and rule are not rounded. That run has the
shortest window that has a variance.
`pair_registry` has a name whose volume moves across both floors and off the
market, one that never moves, and two requests, for the same name or for two.

What the violations show:

- `engine_rollback`: a batch fires a rule and fails; the message is redelivered
  and the fire is `suppressed_cooldown`, because of a fire that was rolled back.
- `engine_refresh`: a rebuild reads the rules, a batch fires one and commits, the
  rebuild installs what it read, and the next batch alerts again.
- `backtest_zscore`: the live rule is quiet at a quiet minute; the market jumps; a
  backtest of the same rule over the same rows fires at the quiet minute, since
  `_fetch_recent_prices` gives it the prices of now.

Two sentences of the documents are not checked as they stand. "Exactly one SNS publish
per detected state" (`Concert_Ticket_Price_Alert_PRD.md:140`) cannot hold when the
publisher dies between the answer of SNS and its commit; `DuplicatesNeedFault` and
`OneAlertPerState` say how many there can be. And messages of one pair do pile up when
its interval is shorter than the longest delay of a message, which grows with the default interval that
`scheduler.py:65` spreads over, and the time of a transaction: POST /pairs accepts
such an interval. `NoneWaiting` is about the others.

Fairness is assumed in four runs.

- `outbox`: weak fairness of time and of the publisher's own steps, since the
  process runs in an endless loop and docker restarts it
  (`restart: unless-stopped`). Strong fairness of the acceptance of an event that
  is not broken: SNS does not refuse for ever what is tried for ever.
- `queue_live`: weak fairness of time, of the scheduler (a tick goes on, or fails) and
  of each poller, for the same reason. Strong fairness of the receipt of each message:
  one that becomes visible again and again is handed out in the end. No fault has to
  happen.
- `index_sync`: weak fairness of time, of the steps of `main` and of the rebuilds (a
  query is answered in the end), and of the end of an evaluation. None of the API, of
  Redis, or of the listener: the periodic refresh alone makes edits stand.
- `pair_registry`: weak fairness of the discovery job, which is "intended to run on a
  daily schedule" (the repository's `README.md:119`), of the provider and of each
  request: Kraken and Postgres answer or fail. A client need not post.

Faults that lose a tick, a batch or a rebuild are bounded in all of them (crashes are
not in `index_sync`); without that, nothing could be promised.

## The proofs

All theorems rest on the assumptions on the constants in the modules
(`EngineAssumption`, `PublisherAssumption`, `PipelineAssumption`, `QueueAssumption`,
`SyncAssumption`, `ProviderAssumption`, `RegistryAssumption`, `MatchingAssumption`,
`BacktestAssumption`, `LevelAssumption`), and on nothing else unless the theorem says so.

- `AlertEngineProofs`: after the types (`TypeCorrect`), the inductive invariant
  `IInv`: the three invariants of the tables, and for each poller that its
  uncommitted rows have keys no other poller's and no committed row has, that its
  outbox rows are its pending rows, and that it has recorded what it matched
  except for its candidates. The tables alone are not inductive: what a commit
  adds is only as good as what the transaction held. From it follow
  `DetectedStateUnique`, `OutboxMatches`, `LastFiredRecorded`, `NoFireLost` and
  `ImplementsLedger`.
- `LockInv`, when the callers lock the pair (`CallerLocksPair`): what a poller
  has read, written and updated belongs to pairs whose rows it locks, and no two
  pollers lock the same row, so what its SELECT did not find stays unrecorded.
  `LockOrders`.
- `MInv`, assuming that no batch fails, says of each poller that what its memory
  believes of a rule is backed by a committed row or one of its own, and that its
  pending decision is justified: `FirstFire` and `Justified`. `engine_rollback`
  shows that the assumption is needed.
- `CooldownProofs`, for one poller whose rebuilds do not overlap its batches:
  `CInv` adds that memory is never behind the rows (`Ahead`), which failed
  batches only push further ahead. `CooldownKept`, `LastFiredLatest`.
  `engine_refresh` shows that the assumption on rebuilds is needed.
- `OutboxProofs`: `OInv` counts, for each event, the messages SNS accepted: at
  most one for each fault, and one more while the tick or the table keeps the
  outcome. `SentAccepted`, `DuplicatesFromFaults`, `PublishedIsFinal`,
  `PublisherImplementsLedger`.
- `AlertPipelineProofs`: the joint invariant `PInv` is that the pollers' outbox is the
  stored rows, and that only stored rows are accepted, next to the components' own
  invariants. Every step of the pipeline is a step of `AlertEngine` or leaves it alone,
  and likewise for `OutboxPublisher` (`PipelineIsEngine`, `PipelineIsPublisher`), so
  all theorems about either hold of the two together. From both follow
  `PipelineTypeCorrect`, `AlertsUnique`, `RecordedBeforeSent` and, under the
  assumptions of `CooldownProofs`, `SentApart`; and `ImplementsWhole`, that the
  pipeline implements `AlertLedger`: a commit records states, a tick's commit sends
  owed ones, and nothing else changes what the ledger sees. Either component
  implements only its half of the ledger.
- `PollQueueProofs`: `HeldInv` says of each poller that its gone messages belong to
  removed pairs and that, once it deletes, the messages of its pairs are served;
  an id that is held is not used again, so it survives what other pollers do to
  those messages. `NoMessageLost`. `ClaimInv` says that the time since a pair was
  sent and the time until it is due make up its interval, less `MaxLag`, unless its
  claim was lost or is not committed yet. `ClaimIsKept`. `WaitInv` adds that a
  message that still waits out its delay was sent no longer ago than the window less
  what it has to wait; with `ClaimInv` this gives `NoMessagePilesUp`: a pair can be due
  again earlier than its interval by the time a transaction takes, so the interval
  has to cover that time and the longest delay.
- `RuleIndexSyncProofs`: the types are not enough, since the age of an index is bounded
  by what the refresh timer has used up. `AgeInv` bounds the age of what an index, each
  rebuild in flight and each evaluation holds, by the timer, the time that rebuild has
  left and one refresh with its rebuild for each failure so far; and each of them is
  the table of its age, `UpToDate` or not. `EditsReachPollers`. `RulesStayComplete`
  needs that a handler read a complete row and writes only the columns that differ;
  `NoEditTakenBack`, that what a request writes differs from what it read only where it
  was asked to.
- `PairRegistryProofs`: `IInv` adds `SeenStands` to the properties of the table: what the
  discovery job has read is still in the table, because requests only insert and there
  is one job. `AnswersStand`, `ActivityFits`, and `Converging` as an action property.
- `BacktestProofs` first shows that every finite set of rules has a sorted sequence (each
  rule goes where the number of those before it says, since an induction is out of
  reach), so that the scan that stops early finds all rules that fire (`ScanBelow`,
  `ScanAbove`); that whether a rule fires depends on no other rule (`CandidateOf`) and
  on no later row, for rules that look back (`FiresStays`); and that the last return and the
  baseline of a score lie within the newest `Window + 2` levels (`ScoreOfNewest`).
  `ReplayIsLive` alone says nothing of the rows a replay has yet to
  reach. `IInv` adds `LiveInv`, that the fires of the live engine up to each row are the
  verdict on the quote of that row, the stored rows and the fires before it; `RowsInv`, that
  a row is its quote rounded; and `SegmentInv`, that a replay walks along rows that lie
  together in the history. A replay that begins at the first row the rule was live for, by
  the rule as it was saved and over rows that are their own quotes, then makes the same
  verdicts on the same fires. `BacktestIsLive`. `WindowIsEnough`, if
  `MinObservations <= Window`: with more observations than the window holds, the code
  would never score at all.

Only model-checked: `EventuallySent`, `PolledForever`, `MessagesLeave`, `EditsStand`,
`FollowsMarket` and `EveryPostAnswered`, since liveness under fairness is out of the
prover's reach.

## Not modelled, and the plan

Not modelled for good: the rounding of floating-point numbers
(`workers/zscore_filter.py`); numbers too large for their column, which the database
refuses; the two decimals of `notional_24h` (`db/models.py:30`), while discovery compares
the floors with the unrounded volume, so that `ActiveFitsVolume` may be off by half a cent at
a floor; HTTP and decoding, the spellings of a symbol that
`resolve_pair` accepts, the read-only alerts query, the provisioning and measurement
scripts, migrations. Deletes are not: no endpoint deletes, and `PollQueue` alone lets
rows vanish, because the poller handles it.

Every safety property that a passing run checks is proved. What could be added: the
error of a whole Ticker request that names a delisted pair, once it is known what Kraken
answers to it.
