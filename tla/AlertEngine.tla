---------------------------- MODULE AlertEngine ----------------------------
(***************************************************************************)
(* Poller processes that turn price observations into notifications and    *)
(* outbox events (workers/poller.py process_batch and rules/evaluator.py   *)
(* evaluate_rules_for_pair), over the tables they share in Postgres and    *)
(* the rule index each process keeps in memory (workers/rule_index.py).    *)
(*                                                                         *)
(* A step ends where the code awaits: at every SELECT, INSERT, UPDATE and  *)
(* COMMIT another poller, or a refresh task of the same event loop, runs.  *)
(*                                                                         *)
(* Abstracted.  Which rules match an observation is left open: any subset  *)
(* of the pair's rules may.  Any batch of pairs may be received at any     *)
(* time, which covers redelivered and duplicate messages.  A Ticker call   *)
(* that fails ends the batch before anything is written, so it is not a    *)
(* step.  Rules are neither created nor changed here.                      *)
(***************************************************************************)
EXTENDS Integers, FiniteSets

CONSTANTS
    Pollers,          \* poller processes (docker-compose.yml starts one)
    Refreshers,       \* tasks that rebuild a process's index: a set of names
    Pairs,
    Rules,            \* enabled rules
    PairOf,           \* the pair each rule watches
    Cooldown,         \* cooldown_seconds of each rule
    Prices,
    MinuteLength,     \* length of the minute bucket, in clock units
    MaxTime,          \* bound on the clock
    CallerLocksPair,  \* TRUE: the caller is process_batch, whose flushed
                      \* UPDATE of the pair locks its row until the commit.
                      \* FALSE: evaluate_rules_for_pair is called by itself
                      \* (tests/test_idempotency_redelivery.py:132-140)
    RefreshOverlaps,  \* may a rebuild of the index overlap a batch?
    Faults            \* which of "rollback" and "crash" may happen

NeverFired == -1      \* last_fired_at IS NULL

ASSUME EngineAssumption ==
    /\ PairOf \in [Rules -> Pairs]
    /\ Cooldown \in [Rules -> Nat]
    /\ MinuteLength \in Nat \ {0}
    /\ MaxTime \in Nat
    /\ CallerLocksPair \in BOOLEAN
    /\ RefreshOverlaps \in BOOLEAN
    /\ Faults \subseteq {"rollback", "crash"}

FiredAt == Nat \cup {NeverFired}
LastFired == [Rules -> FiredAt]
Status == {"pending", "suppressed_cooldown"}

\* A row of the notifications table.  "at" is the observed_at of the
\* evaluation that wrote it.
Note == [rule : Rules, price : Prices, minute : Nat, at : Nat, status : Status]

\* The rebuild of one task: the rules it has read and not yet installed.
Rebuild == [task : Refreshers, rules : LastFired]

VARIABLES
    now,            \* the clock
    notifications,  \* committed notifications
    outbox,         \* committed outbox events, each by its notification
    lastFired,      \* committed alert_rules.last_fired_at
    pc,             \* what each poller is doing
    index,          \* last_fired_at in each poller's index of rules
    rebuilds,       \* the rebuilds in flight in each poller
    ev,             \* the evaluation under way in each poller
    tx              \* the open transaction of each poller

db == <<notifications, outbox, lastFired>>
vars == <<now, notifications, outbox, lastFired, pc, index, rebuilds, ev, tx>>

Evaluating == {"rules", "insert", "update"}
InTx == {"batch", "flush"} \cup Evaluating

NoRules == [r \in Rules |-> NeverFired]

\* A transaction: the pairs whose rows it locks, its uncommitted rows, the
\* rules it updated.  "matched" is auxiliary: every state matched in it.
EmptyTx ==
    [pairs |-> {}, notes |-> {}, outbox |-> {}, fired |-> {}, matched |-> {}]

\* An evaluation.
\*   todo   pairs of the batch still to evaluate
\*   at     observed_at of the batch
\*   pair, price  the observation being evaluated
\*   cands  candidates not yet looked at
\*   rule, suppressed  the candidate being recorded and the decision on it
\*   held   the rule objects taken from the index for this pair
\*   live   whether the index still holds those same objects
Idle == [todo |-> {}, at |-> 0, pair |-> {}, price |-> {}, cands |-> {},
         rule |-> {}, suppressed |-> FALSE, held |-> NoRules, live |-> FALSE]

Evaluation ==
    [todo : SUBSET Pairs, at : Nat, pair : Pairs \cup {{}},
     price : Prices \cup {{}}, cands : SUBSET Rules, rule : Rules \cup {{}},
     suppressed : BOOLEAN, held : LastFired, live : BOOLEAN]

Transaction ==
    [pairs : SUBSET Pairs, notes : SUBSET Note, outbox : SUBSET Note,
     fired : SUBSET Rules,
     matched : SUBSET [rule : Rules, price : Prices, minute : Nat]]

-----------------------------------------------------------------------------
KeyOf(n) == [rule |-> n.rule, price |-> n.price, minute |-> n.minute]

\* The idempotency key: the rule's parameters are fixed here, so the rule,
\* the price and the minute identify the detected state.
StateKey(r, price, t) ==
    [rule |-> r, price |-> price, minute |-> t \div MinuteLength]

KeysOf(notes) == {KeyOf(n) : n \in notes}
RulesOf(pair) == {r \in Rules : PairOf[r] = pair}
CurrentKey(p) == StateKey(ev[p].rule, ev[p].price, ev[p].at)

\* Mutants of the next operator: NULL read as a time, <= for <.
InCooldownNullIsTime(last, r, t) == Cooldown[r] > 0 /\ t - last < Cooldown[r]
InCooldownInclusive(last, r, t) ==
    last # NeverFired /\ Cooldown[r] > 0 /\ t - last <= Cooldown[r]

\* _in_cooldown.
InCooldown(last, r, t) ==
    /\ last # NeverFired
    /\ Cooldown[r] > 0
    /\ t - last < Cooldown[r]

\* The row the evaluation is about to insert.
NewNote(p) ==
    [rule |-> ev[p].rule, price |-> ev[p].price,
     minute |-> ev[p].at \div MinuteLength, at |-> ev[p].at,
     status |-> IF ev[p].suppressed THEN "suppressed_cooldown" ELSE "pending"]

Init ==
    /\ now = 0
    /\ notifications = {}
    /\ outbox = {}
    /\ lastFired = NoRules
    /\ pc = [p \in Pollers |-> "down"]
    /\ index = [p \in Pollers |-> NoRules]
    /\ rebuilds = [p \in Pollers |-> {}]
    /\ ev = [p \in Pollers |-> Idle]
    /\ tx = [p \in Pollers |-> EmptyTx]

Tick ==
    /\ now < MaxTime
    /\ now' = now + 1
    /\ UNCHANGED <<db, pc, index, rebuilds, ev, tx>>

-----------------------------------------------------------------------------
(* The process and its index.                                              *)

\* main: the first rebuild completes before any message is taken.
Start(p) ==
    /\ pc[p] = "down"
    /\ pc' = [pc EXCEPT ![p] = "idle"]
    /\ index' = [index EXCEPT ![p] = lastFired]
    /\ UNCHANGED <<now, db, rebuilds, ev, tx>>

\* RuleIndex.rebuild up to its await: the SELECT reads committed rows only.
Load(p) == \E task \in Refreshers :
    /\ pc[p] # "down"
    /\ RefreshOverlaps \/ pc[p] = "idle"
    /\ \A b \in rebuilds[p] : b.task # task
    /\ rebuilds' = [rebuilds EXCEPT ![p] =
                      @ \cup {[task |-> task, rules |-> lastFired]}]
    /\ UNCHANGED <<now, db, pc, index, ev, tx>>

\* The rest of it: the reference swap.  An evaluation under way goes on
\* with the objects it took from the old index.
Swap(p) == \E b \in rebuilds[p] :
    /\ index' = [index EXCEPT ![p] = b.rules]
    /\ rebuilds' = [rebuilds EXCEPT ![p] = @ \ {b}]
    /\ ev' = [ev EXCEPT ![p].live = FALSE]
    /\ UNCHANGED <<now, db, pc, tx>>

-----------------------------------------------------------------------------
(* process_batch                                                           *)

\* The batch has its quotes, and observed_at is taken.
ReceiveBatch(p) == \E batch \in SUBSET Pairs \ {{}} :
    /\ pc[p] = "idle"
    /\ RefreshOverlaps \/ rebuilds[p] = {}
    /\ pc' = [pc EXCEPT ![p] = "batch"]
    /\ ev' = [ev EXCEPT ![p] = [Idle EXCEPT !.todo = batch, !.at = now]]
    /\ UNCHANGED <<now, db, index, rebuilds, tx>>

\* The next pair: its rules are taken from the index and matched against
\* the quote.
Match(p, pair, price, matched) ==
    /\ ev' = [ev EXCEPT ![p] = [Idle EXCEPT
                !.todo = ev[p].todo \ {pair}, !.at = ev[p].at,
                !.pair = pair, !.price = price, !.cands = matched,
                !.held = index[p], !.live = TRUE]]
    /\ tx' = [tx EXCEPT ![p].matched =
                @ \cup {StateKey(r, price, ev[p].at) : r \in matched}]

BeginPair(p) ==
    /\ pc[p] = "batch"
    /\ \E pair \in ev[p].todo, price \in Prices :
            \E matched \in SUBSET RulesOf(pair) : Match(p, pair, price, matched)
    /\ pc' = [pc EXCEPT ![p] = IF CallerLocksPair THEN "flush" ELSE "rules"]
    /\ UNCHANGED <<now, db, index, rebuilds>>

\* Mutant of the next action: the flush waits for nobody.
FlushWithoutWaiting(p) ==
    /\ pc[p] = "flush"
    /\ pc' = [pc EXCEPT ![p] = "rules"]
    /\ tx' = [tx EXCEPT ![p].pairs = @ \cup {ev[p].pair}]
    /\ UNCHANGED <<now, db, index, rebuilds, ev>>

\* The first query of the evaluation flushes the pair's new price and
\* last_checked_at: the UPDATE waits for another transaction that did so.
FlushPair(p) ==
    /\ pc[p] = "flush"
    /\ \A q \in Pollers \ {p} : ev[p].pair \notin tx[q].pairs
    /\ pc' = [pc EXCEPT ![p] = "rules"]
    /\ tx' = [tx EXCEPT ![p].pairs = @ \cup {ev[p].pair}]
    /\ UNCHANGED <<now, db, index, rebuilds, ev>>

EndPair(p) ==
    /\ pc[p] = "rules"
    /\ ev[p].cands = {}
    /\ pc' = [pc EXCEPT ![p] = "batch"]
    /\ ev' = [ev EXCEPT ![p] =
                [Idle EXCEPT !.todo = ev[p].todo, !.at = ev[p].at]]
    /\ UNCHANGED <<now, db, index, rebuilds, tx>>

\* The one commit of the batch.  Where two transactions set last_fired_at
\* of a rule, the later commit decides.
Commit(p) ==
    /\ pc[p] = "batch"
    /\ ev[p].todo = {}
    /\ notifications' = notifications \cup tx[p].notes
    /\ outbox' = outbox \cup tx[p].outbox
    /\ lastFired' = [r \in Rules |-> IF r \in tx[p].fired
                                     THEN ev[p].at ELSE lastFired[r]]
    /\ pc' = [pc EXCEPT ![p] = "idle"]
    /\ ev' = [ev EXCEPT ![p] = Idle]
    /\ tx' = [tx EXCEPT ![p] = EmptyTx]
    /\ UNCHANGED <<now, index, rebuilds>>

\* Mutant of Rollback: the session, and what it wrote, is kept.
RollbackKeepsSession(p) ==
    /\ "rollback" \in Faults
    /\ pc[p] \in InTx
    /\ pc' = [pc EXCEPT ![p] = "idle"]
    /\ ev' = [ev EXCEPT ![p] = Idle]
    /\ UNCHANGED <<now, db, index, rebuilds, tx>>

\* Anything raised in the batch, the commit included, is logged by
\* run_forever and the session is closed: the transaction is gone, the rule
\* objects in memory keep what was assigned to them.
Rollback(p) ==
    /\ "rollback" \in Faults
    /\ pc[p] \in InTx
    /\ pc' = [pc EXCEPT ![p] = "idle"]
    /\ ev' = [ev EXCEPT ![p] = Idle]
    /\ tx' = [tx EXCEPT ![p] = EmptyTx]
    /\ UNCHANGED <<now, db, index, rebuilds>>

\* The process dies, and its memory and its transaction with it.
Crash(p) ==
    /\ "crash" \in Faults
    /\ pc[p] # "down"
    /\ pc' = [pc EXCEPT ![p] = "down"]
    /\ index' = [index EXCEPT ![p] = NoRules]
    /\ rebuilds' = [rebuilds EXCEPT ![p] = {}]
    /\ ev' = [ev EXCEPT ![p] = Idle]
    /\ tx' = [tx EXCEPT ![p] = EmptyTx]
    /\ UNCHANGED <<now, db>>

-----------------------------------------------------------------------------
(* evaluate_rules_for_pair, the loop over the candidates                   *)

\* The SELECT by idempotency key: it sees committed rows and its own.
Recorded(p, r) ==
    StateKey(r, ev[p].price, ev[p].at) \in KeysOf(notifications \cup tx[p].notes)

SkipRecorded(p) == \E r \in ev[p].cands :
    /\ pc[p] = "rules"
    /\ Recorded(p, r)
    /\ ev' = [ev EXCEPT ![p].cands = @ \ {r}]
    /\ UNCHANGED <<now, db, pc, index, rebuilds, tx>>

\* The state is new: the rule object in memory decides on the cooldown.
DecideCooldown(p) == \E r \in ev[p].cands :
    /\ pc[p] = "rules"
    /\ ~ Recorded(p, r)
    /\ pc' = [pc EXCEPT ![p] = "insert"]
    /\ ev' = [ev EXCEPT ![p].cands = @ \ {r}, ![p].rule = r,
                ![p].suppressed = InCooldown(ev[p].held[r], r, ev[p].at)]
    /\ UNCHANGED <<now, db, index, rebuilds, tx>>

\* An INSERT waits while another transaction holds the same key uncommitted.
KeyFree(p) == \A q \in Pollers \ {p} : CurrentKey(p) \notin KeysOf(tx[q].notes)

\* Mutants of InsertConflict: the loop does not "continue"; the key of a row
\* that is not committed counts as a conflict.
ConflictStillFires(p) ==
    /\ pc[p] = "insert"
    /\ KeyFree(p)
    /\ CurrentKey(p) \in KeysOf(notifications)
    /\ pc' = [pc EXCEPT ![p] = "update"]
    /\ UNCHANGED <<now, db, index, rebuilds, ev, tx>>
ConflictWithUncommitted(p) ==
    /\ pc[p] = "insert"
    /\ CurrentKey(p) \in KeysOf(notifications) \/ ~ KeyFree(p)
    /\ pc' = [pc EXCEPT ![p] = "rules"]
    /\ ev' = [ev EXCEPT ![p].suppressed = FALSE, ![p].rule = {}]
    /\ UNCHANGED <<now, db, index, rebuilds, tx>>

\* The unique constraint on idempotency_key fails the INSERT: the SAVEPOINT
\* is rolled back and the loop goes on.
InsertConflict(p) ==
    /\ pc[p] = "insert"
    /\ KeyFree(p)
    /\ CurrentKey(p) \in KeysOf(notifications)
    /\ pc' = [pc EXCEPT ![p] = "rules"]
    /\ ev' = [ev EXCEPT ![p].suppressed = FALSE, ![p].rule = {}]
    /\ UNCHANGED <<now, db, index, rebuilds, tx>>

\* Mutants of InsertNotification: no unique constraint; an event for a
\* suppressed notification too; last_fired_at not assigned in memory.
InsertWithoutConstraint(p) ==
    /\ pc[p] = "insert"
    /\ pc' = [pc EXCEPT ![p] = "update"]
    /\ tx' = [tx EXCEPT
                ![p].notes = @ \cup {NewNote(p)},
                ![p].outbox = @ \cup (IF ev[p].suppressed THEN {} ELSE {NewNote(p)})]
    /\ ev' = [ev EXCEPT ![p].held[ev[p].rule] = ev[p].at]
    /\ index' = IF ev[p].live THEN [index EXCEPT ![p][ev[p].rule] = ev[p].at]
                              ELSE index
    /\ UNCHANGED <<now, db, rebuilds>>
InsertAlwaysQueues(p) ==
    /\ pc[p] = "insert"
    /\ KeyFree(p)
    /\ CurrentKey(p) \notin KeysOf(notifications)
    /\ pc' = [pc EXCEPT ![p] = "update"]
    /\ tx' = [tx EXCEPT
                ![p].notes = @ \cup {NewNote(p)},
                ![p].outbox = @ \cup {NewNote(p)}]
    /\ ev' = [ev EXCEPT ![p].held[ev[p].rule] = ev[p].at]
    /\ index' = IF ev[p].live THEN [index EXCEPT ![p][ev[p].rule] = ev[p].at]
                              ELSE index
    /\ UNCHANGED <<now, db, rebuilds>>
InsertKeepsMemory(p) ==
    /\ pc[p] = "insert"
    /\ KeyFree(p)
    /\ CurrentKey(p) \notin KeysOf(notifications)
    /\ pc' = [pc EXCEPT ![p] = "update"]
    /\ tx' = [tx EXCEPT
                ![p].notes = @ \cup {NewNote(p)},
                ![p].outbox = @ \cup (IF ev[p].suppressed THEN {} ELSE {NewNote(p)})]
    /\ UNCHANGED <<now, db, rebuilds, ev, index>>

\* The notification is inserted, its outbox event added unless suppressed,
\* and last_fired_at is assigned in memory: no await lies between these.
InsertNotification(p) ==
    /\ pc[p] = "insert"
    /\ KeyFree(p)
    /\ CurrentKey(p) \notin KeysOf(notifications)
    /\ pc' = [pc EXCEPT ![p] = "update"]
    /\ tx' = [tx EXCEPT
                ![p].notes = @ \cup {NewNote(p)},
                ![p].outbox = @ \cup (IF ev[p].suppressed THEN {} ELSE {NewNote(p)})]
    /\ ev' = [ev EXCEPT ![p].held[ev[p].rule] = ev[p].at]
    /\ index' = IF ev[p].live THEN [index EXCEPT ![p][ev[p].rule] = ev[p].at]
                              ELSE index
    /\ UNCHANGED <<now, db, rebuilds>>

\* Mutant of UpdateLastFired: it advances on a delivered fire only.
UpdateWhenDelivered(p) ==
    /\ pc[p] = "update"
    /\ \A q \in Pollers \ {p} : ev[p].rule \notin tx[q].fired
    /\ pc' = [pc EXCEPT ![p] = "rules"]
    /\ tx' = [tx EXCEPT ![p].fired = IF ev[p].suppressed THEN @ ELSE @ \cup {ev[p].rule}]
    /\ ev' = [ev EXCEPT ![p].suppressed = FALSE, ![p].rule = {}]
    /\ UNCHANGED <<now, db, index, rebuilds>>

\* UPDATE alert_rules: it waits for another transaction that updated the row.
UpdateLastFired(p) ==
    /\ pc[p] = "update"
    /\ \A q \in Pollers \ {p} : ev[p].rule \notin tx[q].fired
    /\ pc' = [pc EXCEPT ![p] = "rules"]
    /\ tx' = [tx EXCEPT ![p].fired = @ \cup {ev[p].rule}]
    /\ ev' = [ev EXCEPT ![p].suppressed = FALSE, ![p].rule = {}]
    /\ UNCHANGED <<now, db, index, rebuilds>>

-----------------------------------------------------------------------------
Batch(p) ==
    \/ ReceiveBatch(p) \/ BeginPair(p) \/ FlushPair(p) \/ EndPair(p)
    \/ Commit(p) \/ Rollback(p)

Evaluate(p) ==
    \/ SkipRecorded(p) \/ DecideCooldown(p) \/ InsertConflict(p)
    \/ InsertNotification(p) \/ UpdateLastFired(p)

Process(p) == Start(p) \/ Load(p) \/ Swap(p) \/ Crash(p)

Next == Tick \/ \E p \in Pollers : Process(p) \/ Batch(p) \/ Evaluate(p)

Spec == Init /\ [][Next]_vars

-----------------------------------------------------------------------------
(* Properties.                                                             *)

\* What each poller's pc says of the fields in use.
Placed(p) ==
    /\ pc[p] \in {"flush"} \cup Evaluating =>
            ev[p].pair \in Pairs /\ ev[p].price \in Prices
    /\ pc[p] \in {"insert", "update"} => ev[p].rule \in Rules
    /\ pc[p] \notin InTx => tx[p] = EmptyTx

\* The variables have their types, and a poller that is not in a batch has
\* no transaction open: a failed batch leaves nothing behind in the next.
TypeOK ==
    /\ now \in Nat
    /\ notifications \subseteq Note
    /\ outbox \subseteq Note
    /\ lastFired \in LastFired
    /\ pc \in [Pollers -> {"down", "idle"} \cup InTx]
    /\ index \in [Pollers -> LastFired]
    /\ DOMAIN rebuilds = Pollers
    /\ \A p \in Pollers : rebuilds[p] \subseteq Rebuild
    /\ ev \in [Pollers -> Evaluation]
    /\ tx \in [Pollers -> Transaction]
    /\ \A p \in Pollers : Placed(p)

\* No detected state has two notifications, though pollers that handle
\* redelivered messages check for one and insert one in separate steps
\* (rules/evaluator.py:39-42).
UniqueDetectedState ==
    \A m, n \in notifications : KeyOf(m) = KeyOf(n) => m = n

\* Exactly the notifications that are not suppressed have an outbox event,
\* at every moment the tables can be read (rules/evaluator.py:328-353).
OutboxMatchesNotifications ==
    outbox = {n \in notifications : n.status = "pending"}

\* A state that matched is never lost: when a batch commits, each state it
\* matched has a notification, whether this transaction wrote it, found it,
\* or ran into the unique key (tests/test_idempotency_redelivery.py:1-5).
MatchedIsRecorded ==
    [][\A p \in Pollers :
            Commit(p) => tx[p].matched \subseteq KeysOf(notifications')]_vars

\* last_fired_at in the database is the time of a recorded notification of
\* the rule, and is NULL exactly while the rule has none.
LastFiredIsRecorded ==
    \A r \in Rules :
        IF lastFired[r] = NeverFired
        THEN \A n \in notifications : n.rule # r
        ELSE \E n \in notifications : n.rule = r /\ n.at = lastFired[r]

\* last_fired_at "advances on every fire" (rules/evaluator.py:43-47): it is
\* the time of the rule's latest notification.  For one poller.
LastFiredIsLatest ==
    \A n \in notifications : n.at <= lastFired[n.rule]

\* Two alerts of one rule are never owed within its cooldown, across batches,
\* restarts and failed batches ("no alert spam during a sustained move",
\* README.md).  For one poller whose rebuilds do not overlap its batches.
CooldownRespected ==
    \A m, n \in outbox :
        m # n /\ m.rule = n.rule /\ m.at <= n.at => n.at - m.at >= Cooldown[m.rule]

\* The first fire of a rule is never suppressed (tests/test_cooldown.py:111):
\* a rule with notifications has one that was delivered.  Memory, not the
\* database, decides on the cooldown, so this needs what memory says of a
\* rule to be backed by a row.
FirstFireDelivers ==
    \A n \in notifications : \E m \in outbox : m.rule = n.rule

\* An alert is withheld only because of another recorded fire of the rule
\* less than a cooldown before it.
SuppressionJustified ==
    \A n \in notifications : n.status = "suppressed_cooldown" =>
        \E m \in notifications \ {n} :
            m.rule = n.rule /\ n.at - m.at < Cooldown[n.rule]

\* Within process_batch the lock on the pair's row orders the evaluations of
\* the pair: what the SELECT did not find stays unrecorded until the INSERT,
\* so the unique key of rules/evaluator.py:39-42 is a backstop that is never
\* reached, and neither the INSERT nor the UPDATE of the rule ever waits for
\* another poller: only the flush does.
PairLockOrders ==
    CallerLocksPair => \A p \in Pollers :
        /\ pc[p] = "insert" =>
                KeyFree(p) /\ CurrentKey(p) \notin KeysOf(notifications)
        /\ pc[p] = "update" =>
                \A q \in Pollers \ {p} : ev[p].rule \notin tx[q].fired

\* The pollers implement the recording of detected states.
Ledger == INSTANCE AlertLedger WITH
    States <- [rule : Rules, price : Prices, minute : Nat],
    owed <- KeysOf(outbox),
    withheld <- KeysOf({n \in notifications : n.status = "suppressed_cooldown"}),
    sent <- {}

\* Every step of the pollers records detected states as AlertLedger allows,
\* or changes none: a decision once recorded stands.
LedgerSpec == Ledger!Spec
=============================================================================
