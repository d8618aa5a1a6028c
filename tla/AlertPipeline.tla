--------------------------- MODULE AlertPipeline ---------------------------
(***************************************************************************)
(* The way of an alert from a price to SNS: the pollers of AlertEngine and *)
(* the publisher of OutboxPublisher, over one table outbox_events.         *)
(*                                                                         *)
(* The two are separate processes (docker-compose.yml).  They share no     *)
(* more than that table, and the status of a notification, which the       *)
(* publisher sets and no poller reads.  A poller's commit is the one step  *)
(* of both: its notifications and its events appear together.  The table   *)
(* is "outbox" to the pollers and "row" to the publisher.                  *)
(*                                                                         *)
(* The clock of the pollers and the seconds of the publisher run freely:   *)
(* nothing relates how fast prices come to how fast SNS answers.           *)
(***************************************************************************)
EXTENDS AlertEngine, OutboxPublisher

\* The alerts that can ever be owed while the clock runs.
Alerts ==
    {[rule |-> r, price |-> x, minute |-> t \div MinuteLength, at |-> t,
      status |-> "pending"] : r \in Rules, x \in Prices, t \in 0 .. MaxTime}

ASSUME PipelineAssumption == Events = Alerts

pipelineVars == <<vars, publisherVars>>

PipelineInit == Init /\ PublisherInit

-----------------------------------------------------------------------------
\* Mutant of CommitBatch: the events are written in a transaction of their
\* own, which a crash prevents.
CommitWithoutEvents(p) == Commit(p) /\ UNCHANGED publisherVars

\* The commit of process_batch: notifications and outbox events together.
CommitBatch(p) == Commit(p) /\ Store(tx[p].outbox)

\* Mutant of EngineStep: an event is in the table before its transaction
\* commits.
EngineStepAutocommits(p) ==
    \/ /\ Process(p) \/ ReceiveBatch(p) \/ BeginPair(p) \/ FlushPair(p)
          \/ EndPair(p) \/ Rollback(p)
       /\ UNCHANGED publisherVars
    \/ Evaluate(p) /\ Store(tx'[p].outbox \ tx[p].outbox)

\* Whatever else a poller does, the publisher does not see.
EngineStep(p) ==
    /\ \/ Process(p) \/ Evaluate(p)
       \/ ReceiveBatch(p) \/ BeginPair(p) \/ FlushPair(p) \/ EndPair(p) \/ Rollback(p)
    /\ UNCHANGED publisherVars

\* The publisher reads and writes its columns of the table, and the pollers
\* read none of them.
PublisherStep == (Second \/ Run \/ Fail \/ PublisherCrash) /\ UNCHANGED vars

PipelineNext ==
    \/ Tick /\ UNCHANGED publisherVars
    \/ \E p \in Pollers : EngineStep(p) \/ CommitBatch(p)
    \/ PublisherStep

PipelineSpec == PipelineInit /\ [][PipelineNext]_pipelineVars

-----------------------------------------------------------------------------
(* Properties.                                                             *)

\* Both processes keep their types over the shared table: what the pollers
\* committed is what the publisher finds, and every event of an open
\* transaction will have its row.
PipelineTypeOK ==
    /\ TypeOK
    /\ PublisherTypeOK
    /\ outbox = Stored
    /\ \A p \in Pollers : tx[p].outbox \subseteq Events \ Stored

\* SNS hears of a detected state (a rule, a price, a minute) through one
\* event, and more than once only for a fault of the publisher, however often
\* messages are redelivered and batches fail: "exactly one SNS publish per
\* detected state" (Concert_Ticket_Price_Alert_PRD.md:140), as far as it goes.
OneAlertPerState ==
    \A e, f \in Events :
        KeyOf(e) = KeyOf(f) /\ accepted[e] > 0 /\ accepted[f] > 0 =>
            e = f /\ accepted[e] <= 1 + (MaxFaults - faults)

\* SNS never hears of a fire that was rolled back, is not yet committed or was
\* suppressed: the durable-outbox pattern (workers/outbox_publisher.py:3-6).
OnlyRecordedIsSent ==
    \A e \in Events : accepted[e] > 0 => e \in notifications

\* The alerts of one rule that reach SNS were observed a cooldown apart ("no
\* alert spam during a sustained move", README.md).  For one poller whose
\* rebuilds do not overlap its batches.
SentAlertsApart ==
    \A e, f \in Events :
        /\ accepted[e] > 0 /\ accepted[f] > 0
        /\ e # f /\ e.rule = f.rule /\ e.at <= f.at
        => f.at - e.at >= Cooldown[e.rule]

\* The pollers and the publisher together implement the whole of AlertLedger.
Whole == INSTANCE AlertLedger WITH
    States <- [rule : Rules, price : Prices, minute : Nat],
    owed <- KeysOf(Stored),
    withheld <- KeysOf({n \in notifications : n.status = "suppressed_cooldown"}),
    sent <- KeysOf({e \in Events : status[e] = "sent"})

\* Every step of the pipeline records detected states or sends alerts that are
\* owed, as AlertLedger allows: each decision stands, an alert that was
\* withheld is never sent, and what was sent stays sent.
WholeSpec == Whole!Spec
=============================================================================
