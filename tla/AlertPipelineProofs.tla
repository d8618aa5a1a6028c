------------------------ MODULE AlertPipelineProofs ------------------------
(***************************************************************************)
(* What holds of the pollers and the publisher together, for every set of  *)
(* pollers, rules and prices, and every number of faults: the composition  *)
(* implements each of its components, so that their theorems hold of it,   *)
(* and what they say of the table outbox_events meets.                     *)
(***************************************************************************)
EXTENDS AlertPipeline, CooldownProofs, OutboxProofs

\* The clock and what is taken from it stay within their bound, so that every
\* alert a transaction owes is an event; the table of the two is the same;
\* and SNS has heard of stored events only.
Joint ==
    /\ now <= MaxTime
    /\ \A p \in Pollers : ev[p].at <= MaxTime /\ tx[p].outbox \subseteq Events
    /\ outbox = Stored
    /\ \A e \in Events : accepted[e] > 0 => row[e].stored

PInv == TypeOK /\ IInv /\ OInv /\ Joint

\* What the pollers do in the pipeline they do by themselves.
LEMMA EngineOfPipeline == [PipelineNext]_pipelineVars => [Next]_vars
BY DEF PipelineNext, pipelineVars, EngineStep, CommitBatch, PublisherStep, Next, Batch, vars

\* A step of the pipeline is one of the publisher, a commit included: the
\* rows it adds are events.
LEMMA PublisherOfPipeline ==
    Joint /\ [PipelineNext]_pipelineVars => [PublisherNext]_publisherVars
<1> SUFFICES ASSUME Joint, PipelineNext PROVE [PublisherNext]_publisherVars
    BY DEF pipelineVars
<1>1. ASSUME NEW p \in Pollers, CommitBatch(p) PROVE PublisherNext
    BY <1>1 DEF Joint, CommitBatch, PublisherNext
<1>2. QED
    BY <1>1 DEF PipelineNext, EngineStep, PublisherStep, PublisherNext

\* Time and rows of the pollers' steps stay within the bound of the clock.
LEMMA BoundStep ==
    ASSUME TypeOK, Joint, NEW p \in Pollers, Process(p) \/ Batch(p) \/ Evaluate(p)
    PROVE  /\ now' <= MaxTime
           /\ \A q \in Pollers : ev'[q].at <= MaxTime /\ tx'[q].outbox \subseteq Events
<1>1. Others(p) /\ now' = now
    BY OwnStep
<1>2. /\ ev[p].at <= MaxTime /\ tx[p].outbox \subseteq Events /\ now <= MaxTime
      /\ ev[p].at \in Nat /\ MaxTime \in Nat /\ now \in Nat
    BY EngineAssumption DEF Joint, TypeOK, Evaluation
<1>3. SUFFICES ev'[p].at <= MaxTime /\ tx'[p].outbox \subseteq Events
    BY <1>1 DEF Joint, Others
<1>4. CASE Start(p) \/ Load(p)
    BY <1>2, <1>4 DEF Start, Load
<1>5. CASE Swap(p)
    BY <1>2, <1>5, SwapShape DEF Swap, Same
<1>6. CASE Crash(p) \/ Commit(p) \/ Rollback(p)
    <2>1. ev'[p] = Idle /\ tx'[p] = EmptyTx
        BY <1>6, ResetShape DEF Crash, Commit, Rollback
    <2>2. QED
        BY <1>2, <2>1 DEF Idle, EmptyTx
<1>7. CASE ReceiveBatch(p)
    BY <1>2, <1>7, ReceiveShape DEF ReceiveBatch
<1>8. CASE BeginPair(p)
    <2>1. ev'[p].at = ev[p].at /\ tx'[p].outbox = tx[p].outbox
        BY <1>8, BeginShape
    <2>2. QED
        BY <1>2, <2>1
<1>9. CASE FlushPair(p)
    BY <1>2, <1>9, FlushShape DEF FlushPair
<1>10. CASE EndPair(p)
    BY <1>2, <1>10, EndShape DEF EndPair
<1>11. CASE SkipRecorded(p)
    BY <1>2, <1>11, SkipShape DEF SkipRecorded, Same
<1>12. CASE DecideCooldown(p)
    BY <1>2, <1>12, DecideShape DEF DecideCooldown, Same
<1>13. CASE InsertConflict(p)
    BY <1>2, <1>13, NextShape DEF InsertConflict, Same
<1>14. CASE InsertNotification(p)
    <2>1. /\ ev'[p].at = ev[p].at
          /\ tx'[p].outbox = tx[p].outbox \cup (IF ev[p].suppressed THEN {} ELSE {NewNote(p)})
        BY <1>14, InsertShape DEF Same
    <2>2. ev[p].rule \in Rules /\ ev[p].price \in Prices
        BY <1>14 DEF InsertNotification, TypeOK, Placed, Evaluating
    <2>3. ASSUME ~ ev[p].suppressed PROVE NewNote(p) \in Events
        BY <1>2, <2>2, <2>3, PipelineAssumption DEF NewNote, Alerts
    <2>4. QED
        BY <1>2, <2>1, <2>3
<1>15. CASE UpdateLastFired(p)
    BY <1>2, <1>15, UpdateShape, NextShape DEF UpdateLastFired, Same
<1>16. QED
    BY <1>4, <1>5, <1>6, <1>7, <1>8, <1>9, <1>10, <1>11, <1>12, <1>13, <1>14, <1>15
       DEF Process, Batch, Evaluate

\* Only a commit of a poller changes which events are stored.
LEMMA StoredKept ==
    ASSUME OInv, Second \/ Run \/ Fail \/ PublisherCrash
    PROVE  \A e \in Events : row'[e].stored = row[e].stored
<1>1. row \in [Events -> Row] /\ PublisherTypeOK
    BY DEF OInv, PublisherTypeOK
<1>2. CASE Second
    <2>1. row' = [e \in Events |-> [row[e] EXCEPT !.wait = Larger(@ - 1, 0)]]
        BY <1>2 DEF Second
    <2>2. QED
        BY ONLY <1>1, <2>1 DEF Row
<1>3. CASE CommitTick
    BY <1>1, <1>3, CommitShape
<1>4. CASE ~ Second /\ ~ CommitTick
    BY <1>4 DEF Run, SelectNothing, Select, Try, Publish, Refuse, LoseAck, Restart,
                Fail, PublisherCrash
<1>5. QED
    BY <1>2, <1>3, <1>4

\* SNS is given stored events only.
LEMMA AcceptedStored ==
    ASSUME OInv, Second \/ Run \/ Fail \/ PublisherCrash, NEW e \in Events,
           accepted'[e] > 0
    PROVE  accepted[e] > 0 \/ row[e].stored
<1>1. /\ accepted \in [Events -> Nat]
      /\ \A f \in pub.todo : row[f].stored
    BY DEF OInv, PublisherTypeOK
<1>2. ASSUME NEW f \in Events, Try(f) PROVE accepted'[e] = accepted[e] \/ row[e].stored
    BY <1>1, <1>2 DEF Try, Trying, Publish, Refuse, LoseAck
<1>3. CASE \A f \in Events : ~ Try(f)
    BY <1>3 DEF Run, Second, SelectNothing, Select, CommitTick, Restart, Fail, PublisherCrash
<1>4. QED
    BY <1>2, <1>3

\* Every step of the pipeline keeps the invariant.
LEMMA PInvStep == PInv /\ [PipelineNext]_pipelineVars => PInv'
<1> SUFFICES ASSUME PInv, [PipelineNext]_pipelineVars PROVE PInv'
    OBVIOUS
<1>1. TypeOK /\ IInv /\ OInv /\ Joint
    BY DEF PInv
<1>2. [Next]_vars /\ [PublisherNext]_publisherVars
    BY <1>1, EngineOfPipeline, PublisherOfPipeline
<1>3. TypeOK'
    BY <1>1, <1>2, TypeStep, TypeTick DEF Next
<1>4. IInv'
    BY <1>1, <1>2, IInvStep, IInvTick DEF Next
<1>5. OInv'
    BY <1>1, <1>2, OInvStep
<1>6. Joint'
    <2>1. CASE UNCHANGED pipelineVars
        BY <1>1, <2>1 DEF pipelineVars, vars, publisherVars, Joint, Stored
    <2>2. CASE Tick /\ UNCHANGED publisherVars
        <3>1. now' <= MaxTime
            BY <1>1, <2>2, EngineAssumption DEF Tick, TypeOK
        <3>2. QED
            BY <1>1, <2>2, <3>1 DEF Tick, db, publisherVars, Joint, Stored
    <2>3. ASSUME NEW p \in Pollers, EngineStep(p) PROVE Joint'
        <3>1. /\ now' <= MaxTime
              /\ \A q \in Pollers : ev'[q].at <= MaxTime /\ tx'[q].outbox \subseteq Events
            BY <1>1, <2>3, BoundStep DEF EngineStep, Batch
        <3>2. outbox' = outbox
            BY <2>3 DEF EngineStep, Process, Start, Load, Swap, Crash, Evaluate,
                        SkipRecorded, DecideCooldown, InsertConflict, InsertNotification,
                        UpdateLastFired, ReceiveBatch, BeginPair, FlushPair, EndPair,
                        Rollback, db
        <3>3. QED
            BY <1>1, <2>3, <3>1, <3>2 DEF EngineStep, publisherVars, Joint, Stored
    <2>4. ASSUME NEW p \in Pollers, CommitBatch(p) PROVE Joint'
        <3>1. /\ now' <= MaxTime
              /\ \A q \in Pollers : ev'[q].at <= MaxTime /\ tx'[q].outbox \subseteq Events
            BY <1>1, <2>4, BoundStep DEF CommitBatch, Batch
        <3>2. outbox' = outbox \cup tx[p].outbox /\ tx[p].outbox \subseteq Events
            BY <1>1, <2>4 DEF CommitBatch, Commit, Joint
        <3>3. /\ \A e \in tx[p].outbox : row'[e].stored
              /\ \A e \in Events \ tx[p].outbox : row'[e] = row[e]
              /\ accepted' = accepted
            <4>1. row \in [Events -> Row] /\ status \in [Events -> {"none", "pending", "sent"}]
                BY <1>1 DEF OInv, PublisherTypeOK
            <4>2. QED
                BY <2>4, <3>2, <4>1, StoreShape DEF CommitBatch, Store
        <3>4. Stored' = Stored \cup tx[p].outbox
            BY <3>2, <3>3 DEF Stored
        <3>5. QED
            BY <1>1, <3>1, <3>2, <3>3, <3>4 DEF Joint
    <2>5. CASE PublisherStep
        <3>1. \A e \in Events : row'[e].stored = row[e].stored
            BY <1>1, <2>5, StoredKept DEF PublisherStep
        <3>2. \A e \in Events : accepted'[e] > 0 => row'[e].stored
            BY <1>1, <2>5, <3>1, AcceptedStored DEF PublisherStep, Joint
        <3>3. Stored' = Stored
            BY <3>1 DEF Stored
        <3>4. QED
            BY <1>1, <2>5, <3>2, <3>3 DEF PublisherStep, vars, Joint
    <2>6. QED
        BY <2>1, <2>2, <2>3, <2>4, <2>5 DEF PipelineNext
<1>7. QED
    BY <1>3, <1>4, <1>5, <1>6 DEF PInv

\* At first nothing has happened anywhere.
LEMMA PInvInit == PipelineInit => PInv
<1> SUFFICES ASSUME PipelineInit PROVE PInv
    OBVIOUS
<1>1. TypeOK /\ IInv /\ OInv
    BY TypeInit, IInvInit, OInvInit DEF PipelineInit
<1>2. Stored = {} /\ \A e \in Events : accepted[e] = 0
    BY DEF PipelineInit, PublisherInit, Stored, NoRow
<1>3. Joint
    BY <1>2, EngineAssumption DEF PipelineInit, Init, Idle, EmptyTx, Joint
<1>4. QED
    BY <1>1, <1>3 DEF PInv

\* The inductive invariant of the pipeline: those of its components, and
\* what relates their tables.
THEOREM PipelineInvariance == PipelineSpec => []PInv
BY PInvInit, PInvStep, PTL DEF PipelineSpec

\* The pipeline implements the pollers of AlertEngine: whatever was proved of
\* them holds in it.
THEOREM PipelineIsEngine == PipelineSpec => Spec
<1>1. PipelineInit => Init
    BY DEF PipelineInit
<1>2. QED
    BY <1>1, EngineOfPipeline, PTL DEF PipelineSpec, Spec

\* The pipeline implements the publisher, whose rows come from anywhere.
THEOREM PipelineIsPublisher == PipelineSpec => PublisherSpec
<1>1. PipelineInit => PublisherInit
    BY DEF PipelineInit
<1>2. PInv /\ [PipelineNext]_pipelineVars => [PublisherNext]_publisherVars
    BY PublisherOfPipeline DEF PInv
<1>3. QED
    BY <1>1, <1>2, PipelineInvariance, PTL DEF PipelineSpec, PublisherSpec

-----------------------------------------------------------------------------
(* What the meeting of the two gives.                                      *)

\* An event SNS has heard of is a committed notification that is owed.
LEMMA HeardOf ==
    ASSUME PInv, NEW e \in Events, accepted[e] > 0
    PROVE  e \in outbox /\ e \in notifications /\ e.status = "pending"
BY DEF PInv, Joint, Stored, IInv, OutboxMatchesNotifications

\* Every event of an open transaction is still without its row: its key is in
\* no committed notification.
LEMMA OpenUnstored ==
    ASSUME PInv, NEW p \in Pollers
    PROVE  tx[p].outbox \subseteq Events \ Stored
<1>1. /\ tx[p].outbox \subseteq tx[p].notes
      /\ \A m \in tx[p].notes, n \in notifications : KeyOf(m) # KeyOf(n)
    BY DEF PInv, IInv, Rows, OwnRows, NewKeys
<1>2. outbox \subseteq notifications
    BY DEF PInv, IInv, OutboxMatchesNotifications
<1>3. QED
    BY <1>1, <1>2 DEF PInv, Joint

\* Both processes keep their types over the one table, and every event of an
\* open transaction will have its row.
THEOREM PipelineTypeCorrect == PipelineSpec => []PipelineTypeOK
<1>1. PInv => PipelineTypeOK
    BY OpenUnstored DEF PInv, OInv, Joint, PipelineTypeOK
<1>2. QED
    BY <1>1, PipelineInvariance, PTL

\* SNS hears of a detected state through one event, and again only for a
\* fault of the publisher: the unique key of the pollers and the counting of
\* the publisher's faults together.
THEOREM AlertsUnique == PipelineSpec => []OneAlertPerState
<1>1. PInv => OneAlertPerState
    <2>1. PInv => DuplicatesNeedFault
        <3>1. PInv => \A e \in Events : accepted[e] \in Nat /\ faults \in Int /\ MaxFaults \in Int
            BY PublisherAssumption DEF PInv, OInv, PublisherTypeOK
        <3>2. QED
            BY <3>1 DEF PInv, OInv, DuplicatesNeedFault
    <2>2. QED
        BY <2>1, HeardOf DEF PInv, IInv, UniqueDetectedState, DuplicatesNeedFault, OneAlertPerState
<1>2. QED
    BY <1>1, PipelineInvariance, PTL

\* SNS never hears of a fire that was rolled back or is not committed.
THEOREM RecordedBeforeSent == PipelineSpec => []OnlyRecordedIsSent
<1>1. PInv => OnlyRecordedIsSent
    BY HeardOf DEF OnlyRecordedIsSent
<1>2. QED
    BY <1>1, PipelineInvariance, PTL

\* Two alerts of a rule that reach SNS were observed a cooldown apart, for a
\* single poller whose rebuilds lie between its batches: the pollers' theorem
\* on what is owed, carried over to what is sent.
THEOREM SentApart ==
    ASSUME SinglePoller, RefreshOverlaps = FALSE PROVE PipelineSpec => []SentAlertsApart
<1>1. PInv /\ CooldownRespected => SentAlertsApart
    BY HeardOf DEF CooldownRespected, SentAlertsApart
<1>2. QED
    BY <1>1, PipelineInvariance, PipelineIsEngine, CooldownKept, PTL

-----------------------------------------------------------------------------
(* The pipeline implements the whole of AlertLedger.                       *)

\* What is withheld and what is sent, as the mapping reads them.
Withheld == KeysOf({n \in notifications : n.status = "suppressed_cooldown"})

\* A step of the pollers is a Record of the pollers' ledger, or leaves what is
\* owed and withheld alone; the events sent are the same.
LEMMA RecordWhole ==
    ASSUME PInv, PInv', [Next]_vars, Sent' = Sent
    PROVE  [Whole!Next]_Whole!ledger
<1>1. [Ledger!Next]_Ledger!ledger
    BY LedgerStep DEF PInv
<1>2. /\ KeysOf(outbox) = KeysOf(Stored)
      /\ KeysOf(outbox)' = KeysOf(Stored)'
    BY DEF PInv, Joint
<1>3. KeysOf(Sent)' = KeysOf(Sent)
    BY DEF KeysOf
<1>4. CASE Ledger!Record
    BY <1>2, <1>3, <1>4 DEF Ledger!Record, Whole!Next, Whole!Record, Sent
<1>5. CASE Ledger!Deliver \/ UNCHANGED Ledger!ledger
    BY <1>2, <1>3, <1>5 DEF Ledger!Deliver, Ledger!ledger, Whole!ledger, Sent
<1>6. QED
    BY <1>1, <1>4, <1>5 DEF Ledger!Next

\* A step of the publisher sends what is owed, or changes nothing.
LEMMA DeliverWhole ==
    ASSUME PInv, PInv', [PublisherNext]_publisherVars, UNCHANGED vars
    PROVE  [Whole!Next]_Whole!ledger
<1>1. [Sending!Next]_Sending!ledger
    BY SendingStep DEF PInv
<1>2. Stored' = Stored /\ Withheld' = Withheld
    BY DEF PInv, Joint, vars, Withheld, KeysOf
<1>3. Sent \subseteq Sent' /\ (Sent' = Sent \/ Sent' \subseteq Stored)
    BY <1>1 DEF Sending!Next, Sending!Record, Sending!Deliver, Sending!ledger, Sent
<1>4. CASE Sent' = Sent
    BY <1>2, <1>4 DEF Whole!ledger, Withheld, Sent, KeysOf
<1>5. CASE Sent' \subseteq Stored
    <2>1. KeysOf(Sent) \subseteq KeysOf(Sent)' /\ KeysOf(Sent)' \subseteq KeysOf(Stored)
        BY <1>3, <1>5 DEF KeysOf
    <2>2. KeysOf(Stored)' = KeysOf(Stored)
        BY <1>2 DEF KeysOf
    <2>3. QED
        BY <1>2, <2>1, <2>2 DEF Whole!Next, Whole!Deliver, Withheld, Sent
<1>6. QED
    BY <1>3, <1>4, <1>5

\* Only the publisher's steps change which events are sent.
LEMMA SentByPublisher ==
    ASSUME PInv, PipelineNext, ~ PublisherStep PROVE [Next]_vars /\ Sent' = Sent
<1>1. [Next]_vars
    BY EngineOfPipeline
<1>2. ASSUME NEW p \in Pollers, CommitBatch(p) PROVE Sent' = Sent
    <2>1. /\ row \in [Events -> Row] /\ status \in [Events -> {"none", "pending", "sent"}]
          /\ tx[p].outbox \subseteq Events
          /\ \A e \in Events : status[e] = "sent" => row[e].stored
        BY DEF PInv, Joint, OInv, PublisherTypeOK, SentWasAccepted
    <2>2. /\ \A e \in tx[p].outbox : ~ row[e].stored /\ status'[e] = "pending"
          /\ \A e \in Events \ tx[p].outbox : status'[e] = status[e]
        BY <1>2, <2>1, StoreShape DEF CommitBatch
    <2>3. QED
        BY <2>1, <2>2 DEF Sent
<1>3. ASSUME UNCHANGED publisherVars PROVE Sent' = Sent
    BY <1>3 DEF publisherVars, Sent
<1>4. CASE Tick /\ UNCHANGED publisherVars
    BY <1>1, <1>3, <1>4
<1>5. ASSUME NEW p \in Pollers, EngineStep(p) PROVE Sent' = Sent
    BY <1>3, <1>5 DEF EngineStep
<1>6. QED
    BY <1>1, <1>2, <1>4, <1>5 DEF PipelineNext

\* Every step of the pipeline records detected states or sends alerts that
\* are owed, as AlertLedger allows.
THEOREM ImplementsWhole == PipelineSpec => WholeSpec
<1>1. PipelineInit => Whole!Init
    <2> SUFFICES ASSUME PipelineInit PROVE Whole!Init
        OBVIOUS
    <2>1. Stored = {} /\ Sent = {} /\ notifications = {}
        BY DEF PipelineInit, Init, PublisherInit, Stored, NoRow, Sent
    <2>2. QED
        BY <2>1 DEF Whole!Init, KeysOf, Sent
<1>2. PInv /\ PInv' /\ [PipelineNext]_pipelineVars => [Whole!Next]_Whole!ledger
    <2> SUFFICES ASSUME PInv, PInv', [PipelineNext]_pipelineVars
                 PROVE  [Whole!Next]_Whole!ledger
        OBVIOUS
    <2>1. CASE UNCHANGED pipelineVars
        <3>1. [Next]_vars /\ Sent' = Sent
            BY <2>1 DEF pipelineVars, publisherVars, Sent
        <3>2. QED
            BY <3>1, RecordWhole
    <2>2. CASE PublisherStep
        <3>1. [PublisherNext]_publisherVars
            BY PublisherOfPipeline DEF PInv
        <3>2. QED
            BY <2>2, <3>1, DeliverWhole DEF PublisherStep
    <2>3. CASE PipelineNext /\ ~ PublisherStep
        BY <2>3, SentByPublisher, RecordWhole
    <2>4. QED
        BY <2>1, <2>2, <2>3
<1>3. QED
    BY <1>1, <1>2, PipelineInvariance, PTL DEF PipelineSpec, WholeSpec, Whole!Spec
=============================================================================
