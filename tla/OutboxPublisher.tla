-------------------------- MODULE OutboxPublisher --------------------------
(***************************************************************************)
(* The outbox publisher (workers/outbox_publisher.py): every tick it reads *)
(* the oldest due rows of outbox_events, publishes each to SNS, and        *)
(* records all outcomes in one commit at the end of the tick.              *)
(*                                                                         *)
(* Publishing leaves the database, so it is not undone when the tick       *)
(* fails, the process dies, or the answer of SNS is lost.                  *)
(*                                                                         *)
(* Time is kept as what is left of each delay, so that it needs no bound.  *)
(* Rows are stored by the pollers' commits (module AlertEngine).           *)
(***************************************************************************)
EXTENDS Integers, FiniteSets

CONSTANTS
    Events,           \* outbox events, each with its notification
    Broken,           \* the events whose publish is always refused
    Stamps,           \* values of created_at
    BatchSize,        \* BATCH_SIZE
    TickInterval,     \* TICK_INTERVAL_SECONDS
    BackoffBase,      \* outbox_backoff_base_seconds
    BackoffMax,       \* outbox_backoff_max_seconds
    AttemptCap,       \* publish_attempts is counted up to here
    MaxSpent,         \* bound on the time one tick takes
    PublisherFaults,  \* which of "refuse", "lose_ack", "fail", "crash" may happen
    MaxFaults         \* bound on how often the last three of them happen

\* Before SNS has refused anything, and after the first refusal, the delay
\* is the base; it doubles from then on, up to the maximum.
Smaller(a, b) == IF a <= b THEN a ELSE b
Larger(a, b) == IF a >= b THEN a ELSE b
Backoff(attempts) ==
    Smaller(BackoffBase * 2 ^ Larger(attempts - 1, 0), BackoffMax)

ASSUME PublisherAssumption ==
    /\ IsFiniteSet(Events)
    /\ Broken \subseteq Events
    /\ Stamps \subseteq Nat
    /\ BatchSize \in Nat \ {0}
    /\ TickInterval \in Nat
    /\ MaxSpent \in Nat
    /\ MaxFaults \in Nat
    /\ AttemptCap \in Nat \ {0}
    /\ PublisherFaults \subseteq {"refuse", "lose_ack", "fail", "crash"}
    /\ \A n \in 0 .. AttemptCap : Backoff(n) \in Nat
    \* Counting stops where it no longer changes the delay.
    /\ Backoff(AttemptCap) = BackoffMax

VARIABLES
    row,       \* the outbox_events table
    status,    \* notifications.status of each event's notification
    accepted,  \* how often SNS accepted each event
    pub,       \* the publisher process and its open session
    faults     \* how many faults are still to come

publisherVars == <<row, status, accepted, pub, faults>>

Row == [stored : BOOLEAN, created : Nat, attempts : Nat, wait : Nat,
        published : BOOLEAN]
NoRow == [stored |-> FALSE, created |-> 0, attempts |-> 0, wait |-> 0,
          published |-> FALSE]

\* The publisher.  In a tick: todo are the rows read and not yet tried, ok
\* and failed those tried, spent the time since the tick began.  Between
\* ticks: nap is what is left of the sleep.
Publisher == [pc : {"asleep", "publishing", "down"}, todo : SUBSET Events,
              ok : SUBSET Events, failed : SUBSET Events, spent : Nat, nap : Nat]
Asleep(nap) == [pc |-> "asleep", todo |-> {}, ok |-> {}, failed |-> {},
                spent |-> 0, nap |-> nap]

Stored == {e \in Events : row[e].stored}

\* Mutant of Due: published_at is not looked at.
DueIgnoresPublished == {e \in Stored : row[e].wait = 0}

\* next_attempt_at is NULL, or not after now, where wait is 0.
Due == {e \in Stored : ~ row[e].published /\ row[e].wait = 0}

NoLaterThan(e, others) == \A f \in others : row[e].created <= row[f].created

PublisherInit ==
    /\ row = [e \in Events |-> NoRow]
    /\ status = [e \in Events |-> "none"]
    /\ accepted = [e \in Events |-> 0]
    /\ pub = Asleep(0)
    /\ faults = MaxFaults

Fault(f) == f \in PublisherFaults /\ faults > 0 /\ faults' = faults - 1

\* A poller commits the events of a batch with their notifications.
\* created_at is when that transaction began: these rows have the same, which
\* need not be later than those of other rows.
Store(events) == \E stamp \in Stamps :
    /\ \A e \in events : ~ row[e].stored
    /\ row' = [e \in Events |->
                 IF e \in events
                 THEN [NoRow EXCEPT !.stored = TRUE, !.created = stamp]
                 ELSE row[e]]
    /\ status' = [e \in Events |-> IF e \in events THEN "pending" ELSE status[e]]
    /\ UNCHANGED <<accepted, pub, faults>>

\* A second passes.  A process that wakes up starts its tick at once.
Second ==
    /\ CASE pub.pc = "asleep" -> pub.nap > 0 /\ pub' = [pub EXCEPT !.nap = @ - 1]
         [] pub.pc = "publishing" ->
                pub.spent < MaxSpent /\ pub' = [pub EXCEPT !.spent = @ + 1]
         [] pub.pc = "down" -> UNCHANGED pub
    /\ row' = [e \in Events |-> [row[e] EXCEPT !.wait = Larger(@ - 1, 0)]]
    /\ UNCHANGED <<status, accepted, faults>>

-----------------------------------------------------------------------------
(* publish_pending                                                         *)

\* Nothing is due: run_forever goes back to sleep.
SelectNothing ==
    /\ pub.pc = "asleep"
    /\ pub.nap = 0
    /\ Due = {}
    /\ pub' = Asleep(TickInterval)
    /\ UNCHANGED <<row, status, accepted, faults>>

\* The oldest due rows, up to BATCH_SIZE of them.
Select == \E batch \in SUBSET Due :
    /\ pub.pc = "asleep"
    /\ pub.nap = 0
    /\ Due # {}
    /\ Cardinality(batch) = Smaller(BatchSize, Cardinality(Due))
    /\ \A e \in batch : NoLaterThan(e, Due \ batch)
    /\ pub' = [Asleep(0) EXCEPT !.pc = "publishing", !.todo = batch]
    /\ UNCHANGED <<row, status, accepted, faults>>

Trying(e) == pub.pc = "publishing" /\ e \in pub.todo /\ NoLaterThan(e, pub.todo)

\* SNS accepts the message and answers.
Publish(e) ==
    /\ Trying(e)
    /\ e \notin Broken
    /\ accepted' = [accepted EXCEPT ![e] = @ + 1]
    /\ pub' = [pub EXCEPT !.todo = @ \ {e}, !.ok = @ \cup {e}]
    /\ UNCHANGED <<row, status, faults>>

\* The call raises, and SNS has not taken the message.
Refuse(e) ==
    /\ Trying(e)
    /\ e \in Broken \/ "refuse" \in PublisherFaults
    /\ pub' = [pub EXCEPT !.todo = @ \ {e}, !.failed = @ \cup {e}]
    /\ UNCHANGED <<row, status, accepted, faults>>

\* The call raises, though SNS has taken the message.
LoseAck(e) ==
    /\ Trying(e)
    /\ e \notin Broken
    /\ Fault("lose_ack")
    /\ accepted' = [accepted EXCEPT ![e] = @ + 1]
    /\ pub' = [pub EXCEPT !.todo = @ \ {e}, !.failed = @ \cup {e}]
    /\ UNCHANGED <<row, status>>

\* Mutant of Retry: no backoff.
RetryAtOnce(r) == [r EXCEPT !.attempts = Smaller(@ + 1, AttemptCap), !.wait = 0]

\* A failed publish: the attempt is counted and the next one put off.
Retry(r) ==
    LET n == Smaller(r.attempts + 1, AttemptCap)
    IN  [r EXCEPT !.attempts = n, !.wait = Larger(Backoff(n) - pub.spent, 0)]

\* Mutants of CommitTick: a failed event is not skipped; published_at is not set;
\* the status of every notification is written.
CommitAll ==
    /\ pub.pc = "publishing"
    /\ pub.todo = {}
    /\ row' = [e \in Events |->
                 CASE e \in pub.ok \cup pub.failed -> [row[e] EXCEPT !.published = TRUE]
                   [] OTHER -> row[e]]
    /\ status' = [e \in Events |-> IF e \in pub.ok \cup pub.failed THEN "sent" ELSE status[e]]
    /\ pub' = Asleep(TickInterval)
    /\ UNCHANGED <<accepted, faults>>
CommitForgetsPublished ==
    /\ pub.pc = "publishing"
    /\ pub.todo = {}
    /\ row' = [e \in Events |->
                 CASE e \in pub.failed -> Retry(row[e])
                   [] OTHER -> row[e]]
    /\ status' = [e \in Events |-> IF e \in pub.ok THEN "sent" ELSE status[e]]
    /\ pub' = Asleep(TickInterval)
    /\ UNCHANGED <<accepted, faults>>
CommitAllStatuses ==
    /\ pub.pc = "publishing"
    /\ pub.todo = {}
    /\ row' = [e \in Events |->
                 CASE e \in pub.ok -> [row[e] EXCEPT !.published = TRUE]
                   [] e \in pub.failed -> Retry(row[e])
                   [] OTHER -> row[e]]
    /\ status' = [e \in Events |-> IF e \in pub.ok THEN "sent" ELSE "pending"]
    /\ pub' = Asleep(TickInterval)
    /\ UNCHANGED <<accepted, faults>>

\* The one commit of the tick.  The delay of a failed event was counted from
\* the beginning of the tick.
CommitTick ==
    /\ pub.pc = "publishing"
    /\ pub.todo = {}
    /\ row' = [e \in Events |->
                 CASE e \in pub.ok -> [row[e] EXCEPT !.published = TRUE]
                   [] e \in pub.failed -> Retry(row[e])
                   [] OTHER -> row[e]]
    /\ status' = [e \in Events |-> IF e \in pub.ok THEN "sent" ELSE status[e]]
    /\ pub' = Asleep(TickInterval)
    /\ UNCHANGED <<accepted, faults>>

\* The tick raises, the commit included: the session is closed, and what it
\* would have recorded is lost.
Fail ==
    /\ pub.pc = "publishing"
    /\ Fault("fail")
    /\ pub' = Asleep(TickInterval)
    /\ UNCHANGED <<row, status, accepted>>

PublisherCrash ==
    /\ pub.pc # "down"
    /\ Fault("crash")
    /\ pub' = [Asleep(0) EXCEPT !.pc = "down"]
    /\ UNCHANGED <<row, status, accepted>>

Restart ==
    /\ pub.pc = "down"
    /\ pub' = Asleep(0)
    /\ UNCHANGED <<row, status, accepted, faults>>

-----------------------------------------------------------------------------
Try(e) == Publish(e) \/ Refuse(e) \/ LoseAck(e)
Run == SelectNothing \/ Select \/ (\E e \in Events : Try(e)) \/ CommitTick \/ Restart
PublisherNext ==
    \/ Second \/ Run \/ Fail \/ PublisherCrash
    \/ \E events \in SUBSET Events : Store(events)

PublisherSpec == PublisherInit /\ [][PublisherNext]_publisherVars

\* Time passes and the process runs (run_forever, and docker restarts it);
\* SNS accepts an event that is tried again and again, unless it is broken.
PublisherFairness ==
    /\ WF_publisherVars(Second)
    /\ WF_publisherVars(Run)
    /\ \A e \in Events \ Broken : SF_publisherVars(Publish(e))

FairPublisherSpec == PublisherSpec /\ PublisherFairness

-----------------------------------------------------------------------------
(* Properties.                                                             *)

\* The variables have their types; a tick keeps apart the rows it has yet to
\* try, published and failed to publish, and it took only rows that are due.
PublisherTypeOK ==
    /\ row \in [Events -> Row]
    /\ status \in [Events -> {"none", "pending", "sent"}]
    /\ accepted \in [Events -> Nat]
    /\ pub \in Publisher
    /\ faults \in 0 .. MaxFaults
    /\ \A e \in pub.todo \cup pub.ok \cup pub.failed :
            row[e].stored /\ ~ row[e].published
    /\ pub.todo \cap (pub.ok \cup pub.failed) = {}
    /\ pub.ok \cap pub.failed = {}
    /\ pub.pc # "publishing" => pub.todo \cup pub.ok \cup pub.failed = {}

\* A notification is "sent" exactly when its event is published, and then
\* SNS has its message: an alert is never recorded as sent and lost
\* (workers/outbox_publisher.py:81-85).
SentWasAccepted ==
    \A e \in Events :
        /\ status[e] = "sent" <=> row[e].published
        /\ status[e] = "sent" => accepted[e] > 0

\* SNS is given an event twice only after a fault that lost the outcome of an
\* earlier publish; refusals and restarts between ticks cause no duplicate.
\* More cannot be said: the outcomes of a tick are committed after its last
\* publish, so "exactly one SNS publish per detected state"
\* (Concert_Ticket_Price_Alert_PRD.md:140) is at least one.
DuplicatesNeedFault ==
    \A e \in Events : accepted[e] <= 1 + (MaxFaults - faults)

\* Once recorded as published, an event is never given to SNS again.
NoPublishAfterRecorded ==
    [][\A e \in Events : row[e].published => accepted'[e] = accepted[e]]_publisherVars

\* Every event that can be published is eventually sent, whatever refusals,
\* crashes and failed ticks come before, and though broken events older than
\* it are retried for ever: their backoff makes room for it.
EventuallySent ==
    \A e \in Events \ Broken : row[e].stored ~> status[e] = "sent"

\* The publisher implements the sending of alerts.
Sending == INSTANCE AlertLedger WITH
    States <- Events,
    owed <- Stored,
    withheld <- {},
    sent <- {e \in Events : status[e] = "sent"}

\* Every step of the publisher sends alerts as AlertLedger allows: only ones
\* that are owed, and for good.
SendingSpec == Sending!Spec
=============================================================================
