---------------------------- MODULE OutboxProofs ----------------------------
(***************************************************************************)
(* What holds of the outbox publisher for every set of events, batch size, *)
(* delay and number of faults.                                             *)
(***************************************************************************)
EXTENDS OutboxPublisher, TLAPS

Tried == pub.ok \cup pub.failed
InTick == pub.todo \cup Tried

\* The sleeping publisher has no session.
LEMMA AsleepType ==
    ASSUME NEW n \in Nat
    PROVE  /\ Asleep(n) \in Publisher
           /\ Asleep(n).pc = "asleep" /\ Asleep(n).todo = {} /\ Asleep(n).ok = {}
           /\ Asleep(n).failed = {}
           /\ [Asleep(n) EXCEPT !.pc = "down"] \in Publisher
           /\ [Asleep(n) EXCEPT !.pc = "down"].pc = "down"
           /\ [Asleep(n) EXCEPT !.pc = "down"].todo = {}
           /\ [Asleep(n) EXCEPT !.pc = "down"].ok = {}
           /\ [Asleep(n) EXCEPT !.pc = "down"].failed = {}
BY DEF Asleep, Publisher

\* A retried row is a row: its delay is defined, and it is still unpublished.
LEMMA RetryType ==
    ASSUME PublisherTypeOK, NEW e \in Events
    PROVE  /\ Retry(row[e]) \in Row
           /\ Retry(row[e]).stored = row[e].stored
           /\ Retry(row[e]).published = row[e].published
<1> DEFINE n == Smaller(row[e].attempts + 1, AttemptCap)
           w == Larger(Backoff(n) - pub.spent, 0)
<1>1. row[e] \in Row /\ pub.spent \in Nat
    BY DEF PublisherTypeOK, Publisher
<1>2. n \in 0 .. AttemptCap
    BY <1>1, PublisherAssumption DEF Row, Smaller
<1>3. Backoff(n) \in Nat
    BY <1>2, PublisherAssumption
<1>4. n \in Nat /\ w \in Nat
    BY <1>1, <1>2, <1>3 DEF Larger
<1> HIDE DEF n, w
<1>5. QED
    BY <1>1, <1>4 DEF Retry, Row, n, w

\* What each step makes of the publisher's session.
LEMMA TryShape ==
    ASSUME PublisherTypeOK, NEW e \in pub.todo,
           \/ pub' = [pub EXCEPT !.todo = @ \ {e}, !.ok = @ \cup {e}]
           \/ pub' = [pub EXCEPT !.todo = @ \ {e}, !.failed = @ \cup {e}]
    PROVE  /\ pub' \in Publisher /\ pub'.pc = pub.pc
           /\ pub'.todo = pub.todo \ {e}
           /\ \/ pub'.ok = pub.ok \cup {e} /\ pub'.failed = pub.failed
              \/ pub'.ok = pub.ok /\ pub'.failed = pub.failed \cup {e}
<1> DEFINE Done == pub' = [pub EXCEPT !.todo = @ \ {e}, !.ok = @ \cup {e}]
           Missed == pub' = [pub EXCEPT !.todo = @ \ {e}, !.failed = @ \cup {e}]
<1>1. pub \in Publisher /\ e \in Events
    BY DEF PublisherTypeOK, Publisher
<1>2. Done \/ Missed
    OBVIOUS
<1>3. CASE Done
    BY ONLY <1>1, <1>3 DEF Publisher
<1>4. CASE Missed
    BY ONLY <1>1, <1>4 DEF Publisher
<1> HIDE DEF Done, Missed
<1>5. QED
    BY <1>2, <1>3, <1>4

\* A tick starts on due events, none of them published or failed yet.
LEMMA SelectShape ==
    ASSUME PublisherTypeOK, Select
    PROVE  /\ pub' \in Publisher /\ pub'.pc = "publishing"
           /\ pub'.todo \subseteq Due /\ pub'.ok = {} /\ pub'.failed = {}
<1>1. PICK batch \in SUBSET Due :
            pub' = [Asleep(0) EXCEPT !.pc = "publishing", !.todo = batch]
    BY DEF Select
<1>2. Due \subseteq Events
    BY DEF Due, Stored
<1>3. QED
    BY <1>1, <1>2 DEF Asleep, Publisher

\* What a commit of a poller makes of the table: rows are added, and no row
\* there is touched.
LEMMA StoreShape ==
    ASSUME row \in [Events -> Row], status \in [Events -> {"none", "pending", "sent"}],
           NEW events \in SUBSET Events, Store(events)
    PROVE  /\ row' \in [Events -> Row]
           /\ status' \in [Events -> {"none", "pending", "sent"}]
           /\ \A e \in events : /\ ~ row[e].stored /\ row'[e].stored
                                /\ ~ row'[e].published /\ status'[e] = "pending"
           /\ \A e \in Events \ events : row'[e] = row[e] /\ status'[e] = status[e]
           /\ \A e \in Events : row[e].stored => row'[e] = row[e]
<1> PICK stamp \in Stamps :
        row' = [e \in Events |->
                  IF e \in events
                  THEN [NoRow EXCEPT !.stored = TRUE, !.created = stamp]
                  ELSE row[e]]
    BY DEF Store
<1> DEFINE new == [NoRow EXCEPT !.stored = TRUE, !.created = stamp]
<1>1. stamp \in Nat
    BY PublisherAssumption
<1>2. new \in Row /\ new.stored /\ ~ new.published
    BY <1>1 DEF NoRow, Row
<1>3. row' = [e \in Events |-> IF e \in events THEN new ELSE row[e]]
    OBVIOUS
<1> HIDE DEF new
<1>4. QED
    BY <1>2, <1>3 DEF Store

\* A tick that goes wrong, or a process that is down, keeps its rows apart.
LEMMA PublisherTypeStep == PublisherTypeOK /\ [PublisherNext]_publisherVars => PublisherTypeOK'
<1> SUFFICES ASSUME PublisherTypeOK, [PublisherNext]_publisherVars PROVE PublisherTypeOK'
    OBVIOUS
<1>1. /\ row \in [Events -> Row] /\ status \in [Events -> {"none", "pending", "sent"}]
      /\ accepted \in [Events -> Nat] /\ pub \in Publisher /\ faults \in 0 .. MaxFaults
      /\ pub.todo \subseteq Events
    BY DEF PublisherTypeOK, Publisher
<1>2. MaxFaults \in Nat /\ TickInterval \in Nat
    BY PublisherAssumption
<1>3. CASE UNCHANGED publisherVars
    BY <1>3 DEF publisherVars, PublisherTypeOK
<1>4. CASE Second
    <2>1. UNCHANGED <<status, accepted, faults>>
        BY <1>4 DEF Second
    <2>2. /\ row' \in [Events -> Row]
          /\ \A e \in Events : row'[e].stored = row[e].stored
                            /\ row'[e].published = row[e].published
        <3>1. row' = [e \in Events |-> [row[e] EXCEPT !.wait = Larger(@ - 1, 0)]]
            BY <1>4 DEF Second
        <3>2. ASSUME NEW e \in Events
              PROVE  /\ row'[e] \in Row /\ row'[e].stored = row[e].stored
                     /\ row'[e].published = row[e].published
            <4>1. row[e] \in Row
                BY <1>1
            <4>2. row'[e] = [row[e] EXCEPT !.wait = Larger(row[e].wait - 1, 0)]
                BY ONLY <3>1, e \in Events
            <4>3. Larger(row[e].wait - 1, 0) \in Nat
                BY ONLY <4>1 DEF Row, Larger
            <4>4. QED
                BY ONLY <4>1, <4>2, <4>3 DEF Row
        <3>3. QED
            BY ONLY <3>1, <3>2
    <2>3. /\ pub' \in Publisher /\ pub'.pc = pub.pc /\ pub'.todo = pub.todo
          /\ pub'.ok = pub.ok /\ pub'.failed = pub.failed
        <3>1. CASE pub.pc = "asleep"
            BY <1>1, <1>4, <3>1 DEF Second, Publisher
        <3>2. CASE pub.pc = "publishing"
            BY <1>1, <1>4, <3>2 DEF Second, Publisher
        <3>3. CASE pub.pc = "down"
            BY <1>1, <1>4, <3>3 DEF Second
        <3>4. QED
            BY <1>1, <3>1, <3>2, <3>3 DEF Publisher
    <2>4. pub.todo \cup pub.ok \cup pub.failed \subseteq Events
        BY <1>1 DEF Publisher
    <2>5. QED
        BY <2>1, <2>2, <2>3, <2>4 DEF PublisherTypeOK
<1>5. ASSUME NEW events \in SUBSET Events, Store(events) PROVE PublisherTypeOK'
    <2>1. row' \in [Events -> Row] /\ status' \in [Events -> {"none", "pending", "sent"}]
        BY <1>1, <1>5, StoreShape
    <2>2. \A e \in Events : row[e].stored => row'[e] = row[e]
        BY <1>1, <1>5, StoreShape
    <2>3. UNCHANGED <<accepted, pub, faults>>
        BY <1>5 DEF Store
    <2>4. QED
        BY <1>1, <2>1, <2>2, <2>3 DEF PublisherTypeOK, Publisher
<1>6. CASE SelectNothing
    BY <1>1, <1>2, <1>6, AsleepType DEF SelectNothing, PublisherTypeOK
<1>7. CASE Select
    <2>1. UNCHANGED <<row, status, accepted, faults>>
        BY <1>7 DEF Select
    <2>2. \A e \in Due : row[e].stored /\ ~ row[e].published
        BY DEF Due, Stored
    <2>3. QED
        BY <1>7, <2>1, <2>2, SelectShape DEF PublisherTypeOK
<1>8. ASSUME NEW e \in Events, Try(e) PROVE PublisherTypeOK'
    <2>1. /\ e \in pub.todo /\ UNCHANGED <<row, status>>
          /\ accepted' \in [Events -> Nat] /\ faults' \in 0 .. MaxFaults
        BY <1>1, <1>2, <1>8 DEF Try, Trying, Publish, Refuse, LoseAck, Fault
    <2>2. /\ pub' \in Publisher /\ pub'.pc = pub.pc
          /\ pub'.todo = pub.todo \ {e}
          /\ \/ pub'.ok = pub.ok \cup {e} /\ pub'.failed = pub.failed
             \/ pub'.ok = pub.ok /\ pub'.failed = pub.failed \cup {e}
        BY <1>8, <2>1, TryShape DEF Try, Publish, Refuse, LoseAck
    <2>3. pub.pc = "publishing"
        BY <1>8 DEF Try, Trying, Publish, Refuse, LoseAck
    <2>4. QED
        BY <2>1, <2>2, <2>3 DEF PublisherTypeOK
<1>9. CASE CommitTick
    <2>1. row' \in [Events -> Row]
        BY <1>1, <1>9, RetryType DEF CommitTick, Row
    <2>2. status' \in [Events -> {"none", "pending", "sent"}]
        BY <1>1, <1>9 DEF CommitTick
    <2>3. QED
        BY <1>1, <1>2, <1>9, <2>1, <2>2, AsleepType DEF CommitTick, PublisherTypeOK
<1>10. CASE Fail
    <2>1. pub' = Asleep(TickInterval) /\ UNCHANGED <<row, status, accepted>>
        BY <1>10 DEF Fail
    <2>2. faults' \in 0 .. MaxFaults
        BY <1>1, <1>2, <1>10 DEF Fail, Fault
    <2>3. QED
        BY <1>1, <1>2, <2>1, <2>2, AsleepType DEF PublisherTypeOK
<1>11. CASE PublisherCrash
    <2>1. pub' = [Asleep(0) EXCEPT !.pc = "down"] /\ UNCHANGED <<row, status, accepted>>
        BY <1>11 DEF PublisherCrash
    <2>2. faults' \in 0 .. MaxFaults
        BY <1>1, <1>2, <1>11 DEF PublisherCrash, Fault
    <2>3. /\ pub' \in Publisher /\ pub'.pc = "down" /\ pub'.todo = {}
          /\ pub'.ok = {} /\ pub'.failed = {}
        BY <2>1, AsleepType, 0 \in Nat
    <2>4. QED
        BY <1>1, <2>1, <2>2, <2>3 DEF PublisherTypeOK
<1>12. CASE Restart
    BY <1>1, <1>2, <1>12, AsleepType DEF Restart, PublisherTypeOK
<1>13. QED
    BY <1>3, <1>4, <1>5, <1>6, <1>7, <1>8, <1>9, <1>10, <1>11, <1>12 DEF PublisherNext, Run

\* At first nothing is stored and the publisher is about to look.
LEMMA PublisherTypeInit == PublisherInit => PublisherTypeOK
<1> SUFFICES ASSUME PublisherInit PROVE PublisherTypeOK
    OBVIOUS
<1>1. NoRow \in Row
    BY DEF NoRow, Row
<1>2. MaxFaults \in 0 .. MaxFaults
    BY PublisherAssumption
<1>3. /\ pub \in Publisher /\ pub.pc = "asleep" /\ pub.todo = {}
      /\ pub.ok = {} /\ pub.failed = {}
    BY AsleepType, 0 \in Nat DEF PublisherInit
<1>4. /\ row \in [Events -> Row] /\ faults \in 0 .. MaxFaults
      /\ status \in [Events -> {"none", "pending", "sent"}]
      /\ accepted \in [Events -> Nat]
    BY <1>1, <1>2 DEF PublisherInit
<1>5. QED
    BY <1>3, <1>4 DEF PublisherTypeOK

\* The variables have their types, and a tick tries only rows that are due
\* and keeps apart those it published and those it failed to publish.
THEOREM PublisherTypeCorrect == PublisherSpec => []PublisherTypeOK
BY PublisherTypeInit, PublisherTypeStep, PTL DEF PublisherSpec

-----------------------------------------------------------------------------
\* The bit of an event whose message is with SNS and whose outcome is not
\* lost: the tick still holds it, or it is recorded.
Kept(e) == e \in pub.ok \/ row[e].published

\* Each fault accounts for at most one message more than the one kept, what
\* the tick holds as published was accepted, and nothing is published that
\* is not stored.
OInv ==
    /\ PublisherTypeOK
    /\ SentWasAccepted
    /\ \A e \in Events :
        /\ Kept(e) => accepted[e] <= 1 + (MaxFaults - faults)
        /\ ~ Kept(e) => accepted[e] <= MaxFaults - faults
        /\ e \in pub.ok => accepted[e] > 0
        /\ row[e].published => row[e].stored

\* A step that publishes nothing, records nothing and loses nothing.
LEMMA Quiet ==
    ASSUME OInv, PublisherTypeOK', UNCHANGED <<status, accepted, faults>>, pub'.ok = pub.ok,
           \A e \in Events : /\ row'[e].stored = row[e].stored
                             /\ row'[e].published = row[e].published
    PROVE  OInv'
BY DEF OInv, SentWasAccepted, Kept

\* A fault that ends a tick: its outcomes are lost, and the fault counts.
LEMMA Lost ==
    ASSUME OInv, PublisherTypeOK', UNCHANGED <<row, status, accepted>>, pub'.ok = {},
           faults' = faults - 1
    PROVE  OInv'
<1>1. faults \in Int /\ MaxFaults \in Nat /\ \A e \in Events : accepted[e] \in Nat
    BY PublisherAssumption DEF OInv, PublisherTypeOK
<1>2. QED
    BY <1>1 DEF OInv, SentWasAccepted, Kept

\* New events have not been sent, recorded or tried.
LEMMA StoreKeeps ==
    ASSUME OInv, PublisherTypeOK', NEW events \in SUBSET Events, Store(events)
    PROVE  OInv'
<1>1. row \in [Events -> Row] /\ status \in [Events -> {"none", "pending", "sent"}]
    BY DEF OInv, PublisherTypeOK
<1>2. UNCHANGED <<accepted, pub, faults>>
    BY DEF Store
<1>3. \A e \in events : ~ row[e].published
    BY <1>1, StoreShape DEF OInv
<1>4. QED
    BY <1>1, <1>2, <1>3, StoreShape DEF OInv, SentWasAccepted, Kept

\* The one event tried was neither kept nor published before.
LEMMA TryKeeps == ASSUME OInv, PublisherTypeOK', NEW e \in Events, Try(e) PROVE OInv'
<1>1. /\ pub \in Publisher /\ accepted \in [Events -> Nat]
      /\ faults \in 0 .. MaxFaults /\ MaxFaults \in Nat
    BY PublisherAssumption DEF OInv, PublisherTypeOK
<1>2. e \in pub.todo /\ UNCHANGED <<row, status>>
    BY DEF Try, Trying, Publish, Refuse, LoseAck
<1>3. e \notin pub.ok /\ ~ row[e].published
    BY <1>2 DEF OInv, PublisherTypeOK
<1>4. accepted[e] <= MaxFaults - faults
    BY <1>3 DEF OInv, Kept
<1>5. CASE Publish(e)
    <2>1. pub' = [pub EXCEPT !.todo = @ \ {e}, !.ok = @ \cup {e}] /\ faults' = faults
        BY <1>5 DEF Publish
    <2>2. pub'.ok = pub.ok \cup {e}
        BY ONLY <1>1, <2>1 DEF Publisher
    <2>3. accepted'[e] = accepted[e] + 1 /\ \A f \in Events \ {e} : accepted'[f] = accepted[f]
        BY <1>1, <1>5 DEF Publish
    <2>4. QED
        BY <1>1, <1>2, <1>4, <2>1, <2>2, <2>3 DEF OInv, SentWasAccepted, Kept
<1>6. CASE Refuse(e)
    <2>1. pub' = [pub EXCEPT !.todo = @ \ {e}, !.failed = @ \cup {e}]
        BY <1>6 DEF Refuse
    <2>2. pub'.ok = pub.ok
        BY ONLY <1>1, <2>1 DEF Publisher
    <2>3. UNCHANGED <<accepted, faults>>
        BY <1>6 DEF Refuse
    <2>4. QED
        BY <1>2, <2>2, <2>3, Quiet
<1>7. CASE LoseAck(e)
    <2>1. /\ pub' = [pub EXCEPT !.todo = @ \ {e}, !.failed = @ \cup {e}]
          /\ faults' = faults - 1
        BY <1>7 DEF LoseAck, Fault
    <2>2. pub'.ok = pub.ok
        BY ONLY <1>1, <2>1 DEF Publisher
    <2>3. accepted'[e] = accepted[e] + 1 /\ \A f \in Events \ {e} : accepted'[f] = accepted[f]
        BY <1>1, <1>7 DEF LoseAck
    <2>4. \A f \in Events : accepted[f] \in Nat
        BY <1>1
    <2>5. QED
        BY <1>1, <1>2, <1>3, <1>4, <2>1, <2>2, <2>3, <2>4 DEF OInv, SentWasAccepted, Kept
<1>8. QED
    BY <1>5, <1>6, <1>7 DEF Try

\* What CommitTick makes of each row and status.
LEMMA CommitShape ==
    ASSUME PublisherTypeOK, CommitTick, NEW e \in Events
    PROVE  /\ row'[e].stored = row[e].stored
           /\ row'[e].published <=> e \in pub.ok \/ row[e].published
           /\ status'[e] = IF e \in pub.ok THEN "sent" ELSE status[e]
<1>1. row[e] \in Row /\ pub.ok \cap pub.failed = {}
    BY DEF PublisherTypeOK
<1>2. /\ row'[e] = CASE e \in pub.ok -> [row[e] EXCEPT !.published = TRUE]
                     [] e \in pub.failed -> Retry(row[e])
                     [] OTHER -> row[e]
      /\ status'[e] = IF e \in pub.ok THEN "sent" ELSE status[e]
    BY DEF CommitTick
<1>3. CASE e \in pub.ok
    <2>1. row'[e] = [row[e] EXCEPT !.published = TRUE]
        BY ONLY <1>1, <1>2, <1>3
    <2>2. row'[e].stored = row[e].stored /\ row'[e].published = TRUE
        BY ONLY <1>1, <2>1 DEF Row
    <2>3. QED
        BY <1>2, <1>3, <2>2
<1>4. CASE e \in pub.failed
    <2>1. row'[e] = Retry(row[e]) /\ e \notin pub.ok
        BY <1>1, <1>2, <1>4
    <2>2. QED
        BY <1>2, <2>1, RetryType
<1>5. CASE e \notin pub.ok \cup pub.failed
    BY <1>2, <1>5
<1>6. QED
    BY <1>3, <1>4, <1>5

\* The commit of a tick records what SNS accepted and nothing else.
LEMMA CommitKeeps == ASSUME OInv, PublisherTypeOK', CommitTick PROVE OInv'
<1>1. PublisherTypeOK
    BY DEF OInv
<1>2. \A e \in pub.ok : row[e].stored
    BY <1>1 DEF PublisherTypeOK
<1>3. pub'.ok = {} /\ UNCHANGED <<accepted, faults>>
    BY AsleepType, PublisherAssumption DEF CommitTick
<1>4. QED
    BY <1>1, <1>2, <1>3, CommitShape DEF OInv, SentWasAccepted, Kept

\* Every step of the publisher keeps its inductive invariant.
LEMMA OInvStep == OInv /\ [PublisherNext]_publisherVars => OInv'
<1> SUFFICES ASSUME OInv, [PublisherNext]_publisherVars PROVE OInv'
    OBVIOUS
<1>1. PublisherTypeOK /\ PublisherTypeOK'
    BY PublisherTypeStep DEF OInv
<1>2. 0 \in Nat /\ TickInterval \in Nat
    BY PublisherAssumption
<1>3. pub \in Publisher /\ row \in [Events -> Row]
    BY <1>1 DEF PublisherTypeOK
<1>4. CASE UNCHANGED publisherVars
    BY <1>1, <1>4, Quiet DEF publisherVars
<1>5. CASE Second
    <2>1. pub'.ok = pub.ok
        <3>1. CASE pub.pc = "asleep"
            BY <1>3, <1>5, <3>1 DEF Second, Publisher
        <3>2. CASE pub.pc = "publishing"
            BY <1>3, <1>5, <3>2 DEF Second, Publisher
        <3>3. CASE pub.pc = "down"
            BY <1>3, <1>5, <3>3 DEF Second
        <3>4. QED
            BY <1>3, <3>1, <3>2, <3>3 DEF Publisher
    <2>2. row' = [e \in Events |-> [row[e] EXCEPT !.wait = Larger(@ - 1, 0)]]
        BY <1>5 DEF Second
    <2>3. \A e \in Events : /\ row'[e].stored = row[e].stored
                            /\ row'[e].published = row[e].published
        BY ONLY <1>3, <2>2 DEF Row
    <2>4. UNCHANGED <<status, accepted, faults>>
        BY <1>5 DEF Second
    <2>5. QED
        BY <1>1, <2>1, <2>3, <2>4, Quiet
<1>6. ASSUME NEW events \in SUBSET Events, Store(events) PROVE OInv'
    BY <1>1, <1>6, StoreKeeps
<1>7. CASE SelectNothing
    <2>1. pub.ok = {} /\ pub'.ok = {}
        BY <1>1, <1>2, <1>7, AsleepType DEF SelectNothing, PublisherTypeOK
    <2>2. QED
        BY <1>1, <1>7, <2>1, Quiet DEF SelectNothing
<1>8. CASE Select
    <2>1. pub.ok = {} /\ pub'.ok = {}
        BY <1>1, <1>8, SelectShape DEF Select, PublisherTypeOK
    <2>2. QED
        BY <1>1, <1>8, <2>1, Quiet DEF Select
<1>9. ASSUME NEW e \in Events, Try(e) PROVE OInv'
    BY <1>1, <1>9, TryKeeps
<1>10. CASE CommitTick
    BY <1>1, <1>10, CommitKeeps
<1>11. CASE Fail
    BY <1>1, <1>2, <1>11, AsleepType, Lost DEF Fail, Fault
<1>12. CASE PublisherCrash
    BY <1>1, <1>2, <1>12, AsleepType, Lost DEF PublisherCrash, Fault
<1>13. CASE Restart
    <2>1. pub.ok = {} /\ pub'.ok = {}
        BY <1>1, <1>2, <1>13, AsleepType DEF Restart, PublisherTypeOK
    <2>2. QED
        BY <1>1, <1>13, <2>1, Quiet DEF Restart
<1>14. QED
    BY <1>4, <1>5, <1>6, <1>7, <1>8, <1>9, <1>10, <1>11, <1>12, <1>13 DEF PublisherNext, Run

\* The publisher's inductive invariant holds at the start.
LEMMA OInvInit == PublisherInit => OInv
<1> SUFFICES ASSUME PublisherInit PROVE OInv
    OBVIOUS
<1>1. pub.ok = {}
    BY AsleepType, 0 \in Nat DEF PublisherInit
<1>2. \A e \in Events : /\ ~ row[e].published /\ accepted[e] = 0
                        /\ status[e] = "none"
    BY DEF PublisherInit, NoRow
<1>3. MaxFaults - faults = 0
    BY PublisherAssumption DEF PublisherInit
<1>4. QED
    BY <1>1, <1>2, <1>3, PublisherTypeInit DEF OInv, SentWasAccepted, Kept

\* The inductive invariant of the publisher.
THEOREM PublisherInvariance == PublisherSpec => []OInv
BY OInvInit, OInvStep, PTL DEF PublisherSpec

\* A notification is "sent" exactly when its event is published, and then
\* SNS has accepted its message.
THEOREM SentAccepted == PublisherSpec => []SentWasAccepted
<1>1. OInv => SentWasAccepted
    BY DEF OInv
<1>2. QED
    BY <1>1, PublisherInvariance, PTL

\* SNS is given an event more than once only after a fault, and then at most
\* once more for each fault.
THEOREM DuplicatesFromFaults == PublisherSpec => []DuplicatesNeedFault
<1>1. OInv => DuplicatesNeedFault
    <2>1. OInv => \A e \in Events : accepted[e] \in Nat /\ faults \in Int /\ MaxFaults \in Int
        BY PublisherAssumption DEF OInv, PublisherTypeOK
    <2>2. QED
        BY <2>1 DEF OInv, DuplicatesNeedFault
<1>2. QED
    BY <1>1, PublisherInvariance, PTL

\* An event recorded as published is never given to SNS again: a tick tries
\* only events that are not, and no step makes one so while it is tried.
THEOREM PublishedIsFinal == PublisherSpec => NoPublishAfterRecorded
<1>1. OInv /\ [PublisherNext]_publisherVars =>
        [\A e \in Events : row[e].published => accepted'[e] = accepted[e]]_publisherVars
    <2> SUFFICES ASSUME OInv, PublisherNext, NEW e \in Events, row[e].published
                 PROVE  accepted'[e] = accepted[e]
        BY DEF publisherVars
    <2>1. e \notin pub.todo /\ accepted \in [Events -> Nat]
        BY DEF OInv, PublisherTypeOK
    <2>2. ASSUME NEW f \in Events, Try(f) PROVE accepted'[e] = accepted[e]
        BY <2>1, <2>2 DEF Try, Trying, Publish, Refuse, LoseAck
    <2>3. CASE \A f \in Events : ~ Try(f)
        BY <2>3 DEF PublisherNext, Run, Second, SelectNothing, Select, CommitTick, Restart, Fail, PublisherCrash, Store
    <2>4. QED
        BY <2>2, <2>3
<1>2. QED
    BY <1>1, PublisherInvariance, PTL DEF PublisherSpec, NoPublishAfterRecorded

-----------------------------------------------------------------------------
Sent == {e \in Events : status[e] = "sent"}

\* A step that stores nothing and leaves status alone is a stutter of the
\* ledger; only Store, Second and CommitTick touch either.
LEMMA SendingStutter ==
    ASSUME UNCHANGED status, \A e \in Events : row'[e].stored = row[e].stored
    PROVE  UNCHANGED Sending!ledger
<1>1. Stored' = Stored
    BY DEF Stored
<1>2. QED
    BY <1>1 DEF Sending!ledger

\* Every step of the publisher is a step of AlertLedger or changes nothing of
\* it.
LEMMA SendingStep == OInv /\ OInv' /\ [PublisherNext]_publisherVars => [Sending!Next]_Sending!ledger
<1> SUFFICES ASSUME OInv, OInv', [PublisherNext]_publisherVars PROVE [Sending!Next]_Sending!ledger
    OBVIOUS
<1>1. /\ row \in [Events -> Row] /\ status \in [Events -> {"none", "pending", "sent"}]
      /\ \A e \in Events : status[e] = "sent" => row[e].stored
    BY DEF OInv, PublisherTypeOK, SentWasAccepted
<1>2. ASSUME NEW events \in SUBSET Events, Store(events) PROVE Sending!Record
    <2>1. /\ \A e \in events : ~ row[e].stored /\ row'[e].stored /\ status'[e] = "pending"
          /\ \A e \in Events \ events : row'[e] = row[e] /\ status'[e] = status[e]
        BY <1>1, <1>2, StoreShape
    <2>2. Stored \subseteq Stored'
        BY <2>1 DEF Stored
    <2>3. Sent' = Sent
        BY <1>1, <2>1 DEF Sent
    <2>4. QED
        BY <2>2, <2>3 DEF Sending!Record, Sent, Stored
<1>3. CASE CommitTick
    <2>1. \A e \in Events : row'[e].stored = row[e].stored
        BY <1>3, CommitShape DEF OInv
    <2>2. \A e \in Events : status'[e] = IF e \in pub.ok THEN "sent" ELSE status[e]
        BY <1>3 DEF CommitTick
    <2>3. \A e \in pub.ok : row[e].stored
        BY DEF OInv, PublisherTypeOK
    <2>4. Stored' = Stored
        BY <2>1 DEF Stored
    <2>5. Sent \subseteq Sent' /\ Sent' \subseteq Stored
        BY <1>1, <2>2, <2>3 DEF Sent, Stored
    <2>6. QED
        BY <2>4, <2>5 DEF Sending!Deliver, Sending!Next, Sent
<1>4. CASE Second
    <2>1. row' = [e \in Events |-> [row[e] EXCEPT !.wait = Larger(@ - 1, 0)]]
        BY <1>4 DEF Second
    <2>2. \A e \in Events : row'[e].stored = row[e].stored
        BY ONLY <1>1, <2>1 DEF Row
    <2>3. QED
        BY <1>4, <2>2, SendingStutter DEF Second
<1>5. CASE UNCHANGED <<row, status>>
    BY <1>5, SendingStutter
<1>6. QED
    BY <1>2, <1>3, <1>4, <1>5 DEF PublisherNext, Run, Try, SelectNothing, Select, Restart, Fail,
       PublisherCrash, Publish, Refuse, LoseAck, publisherVars, Sending!Next

\* Every step of the publisher sends alerts as AlertLedger allows: only ones
\* that are owed, and for good.
THEOREM PublisherImplementsLedger == PublisherSpec => SendingSpec
<1>1. PublisherInit => Sending!Init
    BY DEF PublisherInit, Sending!Init, Stored, NoRow
<1>2. QED
    BY <1>1, SendingStep, PublisherInvariance, PTL DEF PublisherSpec, SendingSpec, Sending!Spec
=============================================================================
