-------------------------- MODULE PollQueueProofs --------------------------
(***************************************************************************)
(* What holds of the scheduler, the poll queue and the pollers for every   *)
(* set of pairs, messages and pollers, every interval and every delay.     *)
(***************************************************************************)
EXTENDS PollQueue, FiniteSetTheorems, TLAPS

-----------------------------------------------------------------------------
(* Types.                                                                  *)

SchedType ==
    /\ sched \in Scheduler
    /\ sched.pc # "sending" => sched.todo \cup sched.sent = {}
PollType ==
    /\ poll \in [Pollers -> Poller]
    /\ \A p \in Pollers : poll[p].pc = "idle" => poll[p] = Idle
QueueType == queue \in [Ids -> Message]
RowsType ==
    /\ reg \in [Pairs -> {"absent", "active", "inactive", "removed"}]
    /\ wait \in [Pairs -> Nat]
AuxType ==
    /\ faults \in 0 .. MaxFaults
    /\ gap \in [Pairs -> Nat]
    /\ lost \subseteq Pairs

\* The type invariant, variable by variable.
LEMMA TypeParts ==
    /\ TypeOK <=> SchedType /\ PollType /\ QueueType /\ RowsType /\ AuxType
    /\ TypeOK' <=> SchedType' /\ PollType' /\ QueueType' /\ RowsType' /\ AuxType'
BY DEF TypeOK, SchedType, PollType, QueueType, RowsType, AuxType

\* A sleeping scheduler has no tick.
LEMMA AsleepShape ==
    ASSUME NEW n \in Nat
    PROVE  /\ SchedulerAsleep(n) \in Scheduler
           /\ SchedulerAsleep(n).pc = "asleep"
           /\ SchedulerAsleep(n).todo = {} /\ SchedulerAsleep(n).sent = {}
BY QueueAssumption DEF SchedulerAsleep, Scheduler

\* A poller between batches, or down, holds nothing.
LEMMA IdleShape ==
    /\ Idle \in Poller /\ Down \in Poller
    /\ Idle.pc = "idle" /\ Idle.held = {} /\ Idle.gone = {} /\ Idle.pairs = {}
    /\ Down.pc = "down" /\ Down.held = {} /\ Down.gone = {} /\ Down.pairs = {}
BY QueueAssumption DEF Idle, Down, Poller

\* A claim or an observation keeps the times that are left.
LEMMA CheckedShape ==
    ASSUME wait \in [Pairs -> Nat], NEW age \in 0 .. MaxLag, NEW S,
           CheckedAgo(age, S)
    PROVE  /\ wait' \in [Pairs -> Nat]
           /\ \A pair \in Pairs : wait'[pair] =
                 IF pair \in S THEN Larger(Interval[pair] - age, 0) ELSE wait[pair]
<1>1. \A pair \in Pairs : Larger(Interval[pair] - age, 0) \in Nat
    BY QueueAssumption DEF Larger
<1>2. QED
    BY <1>1 DEF CheckedAgo

\* One message changes, and keeps its type.
LEMMA OneMessage ==
    ASSUME QueueType, NEW m \in Ids, NEW new \in Message,
           queue' = [queue EXCEPT ![m] = new]
    PROVE  QueueType'
BY DEF QueueType

\* The absent message has the type of a message.
LEMMA NoMessageType == NoMessage \in Message
BY QueueAssumption DEF NoMessage, Message

\* The delay of a message is a number of seconds.
LEMMA DelayType ==
    ASSUME SchedType, IsFiniteSet(Pairs), sched.todo # {}
    PROVE  StaggerDelay(Cardinality(sched.sent),
                        Cardinality(sched.todo \cup sched.sent)) \in Nat
<1>1. sched.todo \subseteq Pairs /\ sched.sent \subseteq Pairs
    BY DEF SchedType, Scheduler
<1> DEFINE k == Cardinality(sched.sent)
           n == Cardinality(sched.todo \cup sched.sent)
<1>2. k \in Nat /\ n \in Nat /\ n # 0
    BY <1>1, FS_Subset, FS_CardinalityType, FS_EmptySet
<1> HIDE DEF k, n
<1>3. k * Window \in Nat
    BY <1>2, QueueAssumption
<1>4. (k * Window) \div n \in Nat
    BY <1>2, <1>3
<1>5. QED
    BY <1>4, QueueAssumption DEF StaggerDelay, Smaller, k, n

\* A poller's new record, put in its place.
LEMMA OnePoller ==
    ASSUME PollType, NEW p \in Pollers, NEW new \in Poller,
           new.pc = "idle" => new = Idle,
           poll' = [poll EXCEPT ![p] = new]
    PROVE  PollType'
BY DEF PollType

\* The types hold at the start.
LEMMA InitType == Init => TypeOK
<1> SUFFICES ASSUME Init PROVE TypeOK
    OBVIOUS
<1>1. SchedType
    BY AsleepShape DEF Init, SchedType
<1>2. PollType
    BY IdleShape DEF Init, PollType
<1>3. QueueType
    BY NoMessageType DEF Init, QueueType
<1>4. RowsType
    BY DEF Init, RowsType
<1>5. AuxType
    BY QueueAssumption DEF Init, AuxType
<1>6. QED
    BY <1>1, <1>2, <1>3, <1>4, <1>5, TypeParts

\* Faults only run out.
LEMMA FaultType ==
    ASSUME AuxType, UNCHANGED sends, UNCHANGED faults \/ \E f \in Faults : Fault(f)
    PROVE  AuxType'
BY QueueAssumption DEF AuxType, Fault, sends

\* Time passes: every timer runs down, every age grows to its bound.
LEMMA TickType == TypeOK /\ Tick => TypeOK'
<1> SUFFICES ASSUME TypeOK, Tick PROVE TypeOK'
    OBVIOUS
<1>1. SchedType /\ PollType /\ QueueType /\ RowsType /\ AuxType
    BY TypeParts
<1>2. \A n \in Nat : Left(n) \in Nat
    BY DEF Left, Larger
<1>3. RowsType'
    BY <1>1, <1>2 DEF Tick, RowsType
<1>4. QueueType'
    <2>1. ASSUME NEW m \in Ids
          PROVE  [queue[m] EXCEPT !.timer = Left(queue[m].timer)] \in Message
        <3>1. queue[m] \in Message
            BY <1>1 DEF QueueType
        <3>2. Left(queue[m].timer) \in Nat
            BY ONLY <1>2, <3>1 DEF Message
        <3>3. QED
            BY ONLY <3>1, <3>2 DEF Message
    <2>2. QED
        BY <2>1 DEF Tick, QueueType
<1>5. SchedType'
    <2> DEFINE age == IF sched.pc = "sending" THEN sched.age + 1 ELSE sched.age
    <2>1. sched \in Scheduler /\ Left(sched.nap) \in Nat
        BY <1>1, <1>2 DEF SchedType, Scheduler
    <2>2. age \in 0 .. MaxLag
        BY <2>1, QueueAssumption DEF Tick, Scheduler
    <2>3. sched' = [sched EXCEPT !.nap = Left(sched.nap), !.age = age]
        BY DEF Tick
    <2> HIDE DEF age
    <2>4. /\ sched' \in Scheduler /\ sched'.pc = sched.pc
          /\ sched'.todo = sched.todo /\ sched'.sent = sched.sent
        BY ONLY <2>1, <2>2, <2>3 DEF Scheduler
    <2>5. QED
        BY <1>1, <2>4 DEF SchedType
<1>6. PollType'
    <2>1. ASSUME NEW p \in Pollers
          PROVE  /\ poll'[p] \in Poller
                 /\ poll'[p].pc = "idle" => poll'[p] = Idle
        <3> DEFINE age == IF poll[p].pc = "evaluating" THEN poll[p].age + 1
                                                       ELSE poll[p].age
        <3>1. poll[p] \in Poller /\ (poll[p].pc = "idle" => poll[p] = Idle)
            BY <1>1 DEF PollType
        <3>2. age \in 0 .. MaxLag
            BY <3>1, QueueAssumption DEF Tick, Poller
        <3>3. poll'[p] = [poll[p] EXCEPT !.age = age]
            BY DEF Tick
        <3>4. poll[p].pc = "idle" => age = poll[p].age
            OBVIOUS
        <3> HIDE DEF age
        <3>5. poll'[p] \in Poller /\ poll'[p].pc = poll[p].pc
            BY ONLY <3>1, <3>2, <3>3 DEF Poller
        <3>6. poll[p].pc = "idle" => poll'[p] = poll[p]
            BY ONLY <3>1, <3>3, <3>4 DEF Poller
        <3>7. QED
            BY ONLY <3>1, <3>5, <3>6
    <2>2. poll' \in [Pollers -> Poller]
        BY <2>1 DEF Tick
    <2>3. QED
        BY <2>1, <2>2 DEF PollType
<1>7. AuxType'
    <2>1. \A pair \in Pairs : Smaller(gap[pair] + 1, Interval[pair]) \in Nat
        BY <1>1, QueueAssumption DEF AuxType, Smaller
    <2>2. QED
        BY <1>1, <2>1 DEF Tick, AuxType
<1>8. QED
    BY <1>3, <1>4, <1>5, <1>6, <1>7, TypeParts

-----------------------------------------------------------------------------
(* The scheduler's steps.                                                  *)

\* A message that is sent keeps the types.
LEMMA SendType == ASSUME TypeOK, NEW pair \in Pairs, Send(pair) PROVE TypeOK'
<1>1. SchedType /\ PollType /\ QueueType /\ RowsType /\ AuxType
    BY TypeParts
<1>2. PICK m \in Fresh :
            /\ sched.pc = "sending" /\ pair \in sched.todo
            /\ queue' = [queue EXCEPT ![m] = [NoMessage EXCEPT
                          !.pair = pair,
                          !.timer = StaggerDelay(Cardinality(sched.sent),
                                      Cardinality(sched.todo \cup sched.sent))]]
            /\ sched' = [sched EXCEPT !.todo = @ \ {pair}, !.sent = @ \cup {pair}]
            /\ gap' = [gap EXCEPT ![pair] = 0]
            /\ lost' = lost \ {pair}
            /\ UNCHANGED <<reg, wait, poll, faults>>
    BY DEF Send, pairsTable
<1> DEFINE d == StaggerDelay(Cardinality(sched.sent),
                             Cardinality(sched.todo \cup sched.sent))
<1>3. d \in Nat
    BY <1>1, <1>2, DelayType, QueueAssumption
<1>4. QueueType'
    <2> HIDE DEF d
    <2>1. [NoMessage EXCEPT !.pair = pair, !.timer = d] \in Message
        BY ONLY <1>3, NoMessageType, pair \in Pairs DEF Message
    <2>2. m \in Ids
        BY DEF Fresh
    <2>3. queue' = [queue EXCEPT ![m] = [NoMessage EXCEPT !.pair = pair, !.timer = d]]
        BY <1>2 DEF d
    <2>4. QED
        BY <1>1, <2>1, <2>2, <2>3, OneMessage
<1>5. SchedType'
    <2>1. sched \in Scheduler
        BY <1>1 DEF SchedType
    <2>2. sched' \in Scheduler /\ sched'.pc = "sending"
        BY ONLY <2>1, <1>2, pair \in Pairs DEF Scheduler
    <2>3. QED
        BY <2>2 DEF SchedType
<1>6. PollType' /\ RowsType' /\ AuxType'
    BY <1>1, <1>2 DEF PollType, RowsType, AuxType
<1>7. QED
    BY <1>4, <1>5, <1>6, TypeParts

\* Every step and every fault of the scheduler keeps the types.
LEMMA SchedulerTypes ==
    ASSUME TypeOK, Schedule \/ SchedulerFault
    PROVE  TypeOK'
<1>1. SchedType /\ PollType /\ QueueType /\ RowsType /\ AuxType
    BY TypeParts
<1>2. TickInterval \in Nat /\ 0 \in Nat
    BY QueueAssumption
<1>3. SchedulerAsleep(0) \in Scheduler /\ SchedulerAsleep(TickInterval) \in Scheduler
    BY <1>2, AsleepShape
<1>4. CASE SelectNothing \/ SchedulerRestarts
    <2>1. SchedType'
        BY <1>2, <1>4, AsleepShape DEF SelectNothing, SchedulerRestarts, SchedType
    <2>2. PollType' /\ QueueType' /\ RowsType' /\ AuxType'
        BY <1>1, <1>4 DEF SelectNothing, SchedulerRestarts, pairsTable, sends,
            PollType, QueueType, RowsType, AuxType
    <2>3. QED
        BY <2>1, <2>2, TypeParts
<1>5. CASE SelectDue
    <2>1. Due \subseteq Pairs
        BY DEF Due
    <2>2. sched' \in Scheduler /\ sched'.pc = "sending"
        <3>1. sched' = [SchedulerAsleep(0) EXCEPT !.pc = "sending", !.todo = Due]
            BY <1>5 DEF SelectDue
        <3>2. QED
            BY ONLY <1>3, <2>1, <3>1 DEF Scheduler
    <2>3. SchedType'
        BY <2>2 DEF SchedType
    <2>4. PollType' /\ QueueType' /\ RowsType' /\ AuxType'
        BY <1>1, <1>5 DEF SelectDue, pairsTable, sends,
            PollType, QueueType, RowsType, AuxType
    <2>5. QED
        BY <2>3, <2>4, TypeParts
<1>6. ASSUME NEW pair \in Pairs, Send(pair) PROVE TypeOK'
    BY <1>6, SendType
<1>7. CASE CommitClaims
    <2>1. SchedType'
        BY <1>2, <1>7, AsleepShape DEF CommitClaims, SchedType
    <2>2. sched.age \in 0 .. MaxLag
        BY <1>1 DEF SchedType, Scheduler
    <2>3. RowsType'
        BY <1>1, <1>7, <2>2, CheckedShape DEF CommitClaims, RowsType
    <2>4. PollType' /\ QueueType' /\ AuxType'
        BY <1>1, <1>7 DEF CommitClaims, sends, PollType, QueueType, AuxType
    <2>5. QED
        BY <2>1, <2>3, <2>4, TypeParts
<1>8. CASE SchedulerFault
    <2>1. SchedType'
        <3>1. CASE SchedulerFails
            BY <1>2, <3>1, AsleepShape DEF SchedulerFails, SchedType
        <3>2. CASE SchedulerCrashes
            <4>1. sched' = [SchedulerAsleep(0) EXCEPT !.pc = "down"]
                BY <3>2 DEF SchedulerCrashes
            <4>2. SchedulerAsleep(0).todo = {} /\ SchedulerAsleep(0).sent = {}
                BY <1>2, AsleepShape
            <4>3. sched' \in Scheduler /\ sched'.todo \cup sched'.sent = {}
                BY ONLY <1>3, <4>1, <4>2 DEF Scheduler
            <4>4. QED
                BY <4>3 DEF SchedType
        <3>3. QED
            BY <1>8, <3>1, <3>2 DEF SchedulerFault
    <2>2. lost' \subseteq Pairs
        BY <1>1, <1>8 DEF SchedulerFault, SchedulerFails, SchedulerCrashes, AuxType,
            SchedType, Scheduler
    <2>3. faults' \in 0 .. MaxFaults
        BY <1>1, <1>8, QueueAssumption DEF SchedulerFault, SchedulerFails, SchedulerCrashes,
            AuxType, Fault
    <2>4. AuxType'
        BY <1>1, <1>8, <2>2, <2>3 DEF SchedulerFault, SchedulerFails, SchedulerCrashes,
            AuxType
    <2>5. PollType' /\ QueueType' /\ RowsType'
        BY <1>1, <1>8 DEF SchedulerFault, SchedulerFails, SchedulerCrashes, pairsTable,
            PollType, QueueType, RowsType
    <2>6. QED
        BY <2>1, <2>4, <2>5, TypeParts
<1>9. QED
    BY <1>4, <1>5, <1>6, <1>7, <1>8 DEF Schedule

-----------------------------------------------------------------------------
(* The queue's and the pollers' steps.                                     *)

\* What a receive does to the queue and to its poller.
LEMMA ReceiveShape ==
    ASSUME TypeOK, NEW p \in Pollers, NEW n \in Ids, Receive(p, n)
    PROVE  /\ QueueType'
           /\ \A m \in Ids : /\ queue'[m].pair = queue[m].pair
                             /\ queue'[m].served = queue[m].served
           /\ \E new \in Poller :
                /\ poll' = [poll EXCEPT ![p] = new]
                /\ new.pc = "batch"
                /\ new.gone \subseteq new.held
                /\ \A m \in new.gone : reg[queue[m].pair] = "removed"
           /\ UNCHANGED <<reg, wait, sched, faults, gap, lost>>
<1>1. SchedType /\ PollType /\ QueueType /\ RowsType /\ AuxType
    BY TypeParts
<1>2. PICK batch \in SUBSET Visible, held \in SUBSET Visible :
            /\ held \subseteq batch
            /\ queue' = [m \in Ids |-> IF m \in batch
                   THEN [queue[m] EXCEPT !.timer = Visibility, !.holder = p,
                           !.receives = Smaller(queue[m].receives + 1, MaxReceives)]
                   ELSE queue[m]]
            /\ poll' = [poll EXCEPT ![p] = [Idle EXCEPT
                  !.pc = "batch", !.held = held,
                  !.gone = {m \in held : reg[queue[m].pair] = "removed"},
                  !.pairs = {q \in PairsOf(batch) : reg[q] # "removed"}]]
            /\ UNCHANGED <<reg, wait, sched, faults, gap, lost>>
    BY DEF Receive, pairsTable, sends
<1>3. batch \subseteq Ids /\ held \subseteq Ids
    BY DEF Visible, Live
<1>4. ASSUME NEW m \in Ids
      PROVE  /\ queue'[m] \in Message
             /\ queue'[m].pair = queue[m].pair
             /\ queue'[m].served = queue[m].served
    <2> DEFINE r == Smaller(queue[m].receives + 1, MaxReceives)
    <2>1. queue[m] \in Message
        BY <1>1 DEF QueueType
    <2>2. r \in 0 .. MaxReceives /\ Visibility \in Nat
        BY <2>1, QueueAssumption DEF Smaller, Message
    <2>3. queue'[m] = IF m \in batch
                      THEN [queue[m] EXCEPT !.timer = Visibility, !.holder = p,
                                            !.receives = r]
                      ELSE queue[m]
        BY <1>2
    <2> HIDE DEF r
    <2>4. QED
        BY ONLY <2>1, <2>2, <2>3, p \in Pollers DEF Message
<1>5. QueueType'
    BY <1>2, <1>4 DEF QueueType
<1> DEFINE gone == {m \in held : reg[queue[m].pair] = "removed"}
           pairs == {q \in PairsOf(batch) : reg[q] # "removed"}
           new == [Idle EXCEPT !.pc = "batch", !.held = held,
                               !.gone = gone, !.pairs = pairs]
<1>6. pairs \subseteq Pairs
    <2>1. \A m \in batch : queue[m] \in Message /\ queue[m].pair # {}
        BY <1>1, <1>3 DEF QueueType, Visible, Live
    <2>2. QED
        BY <2>1 DEF PairsOf, Message
<1>7. gone \subseteq held /\ \A m \in gone : reg[queue[m].pair] = "removed"
    OBVIOUS
<1>8. poll' = [poll EXCEPT ![p] = new]
    BY <1>2
<1>9. new \in Poller /\ new.pc = "batch" /\ new.gone = gone /\ new.held = held
    <2> HIDE DEF gone, pairs
    <2>1. Idle \in Poller
        BY IdleShape
    <2>2. gone \subseteq Ids
        BY <1>3, <1>7
    <2>3. QED
        BY ONLY <1>3, <1>6, <2>1, <2>2 DEF Poller
<1> HIDE DEF new, gone, pairs
<1>10. QED
    BY <1>2, <1>4, <1>5, <1>7, <1>8, <1>9

\* A poller either drops its batch or goes on with it; when it comes to
\* delete, the messages of the pairs it goes on with are served.
Dropped(new) == new.gone = {} /\ new.held = {}
GoesOn(new, old) ==
    /\ new.gone = old.gone /\ new.held = old.held /\ new.pairs \subseteq old.pairs
    /\ new.pc # "idle"
    /\ new.pc = "deleting" =>
          \A m \in Ids : queue'[m].pair \in new.pairs => queue'[m].served

\* A step of a poller drops its batch or goes on with it.
LEMMA PollerShape ==
    ASSUME TypeOK, NEW p \in Pollers,
           NoQuotes(p) \/ Quotes(p) \/ Commit(p) \/ Delete(p) \/ Restart(p)
             \/ PollerFault(p)
    PROVE  \E new \in Poller :
                /\ poll' = [poll EXCEPT ![p] = new]
                /\ new.pc = "idle" => new = Idle
                /\ Dropped(new) \/ GoesOn(new, poll[p])
<1>1. poll[p] \in Poller /\ QueueType
    BY DEF TypeOK, QueueType
<1>2. /\ Dropped(Idle) /\ Dropped(Down) /\ Down.pc # "idle"
      /\ Idle \in Poller /\ Down \in Poller
    BY IdleShape DEF Dropped
<1>3. CASE Raise(p) \/ Delete(p) \/ DeleteFails(p) \/ Restart(p)
    <2>1. poll' = [poll EXCEPT ![p] = Idle]
        BY <1>3 DEF Raise, Delete, DeleteFails, Restart
    <2>2. QED
        BY <1>2, <2>1
<1>4. CASE Crash(p)
    <2>1. poll' = [poll EXCEPT ![p] = Down]
        BY <1>4 DEF Crash
    <2>2. QED
        BY <1>2, <2>1
<1>5. CASE NoQuotes(p)
    <2> DEFINE new == [poll[p] EXCEPT !.pc = "deleting", !.pairs = {}]
    <2>1. poll' = [poll EXCEPT ![p] = new]
        <3>1. poll' = [poll EXCEPT ![p].pc = "deleting", ![p].pairs = {}]
            BY <1>5 DEF NoQuotes
        <3>2. poll \in [Pollers -> Poller]
            BY DEF TypeOK
        <3>3. QED
            BY ONLY <3>1, <3>2, p \in Pollers DEF Poller
    <2>2. new \in Poller /\ GoesOn(new, poll[p])
        BY ONLY <1>1 DEF GoesOn, Poller
    <2>3. new.pc # "idle"
        BY <2>2 DEF GoesOn
    <2>4. QED
        BY <2>1, <2>2, <2>3
<1>6. CASE Quotes(p)
    <2> DEFINE new == [poll[p] EXCEPT !.pc = "evaluating",
                                      !.pairs = poll[p].pairs \ Unlisted]
    <2>1. poll' = [poll EXCEPT ![p] = new]
        <3>1. poll' = [poll EXCEPT ![p].pc = "evaluating", ![p].pairs = @ \ Unlisted]
            BY <1>6 DEF Quotes
        <3>2. poll \in [Pollers -> Poller]
            BY DEF TypeOK
        <3>3. QED
            BY ONLY <3>1, <3>2, p \in Pollers DEF Poller
    <2>2. new \in Poller /\ GoesOn(new, poll[p])
        BY ONLY <1>1 DEF GoesOn, Poller
    <2>3. new.pc # "idle"
        BY <2>2 DEF GoesOn
    <2>4. QED
        BY <2>1, <2>2, <2>3
<1>7. CASE Commit(p)
    <2> DEFINE new == [poll[p] EXCEPT !.pc = "deleting", !.age = 0]
    <2>1. poll' = [poll EXCEPT ![p] = new]
        <3>1. poll' = [poll EXCEPT ![p].pc = "deleting", ![p].age = 0]
            BY <1>7 DEF Commit
        <3>2. poll \in [Pollers -> Poller]
            BY DEF TypeOK
        <3>3. QED
            BY ONLY <3>1, <3>2, p \in Pollers DEF Poller
    <2>2. \A m \in Ids : queue'[m].pair \in poll[p].pairs => queue'[m].served
        <3>1. queue' = [m \in Ids |-> [queue[m] EXCEPT
                          !.served = queue[m].served \/ queue[m].pair \in poll[p].pairs]]
            BY <1>7 DEF Commit
        <3>2. SUFFICES ASSUME NEW m \in Ids, queue'[m].pair \in poll[p].pairs
                       PROVE  queue'[m].served
            OBVIOUS
        <3>3. queue[m] \in Message
            BY <1>1 DEF QueueType
        <3>4. /\ queue'[m].pair = queue[m].pair
              /\ queue'[m].served = (queue[m].served \/ queue[m].pair \in poll[p].pairs)
            BY ONLY <3>1, <3>3, m \in Ids DEF Message
        <3>5. QED
            BY <3>2, <3>4
    <2>3. 0 \in 0 .. MaxLag
        BY QueueAssumption
    <2>4. /\ new \in Poller /\ new.pc = "deleting" /\ new.gone = poll[p].gone
          /\ new.held = poll[p].held /\ new.pairs = poll[p].pairs
        BY ONLY <1>1, <2>3 DEF Poller
    <2> HIDE DEF new
    <2>5. GoesOn(new, poll[p]) /\ new.pc # "idle"
        BY <2>2, <2>4 DEF GoesOn
    <2>6. QED
        BY <2>1, <2>4, <2>5
<1>8. QED
    BY <1>3, <1>4, <1>5, <1>6, <1>7 DEF PollerFault

\* A poller's commit marks messages as served and no message as unserved.
LEMMA CommitShape ==
    ASSUME TypeOK, NEW p \in Pollers, Commit(p)
    PROVE  /\ QueueType' /\ RowsType'
           /\ \A m \in Ids : /\ queue'[m].pair = queue[m].pair
                             /\ queue[m].served => queue'[m].served
<1>1. QueueType /\ RowsType /\ poll[p] \in Poller
    BY DEF TypeOK, QueueType, RowsType
<1>2. queue' = [m \in Ids |-> [queue[m] EXCEPT
                  !.served = queue[m].served \/ queue[m].pair \in poll[p].pairs]]
    BY DEF Commit
<1>3. ASSUME NEW m \in Ids
      PROVE  /\ queue'[m] \in Message
             /\ queue'[m].pair = queue[m].pair
             /\ queue[m].served => queue'[m].served
    <2>1. queue[m] \in Message
        BY <1>1 DEF QueueType
    <2>2. QED
        BY ONLY <1>2, <2>1, m \in Ids DEF Message
<1>4. poll[p].age \in 0 .. MaxLag
    BY <1>1 DEF Poller
<1>5. RowsType'
    BY <1>1, <1>4, CheckedShape DEF Commit, RowsType
<1>6. QED
    BY <1>2, <1>3, <1>5 DEF QueueType

\* Every step and every fault of a poller keeps the types.
LEMMA PollerTypes ==
    ASSUME TypeOK, NEW p \in Pollers, Process(p) \/ PollerFault(p)
    PROVE  TypeOK'
<1>1. SchedType /\ PollType /\ QueueType /\ RowsType /\ AuxType
    BY TypeParts
<1>2. PollType'
    BY <1>1, PollerShape, OnePoller DEF Process
<1>3. QueueType'
    <2>1. CASE Commit(p)
        BY <2>1, CommitShape
    <2>2. CASE Delete(p)
        BY <1>1, <2>2, NoMessageType DEF Delete, QueueType
    <2>3. CASE ~ Commit(p) /\ ~ Delete(p)
        BY <1>1, <2>3 DEF Process, PollerFault, NoQuotes, Quotes, Raise, DeleteFails,
            Crash, Restart, QueueType
    <2>4. QED
        BY <2>1, <2>2, <2>3
<1>4. RowsType'
    <2>1. CASE Commit(p)
        BY <2>1, CommitShape
    <2>2. CASE ~ Commit(p)
        BY <1>1, <2>2 DEF Process, PollerFault, NoQuotes, Quotes, Raise, Delete,
            DeleteFails, Crash, Restart, pairsTable, RowsType
    <2>3. QED
        BY <2>1, <2>2
<1>5. SchedType'
    BY <1>1 DEF Process, PollerFault, NoQuotes, Quotes, Raise, Commit, Delete,
        DeleteFails, Crash, Restart, SchedType
<1>6. AuxType'
    <2>1. UNCHANGED sends
        BY DEF Process, PollerFault, NoQuotes, Quotes, Raise, Commit, Delete,
            DeleteFails, Crash, Restart
    <2>2. UNCHANGED faults \/ \E f \in Faults : Fault(f)
        BY DEF Process, PollerFault, NoQuotes, Quotes, Raise, Commit, Delete,
            DeleteFails, Crash, Restart, Fault
    <2>3. QED
        BY <1>1, <2>1, <2>2, FaultType
<1>7. QED
    BY <1>2, <1>3, <1>4, <1>5, <1>6, TypeParts

\* Each step keeps the types.
LEMMA TypeStep == TypeOK /\ [Next]_vars => TypeOK'
<1> SUFFICES ASSUME TypeOK, [Next]_vars PROVE TypeOK'
    OBVIOUS
<1>1. SchedType /\ PollType /\ QueueType /\ RowsType /\ AuxType
    BY TypeParts
<1>2. CASE UNCHANGED vars
    BY <1>2 DEF vars, TypeOK
<1>3. CASE Tick
    BY <1>3, TickType
<1>4. CASE Schedule \/ SchedulerFault
    BY <1>4, SchedulerTypes
<1>5. ASSUME NEW pair \in Pairs, Track(pair) \/ Switch(pair) \/ Remove(pair)
      PROVE  TypeOK'
    <2>1. RowsType'
        BY <1>1, <1>5 DEF Track, Switch, Remove, RowsType
    <2>2. SchedType' /\ PollType' /\ QueueType' /\ AuxType'
        BY <1>1, <1>5 DEF Track, Switch, Remove, sends, SchedType, PollType, QueueType,
            AuxType
    <2>3. QED
        BY <2>1, <2>2, TypeParts
<1>6. ASSUME NEW m \in Ids, Redrive(m) PROVE TypeOK'
    <2>1. QueueType'
        BY <1>1, <1>6, NoMessageType, OneMessage DEF Redrive
    <2>2. SchedType' /\ PollType' /\ RowsType' /\ AuxType'
        BY <1>1, <1>6 DEF Redrive, pairsTable, sends, SchedType, PollType, RowsType,
            AuxType
    <2>3. QED
        BY <2>1, <2>2, TypeParts
<1>7. ASSUME NEW m \in Ids, NEW p \in Pollers, Receive(p, m) PROVE TypeOK'
    <2>1. PICK new \in Poller : /\ poll' = [poll EXCEPT ![p] = new]
                                /\ new.pc = "batch"
        BY <1>7, ReceiveShape
    <2>2. PollType'
        BY <1>1, <2>1, OnePoller
    <2>3. QueueType' /\ UNCHANGED <<reg, wait, sched, faults, gap, lost>>
        BY <1>7, ReceiveShape
    <2>4. SchedType' /\ RowsType' /\ AuxType'
        BY <1>1, <2>3 DEF SchedType, RowsType, AuxType
    <2>5. QED
        BY <2>2, <2>3, <2>4, TypeParts
<1>8. ASSUME NEW p \in Pollers, Process(p) \/ PollerFault(p) PROVE TypeOK'
    BY <1>8, PollerTypes
<1>9. QED
    BY <1>2, <1>3, <1>4, <1>5, <1>6, <1>7, <1>8 DEF Next, ReceiveAny

\* The variables keep their types, and a process that is not in a tick or a
\* batch holds nothing of an earlier one (workers/scheduler.py:86-97,
\* workers/poller.py:143-156).
THEOREM TypeCorrect == Spec => []TypeOK
<1>1. Init => TypeOK
    BY InitType
<1>2. TypeOK /\ [Next]_vars => TypeOK'
    BY TypeStep
<1>3. QED
    BY <1>1, <1>2, PTL DEF Spec

-----------------------------------------------------------------------------
(* No message is lost.                                                     *)

\* What a poller holds: the pairs of its gone messages are gone, and once it
\* deletes, the messages of its pairs are served.
Holding(p) ==
    /\ poll[p].gone \subseteq poll[p].held
    /\ \A m \in poll[p].gone : m \in Live => reg[queue[m].pair] = "removed"
    /\ poll[p].pc = "deleting" =>
          \A m \in poll[p].held : queue[m].pair \in poll[p].pairs => queue[m].served
HeldInv == \A p \in Pollers : Holding(p)

\* A step leaves a message as it is or serves it, takes it away, or makes it
\* out of an id that nobody holds.
Kept(m) == queue'[m].pair = queue[m].pair /\ (queue[m].served => queue'[m].served)

\* In a step a message stays the message it was, leaves, or is new.
LEMMA QueueStep ==
    ASSUME TypeOK, [Next]_vars, NEW m \in Ids
    PROVE  Kept(m) \/ queue'[m].pair = {} \/ m \in Fresh
<1>1. queue \in [Ids -> Message] /\ NoMessage.pair = {}
    BY DEF TypeOK, NoMessage
<1>2. CASE UNCHANGED queue
    BY <1>2 DEF Kept
<1>3. CASE Tick
    <2>1. queue'[m] = [queue[m] EXCEPT !.timer = Left(queue[m].timer)]
        BY <1>3 DEF Tick
    <2>2. queue[m] \in Message
        BY <1>1
    <2>3. QED
        BY ONLY <2>1, <2>2 DEF Kept, Message
<1>4. ASSUME NEW pair \in Pairs, Send(pair)
      PROVE  Kept(m) \/ m \in Fresh
    <2>1. PICK n \in Fresh : \A k \in Ids \ {n} : queue'[k] = queue[k]
        BY <1>1, <1>4 DEF Send
    <2>2. QED
        BY <2>1 DEF Kept
<1>5. ASSUME NEW n \in Ids, Redrive(n)
      PROVE  Kept(m) \/ queue'[m].pair = {}
    BY <1>1, <1>5 DEF Redrive, Kept
<1>6. ASSUME NEW n \in Ids, NEW p \in Pollers, Receive(p, n)
      PROVE  Kept(m)
    <2>1. queue'[m].pair = queue[m].pair /\ queue'[m].served = queue[m].served
        BY <1>6, ReceiveShape
    <2>2. QED
        BY <2>1 DEF Kept
<1>7. ASSUME NEW p \in Pollers, Process(p) \/ PollerFault(p)
      PROVE  Kept(m) \/ queue'[m].pair = {}
    <2>1. CASE Commit(p)
        BY <2>1, CommitShape DEF Kept
    <2>2. CASE Delete(p)
        <3>1. queue'[m] = queue[m] \/ queue'[m] = NoMessage
            BY <2>2 DEF Delete
        <3>2. QED
            BY <1>1, <3>1 DEF Kept
    <2>3. CASE ~ Commit(p) /\ ~ Delete(p)
        <3>1. UNCHANGED queue
            BY <1>7, <2>3 DEF Process, PollerFault, NoQuotes, Quotes, Raise,
                DeleteFails, Crash, Restart
        <3>2. QED
            BY <3>1 DEF Kept
    <2>4. QED
        BY <2>1, <2>2, <2>3
<1>8. CASE Schedule \/ SchedulerFault \/ \E pair \in Pairs : Track(pair) \/ Switch(pair) \/ Remove(pair)
    <2>1. UNCHANGED queue \/ \E pair \in Pairs : Send(pair)
        BY <1>8 DEF Schedule, SchedulerFault, SelectNothing, SelectDue, CommitClaims,
            SchedulerRestarts, SchedulerFails, SchedulerCrashes, Track, Switch, Remove
    <2>2. QED
        BY <1>2, <1>4, <2>1
<1>9. QED
    BY <1>2, <1>3, <1>5, <1>6, <1>7, <1>8 DEF Next, ReceiveAny, vars

\* A pair that is removed stays removed.
LEMMA RemovedStays ==
    ASSUME TypeOK, [Next]_vars, NEW pair \in Pairs, reg[pair] = "removed"
    PROVE  reg'[pair] = "removed"
<1>1. UNCHANGED reg \/ \E q \in Pairs : Track(q) \/ Switch(q) \/ Remove(q)
    BY DEF Next, vars, Tick, Schedule, SelectNothing, SelectDue, Send, CommitClaims,
        SchedulerRestarts, SchedulerFault, SchedulerFails, SchedulerCrashes, Redrive,
        ReceiveAny, Receive, Process, NoQuotes, Quotes, Commit, Delete, Restart,
        PollerFault, Raise, DeleteFails, Crash, pairsTable
<1>2. ASSUME NEW q \in Pairs, Track(q) \/ Switch(q) \/ Remove(q)
      PROVE  reg'[pair] = "removed"
    <2>1. /\ reg[q] # "removed"
          /\ \A r \in Pairs \ {q} : reg'[r] = reg[r]
        BY <1>2 DEF TypeOK, Track, Switch, Remove
    <2>2. QED
        BY <2>1
<1>3. QED
    BY <1>1, <1>2

\* What a step makes of a poller.
Same(new, old) ==
    /\ new.pc = old.pc /\ new.held = old.held /\ new.gone = old.gone
    /\ new.pairs = old.pairs
Begins(new) ==
    /\ new.pc = "batch" /\ new.gone \subseteq new.held
    /\ \A m \in new.gone : /\ queue'[m].pair = queue[m].pair
                           /\ reg[queue[m].pair] = "removed"

\* In a step a poller stays as it is, begins a batch, drops it or goes on.
LEMMA PollerStep ==
    ASSUME TypeOK, [Next]_vars, NEW p \in Pollers
    PROVE  \/ Same(poll'[p], poll[p]) \/ Begins(poll'[p])
           \/ Dropped(poll'[p]) \/ GoesOn(poll'[p], poll[p])
<1>1. poll \in [Pollers -> Poller]
    BY DEF TypeOK
<1>2. CASE UNCHANGED poll
    BY <1>2 DEF Same
<1>3. CASE Tick
    <2> DEFINE age == IF poll[p].pc = "evaluating" THEN poll[p].age + 1
                                                   ELSE poll[p].age
    <2>1. poll'[p] = [poll[p] EXCEPT !.age = age]
        BY <1>3 DEF Tick
    <2>2. poll[p] \in Poller
        BY <1>1
    <2> HIDE DEF age
    <2>3. QED
        BY ONLY <2>1, <2>2 DEF Same, Poller
<1>4. ASSUME NEW n \in Ids, NEW q \in Pollers, Receive(q, n)
      PROVE  Same(poll'[p], poll[p]) \/ Begins(poll'[p])
    <2>1. PICK new \in Poller :
            /\ poll' = [poll EXCEPT ![q] = new]
            /\ new.pc = "batch"
            /\ new.gone \subseteq new.held
            /\ \A m \in new.gone : reg[queue[m].pair] = "removed"
        BY <1>4, ReceiveShape
    <2>2. \A m \in Ids : queue'[m].pair = queue[m].pair
        BY <1>4, ReceiveShape
    <2>3. Begins(new)
        BY <2>1, <2>2 DEF Begins, Poller
    <2>4. poll'[p] = new \/ poll'[p] = poll[p]
        BY <1>1, <2>1
    <2>5. QED
        BY <2>3, <2>4 DEF Same
<1>5. ASSUME NEW q \in Pollers, Process(q) \/ PollerFault(q)
      PROVE  Same(poll'[p], poll[p]) \/ Dropped(poll'[p]) \/ GoesOn(poll'[p], poll[p])
    <2>1. PICK new \in Poller :
            /\ poll' = [poll EXCEPT ![q] = new]
            /\ Dropped(new) \/ GoesOn(new, poll[q])
        BY <1>5, PollerShape DEF Process
    <2>2. (poll'[p] = new /\ p = q) \/ poll'[p] = poll[p]
        BY <1>1, <2>1
    <2>3. QED
        BY <2>1, <2>2 DEF Same
<1>6. CASE \/ Schedule \/ SchedulerFault
           \/ \E pair \in Pairs : Track(pair) \/ Switch(pair) \/ Remove(pair)
           \/ \E m \in Ids : Redrive(m)
    <2>1. UNCHANGED poll
        BY <1>6 DEF Schedule, SchedulerFault, SelectNothing, SelectDue, Send,
            CommitClaims, SchedulerRestarts, SchedulerFails, SchedulerCrashes,
            Track, Switch, Remove, Redrive
    <2>2. QED
        BY <1>2, <2>1
<1>7. QED
    BY <1>2, <1>3, <1>4, <1>5, <1>6 DEF Next, ReceiveAny, vars

\* A poller deletes no message but one that was served or whose pair is gone.
LEMMA HeldStep == TypeOK /\ HeldInv /\ [Next]_vars => HeldInv'
<1> SUFFICES ASSUME TypeOK, HeldInv, [Next]_vars, NEW p \in Pollers
             PROVE  Holding(p)'
    BY DEF HeldInv
<1>1. /\ poll[p] \in Poller /\ queue \in [Ids -> Message]
      /\ {} \notin Pairs /\ Holding(p)
    BY QueueAssumption DEF TypeOK, HeldInv
<1>2. \A m \in poll[p].held : m \in Ids /\ (Kept(m) \/ queue'[m].pair = {})
    BY <1>1, QueueStep DEF Fresh, Poller
<1>3. ASSUME NEW m \in poll[p].gone, m \in Live'
      PROVE  reg'[queue'[m].pair] = "removed"
    <2>1. m \in poll[p].held /\ queue'[m].pair # {}
        BY <1>1, <1>3 DEF Holding, Live
    <2>2. queue'[m].pair = queue[m].pair /\ m \in Ids
        BY <1>2, <2>1 DEF Kept
    <2>3. m \in Live /\ queue[m].pair \in Pairs
        BY <1>1, <2>1, <2>2 DEF Live, Message
    <2>4. reg[queue[m].pair] = "removed"
        BY <1>1, <2>3 DEF Holding
    <2>5. QED
        BY <2>2, <2>3, <2>4, RemovedStays
<1>4. CASE Same(poll'[p], poll[p])
    <2>1. ASSUME poll[p].pc = "deleting", NEW m \in poll[p].held,
                 queue'[m].pair \in poll[p].pairs
          PROVE  queue'[m].served
        <3>1. queue'[m].pair # {}
            BY <1>1, <2>1 DEF Poller
        <3>2. Kept(m)
            BY <1>2, <3>1
        <3>3. QED
            BY <1>1, <2>1, <3>2 DEF Kept, Holding
    <2>2. QED
        BY <1>1, <1>3, <1>4, <2>1 DEF Same, Holding
<1>5. CASE Begins(poll'[p])
    <2>1. ASSUME NEW m \in poll'[p].gone, m \in Live'
          PROVE  reg'[queue'[m].pair] = "removed"
        <3>1. /\ queue'[m].pair = queue[m].pair /\ reg[queue[m].pair] = "removed"
              /\ m \in Ids /\ queue'[m].pair # {}
            BY <1>5, <2>1 DEF Begins, Live
        <3>2. queue[m].pair \in Pairs
            BY <1>1, <3>1 DEF Message
        <3>3. QED
            BY <3>1, <3>2, RemovedStays
    <2>2. QED
        BY <1>5, <2>1 DEF Begins, Holding
<1>6. CASE Dropped(poll'[p])
    BY <1>6 DEF Dropped, Holding
<1>7. CASE GoesOn(poll'[p], poll[p])
    <2>1. \A m \in poll[p].held : m \in Ids
        BY <1>2
    <2>2. QED
        BY <1>1, <1>3, <1>7, <2>1 DEF GoesOn, Holding
<1>8. QED
    BY <1>4, <1>5, <1>6, <1>7, PollerStep

\* The messages that a poller deletes belong to pairs that were observed since
\* the messages were sent, or that are gone, for any number of pollers that
\* hold, receive and delete each other's messages (workers/poller.py:80-140).
THEOREM NoMessageLost == Spec => NothingLost
<1>1. Init => HeldInv
    BY IdleShape DEF Init, HeldInv, Holding
<1>2. TypeOK /\ HeldInv /\ [Next]_vars => HeldInv'
    BY HeldStep
<1>3. ASSUME TypeOK, HeldInv
      PROVE  \A p \in Pollers : Delete(p) =>
                \A m \in Live : m \notin Live' =>
                    queue[m].served \/ reg[queue[m].pair] = "removed"
    <2>1. SUFFICES ASSUME NEW p \in Pollers, Delete(p),
                          NEW m \in Live, m \notin Live'
                   PROVE  queue[m].served \/ reg[queue[m].pair] = "removed"
        OBVIOUS
    <2>2. m \in Ids /\ queue \in [Ids -> Message]
        BY <1>3 DEF Live, TypeOK
    <2>3. m \in ToDelete(p)
        <3>1. PICK deleted \in SUBSET ToDelete(p) :
                queue' = [k \in Ids |-> IF k \in deleted THEN NoMessage ELSE queue[k]]
            BY <2>1 DEF Delete
        <3>2. m \in deleted
            BY <2>1, <2>2, <3>1 DEF Live
        <3>3. QED
            BY <3>2
    <2>4. poll[p].pc = "deleting" /\ Holding(p)
        BY <1>3, <2>1 DEF Delete, HeldInv
    <2>5. QED
        BY <2>1, <2>3, <2>4 DEF ToDelete, Holding
<1>4. QED
    BY <1>1, <1>2, <1>3, TypeCorrect, PTL DEF Spec, NothingLost

-----------------------------------------------------------------------------
(* A pair is not sent early.                                               *)

\* Unless its claim was lost or is not committed yet, what a pair has waited
\* since it was last sent, and what it is still to wait, make up its interval;
\* and a pair chosen to be sent has waited it.
EarlyBy(pair) == Interval[pair] - MaxLag
ClaimInv ==
    /\ \A pair \in Pairs \ (lost \cup sched.sent) :
          gap[pair] + wait[pair] >= EarlyBy(pair)
    /\ \A pair \in sched.todo \ lost : gap[pair] >= EarlyBy(pair)

\* After a claim or an observation, that much is left to wait.
LEMMA CheckedWaits ==
    ASSUME TypeOK, NEW age \in 0 .. MaxLag, NEW S, CheckedAgo(age, S),
           UNCHANGED gap, NEW pair \in Pairs,
           pair \in S \/ gap[pair] + wait[pair] >= EarlyBy(pair)
    PROVE  gap'[pair] + wait'[pair] >= EarlyBy(pair)
<1>1. /\ wait \in [Pairs -> Nat] /\ gap[pair] \in Nat /\ Interval[pair] \in Nat
      /\ MaxLag \in Nat
    BY QueueAssumption DEF TypeOK
<1>2. wait'[pair] = IF pair \in S THEN Larger(Interval[pair] - age, 0) ELSE wait[pair]
    BY <1>1, CheckedShape
<1>3. Larger(Interval[pair] - age, 0) >= Interval[pair] - MaxLag
    BY <1>1 DEF Larger
<1>4. Larger(Interval[pair] - age, 0) \in Nat
    BY <1>1 DEF Larger
<1>5. QED
    BY <1>1, <1>2, <1>3, <1>4 DEF EarlyBy

\* No pair has been claimed at the start.
LEMMA ClaimInit == Init => ClaimInv
<1> SUFFICES ASSUME Init PROVE ClaimInv
    OBVIOUS
<1>1. gap = Interval /\ (\A pair \in Pairs : wait[pair] = 0) /\ sched.todo = {}
    BY AsleepShape DEF Init
<1>2. QED
    BY <1>1, QueueAssumption DEF ClaimInv, EarlyBy

\* The time a claim still withholds a pair and the time since its last
\* message keep adding up to the interval, less a transaction.
LEMMA ClaimStep == TypeOK /\ ClaimInv /\ [Next]_vars => ClaimInv'
<1> SUFFICES ASSUME TypeOK, ClaimInv, [Next]_vars PROVE ClaimInv'
    OBVIOUS
<1>1. /\ wait \in [Pairs -> Nat] /\ gap \in [Pairs -> Nat]
      /\ Interval \in [Pairs -> Nat] /\ MaxLag \in Nat
      /\ sched \in Scheduler /\ TickInterval \in Nat
      /\ sched.pc # "sending" => sched.todo = {} /\ sched.sent = {}
    BY QueueAssumption DEF TypeOK
<1>2. CASE UNCHANGED <<wait, gap, lost, sched>>
    BY <1>2 DEF ClaimInv, EarlyBy
<1>3. CASE Tick
    <2>1. UNCHANGED lost /\ sched'.todo = sched.todo /\ sched'.sent = sched.sent
        <3>1. sched' = [sched EXCEPT !.nap = Left(sched.nap), !.age =
                          IF sched.pc = "sending" THEN sched.age + 1 ELSE sched.age]
            BY <1>3 DEF Tick
        <3>2. sched'.todo = sched.todo /\ sched'.sent = sched.sent
            BY ONLY <1>1, <3>1 DEF Scheduler
        <3>3. QED
            BY <1>3, <3>2 DEF Tick
    <2>2. ASSUME NEW pair \in Pairs
          PROVE  /\ gap[pair] + wait[pair] >= EarlyBy(pair)
                      => gap'[pair] + wait'[pair] >= EarlyBy(pair)
                 /\ gap[pair] >= EarlyBy(pair) => gap'[pair] >= EarlyBy(pair)
        <3>1. /\ gap'[pair] = Smaller(gap[pair] + 1, Interval[pair])
              /\ wait'[pair] = Left(wait[pair])
            BY <1>3 DEF Tick
        <3>2. /\ gap[pair] \in Nat /\ wait[pair] \in Nat /\ Interval[pair] \in Nat
            BY <1>1
        <3>3. QED
            BY <1>1, <3>1, <3>2 DEF Smaller, Left, Larger, EarlyBy
    <2>3. sched.todo \subseteq Pairs
        BY <1>1 DEF Scheduler
    <2>4. QED
        BY <2>1, <2>2, <2>3 DEF ClaimInv, EarlyBy
<1>4. CASE SelectDue
    <2>1. /\ sched'.todo = Due /\ sched'.sent = {} /\ sched.sent = {}
          /\ UNCHANGED <<wait, gap, lost>>
        BY <1>1, <1>4 DEF SelectDue, SchedulerAsleep, pairsTable, sends
    <2>2. \A pair \in Due : pair \in Pairs /\ wait[pair] = 0 /\ gap[pair] \in Nat
        BY <1>1 DEF Due
    <2>3. QED
        BY <2>1, <2>2 DEF ClaimInv, EarlyBy
<1>5. ASSUME NEW pair \in Pairs, Send(pair) PROVE ClaimInv'
    <2>1. /\ sched' = [sched EXCEPT !.todo = @ \ {pair}, !.sent = @ \cup {pair}]
          /\ gap' = [gap EXCEPT ![pair] = 0]
          /\ lost' = lost \ {pair}
          /\ wait' = wait
        BY <1>5 DEF Send, pairsTable
    <2>2. sched'.todo = sched.todo \ {pair} /\ sched'.sent = sched.sent \cup {pair}
        BY ONLY <1>1, <2>1 DEF Scheduler
    <2>3. \A q \in Pairs \ {pair} : gap'[q] = gap[q]
        BY <1>1, <2>1
    <2>4. sched.todo \subseteq Pairs
        BY <1>1 DEF Scheduler
    <2>5. QED
        BY <2>1, <2>2, <2>3, <2>4 DEF ClaimInv, EarlyBy
<1>6. CASE CommitClaims
    <2>1. /\ sched'.todo = {} /\ sched'.sent = {} /\ sched.age \in 0 .. MaxLag
          /\ CheckedAgo(sched.age, sched.sent) /\ UNCHANGED <<gap, lost>>
        BY <1>1, <1>6, AsleepShape DEF CommitClaims, sends, Scheduler
    <2>2. ASSUME NEW pair \in Pairs \ lost
          PROVE  gap'[pair] + wait'[pair] >= EarlyBy(pair)
        BY <2>1, <2>2, CheckedWaits DEF ClaimInv
    <2>3. QED
        BY <2>1, <2>2 DEF ClaimInv, EarlyBy
<1>7. CASE SelectNothing \/ SchedulerFails \/ SchedulerCrashes \/ SchedulerRestarts
    <2>1. /\ sched'.todo = {} /\ sched'.sent = {} /\ UNCHANGED <<wait, gap>>
          /\ lost \cup sched.sent = lost'
        BY <1>1, <1>7 DEF SelectNothing, SchedulerFails, SchedulerCrashes,
            SchedulerRestarts, SchedulerAsleep, pairsTable, sends
    <2>2. QED
        BY <2>1 DEF ClaimInv, EarlyBy
<1>8. ASSUME NEW p \in Pollers, Commit(p) PROVE ClaimInv'
    <2>1. /\ UNCHANGED <<sched, gap, lost>>
          /\ CheckedAgo(poll[p].age, poll[p].pairs)
        BY <1>8 DEF Commit, sends
    <2>2. poll[p].age \in 0 .. MaxLag
        BY DEF TypeOK, Poller
    <2>3. ASSUME NEW pair \in Pairs \ (lost \cup sched.sent)
          PROVE  gap'[pair] + wait'[pair] >= EarlyBy(pair)
        BY <2>1, <2>2, CheckedWaits DEF ClaimInv
    <2>4. QED
        BY <2>1, <2>3 DEF ClaimInv, EarlyBy
<1>9. CASE \/ \E pair \in Pairs : Track(pair) \/ Switch(pair) \/ Remove(pair)
           \/ \E m \in Ids : Redrive(m) \/ ReceiveAny(m)
           \/ \E p \in Pollers : (Process(p) /\ ~ Commit(p)) \/ PollerFault(p)
    <2>1. UNCHANGED <<wait, gap, lost, sched>>
        BY <1>9 DEF Track, Switch, Remove, Redrive, ReceiveAny, Receive, Process,
            NoQuotes, Quotes, Delete, Restart, PollerFault, Raise, DeleteFails, Crash,
            pairsTable, sends
    <2>2. QED
        BY <1>2, <2>1
<1>10. QED
    BY <1>2, <1>3, <1>4, <1>5, <1>6, <1>7, <1>8, <1>9
        DEF Next, Schedule, SchedulerFault, vars

\* A pair is sent again only after its interval, less the time a transaction
\* takes, unless the claim of its last tick was lost, for every interval and
\* any number of pollers that write last_checked_at as well
\* (workers/scheduler.py:62-78, workers/poller.py:134).
THEOREM ClaimIsKept == Spec => ClaimKept
<1>1. Init => ClaimInv
    BY ClaimInit
<1>2. TypeOK /\ ClaimInv /\ [Next]_vars => ClaimInv'
    BY ClaimStep
<1>3. TypeOK /\ ClaimInv =>
        \A pair \in Pairs : Send(pair) =>
            gap[pair] >= Interval[pair] - MaxLag \/ pair \in lost
    BY DEF ClaimInv, EarlyBy, Send
<1>4. QED
    BY <1>1, <1>2, <1>3, TypeCorrect, InitType, PTL DEF Spec, ClaimKept

-----------------------------------------------------------------------------
(* Messages of a pair do not pile up.                                      *)

\* The delays of a tick end within the window over which they spread.
LEMMA DelayBound ==
    ASSUME NEW k \in Nat, NEW n \in Nat, k < n
    PROVE  StaggerDelay(k, n) > 0 => StaggerDelay(k, n) < Window
<1>1. Window \in Nat /\ MaxDelay \in Nat
    BY QueueAssumption
<1>2. \A w \in Nat : k * w \in Nat /\ n * w \in Nat /\ (w > 0 => k * w < n * w)
    OBVIOUS
<1>3. \A x \in Nat : x \div n \in Nat /\ n * (x \div n) <= x
    OBVIOUS
<1>4. \A q \in Nat, w \in Nat : q >= w => n * q >= n * w
    OBVIOUS
<1> DEFINE q == (k * Window) \div n
<1>5. q \in Nat /\ n * q <= k * Window
    BY <1>1, <1>2, <1>3
<1> HIDE DEF q
<1>6. Window > 0 => q < Window
    <2>1. SUFFICES ASSUME Window > 0, q >= Window PROVE FALSE
        BY <1>1, <1>5
    <2>2. n * q >= n * Window /\ k * Window < n * Window
        BY <1>1, <1>2, <1>4, <1>5, <2>1
    <2>3. k * Window \in Nat /\ n * Window \in Nat /\ n * q \in Nat
        BY <1>1, <1>2, <1>5
    <2>4. QED
        BY <1>5, <2>2, <2>3
<1>7. Window = 0 => q = 0
    <2>1. SUFFICES ASSUME Window = 0 PROVE q = 0
        OBVIOUS
    <2>2. k * Window = 0 /\ 0 \div n = 0
        BY <2>1
    <2>3. QED
        BY <2>2 DEF q
<1>8. StaggerDelay(k, n) = Smaller(q, MaxDelay)
    BY DEF StaggerDelay, q
<1>9. QED
    BY <1>1, <1>5, <1>6, <1>7, <1>8 DEF Smaller

\* A message that waits out its delay was sent so recently that the window is
\* not over, and so was every later message of its pair.
Waits(m) == queue[m].pair # {} /\ queue[m].receives = 0 /\ queue[m].timer > 0
WaitInv ==
    /\ sched.todo \cap sched.sent = {}
    /\ \A m \in Ids : Waits(m) => queue[m].timer + gap[queue[m].pair] < Window

\* The delay of a message and the time since its pair was last sent stay
\* within the window.
LEMMA WaitStep == TypeOK /\ WaitInv /\ [Next]_vars => WaitInv'
<1> SUFFICES ASSUME TypeOK, WaitInv, [Next]_vars PROVE WaitInv'
    OBVIOUS
<1>1. /\ queue \in [Ids -> Message] /\ gap \in [Pairs -> Nat] /\ sched \in Scheduler
      /\ Window \in Nat /\ Interval \in [Pairs -> Nat] /\ MaxReceives \in Nat \ {0}
      /\ sched.pc # "sending" => sched.todo = {} /\ sched.sent = {}
    BY QueueAssumption DEF TypeOK
<1>2. ASSUME UNCHANGED <<gap, sched>>,
             \A m \in Ids : queue'[m].pair = {} \/ queue'[m].receives # 0
                 \/ /\ queue'[m].pair = queue[m].pair /\ queue'[m].timer = queue[m].timer
                    /\ queue'[m].receives = queue[m].receives
      PROVE  WaitInv'
    BY <1>2 DEF WaitInv, Waits
<1>3. CASE Tick
    <2>1. sched'.todo = sched.todo /\ sched'.sent = sched.sent
        <3>1. sched' = [sched EXCEPT !.nap = Left(sched.nap), !.age =
                          IF sched.pc = "sending" THEN sched.age + 1 ELSE sched.age]
            BY <1>3 DEF Tick
        <3>2. QED
            BY ONLY <1>1, <3>1 DEF Scheduler
    <2>2. ASSUME NEW m \in Ids, Waits(m)'
          PROVE  queue'[m].timer + gap'[queue'[m].pair] < Window
        <3>1. queue'[m] = [queue[m] EXCEPT !.timer = Left(queue[m].timer)]
            BY <1>3 DEF Tick
        <3>2. queue[m] \in Message
            BY <1>1
        <3>3. /\ queue'[m].pair = queue[m].pair /\ queue'[m].receives = queue[m].receives
              /\ queue'[m].timer = Left(queue[m].timer) /\ queue[m].timer \in Nat
            BY ONLY <3>1, <3>2 DEF Message
        <3>4. Waits(m) /\ queue'[m].timer = queue[m].timer - 1
            BY <2>2, <3>3 DEF Waits, Left, Larger
        <3>5. queue[m].pair \in Pairs
            BY <3>2, <3>4 DEF Waits, Message
        <3>6. gap'[queue[m].pair] = Smaller(gap[queue[m].pair] + 1, Interval[queue[m].pair])
            BY <1>3, <3>5 DEF Tick
        <3>7. gap[queue[m].pair] \in Nat /\ Interval[queue[m].pair] \in Nat
            BY <1>1, <3>5
        <3>8. queue[m].timer + gap[queue[m].pair] < Window
            BY <3>4 DEF WaitInv
        <3>9. QED
            BY <1>1, <3>3, <3>4, <3>6, <3>7, <3>8 DEF Smaller
    <2>3. QED
        BY <2>1, <2>2 DEF WaitInv
<1>4. ASSUME NEW pair \in Pairs, Send(pair) PROVE WaitInv'
    <2> DEFINE k == Cardinality(sched.sent)
               n == Cardinality(sched.todo \cup sched.sent)
               new == [NoMessage EXCEPT !.pair = pair, !.timer = StaggerDelay(k, n)]
    <2>1. PICK m \in Fresh :
             /\ pair \in sched.todo /\ queue' = [queue EXCEPT ![m] = new]
             /\ sched' = [sched EXCEPT !.todo = @ \ {pair}, !.sent = @ \cup {pair}]
             /\ gap' = [gap EXCEPT ![pair] = 0]
        BY <1>4 DEF Send
    <2>2. k \in Nat /\ n \in Nat /\ k < n
        <3>1. IsFiniteSet(sched.todo \cup sched.sent)
            BY <1>1, QueueAssumption, FS_Subset DEF Scheduler
        <3>2. sched.sent \subseteq sched.todo \cup sched.sent
              /\ sched.sent # sched.todo \cup sched.sent
            BY <2>1 DEF WaitInv
        <3>3. QED
            BY <3>1, <3>2, FS_Subset, FS_CardinalityType
    <2>3. new.pair = pair /\ new.timer = StaggerDelay(k, n)
        BY DEF NoMessage
    <2> HIDE DEF k, n
    <2>4. new.timer > 0 => new.timer < Window
        BY <2>2, <2>3, DelayBound
    <2>5. StaggerDelay(k, n) \in Nat
        BY <1>1, <2>1, DelayType, QueueAssumption DEF SchedType, TypeOK, k, n
    <2> HIDE DEF new
    <2>6. sched'.todo = sched.todo \ {pair} /\ sched'.sent = sched.sent \cup {pair}
        BY ONLY <1>1, <2>1 DEF Scheduler
    <2>7. ASSUME NEW o \in Ids, Waits(o)'
          PROVE  queue'[o].timer + gap'[queue'[o].pair] < Window
        <3>1. CASE o = m
            <4>1. queue'[o] = new
                BY <1>1, <2>1, <3>1 DEF Fresh
            <4>2. gap'[pair] = 0
                BY <1>1, <2>1
            <4>3. QED
                BY <2>3, <2>4, <2>5, <2>7, <4>1, <4>2 DEF Waits
        <3>2. CASE o # m
            <4>1. queue'[o] = queue[o] /\ queue[o] \in Message
                BY <1>1, <2>1, <3>2
            <4>2. /\ queue[o].timer + gap[queue[o].pair] < Window
                  /\ queue[o].pair \in Pairs /\ queue[o].timer \in Nat
                BY <2>7, <4>1 DEF WaitInv, Waits, Message
            <4>3. gap'[queue[o].pair] = 0 \/ gap'[queue[o].pair] = gap[queue[o].pair]
                BY <1>1, <2>1, <4>2
            <4>4. gap[queue[o].pair] \in Nat
                BY <1>1, <4>2
            <4>5. QED
                BY <1>1, <4>1, <4>2, <4>3, <4>4
        <3>3. QED
            BY <3>1, <3>2
    <2>8. QED
        BY <2>6, <2>7 DEF WaitInv
<1>5. CASE SelectNothing \/ SelectDue \/ CommitClaims \/ SchedulerRestarts \/ SchedulerFault
    <2>1. sched'.sent = {}
        <3>1. CASE SelectDue
            BY <3>1 DEF SelectDue, SchedulerAsleep
        <3>2. CASE SelectNothing \/ CommitClaims \/ SchedulerRestarts
            BY <3>2 DEF SelectNothing, CommitClaims, SchedulerRestarts, SchedulerAsleep
        <3>3. CASE SchedulerFault
            BY <3>3 DEF SchedulerFault, SchedulerFails, SchedulerCrashes, SchedulerAsleep
        <3>4. QED
            BY <1>5, <3>1, <3>2, <3>3
    <2>2. UNCHANGED <<queue, gap>>
        BY <1>5 DEF SelectNothing, SelectDue, CommitClaims, SchedulerRestarts, SchedulerFault,
            SchedulerFails, SchedulerCrashes, sends
    <2>3. QED
        BY <2>1, <2>2 DEF WaitInv, Waits
<1>6. ASSUME NEW m \in Ids, Redrive(m) \/ ReceiveAny(m) PROVE WaitInv'
    <2>1. CASE Redrive(m)
        <3>1. UNCHANGED <<gap, sched>> /\ queue' = [queue EXCEPT ![m] = NoMessage]
            BY <2>1 DEF Redrive, sends
        <3>2. QED
            BY <1>1, <1>2, <3>1 DEF NoMessage
    <2>2. ASSUME NEW p \in Pollers, Receive(p, m) PROVE WaitInv'
        <3>1. PICK batch \in SUBSET Visible :
                 /\ UNCHANGED <<gap, sched>>
                 /\ queue' = [o \in Ids |-> IF o \in batch
                       THEN [queue[o] EXCEPT !.timer = Visibility, !.holder = p,
                               !.receives = Smaller(@ + 1, MaxReceives)]
                       ELSE queue[o]]
            BY <2>2 DEF Receive, sends
        <3>2. ASSUME NEW o \in batch, o \in Ids PROVE queue'[o].receives # 0
            <4>1. queue'[o] = [queue[o] EXCEPT !.timer = Visibility, !.holder = p,
                               !.receives = Smaller(queue[o].receives + 1, MaxReceives)]
                BY <3>1, <3>2
            <4>2. queue[o] \in Message
                BY <1>1, <3>2
            <4>3. queue'[o].receives = Smaller(queue[o].receives + 1, MaxReceives)
                  /\ queue[o].receives \in 0 .. MaxReceives
                BY ONLY <4>1, <4>2 DEF Message
            <4>4. QED
                BY <1>1, <4>3 DEF Smaller
        <3>3. \A o \in Ids \ batch : queue'[o] = queue[o]
            BY <3>1
        <3>4. QED
            BY <1>2, <3>1, <3>2, <3>3
    <2>3. QED
        BY <1>6, <2>1, <2>2 DEF ReceiveAny
<1>7. ASSUME NEW p \in Pollers, Commit(p) PROVE WaitInv'
    <2>1. UNCHANGED <<gap, sched>>
          /\ queue' = [m \in Ids |-> [queue[m] EXCEPT
                  !.served = queue[m].served \/ queue[m].pair \in poll[p].pairs]]
        BY <1>7 DEF Commit, sends
    <2>2. ASSUME NEW m \in Ids
          PROVE  /\ queue'[m].pair = queue[m].pair /\ queue'[m].timer = queue[m].timer
                 /\ queue'[m].receives = queue[m].receives
        <3>1. queue[m] \in Message
            BY <1>1
        <3>2. QED
            BY ONLY <2>1, <3>1, m \in Ids DEF Message
    <2>3. QED
        BY <1>2, <2>1, <2>2
<1>8. ASSUME NEW p \in Pollers, Delete(p) PROVE WaitInv'
    <2>1. PICK deleted \in SUBSET ToDelete(p) :
             /\ UNCHANGED <<gap, sched>>
             /\ queue' = [m \in Ids |-> IF m \in deleted THEN NoMessage ELSE queue[m]]
        BY <1>8 DEF Delete, sends
    <2>2. QED
        BY <1>2, <2>1 DEF NoMessage
<1>9. CASE \/ UNCHANGED vars
           \/ \E pair \in Pairs : Track(pair) \/ Switch(pair) \/ Remove(pair)
           \/ \E p \in Pollers : (Process(p) /\ ~ Commit(p) /\ ~ Delete(p)) \/ PollerFault(p)
    <2>1. UNCHANGED <<queue, gap, sched>>
        BY <1>9 DEF vars, Track, Switch, Remove, Process, NoQuotes, Quotes, Restart,
            PollerFault, Raise, DeleteFails, Crash, pairsTable, sends
    <2>2. QED
        BY <1>2, <2>1
<1>10. QED
    BY <1>3, <1>4, <1>5, <1>6, <1>7, <1>8, <1>9 DEF Next, Schedule

\* A pair whose interval is at least the longest delay and the time that a
\* transaction of the scheduler or of a poller can take is not sent while an
\* earlier message of it waits out its delay, unless its claim was lost
\* (workers/scheduler.py:9-13).
THEOREM NoMessagePilesUp == Spec => NoneWaiting
<1>1. Init => WaitInv
    <2>1. Init => sched.todo = {} /\ \A m \in Ids : queue[m].pair = {}
        BY AsleepShape DEF Init, NoMessage
    <2>2. QED
        BY <2>1 DEF WaitInv, Waits
<1>2. TypeOK /\ WaitInv /\ [Next]_vars => WaitInv'
    BY WaitStep
<1>3. ASSUME TypeOK, ClaimInv, WaitInv
      PROVE  \A pair \in Pairs : Send(pair) /\ Interval[pair] >= (Window - 1) + MaxLag =>
                \/ pair \in lost
                \/ \A m \in Live : queue[m].pair = pair =>
                      queue[m].receives > 0 \/ queue[m].timer = 0
    <2>1. SUFFICES ASSUME NEW pair \in Pairs, Send(pair), Interval[pair] >= (Window - 1) + MaxLag,
                          pair \notin lost, NEW m \in Live, queue[m].pair = pair
                   PROVE  queue[m].receives > 0 \/ queue[m].timer = 0
        OBVIOUS
    <2>2. /\ gap[pair] \in Nat /\ Interval[pair] \in Nat /\ MaxLag \in Nat /\ Window \in Nat
          /\ m \in Ids /\ queue[m] \in Message
        BY <1>3, QueueAssumption DEF TypeOK, Live
    <2>3. queue[m].timer \in Nat /\ queue[m].receives \in Nat
        BY <2>2, QueueAssumption DEF Message
    <2>4. gap[pair] >= Interval[pair] - MaxLag
        BY <1>3, <2>1 DEF ClaimInv, EarlyBy, Send
    <2>5. Waits(m) => queue[m].timer + gap[pair] < Window
        BY <1>3, <2>1, <2>2 DEF WaitInv
    <2>6. QED
        BY <2>1, <2>2, <2>3, <2>4, <2>5 DEF Waits, Live
<1>4. Init => ClaimInv
    BY ClaimInit
<1>5. TypeOK /\ ClaimInv /\ [Next]_vars => ClaimInv'
    BY ClaimStep
<1>6. QED
    BY <1>1, <1>2, <1>3, <1>4, <1>5, TypeCorrect, InitType, PTL DEF Spec, NoneWaiting
=============================================================================
