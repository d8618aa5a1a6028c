----------------------------- MODULE PollQueue -----------------------------
(***************************************************************************)
(* From a pair that is due to an observation of it: the scheduler          *)
(* (workers/scheduler.py) sends a delayed SQS message for each due pair,   *)
(* pollers (workers/poller.py) receive messages, observe their pairs,      *)
(* commit, and only then delete the messages.  What is received and not    *)
(* deleted comes back after the visibility timeout, and goes to the DLQ    *)
(* after too many receives (scripts/setup_sqs.py).                         *)
(*                                                                         *)
(* Time is kept as what is left of each delay, so that it needs no bound.  *)
(* last_checked_at appears as the time left until the pair is due.  What   *)
(* an evaluation records is in module AlertEngine.  Pairs are tracked,     *)
(* switched on and off at any time (workers/discovery.py and               *)
(* api/routes/pairs.py), and may be removed from the table by hand.        *)
(***************************************************************************)
EXTENDS Integers, FiniteSets

CONSTANTS
    Pairs,
    Unlisted,      \* the pairs that the Ticker call never returns
    Ids,           \* message ids: as many messages exist at a time
    Pollers,       \* poller processes (docker-compose.yml starts one)
    Interval,      \* poll_interval_seconds of each pair
    Window,        \* default_poll_interval_seconds, over which sends spread
    MaxDelay,      \* MAX_SQS_DELAY_SECONDS
    TickInterval,  \* TICK_INTERVAL_SECONDS
    Visibility,    \* sqs_visibility_timeout_seconds
    MaxReceives,   \* sqs_max_receive_count
    BatchMax,      \* RECEIVE_MAX_MESSAGES
    MaxLag,        \* bound on the time a transaction takes, from the
                   \* timestamp it writes to its commit
    Registry,      \* which of "track", "switch", "remove" may happen
    Faults,        \* which of "send", "quotes", "raise", "delete", "crash"
    MaxFaults      \* bound on the number of faults

ASSUME QueueAssumption ==
    /\ IsFiniteSet(Pairs) /\ IsFiniteSet(Ids)
    /\ Unlisted \subseteq Pairs
    /\ {} \notin Pairs \cup Pollers
    /\ Interval \in [Pairs -> Nat \ {0}]
    /\ Window \in Nat /\ MaxDelay \in Nat /\ TickInterval \in Nat
    /\ Visibility \in Nat /\ MaxLag \in Nat /\ MaxFaults \in Nat
    /\ MaxReceives \in Nat \ {0}
    /\ BatchMax \in Nat \ {0}
    /\ Registry \subseteq {"track", "switch", "remove"}
    /\ Faults \subseteq {"send", "quotes", "raise", "delete", "crash"}

VARIABLES
    reg,     \* the pairs table: is_active of each pair, and whether it exists
    wait,    \* how long until each pair is due
    queue,   \* the poll queue: what is known of each message
    sched,   \* the scheduler and its open session
    poll,    \* the pollers and their open sessions
    faults,  \* how many faults are still to come
    gap,     \* auxiliary: how long ago each pair was last sent, up to Interval
    lost     \* auxiliary: the pairs last sent in a tick that did not commit

vars == <<reg, wait, queue, sched, poll, faults, gap, lost>>
pairsTable == <<reg, wait>>
sends == <<gap, lost>>

Smaller(a, b) == IF a <= b THEN a ELSE b
Larger(a, b) == IF a >= b THEN a ELSE b
Left(time) == Larger(time - 1, 0)

\* A message is hidden while its timer runs: first for its delay, then for
\* the visibility timeout of whoever received it last.  "served" is
\* auxiliary: its pair was observed since it was sent.
NoMessage == [pair |-> {}, timer |-> 0, receives |-> 0, holder |-> {},
              served |-> FALSE]
Message == [pair : Pairs \cup {{}}, timer : Nat, receives : 0 .. MaxReceives,
            holder : Pollers \cup {{}}, served : BOOLEAN]

Live == {m \in Ids : queue[m].pair # {}}
Visible == {m \in Live : queue[m].timer = 0}
PairsOf(messages) == {queue[m].pair : m \in messages}

\* Ids are unique: one that a poller still holds is not used again.
Fresh == {m \in Ids \ Live : \A p \in Pollers : m \notin poll[p].held}

\* The scheduler: the pairs to send and those sent in this tick, the time
\* since claimed_at, and what is left of its sleep.
Scheduler == [pc : {"asleep", "sending", "down"}, todo : SUBSET Pairs,
              sent : SUBSET Pairs, age : 0 .. MaxLag, nap : Nat]
SchedulerAsleep(nap) ==
    [pc |-> "asleep", todo |-> {}, sent |-> {}, age |-> 0, nap |-> nap]

\* A poller: of its batch, the message kept for each pair (by_pair_id) and
\* the messages whose pair is gone; the pairs it goes on with; the time
\* since observed_at.
Poller == [pc : {"idle", "batch", "evaluating", "deleting", "down"},
           held : SUBSET Ids, gone : SUBSET Ids, pairs : SUBSET Pairs,
           age : 0 .. MaxLag]
Idle == [pc |-> "idle", held |-> {}, gone |-> {}, pairs |-> {}, age |-> 0]
Down == [Idle EXCEPT !.pc = "down"]

Init ==
    /\ reg = [pair \in Pairs |-> "absent"]
    /\ wait = [pair \in Pairs |-> 0]
    /\ queue = [m \in Ids |-> NoMessage]
    /\ sched = SchedulerAsleep(0)
    /\ poll = [p \in Pollers |-> Idle]
    /\ faults = MaxFaults
    /\ gap = Interval
    /\ lost = {}

Fault(f) == f \in Faults /\ faults > 0 /\ faults' = faults - 1

\* A second passes.
Tick ==
    /\ sched.pc = "sending" => sched.age < MaxLag
    /\ \A p \in Pollers : poll[p].pc = "evaluating" => poll[p].age < MaxLag
    /\ wait' = [pair \in Pairs |-> Left(wait[pair])]
    /\ queue' = [m \in Ids |-> [queue[m] EXCEPT !.timer = Left(@)]]
    /\ sched' = [sched EXCEPT !.nap = Left(@),
                              !.age = IF sched.pc = "sending" THEN @ + 1 ELSE @]
    /\ poll' = [p \in Pollers |-> [poll[p] EXCEPT
                  !.age = IF poll[p].pc = "evaluating" THEN @ + 1 ELSE @]]
    /\ gap' = [pair \in Pairs |-> Smaller(gap[pair] + 1, Interval[pair])]
    /\ UNCHANGED <<reg, faults, lost>>

-----------------------------------------------------------------------------
(* The pairs table.                                                        *)

\* POST /pairs, or discovery: active, and never checked.
Track(pair) ==
    /\ "track" \in Registry
    /\ reg[pair] = "absent"
    /\ reg' = [reg EXCEPT ![pair] = "active"]
    /\ UNCHANGED <<wait, queue, sched, poll, faults, sends>>

\* Discovery: the volume rises or falls through a floor.
Switch(pair) ==
    /\ "switch" \in Registry
    /\ reg[pair] \in {"active", "inactive"}
    /\ reg' = [reg EXCEPT ![pair] = IF @ = "active" THEN "inactive" ELSE "active"]
    /\ UNCHANGED <<wait, queue, sched, poll, faults, sends>>

Remove(pair) ==
    /\ "remove" \in Registry
    /\ reg[pair] \in {"active", "inactive"}
    /\ reg' = [reg EXCEPT ![pair] = "removed"]
    /\ UNCHANGED <<wait, queue, sched, poll, faults, sends>>

\* An UPDATE of a row that is gone fails the transaction.
Missing(pairs) == \E pair \in pairs : reg[pair] = "removed"

-----------------------------------------------------------------------------
(* The scheduler: enqueue_due_pairs.                                       *)

Due == {pair \in Pairs : reg[pair] = "active" /\ wait[pair] = 0}

SelectNothing ==
    /\ sched.pc = "asleep"
    /\ sched.nap = 0
    /\ Due = {}
    /\ sched' = SchedulerAsleep(TickInterval)
    /\ UNCHANGED <<pairsTable, queue, poll, faults, sends>>

\* The tick waits for ids for all its messages: Ids bounds how many exist.
SelectDue ==
    /\ sched.pc = "asleep"
    /\ sched.nap = 0
    /\ Due # {}
    /\ Cardinality(Due) <= Cardinality(Fresh)
    /\ sched' = [SchedulerAsleep(0) EXCEPT !.pc = "sending", !.todo = Due]
    /\ UNCHANGED <<pairsTable, queue, poll, faults, sends>>

\* _stagger_delay_seconds.
StaggerDelay(index, total) == Smaller((index * Window) \div total, MaxDelay)

Send(pair) == \E m \in Fresh :
    /\ sched.pc = "sending"
    /\ pair \in sched.todo
    /\ queue' = [queue EXCEPT ![m] = [NoMessage EXCEPT
                   !.pair = pair,
                   !.timer = StaggerDelay(Cardinality(sched.sent),
                               Cardinality(sched.todo \cup sched.sent))]]
    /\ sched' = [sched EXCEPT !.todo = @ \ {pair}, !.sent = @ \cup {pair}]
    /\ gap' = [gap EXCEPT ![pair] = 0]
    /\ lost' = lost \ {pair}
    /\ UNCHANGED <<pairsTable, poll, faults>>

\* A pair last checked "age" ago is due when its interval has passed.
CheckedAgo(age, pairs) ==
    wait' = [pair \in Pairs |-> IF pair \in pairs
                                THEN Larger(Interval[pair] - age, 0) ELSE wait[pair]]

\* Mutant of CommitClaims: the claim is left to the poller.
CommitWithoutClaims ==
    /\ sched.pc = "sending"
    /\ sched.todo = {}
    /\ ~ Missing(sched.sent)
    /\ sched' = SchedulerAsleep(TickInterval)
    /\ UNCHANGED <<pairsTable, queue, poll, faults, sends>>

\* The one commit of the tick: every pair sent was checked at claimed_at.
CommitClaims ==
    /\ sched.pc = "sending"
    /\ sched.todo = {}
    /\ ~ Missing(sched.sent)
    /\ CheckedAgo(sched.age, sched.sent)
    /\ sched' = SchedulerAsleep(TickInterval)
    /\ UNCHANGED <<reg, queue, poll, faults, sends>>

\* A send raises, or the commit: what was sent is on its way, its claims lost.
SchedulerFails ==
    /\ sched.pc = "sending"
    /\ \/ Fault("send")
       \/ sched.todo = {} /\ Missing(sched.sent) /\ UNCHANGED faults
    /\ lost' = lost \cup sched.sent
    /\ sched' = SchedulerAsleep(TickInterval)
    /\ UNCHANGED <<pairsTable, queue, poll, gap>>

SchedulerCrashes ==
    /\ sched.pc # "down"
    /\ Fault("crash")
    /\ lost' = lost \cup sched.sent
    /\ sched' = [SchedulerAsleep(0) EXCEPT !.pc = "down"]
    /\ UNCHANGED <<pairsTable, queue, poll, gap>>

SchedulerRestarts ==
    /\ sched.pc = "down"
    /\ sched' = SchedulerAsleep(0)
    /\ UNCHANGED <<pairsTable, queue, poll, faults, sends>>

-----------------------------------------------------------------------------
(* SQS.                                                                    *)

\* Mutant of Exhausted: no redrive policy.
NeverExhausted(m) == FALSE

Exhausted(m) == queue[m].receives >= MaxReceives

\* A message received too often goes to the DLQ, which nobody reads.
Redrive(m) ==
    /\ m \in Visible
    /\ Exhausted(m)
    /\ queue' = [queue EXCEPT ![m] = NoMessage]
    /\ UNCHANGED <<pairsTable, sched, poll, faults, sends>>

\* _receive, and of process_batch the choice of one message for each pair
\* and the SELECT of the pairs.  The other messages of those pairs are left
\* to come back.
Receive(p, m) == \E batch \in SUBSET Visible : \E held \in SUBSET batch :
    /\ poll[p].pc = "idle"
    /\ m \in batch
    /\ Cardinality(batch) <= BatchMax
    /\ \A n \in batch : ~ Exhausted(n)
    /\ PairsOf(held) = PairsOf(batch)
    /\ Cardinality(held) = Cardinality(PairsOf(batch))
    /\ queue' = [n \in Ids |-> IF n \in batch
                   THEN [queue[n] EXCEPT !.timer = Visibility, !.holder = p,
                           !.receives = Smaller(@ + 1, MaxReceives)]
                   ELSE queue[n]]
    /\ poll' = [poll EXCEPT ![p] = [Idle EXCEPT
                  !.pc = "batch", !.held = held,
                  !.gone = {n \in held : reg[queue[n].pair] = "removed"},
                  !.pairs = {q \in PairsOf(batch) : reg[q] # "removed"}]]
    /\ UNCHANGED <<pairsTable, sched, faults, sends>>

-----------------------------------------------------------------------------
(* The pollers: the rest of process_batch.                                 *)

\* Mutant of NoQuotes: the whole batch is deleted.
NoQuotesDropsBatch(p) ==
    /\ poll[p].pc = "batch"
    /\ \/ poll[p].pairs = {} /\ UNCHANGED faults
       \/ Fault("quotes")
    /\ poll' = [poll EXCEPT ![p].pc = "deleting", ![p].pairs = {}, ![p].gone = poll[p].held]
    /\ UNCHANGED <<pairsTable, queue, sched, sends>>

\* No pair of the batch exists, or the Ticker call fails: only the messages
\* of pairs that are gone are deleted.
NoQuotes(p) ==
    /\ poll[p].pc = "batch"
    /\ \/ poll[p].pairs = {} /\ UNCHANGED faults
       \/ Fault("quotes")
    /\ poll' = [poll EXCEPT ![p].pc = "deleting", ![p].pairs = {}]
    /\ UNCHANGED <<pairsTable, queue, sched, sends>>

\* Mutant of Quotes: one pair without a quote spoils the batch.
QuotesAllOrNone(p) ==
    /\ poll[p].pc = "batch"
    /\ poll[p].pairs # {}
    /\ poll' = [poll EXCEPT ![p].pc = "evaluating",
                  ![p].pairs = IF @ \cap Unlisted = {} THEN @ ELSE {}]
    /\ UNCHANGED <<pairsTable, queue, sched, faults, sends>>

\* The pairs that the Ticker call returns are observed.
Quotes(p) ==
    /\ poll[p].pc = "batch"
    /\ poll[p].pairs # {}
    /\ poll' = [poll EXCEPT ![p].pc = "evaluating", ![p].pairs = @ \ Unlisted]
    /\ UNCHANGED <<pairsTable, queue, sched, faults, sends>>

\* Mutant of Raise: the batch is not forgotten.
RaiseKeepsBatch(p) ==
    /\ poll[p].pc \in {"batch", "evaluating"}
    /\ \/ Fault("raise")
       \/ poll[p].pc = "evaluating" /\ Missing(poll[p].pairs) /\ UNCHANGED faults
    /\ poll' = [poll EXCEPT ![p].pc = "idle"]
    /\ UNCHANGED <<pairsTable, queue, sched, sends>>

\* A query, an evaluation or the commit raises: run_forever drops the whole
\* batch, and all its messages come back.
Raise(p) ==
    /\ poll[p].pc \in {"batch", "evaluating"}
    /\ \/ Fault("raise")
       \/ poll[p].pc = "evaluating" /\ Missing(poll[p].pairs) /\ UNCHANGED faults
    /\ poll' = [poll EXCEPT ![p] = Idle]
    /\ UNCHANGED <<pairsTable, queue, sched, sends>>

\* Observations, last_checked_at and all that the evaluations recorded.
Commit(p) ==
    /\ poll[p].pc = "evaluating"
    /\ ~ Missing(poll[p].pairs)
    /\ CheckedAgo(poll[p].age, poll[p].pairs)
    /\ queue' = [m \in Ids |-> [queue[m] EXCEPT
                   !.served = @ \/ queue[m].pair \in poll[p].pairs]]
    /\ poll' = [poll EXCEPT ![p].pc = "deleting", ![p].age = 0]
    /\ UNCHANGED <<reg, sched, faults, sends>>

\* to_delete.
ToDelete(p) ==
    poll[p].gone \cup {m \in poll[p].held : queue[m].pair \in poll[p].pairs}

\* _delete_batch.  The receipt handle of a message that another poller has
\* received since may or may not delete it.
Delete(p) == \E deleted \in SUBSET ToDelete(p) :
    /\ poll[p].pc = "deleting"
    /\ \A m \in ToDelete(p) : queue[m].holder = p => m \in deleted
    /\ queue' = [m \in Ids |-> IF m \in deleted THEN NoMessage ELSE queue[m]]
    /\ poll' = [poll EXCEPT ![p] = Idle]
    /\ UNCHANGED <<pairsTable, sched, faults, sends>>

DeleteFails(p) ==
    /\ poll[p].pc = "deleting"
    /\ Fault("delete")
    /\ poll' = [poll EXCEPT ![p] = Idle]
    /\ UNCHANGED <<pairsTable, queue, sched, sends>>

Crash(p) ==
    /\ poll[p].pc # "down"
    /\ Fault("crash")
    /\ poll' = [poll EXCEPT ![p] = Down]
    /\ UNCHANGED <<pairsTable, queue, sched, sends>>

Restart(p) ==
    /\ poll[p].pc = "down"
    /\ poll' = [poll EXCEPT ![p] = Idle]
    /\ UNCHANGED <<pairsTable, queue, sched, faults, sends>>

-----------------------------------------------------------------------------
Observe(pair) == \E p \in Pollers : pair \in poll[p].pairs /\ Commit(p)

Schedule ==
    \/ SelectNothing \/ SelectDue \/ (\E pair \in Pairs : Send(pair))
    \/ CommitClaims \/ SchedulerRestarts
SchedulerFault == SchedulerFails \/ SchedulerCrashes

Process(p) == NoQuotes(p) \/ Quotes(p) \/ Commit(p) \/ Delete(p) \/ Restart(p)
PollerFault(p) == Raise(p) \/ DeleteFails(p) \/ Crash(p)
ReceiveAny(m) == \E p \in Pollers : Receive(p, m)

Next ==
    \/ Tick
    \/ Schedule \/ SchedulerFault
    \/ \E pair \in Pairs : Track(pair) \/ Switch(pair) \/ Remove(pair)
    \/ \E m \in Ids : Redrive(m) \/ ReceiveAny(m)
    \/ \E p \in Pollers : Process(p) \/ PollerFault(p)

Spec == Init /\ [][Next]_vars

\* Time passes, the processes run and docker restarts them; SQS delivers
\* every message that stays visible, and moves it when it is exhausted.
Fairness ==
    /\ WF_vars(Tick)
    /\ WF_vars(Schedule \/ SchedulerFails)
    /\ \A p \in Pollers : WF_vars(Process(p) \/ Raise(p))
    /\ \A m \in Ids : WF_vars(Redrive(m)) /\ SF_vars(ReceiveAny(m))

FairSpec == Spec /\ Fairness

-----------------------------------------------------------------------------
(* Properties.                                                             *)

\* The variables have their types, and a process that is not in a tick or a
\* batch holds nothing of an earlier one.
TypeOK ==
    /\ reg \in [Pairs -> {"absent", "active", "inactive", "removed"}]
    /\ wait \in [Pairs -> Nat]
    /\ queue \in [Ids -> Message]
    /\ sched \in Scheduler
    /\ poll \in [Pollers -> Poller]
    /\ faults \in 0 .. MaxFaults
    /\ gap \in [Pairs -> Nat]
    /\ lost \subseteq Pairs
    /\ sched.pc # "sending" => sched.todo \cup sched.sent = {}
    /\ \A p \in Pollers : poll[p].pc = "idle" => poll[p] = Idle

\* No message is lost: one that a poller deletes belongs to a pair that was
\* observed since the message was sent, or that is gone
\* (tests/test_sqs_redelivery.py:1-5).  So it is with failed Ticker calls,
\* two messages of a pair, other pollers' receives and stale handles.
NothingLost ==
    [][\A p \in Pollers : Delete(p) =>
          \A m \in Live : m \notin Live' =>
              queue[m].served \/ reg[queue[m].pair] = "removed"]_vars

\* A pair is not sent again before its interval has passed, but for the time
\* a transaction takes, unless the claim of its last tick was lost: neither
\* pollers that write last_checked_at as well, nor messages not yet received,
\* make it due again (workers/scheduler.py:70-76).
ClaimKept ==
    [][\A pair \in Pairs : Send(pair) =>
          gap[pair] >= Interval[pair] - MaxLag \/ pair \in lost]_vars

\* A pair is not enqueued again while an earlier message waits out its delay,
\* or messages would compound "without bound" (workers/scheduler.py:9-13),
\* unless the claim was lost.  The delays spread over the default interval
\* (65), so this needs the pair's own interval to be at least their longest,
\* Window - 1, and the time a transaction can take; POST /pairs asks for
\* neither.
NoneWaiting ==
    [][\A pair \in Pairs : Send(pair) /\ Interval[pair] >= (Window - 1) + MaxLag =>
          \/ pair \in lost
          \/ \A m \in Live : queue[m].pair = pair =>
                queue[m].receives > 0 \/ queue[m].timer = 0]_vars

\* A pair that stays active is observed again and again, whatever faults came
\* before, beside pairs that the Ticker call never returns.
PolledForever ==
    \A pair \in Pairs \ Unlisted :
        <>[](reg[pair] = "active") => []<><<Observe(pair)>>_vars

\* Every message leaves the queue, deleted or moved to the DLQ.
MessagesLeave == \A m \in Ids : m \in Live ~> m \notin Live
=============================================================================
