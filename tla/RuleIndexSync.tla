--------------------------- MODULE RuleIndexSync ---------------------------
(***************************************************************************)
(* From an edit of a rule to the rules a poller evaluates.  The API        *)
(* commits an edit and then announces it on Redis (api/routes/rules.py);   *)
(* a poller rebuilds its index in memory when its listener receives an     *)
(* announcement, and periodically (workers/rule_index.py).  Redis keeps    *)
(* nothing for a listener that is not subscribed, a subscription can die   *)
(* without a sign, and the two tasks rebuild at the same time.             *)
(*                                                                         *)
(* Time is kept as what is left of each delay.  MaxRebuild and MaxEval     *)
(* bound what the code leaves unbounded: how long a rebuild waits for the  *)
(* database, and how long an evaluation keeps the rules it took.           *)
(* The reconnect backoff and the read timeout of the listener are left     *)
(* open.  What the evaluation does is in module AlertEngine.               *)
(***************************************************************************)
EXTENDS Integers, FiniteSets

CONSTANTS
    Rules,
    Columns,       \* threshold, percent, window_seconds, sigma, direction
    Values,        \* values that a column accepts
    Required,      \* the columns that the type of each rule requires
    Requests,      \* handlers of the API that run at a time
    Workers,       \* poller processes (docker-compose.yml starts one)
    RefreshEvery,  \* rule_index_refresh_interval_seconds
    MaxRebuild,    \* bound on the time a rebuild takes
    MaxEval,       \* bound on the time an evaluation takes
    MaxBuffered,   \* bound on the announcements a subscription holds
    MaxFailures,   \* bound on the rebuilds that fail
    StaleCap,      \* staleness is counted up to here
    Faults         \* which of "publish", "drop" and "crash" may happen

Null == "null"
UpToDate == -1

ASSUME SyncAssumption ==
    /\ Null \notin Values
    /\ Required \in [Rules -> SUBSET Columns]
    /\ RefreshEvery \in Nat \ {0}
    /\ MaxRebuild \in Nat /\ MaxEval \in Nat
    /\ MaxBuffered \in Nat /\ MaxFailures \in Nat
    /\ StaleCap \in Nat
    /\ StaleCap > (1 + MaxFailures) * (RefreshEvery + MaxRebuild)
                  + MaxRebuild + MaxEval
    /\ Faults \subseteq {"publish", "drop", "crash"}

VARIABLES
    table,      \* alert_rules: committed rows
    requests,   \* what each handler of the API is doing
    status,     \* each poller process: down, building its first index, up
    index,      \* the index of each poller
    rebuilds,   \* the rebuilds in flight in each poller
    timer,      \* what is left of the sleep of its periodic refresh
    listener,   \* what its listener is doing
    alive,      \* whether the listener's connection delivers anything
    buffered,   \* announcements delivered and not yet read
    taken,      \* the rules its evaluation under way has taken, if any
    failures    \* how many rebuilds have failed

api == <<table, requests>>
listening == <<listener, alive, buffered>>
vars == <<table, requests, status, index, rebuilds, timer, listening, taken,
          failures>>

Row == [columns : [Columns -> Values \cup {Null}], enabled : BOOLEAN]

\* _validate_rule_fields: a rule has the columns its type requires.
Complete(r, row) == \A c \in Required[r] : row.columns[c] # Null

\* A PATCH holds the row it read and that row with its changes.
Request ==
    [doing : {"patch"}, rule : Rules, seen : Row, next : Row]
        \cup [doing : {"nothing", "announce"}]
Doing(what) == [doing |-> what]

\* The rules in an index, by their columns.
Bucketed == UNION {[S -> [Columns -> Values \cup {Null}]] : S \in SUBSET Rules}

\* Rules read from the table, and for how long the table has been ahead of
\* them, if it is.
Snapshot == [rules : Bucketed, stale : Nat \cup {UpToDate}]
Rebuild == [task : {"first", "listener", "refresh"}, rules : Bucketed,
            stale : Nat \cup {UpToDate}, left : 0 .. MaxRebuild]
Evaluation == [rules : Bucketed, stale : Nat \cup {UpToDate}, left : 0 .. MaxEval]

Building(p, task) == \E b \in rebuilds[p] : b.task = task

\* _load_buckets_from_db: what a rebuild takes from the rows of the table.
Enabled(rows) ==
    [r \in {s \in DOMAIN rows : rows[s].enabled} |-> rows[r].columns]

NoTable == [r \in {} |-> {}]
NoRules == [rules |-> NoTable, stale |-> UpToDate]

Init ==
    /\ table = NoTable
    /\ requests = [q \in Requests |-> Doing("nothing")]
    /\ status = [p \in Workers |-> "down"]
    /\ index = [p \in Workers |-> NoRules]
    /\ rebuilds = [p \in Workers |-> {}]
    /\ timer = [p \in Workers |-> 0]
    /\ listener = [p \in Workers |-> "off"]
    /\ alive = [p \in Workers |-> FALSE]
    /\ buffered = [p \in Workers |-> 0]
    /\ taken = [p \in Workers |-> {}]
    /\ failures = 0

Older(s) == IF s = UpToDate THEN s
            ELSE IF s < StaleCap THEN s + 1 ELSE StaleCap

\* Time passes.  A refresh whose sleep is over runs first, and what has
\* lasted as long as it may ends first.
Tick ==
    /\ \A p \in Workers :
          /\ status[p] = "up" /\ timer[p] = 0 => Building(p, "refresh")
          /\ \A b \in rebuilds[p] \cup taken[p] : b.left > 0
    /\ index' = [p \in Workers |-> [index[p] EXCEPT !.stale = Older(@)]]
    /\ rebuilds' = [p \in Workers |->
          {[b EXCEPT !.stale = Older(@), !.left = @ - 1] : b \in rebuilds[p]}]
    /\ taken' = [p \in Workers |->
          {[e EXCEPT !.stale = Older(@), !.left = @ - 1] : e \in taken[p]}]
    /\ timer' = [p \in Workers |-> IF timer[p] > 0 THEN timer[p] - 1 ELSE 0]
    /\ UNCHANGED <<api, status, listening, failures>>

-----------------------------------------------------------------------------
(* The API.                                                                *)

\* What was read before a commit is outdated by it.
Outdate(s) == IF s = UpToDate THEN 0 ELSE s

CommitRow(r, row) ==
    /\ table' = [s \in DOMAIN table \cup {r} |-> IF s = r THEN row ELSE table[s]]
    /\ index' = [p \in Workers |-> [index[p] EXCEPT !.stale = Outdate(@)]]
    /\ rebuilds' = [p \in Workers |->
          {[b EXCEPT !.stale = Outdate(@)] : b \in rebuilds[p]}]
    /\ taken' = [p \in Workers |->
          {[e EXCEPT !.stale = Outdate(@)] : e \in taken[p]}]
    /\ UNCHANGED <<status, timer, listening, failures>>

\* create_rule, up to its commit.
CreateRule(q) == \E r \in Rules, row \in Row :
    /\ requests[q].doing = "nothing"
    /\ r \notin DOMAIN table
    /\ Complete(r, row)
    /\ CommitRow(r, row)
    /\ requests' = [requests EXCEPT ![q] = Doing("announce")]

\* update_rule, up to its commit: the row with the body's changes is valid.
\* A body that sets is_enabled or cooldown_seconds to null is valid, fails at
\* the NOT NULL column and changes nothing: it is no step.
ReadRule(q) == \E r \in Rules, next \in Row :
    /\ requests[q].doing = "nothing"
    /\ r \in DOMAIN table
    /\ Complete(r, next)
    /\ requests' = [requests EXCEPT ![q] =
          [doing |-> "patch", rule |-> r, seen |-> table[r], next |-> next]]
    /\ UNCHANGED <<table, status, index, rebuilds, timer, listening, taken, failures>>

\* The columns that differ from what was read are written, over what another
\* request may have committed since.
Patched(row, seen, next) ==
    [columns |-> [c \in Columns |-> IF next.columns[c] # seen.columns[c]
                                    THEN next.columns[c] ELSE row.columns[c]],
     enabled |-> IF next.enabled # seen.enabled THEN next.enabled ELSE row.enabled]

\* Mutant of CommitPatch: every column is written, as it was read or patched.
CommitWholeRow(q) ==
    LET patch == requests[q]
    IN  /\ patch.doing = "patch"
        /\ CommitRow(patch.rule, patch.next)
        /\ requests' = [requests EXCEPT ![q] = Doing("announce")]

\* update_rule's commit.
CommitPatch(q) ==
    LET patch == requests[q]
    IN  /\ patch.doing = "patch"
        /\ CommitRow(patch.rule, Patched(table[patch.rule], patch.seen, patch.next))
        /\ requests' = [requests EXCEPT ![q] = Doing("announce")]

Subscribed(p) == listener[p] \in {"listening", "rebuilding"} /\ alive[p]

\* _publish_invalidation: whoever is subscribed gets the announcement.
Announce(q) ==
    /\ requests[q].doing = "announce"
    /\ \A p \in Workers : Subscribed(p) => buffered[p] < MaxBuffered
    /\ requests' = [requests EXCEPT ![q] = Doing("nothing")]
    /\ buffered' = [p \in Workers |-> buffered[p] + IF Subscribed(p) THEN 1 ELSE 0]
    /\ UNCHANGED <<table, status, index, rebuilds, timer, listener, alive, taken, failures>>

\* Redis is not reached, or the process dies after the commit.
AnnounceFails(q) ==
    /\ "publish" \in Faults
    /\ requests[q].doing = "announce"
    /\ requests' = [requests EXCEPT ![q] = Doing("nothing")]
    /\ UNCHANGED <<table, status, index, rebuilds, timer, listening, taken, failures>>

-----------------------------------------------------------------------------
(* Rebuilds of the index.                                                  *)

\* RuleIndex.rebuild up to its await: the committed rows as they are now.
Load(p, task) ==
    rebuilds' = [rebuilds EXCEPT ![p] = @ \cup
        {[task |-> task, rules |-> Enabled(table), stale |-> UpToDate,
          left |-> MaxRebuild]}]

\* main: the first rebuild is awaited before any message is received.
Start(p) ==
    /\ status[p] = "down"
    /\ status' = [status EXCEPT ![p] = "starting"]
    /\ Load(p, "first")
    /\ UNCHANGED <<api, index, timer, listening, taken, failures>>

\* Mutant of RefreshLoad: no refresh while the listener is connected.
RefreshWhenDeaf(p) ==
    /\ status[p] = "up"
    /\ timer[p] = 0
    /\ ~ Building(p, "refresh")
    /\ IF Subscribed(p)
       THEN timer' = [timer EXCEPT ![p] = RefreshEvery] /\ UNCHANGED rebuilds
       ELSE Load(p, "refresh") /\ UNCHANGED timer
    /\ UNCHANGED <<api, status, index, listening, taken, failures>>

\* _periodic_refresh: its sleep is over.
RefreshLoad(p) ==
    /\ status[p] = "up"
    /\ timer[p] = 0
    /\ ~ Building(p, "refresh")
    /\ Load(p, "refresh")
    /\ UNCHANGED <<api, status, index, timer, listening, taken, failures>>

\* _listen_for_invalidations: get_message returns an announcement.
ListenerLoad(p) ==
    /\ listener[p] = "listening"
    /\ buffered[p] > 0
    /\ buffered' = [buffered EXCEPT ![p] = @ - 1]
    /\ listener' = [listener EXCEPT ![p] = "rebuilding"]
    /\ Load(p, "listener")
    /\ UNCHANGED <<api, status, index, timer, alive, taken, failures>>

\* A rebuild is over, and its task goes on: the first one starts the two
\* others, the refresh sleeps again, the listener reads on.
Proceed(p, task) ==
    /\ status' = [status EXCEPT ![p] = "up"]
    /\ timer' = IF task = "listener" THEN timer
                ELSE [timer EXCEPT ![p] = RefreshEvery]
    /\ listener' = CASE task = "first" -> [listener EXCEPT ![p] = "connecting"]
                     [] task = "refresh" -> listener
                     [] task = "listener" -> [listener EXCEPT ![p] = "listening"]
    /\ UNCHANGED <<api, alive, buffered, taken>>

\* Mutant of Install: the new rules are added to the index.
InstallMerges(p) == \E b \in rebuilds[p] :
    /\ index' = [index EXCEPT ![p] =
          [rules |-> [r \in DOMAIN index[p].rules \cup DOMAIN b.rules |->
                        IF r \in DOMAIN b.rules THEN b.rules[r]
                                                ELSE index[p].rules[r]],
           stale |-> b.stale]]
    /\ rebuilds' = [rebuilds EXCEPT ![p] = @ \ {b}]
    /\ Proceed(p, b.task)
    /\ UNCHANGED failures

\* The rest of rebuild: the reference swap, whatever the index holds by now.
Install(p) == \E b \in rebuilds[p] :
    /\ index' = [index EXCEPT ![p] = [rules |-> b.rules, stale |-> b.stale]]
    /\ rebuilds' = [rebuilds EXCEPT ![p] = @ \ {b}]
    /\ Proceed(p, b.task)
    /\ UNCHANGED failures

\* The rebuild raises: the index stays as it is.
RebuildFails(p) == \E b \in rebuilds[p] :
    /\ b.task # "first"
    /\ failures < MaxFailures
    /\ failures' = failures + 1
    /\ rebuilds' = [rebuilds EXCEPT ![p] = @ \ {b}]
    /\ Proceed(p, b.task)
    /\ UNCHANGED index

-----------------------------------------------------------------------------
(* The listener's connection.                                              *)

Unread(p, left) == buffered' = [buffered EXCEPT ![p] = left]

Subscribe(p) ==
    /\ listener[p] = "connecting"
    /\ listener' = [listener EXCEPT ![p] = "listening"]
    /\ alive' = [alive EXCEPT ![p] = TRUE]
    /\ UNCHANGED <<api, status, index, rebuilds, timer, buffered, taken, failures>>

\* The connection dies, and nothing shows it.
Drop(p) == \E left \in 0 .. buffered[p] :
    /\ "drop" \in Faults
    /\ alive[p]
    /\ alive' = [alive EXCEPT ![p] = FALSE]
    /\ Unread(p, left)
    /\ UNCHANGED <<api, status, index, rebuilds, timer, listener, taken, failures>>

\* The health check of a read notices it: unsubscribe, wait, connect again.
Detect(p) ==
    /\ listener[p] = "listening"
    /\ ~ alive[p]
    /\ listener' = [listener EXCEPT ![p] = "connecting"]
    /\ Unread(p, 0)
    /\ UNCHANGED <<api, status, index, rebuilds, timer, alive, taken, failures>>

-----------------------------------------------------------------------------
(* The poller.                                                             *)

\* evaluate_rules_for_pair takes the rules of a pair from the index ...
TakeRules(p) ==
    /\ status[p] = "up"
    /\ taken[p] = {}
    /\ taken' = [taken EXCEPT ![p] =
          {[rules |-> index[p].rules, stale |-> index[p].stale, left |-> MaxEval]}]
    /\ UNCHANGED <<api, status, index, rebuilds, timer, listening, failures>>

\* ... and fires those that match, until it returns.
EvaluationEnds(p) ==
    /\ taken[p] # {}
    /\ taken' = [taken EXCEPT ![p] = {}]
    /\ UNCHANGED <<api, status, index, rebuilds, timer, listening, failures>>

\* Mutant of Crash: the connection is not closed.
CrashKeepsListener(p) ==
    /\ "crash" \in Faults
    /\ status[p] # "down"
    /\ status' = [status EXCEPT ![p] = "down"]
    /\ index' = [index EXCEPT ![p] = NoRules]
    /\ rebuilds' = [rebuilds EXCEPT ![p] = {}]
    /\ timer' = [timer EXCEPT ![p] = 0]
    /\ taken' = [taken EXCEPT ![p] = {}]
    /\ UNCHANGED <<api, listening, failures>>

\* The process dies, or its first rebuild raises: docker starts it again.
Crash(p) ==
    /\ "crash" \in Faults
    /\ status[p] # "down"
    /\ status' = [status EXCEPT ![p] = "down"]
    /\ index' = [index EXCEPT ![p] = NoRules]
    /\ rebuilds' = [rebuilds EXCEPT ![p] = {}]
    /\ timer' = [timer EXCEPT ![p] = 0]
    /\ listener' = [listener EXCEPT ![p] = "off"]
    /\ alive' = [alive EXCEPT ![p] = FALSE]
    /\ Unread(p, 0)
    /\ taken' = [taken EXCEPT ![p] = {}]
    /\ UNCHANGED <<api, failures>>

-----------------------------------------------------------------------------
Edit(q) == CreateRule(q) \/ ReadRule(q) \/ CommitPatch(q)
Publish(q) == Announce(q) \/ AnnounceFails(q)

Refresh(p) == Start(p) \/ RefreshLoad(p) \/ Install(p)
Listen(p) == ListenerLoad(p) \/ Subscribe(p) \/ Detect(p)
Evaluate(p) == TakeRules(p) \/ EvaluationEnds(p)
Fault(p) == RebuildFails(p) \/ Drop(p) \/ Crash(p)

Next ==
    \/ Tick
    \/ \E q \in Requests : Edit(q) \/ Publish(q)
    \/ \E p \in Workers : Refresh(p) \/ Listen(p) \/ Evaluate(p) \/ Fault(p)

Spec == Init /\ [][Next]_vars

\* Time passes, queries are answered and evaluations end.  Nothing is
\* assumed of the API, of Redis, or of the listener.
Fairness ==
    /\ WF_vars(Tick)
    /\ \A p \in Workers : WF_vars(Refresh(p)) /\ WF_vars(EvaluationEnds(p))

FairSpec == Spec /\ Fairness

-----------------------------------------------------------------------------
(* Properties.                                                             *)

\* No committed rule lacks a column its type requires, which the evaluator
\* takes for granted (rules/evaluator.py:278): validation of a PATCH sees
\* the row as it was read, and another PATCH may commit in between.
RulesComplete ==
    \A r \in DOMAIN table : Complete(r, table[r])

\* The variables have their types, a row has the columns its type requires,
\* and a poller that is not up has no index, timer or subscription.
TypeOK ==
    /\ table \in UNION {[S -> Row] : S \in SUBSET Rules}
    /\ RulesComplete
    /\ requests \in [Requests -> Request]
    /\ status \in [Workers -> {"down", "starting", "up"}]
    /\ index \in [Workers -> Snapshot]
    /\ DOMAIN rebuilds = Workers
    /\ \A p \in Workers : rebuilds[p] \subseteq Rebuild
    /\ timer \in [Workers -> 0 .. RefreshEvery]
    /\ listener \in [Workers -> {"off", "connecting", "listening", "rebuilding"}]
    /\ alive \in [Workers -> BOOLEAN]
    /\ buffered \in [Workers -> 0 .. MaxBuffered]
    /\ DOMAIN taken = Workers
    /\ \A p \in Workers : taken[p] \subseteq Evaluation
    /\ failures \in 0 .. MaxFailures
    /\ \A p \in Workers : status[p] # "up" =>
          listener[p] = "off" /\ ~ alive[p] /\ taken[p] = {}

\* The PATCH that request q commits was asked for what changes in rule r.
AskedFor(q, r) ==
    LET patch == requests[q]
        old == table[r]
        new == table'[r]
    IN  /\ patch.doing = "patch" /\ patch.rule = r
        /\ requests'[q].doing = "announce"
        /\ \A c \in Columns : new.columns[c] # old.columns[c] =>
              patch.next.columns[c] # patch.seen.columns[c]
        /\ new.enabled # old.enabled => patch.next.enabled # patch.seen.enabled

\* A PATCH commits some time after it has read its row, and takes back nothing
\* that another request has committed in between: "only fields explicitly
\* provided are changed" (api/routes/rules.py:119).  A rule that was disabled
\* is enabled again by a request to enable it, and by no other.
NothingTakenBack ==
    [][\A r \in DOMAIN table :
          table'[r] # table[r] => \E q \in Requests : AskedFor(q, r)]_table

\* How long an edit may be missing from an index: a refresh interval and the
\* time of a rebuild, again for each rebuild that fails, and of one more.
Allowed == (1 + failures) * (RefreshEvery + MaxRebuild) + MaxRebuild

\* Rules that differ from the table miss an edit that is at most "bound" old.
Fresh(s, bound) == s.rules # Enabled(table) => s.stale \in 0 .. bound

\* An edit is in the index of every poller after at most the time allowed,
\* though its announcement is lost, its listener is deaf, and an older rebuild
\* replaces a newer one: the periodic refresh is the safety net
\* (workers/rule_index.py:24-28).  A rule that was disabled fires no more once
\* the evaluation under way is over too.
Freshness == \A p \in Workers : status[p] = "up" =>
    /\ Fresh(index[p], Allowed)
    /\ \A e \in taken[p] : Fresh(e, Allowed + MaxEval)

\* A rule that is disabled for good leaves every index for good, and one that
\* is enabled for good is in every index: nothing resurrects an old edit.
EditsStand == \A p \in Workers, r \in Rules :
    /\ <>[](r \notin DOMAIN Enabled(table)) =>
          <>[](r \notin DOMAIN index[p].rules)
    /\ <>[](r \in DOMAIN Enabled(table)) =>
          <>[](status[p] = "up" => r \in DOMAIN index[p].rules)
=============================================================================
