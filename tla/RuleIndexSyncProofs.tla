------------------------ MODULE RuleIndexSyncProofs ------------------------
(***************************************************************************)
(* What holds of the rules in the table and in the indexes for any number  *)
(* of rules, requests and pollers, any delay and any number of failures.   *)
(***************************************************************************)
EXTENDS RuleIndexSync, TLAPS

Ages == Nat \cup {UpToDate}

-----------------------------------------------------------------------------
(* The invariant.                                                          *)

\* The table, and the requests that edit it: a PATCH has validated a row of a
\* rule that exists.
TableType == table \in UNION {[S -> Row] : S \in SUBSET Rules}
RequestType ==
    /\ requests \in [Requests -> Request]
    /\ \A q \in Requests : requests[q].doing = "patch" =>
          /\ requests[q].rule \in DOMAIN table
          /\ Complete(requests[q].rule, requests[q].next)

ProcessType ==
    /\ status \in [Workers -> {"down", "starting", "up"}]
    /\ timer \in [Workers -> 0 .. RefreshEvery]
    /\ listener \in [Workers -> {"off", "connecting", "listening", "rebuilding"}]
    /\ alive \in [Workers -> BOOLEAN]
    /\ buffered \in [Workers -> 0 .. MaxBuffered]
    /\ failures \in 0 .. MaxFailures
    /\ \A p \in Workers : status[p] # "up" =>
          listener[p] = "off" /\ ~ alive[p] /\ taken[p] = {}
RulesType ==
    /\ index \in [Workers -> Snapshot]
    /\ DOMAIN rebuilds = Workers
    /\ \A p \in Workers : rebuilds[p] \subseteq Rebuild
    /\ DOMAIN taken = Workers
    /\ \A p \in Workers : taken[p] \subseteq Evaluation

\* The type invariant, part by part.
LEMMA TypeParts ==
    /\ TableType /\ RulesComplete /\ RequestType /\ ProcessType /\ RulesType => TypeOK
    /\ TableType' /\ RulesComplete' /\ RequestType' /\ ProcessType' /\ RulesType' => TypeOK'
BY DEF TypeOK, TableType, RequestType, ProcessType, RulesType

\* Rules that no edit has outdated are those of the table.
Current(s) == s.stale = UpToDate => s.rules = Enabled(table)

\* How old an index may be: as old as a rebuild that was installed, since the
\* refresh before last, and for each rebuild that failed as old again.
Delay == RefreshEvery + MaxRebuild
Spent == failures * Delay

IndexAge(p) ==
    /\ \A b \in rebuilds[p] : b.task = "refresh" =>
          index[p].stale <= Spent + Delay + MaxRebuild - b.left
    /\ (\A b \in rebuilds[p] : b.task # "refresh") =>
          index[p].stale <= Spent + Delay - timer[p]

\* A rebuild or an evaluation has what it read for as long as it lasts, and
\* the two tasks run once the first rebuild is over.
RebuildAge(b) == Current(b) /\ b.stale <= MaxRebuild - b.left
EvaluationAge(e) == Current(e) /\ e.stale <= Allowed + MaxEval - e.left

AgeOf(p) ==
    /\ \A b \in rebuilds[p] : RebuildAge(b) /\ (b.task # "first" => status[p] = "up")
    /\ status[p] = "up" => Current(index[p]) /\ IndexAge(p)
    /\ \A e \in taken[p] : EvaluationAge(e)
AgeInv == \A p \in Workers : AgeOf(p)

IInv == TableType /\ RequestType /\ RulesComplete /\ ProcessType /\ RulesType /\ AgeInv

\* The constants are natural numbers, and so are their sums.
LEMMA Numbers ==
    ASSUME ProcessType
    PROVE  /\ RefreshEvery \in Nat /\ MaxRebuild \in Nat /\ MaxEval \in Nat
           /\ MaxFailures \in Nat /\ failures \in Nat
           /\ StaleCap \in Nat /\ Delay \in Nat /\ Spent \in Nat
           /\ Allowed \in Nat /\ Allowed = Spent + Delay + MaxRebuild
<1>1. /\ RefreshEvery \in Nat /\ MaxRebuild \in Nat /\ MaxEval \in Nat
      /\ MaxFailures \in Nat /\ failures \in Nat /\ StaleCap \in Nat
    BY SyncAssumption DEF ProcessType
<1>2. Delay \in Nat /\ Delay = RefreshEvery + MaxRebuild
    BY <1>1 DEF Delay
<1>3. \A d \in Nat, f \in Nat : f * d \in Nat /\ (1 + f) * d = f * d + d
    OBVIOUS
<1>4. Spent \in Nat /\ (1 + failures) * Delay = Spent + Delay
    BY <1>1, <1>2, <1>3 DEF Spent
<1>5. Allowed = Spent + Delay + MaxRebuild
    BY <1>4 DEF Allowed, Delay
<1>6. QED
    BY <1>1, <1>2, <1>4, <1>5

\* A failed rebuild adds a delay to what is allowed.
LEMMA SpentGrows ==
    ASSUME ProcessType, failures' = failures + 1
    PROVE  Spent' = Spent + Delay /\ Spent' \in Nat
           /\ Allowed' = Allowed + Delay /\ Delay \in Nat
<1>1. failures \in Nat /\ Delay \in Nat /\ MaxRebuild \in Nat
    BY Numbers
<1>2. \A d \in Nat, f \in Nat : (f + 1) * d = f * d + d /\ f * d \in Nat
                                /\ (1 + (f + 1)) * d = (1 + f) * d + d
    OBVIOUS
<1>3. Spent' = Spent + Delay /\ Spent' \in Nat
    BY <1>1, <1>2 DEF Spent
<1>4. (1 + (failures + 1)) * Delay = (1 + failures) * Delay + Delay
      /\ (1 + failures) * Delay \in Nat
    <2>1. 1 + failures \in Nat
        BY <1>1
    <2>2. QED
        BY <1>1, <1>2, <2>1
<1>5. Allowed = (1 + failures) * Delay + MaxRebuild
      /\ Allowed' = (1 + (failures + 1)) * Delay + MaxRebuild
    BY DEF Allowed, Delay
<1>6. Allowed' = Allowed + Delay
    BY <1>1, <1>4, <1>5
<1>7. QED
    BY <1>1, <1>3, <1>6

-----------------------------------------------------------------------------
(* The table.                                                              *)

\* The enabled rules of the table are of the index's type.
LEMMA EnabledType ==
    ASSUME TableType
    PROVE  Enabled(table) \in Bucketed
<1>1. PICK S \in SUBSET Rules : table \in [S -> Row]
    BY DEF TableType
<1> DEFINE on == {s \in DOMAIN table : table[s].enabled}
<1>2. on \in SUBSET Rules
    BY <1>1
<1>3. [r \in on |-> table[r].columns] \in [on -> [Columns -> Values \cup {Null}]]
    BY <1>1 DEF Row
<1>4. QED
    BY <1>2, <1>3 DEF Enabled, Bucketed

\* A commit keeps the other rows.
LEMMA CommitRowTable ==
    ASSUME TableType, RulesComplete, NEW r \in Rules, NEW row \in Row,
           Complete(r, row), CommitRow(r, row)
    PROVE  /\ TableType' /\ RulesComplete'
           /\ DOMAIN table' = DOMAIN table \cup {r}
<1>1. PICK S \in SUBSET Rules : table \in [S -> Row]
    BY DEF TableType
<1>2. table' = [s \in DOMAIN table \cup {r} |-> IF s = r THEN row ELSE table[s]]
    BY DEF CommitRow
<1>3. table' \in [S \cup {r} -> Row]
    BY <1>1, <1>2
<1>4. TableType'
    BY <1>3 DEF TableType
<1>5. RulesComplete'
    BY <1>2 DEF RulesComplete, Complete
<1>6. QED
    BY <1>2, <1>4, <1>5

\* What a PATCH writes over a complete row is complete, whoever committed it.
LEMMA PatchedComplete ==
    ASSUME NEW r \in Rules, NEW row \in Row, NEW seen \in Row, NEW next \in Row,
           Complete(r, row), Complete(r, next)
    PROVE  Patched(row, seen, next) \in Row /\ Complete(r, Patched(row, seen, next))
<1> DEFINE columns == [c \in Columns |-> IF next.columns[c] # seen.columns[c]
                                         THEN next.columns[c] ELSE row.columns[c]]
           enabled == IF next.enabled # seen.enabled THEN next.enabled ELSE row.enabled
<1>1. columns \in [Columns -> Values \cup {Null}] /\ enabled \in BOOLEAN
    BY DEF Row
<1>2. \A c \in Required[r] : c \in Columns
    BY SyncAssumption
<1>3. \A c \in Required[r] : columns[c] # Null
    BY <1>2 DEF Complete
<1>4. Patched(row, seen, next) = [columns |-> columns, enabled |-> enabled]
    BY DEF Patched
<1> HIDE DEF columns, enabled
<1>5. QED
    BY <1>1, <1>3, <1>4 DEF Row, Complete

\* What a request holds.
LEMMA RequestShape ==
    ASSUME requests \in [Requests -> Request], NEW q \in Requests,
           requests[q].doing = "patch"
    PROVE  requests[q].rule \in Rules /\ requests[q].seen \in Row /\ requests[q].next \in Row
BY DEF Request

\* A request that does nothing, or announces, has the type of a request.
LEMMA DoingShape ==
    ASSUME NEW what \in {"nothing", "announce"}
    PROVE  Doing(what) \in Request /\ Doing(what).doing = what
BY DEF Doing, Request

\* A request that goes on without a PATCH.
LEMMA RequestGoesOn ==
    ASSUME RequestType, NEW q \in Requests, NEW what \in {"nothing", "announce"},
           requests' = [requests EXCEPT ![q] = Doing(what)],
           DOMAIN table \subseteq DOMAIN table'
    PROVE  RequestType'
<1>1. Doing(what) \in Request /\ Doing(what).doing # "patch"
    BY DoingShape
<1>2. requests' \in [Requests -> Request]
    BY <1>1 DEF RequestType
<1>3. ASSUME NEW o \in Requests, requests'[o].doing = "patch"
      PROVE  requests'[o].rule \in DOMAIN table' /\ Complete(requests'[o].rule, requests'[o].next)
    <2>1. requests'[o] = requests[o]
        BY <1>1, <1>3 DEF RequestType
    <2>2. QED
        BY <1>3, <2>1 DEF RequestType
<1>4. QED
    BY <1>2, <1>3 DEF RequestType, Complete

\* An edit of a rule and its announcement keep the table's types.
LEMMA EditTable ==
    ASSUME IInv, NEW q \in Requests, Edit(q) \/ Publish(q)
    PROVE  TableType' /\ RequestType' /\ RulesComplete'
<1>1. TableType /\ RequestType /\ RulesComplete
    BY DEF IInv
<1>2. CASE CreateRule(q)
    <2>1. PICK r \in Rules, row \in Row :
             /\ Complete(r, row) /\ CommitRow(r, row)
             /\ requests' = [requests EXCEPT ![q] = Doing("announce")]
        BY <1>2 DEF CreateRule
    <2>2. TableType' /\ RulesComplete' /\ DOMAIN table \subseteq DOMAIN table'
        BY <1>1, <2>1, CommitRowTable
    <2>3. RequestType'
        BY <1>1, <2>1, <2>2, RequestGoesOn
    <2>4. QED
        BY <2>2, <2>3
<1>3. CASE ReadRule(q)
    <2>1. PICK r \in Rules, next \in Row :
             /\ r \in DOMAIN table /\ Complete(r, next)
             /\ requests' = [requests EXCEPT ![q] =
                    [doing |-> "patch", rule |-> r, seen |-> table[r], next |-> next]]
        BY <1>3 DEF ReadRule
    <2> DEFINE patch == [doing |-> "patch", rule |-> r, seen |-> table[r], next |-> next]
    <2>2. table[r] \in Row
        BY <1>1, <2>1 DEF TableType
    <2>3. patch \in Request /\ patch.rule = r /\ patch.next = next
        BY <2>2 DEF Request
    <2>4. UNCHANGED table
        BY <1>3 DEF ReadRule
    <2> HIDE DEF patch
    <2>5. /\ requests' \in [Requests -> Request] /\ requests'[q] = patch
          /\ \A o \in Requests \ {q} : requests'[o] = requests[o]
        BY <1>1, <2>1, <2>3 DEF RequestType, patch
    <2>6. RequestType'
        BY <1>1, <2>1, <2>3, <2>4, <2>5 DEF RequestType, Complete
    <2>7. QED
        BY <1>1, <2>4, <2>6 DEF TableType, RulesComplete, Complete
<1>4. CASE CommitPatch(q)
    <2> DEFINE r == requests[q].rule
               row == Patched(table[r], requests[q].seen, requests[q].next)
    <2>1. /\ requests[q].doing = "patch" /\ CommitRow(r, row)
          /\ requests' = [requests EXCEPT ![q] = Doing("announce")]
        BY <1>4 DEF CommitPatch
    <2>2. /\ r \in Rules /\ requests[q].seen \in Row /\ requests[q].next \in Row
          /\ r \in DOMAIN table /\ Complete(r, requests[q].next)
        BY <1>1, <2>1, RequestShape DEF RequestType
    <2>3. table[r] \in Row /\ Complete(r, table[r])
        BY <1>1, <2>2 DEF TableType, RulesComplete
    <2>4. row \in Row /\ Complete(r, row)
        BY <2>2, <2>3, PatchedComplete
    <2> HIDE DEF r, row
    <2>5. TableType' /\ RulesComplete' /\ DOMAIN table \subseteq DOMAIN table'
        BY <1>1, <2>1, <2>2, <2>4, CommitRowTable
    <2>6. RequestType'
        BY <1>1, <2>1, <2>5, RequestGoesOn
    <2>7. QED
        BY <2>5, <2>6
<1>5. CASE Publish(q)
    <2>1. UNCHANGED table /\ requests' = [requests EXCEPT ![q] = Doing("nothing")]
        BY <1>5 DEF Publish, Announce, AnnounceFails
    <2>2. RequestType'
        BY <1>1, <2>1, RequestGoesOn
    <2>3. QED
        BY <1>1, <2>1, <2>2 DEF TableType, RulesComplete, Complete
<1>6. QED
    BY <1>2, <1>3, <1>4, <1>5 DEF Edit

\* Nothing else writes the table.
LEMMA SameTable ==
    ASSUME IInv, UNCHANGED api
    PROVE  TableType' /\ RequestType' /\ RulesComplete'
BY DEF IInv, api, TableType, RequestType, RulesComplete, Complete

-----------------------------------------------------------------------------
(* The age of what was read.                                               *)

\* What was up to date becomes outdated, and nothing gets older by it.
LEMMA OutdateShape ==
    ASSUME NEW s \in Ages
    PROVE  /\ Outdate(s) \in Nat /\ Outdate(s) \in Ages /\ Outdate(s) # UpToDate
           /\ \A n \in Nat : s <= n => Outdate(s) <= n
BY DEF Outdate, Ages, UpToDate

\* A second makes what is outdated older, by no more than one.
LEMMA OlderShape ==
    ASSUME NEW s \in Ages, StaleCap \in Nat
    PROVE  /\ Older(s) \in Ages /\ (Older(s) = UpToDate => s = UpToDate)
           /\ \A n \in Nat : s <= n => Older(s) <= n + 1
BY DEF Older, Ages, UpToDate

\* The fields of a rebuild, and a rebuild with another age.
LEMMA RebuildShape ==
    ASSUME NEW b \in Rebuild
    PROVE  /\ b.stale \in Ages /\ b.left \in 0 .. MaxRebuild /\ b.rules \in Bucketed
           /\ b.task \in {"first", "listener", "refresh"}
           /\ \A s \in Ages : /\ [b EXCEPT !.stale = s] \in Rebuild
                              /\ [b EXCEPT !.stale = s].stale = s
                              /\ [b EXCEPT !.stale = s].task = b.task
                              /\ [b EXCEPT !.stale = s].left = b.left
BY DEF Rebuild, Ages

\* The fields of an evaluation, and an evaluation with another age.
LEMMA EvaluationShape ==
    ASSUME NEW e \in Evaluation
    PROVE  /\ e.stale \in Ages /\ e.left \in 0 .. MaxEval /\ e.rules \in Bucketed
           /\ \A s \in Ages : /\ [e EXCEPT !.stale = s] \in Evaluation
                              /\ [e EXCEPT !.stale = s].stale = s
                              /\ [e EXCEPT !.stale = s].left = e.left
BY DEF Evaluation, Ages

\* The fields of a snapshot, and a snapshot with another age.
LEMMA SnapshotShape ==
    ASSUME NEW x \in Snapshot
    PROVE  /\ x.stale \in Ages /\ x.rules \in Bucketed
           /\ \A s \in Ages : /\ [x EXCEPT !.stale = s] \in Snapshot
                              /\ [x EXCEPT !.stale = s].stale = s
                              /\ [x EXCEPT !.stale = s].rules = x.rules
BY DEF Snapshot, Ages

\* The bounds on the age of an index, which is at least as old as nothing.
LEMMA Bounds ==
    ASSUME IInv, NEW p \in Workers
    PROVE  /\ \A b \in rebuilds[p] :
                 /\ MaxRebuild - b.left \in Nat
                 /\ Spent + Delay + MaxRebuild - b.left \in Nat
           /\ Spent + Delay - timer[p] \in Nat
           /\ \A e \in taken[p] : Allowed + MaxEval - e.left \in Nat
<1>1. ProcessType /\ RulesType
    BY DEF IInv
<1>2. /\ RefreshEvery \in Nat /\ MaxRebuild \in Nat /\ MaxEval \in Nat
      /\ Delay \in Nat /\ Spent \in Nat /\ Allowed \in Nat
    BY <1>1, Numbers
<1>3. Delay = RefreshEvery + MaxRebuild
    BY DEF Delay
<1>4. timer[p] \in 0 .. RefreshEvery
    BY <1>1 DEF ProcessType
<1>5. \A b \in rebuilds[p] : b.left \in 0 .. MaxRebuild
    BY <1>1, RebuildShape DEF RulesType
<1>6. \A e \in taken[p] : e.left \in 0 .. MaxEval
    BY <1>1, EvaluationShape DEF RulesType
<1>7. QED
    BY <1>2, <1>3, <1>4, <1>5, <1>6

\* Whatever an index holds, it is younger than what is allowed.
LEMMA IndexWithinBound ==
    ASSUME IInv, NEW p \in Workers, status[p] = "up"
    PROVE  index[p].stale <= Allowed
<1>1. ProcessType /\ RulesType /\ IndexAge(p)
    BY DEF IInv, AgeInv, AgeOf
<1>2. /\ Allowed = Spent + Delay + MaxRebuild
      /\ Spent \in Nat /\ Delay \in Nat /\ MaxRebuild \in Nat /\ RefreshEvery \in Nat
    BY <1>1, Numbers
<1>3. index[p].stale \in Int
    <2>1. index[p] \in Snapshot
        BY <1>1 DEF RulesType
    <2>2. index[p].stale \in Ages
        BY <2>1, SnapshotShape
    <2>3. QED
        BY <2>2 DEF Ages, UpToDate
<1>4. CASE \A b \in rebuilds[p] : b.task # "refresh"
    <2>1. index[p].stale <= Spent + Delay - timer[p]
        BY <1>1, <1>4 DEF IndexAge
    <2>2. timer[p] \in 0 .. RefreshEvery
        BY <1>1 DEF ProcessType
    <2>3. QED
        BY <1>2, <1>3, <2>1, <2>2
<1>5. CASE \E b \in rebuilds[p] : b.task = "refresh"
    <2>1. PICK b \in rebuilds[p] : b.task = "refresh"
        BY <1>5
    <2>2. index[p].stale <= Spent + Delay + MaxRebuild - b.left
        BY <1>1, <2>1 DEF IndexAge
    <2>3. b.left \in 0 .. MaxRebuild
        BY <1>1, <2>1, RebuildShape DEF RulesType
    <2>4. QED
        BY <1>2, <1>3, <2>2, <2>3
<1>6. QED
    BY <1>4, <1>5

\* A commit outdates what was read, and starts its age.
LEMMA CommitRowAges ==
    ASSUME IInv, NEW r \in Rules, NEW row, CommitRow(r, row)
    PROVE  ProcessType' /\ RulesType' /\ AgeInv'
<1>1. ProcessType /\ RulesType
    BY DEF IInv
<1>2. /\ UNCHANGED <<status, timer, listening, failures>>
      /\ index' = [p \in Workers |-> [index[p] EXCEPT !.stale = Outdate(@)]]
      /\ rebuilds' = [p \in Workers |-> {[b EXCEPT !.stale = Outdate(@)] : b \in rebuilds[p]}]
      /\ taken' = [p \in Workers |-> {[e EXCEPT !.stale = Outdate(@)] : e \in taken[p]}]
    BY DEF CommitRow
<1>3. ASSUME NEW p \in Workers
      PROVE  /\ index'[p] \in Snapshot /\ index'[p].stale # UpToDate
             /\ \A n \in Nat : index[p].stale <= n => index'[p].stale <= n
    <2>1. index[p] \in Snapshot
        BY <1>1 DEF RulesType
    <2>2. index[p].stale \in Ages
        BY <2>1, SnapshotShape
    <2>3. index'[p] = [index[p] EXCEPT !.stale = Outdate(index[p].stale)]
        BY <1>2
    <2>4. QED
        BY <2>1, <2>2, <2>3, SnapshotShape, OutdateShape
<1>4. ASSUME NEW p \in Workers, NEW c \in rebuilds'[p]
      PROVE  \E b \in rebuilds[p] :
                /\ c \in Rebuild /\ c.task = b.task /\ c.left = b.left
                /\ c.stale # UpToDate /\ \A n \in Nat : b.stale <= n => c.stale <= n
    <2>1. PICK b \in rebuilds[p] : c = [b EXCEPT !.stale = Outdate(b.stale)]
        BY <1>2
    <2>2. b \in Rebuild
        BY <1>1 DEF RulesType
    <2>3. b.stale \in Ages
        BY <2>2, RebuildShape
    <2>4. QED
        BY <2>1, <2>2, <2>3, RebuildShape, OutdateShape
<1>5. ASSUME NEW p \in Workers, NEW c \in taken'[p]
      PROVE  \E e \in taken[p] :
                /\ c \in Evaluation /\ c.left = e.left
                /\ c.stale # UpToDate /\ \A n \in Nat : e.stale <= n => c.stale <= n
    <2>1. PICK e \in taken[p] : c = [e EXCEPT !.stale = Outdate(e.stale)]
        BY <1>2
    <2>2. e \in Evaluation
        BY <1>1 DEF RulesType
    <2>3. e.stale \in Ages
        BY <2>2, EvaluationShape
    <2>4. QED
        BY <2>1, <2>2, <2>3, EvaluationShape, OutdateShape
<1>6. \A p \in Workers : taken[p] = {} => taken'[p] = {}
    BY <1>5
<1>7. ProcessType'
    BY <1>1, <1>2, <1>6 DEF ProcessType, listening
<1>8. RulesType'
    <2>1. index' \in [Workers -> Snapshot]
        BY <1>2, <1>3
    <2>2. DOMAIN rebuilds' = Workers /\ DOMAIN taken' = Workers
        BY <1>2
    <2>3. \A p \in Workers : rebuilds'[p] \subseteq Rebuild /\ taken'[p] \subseteq Evaluation
        BY <1>4, <1>5
    <2>4. QED
        BY <2>1, <2>2, <2>3 DEF RulesType
<1>9. Spent' = Spent /\ Allowed' = Allowed
    BY <1>2 DEF Spent, Allowed
<1>10. ASSUME NEW p \in Workers PROVE AgeOf(p)'
    <2>1. /\ \A b \in rebuilds[p] : b.stale <= MaxRebuild - b.left
                                    /\ (b.task # "first" => status[p] = "up")
          /\ status[p] = "up" => IndexAge(p)
          /\ \A e \in taken[p] : e.stale <= Allowed + MaxEval - e.left
        BY DEF IInv, AgeInv, AgeOf, RebuildAge, EvaluationAge
    <2>2. \A b \in rebuilds'[p] : RebuildAge(b)' /\ (b.task # "first" => status'[p] = "up")
        BY <1>2, <1>4, <2>1, Bounds DEF RebuildAge, Current
    <2>3. \A e \in taken'[p] : EvaluationAge(e)'
        BY <1>5, <1>9, <2>1, Bounds DEF EvaluationAge, Current
    <2>4. ASSUME status[p] = "up" PROVE IndexAge(p)'
        <3>1. \A b \in rebuilds'[p] : b.task = "refresh" =>
                 index'[p].stale <= Spent + Delay + MaxRebuild - b.left
            BY <1>3, <1>4, <2>1, <2>4, Bounds DEF IndexAge
        <3>2. (\A b \in rebuilds'[p] : b.task # "refresh") =>
                 index'[p].stale <= Spent + Delay - timer[p]
            <4>1. ASSUME \A b \in rebuilds'[p] : b.task # "refresh"
                  PROVE  \A b \in rebuilds[p] : b.task # "refresh"
                <5>1. ASSUME NEW b \in rebuilds[p] PROVE b.task # "refresh"
                    <6>1. b \in Rebuild
                        BY <1>1 DEF RulesType
                    <6>2. Outdate(b.stale) \in Ages
                        BY <6>1, RebuildShape, OutdateShape
                    <6>3. [b EXCEPT !.stale = Outdate(b.stale)] \in rebuilds'[p]
                        BY <1>2
                    <6>4. [b EXCEPT !.stale = Outdate(b.stale)].task = b.task
                        BY <6>1, <6>2, RebuildShape
                    <6>5. QED
                        BY <4>1, <6>3, <6>4
                <5>2. QED
                    BY <5>1
            <4>2. QED
                BY <1>3, <2>1, <2>4, <4>1, Bounds DEF IndexAge
        <3>3. Delay' = Delay /\ timer'[p] = timer[p]
            BY <1>2 DEF Delay
        <3>4. QED
            BY <1>9, <3>1, <3>2, <3>3 DEF IndexAge
    <2>5. QED
        BY <1>2, <1>3, <2>2, <2>3, <2>4 DEF AgeOf, Current
<1>11. QED
    BY <1>7, <1>8, <1>10 DEF AgeInv

\* Time passes: what was read gets older as fast as its delays run out.
LEMMA TickAges ==
    ASSUME IInv, Tick
    PROVE  ProcessType' /\ RulesType' /\ AgeInv'
<1>1. ProcessType /\ RulesType /\ StaleCap \in Nat
    BY Numbers DEF IInv
<1>2. /\ UNCHANGED <<api, status, listening, failures>>
      /\ index' = [p \in Workers |-> [index[p] EXCEPT !.stale = Older(@)]]
      /\ rebuilds' = [p \in Workers |->
            {[b EXCEPT !.stale = Older(@), !.left = @ - 1] : b \in rebuilds[p]}]
      /\ taken' = [p \in Workers |->
            {[e EXCEPT !.stale = Older(@), !.left = @ - 1] : e \in taken[p]}]
      /\ timer' = [p \in Workers |-> IF timer[p] > 0 THEN timer[p] - 1 ELSE 0]
    BY DEF Tick
<1>3. ASSUME NEW p \in Workers
      PROVE  /\ index'[p] \in Snapshot /\ index'[p].rules = index[p].rules
             /\ index'[p].stale = UpToDate => index[p].stale = UpToDate
             /\ \A n \in Nat : index[p].stale <= n => index'[p].stale <= n + 1
    <2>1. index[p] \in Snapshot
        BY <1>1 DEF RulesType
    <2>2. index[p].stale \in Ages
        BY <2>1, SnapshotShape
    <2>3. index'[p] = [index[p] EXCEPT !.stale = Older(index[p].stale)]
        BY <1>2
    <2>4. QED
        BY <1>1, <2>1, <2>2, <2>3, SnapshotShape, OlderShape
<1>4. ASSUME NEW p \in Workers, NEW b \in rebuilds[p], NEW c,
             c = [b EXCEPT !.stale = Older(@), !.left = @ - 1]
      PROVE  /\ c \in Rebuild /\ c.task = b.task /\ c.left = b.left - 1 /\ c.rules = b.rules
             /\ c.stale = UpToDate => b.stale = UpToDate
             /\ \A n \in Nat : b.stale <= n => c.stale <= n + 1
    <2>1. b \in Rebuild /\ b.left > 0
        BY <1>1 DEF RulesType, Tick
    <2>2. b.stale \in Ages
        BY <2>1, RebuildShape
    <2>3. b.left - 1 \in 0 .. MaxRebuild
        BY <1>1, <2>1, RebuildShape, Numbers
    <2>4. Older(b.stale) \in Ages
        BY <1>1, <2>2, OlderShape
    <2>5. /\ c \in Rebuild /\ c.task = b.task /\ c.left = b.left - 1 /\ c.rules = b.rules
          /\ c.stale = Older(b.stale)
        BY <1>4, <2>1, <2>3, <2>4 DEF Rebuild, Ages
    <2>6. QED
        BY <1>1, <2>2, <2>5, OlderShape
<1>5. ASSUME NEW p \in Workers, NEW e \in taken[p], NEW c,
             c = [e EXCEPT !.stale = Older(@), !.left = @ - 1]
      PROVE  /\ c \in Evaluation /\ c.left = e.left - 1 /\ c.rules = e.rules
             /\ c.stale = UpToDate => e.stale = UpToDate
             /\ \A n \in Nat : e.stale <= n => c.stale <= n + 1
    <2>1. e \in Evaluation /\ e.left > 0
        BY <1>1 DEF RulesType, Tick
    <2>2. e.stale \in Ages
        BY <2>1, EvaluationShape
    <2>3. e.left - 1 \in 0 .. MaxEval
        BY <1>1, <2>1, EvaluationShape, Numbers
    <2>4. Older(e.stale) \in Ages
        BY <1>1, <2>2, OlderShape
    <2>5. /\ c \in Evaluation /\ c.left = e.left - 1 /\ c.rules = e.rules
          /\ c.stale = Older(e.stale)
        BY <1>5, <2>1, <2>3, <2>4 DEF Evaluation, Ages
    <2>6. QED
        BY <1>1, <2>2, <2>5, OlderShape
<1>6. ASSUME NEW p \in Workers PROVE timer'[p] \in 0 .. RefreshEvery
    <2>1. timer[p] \in 0 .. RefreshEvery /\ RefreshEvery \in Nat
        BY <1>1, Numbers DEF ProcessType
    <2>2. timer'[p] = IF timer[p] > 0 THEN timer[p] - 1 ELSE 0
        BY <1>2
    <2>3. QED
        BY <2>1, <2>2
<1>7. \A p \in Workers : taken[p] = {} => taken'[p] = {}
    BY <1>2
<1>8. ProcessType'
    BY <1>1, <1>2, <1>6, <1>7 DEF ProcessType, listening
<1>9. RulesType'
    <2>1. index' \in [Workers -> Snapshot]
        BY <1>2, <1>3
    <2>2. DOMAIN rebuilds' = Workers /\ DOMAIN taken' = Workers
        BY <1>2
    <2>3. \A p \in Workers : rebuilds'[p] \subseteq Rebuild
        BY <1>2, <1>4
    <2>4. \A p \in Workers : taken'[p] \subseteq Evaluation
        BY <1>2, <1>5
    <2>5. QED
        BY <2>1, <2>2, <2>3, <2>4 DEF RulesType
<1>10. /\ Spent' = Spent /\ Allowed' = Allowed /\ Delay' = Delay
       /\ Enabled(table)' = Enabled(table)
    BY <1>2 DEF Spent, Allowed, Delay, Enabled, api
<1>11. ASSUME NEW p \in Workers PROVE AgeOf(p)'
    <2>1. AgeOf(p)
        BY DEF IInv, AgeInv
    <2>2. ASSUME NEW c \in rebuilds'[p]
          PROVE  RebuildAge(c)' /\ (c.task # "first" => status'[p] = "up")
        <3>1. PICK b \in rebuilds[p] : c = [b EXCEPT !.stale = Older(@), !.left = @ - 1]
            BY <1>2
        <3>2. b.stale <= MaxRebuild - b.left /\ Current(b)
              /\ (b.task # "first" => status[p] = "up")
            BY <2>1 DEF AgeOf, RebuildAge
        <3>3. b.left \in Int /\ MaxRebuild \in Int /\ MaxRebuild - b.left \in Nat
            BY <1>1, Bounds, Numbers, RebuildShape DEF RulesType
        <3>4. c.stale <= (MaxRebuild - b.left) + 1 /\ c.left = b.left - 1
              /\ c.task = b.task /\ c.rules = b.rules
              /\ (c.stale = UpToDate => b.stale = UpToDate)
            BY <1>4, <3>1, <3>2, <3>3
        <3>5. (MaxRebuild - b.left) + 1 = MaxRebuild - c.left
            BY <3>3, <3>4
        <3>6. QED
            BY <1>2, <1>10, <3>2, <3>4, <3>5 DEF RebuildAge, Current
    <2>3. ASSUME NEW c \in taken'[p] PROVE EvaluationAge(c)'
        <3>1. PICK e \in taken[p] : c = [e EXCEPT !.stale = Older(@), !.left = @ - 1]
            BY <1>2
        <3>2. e.stale <= Allowed + MaxEval - e.left /\ Current(e)
            BY <2>1 DEF AgeOf, EvaluationAge
        <3>3. e.left \in Int /\ MaxEval \in Int /\ Allowed \in Int
              /\ Allowed + MaxEval - e.left \in Nat
            BY <1>1, Bounds, Numbers, EvaluationShape DEF RulesType
        <3>4. c.stale <= (Allowed + MaxEval - e.left) + 1 /\ c.left = e.left - 1
              /\ c.rules = e.rules /\ (c.stale = UpToDate => e.stale = UpToDate)
            BY <1>5, <3>1, <3>2, <3>3
        <3>5. (Allowed + MaxEval - e.left) + 1 = Allowed + MaxEval - c.left
            BY <3>3, <3>4
        <3>6. QED
            BY <1>10, <3>2, <3>4, <3>5 DEF EvaluationAge, Current
    <2>4. ASSUME status[p] = "up" PROVE IndexAge(p)'
        <3>1. IndexAge(p) /\ Spent \in Int /\ Delay \in Int /\ MaxRebuild \in Int
            BY <1>1, <2>1, <2>4, Numbers DEF AgeOf
        <3>2. ASSUME NEW c \in rebuilds'[p], c.task = "refresh"
              PROVE  index'[p].stale <= Spent + Delay + MaxRebuild - c.left
            <4>1. PICK b \in rebuilds[p] : c = [b EXCEPT !.stale = Older(@), !.left = @ - 1]
                BY <1>2
            <4>2. c.task = b.task /\ c.left = b.left - 1
                BY <1>4, <4>1
            <4>3. b.left \in Int /\ Spent + Delay + MaxRebuild - b.left \in Nat
                BY <1>1, Bounds, RebuildShape DEF RulesType
            <4>4. index'[p].stale <= (Spent + Delay + MaxRebuild - b.left) + 1
                BY <1>3, <3>1, <3>2, <4>2, <4>3 DEF IndexAge
            <4>5. (Spent + Delay + MaxRebuild - b.left) + 1 = Spent + Delay + MaxRebuild - c.left
                BY <3>1, <4>2, <4>3
            <4>6. QED
                BY <4>4, <4>5
        <3>3. ASSUME \A c \in rebuilds'[p] : c.task # "refresh"
              PROVE  index'[p].stale <= Spent + Delay - timer'[p]
            <4>1. \A b \in rebuilds[p] : b.task # "refresh"
                BY <1>2, <1>4, <3>3
            <4>2. timer[p] # 0
                BY <2>4, <4>1 DEF Tick, Building
            <4>3. timer[p] \in Int /\ timer[p] > 0 /\ timer'[p] = timer[p] - 1
                <5>1. timer[p] \in 0 .. RefreshEvery /\ RefreshEvery \in Nat
                    BY <1>1, Numbers DEF ProcessType
                <5>2. timer'[p] = IF timer[p] > 0 THEN timer[p] - 1 ELSE 0
                    BY <1>2
                <5>3. QED
                    BY <4>2, <5>1, <5>2
            <4>4. Spent + Delay - timer[p] \in Nat
                BY Bounds
            <4>5. index'[p].stale <= (Spent + Delay - timer[p]) + 1
                BY <1>3, <3>1, <4>1, <4>4 DEF IndexAge
            <4>6. (Spent + Delay - timer[p]) + 1 = Spent + Delay - timer'[p]
                BY <3>1, <4>3
            <4>7. QED
                BY <4>5, <4>6
        <3>4. QED
            BY <1>10, <3>2, <3>3 DEF IndexAge
    <2>5. status'[p] = "up" => Current(index[p])'
        BY <1>2, <1>3, <1>10, <2>1 DEF AgeOf, Current
    <2>6. QED
        BY <1>2, <2>2, <2>3, <2>4, <2>5 DEF AgeOf
<1>12. QED
    BY <1>8, <1>9, <1>11 DEF AgeInv

\* What is left alone keeps its age: the rules of every process ...
LEMMA SameAges ==
    ASSUME IInv, UNCHANGED <<table, status, index, rebuilds, timer, taken, failures>>
    PROVE  RulesType' /\ AgeInv'
<1>1. RulesType' /\ Spent' = Spent /\ Allowed' = Allowed /\ Enabled(table)' = Enabled(table)
    BY DEF IInv, RulesType, Spent, Allowed, Enabled
<1>2. ASSUME NEW p \in Workers PROVE AgeOf(p)'
    <2>1. AgeOf(p)
        BY DEF IInv, AgeInv
    <2>2. QED
        BY <1>1, <2>1 DEF AgeOf, RebuildAge, EvaluationAge, IndexAge, Current, Delay
<1>3. QED
    BY <1>1, <1>2 DEF AgeInv

\* ... or those of the processes that do not take the step.
LEMMA OtherAges ==
    ASSUME IInv, UNCHANGED table, NEW o \in Workers, failures' \in {failures, failures + 1},
           status'[o] = status[o], index'[o] = index[o], rebuilds'[o] = rebuilds[o],
           timer'[o] = timer[o], taken'[o] = taken[o]
    PROVE  AgeOf(o)'
<1>1. ProcessType /\ RulesType /\ AgeOf(o)
    BY DEF IInv, AgeInv
<1>2. /\ Spent \in Nat /\ Spent' \in Nat /\ Allowed \in Nat /\ Allowed' \in Nat
      /\ Spent <= Spent' /\ Allowed <= Allowed' /\ Delay \in Nat
    <2>1. Spent \in Nat /\ Allowed \in Nat /\ Delay \in Nat
        BY <1>1, Numbers
    <2>2. CASE failures' = failures
        BY <2>1, <2>2 DEF Spent, Allowed
    <2>3. CASE failures' = failures + 1
        BY <1>1, <2>1, <2>3, SpentGrows
    <2>4. QED
        BY <2>2, <2>3
<1>3. Enabled(table)' = Enabled(table) /\ Delay' = Delay
    BY DEF Enabled, Delay
<1>4. \A b \in rebuilds'[o] : RebuildAge(b)' /\ (b.task # "first" => status'[o] = "up")
    BY <1>1, <1>3 DEF AgeOf, RebuildAge, Current
<1>5. ASSUME NEW e \in taken'[o] PROVE EvaluationAge(e)'
    <2>1. e.stale \in Int /\ e.left \in Int /\ MaxEval \in Int
        BY <1>1, Numbers, EvaluationShape DEF RulesType, Ages, UpToDate
    <2>2. e.stale <= Allowed + MaxEval - e.left /\ Current(e)
        BY <1>1 DEF AgeOf, EvaluationAge
    <2>3. QED
        BY <1>2, <1>3, <2>1, <2>2 DEF EvaluationAge, Current
<1>6. ASSUME status[o] = "up" PROVE Current(index[o])' /\ IndexAge(o)'
    <2>1. index[o].stale \in Int
        BY <1>1, SnapshotShape DEF RulesType, Ages, UpToDate
    <2>2. IndexAge(o) /\ Current(index[o])
        BY <1>1, <1>6 DEF AgeOf
    <2>3. /\ timer[o] \in Int /\ MaxRebuild \in Int
          /\ \A b \in rebuilds[o] : b.left \in Int
        BY <1>1, Numbers, RebuildShape DEF ProcessType, RulesType
    <2>4. \A b \in rebuilds[o] : b.task = "refresh" =>
             index[o].stale <= Spent' + Delay + MaxRebuild - b.left
        BY <1>2, <2>1, <2>2, <2>3 DEF IndexAge
    <2>5. (\A b \in rebuilds[o] : b.task # "refresh") =>
             index[o].stale <= Spent' + Delay - timer[o]
        BY <1>2, <2>1, <2>2, <2>3 DEF IndexAge
    <2>6. QED
        BY <1>3, <2>2, <2>4, <2>5 DEF IndexAge, Current
<1>7. QED
    BY <1>4, <1>5, <1>6 DEF AgeOf

\* A rebuild takes the table as it is: it misses nothing, and has all its time.
LEMMA LoadAges ==
    ASSUME IInv, NEW p \in Workers, NEW task \in {"first", "listener", "refresh"},
           Load(p, task), UNCHANGED <<table, index, timer, taken, failures>>,
           \A o \in Workers \ {p} : status'[o] = status[o],
           task = "first" => status[p] = "down" /\ status'[p] # "up",
           task # "first" => status[p] = "up" /\ status'[p] = "up",
           task = "refresh" => timer[p] = 0 /\ ~ Building(p, "refresh")
    PROVE  RulesType' /\ AgeInv'
<1> DEFINE new == [task |-> task, rules |-> Enabled(table), stale |-> UpToDate,
                   left |-> MaxRebuild]
<1>1. ProcessType /\ RulesType /\ TableType /\ MaxRebuild \in Nat
    BY Numbers DEF IInv
<1>2. /\ new \in Rebuild /\ new.task = task /\ new.rules = Enabled(table)
      /\ new.stale = UpToDate /\ new.left = MaxRebuild
    BY <1>1, EnabledType DEF Rebuild
<1>3. rebuilds' = [rebuilds EXCEPT ![p] = @ \cup {new}]
    BY DEF Load
<1> HIDE DEF new
<1>4. /\ rebuilds'[p] = rebuilds[p] \cup {new}
      /\ \A o \in Workers \ {p} : rebuilds'[o] = rebuilds[o]
      /\ DOMAIN rebuilds' = Workers
    BY <1>1, <1>3 DEF RulesType
<1>5. RulesType'
    BY <1>1, <1>2, <1>4 DEF RulesType
<1>6. /\ Spent' = Spent /\ Allowed' = Allowed /\ Delay' = Delay
      /\ Enabled(table)' = Enabled(table)
    BY DEF Spent, Allowed, Delay, Enabled
<1>7. ASSUME NEW o \in Workers, o # p PROVE AgeOf(o)'
    BY <1>4, <1>7, OtherAges
<1>8. AgeOf(p)'
    <2>1. AgeOf(p)
        BY DEF IInv, AgeInv
    <2>2. ASSUME NEW b \in rebuilds'[p]
          PROVE  RebuildAge(b)' /\ (b.task # "first" => status'[p] = "up")
        <3>1. CASE b = new
            BY <1>1, <1>2, <1>6, <3>1 DEF RebuildAge, Current, UpToDate
        <3>2. CASE b \in rebuilds[p]
            BY <1>6, <2>1, <3>2 DEF AgeOf, RebuildAge, Current
        <3>3. QED
            BY <1>4, <3>1, <3>2
    <2>3. \A e \in taken'[p] : EvaluationAge(e)'
        BY <1>6, <2>1 DEF AgeOf, EvaluationAge, Current
    <2>4. ASSUME status'[p] = "up" PROVE Current(index[p])' /\ IndexAge(p)'
        <3>1. status[p] = "up" /\ IndexAge(p) /\ Current(index[p])
            BY <2>1, <2>4 DEF AgeOf
        <3>2. (\A b \in rebuilds'[p] : b.task # "refresh") =>
                 index[p].stale <= Spent + Delay - timer[p]
            BY <1>4, <3>1 DEF IndexAge
        <3>3. ASSUME NEW b \in rebuilds'[p], b.task = "refresh"
              PROVE  index[p].stale <= Spent + Delay + MaxRebuild - b.left
            <4>1. CASE b = new
                <5>1. index[p].stale <= Spent + Delay - timer[p] /\ timer[p] = 0
                    BY <1>2, <3>1, <3>3, <4>1 DEF IndexAge, Building
                <5>2. Spent \in Int /\ Delay \in Int /\ b.left = MaxRebuild
                    BY <1>1, <1>2, <4>1, Numbers
                <5>3. Spent + Delay - timer[p] = Spent + Delay + MaxRebuild - b.left
                    BY <1>1, <5>1, <5>2
                <5>4. QED
                    BY <5>1, <5>3
            <4>2. CASE b \in rebuilds[p]
                BY <3>1, <3>3, <4>2 DEF IndexAge
            <4>3. QED
                BY <1>4, <4>1, <4>2
        <3>4. QED
            BY <1>6, <3>1, <3>2, <3>3 DEF IndexAge, Current
    <2>5. QED
        BY <2>2, <2>3, <2>4 DEF AgeOf
<1>9. QED
    BY <1>5, <1>7, <1>8 DEF AgeInv

\* A rebuild is over: what its process has then is no older than a rebuild
\* takes, or than was allowed before one more failure.
LEMMA ProceedAges ==
    ASSUME IInv, NEW p \in Workers, NEW b \in rebuilds[p], Proceed(p, b.task),
           rebuilds' = [rebuilds EXCEPT ![p] = @ \ {b}],
           NEW x \in Snapshot, index' = [index EXCEPT ![p] = x], Current(x),
           x.stale <= Spent' + MaxRebuild,
           \/ failures' = failures
           \/ failures' = failures + 1 /\ failures < MaxFailures
    PROVE  ProcessType' /\ RulesType' /\ AgeInv'
<1>1. ProcessType /\ RulesType /\ b \in Rebuild
    BY DEF IInv, RulesType
<1>2. b.task \in {"first", "listener", "refresh"}
    BY <1>1, RebuildShape
<1>3. /\ UNCHANGED <<api, alive, buffered, taken>>
      /\ status' = [status EXCEPT ![p] = "up"]
      /\ timer' = IF b.task = "listener" THEN timer
                  ELSE [timer EXCEPT ![p] = RefreshEvery]
    BY DEF Proceed
<1>4. /\ RefreshEvery \in Nat /\ MaxRebuild \in Nat /\ MaxEval \in Nat
      /\ Spent \in Nat /\ Delay \in Nat /\ Allowed \in Nat
      /\ Delay = RefreshEvery + MaxRebuild /\ failures \in 0 .. MaxFailures
    BY <1>1, Numbers DEF Delay, ProcessType
<1>5. Spent' \in Nat /\ Spent <= Spent' /\ Allowed' \in Nat /\ Allowed <= Allowed'
    <2>1. CASE failures' = failures
        BY <1>4, <2>1 DEF Spent, Allowed
    <2>2. CASE failures' = failures + 1
        BY <1>1, <1>4, <2>2, SpentGrows
    <2>3. QED
        BY <2>1, <2>2
<1>6. timer' \in [Workers -> 0 .. RefreshEvery]
    <2>1. timer \in [Workers -> 0 .. RefreshEvery] /\ RefreshEvery \in 0 .. RefreshEvery
        BY <1>1, <1>4 DEF ProcessType
    <2>2. QED
        BY <1>3, <2>1
<1>7. listener' \in [Workers -> {"off", "connecting", "listening", "rebuilding"}]
      /\ \A o \in Workers \ {p} : listener'[o] = listener[o]
    <2>1. listener \in [Workers -> {"off", "connecting", "listening", "rebuilding"}]
        BY <1>1 DEF ProcessType
    <2>2. CASE b.task = "first"
        BY <2>1, <2>2 DEF Proceed
    <2>3. CASE b.task = "refresh"
        BY <2>1, <2>3 DEF Proceed
    <2>4. CASE b.task = "listener"
        BY <2>1, <2>4 DEF Proceed
    <2>5. QED
        BY <1>2, <2>2, <2>3, <2>4
<1>8. ProcessType'
    <2>1. failures' \in 0 .. MaxFailures
        BY <1>4, SyncAssumption
    <2>2. status' \in [Workers -> {"down", "starting", "up"}] /\ status'[p] = "up"
          /\ \A o \in Workers \ {p} : status'[o] = status[o]
        BY <1>1, <1>3 DEF ProcessType
    <2>3. \A o \in Workers : status'[o] # "up" =>
             listener'[o] = "off" /\ ~ alive'[o] /\ taken'[o] = {}
        BY <1>1, <1>3, <1>7, <2>2 DEF ProcessType
    <2>4. QED
        BY <1>1, <1>3, <1>6, <1>7, <2>1, <2>2, <2>3 DEF ProcessType
<1>9. /\ rebuilds'[p] = rebuilds[p] \ {b} /\ DOMAIN rebuilds' = Workers
      /\ \A o \in Workers \ {p} : rebuilds'[o] = rebuilds[o]
      /\ index' \in [Workers -> Snapshot] /\ index'[p] = x
      /\ \A o \in Workers \ {p} : index'[o] = index[o]
    BY <1>1 DEF RulesType
<1>10. RulesType'
    BY <1>1, <1>3, <1>9 DEF RulesType
<1>11. Enabled(table)' = Enabled(table) /\ Delay' = Delay
    BY <1>3 DEF Enabled, Delay, api
<1>12. ASSUME NEW o \in Workers, o # p PROVE AgeOf(o)'
    <2>1. status'[o] = status[o] /\ timer'[o] = timer[o]
        BY <1>1, <1>3, <1>12 DEF ProcessType
    <2>2. UNCHANGED <<table, taken>>
        BY <1>3 DEF api
    <2>3. QED
        BY <1>9, <1>12, <2>1, <2>2, OtherAges
<1>13. AgeOf(p)'
    <2>1. AgeOf(p)
        BY DEF IInv, AgeInv
    <2>2. status'[p] = "up" /\ taken'[p] = taken[p]
        BY <1>1, <1>3 DEF ProcessType
    <2>3. \A c \in rebuilds'[p] : RebuildAge(c)'
        BY <1>9, <1>11, <2>1 DEF AgeOf, RebuildAge, Current
    <2>4. ASSUME NEW e \in taken'[p] PROVE EvaluationAge(e)'
        <3>1. e \in Evaluation /\ e.stale <= Allowed + MaxEval - e.left /\ Current(e)
            BY <1>1, <2>1, <2>2 DEF AgeOf, EvaluationAge, RulesType
        <3>2. e.stale \in Int /\ e.left \in Int
            BY <3>1, EvaluationShape DEF Ages, UpToDate
        <3>3. e.stale <= Allowed' + MaxEval - e.left
            BY <1>4, <1>5, <3>1, <3>2
        <3>4. QED
            BY <1>11, <3>1, <3>3 DEF EvaluationAge, Current
    <2>5. x.stale \in Int
        BY SnapshotShape DEF Ages, UpToDate
    <2>6. ASSUME NEW c \in rebuilds'[p]
          PROVE  x.stale <= Spent' + Delay + MaxRebuild - c.left
        <3>1. c.left \in 0 .. MaxRebuild
            BY <1>1, <1>9, RebuildShape DEF RulesType
        <3>2. QED
            BY <1>4, <1>5, <2>5, <3>1
    <2>7. x.stale <= Spent' + Delay - timer'[p]
        <3>1. timer'[p] \in 0 .. RefreshEvery
            BY <1>6
        <3>2. QED
            BY <1>4, <1>5, <2>5, <3>1
    <2>8. IndexAge(p)' /\ Current(index[p])'
        BY <1>9, <1>11, <2>6, <2>7 DEF IndexAge, Current
    <2>9. QED
        BY <2>2, <2>3, <2>4, <2>8 DEF AgeOf
<1>14. QED
    BY <1>8, <1>10, <1>12, <1>13 DEF AgeInv

\* A rebuild that ends, installed or failed, leaves the ages in their bounds.
LEMMA RebuildEndsAges ==
    ASSUME IInv, NEW p \in Workers, Install(p) \/ RebuildFails(p)
    PROVE  ProcessType' /\ RulesType' /\ AgeInv'
<1>1. ProcessType /\ RulesType /\ AgeOf(p)
    BY DEF IInv, AgeInv
<1>2. /\ RefreshEvery \in Nat /\ MaxRebuild \in Nat /\ Spent \in Nat /\ Delay \in Nat
      /\ Allowed = Spent + Delay + MaxRebuild
    BY <1>1, Numbers
<1>3. CASE Install(p)
    <2>1. PICK b \in rebuilds[p] :
             /\ index' = [index EXCEPT ![p] = [rules |-> b.rules, stale |-> b.stale]]
             /\ rebuilds' = [rebuilds EXCEPT ![p] = @ \ {b}]
             /\ Proceed(p, b.task) /\ failures' = failures
        BY <1>3 DEF Install
    <2> DEFINE x == [rules |-> b.rules, stale |-> b.stale]
    <2>2. b.stale \in Ages /\ b.rules \in Bucketed /\ b.left \in 0 .. MaxRebuild
        BY <1>1, RebuildShape DEF RulesType
    <2>3. x \in Snapshot /\ x.stale = b.stale /\ x.rules = b.rules
        BY <2>2 DEF Snapshot, Ages
    <2>4. b.stale <= MaxRebuild - b.left /\ Current(x)
        BY <1>1, <2>3 DEF AgeOf, RebuildAge, Current
    <2>5. Spent' = Spent
        BY <2>1 DEF Spent
    <2>6. b.stale \in Int
        BY <2>2 DEF Ages, UpToDate
    <2>7. x.stale <= Spent' + MaxRebuild
        BY <1>2, <2>2, <2>3, <2>4, <2>5, <2>6
    <2> HIDE DEF x
    <2>8. index' = [index EXCEPT ![p] = x]
        BY <2>1 DEF x
    <2>9. QED
        BY <2>1, <2>3, <2>4, <2>7, <2>8, ProceedAges
<1>4. CASE RebuildFails(p)
    <2>1. PICK b \in rebuilds[p] :
             /\ b.task # "first" /\ failures < MaxFailures /\ failures' = failures + 1
             /\ rebuilds' = [rebuilds EXCEPT ![p] = @ \ {b}]
             /\ Proceed(p, b.task) /\ UNCHANGED index
        BY <1>4 DEF RebuildFails
    <2>2. status[p] = "up"
        BY <1>1, <2>1 DEF AgeOf
    <2>3. Current(index[p]) /\ index[p].stale <= Allowed
        BY <1>1, <2>2, IndexWithinBound DEF AgeOf
    <2>4. Spent' = Spent + Delay
        BY <1>1, <2>1, SpentGrows
    <2>5. index[p].stale <= Spent' + MaxRebuild
        BY <1>2, <2>3, <2>4
    <2>6. index[p] \in Snapshot /\ index' = [index EXCEPT ![p] = index[p]]
        BY <1>1, <2>1 DEF RulesType
    <2>7. QED
        BY <2>1, <2>3, <2>5, <2>6, ProceedAges
<1>5. QED
    BY <1>3, <1>4

\* An evaluation takes what the index holds and keeps it while it lasts.
LEMMA EvaluateAges ==
    ASSUME IInv, NEW p \in Workers, Evaluate(p)
    PROVE  ProcessType' /\ RulesType' /\ AgeInv'
<1> DEFINE new == [rules |-> index[p].rules, stale |-> index[p].stale, left |-> MaxEval]
<1>1. ProcessType /\ RulesType
    BY DEF IInv
<1>2. /\ UNCHANGED <<api, status, index, rebuilds, timer, listening, failures>>
      /\ \/ status[p] = "up" /\ taken' = [taken EXCEPT ![p] = {new}]
         \/ taken' = [taken EXCEPT ![p] = {}]
    BY DEF Evaluate, TakeRules, EvaluationEnds
<1>3. MaxEval \in Nat /\ index[p] \in Snapshot
    BY <1>1, Numbers DEF RulesType
<1>4. /\ new \in Evaluation /\ new.rules = index[p].rules
      /\ new.stale = index[p].stale /\ new.left = MaxEval
    BY <1>3 DEF Evaluation, Snapshot
<1> HIDE DEF new
<1>5. /\ DOMAIN taken' = Workers /\ \A o \in Workers \ {p} : taken'[o] = taken[o]
      /\ taken'[p] = {} \/ (status[p] = "up" /\ taken'[p] = {new})
    <2>1. DOMAIN taken = Workers
        BY <1>1 DEF RulesType
    <2>2. CASE status[p] = "up" /\ taken' = [taken EXCEPT ![p] = {new}]
        BY <2>1, <2>2
    <2>3. CASE taken' = [taken EXCEPT ![p] = {}]
        BY <2>1, <2>3
    <2>4. QED
        BY <1>2, <2>2, <2>3
<1>6. ProcessType'
    BY <1>1, <1>2, <1>5 DEF ProcessType, listening
<1>7. RulesType'
    BY <1>1, <1>2, <1>4, <1>5 DEF RulesType
<1>8. /\ Spent' = Spent /\ Allowed' = Allowed /\ Delay' = Delay
      /\ Enabled(table)' = Enabled(table)
    BY <1>2 DEF Spent, Allowed, Delay, Enabled, api
<1>9. ASSUME NEW o \in Workers, o # p PROVE AgeOf(o)'
    BY <1>2, <1>5, <1>9, OtherAges DEF api
<1>10. AgeOf(p)'
    <2>1. AgeOf(p)
        BY DEF IInv, AgeInv
    <2>2. \A b \in rebuilds'[p] : RebuildAge(b)' /\ (b.task # "first" => status'[p] = "up")
        BY <1>2, <1>8, <2>1 DEF AgeOf, RebuildAge, Current
    <2>3. status'[p] = "up" => Current(index[p])' /\ IndexAge(p)'
        BY <1>2, <1>8, <2>1 DEF AgeOf, IndexAge, Current
    <2>4. ASSUME NEW e \in taken'[p] PROVE EvaluationAge(e)'
        <3>1. e = new /\ status[p] = "up"
            BY <1>5
        <3>2. index[p].stale <= Allowed /\ Current(index[p])
            BY <2>1, <3>1, IndexWithinBound DEF AgeOf
        <3>3. Allowed \in Nat /\ index[p].stale \in Int
            BY <1>1, <1>3, Numbers, SnapshotShape DEF Ages, UpToDate
        <3>4. e.stale <= Allowed + MaxEval - e.left
            BY <1>3, <1>4, <3>1, <3>2, <3>3
        <3>5. QED
            BY <1>4, <1>8, <3>1, <3>2, <3>4 DEF EvaluationAge, Current
    <2>5. QED
        BY <2>2, <2>3, <2>4 DEF AgeOf
<1>11. QED
    BY <1>6, <1>7, <1>9, <1>10 DEF AgeInv

\* A process that dies leaves nothing behind.
LEMMA CrashAges ==
    ASSUME IInv, NEW p \in Workers, Crash(p)
    PROVE  ProcessType' /\ RulesType' /\ AgeInv'
<1>1. ProcessType /\ RulesType /\ MaxBuffered \in Nat /\ RefreshEvery \in Nat
    BY SyncAssumption DEF IInv
<1>2. /\ status' = [status EXCEPT ![p] = "down"]
      /\ index' = [index EXCEPT ![p] = NoRules]
      /\ rebuilds' = [rebuilds EXCEPT ![p] = {}]
      /\ timer' = [timer EXCEPT ![p] = 0]
      /\ listener' = [listener EXCEPT ![p] = "off"]
      /\ alive' = [alive EXCEPT ![p] = FALSE]
      /\ buffered' = [buffered EXCEPT ![p] = 0]
      /\ taken' = [taken EXCEPT ![p] = {}]
      /\ UNCHANGED <<api, failures>>
    BY DEF Crash, Unread
<1>3. NoRules \in Snapshot
    <2>1. NoTable \in [{} -> [Columns -> Values \cup {Null}]]
        BY DEF NoTable
    <2>2. NoTable \in Bucketed
        BY <2>1 DEF Bucketed
    <2>3. QED
        BY <2>2 DEF NoRules, Snapshot
<1>4. /\ status'[p] = "down" /\ listener'[p] = "off" /\ ~ alive'[p]
      /\ \A o \in Workers \ {p} :
            status'[o] = status[o] /\ listener'[o] = listener[o] /\ alive'[o] = alive[o]
      /\ status' \in [Workers -> {"down", "starting", "up"}]
      /\ listener' \in [Workers -> {"off", "connecting", "listening", "rebuilding"}]
      /\ alive' \in [Workers -> BOOLEAN]
    BY <1>1, <1>2 DEF ProcessType
<1>5. timer' \in [Workers -> 0 .. RefreshEvery] /\ buffered' \in [Workers -> 0 .. MaxBuffered]
      /\ \A o \in Workers \ {p} : timer'[o] = timer[o]
    <2>1. 0 \in 0 .. RefreshEvery /\ 0 \in 0 .. MaxBuffered
        BY <1>1
    <2>2. QED
        BY <1>1, <1>2, <2>1 DEF ProcessType
<1>6. /\ rebuilds'[p] = {} /\ taken'[p] = {}
      /\ DOMAIN rebuilds' = Workers /\ DOMAIN taken' = Workers
      /\ index' \in [Workers -> Snapshot]
      /\ \A o \in Workers \ {p} :
            rebuilds'[o] = rebuilds[o] /\ taken'[o] = taken[o] /\ index'[o] = index[o]
    BY <1>1, <1>2, <1>3 DEF RulesType
<1>7. ProcessType'
    BY <1>1, <1>2, <1>4, <1>5, <1>6 DEF ProcessType
<1>8. RulesType'
    BY <1>1, <1>6 DEF RulesType
<1>9. ASSUME NEW o \in Workers, o # p PROVE AgeOf(o)'
    BY <1>2, <1>4, <1>5, <1>6, <1>9, OtherAges DEF api
<1>10. AgeOf(p)'
    BY <1>4, <1>6 DEF AgeOf
<1>11. QED
    BY <1>7, <1>8, <1>9, <1>10 DEF AgeInv

-----------------------------------------------------------------------------
(* The invariant holds initially and is kept.                              *)

\* The inductive invariant holds at the start.
LEMMA InitOK == Init => IInv
<1> SUFFICES ASSUME Init PROVE IInv
    OBVIOUS
<1>1. NoTable \in [{} -> Row] /\ DOMAIN NoTable = {}
    BY DEF NoTable
<1>2. TableType /\ RulesComplete
    BY <1>1 DEF Init, TableType, RulesComplete
<1>3. RequestType
    BY DoingShape DEF Init, RequestType
<1>4. ProcessType
    BY SyncAssumption DEF Init, ProcessType
<1>5. NoRules \in Snapshot
    <2>1. NoTable \in [{} -> [Columns -> Values \cup {Null}]]
        BY DEF NoTable
    <2>2. NoTable \in Bucketed
        BY <2>1 DEF Bucketed
    <2>3. QED
        BY <2>2 DEF NoRules, Snapshot
<1>6. RulesType
    BY <1>5 DEF Init, RulesType
<1>7. AgeInv
    BY DEF Init, AgeInv, AgeOf
<1>8. QED
    BY <1>2, <1>3, <1>4, <1>6, <1>7 DEF IInv

\* An edit of a rule and its announcement keep the inductive invariant.
LEMMA EditOK ==
    ASSUME IInv, NEW q \in Requests, Edit(q) \/ Publish(q)
    PROVE  IInv'
<1>1. TableType' /\ RequestType' /\ RulesComplete'
    BY EditTable
<1>2. TableType /\ RequestType /\ ProcessType
    BY DEF IInv
<1>3. CASE CreateRule(q)
    <2>1. PICK r \in Rules, row \in Row : CommitRow(r, row)
        BY <1>3 DEF CreateRule
    <2>2. QED
        BY <1>1, <2>1, CommitRowAges DEF IInv
<1>4. CASE CommitPatch(q)
    <2>1. requests[q].rule \in Rules
        BY <1>2, <1>4, RequestShape DEF CommitPatch, RequestType
    <2>2. CommitRow(requests[q].rule,
              Patched(table[requests[q].rule], requests[q].seen, requests[q].next))
        BY <1>4 DEF CommitPatch
    <2>3. QED
        BY <1>1, <2>1, <2>2, CommitRowAges DEF IInv
<1>5. CASE ReadRule(q) \/ AnnounceFails(q)
    <2>1. UNCHANGED <<table, status, index, rebuilds, timer, listening, taken, failures>>
        BY <1>5 DEF ReadRule, AnnounceFails
    <2>2. ProcessType'
        BY <1>2, <2>1 DEF ProcessType, listening
    <2>3. QED
        BY <1>1, <2>1, <2>2, SameAges DEF IInv
<1>6. CASE Announce(q)
    <2>1. /\ UNCHANGED <<table, status, index, rebuilds, timer, listener, alive, taken, failures>>
          /\ buffered' = [p \in Workers |-> buffered[p] + IF Subscribed(p) THEN 1 ELSE 0]
          /\ \A p \in Workers : Subscribed(p) => buffered[p] < MaxBuffered
        BY <1>6 DEF Announce
    <2>2. ASSUME NEW p \in Workers
          PROVE  buffered[p] + (IF Subscribed(p) THEN 1 ELSE 0) \in 0 .. MaxBuffered
        <3>1. buffered[p] \in 0 .. MaxBuffered /\ MaxBuffered \in Nat
            BY <1>2, SyncAssumption DEF ProcessType
        <3>2. QED
            BY <2>1, <3>1
    <2>3. buffered' \in [Workers -> 0 .. MaxBuffered]
        BY <2>1, <2>2
    <2>4. ProcessType'
        BY <1>2, <2>1, <2>3 DEF ProcessType
    <2>5. QED
        BY <1>1, <2>1, <2>4, SameAges DEF IInv
<1>7. QED
    BY <1>3, <1>4, <1>5, <1>6 DEF Edit, Publish

\* The steps that start a rebuild.
LEMMA LoadOK ==
    ASSUME IInv, NEW p \in Workers, Start(p) \/ RefreshLoad(p) \/ ListenerLoad(p)
    PROVE  ProcessType' /\ RulesType' /\ AgeInv'
<1>1. ProcessType
    BY DEF IInv
<1>2. CASE Start(p)
    <2>1. /\ UNCHANGED <<api, index, timer, listening, taken, failures>>
          /\ status[p] = "down" /\ status' = [status EXCEPT ![p] = "starting"]
          /\ Load(p, "first")
        BY <1>2 DEF Start
    <2>2. status'[p] = "starting" /\ \A o \in Workers \ {p} : status'[o] = status[o]
        BY <1>1, <2>1 DEF ProcessType
    <2>3. ProcessType'
        BY <1>1, <2>1, <2>2 DEF ProcessType, listening
    <2>4. QED
        BY <2>1, <2>2, <2>3, LoadAges DEF api
<1>3. CASE RefreshLoad(p)
    <2>1. /\ UNCHANGED <<api, status, index, timer, listening, taken, failures>>
          /\ status[p] = "up" /\ timer[p] = 0 /\ ~ Building(p, "refresh")
          /\ Load(p, "refresh")
        BY <1>3 DEF RefreshLoad
    <2>2. ProcessType'
        BY <1>1, <2>1 DEF ProcessType, listening
    <2>3. QED
        BY <2>1, <2>2, LoadAges DEF api
<1>4. CASE ListenerLoad(p)
    <2>1. /\ UNCHANGED <<api, status, index, timer, alive, taken, failures>>
          /\ listener[p] = "listening" /\ buffered[p] > 0
          /\ buffered' = [buffered EXCEPT ![p] = @ - 1]
          /\ listener' = [listener EXCEPT ![p] = "rebuilding"]
          /\ Load(p, "listener")
        BY <1>4 DEF ListenerLoad
    <2>2. status[p] = "up"
        BY <1>1, <2>1 DEF ProcessType
    <2>3. buffered' \in [Workers -> 0 .. MaxBuffered]
        <3>1. buffered[p] - 1 \in 0 .. MaxBuffered
            BY <1>1, <2>1, SyncAssumption DEF ProcessType
        <3>2. QED
            BY <1>1, <2>1, <3>1 DEF ProcessType
    <2>4. ProcessType'
        BY <1>1, <2>1, <2>2, <2>3 DEF ProcessType
    <2>5. QED
        BY <2>1, <2>2, <2>4, LoadAges DEF api
<1>5. QED
    BY <1>2, <1>3, <1>4

\* The steps of the connection.
LEMMA ConnectionOK ==
    ASSUME IInv, NEW p \in Workers, Subscribe(p) \/ Drop(p) \/ Detect(p)
    PROVE  ProcessType' /\ RulesType' /\ AgeInv'
<1>1. ProcessType /\ MaxBuffered \in Nat
    BY SyncAssumption DEF IInv
<1>2. UNCHANGED <<table, status, index, rebuilds, timer, taken, failures>>
    BY DEF Subscribe, Drop, Detect, api
<1>3. CASE Subscribe(p)
    <2>1. /\ listener[p] = "connecting" /\ UNCHANGED buffered
          /\ listener' = [listener EXCEPT ![p] = "listening"]
          /\ alive' = [alive EXCEPT ![p] = TRUE]
        BY <1>3 DEF Subscribe
    <2>2. ProcessType'
        BY <1>1, <1>2, <2>1 DEF ProcessType
    <2>3. QED
        BY <1>2, <2>2, SameAges
<1>4. CASE Drop(p)
    <2>1. PICK left \in 0 .. buffered[p] :
             /\ alive' = [alive EXCEPT ![p] = FALSE]
             /\ buffered' = [buffered EXCEPT ![p] = left] /\ UNCHANGED listener
        BY <1>4 DEF Drop, Unread
    <2>2. left \in 0 .. MaxBuffered
        BY <1>1 DEF ProcessType
    <2>3. ProcessType'
        BY <1>1, <1>2, <2>1, <2>2 DEF ProcessType
    <2>4. QED
        BY <1>2, <2>3, SameAges
<1>5. CASE Detect(p)
    <2>1. /\ listener[p] = "listening" /\ UNCHANGED alive
          /\ listener' = [listener EXCEPT ![p] = "connecting"]
          /\ buffered' = [buffered EXCEPT ![p] = 0]
        BY <1>5 DEF Detect, Unread
    <2>2. 0 \in 0 .. MaxBuffered
        BY <1>1
    <2>3. ProcessType'
        BY <1>1, <1>2, <2>1, <2>2 DEF ProcessType
    <2>4. QED
        BY <1>2, <2>3, SameAges
<1>6. QED
    BY <1>3, <1>4, <1>5

\* Every step and every fault of a worker keeps the inductive invariant.
LEMMA WorkerOK ==
    ASSUME IInv, NEW p \in Workers, Refresh(p) \/ Listen(p) \/ Evaluate(p) \/ Fault(p)
    PROVE  IInv'
<1>1. UNCHANGED api
    BY DEF Refresh, Listen, Evaluate, Fault, Start, RefreshLoad, Install, ListenerLoad,
           Subscribe, Detect, TakeRules, EvaluationEnds, RebuildFails, Drop, Crash, Proceed
<1>2. TableType' /\ RequestType' /\ RulesComplete'
    BY <1>1, SameTable
<1>3. ProcessType' /\ RulesType' /\ AgeInv'
    BY LoadOK, RebuildEndsAges, ConnectionOK, EvaluateAges, CrashAges
    DEF Refresh, Listen, Fault
<1>4. QED
    BY <1>2, <1>3 DEF IInv

\* Every step keeps the inductive invariant.
LEMMA InductiveStep == IInv /\ [Next]_vars => IInv'
<1> SUFFICES ASSUME IInv, [Next]_vars PROVE IInv'
    OBVIOUS
<1>1. CASE Tick
    <2>1. UNCHANGED api
        BY <1>1 DEF Tick
    <2>2. QED
        BY <1>1, <2>1, TickAges, SameTable DEF IInv
<1>2. CASE \E q \in Requests : Edit(q) \/ Publish(q)
    BY <1>2, EditOK
<1>3. CASE \E p \in Workers : Refresh(p) \/ Listen(p) \/ Evaluate(p) \/ Fault(p)
    BY <1>3, WorkerOK
<1>4. CASE UNCHANGED vars
    <2>1. UNCHANGED <<api, table, status, index, rebuilds, timer, listener, alive,
                      buffered, taken, failures>>
        BY <1>4 DEF vars, api, listening
    <2>2. ProcessType'
        BY <2>1 DEF IInv, ProcessType
    <2>3. QED
        BY <2>1, <2>2, SameTable, SameAges DEF IInv
<1>5. QED
    BY <1>1, <1>2, <1>3, <1>4 DEF Next

\* The invariant holds in every reachable state.
THEOREM Invariance == Spec => []IInv
<1>1. QED
    BY InitOK, InductiveStep, PTL DEF Spec

\* The variables have their types, and a poller that is not up neither
\* listens nor evaluates (main starts both after the first rebuild).
THEOREM TypeCorrect == Spec => []TypeOK
<1>1. IInv => TypeOK
    BY TypeParts DEF IInv
<1>2. QED
    BY <1>1, Invariance, PTL

\* update_rule validates the row it read and writes the columns that differ
\* over what others have committed since: every committed rule still has the
\* columns its type requires, for any number of requests at a time.
THEOREM RulesStayComplete == Spec => []RulesComplete
<1>1. IInv => RulesComplete
    BY DEF IInv
<1>2. QED
    BY <1>1, Invariance, PTL

\* What a commit changes in a row that exists is what its PATCH changes.
LEMMA CommitAsked ==
    ASSUME IInv, NEW q \in Requests, CommitPatch(q),
           NEW r \in DOMAIN table, table'[r] # table[r]
    PROVE  AskedFor(q, r)
<1> DEFINE patch == requests[q]
           new == Patched(table[patch.rule], patch.seen, patch.next)
<1>1. /\ patch.doing = "patch"
      /\ table' = [s \in DOMAIN table \cup {patch.rule} |->
                     IF s = patch.rule THEN new ELSE table[s]]
      /\ requests' = [requests EXCEPT ![q] = Doing("announce")]
    BY DEF CommitPatch, CommitRow
<1>2. patch.rule = r /\ table'[r] = new
    BY <1>1
<1>3. requests'[q].doing = "announce"
    BY <1>1 DEF IInv, RequestType, Doing
<1>4. /\ \A c \in Columns : new.columns[c] # table[r].columns[c] =>
            patch.next.columns[c] # patch.seen.columns[c]
      /\ new.enabled # table[r].enabled => patch.next.enabled # patch.seen.enabled
    BY <1>2 DEF Patched
<1> HIDE DEF new
<1>5. QED
    BY <1>1, <1>2, <1>3, <1>4 DEF AskedFor

\* Only the commit of a PATCH changes a row that exists.
LEMMA StepAsked ==
    ASSUME IInv, [Next]_vars, NEW r \in DOMAIN table, table'[r] # table[r]
    PROVE  \E q \in Requests : AskedFor(q, r)
<1>1. CASE Tick \/ UNCHANGED vars
    BY <1>1 DEF Tick, vars, api
<1>2. ASSUME NEW p \in Workers, Refresh(p) \/ Listen(p) \/ Evaluate(p) \/ Fault(p)
      PROVE  UNCHANGED table
    BY <1>2 DEF Refresh, Listen, Evaluate, Fault, Start, RefreshLoad, Install, ListenerLoad,
           Subscribe, Detect, TakeRules, EvaluationEnds, RebuildFails, Drop, Crash, Proceed, api
<1>3. ASSUME NEW q \in Requests, Edit(q) \/ Publish(q) PROVE CommitPatch(q)
    <2>1. CASE CreateRule(q)
        <3>1. PICK new \in Rules, row \in Row : new \notin DOMAIN table /\ CommitRow(new, row)
            BY <2>1 DEF CreateRule
        <3>2. QED
            BY <3>1 DEF CommitRow
    <2>2. CASE ReadRule(q) \/ Publish(q)
        BY <2>2 DEF ReadRule, Publish, Announce, AnnounceFails
    <2>3. QED
        BY <1>3, <2>1, <2>2 DEF Edit
<1>4. QED
    BY <1>1, <1>2, <1>3, CommitAsked DEF Next

\* However many requests are under way, a PATCH that commits over what others
\* have committed since it read its row changes only what it was asked to
\* change (update_rule): none takes back another's edit.
THEOREM NoEditTakenBack == Spec => NothingTakenBack
<1>1. ASSUME IInv, [Next]_vars
      PROVE  [\A r \in DOMAIN table :
                table'[r] # table[r] => \E q \in Requests : AskedFor(q, r)]_table
    BY <1>1, StepAsked
<1>2. QED
    BY <1>1, Invariance, PTL DEF Spec, NothingTakenBack

\* An index misses an edit for no longer than the periodic refresh takes,
\* whatever becomes of announcements, connections and other rebuilds.
THEOREM EditsReachPollers == Spec => []Freshness
<1>1. ASSUME IInv PROVE Freshness
    <2>1. ProcessType /\ RulesType /\ AgeInv
        BY <1>1 DEF IInv
    <2>2. Allowed \in Nat /\ MaxEval \in Nat
        BY <2>1, Numbers
    <2>3. ASSUME NEW p \in Workers, status[p] = "up" PROVE Fresh(index[p], Allowed)
        <3>1. Current(index[p]) /\ index[p].stale <= Allowed
            BY <1>1, <2>1, <2>3, IndexWithinBound DEF AgeInv, AgeOf
        <3>2. index[p].stale \in Ages
            BY <2>1, SnapshotShape DEF RulesType
        <3>3. QED
            BY <2>2, <3>1, <3>2 DEF Fresh, Current, Ages
    <2>4. ASSUME NEW p \in Workers, NEW e \in taken[p] PROVE Fresh(e, Allowed + MaxEval)
        <3>1. e \in Evaluation /\ EvaluationAge(e)
            BY <2>1 DEF RulesType, AgeInv, AgeOf
        <3>2. e.stale \in Ages /\ e.left \in 0 .. MaxEval
            BY <3>1, EvaluationShape
        <3>3. Current(e) /\ e.stale <= Allowed + MaxEval - e.left
            BY <3>1 DEF EvaluationAge
        <3>4. e.stale # UpToDate => e.stale \in 0 .. Allowed + MaxEval
            BY <2>2, <3>2, <3>3 DEF Ages, UpToDate
        <3>5. QED
            BY <3>3, <3>4 DEF Fresh, Current
    <2>5. QED
        BY <2>3, <2>4 DEF Freshness
<1>2. QED
    BY <1>1, Invariance, PTL
=============================================================================
