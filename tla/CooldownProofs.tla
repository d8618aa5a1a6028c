--------------------------- MODULE CooldownProofs ---------------------------
(***************************************************************************)
(* The cooldown of a single poller whose index is rebuilt between batches, *)
(* for every set of rules and pairs, every cooldown, and every batch that  *)
(* fails and restart of the process.                                       *)
(***************************************************************************)
EXTENDS AlertEngineProofs

SinglePoller == \A p, q \in Pollers : p = q

\* No row is later than what these rule objects say of its rule.
Covers(rules, notes) == \A n \in notes : n.at <= rules[n.rule]

\* No row is later than the batch, and no batch later than the clock.
Clock(p) ==
    /\ \A n \in notifications : n.at <= now
    /\ pc[p] \in InTx =>
            ev[p].at <= now /\ \A n \in notifications : n.at <= ev[p].at

\* The rule objects in use are never behind the rows, the poller's own
\* uncommitted ones included; a rebuild under way is not behind the database.
Ahead(p) ==
    /\ pc[p] # "down" => Covers(index[p], Visible(p))
    /\ pc[p] \in {"flush"} \cup Evaluating =>
            ev[p].live /\ Covers(ev[p].held, Visible(p))
    /\ rebuilds[p] # {} => pc[p] = "idle"
    /\ \A b \in rebuilds[p] : b.rules = lastFired

Apart(notes) ==
    \A m, n \in notes :
        m # n /\ m.rule = n.rule /\ m.at <= n.at => n.at - m.at >= Cooldown[m.rule]

\* Alerts owed are a cooldown apart, with those of the open transaction, and
\* with the one just decided upon.
Spaced(p) ==
    /\ Apart(outbox \cup tx[p].outbox)
    /\ pc[p] = "insert" /\ ~ ev[p].suppressed =>
            \A m \in Visible(p) :
                m.rule = ev[p].rule => ev[p].at - m.at >= Cooldown[ev[p].rule]

CInv ==
    /\ LastFiredIsLatest
    /\ CooldownRespected
    /\ \A p \in Pollers : Clock(p) /\ Ahead(p) /\ Spaced(p)

\* A step that writes no row and moves no table.
LEMMA CReadStep ==
    ASSUME TypeOK, CInv, SinglePoller, NEW p \in Pollers, UNCHANGED <<db, now>>,
           tx'[p].notes = tx[p].notes, tx'[p].outbox = tx[p].outbox,
           Clock(p)', Ahead(p)',
           pc'[p] = "insert" /\ ~ ev'[p].suppressed =>
                \A m \in Visible(p) :
                    m.rule = ev'[p].rule => ev'[p].at - m.at >= Cooldown[ev'[p].rule]
    PROVE  CInv'
<1>1. LastFiredIsLatest' /\ CooldownRespected'
    BY DEF CInv, db, LastFiredIsLatest, CooldownRespected
<1>2. Spaced(p)'
    BY DEF CInv, Spaced, Visible, db
<1>3. QED
    BY <1>1, <1>2 DEF CInv, SinglePoller

\* Every step of the poller keeps what is said of its clock, its memory and
\* the alerts it owes.
LEMMA CInvStep ==
    ASSUME TypeOK, IInv, CInv, SinglePoller, RefreshOverlaps = FALSE,
           NEW p \in Pollers, Process(p) \/ Batch(p) \/ Evaluate(p)
    PROVE  CInv'
<1>1. /\ Clock(p) /\ Ahead(p) /\ Spaced(p) /\ Rows(p) /\ Placed(p) /\ now' = now
      /\ LastFiredIsLatest /\ CooldownRespected
    BY OwnStep DEF CInv, IInv, TypeOK
<1>2. /\ ev[p].cands \subseteq Rules /\ ev[p].at \in Nat /\ now \in Nat
      /\ index[p] \in LastFired /\ ev[p].held \in LastFired
      /\ notifications \subseteq Note /\ outbox \subseteq Note
      /\ tx[p].notes \subseteq Note /\ tx[p].outbox \subseteq Note
    BY DEF TypeOK, Evaluation, Transaction
<1>3. pc[p] \notin InTx => tx[p].notes = {} /\ tx[p].outbox = {}
    BY <1>1 DEF Placed, EmptyTx
<1>4. CASE Start(p)
    <2>1. /\ pc[p] = "down" /\ pc'[p] = "idle" /\ UNCHANGED <<db, rebuilds, ev, tx>>
          /\ index'[p] = lastFired
        BY <1>4 DEF Start, TypeOK
    <2>2. tx[p].notes = {}
        BY <1>3, <2>1 DEF InTx, Evaluating
    <2>3. Clock(p)'
        BY <1>1, <2>1 DEF Clock, InTx, Evaluating, db
    <2>4. Ahead(p)'
        BY <1>1, <2>1, <2>2 DEF Ahead, Covers, Visible, db, LastFiredIsLatest, Evaluating
    <2>5. QED
        BY <1>1, <2>1, <2>3, <2>4, CReadStep
<1>5. CASE Load(p)
    <2>1. /\ pc[p] = "idle" /\ UNCHANGED <<db, pc, index, ev, tx>>
          /\ \A b \in rebuilds'[p] : b \in rebuilds[p] \/ b.rules = lastFired
        BY <1>5 DEF Load, TypeOK
    <2>2. Clock(p)'
        BY <1>1, <2>1 DEF Clock, InTx, Evaluating, db
    <2>3. Ahead(p)'
        BY <1>1, <2>1 DEF Ahead, Visible, db, Evaluating
    <2>4. QED
        BY <1>1, <2>1, <2>2, <2>3, CReadStep
<1>6. CASE Swap(p)
    <2>1. PICK b \in rebuilds[p] :
            /\ index'[p] = b.rules /\ rebuilds'[p] = rebuilds[p] \ {b}
            /\ UNCHANGED <<db, pc, tx>>
        BY <1>6 DEF Swap, TypeOK
    <2>2. pc[p] = "idle" /\ b.rules = lastFired
        BY <1>1 DEF Ahead
    <2>3. tx[p].notes = {}
        BY <1>3, <2>2 DEF InTx, Evaluating
    <2>4. Clock(p)'
        BY <1>1, <2>1, <2>2 DEF Clock, InTx, Evaluating, db
    <2>5. Ahead(p)'
        BY <1>1, <2>1, <2>2, <2>3
           DEF Ahead, Covers, Visible, db, LastFiredIsLatest, Evaluating
    <2>6. QED
        BY <1>1, <2>1, <2>2, <2>4, <2>5, CReadStep
<1>7. ASSUME ev'[p] = Idle, tx'[p] = EmptyTx, pc'[p] \in {"down", "idle"}, UNCHANGED db,
             pc'[p] = "idle" => UNCHANGED <<index, rebuilds>> /\ pc[p] \in InTx,
             pc'[p] = "down" => rebuilds'[p] = {}
      PROVE  CInv'
    <2>1. tx'[p].notes = {} /\ tx'[p].outbox = {} /\ notifications' = notifications
        BY <1>7 DEF EmptyTx, db
    <2>2. LastFiredIsLatest' /\ CooldownRespected'
        BY <1>1, <1>7 DEF db, LastFiredIsLatest, CooldownRespected
    <2>3. Clock(p)'
        BY <1>1, <1>7, <2>1 DEF Clock, InTx, Evaluating
    <2>4. Ahead(p)'
        <3>1. pc'[p] = "idle" => Covers(index'[p], Visible(p)')
            BY <1>1, <1>7, <2>1 DEF Ahead, Covers, Visible, InTx, Evaluating
        <3>2. pc'[p] = "idle" => rebuilds'[p] = {}
            BY <1>1, <1>7 DEF Ahead, InTx, Evaluating
        <3>3. QED
            BY <1>7, <3>1, <3>2 DEF Ahead, Evaluating
    <2>5. Spaced(p)'
        BY <1>7, <2>1, <2>2 DEF Spaced, Apart, CooldownRespected
    <2>6. QED
        BY <2>2, <2>3, <2>4, <2>5 DEF CInv, SinglePoller
<1>8. CASE Crash(p)
    <2>1. pc'[p] = "down" /\ UNCHANGED db /\ rebuilds'[p] = {}
        BY <1>8 DEF Crash, TypeOK
    <2>2. QED
        BY <1>7, <1>8, <2>1, ResetShape DEF Crash
<1>9. CASE Rollback(p)
    <2>1. pc'[p] = "idle" /\ UNCHANGED <<db, index, rebuilds>> /\ pc[p] \in InTx
        BY <1>9 DEF Rollback, TypeOK
    <2>2. QED
        BY <1>7, <1>9, <2>1, ResetShape DEF Rollback
<1>10. CASE ReceiveBatch(p)
    <2>1. /\ pc[p] = "idle" /\ pc'[p] = "batch" /\ UNCHANGED <<db, index, rebuilds, tx>>
          /\ ev'[p].at = now /\ rebuilds[p] = {}
        BY <1>10, ReceiveShape DEF ReceiveBatch, TypeOK
    <2>2. Clock(p)'
        BY <1>1, <1>2, <2>1 DEF Clock, db
    <2>3. Ahead(p)'
        BY <1>1, <2>1 DEF Ahead, Visible, db, Evaluating
    <2>4. QED
        BY <1>1, <2>1, <2>2, <2>3, CReadStep
<1>11. CASE BeginPair(p)
    <2>1. /\ pc[p] = "batch" /\ pc'[p] \in {"flush", "rules"}
          /\ UNCHANGED <<db, index, rebuilds>>
        BY <1>11 DEF BeginPair, TypeOK
    <2>2. /\ ev'[p].held = index[p] /\ ev'[p].live /\ ev'[p].at = ev[p].at
          /\ tx'[p].notes = tx[p].notes /\ tx'[p].outbox = tx[p].outbox
        BY <1>11, BeginShape
    <2>3. Clock(p)'
        BY <1>1, <2>1, <2>2 DEF Clock, db, InTx
    <2>4. Ahead(p)'
        BY <1>1, <2>1, <2>2 DEF Ahead, Visible, db
    <2>5. QED
        BY <1>1, <2>1, <2>2, <2>3, <2>4, CReadStep
<1>12. CASE FlushPair(p)
    <2>1. /\ pc[p] = "flush" /\ pc'[p] = "rules" /\ UNCHANGED <<db, index, rebuilds, ev>>
          /\ tx'[p].notes = tx[p].notes /\ tx'[p].outbox = tx[p].outbox
        BY <1>12, FlushShape DEF FlushPair, TypeOK
    <2>2. Clock(p)'
        BY <1>1, <2>1 DEF Clock, db, InTx
    <2>3. Ahead(p)'
        BY <1>1, <2>1 DEF Ahead, Visible, db
    <2>4. QED
        BY <1>1, <2>1, <2>2, <2>3, CReadStep
<1>13. CASE EndPair(p)
    <2>1. /\ pc[p] = "rules" /\ pc'[p] = "batch" /\ UNCHANGED <<db, index, rebuilds, tx>>
          /\ ev'[p].at = ev[p].at
        BY <1>13, EndShape DEF EndPair, TypeOK
    <2>2. Clock(p)'
        BY <1>1, <2>1 DEF Clock, db, InTx, Evaluating
    <2>3. Ahead(p)'
        BY <1>1, <2>1 DEF Ahead, Visible, db, Evaluating
    <2>4. QED
        BY <1>1, <2>1, <2>2, <2>3, CReadStep
<1>14. CASE Commit(p)
    <2>1. /\ notifications' = Visible(p) /\ outbox' = outbox \cup tx[p].outbox
          /\ lastFired' = [r \in Rules |-> IF r \in tx[p].fired
                                           THEN ev[p].at ELSE lastFired[r]]
          /\ pc[p] = "batch" /\ pc'[p] = "idle" /\ UNCHANGED <<index, rebuilds>>
          /\ ev'[p] = Idle /\ tx'[p] = EmptyTx
        BY <1>14, ResetShape DEF Commit, TypeOK, Visible
    <2>2. /\ tx'[p].notes = {} /\ tx'[p].outbox = {} /\ rebuilds[p] = {}
          /\ Visible(p)' = Visible(p)
        BY <1>1, <2>1 DEF EmptyTx, Visible, Ahead
    <2>3. /\ \A n \in tx[p].notes : n.at = ev[p].at /\ n.rule \in tx[p].fired
          /\ \A n \in notifications : n.at <= ev[p].at /\ n.at <= lastFired[n.rule]
          /\ ev[p].at <= now
        BY <1>1, <2>1 DEF Rows, OwnRows, Clock, InTx, LastFiredIsLatest
    <2>4. LastFiredIsLatest'
        <3> SUFFICES ASSUME NEW n \in notifications' PROVE n.at <= lastFired'[n.rule]
            BY DEF LastFiredIsLatest
        <3>1. n.rule \in Rules /\ n.at \in Nat
            BY <1>2, <2>1 DEF Visible, Note
        <3>2. CASE n.rule \in tx[p].fired
            BY <1>2, <2>1, <2>3, <3>1, <3>2 DEF Visible
        <3>3. CASE n.rule \notin tx[p].fired
            BY <2>1, <2>3, <3>1, <3>3 DEF Visible
        <3>4. QED
            BY <3>2, <3>3
    <2>5. CooldownRespected' /\ Spaced(p)'
        BY <1>1, <2>1, <2>2 DEF Spaced, Apart, CooldownRespected
    <2>6. Clock(p)'
        BY <1>1, <1>2, <2>1, <2>3 DEF Clock, Visible, InTx, Evaluating
    <2>7. Ahead(p)'
        BY <1>1, <2>1, <2>2 DEF Ahead, Evaluating
    <2>8. QED
        BY <2>4, <2>5, <2>6, <2>7 DEF CInv, SinglePoller
<1>15. CASE SkipRecorded(p)
    <2>1. pc[p] = "rules" /\ pc' = pc /\ UNCHANGED <<db, index, rebuilds, tx>>
        BY <1>15 DEF SkipRecorded
    <2>2. /\ ev'[p].held = ev[p].held /\ ev'[p].live = ev[p].live /\ ev'[p].at = ev[p].at
        BY <1>15, SkipShape DEF Same
    <2>3. Clock(p)'
        BY <1>1, <2>1, <2>2 DEF Clock, db
    <2>4. Ahead(p)'
        BY <1>1, <2>1, <2>2 DEF Ahead, Visible, db
    <2>5. QED
        BY <1>1, <2>1, <2>3, <2>4, CReadStep
<1>16. CASE DecideCooldown(p)
    <2>1. /\ pc[p] = "rules" /\ pc'[p] = "insert" /\ UNCHANGED <<db, index, rebuilds, tx>>
        BY <1>16 DEF DecideCooldown, TypeOK
    <2>2. PICK r \in Rules :
            /\ ev'[p].at = ev[p].at /\ ev'[p].rule = r /\ ev'[p].held = ev[p].held
            /\ ev'[p].live = ev[p].live
            /\ ev'[p].suppressed = InCooldown(ev[p].held[r], r, ev[p].at)
        BY <1>2, <1>16, DecideShape DEF Same
    <2>3. Clock(p)'
        BY <1>1, <2>1, <2>2 DEF Clock, db, InTx, Evaluating
    <2>4. Ahead(p)'
        BY <1>1, <2>1, <2>2 DEF Ahead, Visible, db, Evaluating
    <2>5. ASSUME ~ ev'[p].suppressed, NEW m \in Visible(p), m.rule = r
          PROVE  ev[p].at - m.at >= Cooldown[r]
        <3>1. ~ InCooldown(ev[p].held[r], r, ev[p].at)
            BY <2>2, <2>5
        <3>2. m.at <= ev[p].held[r]
            BY <1>1, <2>1, <2>5 DEF Ahead, Covers, Evaluating
        <3>3. m.at <= ev[p].at
            BY <1>1, <1>2, <2>1 DEF Clock, Rows, OwnRows, Visible, InTx, Evaluating
        <3>4. m.at \in Nat /\ Cooldown[r] \in Nat /\ ev[p].held[r] \in Nat \cup {-1}
            BY <1>2, <2>2, EngineAssumption DEF Visible, Note, LastFired, FiredAt, NeverFired
        <3>5. QED
            BY <1>2, <3>1, <3>2, <3>3, <3>4 DEF InCooldown, NeverFired
    <2>6. QED
        BY <1>1, <2>1, <2>2, <2>3, <2>4, <2>5, CReadStep
<1>17. CASE InsertConflict(p)
    <2>1. /\ pc[p] = "insert" /\ pc'[p] = "rules" /\ UNCHANGED <<db, index, rebuilds, tx>>
        BY <1>17 DEF InsertConflict, TypeOK
    <2>2. /\ ev'[p].held = ev[p].held /\ ev'[p].live = ev[p].live /\ ev'[p].at = ev[p].at
        BY <1>17, NextShape DEF InsertConflict, Same
    <2>3. Clock(p)'
        BY <1>1, <2>1, <2>2 DEF Clock, db, InTx, Evaluating
    <2>4. Ahead(p)'
        BY <1>1, <2>1, <2>2 DEF Ahead, Visible, db, Evaluating
    <2>5. QED
        BY <1>1, <2>1, <2>3, <2>4, CReadStep
<1>18. CASE InsertNotification(p)
    <2> DEFINE new == NewNote(p)
               r == ev[p].rule
    <2>1. /\ pc[p] = "insert" /\ pc'[p] = "update" /\ UNCHANGED <<db, rebuilds>>
          /\ notifications' = notifications
        BY <1>18 DEF InsertNotification, TypeOK, db
    <2>2. /\ tx'[p].notes = tx[p].notes \cup {new}
          /\ tx'[p].outbox = tx[p].outbox \cup (IF ev[p].suppressed THEN {} ELSE {new})
          /\ ev'[p].held = [ev[p].held EXCEPT ![r] = ev[p].at]
          /\ ev'[p].live = ev[p].live /\ ev'[p].at = ev[p].at
          /\ index'[p] = IF ev[p].live THEN [index[p] EXCEPT ![r] = ev[p].at]
                                       ELSE index[p]
        BY <1>18, InsertShape DEF Same
    <2>3. new.rule = r /\ new.at = ev[p].at
        BY <2>1, NewNoteType
    <2>4. r \in Rules /\ ev[p].live
        BY <1>1, <2>1 DEF Placed, Ahead, Evaluating
    <2> HIDE DEF new
    <2>5. \A n \in Visible(p) : n.rule \in Rules /\ n.at \in Nat /\ n.at <= ev[p].at
        BY <1>1, <1>2, <2>1 DEF Clock, Rows, OwnRows, Visible, InTx, Evaluating, Note
    <2>6. Visible(p)' = Visible(p) \cup {new}
        BY <2>1, <2>2 DEF Visible
    <2>7. Clock(p)'
        BY <1>1, <2>1, <2>2 DEF Clock, InTx, Evaluating
    <2>8. Ahead(p)'
        <3>1. Covers(index[p], Visible(p)) /\ Covers(ev[p].held, Visible(p))
            BY <1>1, <2>1 DEF Ahead, Evaluating
        <3>2. Covers(index'[p], Visible(p)')
            BY <1>2, <2>2, <2>3, <2>4, <2>5, <2>6, <3>1 DEF Covers, LastFired
        <3>3. Covers(ev'[p].held, Visible(p)')
            BY <1>2, <2>2, <2>3, <2>4, <2>5, <2>6, <3>1 DEF Covers, LastFired
        <3>4. rebuilds'[p] = {}
            BY <1>1, <2>1 DEF Ahead
        <3>5. QED
            BY <2>1, <2>2, <2>4, <3>2, <3>3, <3>4 DEF Ahead
    <2>9. Spaced(p)'
        <3>1. outbox \cup tx[p].outbox \subseteq Visible(p)
            BY DEF IInv, OutboxMatchesNotifications, Rows, OwnRows, Visible
        <3>2. CASE ev[p].suppressed
            BY <1>1, <2>1, <2>2, <3>2 DEF Spaced, db
        <3>3. CASE ~ ev[p].suppressed
            <4>1. \A m \in Visible(p) : m.rule = r => ev[p].at - m.at >= Cooldown[r]
                BY <1>1, <2>1, <3>3 DEF Spaced
            <4>2. ASSUME NEW m \in outbox \cup tx[p].outbox \cup {new},
                         NEW n \in outbox \cup tx[p].outbox \cup {new},
                         m # n, m.rule = n.rule, m.at <= n.at
                  PROVE  n.at - m.at >= Cooldown[m.rule]
                <5>1. CASE m # new /\ n # new
                    BY <1>1, <4>2, <5>1 DEF Spaced, Apart
                <5>2. CASE n = new
                    BY <2>3, <3>1, <4>1, <4>2, <5>2
                <5>3. CASE m = new /\ n # new
                    \* Then the two are of the same time, and the cooldown is 0.
                    BY <1>2, <2>3, <2>5, <3>1, <4>1, <4>2, <5>3
                <5>4. QED
                    BY <5>1, <5>2, <5>3
            <4>3. outbox' \cup tx'[p].outbox = outbox \cup tx[p].outbox \cup {new}
                BY <2>1, <2>2, <3>3 DEF db
            <4>4. QED
                BY <2>1, <4>2, <4>3 DEF Spaced, Apart
        <3>4. QED
            BY <3>2, <3>3
    <2>10. LastFiredIsLatest' /\ CooldownRespected'
        BY <1>1, <2>1 DEF db, LastFiredIsLatest, CooldownRespected
    <2>11. QED
        BY <2>7, <2>8, <2>9, <2>10 DEF CInv, SinglePoller
<1>19. CASE UpdateLastFired(p)
    <2>1. /\ pc[p] = "update" /\ pc'[p] = "rules" /\ UNCHANGED <<db, index, rebuilds>>
        BY <1>19 DEF UpdateLastFired, TypeOK
    <2>2. /\ ev'[p].held = ev[p].held /\ ev'[p].live = ev[p].live /\ ev'[p].at = ev[p].at
          /\ tx'[p].notes = tx[p].notes /\ tx'[p].outbox = tx[p].outbox
        BY <1>19, NextShape, UpdateShape DEF UpdateLastFired, Same
    <2>3. Clock(p)'
        BY <1>1, <2>1, <2>2 DEF Clock, db, InTx, Evaluating
    <2>4. Ahead(p)'
        BY <1>1, <2>1, <2>2 DEF Ahead, Visible, db, Evaluating
    <2>5. QED
        BY <1>1, <2>1, <2>2, <2>3, <2>4, CReadStep
<1>20. QED
    BY <1>4, <1>5, <1>6, <1>8, <1>9, <1>10, <1>11, <1>12, <1>13, <1>14, <1>15,
       <1>16, <1>17, <1>18, <1>19 DEF Process, Batch, Evaluate

\* Nothing has fired at first, and the clock only moves on.
LEMMA CInvInit == Init => CInv
BY DEF Init, CInv, LastFiredIsLatest, CooldownRespected, Clock, Ahead, Spaced, Apart,
       InTx, Evaluating, EmptyTx, Covers

\* The passing of time leaves what the cooldown argument speaks of alone.
LEMMA CInvTick == TypeOK /\ CInv /\ (Tick \/ UNCHANGED vars) => CInv'
<1> SUFFICES ASSUME TypeOK, CInv, Tick \/ UNCHANGED vars PROVE CInv'
    OBVIOUS
<1>1. UNCHANGED <<db, pc, index, rebuilds, ev, tx>> /\ now <= now' /\ now \in Nat /\ now' \in Nat
    BY DEF TypeOK, Tick, vars, db
<1>2. LastFiredIsLatest' /\ CooldownRespected'
    BY <1>1 DEF CInv, db, LastFiredIsLatest, CooldownRespected
<1>3. ASSUME NEW p \in Pollers PROVE Clock(p)' /\ Ahead(p)' /\ Spaced(p)'
    <2>1. ev[p].at \in Nat /\ notifications \subseteq Note
        BY DEF TypeOK, Evaluation
    <2>2. Clock(p)'
        BY <1>1, <2>1 DEF CInv, Clock, db, Note
    <2>3. Ahead(p)' /\ Spaced(p)'
        BY <1>1 DEF CInv, Ahead, Spaced, Visible, db
    <2>4. QED
        BY <2>2, <2>3
<1>4. QED
    BY <1>2, <1>3 DEF CInv

\* For a single poller whose rebuilds lie between its batches: its memory is
\* never behind the rows.
THEOREM PollerAhead ==
    ASSUME SinglePoller, RefreshOverlaps = FALSE PROVE Spec => []CInv
<1>1. TypeOK /\ IInv /\ CInv /\ [Next]_vars => CInv'
    BY CInvStep, CInvTick DEF Next
<1>2. QED
    BY <1>1, CInvInit, TypeCorrect, Invariance, PTL DEF Spec

\* Then two alerts of a rule are never owed within its cooldown, whatever
\* batches fail and however often the process is restarted.
THEOREM CooldownKept ==
    ASSUME SinglePoller, RefreshOverlaps = FALSE PROVE Spec => []CooldownRespected
<1>1. CInv => CooldownRespected
    BY DEF CInv
<1>2. QED
    BY <1>1, PollerAhead, PTL

\* And last_fired_at in the database is never behind a notification.
THEOREM LastFiredLatest ==
    ASSUME SinglePoller, RefreshOverlaps = FALSE PROVE Spec => []LastFiredIsLatest
<1>1. CInv => LastFiredIsLatest
    BY DEF CInv
<1>2. QED
    BY <1>1, PollerAhead, PTL
=============================================================================
