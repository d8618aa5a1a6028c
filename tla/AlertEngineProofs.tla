------------------------- MODULE AlertEngineProofs -------------------------
(***************************************************************************)
(* What holds of the pollers for every set of pollers, rules, pairs and    *)
(* prices, every cooldown and every clock.                                 *)
(***************************************************************************)
EXTENDS AlertEngine, TLAPS

-----------------------------------------------------------------------------
(* The types of an evaluation and of a transaction.                        *)

\* A time has a minute bucket.
LEMMA MinuteType == ASSUME NEW t \in Nat PROVE t \div MinuteLength \in Nat
BY EngineAssumption

\* Where no candidate is looked at, the evaluation holds no rule objects.
LEMMA IdleType == Idle \in Evaluation /\ NoRules \in LastFired
BY DEF Idle, Evaluation, NoRules, LastFired, FiredAt, NeverFired

\* The empty transaction is a transaction.
LEMMA EmptyTxType == EmptyTx \in Transaction
BY DEF EmptyTx, Transaction

\* An update of one poller's evaluation changes no other's.
LEMMA EvUpdate ==
    ASSUME ev \in [Pollers -> Evaluation], NEW p \in Pollers,
           NEW e \in Evaluation, ev' = [ev EXCEPT ![p] = e]
    PROVE  /\ ev' \in [Pollers -> Evaluation]
           /\ ev'[p] = e
           /\ \A q \in Pollers \ {p} : ev'[q] = ev[q]
OBVIOUS

\* An update of one poller's transaction changes no other's.
LEMMA TxUpdate ==
    ASSUME tx \in [Pollers -> Transaction], NEW p \in Pollers,
           NEW t \in Transaction, tx' = [tx EXCEPT ![p] = t]
    PROVE  /\ tx' \in [Pollers -> Transaction]
           /\ tx'[p] = t
           /\ \A q \in Pollers \ {p} : tx'[q] = tx[q]
OBVIOUS

\* What the evaluation and the transaction of a poller are after each of its
\* steps, field by field.
Same(e, f) == /\ e.todo = f.todo /\ e.at = f.at /\ e.pair = f.pair
              /\ e.price = f.price

\* The swap of the index leaves the evaluation its objects.
LEMMA SwapShape ==
    ASSUME TypeOK, NEW p \in Pollers, Swap(p)
    PROVE  /\ ev' \in [Pollers -> Evaluation]
           /\ ev'[p] = [ev[p] EXCEPT !.live = FALSE]
           /\ Same(ev'[p], ev[p])
           /\ ev'[p].cands = ev[p].cands /\ ev'[p].rule = ev[p].rule
           /\ ev'[p].suppressed = ev[p].suppressed /\ ev'[p].held = ev[p].held
           /\ ~ ev'[p].live
           /\ \A q \in Pollers \ {p} : ev'[q] = ev[q]
<1>1. ev \in [Pollers -> Evaluation] /\ ev[p] \in Evaluation
    BY DEF TypeOK
<1> DEFINE e == [ev[p] EXCEPT !.live = FALSE]
<1>2. ev' = [ev EXCEPT ![p] = e]
    BY <1>1 DEF Swap
<1>3. e \in Evaluation
    BY <1>1 DEF Evaluation
<1>4. /\ Same(e, ev[p]) /\ e.cands = ev[p].cands /\ e.rule = ev[p].rule
      /\ e.suppressed = ev[p].suppressed /\ e.held = ev[p].held /\ ~ e.live
    BY <1>1 DEF Evaluation, Same
<1> HIDE DEF e
<1>5. QED
    BY <1>1, <1>2, <1>3, <1>4, EvUpdate DEF e

\* A batch begins with all of its pairs to do and no candidates.
LEMMA ReceiveShape ==
    ASSUME TypeOK, NEW p \in Pollers, ReceiveBatch(p)
    PROVE  /\ ev' \in [Pollers -> Evaluation]
           /\ ev'[p].at = now /\ ev'[p].cands = {} /\ ev'[p].held = NoRules
           /\ ~ ev'[p].live
           /\ \A q \in Pollers \ {p} : ev'[q] = ev[q]
<1> PICK batch \in SUBSET Pairs :
            ev' = [ev EXCEPT ![p] = [Idle EXCEPT !.todo = batch, !.at = now]]
    BY DEF ReceiveBatch
<1> DEFINE e == [Idle EXCEPT !.todo = batch, !.at = now]
<1>1. ev \in [Pollers -> Evaluation] /\ now \in Nat
    BY DEF TypeOK
<1>2. e \in Evaluation
    BY <1>1, IdleType DEF Evaluation
<1>3. e.at = now /\ e.cands = {} /\ e.held = NoRules /\ ~ e.live
    BY DEF Idle
<1>4. ev' = [ev EXCEPT ![p] = e]
    OBVIOUS
<1> HIDE DEF e
<1>5. QED
    BY <1>1, <1>2, <1>3, <1>4, EvUpdate

\* A pair is taken up with the rules its index holds, some of which match.
LEMMA BeginShape ==
    ASSUME TypeOK, NEW p \in Pollers, BeginPair(p)
    PROVE  \E pair \in Pairs, price \in Prices : \E matched \in SUBSET RulesOf(pair) :
           /\ ev' \in [Pollers -> Evaluation]
           /\ ev'[p].at = ev[p].at
           /\ ev'[p].pair = pair /\ ev'[p].price = price /\ ev'[p].cands = matched
           /\ ev'[p].held = index[p] /\ ev'[p].live
           /\ \A q \in Pollers \ {p} : ev'[q] = ev[q]
           /\ tx' \in [Pollers -> Transaction]
           /\ tx'[p].notes = tx[p].notes /\ tx'[p].outbox = tx[p].outbox
           /\ tx'[p].fired = tx[p].fired
           /\ tx'[p].matched =
                tx[p].matched \cup {StateKey(r, price, ev[p].at) : r \in matched}
           /\ tx'[p].pairs = tx[p].pairs
           /\ \A q \in Pollers \ {p} : tx'[q] = tx[q]
<1>1. /\ ev \in [Pollers -> Evaluation] /\ ev[p] \in Evaluation
      /\ tx \in [Pollers -> Transaction] /\ tx[p] \in Transaction
      /\ index[p] \in LastFired /\ ev[p].todo \in SUBSET Pairs /\ ev[p].at \in Nat
    BY DEF TypeOK, Evaluation
<1>2. PICK pair \in ev[p].todo, price \in Prices :
            \E matched \in SUBSET RulesOf(pair) : Match(p, pair, price, matched)
    BY DEF BeginPair
<1>2a. PICK matched \in SUBSET RulesOf(pair) : Match(p, pair, price, matched)
    BY <1>2
<1> DEFINE e == [Idle EXCEPT
                !.todo = ev[p].todo \ {pair}, !.at = ev[p].at,
                !.pair = pair, !.price = price, !.cands = matched,
                !.held = index[p], !.live = TRUE]
           K == {StateKey(r, price, ev[p].at) : r \in matched}
           t == [tx[p] EXCEPT !.matched = @ \cup K]
<1>3. pair \in Pairs /\ matched \in SUBSET Rules
    BY <1>1 DEF RulesOf
<1>4. e \in Evaluation
    BY <1>1, <1>3, IdleType DEF Evaluation
<1>5. /\ e.at = ev[p].at /\ e.pair = pair /\ e.price = price
      /\ e.cands = matched /\ e.held = index[p] /\ e.live
    BY DEF Idle
<1>6. K \subseteq [rule : Rules, price : Prices, minute : Nat]
    BY <1>1, <1>3, MinuteType DEF StateKey
<1>7. /\ t \in Transaction
      /\ t.notes = tx[p].notes /\ t.outbox = tx[p].outbox
      /\ t.fired = tx[p].fired /\ t.matched = tx[p].matched \cup K
      /\ t.pairs = tx[p].pairs
    BY <1>1, <1>6 DEF Transaction
<1>8. ev' = [ev EXCEPT ![p] = e]
    BY <1>2a DEF Match
<1>9. tx' = [tx EXCEPT ![p] = t]
    BY <1>1, <1>2a DEF Match
<1> HIDE DEF e, t
<1>10. /\ ev' \in [Pollers -> Evaluation] /\ ev'[p] = e
       /\ \A q \in Pollers \ {p} : ev'[q] = ev[q]
    BY <1>1, <1>4, <1>8, EvUpdate
<1>11. /\ tx' \in [Pollers -> Transaction] /\ tx'[p] = t
       /\ \A q \in Pollers \ {p} : tx'[q] = tx[q]
    BY <1>1, <1>7, <1>9, TxUpdate
<1>12. QED
    BY <1>3, <1>5, <1>7, <1>10, <1>11

\* The flush adds a lock to the transaction and nothing else.
LEMMA FlushShape ==
    ASSUME TypeOK, NEW p \in Pollers, FlushPair(p)
    PROVE  /\ tx' \in [Pollers -> Transaction]
           /\ tx'[p].notes = tx[p].notes /\ tx'[p].outbox = tx[p].outbox
           /\ tx'[p].fired = tx[p].fired /\ tx'[p].matched = tx[p].matched
           /\ tx'[p].pairs = tx[p].pairs \cup {ev[p].pair}
           /\ \A q \in Pollers \ {p} : tx'[q] = tx[q]
<1>1. /\ tx \in [Pollers -> Transaction] /\ tx[p] \in Transaction
      /\ ev[p].pair \in Pairs
    BY DEF TypeOK, FlushPair, Evaluating, Placed
<1> DEFINE t == [tx[p] EXCEPT !.pairs = @ \cup {ev[p].pair}]
<1>2. tx' = [tx EXCEPT ![p] = t]
    BY <1>1 DEF FlushPair
<1>3. /\ t \in Transaction
      /\ t.notes = tx[p].notes /\ t.outbox = tx[p].outbox
      /\ t.fired = tx[p].fired /\ t.matched = tx[p].matched
      /\ t.pairs = tx[p].pairs \cup {ev[p].pair}
    BY <1>1 DEF Transaction
<1> HIDE DEF t
<1>4. QED
    BY <1>1, <1>2, <1>3, TxUpdate

\* At the end of a pair the batch goes on with no candidates.
LEMMA EndShape ==
    ASSUME TypeOK, NEW p \in Pollers, EndPair(p)
    PROVE  /\ ev' \in [Pollers -> Evaluation]
           /\ ev'[p].at = ev[p].at /\ ev'[p].cands = {} /\ ev'[p].held = NoRules
           /\ ~ ev'[p].live
           /\ \A q \in Pollers \ {p} : ev'[q] = ev[q]
<1> DEFINE e == [Idle EXCEPT !.todo = ev[p].todo, !.at = ev[p].at]
<1>1. /\ ev \in [Pollers -> Evaluation]
      /\ ev[p].todo \in SUBSET Pairs /\ ev[p].at \in Nat
    BY DEF TypeOK, Evaluation
<1>2. e \in Evaluation
    BY <1>1, IdleType DEF Evaluation
<1>3. e.at = ev[p].at /\ e.cands = {} /\ e.held = NoRules /\ ~ e.live
    BY DEF Idle
<1>4. ev' = [ev EXCEPT ![p] = e]
    BY DEF EndPair
<1> HIDE DEF e
<1>5. QED
    BY <1>1, <1>2, <1>3, <1>4, EvUpdate

\* A state found recorded leaves the candidates, with all its fields kept.
LEMMA SkipShape ==
    ASSUME TypeOK, NEW p \in Pollers, SkipRecorded(p)
    PROVE  \E r \in ev[p].cands :
           /\ Recorded(p, r)
           /\ ev' \in [Pollers -> Evaluation]
           /\ Same(ev'[p], ev[p])
           /\ ev'[p].cands = ev[p].cands \ {r} /\ ev'[p].rule = ev[p].rule
           /\ ev'[p].held = ev[p].held /\ ev'[p].live = ev[p].live
           /\ \A q \in Pollers \ {p} : ev'[q] = ev[q]
<1>1. /\ ev \in [Pollers -> Evaluation] /\ ev[p] \in Evaluation
      /\ ev[p].cands \in SUBSET Rules
    BY DEF TypeOK, Evaluation
<1>2. PICK r \in ev[p].cands :
            Recorded(p, r) /\ ev' = [ev EXCEPT ![p].cands = @ \ {r}]
    BY DEF SkipRecorded
<1> DEFINE e == [ev[p] EXCEPT !.cands = @ \ {r}]
<1>3. ev' = [ev EXCEPT ![p] = e]
    BY <1>1, <1>2
<1>4. e \in Evaluation
    BY <1>1 DEF Evaluation
<1>5. /\ Same(e, ev[p]) /\ e.cands = ev[p].cands \ {r} /\ e.rule = ev[p].rule
      /\ e.held = ev[p].held /\ e.live = ev[p].live
    BY <1>1 DEF Evaluation, Same
<1> HIDE DEF e
<1>6. QED
    BY <1>1, <1>2, <1>3, <1>4, <1>5, EvUpdate

\* A new state leaves the candidates and is decided upon.
LEMMA DecideShape ==
    ASSUME TypeOK, NEW p \in Pollers, DecideCooldown(p)
    PROVE  \E r \in ev[p].cands :
           /\ ~ Recorded(p, r)
           /\ ev' \in [Pollers -> Evaluation]
           /\ Same(ev'[p], ev[p])
           /\ ev'[p].cands = ev[p].cands \ {r} /\ ev'[p].rule = r
           /\ ev'[p].suppressed = InCooldown(ev[p].held[r], r, ev[p].at)
           /\ ev'[p].held = ev[p].held /\ ev'[p].live = ev[p].live
           /\ \A q \in Pollers \ {p} : ev'[q] = ev[q]
<1>1. /\ ev \in [Pollers -> Evaluation] /\ ev[p] \in Evaluation
      /\ ev[p].cands \in SUBSET Rules
    BY DEF TypeOK, Evaluation
<1>2. PICK r \in ev[p].cands :
            /\ ~ Recorded(p, r)
            /\ ev' = [ev EXCEPT ![p].cands = @ \ {r}, ![p].rule = r,
                        ![p].suppressed = InCooldown(ev[p].held[r], r, ev[p].at)]
    BY DEF DecideCooldown
<1> DEFINE s == InCooldown(ev[p].held[r], r, ev[p].at)
           e == [ev[p] EXCEPT !.cands = @ \ {r}, !.rule = r, !.suppressed = s]
<1>3. ev' = [ev EXCEPT ![p] = e]
    BY <1>1, <1>2
<1>4. s \in BOOLEAN
    BY DEF InCooldown
<1> HIDE DEF s
<1>5. e \in Evaluation
    BY <1>1, <1>4 DEF Evaluation
<1>6. /\ Same(e, ev[p]) /\ e.cands = ev[p].cands \ {r} /\ e.rule = r
      /\ e.suppressed = s /\ e.held = ev[p].held /\ e.live = ev[p].live
    BY <1>1 DEF Evaluation, Same
<1> HIDE DEF e
<1>7. QED
    BY <1>1, <1>2, <1>3, <1>5, <1>6, EvUpdate DEF s

\* After a conflict, or the UPDATE, the loop goes on with the same candidates.
LEMMA NextShape ==
    ASSUME TypeOK, NEW p \in Pollers,
           ev' = [ev EXCEPT ![p].suppressed = FALSE, ![p].rule = {}]
    PROVE  /\ ev' \in [Pollers -> Evaluation]
           /\ Same(ev'[p], ev[p]) /\ ev'[p].cands = ev[p].cands
           /\ ev'[p].held = ev[p].held /\ ev'[p].live = ev[p].live
           /\ \A q \in Pollers \ {p} : ev'[q] = ev[q]
<1>1. ev \in [Pollers -> Evaluation] /\ ev[p] \in Evaluation
    BY DEF TypeOK
<1> DEFINE e == [ev[p] EXCEPT !.suppressed = FALSE, !.rule = {}]
<1>2. ev' = [ev EXCEPT ![p] = e]
    BY <1>1
<1>3. e \in Evaluation
    BY <1>1 DEF Evaluation
<1>4. /\ Same(e, ev[p]) /\ e.cands = ev[p].cands
      /\ e.held = ev[p].held /\ e.live = ev[p].live
    BY <1>1 DEF Evaluation, Same
<1> HIDE DEF e
<1>5. QED
    BY <1>1, <1>2, <1>3, <1>4, EvUpdate

\* The row inserted is a notification, with the key that was looked up.
LEMMA NewNoteType ==
    ASSUME TypeOK, NEW p \in Pollers, pc[p] = "insert"
    PROVE  /\ NewNote(p) \in Note
           /\ KeyOf(NewNote(p)) = CurrentKey(p)
           /\ NewNote(p).rule = ev[p].rule /\ NewNote(p).at = ev[p].at
           /\ NewNote(p).status =
                (IF ev[p].suppressed THEN "suppressed_cooldown" ELSE "pending")
<1>1. /\ ev[p].rule \in Rules /\ ev[p].price \in Prices /\ ev[p].at \in Nat
    BY DEF TypeOK, Evaluation, Evaluating, Placed
<1>2. ev[p].at \div MinuteLength \in Nat
    BY <1>1, MinuteType
<1>3. QED
    BY <1>1, <1>2 DEF NewNote, Note, Status, KeyOf, CurrentKey, StateKey

\* The insertion adds the row, its event unless suppressed, and sets the
\* rule object's last_fired_at, in the index too while that holds the object.
LEMMA InsertShape ==
    ASSUME TypeOK, NEW p \in Pollers, InsertNotification(p)
    PROVE  /\ ev' \in [Pollers -> Evaluation]
           /\ Same(ev'[p], ev[p])
           /\ ev'[p].cands = ev[p].cands /\ ev'[p].rule = ev[p].rule
           /\ ev'[p].suppressed = ev[p].suppressed /\ ev'[p].live = ev[p].live
           /\ ev'[p].held = [ev[p].held EXCEPT ![ev[p].rule] = ev[p].at]
           /\ \A q \in Pollers \ {p} : ev'[q] = ev[q]
           /\ tx' \in [Pollers -> Transaction]
           /\ tx'[p].notes = tx[p].notes \cup {NewNote(p)}
           /\ tx'[p].outbox = tx[p].outbox \cup
                                (IF ev[p].suppressed THEN {} ELSE {NewNote(p)})
           /\ tx'[p].fired = tx[p].fired /\ tx'[p].matched = tx[p].matched
           /\ tx'[p].pairs = tx[p].pairs
           /\ \A q \in Pollers \ {p} : tx'[q] = tx[q]
           /\ index' \in [Pollers -> LastFired]
           /\ index'[p] = IF ev[p].live
                          THEN [index[p] EXCEPT ![ev[p].rule] = ev[p].at]
                          ELSE index[p]
           /\ \A q \in Pollers \ {p} : index'[q] = index[q]
<1>1. /\ ev \in [Pollers -> Evaluation] /\ ev[p] \in Evaluation
      /\ tx \in [Pollers -> Transaction] /\ tx[p] \in Transaction
      /\ ev[p].rule \in Rules /\ ev[p].at \in Nat
      /\ pc[p] = "insert"
      /\ index \in [Pollers -> LastFired]
    BY DEF TypeOK, InsertNotification, Evaluation, Placed
<1>2. NewNote(p) \in Note
    BY <1>1, NewNoteType
<1> DEFINE N == {NewNote(p)}
           O == IF ev[p].suppressed THEN {} ELSE {NewNote(p)}
           e == [ev[p] EXCEPT !.held[ev[p].rule] = ev[p].at]
           t == [tx[p] EXCEPT !.notes = @ \cup N, !.outbox = @ \cup O]
<1>3. N \in SUBSET Note /\ O \in SUBSET Note
    BY <1>2
<1>4. ev' = [ev EXCEPT ![p] = e]
    BY <1>1 DEF InsertNotification
<1>5. tx' = [tx EXCEPT ![p] = t]
    BY <1>1 DEF InsertNotification
<1>6. e \in Evaluation
    BY <1>1 DEF Evaluation, LastFired, FiredAt
<1>7. /\ Same(e, ev[p]) /\ e.cands = ev[p].cands /\ e.rule = ev[p].rule
      /\ e.suppressed = ev[p].suppressed /\ e.live = ev[p].live
      /\ e.held = [ev[p].held EXCEPT ![ev[p].rule] = ev[p].at]
    BY <1>1 DEF Evaluation, Same
<1> HIDE DEF N, O
<1>8. /\ t \in Transaction
      /\ t.notes = tx[p].notes \cup N /\ t.outbox = tx[p].outbox \cup O
      /\ t.fired = tx[p].fired /\ t.matched = tx[p].matched
      /\ t.pairs = tx[p].pairs
    BY <1>1, <1>3 DEF Transaction
<1> HIDE DEF e, t
<1>9. /\ ev' \in [Pollers -> Evaluation] /\ ev'[p] = e
      /\ \A q \in Pollers \ {p} : ev'[q] = ev[q]
    BY <1>1, <1>4, <1>6, EvUpdate
<1>10. /\ tx' \in [Pollers -> Transaction] /\ tx'[p] = t
       /\ \A q \in Pollers \ {p} : tx'[q] = tx[q]
    BY <1>1, <1>5, <1>8, TxUpdate
<1>11. /\ index' \in [Pollers -> LastFired]
       /\ index'[p] = IF ev[p].live
                      THEN [index[p] EXCEPT ![ev[p].rule] = ev[p].at]
                      ELSE index[p]
       /\ \A q \in Pollers \ {p} : index'[q] = index[q]
    BY <1>1 DEF InsertNotification, LastFired, FiredAt
<1>12. QED
    BY <1>7, <1>8, <1>9, <1>10, <1>11 DEF N, O

\* The UPDATE adds its rule to those the transaction fired.
LEMMA UpdateShape ==
    ASSUME TypeOK, NEW p \in Pollers, UpdateLastFired(p)
    PROVE  /\ tx' \in [Pollers -> Transaction]
           /\ tx'[p].notes = tx[p].notes /\ tx'[p].outbox = tx[p].outbox
           /\ tx'[p].fired = tx[p].fired \cup {ev[p].rule}
           /\ tx'[p].matched = tx[p].matched /\ tx'[p].pairs = tx[p].pairs
           /\ \A q \in Pollers \ {p} : tx'[q] = tx[q]
<1>1. /\ tx \in [Pollers -> Transaction] /\ tx[p] \in Transaction
      /\ ev[p].rule \in Rules
    BY DEF TypeOK, UpdateLastFired, Placed
<1> DEFINE t == [tx[p] EXCEPT !.fired = @ \cup {ev[p].rule}]
<1>2. tx' = [tx EXCEPT ![p] = t]
    BY <1>1 DEF UpdateLastFired
<1>3. /\ t \in Transaction
      /\ t.notes = tx[p].notes /\ t.outbox = tx[p].outbox
      /\ t.fired = tx[p].fired \cup {ev[p].rule} /\ t.matched = tx[p].matched
      /\ t.pairs = tx[p].pairs
    BY <1>1 DEF Transaction
<1> HIDE DEF t
<1>4. QED
    BY <1>1, <1>2, <1>3, TxUpdate

\* Where a batch ends, by a commit, a failure or the death of the process,
\* nothing is left of its evaluation and its transaction.
LEMMA ResetShape ==
    ASSUME TypeOK, NEW p \in Pollers, ev' = [ev EXCEPT ![p] = Idle],
           tx' = [tx EXCEPT ![p] = EmptyTx]
    PROVE  /\ ev' \in [Pollers -> Evaluation] /\ ev'[p] = Idle
           /\ \A q \in Pollers \ {p} : ev'[q] = ev[q]
           /\ tx' \in [Pollers -> Transaction] /\ tx'[p] = EmptyTx
           /\ \A q \in Pollers \ {p} : tx'[q] = tx[q]
BY IdleType, EmptyTxType, EvUpdate, TxUpdate DEF TypeOK

-----------------------------------------------------------------------------
(* Type correctness.                                                       *)

Others(p) ==
    \A q \in Pollers \ {p} :
        /\ pc'[q] = pc[q] /\ index'[q] = index[q] /\ rebuilds'[q] = rebuilds[q]
        /\ ev'[q] = ev[q] /\ tx'[q] = tx[q]

\* What a poller does is no matter to the place of the others.
LEMMA OthersPlaced ==
    ASSUME NEW p \in Pollers, \A q \in Pollers : Placed(q), Others(p), Placed(p)'
    PROVE  \A q \in Pollers : Placed(q)'
<1> SUFFICES ASSUME NEW q \in Pollers, q # p PROVE Placed(q)'
    OBVIOUS
<1> QED
    BY DEF Placed, Others

\* Every step of a poller is its own.
LEMMA OwnStep ==
    ASSUME TypeOK, NEW p \in Pollers, Process(p) \/ Batch(p) \/ Evaluate(p)
    PROVE  Others(p) /\ now' = now
<1> USE DEF Others, db
<1>1. CASE Start(p)
    BY <1>1 DEF Start, TypeOK
<1>2. CASE Load(p)
    BY <1>2 DEF Load, TypeOK
<1>3. CASE Swap(p)
    BY <1>3, SwapShape DEF Swap, TypeOK
<1>4. CASE Crash(p)
    BY <1>4, ResetShape DEF Crash, TypeOK
<1>5. CASE ReceiveBatch(p)
    BY <1>5, ReceiveShape DEF ReceiveBatch, TypeOK
<1>6. CASE BeginPair(p)
    <2>1. \A q \in Pollers \ {p} : ev'[q] = ev[q] /\ tx'[q] = tx[q]
        BY <1>6, BeginShape
    <2>2. QED
        BY <1>6, <2>1 DEF BeginPair, TypeOK
<1>7. CASE FlushPair(p)
    BY <1>7, FlushShape DEF FlushPair, TypeOK
<1>8. CASE EndPair(p)
    BY <1>8, EndShape DEF EndPair, TypeOK
<1>9. CASE Commit(p)
    BY <1>9, ResetShape DEF Commit, TypeOK
<1>10. CASE Rollback(p)
    BY <1>10, ResetShape DEF Rollback, TypeOK
<1>11. CASE SkipRecorded(p)
    BY <1>11, SkipShape DEF SkipRecorded, TypeOK
<1>12. CASE DecideCooldown(p)
    BY <1>12, DecideShape DEF DecideCooldown, TypeOK
<1>13. CASE InsertConflict(p)
    BY <1>13, NextShape DEF InsertConflict, TypeOK
<1>14. CASE InsertNotification(p)
    BY <1>14, InsertShape DEF InsertNotification, TypeOK
<1>15. CASE UpdateLastFired(p)
    BY <1>15, UpdateShape, NextShape DEF UpdateLastFired, TypeOK
<1>16. QED
    BY <1>1, <1>2, <1>3, <1>4, <1>5, <1>6, <1>7, <1>8, <1>9, <1>10, <1>11,
       <1>12, <1>13, <1>14, <1>15 DEF Process, Batch, Evaluate

\* Every step of a poller keeps the types of the variables.
LEMMA TypeStep ==
    ASSUME TypeOK, NEW p \in Pollers, Process(p) \/ Batch(p) \/ Evaluate(p)
    PROVE  TypeOK'
<1>1. Others(p) /\ now' \in Nat /\ \A q \in Pollers : Placed(q)
    BY OwnStep DEF TypeOK
<1> DEFINE Rest == /\ notifications' \subseteq Note /\ outbox' \subseteq Note
                   /\ lastFired' \in LastFired
                   /\ pc' \in [Pollers -> {"down", "idle"} \cup InTx]
                   /\ index' \in [Pollers -> LastFired]
                   /\ DOMAIN rebuilds' = Pollers
                   /\ \A q \in Pollers : rebuilds'[q] \subseteq Rebuild
                   /\ ev' \in [Pollers -> Evaluation]
                   /\ tx' \in [Pollers -> Transaction]
<1>2. SUFFICES Rest /\ Placed(p)'
    BY <1>1, OthersPlaced DEF TypeOK
<1> USE DEF db, Evaluating, InTx
<1>3. CASE Start(p)
    BY <1>3 DEF Start, TypeOK, Placed
<1>4. CASE Load(p)
    BY <1>4 DEF Load, Rebuild, TypeOK, Placed
<1>5. CASE Swap(p)
    <2>1. /\ DOMAIN rebuilds' = Pollers /\ index' \in [Pollers -> LastFired]
          /\ \A q \in Pollers : rebuilds'[q] \subseteq Rebuild
        BY <1>5 DEF Swap, Rebuild, TypeOK
    <2>2. ev' \in [Pollers -> Evaluation]
        BY <1>5, SwapShape
    <2>3. Placed(p)'
        BY <1>1, <1>5, SwapShape DEF Swap, Same, Placed
    <2>4. QED
        BY <1>5, <2>1, <2>2, <2>3 DEF Swap, TypeOK
<1>6. CASE ReceiveBatch(p)
    <2>1. ev' \in [Pollers -> Evaluation]
        BY <1>6, ReceiveShape
    <2>2. pc'[p] = "batch" /\ pc' \in [Pollers -> {"down", "idle"} \cup InTx]
        BY <1>6 DEF ReceiveBatch, TypeOK
    <2>3. QED
        BY <1>6, <2>1, <2>2 DEF ReceiveBatch, TypeOK, Placed
<1>7. CASE BeginPair(p)
    <2>1. /\ ev' \in [Pollers -> Evaluation] /\ tx' \in [Pollers -> Transaction]
          /\ ev'[p].pair \in Pairs /\ ev'[p].price \in Prices
        BY <1>7, BeginShape
    <2>2. pc'[p] \in {"flush", "rules"} /\ pc' \in [Pollers -> {"down", "idle"} \cup InTx]
        BY <1>7 DEF BeginPair, TypeOK
    <2>3. QED
        BY <1>7, <2>1, <2>2 DEF BeginPair, TypeOK, Placed
<1>8. CASE FlushPair(p)
    BY <1>8, FlushShape DEF FlushPair, TypeOK, Placed
<1>9. CASE EndPair(p)
    BY <1>9, EndShape DEF EndPair, TypeOK, Placed
<1>10. CASE Commit(p)
    <2>1. /\ tx[p] \in Transaction /\ ev[p].at \in Nat
          /\ notifications \subseteq Note /\ outbox \subseteq Note
        BY DEF TypeOK, Evaluation
    <2>2. notifications' \subseteq Note /\ outbox' \subseteq Note
        BY <1>10, <2>1 DEF Commit, Transaction
    <2>3. lastFired' \in LastFired
        BY <1>10, <2>1 DEF Commit, TypeOK, LastFired, FiredAt
    <2>4. QED
        BY <1>10, <2>2, <2>3, ResetShape DEF Commit, TypeOK, Placed
<1>11. CASE Rollback(p)
    BY <1>11, ResetShape DEF Rollback, TypeOK, Placed
<1>12. CASE Crash(p)
    BY <1>12, ResetShape, IdleType DEF Crash, TypeOK, Placed
<1>13. CASE SkipRecorded(p)
    <2>1. ev' \in [Pollers -> Evaluation] /\ Same(ev'[p], ev[p])
        BY <1>13, SkipShape
    <2>2. pc'[p] = "rules" /\ pc' = pc
        BY <1>13 DEF SkipRecorded
    <2>3. Placed(p)'
        BY <1>1, <1>13, <2>1, <2>2 DEF SkipRecorded, Same, Placed
    <2>4. QED
        BY <1>13, <2>1, <2>2, <2>3 DEF SkipRecorded, TypeOK
<1>14. CASE DecideCooldown(p)
    <2>1. /\ ev' \in [Pollers -> Evaluation] /\ Same(ev'[p], ev[p])
          /\ ev'[p].rule \in Rules
        BY <1>14, DecideShape DEF TypeOK, Evaluation
    <2>2. /\ pc[p] = "rules" /\ pc'[p] = "insert"
          /\ pc' \in [Pollers -> {"down", "idle"} \cup InTx]
        BY <1>14 DEF DecideCooldown, TypeOK
    <2>3. Placed(p)'
        BY <1>1, <1>14, <2>1, <2>2 DEF DecideCooldown, Same, Placed
    <2>4. QED
        BY <1>14, <2>1, <2>2, <2>3 DEF DecideCooldown, TypeOK
<1>15. CASE InsertConflict(p)
    BY <1>1, <1>15, NextShape DEF InsertConflict, Same, TypeOK, Placed
<1>16. CASE InsertNotification(p)
    BY <1>1, <1>16, InsertShape DEF InsertNotification, Same, TypeOK, Placed
<1>17. CASE UpdateLastFired(p)
    <2>1. /\ ev' \in [Pollers -> Evaluation] /\ Same(ev'[p], ev[p])
          /\ tx' \in [Pollers -> Transaction]
        BY <1>17, UpdateShape, NextShape DEF UpdateLastFired
    <2>2. /\ pc[p] = "update" /\ pc'[p] = "rules"
          /\ pc' \in [Pollers -> {"down", "idle"} \cup InTx]
        BY <1>17 DEF UpdateLastFired, TypeOK
    <2>3. Placed(p)'
        BY <1>1, <2>1, <2>2 DEF Same, Placed
    <2>4. QED
        BY <1>17, <2>1, <2>2, <2>3 DEF UpdateLastFired, TypeOK
<1>18. QED
    BY <1>3, <1>4, <1>5, <1>6, <1>7, <1>8, <1>9, <1>10, <1>11, <1>12, <1>13,
       <1>14, <1>15, <1>16, <1>17 DEF Process, Batch, Evaluate

\* A tick of the clock, and a step that changes nothing, change no type.
LEMMA TypeTick == TypeOK /\ (Tick \/ UNCHANGED vars) => TypeOK'
BY DEF TypeOK, Tick, vars, db, Placed

\* Initially no process runs and no table has rows.
LEMMA TypeInit == Init => TypeOK
BY IdleType, EmptyTxType DEF Init, TypeOK, Evaluating, InTx, Placed

\* The variables have their types, whatever the pollers do.
THEOREM TypeCorrect == Spec => []TypeOK
<1>1. TypeOK /\ [Next]_vars => TypeOK'
    BY TypeStep, TypeTick DEF Next
<1>2. QED
    BY <1>1, TypeInit, PTL DEF Spec

-----------------------------------------------------------------------------
(* The inductive invariant: what the uncommitted rows are to the committed *)
(* ones, and to the evaluation that writes them.                           *)

\* A transaction's rows are those of this batch; its events are those of its
\* rows that are not suppressed; it updates the rules it has rows of.
OwnRows(p) ==
    /\ \A n \in tx[p].notes : n.at = ev[p].at
    /\ tx[p].outbox = {n \in tx[p].notes : n.status = "pending"}
    /\ \A r \in tx[p].fired : \E n \in tx[p].notes : n.rule = r
    /\ \A n \in tx[p].notes :
            n.rule \in tx[p].fired \/ (pc[p] = "update" /\ n.rule = ev[p].rule)
    /\ pc[p] = "update" => \E n \in tx[p].notes : n.rule = ev[p].rule

\* No key of an uncommitted row is the key of another row, wherever it is,
\* and a row about to be inserted is new to its own transaction.
NewKeys(p) ==
    /\ \A m, n \in tx[p].notes : KeyOf(m) = KeyOf(n) => m = n
    /\ \A m \in tx[p].notes, n \in notifications : KeyOf(m) # KeyOf(n)
    /\ \A q \in Pollers \ {p} :
            \A m \in tx[p].notes, n \in tx[q].notes : KeyOf(m) # KeyOf(n)
    /\ pc[p] = "insert" => \A m \in tx[p].notes : KeyOf(m) # CurrentKey(p)

\* A state that matched is recorded, or is still to be looked at.
Accounted(p) ==
    /\ \A k \in tx[p].matched :
        \/ \E n \in notifications \cup tx[p].notes : KeyOf(n) = k
        \/ \E r \in ev[p].cands : k = StateKey(r, ev[p].price, ev[p].at)
        \/ pc[p] = "insert" /\ k = CurrentKey(p)
    /\ pc[p] = "batch" => ev[p].cands = {}

Rows(p) == OwnRows(p) /\ NewKeys(p) /\ Accounted(p)

IInv ==
    /\ UniqueDetectedState
    /\ OutboxMatchesNotifications
    /\ LastFiredIsRecorded
    /\ \A p \in Pollers : Rows(p)


\* The other pollers' rows stay new while the tables do not change and no
\* row with one of their keys is added.
LEMMA OthersRows ==
    ASSUME NEW p \in Pollers, Others(p), \A q \in Pollers : Rows(q),
           notifications' = notifications,
           \A m \in tx'[p].notes : \/ m \in tx[p].notes
                                   \/ \A q \in Pollers \ {p} : \A n \in tx[q].notes :
                                            KeyOf(n) # KeyOf(m)
    PROVE  \A q \in Pollers \ {p} : Rows(q)'
<1> SUFFICES ASSUME NEW q \in Pollers \ {p} PROVE Rows(q)'
    OBVIOUS
<1>1. pc'[q] = pc[q] /\ ev'[q] = ev[q] /\ tx'[q] = tx[q]
    BY DEF Others
<1>2. CurrentKey(q)' = CurrentKey(q)
    BY <1>1 DEF CurrentKey, StateKey
<1>3. OwnRows(q)'
    BY <1>1 DEF Rows, OwnRows
<1>4. NewKeys(q)'
    <2>1. \A r \in Pollers \ {q} :
              \A m \in tx'[q].notes, n \in tx'[r].notes : KeyOf(m) # KeyOf(n)
        BY <1>1 DEF Rows, NewKeys, Others
    <2>2. QED
        BY <1>1, <1>2, <2>1 DEF Rows, NewKeys
<1>5. Accounted(q)'
    BY <1>1, <1>2 DEF Rows, Accounted
<1>6. QED
    BY <1>3, <1>4, <1>5 DEF Rows

\* The committed tables are as they were.
LEMMA TablesKept ==
    ASSUME IInv, UNCHANGED db
    PROVE  /\ UniqueDetectedState' /\ OutboxMatchesNotifications'
           /\ LastFiredIsRecorded' /\ notifications' = notifications
BY DEF IInv, db, UniqueDetectedState, OutboxMatchesNotifications, LastFiredIsRecorded

\* A step that neither writes a row nor ends a batch: what is new is only
\* which states are still to be looked at.
LEMMA ReadStep ==
    ASSUME IInv, NEW p \in Pollers, Others(p), UNCHANGED db,
           tx'[p].notes = tx[p].notes, tx'[p].outbox = tx[p].outbox,
           tx'[p].fired = tx[p].fired,
           tx[p].notes = {} \/ ev'[p].at = ev[p].at,
           pc[p] # "update", pc'[p] # "update",
           pc'[p] = "insert" => \A m \in tx[p].notes : KeyOf(m) # CurrentKey(p)',
           Accounted(p)'
    PROVE  IInv'
<1>1. OwnRows(p)'
    BY DEF IInv, Rows, OwnRows
<1>2. NewKeys(p)'
    <2>1. \A q \in Pollers \ {p} : tx'[q].notes = tx[q].notes
        BY DEF Others
    <2>2. QED
        BY <2>1, TablesKept DEF IInv, Rows, NewKeys
<1>3. \A q \in Pollers \ {p} : Rows(q)'
    BY OthersRows, TablesKept DEF IInv
<1>4. QED
    BY <1>1, <1>2, <1>3, TablesKept DEF IInv, Rows

\* A step of a process's index is no matter to its rows.
LEMMA IndexStep ==
    ASSUME IInv, NEW p \in Pollers, Others(p), UNCHANGED <<db, pc, tx>>,
           Same(ev'[p], ev[p]), ev'[p].cands = ev[p].cands, ev'[p].rule = ev[p].rule
    PROVE  IInv'
<1>1. CurrentKey(p)' = CurrentKey(p)
    BY DEF CurrentKey, StateKey, Same
<1>2. OwnRows(p)'
    BY DEF IInv, Rows, OwnRows, Same
<1>3. NewKeys(p)'
    BY <1>1, TablesKept DEF IInv, Rows, NewKeys
<1>4. Accounted(p)'
    BY <1>1, TablesKept DEF IInv, Rows, Accounted, Same
<1>5. \A q \in Pollers \ {p} : Rows(q)'
    BY OthersRows, TablesKept DEF IInv
<1>6. QED
    BY <1>2, <1>3, <1>4, <1>5, TablesKept DEF IInv, Rows

\* A poller without a transaction has no rows to account for.
LEMMA NoRows ==
    ASSUME NEW p \in Pollers, tx'[p] = EmptyTx, ev'[p] = Idle, pc'[p] \notin {"update", "insert"}
    PROVE  Rows(p)'
BY DEF EmptyTx, Idle, Rows, OwnRows, NewKeys, Accounted

\* A batch that fails, or dies with its process, leaves the tables alone.
LEMMA AbortStep ==
    ASSUME IInv, NEW p \in Pollers, Others(p), UNCHANGED db,
           tx'[p] = EmptyTx, ev'[p] = Idle, pc'[p] \in {"down", "idle"}
    PROVE  IInv'
<1>1. Rows(p)'
    BY NoRows
<1>2. tx'[p].notes = {}
    BY DEF EmptyTx
<1>3. \A q \in Pollers \ {p} : Rows(q)'
    BY <1>2, OthersRows, TablesKept DEF IInv
<1>4. QED
    BY <1>1, <1>3, TablesKept DEF IInv

\* The rows a commit adds have keys of their own, and the last_fired_at it
\* sets is theirs.
LEMMA CommitStep ==
    ASSUME TypeOK, IInv, NEW p \in Pollers, Others(p), Commit(p)
    PROVE  IInv'
<1> DEFINE N == tx[p].notes
<1>1. /\ notifications' = notifications \cup N
      /\ outbox' = outbox \cup tx[p].outbox
      /\ lastFired' = [r \in Rules |-> IF r \in tx[p].fired THEN ev[p].at ELSE lastFired[r]]
      /\ pc[p] = "batch" /\ pc'[p] = "idle"
    BY DEF Commit, TypeOK
<1>2. /\ N \subseteq Note /\ ev[p].at \in Nat
    BY DEF TypeOK, Transaction, Evaluation
<1>3. tx'[p] = EmptyTx /\ ev'[p] = Idle
    BY ResetShape DEF Commit
<1>4. UniqueDetectedState'
    BY <1>1 DEF IInv, Rows, NewKeys, UniqueDetectedState
<1>5. OutboxMatchesNotifications'
    BY <1>1 DEF IInv, Rows, OwnRows, OutboxMatchesNotifications
<1>6. LastFiredIsRecorded'
    <2> SUFFICES ASSUME NEW r \in Rules
                 PROVE  IF lastFired'[r] = NeverFired
                        THEN \A n \in notifications' : n.rule # r
                        ELSE \E n \in notifications' : n.rule = r /\ n.at = lastFired'[r]
        BY DEF LastFiredIsRecorded
    <2>1. CASE r \in tx[p].fired
        <3>1. PICK n \in N : n.rule = r
            BY <2>1 DEF IInv, Rows, OwnRows
        <3>2. n.at = ev[p].at
            BY DEF IInv, Rows, OwnRows
        <3>3. lastFired'[r] = ev[p].at /\ lastFired'[r] # NeverFired
            BY <1>1, <1>2, <2>1 DEF NeverFired
        <3>4. QED
            BY <1>1, <3>1, <3>2, <3>3
    <2>2. CASE r \notin tx[p].fired
        <3>1. \A n \in N : n.rule # r
            BY <1>1, <2>2 DEF IInv, Rows, OwnRows
        <3>2. lastFired'[r] = lastFired[r]
            BY <1>1, <2>2
        <3>3. QED
            BY <1>1, <3>1, <3>2 DEF IInv, LastFiredIsRecorded
    <2>3. QED
        BY <2>1, <2>2
<1>7. \A q \in Pollers \ {p} : Rows(q)'
    <2> SUFFICES ASSUME NEW q \in Pollers \ {p} PROVE Rows(q)'
        OBVIOUS
    <2>1. pc'[q] = pc[q] /\ ev'[q] = ev[q] /\ tx'[q] = tx[q]
        BY DEF Others
    <2>2. CurrentKey(q)' = CurrentKey(q)
        BY <2>1 DEF CurrentKey, StateKey
    <2>3. OwnRows(q)'
        BY <2>1 DEF IInv, Rows, OwnRows
    <2>4. NewKeys(q)'
        <3>1. \A r \in Pollers \ {q} :
                  \A m \in tx'[q].notes, n \in tx'[r].notes : KeyOf(m) # KeyOf(n)
            BY <1>3, <2>1 DEF IInv, Rows, NewKeys, Others, EmptyTx
        <3>2. \A m \in tx'[q].notes, n \in notifications' : KeyOf(m) # KeyOf(n)
            BY <1>1, <2>1 DEF IInv, Rows, NewKeys
        <3>3. QED
            BY <2>1, <2>2, <3>1, <3>2 DEF IInv, Rows, NewKeys
    <2>5. Accounted(q)'
        BY <1>1, <2>1, <2>2 DEF IInv, Rows, Accounted
    <2>6. QED
        BY <2>3, <2>4, <2>5 DEF Rows
<1>8. Rows(p)'
    BY <1>1, <1>3, NoRows
<1>9. QED
    BY <1>4, <1>5, <1>6, <1>7, <1>8 DEF IInv

\* The row inserted is new, to the tables, to the other transactions (the
\* INSERT waits for those) and to its own.
LEMMA InsertStep ==
    ASSUME TypeOK, IInv, NEW p \in Pollers, Others(p), InsertNotification(p)
    PROVE  IInv'
<1> DEFINE new == NewNote(p)
<1>1. /\ pc[p] = "insert" /\ pc'[p] = "update" /\ UNCHANGED db
      /\ KeyFree(p) /\ CurrentKey(p) \notin KeysOf(notifications)
    BY DEF InsertNotification, TypeOK
<1>2. /\ tx'[p].notes = tx[p].notes \cup {new}
      /\ tx'[p].outbox = tx[p].outbox \cup (IF ev[p].suppressed THEN {} ELSE {new})
      /\ tx'[p].fired = tx[p].fired /\ tx'[p].matched = tx[p].matched
      /\ Same(ev'[p], ev[p]) /\ ev'[p].cands = ev[p].cands /\ ev'[p].rule = ev[p].rule
    BY InsertShape
<1>3. /\ KeyOf(new) = CurrentKey(p) /\ new.rule = ev[p].rule /\ new.at = ev[p].at
      /\ new.status = (IF ev[p].suppressed THEN "suppressed_cooldown" ELSE "pending")
    BY <1>1, NewNoteType
<1>4. \A n \in notifications : KeyOf(n) # KeyOf(new)
    BY <1>1, <1>3 DEF KeysOf
<1>5. \A q \in Pollers \ {p} : \A n \in tx[q].notes : KeyOf(n) # KeyOf(new)
    BY <1>1, <1>3 DEF KeyFree, KeysOf
<1>6. \A n \in tx[p].notes : KeyOf(n) # KeyOf(new)
    BY <1>1, <1>3 DEF IInv, Rows, NewKeys
<1> HIDE DEF new
<1>7. OwnRows(p)'
    <2>1. \A n \in tx'[p].notes : n.at = ev'[p].at
        BY <1>2, <1>3 DEF IInv, Rows, OwnRows, Same
    <2>2. tx'[p].outbox = {n \in tx'[p].notes : n.status = "pending"}
        BY <1>2, <1>3 DEF IInv, Rows, OwnRows
    <2>3. \A r \in tx'[p].fired : \E n \in tx'[p].notes : n.rule = r
        BY <1>2 DEF IInv, Rows, OwnRows
    <2>4. \A n \in tx'[p].notes : n.rule \in tx'[p].fired \/ n.rule = ev'[p].rule
        BY <1>1, <1>2, <1>3 DEF IInv, Rows, OwnRows
    <2>5. \E n \in tx'[p].notes : n.rule = ev'[p].rule
        BY <1>2, <1>3
    <2>6. QED
        BY <1>1, <2>1, <2>2, <2>3, <2>4, <2>5 DEF OwnRows
<1>8. NewKeys(p)'
    <2>1. \A q \in Pollers \ {p} : tx'[q].notes = tx[q].notes
        BY DEF Others
    <2>2. \A q \in Pollers \ {p} :
              \A m \in tx'[p].notes, n \in tx'[q].notes : KeyOf(m) # KeyOf(n)
        BY <1>2, <1>5, <2>1 DEF IInv, Rows, NewKeys
    <2>3. \A m, n \in tx'[p].notes : KeyOf(m) = KeyOf(n) => m = n
        BY <1>2, <1>6 DEF IInv, Rows, NewKeys
    <2>4. \A m \in tx'[p].notes, n \in notifications' : KeyOf(m) # KeyOf(n)
        BY <1>1, <1>2, <1>4, TablesKept DEF IInv, Rows, NewKeys
    <2>5. QED
        BY <1>1, <2>2, <2>3, <2>4 DEF NewKeys
<1>9. Accounted(p)'
    BY <1>1, <1>2, <1>3, TablesKept DEF IInv, Rows, Accounted, Same
<1>10. \A q \in Pollers \ {p} : Rows(q)'
    BY <1>1, <1>2, <1>5, OthersRows, TablesKept DEF IInv
<1>11. QED
    BY <1>1, <1>7, <1>8, <1>9, <1>10, TablesKept DEF IInv, Rows

\* The UPDATE adds the rule of a row it has.
LEMMA UpdateStep ==
    ASSUME TypeOK, IInv, NEW p \in Pollers, Others(p), UpdateLastFired(p)
    PROVE  IInv'
<1>1. pc[p] = "update" /\ pc'[p] = "rules" /\ UNCHANGED db
    BY DEF UpdateLastFired, TypeOK
<1>2. /\ tx'[p].notes = tx[p].notes /\ tx'[p].outbox = tx[p].outbox
      /\ tx'[p].fired = tx[p].fired \cup {ev[p].rule} /\ tx'[p].matched = tx[p].matched
      /\ Same(ev'[p], ev[p]) /\ ev'[p].cands = ev[p].cands
    BY UpdateShape, NextShape DEF UpdateLastFired
<1>3. OwnRows(p)'
    BY <1>1, <1>2 DEF IInv, Rows, OwnRows, Same
<1>4. NewKeys(p)'
    <2>1. \A q \in Pollers \ {p} : tx'[q].notes = tx[q].notes
        BY DEF Others
    <2>2. QED
        BY <1>1, <1>2, <2>1, TablesKept DEF IInv, Rows, NewKeys
<1>5. Accounted(p)'
    BY <1>1, <1>2, TablesKept DEF IInv, Rows, Accounted, Same
<1>6. \A q \in Pollers \ {p} : Rows(q)'
    BY <1>1, <1>2, OthersRows, TablesKept DEF IInv
<1>7. QED
    BY <1>1, <1>3, <1>4, <1>5, <1>6, TablesKept DEF IInv, Rows

\* Every step of a poller keeps the invariant.
LEMMA IInvStep ==
    ASSUME TypeOK, IInv, NEW p \in Pollers, Process(p) \/ Batch(p) \/ Evaluate(p)
    PROVE  IInv'
<1>1. Others(p)
    BY OwnStep
<1>2. /\ pc[p] = "batch" => ev[p].cands = {}
      /\ pc[p] \notin InTx => tx[p] = EmptyTx
      /\ \A k \in tx[p].matched :
            \/ \E n \in notifications \cup tx[p].notes : KeyOf(n) = k
            \/ \E r \in ev[p].cands : k = StateKey(r, ev[p].price, ev[p].at)
            \/ pc[p] = "insert" /\ k = CurrentKey(p)
    BY DEF IInv, Rows, Accounted, TypeOK, Placed
<1>3. CASE Start(p)
    <2>1. /\ pc[p] = "down" /\ pc'[p] = "idle" /\ UNCHANGED <<db, ev, tx>>
        BY <1>3 DEF Start, TypeOK
    <2>2. Accounted(p)'
        BY <1>2, <2>1, TablesKept DEF Accounted
    <2>3. QED
        BY <1>1, <2>1, <2>2, ReadStep
<1>4. CASE Load(p)
    BY <1>1, <1>4, IndexStep DEF Load, Same
<1>5. CASE Swap(p)
    BY <1>1, <1>5, IndexStep, SwapShape DEF Swap
<1>6. CASE Crash(p)
    <2>1. pc'[p] = "down" /\ UNCHANGED db
        BY <1>6 DEF Crash, TypeOK
    <2>2. QED
        BY <1>1, <1>6, <2>1, AbortStep, ResetShape DEF Crash
<1>7. CASE Rollback(p)
    <2>1. pc'[p] = "idle" /\ UNCHANGED db
        BY <1>7 DEF Rollback, TypeOK
    <2>2. QED
        BY <1>1, <1>7, <2>1, AbortStep, ResetShape DEF Rollback
<1>8. CASE ReceiveBatch(p)
    <2>1. /\ pc[p] = "idle" /\ pc'[p] = "batch" /\ UNCHANGED <<db, tx>>
          /\ ev'[p].cands = {}
        BY <1>8, ReceiveShape DEF ReceiveBatch, TypeOK
    <2>2. tx[p].notes = {} /\ tx[p].matched = {}
        BY <1>2, <2>1 DEF InTx, Evaluating, EmptyTx
    <2>3. Accounted(p)'
        BY <2>1, <2>2 DEF Accounted
    <2>4. QED
        BY <1>1, <2>1, <2>2, <2>3, ReadStep
<1>9. CASE BeginPair(p)
    <2>1. /\ pc[p] = "batch" /\ pc'[p] \in {"flush", "rules"} /\ UNCHANGED db
        BY <1>9 DEF BeginPair, TypeOK
    <2>2. PICK price \in Prices, matched \in SUBSET Rules :
            /\ ev'[p].at = ev[p].at /\ ev'[p].price = price /\ ev'[p].cands = matched
            /\ tx'[p].notes = tx[p].notes /\ tx'[p].outbox = tx[p].outbox
            /\ tx'[p].fired = tx[p].fired
            /\ tx'[p].matched =
                 tx[p].matched \cup {StateKey(r, price, ev[p].at) : r \in matched}
        BY <1>9, BeginShape DEF RulesOf
    <2>3. \A k \in tx[p].matched :
            \E n \in notifications \cup tx[p].notes : KeyOf(n) = k
        BY <1>2, <2>1
    <2>4. Accounted(p)'
        BY <2>1, <2>2, <2>3, TablesKept DEF Accounted
    <2>5. QED
        BY <1>1, <2>1, <2>2, <2>4, ReadStep
<1>10. CASE FlushPair(p)
    <2>1. /\ pc[p] = "flush" /\ pc'[p] = "rules" /\ UNCHANGED <<db, ev>>
        BY <1>10 DEF FlushPair, TypeOK
    <2>2. Accounted(p)'
        BY <1>2, <1>10, <2>1, FlushShape, TablesKept DEF Accounted
    <2>3. QED
        BY <1>1, <1>10, <2>1, <2>2, FlushShape, ReadStep
<1>11. CASE EndPair(p)
    <2>1. /\ pc[p] = "rules" /\ pc'[p] = "batch" /\ UNCHANGED <<db, tx>>
          /\ ev[p].cands = {}
        BY <1>11 DEF EndPair, TypeOK
    <2>2. Accounted(p)'
        BY <1>2, <1>11, <2>1, EndShape, TablesKept DEF Accounted
    <2>3. QED
        BY <1>1, <1>11, <2>1, <2>2, EndShape, ReadStep
<1>12. CASE Commit(p)
    BY <1>1, <1>12, CommitStep
<1>13. CASE SkipRecorded(p)
    <2>1. /\ pc[p] = "rules" /\ pc'[p] = "rules" /\ UNCHANGED <<db, tx>>
        BY <1>13 DEF SkipRecorded, TypeOK
    <2>2. PICK r \in ev[p].cands :
            /\ Recorded(p, r) /\ Same(ev'[p], ev[p]) /\ ev'[p].cands = ev[p].cands \ {r}
        BY <1>13, SkipShape
    <2>3. \E n \in notifications \cup tx[p].notes :
            KeyOf(n) = StateKey(r, ev[p].price, ev[p].at)
        BY <2>2 DEF Recorded, KeysOf
    <2>4. Accounted(p)'
        BY <1>2, <2>1, <2>2, <2>3, TablesKept DEF Accounted, Same
    <2>5. QED
        BY <1>1, <2>1, <2>2, <2>4, ReadStep DEF Same
<1>14. CASE DecideCooldown(p)
    <2>1. /\ pc[p] = "rules" /\ pc'[p] = "insert" /\ UNCHANGED <<db, tx>>
        BY <1>14 DEF DecideCooldown, TypeOK
    <2>2. PICK r \in ev[p].cands :
            /\ ~ Recorded(p, r) /\ Same(ev'[p], ev[p])
            /\ ev'[p].cands = ev[p].cands \ {r} /\ ev'[p].rule = r
        BY <1>14, DecideShape
    <2>3. CurrentKey(p)' = StateKey(r, ev[p].price, ev[p].at)
        BY <2>2 DEF CurrentKey, StateKey, Same
    <2>4. \A n \in tx[p].notes : KeyOf(n) # CurrentKey(p)'
        BY <2>2, <2>3 DEF Recorded, KeysOf
    <2>5. Accounted(p)'
        BY <1>2, <2>1, <2>2, <2>3, TablesKept DEF Accounted, Same
    <2>6. QED
        BY <1>1, <2>1, <2>2, <2>4, <2>5, ReadStep DEF Same
<1>15. CASE InsertConflict(p)
    <2>1. /\ pc[p] = "insert" /\ pc'[p] = "rules" /\ UNCHANGED <<db, tx>>
          /\ CurrentKey(p) \in KeysOf(notifications)
        BY <1>15 DEF InsertConflict, TypeOK
    <2>2. Same(ev'[p], ev[p]) /\ ev'[p].cands = ev[p].cands
        BY <1>15, NextShape DEF InsertConflict
    <2>3. Accounted(p)'
        BY <1>2, <2>1, <2>2, TablesKept DEF Accounted, Same, KeysOf
    <2>4. QED
        BY <1>1, <2>1, <2>2, <2>3, ReadStep DEF Same
<1>16. CASE InsertNotification(p)
    BY <1>1, <1>16, InsertStep
<1>17. CASE UpdateLastFired(p)
    BY <1>1, <1>17, UpdateStep
<1>18. QED
    BY <1>3, <1>4, <1>5, <1>6, <1>7, <1>8, <1>9, <1>10, <1>11, <1>12, <1>13,
       <1>14, <1>15, <1>16, <1>17 DEF Process, Batch, Evaluate

\* The invariant holds of empty tables, and time does not matter to it.
LEMMA IInvInit == Init => IInv
BY DEF Init, IInv, UniqueDetectedState, OutboxMatchesNotifications,
       LastFiredIsRecorded, NoRules, Rows, OwnRows, NewKeys, Accounted, EmptyTx, Idle

\* The passing of time changes no row and no transaction.
LEMMA IInvTick == IInv /\ (Tick \/ UNCHANGED vars) => IInv'
BY DEF Tick, vars, db, IInv, UniqueDetectedState, OutboxMatchesNotifications,
       LastFiredIsRecorded, Rows, OwnRows, NewKeys, Accounted, CurrentKey

\* Always, then: the rows and their keys are what IInv says.
THEOREM Invariance == Spec => []IInv
<1>1. TypeOK /\ IInv /\ [Next]_vars => IInv'
    BY IInvStep, IInvTick DEF Next
<1>2. QED
    BY <1>1, IInvInit, TypeCorrect, PTL DEF Spec

\* No detected state ever has two notifications, whatever the pollers, their
\* restarts, their failed batches and the refreshes of their indexes.
THEOREM DetectedStateUnique == Spec => []UniqueDetectedState
BY Invariance, PTL DEF IInv

\* The outbox has the notifications that are not suppressed, and no other.
THEOREM OutboxMatches == Spec => []OutboxMatchesNotifications
BY Invariance, PTL DEF IInv

\* last_fired_at in the database is the time of a recorded notification.
THEOREM LastFiredRecorded == Spec => []LastFiredIsRecorded
BY Invariance, PTL DEF IInv

\* A batch that commits has a notification for every state that matched in it.
THEOREM NoFireLost == Spec => MatchedIsRecorded
<1>1. ASSUME TypeOK, IInv, NEW p \in Pollers, Commit(p)
      PROVE  tx[p].matched \subseteq KeysOf(notifications')
    <2>1. /\ pc[p] = "batch" /\ notifications' = notifications \cup tx[p].notes
        BY <1>1 DEF Commit
    <2>2. QED
        BY <1>1, <2>1 DEF IInv, Rows, Accounted, KeysOf
<1>2. TypeOK /\ IInv =>
        [\A p \in Pollers : Commit(p) => tx[p].matched \subseteq KeysOf(notifications')]_vars
    BY <1>1
<1>3. QED
    BY <1>2, TypeCorrect, Invariance, PTL DEF MatchedIsRecorded

-----------------------------------------------------------------------------
(* The lock on the pair's row, for callers that take it.                   *)

\* What a poller has read, written and updated belongs to pairs whose rows it
\* locks, no two pollers lock the same row, and so what its SELECT did not
\* find stays unrecorded.
Locks(p) ==
    /\ pc[p] \in {"flush"} \cup Evaluating =>
            ev[p].cands \subseteq RulesOf(ev[p].pair)
    /\ pc[p] \in Evaluating => ev[p].pair \in tx[p].pairs
    /\ pc[p] \in {"insert", "update"} => PairOf[ev[p].rule] = ev[p].pair
    /\ \A n \in tx[p].notes : PairOf[n.rule] \in tx[p].pairs
    /\ \A r \in tx[p].fired : PairOf[r] \in tx[p].pairs
    /\ \A q \in Pollers \ {p} : tx[p].pairs \cap tx[q].pairs = {}
    /\ pc[p] = "insert" => CurrentKey(p) \notin KeysOf(notifications)

LockInv == \A p \in Pollers : Locks(p)

\* A poller that locks no row another one locks, and commits rows of its own
\* pairs only, does not disturb the others.
LEMMA OthersLocks ==
    ASSUME LockInv, NEW p \in Pollers, Others(p),
           \A q \in Pollers \ {p} : tx'[p].pairs \cap tx[q].pairs = {},
           \A n \in notifications' :
                n \in notifications \/ PairOf[n.rule] \in tx[p].pairs
    PROVE  \A q \in Pollers \ {p} : Locks(q)'
<1> SUFFICES ASSUME NEW q \in Pollers \ {p} PROVE Locks(q)'
    OBVIOUS
<1>1. pc'[q] = pc[q] /\ ev'[q] = ev[q] /\ tx'[q] = tx[q]
    BY DEF Others
<1>2. Locks(q) /\ tx[p].pairs \cap tx[q].pairs = {}
    BY DEF LockInv, Locks
<1>3. \A r \in Pollers \ {q} : tx'[q].pairs \cap tx'[r].pairs = {}
    BY <1>1, <1>2 DEF Locks, Others
<1>4. ASSUME pc[q] = "insert" PROVE CurrentKey(q)' \notin KeysOf(notifications')
    <2> SUFFICES ASSUME NEW n \in notifications', KeyOf(n) = CurrentKey(q)'
                 PROVE  FALSE
        BY DEF KeysOf
    <2>1. CurrentKey(q)' = CurrentKey(q) /\ n.rule = ev[q].rule
        BY <1>1 DEF CurrentKey, StateKey, KeyOf
    <2>2. n \notin notifications
        BY <1>2, <1>4, <2>1 DEF Locks, KeysOf
    <2>3. PairOf[n.rule] \in tx[p].pairs
        BY <2>2
    <2>4. PairOf[n.rule] \in tx[q].pairs
        BY <1>2, <1>4, <2>1 DEF Locks, Evaluating
    <2>5. QED
        BY <1>2, <2>3, <2>4
<1>5. QED
    BY <1>1, <1>2, <1>3, <1>4 DEF Locks

\* The other pollers, when the rows locked and the tables are as they were.
LEMMA QuietLocks ==
    ASSUME LockInv, NEW p \in Pollers, Others(p), notifications' = notifications,
           tx'[p].pairs \subseteq tx[p].pairs
    PROVE  /\ \A q \in Pollers \ {p} : Locks(q)'
           /\ \A q \in Pollers \ {p} : tx'[p].pairs \cap tx'[q].pairs = {}
<1>1. \A q \in Pollers \ {p} : tx'[p].pairs \cap tx[q].pairs = {}
    BY DEF LockInv, Locks
<1>2. QED
    BY <1>1, OthersLocks DEF Others

\* Every step of a poller that locks its pairs keeps the locks apart.
LEMMA LockStep ==
    ASSUME CallerLocksPair, TypeOK, LockInv, NEW p \in Pollers,
           Process(p) \/ Batch(p) \/ Evaluate(p)
    PROVE  LockInv'
<1>1. Others(p) /\ Locks(p)
    BY OwnStep DEF LockInv
<1>2. SUFFICES Locks(p)' /\ \A q \in Pollers \ {p} : Locks(q)'
    BY DEF LockInv
<1> DEFINE Quiet == notifications' = notifications /\ tx'[p].pairs \subseteq tx[p].pairs
<1>3. ASSUME tx'[p] = EmptyTx, notifications' = notifications,
             pc'[p] \in {"down", "idle"}
      PROVE  Locks(p)' /\ \A q \in Pollers \ {p} : Locks(q)'
    <2>1. tx'[p].pairs = {} /\ tx'[p].notes = {} /\ tx'[p].fired = {}
        BY <1>3 DEF EmptyTx
    <2>2. \A q \in Pollers \ {p} : Locks(q)'
        BY <1>1, <1>3, <2>1, QuietLocks
    <2>3. QED
        BY <1>3, <2>1, <2>2 DEF Locks, Evaluating
<1> USE DEF db, Evaluating
<1>4. CASE Start(p)
    <2>1. pc'[p] = "idle" /\ tx' = tx /\ notifications' = notifications
        BY <1>4 DEF Start, TypeOK
    <2>2. QED
        BY <1>1, <2>1, QuietLocks DEF Locks
<1>5. CASE Load(p)
    <2>1. UNCHANGED <<pc, ev, tx, notifications>>
        BY <1>5 DEF Load
    <2>2. QED
        BY <1>1, <2>1, QuietLocks DEF Locks, CurrentKey, StateKey
<1>6. CASE Swap(p)
    <2>1. /\ UNCHANGED <<pc, tx, notifications>>
          /\ Same(ev'[p], ev[p]) /\ ev'[p].cands = ev[p].cands
          /\ ev'[p].rule = ev[p].rule
        BY <1>6, SwapShape DEF Swap
    <2>2. QED
        BY <1>1, <2>1, QuietLocks DEF Locks, CurrentKey, StateKey, Same
<1>7. CASE Crash(p)
    BY <1>3, <1>7, ResetShape DEF Crash, TypeOK
<1>8. CASE Rollback(p)
    BY <1>3, <1>8, ResetShape DEF Rollback, TypeOK
<1>9. CASE ReceiveBatch(p)
    <2>1. pc'[p] = "batch" /\ tx' = tx /\ notifications' = notifications
        BY <1>9 DEF ReceiveBatch, TypeOK
    <2>2. QED
        BY <1>1, <2>1, QuietLocks DEF Locks
<1>10. CASE BeginPair(p)
    <2>1. pc'[p] = "flush" /\ notifications' = notifications
        BY <1>10 DEF BeginPair, TypeOK
    <2>2. /\ ev'[p].cands \subseteq RulesOf(ev'[p].pair)
          /\ tx'[p].notes = tx[p].notes /\ tx'[p].fired = tx[p].fired
          /\ tx'[p].pairs = tx[p].pairs
        BY <1>10, BeginShape
    <2>3. QED
        BY <1>1, <2>1, <2>2, QuietLocks DEF Locks, RulesOf
<1>11. CASE FlushPair(p)
    <2>1. /\ pc[p] = "flush" /\ pc'[p] = "rules"
          /\ UNCHANGED <<ev, notifications>>
          /\ \A q \in Pollers \ {p} : ev[p].pair \notin tx[q].pairs
        BY <1>11 DEF FlushPair, TypeOK
    <2>2. /\ tx'[p].notes = tx[p].notes /\ tx'[p].fired = tx[p].fired
          /\ tx'[p].pairs = tx[p].pairs \cup {ev[p].pair}
        BY <1>11, FlushShape
    <2>3. \A q \in Pollers \ {p} : tx'[p].pairs \cap tx[q].pairs = {}
        BY <1>1, <2>1, <2>2 DEF Locks
    <2>4. \A q \in Pollers \ {p} : Locks(q)'
        BY <1>1, <2>1, <2>3, OthersLocks
    <2>5. QED
        BY <1>1, <2>1, <2>2, <2>3, <2>4 DEF Locks, Others, RulesOf
<1>12. CASE EndPair(p)
    <2>1. pc'[p] = "batch" /\ tx' = tx /\ notifications' = notifications
        BY <1>12 DEF EndPair, TypeOK
    <2>2. QED
        BY <1>1, <2>1, QuietLocks DEF Locks
<1>13. CASE Commit(p)
    <2>1. /\ pc'[p] = "idle" /\ notifications' = notifications \cup tx[p].notes
          /\ tx'[p].pairs = {} /\ tx'[p].notes = {} /\ tx'[p].fired = {}
        BY <1>13, ResetShape DEF Commit, TypeOK, EmptyTx
    <2>2. \A n \in notifications' :
                n \in notifications \/ PairOf[n.rule] \in tx[p].pairs
        BY <1>1, <2>1 DEF Locks
    <2>3. \A q \in Pollers \ {p} : Locks(q)'
        BY <1>1, <2>1, <2>2, OthersLocks
    <2>4. QED
        BY <2>1, <2>3 DEF Locks
<1>14. CASE SkipRecorded(p)
    <2>1. /\ pc[p] = "rules" /\ UNCHANGED <<pc, tx, notifications>>
          /\ Same(ev'[p], ev[p]) /\ ev'[p].cands \subseteq ev[p].cands
        BY <1>14, SkipShape DEF SkipRecorded
    <2>2. QED
        BY <1>1, <2>1, QuietLocks DEF Locks, Same, RulesOf
<1>15. CASE DecideCooldown(p)
    <2>1. /\ pc[p] = "rules" /\ pc'[p] = "insert"
          /\ UNCHANGED <<tx, notifications>>
        BY <1>15 DEF DecideCooldown, TypeOK
    <2>2. PICK r \in ev[p].cands :
            /\ ~ Recorded(p, r)
            /\ Same(ev'[p], ev[p])
            /\ ev'[p].cands = ev[p].cands \ {r} /\ ev'[p].rule = r
        BY <1>15, DecideShape
    <2>3. CurrentKey(p)' \notin KeysOf(notifications')
        BY <2>1, <2>2 DEF Recorded, CurrentKey, KeysOf, StateKey, Same
    <2>4. PairOf[ev'[p].rule] = ev'[p].pair
        BY <1>1, <2>1, <2>2 DEF Locks, RulesOf, Same
    <2>5. QED
        BY <1>1, <2>1, <2>2, <2>3, <2>4, QuietLocks DEF Locks, Same, RulesOf
<1>16. CASE InsertConflict(p)
    \* Not reached: the key is not among the committed ones.
    BY <1>1, <1>16 DEF InsertConflict, Locks
<1>17. CASE InsertNotification(p)
    <2>1. /\ pc[p] = "insert" /\ pc'[p] = "update" /\ notifications' = notifications
        BY <1>17 DEF InsertNotification, TypeOK
    <2>2. /\ tx'[p].notes = tx[p].notes \cup {NewNote(p)}
          /\ tx'[p].fired = tx[p].fired /\ tx'[p].pairs = tx[p].pairs
          /\ Same(ev'[p], ev[p]) /\ ev'[p].cands = ev[p].cands
          /\ ev'[p].rule = ev[p].rule
        BY <1>17, InsertShape
    <2>3. PairOf[NewNote(p).rule] \in tx[p].pairs
        BY <1>1, <2>1 DEF Locks, NewNote
    <2>4. QED
        BY <1>1, <2>1, <2>2, <2>3, QuietLocks DEF Locks, Same, RulesOf
<1>18. CASE UpdateLastFired(p)
    <2>1. /\ pc[p] = "update" /\ pc'[p] = "rules" /\ notifications' = notifications
        BY <1>18 DEF UpdateLastFired, TypeOK
    <2>2. /\ tx'[p].notes = tx[p].notes /\ tx'[p].pairs = tx[p].pairs
          /\ tx'[p].fired = tx[p].fired \cup {ev[p].rule}
          /\ Same(ev'[p], ev[p]) /\ ev'[p].cands = ev[p].cands
        BY <1>18, UpdateShape, NextShape DEF UpdateLastFired
    <2>3. PairOf[ev[p].rule] \in tx[p].pairs
        BY <1>1, <2>1 DEF Locks
    <2>4. QED
        BY <1>1, <2>1, <2>2, <2>3, QuietLocks DEF Locks, Same, RulesOf
<1>19. QED
    BY <1>4, <1>5, <1>6, <1>7, <1>8, <1>9, <1>10, <1>11, <1>12, <1>13, <1>14,
       <1>15, <1>16, <1>17, <1>18 DEF Process, Batch, Evaluate

\* Initially nothing is locked.
LEMMA LockInit == Init => LockInv
BY DEF Init, LockInv, Locks, EmptyTx, Evaluating

\* The clock locks nothing.
LEMMA LockTick == LockInv /\ (Tick \/ UNCHANGED vars) => LockInv'
<1> SUFFICES ASSUME LockInv, UNCHANGED <<notifications, pc, ev, tx>> PROVE LockInv'
    BY DEF Tick, vars, db
<1> QED
    BY DEF LockInv, Locks, CurrentKey, StateKey

\* Where locks are kept apart, nothing waits but the flush.
LEMMA LockOrder == TypeOK /\ LockInv => PairLockOrders
<1> SUFFICES ASSUME TypeOK, LockInv, NEW p \in Pollers, pc[p] \in {"insert", "update"}
             PROVE  /\ pc[p] = "insert" =>
                            KeyFree(p) /\ CurrentKey(p) \notin KeysOf(notifications)
                    /\ \A q \in Pollers \ {p} : ev[p].rule \notin tx[q].fired
    BY DEF PairLockOrders
<1>1. Locks(p) /\ PairOf[ev[p].rule] \in tx[p].pairs
    BY DEF LockInv, Locks, Evaluating
<1>2. ASSUME NEW q \in Pollers \ {p}
      PROVE  /\ ev[p].rule \notin tx[q].fired
             /\ \A n \in tx[q].notes : n.rule # ev[p].rule
    BY <1>1 DEF LockInv, Locks
<1>3. KeyFree(p)
    BY <1>2 DEF KeyFree, KeysOf, KeyOf, CurrentKey, StateKey
<1>4. QED
    BY <1>1, <1>2, <1>3 DEF Locks

\* The row lock of process_batch orders the evaluations of a pair, for any
\* number of pollers, pairs and rules and whatever fails or crashes: the unique
\* key is never raced for, and only the flush of a pair ever waits.
THEOREM LockOrders == Spec => []PairLockOrders
<1>1. CASE ~ CallerLocksPair
    <2>1. PairLockOrders
        BY <1>1 DEF PairLockOrders
    <2>2. QED
        BY <2>1, PTL
<1>2. CASE CallerLocksPair
    <2>1. TypeOK /\ LockInv /\ [Next]_vars => LockInv'
        BY <1>2, LockStep, LockTick DEF Next
    <2>2. QED
        BY <2>1, TypeCorrect, LockInit, LockOrder, PTL DEF Spec
<1>3. QED
    BY <1>1, <1>2

-----------------------------------------------------------------------------
(* What backs the memory of a process, where no batch fails.               *)

\* A last_fired_at is the time of one of these rows.
Backed(at, r, notes) ==
    at # NeverFired => \E n \in notes : n.rule = r /\ n.at = at

Visible(p) == notifications \cup tx[p].notes

\* The rule objects of a process, in its index, in an evaluation and in a
\* rebuild under way, say what rows say.
Memory(p) ==
    /\ \A r \in Rules : Backed(index[p][r], r, Visible(p))
    /\ \A r \in Rules : Backed(ev[p].held[r], r, Visible(p))
    /\ \A b \in rebuilds[p] : \A r \in Rules : Backed(b.rules[r], r, notifications)

Delivered(r, notes) == \E m \in notes : m.rule = r /\ m.status = "pending"
Recent(r, at, notes) == \E m \in notes : m.rule = r /\ at - m.at < Cooldown[r]

\* A row has, among these, a delivered row of its rule, and a recent one if
\* it is suppressed.
Founded(n, notes) ==
    /\ Delivered(n.rule, notes)
    /\ n.status = "suppressed_cooldown" => Recent(n.rule, n.at, notes \ {n})

\* The rows of a transaction, and the decision just taken, are founded.
Decided(p) ==
    /\ \A n \in tx[p].notes : Founded(n, Visible(p))
    /\ pc[p] = "insert" /\ ev[p].suppressed =>
            Recent(ev[p].rule, ev[p].at, Visible(p))

MInv ==
    /\ \A n \in notifications : Founded(n, notifications)
    /\ \A p \in Pollers : Memory(p) /\ Decided(p)

\* More rows found no less.
LEMMA FoundedMonotone ==
    ASSUME NEW A, NEW B, A \subseteq B
    PROVE  /\ \A n : Founded(n, A) => Founded(n, B)
           /\ \A r, at : Recent(r, at, A) => Recent(r, at, B)
           /\ \A at, r : Backed(at, r, A) => Backed(at, r, B)
BY DEF Founded, Delivered, Recent, Backed

\* The other pollers' memory and decisions stay founded while no committed
\* row is removed.
LEMMA OthersFounded ==
    ASSUME NEW p \in Pollers, Others(p),
           \A q \in Pollers : Memory(q) /\ Decided(q),
           notifications \subseteq notifications'
    PROVE  \A q \in Pollers \ {p} : Memory(q)' /\ Decided(q)'
<1> SUFFICES ASSUME NEW q \in Pollers \ {p} PROVE Memory(q)' /\ Decided(q)'
    OBVIOUS
<1>1. /\ pc'[q] = pc[q] /\ ev'[q] = ev[q] /\ tx'[q] = tx[q]
      /\ index'[q] = index[q] /\ rebuilds'[q] = rebuilds[q]
    BY DEF Others
<1>2. Visible(q) \subseteq Visible(q)'
    BY <1>1 DEF Visible
<1>3. Memory(q)'
    <2>1. \A at, r : Backed(at, r, Visible(q)) => Backed(at, r, Visible(q)')
        BY <1>2, FoundedMonotone
    <2>2. \A at, r : Backed(at, r, notifications) => Backed(at, r, notifications')
        BY FoundedMonotone
    <2>3. QED
        BY <1>1, <2>1, <2>2 DEF Memory
<1>4. Decided(q)'
    BY <1>1, <1>2, FoundedMonotone DEF Decided
<1>5. QED
    BY <1>3, <1>4

\* A step that writes no row keeps the decisions, if the one it may take is
\* founded, and the memory, if what it puts there is backed.
LEMMA QuietStep ==
    ASSUME MInv, NEW p \in Pollers, Others(p), UNCHANGED db,
           tx'[p].notes = tx[p].notes, Memory(p)',
           pc'[p] = "insert" /\ ev'[p].suppressed =>
                Recent(ev'[p].rule, ev'[p].at, Visible(p))
    PROVE  MInv'
<1>1. notifications' = notifications
    BY DEF db
<1>2. Decided(p)'
    BY <1>1 DEF MInv, Decided, Visible
<1>3. \A q \in Pollers \ {p} : Memory(q)' /\ Decided(q)'
    BY <1>1, OthersFounded DEF MInv
<1>4. QED
    BY <1>1, <1>2, <1>3 DEF MInv

\* The time in an index, and none, are backed.
LEMMA Backing ==
    ASSUME TypeOK, IInv, MInv, NEW p \in Pollers
    PROVE  /\ \A r \in Rules : Backed(lastFired[r], r, notifications)
           /\ \A r \in Rules : Backed(lastFired[r], r, Visible(p))
           /\ \A S : \A r \in Rules : Backed(NoRules[r], r, S)
BY DEF IInv, LastFiredIsRecorded, Backed, Visible, NoRules

\* While no batch fails, every step of a poller keeps memory and decisions
\* founded.  Were a batch to fail, its rows would go and the times it set in
\* memory would stay.
LEMMA MInvStep ==
    ASSUME TypeOK, IInv, MInv, "rollback" \notin Faults,
           NEW p \in Pollers, Process(p) \/ Batch(p) \/ Evaluate(p)
    PROVE  MInv'
<1>1. /\ Others(p)
      /\ Memory(p) /\ Decided(p) /\ \A n \in notifications : Founded(n, notifications)
    BY OwnStep DEF MInv
<1>2. ev[p].cands \subseteq Rules /\ ev[p].at \in Nat /\ index[p] \in LastFired
    BY DEF TypeOK, Evaluation
<1>3. CASE Start(p)
    <2>1. /\ pc'[p] = "idle" /\ UNCHANGED <<db, rebuilds, ev, tx>>
          /\ index'[p] = lastFired
        BY <1>3 DEF Start, TypeOK
    <2>2. Memory(p)'
        BY <1>1, <2>1, Backing DEF Memory, Visible, db
    <2>3. QED
        BY <1>1, <2>1, <2>2, QuietStep
<1>4. CASE Load(p)
    <2>1. /\ UNCHANGED <<db, pc, index, ev, tx>>
          /\ \A b \in rebuilds'[p] : b \in rebuilds[p] \/ b.rules = lastFired
        BY <1>4 DEF Load, TypeOK
    <2>2. Memory(p)'
        BY <1>1, <2>1, Backing DEF Memory, Visible, db
    <2>3. QED
        BY <1>1, <2>1, <2>2, QuietStep DEF Decided
<1>5. CASE Swap(p)
    <2>1. PICK b \in rebuilds[p] :
            /\ index'[p] = b.rules /\ rebuilds'[p] = rebuilds[p] \ {b}
            /\ UNCHANGED <<db, pc, tx>>
        BY <1>5 DEF Swap, TypeOK
    <2>2. /\ ev'[p].held = ev[p].held /\ ev'[p].rule = ev[p].rule
          /\ ev'[p].suppressed = ev[p].suppressed /\ ev'[p].at = ev[p].at
        BY <1>5, SwapShape DEF Same
    <2>3. \A r \in Rules : Backed(b.rules[r], r, Visible(p))
        BY <1>1, FoundedMonotone DEF Memory, Visible
    <2>4. Memory(p)'
        BY <1>1, <2>1, <2>2, <2>3 DEF Memory, Visible, db
    <2>5. QED
        BY <1>1, <2>1, <2>2, <2>4, QuietStep DEF Decided
<1>6. CASE Crash(p)
    <2>1. /\ pc'[p] = "down" /\ UNCHANGED db /\ index'[p] = NoRules /\ rebuilds'[p] = {}
          /\ ev'[p] = Idle /\ tx'[p] = EmptyTx
        BY <1>6, ResetShape DEF Crash, TypeOK
    <2>2. Memory(p)'
        BY <2>1, Backing DEF Memory, Idle
    <2>3. Decided(p)'
        BY <2>1 DEF Decided, EmptyTx
    <2>4. notifications' = notifications
        BY <2>1 DEF db
    <2>5. QED
        BY <1>1, <2>2, <2>3, <2>4, OthersFounded DEF MInv
<1>7. CASE Rollback(p)
    BY <1>7 DEF Rollback
<1>8. CASE ReceiveBatch(p)
    <2>1. /\ pc'[p] = "batch" /\ UNCHANGED <<db, index, rebuilds, tx>>
          /\ ev'[p].held = NoRules
        BY <1>8, ReceiveShape DEF ReceiveBatch, TypeOK
    <2>2. Memory(p)'
        BY <1>1, <2>1, Backing DEF Memory, Visible, db
    <2>3. QED
        BY <1>1, <2>1, <2>2, QuietStep
<1>9. CASE BeginPair(p)
    <2>1. pc'[p] \in {"flush", "rules"} /\ UNCHANGED <<db, index, rebuilds>>
        BY <1>9 DEF BeginPair, TypeOK
    <2>2. ev'[p].held = index[p] /\ tx'[p].notes = tx[p].notes
        BY <1>9, BeginShape
    <2>3. Memory(p)'
        BY <1>1, <2>1, <2>2 DEF Memory, Visible, db
    <2>4. QED
        BY <1>1, <2>1, <2>2, <2>3, QuietStep
<1>10. CASE FlushPair(p)
    <2>1. /\ pc'[p] = "rules" /\ UNCHANGED <<db, index, rebuilds, ev>>
          /\ tx'[p].notes = tx[p].notes
        BY <1>10, FlushShape DEF FlushPair, TypeOK
    <2>2. Memory(p)'
        BY <1>1, <2>1 DEF Memory, Visible, db
    <2>3. QED
        BY <1>1, <2>1, <2>2, QuietStep
<1>11. CASE EndPair(p)
    <2>1. /\ pc'[p] = "batch" /\ UNCHANGED <<db, index, rebuilds, tx>>
          /\ ev'[p].held = NoRules
        BY <1>11, EndShape DEF EndPair, TypeOK
    <2>2. Memory(p)'
        BY <1>1, <2>1, Backing DEF Memory, Visible, db
    <2>3. QED
        BY <1>1, <2>1, <2>2, QuietStep
<1>12. CASE Commit(p)
    <2>1. /\ notifications' = Visible(p) /\ UNCHANGED <<index, rebuilds>>
          /\ pc'[p] = "idle" /\ ev'[p] = Idle /\ tx'[p] = EmptyTx
        BY <1>12, ResetShape DEF Commit, TypeOK, Visible
    <2>2. notifications \subseteq notifications' /\ Visible(p)' = Visible(p)
        BY <2>1 DEF Visible, EmptyTx
    <2>3. \A n \in notifications' : Founded(n, notifications')
        BY <1>1, <2>1, <2>2, FoundedMonotone DEF Decided, Visible
    <2>4. \A at, r : Backed(at, r, notifications) => Backed(at, r, notifications')
        BY <2>2, FoundedMonotone
    <2>5. Memory(p)'
        BY <1>1, <2>1, <2>2, <2>4, Backing DEF Memory, Idle
    <2>6. Decided(p)'
        BY <2>1 DEF Decided, EmptyTx
    <2>7. QED
        BY <1>1, <2>2, <2>3, <2>5, <2>6, OthersFounded DEF MInv
<1>13. CASE SkipRecorded(p)
    <2>1. pc'[p] = "rules" /\ UNCHANGED <<db, index, rebuilds, tx>>
        BY <1>13 DEF SkipRecorded
    <2>2. ev'[p].held = ev[p].held
        BY <1>13, SkipShape
    <2>3. Memory(p)'
        BY <1>1, <2>1, <2>2 DEF Memory, Visible, db
    <2>4. QED
        BY <1>1, <2>1, <2>3, QuietStep
<1>14. CASE DecideCooldown(p)
    <2>1. UNCHANGED <<db, index, rebuilds, tx>>
        BY <1>14 DEF DecideCooldown
    <2>2. PICK r \in Rules :
            /\ ev'[p].at = ev[p].at /\ ev'[p].rule = r /\ ev'[p].held = ev[p].held
            /\ ev'[p].suppressed = InCooldown(ev[p].held[r], r, ev[p].at)
        BY <1>2, <1>14, DecideShape DEF Same
    <2>3. Memory(p)'
        BY <1>1, <2>1, <2>2 DEF Memory, Visible, db
    <2>4. ev'[p].suppressed => Recent(r, ev[p].at, Visible(p))
        <3> SUFFICES ASSUME ev'[p].suppressed
                     PROVE  Recent(r, ev[p].at, Visible(p))
            OBVIOUS
        <3>1. InCooldown(ev[p].held[r], r, ev[p].at)
            BY <2>2
        <3>2. PICK m \in Visible(p) : m.rule = r /\ m.at = ev[p].held[r]
            BY <1>1, <3>1 DEF InCooldown, Memory, Backed
        <3>3. QED
            BY <3>1, <3>2 DEF InCooldown, Recent
    <2>5. QED
        BY <1>1, <2>1, <2>2, <2>3, <2>4, QuietStep
<1>15. CASE InsertConflict(p)
    <2>1. pc'[p] = "rules" /\ UNCHANGED <<db, index, rebuilds, tx>>
        BY <1>15 DEF InsertConflict, TypeOK
    <2>2. ev'[p].held = ev[p].held
        BY <1>15, NextShape DEF InsertConflict
    <2>3. Memory(p)'
        BY <1>1, <2>1, <2>2 DEF Memory, Visible, db
    <2>4. QED
        BY <1>1, <2>1, <2>3, QuietStep
<1>16. CASE InsertNotification(p)
    <2> DEFINE new == NewNote(p)
               r == ev[p].rule
    <2>1. /\ pc[p] = "insert" /\ pc'[p] = "update" /\ UNCHANGED <<db, rebuilds>>
          /\ notifications' = notifications
          /\ CurrentKey(p) \notin KeysOf(notifications)
        BY <1>16 DEF InsertNotification, TypeOK, db
    <2>2. /\ tx'[p].notes = tx[p].notes \cup {new}
          /\ ev'[p].held = [ev[p].held EXCEPT ![r] = ev[p].at]
          /\ index'[p] = IF ev[p].live THEN [index[p] EXCEPT ![r] = ev[p].at]
                                       ELSE index[p]
        BY <1>16, InsertShape
    <2>3. /\ KeyOf(new) = CurrentKey(p) /\ new.rule = r /\ new.at = ev[p].at
          /\ new.status = (IF ev[p].suppressed THEN "suppressed_cooldown" ELSE "pending")
        BY <2>1, NewNoteType
    <2>4. r \in Rules /\ ev[p].held \in LastFired
        BY <2>1 DEF TypeOK, Placed, Evaluation
    <2>5. new \notin Visible(p)
        BY <2>1, <2>3 DEF IInv, Rows, NewKeys, KeysOf, Visible
    <2> HIDE DEF new
    <2>6. Visible(p)' = Visible(p) \cup {new}
        BY <2>1, <2>2 DEF Visible
    <2>7. Backed(ev[p].at, r, Visible(p)')
        BY <2>3, <2>6 DEF Backed
    <2>8. \A at, s : Backed(at, s, Visible(p)) => Backed(at, s, Visible(p)')
        BY <2>6, FoundedMonotone
    <2>9. Memory(p)'
        <3>1. \A s \in Rules : Backed(index'[p][s], s, Visible(p)')
            BY <1>1, <1>2, <2>2, <2>4, <2>7, <2>8 DEF Memory, LastFired
        <3>2. \A s \in Rules : Backed(ev'[p].held[s], s, Visible(p)')
            BY <1>1, <2>2, <2>4, <2>7, <2>8 DEF Memory, LastFired
        <3>3. QED
            BY <1>1, <2>1, <3>1, <3>2 DEF Memory
    <2>10. Founded(new, Visible(p)')
        <3>1. CASE ev[p].suppressed
            <4>1. Recent(r, ev[p].at, Visible(p))
                BY <1>1, <2>1, <3>1 DEF Decided
            <4>2. PICK m \in Visible(p) : m.rule = r
                BY <4>1 DEF Recent
            <4>3. Delivered(r, Visible(p))
                BY <1>1, <4>2 DEF Decided, Founded, Delivered, Visible
            <4>4. Visible(p)' \ {new} = Visible(p)
                BY <2>5, <2>6
            <4>5. QED
                BY <2>3, <2>6, <4>1, <4>3, <4>4 DEF Founded, Delivered
        <3>2. CASE ~ ev[p].suppressed
            BY <2>3, <2>6, <3>2 DEF Founded, Delivered
        <3>3. QED
            BY <3>1, <3>2
    <2>11. \A n \in tx'[p].notes : Founded(n, Visible(p)')
        <3>1. \A n \in tx[p].notes : Founded(n, Visible(p)')
            BY <1>1, <2>6, FoundedMonotone DEF Decided
        <3>2. QED
            BY <2>2, <2>10, <3>1
    <2>12. Decided(p)'
        BY <2>1, <2>11 DEF Decided
    <2>13. QED
        BY <1>1, <2>1, <2>9, <2>12, OthersFounded DEF MInv
<1>17. CASE UpdateLastFired(p)
    <2>1. pc'[p] = "rules" /\ UNCHANGED <<db, index, rebuilds>>
        BY <1>17 DEF UpdateLastFired, TypeOK
    <2>2. ev'[p].held = ev[p].held /\ tx'[p].notes = tx[p].notes
        BY <1>17, NextShape, UpdateShape DEF UpdateLastFired
    <2>3. Memory(p)'
        BY <1>1, <2>1, <2>2 DEF Memory, Visible, db
    <2>4. QED
        BY <1>1, <2>1, <2>2, <2>3, QuietStep
<1>18. QED
    BY <1>3, <1>4, <1>5, <1>6, <1>7, <1>8, <1>9, <1>10, <1>11, <1>12, <1>13,
       <1>14, <1>15, <1>16, <1>17 DEF Process, Batch, Evaluate

\* An empty memory is backed, and time does not matter to it.
LEMMA MInvInit == Init => MInv
BY DEF Init, MInv, Memory, Decided, Backed, NoRules, Idle, EmptyTx

\* The passing of time changes no notification and no open transaction.
LEMMA MInvTick == MInv /\ (Tick \/ UNCHANGED vars) => MInv'
BY DEF Tick, vars, db, MInv, Memory, Decided, Visible

\* Always, then, where no batch fails: memory says what rows say.
THEOREM MemoryBacked == ASSUME "rollback" \notin Faults PROVE Spec => []MInv
<1>1. TypeOK /\ IInv /\ MInv /\ [Next]_vars => MInv'
    BY MInvStep, MInvTick DEF Next
<1>2. QED
    BY <1>1, MInvInit, TypeCorrect, Invariance, PTL DEF Spec

\* Where no batch fails, the first fire of a rule is delivered: for any
\* number of pollers, any restarts, and rebuilds of the index at any moment.
THEOREM FirstFire ==
    ASSUME "rollback" \notin Faults PROVE Spec => []FirstFireDelivers
<1>1. IInv /\ MInv => FirstFireDelivers
    BY DEF IInv, OutboxMatchesNotifications, MInv, Founded, Delivered, FirstFireDelivers
<1>2. QED
    BY <1>1, Invariance, MemoryBacked, PTL

\* Where no batch fails, an alert is withheld only because of another fire
\* of its rule that is recorded, less than a cooldown before it.
THEOREM Justified ==
    ASSUME "rollback" \notin Faults PROVE Spec => []SuppressionJustified
<1>1. MInv => SuppressionJustified
    BY DEF MInv, Founded, Recent, SuppressionJustified
<1>2. QED
    BY <1>1, MemoryBacked, PTL

-----------------------------------------------------------------------------
(* The pollers implement the ledger of detected states.                    *)

\* What the two decisions on states are, and that they exclude each other.
LEMMA LedgerStep == TypeOK /\ IInv /\ TypeOK' /\ IInv' /\ [Next]_vars => [Ledger!Next]_Ledger!ledger
<1> SUFFICES ASSUME TypeOK, IInv, TypeOK', IInv', [Next]_vars
             PROVE  [Ledger!Next]_Ledger!ledger
    OBVIOUS
<1> DEFINE Owed == KeysOf(outbox)
           Withheld == KeysOf({n \in notifications : n.status = "suppressed_cooldown"})
<1>1. CASE UNCHANGED db
    BY <1>1 DEF db, Ledger!ledger
<1>2. ASSUME NEW p \in Pollers, Commit(p) PROVE Ledger!Record
    <2>1. outbox \subseteq outbox' /\ notifications \subseteq notifications'
        BY <1>2 DEF Commit
    <2>2. Owed \subseteq Owed' /\ Withheld \subseteq Withheld'
        BY <2>1 DEF KeysOf
    <2>3. Owed' \cup Withheld' \subseteq [rule : Rules, price : Prices, minute : Nat]
        BY DEF TypeOK, KeysOf, KeyOf, Note
    <2>4. Owed' \cap Withheld' = {}
        BY DEF IInv, UniqueDetectedState, OutboxMatchesNotifications, KeysOf
    <2>5. QED
        BY <2>2, <2>3, <2>4 DEF Ledger!Record
<1>3. CASE ~ UNCHANGED db
    <2>1. \E p \in Pollers : Commit(p)
        BY <1>3 DEF Next, vars, db, Tick, Process, Batch, Evaluate, Start, Load, Swap,
              Crash, ReceiveBatch, BeginPair, FlushPair, EndPair, Rollback, SkipRecorded,
              DecideCooldown, InsertConflict, InsertNotification, UpdateLastFired
    <2>2. QED
        BY <1>2, <2>1 DEF Ledger!Next
<1>4. QED
    BY <1>1, <1>3

\* Every step of the pollers is one of AlertLedger, or changes nothing in it:
\* what was decided on a state stands, and is one decision.
THEOREM ImplementsLedger == Spec => LedgerSpec
<1>1. Init => Ledger!Init
    BY DEF Init, Ledger!Init, KeysOf
<1>2. QED
    BY <1>1, LedgerStep, TypeCorrect, Invariance, PTL DEF Spec, LedgerSpec, Ledger!Spec
=============================================================================
