---------------------------- MODULE AlertLedger ----------------------------
(***************************************************************************)
(* What dropwatch promises about one detected state (a rule, a price and a *)
(* minute), whatever polls, restarts and redeliveries lie behind it.  A    *)
(* detected state is recorded at most once.  Recording it decides, once    *)
(* and for all, whether an alert is owed for it (its notification is       *)
(* "pending" and has an outbox event) or withheld (its notification is     *)
(* "suppressed_cooldown").  An alert that is owed may be sent; an alert    *)
(* that was withheld never is.                                             *)
(*                                                                         *)
(* AlertEngine implements Record, OutboxPublisher Deliver, and             *)
(* AlertPipeline the whole.                                                *)
(***************************************************************************)

CONSTANT States  \* the detected states

VARIABLES
    owed,      \* the states recorded with an alert to send
    withheld,  \* the states recorded with the alert suppressed
    sent       \* the states whose alert was sent

ledger == <<owed, withheld, sent>>

Init ==
    /\ owed = {}
    /\ withheld = {}
    /\ sent = {}

\* Some states are recorded together (a batch is one transaction).  The
\* earlier decisions stand, and no state is both owed and withheld.
Record ==
    /\ owed \subseteq owed'
    /\ withheld \subseteq withheld'
    /\ owed' \cup withheld' \subseteq States
    /\ owed' \cap withheld' = {}
    /\ UNCHANGED sent

\* The sending of some alerts that were owed is recorded.
Deliver ==
    /\ sent \subseteq sent'
    /\ sent' \subseteq owed
    /\ UNCHANGED <<owed, withheld>>

Next == Record \/ Deliver

Spec == Init /\ [][Next]_ledger
=============================================================================
