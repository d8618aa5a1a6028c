---------------------------- MODULE PairRegistry ----------------------------
(***************************************************************************)
(* The table of tracked pairs and the two programs that write it: POST     *)
(* /pairs (api/routes/pairs.py), of which several run at a time and share  *)
(* a KrakenProvider, and the daily discovery job (workers/discovery.py),   *)
(* over a market whose listings and volumes change.                        *)
(*                                                                         *)
(* The job has a provider of its own, new in each run, whose cache nobody  *)
(* waits for.  A symbol is the pair it resolves to.  The prices that the   *)
(* job and the poller write to a row are left out.                         *)
(***************************************************************************)
EXTENDS KrakenProvider

CONSTANTS
    Volatile,    \* bound: the names whose listing and volume change
    Notionals,   \* 24h volumes, in USD
    Activate,    \* discovery_activate_floor_usd
    Deactivate,  \* discovery_deactivate_floor_usd
    MaxFaults    \* bound on the calls to Kraken that fail

Unlisted == -1   \* the market does not have the name
Unknown == -1    \* notional_24h IS NULL

ASSUME RegistryAssumption ==
    /\ Volatile \subseteq Names
    /\ Notionals \subseteq Nat
    /\ Activate \in Notionals
    /\ Deactivate \in Nat /\ Deactivate <= Activate
    /\ MaxFaults \in Nat

VARIABLES
    market,    \* the volume of each name at Kraken
    pairs,     \* the rows of the table of pairs, by their unique name
    requests,  \* what each POST /pairs is doing
    job,       \* what the discovery job is doing
    faults     \* how many calls may still fail

vars == <<market, pairs, requests, job, faults, provider>>

Listed == {n \in Names : market[n] # Unlisted}

Pair == [active : BOOLEAN, notional : Notionals \cup {Unknown}]
Table == UNION {[S -> Pair] : S \in SUBSET Names}

\* A POST that was refused (422) or failed (500) is over like one that never
\* began.
Request == [doing : {"resolve", "select", "insert", "created", "conflict"},
            name : Names]
               \cup [doing : {"nothing"}]
Nothing == [doing |-> "nothing"]
Market == UNION {[S -> Notionals] : S \in SUBSET Names}

\* A run of the job: the names of its AssetPairs request, its snapshot of the
\* market, and the rows it has selected.
Asleep == [stage |-> "asleep"]
Job == [stage : {"asleep", "listing"}]
           \cup [stage : {"ticker"}, names : SUBSET Names]
           \cup [stage : {"select"}, snapshot : Market]
           \cup [stage : {"commit"}, snapshot : Market, seen : Table]

Init ==
    /\ market = [n \in Names |-> IF n \in Volatile THEN Unlisted ELSE Activate]
    /\ pairs = [n \in {} |-> {}]
    /\ requests = [c \in Callers |-> Nothing]
    /\ job = Asleep
    /\ faults = MaxFaults
    /\ ProviderInit

\* Kraken lists a name, delists it, or its volume changes.
MarketMoves(n) == \E v \in Notionals \cup {Unlisted} :
    /\ n \in Volatile
    /\ v # market[n]
    /\ market' = [market EXCEPT ![n] = v]
    /\ UNCHANGED <<pairs, requests, job, faults, provider>>

Fault == faults > 0 /\ faults' = faults - 1

-----------------------------------------------------------------------------
(* POST /pairs.                                                            *)

\* What request c does next.
Goes(c, what) == requests' = [requests EXCEPT ![c].doing = what]
Fails(c) == requests' = [requests EXCEPT ![c] = Nothing]

Finished(c) == requests[c].doing \in {"nothing", "created", "conflict"}

\* create_pair, up to the provider's lock.
Post(c) == \E n \in Names :
    /\ Finished(c)
    /\ requests' = [requests EXCEPT ![c] = [doing |-> "resolve", name |-> n]]
    /\ AskAssetPairs(c)
    /\ UNCHANGED <<market, pairs, job, faults>>

\* resolve_pair returns, or raises a ValueError.
Resolved(c, names) ==
    IF requests[c].name \in names THEN Goes(c, "select") ELSE Fails(c)

Resolve(c) ==
    /\ \/ FromCache(c) /\ Resolved(c, UNION assetPairs)
       \/ Fetched(c, Listed) /\ Resolved(c, Listed)
    /\ UNCHANGED <<market, pairs, job, faults>>

\* Kraken fails, and so does the request.
ResolveFails(c) ==
    /\ Fault
    /\ FetchFails(c)
    /\ Fails(c)
    /\ UNCHANGED <<market, pairs, job>>

Select(c) ==
    /\ requests[c].doing = "select"
    /\ Goes(c, IF requests[c].name \in DOMAIN pairs THEN "conflict" ELSE "insert")
    /\ UNCHANGED <<market, pairs, job, faults, provider>>

\* The row is inserted and committed, unless its name exists by now.
Insert(c) ==
    LET n == requests[c].name
    IN  /\ requests[c].doing = "insert"
        /\ \/ /\ n \notin DOMAIN pairs
              /\ pairs' = [m \in DOMAIN pairs \cup {n} |->
                    IF m = n THEN [active |-> TRUE, notional |-> Unknown]
                             ELSE pairs[m]]
              /\ Goes(c, "created")
           \/ /\ n \in DOMAIN pairs
              /\ Fails(c)
              /\ UNCHANGED pairs
        /\ UNCHANGED <<market, job, faults, provider>>

-----------------------------------------------------------------------------
(* run_discovery.                                                          *)

JobUnchanged == UNCHANGED <<market, requests, provider>>

JobStarts ==
    /\ job.stage = "asleep"
    /\ job' = [stage |-> "listing"]
    /\ UNCHANGED <<pairs, faults>>
    /\ JobUnchanged

JobLists ==
    /\ job.stage = "listing"
    /\ job' = [stage |-> "ticker", names |-> Listed]
    /\ UNCHANGED <<pairs, faults>>
    /\ JobUnchanged

\* The snapshot has the names that both requests return.
JobTakesSnapshot ==
    /\ job.stage = "ticker"
    /\ job' = [stage |-> "select",
               snapshot |-> [n \in job.names \cap Listed |-> market[n]]]
    /\ UNCHANGED <<pairs, faults>>
    /\ JobUnchanged

\* Mutant of JobSelects: it reads the active pairs only.
JobSelectsActive ==
    /\ job.stage = "select"
    /\ job' = [stage |-> "commit", snapshot |-> job.snapshot,
               seen |-> [n \in {m \in DOMAIN pairs \cap DOMAIN job.snapshot :
                                  pairs[m].active} |-> pairs[n]]]
    /\ UNCHANGED <<pairs, faults>>
    /\ JobUnchanged

JobSelects ==
    /\ job.stage = "select"
    /\ job' = [stage |-> "commit", snapshot |-> job.snapshot,
               seen |-> [n \in DOMAIN pairs \cap DOMAIN job.snapshot |-> pairs[n]]]
    /\ UNCHANGED <<pairs, faults>>
    /\ JobUnchanged

\* The pairs of the snapshot that are new and clear the floor.
ToCreate == {n \in DOMAIN job.snapshot \ DOMAIN job.seen :
                job.snapshot[n] >= Activate}

\* Mutants of IsActive: the floors are swapped; the upper one is exclusive.
IsActiveSwapped(was, volume) ==
    IF was THEN volume >= Activate ELSE volume >= Deactivate
IsActiveExclusive(was, volume) ==
    IF was THEN volume >= Deactivate ELSE volume > Activate

\* Hysteresis: what becomes of is_active.
IsActive(was, volume) ==
    IF was THEN volume >= Deactivate ELSE volume >= Activate

\* A row that was read: its volume is written, and is_active if it changes.
Updated(n) ==
    LET was == job.seen[n].active
        is == IsActive(was, job.snapshot[n])
    IN  [notional |-> job.snapshot[n],
         active |-> IF is # was THEN is ELSE pairs[n].active]

\* Mutant of JobCommits: rows that it did not see are dropped.
JobCommitsAll ==
    /\ job.stage = "commit"
    /\ ToCreate \cap DOMAIN pairs = {}
    /\ pairs' = [n \in ToCreate \cup DOMAIN job.seen |->
          IF n \in DOMAIN job.seen THEN Updated(n)
          ELSE [active |-> TRUE, notional |-> job.snapshot[n]]]
    /\ job' = Asleep
    /\ UNCHANGED faults
    /\ JobUnchanged

\* All the rows of the run are written in one commit.
JobCommits ==
    /\ job.stage = "commit"
    /\ ToCreate \cap DOMAIN pairs = {}
    /\ pairs' = [n \in ToCreate \cup DOMAIN pairs |->
          IF n \in DOMAIN job.seen THEN Updated(n)
          ELSE IF n \in ToCreate
          THEN [active |-> TRUE, notional |-> job.snapshot[n]]
          ELSE pairs[n]]
    /\ job' = Asleep
    /\ UNCHANGED faults
    /\ JobUnchanged

\* Kraken fails, or a POST has inserted a name of ToCreate meanwhile, and the
\* commit of the whole run with it: what it read is forgotten.
JobFails ==
    /\ \/ job.stage \in {"listing", "ticker"} /\ Fault
       \/ /\ job.stage = "commit"
          /\ ToCreate \cap DOMAIN pairs # {}
          /\ UNCHANGED faults
    /\ job' = Asleep
    /\ UNCHANGED pairs
    /\ JobUnchanged

-----------------------------------------------------------------------------
Fetch ==
    /\ StartFetch \/ SendRequest \/ ProviderTick
    /\ UNCHANGED <<market, pairs, requests, job, faults>>

Serve(c) == Resolve(c) \/ Select(c) \/ Insert(c)

Discover ==
    \/ JobStarts \/ JobLists \/ JobTakesSnapshot \/ JobSelects \/ JobCommits
    \/ JobFails

Next ==
    \/ \E n \in Names : MarketMoves(n)
    \/ Fetch
    \/ \E c \in Callers : Post(c) \/ Serve(c) \/ ResolveFails(c)
    \/ Discover

Spec == Init /\ [][Next]_vars

\* The job runs every day, time passes, and Kraken and Postgres answer or
\* fail.
Fairness ==
    /\ WF_vars(Fetch)
    /\ WF_vars(Discover)
    /\ \A c \in Callers : WF_vars(Serve(c) \/ ResolveFails(c))

FairSpec == Spec /\ Fairness

-----------------------------------------------------------------------------
(* Properties.                                                             *)

\* The variables have their types; a request that resolves its symbol, and
\* no other, is in the line of the provider.
TypeOK ==
    /\ market \in [Names -> Notionals \cup {Unlisted}]
    /\ pairs \in Table
    /\ requests \in [Callers -> Request]
    /\ job \in Job
    /\ faults \in 0 .. MaxFaults
    /\ ProviderTypeOK
    /\ \A c \in Callers : requests[c].doing = "resolve" <=> Waits(c)

\* A request that was answered that the pair was created, or exists already,
\* was told the truth, and the pair stays: a run of the job that read the
\* table before does not undo it.
AnswersHold == \A c \in Callers :
    requests[c].doing \in {"created", "conflict"} => requests[c].name \in DOMAIN pairs

\* After any run, a pair whose last known volume clears the upper floor is
\* active and one below the lower floor is not, also when POST /pairs
\* inserted it (workers/discovery.py:57-63).
ActiveFitsVolume == \A n \in DOMAIN pairs :
    /\ pairs[n].notional >= Activate => pairs[n].active
    /\ pairs[n].notional # Unknown /\ pairs[n].notional < Deactivate =>
          ~ pairs[n].active

\* "Re-running against the same market data converges to the same state"
\* (workers/discovery.py:5-6): a run whose snapshot is what the table knows
\* changes nothing.
Knows(n) == IF n \in DOMAIN pairs THEN pairs[n].notional = job.snapshot[n]
                                  ELSE job.snapshot[n] < Activate

Converges ==
    [][JobCommits /\ (\A n \in DOMAIN job.snapshot : Knows(n))
          => UNCHANGED pairs]_vars

\* A pair that clears the upper floor for good is tracked for good, and one
\* that is listed below the lower floor is not, though runs fail as a whole
\* when they race a POST.
FollowsMarket == \A n \in Names :
    /\ <>[](market[n] >= Activate) =>
          <>[](n \in DOMAIN pairs /\ pairs[n].active)
    /\ <>[](market[n] # Unlisted /\ market[n] < Deactivate) =>
          <>[](n \in DOMAIN pairs => ~ pairs[n].active)

\* Every POST is answered: one that waits for the cache is not stuck behind
\* a fetch that failed (providers/kraken.py:51-56).
EveryPostAnswered == \A c \in Callers : ~ Finished(c) ~> Finished(c)
=============================================================================
