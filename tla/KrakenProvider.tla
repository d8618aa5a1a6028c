--------------------------- MODULE KrakenProvider ---------------------------
(***************************************************************************)
(* The Kraken client of one process (providers/kraken.py), as far as tasks *)
(* of that process meet in it: the cache of AssetPairs, the lock that lets *)
(* one task at a time fill it, and the throttle between requests.  While a *)
(* task fetches, it holds the lock of the cache, and it sleeps in the      *)
(* throttle; the others wait in turn (asyncio.Lock).                       *)
(*                                                                         *)
(* PairRegistry composes this module with the API and the discovery job.   *)
(* Ticker requests of the poller are in module PollQueue.                  *)
(***************************************************************************)
EXTENDS Integers, Sequences

CONSTANTS
    Names,       \* USD pairs that Kraken lists at some time
    Callers,     \* tasks that resolve a symbol at a time
    MinInterval  \* 1 / requests_per_second, in clock units

ASSUME ProviderAssumption == MinInterval \in Nat

VARIABLES
    assetPairs,   \* _asset_pairs_cache: no set or one set of names
    line,         \* _asset_pairs_lock: its holder and those that wait for it
    fetch,        \* what the holder is doing
    sinceRequest  \* time since _last_request_at, up to MinInterval

provider == <<assetPairs, line, fetch, sinceRequest>>

ProviderInit ==
    /\ assetPairs = {}
    /\ line = <<>>
    /\ fetch = "none"
    /\ sinceRequest = MinInterval

Waits(c) == \E i \in DOMAIN line : line[i] = c
Holds(c) == line # <<>> /\ Head(line) = c

\* _get_asset_pairs, up to the lock.
AskAssetPairs(c) ==
    /\ line' = Append(line, c)
    /\ UNCHANGED <<assetPairs, fetch, sinceRequest>>

\* The lock is free and the cache is filled.
FromCache(c) ==
    /\ Holds(c)
    /\ fetch = "none"
    /\ assetPairs # {}
    /\ line' = Tail(line)
    /\ UNCHANGED <<assetPairs, fetch, sinceRequest>>

\* _get, up to its throttle.
StartFetch ==
    /\ line # <<>>
    /\ fetch = "none"
    /\ assetPairs = {}
    /\ fetch' = "throttle"
    /\ UNCHANGED <<assetPairs, line, sinceRequest>>

\* _throttle is over, and the request goes out.
SendRequest ==
    /\ fetch = "throttle"
    /\ sinceRequest = MinInterval
    /\ fetch' = "request"
    /\ sinceRequest' = 0
    /\ UNCHANGED <<assetPairs, line>>

\* The answer fills the cache, for the lifetime of the provider.
Fetched(c, names) ==
    /\ Holds(c)
    /\ fetch = "request"
    /\ fetch' = "none"
    /\ assetPairs' = {names}
    /\ line' = Tail(line)
    /\ UNCHANGED sinceRequest

\* Mutant of FetchFails: the lock is not released.
FetchFailsInLock(c) ==
    /\ Holds(c)
    /\ fetch = "request"
    /\ fetch' = "failed"
    /\ UNCHANGED <<assetPairs, line, sinceRequest>>

\* The request fails, or its answer holds an error: the cache stays empty
\* and the next in line tries.
FetchFails(c) ==
    /\ Holds(c)
    /\ fetch = "request"
    /\ fetch' = "none"
    /\ line' = Tail(line)
    /\ UNCHANGED <<assetPairs, sinceRequest>>

ProviderTick ==
    /\ sinceRequest < MinInterval
    /\ sinceRequest' = sinceRequest + 1
    /\ UNCHANGED <<assetPairs, line, fetch>>

ProviderTypeOK ==
    /\ assetPairs \subseteq SUBSET Names
    /\ \A S, T \in assetPairs : S = T
    /\ line \in Seq(Callers)
    /\ \A i, j \in DOMAIN line : line[i] = line[j] => i = j
    /\ fetch \in {"none", "throttle", "request"}
    /\ fetch # "none" => line # <<>> /\ assetPairs = {}
    /\ sinceRequest \in 0 .. MinInterval
=============================================================================
