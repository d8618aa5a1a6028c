------------------------- MODULE PairRegistryProofs -------------------------
(***************************************************************************)
(* What holds of the table of pairs for every set of names and of          *)
(* concurrent requests, every pair of floors and every market.             *)
(***************************************************************************)
EXTENDS PairRegistry, TLAPS

-----------------------------------------------------------------------------
(* The line at the lock of the provider.                                   *)

Once(s) == \A i, j \in DOMAIN s : s[i] = s[j] => i = j
In(s, c) == \E i \in DOMAIN s : s[i] = c

\* A task that asks stands last in the line.
LEMMA AppendLine ==
    ASSUME NEW s \in Seq(Callers), Once(s), NEW c \in Callers, ~ In(s, c)
    PROVE  /\ Append(s, c) \in Seq(Callers)
           /\ Once(Append(s, c))
           /\ \A d : In(Append(s, c), d) <=> In(s, d) \/ d = c
<1> DEFINE t == Append(s, c)
<1>1. t \in Seq(Callers) /\ DOMAIN s = 1 .. Len(s) /\ DOMAIN t = 1 .. Len(s) + 1
      /\ Len(s) \in Nat
    OBVIOUS
<1>2. \A i \in 1 .. Len(s) : t[i] = s[i]
    OBVIOUS
<1>3. t[Len(s) + 1] = c
    OBVIOUS
<1> HIDE DEF t
<1>4. Once(t)
    BY <1>1, <1>2, <1>3 DEF Once, In
<1>5. ASSUME NEW d PROVE In(t, d) <=> In(s, d) \/ d = c
    BY <1>1, <1>2, <1>3 DEF In
<1>6. QED
    BY <1>1, <1>4, <1>5 DEF t

\* The holder of the lock leaves the line.
LEMMA TailLine ==
    ASSUME NEW s \in Seq(Callers), Once(s), s # <<>>
    PROVE  /\ Tail(s) \in Seq(Callers)
           /\ Once(Tail(s))
           /\ \A d : In(Tail(s), d) <=> In(s, d) /\ d # Head(s)
<1> DEFINE t == Tail(s)
<1>1. t \in Seq(Callers) /\ DOMAIN s = 1 .. Len(s) /\ DOMAIN t = 1 .. Len(s) - 1
      /\ Len(s) \in Nat \ {0}
    OBVIOUS
<1>2. \A i \in 1 .. Len(s) - 1 : t[i] = s[i + 1]
    OBVIOUS
<1>3. Head(s) = s[1]
    OBVIOUS
<1> HIDE DEF t
<1>4. Once(t)
    <2>1. ASSUME NEW i \in DOMAIN t, NEW j \in DOMAIN t, t[i] = t[j] PROVE i = j
        <3>1. i + 1 \in DOMAIN s /\ j + 1 \in DOMAIN s /\ s[i + 1] = s[j + 1]
            BY <1>1, <1>2, <2>1
        <3>2. i + 1 = j + 1
            BY <3>1 DEF Once
        <3>3. QED
            BY <1>1, <3>2
    <2>2. QED
        BY <2>1 DEF Once
<1>5. ASSUME NEW d PROVE In(t, d) <=> In(s, d) /\ d # s[1]
    <2>1. ASSUME In(t, d) PROVE In(s, d) /\ d # s[1]
        <3>1. PICK i \in 1 .. Len(s) - 1 : t[i] = d
            BY <1>1, <2>1 DEF In
        <3>2. s[i + 1] = d /\ i + 1 \in DOMAIN s /\ i + 1 # 1 /\ 1 \in DOMAIN s
            BY <1>1, <1>2, <3>1
        <3>3. QED
            BY <3>2 DEF In, Once
    <2>2. ASSUME In(s, d), d # s[1] PROVE In(t, d)
        <3>1. PICK i \in 1 .. Len(s) : s[i] = d
            BY <1>1, <2>2 DEF In
        <3>2. i - 1 \in DOMAIN t /\ t[i - 1] = d
            BY <1>1, <1>2, <2>2, <3>1
        <3>3. QED
            BY <3>2 DEF In
    <2>3. QED
        BY <2>1, <2>2
<1>6. QED
    BY <1>1, <1>3, <1>4, <1>5 DEF t

-----------------------------------------------------------------------------
(* Types.                                                                  *)

RowsType ==
    /\ market \in [Names -> Notionals \cup {Unlisted}]
    /\ pairs \in Table
    /\ faults \in 0 .. MaxFaults
LineType ==
    /\ line \in Seq(Callers)
    /\ Once(line)
RequestType ==
    /\ requests \in [Callers -> Request]
    /\ \A c \in Callers : requests[c].doing = "resolve" <=> In(line, c)
FetchType ==
    /\ assetPairs \subseteq SUBSET Names
    /\ \A S, T \in assetPairs : S = T
    /\ fetch \in {"none", "throttle", "request"}
    /\ fetch # "none" => line # <<>> /\ assetPairs = {}
    /\ sinceRequest \in 0 .. MinInterval

\* The type invariant, part by part.
LEMMA TypeParts ==
    /\ TypeOK <=> RowsType /\ LineType /\ RequestType /\ FetchType /\ job \in Job
    /\ TypeOK' <=>
          RowsType' /\ LineType' /\ RequestType' /\ FetchType' /\ (job \in Job)'
BY DEF TypeOK, ProviderTypeOK, RowsType, LineType, RequestType, FetchType,
       Waits, In, Once

\* A request that does something has a name, and keeps it.
LEMMA GoesShape ==
    ASSUME requests \in [Callers -> Request], NEW c \in Callers,
           requests[c].doing # "nothing",
           NEW what \in {"select", "insert", "created", "conflict"}, Goes(c, what)
    PROVE  /\ requests[c].name \in Names
           /\ requests' \in [Callers -> Request]
           /\ requests'[c].doing = what /\ requests'[c].name = requests[c].name
           /\ \A d \in Callers \ {c} : requests'[d] = requests[d]
<1> DEFINE Busy == [doing : {"resolve", "select", "insert", "created", "conflict"},
                    name : Names]
<1>1. requests[c] \in Busy
    BY DEF Request
<1>2. [requests[c] EXCEPT !.doing = what] \in Busy
      /\ [requests[c] EXCEPT !.doing = what].doing = what
      /\ [requests[c] EXCEPT !.doing = what].name = requests[c].name
    BY <1>1
<1>3. requests' = [requests EXCEPT ![c] = [requests[c] EXCEPT !.doing = what]]
    BY DEF Goes
<1>4. QED
    BY <1>1, <1>2, <1>3 DEF Request

\* A request that fails leaves its caller idle and the others alone.
LEMMA FailsShape ==
    ASSUME requests \in [Callers -> Request], NEW c \in Callers, Fails(c)
    PROVE  /\ requests' \in [Callers -> Request]
           /\ requests'[c].doing = "nothing"
           /\ \A d \in Callers \ {c} : requests'[d] = requests[d]
BY DEF Fails, Request, Nothing

\* A request that begins leaves the other callers alone.
LEMMA PostShape ==
    ASSUME requests \in [Callers -> Request], NEW c \in Callers, NEW n \in Names,
           requests' = [requests EXCEPT ![c] = [doing |-> "resolve", name |-> n]]
    PROVE  /\ requests' \in [Callers -> Request]
           /\ requests'[c].doing = "resolve"
           /\ \A d \in Callers \ {c} : requests'[d] = requests[d]
BY DEF Request

\* The job holds what its stage says.
LEMMA JobShape ==
    ASSUME job \in Job
    PROVE  /\ job.stage = "ticker" => job.names \in SUBSET Names
           /\ job.stage = "select" => job.snapshot \in Market
           /\ job.stage = "commit" => job.snapshot \in Market /\ job.seen \in Table
BY DEF Job

\* What Kraken lists: names, with a notional each.
LEMMA MarketShape ==
    ASSUME NEW f \in Market
    PROVE  /\ DOMAIN f \subseteq Names
           /\ \A n \in DOMAIN f : f[n] \in Notionals
BY DEF Market

\* What the table holds: names, with a row each.
LEMMA TableShape ==
    ASSUME NEW f \in Table
    PROVE  /\ DOMAIN f \subseteq Names
           /\ \A n \in DOMAIN f : f[n] \in Pair
BY DEF Table

\* What the job has read of a row stands until it commits: others only insert
\* new names.
SeenStands == job.stage = "commit" => \A n \in DOMAIN job.seen :
    n \in DOMAIN job.snapshot /\ n \in DOMAIN pairs /\ pairs[n] = job.seen[n]

\* The inductive invariant.
IInv == TypeOK /\ SeenStands /\ AnswersHold /\ ActiveFitsVolume

\* The inductive invariant holds at the start.
LEMMA InitOK == Init => IInv
<1> SUFFICES ASSUME Init PROVE IInv
    OBVIOUS
<1>1. market \in [Names -> Notionals \cup {Unlisted}]
    BY RegistryAssumption DEF Init
<1>2. pairs = [n \in {} |-> {}] /\ pairs \in Table /\ DOMAIN pairs = {}
    BY DEF Init, Table
<1>3. job \in Job /\ job.stage = "asleep"
    BY DEF Init, Asleep, Job
<1>4. requests \in [Callers -> Request] /\ \A c \in Callers : requests[c].doing = "nothing"
    BY DEF Init, Nothing, Request
<1>5. LineType /\ DOMAIN line = {}
    BY DEF Init, ProviderInit, LineType, Once
<1>6. FetchType
    BY ProviderAssumption DEF Init, ProviderInit, FetchType
<1>7. RowsType
    BY <1>1, <1>2, RegistryAssumption DEF Init, RowsType
<1>8. RequestType
    BY <1>4, <1>5 DEF RequestType, In
<1>9. SeenStands /\ AnswersHold /\ ActiveFitsVolume
    BY <1>2, <1>3, <1>4 DEF SeenStands, AnswersHold, ActiveFitsVolume
<1>10. QED
    BY <1>3, <1>5, <1>6, <1>7, <1>8, <1>9, TypeParts DEF IInv

\* Steps that leave the rows, the requests and the job as they are.
LEMMA SameRows ==
    ASSUME IInv, UNCHANGED <<pairs, requests, job>>,
           market' \in [Names -> Notionals \cup {Unlisted}],
           faults' \in 0 .. MaxFaults, UNCHANGED line, FetchType'
    PROVE  IInv'
<1>1. RowsType' /\ LineType' /\ RequestType' /\ (job \in Job)'
    BY TypeParts DEF IInv, RowsType, LineType, RequestType
<1>2. SeenStands' /\ AnswersHold' /\ ActiveFitsVolume'
    BY DEF IInv, SeenStands, AnswersHold, ActiveFitsVolume
<1>3. QED
    BY <1>1, <1>2, TypeParts DEF IInv

\* Steps of a POST before it looks at the rows.
LEMMA SamePairs ==
    ASSUME IInv, UNCHANGED <<market, pairs, job>>, faults' \in 0 .. MaxFaults,
           LineType', RequestType', FetchType',
           \A c \in Callers : requests'[c] = requests[c]
                              \/ requests'[c].doing \notin {"created", "conflict"}
    PROVE  IInv'
<1>1. RowsType' /\ (job \in Job)'
    BY TypeParts DEF IInv, RowsType
<1>2. AnswersHold'
    BY DEF IInv, AnswersHold
<1>3. SeenStands' /\ ActiveFitsVolume'
    BY DEF IInv, SeenStands, ActiveFitsVolume
<1>4. QED
    BY <1>1, <1>2, <1>3, TypeParts DEF IInv

\* The fetch of Kraken's list of pairs keeps the inductive invariant.
LEMMA FetchStep ==
    ASSUME IInv, Fetch
    PROVE  IInv'
<1>1. FetchType'
    <2>1. FetchType
        BY TypeParts DEF IInv
    <2>2. CASE StartFetch
        BY <2>1, <2>2, ProviderAssumption DEF FetchType, StartFetch
    <2>3. CASE SendRequest
        BY <2>1, <2>3, ProviderAssumption DEF FetchType, SendRequest
    <2>4. CASE ProviderTick
        BY <2>1, <2>4, ProviderAssumption DEF FetchType, ProviderTick
    <2>5. QED
        BY <2>2, <2>3, <2>4 DEF Fetch
<1>2. /\ UNCHANGED <<market, pairs, requests, job, faults, line>>
    BY DEF Fetch, StartFetch, SendRequest, ProviderTick
<1>3. RowsType
    BY TypeParts DEF IInv
<1>4. QED
    BY <1>1, <1>2, <1>3, SameRows DEF RowsType

\* A change of the market keeps the inductive invariant.
LEMMA MarketStep ==
    ASSUME IInv, NEW n \in Names, MarketMoves(n)
    PROVE  IInv'
<1>1. RowsType /\ FetchType
    BY TypeParts DEF IInv
<1>2. market' \in [Names -> Notionals \cup {Unlisted}]
    BY <1>1 DEF RowsType, MarketMoves
<1>3. UNCHANGED <<pairs, requests, job, faults, provider>>
    BY DEF MarketMoves
<1>4. FetchType' /\ UNCHANGED line
    BY <1>1, <1>3 DEF FetchType, provider
<1>5. QED
    BY <1>1, <1>2, <1>3, <1>4, SameRows DEF RowsType

\* The holder of the lock is the first of the line, and it alone leaves.
LEMMA LeavesLine ==
    ASSUME IInv, NEW c \in Callers, Holds(c), line' = Tail(line),
           requests' \in [Callers -> Request], requests'[c].doing # "resolve",
           \A d \in Callers \ {c} : requests'[d] = requests[d]
    PROVE  LineType' /\ RequestType'
<1>1. LineType /\ RequestType
    BY TypeParts DEF IInv
<1>2. line # <<>> /\ Head(line) = c
    BY DEF Holds
<1>3. /\ Tail(line) \in Seq(Callers) /\ Once(Tail(line))
      /\ \A d : In(Tail(line), d) <=> In(line, d) /\ d # c
    BY <1>1, <1>2, TailLine DEF LineType
<1>4. LineType' /\ \A d \in Callers : In(line, d)' <=> In(line, d) /\ d # c
    BY <1>3 DEF LineType, Once, In
<1>5. QED
    BY <1>1, <1>4 DEF RequestType

\* The caller at the head of the provider's line is resolving a name.
LEMMA HolderResolves ==
    ASSUME IInv, NEW c \in Callers, Holds(c)
    PROVE  requests[c].doing = "resolve"
<1>1. LineType /\ RequestType
    BY TypeParts DEF IInv
<1>2. In(line, c)
    <2>1. line # <<>> /\ Head(line) = c /\ line \in Seq(Callers)
        BY <1>1 DEF Holds, LineType
    <2>2. 1 \in DOMAIN line /\ line[1] = c
        BY <2>1
    <2>3. QED
        BY <2>2 DEF In
<1>3. QED
    BY <1>1, <1>2 DEF RequestType

\* A request to add a pair keeps the inductive invariant.
LEMMA PostStep ==
    ASSUME IInv, NEW c \in Callers, Post(c)
    PROVE  IInv'
<1>1. LineType /\ RequestType /\ FetchType /\ RowsType
    BY TypeParts DEF IInv
<1>2. PICK n \in Names :
         requests' = [requests EXCEPT ![c] = [doing |-> "resolve", name |-> n]]
    BY DEF Post
<1>3. /\ Finished(c) /\ line' = Append(line, c)
      /\ UNCHANGED <<market, pairs, job, faults, assetPairs, fetch, sinceRequest>>
    BY DEF Post, AskAssetPairs
<1>4. /\ requests' \in [Callers -> Request] /\ requests'[c].doing = "resolve"
      /\ \A d \in Callers \ {c} : requests'[d] = requests[d]
    BY <1>1, <1>2, PostShape DEF RequestType
<1>5. ~ In(line, c)
    BY <1>1, <1>3 DEF RequestType, Finished
<1>6. LineType' /\ \A d : In(line, d)' <=> In(line, d) \/ d = c
    BY <1>1, <1>3, <1>5, AppendLine DEF LineType, Once, In
<1>7. RequestType'
    BY <1>1, <1>4, <1>6 DEF RequestType
<1>8. line' # <<>>
    BY <1>1, <1>3 DEF LineType
<1>9. FetchType'
    BY <1>1, <1>3, <1>8 DEF FetchType
<1>10. QED
    BY <1>1, <1>3, <1>4, <1>6, <1>7, <1>9, SamePairs DEF RowsType

\* What resolve_pair makes of a request that waits for it.
LEMMA ResolvedShape ==
    ASSUME RequestType, NEW c \in Callers, requests[c].doing = "resolve", NEW names,
           Resolved(c, names)
    PROVE  /\ requests' \in [Callers -> Request]
           /\ requests'[c].doing \in {"nothing", "select"}
           /\ \A d \in Callers \ {c} : requests'[d] = requests[d]
<1>1. CASE Goes(c, "select")
    BY <1>1, GoesShape DEF RequestType
<1>2. CASE Fails(c)
    BY <1>2, FailsShape DEF RequestType
<1>3. QED
    BY <1>1, <1>2 DEF Resolved

\* An answer of resolve_pair keeps the inductive invariant.
LEMMA ResolveStep ==
    ASSUME IInv, NEW c \in Callers, Resolve(c)
    PROVE  IInv'
<1>1. LineType /\ RequestType /\ FetchType /\ RowsType
    BY TypeParts DEF IInv
<1>2. Holds(c) /\ line' = Tail(line) /\ UNCHANGED <<market, pairs, job, faults>>
    BY DEF Resolve, FromCache, Fetched
<1>3. FetchType'
    <2>1. CASE FromCache(c)
        BY <1>1, <2>1 DEF FetchType, FromCache
    <2>2. CASE Fetched(c, Listed)
        <3>1. Listed \in SUBSET Names
            BY DEF Listed
        <3>2. QED
            BY <1>1, <2>2, <3>1 DEF FetchType, Fetched
    <2>3. QED
        BY <2>1, <2>2 DEF Resolve
<1>4. requests[c].doing = "resolve"
    BY <1>2, HolderResolves
<1>5. /\ requests' \in [Callers -> Request]
      /\ requests'[c].doing \in {"nothing", "select"}
      /\ \A d \in Callers \ {c} : requests'[d] = requests[d]
    <2>1. PICK names : Resolved(c, names)
        BY DEF Resolve
    <2>2. QED
        BY <1>1, <1>4, <2>1, ResolvedShape
<1>6. LineType' /\ RequestType'
    BY <1>2, <1>5, LeavesLine
<1>7. QED
    BY <1>1, <1>2, <1>3, <1>5, <1>6, SamePairs DEF RowsType

\* A failure of Kraken while a name is resolved keeps the inductive invariant.
LEMMA ResolveFailsStep ==
    ASSUME IInv, NEW c \in Callers, ResolveFails(c)
    PROVE  IInv'
<1>1. LineType /\ RequestType /\ FetchType /\ RowsType
    BY TypeParts DEF IInv
<1>2. /\ Holds(c) /\ line' = Tail(line) /\ UNCHANGED <<market, pairs, job>>
      /\ Fault /\ Fails(c)
    BY DEF ResolveFails, FetchFails
<1>3. FetchType'
    BY <1>1 DEF FetchType, ResolveFails, FetchFails
<1>4. faults' \in 0 .. MaxFaults
    BY <1>1, <1>2, RegistryAssumption DEF RowsType, Fault
<1>5. /\ requests' \in [Callers -> Request]
      /\ requests'[c].doing = "nothing"
      /\ \A d \in Callers \ {c} : requests'[d] = requests[d]
    BY <1>1, <1>2, FailsShape DEF RequestType
<1>6. LineType' /\ RequestType'
    BY <1>2, <1>5, LeavesLine
<1>7. QED
    BY <1>2, <1>3, <1>4, <1>5, <1>6, SamePairs

\* A request that goes on outside the line.
LEMMA OutsideLine ==
    ASSUME LineType, RequestType, NEW c \in Callers, UNCHANGED line,
           requests[c].doing # "resolve",
           requests' \in [Callers -> Request], requests'[c].doing # "resolve",
           \A d \in Callers \ {c} : requests'[d] = requests[d]
    PROVE  LineType' /\ RequestType'
BY DEF LineType, RequestType

\* The handler's SELECT keeps the inductive invariant.
LEMMA SelectStep ==
    ASSUME IInv, NEW c \in Callers, Select(c)
    PROVE  IInv'
<1> DEFINE what == IF requests[c].name \in DOMAIN pairs THEN "conflict" ELSE "insert"
<1>1. LineType /\ RequestType /\ FetchType /\ RowsType /\ job \in Job
    BY TypeParts DEF IInv
<1>2. /\ requests[c].doing = "select" /\ Goes(c, what)
      /\ UNCHANGED <<market, pairs, job, faults, provider>>
    BY DEF Select
<1>3. what \in {"select", "insert", "created", "conflict"}
    OBVIOUS
<1>4. /\ requests' \in [Callers -> Request]
      /\ requests'[c].doing = what /\ requests'[c].name = requests[c].name
      /\ \A d \in Callers \ {c} : requests'[d] = requests[d]
    BY <1>1, <1>2, <1>3, GoesShape DEF RequestType
<1>5. LineType' /\ RequestType'
    BY <1>1, <1>2, <1>4, OutsideLine DEF provider
<1>6. FetchType' /\ RowsType' /\ (job \in Job)'
    BY <1>1, <1>2 DEF FetchType, RowsType, provider
<1>7. SeenStands' /\ ActiveFitsVolume'
    BY <1>2 DEF IInv, SeenStands, ActiveFitsVolume
<1>8. AnswersHold'
    <2>1. requests'[c].doing \in {"created", "conflict"} => requests'[c].name \in DOMAIN pairs
        BY <1>4
    <2>2. QED
        BY <1>2, <1>4, <2>1 DEF IInv, AnswersHold
<1>9. QED
    BY <1>5, <1>6, <1>7, <1>8, TypeParts DEF IInv

\* The handler's INSERT, the unique key included, keeps the inductive
\* invariant.
LEMMA InsertStep ==
    ASSUME IInv, NEW c \in Callers, Insert(c)
    PROVE  IInv'
<1> DEFINE n == requests[c].name
           fresh == [active |-> TRUE, notional |-> Unknown]
<1>1. LineType /\ RequestType /\ FetchType /\ RowsType /\ job \in Job
    BY TypeParts DEF IInv
<1>2. /\ requests[c].doing = "insert"
      /\ UNCHANGED <<market, job, faults, provider>>
    BY DEF Insert
<1>3. CASE /\ n \notin DOMAIN pairs
           /\ pairs' = [m \in DOMAIN pairs \cup {n} |->
                 IF m = n THEN fresh ELSE pairs[m]]
           /\ Goes(c, "created")
    <2>1. /\ n \in Names
          /\ requests' \in [Callers -> Request]
          /\ requests'[c].doing = "created" /\ requests'[c].name = n
          /\ \A d \in Callers \ {c} : requests'[d] = requests[d]
        BY <1>1, <1>2, <1>3, GoesShape DEF RequestType
    <2>2. LineType' /\ RequestType'
        BY <1>1, <1>2, <2>1, OutsideLine DEF provider
    <2>3. DOMAIN pairs \subseteq Names /\ \A m \in DOMAIN pairs : pairs[m] \in Pair
        BY <1>1, TableShape DEF RowsType
    <2>4. fresh \in Pair /\ fresh.notional = Unknown /\ fresh.active
        BY DEF Pair
    <2>5. /\ DOMAIN pairs' = DOMAIN pairs \cup {n} /\ pairs'[n] = fresh
          /\ \A m \in DOMAIN pairs : pairs'[m] = pairs[m]
        BY <1>3
    <2>6. pairs' \in Table
        <3>1. \A m \in DOMAIN pairs \cup {n} :
                 (IF m = n THEN fresh ELSE pairs[m]) \in Pair
            BY <2>3, <2>4
        <3>2. pairs' \in [DOMAIN pairs \cup {n} -> Pair]
            BY <1>3, <3>1
        <3>3. QED
            BY <2>1, <2>3, <3>2 DEF Table
    <2>7. FetchType' /\ RowsType' /\ (job \in Job)'
        BY <1>1, <1>2, <2>6 DEF FetchType, RowsType, provider
    <2>8. SeenStands'
        BY <1>2, <2>5 DEF IInv, SeenStands
    <2>9. ActiveFitsVolume'
        <3>1. ~ (Unknown >= Activate)
            BY RegistryAssumption DEF Unknown
        <3>2. ASSUME NEW m \in DOMAIN pairs'
              PROVE  /\ pairs'[m].notional >= Activate => pairs'[m].active
                     /\ pairs'[m].notional # Unknown /\ pairs'[m].notional < Deactivate
                            => ~ pairs'[m].active
            <4>1. CASE m = n
                BY <2>4, <2>5, <3>1, <4>1
            <4>2. CASE m \in DOMAIN pairs
                BY <2>5, <4>2 DEF IInv, ActiveFitsVolume
            <4>3. QED
                BY <2>5, <4>1, <4>2
        <3>3. QED
            BY <3>2 DEF ActiveFitsVolume
    <2>10. AnswersHold'
        BY <2>1, <2>5 DEF IInv, AnswersHold
    <2>11. QED
        BY <2>2, <2>7, <2>8, <2>9, <2>10, TypeParts DEF IInv
<1>4. CASE Fails(c) /\ UNCHANGED pairs
    <2>1. /\ requests' \in [Callers -> Request]
          /\ requests'[c].doing = "nothing"
          /\ \A d \in Callers \ {c} : requests'[d] = requests[d]
        BY <1>1, <1>4, FailsShape DEF RequestType
    <2>2. LineType' /\ RequestType'
        BY <1>1, <1>2, <2>1, OutsideLine DEF provider
    <2>3. FetchType' /\ faults' \in 0 .. MaxFaults
        BY <1>1, <1>2 DEF FetchType, RowsType, provider
    <2>4. \A d \in Callers : requests'[d] = requests[d]
                \/ requests'[d].doing \notin {"created", "conflict"}
        BY <2>1
    <2>5. QED
        BY <1>2, <1>4, <2>2, <2>3, <2>4, SamePairs
<1>5. QED
    BY <1>3, <1>4 DEF Insert

-----------------------------------------------------------------------------
(* The job.                                                                *)

\* The rows that a run writes: those it read, those it creates, and the others
\* as they are.
Written(n) ==
    IF n \in DOMAIN job.seen THEN Updated(n)
    ELSE IF n \in ToCreate THEN [active |-> TRUE, notional |-> job.snapshot[n]]
    ELSE pairs[n]

FitsVolume(row) ==
    /\ row.notional >= Activate => row.active
    /\ row.notional # Unknown /\ row.notional < Deactivate => ~ row.active

\* A row that was read gets the volume of the snapshot, and the activity that
\* fits it, which is its own when its volume is not news.
LEMMA UpdatedRow ==
    ASSUME IInv, job.stage = "commit", NEW n \in DOMAIN job.seen
    PROVE  /\ Updated(n) \in Pair /\ FitsVolume(Updated(n))
           /\ pairs[n].notional = job.snapshot[n] => Updated(n) = pairs[n]
<1> DEFINE volume == job.snapshot[n]
           was == pairs[n].active
<1>1. RowsType /\ job \in Job
    BY TypeParts DEF IInv
<1>2. n \in DOMAIN job.snapshot /\ n \in DOMAIN pairs /\ pairs[n] = job.seen[n]
    BY DEF IInv, SeenStands
<1>3. volume \in Notionals
    BY <1>1, <1>2, JobShape, MarketShape
<1>4. volume \in Nat /\ Activate \in Nat /\ Deactivate \in Nat /\ Deactivate =< Activate
    BY <1>3, RegistryAssumption
<1>5. pairs[n] \in Pair
    BY <1>1, <1>2, TableShape DEF RowsType
<1>6. was \in BOOLEAN /\ pairs[n] = [active |-> was, notional |-> pairs[n].notional]
    BY <1>5 DEF Pair
<1>7. /\ Updated(n) = [active |-> IsActive(was, volume), notional |-> volume]
      /\ IsActive(was, volume) \in BOOLEAN
    <2>1. was = job.seen[n].active
        BY <1>2
    <2>2. IsActive(was, volume) \in BOOLEAN
        <3> DEFINE lasts == volume >= Deactivate
                   starts == volume >= Activate
        <3>1. lasts \in BOOLEAN /\ starts \in BOOLEAN
            OBVIOUS
        <3>2. IsActive(was, volume) = IF was THEN lasts ELSE starts
            BY Zenon DEF IsActive
        <3> HIDE DEF lasts, starts
        <3>3. QED
            BY <3>1, <3>2, Zenon
    <2>3. (IF IsActive(was, volume) # was THEN IsActive(was, volume) ELSE was)
             = IsActive(was, volume)
        BY <1>6, <2>2
    <2>4. Updated(n) = [active |-> IsActive(was, volume), notional |-> volume]
        BY <2>1, <2>3 DEF Updated
    <2>5. QED
        BY <2>2, <2>4
<1>8. Updated(n) \in Pair
    BY <1>3, <1>7 DEF Pair
<1>9. FitsVolume(Updated(n))
    <2>1. volume >= Activate => IsActive(was, volume)
        BY <1>4, <1>6 DEF IsActive
    <2>2. volume < Deactivate => ~ IsActive(was, volume)
        BY <1>4, <1>6 DEF IsActive
    <2>3. QED
        BY <1>7, <2>1, <2>2 DEF FitsVolume
<1>10. ASSUME pairs[n].notional = volume PROVE Updated(n) = pairs[n]
    <2>1. /\ volume >= Activate => was
          /\ volume < Deactivate => ~ was
        <3>1. volume # Unknown
            BY <1>4 DEF Unknown
        <3>2. QED
            BY <1>2, <1>10, <3>1 DEF IInv, ActiveFitsVolume
    <2>2. IsActive(was, volume) = was
        BY <1>4, <1>6, <2>1 DEF IsActive
    <2>3. QED
        BY <1>6, <1>7, <1>10, <2>2
<1>11. QED
    BY <1>8, <1>9, <1>10

\* The job's commit leaves every row as it wrote it, or as it found it.
LEMMA CommitShape ==
    ASSUME IInv, JobCommits
    PROVE  /\ DOMAIN pairs' = ToCreate \cup DOMAIN pairs
           /\ pairs' \in Table
           /\ \A n \in DOMAIN pairs' : pairs'[n] = Written(n) /\ FitsVolume(Written(n))
<1>1. RowsType /\ job \in Job /\ job.stage = "commit"
    BY TypeParts DEF IInv, JobCommits
<1>2. DOMAIN job.seen \subseteq DOMAIN pairs
    BY <1>1 DEF IInv, SeenStands
<1>3. /\ DOMAIN pairs' = ToCreate \cup DOMAIN pairs
      /\ \A n \in ToCreate \cup DOMAIN pairs : pairs'[n] = Written(n)
      /\ pairs' = [n \in ToCreate \cup DOMAIN pairs |-> Written(n)]
    BY DEF JobCommits, Written
<1>4. ToCreate \subseteq Names /\ \A n \in ToCreate : job.snapshot[n] \in Notionals
                                        /\ job.snapshot[n] >= Activate
    BY <1>1, JobShape, MarketShape DEF ToCreate
<1>5. ASSUME NEW n \in ToCreate \cup DOMAIN pairs
      PROVE  Written(n) \in Pair /\ FitsVolume(Written(n))
    <2>1. CASE n \in DOMAIN job.seen
        BY <1>1, <2>1, UpdatedRow DEF Written
    <2>2. CASE n \notin DOMAIN job.seen /\ n \in ToCreate
        <3>1. Written(n) = [active |-> TRUE, notional |-> job.snapshot[n]]
            BY <2>2 DEF Written
        <3> DEFINE volume == job.snapshot[n]
        <3>2. volume \in Notionals /\ volume >= Activate
            BY <1>4, <2>2
        <3>3. /\ volume \in Nat /\ Activate \in Nat /\ Deactivate \in Nat
              /\ Deactivate =< Activate
            BY <3>2, RegistryAssumption
        <3> HIDE DEF volume
        <3>4. ~ (volume < Deactivate)
            BY <3>2, <3>3
        <3>5. Written(n) = [active |-> TRUE, notional |-> volume]
            BY <3>1 DEF volume
        <3>6. QED
            BY <3>2, <3>4, <3>5 DEF Pair, FitsVolume
    <2>3. CASE n \notin DOMAIN job.seen /\ n \notin ToCreate
        <3>1. Written(n) = pairs[n] /\ n \in DOMAIN pairs
            BY <2>3 DEF Written
        <3>2. QED
            BY <1>1, <3>1, TableShape DEF RowsType, IInv, ActiveFitsVolume, FitsVolume
    <2>4. QED
        BY <2>1, <2>2, <2>3
<1>6. pairs' \in Table
    <2>1. DOMAIN pairs \subseteq Names
        BY <1>1, TableShape DEF RowsType
    <2>2. pairs' \in [ToCreate \cup DOMAIN pairs -> Pair]
        BY <1>3, <1>5
    <2>3. QED
        BY <1>4, <2>1, <2>2 DEF Table
<1>7. QED
    BY <1>3, <1>5, <1>6

\* The job's commit keeps the inductive invariant.
LEMMA CommitStep ==
    ASSUME IInv, JobCommits
    PROVE  IInv'
<1>1. LineType /\ RequestType /\ FetchType /\ RowsType
    BY TypeParts DEF IInv
<1>2. UNCHANGED <<market, requests, provider, faults>> /\ job' = Asleep
    BY DEF JobCommits, JobUnchanged
<1>3. /\ DOMAIN pairs' = ToCreate \cup DOMAIN pairs
      /\ pairs' \in Table
      /\ \A n \in DOMAIN pairs' : FitsVolume(pairs'[n])
    BY CommitShape
<1>4. (job \in Job)' /\ job'.stage = "asleep"
    BY <1>2 DEF Job, Asleep
<1>5. LineType' /\ RequestType' /\ FetchType' /\ RowsType'
    BY <1>1, <1>2, <1>3 DEF LineType, RequestType, FetchType, RowsType, provider
<1>6. SeenStands'
    BY <1>4 DEF SeenStands
<1>7. AnswersHold'
    BY <1>2, <1>3 DEF IInv, AnswersHold
<1>8. ActiveFitsVolume'
    BY <1>3 DEF ActiveFitsVolume, FitsVolume
<1>9. QED
    BY <1>4, <1>5, <1>6, <1>7, <1>8, TypeParts DEF IInv

\* A stage of the job that only reads.
LEMMA ReadingStep ==
    ASSUME IInv, UNCHANGED <<market, pairs, requests, provider>>,
           faults' \in 0 .. MaxFaults, job' \in Job, SeenStands'
    PROVE  IInv'
<1>1. LineType' /\ RequestType' /\ FetchType' /\ RowsType'
    BY TypeParts DEF IInv, LineType, RequestType, FetchType, RowsType, provider
<1>2. AnswersHold' /\ ActiveFitsVolume'
    BY DEF IInv, AnswersHold, ActiveFitsVolume
<1>3. QED
    BY <1>1, <1>2, TypeParts DEF IInv

\* Every step of the job keeps the inductive invariant.
LEMMA DiscoverStep ==
    ASSUME IInv, Discover
    PROVE  IInv'
<1>1. RowsType /\ job \in Job
    BY TypeParts DEF IInv
<1>2. market \in [Names -> Notionals \cup {Unlisted}] /\ faults \in 0 .. MaxFaults
    BY <1>1 DEF RowsType
<1>3. CASE JobStarts
    <2>1. job' = [stage |-> "listing"] /\ UNCHANGED <<market, pairs, requests, provider, faults>>
        BY <1>3 DEF JobStarts, JobUnchanged
    <2>2. job' \in Job /\ SeenStands'
        BY <2>1 DEF Job, SeenStands
    <2>3. QED
        BY <1>2, <2>1, <2>2, ReadingStep
<1>4. CASE JobLists
    <2>1. /\ job' = [stage |-> "ticker", names |-> Listed]
          /\ UNCHANGED <<market, pairs, requests, provider, faults>>
        BY <1>4 DEF JobLists, JobUnchanged
    <2>2. Listed \in SUBSET Names
        BY DEF Listed
    <2>3. job' \in Job /\ job'.stage = "ticker"
        BY <2>1, <2>2 DEF Job
    <2>4. QED
        BY <1>2, <2>1, <2>3, ReadingStep DEF SeenStands
<1>5. CASE JobTakesSnapshot
    <2> DEFINE snapshot == [n \in job.names \cap Listed |-> market[n]]
    <2>1. /\ job' = [stage |-> "select", snapshot |-> snapshot]
          /\ UNCHANGED <<market, pairs, requests, provider, faults>>
        BY <1>5 DEF JobTakesSnapshot, JobUnchanged
    <2>2. snapshot \in Market
        <3>1. job.names \cap Listed \in SUBSET Names
            BY DEF Listed
        <3>2. \A n \in job.names \cap Listed : market[n] \in Notionals
            BY <1>2 DEF Listed
        <3>3. snapshot \in [job.names \cap Listed -> Notionals]
            BY <3>2
        <3> HIDE DEF snapshot
        <3>4. QED
            BY <3>1, <3>3 DEF Market
    <2> HIDE DEF snapshot
    <2>3. job' \in Job /\ job'.stage = "select"
        BY <2>1, <2>2 DEF Job
    <2>4. QED
        BY <1>2, <2>1, <2>3, ReadingStep DEF SeenStands
<1>6. CASE JobSelects
    <2> DEFINE seen == [n \in DOMAIN pairs \cap DOMAIN job.snapshot |-> pairs[n]]
    <2>1. /\ job.stage = "select"
          /\ job' = [stage |-> "commit", snapshot |-> job.snapshot, seen |-> seen]
          /\ UNCHANGED <<market, pairs, requests, provider, faults>>
        BY <1>6 DEF JobSelects, JobUnchanged
    <2>2. job.snapshot \in Market
        BY <1>1, <2>1, JobShape
    <2>3. seen \in Table
        <3>1. DOMAIN pairs \subseteq Names /\ \A n \in DOMAIN pairs : pairs[n] \in Pair
            BY <1>1, TableShape DEF RowsType
        <3>2. seen \in [DOMAIN pairs \cap DOMAIN job.snapshot -> Pair]
            BY <3>1
        <3> HIDE DEF seen
        <3>3. QED
            BY <3>1, <3>2 DEF Table
    <2>4. \A n \in DOMAIN seen :
             n \in DOMAIN job.snapshot /\ n \in DOMAIN pairs /\ pairs[n] = seen[n]
        OBVIOUS
    <2> HIDE DEF seen
    <2>5. job' \in Job /\ job'.seen = seen /\ job'.snapshot = job.snapshot
        BY <2>1, <2>2, <2>3 DEF Job
    <2>6. SeenStands'
        BY <2>1, <2>4, <2>5 DEF SeenStands
    <2>7. QED
        BY <1>2, <2>1, <2>5, <2>6, ReadingStep
<1>7. CASE JobCommits
    BY <1>7, CommitStep
<1>8. CASE JobFails
    <2>1. job' = Asleep /\ UNCHANGED <<market, pairs, requests, provider>>
        BY <1>8 DEF JobFails, JobUnchanged
    <2>2. faults' \in 0 .. MaxFaults
        BY <1>2, <1>8, RegistryAssumption DEF JobFails, Fault
    <2>3. job' \in Job /\ job'.stage = "asleep"
        BY <2>1 DEF Job, Asleep
    <2>4. QED
        BY <2>1, <2>2, <2>3, ReadingStep DEF SeenStands
<1>9. QED
    BY <1>3, <1>4, <1>5, <1>6, <1>7, <1>8 DEF Discover

-----------------------------------------------------------------------------
\* Every step keeps the inductive invariant.
LEMMA InductiveStep == IInv /\ [Next]_vars => IInv'
<1> SUFFICES ASSUME IInv, [Next]_vars PROVE IInv'
    OBVIOUS
<1>1. CASE UNCHANGED vars
    <2>1. UNCHANGED <<market, pairs, requests, job, faults, line>>
          /\ UNCHANGED <<assetPairs, fetch, sinceRequest>>
        BY <1>1 DEF vars, provider
    <2>2. RowsType /\ FetchType
        BY TypeParts DEF IInv
    <2>3. QED
        BY <2>1, <2>2, SameRows DEF RowsType, FetchType
<1>2. CASE \E n \in Names : MarketMoves(n)
    BY <1>2, MarketStep
<1>3. CASE Fetch
    BY <1>3, FetchStep
<1>4. ASSUME NEW c \in Callers, Post(c) \/ Serve(c) \/ ResolveFails(c)
      PROVE  IInv'
    BY <1>4, PostStep, ResolveStep, ResolveFailsStep, SelectStep, InsertStep DEF Serve
<1>5. CASE Discover
    BY <1>5, DiscoverStep
<1>6. QED
    BY <1>1, <1>2, <1>3, <1>4, <1>5 DEF Next

\* The inductive invariant: the types, what the job has read still stands, and
\* the two properties of the table.
THEOREM Invariance == Spec => []IInv
BY InitOK, InductiveStep, PTL DEF Spec

\* The types of the registry and of the provider, and that the requests that
\* resolve their symbol are those in the line at the lock.
THEOREM TypeCorrect == Spec => []TypeOK
<1>1. IInv => TypeOK
    BY DEF IInv
<1>2. QED
    BY <1>1, Invariance, PTL

\* A request that was told that its pair was created or exists was told the
\* truth for good (api/routes/pairs.py:55-73).
THEOREM AnswersStand == Spec => []AnswersHold
<1>1. IInv => AnswersHold
    BY DEF IInv
<1>2. QED
    BY <1>1, Invariance, PTL

\* Activity and the last known volume never contradict the two floors
\* (workers/discovery.py:57-63).
THEOREM ActivityFits == Spec => []ActiveFitsVolume
<1>1. IInv => ActiveFitsVolume
    BY DEF IInv
<1>2. QED
    BY <1>1, Invariance, PTL

\* A job that finds every listed pair in the table changes nothing.
LEMMA ConvergesStep ==
    ASSUME IInv, JobCommits, \A n \in DOMAIN job.snapshot : Knows(n)
    PROVE  UNCHANGED pairs
<1>1. RowsType /\ job \in Job /\ job.stage = "commit"
    BY TypeParts DEF IInv, JobCommits
<1>2. \A n \in DOMAIN job.seen : n \in DOMAIN pairs /\ n \in DOMAIN job.snapshot
    BY <1>1 DEF IInv, SeenStands
<1>3. ToCreate = {}
    <2>1. ASSUME NEW n \in ToCreate PROVE FALSE
        <3>1. n \in DOMAIN job.snapshot /\ job.snapshot[n] >= Activate /\ n \notin DOMAIN pairs
            BY DEF JobCommits, ToCreate
        <3>2. job.snapshot[n] < Activate
            BY <3>1 DEF Knows
        <3>3. job.snapshot[n] \in Nat /\ Activate \in Nat
            BY <1>1, <3>1, JobShape, MarketShape, RegistryAssumption
        <3>4. QED
            BY <3>1, <3>2, <3>3
    <2>2. QED
        BY <2>1
<1>4. DOMAIN pairs' = DOMAIN pairs /\ \A n \in DOMAIN pairs' : pairs'[n] = Written(n)
    BY <1>3, CommitShape
<1>5. ASSUME NEW n \in DOMAIN pairs PROVE Written(n) = pairs[n]
    <2>1. CASE n \in DOMAIN job.seen
        <3>1. pairs[n].notional = job.snapshot[n]
            BY <1>2, <2>1 DEF Knows
        <3>2. QED
            BY <1>1, <2>1, <3>1, UpdatedRow DEF Written
    <2>2. CASE n \notin DOMAIN job.seen
        BY <1>3, <2>2 DEF Written
    <2>3. QED
        BY <2>1, <2>2
<1>6. QED
    <2>1. pairs \in Table /\ pairs' \in Table
        BY <1>1, CommitShape DEF RowsType
    <2>2. pairs = [n \in DOMAIN pairs |-> pairs[n]]
          /\ pairs' = [n \in DOMAIN pairs' |-> pairs'[n]]
        BY <2>1 DEF Table
    <2>3. QED
        BY <1>4, <1>5, <2>2

\* A run of the job over a market that the table knows changes nothing: "Re-
\* running against the same market data converges" (workers/discovery.py:5-6).
THEOREM Converging == Spec => Converges
<1>1. IInv /\ [Next]_vars =>
         [JobCommits /\ (\A n \in DOMAIN job.snapshot : Knows(n))
              => UNCHANGED pairs]_vars
    BY ConvergesStep
<1>2. QED
    BY <1>1, Invariance, PTL DEF Spec, Converges
=============================================================================
