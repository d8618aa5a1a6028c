--------------------------- MODULE BacktestProofs ---------------------------
(***************************************************************************)
(* What holds of a backtest for any rules, quotes and times: it finds what *)
(* the live engine recorded, and the prices that a z-score fetches are     *)
(* enough.                                                                 *)
(*                                                                         *)
(* First, what the operators of RuleMatching compute, for any rules and    *)
(* rows: the scan of a sorted bucket finds the rules that fire, whether a  *)
(* rule fires depends on no other rule and, if it looks back, on no later  *)
(* row, and the newest prices have the score of all.                       *)
(***************************************************************************)
EXTENDS Backtest, FiniteSetTheorems, SequenceTheorems, TLAPS

-----------------------------------------------------------------------------
(* The newest prices.                                                      *)

\* The community modules' Max, of one and a number.
LEMMA MaxOfTwo ==
    ASSUME NEW n \in Int
    PROVE  Max({1, n}) = IF n > 1 THEN n ELSE 1
BY DEF Max

\* The newest n rows of a sequence: how many they are, and which.
LEMMA NewestShape ==
    ASSUME NEW S, NEW s \in Seq(S), NEW n \in Nat
    PROVE  /\ Newest(s, n) \in Seq(S)
           /\ Len(Newest(s, n)) = IF n < Len(s) THEN n ELSE Len(s)
           /\ \A i \in 1 .. Len(Newest(s, n)) :
                 Newest(s, n)[i] = s[Len(s) - Len(Newest(s, n)) + i]
<1> DEFINE from == IF Len(s) - n > 0 THEN Len(s) - n + 1 ELSE 1
<1>0. Len(s) \in Nat /\ Len(s) - n + 1 \in Int
    OBVIOUS
<1>1. Newest(s, n) = SubSeq(s, from, Len(s))
    <2>1. Max({1, Len(s) - n + 1}) = from
        BY <1>0, MaxOfTwo
    <2>2. QED
        BY <2>1 DEF Newest
<1>2. from \in 1 .. Len(s) + 1 /\ Len(s) - from + 1 = (IF n < Len(s) THEN n ELSE Len(s))
    <2>1. \A l \in Nat : LET f == IF l - n > 0 THEN l - n + 1 ELSE 1
                         IN  f \in 1 .. l + 1 /\ l - f + 1 = (IF n < l THEN n ELSE l)
        OBVIOUS
    <2>2. QED
        BY <1>0, <2>1
<1> HIDE DEF from
<1>3. \A i \in from .. Len(s) : s[i] \in S
    BY <1>2
<1> DEFINE t == SubSeq(s, from, Len(s))
<1>4. /\ t \in Seq(S) /\ Len(t) = Len(s) - from + 1
      /\ \A i \in 1 .. Len(t) : t[i] = s[from + i - 1]
    BY <1>2, <1>3
<1> HIDE DEF t
<1>5. QED
    BY <1>1, <1>2, <1>4 DEF t

\* Levels, and the returns between them.
Levels(h) == [i \in DOMAIN h |-> h[i].level]

\* The returns of a series, its last one and the ones before it.
LEMMA ReturnsShape ==
    ASSUME NEW x \in Seq(Nat), Len(x) >= 2,
           NEW returns, returns = [i \in 1 .. Len(x) - 1 |-> x[i + 1] - x[i]]
    PROVE  /\ Last(returns) = x[Len(x)] - x[Len(x) - 1]
           /\ Front(returns) \in Seq(Int) /\ Len(Front(returns)) = Len(x) - 2
           /\ \A i \in 1 .. Len(x) - 2 : Front(returns)[i] = x[i + 1] - x[i]
<1> DEFINE n == Len(x)
<1>1. n \in Nat /\ n >= 2 /\ \A i \in 1 .. n : x[i] \in Nat
    OBVIOUS
<1> HIDE DEF n
<1>2. \A i \in 1 .. n - 1 : i + 1 \in 1 .. n /\ i \in 1 .. n
    BY <1>1
<1>3. returns = [i \in 1 .. n - 1 |-> x[i + 1] - x[i]]
    BY DEF n
<1>4. \A i \in 1 .. n - 1 : returns[i] = x[i + 1] - x[i] /\ returns[i] \in Int
    BY <1>1, <1>2, <1>3
<1>5. returns \in Seq(Int) /\ Len(returns) = n - 1
    <2>1. returns \in [1 .. n - 1 -> Int] /\ n - 1 \in Nat
        BY <1>1, <1>3, <1>4
    <2>2. QED
        BY <2>1
<1>6. Last(returns) = x[n] - x[n - 1]
    <2>1. n - 1 \in 1 .. n - 1 /\ (n - 1) + 1 = n
        BY <1>1
    <2>2. QED
        BY <1>4, <1>5, <2>1 DEF Last
<1>7. Front(returns) = SubSeq(returns, 1, n - 2)
    <2>1. (n - 1) - 1 = n - 2
        BY <1>1
    <2>2. QED
        BY <1>5, <2>1 DEF Front
<1>8. /\ Front(returns) \in Seq(Int) /\ Len(Front(returns)) = n - 2
      /\ \A i \in 1 .. n - 2 : Front(returns)[i] = returns[i]
    <2>1. \A i \in 1 .. n - 2 : returns[i] \in Int
        BY <1>1, <1>4
    <2>2. /\ SubSeq(returns, 1, n - 2) \in Seq(Int)
          /\ Len(SubSeq(returns, 1, n - 2)) = IF 1 <= n - 2 THEN n - 2 - 1 + 1 ELSE 0
          /\ \A i \in 1 .. n - 2 - 1 + 1 : SubSeq(returns, 1, n - 2)[i] = returns[1 + i - 1]
        BY <1>1, <2>1, SubSeqProperties
    <2>3. n - 2 - 1 + 1 = n - 2 /\ (~ (1 <= n - 2) => n - 2 = 0)
        BY <1>1
    <2>4. \A i \in 1 .. n - 2 : 1 + i - 1 = i
        OBVIOUS
    <2>5. QED
        BY <1>7, <2>2, <2>3, <2>4
<1>9. \A i \in 1 .. n - 2 : Front(returns)[i] = x[i + 1] - x[i]
    <2>1. \A i \in 1 .. n - 2 : i \in 1 .. n - 1
        BY <1>1
    <2>2. QED
        BY <1>4, <1>8, <2>1
<1>10. QED
    BY <1>6, <1>8, <1>9 DEF n

\* The score of n levels that are enough, by the levels themselves.
Baseline(x, n, k) == [i \in 1 .. k |-> x[(n - 2 - k + i) + 1] - x[n - 2 - k + i]]

\* The score of a series that is long enough, with its window written out.
LEMMA ScoreShape ==
    ASSUME NEW x \in Seq(Nat), NEW n \in Nat, Len(x) = n, n - 2 >= MinObservations,
           NEW k \in Nat, k = (IF Window < n - 2 THEN Window ELSE n - 2)
    PROVE  Score(x) = [return |-> x[n] - x[n - 1], baseline |-> Baseline(x, n, k)]
<1> DEFINE returns == [i \in 1 .. Len(x) - 1 |-> x[i + 1] - x[i]]
           b == Newest(Front(returns), Window)
<1>1. Window \in Nat /\ MinObservations \in Nat /\ n >= 2 /\ Len(x) >= 2
    BY MatchingAssumption
<1>2. /\ Last(returns) = x[n] - x[n - 1]
      /\ Front(returns) \in Seq(Int) /\ Len(Front(returns)) = n - 2
      /\ \A i \in 1 .. n - 2 : Front(returns)[i] = x[i + 1] - x[i]
    BY <1>1, ReturnsShape
<1>3. ~ (Len(x) - 2 < MinObservations)
    BY <1>1
<1>4. Score(x) = [return |-> Last(returns), baseline |-> b]
    BY <1>3 DEF Score
<1> HIDE DEF returns
<1>5. /\ b \in Seq(Int) /\ Len(b) = k
      /\ \A i \in 1 .. k : b[i] = Front(returns)[n - 2 - k + i]
    <2> DEFINE f == Front(returns)
    <2>1. f \in Seq(Int) /\ Len(f) = n - 2
        BY <1>2
    <2> HIDE DEF f
    <2>2. /\ Newest(f, Window) \in Seq(Int)
          /\ Len(Newest(f, Window)) = IF Window < Len(f) THEN Window ELSE Len(f)
          /\ \A i \in 1 .. Len(Newest(f, Window)) :
                Newest(f, Window)[i] = f[Len(f) - Len(Newest(f, Window)) + i]
        BY <1>1, <2>1, NewestShape
    <2>3. QED
        BY <2>1, <2>2 DEF f
<1> HIDE DEF b
<1>6. \A i \in 1 .. k : n - 2 - k + i \in 1 .. n - 2
    BY <1>1
<1>7. \A i \in 1 .. k : b[i] = x[(n - 2 - k + i) + 1] - x[n - 2 - k + i]
    BY <1>2, <1>5, <1>6
<1>8. b = Baseline(x, n, k)
    BY <1>5, <1>7 DEF Baseline
<1>9. QED
    BY <1>2, <1>4, <1>8

\* The newest levels are the end of all levels.
LEMMA RecentShape ==
    ASSUME NEW h \in Seq(Row), NEW m \in Nat, m = Len(h),
           NEW n \in Nat, n = IF Window + 2 < m THEN Window + 2 ELSE m
    PROVE  /\ Levels(h) \in Seq(Nat) /\ Len(Levels(h)) = m
           /\ RecentLevels(h) \in Seq(Nat) /\ Len(RecentLevels(h)) = n
           /\ \A i \in 1 .. n : RecentLevels(h)[i] = Levels(h)[m - n + i]
<1> DEFINE rows == Newest(h, Window + 2)
<1>1. Window + 2 \in Nat
    BY MatchingAssumption
<1>2. /\ rows \in Seq(Row) /\ Len(rows) = n
      /\ \A i \in 1 .. n : rows[i] = h[m - n + i]
    BY <1>1, NewestShape
<1>3. \A t \in Seq(Row) :
         /\ [i \in DOMAIN t |-> t[i].level] \in Seq(Nat)
         /\ Len([i \in DOMAIN t |-> t[i].level]) = Len(t)
         /\ \A i \in 1 .. Len(t) : [j \in DOMAIN t |-> t[j].level][i] = t[i].level
    <2>1. ASSUME NEW t \in Seq(Row)
          PROVE  DOMAIN t = 1 .. Len(t) /\ Len(t) \in Nat
                 /\ \A i \in 1 .. Len(t) : t[i].level \in Nat
        <3>1. \A i \in 1 .. Len(t) : t[i] \in Row
            OBVIOUS
        <3>2. \A row \in Row : row.level \in Nat
            BY DEF Row
        <3>3. QED
            BY <3>1, <3>2
    <2>2. ASSUME NEW t \in Seq(Row), NEW l, l = [i \in DOMAIN t |-> t[i].level]
          PROVE  l \in Seq(Nat) /\ Len(l) = Len(t) /\ \A i \in 1 .. Len(t) : l[i] = t[i].level
        <3>1. l \in [1 .. Len(t) -> Nat] /\ Len(t) \in Nat
            BY <2>1, <2>2
        <3>2. QED
            BY <2>1, <2>2, <3>1
    <2>3. QED
        BY <2>2
<1> HIDE DEF rows
<1>4. /\ Levels(h) \in Seq(Nat) /\ Len(Levels(h)) = m
      /\ \A i \in 1 .. m : Levels(h)[i] = h[i].level
    BY <1>3 DEF Levels
<1>5. /\ RecentLevels(h) \in Seq(Nat) /\ Len(RecentLevels(h)) = n
      /\ \A i \in 1 .. n : RecentLevels(h)[i] = rows[i].level
    BY <1>2, <1>3 DEF RecentLevels, rows
<1>6. \A i \in 1 .. n : m - n + i \in 1 .. m
    BY <1>1
<1>7. QED
    BY <1>2, <1>4, <1>5, <1>6

\* A window's worth of newest observations scores as the whole history does.
LEMMA SameScore ==
    ASSUME MinObservations <= Window, NEW m \in Nat, NEW n \in Nat,
           n = (IF Window + 2 < m THEN Window + 2 ELSE m),
           NEW x \in Seq(Nat), Len(x) = m, NEW y \in Seq(Nat), Len(y) = n,
           \A i \in 1 .. n : y[i] = x[m - n + i]
    PROVE  Score(y) = Score(x)
<1>1. Window \in Nat /\ MinObservations \in Nat \ {0} /\ n <= m
    BY MatchingAssumption
<1>2. CASE m - 2 < MinObservations
    <2>1. Len(x) - 2 < MinObservations /\ Len(y) - 2 < MinObservations
        BY <1>1, <1>2
    <2>2. \A z : Len(z) - 2 < MinObservations => Score(z) = [return |-> 0, baseline |-> <<>>]
        BY DEF Score
    <2>3. QED
        BY <2>1, <2>2
<1>3. CASE m - 2 >= MinObservations
    <2>1. n - 2 >= MinObservations /\ n >= 2
        BY <1>1, <1>3
    <2>2. PICK k \in Nat : k = (IF Window < n - 2 THEN Window ELSE n - 2)
        BY <1>1, <2>1
    <2>3. k <= n - 2 /\ k = (IF Window < m - 2 THEN Window ELSE m - 2)
        BY <1>1, <2>1, <2>2
    <2>4. Score(x) = [return |-> x[m] - x[m - 1], baseline |-> Baseline(x, m, k)]
        BY <1>3, <2>3, ScoreShape
    <2>5. Score(y) = [return |-> y[n] - y[n - 1], baseline |-> Baseline(y, n, k)]
        BY <2>1, <2>2, ScoreShape
    <2>6. y[n] = x[m] /\ y[n - 1] = x[m - 1]
        <3>1. n \in 1 .. n /\ n - 1 \in 1 .. n /\ m - n + n = m /\ m - n + (n - 1) = m - 1
            BY <1>1, <2>1
        <3>2. QED
            BY <3>1
    <2>7. ASSUME NEW i \in 1 .. k
          PROVE  x[(m - 2 - k + i) + 1] - x[m - 2 - k + i]
                    = y[(n - 2 - k + i) + 1] - y[n - 2 - k + i]
        <3>1. /\ (n - 2 - k + i) + 1 \in 1 .. n /\ n - 2 - k + i \in 1 .. n
              /\ m - n + ((n - 2 - k + i) + 1) = (m - 2 - k + i) + 1
              /\ m - n + (n - 2 - k + i) = m - 2 - k + i
            BY <1>1, <2>1, <2>3
        <3>2. /\ y[(n - 2 - k + i) + 1] = x[(m - 2 - k + i) + 1]
              /\ y[n - 2 - k + i] = x[m - 2 - k + i]
            BY <3>1
        <3>3. QED
            BY <3>2
    <2>8. Baseline(x, m, k) = Baseline(y, n, k)
        BY <2>7 DEF Baseline
    <2>9. QED
        BY <2>4, <2>5, <2>6, <2>8
<1>4. QED
    BY <1>1, <1>2, <1>3

\* The score of the newest Window + 2 levels is that of all of them.
LEMMA ScoreOfNewest ==
    ASSUME MinObservations <= Window, NEW h \in Seq(Row)
    PROVE  Score(RecentLevels(h)) = Score(Levels(h))
<1>1. PICK m \in Nat : m = Len(h)
    OBVIOUS
<1>2. PICK n \in Nat : n = (IF Window + 2 < m THEN Window + 2 ELSE m)
    BY MatchingAssumption
<1>3. /\ Levels(h) \in Seq(Nat) /\ Len(Levels(h)) = m
      /\ RecentLevels(h) \in Seq(Nat) /\ Len(RecentLevels(h)) = n
      /\ \A i \in 1 .. n : RecentLevels(h)[i] = Levels(h)[m - n + i]
    BY <1>1, <1>2, RecentShape
<1>4. QED
    BY <1>2, <1>3, SameScore

-----------------------------------------------------------------------------
(* Sequences of a finite set.                                              *)

\* A set within another that has one more element has fewer elements.
LEMMA FewerBefore ==
    ASSUME NEW D, IsFiniteSet(D), NEW S \in SUBSET D, NEW T \in SUBSET D,
           S \subseteq T, NEW e \in T, e \notin S
    PROVE  /\ Cardinality(S) \in Nat /\ Cardinality(T) \in Nat
           /\ Cardinality(S) < Cardinality(T)
<1>1. IsFiniteSet(S) /\ IsFiniteSet(T)
    BY FS_Subset
<1>2. Cardinality(S) \in Nat /\ Cardinality(T) \in Nat
    BY <1>1, FS_CardinalityType
<1>3. /\ Cardinality(S) <= Cardinality(T)
      /\ Cardinality(S) = Cardinality(T) => S = T
    BY <1>1, FS_Subset
<1>4. S # T
    OBVIOUS
<1>5. QED
    BY <1>2, <1>3, <1>4

StrictOrder(D, B) ==
    /\ \A x, y \in D : x # y => <<x, y>> \in B \/ <<y, x>> \in B
    /\ \A x \in D : <<x, x>> \notin B
    /\ \A x, y, z \in D : <<x, y>> \in B /\ <<y, z>> \in B => <<x, z>> \in B

\* A finite set has a sequence by any strict total order: each element goes
\* where the number of those before it says.
LEMMA SequenceExists ==
    ASSUME NEW D, IsFiniteSet(D), NEW n, n = Cardinality(D),
           NEW B, StrictOrder(D, B)
    PROVE  \E s \in [1 .. n -> D] :
              /\ \A x \in D : \E i \in 1 .. n : s[i] = x
              /\ \A j \in 1 .. n : \A i \in 1 .. j - 1 : <<s[j], s[i]>> \notin B
<1> DEFINE Under(x) == {y \in D : <<y, x>> \in B}
           rank == [x \in D |-> Cardinality(Under(x)) + 1]
<1>1. n \in Nat /\ IsFiniteSet(1 .. n) /\ Cardinality(1 .. n) = n
    BY FS_CardinalityType, FS_Interval
<1>2. ASSUME NEW x \in D PROVE Cardinality(Under(x)) \in Nat /\ Cardinality(Under(x)) < n
    <2>1. Under(x) \subseteq D /\ x \notin Under(x)
        BY DEF StrictOrder
    <2> HIDE DEF Under
    <2>2. QED
        BY <2>1, FewerBefore
<1>3. ASSUME NEW x \in D, NEW y \in D, <<x, y>> \in B
      PROVE  Cardinality(Under(x)) < Cardinality(Under(y))
    <2>1. /\ Under(x) \subseteq D /\ Under(y) \subseteq D /\ Under(x) \subseteq Under(y)
          /\ x \in Under(y) /\ x \notin Under(x)
        BY <1>3 DEF StrictOrder
    <2> HIDE DEF Under
    <2>2. QED
        BY <2>1, FewerBefore
<1>4. \A x \in D : rank[x] = Cardinality(Under(x)) + 1
    OBVIOUS
<1> HIDE DEF Under
<1>5. rank \in [D -> 1 .. n]
    <2>1. ASSUME NEW x \in D PROVE Cardinality(Under(x)) + 1 \in 1 .. n
        BY <1>1, <1>2
    <2>2. QED
        BY <2>1
<1>6. ASSUME NEW x \in D, NEW y \in D, <<x, y>> \in B PROVE rank[x] < rank[y]
    <2>1. Cardinality(Under(x)) < Cardinality(Under(y))
        BY <1>3, <1>6
    <2>2. Cardinality(Under(x)) \in Nat /\ Cardinality(Under(y)) \in Nat
        BY <1>2
    <2>3. QED
        BY <1>4, <2>1, <2>2
<1> HIDE DEF rank
<1>7. ASSUME NEW x \in D, NEW y \in D, rank[x] = rank[y] PROVE x = y
    <2>1. rank[x] \in Int /\ rank[y] \in Int
        BY <1>1, <1>5
    <2>2. ~ (rank[x] < rank[y]) /\ ~ (rank[y] < rank[x])
        BY <1>7, <2>1
    <2>3. <<x, y>> \notin B /\ <<y, x>> \notin B
        BY <1>6, <2>2
    <2>4. QED
        BY <2>3 DEF StrictOrder
<1>8. rank \in Injection(D, 1 .. n)
    BY <1>5, <1>7 DEF Injection, IsInjective
<1>9. rank \in Surjection(D, 1 .. n)
    BY <1>1, <1>8, FS_Injection
<1>10. \A v \in 1 .. n : \E x \in D : rank[x] = v
    BY <1>9 DEF Surjection
<1> DEFINE s == [v \in 1 .. n |-> CHOOSE x \in D : rank[x] = v]
<1>11. s \in [1 .. n -> D] /\ \A v \in 1 .. n : rank[s[v]] = v
    BY <1>10
<1> HIDE DEF s
<1>12. \A x \in D : \E i \in 1 .. n : s[i] = x
    <2>1. ASSUME NEW x \in D PROVE s[rank[x]] = x /\ rank[x] \in 1 .. n
        BY <1>5, <1>7, <1>11
    <2>2. QED
        BY <2>1
<1>13. ASSUME NEW j \in 1 .. n, NEW i \in 1 .. j - 1 PROVE <<s[j], s[i]>> \notin B
    <2>1. i \in 1 .. n /\ i < j
        BY <1>1
    <2>2. rank[s[i]] = i /\ rank[s[j]] = j /\ s[i] \in D /\ s[j] \in D
        BY <1>11, <2>1
    <2>3. ~ (rank[s[j]] < rank[s[i]])
        BY <2>1, <2>2
    <2>4. QED
        BY <1>6, <2>2, <2>3
<1>14. QED
    BY <1>11, <1>12, <1>13

\* Whatever the keys of a finite set, some sequence of it sorts them: of equals
\* the first of some enumeration comes first.
LEMMA SortExists ==
    ASSUME NEW D, IsFiniteSet(D), NEW key \in [D -> Int]
    PROVE  \E s \in [1 .. Cardinality(D) -> D] :
              /\ \A x \in D : \E i \in 1 .. Cardinality(D) : s[i] = x
              /\ \A j \in 1 .. Cardinality(D) : \A i \in 1 .. j - 1 : key[s[i]] <= key[s[j]]
<1>1. PICK n : n = Cardinality(D) /\ n \in Nat /\ ExistsBijection(1 .. n, D)
    BY FS_CardinalityType
<1>2. PICK g \in [1 .. n -> D] : \A x \in D : \E i \in 1 .. n : g[i] = x
    BY <1>1 DEF ExistsBijection, Bijection, Surjection
<1> DEFINE place == [x \in D |-> CHOOSE i \in 1 .. n : g[i] = x]
<1>3. place \in [D -> 1 .. n] /\ \A x \in D : g[place[x]] = x
    BY <1>2
<1> HIDE DEF place
<1>4. \A x \in D : key[x] \in Int /\ place[x] \in Int
    BY <1>3
<1>5. \A x, y \in D : place[x] = place[y] => x = y
    BY <1>3
<1> DEFINE B == {p \in D \X D : \/ key[p[1]] < key[p[2]]
                                \/ key[p[1]] = key[p[2]] /\ place[p[1]] < place[p[2]]}
<1>6. \A x, y \in D : <<x, y>> \in B <=> \/ key[x] < key[y]
                                         \/ key[x] = key[y] /\ place[x] < place[y]
    OBVIOUS
<1> HIDE DEF B
<1>7. StrictOrder(D, B)
    BY <1>4, <1>5, <1>6 DEF StrictOrder
<1>10. PICK s \in [1 .. n -> D] :
          /\ \A x \in D : \E i \in 1 .. n : s[i] = x
          /\ \A j \in 1 .. n : \A i \in 1 .. j - 1 : <<s[j], s[i]>> \notin B
    <2>1. n = Cardinality(D)
        BY <1>1
    <2>2. QED
        BY <1>7, <2>1, SequenceExists
<1>11. ASSUME NEW j \in 1 .. n, NEW i \in 1 .. j - 1 PROVE key[s[i]] <= key[s[j]]
    <2>1. i \in 1 .. n /\ s[i] \in D /\ s[j] \in D
        <3>1. i \in 1 .. n
            BY <1>1
        <3>2. QED
            BY <3>1
    <2>2. ~ (key[s[j]] < key[s[i]])
        BY <1>6, <1>10, <2>1
    <2>3. QED
        BY <1>4, <2>1, <2>2
<1>12. QED
    BY <1>1, <1>10, <1>11

-----------------------------------------------------------------------------
(* The sorted buckets.                                                     *)

\* A sorted bucket has every rule, in the order of the keys.
LEMMA SortedShape ==
    ASSUME NEW S, IsFiniteSet(S), NEW key \in [S -> Int], NEW s, s = Sorted(key)
    PROVE  /\ DOMAIN s = 1 .. Cardinality(S) /\ Cardinality(S) \in Nat
           /\ \A i \in DOMAIN s : s[i] \in S
           /\ \A r \in S : \E i \in DOMAIN s : s[i] = r
           /\ \A j \in DOMAIN s : \A i \in 1 .. j - 1 : key[s[i]] <= key[s[j]]
<1> DEFINE n == Cardinality(S)
<1>1. n \in Nat
    BY FS_CardinalityType
<1>2. PICK t \in [1 .. n -> S] :
         /\ \A r \in S : \E i \in 1 .. n : t[i] = r
         /\ \A j \in 1 .. n : \A i \in 1 .. j - 1 : key[t[i]] <= key[t[j]]
    BY SortExists
<1> HIDE DEF n
<1>3. Range(t) = S
    BY <1>2 DEF Range
<1>4. DOMAIN key = S
    OBVIOUS
<1>5. /\ s \in [1 .. n -> S] /\ Range(s) = S
      /\ \A j \in DOMAIN s : \A i \in 1 .. j - 1 : key[s[i]] <= key[s[j]]
    BY <1>2, <1>3, <1>4 DEF Sorted, n
<1>6. QED
    BY <1>1, <1>5 DEF Range, n

-----------------------------------------------------------------------------
(* Which rules fire.                                                       *)

\* Whether a rule fires that is not a z-score rule.
Fires(r, seen, h) ==
    \/ ThresholdFires(r, seen.last)
    \/ r.type = "percent_change" /\ PercentFires(r, seen, h)
    \/ r.type = "spread_widen" /\ SpreadFires(r, seen)

\* A rule that looks at no later row than the one it is evaluated for.
LooksBack(r) ==
    /\ r.type # "zscore_move"
    /\ r.type = "percent_change" => r.window >= 0

\* The scan of absolute_below rules from the highest threshold down stops
\* where the rules that fire end.
LEMMA ScanBelow ==
    ASSUME NEW S, IsFiniteSet(S), NEW price \in Int,
           \A r \in S : r.limit \in Int /\ r.type = "absolute_below"
    PROVE  Scan(Sorted(Descending(S)), price) = {r \in S : ThresholdFires(r, price)}
<1> DEFINE key == Descending(S)
<1>0. key \in [S -> Int] /\ \A r, t \in S : key[r] <= key[t] => r.limit >= t.limit
    BY DEF Descending
<1> HIDE DEF key
<1>1. PICK s : s = Sorted(key)
    OBVIOUS
<1>2. /\ DOMAIN s = 1 .. Cardinality(S) /\ Cardinality(S) \in Nat
      /\ \A i \in DOMAIN s : s[i] \in S
      /\ \A r \in S : \E i \in DOMAIN s : s[i] = r
      /\ \A j \in DOMAIN s : \A i \in 1 .. j - 1 : s[i].limit >= s[j].limit
    <2>1. /\ DOMAIN s = 1 .. Cardinality(S) /\ Cardinality(S) \in Nat
          /\ \A i \in DOMAIN s : s[i] \in S
          /\ \A r \in S : \E i \in DOMAIN s : s[i] = r
          /\ \A j \in DOMAIN s : \A i \in 1 .. j - 1 : key[s[i]] <= key[s[j]]
        BY <1>0, <1>1, SortedShape
    <2>2. \A j \in DOMAIN s : \A i \in 1 .. j - 1 : i \in DOMAIN s
        BY <2>1
    <2>3. QED
        BY <1>0, <2>1, <2>2
<1>3. \A r \in S : ThresholdFires(r, price) <=> price < r.limit
    BY DEF ThresholdFires
<1>4. ASSUME NEW k \in DOMAIN s, ThresholdFires(s[k], price), NEW j \in 1 .. k
      PROVE  ThresholdFires(s[j], price)
    <2>1. j \in DOMAIN s /\ (j = k \/ j \in 1 .. k - 1)
        BY <1>2
    <2>2. s[j].limit \in Int /\ s[k].limit \in Int /\ (j = k \/ s[j].limit >= s[k].limit)
        BY <1>2, <2>1
    <2>3. price < s[k].limit
        BY <1>2, <1>3, <1>4
    <2>4. price < s[j].limit
        BY <2>2, <2>3
    <2>5. QED
        BY <1>2, <1>3, <2>1, <2>4
<1>5. \A k \in DOMAIN s : k \in 1 .. k
    BY <1>2
<1>6. QED
    BY <1>1, <1>2, <1>4, <1>5 DEF Scan, key

\* The scan of absolute_above rules from the lowest threshold up stops where
\* the rules that fire end.
LEMMA ScanAbove ==
    ASSUME NEW S, IsFiniteSet(S), NEW price \in Int,
           \A r \in S : r.limit \in Int /\ r.type = "absolute_above"
    PROVE  Scan(Sorted(Ascending(S)), price) = {r \in S : ThresholdFires(r, price)}
<1> DEFINE key == Ascending(S)
<1>0. key \in [S -> Int] /\ \A r, t \in S : key[r] <= key[t] => r.limit <= t.limit
    BY DEF Ascending
<1> HIDE DEF key
<1>1. PICK s : s = Sorted(key)
    OBVIOUS
<1>2. /\ DOMAIN s = 1 .. Cardinality(S) /\ Cardinality(S) \in Nat
      /\ \A i \in DOMAIN s : s[i] \in S
      /\ \A r \in S : \E i \in DOMAIN s : s[i] = r
      /\ \A j \in DOMAIN s : \A i \in 1 .. j - 1 : s[i].limit <= s[j].limit
    <2>1. /\ DOMAIN s = 1 .. Cardinality(S) /\ Cardinality(S) \in Nat
          /\ \A i \in DOMAIN s : s[i] \in S
          /\ \A r \in S : \E i \in DOMAIN s : s[i] = r
          /\ \A j \in DOMAIN s : \A i \in 1 .. j - 1 : key[s[i]] <= key[s[j]]
        BY <1>0, <1>1, SortedShape
    <2>2. \A j \in DOMAIN s : \A i \in 1 .. j - 1 : i \in DOMAIN s
        BY <2>1
    <2>3. QED
        BY <1>0, <2>1, <2>2
<1>3. \A r \in S : ThresholdFires(r, price) <=> price > r.limit
    BY DEF ThresholdFires
<1>4. ASSUME NEW k \in DOMAIN s, ThresholdFires(s[k], price), NEW j \in 1 .. k
      PROVE  ThresholdFires(s[j], price)
    <2>1. j \in DOMAIN s /\ (j = k \/ j \in 1 .. k - 1)
        BY <1>2
    <2>2. s[j].limit \in Int /\ s[k].limit \in Int /\ (j = k \/ s[j].limit <= s[k].limit)
        BY <1>2, <2>1
    <2>3. price > s[k].limit
        BY <1>2, <1>3, <1>4
    <2>4. price > s[j].limit
        BY <2>2, <2>3
    <2>5. QED
        BY <1>2, <1>3, <2>1, <2>4
<1>5. \A k \in DOMAIN s : k \in 1 .. k
    BY <1>2
<1>6. QED
    BY <1>1, <1>2, <1>4, <1>5 DEF Scan, key

\* Whether a rule is a candidate depends on no other rule of its bucket.
LEMMA CandidateOf ==
    ASSUME NEW S \in SUBSET Rule, IsFiniteSet(S), NEW seen, seen.last \in Int, NEW h,
           NEW r \in S, r.type # "zscore_move"
    PROVE  r \in Candidates(PairRules(S), seen, h) <=> Fires(r, seen, h)
<1> DEFINE below == OfType(S, "absolute_below")
           above == OfType(S, "absolute_above")
           price == seen.last
<1>1. \A t \in S : t.limit \in Int /\ t.type \in Types
    BY DEF Rule
<1>2. IsFiniteSet(below) /\ \A t \in below : t.limit \in Int /\ t.type = "absolute_below"
    BY <1>1, FS_Subset DEF OfType
<1>3. IsFiniteSet(above) /\ \A t \in above : t.limit \in Int /\ t.type = "absolute_above"
    BY <1>1, FS_Subset DEF OfType
<1>4. \A t \in S : /\ t \in below <=> t.type = "absolute_below"
                   /\ t \in above <=> t.type = "absolute_above"
    BY DEF OfType
<1> HIDE DEF below, above, price
<1>5. price \in Int
    BY DEF price
<1>6. Scan(Sorted(Descending(below)), price) = {t \in below : ThresholdFires(t, price)}
    BY <1>2, <1>5, ScanBelow
<1>7. Scan(Sorted(Ascending(above)), price) = {t \in above : ThresholdFires(t, price)}
    BY <1>3, <1>5, ScanAbove
<1> DEFINE rules == PairRules(S)
<1>8. /\ rules.absolute_below = Sorted(Descending(below))
      /\ rules.absolute_above = Sorted(Ascending(above))
      /\ rules.zscore_move = OfType(S, "zscore_move")
      /\ rules.percent_change = OfType(S, "percent_change")
      /\ rules.spread_widen = OfType(S, "spread_widen")
    BY DEF PairRules, below, above
<1> HIDE DEF rules
<1>9. r \in Candidates(rules, seen, h) <=>
         \/ r \in Scan(rules.absolute_below, price)
         \/ r \in Scan(rules.absolute_above, price)
         \/ r \in rules.zscore_move /\ ZScoreFires(r, Score(RecentLevels(h)))
         \/ r \in rules.percent_change /\ PercentFires(r, seen, h)
         \/ r \in rules.spread_widen /\ SpreadFires(r, seen)
    BY DEF Candidates, price
<1>10. \A type : r \in OfType(S, type) <=> r.type = type
    BY DEF OfType
<1>11. r.type \in {"absolute_below", "absolute_above", "zscore_move",
                   "percent_change", "spread_widen"}
    BY <1>1 DEF Types
<1>12. ThresholdFires(r, price) => r.type \in {"absolute_below", "absolute_above"}
    BY DEF ThresholdFires
<1>13. r \in Candidates(rules, seen, h) <=> Fires(r, seen, h)
    BY <1>4, <1>6, <1>7, <1>8, <1>9, <1>10, <1>12 DEF Fires, price
<1>14. QED
    BY <1>13 DEF rules

\* A finite set of numbers has its maximum: the last of its sequence.
LEMMA MaxOf ==
    ASSUME NEW D \in SUBSET Int, IsFiniteSet(D), D # {}
    PROVE  Max(D) \in D
<1> DEFINE n == Cardinality(D)
           key == [x \in D |-> x]
<1>1. n \in Nat /\ n # 0
    BY FS_CardinalityType, FS_EmptySet
<1>2. key \in [D -> Int] /\ \A x \in D : key[x] = x
    OBVIOUS
<1> HIDE DEF n, key
<1>3. PICK s \in [1 .. n -> D] :
         /\ \A x \in D : \E i \in 1 .. n : s[i] = x
         /\ \A j \in 1 .. n : \A i \in 1 .. j - 1 : key[s[i]] <= key[s[j]]
    BY <1>2, SortExists DEF n
<1>4. n \in 1 .. n /\ s[n] \in D
    BY <1>1
<1>5. ASSUME NEW y \in D PROVE s[n] >= y
    <2>1. PICK i \in 1 .. n : s[i] = y
        BY <1>3
    <2>2. i = n \/ i \in 1 .. n - 1
        BY <1>1
    <2>3. CASE i \in 1 .. n - 1
        <3>1. key[s[i]] <= key[s[n]]
            BY <1>3, <1>4, <2>3
        <3>2. QED
            BY <1>2, <1>4, <2>1, <3>1
    <2>4. QED
        BY <1>4, <2>1, <2>2, <2>3
<1>6. QED
    BY <1>4, <1>5 DEF Max

\* A rule that looks back and fires for an observation fires for it whatever
\* comes later.
LEMMA FiresStays ==
    ASSUME NEW h, NEW g, NEW n \in Nat, NEW m \in Nat, Len(h) = n, Len(g) = m, n <= m,
           \A k \in 1 .. n : g[k] = h[k],
           \A k \in 1 .. m : g[k].at \in Nat,
           NEW i \in 1 .. n, \A j \in i + 1 .. m : g[i].at < g[j].at,
           NEW seen, seen.at = h[i].at, NEW r \in Rule, LooksBack(r)
    PROVE  Fires(r, seen, g) <=> Fires(r, seen, h)
<1>0. CASE r.type # "percent_change"
    BY <1>0 DEF Fires
<1> SUFFICES ASSUME r.type = "percent_change" PROVE Fires(r, seen, g) <=> Fires(r, seen, h)
    BY <1>0
<1> DEFINE cutoff == seen.at - r.window
           early(s) == {k \in 1 .. Len(s) : s[k].at <= cutoff}
<1>1. r.window \in Int /\ r.window >= 0
    BY DEF Rule, LooksBack
<1>2. i \in 1 .. m /\ seen.at = g[i].at /\ seen.at \in Nat
    OBVIOUS
<1>3. cutoff \in Int /\ cutoff <= seen.at
    BY <1>1, <1>2
<1>4. ASSUME NEW k \in 1 .. m, g[k].at <= cutoff PROVE k \in 1 .. n
    <2>1. g[k].at \in Nat /\ g[k].at <= seen.at
        BY <1>2, <1>3, <1>4
    <2>2. k \notin i + 1 .. m
        BY <1>2, <2>1
    <2>3. QED
        BY <2>2
<1>5. early(g) = early(h)
    <2>1. ASSUME NEW k PROVE k \in early(g) <=> k \in early(h)
        <3>1. k \in 1 .. n => k \in 1 .. m
            OBVIOUS
        <3>2. QED
            BY <1>4, <3>1
    <2>2. QED
        BY <2>1
<1>6. \A s : RowAsOf(s, cutoff) = IF early(s) # {} THEN Max(early(s)) ELSE 0
    BY DEF RowAsOf, SelectLastInSeq
<1>7. PICK past : past = RowAsOf(h, cutoff) /\ past = RowAsOf(g, cutoff)
    BY <1>5, <1>6
<1>8. past # 0 => past \in 1 .. n
    <2>1. IsFiniteSet(1 .. n)
        BY FS_Interval
    <2>2. early(h) \in SUBSET (1 .. n) /\ early(h) \subseteq Int
        OBVIOUS
    <2> HIDE DEF early
    <2>3. IsFiniteSet(early(h))
        BY <2>1, <2>2, FS_Subset
    <2>4. early(h) # {} => Max(early(h)) \in early(h)
        BY <2>2, <2>3, MaxOf
    <2>5. QED
        BY <1>6, <1>7, <2>2, <2>4
<1>9. past # 0 => g[past] = h[past]
    BY <1>8
<1>10. PercentFires(r, seen, g) <=> PercentFires(r, seen, h)
    BY <1>7, <1>9 DEF PercentFires
<1>11. QED
    BY <1>10 DEF Fires

-----------------------------------------------------------------------------
(* What is stored.                                                         *)

\* Quotients and products of numbers.
LEMMA Quotient == ASSUME NEW a \in Nat, NEW b \in Nat \ {0} PROVE a \div b \in Nat
OBVIOUS
LEMMA Product == ASSUME NEW a \in Nat, NEW b \in Nat PROVE a * b \in Nat
OBVIOUS

\* Rounding keeps a number a number.
LEMMA RoundType ==
    ASSUME NEW x \in Int PROVE Round(x) \in Int /\ (x \in Nat => Round(x) \in Nat)
<1>1. ASSUME NEW y \in Nat PROVE NearestGrain(y) \in Nat
    <2>1. Grain \in Nat /\ 2 * Grain \in Nat \ {0} /\ 2 * y + Grain \in Nat
        BY MatchingAssumption
    <2>2. (2 * y + Grain) \div (2 * Grain) \in Nat
        BY <2>1, Quotient
    <2>3. QED
        BY <2>1, <2>2, Product DEF NearestGrain
<1>2. (x >= 0 => x \in Nat) /\ (x < 0 => - x \in Nat)
    OBVIOUS
<1>3. QED
    BY <1>1, <1>2 DEF Round

\* A record with three of its five fields changed.
LEMMA ThreeChanged ==
    ASSUME NEW A, NEW B, NEW C, NEW D, NEW E,
           NEW x \in [at : A, last : B, level : C, bid : D, ask : E],
           NEW last \in B, NEW bid \in D, NEW ask \in E,
           NEW y, y = [x EXCEPT !.last = last, !.bid = bid, !.ask = ask]
    PROVE  y \in [at : A, last : B, level : C, bid : D, ask : E] /\ y.at = x.at
OBVIOUS

\* An observation is stored as a row of the same time.
LEMMA StoredRow ==
    ASSUME NEW seen \in Row PROVE Stored(seen) \in Row /\ Stored(seen).at = seen.at
<1>1. seen.last \in Nat /\ seen.bid \in Nat /\ seen.ask \in Nat
    BY DEF Row
<1>2. Round(seen.last) \in Nat /\ Round(seen.bid) \in Nat /\ Round(seen.ask) \in Nat
    BY <1>1, RoundType
<1>3. Stored(seen) = [seen EXCEPT !.last = Round(seen.last), !.bid = Round(seen.bid),
                                  !.ask = Round(seen.ask)]
    BY DEF Stored
<1>4. QED
    BY <1>2, <1>3, ThreeChanged DEF Row

\* A rule with another limit.
LEMMA LimitChanged ==
    ASSUME NEW T, NEW L, NEW W, NEW D, NEW C,
           NEW x \in [type : T, limit : L, window : W, direction : D, cooldown : C],
           NEW limit \in L
    PROVE  [x EXCEPT !.limit = limit]
              \in [type : T, limit : L, window : W, direction : D, cooldown : C]
OBVIOUS

\* A rule is saved as a rule.
LEMMA SavedRule == ASSUME NEW r \in Rule PROVE Saved(r) \in Rule
<1>1. Round(r.limit) \in Int
    BY RoundType DEF Rule
<1>2. Saved(r) = [r EXCEPT !.limit = Round(r.limit)]
    BY DEF Saved
<1>3. QED
    BY <1>1, <1>2, LimitChanged DEF Rule

-----------------------------------------------------------------------------
(* Types.                                                                  *)

\* Recording an observation adds no fire of another time than its own.
LEMMA RecordType ==
    ASSUME NEW r, NEW fires \in SUBSET Fire, NEW seen \in Row
    PROVE  /\ Record(r, fires, seen) \in SUBSET Fire
           /\ \A f \in Record(r, fires, seen) : f \in fires \/ f.at = seen.at
<1>1. seen.at \in Nat /\ seen.last \in Nat
    BY DEF Row
<1>2. \A s \in {"pending", "suppressed_cooldown"} :
         [at |-> seen.at, price |-> seen.last, status |-> s] \in Fire
    BY <1>1 DEF Fire
<1>3. QED
    BY <1>2 DEF Record

\* Rows only come at the end, later than all there are, and with the quotes
\* they are from.
LEMMA NewRow ==
    ASSUME TypeOK, NEW q \in Quotes, NEW gap \in Gaps,
           NEW seen, seen = Observation(q, gap), NEW row, row = Stored(seen)
    PROVE  /\ seen \in Row /\ row \in Row /\ row.at = seen.at
           /\ Append(history, row) \in Seq(Row) /\ Append(quoted, seen) \in Seq(Row)
           /\ Len(Append(history, row)) = Len(history) + 1
           /\ Len(Append(quoted, seen)) = Len(history) + 1
           /\ \A i \in 1 .. Len(history) : /\ Append(history, row)[i] = history[i]
                                          /\ Append(quoted, seen)[i] = quoted[i]
           /\ Append(history, row)[Len(history) + 1] = row
           /\ Append(quoted, seen)[Len(history) + 1] = seen
           /\ Len(history) > 0 => history[Len(history)].at < row.at
<1>1. history \in Seq(Row) /\ quoted \in Seq(Row) /\ Len(quoted) = Len(history)
      /\ Len(history) \in Nat
    BY DEF TypeOK
<1>2. /\ gap \in Nat /\ gap > 0
      /\ q.last \in Nat /\ q.level \in Nat /\ q.bid \in Nat /\ q.ask \in Nat
    BY BacktestAssumption
<1>3. Now \in Nat /\ (Len(history) > 0 => history[Len(history)].at = Now)
    <2>1. CASE history = <<>>
        BY <2>1 DEF Now
    <2>2. CASE history # <<>>
        <3>1. Len(history) \in 1 .. Len(history)
            BY <1>1, <2>2
        <3>2. history[Len(history)] \in Row
            BY <1>1, <3>1
        <3>3. QED
            BY <2>2, <3>2 DEF Now, Last, Row
    <2>3. QED
        BY <2>1, <2>2
<1>4. seen \in Row /\ seen.at = Now + gap
    <2>1. Now + gap \in Nat
        BY <1>2, <1>3
    <2>2. QED
        BY <1>2, <2>1 DEF Row, Observation
<1>5. row \in Row /\ row.at = seen.at
    BY <1>4, StoredRow
<1>6. Len(history) > 0 => history[Len(history)].at < row.at
    BY <1>2, <1>3, <1>4, <1>5
<1> HIDE DEF TypeOK
<1>7. /\ Append(history, row) \in Seq(Row)
      /\ Len(Append(history, row)) = Len(history) + 1
      /\ \A i \in 1 .. Len(history) : Append(history, row)[i] = history[i]
      /\ Append(history, row)[Len(history) + 1] = row
    BY <1>1, <1>5, AppendProperties
<1>8. /\ Append(quoted, seen) \in Seq(Row)
      /\ Len(Append(quoted, seen)) = Len(quoted) + 1
      /\ \A i \in 1 .. Len(quoted) : Append(quoted, seen)[i] = quoted[i]
      /\ Append(quoted, seen)[Len(quoted) + 1] = seen
    BY <1>1, <1>4, AppendProperties
<1>9. QED
    BY <1>1, <1>4, <1>5, <1>6, <1>7, <1>8

\* A new observation keeps the types.
LEMMA ObserveType ==
    ASSUME TypeOK, NEW q \in Quotes, NEW gap \in Gaps, Observe(q, gap)
    PROVE  TypeOK'
<1> DEFINE seen == Observation(q, gap)
           row == Stored(seen)
           n == Len(history)
<1>1. /\ seen \in Row /\ row.at = seen.at
      /\ history' = Append(history, row) /\ history' \in Seq(Row) /\ quoted' \in Seq(Row)
      /\ Len(history') = n + 1 /\ Len(quoted') = n + 1
      /\ \A i \in 1 .. n : history'[i] = history[i]
      /\ history'[n + 1] = row
      /\ n > 0 => history[n].at < row.at
    BY NewRow DEF Observe
<1>2. n \in Nat
    BY DEF TypeOK
<1> HIDE DEF seen, row, n
<1>3. \A i \in 2 .. n + 1 : history'[i - 1].at < history'[i].at
    <2>1. ASSUME NEW i \in 2 .. n PROVE history'[i - 1].at < history'[i].at
        <3>1. i \in 1 .. n /\ i - 1 \in 1 .. n
            BY <1>2
        <3>2. history[i - 1].at < history[i].at
            BY DEF TypeOK, n
        <3>3. QED
            BY <1>1, <3>1, <3>2
    <2>2. ASSUME n + 1 \in 2 .. n + 1 PROVE history'[n].at < history'[n + 1].at
        <3>1. n \in 1 .. n /\ n > 0
            BY <1>2, <2>2
        <3>2. QED
            BY <1>1, <3>1
    <2>3. \A i \in 2 .. n + 1 : i \in 2 .. n \/ (i = n + 1 /\ i - 1 = n)
        BY <1>2
    <2>4. QED
        BY <2>1, <2>2, <2>3
<1>4. UNCHANGED <<since, replays>> /\ Rules' = Rules
    BY DEF Observe, Rules
<1>5. Rules \subseteq {Saved(r) : r \in Definitions}
      /\ \A r \in Rules : since[r] \in 0 .. n /\ since[r] \in 0 .. n + 1
    <2>1. 0 .. n \subseteq 0 .. n + 1
        BY <1>2
    <2>2. QED
        BY <2>1 DEF TypeOK, n
<1>6. DOMAIN live' = Rules
    BY DEF Observe
<1>7. ASSUME NEW r \in Rules, NEW f \in live'[r]
      PROVE  f \in Fire /\ \E i \in since[r] + 1 .. n + 1 : f.at = history'[i].at
    <2>1. live[r] \in SUBSET Fire
        BY DEF TypeOK
    <2>2. live'[r] = live[r] \/ live'[r] = Record(r, live[r], seen)
        BY DEF Observe, seen
    <2>3. f \in Fire /\ (f \in live[r] \/ f.at = seen.at)
        BY <1>1, <1>7, <2>1, <2>2, RecordType
    <2>4. CASE f \in live[r]
        <3>1. PICK i \in since[r] + 1 .. n : f.at = history[i].at
            BY <2>4 DEF TypeOK, n
        <3>2. i \in 1 .. n /\ i \in since[r] + 1 .. n + 1
            BY <1>2, <1>5
        <3>3. QED
            BY <1>1, <2>3, <3>1, <3>2
    <2>5. CASE f.at = seen.at
        <3>1. n + 1 \in since[r] + 1 .. n + 1
            BY <1>2, <1>5
        <3>2. QED
            BY <1>1, <2>3, <2>5, <3>1
    <2>6. QED
        BY <2>3, <2>4, <2>5
<1>8. replays' \subseteq Replay /\ \A b \in replays' : b.next <= Len(b.rows) + 1
    BY <1>4 DEF TypeOK
<1>9. QED
    BY <1>1, <1>3, <1>4, <1>5, <1>6, <1>7, <1>8 DEF TypeOK

\* A new rule keeps the types.
LEMMA CreateType ==
    ASSUME TypeOK, NEW r \in Definitions, CreateRule(r)
    PROVE  TypeOK'
<1>1. UNCHANGED <<history, quoted, replays>> /\ Rules' = Rules \cup {Saved(r)}
      /\ DOMAIN live' = Rules'
    BY DEF CreateRule, Rules
<1>2. \A s \in Rules' : \/ s = Saved(r) /\ since'[s] = Len(history) /\ live'[s] = {}
                        \/ s \in Rules /\ since'[s] = since[s] /\ live'[s] = live[s]
    BY <1>1 DEF CreateRule
<1>3. Len(history) \in Nat /\ Len(history) \in 0 .. Len(history)
    BY DEF TypeOK
<1>4. Rules' \subseteq {Saved(t) : t \in Definitions}
    BY <1>1 DEF TypeOK
<1>5. \A s \in Rules' : since'[s] \in 0 .. Len(history')
    BY <1>1, <1>2, <1>3 DEF TypeOK
<1>6. \A s \in Rules' : \A f \in live'[s] :
         f \in Fire /\ \E i \in since'[s] + 1 .. Len(history') : f.at = history'[i].at
    <2>1. ASSUME NEW s \in Rules', NEW f \in live'[s]
          PROVE  s \in Rules /\ since'[s] = since[s] /\ f \in live[s]
        BY <1>2, <2>1
    <2>2. QED
        BY <1>1, <2>1 DEF TypeOK
<1>7. QED
    BY <1>1, <1>4, <1>5, <1>6 DEF TypeOK

\* A step that only changes replays keeps the types if each new one is typed.
LEMMA ReplayType ==
    ASSUME TypeOK, UNCHANGED <<history, quoted, since, live>>,
           \A b \in replays' : b \in replays \/ (b \in Replay /\ b.next <= Len(b.rows) + 1)
    PROVE  TypeOK'
<1>1. Rules' = Rules
    BY DEF Rules
<1>2. QED
    BY <1>1 DEF TypeOK

\* A request for a backtest keeps the types.
LEMMA BacktestType ==
    ASSUME TypeOK, NEW r \in Definitions, NEW first \in 1 .. Len(history) + 1,
           Backtest(r, first)
    PROVE  TypeOK'
<1> DEFINE b == [rule |-> r, rows |-> SubSeq(history, first, Len(history)),
                 next |-> 1, fires |-> {}]
<1>1. history \in Seq(Row) /\ Len(history) \in Nat
    BY DEF TypeOK
<1>2. \A i \in first .. Len(history) : history[i] \in Row
    <2>1. \A i \in first .. Len(history) : i \in 1 .. Len(history)
        BY <1>1
    <2>2. QED
        BY <1>1, <2>1
<1>3. SubSeq(history, first, Len(history)) \in Seq(Row)
    BY <1>1, <1>2, SubSeqProperties
<1>4. b \in Replay
    BY <1>3 DEF Replay
<1>5. b.next <= Len(b.rows) + 1
    BY <1>3
<1> HIDE DEF b
<1>6. \A c \in replays' : c \in replays \/ c = b
    BY DEF Backtest, b
<1>7. QED
    BY <1>4, <1>5, <1>6, ReplayType DEF Backtest

\* A replay that has taken a row differs in its position and its fires alone.
LEMMA NextRow ==
    ASSUME NEW R, NEW S, NEW N, NEW F,
           NEW b \in [rule : R, rows : S, next : N, fires : F],
           b.next + 1 \in N, NEW fires \in F,
           NEW c, c = [b EXCEPT !.next = @ + 1, !.fires = fires]
    PROVE  /\ c \in [rule : R, rows : S, next : N, fires : F]
           /\ c.rule = b.rule /\ c.rows = b.rows
           /\ c.next = b.next + 1 /\ c.fires = fires
OBVIOUS

\* A row of a replay keeps the types.
LEMMA ReplayRowType ==
    ASSUME TypeOK, NEW b \in replays, ReplayRow(b)
    PROVE  TypeOK'
<1> DEFINE row == b.rows[b.next]
<1>1. /\ b \in Replay /\ b.rows \in Seq(Row) /\ b.next \in Nat \ {0}
      /\ b.fires \in SUBSET Fire /\ b.next <= Len(b.rows)
    BY DEF TypeOK, Replay, ReplayRow
<1>2. row \in Row
    BY <1>1
<1>3. PICK fires : /\ fires = b.fires \/ fires = Record(b.rule, b.fires, row)
                   /\ replays' = (replays \ {b}) \cup
                        {[b EXCEPT !.next = @ + 1, !.fires = fires]}
    BY DEF ReplayRow
<1> HIDE DEF row
<1>4. fires \in SUBSET Fire
    BY <1>1, <1>2, <1>3, RecordType
<1> DEFINE c == [b EXCEPT !.next = @ + 1, !.fires = fires]
<1>5. c \in Replay /\ c.next = b.next + 1 /\ c.rows = b.rows
    <2>1. b.next + 1 \in Nat \ {0}
        BY <1>1
    <2>2. QED
        BY <1>1, <1>4, <2>1, NextRow DEF Replay
<1>6. c.next <= Len(c.rows) + 1
    BY <1>1, <1>5
<1> HIDE DEF c
<1>7. \A d \in replays' : d \in replays \/ d = c
    BY <1>3 DEF c
<1>8. QED
    BY <1>5, <1>6, <1>7, ReplayType DEF ReplayRow

\* The answer to a backtest keeps the types.
LEMMA RespondType ==
    ASSUME TypeOK, NEW b \in replays, Respond(b)
    PROVE  TypeOK'
BY ReplayType DEF Respond

\* The types hold at the start.
LEMMA InitType == Init => TypeOK
<1> SUFFICES ASSUME Init PROVE TypeOK
    OBVIOUS
<1>1. history = <<>> /\ quoted = <<>> /\ Rules = {} /\ DOMAIN live = {} /\ replays = {}
    BY DEF Init, Rules
<1>2. <<>> \in Seq(Row) /\ 2 .. Len(<<>>) = {}
    OBVIOUS
<1>3. QED
    BY <1>1, <1>2 DEF TypeOK

\* Every step keeps the types.
LEMMA StepType == TypeOK /\ [Next]_vars => TypeOK'
<1> SUFFICES ASSUME TypeOK, [Next]_vars PROVE TypeOK'
    OBVIOUS
<1>1. ASSUME NEW q \in Quotes, NEW gap \in Gaps, Observe(q, gap) PROVE TypeOK'
    BY <1>1, ObserveType
<1>2. ASSUME NEW r \in Definitions, CreateRule(r) PROVE TypeOK'
    BY <1>2, CreateType
<1>3. ASSUME NEW r \in Definitions, NEW first \in 1 .. Len(history) + 1, Backtest(r, first)
      PROVE  TypeOK'
    BY <1>3, BacktestType
<1>4. ASSUME NEW b \in replays, ReplayRow(b) PROVE TypeOK'
    BY <1>4, ReplayRowType
<1>5. ASSUME NEW b \in replays, Respond(b) PROVE TypeOK'
    BY <1>5, RespondType
<1>6. CASE UNCHANGED vars
    BY <1>6, ReplayType DEF vars
<1>7. QED
    BY <1>1, <1>2, <1>3, <1>4, <1>5, <1>6 DEF Next

\* The variables keep their types, observations their order, and a rule fires
\* for no observation made before it was created.
THEOREM TypeCorrect == Spec => []TypeOK
<1>1. QED
    BY InitType, StepType, PTL DEF Spec

-----------------------------------------------------------------------------
(* The z-score's prices.                                                   *)

\* What the evaluator fetches decides a z-score as the whole history would.
LEMMA Suffices ==
    ASSUME MinObservations <= Window, TypeOK PROVE WindowSuffices
<1>1. history \in Seq(Row)
    BY DEF TypeOK
<1>2. QED
    BY <1>1, ScoreOfNewest DEF WindowSuffices, Levels

\* When the observations a score needs fit the window, the newest Window + 2
\* prices give the score of the whole history (_fetch_recent_prices).
THEOREM WindowIsEnough ==
    ASSUME MinObservations <= Window PROVE Spec => []WindowSuffices
<1>1. QED
    BY TypeCorrect, Suffices, PTL

-----------------------------------------------------------------------------
(* A replay and the live engine.                                           *)

\* Fires up to a time, and before it.
Upto(fires, t) == {f \in fires : f.at <= t}
Before(fires, t) == {f \in fires : f.at < t}

\* One evaluation of one rule.
Verdict(r, fires, seen, h) ==
    IF Fires(r, seen, h) THEN Record(r, fires, seen) ELSE fires

\* The rows are what was quoted, rounded, and have increasing times, not only
\* of neighbours.
RowsInv ==
    /\ \A i \in 1 .. Len(history) : history[i] = Stored(quoted[i])
    /\ \A i, j \in 1 .. Len(history) : i < j => history[i].at < history[j].at

\* What the live engine recorded is, quote by quote, the verdict on what it had
\* recorded before.
LiveInv == \A r \in Rules : LooksBack(r) =>
    \A i \in since[r] + 1 .. Len(history) :
        Upto(live[r], history[i].at)
            = Verdict(r, Before(live[r], history[i].at), quoted[i], history)

\* A replay has selected rows that lie together in the history.
Segment(b, first) ==
    /\ first \in 1 .. Len(history) + 1
    /\ first + Len(b.rows) <= Len(history) + 1
    /\ \A k \in 1 .. Len(b.rows) : b.rows[k] = history[first + k - 1]
SegmentInv == \A b \in replays : \E first : Segment(b, first)

IInv == TypeOK /\ IsFiniteSet(Rules) /\ RowsInv /\ LiveInv /\ SegmentInv /\ ReplayIsLive

\* A history is a sequence of rows, and rows have times.
LEMMA RowTimes ==
    ASSUME NEW h \in Seq(Row)
    PROVE  Len(h) \in Nat /\ \A i \in 1 .. Len(h) : h[i] \in Row /\ h[i].at \in Nat
<1>1. \A i \in 1 .. Len(h) : h[i] \in Row
    OBVIOUS
<1>2. \A row \in Row : row.at \in Nat
    BY DEF Row
<1>3. QED
    BY <1>1, <1>2

\* The quotes that the rows are from have their types and times.
LEMMA QuotedRows ==
    ASSUME TypeOK, RowsInv
    PROVE  \A i \in 1 .. Len(history) :
              /\ quoted[i] \in Row /\ quoted[i].last \in Int
              /\ quoted[i].at = history[i].at /\ quoted[i].at \in Nat
<1>1. quoted \in Seq(Row) /\ Len(quoted) = Len(history)
    BY DEF TypeOK
<1>2. ASSUME NEW i \in 1 .. Len(history)
      PROVE  /\ quoted[i] \in Row /\ quoted[i].last \in Int
             /\ quoted[i].at = history[i].at /\ quoted[i].at \in Nat
    <2>1. quoted[i] \in Row
        BY <1>1
    <2>2. history[i] = Stored(quoted[i])
        BY DEF RowsInv
    <2>3. QED
        BY <2>1, <2>2, StoredRow DEF Row
<1>3. QED
    BY <1>2

\* A verdict only adds a fire at the time of its observation.
LEMMA VerdictAdds ==
    ASSUME NEW r, NEW fires \in SUBSET Fire, NEW seen \in Row, NEW h
    PROVE  /\ Verdict(r, fires, seen, h) \in SUBSET Fire
           /\ fires \subseteq Verdict(r, fires, seen, h)
           /\ \A f \in Verdict(r, fires, seen, h) : f \in fires \/ f.at = seen.at
<1>1. fires \subseteq Record(r, fires, seen)
    BY DEF Record
<1>2. QED
    BY <1>1, RecordType DEF Verdict

\* The new row, for a rule that was in force: everything recorded is earlier.
LEMMA LiveEarlier ==
    ASSUME TypeOK, RowsInv, NEW r \in Rules, NEW t \in Nat,
           Len(history) > 0 => history[Len(history)].at < t
    PROVE  \A f \in live[r] : f.at \in Nat /\ f.at < t
<1> DEFINE n == Len(history)
<1>1. n \in Nat /\ since[r] \in 0 .. n /\ live[r] \subseteq Fire
    BY DEF TypeOK
<1>2. \A i \in 1 .. n : history[i].at \in Nat
    BY RowTimes DEF TypeOK
<1>3. ASSUME NEW f \in live[r] PROVE f.at \in Nat /\ f.at < t
    <2>1. PICK i \in since[r] + 1 .. n : f.at = history[i].at
        BY DEF TypeOK
    <2>2. i \in 1 .. n /\ n \in 1 .. n /\ n > 0 /\ (i = n \/ i < n)
        BY <1>1
    <2>3. history[n].at < t /\ (i = n \/ history[i].at < history[n].at)
        BY <2>2 DEF RowsInv
    <2>4. QED
        BY <1>2, <2>1, <2>2, <2>3
<1>4. QED
    BY <1>3

\* A new observation is the newest, so the rows stay in the order of time.
LEMMA ObserveRows ==
    ASSUME TypeOK, RowsInv, NEW q \in Quotes, NEW gap \in Gaps, Observe(q, gap)
    PROVE  RowsInv'
<1> DEFINE seen == Observation(q, gap)
           row == Stored(seen)
           n == Len(history)
<1>1. /\ row \in Row /\ history' = Append(history, row) /\ Len(history') = n + 1
      /\ \A i \in 1 .. n : history'[i] = history[i] /\ quoted'[i] = quoted[i]
      /\ history'[n + 1] = row /\ quoted'[n + 1] = seen
      /\ n > 0 => history[n].at < row.at
    BY NewRow DEF Observe
<1>2. n \in Nat /\ \A i \in 1 .. n : history[i].at \in Nat
    BY RowTimes DEF TypeOK
<1>3. row = Stored(seen)
    OBVIOUS
<1>4. row.at \in Nat
    BY <1>1 DEF Row
<1> HIDE DEF seen, row, n
<1>5. \A i \in 1 .. n + 1 : i \in 1 .. n \/ i = n + 1
    BY <1>2
<1>6. \A i \in 1 .. n + 1 : history'[i] = Stored(quoted'[i])
    BY <1>1, <1>3, <1>5 DEF RowsInv, n
<1>7. ASSUME NEW i \in 1 .. n + 1, NEW j \in 1 .. n + 1, i < j
      PROVE  history'[i].at < history'[j].at
    <2>1. i \in 1 .. n
        BY <1>2, <1>7
    <2>2. CASE j \in 1 .. n
        BY <1>1, <1>7, <2>1, <2>2 DEF RowsInv, n
    <2>3. CASE j = n + 1
        <3>1. n > 0 /\ n \in 1 .. n /\ (i = n \/ i < n)
            BY <1>2, <2>1
        <3>2. history[n].at < row.at /\ (i = n \/ history[i].at < history[n].at)
            BY <1>1, <2>1, <3>1 DEF RowsInv, n
        <3>3. history[i].at < row.at
            BY <1>2, <1>4, <2>1, <3>1, <3>2
        <3>4. QED
            BY <1>1, <2>1, <2>3, <3>3
    <2>4. QED
        BY <1>5, <2>2, <2>3
<1>8. QED
    BY <1>1, <1>6, <1>7 DEF RowsInv

\* Whether a rule that looks back fires for a quote does not change.
LEMMA SameFires ==
    ASSUME TypeOK, RowsInv, RowsInv', TypeOK', NEW row, history' = Append(history, row),
           NEW i \in 1 .. Len(history), NEW r \in Rule, LooksBack(r)
    PROVE  Fires(r, quoted[i], history') <=> Fires(r, quoted[i], history)
<1> DEFINE n == Len(history)
<1>1. n \in Nat /\ Len(history') = n + 1 /\ \A k \in 1 .. n : history'[k] = history[k]
    BY AppendProperties DEF TypeOK
<1>2. \A k \in 1 .. n + 1 : history'[k].at \in Nat
    BY <1>1, RowTimes DEF TypeOK
<1>3. \A j \in i + 1 .. n + 1 : history'[i].at < history'[j].at
    <2>1. \A j \in i + 1 .. n + 1 : i < j /\ i \in 1 .. n + 1 /\ j \in 1 .. n + 1
        BY <1>1
    <2>2. QED
        BY <1>1, <2>1 DEF RowsInv
<1>4. n <= n + 1 /\ n + 1 \in Nat /\ quoted[i].at = history[i].at
    BY <1>1, QuotedRows
<1> HIDE DEF n
<1>5. i \in 1 .. n
    BY DEF n
<1>6. QED
    BY <1>1, <1>2, <1>3, <1>4, <1>5, FiresStays DEF n

\* What an observation records of a rule in force.
LEMMA ObserveVerdict ==
    ASSUME TypeOK, IsFiniteSet(Rules), NEW q \in Quotes, NEW gap \in Gaps,
           Observe(q, gap), NEW r \in Rules, r.type # "zscore_move",
           NEW seen, seen = Observation(q, gap)
    PROVE  live'[r] = Verdict(r, live[r], seen, history')
<1>1. Rules \in SUBSET Rule
    BY BacktestAssumption, SavedRule DEF TypeOK
<1>2. seen.last \in Int
    BY BacktestAssumption DEF Observation
<1>3. /\ history' = Append(history, Stored(seen))
      /\ live'[r] = IF r \in Candidates(PairRules(Rules), seen, history')
                    THEN Record(r, live[r], seen) ELSE live[r]
    BY DEF Observe
<1>4. r \in Candidates(PairRules(Rules), seen, history') <=> Fires(r, seen, history')
    BY <1>1, <1>2, CandidateOf
<1>5. QED
    BY <1>3, <1>4 DEF Verdict

\* A new observation is evaluated for the live rules as their replay would.
LEMMA ObserveLive ==
    ASSUME TypeOK, TypeOK', RowsInv, RowsInv', IsFiniteSet(Rules), LiveInv,
           NEW q \in Quotes, NEW gap \in Gaps, Observe(q, gap)
    PROVE  LiveInv'
<1> DEFINE seen == Observation(q, gap)
           row == Stored(seen)
           n == Len(history)
<1>1. /\ seen \in Row /\ row \in Row /\ row.at = seen.at
      /\ history' = Append(history, row) /\ Len(history') = n + 1
      /\ \A i \in 1 .. n : history'[i] = history[i] /\ quoted'[i] = quoted[i]
      /\ history'[n + 1] = row /\ quoted'[n + 1] = seen
      /\ n > 0 => history[n].at < row.at
    BY NewRow DEF Observe
<1>2. n \in Nat /\ \A i \in 1 .. n : history[i].at \in Nat
    BY RowTimes DEF TypeOK
<1>3. row.at \in Nat
    BY <1>1 DEF Row
<1>4. \A r \in Rules : r.type # "zscore_move" => live'[r] = Verdict(r, live[r], seen, history')
    BY ObserveVerdict
<1>5. Rules' = Rules /\ since' = since
    BY DEF Observe, Rules
<1>6. \A i \in 1 .. n : history[i].at < row.at
    <2>1. ASSUME NEW i \in 1 .. n PROVE history'[i].at < history'[n + 1].at
        <3>1. i \in 1 .. n + 1 /\ n + 1 \in 1 .. n + 1 /\ i < n + 1
            BY <1>2
        <3>2. QED
            BY <1>1, <3>1 DEF RowsInv
    <2>2. QED
        BY <1>1, <2>1
<1> HIDE DEF seen, row, n
<1>7. ASSUME NEW r \in Rules, LooksBack(r), NEW i \in since[r] + 1 .. n + 1
      PROVE  Upto(live'[r], history'[i].at)
                = Verdict(r, Before(live'[r], history'[i].at), quoted'[i], history')
    <2>1. since[r] \in 0 .. n /\ live[r] \in SUBSET Fire /\ r \in Rule
           /\ r.type # "zscore_move"
        BY <1>7, BacktestAssumption, SavedRule DEF TypeOK, LooksBack, n
    <2>2. /\ live[r] \subseteq live'[r]
          /\ \A f \in live'[r] : f \in live[r] \/ f.at = row.at
        BY <1>1, <1>4, <2>1, VerdictAdds
    <2>3. \A f \in live[r] : f.at \in Nat /\ f.at < row.at
        BY <1>1, <1>3, LiveEarlier DEF n
    <2>4. CASE i \in 1 .. n
        <3>1. history'[i] = history[i] /\ quoted'[i] = quoted[i] /\ history[i].at < row.at /\ history[i].at \in Nat
            BY <1>1, <1>2, <1>6, <2>4
        <3>2. /\ Upto(live'[r], history[i].at) = Upto(live[r], history[i].at)
              /\ Before(live'[r], history[i].at) = Before(live[r], history[i].at)
            BY <1>3, <2>2, <3>1 DEF Upto, Before
        <3>3. Fires(r, quoted[i], history') <=> Fires(r, quoted[i], history)
            BY <1>1, <1>7, <2>1, <2>4, SameFires DEF n
        <3>4. i \in since[r] + 1 .. Len(history)
            BY <2>1, <2>4 DEF n
        <3>5. Upto(live[r], history[i].at)
                = Verdict(r, Before(live[r], history[i].at), quoted[i], history)
            BY <1>7, <3>4 DEF LiveInv
        <3>6. QED
            BY <3>1, <3>2, <3>3, <3>5 DEF Verdict
    <2>5. CASE i = n + 1
        <3>1. history'[i] = row /\ quoted'[i] = seen
            BY <1>1, <2>5
        <3>2. Upto(live'[r], row.at) = live'[r]
            BY <1>3, <2>2, <2>3 DEF Upto
        <3>3. Before(live'[r], row.at) = live[r]
            BY <1>3, <2>2, <2>3 DEF Before
        <3>4. QED
            BY <1>4, <2>1, <3>1, <3>2, <3>3
    <2>6. i \in 1 .. n \/ i = n + 1
        BY <1>2, <2>1
    <2>7. QED
        BY <2>4, <2>5, <2>6
<1>8. QED
    BY <1>1, <1>5, <1>7 DEF LiveInv, n

\* Rows of a replay are rows of the history.
LEMMA SegmentRows ==
    ASSUME TypeOK, NEW b \in replays, NEW first, Segment(b, first)
    PROVE  /\ Len(b.rows) \in Nat /\ first \in Nat /\ Len(history) \in Nat
           /\ b.next \in Nat \ {0} /\ b.next <= Len(b.rows) + 1
           /\ b.rows # <<>> => b.rows[1] = history[first] /\ first \in 1 .. Len(history)
           /\ \A k \in 1 .. Len(b.rows) :
                 /\ b.rows[k] = history[first + k - 1]
                 /\ first + k - 1 \in first .. Len(history)
<1>1. /\ b.rows \in Seq(Row) /\ Len(b.rows) \in Nat /\ Len(history) \in Nat
      /\ b.next \in Nat \ {0} /\ b.next <= Len(b.rows) + 1
    BY DEF TypeOK, Replay
<1>2. first \in 1 .. Len(history) + 1 /\ first + Len(b.rows) <= Len(history) + 1
    BY DEF Segment
<1>3. \A k \in 1 .. Len(b.rows) :
         /\ b.rows[k] = history[first + k - 1]
         /\ first + k - 1 \in first .. Len(history)
    <2>1. \A k \in 1 .. Len(b.rows) : first + k - 1 \in first .. Len(history)
        BY <1>1, <1>2
    <2>2. QED
        BY <2>1 DEF Segment
<1>4. b.rows # <<>> => b.rows[1] = history[first] /\ first \in 1 .. Len(history)
    <2>1. b.rows # <<>> => 1 \in 1 .. Len(b.rows)
        BY <1>1
    <2>2. first + 1 - 1 = first
        BY <1>2
    <2>3. QED
        BY <1>1, <1>2, <1>3, <2>1, <2>2
<1>5. QED
    BY <1>1, <1>2, <1>3, <1>4

\* A new observation lies after the rows of every running replay.
LEMMA ObserveReplays ==
    ASSUME IInv, TypeOK', RowsInv', NEW q \in Quotes, NEW gap \in Gaps, Observe(q, gap)
    PROVE  SegmentInv' /\ ReplayIsLive'
<1> DEFINE seen == Observation(q, gap)
           row == Stored(seen)
           n == Len(history)
<1>0. TypeOK /\ IsFiniteSet(Rules) /\ RowsInv /\ SegmentInv /\ ReplayIsLive
    BY DEF IInv
<1>1. /\ seen \in Row /\ row \in Row /\ row.at = seen.at
      /\ history' = Append(history, row) /\ Len(history') = n + 1
      /\ \A i \in 1 .. n : history'[i] = history[i] /\ quoted'[i] = quoted[i]
      /\ history'[n + 1] = row /\ quoted'[n + 1] = seen
    BY <1>0, NewRow DEF Observe
<1>2. n \in Nat /\ (\A i \in 1 .. n : history[i].at \in Nat) /\ row.at \in Nat
    <2>1. history \in Seq(Row)
        BY <1>0 DEF TypeOK
    <2>2. row.at \in Nat
        BY <1>1 DEF Row
    <2>3. QED
        BY <2>1, <2>2, RowTimes
<1>3. \A r \in Rules : r.type # "zscore_move" => live'[r] = Verdict(r, live[r], seen, history')
    BY <1>0, ObserveVerdict
<1>4. Rules' = Rules /\ since' = since /\ replays' = replays
    BY DEF Observe, Rules
<1> HIDE DEF seen, row, n
<1>5. \A i \in 1 .. n : history[i].at < row.at
    <2>1. ASSUME NEW i \in 1 .. n PROVE history'[i].at < history'[n + 1].at
        <3>1. i \in 1 .. n + 1 /\ n + 1 \in 1 .. n + 1 /\ i < n + 1
            BY <1>2
        <3>2. QED
            BY <1>1, <3>1 DEF RowsInv
    <2>2. QED
        BY <1>1, <2>1
<1>6. ASSUME NEW b \in replays, NEW first, Segment(b, first) PROVE Segment(b, first)'
    <2>1. \A k \in 1 .. Len(b.rows) :
             b.rows[k] = history[first + k - 1] /\ first + k - 1 \in 1 .. n
        <3>1. first \in 1 .. n + 1
            BY <1>6 DEF Segment, n
        <3>2. \A k \in 1 .. Len(b.rows) :
                 b.rows[k] = history[first + k - 1] /\ first + k - 1 \in first .. n
            BY <1>0, <1>6, SegmentRows DEF n
        <3>3. first .. n \subseteq 1 .. n
            BY <1>2, <3>1
        <3>4. QED
            BY <3>2, <3>3
    <2>2. first \in 1 .. n + 1 /\ first + Len(b.rows) <= n + 1 /\ Len(b.rows) \in Nat
        BY <1>0, <1>6, SegmentRows DEF Segment, n
    <2>3. first \in 1 .. (n + 1) + 1 /\ first + Len(b.rows) <= (n + 1) + 1
        BY <1>2, <2>2
    <2>4. QED
        BY <1>1, <2>1, <2>3 DEF Segment
<1>7. ASSUME NEW b \in replays, Comparable(b)', SeesWhatLiveSaw(b)'
      PROVE  b.fires = LiveSoFar(b)'
    <2> DEFINE r == Saved(b.rule)
    <2>0. b.rule.type # "zscore_move" /\ b.rule = r /\ QuotedAsStored(b)'
        BY <1>7 DEF Comparable
    <2>1. PICK first : Segment(b, first)
        BY <1>0 DEF SegmentInv
    <2>2. /\ Len(b.rows) \in Nat /\ first \in Nat
          /\ b.next \in Nat \ {0} /\ b.next <= Len(b.rows) + 1
          /\ b.rows # <<>> => b.rows[1] = history[first] /\ first \in 1 .. n
          /\ \A k \in 1 .. Len(b.rows) :
                b.rows[k] = history[first + k - 1] /\ first + k - 1 \in first .. n
        BY <1>0, <2>1, SegmentRows DEF n
    <2>3. /\ r \in Rules /\ since[r] < n + 1 /\ b.rows # <<>>
          /\ b.rows[1] = history'[since[r] + 1]
        BY <1>1, <1>4, <1>7 DEF SeesWhatLiveSaw
    <2>4. since[r] \in 0 .. n /\ live[r] \in SUBSET Fire
        BY <1>0, <2>3 DEF TypeOK, n
    <2>5. since[r] # n
        <3>1. history[first].at < row.at
            BY <1>5, <2>2, <2>3
        <3>2. history[first] # row
            BY <1>2, <2>2, <2>3, <3>1
        <3>3. QED
            BY <1>1, <2>2, <2>3, <3>2
    <2>6. since[r] < n /\ since[r] + 1 \in 1 .. n
        BY <1>2, <2>4, <2>5
    <2>7. SeesWhatLiveSaw(b)
        BY <1>1, <2>3, <2>6 DEF SeesWhatLiveSaw, n
    <2>13. QuotedAsStored(b)
        <3>1. ASSUME NEW k \in 1 .. b.next - 1
              PROVE  \E i \in DOMAIN quoted : quoted[i] = b.rows[k]
            <4>1. k \in 1 .. Len(b.rows)
                BY <2>2
            <4>2. b.rows[k].at < row.at /\ b.rows[k].at \in Nat
                <5>1. b.rows[k] = history[first + k - 1] /\ first + k - 1 \in first .. n
                    BY <2>2, <4>1
                <5>2. first .. n \subseteq 1 .. n
                    BY <2>2, <2>3
                <5>3. QED
                    BY <1>2, <1>5, <5>1, <5>2
            <4>3. PICK i \in DOMAIN quoted' : quoted'[i] = b.rows[k]
                BY <2>0 DEF QuotedAsStored
            <4>4. DOMAIN quoted' = 1 .. n + 1 /\ DOMAIN quoted = 1 .. n
                BY <1>0, <1>1 DEF TypeOK, n
            <4>5. i # n + 1
                BY <1>1, <1>2, <4>2, <4>3
            <4>6. i \in 1 .. n
                BY <1>2, <4>4, <4>5
            <4>7. QED
                BY <1>1, <4>3, <4>4, <4>6
        <3>2. QED
            BY <3>1 DEF QuotedAsStored
    <2>8. b.fires = LiveSoFar(b)
        <3>1. Comparable(b)
            BY <1>7, <2>13 DEF Comparable
        <3>2. QED
            BY <1>0, <2>7, <3>1 DEF ReplayIsLive
    <2>9. b.next > 1 => b.rows[b.next - 1].at \in Nat /\ b.rows[b.next - 1].at < row.at
        <3>1. b.next > 1 => b.next - 1 \in 1 .. Len(b.rows)
            BY <2>2
        <3>2. first .. n \subseteq 1 .. n
            BY <2>2, <2>3
        <3>3. QED
            BY <1>2, <1>5, <2>2, <3>1, <3>2
    <2>10. /\ live[r] \subseteq live'[r]
           /\ \A f \in live'[r] : f \in live[r] \/ f.at = row.at
        <3>1. r.type # "zscore_move"
            BY <2>0
        <3>2. QED
            BY <1>1, <1>3, <2>3, <2>4, <3>1, VerdictAdds
    <2>11. LiveSoFar(b)' = LiveSoFar(b)
        <3>1. \A f \in live'[r] : b.next > 1 /\ f.at <= b.rows[b.next - 1].at => f \in live[r]
            BY <1>2, <2>9, <2>10
        <3>2. QED
            BY <2>10, <3>1 DEF LiveSoFar
    <2>12. QED
        BY <2>8, <2>11
<1>8. SegmentInv'
    <2>1. ASSUME NEW b \in replays PROVE \E first : Segment(b, first)'
        BY <1>0, <1>6 DEF SegmentInv
    <2>2. QED
        BY <1>4, <2>1 DEF SegmentInv
<1>9. QED
    BY <1>4, <1>7, <1>8 DEF ReplayIsLive

\* A new observation keeps the inductive invariant.
LEMMA ObserveInv ==
    ASSUME IInv, NEW q \in Quotes, NEW gap \in Gaps, Observe(q, gap)
    PROVE  IInv'
<1>1. TypeOK /\ IsFiniteSet(Rules) /\ RowsInv /\ LiveInv
    BY DEF IInv
<1>2. TypeOK'
    BY <1>1, ObserveType
<1>3. RowsInv'
    BY <1>1, ObserveRows
<1>4. LiveInv'
    BY <1>1, <1>2, <1>3, ObserveLive
<1>5. SegmentInv' /\ ReplayIsLive'
    BY <1>2, <1>3, ObserveReplays
<1>6. IsFiniteSet(Rules)'
    <2>1. Rules' = Rules
        BY DEF Observe, Rules
    <2>2. QED
        BY <1>1, <2>1
<1>7. QED
    BY <1>2, <1>3, <1>4, <1>5, <1>6 DEF IInv

\* A rule that is created has seen no row that a replay has selected.
LEMMA CreateInv ==
    ASSUME IInv, NEW r \in Definitions, CreateRule(r)
    PROVE  IInv'
<1>0. TypeOK /\ IsFiniteSet(Rules) /\ RowsInv /\ LiveInv /\ SegmentInv /\ ReplayIsLive
    BY DEF IInv
<1>1. UNCHANGED <<history, quoted, replays>> /\ Rules' = Rules \cup {Saved(r)}
    BY DEF CreateRule, Rules
<1>2. \A s \in Rules' : \/ s = Saved(r) /\ since'[s] = Len(history) /\ live'[s] = {}
                        \/ s \in Rules /\ since'[s] = since[s] /\ live'[s] = live[s]
    BY <1>1 DEF CreateRule
<1>3. Len(history) \in Nat
    BY <1>0 DEF TypeOK
<1>4. TypeOK'
    BY <1>0, CreateType
<1>5. IsFiniteSet(Rules')
    BY <1>0, <1>1, FS_AddElement
<1>6. RowsInv' /\ SegmentInv'
    BY <1>0, <1>1 DEF RowsInv, SegmentInv, Segment
<1>7. LiveInv'
    <2>1. ASSUME NEW s \in Rules', LooksBack(s),
                 NEW i \in since'[s] + 1 .. Len(history)
          PROVE  Upto(live'[s], history[i].at)
                    = Verdict(s, Before(live'[s], history[i].at), quoted[i], history)
        <3>1. since'[s] # Len(history)
            BY <1>3, <2>1
        <3>2. s \in Rules /\ since'[s] = since[s] /\ live'[s] = live[s]
            BY <1>2, <3>1
        <3>3. QED
            BY <1>0, <2>1, <3>2 DEF LiveInv
    <2>2. QED
        BY <1>1, <2>1 DEF LiveInv
<1>8. ASSUME NEW b \in replays, Comparable(b)', SeesWhatLiveSaw(b)'
      PROVE  b.fires = LiveSoFar(b)'
    <2> DEFINE s == Saved(b.rule)
    <2>1. s \in Rules' /\ since'[s] < Len(history)
        BY <1>1, <1>8 DEF SeesWhatLiveSaw
    <2>2. s \in Rules /\ since'[s] = since[s] /\ live'[s] = live[s]
        BY <1>2, <1>3, <2>1
    <2>3. SeesWhatLiveSaw(b)
        BY <1>1, <1>8, <2>2 DEF SeesWhatLiveSaw
    <2>4. Comparable(b)
        BY <1>1, <1>8 DEF Comparable, QuotedAsStored
    <2>5. QED
        BY <1>0, <2>2, <2>3, <2>4 DEF ReplayIsLive, LiveSoFar
<1>9. ReplayIsLive'
    BY <1>1, <1>8 DEF ReplayIsLive
<1>10. QED
    BY <1>4, <1>5, <1>6, <1>7, <1>9 DEF IInv

\* A step of the backtests alone.
LEMMA ReplaysOnly ==
    ASSUME IInv, UNCHANGED <<history, quoted, since, live>>, TypeOK',
           \A b \in replays' :
              \/ b \in replays
              \/ /\ \E first : Segment(b, first)
                 /\ Comparable(b) /\ SeesWhatLiveSaw(b) => b.fires = LiveSoFar(b)
    PROVE  IInv'
<1>0. TypeOK /\ IsFiniteSet(Rules) /\ RowsInv /\ LiveInv /\ SegmentInv /\ ReplayIsLive
    BY DEF IInv
<1>1. Rules' = Rules
    BY DEF Rules
<1>2. IsFiniteSet(Rules)' /\ RowsInv' /\ LiveInv'
    BY <1>0, <1>1 DEF RowsInv, LiveInv
<1>3. SegmentInv'
    BY <1>0 DEF SegmentInv, Segment
<1>4. ASSUME NEW b \in replays', Comparable(b)', SeesWhatLiveSaw(b)'
      PROVE  b.fires = LiveSoFar(b)'
    <2>1. SeesWhatLiveSaw(b) /\ LiveSoFar(b)' = LiveSoFar(b) /\ Comparable(b)
        BY <1>1, <1>4 DEF SeesWhatLiveSaw, LiveSoFar, Comparable, QuotedAsStored
    <2>2. QED
        BY <1>0, <1>4, <2>1 DEF ReplayIsLive
<1>5. ReplayIsLive'
    BY <1>4 DEF ReplayIsLive
<1>6. QED
    BY <1>2, <1>3, <1>5 DEF IInv

\* A request for a backtest keeps the inductive invariant.
LEMMA BacktestInv ==
    ASSUME IInv, NEW r \in Definitions, NEW first \in 1 .. Len(history) + 1,
           Backtest(r, first)
    PROVE  IInv'
<1> DEFINE b == [rule |-> r, rows |-> SubSeq(history, first, Len(history)),
                 next |-> 1, fires |-> {}]
           n == Len(history)
<1>0. TypeOK
    BY DEF IInv
<1>1. history \in Seq(Row) /\ n \in Nat
    BY <1>0 DEF TypeOK
<1>2. TypeOK'
    BY <1>0, BacktestType
<1>3. Segment(b, first)
    <2> DEFINE rows == SubSeq(history, first, n)
    <2>1. \A i \in first .. n : history[i] \in Row
        <3>1. first .. n \subseteq 1 .. n
            BY <1>1
        <3>2. QED
            BY <1>1, <3>1, RowTimes
    <2>2. /\ Len(rows) = IF first <= n THEN n - first + 1 ELSE 0
          /\ \A k \in 1 .. n - first + 1 : rows[k] = history[first + k - 1]
        BY <1>1, <2>1, SubSeqProperties
    <2> HIDE DEF rows
    <2>3. first + Len(rows) <= n + 1 /\ 1 .. Len(rows) = 1 .. n - first + 1
        BY <1>1, <2>2
    <2>4. b.rows = rows
        BY DEF rows
    <2>5. QED
        BY <1>1, <2>2, <2>3, <2>4 DEF Segment
<1>4. b.fires = LiveSoFar(b)
    BY DEF LiveSoFar
<1>5. replays' = replays \cup {b} /\ UNCHANGED <<history, quoted, since, live>>
    BY DEF Backtest
<1> HIDE DEF b
<1>6. QED
    BY <1>2, <1>3, <1>4, <1>5, ReplaysOnly

\* The next row of a replay of what the live engine saw is a row that the rule
\* was live for, and what the replay has found is what was live before it.
LEMMA NextIsLive ==
    ASSUME IInv, NEW b \in replays, b.next <= Len(b.rows), SeesWhatLiveSaw(b)
    PROVE  \E i \in since[Saved(b.rule)] + 1 .. Len(history) :
              /\ b.rows[b.next] = history[i]
              /\ LiveSoFar(b) = Before(live[Saved(b.rule)], history[i].at)
<1> DEFINE r == Saved(b.rule)
           n == Len(history)
<1>0. TypeOK /\ RowsInv /\ SegmentInv
    BY DEF IInv
<1>1. PICK first : Segment(b, first)
    BY <1>0 DEF SegmentInv
<1>2. /\ Len(b.rows) \in Nat /\ first \in Nat /\ n \in Nat
      /\ b.next \in Nat \ {0}
      /\ b.rows # <<>> => b.rows[1] = history[first] /\ first \in 1 .. n
      /\ \A k \in 1 .. Len(b.rows) :
            b.rows[k] = history[first + k - 1] /\ first + k - 1 \in first .. n
    BY <1>0, <1>1, SegmentRows
<1>3. /\ r \in Rules /\ since[r] < n /\ b.rows # <<>>
      /\ b.rows[1] = history[since[r] + 1]
    BY DEF SeesWhatLiveSaw
<1>4. since[r] \in 0 .. n /\ since[r] + 1 \in 1 .. n
    <2>1. since[r] \in 0 .. n
        BY <1>0, <1>3 DEF TypeOK
    <2>2. QED
        BY <1>2, <1>3, <2>1
<1>5. \A i \in 1 .. n : history[i].at \in Nat
    BY <1>0, RowTimes DEF TypeOK
<1>6. \A i, j \in 1 .. n : i < j => history[i].at < history[j].at
    BY <1>0 DEF RowsInv
<1>7. first = since[r] + 1
    <2>1. history[first].at = history[since[r] + 1].at
        BY <1>2, <1>3
    <2>2. ~ (first < since[r] + 1) /\ ~ (since[r] + 1 < first)
        BY <1>2, <1>3, <1>4, <1>5, <1>6, <2>1
    <2>3. QED
        BY <1>2, <1>4, <2>2
<1>8. PICK i : i = first + b.next - 1
    OBVIOUS
<1>9. b.next \in 1 .. Len(b.rows)
    BY <1>2
<1>10. i \in first .. n /\ b.rows[b.next] = history[i]
    BY <1>2, <1>8, <1>9
<1>11. \A f \in live[r] : \E j \in first .. n : f.at = history[j].at
    BY <1>0, <1>3, <1>7 DEF TypeOK
<1>12. first .. n \subseteq 1 .. n
    BY <1>2, <1>3
<1>13. b.next > 1 => b.rows[b.next - 1] = history[i - 1] /\ i - 1 \in first .. n
    <2>1. b.next > 1 => b.next - 1 \in 1 .. Len(b.rows) /\ first + (b.next - 1) - 1 = i - 1
        <3>1. Len(b.rows) \in Nat /\ first \in Nat /\ b.next \in Nat
            BY <1>2
        <3>2. i - 1 = first + (b.next - 1) - 1
            BY <1>8, <3>1
        <3>3. QED
            BY <1>9, <3>1, <3>2
    <2>2. ASSUME b.next > 1
          PROVE  b.rows[b.next - 1] = history[i - 1] /\ i - 1 \in first .. n
        <3>1. PICK k : k = b.next - 1 /\ k \in 1 .. Len(b.rows) /\ first + k - 1 = i - 1
            BY <2>1, <2>2
        <3>2. b.rows[k] = history[first + k - 1] /\ first + k - 1 \in first .. n
            BY <1>2, <3>1
        <3>3. QED
            BY <3>1, <3>2
    <2>3. QED
        BY <2>2
<1>14. b.next > 1 <=> i > first
    BY <1>2, <1>8
<1>15. ASSUME NEW f \in live[r]
       PROVE  (b.next > 1 /\ f.at <= b.rows[b.next - 1].at) <=> f.at < history[i].at
    <2>1. PICK j \in first .. n : f.at = history[j].at
        BY <1>11
    <2>2. i \in 1 .. n /\ j \in 1 .. n
        BY <1>10, <1>12
    <2>3. CASE i > first
        <3>1. b.next > 1 /\ b.rows[b.next - 1] = history[i - 1] /\ i - 1 \in 1 .. n
            BY <1>12, <1>13, <1>14, <2>3
        <3>2. j < i \/ j = i \/ i < j
            BY <2>2
        <3>3. j < i => j = i - 1 \/ j < i - 1
            BY <2>2
        <3>4. i - 1 < i
            BY <2>2
        <3>5. QED
            BY <1>5, <1>6, <2>1, <2>2, <3>1, <3>2, <3>3, <3>4
    <2>4. CASE ~ (i > first)
        <3>1. ~ (b.next > 1) /\ (j = i \/ i < j)
            BY <1>2, <1>10, <1>14, <2>2, <2>4
        <3>2. QED
            BY <1>5, <1>6, <2>1, <2>2, <3>1
    <2>5. QED
        BY <2>3, <2>4
<1>16. LiveSoFar(b) = Before(live[r], history[i].at)
    BY <1>15 DEF LiveSoFar, Before
<1>17. QED
    BY <1>7, <1>10, <1>16

\* A row of a replay keeps the inductive invariant.
LEMMA ReplayRowInv ==
    ASSUME IInv, NEW b \in replays, ReplayRow(b)
    PROVE  IInv'
<1> DEFINE row == b.rows[b.next]
           r == b.rule
<1>0. TypeOK /\ RowsInv /\ LiveInv /\ SegmentInv /\ ReplayIsLive
    BY DEF IInv
<1>1. TypeOK'
    BY <1>0, ReplayRowType
<1>2. /\ b \in Replay /\ b.next \in Nat \ {0} /\ b.fires \in SUBSET Fire
      /\ r \in Definitions /\ b.next <= Len(b.rows)
      /\ b.rows \in Seq(Row)
    BY <1>0 DEF TypeOK, Replay, ReplayRow
<1>3. PICK fires :
         /\ fires = IF r \in Candidates(PairRules({r}), row, history)
                    THEN Record(r, b.fires, row) ELSE b.fires
         /\ replays' = (replays \ {b}) \cup
              {[b EXCEPT !.next = @ + 1, !.fires = fires]}
    BY DEF ReplayRow
<1> DEFINE c == [b EXCEPT !.next = @ + 1, !.fires = fires]
<1>4. c.rule = r /\ c.rows = b.rows /\ c.next = b.next + 1 /\ c.fires = fires
    BY <1>2 DEF Replay
<1>5. \A d \in replays' : d \in replays \/ d = c
    BY <1>3
<1> HIDE DEF c, row
<1>6. \E first : Segment(c, first)
    BY <1>0, <1>4 DEF SegmentInv, Segment
<1>7. ASSUME Comparable(c), SeesWhatLiveSaw(c) PROVE fires = LiveSoFar(c)
    <2>0. LooksBack(r) /\ r.type # "zscore_move" /\ r = Saved(r) /\ QuotedAsStored(c)
        BY <1>4, <1>7 DEF Comparable, LooksBack
    <2>1. SeesWhatLiveSaw(b)
        BY <1>4, <1>7 DEF SeesWhatLiveSaw
    <2>2. PICK i \in since[r] + 1 .. Len(history) :
             /\ row = history[i]
             /\ LiveSoFar(b) = Before(live[r], history[i].at)
        BY <1>2, <2>0, <2>1, NextIsLive DEF row
    <2>3. r \in Rules
        BY <2>0, <2>1 DEF SeesWhatLiveSaw
    <2>4. i \in 1 .. Len(history)
        <3>1. since[r] \in 0 .. Len(history) /\ Len(history) \in Nat
            BY <1>0, <2>3 DEF TypeOK
        <3>2. QED
            BY <3>1
    <2>5. row.last \in Int /\ quoted[i] = row
        <3>1. b.next \in 1 .. c.next - 1 /\ c.rows[b.next] = row
            BY <1>2, <1>4 DEF row
        <3>2. PICK j \in DOMAIN quoted : quoted[j] = row
            BY <2>0, <3>1 DEF QuotedAsStored
        <3>3. j \in 1 .. Len(history) /\ Len(history) \in Nat
            BY <1>0 DEF TypeOK
        <3>4. /\ quoted[j] \in Row /\ quoted[j].last \in Int /\ quoted[j].at = history[j].at
              /\ quoted[j].at \in Nat
            BY <1>0, <3>3, QuotedRows
        <3>5. history[i].at = history[j].at
            BY <2>2, <3>2, <3>4
        <3>6. ~ (i < j) /\ ~ (j < i)
            BY <1>0, <2>4, <3>2, <3>3, <3>4, <3>5 DEF RowsInv
        <3>7. i = j
            BY <2>4, <3>3, <3>6
        <3>8. QED
            BY <3>2, <3>4, <3>7
    <2>6. r \in Candidates(PairRules({r}), row, history) <=> Fires(r, row, history)
        <3>1. {r} \in SUBSET Rule /\ IsFiniteSet({r}) /\ r \in {r}
            BY <1>2, BacktestAssumption, FS_Singleton
        <3>2. QED
            BY <2>0, <2>5, <3>1, CandidateOf
    <2>7. b.fires = Before(live[r], history[i].at)
        <3>1. \A k \in 1 .. b.next - 1 : k \in 1 .. c.next - 1
            BY <1>2, <1>4
        <3>2. Comparable(b)
            BY <1>4, <1>7, <3>1 DEF Comparable, QuotedAsStored
        <3>3. QED
            BY <1>0, <2>0, <2>1, <2>2, <3>2 DEF ReplayIsLive
    <2>8. fires = Verdict(r, b.fires, row, history)
        BY <1>3, <2>6 DEF Verdict, row
    <2>9. fires = Upto(live[r], history[i].at)
        BY <1>0, <2>0, <2>2, <2>3, <2>5, <2>7, <2>8 DEF LiveInv
    <2>10. c.next > 1 /\ c.next - 1 = b.next
        BY <1>2, <1>4
    <2>11. LiveSoFar(c) = Upto(live[r], row.at)
        BY <1>4, <2>0, <2>10 DEF LiveSoFar, Upto, row
    <2>12. QED
        BY <2>2, <2>9, <2>11
<1>8. QED
    BY <1>1, <1>4, <1>5, <1>6, <1>7, ReplaysOnly DEF ReplayRow

\* The answer to a backtest keeps the inductive invariant.
LEMMA RespondInv ==
    ASSUME IInv, NEW b \in replays, Respond(b)
    PROVE  IInv'
<1>1. TypeOK'
    BY RespondType DEF IInv
<1>2. QED
    BY <1>1, ReplaysOnly DEF Respond

\* The inductive invariant holds at the start.
LEMMA InitInv == Init => IInv
<1> SUFFICES ASSUME Init PROVE IInv
    OBVIOUS
<1>1. history = <<>> /\ Rules = {} /\ replays = {}
    BY DEF Init, Rules
<1>2. IsFiniteSet(Rules)
    BY <1>1, FS_EmptySet
<1>3. 1 .. Len(history) = {}
    BY <1>1
<1>4. QED
    BY <1>1, <1>2, <1>3, InitType
       DEF IInv, RowsInv, LiveInv, SegmentInv, ReplayIsLive

\* Every step keeps the inductive invariant.
LEMMA InductiveStep == IInv /\ [Next]_vars => IInv'
<1> SUFFICES ASSUME IInv, [Next]_vars PROVE IInv'
    OBVIOUS
<1>1. ASSUME NEW q \in Quotes, NEW gap \in Gaps, Observe(q, gap) PROVE IInv'
    BY <1>1, ObserveInv
<1>2. ASSUME NEW r \in Definitions, CreateRule(r) PROVE IInv'
    BY <1>2, CreateInv
<1>3. ASSUME NEW r \in Definitions, NEW first \in 1 .. Len(history) + 1, Backtest(r, first)
      PROVE  IInv'
    BY <1>3, BacktestInv
<1>4. ASSUME NEW b \in replays, ReplayRow(b) PROVE IInv'
    BY <1>4, ReplayRowInv
<1>5. ASSUME NEW b \in replays, Respond(b) PROVE IInv'
    BY <1>5, RespondInv
<1>6. CASE UNCHANGED vars
    <2>1. TypeOK'
        BY <1>6, StepType DEF IInv
    <2>2. QED
        BY <1>6, <2>1, ReplaysOnly DEF vars
<1>7. QED
    BY <1>1, <1>2, <1>3, <1>4, <1>5, <1>6 DEF Next

\* The inductive invariant: the live engine's fires of a rule that looks back
\* are, quote by quote, the verdicts on the unrounded quote, the rounded rows
\* and the fires before; a replay walks along a segment of the history.
THEOREM Invariance == Spec => []IInv
<1>1. QED
    BY InitInv, InductiveStep, PTL DEF Spec

\* A backtest over the rows that its rule was live for finds the fires that
\* the live engine recorded, whatever other rules there are and however the
\* history grows meanwhile (api/routes/rules.py:261-265).  Comparable leaves
\* out the backtests that may find others: of z-scores, of negative windows, of
\* limits that are saved rounded, and over rows that were quoted with more
\* decimals than they are stored with.
THEOREM BacktestIsLive == Spec => []ReplayIsLive
<1>1. IInv => ReplayIsLive
    BY DEF IInv
<1>2. QED
    BY <1>1, Invariance, PTL
=============================================================================
