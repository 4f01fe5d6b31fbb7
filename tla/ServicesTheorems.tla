-------------------------- MODULE ServicesTheorems --------------------------
(***************************************************************************)
(* Theorems about the two services that run beside the indexer's loop: the *)
(* rankings of the trending service, and then the candle service's cursors *)
(* and candles.                                                            *)
(***************************************************************************)
EXTENDS Trending, Services, ArithmeticTheorems, SequenceTheorems

USE TrendingAssumption

SignalRows ==
  [volumeVelocity : Int, priceMomentum : Int, tradeIntensity : Int,
   holderGrowth : Int, uniqueTraders1h : Int, freshness : Int]

(* a is at least as good as b in every signal. *)
Dominates(a, b) == \A k \in Signals : a[k] >= b[k]

LEMMA SignalsAre ==
  Signals = {"volumeVelocity", "priceMomentum", "tradeIntensity",
             "holderGrowth", "uniqueTraders1h", "freshness"}
BY DEF Signals, W

(* Normalizing keeps the order of the values (normalize in computeScores). *)
LEMMA NormalizeMonotone ==
  ASSUME NEW D, IsFiniteSet(D), NEW values \in [D -> Int],
         NEW a \in D, NEW b \in D, values[a] >= values[b]
  PROVE  /\ normalize(values)[a] \in Nat
         /\ normalize(values)[b] \in Nat
         /\ normalize(values)[a] >= normalize(values)[b]
<1> DEFINE S == {values[m] : m \in D}
<1>1. S \in SUBSET Int /\ IsFiniteSet(S) /\ S # {}
  <2>1. values \in Surjection(D, S)
    BY DEF Surjection
  <2>2. IsFiniteSet(S)
    <3> HIDE DEF S
    <3>1. QED
      BY <2>1, FS_Surjection
  <2>3. S \in SUBSET Int /\ values[a] \in S
    OBVIOUS
  <2>4. QED
    BY <2>2, <2>3
<1> DEFINE max == Max(S)
           min == Min(S)
<1>2. /\ max \in S /\ \A y \in S : max >= y
      /\ min \in S /\ \A y \in S : min <= y
  <2> HIDE DEF S
  <2>1. QED
    BY <1>1, HasGreatest, HasLeast DEF Max, Min
<1>3. normalize(values) =
        [m \in D |-> IF max = min THEN 0 ELSE ((values[m] - min) * Unit) \div (max - min)]
  BY DEF normalize
<1>4. CASE max = min
  <2> HIDE DEF max, min
  <2>1. QED
    BY <1>3, <1>4
<1>5. CASE max # min
  <2> DEFINE width == max - min
             high == (values[a] - min) * Unit
             low == (values[b] - min) * Unit
  <2>1. max \in Int /\ min \in Int /\ values[a] \in Int /\ values[b] \in Int
    <3> HIDE DEF max, min, S
    <3>1. QED
      BY <1>1, <1>2
  <2>2. max >= min /\ min <= values[b] /\ min <= values[a]
    <3>1. values[a] \in S /\ values[b] \in S
      OBVIOUS
    <3> HIDE DEF max, min, S
    <3>2. QED
      BY <1>2, <3>1
  <2>3. width \in Nat \ {0} /\ high \in Nat /\ low \in Nat /\ low <= high
    <3> HIDE DEF max, min
    <3>1. QED
      BY <1>5, <2>1, <2>2 DEF Unit
  <2>4. /\ normalize(values)[a] = high \div width
        /\ normalize(values)[b] = low \div width
    <3> HIDE DEF max, min
    <3>1. QED
      BY <1>3, <1>5
  <2> HIDE DEF high, low, width
  <2>5. QED
    BY <2>3, <2>4, DivMonotone, DivRoundsDown
<1>6. QED
  BY <1>4, <1>5

(* The score is the weighted sum of six normalized signals, so a market    *)
(* that dominates another has a score that is not lower (computeScores).   *)
LEMMA ScoresMonotone ==
  ASSUME NEW D, IsFiniteSet(D), NEW raw \in [D -> SignalRows],
         NEW a \in D, NEW b \in D
  PROVE  /\ DOMAIN Scores(raw) = D
         /\ Scores(raw)[a] \in Nat
         /\ Dominates(raw[a], raw[b]) => Scores(raw)[a] >= Scores(raw)[b]
<1> DEFINE column(k) == [m \in D |-> raw[m][k]]
           n(k, m) == normalize(column(k))[m]
<1>1. ASSUME NEW k \in Signals
      PROVE  /\ column(k) \in [D -> Int]
             /\ n(k, a) \in Nat /\ n(k, b) \in Nat
             /\ raw[a][k] >= raw[b][k] => n(k, a) >= n(k, b)
  <2>1. column(k) \in [D -> Int]
    BY SignalsAre DEF SignalRows
  <2>2. ASSUME NEW x \in D, NEW y \in D, raw[x][k] >= raw[y][k]
        PROVE  n(k, x) \in Nat /\ n(k, y) \in Nat /\ n(k, x) >= n(k, y)
    <3>1. column(k)[x] >= column(k)[y]
      BY <2>2
    <3> HIDE DEF column
    <3>2. QED
      BY <2>1, <3>1, NormalizeMonotone
  <2>3. raw[a][k] \in Int /\ raw[b][k] \in Int
    BY SignalsAre DEF SignalRows
  <2> HIDE DEF n, column
  <2>4. QED
    BY <2>1, <2>2, <2>3
<1>2. /\ DOMAIN Scores(raw) = D
      /\ \A m \in D : Scores(raw)[m] =
           30 * n("volumeVelocity", m) + 15 * n("priceMomentum", m)
           + 20 * n("tradeIntensity", m) + 10 * n("holderGrowth", m)
           + 15 * n("uniqueTraders1h", m) + 10 * n("freshness", m)
  BY SignalsAre DEF Scores, W
<1> HIDE DEF n, column
<1>3. \A k \in Signals : /\ n(k, a) \in Nat /\ n(k, b) \in Nat
                         /\ raw[a][k] >= raw[b][k] => n(k, a) >= n(k, b)
  BY <1>1
<1>4. Scores(raw)[a] \in Nat
  BY <1>2, <1>3, SignalsAre
<1>5. ASSUME Dominates(raw[a], raw[b]) PROVE Scores(raw)[a] >= Scores(raw)[b]
  <2>1. \A k \in Signals : n(k, a) >= n(k, b)
    BY <1>3, <1>5 DEF Dominates
  <2>2. QED
    BY <1>2, <1>3, <2>1, SignalsAre
<1>6. QED
  BY <1>2, <1>4, <1>5

-----------------------------------------------------------------------------
(* The rows the service reads.                                             *)
MarketRows == [price : Nat \ {0}, holders : Nat, lastSwap : Nat]
SwapRows == [market : Markets, user : Users, price : Prices, time : Nat]

TableOf(t, D) == t = [m \in D |-> t[m]] /\ \A m \in D : t[m] \in MarketRows

IndexedInv ==
  /\ IsFiniteSet(DOMAIN market) /\ DOMAIN market \subseteq Markets
  /\ TableOf(market, DOMAIN market)
  /\ swap \in Seq(SwapRows)

SnapshotInv ==
  /\ DOMAIN snapshot \subseteq DOMAIN market
  /\ TableOf(snapshot, DOMAIN snapshot)
  /\ now \in Nat

LEMMA SwapRowType ==
  ASSUME IndexedInv
  PROVE  \A i \in DOMAIN swap : swap[i].price \in Nat \ {0}
<1>1. \A i \in DOMAIN swap : swap[i] \in SwapRows
  BY DEF IndexedInv
<1>2. QED
  BY <1>1 DEF SwapRows

LEMMA WindowFinite ==
  ASSUME IndexedInv, NEW m, NEW from, NEW to
  PROVE  /\ Window(m, from, to) \subseteq DOMAIN swap
         /\ IsFiniteSet(Window(m, from, to))
         /\ Cardinality(Window(m, from, to)) \in Nat
         /\ Volume(Window(m, from, to)) \in Nat
<1> DEFINE S == Window(m, from, to)
<1>1. IsFiniteSet(DOMAIN swap)
  <2>1. Len(swap) \in Nat /\ DOMAIN swap = 1 .. Len(swap)
    BY DEF IndexedInv
  <2>2. IsFiniteSet(1 .. Len(swap))
    BY <2>1, FS_Interval
  <2>3. QED
    BY <2>1, <2>2
<1>2. S \subseteq DOMAIN swap
  BY DEF Window
<1> HIDE DEF S
<1>3. IsFiniteSet(S) /\ Cardinality(S) \in Nat
  BY <1>1, <1>2, FS_Subset, FS_CardinalityType
<1>4. \A i \in S : swap[i].price \in Nat
  BY <1>2, SwapRowType
<1> DEFINE f == [i \in S |-> swap[i].price]
<1>5. \A i \in S : f[i] \in Nat
  BY <1>4
<1>6. Volume(S) = Total(f, S)
  BY DEF Volume
<1> HIDE DEF f
<1>7. Volume(S) \in Nat
  BY <1>3, <1>5, <1>6, TotalType
<1>8. QED
  BY <1>2, <1>3, <1>7 DEF S

LEMMA GrowthType ==
  ASSUME NEW recent \in Nat, NEW previous \in Nat
  PROVE  Growth(recent, previous) \in Int
<1>1. (recent - previous) * Unit \in Int
  BY DEF Unit
<1>2. CASE previous > 0
  <2>1. ((recent - previous) * Unit) \div previous \in Int
    BY <1>1, <1>2
  <2>2. QED
    BY <1>2, <2>1 DEF Growth
<1>3. CASE ~ (previous > 0)
  BY <1>3 DEF Growth, Unit
<1>4. QED
  BY <1>2, <1>3

LEMMA SmallerOfTwo ==
  ASSUME NEW a \in Int, NEW b \in Int
  PROVE  Min({a, b}) \in {a, b} /\ Max({a, b}) \in {a, b}
         /\ Max({a, b}) >= b
<1>1. \E x \in {a, b} : \A y \in {a, b} : x <= y
  OBVIOUS
<1>2. \E x \in {a, b} : \A y \in {a, b} : x >= y
  OBVIOUS
<1>3. QED
  BY <1>1, <1>2 DEF Min, Max

LEMMA ChangeType ==
  ASSUME NEW price \in Nat, NEW old \in Nat \ {0}
  PROVE  Change(price, old) \in Int
<1> DEFINE d == IF price > old THEN price - old ELSE old - price
           x == (d * Unit) \div old
<1>1. d \in Nat
  OBVIOUS
<1>2. x \in Int
  <2> HIDE DEF d
  <2>1. d * Unit \in Nat
    BY <1>1 DEF Unit
  <2>2. QED
    BY <2>1, DivRoundsDown
<1>3. Change(price, old) = Min({x, 10 * Unit})
  BY DEF Change
<1>4. 10 * Unit \in Int
  BY DEF Unit
<1> HIDE DEF x
<1>5. Min({x, 10 * Unit}) \in {x, 10 * Unit}
  BY <1>2, <1>4, SmallerOfTwo
<1>6. QED
  BY <1>2, <1>3, <1>4, <1>5

(* Users of recent swaps are finitely many, whoever may trade.             *)
LEMMA TradersType ==
  ASSUME IndexedInv, NEW S, S \subseteq DOMAIN swap, IsFiniteSet(S)
  PROVE  Cardinality({swap[i].user : i \in S}) \in Nat
<1> DEFINE T == {swap[i].user : i \in S}
           f == [i \in S |-> swap[i].user]
<1>1. f \in Surjection(S, T)
  BY DEF Surjection
<1> HIDE DEF T, f
<1>2. IsFiniteSet(T)
  BY <1>1, FS_Surjection
<1>3. QED
  BY <1>2, FS_CardinalityType DEF T

LEMMA RawScoreType ==
  ASSUME IndexedInv, SnapshotInv, NEW m \in DOMAIN snapshot, NEW old \in Nat \ {0}
  PROVE  RawScore(m, old) \in SignalRows
<1> DEFINE row == snapshot[m]
           recent == Window(m, now - WINDOW, MaxTime)
           previous == Window(m, now - 2 * WINDOW, now - WINDOW - 1)
           age == Max({now - row.lastSwap, 0})
<1>1. row \in MarketRows
  BY DEF SnapshotInv, TableOf
<1>2. /\ Growth(Volume(recent), Volume(previous)) \in Int
      /\ Growth(Cardinality(recent), Cardinality(previous)) \in Int
  <2> HIDE DEF recent, previous
  <2>1. /\ Volume(recent) \in Nat /\ Volume(previous) \in Nat
        /\ Cardinality(recent) \in Nat /\ Cardinality(previous) \in Nat
    BY WindowFinite DEF recent, previous
  <2>2. QED
    BY <2>1, GrowthType
<1>3. Change(row.price, old) \in Int
  BY <1>1, ChangeType DEF MarketRows
<1>4. Cardinality({swap[i].user : i \in recent}) \in Int
  <2> HIDE DEF recent
  <2>1. recent \subseteq DOMAIN swap /\ IsFiniteSet(recent)
    BY WindowFinite DEF recent
  <2>2. QED
    BY <2>1, TradersType
<1>5. Unit \div 2 ^ (age \div HALFLIFE) \in Int
  <2>1. age \in Nat
    <3>1. now - row.lastSwap \in Int
      BY <1>1 DEF SnapshotInv, MarketRows
    <3>2. QED
      BY <3>1, SmallerOfTwo
  <2> HIDE DEF age
  <2>2. age \div HALFLIFE \in Nat
    <3>1. HALFLIFE \in Nat \ {0}
      BY DEF HALFLIFE
    <3> HIDE DEF HALFLIFE
    <3>2. QED
      BY <2>1, <3>1, DivRoundsDown
  <2> DEFINE n == age \div HALFLIFE
             p == 2 ^ n
  <2>3. p \in Nat \ {0}
    BY <2>2, PowersOfTwo
  <2> HIDE DEF p
  <2>4. Unit \div p \in Int
    BY <2>3, DivRoundsDown DEF Unit
  <2>5. QED
    BY <2>4 DEF p
<1>6. row.holders \in Int
  BY <1>1 DEF MarketRows
<1>7. RawScore(m, old) =
        [volumeVelocity |-> Growth(Volume(recent), Volume(previous)),
         priceMomentum |-> Change(row.price, old),
         tradeIntensity |-> Growth(Cardinality(recent), Cardinality(previous)),
         holderGrowth |-> row.holders,
         uniqueTraders1h |-> Cardinality({swap[i].user : i \in recent}),
         freshness |-> Unit \div 2 ^ (age \div HALFLIFE)]
  BY DEF RawScore
<1>8. QED
  <2> HIDE DEF row, recent, previous, age
  <2>1. QED
    BY <1>2, <1>3, <1>4, <1>5, <1>6, <1>7 DEF SignalRows

-----------------------------------------------------------------------------
(* A whole ranking, as one computation leaves it: the rows in the order of *)
(* their ranks, each market once.                                          *)
Rows ==
  [market : Markets, rank : Nat, score : Nat, signals : SignalRows,
   category : {"hot", "rising", "warm", "cold"}, updatedAt : Nat]

Ranking(R) ==
  /\ R \in Seq(Rows)
  /\ \A i, j \in DOMAIN R :
       /\ R[i].rank = i
       /\ R[i].updatedAt = R[j].updatedAt
       /\ R[i].market = R[j].market => i = j
       /\ i < j => /\ R[i].score >= R[j].score
                   /\ Level[R[i].category] >= Level[R[j].category]
       /\ Dominates(R[i].signals, R[j].signals) => R[i].score >= R[j].score

MarketsOf(R, k) == {R[i].market : i \in 1 .. k}

(* The table t has the first k rows of R and no others.                    *)
Holds(t, R, k) ==
  /\ DOMAIN t = MarketsOf(R, k)
  /\ t = [m \in DOMAIN t |-> t[m]]
  /\ \A i \in 1 .. k : t[R[i].market] = R[i]

LEMMA OrderIsOnto ==
  ASSUME NEW D, IsFiniteSet(D), NEW order \in SetToSeqs(D)
  PROVE  /\ order \in Seq(D)
         /\ \A i, j \in DOMAIN order : order[i] = order[j] => i = j
         /\ {order[i] : i \in DOMAIN order} = D
<1> DEFINE N == 1 .. Cardinality(D)
<1>1. Cardinality(D) \in Nat /\ IsFiniteSet(N) /\ Cardinality(N) = Cardinality(D)
  BY FS_CardinalityType, FS_Interval
<1>2. order \in [N -> D] /\ \A i, j \in N : i # j => order[i] # order[j]
  BY DEF SetToSeqs
<1>3. order \in Seq(D)
  BY <1>1, <1>2
<1> HIDE DEF N
<1>4. order \in Injection(N, D)
  BY <1>2 DEF Injection, IsInjective
<1>5. order \in Surjection(N, D)
  BY <1>1, <1>4, FS_Injection
<1>6. {order[i] : i \in DOMAIN order} = D
  BY <1>2, <1>5 DEF Surjection
<1>7. QED
  BY <1>2, <1>3, <1>6

(* A category is never above that of a better rank (classifyRank).         *)
LEMMA CategoriesMonotone ==
  ASSUME NEW i \in Nat, NEW j \in Nat, i < j, NEW total \in Nat,
         NEW a \in Nat, NEW b \in Nat, a >= b
  PROVE  /\ classifyRank(i, total, a) \in {"hot", "rising", "warm", "cold"}
         /\ Level[classifyRank(i, total, a)] >= Level[classifyRank(j, total, b)]
BY DEF classifyRank, Level, Unit

(* What a computation is about to write is a whole ranking of the markets  *)
(* it has read (computeScores).                                            *)
LEMMA ComputedRanking ==
  ASSUME IndexedInv, SnapshotInv,
         NEW old \in [DOMAIN snapshot -> Nat \ {0}],
         NEW raw, raw = [m \in DOMAIN snapshot |-> RawScore(m, old[m])],
         NEW score, score = Scores(raw),
         NEW order \in Sorted(score),
         NEW R, R = [i \in 1 .. Len(order) |-> Final(order, raw, score, i)]
  PROVE  Ranking(R) /\ MarketsOf(R, Len(R)) = DOMAIN snapshot
<1> DEFINE D == DOMAIN snapshot
<1>1. IsFiniteSet(D) /\ D \subseteq Markets
  BY FS_Subset DEF IndexedInv, SnapshotInv
<1>2. raw \in [D -> SignalRows]
  BY RawScoreType
<1>3. DOMAIN score = D /\ \A m \in D : score[m] \in Nat
  <2>1. DOMAIN score = DOMAIN raw
    BY DEF Scores
  <2>2. ASSUME NEW m \in D PROVE score[m] \in Nat
    <3> HIDE DEF D
    <3>1. QED
      BY <1>1, <1>2, ScoresMonotone
  <2>3. QED
    BY <1>2, <2>1, <2>2
<1>4. \A a, b \in D : Dominates(raw[a], raw[b]) => score[a] >= score[b]
  <2> HIDE DEF D
  <2>1. QED
    BY <1>1, <1>2, ScoresMonotone
<1> HIDE DEF D
<1>5. /\ order \in SetToSeqs(D)
      /\ \A i, j \in DOMAIN order : i < j => score[order[i]] >= score[order[j]]
  BY <1>3 DEF Sorted
<1>6. /\ order \in Seq(D)
      /\ \A i, j \in DOMAIN order : order[i] = order[j] => i = j
      /\ {order[i] : i \in DOMAIN order} = D
  BY <1>1, <1>5, OrderIsOnto
<1>7. /\ Len(order) \in Nat /\ DOMAIN order = 1 .. Len(order)
      /\ \A i \in 1 .. Len(order) : order[i] \in D
  BY <1>6
<1>8. now \in Nat
  BY DEF SnapshotInv
<1>9. ASSUME NEW i \in 1 .. Len(order)
      PROVE  /\ R[i] = Final(order, raw, score, i)
             /\ R[i].market = order[i] /\ R[i].rank = i
             /\ R[i].score = score[order[i]] /\ R[i].signals = raw[order[i]]
             /\ R[i].category = classifyRank(i - 1, Len(order), score[order[i]])
             /\ R[i].updatedAt = now
  BY DEF Final
<1>10. ASSUME NEW i \in 1 .. Len(order), NEW j \in 1 .. Len(order), i < j
       PROVE  Level[R[i].category] >= Level[R[j].category]
  <2>1. /\ i - 1 \in Nat /\ j - 1 \in Nat /\ i - 1 < j - 1
        /\ score[order[i]] \in Nat /\ score[order[j]] \in Nat
        /\ score[order[i]] >= score[order[j]]
    BY <1>3, <1>5, <1>7, <1>10
  <2>2. Level[classifyRank(i - 1, Len(order), score[order[i]])]
          >= Level[classifyRank(j - 1, Len(order), score[order[j]])]
    BY <1>7, <2>1, CategoriesMonotone
  <2>3. QED
    BY <1>9, <2>2
<1>11. \A i \in 1 .. Len(order) : R[i] \in Rows
  <2>1. ASSUME NEW i \in 1 .. Len(order)
        PROVE  classifyRank(i - 1, Len(order), score[order[i]])
                 \in {"hot", "rising", "warm", "cold"}
    BY DEF classifyRank
  <2>2. QED
    BY <1>1, <1>2, <1>3, <1>7, <1>8, <2>1 DEF Final, Rows
<1>12. R \in Seq(Rows) /\ DOMAIN R = 1 .. Len(order) /\ Len(R) = Len(order)
  BY <1>7, <1>11
<1>13. Ranking(R)
  <2>1. ASSUME NEW i \in DOMAIN R, NEW j \in DOMAIN R
        PROVE  /\ R[i].rank = i
               /\ R[i].updatedAt = R[j].updatedAt
               /\ R[i].market = R[j].market => i = j
               /\ i < j => /\ R[i].score >= R[j].score
                           /\ Level[R[i].category] >= Level[R[j].category]
               /\ Dominates(R[i].signals, R[j].signals) => R[i].score >= R[j].score
    <3>1. i \in DOMAIN order /\ j \in DOMAIN order
      BY <1>7, <1>12
    <3>2. QED
      BY <1>4, <1>5, <1>6, <1>7, <1>9, <1>10, <1>12, <3>1
  <2>2. QED
    BY <1>12, <2>1 DEF Ranking
<1>14. MarketsOf(R, Len(R)) = D
  <2>1. \A i \in 1 .. Len(order) : R[i].market = order[i]
    BY <1>9
  <2>2. MarketsOf(R, Len(R)) = {R[i].market : i \in 1 .. Len(order)}
    BY <1>12 DEF MarketsOf
  <2>3. {R[i].market : i \in 1 .. Len(order)} = {order[i] : i \in 1 .. Len(order)}
    BY <2>1
  <2>4. QED
    BY <1>6, <1>7, <2>2, <2>3
<1>15. QED
  BY <1>13, <1>14 DEF D

-----------------------------------------------------------------------------
(* Readers see the rows of one whole ranking.                              *)
ReadersInv == \E R : Ranking(R) /\ Holds(trending_score, R, Len(R))

(* The open transaction holds the first rows of a ranking, the rest is to  *)
(* be written, and no market of the last ranking is missing from it.       *)
WritingInv ==
  writing =>
    \E R : /\ Ranking(R)
           /\ DOMAIN trending_score \subseteq MarketsOf(R, Len(R))
           /\ MarketsOf(R, Len(R)) \subseteq DOMAIN market
           /\ \E k \in 0 .. Len(R) :
                /\ Holds(txn, R, k)
                /\ finals \in Seq(Rows) /\ Len(finals) = Len(R) - k
                /\ \A i \in 1 .. Len(finals) : finals[i] = R[k + i]

(* One computation at a time, and markets are never deleted.               *)
PhaseInv ==
  /\ writing \in BOOLEAN
  /\ ~ writing => finals = <<>> /\ txn = Nothing
  /\ writing => snapshot = Nothing
  /\ snapshot # Nothing => DOMAIN trending_score \subseteq DOMAIN snapshot
  /\ DOMAIN trending_score \subseteq DOMAIN market

Inv == IndexedInv /\ SnapshotInv /\ PhaseInv /\ ReadersInv /\ WritingInv

LEMMA EmptyTable ==
  /\ DOMAIN Nothing = {} /\ TableOf(Nothing, {})
  /\ \A R : Holds(Nothing, R, 0)
  /\ Ranking(<<>>)
<1>1. DOMAIN Nothing = {} /\ TableOf(Nothing, {})
  BY DEF Nothing, TableOf
<1>2. \A R : MarketsOf(R, 0) = {}
  BY DEF MarketsOf
<1>3. \A R : Holds(Nothing, R, 0)
  BY <1>1, <1>2 DEF Holds, Nothing
<1>4. Ranking(<<>>)
  BY DEF Ranking
<1>5. QED
  BY <1>1, <1>3, <1>4

LEMMA InitInv == Init => Inv
<1> SUFFICES ASSUME Init PROVE Inv
  OBVIOUS
<1>1. IndexedInv
  BY EmptyTable, FS_EmptySet DEF Init, IndexedInv
<1>2. SnapshotInv
  BY EmptyTable DEF Init, SnapshotInv
<1>3. PhaseInv /\ WritingInv
  BY EmptyTable DEF Init, PhaseInv, WritingInv
<1>4. ReadersInv
  <2>1. Len(<<>>) = 0
    OBVIOUS
  <2>2. QED
    BY <2>1, EmptyTable DEF Init, ReadersInv
<1>5. QED
  BY <1>1, <1>2, <1>3, <1>4 DEF Inv

(* While nothing is being written the indexer adds rows and changes those  *)
(* it has, and removes none.                                               *)
LEMMA IndexerKeepsInv ==
  ASSUME Inv, ~ writing, IndexerNext
  PROVE  Inv'
<1> PICK m \in Markets :
      \/ CreateMarket(m)
      \/ \E user \in Users, price \in Prices, time \in 0 .. MaxTime :
           Swap(m, user, price, time)
      \/ AddHolder(m)
  BY DEF IndexerNext
<1>1. /\ UNCHANGED trending
      /\ DOMAIN market' = DOMAIN market \union {m}
      /\ TableOf(market', DOMAIN market')
      /\ swap' \in Seq(SwapRows)
  <2>1. TableOf(market, DOMAIN market) /\ swap \in Seq(SwapRows)
    BY DEF Inv, IndexedInv
  <2>2. CASE CreateMarket(m)
    <3> DEFINE row == [price |-> 1, holders |-> 1, lastSwap |-> 0]
    <3>1. row \in MarketRows
      BY DEF MarketRows
    <3>2. market' = Upserted(market, [x \in {m} |-> row])
      BY <2>2 DEF CreateMarket
    <3> HIDE DEF row
    <3>3. market' = [x \in DOMAIN market \union {m} |-> IF x = m THEN row ELSE market[x]]
      BY <3>2 DEF Upserted
    <3>4. TableOf(market', DOMAIN market \union {m})
      BY <2>1, <3>1, <3>3 DEF TableOf
    <3>5. QED
      BY <2>1, <2>2, <3>3, <3>4 DEF CreateMarket
  <2>3. CASE \E user \in Users, price \in Prices, time \in 0 .. MaxTime :
               Swap(m, user, price, time)
    <3>1. PICK user \in Users, price \in Prices, time \in 0 .. MaxTime :
            Swap(m, user, price, time)
      BY <2>3
    <3> DEFINE row == [market |-> m, user |-> user, price |-> price, time |-> time]
    <3>2. row \in SwapRows
      BY DEF SwapRows
    <3>3. swap' = Append(swap, row)
      BY <3>1 DEF Swap
    <3> HIDE DEF row
    <3>4. swap' \in Seq(SwapRows)
      BY <2>1, <3>2, <3>3
    <3>5. market' = [market EXCEPT ![m].price = price, ![m].lastSwap = time]
      BY <3>1 DEF Swap
    <3>6. m \in DOMAIN market /\ UNCHANGED trending
      BY <3>1 DEF Swap
    <3>7. DOMAIN market' = DOMAIN market
      BY <3>5
    <3>8. ASSUME NEW x \in DOMAIN market PROVE market'[x] \in MarketRows
      <4>1. market[x] \in MarketRows /\ market[m] \in MarketRows
        BY <2>1, <3>6 DEF TableOf
      <4>2. price \in Nat \ {0} /\ time \in Nat
        OBVIOUS
      <4> DEFINE r == market[m]
                 sold == [[r EXCEPT !.price = price] EXCEPT !.lastSwap = time]
      <4>3. market'[x] = IF x = m THEN sold ELSE market[x]
        BY <3>5, <3>6
      <4>4. sold \in MarketRows
        <5> HIDE DEF r
        <5>1. r \in MarketRows
          BY <4>1 DEF r
        <5>2. QED
          BY <4>2, <5>1 DEF MarketRows
      <4> HIDE DEF sold
      <4>5. QED
        BY <4>1, <4>3, <4>4
    <3>9. market' = [x \in DOMAIN market |-> market'[x]]
      BY <3>5
    <3>10. QED
      BY <3>4, <3>6, <3>7, <3>8, <3>9 DEF TableOf
  <2>4. CASE AddHolder(m)
    <3>1. market' = [market EXCEPT ![m].holders = @ + 1] /\ m \in DOMAIN market
      BY <2>4 DEF AddHolder
    <3>2. ASSUME NEW x \in DOMAIN market PROVE market'[x] \in MarketRows
      <4>1. market[x] \in MarketRows
        BY <2>1 DEF TableOf
      <4>2. market'[x] = IF x = m THEN [market[x] EXCEPT !.holders = @ + 1] ELSE market[x]
        BY <3>1
      <4>3. QED
        BY <4>1, <4>2 DEF MarketRows
    <3>3. market' = [x \in DOMAIN market |-> market'[x]] /\ DOMAIN market' = DOMAIN market
      BY <3>1
    <3>4. QED
      BY <2>1, <2>4, <3>1, <3>2, <3>3 DEF AddHolder, TableOf
  <2>5. QED
    BY <2>2, <2>3, <2>4
<1>2. IndexedInv'
  BY <1>1, FS_AddElement DEF Inv, IndexedInv
<1>3. SnapshotInv' /\ PhaseInv'
  BY <1>1 DEF Inv, SnapshotInv, PhaseInv, trending
<1>4. ReadersInv' /\ WritingInv'
  BY <1>1 DEF Inv, ReadersInv, WritingInv, trending
<1>5. QED
  BY <1>2, <1>3, <1>4 DEF Inv

LEMMA ReadMarketsKeepsInv ==
  ASSUME Inv, ReadMarkets
  PROVE  Inv'
<1>1. /\ snapshot' = market /\ UNCHANGED indexed
      /\ ~ writing /\ finals = <<>>
      /\ UNCHANGED <<trending_score, finals, txn, writing>>
  BY DEF ReadMarkets, Idle
<1>2. now' \in Nat
  <2>1. now \in Nat /\ swap \in Seq(SwapRows)
    BY DEF Inv, IndexedInv, SnapshotInv
  <2>2. LastTime \in Nat
    <3>1. CASE swap = <<>>
      BY <3>1 DEF LastTime
    <3>2. CASE swap # <<>>
      <4>1. Len(swap) \in 1 .. Len(swap) /\ swap[Len(swap)] \in SwapRows
        BY <2>1, <3>2
      <4>2. QED
        BY <3>2, <4>1 DEF LastTime, Last, SwapRows
    <3>3. QED
      BY <3>1, <3>2
  <2>3. Max({now, LastTime}) \in Nat
    <3>1. now \in Int /\ LastTime \in Int
      BY <2>1, <2>2
    <3> HIDE DEF LastTime
    <3>2. Max({now, LastTime}) \in {now, LastTime}
      BY <3>1, SmallerOfTwo
    <3>3. QED
      BY <2>1, <2>2, <3>2
  <2>4. now' \in Max({now, LastTime}) .. MaxTime
    BY DEF ReadMarkets
  <2>5. QED
    BY <2>3, <2>4
<1>3. IndexedInv' /\ SnapshotInv'
  BY <1>1, <1>2 DEF Inv, IndexedInv, SnapshotInv, indexed
<1>4. PhaseInv'
  BY <1>1 DEF Inv, PhaseInv, indexed
<1>5. ReadersInv' /\ WritingInv'
  BY <1>1 DEF Inv, ReadersInv, WritingInv
<1>6. QED
  BY <1>3, <1>4, <1>5 DEF Inv

LEMMA ComputeScoresKeepsInv ==
  ASSUME Inv, computeScores
  PROVE  Inv'
<1>1. /\ snapshot # Nothing /\ snapshot' = Nothing /\ writing' = TRUE
      /\ UNCHANGED indexed /\ UNCHANGED <<trending_score, now, txn>>
  BY DEF computeScores
<1>2. ~ writing /\ txn = Nothing /\ DOMAIN trending_score \subseteq DOMAIN snapshot
  BY <1>1 DEF Inv, PhaseInv
<1>3. Ranking(finals') /\ MarketsOf(finals', Len(finals')) = DOMAIN snapshot
  <2>1. PICK old \in [DOMAIN snapshot -> Prices \union {1}] :
          LET raw == [m \in DOMAIN snapshot |-> RawScore(m, old[m])]
              score == Scores(raw)
          IN \E order \in Sorted(score) :
               finals' = [i \in 1 .. Len(order) |-> Final(order, raw, score, i)]
    BY DEF computeScores
  <2> DEFINE raw == [m \in DOMAIN snapshot |-> RawScore(m, old[m])]
             score == Scores(raw)
  <2>2. PICK order \in Sorted(score) :
          finals' = [i \in 1 .. Len(order) |-> Final(order, raw, score, i)]
    BY <2>1
  <2>3. old \in [DOMAIN snapshot -> Nat \ {0}]
    <3>1. Prices \union {1} \subseteq Nat \ {0}
      OBVIOUS
    <3>2. QED
      BY <3>1
  <2>4. QED
    BY <2>2, <2>3, ComputedRanking DEF Inv
<1>4. IndexedInv' /\ SnapshotInv'
  BY <1>1, EmptyTable DEF Inv, IndexedInv, SnapshotInv, indexed
<1>5. PhaseInv'
  BY <1>1 DEF Inv, PhaseInv, indexed
<1>6. ReadersInv'
  BY <1>1 DEF Inv, ReadersInv
<1>7. WritingInv'
  <2> DEFINE R == finals'
  <2>1. /\ Ranking(R) /\ DOMAIN trending_score' \subseteq MarketsOf(R, Len(R))
        /\ MarketsOf(R, Len(R)) \subseteq DOMAIN market'
    BY <1>1, <1>2, <1>3 DEF Inv, SnapshotInv, indexed
  <2>2. /\ Holds(txn', R, 0) /\ R \in Seq(Rows) /\ 0 \in 0 .. Len(R)
        /\ Len(finals') = Len(R) - 0
        /\ \A i \in 1 .. Len(finals') : finals'[i] = R[0 + i]
    BY <1>1, <1>2, <2>1, EmptyTable DEF Ranking
  <2> HIDE DEF R
  <2>3. finals' \in Seq(Rows)
    BY <2>2 DEF R
  <2>4. QED
    BY <2>1, <2>2, <2>3 DEF WritingInv
<1>8. QED
  BY <1>4, <1>5, <1>6, <1>7 DEF Inv

(* The next row joins those of the transaction.                            *)
LEMMA UpsertScoreKeepsInv ==
  ASSUME Inv, UpsertScore
  PROVE  Inv'
<1> DEFINE row == Head(finals)
<1>1. /\ writing /\ finals # <<>>
      /\ txn' = Upserted(txn, Row(row)) /\ finals' = Tail(finals)
      /\ UNCHANGED indexed /\ UNCHANGED <<trending_score, snapshot, now, writing>>
  BY DEF UpsertScore
<1>2. IndexedInv' /\ SnapshotInv' /\ PhaseInv' /\ ReadersInv'
  BY <1>1 DEF Inv, IndexedInv, SnapshotInv, PhaseInv, ReadersInv, indexed
<1>3. WritingInv'
  <2>1. PICK R :
          /\ Ranking(R)
          /\ DOMAIN trending_score \subseteq MarketsOf(R, Len(R))
          /\ MarketsOf(R, Len(R)) \subseteq DOMAIN market
          /\ \E k \in 0 .. Len(R) :
               /\ Holds(txn, R, k)
               /\ finals \in Seq(Rows) /\ Len(finals) = Len(R) - k
               /\ \A i \in 1 .. Len(finals) : finals[i] = R[k + i]
    BY <1>1 DEF Inv, WritingInv
  <2>2. PICK k \in 0 .. Len(R) :
          /\ Holds(txn, R, k)
          /\ finals \in Seq(Rows) /\ Len(finals) = Len(R) - k
          /\ \A i \in 1 .. Len(finals) : finals[i] = R[k + i]
    BY <2>1
  <2>3. Len(R) \in Nat /\ k \in Nat
    BY <2>1 DEF Ranking
  <2>4. /\ Len(finals) \in Nat \ {0} /\ finals' \in Seq(Rows)
        /\ Len(finals') = Len(finals) - 1
        /\ \A i \in 1 .. Len(finals') : finals'[i] = finals[i + 1]
    BY <1>1, <2>2
  <2>5. k + 1 \in 0 .. Len(R) /\ Len(finals') = Len(R) - (k + 1)
    BY <2>2, <2>3, <2>4
  <2>6. \A i \in 1 .. Len(finals') : finals'[i] = R[(k + 1) + i]
    <3>1. ASSUME NEW i \in 1 .. Len(finals') PROVE finals'[i] = R[(k + 1) + i]
      <4>1. i + 1 \in 1 .. Len(finals) /\ k + (i + 1) = (k + 1) + i
        BY <2>3, <2>4
      <4>2. finals'[i] = finals[i + 1] /\ finals[i + 1] = R[k + (i + 1)]
        BY <2>2, <2>4, <4>1
      <4>3. QED
        BY <4>1, <4>2
    <3>2. QED
      BY <3>1
  <2>7. row = R[k + 1]
    <3>1. 1 \in 1 .. Len(finals) /\ row = finals[1]
      BY <2>2, <2>4
    <3>2. QED
      BY <2>2, <3>1
  <2> HIDE DEF row
  <2>8. Holds(txn', R, k + 1)
    <3>1. txn' = [m \in DOMAIN txn \union {row.market} |-> IF m = row.market THEN row ELSE txn[m]]
      BY <1>1 DEF Upserted, Row
    <3>2. \A i \in 1 .. k + 1 : i \in 1 .. k \/ i = k + 1
      BY <2>3
    <3>3. \A i \in 1 .. k : i \in 1 .. k + 1
      BY <2>3
    <3>4. k + 1 \in 1 .. k + 1
      BY <2>3
    <3>5. DOMAIN txn' = MarketsOf(R, k + 1)
      BY <2>2, <2>7, <3>1, <3>2, <3>3, <3>4 DEF Holds, MarketsOf
    <3>6. ASSUME NEW i \in 1 .. k + 1 PROVE txn'[R[i].market] = R[i]
      <4>1. CASE i = k + 1
        BY <2>7, <3>1, <4>1
      <4>2. CASE i \in 1 .. k
        <5>1. i \in DOMAIN R /\ k + 1 \in DOMAIN R /\ i # k + 1
          BY <2>1, <2>3, <2>5, <4>2 DEF Ranking
        <5>2. R[i].market # R[k + 1].market
          BY <2>1, <5>1 DEF Ranking
        <5>3. txn[R[i].market] = R[i] /\ R[i].market \in DOMAIN txn
          BY <2>2, <4>2 DEF Holds, MarketsOf
        <5>4. QED
          BY <2>7, <3>1, <5>2, <5>3
      <4>3. QED
        BY <3>2, <4>1, <4>2
    <3>7. txn' = [m \in DOMAIN txn' |-> txn'[m]]
      BY <3>1
    <3>8. QED
      BY <3>5, <3>6, <3>7 DEF Holds
  <2>9. /\ DOMAIN trending_score' \subseteq MarketsOf(R, Len(R))
        /\ MarketsOf(R, Len(R)) \subseteq DOMAIN market'
    BY <1>1, <2>1 DEF indexed
  <2>10. \E n \in 0 .. Len(R) :
           /\ Holds(txn', R, n)
           /\ finals' \in Seq(Rows) /\ Len(finals') = Len(R) - n
           /\ \A i \in 1 .. Len(finals') : finals'[i] = R[n + i]
    BY <2>4, <2>5, <2>6, <2>8
  <2>11. QED
    BY <2>1, <2>9, <2>10 DEF WritingInv
<1>4. QED
  BY <1>2, <1>3 DEF Inv

(* The commit replaces the whole ranking: every market of the last one has *)
(* a row in the transaction.                                               *)
LEMMA CommitKeepsInv ==
  ASSUME Inv, Commit
  PROVE  Inv'
<1>1. /\ writing /\ finals = <<>>
      /\ trending_score' = Upserted(trending_score, txn)
      /\ txn' = Nothing /\ writing' = FALSE
      /\ UNCHANGED indexed /\ UNCHANGED <<snapshot, now, finals>>
  BY DEF Commit
<1>2. PICK R :
        /\ Ranking(R)
        /\ DOMAIN trending_score \subseteq MarketsOf(R, Len(R))
        /\ MarketsOf(R, Len(R)) \subseteq DOMAIN market
        /\ \E k \in 0 .. Len(R) :
             /\ Holds(txn, R, k)
             /\ finals \in Seq(Rows) /\ Len(finals) = Len(R) - k
    BY <1>1 DEF Inv, WritingInv
<1>3. Holds(txn, R, Len(R))
  <2>1. PICK k \in 0 .. Len(R) : Holds(txn, R, k) /\ Len(finals) = Len(R) - k
    BY <1>2
  <2>2. Len(R) \in Nat /\ Len(finals) = 0
    BY <1>1, <1>2 DEF Ranking
  <2>3. k = Len(R)
    BY <2>1, <2>2
  <2>4. QED
    BY <2>1, <2>3
<1>4. trending_score' = txn
  BY <1>1, <1>2, <1>3 DEF Upserted, Holds
<1>5. IndexedInv' /\ SnapshotInv' /\ WritingInv'
  BY <1>1 DEF Inv, IndexedInv, SnapshotInv, WritingInv, indexed
<1>6. PhaseInv'
  BY <1>1, <1>2, <1>3, <1>4 DEF Inv, PhaseInv, Holds, indexed
<1>7. ReadersInv'
  BY <1>2, <1>3, <1>4 DEF ReadersInv
<1>8. QED
  BY <1>5, <1>6, <1>7 DEF Inv

LEMMA RollbackKeepsInv ==
  ASSUME Inv, Rollback
  PROVE  Inv'
<1>1. /\ snapshot' = Nothing /\ finals' = <<>> /\ txn' = Nothing /\ writing' = FALSE
      /\ UNCHANGED indexed /\ UNCHANGED <<trending_score, now>>
  BY DEF Rollback
<1>2. IndexedInv' /\ SnapshotInv' /\ WritingInv' /\ ReadersInv'
  BY <1>1, EmptyTable
     DEF Inv, IndexedInv, SnapshotInv, WritingInv, ReadersInv, indexed
<1>3. PhaseInv'
  BY <1>1 DEF Inv, PhaseInv, indexed
<1>4. QED
  BY <1>2, <1>3 DEF Inv

LEMMA AlwaysInv == Spec => []Inv
<1>1. Init => Inv
  BY InitInv
<1>2. Inv /\ [Next]_vars => Inv'
  <2> SUFFICES ASSUME Inv, [Next]_vars PROVE Inv'
    OBVIOUS
  <2>1. CASE ~ writing /\ IndexerNext
    BY <2>1, IndexerKeepsInv
  <2>2. CASE ReadMarkets
    BY <2>2, ReadMarketsKeepsInv
  <2>3. CASE computeScores
    BY <2>3, ComputeScoresKeepsInv
  <2>4. CASE UpsertScore
    BY <2>4, UpsertScoreKeepsInv
  <2>5. CASE Commit
    BY <2>5, CommitKeepsInv
  <2>6. CASE Rollback
    BY <2>6, RollbackKeepsInv
  <2>7. CASE UNCHANGED vars
    BY <2>7 DEF vars, indexed, trending, Inv, IndexedInv, SnapshotInv, PhaseInv,
                ReadersInv, WritingInv
  <2>8. QED
    BY <2>1, <2>2, <2>3, <2>4, <2>5, <2>6, <2>7 DEF Next
<1>3. QED
  BY <1>1, <1>2, PTL DEF Spec

(* Readers never see a mix of two rankings: ranks are 1 to n in the order  *)
(* of the scores, all of one time (the transaction of computeScores).      *)
THEOREM RankingStaysWhole == Spec => []RankingWhole
<1>1. Inv => RankingWhole
  <2> SUFFICES ASSUME Inv PROVE RankingWhole
    OBVIOUS
  <2>1. PICK R : Ranking(R) /\ Holds(trending_score, R, Len(R))
    BY DEF Inv, ReadersInv
  <2> DEFINE D == DOMAIN trending_score
             N == 1 .. Len(R)
             f == [i \in N |-> R[i].market]
  <2>2. /\ Len(R) \in Nat /\ DOMAIN R = N
        /\ D = {R[i].market : i \in N}
        /\ \A i \in N : trending_score[R[i].market] = R[i]
    BY <2>1 DEF Ranking, Holds, MarketsOf
  <2>3. Cardinality(D) = Len(R)
    <3>1. IsFiniteSet(N) /\ Cardinality(N) = Len(R)
      <4> DEFINE n == Len(R)
      <4>1. n \in Nat
        BY <2>2
      <4> HIDE DEF n
      <4>2. IsFiniteSet(1 .. n) /\ Cardinality(1 .. n) = n
        BY <4>1, FS_Interval
      <4>3. QED
        BY <4>2 DEF n
    <3>2. \A i, j \in N : R[i].market = R[j].market => i = j
      BY <2>1, <2>2 DEF Ranking
    <3> HIDE DEF D, N
    <3>3. f \in Bijection(N, D)
      BY <2>2, <3>2 DEF Bijection, Injection, Surjection, IsInjective
    <3>4. QED
      BY <3>1, <3>3, FS_Bijection DEF ExistsBijection
  <2>4. {trending_score[m].rank : m \in D} = N
    <3>1. \A i \in N : trending_score[R[i].market].rank = i /\ R[i].market \in D
      BY <2>1, <2>2 DEF Ranking
    <3>2. \A m \in D : \E i \in N : m = R[i].market
      BY <2>2
    <3> HIDE DEF D, N
    <3>3. QED
      BY <3>1, <3>2
  <2>5. ASSUME NEW a \in D, NEW b \in D
        PROVE  /\ trending_score[a].updatedAt = trending_score[b].updatedAt
               /\ trending_score[a].rank < trending_score[b].rank =>
                    /\ trending_score[a].score >= trending_score[b].score
                    /\ Level[trending_score[a].category] >= Level[trending_score[b].category]
    <3>1. PICK i \in N, j \in N : a = R[i].market /\ b = R[j].market
      BY <2>2
    <3>2. trending_score[a] = R[i] /\ trending_score[b] = R[j]
      BY <2>2, <3>1
    <3>3. /\ R[i].updatedAt = R[j].updatedAt /\ R[i].rank = i /\ R[j].rank = j
          /\ i < j => /\ R[i].score >= R[j].score
                      /\ Level[R[i].category] >= Level[R[j].category]
      BY <2>1, <2>2 DEF Ranking
    <3>4. QED
      BY <3>2, <3>3
  <2>6. QED
    BY <2>3, <2>4, <2>5 DEF RankingWhole
<1>2. QED
  BY <1>1, AlwaysInv, PTL

(* A market that is at least as good in every signal has a score that is   *)
(* not lower, whatever the other markets are (computeScores).              *)
THEOREM LeadersAlwaysRankFirst == Spec => []LeadersRankFirst
<1>1. Inv => LeadersRankFirst
  <2> SUFFICES ASSUME Inv,
                      NEW a \in DOMAIN trending_score, NEW b \in DOMAIN trending_score,
                      Dominates(trending_score[a].signals, trending_score[b].signals)
               PROVE  trending_score[a].score >= trending_score[b].score
    BY DEF LeadersRankFirst, Dominates
  <2>1. PICK R : Ranking(R) /\ Holds(trending_score, R, Len(R))
    BY DEF Inv, ReadersInv
  <2>2. PICK i \in 1 .. Len(R), j \in 1 .. Len(R) : a = R[i].market /\ b = R[j].market
    BY <2>1 DEF Holds, MarketsOf
  <2>3. /\ trending_score[a] = R[i] /\ trending_score[b] = R[j]
        /\ i \in DOMAIN R /\ j \in DOMAIN R
    BY <2>1, <2>2 DEF Holds, Ranking
  <2>4. QED
    BY <2>1, <2>3 DEF Ranking
<1>2. QED
  BY <1>1, AlwaysInv, PTL
HIDE TrendingAssumption
-----------------------------------------------------------------------------
USE CandlesAssumption

LEMMA FrameFacts ==
  /\ 1 \in Frames
  /\ \A k \in Frames : /\ k \in Nat \ {0}
                       /\ Timeframes[k] \in Nat \ {0}
                       /\ \E e \in Nat \ {0} : Timeframes[k] = e * Timeframes[1]
<1>1. Timeframes \in Seq(Nat \ {0}) /\ Timeframes # <<>>
  OBVIOUS
<1>2. Frames = 1 .. Len(Timeframes) /\ Len(Timeframes) \in Nat \ {0}
  BY <1>1 DEF Frames
<1>3. \A k \in Frames : k \in Nat \ {0} /\ Timeframes[k] \in Nat \ {0}
  BY <1>1, <1>2
<1>4. 1 \in Frames
  BY <1>2
<1>5. ASSUME NEW k \in Frames
      PROVE  \E e \in Nat \ {0} : Timeframes[k] = e * Timeframes[1]
  <2> DEFINE a == Timeframes[k]
             b == Timeframes[1]
  <2>1. a \in Nat \ {0} /\ b \in Nat \ {0}
    BY <1>3, <1>4, <1>5
  <2>2. a % b = 0
    BY <1>5 DEF Frames
  <2> HIDE DEF a, b
  <2>3. a = b * (a \div b) + (a % b) /\ a \div b \in Nat
    <3>1. a = b * (a \div b) + (a % b)
      BY <2>1
    <3>2. a \div b \in Nat
      BY <2>1, DivRoundsDown
    <3>3. QED
      BY <3>1, <3>2
  <2>4. a = b * (a \div b)
    BY <2>1, <2>2, <2>3
  <2>5. a = (a \div b) * b
    BY <2>1, <2>3, <2>4
  <2>6. a \div b # 0
    BY <2>1, <2>4, <2>3
  <2>7. QED
    BY <2>3, <2>5, <2>6 DEF a, b
<1>6. QED
  BY <1>3, <1>4, <1>5

(* The starts of the periods of a timeframe.                               *)
Starts(k) == {d * Timeframes[k] : d \in Nat}

(* Two starts are a whole period apart.                                    *)
LEMMA StartsApart ==
  ASSUME NEW k \in Frames, NEW p \in Starts(k), NEW q \in Starts(k), p < q
  PROVE  p + Timeframes[k] <= q
<1> DEFINE n == Timeframes[k]
<1>1. n \in Nat \ {0}
  BY FrameFacts
<1>2. PICK a \in Nat : p = a * n
  BY DEF Starts
<1>3. PICK b \in Nat : q = b * n
  BY DEF Starts
<1> HIDE DEF n
<1>4. SUFFICES a * n + n <= b * n
  BY <1>2, <1>3 DEF n
<1>5. a < b
  <2>1. SUFFICES ASSUME b <= a PROVE FALSE
    OBVIOUS
  <2>2. PICK e \in Nat : a = b + e
    <3>1. a - b \in Nat /\ a = b + (a - b)
      BY <2>1
    <3>2. QED
      BY <3>1
  <2>3. a * n = b * n + e * n /\ e * n \in Nat /\ b * n \in Nat
    BY <1>1, <2>2
  <2>4. QED
    BY <1>2, <1>3, <2>3 DEF n
<1>6. PICK e \in Nat : b = a + 1 + e
  <2>1. b - a - 1 \in Nat /\ b = a + 1 + (b - a - 1)
    BY <1>5
  <2>2. QED
    BY <2>1
<1>7. b * n = a * n + n + e * n /\ e * n \in Nat /\ a * n \in Nat
  BY <1>1, <1>6
<1>8. QED
  BY <1>1, <1>7

(* The starts of every timeframe are starts of the finest one.             *)
LEMMA StartsFinest ==
  ASSUME NEW k \in Frames
  PROVE  Starts(k) \subseteq Starts(1) /\ Starts(k) \subseteq Nat /\ 0 \in Starts(k)
<1> DEFINE n == Timeframes[k]
           b == Timeframes[1]
<1>1. n \in Nat \ {0} /\ b \in Nat \ {0}
  BY FrameFacts
<1>2. PICK e \in Nat \ {0} : n = e * b
  BY FrameFacts
<1> HIDE DEF n, b
<1>3. ASSUME NEW d \in Nat
      PROVE  d * n = (d * e) * b /\ d * e \in Nat /\ d * n \in Nat
  <2>1. d * e \in Nat /\ d * n \in Nat
    BY <1>1
  <2>2. d * (e * b) = (d * e) * b
    BY <1>1
  <2>3. d * n = d * (e * b)
    BY <1>2, Zenon
  <2>4. d * n = (d * e) * b
    BY <2>2, <2>3, Zenon
  <2>5. QED
    BY <2>1, <2>4, Zenon
<1>4. 0 = 0 * n
  BY <1>1
<1>5. Starts(k) = {d * n : d \in Nat} /\ Starts(1) = {d * b : d \in Nat}
  BY DEF Starts, n, b
<1>6. ASSUME NEW q \in Starts(k)
      PROVE  q \in Starts(1) /\ q \in Nat
  <2>1. PICK d \in Nat : q = d * n
    BY <1>5, <1>6, Zenon
  <2>2. q = (d * e) * b /\ d * e \in Nat /\ q \in Nat
    BY <1>3, <2>1, Zenon
  <2>3. QED
    BY <1>5, <2>2, Zenon
<1>7. 0 \in Starts(k)
  BY <1>4, <1>5
<1>8. QED
  BY <1>6, <1>7

(* The period of a time holds it, and starts after every start before it.  *)
LEMMA PeriodFacts ==
  ASSUME NEW k \in Frames, NEW t \in Nat
  PROVE  LET p == periodStart(t, k)
         IN /\ p \in Starts(k) /\ p \in Nat
            /\ p <= t /\ t < p + Timeframes[k]
            /\ \A q \in Starts(k) : q <= t => q <= p
            /\ \A q \in Starts(k) : q <= t /\ t < q + Timeframes[k] => q = p
<1> DEFINE n == Timeframes[k]
           p == periodStart(t, k)
<1>1. n \in Nat \ {0}
  BY FrameFacts
<1>2. p = (t \div n) * n
  BY DEF periodStart
<1>3. t \div n \in Nat /\ (t \div n) * n <= t /\ t < (t \div n + 1) * n
  BY <1>1, DivRoundsDown
<1>4. (t \div n + 1) * n = (t \div n) * n + n
  BY <1>1, <1>3
<1>5. p \in Starts(k)
  BY <1>2, <1>3 DEF Starts
<1>6. p \in Nat /\ p <= t /\ t < p + n
  BY <1>2, <1>3, <1>4, <1>5, StartsFinest
<1> HIDE DEF p
<1>7. ASSUME NEW q \in Starts(k), q <= t PROVE q <= p
  <2>1. q \in Nat
    BY StartsFinest
  <2>2. p < q => p + n <= q
    BY <1>5, StartsApart
  <2>3. QED
    BY <1>1, <1>6, <1>7, <2>1, <2>2
<1>8. ASSUME NEW q \in Starts(k), q <= t, t < q + n PROVE q = p
  <2>1. q \in Nat
    BY StartsFinest
  <2>2. q < p => q + n <= p
    BY <1>5, StartsApart
  <2>3. QED
    BY <1>1, <1>6, <1>7, <1>8, <2>1, <2>2
<1>9. QED
  BY <1>5, <1>6, <1>7, <1>8 DEF p

(* The extremes of a finite set of numbers.                                *)
LEMMA Extremes ==
  ASSUME NEW S \in SUBSET Int, IsFiniteSet(S), S # {}
  PROVE  /\ Min(S) \in S /\ \A x \in S : Min(S) <= x
         /\ Max(S) \in S /\ \A x \in S : Max(S) >= x
<1>1. Min(S) \in S /\ \A x \in S : Min(S) <= x
  BY HasLeast DEF Min
<1>2. Max(S) \in S /\ \A x \in S : Max(S) >= x
  BY HasGreatest DEF Max
<1>3. QED
  BY <1>1, <1>2

CandleRecords ==
  [open : Int, high : Int, low : Int, close : Int, trades : Nat, period : Int]

(* The candle that the swaps S of the table s make.                        *)
PricesIn(s, S) == {s[i].price : i \in S}
CandleIn(s, S, period) ==
  [open |-> s[Min(S)].price, high |-> Max(PricesIn(s, S)), low |-> Min(PricesIn(s, S)),
   close |-> s[Max(S)].price, trades |-> Cardinality(S), period |-> period]

LEMMA CandleFacts ==
  ASSUME NEW s, NEW S \in SUBSET Int, IsFiniteSet(S), S # {},
         \A i \in S : s[i].price \in Int, NEW period
  PROVE  LET c == CandleIn(s, S, period)
         IN /\ Min(S) \in S /\ \A i \in S : Min(S) <= i
            /\ Max(S) \in S /\ \A i \in S : i <= Max(S)
            /\ c.open = s[Min(S)].price /\ c.close = s[Max(S)].price
            /\ c.high \in PricesIn(s, S) /\ \A p \in PricesIn(s, S) : p <= c.high
            /\ c.low \in PricesIn(s, S) /\ \A p \in PricesIn(s, S) : c.low <= p
            /\ PricesIn(s, S) \in SUBSET Int
            /\ c.trades = Cardinality(S) /\ c.trades \in Nat \ {0}
            /\ c.period = period
            /\ \A i \in S : s[i].price \in PricesIn(s, S)
<1> DEFINE P == PricesIn(s, S)
<1>1. P \in SUBSET Int /\ P # {} /\ \A i \in S : s[i].price \in P
  BY DEF PricesIn
<1>2. IsFiniteSet(P)
  <2> DEFINE f == [i \in S |-> s[i].price]
  <2>1. f \in Surjection(S, P)
    BY DEF Surjection, PricesIn
  <2>2. QED
    BY <2>1, FS_Surjection
<1>3. /\ Min(P) \in P /\ \A x \in P : Min(P) <= x
      /\ Max(P) \in P /\ \A x \in P : Max(P) >= x
  BY <1>1, <1>2, Extremes
<1>4. /\ Min(S) \in S /\ \A x \in S : Min(S) <= x
      /\ Max(S) \in S /\ \A x \in S : Max(S) >= x
  BY Extremes
<1>5. Cardinality(S) \in Nat \ {0}
  BY FS_CardinalityType, FS_EmptySet
<1> HIDE DEF P
<1>6. CandleIn(s, S, period) =
        [open |-> s[Min(S)].price, high |-> Max(P), low |-> Min(P),
         close |-> s[Max(S)].price, trades |-> Cardinality(S), period |-> period]
  BY DEF CandleIn, P
<1>7. \A x \in P : x <= Max(P)
  BY <1>1, <1>3
<1>8. \A i \in S : i <= Max(S)
  BY <1>4
<1>9. QED
  BY <1>1, <1>3, <1>4, <1>5, <1>6, <1>7, <1>8 DEF P

(* A number between the others of a set and in it is its extreme.          *)
LEMMA TheLeast ==
  ASSUME NEW S \in SUBSET Int, NEW x \in S, \A y \in S : x <= y
  PROVE  Min(S) = x
<1>1. Min(S) \in S /\ \A y \in S : Min(S) <= y
  BY DEF Min
<1>2. Min(S) <= x /\ x <= Min(S) /\ Min(S) \in Int /\ x \in Int
  BY <1>1
<1>3. QED
  BY <1>2

LEMMA TheGreatest ==
  ASSUME NEW S \in SUBSET Int, NEW x \in S, \A y \in S : x >= y
  PROVE  Max(S) = x
<1>1. Max(S) \in S /\ \A y \in S : Max(S) >= y
  BY DEF Max
<1>2. Max(S) >= x /\ x >= Max(S) /\ Max(S) \in Int /\ x \in Int
  BY <1>1
<1>3. QED
  BY <1>2

LEMMA MergeFields ==
  ASSUME NEW row \in CandleRecords, NEW c \in CandleRecords
  PROVE  LET d == Merge(row, c)
         IN /\ d \in CandleRecords
            /\ d.open = row.open /\ d.period = row.period /\ d.close = c.close
            /\ d.high = Higher(row.high, c.high)
            /\ d.low = Lower(row.low, c.low)
            /\ d.trades = row.trades + c.trades
<1>1. /\ row.open \in Int /\ row.high \in Int /\ row.low \in Int /\ row.close \in Int
      /\ row.trades \in Nat /\ row.period \in Int
      /\ c.open \in Int /\ c.high \in Int /\ c.low \in Int /\ c.close \in Int
      /\ c.trades \in Nat /\ c.period \in Int
  BY DEF CandleRecords
<1>2. /\ Higher(row.high, c.high) \in Int /\ Lower(row.low, c.low) \in Int
      /\ row.trades + c.trades \in Nat
  BY <1>1 DEF Higher, Lower
<1>3. QED
  BY <1>1, <1>2 DEF Merge, CandleRecords

LEMMA TradeFields ==
  ASSUME NEW c \in CandleRecords, NEW p \in Int
  PROVE  LET d == Trade(c, p)
         IN /\ d \in CandleRecords
            /\ d.trades = c.trades + 1 /\ d.period = c.period
<1>1. /\ c.open \in Int /\ c.high \in Int /\ c.low \in Int /\ c.close \in Int
      /\ c.trades \in Nat /\ c.period \in Int
  BY DEF CandleRecords
<1>2. Higher(c.high, p) \in Int /\ Lower(c.low, p) \in Int
  BY <1>1 DEF Higher, Lower
<1>3. QED
  BY <1>1, <1>2 DEF Trade, CandleRecords

(* TakeIn adds the next swap to a candle.                                  *)
LEMMA CandleGrows ==
  ASSUME NEW s, NEW S \in SUBSET Int, IsFiniteSet(S), S # {},
         NEW r \in Int, \A i \in S : i < r,
         \A i \in S \union {r} : s[i].price \in Int, NEW period
  PROVE  CandleIn(s, S \union {r}, period) = Trade(CandleIn(s, S, period), s[r].price)
<1> DEFINE T == S \union {r}
           c == CandleIn(s, S, period)
           d == CandleIn(s, T, period)
           p == s[r].price
<1>1. /\ T \in SUBSET Int /\ IsFiniteSet(T) /\ T # {}
      /\ Cardinality(T) = Cardinality(S) + 1
  <2>1. r \notin S
    OBVIOUS
  <2>2. QED
    BY <2>1, FS_AddElement
<1>2. PricesIn(s, T) = PricesIn(s, S) \union {p} /\ p \in Int
  BY DEF PricesIn
<1>3. /\ Min(S) \in S /\ \A i \in S : Min(S) <= i
      /\ c.high \in PricesIn(s, S) /\ \A x \in PricesIn(s, S) : x <= c.high
      /\ c.low \in PricesIn(s, S) /\ \A x \in PricesIn(s, S) : c.low <= x
      /\ PricesIn(s, S) \in SUBSET Int
  BY CandleFacts
<1>4. Min(T) = Min(S)
  <2>1. Min(S) \in T /\ Min(S) \in Int /\ Min(S) < r
    BY <1>3
  <2>2. \A i \in T : Min(S) <= i
    BY <1>3, <2>1
  <2>3. QED
    BY <1>1, <2>1, <2>2, TheLeast
<1>5. Max(T) = r
  <2>1. r \in T /\ \A i \in T : r >= i
    <3>1. \A i \in S : i \in Int /\ r >= i
      OBVIOUS
    <3>2. QED
      BY <3>1
  <2>2. QED
    BY <1>1, <2>1, TheGreatest
<1> DEFINE hi == c.high
           lo == c.low
<1>6. /\ c.open = s[Min(S)].price /\ c.trades = Cardinality(S) /\ c.period = period
  BY DEF CandleIn
<1> HIDE DEF c, hi, lo, T
<1>7. Max(PricesIn(s, T)) = Higher(hi, p)
  <2>1. Higher(hi, p) \in PricesIn(s, T) /\ \A x \in PricesIn(s, T) : Higher(hi, p) >= x
    <3>1. hi \in Int /\ hi \in PricesIn(s, S) /\ \A x \in PricesIn(s, S) : x \in Int /\ x <= hi
      BY <1>3 DEF hi
    <3>2. QED
      BY <1>2, <3>1 DEF Higher
  <2>2. PricesIn(s, T) \in SUBSET Int
    BY <1>2, <1>3
  <2>3. QED
    BY <2>1, <2>2, TheGreatest
<1>8. Min(PricesIn(s, T)) = Lower(lo, p)
  <2>1. Lower(lo, p) \in PricesIn(s, T) /\ \A x \in PricesIn(s, T) : Lower(lo, p) <= x
    <3>1. lo \in Int /\ lo \in PricesIn(s, S) /\ \A x \in PricesIn(s, S) : x \in Int /\ lo <= x
      BY <1>3 DEF lo
    <3>2. QED
      BY <1>2, <3>1 DEF Lower
  <2>2. PricesIn(s, T) \in SUBSET Int
    BY <1>2, <1>3
  <2>3. QED
    BY <2>1, <2>2, TheLeast
<1>9. d = [open |-> s[Min(S)].price, high |-> Higher(hi, p), low |-> Lower(lo, p),
           close |-> p, trades |-> Cardinality(S) + 1, period |-> period]
  BY <1>1, <1>4, <1>5, <1>7, <1>8 DEF CandleIn, T
<1>10. Trade(c, p) = [open |-> s[Min(S)].price, high |-> Higher(hi, p), low |-> Lower(lo, p),
           close |-> p, trades |-> Cardinality(S) + 1, period |-> period]
  BY <1>6 DEF Trade, hi, lo
<1>11. QED
  BY <1>9, <1>10 DEF c, T

(* or starts one with it.                                                  *)
LEMMA CandleStarts ==
  ASSUME NEW s, NEW r \in Int, s[r].price \in Int, NEW period
  PROVE  CandleIn(s, {r}, period) = Trade(Fresh(s[r].price, period), s[r].price)
<1> DEFINE p == s[r].price
<1>1. PricesIn(s, {r}) = {p}
  BY DEF PricesIn
<1>2. \A x \in Int : Min({x}) = x /\ Max({x}) = x
  <2> SUFFICES ASSUME NEW x \in Int PROVE Min({x}) = x /\ Max({x}) = x
    OBVIOUS
  <2>1. {x} \in SUBSET Int /\ x \in {x} /\ \A y \in {x} : x <= y /\ x >= y
    OBVIOUS
  <2>2. QED
    BY <2>1, TheLeast, TheGreatest
<1>3. Cardinality({r}) = 1
  BY FS_Singleton
<1>4. CandleIn(s, {r}, period) = [open |-> p, high |-> p, low |-> p, close |-> p,
                                  trades |-> 1, period |-> period]
  BY <1>1, <1>2, <1>3 DEF CandleIn
<1>5. Trade(Fresh(p, period), p) = [open |-> p, high |-> p, low |-> p, close |-> p,
                                    trades |-> 1, period |-> period]
  <2>1. Higher(p, p) = p /\ Lower(p, p) = p
    BY DEF Higher, Lower
  <2>2. QED
    BY <2>1 DEF Fresh, Trade
<1>6. QED
  BY <1>4, <1>5

(* The candle of a set of rows is the same in a longer table.              *)
LEMMA CandleSame ==
  ASSUME NEW s, NEW t, NEW S \in SUBSET Int, IsFiniteSet(S), S # {},
         \A i \in S : s[i].price = t[i].price, NEW period
  PROVE  CandleIn(s, S, period) = CandleIn(t, S, period)
<1>1. Min(S) \in S /\ Max(S) \in S
  BY Extremes
<1>2. PricesIn(s, S) = PricesIn(t, S)
  BY DEF PricesIn
<1>3. QED
  BY <1>1, <1>2 DEF CandleIn
-----------------------------------------------------------------------------
SwapRecords == [market : MarketIds, time : Nat, id : Ids, price : Nat]

CandleTable ==
  /\ candles \in [DOMAIN candles -> CandleRecords]
  /\ IsFiniteSet(DOMAIN candles) /\ DOMAIN candles \subseteq MarketIds \X Frames \X Nat
  /\ \A key \in DOMAIN candles : candles[key].period = key[3]

TypeOK ==
  /\ swaps \in Seq(SwapRecords)
  /\ CandleTable
  /\ workers \in [MarketIds -> [time : Int, id : Int, wip : [Frames -> CandleRecords]]]
  /\ rows \subseteq DOMAIN swaps
  /\ tf \in Frames
  /\ written \in BOOLEAN
  /\ closing \subseteq MarketIds \X Frames
  /\ taken \subseteq DOMAIN swaps
  /\ restarts \in Nat /\ failures \in Nat

(* The swap table is in the order of time, and its ids are unique.         *)
Ordered ==
  \A i, j \in DOMAIN swaps :
    i < j => swaps[i].time <= swaps[j].time /\ swaps[i].id # swaps[j].id

(* The market of the tick.                                                 *)
Busy == NextSwap.market

(* The cursor is at swap i or past it.                                     *)
UpTo(i, w) ==
  \/ swaps[i].time < w.time
  \/ swaps[i].time = w.time /\ swaps[i].id <= w.id

(* A swap of this second is hidden.                                        *)
Messy(m, time) ==
  \E h \in DOMAIN swaps : swaps[h].market = m /\ swaps[h].time = time /\ Hidden(h)

Clean(m, k, period) == \A i \in SwapsOf(m, k, period) : ~ Hidden(i)

(* The swaps that are in the candles of a timeframe.                       *)
Seen(k) == IF rows # {} /\ tf > k THEN taken \union {Current} ELSE taken

Started(m) == workers[m].time >= 0

Reached(t) == t = 0 \/ \E j \in DOMAIN swaps : swaps[j].time >= t

(* A cursor is at a swap, or at the start of the last period written.      *)
PlacedInv ==
  \A m \in MarketIds :
    LET w == workers[m]
    IN \/ w = NoWorker
       \/ /\ w.time \in Nat /\ w.id \in Nat
          /\ Reached(w.time)
          /\ \/ w.id = 0
             \/ \E j \in DOMAIN swaps :
                  swaps[j].market = m /\ swaps[j].time = w.time /\ swaps[j].id = w.id

(* What a tick has fetched is ahead of the cursor.                         *)
RowsInv ==
  /\ rows = {} => tf = 1 /\ ~ written
  /\ rows # {} =>
       /\ Started(Busy)
       /\ \A r \in rows : swaps[r].market = Busy /\ swaps[r].time >= workers[Busy].time
       /\ tf > 1 \/ written =>
            workers[Busy].time = NextSwap.time /\ workers[Busy].id = NextSwap.id
       /\ tf > 1 => /\ workers[Busy].wip[1].trades > 0
                    /\ workers[Busy].wip[1].period = periodStart(NextSwap.time, 1)
       /\ written => Wip.trades > 0

(* and of what a worker took in, but for seconds with a hidden swap.       *)
AheadInv ==
  \A i \in taken, r \in rows :
    swaps[i].market = swaps[r].market /\ r <= i => Messy(swaps[r].market, swaps[r].time)

(* What a worker has taken in is behind its cursor, but for seconds in     *)
(* which the cursor went back.                                             *)
TakenInv ==
  \A i \in taken :
    LET m == swaps[i].market
    IN /\ Started(m)
       /\ swaps[i].time <= workers[m].time
       /\ UpTo(i, workers[m]) \/ Messy(m, swaps[i].time)

(* Swaps behind a cursor, or before the next one, that no worker has.      *)
Missed ==
  {i \in DOMAIN swaps :
     /\ i \notin taken \union rows
     /\ ~ Hidden(i)
     /\ \/ UpTo(i, workers[swaps[i].market])
        \/ \E r \in rows : swaps[r].market = swaps[i].market /\ i < r}

(* Candles in the table are of periods before the cursor, and before the   *)
(* candle in memory.                                                       *)
KeysInv ==
  \A key \in DOMAIN candles :
    LET w == workers[key[1]]
    IN /\ Reached(key[3]) /\ key[3] \in Starts(1)
       /\ Started(key[1]) => key[3] <= w.time
       /\ Started(key[1]) /\ w.wip[1].trades > 0 => key[3] <= w.wip[1].period
       /\ restarts = 0 => Started(key[1])

(* The candle in memory is of the last period with a swap the worker took. *)
WipInv ==
  \A m \in MarketIds, k \in Frames :
    LET w == workers[m]
        c == w.wip[k]
    IN /\ c.trades > 0 =>
            /\ c.period \in Starts(k)
            /\ c.period <= w.time
            /\ w.wip[1].trades > 0 /\ c.period <= w.wip[1].period
            /\ \A i \in Seen(k) : swaps[i].market = m => swaps[i].time < c.period + Timeframes[k]
       /\ c.trades = 0 =>
            /\ c = NoCandle
            /\ restarts = 0 => \A i \in Seen(k) : swaps[i].market # m
       /\ k = 1 /\ c.trades = 0 /\ Started(m) =>
            /\ w.time \in Starts(1)
            /\ \A i \in Seen(k) : swaps[i].market = m => swaps[i].time < w.time

BaseInv ==
  TypeOK /\ Ordered /\ PlacedInv /\ RowsInv /\ AheadInv /\ TakenInv /\ KeysInv /\ WipInv

(* Swaps by their index.                                                   *)
LEMMA SwapFacts ==
  ASSUME TypeOK
  PROVE  /\ DOMAIN swaps = 1 .. Len(swaps) /\ Len(swaps) \in Nat
         /\ \A i \in DOMAIN swaps :
              /\ i \in Nat /\ i <= Len(swaps)
              /\ swaps[i] \in SwapRecords
              /\ swaps[i].market \in MarketIds /\ swaps[i].time \in Nat
              /\ swaps[i].id \in Nat \ {0} /\ swaps[i].price \in Nat
         /\ \A S \in SUBSET (DOMAIN swaps) : IsFiniteSet(S) /\ S \in SUBSET Int
<1>1. DOMAIN swaps = 1 .. Len(swaps) /\ Len(swaps) \in Nat
  BY DEF TypeOK
<1>2. ASSUME NEW i \in DOMAIN swaps
      PROVE  /\ i \in Nat /\ i <= Len(swaps)
             /\ swaps[i] \in SwapRecords
             /\ swaps[i].market \in MarketIds /\ swaps[i].time \in Nat
             /\ swaps[i].id \in Nat \ {0} /\ swaps[i].price \in Nat
  <2>1. i \in Nat /\ i <= Len(swaps) /\ swaps[i] \in SwapRecords
    BY <1>1 DEF TypeOK
  <2>2. QED
    BY <2>1 DEF SwapRecords
<1>3. IsFiniteSet(1 .. Len(swaps))
  BY <1>1, FS_Interval
<1>4. ASSUME NEW S \in SUBSET (DOMAIN swaps)
      PROVE  IsFiniteSet(S) /\ S \in SUBSET Int
  BY <1>1, <1>3, FS_Subset
<1>5. QED
  BY <1>1, <1>2, <1>4

(* The next swap of a tick.                                                *)
LEMMA CurrentFacts ==
  ASSUME TypeOK, rows # {}
  PROVE  /\ Current \in rows /\ Current \in DOMAIN swaps /\ Current \in Nat
         /\ \A r \in rows : Current <= r
         /\ NextSwap \in SwapRecords
         /\ Busy \in MarketIds /\ NextSwap.time \in Nat /\ NextSwap.id \in Nat \ {0}
         /\ NextSwap.price \in Nat
<1>1. rows \in SUBSET (DOMAIN swaps)
  BY DEF TypeOK
<1>2. IsFiniteSet(rows) /\ rows \in SUBSET Int
  BY <1>1, SwapFacts
<1>3. Current \in rows /\ \A r \in rows : Current <= r
  BY <1>2, Extremes DEF Current
<1>4. QED
  BY <1>1, <1>3, SwapFacts DEF NextSwap, Busy

(* Workers by their market.                                                *)
LEMMA WorkerFacts ==
  ASSUME TypeOK, NEW m \in MarketIds
  PROVE  /\ workers[m].time \in Int /\ workers[m].id \in Int
         /\ workers[m].wip \in [Frames -> CandleRecords]
         /\ \A k \in Frames : /\ workers[m].wip[k] \in CandleRecords
                              /\ workers[m].wip[k].trades \in Nat
                              /\ workers[m].wip[k].period \in Int
<1>1. workers[m] \in [time : Int, id : Int, wip : [Frames -> CandleRecords]]
  BY DEF TypeOK
<1>2. /\ workers[m].time \in Int /\ workers[m].id \in Int
      /\ workers[m].wip \in [Frames -> CandleRecords]
  BY <1>1
<1>3. ASSUME NEW k \in Frames
      PROVE  /\ workers[m].wip[k] \in CandleRecords
             /\ workers[m].wip[k].trades \in Nat
             /\ workers[m].wip[k].period \in Int
  <2>1. workers[m].wip[k] \in CandleRecords
    BY <1>2
  <2>2. QED
    BY <2>1 DEF CandleRecords
<1>4. QED
  BY <1>2, <1>3
-----------------------------------------------------------------------------
(* Table t is the candle table with c written under a key.                 *)
Flushed(t, key, c) ==
  /\ \A x : x \in DOMAIN t <=> x \in DOMAIN candles \/ x = key
  /\ \A x \in DOMAIN candles : x # key => t[x] = candles[x]
  /\ t[key] = IF key \in DOMAIN candles THEN Merge(candles[key], c) ELSE c

(* What a write does to the table.                                         *)
LEMMA FlushFacts ==
  ASSUME TypeOK, NEW m \in MarketIds, NEW k \in Frames,
         NEW c \in CandleRecords, c.period \in Nat,
         candles' = flushCandle(m, k, c)
  PROVE  CandleTable' /\ Flushed(candles', <<m, k, c.period>>, c)
<1>0. PICK t, key : t = candles' /\ key = <<m, k, c.period>>
  OBVIOUS
<1>1. t = [x \in DOMAIN candles \union {key} |->
             IF x # key THEN candles[x]
             ELSE IF key \in DOMAIN candles THEN Merge(candles[key], c) ELSE c]
  BY <1>0, Zenon DEF flushCandle
<1>2. key \in MarketIds \X Frames \X Nat /\ key[3] = c.period
  BY <1>0
<1>3. /\ t = [x \in DOMAIN t |-> t[x]]
      /\ DOMAIN t = DOMAIN candles \union {key}
      /\ \A x \in DOMAIN candles : x # key => t[x] = candles[x]
      /\ t[key] = IF key \in DOMAIN candles THEN Merge(candles[key], c) ELSE c
  BY <1>1
<1>4. \A x \in DOMAIN candles : candles[x] \in CandleRecords /\ candles[x].period = x[3]
  BY DEF TypeOK, CandleTable
<1>5. t[key] \in CandleRecords /\ t[key].period = key[3]
  <2>1. CASE key \in DOMAIN candles
    <3>1. Merge(candles[key], c) \in CandleRecords /\ Merge(candles[key], c).period = key[3]
      BY <1>4, <2>1, MergeFields
    <3>2. QED
      BY <1>3, <2>1, <3>1
  <2>2. CASE key \notin DOMAIN candles
    BY <1>2, <1>3, <2>2
  <2>3. QED
    BY <2>1, <2>2
<1>6. \A x \in DOMAIN t : t[x] \in CandleRecords /\ t[x].period = x[3]
  BY <1>3, <1>4, <1>5
<1>7. /\ t \in [DOMAIN t -> CandleRecords]
      /\ DOMAIN t \subseteq MarketIds \X Frames \X Nat
  <2>1. t \in [DOMAIN t -> CandleRecords]
    BY <1>3, <1>6
  <2>2. DOMAIN candles \subseteq MarketIds \X Frames \X Nat
    BY DEF TypeOK, CandleTable
  <2>3. QED
    BY <1>2, <1>3, <2>1, <2>2
<1>8. IsFiniteSet(DOMAIN t)
  <2>1. IsFiniteSet(DOMAIN candles)
    BY DEF TypeOK, CandleTable
  <2>2. IsFiniteSet(DOMAIN candles \union {key})
    BY <2>1, FS_AddElement, Zenon
  <2>3. QED
    BY <1>3, <2>2, Zenon
<1>9. CandleTable'
  BY <1>0, <1>6, <1>7, <1>8 DEF CandleTable
<1>10. Flushed(t, key, c)
  BY <1>3 DEF Flushed
<1>11. QED
  BY <1>0, <1>9, <1>10, Zenon

LEMMA InitBase == CandlesInit => BaseInv
<1> SUFFICES ASSUME CandlesInit PROVE BaseInv
  OBVIOUS
<1>1. /\ swaps = <<>> /\ candles = [key \in {} |-> NoCandle] /\ workers = NoWorkers
      /\ rows = {} /\ tf = 1 /\ written = FALSE /\ closing = {} /\ taken = {}
      /\ restarts = 0 /\ failures = 0
  BY DEF CandlesInit
<1>2. DOMAIN swaps = {} /\ swaps \in Seq(SwapRecords)
  BY <1>1
<1>3. NoCandle \in CandleRecords /\ NoCandle.trades = 0
  BY DEF NoCandle, CandleRecords
<1>4. /\ NoWorker \in [time : Int, id : Int, wip : [Frames -> CandleRecords]]
      /\ NoWorker.time = -1 /\ \A k \in Frames : NoWorker.wip[k] = NoCandle
  BY <1>3 DEF NoWorker
<1>5. /\ workers \in [MarketIds -> [time : Int, id : Int, wip : [Frames -> CandleRecords]]]
      /\ \A m \in MarketIds : workers[m] = NoWorker
  BY <1>1, <1>4 DEF NoWorkers
<1>6. DOMAIN candles = {} /\ CandleTable
  BY <1>1, FS_EmptySet DEF CandleTable
<1>7. TypeOK
  BY <1>1, <1>2, <1>5, <1>6, FrameFacts DEF TypeOK
<1>8. Ordered
  BY <1>2 DEF Ordered
<1>9. PlacedInv
  BY <1>5 DEF PlacedInv
<1>10. RowsInv
  BY <1>1 DEF RowsInv
<1>16. AheadInv
  BY <1>1 DEF AheadInv
<1>11. TakenInv
  BY <1>1 DEF TakenInv
<1>12. KeysInv
  BY <1>6 DEF KeysInv
<1>13. Seen(1) = {} /\ \A k \in Frames : Seen(k) = {}
  BY <1>1 DEF Seen
<1>14. WipInv
  BY <1>3, <1>4, <1>5, <1>13 DEF WipInv, Started
<1>15. QED
  BY <1>7, <1>8, <1>9, <1>10, <1>11, <1>12, <1>14, <1>16 DEF BaseInv

(* A swap the cursor passes as it moves to the next one, in the order of   *)
(* rows.                                                                   *)
LEMMA PassedInOrder ==
  ASSUME TypeOK, Ordered, rows # {}, NEW i \in DOMAIN swaps,
         swaps[i].market = Busy, i > Current,
         swaps[i].time < NextSwap.time \/ (swaps[i].time = NextSwap.time /\ swaps[i].id <= NextSwap.id)
  PROVE  Hidden(i) /\ swaps[i].time = NextSwap.time
<1>1. Current \in DOMAIN swaps /\ Current \in Nat /\ NextSwap = swaps[Current] /\ NextSwap.id \in Nat
  BY CurrentFacts DEF NextSwap
<1>2. i \in Nat /\ swaps[i].time \in Nat /\ swaps[i].id \in Nat
  BY SwapFacts
<1>3. swaps[Current].time <= swaps[i].time /\ swaps[i].id # swaps[Current].id
  BY <1>1, <1>2 DEF Ordered
<1>4. swaps[i].time = NextSwap.time /\ swaps[i].id < NextSwap.id
  BY <1>1, <1>2, <1>3, CurrentFacts
<1>5. Hidden(i)
  BY <1>1, <1>2, <1>4 DEF Hidden, Busy
<1>6. QED
  BY <1>4, <1>5

(* The cursor moves to the next swap, and perhaps takes it in.             *)
LEMMA CursorMoves ==
  ASSUME TypeOK, Ordered, PlacedInv, RowsInv, AheadInv, TakenInv, rows # {}, swaps' = swaps,
         workers' \in [MarketIds -> [time : Int, id : Int, wip : [Frames -> CandleRecords]]],
         \A x \in MarketIds : x # Busy => workers'[x] = workers[x],
         workers'[Busy].time = NextSwap.time, workers'[Busy].id = NextSwap.id,
         taken \subseteq taken', taken' \subseteq taken \union {Current}
  PROVE  PlacedInv' /\ TakenInv'
<1>0. PICK b, r, s : b = Busy /\ r = Current /\ s = NextSwap
  OBVIOUS
<1>1. /\ b \in MarketIds /\ s.time \in Nat /\ s.id \in Nat /\ s.market = b
      /\ r \in DOMAIN swaps /\ r \in rows /\ swaps[r] = s /\ r \in Nat
  BY <1>0, CurrentFacts DEF NextSwap, Busy
<1>10. /\ \A x \in MarketIds : x # b => workers'[x] = workers[x]
      /\ workers'[b].time = s.time /\ workers'[b].id = s.id
      /\ taken' \subseteq taken \union {r}
  BY <1>0
<1>2. \A m, t : Messy(m, t) <=> Messy(m, t)'
  BY DEF Messy, Hidden
<1>3. /\ workers[b].time <= s.time /\ Started(b)
      /\ workers[b].time \in Nat
  <2>1. swaps[r].time >= workers[b].time /\ Started(b)
    BY <1>0, <1>1 DEF RowsInv
  <2>2. workers[b].time \in Int
    BY <1>1, WorkerFacts
  <2>3. QED
    BY <1>1, <2>1, <2>2 DEF Started
<1>4. ASSUME NEW m \in MarketIds, m # b
      PROVE  /\ workers'[m] = workers[m]
             /\ Started(m)' <=> Started(m)
             /\ \A i : UpTo(i, workers[m])' <=> UpTo(i, workers[m])
  BY <1>4, <1>10 DEF Started, UpTo
<1>5. Started(b)'
  BY <1>1, <1>10 DEF Started
<1>6. PlacedInv'
  <2> SUFFICES ASSUME NEW m \in MarketIds
               PROVE  \/ workers'[m] = NoWorker
                      \/ /\ workers'[m].time \in Nat /\ workers'[m].id \in Nat
                         /\ Reached(workers'[m].time)
                         /\ \/ workers'[m].id = 0
                            \/ \E j \in DOMAIN swaps :
                                 /\ swaps[j].market = m /\ swaps[j].time = workers'[m].time
                                 /\ swaps[j].id = workers'[m].id
    BY DEF PlacedInv, Reached
  <2>1. CASE m = b
    <3>1. workers'[m].time = s.time /\ workers'[m].id = s.id
      BY <2>1, <1>10
    <3>2. Reached(workers'[m].time)
      BY <1>1, <3>1 DEF Reached
    <3>3. QED
      BY <1>1, <2>1, <3>1, <3>2
  <2>2. CASE m # b
    BY <1>4, <2>2 DEF PlacedInv
  <2>3. QED
    BY <2>1, <2>2
<1>7. TakenInv'
  <2> SUFFICES ASSUME NEW i \in taken'
               PROVE  /\ Started(swaps[i].market)'
                      /\ swaps[i].time <= workers'[swaps[i].market].time
                      /\ UpTo(i, workers[swaps[i].market])' \/ Messy(swaps[i].market, swaps[i].time)
    BY <1>2 DEF TakenInv
  <2>1. i \in DOMAIN swaps /\ swaps[i].market \in MarketIds /\ swaps[i].time \in Nat
        /\ swaps[i].id \in Nat /\ i \in Nat
    <3>1. i \in DOMAIN swaps
      BY <1>1, <1>10 DEF TypeOK
    <3>2. QED
      BY <3>1, SwapFacts
  <2>2. CASE swaps[i].market # b
    <3>1. i \in taken
      BY <1>1, <1>10, <2>2
    <3>2. QED
      BY <1>4, <2>1, <2>2, <3>1 DEF TakenInv
  <2>3. CASE swaps[i].market = b /\ i = r
    BY <1>1, <1>5, <1>10, <2>3 DEF UpTo
  <2>4. CASE swaps[i].market = b /\ i # r
    <3>1. /\ i \in taken /\ swaps[i].time <= workers[b].time
          /\ UpTo(i, workers[b]) \/ Messy(b, swaps[i].time)
      BY <1>10, <2>4 DEF TakenInv
    <3>2. swaps[i].time <= s.time
      BY <1>1, <1>3, <2>1, <3>1
    <3>3. SUFFICES ASSUME ~ UpTo(i, workers[b])' PROVE Messy(b, swaps[i].time)
      BY <1>5, <1>10, <2>4, <3>2
    <3>4. swaps[i].time = s.time /\ swaps[i].id > s.id
      BY <1>1, <1>10, <2>1, <3>2, <3>3 DEF UpTo
    <3>5. CASE i < r
      <4>1. Hidden(r)
        BY <1>1, <2>1, <2>4, <3>4, <3>5 DEF Hidden
      <4>2. QED
        BY <1>1, <3>4, <4>1 DEF Messy
    <3>6. CASE r < i
      <4>1. swaps[i].market = swaps[r].market /\ r <= i /\ r \in rows /\ i \in taken
        BY <1>1, <2>1, <2>4, <3>1, <3>6
      <4>2. Messy(swaps[r].market, swaps[r].time)
        BY <4>1 DEF AheadInv
      <4>3. QED
        BY <1>1, <3>4, <4>2
    <3>7. QED
      BY <1>1, <2>1, <2>4, <3>5, <3>6
  <2>5. QED
    BY <2>2, <2>3, <2>4
<1>8. QED
  BY <1>6, <1>7
-----------------------------------------------------------------------------
LEMMA InTime ==
  ASSUME TypeOK, Ordered, NEW i \in DOMAIN swaps, NEW j \in DOMAIN swaps, i <= j
  PROVE  swaps[i].time <= swaps[j].time
<1>1. i \in Nat /\ j \in Nat /\ swaps[i].time \in Nat
  BY SwapFacts
<1>2. CASE i = j
  BY <1>1, <1>2
<1>3. CASE i < j
  BY <1>3 DEF Ordered
<1>4. QED
  BY <1>1, <1>2, <1>3

(* Hidden swaps and seconds as long as no swap is inserted.                *)
LEMMA HiddenSame ==
  ASSUME swaps' = swaps
  PROVE  /\ \A i : Hidden(i)' <=> Hidden(i)
         /\ \A m, t : Messy(m, t)' <=> Messy(m, t)
         /\ \A t : Reached(t)' <=> Reached(t)
         /\ Ordered' <=> Ordered
BY DEF Hidden, Messy, Reached, Ordered

(* Steps after which only the tick's and the service's phase differ.       *)
LEMMA SameBase ==
  ASSUME BaseInv,
         UNCHANGED <<swaps, candles, workers, rows, tf, written, taken, restarts, failures>>,
         closing' \subseteq MarketIds \X Frames
  PROVE  BaseInv'
<1>1. TypeOK'
  BY DEF BaseInv, TypeOK, CandleTable
<1>2. Ordered' /\ PlacedInv' /\ RowsInv' /\ AheadInv' /\ TakenInv'
  BY DEF BaseInv, Ordered, PlacedInv, RowsInv, AheadInv, TakenInv, Reached, Started, Busy,
         Current, NextSwap, Wip, UpTo, Messy, Hidden
<1>3. KeysInv' /\ WipInv'
  BY DEF BaseInv, KeysInv, WipInv, Reached, Started, Seen, Current
<1>4. QED
  BY <1>1, <1>2, <1>3 DEF BaseInv

(* A new row is the last one.                                              *)
InsertsRow(n, m, time, id) ==
  /\ swaps' \in Seq(SwapRecords)
  /\ DOMAIN swaps' = DOMAIN swaps \union {n} /\ n \in Nat
  /\ \A i \in DOMAIN swaps : i < n /\ swaps'[i] = swaps[i]
  /\ swaps'[n].market = m /\ swaps'[n].time = time /\ swaps'[n].id = id
  /\ \A i \in DOMAIN swaps : swaps[i].time <= time /\ swaps[i].id # id

LEMMA InsertFacts ==
  ASSUME TypeOK, Ordered, NEW m \in MarketIds, NEW time \in 0 .. LastSecond, NEW id \in Ids,
         InsertSwap(m, time, id)
  PROVE  /\ \E n : InsertsRow(n, m, time, id)
         /\ Ordered'
         /\ \A i \in DOMAIN swaps : Hidden(i)' <=> Hidden(i)
         /\ \A x, t : Messy(x, t) => Messy(x, t)'
         /\ \A t : Reached(t) => Reached(t)'
<1>0. PICK n : n = Len(swaps) + 1
  OBVIOUS
<1> DEFINE s == [market |-> m, time |-> time, id |-> id, price |-> SpotPrices[Len(swaps) + 1]]
<1>1. PICK t : t = swaps'
  OBVIOUS
<1>2. Len(swaps) < Len(SpotPrices) /\ t = Append(swaps, s)
      /\ (swaps # <<>> => time >= Last(swaps).time) /\ \A i \in DOMAIN swaps : swaps[i].id # id
  BY <1>1 DEF InsertSwap
<1>3. swaps \in Seq(SwapRecords) /\ DOMAIN swaps = 1 .. Len(swaps) /\ Len(swaps) \in Nat
  BY SwapFacts DEF TypeOK
<1>4. s \in SwapRecords /\ s.market = m /\ s.time = time /\ s.id = id
  <2>1. n \in 1 .. Len(SpotPrices) /\ SpotPrices \in Seq(Nat)
    BY <1>0, <1>2, <1>3
  <2>2. SpotPrices[n] \in Nat
    BY <2>1
  <2>3. QED
    BY <1>0, <2>2 DEF SwapRecords
<1> HIDE DEF s
<1>5. /\ t \in Seq(SwapRecords) /\ DOMAIN t = DOMAIN swaps \union {n} /\ n \in Nat
      /\ t[n] = s /\ \A i \in DOMAIN swaps : i < n /\ t[i] = swaps[i]
  <2>1. t \in Seq(SwapRecords) /\ Len(t) = n /\ t[n] = s /\ \A i \in 1 .. Len(swaps) : t[i] = swaps[i]
    BY <1>0, <1>2, <1>3, <1>4
  <2>2. DOMAIN t = 1 .. n
    BY <2>1
  <2>3. QED
    BY <1>0, <1>3, <2>1, <2>2
<1>6. ASSUME NEW i \in DOMAIN swaps PROVE swaps[i].time <= time /\ swaps[i].id # id
  <2>1. swaps # <<>> /\ Last(swaps) = swaps[Len(swaps)] /\ Len(swaps) \in DOMAIN swaps
    BY <1>3, <1>6 DEF Last
  <2>2. swaps[i].time <= swaps[Len(swaps)].time
    <3>1. CASE i = Len(swaps)
      BY <3>1, SwapFacts
    <3>2. CASE i < Len(swaps)
      BY <1>6, <2>1, <3>2 DEF Ordered
    <3>3. QED
      BY <1>3, <1>6, <3>1, <3>2
  <2>3. swaps[i].time \in Nat /\ swaps[Len(swaps)].time \in Nat
    BY <1>6, <2>1, SwapFacts
  <2>4. time >= swaps[Len(swaps)].time
    BY <1>2, <2>1
  <2>5. QED
    BY <1>2, <1>6, <2>2, <2>3, <2>4
<1>7. \A i \in DOMAIN swaps : i \in Nat
  BY SwapFacts
<1>8. ASSUME NEW i \in DOMAIN t, NEW j \in DOMAIN t, i < j
      PROVE  t[i].time <= t[j].time /\ t[i].id # t[j].id
  <2>1. i \in DOMAIN swaps
    BY <1>5, <1>7, <1>8
  <2>2. CASE j = n
    BY <1>4, <1>5, <1>6, <2>1, <2>2
  <2>3. CASE j \in DOMAIN swaps
    BY <1>5, <1>8, <2>1, <2>3 DEF Ordered
  <2>4. QED
    BY <1>5, <2>2, <2>3
<1>9. Ordered'
  BY <1>1, <1>8 DEF Ordered
<1>10. ASSUME NEW i \in DOMAIN swaps PROVE Hidden(i)' <=> Hidden(i)
  <2>1. ~ (n < i)
    BY <1>5, <1>7, <1>10
  <2>2. QED
    BY <1>1, <1>5, <1>10, <2>1 DEF Hidden
<1>11. ASSUME NEW x, NEW u, Messy(x, u) PROVE Messy(x, u)'
  BY <1>1, <1>5, <1>10, <1>11 DEF Messy
<1>12. ASSUME NEW u, Reached(u) PROVE Reached(u)'
  BY <1>1, <1>5, <1>12 DEF Reached
<1>13. InsertsRow(n, m, time, id)
  BY <1>1, <1>4, <1>5, <1>6 DEF InsertsRow
<1>14. QED
  BY <1>9, <1>10, <1>11, <1>12, <1>13

LEMMA InsertBase ==
  ASSUME BaseInv, NEW m \in MarketIds, NEW time \in 0 .. LastSecond, NEW id \in Ids,
         InsertSwap(m, time, id)
  PROVE  BaseInv'
<1>0. TypeOK /\ Ordered
  BY DEF BaseInv
<1>1. PICK n : InsertsRow(n, m, time, id)
  BY <1>0, InsertFacts
<1>2. UNCHANGED <<candles, workers, rows, tf, written, closing, taken, restarts, failures>>
  BY DEF InsertSwap, tick, faults
<1>3. /\ swaps' \in Seq(SwapRecords)
      /\ DOMAIN swaps' = DOMAIN swaps \union {n}
      /\ \A i \in DOMAIN swaps : swaps'[i] = swaps[i]
      /\ Ordered'
      /\ \A x, t : Messy(x, t) => Messy(x, t)'
      /\ \A t : Reached(t) => Reached(t)'
  BY <1>0, <1>1, InsertFacts DEF InsertsRow
<1>4. rows \subseteq DOMAIN swaps /\ taken \subseteq DOMAIN swaps
  BY <1>0 DEF TypeOK
<1>5. TypeOK'
  BY <1>0, <1>2, <1>3, <1>4 DEF TypeOK, CandleTable
<1>6. Current' = Current
  BY <1>2 DEF Current
<1>7. rows # {} => NextSwap' = NextSwap /\ Busy' = Busy /\ Wip' = Wip
  <2>1. rows # {} => Current \in DOMAIN swaps
    BY <1>0, CurrentFacts
  <2>2. QED
    BY <1>2, <1>3, <1>6, <2>1 DEF NextSwap, Busy, Wip
<1>8. \A k : Seen(k)' = Seen(k)
  BY <1>2, <1>6 DEF Seen
<1>9. PlacedInv'
  <2> SUFFICES ASSUME NEW x \in MarketIds
               PROVE  \/ workers[x] = NoWorker
                      \/ /\ workers[x].time \in Nat /\ workers[x].id \in Nat
                         /\ Reached(workers[x].time)'
                         /\ \/ workers[x].id = 0
                            \/ \E j \in DOMAIN swaps' :
                                 /\ swaps'[j].market = x /\ swaps'[j].time = workers[x].time
                                 /\ swaps'[j].id = workers[x].id
    BY <1>2 DEF PlacedInv, Reached
  <2>1. \/ workers[x] = NoWorker
        \/ /\ workers[x].time \in Nat /\ workers[x].id \in Nat
           /\ Reached(workers[x].time)
           /\ \/ workers[x].id = 0
              \/ \E j \in DOMAIN swaps : /\ swaps[j].market = x /\ swaps[j].time = workers[x].time
                                         /\ swaps[j].id = workers[x].id
    BY DEF BaseInv, PlacedInv
  <2>2. Reached(workers[x].time) => Reached(workers[x].time)'
    BY <1>2, <1>3
  <2>3. QED
    BY <1>3, <2>1, <2>2
<1>10. RowsInv'
  BY <1>2, <1>3, <1>4, <1>7 DEF BaseInv, RowsInv, Started
<1>11. AheadInv'
  BY <1>2, <1>3, <1>4 DEF BaseInv, AheadInv
<1>12. TakenInv'
  BY <1>2, <1>3, <1>4 DEF BaseInv, TakenInv, Started, UpTo
<1>13. KeysInv'
  BY <1>2, <1>3 DEF BaseInv, KeysInv, Started
<1>14. WipInv'
  <2>1. \A k : Seen(k) \subseteq DOMAIN swaps
    BY <1>0, <1>4, CurrentFacts DEF Seen
  <2>2. QED
    BY <1>2, <1>3, <1>8, <2>1 DEF BaseInv, WipInv, Started
<1>15. QED
  BY <1>3, <1>5, <1>9, <1>10, <1>11, <1>12, <1>13, <1>14 DEF BaseInv
-----------------------------------------------------------------------------
(* The rows a query returns, and that it leaves out later ones only.       *)
LEMMA FetchFacts ==
  ASSUME TypeOK, NEW unread \in SUBSET (DOMAIN swaps)
  PROVE  /\ Fetch(unread) \subseteq unread
         /\ \A i \in unread, r \in Fetch(unread) : i < r => i \in Fetch(unread)
<1>1. Fetch(unread) \subseteq unread
  BY DEF Fetch
<1>2. ASSUME NEW i \in unread, NEW r \in Fetch(unread), i < r
      PROVE  i \in Fetch(unread)
  <2> DEFINE I == {j \in unread : j <= i}
             R == {j \in unread : j <= r}
  <2>1. \A j \in unread : j \in Nat
    BY SwapFacts
  <2>2. r \in unread /\ Cardinality(R) <= Limit
    BY <1>2 DEF Fetch
  <2>3. I \subseteq R
    BY <1>2, <2>1, <2>2
  <2>4. IsFiniteSet(R) /\ IsFiniteSet(I)
    BY SwapFacts
  <2>5. Cardinality(I) <= Cardinality(R) /\ Cardinality(I) \in Nat /\ Cardinality(R) \in Nat
    BY <2>3, <2>4, FS_Subset, FS_CardinalityType
  <2>6. Limit \in Nat
    OBVIOUS
  <2>7. Cardinality(I) <= Limit
    BY <2>2, <2>5, <2>6
  <2>8. QED
    BY <2>7 DEF Fetch
<1>3. QED
  BY <1>1, <1>2

(* A new worker starts at a period written, if there is one.               *)
LEMMA SeededFacts ==
  ASSUME BaseInv, NEW m \in MarketIds, workers[m] = NoWorker
  PROVE  LET w == Seeded(m)
         IN /\ w \in [time : Int, id : Int, wip : [Frames -> CandleRecords]]
            /\ w.time \in Nat /\ w.id = 0 /\ w.time \in Starts(1) /\ Reached(w.time)
            /\ \A k \in Frames : w.wip[k] = NoCandle
            /\ \A key \in DOMAIN candles : key[1] = m => key[3] <= w.time
            /\ \/ w.time = 0
               \/ \E key \in DOMAIN candles : key[1] = m /\ key[3] = w.time
            /\ restarts = 0 => w.time = 0
<1> DEFINE P == Periods(m)
           w == Seeded(m)
<1>1. TypeOK /\ KeysInv
  BY DEF BaseInv
<1>2. NoCandle \in CandleRecords
  BY DEF NoCandle, CandleRecords
<1>3. /\ w.time \in Int => w \in [time : Int, id : Int, wip : [Frames -> CandleRecords]]
      /\ w.time = IF P = {} THEN 0 ELSE Max(P)
      /\ w.id = 0
      /\ \A k \in Frames : w.wip[k] = NoCandle
  <2>1. w = [time |-> IF P = {} THEN 0 ELSE Max(P), id |-> 0, wip |-> [k \in Frames |-> NoCandle]]
    <3>1. PICK t : t = IF P = {} THEN 0 ELSE Max(P)
      OBVIOUS
    <3>2. w = [NoWorker EXCEPT !.id = 0, !.time = t]
      BY <3>1, Zenon DEF Seeded
    <3>3. w = [time |-> t, id |-> 0, wip |-> [k \in Frames |-> NoCandle]]
      BY <3>2 DEF NoWorker
    <3>4. QED
      BY <3>1, <3>3, Zenon
  <2>2. [k \in Frames |-> NoCandle] \in [Frames -> CandleRecords]
    BY <1>2
  <2> HIDE DEF w, P
  <2>3. QED
    BY <2>1, <2>2
<1>4. \A key \in DOMAIN candles : key[1] = m => key[3] \in P
  BY DEF Periods
<1>5. \A q \in P : \E key \in DOMAIN candles : key[1] = m /\ key[3] = q
  BY DEF Periods
<1>6. \A q \in P : q \in Starts(1) /\ Reached(q)
  BY <1>1, <1>5 DEF KeysInv
<1>7. P \in SUBSET Nat
  BY <1>6, StartsFinest, FrameFacts
<1>8. IsFiniteSet(P)
  <2> DEFINE K == {key \in DOMAIN candles : key[1] = m}
             f == [key \in K |-> key[3]]
  <2>1. IsFiniteSet(DOMAIN candles)
    BY <1>1 DEF TypeOK, CandleTable
  <2>2. IsFiniteSet(K)
    BY <2>1, FS_Subset
  <2>3. f \in Surjection(K, P)
    <3>1. f \in [K -> P]
      BY <1>4
    <3>2. \A q \in P : \E key \in K : f[key] = q
      BY <1>5
    <3>3. QED
      BY <3>1, <3>2 DEF Surjection
  <2>4. QED
    BY <2>2, <2>3, FS_Surjection
<1>9. CASE P = {}
  <2>1. w.time = 0 /\ \A key \in DOMAIN candles : key[1] # m
    BY <1>3, <1>4, <1>9
  <2>2. 0 \in Starts(1)
    BY FrameFacts, StartsFinest
  <2>3. QED
    BY <1>3, <2>1, <2>2 DEF Reached
<1>10. CASE P # {}
  <2>1. w.time = Max(P) /\ Max(P) \in P /\ \A x \in P : Max(P) >= x
    BY <1>3, <1>7, <1>8, <1>10, Extremes
  <2>2. \A key \in DOMAIN candles : key[1] = m => key[3] <= w.time
    BY <1>4, <1>7, <2>1
  <2>3. PICK key \in DOMAIN candles : key[1] = m /\ key[3] = w.time
    BY <1>5, <2>1
  <2>4. ~ Started(m)
    BY DEF Started, NoWorker
  <2>5. restarts # 0
    BY <1>1, <2>3, <2>4 DEF KeysInv
  <2>6. w.time \in Nat
    BY <1>7, <2>1
  <2>7. QED
    BY <1>3, <1>6, <2>1, <2>2, <2>3, <2>5, <2>6
<1>11. QED
  BY <1>9, <1>10

(* The worker a tick goes on with.                                         *)
LEMMA VisitFacts ==
  ASSUME BaseInv, NEW m \in MarketIds, Visit(m)
  PROVE  /\ rows = {} /\ tf = 1 /\ ~ written
         /\ UNCHANGED <<swaps, candles, tf, written, closing, restarts, failures>>
         /\ workers' \in [MarketIds -> [time : Int, id : Int, wip : [Frames -> CandleRecords]]]
         /\ \A x \in MarketIds : x # m => workers'[x] = workers[x]
         /\ workers'[m].time \in Nat /\ workers'[m].id \in Nat
         /\ \/ /\ workers[m] # NoWorker /\ workers' = workers /\ taken' = taken /\ Started(m)
            \/ /\ workers[m] = NoWorker /\ workers'[m] = Seeded(m)
               /\ taken' = taken \union
                    {i \in DOMAIN swaps : swaps[i].market = m /\ swaps[i].time < workers'[m].time}
         /\ rows' \subseteq DOMAIN swaps
         /\ \A r \in rows' : /\ swaps[r].market = m
                             /\ swaps[r].time >= workers'[m].time
                             /\ ~ UpTo(r, workers[m])'
         /\ \A i \in DOMAIN swaps, r \in rows' :
              swaps[i].market = m /\ i < r => i \in rows' \/ UpTo(i, workers[m])'
<1>1. TypeOK /\ PlacedInv /\ RowsInv
  BY DEF BaseInv
<1>2. PICK w : w = IF workers[m] = NoWorker THEN Seeded(m) ELSE workers[m]
  OBVIOUS
<1>3. /\ rows = {}
      /\ rows' = Fetch(Unread(m, w))
      /\ workers' = [workers EXCEPT ![m] = w]
      /\ taken' = IF workers[m] = NoWorker
                  THEN taken \union {i \in DOMAIN swaps : swaps[i].market = m /\ swaps[i].time < w.time}
                  ELSE taken
      /\ UNCHANGED <<swaps, candles, tf, written, closing, restarts, failures>>
  BY <1>2 DEF Visit, faults
<1>4. tf = 1 /\ ~ written
  BY <1>1, <1>3 DEF RowsInv
<1>5. workers \in [MarketIds -> [time : Int, id : Int, wip : [Frames -> CandleRecords]]]
  BY <1>1 DEF TypeOK
<1>6. /\ w \in [time : Int, id : Int, wip : [Frames -> CandleRecords]]
      /\ w.time \in Nat /\ w.id \in Nat
      /\ workers[m] # NoWorker => Started(m)
  <2>1. CASE workers[m] = NoWorker
    BY <1>2, <2>1, SeededFacts
  <2>2. CASE workers[m] # NoWorker
    <3>1. workers[m].time \in Nat /\ workers[m].id \in Nat
      BY <1>1, <2>2 DEF PlacedInv
    <3>2. QED
      BY <1>2, <1>5, <2>2, <3>1 DEF Started
  <2>3. QED
    BY <2>1, <2>2
<1>7. /\ workers' \in [MarketIds -> [time : Int, id : Int, wip : [Frames -> CandleRecords]]]
      /\ workers'[m] = w /\ \A x \in MarketIds : x # m => workers'[x] = workers[x]
  BY <1>3, <1>5, <1>6
<1>8. \/ workers[m] # NoWorker /\ workers' = workers /\ taken' = taken
      \/ /\ workers[m] = NoWorker /\ w = Seeded(m)
         /\ taken' = taken \union {i \in DOMAIN swaps : swaps[i].market = m /\ swaps[i].time < w.time}
  BY <1>2, <1>3, <1>5
<1> DEFINE U == Unread(m, w)
<1>9. U \in SUBSET (DOMAIN swaps)
  BY DEF Unread
<1>10. ASSUME NEW r \in U
       PROVE  swaps[r].market = m /\ swaps[r].time >= w.time /\ ~ UpTo(r, w)
  <2>1. /\ swaps[r].market = m
        /\ swaps[r].time > w.time \/ (swaps[r].time = w.time /\ swaps[r].id > w.id)
    BY <1>10 DEF Unread
  <2>2. swaps[r].time \in Nat /\ swaps[r].id \in Nat
    BY <1>1, <1>9, <1>10, SwapFacts
  <2>3. QED
    BY <1>6, <2>1, <2>2 DEF UpTo
<1>11. ASSUME NEW i \in DOMAIN swaps, swaps[i].market = m, ~ UpTo(i, w)
       PROVE  i \in U
  <2>1. swaps[i].time \in Nat /\ swaps[i].id \in Nat
    BY <1>1, <1>11, SwapFacts
  <2>2. swaps[i].time > w.time \/ (swaps[i].time = w.time /\ swaps[i].id > w.id)
    BY <1>6, <1>11, <2>1 DEF UpTo
  <2>3. QED
    BY <1>11, <2>2 DEF Unread
<1>12. /\ Fetch(U) \subseteq U
       /\ \A i \in U, r \in Fetch(U) : i < r => i \in Fetch(U)
  BY <1>1, <1>9, FetchFacts
<1>13. \A i : UpTo(i, workers[m])' <=> UpTo(i, w)
  BY <1>3, <1>7 DEF UpTo
<1>14. rows' = Fetch(U)
  BY <1>3
<1> HIDE DEF U
<1>15. rows' \subseteq U /\ rows' \subseteq DOMAIN swaps
  BY <1>9, <1>12, <1>14
<1>16. \A r \in rows' : swaps[r].market = m /\ swaps[r].time >= w.time /\ ~ UpTo(r, workers[m])'
  BY <1>10, <1>13, <1>15
<1>17. \A i \in DOMAIN swaps, r \in rows' :
         swaps[i].market = m /\ i < r => i \in rows' \/ UpTo(i, workers[m])'
  BY <1>11, <1>12, <1>13, <1>14
<1>18. QED
  BY <1>3, <1>4, <1>6, <1>7, <1>8, <1>15, <1>16, <1>17

LEMMA VisitBase ==
  ASSUME BaseInv, NEW m \in MarketIds, Visit(m)
  PROVE  BaseInv'
<1>0. TypeOK /\ Ordered /\ PlacedInv /\ RowsInv /\ AheadInv /\ TakenInv /\ KeysInv /\ WipInv
  BY DEF BaseInv
<1>1. PICK w : w = workers'[m]
  OBVIOUS
<1>2. /\ rows = {} /\ tf = 1 /\ ~ written
      /\ UNCHANGED <<swaps, candles, tf, written, closing, restarts, failures>>
      /\ workers' \in [MarketIds -> [time : Int, id : Int, wip : [Frames -> CandleRecords]]]
      /\ \A x \in MarketIds : x # m => workers'[x] = workers[x]
      /\ w.time \in Nat /\ w.id \in Nat
      /\ \/ /\ workers[m] # NoWorker /\ workers' = workers /\ taken' = taken /\ Started(m)
         \/ /\ workers[m] = NoWorker /\ w = Seeded(m)
            /\ taken' = taken \union
                 {i \in DOMAIN swaps : swaps[i].market = m /\ swaps[i].time < w.time}
      /\ rows' \subseteq DOMAIN swaps
      /\ \A r \in rows' : /\ swaps[r].market = m
                          /\ swaps[r].time >= w.time
                          /\ ~ UpTo(r, workers[m])'
  BY <1>1, VisitFacts, Zenon
<1>3. /\ \A i : Hidden(i)' <=> Hidden(i)
      /\ \A x, t : Messy(x, t)' <=> Messy(x, t)
      /\ \A t : Reached(t)' <=> Reached(t)
      /\ Ordered'
  BY <1>0, <1>2, HiddenSame
<1>4. TypeOK'
  <2>1. taken' \subseteq DOMAIN swaps
    BY <1>0, <1>2 DEF TypeOK
  <2>2. CandleTable'
    BY <1>0, <1>2 DEF TypeOK, CandleTable
  <2>3. QED
    BY <1>0, <1>2, <2>1, <2>2 DEF TypeOK
<1>5. \A k \in Frames : Seen(k)' = taken' /\ Seen(k) = taken
  BY <1>2, FrameFacts DEF Seen
<1>6. \A x \in MarketIds : x # m => (Started(x)' <=> Started(x)) /\ \A i : UpTo(i, workers[x])' <=> UpTo(i, workers[x])
  BY <1>2 DEF Started, UpTo
<1>7. Started(m)'
  BY <1>1, <1>2 DEF Started
<1>8. RowsInv'
  <2> SUFFICES ASSUME rows' # {}
               PROVE  Busy' = m
    BY <1>1, <1>2, <1>7, FrameFacts DEF RowsInv
  <2>1. Current' \in rows'
    <3>1. (rows \in SUBSET Int /\ IsFiniteSet(rows))'
      BY <1>0, <1>2, SwapFacts
    <3>2. QED
      BY <3>1, Extremes DEF Current
  <2>2. QED
    BY <1>2, <2>1 DEF Busy, NextSwap
<1>9. \A i \in taken : swaps[i].market \in MarketIds /\ swaps[i].time \in Nat /\ swaps[i].id \in Nat /\ i \in Nat
  BY <1>0, SwapFacts DEF TypeOK
<1>10. \A r \in rows' : r \in Nat /\ r \in DOMAIN swaps /\ swaps[r].time \in Nat /\ swaps[r].id \in Nat
  BY <1>0, <1>2, SwapFacts
<1>11. CASE workers[m] # NoWorker /\ workers' = workers /\ taken' = taken /\ Started(m)
  <2>1. PlacedInv'
    BY <1>0, <1>2, <1>3, <1>11 DEF PlacedInv
  <2>2. TakenInv'
    BY <1>0, <1>2, <1>3, <1>11 DEF TakenInv, Started, UpTo
  <2>3. KeysInv'
    BY <1>0, <1>2, <1>3, <1>11 DEF KeysInv, Started
  <2>4. WipInv'
    BY <1>0, <1>2, <1>5, <1>11 DEF WipInv, Started
  <2>5. AheadInv'
    <3> SUFFICES ASSUME NEW i \in taken, NEW r \in rows', swaps[i].market = m, r <= i
                 PROVE  Messy(m, swaps[r].time)
      BY <1>2, <1>3, <1>11 DEF AheadInv
    <3>1. /\ swaps[i].time <= w.time
          /\ UpTo(i, w) \/ Messy(m, swaps[i].time)
          /\ ~ UpTo(r, w) /\ swaps[r].time >= w.time
      BY <1>0, <1>1, <1>2, <1>11 DEF TakenInv, UpTo
    <3>2. swaps[r].time = w.time /\ swaps[i].time = w.time
      <4>1. swaps[r].time <= swaps[i].time
        <5>1. i \in DOMAIN swaps
          BY <1>0 DEF TypeOK
        <5>2. QED
          BY <1>0, <1>10, <5>1, InTime
      <4>2. swaps[i].time <= w.time
        BY <1>0, <1>1, <1>11 DEF TakenInv
      <4>3. /\ w.time \in Nat /\ swaps[i].time \in Nat /\ swaps[r].time \in Nat
            /\ swaps[r].time >= w.time
        BY <1>2, <1>9, <1>10
      <4>4. QED
        BY <4>1, <4>2, <4>3
    <3>3. SUFFICES ASSUME UpTo(i, w) PROVE Messy(m, w.time)
      BY <3>1, <3>2
    <3>4. swaps[r].id > w.id /\ swaps[i].id <= w.id
      BY <1>2, <1>9, <1>10, <3>1, <3>2, <3>3 DEF UpTo
    <3>5. r # i
      BY <1>2, <1>9, <1>10, <3>4
    <3>6. r < i /\ swaps[r].id > swaps[i].id
      BY <1>2, <1>9, <1>10, <3>4, <3>5
    <3>7. Hidden(i) /\ i \in DOMAIN swaps
      BY <1>0, <1>2, <1>10, <3>2, <3>6 DEF Hidden, TypeOK
    <3>8. QED
      BY <3>2, <3>7 DEF Messy
  <2>6. QED
    BY <1>3, <1>4, <1>8, <2>1, <2>2, <2>3, <2>4, <2>5 DEF BaseInv
<1>12. CASE /\ workers[m] = NoWorker /\ w = Seeded(m)
            /\ taken' = taken \union
                 {i \in DOMAIN swaps : swaps[i].market = m /\ swaps[i].time < w.time}
  <2>1. /\ w.id = 0 /\ w.time \in Starts(1) /\ Reached(w.time)
        /\ \A k \in Frames : w.wip[k] = NoCandle
        /\ \A key \in DOMAIN candles : key[1] = m => key[3] <= w.time
        /\ restarts = 0 => w.time = 0
    BY <1>12, SeededFacts
  <2>2. NoCandle.trades = 0 /\ ~ Started(m)
    BY <1>12 DEF NoCandle, Started, NoWorker
  <2>3. \A i \in taken : swaps[i].market # m
    BY <1>0, <2>2 DEF TakenInv
  <2>4. \A i \in taken' : swaps[i].market = m => i \in DOMAIN swaps /\ swaps[i].time < w.time
    BY <1>12, <2>3
  <2>5. \A i \in taken' : swaps[i].market # m => i \in taken
    BY <1>12
  <2>6. PlacedInv'
    <3> SUFFICES ASSUME NEW x \in MarketIds
                 PROVE  \/ workers'[x] = NoWorker
                        \/ /\ workers'[x].time \in Nat /\ workers'[x].id \in Nat
                           /\ Reached(workers'[x].time)
                           /\ \/ workers'[x].id = 0
                              \/ \E j \in DOMAIN swaps :
                                   /\ swaps[j].market = x /\ swaps[j].time = workers'[x].time
                                   /\ swaps[j].id = workers'[x].id
      BY <1>2 DEF PlacedInv, Reached
    <3>1. CASE x = m
      BY <1>1, <1>2, <2>1, <3>1
    <3>2. CASE x # m
      BY <1>0, <1>2, <3>2 DEF PlacedInv
    <3>3. QED
      BY <3>1, <3>2
  <2>7. TakenInv'
    <3> SUFFICES ASSUME NEW i \in taken'
                 PROVE  /\ Started(swaps[i].market)'
                        /\ swaps[i].time <= workers'[swaps[i].market].time
                        /\ UpTo(i, workers[swaps[i].market])' \/ Messy(swaps[i].market, swaps[i].time)
      BY <1>2, <1>3 DEF TakenInv
    <3>1. CASE swaps[i].market = m
      <4>1. swaps[i].time < w.time /\ swaps[i].time \in Nat
        BY <1>0, <2>4, <3>1, SwapFacts
      <4>2. UpTo(i, workers[m])'
        BY <1>1, <1>2, <4>1 DEF UpTo
      <4>3. QED
        BY <1>1, <1>2, <1>7, <3>1, <4>1, <4>2
    <3>2. CASE swaps[i].market # m
      BY <1>0, <1>2, <1>6, <1>9, <2>5, <3>2 DEF TakenInv
    <3>3. QED
      BY <3>1, <3>2
  <2>8. AheadInv'
    <3> SUFFICES ASSUME NEW i \in taken', NEW r \in rows', swaps[i].market = m, r <= i
                 PROVE  FALSE
      BY <1>2 DEF AheadInv
    <3>1. i \in DOMAIN swaps /\ swaps[i].time < w.time /\ swaps[r].time >= w.time
      BY <1>2, <2>4
    <3>2. i \in Nat /\ swaps[i].time \in Nat
      BY <1>0, <3>1, SwapFacts
    <3>3. swaps[r].time <= swaps[i].time
      BY <1>0, <1>10, <3>1, InTime
    <3>4. QED
      BY <1>2, <1>10, <3>1, <3>2, <3>3
  <2>9. KeysInv'
    <3> SUFFICES ASSUME NEW key \in DOMAIN candles
                 PROVE  /\ Reached(key[3]) /\ key[3] \in Starts(1)
                        /\ Started(key[1])' => key[3] <= workers'[key[1]].time
                        /\ Started(key[1])' /\ workers'[key[1]].wip[1].trades > 0
                             => key[3] <= workers'[key[1]].wip[1].period
                        /\ restarts = 0 => Started(key[1])'
      BY <1>2, <1>3 DEF KeysInv
    <3>1. key[1] \in MarketIds
      BY <1>0 DEF TypeOK, CandleTable
    <3>2. CASE key[1] = m
      BY <1>0, <1>1, <1>7, <2>1, <2>2, <3>2, FrameFacts DEF KeysInv
    <3>3. CASE key[1] # m
      BY <1>0, <1>2, <1>6, <3>1, <3>3 DEF KeysInv
    <3>4. QED
      BY <3>2, <3>3
  <2>10. WipInv'
    <3> SUFFICES ASSUME NEW x \in MarketIds, NEW k \in Frames
                 PROVE  LET v == workers'[x]
                            c == v.wip[k]
                        IN /\ c.trades > 0 =>
                                /\ c.period \in Starts(k)
                                /\ c.period <= v.time
                                /\ v.wip[1].trades > 0 /\ c.period <= v.wip[1].period
                                /\ \A i \in taken' : swaps[i].market = x => swaps[i].time < c.period + Timeframes[k]
                           /\ c.trades = 0 =>
                                /\ c = NoCandle
                                /\ restarts = 0 => \A i \in taken' : swaps[i].market # x
                           /\ k = 1 /\ c.trades = 0 /\ Started(x)' =>
                                /\ v.time \in Starts(1)
                                /\ \A i \in taken' : swaps[i].market = x => swaps[i].time < v.time
      BY <1>2, <1>5 DEF WipInv
    <3>1. CASE x = m
      <4>1. restarts = 0 => \A i \in taken' : swaps[i].market # m
        <5>1. restarts = 0 => \A i \in taken' : swaps[i].market = m => swaps[i].time < 0 /\ swaps[i].time \in Nat
          BY <1>0, <2>1, <2>4, SwapFacts
        <5>2. QED
          BY <5>1
      <4>2. QED
        BY <1>1, <2>1, <2>2, <2>4, <3>1, <4>1
    <3>2. CASE x # m
      BY <1>0, <1>2, <1>5, <1>6, <2>5, <3>2 DEF WipInv
    <3>3. QED
      BY <3>1, <3>2
  <2>11. QED
    BY <1>3, <1>4, <1>8, <2>6, <2>7, <2>8, <2>9, <2>10 DEF BaseInv
<1>13. QED
  BY <1>2, <1>11, <1>12
-----------------------------------------------------------------------------
(* A candle in memory: its worker is there, and the cursor is past its     *)
(* start.                                                                  *)
LEMMA WipFacts ==
  ASSUME BaseInv, NEW m \in MarketIds, NEW k \in Frames, workers[m].wip[k].trades > 0
  PROVE  LET c == workers[m].wip[k]
         IN /\ Started(m) /\ workers[m].time \in Nat
            /\ c \in CandleRecords /\ c.period \in Nat
            /\ c.period \in Starts(k) /\ c.period \in Starts(1)
            /\ c.period <= workers[m].time /\ Reached(c.period)
            /\ workers[m].wip[1].trades > 0 /\ c.period <= workers[m].wip[1].period
<1> DEFINE c == workers[m].wip[k]
           t == workers[m].time
<1>1. TypeOK /\ PlacedInv /\ WipInv
  BY DEF BaseInv
<1>2. c \in CandleRecords /\ c.trades > 0
  BY <1>1, WorkerFacts
<1>3. workers[m] # NoWorker
  <2>1. NoWorker.wip[k].trades = 0
    BY DEF NoWorker, NoCandle
  <2>2. QED
    BY <1>2, <2>1
<1>4. t \in Nat /\ Reached(t) /\ Started(m)
  BY <1>1, <1>3 DEF PlacedInv, Started
<1>5. /\ c.period \in Starts(k) /\ c.period <= t
      /\ workers[m].wip[1].trades > 0 /\ c.period <= workers[m].wip[1].period
  BY <1>1, <1>2 DEF WipInv
<1>6. c.period \in Starts(1) /\ c.period \in Nat
  BY <1>5, StartsFinest
<1>7. Reached(c.period)
  <2>1. CASE t = 0
    BY <1>5, <1>6, <2>1 DEF Reached
  <2>2. CASE t # 0
    <3>1. PICK j \in DOMAIN swaps : swaps[j].time >= t
      BY <1>4, <2>2 DEF Reached
    <3>2. swaps[j].time \in Nat
      BY <1>1, SwapFacts
    <3>3. swaps[j].time >= c.period
      BY <1>4, <1>5, <1>6, <3>1, <3>2
    <3>4. QED
      BY <3>3 DEF Reached
  <2>3. QED
    BY <2>1, <2>2
<1>8. QED
  BY <1>2, <1>4, <1>5, <1>6, <1>7

(* A write of a candle in memory keeps the keys behind the cursors.        *)
LEMMA FlushKeys ==
  ASSUME BaseInv, NEW m \in MarketIds, NEW k \in Frames, workers[m].wip[k].trades > 0,
         candles' = flushCandle(m, k, workers[m].wip[k])
  PROVE  /\ CandleTable'
         /\ \A key \in DOMAIN candles' :
              LET w == workers[key[1]]
              IN /\ Reached(key[3]) /\ key[3] \in Starts(1)
                 /\ Started(key[1]) => key[3] <= w.time
                 /\ Started(key[1]) /\ w.wip[1].trades > 0 => key[3] <= w.wip[1].period
                 /\ restarts = 0 => Started(key[1])
<1>0. TypeOK /\ KeysInv
  BY DEF BaseInv
<1> DEFINE c == workers[m].wip[k]
<1>1. PICK new : new = <<m, k, c.period>>
  OBVIOUS
<1>2. /\ Started(m)
      /\ c \in CandleRecords /\ c.period \in Nat
      /\ c.period \in Starts(1)
      /\ c.period <= workers[m].time /\ Reached(c.period)
      /\ c.period <= workers[m].wip[1].period
  BY WipFacts
<1>3. candles' = flushCandle(m, k, c) /\ new = <<m, k, c.period>>
  BY <1>1
<1> HIDE DEF c
<1>4. CandleTable' /\ Flushed(candles', new, c)
  BY <1>0, <1>2, <1>3, FlushFacts
<1>5. new[1] = m /\ new[3] = c.period /\ \A x \in DOMAIN candles' : x \in DOMAIN candles \/ x = new
  BY <1>3, <1>4 DEF Flushed
<1>6. QED
  BY <1>0, <1>2, <1>4, <1>5 DEF KeysInv, c

(* The cursor at the next swap, without a candle in memory that changes.   *)
LEMMA CursorWip ==
  ASSUME BaseInv, rows # {}, swaps' = swaps, restarts' = restarts,
         workers' = [workers EXCEPT ![Busy] = MoveCursor(@, NextSwap)],
         Wip.trades > 0, \A k \in Frames : Seen(k)' \subseteq Seen(k)
  PROVE  /\ WipInv'
         /\ workers' \in [MarketIds -> [time : Int, id : Int, wip : [Frames -> CandleRecords]]]
         /\ \A x \in MarketIds : x # Busy => workers'[x] = workers[x]
         /\ workers'[Busy].time = NextSwap.time /\ workers'[Busy].id = NextSwap.id
         /\ \A x \in MarketIds : workers'[x].wip = workers[x].wip
         /\ \A x \in MarketIds : workers[x].time <= workers'[x].time
         /\ \A x \in MarketIds : Started(x)' <=> Started(x)
<1>0. TypeOK /\ RowsInv /\ WipInv
  BY DEF BaseInv
<1>1. PICK b, s : b = Busy /\ s = NextSwap
  OBVIOUS
<1>2. b \in MarketIds /\ s.time \in Nat /\ s.id \in Nat
  BY <1>0, <1>1, CurrentFacts
<1>3. workers \in [MarketIds -> [time : Int, id : Int, wip : [Frames -> CandleRecords]]]
  BY <1>0 DEF TypeOK
<1>4. workers' = [workers EXCEPT ![b] = [workers[b] EXCEPT !.time = s.time, !.id = s.id]]
  BY <1>1 DEF MoveCursor
<1>5. /\ workers' \in [MarketIds -> [time : Int, id : Int, wip : [Frames -> CandleRecords]]]
      /\ \A x \in MarketIds : x # b => workers'[x] = workers[x]
      /\ workers'[b].time = s.time /\ workers'[b].id = s.id
      /\ \A x \in MarketIds : workers'[x].wip = workers[x].wip
  <2>1. PICK v : v = [workers[b] EXCEPT !.time = s.time, !.id = s.id]
    OBVIOUS
  <2>2. workers[b] \in [time : Int, id : Int, wip : [Frames -> CandleRecords]]
    BY <1>2, <1>3
  <2> DEFINE u == workers[b]
  <2>6. u = [time |-> u.time, id |-> u.id, wip |-> u.wip] /\ u.wip \in [Frames -> CandleRecords]
    BY <2>2
  <2> HIDE DEF u
  <2>7. v = [time |-> s.time, id |-> s.id, wip |-> u.wip]
    BY <2>1, <2>6 DEF u
  <2>3. /\ v \in [time : Int, id : Int, wip : [Frames -> CandleRecords]]
        /\ v.time = s.time /\ v.id = s.id /\ v.wip = workers[b].wip
    BY <1>2, <2>6, <2>7 DEF u
  <2>4. workers' = [workers EXCEPT ![b] = v]
    BY <1>4, <2>1
  <2>5. QED
    BY <1>2, <1>3, <2>3, <2>4
<1>6. workers[b].time <= s.time /\ Started(b)
  <2>1. Current \in rows /\ s = swaps[Current]
    BY <1>0, <1>1, CurrentFacts DEF NextSwap
  <2>2. swaps[Current].time >= workers[b].time /\ Started(b)
    BY <1>0, <1>1, <2>1 DEF RowsInv
  <2>3. workers[b].time \in Int
    BY <1>0, <1>2, WorkerFacts
  <2>4. QED
    BY <1>2, <2>1, <2>2, <2>3
<1>7. ASSUME NEW x \in MarketIds
      PROVE  /\ workers[x].time <= workers'[x].time /\ (Started(x)' <=> Started(x))
             /\ workers[x].time \in Int /\ workers'[x].time \in Int
  <2>1. workers[x].time \in Int
    BY <1>0, WorkerFacts
  <2>2. CASE x = b
    BY <1>2, <1>5, <1>6, <2>1, <2>2 DEF Started
  <2>3. CASE x # b
    BY <1>5, <2>1, <2>3 DEF Started
  <2>4. QED
    BY <2>2, <2>3
<1>8. tf \in Frames /\ workers[b].wip[tf].trades > 0
  BY <1>0, <1>1 DEF TypeOK, Wip, Busy
<1>9. workers[b].wip[1].trades > 0
  BY <1>0, <1>2, <1>8 DEF WipInv
<1>10. WipInv'
  <2> SUFFICES ASSUME NEW x \in MarketIds, NEW k \in Frames
               PROVE  LET v == workers'[x]
                          c == v.wip[k]
                      IN /\ c.trades > 0 =>
                              /\ c.period \in Starts(k)
                              /\ c.period <= v.time
                              /\ v.wip[1].trades > 0 /\ c.period <= v.wip[1].period
                              /\ \A i \in Seen(k)' : swaps[i].market = x => swaps[i].time < c.period + Timeframes[k]
                         /\ c.trades = 0 =>
                              /\ c = NoCandle
                              /\ restarts = 0 => \A i \in Seen(k)' : swaps[i].market # x
                         /\ k = 1 /\ c.trades = 0 /\ Started(x)' =>
                              /\ v.time \in Starts(1)
                              /\ \A i \in Seen(k)' : swaps[i].market = x => swaps[i].time < v.time
    BY DEF WipInv
  <2> DEFINE c == workers[x].wip[k]
  <2>1. workers'[x].wip = workers[x].wip /\ Seen(k)' \subseteq Seen(k)
    BY <1>5
  <2>2. c.trades > 0 => c.period <= workers'[x].time
    <3>1. SUFFICES ASSUME c.trades > 0 PROVE c.period <= workers'[x].time
      OBVIOUS
    <3>2. c.period \in Nat /\ c.period <= workers[x].time
      BY <3>1, WipFacts
    <3>3. QED
      BY <1>7, <3>2
  <2>3. k = 1 /\ c.trades = 0 => x # b
    BY <1>9
  <2>4. QED
    BY <1>0, <1>5, <1>7, <2>1, <2>2, <2>3 DEF WipInv
<1>11. QED
  BY <1>1, <1>5, <1>7, <1>10

LEMMA WriteBase == ASSUME BaseInv, WriteCandle PROVE BaseInv'
<1>0. TypeOK /\ Ordered /\ PlacedInv /\ RowsInv /\ AheadInv /\ TakenInv /\ KeysInv /\ WipInv
  BY DEF BaseInv
<1>1. /\ rows # {} /\ RollsOver /\ ~ written
      /\ candles' = flushCandle(Busy, tf, Wip)
      /\ written' = TRUE
      /\ workers' = [workers EXCEPT ![Busy] = MoveCursor(@, NextSwap)]
      /\ UNCHANGED <<swaps, rows, tf, closing, taken, restarts, failures>>
  BY DEF WriteCandle, Busy, faults
<1>2. Wip.trades > 0 /\ Wip = workers[Busy].wip[tf] /\ Busy \in MarketIds /\ tf \in Frames
  BY <1>0, <1>1, CurrentFacts DEF RollsOver, Wip, Busy, TypeOK
<1>3. Current' = Current /\ NextSwap' = NextSwap /\ Busy' = Busy
  BY <1>1 DEF Current, NextSwap, Busy
<1>4. \A k : Seen(k)' = Seen(k)
  BY <1>1, <1>3 DEF Seen
<1>5. /\ WipInv'
      /\ workers' \in [MarketIds -> [time : Int, id : Int, wip : [Frames -> CandleRecords]]]
      /\ \A x \in MarketIds : x # Busy => workers'[x] = workers[x]
      /\ workers'[Busy].time = NextSwap.time /\ workers'[Busy].id = NextSwap.id
      /\ \A x \in MarketIds : workers'[x].wip = workers[x].wip
      /\ \A x \in MarketIds : workers[x].time <= workers'[x].time
      /\ \A x \in MarketIds : Started(x)' <=> Started(x)
  BY <1>1, <1>2, <1>4, CursorWip
<1>6. PlacedInv' /\ TakenInv'
  BY <1>0, <1>1, <1>5, CursorMoves
<1>7. /\ CandleTable'
      /\ \A key \in DOMAIN candles' :
           LET w == workers[key[1]]
           IN /\ Reached(key[3]) /\ key[3] \in Starts(1)
              /\ Started(key[1]) => key[3] <= w.time
              /\ Started(key[1]) /\ w.wip[1].trades > 0 => key[3] <= w.wip[1].period
              /\ restarts = 0 => Started(key[1])
  BY <1>1, <1>2, FlushKeys
<1>8. /\ \A i : Hidden(i)' <=> Hidden(i)
      /\ \A x, t : Messy(x, t)' <=> Messy(x, t)
      /\ \A t : Reached(t)' <=> Reached(t)
      /\ Ordered'
  BY <1>0, <1>1, HiddenSame
<1>9. KeysInv'
  <2> SUFFICES ASSUME NEW key \in DOMAIN candles'
               PROVE  /\ Reached(key[3]) /\ key[3] \in Starts(1)
                      /\ Started(key[1])' => key[3] <= workers'[key[1]].time
                      /\ Started(key[1])' /\ workers'[key[1]].wip[1].trades > 0
                           => key[3] <= workers'[key[1]].wip[1].period
                      /\ restarts = 0 => Started(key[1])'
    BY <1>1, <1>8 DEF KeysInv
  <2>1. key[1] \in MarketIds /\ key[3] \in Nat
    BY <1>7 DEF CandleTable
  <2>2. workers[key[1]].time \in Int /\ workers'[key[1]].time \in Int
    BY <1>0, <1>5, <2>1, WorkerFacts
  <2>3. Started(key[1])' => key[3] <= workers'[key[1]].time
    <3>1. Started(key[1])' => key[3] <= workers[key[1]].time
      BY <1>5, <1>7, <2>1
    <3>2. workers[key[1]].time <= workers'[key[1]].time
      BY <1>5, <2>1
    <3>3. QED
      BY <2>1, <2>2, <3>1, <3>2
  <2>4. QED
    BY <1>5, <1>7, <2>1, <2>3
<1>10. AheadInv'
  BY <1>0, <1>1, <1>8 DEF AheadInv
<1>11. RowsInv'
  <2>1. \A r \in rows : swaps[r].market = Busy /\ swaps[r].time >= NextSwap.time
    <3>1. Current \in DOMAIN swaps /\ \A r \in rows : Current <= r /\ r \in DOMAIN swaps
      BY <1>0, <1>1, CurrentFacts DEF TypeOK
    <3>2. ASSUME NEW r \in rows PROVE swaps[r].time >= NextSwap.time
      <4>1. r \in DOMAIN swaps /\ Current \in DOMAIN swaps /\ Current <= r
        BY <3>1, <3>2
      <4>2. swaps[r].time \in Nat /\ swaps[Current].time \in Nat
        BY <1>0, <4>1, SwapFacts
      <4>3. swaps[Current].time <= swaps[r].time
        BY <1>0, <4>1, InTime
      <4>4. QED
        BY <4>2, <4>3 DEF NextSwap
    <3>3. QED
      BY <1>0, <1>1, <3>2 DEF RowsInv
  <2>2. Wip'.trades > 0
    BY <1>1, <1>2, <1>3, <1>5 DEF Wip, Busy
  <2>3. Started(Busy)'
    <3>1. PICK b : b = Busy
      OBVIOUS
    <3>2. Started(b)'
      BY <1>0, <1>1, <1>2, <1>5, <3>1 DEF RowsInv
    <3>3. QED
      BY <1>3, <3>1, <3>2
  <2>4. QED
    BY <1>0, <1>1, <1>2, <1>3, <1>5, <2>1, <2>2, <2>3 DEF RowsInv, Started
<1>12. TypeOK'
  BY <1>0, <1>1, <1>5, <1>7 DEF TypeOK
<1>13. QED
  BY <1>5, <1>6, <1>8, <1>9, <1>10, <1>11, <1>12 DEF BaseInv

LEMMA FailBase == ASSUME BaseInv, WriteFails PROVE BaseInv'
<1>0. TypeOK /\ Ordered /\ PlacedInv /\ RowsInv /\ AheadInv /\ TakenInv /\ KeysInv /\ WipInv
  BY DEF BaseInv
<1>1. /\ rows # {} /\ RollsOver /\ ~ written
      /\ workers' = [workers EXCEPT ![Busy] = MoveCursor(@, NextSwap)]
      /\ rows' = {} /\ tf' = 1 /\ failures' = failures + 1
      /\ UNCHANGED <<swaps, candles, written, closing, taken, restarts>>
  BY DEF WriteFails, Busy
<1>2. Wip.trades > 0 /\ Busy \in MarketIds
  BY <1>0, <1>1, CurrentFacts DEF RollsOver
<1>3. \A k \in Frames : Seen(k)' \subseteq Seen(k)
  BY <1>1 DEF Seen
<1>4. /\ WipInv'
      /\ workers' \in [MarketIds -> [time : Int, id : Int, wip : [Frames -> CandleRecords]]]
      /\ \A x \in MarketIds : x # Busy => workers'[x] = workers[x]
      /\ workers'[Busy].time = NextSwap.time /\ workers'[Busy].id = NextSwap.id
      /\ \A x \in MarketIds : workers'[x].wip = workers[x].wip
      /\ \A x \in MarketIds : workers[x].time <= workers'[x].time
      /\ \A x \in MarketIds : Started(x)' <=> Started(x)
  BY <1>1, <1>2, <1>3, CursorWip
<1>5. PlacedInv' /\ TakenInv'
  BY <1>0, <1>1, <1>4, CursorMoves
<1>6. /\ \A t : Reached(t)' <=> Reached(t)
      /\ Ordered'
  BY <1>0, <1>1, HiddenSame
<1>7. TypeOK'
  <2>1. CandleTable'
    BY <1>0, <1>1 DEF TypeOK, CandleTable
  <2>2. QED
    BY <1>0, <1>1, <1>4, <2>1, FrameFacts DEF TypeOK
<1>8. KeysInv'
  <2> SUFFICES ASSUME NEW key \in DOMAIN candles
               PROVE  /\ Reached(key[3]) /\ key[3] \in Starts(1)
                      /\ Started(key[1])' => key[3] <= workers'[key[1]].time
                      /\ Started(key[1])' /\ workers'[key[1]].wip[1].trades > 0
                           => key[3] <= workers'[key[1]].wip[1].period
                      /\ restarts = 0 => Started(key[1])'
    BY <1>1, <1>6 DEF KeysInv
  <2>1. key[1] \in MarketIds /\ key[3] \in Nat
    BY <1>0 DEF TypeOK, CandleTable
  <2>2. workers[key[1]].time \in Int /\ workers'[key[1]].time \in Int
    BY <1>0, <1>4, <2>1, WorkerFacts
  <2>3. Started(key[1])' => key[3] <= workers'[key[1]].time
    <3>1. Started(key[1])' => key[3] <= workers[key[1]].time
      BY <1>0, <1>4, <2>1 DEF KeysInv
    <3>2. workers[key[1]].time <= workers'[key[1]].time
      BY <1>4, <2>1
    <3>3. QED
      BY <2>1, <2>2, <3>1, <3>2
  <2>4. QED
    BY <1>0, <1>4, <2>1, <2>3 DEF KeysInv
<1>9. RowsInv' /\ AheadInv'
  BY <1>1 DEF RowsInv, AheadInv
<1>10. QED
  BY <1>4, <1>5, <1>6, <1>7, <1>8, <1>9 DEF BaseInv

LEMMA FlushBase == ASSUME BaseInv, flushAllWIP PROVE BaseInv'
<1>0. TypeOK /\ Ordered /\ PlacedInv /\ RowsInv /\ AheadInv /\ TakenInv /\ KeysInv /\ WipInv
  BY DEF BaseInv
<1>1. PICK entry \in closing :
        /\ closing' = closing \ {entry}
        /\ candles' = IF workers[entry[1]].wip[entry[2]].trades > 0
                      THEN flushCandle(entry[1], entry[2], workers[entry[1]].wip[entry[2]])
                      ELSE candles
        /\ UNCHANGED <<swaps, workers, rows, tf, written, taken, restarts, failures>>
  BY DEF flushAllWIP, tick, faults
<1>2. entry[1] \in MarketIds /\ entry[2] \in Frames /\ closing' \subseteq MarketIds \X Frames
  BY <1>0, <1>1 DEF TypeOK
<1>3. CASE ~ (workers[entry[1]].wip[entry[2]].trades > 0)
  BY <1>1, <1>2, <1>3, SameBase
<1>4. CASE workers[entry[1]].wip[entry[2]].trades > 0
  <2>1. /\ CandleTable'
        /\ \A key \in DOMAIN candles' :
             LET w == workers[key[1]]
             IN /\ Reached(key[3]) /\ key[3] \in Starts(1)
                /\ Started(key[1]) => key[3] <= w.time
                /\ Started(key[1]) /\ w.wip[1].trades > 0 => key[3] <= w.wip[1].period
                /\ restarts = 0 => Started(key[1])
    BY <1>1, <1>2, <1>4, FlushKeys
  <2>2. KeysInv'
    BY <1>1, <2>1 DEF KeysInv, Started, Reached
  <2>3. TypeOK'
    BY <1>0, <1>1, <1>2, <2>1 DEF TypeOK
  <2>4. Ordered' /\ PlacedInv' /\ RowsInv' /\ AheadInv' /\ TakenInv'
    BY <1>0, <1>1 DEF Ordered, PlacedInv, RowsInv, AheadInv, TakenInv, Reached, Started, Busy,
         Current, NextSwap, Wip, UpTo, Messy, Hidden
  <2>5. WipInv'
    BY <1>0, <1>1 DEF WipInv, Started, Seen, Current
  <2>6. QED
    BY <2>2, <2>3, <2>4, <2>5 DEF BaseInv
<1>5. QED
  BY <1>3, <1>4

LEMMA RebootBase == ASSUME BaseInv, Reboot PROVE BaseInv'
<1>0. TypeOK /\ Ordered /\ KeysInv
  BY DEF BaseInv
<1>1. /\ restarts' = restarts + 1 /\ workers' = NoWorkers
      /\ rows' = {} /\ tf' = 1 /\ written' = FALSE /\ closing' = {} /\ taken' = {}
      /\ UNCHANGED <<swaps, candles, failures>>
  BY DEF Reboot
<1>2. NoCandle \in CandleRecords /\ NoCandle.trades = 0
  BY DEF NoCandle, CandleRecords
<1>3. /\ NoWorker \in [time : Int, id : Int, wip : [Frames -> CandleRecords]]
      /\ NoWorker.time = -1 /\ \A k \in Frames : NoWorker.wip[k] = NoCandle
  BY <1>2 DEF NoWorker
<1>4. /\ workers' \in [MarketIds -> [time : Int, id : Int, wip : [Frames -> CandleRecords]]]
      /\ \A m \in MarketIds : workers'[m] = NoWorker /\ ~ Started(m)'
  BY <1>1, <1>3 DEF NoWorkers, Started
<1>5. TypeOK'
  <2>1. CandleTable'
    BY <1>0, <1>1 DEF TypeOK, CandleTable
  <2>2. /\ swaps' \in Seq(SwapRecords) /\ rows' \subseteq DOMAIN swaps'
        /\ tf' \in Frames /\ written' \in BOOLEAN /\ restarts' \in Nat /\ failures' \in Nat
        /\ closing' \subseteq MarketIds \X Frames /\ taken' \subseteq DOMAIN swaps'
    <3>1. 1 \in Frames
      BY FrameFacts
    <3>2. swaps \in Seq(SwapRecords) /\ restarts \in Nat /\ failures \in Nat
      BY <1>0 DEF TypeOK
    <3>3. swaps' = swaps /\ restarts' = restarts + 1 /\ failures' = failures /\ written' \in BOOLEAN
      BY <1>1, Zenon
    <3>4. /\ rows' \subseteq DOMAIN swaps' /\ tf' \in Frames
          /\ closing' \subseteq MarketIds \X Frames /\ taken' \subseteq DOMAIN swaps'
      BY <1>1, <3>1, Zenon
    <3>5. QED
      BY <3>2, <3>3, <3>4
  <2>3. QED
    BY <1>4, <2>1, <2>2 DEF TypeOK
<1>6. Ordered' /\ \A t : Reached(t)' <=> Reached(t)
  BY <1>0, <1>1, HiddenSame
<1>7. PlacedInv'
  BY <1>4 DEF PlacedInv
<1>8. RowsInv' /\ AheadInv' /\ TakenInv'
  BY <1>1 DEF RowsInv, AheadInv, TakenInv
<1>9. KeysInv'
  <2>1. restarts' # 0
    BY <1>0, <1>1 DEF TypeOK
  <2>2. \A key \in DOMAIN candles : key[1] \in MarketIds
    BY <1>0 DEF TypeOK, CandleTable
  <2>3. QED
    BY <1>0, <1>1, <1>4, <1>6, <2>1, <2>2 DEF KeysInv
<1>10. WipInv'
  <2>1. \A k \in Frames : Seen(k)' = {}
    BY <1>1 DEF Seen
  <2>2. QED
    BY <1>2, <1>3, <1>4, <2>1 DEF WipInv
<1>11. QED
  BY <1>5, <1>6, <1>7, <1>8, <1>9, <1>10 DEF BaseInv
-----------------------------------------------------------------------------
(* What it is that TakeIn does in timeframe f: swap r of market b, the row *)
(* s, makes the candle of the period from p on d.                          *)
TakesIn(b, r, s, f, p, d) ==
  /\ b = Busy /\ r = Current /\ s = NextSwap /\ f = tf /\ p = periodStart(s.time, f)
  /\ d = Trade(IF Wip.period = p THEN Wip ELSE Fresh(s.price, p), s.price)
  /\ rows # {} /\ (RollsOver => written)
  /\ workers' \in [MarketIds -> [time : Int, id : Int, wip : [Frames -> CandleRecords]]]
  /\ \A x \in MarketIds : x # b => workers'[x] = workers[x]
  /\ workers'[b].time = s.time /\ workers'[b].id = s.id
  /\ workers'[b].wip[f] = d
  /\ \A k \in Frames : k # f => workers'[b].wip[k] = workers[b].wip[k]
  /\ \/ rows' = rows /\ tf' = f + 1 /\ f + 1 \in Frames /\ taken' = taken
     \/ rows' = rows \ {r} /\ tf' = 1 /\ taken' = taken \union {r}
  /\ Seen(f) = taken
  /\ \A k \in Frames : Seen(k)' = IF k = f THEN taken \union {r} ELSE Seen(k)
  /\ written' = FALSE
  /\ UNCHANGED <<swaps, candles, running, closing, restarts, failures>>

TakenValues(b, r, s, f, p, d) ==
  /\ b \in MarketIds /\ f \in Frames
  /\ r \in rows /\ r \in DOMAIN swaps /\ r \in Nat /\ \A x \in rows : r <= x
  /\ swaps[r] = s /\ s.market = b /\ s.time \in Nat /\ s.id \in Nat \ {0} /\ s.price \in Nat
  /\ p \in Starts(f) /\ p \in Starts(1) /\ p \in Nat
  /\ p <= s.time /\ s.time < p + Timeframes[f]
  /\ d \in CandleRecords /\ d.trades \in Nat \ {0} /\ d.period = p
  /\ workers[b].time \in Nat /\ workers[b].time <= s.time /\ Started(b)

LEMMA TakeFacts ==
  ASSUME BaseInv, TakeIn
  PROVE  \E b, r, s, f, p, d : TakesIn(b, r, s, f, p, d) /\ TakenValues(b, r, s, f, p, d)
<1>0. TypeOK /\ RowsInv
  BY DEF BaseInv
<1>1. PICK b, r, s, f, p, c, d :
        /\ b = Busy /\ r = Current /\ s = NextSwap /\ f = tf /\ p = periodStart(s.time, f)
        /\ c = (IF Wip.period = p THEN Wip ELSE Fresh(s.price, p))
        /\ d = Trade(c, s.price)
  OBVIOUS
<1>2. /\ rows # {} /\ (RollsOver => written)
      /\ workers' = [workers EXCEPT ![b] = [MoveCursor(@, s) EXCEPT !.wip[f] = d]]
      /\ tf' = IF f = Len(Timeframes) THEN 1 ELSE f + 1
      /\ rows' = IF f = Len(Timeframes) THEN rows \ {r} ELSE rows
      /\ taken' = IF f = Len(Timeframes) THEN taken \union {r} ELSE taken
      /\ written' = FALSE
      /\ UNCHANGED <<swaps, candles, running, closing, restarts, failures>>
  BY <1>1 DEF TakeIn, Busy, faults
<1>3. /\ b \in MarketIds
      /\ r \in rows /\ r \in DOMAIN swaps /\ r \in Nat /\ \A x \in rows : r <= x
      /\ swaps[r] = s /\ s.market = b /\ s.time \in Nat /\ s.id \in Nat \ {0} /\ s.price \in Nat
  BY <1>0, <1>1, <1>2, CurrentFacts DEF NextSwap, Busy
<1>4. f \in Frames /\ f \in Nat \ {0} /\ Frames = 1 .. Len(Timeframes) /\ Len(Timeframes) \in Nat
  <2>1. f \in Frames
    BY <1>0, <1>1 DEF TypeOK
  <2>2. Timeframes \in Seq(Nat \ {0})
    OBVIOUS
  <2>3. Frames = 1 .. Len(Timeframes) /\ Len(Timeframes) \in Nat
    BY <2>2 DEF Frames
  <2>4. QED
    BY <2>1, <2>3
<1>5. /\ p \in Starts(f) /\ p \in Nat /\ p <= s.time /\ s.time < p + Timeframes[f]
      /\ p \in Starts(1)
  <2>1. p \in Starts(f) /\ p \in Nat /\ p <= s.time /\ s.time < p + Timeframes[f]
    BY <1>1, <1>3, <1>4, PeriodFacts
  <2>2. QED
    BY <1>4, <2>1, StartsFinest
<1>6. c \in CandleRecords /\ c.period = p
  <2>1. Fresh(s.price, p) \in CandleRecords /\ Fresh(s.price, p).period = p
    BY <1>3, <1>5 DEF Fresh, CandleRecords
  <2>2. Wip \in CandleRecords
    <3>1. Wip = workers[b].wip[f]
      BY <1>1 DEF Wip, Busy
    <3>2. QED
      BY <1>0, <1>3, <1>4, <3>1, WorkerFacts
  <2>3. QED
    BY <1>1, <2>1, <2>2
<1>7. d \in CandleRecords /\ d.trades \in Nat \ {0} /\ d.period = p
  <2>1. d \in CandleRecords /\ d.trades = c.trades + 1 /\ d.period = c.period
    <3>1. d = Trade(c, s.price)
      BY <1>1, Zenon
    <3>2. s.price \in Int
      BY <1>3
    <3>3. QED
      BY <1>6, <3>1, <3>2, TradeFields
  <2>2. c.trades \in Nat
    BY <1>6 DEF CandleRecords
  <2>3. QED
    BY <1>6, <2>1, <2>2
<1>8. /\ workers' \in [MarketIds -> [time : Int, id : Int, wip : [Frames -> CandleRecords]]]
      /\ \A x \in MarketIds : x # b => workers'[x] = workers[x]
      /\ workers'[b].time = s.time /\ workers'[b].id = s.id
      /\ workers'[b].wip[f] = d
      /\ \A k \in Frames : k # f => workers'[b].wip[k] = workers[b].wip[k]
  <2>1. workers \in [MarketIds -> [time : Int, id : Int, wip : [Frames -> CandleRecords]]]
    BY <1>0 DEF TypeOK
  <2>2. PICK u : u = workers[b]
    OBVIOUS
  <2>3. u = [time |-> u.time, id |-> u.id, wip |-> u.wip] /\ u.wip \in [Frames -> CandleRecords]
    BY <1>3, <2>1, <2>2
  <2>4. PICK v : v = [[u EXCEPT !.time = s.time, !.id = s.id] EXCEPT !.wip[f] = d]
    OBVIOUS
  <2>5. v = [time |-> s.time, id |-> s.id, wip |-> [u.wip EXCEPT ![f] = d]]
    BY <2>3, <2>4
  <2>6. [u.wip EXCEPT ![f] = d] \in [Frames -> CandleRecords]
    BY <1>4, <1>7, <2>3
  <2>7. /\ v \in [time : Int, id : Int, wip : [Frames -> CandleRecords]]
        /\ v.time = s.time /\ v.id = s.id
        /\ v.wip[f] = d /\ \A k \in Frames : k # f => v.wip[k] = u.wip[k]
    <3>1. PICK g : g = [u.wip EXCEPT ![f] = d]
      OBVIOUS
    <3>2. /\ g \in [Frames -> CandleRecords] /\ g[f] = d
          /\ \A k \in Frames : k # f => g[k] = u.wip[k]
      BY <1>4, <2>3, <2>6, <3>1
    <3>3. v = [time |-> s.time, id |-> s.id, wip |-> g]
      BY <2>5, <3>1
    <3>4. QED
      BY <1>3, <3>2, <3>3
  <2>8. workers' = [workers EXCEPT ![b] = v]
    BY <1>2, <2>2, <2>4 DEF MoveCursor
  <2>9. QED
    BY <1>3, <2>1, <2>2, <2>7, <2>8
<1>9. /\ \/ rows' = rows /\ tf' = f + 1 /\ f + 1 \in Frames /\ taken' = taken
         \/ rows' = rows \ {r} /\ tf' = 1 /\ taken' = taken \union {r}
      /\ Seen(f) = taken
      /\ \A k \in Frames : Seen(k)' = IF k = f THEN taken \union {r} ELSE Seen(k)
  <2>1. \A k : Seen(k) = IF f > k THEN taken \union {r} ELSE taken
    BY <1>1, <1>2 DEF Seen
  <2>2. CASE f = Len(Timeframes)
    <3>1. rows' = rows \ {r} /\ tf' = 1 /\ taken' = taken \union {r}
      BY <1>2, <2>2
    <3>2. \A k \in Frames : Seen(k)' = taken \union {r}
      BY <1>4, <3>1 DEF Seen
    <3>3. \A k \in Frames : k # f => Seen(k) = taken \union {r}
      BY <1>4, <2>1, <2>2
    <3>4. Seen(f) = taken
      BY <1>4, <2>1
    <3>5. QED
      BY <3>1, <3>2, <3>3, <3>4
  <2>3. CASE f # Len(Timeframes)
    <3>1. rows' = rows /\ tf' = f + 1 /\ f + 1 \in Frames /\ taken' = taken
      BY <1>2, <1>4, <2>3
    <3>2. Current' = r
      BY <1>1, <3>1 DEF Current
    <3>3. \A k \in Frames : Seen(k)' = IF f + 1 > k THEN taken \union {r} ELSE taken
      BY <1>2, <3>1, <3>2 DEF Seen
    <3>4. \A k \in Frames : k # f => (f + 1 > k <=> f > k)
      BY <1>4
    <3>5. f + 1 > f /\ ~ (f > f)
      BY <1>4
    <3>6. QED
      BY <2>1, <3>1, <3>3, <3>4, <3>5
  <2>4. QED
    BY <2>2, <2>3
<1>10. workers[b].time \in Nat /\ workers[b].time <= s.time /\ Started(b)
  <2>1. swaps[r].time >= workers[b].time /\ Started(b)
    BY <1>0, <1>1, <1>2, <1>3 DEF RowsInv
  <2>2. workers[b].time \in Int
    BY <1>0, <1>3, WorkerFacts
  <2>3. QED
    BY <1>3, <2>1, <2>2 DEF Started
<1>11. TakesIn(b, r, s, f, p, d)
  <2>1. d = Trade(IF Wip.period = p THEN Wip ELSE Fresh(s.price, p), s.price)
    BY <1>1, Zenon
  <2>2. QED
    BY <1>1, <1>2, <1>8, <1>9, <2>1, Zenon DEF TakesIn
<1>12. TakenValues(b, r, s, f, p, d)
  BY <1>3, <1>4, <1>5, <1>7, <1>10 DEF TakenValues
<1>13. QED
  BY <1>11, <1>12

LEMMA TakeBase == ASSUME BaseInv, TakeIn PROVE BaseInv'
<1>0. TypeOK /\ Ordered /\ PlacedInv /\ RowsInv /\ AheadInv /\ TakenInv /\ KeysInv /\ WipInv
  BY DEF BaseInv
<1>1. PICK b, r, s, f, p, d : TakesIn(b, r, s, f, p, d) /\ TakenValues(b, r, s, f, p, d)
  BY TakeFacts
<1>2. /\ b = Busy /\ r = Current /\ s = NextSwap /\ f = tf /\ p = periodStart(s.time, f)
      /\ rows # {}
      /\ workers' \in [MarketIds -> [time : Int, id : Int, wip : [Frames -> CandleRecords]]]
      /\ \A x \in MarketIds : x # b => workers'[x] = workers[x]
      /\ workers'[b].time = s.time /\ workers'[b].id = s.id
      /\ workers'[b].wip[f] = d
      /\ \A k \in Frames : k # f => workers'[b].wip[k] = workers[b].wip[k]
      /\ \/ rows' = rows /\ tf' = f + 1 /\ f + 1 \in Frames /\ taken' = taken
         \/ rows' = rows \ {r} /\ tf' = 1 /\ taken' = taken \union {r}
      /\ Seen(f) = taken
      /\ \A k \in Frames : Seen(k)' = IF k = f THEN taken \union {r} ELSE Seen(k)
  BY <1>1, Zenon DEF TakesIn
<1>3. written' = FALSE /\ UNCHANGED <<swaps, candles, closing, restarts, failures>>
  BY <1>1 DEF TakesIn
<1>4. /\ b \in MarketIds /\ f \in Frames
      /\ r \in rows /\ r \in DOMAIN swaps /\ r \in Nat /\ \A x \in rows : r <= x
      /\ swaps[r] = s /\ s.market = b /\ s.time \in Nat /\ s.id \in Nat \ {0} /\ s.price \in Nat
      /\ p \in Starts(f) /\ p \in Starts(1) /\ p \in Nat
      /\ p <= s.time /\ s.time < p + Timeframes[f]
      /\ d \in CandleRecords /\ d.trades \in Nat \ {0} /\ d.period = p
      /\ workers[b].time \in Nat /\ workers[b].time <= s.time /\ Started(b)
  BY <1>1 DEF TakenValues
<1>5. /\ \A i : Hidden(i)' <=> Hidden(i)
      /\ \A x, t : Messy(x, t)' <=> Messy(x, t)
      /\ \A t : Reached(t)' <=> Reached(t)
      /\ Ordered'
  BY <1>0, <1>3, HiddenSame
<1>6. taken \subseteq taken' /\ taken' \subseteq taken \union {r} /\ rows' \subseteq rows /\ tf' \in Frames
  BY <1>2, FrameFacts
<1>7. TypeOK'
  <2>1. CandleTable'
    BY <1>0, <1>3 DEF TypeOK, CandleTable
  <2>2. rows' \subseteq DOMAIN swaps /\ taken' \subseteq DOMAIN swaps
    BY <1>0, <1>4, <1>6 DEF TypeOK
  <2>3. QED
    BY <1>0, <1>2, <1>3, <1>6, <2>1, <2>2 DEF TypeOK
<1>8. PlacedInv' /\ TakenInv'
  BY <1>0, <1>2, <1>3, <1>6, CursorMoves
<1>9. ASSUME NEW x \in MarketIds
      PROVE  /\ workers[x].time \in Int /\ workers'[x].time \in Int
             /\ workers[x].time <= workers'[x].time /\ (Started(x)' <=> Started(x))
  <2>1. workers[x].time \in Int
    BY <1>0, WorkerFacts
  <2>2. CASE x = b
    BY <1>2, <1>4, <2>1, <2>2 DEF Started
  <2>3. CASE x # b
    BY <1>2, <2>1, <2>3 DEF Started
  <2>4. QED
    BY <2>2, <2>3
(* The finest candle in memory, before and after.                          *)
<1>10. /\ workers'[b].wip[1].trades > 0 /\ workers'[b].wip[1].period = periodStart(s.time, 1)
       /\ f # 1 => workers'[b].wip[1] = workers[b].wip[1]
  <2>1. CASE f = 1
    BY <1>2, <1>4, <2>1
  <2>2. CASE f # 1
    <3>1. f > 1
      BY <1>4, <2>2, FrameFacts
    <3>2. workers[b].wip[1].trades > 0 /\ workers[b].wip[1].period = periodStart(s.time, 1)
      BY <1>0, <1>2, <3>1 DEF RowsInv
    <3>3. QED
      BY <1>2, <2>2, <3>2, FrameFacts
  <2>3. QED
    BY <2>1, <2>2
<1>11. \A q \in Starts(1) : q <= s.time => q <= periodStart(s.time, 1)
  BY <1>4, FrameFacts, PeriodFacts
<1>12. RowsInv'
  <2>1. ASSUME NEW x \in rows PROVE swaps[x].market = b /\ swaps[x].time >= s.time
    <3>1. x \in DOMAIN swaps /\ r <= x
      BY <1>0, <1>4, <2>1 DEF TypeOK
    <3>2. swaps[x].time \in Nat /\ swaps[r].time <= swaps[x].time
      BY <1>0, <1>4, <3>1, SwapFacts, InTime
    <3>3. swaps[x].market = b
      BY <1>0, <1>2, <2>1 DEF RowsInv
    <3>4. QED
      BY <1>4, <3>2, <3>3
  <2>2. Started(b)'
    BY <1>4, <1>9
  <2>3. CASE rows' = rows /\ tf' = f + 1 /\ f + 1 \in Frames
    <3>1. Current' = r /\ NextSwap' = s /\ Busy' = b
      BY <1>2, <1>3, <1>4, <2>3 DEF Current, NextSwap, Busy
    <3>2. QED
      BY <1>2, <1>3, <1>10, <2>1, <2>2, <2>3, <3>1 DEF RowsInv, Started
  <2>4. CASE rows' = rows \ {r} /\ tf' = 1
    <3>1. SUFFICES ASSUME rows' # {}
                   PROVE  Busy' = b
      BY <1>2, <1>3, <2>1, <2>2, <2>4 DEF RowsInv, Started
    <3>2. Current' \in rows'
      <4>1. rows' \in SUBSET (DOMAIN swaps)
        BY <1>0, <1>6 DEF TypeOK
      <4>2. IsFiniteSet(rows') /\ rows' \in SUBSET Int
        BY <1>0, <4>1, SwapFacts
      <4>3. QED
        BY <3>1, <4>2, Extremes DEF Current
    <3>3. QED
      BY <1>3, <1>6, <2>1, <3>2 DEF Busy, NextSwap
  <2>5. QED
    BY <1>2, <2>3, <2>4
<1>13. AheadInv'
  <2> SUFFICES ASSUME NEW i \in taken', NEW x \in rows', swaps[i].market = swaps[x].market, x <= i
               PROVE  Messy(swaps[x].market, swaps[x].time)
    BY <1>3, <1>5 DEF AheadInv
  <2>1. CASE i \in taken
    BY <1>0, <1>6, <2>1 DEF AheadInv
  <2>2. CASE i \notin taken
    <3>1. i = r /\ x \in rows /\ x # r
      BY <1>2, <1>6, <2>2
    <3>2. x \in Nat
      BY <1>0, <3>1, SwapFacts DEF TypeOK
    <3>3. QED
      BY <1>4, <3>1, <3>2
  <2>3. QED
    BY <2>1, <2>2
<1>14. KeysInv'
  <2> SUFFICES ASSUME NEW key \in DOMAIN candles
               PROVE  /\ Reached(key[3]) /\ key[3] \in Starts(1)
                      /\ Started(key[1])' => key[3] <= workers'[key[1]].time
                      /\ Started(key[1])' /\ workers'[key[1]].wip[1].trades > 0
                           => key[3] <= workers'[key[1]].wip[1].period
                      /\ restarts = 0 => Started(key[1])'
    BY <1>3, <1>5 DEF KeysInv
  <2>1. key[1] \in MarketIds /\ key[3] \in Nat
    BY <1>0 DEF TypeOK, CandleTable
  <2>2. Reached(key[3]) /\ key[3] \in Starts(1) /\ (restarts = 0 => Started(key[1])')
    BY <1>0, <1>9, <2>1 DEF KeysInv
  <2>3. Started(key[1]) => key[3] <= workers[key[1]].time
    BY <1>0 DEF KeysInv
  <2>4. Started(key[1])' => key[3] <= workers'[key[1]].time
    BY <1>9, <2>1, <2>3
  <2>5. CASE key[1] = b
    <3>1. key[3] <= s.time
      BY <1>2, <1>4, <1>9, <2>4, <2>5
    <3>2. QED
      BY <1>10, <1>11, <2>2, <2>4, <2>5, <3>1
  <2>6. CASE key[1] # b
    <3>1. workers'[key[1]] = workers[key[1]] /\ (Started(key[1])' <=> Started(key[1]))
      BY <1>2, <1>9, <2>1, <2>6
    <3>2. QED
      BY <1>0, <2>2, <2>4, <3>1 DEF KeysInv
  <2>7. QED
    BY <2>5, <2>6
<1>15. WipInv'
  <2> SUFFICES ASSUME NEW x \in MarketIds, NEW k \in Frames
               PROVE  LET v == workers'[x]
                          c == v.wip[k]
                      IN /\ c.trades > 0 =>
                              /\ c.period \in Starts(k)
                              /\ c.period <= v.time
                              /\ v.wip[1].trades > 0 /\ c.period <= v.wip[1].period
                              /\ \A i \in Seen(k)' : swaps[i].market = x => swaps[i].time < c.period + Timeframes[k]
                         /\ c.trades = 0 =>
                              /\ c = NoCandle
                              /\ restarts = 0 => \A i \in Seen(k)' : swaps[i].market # x
                         /\ k = 1 /\ c.trades = 0 /\ Started(x)' =>
                              /\ v.time \in Starts(1)
                              /\ \A i \in Seen(k)' : swaps[i].market = x => swaps[i].time < v.time
    BY <1>3 DEF WipInv
  <2>1. CASE x # b
    <3>1. \A i \in Seen(k)' : swaps[i].market = x => i \in Seen(k)
      BY <1>2, <1>4, <2>1
    <3>2. workers'[x] = workers[x] /\ (Started(x)' <=> Started(x))
      BY <1>2, <1>9, <2>1
    <3>3. QED
      BY <1>0, <3>1, <3>2 DEF WipInv
  <2>2. CASE x = b /\ k = f
    <3>1. p <= periodStart(s.time, 1)
      BY <1>4, <1>11
    <3>2. ASSUME NEW i \in taken \union {r}, swaps[i].market = b
          PROVE  swaps[i].time < p + Timeframes[f]
      <4>1. CASE i = r
        BY <1>4, <4>1
      <4>2. CASE i \in taken
        <5>1. swaps[i].time <= workers[b].time /\ swaps[i].time \in Nat
          BY <1>0, <3>2, <4>2, SwapFacts DEF TakenInv, TypeOK
        <5>2. Timeframes[f] \in Nat
          BY <1>4, FrameFacts
        <5>3. /\ workers[b].time \in Nat /\ workers[b].time <= s.time
              /\ s.time \in Nat /\ p \in Nat /\ s.time < p + Timeframes[f]
          BY <1>4
        <5>4. QED
          BY <5>1, <5>2, <5>3
      <4>3. QED
        BY <4>1, <4>2
    <3>3. workers'[x].wip[k] = d /\ workers'[x].time = s.time /\ Seen(k)' = taken \union {r}
      BY <1>2, <1>4, <2>2
    <3>4. QED
      BY <1>4, <1>10, <2>2, <3>1, <3>2, <3>3
  <2>3. CASE x = b /\ k # f
    <3>1. workers'[x].wip[k] = workers[b].wip[k] /\ workers'[x].time = s.time /\ Seen(k)' = Seen(k)
      BY <1>2, <1>4, <2>3
    <3> DEFINE c == workers[b].wip[k]
    <3>2. c.trades > 0 =>
            /\ c.period \in Starts(k) /\ c.period \in Starts(1) /\ c.period <= s.time
            /\ \A i \in Seen(k) : swaps[i].market = b => swaps[i].time < c.period + Timeframes[k]
      <4>1. SUFFICES ASSUME c.trades > 0
                     PROVE  /\ c.period \in Starts(k) /\ c.period \in Starts(1) /\ c.period <= s.time
                            /\ \A i \in Seen(k) : swaps[i].market = b => swaps[i].time < c.period + Timeframes[k]
        OBVIOUS
      <4>2. /\ c.period \in Starts(k) /\ c.period \in Starts(1) /\ c.period <= workers[b].time
            /\ c.period \in Nat
        BY <1>4, <4>1, WipFacts
      <4>3. \A i \in Seen(k) : swaps[i].market = b => swaps[i].time < c.period + Timeframes[k]
        BY <1>0, <1>4, <4>1 DEF WipInv
      <4>4. workers[b].time \in Nat /\ workers[b].time <= s.time /\ s.time \in Nat
        BY <1>4
      <4>5. c.period <= s.time
        BY <4>2, <4>4
      <4>6. QED
        BY <4>2, <4>3, <4>5
    <3>3. c.trades > 0 => c.period <= periodStart(s.time, 1)
      BY <1>11, <3>2
    <3>4. c.trades = 0 => c = NoCandle /\ (restarts = 0 => \A i \in Seen(k) : swaps[i].market # b)
      BY <1>0, <1>4 DEF WipInv
    <3>5. ~ (k = 1 /\ c.trades = 0)
      <4>1. SUFFICES ASSUME k = 1, c.trades = 0 PROVE FALSE
        OBVIOUS
      <4>2. workers'[b].wip[1] = c
        BY <2>3, <3>1, <4>1
      <4>3. QED
        BY <1>10, <4>1, <4>2
    <3> HIDE DEF c
    <3>6. workers'[x].wip[k] = c /\ x = b
      BY <2>3, <3>1 DEF c
    <3>7. QED
      BY <1>10, <3>1, <3>2, <3>3, <3>4, <3>5, <3>6
  <2>4. QED
    BY <2>1, <2>2, <2>3
<1>16. QED
  BY <1>5, <1>7, <1>8, <1>12, <1>13, <1>14, <1>15 DEF BaseInv
-----------------------------------------------------------------------------
(* The steps, those of an idle tick and of the service's phases first.     *)
LEMMA StepCases ==
  ASSUME BaseInv, [CandlesNext]_candleVars
  PROVE  \/ \E m \in MarketIds, time \in 0 .. LastSecond, id \in Ids : InsertSwap(m, time, id)
         \/ \E m \in MarketIds : Visit(m)
         \/ WriteCandle \/ WriteFails \/ TakeIn \/ flushAllWIP
         \/ Reboot
         \/ /\ UNCHANGED <<swaps, candles, workers, rows, tf, written, taken, restarts, failures>>
            /\ closing' \subseteq MarketIds \X Frames
            /\ running' => running
<1>0. closing \subseteq MarketIds \X Frames
  BY DEF BaseInv, TypeOK
<1>1. CASE StartTick
  BY <1>0, <1>1 DEF StartTick, faults
<1>2. CASE stopCandleService
  BY <1>0, <1>2 DEF stopCandleService, tick
<1>3. CASE Exit \/ Crash
  BY <1>3 DEF Exit, Crash
<1>4. CASE UNCHANGED candleVars
  BY <1>0, <1>4 DEF candleVars, tick, faults
<1>5. QED
  BY <1>1, <1>2, <1>3, <1>4 DEF CandlesNext

LEMMA NextBase == BaseInv /\ [CandlesNext]_candleVars => BaseInv'
BY StepCases, InsertBase, VisitBase, WriteBase, FailBase, TakeBase, FlushBase, RebootBase, SameBase

(* The candle service's tables, cursors and candles in memory have their   *)
(* types, and keep in step with each other.                                *)
THEOREM CandleTypes == CandlesSpec => []BaseInv
<1>1. CandlesInit => BaseInv
  BY InitBase
<1>2. BaseInv /\ [CandlesNext]_candleVars => BaseInv'
  BY NextBase
<1>3. QED
  BY <1>1, <1>2, PTL DEF CandlesSpec
-----------------------------------------------------------------------------
(* A swap is missed only as a write fails, and then only one is.           *)
LEMMA MissedSame ==
  ASSUME UNCHANGED <<swaps, workers, rows, taken>>
  PROVE  Missed' = Missed
BY DEF Missed, Hidden, UpTo

LEMMA MissedInsert ==
  ASSUME BaseInv, NEW m \in MarketIds, NEW time \in 0 .. LastSecond, NEW id \in Ids,
         InsertSwap(m, time, id)
  PROVE  Missed' \subseteq Missed
<1>0. TypeOK /\ Ordered /\ PlacedInv
  BY DEF BaseInv
<1>1. PICK n : InsertsRow(n, m, time, id)
  BY <1>0, InsertFacts
<1>2. UNCHANGED <<workers, rows, taken>>
  BY DEF InsertSwap, tick
<1>3. /\ DOMAIN swaps' = DOMAIN swaps \union {n}
      /\ \A i \in DOMAIN swaps : i < n /\ swaps'[i] = swaps[i]
      /\ swaps'[n].market = m /\ swaps'[n].time = time /\ swaps'[n].id = id
      /\ \A i \in DOMAIN swaps : swaps[i].time <= time /\ swaps[i].id # id
      /\ \A i \in DOMAIN swaps : Hidden(i)' <=> Hidden(i)
      /\ n \in Nat
  BY <1>0, <1>1, InsertFacts DEF InsertsRow
<1>4. rows \subseteq DOMAIN swaps
  BY <1>0 DEF TypeOK
<1>5. SUFFICES ASSUME NEW i \in Missed' PROVE i \in Missed
  OBVIOUS
<1>6. /\ i \in DOMAIN swaps' /\ i \notin taken \union rows /\ ~ Hidden(i)'
      /\ \/ UpTo(i, workers[swaps[i].market])'
         \/ \E r \in rows : swaps'[r].market = swaps'[i].market /\ i < r
  BY <1>2, <1>5 DEF Missed
<1>7. CASE i = n
  <2>1. \A r \in rows : ~ (i < r)
    <3>1. \A r \in rows : r < n /\ r \in Nat
      BY <1>0, <1>3, <1>4, SwapFacts
    <3>2. QED
      BY <1>3, <1>7, <3>1
  <2> DEFINE t == workers[m].time
             c == workers[m].id
  <2>2. time < t \/ (time = t /\ id <= c)
    BY <1>2, <1>3, <1>6, <1>7, <2>1 DEF UpTo
  <2>3. time \in Nat /\ id \in Nat \ {0}
    OBVIOUS
  <2>4. workers[m] # NoWorker
    BY <2>2, <2>3 DEF NoWorker
  <2>5. /\ t \in Nat /\ c \in Nat /\ Reached(t)
        /\ \/ c = 0
           \/ \E j \in DOMAIN swaps : swaps[j].market = m /\ swaps[j].time = t /\ swaps[j].id = c
    BY <1>0, <2>4 DEF PlacedInv
  <2> HIDE DEF t, c
  <2>6. t <= time
    <3>1. CASE t = 0
      BY <2>3, <3>1
    <3>2. CASE t # 0
      <4>1. PICK j \in DOMAIN swaps : swaps[j].time >= t
        BY <2>5, <3>2 DEF Reached
      <4>2. swaps[j].time <= time /\ swaps[j].time \in Nat
        BY <1>0, <1>3, SwapFacts
      <4>3. QED
        BY <2>3, <2>5, <4>1, <4>2
    <3>3. QED
      BY <3>1, <3>2
  <2>7. time = t /\ id <= c
    BY <2>2, <2>3, <2>5, <2>6
  <2>8. PICK j \in DOMAIN swaps : swaps[j].market = m /\ swaps[j].time = t /\ swaps[j].id = c
    BY <2>3, <2>5, <2>7
  <2>9. c > id /\ j < n
    BY <1>3, <2>3, <2>5, <2>7, <2>8
  <2>10. Hidden(n)'
    BY <1>3, <2>7, <2>8, <2>9 DEF Hidden
  <2>11. QED
    BY <1>6, <1>7, <2>10
<1>8. CASE i # n
  <2>1. i \in DOMAIN swaps /\ swaps'[i] = swaps[i]
    BY <1>3, <1>6, <1>8
  <2>2. QED
    BY <1>2, <1>3, <1>4, <1>6, <2>1 DEF Missed, UpTo
<1>9. QED
  BY <1>7, <1>8

LEMMA MissedVisit ==
  ASSUME BaseInv, NEW m \in MarketIds, Visit(m)
  PROVE  Missed' \subseteq Missed
<1>0. TypeOK
  BY DEF BaseInv
<1>1. /\ rows = {} /\ swaps' = swaps
      /\ \A x \in MarketIds : x # m => workers'[x] = workers[x]
      /\ \/ workers' = workers /\ taken' = taken
         \/ /\ workers[m] = NoWorker /\ workers'[m] = Seeded(m)
            /\ taken' = taken \union
                 {i \in DOMAIN swaps : swaps[i].market = m /\ swaps[i].time < workers'[m].time}
      /\ \A r \in rows' : swaps[r].market = m
      /\ \A i \in DOMAIN swaps, r \in rows' :
           swaps[i].market = m /\ i < r => i \in rows' \/ UpTo(i, workers[m])'
  BY VisitFacts
<1>2. SUFFICES ASSUME NEW i \in Missed' PROVE i \in Missed
  OBVIOUS
<1>3. /\ i \in DOMAIN swaps /\ i \notin taken' \union rows' /\ ~ Hidden(i)
      /\ \/ UpTo(i, workers[swaps[i].market])'
         \/ \E r \in rows' : swaps[r].market = swaps[i].market /\ i < r
  BY <1>1, <1>2 DEF Missed, Hidden
<1>4. PICK x : x = swaps[i].market
  OBVIOUS
<1>5. UpTo(i, workers[x])' /\ x \in MarketIds
  <2>1. x \in MarketIds
    BY <1>0, <1>3, <1>4, SwapFacts
  <2>2. CASE \E r \in rows' : swaps[r].market = swaps[i].market /\ i < r
    BY <1>1, <1>3, <1>4, <2>2
  <2>3. CASE UpTo(i, workers[swaps[i].market])'
    <3>1. swaps'[i] = swaps[i]
      BY <1>1
    <3>2. QED
      BY <1>4, <2>1, <2>3, <3>1 DEF UpTo
  <2>4. QED
    BY <1>3, <2>1, <2>2, <2>3
<1>6. CASE UpTo(i, workers[x])
  <2>1. taken \subseteq taken'
    BY <1>1
  <2>2. QED
    BY <1>1, <1>3, <1>4, <1>6, <2>1 DEF Missed
<1>7. CASE ~ UpTo(i, workers[x])
  <2>1. x = m /\ workers[m] = NoWorker /\ workers'[m] = Seeded(m)
        /\ taken' = taken \union
             {j \in DOMAIN swaps : swaps[j].market = m /\ swaps[j].time < workers'[m].time}
    BY <1>1, <1>5, <1>7 DEF UpTo
  <2>2. workers'[m].id = 0
    BY <2>1, SeededFacts
  <2>3. swaps[i].id \in Nat \ {0}
    BY <1>0, <1>3, SwapFacts
  <2>4. swaps[i].time < workers'[m].time
    BY <1>1, <1>5, <2>1, <2>2, <2>3 DEF UpTo
  <2>5. i \in taken'
    BY <1>3, <1>4, <2>1, <2>4
  <2>6. QED
    BY <1>3, <2>5
<1>8. QED
  BY <1>6, <1>7

(* The cursor passes no row but the next one.                              *)
LEMMA MissedCursor ==
  ASSUME BaseInv, rows # {}, swaps' = swaps,
         \A x \in MarketIds : x # Busy => workers'[x] = workers[x],
         workers'[Busy].time = NextSwap.time, workers'[Busy].id = NextSwap.id,
         taken \subseteq taken',
         rows' \subseteq rows
  PROVE  Missed' \subseteq Missed \union (rows \ (taken' \union rows'))
<1>0. TypeOK /\ Ordered /\ RowsInv
  BY DEF BaseInv
<1>1. PICK b, r, s : b = Busy /\ r = Current /\ s = NextSwap
  OBVIOUS
<1>2. SUFFICES ASSUME NEW i \in Missed', i \notin rows PROVE i \in Missed
  BY DEF Missed
<1>3. /\ i \in DOMAIN swaps /\ i \notin taken \union rows /\ ~ Hidden(i)
      /\ \/ UpTo(i, workers[swaps[i].market])'
         \/ \E x \in rows' : swaps[x].market = swaps[i].market /\ i < x
  BY <1>2 DEF Missed, Hidden
<1>4. SUFFICES ASSUME UpTo(i, workers[swaps[i].market])',
                      ~ UpTo(i, workers[swaps[i].market])
               PROVE  \E x \in rows : swaps[x].market = swaps[i].market /\ i < x
  BY <1>3 DEF Missed
<1>5. r \in rows /\ r \in DOMAIN swaps /\ r \in Nat /\ swaps[r] = s /\ s.market = b
  BY <1>0, <1>1, CurrentFacts DEF NextSwap, Busy
<1>6. i \in Nat /\ swaps[i].market \in MarketIds
  BY <1>0, <1>3, SwapFacts
<1>7. PICK x : x = swaps[i].market
  OBVIOUS
<1>8. x = b
  <2>1. x # b => workers'[x] = workers[x]
    BY <1>1, <1>6, <1>7
  <2>2. QED
    BY <1>4, <1>7, <2>1 DEF UpTo
<1>9. swaps[i].time < s.time \/ (swaps[i].time = s.time /\ swaps[i].id <= s.id)
  <2>1. UpTo(i, workers[b])'
    BY <1>4, <1>7, <1>8
  <2>2. QED
    BY <1>1, <2>1 DEF UpTo
<1>10. ~ (i > r)
  <2>1. i > r => Hidden(i)
    BY <1>0, <1>1, <1>3, <1>7, <1>8, <1>9, PassedInOrder
  <2>2. QED
    BY <1>3, <2>1
<1>11. i < r
  BY <1>3, <1>5, <1>6, <1>10
<1>12. QED
  BY <1>5, <1>7, <1>8, <1>11

LEMMA MissedFails ==
  ASSUME BaseInv, rows # {}, swaps' = swaps,
         \A x \in MarketIds : x # Busy => workers'[x] = workers[x],
         workers'[Busy].time = NextSwap.time, workers'[Busy].id = NextSwap.id,
         taken' = taken, rows' = {}
  PROVE  Missed' \subseteq Missed \union {Current}
<1>0. TypeOK /\ Ordered /\ RowsInv
  BY DEF BaseInv
<1>1. PICK b, r, s : b = Busy /\ r = Current /\ s = NextSwap
  OBVIOUS
<1>2. SUFFICES ASSUME NEW i \in Missed', i # r PROVE i \in Missed
  BY <1>1
<1>3. /\ i \in DOMAIN swaps /\ i \notin taken /\ ~ Hidden(i)
      /\ UpTo(i, workers[swaps[i].market])'
  BY <1>2 DEF Missed, Hidden
<1>4. CASE i \notin rows
  <2>1. i \in Missed \union (rows \ (taken' \union rows'))
    BY <1>2, MissedCursor
  <2>2. QED
    BY <1>4, <2>1
<1>5. CASE i \in rows
  <2>1. r \in DOMAIN swaps /\ r \in Nat /\ r <= i /\ i \in Nat
    BY <1>0, <1>1, <1>3, <1>5, CurrentFacts, SwapFacts
  <2>2. i > r /\ swaps[i].market = b
    BY <1>0, <1>1, <1>2, <1>5, <2>1 DEF RowsInv
  <2>3. swaps[i].time < s.time \/ (swaps[i].time = s.time /\ swaps[i].id <= s.id)
    <3>1. PICK x : x = swaps[i].market
      OBVIOUS
    <3>2. swaps'[i] = swaps[i] /\ x = b
      BY <2>2, <3>1
    <3>3. QED
      BY <1>1, <1>3, <3>1, <3>2 DEF UpTo
  <2>4. Hidden(i)
    BY <1>0, <1>1, <1>3, <2>2, <2>3, PassedInOrder
  <2>5. QED
    BY <1>3, <2>4
<1>6. QED
  BY <1>4, <1>5

LEMMA CursorOf ==
  ASSUME TypeOK, rows # {}, workers' = [workers EXCEPT ![Busy] = MoveCursor(@, NextSwap)]
  PROVE  /\ \A x \in MarketIds : x # Busy => workers'[x] = workers[x]
         /\ workers'[Busy].time = NextSwap.time /\ workers'[Busy].id = NextSwap.id
<1>1. PICK b, s : b = Busy /\ s = NextSwap
  OBVIOUS
<1>2. b \in MarketIds /\ workers \in [MarketIds -> [time : Int, id : Int, wip : [Frames -> CandleRecords]]]
  BY <1>1, CurrentFacts DEF TypeOK
<1>3. PICK u, v : u = workers[b] /\ v = [u EXCEPT !.time = s.time, !.id = s.id]
  OBVIOUS
<1>4. u = [time |-> u.time, id |-> u.id, wip |-> u.wip]
  BY <1>2, <1>3
<1>5. v.time = s.time /\ v.id = s.id
  BY <1>3, <1>4
<1>6. workers' = [workers EXCEPT ![b] = v]
  BY <1>1, <1>3 DEF MoveCursor
<1>7. QED
  BY <1>1, <1>2, <1>5, <1>6

MissedInv == Cardinality(Missed) <= failures

LEMMA InitMissed == CandlesInit => MissedInv
<1>1. ASSUME CandlesInit PROVE Missed = {} /\ failures = 0
  BY <1>1 DEF CandlesInit, Missed
<1>2. Cardinality({}) = 0
  BY FS_EmptySet
<1>3. ASSUME CandlesInit PROVE Cardinality(Missed) = 0 /\ failures = 0
  BY <1>1, <1>2, <1>3
<1>4. QED
  BY <1>3 DEF MissedInv

LEMMA MissedCount ==
  ASSUME BaseInv, BaseInv'
  PROVE  /\ Missed' \subseteq Missed => Cardinality(Missed') <= Cardinality(Missed)
         /\ \A r : Missed' \subseteq Missed \union {r} => Cardinality(Missed') <= Cardinality(Missed) + 1
         /\ Cardinality(Missed) \in Nat /\ Cardinality(Missed') \in Nat
<1>1. TypeOK /\ TypeOK'
  BY DEF BaseInv
<1>2. IsFiniteSet(Missed)
  <2>1. Missed \in SUBSET (DOMAIN swaps)
    BY DEF Missed
  <2>2. QED
    BY <1>1, <2>1, SwapFacts
<1>3. ASSUME NEW S, IsFiniteSet(S), Missed' \subseteq S
      PROVE  IsFiniteSet(Missed') /\ Cardinality(Missed') <= Cardinality(S)
  BY <1>3, FS_Subset
<1>4. ASSUME NEW r
      PROVE  /\ IsFiniteSet(Missed \union {r})
             /\ Cardinality(Missed \union {r}) <= Cardinality(Missed) + 1
             /\ Cardinality(Missed \union {r}) \in Nat
  <2>1. Cardinality(Missed) \in Nat
    BY <1>2, FS_CardinalityType
  <2>2. /\ IsFiniteSet(Missed \union {r})
        /\ \/ Cardinality(Missed \union {r}) = Cardinality(Missed)
           \/ Cardinality(Missed \union {r}) = Cardinality(Missed) + 1
    BY <1>2, FS_AddElement
  <2>3. QED
    BY <2>1, <2>2
<1>5. Cardinality(Missed) \in Nat
  BY <1>2, FS_CardinalityType
<1>6. IsFiniteSet(Missed')
  <2>1. DOMAIN swaps' = 1 .. Len(swaps') /\ Len(swaps') \in Nat
    BY <1>1 DEF TypeOK
  <2>2. IsFiniteSet(1 .. Len(swaps'))
    BY <2>1, FS_Interval
  <2>3. Missed' \subseteq DOMAIN swaps'
    BY DEF Missed
  <2>4. QED
    BY <2>1, <2>2, <2>3, FS_Subset
<1>7. Cardinality(Missed') \in Nat
  BY <1>6, FS_CardinalityType
<1>8. ASSUME NEW r, Missed' \subseteq Missed \union {r}
      PROVE  Cardinality(Missed') <= Cardinality(Missed) + 1
  <2>1. Cardinality(Missed') <= Cardinality(Missed \union {r})
    BY <1>3, <1>4, <1>8
  <2>2. /\ Cardinality(Missed \union {r}) <= Cardinality(Missed) + 1
        /\ Cardinality(Missed \union {r}) \in Nat
    BY <1>4
  <2>3. QED
    BY <1>5, <1>7, <2>1, <2>2
<1>9. QED
  BY <1>2, <1>3, <1>5, <1>7, <1>8

LEMMA NextMissed ==
  BaseInv /\ MissedInv /\ [CandlesNext]_candleVars => MissedInv'
<1> SUFFICES ASSUME BaseInv, MissedInv, [CandlesNext]_candleVars PROVE MissedInv'
  OBVIOUS
<1>1. BaseInv'
  BY NextBase
<1>2. TypeOK /\ failures \in Nat /\ rows \subseteq DOMAIN swaps
  BY DEF BaseInv, TypeOK
<1>3. Missed' \subseteq Missed /\ failures' = failures => MissedInv'
  BY <1>1, <1>2, MissedCount DEF MissedInv
<1>4. ASSUME NEW m \in MarketIds, NEW time \in 0 .. LastSecond, NEW id \in Ids, InsertSwap(m, time, id)
      PROVE  MissedInv'
  BY <1>3, <1>4, MissedInsert DEF InsertSwap, faults
<1>5. ASSUME NEW m \in MarketIds, Visit(m)
      PROVE  MissedInv'
  BY <1>3, <1>5, MissedVisit DEF Visit, faults
<1>6. CASE WriteCandle
  <2>1. /\ rows # {} /\ UNCHANGED <<swaps, rows, taken, failures>>
        /\ workers' = [workers EXCEPT ![Busy] = MoveCursor(@, NextSwap)]
    BY <1>6 DEF WriteCandle, Busy, faults
  <2>2. /\ \A x \in MarketIds : x # Busy => workers'[x] = workers[x]
        /\ workers'[Busy].time = NextSwap.time /\ workers'[Busy].id = NextSwap.id
    BY <1>2, <2>1, CursorOf
  <2>3. Missed' \subseteq Missed \union (rows \ (taken' \union rows'))
    BY <2>1, <2>2, MissedCursor
  <2>4. QED
    BY <1>3, <2>1, <2>3
<1>7. CASE WriteFails
  <2>1. /\ rows # {} /\ UNCHANGED <<swaps, taken>> /\ rows' = {} /\ failures' = failures + 1
        /\ workers' = [workers EXCEPT ![Busy] = MoveCursor(@, NextSwap)]
    BY <1>7 DEF WriteFails, Busy
  <2>2. /\ \A x \in MarketIds : x # Busy => workers'[x] = workers[x]
        /\ workers'[Busy].time = NextSwap.time /\ workers'[Busy].id = NextSwap.id
    BY <1>2, <2>1, CursorOf
  <2>3. Missed' \subseteq Missed \union {Current}
    BY <2>1, <2>2, MissedFails
  <2>4. /\ Cardinality(Missed') <= Cardinality(Missed) + 1
        /\ Cardinality(Missed') \in Nat /\ Cardinality(Missed) \in Nat
    BY <1>1, <2>3, MissedCount
  <2>5. Cardinality(Missed) <= failures
    BY DEF MissedInv
  <2>6. Cardinality(Missed') <= failures'
    BY <1>2, <2>1, <2>4, <2>5
  <2>7. QED
    BY <2>6 DEF MissedInv
<1>8. CASE TakeIn
  <2>1. PICK b, r, s, f, p, d : TakesIn(b, r, s, f, p, d)
    BY <1>8, TakeFacts
  <2>2. /\ b = Busy /\ r = Current /\ s = NextSwap /\ rows # {}
        /\ \A x \in MarketIds : x # b => workers'[x] = workers[x]
        /\ workers'[b].time = s.time /\ workers'[b].id = s.id
        /\ \/ rows' = rows /\ taken' = taken
           \/ rows' = rows \ {r} /\ taken' = taken \union {r}
        /\ UNCHANGED <<swaps, failures>>
    BY <2>1 DEF TakesIn
  <2>3. taken \subseteq taken' /\ rows' \subseteq rows /\ rows \ (taken' \union rows') = {}
    BY <2>2
  <2>4. Missed' \subseteq Missed \union (rows \ (taken' \union rows'))
    BY <2>2, <2>3, MissedCursor
  <2>5. QED
    BY <1>3, <2>2, <2>3, <2>4
<1>9. CASE flushAllWIP
  <2>1. UNCHANGED <<swaps, workers, rows, taken, failures>>
    BY <1>9 DEF flushAllWIP, tick, faults
  <2>2. QED
    BY <1>3, <2>1, MissedSame
<1>10. CASE Reboot
  <2>1. workers' = NoWorkers /\ rows' = {} /\ swaps' = swaps /\ failures' = failures
    BY <1>10 DEF Reboot
  <2>2. Missed' = {}
    <3>1. SUFFICES ASSUME NEW i \in Missed' PROVE FALSE
      OBVIOUS
    <3>2. i \in DOMAIN swaps /\ UpTo(i, workers[swaps[i].market])'
      BY <2>1, <3>1 DEF Missed
    <3>3. swaps[i].market \in MarketIds /\ swaps[i].time \in Nat
      BY <1>2, <3>2, SwapFacts
    <3>4. workers'[swaps[i].market].time = -1
      BY <2>1, <3>3 DEF NoWorkers, NoWorker
    <3>5. swaps'[i] = swaps[i]
      BY <2>1
    <3>6. QED
      BY <3>2, <3>3, <3>4, <3>5 DEF UpTo
  <2>3. QED
    BY <1>3, <2>1, <2>2
<1>11. CASE UNCHANGED <<swaps, candles, workers, rows, tf, written, taken, restarts, failures>>
  BY <1>3, <1>11, MissedSame
<1>12. QED
  BY <1>4, <1>5, <1>6, <1>7, <1>8, <1>9, <1>10, <1>11, StepCases

LEMMA NoneMissed ==
  ASSUME BaseInv, MissedInv
  PROVE  NoSwapPassed
<1>1. TypeOK /\ RowsInv
  BY DEF BaseInv
<1>2. Passed \subseteq Missed
  <2>1. SUFFICES ASSUME NEW i \in Passed PROVE i \notin rows
    BY DEF Passed, Missed, UpTo
  <2>2. /\ i \in DOMAIN swaps /\ swaps[i].time < workers[swaps[i].market].time
    BY DEF Passed
  <2>3. SUFFICES ASSUME i \in rows PROVE FALSE
    OBVIOUS
  <2>4. swaps[i].market = Busy /\ swaps[i].time >= workers[Busy].time
    BY <1>1, <2>3 DEF RowsInv
  <2>5. swaps[i].time \in Nat /\ workers[Busy].time \in Int
    BY <1>1, <2>2, <2>4, SwapFacts, WorkerFacts
  <2>6. QED
    BY <2>2, <2>4, <2>5
<1>3. IsFiniteSet(Missed)
  <2>1. Missed \in SUBSET (DOMAIN swaps)
    BY DEF Missed
  <2>2. QED
    BY <1>1, <2>1, SwapFacts
<1>4. /\ Cardinality(Passed) <= Cardinality(Missed)
      /\ Cardinality(Passed) \in Nat /\ Cardinality(Missed) \in Nat
  BY <1>2, <1>3, FS_Subset, FS_CardinalityType
<1>5. failures \in Nat
  BY <1>1 DEF TypeOK
<1>6. QED
  BY <1>4, <1>5 DEF MissedInv, NoSwapPassed

(* The cursor of a market passes no swap that no worker has taken in, but  *)
(* for at most one at each failed write: see NoSwapPassed.                 *)
THEOREM CursorsPassNoSwap == CandlesSpec => []NoSwapPassed
<1>1. CandlesInit => BaseInv /\ MissedInv
  BY InitBase, InitMissed
<1>2. BaseInv /\ MissedInv /\ [CandlesNext]_candleVars => (BaseInv /\ MissedInv)'
  BY NextBase, NextMissed
<1>3. BaseInv /\ MissedInv => NoSwapPassed
  BY NoneMissed
<1>4. QED
  BY <1>1, <1>2, <1>3, PTL DEF CandlesSpec
-----------------------------------------------------------------------------
(* The swaps of a period that are in the candle of it.                     *)
Members(m, k, period) == SwapsOf(m, k, period) \intersect Seen(k)

(* The candles in memory are those of the swaps taken in: for the finest   *)
(* timeframe through restarts, for the others without.                     *)
Exact(m, k, c) ==
  (restarts = 0 \/ k = 1) /\ c.trades > 0 /\ Clean(m, k, c.period)
  => /\ Members(m, k, c.period) # {}
     /\ c = CandleIn(swaps, Members(m, k, c.period), c.period)

ExactWip ==
  failures = 0 => \A m \in MarketIds, k \in Frames : Exact(m, k, workers[m].wip[k])

LEMMA SwapsOfFacts ==
  ASSUME TypeOK, NEW m, NEW k, NEW period
  PROVE  /\ SwapsOf(m, k, period) \in SUBSET (DOMAIN swaps)
         /\ Members(m, k, period) \in SUBSET (DOMAIN swaps)
         /\ \A S \in SUBSET SwapsOf(m, k, period) :
              S \in SUBSET Int /\ IsFiniteSet(S) /\ \A i \in S : swaps[i].price \in Int
<1>1. SwapsOf(m, k, period) \in SUBSET (DOMAIN swaps)
  BY DEF SwapsOf
<1>2. Members(m, k, period) \in SUBSET (DOMAIN swaps)
  BY <1>1 DEF Members
<1>3. ASSUME NEW S \in SUBSET SwapsOf(m, k, period)
      PROVE  S \in SUBSET Int /\ IsFiniteSet(S) /\ \A i \in S : swaps[i].price \in Int
  <2>1. S \in SUBSET (DOMAIN swaps)
    BY <1>1
  <2>2. \A i \in DOMAIN swaps : swaps[i].price \in Int
    BY SwapFacts
  <2>3. QED
    BY <2>1, <2>2, SwapFacts
<1>4. QED
  BY <1>1, <1>2, <1>3

(* Seconds and periods without hidden swaps as the table grows or not.     *)
LEMMA SwapsOfSame ==
  ASSUME swaps' = swaps
  PROVE  /\ \A m, k, period : SwapsOf(m, k, period)' = SwapsOf(m, k, period)
         /\ \A m, k, period : Clean(m, k, period)' <=> Clean(m, k, period)
BY DEF SwapsOf, Clean, Hidden

LEMMA SwapsOfInsert ==
  ASSUME TypeOK, Ordered, NEW x \in MarketIds, NEW time \in 0 .. LastSecond, NEW id \in Ids,
         InsertSwap(x, time, id), NEW m, NEW k, NEW period
  PROVE  /\ Clean(m, k, period)' => Clean(m, k, period)
         /\ \E n : /\ InsertsRow(n, x, time, id)
                   /\ \/ SwapsOf(m, k, period)' = SwapsOf(m, k, period)
                      \/ /\ SwapsOf(m, k, period)' = SwapsOf(m, k, period) \union {n}
                         /\ m = x /\ periodStart(time, k) = period
<1>1. PICK n : InsertsRow(n, x, time, id)
  BY InsertFacts
<1>2. \A i \in DOMAIN swaps : Hidden(i)' <=> Hidden(i)
  BY InsertFacts
<1>3. /\ DOMAIN swaps' = DOMAIN swaps \union {n}
      /\ \A i \in DOMAIN swaps : swaps'[i] = swaps[i]
      /\ swaps'[n].market = x /\ swaps'[n].time = time
  BY <1>1 DEF InsertsRow
<1>4. \A i \in DOMAIN swaps : i \in SwapsOf(m, k, period)' <=> i \in SwapsOf(m, k, period)
  BY <1>3 DEF SwapsOf
<1>5. SwapsOf(m, k, period) \subseteq DOMAIN swaps /\ SwapsOf(m, k, period)' \subseteq DOMAIN swaps \union {n}
  BY <1>3 DEF SwapsOf
<1>6. n \in SwapsOf(m, k, period)' => m = x /\ periodStart(time, k) = period
  BY <1>3 DEF SwapsOf
<1>7. Clean(m, k, period)' => Clean(m, k, period)
  BY <1>2, <1>4, <1>5 DEF Clean
<1>8. CASE n \in SwapsOf(m, k, period)'
  <2>1. SwapsOf(m, k, period)' = SwapsOf(m, k, period) \union {n}
    BY <1>4, <1>5, <1>8
  <2>2. QED
    BY <1>1, <1>6, <1>7, <1>8, <2>1
<1>9. CASE n \notin SwapsOf(m, k, period)'
  <2>1. n \notin DOMAIN swaps
    BY <1>1 DEF InsertsRow
  <2>2. SwapsOf(m, k, period)' = SwapsOf(m, k, period)
    BY <1>4, <1>5, <1>9, <2>1
  <2>3. QED
    BY <1>1, <1>7, <2>2
<1>10. QED
  BY <1>8, <1>9

(* In a period without hidden swaps, what is taken in is before what is    *)
(* fetched.                                                                *)
LEMMA CleanAhead ==
  ASSUME BaseInv, NEW m \in MarketIds, NEW k \in Frames, NEW period, Clean(m, k, period),
         NEW i \in taken, NEW x \in rows, swaps[i].market = m, x \in SwapsOf(m, k, period)
  PROVE  i < x
<1>1. TypeOK /\ AheadInv
  BY DEF BaseInv
<1>2. swaps[x].market = m /\ periodStart(swaps[x].time, k) = period
  BY DEF SwapsOf
<1>3. ~ Messy(m, swaps[x].time)
  BY <1>2 DEF Messy, Clean, SwapsOf
<1>4. ~ (x <= i)
  BY <1>1, <1>2, <1>3 DEF AheadInv
<1>5. i \in Nat /\ x \in Nat
  BY <1>1, SwapFacts DEF TypeOK
<1>6. QED
  BY <1>4, <1>5

(* Without failures none is missed.                                        *)
LEMMA NoneMissing ==
  ASSUME BaseInv, MissedInv, failures = 0
  PROVE  \A i \in DOMAIN swaps :
           i \notin taken \union rows /\ ~ Hidden(i) =>
             /\ ~ UpTo(i, workers[swaps[i].market])
             /\ \A r \in rows : swaps[r].market = swaps[i].market => ~ (i < r)
<1>1. TypeOK
  BY DEF BaseInv
<1>2. IsFiniteSet(Missed)
  <2>1. Missed \in SUBSET (DOMAIN swaps)
    BY DEF Missed
  <2>2. QED
    BY <1>1, <2>1, SwapFacts
<1>3. Cardinality(Missed) \in Nat /\ Cardinality(Missed) <= 0
  BY <1>2, FS_CardinalityType DEF MissedInv
<1>4. Cardinality(Missed) = 0
  BY <1>3
<1>5. Missed = {}
  BY <1>2, <1>4, FS_EmptySet
<1>6. QED
  BY <1>5 DEF Missed

(* The swaps a candle has are the first ones of its period.                *)
LEMMA FirstSeen ==
  ASSUME BaseInv, MissedInv, failures = 0, NEW m \in MarketIds, NEW k \in Frames, NEW period,
         Clean(m, k, period), NEW i \in SwapsOf(m, k, period),
         NEW j \in Members(m, k, period), i < j
  PROVE  i \in Seen(k)
<1>0. TypeOK /\ Ordered /\ AheadInv /\ TakenInv /\ PlacedInv
  BY DEF BaseInv
<1>1. SUFFICES ASSUME i \notin taken, ~ (rows # {} /\ tf > k /\ i = Current)
               PROVE  FALSE
  BY DEF Seen
<1>2. /\ i \in DOMAIN swaps /\ swaps[i].market = m /\ ~ Hidden(i)
      /\ j \in DOMAIN swaps /\ swaps[j].market = m /\ ~ Hidden(j)
      /\ j \in SwapsOf(m, k, period)
  BY DEF SwapsOf, Members, Clean
<1>3. /\ i \in Nat /\ swaps[i].time \in Nat /\ swaps[i].id \in Nat
      /\ j \in Nat /\ swaps[j].time \in Nat /\ swaps[j].id \in Nat
  BY <1>0, <1>2, SwapFacts
<1>4. CASE j \in taken
  <2>1. i \notin rows
    <3>1. i \in rows => j < i
      BY <1>2, <1>4, CleanAhead
    <3>2. QED
      BY <1>3, <3>1
  <2>2. ~ UpTo(i, workers[m])
    BY <1>1, <1>2, <2>1, NoneMissing
  <2>3. UpTo(j, workers[m])
    <3>1. ~ Messy(m, swaps[j].time)
      BY <1>2 DEF Messy, Clean, SwapsOf
    <3>2. QED
      BY <1>0, <1>2, <1>4, <3>1 DEF TakenInv
  <2>4. swaps[i].time <= swaps[j].time /\ swaps[i].id # swaps[j].id
    BY <1>0, <1>2 DEF Ordered
  <2>5. workers[m].time \in Int /\ workers[m].id \in Int
    BY <1>0, WorkerFacts
  <2>6. swaps[i].time = swaps[j].time /\ swaps[i].id > swaps[j].id
    <3>1. PICK t, c : t = workers[m].time /\ c = workers[m].id
      OBVIOUS
    <3>2. /\ t \in Int /\ c \in Int
          /\ ~ (swaps[i].time < t) /\ ~ (swaps[i].time = t /\ swaps[i].id <= c)
          /\ swaps[j].time < t \/ (swaps[j].time = t /\ swaps[j].id <= c)
      BY <2>2, <2>3, <2>5, <3>1 DEF UpTo
    <3>3. swaps[j].time = t /\ swaps[j].id <= c /\ swaps[i].time = t
      BY <1>3, <2>4, <3>2
    <3>4. QED
      BY <1>3, <3>2, <3>3
  <2>7. Hidden(j)
    BY <1>2, <2>6 DEF Hidden
  <2>8. QED
    BY <1>2, <2>7
<1>5. CASE j \notin taken
  <2>1. rows # {} /\ j = Current
    BY <1>5 DEF Members, Seen
  <2>2. j \in rows /\ \A r \in rows : j <= r
    BY <1>0, <2>1, CurrentFacts
  <2>3. i \notin rows
    BY <1>3, <2>2
  <2>4. QED
    BY <1>1, <1>2, <2>2, <2>3, NoneMissing
<1>6. QED
  BY <1>4, <1>5

(* A candle of a swap's period starts with it, or goes on.                 *)
LEMMA TakeMembers ==
  ASSUME BaseInv, NEW b, NEW r, NEW s, NEW f, NEW p, NEW d,
         TakesIn(b, r, s, f, p, d), TakenValues(b, r, s, f, p, d),
         restarts = 0 \/ f = 1
  PROVE  /\ Wip = workers[b].wip[f]
         /\ Wip.period = p => Wip.trades > 0
         /\ Wip.period # p => SwapsOf(b, f, p) \intersect taken = {}
         /\ r \in SwapsOf(b, f, p)
<1>0. TypeOK /\ TakenInv /\ WipInv
  BY DEF BaseInv
<1>1. /\ b = Busy /\ s = NextSwap /\ f = tf /\ p = periodStart(s.time, f) /\ Seen(f) = taken
  BY DEF TakesIn
<1>2. /\ b \in MarketIds /\ f \in Frames
      /\ r \in DOMAIN swaps /\ swaps[r] = s /\ s.market = b /\ s.time \in Nat
      /\ p \in Starts(f) /\ p \in Nat /\ p <= s.time
      /\ workers[b].time \in Nat /\ workers[b].time <= s.time /\ Started(b)
  BY DEF TakenValues
<1>3. r \in SwapsOf(b, f, p)
  BY <1>1, <1>2 DEF SwapsOf
<1>4. PICK c : c = workers[b].wip[f]
  OBVIOUS
<1>5. Wip = c
  BY <1>1, <1>4 DEF Wip, Busy
<1>6. c.trades \in Nat /\ c.period \in Int
  BY <1>0, <1>2, <1>4, WorkerFacts
<1>7. c.trades = 0 => c = NoCandle /\ c.period = -1
  BY <1>0, <1>2, <1>4 DEF WipInv, NoCandle
<1>8. c.period = p => c.trades > 0
  BY <1>2, <1>6, <1>7
<1>9. ASSUME c.period # p, NEW i \in taken, i \in SwapsOf(b, f, p)
      PROVE  FALSE
  <2>1. swaps[i].market = b /\ i \in DOMAIN swaps /\ periodStart(swaps[i].time, f) = p
    BY <1>9 DEF SwapsOf
  <2>2. swaps[i].time \in Nat
    BY <1>0, <2>1, SwapFacts
  <2>3. p <= swaps[i].time
    BY <1>2, <2>1, <2>2, PeriodFacts
  <2>4. CASE c.trades > 0
    <3>1. c.period \in Starts(f) /\ c.period <= workers[b].time /\ c.period \in Nat
      BY <1>2, <1>4, <2>4, WipFacts
    <3>2. c.period <= s.time
      BY <1>2, <3>1
    <3>3. c.period <= p
      BY <1>1, <1>2, <3>1, <3>2, PeriodFacts
    <3>4. c.period + Timeframes[f] <= p
      <4>1. c.period < p
        BY <1>2, <1>9, <3>1, <3>3
      <4>2. QED
        BY <1>2, <3>1, <4>1, StartsApart
    <3>5. swaps[i].time < c.period + Timeframes[f]
      BY <1>0, <1>1, <1>2, <1>4, <1>9, <2>1, <2>4 DEF WipInv
    <3>6. Timeframes[f] \in Nat
      BY <1>2, FrameFacts
    <3>7. QED
      BY <1>2, <2>2, <2>3, <3>1, <3>4, <3>5, <3>6
  <2>5. CASE c.trades = 0
    <3>1. restarts # 0
      BY <1>0, <1>1, <1>2, <1>4, <1>9, <2>1, <2>5 DEF WipInv
    <3>2. f = 1
      BY <3>1
    <3>3. workers[b].time \in Starts(1) /\ swaps[i].time < workers[b].time
      BY <1>0, <1>1, <1>2, <1>4, <1>9, <2>1, <2>5, <3>2 DEF WipInv
    <3>4. workers[b].time <= p
      BY <1>1, <1>2, <3>2, <3>3, PeriodFacts
    <3>5. QED
      BY <1>2, <2>2, <2>3, <3>3, <3>4
  <2>6. QED
    BY <1>6, <2>4, <2>5
<1>10. QED
  BY <1>3, <1>4, <1>5, <1>8, <1>9

(* d is the candle of the swaps of its period that were taken, r among them. *)
ExactWith(b, r, f, p, d) ==
  /\ SwapsOf(b, f, p) \intersect (taken \union {r}) # {}
  /\ d = CandleIn(swaps, SwapsOf(b, f, p) \intersect (taken \union {r}), p)

LEMMA TakeExact ==
  ASSUME BaseInv, ExactWip, failures = 0,
         NEW b, NEW r, NEW s, NEW f, NEW p, NEW d,
         TakesIn(b, r, s, f, p, d), TakenValues(b, r, s, f, p, d),
         restarts = 0 \/ f = 1, Clean(b, f, p)
  PROVE  ExactWith(b, r, f, p, d)
<1>0. TypeOK
  BY DEF BaseInv
<1>1. /\ s = NextSwap /\ f = tf /\ Seen(f) = taken
      /\ d = Trade(IF Wip.period = p THEN Wip ELSE Fresh(s.price, p), s.price)
  BY Zenon DEF TakesIn
<1>2. /\ b \in MarketIds /\ f \in Frames
      /\ r \in rows /\ r \in Int /\ swaps[r] = s /\ s.market = b /\ s.price \in Int
  BY DEF TakenValues
<1>3. /\ Wip = workers[b].wip[f]
      /\ Wip.period = p => Wip.trades > 0
      /\ Wip.period # p => SwapsOf(b, f, p) \intersect taken = {}
      /\ r \in SwapsOf(b, f, p)
  BY TakeMembers, Zenon
<1> DEFINE S == SwapsOf(b, f, p) \intersect taken
           T == SwapsOf(b, f, p) \intersect (taken \union {r})
<1>4. T = S \union {r}
  BY <1>3
<1>5. S \in SUBSET Int /\ IsFiniteSet(S) /\ \A i \in S \union {r} : swaps[i].price \in Int
  <2>1. S \in SUBSET (DOMAIN swaps)
    BY DEF SwapsOf
  <2>2. S \in SUBSET Int /\ IsFiniteSet(S)
    BY <1>0, <2>1, SwapFacts
  <2>3. \A i \in S : swaps[i].price \in Int
    BY <1>0, <2>1, SwapFacts
  <2>4. QED
    BY <1>2, <2>2, <2>3
<1>6. CASE Wip.period = p
  <2>1. S # {} /\ Wip = CandleIn(swaps, S, p)
    <3>1. Members(b, f, p) = S
      BY <1>1 DEF Members
    <3>2. PICK c : c = workers[b].wip[f]
      OBVIOUS
    <3>3. c = Wip /\ c.period = p /\ c.trades > 0
      BY <1>3, <1>6, <3>2
    <3>4. Clean(b, f, c.period)
      BY <3>3
    <3>5. Members(b, f, c.period) # {} /\ c = CandleIn(swaps, Members(b, f, c.period), c.period)
      <4>1. Exact(b, f, c)
        BY <1>2, <3>2 DEF ExactWip
      <4>2. QED
        BY <3>3, <3>4, <4>1 DEF Exact
    <3>6. QED
      BY <3>1, <3>3, <3>5
  <2>2. d = Trade(Wip, s.price)
    BY <1>1, <1>6
  <2>3. ASSUME NEW i \in S PROVE i < r
    <3>1. i \in taken /\ i \in SwapsOf(b, f, p)
      BY <2>3
    <3>2. swaps[i].market = b
      BY <3>1 DEF SwapsOf
    <3>3. QED
      BY <1>2, <1>3, <3>1, <3>2, CleanAhead
  <2> HIDE DEF S, T
  <2>4. CandleIn(swaps, S \union {r}, p) = Trade(CandleIn(swaps, S, p), swaps[r].price)
    <3>1. PICK U, q : U = S /\ q = swaps
      OBVIOUS
    <3>2. /\ U \in SUBSET Int /\ IsFiniteSet(U) /\ U # {} /\ r \in Int
          /\ \A i \in U : i < r
          /\ \A i \in U \union {r} : q[i].price \in Int
      BY <1>2, <1>5, <2>1, <2>3, <3>1
    <3>3. CandleIn(q, U \union {r}, p) = Trade(CandleIn(q, U, p), q[r].price)
      BY <3>2, CandleGrows, Zenon
    <3>4. QED
      BY <3>1, <3>3
  <2>5. T # {} /\ d = CandleIn(swaps, T, p)
    BY <1>2, <1>4, <2>1, <2>2, <2>4
  <2>6. QED
    BY <2>5 DEF T, ExactWith
<1>7. CASE Wip.period # p
  <2>1. T = {r}
    BY <1>3, <1>4, <1>7
  <2>2. d = Trade(Fresh(s.price, p), s.price)
    BY <1>1, <1>7
  <2>3. CandleIn(swaps, {r}, p) = Trade(Fresh(swaps[r].price, p), swaps[r].price)
    BY <1>2, CandleStarts
  <2> HIDE DEF S, T
  <2>4. T # {} /\ d = CandleIn(swaps, T, p)
    BY <1>2, <2>1, <2>2, <2>3
  <2>5. QED
    BY <2>4 DEF T, ExactWith
<1>8. QED
  BY <1>6, <1>7

(* The other candles in memory are of the same swaps after a step.         *)
LEMMA WipKept ==
  ASSUME BaseInv, ExactWip, failures' = 0 => failures = 0, swaps' = swaps,
         restarts' = 0 => restarts = 0,
         NEW m \in MarketIds, NEW k \in Frames, NEW c,
         c = workers[m].wip[k],
         \A i \in DOMAIN swaps : swaps[i].market = m => (i \in Seen(k)' <=> i \in Seen(k))
  PROVE  failures' = 0 => Exact(m, k, c)'
<1>2. /\ SwapsOf(m, k, c.period)' = SwapsOf(m, k, c.period)
      /\ Clean(m, k, c.period)' <=> Clean(m, k, c.period)
  BY SwapsOfSame
<1>3. Members(m, k, c.period)' = Members(m, k, c.period)
  <2>1. \A i \in SwapsOf(m, k, c.period) : i \in Seen(k)' <=> i \in Seen(k)
    BY DEF SwapsOf
  <2>2. QED
    BY <1>2, <2>1 DEF Members
<1>4. failures = 0 => Exact(m, k, c)
  BY DEF ExactWip
<1>5. QED
  BY <1>2, <1>3, <1>4 DEF Exact

LEMMA InitWip == CandlesInit => ExactWip
<1>1. ASSUME CandlesInit, NEW m \in MarketIds, NEW k \in Frames
      PROVE  workers[m].wip[k].trades = 0
  <2>1. workers = NoWorkers
    BY <1>1 DEF CandlesInit
  <2>2. QED
    BY <2>1 DEF NoWorkers, NoWorker, NoCandle
<1>2. QED
  BY <1>1 DEF ExactWip, Exact

LEMMA NextWip ==
  BaseInv /\ ExactWip /\ [CandlesNext]_candleVars => ExactWip'
<1> SUFFICES ASSUME BaseInv, ExactWip, [CandlesNext]_candleVars, failures' = 0,
                    NEW m \in MarketIds, NEW k \in Frames
             PROVE  Exact(m, k, workers[m].wip[k])'
  BY DEF ExactWip
<1> PICK c : c = workers'[m].wip[k]
  OBVIOUS
<1> SUFFICES ASSUME restarts' = 0 \/ k = 1, c.trades > 0, Clean(m, k, c.period)'
             PROVE  /\ Members(m, k, c.period)' # {}
                    /\ c = CandleIn(swaps', Members(m, k, c.period)', c.period)
  BY DEF Exact
<1>0. TypeOK /\ Ordered /\ failures \in Nat /\ restarts \in Nat /\ taken \subseteq DOMAIN swaps
  BY DEF BaseInv, TypeOK
<1> DEFINE Goal == /\ Members(m, k, c.period)' # {}
                   /\ c = CandleIn(swaps', Members(m, k, c.period)', c.period)
<1>1. ASSUME swaps' = swaps, failures' = failures, restarts' = restarts,
             c = workers[m].wip[k],
             \A i \in DOMAIN swaps : swaps[i].market = m => (i \in Seen(k)' <=> i \in Seen(k))
      PROVE  Goal
  <2>1. Exact(m, k, c)'
    BY <1>1, WipKept
  <2>2. QED
    BY <2>1 DEF Exact
<1>2. NoCandle.trades = 0
  BY DEF NoCandle
<1>3. ASSUME NEW x \in MarketIds, NEW time \in 0 .. LastSecond, NEW id \in Ids, InsertSwap(x, time, id)
      PROVE  Goal
  <2>1. UNCHANGED <<workers, rows, tf, taken, restarts, failures>>
    BY <1>3 DEF InsertSwap, tick, faults
  <2>2. c = workers[m].wip[k] /\ Seen(k)' = Seen(k)
    BY <2>1 DEF Seen, Current
  <2>3. PICK n : /\ InsertsRow(n, x, time, id)
                 /\ \/ SwapsOf(m, k, c.period)' = SwapsOf(m, k, c.period)
                    \/ SwapsOf(m, k, c.period)' = SwapsOf(m, k, c.period) \union {n}
    BY <1>0, <1>3, SwapsOfInsert
  <2>4. Clean(m, k, c.period)
    BY <1>0, <1>3, SwapsOfInsert
  <2>5. n \in Nat /\ \A i \in DOMAIN swaps : i < n /\ swaps'[i] = swaps[i]
    BY <2>3 DEF InsertsRow
  <2>6. n \notin Seen(k)
    <3>1. Seen(k) \subseteq DOMAIN swaps
      BY <1>0, CurrentFacts DEF Seen
    <3>2. QED
      BY <2>5, <3>1
  <2>7. PICK S : S = Members(m, k, c.period)
    OBVIOUS
  <2>8. Members(m, k, c.period)' = S
    BY <2>2, <2>3, <2>6, <2>7 DEF Members
  <2>9. S # {} /\ c = CandleIn(swaps, S, c.period)
    <3>1. Exact(m, k, c) /\ (restarts = 0 \/ k = 1)
      BY <2>1, <2>2 DEF ExactWip
    <3>2. QED
      BY <2>4, <2>7, <3>1 DEF Exact
  <2>10. S \in SUBSET (DOMAIN swaps)
    BY <2>7 DEF Members, SwapsOf
  <2>11. S \in SUBSET Int /\ IsFiniteSet(S) /\ \A i \in S : swaps'[i].price = swaps[i].price
    BY <1>0, <2>5, <2>10, SwapFacts
  <2>12. CandleIn(swaps', S, c.period) = CandleIn(swaps, S, c.period)
    <3>1. PICK u, v, q : u = swaps' /\ v = swaps /\ q = c.period
      OBVIOUS
    <3>2. CandleIn(u, S, q) = CandleIn(v, S, q)
      <4>1. S # {} /\ S \in SUBSET Int /\ IsFiniteSet(S) /\ \A i \in S : u[i].price = v[i].price
        BY <2>9, <2>11, <3>1
      <4>2. QED
        BY <4>1, CandleSame, Zenon
    <3>3. QED
      BY <3>1, <3>2
  <2>13. QED
    BY <2>8, <2>9, <2>12
<1>4. ASSUME NEW x \in MarketIds, Visit(x)
      PROVE  Goal
  <2>1. /\ rows = {} /\ tf = 1
        /\ UNCHANGED <<swaps, tf, restarts, failures>>
        /\ \A y \in MarketIds : y # x => workers'[y] = workers[y]
        /\ \/ workers' = workers /\ taken' = taken
           \/ /\ workers[x] = NoWorker /\ workers'[x] = Seeded(x)
              /\ taken' = taken \union
                   {i \in DOMAIN swaps : swaps[i].market = x /\ swaps[i].time < workers'[x].time}
    BY <1>4, VisitFacts
  <2>2. Seen(k) = taken /\ Seen(k)' = taken'
    BY <2>1, FrameFacts DEF Seen
  <2>3. CASE workers' = workers /\ taken' = taken
    BY <1>1, <2>1, <2>2, <2>3
  <2>4. CASE /\ workers[x] = NoWorker /\ workers'[x] = Seeded(x)
             /\ taken' = taken \union
                  {i \in DOMAIN swaps : swaps[i].market = x /\ swaps[i].time < workers'[x].time}
    <3>1. m # x
      <4>1. m = x => workers'[m].wip[k] = NoCandle
        BY <2>4, SeededFacts
      <4>2. QED
        BY <1>2, <4>1
    <3>2. c = workers[m].wip[k]
      BY <2>1, <3>1
    <3>3. \A i \in DOMAIN swaps : swaps[i].market = m => (i \in taken' <=> i \in taken)
      BY <2>4, <3>1
    <3>4. QED
      BY <1>1, <2>1, <2>2, <3>2, <3>3
  <2>5. QED
    BY <2>1, <2>3, <2>4
<1>5. CASE WriteCandle
  <2>1. /\ rows # {} /\ RollsOver /\ UNCHANGED <<swaps, rows, tf, taken, restarts, failures>>
        /\ workers' = [workers EXCEPT ![Busy] = MoveCursor(@, NextSwap)]
    BY <1>5 DEF WriteCandle, Busy, faults
  <2>2. \A y : Seen(y)' = Seen(y)
    BY <2>1 DEF Seen, Current
  <2>3. workers'[m].wip = workers[m].wip
    BY <2>1, <2>2, CursorWip DEF RollsOver
  <2>4. QED
    BY <1>1, <2>1, <2>2, <2>3
<1>6. CASE WriteFails
  BY <1>0, <1>6 DEF WriteFails
<1>7. CASE TakeIn
  <2>1. PICK b, r, s, f, p, d : TakesIn(b, r, s, f, p, d) /\ TakenValues(b, r, s, f, p, d)
    BY <1>7, TakeFacts
  <2>2. /\ f = tf
        /\ \A x \in MarketIds : x # b => workers'[x] = workers[x]
        /\ workers'[b].wip[f] = d
        /\ \A y \in Frames : y # f => workers'[b].wip[y] = workers[b].wip[y]
        /\ \A y \in Frames : Seen(y)' = IF y = f THEN taken \union {r} ELSE Seen(y)
        /\ Seen(f) = taken
    BY <2>1, Zenon DEF TakesIn
  <2>3. UNCHANGED <<swaps, restarts, failures>>
    BY <2>1 DEF TakesIn
  <2>4. b \in MarketIds /\ f \in Frames /\ d.period = p /\ swaps[r].market = b
    BY <2>1 DEF TakenValues
  <2>5. CASE m = b /\ k = f
    <3>1. c = d /\ c.period = p
      BY <2>2, <2>4, <2>5
    <3>2. Clean(b, f, p) /\ SwapsOf(m, k, p)' = SwapsOf(b, f, p)
      BY <2>3, <2>5, <3>1, SwapsOfSame
    <3>3. Members(m, k, p)' = SwapsOf(b, f, p) \intersect (taken \union {r})
      BY <2>2, <2>5, <3>2 DEF Members
    <3>4. ExactWith(b, r, f, p, d)
      <4>1. failures = 0 /\ (restarts = 0 \/ f = 1)
        BY <2>3, <2>5
      <4>2. QED
        BY <2>1, <3>2, <4>1, TakeExact
    <3>5. QED
      BY <2>3, <3>1, <3>3, <3>4 DEF ExactWith
  <2>6. CASE m # b \/ k # f
    <3>1. c = workers[m].wip[k]
      BY <2>2, <2>6
    <3>2. \A i \in DOMAIN swaps : swaps[i].market = m => (i \in Seen(k)' <=> i \in Seen(k))
      BY <2>2, <2>4, <2>6
    <3>3. QED
      BY <1>1, <2>3, <3>1, <3>2
  <2>7. QED
    BY <2>5, <2>6
<1>8. CASE flushAllWIP
  <2>1. UNCHANGED <<swaps, workers, rows, tf, taken, restarts, failures>>
    BY <1>8 DEF flushAllWIP, tick, faults
  <2>2. Seen(k)' = Seen(k)
    BY <2>1 DEF Seen, Current
  <2>3. QED
    BY <1>1, <2>1, <2>2
<1>9. CASE Reboot
  <2>1. workers'[m].wip[k] = NoCandle
    BY <1>9 DEF Reboot, NoWorkers, NoWorker
  <2>2. QED
    BY <1>2, <2>1
<1>10. CASE UNCHANGED <<swaps, candles, workers, rows, tf, written, taken, restarts, failures>>
  <2>1. Seen(k)' = Seen(k)
    BY <1>10 DEF Seen, Current
  <2>2. QED
    BY <1>1, <1>10, <2>1
<1>11. QED
  BY <1>3, <1>4, <1>5, <1>6, <1>7, <1>8, <1>9, <1>10, StepCases
-----------------------------------------------------------------------------
(* A row of the finest timeframe next to the candle e of all swaps of its  *)
(* period: right as far as it goes, or in everything but the count.        *)
SoundRow(row, e) == row.open = e.open /\ row.high <= e.high /\ row.low >= e.low

WholeRow(row, e) ==
  /\ row.open = e.open /\ row.high = e.high /\ row.low = e.low /\ row.close = e.close
  /\ row.period = e.period /\ row.trades >= e.trades

LEMMA CandleTyped ==
  ASSUME NEW s, NEW S \in SUBSET Int, IsFiniteSet(S), S # {},
         \A i \in S : s[i].price \in Int, NEW period \in Int
  PROVE  CandleIn(s, S, period) \in CandleRecords /\ CandleIn(s, S, period).period = period
<1> DEFINE c == CandleIn(s, S, period)
<1>1. c = [open |-> s[Min(S)].price, high |-> Max(PricesIn(s, S)), low |-> Min(PricesIn(s, S)),
           close |-> s[Max(S)].price, trades |-> Cardinality(S), period |-> period]
  BY DEF CandleIn
<1>2. /\ Min(S) \in S /\ Max(S) \in S
      /\ c.high \in PricesIn(s, S) /\ c.low \in PricesIn(s, S)
      /\ PricesIn(s, S) \in SUBSET Int /\ c.trades \in Nat
  BY CandleFacts
<1>3. /\ s[Min(S)].price \in Int /\ s[Max(S)].price \in Int
      /\ Max(PricesIn(s, S)) \in Int /\ Min(PricesIn(s, S)) \in Int /\ Cardinality(S) \in Nat
  <2>1. s[Min(S)].price \in Int /\ s[Max(S)].price \in Int
    BY <1>2, Zenon
  <2>2. /\ c.high = Max(PricesIn(s, S)) /\ c.low = Min(PricesIn(s, S)) /\ c.trades = Cardinality(S)
    BY DEF CandleIn
  <2> HIDE DEF c
  <2>3. QED
    BY <1>2, <2>1, <2>2
<1> HIDE DEF c
<1>4. c \in CandleRecords /\ c.period = period
  BY <1>1, <1>3 DEF CandleRecords
<1>5. QED
  BY <1>4 DEF c

(* What the proofs below use of it.                                        *)
LEMMA CandleBounds ==
  ASSUME NEW s, NEW S \in SUBSET Int, IsFiniteSet(S), S # {},
         \A i \in S : s[i].price \in Int, NEW period
  PROVE  /\ Min(S) \in S /\ \A i \in S : Min(S) <= i
         /\ CandleIn(s, S, period).open = s[Min(S)].price
         /\ CandleIn(s, S, period).high \in PricesIn(s, S)
         /\ \A x \in PricesIn(s, S) : x <= CandleIn(s, S, period).high
         /\ CandleIn(s, S, period).low \in PricesIn(s, S)
         /\ \A x \in PricesIn(s, S) : CandleIn(s, S, period).low <= x
         /\ PricesIn(s, S) \in SUBSET Int
<1>1. Min(S) \in S /\ \A i \in S : Min(S) <= i
  BY CandleFacts
<1>2. CandleIn(s, S, period).open = s[Min(S)].price
  BY DEF CandleIn
<1>3. CandleIn(s, S, period).high \in PricesIn(s, S) /\ CandleIn(s, S, period).low \in PricesIn(s, S)
  BY CandleFacts
<1>4. \A x \in PricesIn(s, S) : x <= CandleIn(s, S, period).high
  BY CandleFacts
<1>5. \A x \in PricesIn(s, S) : CandleIn(s, S, period).low <= x
  BY CandleFacts
<1>6. PricesIn(s, S) \in SUBSET Int
  BY CandleFacts
<1>7. QED
  BY <1>1, <1>2, <1>3, <1>4, <1>5, <1>6

(* Some swaps of a period, its first one among them.                       *)
LEMMA PartSound ==
  ASSUME NEW s, NEW S \in SUBSET Int, IsFiniteSet(S),
         \A i \in S : s[i].price \in Int,
         NEW T \in SUBSET S, T # {}, \A i \in S, j \in T : i < j => i \in T, NEW period
  PROVE  SoundRow(CandleIn(s, T, period), CandleIn(s, S, period))
<1>0. PICK c, e : c = CandleIn(s, T, period) /\ e = CandleIn(s, S, period)
  OBVIOUS
<1>1. T \in SUBSET Int /\ IsFiniteSet(T) /\ S # {} /\ \A i \in T : s[i].price \in Int
  BY FS_Subset
<1>2. /\ Min(T) \in T /\ \A i \in T : Min(T) <= i
      /\ c.open = s[Min(T)].price
      /\ c.high \in PricesIn(s, T) /\ c.low \in PricesIn(s, T)
      /\ PricesIn(s, T) \in SUBSET Int
  BY <1>0, <1>1, CandleBounds
<1>3. /\ Min(S) \in S /\ \A i \in S : Min(S) <= i
      /\ e.open = s[Min(S)].price
      /\ e.high \in PricesIn(s, S) /\ \A x \in PricesIn(s, S) : x <= e.high
      /\ e.low \in PricesIn(s, S) /\ \A x \in PricesIn(s, S) : e.low <= x
      /\ PricesIn(s, S) \in SUBSET Int
  BY <1>0, <1>1, CandleBounds
<1>4. Min(S) = Min(T)
  <2>1. Min(S) \in Int /\ Min(T) \in Int /\ Min(T) \in S /\ Min(S) <= Min(T)
    BY <1>1, <1>2, <1>3
  <2>2. Min(S) < Min(T) => Min(S) \in T
    BY <1>2, <1>3
  <2>3. Min(S) \in T => Min(T) <= Min(S)
    BY <1>2
  <2>4. QED
    BY <2>1, <2>2, <2>3
<1>5. PricesIn(s, T) \subseteq PricesIn(s, S)
  BY DEF PricesIn
<1>6. c.open = e.open
  BY <1>2, <1>3, <1>4
<1>7. c.high <= e.high
  BY <1>2, <1>3, <1>5
<1>8. c.low >= e.low
  <2>1. c.low \in Int /\ e.low \in Int /\ e.low <= c.low
    BY <1>2, <1>3, <1>5
  <2>2. QED
    BY <2>1
<1>9. SoundRow(c, e)
  BY <1>6, <1>7, <1>8 DEF SoundRow
<1>10. QED
  BY <1>0, <1>9

LEMMA MergeSound ==
  ASSUME NEW row \in CandleRecords, NEW c \in CandleRecords, NEW e \in CandleRecords,
         SoundRow(row, e), SoundRow(c, e)
  PROVE  SoundRow(Merge(row, c), e)
<1>1. /\ row.high \in Int /\ row.low \in Int /\ c.high \in Int /\ c.low \in Int
      /\ e.high \in Int /\ e.low \in Int
  BY DEF CandleRecords
<1>2. /\ Merge(row, c).open = row.open
      /\ Merge(row, c).high = Higher(row.high, c.high)
      /\ Merge(row, c).low = Lower(row.low, c.low)
  BY MergeFields
<1>3. Higher(row.high, c.high) <= e.high /\ Lower(row.low, c.low) >= e.low
  BY <1>1 DEF Higher, Lower, SoundRow
<1>4. QED
  BY <1>2, <1>3 DEF SoundRow

LEMMA MergeWhole ==
  ASSUME NEW row \in CandleRecords, NEW e \in CandleRecords, row.period = e.period,
         SoundRow(row, e)
  PROVE  WholeRow(Merge(row, e), e)
<1>1. /\ row.high \in Int /\ row.low \in Int /\ row.trades \in Nat
      /\ e.high \in Int /\ e.low \in Int /\ e.trades \in Nat
  BY DEF CandleRecords
<1>2. /\ Merge(row, e).open = row.open /\ Merge(row, e).period = row.period
      /\ Merge(row, e).close = e.close
      /\ Merge(row, e).high = Higher(row.high, e.high)
      /\ Merge(row, e).low = Lower(row.low, e.low)
      /\ Merge(row, e).trades = row.trades + e.trades
  BY MergeFields
<1>3. Higher(row.high, e.high) = e.high /\ Lower(row.low, e.low) = e.low
  BY <1>1 DEF Higher, Lower, SoundRow
<1>4. row.trades + e.trades >= e.trades
  BY <1>1
<1>5. row.open = e.open
  BY DEF SoundRow
<1>6. QED
  BY <1>2, <1>3, <1>4, <1>5 DEF WholeRow

LEMMA GrowSound ==
  ASSUME NEW s, NEW S \in SUBSET Int, IsFiniteSet(S), S # {},
         NEW r \in Int, \A i \in S : i < r,
         \A i \in S \union {r} : s[i].price \in Int, NEW period \in Int,
         NEW row \in CandleRecords, SoundRow(row, CandleIn(s, S, period))
  PROVE  SoundRow(row, CandleIn(s, S \union {r}, period))
<1> DEFINE e == CandleIn(s, S, period)
           d == CandleIn(s, S \union {r}, period)
           p == s[r].price
<1>1. d = Trade(e, p)
  BY CandleGrows
<1>2. e \in CandleRecords
  BY CandleTyped
<1>3. p \in Int
  OBVIOUS
<1>4. SoundRow(row, e)
  OBVIOUS
<1> HIDE DEF e, d, p
<1>5. d.open = e.open /\ d.high = Higher(e.high, p) /\ d.low = Lower(e.low, p)
  BY <1>1 DEF Trade
<1>6. /\ row.high \in Int /\ row.low \in Int /\ e.high \in Int /\ e.low \in Int
  BY <1>2 DEF CandleRecords
<1>7. row.high <= e.high /\ row.low >= e.low /\ row.open = e.open
  BY <1>4 DEF SoundRow
<1>8. row.high <= Higher(e.high, p) /\ row.low >= Lower(e.low, p)
  BY <1>3, <1>6, <1>7 DEF Higher, Lower
<1>9. SoundRow(row, d)
  BY <1>5, <1>7, <1>8 DEF SoundRow
<1>10. QED
  BY <1>9 DEF d
-----------------------------------------------------------------------------
(* The candle of all swaps of a period of the finest timeframe.            *)
WholeCandle(m, period) == CandleIn(swaps, SwapsOf(m, 1, period), period)

(* A row of the finest timeframe starts with the first swap of its period, *)
(* and has no price that none of its swaps had.                            *)
RowsSound ==
  failures = 0 =>
    \A m \in MarketIds, period \in Nat :
      Clean(m, 1, period) /\ <<m, 1, period>> \in DOMAIN candles =>
        /\ SwapsOf(m, 1, period) # {}
        /\ SoundRow(candles[<<m, 1, period>>], WholeCandle(m, period))

(* A candle in memory with swaps of the period from q on.                  *)
InMemory(m, k, c, q) == c = workers[m].wip[k] /\ c.trades > 0 /\ q = c.period

LEMMA WholeTyped ==
  ASSUME TypeOK, NEW m, NEW period \in Nat, SwapsOf(m, 1, period) # {}
  PROVE  WholeCandle(m, period) \in CandleRecords /\ WholeCandle(m, period).period = period
<1>1. PICK s, S : s = swaps /\ S = SwapsOf(m, 1, period)
  OBVIOUS
<1>2. S \in SUBSET Int /\ IsFiniteSet(S) /\ S # {} /\ \A i \in S : s[i].price \in Int
  <2>1. S \in SUBSET SwapsOf(m, 1, period)
    BY <1>1
  <2>2. S \in SUBSET Int /\ IsFiniteSet(S) /\ \A i \in S : swaps[i].price \in Int
    BY <2>1, SwapsOfFacts
  <2>3. QED
    BY <1>1, <2>2
<1>3. CandleIn(s, S, period) \in CandleRecords /\ CandleIn(s, S, period).period = period
  <2>1. period \in Int
    OBVIOUS
  <2>2. QED
    BY <1>2, <2>1, CandleTyped, Zenon
<1>4. QED
  BY <1>1, <1>3 DEF WholeCandle

(* A candle in memory is sound, and whole once all swaps are in it.        *)
LEMMA MemorySound ==
  ASSUME BaseInv, MissedInv, ExactWip, failures = 0, NEW m \in MarketIds, NEW c, NEW q,
         InMemory(m, 1, c, q), Clean(m, 1, q)
  PROVE  /\ SwapsOf(m, 1, q) # {} /\ c \in CandleRecords /\ q \in Nat
         /\ SoundRow(c, WholeCandle(m, q))
         /\ SwapsOf(m, 1, q) \subseteq Seen(1) => c = WholeCandle(m, q)
<1>0. TypeOK
  BY DEF BaseInv
<1>1. PICK s, S, T : s = swaps /\ S = SwapsOf(m, 1, q) /\ T = Members(m, 1, q)
  OBVIOUS
<1>2. c = workers[m].wip[1] /\ c.trades > 0 /\ q = c.period
  BY DEF InMemory
<1>3. 1 \in Frames
  BY FrameFacts
<1>4. c \in CandleRecords /\ q \in Nat
  BY <1>2, <1>3, WipFacts
<1>5. T # {} /\ c = CandleIn(s, T, q)
  <2>1. Exact(m, 1, c)
    BY <1>2, <1>3 DEF ExactWip
  <2>2. QED
    BY <1>1, <1>2, <2>1 DEF Exact
<1>6. T \in SUBSET S
  BY <1>1 DEF Members
<1>7. ASSUME NEW i \in S, NEW j \in T, i < j
      PROVE  i \in T
  <2>1. i \in Seen(1)
    BY <1>1, <1>3, <1>7, FirstSeen
  <2>2. QED
    BY <1>1, <1>7, <2>1 DEF Members
<1>8. S \in SUBSET Int /\ IsFiniteSet(S) /\ \A i \in S : s[i].price \in Int
  <2>1. S \in SUBSET SwapsOf(m, 1, q)
    BY <1>1
  <2>2. S \in SUBSET Int /\ IsFiniteSet(S) /\ \A i \in S : swaps[i].price \in Int
    BY <1>0, <2>1, SwapsOfFacts
  <2>3. QED
    BY <1>1, <2>2
<1>9. SoundRow(CandleIn(s, T, q), CandleIn(s, S, q))
  BY <1>5, <1>6, <1>7, <1>8, PartSound, Zenon
<1>10. WholeCandle(m, q) = CandleIn(s, S, q)
  BY <1>1, Zenon DEF WholeCandle
<1>11. S \subseteq Seen(1) => T = S
  BY <1>1 DEF Members
<1>12. S # {}
  BY <1>5, <1>6
<1>13. SoundRow(c, WholeCandle(m, q))
  BY <1>5, <1>9, <1>10, Zenon
<1>14. S \subseteq Seen(1) => c = WholeCandle(m, q)
  BY <1>5, <1>10, <1>11, Zenon
<1>15. QED
  BY <1>1, <1>4, <1>12, <1>13, <1>14, Zenon

(* What a write of a candle does to the rows of the finest timeframe.      *)
LEMMA FlushedRow ==
  ASSUME BaseInv, NEW x \in MarketIds, NEW k \in Frames, NEW c, NEW q, InMemory(x, k, c, q),
         candles' = flushCandle(x, k, c), NEW m \in MarketIds, NEW period \in Nat
  PROVE  /\ ~ (m = x /\ k = 1 /\ period = q) =>
              /\ <<m, 1, period>> \in DOMAIN candles' <=> <<m, 1, period>> \in DOMAIN candles
              /\ <<m, 1, period>> \in DOMAIN candles =>
                   candles'[<<m, 1, period>>] = candles[<<m, 1, period>>]
         /\ m = x /\ k = 1 /\ period = q =>
              /\ <<m, 1, period>> \in DOMAIN candles'
              /\ candles'[<<m, 1, period>>] =
                   IF <<m, 1, period>> \in DOMAIN candles
                   THEN Merge(candles[<<m, 1, period>>], c) ELSE c
         /\ c \in CandleRecords /\ q \in Nat /\ q <= workers[x].time /\ Started(x)
<1>0. TypeOK
  BY DEF BaseInv
<1>1. c = workers[x].wip[k] /\ c.trades > 0 /\ q = c.period
  BY DEF InMemory
<1>2. /\ c \in CandleRecords /\ q \in Nat /\ q <= workers[x].time /\ Started(x)
  BY <1>1, WipFacts
<1>3. CandleTable' /\ Flushed(candles', <<x, k, c.period>>, c)
  BY <1>0, <1>1, <1>2, FlushFacts
<1>4. PICK new, key : new = <<x, k, q>> /\ key = <<m, 1, period>>
  OBVIOUS
<1>5. new = key <=> (m = x /\ k = 1 /\ period = q)
  BY <1>4
<1>6. Flushed(candles', new, c)
  BY <1>1, <1>3, <1>4
<1>7. /\ key \in DOMAIN candles' <=> key \in DOMAIN candles \/ key = new
      /\ key # new => (key \in DOMAIN candles => candles'[key] = candles[key])
      /\ key = new => candles'[key] = IF key \in DOMAIN candles THEN Merge(candles[key], c) ELSE c
  BY <1>6 DEF Flushed
<1>8. QED
  BY <1>2, <1>4, <1>5, <1>7

LEMMA RowTyped ==
  ASSUME TypeOK, NEW key \in DOMAIN candles
  PROVE  candles[key] \in CandleRecords /\ candles[key].period = key[3]
BY DEF TypeOK, CandleTable

LEMMA SoundFlush ==
  ASSUME BaseInv, MissedInv, ExactWip, RowsSound, failures = 0, swaps' = swaps,
         NEW x \in MarketIds, NEW k \in Frames, NEW c, NEW q, InMemory(x, k, c, q),
         candles' = flushCandle(x, k, c),
         NEW m \in MarketIds, NEW period \in Nat, Clean(m, 1, period),
         <<m, 1, period>> \in DOMAIN candles'
  PROVE  /\ SwapsOf(m, 1, period) # {}
         /\ SoundRow(candles'[<<m, 1, period>>], WholeCandle(m, period))
<1>0. TypeOK
  BY DEF BaseInv
<1>1. PICK key, row, e : /\ key = <<m, 1, period>> /\ e = WholeCandle(m, period)
                         /\ row = candles[key]
  OBVIOUS
<1>2. key \in DOMAIN candles => /\ SwapsOf(m, 1, period) # {} /\ SoundRow(row, e)
                                /\ row \in CandleRecords
  BY <1>0, <1>1, RowTyped DEF RowsSound
<1>3. CASE ~ (m = x /\ k = 1 /\ period = q)
  <2>1. key \in DOMAIN candles /\ candles'[key] = row
    BY <1>1, <1>3, FlushedRow
  <2>2. QED
    BY <1>1, <1>2, <2>1
<1>4. CASE m = x /\ k = 1 /\ period = q
  <2>1. /\ candles'[key] = IF key \in DOMAIN candles THEN Merge(row, c) ELSE c
        /\ c \in CandleRecords
    BY <1>1, <1>4, FlushedRow
  <2>2. SwapsOf(m, 1, period) # {} /\ SoundRow(c, e)
    <3>1. InMemory(m, 1, c, q) /\ Clean(m, 1, q)
      BY <1>4
    <3>2. SwapsOf(m, 1, q) # {} /\ SoundRow(c, WholeCandle(m, q))
      BY <3>1, MemorySound
    <3>3. QED
      BY <1>1, <1>4, <3>2
  <2>3. e \in CandleRecords
    BY <1>0, <1>1, <2>2, WholeTyped
  <2>4. CASE key \in DOMAIN candles
    <3>1. SoundRow(Merge(row, c), e)
      BY <1>2, <2>1, <2>2, <2>3, <2>4, MergeSound
    <3>2. QED
      BY <1>1, <2>1, <2>2, <2>4, <3>1
  <2>5. CASE key \notin DOMAIN candles
    BY <1>1, <2>1, <2>2, <2>5
  <2>6. QED
    BY <2>4, <2>5
<1>5. QED
  BY <1>3, <1>4

(* A new swap changes the candle of its period only.                       *)
LEMMA WholeInsert ==
  ASSUME TypeOK, Ordered, NEW x \in MarketIds, NEW time \in 0 .. LastSecond, NEW id \in Ids,
         InsertSwap(x, time, id), NEW m \in MarketIds, NEW period \in Nat,
         SwapsOf(m, 1, period) # {}
  PROVE  /\ SwapsOf(m, 1, period)' # {}
         /\ \A row \in CandleRecords :
              SoundRow(row, WholeCandle(m, period)) => SoundRow(row, WholeCandle(m, period)')
         /\ SwapsOf(m, 1, period)' = SwapsOf(m, 1, period) =>
              WholeCandle(m, period)' = WholeCandle(m, period)
<1>1. PICK n : /\ InsertsRow(n, x, time, id)
               /\ \/ SwapsOf(m, 1, period)' = SwapsOf(m, 1, period)
                  \/ SwapsOf(m, 1, period)' = SwapsOf(m, 1, period) \union {n}
  BY SwapsOfInsert
<1>2. PICK s, t, S, T : /\ s = swaps /\ t = swaps'
                        /\ S = SwapsOf(m, 1, period) /\ T = SwapsOf(m, 1, period)'
  OBVIOUS
<1>3. /\ t \in Seq(SwapRecords) /\ n \in DOMAIN t /\ n \in Nat
      /\ DOMAIN t = DOMAIN s \union {n}
      /\ \A i \in DOMAIN s : i < n /\ t[i] = s[i]
  BY <1>1, <1>2 DEF InsertsRow
<1>4. S \in SUBSET (DOMAIN s) /\ S # {}
  BY <1>2 DEF SwapsOf
<1>5. S \in SUBSET Int /\ IsFiniteSet(S)
  BY <1>2, <1>4, SwapFacts
<1>6. \A i \in S : s[i].price = t[i].price
  BY <1>3, <1>4
<1>7. CandleIn(s, S, period) = CandleIn(t, S, period)
  BY <1>4, <1>5, <1>6, CandleSame, Zenon
<1>8. WholeCandle(m, period) = CandleIn(s, S, period) /\ WholeCandle(m, period)' = CandleIn(t, T, period)
  BY <1>2, Zenon DEF WholeCandle
<1>9. \A i \in S \union {n} : t[i].price \in Int
  <2>1. \A i \in DOMAIN t : t[i] \in SwapRecords
    <3>1. t \in Seq(SwapRecords)
      BY <1>3
    <3>2. QED
      BY <3>1
  <2>2. \A i \in DOMAIN t : t[i].price \in Int
    BY <2>1 DEF SwapRecords
  <2>3. QED
    BY <1>3, <1>4, <2>2
<1>10. ASSUME T = S \union {n}, NEW row \in CandleRecords, SoundRow(row, CandleIn(s, S, period))
       PROVE  SoundRow(row, CandleIn(t, T, period))
  <2>1. \A i \in S : i < n
    BY <1>3, <1>4
  <2>2. SoundRow(row, CandleIn(t, S, period))
    BY <1>7, <1>10, Zenon
  <2>3. n \in Int /\ period \in Int
    BY <1>3
  <2>4. SoundRow(row, CandleIn(t, S \union {n}, period))
    BY <1>4, <1>5, <1>9, <1>10, <2>1, <2>2, <2>3, GrowSound, Zenon
  <2>5. QED
    BY <1>10, <2>4, Zenon
<1>11. ASSUME T = S PROVE CandleIn(s, S, period) = CandleIn(t, T, period)
  BY <1>7, <1>11, Zenon
<1>12. T = S \/ T = S \union {n}
  BY <1>1, <1>2
<1>13. T # {}
  BY <1>4, <1>12
<1>14. ASSUME NEW row \in CandleRecords, SoundRow(row, WholeCandle(m, period))
       PROVE  SoundRow(row, WholeCandle(m, period)')
  BY <1>8, <1>10, <1>11, <1>12, <1>14, Zenon
<1>15. QED
  BY <1>2, <1>8, <1>11, <1>13, <1>14, Zenon

LEMMA WholeSame ==
  ASSUME swaps' = swaps, NEW m, NEW period
  PROVE  WholeCandle(m, period)' = WholeCandle(m, period)
<1>1. SwapsOf(m, 1, period)' = SwapsOf(m, 1, period)
  BY SwapsOfSame
<1>2. QED
  BY <1>1, Zenon DEF WholeCandle

LEMMA NextSound ==
  BaseInv /\ MissedInv /\ ExactWip /\ RowsSound /\ [CandlesNext]_candleVars => RowsSound'
<1> SUFFICES ASSUME BaseInv, MissedInv, ExactWip, RowsSound, [CandlesNext]_candleVars,
                    failures' = 0, NEW m \in MarketIds, NEW period \in Nat,
                    Clean(m, 1, period)', <<m, 1, period>> \in DOMAIN candles'
             PROVE  /\ SwapsOf(m, 1, period)' # {}
                    /\ SoundRow(candles'[<<m, 1, period>>], WholeCandle(m, period)')
  BY DEF RowsSound
<1>0. TypeOK /\ Ordered /\ failures \in Nat
  BY DEF BaseInv, TypeOK
<1> DEFINE Goal == /\ SwapsOf(m, 1, period)' # {}
                   /\ SoundRow(candles'[<<m, 1, period>>], WholeCandle(m, period)')
<1>1. ASSUME swaps' = swaps, candles' = candles, failures' = failures
      PROVE  Goal
  <2>1. Clean(m, 1, period) /\ <<m, 1, period>> \in DOMAIN candles /\ failures = 0
    BY <1>1, SwapsOfSame
  <2>2. /\ SwapsOf(m, 1, period) # {}
        /\ SoundRow(candles[<<m, 1, period>>], WholeCandle(m, period))
    BY <2>1 DEF RowsSound
  <2>3. SwapsOf(m, 1, period)' = SwapsOf(m, 1, period) /\ WholeCandle(m, period)' = WholeCandle(m, period)
    BY <1>1, SwapsOfSame, WholeSame
  <2>4. QED
    BY <1>1, <2>2, <2>3, Zenon
<1>2. ASSUME NEW x \in MarketIds, NEW k \in Frames, workers[x].wip[k].trades > 0,
             candles' = flushCandle(x, k, workers[x].wip[k]), swaps' = swaps, failures' = failures
      PROVE  Goal
  <2>1. PICK c, q : InMemory(x, k, c, q) /\ candles' = flushCandle(x, k, c)
    BY <1>2 DEF InMemory
  <2>2. Clean(m, 1, period) /\ failures = 0
    BY <1>2, SwapsOfSame
  <2>3. /\ SwapsOf(m, 1, period) # {}
        /\ SoundRow(candles'[<<m, 1, period>>], WholeCandle(m, period))
    BY <1>2, <2>1, <2>2, SoundFlush
  <2>4. SwapsOf(m, 1, period)' = SwapsOf(m, 1, period) /\ WholeCandle(m, period)' = WholeCandle(m, period)
    BY <1>2, SwapsOfSame, WholeSame
  <2>5. QED
    BY <2>3, <2>4, Zenon
<1>3. ASSUME NEW x \in MarketIds, NEW time \in 0 .. LastSecond, NEW id \in Ids, InsertSwap(x, time, id)
      PROVE  Goal
  <2>1. UNCHANGED <<candles, failures>>
    BY <1>3 DEF InsertSwap, faults
  <2>2. Clean(m, 1, period)
    BY <1>0, <1>3, SwapsOfInsert
  <2>3. PICK row : row = candles[<<m, 1, period>>]
    OBVIOUS
  <2>4. SwapsOf(m, 1, period) # {} /\ SoundRow(row, WholeCandle(m, period))
    BY <2>1, <2>2, <2>3 DEF RowsSound
  <2>5. row \in CandleRecords
    BY <1>0, <2>1, <2>3, RowTyped
  <2>6. SwapsOf(m, 1, period)' # {} /\ SoundRow(row, WholeCandle(m, period)')
    BY <1>0, <1>3, <2>4, <2>5, WholeInsert
  <2>7. QED
    BY <2>1, <2>3, <2>6
<1>4. ASSUME NEW x \in MarketIds, Visit(x)
      PROVE  Goal
  BY <1>1, <1>4, VisitFacts
<1>5. CASE WriteCandle
  <2>1. /\ rows # {} /\ RollsOver /\ UNCHANGED <<swaps, failures>>
        /\ candles' = flushCandle(Busy, tf, Wip)
    BY <1>5 DEF WriteCandle, Busy, faults
  <2>2. Busy \in MarketIds /\ tf \in Frames
    BY <1>0, <2>1, CurrentFacts DEF TypeOK
  <2>3. Wip = workers[Busy].wip[tf] /\ Wip.trades > 0
    BY <2>1 DEF RollsOver, Wip, Busy
  <2>4. QED
    BY <1>2, <2>1, <2>2, <2>3
<1>6. CASE WriteFails
  BY <1>0, <1>6 DEF WriteFails
<1>7. CASE TakeIn
  BY <1>1, <1>7 DEF TakeIn, faults
<1>8. CASE flushAllWIP
  <2>1. PICK entry \in closing :
          /\ candles' = IF workers[entry[1]].wip[entry[2]].trades > 0
                        THEN flushCandle(entry[1], entry[2], workers[entry[1]].wip[entry[2]])
                        ELSE candles
          /\ UNCHANGED <<swaps, failures>>
    BY <1>8 DEF flushAllWIP, faults
  <2>2. entry[1] \in MarketIds /\ entry[2] \in Frames
    BY <1>0 DEF TypeOK
  <2>3. QED
    BY <1>1, <1>2, <2>1, <2>2
<1>9. CASE Reboot
  BY <1>1, <1>9 DEF Reboot
<1>10. CASE UNCHANGED <<swaps, candles, workers, rows, tf, written, taken, restarts, failures>>
  BY <1>1, <1>10
<1>11. QED
  BY <1>3, <1>4, <1>5, <1>6, <1>7, <1>8, <1>9, <1>10, StepCases
-----------------------------------------------------------------------------
(* A period is over once the cursor is past it, or a candle of a later     *)
(* period is in the table.                                                 *)
LaterKey(m, period) ==
  \E key \in DOMAIN candles : key[1] = m /\ period + Timeframes[1] <= key[3]

CursorPast(m, period) == Started(m) /\ period + Timeframes[1] <= workers[m].time

PeriodOver(m, period) == CursorPast(m, period) \/ LaterKey(m, period)

HasWhole(m, period) ==
  /\ <<m, 1, period>> \in DOMAIN candles
  /\ WholeRow(candles[<<m, 1, period>>], WholeCandle(m, period))

(* The row of a period that is over has all its swaps.                     *)
CompleteInv ==
  failures = 0 =>
    \A m \in MarketIds, period \in Nat :
      Clean(m, 1, period) /\ SwapsOf(m, 1, period) # {} /\ PeriodOver(m, period)
      => HasWhole(m, period)

(* A swap of a period of the finest timeframe.                             *)
LEMMA SwapInPeriod ==
  ASSUME TypeOK, NEW m, NEW period, NEW i \in SwapsOf(m, 1, period)
  PROVE  /\ i \in DOMAIN swaps /\ i \in Nat /\ swaps[i].market = m /\ swaps[i].time \in Nat
         /\ period \in Nat /\ period \in Starts(1)
         /\ period <= swaps[i].time /\ swaps[i].time < period + Timeframes[1]
         /\ period + Timeframes[1] \in Nat
<1>1. /\ i \in DOMAIN swaps /\ i \in Nat /\ swaps[i].market = m /\ swaps[i].time \in Nat
      /\ periodStart(swaps[i].time, 1) = period
  BY SwapFacts DEF SwapsOf
<1>2. 1 \in Frames /\ Timeframes[1] \in Nat
  BY FrameFacts
<1>3. /\ period \in Nat /\ period \in Starts(1)
      /\ period <= swaps[i].time /\ swaps[i].time < period + Timeframes[1]
  BY <1>1, <1>2, PeriodFacts
<1>4. QED
  BY <1>1, <1>2, <1>3

(* No swap comes in a period that is over.                                 *)
LEMMA OverReached ==
  ASSUME BaseInv, NEW m \in MarketIds, NEW period \in Nat, PeriodOver(m, period)
  PROVE  \E j \in DOMAIN swaps : swaps[j].time >= period + Timeframes[1]
<1>0. TypeOK /\ PlacedInv /\ KeysInv
  BY DEF BaseInv
<1>1. Timeframes[1] \in Nat \ {0}
  BY FrameFacts
<1>2. ASSUME NEW t \in Nat, Reached(t), period + Timeframes[1] <= t
      PROVE  \E j \in DOMAIN swaps : swaps[j].time >= period + Timeframes[1]
  <2>1. t # 0
    BY <1>1, <1>2
  <2>2. PICK j \in DOMAIN swaps : swaps[j].time >= t
    BY <1>2, <2>1 DEF Reached
  <2>3. swaps[j].time \in Nat
    BY <1>0, SwapFacts
  <2>4. swaps[j].time >= period + Timeframes[1]
    BY <1>1, <1>2, <2>2, <2>3
  <2>5. QED
    BY <2>4
<1>3. CASE CursorPast(m, period)
  <2>1. workers[m] # NoWorker
    BY <1>3 DEF CursorPast, Started, NoWorker
  <2>2. workers[m].time \in Nat /\ Reached(workers[m].time)
    BY <1>0, <2>1 DEF PlacedInv
  <2>3. QED
    BY <1>2, <1>3, <2>2 DEF CursorPast
<1>4. CASE LaterKey(m, period)
  <2>1. PICK key \in DOMAIN candles : period + Timeframes[1] <= key[3]
    BY <1>4 DEF LaterKey
  <2>2. key[3] \in Starts(1) /\ Reached(key[3])
    BY <1>0 DEF KeysInv
  <2>3. key[3] \in Nat
    BY <2>2, FrameFacts, StartsFinest
  <2>4. QED
    BY <1>2, <2>1, <2>2, <2>3
<1>5. QED
  BY <1>3, <1>4 DEF PeriodOver

(* Before the next swap, and without failures, all are taken in.           *)
LEMMA TakenBefore ==
  ASSUME BaseInv, MissedInv, failures = 0, rows # {}, NEW m, m = Busy, NEW period,
         Clean(m, 1, period), period + Timeframes[1] <= NextSwap.time
  PROVE  SwapsOf(m, 1, period) \subseteq taken
<1>0. TypeOK /\ Ordered /\ RowsInv
  BY DEF BaseInv
<1>1. PICK r, s : r = Current /\ s = NextSwap
  OBVIOUS
<1>2. /\ r \in rows /\ r \in DOMAIN swaps /\ r \in Nat /\ \A x \in rows : r <= x
      /\ swaps[r] = s /\ s.market = m /\ s.time \in Nat
  BY <1>0, <1>1, CurrentFacts DEF NextSwap, Busy
<1>3. ASSUME NEW i \in SwapsOf(m, 1, period)
      PROVE  i \in taken
  <2>1. /\ i \in DOMAIN swaps /\ i \in Nat /\ swaps[i].market = m /\ swaps[i].time \in Nat
        /\ swaps[i].time < period + Timeframes[1] /\ period + Timeframes[1] \in Nat
    BY <1>0, <1>3, SwapInPeriod
  <2>2. swaps[i].time < s.time
    BY <1>1, <1>2, <2>1
  <2>3. ~ (r <= i)
    <3>1. r <= i => swaps[r].time <= swaps[i].time
      BY <1>0, <1>2, <2>1, InTime
    <3>2. QED
      BY <1>2, <2>1, <2>2, <3>1
  <2>4. i < r /\ i \notin rows
    BY <1>2, <2>1, <2>3
  <2>5. ~ Hidden(i)
    BY <1>3 DEF Clean
  <2>6. i \notin taken \union rows => ~ (i < r)
    BY <1>2, <2>1, <2>5, NoneMissing
  <2>7. QED
    BY <2>4, <2>6
<1>4. QED
  BY <1>3

(* A write makes the row of its own period whole when all its swaps are in *)
(* memory, and leaves the others as they are.                              *)
LEMMA WholeFlush ==
  ASSUME BaseInv, MissedInv, ExactWip, RowsSound, failures = 0, swaps' = swaps,
         NEW x \in MarketIds, NEW k \in Frames, NEW c, NEW q, InMemory(x, k, c, q),
         candles' = flushCandle(x, k, c),
         NEW m \in MarketIds, NEW period \in Nat, Clean(m, 1, period),
         IF m = x /\ k = 1 /\ period = q THEN SwapsOf(m, 1, period) \subseteq Seen(1)
         ELSE HasWhole(m, period)
  PROVE  HasWhole(m, period)'
<1>0. TypeOK
  BY DEF BaseInv
<1>1. PICK key, row, e : /\ key = <<m, 1, period>> /\ e = WholeCandle(m, period)
                         /\ row = candles[key]
  OBVIOUS
<1>2. WholeCandle(m, period)' = e
  BY <1>1, WholeSame
<1>3. SUFFICES key \in DOMAIN candles' /\ WholeRow(candles'[key], e)
  BY <1>1, <1>2 DEF HasWhole
<1>4. CASE ~ (m = x /\ k = 1 /\ period = q)
  <2>1. HasWhole(m, period)
    BY <1>4
  <2>2. key \in DOMAIN candles /\ WholeRow(row, e)
    BY <1>1, <2>1 DEF HasWhole
  <2>3. key \in DOMAIN candles' /\ candles'[key] = row
    BY <1>1, <1>4, <2>2, FlushedRow
  <2>4. QED
    BY <2>2, <2>3
<1>5. CASE m = x /\ k = 1 /\ period = q
  <2>1. /\ candles'[key] = IF key \in DOMAIN candles THEN Merge(row, c) ELSE c
        /\ key \in DOMAIN candles'
    BY <1>1, <1>5, FlushedRow
  <2>2. SwapsOf(m, 1, q) # {} /\ c = e /\ SwapsOf(m, 1, period) # {}
    <3>1. InMemory(m, 1, c, q) /\ Clean(m, 1, q) /\ SwapsOf(m, 1, q) \subseteq Seen(1)
      BY <1>5
    <3>2. SwapsOf(m, 1, q) # {} /\ c = WholeCandle(m, q)
      BY <3>1, MemorySound
    <3>3. QED
      BY <1>1, <1>5, <3>2
  <2>3. e \in CandleRecords /\ e.period = period
    BY <1>0, <1>1, <2>2, WholeTyped
  <2>4. CASE key \in DOMAIN candles
    <3>1. row \in CandleRecords /\ row.period = e.period
      BY <1>0, <1>1, <2>3, <2>4, RowTyped
    <3>2. SoundRow(row, e)
      BY <1>1, <2>4 DEF RowsSound
    <3>3. WholeRow(Merge(row, e), e)
      BY <2>3, <3>1, <3>2, MergeWhole
    <3>4. QED
      BY <2>1, <2>2, <2>4, <3>3
  <2>5. CASE key \notin DOMAIN candles
    <3>1. WholeRow(e, e)
      <4>1. e.trades \in Nat
        BY <2>3 DEF CandleRecords
      <4>2. QED
        BY <4>1 DEF WholeRow
    <3>2. QED
      BY <2>1, <2>2, <2>5, <3>1
  <2>6. QED
    BY <2>4, <2>5
<1>6. QED
  BY <1>4, <1>5
-----------------------------------------------------------------------------
(* A period that is over after a write was over before.                    *)
LEMMA FlushLater ==
  ASSUME BaseInv, NEW x \in MarketIds, NEW k \in Frames, NEW c, NEW q, InMemory(x, k, c, q),
         candles' = flushCandle(x, k, c), NEW m \in MarketIds, NEW period \in Nat,
         LaterKey(m, period)'
  PROVE  PeriodOver(m, period)
<1>0. TypeOK
  BY DEF BaseInv
<1>1. c = workers[x].wip[k] /\ c.trades > 0 /\ q = c.period
  BY DEF InMemory
<1>2. /\ c \in CandleRecords /\ q \in Nat /\ q <= workers[x].time /\ Started(x)
      /\ workers[x].time \in Nat
  BY <1>1, WipFacts
<1>3. Flushed(candles', <<x, k, c.period>>, c)
  BY <1>0, <1>1, <1>2, FlushFacts
<1>4. PICK key \in DOMAIN candles' : key[1] = m /\ period + Timeframes[1] <= key[3]
  BY DEF LaterKey
<1>5. key \in DOMAIN candles \/ key = <<x, k, q>>
  BY <1>1, <1>3 DEF Flushed
<1>6. CASE key \in DOMAIN candles
  BY <1>4, <1>6 DEF LaterKey, PeriodOver
<1>7. CASE key = <<x, k, q>>
  <2>1. m = x /\ period + Timeframes[1] <= q
    BY <1>4, <1>7
  <2>2. Timeframes[1] \in Nat
    BY FrameFacts
  <2>3. CursorPast(m, period)
    BY <1>2, <2>1, <2>2 DEF CursorPast
  <2>4. QED
    BY <2>3 DEF PeriodOver
<1>8. QED
  BY <1>5, <1>6, <1>7

(* The candle of a new period is written once the cursor is at the swap of *)
(* the next one.                                                           *)
LEMMA CompleteWrite ==
  ASSUME BaseInv, MissedInv, ExactWip, RowsSound, CompleteInv, WriteCandle, failures = 0,
         NEW m \in MarketIds, NEW period \in Nat,
         Clean(m, 1, period), SwapsOf(m, 1, period) # {}, PeriodOver(m, period)'
  PROVE  HasWhole(m, period)'
<1>0. TypeOK /\ RowsInv /\ WipInv
  BY DEF BaseInv
<1>1. /\ rows # {} /\ RollsOver /\ UNCHANGED <<swaps, rows, tf>>
      /\ workers' = [workers EXCEPT ![Busy] = MoveCursor(@, NextSwap)]
      /\ candles' = flushCandle(Busy, tf, Wip)
  BY DEF WriteCandle, Busy
<1>2. PICK b, s, f, c, q : /\ b = Busy /\ s = NextSwap /\ f = tf /\ c = workers[b].wip[f]
                           /\ q = c.period
  OBVIOUS
<1>3. /\ b \in MarketIds /\ f \in Frames /\ s.time \in Nat
  BY <1>0, <1>1, <1>2, CurrentFacts DEF TypeOK
<1>4. c = Wip /\ c.trades > 0 /\ q # periodStart(s.time, f) /\ InMemory(b, f, c, q)
  BY <1>1, <1>2 DEF RollsOver, Wip, Busy, InMemory
<1>5. candles' = flushCandle(b, f, c)
  BY <1>1, <1>2, <1>4
<1>6. /\ \A x \in MarketIds : x # b => workers'[x] = workers[x]
      /\ workers'[b].time = s.time
  BY <1>0, <1>1, <1>2, CursorOf
<1>7. /\ workers[b].time \in Nat /\ Started(b) /\ q \in Nat /\ q \in Starts(f) /\ q \in Starts(1)
      /\ q <= workers[b].time
  BY <1>2, <1>3, <1>4, WipFacts
<1>8. workers[b].time <= s.time
  <2>1. Current \in rows /\ swaps[Current] = s
    BY <1>0, <1>1, <1>2, CurrentFacts DEF NextSwap
  <2>2. swaps[Current].time >= workers[b].time
    BY <1>0, <1>1, <1>2, <2>1 DEF RowsInv
  <2>3. QED
    BY <1>3, <1>7, <2>1, <2>2
<1>9. PICK n : n = Timeframes[1]
  OBVIOUS
<1>10. n \in Nat \ {0} /\ 1 \in Frames
  BY <1>9, FrameFacts
<1>11. f = 1 => q + n <= s.time
  <2>1. SUFFICES ASSUME f = 1, ~ (q + n <= s.time) PROVE FALSE
    OBVIOUS
  <2>2. q <= s.time /\ s.time < q + Timeframes[1]
    BY <1>3, <1>7, <1>8, <1>9, <1>10, <2>1
  <2>3. q = periodStart(s.time, 1)
    BY <1>3, <1>7, <1>10, <2>2, PeriodFacts
  <2>4. QED
    BY <1>4, <2>1, <2>3
<1>12. ASSUME m = b, period + n <= s.time
       PROVE  SwapsOf(m, 1, period) \subseteq taken
  BY <1>1, <1>2, <1>9, <1>12, TakenBefore
<1>13. taken \subseteq Seen(1)
  BY DEF Seen
<1>14. CASE m = b /\ f = 1 /\ period = q
  <2>1. SwapsOf(m, 1, period) \subseteq Seen(1)
    BY <1>11, <1>12, <1>13, <1>14
  <2>2. QED
    BY <1>1, <1>3, <1>4, <1>5, <1>14, <2>1, WholeFlush
<1>15. CASE ~ (m = b /\ f = 1 /\ period = q)
  <2>1. PeriodOver(m, period)
    <3>1. CASE LaterKey(m, period)'
      BY <1>3, <1>4, <1>5, <3>1, FlushLater
    <3>2. CASE CursorPast(m, period)' /\ m # b
      <4>1. workers'[m] = workers[m]
        BY <1>6, <3>2
      <4>2. CursorPast(m, period)
        BY <3>2, <4>1 DEF CursorPast, Started
      <4>3. QED
        BY <4>2 DEF PeriodOver
    <3>3. CASE CursorPast(m, period)' /\ m = b
      <4>1. period + n <= s.time
        BY <1>6, <1>9, <3>3 DEF CursorPast
      <4>2. CASE f # 1
        <5>1. tf > 1
          BY <1>2, <1>3, <4>2, FrameFacts
        <5>2. workers[b].time = s.time
          BY <1>0, <1>1, <1>2, <5>1 DEF RowsInv
        <5>3. QED
          BY <1>7, <1>9, <3>3, <4>1, <5>2 DEF PeriodOver, CursorPast
      <4>3. CASE f = 1
        <5>1. PICK i : i \in SwapsOf(m, 1, period)
          OBVIOUS
        <5>2. /\ swaps[i].market = m /\ swaps[i].time \in Nat /\ i \in taken
              /\ period \in Starts(1) /\ period <= swaps[i].time
          BY <1>0, <1>12, <3>3, <4>1, <5>1, SwapInPeriod
        <5>3. swaps[i].time < q + n
          <6>1. i \in Seen(1)
            BY <1>13, <5>2
          <6>2. QED
            BY <1>0, <1>2, <1>3, <1>4, <1>9, <3>3, <4>3, <5>2, <6>1 DEF WipInv
        <5>4. ~ (q < period)
          <6>1. q < period => q + n <= period
            BY <1>7, <1>9, <1>10, <5>2, StartsApart
          <6>2. QED
            BY <1>7, <1>10, <5>2, <5>3, <6>1
        <5>5. period < q
          BY <1>7, <1>15, <3>3, <4>3, <5>4
        <5>6. period + n <= q
          BY <1>7, <1>9, <1>10, <5>2, <5>5, StartsApart
        <5>7. period + n <= workers[b].time
          BY <1>7, <1>10, <5>6
        <5>8. QED
          BY <1>7, <1>9, <3>3, <5>7 DEF PeriodOver, CursorPast
      <4>4. QED
        BY <4>2, <4>3
    <3>4. QED
      BY <3>1, <3>2, <3>3 DEF PeriodOver
  <2>2. HasWhole(m, period)
    BY <2>1 DEF CompleteInv
  <2>3. QED
    BY <1>1, <1>3, <1>4, <1>5, <1>15, <2>2, WholeFlush
<1>16. QED
  BY <1>14, <1>15

(* A swap taken in passes no period whose candle is not written.           *)
LEMMA OverTake ==
  ASSUME BaseInv, MissedInv, failures = 0, TakeIn, NEW m \in MarketIds, NEW period \in Nat,
         Clean(m, 1, period), SwapsOf(m, 1, period) # {}, PeriodOver(m, period)'
  PROVE  PeriodOver(m, period)
<1>0. TypeOK /\ RowsInv /\ WipInv
  BY DEF BaseInv
<1>1. PICK b, r, s, f, p, d : TakesIn(b, r, s, f, p, d) /\ TakenValues(b, r, s, f, p, d)
  BY TakeFacts
<1>2. /\ b = Busy /\ r = Current /\ s = NextSwap /\ f = tf /\ p = periodStart(s.time, f)
      /\ rows # {} /\ (RollsOver => written) /\ Seen(f) = taken
      /\ \A x \in MarketIds : x # b => workers'[x] = workers[x]
      /\ workers'[b].time = s.time
      /\ candles' = candles /\ swaps' = swaps
  BY <1>1 DEF TakesIn
<1>3. /\ b \in MarketIds /\ f \in Frames /\ s.time \in Nat
      /\ p \in Starts(f) /\ p \in Nat /\ p <= s.time /\ s.time < p + Timeframes[f]
      /\ workers[b].time \in Nat /\ workers[b].time <= s.time /\ Started(b)
  BY <1>1 DEF TakenValues
<1>4. CASE LaterKey(m, period)'
  BY <1>2, <1>4 DEF LaterKey, PeriodOver
<1>5. CASE CursorPast(m, period)' /\ m # b
  <2>1. workers'[m] = workers[m]
    BY <1>2, <1>5
  <2>2. CursorPast(m, period)
    BY <1>5, <2>1 DEF CursorPast, Started
  <2>3. QED
    BY <2>2 DEF PeriodOver
<1>6. CASE CursorPast(m, period)' /\ m = b
  <2>0. PICK n : n = Timeframes[1]
    OBVIOUS
  <2>1. n \in Nat \ {0} /\ 1 \in Frames
    BY <2>0, FrameFacts
  <2>2. period + n <= s.time
    BY <1>2, <1>6, <2>0 DEF CursorPast
  <2>3. SUFFICES period + n <= workers[b].time
    BY <1>3, <1>6, <2>0 DEF PeriodOver, CursorPast
  <2>4. CASE f # 1 \/ written
    <3>1. tf > 1 \/ written
      BY <1>2, <1>3, <2>4, FrameFacts
    <3>2. workers[b].time = s.time
      BY <1>0, <1>2, <3>1 DEF RowsInv
    <3>3. QED
      BY <2>2, <3>2
  <2>5. CASE f = 1 /\ ~ written
    <3>1. PICK c : c = workers[b].wip[1]
      OBVIOUS
    <3>2. Wip = c /\ ~ (c.trades > 0 /\ c.period # p)
      BY <1>2, <2>5, <3>1 DEF RollsOver, Wip, Busy
    <3>3. c.trades \in Nat
      BY <1>0, <1>3, <2>1, <3>1, WorkerFacts
    <3>4. CASE c.trades = 0
      <4>1. PICK i : i \in SwapsOf(m, 1, period)
        OBVIOUS
      <4>2. /\ swaps[i].market = m /\ swaps[i].time \in Nat /\ i \in taken
            /\ period \in Starts(1) /\ period <= swaps[i].time
        <5>1. SwapsOf(m, 1, period) \subseteq taken
          BY <1>2, <1>6, <2>0, <2>2, TakenBefore
        <5>2. QED
          BY <1>0, <4>1, <5>1, SwapInPeriod
      <4>3. workers[b].time \in Starts(1) /\ swaps[i].time < workers[b].time
        BY <1>0, <1>2, <1>3, <1>6, <2>1, <2>5, <3>1, <3>4, <4>2 DEF WipInv
      <4>4. period < workers[b].time
        BY <1>3, <4>2, <4>3
      <4>5. QED
        BY <2>0, <2>1, <4>2, <4>3, <4>4, StartsApart
    <3>5. CASE c.period = p /\ c.trades > 0
      <4>1. p <= workers[b].time
        BY <1>3, <2>1, <3>1, <3>5, WipFacts
      <4>2. period \in Starts(1)
        <5>1. PICK i : i \in SwapsOf(m, 1, period)
          OBVIOUS
        <5>2. QED
          BY <1>0, <5>1, SwapInPeriod
      <4>3. period <= s.time
        BY <1>3, <2>1, <2>2
      <4>4. period <= p
        BY <1>2, <1>3, <2>1, <2>5, <4>2, <4>3, PeriodFacts
      <4>5. period # p
        BY <1>3, <2>0, <2>2, <2>5
      <4>6. period < p /\ p \in Starts(1)
        BY <1>3, <2>5, <4>4, <4>5
      <4>7. period + n <= p
        BY <2>0, <2>1, <4>2, <4>6, StartsApart
      <4>8. QED
        BY <1>3, <2>1, <4>1, <4>7
    <3>6. QED
      BY <3>2, <3>3, <3>4, <3>5
  <2>6. QED
    BY <2>4, <2>5
<1>7. QED
  BY <1>4, <1>5, <1>6 DEF PeriodOver

(* A stop writes what is in memory: a period that is over is whole again.  *)
LEMMA CompleteFlush ==
  ASSUME BaseInv, MissedInv, ExactWip, RowsSound, CompleteInv, failures = 0,
         UNCHANGED <<swaps, workers>>,
         NEW x \in MarketIds, NEW k \in Frames, NEW c, NEW q, InMemory(x, k, c, q),
         candles' = flushCandle(x, k, c), NEW m \in MarketIds, NEW period \in Nat,
         Clean(m, 1, period), SwapsOf(m, 1, period) # {}, PeriodOver(m, period)'
  PROVE  HasWhole(m, period)'
<1>0. TypeOK /\ RowsInv /\ KeysInv
  BY DEF BaseInv
<1>1. PeriodOver(m, period)
  <2>1. CASE LaterKey(m, period)'
    BY <2>1, FlushLater
  <2>2. CASE CursorPast(m, period)'
    BY <2>2 DEF CursorPast, PeriodOver, Started
  <2>3. QED
    BY <2>1, <2>2 DEF PeriodOver
<1>2. HasWhole(m, period)
  BY <1>1 DEF CompleteInv
<1>3. ASSUME m = x, k = 1, period = q
      PROVE  SwapsOf(m, 1, period) \subseteq Seen(1)
  <2>1. c = workers[m].wip[1] /\ c.trades > 0 /\ q = c.period
    BY <1>3 DEF InMemory
  <2>2. Timeframes[1] \in Nat \ {0} /\ 1 \in Frames
    BY FrameFacts
  <2>3. Started(m) /\ workers[m].time \in Nat /\ q \in Nat
    BY <2>1, <2>2, WipFacts
  <2>4. ~ LaterKey(m, period)
    <3>1. ASSUME NEW key \in DOMAIN candles, key[1] = m, period + Timeframes[1] <= key[3]
          PROVE  FALSE
      <4>1. key[3] <= q
        BY <1>0, <2>1, <2>3, <3>1 DEF KeysInv
      <4>2. key[3] \in Nat
        <5>1. key[3] \in Starts(1)
          BY <1>0, <3>1 DEF KeysInv
        <5>2. QED
          BY <2>2, <5>1, StartsFinest
      <4>3. QED
        BY <1>3, <2>2, <2>3, <3>1, <4>1, <4>2
    <3>2. QED
      BY <3>1 DEF LaterKey
  <2>5. period + Timeframes[1] <= workers[m].time
    BY <1>1, <2>4 DEF PeriodOver, CursorPast
  <2>6. ASSUME NEW i \in SwapsOf(m, 1, period)
        PROVE  i \in taken
    <3>1. /\ i \in DOMAIN swaps /\ swaps[i].market = m /\ swaps[i].time \in Nat
          /\ swaps[i].time < period + Timeframes[1]
      BY <1>0, <2>6, SwapInPeriod
    <3>2. swaps[i].time < workers[m].time
      BY <2>2, <2>3, <2>5, <3>1
    <3>3. UpTo(i, workers[m])
      BY <3>2 DEF UpTo
    <3>4. i \in taken \union rows
      <4>1. ~ Hidden(i)
        BY <2>6 DEF Clean
      <4>2. QED
        BY <3>1, <3>3, <4>1, NoneMissing
    <3>5. i \notin rows
      <4>1. SUFFICES ASSUME i \in rows PROVE FALSE
        OBVIOUS
      <4>2. swaps[i].market = Busy /\ swaps[i].time >= workers[Busy].time
        BY <1>0, <4>1 DEF RowsInv
      <4>3. QED
        BY <2>3, <3>1, <3>2, <4>2
    <3>6. QED
      BY <3>4, <3>5
  <2>7. QED
    BY <2>6 DEF Seen
<1>4. QED
  BY <1>2, <1>3, WholeFlush

LEMMA NextComplete ==
  BaseInv /\ MissedInv /\ ExactWip /\ RowsSound /\ CompleteInv /\ [CandlesNext]_candleVars
  => CompleteInv'
<1> SUFFICES ASSUME BaseInv, MissedInv, ExactWip, RowsSound, CompleteInv,
                    [CandlesNext]_candleVars,
                    failures' = 0, NEW m \in MarketIds, NEW period \in Nat,
                    Clean(m, 1, period)', SwapsOf(m, 1, period)' # {}, PeriodOver(m, period)'
             PROVE  HasWhole(m, period)'
  BY DEF CompleteInv
<1>0. TypeOK /\ Ordered /\ failures \in Nat
  BY DEF BaseInv, TypeOK
<1> DEFINE Goal == HasWhole(m, period)'
<1>1. ASSUME swaps' = swaps, candles' = candles, failures' = failures, PeriodOver(m, period)
      PROVE  Goal
  <2>1. Clean(m, 1, period) /\ SwapsOf(m, 1, period) # {} /\ failures = 0
    BY <1>1, SwapsOfSame
  <2>2. HasWhole(m, period)
    BY <1>1, <2>1 DEF CompleteInv
  <2>3. WholeCandle(m, period)' = WholeCandle(m, period)
    BY <1>1, WholeSame
  <2>4. QED
    BY <1>1, <2>2, <2>3 DEF HasWhole
<1>2. ASSUME NEW x \in MarketIds, NEW time \in 0 .. LastSecond, NEW id \in Ids, InsertSwap(x, time, id)
      PROVE  Goal
  <2>1. UNCHANGED <<candles, workers, failures>>
    BY <1>2 DEF InsertSwap, faults
  <2>2. PeriodOver(m, period)
    BY <2>1 DEF PeriodOver, CursorPast, LaterKey, Started
  <2>3. Clean(m, 1, period)
    BY <1>0, <1>2, SwapsOfInsert
  <2>4. SwapsOf(m, 1, period)' = SwapsOf(m, 1, period)
    <3>1. PICK n : /\ InsertsRow(n, x, time, id)
                   /\ \/ SwapsOf(m, 1, period)' = SwapsOf(m, 1, period)
                      \/ SwapsOf(m, 1, period)' = SwapsOf(m, 1, period) \union {n}
      BY <1>0, <1>2, SwapsOfInsert
    <3>2. PICK j \in DOMAIN swaps : swaps[j].time >= period + Timeframes[1]
      BY <2>2, OverReached
    <3>3. swaps[j].time <= time
      BY <3>1, <3>2 DEF InsertsRow
    <3>4. 1 \in Frames /\ Timeframes[1] \in Nat /\ time \in Nat /\ swaps[j].time \in Nat
      BY <1>0, <3>2, FrameFacts, SwapFacts
    <3>5. periodStart(time, 1) # period
      <4>1. time < periodStart(time, 1) + Timeframes[1]
        BY <3>4, PeriodFacts
      <4>2. QED
        BY <3>2, <3>3, <3>4, <4>1
    <3>6. n \notin SwapsOf(m, 1, period)'
      <4>1. swaps'[n].time = time
        BY <3>1 DEF InsertsRow
      <4>2. QED
        BY <3>5, <4>1 DEF SwapsOf
    <3>7. QED
      BY <3>1, <3>6
  <2>5. SwapsOf(m, 1, period) # {} /\ HasWhole(m, period)
    BY <2>1, <2>2, <2>3, <2>4 DEF CompleteInv
  <2>6. WholeCandle(m, period)' = WholeCandle(m, period)
    BY <1>0, <1>2, <2>4, <2>5, WholeInsert
  <2>7. QED
    BY <2>1, <2>5, <2>6 DEF HasWhole
<1>3. ASSUME NEW x \in MarketIds, Visit(x)
      PROVE  Goal
  <2>1. /\ UNCHANGED <<swaps, candles, failures>>
        /\ \A y \in MarketIds : y # x => workers'[y] = workers[y]
        /\ workers' = workers \/ (workers[x] = NoWorker /\ workers'[x] = Seeded(x))
    BY <1>3, VisitFacts
  <2>2. PeriodOver(m, period)
    <3>1. CASE LaterKey(m, period)'
      BY <2>1, <3>1 DEF LaterKey, PeriodOver
    <3>2. CASE CursorPast(m, period)' /\ workers'[m] = workers[m]
      BY <3>2 DEF CursorPast, PeriodOver, Started
    <3>3. CASE CursorPast(m, period)' /\ m = x /\ workers[x] = NoWorker /\ workers'[x] = Seeded(x)
      <4>1. PICK t : t = workers'[x].time
        OBVIOUS
      <4>2. t = 0 \/ \E key \in DOMAIN candles : key[1] = x /\ key[3] = t
        <5>1. \/ Seeded(x).time = 0
              \/ \E key \in DOMAIN candles : key[1] = x /\ key[3] = Seeded(x).time
          BY <3>3, SeededFacts
        <5>2. t = Seeded(x).time
          BY <3>3, <4>1
        <5>3. QED
          BY <5>1, <5>2
      <4>3. period + Timeframes[1] <= t
        BY <3>3, <4>1 DEF CursorPast
      <4>4. t # 0
        BY <4>3, FrameFacts
      <4>5. LaterKey(m, period)
        BY <3>3, <4>2, <4>3, <4>4 DEF LaterKey
      <4>6. QED
        BY <4>5 DEF PeriodOver
    <3>4. QED
      BY <2>1, <3>1, <3>2, <3>3 DEF PeriodOver
  <2>3. QED
    BY <1>1, <2>1, <2>2
<1>4. CASE WriteCandle
  <2>1. swaps' = swaps /\ failures' = failures
    BY <1>4 DEF WriteCandle, faults
  <2>2. Clean(m, 1, period) /\ SwapsOf(m, 1, period) # {} /\ failures = 0
    BY <2>1, SwapsOfSame
  <2>3. QED
    BY <1>4, <2>2, CompleteWrite
<1>5. CASE WriteFails
  BY <1>0, <1>5 DEF WriteFails
<1>6. CASE TakeIn
  <2>1. UNCHANGED <<swaps, candles, failures>>
    BY <1>6 DEF TakeIn, faults
  <2>2. Clean(m, 1, period) /\ SwapsOf(m, 1, period) # {} /\ failures = 0
    BY <2>1, SwapsOfSame
  <2>3. QED
    BY <1>1, <1>6, <2>1, <2>2, OverTake
<1>7. CASE flushAllWIP
  <2>1. PICK entry \in closing :
          /\ candles' = IF workers[entry[1]].wip[entry[2]].trades > 0
                        THEN flushCandle(entry[1], entry[2], workers[entry[1]].wip[entry[2]])
                        ELSE candles
          /\ UNCHANGED <<swaps, workers, failures>>
    BY <1>7 DEF flushAllWIP, faults
  <2>2. PICK x, k, c, q : x = entry[1] /\ k = entry[2] /\ c = workers[x].wip[k] /\ q = c.period
    OBVIOUS
  <2>3. x \in MarketIds /\ k \in Frames
    BY <1>0, <2>2 DEF TypeOK
  <2>4. CASE c.trades > 0
    <3>1. InMemory(x, k, c, q) /\ candles' = flushCandle(x, k, c)
      BY <2>1, <2>2, <2>4 DEF InMemory
    <3>2. Clean(m, 1, period) /\ SwapsOf(m, 1, period) # {} /\ failures = 0
      BY <2>1, SwapsOfSame
    <3>3. QED
      BY <2>1, <2>3, <3>1, <3>2, CompleteFlush
  <2>5. CASE ~ (c.trades > 0)
    <3>1. candles' = candles
      BY <2>1, <2>2, <2>5
    <3>2. PeriodOver(m, period)
      BY <2>1, <3>1 DEF PeriodOver, CursorPast, LaterKey, Started
    <3>3. QED
      BY <1>1, <2>1, <3>1, <3>2
  <2>6. QED
    BY <2>4, <2>5
<1>8. CASE Reboot
  <2>1. UNCHANGED <<swaps, candles, failures>> /\ workers' = NoWorkers
    BY <1>8 DEF Reboot
  <2>2. ~ Started(m)'
    BY <2>1 DEF Started, NoWorkers, NoWorker
  <2>3. PeriodOver(m, period)
    BY <2>1, <2>2 DEF PeriodOver, CursorPast, LaterKey
  <2>4. QED
    BY <1>1, <2>1, <2>3
<1>9. CASE UNCHANGED <<swaps, candles, workers, rows, tf, written, taken, restarts, failures>>
  <2>1. PeriodOver(m, period)
    BY <1>9 DEF PeriodOver, CursorPast, LaterKey, Started
  <2>2. QED
    BY <1>1, <1>9, <2>1
<1>10. QED
  BY <1>2, <1>3, <1>4, <1>5, <1>6, <1>7, <1>8, <1>9, StepCases

(* Rows that are whole are what FinestSurvives asks for.                   *)
LEMMA SurvivesThen ==
  ASSUME BaseInv, CompleteInv
  PROVE  FinestSurvives
<1>0. TypeOK
  BY DEF BaseInv
<1> SUFFICES ASSUME failures = 0, NEW m \in MarketIds, NEW period \in 0 .. LastSecond,
                    SwapsOf(m, 1, period) # {}, \A i \in SwapsOf(m, 1, period) : ~ Hidden(i),
                    period + Timeframes[1] <= workers[m].time
             PROVE  /\ <<m, 1, period>> \in DOMAIN candles
                    /\ [candles[<<m, 1, period>>] EXCEPT !.trades = 0]
                         = [CandleOf(SwapsOf(m, 1, period), period) EXCEPT !.trades = 0]
                    /\ candles[<<m, 1, period>>].trades
                         >= CandleOf(SwapsOf(m, 1, period), period).trades
  BY DEF FinestSurvives
<1>1. period \in Nat /\ Timeframes[1] \in Nat /\ workers[m].time \in Int
  <2>1. Timeframes[1] \in Nat
    BY FrameFacts
  <2>2. workers[m].time \in Int
    BY <1>0, WorkerFacts
  <2>3. QED
    BY <2>1, <2>2
<1>2. PeriodOver(m, period)
  BY <1>1 DEF PeriodOver, CursorPast, Started
<1>3. HasWhole(m, period)
  BY <1>1, <1>2 DEF CompleteInv, Clean
<1>4. PICK row, e : row = candles[<<m, 1, period>>] /\ e = WholeCandle(m, period)
  OBVIOUS
<1>5. <<m, 1, period>> \in DOMAIN candles /\ WholeRow(row, e)
  BY <1>3, <1>4 DEF HasWhole
<1>6. e = CandleOf(SwapsOf(m, 1, period), period)
  BY <1>4 DEF WholeCandle, CandleIn, CandleOf, PricesIn
<1>7. row \in CandleRecords /\ e \in CandleRecords
  BY <1>0, <1>1, <1>4, <1>5, RowTyped, WholeTyped
<1>8. [row EXCEPT !.trades = 0] = [e EXCEPT !.trades = 0]
  BY <1>5, <1>7 DEF WholeRow, CandleRecords
<1>9. QED
  BY <1>4, <1>5, <1>6, <1>8 DEF WholeRow

(* Through crashes and stops the finest candles before the cursor lose     *)
(* nothing: see FinestSurvives.                                            *)
THEOREM FinestCandlesSurvive == CandlesSpec => []FinestSurvives
<1>1. CandlesInit => BaseInv /\ MissedInv
  BY InitBase, InitMissed
<1>2. CandlesInit => ExactWip /\ RowsSound /\ CompleteInv
  <2>1. ASSUME CandlesInit PROVE DOMAIN candles = {} /\ DOMAIN swaps = {}
    <3>1. swaps = <<>> /\ candles = [key \in {} |-> NoCandle]
      BY <2>1 DEF CandlesInit
    <3>2. QED
      BY <3>1
  <2>2. CandlesInit => RowsSound
    BY <2>1 DEF RowsSound
  <2>3. CandlesInit => CompleteInv
    BY <2>1 DEF CompleteInv, SwapsOf
  <2>4. QED
    BY <2>2, <2>3, InitWip
<1>3. BaseInv /\ MissedInv /\ ExactWip /\ RowsSound /\ CompleteInv /\ [CandlesNext]_candleVars
      => (BaseInv /\ MissedInv /\ ExactWip /\ RowsSound /\ CompleteInv)'
  BY NextBase, NextMissed, NextWip, NextSound, NextComplete
<1>4. BaseInv /\ CompleteInv => FinestSurvives
  BY SurvivesThen
<1>5. QED
  BY <1>1, <1>2, <1>3, <1>4, PTL DEF CandlesSpec
-----------------------------------------------------------------------------
(* A stop is what writes candles outside a tick, and a tick has written    *)
(* only a candle it is about to replace.                                   *)
StopInv ==
  /\ running => closing = {}
  /\ rows # {} /\ written => RollsOver

(* The tick has written the candle of its timeframe that is in memory.     *)
JustWritten(m, k) == rows # {} /\ written /\ tf = k /\ Busy = m

(* The candle in memory is of this period, and is not in the table.        *)
Held(m, k, period) ==
  /\ workers[m].wip[k].trades > 0 /\ workers[m].wip[k].period = period
  /\ ~ JustWritten(m, k)

(* A row is the candle of the swaps taken in, and is there when they are   *)
(* not in memory.                                                          *)
ExactRow(m, k, period) ==
  LET S == Members(m, k, period)
  IN IF S # {} /\ ~ Held(m, k, period)
     THEN /\ <<m, k, period>> \in DOMAIN candles
          /\ candles[<<m, k, period>>] = CandleIn(swaps, S, period)
     ELSE <<m, k, period>> \notin DOMAIN candles

ExactRows ==
  restarts = 0 /\ failures = 0 /\ running =>
    \A m \in MarketIds, k \in Frames, period \in Nat :
      Clean(m, k, period) => ExactRow(m, k, period)

LEMMA NextSame ==
  ASSUME TypeOK, Ordered, NEW m \in MarketIds, NEW time \in 0 .. LastSecond, NEW id \in Ids,
         InsertSwap(m, time, id), rows # {}
  PROVE  rows' = rows /\ Current' = Current /\ NextSwap' = NextSwap
<1>1. PICK n : InsertsRow(n, m, time, id)
  BY InsertFacts
<1>2. rows' = rows
  BY DEF InsertSwap, tick
<1>3. Current' = Current
  BY <1>2 DEF Current
<1>4. Current \in DOMAIN swaps
  BY CurrentFacts
<1>5. QED
  BY <1>1, <1>2, <1>3, <1>4 DEF InsertsRow, NextSwap

LEMMA NextStop == BaseInv /\ StopInv /\ [CandlesNext]_candleVars => StopInv'
<1> SUFFICES ASSUME BaseInv, StopInv, [CandlesNext]_candleVars PROVE StopInv'
  OBVIOUS
<1>0. TypeOK /\ Ordered /\ RowsInv
  BY DEF BaseInv
<1>1. running' => closing' = {}
  <2>0. running => closing = {}
    BY DEF StopInv
  <2>1. ASSUME NEW m \in MarketIds, NEW time \in 0 .. LastSecond, NEW id \in Ids, InsertSwap(m, time, id)
        PROVE  running' => closing' = {}
    BY <2>0, <2>1 DEF InsertSwap
  <2>2. CASE StartTick
    BY <2>0, <2>2 DEF StartTick
  <2>3. ASSUME NEW m \in MarketIds, Visit(m) PROVE running' => closing' = {}
    BY <2>0, <2>3 DEF Visit
  <2>4. CASE WriteCandle
    BY <2>0, <2>4 DEF WriteCandle
  <2>5. CASE WriteFails
    BY <2>0, <2>5 DEF WriteFails
  <2>6. CASE TakeIn
    BY <2>0, <2>6 DEF TakeIn
  <2>7. CASE stopCandleService
    BY <2>7 DEF stopCandleService
  <2>8. CASE flushAllWIP
    BY <2>0, <2>8 DEF flushAllWIP
  <2>9. CASE Exit \/ Crash
    BY <2>9 DEF Exit, Crash, Reboot
  <2>10. CASE UNCHANGED candleVars
    BY <2>0, <2>10 DEF candleVars
  <2>11. QED
    BY <2>1, <2>2, <2>3, <2>4, <2>5, <2>6, <2>7, <2>8, <2>9, <2>10 DEF CandlesNext
<1>2. rows' # {} /\ written' => RollsOver'
  <2>0. rows # {} /\ written => RollsOver
    BY DEF StopInv
  <2>1. ASSUME UNCHANGED <<swaps, workers, rows, tf, written>>
        PROVE  rows' # {} /\ written' => RollsOver'
    BY <2>0, <2>1 DEF RollsOver, Wip, NextSwap, Current
  <2>2. ASSUME NEW m \in MarketIds, NEW time \in 0 .. LastSecond, NEW id \in Ids, InsertSwap(m, time, id)
        PROVE  rows' # {} /\ written' => RollsOver'
    <3>1. UNCHANGED <<workers, rows, tf, written>>
      BY <2>2 DEF InsertSwap, tick
    <3>2. rows # {} => NextSwap' = NextSwap
      BY <1>0, <2>2, <3>1, NextSame
    <3>3. QED
      BY <2>0, <3>1, <3>2 DEF RollsOver, Wip
  <2>3. ASSUME NEW m \in MarketIds, Visit(m) PROVE ~ written'
    BY <2>3, VisitFacts
  <2>4. CASE WriteCandle
    <3>1. /\ rows # {} /\ RollsOver /\ UNCHANGED <<swaps, rows, tf, taken, restarts>>
          /\ workers' = [workers EXCEPT ![Busy] = MoveCursor(@, NextSwap)]
      BY <2>4 DEF WriteCandle, Busy, faults
    <3>2. \A y : Seen(y)' = Seen(y)
      BY <3>1 DEF Seen, Current
    <3>3. \A x \in MarketIds : workers'[x].wip = workers[x].wip
      BY <3>1, <3>2, CursorWip DEF RollsOver
    <3>4. NextSwap' = NextSwap /\ NextSwap.market \in MarketIds
      BY <1>0, <3>1, CurrentFacts DEF NextSwap, Current, Busy
    <3>5. Wip' = Wip
      BY <3>1, <3>3, <3>4 DEF Wip
    <3>6. QED
      BY <3>1, <3>4, <3>5 DEF RollsOver
  <2>5. CASE WriteFails
    BY <2>5 DEF WriteFails
  <2>6. CASE TakeIn
    BY <2>6 DEF TakeIn
  <2>7. CASE flushAllWIP
    BY <2>1, <2>7 DEF flushAllWIP, tick
  <2>8. CASE Reboot
    BY <2>8 DEF Reboot
  <2>9. QED
    BY <2>1, <2>2, <2>3, <2>4, <2>5, <2>6, <2>7, <2>8, StepCases
<1>3. QED
  BY <1>1, <1>2 DEF StopInv

(* A row stays exact as long as what it depends on stays.                  *)
LEMMA RowKept ==
  ASSUME ExactRows, restarts = 0, failures = 0, running, swaps' = swaps,
         NEW m \in MarketIds, NEW k \in Frames, NEW period \in Nat, Clean(m, k, period),
         Members(m, k, period)' = Members(m, k, period),
         Held(m, k, period)' <=> Held(m, k, period),
         <<m, k, period>> \in DOMAIN candles' <=> <<m, k, period>> \in DOMAIN candles,
         <<m, k, period>> \in DOMAIN candles =>
           candles'[<<m, k, period>>] = candles[<<m, k, period>>]
  PROVE  ExactRow(m, k, period)'
<1>1. ExactRow(m, k, period)
  BY DEF ExactRows
<1>2. QED
  BY <1>1 DEF ExactRow
-----------------------------------------------------------------------------
LEMMA RowsInsert ==
  ASSUME BaseInv, ExactRows, restarts = 0, failures = 0, running,
         NEW x \in MarketIds, NEW time \in 0 .. LastSecond, NEW id \in Ids, InsertSwap(x, time, id),
         NEW m \in MarketIds, NEW k \in Frames, NEW period \in Nat, Clean(m, k, period)'
  PROVE  ExactRow(m, k, period)'
<1>0. TypeOK /\ Ordered /\ taken \subseteq DOMAIN swaps
  BY DEF BaseInv, TypeOK
<1>1. UNCHANGED <<candles, workers, rows, tf, written, taken>>
  BY DEF InsertSwap, tick
<1>2. Seen(k)' = Seen(k)
  BY <1>1 DEF Seen, Current
<1>3. PICK n : /\ InsertsRow(n, x, time, id)
               /\ \/ SwapsOf(m, k, period)' = SwapsOf(m, k, period)
                  \/ SwapsOf(m, k, period)' = SwapsOf(m, k, period) \union {n}
  BY <1>0, SwapsOfInsert
<1>4. Clean(m, k, period)
  BY <1>0, SwapsOfInsert
<1>5. n \in Nat /\ \A i \in DOMAIN swaps : i < n /\ swaps'[i] = swaps[i]
  BY <1>3 DEF InsertsRow
<1>6. n \notin Seen(k)
  <2>1. Seen(k) \subseteq DOMAIN swaps
    BY <1>0, CurrentFacts DEF Seen
  <2>2. QED
    BY <1>5, <2>1
<1>7. PICK S : S = Members(m, k, period)
  OBVIOUS
<1>8. Members(m, k, period)' = S
  BY <1>2, <1>3, <1>6, <1>7 DEF Members
<1>9. S \in SUBSET Int /\ IsFiniteSet(S) /\ \A i \in S : swaps'[i].price = swaps[i].price
  <2>1. S \in SUBSET (DOMAIN swaps)
    BY <1>7 DEF Members, SwapsOf
  <2>2. QED
    BY <1>0, <1>5, <2>1, SwapFacts
<1>10. S # {} => CandleIn(swaps', S, period) = CandleIn(swaps, S, period)
  <2>1. PICK u, v : u = swaps' /\ v = swaps
    OBVIOUS
  <2>2. \A i \in S : u[i].price = v[i].price
    BY <1>9, <2>1
  <2>3. S # {} => CandleIn(u, S, period) = CandleIn(v, S, period)
    BY <1>9, <2>2, CandleSame, Zenon
  <2>4. QED
    BY <2>1, <2>3
<1>11. Held(m, k, period)' <=> Held(m, k, period)
  <2>1. rows # {} => Busy' = Busy
    BY <1>0, NextSame DEF Busy
  <2>2. JustWritten(m, k)' <=> JustWritten(m, k)
    BY <1>1, <2>1 DEF JustWritten
  <2>3. QED
    BY <1>1, <2>2 DEF Held
<1>12. ExactRow(m, k, period)
  BY <1>4 DEF ExactRows
<1>13. PICK key : key = <<m, k, period>>
  OBVIOUS
<1>14. IF S # {} /\ ~ Held(m, k, period)
       THEN key \in DOMAIN candles /\ candles[key] = CandleIn(swaps, S, period)
       ELSE key \notin DOMAIN candles
  BY <1>7, <1>12, <1>13 DEF ExactRow
<1>15. IF S # {} /\ ~ Held(m, k, period)'
       THEN key \in DOMAIN candles' /\ candles'[key] = CandleIn(swaps', S, period)
       ELSE key \notin DOMAIN candles'
  BY <1>1, <1>10, <1>11, <1>14
<1>16. QED
  BY <1>8, <1>13, <1>15 DEF ExactRow

LEMMA RowsVisit ==
  ASSUME BaseInv, ExactRows, restarts = 0, failures = 0, running,
         NEW x \in MarketIds, Visit(x),
         NEW m \in MarketIds, NEW k \in Frames, NEW period \in Nat, Clean(m, k, period)
  PROVE  ExactRow(m, k, period)'
<1>0. TypeOK /\ taken \subseteq DOMAIN swaps
  BY DEF BaseInv, TypeOK
<1>1. /\ rows = {} /\ tf = 1 /\ ~ written
      /\ UNCHANGED <<swaps, candles, tf, written>>
      /\ \A y \in MarketIds : y # x => workers'[y] = workers[y]
      /\ \/ workers' = workers /\ taken' = taken
         \/ /\ workers[x] = NoWorker /\ workers'[x] = Seeded(x)
            /\ taken' = taken \union
                 {i \in DOMAIN swaps : swaps[i].market = x /\ swaps[i].time < workers'[x].time}
  BY VisitFacts
<1>2. workers'[m].wip[k] = workers[m].wip[k] /\ taken' = taken
  <2>1. CASE /\ workers[x] = NoWorker /\ workers'[x] = Seeded(x)
             /\ taken' = taken \union
                  {i \in DOMAIN swaps : swaps[i].market = x /\ swaps[i].time < workers'[x].time}
    <3>1. workers'[x].time = 0 /\ workers'[x].wip[k] = NoCandle
      BY <2>1, SeededFacts
    <3>2. workers[x].wip[k] = NoCandle
      BY <2>1 DEF NoWorker
    <3>3. \A i \in DOMAIN swaps : ~ (swaps[i].time < workers'[x].time)
      BY <1>0, <3>1, SwapFacts
    <3>4. QED
      BY <1>1, <2>1, <3>1, <3>2, <3>3
  <2>2. QED
    BY <1>1, <2>1
<1>3. Seen(k) = taken /\ Seen(k)' = taken'
  BY <1>1, FrameFacts DEF Seen
<1>4. Members(m, k, period)' = Members(m, k, period)
  BY <1>1, <1>2, <1>3, SwapsOfSame DEF Members
<1>5. ~ JustWritten(m, k) /\ ~ JustWritten(m, k)'
  BY <1>1 DEF JustWritten
<1>6. Held(m, k, period)' <=> Held(m, k, period)
  BY <1>2, <1>5 DEF Held
<1>7. QED
  BY <1>1, <1>4, <1>6, RowKept

LEMMA RowsWrite ==
  ASSUME BaseInv, ExactWip, ExactRows, restarts = 0, failures = 0, running, WriteCandle,
         NEW m \in MarketIds, NEW k \in Frames, NEW period \in Nat, Clean(m, k, period)
  PROVE  ExactRow(m, k, period)'
<1>0. TypeOK
  BY DEF BaseInv
<1>1. /\ rows # {} /\ RollsOver /\ ~ written /\ written' = TRUE
      /\ UNCHANGED <<swaps, rows, tf, taken, restarts>>
      /\ workers' = [workers EXCEPT ![Busy] = MoveCursor(@, NextSwap)]
      /\ candles' = flushCandle(Busy, tf, Wip)
  BY DEF WriteCandle, Busy, faults
<1>2. PICK b, f, c, q : b = Busy /\ f = tf /\ c = workers[b].wip[f] /\ q = c.period
  OBVIOUS
<1>3. b \in MarketIds /\ f \in Frames
  BY <1>0, <1>1, <1>2, CurrentFacts DEF TypeOK
<1>4. c = Wip /\ c.trades > 0
  BY <1>1, <1>2 DEF RollsOver, Wip, Busy
<1>5. candles' = flushCandle(b, f, c)
  BY <1>1, <1>2, <1>4
<1>6. c \in CandleRecords /\ q \in Nat
  BY <1>2, <1>3, <1>4, WipFacts
<1>7. Flushed(candles', <<b, f, c.period>>, c)
  BY <1>0, <1>2, <1>3, <1>5, <1>6, FlushFacts
<1>8. \A y : Seen(y)' = Seen(y)
  BY <1>1 DEF Seen, Current
<1>9. \A x \in MarketIds : workers'[x].wip = workers[x].wip
  BY <1>1, <1>8, CursorWip DEF RollsOver
<1>10. Members(m, k, period)' = Members(m, k, period)
  BY <1>1, <1>8, SwapsOfSame DEF Members
<1>11. /\ ~ JustWritten(m, k)
       /\ JustWritten(m, k)' <=> m = b /\ k = f
  BY <1>1, <1>2 DEF JustWritten, Busy, NextSwap, Current
<1>12. PICK key, new : key = <<m, k, period>> /\ new = <<b, f, q>>
  OBVIOUS
<1>13. /\ \A x : x \in DOMAIN candles' <=> x \in DOMAIN candles \/ x = new
       /\ \A x \in DOMAIN candles : x # new => candles'[x] = candles[x]
       /\ candles'[new] = IF new \in DOMAIN candles THEN Merge(candles[new], c) ELSE c
  BY <1>2, <1>7, <1>12 DEF Flushed
<1>14. CASE key = new
  <2>1. m = b /\ k = f /\ period = q
    BY <1>12, <1>14
  <2>2. Held(m, k, period)
    BY <1>2, <1>4, <1>11, <2>1 DEF Held
  <2>3. key \notin DOMAIN candles
    BY <1>12, <2>2 DEF ExactRows, ExactRow
  <2>4. key \in DOMAIN candles' /\ candles'[key] = c
    BY <1>13, <1>14, <2>3
  <2>5. Members(m, k, period) # {} /\ c = CandleIn(swaps, Members(m, k, period), period)
    <3>1. Exact(b, f, c)
      BY <1>2, <1>3 DEF ExactWip
    <3>2. Clean(b, f, c.period)
      BY <1>2, <2>1
    <3>3. Members(b, f, c.period) # {} /\ c = CandleIn(swaps, Members(b, f, c.period), c.period)
      BY <1>4, <3>1, <3>2 DEF Exact
    <3>4. QED
      BY <1>2, <2>1, <3>3
  <2>6. ~ Held(m, k, period)'
    BY <1>11, <2>1 DEF Held
  <2>7. QED
    BY <1>1, <1>10, <1>12, <2>4, <2>5, <2>6 DEF ExactRow
<1>15. CASE key # new
  <2>1. Held(m, k, period)' <=> Held(m, k, period)
    <3>1. CASE m = b /\ k = f
      <4>1. workers[m].wip[k].period # period
        BY <1>2, <1>12, <1>15, <3>1
      <4>2. QED
        BY <1>9, <4>1 DEF Held
    <3>2. CASE ~ (m = b /\ k = f)
      BY <1>9, <1>11, <3>2 DEF Held
    <3>3. QED
      BY <3>1, <3>2
  <2>2. /\ <<m, k, period>> \in DOMAIN candles' <=> <<m, k, period>> \in DOMAIN candles
        /\ <<m, k, period>> \in DOMAIN candles =>
             candles'[<<m, k, period>>] = candles[<<m, k, period>>]
    BY <1>12, <1>13, <1>15
  <2>3. QED
    BY <1>1, <1>10, <2>1, <2>2, RowKept
<1>16. QED
  BY <1>14, <1>15

LEMMA RowsTake ==
  ASSUME BaseInv, StopInv, ExactWip, ExactRows, restarts = 0, failures = 0, running, TakeIn,
         NEW m \in MarketIds, NEW k \in Frames, NEW period \in Nat, Clean(m, k, period)
  PROVE  ExactRow(m, k, period)'
<1>0. TypeOK
  BY DEF BaseInv
<1>1. PICK b, r, s, f, p, d : TakesIn(b, r, s, f, p, d) /\ TakenValues(b, r, s, f, p, d)
  BY TakeFacts
<1>2. /\ b = Busy /\ s = NextSwap /\ f = tf /\ p = periodStart(s.time, f)
      /\ rows # {} /\ (RollsOver => written)
      /\ \A x \in MarketIds : x # b => workers'[x] = workers[x]
      /\ workers'[b].wip[f] = d
      /\ \A y \in Frames : y # f => workers'[b].wip[y] = workers[b].wip[y]
      /\ \A y \in Frames : Seen(y)' = IF y = f THEN taken \union {r} ELSE Seen(y)
      /\ Seen(f) = taken /\ written' = FALSE
  BY <1>1, Zenon DEF TakesIn
<1>3. UNCHANGED <<swaps, candles>>
  BY <1>1 DEF TakesIn
<1>4. /\ b \in MarketIds /\ f \in Frames /\ swaps[r].market = b /\ swaps[r] = s
      /\ d.trades \in Nat \ {0} /\ d.period = p
  BY <1>1 DEF TakenValues
<1>5. /\ Wip = workers[b].wip[f]
      /\ Wip.period = p => Wip.trades > 0
      /\ Wip.period # p => SwapsOf(b, f, p) \intersect taken = {}
      /\ r \in SwapsOf(b, f, p)
  BY <1>1, TakeMembers, Zenon
<1>6. ~ JustWritten(m, k)'
  BY <1>2 DEF JustWritten
<1>7. JustWritten(m, k) <=> written /\ m = b /\ k = f
  BY <1>2 DEF JustWritten
<1>8. RollsOver <=> Wip.trades > 0 /\ Wip.period # p
  BY <1>2 DEF RollsOver
<1>9. written => RollsOver
  BY <1>2 DEF StopInv
<1>10. CASE ~ (m = b /\ k = f)
  <2>1. workers'[m].wip[k] = workers[m].wip[k]
    BY <1>2, <1>10
  <2>2. Held(m, k, period)' <=> Held(m, k, period)
    BY <1>6, <1>7, <1>10, <2>1 DEF Held
  <2>3. \A i \in SwapsOf(m, k, period) : i \in Seen(k)' <=> i \in Seen(k)
    BY <1>2, <1>4, <1>10 DEF SwapsOf
  <2>4. Members(m, k, period)' = Members(m, k, period)
    BY <1>3, <2>3, SwapsOfSame DEF Members
  <2>5. QED
    BY <1>3, <2>2, <2>4, RowKept
<1>11. CASE m = b /\ k = f /\ period = p
  <2>1. Held(m, k, period)'
    BY <1>2, <1>4, <1>6, <1>11 DEF Held
  <2>2. <<m, k, period>> \notin DOMAIN candles
    <3>1. CASE Wip.period = p
      <4>1. Held(m, k, period)
        BY <1>5, <1>7, <1>8, <1>9, <1>11, <3>1 DEF Held
      <4>2. QED
        BY <4>1 DEF ExactRows, ExactRow
    <3>2. CASE Wip.period # p
      <4>1. Members(m, k, period) = {}
        BY <1>2, <1>5, <1>11, <3>2 DEF Members
      <4>2. QED
        BY <4>1 DEF ExactRows, ExactRow
    <3>3. QED
      BY <3>1, <3>2
  <2>3. QED
    BY <1>3, <2>1, <2>2 DEF ExactRow
<1>12. CASE m = b /\ k = f /\ period # p
  <2>1. ~ Held(m, k, period)'
    BY <1>2, <1>4, <1>12 DEF Held
  <2>2. ~ Held(m, k, period)
    BY <1>2, <1>5, <1>7, <1>8, <1>12 DEF Held
  <2>3. r \notin SwapsOf(m, k, period)
    BY <1>2, <1>4, <1>12 DEF SwapsOf
  <2>4. Members(m, k, period)' = Members(m, k, period)
    BY <1>2, <1>3, <1>12, <2>3, SwapsOfSame DEF Members
  <2>5. QED
    BY <1>3, <2>1, <2>2, <2>4, RowKept
<1>13. QED
  BY <1>10, <1>11, <1>12

LEMMA NextRows ==
  BaseInv /\ StopInv /\ ExactWip /\ ExactRows /\ [CandlesNext]_candleVars => ExactRows'
<1> SUFFICES ASSUME BaseInv, StopInv, ExactWip, ExactRows, [CandlesNext]_candleVars,
                    restarts' = 0, failures' = 0, running',
                    NEW m \in MarketIds, NEW k \in Frames, NEW period \in Nat,
                    Clean(m, k, period)'
             PROVE  ExactRow(m, k, period)'
  BY DEF ExactRows
<1>0. TypeOK /\ failures \in Nat /\ restarts \in Nat
  BY DEF BaseInv, TypeOK
<1>1. ASSUME NEW x \in MarketIds, NEW time \in 0 .. LastSecond, NEW id \in Ids, InsertSwap(x, time, id)
      PROVE  ExactRow(m, k, period)'
  <2>1. UNCHANGED <<running, restarts, failures>>
    BY <1>1 DEF InsertSwap, faults
  <2>2. QED
    BY <1>1, <2>1, RowsInsert
<1>2. ASSUME NEW x \in MarketIds, Visit(x)
      PROVE  ExactRow(m, k, period)'
  <2>1. UNCHANGED <<swaps, running, restarts, failures>>
    BY <1>2 DEF Visit, faults
  <2>2. Clean(m, k, period)
    BY <2>1, SwapsOfSame
  <2>3. QED
    BY <1>2, <2>1, <2>2, RowsVisit
<1>3. CASE WriteCandle
  <2>1. UNCHANGED <<swaps, running, restarts, failures>>
    BY <1>3 DEF WriteCandle, faults
  <2>2. Clean(m, k, period)
    BY <2>1, SwapsOfSame
  <2>3. QED
    BY <1>3, <2>1, <2>2, RowsWrite
<1>4. CASE WriteFails
  BY <1>0, <1>4 DEF WriteFails
<1>5. CASE TakeIn
  <2>1. UNCHANGED <<swaps, running, restarts, failures>>
    BY <1>5 DEF TakeIn, faults
  <2>2. Clean(m, k, period)
    BY <2>1, SwapsOfSame
  <2>3. QED
    BY <1>5, <2>1, <2>2, RowsTake
<1>6. CASE flushAllWIP
  BY <1>6 DEF flushAllWIP, StopInv
<1>7. CASE Reboot
  BY <1>0, <1>7 DEF Reboot
<1>8. CASE /\ UNCHANGED <<swaps, candles, workers, rows, tf, written, taken, restarts, failures>>
           /\ running' => running
  <2>1. running /\ restarts = 0 /\ failures = 0 /\ swaps' = swaps
    BY <1>8
  <2>2. Clean(m, k, period)
    BY <2>1, SwapsOfSame
  <2>3. Members(m, k, period)' = Members(m, k, period)
    BY <1>8, SwapsOfSame DEF Members, Seen, Current
  <2>4. Held(m, k, period)' <=> Held(m, k, period)
    BY <1>8 DEF Held, JustWritten, Busy, NextSwap, Current
  <2>5. QED
    BY <1>8, <2>1, <2>2, <2>3, <2>4, RowKept
<1>9. QED
  BY <1>1, <1>2, <1>3, <1>4, <1>5, <1>6, <1>7, <1>8, StepCases

LEMMA ExactThen ==
  ASSUME BaseInv, ExactWip, ExactRows
  PROVE  CandlesExact
<1>0. TypeOK /\ WipInv
  BY DEF BaseInv
<1> SUFFICES ASSUME restarts = 0, failures = 0, running, tf = 1, ~ written,
                    NEW m \in MarketIds, NEW k \in Frames, NEW period \in 0 .. LastSecond,
                    SwapsOf(m, k, period) \intersect taken # {},
                    \A i \in SwapsOf(m, k, period) : ~ Hidden(i)
             PROVE  Known(m, k, period) = CandleOf(SwapsOf(m, k, period) \intersect taken, period)
  BY DEF CandlesExact, BetweenSwaps
<1>1. PICK S, key, c : /\ S = SwapsOf(m, k, period) \intersect taken
                       /\ key = <<m, k, period>> /\ c = workers[m].wip[k]
  OBVIOUS
<1>2. Members(m, k, period) = S /\ Clean(m, k, period) /\ period \in Nat
  <2>1. Seen(k) = taken
    BY FrameFacts DEF Seen
  <2>2. QED
    BY <1>1, <2>1 DEF Members, Clean
<1>3. CandleOf(S, period) = CandleIn(swaps, S, period)
  BY DEF CandleOf, CandleIn, PricesIn
<1>4. Known(m, k, period) = IF c.period # period THEN candles[key]
                            ELSE IF key \in DOMAIN candles THEN Merge(candles[key], c) ELSE c
  BY <1>1 DEF Known
<1>5. IF S # {} /\ ~ Held(m, k, period)
      THEN key \in DOMAIN candles /\ candles[key] = CandleIn(swaps, S, period)
      ELSE key \notin DOMAIN candles
  BY <1>1, <1>2 DEF ExactRows, ExactRow
<1>6. Held(m, k, period) <=> c.trades > 0 /\ c.period = period
  BY <1>1 DEF Held, JustWritten
<1>7. CASE c.period # period
  BY <1>1, <1>3, <1>4, <1>5, <1>6, <1>7
<1>8. CASE c.period = period
  <2>1. c.trades > 0
    <3>1. c.trades \in Nat
      BY <1>0, <1>1, WorkerFacts
    <3>2. c.trades = 0 => c.period = -1
      BY <1>0, <1>1 DEF WipInv, NoCandle
    <3>3. QED
      BY <1>2, <1>8, <3>1, <3>2
  <2>2. key \notin DOMAIN candles
    BY <1>5, <1>6, <1>8, <2>1
  <2>3. c = CandleIn(swaps, S, period)
    <3>1. Exact(m, k, c)
      BY <1>1 DEF ExactWip
    <3>2. Clean(m, k, c.period)
      BY <1>2, <1>8
    <3>3. c = CandleIn(swaps, Members(m, k, c.period), c.period)
      BY <2>1, <3>1, <3>2 DEF Exact
    <3>4. QED
      BY <1>2, <1>8, <3>3
  <2>4. QED
    BY <1>1, <1>3, <1>4, <1>8, <2>2, <2>3
<1>9. QED
  BY <1>7, <1>8

(* Without faults the candles, in the table or in memory, are those of the *)
(* swaps taken in, in every timeframe: see CandlesExact.                   *)
THEOREM CandlesStayExact == CandlesSpec => []CandlesExact
<1>1. CandlesInit => BaseInv /\ MissedInv
  BY InitBase, InitMissed
<1>2. CandlesInit => StopInv /\ ExactWip /\ ExactRows
  <2>1. CandlesInit => StopInv
    BY DEF CandlesInit, StopInv
  <2>2. CandlesInit => ExactWip
    BY InitWip
  <2>3. CandlesInit => ExactRows
    <3>1. ASSUME CandlesInit PROVE DOMAIN candles = {} /\ DOMAIN swaps = {}
      <4>1. swaps = <<>> /\ candles = [key \in {} |-> NoCandle]
        BY <3>1 DEF CandlesInit
      <4>2. QED
        BY <4>1
    <3>2. QED
      BY <3>1 DEF ExactRows, ExactRow, Members, SwapsOf
  <2>4. QED
    BY <2>1, <2>2, <2>3
<1>3. BaseInv /\ MissedInv /\ StopInv /\ ExactWip /\ ExactRows /\ [CandlesNext]_candleVars
      => (BaseInv /\ MissedInv /\ StopInv /\ ExactWip /\ ExactRows)'
  BY NextBase, NextMissed, NextStop, NextWip, NextRows
<1>4. BaseInv /\ ExactWip /\ ExactRows => CandlesExact
  BY ExactThen
<1>5. QED
  BY <1>1, <1>2, <1>3, <1>4, PTL DEF CandlesSpec
=============================================================================
