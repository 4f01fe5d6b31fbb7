------------------------------ MODULE Trending ------------------------------
(***************************************************************************)
(* The trending service: computeScores reads the markets, then the swaps   *)
(* of the last two hours, scores every market, and writes the ranking in   *)
(* one transaction.  Scores are in units of 1/Unit instead of floating     *)
(* point, and freshness halves in steps.                                   *)
(***************************************************************************)
EXTENDS Integers, SequencesExt, Totals

CONSTANTS
  Markets,
  Users,
  Prices,       \* the prices swaps may leave behind
  Hour,
  MaxSwaps,     \* bound on swaps,
  MaxTime,      \* on time
  MaxHolders,   \* on the holders of a market's token
  MaxRankings   \* and on the computations of a behaviour

ASSUME TrendingAssumption ==
  /\ Prices \subseteq Nat \ {0}
  /\ Hour \in Nat \ {0}
  /\ MaxSwaps \in Nat /\ MaxTime \in Nat
  /\ MaxHolders \in Nat /\ MaxRankings \in Nat

VARIABLES
  market,          \* the market table
  swap,            \* the swap table, in the order it is filled
  trending_score,  \* the table as readers see it
  snapshot,        \* the market rows of the computation in flight, if any
  now,             \* the time it started
  finals,          \* its results not written yet, with their ranks
  txn,             \* its rows written and not committed
  writing,         \* is a transaction open?
  rankings

indexed == <<market, swap>>
trending == <<trending_score, snapshot, now, finals, txn, writing, rankings>>
vars == <<indexed, trending>>

Nothing == [id \in {} |-> 0]

(* Rows inserted into a table, or put in the place of those of their       *)
(* markets.                                                                *)
Upserted(table, rows) ==
  [m \in DOMAIN table \union DOMAIN rows |->
     IF m \in DOMAIN rows THEN rows[m] ELSE table[m]]

Row(row) == [m \in {row.market} |-> row]

LastTime == IF swap = <<>> THEN 0 ELSE Last(swap).time

(* What the indexer writes.  A swap moves one token: its amount in USID is *)
(* its price.                                                              *)
CreateMarket(m) ==
  /\ m \notin DOMAIN market
  /\ market' = Upserted(market, [x \in {m} |-> [price |-> 1, holders |-> 1, lastSwap |-> 0]])
  /\ UNCHANGED <<swap, trending>>

Swap(m, user, price, time) ==
  /\ m \in DOMAIN market
  /\ Len(swap) < MaxSwaps
  /\ time >= LastTime
  /\ swap' = Append(swap, [market |-> m, user |-> user, price |-> price, time |-> time])
  /\ market' = [market EXCEPT ![m].price = price, ![m].lastSwap = time]
  /\ UNCHANGED trending

AddHolder(m) ==
  /\ m \in DOMAIN market
  /\ market[m].holders < MaxHolders
  /\ market' = [market EXCEPT ![m].holders = @ + 1]
  /\ UNCHANGED <<swap, trending>>
-----------------------------------------------------------------------------
Unit == 1000
WINDOW == Hour
HALFLIFE == 2 * Hour

W == [volumeVelocity |-> 30, priceMomentum |-> 15, tradeIntensity |-> 20,
      holderGrowth |-> 10, uniqueTraders1h |-> 15, freshness |-> 10]
Signals == DOMAIN W

(* The swap rows of a market in a window of time. *)
Window(m, from, to) ==
  {i \in DOMAIN swap : swap[i].market = m /\ swap[i].time \in from .. to}

Volume(S) == Total([i \in S |-> swap[i].price], S)

Growth(recent, previous) ==
  IF previous > 0 THEN ((recent - previous) * Unit) \div previous
  ELSE IF recent > 0 THEN Unit ELSE 0

Change(price, old) ==
  Min({((IF price > old THEN price - old ELSE old - price) * Unit) \div old, 10 * Unit})

(* The price left by the last swap up to a time, else the given one; which *)
(* of several swaps of the same time the query returns is open.            *)
OldPrices(m, time, price) ==
  LET before == Window(m, 0, time)
      latest == {i \in before : \A j \in before : swap[j].time <= swap[i].time}
  IN IF before = {} THEN {price} ELSE {swap[i].price : i \in latest}

RawScore(m, old) ==
  LET row == snapshot[m]
      recent == Window(m, now - WINDOW, MaxTime)
      previous == Window(m, now - 2 * WINDOW, now - WINDOW - 1)
  IN [volumeVelocity |-> Growth(Volume(recent), Volume(previous)),
      priceMomentum |-> Change(row.price, old),
      tradeIntensity |-> Growth(Cardinality(recent), Cardinality(previous)),
      holderGrowth |-> row.holders,
      uniqueTraders1h |-> Cardinality({swap[i].user : i \in recent}),
      freshness |-> Unit \div 2 ^ (Max({now - row.lastSwap, 0}) \div HALFLIFE)]

(* Mutant: the scale is upside down. *)
normalize_Inverted(values) ==
  LET max == Max({values[m] : m \in DOMAIN values})
      min == Min({values[m] : m \in DOMAIN values})
  IN [m \in DOMAIN values |->
        IF max = min THEN 0 ELSE ((max - values[m]) * Unit) \div (max - min)]

normalize(values) ==
  LET max == Max({values[m] : m \in DOMAIN values})
      min == Min({values[m] : m \in DOMAIN values})
  IN [m \in DOMAIN values |->
        IF max = min THEN 0 ELSE ((values[m] - min) * Unit) \div (max - min)]

Scores(raw) ==
  LET normal == [k \in Signals |-> normalize([m \in DOMAIN raw |-> raw[m][k]])]
      Part(k, m) == W[k] * normal[k][m]
  IN [m \in DOMAIN raw |->
        Part("volumeVelocity", m) + Part("priceMomentum", m) + Part("tradeIntensity", m)
        + Part("holderGrowth", m) + Part("uniqueTraders1h", m) + Part("freshness", m)]

classifyRank(rank, total, score) ==
  IF score < Unit THEN "cold"
  ELSE IF rank * 100 <= 5 * total THEN "hot"
  ELSE IF rank * 100 <= 15 * total THEN "rising"
  ELSE IF rank * 100 <= 40 * total THEN "warm"
  ELSE "cold"

(* The orders the sort may leave: ties stay as the rows came. *)
Sorted(score) ==
  {order \in SetToSeqs(DOMAIN score) :
     \A i, j \in DOMAIN order : i < j => score[order[i]] >= score[order[j]]}

Final(order, raw, score, i) ==
  [market |-> order[i], rank |-> i, score |-> score[order[i]], signals |-> raw[order[i]],
   category |-> classifyRank(i - 1, Len(order), score[order[i]]), updatedAt |-> now]

Idle == snapshot = Nothing /\ finals = <<>> /\ ~writing

ReadMarkets ==
  /\ Idle /\ rankings < MaxRankings
  /\ DOMAIN market # {}
  /\ snapshot' = market
  /\ now' \in Max({now, LastTime}) .. MaxTime
  /\ rankings' = rankings + 1
  /\ UNCHANGED <<indexed, trending_score, finals, txn, writing>>

(* The three queries over swaps, the scores, and BEGIN. *)
computeScores ==
  /\ snapshot # Nothing
  /\ \E old \in [DOMAIN snapshot -> Prices \union {1}] :
       /\ \A m \in DOMAIN snapshot : old[m] \in OldPrices(m, now - WINDOW, snapshot[m].price)
       /\ LET raw == [m \in DOMAIN snapshot |-> RawScore(m, old[m])]
              score == Scores(raw)
          IN \E order \in Sorted(score) :
               finals' = [i \in 1 .. Len(order) |-> Final(order, raw, score, i)]
  /\ snapshot' = Nothing
  /\ writing' = TRUE
  /\ UNCHANGED <<indexed, trending_score, now, txn, rankings>>

(* Mutant: no transaction, every row is seen at once. *)
UpsertScore_AutoCommit ==
  /\ writing /\ finals # <<>>
  /\ trending_score' = Upserted(trending_score, Row(Head(finals)))
  /\ finals' = Tail(finals)
  /\ UNCHANGED <<indexed, snapshot, now, txn, writing, rankings>>

UpsertScore ==
  /\ writing /\ finals # <<>>
  /\ txn' = Upserted(txn, Row(Head(finals)))
  /\ finals' = Tail(finals)
  /\ UNCHANGED <<indexed, trending_score, snapshot, now, writing, rankings>>

Commit ==
  /\ writing /\ finals = <<>>
  /\ trending_score' = Upserted(trending_score, txn)
  /\ txn' = Nothing
  /\ writing' = FALSE
  /\ UNCHANGED <<indexed, snapshot, now, finals, rankings>>

(* A statement fails, or the process ends: nothing of it was written. *)
Rollback ==
  /\ ~Idle
  /\ snapshot' = Nothing /\ finals' = <<>> /\ txn' = Nothing
  /\ writing' = FALSE
  /\ UNCHANGED <<indexed, trending_score, now, rankings>>

Init ==
  /\ market = Nothing /\ swap = <<>>
  /\ trending_score = Nothing /\ snapshot = Nothing /\ now = 0
  /\ finals = <<>> /\ txn = Nothing /\ writing = FALSE /\ rankings = 0

IndexerNext ==
  \E m \in Markets :
    \/ CreateMarket(m)
    \/ \E user \in Users, price \in Prices, time \in 0 .. MaxTime : Swap(m, user, price, time)
    \/ AddHolder(m)

(* What the indexer does while a ranking is being written has nothing to   *)
(* do with it, and is taken to come after.                                 *)
Next ==
  \/ ~writing /\ IndexerNext
  \/ ReadMarkets \/ computeScores \/ UpsertScore \/ Commit \/ Rollback

Spec == Init /\ [][Next]_vars
-----------------------------------------------------------------------------
Level == [hot |-> 3, rising |-> 2, warm |-> 1, cold |-> 0]

(* Readers see one computation's ranking as a whole: ranks 1 to n in the   *)
(* order of the scores, and no category above that of a better rank.       *)
RankingWhole ==
  LET listed == DOMAIN trending_score
      Listed(m) == trending_score[m]
  IN /\ {Listed(m).rank : m \in listed} = 1 .. Cardinality(listed)
     /\ \A a, b \in listed :
          /\ Listed(a).updatedAt = Listed(b).updatedAt
          /\ Listed(a).rank < Listed(b).rank =>
               /\ Listed(a).score >= Listed(b).score
               /\ Level[Listed(a).category] >= Level[Listed(b).category]

(* A market that is at least as good in every signal never ranks below     *)
(* another with a lower score.                                             *)
LeadersRankFirst ==
  \A a, b \in DOMAIN trending_score :
    (\A k \in Signals : trending_score[a].signals[k] >= trending_score[b].signals[k])
      => trending_score[a].score >= trending_score[b].score
=============================================================================
