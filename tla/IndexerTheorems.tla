--------------------------- MODULE IndexerTheorems ---------------------------
(***************************************************************************)
(* Proofs about the indexer's loop and handlers, for all chains, batch     *)
(* sizes and numbers of restarts and swallowed errors.                     *)
(***************************************************************************)
EXTENDS Indexer, ArithmeticTheorems, SequenceTheorems

-----------------------------------------------------------------------------
(* The logs of the chain.                                                  *)

ContractsOK ==
  /\ created \subseteq Markets
  /\ owner \in [Markets -> Users]
  /\ strategy \in [Markets -> Strategies \union {CLAIM}]
  /\ fees \in [Markets -> Nat]
  /\ unreported \in [Markets -> Nat]

(* A log knows its place, which no other log has.                          *)
LogsPlaced ==
  /\ chain \in Seq(Seq(Logs))
  /\ \A b \in 1 .. Height : \A i \in DOMAIN chain[b] :
       chain[b][i].block = b /\ chain[b][i].index = i

FeeKinds == {"Swap", "FeeClaimed", "FeesClaimed"}
StrategyKinds == {"FeeStrategyUpdated", "NFTFeeStrategyUpdated"}

(* A market is created once, by the emitter before the factory, and what   *)
(* is swapped comes in a later block.  A Sync carries its own block.       *)
LogsInOrder ==
  /\ \A log \in Emitted : /\ log.market \in created
                          /\ log.kind = "Sync" => log.arg = log.block
                          /\ log.kind = "Swap" => log.arg \in Nat
  /\ \A m \in created : \E log \in Emitted : log.kind = "MarketCreated" /\ log.market = m
  /\ \A made, log \in Emitted : made.kind = "MarketCreated" /\ made.market = log.market =>
       /\ log.kind = "MarketCreated" => log = made
       /\ log.kind = "FactoryMarketCreated" => Before(made, log)
       /\ log.kind \in FeeKinds => made.block < log.block

(* The fees of the swaps among the logs that no claim among them follows.  *)
Unclaimed(logs, m) ==
  {log \in logs : /\ log.kind = "Swap" /\ log.market = m
                  /\ \A claim \in logs :
                       claim.kind \in {"FeeClaimed", "FeesClaimed"} /\ claim.market = m
                         => ~ Before(log, claim)}

Owed(logs, m) == Total([log \in logs |-> log.arg], Unclaimed(logs, m))

(* The fees of a market are those its logs leave to claim and those that   *)
(* no log reports.                                                         *)
FeesReported == \A m \in Markets : fees[m] = Owed(Emitted, m) + unreported[m]

Choices(m) == {log \in Emitted : log.kind \in StrategyKinds /\ log.market = m}

(* Where a strategy was chosen after the creation, that of the last choice *)
(* is in force.                                                            *)
StrategyReported ==
  \A m \in Markets : \A log \in Choices(m), made \in Emitted :
    made.kind = "MarketCreated" /\ made.market = m /\ made.block < log.block =>
      \E last \in Choices(m) :
        /\ log.block <= last.block
        /\ \A other \in Choices(m) :
             /\ other.block <= last.block
             /\ other.block = last.block => other.arg = strategy[m]

ChainInv ==
  ContractsOK /\ LogsPlaced /\ LogsInOrder /\ FeesReported /\ StrategyReported

-----------------------------------------------------------------------------
(* The loop and the tables.                                                *)

Columns ==
  {"lastBlock", "markets", "nfts", "tracked", "owner", "strategy", "swapCount",
   "marketFees", "reserves", "pending", "claimed", "changes", "totalMarkets",
   "totalSwaps", "marketsCreated", "swapRows", "claimRows", "changeRows",
   "transferRows"}

Statements ==
  {"CountCreator", "InsertMarket", "InsertNFT", "CountMarket", "TrackPool",
   "InsertSwap", "UpdateMarket", "CountSwap", "AddPending", "SetReserves",
   "InsertClaim", "ApplyClaim", "InsertChange", "ApplyStrategy",
   "InsertTransfer", "SetOwner"}

(* The columns the properties read.                                        *)
TablesOK(d) ==
  /\ DOMAIN d = Columns
  /\ d.lastBlock \in Nat
  /\ d.swapCount \in [Markets -> Nat]
  /\ d.reserves \in [Markets -> Nat]

LoopInv ==
  /\ TablesOK(db)
  /\ toBlock \in Nat
  /\ db.lastBlock <= Height
  /\ IF toBlock = 0 THEN batch = {} /\ todo = <<>>
                    ELSE db.lastBlock < toBlock /\ toBlock <= Height
  /\ \A log \in batch : /\ log \in Emitted
                        /\ db.lastBlock < log.block /\ log.block <= toBlock
                        /\ \A done \in Passed : Before(done, log)
  /\ todo \in Seq(Statements)
  /\ todo # <<>> => /\ current \in Emitted \ batch
                    /\ db.lastBlock < current.block /\ current.block <= toBlock
                    /\ \A done \in Passed : done.block <= current.block
                    /\ "SetReserves" \in Range(todo) => current.kind = "Sync"

ToRun(log, statement) == current = log /\ statement \in Range(todo)

(* A creation the loop is done with has its rows, or its handler has still *)
(* to write them, or it was cut short.                                     *)
CreationsInv ==
  \A log \in Passed : log.kind = "MarketCreated" =>
    \/ Id(log) \in lost
    \/ /\ log.market \in db.markets \/ ToRun(log, "InsertMarket")
       /\ log.market \in db.nfts \/ ToRun(log, "InsertNFT")
       /\ log.market \in db.tracked \/ ToRun(log, "TrackPool")

(* The same for a swap, which is skipped when its market's creation was    *)
(* cut short.                                                              *)
SwapsInv ==
  \A log \in Passed : log.kind = "Swap" =>
    \/ Id(log) \in lost \/ CreationLost(log.market)
    \/ /\ Id(log) \in db.swapRows \/ ToRun(log, "InsertSwap")
       /\ log.block <= db.reserves[log.market] \/ ToRun(log, "UpdateMarket")

Counted(m) ==
  {log \in Passed : /\ log.kind = "Swap" /\ log.market = m
                    /\ Id(log) \notin lost
                    /\ ~ ToRun(log, "UpdateMarket")}

CountsInv ==
  \A m \in Markets : CreationLost(m) \/ Cardinality(Counted(m)) <= db.swapCount[m]

Inv == ChainInv /\ LoopInv /\ CreationsInv /\ SwapsInv /\ CountsInv

-----------------------------------------------------------------------------
(* The chain.                                                              *)

(* The logs of a transaction on market m, in the next block.               *)
NewLogs(m, logs) ==
  {[kind |-> logs[i][1], market |-> m, arg |-> logs[i][2],
    block |-> Height + 1, index |-> i] : i \in 1 .. Len(logs)}

(* What the logs of a transaction on market m tell, for each kind of       *)
(* transaction: its creation, a swap, a claim, a choice of strategy,       *)
(* nothing the contracts' state depends on, or no log at all.              *)
Creates(m, logs) ==
  /\ m \notin created /\ created' = created \union {m}
  /\ fees' = fees /\ unreported' = unreported
  /\ \A k \in Markets \ {m} : strategy'[k] = strategy[k]
  /\ \E made, fact \in logs :
       /\ made.kind = "MarketCreated" /\ fact.kind = "FactoryMarketCreated"
       /\ made.index < fact.index
       /\ \A log \in logs : /\ log.kind = "MarketCreated" => log = made
                            /\ log.kind = "FactoryMarketCreated" => log = fact
  /\ \A log \in logs : log.kind \notin FeeKinds

Trades(m, logs) ==
  /\ strategy' = strategy /\ unreported' = unreported
  /\ \E swap \in logs : /\ swap.kind = "Swap" /\ swap.arg \in Nat
                        /\ fees' = [fees EXCEPT ![m] = @ + swap.arg]
                        /\ \A log \in logs : log = swap \/ log.kind = "Sync"

Claims(m, logs) ==
  /\ strategy' = strategy
  /\ fees' = [fees EXCEPT ![m] = 0]
  /\ unreported' = [unreported EXCEPT ![m] = 0]
  /\ \E claim \in logs : claim.kind = "FeeClaimed"
  /\ \A log \in logs : log.kind \in {"Sync", "FeeClaimed", "FeesClaimed"}

Chooses(m, logs) ==
  /\ fees' = fees /\ unreported' = unreported
  /\ \A log \in logs : /\ log.kind \in StrategyKinds
                       /\ strategy' = [strategy EXCEPT ![m] = log.arg]
  /\ logs # {}

Other(m, logs) ==
  /\ fees' = fees /\ strategy' = strategy /\ unreported' = unreported
  /\ \A log \in logs : log.kind \in {"Sync", "NFTTransfer"}

Records(m, logs) ==
  /\ logs = {} /\ created' = created /\ strategy' = strategy
  /\ \E amount \in Nat : /\ fees' = [fees EXCEPT ![m] = @ + amount]
                          /\ unreported' = [unreported EXCEPT ![m] = @ + amount]

Tells(m, logs) ==
  /\ \A log \in logs : log.kind = "Sync" => log.arg = Height + 1
  /\ \/ Creates(m, logs) \/ Records(m, logs)
     \/ /\ m \in created /\ created' = created
        /\ Trades(m, logs) \/ Claims(m, logs) \/ Chooses(m, logs) \/ Other(m, logs)

(* What a mined transaction adds to the chain.                             *)
LEMMA MineAdds ==
  ASSUME LogsPlaced, NEW m \in Markets,
         NEW logs \in Seq(LogKinds \X Args), Mine(m, logs)
  PROVE  /\ LogsPlaced'
         /\ Height' = Height + 1
         /\ \A b \in 1 .. Height : chain'[b] = chain[b]
         /\ Emitted' = Emitted \union NewLogs(m, logs)
<1> DEFINE n == Height
           new == [i \in 1 .. Len(logs) |->
                     [kind |-> logs[i][1], market |-> m, arg |-> logs[i][2],
                      block |-> NextBlock, index |-> i]]
<1>1. /\ chain \in Seq(Seq(Logs)) /\ n \in Nat /\ NextBlock = n + 1
      /\ chain' = Append(chain, new)
  BY DEF LogsPlaced, Mine, Height, NextBlock
<1>2. Len(logs) \in Nat /\ \A i \in 1 .. Len(logs) : logs[i] \in LogKinds \X Args
  OBVIOUS
<1>3. new \in Seq(Logs) /\ DOMAIN new = 1 .. Len(logs)
  <2>1. \A i \in 1 .. Len(logs) :
          [kind |-> logs[i][1], market |-> m, arg |-> logs[i][2],
           block |-> NextBlock, index |-> i] \in Logs
    BY <1>1, <1>2 DEF Logs
  <2>2. QED
    BY <1>2, <2>1
<1>4. \A i \in DOMAIN new : new[i].block = n + 1 /\ new[i].index = i
  BY <1>1, <1>3
<1>5. {new[i] : i \in DOMAIN new}
        = {[kind |-> logs[i][1], market |-> m, arg |-> logs[i][2],
            block |-> n + 1, index |-> i] : i \in 1 .. Len(logs)}
  BY <1>1, <1>3
<1> HIDE DEF new
<1>6. /\ chain' \in Seq(Seq(Logs))
      /\ Len(chain') = n + 1
      /\ \A b \in 1 .. n : chain'[b] = chain[b]
      /\ chain'[n + 1] = new
  BY <1>1, <1>3 DEF Height
<1>7. Height' = n + 1
  BY <1>6 DEF Height
<1> HIDE DEF n
<1>8. 1 .. (n + 1) = (1 .. n) \union {n + 1}
  BY <1>1
<1>9. LogsPlaced'
  <2> SUFFICES ASSUME NEW b \in 1 .. (n + 1), NEW i \in DOMAIN chain'[b]
               PROVE  chain'[b][i].block = b /\ chain'[b][i].index = i
    BY <1>6, <1>7 DEF LogsPlaced
  <2>1. CASE b \in 1 .. n
    BY <1>6, <2>1 DEF LogsPlaced, n
  <2>2. CASE b = n + 1
    BY <1>4, <1>6, <2>2
  <2>3. QED
    BY <1>8, <2>1, <2>2
<1>10. Emitted' = Emitted \union {new[i] : i \in DOMAIN new}
  <2>1. Emitted' = UNION {{chain'[b][i] : i \in DOMAIN chain'[b]} : b \in 1 .. (n + 1)}
    BY <1>7 DEF Emitted
  <2>2. Emitted = UNION {{chain[b][i] : i \in DOMAIN chain[b]} : b \in 1 .. n}
    BY DEF Emitted, n
  <2>3. ASSUME NEW log \in Emitted'
        PROVE  log \in Emitted \union {new[i] : i \in DOMAIN new}
    <3>1. PICK b \in 1 .. (n + 1) : \E i \in DOMAIN chain'[b] : log = chain'[b][i]
      BY <2>1
    <3>2. CASE b \in 1 .. n
      <4>1. PICK i \in DOMAIN chain[b] : log = chain[b][i]
        BY <1>6, <3>1, <3>2
      <4>2. log \in {chain[b][j] : j \in DOMAIN chain[b]}
        BY <4>1
      <4>3. log \in Emitted
        BY <2>2, <3>2, <4>2
      <4>4. QED
        BY <4>3
    <3>3. CASE b = n + 1
      BY <1>6, <3>1, <3>3
    <3>4. QED
      BY <1>8, <3>2, <3>3
  <2>4. ASSUME NEW log \in Emitted PROVE log \in Emitted'
    <3>1. PICK b \in 1 .. n : \E i \in DOMAIN chain[b] : log = chain[b][i]
      BY <2>2
    <3>2. b \in 1 .. (n + 1) /\ chain'[b] = chain[b]
      BY <1>6, <1>8
    <3>3. QED
      BY <2>1, <3>1, <3>2
  <2>5. {new[i] : i \in DOMAIN new} \subseteq Emitted'
    <3>1. n + 1 \in 1 .. (n + 1)
      BY <1>1
    <3>2. QED
      BY <1>6, <2>1, <3>1
  <2>6. QED
    BY <2>3, <2>4, <2>5
<1>11. QED
  BY <1>5, <1>6, <1>7, <1>9, <1>10 DEF n, NewLogs

LEMMA NoLog == ASSUME NEW m PROVE NewLogs(m, <<>>) = {}
BY DEF NewLogs

LEMMA OneLog ==
  ASSUME NEW m, NEW p
  PROVE  /\ Len(<<p>>) = 1
         /\ NewLogs(m, <<p>>) = {[kind |-> p[1], market |-> m, arg |-> p[2],
                                  block |-> Height + 1, index |-> 1]}
BY DEF NewLogs

LEMMA TwoLogs ==
  ASSUME NEW m, NEW p, NEW q
  PROVE  NewLogs(m, <<p, q>>) =
           {[kind |-> p[1], market |-> m, arg |-> p[2], block |-> Height + 1, index |-> 1],
            [kind |-> q[1], market |-> m, arg |-> q[2], block |-> Height + 1, index |-> 2]}
<1>1. 1 .. 2 = {1, 2}
  OBVIOUS
<1>2. QED
  BY <1>1 DEF NewLogs

LEMMA Parts ==
  ASSUME NEW S, NEW s \in Seq(S), NEW p, NEW q, p \in S, q \in S, NEW m
  PROVE  /\ s \o <<p, q>> \in Seq(S)
         /\ Len(s) \in Nat
         /\ NewLogs(m, s \o <<p, q>>) = NewLogs(m, s) \union
           {[kind |-> p[1], market |-> m, arg |-> p[2],
             block |-> Height + 1, index |-> Len(s) + 1],
            [kind |-> q[1], market |-> m, arg |-> q[2],
             block |-> Height + 1, index |-> Len(s) + 2]}
<1> DEFINE n == Len(s)
           t == <<p, q>>
           u == s \o t
<1>0. t \in Seq(S) /\ Len(t) = 2 /\ t[1] = p /\ t[2] = q
  OBVIOUS
<1>1. n \in Nat /\ 1 .. (n + 2) = (1 .. n) \union {n + 1, n + 2}
  BY LenProperties
<1> HIDE DEF t
<1>2. Len(u) = n + 2 /\ u \in Seq(S)
  <2>1. Len(u) = n + Len(t) /\ u \in Seq(S)
    BY ConcatProperties, <1>0, Zenon
  <2>2. QED
    BY <2>1, <1>0
<1>3. \A i \in 1 .. (n + 2) : u[i] = IF i <= n THEN s[i] ELSE t[i - n]
  <2>1. \A i \in 1 .. (n + Len(t)) : u[i] = IF i <= n THEN s[i] ELSE t[i - n]
    BY ConcatProperties, <1>0, Zenon
  <2>2. QED
    BY <2>1, <1>0
<1> HIDE DEF n, u
<1>4. /\ \A i \in 1 .. n : u[i] = s[i]
      /\ u[n + 1] = p /\ u[n + 2] = q
  <2>1. \A i \in 1 .. n : u[i] = s[i]
    BY <1>1, <1>3
  <2>2. u[n + 1] = t[1] /\ u[n + 2] = t[2]
    BY <1>1, <1>3
  <2>3. QED
    BY <1>0, <2>1, <2>2
<1>5. NewLogs(m, u) = NewLogs(m, s) \union
           {[kind |-> p[1], market |-> m, arg |-> p[2],
             block |-> Height + 1, index |-> n + 1],
            [kind |-> q[1], market |-> m, arg |-> q[2],
             block |-> Height + 1, index |-> n + 2]}
  <2> DEFINE f(v, i) == [kind |-> v[i][1], market |-> m, arg |-> v[i][2],
                         block |-> Height + 1, index |-> i]
  <2>1. NewLogs(m, u) = {f(u, i) : i \in 1 .. (n+2)} /\ NewLogs(m, s) = {f(s, i) : i \in 1 .. n}
    BY <1>2 DEF NewLogs, n
  <2>2. \A i \in 1 .. n : f(u, i) = f(s, i)
    BY <1>4
  <2>3. /\ f(u, n+1) = [kind |-> p[1], market |-> m, arg |-> p[2],
                        block |-> Height + 1, index |-> n + 1]
        /\ f(u, n+2) = [kind |-> q[1], market |-> m, arg |-> q[2],
                        block |-> Height + 1, index |-> n + 2]
     BY <1>4
  <2> HIDE DEF f
  <2>4. QED
    BY <1>1, <2>1, <2>2, <2>3
<1>6. QED
  BY <1>0, <1>1, <1>2, <1>5 DEF u, t, n

LEMMA TransactionTells ==
  ASSUME ContractsOK, LogsPlaced, Transaction
  PROVE  /\ ContractsOK'
         /\ \E m \in Markets, logs \in Seq(LogKinds \X Args) :
              Mine(m, logs) /\ Tells(m, NewLogs(m, logs))
<1> DEFINE P == LogKinds \X Args
<1>1. Height \in Nat /\ NextBlock = Height + 1 /\ NextBlock \in Args
  BY DEF LogsPlaced, NextBlock, Height, Args
<1>2. PICK m \in Markets :
        \/ \E s \in Strategies : CreateMarket(m, s) \/ SetFeeStrategy(m, s)
        \/ \E fee \in SwapFees : Swap(m, fee)
        \/ \E amount \in RecordAmounts : RecordFee(m, amount)
        \/ SyncPool(m)
        \/ ClaimFees(m)
        \/ \E to \in Users : TransferPosition(m, to)
  BY DEF Transaction
<1>3. /\ \A k \in LogKinds, a \in Args : <<k, a>> \in P
      /\ Users \subseteq Args /\ Strategies \subseteq Args /\ SwapFees \subseteq Args
      /\ \A k \in Markets : fees[k] \in Args
  BY EventsAssumption DEF Args, ContractsOK
<1> HIDE DEF P
<1>4. ASSUME NEW s \in Strategies, CreateMarket(m, s)
      PROVE  /\ ContractsOK'
             /\ \E logs \in Seq(P) : Mine(m, logs) /\ Tells(m, NewLogs(m, logs))
  <2> DEFINE head == << <<"Sync", NextBlock>>, <<"NFTMint", owner[m]>> >>
             middle == IF s = CLAIM THEN <<>> ELSE StrategyLogs(s)
             front == head \o middle
             p == <<"MarketCreated", owner[m]>>
             q == <<"FactoryMarketCreated", owner[m]>>
             logs == front \o <<p, q>>
             n == Len(front)
             made == [kind |-> "MarketCreated", market |-> m, arg |-> owner[m],
                      block |-> Height + 1, index |-> n + 1]
             fact == [kind |-> "FactoryMarketCreated", market |-> m, arg |-> owner[m],
                      block |-> Height + 1, index |-> n + 2]
             Q == {"Sync", "NFTMint", "FeeStrategyUpdated", "NFTFeeStrategyUpdated"} \X Args
             R == {x \in Q : x[1] = "Sync" => x[2] = NextBlock}
  <2>1. /\ m \notin created /\ created' = created \union {m} /\ Mine(m, logs)
        /\ strategy' = [strategy EXCEPT ![m] = s] /\ UNCHANGED <<owner, fees, unreported>>
    BY <1>4 DEF CreateMarket
  <2>2. owner[m] \in Args /\ s \in Args
    BY <1>3 DEF ContractsOK
  <2>3. /\ <<"Sync", NextBlock>> \in R /\ <<"NFTMint", owner[m]>> \in R
        /\ <<"FeeStrategyUpdated", s>> \in R /\ <<"NFTFeeStrategyUpdated", s>> \in R
    BY <1>1, <2>2
  <2> HIDE DEF R
  <2>4. head \in Seq(R) /\ middle \in Seq(R)
    BY <2>3 DEF StrategyLogs
  <2> HIDE DEF head, middle
  <2>5. front \in Seq(R)
    BY <2>4
  <2> HIDE DEF front
  <2>6. front \in Seq(P) /\ p \in P /\ q \in P
    BY <1>3, <2>2, <2>5 DEF P, LogKinds, R
  <2>7. /\ logs \in Seq(P) /\ n \in Nat
        /\ NewLogs(m, logs) = NewLogs(m, front) \union {made, fact}
    BY <2>6, Parts
  <2>8. \A log \in NewLogs(m, front) :
          /\ log.kind \in {"Sync", "NFTMint", "FeeStrategyUpdated", "NFTFeeStrategyUpdated"}
          /\ log.kind = "Sync" => log.arg = Height + 1
    BY <1>1, <2>5 DEF NewLogs, R
  <2>9. ContractsOK'
    BY <2>1 DEF ContractsOK
  <2>10. made.index < fact.index
    BY <2>7
  <2> DEFINE N == NewLogs(m, logs)
  <2>11. \A log \in N : \/ log = made
                          \/ log = fact
                          \/ log.kind \in {"Sync", "NFTMint",
                                           "FeeStrategyUpdated", "NFTFeeStrategyUpdated"}
    BY <2>7, <2>8
  <2>12. \A log \in N : log.kind = "Sync" => log.arg = Height + 1
    BY <2>7, <2>8
  <2>13. made \in N /\ fact \in N /\ made.kind = "MarketCreated" /\ fact.kind = "FactoryMarketCreated"
    BY <2>7
  <2>14. \A k \in Markets \ {m} : strategy'[k] = strategy[k]
    BY <2>1 DEF ContractsOK
  <2> HIDE DEF logs, N, made, fact
  <2>15. Creates(m, N)
    BY <2>1, <2>10, <2>11, <2>13, <2>14 DEF Creates, FeeKinds
  <2>16. QED
    BY <2>1, <2>7, <2>9, <2>12, <2>15 DEF Tells, N
<1>5. ASSUME NEW s \in Strategies, SetFeeStrategy(m, s)
      PROVE  /\ ContractsOK'
             /\ \E logs \in Seq(P) : Mine(m, logs) /\ Tells(m, NewLogs(m, logs))
  <2>1. StrategyLogs(s) \in Seq(P)
    <3>1. /\ <<"FeeStrategyUpdated", s>> \in P /\ <<"NFTFeeStrategyUpdated", s>> \in P
      BY <1>3 DEF LogKinds
    <3>2. QED
      BY <3>1 DEF StrategyLogs
  <2>2. NewLogs(m, StrategyLogs(s)) =
           {[kind |-> "FeeStrategyUpdated", market |-> m, arg |-> s,
             block |-> Height + 1, index |-> 1],
            [kind |-> "NFTFeeStrategyUpdated", market |-> m, arg |-> s,
             block |-> Height + 1, index |-> 2]}
    BY TwoLogs DEF StrategyLogs
  <2>3. Tells(m, NewLogs(m, StrategyLogs(s)))
    BY <1>5, <2>2 DEF Tells, Chooses, StrategyKinds, SetFeeStrategy
  <2>4. QED
    BY <1>5, <2>1, <2>3 DEF SetFeeStrategy, ContractsOK
<1>6. ASSUME NEW fee \in SwapFees, Swap(m, fee)
      PROVE  /\ ContractsOK'
             /\ \E logs \in Seq(P) : Mine(m, logs) /\ Tells(m, NewLogs(m, logs))
  <2> DEFINE logs == << <<"Swap", fee>>, <<"Sync", NextBlock>> >>
  <2>1. logs \in Seq(P)
    BY <1>1, <1>3 DEF LogKinds
  <2>2. NewLogs(m, logs) =
           {[kind |-> "Swap", market |-> m, arg |-> fee, block |-> Height + 1, index |-> 1],
            [kind |-> "Sync", market |-> m, arg |-> Height + 1,
             block |-> Height + 1, index |-> 2]}
    BY TwoLogs, <1>1
  <2>3. /\ m \in created /\ created' = created /\ strategy' = strategy /\ owner' = owner
        /\ fees' = [fees EXCEPT ![m] = @ + fee] /\ Mine(m, logs) /\ fee \in Nat
        /\ unreported' = unreported
    BY <1>6, EventsAssumption DEF Swap
  <2>4. ContractsOK'
    BY <2>3 DEF ContractsOK
  <2> HIDE DEF logs
  <2>5. Tells(m, NewLogs(m, logs))
    BY <2>2, <2>3 DEF Tells, Trades
  <2>6. QED
    BY <2>1, <2>3, <2>4, <2>5
<1>7. ASSUME SyncPool(m)
      PROVE  /\ ContractsOK'
             /\ \E logs \in Seq(P) : Mine(m, logs) /\ Tells(m, NewLogs(m, logs))
  <2> DEFINE logs == << <<"Sync", NextBlock>> >>
  <2>1. logs \in Seq(P)
    BY <1>1, <1>3 DEF LogKinds
  <2>2. NewLogs(m, logs) =
           {[kind |-> "Sync", market |-> m, arg |-> Height + 1,
             block |-> Height + 1, index |-> 1]}
    BY OneLog, <1>1
  <2>3. Tells(m, NewLogs(m, logs))
    BY <1>7, <2>2 DEF Tells, Other, SyncPool
  <2>4. QED
    BY <1>7, <2>1, <2>3 DEF SyncPool, ContractsOK
<1>8. ASSUME ClaimFees(m)
      PROVE  /\ ContractsOK'
             /\ \E logs \in Seq(P) : Mine(m, logs) /\ Tells(m, NewLogs(m, logs))
  <2> DEFINE sync == IF strategy[m] = LP_REWARDS THEN << <<"Sync", NextBlock>> >> ELSE <<>>
             p == <<"FeeClaimed", fees[m]>>
             q == <<"FeesClaimed", fees[m]>>
             logs == sync \o <<p, q>>
  <2>1. sync \in Seq({x \in P : x[1] = "Sync" /\ x[2] = NextBlock})
    BY <1>1, <1>3 DEF LogKinds
  <2>2. /\ fees' = [fees EXCEPT ![m] = 0] /\ Mine(m, logs)
        /\ unreported' = [unreported EXCEPT ![m] = 0]
        /\ UNCHANGED <<created, owner, strategy>>
    BY <1>8 DEF ClaimFees
  <2>3. m \in created
    BY <1>8 DEF ClaimFees
  <2>4. p \in P /\ q \in P
    BY <1>3 DEF LogKinds
  <2> HIDE DEF sync
  <2>5. sync \in Seq(P)
    BY <2>1
  <2>6. /\ logs \in Seq(P)
        /\ NewLogs(m, logs) = NewLogs(m, sync) \union
             {[kind |-> "FeeClaimed", market |-> m, arg |-> fees[m],
               block |-> Height + 1, index |-> Len(sync) + 1],
              [kind |-> "FeesClaimed", market |-> m, arg |-> fees[m],
               block |-> Height + 1, index |-> Len(sync) + 2]}
    BY <2>4, <2>5, Parts
  <2>7. \A log \in NewLogs(m, sync) : log.kind = "Sync" /\ log.arg = Height + 1
    BY <1>1, <2>1 DEF NewLogs
  <2>8. ContractsOK'
    BY <2>2 DEF ContractsOK
  <2> HIDE DEF logs
  <2>9. Claims(m, NewLogs(m, logs))
    <3> DEFINE N == NewLogs(m, logs)
               claim == [kind |-> "FeeClaimed", market |-> m, arg |-> fees[m],
                         block |-> Height + 1, index |-> Len(sync) + 1]
    <3>1. claim \in N /\ claim.kind = "FeeClaimed"
      BY <2>6
    <3>2. \A log \in N : log.kind \in {"Sync", "FeeClaimed", "FeesClaimed"}
      BY <2>6, <2>7
    <3> HIDE DEF N, claim
    <3>3. QED
      BY <2>2, <3>1, <3>2 DEF Claims, N
  <2>10. \A log \in NewLogs(m, logs) : log.kind = "Sync" => log.arg = Height + 1
    BY <2>6, <2>7
  <2>11. QED
    BY <2>2, <2>3, <2>6, <2>8, <2>9, <2>10 DEF Tells
<1>9. ASSUME NEW to \in Users, TransferPosition(m, to)
      PROVE  /\ ContractsOK'
             /\ \E logs \in Seq(P) : Mine(m, logs) /\ Tells(m, NewLogs(m, logs))
  <2> DEFINE logs == << <<"NFTTransfer", to>> >>
  <2>1. logs \in Seq(P)
    BY <1>3 DEF LogKinds
  <2>2. NewLogs(m, logs) =
           {[kind |-> "NFTTransfer", market |-> m, arg |-> to,
             block |-> Height + 1, index |-> 1]}
    BY OneLog
  <2>3. Tells(m, NewLogs(m, logs))
    BY <1>9, <2>2 DEF Tells, Other, TransferPosition
  <2>4. QED
    BY <1>9, <2>1, <2>3 DEF TransferPosition, ContractsOK
<1>10. ASSUME NEW amount \in RecordAmounts, RecordFee(m, amount)
       PROVE  /\ ContractsOK'
              /\ \E logs \in Seq(P) : Mine(m, logs) /\ Tells(m, NewLogs(m, logs))
  <2>1. /\ amount \in Nat /\ Mine(m, <<>>)
        /\ fees' = [fees EXCEPT ![m] = @ + amount]
        /\ unreported' = [unreported EXCEPT ![m] = @ + amount]
        /\ UNCHANGED <<created, owner, strategy>>
    BY <1>10, EventsAssumption DEF RecordFee
  <2>2. ContractsOK'
    BY <2>1 DEF ContractsOK
  <2>3. Tells(m, NewLogs(m, <<>>))
    BY <2>1, NoLog DEF Tells, Records
  <2>4. <<>> \in Seq(P)
    OBVIOUS
  <2>5. QED
    BY <2>1, <2>2, <2>3, <2>4
<1>11. QED
  BY <1>2, <1>4, <1>5, <1>6, <1>7, <1>8, <1>9, <1>10 DEF P
(* Each log of the chain has its own place in one of the blocks.           *)
LEMMA EmittedFacts ==
  ASSUME LogsPlaced
  PROVE  /\ Height \in Nat
         /\ \A log \in Emitted : /\ log \in Logs /\ log.market \in Markets
                                 /\ log.kind \in LogKinds
                                 /\ log.block \in 1 .. Height /\ log.index \in Nat
         /\ \A log, other \in Emitted : Id(log) = Id(other) => log = other
<1>1. /\ Height \in Nat
      /\ \A b \in 1 .. Height : /\ chain[b] \in Seq(Logs)
                                /\ \A i \in DOMAIN chain[b] : chain[b][i] \in Logs
  BY DEF LogsPlaced, Height
<1>2. ASSUME NEW log \in Emitted
      PROVE  \E b \in 1 .. Height : \E i \in DOMAIN chain[b] :
               log = chain[b][i] /\ log.block = b /\ log.index = i
  <2>1. PICK b \in 1 .. Height : log \in {chain[b][i] : i \in DOMAIN chain[b]}
    BY DEF Emitted
  <2>2. QED
    BY <2>1 DEF LogsPlaced
<1>3. ASSUME NEW log \in Emitted
      PROVE  /\ log \in Logs /\ log.market \in Markets /\ log.kind \in LogKinds
             /\ log.block \in 1 .. Height /\ log.index \in Nat
  <2>1. log \in Logs /\ log.block \in 1 .. Height
    BY <1>1, <1>2
  <2>2. QED
    BY <2>1 DEF Logs
<1>4. ASSUME NEW log \in Emitted, NEW other \in Emitted, Id(log) = Id(other)
      PROVE  log = other
  <2>1. log.block = other.block /\ log.index = other.index
    BY <1>4 DEF Id
  <2>2. QED
    BY <1>2, <2>1
<1>5. QED
  BY <1>1, <1>3, <1>4

(* The blocks 1 .. to hold the logs with these block numbers.              *)
LEMMA LogsOfFacts ==
  ASSUME LogsPlaced, NEW kind, NEW m, NEW to \in 0 .. Height
  PROVE  LogsOf(kind, m, to) =
           {log \in Emitted : log.block <= to /\ log.kind = kind /\ log.market = m}
<1> DEFINE L == UNION {{chain[b][i] : i \in DOMAIN chain[b]} : b \in 1 .. to}
<1>1. Height \in Nat /\ 1 .. to \subseteq 1 .. Height
  BY EmittedFacts
<1>2. ASSUME NEW log \in L PROVE log \in Emitted /\ log.block <= to
  <2>1. PICK b \in 1 .. to : log \in {chain[b][i] : i \in DOMAIN chain[b]}
    OBVIOUS
  <2>2. log \in Emitted
    BY <1>1, <2>1 DEF Emitted
  <2>3. log.block = b
    BY <1>1, <2>1 DEF LogsPlaced
  <2>4. QED
    BY <2>2, <2>3
<1>3. ASSUME NEW log \in Emitted, log.block <= to PROVE log \in L
  <2>1. PICK b \in 1 .. Height : log \in {chain[b][i] : i \in DOMAIN chain[b]}
    BY DEF Emitted
  <2>2. log.block = b
    BY <2>1 DEF LogsPlaced
  <2>3. b \in 1 .. to
    BY <1>1, <1>3, <2>2
  <2>4. QED
    BY <2>1, <2>3
<1>4. LogsOf(kind, m, to) = {log \in L : log.kind = kind /\ log.market = m}
  BY DEF LogsOf
<1> HIDE DEF L
<1>5. QED
  BY <1>2, <1>3, <1>4

LEMMA EmittedFinite ==
  ASSUME LogsPlaced
  PROVE  IsFiniteSet(Emitted)
<1> DEFINE block(b) == {chain[b][i] : i \in DOMAIN chain[b]}
           blocks == {block(b) : b \in 1 .. Height}
<1>1. Height \in Nat /\ \A b \in 1 .. Height : chain[b] \in Seq(Logs)
  BY DEF LogsPlaced, Height
<1>2. ASSUME NEW b \in 1 .. Height PROVE IsFiniteSet(block(b))
  <2> DEFINE c == chain[b]
             f == [i \in DOMAIN c |-> c[i]]
  <2>1. Len(c) \in Nat /\ DOMAIN c = 1 .. Len(c)
    BY <1>1
  <2>2. f \in Surjection(DOMAIN c, block(b))
    BY DEF Surjection
  <2>3. IsFiniteSet(DOMAIN c)
    BY <2>1, FS_Interval
  <2> HIDE DEF block, f
  <2>4. QED
    BY <2>2, <2>3, FS_Surjection
<1>3. IsFiniteSet(blocks)
  <2> DEFINE f == [b \in 1 .. Height |-> block(b)]
  <2>1. f \in Surjection(1 .. Height, blocks)
    BY DEF Surjection
  <2>2. IsFiniteSet(1 .. Height)
    BY <1>1, FS_Interval
  <2> HIDE DEF f, blocks, block
  <2>3. QED
    BY <2>1, <2>2, FS_Surjection
<1>4. \A T \in blocks : IsFiniteSet(T)
  BY <1>2
<1> HIDE DEF blocks
<1>5. IsFiniteSet(UNION blocks)
  BY <1>3, <1>4, FS_UNION
<1>6. QED
  BY <1>5 DEF blocks, Emitted

(* How later logs change what is left to claim.                            *)
LEMMA OwedSame ==
  ASSUME NEW S, NEW N, NEW m,
         \A x \in N : x.market = m => x.kind \notin FeeKinds
  PROVE  Owed(S \union N, m) = Owed(S, m)
<1>1. Unclaimed(S \union N, m) = Unclaimed(S, m)
  BY DEF Unclaimed, FeeKinds
<1>2. Unclaimed(S, m) \subseteq S
  BY DEF Unclaimed
<1>3. QED
  BY <1>1, <1>2, TotalSame DEF Owed

LEMMA OwedClaimed ==
  ASSUME NEW S, NEW N, NEW m, NEW x \in N,
         x.market = m, x.kind \in {"FeeClaimed", "FeesClaimed"},
         \A y \in S : Before(y, x),
         \A y \in N : y.kind # "Swap"
  PROVE  Owed(S \union N, m) = 0
<1>1. Unclaimed(S \union N, m) = {}
  BY DEF Unclaimed
<1>2. QED
  BY <1>1, TotalEmpty DEF Owed

LEMMA OwedSwapped ==
  ASSUME NEW S, IsFiniteSet(S), NEW N, NEW m, NEW x \in N,
         x.market = m, x.kind = "Swap", x.arg \in Nat,
         \A y \in S : y.kind = "Swap" => y.arg \in Nat,
         \A y \in S : ~ Before(x, y) /\ y # x,
         \A y \in N : y # x => y.kind \notin FeeKinds
  PROVE  Owed(S \union N, m) = Owed(S, m) + x.arg
<1> DEFINE U == Unclaimed(S, m)
           f == [log \in S \union N |-> log.arg]
           g == [log \in S |-> log.arg]
<1>1. Unclaimed(S \union N, m) = U \union {x}
  BY DEF Unclaimed, FeeKinds
<1>2. U \subseteq S /\ x \notin U /\ \A y \in U : y.arg \in Nat
  BY DEF Unclaimed
<1>3. IsFiniteSet(U)
  BY <1>2, FS_Subset
<1>4. (\A y \in U \union {x} : f[y] \in Nat) /\ f[x] = x.arg /\ \A y \in U : f[y] = g[y]
  BY <1>2
<1> HIDE DEF U, f, g
<1>5. Total(f, U \union {x}) = Total(f, U) + x.arg
  BY <1>2, <1>3, <1>4, TotalAddElement
<1>6. Total(f, U) = Total(g, U)
  BY <1>4, TotalSame
<1>7. QED
  BY <1>1, <1>5, <1>6 DEF Owed, U, f, g

LEMMA OwedNat ==
  ASSUME NEW S, IsFiniteSet(S), NEW m,
         \A y \in S : y.kind = "Swap" => y.arg \in Nat
  PROVE  Owed(S, m) \in Nat
<1> DEFINE U == Unclaimed(S, m)
           f == [log \in S |-> log.arg]
<1>1. U \subseteq S /\ \A y \in U : y.arg \in Nat
  BY DEF Unclaimed
<1>2. IsFiniteSet(U)
  BY <1>1, FS_Subset
<1>3. \A y \in U : f[y] \in Nat
  BY <1>1
<1> HIDE DEF U, f
<1>4. Total(f, U) \in Nat
  BY <1>2, <1>3, TotalType
<1>5. QED
  BY <1>4 DEF Owed, U, f

(* A mined transaction, as the logs it adds.                               *)
LEMMA MinedLogs ==
  ASSUME ChainInv, Transaction
  PROVE  /\ ContractsOK' /\ LogsPlaced' /\ Height' = Height + 1
         /\ \E m \in Markets : \E New :
              /\ Tells(m, New) /\ Emitted' = Emitted \union New
              /\ \A log \in New : log.market = m /\ log.block = Height + 1
                                /\ log.index \in Nat
<1>1. ContractsOK /\ LogsPlaced
  BY DEF ChainInv
<1>2. ContractsOK'
  BY <1>1, TransactionTells
<1>3. PICK m \in Markets, logs \in Seq(LogKinds \X Args) :
        Mine(m, logs) /\ Tells(m, NewLogs(m, logs))
  BY <1>1, TransactionTells
<1>4. LogsPlaced' /\ Height' = Height + 1 /\ Emitted' = Emitted \union NewLogs(m, logs)
  BY <1>1, <1>3, MineAdds
<1>5. \A log \in NewLogs(m, logs) :
        log.market = m /\ log.block = Height + 1 /\ log.index \in Nat
  BY DEF NewLogs
<1>6. QED
  BY <1>2, <1>3, <1>4, <1>5

LEMMA TransactionKeepsChain ==
  ASSUME ChainInv, Transaction
  PROVE  /\ ChainInv'
         /\ Height' = Height + 1
         /\ Emitted \subseteq Emitted'
         /\ \A log \in Emitted' \ Emitted : log.block = Height + 1
<1>1. /\ ContractsOK /\ LogsPlaced /\ LogsInOrder /\ FeesReported /\ StrategyReported
      /\ Height \in Nat
      /\ \A l \in Emitted : l.block \in 1 .. Height /\ l.index \in Nat
                          /\ l.market \in Markets
      /\ IsFiniteSet(Emitted)
  BY EmittedFacts, EmittedFinite DEF ChainInv
<1>2. ContractsOK' /\ LogsPlaced' /\ Height' = Height + 1
  BY MinedLogs
<1>21. PICK m \in Markets : \E New :
        /\ Tells(m, New) /\ Emitted' = Emitted \union New
        /\ \A log \in New : log.market = m /\ log.block = Height + 1 /\ log.index \in Nat
  BY MinedLogs
<1>3. PICK New :
        /\ Tells(m, New) /\ Emitted' = Emitted \union New
        /\ \A log \in New : log.market = m /\ log.block = Height + 1 /\ log.index \in Nat
  BY <1>21
<1>4. created \subseteq created' /\ (New = {} \/ m \in created')
  BY <1>3 DEF Tells, Creates, Records
<1>5. \A log \in New : /\ log.kind = "Sync" => log.arg = log.block
                       /\ log.kind = "Swap" => log.arg \in Nat /\ m \in created
                       /\ log.kind \in {"MarketCreated",
                                        "FactoryMarketCreated"} => m \notin created
  BY <1>3 DEF Tells, Creates, Records, Trades, Claims, Chooses, Other, FeeKinds, StrategyKinds
<1>6. \A y \in Emitted, x \in New : Before(y, x) /\ ~ Before(x, y) /\ y # x
  BY <1>1, <1>3 DEF Before
<1>7. LogsInOrder'
  <2>1. \A log \in Emitted' : /\ log.market \in created'
                              /\ log.kind = "Sync" => log.arg = log.block
                              /\ log.kind = "Swap" => log.arg \in Nat
    BY <1>1, <1>3, <1>4, <1>5 DEF LogsInOrder
  <2>2. \A k \in created' : \E log \in Emitted' : log.kind = "MarketCreated" /\ log.market = k
    BY <1>1, <1>3 DEF LogsInOrder, Tells, Creates, Records
  <2>3. ASSUME NEW made \in Emitted', NEW log \in Emitted',
               made.kind = "MarketCreated", made.market = log.market
        PROVE  /\ log.kind = "MarketCreated" => log = made
               /\ log.kind = "FactoryMarketCreated" => Before(made, log)
               /\ log.kind \in FeeKinds => made.block < log.block
    <3>1. CASE made \in Emitted
      <4>1. made.market \in created
        BY <1>1, <3>1 DEF LogsInOrder
      <4>2. CASE log \in Emitted
        BY <1>1, <2>3, <3>1, <4>2 DEF LogsInOrder
      <4>3. CASE log \in New
        <5>1. log.market = m /\ m \in created
          BY <1>3, <2>3, <4>1, <4>3
        <5>2. log.kind \notin {"MarketCreated", "FactoryMarketCreated"}
          BY <1>5, <4>3, <5>1
        <5>3. made.block < log.block
          BY <1>1, <1>3, <3>1, <4>3
        <5>4. QED
          BY <5>2, <5>3
      <4>4. QED
        BY <1>3, <4>2, <4>3
    <3>2. CASE made \in New
      <4>1. m \notin created /\ made.market = m
        <5>1. made.market = m
          BY <1>3, <3>2
        <5>2. made.kind \in {"MarketCreated", "FactoryMarketCreated"}
          BY <2>3
        <5>3. QED
          BY <1>5, <3>2, <5>1, <5>2
      <4>2. log \in New
        BY <1>1, <1>3, <2>3, <4>1 DEF LogsInOrder
      <4>3. Creates(m, New)
        BY <1>3, <3>2, <4>1 DEF Tells, Records
      <4>4. PICK first, fact \in New :
              /\ first.index < fact.index
              /\ \A l \in New : /\ l.kind = "MarketCreated" => l = first
                                /\ l.kind = "FactoryMarketCreated" => l = fact
        BY <4>3 DEF Creates
      <4>5. made = first /\ (log.kind = "FactoryMarketCreated" => log = fact)
            /\ (log.kind = "MarketCreated" => log = first)
        BY <2>3, <3>2, <4>2, <4>4
      <4>6. log.kind \notin FeeKinds
        BY <4>2, <4>3 DEF Creates
      <4>7. first.index <= fact.index /\ first.block = fact.block
        BY <1>3, <4>4
      <4>8. QED
        BY <4>5, <4>6, <4>7 DEF Before
    <3>3. QED
      BY <1>3, <3>1, <3>2
  <2>4. \A made, log \in Emitted' : made.kind = "MarketCreated" /\ made.market = log.market =>
          /\ log.kind = "MarketCreated" => log = made
          /\ log.kind = "FactoryMarketCreated" => Before(made, log)
          /\ log.kind \in FeeKinds => made.block < log.block
    BY <2>3
  <2>5. QED
    BY <2>1, <2>2, <2>4 DEF LogsInOrder
<1>8. FeesReported'
  <2> SUFFICES ASSUME NEW k \in Markets PROVE fees'[k] = Owed(Emitted \union New, k) + unreported'[k]
    BY <1>3 DEF FeesReported
  <2>1. /\ fees[k] = Owed(Emitted, k) + unreported[k]
        /\ fees \in [Markets -> Nat] /\ unreported \in [Markets -> Nat]
    BY <1>1 DEF FeesReported, ContractsOK
  <2>11. Owed(Emitted, k) \in Nat
    BY <1>1, OwedNat DEF LogsInOrder
  <2>2. CASE k # m
    <3>1. fees'[k] = fees[k] /\ unreported'[k] = unreported[k]
      BY <1>3, <2>1, <2>2 DEF Tells, Creates, Records, Trades, Claims, Chooses, Other
    <3>2. \A x \in New : x.market # k
      BY <1>3, <2>2
    <3>3. Owed(Emitted \union New, k) = Owed(Emitted, k)
      BY <3>2, OwedSame
    <3>4. QED
      BY <2>1, <3>1, <3>3
  <2>3. CASE k = m /\ (Creates(m, New) \/ Chooses(m, New) \/ Other(m, New))
    <3>1. fees' = fees /\ unreported' = unreported /\ \A x \in New : x.kind \notin FeeKinds
      BY <2>3 DEF Creates, Chooses, Other, FeeKinds, StrategyKinds
    <3>2. QED
      BY <2>1, <3>1, OwedSame
  <2>4. CASE k = m /\ Claims(m, New)
    <3>1. PICK claim \in New : claim.kind = "FeeClaimed"
      BY <2>4 DEF Claims
    <3>2. \A y \in New : y.kind # "Swap"
      BY <2>4 DEF Claims
    <3>3. fees'[k] = 0 /\ unreported'[k] = 0
      BY <2>1, <2>4 DEF Claims
    <3>4. claim.market = m /\ \A y \in Emitted : Before(y, claim)
      BY <1>3, <1>6, <3>1
    <3>5. Owed(Emitted \union New, m) = 0
      BY <3>1, <3>2, <3>4, OwedClaimed
    <3>6. QED
      BY <2>4, <3>3, <3>5
  <2>5. CASE k = m /\ Trades(m, New)
    <3>1. PICK swap \in New : /\ swap.kind = "Swap" /\ swap.arg \in Nat
                             /\ fees' = [fees EXCEPT ![m] = @ + swap.arg]
                             /\ unreported' = unreported
                             /\ \A log \in New : log = swap \/ log.kind = "Sync"
      BY <2>5 DEF Trades
    <3>2. \A y \in New : y # swap => y.kind \notin FeeKinds
      BY <3>1 DEF FeeKinds
    <3>3. \A y \in Emitted : y.kind = "Swap" => y.arg \in Nat
      BY <1>1 DEF LogsInOrder
    <3>4. swap.market = m /\ \A y \in Emitted : ~ Before(swap, y) /\ y # swap
      BY <1>3, <1>6, <3>1
    <3>5. swap.kind = "Swap" /\ swap.arg \in Nat /\ IsFiniteSet(Emitted)
      BY <1>1, <3>1
    <3>6. Owed(Emitted \union New, m) = Owed(Emitted, m) + swap.arg
      BY <3>2, <3>3, <3>4, <3>5, OwedSwapped
    <3>7. QED
      BY <2>1, <2>11, <2>5, <3>1, <3>6
  <2>6. CASE k = m /\ Records(m, New)
    <3>1. PICK amount \in Nat : /\ fees' = [fees EXCEPT ![m] = @ + amount]
                               /\ unreported' = [unreported EXCEPT ![m] = @ + amount]
      BY <2>6 DEF Records
    <3>2. Emitted \union New = Emitted
      BY <2>6 DEF Records
    <3>3. Owed(Emitted \union New, k) = Owed(Emitted, k)
      BY <3>2
    <3>4. fees'[k] = fees[k] + amount /\ unreported'[k] = unreported[k] + amount
      BY <2>1, <2>6, <3>1
    <3>5. amount \in Nat /\ unreported[k] \in Nat
      BY <2>1
    <3>6. QED
      BY <2>1, <2>11, <3>3, <3>4, <3>5
  <2>7. QED
    BY <1>3, <2>2, <2>3, <2>4, <2>5, <2>6 DEF Tells
<1>9. StrategyReported'
  <2> SUFFICES ASSUME NEW k \in Markets, NEW log \in Choices(k)', NEW made \in Emitted',
                      made.kind = "MarketCreated", made.market = k, made.block < log.block
               PROVE  \E last \in Choices(k)' :
                        /\ log.block <= last.block
                        /\ \A other \in Choices(k)' :
                             /\ other.block <= last.block
                             /\ other.block = last.block => other.arg = strategy'[k]
    BY DEF StrategyReported
  <2>1. /\ \A l \in Emitted' : l.block \in Nat /\ l.block <= Height + 1
        /\ Choices(k)' = {l \in Emitted \union New : l.kind \in StrategyKinds /\ l.market = k}
    BY <1>1, <1>3 DEF Choices
  <2>2. CASE \A l \in New : l.kind \in StrategyKinds => l.market # k
    <3>1. Choices(k)' = Choices(k) /\ log \in Emitted
      BY <2>1, <2>2 DEF Choices
    <3>2. made \in Emitted
      BY <1>1, <1>3, <2>1, <3>1
    <3>3. k \in created
      BY <1>1, <3>2 DEF LogsInOrder
    <3>4. strategy'[k] = strategy[k]
      <4>1. CASE Chooses(m, New)
        BY <1>1, <1>3, <2>2, <4>1 DEF Chooses, ContractsOK
      <4>2. CASE ~ Chooses(m, New)
        BY <1>3, <3>3, <4>2 DEF Tells, Creates, Records, Trades, Claims, Other
      <4>3. QED
        BY <4>1, <4>2
    <3>5. QED
      BY <1>1, <3>1, <3>2, <3>4 DEF StrategyReported
  <2>3. CASE \E l \in New : l.kind \in StrategyKinds /\ l.market = k
    <3>1. PICK last \in New : last.kind \in StrategyKinds /\ last.market = k
      BY <2>3
    <3>2. k = m /\ last.block = Height + 1 /\ last \in Choices(k)'
      BY <1>3, <2>1, <3>1
    <3>3. CASE Chooses(m, New)
      <4>1. \A l \in New : l.arg = strategy'[k]
        <5>1. strategy \in [Markets -> Strategies \union {CLAIM}]
          BY <1>1 DEF ContractsOK
        <5>2. \A l \in New : strategy' = [strategy EXCEPT ![m] = l.arg]
          BY <3>3 DEF Chooses
        <5>3. QED
          BY <3>2, <5>1, <5>2
      <4>2. ASSUME NEW l \in Choices(k)'
            PROVE  l.block <= last.block /\ (l.block = last.block => l \in New)
        <5>1. CASE l \in Emitted
          <6>1. l.block \in 1 .. Height
            BY <1>1, <5>1
          <6>2. QED
            BY <1>1, <3>2, <6>1
        <5>2. CASE l \in New
          BY <1>1, <1>3, <3>2, <5>2
        <5>3. QED
          BY <2>1, <5>1, <5>2
      <4>3. log.block <= last.block
        BY <4>2
      <4>4. QED
        BY <3>2, <4>1, <4>2, <4>3
    <3>4. CASE Creates(m, New)
      <4>1. \A l \in Emitted : l.market # k
        BY <1>1, <3>2, <3>4 DEF LogsInOrder, Creates
      <4>2. made.block = Height + 1 /\ log.block = Height + 1
        BY <1>3, <2>1, <4>1
      <4>3. QED
        BY <1>1, <4>2
    <3>5. QED
      BY <1>3, <3>1, <3>3, <3>4 DEF Tells, Records, Trades, Claims, Other, StrategyKinds
  <2>4. QED
    BY <2>2, <2>3
<1>10. QED
  BY <1>2, <1>3, <1>7, <1>8, <1>9 DEF ChainInv

-----------------------------------------------------------------------------
(* The statements.                                                         *)

(* What no statement may do to the tables: lose a row, lower a counter, or *)
(* write reserves other than those of the log being handled.               *)
Grows(d, e, log) ==
  /\ TablesOK(e)
  /\ e.lastBlock = d.lastBlock
  /\ d.markets \subseteq e.markets
  /\ d.nfts \subseteq e.nfts
  /\ d.tracked \subseteq e.tracked
  /\ d.swapRows \subseteq e.swapRows
  /\ \A m \in Markets : /\ d.swapCount[m] <= e.swapCount[m]
                        /\ e.reserves[m] \in {d.reserves[m], log.block}

(* A log as the chain holds it, with the argument a Sync has.              *)
LEMMA AfterGrows ==
  ASSUME NEW d, TablesOK(d), NEW log \in Logs, NEW st \in Statements,
         st = "SetReserves" => log.arg = log.block
  PROVE  Grows(d, After(d, st, log), log)
<1> DEFINE m == log.market
<1>1. m \in Markets /\ log.block \in Nat
  BY DEF Logs
<1>2. /\ DOMAIN d = Columns /\ d.lastBlock \in Nat
      /\ d.swapCount \in [Markets -> Nat] /\ d.reserves \in [Markets -> Nat]
  BY DEF TablesOK
<1>3. ASSUME NEW e, DOMAIN e = Columns, e.lastBlock = d.lastBlock,
             e.swapCount = d.swapCount, e.reserves = d.reserves,
             d.markets \subseteq e.markets, d.nfts \subseteq e.nfts,
             d.tracked \subseteq e.tracked,
             d.swapRows \subseteq e.swapRows
      PROVE  Grows(d, e, log)
  BY <1>2, <1>3 DEF Grows, TablesOK
<1>4. CASE st = "InsertMarket"
  <2>1. After(d, st, log) = InsertMarket(d, log)
    BY <1>4 DEF After
  <2>2. CASE m \in d.markets
    BY <1>2, <1>3, <2>1, <2>2 DEF InsertMarket
  <2>3. CASE m \notin d.markets
    <3> DEFINE e == [d EXCEPT !.markets = @ \union {m}, !.reserves[m] = log.block]
    <3>1. /\ DOMAIN e = Columns /\ e.lastBlock = d.lastBlock
          /\ e.swapCount = d.swapCount
          /\ e.reserves = [d.reserves EXCEPT ![m] = log.block]
          /\ d.markets \subseteq e.markets /\ e.tracked = d.tracked /\ e.nfts = d.nfts
          /\ e.swapRows = d.swapRows
      BY <1>2 DEF Columns
    <3>2. InsertMarket(d, log) = e
      BY <2>3 DEF InsertMarket
    <3> HIDE DEF e, m
    <3>3. Grows(d, e, log)
      BY <1>1, <1>2, <3>1 DEF Grows, TablesOK
    <3>4. QED
      BY <2>1, <3>2, <3>3
  <2>4. QED
    BY <2>2, <2>3
<1>5. CASE st = "TrackPool"
  <2> DEFINE e == TrackPool(d, log)
  <2>1. /\ DOMAIN e = Columns /\ e.lastBlock = d.lastBlock
        /\ e.swapCount = d.swapCount /\ e.reserves = d.reserves
        /\ e.markets = d.markets /\ d.tracked \subseteq e.tracked /\ e.nfts = d.nfts
        /\ e.swapRows = d.swapRows
    BY <1>2 DEF Columns, TrackPool
  <2>2. After(d, st, log) = e
    BY <1>5 DEF After
  <2> HIDE DEF e
  <2>3. QED
    BY <1>3, <2>1, <2>2
<1>6. CASE st = "InsertSwap"
  <2> DEFINE e == InsertSwap(d, log)
  <2>1. /\ DOMAIN e = Columns /\ e.lastBlock = d.lastBlock
        /\ e.swapCount = d.swapCount /\ e.reserves = d.reserves
        /\ e.markets = d.markets /\ e.tracked = d.tracked /\ e.nfts = d.nfts
        /\ d.swapRows \subseteq e.swapRows
    BY <1>2 DEF Columns, InsertSwap
  <2>2. After(d, st, log) = e
    BY <1>6 DEF After
  <2> HIDE DEF e
  <2>3. QED
    BY <1>3, <2>1, <2>2
<1>7. CASE st = "UpdateMarket"
  <2> DEFINE e == UpdateMarket(d, log)
  <2>1. /\ DOMAIN e = Columns /\ e.lastBlock = d.lastBlock
        /\ e.swapCount = [d.swapCount EXCEPT ![m] = @ + 1]
        /\ e.reserves = [d.reserves EXCEPT ![m] = log.block]
        /\ e.markets = d.markets /\ e.tracked = d.tracked /\ e.nfts = d.nfts
        /\ e.swapRows = d.swapRows
    BY <1>2 DEF Columns, UpdateMarket
  <2>2. After(d, st, log) = e
    BY <1>7 DEF After
  <2> HIDE DEF e, m
  <2>3. Grows(d, e, log)
    BY <1>1, <1>2, <2>1 DEF Grows, TablesOK
  <2>4. QED
    BY <2>2, <2>3
<1>8. CASE st = "SetReserves"
  <2> DEFINE e == SetReserves(d, log)
  <2>1. /\ DOMAIN e = Columns /\ e.lastBlock = d.lastBlock
        /\ e.swapCount = d.swapCount
        /\ e.reserves = [d.reserves EXCEPT ![m] = log.block]
        /\ e.markets = d.markets /\ e.tracked = d.tracked /\ e.nfts = d.nfts
        /\ e.swapRows = d.swapRows
    BY <1>2, <1>8 DEF Columns, SetReserves
  <2>2. After(d, st, log) = e
    BY <1>8 DEF After
  <2> HIDE DEF e, m
  <2>3. Grows(d, e, log)
    BY <1>1, <1>2, <2>1 DEF Grows, TablesOK
  <2>4. QED
    BY <2>2, <2>3
<1>9. CASE st \notin {"InsertMarket", "TrackPool",
                      "InsertSwap", "UpdateMarket", "SetReserves"}
  <2> DEFINE Same(e) == /\ DOMAIN e = Columns /\ e.lastBlock = d.lastBlock
                        /\ e.swapCount = d.swapCount /\ e.reserves = d.reserves
                        /\ e.markets = d.markets /\ e.tracked = d.tracked
                        /\ d.nfts \subseteq e.nfts /\ e.swapRows = d.swapRows
  <2>1. ASSUME NEW e, Same(e) PROVE Grows(d, e, log)
    BY <1>3, <2>1
  <2>2. Same(CountCreator(d, log))
    BY <1>2 DEF Columns, CountCreator
  <2>3. Same(CountMarket(d, log))
    BY <1>2 DEF Columns, CountMarket
  <2>4. Same(CountSwap(d, log))
    BY <1>2 DEF Columns, CountSwap
  <2>5. Same(InsertClaim(d, log))
    BY <1>2 DEF Columns, InsertClaim
  <2>6. Same(InsertChange(d, log))
    BY <1>2 DEF Columns, InsertChange
  <2>7. Same(InsertTransfer(d, log))
    BY <1>2 DEF Columns, InsertTransfer
  <2>8. Same(ApplyClaim(d, log))
    BY <1>2 DEF Columns, ApplyClaim
  <2>9. Same(ApplyStrategy(d, log))
    BY <1>2 DEF Columns, ApplyStrategy
  <2>10. Same(SetOwner(d, log))
    BY <1>2 DEF Columns, SetOwner
  <2>11. Same(InsertNFT(d, log))
    BY <1>2 DEF Columns, InsertNFT
  <2>12. Same(AddPending(d, log))
    BY <1>2 DEF Columns, AddPending
  <2>13. \/ After(d, st, log) \in {CountCreator(d, log), CountMarket(d, log), CountSwap(d, log),
                                    InsertClaim(d, log), InsertChange(d, log), InsertTransfer(d, log)}
        \/ After(d, st, log) \in {ApplyClaim(d, log), ApplyStrategy(d, log), SetOwner(d, log),
                                    InsertNFT(d, log), AddPending(d, log)}
    BY <1>9 DEF Statements, After
  <2> HIDE DEF Same
  <2>14. QED
    BY <2>1, <2>2, <2>3, <2>4, <2>5, <2>6, <2>7, <2>8, <2>9, <2>10, <2>11, <2>12, <2>13
<1>10. QED
  BY <1>4, <1>5, <1>6, <1>7, <1>8, <1>9

(* What the statements the properties rest on do.                          *)
LEMMA AfterWrites ==
  ASSUME NEW d, TablesOK(d), NEW log \in Logs
  PROVE  /\ log.market \in After(d, "InsertMarket", log).markets
         /\ log.market \in After(d, "InsertNFT", log).nfts
         /\ log.market \in After(d, "TrackPool", log).tracked
         /\ Id(log) \in After(d, "InsertSwap", log).swapRows
         /\ After(d, "UpdateMarket", log).swapCount[log.market]
              = d.swapCount[log.market] + 1
         /\ After(d, "UpdateMarket", log).reserves[log.market] = log.block
<1>1. /\ log.market \in Markets /\ log.block \in Nat
      /\ DOMAIN d = Columns
      /\ d.swapCount \in [Markets -> Nat] /\ d.reserves \in [Markets -> Nat]
  BY DEF TablesOK, Logs
<1>2. log.market \in InsertMarket(d, log).markets
  BY <1>1 DEF InsertMarket, Columns
<1>3. log.market \in TrackPool(d, log).tracked /\ log.market \in InsertNFT(d, log).nfts
  BY <1>1 DEF TrackPool, InsertNFT, Columns
<1>4. Id(log) \in InsertSwap(d, log).swapRows
  BY <1>1 DEF InsertSwap, Columns
<1>5. /\ UpdateMarket(d, log).swapCount[log.market] = d.swapCount[log.market] + 1
      /\ UpdateMarket(d, log).reserves[log.market] = log.block
  BY <1>1 DEF UpdateMarket, Columns
<1>6. QED
  BY <1>2, <1>3, <1>4, <1>5 DEF After

-----------------------------------------------------------------------------
(* The steps.                                                              *)

LEMMA CreationLostFacts ==
  LogsPlaced => \A m \in Markets :
    CreationLost(m) <=> \E log \in Emitted : /\ log.kind = "MarketCreated"
                                             /\ log.market = m
                                             /\ Id(log) \in lost
<1> SUFFICES ASSUME LogsPlaced, NEW m \in Markets
             PROVE  CreationLost(m) <=>
                      \E log \in Emitted : /\ log.kind = "MarketCreated"
                                           /\ log.market = m
                                           /\ Id(log) \in lost
  OBVIOUS
<1>1. Height \in 0 .. Height /\ \A log \in Emitted : log.block <= Height
  BY EmittedFacts
<1>2. LogsOf("MarketCreated", m, Height)
        = {log \in Emitted : log.kind = "MarketCreated" /\ log.market = m}
  BY <1>1, LogsOfFacts
<1>3. QED
  BY <1>2 DEF CreationLost

LEMMA CreationLostNext ==
  ASSUME LogsPlaced'
  PROVE  \A m \in Markets :
           CreationLost(m)' <=> \E log \in Emitted' : /\ log.kind = "MarketCreated"
                                                      /\ log.market = m
                                                      /\ Id(log) \in lost'
<1>1. (LogsPlaced => \A m \in Markets :
        CreationLost(m) <=> \E log \in Emitted : /\ log.kind = "MarketCreated"
                                                 /\ log.market = m
                                                 /\ Id(log) \in lost)'
  BY CreationLostFacts, PTL
<1>2. QED
  BY <1>1

LEMMA ChainSame ==
  ASSUME ChainInv, UNCHANGED chainVars
  PROVE  ChainInv' /\ Emitted' = Emitted /\ Height' = Height
<1>1. /\ chain' = chain /\ created' = created /\ owner' = owner
      /\ strategy' = strategy /\ fees' = fees /\ unreported' = unreported
  BY DEF chainVars, contracts
<1>2. Emitted' = Emitted /\ Height' = Height
  BY <1>1 DEF Emitted, Height
<1>3. ContractsOK'
  BY <1>1 DEF ChainInv, ContractsOK
<1>4. LogsPlaced'
  BY <1>1, <1>2 DEF ChainInv, LogsPlaced
<1>5. LogsInOrder'
  BY <1>1, <1>2 DEF ChainInv, LogsInOrder
<1>6. FeesReported' /\ StrategyReported'
  BY <1>1, <1>2 DEF ChainInv, FeesReported, StrategyReported, Choices
<1>7. QED
  BY <1>2, <1>3, <1>4, <1>5, <1>6 DEF ChainInv

LEMMA PassedFacts ==
  ASSUME LogsPlaced
  PROVE  /\ Passed \subseteq Emitted
         /\ \A m : Counted(m) \subseteq Emitted /\ IsFiniteSet(Counted(m))
<1>1. Passed \subseteq Emitted
  BY DEF Passed
<1>2. \A m : Counted(m) \subseteq Emitted
  BY <1>1 DEF Counted
<1>3. QED
  BY <1>1, <1>2, EmittedFinite, FS_Subset

(* A step that passes no log and writes none of the columns, and gives up  *)
(* no statement of a passed log without noting it as lost.                 *)
LEMMA Carried ==
  ASSUME ChainInv, ChainInv', TablesOK(db), CreationsInv, SwapsInv, CountsInv,
         Emitted \subseteq Emitted', lost \subseteq lost', Passed' \subseteq Passed,
         db'.markets = db.markets, db'.nfts = db.nfts, db'.tracked = db.tracked,
         db'.swapRows = db.swapRows, db'.swapCount = db.swapCount,
         db'.reserves = db.reserves,
         \A log \in Passed' : \A st \in Statements :
           ToRun(log, st) => Id(log) \in lost' \/ (current' = log /\ st \in Range(todo'))
  PROVE  CreationsInv' /\ SwapsInv' /\ CountsInv'
<1>1. \A m \in Markets : CreationLost(m) => CreationLost(m)'
  <2>1. /\ LogsPlaced /\ LogsPlaced'
    BY DEF ChainInv
  <2>2. QED
    BY <2>1, CreationLostFacts, CreationLostNext
<1>2. \A log \in Passed' : \A st \in Statements : ToRun(log, st) =>
        Id(log) \in lost' \/ ToRun(log, st)'
  BY DEF ToRun
<1>3. {"InsertMarket", "InsertNFT", "TrackPool", "InsertSwap", "UpdateMarket"}
        \subseteq Statements
  BY DEF Statements
<1>4. Passed' \subseteq Emitted /\ \A log \in Emitted : log.market \in Markets
  BY PassedFacts, EmittedFacts DEF ChainInv
<1>5. CreationsInv'
  BY <1>2, <1>3 DEF CreationsInv
<1>6. SwapsInv'
  BY <1>1, <1>2, <1>3, <1>4 DEF SwapsInv
<1>7. CountsInv'
  <2> SUFFICES ASSUME NEW m \in Markets, ~ CreationLost(m)'
               PROVE  Cardinality(Counted(m)') <= db'.swapCount[m]
    BY DEF CountsInv
  <2>1. Counted(m)' \subseteq Counted(m)
    BY <1>2, <1>3 DEF Counted
  <2>2. Cardinality(Counted(m)') <= Cardinality(Counted(m))
    BY <2>1, PassedFacts, FS_Subset DEF ChainInv
  <2>3. Cardinality(Counted(m)) <= db.swapCount[m]
    BY <1>1 DEF CountsInv
  <2>4. /\ Cardinality(Counted(m)) \in Nat /\ Cardinality(Counted(m)') \in Nat
        /\ db.swapCount[m] \in Nat
    BY <2>1, PassedFacts, FS_Subset, FS_CardinalityType DEF ChainInv, TablesOK
  <2>5. QED
    BY <2>2, <2>3, <2>4
<1>8. QED
  BY <1>5, <1>6, <1>7

LEMMA FetchedFacts ==
  ASSUME LogsPlaced, NEW from \in Nat \ {0}, NEW to \in Nat, to <= Height
  PROVE  Fetched(from, to) =
           {log \in Emitted : /\ from <= log.block /\ log.block <= to
                              /\ log.kind = "Sync" => log.market \in db.tracked}
<1> DEFINE L == UNION {{chain[b][i] : i \in DOMAIN chain[b]} : b \in from .. to}
<1>1. Height \in Nat /\ from .. to \subseteq 1 .. Height
  BY EmittedFacts
<1>2. ASSUME NEW log \in L PROVE log \in Emitted /\ from <= log.block /\ log.block <= to
  <2>1. PICK b \in from .. to : log \in {chain[b][i] : i \in DOMAIN chain[b]}
    OBVIOUS
  <2>2. log \in Emitted
    BY <1>1, <2>1 DEF Emitted
  <2>3. log.block = b
    BY <1>1, <2>1 DEF LogsPlaced
  <2>4. QED
    BY <2>2, <2>3
<1>3. ASSUME NEW log \in Emitted, from <= log.block, log.block <= to PROVE log \in L
  <2>1. PICK b \in 1 .. Height : log \in {chain[b][i] : i \in DOMAIN chain[b]}
    BY DEF Emitted
  <2>2. log.block = b
    BY <2>1 DEF LogsPlaced
  <2>3. b \in from .. to
    BY <1>1, <1>3, <2>2
  <2>4. QED
    BY <2>1, <2>3
<1>4. Fetched(from, to) = {log \in L : log.kind = "Sync" => log.market \in db.tracked}
  BY DEF Fetched
<1> HIDE DEF L
<1>5. QED
  BY <1>2, <1>3, <1>4

(* Blocks are numbered from 1, whatever the checkpoint.                    *)
LEMMA LoopFacts ==
  ASSUME ChainInv, LoopInv
  PROVE  /\ Height \in Nat /\ db.lastBlock \in Nat /\ toBlock \in Nat
         /\ db.lastBlock <= Height /\ toBlock <= Height
         /\ \A log \in Emitted : log.block \in 1 .. Height /\ log.index \in Nat
         /\ toBlock = 0 => Passed = {log \in Emitted : /\ log.kind # "Sync"
                                                     /\ log.block <= db.lastBlock}
<1>1. /\ Height \in Nat /\ db.lastBlock \in Nat /\ toBlock \in Nat
      /\ \A log \in Emitted : log.block \in 1 .. Height /\ log.index \in Nat
  BY EmittedFacts DEF ChainInv, LoopInv, TablesOK
<1>2. db.lastBlock <= Height /\ toBlock <= Height
  BY <1>1 DEF LoopInv
<1>3. toBlock = 0 => Passed = {log \in Emitted : /\ log.kind # "Sync"
                                                /\ log.block <= db.lastBlock}
  BY <1>1 DEF Passed
<1>4. QED
  BY <1>1, <1>2, <1>3

LEMMA InitInv == Init => Inv
<1> SUFFICES ASSUME Init PROVE Inv
  OBVIOUS
<1>1. chain = <<>> /\ Height = 0
  BY DEF Init, EventsInit, Height
<1>2. Emitted = {}
  <2>1. 1 .. Height = {}
    BY <1>1
  <2>2. QED
    BY <2>1 DEF Emitted
<1>3. LogsPlaced
  BY <1>1 DEF LogsPlaced
<1>4. LogsInOrder
  BY <1>2 DEF LogsInOrder, Init, EventsInit
<1>5. ContractsOK
  BY DEF ContractsOK, Init, EventsInit
<1>6. TablesOK(db)
  BY DEF TablesOK, Columns, Init, Zeros
<1>7. Passed = {}
  BY <1>2 DEF Passed
<1>8. LoopInv
  BY <1>1, <1>6, <1>7 DEF LoopInv, Init
<1>9. CreationsInv /\ SwapsInv
  BY <1>7 DEF CreationsInv, SwapsInv
<1>10. CountsInv
  <2>1. \A m : Counted(m) = {}
    BY <1>7 DEF Counted
  <2>2. QED
    BY <1>6, <2>1, FS_EmptySet DEF CountsInv, TablesOK
<1>11. FeesReported
  <2>1. \A m : Unclaimed(Emitted, m) = {}
    BY <1>2 DEF Unclaimed
  <2>2. \A m : Owed(Emitted, m) = 0
    BY <2>1, TotalEmpty DEF Owed
  <2>3. QED
    BY <2>2 DEF FeesReported, Init, EventsInit
<1>12. StrategyReported
  BY <1>2 DEF StrategyReported
<1>13. QED
  BY <1>3, <1>4, <1>5, <1>8, <1>9, <1>10, <1>11, <1>12 DEF Inv, ChainInv

LEMMA MinedKeepsInv ==
  ASSUME Inv, Mined
  PROVE  Inv' /\ Passed' = Passed
<1>1. /\ Transaction /\ db' = db /\ toBlock' = toBlock /\ batch' = batch
      /\ current' = current /\ todo' = todo /\ lost' = lost
  BY DEF Mined, loopVars, faultVars
<1>2. /\ ChainInv' /\ Height' = Height + 1 /\ Emitted \subseteq Emitted'
      /\ \A log \in Emitted' \ Emitted : log.block = Height + 1
  BY <1>1, TransactionKeepsChain DEF Inv
<1>3. /\ Height \in Nat /\ db.lastBlock \in Nat /\ toBlock \in Nat
      /\ db.lastBlock <= Height /\ toBlock <= Height
  BY LoopFacts DEF Inv
<1>4. Passed' = Passed
  BY <1>1, <1>2, <1>3 DEF Passed
<1>5. LoopInv'
  BY <1>1, <1>2, <1>3, <1>4 DEF Inv, LoopInv
<1>6. CreationsInv' /\ SwapsInv' /\ CountsInv'
  BY <1>1, <1>2, <1>4, Carried DEF Inv, LoopInv, ToRun
<1>7. QED
  BY <1>2, <1>4, <1>5, <1>6 DEF Inv

LEMMA StutterKeepsInv ==
  ASSUME Inv, UNCHANGED vars
  PROVE  Inv' /\ Passed' = Passed
<1>1. /\ UNCHANGED chainVars /\ db' = db /\ toBlock' = toBlock /\ batch' = batch
      /\ current' = current /\ todo' = todo /\ lost' = lost
  BY DEF vars, loopVars, faultVars
<1>2. ChainInv' /\ Emitted' = Emitted /\ Height' = Height
  BY <1>1, ChainSame DEF Inv
<1>3. Passed' = Passed
  BY <1>1, <1>2 DEF Passed
<1>4. LoopInv'
  BY <1>1, <1>2, <1>3 DEF Inv, LoopInv
<1>5. CreationsInv' /\ SwapsInv' /\ CountsInv'
  BY <1>1, <1>2, <1>3, Carried DEF Inv, LoopInv, ToRun
<1>6. QED
  BY <1>2, <1>3, <1>4, <1>5 DEF Inv

LEMMA StartBatchKeepsInv ==
  ASSUME Inv, StartBatch
  PROVE  Inv' /\ Passed' = Passed
<1> DEFINE from == db.lastBlock + 1
           to == BatchEnd(from)
<1>1. /\ toBlock = 0 /\ from <= Height
      /\ toBlock' = to /\ batch' = Fetched(from, to)
      /\ UNCHANGED chainVars /\ db' = db /\ current' = current /\ todo' = todo
      /\ lost' = lost
  BY DEF StartBatch, faultVars
<1>2. /\ Height \in Nat /\ db.lastBlock \in Nat
      /\ \A log \in Emitted : log.block \in 1 .. Height /\ log.index \in Nat
      /\ Passed = {log \in Emitted : log.kind # "Sync" /\ log.block <= db.lastBlock}
  BY <1>1, LoopFacts DEF Inv
<1>3. ChainInv' /\ Emitted' = Emitted /\ Height' = Height
  BY <1>1, ChainSame DEF Inv
<1>4. to \in Nat /\ db.lastBlock < to /\ to <= Height
  BY <1>1, <1>2, IndexerAssumption DEF BatchEnd
<1>5. from \in Nat \ {0}
  BY <1>2
<1> HIDE DEF to
<1>6. batch' = {log \in Emitted : /\ from <= log.block /\ log.block <= to
                                  /\ log.kind = "Sync" => log.market \in db.tracked}
  BY <1>1, <1>4, <1>5, FetchedFacts DEF Inv, ChainInv
<1>7. Passed' = Passed
  BY <1>1, <1>2, <1>3, <1>4, <1>6 DEF Passed
<1>8. todo = <<>>
  BY <1>1 DEF Inv, LoopInv
<1>9. LoopInv'
  <2>1. \A log \in batch' : /\ log \in Emitted' /\ db'.lastBlock < log.block
                            /\ log.block <= toBlock'
                            /\ \A done \in Passed' : Before(done, log)
    BY <1>1, <1>2, <1>3, <1>6, <1>7 DEF Before
  <2>2. QED
    BY <1>1, <1>2, <1>3, <1>4, <1>8, <2>1 DEF Inv, LoopInv
<1>10. CreationsInv' /\ SwapsInv' /\ CountsInv'
  BY <1>1, <1>3, <1>7, Carried DEF Inv, LoopInv, ToRun
<1>11. QED
  BY <1>3, <1>7, <1>9, <1>10 DEF Inv

LEMMA CheckpointKeepsInv ==
  ASSUME Inv, Checkpoint
  PROVE  Inv' /\ Passed' = Passed
<1>1. /\ toBlock > 0 /\ batch = {} /\ todo = <<>>
      /\ db' = [db EXCEPT !.lastBlock = toBlock] /\ toBlock' = 0
      /\ UNCHANGED chainVars /\ batch' = batch /\ current' = current
      /\ todo' = todo /\ lost' = lost
  BY DEF Checkpoint, faultVars
<1>2. /\ Height \in Nat /\ db.lastBlock \in Nat /\ toBlock \in Nat
      /\ \A log \in Emitted : log.block \in 1 .. Height
  BY LoopFacts DEF Inv
<1>3. ChainInv' /\ Emitted' = Emitted /\ Height' = Height
  BY <1>1, ChainSame DEF Inv
<1>4. db.lastBlock < toBlock /\ toBlock <= Height
  BY <1>1, <1>2 DEF Inv, LoopInv
<1>5. /\ TablesOK(db') /\ db'.lastBlock = toBlock /\ db'.markets = db.markets
      /\ db'.nfts = db.nfts /\ db'.tracked = db.tracked /\ db'.swapRows = db.swapRows
      /\ db'.swapCount = db.swapCount /\ db'.reserves = db.reserves
  BY <1>1, <1>2 DEF Inv, LoopInv, TablesOK, Columns
<1>6. Passed' = Passed
  BY <1>1, <1>2, <1>3, <1>4, <1>5 DEF Passed
<1>7. LoopInv'
  BY <1>1, <1>3, <1>4, <1>5, <1>6 DEF Inv, LoopInv
<1>8. CreationsInv' /\ SwapsInv' /\ CountsInv'
  BY <1>1, <1>3, <1>5, <1>6, Carried DEF Inv, LoopInv, ToRun
<1>9. QED
  BY <1>3, <1>6, <1>7, <1>8 DEF Inv

LEMMA HandlerFailsKeepsInv ==
  ASSUME Inv, HandlerFails
  PROVE  Inv' /\ Passed' = Passed
<1>1. /\ todo' = <<>> /\ lost' = lost \union {Id(current)}
      /\ UNCHANGED chainVars /\ db' = db /\ toBlock' = toBlock /\ batch' = batch
      /\ current' = current
  BY DEF HandlerFails
<1>2. ChainInv' /\ Emitted' = Emitted /\ Height' = Height
  BY <1>1, ChainSame DEF Inv
<1>3. Passed' = Passed
  BY <1>1, <1>2 DEF Passed
<1>4. LoopInv'
  BY <1>1, <1>2, <1>3 DEF Inv, LoopInv
<1>5. CreationsInv' /\ SwapsInv' /\ CountsInv'
  BY <1>1, <1>2, <1>3, Carried DEF Inv, LoopInv, ToRun
<1>6. QED
  BY <1>2, <1>3, <1>4, <1>5 DEF Inv

LEMMA RestartKeepsInv ==
  ASSUME Inv, Restart
  PROVE  Inv' /\ Passed' \subseteq Passed
<1>1. /\ toBlock > 0 /\ toBlock' = 0 /\ batch' = {} /\ todo' = <<>>
      /\ UNCHANGED chainVars /\ db' = db /\ current' = current /\ lost' = lost
  BY DEF Restart
<1>2. /\ Height \in Nat /\ db.lastBlock \in Nat /\ toBlock \in Nat
      /\ \A log \in Emitted : log.block \in 1 .. Height
  BY LoopFacts DEF Inv
<1>3. ChainInv' /\ Emitted' = Emitted /\ Height' = Height
  BY <1>1, ChainSame DEF Inv
<1>4. Passed' = {log \in Emitted : log.kind # "Sync" /\ log.block <= db.lastBlock}
  BY <1>1, <1>2, <1>3 DEF Passed
<1>5. Passed' \subseteq Passed
  BY <1>4 DEF Passed
<1>6. LoopInv'
  BY <1>1, <1>3 DEF Inv, LoopInv
<1>7. \A log \in Passed', st \in Statements : ~ ToRun(log, st)
  <2> SUFFICES ASSUME NEW log \in Passed', todo # <<>>, current = log PROVE FALSE
    BY DEF ToRun, Range
  <2>1. db.lastBlock < log.block
    BY DEF Inv, LoopInv
  <2>2. QED
    BY <1>2, <1>4, <2>1
<1>8. CreationsInv' /\ SwapsInv' /\ CountsInv'
  BY <1>1, <1>3, <1>5, <1>7, Carried DEF Inv, LoopInv
<1>9. QED
  BY <1>3, <1>5, <1>6, <1>8 DEF Inv

(* A handler runs known statements, writes the reserves of a Sync only     *)
(* for one, and leaves nothing out of a creation or of a swap of a market  *)
(* that has a row.                                                         *)
LEMMA HandlerFacts ==
  ASSUME NEW log
  PROVE  /\ processLog(log) \in Seq(Statements)
         /\ "SetReserves" \in Range(processLog(log)) => log.kind = "Sync"
         /\ log.kind = "MarketCreated" =>
              {"InsertMarket", "InsertNFT", "TrackPool"} \subseteq Range(processLog(log))
         /\ log.kind = "Swap" /\ log.market \in db.markets =>
              {"InsertSwap", "UpdateMarket"} \subseteq Range(processLog(log))
<1> DEFINE H == {handleMarketCreated(log), handleFactoryMarketCreated(log),
                 handleSwap(log), handleFeeClaimed(log), handleFeeStrategyUpdated(log),
                 handleNFTTransfer(log), <<>>}
<1>1. /\ \A h \in H : h \in Seq(Statements)
      /\ handleSync(log) \in Seq(Statements)
  <2>1. /\ "CountCreator" \in Statements /\ "InsertMarket" \in Statements
        /\ "InsertNFT" \in Statements /\ "CountMarket" \in Statements
        /\ "TrackPool" \in Statements /\ "InsertSwap" \in Statements
        /\ "UpdateMarket" \in Statements /\ "CountSwap" \in Statements
        /\ "AddPending" \in Statements /\ "SetReserves" \in Statements
        /\ "InsertClaim" \in Statements /\ "ApplyClaim" \in Statements
        /\ "InsertChange" \in Statements /\ "ApplyStrategy" \in Statements
        /\ "InsertTransfer" \in Statements /\ "SetOwner" \in Statements
    BY DEF Statements
  <2>2. /\ handleMarketCreated(log) \in Seq(Statements)
        /\ handleFactoryMarketCreated(log) \in Seq(Statements)
    BY <2>1 DEF handleMarketCreated, handleFactoryMarketCreated
  <2>3. handleSwap(log) \in Seq(Statements)
    BY <2>1 DEF handleSwap
  <2>4. /\ handleFeeClaimed(log) \in Seq(Statements)
        /\ handleFeeStrategyUpdated(log) \in Seq(Statements)
        /\ handleNFTTransfer(log) \in Seq(Statements)
    BY <2>1 DEF handleFeeClaimed, handleFeeStrategyUpdated, handleNFTTransfer
  <2>5. handleSync(log) \in Seq(Statements)
    BY <2>1 DEF handleSync
  <2>6. <<>> \in Seq(Statements)
    OBVIOUS
  <2>7. QED
    BY <2>2, <2>3, <2>4, <2>5, <2>6
<1>2. \A h \in H : "SetReserves" \notin Range(h)
  BY DEF Range, handleMarketCreated, handleFactoryMarketCreated, handleSwap,
         handleFeeClaimed, handleFeeStrategyUpdated, handleNFTTransfer
<1>3. IF log.kind = "Sync" THEN processLog(log) = handleSync(log) ELSE processLog(log) \in H
  BY DEF processLog, handleNFTFeesClaimed, handleNFTFeeStrategyUpdated
<1>4. log.kind = "MarketCreated" =>
        {"InsertMarket", "InsertNFT", "TrackPool"} \subseteq Range(processLog(log))
  BY DEF Range, processLog, handleMarketCreated
<1>5. log.kind = "Swap" /\ log.market \in db.markets =>
        {"InsertSwap", "UpdateMarket"} \subseteq Range(processLog(log))
  BY DEF Range, processLog, handleSwap
<1> HIDE DEF H
<1>6. QED
  BY <1>1, <1>2, <1>3, <1>4, <1>5

(* The log taken is the first that is not passed.                          *)
LEMMA LogTaken ==
  ASSUME Inv, TakeLog
  PROVE  \E log \in batch :
           /\ current' = log /\ todo' = processLog(log)
           /\ batch' = batch \ {log} /\ lost' = lost \ {Id(log)}
           /\ log \in Emitted /\ log.block <= toBlock
           /\ \A done \in Passed : done # log /\ Before(done, log)
           /\ \A other \in Emitted \ Passed : other.kind # "Sync" => Before(log, other)
           /\ Passed' = IF log.kind = "Sync" THEN Passed ELSE Passed \union {log}
<1>1. PICK log \in batch :
        /\ \A other \in batch : Before(log, other)
        /\ batch' = batch \ {log} /\ current' = log /\ todo' = processLog(log)
        /\ lost' = lost \ {Id(log)}
  BY DEF TakeLog
<1>2. UNCHANGED chainVars /\ db' = db /\ toBlock' = toBlock
  BY DEF TakeLog
<1>3. /\ db.lastBlock \in Nat /\ toBlock \in Nat
      /\ \A l \in Emitted : l.block \in Nat /\ l.index \in Nat
  BY LoopFacts DEF Inv
<1>4. Emitted' = Emitted
  BY <1>2, ChainSame DEF Inv
<1>5. /\ log \in Emitted /\ db.lastBlock < log.block /\ log.block <= toBlock
      /\ \A done \in Passed : Before(done, log)
  BY DEF Inv, LoopInv
<1>6. \A done \in Passed : done # log
  BY <1>3, <1>5 DEF Passed
<1>7. Passed' = IF log.kind = "Sync" THEN Passed ELSE Passed \union {log}
  BY <1>1, <1>2, <1>4, <1>5 DEF Passed
<1>8. ASSUME NEW other \in Emitted \ Passed, other.kind # "Sync"
      PROVE  Before(log, other)
  <2>1. CASE other \in batch
    BY <1>1, <2>1
  <2>2. CASE other \notin batch
    <3>1. ~ (other.block <= toBlock)
      BY <1>8, <2>2 DEF Passed
    <3>2. QED
      BY <1>3, <1>5, <3>1 DEF Before
  <2>3. QED
    BY <2>1, <2>2
<1>9. QED
  BY <1>1, <1>5, <1>6, <1>7, <1>8

LEMMA TakeLogKeepsInv ==
  ASSUME Inv, TakeLog
  PROVE  Inv'
<1>1. PICK log \in batch :
        /\ \A other \in batch : Before(log, other)
        /\ batch' = batch \ {log} /\ current' = log /\ todo' = processLog(log)
        /\ lost' = lost \ {Id(log)}
  BY DEF TakeLog
<1>2. /\ toBlock > 0 /\ todo = <<>>
      /\ UNCHANGED chainVars /\ db' = db /\ toBlock' = toBlock
  BY DEF TakeLog
<1>3. /\ Height \in Nat /\ db.lastBlock \in Nat /\ toBlock \in Nat
      /\ \A l \in Emitted : l.block \in 1 .. Height /\ l.index \in Nat
      /\ \A l \in Emitted : l.market \in Markets
      /\ \A l, k \in Emitted : Id(l) = Id(k) => l = k
      /\ Passed \subseteq Emitted
  BY LoopFacts, EmittedFacts, PassedFacts DEF Inv, ChainInv
<1>4. /\ ChainInv' /\ Emitted' = Emitted /\ Height' = Height
      /\ \A m : LogsOf("MarketCreated", m, Height)' = LogsOf("MarketCreated", m, Height)
  BY <1>2, ChainSame DEF Inv, LogsOf, chainVars
<1>5. /\ log \in Emitted /\ db.lastBlock < log.block /\ log.block <= toBlock
      /\ \A done \in Passed : Before(done, log)
  BY DEF Inv, LoopInv
<1>6. \A done \in Passed : done # log
  BY <1>3, <1>5 DEF Passed
<1>7. Passed' = IF log.kind = "Sync" THEN Passed ELSE Passed \union {log}
  BY <1>1, <1>2, <1>4, <1>5 DEF Passed
<1>8. \A done \in Passed' : done = log \/ done \in Passed
  BY <1>7
<1>9. \A done \in Passed' : Before(done, log) /\ done.block <= log.block
  BY <1>3, <1>5, <1>8 DEF Before
<1>10. LoopInv'
  <2>1. \A l \in batch' : /\ l \in Emitted' /\ db'.lastBlock < l.block
                          /\ l.block <= toBlock'
                          /\ \A done \in Passed' : Before(done, l)
    BY <1>1, <1>2, <1>4, <1>8 DEF Inv, LoopInv
  <2>2. todo' \in Seq(Statements) /\ ("SetReserves" \in Range(todo') => log.kind = "Sync")
    BY <1>1, HandlerFacts
  <2>3. QED
    BY <1>1, <1>2, <1>3, <1>4, <1>5, <1>9, <2>1, <2>2 DEF Inv, LoopInv
<1>11. \A l, st : ~ ToRun(l, st)
  BY <1>2 DEF ToRun, Range
<1>12. \A l \in Emitted : l # log => (Id(l) \in lost <=> Id(l) \in lost')
  BY <1>1, <1>3, <1>5
<1>13. CreationsInv'
  <2> SUFFICES ASSUME NEW l \in Passed', l.kind = "MarketCreated", Id(l) \notin lost'
               PROVE  /\ l.market \in db'.markets \/ ToRun(l, "InsertMarket")'
                      /\ l.market \in db'.nfts \/ ToRun(l, "InsertNFT")'
                      /\ l.market \in db'.tracked \/ ToRun(l, "TrackPool")'
    BY DEF CreationsInv
  <2>1. CASE l = log
    BY <1>1, <2>1, HandlerFacts DEF ToRun
  <2>2. CASE l # log
    BY <1>2, <1>3, <1>8, <1>11, <1>12, <2>2 DEF Inv, CreationsInv
  <2>3. QED
    BY <2>1, <2>2
(* The creation of a passed swap's market is in an earlier block, so that  *)
(* it is not the log taken now.                                            *)
<1>14. ASSUME NEW l \in Passed', l.kind = "Swap", CreationLost(l.market)
       PROVE  CreationLost(l.market)'
  <2>1. l \in Emitted /\ l.market \in Markets
    BY <1>3, <1>5, <1>8
  <2>2. PICK made \in Emitted : /\ made.kind = "MarketCreated"
                                /\ made.market = l.market /\ Id(made) \in lost
    BY <1>14, <2>1, CreationLostFacts DEF Inv, ChainInv
  <2>3. made.block < l.block
    BY <1>14, <2>1, <2>2 DEF Inv, ChainInv, LogsInOrder, FeeKinds
  <2>4. made # log
    BY <1>3, <1>5, <1>9, <2>1, <2>3
  <2>5. Id(made) \in lost'
    BY <1>12, <2>2, <2>4
  <2>6. (\E k \in Emitted : /\ k.kind = "MarketCreated" /\ k.market = l.market
                            /\ Id(k) \in lost')
    BY <2>2, <2>5
  <2>7. QED
    BY <1>4, <2>1, <2>6, CreationLostNext DEF ChainInv
(* A swap whose market has no row: its creation, in an earlier block, has  *)
(* been taken, so it was cut short.                                        *)
<1>15. ASSUME log.kind = "Swap", log.market \notin db.markets
       PROVE  CreationLost(log.market)
  <2>1. log.market \in created
    BY <1>5 DEF Inv, ChainInv, LogsInOrder
  <2>2. PICK made \in Emitted : made.kind = "MarketCreated" /\ made.market = log.market
    BY <2>1 DEF Inv, ChainInv, LogsInOrder
  <2>3. made.block < log.block
    BY <1>5, <1>15, <2>2 DEF Inv, ChainInv, LogsInOrder, FeeKinds
  <2>4. made \notin batch
    BY <1>1, <1>3, <1>5, <2>3 DEF Before
  <2>5. made \in Passed
    BY <1>3, <1>5, <2>2, <2>3, <2>4 DEF Passed
  <2>6. Id(made) \in lost
    BY <1>11, <1>15, <2>2, <2>5 DEF Inv, CreationsInv
  <2>7. QED
    BY <1>3, <1>5, <2>2, <2>6, CreationLostFacts DEF Inv, ChainInv
<1>16. log.kind = "Swap" => \/ CreationLost(log.market)'
                            \/ ToRun(log, "InsertSwap")' /\ ToRun(log, "UpdateMarket")'
  <2> SUFFICES ASSUME log.kind = "Swap"
               PROVE  \/ CreationLost(log.market)'
                      \/ ToRun(log, "InsertSwap")' /\ ToRun(log, "UpdateMarket")'
    OBVIOUS
  <2>1. CASE log.market \in db.markets
    BY <1>1, <2>1, HandlerFacts DEF ToRun
  <2>2. CASE log.market \notin db.markets
    BY <1>7, <1>14, <1>15, <2>2
  <2>3. QED
    BY <2>1, <2>2
<1>17. SwapsInv'
  <2> SUFFICES ASSUME NEW l \in Passed', l.kind = "Swap", Id(l) \notin lost',
                      ~ CreationLost(l.market)'
               PROVE  /\ Id(l) \in db'.swapRows \/ ToRun(l, "InsertSwap")'
                      /\ \/ l.block <= db'.reserves[l.market]
                         \/ ToRun(l, "UpdateMarket")'
    BY DEF SwapsInv
  <2>1. CASE l = log
    BY <1>16, <2>1
  <2>2. CASE l # log
    <3>1. l \in Passed /\ Id(l) \notin lost /\ ~ CreationLost(l.market)
      BY <1>3, <1>8, <1>12, <1>14, <2>2
    <3>2. QED
      BY <1>2, <1>11, <3>1 DEF Inv, SwapsInv
  <2>3. QED
    BY <2>1, <2>2
<1>18. CountsInv'
  <2> SUFFICES ASSUME NEW m \in Markets, ~ CreationLost(m)'
               PROVE  Cardinality(Counted(m)') <= db'.swapCount[m]
    BY DEF CountsInv
  <2>1. db.swapCount[m] \in Nat
    BY DEF Inv, LoopInv, TablesOK
  <2>2. CASE CreationLost(m)
    <3>1. Counted(m)' = {}
      BY <1>14, <2>2 DEF Counted
    <3>2. QED
      BY <1>2, <2>1, <3>1, FS_EmptySet
  <2>3. CASE ~ CreationLost(m)
    <3>1. ASSUME NEW l \in Counted(m)' PROVE l \in Counted(m)
      <4>1. /\ l \in Passed' /\ l.kind = "Swap" /\ l.market = m
            /\ Id(l) \notin lost' /\ ~ ToRun(l, "UpdateMarket")'
        BY <3>1 DEF Counted
      <4>2. l # log
        BY <1>16, <4>1
      <4>3. l \in Passed /\ Id(l) \notin lost
        BY <1>3, <1>8, <1>12, <4>1, <4>2
      <4>4. QED
        BY <1>11, <4>1, <4>3 DEF Counted
    <3>2. IsFiniteSet(Counted(m)) /\ Counted(m)' \subseteq Counted(m)
      BY <3>1, PassedFacts DEF Inv, ChainInv
    <3>3. /\ Cardinality(Counted(m)') <= Cardinality(Counted(m))
          /\ Cardinality(Counted(m)') \in Nat /\ Cardinality(Counted(m)) \in Nat
      BY <3>2, FS_Subset, FS_CardinalityType
    <3>4. Cardinality(Counted(m)) <= db.swapCount[m]
      BY <2>3 DEF Inv, CountsInv
    <3>5. QED
      BY <1>2, <2>1, <3>3, <3>4
  <2>4. QED
    BY <2>2, <2>3
<1>19. QED
  BY <1>4, <1>10, <1>13, <1>17, <1>18 DEF Inv

LEMMA HeadAndTail ==
  ASSUME NEW S, NEW s \in Seq(S), s # <<>>
  PROVE  /\ Head(s) \in S /\ Tail(s) \in Seq(S)
         /\ Range(s) = {Head(s)} \union Range(Tail(s))
<1>1. /\ Len(s) \in Nat /\ Len(s) > 0 /\ DOMAIN s = 1 .. Len(s)
      /\ Head(s) = s[1] /\ Head(s) \in S
      /\ Tail(s) \in Seq(S) /\ DOMAIN Tail(s) = 1 .. (Len(s) - 1)
      /\ \A i \in 1 .. (Len(s) - 1) : Tail(s)[i] = s[i + 1]
  OBVIOUS
<1> DEFINE t == Tail(s)
           h == Head(s)
           n == Len(s)
<1> HIDE DEF t, h, n
<1>2. ASSUME NEW x \in Range(s) PROVE x = h \/ x \in Range(t)
  <2>1. PICK i \in 1 .. n : x = s[i]
    BY <1>1 DEF Range, n
  <2>2. CASE i = 1
    BY <1>1, <2>1, <2>2 DEF h
  <2>3. CASE i # 1
    <3>1. i - 1 \in 1 .. (n - 1) /\ t[i - 1] = x
      BY <1>1, <2>1, <2>3 DEF t, n
    <3>2. QED
      BY <1>1, <3>1 DEF Range, t, n
  <2>4. QED
    BY <2>2, <2>3
<1>3. h \in Range(s)
  BY <1>1 DEF Range, h
<1>4. ASSUME NEW x \in Range(t) PROVE x \in Range(s)
  <2>1. PICK i \in 1 .. (n - 1) : x = t[i]
    BY <1>1 DEF Range, t, n
  <2>2. i + 1 \in 1 .. n /\ x = s[i + 1]
    BY <1>1, <2>1 DEF t, n
  <2>3. QED
    BY <1>1, <2>2 DEF Range, n
<1>5. QED
  BY <1>1, <1>2, <1>3, <1>4 DEF t, h

LEMMA StatementKeepsInv ==
  ASSUME Inv, Statement
  PROVE  Inv' /\ Passed' = Passed
<1> DEFINE st == Head(todo)
           log == current
<1>1. /\ todo # <<>> /\ db' = After(db, st, log) /\ todo' = Tail(todo)
      /\ UNCHANGED chainVars /\ toBlock' = toBlock /\ batch' = batch
      /\ current' = current /\ lost' = lost
  BY DEF Statement, faultVars
<1>2. /\ todo \in Seq(Statements) /\ TablesOK(db)
      /\ log \in Emitted \ batch /\ db.lastBlock < log.block
      /\ \A done \in Passed : done.block <= log.block
      /\ "SetReserves" \in Range(todo) => log.kind = "Sync"
  BY <1>1 DEF Inv, LoopInv
<1>3. /\ st \in Statements /\ todo' \in Seq(Statements)
      /\ Range(todo) = {st} \union Range(todo')
  BY <1>1, <1>2, HeadAndTail
<1>4. /\ ChainInv' /\ Emitted' = Emitted /\ Height' = Height
      /\ \A m : CreationLost(m)' = CreationLost(m)
  <2>1. ChainInv' /\ Emitted' = Emitted /\ Height' = Height
    BY <1>1, ChainSame DEF Inv
  <2>2. chain' = chain
    BY <1>1 DEF chainVars
  <2>3. QED
    BY <1>1, <2>1, <2>2 DEF CreationLost, LogsOf
<1>5. /\ Passed \subseteq Emitted /\ db.lastBlock \in Nat
      /\ \A l \in Emitted : l \in Logs /\ l.market \in Markets /\ l.block \in Nat
  BY PassedFacts, EmittedFacts, <1>2 DEF Inv, ChainInv, TablesOK, Logs
<1>6. log \in Logs /\ (st = "SetReserves" => log.arg = log.block)
  BY <1>2, <1>3, <1>5 DEF Inv, ChainInv, LogsInOrder
<1>7. Grows(db, db', log)
  BY <1>1, <1>2, <1>3, <1>6, AfterGrows
<1>8. Passed' = Passed
  BY <1>1, <1>4, <1>7 DEF Passed, Grows
<1>9. LoopInv'
  BY <1>1, <1>2, <1>3, <1>4, <1>7, <1>8 DEF Inv, LoopInv, Grows
<1>10. \A l, s : ToRun(l, s) => ToRun(l, s)' \/ (l = log /\ s = st)
  BY <1>1, <1>3 DEF ToRun
<1>11. \A l, s : ToRun(l, s)' => ToRun(l, s)
  BY <1>1, <1>3 DEF ToRun
<1>12. /\ st = "InsertMarket" => log.market \in db'.markets
       /\ st = "InsertNFT" => log.market \in db'.nfts
       /\ st = "TrackPool" => log.market \in db'.tracked
       /\ st = "InsertSwap" => Id(log) \in db'.swapRows
       /\ st = "UpdateMarket" =>
            /\ db'.swapCount[log.market] = db.swapCount[log.market] + 1
            /\ db'.reserves[log.market] = log.block
  BY <1>1, <1>2, <1>6, AfterWrites
<1> HIDE DEF st, log
<1>13. CreationsInv'
  BY <1>1, <1>7, <1>8, <1>10, <1>12 DEF Inv, CreationsInv, Grows
<1>14. SwapsInv'
  <2> SUFFICES ASSUME NEW l \in Passed, l.kind = "Swap", Id(l) \notin lost,
                      ~ CreationLost(l.market)
               PROVE  /\ Id(l) \in db'.swapRows \/ ToRun(l, "InsertSwap")'
                      /\ \/ l.block <= db'.reserves[l.market]
                         \/ ToRun(l, "UpdateMarket")'
    BY <1>1, <1>4, <1>8 DEF SwapsInv
  <2>1. /\ Id(l) \in db.swapRows \/ ToRun(l, "InsertSwap")
        /\ l.block <= db.reserves[l.market] \/ ToRun(l, "UpdateMarket")
    BY DEF Inv, SwapsInv
  <2>2. Id(l) \in db'.swapRows \/ ToRun(l, "InsertSwap")'
    BY <1>7, <1>10, <1>12, <2>1 DEF Grows
  <2>3. /\ l.market \in Markets /\ l.block \in Nat /\ l.block <= log.block
        /\ db'.reserves[l.market] \in {db.reserves[l.market], log.block}
    BY <1>2, <1>5, <1>7 DEF Grows
  <2>4. l.block <= db'.reserves[l.market] \/ ToRun(l, "UpdateMarket")'
    BY <1>10, <1>12, <2>1, <2>3
  <2>5. QED
    BY <2>2, <2>4
<1>15. CountsInv'
  <2> SUFFICES ASSUME NEW m \in Markets, ~ CreationLost(m)
               PROVE  Cardinality(Counted(m)') <= db'.swapCount[m]
    BY <1>4 DEF CountsInv
  <2>1. /\ Cardinality(Counted(m)) <= db.swapCount[m]
        /\ IsFiniteSet(Counted(m)) /\ Cardinality(Counted(m)) \in Nat
        /\ db.swapCount[m] \in Nat
    BY <1>2, PassedFacts, FS_CardinalityType DEF Inv, ChainInv, CountsInv, TablesOK
  <2>2. /\ db'.swapCount[m] \in Nat /\ db.swapCount[m] <= db'.swapCount[m]
    BY <1>7 DEF Grows, TablesOK
  <2>3. CASE st = "UpdateMarket" /\ log.market = m
    <3>1. Counted(m)' \subseteq Counted(m) \union {log}
      BY <1>1, <1>8, <1>10, <2>3 DEF Counted
    <3>2. /\ IsFiniteSet(Counted(m) \union {log})
          /\ Cardinality(Counted(m) \union {log})
               \in {Cardinality(Counted(m)), Cardinality(Counted(m)) + 1}
      BY <2>1, FS_AddElement
    <3>3. /\ Cardinality(Counted(m)') <= Cardinality(Counted(m) \union {log})
          /\ Cardinality(Counted(m)') \in Nat
      BY <3>1, <3>2, FS_Subset, FS_CardinalityType
    <3>4. db'.swapCount[m] = db.swapCount[m] + 1
      BY <1>12, <2>3
    <3>5. QED
      BY <2>1, <2>2, <3>2, <3>3, <3>4
  <2>4. CASE ~ (st = "UpdateMarket" /\ log.market = m)
    <3>1. Counted(m)' \subseteq Counted(m)
      BY <1>1, <1>8, <1>10, <2>4 DEF Counted
    <3>2. /\ Cardinality(Counted(m)') <= Cardinality(Counted(m))
          /\ Cardinality(Counted(m)') \in Nat
      BY <2>1, <3>1, FS_Subset, FS_CardinalityType
    <3>3. QED
      BY <2>1, <2>2, <3>2
  <2>5. QED
    BY <2>3, <2>4
<1>16. QED
  BY <1>4, <1>8, <1>9, <1>13, <1>14, <1>15 DEF Inv

LEMMA StepKeepsInv == Inv /\ [Next]_vars => Inv'
<1> SUFFICES ASSUME Inv, [Next]_vars PROVE Inv'
  OBVIOUS
<1>1. CASE Mined
  BY <1>1, MinedKeepsInv
<1>2. CASE StartBatch
  BY <1>2, StartBatchKeepsInv
<1>3. CASE TakeLog
  BY <1>3, TakeLogKeepsInv
<1>4. CASE Statement
  BY <1>4, StatementKeepsInv
<1>5. CASE Checkpoint
  BY <1>5, CheckpointKeepsInv
<1>6. CASE HandlerFails
  BY <1>6, HandlerFailsKeepsInv
<1>7. CASE Restart
  BY <1>7, RestartKeepsInv
<1>8. CASE UNCHANGED vars
  BY <1>8, StutterKeepsInv
<1>9. QED
  BY <1>1, <1>2, <1>3, <1>4, <1>5, <1>6, <1>7, <1>8 DEF Next, IndexerStep

LEMMA AlwaysInv == Spec => []Inv
BY InitInv, StepKeepsInv, PTL DEF Spec

-----------------------------------------------------------------------------
(* What the loop promises.                                                 *)

(* Logs the checkpoint is past are passed.                                 *)
LEMMA PassedByCheckpoint ==
  ASSUME Inv, NEW kind, kind # "Sync", NEW m, NEW log \in LogsOf(kind, m, db.lastBlock)
  PROVE  /\ log \in Passed /\ log \in Emitted /\ log.kind = kind /\ log.market = m
         /\ log.block <= db.lastBlock
         /\ \A st : ~ ToRun(log, st)
<1>1. /\ db.lastBlock \in 0 .. Height
      /\ \A l \in Emitted : l.block \in Nat
  BY LoopFacts DEF Inv
<1>2. /\ log \in Emitted /\ log.kind = kind /\ log.market = m
      /\ log.block <= db.lastBlock
  BY <1>1, LogsOfFacts DEF Inv, ChainInv
<1>3. log \in Passed
  BY <1>2 DEF Passed
<1>4. \A st : ~ ToRun(log, st)
  <2> SUFFICES ASSUME todo # <<>>, current = log PROVE FALSE
    BY DEF ToRun, Range
  <2>1. db.lastBlock < log.block
    BY DEF Inv, LoopInv
  <2>2. QED
    BY <1>1, <1>2, <2>1
<1>5. QED
  BY <1>2, <1>3, <1>4

(* Whatever is restarted and whenever, the checkpoint passes no swap that  *)
(* has no row unless an error was swallowed (startIndexer, processLog).    *)
THEOREM NoSwapIsSkipped == Spec => []NoSwapSkipped
<1>1. Inv => NoSwapSkipped
  <2> SUFFICES ASSUME Inv, NEW m \in Markets, NEW log \in LogsOf("Swap", m, db.lastBlock)
               PROVE  Id(log) \in db.swapRows \union lost \/ CreationLost(m)
    BY DEF NoSwapSkipped
  <2>1. /\ log \in Passed /\ log.kind = "Swap" /\ log.market = m
        /\ ~ ToRun(log, "InsertSwap")
    BY PassedByCheckpoint
  <2>2. QED
    BY <2>1 DEF Inv, SwapsInv
<1>2. QED
  BY <1>1, AlwaysInv, PTL

(* A market the checkpoint has passed has its pool among those whose logs  *)
(* are asked for, unless its handler was cut short (handleMarketCreated).  *)
THEOREM CreatedMarketsAreTracked == Spec => []CreatedAreTracked
<1>1. Inv => CreatedAreTracked
  <2> SUFFICES ASSUME Inv, NEW m \in Markets,
                      NEW log \in LogsOf("MarketCreated", m, db.lastBlock)
               PROVE  m \in db.tracked \/ CreationLost(m)
    BY DEF CreatedAreTracked
  <2>1. /\ log \in Passed /\ log \in Emitted /\ log.kind = "MarketCreated"
        /\ log.market = m /\ ~ ToRun(log, "TrackPool")
    BY PassedByCheckpoint
  <2>2. Id(log) \in lost \/ m \in db.tracked
    BY <2>1 DEF Inv, CreationsInv
  <2>3. QED
    BY <2>1, <2>2, CreationLostFacts DEF Inv, ChainInv
<1>2. QED
  BY <1>1, AlwaysInv, PTL

(* Replays may count a swap twice, but between batches swap_count is never *)
(* below the swaps the checkpoint has passed (handleSwap).                 *)
THEOREM CountsAreNeverShort == Spec => []CountsNeverShort
<1>1. Inv => CountsNeverShort
  <2> SUFFICES ASSUME Inv, lost = {}, NEW m \in Markets
               PROVE  db.swapCount[m] >= Cardinality(LogsOf("Swap", m, db.lastBlock))
    BY DEF CountsNeverShort
  <2>1. LogsOf("Swap", m, db.lastBlock) \subseteq Counted(m)
    BY PassedByCheckpoint DEF Counted
  <2>2. ~ CreationLost(m)
    BY DEF CreationLost
  <2>3. Cardinality(Counted(m)) <= db.swapCount[m]
    BY <2>2 DEF Inv, CountsInv
  <2>4. IsFiniteSet(Counted(m))
    BY PassedFacts DEF Inv, ChainInv
  <2>5. /\ Cardinality(LogsOf("Swap", m, db.lastBlock)) <= Cardinality(Counted(m))
        /\ Cardinality(LogsOf("Swap", m, db.lastBlock)) \in Nat
        /\ Cardinality(Counted(m)) \in Nat /\ db.swapCount[m] \in Nat
    BY <2>1, <2>4, FS_Subset, FS_CardinalityType DEF Inv, LoopInv, TablesOK
  <2>6. QED
    BY <2>3, <2>5
<1>2. QED
  BY <1>1, AlwaysInv, PTL

(* Although a replayed batch first writes old reserves, those of a market  *)
(* are never older than its last swap once the indexer has caught up       *)
(* (handleSwap, handleSync).                                               *)
THEOREM ReservesFollowTheSwaps == Spec => []ReservesFollowSwaps
<1>1. Inv => ReservesFollowSwaps
  <2> SUFFICES ASSUME Inv, db.lastBlock = Height, lost = {}, NEW m \in Markets,
                      NEW log \in LogsOf("Swap", m, Height)
               PROVE  db.reserves[m] >= log.block
    BY DEF ReservesFollowSwaps, CaughtUp
  <2>1. /\ log \in Passed /\ log \in Emitted /\ log.kind = "Swap" /\ log.market = m
        /\ ~ ToRun(log, "UpdateMarket")
    BY PassedByCheckpoint
  <2>2. ~ CreationLost(m)
    BY DEF CreationLost
  <2>3. log.block <= db.reserves[m]
    BY <2>1, <2>2 DEF Inv, SwapsInv
  <2>4. log.block \in Nat /\ db.reserves[m] \in Nat
    BY <2>1, LoopFacts DEF Inv, LoopInv, TablesOK
  <2>5. QED
    BY <2>3, <2>4
<1>2. QED
  BY <1>1, AlwaysInv, PTL

(* The checkpoint only moves forward, and no log at or before it is taken  *)
(* again: a restart replays at most the open batch (startIndexer).         *)
THEOREM OnlyTheOpenBatchIsReplayed == Spec => OnlyOpenBatchReplayed
<1>1. Inv /\ [Next]_vars =>
        [/\ db.lastBlock <= db'.lastBlock
         /\ current' # current => current'.block > db.lastBlock]_vars
  <2> SUFFICES ASSUME Inv, Next
               PROVE  /\ db.lastBlock <= db'.lastBlock
                      /\ current' # current => current'.block > db.lastBlock
    OBVIOUS
  <2>1. db.lastBlock \in Nat /\ toBlock \in Nat
    BY LoopFacts DEF Inv
  <2>2. CASE Mined \/ StartBatch \/ HandlerFails \/ Restart
    BY <2>1, <2>2 DEF Mined, StartBatch, HandlerFails, Restart, loopVars
  <2>3. CASE TakeLog
    <3>1. PICK log \in batch : current' = log /\ db' = db
      BY <2>3 DEF TakeLog
    <3>2. log \in Emitted /\ db.lastBlock < log.block
      BY DEF Inv, LoopInv
    <3>3. log.block \in Nat
      BY <3>2, LoopFacts DEF Inv
    <3>4. QED
      BY <2>1, <3>1, <3>2, <3>3
  <2>4. CASE Statement
    <3>1. current' = current /\ db' = After(db, Head(todo), current) /\ todo # <<>>
      BY <2>4 DEF Statement
    <3>2. /\ todo \in Seq(Statements) /\ TablesOK(db) /\ current \in Emitted
          /\ "SetReserves" \in Range(todo) => current.kind = "Sync"
      BY <3>1 DEF Inv, LoopInv
    <3>3. Head(todo) \in Statements /\ Head(todo) \in Range(todo)
      BY <3>1, <3>2, HeadAndTail
    <3>4. current \in Logs /\ (Head(todo) = "SetReserves" => current.arg = current.block)
      BY <3>2, <3>3, EmittedFacts DEF Inv, ChainInv, LogsInOrder
    <3>5. Grows(db, db', current)
      BY <3>1, <3>2, <3>3, <3>4, AfterGrows
    <3>6. QED
      BY <2>1, <3>1, <3>5 DEF Grows
  <2>5. CASE Checkpoint
    BY <2>1, <2>5 DEF Checkpoint, Inv, LoopInv, TablesOK, Columns
  <2>6. QED
    BY <2>2, <2>3, <2>4, <2>5 DEF Next, IndexerStep
<1>2. QED
  BY <1>1, AlwaysInv, PTL DEF Spec, OnlyOpenBatchReplayed

-----------------------------------------------------------------------------
(* The tables as the subgraph's entities.                                  *)

Fields ==
  {"markets", "nfts", "tracked", "owner", "feeStrategy", "swapCount", "feesUSID",
   "pendingFees", "totalFeesClaimed", "totalMarkets", "totalSwaps",
   "marketsCreated", "swaps", "claims", "changes", "transfers"}

Books(x) == x = [f \in Fields |-> x[f]]

Alike(x, y, F) == \A f \in F : x[f] = y[f]

(* Two books that agree in every field, one by one. *)
SameBooks(x, y) ==
  /\ x.markets = y.markets /\ x.nfts = y.nfts
  /\ x.tracked = y.tracked /\ x.owner = y.owner
  /\ x.feeStrategy = y.feeStrategy /\ x.swapCount = y.swapCount
  /\ x.feesUSID = y.feesUSID /\ x.pendingFees = y.pendingFees
  /\ x.totalFeesClaimed = y.totalFeesClaimed /\ x.totalMarkets = y.totalMarkets
  /\ x.totalSwaps = y.totalSwaps /\ x.marketsCreated = y.marketsCreated
  /\ x.swaps = y.swaps /\ x.claims = y.claims
  /\ x.changes = y.changes /\ x.transfers = y.transfers

PerMarket(d) ==
  /\ DOMAIN d = Columns
  /\ \A c \in {"owner", "strategy", "swapCount", "marketFees", "reserves", "pending",
              "claimed", "changes"} : DOMAIN d[c] = Markets

LEMMA AlikeBooks ==
  ASSUME NEW x, NEW y, Books(x), Books(y), Alike(x, y, Fields)
  PROVE  x = y
<1>1. [f \in Fields |-> x[f]] = [f \in Fields |-> y[f]]
  BY DEF Alike
<1>2. QED
  BY <1>1, Zenon DEF Books

LEMMA EntitiesBooks ==
  ASSUME NEW d, NEW due, NEW log
  PROVE  Books(EntitiesOf(d, due, log)) /\ DOMAIN EntitiesOf(d, due, log) = Fields
<1> DEFINE x == EntitiesOf(d, due, log)
<1>1. DOMAIN x = Fields
  BY DEF EntitiesOf, Fields
<1>2. x = [markets |-> x.markets, nfts |-> x.nfts, tracked |-> x.tracked,
           owner |-> x.owner, feeStrategy |-> x.feeStrategy,
           swapCount |-> x.swapCount, feesUSID |-> x.feesUSID,
           pendingFees |-> x.pendingFees, totalFeesClaimed |-> x.totalFeesClaimed,
           totalMarkets |-> x.totalMarkets, totalSwaps |-> x.totalSwaps,
           marketsCreated |-> x.marketsCreated, swaps |-> x.swaps,
           claims |-> x.claims, changes |-> x.changes, transfers |-> x.transfers]
  BY DEF EntitiesOf
<1> HIDE DEF x
<1>3. Books(x)
  BY <1>2 DEF Books, Fields
<1>4. QED
  BY <1>1, <1>3 DEF x

LEMMA SameBooksEqual ==
  ASSUME NEW x, NEW y, Books(x), Books(y), SameBooks(x, y)
  PROVE  x = y
<1>1. Alike(x, y, Fields)
  BY DEF SameBooks, Alike, Fields
<1>2. QED
  BY <1>1, AlikeBooks

(* Taking a creation adds what the subgraph's handler records.             *)
LEMMA CreationHandled ==
  ASSUME NEW d, NEW log, NEW c, log.market \in Markets,
         log.market \notin d.nfts, d.strategy[log.market] = CLAIM
  PROVE  EntitiesOf(d, {"CountCreator", "InsertMarket",
                        "InsertNFT", "CountMarket", "TrackPool"}, log)
           = Sub!handleMarketCreated(EntitiesOf(d, {}, c), log)
<1> DEFINE b == EntitiesOf(d, {}, c)
           x == EntitiesOf(d, {"CountCreator", "InsertMarket",
                               "InsertNFT", "CountMarket", "TrackPool"}, log)
           y == Sub!handleMarketCreated(b, log)
           changed == {"owner", "feeStrategy", "markets",
                       "nfts", "tracked", "marketsCreated", "totalMarkets"}
<1>1. /\ Books(b) /\ Books(x) /\ DOMAIN b = Fields
      /\ DOMAIN b.owner = Markets
      /\ DOMAIN b.feeStrategy = Markets
  <2>1. Books(b) /\ Books(x) /\ DOMAIN b = Fields
    BY EntitiesBooks
  <2>2. DOMAIN b.owner = Markets /\ DOMAIN b.feeStrategy = Markets
    BY DEF EntitiesOf
  <2>3. QED
    BY <2>1, <2>2
<1>2. b.markets = d.markets /\ b.nfts = d.nfts
  BY DEF EntitiesOf
<1> HIDE DEF b
<1>3. /\ y.owner = [b.owner EXCEPT ![log.market] = log.arg]
      /\ y.feeStrategy = [b.feeStrategy EXCEPT ![log.market] = CLAIM]
      /\ y.markets = b.markets \union {log.market}
      /\ y.nfts = b.nfts \union {log.market}
      /\ y.tracked = b.tracked \union {log.market}
      /\ y.marketsCreated = b.marketsCreated + 1
      /\ y.totalMarkets = b.totalMarkets + 1
      /\ Alike(y, b, Fields \ changed)
  BY <1>1, <1>2 DEF Sub!handleMarketCreated, Fields, Sub!Id, Id, Alike
<1>4. Books(y)
  BY <1>1, <1>2 DEF Sub!handleMarketCreated, Books
<1> HIDE DEF y
<1>5. x.owner = [b.owner EXCEPT ![log.market] = log.arg]
  BY DEF EntitiesOf, b
<1>6. x.feeStrategy = [b.feeStrategy EXCEPT ![log.market] = CLAIM]
  BY DEF EntitiesOf, b
<1>7. /\ x.markets = b.markets \union {log.market}
      /\ x.nfts = b.nfts \union {log.market}
      /\ x.tracked = b.tracked \union {log.market}
      /\ x.marketsCreated = b.marketsCreated + 1
      /\ x.totalMarkets = b.totalMarkets + 1
      /\ Alike(x, b, Fields \ changed)
  BY DEF EntitiesOf, b, Id, Alike, Fields
<1> HIDE DEF x
<1>8. Alike(x, y, Fields)
  BY <1>3, <1>5, <1>6, <1>7 DEF Alike, Fields
<1>9. QED
  BY <1>1, <1>4, <1>8, AlikeBooks DEF x, y, b

(* The same for a swap.                                                    *)
LEMMA SwapHandled ==
  ASSUME NEW d, NEW log, NEW c, log.market \in Markets,
         log.market \in d.markets
  PROVE  EntitiesOf(d, {"InsertSwap", "UpdateMarket", "CountSwap", "AddPending"}, log)
           = Sub!handleSwap(EntitiesOf(d, {}, c), log)
<1> DEFINE b == EntitiesOf(d, {}, c)
           x == EntitiesOf(d, {"InsertSwap", "UpdateMarket",
                               "CountSwap", "AddPending"}, log)
           y == Sub!handleSwap(b, log)
           changed == {"swaps", "swapCount", "feesUSID", "pendingFees", "totalSwaps"}
<1>1. /\ Books(b) /\ Books(x) /\ DOMAIN b = Fields
      /\ DOMAIN b.swapCount = Markets
      /\ DOMAIN b.feesUSID = Markets
      /\ DOMAIN b.pendingFees = Markets
  <2>1. Books(b) /\ Books(x) /\ DOMAIN b = Fields
    BY EntitiesBooks
  <2>2. DOMAIN b.swapCount = Markets /\ DOMAIN b.feesUSID = Markets /\ DOMAIN b.pendingFees = Markets
    BY DEF EntitiesOf
  <2>3. QED
    BY <2>1, <2>2
<1>2. b.markets = d.markets /\ b.nfts = d.nfts
  BY DEF EntitiesOf
<1> HIDE DEF b
<1>3. /\ y.swaps = b.swaps \union {Id(log)}
      /\ y.swapCount = [b.swapCount EXCEPT ![log.market] = @ + 1]
      /\ y.feesUSID = [b.feesUSID EXCEPT ![log.market] = @ + log.arg]
      /\ y.pendingFees = [b.pendingFees EXCEPT ![log.market] = @ + log.arg]
      /\ y.totalSwaps = b.totalSwaps + 1
      /\ Alike(y, b, Fields \ changed)
  BY <1>1, <1>2 DEF Sub!handleSwap, Fields, Sub!Id, Id, Alike
<1>4. Books(y)
  BY <1>1, <1>2 DEF Sub!handleSwap, Books
<1> HIDE DEF y
<1>5. x.swapCount = [b.swapCount EXCEPT ![log.market] = @ + 1]
  BY DEF EntitiesOf, b
<1>6. x.feesUSID = [b.feesUSID EXCEPT ![log.market] = @ + log.arg]
  BY DEF EntitiesOf, b
<1>7. x.pendingFees = [b.pendingFees EXCEPT ![log.market] = @ + log.arg]
  BY DEF EntitiesOf, b
<1>8. /\ x.swaps = b.swaps \union {Id(log)}
      /\ x.totalSwaps = b.totalSwaps + 1
      /\ Alike(x, b, Fields \ changed)
  BY DEF EntitiesOf, b, Id, Alike, Fields
<1> HIDE DEF x
<1>9. Alike(x, y, Fields)
  BY <1>3, <1>5, <1>6, <1>7, <1>8 DEF Alike, Fields
<1>10. QED
  BY <1>1, <1>4, <1>9, AlikeBooks DEF x, y, b

(* The same for a claim.                                                   *)
LEMMA ClaimHandled ==
  ASSUME NEW d, NEW log, NEW c, log.market \in Markets,
         log.market \in d.nfts
  PROVE  EntitiesOf(d, {"InsertClaim", "ApplyClaim"}, log)
           = Sub!handleFeeClaimed(EntitiesOf(d, {}, c), log)
<1> DEFINE b == EntitiesOf(d, {}, c)
           x == EntitiesOf(d, {"InsertClaim", "ApplyClaim"}, log)
           y == Sub!handleFeeClaimed(b, log)
           changed == {"claims", "totalFeesClaimed", "pendingFees"}
<1>1. /\ Books(b) /\ Books(x) /\ DOMAIN b = Fields
      /\ DOMAIN b.totalFeesClaimed = Markets
      /\ DOMAIN b.pendingFees = Markets
  <2>1. Books(b) /\ Books(x) /\ DOMAIN b = Fields
    BY EntitiesBooks
  <2>2. DOMAIN b.totalFeesClaimed = Markets /\ DOMAIN b.pendingFees = Markets
    BY DEF EntitiesOf
  <2>3. QED
    BY <2>1, <2>2
<1>2. b.markets = d.markets /\ b.nfts = d.nfts
  BY DEF EntitiesOf
<1> HIDE DEF b
<1>3. /\ y.claims = b.claims \union {Id(log)}
      /\ y.totalFeesClaimed = [b.totalFeesClaimed EXCEPT ![log.market] = @ + log.arg]
      /\ y.pendingFees = [b.pendingFees EXCEPT ![log.market] = 0]
      /\ Alike(y, b, Fields \ changed)
  BY <1>1, <1>2 DEF Sub!handleFeeClaimed, Fields, Sub!Id, Id, Alike
<1>4. Books(y)
  BY <1>1, <1>2 DEF Sub!handleFeeClaimed, Books
<1> HIDE DEF y
<1>5. x.totalFeesClaimed = [b.totalFeesClaimed EXCEPT ![log.market] = @ + log.arg]
  BY DEF EntitiesOf, b
<1>6. x.pendingFees = [b.pendingFees EXCEPT ![log.market] = 0]
  BY DEF EntitiesOf, b
<1>7. /\ x.claims = b.claims \union {Id(log)}
      /\ Alike(x, b, Fields \ changed)
  BY DEF EntitiesOf, b, Id, Alike, Fields
<1> HIDE DEF x
<1>8. Alike(x, y, Fields)
  BY <1>3, <1>5, <1>6, <1>7 DEF Alike, Fields
<1>9. QED
  BY <1>1, <1>4, <1>8, AlikeBooks DEF x, y, b

(* The same for a change of strategy.                                      *)
LEMMA ChangeHandled ==
  ASSUME NEW d, NEW log, NEW c, log.market \in Markets,
         log.market \in d.nfts
  PROVE  EntitiesOf(d, {"InsertChange", "ApplyStrategy"}, log)
           = Sub!handleFeeStrategyUpdated(EntitiesOf(d, {}, c), log)
<1> DEFINE b == EntitiesOf(d, {}, c)
           x == EntitiesOf(d, {"InsertChange", "ApplyStrategy"}, log)
           y == Sub!handleFeeStrategyUpdated(b, log)
           changed == {"changes", "feeStrategy"}
<1>1. /\ Books(b) /\ Books(x) /\ DOMAIN b = Fields
      /\ DOMAIN b.feeStrategy = Markets
  <2>1. Books(b) /\ Books(x) /\ DOMAIN b = Fields
    BY EntitiesBooks
  <2>2. DOMAIN b.feeStrategy = Markets
    BY DEF EntitiesOf
  <2>3. QED
    BY <2>1, <2>2
<1>2. b.markets = d.markets /\ b.nfts = d.nfts
  BY DEF EntitiesOf
<1> HIDE DEF b
<1>3. /\ y.changes = b.changes \union {Id(log)}
      /\ y.feeStrategy = [b.feeStrategy EXCEPT ![log.market] = log.arg]
      /\ Alike(y, b, Fields \ changed)
  BY <1>1, <1>2 DEF Sub!handleFeeStrategyUpdated, Fields, Sub!Id, Id, Alike
<1>4. Books(y)
  BY <1>1, <1>2 DEF Sub!handleFeeStrategyUpdated, Books
<1> HIDE DEF y
<1>5. x.feeStrategy = [b.feeStrategy EXCEPT ![log.market] = log.arg]
  BY DEF EntitiesOf, b
<1>6. /\ x.changes = b.changes \union {Id(log)}
      /\ Alike(x, b, Fields \ changed)
  BY DEF EntitiesOf, b, Id, Alike, Fields
<1> HIDE DEF x
<1>7. Alike(x, y, Fields)
  BY <1>3, <1>5, <1>6 DEF Alike, Fields
<1>8. QED
  BY <1>1, <1>4, <1>7, AlikeBooks DEF x, y, b

(* The same for a transfer of the position.                                *)
LEMMA TransferHandled ==
  ASSUME NEW d, NEW log, NEW c, log.market \in Markets,
         log.market \in d.nfts
  PROVE  EntitiesOf(d, {"InsertTransfer", "SetOwner"}, log)
           = Sub!handleNFTTransfer(EntitiesOf(d, {}, c), log)
<1> DEFINE b == EntitiesOf(d, {}, c)
           x == EntitiesOf(d, {"InsertTransfer", "SetOwner"}, log)
           y == Sub!handleNFTTransfer(b, log)
           changed == {"transfers", "owner"}
<1>1. /\ Books(b) /\ Books(x) /\ DOMAIN b = Fields
      /\ DOMAIN b.owner = Markets
  <2>1. Books(b) /\ Books(x) /\ DOMAIN b = Fields
    BY EntitiesBooks
  <2>2. DOMAIN b.owner = Markets
    BY DEF EntitiesOf
  <2>3. QED
    BY <2>1, <2>2
<1>2. b.markets = d.markets /\ b.nfts = d.nfts
  BY DEF EntitiesOf
<1> HIDE DEF b
<1>3. /\ y.transfers = b.transfers \union {Id(log)}
      /\ y.owner = [b.owner EXCEPT ![log.market] = log.arg]
      /\ Alike(y, b, Fields \ changed)
  BY <1>1, <1>2 DEF Sub!handleNFTTransfer, Fields, Sub!Id, Id, Alike
<1>4. Books(y)
  BY <1>1, <1>2 DEF Sub!handleNFTTransfer, Books
<1> HIDE DEF y
<1>5. x.owner = [b.owner EXCEPT ![log.market] = log.arg]
  BY DEF EntitiesOf, b
<1>6. /\ x.transfers = b.transfers \union {Id(log)}
      /\ Alike(x, b, Fields \ changed)
  BY DEF EntitiesOf, b, Id, Alike, Fields
<1> HIDE DEF x
<1>7. Alike(x, y, Fields)
  BY <1>3, <1>5, <1>6 DEF Alike, Fields
<1>8. QED
  BY <1>1, <1>4, <1>7, AlikeBooks DEF x, y, b

(* A handler that is skipped or only sets reserves changes no entity.      *)
LEMMA NothingHandled ==
  ASSUME NEW d, NEW log, NEW c, NEW due \in {{}, {"SetReserves"}}
  PROVE  EntitiesOf(d, due, log) = EntitiesOf(d, {}, c)
<1>1. SameBooks(EntitiesOf(d, due, log), EntitiesOf(d, {}, c))
  BY DEF EntitiesOf, SameBooks
<1>2. QED
  BY <1>1, EntitiesBooks, SameBooksEqual

(* Running a due statement moves what it records into the tables.          *)
LEMMA StatementAccounted ==
  ASSUME NEW d, PerMarket(d), NEW log, log.market \in Markets,
         NEW due, NEW st \in due, st \in Statements,
         st = "AddPending" => log.market \in d.nfts,
         "AddPending" \notin due \/ "ApplyClaim" \notin due
  PROVE  EntitiesOf(After(d, st, log), due \ {st}, log) = EntitiesOf(d, due, log)
<1> DEFINE y == EntitiesOf(d, due, log)
           Kept(e) == SameBooks(EntitiesOf(e, due \ {st}, log), y)
<1> SUFFICES Kept(After(d, st, log))
  BY EntitiesBooks, SameBooksEqual
<1> HIDE DEF y
<1>1. /\ DOMAIN d = Columns
      /\ DOMAIN d.owner = Markets /\ DOMAIN d.strategy = Markets
      /\ DOMAIN d.swapCount = Markets /\ DOMAIN d.marketFees = Markets
      /\ DOMAIN d.reserves = Markets /\ DOMAIN d.pending = Markets
      /\ DOMAIN d.claimed = Markets /\ DOMAIN d.changes = Markets
  BY DEF PerMarket
<1>2. CASE st = "CountCreator"
  <2>1. Kept(CountCreator(d, log))
    BY <1>1, <1>2 DEF CountCreator, Columns, EntitiesOf, SameBooks, y
  <2>2. QED
    BY <1>2, <2>1 DEF After
<1>3. CASE st = "InsertMarket"
  <2>1. Kept(InsertMarket(d, log))
    BY <1>1, <1>3 DEF InsertMarket, Columns, EntitiesOf, SameBooks, y
  <2>2. QED
    BY <1>3, <2>1 DEF After
<1>4. CASE st = "InsertNFT"
  <2>1. Kept(InsertNFT(d, log))
    BY <1>1, <1>4 DEF InsertNFT, Columns, EntitiesOf, SameBooks, y
  <2>2. QED
    BY <1>4, <2>1 DEF After
<1>5. CASE st = "CountMarket"
  <2>1. Kept(CountMarket(d, log))
    BY <1>1, <1>5 DEF CountMarket, Columns, EntitiesOf, SameBooks, y
  <2>2. QED
    BY <1>5, <2>1 DEF After
<1>6. CASE st = "TrackPool"
  <2>1. Kept(TrackPool(d, log))
    BY <1>1, <1>6 DEF TrackPool, Columns, EntitiesOf, SameBooks, y
  <2>2. QED
    BY <1>6, <2>1 DEF After
<1>7. CASE st = "InsertSwap"
  <2>1. Kept(InsertSwap(d, log))
    BY <1>1, <1>7 DEF InsertSwap, Columns, EntitiesOf, SameBooks, y
  <2>2. QED
    BY <1>7, <2>1 DEF After
<1>8. CASE st = "CountSwap"
  <2>1. Kept(CountSwap(d, log))
    BY <1>1, <1>8 DEF CountSwap, Columns, EntitiesOf, SameBooks, y
  <2>2. QED
    BY <1>8, <2>1 DEF After
<1>9. CASE st = "AddPending"
  <2>1. Kept(AddPending(d, log))
    BY <1>1, <1>9, log.market \in d.nfts DEF AddPending, Columns, EntitiesOf, SameBooks, y
  <2>2. QED
    BY <1>9, <2>1 DEF After
<1>10. CASE st = "SetReserves"
  <2>1. Kept(SetReserves(d, log))
    BY <1>1, <1>10 DEF SetReserves, Columns, EntitiesOf, SameBooks, y
  <2>2. QED
    BY <1>10, <2>1 DEF After
<1>11. CASE st = "InsertClaim"
  <2>1. Kept(InsertClaim(d, log))
    BY <1>1, <1>11 DEF InsertClaim, Columns, EntitiesOf, SameBooks, y
  <2>2. QED
    BY <1>11, <2>1 DEF After
<1>12. CASE st = "InsertChange"
  <2>1. Kept(InsertChange(d, log))
    BY <1>1, <1>12 DEF InsertChange, Columns, EntitiesOf, SameBooks, y
  <2>2. QED
    BY <1>12, <2>1 DEF After
<1>13. CASE st = "ApplyStrategy"
  <2>1. Kept(ApplyStrategy(d, log))
    BY <1>1, <1>13 DEF ApplyStrategy, Columns, EntitiesOf, SameBooks, y
  <2>2. QED
    BY <1>13, <2>1 DEF After
<1>14. CASE st = "InsertTransfer"
  <2>1. Kept(InsertTransfer(d, log))
    BY <1>1, <1>14 DEF InsertTransfer, Columns, EntitiesOf, SameBooks, y
  <2>2. QED
    BY <1>14, <2>1 DEF After
<1>15. CASE st = "SetOwner"
  <2>1. Kept(SetOwner(d, log))
    BY <1>1, <1>15 DEF SetOwner, Columns, EntitiesOf, SameBooks, y
  <2>2. QED
    BY <1>15, <2>1 DEF After
<1>16. CASE st = "UpdateMarket"
  <2> DEFINE e == UpdateMarket(d, log)
             x == EntitiesOf(e, due \ {st}, log)
  <2>1. /\ e.swapCount = [d.swapCount EXCEPT ![log.market] = @ + 1]
        /\ e.marketFees = [d.marketFees EXCEPT ![log.market] = @ + log.arg]
        /\ e.markets = d.markets /\ e.nfts = d.nfts /\ e.tracked = d.tracked
        /\ e.owner = d.owner /\ e.strategy = d.strategy /\ e.pending = d.pending
        /\ e.claimed = d.claimed /\ e.changes = d.changes /\ e.totalMarkets = d.totalMarkets
        /\ e.totalSwaps = d.totalSwaps
        /\ e.marketsCreated = d.marketsCreated
        /\ e.swapRows = d.swapRows
        /\ e.claimRows = d.claimRows
        /\ e.changeRows = d.changeRows
        /\ e.transferRows = d.transferRows
    BY <1>1 DEF UpdateMarket, Columns
  <2> HIDE DEF e
  <2>2. x.swapCount = y.swapCount
    BY <1>1, <1>16, <2>1 DEF EntitiesOf, y
  <2>3. x.feesUSID = y.feesUSID
    BY <1>1, <1>16, <2>1 DEF EntitiesOf, y
  <2>4. /\ x.markets = y.markets /\ x.nfts = y.nfts /\ x.tracked = y.tracked
        /\ x.owner = y.owner
        /\ x.feeStrategy = y.feeStrategy
        /\ x.pendingFees = y.pendingFees
        /\ x.totalFeesClaimed = y.totalFeesClaimed
        /\ x.totalMarkets = y.totalMarkets
        /\ x.totalSwaps = y.totalSwaps
        /\ x.marketsCreated = y.marketsCreated /\ x.swaps = y.swaps /\ x.claims = y.claims
        /\ x.changes = y.changes /\ x.transfers = y.transfers
    BY <1>1, <1>16, <2>1 DEF EntitiesOf, y
  <2> HIDE DEF x
  <2>5. SameBooks(x, y)
    BY <2>2, <2>3, <2>4 DEF SameBooks
  <2>6. Kept(e)
    BY <2>5 DEF x
  <2>7. QED
    BY <1>16, <2>6 DEF After, e
<1>17. CASE st = "ApplyClaim"
  <2> DEFINE e == ApplyClaim(d, log)
             x == EntitiesOf(e, due \ {st}, log)
  <2>1. /\ e.claimed = [d.claimed EXCEPT ![log.market] = @ + log.arg]
        /\ e.pending = [d.pending EXCEPT ![log.market] = 0]
        /\ e.markets = d.markets /\ e.nfts = d.nfts /\ e.tracked = d.tracked
        /\ e.owner = d.owner /\ e.strategy = d.strategy /\ e.swapCount = d.swapCount
        /\ e.marketFees = d.marketFees /\ e.reserves = d.reserves /\ e.changes = d.changes
        /\ e.totalMarkets = d.totalMarkets
        /\ e.totalSwaps = d.totalSwaps
        /\ e.marketsCreated = d.marketsCreated
        /\ e.swapRows = d.swapRows
        /\ e.claimRows = d.claimRows
        /\ e.changeRows = d.changeRows
        /\ e.transferRows = d.transferRows
    BY <1>1 DEF ApplyClaim, Columns
  <2> HIDE DEF e
  <2>2. x.totalFeesClaimed = y.totalFeesClaimed
    BY <1>1, <1>17, <2>1 DEF EntitiesOf, y
  <2>3. x.pendingFees = y.pendingFees
    BY <1>1, <1>17, <2>1 DEF EntitiesOf, y
  <2>4. /\ x.markets = y.markets /\ x.nfts = y.nfts /\ x.tracked = y.tracked
        /\ x.owner = y.owner /\ x.feeStrategy = y.feeStrategy /\ x.swapCount = y.swapCount
        /\ x.feesUSID = y.feesUSID
        /\ x.totalMarkets = y.totalMarkets
        /\ x.totalSwaps = y.totalSwaps
        /\ x.marketsCreated = y.marketsCreated /\ x.swaps = y.swaps /\ x.claims = y.claims
        /\ x.changes = y.changes /\ x.transfers = y.transfers
    BY <1>1, <1>17, <2>1 DEF EntitiesOf, y
  <2> HIDE DEF x
  <2>5. SameBooks(x, y)
    BY <2>2, <2>3, <2>4 DEF SameBooks
  <2>6. Kept(e)
    BY <2>5 DEF x
  <2>7. QED
    BY <1>17, <2>6 DEF After, e
<1>18. QED
  BY <1>2, <1>3, <1>4, <1>5, <1>6, <1>7, <1>8, <1>9, <1>10, <1>11, <1>12, <1>13, <1>14,
     <1>15, <1>16, <1>17 DEF Statements

-----------------------------------------------------------------------------
(* More about the loop: what the other properties rest on.                 *)

Horizon == IF toBlock = 0 THEN db.lastBlock ELSE toBlock

(* Without restarts a log cut short is never taken again.                  *)
FaultsInv ==
  /\ crashes \in Nat /\ failures \in Nat
  /\ failures = 0 => lost = {}
  /\ crashes = 0 => /\ failures # 0 => lost # {}
                    /\ \A id \in lost : /\ id[1] \in 0 .. Horizon
                                        /\ \A log \in batch : Id(log) # id

StatementsOf(kind) ==
  CASE kind \in {"MarketCreated", "FactoryMarketCreated"} ->
         {"CountCreator", "InsertMarket", "InsertNFT", "CountMarket", "TrackPool"}
    [] kind = "Swap"                      -> {"InsertSwap", "UpdateMarket",
                                              "CountSwap", "AddPending"}
    [] kind = "Sync"                      -> {"SetReserves"}
    [] kind \in {"FeeClaimed", "FeesClaimed"} -> {"InsertClaim", "ApplyClaim"}
    [] kind \in StrategyKinds             -> {"InsertChange", "ApplyStrategy"}
    [] kind = "NFTTransfer"               -> {"InsertTransfer", "SetOwner"}
    [] OTHER                              -> {}

(* A handler runs each of its statements once.                             *)
DueInv ==
  /\ PerMarket(db)
  /\ \A i, j \in 1 .. Len(todo) : todo[i] = todo[j] => i = j
  /\ todo # <<>> => Range(todo) \subseteq StatementsOf(current.kind)

(* A choice of strategy the loop is done with is applied, or a later one   *)
(* is, or one of the handlers it depends on was cut short.                 *)
ChoicesInv ==
  \A log \in Passed, made \in Emitted :
    /\ log.kind \in StrategyKinds
    /\ made.kind = "MarketCreated" /\ made.market = log.market
    /\ made.block < log.block
    => \/ Id(log) \in lost \/ Id(made) \in lost
       \/ ToRun(log, "ApplyStrategy")
       \/ \E other \in Choices(log.market) :
            log.block <= other.block /\ db.strategy[log.market] = other.arg

NoFaults == crashes = 0 /\ failures = 0

(* Without faults, what the logs passed tell of each market.               *)
BooksInv ==
  NoFaults =>
    /\ "AddPending" \in Range(todo) => current.market \in db.nfts
    /\ Entities.markets = Entities.nfts
    /\ \A m \in Markets :
         /\ m \in Entities.nfts <=>
              \E log \in Passed : log.kind = "MarketCreated" /\ log.market = m
         /\ m \notin Entities.nfts => Entities.feeStrategy[m] = CLAIM
         /\ Entities.pendingFees[m] = Owed(Passed, m)

(* A statement keeps the tables' shape, and only one of them sets strategies. *)
LEMMA AfterKeeps ==
  ASSUME NEW d, PerMarket(d), NEW log, log.market \in Markets, NEW st \in Statements
  PROVE  /\ PerMarket(After(d, st, log))
         /\ After(d, st, log).strategy =
              IF st = "ApplyStrategy" THEN [d.strategy EXCEPT ![log.market] = log.arg]
                                      ELSE d.strategy
<1> DEFINE Kept(e) == PerMarket(e) /\ e.strategy = d.strategy
<1>1. CASE st = "CountCreator"
  <2>1. Kept(CountCreator(d, log))
    BY DEF CountCreator, Columns, PerMarket
  <2>2. QED
    BY <1>1, <2>1 DEF After
<1>2. CASE st = "InsertMarket"
  <2>1. Kept(InsertMarket(d, log))
    BY DEF InsertMarket, Columns, PerMarket
  <2>2. QED
    BY <1>2, <2>1 DEF After
<1>3. CASE st = "InsertNFT"
  <2>1. Kept(InsertNFT(d, log))
    BY DEF InsertNFT, Columns, PerMarket
  <2>2. QED
    BY <1>3, <2>1 DEF After
<1>4. CASE st = "CountMarket"
  <2>1. Kept(CountMarket(d, log))
    BY DEF CountMarket, Columns, PerMarket
  <2>2. QED
    BY <1>4, <2>1 DEF After
<1>5. CASE st = "TrackPool"
  <2>1. Kept(TrackPool(d, log))
    BY DEF TrackPool, Columns, PerMarket
  <2>2. QED
    BY <1>5, <2>1 DEF After
<1>6. CASE st = "InsertSwap"
  <2>1. Kept(InsertSwap(d, log))
    BY DEF InsertSwap, Columns, PerMarket
  <2>2. QED
    BY <1>6, <2>1 DEF After
<1>7. CASE st = "UpdateMarket"
  <2>1. Kept(UpdateMarket(d, log))
    BY DEF UpdateMarket, Columns, PerMarket
  <2>2. QED
    BY <1>7, <2>1 DEF After
<1>8. CASE st = "CountSwap"
  <2>1. Kept(CountSwap(d, log))
    BY DEF CountSwap, Columns, PerMarket
  <2>2. QED
    BY <1>8, <2>1 DEF After
<1>9. CASE st = "AddPending"
  <2>1. Kept(AddPending(d, log))
    BY DEF AddPending, Columns, PerMarket
  <2>2. QED
    BY <1>9, <2>1 DEF After
<1>10. CASE st = "SetReserves"
  <2>1. Kept(SetReserves(d, log))
    BY DEF SetReserves, Columns, PerMarket
  <2>2. QED
    BY <1>10, <2>1 DEF After
<1>11. CASE st = "InsertClaim"
  <2>1. Kept(InsertClaim(d, log))
    BY DEF InsertClaim, Columns, PerMarket
  <2>2. QED
    BY <1>11, <2>1 DEF After
<1>12. CASE st = "ApplyClaim"
  <2>1. Kept(ApplyClaim(d, log))
    BY DEF ApplyClaim, Columns, PerMarket
  <2>2. QED
    BY <1>12, <2>1 DEF After
<1>13. CASE st = "InsertChange"
  <2>1. Kept(InsertChange(d, log))
    BY DEF InsertChange, Columns, PerMarket
  <2>2. QED
    BY <1>13, <2>1 DEF After
<1>14. CASE st = "InsertTransfer"
  <2>1. Kept(InsertTransfer(d, log))
    BY DEF InsertTransfer, Columns, PerMarket
  <2>2. QED
    BY <1>14, <2>1 DEF After
<1>15. CASE st = "SetOwner"
  <2>1. Kept(SetOwner(d, log))
    BY DEF SetOwner, Columns, PerMarket
  <2>2. QED
    BY <1>15, <2>1 DEF After
<1>16. CASE st = "ApplyStrategy"
  <2>1. /\ PerMarket(ApplyStrategy(d, log))
        /\ ApplyStrategy(d, log).strategy = [d.strategy EXCEPT ![log.market] = log.arg]
    BY DEF ApplyStrategy, Columns, PerMarket
  <2>2. QED
    BY <1>16, <2>1 DEF After
<1>17. QED
  BY <1>1, <1>2, <1>3, <1>4, <1>5, <1>6, <1>7, <1>8, <1>9, <1>10, <1>11, <1>12, <1>13,
     <1>14, <1>15, <1>16 DEF Statements

(* What a handler runs, once each.                                         *)
LEMMA HandlerRuns ==
  ASSUME NEW log
  PROVE  /\ \A i, j \in 1 .. Len(processLog(log)) :
              processLog(log)[i] = processLog(log)[j] => i = j
         /\ Range(processLog(log)) \subseteq StatementsOf(log.kind)
<1> DEFINE h == processLog(log)
           Once(s, S) == /\ \A i, j \in 1 .. Len(s) : s[i] = s[j] => i = j
                         /\ Range(s) \subseteq S
<1> SUFFICES Once(h, StatementsOf(log.kind))
  OBVIOUS
<1>1. \A S : Once(<<>>, S)
  BY DEF Range
<1>2. Once(<<"CountCreator", "InsertMarket", "InsertNFT", "CountMarket", "TrackPool">>,
           {"CountCreator", "InsertMarket", "InsertNFT", "CountMarket", "TrackPool"})
  BY DEF Range
<1>3. Once(<<"InsertSwap", "UpdateMarket", "CountSwap", "AddPending">>,
           {"InsertSwap", "UpdateMarket", "CountSwap", "AddPending"})
  BY DEF Range
<1>4. Once(<<"SetReserves">>, {"SetReserves"})
  BY DEF Range
<1>5. Once(<<"InsertClaim", "ApplyClaim">>, {"InsertClaim", "ApplyClaim"})
  BY DEF Range
<1>6. Once(<<"InsertChange", "ApplyStrategy">>, {"InsertChange", "ApplyStrategy"})
  BY DEF Range
<1>7. Once(<<"InsertTransfer", "SetOwner">>, {"InsertTransfer", "SetOwner"})
  BY DEF Range
<1> HIDE DEF Once, h
<1>8. CASE log.kind \in {"MarketCreated", "FactoryMarketCreated"}
  <2>1. h \in {<<>>, <<"CountCreator", "InsertMarket",
               "InsertNFT", "CountMarket", "TrackPool">>}
    BY <1>8 DEF h, processLog, handleMarketCreated, handleFactoryMarketCreated
  <2>2. StatementsOf(log.kind)
          = {"CountCreator", "InsertMarket", "InsertNFT", "CountMarket", "TrackPool"}
    BY <1>8 DEF StatementsOf, StrategyKinds
  <2>3. QED
    BY <1>1, <1>2, <2>1, <2>2
<1>9. CASE log.kind = "Swap"
  <2>1. h \in {<<>>, <<"InsertSwap", "UpdateMarket", "CountSwap", "AddPending">>}
    BY <1>9 DEF h, processLog, handleSwap
  <2>2. StatementsOf(log.kind) = {"InsertSwap", "UpdateMarket", "CountSwap", "AddPending"}
    BY <1>9 DEF StatementsOf, StrategyKinds
  <2>3. QED
    BY <1>1, <1>3, <2>1, <2>2
<1>10. CASE log.kind = "Sync"
  <2>1. h \in {<<>>, <<"SetReserves">>}
    BY <1>10 DEF h, processLog, handleSync
  <2>2. StatementsOf(log.kind) = {"SetReserves"}
    BY <1>10 DEF StatementsOf, StrategyKinds
  <2>3. QED
    BY <1>1, <1>4, <2>1, <2>2
<1>11. CASE log.kind \in {"FeeClaimed", "FeesClaimed"}
  <2>1. h \in {<<>>, <<"InsertClaim", "ApplyClaim">>}
    BY <1>11 DEF h, processLog, handleFeeClaimed, handleNFTFeesClaimed
  <2>2. StatementsOf(log.kind) = {"InsertClaim", "ApplyClaim"}
    BY <1>11 DEF StatementsOf, StrategyKinds
  <2>3. QED
    BY <1>1, <1>5, <2>1, <2>2
<1>12. CASE log.kind \in StrategyKinds
  <2>1. h \in {<<>>, <<"InsertChange", "ApplyStrategy">>}
    BY <1>12 DEF h, processLog, handleFeeStrategyUpdated, handleNFTFeeStrategyUpdated,
       StrategyKinds
  <2>2. StatementsOf(log.kind) = {"InsertChange", "ApplyStrategy"}
    BY <1>12 DEF StatementsOf, StrategyKinds
  <2>3. QED
    BY <1>1, <1>6, <2>1, <2>2
<1>13. CASE log.kind = "NFTTransfer"
  <2>1. h \in {<<>>, <<"InsertTransfer", "SetOwner">>}
    BY <1>13 DEF h, processLog, handleNFTTransfer
  <2>2. StatementsOf(log.kind) = {"InsertTransfer", "SetOwner"}
    BY <1>13 DEF StatementsOf, StrategyKinds
  <2>3. QED
    BY <1>1, <1>7, <2>1, <2>2
<1>14. CASE log.kind \notin {"MarketCreated", "FactoryMarketCreated", "Swap", "Sync",
                            "FeeClaimed", "FeesClaimed", "NFTTransfer"} \union StrategyKinds
  <2>1. h = <<>>
    BY <1>14 DEF h, processLog, StrategyKinds
  <2>2. QED
    BY <1>1, <2>1
<1>15. QED
  BY <1>8, <1>9, <1>10, <1>11, <1>12, <1>13, <1>14

(* The rest of a sequence without repetitions.                             *)
LEMMA TailOnce ==
  ASSUME NEW S, NEW s \in Seq(S), s # <<>>,
         \A i, j \in 1 .. Len(s) : s[i] = s[j] => i = j
  PROVE  /\ \A i, j \in 1 .. Len(Tail(s)) : Tail(s)[i] = Tail(s)[j] => i = j
         /\ Range(Tail(s)) = Range(s) \ {Head(s)}
<1>1. /\ Len(s) \in Nat /\ Len(s) > 0
      /\ Head(s) = s[1] /\ Tail(s) \in Seq(S) /\ Len(Tail(s)) = Len(s) - 1
      /\ DOMAIN Tail(s) = 1 .. (Len(s) - 1)
      /\ \A i \in 1 .. (Len(s) - 1) : Tail(s)[i] = s[i + 1]
  OBVIOUS
<1>2. \A i, j \in 1 .. Len(Tail(s)) : Tail(s)[i] = Tail(s)[j] => i = j
  <2> SUFFICES ASSUME NEW i \in 1 .. (Len(s) - 1), NEW j \in 1 .. (Len(s) - 1),
                      s[i + 1] = s[j + 1]
               PROVE  i = j
    BY <1>1
  <2>1. i + 1 \in 1 .. Len(s) /\ j + 1 \in 1 .. Len(s)
    BY <1>1
  <2>2. i + 1 = j + 1
    BY <2>1
  <2>3. QED
    BY <2>2
<1>3. Head(s) \notin Range(Tail(s))
  <2> SUFFICES ASSUME NEW i \in 1 .. (Len(s) - 1), s[i + 1] = s[1] PROVE FALSE
    BY <1>1 DEF Range
  <2>1. i + 1 \in 1 .. Len(s) /\ 1 \in 1 .. Len(s)
    BY <1>1
  <2>2. i + 1 = 1
    BY <2>1
  <2>3. QED
    BY <2>2
<1>4. QED
  BY <1>2, <1>3, HeadAndTail

-----------------------------------------------------------------------------
(* These too hold after every step.                                        *)

LEMMA CurrentFacts ==
  ASSUME Inv, todo # <<>>
  PROVE  /\ current \in Emitted \ batch /\ current \in Logs /\ current.market \in Markets
         /\ current.block \in Nat /\ current.block <= toBlock /\ toBlock # 0
         /\ todo \in Seq(Statements) /\ Head(todo) \in Statements
         /\ Head(todo) \in Range(todo)
         /\ \A done \in Passed : done.block <= current.block
<1>1. /\ current \in Emitted \ batch /\ current.block <= toBlock
      /\ todo \in Seq(Statements) /\ toBlock # 0
      /\ \A done \in Passed : done.block <= current.block
  BY DEF Inv, LoopInv
<1>2. current \in Logs /\ current.market \in Markets /\ current.block \in Nat
  BY <1>1, EmittedFacts DEF Inv, ChainInv
<1>3. Head(todo) \in Statements /\ Head(todo) \in Range(todo)
  BY <1>1, HeadAndTail
<1>4. QED
  BY <1>1, <1>2, <1>3

LEMMA DueKept ==
  ASSUME Inv, DueInv, [Next]_vars
  PROVE  DueInv'
<1>1. CASE db' = db /\ (todo' = <<>> \/ (todo' = todo /\ current' = current))
  BY <1>1 DEF DueInv, PerMarket
<1>2. CASE Mined \/ UNCHANGED vars
  BY <1>1, <1>2 DEF Mined, vars, loopVars
<1>3. CASE StartBatch \/ HandlerFails \/ Restart
  BY <1>1, <1>3 DEF StartBatch, HandlerFails, Restart
<1>4. CASE TakeLog
  <2>1. PICK log \in batch : current' = log /\ todo' = processLog(log)
    BY <1>4, LogTaken
  <2>2. db' = db
    BY <1>4 DEF TakeLog
  <2>3. QED
    BY <2>1, <2>2, HandlerRuns DEF DueInv, PerMarket
<1>5. CASE Statement
  <2>1. /\ todo # <<>> /\ db' = After(db, Head(todo), current)
        /\ todo' = Tail(todo) /\ current' = current
    BY <1>5 DEF Statement
  <2>2. PerMarket(db')
    BY <2>1, CurrentFacts, AfterKeeps DEF DueInv
  <2>3. /\ \A i, j \in 1 .. Len(todo') : todo'[i] = todo'[j] => i = j
        /\ Range(todo') \subseteq Range(todo)
    BY <2>1, CurrentFacts, TailOnce DEF DueInv
  <2>4. QED
    BY <2>1, <2>2, <2>3 DEF DueInv, PerMarket
<1>6. CASE Checkpoint
  <2>1. /\ db' = [db EXCEPT !.lastBlock = toBlock] /\ todo' = todo /\ todo = <<>>
    BY <1>6 DEF Checkpoint
  <2>2. PerMarket(db')
    BY <2>1 DEF DueInv, PerMarket, Columns
  <2>3. QED
    BY <2>1, <2>2 DEF DueInv, PerMarket
<1>7. QED
  BY <1>2, <1>3, <1>4, <1>5, <1>6 DEF Next, IndexerStep

LEMMA FaultsKept ==
  ASSUME Inv, Inv', FaultsInv, [Next]_vars
  PROVE  FaultsInv'
<1>1. /\ crashes \in Nat /\ failures \in Nat /\ db.lastBlock \in Nat /\ toBlock \in Nat
      /\ \A log \in Emitted : log.block \in Nat
      /\ \A log, other \in Emitted : Id(log) = Id(other) => log = other
      /\ batch \subseteq Emitted
  BY LoopFacts, EmittedFacts DEF FaultsInv, Inv, LoopInv, ChainInv
<1>2. CASE Mined \/ UNCHANGED vars
  <2>1. /\ crashes' = crashes /\ failures' = failures /\ lost' = lost /\ batch' = batch
        /\ Horizon' = Horizon
    BY <1>2 DEF Mined, vars, loopVars, faultVars, Horizon
  <2>2. QED
    BY <2>1 DEF FaultsInv
<1>3. CASE StartBatch
  <2>1. /\ crashes' = crashes /\ failures' = failures /\ lost' = lost
        /\ toBlock = 0 /\ db' = db
    BY <1>3 DEF StartBatch, faultVars
  <2>2. LoopInv'
    BY DEF Inv
  <2>3. /\ \A log \in batch' : db.lastBlock < log.block
        /\ toBlock' \in Nat /\ (toBlock' # 0 => db.lastBlock < toBlock')
    BY <2>1, <2>2 DEF LoopInv
  <2>4. Horizon = db.lastBlock /\ Horizon' \in Nat /\ Horizon <= Horizon'
    BY <1>1, <2>1, <2>3 DEF Horizon
  <2>5. ASSUME crashes = 0, NEW id \in lost
        PROVE  id[1] \in 0 .. Horizon' /\ \A log \in batch' : Id(log) # id
    <3>1. id[1] \in 0 .. db.lastBlock
      BY <2>4, <2>5 DEF FaultsInv
    <3>2. id[1] \in 0 .. Horizon'
      BY <1>1, <2>4, <3>1
    <3>3. ASSUME NEW log \in batch', Id(log) = id PROVE FALSE
      <4>1. log.block = id[1]
        BY <3>3 DEF Id
      <4>2. QED
        BY <1>1, <2>3, <3>1, <4>1
    <3>4. QED
      BY <3>2, <3>3
  <2>6. QED
    BY <2>1, <2>5 DEF FaultsInv
<1>4. CASE TakeLog
  <2>1. PICK log \in batch : batch' = batch \ {log} /\ lost' = lost \ {Id(log)}
    BY <1>4, LogTaken
  <2>2. crashes' = crashes /\ failures' = failures /\ Horizon' = Horizon
    BY <1>4 DEF TakeLog, Horizon
  <2>3. crashes = 0 => lost' = lost
    BY <2>1 DEF FaultsInv
  <2>4. QED
    BY <2>1, <2>2, <2>3 DEF FaultsInv
<1>5. CASE Statement
  <2>1. /\ crashes' = crashes /\ failures' = failures /\ lost' = lost /\ batch' = batch
        /\ toBlock' = toBlock /\ todo # <<>>
    BY <1>5 DEF Statement, faultVars
  <2>2. Horizon' = Horizon
    BY <2>1, CurrentFacts DEF Horizon
  <2>3. QED
    BY <2>1, <2>2 DEF FaultsInv
<1>6. CASE Checkpoint
  <2>1. /\ crashes' = crashes /\ failures' = failures /\ lost' = lost /\ batch' = batch
        /\ toBlock' = 0 /\ toBlock > 0 /\ db' = [db EXCEPT !.lastBlock = toBlock]
    BY <1>6 DEF Checkpoint, faultVars
  <2>2. Horizon' = Horizon
    BY <1>1, <2>1 DEF Horizon, Inv, LoopInv, TablesOK, Columns
  <2>3. QED
    BY <2>1, <2>2 DEF FaultsInv
<1>7. CASE HandlerFails
  <2>1. /\ failures' = failures + 1 /\ lost' = lost \union {Id(current)}
        /\ crashes' = crashes /\ batch' = batch /\ todo # <<>>
        /\ Horizon' = Horizon
    BY <1>7 DEF HandlerFails, Horizon
  <2>2. Id(current)[1] \in 0 .. Horizon
    BY <1>1, <2>1, CurrentFacts DEF Horizon, Id
  <2>3. \A log \in batch : Id(log) # Id(current)
    BY <1>1, <2>1, CurrentFacts
  <2>4. failures' \in Nat /\ failures' # 0 /\ lost' # {}
    BY <1>1, <2>1
  <2>5. QED
    BY <2>1, <2>2, <2>3, <2>4 DEF FaultsInv
<1>8. CASE Restart
  <2>1. crashes' = crashes + 1 /\ failures' = failures /\ lost' = lost
    BY <1>8 DEF Restart
  <2>2. crashes' \in Nat /\ crashes' # 0
    BY <1>1, <2>1
  <2>3. QED
    BY <2>1, <2>2 DEF FaultsInv
<1>9. QED
  BY <1>2, <1>3, <1>4, <1>5, <1>6, <1>7, <1>8 DEF Next, IndexerStep

LEMMA ChoicesCarried ==
  ASSUME Inv, ChoicesInv, db'.strategy = db.strategy, Passed' \subseteq Passed,
         lost \subseteq lost', Emitted \subseteq Emitted',
         \A log \in Emitted' \ Emitted : log.block = Height + 1,
         \A log \in Passed' : ToRun(log, "ApplyStrategy") =>
           Id(log) \in lost' \/ ToRun(log, "ApplyStrategy")'
  PROVE  ChoicesInv'
<1> SUFFICES ASSUME NEW log \in Passed', NEW made \in Emitted',
                    log.kind \in StrategyKinds, made.kind = "MarketCreated",
                    made.market = log.market, made.block < log.block
             PROVE  \/ Id(log) \in lost' \/ Id(made) \in lost'
                    \/ ToRun(log, "ApplyStrategy")'
                    \/ \E other \in Choices(log.market)' :
                         /\ log.block <= other.block
                         /\ db'.strategy[log.market] = other.arg
  BY DEF ChoicesInv
<1>1. log \in Passed /\ Passed \subseteq Emitted
  BY DEF Passed
<1>2. made \in Emitted
  <2>1. log.block \in 1 .. Height /\ Height \in Nat
    BY <1>1, LoopFacts DEF Inv
  <2>2. QED
    BY <2>1
<1>3. Choices(log.market) \subseteq Choices(log.market)'
  BY DEF Choices
<1>4. QED
  BY <1>1, <1>2, <1>3 DEF ChoicesInv

LEMMA ChoicesKept ==
  ASSUME Inv, Inv', DueInv, ChoicesInv, [Next]_vars
  PROVE  ChoicesInv'
<1>1. /\ Passed \subseteq Emitted
      /\ \A log \in Emitted : log.block \in Nat /\ log.index \in Nat /\ log.market \in Markets
      /\ \A log, other \in Emitted : Id(log) = Id(other) => log = other
  BY LoopFacts, EmittedFacts DEF Inv, ChainInv, Passed
<1>2. CASE Mined
  <2>1. Transaction /\ db' = db /\ lost' = lost /\ current' = current /\ todo' = todo
    BY <1>2 DEF Mined, loopVars, faultVars
  <2>2. /\ Emitted \subseteq Emitted'
        /\ \A log \in Emitted' \ Emitted : log.block = Height + 1
    BY <2>1, TransactionKeepsChain DEF Inv
  <2>3. Passed' = Passed
    BY <1>2, MinedKeepsInv
  <2>4. QED
    BY <2>1, <2>2, <2>3, ChoicesCarried DEF ToRun
<1>3. UNCHANGED chainVars => Emitted' = Emitted
  BY ChainSame DEF Inv
<1>4. CASE UNCHANGED vars
  <2>1. /\ UNCHANGED chainVars /\ db' = db /\ lost' = lost
        /\ current' = current /\ todo' = todo
    BY <1>4 DEF vars, loopVars, faultVars
  <2>2. QED
    BY <1>3, <1>4, <2>1, StutterKeepsInv, ChoicesCarried DEF ToRun
<1>5. CASE StartBatch
  <2>1. /\ UNCHANGED chainVars /\ db' = db /\ lost' = lost
        /\ current' = current /\ todo' = todo
    BY <1>5 DEF StartBatch, faultVars
  <2>2. QED
    BY <1>3, <1>5, <2>1, StartBatchKeepsInv, ChoicesCarried DEF ToRun
<1>6. CASE Checkpoint
  <2>1. /\ UNCHANGED chainVars /\ lost' = lost /\ current' = current /\ todo' = todo
        /\ db' = [db EXCEPT !.lastBlock = toBlock]
    BY <1>6 DEF Checkpoint, faultVars
  <2>2. db'.strategy = db.strategy
    BY <2>1 DEF DueInv, PerMarket, Columns
  <2>3. QED
    BY <1>3, <1>6, <2>1, <2>2, CheckpointKeepsInv, ChoicesCarried DEF ToRun
<1>7. CASE HandlerFails
  <2>1. /\ UNCHANGED chainVars /\ db' = db /\ lost' = lost \union {Id(current)}
    BY <1>7 DEF HandlerFails
  <2>2. \A log : ToRun(log, "ApplyStrategy") => Id(log) \in lost'
    BY <2>1 DEF ToRun
  <2>3. QED
    BY <1>3, <1>7, <2>1, <2>2, HandlerFailsKeepsInv, ChoicesCarried
<1>8. CASE Restart
  <2>1. /\ UNCHANGED chainVars /\ db' = db /\ lost' = lost /\ toBlock' = 0
    BY <1>8 DEF Restart
  <2>2. Passed' \subseteq Passed
    BY <1>8, RestartKeepsInv
  <2>3. ASSUME NEW log \in Passed', ToRun(log, "ApplyStrategy") PROVE FALSE
    <3>1. todo # <<>> /\ current = log
      BY <2>3 DEF ToRun, Range
    <3>2. db.lastBlock < log.block
      BY <3>1 DEF Inv, LoopInv
    <3>3. log \in Emitted /\ db.lastBlock \in Nat /\ log.block # 0
      BY <1>1, <2>2, LoopFacts DEF Inv
    <3>4. log.block <= db'.lastBlock \/ log.block <= toBlock'
      BY DEF Passed
    <3>5. QED
      BY <1>1, <2>1, <3>2, <3>3, <3>4
  <2>4. QED
    BY <1>3, <2>1, <2>2, <2>3, ChoicesCarried
<1>9. CASE TakeLog
  <2>1. PICK log \in batch :
          /\ current' = log /\ todo' = processLog(log) /\ lost' = lost \ {Id(log)}
          /\ log \in Emitted
          /\ \A done \in Passed : done # log /\ Before(done, log)
          /\ \A other \in Emitted \ Passed : other.kind # "Sync" => Before(log, other)
          /\ Passed' = IF log.kind = "Sync" THEN Passed ELSE Passed \union {log}
    BY <1>9, LogTaken
  <2>2. todo = <<>> /\ UNCHANGED chainVars /\ db' = db
    BY <1>9 DEF TakeLog
  <2>3. /\ Emitted' = Emitted /\ \A m : Choices(m)' = Choices(m)
        /\ \A l, st : ~ ToRun(l, st)
    BY <1>3, <2>2 DEF Choices, ToRun, Range
  <2> SUFFICES ASSUME NEW l \in Passed', NEW made \in Emitted,
                      l.kind \in StrategyKinds, made.kind = "MarketCreated",
                      made.market = l.market, made.block < l.block, Id(made) \notin lost'
               PROVE  \/ Id(l) \in lost' \/ ToRun(l, "ApplyStrategy")'
                      \/ \E other \in Choices(l.market) :
                           l.block <= other.block /\ db.strategy[l.market] = other.arg
    BY <2>2, <2>3 DEF ChoicesInv
  <2>4. made # log /\ Id(made) \notin lost
    <3>1. made # log
      BY <1>1, <2>1 DEF Before
    <3>2. QED
      BY <1>1, <2>1, <3>1
  <2>5. CASE l = log
    <3>1. made \in Passed
      BY <1>1, <2>1, <2>5 DEF Before
    <3>2. log.market \in db.nfts
      BY <2>3, <2>4, <2>5, <3>1 DEF Inv, CreationsInv
    <3>3. todo' = <<"InsertChange", "ApplyStrategy">>
      BY <2>1, <2>5, <3>2 DEF processLog, handleFeeStrategyUpdated,
                              handleNFTFeeStrategyUpdated, StrategyKinds
    <3>4. "ApplyStrategy" \in Range(todo')
      BY <3>3 DEF Range
    <3>5. QED
      BY <2>1, <2>5, <3>4 DEF ToRun
  <2>6. CASE l # log
    <3>1. l \in Passed /\ (Id(l) \in lost => Id(l) \in lost')
      BY <1>1, <2>1, <2>6
    <3>2. QED
      BY <2>3, <2>4, <3>1 DEF ChoicesInv
  <2>7. QED
    BY <2>5, <2>6
<1>10. CASE Statement
  <2> DEFINE st == Head(todo)
             c == current
  <2>1. /\ todo # <<>> /\ db' = After(db, st, c) /\ todo' = Tail(todo)
        /\ UNCHANGED chainVars /\ current' = current /\ lost' = lost
    BY <1>10 DEF Statement, faultVars
  <2>2. /\ st \in Statements /\ st \in Range(todo) /\ c.market \in Markets /\ c \in Emitted
        /\ \A done \in Passed : done.block <= c.block
    BY <2>1, CurrentFacts
  <2>3. db'.strategy = IF st = "ApplyStrategy" THEN [db.strategy EXCEPT ![c.market] = c.arg]
                                               ELSE db.strategy
    BY <2>1, <2>2, AfterKeeps DEF DueInv
  <2>4. Range(todo') = Range(todo) \ {st}
    BY <2>1, CurrentFacts, TailOnce DEF DueInv
  <2>5. Emitted' = Emitted /\ Passed' = Passed /\ \A m : Choices(m)' = Choices(m)
    BY <1>3, <1>10, <2>1, StatementKeepsInv DEF Choices
  <2>6. \A l, s : ToRun(l, s) => ToRun(l, s)' \/ (l = c /\ s = st)
    BY <2>1, <2>4 DEF ToRun
  <2>7. st = "ApplyStrategy" => c \in Choices(c.market)
    BY <2>1, <2>2 DEF DueInv, Choices, StatementsOf, StrategyKinds
  <2>8. DOMAIN db.strategy = Markets
    BY DEF DueInv, PerMarket
  <2> HIDE DEF st, c
  <2> SUFFICES ASSUME NEW l \in Passed, NEW made \in Emitted,
                      l.kind \in StrategyKinds, made.kind = "MarketCreated",
                      made.market = l.market, made.block < l.block,
                      Id(l) \notin lost, Id(made) \notin lost
               PROVE  \/ ToRun(l, "ApplyStrategy")'
                      \/ \E other \in Choices(l.market) :
                           l.block <= other.block /\ db'.strategy[l.market] = other.arg
    BY <2>1, <2>5 DEF ChoicesInv
  <2>9. CASE st = "ApplyStrategy" /\ c.market = l.market
    <3>1. db'.strategy[l.market] = c.arg
      BY <2>2, <2>3, <2>8, <2>9
    <3>2. l.block <= c.block
      BY <2>2
    <3>3. c \in Choices(l.market)
      BY <2>7, <2>9
    <3>4. QED
      BY <3>1, <3>2, <3>3
  <2>10. CASE ~ (st = "ApplyStrategy" /\ c.market = l.market)
    <3>1. db'.strategy[l.market] = db.strategy[l.market]
      BY <1>1, <2>3, <2>8, <2>10
    <3>2. ToRun(l, "ApplyStrategy") => ToRun(l, "ApplyStrategy")'
      BY <2>6, <2>10
    <3>3. QED
      BY <3>1, <3>2 DEF ChoicesInv
  <2>11. QED
    BY <2>9, <2>10
<1>11. QED
  BY <1>2, <1>4, <1>5, <1>6, <1>7, <1>8, <1>9, <1>10 DEF Next, IndexerStep

-----------------------------------------------------------------------------
(* Without faults: the entities change when a log is taken, and then as    *)
(* the subgraph's handler changes them.                                    *)

LEMMA EntitiesKept ==
  ASSUME Inv, DueInv, BooksInv, NoFaults,
         Mined \/ StartBatch \/ Statement \/ Checkpoint \/ UNCHANGED vars
  PROVE  Entities' = Entities
<1>1. CASE db' = db /\ todo' = todo /\ current' = current
  BY <1>1 DEF Entities
<1>2. CASE Mined \/ StartBatch \/ UNCHANGED vars
  BY <1>1, <1>2 DEF Mined, StartBatch, vars, loopVars
<1>3. CASE Statement
  <2>1. /\ todo # <<>> /\ db' = After(db, Head(todo), current)
        /\ todo' = Tail(todo) /\ current' = current
    BY <1>3 DEF Statement
  <2>2. Range(todo)' = Range(todo) \ {Head(todo)}
    BY <2>1, CurrentFacts, TailOnce DEF DueInv
  <2>3. PerMarket(db) /\ Range(todo) \subseteq StatementsOf(current.kind)
    BY <2>1 DEF DueInv
  <2>4. "AddPending" \notin Range(todo) \/ "ApplyClaim" \notin Range(todo)
    BY <2>3 DEF StatementsOf, StrategyKinds
  <2>5. Head(todo) = "AddPending" => current.market \in db.nfts
    BY <2>1, CurrentFacts DEF BooksInv
  <2>6. EntitiesOf(After(db, Head(todo), current), Range(todo) \ {Head(todo)}, current)
          = EntitiesOf(db, Range(todo), current)
    BY <2>1, <2>3, <2>4, <2>5, CurrentFacts, StatementAccounted
  <2>7. QED
    BY <2>1, <2>2, <2>6 DEF Entities
<1>4. CASE Checkpoint
  <2>1. db' = [db EXCEPT !.lastBlock = toBlock] /\ todo' = todo /\ current' = current
    BY <1>4 DEF Checkpoint
  <2> DEFINE x == EntitiesOf(db', Range(todo), current)
             y == EntitiesOf(db, Range(todo), current)
  <2>2. /\ db'.markets = db.markets /\ db'.nfts = db.nfts /\ db'.tracked = db.tracked
        /\ db'.owner = db.owner
        /\ db'.strategy = db.strategy
        /\ db'.swapCount = db.swapCount
        /\ db'.marketFees = db.marketFees
        /\ db'.reserves = db.reserves
        /\ db'.pending = db.pending
        /\ db'.claimed = db.claimed
        /\ db'.changes = db.changes
        /\ db'.totalMarkets = db.totalMarkets
        /\ db'.totalSwaps = db.totalSwaps
        /\ db'.marketsCreated = db.marketsCreated
        /\ db'.swapRows = db.swapRows
        /\ db'.claimRows = db.claimRows
        /\ db'.changeRows = db.changeRows
        /\ db'.transferRows = db.transferRows
    BY <2>1 DEF DueInv, PerMarket, Columns
  <2>3. SameBooks(x, y)
    BY <2>2 DEF SameBooks, EntitiesOf
  <2>4. x = y
    BY <2>3, EntitiesBooks, SameBooksEqual
  <2>5. QED
    BY <2>1, <2>4 DEF Entities
<1>5. QED
  BY <1>2, <1>3, <1>4

(* What is known of the market of the log that is taken next.              *)
LEMMA MarketOfTaken ==
  ASSUME Inv, FaultsInv, BooksInv, NoFaults, todo = <<>>,
         NEW log \in Emitted, log \notin Passed,
         \A other \in Emitted \ Passed : other.kind # "Sync" => Before(log, other)
  PROVE  /\ log.market \in Markets
         /\ Entities = EntitiesOf(db, {}, current)
         /\ Entities.markets = db.markets /\ db.markets = db.nfts /\ Entities.nfts = db.nfts
         /\ log.kind \in {"FactoryMarketCreated"} \union FeeKinds => log.market \in db.nfts
         /\ log.kind = "MarketCreated" =>
              log.market \notin db.nfts /\ db.strategy[log.market] = CLAIM
<1>1. Entities = EntitiesOf(db, {}, current)
  <2>1. Range(todo) = {}
    BY DEF Range
  <2>2. QED
    BY <2>1 DEF Entities
<1>2. /\ Entities.markets = db.markets /\ Entities.nfts = db.nfts
      /\ Entities.feeStrategy = [m \in Markets |-> db.strategy[m]]
  BY <1>1 DEF EntitiesOf
<1>3. /\ log.market \in Markets
      /\ \A l \in Emitted : l.block \in Nat /\ l.index \in Nat
      /\ \A l, k \in Emitted : Id(l) = Id(k) => l = k
  BY LoopFacts, EmittedFacts DEF Inv, ChainInv
<1>4. /\ db.markets = db.nfts
      /\ log.market \in db.nfts <=>
           \E l \in Passed : l.kind = "MarketCreated" /\ l.market = log.market
      /\ log.market \notin db.nfts => db.strategy[log.market] = CLAIM
  BY <1>2, <1>3 DEF BooksInv
<1>5. PICK made \in Emitted : made.kind = "MarketCreated" /\ made.market = log.market
  BY DEF Inv, ChainInv, LogsInOrder
<1>6. ASSUME log.kind \in {"FactoryMarketCreated"} \union FeeKinds
      PROVE  made \in Passed
  <2>1. Before(made, log)
    BY <1>5, <1>6 DEF Inv, ChainInv, LogsInOrder, Before
  <2>2. made # log
    BY <1>5, <1>6 DEF FeeKinds
  <2>3. ~ Before(log, made)
    BY <1>3, <2>1, <2>2 DEF Before, Id
  <2>4. QED
    BY <1>5, <2>3
<1>7. ASSUME log.kind = "MarketCreated"
      PROVE  log.market \notin db.nfts
  <2>1. ASSUME NEW l \in Passed, l.kind = "MarketCreated", l.market = log.market
        PROVE  FALSE
    <3>1. l \in Emitted
      BY DEF Passed
    <3>2. l = log
      BY <1>7, <2>1, <3>1 DEF Inv, ChainInv, LogsInOrder
    <3>3. QED
      BY <3>2
  <2>2. QED
    BY <1>4, <2>1
<1>8. QED
  BY <1>1, <1>2, <1>3, <1>4, <1>5, <1>6, <1>7

LEMMA TupleRanges ==
  /\ Range(<<>>) = {}
  /\ \A a : Range(<<a>>) = {a} /\ \A b : Range(<<a, b>>) = {a, b}
BY DEF Range

(* Taking a log records what the subgraph's handler records.               *)
LEMMA TakenRecorded ==
  ASSUME Inv, FaultsInv, BooksInv, NoFaults, todo = <<>>,
         NEW log \in Emitted, log \notin Passed,
         \A other \in Emitted \ Passed : other.kind # "Sync" => Before(log, other)
  PROVE  EntitiesOf(db, Range(processLog(log)), log)
           = IF log.kind = "Sync" THEN Entities ELSE Sub!Handle(Entities, log)
<1> DEFINE x == EntitiesOf(db, Range(processLog(log)), log)
           b == Entities
           m == log.market
<1>1. /\ m \in Markets /\ b = EntitiesOf(db, {}, current)
      /\ b.markets = db.markets /\ db.markets = db.nfts /\ b.nfts = db.nfts
      /\ log.kind \in {"FactoryMarketCreated"} \union FeeKinds => m \in db.nfts
      /\ log.kind = "MarketCreated" => m \notin db.nfts /\ db.strategy[m] = CLAIM
  BY MarketOfTaken
<1>2. \A due \in {{}, {"SetReserves"}} : EntitiesOf(db, due, log) = b
  BY <1>1, NothingHandled
<1> HIDE DEF b
<1>3. CASE log.kind = "MarketCreated"
  <2>1. Range(processLog(log))
          = {"CountCreator", "InsertMarket", "InsertNFT", "CountMarket", "TrackPool"}
    <3>1. processLog(log)
            = <<"CountCreator", "InsertMarket", "InsertNFT", "CountMarket", "TrackPool">>
      BY <1>3 DEF processLog, handleMarketCreated
    <3>2. Range(<<"CountCreator", "InsertMarket", "InsertNFT", "CountMarket", "TrackPool">>)
            = {"CountCreator", "InsertMarket", "InsertNFT", "CountMarket", "TrackPool"}
      BY DEF Range
    <3>3. QED
      BY <3>1, <3>2, Zenon
  <2>2. Sub!Handle(b, log) = Sub!handleMarketCreated(b, log)
    BY <1>3 DEF Sub!Handle
  <2>3. QED
    BY <1>1, <1>3, <2>1, <2>2, CreationHandled DEF b
<1>4. CASE log.kind = "FactoryMarketCreated"
  <2>1. m \in db.markets
    BY <1>1, <1>4
  <2>2. Range(processLog(log)) = {}
    BY <1>4, <2>1, TupleRanges DEF processLog, handleFactoryMarketCreated
  <2>3. Sub!Handle(b, log) = b
    BY <1>1, <1>4, <2>1 DEF Sub!Handle, Sub!handleFactoryMarketCreated
  <2>4. QED
    BY <1>2, <1>4, <2>2, <2>3 DEF b
<1>5. CASE log.kind = "Swap"
  <2>1. m \in db.markets
    BY <1>1, <1>5 DEF FeeKinds
  <2>2. Range(processLog(log)) = {"InsertSwap", "UpdateMarket", "CountSwap", "AddPending"}
    <3>1. processLog(log) = <<"InsertSwap", "UpdateMarket", "CountSwap", "AddPending">>
      BY <1>5, <2>1 DEF processLog, handleSwap
    <3>2. Range(<<"InsertSwap", "UpdateMarket", "CountSwap", "AddPending">>)
            = {"InsertSwap", "UpdateMarket", "CountSwap", "AddPending"}
      BY DEF Range
    <3>3. QED
      BY <3>1, <3>2, Zenon
  <2>3. Sub!Handle(b, log) = Sub!handleSwap(b, log)
    BY <1>5 DEF Sub!Handle
  <2>4. QED
    BY <1>1, <1>5, <2>1, <2>2, <2>3, SwapHandled DEF b
<1>6. CASE log.kind \in {"FeeClaimed", "FeesClaimed"}
  <2>1. m \in db.nfts
    BY <1>1, <1>6 DEF FeeKinds
  <2>2. Range(processLog(log)) = {"InsertClaim", "ApplyClaim"}
    BY <1>6, <2>1, TupleRanges DEF processLog, handleFeeClaimed, handleNFTFeesClaimed
  <2>3. Sub!Handle(b, log) = Sub!handleFeeClaimed(b, log)
    BY <1>6 DEF Sub!Handle, Sub!handleNFTFeesClaimed
  <2>4. QED
    BY <1>1, <1>6, <2>1, <2>2, <2>3, ClaimHandled DEF b
<1>7. CASE log.kind \in StrategyKinds
  <2>1. Sub!Handle(b, log) = Sub!handleFeeStrategyUpdated(b, log)
    BY <1>7 DEF Sub!Handle, Sub!handleNFTFeeStrategyUpdated, StrategyKinds
  <2>2. CASE m \in db.nfts
    <3>1. Range(processLog(log)) = {"InsertChange", "ApplyStrategy"}
      BY <1>7, <2>2, TupleRanges DEF processLog, StrategyKinds, handleFeeStrategyUpdated,
                                     handleNFTFeeStrategyUpdated
    <3>2. QED
      BY <1>1, <1>7, <2>1, <2>2, <3>1, ChangeHandled DEF b, StrategyKinds
  <2>3. CASE m \notin db.nfts
    <3>1. Range(processLog(log)) = {}
      BY <1>7, <2>3, TupleRanges DEF processLog, StrategyKinds, handleFeeStrategyUpdated,
                                     handleNFTFeeStrategyUpdated
    <3>2. Sub!handleFeeStrategyUpdated(b, log) = b
      BY <1>1, <2>3 DEF Sub!handleFeeStrategyUpdated
    <3>3. QED
      BY <1>2, <1>7, <2>1, <3>1, <3>2 DEF b, StrategyKinds
  <2>4. QED
    BY <2>2, <2>3
<1>8. CASE log.kind = "NFTTransfer"
  <2>1. Sub!Handle(b, log) = Sub!handleNFTTransfer(b, log)
    BY <1>8 DEF Sub!Handle
  <2>2. CASE m \in db.nfts
    <3>1. Range(processLog(log)) = {"InsertTransfer", "SetOwner"}
      BY <1>8, <2>2, TupleRanges DEF processLog, handleNFTTransfer
    <3>2. QED
      BY <1>1, <1>8, <2>1, <2>2, <3>1, TransferHandled DEF b
  <2>3. CASE m \notin db.nfts
    <3>1. Range(processLog(log)) = {}
      BY <1>8, <2>3, TupleRanges DEF processLog, handleNFTTransfer
    <3>2. Sub!handleNFTTransfer(b, log) = b
      BY <1>1, <2>3 DEF Sub!handleNFTTransfer
    <3>3. QED
      BY <1>2, <1>8, <2>1, <3>1, <3>2 DEF b
  <2>4. QED
    BY <2>2, <2>3
<1>9. CASE log.kind = "Sync"
  <2>1. Range(processLog(log)) \in {{}, {"SetReserves"}}
    BY <1>9, TupleRanges DEF processLog, handleSync
  <2>2. QED
    BY <1>2, <1>9, <2>1 DEF b
<1>10. CASE log.kind \notin {"MarketCreated", "FactoryMarketCreated", "Swap", "Sync",
                           "FeeClaimed", "FeesClaimed", "NFTTransfer"} \union StrategyKinds
  <2>1. Range(processLog(log)) = {}
    BY <1>10, TupleRanges DEF processLog, StrategyKinds
  <2>2. Sub!Handle(b, log) = b
    BY <1>10 DEF Sub!Handle, StrategyKinds
  <2>3. QED
    BY <1>2, <1>10, <2>1, <2>2 DEF b
<1>11. QED
  BY <1>3, <1>4, <1>5, <1>6, <1>7, <1>8, <1>9, <1>10

(* What a subgraph handler does to the fields of BooksInv.                 *)
LEMMA HandleEffect ==
  ASSUME NEW b, Books(b), NEW log, log.market \in Markets,
         DOMAIN b.feeStrategy = Markets, DOMAIN b.pendingFees = Markets,
         b.markets = b.nfts,
         log.kind = "FactoryMarketCreated" => log.market \in b.markets,
         log.kind \in FeeKinds => log.market \in b.nfts,
         NEW e, e = Sub!Handle(b, log)
  PROVE  /\ e.markets = e.nfts
         /\ e.nfts = IF log.kind = "MarketCreated" THEN b.nfts \union {log.market}
                                                   ELSE b.nfts
         /\ \A m \in Markets :
              /\ m \notin e.nfts => e.feeStrategy[m] = b.feeStrategy[m]
              /\ e.pendingFees[m] =
                   IF m = log.market /\ log.kind = "Swap" THEN b.pendingFees[m] + log.arg
                   ELSE IF m = log.market /\ log.kind \in {"FeeClaimed", "FeesClaimed"}
                        THEN 0 ELSE b.pendingFees[m]
<1>1. DOMAIN b = Fields
  BY DEF Books
<1>2. CASE log.kind = "MarketCreated"
  <2>1. e = Sub!handleMarketCreated(b, log)
    BY <1>2 DEF Sub!Handle
  <2>2. /\ e.markets = b.markets \union {log.market} /\ e.nfts = b.nfts \union {log.market}
        /\ e.feeStrategy = [b.feeStrategy EXCEPT ![log.market] = CLAIM]
        /\ e.pendingFees = b.pendingFees
    BY <1>1, <2>1 DEF Sub!handleMarketCreated, Fields
  <2>3. QED
    BY <1>2, <2>2
<1>3. CASE log.kind = "Swap"
  <2>1. e = Sub!handleSwap(b, log)
    BY <1>3 DEF Sub!Handle
  <2>2. /\ e.markets = b.markets /\ e.nfts = b.nfts /\ e.feeStrategy = b.feeStrategy
        /\ e.pendingFees = [b.pendingFees EXCEPT ![log.market] = @ + log.arg]
    BY <1>1, <1>3, <2>1 DEF Sub!handleSwap, Fields, FeeKinds
  <2>3. QED
    BY <1>3, <2>2
<1>4. CASE log.kind \in {"FeeClaimed", "FeesClaimed"}
  <2>1. e = Sub!handleFeeClaimed(b, log)
    BY <1>4 DEF Sub!Handle, Sub!handleNFTFeesClaimed
  <2>2. /\ e.markets = b.markets /\ e.nfts = b.nfts /\ e.feeStrategy = b.feeStrategy
        /\ e.pendingFees = [b.pendingFees EXCEPT ![log.market] = 0]
    BY <1>1, <1>4, <2>1 DEF Sub!handleFeeClaimed, Fields, FeeKinds
  <2>3. QED
    BY <1>4, <2>2
<1>5. CASE log.kind \in StrategyKinds
  <2>1. e = Sub!handleFeeStrategyUpdated(b, log)
    BY <1>5 DEF Sub!Handle, Sub!handleNFTFeeStrategyUpdated, StrategyKinds
  <2>2. /\ e.markets = b.markets /\ e.nfts = b.nfts
        /\ e.feeStrategy = IF log.market \in b.nfts
             THEN [b.feeStrategy EXCEPT ![log.market] = log.arg] ELSE b.feeStrategy
        /\ e.pendingFees = b.pendingFees
    BY <1>1, <2>1 DEF Sub!handleFeeStrategyUpdated, Fields
  <2>3. QED
    BY <1>5, <2>2 DEF StrategyKinds
<1>6. CASE log.kind = "NFTTransfer"
  <2>1. e = Sub!handleNFTTransfer(b, log)
    BY <1>6 DEF Sub!Handle
  <2>2. /\ e.markets = b.markets /\ e.nfts = b.nfts /\ e.feeStrategy = b.feeStrategy
        /\ e.pendingFees = b.pendingFees
    BY <1>1, <2>1 DEF Sub!handleNFTTransfer, Fields
  <2>3. QED
    BY <1>6, <2>2
<1>7. CASE log.kind \notin {"MarketCreated", "Swap", "FeeClaimed", "FeesClaimed",
                          "NFTTransfer"} \union StrategyKinds
  <2>1. e = b
    BY <1>7 DEF Sub!Handle, Sub!handleFactoryMarketCreated, StrategyKinds
  <2>2. QED
    BY <1>7, <2>1
<1>8. QED
  BY <1>2, <1>3, <1>4, <1>5, <1>6, <1>7

LEMMA EntitiesDomains ==
  ASSUME NEW d, NEW due, NEW log
  PROVE  /\ DOMAIN EntitiesOf(d, due, log).feeStrategy = Markets
         /\ DOMAIN EntitiesOf(d, due, log).pendingFees = Markets
BY DEF EntitiesOf

(* What is left to claim after one more log.                               *)
LEMMA OwedTaken ==
  ASSUME Inv, NEW log \in Emitted, NEW m,
         \A done \in Passed : done # log /\ Before(done, log)
  PROVE  Owed(Passed \union {log}, m) =
           IF m = log.market /\ log.kind = "Swap" THEN Owed(Passed, m) + log.arg
           ELSE IF m = log.market /\ log.kind \in {"FeeClaimed", "FeesClaimed"}
                THEN 0 ELSE Owed(Passed, m)
<1>1. /\ \A l \in Emitted : /\ l.block \in Nat /\ l.index \in Nat
                            /\ l.kind = "Swap" => l.arg \in Nat
      /\ \A l, k \in Emitted : Id(l) = Id(k) => l = k
      /\ Passed \subseteq Emitted /\ IsFiniteSet(Passed)
  BY LoopFacts, EmittedFacts, EmittedFinite, PassedFacts, FS_Subset
     DEF Inv, ChainInv, LogsInOrder
<1>2. \A done \in Passed : ~ Before(log, done)
  BY <1>1 DEF Before, Id
<1>3. CASE m = log.market /\ log.kind = "Swap"
  <2>1. \A y \in Passed : y.kind = "Swap" => y.arg \in Nat
    BY <1>1
  <2>2. log.arg \in Nat
    BY <1>1, <1>3
  <2>3. Owed(Passed \union {log}, m) = Owed(Passed, m) + log.arg
    <3>1. \A y \in Passed : ~ Before(log, y) /\ y # log
      BY <1>2
    <3> DEFINE new == {log}
    <3>2. log \in new /\ \A y \in new : y # log => y.kind \notin FeeKinds
      OBVIOUS
    <3> HIDE DEF new
    <3>3. IsFiniteSet(Passed) /\ log.market = m /\ log.kind = "Swap"
      BY <1>1, <1>3
    <3>4. Owed(Passed \union new, m) = Owed(Passed, m) + log.arg
      BY <2>1, <2>2, <3>1, <3>2, <3>3, OwedSwapped
    <3>5. QED
      BY <3>4 DEF new
  <2>4. QED
    BY <1>3, <2>3
<1>4. CASE m = log.market /\ log.kind \in {"FeeClaimed", "FeesClaimed"}
  <2>1. Owed(Passed \union {log}, m) = 0
    BY <1>4, OwedClaimed
  <2>2. QED
    BY <1>4, <2>1
<1>5. CASE ~ (m = log.market /\ log.kind \in FeeKinds)
  <2> DEFINE new == {log}
  <2>1. \A x \in new : x.market = m => x.kind \notin FeeKinds
    BY <1>5
  <2> HIDE DEF new
  <2>2. Owed(Passed \union new, m) = Owed(Passed, m)
    BY <2>1, OwedSame
  <2>3. Owed(Passed \union {log}, m) = Owed(Passed, m)
    BY <2>2 DEF new
  <2>4. QED
    BY <1>5, <2>3 DEF FeeKinds
<1>6. QED
  BY <1>3, <1>4, <1>5 DEF FeeKinds

LEMMA BooksKept ==
  ASSUME Inv, Inv', FaultsInv, DueInv, BooksInv, [Next]_vars
  PROVE  BooksInv'
<1> SUFFICES ASSUME NoFaults' PROVE BooksInv'
  BY DEF BooksInv
<1>1. /\ NoFaults /\ ~ HandlerFails /\ ~ Restart
  BY DEF NoFaults, FaultsInv, Next, IndexerStep, Mined, StartBatch, TakeLog, Statement,
         Checkpoint, HandlerFails, Restart, vars, faultVars
<1>2. CASE Mined \/ StartBatch \/ Statement \/ Checkpoint \/ UNCHANGED vars
  <2>1. Entities' = Entities
    BY <1>1, <1>2, EntitiesKept
  <2>2. Passed' = Passed
    BY <1>2, MinedKeepsInv, StartBatchKeepsInv, StatementKeepsInv, CheckpointKeepsInv,
       StutterKeepsInv
  <2>3. "AddPending" \in Range(todo)' => current'.market \in db'.nfts
    <3>1. CASE Mined \/ StartBatch \/ UNCHANGED vars
      BY <1>1, <3>1 DEF BooksInv, Mined, StartBatch, vars, loopVars
    <3>2. CASE Checkpoint
      BY <3>2, TupleRanges DEF Checkpoint
    <3>3. CASE Statement
      <4>1. /\ todo # <<>> /\ db' = After(db, Head(todo), current) /\ current' = current
            /\ todo' = Tail(todo)
        BY <3>3 DEF Statement
      <4>2. Range(todo') \subseteq Range(todo)
        BY <4>1, CurrentFacts, TailOnce DEF DueInv
      <4>3. TablesOK(db) /\ ("SetReserves" \in Range(todo) => current.arg = current.block)
        BY <4>1, CurrentFacts DEF Inv, LoopInv, ChainInv, LogsInOrder
      <4>4. db.nfts \subseteq db'.nfts
        BY <4>1, <4>3, CurrentFacts, AfterGrows DEF Grows
      <4>5. QED
        BY <1>1, <4>1, <4>2, <4>4 DEF BooksInv
    <3>4. QED
      BY <1>2, <3>1, <3>2, <3>3
  <2>4. QED
    BY <1>1, <2>1, <2>2, <2>3 DEF BooksInv
<1>3. CASE TakeLog
  <2>1. PICK log \in batch :
          /\ current' = log /\ todo' = processLog(log)
          /\ log \in Emitted
          /\ \A done \in Passed : done # log /\ Before(done, log)
          /\ \A other \in Emitted \ Passed : other.kind # "Sync" => Before(log, other)
          /\ Passed' = IF log.kind = "Sync" THEN Passed ELSE Passed \union {log}
    BY <1>3, LogTaken
  <2>2. todo = <<>> /\ db' = db
    BY <1>3 DEF TakeLog
  <2>3. /\ log \notin Passed /\ log.market \in Markets
        /\ Entities.markets = db.markets /\ db.markets = db.nfts /\ Entities.nfts = db.nfts
        /\ log.kind \in {"FactoryMarketCreated"} \union FeeKinds => log.market \in db.nfts
    BY <1>1, <2>1, <2>2, MarketOfTaken
  <2>4. Entities' = EntitiesOf(db, Range(processLog(log)), log)
    BY <2>1, <2>2 DEF Entities
  <2>5. Entities' = IF log.kind = "Sync" THEN Entities ELSE Sub!Handle(Entities, log)
    BY <1>1, <2>1, <2>2, <2>3, <2>4, TakenRecorded
  <2>6. "AddPending" \in Range(todo)' => current'.market \in db'.nfts
    <3>1. ASSUME "AddPending" \in Range(processLog(log)) PROVE log.kind = "Swap"
      <4>1. "AddPending" \in StatementsOf(log.kind)
        BY <3>1, HandlerRuns
      <4>2. QED
        BY <4>1 DEF StatementsOf, StrategyKinds
    <3>2. QED
      BY <2>1, <2>2, <2>3, <3>1 DEF FeeKinds
  <2>7. CASE log.kind = "Sync"
    BY <1>1, <2>1, <2>5, <2>6, <2>7 DEF BooksInv
  <2>8. CASE log.kind # "Sync"
    <3> DEFINE b == Entities
               e == Sub!Handle(b, log)
    <3>1. /\ Books(b) /\ DOMAIN b.feeStrategy = Markets /\ DOMAIN b.pendingFees = Markets
      BY EntitiesBooks, EntitiesDomains DEF Entities
    <3>2. /\ b.markets = b.nfts
          /\ log.kind = "FactoryMarketCreated" => log.market \in b.markets
          /\ log.kind \in FeeKinds => log.market \in b.nfts
      BY <2>3
    <3>3. /\ e.markets = e.nfts
          /\ e.nfts = IF log.kind = "MarketCreated" THEN b.nfts \union {log.market}
                                                    ELSE b.nfts
          /\ \A m \in Markets :
               /\ m \notin e.nfts => e.feeStrategy[m] = b.feeStrategy[m]
               /\ e.pendingFees[m] =
                    IF m = log.market /\ log.kind = "Swap" THEN b.pendingFees[m] + log.arg
                    ELSE IF m = log.market /\ log.kind \in {"FeeClaimed", "FeesClaimed"}
                         THEN 0 ELSE b.pendingFees[m]
      <4> HIDE DEF b
      <4>1. QED
        BY <2>3, <3>1, <3>2, HandleEffect
    <3>4. Entities' = e /\ Passed' = Passed \union {log}
      BY <2>1, <2>5, <2>8
    <3>5. \A m \in Markets :
            /\ m \in b.nfts <=> \E l \in Passed : l.kind = "MarketCreated" /\ l.market = m
            /\ m \notin b.nfts => b.feeStrategy[m] = CLAIM
            /\ b.pendingFees[m] = Owed(Passed, m)
      BY <1>1 DEF BooksInv
    <3> HIDE DEF b, e
    <3>6. ASSUME NEW m \in Markets
          PROVE  /\ m \in e.nfts <=>
                      \E l \in Passed \union {log} : l.kind = "MarketCreated" /\ l.market = m
                 /\ m \notin e.nfts => e.feeStrategy[m] = CLAIM
                 /\ e.pendingFees[m] = Owed(Passed \union {log}, m)
      <4>1. m \in e.nfts <=>
              \E l \in Passed \union {log} : l.kind = "MarketCreated" /\ l.market = m
        BY <3>3, <3>5
      <4>2. m \notin e.nfts => e.feeStrategy[m] = CLAIM
        BY <3>3, <3>5
      <4>3. e.pendingFees[m] = Owed(Passed \union {log}, m)
        BY <2>1, <3>3, <3>5, OwedTaken
      <4>4. QED
        BY <4>1, <4>2, <4>3
    <3>7. QED
      BY <2>6, <3>3, <3>4, <3>6 DEF BooksInv
  <2>9. QED
    BY <2>7, <2>8
<1>4. QED
  BY <1>1, <1>2, <1>3 DEF Next, IndexerStep

AllInv == Inv /\ FaultsInv /\ DueInv /\ ChoicesInv /\ BooksInv

LEMMA InitAllInv == Init => AllInv
<1> SUFFICES ASSUME Init PROVE AllInv
  OBVIOUS
<1>1. Inv
  BY InitInv
<1>2. Emitted = {}
  <2>1. Height = 0
    BY DEF Init, EventsInit, Height
  <2>2. 1 .. Height = {}
    BY <2>1
  <2>3. QED
    BY <2>2 DEF Emitted
<1>3. Passed = {}
  BY <1>2 DEF Passed
<1>4. FaultsInv
  BY DEF FaultsInv, Init
<1>5. DueInv
  <2>1. PerMarket(db)
    BY DEF PerMarket, Columns, Init, EventsInit, Zeros
  <2>2. QED
    BY <2>1 DEF DueInv, Init
<1>6. ChoicesInv
  BY <1>3 DEF ChoicesInv
<1>7. BooksInv
  <2>1. Range(todo) = {}
    BY TupleRanges DEF Init
  <2>2. /\ Entities.markets = {} /\ Entities.nfts = {}
        /\ Entities.feeStrategy = [m \in Markets |-> CLAIM]
        /\ Entities.pendingFees = [m \in Markets |-> 0]
    BY <2>1 DEF Entities, EntitiesOf, Init, Zeros
  <2>3. \A m : Owed(Passed, m) = 0
    <3>1. \A m : Unclaimed(Passed, m) = {}
      BY <1>3 DEF Unclaimed
    <3>2. QED
      BY <3>1, TotalEmpty DEF Owed
  <2>4. QED
    BY <1>3, <2>1, <2>2, <2>3 DEF BooksInv
<1>8. QED
  BY <1>1, <1>4, <1>5, <1>6, <1>7 DEF AllInv

LEMMA StepKeepsAllInv == AllInv /\ [Next]_vars => AllInv'
<1> SUFFICES ASSUME AllInv, [Next]_vars PROVE AllInv'
  OBVIOUS
<1>1. Inv /\ FaultsInv /\ DueInv /\ ChoicesInv /\ BooksInv
  BY DEF AllInv
<1>2. Inv'
  BY <1>1, StepKeepsInv
<1>3. FaultsInv' /\ DueInv' /\ ChoicesInv' /\ BooksInv'
  BY <1>1, <1>2, FaultsKept, DueKept, ChoicesKept, BooksKept
<1>4. QED
  BY <1>2, <1>3 DEF AllInv

LEMMA AlwaysAllInv == Spec => []AllInv
BY InitAllInv, StepKeepsAllInv, PTL DEF Spec

-----------------------------------------------------------------------------
(* What the other properties say, and the refinement.                      *)

LEMMA CaughtUpFacts ==
  ASSUME Inv, CaughtUp
  PROVE  /\ todo = <<>> /\ \A log, st : ~ ToRun(log, st)
         /\ Passed = {log \in Emitted : log.kind # "Sync"}
         /\ \A kind, m : LogsOf(kind, m, Height) =
              {log \in Emitted : log.kind = kind /\ log.market = m}
<1>1. toBlock = 0 /\ db.lastBlock = Height
  BY DEF CaughtUp, Idle
<1>2. Height \in Nat /\ \A log \in Emitted : log.block \in 1 .. Height
  BY LoopFacts DEF Inv
<1>3. Passed = {log \in Emitted : log.kind # "Sync"}
  BY <1>1, <1>2, LoopFacts DEF Inv
<1>4. \A kind, m : LogsOf(kind, m, Height) =
        {log \in Emitted : log.kind = kind /\ log.market = m}
  BY <1>2, LogsOfFacts DEF Inv, ChainInv
<1>5. todo = <<>>
  BY <1>1 DEF Inv, LoopInv
<1>6. \A log, st : ~ ToRun(log, st)
  BY <1>5 DEF ToRun, Range
<1>7. QED
  BY <1>3, <1>4, <1>5, <1>6

(* Once caught up with no restart and no error, pending_fees of a market   *)
(* and what others than its pool recorded since its last claim are         *)
(* together what the collector has recorded (handleSwap, handleFeeClaimed, *)
(* FeeCollector.accumulateFee).                                            *)
THEOREM PendingFeesAreIndexed == Spec => []PendingIndexed
<1>1. AllInv => PendingIndexed
  <2> SUFFICES ASSUME AllInv, CaughtUp, lost = {}, crashes = 0, NEW m \in created
               PROVE  db.pending[m] + unreported[m] = fees[m]
    BY DEF PendingIndexed
  <2>1. Inv /\ FaultsInv /\ BooksInv /\ NoFaults
    BY DEF AllInv, FaultsInv, NoFaults
  <2>2. m \in Markets /\ fees[m] = Owed(Emitted, m) + unreported[m]
    BY <2>1 DEF Inv, ChainInv, ContractsOK, FeesReported
  <2>3. Entities.pendingFees[m] = Owed(Passed, m)
    BY <2>1, <2>2 DEF BooksInv
  <2>4. Entities.pendingFees[m] = db.pending[m]
    <3>1. Range(todo) = {}
      BY <2>1, CaughtUpFacts, TupleRanges
    <3>2. QED
      BY <2>2, <3>1 DEF Entities, EntitiesOf
  <2>5. Owed(Passed, m) = Owed(Emitted, m)
    <3> DEFINE syncs == {log \in Emitted : log.kind = "Sync"}
    <3>1. Emitted = Passed \union syncs
      BY <2>1, CaughtUpFacts
    <3>2. \A x \in syncs : x.kind \notin FeeKinds
      BY DEF FeeKinds
    <3> HIDE DEF syncs
    <3>3. QED
      BY <3>1, <3>2, OwedSame
  <2>6. QED
    BY <2>2, <2>3, <2>4, <2>5
<1>2. QED
  BY <1>1, AlwaysAllInv, PTL

(* A strategy chosen in a block after the market's creation is the one     *)
(* indexed once caught up, whatever was replayed                           *)
(* (handleFeeStrategyUpdated).                                             *)
THEOREM LaterStrategiesAreIndexed == Spec => []LaterStrategyIndexed
<1>1. AllInv => LaterStrategyIndexed
  <2> SUFFICES ASSUME AllInv, CaughtUp, lost = {}, NEW m \in Markets,
                      NEW log \in LogsOf("FeeStrategyUpdated", m, Height),
                      NEW made \in LogsOf("MarketCreated", m, Height),
                      log.block > made.block
               PROVE  db.strategy[m] = strategy[m]
    BY DEF LaterStrategyIndexed
  <2>1. Inv /\ ChoicesInv
    BY DEF AllInv
  <2>2. /\ Passed = {l \in Emitted : l.kind # "Sync"}
        /\ \A l, st : ~ ToRun(l, st)
        /\ log \in Emitted /\ log.kind = "FeeStrategyUpdated" /\ log.market = m
        /\ made \in Emitted /\ made.kind = "MarketCreated" /\ made.market = m
    BY <2>1, CaughtUpFacts
  <2>3. /\ \A l \in Emitted : l.block \in Nat
        /\ log \in Choices(m) /\ made.block < log.block
    BY <2>1, <2>2, LoopFacts DEF Choices, StrategyKinds, Inv
  <2>4. PICK last \in Choices(m) :
          /\ log.block <= last.block
          /\ \A other \in Choices(m) :
               /\ other.block <= last.block
               /\ other.block = last.block => other.arg = strategy[m]
    BY <2>1, <2>2, <2>3 DEF Inv, ChainInv, StrategyReported
  <2>5. /\ last \in Emitted /\ last.kind \in StrategyKinds /\ last.market = m
        /\ last.kind # "Sync"
    BY DEF Choices, StrategyKinds
  <2>6. made.block < last.block
    BY <2>2, <2>3, <2>4, <2>5
  <2>7. PICK other \in Choices(m) : last.block <= other.block /\ db.strategy[m] = other.arg
    BY <2>1, <2>2, <2>5, <2>6 DEF ChoicesInv
  <2>8. other \in Emitted /\ other.block <= last.block
    BY <2>4 DEF Choices
  <2>9. other.block = last.block
    BY <2>3, <2>5, <2>7, <2>8
  <2>10. QED
    BY <2>4, <2>7, <2>9
<1>2. QED
  BY <1>1, AlwaysAllInv, PTL

(* Where nothing fails, the tables, with what the statements of the log    *)
(* being handled have still to write, go through the states of the         *)
(* subgraph's entities: each log taken is one step of its handler, and     *)
(* batches, checkpoints and statements are none (startIndexer against      *)
(* event-emitter.ts).                                                      *)
THEOREM IndexerImplementsSubgraph ==
  Spec /\ [](crashes = 0 /\ failures = 0) => ImplementsSubgraph
<1>1. Init => Sub!Init
  <2> SUFFICES ASSUME Init PROVE Sub!Init
    OBVIOUS
  <2>1. Sub!EventsInit
    BY DEF Init, EventsInit, Sub!EventsInit
  <2>2. Passed = {}
    <3>1. Height = 0
      BY DEF Init, EventsInit, Height
    <3>2. 1 .. Height = {}
      BY <3>1
    <3>3. QED
      BY <3>2 DEF Emitted, Passed
  <2>3. Entities = Sub!Nothing
    <3>1. Range(todo) = {}
      BY TupleRanges DEF Init
    <3>2. SameBooks(Entities, Sub!Nothing)
      BY <3>1 DEF Entities, EntitiesOf, Init, Zeros, SameBooks, Sub!Nothing
    <3>3. Books(Sub!Nothing)
      BY DEF Sub!Nothing, Books, Fields
    <3>4. QED
      BY <3>2, <3>3, EntitiesBooks, SameBooksEqual DEF Entities
  <2>4. QED
    BY <2>1, <2>2, <2>3 DEF Sub!Init
<1>2. AllInv /\ AllInv' /\ NoFaults /\ NoFaults' /\ [Next]_vars => [Sub!Next]_(Sub!sgVars)
  <2> SUFFICES ASSUME AllInv, AllInv', NoFaults, NoFaults', [Next]_vars
               PROVE  Sub!Next \/ UNCHANGED Sub!sgVars
    OBVIOUS
  <2>1. Inv /\ FaultsInv /\ DueInv /\ BooksInv
    BY DEF AllInv
  <2>2. ~ HandlerFails /\ ~ Restart
    BY <2>1 DEF NoFaults, FaultsInv, HandlerFails, Restart
  <2>3. CASE Mined
    <3>1. Entities' = Entities /\ Passed' = Passed
      BY <2>1, <2>3, EntitiesKept, MinedKeepsInv
    <3>2. Sub!Transaction
      BY <2>3 DEF Mined, Transaction, CreateMarket, Swap, RecordFee, SyncPool, ClaimFees,
         SetFeeStrategy, TransferPosition, Mine, NextBlock, Height, StrategyLogs,
         Sub!Transaction, Sub!CreateMarket, Sub!Swap, Sub!RecordFee, Sub!SyncPool, Sub!ClaimFees,
         Sub!SetFeeStrategy, Sub!TransferPosition, Sub!Mine, Sub!NextBlock, Sub!Height,
         Sub!StrategyLogs
    <3>3. QED
      BY <3>1, <3>2 DEF Sub!Next, Sub!Mined
  <2>4. CASE StartBatch \/ Statement \/ Checkpoint \/ UNCHANGED vars
    <3>1. Entities' = Entities
      BY <2>1, <2>4, EntitiesKept
    <3>2. Passed' = Passed
      BY <2>1, <2>4, StartBatchKeepsInv, StatementKeepsInv, CheckpointKeepsInv,
         StutterKeepsInv
    <3>3. UNCHANGED chainVars
      BY <2>4 DEF StartBatch, Statement, Checkpoint, vars
    <3>4. UNCHANGED Sub!chainVars
      BY <3>3 DEF chainVars, contracts, Sub!chainVars, Sub!contracts
    <3>5. QED
      BY <3>1, <3>2, <3>4 DEF Sub!sgVars
  <2>5. CASE TakeLog
    <3>1. PICK log \in batch :
            /\ current' = log /\ todo' = processLog(log)
            /\ log \in Emitted
            /\ \A done \in Passed : done # log /\ Before(done, log)
            /\ \A other \in Emitted \ Passed : other.kind # "Sync" => Before(log, other)
            /\ Passed' = IF log.kind = "Sync" THEN Passed ELSE Passed \union {log}
      BY <2>1, <2>5, LogTaken
    <3>2. todo = <<>> /\ db' = db /\ UNCHANGED chainVars
      BY <2>5 DEF TakeLog
    <3>3. log \notin Passed
      BY <3>1
    <3>4. Entities' = EntitiesOf(db, Range(processLog(log)), log)
      BY <3>1, <3>2 DEF Entities
    <3>5. Entities' = IF log.kind = "Sync" THEN Entities ELSE Sub!Handle(Entities, log)
      BY <2>1, <3>1, <3>2, <3>3, <3>4, TakenRecorded
    <3>6. UNCHANGED Sub!chainVars
      BY <3>2 DEF chainVars, contracts, Sub!chainVars, Sub!contracts
    <3>7. CASE log.kind = "Sync"
      BY <3>1, <3>5, <3>6, <3>7 DEF Sub!sgVars
    <3>8. CASE log.kind # "Sync"
      <4>1. Sub!Events = {l \in Emitted : l.kind # "Sync"}
        BY DEF Sub!Events, Sub!Emitted, Sub!Height, Emitted, Height
      <4>2. \A l, k : Sub!Before(l, k) <=> Before(l, k)
        BY DEF Sub!Before, Before
      <4>3. /\ log \in Sub!Events \ Passed
            /\ \A other \in Sub!Events \ Passed : Sub!Before(log, other)
        BY <3>1, <3>3, <3>8, <4>1, <4>2
      <4>4. Passed' = Passed \union {log} /\ Entities' = Sub!Handle(Entities, log)
        BY <3>1, <3>5, <3>8
      <4>5. Sub!HandleNext
        BY <3>6, <4>3, <4>4 DEF Sub!HandleNext
      <4>6. QED
        BY <4>5 DEF Sub!Next
    <3>9. QED
      BY <3>7, <3>8
  <2>6. QED
    BY <2>2, <2>3, <2>4, <2>5 DEF Next, IndexerStep
<1>3. NoFaults <=> crashes = 0 /\ failures = 0
  BY DEF NoFaults
<1>4. QED
  BY <1>1, <1>2, <1>3, AlwaysAllInv, PTL DEF Spec, ImplementsSubgraph, Sub!Spec
=============================================================================
