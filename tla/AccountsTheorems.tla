--------------------------- MODULE AccountsTheorems ---------------------------
(***************************************************************************)
(* What module Accounts promises, proved for any number of users, amounts, *)
(* blocks and faults.                                                      *)
(***************************************************************************)
EXTENDS Accounts, SequenceTheorems, ArithmeticTheorems

Kinds == {"Transfer", "MarketCreated", "FactoryMarketCreated", "Swap"}
Log == [kind : Kinds, token : Tokens, from : Accounts, to : Accounts, value : Nat]

InUSID(log) == log.kind = "Transfer" /\ log.token = "USID"

(* A chain and the places of its logs, as Places has them. *)
IsChain(c) ==
  /\ c \in Seq(Seq(Log))
  /\ \A b \in DOMAIN c : Len(c[b]) <= 4
  /\ \A b \in DOMAIN c : \A i \in DOMAIN c[b] : c[b][i].kind # "Transfer" => c[b][i].token = "USID"

LogIn(c, p) == c[p[1]][p[2]]
PlacesIn(c, from, to) == UNION {{b} \X DOMAIN c[b] : b \in from .. to}
AllIn(c) == PlacesIn(c, 1, Len(c))
Earlier(c, p) == {q \in AllIn(c) : Before(q, p)}

(* What the USID transfers at places S bring to an account and take away. *)
Got(c, p, a) == IF InUSID(LogIn(c, p)) /\ LogIn(c, p).to = a THEN LogIn(c, p).value ELSE 0
Gave(c, p, a) == IF InUSID(LogIn(c, p)) /\ LogIn(c, p).from = a THEN LogIn(c, p).value ELSE 0
Inflow(c, S, a) == Total([p \in S |-> Got(c, p, a)], S)
Outflow(c, S, a) == Total([p \in S |-> Gave(c, p, a)], S)

(* The balances are what the chain has moved, and no USID transfer moves   *)
(* more than the transfers before it have left with its sender.            *)
Ledger(c, bal) ==
  \A a \in Accounts \ {Zero} : bal[a] = Inflow(c, AllIn(c), a) - Outflow(c, AllIn(c), a)

Covered(c, p) ==
  LET log == LogIn(c, p)
  IN InUSID(log) /\ log.from # Zero =>
       Inflow(c, Earlier(c, p), log.from) - Outflow(c, Earlier(c, p), log.from) >= log.value

History(c) == \A p \in AllIn(c) : Covered(c, p)
-----------------------------------------------------------------------------
(* Places are pairs of a block and an index, and there are finitely many.  *)
LEMMA PlaceIsPair ==
  ASSUME NEW c, NEW from \in Int, NEW to \in Int, NEW p \in PlacesIn(c, from, to)
  PROVE  /\ p = <<p[1], p[2]>>
         /\ p[1] \in from .. to
         /\ p[2] \in DOMAIN c[p[1]]
BY DEF PlacesIn

LEMMA PairIsPlace ==
  ASSUME NEW c, NEW from \in Int, NEW to \in Int, NEW b \in from .. to, NEW i \in DOMAIN c[b]
  PROVE  /\ <<b, i>> \in PlacesIn(c, from, to)
         /\ <<b, i>>[1] = b /\ <<b, i>>[2] = i
BY DEF PlacesIn

LEMMA PlaceTypes ==
  ASSUME NEW c, IsChain(c), NEW p \in AllIn(c)
  PROVE  /\ p[1] \in 1 .. Len(c) /\ p[2] \in 1 .. 4 /\ p = <<p[1], p[2]>>
         /\ p[1] \in DOMAIN c /\ p[2] \in DOMAIN c[p[1]] /\ p[2] \in 1 .. Len(c[p[1]])
         /\ LogIn(c, p) \in Log
         /\ LogIn(c, p).kind # "Transfer" => LogIn(c, p).token = "USID"
<1>1. Len(c) \in Nat /\ DOMAIN c = 1 .. Len(c)
  BY DEF IsChain
<1>2. p = <<p[1], p[2]>> /\ p[1] \in 1 .. Len(c) /\ p[2] \in DOMAIN c[p[1]]
  <2>1. p \in PlacesIn(c, 1, Len(c))
    BY DEF AllIn
  <2>2. 1 \in Int /\ Len(c) \in Int
    BY <1>1
  <2>3. QED
    BY <2>1, <2>2, PlaceIsPair
<1>3. c[p[1]] \in Seq(Log) /\ Len(c[p[1]]) <= 4
  BY <1>1, <1>2 DEF IsChain
<1>4. Len(c[p[1]]) \in Nat /\ DOMAIN c[p[1]] = 1 .. Len(c[p[1]])
  BY <1>3
<1>5. p[2] \in 1 .. 4
  BY <1>2, <1>3, <1>4
<1>6. LogIn(c, p) \in Log
  BY <1>2, <1>3, <1>4 DEF LogIn
<1>7. LogIn(c, p).kind # "Transfer" => LogIn(c, p).token = "USID"
  <2>1. \A b \in DOMAIN c : \A i \in DOMAIN c[b] :
          c[b][i].kind # "Transfer" => c[b][i].token = "USID"
    BY DEF IsChain
  <2>2. p[1] \in DOMAIN c /\ p[2] \in DOMAIN c[p[1]]
    BY <1>1, <1>2
  <2>3. c[p[1]][p[2]].kind # "Transfer" => c[p[1]][p[2]].token = "USID"
    BY <2>1, <2>2, Zenon
  <2>4. QED
    BY <2>3 DEF LogIn
<1>8. QED
  BY <1>1, <1>2, <1>4, <1>5, <1>6, <1>7

LEMMA PlacesFinite ==
  ASSUME NEW c, IsChain(c)
  PROVE  IsFiniteSet(AllIn(c))
<1>1. AllIn(c) \subseteq (1 .. Len(c)) \X (1 .. 4)
  BY PlaceTypes
<1>2. IsFiniteSet(1 .. Len(c)) /\ IsFiniteSet(1 .. 4)
  <2>1. Len(c) \in Int /\ 1 \in Int /\ 4 \in Int
    BY DEF IsChain
  <2>2. \A lo, hi \in Int : IsFiniteSet(lo .. hi)
    BY FS_Interval
  <2>3. QED
    BY <2>1, <2>2, Zenon
<1>3. IsFiniteSet((1 .. Len(c)) \X (1 .. 4))
  BY <1>2, FS_Product
<1>4. QED
  BY <1>1, <1>3, FS_Subset

LEMMA FlowTypes ==
  ASSUME NEW c, IsChain(c), NEW p \in AllIn(c), NEW a
  PROVE  Got(c, p, a) \in Nat /\ Gave(c, p, a) \in Nat
BY PlaceTypes DEF Got, Gave, Log

LEMMA FlowNat ==
  ASSUME NEW c, IsChain(c), NEW S \in SUBSET AllIn(c), NEW a
  PROVE  IsFiniteSet(S) /\ Inflow(c, S, a) \in Nat /\ Outflow(c, S, a) \in Nat
<1>1. IsFiniteSet(S)
  BY PlacesFinite, FS_Subset
<1>2. \A p \in S : Got(c, p, a) \in Nat /\ Gave(c, p, a) \in Nat
  BY FlowTypes
<1>3. Inflow(c, S, a) \in Nat
  BY <1>1, <1>2, TotalType DEF Inflow
<1>4. Outflow(c, S, a) \in Nat
  BY <1>1, <1>2, TotalType DEF Outflow
<1>5. QED
  BY <1>1, <1>3, <1>4

(* One more place adds what its log moves. *)
LEMMA FlowAdd ==
  ASSUME NEW c, IsChain(c), NEW S \in SUBSET AllIn(c), NEW p \in AllIn(c), p \notin S, NEW a
  PROVE  /\ Inflow(c, S \union {p}, a) = Inflow(c, S, a) + Got(c, p, a)
         /\ Outflow(c, S \union {p}, a) = Outflow(c, S, a) + Gave(c, p, a)
<1> DEFINE f == [q \in S \union {p} |-> Got(c, q, a)]
           g == [q \in S \union {p} |-> Gave(c, q, a)]
<1>1. IsFiniteSet(S)
  BY FlowNat
<1>2. \A q \in S \union {p} : f[q] \in Nat /\ g[q] \in Nat
  BY FlowTypes
<1>3. /\ Total(f, S \union {p}) = Total(f, S) + f[p]
      /\ Total(g, S \union {p}) = Total(g, S) + g[p]
  <2> HIDE DEF f, g
  <2> QED BY <1>1, <1>2, TotalAddElement
<1>4. Total(f, S) = Inflow(c, S, a) /\ Total(g, S) = Outflow(c, S, a)
  <2>1. \A q \in S : f[q] = [r \in S |-> Got(c, r, a)][q]
    OBVIOUS
  <2>2. \A q \in S : g[q] = [r \in S |-> Gave(c, r, a)][q]
    OBVIOUS
  <2> HIDE DEF f, g
  <2>3. QED
    BY <2>1, <2>2, TotalSame DEF Inflow, Outflow
<1>5. QED
  BY <1>3, <1>4 DEF Inflow, Outflow

(* Places without USID transfers move none. *)
LEMMA FlowZeros ==
  ASSUME NEW c, NEW S, NEW T \in SUBSET S, \A p \in S \ T : ~InUSID(LogIn(c, p)), NEW a
  PROVE  Inflow(c, S, a) = Inflow(c, T, a) /\ Outflow(c, S, a) = Outflow(c, T, a)
<1> DEFINE f == [q \in S |-> Got(c, q, a)]
           g == [q \in S |-> Gave(c, q, a)]
<1>1. \A q \in S \ T : f[q] = 0 /\ g[q] = 0
  BY DEF Got, Gave
<1>2. Total(f, S) = Total(f, T) /\ Total(g, S) = Total(g, T)
  <2> HIDE DEF f, g
  <2> QED BY <1>1, TotalZeros
<1>3. Total(f, T) = Inflow(c, T, a) /\ Total(g, T) = Outflow(c, T, a)
  <2>1. \A q \in T : f[q] = [r \in T |-> Got(c, r, a)][q]
    OBVIOUS
  <2>2. \A q \in T : g[q] = [r \in T |-> Gave(c, r, a)][q]
    OBVIOUS
  <2> HIDE DEF f, g
  <2>3. QED
    BY <2>1, <2>2, TotalSame DEF Inflow, Outflow
<1>4. QED
  BY <1>2, <1>3 DEF Inflow, Outflow

(* What places move depends on the logs there alone. *)
LEMMA FlowSame ==
  ASSUME NEW c, NEW d, NEW S, \A p \in S : LogIn(c, p) = LogIn(d, p), NEW a
  PROVE  Inflow(c, S, a) = Inflow(d, S, a) /\ Outflow(c, S, a) = Outflow(d, S, a)
<1>1. \A p \in S : Got(c, p, a) = Got(d, p, a) /\ Gave(c, p, a) = Gave(d, p, a)
  BY DEF Got, Gave
<1>2. QED
  BY <1>1, TotalSame DEF Inflow, Outflow

IsBlock(logs) ==
  /\ logs \in Seq(Log) /\ Len(logs) <= 4
  /\ \A i \in DOMAIN logs : logs[i].kind # "Transfer" => logs[i].token = "USID"

(* A chain with one more block.                                            *)
Extends(c, d, logs) ==
  /\ Len(c) \in Nat
  /\ Len(d) = Len(c) + 1
  /\ \A b \in 1 .. Len(c) : d[b] = c[b]
  /\ d[Len(c) + 1] = logs

LEMMA Grown ==
  ASSUME NEW c, IsChain(c), NEW logs, IsBlock(logs), NEW d, d = Append(c, logs)
  PROVE  IsChain(d) /\ Extends(c, d, logs)
<1>1. /\ c \in Seq(Seq(Log)) /\ Len(c) \in Nat
      /\ logs \in Seq(Log) /\ Len(logs) <= 4
      /\ \A i \in DOMAIN logs : logs[i].kind # "Transfer" => logs[i].token = "USID"
  BY DEF IsChain, IsBlock
<1>2. d \in Seq(Seq(Log)) /\ Len(d) = Len(c) + 1
  BY <1>1
<1>3. \A b \in 1 .. Len(c) : d[b] = c[b]
  BY <1>1
<1>4. d[Len(c) + 1] = logs
  BY <1>1
<1>5. DOMAIN d = 1 .. (Len(c) + 1) /\ DOMAIN c = 1 .. Len(c)
  BY <1>1, <1>2
<1>6. ASSUME NEW b \in DOMAIN d
      PROVE  /\ Len(d[b]) <= 4
             /\ \A i \in DOMAIN d[b] : d[b][i].kind # "Transfer" => d[b][i].token = "USID"
  <2>1. CASE b = Len(c) + 1
    BY <1>1, <1>4, <2>1
  <2>2. CASE b # Len(c) + 1
    <3>1. b \in DOMAIN c /\ d[b] = c[b]
      BY <1>1, <1>3, <1>5, <2>2
    <3>2. QED
      BY <3>1, Zenon DEF IsChain
  <2>3. QED
    BY <2>1, <2>2
<1>7. IsChain(d)
  BY <1>2, <1>6, Zenon DEF IsChain
<1>8. QED
  BY <1>1, <1>2, <1>3, <1>4, <1>7 DEF Extends

(* Its places are the old ones, with their logs and what comes before      *)
(* them, and those of the new block.                                       *)
LEMMA GrownPlaces ==
  ASSUME NEW c, IsChain(c), NEW d, IsChain(d), NEW logs, Extends(c, d, logs)
  PROVE  /\ AllIn(c) \subseteq AllIn(d)
         /\ \A p \in AllIn(c) : p[1] < Len(c) + 1 /\ LogIn(d, p) = LogIn(c, p)
         /\ \A p \in AllIn(d) \ AllIn(c) :
              p = <<Len(c) + 1, p[2]>> /\ p[2] \in DOMAIN logs /\ LogIn(d, p) = logs[p[2]]
         /\ \A i \in DOMAIN logs : <<Len(c) + 1, i>> \in AllIn(d) \ AllIn(c)
         /\ \A p \in AllIn(c) : Earlier(d, p) = Earlier(c, p)
         /\ \A p \in AllIn(d) \ AllIn(c) : AllIn(c) \subseteq Earlier(d, p)
<1> USE DEF Extends
<1>1. \A p \in AllIn(c) : p[1] < Len(c) + 1 /\ d[p[1]] = c[p[1]] /\ LogIn(d, p) = LogIn(c, p)
  BY PlaceTypes DEF LogIn
<1>2. ASSUME NEW p \in AllIn(c)
      PROVE  p \in AllIn(d)
  <2>1. p[1] \in 1 .. Len(c) /\ p[2] \in DOMAIN c[p[1]] /\ p = <<p[1], p[2]>>
    BY PlaceTypes
  <2>2. p[1] \in 1 .. Len(d) /\ p[2] \in DOMAIN d[p[1]]
    BY <1>1, <2>1
  <2>3. QED
    BY <2>1, <2>2, PairIsPlace DEF AllIn, PlacesIn
<1>3. ASSUME NEW p \in AllIn(d), p[1] # Len(c) + 1
      PROVE  p \in AllIn(c)
  <2>1. p[1] \in 1 .. Len(d) /\ p[2] \in DOMAIN d[p[1]] /\ p = <<p[1], p[2]>>
    BY PlaceTypes
  <2>2. p[1] \in 1 .. Len(c)
    BY <1>3, <2>1
  <2>3. p[2] \in DOMAIN c[p[1]]
    BY <2>1, <2>2
  <2>4. QED
    BY <2>1, <2>2, <2>3 DEF AllIn, PlacesIn
<1>4. ASSUME NEW p \in AllIn(d) \ AllIn(c)
      PROVE  p = <<Len(c) + 1, p[2]>> /\ p[2] \in DOMAIN logs /\ LogIn(d, p) = logs[p[2]]
  <2>1. p[1] = Len(c) + 1
    BY <1>3
  <2>2. p[2] \in DOMAIN d[p[1]] /\ p = <<p[1], p[2]>>
    BY PlaceTypes
  <2>3. QED
    BY <2>1, <2>2 DEF LogIn
<1>5. ASSUME NEW i \in DOMAIN logs
      PROVE  <<Len(c) + 1, i>> \in AllIn(d) \ AllIn(c)
  <2> DEFINE n == Len(c) + 1
  <2>1. n \in 1 .. Len(d) /\ d[n] = logs
    OBVIOUS
  <2>2. <<n, i>> \in AllIn(d)
    <3> HIDE DEF n
    <3> QED BY <2>1 DEF AllIn, PlacesIn
  <2>3. <<n, i>> \notin AllIn(c)
    <3>1. <<n, i>>[1] = n
      OBVIOUS
    <3>2. \A p \in AllIn(c) : p[1] # n
      BY <1>1, PlaceTypes
    <3>3. QED
      BY <3>1, <3>2
  <2>4. QED
    BY <2>2, <2>3
<1>6. ASSUME NEW p \in AllIn(c)
      PROVE  Earlier(d, p) = Earlier(c, p)
  <2>1. ASSUME NEW q \in AllIn(d), Before(q, p)
        PROVE  q \in AllIn(c)
    <3>1. q[1] <= p[1] /\ q[1] \in Int /\ p[1] \in Int /\ p[1] < Len(c) + 1
      BY <1>1, <2>1, PlaceTypes DEF Before
    <3>2. q[1] # Len(c) + 1
      BY <3>1
    <3>3. QED
      BY <1>3, <3>2
  <2>2. QED
    BY <1>2, <2>1 DEF Earlier
<1>7. ASSUME NEW p \in AllIn(d) \ AllIn(c)
      PROVE  AllIn(c) \subseteq Earlier(d, p)
  <2>1. p[1] = Len(c) + 1
    BY <1>3
  <2>2. QED
    BY <1>1, <1>2, <2>1 DEF Earlier, Before
<1>8. QED
  BY <1>1, <1>2, <1>4, <1>5, <1>6, <1>7

NoneIn(logs) == \A i \in DOMAIN logs : ~InUSID(logs[i])
OnlyAt(logs, j) == InUSID(logs[j]) /\ \A i \in DOMAIN logs \ {j} : ~InUSID(logs[i])

(* How the balances of USID change with a block that has one transfer.     *)
Moves(bal, bal2, log) ==
  /\ log.from # Zero => bal[log.from] >= log.value
  /\ \A a \in Accounts \ {Zero} :
       bal2[a] = bal[a] + (IF log.to = a THEN log.value ELSE 0)
                        - (IF log.from = a THEN log.value ELSE 0)

(* A transfer that was covered stays so. *)
LEMMA EarlierKept ==
  ASSUME NEW c, NEW d, NEW p \in AllIn(c), History(c),
         LogIn(d, p) = LogIn(c, p), Earlier(d, p) = Earlier(c, p),
         \A q \in AllIn(c) : LogIn(d, q) = LogIn(c, q)
  PROVE  Covered(d, p)
<1>1. \A q \in Earlier(c, p) : LogIn(d, q) = LogIn(c, q)
  BY DEF Earlier
<1>2. ASSUME NEW a
      PROVE  /\ Inflow(d, Earlier(c, p), a) = Inflow(c, Earlier(c, p), a)
             /\ Outflow(d, Earlier(c, p), a) = Outflow(c, Earlier(c, p), a)
  BY <1>1, FlowSame
<1>3. Covered(c, p)
  BY DEF History
<1>4. QED
  BY <1>2, <1>3 DEF Covered

LEMMA QuietBlock ==
  ASSUME NEW c, IsChain(c), NEW d, IsChain(d), NEW logs, Extends(c, d, logs),
         NEW bal, NEW bal2, Ledger(c, bal), History(c),
         NoneIn(logs), \A a \in Accounts \ {Zero} : bal2[a] = bal[a]
  PROVE  Ledger(d, bal2) /\ History(d)
<1> DEFINE new == AllIn(d) \ AllIn(c)
<1>0. /\ AllIn(c) \subseteq AllIn(d)
      /\ \A p \in AllIn(c) : LogIn(d, p) = LogIn(c, p) /\ Earlier(d, p) = Earlier(c, p)
      /\ \A p \in new : p[2] \in DOMAIN logs /\ LogIn(d, p) = logs[p[2]]
  BY GrownPlaces
<1>1. \A p \in new : ~InUSID(LogIn(d, p))
  BY <1>0 DEF NoneIn
<1>2. ASSUME NEW a
      PROVE  /\ Inflow(d, AllIn(d), a) = Inflow(c, AllIn(c), a)
             /\ Outflow(d, AllIn(d), a) = Outflow(c, AllIn(c), a)
  <2>1. /\ Inflow(d, AllIn(d), a) = Inflow(d, AllIn(c), a)
        /\ Outflow(d, AllIn(d), a) = Outflow(d, AllIn(c), a)
    BY <1>0, <1>1, FlowZeros
  <2>2. /\ Inflow(d, AllIn(c), a) = Inflow(c, AllIn(c), a)
        /\ Outflow(d, AllIn(c), a) = Outflow(c, AllIn(c), a)
    BY <1>0, FlowSame
  <2>3. QED
    BY <2>1, <2>2
<1>3. Ledger(d, bal2)
  BY <1>2 DEF Ledger
<1>4. ASSUME NEW p \in AllIn(d)
      PROVE  Covered(d, p)
  <2>1. CASE p \in AllIn(c)
    BY <1>0, <2>1, EarlierKept
  <2>2. CASE p \notin AllIn(c)
    BY <1>1, <2>2 DEF Covered
  <2>3. QED
    BY <2>1, <2>2
<1>5. QED
  BY <1>3, <1>4 DEF History

LEMMA BusyBlock ==
  ASSUME NEW c, IsChain(c), NEW d, IsChain(d), NEW logs, Extends(c, d, logs),
         NEW bal, NEW bal2, Ledger(c, bal), History(c),
         NEW j \in DOMAIN logs, OnlyAt(logs, j), Moves(bal, bal2, logs[j])
  PROVE  Ledger(d, bal2) /\ History(d)
<1> DEFINE new == AllIn(d) \ AllIn(c)
           pj == <<Len(c) + 1, j>>
           log == logs[j]
<1>0. /\ AllIn(c) \subseteq AllIn(d)
      /\ \A p \in AllIn(c) : LogIn(d, p) = LogIn(c, p) /\ Earlier(d, p) = Earlier(c, p)
      /\ \A p \in new : p = <<Len(c) + 1, p[2]>> /\ p[2] \in DOMAIN logs /\ LogIn(d, p) = logs[p[2]]
      /\ pj \in new
      /\ \A p \in new : AllIn(c) \subseteq Earlier(d, p)
  BY GrownPlaces
<1>1. ASSUME NEW p \in new, p # pj
      PROVE  ~InUSID(LogIn(d, p))
  <2>1. p[2] \in DOMAIN logs \ {j}
    BY <1>0, <1>1
  <2>2. QED
    BY <1>0, <2>1 DEF OnlyAt
<1>2. LogIn(d, pj) = log /\ log \in Log
  <2>1. pj[2] = j
    OBVIOUS
  <2>2. LogIn(d, pj) = logs[pj[2]]
    BY <1>0
  <2>3. LogIn(d, pj) \in Log
    BY <1>0, PlaceTypes
  <2>4. QED
    BY <2>1, <2>2, <2>3
<1> HIDE DEF new, pj, log
<1>3. ASSUME NEW S \in SUBSET AllIn(d), AllIn(c) \subseteq S, pj \notin S, NEW a
      PROVE  /\ Inflow(d, S, a) = Inflow(c, AllIn(c), a)
             /\ Outflow(d, S, a) = Outflow(c, AllIn(c), a)
  <2>1. \A p \in S \ AllIn(c) : ~InUSID(LogIn(d, p))
    BY <1>1, <1>3 DEF new
  <2>2. /\ Inflow(d, S, a) = Inflow(d, AllIn(c), a)
        /\ Outflow(d, S, a) = Outflow(d, AllIn(c), a)
    BY <1>3, <2>1, FlowZeros
  <2>3. /\ Inflow(d, AllIn(c), a) = Inflow(c, AllIn(c), a)
        /\ Outflow(d, AllIn(c), a) = Outflow(c, AllIn(c), a)
    BY <1>0, FlowSame
  <2>4. QED
    BY <2>2, <2>3
<1>4. ASSUME NEW a \in Accounts \ {Zero}
      PROVE  bal2[a] = Inflow(d, AllIn(d), a) - Outflow(d, AllIn(d), a)
  <2> DEFINE S == AllIn(d) \ {pj}
  <2>1. AllIn(c) \subseteq S /\ S \subseteq AllIn(d) /\ pj \notin S /\ pj \in AllIn(d)
    BY <1>0 DEF new
  <2>2. AllIn(d) = S \union {pj}
    BY <2>1
  <2> HIDE DEF S
  <2>3. /\ Inflow(d, S \union {pj}, a) = Inflow(d, S, a) + Got(d, pj, a)
        /\ Outflow(d, S \union {pj}, a) = Outflow(d, S, a) + Gave(d, pj, a)
    BY <2>1, FlowAdd
  <2>4. /\ Inflow(d, S, a) = Inflow(c, AllIn(c), a)
        /\ Outflow(d, S, a) = Outflow(c, AllIn(c), a)
    BY <1>3, <2>1
  <2>5. /\ Inflow(c, AllIn(c), a) \in Nat /\ Outflow(c, AllIn(c), a) \in Nat
    BY FlowNat
  <2>6. /\ Got(d, pj, a) = (IF log.to = a THEN log.value ELSE 0)
        /\ Gave(d, pj, a) = (IF log.from = a THEN log.value ELSE 0)
    BY <1>2 DEF Got, Gave, OnlyAt, log
  <2>7. bal2[a] = bal[a] + (IF log.to = a THEN log.value ELSE 0)
                         - (IF log.from = a THEN log.value ELSE 0)
    BY DEF Moves, log
  <2>8. bal[a] = Inflow(c, AllIn(c), a) - Outflow(c, AllIn(c), a)
    BY DEF Ledger
  <2>9. log.value \in Nat
    BY <1>2 DEF Log
  <2> DEFINE g == IF log.to = a THEN log.value ELSE 0
             h == IF log.from = a THEN log.value ELSE 0
  <2>10. g \in Nat /\ h \in Nat
    BY <2>9
  <2>11. /\ Inflow(d, AllIn(d), a) = Inflow(c, AllIn(c), a) + g
         /\ Outflow(d, AllIn(d), a) = Outflow(c, AllIn(c), a) + h
    BY <2>2, <2>3, <2>4, <2>6
  <2>12. bal2[a] = bal[a] + g - h
    BY <2>7
  <2> HIDE DEF g, h
  <2>13. QED
    BY <2>5, <2>8, <2>10, <2>11, <2>12
<1>5. Ledger(d, bal2)
  BY <1>4 DEF Ledger
<1>6. ASSUME NEW p \in AllIn(d)
      PROVE  Covered(d, p)
  <2>1. CASE p \in AllIn(c)
    BY <1>0, <2>1, EarlierKept
  <2>2. CASE p \notin AllIn(c) /\ p # pj
    BY <1>1, <2>2 DEF Covered, new
  <2>3. CASE p = pj
    <3>1. ASSUME log.from # Zero
          PROVE  Inflow(d, Earlier(d, pj), log.from) - Outflow(d, Earlier(d, pj), log.from) >= log.value
      <4> DEFINE S == Earlier(d, pj)
                 a == log.from
      <4>1. AllIn(c) \subseteq S /\ S \subseteq AllIn(d)
        BY <1>0 DEF Earlier
      <4>2. pj \notin S
        <5>1. pj[1] \in Int /\ pj[2] \in Int
          <6>1. pj \in AllIn(d)
            BY <1>0 DEF new
          <6>2. QED
            BY <6>1, PlaceTypes
        <5>2. ~Before(pj, pj)
          BY <5>1 DEF Before
        <5>3. QED
          BY <5>2 DEF Earlier
      <4>3. /\ Inflow(d, S, a) = Inflow(c, AllIn(c), a)
            /\ Outflow(d, S, a) = Outflow(c, AllIn(c), a)
        <5> HIDE DEF S
        <5> QED BY <1>3, <4>1, <4>2
      <4>4. a \in Accounts \ {Zero}
        BY <1>2, <3>1 DEF Log
      <4>5. bal[a] = Inflow(c, AllIn(c), a) - Outflow(c, AllIn(c), a)
        BY <4>4 DEF Ledger
      <4>6. bal[a] >= log.value
        BY <3>1 DEF Moves, log
      <4>7. QED
        BY <4>3, <4>5, <4>6
    <3>2. QED
      BY <1>2, <2>3, <3>1 DEF Covered
  <2>4. QED
    BY <2>1, <2>2, <2>3
<1>7. QED
  BY <1>5, <1>6 DEF History
-----------------------------------------------------------------------------
(* The chain and the balances agree, whatever the indexer does.            *)
ChainInv ==
  /\ balances \in [Tokens -> [Accounts -> Int]]
  /\ IsChain(chain)
  /\ Ledger(chain, balances["USID"])
  /\ History(chain)

(* An amount moved from one account to another, which may be the same.     *)
Shifted(row, row2, from, to, value) ==
  \A a \in Accounts :
    row2[a] = row[a] + (IF to = a THEN value ELSE 0) - (IF from = a THEN value ELSE 0)

OnlyToken(t, bal, bal2) == \A s \in Tokens \ {t} : bal2[s] = bal[s]

LEMMA MoveFacts ==
  ASSUME NEW bal \in [Tokens -> [Accounts -> Int]], NEW t \in Tokens,
         NEW from \in Accounts, NEW to \in Accounts, NEW value \in Int
  PROVE  /\ Move(bal, t, from, to, value) \in [Tokens -> [Accounts -> Int]]
         /\ Shifted(bal[t], Move(bal, t, from, to, value)[t], from, to, value)
         /\ OnlyToken(t, bal, Move(bal, t, from, to, value))
<1> DEFINE left == [bal EXCEPT ![t][from] = @ - value]
           new == [left EXCEPT ![t][to] = @ + value]
<1>1. /\ left \in [Tokens -> [Accounts -> Int]]
      /\ \A a \in Accounts : left[t][a] = bal[t][a] - (IF from = a THEN value ELSE 0)
      /\ \A s \in Tokens \ {t} : left[s] = bal[s]
  OBVIOUS
<1> HIDE DEF left
<1>2. /\ new \in [Tokens -> [Accounts -> Int]]
      /\ \A a \in Accounts : new[t][a] = left[t][a] + (IF to = a THEN value ELSE 0)
      /\ \A s \in Tokens \ {t} : new[s] = left[s]
  BY <1>1
<1>3. Move(bal, t, from, to, value) = new
  BY DEF Move, left
<1> HIDE DEF new
<1>4. Shifted(bal[t], new[t], from, to, value)
  <2>1. ASSUME NEW a \in Accounts
        PROVE  new[t][a] = bal[t][a] + (IF to = a THEN value ELSE 0) - (IF from = a THEN value ELSE 0)
    <3>1. bal[t][a] \in Int /\ left[t][a] \in Int
      BY <1>1
    <3>2. left[t][a] = bal[t][a] - (IF from = a THEN value ELSE 0)
      BY <1>1
    <3>3. new[t][a] = left[t][a] + (IF to = a THEN value ELSE 0)
      BY <1>2
    <3>4. QED
      BY <3>1, <3>2, <3>3
  <2>2. QED
    BY <2>1 DEF Shifted
<1>5. QED
  BY <1>1, <1>2, <1>3, <1>4 DEF OnlyToken

(* The two moves of a trade.                                               *)
LEMMA TradeMoves ==
  ASSUME NEW bal \in [Tokens -> [Accounts -> Int]], NEW paid \in Tokens, NEW got \in Tokens,
         paid # got, NEW u \in Accounts, NEW p \in Accounts, NEW value \in Int,
         NEW new, new = Move(Move(bal, paid, u, p, value), got, p, u, value)
  PROVE  /\ new \in [Tokens -> [Accounts -> Int]]
         /\ Shifted(bal[paid], new[paid], u, p, value)
         /\ Shifted(bal[got], new[got], p, u, value)
<1> DEFINE mid == Move(bal, paid, u, p, value)
<1>1. /\ mid \in [Tokens -> [Accounts -> Int]]
      /\ Shifted(bal[paid], mid[paid], u, p, value)
      /\ OnlyToken(paid, bal, mid)
  BY MoveFacts
<1>2. new = Move(mid, got, p, u, value)
  OBVIOUS
<1> HIDE DEF mid
<1>3. /\ new \in [Tokens -> [Accounts -> Int]]
      /\ Shifted(mid[got], new[got], p, u, value)
      /\ OnlyToken(got, mid, new)
  <2> DEFINE last == Move(mid, got, p, u, value)
  <2>1. /\ last \in [Tokens -> [Accounts -> Int]]
        /\ Shifted(mid[got], last[got], p, u, value)
        /\ OnlyToken(got, mid, last)
    BY <1>1, MoveFacts
  <2> HIDE DEF last
  <2>2. QED
    BY <1>2, <2>1 DEF last
<1>4. new[paid] = mid[paid] /\ mid[got] = bal[got]
  BY <1>1, <1>3 DEF OnlyToken
<1>5. QED
  BY <1>1, <1>3, <1>4

LEMMA LogTypes ==
  /\ \A t \in Tokens, from, to \in Accounts, value \in Nat :
       /\ Transfer(t, from, to, value) \in Log
       /\ Transfer(t, from, to, value).kind = "Transfer"
       /\ Transfer(t, from, to, value).token = t
       /\ Transfer(t, from, to, value).from = from
       /\ Transfer(t, from, to, value).to = to
       /\ Transfer(t, from, to, value).value = value
  /\ \A kind \in Kinds \ {"Transfer"}, user \in Accounts :
       /\ About(kind, user) \in Log
       /\ About(kind, user).kind = kind
       /\ About(kind, user).token = "USID"
BY DEF Transfer, About, Log, Tokens, Kinds

(* What a transaction adds to the chain, and does to the balances of USID. *)
Effect(logs, bal, bal2) ==
  \/ NoneIn(logs) /\ \A a \in Accounts \ {Zero} : bal2[a] = bal[a]
  \/ \E j \in DOMAIN logs : OnlyAt(logs, j) /\ Moves(bal, bal2, logs[j])

Mines ==
  \E logs : /\ IsBlock(logs) /\ chain' = Append(chain, logs)
            /\ balances' \in [Tokens -> [Accounts -> Int]]
            /\ Effect(logs, balances["USID"], balances'["USID"])

LEMMA OneLog ==
  ASSUME NEW log \in Log, log.kind = "Transfer"
  PROVE  /\ IsBlock(<<log>>)
         /\ log.token = "USID" => 1 \in DOMAIN <<log>> /\ OnlyAt(<<log>>, 1) /\ <<log>>[1] = log
         /\ log.token # "USID" => NoneIn(<<log>>)
<1>1. <<log>> \in Seq(Log) /\ Len(<<log>>) = 1 /\ DOMAIN <<log>> = {1} /\ <<log>>[1] = log
  OBVIOUS
<1>2. QED
  BY <1>1 DEF IsBlock, OnlyAt, NoneIn, InUSID

LEMMA CreateBlock ==
  ASSUME ChainInv, NEW u \in Users, CreateMarket(u)
  PROVE  Mines
<1> DEFINE l1 == Transfer("TKN", Zero, Pool, Supply)
           l2 == Transfer("USID", Zero, Pool, Supply)
           l3 == About("MarketCreated", u)
           l4 == About("FactoryMarketCreated", u)
           logs == <<l1, l2, l3, l4>>
<1>1. /\ l1 \in Log /\ l1.kind = "Transfer" /\ l1.token = "TKN"
      /\ l2 \in Log /\ l2.kind = "Transfer" /\ l2.token = "USID"
      /\ l2.from = Zero /\ l2.to = Pool /\ l2.value = Supply
      /\ l3 \in Log /\ l3.kind = "MarketCreated" /\ l3.token = "USID"
      /\ l4 \in Log /\ l4.kind = "FactoryMarketCreated" /\ l4.token = "USID"
  <2>1. "TKN" \in Tokens /\ "USID" \in Tokens /\ Zero \in Accounts /\ Pool \in Accounts /\ u \in Accounts
    BY DEF Tokens, Accounts
  <2>2. Supply \in Nat
    BY TokensAssumption
  <2>3. "MarketCreated" \in Kinds \ {"Transfer"} /\ "FactoryMarketCreated" \in Kinds \ {"Transfer"}
    BY DEF Kinds
  <2> HIDE DEF l1, l2, l3, l4
  <2>4. QED
    BY <2>1, <2>2, <2>3, LogTypes DEF l1, l2, l3, l4
<1>2. chain' = Append(chain, logs) /\ Supply \in Nat
  BY TokensAssumption DEF CreateMarket, Mine
<1>3. balances' = [t \in Tokens |-> [balances[t] EXCEPT ![Pool] = @ + Supply]]
  BY DEF CreateMarket
<1>4. balances' \in [Tokens -> [Accounts -> Int]]
  BY <1>2, <1>3 DEF ChainInv, Accounts
<1>5. Moves(balances["USID"], balances'["USID"], l2)
  <2>1. \A a \in Accounts : balances'["USID"][a] = balances["USID"][a] + (IF Pool = a THEN Supply ELSE 0)
    BY <1>2, <1>3 DEF ChainInv, Accounts, Tokens
  <2>2. \A a \in Accounts : balances["USID"][a] \in Int
    BY DEF ChainInv, Tokens
  <2> HIDE DEF l2
  <2>3. QED
    BY <1>1, <1>2, <2>1, <2>2 DEF Moves
<1> HIDE DEF l1, l2, l3, l4
<1>6. logs \in Seq(Log) /\ Len(logs) = 4 /\ DOMAIN logs = 1 .. 4
  BY <1>1
<1>7. logs[1] = l1 /\ logs[2] = l2 /\ logs[3] = l3 /\ logs[4] = l4
  OBVIOUS
<1> HIDE DEF logs
<1>8. 2 \in DOMAIN logs /\ OnlyAt(logs, 2)
  BY <1>1, <1>6, <1>7 DEF OnlyAt, InUSID
<1>9. IsBlock(logs)
  BY <1>1, <1>6, <1>7 DEF IsBlock
<1>10. Effect(logs, balances["USID"], balances'["USID"])
  BY <1>5, <1>7, <1>8 DEF Effect
<1>11. QED
  BY <1>2, <1>4, <1>9, <1>10 DEF Mines

LEMMA TradeBlock ==
  ASSUME ChainInv, NEW u \in Users, NEW value \in Amounts, NEW paid \in Tokens, NEW got \in Tokens,
         paid # got, Trade(u, paid, got, value)
  PROVE  Mines
<1> DEFINE l1 == Transfer(paid, u, Pool, value)
           l2 == Transfer(got, Pool, u, value)
           l3 == About("Swap", Router)
           logs == <<l1, l2, l3>>
<1>0. /\ u \in Accounts /\ Pool \in Accounts /\ Router \in Accounts /\ value \in Nat
      /\ "Swap" \in Kinds \ {"Transfer"}
  BY TokensAssumption DEF Accounts, Kinds
<1>1. /\ l1 \in Log /\ l1.kind = "Transfer" /\ l1.token = paid
      /\ l1.from = u /\ l1.to = Pool /\ l1.value = value
      /\ l2 \in Log /\ l2.kind = "Transfer" /\ l2.token = got
      /\ l2.from = Pool /\ l2.to = u /\ l2.value = value
      /\ l3 \in Log /\ l3.kind = "Swap" /\ l3.token = "USID"
  <2> HIDE DEF l1, l2, l3
  <2> QED BY <1>0, LogTypes DEF l1, l2, l3
<1>2. /\ chain' = Append(chain, logs)
      /\ balances' = Move(Move(balances, paid, u, Pool, value), got, Pool, u, value)
      /\ balances[paid][u] >= value /\ balances[got][Pool] >= value
  BY DEF Trade, Mine
<1>3. /\ balances' \in [Tokens -> [Accounts -> Int]]
      /\ Shifted(balances[paid], balances'[paid], u, Pool, value)
      /\ Shifted(balances[got], balances'[got], Pool, u, value)
  <2> HIDE DEF l1, l2, l3, logs
  <2>1. value \in Int /\ balances \in [Tokens -> [Accounts -> Int]]
    BY <1>0 DEF ChainInv
  <2>2. QED
    BY <1>0, <1>2, <2>1, TradeMoves
<1> HIDE DEF l1, l2, l3
<1>6. logs \in Seq(Log) /\ Len(logs) = 3 /\ DOMAIN logs = 1 .. 3
  BY <1>1
<1>7. logs[1] = l1 /\ logs[2] = l2 /\ logs[3] = l3
  OBVIOUS
<1> HIDE DEF logs
<1>8. IsBlock(logs)
  BY <1>1, <1>6, <1>7 DEF IsBlock
<1>9. CASE paid = "USID"
  <2>1. 1 \in DOMAIN logs /\ OnlyAt(logs, 1)
    BY <1>1, <1>6, <1>7, <1>9 DEF OnlyAt, InUSID
  <2>2. Moves(balances["USID"], balances'["USID"], l1)
    BY <1>1, <1>2, <1>3, <1>9 DEF Moves, Shifted
  <2>3. QED
    BY <1>2, <1>3, <1>7, <1>8, <2>1, <2>2 DEF Effect, Mines
<1>10. CASE got = "USID"
  <2>1. 2 \in DOMAIN logs /\ OnlyAt(logs, 2)
    BY <1>1, <1>6, <1>7, <1>10 DEF OnlyAt, InUSID
  <2>2. Moves(balances["USID"], balances'["USID"], l2)
    BY <1>1, <1>2, <1>3, <1>10 DEF Moves, Shifted
  <2>3. QED
    BY <1>2, <1>3, <1>7, <1>8, <2>1, <2>2 DEF Effect, Mines
<1>11. QED
  BY <1>9, <1>10 DEF Tokens

(* A block of one Transfer log, and what it does to the balances.          *)
LEMMA SingleBlock ==
  ASSUME NEW log \in Log, log.kind = "Transfer", NEW bal, NEW bal2,
         log.token = "USID" => Moves(bal, bal2, log),
         log.token # "USID" => \A a \in Accounts \ {Zero} : bal2[a] = bal[a]
  PROVE  IsBlock(<<log>>) /\ Effect(<<log>>, bal, bal2)
<1>1. CASE log.token = "USID"
  <2>1. /\ IsBlock(<<log>>)
        /\ 1 \in DOMAIN <<log>> /\ OnlyAt(<<log>>, 1) /\ <<log>>[1] = log
    BY <1>1, OneLog
  <2>2. Moves(bal, bal2, <<log>>[1])
    BY <1>1, <2>1
  <2>3. QED
    BY <2>1, <2>2 DEF Effect
<1>2. CASE log.token # "USID"
  BY <1>2, OneLog DEF Effect
<1>3. QED
  BY <1>1, <1>2

LEMMA DepositBlock ==
  ASSUME ChainInv, NEW u \in Users, NEW value \in Amounts, Deposit(u, value)
  PROVE  Mines
<1> DEFINE log == Transfer("USID", Zero, u, value)
<1>0. /\ u \in Accounts /\ Zero \in Accounts /\ value \in Nat /\ "USID" \in Tokens
      /\ balances \in [Tokens -> [Accounts -> Int]]
  BY TokensAssumption DEF Accounts, Tokens, ChainInv
<1>1. /\ log \in Log /\ log.kind = "Transfer" /\ log.token = "USID"
      /\ log.from = Zero /\ log.to = u /\ log.value = value
  BY <1>0, LogTypes
<1>2. /\ chain' = Append(chain, <<log>>)
      /\ balances' = [balances EXCEPT !["USID"][u] = @ + value]
  BY DEF Deposit, Mine
<1> HIDE DEF log
<1>3. /\ balances' \in [Tokens -> [Accounts -> Int]]
      /\ \A a \in Accounts : balances'["USID"][a] = balances["USID"][a] + (IF u = a THEN value ELSE 0)
  BY <1>0, <1>2
<1>4. Moves(balances["USID"], balances'["USID"], log)
  <2>1. \A a \in Accounts : balances["USID"][a] \in Int
    BY <1>0
  <2>2. QED
    <3>1. ASSUME NEW a \in Accounts \ {Zero}
          PROVE  balances'["USID"][a] = balances["USID"][a] + (IF log.to = a THEN log.value ELSE 0)
                                          - (IF log.from = a THEN log.value ELSE 0)
      <4>1. log.from # a /\ log.to = u /\ log.value = value
        BY <1>1
      <4>2. balances'["USID"][a] = balances["USID"][a] + (IF u = a THEN value ELSE 0)
        BY <1>3
      <4>3. QED
        BY <1>0, <2>1, <4>1, <4>2
    <3>2. QED
      BY <1>1, <3>1 DEF Moves
<1>5. QED
  BY <1>1, <1>2, <1>3, <1>4, SingleBlock DEF Mines

LEMMA WithdrawBlock ==
  ASSUME ChainInv, NEW u \in Users, NEW value \in Amounts, Withdraw(u, value)
  PROVE  Mines
<1> DEFINE log == Transfer("USID", u, Zero, value)
<1>0. /\ u \in Accounts /\ Zero \in Accounts /\ value \in Nat /\ "USID" \in Tokens
      /\ balances \in [Tokens -> [Accounts -> Int]]
  BY TokensAssumption DEF Accounts, Tokens, ChainInv
<1>1. /\ log \in Log /\ log.kind = "Transfer" /\ log.token = "USID"
      /\ log.from = u /\ log.to = Zero /\ log.value = value
  BY <1>0, LogTypes
<1>2. /\ chain' = Append(chain, <<log>>)
      /\ balances' = [balances EXCEPT !["USID"][u] = @ - value]
      /\ balances["USID"][u] >= value
  BY DEF Withdraw, Mine
<1> HIDE DEF log
<1>3. /\ balances' \in [Tokens -> [Accounts -> Int]]
      /\ \A a \in Accounts : balances'["USID"][a] = balances["USID"][a] - (IF u = a THEN value ELSE 0)
  BY <1>0, <1>2
<1>4. Moves(balances["USID"], balances'["USID"], log)
  <2>1. \A a \in Accounts : balances["USID"][a] \in Int
    BY <1>0
  <2>2. QED
    BY <1>0, <1>1, <1>2, <1>3, <2>1 DEF Moves
<1>5. QED
  BY <1>1, <1>2, <1>3, <1>4, SingleBlock DEF Mines

LEMMA SendBlock ==
  ASSUME ChainInv, NEW u \in Users, NEW value \in Amounts, NEW t \in Tokens,
         NEW to \in Users \union {Zero}, Send(t, u, to, value)
  PROVE  Mines
<1> DEFINE log == Transfer(t, u, to, value)
           new == Move(balances, t, u, to, value)
<1>0. /\ u \in Accounts /\ to \in Accounts /\ value \in Nat /\ value \in Int /\ "USID" \in Tokens
      /\ balances \in [Tokens -> [Accounts -> Int]]
  BY TokensAssumption DEF Accounts, Tokens, ChainInv
<1>1. /\ log \in Log /\ log.kind = "Transfer" /\ log.token = t
      /\ log.from = u /\ log.to = to /\ log.value = value
  BY <1>0, LogTypes
<1>2. /\ chain' = Append(chain, <<log>>)
      /\ balances' = new
      /\ balances[t][u] >= value
  BY DEF Send, Mine
<1>3. /\ new \in [Tokens -> [Accounts -> Int]]
      /\ Shifted(balances[t], new[t], u, to, value)
      /\ OnlyToken(t, balances, new)
  <2> HIDE DEF log
  <2>1. QED
    BY <1>0, MoveFacts
<1> HIDE DEF log, new
<1>4. ASSUME t = "USID"
      PROVE  Moves(balances["USID"], new["USID"], log)
  BY <1>0, <1>1, <1>2, <1>3, <1>4 DEF Moves, Shifted
<1>5. ASSUME t # "USID"
      PROVE  new["USID"] = balances["USID"]
  BY <1>0, <1>3, <1>5 DEF OnlyToken
<1>6. IsBlock(<<log>>) /\ Effect(<<log>>, balances["USID"], new["USID"])
  BY <1>1, <1>4, <1>5, SingleBlock
<1>7. QED
  BY <1>2, <1>3, <1>6 DEF Mines

LEMMA TransactionBlock ==
  ASSUME ChainInv, Transaction
  PROVE  Mines
<1>1. PICK u \in Users :
        \/ CreateMarket(u)
        \/ \E value \in Amounts :
             \/ Deposit(u, value)
             \/ Withdraw(u, value)
             \/ \E t \in Tokens, to \in Users \union {Zero} : Send(t, u, to, value)
             \/ Trade(u, "USID", "TKN", value)
             \/ Trade(u, "TKN", "USID", value)
  BY Zenon DEF Transaction
<1>2. CASE CreateMarket(u)
  BY <1>2, CreateBlock
<1>3. CASE \E value \in Amounts : Deposit(u, value)
  BY <1>3, DepositBlock
<1>4. CASE \E value \in Amounts : Withdraw(u, value)
  BY <1>4, WithdrawBlock
<1>5. CASE \E value \in Amounts, t \in Tokens, to \in Users \union {Zero} : Send(t, u, to, value)
  BY <1>5, SendBlock
<1>6. CASE \E value \in Amounts : Trade(u, "USID", "TKN", value) \/ Trade(u, "TKN", "USID", value)
  <2>1. "USID" \in Tokens /\ "TKN" \in Tokens /\ "USID" # "TKN"
    BY DEF Tokens
  <2>2. QED
    BY <1>6, <2>1, TradeBlock
<1>7. QED
  BY <1>1, <1>2, <1>3, <1>4, <1>5, <1>6

LEMMA TransactionKeepsChain ==
  ASSUME ChainInv, Transaction
  PROVE  /\ ChainInv'
         /\ \E logs : Extends(chain, chain', logs)
<1>1. PICK logs :
        /\ IsBlock(logs) /\ chain' = Append(chain, logs)
        /\ balances' \in [Tokens -> [Accounts -> Int]]
        /\ Effect(logs, balances["USID"], balances'["USID"])
  BY TransactionBlock DEF Mines
<1>2. /\ IsChain(chain) /\ Ledger(chain, balances["USID"]) /\ History(chain)
  BY DEF ChainInv
<1>3. /\ IsChain(chain')
      /\ Extends(chain, chain', logs)
  <2> DEFINE d == chain'
  <2>1. d = Append(chain, logs)
    BY <1>1
  <2> HIDE DEF d
  <2>2. /\ IsChain(d)
        /\ Extends(chain, d, logs)
    BY <1>1, <1>2, <2>1, Grown
  <2>3. QED
    BY <2>2, Zenon DEF d
<1>4. Ledger(chain', balances'["USID"]) /\ History(chain')
  <2>1. CASE NoneIn(logs) /\ \A a \in Accounts \ {Zero} : balances'["USID"][a] = balances["USID"][a]
    BY <1>2, <1>3, <2>1, QuietBlock
  <2>2. CASE \E j \in DOMAIN logs : OnlyAt(logs, j) /\ Moves(balances["USID"], balances'["USID"], logs[j])
    BY <1>2, <1>3, <2>2, BusyBlock
  <2>3. QED
    BY <1>1, <2>1, <2>2 DEF Effect
<1>5. QED
  BY <1>1, <1>3, <1>4 DEF ChainInv
-----------------------------------------------------------------------------
(* The statements still to run: each at most once, and what a handler adds *)
(* comes first.                                                            *)
Follow == {"CountUser", "CountHolder", "UncountHolder"}
Basic == {"InsertFrom", "InsertTo", "InsertToken", "InsertMarket", "LinkToken", "TrackToken",
          "InsertUSID", "CountTransfer", "Supply", "Debit", "Credit", "SyncHolders"}

Has(statement, list) == \E i \in DOMAIN list : list[i] = statement

(* A list of the statements S, none of them twice.                         *)
IsPlan(list, S) ==
  /\ list \in Seq(S)
  /\ S \subseteq Basic
  /\ \A i, j \in DOMAIN list : list[i] = list[j] => i = j
  /\ \A s \in S : Has(s, list)

IsTodo(list) ==
  /\ list \in Seq(Basic \union Follow)
  /\ \A i, j \in DOMAIN list : list[i] = list[j] => i = j
  /\ \A i \in DOMAIN list : list[i] \in Follow => i = 1

LEMMA PlanConcat ==
  ASSUME NEW a, NEW b, NEW A, NEW B, IsPlan(a, A), IsPlan(b, B), A \cap B = {}
  PROVE  IsPlan(a \o b, A \union B)
<1> DEFINE c == a \o b
<1>1. /\ a \in Seq(A) /\ b \in Seq(B)
      /\ \A i, j \in DOMAIN a : a[i] = a[j] => i = j
      /\ \A i, j \in DOMAIN b : b[i] = b[j] => i = j
      /\ A \union B \subseteq Basic
  BY DEF IsPlan
<1>2. a \in Seq(A \union B) /\ b \in Seq(A \union B)
  BY <1>1
<1>3. /\ c \in Seq(A \union B)
      /\ Len(c) = Len(a) + Len(b) /\ Len(a) \in Nat /\ Len(b) \in Nat
      /\ DOMAIN c = 1 .. (Len(a) + Len(b)) /\ DOMAIN a = 1 .. Len(a) /\ DOMAIN b = 1 .. Len(b)
      /\ \A i \in 1 .. (Len(a) + Len(b)) : c[i] = IF i <= Len(a) THEN a[i] ELSE b[i - Len(a)]
  BY <1>2
<1> HIDE DEF c
<1>4. /\ \A i \in DOMAIN a : a[i] \in A /\ i \in DOMAIN c /\ c[i] = a[i]
      /\ \A i \in DOMAIN b : b[i] \in B /\ i + Len(a) \in DOMAIN c /\ c[i + Len(a)] = b[i]
  BY <1>1, <1>3
<1>5. ASSUME NEW i \in DOMAIN c, NEW j \in DOMAIN c, c[i] = c[j]
      PROVE  i = j
  <2>1. CASE i <= Len(a) /\ j <= Len(a)
    BY <1>1, <1>3, <1>5, <2>1
  <2>2. CASE i > Len(a) /\ j > Len(a)
    <3>1. i - Len(a) \in DOMAIN b /\ j - Len(a) \in DOMAIN b
      BY <1>3, <2>2
    <3>2. b[i - Len(a)] = b[j - Len(a)]
      BY <1>3, <1>5, <2>2
    <3>3. i - Len(a) = j - Len(a)
      BY <1>1, <3>1, <3>2
    <3>4. QED
      BY <1>3, <3>3
  <2>3. CASE i <= Len(a) /\ j > Len(a)
    <3>1. c[i] \in A
      BY <1>1, <1>3, <2>3
    <3>2. c[j] \in B
      BY <1>1, <1>3, <2>3
    <3>3. QED
      BY <1>5, <3>1, <3>2
  <2>4. CASE i > Len(a) /\ j <= Len(a)
    <3>1. c[j] \in A
      BY <1>1, <1>3, <2>4
    <3>2. c[i] \in B
      BY <1>1, <1>3, <2>4
    <3>3. QED
      BY <1>5, <3>1, <3>2
  <2>5. QED
    BY <1>3, <2>1, <2>2, <2>3, <2>4
<1>6. ASSUME NEW s \in A \union B
      PROVE  Has(s, c)
  <2>1. CASE s \in A
    <3>1. PICK i \in DOMAIN a : a[i] = s
      BY <2>1 DEF IsPlan, Has
    <3>2. QED
      BY <1>4, <3>1 DEF Has
  <2>2. CASE s \in B
    <3>1. PICK i \in DOMAIN b : b[i] = s
      BY <2>2 DEF IsPlan, Has
    <3>2. QED
      BY <1>4, <3>1 DEF Has
  <2>3. QED
    BY <2>1, <2>2
<1>7. QED
  BY <1>1, <1>3, <1>5, <1>6 DEF IsPlan, c

LEMMA PlanHas ==
  ASSUME NEW list, NEW S, IsPlan(list, S)
  PROVE  /\ IsTodo(list)
         /\ \A s : Has(s, list) <=> s \in S
<1>1. list \in Seq(S) /\ S \subseteq Basic /\ Basic \cap Follow = {}
  BY DEF IsPlan, Basic, Follow
<1>2. \A i \in DOMAIN list : list[i] \in S
  BY <1>1
<1>3. list \in Seq(Basic \union Follow)
  BY <1>1
<1>4. QED
  BY <1>1, <1>2, <1>3 DEF IsPlan, IsTodo, Has

(* One statement run: it is gone, and what follows up stands first.        *)
LEMMA TodoStep ==
  ASSUME NEW list, IsTodo(list), list # <<>>,
         NEW first, first = <<>> \/ \E s \in Follow : first = <<s>>,
         NEW rest, rest = first \o Tail(list)
  PROVE  /\ IsTodo(rest)
         /\ \A s \in Basic : Has(s, rest) <=> Has(s, list) /\ s # Head(list)
         /\ \A s \in Follow : Has(s, rest) <=> first = <<s>>
         /\ \A s \in Follow : Has(s, list) <=> Head(list) = s
         /\ Head(list) \in Basic \union Follow /\ Has(Head(list), list)
<1> DEFINE T == Basic \union Follow
<1>1. /\ list \in Seq(T) /\ Len(list) \in Nat /\ Len(list) > 0 /\ DOMAIN list = 1 .. Len(list)
      /\ 1 \in DOMAIN list /\ Head(list) = list[1] /\ Head(list) \in T
      /\ \A i \in DOMAIN list : list[i] \in T
  BY DEF IsTodo
<1>2. /\ Tail(list) \in Seq(T) /\ Len(Tail(list)) = Len(list) - 1
      /\ DOMAIN Tail(list) = 1 .. (Len(list) - 1)
      /\ \A i \in 1 .. (Len(list) - 1) : Tail(list)[i] = list[i + 1]
  BY <1>1
<1>3. \A i \in DOMAIN Tail(list) :
        /\ i + 1 \in DOMAIN list /\ Tail(list)[i] = list[i + 1] /\ Tail(list)[i] \in T
        /\ i + 1 # 1
  BY <1>1, <1>2
<1>4. \A i \in DOMAIN Tail(list) : Tail(list)[i] \notin Follow /\ Tail(list)[i] # Head(list)
  <2>1. \A i \in DOMAIN list : list[i] \in Follow => i = 1
    BY DEF IsTodo
  <2>2. \A i, j \in DOMAIN list : list[i] = list[j] => i = j
    BY DEF IsTodo
  <2>3. QED
    BY <1>1, <1>3, <2>1, <2>2
<1>5. \A i, j \in DOMAIN Tail(list) : Tail(list)[i] = Tail(list)[j] => i = j
  <2>1. \A i, j \in DOMAIN list : list[i] = list[j] => i = j
    BY DEF IsTodo
  <2> TAKE i, j \in DOMAIN Tail(list)
  <2> HAVE Tail(list)[i] = Tail(list)[j]
  <2>2. i + 1 = j + 1
    BY <1>3, <2>1
  <2>3. QED
    BY <1>2, <2>2
<1>6. \A s : Has(s, Tail(list)) <=> Has(s, list) /\ s # Head(list)
  <2>1. ASSUME NEW s, Has(s, Tail(list))
        PROVE  Has(s, list) /\ s # Head(list)
    BY <1>3, <1>4, <2>1 DEF Has
  <2>2. ASSUME NEW s, Has(s, list), s # Head(list)
        PROVE  Has(s, Tail(list))
    <3>1. PICK i \in DOMAIN list : list[i] = s
      BY <2>2 DEF Has
    <3>2. i # 1
      BY <1>1, <2>2, <3>1
    <3>3. i - 1 \in DOMAIN Tail(list) /\ Tail(list)[i - 1] = list[i]
      BY <1>1, <1>2, <3>2
    <3>4. QED
      BY <3>1, <3>3 DEF Has
  <2>3. QED
    BY <2>1, <2>2
<1>7. \A s \in Follow : Has(s, list) <=> Head(list) = s
  <2>1. \A s \in Follow : ~Has(s, Tail(list))
    BY <1>4 DEF Has
  <2>2. QED
    BY <1>1, <1>6, <2>1 DEF Has
<1>8. Has(Head(list), list)
  BY <1>1 DEF Has
<1>9. Basic \cap Follow = {}
  BY DEF Basic, Follow
<1>10. CASE first = <<>>
  <2>1. rest = Tail(list)
    BY <1>2, <1>10
  <2>2. IsTodo(rest)
    BY <1>2, <1>4, <1>5, <2>1 DEF IsTodo
  <2>3. \A s \in Follow : ~Has(s, rest) /\ first # <<s>>
    BY <1>4, <1>10, <2>1 DEF Has
  <2>4. QED
    BY <1>1, <1>6, <1>7, <1>8, <2>1, <2>2, <2>3
<1>11. CASE first # <<>>
  <2>1. PICK f \in Follow : first = <<f>>
    BY <1>11
  <2>2. /\ rest \in Seq(T) /\ Len(rest) = Len(list) /\ DOMAIN rest = 1 .. Len(list)
        /\ rest[1] = f
        /\ \A i \in 2 .. Len(list) : rest[i] = Tail(list)[i - 1]
    <3>1. first \in Seq(T) /\ Len(first) = 1 /\ first[1] = f
      BY <2>1
    <3>2. /\ first \o Tail(list) \in Seq(T)
          /\ Len(first \o Tail(list)) = 1 + Len(Tail(list))
          /\ \A i \in 1 .. (1 + Len(Tail(list))) :
               (first \o Tail(list))[i] = IF i <= 1 THEN first[i] ELSE Tail(list)[i - 1]
      <4> HIDE DEF T
      <4>1. first \in Seq(T) /\ Tail(list) \in Seq(T) /\ Len(first) = 1
        BY <1>2, <3>1
      <4>2. /\ first \o Tail(list) \in Seq(T)
            /\ Len(first \o Tail(list)) = Len(first) + Len(Tail(list))
            /\ \A i \in 1 .. (Len(first) + Len(Tail(list))) :
                 (first \o Tail(list))[i] = IF i <= Len(first) THEN first[i] ELSE Tail(list)[i - Len(first)]
        BY <4>1, ConcatProperties
      <4>3. QED
        BY <4>1, <4>2
    <3> HIDE DEF T
    <3>3. rest \in Seq(T) /\ Len(rest) = Len(list)
      BY <1>1, <1>2, <3>2
    <3>4. \A i \in 1 .. Len(list) : rest[i] = IF i <= 1 THEN first[i] ELSE Tail(list)[i - 1]
      BY <1>1, <1>2, <3>2
    <3>5. DOMAIN rest = 1 .. Len(list)
      BY <3>3
    <3>6. rest[1] = f
      BY <1>1, <3>1, <3>4
    <3>7. \A i \in 2 .. Len(list) : rest[i] = Tail(list)[i - 1]
      <4> TAKE i \in 2 .. Len(list)
      <4>1. i \in 1 .. Len(list) /\ ~(i <= 1)
        BY <1>1
      <4>2. QED
        BY <3>4, <4>1
    <3>8. QED
      BY <3>3, <3>5, <3>6, <3>7
  <2>3. \A i \in DOMAIN rest : i # 1 => i - 1 \in DOMAIN Tail(list) /\ rest[i] = Tail(list)[i - 1]
    BY <1>1, <1>2, <2>2
  <2>4. \A i \in DOMAIN Tail(list) : i + 1 \in DOMAIN rest /\ rest[i + 1] = Tail(list)[i]
    BY <1>1, <1>2, <2>2
  <2>5. \A i, j \in DOMAIN rest : rest[i] = rest[j] => i = j
    <3> TAKE i, j \in DOMAIN rest
    <3> HAVE rest[i] = rest[j]
    <3>1. CASE i # 1 /\ j # 1
      <4>1. i - 1 = j - 1
        BY <1>5, <2>3, <3>1
      <4>2. QED
        BY <2>2, <4>1
    <3>2. CASE i = 1 /\ j # 1
      BY <1>4, <2>2, <2>3, <3>2
    <3>3. CASE i # 1 /\ j = 1
      BY <1>4, <2>2, <2>3, <3>3
    <3>4. QED
      BY <3>1, <3>2, <3>3
  <2>6. IsTodo(rest)
    BY <1>4, <2>2, <2>3, <2>5 DEF IsTodo
  <2>7. \A s : Has(s, rest) <=> s = f \/ Has(s, Tail(list))
    <3>1. ASSUME NEW s, Has(s, rest)
          PROVE  s = f \/ Has(s, Tail(list))
      BY <2>2, <2>3, <3>1 DEF Has
    <3>2. ASSUME NEW s, Has(s, Tail(list))
          PROVE  Has(s, rest)
      <4>1. PICK i \in DOMAIN Tail(list) : Tail(list)[i] = s
        BY <3>2 DEF Has
      <4>2. i + 1 \in DOMAIN rest /\ rest[i + 1] = s
        BY <2>4, <4>1
      <4>3. QED
        BY <4>2 DEF Has
    <3>3. 1 \in DOMAIN rest /\ rest[1] = f
      BY <1>1, <2>2
    <3>4. Has(f, rest)
      BY <3>3 DEF Has
    <3>5. QED
      BY <3>1, <3>2, <3>4
  <2>8. \A s \in Follow : Has(s, rest) <=> s = f
    <3>1. \A s \in Follow : ~Has(s, Tail(list))
      BY <1>4 DEF Has
    <3>2. QED
      BY <2>7, <3>1
  <2>9. \A s \in Follow : first = <<s>> <=> s = f
    <3>1. ASSUME NEW s, <<f>> = <<s>>
          PROVE  s = f
      <4>1. <<f>>[1] = <<s>>[1]
        BY <3>1
      <4>2. QED
        BY <4>1
    <3>2. QED
      BY <2>1, <3>1
  <2>10. QED
    BY <1>1, <1>6, <1>7, <1>8, <1>9, <2>6, <2>7, <2>8, <2>9
<1>12. QED
  BY <1>10, <1>11

(* What a handler sets out to do for a log.                                *)
Planned(list, log) ==
  /\ IsTodo(list)
  /\ \A s \in Follow : ~Has(s, list)
  /\ Has("Debit", list) => log.kind = "Transfer" /\ log.from # Zero
  /\ Has("Credit", list) => log.kind = "Transfer" /\ log.to # Zero
  /\ Has("Supply", list) => InUSID(log)
  /\ InUSID(log) => /\ Has("Supply", list)
                    /\ log.from # Zero => Has("Debit", list)
                    /\ log.to # Zero => Has("Credit", list)

LEMMA ShortPlans ==
  /\ IsPlan(<<>>, {})
  /\ \A s \in Basic : IsPlan(<<s>>, {s})
  /\ \A s, t \in Basic : s # t => IsPlan(<<s, t>>, {s, t})
<1>1. IsPlan(<<>>, {})
  BY DEF IsPlan, Has
<1>2. ASSUME NEW s \in Basic
      PROVE  IsPlan(<<s>>, {s})
  <2>1. /\ <<s>> \in Seq({s}) /\ DOMAIN <<s>> = {1} /\ <<s>>[1] = s
    OBVIOUS
  <2>2. QED
    BY <2>1 DEF IsPlan, Has
<1>3. ASSUME NEW s \in Basic, NEW t \in Basic, s # t
      PROVE  IsPlan(<<s, t>>, {s, t})
  <2>1. /\ <<s, t>> \in Seq({s, t}) /\ DOMAIN <<s, t>> = {1, 2}
        /\ <<s, t>>[1] = s /\ <<s, t>>[2] = t
    OBVIOUS
  <2>2. QED
    BY <1>3, <2>1 DEF IsPlan, Has
<1>4. QED
  BY <1>1, <1>2, <1>3

LEMMA PlanIsPlanned ==
  ASSUME NEW list, NEW S, IsPlan(list, S), NEW log,
         "Debit" \in S => log.kind = "Transfer" /\ log.from # Zero,
         "Credit" \in S => log.kind = "Transfer" /\ log.to # Zero,
         "Supply" \in S => InUSID(log),
         InUSID(log) => /\ "Supply" \in S
                        /\ log.from # Zero => "Debit" \in S
                        /\ log.to # Zero => "Credit" \in S
  PROVE  Planned(list, log)
<1>1. IsTodo(list) /\ \A s : Has(s, list) <=> s \in S
  BY PlanHas
<1>2. S \cap Follow = {}
  BY DEF IsPlan, Basic, Follow
<1>3. QED
  BY <1>1, <1>2 DEF Planned

Moving(log) ==
  (IF log.from = Zero THEN {} ELSE {"InsertFrom", "Debit"})
    \union (IF log.to = Zero THEN {} ELSE {"InsertTo", "Credit"})

LEMMA TransferPlans ==
  ASSUME NEW log
  PROVE  /\ IsPlan(<<"CountTransfer">> \o Debits(log) \o Credits(log) \o <<"SyncHolders">>,
                   {"CountTransfer", "SyncHolders"} \union Moving(log))
         /\ IsPlan(USIDTransfer(log), {"InsertUSID", "CountTransfer", "Supply"} \union Moving(log))
<1> DEFINE D == IF log.from = Zero THEN {} ELSE {"InsertFrom", "Debit"}
           C == IF log.to = Zero THEN {} ELSE {"InsertTo", "Credit"}
           one == <<"CountTransfer">>
           three == <<"InsertUSID", "CountTransfer", "Supply">>
<1>1. IsPlan(Debits(log), D) /\ IsPlan(Credits(log), C)
  <2>1. {"InsertFrom", "Debit", "InsertTo", "Credit"} \subseteq Basic
    BY DEF Basic
  <2>2. IsPlan(<<"InsertFrom", "Debit">>, {"InsertFrom", "Debit"})
        /\ IsPlan(<<"InsertTo", "Credit">>, {"InsertTo", "Credit"})
    BY <2>1, ShortPlans
  <2>3. QED
    BY <2>2, ShortPlans DEF Debits, Credits
<1>2. D \cap C = {} /\ D \subseteq {"InsertFrom", "Debit"} /\ C \subseteq {"InsertTo", "Credit"}
  OBVIOUS
<1>3. /\ IsPlan(one, {"CountTransfer"}) /\ IsPlan(<<"SyncHolders">>, {"SyncHolders"})
  BY ShortPlans DEF Basic
<1>4. IsPlan(three, {"InsertUSID", "CountTransfer", "Supply"})
  <2>1. /\ three \in Seq({"InsertUSID", "CountTransfer", "Supply"}) /\ DOMAIN three = {1, 2, 3}
        /\ three[1] = "InsertUSID" /\ three[2] = "CountTransfer" /\ three[3] = "Supply"
    OBVIOUS
  <2> HIDE DEF three
  <2>2. QED
    BY <2>1 DEF IsPlan, Has, Basic
<1>5. Moving(log) = D \union C
  BY DEF Moving
<1> HIDE DEF D, C, one, three
<1>6. IsPlan(one \o Debits(log) \o Credits(log) \o <<"SyncHolders">>,
             {"CountTransfer", "SyncHolders"} \union Moving(log))
  <2>1. IsPlan(one \o Debits(log), {"CountTransfer"} \union D)
    BY <1>1, <1>2, <1>3, PlanConcat
  <2>2. IsPlan((one \o Debits(log)) \o Credits(log), ({"CountTransfer"} \union D) \union C)
    BY <1>1, <1>2, <2>1, PlanConcat
  <2>3. IsPlan(((one \o Debits(log)) \o Credits(log)) \o <<"SyncHolders">>,
               (({"CountTransfer"} \union D) \union C) \union {"SyncHolders"})
    BY <1>2, <1>3, <2>2, PlanConcat
  <2>4. (({"CountTransfer"} \union D) \union C) \union {"SyncHolders"} =
           {"CountTransfer", "SyncHolders"} \union Moving(log)
    BY <1>5
  <2>5. QED
    BY <2>3, <2>4
<1>7. IsPlan(three \o Debits(log) \o Credits(log),
             {"InsertUSID", "CountTransfer", "Supply"} \union Moving(log))
  <2>1. IsPlan(three \o Debits(log), {"InsertUSID", "CountTransfer", "Supply"} \union D)
    BY <1>1, <1>2, <1>4, PlanConcat
  <2>2. IsPlan((three \o Debits(log)) \o Credits(log),
               ({"InsertUSID", "CountTransfer", "Supply"} \union D) \union C)
    BY <1>1, <1>2, <2>1, PlanConcat
  <2>3. ({"InsertUSID", "CountTransfer", "Supply"} \union D) \union C =
           {"InsertUSID", "CountTransfer", "Supply"} \union Moving(log)
    BY <1>5
  <2>4. QED
    BY <2>2, <2>3
<1>8. QED
  BY <1>6, <1>7 DEF one, three, USIDTransfer

LEMMA MarketPlans ==
  \E S \in SUBSET {"InsertFrom", "InsertToken", "InsertMarket", "LinkToken", "TrackToken"} :
    IsPlan(NewMarket, S)
<1> DEFINE S == {"InsertFrom", "InsertToken", "InsertMarket", "LinkToken", "TrackToken"}
<1>1. IsPlan(NewMarket, S)
  <2>1. /\ NewMarket \in Seq(S) /\ DOMAIN NewMarket = 1 .. 5
        /\ NewMarket[1] = "InsertFrom" /\ NewMarket[2] = "InsertToken"
        /\ NewMarket[3] = "InsertMarket" /\ NewMarket[4] = "LinkToken"
        /\ NewMarket[5] = "TrackToken"
    BY DEF NewMarket
  <2>2. DOMAIN NewMarket = {1, 2, 3, 4, 5}
    BY <2>1
  <2>3. S \subseteq Basic
    BY DEF Basic
  <2>4. \A s \in S : Has(s, NewMarket)
    BY <2>1, <2>2 DEF Has
  <2>5. \A i, j \in DOMAIN NewMarket : NewMarket[i] = NewMarket[j] => i = j
    BY <2>1, <2>2
  <2>6. QED
    BY <2>1, <2>3, <2>4, <2>5 DEF IsPlan
<1>2. QED
  BY <1>1

LEMMA StatementsPlanned ==
  ASSUME NEW log \in Log, log.kind # "Transfer" => log.token = "USID"
  PROVE  Planned(Statements(log), log)
<1>1. log.kind \in Kinds /\ log.token \in Tokens
  BY DEF Log
<1>2. ASSUME log.kind # "Transfer", NEW list,
             list = <<>> \/ list = <<"InsertFrom">> \/ list = NewMarket
      PROVE  Planned(list, log)
  <2>1. PICK S \in SUBSET {"InsertFrom", "InsertToken", "InsertMarket", "LinkToken", "TrackToken"} :
          IsPlan(list, S)
    <3>1. "InsertFrom" \in Basic
      BY DEF Basic
    <3>2. IsPlan(<<>>, {}) /\ IsPlan(<<"InsertFrom">>, {"InsertFrom"})
      BY <3>1, ShortPlans
    <3>3. QED
      BY <1>2, <3>2, MarketPlans
  <2>2. ~InUSID(log) /\ "Debit" \notin S /\ "Credit" \notin S /\ "Supply" \notin S
    BY <1>2 DEF InUSID
  <2>3. QED
    BY <2>1, <2>2, PlanIsPlanned
<1>3. CASE log.kind # "Transfer"
  <2>1. Statements(log) = <<>> \/ Statements(log) = <<"InsertFrom">> \/ Statements(log) = NewMarket
    <3>1. CASE log.kind = "MarketCreated"
      <4>1. Statements(log) = NewMarket
        BY <3>1 DEF Statements
      <4>2. QED
        BY <4>1
    <3>2. CASE log.kind = "FactoryMarketCreated"
      <4>1. Statements(log) = IF rows.marketHolders = NoRow THEN NewMarket ELSE <<>>
        BY <3>2 DEF Statements
      <4>2. QED
        BY <4>1
    <3>3. CASE log.kind = "Swap"
      <4>1. Statements(log) = IF rows.marketHolders = NoRow THEN <<>> ELSE <<"InsertFrom">>
        BY <3>3 DEF Statements
      <4>2. QED
        BY <4>1
    <3>4. QED
      BY <1>1, <1>3, <3>1, <3>2, <3>3 DEF Kinds
  <2>2. QED
    BY <1>2, <1>3, <2>1
<1>4. CASE log.kind = "Transfer" /\ log.token = "USID"
  <2>1. Statements(log) = USIDTransfer(log)
    BY <1>4 DEF Statements
  <2>2. IsPlan(USIDTransfer(log), {"InsertUSID", "CountTransfer", "Supply"} \union Moving(log))
    BY TransferPlans
  <2>3. QED
    BY <1>4, <2>1, <2>2, PlanIsPlanned DEF InUSID, Moving
<1>5. CASE log.kind = "Transfer" /\ log.token = "TKN"
  <2>1. Statements(log) = TokenTransfer(log)
    BY <1>5 DEF Statements
  <2>2. CASE "TKN" \notin rows.tokens
    <3>1. Statements(log) = <<>>
      BY <2>1, <2>2 DEF TokenTransfer
    <3>2. IsPlan(<<>>, {}) /\ ~InUSID(log)
      BY <1>5, ShortPlans DEF InUSID
    <3>3. QED
      BY <3>1, <3>2, PlanIsPlanned
  <2>3. CASE "TKN" \in rows.tokens
    <3>1. IsPlan(Statements(log), {"CountTransfer", "SyncHolders"} \union Moving(log))
      BY <2>1, <2>3, TransferPlans DEF TokenTransfer
    <3>2. ~InUSID(log)
      BY <1>5 DEF InUSID
    <3>3. QED
      BY <1>5, <3>1, <3>2, PlanIsPlanned DEF Moving
  <2>4. QED
    BY <2>2, <2>3
<1>6. QED
  BY <1>1, <1>3, <1>4, <1>5 DEF Tokens
-----------------------------------------------------------------------------
(* What one statement does to the columns that the properties are about.   *)
Rows ==
  [users : SUBSET Accounts, totalUsers : Nat, tokens : SUBSET Tokens,
   linked : BOOLEAN, tracked : BOOLEAN,
   balance : [Tokens -> [Accounts -> Int \union {NoRow}]],
   holderCount : [Tokens -> Int], transferCount : [Tokens -> Int],
   totalSupply : [Tokens -> Int], marketHolders : Int \union {NoRow}]

SameUsers(r, q) == q.users = r.users /\ q.totalUsers = r.totalUsers
SameBalances(r, q) == q.balance = r.balance
SameHolders(r, q) == q.holderCount = r.holderCount
SameSupply(r, q) == q.totalSupply = r.totalSupply

LEMMA OtherStatements ==
  ASSUME NEW r \in Rows, NEW log \in Log,
         NEW s \in {"InsertToken", "InsertMarket", "LinkToken", "TrackToken", "InsertUSID",
                    "CountTransfer", "SyncHolders"}
  PROVE  /\ After(r, s, log) \in Rows
         /\ SameUsers(r, After(r, s, log)) /\ SameBalances(r, After(r, s, log))
         /\ SameHolders(r, After(r, s, log)) /\ SameSupply(r, After(r, s, log))
         /\ FollowUp(r, s, log) = <<>>
<1> USE DEF Rows, SameUsers, SameBalances, SameHolders, SameSupply
<1>1. FollowUp(r, s, log) = <<>>
  BY DEF FollowUp
<1>2. "TKN" \in Tokens /\ "USID" \in Tokens /\ log.token \in Tokens
  BY DEF Tokens, Log
<1>3. CASE s = "InsertToken"
  BY <1>1, <1>2, <1>3 DEF After
<1>4. CASE s = "InsertMarket"
  <2> DEFINE new == IF r.marketHolders = NoRow THEN 1 ELSE r.marketHolders
  <2>1. After(r, s, log) = [r EXCEPT !.marketHolders = new]
    BY <1>4 DEF After
  <2>2. new \in Int \union {NoRow}
    OBVIOUS
  <2> HIDE DEF new
  <2>3. QED
    BY <1>1, <2>1, <2>2
<1>5. CASE s = "LinkToken"
  BY <1>1, <1>2, <1>5 DEF After
<1>6. CASE s = "TrackToken"
  BY <1>1, <1>2, <1>6 DEF After
<1>7. CASE s = "InsertUSID"
  BY <1>1, <1>2, <1>7 DEF After
<1>8. CASE s = "CountTransfer"
  <2> DEFINE new == [r.transferCount EXCEPT ![log.token] = @ + 1]
  <2>1. After(r, s, log) = [r EXCEPT !.transferCount = new]
    BY <1>8 DEF After
  <2>2. new \in [Tokens -> Int]
    BY <1>2
  <2> HIDE DEF new
  <2>3. QED
    BY <1>1, <2>1, <2>2
<1>9. CASE s = "SyncHolders"
  BY <1>1, <1>2, <1>9 DEF After
<1>10. QED
  BY <1>3, <1>4, <1>5, <1>6, <1>7, <1>8, <1>9

LEMMA InsertStatements ==
  ASSUME NEW r \in Rows, NEW log \in Log, NEW s \in {"InsertFrom", "InsertTo"}
  PROVE  \E user \in Accounts :
           /\ After(r, s, log) \in Rows
           /\ After(r, s, log).users = r.users \union {user}
           /\ After(r, s, log).totalUsers = r.totalUsers
           /\ SameBalances(r, After(r, s, log)) /\ SameHolders(r, After(r, s, log))
           /\ SameSupply(r, After(r, s, log))
           /\ FollowUp(r, s, log) = IF user \in r.users THEN <<>> ELSE <<"CountUser">>
<1> USE DEF Rows, SameBalances, SameHolders, SameSupply
<1>1. log.from \in Accounts /\ log.to \in Accounts
  BY DEF Log
<1>2. CASE s = "InsertFrom"
  <2> DEFINE new == r.users \union {log.from}
  <2>1. After(r, s, log) = [r EXCEPT !.users = new]
    BY <1>2 DEF After, InsertUser
  <2>2. FollowUp(r, s, log) = IF log.from \in r.users THEN <<>> ELSE <<"CountUser">>
    BY <1>2 DEF FollowUp
  <2>3. new \in SUBSET Accounts
    BY <1>1
  <2>4. /\ After(r, s, log) \in Rows
        /\ After(r, s, log).users = new
        /\ After(r, s, log).totalUsers = r.totalUsers
        /\ SameBalances(r, After(r, s, log)) /\ SameHolders(r, After(r, s, log))
        /\ SameSupply(r, After(r, s, log))
    <3> HIDE DEF new
    <3> QED BY <2>1, <2>3
  <2>5. QED
    BY <1>1, <2>2, <2>4
<1>3. CASE s = "InsertTo"
  <2> DEFINE new == r.users \union {log.to}
  <2>1. After(r, s, log) = [r EXCEPT !.users = new]
    BY <1>3 DEF After, InsertUser
  <2>2. FollowUp(r, s, log) = IF log.to \in r.users THEN <<>> ELSE <<"CountUser">>
    BY <1>3 DEF FollowUp
  <2>3. new \in SUBSET Accounts
    BY <1>1
  <2>4. /\ After(r, s, log) \in Rows
        /\ After(r, s, log).users = new
        /\ After(r, s, log).totalUsers = r.totalUsers
        /\ SameBalances(r, After(r, s, log)) /\ SameHolders(r, After(r, s, log))
        /\ SameSupply(r, After(r, s, log))
    <3> HIDE DEF new
    <3> QED BY <2>1, <2>3
  <2>5. QED
    BY <1>1, <2>2, <2>4
<1>4. QED
  BY <1>2, <1>3

LEMMA CountStatements ==
  ASSUME NEW r \in Rows, NEW log \in Log, NEW s \in Follow
  PROVE  /\ After(r, s, log) \in Rows
         /\ After(r, s, log).users = r.users
         /\ After(r, s, log).totalUsers = r.totalUsers + (IF s = "CountUser" THEN 1 ELSE 0)
         /\ SameBalances(r, After(r, s, log)) /\ SameSupply(r, After(r, s, log))
         /\ \A t \in Tokens : After(r, s, log).holderCount[t] =
              r.holderCount[t] + (IF s = "CountHolder" /\ log.token = t THEN 1 ELSE 0)
                               - (IF s = "UncountHolder" /\ log.token = t THEN 1 ELSE 0)
         /\ FollowUp(r, s, log) = <<>>
<1> USE DEF Rows, SameBalances, SameSupply
<1>1. FollowUp(r, s, log) = <<>>
  BY DEF FollowUp, Follow
<1>2. log.token \in Tokens
  BY DEF Log
<1>3. CASE s = "CountUser"
  <2>1. After(r, s, log) = [r EXCEPT !.totalUsers = @ + 1]
    BY <1>3 DEF After
  <2>2. /\ After(r, s, log) \in Rows
        /\ After(r, s, log).users = r.users
        /\ After(r, s, log).totalUsers = r.totalUsers + 1
        /\ SameBalances(r, After(r, s, log)) /\ SameSupply(r, After(r, s, log))
        /\ After(r, s, log).holderCount = r.holderCount
    BY <2>1
  <2>3. \A t \in Tokens : r.holderCount[t] \in Int
    OBVIOUS
  <2>4. QED
    BY <1>1, <1>3, <2>2, <2>3
<1>4. CASE s = "CountHolder"
  <2> DEFINE new == [r.holderCount EXCEPT ![log.token] = @ + 1]
  <2>1. After(r, s, log) = [r EXCEPT !.holderCount = new]
    BY <1>4 DEF After
  <2>2. /\ new \in [Tokens -> Int]
        /\ \A t \in Tokens : new[t] = r.holderCount[t] + (IF log.token = t THEN 1 ELSE 0)
                            /\ r.holderCount[t] \in Int
    BY <1>2
  <2> HIDE DEF new
  <2>3. /\ After(r, s, log) \in Rows
        /\ After(r, s, log).users = r.users
        /\ After(r, s, log).totalUsers = r.totalUsers
        /\ SameBalances(r, After(r, s, log)) /\ SameSupply(r, After(r, s, log))
        /\ After(r, s, log).holderCount = new
    BY <2>1, <2>2
  <2>4. r.totalUsers \in Nat
    OBVIOUS
  <2>5. QED
    BY <1>1, <1>4, <2>2, <2>3, <2>4
<1>5. CASE s = "UncountHolder"
  <2> DEFINE new == [r.holderCount EXCEPT ![log.token] = @ - 1]
  <2>1. After(r, s, log) = [r EXCEPT !.holderCount = new]
    BY <1>5 DEF After
  <2>2. /\ new \in [Tokens -> Int]
        /\ \A t \in Tokens : new[t] = r.holderCount[t] - (IF log.token = t THEN 1 ELSE 0)
                            /\ r.holderCount[t] \in Int
    BY <1>2
  <2> HIDE DEF new
  <2>3. /\ After(r, s, log) \in Rows
        /\ After(r, s, log).users = r.users
        /\ After(r, s, log).totalUsers = r.totalUsers
        /\ SameBalances(r, After(r, s, log)) /\ SameSupply(r, After(r, s, log))
        /\ After(r, s, log).holderCount = new
    BY <2>1, <2>2
  <2>4. r.totalUsers \in Nat
    OBVIOUS
  <2>5. QED
    BY <1>1, <1>5, <2>2, <2>3, <2>4
<1>6. QED
  BY <1>3, <1>4, <1>5 DEF Follow

LEMMA SupplyStatement ==
  ASSUME NEW r \in Rows, NEW log \in Log
  PROVE  /\ After(r, "Supply", log) \in Rows
         /\ SameUsers(r, After(r, "Supply", log)) /\ SameBalances(r, After(r, "Supply", log))
         /\ SameHolders(r, After(r, "Supply", log))
         /\ After(r, "Supply", log).totalSupply["USID"] =
              r.totalSupply["USID"] + (IF log.from = Zero THEN log.value ELSE 0)
                                    - (IF log.to = Zero THEN log.value ELSE 0)
         /\ FollowUp(r, "Supply", log) = <<>>
<1> USE DEF Rows, SameUsers, SameBalances, SameHolders
<1>1. FollowUp(r, "Supply", log) = <<>>
  BY DEF FollowUp
<1>2. "USID" \in Tokens /\ log.value \in Nat
  BY DEF Tokens, Log
<1>3. After(r, "Supply", log) = SupplyRow(r, log)
  BY DEF After
<1> DEFINE new == [r.totalSupply EXCEPT !["USID"] = @ + (IF log.from = Zero THEN log.value ELSE 0)
                                                     - (IF log.to = Zero THEN log.value ELSE 0)]
<1>4. SupplyRow(r, log) = [r EXCEPT !.totalSupply = new]
  BY DEF SupplyRow
<1>5. /\ new \in [Tokens -> Int]
      /\ new["USID"] = r.totalSupply["USID"] + (IF log.from = Zero THEN log.value ELSE 0)
                                            - (IF log.to = Zero THEN log.value ELSE 0)
  BY <1>2
<1> HIDE DEF new
<1>6. /\ After(r, "Supply", log) \in Rows
      /\ SameUsers(r, After(r, "Supply", log)) /\ SameBalances(r, After(r, "Supply", log))
      /\ SameHolders(r, After(r, "Supply", log))
      /\ After(r, "Supply", log).totalSupply = new
  BY <1>3, <1>4, <1>5
<1>7. QED
  BY <1>1, <1>5, <1>6

(* A balance row after a debit, and after a credit.                        *)
Debited(row, value) == IF row = NoRow THEN NoRow ELSE row - value
Credited(row, value) == IF row = NoRow THEN value ELSE row + value

SetRow(r, q, t, a, row) ==
  /\ q.balance \in [Tokens -> [Accounts -> Int \union {NoRow}]]
  /\ q.balance[t][a] = row
  /\ \A b \in Accounts \ {a} : q.balance[t][b] = r.balance[t][b]
  /\ \A s \in Tokens \ {t} : q.balance[s] = r.balance[s]

LEMMA DebitStatement ==
  ASSUME NEW r \in Rows, NEW log \in Log
  PROVE  /\ After(r, "Debit", log) \in Rows
         /\ SameUsers(r, After(r, "Debit", log)) /\ SameHolders(r, After(r, "Debit", log))
         /\ SameSupply(r, After(r, "Debit", log))
         /\ SetRow(r, After(r, "Debit", log), log.token, log.from,
                   Debited(r.balance[log.token][log.from], log.value))
         /\ FollowUp(r, "Debit", log) =
              IF r.balance[log.token][log.from] # NoRow /\ r.balance[log.token][log.from] = log.value
              THEN <<"UncountHolder">> ELSE <<>>
<1> USE DEF Rows, SameUsers, SameHolders, SameSupply
<1>1. log.token \in Tokens /\ log.from \in Accounts /\ log.value \in Nat
  BY DEF Log
<1>2. After(r, "Debit", log) = DebitRow(r, log)
  BY DEF After
<1>3. FollowUp(r, "Debit", log) =
        IF r.balance[log.token][log.from] # NoRow /\ r.balance[log.token][log.from] = log.value
        THEN <<"UncountHolder">> ELSE <<>>
  BY DEF FollowUp
<1>4. CASE r.balance[log.token][log.from] = NoRow
  BY <1>1, <1>2, <1>3, <1>4 DEF DebitRow, SetRow, Debited
<1>5. CASE r.balance[log.token][log.from] # NoRow
  <2> DEFINE new == [r.balance EXCEPT ![log.token][log.from] = @ - log.value]
  <2>1. DebitRow(r, log) = [r EXCEPT !.balance = new]
    BY <1>5 DEF DebitRow
  <2>2. r.balance[log.token][log.from] \in Int
    BY <1>1, <1>5
  <2>3. /\ new \in [Tokens -> [Accounts -> Int \union {NoRow}]]
        /\ new[log.token][log.from] = r.balance[log.token][log.from] - log.value
        /\ \A b \in Accounts \ {log.from} : new[log.token][b] = r.balance[log.token][b]
        /\ \A s \in Tokens \ {log.token} : new[s] = r.balance[s]
    BY <1>1, <2>2
  <2> HIDE DEF new
  <2>4. /\ After(r, "Debit", log) \in Rows
        /\ SameUsers(r, After(r, "Debit", log)) /\ SameHolders(r, After(r, "Debit", log))
        /\ SameSupply(r, After(r, "Debit", log))
        /\ After(r, "Debit", log).balance = new
    <3>1. After(r, "Debit", log) = [r EXCEPT !.balance = new]
      BY <1>2, <2>1
    <3>2. QED
      BY <2>3, <3>1
  <2>5. SetRow(r, After(r, "Debit", log), log.token, log.from,
               Debited(r.balance[log.token][log.from], log.value))
    BY <1>5, <2>3, <2>4 DEF SetRow, Debited
  <2>6. QED
    BY <1>3, <2>4, <2>5
<1>6. QED
  BY <1>4, <1>5

LEMMA CreditStatement ==
  ASSUME NEW r \in Rows, NEW log \in Log
  PROVE  /\ After(r, "Credit", log) \in Rows
         /\ SameUsers(r, After(r, "Credit", log)) /\ SameHolders(r, After(r, "Credit", log))
         /\ SameSupply(r, After(r, "Credit", log))
         /\ SetRow(r, After(r, "Credit", log), log.token, log.to,
                   Credited(r.balance[log.token][log.to], log.value))
         /\ FollowUp(r, "Credit", log) =
              IF \/ r.balance[log.token][log.to] = NoRow
                 \/ r.balance[log.token][log.to] = 0 /\ log.token = "TKN"
              THEN <<"CountHolder">> ELSE <<>>
<1> USE DEF Rows, SameUsers, SameHolders, SameSupply
<1>1. log.token \in Tokens /\ log.to \in Accounts /\ log.value \in Nat
  BY DEF Log
<1>2. After(r, "Credit", log) = CreditRow(r, log)
  BY DEF After
<1>3. FollowUp(r, "Credit", log) =
        IF \/ r.balance[log.token][log.to] = NoRow
           \/ r.balance[log.token][log.to] = 0 /\ log.token = "TKN"
        THEN <<"CountHolder">> ELSE <<>>
  BY DEF FollowUp
<1> DEFINE row == Credited(r.balance[log.token][log.to], log.value)
           new == [r.balance EXCEPT ![log.token][log.to] = row]
<1>4. row \in Int \union {NoRow}
  BY <1>1 DEF Credited
<1>5. CreditRow(r, log) = [r EXCEPT !.balance = new]
  BY DEF CreditRow, Credited
<1> HIDE DEF row
<1>6. /\ new \in [Tokens -> [Accounts -> Int \union {NoRow}]]
      /\ new[log.token][log.to] = row
      /\ \A b \in Accounts \ {log.to} : new[log.token][b] = r.balance[log.token][b]
      /\ \A s \in Tokens \ {log.token} : new[s] = r.balance[s]
  BY <1>1, <1>4
<1> HIDE DEF new
<1>7. /\ After(r, "Credit", log) \in Rows
      /\ SameUsers(r, After(r, "Credit", log)) /\ SameHolders(r, After(r, "Credit", log))
      /\ SameSupply(r, After(r, "Credit", log))
      /\ After(r, "Credit", log).balance = new
  BY <1>2, <1>5, <1>6
<1>8. SetRow(r, After(r, "Credit", log), log.token, log.to, row)
  BY <1>6, <1>7 DEF SetRow
<1>9. QED
  BY <1>3, <1>7, <1>8 DEF row
-----------------------------------------------------------------------------
(* A statement run: the list it leads, and the lists that follow it.       *)
Others == {"InsertToken", "InsertMarket", "LinkToken", "TrackToken", "InsertUSID",
           "CountTransfer", "SyncHolders"}

LEMMA SingleLists ==
  \A a, b : <<a>> # <<>> /\ (<<a>> = <<b>> <=> a = b)
<1> TAKE a, b
<1>1. <<a>> = <<b>> => a = b
  <2> HAVE <<a>> = <<b>>
  <2>1. <<a>>[1] = <<b>>[1]
    OBVIOUS
  <2>2. QED
    BY <2>1
<1>2. QED
  BY <1>1

LEMMA StatementShape ==
  ASSUME NEW r \in Rows, NEW log \in Log, NEW s \in Basic \union Follow
  PROVE  /\ After(r, s, log) \in Rows
         /\ FollowUp(r, s, log) = <<>> \/ \E f \in Follow : FollowUp(r, s, log) = <<f>>
<1>1. CASE s \in Others
  BY <1>1, OtherStatements DEF Others
<1>2. CASE s \in {"InsertFrom", "InsertTo"}
  BY <1>2, InsertStatements DEF Follow
<1>3. CASE s \in Follow
  BY <1>3, CountStatements
<1>4. CASE s = "Supply"
  BY <1>4, SupplyStatement
<1>5. CASE s = "Debit"
  BY <1>5, DebitStatement DEF Follow
<1>6. CASE s = "Credit"
  BY <1>6, CreditStatement DEF Follow
<1>7. QED
  BY <1>1, <1>2, <1>3, <1>4, <1>5, <1>6 DEF Basic, Others

LEMMA AccountsFinite ==
  /\ IsFiniteSet(Accounts)
  /\ \A S \in SUBSET Accounts : IsFiniteSet(S) /\ Cardinality(S) \in Nat
<1>1. IsFiniteSet({Zero, Pool, Router})
  <2>1. IsFiniteSet({})
    BY FS_EmptySet
  <2>2. IsFiniteSet({Zero})
    BY FS_Singleton
  <2>3. IsFiniteSet({Zero} \union {Pool})
    BY <2>2, FS_AddElement
  <2>4. IsFiniteSet(({Zero} \union {Pool}) \union {Router})
    BY <2>3, FS_AddElement
  <2>5. {Zero, Pool, Router} = ({Zero} \union {Pool}) \union {Router}
    OBVIOUS
  <2>6. QED
    BY <2>4, <2>5
<1>2. IsFiniteSet(Users \union {Zero, Pool, Router})
  BY <1>1, AccountsAssumption, FS_Union
<1>3. IsFiniteSet(Accounts)
  BY <1>2 DEF Accounts
<1>4. QED
  BY <1>3, FS_Subset, FS_CardinalityType

LEMMA OthersKeepUsers ==
  ASSUME NEW r \in Rows, NEW log \in Log, NEW s \in Others \union {"Supply", "Debit", "Credit"}
  PROVE  SameUsers(r, After(r, s, log)) /\ FollowUp(r, s, log) # <<"CountUser">>
<1>1. CASE s \in Others
  BY <1>1, OtherStatements, SingleLists DEF Others
<1>2. SameUsers(r, After(r, "Supply", log)) /\ FollowUp(r, "Supply", log) # <<"CountUser">>
  <2>1. SameUsers(r, After(r, "Supply", log))
    BY SupplyStatement
  <2>2. FollowUp(r, "Supply", log) \in {<<>>, <<"UncountHolder">>}
    BY SupplyStatement
  <2>3. QED
    BY <2>1, <2>2, SingleLists
<1>3. SameUsers(r, After(r, "Debit", log)) /\ FollowUp(r, "Debit", log) # <<"CountUser">>
  <2>1. SameUsers(r, After(r, "Debit", log))
    BY DebitStatement
  <2>2. FollowUp(r, "Debit", log) \in {<<>>, <<"UncountHolder">>}
    BY DebitStatement
  <2>3. QED
    BY <2>1, <2>2, SingleLists
<1>4. SameUsers(r, After(r, "Credit", log)) /\ FollowUp(r, "Credit", log) # <<"CountUser">>
  <2>1. SameUsers(r, After(r, "Credit", log))
    BY CreditStatement
  <2>2. FollowUp(r, "Credit", log) \in {<<>>, <<"CountHolder">>}
    BY CreditStatement
  <2>3. QED
    BY <2>1, <2>2, SingleLists
<1>5. QED
  BY <1>1, <1>2, <1>3, <1>4

(* A user whose row is new is one more than is counted until the statement *)
(* that counts it; each fault may lose one such statement.                 *)
Due(s, list) == IF Has(s, list) THEN 1 ELSE 0

UsersOK(r, list, n) ==
  /\ r.totalUsers + Due("CountUser", list) <= Cardinality(r.users)
  /\ Cardinality(r.users) <= r.totalUsers + Due("CountUser", list) + n

LEMMA StatementUsers ==
  ASSUME NEW r \in Rows, NEW log \in Log, NEW list, IsTodo(list), list # <<>>,
         NEW n \in Nat, UsersOK(r, list, n)
  PROVE  UsersOK(After(r, Head(list), log), FollowUp(r, Head(list), log) \o Tail(list), n)
<1> DEFINE s == Head(list)
           q == After(r, s, log)
           first == FollowUp(r, s, log)
           rest == first \o Tail(list)
<1>1. s \in Basic \union Follow
  BY TodoStep
<1>2. q \in Rows /\ (first = <<>> \/ \E f \in Follow : first = <<f>>)
  BY <1>1, StatementShape
<1>3. /\ "CountUser" \in Follow
      /\ Has("CountUser", rest) <=> first = <<"CountUser">>
      /\ Has("CountUser", list) <=> s = "CountUser"
  <2>1. "CountUser" \in Follow
    BY DEF Follow
  <2> HIDE DEF first, s
  <2>2. QED
    BY <1>2, <2>1, TodoStep DEF s
<1>4. r.totalUsers \in Nat /\ q.totalUsers \in Nat /\ r.users \in SUBSET Accounts
  BY <1>2 DEF Rows
<1>5. Cardinality(r.users) \in Nat /\ IsFiniteSet(r.users)
  BY <1>4, AccountsFinite
<1>6. CASE s \in Others \union {"Supply", "Debit", "Credit"}
  <2>1. SameUsers(r, q) /\ first # <<"CountUser">>
    BY <1>6, OthersKeepUsers
  <2>2. s # "CountUser"
    BY <1>6 DEF Others
  <2> HIDE DEF first, s, q, rest
  <2>3. QED
    BY <1>3, <2>1, <2>2 DEF UsersOK, Due, SameUsers, rest, first, q, s
<1>7. CASE s \in {"InsertFrom", "InsertTo"}
  <2>1. PICK user \in Accounts :
          /\ q.users = r.users \union {user}
          /\ q.totalUsers = r.totalUsers
          /\ first = IF user \in r.users THEN <<>> ELSE <<"CountUser">>
    BY <1>7, InsertStatements
  <2>2. /\ user \in r.users => Cardinality(q.users) = Cardinality(r.users)
        /\ user \notin r.users => Cardinality(q.users) = Cardinality(r.users) + 1
    <3>1. user \in r.users => q.users = r.users
      BY <2>1
    <3>2. user \notin r.users => Cardinality(r.users \union {user}) = Cardinality(r.users) + 1
      BY <1>5, FS_AddElement
    <3>3. QED
      BY <2>1, <3>1, <3>2
  <2>3. /\ Due("CountUser", list) = 0
        /\ Due("CountUser", rest) = IF user \in r.users THEN 0 ELSE 1
    BY <1>3, <1>7, <2>1, SingleLists DEF Due
  <2> HIDE DEF first, s, q, rest
  <2>4. UsersOK(q, rest, n)
    BY <1>4, <1>5, <2>1, <2>2, <2>3 DEF UsersOK
  <2>5. QED
    BY <2>4 DEF rest, first, q, s
<1>8. CASE s \in Follow
  <2>1. /\ q.users = r.users
        /\ q.totalUsers = r.totalUsers + (IF s = "CountUser" THEN 1 ELSE 0)
        /\ first = <<>>
    BY <1>8, CountStatements
  <2>2. /\ Due("CountUser", list) = IF s = "CountUser" THEN 1 ELSE 0
        /\ Due("CountUser", rest) = 0
    BY <1>3, <2>1, SingleLists DEF Due
  <2> HIDE DEF first, s, q, rest
  <2>3. UsersOK(q, rest, n)
    BY <1>4, <1>5, <2>1, <2>2 DEF UsersOK
  <2>4. QED
    BY <2>3 DEF rest, first, q, s
<1>9. QED
  BY <1>1, <1>6, <1>7, <1>8 DEF Basic, Others
-----------------------------------------------------------------------------
(* The rows of one account change: it may become a holder or stop being    *)
(* one.                                                                    *)
IsHolder(row) == IF Held(row) # 0 THEN 1 ELSE 0

LEMMA HoldersCounted ==
  ASSUME NEW r \in Rows, NEW q \in Rows, NEW t \in Tokens, NEW a \in Accounts, NEW row,
         SetRow(r, q, t, a, row)
  PROVE  /\ Cardinality(Holders(q, t)) =
              Cardinality(Holders(r, t)) + IsHolder(row) - IsHolder(r.balance[t][a])
         /\ \A s \in Tokens \ {t} : Holders(q, s) = Holders(r, s)
<1> DEFINE S == Holders(r, t)
           T == Holders(q, t)
<1>1. S \in SUBSET Accounts /\ T \in SUBSET Accounts
  BY DEF Holders
<1>2. /\ IsFiniteSet(S) /\ Cardinality(S) \in Nat
      /\ IsFiniteSet(T) /\ Cardinality(T) \in Nat
  BY <1>1, AccountsFinite
<1>3. \A b \in Accounts \ {a} : b \in S <=> b \in T
  BY DEF Holders, SetRow
<1>4. a \in T <=> Held(row) # 0
  BY DEF Holders, SetRow
<1>5. a \in S <=> Held(r.balance[t][a]) # 0
  BY DEF Holders
<1>6. \A s \in Tokens \ {t} : Holders(q, s) = Holders(r, s)
  BY DEF Holders, SetRow
<1> HIDE DEF S, T
<1>7. Cardinality(T) = Cardinality(S) + IsHolder(row) - IsHolder(r.balance[t][a])
  <2>1. CASE a \in S /\ a \notin T
    <3>1. T = S \ {a}
      BY <1>1, <1>3, <2>1
    <3>2. Cardinality(S \ {a}) = Cardinality(S) - 1
      BY <1>2, <2>1, FS_RemoveElement
    <3>3. QED
      BY <1>2, <1>4, <1>5, <2>1, <3>1, <3>2 DEF IsHolder
  <2>2. CASE a \notin S /\ a \in T
    <3>1. T = S \union {a}
      BY <1>1, <1>3, <2>2
    <3>2. Cardinality(S \union {a}) = Cardinality(S) + 1
      BY <1>2, <2>2, FS_AddElement
    <3>3. QED
      BY <1>2, <1>4, <1>5, <2>2, <3>1, <3>2 DEF IsHolder
  <2>3. CASE a \in S <=> a \in T
    <3>1. S = T
      BY <1>1, <1>3, <2>3
    <3>2. IsHolder(row) = IsHolder(r.balance[t][a]) /\ IsHolder(row) \in Int
      BY <1>4, <1>5, <2>3 DEF IsHolder
    <3>3. QED
      BY <1>2, <3>1, <3>2
  <2>4. QED
    BY <2>1, <2>2, <2>3
<1>8. QED
  BY <1>6, <1>7 DEF S, T

(* A holder count is exact but for the statement that follows a balance.   *)
DueIn(s, list, log, t) == IF Has(s, list) /\ log.token = t THEN 1 ELSE 0

HoldersOK(r, list, log, t) ==
  r.holderCount[t] + DueIn("CountHolder", list, log, t) - DueIn("UncountHolder", list, log, t)
    = Cardinality(Holders(r, t))

DisturbsIn(r, s, log) ==
  LET row(a) == r.balance[log.token][a]
  IN \/ s = "Debit" /\ row(log.from) = 0
     \/ s = "Credit" /\ Held(row(log.to)) + log.value = 0
     \/ s = "Credit" /\ log.token = "USID" /\ row(log.to) = 0

(* What a statement does to the number of holders of its token, and what   *)
(* it leaves to be counted.                                                *)
Plus(first) == IF first = <<"CountHolder">> THEN 1 ELSE 0
Minus(first) == IF first = <<"UncountHolder">> THEN 1 ELSE 0

LEMMA DebitHolders ==
  ASSUME NEW r \in Rows, NEW log \in Log, ~DisturbsIn(r, "Debit", log)
  PROVE  LET row == r.balance[log.token][log.from]
             first == FollowUp(r, "Debit", log)
         IN IsHolder(Debited(row, log.value)) - IsHolder(row) = Plus(first) - Minus(first)
<1> DEFINE row == r.balance[log.token][log.from]
           first == FollowUp(r, "Debit", log)
<1>1. row \in Int \union {NoRow} /\ log.value \in Nat /\ NoRow \notin Int
  BY AccountsAssumption DEF Rows, Log
<1>2. row # 0
  BY DEF DisturbsIn
<1>3. first = IF row # NoRow /\ row = log.value THEN <<"UncountHolder">> ELSE <<>>
  BY DebitStatement
<1>4. Minus(first) = (IF row # NoRow /\ row = log.value THEN 1 ELSE 0) /\ Plus(first) = 0
  BY <1>3, SingleLists DEF Plus, Minus
<1> HIDE DEF row, first
<1>5. IsHolder(Debited(row, log.value)) - IsHolder(row) = Plus(first) - Minus(first)
  <2>1. CASE row = NoRow
    BY <1>1, <1>4, <2>1 DEF IsHolder, Debited, Held
  <2>2. CASE row # NoRow
    <3>1. row \in Int /\ row - log.value \in Int /\ row - log.value # NoRow
      BY <1>1, <2>2
    <3>2. /\ Held(row) = row
          /\ Debited(row, log.value) = row - log.value
          /\ Held(row - log.value) = row - log.value
      BY <2>2, <3>1 DEF Held, Debited
    <3>3. IsHolder(row) = 1
      BY <1>2, <3>2 DEF IsHolder
    <3>4. IsHolder(Debited(row, log.value)) = IF row = log.value THEN 0 ELSE 1
      BY <1>1, <3>1, <3>2 DEF IsHolder
    <3>5. QED
      BY <1>4, <2>2, <3>3, <3>4
  <2>3. QED
    BY <2>1, <2>2
<1>6. QED
  BY <1>5 DEF row, first

LEMMA CreditHolders ==
  ASSUME NEW r \in Rows, NEW log \in Log, ~DisturbsIn(r, "Credit", log)
  PROVE  LET row == r.balance[log.token][log.to]
             first == FollowUp(r, "Credit", log)
         IN IsHolder(Credited(row, log.value)) - IsHolder(row) = Plus(first) - Minus(first)
<1> DEFINE row == r.balance[log.token][log.to]
           first == FollowUp(r, "Credit", log)
           new == row = NoRow \/ (row = 0 /\ log.token = "TKN")
<1>1. /\ row \in Int \union {NoRow} /\ log.value \in Nat /\ NoRow \notin Int
      /\ log.token \in {"USID", "TKN"}
  BY AccountsAssumption DEF Rows, Log, Tokens
<1>2. Held(row) + log.value # 0 /\ (log.token = "USID" => row # 0)
  BY DEF DisturbsIn
<1>3. first = IF new THEN <<"CountHolder">> ELSE <<>>
  BY DEF FollowUp
<1> HIDE DEF first, new
<1>4. Plus(first) = (IF new THEN 1 ELSE 0) /\ Minus(first) = 0
  <2>1. CASE new
    <3>1. first = <<"CountHolder">>
      BY <1>3, <2>1
    <3>2. QED
      BY <2>1, <3>1, SingleLists DEF Plus, Minus
  <2>2. CASE ~new
    <3>1. first = <<>>
      BY <1>3, <2>2
    <3>2. QED
      BY <2>2, <3>1, SingleLists DEF Plus, Minus
  <2>3. QED
    BY <2>1, <2>2
<1> HIDE DEF row
<1>5. IsHolder(Credited(row, log.value)) - IsHolder(row) = Plus(first) - Minus(first)
  <2>1. CASE row = NoRow
    <3>1. /\ Held(row) = 0 /\ Credited(row, log.value) = log.value
          /\ Held(log.value) = log.value /\ log.value # 0
      <4>1. log.value # NoRow /\ log.value \in Nat
        BY <1>1
      <4>2. Held(row) = 0 /\ Credited(row, log.value) = log.value /\ Held(log.value) = log.value
        BY <2>1, <4>1 DEF Held, Credited
      <4>3. QED
        BY <1>2, <4>1, <4>2
    <3>2. IsHolder(row) = 0 /\ IsHolder(Credited(row, log.value)) = 1
      BY <3>1 DEF IsHolder
    <3>3. new
      BY <2>1 DEF new
    <3>4. QED
      BY <1>4, <3>2, <3>3
  <2>2. CASE row # NoRow
    <3>1. row \in Int /\ row + log.value \in Int /\ row + log.value # NoRow
      BY <1>1, <2>2
    <3>2. /\ Held(row) = row
          /\ Credited(row, log.value) = row + log.value
          /\ Held(row + log.value) = row + log.value
      BY <2>2, <3>1 DEF Held, Credited
    <3>3. IsHolder(row) = IF row = 0 THEN 0 ELSE 1
      BY <3>2 DEF IsHolder
    <3>4. IsHolder(Credited(row, log.value)) = 1
      BY <1>2, <3>2 DEF IsHolder
    <3>5. new <=> row = 0
      BY <1>1, <1>2, <2>2 DEF new
    <3>6. QED
      BY <1>4, <3>3, <3>4, <3>5
  <2>3. QED
    BY <2>1, <2>2
<1>6. QED
  BY <1>5 DEF row, first

HoldersMove(r, q, s, first, log, t) ==
  /\ q.holderCount[t] = r.holderCount[t]
       + (IF s = "CountHolder" /\ log.token = t THEN 1 ELSE 0)
       - (IF s = "UncountHolder" /\ log.token = t THEN 1 ELSE 0)
  /\ Cardinality(Holders(q, t)) = Cardinality(Holders(r, t))
       + (IF log.token = t THEN Plus(first) - Minus(first) ELSE 0)

LEMMA HoldersStay ==
  ASSUME NEW r \in Rows, NEW q, NEW s, NEW first, NEW log, NEW t \in Tokens,
         SameHolders(r, q), SameBalances(r, q), s \notin {"CountHolder", "UncountHolder"},
         first # <<"CountHolder">>, first # <<"UncountHolder">>
  PROVE  HoldersMove(r, q, s, first, log, t)
<1>1. Holders(q, t) = Holders(r, t) /\ Holders(r, t) \in SUBSET Accounts
  BY DEF Holders, SameBalances
<1>2. Cardinality(Holders(r, t)) \in Nat
  BY <1>1, AccountsFinite
<1>3. q.holderCount[t] = r.holderCount[t] /\ r.holderCount[t] \in Int
  BY DEF Rows, SameHolders
<1>4. Plus(first) = 0 /\ Minus(first) = 0
  BY DEF Plus, Minus
<1>5. QED
  BY <1>1, <1>2, <1>3, <1>4 DEF HoldersMove

LEMMA HoldersSet ==
  ASSUME NEW r \in Rows, NEW q \in Rows, NEW s, NEW first, NEW log \in Log, NEW t \in Tokens,
         NEW a \in Accounts, NEW row,
         SameHolders(r, q), s \notin {"CountHolder", "UncountHolder"},
         SetRow(r, q, log.token, a, row),
         log.token = t => IsHolder(row) - IsHolder(r.balance[log.token][a]) = Plus(first) - Minus(first)
  PROVE  HoldersMove(r, q, s, first, log, t)
<1>1. log.token \in Tokens
  BY DEF Log
<1>2. Holders(r, t) \in SUBSET Accounts /\ IsHolder(row) \in Int
      /\ IsHolder(r.balance[log.token][a]) \in Int
  BY DEF Holders, IsHolder
<1>3. Cardinality(Holders(r, t)) \in Nat
  BY <1>2, AccountsFinite
<1>4. q.holderCount[t] = r.holderCount[t] /\ r.holderCount[t] \in Int
  BY DEF Rows, SameHolders
<1>5. CASE log.token = t
  <2>1. Cardinality(Holders(q, t)) =
          Cardinality(Holders(r, t)) + IsHolder(row) - IsHolder(r.balance[t][a])
    BY <1>5, HoldersCounted
  <2>2. Cardinality(Holders(q, t)) = Cardinality(Holders(r, t)) + (Plus(first) - Minus(first))
    BY <1>2, <1>3, <1>5, <2>1
  <2>3. QED
    BY <1>4, <1>5, <2>2 DEF HoldersMove
<1>6. CASE log.token # t
  <2>1. Holders(q, t) = Holders(r, t)
    BY <1>1, <1>6, HoldersCounted
  <2>2. QED
    BY <1>3, <1>4, <1>6, <2>1 DEF HoldersMove
<1>7. QED
  BY <1>5, <1>6

LEMMA StatementMovesHolders ==
  ASSUME NEW r \in Rows, NEW log \in Log, NEW s \in Basic \union Follow, NEW t \in Tokens,
         ~(DisturbsIn(r, s, log) /\ log.token = t)
  PROVE  HoldersMove(r, After(r, s, log), s, FollowUp(r, s, log), log, t)
<1>1. log.from \in Accounts /\ log.to \in Accounts
  BY DEF Log
<1>2. CASE s \in Others
  <2>1. /\ SameBalances(r, After(r, s, log)) /\ SameHolders(r, After(r, s, log))
        /\ FollowUp(r, s, log) = <<>>
    BY <1>2, OtherStatements DEF Others
  <2>2. QED
    BY <1>2, <2>1, HoldersStay, SingleLists DEF Others
<1>3. CASE s \in {"InsertFrom", "InsertTo"}
  <2>1. /\ SameBalances(r, After(r, s, log)) /\ SameHolders(r, After(r, s, log))
        /\ FollowUp(r, s, log) \in {<<>>, <<"CountUser">>}
    BY <1>3, InsertStatements
  <2>2. QED
    BY <1>3, <2>1, HoldersStay, SingleLists
<1>4. CASE s = "Supply"
  <2>1. /\ SameBalances(r, After(r, "Supply", log)) /\ SameHolders(r, After(r, "Supply", log))
        /\ FollowUp(r, "Supply", log) = <<>>
    BY SupplyStatement
  <2>2. HoldersMove(r, After(r, "Supply", log), "Supply", FollowUp(r, "Supply", log), log, t)
    BY <2>1, HoldersStay, SingleLists
  <2>3. QED
    BY <1>4, <2>2
<1>5. CASE s \in Follow
  <2> DEFINE q == After(r, s, log)
  <2>1. /\ q.balance = r.balance
        /\ q.holderCount[t] =
             r.holderCount[t] + (IF s = "CountHolder" /\ log.token = t THEN 1 ELSE 0)
                              - (IF s = "UncountHolder" /\ log.token = t THEN 1 ELSE 0)
        /\ FollowUp(r, s, log) = <<>>
    BY <1>5, CountStatements DEF SameBalances
  <2> HIDE DEF q
  <2>2. Holders(q, t) = Holders(r, t) /\ Holders(r, t) \in SUBSET Accounts
    BY <2>1 DEF Holders
  <2>3. Cardinality(Holders(r, t)) \in Nat
    BY <2>2, AccountsFinite
  <2>4. Plus(<<>>) = 0 /\ Minus(<<>>) = 0
    BY SingleLists DEF Plus, Minus
  <2>5. HoldersMove(r, q, s, <<>>, log, t)
    BY <2>1, <2>2, <2>3, <2>4 DEF HoldersMove
  <2>6. QED
    BY <2>1, <2>5 DEF q
<1>6. CASE s = "Debit"
  <2> DEFINE row == r.balance[log.token][log.from]
             new == Debited(row, log.value)
             q == After(r, "Debit", log)
             first == FollowUp(r, "Debit", log)
  <2>1. q \in Rows /\ SameHolders(r, q) /\ SetRow(r, q, log.token, log.from, new)
    BY DebitStatement
  <2>2. log.token = t => IsHolder(new) - IsHolder(row) = Plus(first) - Minus(first)
    BY <1>6, DebitHolders
  <2> HIDE DEF new, q, first
  <2>3. HoldersMove(r, q, "Debit", first, log, t)
    BY <1>1, <2>1, <2>2, HoldersSet
  <2>4. QED
    BY <1>6, <2>3 DEF q, first
<1>7. CASE s = "Credit"
  <2> DEFINE row == r.balance[log.token][log.to]
             new == Credited(row, log.value)
             q == After(r, "Credit", log)
             first == FollowUp(r, "Credit", log)
  <2>1. q \in Rows /\ SameHolders(r, q) /\ SetRow(r, q, log.token, log.to, new)
    BY CreditStatement
  <2>2. log.token = t => IsHolder(new) - IsHolder(row) = Plus(first) - Minus(first)
    BY <1>7, CreditHolders
  <2> HIDE DEF new, q, first
  <2>3. HoldersMove(r, q, "Credit", first, log, t)
    BY <1>1, <2>1, <2>2, HoldersSet
  <2>4. QED
    BY <1>7, <2>3 DEF q, first
<1>8. QED
  BY <1>2, <1>3, <1>4, <1>5, <1>6, <1>7 DEF Basic, Others

LEMMA StatementHolders ==
  ASSUME NEW r \in Rows, NEW log \in Log, NEW list, IsTodo(list), list # <<>>,
         NEW t \in Tokens, HoldersOK(r, list, log, t),
         ~(DisturbsIn(r, Head(list), log) /\ log.token = t)
  PROVE  HoldersOK(After(r, Head(list), log),
                   FollowUp(r, Head(list), log) \o Tail(list), log, t)
<1> DEFINE s == Head(list)
           q == After(r, s, log)
           first == FollowUp(r, s, log)
           rest == first \o Tail(list)
<1>1. s \in Basic \union Follow
  BY TodoStep
<1>2. q \in Rows /\ (first = <<>> \/ \E f \in Follow : first = <<f>>)
  BY <1>1, StatementShape
<1>3. HoldersMove(r, q, s, first, log, t)
  BY <1>1, StatementMovesHolders
<1> HIDE DEF q, first, s
<1>4. \A f \in {"CountHolder", "UncountHolder"} :
        /\ Has(f, rest) <=> first = <<f>>
        /\ Has(f, list) <=> s = f
  <2>1. /\ \A f \in Follow : Has(f, rest) <=> first = <<f>>
        /\ \A f \in Follow : Has(f, list) <=> Head(list) = f
    BY <1>2, TodoStep
  <2>2. {"CountHolder", "UncountHolder"} \subseteq Follow
    BY DEF Follow
  <2> HIDE DEF rest
  <2>3. QED
    BY <2>1, <2>2, Zenon DEF s
<1>5. /\ r.holderCount[t] \in Int
      /\ Holders(r, t) \in SUBSET Accounts
  BY DEF Rows, Holders
<1>6. Cardinality(Holders(r, t)) \in Nat
  BY <1>5, AccountsFinite
<1> HIDE DEF rest
<1>7. HoldersOK(q, rest, log, t)
  <2>1. /\ DueIn("CountHolder", list, log, t) = IF s = "CountHolder" /\ log.token = t THEN 1 ELSE 0
        /\ DueIn("UncountHolder", list, log, t) = IF s = "UncountHolder" /\ log.token = t THEN 1 ELSE 0
        /\ DueIn("CountHolder", rest, log, t) = IF log.token = t THEN Plus(first) ELSE 0
        /\ DueIn("UncountHolder", rest, log, t) = IF log.token = t THEN Minus(first) ELSE 0
    BY <1>4 DEF DueIn, Plus, Minus
  <2>2. Plus(first) \in Int /\ Minus(first) \in Int
    BY DEF Plus, Minus
  <2>3. QED
    BY <1>3, <1>5, <1>6, <2>1, <2>2 DEF HoldersOK, HoldersMove
<1>8. QED
  BY <1>7 DEF q, rest, first, s
-----------------------------------------------------------------------------
(* The rows of USID are what the transfers handled so far have moved (net) *)
(* but for what the statements of the current log still owe.               *)
Owed(s, list, log, cond) ==
  IF Has(s, list) /\ log.token = "USID" /\ cond THEN log.value ELSE 0

InUSIDRow(r, a) == Held(r.balance["USID"][a])

RowsNat(r) ==
  /\ \A a \in Accounts : r.balance["USID"][a] \in Nat \union {NoRow}
  /\ r.balance["USID"][Zero] = NoRow

RowsPaid(net, r, list, log) ==
  \A a \in Accounts \ {Zero} :
    InUSIDRow(r, a) = net[a] + Owed("Debit", list, log, log.from = a)
                             - Owed("Credit", list, log, log.to = a)

Affordable(r, list, log) ==
  Has("Debit", list) /\ log.token = "USID" => InUSIDRow(r, log.from) >= log.value

SupplyPaid(r, list, log) ==
  r.totalSupply["USID"] =
    Issued(r, "USID") + Owed("Credit", list, log, TRUE) - Owed("Debit", list, log, TRUE)
      - Owed("Supply", list, log, log.from = Zero) + Owed("Supply", list, log, log.to = Zero)

Money(net, r, list, log) ==
  RowsNat(r) /\ RowsPaid(net, r, list, log) /\ Affordable(r, list, log) /\ SupplyPaid(r, list, log)

TodoOK(list, log) ==
  /\ IsTodo(list)
  /\ list # <<>> => log \in Log
  /\ Has("Debit", list) => log.kind = "Transfer" /\ log.from # Zero
  /\ Has("Credit", list) => log.kind = "Transfer" /\ log.to # Zero
  /\ Has("Supply", list) => InUSID(log)

LEMMA IssuedSet ==
  ASSUME NEW r, RowsNat(r), NEW q, RowsNat(q), NEW a \in Accounts,
         \A b \in Accounts \ {a} : q.balance["USID"][b] = r.balance["USID"][b]
  PROVE  /\ Issued(r, "USID") \in Nat /\ InUSIDRow(r, a) \in Nat /\ InUSIDRow(q, a) \in Nat
         /\ Issued(q, "USID") = Issued(r, "USID") - InUSIDRow(r, a) + InUSIDRow(q, a)
<1> DEFINE f == [b \in Accounts |-> Held(r.balance["USID"][b])]
           g == [b \in Accounts |-> Held(q.balance["USID"][b])]
<1>1. \A row \in Nat \union {NoRow} : Held(row) \in Nat
  BY DEF Held
<1>2. \A b \in Accounts : f[b] \in Nat /\ g[b] \in Nat
  BY <1>1 DEF RowsNat
<1>3. \A b \in Accounts \ {a} : g[b] = f[b]
  OBVIOUS
<1>4. f[a] = InUSIDRow(r, a) /\ g[a] = InUSIDRow(q, a)
  BY DEF InUSIDRow
<1>5. Issued(r, "USID") = Total(f, Accounts) /\ Issued(q, "USID") = Total(g, Accounts)
  BY DEF Issued
<1> HIDE DEF f, g
<1>6. Total(f, Accounts) \in Nat
  BY <1>2, AccountsFinite, TotalType
<1>7. Total(g, Accounts) = Total(f, Accounts) - f[a] + g[a]
  BY <1>2, <1>3, AccountsFinite, TotalUpdate
<1>8. QED
  BY <1>2, <1>4, <1>5, <1>6, <1>7

LEMMA OwedType ==
  ASSUME NEW log \in Log
  PROVE  \A s, list : \A cond \in BOOLEAN : Owed(s, list, log, cond) \in Nat
<1>1. log.value \in Nat
  BY DEF Log
<1>2. ASSUME NEW s, NEW list, NEW cond \in BOOLEAN
      PROVE  Owed(s, list, log, cond) \in Nat
  BY <1>1 DEF Owed
<1>3. QED
  BY <1>2

(* Statements that touch neither rows nor supply leave it as it is.        *)
LEMMA MoneyStays ==
  ASSUME NEW net, NEW r, NEW q, NEW list, NEW rest, NEW log,
         q.balance["USID"] = r.balance["USID"], q.totalSupply["USID"] = r.totalSupply["USID"],
         log.token = "USID" =>
           \A s \in {"Debit", "Credit", "Supply"} : Has(s, rest) <=> Has(s, list),
         Money(net, r, list, log)
  PROVE  Money(net, q, rest, log)
<1>1. /\ RowsNat(r) /\ RowsPaid(net, r, list, log) /\ Affordable(r, list, log)
      /\ SupplyPaid(r, list, log)
  BY DEF Money
<1>2. \A s \in {"Debit", "Credit", "Supply"}, cond \in BOOLEAN :
        Owed(s, rest, log, cond) = Owed(s, list, log, cond)
  BY DEF Owed
<1>3. RowsNat(q) /\ \A a \in Accounts : InUSIDRow(q, a) = InUSIDRow(r, a)
  BY <1>1 DEF RowsNat, InUSIDRow
<1>4. RowsPaid(net, q, rest, log)
  <2>1. ASSUME NEW a \in Accounts \ {Zero}
        PROVE  InUSIDRow(q, a) = net[a] + Owed("Debit", rest, log, log.from = a)
                                        - Owed("Credit", rest, log, log.to = a)
    <3>1. /\ Owed("Debit", rest, log, log.from = a) = Owed("Debit", list, log, log.from = a)
          /\ Owed("Credit", rest, log, log.to = a) = Owed("Credit", list, log, log.to = a)
      BY <1>2
    <3>2. QED
      BY <1>1, <1>3, <3>1 DEF RowsPaid
  <2>2. QED
    BY <2>1 DEF RowsPaid
<1>5. Affordable(q, rest, log)
  <2>1. CASE Has("Debit", rest) /\ log.token = "USID"
    <3>1. InUSIDRow(r, log.from) >= log.value
      BY <1>1, <2>1 DEF Affordable
    <3>2. InUSIDRow(q, log.from) = InUSIDRow(r, log.from)
      BY DEF InUSIDRow
    <3>3. QED
      BY <3>1, <3>2 DEF Affordable
  <2>2. QED
    BY <2>1 DEF Affordable
<1>6. Issued(q, "USID") = Issued(r, "USID")
  BY DEF Issued
<1>7. SupplyPaid(q, rest, log)
  <2>1. /\ Owed("Credit", rest, log, TRUE) = Owed("Credit", list, log, TRUE)
        /\ Owed("Debit", rest, log, TRUE) = Owed("Debit", list, log, TRUE)
        /\ Owed("Supply", rest, log, log.from = Zero) = Owed("Supply", list, log, log.from = Zero)
        /\ Owed("Supply", rest, log, log.to = Zero) = Owed("Supply", list, log, log.to = Zero)
    BY <1>2
  <2>2. QED
    BY <1>1, <1>6, <2>1 DEF SupplyPaid
<1>8. QED
  BY <1>3, <1>4, <1>5, <1>7 DEF Money

LEMMA MoneyDebit ==
  ASSUME NEW net \in [Accounts -> Int], NEW r \in Rows, NEW q \in Rows, NEW list, NEW rest,
         NEW log \in Log, TodoOK(list, log), log.token = "USID", SameSupply(r, q),
         SetRow(r, q, "USID", log.from, Debited(r.balance["USID"][log.from], log.value)),
         Has("Debit", list), ~Has("Debit", rest),
         \A s \in {"Credit", "Supply"} : Has(s, rest) <=> Has(s, list),
         Money(net, r, list, log)
  PROVE  Money(net, q, rest, log)
<1> DEFINE row == r.balance["USID"][log.from]
<1>1. /\ RowsNat(r) /\ RowsPaid(net, r, list, log) /\ Affordable(r, list, log)
      /\ SupplyPaid(r, list, log)
  BY DEF Money
<1>2. /\ log.from \in Accounts \ {Zero} /\ log.value \in Nat /\ NoRow \notin Int
      /\ "USID" \in Tokens
  BY AccountsAssumption DEF Log, TodoOK, Tokens
<1>3. row \in Nat \union {NoRow} /\ Held(row) >= log.value
  BY <1>1, <1>2 DEF RowsNat, Affordable, InUSIDRow
<1>4. /\ Debited(row, log.value) \in Nat \union {NoRow}
      /\ Held(Debited(row, log.value)) = Held(row) - log.value
      /\ Held(row) \in Nat
  <2> HIDE DEF row
  <2>1. CASE row = NoRow
    BY <1>2, <1>3, <2>1 DEF Held, Debited
  <2>2. CASE row # NoRow
    <3>1. row \in Nat /\ row - log.value \in Nat /\ row - log.value # NoRow
      BY <1>2, <1>3, <2>2 DEF Held
    <3>2. QED
      BY <2>2, <3>1 DEF Held, Debited
  <2>3. QED
    BY <2>1, <2>2
<1>5. /\ q.balance["USID"][log.from] = Debited(row, log.value)
      /\ \A b \in Accounts \ {log.from} : q.balance["USID"][b] = r.balance["USID"][b]
  BY DEF SetRow
<1>6. RowsNat(q)
  <2>1. \A b \in Accounts : r.balance["USID"][b] \in Nat \union {NoRow}
    BY <1>1 DEF RowsNat
  <2>2. r.balance["USID"][Zero] = NoRow /\ Zero \in Accounts \ {log.from}
    BY <1>1, <1>2 DEF RowsNat, Accounts
  <2> HIDE DEF row
  <2>3. QED
    BY <1>4, <1>5, <2>1, <2>2 DEF RowsNat
<1>7. /\ InUSIDRow(q, log.from) = InUSIDRow(r, log.from) - log.value
      /\ InUSIDRow(r, log.from) \in Nat
      /\ \A b \in Accounts \ {log.from} : InUSIDRow(q, b) = InUSIDRow(r, b)
  BY <1>4, <1>5 DEF InUSIDRow
<1> HIDE DEF row
<1>8. /\ \A cond \in BOOLEAN : Owed("Debit", rest, log, cond) = 0
      /\ \A cond \in BOOLEAN : Owed("Debit", list, log, cond) = IF cond THEN log.value ELSE 0
      /\ \A s \in {"Credit", "Supply"}, cond \in BOOLEAN :
           Owed(s, rest, log, cond) = Owed(s, list, log, cond) /\ Owed(s, list, log, cond) \in Nat
  BY <1>2 DEF Owed
<1>9. RowsPaid(net, q, rest, log)
  <2>1. ASSUME NEW a \in Accounts \ {Zero}
        PROVE  InUSIDRow(q, a) = net[a] + Owed("Debit", rest, log, log.from = a)
                                        - Owed("Credit", rest, log, log.to = a)
    <3>1. InUSIDRow(r, a) = net[a] + Owed("Debit", list, log, log.from = a)
                                   - Owed("Credit", list, log, log.to = a)
      BY <1>1 DEF RowsPaid
    <3>2. InUSIDRow(q, a) = InUSIDRow(r, a) - (IF log.from = a THEN log.value ELSE 0)
      <4>1. CASE log.from = a
        BY <1>7, <4>1
      <4>2. CASE log.from # a
        <5>1. InUSIDRow(q, a) = InUSIDRow(r, a) /\ InUSIDRow(r, a) \in Int
          <6>1. Owed("Debit", list, log, log.from = a) \in Nat /\ Owed("Credit", list, log, log.to = a) \in Nat
            BY OwedType
          <6>2. QED
            BY <1>7, <3>1, <4>2, <6>1
        <5>2. QED
          BY <4>2, <5>1
      <4>3. QED
        BY <4>1, <4>2
    <3>3. /\ Owed("Debit", list, log, log.from = a) = IF log.from = a THEN log.value ELSE 0
          /\ Owed("Debit", rest, log, log.from = a) = 0
          /\ Owed("Credit", rest, log, log.to = a) = Owed("Credit", list, log, log.to = a)
          /\ Owed("Credit", list, log, log.to = a) \in Nat
      BY <1>8
    <3>4. net[a] \in Int
      OBVIOUS
    <3>5. QED
      BY <1>2, <3>1, <3>2, <3>3, <3>4
  <2>2. QED
    BY <2>1 DEF RowsPaid
<1>10. Affordable(q, rest, log)
  BY DEF Affordable
<1>11. SupplyPaid(q, rest, log)
  <2>1. /\ Issued(r, "USID") \in Nat
        /\ Issued(q, "USID") = Issued(r, "USID") - InUSIDRow(r, log.from) + InUSIDRow(q, log.from)
    BY <1>1, <1>2, <1>5, <1>6, IssuedSet
  <2>2. Issued(q, "USID") = Issued(r, "USID") - log.value
    BY <1>2, <1>7, <2>1
  <2>3. q.totalSupply["USID"] = r.totalSupply["USID"]
    BY DEF SameSupply
  <2>4. /\ Owed("Debit", list, log, TRUE) = log.value /\ Owed("Debit", rest, log, TRUE) = 0
        /\ Owed("Credit", rest, log, TRUE) = Owed("Credit", list, log, TRUE)
        /\ Owed("Credit", list, log, TRUE) \in Nat
        /\ Owed("Supply", rest, log, log.from = Zero) = Owed("Supply", list, log, log.from = Zero)
        /\ Owed("Supply", list, log, log.from = Zero) \in Nat
        /\ Owed("Supply", rest, log, log.to = Zero) = Owed("Supply", list, log, log.to = Zero)
        /\ Owed("Supply", list, log, log.to = Zero) \in Nat
    BY <1>8
  <2> DEFINE debit == Owed("Debit", rest, log, TRUE)
             credit == Owed("Credit", rest, log, TRUE)
             raised == Owed("Supply", rest, log, log.from = Zero)
             lowered == Owed("Supply", rest, log, log.to = Zero)
  <2>5. r.totalSupply["USID"] = Issued(r, "USID") + credit - log.value - raised + lowered
    BY <1>1, <2>4 DEF SupplyPaid
  <2>6. debit = 0 /\ credit \in Nat /\ raised \in Nat /\ lowered \in Nat
    BY <2>4
  <2>7. q.totalSupply["USID"] = Issued(q, "USID") + credit - debit - raised + lowered
    <3> HIDE DEF debit, credit, raised, lowered
    <3> QED BY <1>2, <2>1, <2>2, <2>3, <2>5, <2>6
  <2>8. QED
    BY <2>7 DEF SupplyPaid
<1>12. QED
  BY <1>6, <1>9, <1>10, <1>11 DEF Money

LEMMA MoneyCredit ==
  ASSUME NEW net \in [Accounts -> Int], NEW r \in Rows, NEW q \in Rows, NEW list, NEW rest,
         NEW log \in Log, TodoOK(list, log), log.token = "USID", SameSupply(r, q),
         SetRow(r, q, "USID", log.to, Credited(r.balance["USID"][log.to], log.value)),
         Has("Credit", list), ~Has("Credit", rest),
         \A s \in {"Debit", "Supply"} : Has(s, rest) <=> Has(s, list),
         Money(net, r, list, log)
  PROVE  Money(net, q, rest, log)
<1> DEFINE row == r.balance["USID"][log.to]
<1>1. /\ RowsNat(r) /\ RowsPaid(net, r, list, log) /\ Affordable(r, list, log)
      /\ SupplyPaid(r, list, log)
  BY DEF Money
<1>2. /\ log.to \in Accounts \ {Zero} /\ log.from \in Accounts
      /\ log.value \in Nat /\ NoRow \notin Int
      /\ "USID" \in Tokens
  BY AccountsAssumption DEF Log, TodoOK, Tokens
<1>3. row \in Nat \union {NoRow}
  BY <1>1, <1>2 DEF RowsNat
<1>4. /\ Credited(row, log.value) \in Nat
      /\ Held(Credited(row, log.value)) = Held(row) + log.value
      /\ Held(row) \in Nat
  <2> HIDE DEF row
  <2>1. CASE row = NoRow
    <3>1. log.value # NoRow
      BY <1>2
    <3>2. QED
      BY <1>2, <2>1, <3>1 DEF Held, Credited
  <2>2. CASE row # NoRow
    <3>1. row \in Nat /\ row + log.value \in Nat /\ row + log.value # NoRow
      BY <1>2, <1>3, <2>2
    <3>2. QED
      BY <2>2, <3>1 DEF Held, Credited
  <2>3. QED
    BY <2>1, <2>2
<1>5. /\ q.balance["USID"][log.to] = Credited(row, log.value)
      /\ \A b \in Accounts \ {log.to} : q.balance["USID"][b] = r.balance["USID"][b]
  BY DEF SetRow
<1>6. RowsNat(q)
  <2>1. \A b \in Accounts : r.balance["USID"][b] \in Nat \union {NoRow}
    BY <1>1 DEF RowsNat
  <2>2. r.balance["USID"][Zero] = NoRow /\ Zero \in Accounts \ {log.to}
    BY <1>1, <1>2 DEF RowsNat, Accounts
  <2> HIDE DEF row
  <2>3. QED
    BY <1>4, <1>5, <2>1, <2>2 DEF RowsNat
<1>7. /\ InUSIDRow(q, log.to) = InUSIDRow(r, log.to) + log.value
      /\ InUSIDRow(r, log.to) \in Nat
      /\ \A b \in Accounts \ {log.to} : InUSIDRow(q, b) = InUSIDRow(r, b)
  BY <1>4, <1>5 DEF InUSIDRow
<1> HIDE DEF row
<1>8. /\ \A cond \in BOOLEAN : Owed("Credit", rest, log, cond) = 0
      /\ \A cond \in BOOLEAN : Owed("Credit", list, log, cond) = IF cond THEN log.value ELSE 0
      /\ \A s \in {"Debit", "Supply"}, cond \in BOOLEAN :
           Owed(s, rest, log, cond) = Owed(s, list, log, cond) /\ Owed(s, list, log, cond) \in Nat
  BY <1>2 DEF Owed
<1>9. RowsPaid(net, q, rest, log)
  <2>1. ASSUME NEW a \in Accounts \ {Zero}
        PROVE  InUSIDRow(q, a) = net[a] + Owed("Debit", rest, log, log.from = a)
                                        - Owed("Credit", rest, log, log.to = a)
    <3>1. InUSIDRow(r, a) = net[a] + Owed("Debit", list, log, log.from = a)
                                   - Owed("Credit", list, log, log.to = a)
      BY <1>1 DEF RowsPaid
    <3>2. InUSIDRow(q, a) = InUSIDRow(r, a) + (IF log.to = a THEN log.value ELSE 0)
      <4>1. CASE log.to = a
        BY <1>7, <4>1
      <4>2. CASE log.to # a
        <5>1. InUSIDRow(q, a) = InUSIDRow(r, a) /\ InUSIDRow(r, a) \in Int
          <6>1. Owed("Debit", list, log, log.from = a) \in Nat /\ Owed("Credit", list, log, log.to = a) \in Nat
            BY OwedType
          <6>2. QED
            BY <1>7, <3>1, <4>2, <6>1
        <5>2. QED
          BY <4>2, <5>1
      <4>3. QED
        BY <4>1, <4>2
    <3>3. /\ Owed("Credit", list, log, log.to = a) = IF log.to = a THEN log.value ELSE 0
          /\ Owed("Credit", rest, log, log.to = a) = 0
          /\ Owed("Debit", rest, log, log.from = a) = Owed("Debit", list, log, log.from = a)
          /\ Owed("Debit", list, log, log.from = a) \in Nat
      BY <1>8
    <3>4. net[a] \in Int
      OBVIOUS
    <3>5. QED
      BY <1>2, <3>1, <3>2, <3>3, <3>4
  <2>2. QED
    BY <2>1 DEF RowsPaid
<1>10. Affordable(q, rest, log)
  <2>1. CASE Has("Debit", list)
    <3>1. InUSIDRow(r, log.from) >= log.value /\ log.from # Zero
      BY <1>1, <2>1 DEF Affordable, TodoOK
    <3>2. InUSIDRow(r, log.from) \in Nat
      <4>1. r.balance["USID"][log.from] \in Nat \union {NoRow}
        BY <1>1, <1>2 DEF RowsNat
      <4>2. QED
        BY <4>1 DEF InUSIDRow, Held
    <3>3. InUSIDRow(q, log.from) >= InUSIDRow(r, log.from)
      <4>1. CASE log.from = log.to
        BY <1>2, <1>7, <4>1
      <4>2. CASE log.from # log.to
        BY <1>2, <1>7, <3>2, <4>2
      <4>3. QED
        BY <4>1, <4>2
    <3>4. InUSIDRow(q, log.from) \in Int
      BY <1>2, <1>7, <3>2
    <3>5. QED
      BY <1>2, <3>1, <3>2, <3>3, <3>4 DEF Affordable
  <2>2. CASE ~Has("Debit", list)
    BY <2>2 DEF Affordable
  <2>3. QED
    BY <2>1, <2>2
<1>11. SupplyPaid(q, rest, log)
  <2>1. /\ Issued(r, "USID") \in Nat
        /\ Issued(q, "USID") = Issued(r, "USID") - InUSIDRow(r, log.to) + InUSIDRow(q, log.to)
    BY <1>1, <1>2, <1>5, <1>6, IssuedSet
  <2>2. Issued(q, "USID") = Issued(r, "USID") + log.value
    BY <1>2, <1>7, <2>1
  <2>3. q.totalSupply["USID"] = r.totalSupply["USID"]
    BY DEF SameSupply
  <2>4. /\ Owed("Credit", list, log, TRUE) = log.value /\ Owed("Credit", rest, log, TRUE) = 0
        /\ Owed("Debit", rest, log, TRUE) = Owed("Debit", list, log, TRUE)
        /\ Owed("Debit", list, log, TRUE) \in Nat
        /\ Owed("Supply", rest, log, log.from = Zero) = Owed("Supply", list, log, log.from = Zero)
        /\ Owed("Supply", list, log, log.from = Zero) \in Nat
        /\ Owed("Supply", rest, log, log.to = Zero) = Owed("Supply", list, log, log.to = Zero)
        /\ Owed("Supply", list, log, log.to = Zero) \in Nat
    BY <1>8
  <2> DEFINE debit == Owed("Debit", rest, log, TRUE)
             credit == Owed("Credit", rest, log, TRUE)
             raised == Owed("Supply", rest, log, log.from = Zero)
             lowered == Owed("Supply", rest, log, log.to = Zero)
  <2>5. r.totalSupply["USID"] = Issued(r, "USID") + log.value - debit - raised + lowered
    BY <1>1, <2>4 DEF SupplyPaid
  <2>6. credit = 0 /\ debit \in Nat /\ raised \in Nat /\ lowered \in Nat
    BY <2>4
  <2>7. q.totalSupply["USID"] = Issued(q, "USID") + credit - debit - raised + lowered
    <3> HIDE DEF debit, credit, raised, lowered
    <3> QED BY <1>2, <2>1, <2>2, <2>3, <2>5, <2>6
  <2>8. QED
    BY <2>7 DEF SupplyPaid
<1>12. QED
  BY <1>6, <1>9, <1>10, <1>11 DEF Money

LEMMA MoneySupply ==
  ASSUME NEW net, NEW r, RowsNat(r), NEW q, NEW list, NEW rest,
         NEW log \in Log, log.token = "USID", SameBalances(r, q),
         q.totalSupply["USID"] = r.totalSupply["USID"] + (IF log.from = Zero THEN log.value ELSE 0)
                                                       - (IF log.to = Zero THEN log.value ELSE 0),
         Has("Supply", list), ~Has("Supply", rest),
         \A s \in {"Debit", "Credit"} : Has(s, rest) <=> Has(s, list),
         Money(net, r, list, log)
  PROVE  Money(net, q, rest, log)
<1>1. /\ RowsPaid(net, r, list, log) /\ Affordable(r, list, log) /\ SupplyPaid(r, list, log)
  BY DEF Money
<1>2. log.value \in Nat
  BY DEF Log
<1>3. RowsNat(q) /\ \A a : InUSIDRow(q, a) = InUSIDRow(r, a)
  BY DEF RowsNat, InUSIDRow, SameBalances
<1>4. /\ \A cond \in BOOLEAN : Owed("Supply", rest, log, cond) = 0
      /\ \A cond \in BOOLEAN : Owed("Supply", list, log, cond) = IF cond THEN log.value ELSE 0
      /\ \A s \in {"Debit", "Credit"}, cond \in BOOLEAN :
           Owed(s, rest, log, cond) = Owed(s, list, log, cond) /\ Owed(s, list, log, cond) \in Nat
  BY <1>2 DEF Owed
<1>5. RowsPaid(net, q, rest, log)
  <2>1. ASSUME NEW a \in Accounts \ {Zero}
        PROVE  InUSIDRow(q, a) = net[a] + Owed("Debit", rest, log, log.from = a)
                                        - Owed("Credit", rest, log, log.to = a)
    <3>1. /\ Owed("Debit", rest, log, log.from = a) = Owed("Debit", list, log, log.from = a)
          /\ Owed("Credit", rest, log, log.to = a) = Owed("Credit", list, log, log.to = a)
      BY <1>4
    <3>2. QED
      BY <1>1, <1>3, <3>1 DEF RowsPaid
  <2>2. QED
    BY <2>1 DEF RowsPaid
<1>6. Affordable(q, rest, log)
  BY <1>1, <1>3 DEF Affordable
<1>7. SupplyPaid(q, rest, log)
  <2>1. Issued(q, "USID") = Issued(r, "USID") /\ Issued(r, "USID") \in Nat
    <3>1. Zero \in Accounts
      BY DEF Accounts
    <3>2. Issued(r, "USID") \in Nat
      BY <3>1, IssuedSet
    <3>3. QED
      BY <3>2 DEF Issued, SameBalances
  <2>2. /\ Owed("Debit", rest, log, TRUE) = Owed("Debit", list, log, TRUE)
        /\ Owed("Debit", list, log, TRUE) \in Nat
        /\ Owed("Credit", rest, log, TRUE) = Owed("Credit", list, log, TRUE)
        /\ Owed("Credit", list, log, TRUE) \in Nat
        /\ Owed("Supply", rest, log, log.from = Zero) = 0
        /\ Owed("Supply", rest, log, log.to = Zero) = 0
        /\ Owed("Supply", list, log, log.from = Zero) = IF log.from = Zero THEN log.value ELSE 0
        /\ Owed("Supply", list, log, log.to = Zero) = IF log.to = Zero THEN log.value ELSE 0
    BY <1>4
  <2> DEFINE debit == Owed("Debit", rest, log, TRUE)
             credit == Owed("Credit", rest, log, TRUE)
             raised == Owed("Supply", rest, log, log.from = Zero)
             lowered == Owed("Supply", rest, log, log.to = Zero)
  <2>3. r.totalSupply["USID"] = Issued(r, "USID") + credit - debit
          - (IF log.from = Zero THEN log.value ELSE 0) + (IF log.to = Zero THEN log.value ELSE 0)
    BY <1>1, <2>2 DEF SupplyPaid
  <2>4. credit \in Nat /\ debit \in Nat /\ raised = 0 /\ lowered = 0
    BY <2>2
  <2>5. q.totalSupply["USID"] = Issued(q, "USID") + credit - debit - raised + lowered
    <3> HIDE DEF debit, credit, raised, lowered
    <3> QED BY <1>2, <2>1, <2>3, <2>4
  <2>6. QED
    BY <2>5 DEF SupplyPaid
<1>8. QED
  BY <1>3, <1>5, <1>6, <1>7 DEF Money

LEMMA StatementTodo ==
  ASSUME NEW r \in Rows, NEW list, NEW log, TodoOK(list, log), list # <<>>
  PROVE  LET s == Head(list)
             rest == FollowUp(r, s, log) \o Tail(list)
         IN /\ TodoOK(rest, log) /\ log \in Log /\ s \in Basic \union Follow
            /\ After(r, s, log) \in Rows
            /\ \A x \in {"Debit", "Credit", "Supply"} : Has(x, rest) <=> Has(x, list) /\ x # s
            /\ Has(s, list)
<1> DEFINE s == Head(list)
           first == FollowUp(r, s, log)
           rest == first \o Tail(list)
<1>1. IsTodo(list) /\ log \in Log
  BY DEF TodoOK
<1>2. s \in Basic \union Follow /\ Has(s, list)
  BY <1>1, TodoStep
<1>3. After(r, s, log) \in Rows /\ (first = <<>> \/ \E f \in Follow : first = <<f>>)
  BY <1>1, <1>2, StatementShape
<1> HIDE DEF first
<1>4. /\ IsTodo(rest)
      /\ \A x \in Basic : Has(x, rest) <=> Has(x, list) /\ x # Head(list)
  BY <1>1, <1>3, TodoStep
<1>5. {"Debit", "Credit", "Supply"} \subseteq Basic
  BY DEF Basic
<1> HIDE DEF rest
<1>6. \A x \in {"Debit", "Credit", "Supply"} : Has(x, rest) <=> Has(x, list) /\ x # s
  BY <1>4, <1>5
<1>7. TodoOK(rest, log)
  BY <1>1, <1>4, <1>6 DEF TodoOK
<1>8. QED
  BY <1>1, <1>2, <1>3, <1>6, <1>7 DEF first, rest

LEMMA StatementMoney ==
  ASSUME NEW net \in [Accounts -> Int], NEW r \in Rows, NEW list, NEW log, TodoOK(list, log),
         list # <<>>, Money(net, r, list, log)
  PROVE  Money(net, After(r, Head(list), log), FollowUp(r, Head(list), log) \o Tail(list), log)
<1> DEFINE s == Head(list)
           q == After(r, s, log)
           rest == FollowUp(r, s, log) \o Tail(list)
<1>1. /\ log \in Log /\ s \in Basic \union Follow /\ q \in Rows
      /\ \A x \in {"Debit", "Credit", "Supply"} : Has(x, rest) <=> Has(x, list) /\ x # s
      /\ Has(s, list)
  BY StatementTodo
<1>2. "USID" \in Tokens /\ log.token \in Tokens /\ RowsNat(r)
  BY <1>1 DEF Tokens, Log, Money
<1>3. s \in Others => SameBalances(r, q) /\ SameSupply(r, q)
  BY <1>1, OtherStatements DEF Others
<1>4. s \in {"InsertFrom", "InsertTo"} => SameBalances(r, q) /\ SameSupply(r, q)
  BY <1>1, InsertStatements
<1>5. s \in Follow => SameBalances(r, q) /\ SameSupply(r, q)
  BY <1>1, CountStatements
<1>6. After(r, "Supply", log).totalSupply["USID"] =
        r.totalSupply["USID"] + (IF log.from = Zero THEN log.value ELSE 0)
                              - (IF log.to = Zero THEN log.value ELSE 0)
      /\ SameBalances(r, After(r, "Supply", log))
  BY <1>1, SupplyStatement
<1>7. /\ SameSupply(r, After(r, "Debit", log))
      /\ SetRow(r, After(r, "Debit", log), log.token, log.from,
                Debited(r.balance[log.token][log.from], log.value))
  BY <1>1, DebitStatement
<1>8. /\ SameSupply(r, After(r, "Credit", log))
      /\ SetRow(r, After(r, "Credit", log), log.token, log.to,
                Credited(r.balance[log.token][log.to], log.value))
  BY <1>1, CreditStatement
<1>9. /\ s = "Supply" => q = After(r, "Supply", log)
      /\ s = "Debit" => q = After(r, "Debit", log)
      /\ s = "Credit" => q = After(r, "Credit", log)
  OBVIOUS
<1> HIDE DEF s, q, rest
<1>10. CASE s \in Others \union {"InsertFrom", "InsertTo"} \union Follow
  <2>1. q.balance["USID"] = r.balance["USID"] /\ q.totalSupply["USID"] = r.totalSupply["USID"]
    BY <1>3, <1>4, <1>5, <1>10 DEF SameBalances, SameSupply
  <2>2. s \notin {"Debit", "Credit", "Supply"}
    BY <1>10 DEF Others, Follow
  <2>3. \A x \in {"Debit", "Credit", "Supply"} : Has(x, rest) <=> Has(x, list)
    BY <1>1, <2>2
  <2>4. Money(net, q, rest, log)
    BY <2>1, <2>3, MoneyStays
  <2>5. QED
    BY <2>4 DEF q, rest, s
<1>11. CASE s = "Supply"
  <2>1. log.token = "USID"
    BY <1>1, <1>11 DEF TodoOK, InUSID
  <2>2. Has("Supply", list) /\ ~Has("Supply", rest)
        /\ \A x \in {"Debit", "Credit"} : Has(x, rest) <=> Has(x, list)
    BY <1>1, <1>11
  <2>3. Money(net, q, rest, log)
    BY <1>1, <1>2, <1>6, <1>9, <1>11, <2>1, <2>2, MoneySupply
  <2>4. QED
    BY <2>3 DEF q, rest, s
<1>12. CASE s = "Debit"
  <2>1. Has("Debit", list) /\ ~Has("Debit", rest)
        /\ \A x \in {"Credit", "Supply"} : Has(x, rest) <=> Has(x, list)
    BY <1>1, <1>12
  <2>2. CASE log.token = "USID"
    <3>1. Money(net, q, rest, log)
      BY <1>1, <1>7, <1>9, <1>12, <2>1, <2>2, MoneyDebit
    <3>2. QED
      BY <3>1 DEF q, rest, s
  <2>3. CASE log.token # "USID"
    <3>1. q.balance["USID"] = r.balance["USID"] /\ q.totalSupply["USID"] = r.totalSupply["USID"]
      BY <1>2, <1>7, <1>9, <1>12, <2>3 DEF SetRow, SameSupply
    <3>2. Money(net, q, rest, log)
      BY <2>3, <3>1, MoneyStays
    <3>3. QED
      BY <3>2 DEF q, rest, s
  <2>4. QED
    BY <2>2, <2>3
<1>13. CASE s = "Credit"
  <2>1. Has("Credit", list) /\ ~Has("Credit", rest)
        /\ \A x \in {"Debit", "Supply"} : Has(x, rest) <=> Has(x, list)
    BY <1>1, <1>13
  <2>2. CASE log.token = "USID"
    <3>1. Money(net, q, rest, log)
      BY <1>1, <1>8, <1>9, <1>13, <2>1, <2>2, MoneyCredit
    <3>2. QED
      BY <3>1 DEF q, rest, s
  <2>3. CASE log.token # "USID"
    <3>1. q.balance["USID"] = r.balance["USID"] /\ q.totalSupply["USID"] = r.totalSupply["USID"]
      BY <1>2, <1>8, <1>9, <1>13, <2>3 DEF SetRow, SameSupply
    <3>2. Money(net, q, rest, log)
      BY <2>3, <3>1, MoneyStays
    <3>3. QED
      BY <3>2 DEF q, rest, s
  <2>4. QED
    BY <2>2, <2>3
<1>14. QED
  BY <1>1, <1>10, <1>11, <1>12, <1>13 DEF Basic, Others

(* A handler begins: what it is to move is owed, and the transfers it has  *)
(* been preceded by cover it.                                              *)
LEMMA MoneyTaken ==
  ASSUME NEW net \in [Accounts -> Int], NEW r \in Rows, NEW list, NEW log \in Log, NEW old,
         Planned(list, log), InUSID(log),
         Money(net, r, <<>>, old),
         log.from # Zero => net[log.from] >= log.value,
         NEW new \in [Accounts -> Int],
         \A a \in Accounts : new[a] = net[a] + (IF log.to = a THEN log.value ELSE 0)
                                             - (IF log.from = a THEN log.value ELSE 0)
  PROVE  Money(new, r, list, log)
<1>1. /\ RowsNat(r) /\ RowsPaid(net, r, <<>>, old) /\ SupplyPaid(r, <<>>, old)
  BY DEF Money
<1>2. /\ log.value \in Nat /\ log.from \in Accounts /\ log.to \in Accounts /\ log.token = "USID"
  BY DEF Log, InUSID
<1>3. /\ Has("Supply", list)
      /\ Has("Debit", list) <=> log.from # Zero
      /\ Has("Credit", list) <=> log.to # Zero
  BY DEF Planned
<1>4. \A s, cond : Owed(s, <<>>, old, cond) = 0
  BY DEF Owed, Has
<1>5. \A cond \in BOOLEAN :
        /\ Owed("Debit", list, log, cond) = IF log.from # Zero /\ cond THEN log.value ELSE 0
        /\ Owed("Credit", list, log, cond) = IF log.to # Zero /\ cond THEN log.value ELSE 0
        /\ Owed("Supply", list, log, cond) = IF cond THEN log.value ELSE 0
  BY <1>2, <1>3 DEF Owed
<1>6. \A a \in Accounts \ {Zero} : InUSIDRow(r, a) = net[a]
  <2>1. ASSUME NEW a \in Accounts \ {Zero}
        PROVE  InUSIDRow(r, a) = net[a]
    <3>1. net[a] \in Int
      OBVIOUS
    <3>2. InUSIDRow(r, a) = net[a] + 0 - 0
      BY <1>1, <1>4 DEF RowsPaid
    <3>3. QED
      BY <3>1, <3>2
  <2>2. QED
    BY <2>1
<1>7. RowsPaid(new, r, list, log)
  <2>1. ASSUME NEW a \in Accounts \ {Zero}
        PROVE  InUSIDRow(r, a) = new[a] + Owed("Debit", list, log, log.from = a)
                                        - Owed("Credit", list, log, log.to = a)
    <3>1. /\ Owed("Debit", list, log, log.from = a) = IF log.from = a THEN log.value ELSE 0
          /\ Owed("Credit", list, log, log.to = a) = IF log.to = a THEN log.value ELSE 0
      BY <1>5
    <3>2. net[a] \in Int /\ new[a] = net[a] + (IF log.to = a THEN log.value ELSE 0)
                                             - (IF log.from = a THEN log.value ELSE 0)
      OBVIOUS
    <3>3. QED
      BY <1>2, <1>6, <3>1, <3>2
  <2>2. QED
    BY <2>1 DEF RowsPaid
<1>8. Affordable(r, list, log)
  BY <1>2, <1>3, <1>6 DEF Affordable
<1>9. SupplyPaid(r, list, log)
  <2>1. Issued(r, "USID") \in Nat
    <3>1. Zero \in Accounts
      BY DEF Accounts
    <3>2. QED
      BY <1>1, <3>1, IssuedSet
  <2>2. r.totalSupply["USID"] = Issued(r, "USID")
    <3> DEFINE debit == Owed("Debit", <<>>, old, TRUE)
               credit == Owed("Credit", <<>>, old, TRUE)
               raised == Owed("Supply", <<>>, old, old.from = Zero)
               lowered == Owed("Supply", <<>>, old, old.to = Zero)
    <3>1. r.totalSupply["USID"] = Issued(r, "USID") + credit - debit - raised + lowered
      BY <1>1 DEF SupplyPaid
    <3>2. credit = 0 /\ debit = 0 /\ raised = 0 /\ lowered = 0
      BY <1>4
    <3> HIDE DEF debit, credit, raised, lowered
    <3>3. QED
      BY <2>1, <3>1, <3>2
  <2>3. /\ Owed("Debit", list, log, TRUE) = IF log.from # Zero THEN log.value ELSE 0
        /\ Owed("Credit", list, log, TRUE) = IF log.to # Zero THEN log.value ELSE 0
        /\ Owed("Supply", list, log, log.from = Zero) = IF log.from = Zero THEN log.value ELSE 0
        /\ Owed("Supply", list, log, log.to = Zero) = IF log.to = Zero THEN log.value ELSE 0
    BY <1>5
  <2> DEFINE debit == Owed("Debit", list, log, TRUE)
             credit == Owed("Credit", list, log, TRUE)
             raised == Owed("Supply", list, log, log.from = Zero)
             lowered == Owed("Supply", list, log, log.to = Zero)
  <2>4. credit - debit - raised + lowered = 0 /\ credit \in Nat /\ debit \in Nat
        /\ raised \in Nat /\ lowered \in Nat
    <3>1. /\ debit = IF log.from # Zero THEN log.value ELSE 0
          /\ credit = IF log.to # Zero THEN log.value ELSE 0
          /\ raised = IF log.from = Zero THEN log.value ELSE 0
          /\ lowered = IF log.to = Zero THEN log.value ELSE 0
      BY <2>3
    <3> HIDE DEF debit, credit, raised, lowered
    <3>2. QED
      BY <1>2, <3>1
  <2>5. r.totalSupply["USID"] = Issued(r, "USID") + credit - debit - raised + lowered
    <3> HIDE DEF debit, credit, raised, lowered
    <3> QED BY <2>1, <2>2, <2>4
  <2>6. QED
    BY <2>5 DEF SupplyPaid
<1>10. QED
  BY <1>1, <1>7, <1>8, <1>9 DEF Money
-----------------------------------------------------------------------------
(* How far the loop is: the USID transfers that are done are those up to   *)
(* the end of the batch that are no longer in it, and they come before the *)
(* logs that are.                                                          *)
Reached(last, to) == IF to = 0 THEN last ELSE to

DoneIn(c, h, bt) == {p \in PlacesIn(c, 1, h) : InUSID(LogIn(c, p))} \ bt

Loop(c, last, to, bt, list) ==
  /\ last \in Nat /\ to \in Nat /\ last <= Len(c) /\ to <= Len(c)
  /\ to = 0 => bt = {} /\ list = <<>>
  /\ to > 0 => last < to
  /\ bt \subseteq PlacesIn(c, last + 1, to)
  /\ \A p \in bt, q \in DoneIn(c, Reached(last, to), bt) : Before(q, p)

NetOf(c, D) == [a \in Accounts |-> Inflow(c, D, a) - Outflow(c, D, a)]

LEMMA NetType ==
  ASSUME NEW c, IsChain(c), NEW D \in SUBSET AllIn(c)
  PROVE  NetOf(c, D) \in [Accounts -> Int]
<1>1. \A a \in Accounts : Inflow(c, D, a) \in Nat /\ Outflow(c, D, a) \in Nat
  BY FlowNat
<1>2. QED
  BY <1>1 DEF NetOf

LEMMA PlacesBetween ==
  ASSUME NEW c, IsChain(c), NEW from \in Nat, from >= 1, NEW to \in Nat, to <= Len(c)
  PROVE  PlacesIn(c, from, to) = {p \in AllIn(c) : from <= p[1] /\ p[1] <= to}
<1>1. Len(c) \in Nat
  BY DEF IsChain
<1>2. ASSUME NEW p \in PlacesIn(c, from, to)
      PROVE  p \in AllIn(c) /\ from <= p[1] /\ p[1] <= to
  <2>1. /\ p = <<p[1], p[2]>> /\ p[1] \in from .. to /\ p[2] \in DOMAIN c[p[1]]
    BY PlaceIsPair
  <2>2. p[1] \in 1 .. Len(c)
    BY <1>1, <2>1
  <2>3. <<p[1], p[2]>> \in PlacesIn(c, 1, Len(c))
    BY <1>1, <2>1, <2>2, PairIsPlace
  <2>4. QED
    BY <2>1, <2>3 DEF AllIn
<1>3. ASSUME NEW p \in AllIn(c), from <= p[1], p[1] <= to
      PROVE  p \in PlacesIn(c, from, to)
  <2>1. p[1] \in 1 .. Len(c) /\ p[2] \in DOMAIN c[p[1]] /\ p = <<p[1], p[2]>>
    BY PlaceTypes
  <2>2. p[1] \in from .. to
    BY <1>1, <1>3, <2>1
  <2>3. <<p[1], p[2]>> \in PlacesIn(c, from, to)
    BY <2>1, <2>2, PairIsPlace
  <2>4. QED
    BY <2>1, <2>3
<1>4. QED
  BY <1>2, <1>3

LEMMA DoneWithin ==
  ASSUME NEW c, IsChain(c), NEW last, NEW to, NEW bt, NEW list, Loop(c, last, to, bt, list)
  PROVE  /\ Reached(last, to) \in Nat /\ Reached(last, to) <= Len(c)
         /\ DoneIn(c, Reached(last, to), bt) \in SUBSET AllIn(c)
         /\ bt \in SUBSET AllIn(c)
         /\ \A p \in bt : last + 1 <= p[1] /\ p[1] <= to
         /\ \A p \in AllIn(c) : p \in DoneIn(c, Reached(last, to), bt) <=>
              p[1] <= Reached(last, to) /\ InUSID(LogIn(c, p)) /\ p \notin bt
<1>1. /\ last \in Nat /\ to \in Nat /\ last <= Len(c) /\ to <= Len(c) /\ Len(c) \in Nat
      /\ bt \subseteq PlacesIn(c, last + 1, to)
  BY DEF Loop, IsChain
<1>2. Reached(last, to) \in Nat /\ Reached(last, to) <= Len(c)
  BY <1>1 DEF Reached
<1>3. PlacesIn(c, 1, Reached(last, to)) = {p \in AllIn(c) : 1 <= p[1] /\ p[1] <= Reached(last, to)}
  BY <1>2, PlacesBetween
<1>4. PlacesIn(c, last + 1, to) = {p \in AllIn(c) : last + 1 <= p[1] /\ p[1] <= to}
  BY <1>1, PlacesBetween
<1>5. \A p \in AllIn(c) : 1 <= p[1]
  BY PlaceTypes
<1>6. QED
  BY <1>1, <1>2, <1>3, <1>4, <1>5 DEF DoneIn

LEMMA LoopStarts ==
  ASSUME NEW c, IsChain(c), NEW last, NEW bt, NEW list, Loop(c, last, 0, bt, list),
         NEW end \in Nat, last < end, end <= Len(c),
         NEW new \in SUBSET PlacesIn(c, last + 1, end),
         \A p \in PlacesIn(c, last + 1, end) \ new : ~InUSID(LogIn(c, p))
  PROVE  /\ Loop(c, last, end, new, list)
         /\ DoneIn(c, end, new) = DoneIn(c, last, bt)
<1>1. last \in Nat /\ Len(c) \in Nat /\ bt = {} /\ list = <<>> /\ last <= Len(c)
  BY DEF Loop, IsChain
<1>2. /\ PlacesIn(c, last + 1, end) = {p \in AllIn(c) : last + 1 <= p[1] /\ p[1] <= end}
      /\ PlacesIn(c, 1, last) = {p \in AllIn(c) : 1 <= p[1] /\ p[1] <= last}
      /\ PlacesIn(c, 1, end) = {p \in AllIn(c) : 1 <= p[1] /\ p[1] <= end}
  BY <1>1, PlacesBetween
<1>3. \A p \in AllIn(c) : p[1] \in Nat
  BY PlaceTypes
<1>4. DoneIn(c, end, new) = DoneIn(c, last, bt)
  <2>1. ASSUME NEW p \in DoneIn(c, end, new)
        PROVE  p \in DoneIn(c, last, bt)
    <3>1. p \in AllIn(c) /\ p[1] \in Nat /\ 1 <= p[1] /\ p[1] <= end /\ InUSID(LogIn(c, p)) /\ p \notin new
      BY <1>2, <1>3 DEF DoneIn
    <3>2. p \notin PlacesIn(c, last + 1, end)
      BY <3>1
    <3>3. p[1] <= last
      BY <1>1, <1>2, <3>1, <3>2
    <3>4. QED
      BY <1>1, <1>2, <3>1, <3>3 DEF DoneIn
  <2>2. ASSUME NEW p \in DoneIn(c, last, bt)
        PROVE  p \in DoneIn(c, end, new)
    <3>1. p \in AllIn(c) /\ p[1] \in Nat /\ 1 <= p[1] /\ p[1] <= last /\ InUSID(LogIn(c, p))
      BY <1>2, <1>3 DEF DoneIn
    <3>2. p \notin new
      BY <1>1, <1>2, <3>1
    <3>3. p \in PlacesIn(c, 1, end)
      BY <1>1, <1>2, <3>1
    <3>4. QED
      BY <3>1, <3>2, <3>3 DEF DoneIn
  <2>3. QED
    BY <2>1, <2>2
<1>5. \A p \in new, q \in DoneIn(c, last, bt) : Before(q, p)
  <2>1. ASSUME NEW p \in new, NEW q \in DoneIn(c, last, bt)
        PROVE  Before(q, p)
    <3>1. p \in AllIn(c) /\ last + 1 <= p[1] /\ q \in AllIn(c) /\ q[1] <= last
      BY <1>2 DEF DoneIn
    <3>2. q[1] < p[1]
      BY <1>1, <1>3, <3>1
    <3>3. QED
      BY <3>2 DEF Before
  <2>2. QED
    BY <2>1
<1>6. Reached(last, end) = end /\ end > 0
  BY <1>1 DEF Reached
<1>7. Loop(c, last, end, new, list)
  BY <1>1, <1>4, <1>5, <1>6 DEF Loop
<1>8. QED
  BY <1>4, <1>7

(* The place that is taken is the next one: what comes before it is done.  *)
IsNext(p, bt) == p \in bt /\ \A q \in bt \ {p} : Before(p, q)

Taken(c, to, bt, p) ==
  /\ p \in AllIn(c)
  /\ p \notin DoneIn(c, to, bt)
  /\ DoneIn(c, to, bt) \subseteq Earlier(c, p)
  /\ \A q \in Earlier(c, p) \ DoneIn(c, to, bt) : ~InUSID(LogIn(c, q))
  /\ InUSID(LogIn(c, p)) => DoneIn(c, to, bt \ {p}) = DoneIn(c, to, bt) \union {p}
  /\ ~InUSID(LogIn(c, p)) => DoneIn(c, to, bt \ {p}) = DoneIn(c, to, bt)

LEMMA LoopTakes ==
  ASSUME NEW c, IsChain(c), NEW last, NEW to, NEW bt, Loop(c, last, to, bt, <<>>), to > 0,
         NEW p, IsNext(p, bt), NEW list
  PROVE  Loop(c, last, to, bt \ {p}, list) /\ Taken(c, to, bt, p)
<1>0. p \in bt /\ \A q \in bt \ {p} : Before(p, q)
  BY DEF IsNext
<1>1. /\ last \in Nat /\ to \in Nat /\ last <= Len(c) /\ to <= Len(c) /\ last < to
      /\ bt \subseteq PlacesIn(c, last + 1, to)
      /\ Reached(last, to) = to
      /\ \A r \in bt, q \in DoneIn(c, to, bt) : Before(q, r)
  BY DEF Loop, Reached
<1>2. /\ DoneIn(c, to, bt) \in SUBSET AllIn(c) /\ bt \in SUBSET AllIn(c)
      /\ \A r \in bt : last + 1 <= r[1] /\ r[1] <= to
      /\ \A r \in AllIn(c) : r \in DoneIn(c, to, bt) <=> r[1] <= to /\ InUSID(LogIn(c, r)) /\ r \notin bt
  BY <1>1, DoneWithin
<1>3. PlacesIn(c, 1, to) = {r \in AllIn(c) : 1 <= r[1] /\ r[1] <= to}
  BY <1>1, PlacesBetween
<1>4. \A r \in AllIn(c) : r[1] \in Nat /\ r[2] \in Nat /\ 1 <= r[1]
  BY PlaceTypes
<1>5. p \in AllIn(c) /\ p \notin DoneIn(c, to, bt) /\ p \in PlacesIn(c, 1, to)
  BY <1>0, <1>2, <1>3, <1>4
<1>6. /\ InUSID(LogIn(c, p)) => DoneIn(c, to, bt \ {p}) = DoneIn(c, to, bt) \union {p}
      /\ ~InUSID(LogIn(c, p)) => DoneIn(c, to, bt \ {p}) = DoneIn(c, to, bt)
  BY <1>5 DEF DoneIn
<1>7. DoneIn(c, to, bt) \subseteq Earlier(c, p)
  BY <1>0, <1>1, <1>2 DEF Earlier
<1>8. ASSUME NEW q \in Earlier(c, p) \ DoneIn(c, to, bt), InUSID(LogIn(c, q))
      PROVE  FALSE
  <2>1. q \in AllIn(c) /\ Before(q, p)
    BY DEF Earlier
  <2>2. /\ q[1] \in Nat /\ q[2] \in Nat /\ p[1] \in Nat /\ p[2] \in Nat /\ p[1] <= to
    BY <1>0, <1>2, <1>4, <1>5, <2>1
  <2>3. q[1] <= to
    BY <1>1, <2>1, <2>2 DEF Before
  <2>4. q \in bt
    BY <1>2, <1>8, <2>1, <2>3
  <2>5. q # p
    BY <2>1, <2>2 DEF Before
  <2>6. Before(p, q)
    BY <1>0, <2>4, <2>5
  <2>7. QED
    BY <2>1, <2>2, <2>6 DEF Before
<1>9. Loop(c, last, to, bt \ {p}, list)
  <2>1. \A r \in bt \ {p}, q \in DoneIn(c, to, bt \ {p}) : Before(q, r)
    BY <1>0, <1>1, <1>6
  <2>2. bt \ {p} \subseteq PlacesIn(c, last + 1, to)
    BY <1>1
  <2>3. ~(to = 0)
    BY <1>1
  <2>4. \A r \in bt \ {p}, q \in DoneIn(c, Reached(last, to), bt \ {p}) : Before(q, r)
    BY <1>1, <2>1
  <2>5. QED
    BY <1>1, <2>2, <2>3, <2>4, Zenon DEF Loop
<1>10. QED
  BY <1>5, <1>6, <1>7, <1>8, <1>9 DEF Taken

LEMMA LoopEnds ==
  ASSUME NEW c, NEW last, NEW to, NEW bt, NEW list, Loop(c, last, to, bt, list)
  PROVE  /\ Loop(c, last, 0, {}, <<>>)
         /\ to > 0 => Loop(c, to, 0, {}, <<>>)
         /\ to > 0 => Reached(to, 0) = Reached(last, to)
BY DEF Loop, Reached

LEMMA LoopGrows ==
  ASSUME NEW c, IsChain(c), NEW d, IsChain(d), NEW logs, Extends(c, d, logs),
         NEW last, NEW bt, NEW list, Loop(c, last, 0, bt, list)
  PROVE  /\ Loop(d, last, 0, bt, list)
         /\ NetOf(d, DoneIn(d, last, bt)) = NetOf(c, DoneIn(c, last, bt))
<1>1. /\ last \in Nat /\ last <= Len(c) /\ bt = {} /\ list = <<>> /\ Len(c) \in Nat
      /\ Len(d) = Len(c) + 1
  BY DEF Loop, Extends
<1>2. /\ PlacesIn(c, 1, last) = {p \in AllIn(c) : 1 <= p[1] /\ p[1] <= last}
      /\ PlacesIn(d, 1, last) = {p \in AllIn(d) : 1 <= p[1] /\ p[1] <= last}
  BY <1>1, PlacesBetween
<1>3. /\ AllIn(c) \subseteq AllIn(d)
      /\ \A p \in AllIn(c) : LogIn(d, p) = LogIn(c, p)
      /\ \A p \in AllIn(d) \ AllIn(c) : p = <<Len(c) + 1, p[2]>>
  BY GrownPlaces
<1>4. \A p \in AllIn(d) \ AllIn(c) : ~(p[1] <= last)
  <2>1. \A p \in AllIn(d) \ AllIn(c) : p[1] = Len(c) + 1
    BY <1>3
  <2>2. QED
    BY <1>1, <2>1
<1>5. PlacesIn(d, 1, last) = PlacesIn(c, 1, last)
  BY <1>1, <1>2, <1>3, <1>4
<1>6. DoneIn(d, last, bt) = DoneIn(c, last, bt)
  BY <1>2, <1>3, <1>5 DEF DoneIn
<1>7. \A p \in DoneIn(c, last, bt) : LogIn(d, p) = LogIn(c, p)
  BY <1>2, <1>3 DEF DoneIn
<1>8. NetOf(d, DoneIn(c, last, bt)) = NetOf(c, DoneIn(c, last, bt))
  <2>1. \A a \in Accounts : /\ Inflow(d, DoneIn(c, last, bt), a) = Inflow(c, DoneIn(c, last, bt), a)
                            /\ Outflow(d, DoneIn(c, last, bt), a) = Outflow(c, DoneIn(c, last, bt), a)
    BY <1>7, FlowSame
  <2>2. QED
    BY <2>1 DEF NetOf
<1>9. Loop(d, last, 0, bt, list)
  BY <1>1 DEF Loop
<1>10. QED
  BY <1>6, <1>8, <1>9
-----------------------------------------------------------------------------
(* The inductive invariant: the chain pays what its transfers move, the    *)
(* loop has done what lies behind it, each handler's list is one it set    *)
(* out with, and users, holders and money are right but for what the list  *)
(* still has to do.                                                        *)
Net == NetOf(chain, DoneIn(chain, Reached(lastBlock, toBlock), batch))

LoopInv == Loop(chain, lastBlock, toBlock, batch, todo) /\ faults \in Nat

TodoInv == TodoOK(todo, current)

RowsInv == rows \in Rows

UsersInv == UsersOK(rows, todo, faults)

HoldersInv == FaultFree => \A t \in Tokens \ disturbed : HoldersOK(rows, todo, current, t)

MoneyInv == FaultFree => Money(Net, rows, todo, current)

Inv == ChainInv /\ LoopInv /\ TodoInv /\ RowsInv /\ UsersInv /\ HoldersInv /\ MoneyInv

LEMMA NothingListed ==
  ASSUME NEW log
  PROVE  /\ TodoOK(<<>>, log)
         /\ \A s : ~Has(s, <<>>)
<1>1. \A s : ~Has(s, <<>>)
  BY DEF Has
<1>2. IsTodo(<<>>)
  BY DEF IsTodo
<1>3. QED
  BY <1>1, <1>2 DEF TodoOK

LEMMA MoneyIdle ==
  ASSUME NEW net, NEW r, NEW list, NEW log, NEW old, Money(net, r, <<>>, old),
         \A s \in {"Debit", "Credit", "Supply"} : ~(Has(s, list) /\ log.token = "USID")
  PROVE  Money(net, r, list, log)
<1>1. /\ RowsNat(r) /\ RowsPaid(net, r, <<>>, old) /\ SupplyPaid(r, <<>>, old)
  BY DEF Money
<1>2. \A s, cond : Owed(s, <<>>, old, cond) = 0
  BY DEF Owed, Has
<1>3. \A s \in {"Debit", "Credit", "Supply"} : \A cond : Owed(s, list, log, cond) = 0
  BY DEF Owed
<1>4. RowsPaid(net, r, list, log)
  <2>1. ASSUME NEW a \in Accounts \ {Zero}
        PROVE  InUSIDRow(r, a) = net[a] + Owed("Debit", list, log, log.from = a)
                                        - Owed("Credit", list, log, log.to = a)
    <3>1. InUSIDRow(r, a) = net[a] + Owed("Debit", <<>>, old, old.from = a)
                                   - Owed("Credit", <<>>, old, old.to = a)
      BY <1>1 DEF RowsPaid
    <3>2. InUSIDRow(r, a) = net[a] + 0 - 0
      BY <1>2, <3>1
    <3>3. Owed("Debit", list, log, log.from = a) = 0 /\ Owed("Credit", list, log, log.to = a) = 0
      BY <1>3
    <3>4. QED
      BY <3>2, <3>3
  <2>2. QED
    BY <2>1 DEF RowsPaid
<1>5. Affordable(r, list, log)
  BY DEF Affordable
<1>6. SupplyPaid(r, list, log)
  <2> DEFINE debit == Owed("Debit", <<>>, old, TRUE)
             credit == Owed("Credit", <<>>, old, TRUE)
             raised == Owed("Supply", <<>>, old, old.from = Zero)
             lowered == Owed("Supply", <<>>, old, old.to = Zero)
  <2>1. r.totalSupply["USID"] = Issued(r, "USID") + credit - debit - raised + lowered
    BY <1>1 DEF SupplyPaid
  <2>2. credit = 0 /\ debit = 0 /\ raised = 0 /\ lowered = 0
    BY <1>2
  <2> DEFINE debit2 == Owed("Debit", list, log, TRUE)
             credit2 == Owed("Credit", list, log, TRUE)
             raised2 == Owed("Supply", list, log, log.from = Zero)
             lowered2 == Owed("Supply", list, log, log.to = Zero)
  <2>3. credit2 = 0 /\ debit2 = 0 /\ raised2 = 0 /\ lowered2 = 0
    BY <1>3
  <2>4. r.totalSupply["USID"] = Issued(r, "USID") + credit2 - debit2 - raised2 + lowered2
    <3> HIDE DEF debit, credit, raised, lowered, debit2, credit2, raised2, lowered2
    <3> QED BY <2>1, <2>2, <2>3
  <2>5. QED
    BY <2>4 DEF SupplyPaid
<1>7. QED
  BY <1>1, <1>4, <1>5, <1>6 DEF Money

LEMMA HoldersIdle ==
  ASSUME NEW r, NEW t, NEW log, NEW old, NEW list, NEW was,
         \A s \in {"CountHolder", "UncountHolder"} : ~Has(s, list) /\ ~Has(s, was),
         HoldersOK(r, was, old, t)
  PROVE  HoldersOK(r, list, log, t)
<1>1. /\ DueIn("CountHolder", list, log, t) = 0 /\ DueIn("UncountHolder", list, log, t) = 0
      /\ DueIn("CountHolder", was, old, t) = 0 /\ DueIn("UncountHolder", was, old, t) = 0
  BY DEF DueIn
<1>2. QED
  BY <1>1 DEF HoldersOK

LEMMA ChainStays ==
  ASSUME ChainInv, UNCHANGED tokenVars
  PROVE  ChainInv'
BY Zenon DEF ChainInv, tokenVars

LEMMA InitIsInv ==
  ASSUME Init
  PROVE  Inv
<1>0. /\ chain = <<>> /\ created = FALSE /\ balances = [t \in Tokens |-> [a \in Accounts |-> 0]]
      /\ rows = NoRows /\ lastBlock = 0 /\ toBlock = 0 /\ batch = {} /\ current = <<>>
      /\ todo = <<>> /\ faults = 0 /\ disturbed = {}
  BY DEF Init, TokensInit
<1>1. "USID" \in Tokens
  BY DEF Tokens
<1>2. /\ IsChain(<<>>) /\ AllIn(<<>>) = {}
      /\ \A bt : DoneIn(<<>>, 0, bt) = {}
  <2>1. IsChain(<<>>)
    BY DEF IsChain
  <2>2. Len(<<>>) = 0 /\ 1 .. 0 = {}
    OBVIOUS
  <2>3. PlacesIn(<<>>, 1, 0) = {}
    BY <2>2 DEF PlacesIn
  <2>4. QED
    BY <2>1, <2>2, <2>3 DEF AllIn, DoneIn
<1>3. \A a : Inflow(<<>>, {}, a) = 0 /\ Outflow(<<>>, {}, a) = 0
  BY TotalEmpty DEF Inflow, Outflow
<1>4. ChainInv
  <2>1. Ledger(<<>>, balances["USID"])
    <3>1. \A a \in Accounts : balances["USID"][a] = 0
      BY <1>0, <1>1
    <3>2. AllIn(<<>>) = {}
      BY <1>2
    <3>3. \A a : Inflow(<<>>, AllIn(<<>>), a) = 0 /\ Outflow(<<>>, AllIn(<<>>), a) = 0
      BY <1>3, <3>2
    <3>4. QED
      BY <3>1, <3>3 DEF Ledger
  <2>2. History(<<>>)
    BY <1>2 DEF History
  <2>3. balances \in [Tokens -> [Accounts -> Int]]
    <3>1. \A t \in Tokens : [a \in Accounts |-> 0] \in [Accounts -> Int]
      OBVIOUS
    <3>2. QED
      BY <1>0, <3>1
  <2>4. QED
    BY <1>0, <1>2, <2>1, <2>2, <2>3 DEF ChainInv
<1>5. LoopInv
  <2>1. Loop(<<>>, 0, 0, {}, <<>>)
    BY DEF Loop
  <2>2. QED
    BY <1>0, <2>1 DEF LoopInv
<1>6. TodoInv
  BY <1>0, NothingListed DEF TodoInv
<1>7. NoRows \in Rows
  BY DEF NoRows, Rows
<1>8. UsersInv
  <2>1. NoRows.users = {} /\ NoRows.totalUsers = 0
    BY DEF NoRows
  <2>2. Due("CountUser", <<>>) = 0
    BY NothingListed DEF Due
  <2>3. Cardinality({}) = 0
    BY FS_EmptySet
  <2>4. UsersOK(NoRows, <<>>, 0)
    BY <2>1, <2>2, <2>3 DEF UsersOK
  <2>5. QED
    BY <1>0, <2>4 DEF UsersInv
<1>9. ASSUME NEW t \in Tokens
      PROVE  HoldersOK(NoRows, <<>>, <<>>, t)
  <2>1. \A a \in Accounts : Held(NoRows.balance[t][a]) = 0
    BY DEF NoRows, Held
  <2>2. Holders(NoRows, t) = {}
    BY <2>1 DEF Holders
  <2>3. NoRows.holderCount[t] = 0
    BY DEF NoRows
  <2>4. DueIn("CountHolder", <<>>, <<>>, t) = 0 /\ DueIn("UncountHolder", <<>>, <<>>, t) = 0
    BY NothingListed DEF DueIn
  <2>5. QED
    BY <2>2, <2>3, <2>4, FS_EmptySet DEF HoldersOK
<1>10. Money(NetOf(<<>>, {}), NoRows, <<>>, <<>>)
  <2>1. /\ \A a \in Accounts : NoRows.balance["USID"][a] = NoRow
        /\ NoRows.totalSupply["USID"] = 0
    BY <1>1 DEF NoRows
  <2>2. RowsNat(NoRows)
    BY <2>1 DEF RowsNat, Accounts
  <2>3. \A s, cond : Owed(s, <<>>, <<>>, cond) = 0
    BY DEF Owed, Has
  <2>4. \A a \in Accounts : InUSIDRow(NoRows, a) = 0 /\ NetOf(<<>>, {})[a] = 0
    BY <1>3, <2>1 DEF InUSIDRow, Held, NetOf
  <2>5. RowsPaid(NetOf(<<>>, {}), NoRows, <<>>, <<>>)
    <3>1. ASSUME NEW a \in Accounts \ {Zero}
          PROVE  InUSIDRow(NoRows, a) = NetOf(<<>>, {})[a]
                   + Owed("Debit", <<>>, <<>>, <<>>.from = a) - Owed("Credit", <<>>, <<>>, <<>>.to = a)
      <4>1. /\ Owed("Debit", <<>>, <<>>, <<>>.from = a) = 0
            /\ Owed("Credit", <<>>, <<>>, <<>>.to = a) = 0
        BY <2>3
      <4>2. QED
        BY <2>4, <4>1
    <3>2. QED
      BY <3>1 DEF RowsPaid
  <2>6. Affordable(NoRows, <<>>, <<>>)
    BY NothingListed DEF Affordable
  <2>7. Issued(NoRows, "USID") = 0
    <3> DEFINE f == [a \in Accounts |-> Held(NoRows.balance["USID"][a])]
    <3>1. \A a \in Accounts \ {} : f[a] = 0
      BY <2>1 DEF Held
    <3> HIDE DEF f
    <3>2. Total(f, Accounts) = Total(f, {})
      BY <3>1, TotalZeros
    <3>3. QED
      BY <3>2, TotalEmpty DEF Issued, f
  <2>8. SupplyPaid(NoRows, <<>>, <<>>)
    <3> DEFINE debit == Owed("Debit", <<>>, <<>>, TRUE)
               credit == Owed("Credit", <<>>, <<>>, TRUE)
               raised == Owed("Supply", <<>>, <<>>, <<>>.from = Zero)
               lowered == Owed("Supply", <<>>, <<>>, <<>>.to = Zero)
    <3>1. credit = 0 /\ debit = 0 /\ raised = 0 /\ lowered = 0
      BY <2>3
    <3>2. NoRows.totalSupply["USID"] = Issued(NoRows, "USID") + credit - debit - raised + lowered
      <4> HIDE DEF debit, credit, raised, lowered
      <4> QED BY <2>1, <2>7, <3>1
    <3>3. QED
      BY <3>2 DEF SupplyPaid
  <2>9. QED
    BY <2>2, <2>5, <2>6, <2>8 DEF Money
<1>11. HoldersInv
  BY <1>0, <1>9 DEF HoldersInv
<1>12. MoneyInv
  BY <1>0, <1>2, <1>10 DEF MoneyInv, Net, Reached
<1>13. QED
  BY <1>0, <1>4, <1>5, <1>6, <1>7, <1>8, <1>11, <1>12 DEF Inv, RowsInv
-----------------------------------------------------------------------------
(* Each action keeps the invariant. *)
LEMMA MinedKeepsInv ==
  ASSUME Inv, Mined
  PROVE  Inv'
<1>0. /\ ChainInv /\ LoopInv /\ TodoInv /\ RowsInv /\ UsersInv /\ HoldersInv /\ MoneyInv
  BY DEF Inv
<1>1. /\ toBlock = 0 /\ Transaction /\ rows' = rows /\ lastBlock' = lastBlock /\ toBlock' = toBlock
      /\ batch' = batch /\ current' = current /\ todo' = todo /\ faults' = faults
      /\ disturbed' = disturbed
  BY DEF Mined
<1>2. ChainInv' /\ \E logs : Extends(chain, chain', logs)
  BY <1>0, <1>1, TransactionKeepsChain
<1>3. /\ IsChain(chain) /\ IsChain(chain')
      /\ Loop(chain, lastBlock, 0, batch, todo) /\ faults \in Nat
  BY <1>0, <1>1, <1>2 DEF ChainInv, LoopInv
<1>4. /\ Loop(chain', lastBlock, 0, batch, todo)
      /\ NetOf(chain', DoneIn(chain', lastBlock, batch)) = NetOf(chain, DoneIn(chain, lastBlock, batch))
  BY <1>2, <1>3, LoopGrows
<1>5. LoopInv'
  BY <1>1, <1>3, <1>4 DEF LoopInv
<1>6. Net' = Net
  BY <1>1, <1>4 DEF Net, Reached
<1>7. MoneyInv'
  BY <1>0, <1>1, <1>6 DEF MoneyInv, FaultFree
<1>8. TodoInv' /\ RowsInv' /\ UsersInv' /\ HoldersInv'
  BY <1>0, <1>1 DEF TodoInv, RowsInv, UsersInv, HoldersInv, FaultFree
<1>9. QED
  BY <1>2, <1>5, <1>7, <1>8 DEF Inv

LEMMA StartBatchKeepsInv ==
  ASSUME Inv, StartBatch
  PROVE  Inv'
<1>0. /\ ChainInv /\ LoopInv /\ TodoInv /\ RowsInv /\ UsersInv /\ HoldersInv /\ MoneyInv
  BY DEF Inv
<1>1. /\ toBlock = 0 /\ lastBlock < Height
      /\ toBlock' = IF lastBlock + BatchSize <= Height THEN lastBlock + BatchSize ELSE Height
      /\ batch' = {p \in Places(lastBlock + 1, toBlock') : ~Skipped(LogAt(p))}
      /\ UNCHANGED tokenVars /\ rows' = rows /\ lastBlock' = lastBlock
      /\ current' = current /\ todo' = todo /\ faults' = faults /\ disturbed' = disturbed
  BY DEF StartBatch
<1>2. ChainInv' /\ chain' = chain
  BY <1>0, <1>1, ChainStays DEF tokenVars
<1>3. /\ IsChain(chain) /\ Len(chain) \in Nat /\ faults \in Nat
      /\ Loop(chain, lastBlock, 0, batch, todo)
  BY <1>0, <1>1 DEF ChainInv, LoopInv, IsChain
<1>4. lastBlock \in Nat /\ lastBlock < Len(chain) /\ BatchSize \in Nat \ {0}
  BY <1>1, <1>3, AccountsAssumption DEF Loop, Height
<1>5. toBlock' \in Nat /\ lastBlock < toBlock' /\ toBlock' <= Len(chain)
  BY <1>1, <1>3, <1>4 DEF Height
<1>6. /\ batch' \subseteq PlacesIn(chain, lastBlock + 1, toBlock')
      /\ \A p \in PlacesIn(chain, lastBlock + 1, toBlock') \ batch' : ~InUSID(LogIn(chain, p))
  <2>1. Places(lastBlock + 1, toBlock') = PlacesIn(chain, lastBlock + 1, toBlock')
    BY DEF Places, PlacesIn
  <2>2. \A p : LogAt(p) = LogIn(chain, p)
    BY DEF LogAt, LogIn
  <2>3. \A log : Skipped(log) => ~InUSID(log)
    BY DEF Skipped, InUSID
  <2> DEFINE P == PlacesIn(chain, lastBlock + 1, toBlock')
             new == batch'
  <2>4. new = {p \in P : ~Skipped(LogAt(p))}
    BY <1>1, <2>1
  <2> HIDE DEF P, new
  <2>5. new \subseteq P /\ \A p \in P \ new : Skipped(LogAt(p))
    BY <2>4
  <2>6. \A p \in P \ new : ~InUSID(LogIn(chain, p))
    <3> TAKE p \in P \ new
    <3>1. Skipped(LogAt(p)) /\ LogAt(p) = LogIn(chain, p)
      BY <2>2, <2>5
    <3>2. ~InUSID(LogAt(p))
      BY <2>3, <3>1
    <3>3. QED
      BY <3>1, <3>2
  <2>7. QED
    BY <2>5, <2>6 DEF P, new
<1>7. /\ Loop(chain, lastBlock, toBlock', batch', todo)
      /\ DoneIn(chain, toBlock', batch') = DoneIn(chain, lastBlock, batch)
  BY <1>3, <1>4, <1>5, <1>6, LoopStarts
<1>8. LoopInv'
  BY <1>1, <1>2, <1>3, <1>7 DEF LoopInv
<1>9. Net' = Net
  <2>1. Reached(lastBlock', toBlock') = toBlock' /\ Reached(lastBlock, toBlock) = lastBlock
    <3>1. toBlock' # 0
      BY <1>4, <1>5
    <3>2. toBlock = 0
      BY <1>1
    <3>3. QED
      BY <3>1, <3>2 DEF Reached
  <2>2. lastBlock' = lastBlock
    BY <1>1
  <2>3. QED
    BY <1>2, <1>7, <2>1, <2>2 DEF Net
<1>10. MoneyInv'
  BY <1>0, <1>1, <1>9 DEF MoneyInv, FaultFree
<1>11. TodoInv' /\ RowsInv' /\ UsersInv' /\ HoldersInv'
  BY <1>0, <1>1 DEF TodoInv, RowsInv, UsersInv, HoldersInv, FaultFree
<1>12. QED
  BY <1>2, <1>8, <1>10, <1>11 DEF Inv

LEMMA CheckpointKeepsInv ==
  ASSUME Inv, Checkpoint
  PROVE  Inv'
<1>0. /\ ChainInv /\ LoopInv /\ TodoInv /\ RowsInv /\ UsersInv /\ HoldersInv /\ MoneyInv
  BY DEF Inv
<1>1. /\ toBlock > 0 /\ todo = <<>> /\ batch = {} /\ lastBlock' = toBlock /\ toBlock' = 0
      /\ UNCHANGED tokenVars /\ rows' = rows /\ batch' = batch
      /\ current' = current /\ todo' = todo /\ faults' = faults /\ disturbed' = disturbed
  BY DEF Checkpoint
<1>2. ChainInv' /\ chain' = chain
  BY <1>0, <1>1, ChainStays DEF tokenVars
<1>3. Loop(chain, lastBlock, toBlock, batch, todo) /\ faults \in Nat
  BY <1>0 DEF LoopInv
<1>4. Loop(chain, toBlock, 0, {}, <<>>) /\ Reached(toBlock, 0) = Reached(lastBlock, toBlock)
  BY <1>1, <1>3, LoopEnds
<1>5. LoopInv'
  BY <1>1, <1>2, <1>3, <1>4 DEF LoopInv
<1>6. Net' = Net
  BY <1>1, <1>2, <1>4 DEF Net
<1>7. MoneyInv'
  BY <1>0, <1>1, <1>6 DEF MoneyInv, FaultFree
<1>8. TodoInv' /\ RowsInv' /\ UsersInv' /\ HoldersInv'
  BY <1>0, <1>1 DEF TodoInv, RowsInv, UsersInv, HoldersInv, FaultFree
<1>9. QED
  BY <1>2, <1>5, <1>7, <1>8 DEF Inv

LEMMA FaultKeepsInv ==
  ASSUME Inv, HandlerFails \/ Restart
  PROVE  Inv'
<1>0. /\ ChainInv /\ LoopInv /\ TodoInv /\ RowsInv /\ UsersInv /\ HoldersInv /\ MoneyInv
  BY DEF Inv
<1>1. /\ faults' = faults + 1 /\ todo' = <<>> /\ UNCHANGED tokenVars
      /\ rows' = rows /\ lastBlock' = lastBlock /\ current' = current
  BY DEF HandlerFails, Restart
<1>2. ChainInv' /\ chain' = chain
  BY <1>0, <1>1, ChainStays DEF tokenVars
<1>3. Loop(chain, lastBlock, toBlock, batch, todo) /\ faults \in Nat
  BY <1>0 DEF LoopInv
<1>4. faults' \in Nat /\ faults' # 0
  BY <1>1, <1>3
<1>5. LoopInv'
  <2>1. CASE HandlerFails
    <3>1. toBlock' = toBlock /\ batch' = batch
      BY <2>1 DEF HandlerFails
    <3>2. Loop(chain, lastBlock, toBlock, batch, <<>>)
      BY <1>3 DEF Loop
    <3>3. QED
      BY <1>1, <1>2, <1>4, <3>1, <3>2 DEF LoopInv
  <2>2. CASE Restart
    <3>1. toBlock' = 0 /\ batch' = {}
      BY <2>2 DEF Restart
    <3>2. Loop(chain, lastBlock, 0, {}, <<>>)
      BY <1>3, LoopEnds
    <3>3. QED
      BY <1>1, <1>2, <1>4, <3>1, <3>2 DEF LoopInv
  <2>3. QED
    BY <2>1, <2>2
<1>6. TodoInv'
  BY <1>1, NothingListed DEF TodoInv
<1>7. UsersInv'
  <2>1. /\ rows.totalUsers \in Nat /\ rows.users \in SUBSET Accounts
        /\ UsersOK(rows, todo, faults)
    BY <1>0 DEF RowsInv, Rows, UsersInv
  <2>2. Cardinality(rows.users) \in Nat
    BY <2>1, AccountsFinite
  <2>3. Due("CountUser", <<>>) = 0 /\ Due("CountUser", todo) \in {0, 1}
    BY NothingListed DEF Due
  <2>4. UsersOK(rows, <<>>, faults + 1)
    BY <1>3, <2>1, <2>2, <2>3 DEF UsersOK
  <2>5. QED
    BY <1>1, <2>4 DEF UsersInv
<1>8. HoldersInv' /\ MoneyInv'
  BY <1>4 DEF HoldersInv, MoneyInv, FaultFree
<1>9. RowsInv'
  BY <1>0, <1>1 DEF RowsInv
<1>10. QED
  BY <1>2, <1>5, <1>6, <1>7, <1>8, <1>9 DEF Inv

LEMMA StatementKeepsInv ==
  ASSUME Inv, Statement
  PROVE  Inv'
<1>0. /\ ChainInv /\ LoopInv /\ TodoInv /\ RowsInv /\ UsersInv /\ HoldersInv /\ MoneyInv
  BY DEF Inv
<1>1. /\ todo # <<>>
      /\ rows' = After(rows, Head(todo), current)
      /\ todo' = FollowUp(rows, Head(todo), current) \o Tail(todo)
      /\ disturbed' = IF Disturbs(Head(todo), current)
                      THEN disturbed \union {current.token} ELSE disturbed
      /\ UNCHANGED tokenVars /\ lastBlock' = lastBlock /\ toBlock' = toBlock
      /\ batch' = batch /\ current' = current /\ faults' = faults
  BY DEF Statement
<1>2. ChainInv' /\ chain' = chain
  BY <1>0, <1>1, ChainStays DEF tokenVars
<1>3. Loop(chain, lastBlock, toBlock, batch, todo) /\ faults \in Nat /\ IsChain(chain)
  BY <1>0 DEF LoopInv, ChainInv
<1>4. rows \in Rows /\ TodoOK(todo, current)
  BY <1>0 DEF RowsInv, TodoInv
<1>5. /\ TodoOK(todo', current) /\ current \in Log /\ rows' \in Rows
  BY <1>1, <1>4, StatementTodo
<1>6. LoopInv'
  <2>1. toBlock # 0
    BY <1>1, <1>3 DEF Loop
  <2>2. Loop(chain, lastBlock, toBlock, batch, todo')
    BY <1>3, <2>1 DEF Loop
  <2>3. QED
    BY <1>1, <1>2, <1>3, <2>2 DEF LoopInv
<1>7. TodoInv' /\ RowsInv'
  BY <1>1, <1>5 DEF TodoInv, RowsInv
<1>8. IsTodo(todo)
  BY <1>4 DEF TodoOK
<1>9. UsersInv'
  <2>1. UsersOK(rows', todo', faults)
    BY <1>0, <1>1, <1>3, <1>4, <1>5, <1>8, StatementUsers DEF UsersInv
  <2>2. QED
    BY <1>1, <2>1 DEF UsersInv
<1>10. HoldersInv'
  <2>1. ASSUME FaultFree, NEW t \in Tokens \ disturbed'
        PROVE  HoldersOK(rows', todo', current, t)
    <3>1. t \in Tokens \ disturbed /\ ~(Disturbs(Head(todo), current) /\ current.token = t)
      BY <1>1, <2>1
    <3>2. ~(DisturbsIn(rows, Head(todo), current) /\ current.token = t)
      BY <3>1 DEF Disturbs, DisturbsIn
    <3>3. HoldersOK(rows, todo, current, t)
      BY <1>0, <2>1, <3>1 DEF HoldersInv
    <3>4. QED
      BY <1>1, <1>4, <1>5, <1>8, <3>1, <3>2, <3>3, StatementHolders
  <2>2. QED
    BY <1>1, <2>1 DEF HoldersInv, FaultFree
<1>11. MoneyInv'
  <2>1. ASSUME FaultFree
        PROVE  Money(Net, rows', todo', current)
    <3>1. Net \in [Accounts -> Int]
      BY <1>3, DoneWithin, NetType DEF Net
    <3>2. Money(Net, rows, todo, current)
      BY <1>0, <2>1 DEF MoneyInv
    <3>3. QED
      BY <1>1, <1>4, <3>1, <3>2, StatementMoney
  <2>2. Net' = Net
    BY <1>1, <1>2 DEF Net
  <2>3. QED
    BY <1>1, <2>1, <2>2 DEF MoneyInv, FaultFree
<1>12. QED
  BY <1>2, <1>6, <1>7, <1>9, <1>10, <1>11 DEF Inv

LEMMA TakeLogKeepsInv ==
  ASSUME Inv, TakeLog
  PROVE  Inv'
<1>0. /\ ChainInv /\ LoopInv /\ TodoInv /\ RowsInv /\ UsersInv /\ HoldersInv /\ MoneyInv
  BY DEF Inv
<1>1. PICK p \in batch :
        /\ toBlock > 0 /\ todo = <<>>
        /\ \A q \in batch \ {p} : Before(p, q)
        /\ current' = LogAt(p)
        /\ batch' = batch \ {p}
        /\ todo' = Statements(LogAt(p))
        /\ UNCHANGED tokenVars /\ rows' = rows /\ lastBlock' = lastBlock /\ toBlock' = toBlock
        /\ faults' = faults /\ disturbed' = disturbed
  BY DEF TakeLog
<1> DEFINE log == LogIn(chain, p)
           list == Statements(log)
<1>2. current' = log /\ todo' = list
  BY <1>1 DEF LogAt, LogIn
<1>3. ChainInv' /\ chain' = chain
  BY <1>0, <1>1, ChainStays DEF tokenVars
<1>4. /\ IsChain(chain) /\ History(chain) /\ Loop(chain, lastBlock, toBlock, batch, <<>>)
      /\ faults \in Nat
  BY <1>0, <1>1 DEF ChainInv, LoopInv
<1> DEFINE D == DoneIn(chain, toBlock, batch)
<1>5. /\ Loop(chain, lastBlock, toBlock, batch \ {p}, list)
      /\ p \in AllIn(chain)
      /\ p \notin D
      /\ D \subseteq Earlier(chain, p)
      /\ \A q \in Earlier(chain, p) \ D : ~InUSID(LogIn(chain, q))
      /\ InUSID(log) => DoneIn(chain, toBlock, batch \ {p}) = D \union {p}
      /\ ~InUSID(log) => DoneIn(chain, toBlock, batch \ {p}) = D
  <2>1. toBlock > 0 /\ IsNext(p, batch)
    BY <1>1 DEF IsNext
  <2> HIDE DEF list
  <2>2. Loop(chain, lastBlock, toBlock, batch \ {p}, list) /\ Taken(chain, toBlock, batch, p)
    BY <1>4, <2>1, LoopTakes
  <2>3. QED
    BY <2>2, Zenon DEF Taken
<1>6. log \in Log /\ (log.kind # "Transfer" => log.token = "USID")
  BY <1>4, <1>5, PlaceTypes
<1>7. Planned(list, log)
  BY <1>6, StatementsPlanned
<1> HIDE DEF log, list, D
<1>8. LoopInv'
  BY <1>1, <1>2, <1>3, <1>4, <1>5 DEF LoopInv
<1>9. TodoInv'
  <2>1. TodoOK(list, log)
    BY <1>6, <1>7 DEF Planned, TodoOK
  <2>2. QED
    BY <1>2, <2>1 DEF TodoInv
<1>10. RowsInv'
  BY <1>0, <1>1 DEF RowsInv
<1>11. \A s \in Follow : ~Has(s, list) /\ ~Has(s, todo)
  BY <1>1, <1>7, NothingListed DEF Planned
<1>12. UsersInv'
  <2>1. Due("CountUser", list) = Due("CountUser", todo)
    BY <1>11 DEF Due, Follow
  <2>2. UsersOK(rows, list, faults)
    BY <1>0, <2>1 DEF UsersInv, UsersOK
  <2>3. QED
    BY <1>1, <1>2, <2>2 DEF UsersInv
<1>13. HoldersInv'
  <2>1. ASSUME FaultFree, NEW t \in Tokens \ disturbed
        PROVE  HoldersOK(rows, list, log, t)
    <3>1. HoldersOK(rows, todo, current, t)
      BY <1>0, <2>1 DEF HoldersInv
    <3>2. \A s \in {"CountHolder", "UncountHolder"} : ~Has(s, list) /\ ~Has(s, todo)
      BY <1>11 DEF Follow
    <3>3. QED
      BY <3>1, <3>2, HoldersIdle
  <2>2. QED
    BY <1>1, <1>2, <2>1 DEF HoldersInv, FaultFree
<1>14. D \in SUBSET AllIn(chain) /\ Reached(lastBlock, toBlock) = toBlock
  <2>1. Reached(lastBlock, toBlock) = toBlock
    BY <1>1 DEF Reached
  <2>2. QED
    BY <1>4, <2>1, DoneWithin DEF D
<1>15. Net = NetOf(chain, D) /\ NetOf(chain, D) \in [Accounts -> Int]
  BY <1>4, <1>14, NetType DEF Net, D
<1>16. Net' = NetOf(chain, DoneIn(chain, toBlock, batch \ {p}))
  BY <1>1, <1>3, <1>14 DEF Net
<1>17. MoneyInv'
  <2>1. ASSUME FaultFree
        PROVE  Money(Net', rows, list, log)
    <3>1. Money(NetOf(chain, D), rows, <<>>, current)
      BY <1>0, <1>1, <1>15, <2>1 DEF MoneyInv
    <3>2. CASE ~InUSID(log)
      <4>1. Net' = NetOf(chain, D)
        BY <1>5, <1>16, <3>2
      <4>2. \A s \in {"Debit", "Credit", "Supply"} : ~(Has(s, list) /\ log.token = "USID")
        BY <1>6, <1>7, <3>2 DEF Planned, InUSID
      <4>3. Money(NetOf(chain, D), rows, list, log)
        BY <3>1, <4>2, MoneyIdle
      <4>4. QED
        BY <4>1, <4>3
    <3>3. CASE InUSID(log)
      <4> DEFINE net == NetOf(chain, D)
                 new == NetOf(chain, D \union {p})
      <4>1. D \union {p} \in SUBSET AllIn(chain)
        BY <1>5, <1>14
      <4>2. net \in [Accounts -> Int] /\ new \in [Accounts -> Int]
        BY <1>4, <1>15, <4>1, NetType
      <4>3. ASSUME NEW a \in Accounts
            PROVE  new[a] = net[a] + (IF log.to = a THEN log.value ELSE 0)
                                   - (IF log.from = a THEN log.value ELSE 0)
        <5>1. /\ Inflow(chain, D \union {p}, a) = Inflow(chain, D, a) + Got(chain, p, a)
              /\ Outflow(chain, D \union {p}, a) = Outflow(chain, D, a) + Gave(chain, p, a)
          BY <1>4, <1>5, <1>14, FlowAdd
        <5>2. Inflow(chain, D, a) \in Nat /\ Outflow(chain, D, a) \in Nat
          BY <1>4, <1>14, FlowNat
        <5>3. /\ Got(chain, p, a) = IF log.to = a THEN log.value ELSE 0
              /\ Gave(chain, p, a) = IF log.from = a THEN log.value ELSE 0
          BY <3>3 DEF Got, Gave, log
        <5>4. log.value \in Nat
          BY <1>6 DEF Log
        <5>5. /\ new[a] = Inflow(chain, D \union {p}, a) - Outflow(chain, D \union {p}, a)
              /\ net[a] = Inflow(chain, D, a) - Outflow(chain, D, a)
          BY DEF NetOf
        <5> HIDE DEF net, new
        <5>6. QED
          BY <5>1, <5>2, <5>3, <5>4, <5>5
      <4>4. log.from # Zero => net[log.from] >= log.value
        <5>1. ASSUME log.from # Zero
              PROVE  net[log.from] >= log.value
          <6>1. Covered(chain, p)
            BY <1>4, <1>5 DEF History
          <6>2. Inflow(chain, Earlier(chain, p), log.from) - Outflow(chain, Earlier(chain, p), log.from)
                  >= log.value
            BY <3>3, <5>1, <6>1 DEF Covered, log
          <6>3. /\ Inflow(chain, Earlier(chain, p), log.from) = Inflow(chain, D, log.from)
                /\ Outflow(chain, Earlier(chain, p), log.from) = Outflow(chain, D, log.from)
            BY <1>5, FlowZeros
          <6>4. log.from \in Accounts
            BY <1>6 DEF Log
          <6>5. net[log.from] = Inflow(chain, D, log.from) - Outflow(chain, D, log.from)
            BY <6>4 DEF NetOf
          <6>6. QED
            BY <6>2, <6>3, <6>5
        <5>2. QED
          BY <5>1
      <4>5. Net' = new
        BY <1>5, <1>16, <3>3
      <4>6. rows \in Rows
        BY <1>0 DEF RowsInv
      <4> HIDE DEF net, new
      <4>7. Money(new, rows, list, log)
        <5>1. Money(net, rows, <<>>, current)
          BY <3>1 DEF net
        <5>2. QED
          BY <1>6, <1>7, <3>3, <4>2, <4>3, <4>4, <4>6, <5>1, MoneyTaken
      <4>8. QED
        BY <4>5, <4>7
    <3>4. QED
      BY <3>2, <3>3
  <2>2. QED
    BY <1>1, <1>2, <2>1 DEF MoneyInv, FaultFree
<1>18. QED
  BY <1>3, <1>8, <1>9, <1>10, <1>12, <1>13, <1>17 DEF Inv

LEMMA StepKeepsInv ==
  ASSUME Inv, [Next]_vars
  PROVE  Inv'
<1>1. CASE Mined
  BY <1>1, MinedKeepsInv
<1>2. CASE StartBatch
  BY <1>2, StartBatchKeepsInv
<1>3. CASE TakeLog
  BY <1>3, TakeLogKeepsInv
<1>4. CASE Statement
  BY <1>4, StatementKeepsInv
<1>5. CASE Checkpoint
  BY <1>5, CheckpointKeepsInv
<1>6. CASE HandlerFails \/ Restart
  BY <1>6, FaultKeepsInv
<1>7. CASE UNCHANGED vars
  <2>1. /\ UNCHANGED tokenVars /\ chain' = chain /\ rows' = rows /\ lastBlock' = lastBlock
        /\ toBlock' = toBlock /\ batch' = batch /\ current' = current /\ todo' = todo
        /\ faults' = faults /\ disturbed' = disturbed
    BY <1>7 DEF vars, tokenVars
  <2>2. ChainInv'
    BY <2>1, ChainStays DEF Inv
  <2>3. Net' = Net
    BY <2>1 DEF Net
  <2>4. LoopInv' /\ TodoInv' /\ RowsInv' /\ UsersInv' /\ HoldersInv' /\ MoneyInv'
    BY <2>1, <2>3 DEF Inv, LoopInv, TodoInv, RowsInv, UsersInv, HoldersInv, MoneyInv, FaultFree
  <2>5. QED
    BY <2>2, <2>4 DEF Inv
<1>8. QED
  BY <1>1, <1>2, <1>3, <1>4, <1>5, <1>6, <1>7 DEF Next

(* The whole invariant, through every restart and swallowed error.        *)
LEMMA AlwaysInv == Spec => []Inv
<1>1. Init => Inv
  BY InitIsInv
<1>2. Inv /\ [Next]_vars => Inv'
  BY StepKeepsInv
<1>3. QED
  BY <1>1, <1>2, PTL DEF Spec
-----------------------------------------------------------------------------
(* usid.ts handleUSIDTransfer: once the loop has caught up without faults, *)
(* the balance rows are the contract's balances and total_supply is their  *)
(* sum, whatever the transfers were.                                       *)
THEOREM USIDAlwaysIndexed == Spec => []USIDIndexed
<1>1. Inv => USIDIndexed
  <2> SUFFICES ASSUME Inv, FaultFree, CaughtUp
               PROVE  /\ \A a \in Accounts \ {Zero} : Held(rows.balance["USID"][a]) = balances["USID"][a]
                      /\ rows.totalSupply["USID"] = Issued(rows, "USID")
    BY DEF USIDIndexed
  <2>1. toBlock = 0 /\ lastBlock = Len(chain)
    BY DEF CaughtUp, Height
  <2>2. /\ IsChain(chain) /\ Ledger(chain, balances["USID"])
        /\ Loop(chain, lastBlock, toBlock, batch, todo)
    BY DEF Inv, ChainInv, LoopInv
  <2>3. batch = {} /\ todo = <<>> /\ Reached(lastBlock, toBlock) = Len(chain)
    BY <2>1, <2>2 DEF Loop, Reached
  <2> DEFINE D == DoneIn(chain, Len(chain), {})
  <2>4. D \subseteq AllIn(chain) /\ \A p \in AllIn(chain) \ D : ~InUSID(LogIn(chain, p))
    BY DEF DoneIn, AllIn
  <2>5. Money(NetOf(chain, D), rows, <<>>, current)
    BY <2>3 DEF Inv, MoneyInv, Net
  <2> HIDE DEF D
  <2>6. \A s, cond : Owed(s, <<>>, current, cond) = 0
    BY DEF Owed, Has
  <2>7. ASSUME NEW a \in Accounts \ {Zero}
        PROVE  Held(rows.balance["USID"][a]) = balances["USID"][a]
    <3>1. InUSIDRow(rows, a) = NetOf(chain, D)[a] + Owed("Debit", <<>>, current, current.from = a)
                                                  - Owed("Credit", <<>>, current, current.to = a)
      BY <2>5 DEF Money, RowsPaid
    <3>2. InUSIDRow(rows, a) = NetOf(chain, D)[a] + 0 - 0
      BY <2>6, <3>1
    <3>3. NetOf(chain, D)[a] = Inflow(chain, D, a) - Outflow(chain, D, a)
      BY DEF NetOf
    <3>4. /\ Inflow(chain, D, a) = Inflow(chain, AllIn(chain), a)
          /\ Outflow(chain, D, a) = Outflow(chain, AllIn(chain), a)
      BY <2>4, FlowZeros
    <3>5. Inflow(chain, D, a) \in Nat /\ Outflow(chain, D, a) \in Nat
      BY <2>2, <2>4, FlowNat
    <3>6. balances["USID"][a] = Inflow(chain, AllIn(chain), a) - Outflow(chain, AllIn(chain), a)
      BY <2>2 DEF Ledger
    <3>7. QED
      BY <3>2, <3>3, <3>4, <3>5, <3>6 DEF InUSIDRow
  <2>8. rows.totalSupply["USID"] = Issued(rows, "USID")
    <3> DEFINE debit == Owed("Debit", <<>>, current, TRUE)
               credit == Owed("Credit", <<>>, current, TRUE)
               raised == Owed("Supply", <<>>, current, current.from = Zero)
               lowered == Owed("Supply", <<>>, current, current.to = Zero)
    <3>1. rows.totalSupply["USID"] = Issued(rows, "USID") + credit - debit - raised + lowered
      BY <2>5 DEF Money, SupplyPaid
    <3>2. credit = 0 /\ debit = 0 /\ raised = 0 /\ lowered = 0
      BY <2>6
    <3>3. Issued(rows, "USID") \in Nat
      <4>1. RowsNat(rows) /\ Zero \in Accounts
        BY <2>5 DEF Money, Accounts
      <4>2. QED
        BY <4>1, IssuedSet
    <3> HIDE DEF debit, credit, raised, lowered
    <3>4. QED
      BY <3>1, <3>2, <3>3
  <2>9. QED
    BY <2>7, <2>8
<1>2. QED
  BY <1>1, AlwaysInv, PTL

(* getOrCreateUser inserts a row and counts it in two statements: no       *)
(* restart and no swallowed error makes total_users more than the rows,    *)
(* and each loses at most one.                                             *)
THEOREM UsersAreNeverOvercounted == Spec => []UsersNeverOvercounted
<1>1. Inv => UsersNeverOvercounted
  <2> SUFFICES ASSUME Inv, todo = <<>>
               PROVE  /\ rows.totalUsers <= Cardinality(rows.users)
                      /\ Cardinality(rows.users) <= rows.totalUsers + faults
    BY DEF UsersNeverOvercounted
  <2>1. UsersOK(rows, <<>>, faults) /\ rows \in Rows /\ faults \in Nat
    BY DEF Inv, UsersInv, RowsInv, LoopInv
  <2>2. Due("CountUser", <<>>) = 0
    BY NothingListed DEF Due
  <2>3. rows.totalUsers \in Nat /\ Cardinality(rows.users) \in Nat
    BY <2>1, AccountsFinite DEF Rows
  <2>4. QED
    BY <2>1, <2>2, <2>3 DEF UsersOK
<1>2. QED
  BY <1>1, AlwaysInv, PTL

(* token.ts and usid.ts count a holder when a row leaves zero and uncount  *)
(* it when the row returns there: between two logs, without faults, the    *)
(* count is the number of rows that are not zero, for every token that met *)
(* none of the cases the handlers are not made for.                        *)
THEOREM HoldersAlwaysExact == Spec => []HoldersExact
<1>1. Inv => HoldersExact
  <2> SUFFICES ASSUME Inv, FaultFree, todo = <<>>, NEW t \in Tokens \ disturbed
               PROVE  rows.holderCount[t] = Cardinality(Holders(rows, t))
    BY DEF HoldersExact
  <2>1. HoldersOK(rows, <<>>, current, t) /\ rows \in Rows
    BY DEF Inv, HoldersInv, RowsInv
  <2>2. /\ DueIn("CountHolder", <<>>, current, t) = 0
        /\ DueIn("UncountHolder", <<>>, current, t) = 0
    BY NothingListed DEF DueIn
  <2>3. rows.holderCount[t] \in Int
    BY <2>1 DEF Rows
  <2>4. QED
    BY <2>1, <2>2, <2>3 DEF HoldersOK
<1>2. QED
  BY <1>1, AlwaysInv, PTL
-----------------------------------------------------------------------------
(* The subgraph.  Its entities are computed from the logs by recursion,    *)
(* first over blocks and, within one, over its logs.                       *)
(* The states between the logs of a block, and between the first n blocks. *)
LogRun(s, logs, after) ==
  after = [i \in 0 .. Len(logs) |-> IF i = 0 THEN s ELSE sgHandle(after[i - 1], logs[i])]

BlockRun(blocks, n, after) ==
  after = [b \in 0 .. n |->
             IF b = 0 THEN NoEntities ELSE AfterLogs(after[b - 1], Triggers(blocks[b]))]

(* A recursive function has the values its definition says once there is   *)
(* some function that has them.                                            *)
LEMMA LogRunChosen ==
  ASSUME NEW s, NEW logs, NEW g, LogRun(s, logs, g)
  PROVE  \E after : LogRun(s, logs, after) /\ AfterLogs(s, logs) = after[Len(logs)]
<1> DEFINE chosen == CHOOSE after : LogRun(s, logs, after)
<1>1. LogRun(s, logs, chosen)
  <2> HIDE DEF LogRun
  <2> QED OBVIOUS
<1>2. AfterLogs(s, logs) = chosen[Len(logs)]
  BY Zenon DEF AfterLogs, LogRun
<1>3. QED
  BY <1>1, <1>2

(* The logs of a block are handled one after the other.                    *)
LEMMA LogsHandled ==
  ASSUME NEW s, NEW logs, Len(logs) \in 0 .. 4
  PROVE  \E after : /\ after[0] = s
                    /\ \A i \in 1 .. Len(logs) : after[i] = sgHandle(after[i - 1], logs[i])
                    /\ AfterLogs(s, logs) = after[Len(logs)]
<1> DEFINE n == Len(logs)
           s1 == sgHandle(s, logs[1])
           s2 == sgHandle(s1, logs[2])
           s3 == sgHandle(s2, logs[3])
           s4 == sgHandle(s3, logs[4])
           g == [i \in 0 .. n |-> IF i = 0 THEN s ELSE IF i = 1 THEN s1 ELSE IF i = 2 THEN s2
                                   ELSE IF i = 3 THEN s3 ELSE s4]
<1>1. LogRun(s, logs, g)
  <2>1. ASSUME NEW i \in 0 .. n
        PROVE  g[i] = IF i = 0 THEN s ELSE sgHandle(g[i - 1], logs[i])
    OBVIOUS
  <2>2. QED
    BY <2>1, Zenon DEF LogRun, g
<1>2. PICK after : LogRun(s, logs, after) /\ AfterLogs(s, logs) = after[n]
  BY <1>1, LogRunChosen
<1>3. ASSUME NEW i \in 0 .. n
      PROVE  after[i] = IF i = 0 THEN s ELSE sgHandle(after[i - 1], logs[i])
  <2>1. after = [j \in 0 .. n |-> IF j = 0 THEN s ELSE sgHandle(after[j - 1], logs[j])]
    BY <1>2 DEF LogRun
  <2>2. QED
    BY <2>1, Zenon
<1>4. after[0] = s
  BY <1>3
<1>5. \A i \in 1 .. n : after[i] = sgHandle(after[i - 1], logs[i])
  BY <1>3
<1>6. QED
  BY <1>2, <1>4, <1>5

(* There is a run over any number of blocks, and only one.                 *)
LEMMA BlockRunExists ==
  ASSUME NEW blocks, NEW n \in Nat
  PROVE  \E after : BlockRun(blocks, n, after)
<1> DEFINE Without == {m \in 0 .. n : ~ \E after : BlockRun(blocks, m, after)}
<1>1. SUFFICES ASSUME Without # {} PROVE FALSE
  BY n \in 0 .. n
<1>2. IsFiniteSet(Without) /\ Without \in SUBSET Int
  <2>1. IsFiniteSet(0 .. n) /\ Without \subseteq 0 .. n /\ 0 .. n \subseteq Int
    BY FS_Interval, 0 \in Int, n \in Int
  <2> HIDE DEF Without
  <2>2. QED
    BY <2>1, FS_Subset
<1>3. PICK m \in Without : \A k \in Without : m <= k
  BY <1>1, <1>2, HasLeast
<1>4. m # 0
  <2> DEFINE none == [b \in 0 .. 0 |-> NoEntities]
  <2>1. BlockRun(blocks, 0, none)
    <3>1. \A b \in 0 .. 0 : NoEntities = IF b = 0 THEN NoEntities
                              ELSE AfterLogs(none[b - 1], Triggers(blocks[b]))
      OBVIOUS
    <3>2. QED
      BY <3>1, Zenon DEF BlockRun, none
  <2>2. QED
    BY <2>1
<1>5. m - 1 \in 0 .. n /\ m - 1 \notin Without
  BY <1>3, <1>4
<1>6. PICK before : BlockRun(blocks, m - 1, before)
  BY <1>5
<1> DEFINE now == [b \in 0 .. m |->
                     IF b < m THEN before[b] ELSE AfterLogs(before[m - 1], Triggers(blocks[m]))]
<1>7. BlockRun(blocks, m, now)
  <2>1. ASSUME NEW b \in 0 .. m
        PROVE  now[b] = IF b = 0 THEN NoEntities ELSE AfterLogs(now[b - 1], Triggers(blocks[b]))
    <3>1. CASE b < m
      <4>1. b \in 0 .. (m - 1)
        BY <1>3, <3>1
      <4>2. before[b] = IF b = 0 THEN NoEntities ELSE AfterLogs(before[b - 1], Triggers(blocks[b]))
        <5>1. before = [c \in 0 .. (m - 1) |-> IF c = 0 THEN NoEntities
                          ELSE AfterLogs(before[c - 1], Triggers(blocks[c]))]
          BY <1>6 DEF BlockRun
        <5>2. QED
          BY <4>1, <5>1, Zenon
      <4>3. now[b] = before[b] /\ (b # 0 => now[b - 1] = before[b - 1])
        BY <1>3, <3>1, <4>1
      <4>4. QED
        BY <4>2, <4>3
    <3>2. CASE b = m
      <4>1. now[m - 1] = before[m - 1]
        BY <1>3, <1>4
      <4>2. now[m] = AfterLogs(before[m - 1], Triggers(blocks[m]))
        BY <1>3
      <4>3. QED
        BY <1>4, <3>2, <4>1, <4>2
    <3>3. QED
      BY <1>3, <3>1, <3>2
  <2>2. QED
    BY <2>1, Zenon DEF BlockRun, now
<1>8. QED
  BY <1>3, <1>7

LEMMA BlockRunUnique ==
  ASSUME NEW blocks, NEW n \in Nat, NEW f, BlockRun(blocks, n, f), NEW g, BlockRun(blocks, n, g)
  PROVE  \A b \in 0 .. n : f[b] = g[b]
<1> DEFINE Parted == {b \in 0 .. n : f[b] # g[b]}
<1>1. SUFFICES ASSUME Parted # {} PROVE FALSE
  OBVIOUS
<1>2. IsFiniteSet(Parted) /\ Parted \in SUBSET Int
  <2>1. IsFiniteSet(0 .. n) /\ Parted \subseteq 0 .. n /\ 0 .. n \subseteq Int
    BY FS_Interval, 0 \in Int, n \in Int
  <2> HIDE DEF Parted
  <2>2. QED
    BY <2>1, FS_Subset
<1>3. PICK m \in Parted : \A k \in Parted : m <= k
  BY <1>1, <1>2, HasLeast
<1>4. ASSUME NEW h, BlockRun(blocks, n, h)
      PROVE  h[m] = IF m = 0 THEN NoEntities ELSE AfterLogs(h[m - 1], Triggers(blocks[m]))
  <2>1. h = [b \in 0 .. n |-> IF b = 0 THEN NoEntities
                               ELSE AfterLogs(h[b - 1], Triggers(blocks[b]))]
    BY <1>4 DEF BlockRun
  <2>2. m \in 0 .. n
    OBVIOUS
  <2>3. QED
    BY <2>1, <2>2, Zenon
<1>5. m = 0 \/ f[m - 1] = g[m - 1]
  <2>1. m # 0 => m - 1 \in 0 .. n /\ m - 1 \notin Parted
    BY <1>3
  <2>2. QED
    BY <2>1
<1>6. f[m] = g[m]
  BY <1>4, <1>5
<1>7. QED
  BY <1>6

(* Entities before any block, and after one more.                          *)
LEMMA EntitiesGrow ==
  /\ EntitiesAfter(<<>>) = NoEntities
  /\ \A S : \A c \in Seq(S), logs \in S :
       EntitiesAfter(Append(c, logs)) = AfterLogs(EntitiesAfter(c), Triggers(logs))
<1>1. ASSUME NEW blocks, Len(blocks) \in Nat
      PROVE  \E after : BlockRun(blocks, Len(blocks), after) /\ EntitiesAfter(blocks) = after[Len(blocks)]
  <2> DEFINE chosen == CHOOSE after : BlockRun(blocks, Len(blocks), after)
  <2>1. BlockRun(blocks, Len(blocks), chosen)
    <3>1. \E after : BlockRun(blocks, Len(blocks), after)
      BY <1>1, BlockRunExists
    <3> HIDE DEF BlockRun
    <3>2. QED
      BY <3>1
  <2>2. EntitiesAfter(blocks) = chosen[Len(blocks)]
    BY Zenon DEF EntitiesAfter, BlockRun
  <2>3. QED
    BY <2>1, <2>2
<1>2. EntitiesAfter(<<>>) = NoEntities
  <2>1. Len(<<>>) = 0
    OBVIOUS
  <2>2. PICK after : BlockRun(<<>>, 0, after) /\ EntitiesAfter(<<>>) = after[0]
    BY <1>1, <2>1
  <2>3. after[0] = NoEntities
    BY <2>2, 0 \in 0 .. 0 DEF BlockRun
  <2>4. QED
    BY <2>2, <2>3
<1>3. ASSUME NEW S, NEW c \in Seq(S), NEW logs \in S
      PROVE  EntitiesAfter(Append(c, logs)) = AfterLogs(EntitiesAfter(c), Triggers(logs))
  <2> DEFINE n == Len(c)
             d == Append(c, logs)
  <2>1. n \in Nat /\ Len(d) = n + 1 /\ d[n + 1] = logs /\ \A b \in 1 .. n : d[b] = c[b]
    BY <1>3
  <2> HIDE DEF n, d
  <2>2. PICK f : BlockRun(c, n, f) /\ EntitiesAfter(c) = f[n]
    BY <1>1, <2>1 DEF n
  <2>3. PICK g : BlockRun(d, n + 1, g) /\ EntitiesAfter(d) = g[n + 1]
    BY <1>1, <2>1
  <2>4. ASSUME NEW b \in 0 .. (n + 1)
        PROVE  g[b] = IF b = 0 THEN NoEntities ELSE AfterLogs(g[b - 1], Triggers(d[b]))
    <3>1. g = [k \in 0 .. (n + 1) |-> IF k = 0 THEN NoEntities
                                       ELSE AfterLogs(g[k - 1], Triggers(d[k]))]
      BY <2>3 DEF BlockRun
    <3>2. QED
      BY <3>1, Zenon
  <2> DEFINE h == [b \in 0 .. n |-> g[b]]
  <2>5. BlockRun(c, n, h)
    <3>1. ASSUME NEW b \in 0 .. n
          PROVE  h[b] = IF b = 0 THEN NoEntities ELSE AfterLogs(h[b - 1], Triggers(c[b]))
      <4>1. b \in 0 .. (n + 1)
        BY <2>1
      <4>2. h[b] = IF b = 0 THEN NoEntities ELSE AfterLogs(g[b - 1], Triggers(d[b]))
        BY <2>4, <4>1
      <4>3. b # 0 => h[b - 1] = g[b - 1] /\ d[b] = c[b]
        BY <2>1
      <4>4. QED
        BY <4>2, <4>3
    <3>2. QED
      BY <3>1, Zenon DEF BlockRun, h
  <2>6. h[n] = f[n]
    <3> HIDE DEF h
    <3> QED BY <2>1, <2>2, <2>5, BlockRunUnique
  <2>7. g[n] = f[n]
    BY <2>1, <2>6
  <2>8. g[n + 1] = AfterLogs(g[n], Triggers(d[n + 1]))
    <3>1. n + 1 \in 0 .. (n + 1) /\ n + 1 # 0 /\ (n + 1) - 1 = n
      BY <2>1
    <3>2. QED
      BY <2>4, <3>1
  <2>9. EntitiesAfter(d) = AfterLogs(EntitiesAfter(c), Triggers(logs))
    BY <2>1, <2>2, <2>3, <2>7, <2>8
  <2>10. QED
    BY <2>9 DEF d
<1>4. QED
  BY <1>2, <1>3

-----------------------------------------------------------------------------
(* The subgraph's entities. *)
Books ==
  [users : SUBSET Accounts, totalUsers : Int, tokens : SUBSET Tokens, markets : Int,
   balance : [Tokens -> [Accounts -> Nat \union {NoRow}]],
   holderCount : [Tokens -> Int], transferCount : [Tokens -> Int],
   totalSupply : [Tokens -> Int], marketHolders : Int]

NoneOfZero(s) == \A t \in Tokens : s.balance[t][Zero] = NoRow

(* Only users and counts differ. *)
SameMoney(s, q) ==
  /\ q.balance = s.balance
  /\ q.totalSupply["USID"] = s.totalSupply["USID"]
  /\ q.tokens = s.tokens

(* Only the row of an account in a token differs, by an amount.            *)
RowChanges(s, q, t, a, change) ==
  /\ q.totalSupply = s.totalSupply /\ q.tokens = s.tokens
  /\ \A t2 \in Tokens, b \in Accounts :
       t2 # t \/ b # a => q.balance[t2][b] = s.balance[t2][b]
  /\ Held(q.balance[t][a]) = Held(s.balance[t][a]) + change

LEMMA HeldType ==
  /\ \A row \in Nat \union {NoRow} : Held(row) \in Nat
  /\ \A row \in Nat : Held(row) = row /\ row # NoRow
  /\ Held(NoRow) = 0
BY AccountsAssumption DEF Held

LEMMA UserBooked ==
  ASSUME NEW s \in Books, NEW user \in Accounts
  PROVE  /\ getOrCreateUser(s, user) \in Books
         /\ SameMoney(s, getOrCreateUser(s, user))
         /\ getOrCreateUser(s, user).totalSupply = s.totalSupply
<1> DEFINE q == [s EXCEPT !.users = @ \union {user}, !.totalUsers = @ + 1]
<1>1. q \in Books
  <2>1. s.users \union {user} \in SUBSET Accounts /\ s.totalUsers + 1 \in Int
    BY DEF Books
  <2>2. \A users \in SUBSET Accounts, n \in Int : [s EXCEPT !.users = users, !.totalUsers = n] \in Books
    BY DEF Books
  <2>3. q = [s EXCEPT !.users = s.users \union {user}, !.totalUsers = s.totalUsers + 1]
    OBVIOUS
  <2>4. QED
    BY <2>1, <2>2, <2>3
<1>2. q.balance = s.balance /\ q.totalSupply = s.totalSupply /\ q.tokens = s.tokens
  BY DEF Books
<1>3. getOrCreateUser(s, user) \in {s, q}
  BY DEF getOrCreateUser
<1> HIDE DEF q
<1>4. QED
  BY <1>1, <1>2, <1>3 DEF SameMoney

LEMMA MarketBooked ==
  ASSUME NEW s \in Books, NEW creator \in Accounts
  PROVE  /\ sgMarketCreated(s, creator) \in Books
         /\ sgMarketCreated(s, creator).balance = s.balance
         /\ sgMarketCreated(s, creator).totalSupply["USID"] = s.totalSupply["USID"]
         /\ sgMarketCreated(s, creator).tokens = s.tokens \union {"TKN"}
<1> DEFINE u == getOrCreateUser(s, creator)
           q == [u EXCEPT !.tokens = @ \union {"TKN"}, !.totalSupply["TKN"] = Supply,
                          !.markets = @ + 1, !.marketHolders = 1, !.totalUsers = s.totalUsers]
<1>1. u \in Books /\ u.balance = s.balance /\ u.totalSupply = s.totalSupply /\ u.tokens = s.tokens
  BY UserBooked DEF SameMoney
<1>2. sgMarketCreated(s, creator) = q
  BY DEF sgMarketCreated
<1>3. s.totalUsers \in Int /\ Supply \in Int
  BY TokensAssumption DEF Books
<1> HIDE DEF u
<1>4. q \in Books
  <2> DEFINE supply == [u.totalSupply EXCEPT !["TKN"] = Supply]
  <2>1. supply \in [Tokens -> Int] /\ u.tokens \union {"TKN"} \in SUBSET Tokens /\ u.markets + 1 \in Int
    BY <1>1, <1>3 DEF Books, Tokens
  <2>2. q = [u EXCEPT !.tokens = u.tokens \union {"TKN"}, !.totalSupply = supply,
                      !.markets = u.markets + 1, !.marketHolders = 1, !.totalUsers = s.totalUsers]
    BY <1>1 DEF Books
  <2> HIDE DEF supply
  <2>3. \A tokens \in SUBSET Tokens, n, m, k \in Int :
          [u EXCEPT !.tokens = tokens, !.totalSupply = supply, !.markets = n,
                    !.marketHolders = m, !.totalUsers = k] \in Books
    <3> TAKE tokens \in SUBSET Tokens, n, m, k \in Int
    <3> DEFINE v == [u EXCEPT !.tokens = tokens, !.totalSupply = supply]
    <3>1. v \in Books
      BY <1>1, <2>1 DEF Books
    <3>2. [u EXCEPT !.tokens = tokens, !.totalSupply = supply, !.markets = n,
                    !.marketHolders = m, !.totalUsers = k]
            = [v EXCEPT !.markets = n, !.marketHolders = m, !.totalUsers = k]
      BY <1>1 DEF Books
    <3> HIDE DEF v
    <3>3. [v EXCEPT !.markets = n, !.marketHolders = m, !.totalUsers = k] \in Books
      BY <3>1 DEF Books
    <3>4. QED
      BY <3>2, <3>3
  <2>4. s.totalUsers \in Int /\ 1 \in Int
    BY <1>3
  <2> HIDE DEF q
  <2>5. QED
    BY <2>1, <2>2, <2>3, <2>4
<1>5. /\ q.balance = u.balance
      /\ q.totalSupply["USID"] = u.totalSupply["USID"]
      /\ q.tokens = u.tokens \union {"TKN"}
  BY <1>1 DEF Books, Tokens
<1>6. QED
  BY <1>1, <1>2, <1>4, <1>5

LEMMA DebitBooked ==
  ASSUME NEW s \in Books, NEW t \in Tokens, NEW a \in Accounts, NEW value \in Nat,
         Held(s.balance[t][a]) >= value
  PROVE  Debit(s, t, a, value) \in Books /\ RowChanges(s, Debit(s, t, a, value), t, a, -value)
<1> DEFINE u == getOrCreateUser(s, a)
           left == u.balance[t][a] - value
           q == [u EXCEPT !.balance[t][a] = left,
                          !.holderCount[t] = IF left = 0 THEN @ - 1 ELSE @]
<1>1. u \in Books /\ u.balance = s.balance /\ u.totalSupply = s.totalSupply /\ u.tokens = s.tokens
  BY UserBooked DEF SameMoney
<1>2. Debit(s, t, a, value) = IF s.balance[t][a] = NoRow THEN u ELSE q
  BY <1>1 DEF Debit
<1> HIDE DEF u
<1>3. CASE s.balance[t][a] = NoRow
  <2>1. value = 0 /\ Held(s.balance[t][a]) = 0
    BY <1>3, HeldType
  <2>2. QED
    BY <1>1, <1>2, <1>3, <2>1 DEF RowChanges
<1>4. CASE s.balance[t][a] # NoRow
  <2>1. s.balance[t][a] \in Nat /\ left = s.balance[t][a] - value /\ left \in Nat
    <3>1. s.balance[t][a] \in Nat
      BY <1>4 DEF Books
    <3>2. QED
      BY <1>1, <3>1, HeldType
  <2> HIDE DEF left
  <2>2. q \in Books
    <3> DEFINE rows2 == [u.balance EXCEPT ![t][a] = left]
               count == [u.holderCount EXCEPT ![t] = IF left = 0 THEN @ - 1 ELSE @]
    <3>1. rows2 \in [Tokens -> [Accounts -> Nat \union {NoRow}]] /\ count \in [Tokens -> Int]
      BY <1>1, <2>1 DEF Books
    <3>2. q = [u EXCEPT !.balance = rows2, !.holderCount = count]
      BY <1>1 DEF Books
    <3> HIDE DEF rows2, count
    <3>3. [u EXCEPT !.balance = rows2, !.holderCount = count] \in Books
      BY <1>1, <3>1 DEF Books
    <3>4. QED
      BY <3>2, <3>3
  <2>3. /\ q.totalSupply = u.totalSupply /\ q.tokens = u.tokens
        /\ q.balance = [u.balance EXCEPT ![t][a] = left]
    BY <1>1 DEF Books
  <2>4. s.balance \in [Tokens -> [Accounts -> Nat \union {NoRow}]]
    BY DEF Books
  <2>5. /\ \A t2 \in Tokens, b \in Accounts : t2 # t \/ b # a => q.balance[t2][b] = s.balance[t2][b]
        /\ q.balance[t][a] = left
    BY <1>1, <2>3, <2>4
  <2>6. Held(q.balance[t][a]) = Held(s.balance[t][a]) + (-value)
    BY <2>1, <2>5, HeldType
  <2>7. QED
    BY <1>1, <1>2, <1>4, <2>2, <2>3, <2>5, <2>6 DEF RowChanges
<1>5. QED
  BY <1>3, <1>4

LEMMA CreditBooked ==
  ASSUME NEW s \in Books, NEW t \in Tokens, NEW a \in Accounts, NEW value \in Nat
  PROVE  Credit(s, t, a, value) \in Books /\ RowChanges(s, Credit(s, t, a, value), t, a, value)
<1> DEFINE u == getOrCreateUser(s, a)
           new == u.balance[t][a] = NoRow
           row == IF new THEN value ELSE u.balance[t][a] + value
           q == [u EXCEPT !.balance[t][a] = row,
                          !.holderCount[t] = IF new THEN @ + 1 ELSE @]
<1>1. u \in Books /\ u.balance = s.balance /\ u.totalSupply = s.totalSupply /\ u.tokens = s.tokens
  BY UserBooked DEF SameMoney
<1>2. Credit(s, t, a, value) = q
  <2>1. [u EXCEPT !.balance[t][a] = IF new THEN value ELSE @ + value,
                  !.holderCount[t] = IF new THEN @ + 1 ELSE @] = q
    BY <1>1
  <2>2. QED
    BY <2>1 DEF Credit
<1> HIDE DEF u
<1>3. s.balance \in [Tokens -> [Accounts -> Nat \union {NoRow}]]
  BY DEF Books
<1>4. row \in Nat /\ Held(row) = Held(s.balance[t][a]) + value
  <2>1. CASE new
    BY <1>1, <2>1, HeldType
  <2>2. CASE ~new
    <3>1. s.balance[t][a] \in Nat
      BY <1>1, <1>3, <2>2
    <3>2. row = s.balance[t][a] + value /\ row \in Nat
      BY <1>1, <2>2, <3>1
    <3>3. QED
      BY <3>1, <3>2, HeldType
  <2>3. QED
    BY <2>1, <2>2
<1>5. q \in Books
  <2> DEFINE rows2 == [u.balance EXCEPT ![t][a] = row]
             count == [u.holderCount EXCEPT ![t] = IF new THEN @ + 1 ELSE @]
  <2>0. new \in BOOLEAN
    OBVIOUS
  <2> HIDE DEF row, new
  <2>1. rows2 \in [Tokens -> [Accounts -> Nat \union {NoRow}]] /\ count \in [Tokens -> Int]
    BY <1>1, <1>4, <2>0 DEF Books
  <2>2. q = [u EXCEPT !.balance = rows2, !.holderCount = count]
    BY <1>1 DEF Books
  <2> HIDE DEF rows2, count
  <2>3. [u EXCEPT !.balance = rows2, !.holderCount = count] \in Books
    BY <1>1, <2>1 DEF Books
  <2>4. QED
    BY <2>2, <2>3
<1>6. /\ q.totalSupply = u.totalSupply /\ q.tokens = u.tokens
      /\ q.balance = [u.balance EXCEPT ![t][a] = row]
  <2> HIDE DEF row, new
  <2> QED BY <1>1 DEF Books
<1> HIDE DEF row
<1>7. /\ \A t2 \in Tokens, b \in Accounts : t2 # t \/ b # a => q.balance[t2][b] = s.balance[t2][b]
      /\ q.balance[t][a] = row
  BY <1>1, <1>3, <1>6
<1>8. QED
  BY <1>1, <1>2, <1>4, <1>5, <1>6, <1>7 DEF RowChanges

-----------------------------------------------------------------------------
(* A Transfer moves as much between the rows as between the accounts.      *)
LEMMA IssuedChange ==
  ASSUME NEW s \in Books, NEW q \in Books, NoneOfZero(s), NEW t \in Tokens,
         NEW a \in Accounts \ {Zero}, NEW change \in Int, RowChanges(s, q, t, a, change)
  PROVE  /\ NoneOfZero(q)
         /\ Issued(s, "USID") \in Nat
         /\ Issued(q, "USID") = Issued(s, "USID") + (IF t = "USID" THEN change ELSE 0)
<1>1. NoneOfZero(q)
  BY DEF NoneOfZero, RowChanges, Accounts
<1>2. "USID" \in Tokens
  BY DEF Tokens
<1>3. RowsNat(s) /\ RowsNat(q)
  BY <1>1, <1>2 DEF RowsNat, Books, NoneOfZero
<1>4. \A b \in Accounts \ {a} : q.balance["USID"][b] = s.balance["USID"][b]
  BY <1>2 DEF RowChanges
<1>5. /\ Issued(s, "USID") \in Nat /\ InUSIDRow(s, a) \in Nat /\ InUSIDRow(q, a) \in Nat
      /\ Issued(q, "USID") = Issued(s, "USID") - InUSIDRow(s, a) + InUSIDRow(q, a)
  BY <1>3, <1>4, IssuedSet
<1>6. InUSIDRow(q, a) = InUSIDRow(s, a) + (IF t = "USID" THEN change ELSE 0)
  <2>1. CASE t = "USID"
    BY <2>1 DEF RowChanges, InUSIDRow
  <2>2. CASE t # "USID"
    <3>1. q.balance["USID"][a] = s.balance["USID"][a]
      BY <1>2, <2>2 DEF RowChanges
    <3>2. QED
      BY <1>5, <2>2, <3>1 DEF InUSIDRow
  <2>3. QED
    BY <2>1, <2>2
<1>7. QED
  BY <1>1, <1>5, <1>6

(* What a Transfer log brings to an account and takes from it.             *)
Brought(log, a) == IF log.to = a THEN log.value ELSE 0
TakenFrom(log, a) == IF log.from = a THEN log.value ELSE 0

(* Rows change by what the log moves, and by nothing else.                 *)
RowsMove(s, q, log) ==
  \A t \in Tokens, a \in Accounts \ {Zero} :
    Held(q.balance[t][a]) =
      Held(s.balance[t][a]) + (IF t = log.token THEN Brought(log, a) - TakenFrom(log, a) ELSE 0)

(* What a log takes out of circulation; less than 0 for a mint.             *)
Burnt(log) == Brought(log, Zero) - TakenFrom(log, Zero)

LEMMA RowsHeld ==
  ASSUME NEW s \in Books, NEW t \in Tokens, NEW a \in Accounts
  PROVE  Held(s.balance[t][a]) \in Nat
BY HeldType DEF Books

LEMMA MovedBooked ==
  ASSUME NEW s \in Books, NoneOfZero(s), NEW log \in Log,
         log.from # Zero => Held(s.balance[log.token][log.from]) >= log.value
  PROVE  LET q == Moved(s, log)
         IN /\ q \in Books /\ NoneOfZero(q)
            /\ q.totalSupply = s.totalSupply /\ q.tokens = s.tokens
            /\ RowsMove(s, q, log)
            /\ Issued(s, "USID") \in Nat
            /\ Issued(q, "USID") = Issued(s, "USID") + (IF log.token = "USID" THEN -Burnt(log) ELSE 0)
<1> DEFINE t == log.token
           d == IF log.from = Zero THEN s ELSE Debit(s, t, log.from, log.value)
           q == IF log.to = Zero THEN d ELSE Credit(d, t, log.to, log.value)
<1>0. /\ t \in Tokens /\ log.from \in Accounts /\ log.to \in Accounts
      /\ log.value \in Nat /\ log.value \in Int /\ -log.value \in Int /\ Zero \in Accounts
      /\ log.token = t
  BY DEF Log, Accounts
<1>1. Moved(s, log) = q
  BY DEF Moved
<1>2. Issued(s, "USID") \in Nat
  <2>1. RowsNat(s) /\ Zero \in Accounts
    BY <1>0 DEF RowsNat, Books, NoneOfZero, Tokens
  <2>2. QED
    BY <2>1, IssuedSet
<1> HIDE DEF t
<1>3. /\ d \in Books /\ NoneOfZero(d)
      /\ d.totalSupply = s.totalSupply /\ d.tokens = s.tokens
      /\ \A t2 \in Tokens, a \in Accounts \ {Zero} :
           Held(d.balance[t2][a]) = Held(s.balance[t2][a]) - (IF t2 = t THEN TakenFrom(log, a) ELSE 0)
      /\ Issued(d, "USID") = Issued(s, "USID")
           - (IF t = "USID" /\ log.from # Zero THEN log.value ELSE 0)
  <2>1. CASE log.from = Zero
    <3>1. d = s
      BY <2>1
    <3>2. ASSUME NEW t2 \in Tokens, NEW a \in Accounts \ {Zero}
          PROVE  Held(s.balance[t2][a]) = Held(s.balance[t2][a]) - (IF t2 = t THEN TakenFrom(log, a) ELSE 0)
      BY <1>0, <2>1, RowsHeld DEF TakenFrom
    <3> HIDE DEF d
    <3>3. QED
      BY <1>2, <2>1, <3>1, <3>2
  <2>2. CASE log.from # Zero
    <3>1. d = Debit(s, t, log.from, log.value)
      BY <2>2
    <3> HIDE DEF d
    <3>2. d \in Books /\ RowChanges(s, d, t, log.from, -log.value)
      BY <1>0, <2>2, <3>1, DebitBooked
    <3>3. /\ NoneOfZero(d)
          /\ Issued(d, "USID") = Issued(s, "USID") + (IF t = "USID" THEN -log.value ELSE 0)
      BY <1>0, <2>2, <3>2, IssuedChange
    <3>4. ASSUME NEW t2 \in Tokens, NEW a \in Accounts \ {Zero}
          PROVE  Held(d.balance[t2][a]) = Held(s.balance[t2][a]) - (IF t2 = t THEN TakenFrom(log, a) ELSE 0)
      <4>1. CASE t2 = t /\ a = log.from
        BY <1>0, <3>2, <4>1, RowsHeld DEF RowChanges, TakenFrom
      <4>2. CASE ~(t2 = t /\ a = log.from)
        <5>1. d.balance[t2][a] = s.balance[t2][a]
          BY <3>2, <4>2 DEF RowChanges
        <5>2. QED
          BY <4>2, <5>1, RowsHeld DEF TakenFrom
      <4>3. QED
        BY <4>1, <4>2
    <3>5. QED
      BY <1>0, <1>2, <2>2, <3>2, <3>3, <3>4 DEF RowChanges
  <2>3. QED
    BY <2>1, <2>2
<1> HIDE DEF d
<1>4. /\ q \in Books /\ NoneOfZero(q)
      /\ q.totalSupply = d.totalSupply /\ q.tokens = d.tokens
      /\ \A t2 \in Tokens, a \in Accounts \ {Zero} :
           Held(q.balance[t2][a]) = Held(d.balance[t2][a]) + (IF t2 = t THEN Brought(log, a) ELSE 0)
      /\ Issued(d, "USID") \in Nat
      /\ Issued(q, "USID") = Issued(d, "USID")
           + (IF t = "USID" /\ log.to # Zero THEN log.value ELSE 0)
  <2>0. Issued(d, "USID") \in Nat
    <3>1. RowsNat(d)
      BY <1>0, <1>3 DEF RowsNat, Books, NoneOfZero, Tokens
    <3>2. QED
      BY <1>0, <3>1, IssuedSet
  <2>1. CASE log.to = Zero
    <3>1. q = d
      BY <2>1
    <3>2. ASSUME NEW t2 \in Tokens, NEW a \in Accounts \ {Zero}
          PROVE  Held(d.balance[t2][a]) = Held(d.balance[t2][a]) + (IF t2 = t THEN Brought(log, a) ELSE 0)
      BY <1>0, <1>3, <2>1, RowsHeld DEF Brought
    <3> HIDE DEF q
    <3>3. QED
      BY <1>3, <2>0, <2>1, <3>1, <3>2
  <2>2. CASE log.to # Zero
    <3>1. q = Credit(d, t, log.to, log.value)
      BY <2>2
    <3> HIDE DEF q
    <3>2. q \in Books /\ RowChanges(d, q, t, log.to, log.value)
      BY <1>0, <1>3, <2>2, <3>1, CreditBooked
    <3>3. /\ NoneOfZero(q)
          /\ Issued(q, "USID") = Issued(d, "USID") + (IF t = "USID" THEN log.value ELSE 0)
      BY <1>0, <1>3, <2>2, <3>2, IssuedChange
    <3>4. ASSUME NEW t2 \in Tokens, NEW a \in Accounts \ {Zero}
          PROVE  Held(q.balance[t2][a]) = Held(d.balance[t2][a]) + (IF t2 = t THEN Brought(log, a) ELSE 0)
      <4>1. CASE t2 = t /\ a = log.to
        BY <1>0, <1>3, <3>2, <4>1, RowsHeld DEF RowChanges, Brought
      <4>2. CASE ~(t2 = t /\ a = log.to)
        <5>1. q.balance[t2][a] = d.balance[t2][a]
          BY <3>2, <4>2 DEF RowChanges
        <5>2. QED
          BY <1>3, <4>2, <5>1, RowsHeld DEF Brought
      <4>3. QED
        BY <4>1, <4>2
    <3>5. QED
      BY <1>0, <2>0, <2>2, <3>2, <3>3, <3>4 DEF RowChanges
  <2>3. QED
    BY <2>1, <2>2
<1> HIDE DEF q
<1>5. RowsMove(s, q, log)
  <2>1. ASSUME NEW t2 \in Tokens, NEW a \in Accounts \ {Zero}
        PROVE  Held(q.balance[t2][a]) =
                 Held(s.balance[t2][a]) + (IF t2 = t THEN Brought(log, a) - TakenFrom(log, a) ELSE 0)
    <3>1. /\ Held(s.balance[t2][a]) \in Nat /\ Held(d.balance[t2][a]) \in Nat
          /\ Brought(log, a) \in Nat /\ TakenFrom(log, a) \in Nat
      BY <1>0, <1>3, RowsHeld DEF Brought, TakenFrom
    <3>2. QED
      BY <1>3, <1>4, <3>1
  <2>2. QED
    BY <1>0, <2>1 DEF RowsMove
<1>6. Issued(q, "USID") = Issued(s, "USID") + (IF t = "USID" THEN -Burnt(log) ELSE 0)
  <2>1. Burnt(log) = (IF log.to = Zero THEN log.value ELSE 0) - (IF log.from = Zero THEN log.value ELSE 0)
    BY DEF Burnt, Brought, TakenFrom
  <2>2. QED
    BY <1>0, <1>2, <1>3, <1>4, <2>1
<1>7. QED
  BY <1>0, <1>1, <1>2, <1>3, <1>4, <1>5, <1>6

-----------------------------------------------------------------------------
(* Entities that show the balances bal, of a chain on which the market has *)
(* been reported, if made.                                                 *)
BooksOK(s, bal, made) ==
  /\ s \in Books /\ NoneOfZero(s)
  /\ s.totalSupply["USID"] = Issued(s, "USID")
  /\ \A t \in Tokens, a \in Accounts \ {Zero} : Held(s.balance[t][a]) = bal[t][a]
  /\ made \in BOOLEAN /\ (made <=> "TKN" \in s.tokens)

BalancesMove(bal, bal2, log) ==
  \A t \in Tokens, a \in Accounts \ {Zero} :
    bal2[t][a] = bal[t][a] + (IF t = log.token THEN Brought(log, a) - TakenFrom(log, a) ELSE 0)

(* A log that can come next.                                               *)
CanMove(bal, made, log) ==
  /\ log \in Log /\ log.kind = "Transfer"
  /\ log.from # Zero => bal[log.token][log.from] >= log.value
  /\ log.token = "TKN" /\ ~made => log.value = 0

(* The two Transfer handlers. *)
LEMMA USIDBooked ==
  ASSUME NEW s, NEW bal, NEW bal2, NEW made, BooksOK(s, bal, made), NEW log,
         CanMove(bal, made, log), BalancesMove(bal, bal2, log), log.token = "USID"
  PROVE  BooksOK(handleUSIDTransfer(s, log), bal2, made)
<1> DEFINE supply == s.totalSupply["USID"] + (IF log.from = Zero THEN log.value ELSE 0)
                                           - (IF log.to = Zero THEN log.value ELSE 0)
           s1 == [s EXCEPT !.tokens = @ \union {"USID"}, !.transferCount["USID"] = @ + 1,
                           !.totalSupply["USID"] = supply]
           q == Moved(s1, log)
<1>0. /\ s \in Books /\ NoneOfZero(s) /\ log \in Log /\ log.kind = "Transfer"
      /\ log.value \in Nat /\ log.from \in Accounts /\ "USID" \in Tokens
      /\ s.totalSupply["USID"] \in Int
      /\ made \in BOOLEAN /\ (made <=> "TKN" \in s.tokens)
  BY DEF BooksOK, CanMove, Log, Tokens, Books
<1>1. handleUSIDTransfer(s, log) = q
  BY DEF handleUSIDTransfer
<1>2. supply \in Int
  BY <1>0
<1>3. s1 \in Books /\ s1.balance = s.balance /\ s1.tokens = s.tokens \union {"USID"}
      /\ s1.totalSupply["USID"] = supply
  <2> DEFINE counts == [s.transferCount EXCEPT !["USID"] = @ + 1]
             supplies == [s.totalSupply EXCEPT !["USID"] = supply]
  <2>1. counts \in [Tokens -> Int] /\ supplies \in [Tokens -> Int] /\ supplies["USID"] = supply
    <3> HIDE DEF supply
    <3> QED BY <1>0, <1>2 DEF Books
  <2>2. s1 = [s EXCEPT !.tokens = s.tokens \union {"USID"}, !.transferCount = counts,
                       !.totalSupply = supplies]
    <3> HIDE DEF supply
    <3> QED BY <1>0 DEF Books
  <2>3. s.tokens \union {"USID"} \in SUBSET Tokens
    BY <1>0 DEF Books
  <2> HIDE DEF counts, supplies, s1
  <2>4. \A tokens \in SUBSET Tokens :
          LET r == [s EXCEPT !.tokens = tokens, !.transferCount = counts, !.totalSupply = supplies]
          IN r \in Books /\ r.balance = s.balance /\ r.tokens = tokens /\ r.totalSupply = supplies
    BY <1>0, <2>1 DEF Books
  <2>5. QED
    BY <2>1, <2>2, <2>3, <2>4
<1> HIDE DEF s1
<1>4. NoneOfZero(s1) /\ Issued(s1, "USID") = Issued(s, "USID")
  BY <1>0, <1>3 DEF NoneOfZero, Issued
<1>5. log.from # Zero => Held(s1.balance[log.token][log.from]) >= log.value
  BY <1>0, <1>3 DEF BooksOK, CanMove
<1>6. /\ q \in Books /\ NoneOfZero(q)
      /\ q.totalSupply = s1.totalSupply /\ q.tokens = s1.tokens
      /\ RowsMove(s1, q, log)
      /\ Issued(s1, "USID") \in Nat
      /\ Issued(q, "USID") = Issued(s1, "USID") - Burnt(log)
  <2>1. Burnt(log) \in Int
    BY <1>0 DEF Burnt, Brought, TakenFrom
  <2> HIDE DEF q
  <2>2. /\ q \in Books /\ NoneOfZero(q)
        /\ q.totalSupply = s1.totalSupply /\ q.tokens = s1.tokens
        /\ RowsMove(s1, q, log)
        /\ Issued(s1, "USID") \in Nat
        /\ Issued(q, "USID") = Issued(s1, "USID") + (IF log.token = "USID" THEN -Burnt(log) ELSE 0)
    BY <1>0, <1>3, <1>4, <1>5, MovedBooked DEF q
  <2>3. QED
    BY <2>1, <2>2
<1> HIDE DEF q
<1>7. q.totalSupply["USID"] = Issued(q, "USID")
  <2>1. s.totalSupply["USID"] = Issued(s, "USID")
    BY DEF BooksOK
  <2>2. Burnt(log) = (IF log.to = Zero THEN log.value ELSE 0) - (IF log.from = Zero THEN log.value ELSE 0)
    BY DEF Burnt, Brought, TakenFrom
  <2>3. QED
    BY <1>0, <1>3, <1>4, <1>6, <2>1, <2>2
<1>8. ASSUME NEW t \in Tokens, NEW a \in Accounts \ {Zero}
      PROVE  Held(q.balance[t][a]) = bal2[t][a]
  <2>1. Held(s1.balance[t][a]) = bal[t][a]
    BY <1>3 DEF BooksOK
  <2>2. QED
    BY <1>6, <2>1 DEF RowsMove, BalancesMove
<1>9. QED
  BY <1>0, <1>1, <1>3, <1>6, <1>7, <1>8 DEF BooksOK

LEMMA TokenBooked ==
  ASSUME NEW s, NEW bal, NEW bal2, NEW made, BooksOK(s, bal, made), NEW log,
         CanMove(bal, made, log), BalancesMove(bal, bal2, log), log.token = "TKN"
  PROVE  BooksOK(handleTokenTransfer(s, log), bal2, made)
<1>0. /\ s \in Books /\ NoneOfZero(s) /\ log \in Log /\ log.kind = "Transfer"
      /\ log.value \in Nat /\ log.from \in Accounts /\ "TKN" \in Tokens
      /\ made \in BOOLEAN /\ (made <=> "TKN" \in s.tokens)
      /\ s.totalSupply["USID"] = Issued(s, "USID")
      /\ \A t \in Tokens, a \in Accounts \ {Zero} : Held(s.balance[t][a]) = bal[t][a]
  BY DEF BooksOK, CanMove, Log, Tokens
<1>1. CASE ~made
  <2>1. handleTokenTransfer(s, log) = s
    BY <1>0, <1>1 DEF handleTokenTransfer
  <2>2. log.value = 0
    BY <1>1 DEF CanMove
  <2>3. ASSUME NEW t \in Tokens, NEW a \in Accounts \ {Zero}
        PROVE  Held(s.balance[t][a]) = bal2[t][a]
    <3>1. bal[t][a] \in Nat
      BY <1>0, RowsHeld
    <3>2. QED
      BY <1>0, <2>2, <3>1 DEF BalancesMove, Brought, TakenFrom
  <2>4. QED
    BY <1>0, <2>1, <2>3 DEF BooksOK
<1>2. CASE made
  <2> DEFINE s1 == [s EXCEPT !.transferCount["TKN"] = @ + 1]
             q == Moved(s1, log)
             r == [q EXCEPT !.marketHolders = q.holderCount["TKN"]]
  <2>1. handleTokenTransfer(s, log) = r
    BY <1>0, <1>2 DEF handleTokenTransfer
  <2>2. /\ s1 \in Books /\ s1.balance = s.balance /\ s1.tokens = s.tokens
        /\ s1.totalSupply = s.totalSupply
    <3> DEFINE counts == [s.transferCount EXCEPT !["TKN"] = @ + 1]
    <3>1. counts \in [Tokens -> Int] /\ s1 = [s EXCEPT !.transferCount = counts]
      BY <1>0 DEF Books
    <3> HIDE DEF counts, s1
    <3>2. QED
      BY <1>0, <3>1 DEF Books
  <2> HIDE DEF s1
  <2>3. NoneOfZero(s1) /\ Issued(s1, "USID") = Issued(s, "USID")
    BY <1>0, <2>2 DEF NoneOfZero, Issued
  <2>4. log.from # Zero => Held(s1.balance[log.token][log.from]) >= log.value
    BY <1>0, <2>2 DEF CanMove
  <2>5. /\ q \in Books /\ NoneOfZero(q)
        /\ q.totalSupply = s1.totalSupply /\ q.tokens = s1.tokens
        /\ RowsMove(s1, q, log)
        /\ Issued(q, "USID") = Issued(s1, "USID")
    <3> HIDE DEF q
    <3>1. /\ q \in Books /\ NoneOfZero(q)
          /\ q.totalSupply = s1.totalSupply /\ q.tokens = s1.tokens
          /\ RowsMove(s1, q, log)
          /\ Issued(s1, "USID") \in Nat
          /\ Issued(q, "USID") = Issued(s1, "USID") + (IF log.token = "USID" THEN -Burnt(log) ELSE 0)
      BY <1>0, <2>2, <2>3, <2>4, MovedBooked DEF q
    <3>2. QED
      BY <3>1
  <2> HIDE DEF q
  <2>6. /\ r \in Books /\ r.balance = q.balance /\ r.tokens = q.tokens
        /\ r.totalSupply = q.totalSupply
    BY <1>0, <2>5 DEF Books
  <2> HIDE DEF r
  <2>7. NoneOfZero(r) /\ Issued(r, "USID") = Issued(q, "USID")
    BY <2>5, <2>6 DEF NoneOfZero, Issued
  <2>8. ASSUME NEW t \in Tokens, NEW a \in Accounts \ {Zero}
        PROVE  Held(r.balance[t][a]) = bal2[t][a]
    BY <1>0, <2>2, <2>5, <2>6 DEF RowsMove, BalancesMove
  <2>9. QED
    BY <1>0, <1>2, <2>1, <2>2, <2>3, <2>5, <2>6, <2>7, <2>8 DEF BooksOK
<1>3. QED
  BY <1>0, <1>1, <1>2

(* One log of each kind. *)
LEMMA TransferBooked ==
  ASSUME NEW s, NEW bal, NEW bal2, NEW made, BooksOK(s, bal, made), NEW log,
         CanMove(bal, made, log), BalancesMove(bal, bal2, log)
  PROVE  BooksOK(sgHandle(s, log), bal2, made)
<1>1. log.kind = "Transfer" /\ log.token \in {"USID", "TKN"}
  BY DEF CanMove, Log, Tokens
<1>2. CASE log.token = "USID"
  <2>1. sgHandle(s, log) = handleUSIDTransfer(s, log)
    BY <1>1, <1>2 DEF sgHandle
  <2>2. QED
    BY <1>2, <2>1, USIDBooked
<1>3. CASE log.token = "TKN"
  <2>1. sgHandle(s, log) = handleTokenTransfer(s, log)
    BY <1>1, <1>3 DEF sgHandle
  <2>2. QED
    BY <1>3, <2>1, TokenBooked
<1>4. QED
  BY <1>1, <1>2, <1>3

LEMMA OthersBooked ==
  ASSUME NEW s, NEW bal, NEW made, BooksOK(s, bal, made), NEW user \in Accounts
  PROVE  /\ BooksOK(sgHandle(s, About("MarketCreated", user)), bal, TRUE)
         /\ BooksOK(sgHandle(s, About("FactoryMarketCreated", user)), bal, made)
         /\ BooksOK(sgHandle(s, About("Swap", user)), bal, made)
<1>0. s \in Books
  BY DEF BooksOK
<1>1. ASSUME NEW q \in Books, q.balance = s.balance,
             q.totalSupply["USID"] = s.totalSupply["USID"], NEW now \in BOOLEAN,
             now <=> "TKN" \in q.tokens
      PROVE  BooksOK(q, bal, now)
  BY <1>1 DEF BooksOK, NoneOfZero, Issued
<1>2. BooksOK(sgHandle(s, About("MarketCreated", user)), bal, TRUE)
  <2>1. sgHandle(s, About("MarketCreated", user)) = sgMarketCreated(s, user)
    BY DEF sgHandle, About
  <2>2. "TKN" \in s.tokens \union {"TKN"}
    OBVIOUS
  <2>3. QED
    BY <1>0, <1>1, <2>1, <2>2, MarketBooked
<1>3. BooksOK(sgHandle(s, About("FactoryMarketCreated", user)), bal, made)
  <2>1. sgHandle(s, About("FactoryMarketCreated", user)) = s
    BY DEF sgHandle, About
  <2>2. QED
    BY <2>1
<1>4. BooksOK(sgHandle(s, About("Swap", user)), bal, made)
  <2>1. sgHandle(s, About("Swap", user)) = getOrCreateUser(s, user)
    BY DEF sgHandle, About
  <2>2. made \in BOOLEAN /\ (made <=> "TKN" \in s.tokens)
    BY DEF BooksOK
  <2>3. QED
    BY <1>0, <1>1, <2>1, <2>2, UserBooked DEF SameMoney
<1>5. QED
  BY <1>2, <1>3, <1>4

-----------------------------------------------------------------------------
(* The blocks of the chain, one transaction each.                          *)
LEMMA TransferCan ==
  ASSUME NEW bal \in [Tokens -> [Accounts -> Int]], NEW bal2, NEW made,
         NEW t \in Tokens, NEW from \in Accounts, NEW to \in Accounts, NEW value \in Nat,
         \A a \in Accounts \ {Zero} :
           bal2[t][a] = bal[t][a] + (IF to = a THEN value ELSE 0) - (IF from = a THEN value ELSE 0),
         OnlyToken(t, bal, bal2),
         from # Zero => bal[t][from] >= value, t = "TKN" /\ ~made => value = 0
  PROVE  /\ CanMove(bal, made, Transfer(t, from, to, value))
         /\ BalancesMove(bal, bal2, Transfer(t, from, to, value))
<1> DEFINE log == Transfer(t, from, to, value)
<1>1. /\ log \in Log /\ log.kind = "Transfer" /\ log.token = t
      /\ log.from = from /\ log.to = to /\ log.value = value
  BY LogTypes
<1> HIDE DEF log
<1>2. CanMove(bal, made, log)
  BY <1>1 DEF CanMove
<1>3. ASSUME NEW t2 \in Tokens, NEW a \in Accounts \ {Zero}
      PROVE  bal2[t2][a] = bal[t2][a] + (IF t2 = log.token THEN Brought(log, a) - TakenFrom(log, a) ELSE 0)
  <2>1. bal[t2][a] \in Int
    OBVIOUS
  <2>2. CASE t2 = t
    <3>1. /\ Brought(log, a) = (IF to = a THEN value ELSE 0)
          /\ TakenFrom(log, a) = (IF from = a THEN value ELSE 0)
      BY <1>1 DEF Brought, TakenFrom
    <3>2. bal2[t][a] = bal[t][a] + (IF to = a THEN value ELSE 0) - (IF from = a THEN value ELSE 0)
      OBVIOUS
    <3>3. QED
      BY <1>1, <2>1, <2>2, <3>1, <3>2
  <2>3. CASE t2 # t
    BY <1>1, <2>1, <2>3 DEF OnlyToken
  <2>4. QED
    BY <2>2, <2>3
<1>4. QED
  BY <1>2, <1>3 DEF BalancesMove, log

(* The subgraph has the balances of both tokens, at every block.           *)
BooksInv ==
  /\ BooksOK(SubgraphEntities, balances, created)
  /\ ~created => \A a \in Accounts : balances["TKN"][a] = 0

LEMMA BlockBooked ==
  ASSUME ChainInv, NEW logs \in Seq(Log), chain' = Append(chain, logs)
  PROVE  SubgraphEntities' = AfterLogs(SubgraphEntities, Triggers(logs))
<1>1. chain \in Seq(Seq(Log))
  BY DEF ChainInv, IsChain
<1> DEFINE d == Append(chain, logs)
<1>2. EntitiesAfter(d) = AfterLogs(EntitiesAfter(chain), Triggers(logs))
  BY <1>1, EntitiesGrow
<1>3. SubgraphEntities' = EntitiesAfter(chain')
  BY DEF SubgraphEntities
<1>4. QED
  BY <1>2, <1>3 DEF SubgraphEntities

LEMMA OneHandled ==
  ASSUME NEW s, NEW logs, Len(logs) = 1
  PROVE  AfterLogs(s, logs) = sgHandle(s, logs[1])
<1>1. PICK after : /\ after[0] = s
                   /\ \A i \in 1 .. Len(logs) : after[i] = sgHandle(after[i - 1], logs[i])
                   /\ AfterLogs(s, logs) = after[Len(logs)]
  <2>1. Len(logs) \in 0 .. 4
    OBVIOUS
  <2>2. QED
    BY ONLY <2>1, LogsHandled
<1>2. after[1] = sgHandle(after[1 - 1], logs[1])
  BY <1>1, 1 \in 1 .. 1
<1>3. QED
  BY <1>1, <1>2, 1 - 1 = 0

LEMMA ThreeHandled ==
  ASSUME NEW s, NEW logs, Len(logs) = 3
  PROVE  AfterLogs(s, logs) = sgHandle(sgHandle(sgHandle(s, logs[1]), logs[2]), logs[3])
<1>1. PICK after : /\ after[0] = s
                   /\ \A i \in 1 .. Len(logs) : after[i] = sgHandle(after[i - 1], logs[i])
                   /\ AfterLogs(s, logs) = after[Len(logs)]
  <2>1. Len(logs) \in 0 .. 4
    OBVIOUS
  <2>2. QED
    BY ONLY <2>1, LogsHandled
<1>2. /\ after[1] = sgHandle(after[1 - 1], logs[1])
      /\ after[2] = sgHandle(after[2 - 1], logs[2])
      /\ after[3] = sgHandle(after[3 - 1], logs[3])
  BY <1>1, 1 \in 1 .. 3, 2 \in 1 .. 3, 3 \in 1 .. 3
<1>3. QED
  BY <1>1, <1>2, 1 - 1 = 0, 2 - 1 = 1, 3 - 1 = 2

LEMMA FourHandled ==
  ASSUME NEW s, NEW logs, Len(logs) = 4
  PROVE  AfterLogs(s, logs) =
           sgHandle(sgHandle(sgHandle(sgHandle(s, logs[1]), logs[2]), logs[3]), logs[4])
<1>1. PICK after : /\ after[0] = s
                   /\ \A i \in 1 .. Len(logs) : after[i] = sgHandle(after[i - 1], logs[i])
                   /\ AfterLogs(s, logs) = after[Len(logs)]
  <2>1. Len(logs) \in 0 .. 4
    OBVIOUS
  <2>2. QED
    BY ONLY <2>1, LogsHandled
<1>2. /\ after[1] = sgHandle(after[1 - 1], logs[1])
      /\ after[2] = sgHandle(after[2 - 1], logs[2])
      /\ after[3] = sgHandle(after[3 - 1], logs[3])
      /\ after[4] = sgHandle(after[4 - 1], logs[4])
  BY <1>1, 1 \in 1 .. 4, 2 \in 1 .. 4, 3 \in 1 .. 4, 4 \in 1 .. 4
<1>3. QED
  BY <1>1, <1>2, 1 - 1 = 0, 2 - 1 = 1, 3 - 1 = 2, 4 - 1 = 3

(* A block of one Transfer. *)
LEMMA SingleBooked ==
  ASSUME ChainInv, BooksInv, NEW t \in Tokens, NEW from \in Accounts, NEW to \in Accounts,
         NEW value \in Nat, chain' = Append(chain, <<Transfer(t, from, to, value)>>),
         created' = created,
         \A a \in Accounts \ {Zero} :
           balances'[t][a] = balances[t][a] + (IF to = a THEN value ELSE 0)
                                            - (IF from = a THEN value ELSE 0),
         OnlyToken(t, balances, balances'),
         from # Zero => balances[t][from] >= value, t = "TKN" /\ ~created => value = 0
  PROVE  BooksOK(SubgraphEntities', balances', created')
<1> DEFINE log == Transfer(t, from, to, value)
           logs == <<log>>
           s == SubgraphEntities
           bal2 == balances'
<1>1. log \in Log /\ log.kind = "Transfer"
  BY LogTypes
<1>2. balances \in [Tokens -> [Accounts -> Int]]
  BY DEF ChainInv
<1>3. CanMove(balances, created, log) /\ BalancesMove(balances, bal2, log)
  <2> HIDE DEF bal2
  <2>1. /\ \A a \in Accounts \ {Zero} :
             bal2[t][a] = balances[t][a] + (IF to = a THEN value ELSE 0)
                                         - (IF from = a THEN value ELSE 0)
        /\ OnlyToken(t, balances, bal2)
    BY DEF bal2
  <2>2. QED
    BY <1>2, <2>1, TransferCan
<1>4. BooksOK(s, balances, created)
  BY DEF BooksInv
<1> HIDE DEF log, bal2
<1>5. BooksOK(sgHandle(s, log), bal2, created)
  <2> HIDE DEF s
  <2> QED BY <1>3, <1>4, TransferBooked
<1>6. Len(logs) = 1 /\ logs[1] = log /\ logs \in Seq(Log) /\ DOMAIN logs = {1}
  BY <1>1
<1>7. Triggers(logs) = logs
  <2> HIDE DEF logs
  <2> QED BY <1>1, <1>6 DEF Triggers
<1>8. AfterLogs(s, logs) = sgHandle(s, log)
  <2> HIDE DEF logs, s
  <2> QED BY <1>6, OneHandled
<1>9. SubgraphEntities' = sgHandle(s, log)
  <2>1. chain' = Append(chain, logs)
    BY DEF log
  <2> HIDE DEF logs
  <2>2. SubgraphEntities' = AfterLogs(s, Triggers(logs))
    BY <1>6, <2>1, BlockBooked
  <2>3. QED
    BY <1>7, <1>8, <2>2
<1>10. QED
  BY <1>5, <1>9 DEF bal2

LEMMA TransactionTypes ==
  ASSUME ChainInv
  PROVE  /\ balances \in [Tokens -> [Accounts -> Int]]
         /\ Zero \in Accounts /\ Pool \in Accounts /\ Router \in Accounts /\ Users \subseteq Accounts
         /\ "USID" \in Tokens /\ "TKN" \in Tokens /\ "USID" # "TKN"
         /\ Supply \in Nat /\ Amounts \subseteq Nat
BY TokensAssumption DEF ChainInv, Accounts, Tokens

LEMMA DepositBooked ==
  ASSUME ChainInv, BooksInv, NEW u \in Users, NEW value \in Amounts, Deposit(u, value)
  PROVE  BooksInv'
<1>0. /\ chain' = Append(chain, <<Transfer("USID", Zero, u, value)>>) /\ created' = created
      /\ balances' = [balances EXCEPT !["USID"][u] = @ + value]
  BY DEF Deposit, Mine
<1>1. /\ \A a \in Accounts \ {Zero} :
           balances'["USID"][a] = balances["USID"][a] + (IF u = a THEN value ELSE 0)
                                                      - (IF Zero = a THEN value ELSE 0)
      /\ balances'["TKN"] = balances["TKN"]
  BY <1>0, TransactionTypes
<1>2. OnlyToken("USID", balances, balances')
  BY <1>1 DEF OnlyToken, Tokens
<1>3. BooksOK(SubgraphEntities', balances', created')
  <2>1. /\ u \in Accounts /\ Zero \in Accounts /\ value \in Nat
        /\ "USID" \in Tokens /\ "USID" # "TKN"
    BY TransactionTypes
  <2>2. QED
    BY <1>0, <1>1, <1>2, <2>1, SingleBooked
<1>4. QED
  BY <1>0, <1>1, <1>3 DEF BooksInv

LEMMA WithdrawBooked ==
  ASSUME ChainInv, BooksInv, NEW u \in Users, NEW value \in Amounts, Withdraw(u, value)
  PROVE  BooksInv'
<1>0. /\ chain' = Append(chain, <<Transfer("USID", u, Zero, value)>>) /\ created' = created
      /\ balances' = [balances EXCEPT !["USID"][u] = @ - value]
      /\ balances["USID"][u] >= value
  BY DEF Withdraw, Mine
<1>1. /\ \A a \in Accounts \ {Zero} :
           balances'["USID"][a] = balances["USID"][a] + (IF Zero = a THEN value ELSE 0)
                                                      - (IF u = a THEN value ELSE 0)
      /\ balances'["TKN"] = balances["TKN"]
  BY <1>0, TransactionTypes
<1>2. OnlyToken("USID", balances, balances')
  BY <1>1 DEF OnlyToken, Tokens
<1>3. BooksOK(SubgraphEntities', balances', created')
  <2>1. /\ u \in Accounts /\ Zero \in Accounts /\ value \in Nat
        /\ "USID" \in Tokens /\ "USID" # "TKN"
    BY TransactionTypes
  <2>2. QED
    BY <1>0, <1>1, <1>2, <2>1, SingleBooked
<1>4. QED
  BY <1>0, <1>1, <1>3 DEF BooksInv

LEMMA SendBooked ==
  ASSUME ChainInv, BooksInv, NEW u \in Users, NEW value \in Amounts, NEW t \in Tokens,
         NEW to \in Users \union {Zero}, Send(t, u, to, value)
  PROVE  BooksInv'
<1> DEFINE new == Move(balances, t, u, to, value)
<1>0. /\ chain' = Append(chain, <<Transfer(t, u, to, value)>>) /\ created' = created
      /\ balances' = new /\ balances[t][u] >= value
  BY DEF Send, Mine
<1>1. /\ u \in Accounts /\ to \in Accounts /\ value \in Nat /\ value \in Int
      /\ balances \in [Tokens -> [Accounts -> Int]]
  BY TransactionTypes
<1>2. Shifted(balances[t], new[t], u, to, value) /\ OnlyToken(t, balances, new)
  BY <1>1, MoveFacts
<1> HIDE DEF new
<1>3. t = "TKN" /\ ~created => value = 0
  BY <1>0, <1>1 DEF BooksInv
<1>4. \A a \in Accounts :
        balances'[t][a] = balances[t][a] + (IF to = a THEN value ELSE 0)
                                         - (IF u = a THEN value ELSE 0)
  BY <1>0, <1>2 DEF Shifted
<1>5. BooksOK(SubgraphEntities', balances', created')
  BY <1>0, <1>1, <1>2, <1>3, <1>4, SingleBooked
<1>6. ASSUME ~created, NEW a \in Accounts
      PROVE  balances'["TKN"][a] = 0
  <2>1. CASE t = "TKN"
    BY <1>3, <1>4, <1>6, <2>1 DEF BooksInv
  <2>2. CASE t # "TKN"
    BY <1>0, <1>2, <1>6, <2>2, TransactionTypes DEF OnlyToken, BooksInv
  <2>3. QED
    BY <2>1, <2>2
<1>7. QED
  BY <1>0, <1>5, <1>6 DEF BooksInv

LEMMA TradeBooked ==
  ASSUME ChainInv, BooksInv, NEW u \in Users, NEW value \in Amounts, NEW paid \in Tokens,
         NEW got \in Tokens, paid # got, Trade(u, paid, got, value)
  PROVE  BooksInv'
<1> DEFINE l1 == Transfer(paid, u, Pool, value)
           l2 == Transfer(got, Pool, u, value)
           l3 == About("Swap", Router)
           logs == <<l1, l2, l3>>
           mid == Move(balances, paid, u, Pool, value)
           new == Move(mid, got, Pool, u, value)
           s == SubgraphEntities
           s1 == sgHandle(s, l1)
           s2 == sgHandle(s1, l2)
           s3 == sgHandle(s2, l3)
<1>0. /\ chain' = Append(chain, logs) /\ created' = created /\ created
      /\ balances' = new /\ balances[paid][u] >= value /\ balances[got][Pool] >= value
  BY DEF Trade, Mine
<1>1. /\ u \in Accounts /\ Pool \in Accounts /\ Router \in Accounts
      /\ value \in Nat /\ value \in Int
      /\ balances \in [Tokens -> [Accounts -> Int]]
  BY TransactionTypes
<1>2. /\ mid \in [Tokens -> [Accounts -> Int]]
      /\ Shifted(balances[paid], mid[paid], u, Pool, value) /\ OnlyToken(paid, balances, mid)
  BY <1>1, MoveFacts
<1> HIDE DEF mid
<1>3. /\ new \in [Tokens -> [Accounts -> Int]]
      /\ Shifted(mid[got], new[got], Pool, u, value) /\ OnlyToken(got, mid, new)
  BY <1>1, <1>2, MoveFacts
<1> HIDE DEF new
<1>4. mid[got][Pool] >= value
  BY <1>0, <1>2 DEF OnlyToken
<1>5. CanMove(balances, created, l1) /\ BalancesMove(balances, mid, l1)
  <2>1. \A a \in Accounts \ {Zero} :
          mid[paid][a] = balances[paid][a] + (IF Pool = a THEN value ELSE 0)
                                           - (IF u = a THEN value ELSE 0)
    BY <1>2 DEF Shifted
  <2> HIDE DEF l1
  <2>2. QED
    BY <1>0, <1>1, <1>2, <2>1, TransferCan DEF l1
<1>6. CanMove(mid, created, l2) /\ BalancesMove(mid, new, l2)
  <2>1. \A a \in Accounts \ {Zero} :
          new[got][a] = mid[got][a] + (IF u = a THEN value ELSE 0)
                                    - (IF Pool = a THEN value ELSE 0)
    BY <1>3 DEF Shifted
  <2> HIDE DEF l2
  <2>2. QED
    BY <1>0, <1>1, <1>2, <1>3, <1>4, <2>1, TransferCan DEF l2
<1>7. l1 \in Log /\ l2 \in Log /\ l3 \in Log
      /\ l1.kind = "Transfer" /\ l2.kind = "Transfer" /\ l3.kind = "Swap"
  <2>1. "Swap" \in Kinds \ {"Transfer"}
    BY DEF Kinds
  <2> HIDE DEF l1, l2, l3
  <2>2. QED
    BY <1>1, <2>1, LogTypes DEF l1, l2, l3
<1>8. BooksOK(s, balances, created)
  BY DEF BooksInv
<1> HIDE DEF s, l1, l2, l3
<1>9. BooksOK(s1, mid, created)
  BY <1>5, <1>8, TransferBooked
<1> HIDE DEF s1
<1>10. BooksOK(s2, new, created)
  BY <1>6, <1>9, TransferBooked DEF s2
<1> HIDE DEF s2
<1>11. BooksOK(s3, new, created)
  BY <1>1, <1>10, OthersBooked DEF s3, l3
<1>12. Len(logs) = 3 /\ logs[1] = l1 /\ logs[2] = l2 /\ logs[3] = l3 /\ logs \in Seq(Log)
       /\ DOMAIN logs = 1 .. 3
  BY <1>7
<1> HIDE DEF logs, s3
<1>13. Triggers(logs) = logs
  BY <1>7, <1>12 DEF Triggers
<1>14. AfterLogs(s, logs) = s3
  BY <1>12, ThreeHandled DEF s1, s2, s3
<1>15. SubgraphEntities' = s3
  <2>1. SubgraphEntities' = AfterLogs(s, Triggers(logs))
    BY <1>0, <1>12, BlockBooked DEF s
  <2>2. QED
    BY <1>13, <1>14, <2>1
<1>16. QED
  BY <1>0, <1>11, <1>15 DEF BooksInv

LEMMA Rotated ==
  ASSUME NEW S, NEW f \in Seq(S), Len(f) = 4, NEW g \in Seq(S), Len(g) = 4,
         g[1] = f[2], g[2] = f[3], g[3] = f[4], g[4] = f[1]
  PROVE  Append(Tail(f), Head(f)) = g
<1> DEFINE rest == Tail(f)
           all == Append(rest, Head(f))
<1>1. f # <<>> /\ Head(f) = f[1] /\ f[1] \in S
  <2>1. f # <<>>
    BY ONLY Len(f) = 4, Len(<<>>) = 0, 0 # 4
  <2>2. Head(f) = f[1]
    OBVIOUS
  <2>3. QED
    BY <2>1, <2>2
<1>2. rest \in Seq(S) /\ Len(rest) = 3 /\ \A i \in 1 .. 3 : rest[i] = f[i + 1]
  BY <1>1, HeadTailProperties
<1>3. /\ all \in Seq(S) /\ Len(all) = 4
      /\ \A i \in 1 .. 3 : all[i] = rest[i]
      /\ all[4] = f[1]
  <2>1. rest \in Seq(S) /\ Head(f) \in S
    BY <1>1, <1>2
  <2> HIDE DEF rest
  <2>2. /\ all \in Seq(S) /\ Len(all) = Len(rest) + 1
        /\ \A i \in 1 .. Len(rest) : all[i] = rest[i]
        /\ all[Len(rest) + 1] = Head(f)
    BY <2>1, AppendProperties
  <2> HIDE DEF rest, all
  <2>3. QED
    BY <1>1, <1>2, <2>2
<1> HIDE DEF rest, all
<1>4. \A i \in 1 .. 4 : all[i] = g[i]
  BY <1>2, <1>3
<1>5. all = g
  BY <1>3, <1>4, SeqEqual
<1>6. QED
  BY <1>5 DEF all, rest

LEMMA CreateBooked ==
  ASSUME ChainInv, BooksInv, NEW u \in Users, CreateMarket(u)
  PROVE  BooksInv'
<1> DEFINE l1 == Transfer("TKN", Zero, Pool, Supply)
           l2 == Transfer("USID", Zero, Pool, Supply)
           l3 == About("MarketCreated", u)
           l4 == About("FactoryMarketCreated", u)
           logs == <<l1, l2, l3, l4>>
           row == [balances["USID"] EXCEPT ![Pool] = @ + Supply]
           mid == [balances EXCEPT !["USID"] = row]
           new == [t \in Tokens |-> [balances[t] EXCEPT ![Pool] = @ + Supply]]
           s == SubgraphEntities
           s1 == sgHandle(s, l2)
           s2 == sgHandle(s1, l3)
           s3 == sgHandle(s2, l4)
           s4 == sgHandle(s3, l1)
<1>0. /\ chain' = Append(chain, logs) /\ created' = TRUE /\ balances' = new
  BY DEF CreateMarket, Mine
<1>1. /\ u \in Accounts /\ Pool \in Accounts /\ Zero \in Accounts /\ Pool # Zero
      /\ Supply \in Nat /\ "USID" \in Tokens /\ "TKN" \in Tokens /\ "USID" # "TKN"
      /\ balances \in [Tokens -> [Accounts -> Int]]
  BY TransactionTypes, AccountsAssumption
<1>2. /\ mid \in [Tokens -> [Accounts -> Int]]
      /\ \A a \in Accounts \ {Zero} :
           mid["USID"][a] = balances["USID"][a] + (IF Pool = a THEN Supply ELSE 0)
                                                - (IF Zero = a THEN Supply ELSE 0)
      /\ mid["TKN"] = balances["TKN"]
  <2>1. row \in [Accounts -> Int] /\ \A a \in Accounts \ {Zero} :
          row[a] = balances["USID"][a] + (IF Pool = a THEN Supply ELSE 0)
                                       - (IF Zero = a THEN Supply ELSE 0)
    BY <1>1
  <2> HIDE DEF row
  <2>2. QED
    BY <1>1, <2>1
<1>3. /\ \A a \in Accounts \ {Zero} :
           new["TKN"][a] = mid["TKN"][a] + (IF Pool = a THEN Supply ELSE 0)
                                         - (IF Zero = a THEN Supply ELSE 0)
      /\ new["USID"] = mid["USID"]
  <2>1. /\ mid["TKN"] = balances["TKN"]
        /\ mid["USID"] = row
        /\ new["TKN"] = [balances["TKN"] EXCEPT ![Pool] = @ + Supply]
        /\ new["USID"] = row
    BY <1>1
  <2>2. balances["TKN"] \in [Accounts -> Int]
    BY <1>1
  <2> HIDE DEF mid, new
  <2>3. QED
    BY <1>1, <2>1, <2>2
<1> HIDE DEF mid, new
<1>4. OnlyToken("USID", balances, mid) /\ OnlyToken("TKN", mid, new)
  BY <1>2, <1>3 DEF OnlyToken, Tokens
<1>5. CanMove(balances, created, l2) /\ BalancesMove(balances, mid, l2)
  <2> HIDE DEF l2
  <2> QED BY <1>1, <1>2, <1>4, TransferCan DEF l2
<1>6. CanMove(mid, TRUE, l1) /\ BalancesMove(mid, new, l1)
  <2> HIDE DEF l1
  <2> QED BY <1>1, <1>2, <1>3, <1>4, TransferCan DEF l1
<1>7. /\ l1 \in Log /\ l2 \in Log /\ l3 \in Log /\ l4 \in Log
      /\ l3.kind = "MarketCreated"
  <2>1. "MarketCreated" \in Kinds \ {"Transfer"} /\ "FactoryMarketCreated" \in Kinds \ {"Transfer"}
    BY DEF Kinds
  <2> HIDE DEF l1, l2, l3, l4
  <2>2. QED
    BY <1>1, <2>1, LogTypes DEF l1, l2, l3, l4
<1>8. BooksOK(s, balances, created)
  BY DEF BooksInv
<1> HIDE DEF s, l1, l2, l3, l4
<1>9. BooksOK(s1, mid, created)
  BY <1>5, <1>8, TransferBooked
<1> HIDE DEF s1
<1>10. BooksOK(s2, mid, TRUE)
  BY <1>1, <1>9, OthersBooked DEF s2, l3
<1> HIDE DEF s2
<1>11. BooksOK(s3, mid, TRUE)
  BY <1>1, <1>10, OthersBooked DEF s3, l4
<1> HIDE DEF s3
<1>12. BooksOK(s4, new, TRUE)
  BY <1>6, <1>11, TransferBooked DEF s4
<1>13. Len(logs) = 4 /\ logs[1] = l1 /\ logs[2] = l2 /\ logs[3] = l3 /\ logs[4] = l4 /\ logs \in Seq(Log) /\ DOMAIN logs = 1 .. 4
  BY <1>7
<1> DEFINE order == <<l2, l3, l4, l1>>
<1>14. /\ Len(order) = 4 /\ order \in Seq(Log)
       /\ order[1] = l2 /\ order[2] = l3 /\ order[3] = l4 /\ order[4] = l1
  BY <1>7
<1>15. Triggers(logs) = order
  <2>1. \E i \in DOMAIN logs : logs[i].kind = "MarketCreated"
    BY <1>7, <1>13, 3 \in 1 .. 4
  <2>2. Append(Tail(logs), Head(logs)) = order
    BY <1>7, <1>13, <1>14, Rotated
  <2> HIDE DEF logs, order
  <2>3. QED
    BY <2>1, <2>2 DEF Triggers
<1> HIDE DEF logs, order, s4
<1>16. AfterLogs(s, order) = s4
  BY <1>14, FourHandled DEF s1, s2, s3, s4
<1>17. SubgraphEntities' = s4
  <2>1. SubgraphEntities' = AfterLogs(s, Triggers(logs))
    BY <1>0, <1>13, BlockBooked DEF s
  <2>2. QED
    BY <1>15, <1>16, <2>1
<1>18. QED
  BY <1>0, <1>12, <1>17 DEF BooksInv

LEMMA TransactionBooked ==
  ASSUME ChainInv, BooksInv, Transaction
  PROVE  BooksInv'
<1>1. PICK u \in Users :
        \/ CreateMarket(u)
        \/ \E value \in Amounts :
             \/ Deposit(u, value)
             \/ Withdraw(u, value)
             \/ \E t \in Tokens, to \in Users \union {Zero} : Send(t, u, to, value)
             \/ Trade(u, "USID", "TKN", value)
             \/ Trade(u, "TKN", "USID", value)
  BY Zenon DEF Transaction
<1>2. CASE CreateMarket(u)
  BY <1>2, CreateBooked
<1>3. CASE \E value \in Amounts : Deposit(u, value)
  BY <1>3, DepositBooked
<1>4. CASE \E value \in Amounts : Withdraw(u, value)
  BY <1>4, WithdrawBooked
<1>5. CASE \E value \in Amounts, t \in Tokens, to \in Users \union {Zero} : Send(t, u, to, value)
  BY <1>5, SendBooked
<1>6. CASE \E value \in Amounts : Trade(u, "USID", "TKN", value) \/ Trade(u, "TKN", "USID", value)
  BY <1>6, TransactionTypes, TradeBooked
<1>7. QED
  BY <1>1, <1>2, <1>3, <1>4, <1>5, <1>6

LEMMA NothingBooked ==
  ASSUME Init
  PROVE  BooksInv
<1>0. chain = <<>> /\ created = FALSE /\ balances = [t \in Tokens |-> [a \in Accounts |-> 0]]
  BY DEF Init, TokensInit
<1> DEFINE s == NoEntities
<1>1. SubgraphEntities = s
  BY <1>0, EntitiesGrow DEF SubgraphEntities
<1>2. s \in Books
  BY DEF NoEntities, Books
<1>3. \A t \in Tokens, a \in Accounts : s.balance[t][a] = NoRow
  BY DEF NoEntities
<1>4. s.totalSupply["USID"] = 0 /\ "TKN" \notin s.tokens /\ "TKN" \in Tokens /\ "USID" \in Tokens
      /\ Zero \in Accounts
  BY DEF NoEntities, Tokens, Accounts
<1> HIDE DEF s
<1>5. Issued(s, "USID") = 0
  <2> DEFINE f == [a \in Accounts |-> Held(s.balance["USID"][a])]
  <2>1. \A a \in Accounts \ {} : f[a] = 0
    BY <1>3, <1>4, HeldType
  <2> HIDE DEF f
  <2>2. Total(f, Accounts) = Total(f, {})
    BY <2>1, TotalZeros
  <2>3. QED
    BY <2>2, TotalEmpty DEF Issued, f
<1>6. \A t \in Tokens, a \in Accounts : Held(s.balance[t][a]) = 0 /\ balances[t][a] = 0
  BY <1>0, <1>3, HeldType
<1>7. BooksOK(s, balances, created)
  BY <1>0, <1>2, <1>3, <1>4, <1>5, <1>6 DEF BooksOK, NoneOfZero
<1>8. QED
  BY <1>1, <1>4, <1>6, <1>7 DEF BooksInv

(* subgraph/src/usid.ts and token.ts: however transfers, trades and the    *)
(* market's creation follow each other, the subgraph's balances of both    *)
(* tokens are the contracts', and USID's total supply is their sum.        *)
THEOREM SubgraphHasBalances == Spec => []SubgraphBalances
<1>1. Init => BooksInv
  BY NothingBooked
<1>2. Inv /\ BooksInv /\ [Next]_vars => BooksInv'
  <2> SUFFICES ASSUME Inv, BooksInv, [Next]_vars
               PROVE  BooksInv'
    OBVIOUS
  <2>1. CASE Mined
    BY <2>1, TransactionBooked DEF Mined, Inv
  <2>2. CASE UNCHANGED tokenVars
    BY <2>2 DEF BooksInv, SubgraphEntities, tokenVars
  <2>3. QED
    BY <2>1, <2>2, Zenon DEF Next, vars, StartBatch, TakeLog, Statement, Checkpoint, HandlerFails, Restart
<1>3. BooksInv => SubgraphBalances
  BY DEF BooksInv, BooksOK, SubgraphBalances
<1>4. QED
  BY <1>1, <1>2, <1>3, AlwaysInv, PTL DEF Spec
=============================================================================
