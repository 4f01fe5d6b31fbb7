----------------------------- MODULE TokenEvents -----------------------------
(***************************************************************************)
(* The chain as the token handlers see it: USID, one market token, and the *)
(* Transfer logs of both, next to the logs whose handlers only make sure   *)
(* that a user has a row.  A block is one transaction; a trade gives out   *)
(* as much as it takes in, since only the movement matters here.           *)
(***************************************************************************)
EXTENDS Integers, Sequences, FiniteSets

CONSTANTS
  Users,
  Zero, Pool, Router,  \* the zero address, the market's pool, the router
  Supply,              \* what a market is created with, of each token
  Amounts,             \* of transfers and trades
  MaxBlocks            \* bound on the length of the chain

ASSUME TokensAssumption ==
  /\ Supply \in Nat
  /\ Amounts \subseteq Nat
  /\ MaxBlocks \in Nat

VARIABLES
  chain,     \* the blocks, each a sequence of logs
  created,   \* has the market been created?
  balances   \* balanceOf in each token

tokenVars == <<chain, created, balances>>

Tokens == {"USID", "TKN"}
Accounts == Users \union {Zero, Pool, Router}

Transfer(token, from, to, value) ==
  [kind |-> "Transfer", token |-> token, from |-> from, to |-> to, value |-> value]

(* A log of another kind, with the user its handler looks up. *)
About(kind, user) ==
  [kind |-> kind, token |-> "USID", from |-> user, to |-> user, value |-> 0]

Height == Len(chain)

TokensInit ==
  /\ chain = <<>>
  /\ created = FALSE
  /\ balances = [t \in Tokens |-> [a \in Accounts |-> 0]]

Mine(logs) ==
  /\ Height < MaxBlocks
  /\ chain' = Append(chain, logs)

Move(bal, t, from, to, value) ==
  LET left == [bal EXCEPT ![t][from] = @ - value]
  IN [left EXCEPT ![t][to] = @ + value]

(* The token and USID are minted to the pool before the market is reported. *)
CreateMarket(creator) ==
  /\ ~created
  /\ created' = TRUE
  /\ balances' = [t \in Tokens |-> [balances[t] EXCEPT ![Pool] = @ + Supply]]
  /\ Mine(<< Transfer("TKN", Zero, Pool, Supply), Transfer("USID", Zero, Pool, Supply),
             About("MarketCreated", creator), About("FactoryMarketCreated", creator) >>)

Deposit(u, value) ==
  /\ value > 0
  /\ balances' = [balances EXCEPT !["USID"][u] = @ + value]
  /\ Mine(<< Transfer("USID", Zero, u, value) >>)
  /\ UNCHANGED created

Withdraw(u, value) ==
  /\ value > 0
  /\ balances["USID"][u] >= value
  /\ balances' = [balances EXCEPT !["USID"][u] = @ - value]
  /\ Mine(<< Transfer("USID", u, Zero, value) >>)
  /\ UNCHANGED created

(* Nothing rejects a transfer of 0, to oneself or to the zero address. *)
Send(t, u, to, value) ==
  /\ balances[t][u] >= value
  /\ balances' = Move(balances, t, u, to, value)
  /\ Mine(<< Transfer(t, u, to, value) >>)
  /\ UNCHANGED created

(* The pool pays the user, then reports the router as the sender. *)
Trade(u, paid, got, value) ==
  /\ created
  /\ value > 0
  /\ balances[paid][u] >= value
  /\ balances[got][Pool] >= value
  /\ balances' = Move(Move(balances, paid, u, Pool, value), got, Pool, u, value)
  /\ Mine(<< Transfer(paid, u, Pool, value), Transfer(got, Pool, u, value),
             About("Swap", Router) >>)
  /\ UNCHANGED created

Transaction ==
  \E u \in Users :
    \/ CreateMarket(u)
    \/ \E value \in Amounts :
         \/ Deposit(u, value)
         \/ Withdraw(u, value)
         \/ \E t \in Tokens, to \in Users \union {Zero} : Send(t, u, to, value)
         \/ Trade(u, "USID", "TKN", value)
         \/ Trade(u, "TKN", "USID", value)
=============================================================================
