----------------------------- MODULE MCMarketV2 -----------------------------
(***************************************************************************)
(* MarketV2 for model checking: at most MaxOps calls in a behaviour.       *)
(***************************************************************************)
EXTENDS MarketV2

CONSTANTS MaxOps, coin1, coin2

ListOfTwo == <<coin1, coin2>>
ListOfOne == <<coin1>>

VARIABLE ops

MCInit == Init /\ ops = 0

MCNext == ops < MaxOps /\ Next /\ ops' = ops + 1

MCSpec == MCInit /\ [][MCNext]_<<vars, ops>>
=============================================================================
