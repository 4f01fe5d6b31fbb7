----------------------------- MODULE MCMarketV1 -----------------------------
(***************************************************************************)
(* MarketV1 for model checking: at most MaxOps calls in a behaviour.       *)
(***************************************************************************)
EXTENDS MarketV1

CONSTANT MaxOps

VARIABLE ops

MCInit == Init /\ ops = 0

MCNext == ops < MaxOps /\ Next /\ ops' = ops + 1

MCSpec == MCInit /\ [][MCNext]_<<vars, ops>>
=============================================================================
