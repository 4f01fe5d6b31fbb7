----------------------------- MODULE PoolMathV2 -----------------------------
(***************************************************************************)
(* The constant-product arithmetic of contracts/v2/libraries/PoolMathV2    *)
(* and the fee taken by FeeCalculatorV2.  All divisions round down, as     *)
(* uint256 division does.  A require of the library is an operator of its  *)
(* own, used as a guard by the callers.                                    *)
(***************************************************************************)
EXTENDS Integers

(* 10_000 in the code: rates are given in basis points. *)
BASIS_POINTS == 10000

(* The requires of getAmountOut. *)
CanQuoteOut(amountIn, reserveIn, reserveOut) ==
  amountIn > 0 /\ reserveIn > 0 /\ reserveOut > 0

GetAmountOut_RoundsUp(amountIn, reserveIn, reserveOut) ==
  (amountIn * reserveOut) \div (reserveIn + amountIn) + 1

GetAmountOut(amountIn, reserveIn, reserveOut) ==
  (amountIn * reserveOut) \div (reserveIn + amountIn)

IsWithinRealLiquidity(amountOut, realReserveUSD) == amountOut <= realReserveUSD

(* The part of a swap's input that is kept as the fee at a rate in basis   *)
(* points (the last line of calculateFee).                                 *)
FeeAmount(amountIn, feeBps) == (amountIn * feeBps) \div BASIS_POINTS
=============================================================================
