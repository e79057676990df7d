---------------------------------- MODULE MCRisk ----------------------------------
(* Two listed tokens, one with a cooldown, and one token without limits. *)
EXTENDS RiskEngine, TLC

CONSTANTS t1, t2, t3, x1, x2, x3, x4

Intent(t, n, s) == [token |-> t, notional |-> n, slippage |-> s]

ThreeTokens == {Intent(t1, 1, 0), Intent(t1, 2, 1), Intent(t2, 3, 0),
                Intent(t2, 4, 0), Intent(t3, 1, 0)}
TwoListed == (t1 :> [notional |-> 2, slippage |-> 0, cooldown |-> 2])
          @@ (t2 :> [notional |-> 3, slippage |-> 1, cooldown |-> 0])

TradeSym == Permutations(Trades)
===============================================================================
