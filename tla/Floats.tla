--------------------------------- MODULE Floats ---------------------------------
(***************************************************************************)
(* What a float may be beside a number.                                    *)
(***************************************************************************)
EXTENDS Integers

CONSTANTS
  NaN,  \* not a number: no comparison with it holds
  Inf   \* greater than every number

ASSUME FloatsAssumption == NaN \notin Int /\ Inf \notin Int /\ NaN # Inf
===============================================================================
