-------------------------------- MODULE MCSigner --------------------------------
(***************************************************************************)
(* The signer's keystore for TLC: two aliases of one key, a third key, and *)
(* an alias nobody holds.                                                  *)
(***************************************************************************)
EXTENDS Signer, TLC

CONSTANTS r1, r2, r3, r4, hot, desk, vault, gone, A, B

SharedKey == (hot :> A) @@ (desk :> A) @@ (vault :> B)

RequestSym == Permutations(Requests)
===============================================================================
