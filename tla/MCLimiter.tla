------------------------------- MODULE MCLimiter -------------------------------
(* Instances of RateLimiter for TLC. *)
EXTENDS RateLimiter, TLC

CONSTANTS a, b, h1, h2

Sym == Permutations(Clients) \cup Permutations(Handlers)
===============================================================================
