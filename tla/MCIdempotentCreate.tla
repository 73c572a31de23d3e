------------------------- MODULE MCIdempotentCreate -------------------------
(* IdempotentCreate for TLC.  Three requests are the fewest with which a key *)
(* has a creator, a waiter and a latecomer; two keys keep an innocent one.   *)
EXTENDS IdempotentCreate, TLC

\* The service treats requests and keys alike.
Symmetry == Permutations(Requests) \union Permutations(Keys)
=============================================================================
