--------------------------- MODULE MCRateLimiter ---------------------------
(***************************************************************************)
(* A small instance of RateLimiter: two requests per window of five, a      *)
(* bucket idle before it is full, and handlers that wait for the lock.      *)
(***************************************************************************)
EXTENDS RateLimiter, TLC

CONSTANTS c1, c2, t1, t2

(* Clients differ in being watched, which the initial states choose freely. *)
Symmetry == Permutations(Client) \cup Permutations(Thread)

=============================================================================
