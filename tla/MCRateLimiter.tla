---------------------------- MODULE MCRateLimiter ----------------------------
(* The limiter with addresses that are all alike.                            *)
EXTENDS RateLimiter, TLC

AddressesAlike == Permutations(Addresses)
=============================================================================
