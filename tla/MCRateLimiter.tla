---------------------------- MODULE MCRateLimiter ----------------------------
(* Small instances of RateLimiter for TLC. *)
EXTENDS RateLimiter, TLC

\* Requests are interchangeable, and so are clients.
MCSymmetry == Permutations(Requests) \cup Permutations(Clients)
=============================================================================
