--------------------------- MODULE MC_RateLimiter ---------------------------
(***************************************************************************)
(* Instances of RateLimiter for TLC.                                        *)
(***************************************************************************)
EXTENDS RateLimiter
=============================================================================
