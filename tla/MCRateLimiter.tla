---------------------------- MODULE MCRateLimiter ----------------------------
(* Two threads, seven calls: enough for both to be late and to wait again.  *)
EXTENDS RateLimiter
=============================================================================
