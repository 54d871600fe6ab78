---------------------------- MODULE MCRateLimit ----------------------------
(* The two limiters of the package, each checked on its own in one run: the slot
   pool with three callers and two slots, so that one of them waits, and the byte
   limiter at rates around one token a tick, with reads longer than a slice.
   The part that is not chosen stands still. *)
EXTENDS Pool, ByteLimiter

VARIABLE part

MCInit == part \in {"pool", "limiter"} /\ Init /\ LimiterInit

MCNext == \/ part = "pool" /\ Next /\ UNCHANGED <<part, limiterVars>>
          \/ part = "limiter" /\ LimiterNext /\ UNCHANGED <<part, vars>>

MCSpec == MCInit /\ [][MCNext]_<<part, vars, limiterVars>> /\ Fairness
=============================================================================
