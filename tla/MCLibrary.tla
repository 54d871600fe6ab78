----------------------------- MODULE MCLibrary -----------------------------
(* What becomes of a validated object, in one run of three parts, each checked on
   its own while the others stand still: the reaper on all small indexes around
   the edges of the TTL and the budget; promotions, one after the other, of two
   objects of unequal length to one name; and two calls, each of which configures
   Emby or promotes, again and again. *)
EXTENDS Reaper, Promote, EmbyLink, TLC

CONSTANTS short, long       \* objects to promote

Sizes == (short :> 2) @@ (long :> 3)

VARIABLE part

MCInit == /\ part \in {"reap", "promote", "emby"}
          /\ Init /\ PromoteInit /\ EmbyInit
          /\ part # "reap" => objs = [k \in Keys |-> None]

MCNext == \/ part = "reap" /\ Next /\ UNCHANGED <<part, promoteVars, embyVars>>
          \/ part = "promote" /\ PromoteNext /\ UNCHANGED <<part, vars, embyVars>>
          \/ part = "emby" /\ EmbyNext /\ UNCHANGED <<part, vars, promoteVars>>

MCSpec == MCInit /\ [][MCNext]_<<part, vars, promoteVars, embyVars>>

Symmetry == Permutations(Keys) \cup Permutations(Calls) \cup Permutations(Servers)
=============================================================================
