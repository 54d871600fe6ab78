------------------------------- MODULE Slots -------------------------------
(* What a pool of upstream slots promises: at most Max of them are held at
   a time, and a slot belongs to one holder from the moment it is taken to
   the moment it is given back.  ratelimit.Pool implements it (Pool), and
   the modules of the stream manager use a pool as it is described here. *)
EXTENDS Naturals, FiniteSets

CONSTANTS Holders,    \* the calls that may hold a slot
          Max         \* the number of slots

VARIABLE held         \* the holders of a slot

Init == held = {}

Take(h) == /\ h \notin held
           /\ Cardinality(held) < Max
           /\ held' = held \cup {h}

Give(h) == /\ h \in held
           /\ held' = held \ {h}

Next == \E h \in Holders : Take(h) \/ Give(h)

Spec == Init /\ [][Next]_held
=============================================================================
