----------------------------- MODULE CacheLife -----------------------------
(* What a client of the cache may rely on: the life of a key's object.  It
   is missing until a fill begins, a fill ends well or badly, an object that
   is not being filled may be reaped, and only a missing or corrupt object is
   filled.  Nothing but a restart forgets an object that is being filled.
   Cache implements it. *)
EXTENDS Naturals

CONSTANT Keys

VARIABLES object,     \* the state of each key's object
          restarts    \* how often the process has started again

vars == <<object, restarts>>

Init == /\ object = [k \in Keys |-> "missing"]
        /\ restarts = 0

Become(k, from, to) == /\ object[k] \in from
                       /\ object' = [object EXCEPT ![k] = to]
                       /\ UNCHANGED restarts

Fill(k) == Become(k, {"missing", "corrupt"}, "filling")
Succeed(k) == Become(k, {"filling"}, "validated")
Fail(k) == Become(k, {"filling"}, "corrupt")
Remove(k) == Become(k, {"validated", "corrupt"}, "missing")

Forget == /\ object' = [k \in Keys |-> "missing"]
          /\ restarts' = restarts + 1

Next == \/ \E k \in Keys : Fill(k) \/ Succeed(k) \/ Fail(k) \/ Remove(k)
        \/ Forget

Spec == Init /\ [][Next]_vars
=============================================================================
