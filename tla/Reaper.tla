------------------------------- MODULE Reaper -------------------------------
(* The algorithm of Cache.Reap, which runs under the cache's lock: first what
   has not been used for longer than the TTL goes, then the least recently used
   until the rest fits.  An object's age is the time since its LastAccess.  Pin
   is left out: no code sets it. *)
EXTENDS Integers, FiniteSets, FiniteSetsExt

CONSTANTS Keys, MaxSize, MaxAge,
          TTL,          \* the age above which an object goes
          MaxBytes,     \* what the cache may hold
          None

ASSUME ReaperAssumption == /\ IsFiniteSet(Keys)
                           /\ MaxSize \in Nat /\ MaxAge \in Nat
                           /\ TTL \in Nat /\ MaxBytes \in Nat

Objects == [state : {"filling", "validated", "corrupt"},
            size : 0..MaxSize, age : 0..MaxAge]

VARIABLES objs,     \* the index
          before,   \* what it was when Reap was called
          pc

vars == <<objs, before, pc>>

Init == /\ objs \in [Keys -> Objects \cup {None}]
        /\ before = objs
        /\ pc = "ttl"

Held == {k \in Keys : objs[k] # None}

(* What Reap may remove. *)
Reapable == {k \in Held : objs[k].state # "filling"}

Without(gone) == [k \in Keys |-> IF k \in gone THEN None ELSE objs[k]]

TTLPass == /\ pc = "ttl"
           /\ objs' = Without({k \in Reapable : objs[k].age > TTL})
           /\ pc' = "budget"
           /\ UNCHANGED before

SizeOfAll(index, K) == MapThenSumSet(LAMBDA k : index[k].size, K)

(* Mutant: what is still being filled is not counted. *)
TotalReapable == SizeOfAll(objs, Reapable)

(* What every object takes, those being filled included. *)
Total == SizeOfAll(objs, Held)

(* Mutant: the most recently used object goes. *)
Newest(k) == k \in Reapable /\ \A j \in Reapable : objs[k].age <= objs[j].age

(* The victim, one of several when their ages are equal: the order in which a
   map is ranged over is not defined. *)
Oldest(k) == k \in Reapable /\ \A j \in Reapable : objs[j].age <= objs[k].age

Evict(k) == /\ pc = "budget"
            /\ Total > MaxBytes
            /\ Oldest(k)
            /\ objs' = Without({k})
            /\ UNCHANGED <<before, pc>>

Return == /\ pc = "budget"
          /\ Total <= MaxBytes \/ Reapable = {}
          /\ pc' = "done"
          /\ UNCHANGED <<objs, before>>

Next == TTLPass \/ (\E k \in Keys : Evict(k)) \/ Return

Spec == Init /\ [][Next]_vars
----------------------------------------------------------------------------
Removed == {k \in Keys : before[k] # None /\ objs[k] = None}

(* When Reap returns, the cache fits its budget, or nothing but running fills
   is left in it: one big fill can empty the cache of all it has, and no more. *)
FitsOrOnlyFills == pc = "done" => \/ SizeOfAll(objs, Held) <= MaxBytes
                                  \/ \A k \in Held : objs[k].state = "filling"

(* No fill in progress is ever removed, and no object changes but by being
   removed. *)
FillsSurvive == \A k \in Keys : \/ objs[k] = before[k]
                                \/ objs[k] = None /\ before[k].state # "filling"

(* Nothing that has been used goes before something that has been used less
   recently and stays. *)
LeastRecentlyUsedFirst ==
    \A k \in Removed, j \in Reapable : before[k].age >= objs[j].age
=============================================================================
