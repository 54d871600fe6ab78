-------------------------------- MODULE Pool --------------------------------
(* ratelimit.Pool: a counting semaphore on a buffered channel, with a count
   of its own (inUse) kept under a mutex.  The channel and the count are not
   updated together: Acquire sends and then counts, Release un-counts and
   then receives, and any number of calls are between the two at once.

   A holder is one caller: it calls Acquire, keeps its Lease, and calls
   Release once.  No code closes a pool, so the branch of Acquire for a
   closed one (which gives the token back) cannot be taken and is left out. *)
EXTENDS Integers, FiniteSets

CONSTANTS Holders,    \* callers of Acquire
          Limit       \* the argument of NewPool

ASSUME PoolAssumption == IsFiniteSet(Holders) /\ Limit \in Int

Cap == IF Limit < 1 THEN 1 ELSE Limit

VARIABLES sem,        \* number of tokens in the channel
          inUse,      \* the pool's own count
          pc,         \* where each holder is
          cancelled   \* holders whose context is done

vars == <<sem, inUse, pc, cancelled>>

States == {"idle", "select", "sent", "held", "uncounted"}

Init == /\ sem = 0
        /\ inUse = 0
        /\ pc = [h \in Holders |-> "idle"]
        /\ cancelled = {}

(* A new call, with a context of its own. *)
Acquire(h) == /\ pc[h] = "idle"
              /\ pc' = [pc EXCEPT ![h] = "select"]
              /\ cancelled' = cancelled \ {h}
              /\ UNCHANGED <<sem, inUse>>

(* Mutant: one send too many. *)
AcquireSendOver(h) == /\ pc[h] = "select"
                      /\ sem <= Cap
                      /\ sem' = sem + 1
                      /\ pc' = [pc EXCEPT ![h] = "sent"]
                      /\ UNCHANGED <<inUse, cancelled>>

(* case p.sem <- struct{}{} : chosen even when the context is done too. *)
AcquireSend(h) == /\ pc[h] = "select"
                  /\ sem < Cap
                  /\ sem' = sem + 1
                  /\ pc' = [pc EXCEPT ![h] = "sent"]
                  /\ UNCHANGED <<inUse, cancelled>>

(* case <-ctx.Done() *)
AcquireDone(h) == /\ pc[h] = "select"
                  /\ h \in cancelled
                  /\ pc' = [pc EXCEPT ![h] = "idle"]
                  /\ UNCHANGED <<sem, inUse, cancelled>>

AcquireCount(h) == /\ pc[h] = "sent"
                   /\ inUse' = inUse + 1
                   /\ pc' = [pc EXCEPT ![h] = "held"]
                   /\ UNCHANGED <<sem, cancelled>>

ReleaseCount(h) == /\ pc[h] = "held"
                   /\ inUse' = IF inUse > 0 THEN inUse - 1 ELSE inUse
                   /\ pc' = [pc EXCEPT ![h] = "uncounted"]
                   /\ UNCHANGED <<sem, cancelled>>

(* Mutant: the token stays in the channel. *)
ReleaseKeepsToken(h) == /\ pc[h] = "uncounted"
                        /\ pc' = [pc EXCEPT ![h] = "idle"]
                        /\ UNCHANGED <<sem, inUse, cancelled>>

(* The receive does not block: with no token in the channel it does nothing. *)
ReleaseRecv(h) == /\ pc[h] = "uncounted"
                  /\ sem' = IF sem > 0 THEN sem - 1 ELSE sem
                  /\ pc' = [pc EXCEPT ![h] = "idle"]
                  /\ UNCHANGED <<inUse, cancelled>>

(* The caller's context ends while it waits or later. *)
Cancel(h) == /\ pc[h] # "idle"
             /\ h \notin cancelled
             /\ cancelled' = cancelled \cup {h}
             /\ UNCHANGED <<sem, inUse, pc>>

Next == \E h \in Holders :
           \/ Acquire(h)
           \/ AcquireSend(h)
           \/ AcquireDone(h)
           \/ AcquireCount(h)
           \/ ReleaseCount(h)
           \/ ReleaseRecv(h)
           \/ Cancel(h)

Spec == Init /\ [][Next]_vars

(* A goroutine that has begun a step of its own ends it.  A blocked sender
   is queued by the channel in FIFO order, so one is not passed over for
   ever while slots keep coming free: strong fairness. *)
Fairness == \A h \in Holders : /\ SF_vars(AcquireSend(h))
                               /\ WF_vars(AcquireDone(h))
                               /\ WF_vars(AcquireCount(h))
                               /\ WF_vars(ReleaseRecv(h))

FairSpec == Spec /\ Fairness
----------------------------------------------------------------------------
At(S) == {h \in Holders : pc[h] \in S}

(* Holders of a token of the channel. *)
TokenHolders == At({"sent", "held", "uncounted"})

TypeOK == /\ sem \in 0..Cap
          /\ inUse \in Nat
          /\ pc \in [Holders -> States]
          /\ cancelled \subseteq Holders

(* The two counts agree with the calls that stand behind them.  This is what
   makes the guard of Release on inUse and the default of its receive dead:
   a lease always finds a count to take back and a token to receive. *)
CountsAgree == /\ sem = Cardinality(TokenHolders)
               /\ inUse = Cardinality(At({"held"}))

(* The pool never reports, or hands out, more slots than its capacity, at
   any point between the two updates of any calls. *)
InUseWithinMax == inUse <= Cap /\ Cardinality(At({"held"})) <= Cap

(* When no call is in progress and no lease is out, every slot is free and
   the count says so ("leaked slots" of limiter_test.go). *)
NoLeakedSlots == (\A h \in Holders : pc[h] = "idle") => sem = 0 /\ inUse = 0

(* A call whose context is done returns (with a slot or with the error), even when
   nobody ever releases a slot; and when every lease is released in the end, every
   call of Acquire returns. *)
Returns(h) == pc[h] = "select" ~> pc[h] # "select"

AcquireReturns ==
    /\ \A h \in Holders : (pc[h] = "select" /\ h \in cancelled) ~> pc[h] # "select"
    /\ (\A h \in Holders : WF_vars(ReleaseCount(h))) => \A h \in Holders : Returns(h)

(* The pool is a set of slots taken at the send and given back at the
   receive. *)
Ideal == INSTANCE Slots WITH Max <- Cap, held <- TokenHolders

ImplementsSlots == Ideal!Spec
=============================================================================
