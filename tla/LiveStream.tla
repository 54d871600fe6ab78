----------------------------- MODULE LiveStream -----------------------------
(* stream.Manager.OpenLive: the hub composed with the slot pools of the
   sources.  The open() that a hub client runs is unfolded into what the
   manager does there: take a slot of the channel's source, send the HTTP
   request, and give the slot back if that fails.  The body that it returns
   carries the lease, and the pump's Close releases it.

   A pool is used as Slots describes it, which Pool implements. *)
EXTENDS HubProps

CONSTANTS Sources,        \* sources of channels
          SourceOf,       \* the source of each channel key
          Limits          \* what max_concurrent_upstreams may be; 0 for unset

ASSUME LiveAssumption == /\ IsFiniteSet(Clients)
                         /\ SourceOf \in [Keys -> Sources]
                         /\ Limits \subseteq Nat

VARIABLES pools,      \* m.pools: the capacity of each source's pool; 0 for none
          held,       \* the clients that hold a slot of each source
          phase       \* where a client in open() is

liveVars == <<pools, held, phase>>
allVars == <<vars, liveVars>>

DefaultLimit == 2

Src(c) == SourceOf[want[c]]

LiveInit == /\ Init
            /\ pools = [s \in Sources |-> 0]
            /\ held = [s \in Sources |-> {}]
            /\ phase = [c \in Clients |-> "none"]

Capacity(limit) == IF limit > 0 THEN limit ELSE DefaultLimit

(* poolFor: a pool is made on the first use of its source and kept, with the
   limit that the source has at that moment: the settings and, where none is
   set, a HDHomeRun refresh may change it before and after. *)
PoolFor(s) == IF pools[s] # 0 THEN pools' = pools
              ELSE \E limit \in Limits :
                       pools' = [pools EXCEPT ![s] = Capacity(limit)]

OpenLive(c) == /\ Start(c)
               /\ PoolFor(Src(c))
               /\ UNCHANGED <<held, phase>>

LiveCreate(c) == /\ Create(c)
                 /\ phase' = [phase EXCEPT ![c] = "slot"]
                 /\ UNCHANGED <<pools, held>>

(* pool.Acquire, with the context of the client that creates the session. *)
TakeSlot(c) == /\ phase[c] = "slot"
               /\ Cardinality(held[Src(c)]) < pools[Src(c)]
               /\ held' = [held EXCEPT ![Src(c)] = @ \cup {c}]
               /\ phase' = [phase EXCEPT ![c] = "http"]
               /\ UNCHANGED <<vars, pools>>

(* Mutant: the call returns from inside open(), past the hub's clean-up. *)
SlotCancelledEarly(c) == /\ phase[c] = "slot"
                         /\ c \in cancelled
                         /\ Goto(c, "returned")
                         /\ phase' = [phase EXCEPT ![c] = "none"]
                         /\ UNCHANGED <<hubVars, upstream, want, of, chan, buf,
                                        watching, cancelled, pools, held>>

SlotCancelled(c) == /\ phase[c] = "slot"
                    /\ c \in cancelled
                    /\ OpenFail(c)
                    /\ phase' = [phase EXCEPT ![c] = "none"]
                    /\ UNCHANGED <<pools, held>>

(* The request has a context of its own: nothing ends it but the upstream. *)
HttpOk(c) == /\ phase[c] = "http"
             /\ OpenOk(c)
             /\ phase' = [phase EXCEPT ![c] = "none"]
             /\ UNCHANGED <<pools, held>>

(* Mutant: no release on the error path. *)
HttpErrorKeeps(c) == /\ phase[c] = "http"
                     /\ phase' = [phase EXCEPT ![c] = "failed"]
                     /\ UNCHANGED <<vars, pools, held>>

(* A transport error or a status outside 2xx: lease.Release, and then the
   error goes back to the hub. *)
HttpError(c) == /\ phase[c] = "http"
                /\ held' = [held EXCEPT ![Src(c)] = @ \ {c}]
                /\ phase' = [phase EXCEPT ![c] = "failed"]
                /\ UNCHANGED <<vars, pools>>

FailOpen(c) == /\ phase[c] = "failed"
               /\ OpenFail(c)
               /\ phase' = [phase EXCEPT ![c] = "none"]
               /\ UNCHANGED <<pools, held>>

(* leasedBody.Close: the body and its lease. *)
CloseLeased(s) == /\ PumpClose(s)
                  /\ held' = [held EXCEPT ![Src(s)] = @ \ {s}]
                  /\ UNCHANGED <<pools, phase>>

(* What does not touch the slots. *)
Unleased(A) == A /\ UNCHANGED liveVars

LiveSubscribing(c) == \/ Unleased(Join(c) \/ Wait(c) \/ Wake(c) \/ WaitCancelled(c)
                                    \/ Register(c))
                      \/ LiveCreate(c)
                      \/ SlotCancelled(c)
                      \/ FailOpen(c)

Http(c) == HttpOk(c) \/ HttpError(c)

LiveEnding(s) == \/ Unleased(PumpDrain(s) \/ PumpSignal(s) \/ PumpExpire(s))
                 \/ CloseLeased(s)

LiveNext == \E c \in Clients :
              \/ OpenLive(c) \/ LiveSubscribing(c) \/ TakeSlot(c) \/ Http(c)
              \/ Unleased(Reading(c) \/ Writing(c) \/ Watching(c) \/ Cancel(c))
              \/ Unleased(PumpRead(c) \/ PumpReadLast(c) \/ PumpSend(c))
              \/ LiveEnding(c)

LiveSpec == LiveInit /\ [][LiveNext]_allVars
----------------------------------------------------------------------------
(* The connections that are open or being made to a provider. *)
Connections(s) == {c \in Clients : Src(c) = s /\ (phase[c] = "http" \/ c \in upstream)}

(* A lease covers each connection to a provider, from before the request
   until after the body is closed, and nothing else: the lease is of the
   source that is connected to, every failure gives it back, no path gives it
   back twice or keeps it, and no more are out than the provider allows. *)
LeaseCoversConnection ==
    \A s \in Sources : /\ held[s] = Connections(s)
                       /\ Cardinality(held[s]) <= pools[s]

(* The hub seen through the manager is the hub: the steps inside open() and
   the leases are invisible to it. *)
ImplementsHub == Spec
=============================================================================
