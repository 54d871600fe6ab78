------------------------------ MODULE HubProps ------------------------------
(* What the hub promises its clients and the upstream. *)
EXTENDS Hub

TypeOK == /\ sess \in [Keys -> Clients \cup {None}]
          /\ creating \in [Keys -> Clients \cup {None}]
          /\ announced \subseteq Clients
          /\ upstream \subseteq Clients
          /\ pump \in [Clients -> PumpStates]
          /\ subs \in [Clients -> SUBSET Clients]
          /\ done \subseteq Clients
          /\ pc \in [Clients -> ClientStates]
          /\ want \in [Clients -> Keys]
          /\ of \in [Clients -> Clients \cup {None}]
          /\ chan \in [Clients -> {"none", "open", "closed"}]
          /\ buf \in [Clients -> 0..ClientBuf]
          /\ watching \subseteq Clients
          /\ cancelled \subseteq Clients

(* c's call of Subscribe has not begun, or has returned. *)
Subscribed(c) == pc[c] \notin {"lock", "waiting", "opening", "opened"}

(* Singleflight: a client is inside open() for a key exactly when the hub's
   creating map says so, so two clients never open the same key at once. *)
SingleFlight ==
    \A c \in Clients : pc[c] \in {"opening", "opened"} <=> creating[want[c]] = c

(* At any moment at most one upstream is open for a key, counting the one
   that open() has returned and the hub has not registered yet, and the one
   of an ended session whose pump is still shutting down. *)
OneUpstreamPerKey ==
    \A s, t \in upstream : want[s] = want[t] => s = t

(* The pump's sends and the two places that close a subscriber's channel
   never meet a closed channel (either would panic): whoever is in a
   session's table has an open channel, and is there once. *)
SubscribersAreOpen ==
    \A s, t \in Clients : \A c \in subs[s] :
        chan[c] = "open" /\ (c \in subs[t] => s = t)

(* Where a session stands and what the maps hold agree: a key has a creator
   or a session but not both, an upstream is open from open() to the pump's
   Close, and a session stays in the map at least until it is done.  The
   properties above follow from it. *)
SessionLife ==
    /\ \A k \in Keys : creating[k] # None =>
           sess[k] = None /\ want[creating[k]] = k
    /\ \A k \in Keys : sess[k] # None =>
           want[sess[k]] = k /\ pump[sess[k]] \notin {"none", "over"}
    /\ \A s \in Clients :
           /\ pump[s] # "none" =>
                 pc[s] \notin {"idle", "lock", "waiting", "opening", "opened"}
           /\ s \in upstream <=>
                 \/ pc[s] = "opened"
                 \/ pump[s] \in {"read", "send", "last", "drain", "close"}
           /\ s \in done <=> pump[s] \in {"grace", "over"}
           /\ pump[s] \notin {"none", "grace", "over"} => sess[want[s]] = s

(* A client is in a session's table only while it is subscribed, and then in
   the table of the session it reads; whoever may still call Close knows its
   session. *)
SubscriberLife ==
    \A c \in Clients :
        /\ \A s \in Clients : c \in subs[s] =>
               of[c] = s /\ chan[c] = "open" /\ Subscribed(c) /\ pc[c] # "idle"
        /\ c \in watching => of[c] \in Clients /\ Subscribed(c) /\ pc[c] # "idle"
        /\ pc[c] \in {"reading", "writing", "leaving"} => of[c] \in Clients

(* A session leaves the map only when it is done: a join, a failed open or
   the expiry of an older session of the same key never drops a live one. *)
LiveSessionsStay ==
    [][\A k \in Keys : Live(k) => sess'[k] = sess[k]]_vars

(* If the upstream answers each open(), with a body or an error, Subscribe
   returns, to the client that creates a session and to those that wait for
   it: none misses the wake-up, also when the creator fails and one of them
   must create in its turn. *)
UpstreamAnswers == \A c \in Clients : WF_vars(Opening(c))
SubscribeReturns ==
    UpstreamAnswers => \A c \in Clients : ~ Subscribed(c) ~> Subscribed(c)

(* No client, however slow, keeps the pump from its next read. *)
PumpNeverStalls ==
    \A s \in Clients : pump[s] \in {"send", "last"} ~> pump[s] \in {"read", "drain"}

(* When the upstream ends its body is closed, every subscriber of that
   moment has its channel closed, and the session leaves the map. *)
EndIsCleanedUp ==
    \A s \in Clients :
        /\ pump[s] = "drain" ~> s \notin upstream /\ sess[want[s]] # s
        /\ \A c \in Clients :
               pump[s] = "drain" /\ c \in subs[s] ~> chan[c] = "closed"

(* Every upstream ends, and every client takes what is written to it. *)
EndSpec == /\ FairSpec
           /\ \A s \in Clients : SF_vars(PumpReadLast(s))
           /\ \A c \in Clients : WF_vars(Writing(c))

(* Every subscriber whose upstream ends reads the end of its stream, as each
   client of TestHub_SingleUpstreamMultipleClients does. *)
EverySubscriberReachesEOF ==
    \A c \in Clients : pc[c] = "reading" ~> pc[c] \in {"leaving", "returned"}

=============================================================================
