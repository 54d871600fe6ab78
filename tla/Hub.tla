-------------------------------- MODULE Hub --------------------------------
(* hub.Hub: one upstream per channel key, fanned out to every client that
   subscribes to the key.

   A client is one call of Subscribe with the handler behind it: it
   subscribes, copies chunks to its HTTP response, and closes.  A session is
   named by the client whose call creates it.  A chunk is a count in the
   client's channel: what it carries plays no part in the control.

   Mutexes are not variables.  An action is one critical section of h.mu or
   of s.mu, or a step outside both; the two are never held in the opposite
   order, and a critical section never blocks. *)
EXTENDS Naturals, FiniteSets

CONSTANTS Clients,    \* calls of Subscribe
          Keys,       \* channel keys
          ClientBuf,  \* capacity of a subscriber's channel
          None        \* no client, no session

ASSUME HubAssumption == None \notin Clients /\ ClientBuf \in Nat \ {0}

VARIABLES sess,       \* h.sess: the session of each key
          creating,   \* h.creating: the client that creates a session for a key
          announced,  \* creators whose h.creating channel has been closed
          upstream,   \* clients whose open() has returned a body not yet closed
          pump,       \* where the pump goroutine of each session is
          subs,       \* s.subs of each session
          done,       \* sessions whose s.done is closed
          pc,         \* where each client is
          want,       \* the key each client asks for
          of,         \* the session a client waits for, or reads
          chan,       \* a subscriber's channel: none, open or closed
          buf,        \* chunks in a subscriber's channel
          watching,   \* clients whose watch goroutine runs
          cancelled   \* clients whose context is done

hubVars == <<sess, creating, announced, pump, subs, done>>
clientVars == <<pc, want, of, chan, buf, watching, cancelled>>
vars == <<hubVars, upstream, clientVars>>

PumpStates == {"none", "read", "send", "last", "drain", "close", "signal",
               "grace", "over"}
ClientStates == {"idle", "lock", "waiting", "opening", "opened", "reading",
                 "writing", "leaving", "returned"}

Init == /\ sess = [k \in Keys |-> None]
        /\ creating = [k \in Keys |-> None]
        /\ announced = {}
        /\ upstream = {}
        /\ pump = [s \in Clients |-> "none"]
        /\ subs = [s \in Clients |-> {}]
        /\ done = {}
        /\ pc = [c \in Clients |-> "idle"]
        /\ want \in [Clients -> Keys]
        /\ of = [c \in Clients |-> None]
        /\ chan = [c \in Clients |-> "none"]
        /\ buf = [c \in Clients |-> 0]
        /\ watching = {}
        /\ cancelled = {}

Goto(c, label) == pc' = [pc EXCEPT ![c] = label]
----------------------------------------------------------------------------
(* Subscribe. *)

Start(c) == /\ pc[c] = "idle"
            /\ Goto(c, "lock")
            /\ UNCHANGED <<hubVars, upstream, want, of, chan, buf, watching, cancelled>>

(* liveSession(key) finds a session: one that is in the map and not done. *)
Live(k) == sess[k] # None /\ sess[k] \notin done

(* addSubLocked, and the watch goroutine that Subscribe starts with it. *)
AddSub(c, s) == /\ subs' = [subs EXCEPT ![s] = @ \cup {c}]
                /\ chan' = [chan EXCEPT ![c] = "open"]
                /\ of' = [of EXCEPT ![c] = s]
                /\ watching' = watching \cup {c}

Join(c) == /\ pc[c] = "lock"
           /\ Live(want[c])
           /\ AddSub(c, sess[want[c]])
           /\ Goto(c, "reading")
           /\ UNCHANGED <<sess, creating, announced, upstream, pump, done,
                          want, buf, cancelled>>

(* A session that is done is dropped from the map on the way. *)
Wait(c) == /\ pc[c] = "lock"
           /\ ~ Live(want[c])
           /\ creating[want[c]] # None
           /\ sess' = [sess EXCEPT ![want[c]] = None]
           /\ of' = [of EXCEPT ![c] = creating[want[c]]]
           /\ Goto(c, "waiting")
           /\ UNCHANGED <<creating, announced, upstream, pump, subs, done,
                          want, chan, buf, watching, cancelled>>

(* Mutant: no look at h.creating. *)
CreateAnyway(c) == /\ pc[c] = "lock"
                   /\ ~ Live(want[c])
                   /\ sess' = [sess EXCEPT ![want[c]] = None]
                   /\ creating' = [creating EXCEPT ![want[c]] = c]
                   /\ Goto(c, "opening")
                   /\ UNCHANGED <<announced, upstream, pump, subs, done, want,
                                  of, chan, buf, watching, cancelled>>

Create(c) == /\ pc[c] = "lock"
             /\ ~ Live(want[c])
             /\ creating[want[c]] = None
             /\ sess' = [sess EXCEPT ![want[c]] = None]
             /\ creating' = [creating EXCEPT ![want[c]] = c]
             /\ Goto(c, "opening")
             /\ UNCHANGED <<announced, upstream, pump, subs, done, want, of,
                            chan, buf, watching, cancelled>>

(* The creator has closed its channel: start again from the top. *)
Wake(c) == /\ pc[c] = "waiting"
           /\ of[c] \in announced
           /\ of' = [of EXCEPT ![c] = None]
           /\ Goto(c, "lock")
           /\ UNCHANGED <<hubVars, upstream, want, chan, buf, watching, cancelled>>

WaitCancelled(c) == /\ pc[c] = "waiting"
                    /\ c \in cancelled
                    /\ of' = [of EXCEPT ![c] = None]
                    /\ Goto(c, "returned")
                    /\ UNCHANGED <<hubVars, upstream, want, chan, buf, watching,
                                   cancelled>>

OpenOk(c) == /\ pc[c] = "opening"
             /\ upstream' = upstream \cup {c}
             /\ Goto(c, "opened")
             /\ UNCHANGED <<hubVars, want, of, chan, buf, watching, cancelled>>

(* Mutant: the error path forgets to close the channel of the waiters. *)
OpenFailSilent(c) == /\ pc[c] = "opening"
                     /\ creating' = [creating EXCEPT ![want[c]] = None]
                     /\ Goto(c, "returned")
                     /\ UNCHANGED <<sess, announced, upstream, pump, subs, done,
                                    want, of, chan, buf, watching, cancelled>>

OpenFail(c) == /\ pc[c] = "opening"
               /\ creating' = [creating EXCEPT ![want[c]] = None]
               /\ announced' = announced \cup {c}
               /\ Goto(c, "returned")
               /\ UNCHANGED <<sess, upstream, pump, subs, done, want, of, chan,
                              buf, watching, cancelled>>

Register(c) == /\ pc[c] = "opened"
               /\ sess' = [sess EXCEPT ![want[c]] = c]
               /\ AddSub(c, c)
               /\ creating' = [creating EXCEPT ![want[c]] = None]
               /\ announced' = announced \cup {c}
               /\ pump' = [pump EXCEPT ![c] = "read"]
               /\ Goto(c, "reading")
               /\ UNCHANGED <<upstream, done, want, buf, cancelled>>
----------------------------------------------------------------------------
(* pump(s): copy from the upstream until it ends, then the deferred steps. *)

PumpGoto(s, from, to) == /\ pump[s] = from
                         /\ pump' = [pump EXCEPT ![s] = to]

(* upstream.Read returned data; data with an error; or just an error. *)
PumpRead(s) == /\ PumpGoto(s, "read", "send")
               /\ UNCHANGED <<sess, creating, announced, upstream, subs, done,
                              clientVars>>

PumpReadLast(s) == /\ \/ PumpGoto(s, "read", "last")
                      \/ PumpGoto(s, "read", "drain")
                   /\ UNCHANGED <<sess, creating, announced, upstream, subs, done,
                                  clientVars>>

(* Mutant: a send that blocks until every subscriber has room. *)
PumpSendBlocks(s) == /\ \A c \in subs[s] : buf[c] < ClientBuf
                     /\ \/ PumpGoto(s, "send", "read")
                        \/ PumpGoto(s, "last", "drain")
                     /\ buf' = [c \in Clients |-> IF c \in subs[s] THEN buf[c] + 1
                                                  ELSE buf[c]]
                     /\ UNCHANGED <<sess, creating, announced, upstream, subs,
                                    done, pc, want, of, chan, watching, cancelled>>

(* One chunk to every subscriber; one whose channel is full loses it. *)
PumpSend(s) == /\ \/ PumpGoto(s, "send", "read")
                  \/ PumpGoto(s, "last", "drain")
               /\ buf' = [c \in Clients |->
                            IF c \in subs[s] /\ buf[c] < ClientBuf
                            THEN buf[c] + 1 ELSE buf[c]]
               /\ UNCHANGED <<sess, creating, announced, upstream, subs, done,
                              pc, want, of, chan, watching, cancelled>>

(* Mutant: the table is emptied and the channels left open. *)
PumpDrainSilent(s) == /\ PumpGoto(s, "drain", "close")
                      /\ subs' = [subs EXCEPT ![s] = {}]
                      /\ UNCHANGED <<sess, creating, announced, upstream, done,
                                     clientVars>>

PumpDrain(s) == /\ PumpGoto(s, "drain", "close")
                /\ chan' = [c \in Clients |->
                              IF c \in subs[s] THEN "closed" ELSE chan[c]]
                /\ subs' = [subs EXCEPT ![s] = {}]
                /\ UNCHANGED <<sess, creating, announced, upstream, done, pc,
                               want, of, buf, watching, cancelled>>

PumpClose(s) == /\ PumpGoto(s, "close", "signal")
                /\ upstream' = upstream \ {s}
                /\ UNCHANGED <<sess, creating, announced, subs, done, clientVars>>

PumpSignal(s) == /\ PumpGoto(s, "signal", "grace")
                 /\ done' = done \cup {s}
                 /\ UNCHANGED <<sess, creating, announced, upstream, subs,
                                clientVars>>

(* Mutant: no check that the map still holds this session. *)
PumpExpireAny(s) == /\ PumpGoto(s, "grace", "over")
                    /\ sess' = [sess EXCEPT ![want[s]] = None]
                    /\ UNCHANGED <<creating, announced, upstream, subs, done,
                                   clientVars>>

(* After IdleGrace: forget the session, unless another has its key by now. *)
PumpExpire(s) == /\ PumpGoto(s, "grace", "over")
                 /\ sess' = [k \in Keys |->
                               IF k = want[s] /\ sess[k] = s THEN None ELSE sess[k]]
                 /\ UNCHANGED <<creating, announced, upstream, subs, done,
                                clientVars>>
----------------------------------------------------------------------------
(* The subscriber: Read and Close, called by the play handler's io.Copy and
   its deferred Close, and by the watch goroutine. *)

(* Mutant: the channel is closed, and stays in the table. *)
CloseKeeps(c) ==
    /\ subs' = subs
    /\ chan' = IF c \in subs[of[c]] /\ of[c] \notin done
               THEN [chan EXCEPT ![c] = "closed"] ELSE chan

(* Close removes the subscriber from its session, and closes its channel
   unless the session is done; a second Close finds nothing to remove. *)
Close(c) ==
    LET s == of[c] IN
    /\ subs' = [subs EXCEPT ![s] = @ \ {c}]
    /\ chan' = IF c \in subs[s] /\ s \notin done
               THEN [chan EXCEPT ![c] = "closed"] ELSE chan

Read(c) == /\ pc[c] = "reading"
           /\ buf[c] > 0
           /\ buf' = [buf EXCEPT ![c] = @ - 1]
           /\ Goto(c, "writing")
           /\ UNCHANGED <<hubVars, upstream, want, of, chan, watching, cancelled>>

(* A closed channel still gives the chunks it holds before the end. *)
ReadEOF(c) == /\ pc[c] = "reading"
              /\ buf[c] = 0
              /\ chan[c] = "closed"
              /\ Goto(c, "leaving")
              /\ UNCHANGED <<hubVars, upstream, want, of, chan, buf, watching,
                             cancelled>>

(* The write of a chunk to the client may take for ever, and may fail. *)
WriteOk(c) == /\ pc[c] = "writing"
              /\ Goto(c, "reading")
              /\ UNCHANGED <<hubVars, upstream, want, of, chan, buf, watching,
                             cancelled>>

WriteFail(c) == /\ pc[c] = "writing"
                /\ Goto(c, "leaving")
                /\ UNCHANGED <<hubVars, upstream, want, of, chan, buf, watching,
                               cancelled>>

Leave(c) == /\ pc[c] = "leaving"
            /\ Close(c)
            /\ Goto(c, "returned")
            /\ UNCHANGED <<sess, creating, announced, upstream, pump, done,
                           want, of, buf, watching, cancelled>>

WatchCancel(c) == /\ c \in watching
                  /\ c \in cancelled
                  /\ Close(c)
                  /\ watching' = watching \ {c}
                  /\ UNCHANGED <<sess, creating, announced, upstream, pump, done,
                                 pc, want, of, buf, cancelled>>

WatchDone(c) == /\ c \in watching
                /\ of[c] \in done
                /\ watching' = watching \ {c}
                /\ UNCHANGED <<hubVars, upstream, pc, want, of, chan, buf, cancelled>>

(* The client's context ends: it went away, or its handler returned. *)
Cancel(c) == /\ pc[c] # "idle"
             /\ c \notin cancelled
             /\ cancelled' = cancelled \cup {c}
             /\ UNCHANGED <<hubVars, upstream, pc, want, of, chan, buf, watching>>
----------------------------------------------------------------------------
Subscribing(c) == Join(c) \/ Wait(c) \/ Create(c) \/ Wake(c) \/ WaitCancelled(c)
                    \/ Register(c)

Opening(c) == OpenOk(c) \/ OpenFail(c)

Reading(c) == Read(c) \/ ReadEOF(c) \/ Leave(c)

Writing(c) == WriteOk(c) \/ WriteFail(c)

Watching(c) == WatchCancel(c) \/ WatchDone(c)

Ending(s) == PumpDrain(s) \/ PumpClose(s) \/ PumpSignal(s) \/ PumpExpire(s)

Next == \E c \in Clients :
          \/ Start(c) \/ Subscribing(c) \/ Opening(c)
          \/ Reading(c) \/ Writing(c) \/ Watching(c) \/ Cancel(c)
          \/ PumpRead(c) \/ PumpReadLast(c) \/ PumpSend(c) \/ Ending(c)

Spec == Init /\ [][Next]_vars

(* A goroutine that can go on does: nothing in the hub keeps it from its
   mutexes for ever.  Nothing is assumed of the upstream (Opening, PumpRead,
   PumpReadLast), of the clients' sockets (Writing) or of when clients come
   and go (Start, Cancel). *)
Fairness == \A c \in Clients :
              /\ WF_vars(Subscribing(c))
              /\ WF_vars(Reading(c))
              /\ WF_vars(Watching(c))
              /\ WF_vars(PumpSend(c))
              /\ WF_vars(Ending(c))

FairSpec == Spec /\ Fairness
=============================================================================
