--------------------------- MODULE SourceStreams ---------------------------
(* One provider under both kinds of play: OpenLive and OpenVOD take the slots of a
   source from one pool, which poolFor makes for whoever comes first.  The module
   composes LiveStream, which it extends, with an instance of VodStream whose own
   pool never runs out; what limits both is the shared pool. *)
EXTENDS LiveStream

CONSTANTS Plays,        \* calls of OpenVOD
          Media,        \* the cache keys of VOD files
          Provider      \* the source of the files

VARIABLES objs, fills, filled, run, purgatory, cached, vodPc, vodWant, src, passes,
          expected, vodOf, file, at, off, restarts, vpc, ranged, vpath, vodHeld

Enough == Cardinality(Plays) + 1

V == INSTANCE VodStream WITH
         Calls <- Plays, Keys <- Media, Size <- 1, MaxRestarts <- 0,
         MaxSlots <- Enough, Numbers <- {0}, Sizes <- {1},
         done <- filled, pc <- vodPc, want <- vodWant, of <- vodOf, held <- vodHeld

ASSUME SourceAssumption == /\ Provider \in Sources /\ IsFiniteSet(Plays)
                           /\ None \notin Plays \cup V!Files \cup V!Objects

playVars == <<objs, fills, filled, run, purgatory, cached, vodPc, vodWant, src, passes,
              expected, vodOf, file, at, off, restarts, vpc, ranged, vpath, vodHeld>>
bothVars == <<allVars, playVars>>

BothInit == LiveInit /\ V!VodInit

(* The slots of the provider that are taken, by lives and by plays. *)
Used == Cardinality(held[Provider]) + Cardinality(vodHeld)

(* Mutant: plays have a pool of their own. *)
SlotsLeftApart == Used' > Used => Cardinality(vodHeld') <= pools[Provider]

(* pool.Acquire of either kind. *)
SlotsLeft == Used' > Used => Used' <= pools[Provider]

(* A play that goes for a slot asks poolFor, which may be the pool's first use. *)
PoolForPlay == IF \E p \in Plays : vpc[p] # "slot" /\ vpc'[p] = "slot"
               THEN PoolFor(Provider) ELSE UNCHANGED pools

OfLive(A) == A /\ UNCHANGED playVars /\ SlotsLeft
OfVod(A) == A /\ PoolForPlay /\ UNCHANGED <<vars, held, phase>> /\ SlotsLeft

BothNext == OfLive(LiveNext) \/ OfVod(V!VodNext)

BothSpec == BothInit /\ [][BothNext]_bothVars

(* The goroutine of a client, up to its stream, and the pump of a session. *)
ClientGoesOn(c) == LiveSubscribing(c) \/ Http(c)
PumpGoesOn(s) == Unleased(PumpSend(s)) \/ LiveEnding(s)

(* The goroutine of a play, up to the reader it returns; a body that it proxies is
   read to its end and closed.  The goroutine of its fill, whose source ends. *)
PlayGoesOn(p) == V!Looking(p) \/ V!Fetching(p) \/ V!VodCalling(p) \/ V!Answering(p)
                   \/ V!DirectClose(p)
FillGoesOn(p) == V!Plain(V!CopyEnd(p)) \/ V!VodFilling(p) \/ V!CloseLeased(p)

(* Goroutines go on, the upstream answers, and what it sends of a file comes to an
   end; a slot that comes free again and again is given to each who waits. *)
BothFairness ==
    /\ \A c \in Clients : /\ WF_bothVars(OfLive(ClientGoesOn(c)))
                          /\ SF_bothVars(OfLive(TakeSlot(c)))
                          /\ WF_bothVars(OfLive(PumpGoesOn(c)))
    /\ \A p \in Plays : /\ WF_bothVars(OfVod(PlayGoesOn(p)))
                        /\ SF_bothVars(OfVod(V!TakeSlot(p)))
                        /\ WF_bothVars(OfVod(FillGoesOn(p)))
----------------------------------------------------------------------------
(* The connections to one provider, live sessions and VOD plays and fills together,
   never outnumber what the provider allows. *)
ProviderSharedLimit ==
    Cardinality(Connections(Provider)) + Cardinality({p \in Plays : V!Connected(p)})
        <= pools[Provider]

(* The slots that no Close will give back: those of plays that OpenOrFill has served
   from the cache or from another's fill, and whose own body is left open. *)
Lost == {p \in Plays : p \in vodHeld /\ vodPc[p] = "hit" /\ V!Finished(p)}
AllLost == Cardinality(Lost) = pools[Provider]

(* The lost slots are all that can starve anybody.  While one slot is left, lives and
   plays keep nobody waiting for ever: every client gets its stream or an error, the
   ones that wait behind another's open() too, and every play gets past its wait for
   a slot, though a play that has one may wait in OpenOrFill for another's fill. *)
OnlyLostSlotsStarve ==
    /\ \A c \in Clients : []<>(Subscribed(c) \/ AllLost)
    /\ \A p \in Plays : []<>(vpc[p] # "slot" \/ AllLost)
=============================================================================
