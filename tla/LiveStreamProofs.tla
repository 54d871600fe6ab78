-------------------------- MODULE LiveStreamProofs --------------------------
(* What LiveStream states, for any number of clients, keys and sources: the live
   streams are the hub, and a slot is held for exactly the connections to a provider;
   and what SourceStreams states of both kinds of play on the pool of one source.

   Where a client in open() is (phase) and where the hub has it (pc) are two pieces
   of state.  PhaseOfOpening ties them together; with it, the hub's own invariant
   says that a client that gives a slot back after an error has no body open, and
   that a pump that closes a body does so for a client that is past open(). *)
EXTENDS SourceStreams, HubProofs, FiniteSetTheorems

PhaseOfOpening ==
    /\ phase \in [Clients -> {"none", "slot", "http", "failed"}]
    /\ \A c \in Clients : phase[c] # "none" <=> pc[c] = "opening"

PoolsAndHolders == /\ pools \in [Sources -> Nat]
                   /\ held \in [Sources -> SUBSET Clients]

LiveIInv == IInv /\ PhaseOfOpening /\ PoolsAndHolders /\ LeaseCoversConnection

(* Every step of the streams is a step of the hub, or leaves the hub alone. *)
LEMMA LiveNextIsHubNext == [LiveNext]_allVars => [Next]_vars
<1> SUFFICES ASSUME LiveNext, ~ UNCHANGED vars PROVE Next
  BY DEF allVars
<1>1. PICK c \in Clients :
        \/ OpenLive(c) \/ LiveSubscribing(c) \/ TakeSlot(c) \/ Http(c)
        \/ Unleased(Reading(c) \/ Writing(c) \/ Watching(c) \/ Cancel(c))
        \/ Unleased(PumpRead(c) \/ PumpReadLast(c) \/ PumpSend(c))
        \/ LiveEnding(c)
  BY DEF LiveNext
<1>2. CASE OpenLive(c)
  BY <1>2 DEF OpenLive, Next
<1>3. CASE LiveSubscribing(c)
  BY <1>3 DEF LiveSubscribing, Unleased, LiveCreate, SlotCancelled, FailOpen, Next,
              Subscribing, Opening
<1>4. CASE TakeSlot(c) \/ HttpError(c)
  BY <1>4 DEF TakeSlot, HttpError
<1>5. CASE HttpOk(c)
  BY <1>5 DEF HttpOk, Next, Opening
<1>6. CASE Unleased(Reading(c) \/ Writing(c) \/ Watching(c) \/ Cancel(c))
  BY <1>6 DEF Unleased, Next
<1>7. CASE Unleased(PumpRead(c) \/ PumpReadLast(c) \/ PumpSend(c))
  BY <1>7 DEF Unleased, Next
<1>8. CASE LiveEnding(c)
  BY <1>8 DEF LiveEnding, Unleased, CloseLeased, Next, Ending
<1> QED
  BY <1>1, <1>2, <1>3, <1>4, <1>5, <1>6, <1>7, <1>8 DEF Http

(* The hub seen through the manager is the hub. *)
THEOREM LiveImplementsHub == LiveSpec => ImplementsHub
<1>1. LiveInit => Init
  BY DEF LiveInit
<1> QED
  BY <1>1, LiveNextIsHubNext, PTL DEF LiveSpec, ImplementsHub, Spec

LEMMA LiveInitIInv == LiveInit => LiveIInv
<1> SUFFICES ASSUME LiveInit PROVE LiveIInv
  OBVIOUS
<1>1. IInv
  BY InitIInv DEF LiveInit
<1>2. PhaseOfOpening /\ PoolsAndHolders
  BY DEF LiveInit, Init, PhaseOfOpening, PoolsAndHolders
<1>3. ASSUME NEW s \in Sources
      PROVE  held[s] = Connections(s) /\ Cardinality(held[s]) <= pools[s]
  BY FS_EmptySet DEF LiveInit, Init, Connections
<1> QED
  BY <1>1, <1>2, <1>3 DEF LiveIInv, LeaseCoversConnection

(* Only LiveCreate enters open(), and the three steps that leave it reset the phase. *)
LEMMA NextPhaseOfOpening == LiveIInv /\ [LiveNext]_allVars => PhaseOfOpening'
<1> SUFFICES ASSUME LiveIInv, [LiveNext]_allVars PROVE PhaseOfOpening'
  OBVIOUS
<1>0. TypeOK /\ PhaseOfOpening
  BY DEF LiveIInv, IInv
<1> USE DEF TypeOK, PhaseOfOpening, Goto, liveVars, hubVars, clientVars
<1>1. ASSUME NEW c \in Clients, OpenLive(c) PROVE PhaseOfOpening'
  BY <1>0, <1>1 DEF OpenLive, Start
<1>2. ASSUME NEW c \in Clients, LiveCreate(c) PROVE PhaseOfOpening'
  BY <1>0, <1>2 DEF LiveCreate, Create
<1>3. ASSUME NEW c \in Clients, SlotCancelled(c) \/ FailOpen(c) PROVE PhaseOfOpening'
  BY <1>0, <1>3 DEF SlotCancelled, FailOpen, OpenFail
<1>4. ASSUME NEW c \in Clients, HttpOk(c) PROVE PhaseOfOpening'
  BY <1>0, <1>4 DEF HttpOk, OpenOk
<1>5. ASSUME NEW c \in Clients, TakeSlot(c) \/ HttpError(c) PROVE PhaseOfOpening'
  BY <1>0, <1>5 DEF TakeSlot, HttpError, vars
<1>6. ASSUME NEW c \in Clients, CloseLeased(c) PROVE PhaseOfOpening'
  BY <1>0, <1>6 DEF CloseLeased, PumpClose
<1>7. ASSUME NEW c \in Clients, UNCHANGED liveVars,
             Join(c) \/ Wait(c) \/ Wake(c) \/ WaitCancelled(c) \/ Register(c)
      PROVE  PhaseOfOpening'
  BY <1>0, <1>7 DEF Join, Wait, Wake, WaitCancelled, Register
<1>8. ASSUME NEW c \in Clients, UNCHANGED liveVars,
             Reading(c) \/ Writing(c) \/ Watching(c) \/ Cancel(c)
      PROVE  PhaseOfOpening'
  BY <1>0, <1>8 DEF Reading, Read, ReadEOF, Leave, Writing, WriteOk, WriteFail,
                    Watching, WatchCancel, WatchDone, Cancel
<1>9. ASSUME UNCHANGED <<pc, phase>> PROVE PhaseOfOpening'
  BY <1>0, <1>9
<1> QED
  BY <1>1, <1>2, <1>3, <1>4, <1>5, <1>6, <1>7, <1>8, <1>9
  DEF LiveNext, allVars, vars, LiveSubscribing, Unleased, Http, LiveEnding, PumpRead,
      PumpReadLast, PumpSend, PumpDrain, PumpSignal, PumpExpire

(* poolFor makes a pool or leaves all as they are: no capacity ever shrinks. *)
LEMMA PoolForGrows ==
  ASSUME PoolsAndHolders, NEW r \in Sources, PoolFor(r)
  PROVE  /\ pools' \in [Sources -> Nat]
         /\ \A s \in Sources : pools[s] <= pools'[s]
<1>1. CASE pools' = pools
  BY <1>1 DEF PoolsAndHolders
<1>2. CASE pools[r] = 0 /\ pools' # pools
  <2>1. PICK limit \in Limits : pools' = [pools EXCEPT ![r] = Capacity(limit)]
    BY <1>2 DEF PoolFor
  <2>2. Capacity(limit) \in Nat
    BY LiveAssumption DEF Capacity, DefaultLimit
  <2> QED
    BY <1>2, <2>1, <2>2 DEF PoolsAndHolders
<1> QED
  BY <1>1, <1>2 DEF PoolFor

(* A slot is taken before the request, handed to the body by HttpOk, and given back by
   the one step that ends the connection; no other step touches slots or bodies. *)
LEMMA NextLeases ==
    LiveIInv /\ [LiveNext]_allVars => PoolsAndHolders' /\ LeaseCoversConnection'
<1> SUFFICES ASSUME LiveIInv, [LiveNext]_allVars
             PROVE  PoolsAndHolders' /\ LeaseCoversConnection'
  OBVIOUS
<1> DEFINE Covered == PoolsAndHolders' /\ LeaseCoversConnection'
<1>0. /\ TypeOK /\ SessionLife /\ PhaseOfOpening
      /\ PoolsAndHolders /\ LeaseCoversConnection
  BY DEF LiveIInv, IInv
<1>a. \A c \in Clients : Src(c) \in Sources
  BY <1>0, LiveAssumption DEF Src, TypeOK
<1>1. ASSUME NEW c \in Clients, OpenLive(c) PROVE Covered
  <2>1. pools' \in [Sources -> Nat]
        /\ \A s \in Sources : pools[s] <= pools'[s]
    BY <1>0, <1>1, <1>a, PoolForGrows DEF OpenLive
  <2>2. UNCHANGED <<held, phase, upstream, want>>
    BY <1>1 DEF OpenLive, Start
  <2>3. \A s \in Sources : held[s] \in SUBSET Clients /\ Cardinality(held[s]) \in Nat
    BY <1>0, LiveAssumption, FS_Subset, FS_CardinalityType DEF PoolsAndHolders
  <2> QED
    BY <1>0, <2>1, <2>2, <2>3
    DEF PoolsAndHolders, LeaseCoversConnection, Connections, Src
<1>2. ASSUME NEW c \in Clients, TakeSlot(c) PROVE Covered
  <2>1. UNCHANGED <<pools, upstream, want>>
    BY <1>2 DEF TakeSlot, vars, clientVars
  <2>2. PoolsAndHolders'
    BY <1>0, <1>2, <2>1 DEF PoolsAndHolders, TakeSlot
  <2>3. ASSUME NEW s \in Sources PROVE held'[s] = Connections(s)'
    BY <1>0, <1>2, <1>a, <2>1
    DEF PoolsAndHolders, LeaseCoversConnection, Connections, Src, TakeSlot, PhaseOfOpening
  <2>4. ASSUME NEW s \in Sources PROVE Cardinality(held'[s]) <= pools'[s]
    <3>1. IsFiniteSet(held[s]) /\ Cardinality(held[s]) \in Nat
      BY <1>0, LiveAssumption, FS_Subset, FS_CardinalityType DEF PoolsAndHolders
    <3>2. CASE s = Src(c)
      <4>1. held'[s] = held[s] \cup {c}
        BY <1>0, <1>2, <3>2 DEF PoolsAndHolders, TakeSlot
      <4>2. Cardinality(held'[s]) <= Cardinality(held[s]) + 1
        <5>1. CASE c \in held[s]
          <6>1. held'[s] = held[s]
            BY <4>1, <5>1
          <6> QED
            BY <3>1, <6>1
        <5>2. CASE c \notin held[s]
          <6>1. Cardinality(held[s] \cup {c}) = Cardinality(held[s]) + 1
            BY <3>1, <5>2, FS_AddElement
          <6> QED
            BY <3>1, <4>1, <6>1
        <5> QED
          BY <5>1, <5>2
      <4>3. IsFiniteSet(held'[s])
        BY <3>1, <4>1, FS_AddElement
      <4>4. Cardinality(held'[s]) \in Nat
        BY <4>3, FS_CardinalityType
      <4>5. Cardinality(held[s]) < pools[s]
        BY <1>2, <3>2 DEF TakeSlot
      <4> QED
        BY <1>0, <2>1, <3>1, <4>2, <4>4, <4>5 DEF PoolsAndHolders
    <3>3. CASE s # Src(c)
      BY <1>0, <1>2, <2>1, <3>3 DEF PoolsAndHolders, LeaseCoversConnection, TakeSlot
    <3> QED
      BY <3>2, <3>3
  <2> QED
    BY <2>2, <2>3, <2>4 DEF LeaseCoversConnection
<1>3. ASSUME NEW c \in Clients, HttpOk(c) PROVE Covered
  BY <1>0, <1>3
  DEF PoolsAndHolders, LeaseCoversConnection, Connections, Src, HttpOk, OpenOk,
      PhaseOfOpening
<1>4. ASSUME NEW c \in Clients, HttpError(c) \/ CloseLeased(c) PROVE Covered
  <2>1. /\ UNCHANGED <<pools, want>>
        /\ held' = [held EXCEPT ![Src(c)] = @ \ {c}]
    BY <1>4 DEF HttpError, CloseLeased, PumpClose, vars, clientVars
  <2>2. PoolsAndHolders'
    BY <1>0, <2>1 DEF PoolsAndHolders
  <2>3. /\ c \notin upstream' /\ phase'[c] # "http"
        /\ \A d \in Clients \ {c} : /\ d \in upstream' <=> d \in upstream
                                    /\ phase'[d] = phase[d]
    <3>1. CASE HttpError(c)
      <4>1. pc[c] = "opening"
        BY <1>0, <3>1 DEF HttpError, PhaseOfOpening
      <4>2. c \notin upstream
        BY <1>0, <4>1 DEF SessionLife
      <4> QED
        BY <1>0, <3>1, <4>2 DEF HttpError, PhaseOfOpening, vars
    <3>2. CASE CloseLeased(c)
      <4>1. pc[c] # "opening"
        BY <1>0, <3>2 DEF CloseLeased, PumpClose, PumpGoto, SessionLife
      <4> QED
        BY <1>0, <3>2, <4>1 DEF CloseLeased, PumpClose, PhaseOfOpening
    <3> QED
      BY <1>4, <3>1, <3>2
  <2>4. ASSUME NEW s \in Sources PROVE held'[s] = Connections(s)'
    BY <1>0, <1>a, <2>1, <2>3
    DEF PoolsAndHolders, LeaseCoversConnection, Connections, Src
  <2>5. ASSUME NEW s \in Sources PROVE Cardinality(held'[s]) <= pools'[s]
    <3>1. held'[s] \subseteq held[s] /\ IsFiniteSet(held[s])
      BY <1>0, <2>1, LiveAssumption, FS_Subset DEF PoolsAndHolders
    <3>2. /\ Cardinality(held'[s]) <= Cardinality(held[s])
          /\ Cardinality(held'[s]) \in Nat /\ Cardinality(held[s]) \in Nat
      BY <3>1, FS_Subset, FS_CardinalityType
    <3> QED
      BY <1>0, <2>1, <3>2 DEF PoolsAndHolders, LeaseCoversConnection
  <2> QED
    BY <2>2, <2>4, <2>5 DEF LeaseCoversConnection
<1>5. ASSUME NEW c \in Clients, LiveCreate(c) \/ SlotCancelled(c) \/ FailOpen(c)
      PROVE  Covered
  <2>1. UNCHANGED <<pools, held, upstream, want>>
    BY <1>5 DEF LiveCreate, Create, SlotCancelled, FailOpen, OpenFail
  <2>2. \A d \in Clients : phase'[d] = "http" <=> phase[d] = "http"
    BY <1>0, <1>5
    DEF LiveCreate, Create, SlotCancelled, FailOpen, OpenFail, PhaseOfOpening
  <2> QED
    BY <1>0, <2>1, <2>2 DEF PoolsAndHolders, LeaseCoversConnection, Connections, Src
<1>6. ASSUME UNCHANGED <<liveVars, upstream, want>> PROVE Covered
  BY <1>0, <1>6
  DEF PoolsAndHolders, LeaseCoversConnection, liveVars, Connections, Src
<1> QED
  BY <1>1, <1>2, <1>3, <1>4, <1>5, <1>6
  DEF LiveNext, allVars, vars, hubVars, clientVars, LiveSubscribing, Unleased, Http,
      LiveEnding, Reading, Writing, Watching, Join, Wait, Wake, WaitCancelled, Register,
      Read, ReadEOF, Leave, WriteOk, WriteFail, WatchCancel, WatchDone, Cancel,
      PumpRead, PumpReadLast, PumpSend, PumpDrain, PumpSignal, PumpExpire

LEMMA LiveNextIInv == LiveIInv /\ [LiveNext]_allVars => LiveIInv'
BY LiveNextIsHubNext, NextIInv, NextPhaseOfOpening, NextLeases DEF LiveIInv

(* A lease covers each connection to a provider and nothing else, and no source has
   more connections than its pool has slots. *)
THEOREM LiveLeaseCoversConnection == LiveSpec => []LeaseCoversConnection
<1>1. LiveIInv => LeaseCoversConnection
  BY DEF LiveIInv
<1> QED
  BY LiveInitIInv, LiveNextIInv, <1>1, PTL DEF LiveSpec
----------------------------------------------------------------------------
(* The proofs about OpenVOD, of the plays of SourceStreams.  V and VP are instances
   of the same definitions. *)
VP == INSTANCE VodStreamProofs WITH
          Calls <- Plays, Keys <- Media, Size <- 1, MaxRestarts <- 0,
          MaxSlots <- Enough, Numbers <- {0}, Sizes <- {1},
          done <- filled, pc <- vodPc, want <- vodWant, of <- vodOf, held <- vodHeld

LEMMA PlaysAreCalls == VP!CacheAssumption /\ VP!VodAssumption /\ VP!RangeAssumption
<1>1. VP!Files = V!Files /\ VP!Objects = V!Objects
  BY DEF VP!Files, V!Files, VP!Objects, V!Objects
<1>2. VP!CacheAssumption
  BY <1>1, SourceAssumption DEF VP!CacheAssumption
<1>3. VP!VodAssumption
  BY SourceAssumption, FS_CardinalityType DEF VP!VodAssumption, Enough
<1>4. VP!RangeAssumption
  BY DEF VP!RangeAssumption
<1> QED
  BY <1>2, <1>3, <1>4

LEMMA PlaysInit == V!VodInit => VP!VodIInv
<1>1. V!VodInit => VP!VodInit
  BY Zenon DEF V!VodInit, VP!VodInit, V!Init, VP!Init
<1> QED
  BY <1>1, PlaysAreCalls, VP!VodInitIInv

LEMMA PlayStep == V!VodNext => VP!VodNext
<1> USE DEF V!indexVars, VP!indexVars, V!diskVars, VP!diskVars, V!readerVars,
      VP!readerVars, V!givenVars, VP!givenVars, V!vars, VP!vars, V!vodVars, VP!vodVars,
      V!allVars, VP!allVars, V!Goto, VP!Goto, V!RunTo, VP!RunTo, V!Valid, VP!Valid,
      V!FileAt, VP!FileAt, V!VodGoto, VP!VodGoto, V!Plain, VP!Plain
<1>1. ASSUME NEW c \in Plays, V!Play(c) \/ V!Looking(c) \/ V!TakeSlot(c) \/ V!SlotCancelled(c)
      PROVE  VP!Play(c) \/ VP!Looking(c) \/ VP!TakeSlot(c) \/ VP!SlotCancelled(c)
  BY <1>1, Zenon DEF V!Play, VP!Play, V!Looking, VP!Looking, V!GetValidated,
      VP!GetValidated, V!GetMiss, VP!GetMiss, V!OpenLocal, VP!OpenLocal, V!TakeSlot,
      VP!TakeSlot, V!Cardinality, VP!Cardinality, V!SlotCancelled, VP!SlotCancelled
<1>2. ASSUME NEW c \in Plays, V!Fetching(c) \/ V!DirectClose(c)
      PROVE  VP!Fetching(c) \/ VP!DirectClose(c)
  BY <1>2, Zenon DEF V!Fetching, VP!Fetching, V!FetchDirect, VP!FetchDirect,
      V!FetchToFill, VP!FetchToFill, V!FetchError, VP!FetchError, V!Begin, VP!Begin,
      V!DirectClose, VP!DirectClose
<1>3. ASSUME NEW c \in Plays, V!Answering(c) \/ V!CloseLeased(c)
      PROVE  VP!Answering(c) \/ VP!CloseLeased(c)
  BY <1>3, Zenon DEF V!Answering, VP!Answering, V!FillServes, VP!FillServes,
      V!FillFails, VP!FillFails, V!GiveUp, VP!GiveUp, V!CloseLeased, VP!CloseLeased,
      V!CloseSource, VP!CloseSource, V!CreateFailed, VP!CreateFailed
<1>4. ASSUME NEW c \in Plays, V!VodCalling(c)
      PROVE  VP!VodCalling(c)
  BY <1>4, Zenon DEF V!VodCalling, VP!VodCalling, V!Hit, VP!Hit, V!OpenHit, VP!OpenHit,
      V!WaitFill, VP!WaitFill, V!WaitDone, VP!WaitDone, V!NoSource, VP!NoSource, V!Miss,
      VP!Miss, V!StartFill, VP!StartFill, V!CreateFile, VP!CreateFile, V!CreateFail,
      VP!CreateFail, V!StatFound, VP!StatFound, V!StatTimeout, VP!StatTimeout
<1>5. ASSUME NEW c \in Plays, V!VodFilling(c)
      PROVE  VP!VodFilling(c)
  BY <1>5, Zenon DEF V!VodFilling, VP!VodFilling, V!Validate, VP!Validate, V!SetObject,
      VP!SetObject, V!MarkCorrupt, VP!MarkCorrupt, V!Rename, VP!Rename, V!RenameFail,
      VP!RenameFail, V!MarkValidated, VP!MarkValidated, V!FinishFill, VP!FinishFill
<1>6. ASSUME NEW c \in Plays, V!VodReading(c)
      PROVE  VP!VodReading(c)
  BY <1>6, Zenon DEF V!VodReading, VP!VodReading, V!Reading, VP!Reading, V!Abandon,
      VP!Abandon, V!ReadChunk, VP!ReadChunk, V!ReadData, VP!ReadData, V!ReadNothing,
      VP!ReadNothing, V!ReadGone, VP!ReadGone, V!ReadAgain, VP!ReadAgain, V!LastAttempt,
      VP!LastAttempt
<1>7. ASSUME NEW c \in Plays, V!Plain(V!WaitCancelled(c)) \/ V!Plain(V!Copy(c)) \/ V!Plain(V!CopyEnd(c))
      PROVE  VP!Plain(VP!WaitCancelled(c)) \/ VP!Plain(VP!Copy(c)) \/ VP!Plain(VP!CopyEnd(c))
  BY <1>7, Zenon DEF V!WaitCancelled, VP!WaitCancelled, V!Copy, VP!Copy, V!CopyEnd,
      VP!CopyEnd
<1>8. ASSUME NEW k \in Media, V!Plain(V!Reap(k)) PROVE VP!Plain(VP!Reap(k))
  BY <1>8, Zenon DEF V!Reap, VP!Reap
<1> HIDE DEF V!Plain, VP!Plain
<1> QED
  BY <1>1, <1>2, <1>3, <1>4, <1>5, <1>6, <1>7, <1>8, Zenon DEF V!VodNext, VP!VodNext

(* What OpenVOD keeps, it keeps on a shared pool, whose limit is one more guard. *)
LEMMA PlaysKeep == VP!VodIInv /\ [V!VodNext]_playVars => VP!VodIInv'
<1>1. UNCHANGED playVars => UNCHANGED VP!allVars
  BY DEF playVars, VP!allVars, VP!vodVars, VP!vars, VP!indexVars, VP!diskVars,
         VP!readerVars, VP!givenVars
<1> QED
  BY <1>1, PlayStep, PlaysAreCalls, VP!VodNextKeeps

LEMMA PlaysHaveSlots ==
  ASSUME VP!VodIInv
  PROVE  /\ {p \in Plays : V!Connected(p)} \subseteq vodHeld
         /\ vodHeld \subseteq Plays
BY DEF VP!VodIInv, VP!SlotInv, VP!VodTypeOK, VP!ConnectionHasSlot, VP!Connected, V!Connected
----------------------------------------------------------------------------
(* The slots that lives and plays hold of the provider fit its pool. *)
UsedWithinLimit == Used <= pools[Provider]
BothIInv == LiveIInv /\ VP!VodIInv /\ UsedWithinLimit

LEMMA UsedIsNat ==
  ASSUME PoolsAndHolders, VP!VodIInv
  PROVE  /\ IsFiniteSet(held[Provider]) /\ IsFiniteSet(vodHeld)
         /\ Cardinality(held[Provider]) \in Nat /\ Cardinality(vodHeld) \in Nat
         /\ Used \in Nat
<1>1. held[Provider] \subseteq Clients /\ vodHeld \subseteq Plays
  BY SourceAssumption, PlaysHaveSlots DEF PoolsAndHolders
<1>2. IsFiniteSet(held[Provider]) /\ IsFiniteSet(vodHeld)
  BY <1>1, LiveAssumption, SourceAssumption, FS_Subset
<1>3. Cardinality(held[Provider]) \in Nat /\ Cardinality(vodHeld) \in Nat
  BY <1>2, FS_CardinalityType
<1> QED
  BY <1>2, <1>3 DEF Used

LEMMA BothInitIInv == BothInit => BothIInv
<1> SUFFICES ASSUME BothInit PROVE BothIInv
  OBVIOUS
<1>1. LiveIInv /\ VP!VodIInv
  BY LiveInitIInv, PlaysInit DEF BothInit
<1>2. held[Provider] = {} /\ vodHeld = {} /\ pools[Provider] = 0
  BY SourceAssumption DEF BothInit, LiveInit, V!VodInit
<1>3. UsedWithinLimit
  BY <1>2, FS_EmptySet DEF UsedWithinLimit, Used
<1> QED
  BY <1>1, <1>3 DEF BothIInv

(* No step of the live streams shrinks a pool: only OpenLive touches one. *)
LEMMA LivePoolsGrow ==
  ASSUME LiveIInv, LiveNext
  PROVE  \A s \in Sources : pools[s] <= pools'[s]
<1>0. /\ PoolsAndHolders
      /\ \A c \in Clients : Src(c) \in Sources
  BY LiveAssumption DEF LiveIInv, IInv, TypeOK, Src
<1>1. ASSUME NEW c \in Clients, OpenLive(c)
      PROVE  \A s \in Sources : pools[s] <= pools'[s]
  BY <1>0, <1>1, PoolForGrows DEF OpenLive
<1>2. CASE UNCHANGED pools
  BY <1>0, <1>2 DEF PoolsAndHolders
<1> QED
  BY <1>1, <1>2
  DEF LiveNext, LiveSubscribing, LiveCreate, SlotCancelled, FailOpen, TakeSlot, Http,
      HttpOk, HttpError, LiveEnding, CloseLeased, Unleased, liveVars

(* A play leaves the live streams as they are, but for the pool it may be the first
   to ask for. *)
LEMMA PlayKeepsLives ==
  ASSUME LiveIInv, PoolForPlay, UNCHANGED <<vars, held, phase>>
  PROVE  /\ LiveIInv'
         /\ \A s \in Sources : pools[s] <= pools'[s]
<1>0. PoolsAndHolders
  BY DEF LiveIInv
<1>1. /\ pools' \in [Sources -> Nat]
      /\ \A s \in Sources : pools[s] <= pools'[s]
  <2>1. CASE PoolFor(Provider)
    BY <1>0, <2>1, SourceAssumption, PoolForGrows
  <2>2. CASE UNCHANGED pools
    BY <1>0, <2>2 DEF PoolsAndHolders
  <2> QED
    BY <2>1, <2>2 DEF PoolForPlay
<1>2. IInv'
  BY NextIInv DEF LiveIInv
<1>3. PhaseOfOpening'
  BY DEF LiveIInv, PhaseOfOpening, vars, clientVars
<1>4. PoolsAndHolders'
  BY <1>0, <1>1 DEF PoolsAndHolders
<1>5. LeaseCoversConnection'
  <2>1. \A s \in Sources : Cardinality(held[s]) \in Nat
    BY <1>0, LiveAssumption, FS_Subset, FS_CardinalityType DEF PoolsAndHolders
  <2> QED
    BY <1>0, <1>1, <2>1
    DEF LiveIInv, LeaseCoversConnection, Connections, Src, PoolsAndHolders, vars,
        clientVars, hubVars
<1> QED
  BY <1>1, <1>2, <1>3, <1>4, <1>5 DEF LiveIInv

(* A step takes a slot only where the pool has one left. *)
LEMMA SlotsKeepLimit ==
  ASSUME PoolsAndHolders, VP!VodIInv, UsedWithinLimit, PoolsAndHolders', VP!VodIInv',
         pools[Provider] <= pools'[Provider], SlotsLeft
  PROVE  UsedWithinLimit'
<1>1. Used \in Nat /\ Used' \in Nat
  <2>1. PoolsAndHolders' /\ VP!VodIInv' => (Used \in Nat)'
    BY UsedIsNat, PTL
  <2> QED
    BY <2>1, UsedIsNat
<1>2. pools[Provider] \in Nat /\ pools'[Provider] \in Nat
  BY SourceAssumption DEF PoolsAndHolders
<1> QED
  BY <1>1, <1>2 DEF UsedWithinLimit, SlotsLeft

LEMMA BothNextIInv == BothIInv /\ [BothNext]_bothVars => BothIInv'
<1> SUFFICES ASSUME BothIInv, [BothNext]_bothVars PROVE BothIInv'
  OBVIOUS
<1>0. LiveIInv /\ PoolsAndHolders /\ VP!VodIInv /\ UsedWithinLimit
  BY DEF BothIInv, LiveIInv
<1>1. CASE OfLive(LiveNext)
  <2>1. LiveIInv'
    BY <1>0, <1>1, LiveNextIInv DEF OfLive
  <2>2. VP!VodIInv'
    BY <1>0, <1>1, PlaysKeep DEF OfLive
  <2>3. pools[Provider] <= pools'[Provider]
    BY <1>0, <1>1, SourceAssumption, LivePoolsGrow DEF OfLive
  <2> QED
    BY <1>0, <1>1, <2>1, <2>2, <2>3, SlotsKeepLimit DEF OfLive, BothIInv, LiveIInv
<1>2. CASE OfVod(V!VodNext)
  <2>1. LiveIInv' /\ pools[Provider] <= pools'[Provider]
    BY <1>0, <1>2, SourceAssumption, PlayKeepsLives DEF OfVod
  <2>2. VP!VodIInv'
    BY <1>0, <1>2, PlaysKeep DEF OfVod
  <2> QED
    BY <1>0, <1>2, <2>1, <2>2, SlotsKeepLimit DEF OfVod, BothIInv, LiveIInv
<1>3. CASE UNCHANGED bothVars
  <2>1. LiveIInv'
    BY <1>0, <1>3, LiveNextIInv DEF bothVars
  <2>2. VP!VodIInv'
    BY <1>0, <1>3, PlaysKeep DEF bothVars
  <2>3. UsedWithinLimit'
    BY <1>0, <1>3 DEF UsedWithinLimit, Used, bothVars, allVars, liveVars, playVars
  <2> QED
    BY <2>1, <2>2, <2>3 DEF BothIInv
<1> QED
  BY <1>1, <1>2, <1>3 DEF BothNext

(* Lives and plays of one source share its slots: whichever kind came first and
   made the pool, and however takes and releases of the two interleave, the
   connections to the provider are never more than its pool allows. *)
THEOREM BothKeepProviderLimit == BothSpec => []ProviderSharedLimit
<1>1. BothIInv => ProviderSharedLimit
  <2> SUFFICES ASSUME BothIInv PROVE ProviderSharedLimit
    OBVIOUS
  <2> DEFINE ofPlays == {p \in Plays : V!Connected(p)}
  <2>1. LiveIInv /\ PoolsAndHolders /\ VP!VodIInv /\ UsedWithinLimit
    BY DEF BothIInv, LiveIInv
  <2>2. held[Provider] = Connections(Provider)
    BY <2>1, SourceAssumption DEF LiveIInv, LeaseCoversConnection
  <2>3. ofPlays \subseteq vodHeld
    BY <2>1, PlaysHaveSlots
  <2> HIDE DEF ofPlays
  <2>4. Cardinality(ofPlays) <= Cardinality(vodHeld) /\ Cardinality(ofPlays) \in Nat
    BY <2>1, <2>3, UsedIsNat, FS_Subset, FS_CardinalityType
  <2>5. Cardinality(Connections(Provider)) + Cardinality(ofPlays) <= pools[Provider]
    BY <2>1, <2>2, <2>4, SourceAssumption, UsedIsNat DEF UsedWithinLimit, Used, PoolsAndHolders
  <2> QED
    BY <2>5 DEF ProviderSharedLimit, ofPlays
<1> QED
  BY <1>1, BothInitIInv, BothNextIInv, PTL DEF BothSpec
=============================================================================
