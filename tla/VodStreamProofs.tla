-------------------------- MODULE VodStreamProofs --------------------------
(* OpenVOD: the byte ranges for every header and every size, and the slots and
   the cache behind it for any number of calls, keys, chunks and slots. *)
EXTENDS VodStream, CacheProofs

(* What parsing a header yields for a file that is not empty: an interval of
   its bytes that is what was asked for, or a refusal when nothing was. *)
LEMMA ParseExact ==
  ASSUME NEW h \in Headers, NEW s \in Sizes
  PROVE  LET r == Parse(h, s) IN
         /\ r.ok \in BOOLEAN /\ r.start \in Int /\ r.end \in Int
         /\ r.ok => /\ 0 <= r.start /\ r.start <= r.end /\ r.end < s
                    /\ r.start..r.end = Requested(h, s)
         /\ ~ r.ok => Requested(h, s) = {}
<1> USE RangeAssumption DEF Refused, Parsed
<1>1. CASE h.form = "suffix"
  <2>1. h.n \in Int
    BY <1>1 DEF Headers
  <2>2. Parse(h, s) = ParseSuffix(h.n, s)
    BY <1>1 DEF Parse
  <2>3. Requested(h, s) = {i \in 0..(s - 1) : i >= s - h.n}
    BY <1>1 DEF Requested
  <2> QED
    BY <2>1, <2>2, <2>3 DEF ParseSuffix
<1>2. CASE h.form = "from"
  <2>1. h.a \in Int
    BY <1>2 DEF Headers
  <2>2. Parse(h, s) = ParseFrom(h.a, s)
    BY <1>2 DEF Parse
  <2>3. Requested(h, s) = {i \in 0..(s - 1) : h.a >= 0 /\ i >= h.a}
    BY <1>2 DEF Requested
  <2> QED
    BY <2>1, <2>2, <2>3 DEF ParseFrom, Clamp
<1>3. CASE h.form = "between"
  <2>1. h.a \in Int /\ h.b \in Int
    BY <1>3 DEF Headers
  <2>2. Parse(h, s) = ParseBetween(h.a, h.b, s)
    BY <1>3 DEF Parse
  <2>3. Requested(h, s) = {i \in 0..(s - 1) : h.a >= 0 /\ h.a <= i /\ i <= h.b}
    BY <1>3 DEF Requested
  <2> QED
    BY <2>1, <2>2, <2>3 DEF ParseBetween, Clamp
<1>4. CASE h.form = "other"
  <2>1. Parse(h, s) = Refused
    BY <1>4 DEF Parse
  <2>2. Requested(h, s) = {}
    BY <1>4 DEF Requested
  <2> QED
    BY <2>1, <2>2
<1> QED
  BY <1>1, <1>2, <1>3, <1>4 DEF Headers

(* Opening an interval of the file takes all of it. *)
LEMMA OpenExact ==
  ASSUME NEW r, NEW s, r.start \in Int, r.end \in Int,
         0 <= r.start, r.start <= r.end
  PROVE  Open(r, s) = [ok |-> TRUE, start |-> r.start,
                       length |-> r.end - r.start + 1]
<1>1. (r.end < 0) = FALSE
  OBVIOUS
<1>2. (r.end - r.start + 1 > 0) = TRUE
  OBVIOUS
<1> QED
  BY <1>1, <1>2, Zenon DEF Open

(* For every header and every size, a cached file is served by exactly the
   bytes that were asked for, and a request goes to the upstream only when it
   asks for none. *)
THEOREM ByteRangeServesWhatIsAsked == ServesWhatIsAsked
<1> SUFFICES ASSUME NEW h \in Headers, NEW s \in Sizes
             PROVE  LET opened == Served(h, s) IN
                    IF opened.ok
                    THEN opened.start..(opened.start + opened.length - 1)
                           = Requested(h, s)
                    ELSE Requested(h, s) = {}
  BY DEF ServesWhatIsAsked
<1> DEFINE r == Parse(h, s)
<1>1. CASE r.ok
  <2>1. /\ r.start \in Int /\ r.end \in Int
        /\ 0 <= r.start /\ r.start <= r.end
        /\ r.start..r.end = Requested(h, s)
    BY <1>1, ParseExact
  <2>2. Served(h, s) = Open(r, s)
    BY <1>1 DEF Served
  <2>3. Served(h, s) = [ok |-> TRUE, start |-> r.start,
                        length |-> r.end - r.start + 1]
    BY <2>1, <2>2, OpenExact
  <2> HIDE DEF r
  <2>4. r.start + (r.end - r.start + 1) - 1 = r.end
    BY <2>1
  <2> QED
    BY <2>1, <2>3, <2>4
<1>2. CASE ~ r.ok
  <2>1. Requested(h, s) = {}
    BY <1>2, ParseExact
  <2>2. Served(h, s) = NotOpened
    BY <1>2 DEF Served
  <2> QED
    BY <2>1, <2>2 DEF NotOpened
<1> QED
  BY <1>1, <1>2
----------------------------------------------------------------------------
VodStates == {"idle", "get", "local", "slot", "fetch", "direct", "fill",
              "served", "failed"}
VodTypeOK == vpc \in [Calls -> VodStates] /\ held \subseteq Calls

(* OpenOrFill is called once the body is fetched, and not before. *)
FillAfterFetch ==
    \A c \in Calls :
        /\ vpc[c] \in {"idle", "get", "local", "slot", "fetch", "direct"} => pc[c] = "idle"
        /\ vpc[c] = "fill" => pc[c] # "idle"

(* Who reads a growing file has begun its fill. *)
Readers == {"reading", "nodata", "eof", "left"}
ReaderHasFill ==
    \A c \in Calls : pc[c] \in Readers \cup {"stat"} => run[c] # "none"

(* A slot is held from its taking to an error, to the end of a proxied body, or
   for a play that is served from the cache. *)
HeldWhileOpen ==
    \A c \in held : \/ vpc[c] \in {"fetch", "direct", "fill"}
                    \/ vpc[c] = "served" /\ pc[c] \in Readers \cup {"hit"}

(* The fill that closes the body gives the slot back. *)
ClosedIsFree == \A c \in Calls : run[c] \in {"closed", "over"} => c \notin held

SlotInv == /\ VodTypeOK /\ FillAfterFetch /\ ReaderHasFill
           /\ HeldWhileOpen /\ ClosedIsFree /\ ConnectionHasSlot
VodIInv == IInv /\ SlotInv
----------------------------------------------------------------------------
(* Steps of the manager that leave the cache alone, and of the cache that leave
   the manager alone. *)
ManagerStep(c) == \/ Play(c) \/ Looking(c) \/ TakeSlot(c) \/ SlotCancelled(c)
                  \/ FetchDirect(c) \/ FetchError(c) \/ FillServes(c) \/ DirectClose(c)

CacheStep(c) == \/ VodCalling(c) \/ VodFilling(c) \/ Plain(WaitCancelled(c))
                \/ VodReading(c) \/ Plain(Copy(c)) \/ Plain(CopyEnd(c))

LEMMA VodSteps ==
  ASSUME [VodNext]_allVars
  PROVE  \/ \E c \in Calls : ManagerStep(c)
         \/ \E c \in Calls : FetchToFill(c)
         \/ \E c \in Calls : FillFails(c)
         \/ \E c \in Calls : CloseLeased(c)
         \/ \E c \in Calls : CacheStep(c)
         \/ \E k \in Keys : Plain(Reap(k))
         \/ UNCHANGED allVars
BY DEF VodNext, ManagerStep, CacheStep, Fetching, Answering

LEMMA ManagerStepKeepsCache ==
  ASSUME NEW c \in Calls, ManagerStep(c)
  PROVE  UNCHANGED vars
BY DEF ManagerStep, Play, Looking, GetValidated, GetMiss, OpenLocal, TakeSlot,
   SlotCancelled, FetchDirect, FetchError, FillServes, DirectClose

(* Every step of OpenVOD is one of the cache or leaves it alone. *)
LEMMA VodNextIsCacheNext == [VodNext]_allVars => [Next]_vars
<1> SUFFICES ASSUME [VodNext]_allVars PROVE [Next]_vars
  OBVIOUS
<1>1. ASSUME NEW c \in Calls, ManagerStep(c) PROVE [Next]_vars
  BY <1>1, ManagerStepKeepsCache
<1>2. ASSUME NEW c \in Calls, FetchToFill(c) PROVE [Next]_vars
  BY <1>2 DEF FetchToFill, Next
<1>3. ASSUME NEW c \in Calls, FillFails(c) PROVE [Next]_vars
  BY <1>3 DEF FillFails, Next, Calling
<1>4. ASSUME NEW c \in Calls, CloseLeased(c) PROVE [Next]_vars
  BY <1>4 DEF CloseLeased, Next, Calling, Filling
<1>5. ASSUME NEW c \in Calls, CacheStep(c) PROVE [Next]_vars
  BY <1>5 DEF CacheStep, VodCalling, VodFilling, VodReading, Plain, Next, Calling, Filling
<1>6. ASSUME NEW k \in Keys, Plain(Reap(k)) PROVE [Next]_vars
  BY <1>6 DEF Plain, Next
<1>7. CASE UNCHANGED allVars
  BY <1>7 DEF allVars
<1> QED
  BY <1>1, <1>2, <1>3, <1>4, <1>5, <1>6, <1>7, VodSteps

(* What a step of the cache does to the manager's view of it. *)
LEMMA CacheStepEffect ==
  ASSUME VodIInv, NEW c \in Calls, CacheStep(c)
  PROVE  /\ UNCHANGED <<vodVars, src>>
         /\ \A d \in Calls : pc'[d] = "idle" <=> pc[d] = "idle"
         /\ \A d \in Calls : pc[d] \in Readers \cup {"hit"} => pc'[d] \in Readers \cup {"hit"}
         /\ \A d \in Calls : pc'[d] \in Readers \cup {"stat"} => run'[d] # "none"
         /\ \A d \in Calls : run'[d] \in {"closed", "over"} => run[d] \in {"closed", "over"}
<1> USE DEF VodIInv, SlotInv, IInv, TypeOK, ReaderHasFill, Readers, Goto, RunTo
<1>1. CASE VodCalling(c)
  <2>1. UNCHANGED vodVars
    BY <1>1 DEF VodCalling
  <2>2. CASE Hit(c) \/ OpenHit(c)
    BY <2>1, <2>2 DEF Hit, OpenHit
  <2>3. CASE WaitFill(c) \/ WaitDone(c) \/ NoSource(c)
    BY <2>1, <2>3 DEF WaitFill, WaitDone, NoSource, Miss
  <2>4. CASE StartFill(c) \/ CreateFile(c) \/ CreateFail(c)
    BY <2>1, <2>4 DEF StartFill, Miss, CreateFile, CreateFail
  <2>5. CASE StatFound(c) \/ StatTimeout(c)
    BY <2>1, <2>5 DEF StatFound, StatTimeout
  <2> QED
    BY <1>1, <2>2, <2>3, <2>4, <2>5 DEF VodCalling
<1>2. CASE VodFilling(c)
  <2>1. UNCHANGED vodVars
    BY <1>2 DEF VodFilling
  <2>2. CASE Validate(c)
    <3>1. PICK to \in {"finish", "valid", "invalid"} : run' = [run EXCEPT ![c] = to]
      BY <2>2 DEF Validate
    <3> QED
      BY <2>1, <2>2, <3>1 DEF Validate
  <2>3. CASE MarkCorrupt(c) \/ Rename(c) \/ RenameFail(c) \/ MarkValidated(c) \/ FinishFill(c)
    BY <2>1, <2>3 DEF MarkCorrupt, Rename, RenameFail, MarkValidated, FinishFill
  <2> QED
    BY <1>2, <2>2, <2>3 DEF VodFilling
<1>3. CASE Plain(WaitCancelled(c)) \/ Plain(Copy(c)) \/ Plain(CopyEnd(c))
  BY <1>3 DEF Plain, WaitCancelled, Copy, CopyEnd
<1>4. CASE VodReading(c)
  <2>1. UNCHANGED vodVars
    BY <1>4 DEF VodReading, Plain
  <2>2. CASE Abandon(c)
    BY <2>1, <2>2 DEF Abandon
  <2>3. CASE LastAttempt(c)
    <3>1. /\ pc[c] = "nodata" /\ pc'[c] \in {"reading", "eof"}
          /\ \A d \in Calls : d # c => pc'[d] = pc[d]
          /\ UNCHANGED <<run, src>>
      BY <2>3 DEF LastAttempt, ReadChunk
    <3> QED
      BY <2>1, <3>1
  <2>4. CASE ReadData(c) \/ ReadNothing(c) \/ ReadGone(c) \/ ReadAgain(c)
    BY <2>1, <2>4 DEF ReadData, ReadNothing, ReadGone, ReadAgain, ReadChunk
  <2> QED
    BY <1>4, <2>2, <2>3, <2>4 DEF VodReading, Plain, Reading
<1> QED
  BY <1>1, <1>2, <1>3, <1>4 DEF CacheStep

LEMMA VodInitIInv == VodInit => VodIInv
<1> SUFFICES ASSUME VodInit PROVE VodIInv
  OBVIOUS
<1>1. IInv
  BY CacheInit DEF VodInit
<1>2. SlotInv
  BY DEF VodInit, Init, SlotInv, VodTypeOK, VodStates, FillAfterFetch, ReaderHasFill,
     HeldWhileOpen, ClosedIsFree, ConnectionHasSlot, Connected, Readers
<1> QED
  BY <1>1, <1>2 DEF VodIInv

LEMMA SlotInvKept == VodIInv /\ [VodNext]_allVars => SlotInv'
<1> SUFFICES ASSUME VodIInv, [VodNext]_allVars PROVE SlotInv'
  OBVIOUS
<1> USE DEF VodIInv, SlotInv, VodTypeOK, VodStates, FillAfterFetch, ReaderHasFill,
        HeldWhileOpen, ClosedIsFree, ConnectionHasSlot, Connected, Readers, VodGoto,
        vodVars
<1>0. IInv /\ TypeOK /\ NoFillYet
  BY DEF IInv, FillInv
<1>1. ASSUME NEW c \in Calls, ManagerStep(c) PROVE SlotInv'
  <2>1. UNCHANGED <<pc, run, src>>
    BY <1>1, ManagerStepKeepsCache DEF vars
  <2>2. CASE Play(c) \/ SlotCancelled(c) \/ FetchDirect(c)
    BY <2>1, <2>2 DEF Play, SlotCancelled, FetchDirect
  <2>3. CASE Looking(c)
    <3>1. /\ UNCHANGED held
          /\ vpc[c] \in {"get", "local"}
          /\ \E to \in {"local", "served", "slot"} : vpc' = [vpc EXCEPT ![c] = to]
      BY <2>3 DEF Looking, GetValidated, GetMiss, OpenLocal
    <3>2. PICK to \in {"local", "served", "slot"} : vpc' = [vpc EXCEPT ![c] = to]
      BY <3>1
    <3> QED
      BY <2>1, <3>1, <3>2
  <2>4. CASE TakeSlot(c)
    <3>1. run[c] = "none"
      BY <1>0, <2>4 DEF TakeSlot, NoFillYet
    <3> QED
      BY <2>1, <2>4, <3>1 DEF TakeSlot
  <2>5. CASE FetchError(c) \/ DirectClose(c)
    BY <2>1, <2>5 DEF FetchError, DirectClose
  <2>6. CASE FillServes(c)
    BY <2>1, <2>6 DEF FillServes
  <2> QED
    BY <1>1, <2>2, <2>3, <2>4, <2>5, <2>6 DEF ManagerStep
<1>2. ASSUME NEW c \in Calls, FetchToFill(c) PROVE SlotInv'
  <2>1. pc' = [pc EXCEPT ![c] = "look"] /\ UNCHANGED <<run, src>>
    BY <1>2 DEF FetchToFill, Begin, Goto
  <2> QED
    BY <1>0, <1>2, <2>1 DEF FetchToFill, TypeOK
<1>3. ASSUME NEW c \in Calls, FillFails(c) PROVE SlotInv'
  <2>1. /\ UNCHANGED <<pc, run>> /\ src'[c] # "open"
        /\ \A d \in Calls : d # c => src'[d] = src[d]
    BY <1>0, <1>3 DEF FillFails, GiveUp, vars, TypeOK
  <2> QED
    BY <1>0, <1>3, <2>1 DEF FillFails, TypeOK
<1>4. ASSUME NEW c \in Calls, CloseLeased(c) PROVE SlotInv'
  <2>1. /\ pc[c] # "idle" /\ pc'[c] # "idle"
        /\ pc'[c] \in Readers \cup {"stat"} => run'[c] # "none"
        /\ \A d \in Calls : d # c => pc'[d] = pc[d] /\ run'[d] = run[d] /\ src'[d] = src[d]
        /\ src'[c] = "closed"
    <3>1. CASE CloseSource(c)
      BY <1>0, <3>1 DEF CloseSource, RunTo, TypeOK, NoFillYet
    <3>2. CASE CreateFailed(c)
      BY <1>0, <3>2 DEF CreateFailed, Goto, TypeOK
    <3> QED
      BY <1>4, <3>1, <3>2 DEF CloseLeased
  <2>2. held' = held \ {c} /\ UNCHANGED vpc
    BY <1>4 DEF CloseLeased
  <2> QED
    BY <2>1, <2>2
<1>5. ASSUME NEW c \in Calls, CacheStep(c) PROVE SlotInv'
  BY <1>5, CacheStepEffect
<1>6. ASSUME NEW k \in Keys, Plain(Reap(k)) PROVE SlotInv'
  BY <1>6 DEF Plain, Reap
<1>7. CASE UNCHANGED allVars
  BY <1>7 DEF allVars, vars
<1> QED
  BY <1>1, <1>2, <1>3, <1>4, <1>5, <1>6, <1>7, VodSteps

LEMMA VodNextKeeps == VodIInv /\ [VodNext]_allVars => VodIInv'
BY SlotInvKept, VodNextIsCacheNext, CacheKept DEF VodIInv

LEMMA VodInvariant == VodSpec => []VodIInv
BY VodInitIInv, VodNextKeeps, PTL DEF VodSpec

(* The cache behind OpenVOD is the cache: every step of a play is one of its
   steps or leaves it alone, so all that is proved of the cache holds here. *)
THEOREM VodImplementsCache == VodSpec => ImplementsCache
<1>1. VodInit => Init
  BY DEF VodInit
<1> QED
  BY <1>1, VodNextIsCacheNext, PTL DEF VodSpec, ImplementsCache, Spec

(* An upstream connection has its slot from the request to the close of its
   body, whoever closes it. *)
THEOREM VodConnectionHasSlot == VodSpec => []ConnectionHasSlot
<1>1. VodIInv => ConnectionHasSlot
  BY DEF VodIInv, SlotInv
<1> QED
  BY <1>1, VodInvariant, PTL

(* Only a play that was served from another's fill keeps its slot when it and
   its fill are over: the leak is where vod_leak shows it and nowhere else. *)
THEOREM VodOnlyJoinersKeepSlots == VodSpec => []OnlyJoinersKeepSlots
<1>1. VodIInv => OnlyJoinersKeepSlots
  BY DEF VodIInv, SlotInv, HeldWhileOpen, ClosedIsFree, ReaderHasFill, VodTypeOK,
     OnlyJoinersKeepSlots, Finished, Readers
<1> QED
  BY <1>1, VodInvariant, PTL

(* A play with a Range is served exactly the bytes it asks for, or goes to the
   upstream. *)
THEOREM VodRangesAreExact == VodSpec => []RangesAreExact
<1>1. RangesAreExact
  BY ByteRangeServesWhatIsAsked DEF RangesAreExact
<1> QED
  BY <1>1, PTL
=============================================================================
