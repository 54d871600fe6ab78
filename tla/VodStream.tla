----------------------------- MODULE VodStream -----------------------------
(* stream.Manager.OpenVOD: the cache composed with the slots of a source.
   A play of a VOD file looks in the cache; on a miss it takes a slot, fetches
   the file from the upstream, and hands the body with its lease to
   OpenOrFill.  A play with a Range is served from a validated file, or else
   proxied to the upstream past the cache; which of the two is the arithmetic
   of ByteRange.

   The body of call c is src[c] of the cache; its Close releases the lease. *)
EXTENDS CacheProps, ByteRange

CONSTANT MaxSlots     \* capacity of the source's pool

ASSUME VodAssumption == MaxSlots \in Nat \ {0}

VARIABLES vpc,        \* where each call of OpenVOD is
          ranged,     \* calls with a Range header
          vpath,      \* the directory of the file a call found validated
          held        \* calls that hold a slot

vodVars == <<vpc, ranged, vpath, held>>
allVars == <<vars, vodVars>>

VodInit == /\ Init
           /\ src = [c \in Calls |-> "open"]
           /\ vpc = [c \in Calls |-> "idle"]
           /\ ranged \in SUBSET Calls
           /\ vpath = [c \in Calls |-> "purgatory"]
           /\ held = {}

VodGoto(c, from, to) == vpc[c] = from /\ vpc' = [vpc EXCEPT ![c] = to]

Play(c) == /\ VodGoto(c, "idle", "get")
           /\ UNCHANGED <<vars, ranged, vpath, held>>

(* Cache.Get finds a validated object; a range it cannot satisfy is left to
   the upstream. *)
GetValidated(c) == /\ Valid(want[c])
                   /\ \/ /\ VodGoto(c, "get", "local")
                         /\ vpath' = [vpath EXCEPT ![c] = objs[want[c]].path]
                      \/ /\ c \in ranged
                         /\ VodGoto(c, "get", "slot")
                         /\ UNCHANGED vpath
                   /\ UNCHANGED <<vars, ranged, held>>

GetMiss(c) == /\ ~ Valid(want[c])
              /\ VodGoto(c, "get", "slot")
              /\ UNCHANGED <<vars, ranged, vpath, held>>

(* A file that is gone by the time it is opened is a miss. *)
OpenLocal(c) == /\ IF FileAt(vpath[c], want[c]) # None
                   THEN VodGoto(c, "local", "served")
                   ELSE VodGoto(c, "local", "slot")
                /\ UNCHANGED <<vars, ranged, vpath, held>>

TakeSlot(c) == /\ VodGoto(c, "slot", "fetch")
               /\ Cardinality(held) < MaxSlots
               /\ held' = held \cup {c}
               /\ UNCHANGED <<vars, ranged, vpath>>

SlotCancelled(c) == /\ VodGoto(c, "slot", "failed")
                    /\ UNCHANGED <<vars, ranged, vpath, held>>

(* A body with a Range goes to the client past the cache. *)
FetchDirect(c) == /\ c \in ranged
                  /\ VodGoto(c, "fetch", "direct")
                  /\ UNCHANGED <<vars, ranged, vpath, held>>

(* Mutant: the lease is released as soon as the body is there. *)
FetchUnleased(c) == /\ c \notin ranged
                    /\ VodGoto(c, "fetch", "fill")
                    /\ Begin(c)
                    /\ held' = held \ {c}
                    /\ UNCHANGED <<ranged, vpath>>

FetchToFill(c) == /\ c \notin ranged
                  /\ VodGoto(c, "fetch", "fill")
                  /\ Begin(c)
                  /\ UNCHANGED <<ranged, vpath, held>>

FetchError(c) == /\ VodGoto(c, "fetch", "failed")
                 /\ held' = held \ {c}
                 /\ UNCHANGED <<vars, ranged, vpath>>

(* Mutant: the body is closed when the reader is returned. *)
FillServesAndCloses(c) ==
    /\ pc[c] \in {"hit", "reading"}
    /\ VodGoto(c, "fill", "served")
    /\ src' = [src EXCEPT ![c] = "closed"]
    /\ held' = held \ {c}
    /\ UNCHANGED <<indexVars, diskVars, readerVars, givenVars, run, pc, passes,
                   restarts, ranged, vpath>>

(* OpenOrFill has returned a reader: its Close closes no upstream body. *)
FillServes(c) == /\ pc[c] \in {"hit", "reading"}
                 /\ VodGoto(c, "fill", "served")
                 /\ UNCHANGED <<vars, ranged, vpath, held>>

(* OpenOrFill has failed: close the body, which may be closed already. *)
FillFails(c) == /\ pc[c] \in {"failed", "nosource"}
                /\ VodGoto(c, "fill", "failed")
                /\ IF src[c] = "open" THEN GiveUp(c) ELSE UNCHANGED vars
                /\ held' = held \ {c}
                /\ UNCHANGED <<ranged, vpath>>

(* The handler closes the body it proxied. *)
DirectClose(c) == /\ VodGoto(c, "direct", "served")
                  /\ held' = held \ {c}
                  /\ UNCHANGED <<vars, ranged, vpath>>

(* Mutant: the body is closed and the lease kept. *)
CloseUnleased(c) == /\ CloseSource(c) \/ CreateFailed(c)
                    /\ UNCHANGED vodVars

(* leasedBody.Close, by the fill or by a fill that could not begin. *)
CloseLeased(c) == /\ CloseSource(c) \/ CreateFailed(c)
                  /\ held' = held \ {c}
                  /\ UNCHANGED <<vpc, ranged, vpath>>

(* What OpenOrFill and the fill do otherwise, and what Reap does. *)
VodCalling(c) ==
    /\ \/ Hit(c) \/ OpenHit(c) \/ WaitFill(c) \/ WaitDone(c) \/ NoSource(c)
       \/ StartFill(c) \/ CreateFile(c) \/ CreateFail(c)
       \/ StatFound(c) \/ StatTimeout(c)
    /\ UNCHANGED vodVars

VodFilling(c) ==
    /\ \/ Validate(c) \/ MarkCorrupt(c) \/ Rename(c) \/ RenameFail(c)
       \/ MarkValidated(c) \/ FinishFill(c)
    /\ UNCHANGED vodVars

Plain(A) == A /\ UNCHANGED vodVars

(* The handler copies what OpenVOD returned. *)
VodReading(c) == vpc[c] = "served" /\ Plain(Reading(c) \/ Abandon(c))

Looking(c) == GetValidated(c) \/ GetMiss(c) \/ OpenLocal(c)

Fetching(c) == FetchDirect(c) \/ FetchToFill(c) \/ FetchError(c)

Answering(c) == FillServes(c) \/ FillFails(c)

VodNext == \/ \E c \in Calls :
                \/ Play(c) \/ Looking(c) \/ TakeSlot(c) \/ SlotCancelled(c)
                \/ Fetching(c) \/ Answering(c) \/ DirectClose(c) \/ CloseLeased(c)
                \/ VodCalling(c) \/ VodFilling(c)
                \/ Plain(WaitCancelled(c)) \/ VodReading(c)
                \/ Plain(Copy(c)) \/ Plain(CopyEnd(c))
           \/ \E k \in Keys : Plain(Reap(k))

VodSpec == VodInit /\ [][VodNext]_allVars
----------------------------------------------------------------------------
(* An upstream connection, from the request to the close of its body, has a
   slot all along. *)
Connected(c) == \/ vpc[c] \in {"fetch", "direct"}
                \/ pc[c] # "idle" /\ src[c] = "open"
ConnectionHasSlot == \A c \in Calls : Connected(c) => c \in held

(* A play with a Range that finds a validated file gets exactly the bytes it
   asks for, or goes to the upstream because it asks for none of the file's.
   The state leaves out which range that is and how many bytes the file has:
   it holds of all of them. *)
RangesAreExact ==
    \A c \in ranged : vpc[c] = "local" => ServesWhatIsAsked

(* The cache seen through the manager is the cache. *)
ImplementsCache == Spec

(* Once a play is over and its fill with it, its slot is free again, unless
   OpenOrFill served it from somebody else's fill. *)
Finished(c) == vpc[c] \in {"served", "failed"} /\ run[c] \in {"none", "over"}
OnlyJoinersKeepSlots ==
    \A c \in Calls : Finished(c) /\ c \in held => pc[c] = "hit"

(* "Lease is a held pool slot; call Release when done": when no play and no
   fill is in progress, no slot is held. *)
NoSlotLeaks ==
    (\A c \in Calls : vpc[c] = "idle" \/ Finished(c)) => held = {}
=============================================================================
