------------------------------- MODULE Cache -------------------------------
(* cache.Cache: the disk cache of VOD files.  A miss starts a fill in the
   background, which copies the source to purgatory/, validates the file,
   and renames it to cache/; its reader follows the growing file.  Other
   calls for the key wait for the fill.  Reap removes objects.

   A call is one call of OpenOrFill with the reader it returns; a fill is
   named by the call that starts it.  A file is how much of its source it
   holds, in chunks, and the fill that wrote it.  The file names of a key in
   purgatory/ and cache/ are the same each time (its base name is made from
   the key), so there is one file of each for a key.

   An action is one critical section of c.mu, one system call, or a step
   between two of them. *)
EXTENDS Naturals, FiniteSets

CONSTANTS Calls,       \* calls of OpenOrFill
          Keys,        \* cache keys
          Size,        \* chunks in a whole media file
          MaxRestarts, \* bound on restarts of the process
          None         \* no call, no object, no file

VARIABLES objs,        \* c.objs
          fills,       \* c.fills: the fill of each key
          done,        \* fills whose done channel is closed
          run,         \* where each fill's goroutine is
          purgatory,   \* the file of each key under purgatory/
          cached,      \* the file of each key under cache/
          pc,          \* where each call is
          want,        \* the key of each call
          src,         \* each call's source: none, open or closed
          passes,      \* calls whose current activation has the source
          expected,    \* expected size each call gives: 0 for unknown
          of,          \* the fill a call waits for, or follows
          file,        \* the file a call found on a hit
          at,          \* the directory a call opens its file in
          off,         \* chunks a progressive reader has read
          restarts     \* restarts so far

indexVars == <<objs, fills, done>>
diskVars == <<purgatory, cached>>
readerVars == <<of, file, at, off>>
givenVars == <<want, expected>>
vars == <<indexVars, diskVars, readerVars, givenVars, run, pc, src, passes, restarts>>

CallStates == {"idle", "look", "open", "waiting", "create", "closing", "stat",
               "reading", "nodata", "hit", "eof", "left", "nosource", "failed"}
FillStates == {"none", "copy", "copied", "broken", "valid", "invalid", "moved",
               "unmoved", "finish", "closed", "over"}

Files == [by : Calls, len : 0..Size]
Objects == [state : {"filling", "validated", "corrupt"},
            path : {"purgatory", "cache"}, size : 0..Size]

ASSUME CacheAssumption == /\ None \notin Calls \cup Files \cup Objects
                          /\ Size \in Nat \ {0}
                          /\ MaxRestarts \in Nat

Init == /\ objs = [k \in Keys |-> None]
        /\ fills = [k \in Keys |-> None]
        /\ done = {}
        /\ run = [c \in Calls |-> "none"]
        /\ purgatory = [k \in Keys |-> None]
        /\ cached = [k \in Keys |-> None]
        /\ pc = [c \in Calls |-> "idle"]
        /\ want \in [Calls -> Keys]
        /\ src \in [Calls -> {"none", "open"}]
        /\ passes = {c \in Calls : src[c] = "open"}
        /\ expected \in [Calls -> {0, Size}]
        /\ \A c \in Calls : src[c] = "none" => expected[c] = 0
        /\ of = [c \in Calls |-> None]
        /\ file = [c \in Calls |-> None]
        /\ at = [c \in Calls |-> "purgatory"]
        /\ off = [c \in Calls |-> 0]
        /\ restarts = 0

Goto(c, label) == pc' = [pc EXCEPT ![c] = label]
RunTo(c, from, to) == run[c] = from /\ run' = [run EXCEPT ![c] = to]

Valid(k) == objs[k] # None /\ objs[k].state = "validated"

(* os.Open of the file of key k in a directory. *)
FileAt(dir, k) == IF dir = "purgatory" THEN purgatory[k] ELSE cached[k]
----------------------------------------------------------------------------
(* OpenOrFill. *)

Begin(c) == /\ pc[c] = "idle"
            /\ Goto(c, "look")
            /\ UNCHANGED <<indexVars, diskVars, readerVars, givenVars, run, src,
                           passes, restarts>>

(* A hit: the path is read under the mutex, the file opened after it. *)
Hit(c) == /\ pc[c] = "look"
          /\ Valid(want[c])
          /\ at' = [at EXCEPT ![c] = objs[want[c]].path]
          /\ Goto(c, "open")
          /\ UNCHANGED <<indexVars, diskVars, of, file, off, givenVars, run, src,
                         passes, restarts>>

OpenHit(c) == /\ pc[c] = "open"
              /\ file' = [file EXCEPT ![c] = FileAt(at[c], want[c])]
              /\ Goto(c, IF file'[c] = None THEN "failed" ELSE "hit")
              /\ UNCHANGED <<indexVars, diskVars, of, at, off, givenVars, run,
                             src, passes, restarts>>

WaitFill(c) == /\ pc[c] = "look"
               /\ ~ Valid(want[c])
               /\ fills[want[c]] # None
               /\ of' = [of EXCEPT ![c] = fills[want[c]]]
               /\ Goto(c, "waiting")
               /\ UNCHANGED <<indexVars, diskVars, file, at, off, givenVars, run,
                              src, passes, restarts>>

(* The fill is done: call OpenOrFill again, with no source. *)
WaitDone(c) == /\ pc[c] = "waiting"
               /\ of[c] \in done
               /\ of' = [of EXCEPT ![c] = None]
               /\ passes' = passes \ {c}
               /\ Goto(c, "look")
               /\ UNCHANGED <<indexVars, diskVars, file, at, off, givenVars, run,
                              src, restarts>>

(* The caller's context ends: that may be at any time. *)
WaitCancelled(c) == /\ pc[c] = "waiting"
                    /\ Goto(c, "failed")
                    /\ UNCHANGED <<indexVars, diskVars, readerVars, givenVars, run,
                                   src, passes, restarts>>

(* Mutant: no look at c.fills. *)
MissAnyway(c) == pc[c] = "look" /\ ~ Valid(want[c])

Miss(c) == /\ pc[c] = "look"
           /\ ~ Valid(want[c])
           /\ fills[want[c]] = None

(* "cache: miss and no source" *)
NoSource(c) == /\ Miss(c)
               /\ c \notin passes
               /\ Goto(c, "nosource")
               /\ UNCHANGED <<indexVars, diskVars, readerVars, givenVars, run, src,
                              passes, restarts>>

StartFill(c) == /\ Miss(c)
                /\ c \in passes
                /\ objs' = [objs EXCEPT ![want[c]] =
                     [state |-> "filling", path |-> "purgatory", size |-> 0]]
                /\ fills' = [fills EXCEPT ![want[c]] = c]
                /\ of' = [of EXCEPT ![c] = c]
                /\ Goto(c, "create")
                /\ UNCHANGED <<done, diskVars, file, at, off, givenVars, run, src,
                               passes, restarts>>

(* The file is created, or truncated; the fill goes on by itself. *)
CreateFile(c) == /\ pc[c] = "create"
                 /\ purgatory' = [purgatory EXCEPT ![want[c]] = [by |-> c, len |-> 0]]
                 /\ run' = [run EXCEPT ![c] = "copy"]
                 /\ Goto(c, "stat")
                 /\ UNCHANGED <<indexVars, cached, readerVars, givenVars, src,
                                passes, restarts>>

(* failFill *)
CreateFail(c) == /\ pc[c] = "create"
                 /\ objs' = [objs EXCEPT ![want[c]] =
                               IF @ = None THEN None
                               ELSE [@ EXCEPT !.state = "corrupt"]]
                 /\ fills' = [fills EXCEPT ![want[c]] = None]
                 /\ done' = done \cup {c}
                 /\ Goto(c, "closing")
                 /\ UNCHANGED <<diskVars, readerVars, givenVars, run, src, passes, restarts>>

CreateFailed(c) == /\ pc[c] = "closing"
                   /\ src' = [src EXCEPT ![c] = "closed"]
                   /\ Goto(c, "failed")
                   /\ UNCHANGED <<indexVars, diskVars, readerVars, givenVars, run,
                                  passes, restarts>>

(* openProgressive stats the file in purgatory until it is there, and gives
   up after half a second. *)
StatFound(c) == /\ pc[c] = "stat"
                /\ purgatory[want[c]] # None
                /\ at' = [at EXCEPT ![c] = "purgatory"]
                /\ Goto(c, "reading")
                /\ UNCHANGED <<indexVars, diskVars, of, file, off, givenVars, run,
                               src, passes, restarts>>

StatTimeout(c) == /\ pc[c] = "stat"
                  /\ purgatory[want[c]] = None
                  /\ Goto(c, "failed")
                  /\ UNCHANGED <<indexVars, diskVars, readerVars, givenVars, run,
                                 src, passes, restarts>>
(* A caller that gets an error closes the source it gave; closing it twice
   does nothing more. *)
GiveUp(c) == /\ pc[c] \in {"failed", "nosource"}
             /\ src[c] = "open"
             /\ src' = [src EXCEPT ![c] = "closed"]
             /\ UNCHANGED <<indexVars, diskVars, readerVars, givenVars, run, pc,
                            passes, restarts>>
----------------------------------------------------------------------------
(* progressiveReader.Read *)

ReadChunk(c) == /\ off' = [off EXCEPT ![c] = @ + 1]
                /\ Goto(c, "reading")

(* The first attempt: open, seek, read. *)
ReadData(c) == /\ pc[c] = "reading"
               /\ FileAt(at[c], want[c]) # None
               /\ FileAt(at[c], want[c]).len > off[c]
               /\ ReadChunk(c)
               /\ UNCHANGED <<indexVars, diskVars, of, file, at, givenVars, run,
                              src, passes, restarts>>

ReadNothing(c) == /\ pc[c] = "reading"
                  /\ FileAt(at[c], want[c]) # None
                  /\ FileAt(at[c], want[c]).len <= off[c]
                  /\ Goto(c, "nodata")
                  /\ UNCHANGED <<indexVars, diskVars, readerVars, givenVars, run,
                                 src, passes, restarts>>

(* The file cannot be opened: the end if the fill is done, else try again. *)
ReadGone(c) == /\ pc[c] = "reading"
               /\ FileAt(at[c], want[c]) = None
               /\ of[c] \in done
               /\ Goto(c, "eof")
               /\ UNCHANGED <<indexVars, diskVars, readerVars, givenVars, run, src,
                              passes, restarts>>

(* Nothing new and the fill not done: sleep and start again. *)
ReadAgain(c) == /\ pc[c] = "nodata"
                /\ of[c] \notin done
                /\ Goto(c, "reading")
                /\ UNCHANGED <<indexVars, diskVars, readerVars, givenVars, run, src,
                               passes, restarts>>

(* Nothing new and the fill done: one last attempt, at the same path or else
   at the one the fill renames the file to. *)
LastAttempt(c) ==
    LET dir == IF FileAt(at[c], want[c]) # None THEN at[c] ELSE "cache"
        f == FileAt(dir, want[c])
    IN /\ pc[c] = "nodata"
       /\ of[c] \in done
       /\ at' = IF f = None THEN at ELSE [at EXCEPT ![c] = dir]
       /\ IF f # None /\ f.len > off[c]
          THEN ReadChunk(c)
          ELSE Goto(c, "eof") /\ UNCHANGED off
       /\ UNCHANGED <<indexVars, diskVars, of, file, givenVars, run, src, passes, restarts>>

(* The client goes away: Close of the reader does nothing. *)
Abandon(c) == /\ pc[c] \in {"reading", "nodata"}
              /\ Goto(c, "left")
              /\ of' = [of EXCEPT ![c] = None]
              /\ UNCHANGED <<indexVars, diskVars, file, at, off, givenVars, run,
                             src, passes, restarts>>
----------------------------------------------------------------------------
(* runFill *)

(* io.Copy: another chunk; the end of the source; an error of it. *)
Copy(c) == /\ run[c] = "copy"
           /\ purgatory[want[c]].len < Size
           /\ purgatory' = [purgatory EXCEPT ![want[c]].len = @ + 1]
           /\ UNCHANGED <<indexVars, cached, readerVars, givenVars, run, pc, src,
                          passes, restarts>>

CopyEnd(c) == /\ \/ RunTo(c, "copy", "copied")
                 \/ RunTo(c, "copy", "broken")
              /\ UNCHANGED <<indexVars, diskVars, readerVars, givenVars, pc, src,
                             passes, restarts>>

(* A step that writes the object under the mutex, if it is still there. *)
SetObject(k, fields) == objs' = [objs EXCEPT ![k] =
                                   IF @ = None THEN None ELSE fields]

(* Mutant: whatever was copied is valid. *)
ValidateAnything(c) ==
    LET k == want[c] IN
    /\ RunTo(c, "copied", IF objs[k] = None THEN "finish" ELSE "valid")
    /\ SetObject(k, [objs[k] EXCEPT !.size = purgatory[k].len])
    /\ UNCHANGED <<fills, done, diskVars, readerVars, givenVars, pc, src,
                   passes, restarts>>

(* Record the size and validate the file, outside the mutex. *)
Validate(c) ==
    LET k == want[c]
        n == purgatory[k].len
        sized == n > 0 /\ expected[c] \in {0, n}
        next == IF objs[k] = None THEN {"finish"}
                ELSE IF sized THEN {"valid", "invalid"} ELSE {"invalid"}
    IN /\ run[c] = "copied"
       /\ \E to \in next : run' = [run EXCEPT ![c] = to]
       /\ SetObject(k, [objs[k] EXCEPT !.size = n])
       /\ UNCHANGED <<fills, done, diskVars, readerVars, givenVars, pc, src,
                      passes, restarts>>

(* The copy or the validation failed. *)
MarkCorrupt(c) ==
    LET k == want[c] IN
    /\ \/ /\ RunTo(c, "broken", "finish")
          /\ SetObject(k, [objs[k] EXCEPT !.size = purgatory[k].len,
                                          !.state = "corrupt"])
       \/ /\ RunTo(c, "invalid", "finish")
          /\ SetObject(k, [objs[k] EXCEPT !.state = "corrupt"])
    /\ UNCHANGED <<fills, done, diskVars, readerVars, givenVars, pc, src, passes, restarts>>

Rename(c) == /\ RunTo(c, "valid", "moved")
             /\ cached' = [cached EXCEPT ![want[c]] = purgatory[want[c]]]
             /\ purgatory' = [purgatory EXCEPT ![want[c]] = None]
             /\ UNCHANGED <<indexVars, readerVars, givenVars, pc, src, passes, restarts>>

RenameFail(c) == /\ RunTo(c, "valid", "unmoved")
                 /\ UNCHANGED <<indexVars, diskVars, readerVars, givenVars, pc, src,
                                passes, restarts>>

(* An object that could not be renamed is validated where it is. *)
MarkValidated(c) ==
    LET k == want[c] IN
    /\ \/ /\ RunTo(c, "moved", "finish")
          /\ SetObject(k, [objs[k] EXCEPT !.path = "cache", !.state = "validated"])
       \/ /\ RunTo(c, "unmoved", "finish")
          /\ SetObject(k, [objs[k] EXCEPT !.state = "validated"])
    /\ UNCHANGED <<fills, done, diskVars, readerVars, givenVars, pc, src, passes, restarts>>

(* The deferred steps. *)
CloseSource(c) == /\ RunTo(c, "finish", "closed")
                  /\ src' = [src EXCEPT ![c] = "closed"]
                  /\ UNCHANGED <<indexVars, diskVars, readerVars, givenVars, pc,
                                 passes, restarts>>

(* Mutant: the done channel is not closed. *)
FinishSilent(c) == /\ RunTo(c, "closed", "over")
                   /\ fills' = [fills EXCEPT ![want[c]] = None]
                   /\ UNCHANGED <<objs, done, diskVars, readerVars, givenVars, pc,
                                  src, passes, restarts>>

FinishFill(c) == /\ RunTo(c, "closed", "over")
                 /\ fills' = [fills EXCEPT ![want[c]] = None]
                 /\ done' = done \cup {c}
                 /\ UNCHANGED <<objs, diskVars, readerVars, givenVars, pc, src,
                                passes, restarts>>
----------------------------------------------------------------------------
(* Mutant: an object that is being filled is reaped too. *)
ReapFilling(k) ==
    /\ objs[k] # None
    /\ objs' = [objs EXCEPT ![k] = None]
    /\ UNCHANGED <<fills, done, diskVars, readerVars, givenVars, run, pc, src,
                   passes, restarts>>

(* Reap holds the mutex throughout, and takes any number of objects that are
   expired or over budget; one key at a time is enough, as no property
   relates two keys. *)
Reap(k) ==
    /\ objs[k] # None
    /\ objs[k].state # "filling"
    /\ IF objs[k].path = "purgatory"
       THEN purgatory' = [purgatory EXCEPT ![k] = None] /\ UNCHANGED cached
       ELSE cached' = [cached EXCEPT ![k] = None] /\ UNCHANGED purgatory
    /\ objs' = [objs EXCEPT ![k] = None]
    /\ UNCHANGED <<fills, done, readerVars, givenVars, run, pc, src, passes, restarts>>

(* The process ends and starts again: the index is in memory, the files are
   not.  Calls and fills in progress are gone. *)
Restart ==
    /\ restarts < MaxRestarts
    /\ restarts' = restarts + 1
    /\ objs' = [k \in Keys |-> None]
    /\ fills' = [k \in Keys |-> None]
    /\ pc' = [c \in Calls |-> IF pc[c] = "idle" THEN "idle" ELSE "failed"]
    /\ run' = [c \in Calls |-> IF run[c] = "none" THEN "none" ELSE "over"]
    /\ src' = [c \in Calls |-> IF pc[c] = "idle" \/ src[c] = "none"
                               THEN src[c] ELSE "closed"]
    /\ UNCHANGED <<done, diskVars, readerVars, givenVars, passes>>
----------------------------------------------------------------------------
Calling(c) == \/ Hit(c) \/ OpenHit(c) \/ WaitFill(c) \/ WaitDone(c)
              \/ NoSource(c) \/ StartFill(c)
              \/ CreateFile(c) \/ CreateFail(c) \/ CreateFailed(c)
              \/ StatFound(c) \/ StatTimeout(c) \/ GiveUp(c)

Reading(c) == \/ ReadData(c) \/ ReadNothing(c) \/ ReadGone(c) \/ ReadAgain(c)
              \/ LastAttempt(c)

Filling(c) == \/ Validate(c) \/ MarkCorrupt(c) \/ Rename(c) \/ RenameFail(c)
              \/ MarkValidated(c) \/ CloseSource(c) \/ FinishFill(c)

Next == \/ \E c \in Calls : \/ Begin(c) \/ Calling(c) \/ Reading(c)
                            \/ WaitCancelled(c) \/ Abandon(c)
                            \/ Copy(c) \/ CopyEnd(c) \/ Filling(c)
        \/ \E k \in Keys : Reap(k)
        \/ Restart

Spec == Init /\ [][Next]_vars

(* Every goroutine that can go on does. *)
Fairness == \A c \in Calls : /\ WF_vars(Calling(c))
                             /\ WF_vars(Reading(c))
                             /\ WF_vars(Filling(c))

(* Every source ends. *)
FairSpec == Spec /\ Fairness /\ \A c \in Calls : WF_vars(CopyEnd(c))
=============================================================================
