---------------------------- MODULE CacheProofs ----------------------------
(* What the cache promises, for any number of calls, keys, chunks and
   restarts. *)
EXTENDS CacheProps, TLAPS

(* A fill whose object is "filling": until the object is marked. *)
Writing == {"copy", "copied", "broken", "valid", "invalid", "unmoved"}
Unmarked(c) == pc[c] = "create" \/ run[c] \in Writing \cup {"moved"}

(* A call has no fill before it has started one. *)
NoFillYet ==
    \A c \in Calls :
        pc[c] \in {"idle", "look", "open", "waiting", "create"} => run[c] = "none"

(* c.fills names the fills in progress, each under its own key. *)
FillsAreActive ==
    /\ \A c \in Calls : Active(c) <=> fills[want[c]] = c
    /\ \A k \in Keys : fills[k] # None => want[fills[k]] = k

(* The object of a fill stays where the fill left it until the fill marks it. *)
UnmarkedIsFilling ==
    \A c \in Calls : Unmarked(c) =>
        LET o == objs[want[c]] IN
        o # None /\ o.state = "filling" /\ o.path = "purgatory"

(* And nothing else is being filled. *)
FillingIsUnmarked ==
    \A k \in Keys : objs[k] # None /\ objs[k].state = "filling" =>
        fills[k] # None /\ Unmarked(fills[k])

(* The file under purgatory/ is the fill's own while it writes or renames it. *)
WritesOwnFile ==
    \A c \in Calls : run[c] \in Writing =>
        purgatory[want[c]] # None /\ purgatory[want[c]].by = c

(* A fill that has validated its file has it, as long as it recorded, where the
   object will say. *)
ValidatedFile(f, k) == Whole(f) /\ f.len = objs[k].size
HasValidated ==
    \A c \in Calls :
        /\ run[c] \in {"valid", "unmoved"} => ValidatedFile(purgatory[want[c]], want[c])
        /\ run[c] = "moved" => ValidatedFile(cached[want[c]], want[c])

(* Whatever is under cache/ is whole. *)
CachedIsWhole == \A k \in Keys : cached[k] # None => Whole(cached[k])

FillInv == NoFillYet /\ FillsAreActive /\ UnmarkedIsFilling /\ FillingIsUnmarked
FileInv == WritesOwnFile /\ HasValidated /\ CachedIsWhole
PromiseInv == ValidatedIsWhole /\ HitInCacheIsWhole
IInv == TypeOK /\ FillInv /\ FileInv /\ PromiseInv
----------------------------------------------------------------------------
(* Steps of a call that neither begin nor end a fill. *)
Elsewhere(c) == \/ Begin(c) \/ Hit(c) \/ OpenHit(c) \/ WaitFill(c) \/ WaitDone(c)
                \/ WaitCancelled(c) \/ NoSource(c) \/ CreateFailed(c)
                \/ StatFound(c) \/ StatTimeout(c) \/ GiveUp(c)
                \/ Reading(c) \/ Abandon(c)

(* They leave the fills, the index and the disk alone. *)
LEMMA ElsewhereKeeps ==
  ASSUME TypeOK, NEW c \in Calls, Elsewhere(c)
  PROVE  /\ UNCHANGED <<indexVars, diskVars, givenVars, run>>
         /\ \A d \in Calls : pc'[d] = "create" <=> pc[d] = "create"
<1>1. CASE Begin(c) \/ NoSource(c) \/ CreateFailed(c) \/ StatTimeout(c) \/ GiveUp(c)
  BY <1>1 DEF TypeOK, Begin, NoSource, Miss, CreateFailed, StatTimeout, GiveUp, Goto
<1>2. CASE Hit(c) \/ OpenHit(c)
  BY <1>2 DEF TypeOK, Hit, OpenHit, Goto
<1>3. CASE WaitFill(c) \/ WaitDone(c) \/ WaitCancelled(c)
  BY <1>3 DEF TypeOK, WaitFill, WaitDone, WaitCancelled, Goto
<1>4. CASE StatFound(c) \/ Abandon(c)
  BY <1>4 DEF TypeOK, StatFound, Abandon, Goto
<1>5. CASE Reading(c)
  <2>1. CASE ReadData(c) \/ ReadNothing(c) \/ ReadGone(c) \/ ReadAgain(c)
    BY <2>1 DEF TypeOK, ReadData, ReadNothing, ReadGone, ReadAgain, ReadChunk, Goto
  <2>2. CASE LastAttempt(c)
    BY <2>2 DEF TypeOK, LastAttempt, ReadChunk, Goto
  <2> QED
    BY <1>5, <2>1, <2>2 DEF Reading
<1> QED
  BY <1>1, <1>2, <1>3, <1>4, <1>5 DEF Elsewhere

(* The steps, as the proofs below take them. *)
LEMMA Steps ==
  ASSUME [Next]_vars
  PROVE  \/ \E c \in Calls : Elsewhere(c)
         \/ \E c \in Calls : StartFill(c)
         \/ \E c \in Calls : CreateFile(c)
         \/ \E c \in Calls : CreateFail(c)
         \/ \E c \in Calls : Copy(c)
         \/ \E c \in Calls : CopyEnd(c)
         \/ \E c \in Calls : Filling(c)
         \/ \E k \in Keys : Reap(k)
         \/ Restart
         \/ UNCHANGED vars
BY DEF Next, Calling, Elsewhere
----------------------------------------------------------------------------
(* An object or a file with a field replaced. *)
LEMMA ReplaceState ==
  ASSUME NEW o \in Objects, NEW s
  PROVE  [o EXCEPT !.state = s] = [state |-> s, path |-> o.path, size |-> o.size]
BY DEF Objects

LEMMA ReplaceSize ==
  ASSUME NEW o \in Objects, NEW n
  PROVE  [o EXCEPT !.size = n] = [state |-> o.state, path |-> o.path, size |-> n]
BY DEF Objects

LEMMA ReplaceSizeAndState ==
  ASSUME NEW o \in Objects, NEW n, NEW s
  PROVE  [o EXCEPT !.size = n, !.state = s] = [state |-> s, path |-> o.path, size |-> n]
<1> DEFINE q == [state |-> o.state, path |-> o.path, size |-> n]
<1>1. [q EXCEPT !.state = s] = [state |-> s, path |-> o.path, size |-> n]
  OBVIOUS
<1> QED
  BY <1>1, ReplaceSize

LEMMA ReplacePathAndState ==
  ASSUME NEW o \in Objects, NEW p, NEW s
  PROVE  [o EXCEPT !.path = p, !.state = s] = [state |-> s, path |-> p, size |-> o.size]
<1> DEFINE q == [state |-> o.state, path |-> p, size |-> o.size]
<1>1. [o EXCEPT !.path = p] = q
  BY DEF Objects
<1>2. [q EXCEPT !.state = s] = [state |-> s, path |-> p, size |-> o.size]
  OBVIOUS
<1> QED
  BY <1>1, <1>2

LEMMA ReplaceLength ==
  ASSUME NEW f \in Files
  PROVE  [f EXCEPT !.len = @ + 1] = [by |-> f.by, len |-> f.len + 1]
BY DEF Files

(* What the steps of a fill make of its object. *)
LEMMA FillingSetsObject ==
  ASSUME TypeOK, UnmarkedIsFilling, WritesOwnFile, NEW c \in Calls
  PROVE  LET k == want[c]
             o == objs[k]
         IN /\ k \in Keys
            /\ Unmarked(c) => o \in Objects
            /\ run[c] \in Writing => purgatory[k] \in Files
            /\ Validate(c) => objs' = [objs EXCEPT ![k] =
                 [state |-> o.state, path |-> o.path, size |-> purgatory[k].len]]
            /\ MarkCorrupt(c) => \E n \in 0..Size : objs' = [objs EXCEPT ![k] =
                 [state |-> "corrupt", path |-> o.path, size |-> n]]
            /\ MarkValidated(c) => objs' = [objs EXCEPT ![k] =
                 [state |-> "validated", size |-> o.size,
                  path |-> IF run[c] = "moved" THEN "cache" ELSE o.path]]
            /\ CreateFail(c) => objs' = [objs EXCEPT ![k] =
                 [state |-> "corrupt", path |-> o.path, size |-> o.size]]
<1> DEFINE k == want[c]
           o == objs[k]
<1>1. k \in Keys
  BY DEF TypeOK
<1>2. Unmarked(c) => o \in Objects /\ o # None /\ o.size \in 0..Size
  BY <1>1 DEF TypeOK, UnmarkedIsFilling, Objects
<1>3. run[c] \in Writing => purgatory[k] \in Files /\ purgatory[k].len \in 0..Size
  BY <1>1 DEF TypeOK, WritesOwnFile, Files
<1> HIDE DEF o, k
<1>4. ASSUME Validate(c)
      PROVE  objs' = [objs EXCEPT ![k] =
                 [state |-> o.state, path |-> o.path, size |-> purgatory[k].len]]
  <2>1. Unmarked(c)
    BY <1>4 DEF Validate, Unmarked, Writing
  <2>2. objs' = [objs EXCEPT ![k] = [o EXCEPT !.size = purgatory[k].len]]
    BY <1>2, <1>4, <2>1 DEF Validate, SetObject, k, o
  <2> QED
    BY <1>2, <2>1, <2>2, ReplaceSize
<1>5. ASSUME MarkCorrupt(c)
      PROVE  \E n \in 0..Size : objs' = [objs EXCEPT ![k] =
                 [state |-> "corrupt", path |-> o.path, size |-> n]]
  <2>1. Unmarked(c) /\ run[c] \in Writing
    BY <1>5 DEF MarkCorrupt, RunTo, Unmarked, Writing
  <2>2. \/ objs' = [objs EXCEPT ![k] = [o EXCEPT !.size = purgatory[k].len,
                                                 !.state = "corrupt"]]
        \/ objs' = [objs EXCEPT ![k] = [o EXCEPT !.state = "corrupt"]]
    BY <1>2, <1>5, <2>1 DEF MarkCorrupt, SetObject, k, o
  <2>3. [o EXCEPT !.size = purgatory[k].len, !.state = "corrupt"] =
           [state |-> "corrupt", path |-> o.path, size |-> purgatory[k].len]
    BY <1>2, <2>1, ReplaceSizeAndState, Zenon
  <2>4. [o EXCEPT !.state = "corrupt"] =
           [state |-> "corrupt", path |-> o.path, size |-> o.size]
    BY <1>2, <2>1, ReplaceState
  <2> QED
    BY <1>2, <1>3, <2>1, <2>2, <2>3, <2>4, Zenon
<1>6. ASSUME MarkValidated(c)
      PROVE  objs' = [objs EXCEPT ![k] =
                 [state |-> "validated", size |-> o.size,
                  path |-> IF run[c] = "moved" THEN "cache" ELSE o.path]]
  <2>1. Unmarked(c)
    BY <1>6 DEF MarkValidated, RunTo, Unmarked, Writing
  <2>2. CASE run[c] = "moved"
    <3>1. objs' = [objs EXCEPT ![k] = [o EXCEPT !.path = "cache", !.state = "validated"]]
      BY <1>2, <1>6, <2>1, <2>2 DEF MarkValidated, RunTo, SetObject, k, o
    <3>2. [o EXCEPT !.path = "cache", !.state = "validated"] =
             [state |-> "validated", path |-> "cache", size |-> o.size]
      BY <1>2, <2>1, ReplacePathAndState, Zenon
    <3>3. objs' = [objs EXCEPT ![k] =
             [state |-> "validated", path |-> "cache", size |-> o.size]]
      BY <3>1, <3>2, Zenon
    <3> QED
      BY <2>2, <3>3
  <2>3. CASE run[c] # "moved"
    <3>1. objs' = [objs EXCEPT ![k] = [o EXCEPT !.state = "validated"]]
      BY <1>2, <1>6, <2>1, <2>3 DEF MarkValidated, RunTo, SetObject, k, o
    <3> QED
      BY <1>2, <2>1, <2>3, <3>1, ReplaceState
  <2> QED
    BY <2>2, <2>3
<1>7. ASSUME CreateFail(c)
      PROVE  objs' = [objs EXCEPT ![k] =
                 [state |-> "corrupt", path |-> o.path, size |-> o.size]]
  <2>1. Unmarked(c)
    BY <1>7 DEF CreateFail, Unmarked
  <2>2. objs' = [objs EXCEPT ![k] = [o EXCEPT !.state = "corrupt"]]
    BY <1>2, <1>7, <2>1 DEF CreateFail, k, o
  <2> QED
    BY <1>2, <2>1, <2>2, ReplaceState
<1> QED
  BY <1>1, <1>2, <1>3, <1>4, <1>5, <1>6, <1>7 DEF k, o
----------------------------------------------------------------------------
LEMMA CacheInit == Init => IInv
<1> SUFFICES ASSUME Init PROVE IInv
  OBVIOUS
<1>1. TypeOK
  BY CacheAssumption DEF Init, TypeOK, CallStates, FillStates
<1>2. FillInv
  BY <1>1, CacheAssumption DEF Init, TypeOK, FillInv, NoFillYet, FillsAreActive,
     UnmarkedIsFilling, FillingIsUnmarked, Active, Unmarked, Writing
<1>3. FileInv /\ PromiseInv
  BY <1>1 DEF Init, FileInv, WritesOwnFile, HasValidated, CachedIsWhole, Writing,
     PromiseInv, ValidatedIsWhole, HitInCacheIsWhole, Valid
<1> QED
  BY <1>1, <1>2, <1>3 DEF IInv

LEMMA FileAtType ==
  ASSUME TypeOK, NEW k \in Keys, NEW dir
  PROVE  FileAt(dir, k) \in Files \cup {None}
BY DEF TypeOK, FileAt

LEMMA TypeKept == IInv /\ [Next]_vars => TypeOK'
<1> SUFFICES ASSUME IInv, [Next]_vars PROVE TypeOK'
  OBVIOUS
<1> USE CacheAssumption DEF IInv, TypeOK, CallStates, FillStates, Goto, RunTo,
        indexVars, diskVars, readerVars, givenVars
<1>1. ASSUME NEW c \in Calls, Elsewhere(c) PROVE TypeOK'
  <2>1. CASE Begin(c) \/ NoSource(c) \/ CreateFailed(c) \/ StatTimeout(c) \/ GiveUp(c)
    BY <2>1 DEF Begin, NoSource, Miss, CreateFailed, StatTimeout, GiveUp
  <2>2. CASE Hit(c)
    BY <2>2 DEF Hit, Valid, Objects
  <2>3. CASE OpenHit(c)
    BY <2>3, FileAtType DEF OpenHit
  <2>4. CASE WaitFill(c) \/ WaitDone(c) \/ WaitCancelled(c)
    BY <2>4 DEF WaitFill, WaitDone, WaitCancelled
  <2>5. CASE StatFound(c)
    BY <2>5 DEF StatFound
  <2>9. CASE Abandon(c)
    BY <2>9 DEF Abandon
  <2>6. CASE ReadData(c)
    <3>1. FileAt(at[c], want[c]) \in Files
      BY <2>6, FileAtType DEF ReadData
    <3> QED
      BY <2>6, <3>1 DEF ReadData, ReadChunk, Files
  <2>7. CASE ReadNothing(c) \/ ReadGone(c) \/ ReadAgain(c)
    BY <2>7 DEF ReadNothing, ReadGone, ReadAgain
  <2>8. CASE LastAttempt(c)
    <3> DEFINE dir == IF FileAt(at[c], want[c]) # None THEN at[c] ELSE "cache"
               f == FileAt(dir, want[c])
    <3>1. f \in Files \cup {None} /\ dir \in {"purgatory", "cache"}
      BY FileAtType
    <3>2. at' \in [Calls -> {"purgatory", "cache"}]
      BY <2>8, <3>1 DEF LastAttempt
    <3>3. CASE f # None /\ f.len > off[c]
      <4>1. f.len \in 0..Size
        BY <3>1, <3>3 DEF Files
      <4>2. off' = [off EXCEPT ![c] = @ + 1] /\ pc' = [pc EXCEPT ![c] = "reading"]
        BY <2>8, <3>3 DEF LastAttempt, ReadChunk
      <4>3. off' \in [Calls -> 0..Size]
        BY <3>3, <4>1, <4>2
      <4> QED
        BY <2>8, <3>2, <4>2, <4>3 DEF LastAttempt
    <3>4. CASE ~ (f # None /\ f.len > off[c])
      BY <2>8, <3>2, <3>4 DEF LastAttempt
    <3> QED
      BY <3>3, <3>4
  <2> QED
    BY <1>1, <2>1, <2>2, <2>3, <2>4, <2>5, <2>6, <2>7, <2>8, <2>9 DEF Elsewhere, Reading
<1>2. ASSUME NEW c \in Calls, StartFill(c) PROVE TypeOK'
  BY <1>2 DEF StartFill, Objects
<1>3. ASSUME NEW c \in Calls, CreateFile(c) PROVE TypeOK'
  BY <1>3 DEF CreateFile, Files
<1>4. ASSUME NEW c \in Calls, CreateFail(c) PROVE TypeOK'
  BY <1>4 DEF CreateFail, Objects
<1>5. ASSUME NEW c \in Calls, Copy(c) PROVE TypeOK'
  <2>1. purgatory[want[c]] \in Files
    BY <1>5 DEF Copy, FileInv, WritesOwnFile, Writing
  <2>2. [purgatory[want[c]] EXCEPT !.len = @ + 1] \in Files
    BY <1>5, <2>1 DEF Copy, Files
  <2> QED
    BY <1>5, <2>2 DEF Copy
<1>6. ASSUME NEW c \in Calls, CopyEnd(c) PROVE TypeOK'
  BY <1>6 DEF CopyEnd
<1>7. ASSUME NEW c \in Calls, Filling(c) PROVE TypeOK'
  <2>1. run[c] \in Writing =>
          /\ purgatory[want[c]] \in Files /\ purgatory[want[c]].len \in 0..Size
    BY DEF FileInv, WritesOwnFile, Files
  <2>2. CASE Validate(c)
    <3>1. objs' \in [Keys -> Objects \cup {None}]
      BY <2>1, <2>2 DEF Validate, SetObject, Objects, Writing
    <3> QED
      BY <2>2, <3>1 DEF Validate
  <2>3. CASE MarkCorrupt(c)
    <3>1. Unmarked(c)
      BY <2>3 DEF MarkCorrupt, Unmarked, Writing
    <3>2. PICK n \in 0..Size : objs' = [objs EXCEPT ![want[c]] =
                 [state |-> "corrupt", path |-> objs[want[c]].path, size |-> n]]
      BY <2>3, FillingSetsObject DEF FillInv, FileInv
    <3>3. objs' \in [Keys -> Objects \cup {None}]
      BY <3>1, <3>2, FillingSetsObject DEF FillInv, FileInv, Objects
    <3> QED
      BY <2>3, <3>3 DEF MarkCorrupt
  <2>4. CASE Rename(c) \/ RenameFail(c)
    BY <2>4 DEF Rename, RenameFail
  <2>5. CASE MarkValidated(c)
    <3>1. Unmarked(c)
      BY <2>5 DEF MarkValidated, Unmarked, Writing
    <3>2. objs' = [objs EXCEPT ![want[c]] =
             [state |-> "validated", size |-> objs[want[c]].size,
              path |-> IF run[c] = "moved" THEN "cache" ELSE objs[want[c]].path]]
      BY <2>5, FillingSetsObject DEF FillInv, FileInv
    <3>3. objs[want[c]] \in Objects
      BY <3>1, FillingSetsObject DEF FillInv, FileInv
    <3>4. objs' \in [Keys -> Objects \cup {None}]
      BY <3>2, <3>3 DEF Objects
    <3> QED
      BY <2>5, <3>4 DEF MarkValidated
  <2>6. CASE CloseSource(c) \/ FinishFill(c)
    BY <2>6 DEF CloseSource, FinishFill
  <2> QED
    BY <1>7, <2>2, <2>3, <2>4, <2>5, <2>6 DEF Filling
<1>8. ASSUME NEW k \in Keys, Reap(k) PROVE TypeOK'
  BY <1>8 DEF Reap
<1>9. CASE Restart
  BY <1>9 DEF Restart
<1>10. CASE UNCHANGED vars
  BY <1>10 DEF vars
<1> QED
  BY <1>1, <1>2, <1>3, <1>4, <1>5, <1>6, <1>7, <1>8, <1>9, <1>10, Steps
----------------------------------------------------------------------------
(* Two fills in progress are for two keys. *)
LEMMA OneFillPerKey ==
  ASSUME FillsAreActive, NEW c \in Calls, NEW d \in Calls,
         Active(c), Active(d), want[c] = want[d]
  PROVE  c = d
BY DEF FillsAreActive

LEMMA UnmarkedIsActive ==
  ASSUME NEW c \in Calls, Unmarked(c)
  PROVE  Active(c)
BY DEF Unmarked, Active, Writing

LEMMA NoFillYetKept == IInv /\ [Next]_vars => NoFillYet'
<1> SUFFICES ASSUME IInv, [Next]_vars PROVE NoFillYet'
  OBVIOUS
<1> USE DEF IInv, FillInv, NoFillYet, TypeOK, Goto, RunTo
<1>1. ASSUME NEW c \in Calls, Elsewhere(c) PROVE NoFillYet'
  <2>1. UNCHANGED run
    BY <1>1, ElsewhereKeeps
  <2>2. CASE Begin(c) \/ Hit(c) \/ WaitFill(c) \/ WaitDone(c)
    BY <2>2, <2>1 DEF Begin, Hit, WaitFill, WaitDone
  <2>3. CASE OpenHit(c)
    BY <2>3, <2>1 DEF OpenHit
  <2>4. CASE WaitCancelled(c) \/ NoSource(c) \/ CreateFailed(c)
    BY <2>4, <2>1 DEF WaitCancelled, NoSource, Miss, CreateFailed
  <2>5. CASE StatFound(c) \/ StatTimeout(c) \/ GiveUp(c) \/ Abandon(c)
    BY <2>5, <2>1 DEF StatFound, StatTimeout, GiveUp, Abandon
  <2>6. CASE Reading(c)
    <3>1. CASE ReadData(c) \/ ReadNothing(c) \/ ReadGone(c) \/ ReadAgain(c)
      BY <2>1, <3>1 DEF ReadData, ReadNothing, ReadGone, ReadAgain, ReadChunk
    <3>2. CASE LastAttempt(c)
      BY <2>1, <3>2 DEF LastAttempt, ReadChunk
    <3> QED
      BY <2>6, <3>1, <3>2 DEF Reading
  <2> QED
    BY <1>1, <2>2, <2>3, <2>4, <2>5, <2>6 DEF Elsewhere
<1>2. ASSUME NEW c \in Calls, StartFill(c) \/ CreateFile(c) \/ CreateFail(c)
      PROVE  NoFillYet'
  BY <1>2 DEF StartFill, Miss, CreateFile, CreateFail
<1>3. ASSUME NEW c \in Calls, Copy(c) \/ CopyEnd(c) PROVE NoFillYet'
  BY <1>3 DEF Copy, CopyEnd
<1>4. ASSUME NEW c \in Calls, Filling(c) PROVE NoFillYet'
  BY <1>4 DEF Filling, Validate, MarkCorrupt, Rename, RenameFail, MarkValidated,
     CloseSource, FinishFill
<1>5. ASSUME NEW k \in Keys, Reap(k) PROVE NoFillYet'
  BY <1>5 DEF Reap
<1>6. CASE Restart
  BY <1>6 DEF Restart
<1>7. CASE UNCHANGED vars
  BY <1>7 DEF vars
<1> QED
  BY <1>1, <1>2, <1>3, <1>4, <1>5, <1>6, <1>7, Steps

LEMMA FillsAreActiveKept == IInv /\ [Next]_vars => FillsAreActive'
<1> SUFFICES ASSUME IInv, [Next]_vars PROVE FillsAreActive'
  OBVIOUS
<1> USE CacheAssumption DEF IInv, FillInv, TypeOK, FillsAreActive, Active, Goto, RunTo
<1>1. ASSUME NEW c \in Calls, Elsewhere(c) PROVE FillsAreActive'
  BY <1>1, ElsewhereKeeps DEF indexVars, givenVars
<1>2. ASSUME NEW c \in Calls, StartFill(c) PROVE FillsAreActive'
  BY <1>2 DEF StartFill, Miss, NoFillYet, givenVars
<1>3. ASSUME NEW c \in Calls, CreateFile(c) PROVE FillsAreActive'
  BY <1>3 DEF CreateFile, NoFillYet, indexVars, givenVars
<1>4. ASSUME NEW c \in Calls, CreateFail(c) PROVE FillsAreActive'
  BY <1>4 DEF CreateFail, NoFillYet, givenVars
<1>5. ASSUME NEW c \in Calls, Copy(c) \/ CopyEnd(c) PROVE FillsAreActive'
  BY <1>5 DEF Copy, CopyEnd, indexVars, givenVars
<1>6. ASSUME NEW c \in Calls, Filling(c) PROVE FillsAreActive'
  <2>1. CASE Validate(c)
    <3>1. PICK to \in {"finish", "valid", "invalid"} : run' = [run EXCEPT ![c] = to]
      BY <2>1 DEF Validate
    <3> QED
      BY <2>1, <3>1 DEF Validate, givenVars
  <2>2. CASE MarkCorrupt(c) \/ MarkValidated(c)
    BY <2>2 DEF MarkCorrupt, MarkValidated, givenVars
  <2>3. CASE Rename(c) \/ RenameFail(c) \/ CloseSource(c)
    BY <2>3 DEF Rename, RenameFail, CloseSource, givenVars, indexVars
  <2>4. CASE FinishFill(c)
    <3>1. pc[c] # "create"
      BY <2>4 DEF FinishFill, NoFillYet
    <3> QED
      BY <2>4, <3>1 DEF FinishFill, givenVars
  <2> QED
    BY <1>6, <2>1, <2>2, <2>3, <2>4 DEF Filling
<1>7. ASSUME NEW k \in Keys, Reap(k) PROVE FillsAreActive'
  BY <1>7 DEF Reap, givenVars
<1>8. CASE Restart
  BY <1>8 DEF Restart, givenVars
<1>9. CASE UNCHANGED vars
  BY <1>9 DEF vars, indexVars, givenVars
<1> QED
  BY <1>1, <1>2, <1>3, <1>4, <1>5, <1>6, <1>7, <1>8, <1>9, Steps

LEMMA UnmarkedIsFillingKept == IInv /\ [Next]_vars => UnmarkedIsFilling'
<1> SUFFICES ASSUME IInv, [Next]_vars PROVE UnmarkedIsFilling'
  OBVIOUS
<1> USE CacheAssumption DEF IInv, FillInv, TypeOK, UnmarkedIsFilling, Goto, RunTo
<1>0. \A c, d \in Calls : Unmarked(c) /\ Unmarked(d) /\ want[c] = want[d] => c = d
  BY OneFillPerKey, UnmarkedIsActive
<1>1. ASSUME NEW c \in Calls, Elsewhere(c) PROVE UnmarkedIsFilling'
  BY <1>1, ElsewhereKeeps DEF indexVars, givenVars, Unmarked
<1>2. ASSUME NEW c \in Calls, StartFill(c) PROVE UnmarkedIsFilling'
  <2>1. objs' = [objs EXCEPT ![want[c]] =
             [state |-> "filling", path |-> "purgatory", size |-> 0]]
    BY <1>2 DEF StartFill
  <2>2. \A d \in Calls : Unmarked(d)' => d = c \/ Unmarked(d)
    BY <1>2 DEF StartFill, Unmarked
  <2>3. \A d \in Calls : Unmarked(d) => want[d] # want[c]
    BY <1>2, UnmarkedIsActive DEF StartFill, Miss, FillsAreActive
  <2>4. objs'[want[c]] # None
    BY <2>1 DEF Objects
  <2> QED
    BY <1>2, <2>1, <2>2, <2>3, <2>4 DEF StartFill, givenVars
<1>3. ASSUME NEW c \in Calls, CreateFile(c) PROVE UnmarkedIsFilling'
  BY <1>3 DEF CreateFile, indexVars, givenVars, Unmarked
<1>4. ASSUME NEW c \in Calls, CreateFail(c) PROVE UnmarkedIsFilling'
  <2>1. \A d \in Calls : Unmarked(d)' => Unmarked(d) /\ want[d] # want[c]
    BY <1>0, <1>4 DEF CreateFail, Unmarked, NoFillYet, Writing, givenVars
  <2> QED
    BY <1>4, <2>1, FillingSetsObject DEF givenVars, CreateFail
<1>5. ASSUME NEW c \in Calls, Copy(c) \/ CopyEnd(c) PROVE UnmarkedIsFilling'
  BY <1>5 DEF Copy, CopyEnd, indexVars, givenVars, Unmarked, Writing
<1>6. ASSUME NEW c \in Calls, Filling(c) PROVE UnmarkedIsFilling'
  <2>1. CASE Validate(c)
    <3>1. PICK to \in {"finish", "valid", "invalid"} : run' = [run EXCEPT ![c] = to]
      BY <2>1 DEF Validate
    <3>2. Unmarked(c) /\ \A d \in Calls : Unmarked(d)' => Unmarked(d)
      BY <2>1, <3>1 DEF Validate, Unmarked, Writing
    <3>3. objs' = [objs EXCEPT ![want[c]] =
             [state |-> objs[want[c]].state, path |-> objs[want[c]].path,
              size |-> purgatory[want[c]].len]]
      BY <2>1, FillingSetsObject DEF FileInv
    <3>4. objs[want[c]] \in Objects /\ purgatory[want[c]] \in Files
      BY <2>1, <3>2, FillingSetsObject DEF Validate, Writing, FileInv
    <3>5. objs'[want[c]] # None
      BY <3>3, <3>4 DEF Objects, Files
    <3> QED
      BY <2>1, <3>2, <3>3, <3>5 DEF Validate, givenVars
  <2>2. CASE MarkCorrupt(c) \/ MarkValidated(c)
    <3>1. Unmarked(c) /\ \A d \in Calls : Unmarked(d)' => Unmarked(d) /\ d # c
      BY <2>2 DEF MarkCorrupt, MarkValidated, Unmarked, Writing, NoFillYet
    <3>2. \A d \in Calls : Unmarked(d)' => Unmarked(d) /\ want[d] # want[c]
      BY <1>0, <3>1
    <3> QED
      BY <2>2, <3>2 DEF MarkCorrupt, MarkValidated, SetObject, givenVars
  <2>3. CASE Rename(c) \/ RenameFail(c) \/ CloseSource(c) \/ FinishFill(c)
    BY <2>3 DEF Rename, RenameFail, CloseSource, FinishFill, givenVars, indexVars,
       Unmarked, Writing
  <2> QED
    BY <1>6, <2>1, <2>2, <2>3 DEF Filling
<1>7. ASSUME NEW k \in Keys, Reap(k) PROVE UnmarkedIsFilling'
  BY <1>7 DEF Reap, givenVars, Unmarked
<1>8. CASE Restart
  BY <1>8 DEF Restart, givenVars, Unmarked, Writing
<1>9. CASE UNCHANGED vars
  BY <1>9 DEF vars, indexVars, givenVars, Unmarked
<1> QED
  BY <1>1, <1>2, <1>3, <1>4, <1>5, <1>6, <1>7, <1>8, <1>9, Steps

LEMMA FillingIsUnmarkedKept == IInv /\ [Next]_vars => FillingIsUnmarked'
<1> SUFFICES ASSUME IInv, [Next]_vars PROVE FillingIsUnmarked'
  OBVIOUS
<1> USE CacheAssumption DEF IInv, FillInv, TypeOK, FillingIsUnmarked, Goto, RunTo
<1>1. ASSUME NEW c \in Calls, Elsewhere(c) PROVE FillingIsUnmarked'
  BY <1>1, ElsewhereKeeps DEF indexVars, givenVars, Unmarked
<1>2. ASSUME NEW c \in Calls, StartFill(c) PROVE FillingIsUnmarked'
  <2>1. \A d \in Calls : Unmarked(d) => Unmarked(d)'
    BY <1>2 DEF StartFill, Unmarked
  <2>2. Unmarked(c)'
    BY <1>2 DEF StartFill, Unmarked
  <2> QED
    BY <1>2, <2>1, <2>2 DEF StartFill, Miss
<1>3. ASSUME NEW c \in Calls, CreateFile(c) PROVE FillingIsUnmarked'
  BY <1>3 DEF CreateFile, indexVars, Unmarked, Writing
<1>4. ASSUME NEW c \in Calls, CreateFail(c) PROVE FillingIsUnmarked'
  <2>1. \A d \in Calls : d # c /\ Unmarked(d) => Unmarked(d)'
    BY <1>4 DEF CreateFail, Unmarked
  <2>2. \A k \in Keys : k # want[c] => fills[k] # c
    BY DEF FillsAreActive
  <2>3. objs' = [objs EXCEPT ![want[c]] =
             [state |-> "corrupt", path |-> objs[want[c]].path,
              size |-> objs[want[c]].size]]
    BY <1>4, FillingSetsObject DEF FileInv
  <2> QED
    BY <1>4, <2>1, <2>2, <2>3 DEF CreateFail
<1>5. ASSUME NEW c \in Calls, Copy(c) \/ CopyEnd(c) PROVE FillingIsUnmarked'
  BY <1>5 DEF Copy, CopyEnd, indexVars, Unmarked, Writing
<1>6. ASSUME NEW c \in Calls, Filling(c) PROVE FillingIsUnmarked'
  <2>1. \A d \in Calls : d # c /\ Unmarked(d) => Unmarked(d)'
    <3>1. CASE Validate(c)
      BY <3>1 DEF Validate, Unmarked
    <3>2. CASE ~ Validate(c)
      BY <1>6, <3>2 DEF Filling, MarkCorrupt, Rename, RenameFail, MarkValidated,
         CloseSource, FinishFill, Unmarked
    <3> QED
      BY <3>1, <3>2
  <2>2. \A k \in Keys : k # want[c] => fills[k] # c
    BY DEF FillsAreActive
  <2>3. CASE Validate(c)
    <3>1. Unmarked(c) /\ run[c] = "copied"
      BY <2>3 DEF Validate, Unmarked, Writing
    <3>2. objs[want[c]] # None
      BY <3>1 DEF UnmarkedIsFilling
    <3>3. run' = [run EXCEPT ![c] = "valid"] \/ run' = [run EXCEPT ![c] = "invalid"]
      BY <2>3, <3>2 DEF Validate
    <3>4. Unmarked(c)'
      BY <3>3 DEF Unmarked, Writing
    <3> QED
      BY <2>1, <2>3, <3>2, <3>4 DEF Validate, SetObject
  <2>4. CASE MarkCorrupt(c) \/ MarkValidated(c)
    <3>1. /\ objs'[want[c]].state \in {"corrupt", "validated"}
          /\ \A k \in Keys : k # want[c] => objs'[k] = objs[k]
      <4>1. CASE MarkCorrupt(c)
        <5>1. PICK n \in 0..Size : objs' = [objs EXCEPT ![want[c]] =
                 [state |-> "corrupt", path |-> objs[want[c]].path, size |-> n]]
          BY <4>1, FillingSetsObject DEF FileInv
        <5> QED
          BY <5>1
      <4>2. CASE MarkValidated(c)
        <5>1. objs' = [objs EXCEPT ![want[c]] =
                 [state |-> "validated", size |-> objs[want[c]].size,
                  path |-> IF run[c] = "moved" THEN "cache" ELSE objs[want[c]].path]]
          BY <4>2, FillingSetsObject DEF FileInv
        <5> QED
          BY <5>1
      <4> QED
        BY <2>4, <4>1, <4>2
    <3>2. \A k \in Keys : objs'[k] # None /\ objs'[k].state = "filling" =>
             k # want[c] /\ objs'[k] = objs[k]
      BY <3>1
    <3> QED
      BY <2>1, <2>2, <2>4, <3>2 DEF MarkCorrupt, MarkValidated
  <2>5. CASE Rename(c) \/ RenameFail(c)
    BY <2>5 DEF Rename, RenameFail, indexVars, Unmarked, Writing
  <2>6. CASE CloseSource(c) \/ FinishFill(c)
    <3>1. ~ Unmarked(c)
      BY <2>6 DEF CloseSource, FinishFill, Unmarked, Writing, NoFillYet
    <3>2. run[c] \notin {"none", "over"}
      BY <2>6 DEF CloseSource, FinishFill
    <3>3. fills[want[c]] = c
      BY <3>2 DEF FillsAreActive, Active
    <3>4. UNCHANGED objs /\ \A k \in Keys : k # want[c] => fills'[k] = fills[k]
      BY <2>6 DEF CloseSource, FinishFill, indexVars
    <3> QED
      BY <2>1, <2>2, <3>1, <3>3, <3>4
  <2> QED
    BY <1>6, <2>3, <2>4, <2>5, <2>6 DEF Filling
<1>7. ASSUME NEW k \in Keys, Reap(k) PROVE FillingIsUnmarked'
  BY <1>7 DEF Reap, Unmarked
<1>8. CASE Restart
  BY <1>8 DEF Restart
<1>9. CASE UNCHANGED vars
  BY <1>9 DEF vars, indexVars, Unmarked
<1> QED
  BY <1>1, <1>2, <1>3, <1>4, <1>5, <1>6, <1>7, <1>8, <1>9, Steps

----------------------------------------------------------------------------
LEMMA WritesOwnFileKept == IInv /\ [Next]_vars => WritesOwnFile'
<1> SUFFICES ASSUME IInv, [Next]_vars PROVE WritesOwnFile'
  OBVIOUS
<1> USE CacheAssumption DEF IInv, FileInv, TypeOK, WritesOwnFile, Goto, RunTo
<1>0. \A c, d \in Calls : Unmarked(c) /\ Unmarked(d) /\ want[c] = want[d] => c = d
  BY OneFillPerKey, UnmarkedIsActive DEF FillInv
<1>1. ASSUME NEW c \in Calls, Elsewhere(c) \/ StartFill(c) \/ CreateFail(c)
      PROVE  WritesOwnFile'
  <2>1. CASE Elsewhere(c)
    BY <2>1, ElsewhereKeeps DEF diskVars, givenVars
  <2>2. CASE StartFill(c) \/ CreateFail(c)
    BY <2>2 DEF StartFill, CreateFail, diskVars, givenVars
  <2> QED
    BY <1>1, <2>1, <2>2
<1>2. ASSUME NEW c \in Calls, CreateFile(c) PROVE WritesOwnFile'
  <2>1. \A d \in Calls : d # c /\ run[d] \in Writing => want[d] # want[c]
    BY <1>0, <1>2 DEF CreateFile, Unmarked
  <2>2. [by |-> c, len |-> 0] # None
    BY DEF Files
  <2> QED
    BY <1>2, <2>1, <2>2 DEF CreateFile, givenVars
<1>3. ASSUME NEW c \in Calls, Copy(c) PROVE WritesOwnFile'
  <2>1. purgatory[want[c]] \in Files /\ purgatory[want[c]].by = c
    BY <1>3 DEF Copy, Writing
  <2>2. purgatory' = [purgatory EXCEPT ![want[c]] =
                        [by |-> c, len |-> purgatory[want[c]].len + 1]]
    BY <1>3, <2>1, ReplaceLength DEF Copy
  <2>3. purgatory'[want[c]] # None
    BY <1>3, <2>1, <2>2 DEF Copy, Files
  <2>4. \A d \in Calls : run[d] \in Writing /\ want[d] = want[c] => d = c
    BY <1>0, <1>3 DEF Copy, Unmarked, Writing
  <2> QED
    BY <1>3, <2>2, <2>3, <2>4 DEF Copy, givenVars
<1>4. ASSUME NEW c \in Calls, CopyEnd(c) PROVE WritesOwnFile'
  BY <1>4 DEF CopyEnd, diskVars, givenVars, Writing
<1>5. ASSUME NEW c \in Calls, Filling(c) PROVE WritesOwnFile'
  <2>1. CASE Rename(c)
    <3>1. run[c] = "valid" /\ run' = [run EXCEPT ![c] = "moved"]
      BY <2>1 DEF Rename
    <3>2. \A d \in Calls : run'[d] \in Writing =>
             run[d] \in Writing /\ want[d] # want[c]
      BY <1>0, <3>1 DEF Unmarked, Writing
    <3> QED
      BY <2>1, <3>2 DEF Rename, givenVars
  <2>2. CASE ~ Rename(c)
    <3>1. UNCHANGED <<purgatory, want>>
      BY <1>5, <2>2 DEF Filling, Validate, MarkCorrupt, RenameFail, MarkValidated,
         CloseSource, FinishFill, diskVars, givenVars
    <3>2. \A d \in Calls : run'[d] \in Writing => run[d] \in Writing
      BY <1>5, <2>2 DEF Filling, Validate, MarkCorrupt, RenameFail, MarkValidated,
         CloseSource, FinishFill, Writing
    <3> QED
      BY <3>1, <3>2
  <2> QED
    BY <2>1, <2>2
<1>6. ASSUME NEW k \in Keys, Reap(k) PROVE WritesOwnFile'
  <2>1. \A d \in Calls : run[d] \in Writing => want[d] # k
    BY <1>6 DEF Reap, FillInv, UnmarkedIsFilling, Unmarked
  <2>2. UNCHANGED <<run, want>> /\ \A j \in Keys : j # k => purgatory'[j] = purgatory[j]
    BY <1>6 DEF Reap, givenVars
  <2> QED
    BY <2>1, <2>2
<1>7. CASE Restart
  BY <1>7 DEF Restart, diskVars, givenVars, Writing
<1>8. CASE UNCHANGED vars
  BY <1>8 DEF vars, diskVars, givenVars
<1> QED
  BY <1>1, <1>2, <1>3, <1>4, <1>5, <1>6, <1>7, <1>8, Steps

(* A step that leaves the file and the object of a validated fill alone. *)
Spared(d) == /\ run'[d] = run[d]
             /\ objs'[want[d]] = objs[want[d]]
             /\ purgatory'[want[d]] = purgatory[want[d]]
             /\ cached'[want[d]] = cached[want[d]]

LEMMA HasValidatedOfSpared ==
  ASSUME TypeOK, HasValidated, UNCHANGED givenVars,
         \A d \in Calls : run'[d] \in {"valid", "unmoved", "moved"} => Spared(d)
  PROVE  HasValidated'
BY DEF HasValidated, ValidatedFile, Whole, Spared, givenVars, TypeOK

LEMMA HasValidatedKept == IInv /\ [Next]_vars => HasValidated'
<1> SUFFICES ASSUME IInv, [Next]_vars PROVE HasValidated'
  OBVIOUS
<1> USE CacheAssumption DEF IInv, FileInv, TypeOK, Goto, RunTo
<1>0. \A c, d \in Calls : Unmarked(c) /\ Unmarked(d) /\ want[c] = want[d] => c = d
  BY OneFillPerKey, UnmarkedIsActive DEF FillInv
<1>1. ASSUME NEW c \in Calls, Elsewhere(c) PROVE HasValidated'
  BY <1>1, ElsewhereKeeps, HasValidatedOfSpared DEF indexVars, diskVars, givenVars, Spared
<1>2. ASSUME NEW c \in Calls, StartFill(c) \/ CreateFail(c) PROVE HasValidated'
  <2>1. \A d \in Calls : Unmarked(d) /\ run[d] # "none" => want[d] # want[c]
    BY <1>0, <1>2, UnmarkedIsActive
       DEF StartFill, Miss, CreateFail, FillInv, FillsAreActive, NoFillYet, Unmarked
  <2>2. /\ UNCHANGED <<run, diskVars, givenVars>>
        /\ \A k \in Keys : k # want[c] => objs'[k] = objs[k]
    BY <1>2 DEF StartFill, CreateFail
  <2> QED
    BY <2>1, <2>2, HasValidatedOfSpared DEF Spared, Unmarked, Writing, diskVars
<1>3. ASSUME NEW c \in Calls, CreateFile(c) \/ Copy(c) PROVE HasValidated'
  <2>1. \A d \in Calls : Unmarked(d) /\ d # c => want[d] # want[c]
    BY <1>0, <1>3 DEF CreateFile, Copy, Unmarked, Writing
  <2>2. /\ UNCHANGED <<indexVars, cached, givenVars>>
        /\ run'[c] = "copy" /\ \A d \in Calls : d # c => run'[d] = run[d]
        /\ \A k \in Keys : k # want[c] => purgatory'[k] = purgatory[k]
    BY <1>3 DEF CreateFile, Copy
  <2> QED
    BY <2>1, <2>2, HasValidatedOfSpared DEF Spared, Unmarked, Writing, indexVars
<1>4. ASSUME NEW c \in Calls, CopyEnd(c) PROVE HasValidated'
  BY <1>4, HasValidatedOfSpared DEF CopyEnd, Spared, indexVars, diskVars
<1>5. ASSUME NEW c \in Calls, Filling(c) PROVE HasValidated'
  <2>1. CASE Validate(c)
    <3>1. Unmarked(c) /\ run[c] = "copied"
      BY <2>1 DEF Validate, Unmarked, Writing
    <3>2. purgatory[want[c]] # None /\ purgatory[want[c]].by = c
      BY <3>1 DEF WritesOwnFile, Writing
    <3>3. objs[want[c]] # None
      BY <3>1 DEF FillInv, UnmarkedIsFilling
    <3>4. objs' = [objs EXCEPT ![want[c]] =
             [state |-> objs[want[c]].state, path |-> objs[want[c]].path,
              size |-> purgatory[want[c]].len]]
      BY <2>1, FillingSetsObject DEF FillInv
    <3>5. /\ run'[c] \in {"valid", "invalid"}
          /\ run'[c] = "valid" => Whole(purgatory[want[c]])
          /\ \A d \in Calls : d # c => run'[d] = run[d]
      BY <2>1, <3>2, <3>3 DEF Validate, Whole
    <3>6. \A d \in Calls : run'[d] \in {"valid", "unmoved", "moved"} /\ d # c => Spared(d)
      <4>1. \A d \in Calls : Unmarked(d) /\ d # c => want[d] # want[c]
        BY <1>0, <3>1
      <4> QED
        BY <2>1, <3>4, <3>5, <4>1 DEF Validate, Spared, Unmarked, Writing, diskVars
    <3>7. run'[c] = "valid" => ValidatedFile(purgatory[want[c]], want[c])'
      BY <2>1, <3>4, <3>5 DEF Validate, ValidatedFile, Whole, diskVars, givenVars
    <3>8. UNCHANGED givenVars
      BY <2>1 DEF Validate
    <3>9. \A d \in Calls : d # c =>
            /\ run'[d] \in {"valid", "unmoved"} => ValidatedFile(purgatory[want[d]], want[d])'
            /\ run'[d] = "moved" => ValidatedFile(cached[want[d]], want[d])'
      BY <3>6, <3>8 DEF HasValidated, ValidatedFile, Whole, Spared, givenVars
    <3> QED
      BY <3>5, <3>7, <3>8, <3>9 DEF HasValidated, givenVars
  <2>2. CASE MarkCorrupt(c) \/ MarkValidated(c)
    <3>1. Unmarked(c)
      BY <2>2 DEF MarkCorrupt, MarkValidated, Unmarked, Writing
    <3>2. \A d \in Calls : Unmarked(d) /\ d # c => want[d] # want[c]
      BY <1>0, <3>1
    <3>3. /\ UNCHANGED <<diskVars, givenVars>>
          /\ run' = [run EXCEPT ![c] = "finish"]
          /\ \A k \in Keys : k # want[c] => objs'[k] = objs[k]
      BY <2>2 DEF MarkCorrupt, MarkValidated, SetObject
    <3> QED
      BY <3>2, <3>3, HasValidatedOfSpared DEF Spared, Unmarked, Writing, diskVars
  <2>3. CASE Rename(c)
    <3>1. run[c] = "valid" /\ run' = [run EXCEPT ![c] = "moved"]
      BY <2>3 DEF Rename
    <3>2. \A d \in Calls : Unmarked(d) /\ d # c => want[d] # want[c]
      BY <1>0, <3>1 DEF Unmarked, Writing
    <3>3. \A d \in Calls : run'[d] \in {"valid", "unmoved", "moved"} /\ d # c => Spared(d)
      BY <2>3, <3>1, <3>2 DEF Rename, Spared, Unmarked, Writing, indexVars
    <3>4. ValidatedFile(cached[want[c]], want[c])'
      BY <2>3, <3>1 DEF Rename, HasValidated, ValidatedFile, Whole, indexVars, givenVars
    <3>5. UNCHANGED givenVars
      BY <2>3 DEF Rename
    <3>6. \A d \in Calls : d # c =>
            /\ run'[d] \in {"valid", "unmoved"} => ValidatedFile(purgatory[want[d]], want[d])'
            /\ run'[d] = "moved" => ValidatedFile(cached[want[d]], want[d])'
      BY <3>3, <3>5 DEF HasValidated, ValidatedFile, Whole, Spared, givenVars
    <3> QED
      BY <3>1, <3>4, <3>5, <3>6 DEF HasValidated, givenVars
  <2>4. CASE RenameFail(c)
    BY <2>4 DEF RenameFail, HasValidated, ValidatedFile, Whole, indexVars, diskVars,
       givenVars
  <2>5. CASE CloseSource(c) \/ FinishFill(c)
    BY <2>5, HasValidatedOfSpared DEF CloseSource, FinishFill, Spared, indexVars, diskVars
  <2> QED
    BY <1>5, <2>1, <2>2, <2>3, <2>4, <2>5 DEF Filling
<1>6. ASSUME NEW k \in Keys, Reap(k) PROVE HasValidated'
  <2>1. \A d \in Calls : Unmarked(d) => want[d] # k
    BY <1>6 DEF Reap, FillInv, UnmarkedIsFilling
  <2>2. /\ UNCHANGED <<run, givenVars>>
        /\ \A j \in Keys : j # k => /\ objs'[j] = objs[j]
                                    /\ purgatory'[j] = purgatory[j]
                                    /\ cached'[j] = cached[j]
    BY <1>6 DEF Reap
  <2> QED
    BY <2>1, <2>2, HasValidatedOfSpared DEF Spared, Unmarked, Writing
<1>7. CASE Restart
  BY <1>7, HasValidatedOfSpared DEF Restart
<1>8. CASE UNCHANGED vars
  BY <1>8, HasValidatedOfSpared DEF vars, indexVars, diskVars, givenVars, Spared
<1> QED
  BY <1>1, <1>2, <1>3, <1>4, <1>5, <1>6, <1>7, <1>8, Steps

LEMMA CachedIsWholeKept == IInv /\ [Next]_vars => CachedIsWhole'
<1> SUFFICES ASSUME IInv, [Next]_vars PROVE CachedIsWhole'
  OBVIOUS
<1> USE DEF IInv, FileInv, TypeOK, CachedIsWhole, Whole, diskVars, givenVars
<1>1. ASSUME NEW c \in Calls, Elsewhere(c) PROVE CachedIsWhole'
  BY <1>1, ElsewhereKeeps
<1>2. ASSUME NEW c \in Calls, \/ StartFill(c) \/ CreateFail(c) \/ CreateFile(c)
                              \/ Copy(c) \/ CopyEnd(c)
      PROVE  CachedIsWhole'
  BY <1>2 DEF StartFill, CreateFail, CreateFile, Copy, CopyEnd
<1>3. ASSUME NEW c \in Calls, Filling(c) PROVE CachedIsWhole'
  <2>1. CASE Rename(c)
    <3>1. Whole(purgatory[want[c]])
      BY <2>1 DEF Rename, RunTo, HasValidated, ValidatedFile
    <3> QED
      BY <2>1, <3>1 DEF Rename
  <2>2. CASE ~ Rename(c)
    BY <1>3, <2>2 DEF Filling, Validate, MarkCorrupt, RenameFail, MarkValidated,
       CloseSource, FinishFill
  <2> QED
    BY <2>1, <2>2
<1>4. ASSUME NEW k \in Keys, Reap(k) PROVE CachedIsWhole'
  BY <1>4 DEF Reap
<1>5. CASE Restart
  BY <1>5 DEF Restart
<1>6. CASE UNCHANGED vars
  BY <1>6 DEF vars
<1> QED
  BY <1>1, <1>2, <1>3, <1>4, <1>5, <1>6, Steps

LEMMA ValidatedIsWholeKept == IInv /\ [Next]_vars => ValidatedIsWhole'
<1> SUFFICES ASSUME IInv, [Next]_vars PROVE ValidatedIsWhole'
  OBVIOUS
<1> USE CacheAssumption
    DEF IInv, TypeOK, PromiseInv, ValidatedIsWhole, Valid, Whole, FileAt, givenVars
<1>1. ASSUME NEW c \in Calls, Elsewhere(c) PROVE ValidatedIsWhole'
  BY <1>1, ElsewhereKeeps DEF indexVars, diskVars
<1>2. ASSUME NEW c \in Calls, StartFill(c) PROVE ValidatedIsWhole'
  BY <1>2 DEF StartFill, diskVars
<1>3. ASSUME NEW c \in Calls, CreateFail(c) PROVE ValidatedIsWhole'
  <2>1. objs' = [objs EXCEPT ![want[c]] =
             [state |-> "corrupt", path |-> objs[want[c]].path,
              size |-> objs[want[c]].size]]
    BY <1>3, FillingSetsObject DEF FillInv, FileInv
  <2> QED
    BY <1>3, <2>1 DEF CreateFail, diskVars
<1>4. ASSUME NEW c \in Calls, CreateFile(c) \/ Copy(c) PROVE ValidatedIsWhole'
  <2>1. ~ Valid(want[c])
    BY <1>4 DEF CreateFile, Copy, FillInv, UnmarkedIsFilling, Unmarked, Writing
  <2>2. /\ UNCHANGED <<objs, cached, givenVars>>
        /\ \A k \in Keys : k # want[c] => purgatory'[k] = purgatory[k]
    BY <1>4 DEF CreateFile, Copy, indexVars
  <2> QED
    BY <2>1, <2>2
<1>5. ASSUME NEW c \in Calls, CopyEnd(c) PROVE ValidatedIsWhole'
  BY <1>5 DEF CopyEnd, indexVars, diskVars
<1>6. ASSUME NEW c \in Calls, Filling(c) PROVE ValidatedIsWhole'
  <2>1. CASE Validate(c) \/ MarkCorrupt(c)
    <3>1. ~ Valid(want[c])'
      <4>1. CASE Validate(c)
        <5>1. objs' = [objs EXCEPT ![want[c]] =
                 [state |-> objs[want[c]].state, path |-> objs[want[c]].path,
                  size |-> purgatory[want[c]].len]]
          BY <4>1, FillingSetsObject DEF FillInv, FileInv
        <5>2. objs[want[c]].state = "filling"
          BY <4>1 DEF Validate, FillInv, UnmarkedIsFilling, Unmarked, Writing
        <5>3. want' = want
          BY <4>1 DEF Validate
        <5> QED
          BY <5>1, <5>2, <5>3
      <4>2. CASE MarkCorrupt(c)
        <5>1. PICK n \in 0..Size : objs' = [objs EXCEPT ![want[c]] =
                 [state |-> "corrupt", path |-> objs[want[c]].path, size |-> n]]
          BY <4>2, FillingSetsObject DEF FillInv, FileInv
        <5>2. want' = want
          BY <4>2 DEF MarkCorrupt
        <5> QED
          BY <5>1, <5>2
      <4> QED
        BY <2>1, <4>1, <4>2
    <3>2. /\ UNCHANGED <<diskVars, givenVars>>
          /\ \A k \in Keys : k # want[c] => objs'[k] = objs[k]
      BY <2>1 DEF Validate, MarkCorrupt, SetObject
    <3> QED
      BY <3>1, <3>2 DEF diskVars
  <2>2. CASE MarkValidated(c)
    <3>1. objs' = [objs EXCEPT ![want[c]] =
             [state |-> "validated", size |-> objs[want[c]].size,
              path |-> IF run[c] = "moved" THEN "cache" ELSE objs[want[c]].path]]
      BY <2>2, FillingSetsObject DEF FillInv, FileInv
    <3>2. objs[want[c]].path = "purgatory" /\ run[c] \in {"moved", "unmoved"}
      BY <2>2 DEF MarkValidated, RunTo, FillInv, UnmarkedIsFilling, Unmarked, Writing
    <3>3. ValidatedFile(FileAt(objs'[want[c]].path, want[c]), want[c])
      BY <3>1, <3>2 DEF FileInv, HasValidated
    <3>4. objs'[want[c]].size = objs[want[c]].size
      BY <3>1
    <3>5. /\ UNCHANGED <<diskVars, givenVars>>
          /\ \A k \in Keys : k # want[c] => objs'[k] = objs[k]
      BY <2>2, <3>1 DEF MarkValidated
    <3> QED
      BY <3>3, <3>4, <3>5 DEF ValidatedFile, diskVars
  <2>3. CASE Rename(c)
    <3>1. ~ Valid(want[c])
      BY <2>3 DEF Rename, RunTo, FillInv, UnmarkedIsFilling, Unmarked, Writing
    <3>2. /\ UNCHANGED <<objs, givenVars>>
          /\ \A k \in Keys : k # want[c] =>
                purgatory'[k] = purgatory[k] /\ cached'[k] = cached[k]
      BY <2>3 DEF Rename, indexVars
    <3> QED
      BY <3>1, <3>2
  <2>4. CASE RenameFail(c) \/ CloseSource(c) \/ FinishFill(c)
    BY <2>4 DEF RenameFail, CloseSource, FinishFill, indexVars, diskVars
  <2> QED
    BY <1>6, <2>1, <2>2, <2>3, <2>4 DEF Filling
<1>7. ASSUME NEW k \in Keys, Reap(k) PROVE ValidatedIsWhole'
  <2>1. ~ Valid(k)'
    BY <1>7 DEF Reap
  <2>2. /\ UNCHANGED givenVars
        /\ \A j \in Keys : j # k => /\ objs'[j] = objs[j]
                                    /\ purgatory'[j] = purgatory[j]
                                    /\ cached'[j] = cached[j]
    BY <1>7 DEF Reap
  <2> QED
    BY <2>1, <2>2
<1>8. CASE Restart
  BY <1>8 DEF Restart
<1>9. CASE UNCHANGED vars
  BY <1>9 DEF vars, indexVars, diskVars
<1> QED
  BY <1>1, <1>2, <1>3, <1>4, <1>5, <1>6, <1>7, <1>8, <1>9, Steps

LEMMA HitInCacheIsWholeKept == IInv /\ [Next]_vars => HitInCacheIsWhole'
<1> SUFFICES ASSUME IInv, [Next]_vars PROVE HitInCacheIsWhole'
  OBVIOUS
<1> USE DEF IInv, TypeOK, PromiseInv, HitInCacheIsWhole, Whole, Goto, RunTo,
        readerVars, givenVars
<1>1. ASSUME NEW c \in Calls, OpenHit(c) PROVE HitInCacheIsWhole'
  <2>1. file'[c] = FileAt(at[c], want[c])
    BY <1>1 DEF OpenHit
  <2>2. pc'[c] = "hit" /\ at[c] = "cache" => Whole(file'[c])
    BY <1>1, <2>1 DEF OpenHit, FileAt, FileInv, CachedIsWhole
  <2>3. \A d \in Calls : d # c => pc'[d] = pc[d] /\ file'[d] = file[d]
    BY <1>1 DEF OpenHit
  <2> QED
    BY <1>1, <2>2, <2>3 DEF OpenHit
<1>2. ASSUME NEW c \in Calls, Elsewhere(c), ~ OpenHit(c) PROVE HitInCacheIsWhole'
  <2>1. CASE Begin(c) \/ NoSource(c) \/ CreateFailed(c) \/ StatTimeout(c) \/ GiveUp(c)
    BY <2>1 DEF Begin, NoSource, Miss, CreateFailed, StatTimeout, GiveUp
  <2>2. CASE Hit(c) \/ WaitFill(c) \/ WaitDone(c) \/ WaitCancelled(c)
    BY <2>2 DEF Hit, WaitFill, WaitDone, WaitCancelled
  <2>3. CASE StatFound(c) \/ Abandon(c)
    BY <2>3 DEF StatFound, Abandon
  <2>4. CASE ReadData(c) \/ ReadNothing(c) \/ ReadGone(c) \/ ReadAgain(c)
    BY <2>4 DEF ReadData, ReadNothing, ReadGone, ReadAgain, ReadChunk
  <2>5. CASE LastAttempt(c)
    <3>1. /\ pc'[c] \in {"reading", "eof"}
          /\ \A d \in Calls : d # c => pc'[d] = pc[d] /\ at'[d] = at[d]
          /\ UNCHANGED <<file, givenVars>>
      BY <2>5 DEF LastAttempt, ReadChunk
    <3> QED
      BY <3>1
  <2> QED
    BY <1>2, <2>1, <2>2, <2>3, <2>4, <2>5 DEF Elsewhere, Reading
<1>3. ASSUME NEW c \in Calls, \/ StartFill(c) \/ CreateFile(c) \/ CreateFail(c)
                              \/ Copy(c) \/ CopyEnd(c)
      PROVE  HitInCacheIsWhole'
  BY <1>3 DEF StartFill, CreateFile, CreateFail, Copy, CopyEnd
<1>4. ASSUME NEW c \in Calls, Filling(c) PROVE HitInCacheIsWhole'
  BY <1>4 DEF Filling, Validate, MarkCorrupt, Rename, RenameFail, MarkValidated,
     CloseSource, FinishFill
<1>5. ASSUME NEW k \in Keys, Reap(k) PROVE HitInCacheIsWhole'
  BY <1>5 DEF Reap
<1>6. CASE Restart
  BY <1>6 DEF Restart
<1>7. CASE UNCHANGED vars
  BY <1>7 DEF vars
<1> QED
  BY <1>1, <1>2, <1>3, <1>4, <1>5, <1>6, <1>7, Steps

----------------------------------------------------------------------------
LEMMA CacheKept == IInv /\ [Next]_vars => IInv'
BY TypeKept, NoFillYetKept, FillsAreActiveKept, UnmarkedIsFillingKept,
   FillingIsUnmarkedKept, WritesOwnFileKept, HasValidatedKept, CachedIsWholeKept,
   ValidatedIsWholeKept, HitInCacheIsWholeKept DEF IInv, FillInv, FileInv, PromiseInv

LEMMA CacheInvariant == Spec => []IInv
BY CacheInit, CacheKept, PTL DEF Spec

(* Every variable keeps its type: no file and no reader gets past the size of
   the media, and every goroutine is where the code has a statement. *)
THEOREM CacheTypeOK == Spec => []TypeOK
<1>1. IInv => TypeOK
  BY DEF IInv
<1> QED
  BY <1>1, CacheInvariant, PTL

(* A key has at most one fill, the one c.fills names, and that fill's file is
   its own until it is renamed. *)
THEOREM CacheFillOwnsItsFile == Spec => []FillOwnsItsFile
<1>1. IInv => FillOwnsItsFile
  BY DEF IInv, FillInv, FileInv, FillsAreActive, WritesOwnFile, Writing, FillOwnsItsFile
<1> QED
  BY <1>1, CacheInvariant, PTL

(* A validated object has its file, whole and as long as recorded, through
   fills, reaping and restarts. *)
THEOREM CacheValidatedIsWhole == Spec => []ValidatedIsWhole
<1>1. IInv => ValidatedIsWhole
  BY DEF IInv, PromiseInv
<1> QED
  BY <1>1, CacheInvariant, PTL

(* A hit in cache/ gets a whole file, though the path is read under the mutex
   and the file is opened after it. *)
THEOREM CacheHitInCacheIsWhole == Spec => []HitInCacheIsWhole
<1>1. IInv => HitInCacheIsWhole
  BY DEF IInv, PromiseInv
<1> QED
  BY <1>1, CacheInvariant, PTL
----------------------------------------------------------------------------
(* A step that changes the object of one key only is a step of that object. *)
LEMMA ObjectBecomes ==
  ASSUME TypeOK, NEW k \in Keys, NEW from,
         UNCHANGED restarts, objs' = [objs EXCEPT ![k] = objs'[k]],
         StateOf(objs[k]) \in from
  PROVE  Life!Become(k, from, StateOf(objs'[k]))
<1> DEFINE object == [j \in Keys |-> StateOf(objs[j])]
<1>1. \A j \in Keys : j # k => objs'[j] = objs[j]
  BY DEF TypeOK
<1>2. object' = [object EXCEPT ![k] = StateOf(objs'[k])]
  BY <1>1
<1>3. object[k] \in from
  OBVIOUS
<1> QED
  BY <1>2, <1>3 DEF Life!Become

LEMMA CacheStepIsLifeStep == IInv /\ [Next]_vars => [Life!Next]_Life!vars
<1> SUFFICES ASSUME IInv, [Next]_vars
             PROVE  Life!Next \/ UNCHANGED Life!vars
  OBVIOUS
<1> USE CacheAssumption DEF IInv, TypeOK, FillInv
<1>0. UNCHANGED <<objs, restarts>> => UNCHANGED Life!vars
  BY DEF Life!vars
<1>1. ASSUME NEW c \in Calls, Elsewhere(c) PROVE UNCHANGED <<objs, restarts>>
  <2>1. UNCHANGED objs
    BY <1>1, ElsewhereKeeps DEF indexVars
  <2>2. CASE Reading(c)
    BY <2>1, <2>2 DEF Reading, ReadData, ReadNothing, ReadGone, ReadAgain, LastAttempt
  <2>3. CASE ~ Reading(c)
    BY <1>1, <2>1, <2>3 DEF Elsewhere, Begin, Hit, OpenHit, WaitFill, WaitDone,
       WaitCancelled, NoSource, CreateFailed, StatFound, StatTimeout, GiveUp, Abandon
  <2> QED
    BY <2>2, <2>3
<1>2. ASSUME NEW c \in Calls, StartFill(c) PROVE Life!Next
  <2>1. objs[want[c]] # None => objs[want[c]].state \notin {"validated", "filling"}
    BY <1>2 DEF StartFill, Miss, Valid, FillingIsUnmarked
  <2>2. StateOf(objs[want[c]]) \in {"missing", "corrupt"}
    BY <2>1 DEF StateOf, Objects
  <2>3. StateOf(objs'[want[c]]) = "filling"
    BY <1>2 DEF StartFill, StateOf, Objects
  <2>4. objs' = [objs EXCEPT ![want[c]] = objs'[want[c]]] /\ UNCHANGED restarts
    BY <1>2 DEF StartFill
  <2>5. Life!Fill(want[c])
    BY <2>2, <2>3, <2>4, ObjectBecomes DEF Life!Fill
  <2> QED
    BY <2>5 DEF Life!Next
<1>3. ASSUME NEW c \in Calls, CreateFail(c) \/ MarkCorrupt(c) PROVE Life!Next
  <2>1. Unmarked(c)
    BY <1>3 DEF CreateFail, MarkCorrupt, RunTo, Unmarked, Writing
  <2>2. StateOf(objs[want[c]]) = "filling" /\ objs[want[c]] \in Objects
    BY <2>1 DEF UnmarkedIsFilling, StateOf
  <2>3. PICK n \in 0..Size : objs' = [objs EXCEPT ![want[c]] =
             [state |-> "corrupt", path |-> objs[want[c]].path, size |-> n]]
    <3>1. CASE CreateFail(c)
      <4>1. objs' = [objs EXCEPT ![want[c]] =
             [state |-> "corrupt", path |-> objs[want[c]].path,
              size |-> objs[want[c]].size]]
        BY <3>1, FillingSetsObject DEF FileInv
      <4>2. objs[want[c]].size \in 0..Size
        BY <2>2 DEF Objects
      <4> QED
        BY <4>1, <4>2
    <3>2. CASE MarkCorrupt(c)
      BY <3>2, FillingSetsObject DEF FileInv
    <3> QED
      BY <1>3, <3>1, <3>2
  <2>4. StateOf(objs'[want[c]]) = "corrupt"
    BY <2>2, <2>3 DEF StateOf, Objects
  <2>5. objs' = [objs EXCEPT ![want[c]] = objs'[want[c]]] /\ UNCHANGED restarts
    BY <1>3, <2>3 DEF CreateFail, MarkCorrupt
  <2>6. Life!Fail(want[c])
    BY <2>2, <2>4, <2>5, ObjectBecomes DEF Life!Fail
  <2> QED
    BY <2>6 DEF Life!Next
<1>4. ASSUME NEW c \in Calls, MarkValidated(c) PROVE Life!Next
  <2>1. Unmarked(c) /\ run[c] \in {"moved", "unmoved"}
    BY <1>4 DEF MarkValidated, RunTo, Unmarked, Writing
  <2>2. StateOf(objs[want[c]]) = "filling" /\ objs[want[c]] \in Objects
    BY <2>1 DEF UnmarkedIsFilling, StateOf
  <2>3. objs' = [objs EXCEPT ![want[c]] =
             [state |-> "validated", size |-> objs[want[c]].size,
              path |-> IF run[c] = "moved" THEN "cache" ELSE objs[want[c]].path]]
    BY <1>4, FillingSetsObject DEF FileInv
  <2>4. StateOf(objs'[want[c]]) = "validated"
    BY <2>2, <2>3 DEF StateOf, Objects
  <2>5. objs' = [objs EXCEPT ![want[c]] = objs'[want[c]]] /\ UNCHANGED restarts
    BY <1>4, <2>3 DEF MarkValidated
  <2>6. Life!Succeed(want[c])
    BY <2>2, <2>4, <2>5, ObjectBecomes DEF Life!Succeed
  <2> QED
    BY <2>6 DEF Life!Next
<1>5. ASSUME NEW c \in Calls, Validate(c)
      PROVE  UNCHANGED Life!vars
  <2>1. Unmarked(c)
    BY <1>5 DEF Validate, Unmarked, Writing
  <2>2. objs[want[c]] \in Objects /\ purgatory[want[c]] \in Files
    BY <1>5, <2>1, FillingSetsObject DEF FileInv, Validate, Writing
  <2>3. objs' = [objs EXCEPT ![want[c]] =
             [state |-> objs[want[c]].state, path |-> objs[want[c]].path,
              size |-> purgatory[want[c]].len]]
    BY <1>5, FillingSetsObject DEF FileInv
  <2>4. StateOf(objs'[want[c]]) = StateOf(objs[want[c]])
    BY <2>2, <2>3 DEF StateOf, Objects, Files
  <2> QED
    BY <1>5, <2>3, <2>4 DEF Validate, Life!vars
<1>6. ASSUME NEW k \in Keys, Reap(k) PROVE Life!Next
  <2>1. StateOf(objs[k]) \in {"validated", "corrupt"}
    BY <1>6 DEF Reap, StateOf, Objects
  <2>2. StateOf(objs'[k]) = "missing"
    BY <1>6 DEF Reap, StateOf
  <2>3. objs' = [objs EXCEPT ![k] = objs'[k]] /\ UNCHANGED restarts
    BY <1>6 DEF Reap
  <2>4. Life!Remove(k)
    BY <2>1, <2>2, <2>3, ObjectBecomes DEF Life!Remove
  <2> QED
    BY <2>4 DEF Life!Next
<1>7. CASE Restart
  <2>1. Life!Forget
    BY <1>7 DEF Restart, Life!Forget, StateOf
  <2> QED
    BY <2>1 DEF Life!Next
<1>8. ASSUME NEW c \in Calls, CreateFile(c) \/ Copy(c) \/ CopyEnd(c)
      PROVE  UNCHANGED <<objs, restarts>>
  BY <1>8 DEF CreateFile, Copy, CopyEnd, indexVars
<1>9. ASSUME NEW c \in Calls,
             Rename(c) \/ RenameFail(c) \/ CloseSource(c) \/ FinishFill(c)
      PROVE  UNCHANGED <<objs, restarts>>
  BY <1>9 DEF Rename, RenameFail, CloseSource, FinishFill, indexVars
<1>10. CASE UNCHANGED vars
  BY <1>0, <1>10 DEF vars, indexVars
<1>11. ASSUME NEW c \in Calls, Filling(c) PROVE Life!Next \/ UNCHANGED Life!vars
  BY <1>0, <1>3, <1>4, <1>5, <1>9, <1>11 DEF Filling
<1> QED
  BY <1>0, <1>1, <1>2, <1>3, <1>6, <1>7, <1>8, <1>10, <1>11, Steps

(* The cache implements CacheLife: no interleaving of fills, reaping and
   restarts takes an object through a step it does not allow. *)
THEOREM CacheImplementsCacheLife == Spec => ImplementsCacheLife
<1>1. Init => Life!Init
  BY DEF Init, Life!Init, StateOf
<1> QED
  BY <1>1, CacheInvariant, CacheStepIsLifeStep, PTL DEF Spec, ImplementsCacheLife, Life!Spec
=============================================================================
