--------------------------- MODULE LibraryProofs ---------------------------
(* What becomes of a validated object: what Reaper states, for every index, TTL and
   budget; what Promote states, for any objects of any lengths; and what EmbyLink
   states, for any number of calls and servers.

   Promotions are copied without a lock, and PromotedIsWhole is true of promotions
   that do not overlap: its theorem has one promoter, that promotes again and again.
   CopySoFar is what it has written at each moment of it. *)
EXTENDS Reaper, Promote, EmbyLink, FiniteSetTheorems, TLAPS

(******************************** the reaper ********************************)

(* Reap starts from the index it was called with. *)
ReaperIInv == /\ before \in [Keys -> Objects \cup {None}]
              /\ objs \in [Keys -> Objects \cup {None}]
              /\ pc = "ttl" => objs = before
              /\ FillsSurvive
              /\ LeastRecentlyUsedFirst

(* What is held when no state has changed since Reap was called. *)
LEMMA HeldIsUnchanged ==
  ASSUME ReaperIInv, NEW k \in Held
  PROVE  objs[k] = before[k] /\ before[k] # None /\ objs[k].age \in Int
BY ReaperAssumption DEF ReaperIInv, FillsSurvive, Held, Objects

LEMMA InitReaperIInv == Init => ReaperIInv
BY DEF Init, ReaperIInv, FillsSurvive, LeastRecentlyUsedFirst, Removed

(* Removing reapable objects that are at least as old as the reapable ones that
   stay keeps the invariant. *)
LEMMA RemovalKeepsReaperIInv ==
  ASSUME ReaperIInv, NEW gone \in SUBSET Reapable, objs' = Without(gone),
         UNCHANGED before, pc' # "ttl",
         \A k \in gone, j \in Reapable \ gone : objs[k].age >= objs[j].age
  PROVE  ReaperIInv'
<1>1. \A k \in Keys : objs'[k] = IF k \in gone THEN None ELSE objs[k]
  BY DEF Without
<1>2. objs' \in [Keys -> Objects \cup {None}]
  BY DEF Without, ReaperIInv
<1>3. gone \subseteq Held /\ Held \subseteq Keys
  BY DEF Reapable, Held
<1>4. \A k \in gone : objs[k] = before[k] /\ before[k] # None
                      /\ before[k].state # "filling"
  BY <1>3, HeldIsUnchanged DEF Reapable
<1>5. FillsSurvive'
  BY <1>1, <1>4 DEF FillsSurvive, ReaperIInv
<1>6. Reapable' = Reapable \ gone
  BY <1>1, <1>3 DEF Reapable, Held
<1>7. Removed' = Removed \cup gone
  BY <1>1, <1>3, <1>4 DEF Removed
<1>8. \A j \in Reapable' : objs'[j] = objs[j]
  BY <1>1, <1>6 DEF Reapable, Held
<1>9. LeastRecentlyUsedFirst'
  <2> SUFFICES ASSUME NEW k \in Removed', NEW j \in Reapable'
               PROVE  before[k].age >= objs[j].age
    BY <1>8 DEF LeastRecentlyUsedFirst
  <2>1. CASE k \in Removed
    BY <2>1, <1>6 DEF ReaperIInv, LeastRecentlyUsedFirst
  <2>2. CASE k \in gone
    BY <2>2, <1>4, <1>6
  <2> QED
    BY <2>1, <2>2, <1>7
<1> QED
  BY <1>2, <1>5, <1>9 DEF ReaperIInv

LEMMA NextReaperIInv == ReaperIInv /\ [Next]_vars => ReaperIInv'
<1> SUFFICES ASSUME ReaperIInv, [Next]_vars PROVE ReaperIInv'
  OBVIOUS
<1>1. CASE TTLPass
  <2> DEFINE gone == {k \in Reapable : objs[k].age > TTL}
  <2>1. \A k \in gone, j \in Reapable \ gone : objs[k].age >= objs[j].age
    <3>1. \A k \in Reapable : objs[k].age \in Int
      BY HeldIsUnchanged DEF Reapable
    <3> QED
      BY <3>1, ReaperAssumption
  <2> QED
    BY <1>1, <2>1, RemovalKeepsReaperIInv DEF TTLPass
<1>2. CASE \E k \in Keys : Evict(k)
  <2> PICK k \in Keys : Evict(k)
    BY <1>2
  <2>1. \A j \in Reapable \ {k} : objs[k].age >= objs[j].age
    <3>1. \A j \in Reapable : objs[j].age \in Int
      BY HeldIsUnchanged DEF Reapable
    <3> QED
      BY <3>1 DEF Evict, Oldest
  <2> QED
    BY <2>1, RemovalKeepsReaperIInv DEF Evict, Oldest
<1>3. CASE Return
  BY <1>3 DEF Return, ReaperIInv, FillsSurvive, LeastRecentlyUsedFirst, Removed,
             Reapable, Held
<1>4. CASE UNCHANGED vars
  BY <1>4 DEF vars, ReaperIInv, FillsSurvive, LeastRecentlyUsedFirst, Removed,
             Reapable, Held
<1> QED
  BY <1>1, <1>2, <1>3, <1>4 DEF Next

LEMMA ReaperInductive == Spec => []ReaperIInv
BY InitReaperIInv, NextReaperIInv, PTL DEF Spec

(* Reap removes no fill in progress, whatever the sizes and the ages. *)
THEOREM ReaperFillsSurvive == Spec => []FillsSurvive
<1>1. ReaperIInv => FillsSurvive
  BY DEF ReaperIInv
<1> QED
  BY ReaperInductive, <1>1, PTL

(* The TTL and the budget together never remove an object before one that has
   been used less recently. *)
THEOREM ReaperLeastRecentlyUsedFirst == Spec => []LeastRecentlyUsedFirst
<1>1. ReaperIInv => LeastRecentlyUsedFirst
  BY DEF ReaperIInv
<1> QED
  BY ReaperInductive, <1>1, PTL

(* Reap returns when what is left fits the budget or nothing is left that it may
   remove. *)
THEOREM ReaperFitsOrOnlyFills == Spec => []FitsOrOnlyFills
<1>1. Init => FitsOrOnlyFills
  BY DEF Init, FitsOrOnlyFills
<1>2. FitsOrOnlyFills /\ [Next]_vars => FitsOrOnlyFills'
  <2> SUFFICES ASSUME FitsOrOnlyFills, [Next]_vars PROVE FitsOrOnlyFills'
    OBVIOUS
  <2>1. CASE TTLPass \/ \E k \in Keys : Evict(k)
    <3>1. pc' # "done"
      BY <2>1 DEF TTLPass, Evict
    <3> QED
      BY <3>1 DEF FitsOrOnlyFills
  <2>2. CASE Return
    <3>1. objs' = objs /\ Held' = Held
      BY <2>2 DEF Return, Held
    <3>2. SizeOfAll(objs, Held)' = SizeOfAll(objs, Held)
      BY <3>1
    <3> QED
      BY <2>2, <3>1, <3>2 DEF Return, Total, Reapable, FitsOrOnlyFills
  <2>3. CASE UNCHANGED vars
    <3>1. pc' = pc /\ objs' = objs /\ Held' = Held
      BY <2>3 DEF vars, Held
    <3>2. SizeOfAll(objs, Held)' = SizeOfAll(objs, Held)
      BY <3>1
    <3> QED
      BY <3>1, <3>2 DEF FitsOrOnlyFills
  <2> QED
    BY <2>1, <2>2, <2>3 DEF Next
<1> QED
  BY <1>1, <1>2, PTL DEF Spec

(****************************** the promotions ******************************)

PromoteTyped ==
    /\ validated \subseteq Titled
    /\ dest \in Inodes \cup {NoInode}
    /\ content \in [Inodes -> Seq(Titled \cup {Zeros})]
    /\ step \in [Promoters -> {"idle", "open", "create", "copy", "close", "validate", "remove"}]
    /\ object \in [Promoters -> Titled \cup {NoInode}]
    /\ fd \in [Promoters -> Inodes \cup {NoInode}]
    /\ off \in [Promoters -> Nat]
    /\ outcome \in [Promoters -> {"none", "ok", "failed"}]

(* From the truncation to the look at the name, the file of that name is the chunks
   that have been copied, and the promoter has it open. *)
CopySoFar(p) ==
    /\ step[p] # "idle" => object[p] \in Titled /\ off[p] <= SizeOf[object[p]]
    /\ step[p] \in {"open", "create"} => off[p] = 0
    /\ step[p] \in {"copy", "close", "validate"} =>
          /\ dest # NoInode /\ fd[p] = dest
          /\ content[dest] = [i \in 1..off[p] |-> object[p]]
    /\ step[p] \in {"close", "validate"} => off[p] = SizeOf[object[p]]
    /\ step[p] = "idle" /\ outcome[p] = "ok" =>
          dest # NoInode /\ \E k \in Titled : content[dest] = Copy(k)

PromoteIInv == PromoteTyped /\ \A p \in Promoters : CopySoFar(p)

LEMMA InitPromote == PromoteInit => PromoteIInv
<1> SUFFICES ASSUME PromoteInit PROVE PromoteIInv
  OBVIOUS
<1>1. <<>> \in Seq(Titled \cup {Zeros})
  OBVIOUS
<1> QED
  BY <1>1 DEF PromoteInit, PromoteIInv, PromoteTyped, CopySoFar

(* With one promoter, whoever creates the file finds an inode that nobody uses. *)
LEMMA OneFreeInode ==
  ASSUME NEW p, Promoters = {p}, step[p] = "create"
  PROVE  NewInode \in Inodes
<1>1. Inodes = 0..1
  BY FS_Singleton DEF Inodes
<1>2. 0 # dest \/ 1 # dest
  OBVIOUS
<1>3. \A q \in Promoters : step[q] \notin {"copy", "close"}
  OBVIOUS
<1>4. \E i \in Inodes : /\ i # dest
                        /\ \A q \in Promoters : step[q] \in {"copy", "close"} => fd[q] # i
  BY <1>1, <1>2, <1>3
<1> QED
  BY <1>4 DEF NewInode

(* Writing the next chunk at the end of the file. *)
LEMMA WriteAtEnd ==
  ASSUME NEW n \in Nat, NEW k \in Titled, NEW c, c = [i \in 1..n |-> k]
  PROVE  /\ Written(c, n, k) = [i \in 1..(n + 1) |-> k]
         /\ Written(c, n, k) \in Seq(Titled \cup {Zeros})
<1>1. c \in Seq(Titled) /\ Len(c) = n /\ \A i \in 1..n : c[i] = k
  OBVIOUS
<1>2. Written(c, n, k) = [i \in 1..(n + 1) |-> IF i = n + 1 THEN k ELSE IF i <= n THEN c[i] ELSE Zeros]
  BY <1>1 DEF Written
<1>3. \A i \in 1..(n + 1) : (IF i = n + 1 THEN k ELSE IF i <= n THEN c[i] ELSE Zeros) = k
  BY <1>1
<1>4. Written(c, n, k) = [i \in 1..(n + 1) |-> k]
  BY <1>2, <1>3
<1> QED
  BY <1>4

(* Steps that write nothing and name nothing. *)
LEMMA MovesKeepCopy ==
  ASSUME NEW p, Promoters = {p}, PromoteIInv,
         \/ \E k \in Titled : Begin(p, k) \/ Refuse(p, k)
         \/ OpenSource(p) \/ OpenFails(p) \/ CopyFails(p) \/ CopyEnds(p) \/ Close(p)
  PROVE  PromoteIInv'
<1> USE PromoteAssumption DEF PromoteIInv, PromoteTyped, CopySoFar
<1>1. ASSUME NEW k \in Titled, Begin(p, k) PROVE PromoteIInv'
  BY <1>1 DEF Begin, Goto, files
<1>2. ASSUME NEW k \in Titled, Refuse(p, k) PROVE PromoteIInv'
  BY <1>2 DEF Refuse, files
<1>3. CASE OpenSource(p)
  BY <1>3 DEF OpenSource, Goto, files
<1>4. CASE OpenFails(p)
  BY <1>4 DEF OpenFails, Answer, Goto, files
<1>5. CASE CopyFails(p)
  BY <1>5 DEF CopyFails, Goto, files
<1>6. CASE CopyEnds(p)
  BY <1>6 DEF CopyEnds, Goto, files
<1>7. CASE Close(p)
  BY <1>7 DEF Close, Answer, Goto, files
<1> QED
  BY <1>1, <1>2, <1>3, <1>4, <1>5, <1>6, <1>7

LEMMA NextPromote ==
  ASSUME NEW p, Promoters = {p}
  PROVE  PromoteIInv /\ [PromoteNext]_promoteVars => PromoteIInv'
<1> SUFFICES ASSUME PromoteIInv, [PromoteNext]_promoteVars PROVE PromoteIInv'
  OBVIOUS
<1>0. p \in Promoters /\ PromoteTyped /\ CopySoFar(p)
  BY DEF PromoteIInv
<1>1. CASE Create(p)
  <2> DEFINE i == IF dest = NoInode THEN NewInode ELSE dest
  <2>1. i \in Inodes /\ step[p] = "create"
    BY <1>0, <1>1, OneFreeInode DEF PromoteTyped, Create
  <2>2. i # NoInode
    BY <2>1, PromoteAssumption
  <2> HIDE DEF i
  <2>3. /\ dest' = i /\ content' = [content EXCEPT ![i] = <<>>] /\ fd' = [fd EXCEPT ![p] = i]
        /\ step' = [step EXCEPT ![p] = "copy"] /\ UNCHANGED <<validated, object, off, outcome>>
    BY <1>1 DEF Create, Goto, i
  <2>4. content'[dest'] = <<>> /\ off'[p] = 0
    BY <1>0, <2>1, <2>3 DEF PromoteTyped, CopySoFar
  <2>5. content'[dest'] = [j \in 1..off'[p] |-> object'[p]]
    BY <2>4
  <2>6. PromoteTyped'
    BY <1>0, <2>1, <2>3 DEF PromoteTyped
  <2>7. CopySoFar(p)'
    BY <1>0, <2>1, <2>2, <2>3, <2>5 DEF PromoteTyped, CopySoFar
  <2> QED
    BY <2>6, <2>7 DEF PromoteIInv
<1>2. CASE CopyChunk(p)
  <2> DEFINE n == off[p]
  <2>1. /\ step[p] = "copy" /\ n \in Nat /\ n < SizeOf[object[p]] /\ object[p] \in Titled
        /\ fd[p] = dest /\ dest \in Inodes /\ dest # NoInode
        /\ content[dest] = [i \in 1..n |-> object[p]]
    BY <1>0, <1>2 DEF CopyChunk, PromoteTyped, CopySoFar
  <2>2. /\ content' = [content EXCEPT ![dest] = Written(content[dest], n, object[p])]
        /\ off' = [off EXCEPT ![p] = n + 1]
        /\ UNCHANGED <<validated, dest, step, object, fd, outcome>>
    BY <1>2, <2>1 DEF CopyChunk
  <2>3. /\ Written(content[dest], n, object[p]) = [i \in 1..(n + 1) |-> object[p]]
        /\ Written(content[dest], n, object[p]) \in Seq(Titled \cup {Zeros})
    BY <2>1, WriteAtEnd
  <2> HIDE DEF n
  <2>4. n + 1 <= SizeOf[object[p]]
    BY <2>1, PromoteAssumption
  <2>5. PromoteTyped'
    BY <1>0, <2>1, <2>2, <2>3 DEF PromoteTyped
  <2>6. content'[dest] = [i \in 1..(n + 1) |-> object[p]] /\ off'[p] = n + 1
    BY <1>0, <2>1, <2>2, <2>3 DEF PromoteTyped
  <2>7. CopySoFar(p)'
    BY <2>1, <2>2, <2>4, <2>6 DEF CopySoFar
  <2> QED
    BY <2>5, <2>7 DEF PromoteIInv
<1>3. CASE Validate(p)
  <2>1. /\ dest # NoInode /\ object[p] \in Titled
        /\ content[dest] = Copy(object[p])
    BY <1>0, <1>3 DEF Validate, CopySoFar, Copy
  <2>2. /\ PromoteTyped'
        /\ UNCHANGED <<dest, content, object, off>>
        /\ step'[p] \in {"idle", "remove"}
    BY <1>0, <1>3 DEF Validate, Answer, Goto, files, PromoteTyped
  <2>3. CopySoFar(p)'
    BY <1>0, <1>3, <2>1, <2>2 DEF Validate, CopySoFar, Copy
  <2> QED
    BY <2>2, <2>3 DEF PromoteIInv
<1>4. CASE Remove(p)
  BY <1>0, <1>4 DEF Remove, Answer, Goto, PromoteIInv, PromoteTyped, CopySoFar
<1>5. ASSUME NEW k \in Titled, Reap(k) \/ Fill(k) PROVE PromoteIInv'
  <2>1. validated' \subseteq Titled /\ UNCHANGED <<dest, content, step, object, fd, off, outcome>>
    BY <1>0, <1>5 DEF Reap, Fill, PromoteTyped
  <2>2. PromoteTyped'
    BY <1>0, <2>1 DEF PromoteTyped
  <2>3. CopySoFar(p)'
    BY <1>0, <2>1 DEF CopySoFar
  <2> QED
    BY <2>2, <2>3 DEF PromoteIInv
<1>6. CASE Restart
  BY <1>0, <1>6 DEF Restart, PromoteIInv, PromoteTyped, CopySoFar
<1>7. CASE UNCHANGED promoteVars
  BY <1>0, <1>7 DEF promoteVars, PromoteIInv, PromoteTyped, CopySoFar
<1> QED
  BY <1>0, <1>1, <1>2, <1>3, <1>4, <1>5, <1>6, <1>7, MovesKeepCopy DEF PromoteNext

(* A promotion that has succeeded has left the whole copy of an object and nothing
   else, whatever the lengths, wherever the disk failed or the process died before,
   and whenever objects were reaped and filled. *)
THEOREM PromotionsAreWhole ==
  ASSUME NEW p, Promoters = {p}
  PROVE  PromoteSpec => []PromotedIsWhole
<1>1. PromoteIInv => PromotedIsWhole
  BY DEF PromoteIInv, CopySoFar, PromotedIsWhole, Quiet
<1>2. PromoteIInv /\ [PromoteNext]_promoteVars => PromoteIInv'
  BY NextPromote
<1> QED
  BY <1>1, <1>2, InitPromote, PTL DEF PromoteSpec

(********************************** Emby ************************************)

(* What an answer of emby_refreshed goes back to: the file was in the library before
   the call read the settings, a server that is asked to refresh is a server, and
   what a server has scanned stays. *)
ScansLibrary ==
    /\ url \in Servers \cup {Unset} /\ key \in Servers \cup {Unset}
    /\ at \in [Calls -> {"idle", "save url", "save key", "ping", "copy",
                         "read url", "read key", "refresh"}]
    /\ pair \in [Calls -> Pairs]
    /\ answer \in [Calls -> {"none", "reachable", "unreachable", "promoted", "refreshed"}]
    /\ scanned \in [Servers -> SUBSET library]
    /\ \A c \in Calls :
          /\ at[c] \in {"read url", "read key", "refresh"} => c \in library
          /\ at[c] \in {"read key", "refresh"} => pair[c].url # Unset

EmbyIInv == ScansLibrary /\ RefreshedMeansScanned

LEMMA InitEmby == EmbyInit => EmbyIInv
BY DEF EmbyInit, EmbyIInv, ScansLibrary, RefreshedMeansScanned, Pairs, Nothing

LEMMA NextEmby == EmbyIInv /\ [EmbyNext]_embyVars => EmbyIInv'
<1> SUFFICES ASSUME EmbyIInv, [EmbyNext]_embyVars PROVE EmbyIInv'
  OBVIOUS
<1>0. ScansLibrary /\ RefreshedMeansScanned
  BY DEF EmbyIInv
<1>1. ASSUME NEW c \in Calls, Config(c) PROVE EmbyIInv'
  <2>1. PICK s \in Servers, k \in Servers : pair' = [pair EXCEPT ![c] = [url |-> s, key |-> k]]
    BY <1>1 DEF Config
  <2>2. [url |-> s, key |-> k] \in Pairs
    BY DEF Pairs
  <2>3. /\ at' = [at EXCEPT ![c] = "save url"] /\ answer' = [answer EXCEPT ![c] = "none"]
        /\ UNCHANGED <<url, key, library, scanned>>
    BY <1>1 DEF Config, Go, Say, settings, emby
  <2>4. ScansLibrary'
    BY <1>0, <2>1, <2>2, <2>3 DEF ScansLibrary
  <2>5. RefreshedMeansScanned'
    BY <1>0, <2>3 DEF ScansLibrary, RefreshedMeansScanned
  <2> QED
    BY <2>4, <2>5 DEF EmbyIInv
<1>2. ASSUME NEW c \in Calls, SaveUrl(c) \/ SaveKey(c) \/ SaveFails(c) PROVE EmbyIInv'
  BY <1>0, <1>2 DEF SaveUrl, SaveKey, SaveFails, Go, settings, emby,
                    EmbyIInv, ScansLibrary, RefreshedMeansScanned, Pairs
<1>3. ASSUME NEW c \in Calls, Ping(c) PROVE EmbyIInv'
  BY <1>0, <1>3 DEF Ping, Go, Say, settings, emby, EmbyIInv, ScansLibrary, RefreshedMeansScanned
<1>4. ASSUME NEW c \in Calls, BeginPromote(c) PROVE EmbyIInv'
  BY <1>0, <1>4 DEF BeginPromote, Go, Say, settings, emby, EmbyIInv, ScansLibrary, RefreshedMeansScanned
<1>5. ASSUME NEW c \in Calls, CopyFileFails(c) PROVE EmbyIInv'
  BY <1>0, <1>5 DEF CopyFileFails, Go, settings, emby, EmbyIInv, ScansLibrary, RefreshedMeansScanned
<1>6. ASSUME NEW c \in Calls, CopyFile(c) PROVE EmbyIInv'
  BY <1>0, <1>6 DEF CopyFile, Go, settings, EmbyIInv, ScansLibrary, RefreshedMeansScanned
<1>7. ASSUME NEW c \in Calls, ReadUrl(c) PROVE EmbyIInv'
  BY <1>0, <1>7 DEF ReadUrl, Promoted, Go, Say, settings, emby,
                    EmbyIInv, ScansLibrary, RefreshedMeansScanned, Pairs
<1>8. ASSUME NEW c \in Calls, ReadKey(c) PROVE EmbyIInv'
  BY <1>0, <1>8 DEF ReadKey, Promoted, Go, Say, settings, emby,
                    EmbyIInv, ScansLibrary, RefreshedMeansScanned, Pairs
<1>9. ASSUME NEW c \in Calls, Refresh(c) PROVE EmbyIInv'
  <2> DEFINE s == pair[c].url
  <2>1. s \in Servers /\ c \in library
    BY <1>0, <1>9 DEF Refresh, Go, ScansLibrary, Pairs
  <2> HIDE DEF s
  <2>2. /\ scanned' = [scanned EXCEPT ![s] = library]
        /\ at' = [at EXCEPT ![c] = "idle"] /\ answer' = [answer EXCEPT ![c] = "refreshed"]
        /\ UNCHANGED <<url, key, pair, library>>
    BY <1>9 DEF Refresh, Go, Say, settings, s
  <2>3. ScansLibrary'
    BY <1>0, <2>1, <2>2 DEF ScansLibrary
  <2>4. \A t \in Servers : scanned[t] \subseteq scanned'[t]
    BY <1>0, <2>1, <2>2 DEF ScansLibrary
  <2>5. c \in scanned'[s]
    BY <1>0, <2>1, <2>2 DEF ScansLibrary
  <2>6. RefreshedMeansScanned'
    BY <1>0, <2>1, <2>2, <2>4, <2>5 DEF ScansLibrary, RefreshedMeansScanned
  <2> QED
    BY <2>3, <2>6 DEF EmbyIInv
<1>10. ASSUME NEW c \in Calls, RefreshFails(c) PROVE EmbyIInv'
  BY <1>0, <1>10 DEF RefreshFails, Promoted, Go, Say, settings, emby,
                     EmbyIInv, ScansLibrary, RefreshedMeansScanned
<1>11. CASE UNCHANGED embyVars
  BY <1>0, <1>11 DEF embyVars, EmbyIInv, ScansLibrary, RefreshedMeansScanned
<1> QED
  BY <1>1, <1>2, <1>3, <1>4, <1>5, <1>6, <1>7, <1>8, <1>9, <1>10, <1>11 DEF EmbyNext, Step

(* An answer of emby_refreshed is true, for any calls and servers and whatever
   configurations come between the two reads of the settings. *)
THEOREM EmbyRefreshedMeansScanned == EmbySpec => []RefreshedMeansScanned
<1>1. EmbyIInv => RefreshedMeansScanned
  BY DEF EmbyIInv
<1> QED
  BY <1>1, InitEmby, NextEmby, PTL DEF EmbySpec
=============================================================================
