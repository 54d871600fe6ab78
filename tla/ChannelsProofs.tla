--------------------------- MODULE ChannelsProofs ---------------------------
(* What Refresh, Catalog and Playlist state, for any number of refreshers, keys,
   channels, identifiers, plays and lines.

   Nothing in the code keeps two refreshes of a source apart, and what a refresh
   promises it promises of one that is alone: Alone is the hypothesis of the theorems
   about Refresh, over the whole behaviour.  One refresher after another, each
   failing wherever it may, is still any history of the table.  Types need no such
   hypothesis.

   DoneMeansReplaced and PlaylistNeverCollides speak of a refresh at its last step
   and at an insert.  Progress says how it gets there: at every entry, the keys
   stored and those waiting in the batch are the keys read so far, and the counter is
   right.

   UrlMeansOneChannel speaks of answers only.  What makes an answer right is that
   an identifier, once drawn, is only ever written next to one channel: in the rows,
   in the URLs that clients keep, and in what hub and cache hold.  OneRowPerId says
   so, and PlaysKnowTheirRow carries it through a play's two steps. *)
EXTENDS Refresh, Catalog, Playlist, FiniteSetTheorems, TLAPS

(************************ lists, and what is in them ************************)

LEMMA ListsAreSequences ==
  ASSUME NEW l \in Lists
  PROVE  l \in Seq(Keys) /\ Len(l) \in Nat /\ Len(l) <= MaxList /\ DOMAIN l = 1..Len(l)
<1>1. PICK n \in 0..MaxList : l \in [1..n -> Keys]
  BY DEF Lists
<1>2. n \in Nat /\ n <= MaxList
  BY RefreshAssumption
<1>3. l \in Seq(Keys) /\ Len(l) = n /\ DOMAIN l = 1..n
  BY <1>1, <1>2
<1> QED
  BY <1>2, <1>3

LEMMA RangeOfSequence ==
  ASSUME NEW s \in Seq(Keys)
  PROVE  /\ Range(s) = {s[i] : i \in 1..Len(s)}
         /\ Range(s) \subseteq Keys
         /\ s = <<>> <=> Range(s) = {}
<1>1. DOMAIN s = 1..Len(s) /\ \A i \in 1..Len(s) : s[i] \in Keys
  OBVIOUS
<1>2. Range(s) = {s[i] : i \in 1..Len(s)}
  BY <1>1 DEF Range
<1>3. s = <<>> <=> 1..Len(s) = {}
  OBVIOUS
<1> QED
  BY <1>1, <1>2, <1>3

LEMMA RangeOfAppend ==
  ASSUME NEW s \in Seq(Keys), NEW k \in Keys
  PROVE  /\ Append(s, k) \in Seq(Keys)
         /\ Len(Append(s, k)) = Len(s) + 1
         /\ Range(Append(s, k)) = Range(s) \cup {k}
<1> DEFINE t == Append(s, k)
<1>1. t \in Seq(Keys) /\ Len(t) = Len(s) + 1 /\ t[Len(s) + 1] = k
      /\ \A i \in 1..Len(s) : t[i] = s[i]
  OBVIOUS
<1>2. Range(t) = {t[i] : i \in 1..(Len(s) + 1)} /\ Range(s) = {s[i] : i \in 1..Len(s)}
  BY <1>1, RangeOfSequence
<1>3. 1..(Len(s) + 1) = 1..Len(s) \cup {Len(s) + 1}
  OBVIOUS
<1> HIDE DEF t
<1>4. Range(t) = Range(s) \cup {k}
  BY <1>1, <1>2, <1>3
<1> QED
  BY <1>1, <1>4 DEF t

(* Reading one entry more. *)
LEMMA ReadOneMore ==
  ASSUME NEW l \in Lists, NEW n \in Nat, n < Len(l)
  PROVE  {l[i] : i \in 1..(n + 1)} = {l[i] : i \in 1..n} \cup {l[n + 1]}
<1>1. 1..(n + 1) = 1..n \cup {n + 1}
  OBVIOUS
<1> QED
  BY <1>1

(* A batch holds at most as many keys as entries. *)
LEMMA KeysAtMostLength ==
  ASSUME NEW s \in Seq(Keys)
  PROVE  /\ IsFiniteSet(Range(s))
         /\ Cardinality(Range(s)) \in Nat
         /\ Cardinality(Range(s)) <= Len(s)
<1>1. IsFiniteSet(Range(s))
  BY RangeOfSequence, RefreshAssumption, FS_Subset
<1>2. s \in [1..Len(s) -> Range(s)] /\ \A k \in Range(s) : \E i \in 1..Len(s) : s[i] = k
  BY RangeOfSequence
<1>3. ExistsSurjection(1..Len(s), Range(s))
  BY <1>2 DEF ExistsSurjection, Surjection
<1>4. Cardinality(Range(s)) <= Len(s)
  BY <1>3, FS_SurjCardinalityBound
<1> QED
  BY <1>1, <1>4, FS_CardinalityType

(* The rows of an insert: one for each key. *)
RowsOf(K, l) == {[key |-> k, from |-> l] : k \in K}

LEMMA OneRowPerKey ==
  ASSUME NEW K, IsFiniteSet(K), NEW l
  PROVE  /\ IsFiniteSet(RowsOf(K, l))
         /\ Cardinality(RowsOf(K, l)) = Cardinality(K)
<1> DEFINE f == [k \in K |-> [key |-> k, from |-> l]]
<1>1. f \in [K -> RowsOf(K, l)]
  BY DEF RowsOf
<1>2. \A a, b \in K : f[a] = f[b] => a = b
  <2> TAKE a, b \in K
  <2> HAVE f[a] = f[b]
  <2>1. f[a].key = a /\ f[b].key = b
    OBVIOUS
  <2> QED
    BY <2>1
<1>3. \A e \in RowsOf(K, l) : \E k \in K : f[k] = e
  BY DEF RowsOf
<1> HIDE DEF f
<1>4. f \in Bijection(K, RowsOf(K, l))
  BY <1>1, <1>2, <1>3 DEF Bijection, Injection, Surjection, IsInjective
<1> QED
  BY <1>4, FS_Bijection DEF ExistsBijection

(* What Flush makes of the table. *)
LEMMA RowsAfterFlush ==
  ASSUME IsFiniteSet(rows), NEW K, IsFiniteSet(K), NEW l, K \cap Stored = {}
  PROVE  /\ IsFiniteSet(rows \cup RowsOf(K, l))
         /\ Cardinality(rows \cup RowsOf(K, l)) = Cardinality(rows) + Cardinality(K)
         /\ {row1.key : row1 \in rows \cup RowsOf(K, l)} = Stored \cup K
<1>1. IsFiniteSet(RowsOf(K, l)) /\ Cardinality(RowsOf(K, l)) = Cardinality(K)
  BY OneRowPerKey
<1>2. rows \cap RowsOf(K, l) = {}
  BY DEF RowsOf, Stored
<1>3. Cardinality(rows) \in Nat /\ Cardinality(K) \in Nat
  BY FS_CardinalityType
<1>4. /\ IsFiniteSet(rows \cup RowsOf(K, l))
      /\ Cardinality(rows \cup RowsOf(K, l))
           = Cardinality(rows) + Cardinality(RowsOf(K, l)) - Cardinality({})
  BY <1>1, <1>2, FS_Union
<1>5. Cardinality({}) = 0
  BY FS_EmptySet
<1>6. {row1.key : row1 \in RowsOf(K, l)} = K
  <2>1. \A k \in K : [key |-> k, from |-> l].key = k /\ [key |-> k, from |-> l] \in RowsOf(K, l)
    BY DEF RowsOf
  <2>2. \A e \in RowsOf(K, l) : e.key \in K
    BY DEF RowsOf
  <2> QED
    BY <2>1, <2>2
<1>7. {row1.key : row1 \in rows \cup RowsOf(K, l)} = Stored \cup {row1.key : row1 \in RowsOf(K, l)}
  BY DEF Stored
<1> QED
  BY <1>1, <1>3, <1>4, <1>5, <1>6, <1>7

(******************************* the types **********************************)

(* What the types rest on: a refresh counts no more than it has read, and takes
   another entry only while the batch has room. *)
Counting ==
    /\ TypeOK
    /\ batch \in [Refreshers -> Seq(Keys)]
    /\ \A r \in Refreshers : /\ total[r] <= pos[r]
                             /\ pc[r] = "parse" => Len(batch[r]) < BatchSize

LEMMA InitCounting == Init => Counting
<1> SUFFICES ASSUME Init PROVE Counting
  OBVIOUS
<1>1. <<>> \in Lists
  BY RefreshAssumption DEF Lists
<1>2. <<>> \in Seq(Keys) /\ Len(<<>>) = 0
  OBVIOUS
<1> QED
  BY <1>1, <1>2, RefreshAssumption DEF Init, Counting, TypeOK, NoOutcome

(* The actions that only move a refresher, or answer its caller. *)
LEMMA MovesKeepCounting ==
  ASSUME Counting, NEW r \in Refreshers,
         \/ Begin(r) \/ BeginFails(r) \/ DiscoverOk(r) \/ LastBatch(r)
         \/ Finish(r) \/ FetchFails(r) \/ DeleteFails(r) \/ ParseFails(r) \/ FlushFails(r)
  PROVE  Counting'
<1> USE RefreshAssumption DEF Counting
<1>1. CASE Begin(r)
  BY <1>1 DEF Begin, Goto, TypeOK, Running
<1>2. CASE BeginFails(r)
  BY <1>2 DEF BeginFails, TypeOK, Failed, locals
<1>3. CASE DiscoverOk(r)
  BY <1>3 DEF DiscoverOk, Goto, TypeOK, locals
<1>4. CASE LastBatch(r)
  BY <1>4 DEF LastBatch, Goto, TypeOK, locals
<1>5. CASE Finish(r)
  BY <1>5 DEF Finish, Goto, TypeOK, locals, Finished
<1>6. ASSUME TryNext(r) PROVE Counting'
  <2>1. CASE type = "iptv_m3u" /\ portal[r] < Portals
    <3>1. portal[r] + 1 \in 1..Portals
      BY <2>1 DEF TypeOK
    <3>2. /\ pc' = [pc EXCEPT ![r] = "fetch"]
          /\ portal' = [portal EXCEPT ![r] = portal[r] + 1]
          /\ UNCHANGED <<type, rows, list, pos, seen, batch, total, outcome>>
      BY <1>6, <2>1 DEF TryNext, Goto
    <3> QED
      BY <3>1, <3>2 DEF TypeOK
  <2>2. CASE ~ (type = "iptv_m3u" /\ portal[r] < Portals)
    <3>1. /\ pc' = [pc EXCEPT ![r] = "idle"]
          /\ outcome' = [outcome EXCEPT ![r] = Failed]
          /\ UNCHANGED <<type, rows, portal, list, pos, seen, batch, total>>
      BY <1>6, <2>2 DEF TryNext, Fail, Goto
    <3> QED
      BY <3>1 DEF TypeOK, Failed
  <2> QED
    BY <2>1, <2>2
<1>7. CASE FetchFails(r) \/ DeleteFails(r) \/ ParseFails(r) \/ FlushFails(r)
  BY <1>6, <1>7 DEF FetchFails, DeleteFails, ParseFails, FlushFails
<1> QED
  BY <1>1, <1>2, <1>3, <1>4, <1>5, <1>7

LEMMA NextCounting == Counting /\ [Next]_vars => Counting'
<1> SUFFICES ASSUME Counting, [Next]_vars PROVE Counting'
  OBVIOUS
<1> USE RefreshAssumption
<1>1. CASE UNCHANGED vars
  BY <1>1 DEF Counting, TypeOK, vars
<1>2. CASE Restart
  BY <1>2 DEF Counting, TypeOK, Restart, NoOutcome, locals
<1>3. ASSUME NEW r \in Refreshers, Begin(r) \/ BeginFails(r) \/ Step(r) PROVE Counting'
  <2>1. CASE FetchOk(r)
    BY <2>1 DEF Counting, TypeOK, FetchOk, Goto
  <2>2. CASE Delete(r)
    BY <2>2 DEF Counting, TypeOK, Delete, Goto
  <2>3. CASE Skip(r)
    <3>1. list[r] \in Lists /\ pos[r] \in 0..MaxList
      BY DEF Counting, TypeOK
    <3>2. pos[r] + 1 \in 0..MaxList
      BY <3>1, <2>3, ListsAreSequences DEF Skip, HasMore
    <3> QED
      BY <2>3, <3>2 DEF Counting, TypeOK, Skip
  <2>4. CASE Queue(r)
    <3>1. list[r] \in Lists /\ pos[r] \in 0..MaxList /\ total[r] \in 0..MaxList
          /\ batch[r] \in Seq(Keys) /\ total[r] <= pos[r]
      BY DEF Counting, TypeOK
    <3>2. pos[r] + 1 \in 0..MaxList /\ total[r] + 1 \in 0..MaxList /\ Entry(r) \in Keys
      BY <3>1, <2>4, ListsAreSequences DEF Queue, HasMore, Entry
    <3>3. /\ Append(batch[r], Entry(r)) \in Seq(Keys)
          /\ Len(Append(batch[r], Entry(r))) = Len(batch[r]) + 1
      BY <3>1, <3>2, RangeOfAppend
    <3>4. Len(batch[r]) \in Nat /\ Len(batch[r]) < BatchSize
      BY <3>1, <2>4 DEF Queue, Counting
    <3>5. /\ batch' \in [Refreshers -> Seq(Keys)]
          /\ \A q \in Refreshers : Len(batch'[q]) <= BatchSize
      BY <2>4, <3>2, <3>3, <3>4 DEF Queue, Counting, TypeOK
    <3>6. \A q \in Refreshers : /\ total'[q] <= pos'[q]
                                /\ pc'[q] = "parse" => Len(batch'[q]) < BatchSize
      BY <2>4, <3>1, <3>3, <3>4 DEF Queue, Counting, TypeOK, BatchFull, Goto
    <3>7. /\ pos' \in [Refreshers -> 0..MaxList] /\ total' \in [Refreshers -> 0..MaxList]
          /\ seen' \in [Refreshers -> SUBSET Keys]
          /\ pc' \in [Refreshers -> {"idle", "discover", "fetch", "delete", "parse", "flush"}]
      BY <2>4, <3>2 DEF Queue, Counting, TypeOK, Goto
    <3> QED
      BY <2>4, <3>5, <3>6, <3>7 DEF Queue, Counting, TypeOK
  <2>5. CASE Flush(r)
    <3>1. list[r] \in Lists /\ batch[r] \in Seq(Keys)
      BY DEF Counting, TypeOK
    <3>2. rows' \subseteq [key : Keys, from : Lists]
      BY <2>5, <3>1, RangeOfSequence DEF Flush, Counting, TypeOK
    <3> QED
      BY <2>5, <3>2 DEF Counting, TypeOK, Flush, Goto
  <2> QED
    BY <1>3, <2>1, <2>2, <2>3, <2>4, <2>5, MovesKeepCounting DEF Step
<1> QED
  BY <1>1, <1>2, <1>3 DEF Next

(* Whatever a provider's list holds, and however many refreshes overlap: no counter
   runs past the list and no batch past its size. *)
THEOREM RefreshTypeOK == Spec => []TypeOK
<1>1. Counting => TypeOK
  BY DEF Counting
<1> QED
  BY <1>1, InitCounting, NextCounting, PTL DEF Spec

(*********************** a refresh that is alone ****************************)

Alone == \A r, q \in Refreshers : pc[r] # "idle" /\ pc[q] # "idle" => r = q

(* Where a refresh stands after so many entries. *)
Progress(r) ==
    pc[r] \in {"parse", "flush"} =>
        /\ pos[r] <= Len(list[r])
        /\ seen[r] = {list[r][i] : i \in 1..pos[r]}
        /\ Stored \cup Range(batch[r]) = seen[r]
        /\ total[r] = Cardinality(rows) + Len(batch[r])
        /\ \A row1 \in rows : row1.from = list[r]
        /\ type = "iptv_m3u" => ~ Collides(r)

AloneIInv == /\ Counting
             /\ IsFiniteSet(rows)
             /\ OneListAtATime
             /\ \A r \in Refreshers : Progress(r)

LEMMA InitAlone == Init => AloneIInv
<1> SUFFICES ASSUME Init PROVE AloneIInv
  OBVIOUS
<1>1. IsFiniteSet(rows)
  BY FS_EmptySet DEF Init
<1>2. OneListAtATime /\ \A r \in Refreshers : Progress(r)
  BY DEF Init, OneListAtATime, Progress
<1> QED
  BY <1>1, <1>2, InitCounting DEF AloneIInv

(* A step that reads and stores nothing, and that brings nobody into its loop. *)
LEMMA MovesKeepProgress ==
  ASSUME AloneIInv,
         UNCHANGED <<type, rows, list, pos, seen, batch, total>>,
         \A q \in Refreshers : pc'[q] \in {"parse", "flush"} => pc[q] \in {"parse", "flush"}
  PROVE  IsFiniteSet(rows') /\ OneListAtATime' /\ \A q \in Refreshers : Progress(q)'
<1>1. IsFiniteSet(rows') /\ OneListAtATime'
  BY DEF AloneIInv, OneListAtATime
<1>2. ASSUME NEW q \in Refreshers PROVE Progress(q)'
  <2>1. Progress(q)
    BY DEF AloneIInv
  <2>2. Stored' = Stored
    BY DEF Stored
  <2>3. Collides(q)' <=> Collides(q)
    BY <2>2 DEF Collides
  <2> QED
    BY <2>1, <2>2, <2>3 DEF Progress
<1> QED
  BY <1>1, <1>2

(* What a step of r into its loop, or within it, has to show: that r is where its
   lists say.  Everybody else is idle. *)
LEMMA OthersAreIdle ==
  ASSUME AloneIInv, Alone, NEW r \in Refreshers, pc[r] # "idle",
         NEW label, pc' = [pc EXCEPT ![r] = label],
         Progress(r)'
  PROVE  \A q \in Refreshers : Progress(q)'
<1>1. ASSUME NEW q \in Refreshers, q # r PROVE pc'[q] = "idle"
  <2>1. pc[q] = "idle"
    BY <1>1 DEF Alone
  <2>2. pc \in [Refreshers -> {"idle", "discover", "fetch", "delete", "parse", "flush"}]
    BY DEF AloneIInv, Counting, TypeOK
  <2> QED
    BY <1>1, <2>1, <2>2
<1> QED
  BY <1>1 DEF Progress

LEMMA DeleteKeepsAlone ==
  ASSUME AloneIInv, Alone, NEW r \in Refreshers, Delete(r)
  PROVE  IsFiniteSet(rows') /\ OneListAtATime' /\ \A q \in Refreshers : Progress(q)'
<1>1. /\ rows' = {} /\ pos'[r] = 0 /\ seen'[r] = {} /\ batch'[r] = <<>> /\ total'[r] = 0
      /\ list' = list /\ list[r] \in Lists
  BY DEF AloneIInv, Counting, TypeOK, Delete
<1>2. Stored' = {} /\ Range(batch'[r]) = {} /\ Len(batch'[r]) = 0
  BY <1>1, RangeOfSequence DEF Stored, Range
<1>3. IsFiniteSet({}) /\ Cardinality({}) = 0
  BY FS_EmptySet
<1>4. ~ Collides(r)'
  BY <1>2, <1>3 DEF Collides
<1>5. Progress(r)'
  BY <1>1, <1>2, <1>3, <1>4, ListsAreSequences DEF Progress
<1>6. OneListAtATime'
  BY <1>1 DEF OneListAtATime
<1> QED
  BY <1>1, <1>3, <1>5, <1>6, OthersAreIdle DEF Delete, Goto

(* What the loop knows of the entry it is at. *)
LEMMA AtAnEntry ==
  ASSUME AloneIInv, NEW r \in Refreshers, pc[r] = "parse", HasMore(r)
  PROVE  /\ list[r] \in Lists /\ pos[r] \in Nat /\ pos[r] + 1 <= Len(list[r])
         /\ Entry(r) \in Keys
         /\ {list[r][i] : i \in 1..(pos[r] + 1)} = seen[r] \cup {Entry(r)}
<1>1. list[r] \in Lists /\ pos[r] \in Nat
  BY RefreshAssumption DEF AloneIInv, Counting, TypeOK
<1>2. Len(list[r]) \in Nat /\ list[r] \in Seq(Keys) /\ pos[r] < Len(list[r])
  BY <1>1, ListsAreSequences DEF HasMore
<1>3. seen[r] = {list[r][i] : i \in 1..pos[r]}
  BY DEF AloneIInv, Progress
<1>4. {list[r][i] : i \in 1..(pos[r] + 1)} = {list[r][i] : i \in 1..pos[r]} \cup {list[r][pos[r] + 1]}
  BY <1>1, <1>2, ReadOneMore
<1> QED
  BY <1>1, <1>2, <1>3, <1>4 DEF Entry

LEMMA SkipKeepsAlone ==
  ASSUME AloneIInv, Alone, NEW r \in Refreshers, Skip(r)
  PROVE  IsFiniteSet(rows') /\ OneListAtATime' /\ \A q \in Refreshers : Progress(q)'
<1>1. /\ pc[r] = "parse" /\ HasMore(r) /\ Entry(r) \in seen[r] /\ Progress(r)
      /\ UNCHANGED <<type, rows, pc, list, seen, batch, total>>
  BY DEF Skip, Duplicate, AloneIInv
<1>2. pos'[r] = pos[r] + 1
  BY DEF Skip, AloneIInv, Counting, TypeOK
<1>3. /\ pos'[r] <= Len(list[r])
      /\ {list[r][i] : i \in 1..pos'[r]} = seen[r]
  BY <1>1, <1>2, AtAnEntry
<1>4. Stored' = Stored /\ (Collides(r)' <=> Collides(r))
  BY <1>1 DEF Stored, Collides
<1>5. Progress(r)'
  BY <1>1, <1>3, <1>4 DEF Progress
<1>6. pc' = [pc EXCEPT ![r] = "parse"]
  BY <1>1 DEF AloneIInv, Counting, TypeOK
<1>7. OneListAtATime' /\ IsFiniteSet(rows')
  BY <1>1 DEF OneListAtATime, AloneIInv
<1> QED
  BY <1>1, <1>5, <1>6, <1>7, OthersAreIdle

LEMMA QueueKeepsAlone ==
  ASSUME AloneIInv, Alone, NEW r \in Refreshers, Queue(r)
  PROVE  IsFiniteSet(rows') /\ OneListAtATime' /\ \A q \in Refreshers : Progress(q)'
<1>1. /\ pc[r] = "parse" /\ HasMore(r) /\ ~ Duplicate(r) /\ Progress(r)
      /\ UNCHANGED <<type, rows, list>>
  BY DEF Queue, AloneIInv
<1>2. batch[r] \in Seq(Keys) /\ total[r] \in Nat
  BY RefreshAssumption DEF AloneIInv, Counting, TypeOK
<1>3. /\ pos'[r] = pos[r] + 1 /\ seen'[r] = seen[r] \cup {Entry(r)}
      /\ batch'[r] = Append(batch[r], Entry(r)) /\ total'[r] = total[r] + 1
  BY DEF Queue, AloneIInv, Counting, TypeOK
<1>4. /\ pos'[r] <= Len(list[r])
      /\ {list[r][i] : i \in 1..pos'[r]} = seen'[r]
      /\ Entry(r) \in Keys
  BY <1>1, <1>3, AtAnEntry
<1>5. /\ Range(batch'[r]) = Range(batch[r]) \cup {Entry(r)}
      /\ Len(batch'[r]) = Len(batch[r]) + 1
  BY <1>2, <1>3, <1>4, RangeOfAppend
<1>6. Stored' = Stored /\ Stored \cup Range(batch[r]) = seen[r]
  BY <1>1 DEF Stored, Progress
<1>7. Cardinality(rows) \in Nat
  BY FS_CardinalityType DEF AloneIInv
<1>8. total'[r] = Cardinality(rows') + Len(batch'[r])
  BY <1>1, <1>2, <1>3, <1>5, <1>7 DEF Progress
<1>9. ASSUME type = "iptv_m3u" PROVE ~ Collides(r)'
  <2>1. Entry(r) \notin Stored /\ Entry(r) \notin Range(batch[r])
    BY <1>1, <1>6, <1>9 DEF Duplicate
  <2>2. /\ Range(batch[r]) \cap Stored = {}
        /\ ~ Cardinality(Range(batch[r])) < Len(batch[r])
    BY <1>1, <1>9 DEF Progress, Collides
  <2>3. /\ IsFiniteSet(Range(batch[r])) /\ Cardinality(Range(batch[r])) \in Nat
        /\ Len(batch[r]) \in Nat
    BY <1>2, KeysAtMostLength
  <2>4. Cardinality(Range(batch'[r])) = Cardinality(Range(batch[r])) + 1
    BY <1>5, <2>1, <2>3, FS_AddElement
  <2> QED
    BY <1>5, <1>6, <2>1, <2>2, <2>3, <2>4 DEF Collides
<1>10. Progress(r)'
  BY <1>1, <1>3, <1>4, <1>5, <1>6, <1>8, <1>9 DEF Progress
<1>11. OneListAtATime' /\ IsFiniteSet(rows')
  BY <1>1 DEF OneListAtATime, AloneIInv
<1> QED
  BY <1>1, <1>10, <1>11, OthersAreIdle DEF Queue, Goto

LEMMA FlushKeepsAlone ==
  ASSUME AloneIInv, Alone, NEW r \in Refreshers, Flush(r)
  PROVE  IsFiniteSet(rows') /\ OneListAtATime' /\ \A q \in Refreshers : Progress(q)'
<1> DEFINE K == Range(batch[r])
<1>1. /\ pc[r] = "flush" /\ ~ Collides(r) /\ Progress(r)
      /\ UNCHANGED <<type, list, pos, seen, total>>
      /\ rows' = rows \cup RowsOf(K, list[r])
  BY DEF Flush, AloneIInv, RowsOf
<1>2. batch[r] \in Seq(Keys) /\ IsFiniteSet(rows) /\ batch'[r] = <<>>
  BY DEF Flush, AloneIInv, Counting, TypeOK
<1>3. /\ IsFiniteSet(K) /\ Cardinality(K) \in Nat /\ Len(batch[r]) \in Nat
      /\ Cardinality(K) <= Len(batch[r])
  BY <1>2, KeysAtMostLength
<1>4. K \cap Stored = {} /\ Cardinality(K) = Len(batch[r])
  BY <1>1, <1>3 DEF Collides
<1> HIDE DEF K
<1>5. /\ IsFiniteSet(rows')
      /\ Cardinality(rows') = Cardinality(rows) + Cardinality(K)
      /\ Stored' = Stored \cup K
  BY <1>1, <1>2, <1>3, <1>4, RowsAfterFlush DEF Stored
<1>6. Range(batch'[r]) = {} /\ Len(batch'[r]) = 0
  BY <1>2 DEF Range
<1>7. ~ Collides(r)'
  BY <1>6, FS_EmptySet DEF Collides
<1>8. \A row1 \in rows' : row1.from = list[r]
  BY <1>1 DEF Progress, RowsOf
<1>9. Cardinality(rows) \in Nat
  BY <1>2, FS_CardinalityType
<1>10. Progress(r)'
  BY <1>1, <1>4, <1>5, <1>6, <1>7, <1>8, <1>9 DEF Progress, K
<1>11. OneListAtATime'
  BY <1>8 DEF OneListAtATime
<1> QED
  BY <1>1, <1>5, <1>10, <1>11, OthersAreIdle DEF Flush, Goto

LEMMA NextAlone == AloneIInv /\ Alone /\ [Next]_vars => AloneIInv'
<1> SUFFICES ASSUME AloneIInv, Alone, [Next]_vars PROVE AloneIInv'
  OBVIOUS
<1> DEFINE Rest == IsFiniteSet(rows') /\ OneListAtATime' /\ \A q \in Refreshers : Progress(q)'
<1>0. Counting' /\ pc \in [Refreshers -> {"idle", "discover", "fetch", "delete", "parse", "flush"}]
  BY NextCounting DEF AloneIInv, Counting, TypeOK
<1>1. ASSUME UNCHANGED vars PROVE Rest
  BY <1>1, MovesKeepProgress DEF vars
<1>2. ASSUME Restart PROVE Rest
  BY <1>0, <1>2, MovesKeepProgress DEF Restart, locals
<1>3. ASSUME NEW r \in Refreshers, Begin(r) \/ BeginFails(r) \/ Step(r) PROVE Rest
  <2>1. ASSUME Begin(r) \/ BeginFails(r) \/ DiscoverOk(r) \/ LastBatch(r) \/ Finish(r)
        PROVE  Rest
    BY <1>0, <2>1, MovesKeepProgress
    DEF Begin, BeginFails, DiscoverOk, LastBatch, Finish, Goto, locals
  <2>2. ASSUME FetchFails(r) \/ DeleteFails(r) \/ ParseFails(r) \/ FlushFails(r)
        PROVE  Rest
    BY <1>0, <2>2, MovesKeepProgress
    DEF FetchFails, DeleteFails, ParseFails, FlushFails, TryNext, Fail, Goto
  <2>3. CASE FetchOk(r)
    <3>1. pc' = [pc EXCEPT ![r] = "delete"] /\ pc[r] # "idle" /\ rows' = rows
      BY <2>3 DEF FetchOk, Goto
    <3>2. Progress(r)'
      BY <1>0, <3>1 DEF Progress
    <3>3. IsFiniteSet(rows') /\ OneListAtATime'
      BY <3>1 DEF AloneIInv, OneListAtATime
    <3> QED
      BY <3>1, <3>2, <3>3, OthersAreIdle
  <2> QED
    BY <1>3, <2>1, <2>2, <2>3, DeleteKeepsAlone, SkipKeepsAlone, QueueKeepsAlone, FlushKeepsAlone
    DEF Step
<1> QED
  BY <1>0, <1>1, <1>2, <1>3 DEF Next, AloneIInv

LEMMA AlwaysAlone == Spec /\ []Alone => []AloneIInv
BY InitAlone, NextAlone, PTL DEF Spec

(* For any keys, lists, batch size and number of portals, and whatever failed before
   it: a refresh that nobody overlaps and that reports success has replaced the
   channels, and counted them. *)
THEOREM RefreshDoneMeansReplaced == Spec /\ []Alone => []DoneMeansReplaced
<1>1. AloneIInv => DoneMeansReplaced
  <2> SUFFICES ASSUME AloneIInv, NEW r \in Refreshers, Finishing(r)
               PROVE  Stored = Range(list[r]) /\ total[r] = Cardinality(rows)
    BY DEF DoneMeansReplaced
  <2>1. pc[r] = "parse" /\ ~ HasMore(r) /\ batch[r] = <<>> /\ Progress(r)
    BY DEF Finishing, AloneIInv
  <2>2. list[r] \in Lists /\ pos[r] \in Nat
    BY RefreshAssumption DEF AloneIInv, Counting, TypeOK
  <2>3. list[r] \in Seq(Keys) /\ Len(list[r]) \in Nat
    BY <2>2, ListsAreSequences
  <2>4. pos[r] = Len(list[r])
    BY <2>1, <2>2, <2>3 DEF HasMore, Progress
  <2>5. seen[r] = Range(list[r])
    BY <2>1, <2>3, <2>4, RangeOfSequence DEF Progress
  <2>6. Range(batch[r]) = {} /\ Len(batch[r]) = 0
    BY <2>1 DEF Range
  <2>7. Cardinality(rows) \in Nat
    BY FS_CardinalityType DEF AloneIInv
  <2>8. Stored \cup Range(batch[r]) = seen[r] /\ total[r] = Cardinality(rows) + Len(batch[r])
    BY <2>1 DEF Progress
  <2>9. Stored = seen[r] /\ total[r] = Cardinality(rows)
    BY <2>6, <2>7, <2>8
  <2> QED
    BY <2>5, <2>9
<1> QED
  BY <1>1, AlwaysAlone, PTL

(* The channels of a source are never a mixture of two lists, wherever the refreshes
   before this one broke off, and at every moment of this one. *)
THEOREM RefreshOneListAtATime == Spec /\ []Alone => []OneListAtATime
<1>1. AloneIInv => OneListAtATime
  BY DEF AloneIInv
<1> QED
  BY <1>1, AlwaysAlone, PTL

(* No insert of a playlist's refresh runs into the unique index, however often and
   however far apart the playlist repeats its entries. *)
THEOREM RefreshPlaylistNeverCollides == Spec /\ []Alone => []PlaylistNeverCollides
<1>1. AloneIInv => PlaylistNeverCollides
  BY DEF AloneIInv, Progress, PlaylistNeverCollides
<1> QED
  BY <1>1, AlwaysAlone, PTL

(*********************** what an identifier means ***************************)

OneRowPerId ==
    /\ catalog \cup urls \subseteq Rows
    /\ \A r \in catalog \cup urls : r.id \in drawn
    /\ \A r, q \in catalog \cup urls : r.id = q.id => r = q

HeldIsAsExported ==
    /\ held \in [Ids -> Channels \cup {None}]
    /\ \A i \in Ids : held[i] # None => [id |-> i, channel |-> held[i]] \in urls

PlaysKnowTheirRow ==
    /\ step \in [Plays -> {"idle", "lookup", "open"}]
    /\ asked \in [Plays -> Rows \cup {NoRow}]
    /\ row \in [Plays -> Rows \cup {NoRow}]
    /\ served \in [Plays -> Channels \cup {None}]
    /\ \A p \in Plays : /\ step[p] # "idle" => asked[p] \in urls
                        /\ step[p] = "open" => row[p] = asked[p]

CatalogIInv == OneRowPerId /\ HeldIsAsExported /\ PlaysKnowTheirRow /\ UrlMeansOneChannel

LEMMA CatalogInitIInv == CatalogInit => CatalogIInv
BY DEF CatalogInit, CatalogIInv, OneRowPerId, HeldIsAsExported, PlaysKnowTheirRow, UrlMeansOneChannel, NoRow

(* Only CreateChannel makes a row, with an identifier nothing has yet; an export
   copies rows. *)
LEMMA NextOneRowPerId == CatalogIInv /\ [CatalogNext]_catalogVars => OneRowPerId'
<1> SUFFICES ASSUME CatalogIInv, [CatalogNext]_catalogVars PROVE OneRowPerId'
  OBVIOUS
<1>0. OneRowPerId
  BY DEF CatalogIInv
<1>1. CASE DeleteChannels
  BY <1>0, <1>1 DEF OneRowPerId, DeleteChannels
<1>2. CASE Export
  BY <1>0, <1>2 DEF OneRowPerId, Export
<1>3. ASSUME NEW c \in Channels, CreateChannel(c) PROVE OneRowPerId'
  <2>1. PICK i \in Ids \ drawn : /\ drawn' = drawn \cup {i}
                                 /\ catalog' = catalog \cup {[id |-> i, channel |-> c]}
    BY <1>3 DEF CreateChannel
  <2>2. [id |-> i, channel |-> c] \in Rows
    BY DEF Rows
  <2>3. urls' = urls
    BY <1>3 DEF CreateChannel
  <2> QED
    BY <1>0, <2>1, <2>2, <2>3 DEF OneRowPerId
<1>4. CASE UNCHANGED <<catalog, drawn, urls>>
  BY <1>0, <1>4 DEF OneRowPerId
<1> QED
  BY <1>1, <1>2, <1>3, <1>4 DEF CatalogNext, catalogVars, Drop, Ask, GetChannel, NotFound, Join, Fetch

(* A play holds back what it fetches under its row, whose URL was exported. *)
LEMMA NextHeldIsAsExported == CatalogIInv /\ [CatalogNext]_catalogVars => HeldIsAsExported'
<1> SUFFICES ASSUME CatalogIInv, [CatalogNext]_catalogVars PROVE HeldIsAsExported'
  OBVIOUS
<1>0. OneRowPerId /\ HeldIsAsExported /\ PlaysKnowTheirRow
  BY DEF CatalogIInv
<1>1. CASE Export
  BY <1>0, <1>1 DEF HeldIsAsExported, Export
<1>2. ASSUME NEW p \in Plays, Fetch(p) PROVE HeldIsAsExported'
  <2>1. step[p] = "open" /\ row[p] \in urls
    BY <1>0, <1>2 DEF PlaysKnowTheirRow, Fetch, Go
  <2>2. row[p].id \in Ids /\ row[p].channel \in Channels
        /\ row[p] = [id |-> row[p].id, channel |-> row[p].channel]
    BY <1>0, <2>1 DEF OneRowPerId, Rows
  <2> QED
    BY <1>0, <1>2, <2>1, <2>2 DEF HeldIsAsExported, Fetch
<1>3. CASE Drop
  BY <1>0, <1>3 DEF HeldIsAsExported, Drop
<1>4. CASE UNCHANGED <<urls, held>>
  BY <1>0, <1>4 DEF HeldIsAsExported
<1> QED
  BY <1>1, <1>2, <1>3, <1>4
  DEF CatalogNext, catalogVars, DeleteChannels, CreateChannel, Ask, GetChannel, NotFound, Join, plays

(* The row a play finds under the identifier of its URL is the row of its URL,
   whatever was deleted and inserted since the export. *)
LEMMA NextPlaysKnowTheirRow == CatalogIInv /\ [CatalogNext]_catalogVars => PlaysKnowTheirRow'
<1> SUFFICES ASSUME CatalogIInv, [CatalogNext]_catalogVars PROVE PlaysKnowTheirRow'
  OBVIOUS
<1>0. OneRowPerId /\ HeldIsAsExported /\ PlaysKnowTheirRow
  BY DEF CatalogIInv
<1>1. CASE Export
  BY <1>0, <1>1 DEF PlaysKnowTheirRow, Export, plays
<1>2. ASSUME NEW p \in Plays, Ask(p) PROVE PlaysKnowTheirRow'
  BY <1>0, <1>2 DEF OneRowPerId, PlaysKnowTheirRow, Ask, Go
<1>3. ASSUME NEW p \in Plays, GetChannel(p) PROVE PlaysKnowTheirRow'
  <2>1. PICK r \in catalog : /\ r.id = asked[p].id
                          /\ Go(p, "lookup", "open")
                          /\ row' = [row EXCEPT ![p] = r]
                          /\ UNCHANGED <<catalog, drawn, urls, held, asked, served>>
    BY <1>3 DEF GetChannel
  <2>2. asked[p] \in urls
    BY <1>0, <2>1 DEF PlaysKnowTheirRow, Go
  <2>3. r = asked[p] /\ r \in Rows
    BY <1>0, <2>1, <2>2 DEF OneRowPerId
  <2> QED
    BY <1>0, <2>1, <2>2, <2>3 DEF PlaysKnowTheirRow, Go
<1>4. ASSUME NEW p \in Plays, NotFound(p) PROVE PlaysKnowTheirRow'
  BY <1>0, <1>4 DEF PlaysKnowTheirRow, NotFound, Go
<1>5. ASSUME NEW p \in Plays, Join(p) PROVE PlaysKnowTheirRow'
  <2>1. row[p].id \in Ids
    BY <1>0, <1>5 DEF OneRowPerId, PlaysKnowTheirRow, Join, Go, Rows
  <2>2. held[row[p].id] \in Channels \cup {None}
    BY <1>0, <2>1 DEF HeldIsAsExported
  <2> QED
    BY <1>0, <1>5, <2>2 DEF PlaysKnowTheirRow, Join, Go
<1>6. ASSUME NEW p \in Plays, Fetch(p) PROVE PlaysKnowTheirRow'
  <2>1. row[p].channel \in Channels
    BY <1>0, <1>6 DEF OneRowPerId, PlaysKnowTheirRow, Fetch, Go, Rows
  <2> QED
    BY <1>0, <1>6, <2>1 DEF PlaysKnowTheirRow, Fetch, Go
<1>7. CASE UNCHANGED <<urls, plays>>
  BY <1>0, <1>7 DEF PlaysKnowTheirRow, plays
<1> QED
  BY <1>1, <1>2, <1>3, <1>4, <1>5, <1>6, <1>7
  DEF CatalogNext, catalogVars, plays, DeleteChannels, CreateChannel, Drop

LEMMA NextUrlMeansOneChannel == CatalogIInv /\ [CatalogNext]_catalogVars => UrlMeansOneChannel'
<1> SUFFICES ASSUME CatalogIInv, [CatalogNext]_catalogVars PROVE UrlMeansOneChannel'
  OBVIOUS
<1>0. OneRowPerId /\ HeldIsAsExported /\ PlaysKnowTheirRow /\ UrlMeansOneChannel
  BY DEF CatalogIInv
<1>1. ASSUME NEW p \in Plays, Ask(p) PROVE UrlMeansOneChannel'
  BY <1>0, <1>1 DEF PlaysKnowTheirRow, UrlMeansOneChannel, Ask
<1>2. ASSUME NEW p \in Plays, Join(p) PROVE UrlMeansOneChannel'
  <2>1. row[p] = asked[p] /\ asked[p] \in urls
    BY <1>0, <1>2 DEF PlaysKnowTheirRow, Join, Go
  <2>2. asked[p].id \in Ids
    BY <1>0, <2>1 DEF OneRowPerId, Rows
  <2>3. [id |-> asked[p].id, channel |-> held[asked[p].id]] \in urls
    BY <1>0, <1>2, <2>1, <2>2 DEF HeldIsAsExported, Join
  <2>4. held[asked[p].id] = asked[p].channel
    BY <1>0, <2>1, <2>3 DEF OneRowPerId
  <2> QED
    BY <1>0, <1>2, <2>1, <2>4 DEF PlaysKnowTheirRow, UrlMeansOneChannel, Join
<1>3. ASSUME NEW p \in Plays, Fetch(p) PROVE UrlMeansOneChannel'
  <2>1. row[p] = asked[p]
    BY <1>0, <1>3 DEF PlaysKnowTheirRow, Fetch, Go
  <2> QED
    BY <1>0, <1>3, <2>1 DEF PlaysKnowTheirRow, UrlMeansOneChannel, Fetch
<1>4. CASE UNCHANGED <<asked, served>>
  BY <1>0, <1>4 DEF UrlMeansOneChannel
<1> QED
  BY <1>1, <1>2, <1>3, <1>4
  DEF CatalogNext, catalogVars, plays, DeleteChannels, CreateChannel, Export, Drop, GetChannel, NotFound

LEMMA CatalogNextIInv == CatalogIInv /\ [CatalogNext]_catalogVars => CatalogIInv'
BY NextOneRowPerId, NextHeldIsAsExported, NextPlaysKnowTheirRow, NextUrlMeansOneChannel
DEF CatalogIInv

(* A play URL gives the channel it was exported for or nothing, through any number
   of refreshes, plays and drops. *)
THEOREM CatalogUrlMeansOneChannel == CatalogSpec => []UrlMeansOneChannel
<1>1. CatalogIInv => UrlMeansOneChannel
  BY DEF CatalogIInv
<1> QED
  BY CatalogInitIInv, CatalogNextIInv, <1>1, PTL DEF CatalogSpec
----------------------------------------------------------------------------
(* Playlist: the lines are read in their order.  PairsInOrder is inductive with
   PendingIsLast, which says that the pending entry is that of the one #EXTINF line
   that would own the next line; CutMeansError with what a cut line leaves behind. *)
Readable == Lines \cup CutLines
AllEntries == {EntryOf(ParseExtinf(l), u.url) : l \in Readable, u \in Readable}

LastExtinf(j) == /\ text[j].is = "extinf"
                 /\ \A m \in j + 1..Len(text) : text[m].is = "other"

PlaylistTyped == text \in Seq(Readable) /\ entries \in Seq(AllEntries)

PendingIsLast ==
    IF pending = Nothing THEN \A j \in 1..Len(text) : ~ LastExtinf(j)
    ELSE \E j \in 1..Len(text) : LastExtinf(j) /\ pending = ParseExtinf(text[j])

CutIsLast == /\ broken => parsed # "ok"
             /\ \A i \in 1..Len(entries) : ~ entries[i].url.whole => i = Len(entries) /\ broken

PlaylistIInv == PlaylistTyped /\ PendingIsLast /\ PairsInOrder /\ CutIsLast

LEMMA InitPlaylist == ParseInit => PlaylistIInv
<1> SUFFICES ASSUME ParseInit PROVE PlaylistIInv
  OBVIOUS
<1>1. text = <<>> /\ Len(text) = 0 /\ DOMAIN text = {} /\ entries = <<>> /\ Len(entries) = 0
  BY DEF ParseInit
<1>2. PlaylistTyped /\ PendingIsLast
  BY <1>1 DEF ParseInit, PlaylistTyped, PendingIsLast
<1>3. OwnedUrls = {}
  BY <1>1 DEF OwnedUrls
<1>4. PairsInOrder
  BY <1>1, <1>3, FS_EmptySet DEF PairsInOrder
<1>5. CutIsLast
  BY <1>1 DEF ParseInit, CutIsLast
<1> QED
  BY <1>2, <1>4, <1>5 DEF PlaylistIInv

LEMMA OwnedUrlsFinite ==
  ASSUME PlaylistTyped
  PROVE  IsFiniteSet(OwnedUrls) /\ Cardinality(OwnedUrls) \in Nat
<1>1. DOMAIN text = 1..Len(text) /\ Len(text) \in Nat
  BY DEF PlaylistTyped
<1>2. IsFiniteSet(1..Len(text))
  BY <1>1, FS_Interval
<1> QED
  BY <1>1, <1>2, FS_Subset, FS_CardinalityType DEF OwnedUrls

(* The place of a URL is among the entries, and later lines do not move it. *)
LEMMA PlaceInEntries ==
  ASSUME PlaylistTyped, NEW i \in OwnedUrls
  PROVE  Place(i) \in 1..Cardinality(OwnedUrls)
<1> DEFINE upTo == {m \in OwnedUrls : m <= i}
<1>1. IsFiniteSet(OwnedUrls) /\ Cardinality(OwnedUrls) \in Nat
  BY OwnedUrlsFinite
<1>2. i \in DOMAIN text /\ DOMAIN text = 1..Len(text) /\ Len(text) \in Nat
  BY DEF OwnedUrls, PlaylistTyped
<1>3. upTo \subseteq OwnedUrls /\ i \in upTo
  BY <1>2
<1> HIDE DEF upTo
<1>4. IsFiniteSet(upTo) /\ Cardinality(upTo) <= Cardinality(OwnedUrls)
  BY <1>1, <1>3, FS_Subset
<1>5. Cardinality(upTo) \in Nat /\ Cardinality(upTo) # 0
  BY <1>3, <1>4, FS_CardinalityType, FS_EmptySet
<1>6. Cardinality(upTo) \in 1..Cardinality(OwnedUrls)
  BY <1>1, <1>4, <1>5
<1> QED
  BY <1>6 DEF Place, upTo

(* What reading a line leaves of those before it. *)
LEMMA ScanAppends ==
  ASSUME PlaylistTyped, NEW line \in Readable, Scan(line)
  PROVE  /\ text' = Append(text, line) /\ text' \in Seq(Readable)
         /\ Len(text) \in Nat /\ Len(text') = Len(text) + 1
         /\ DOMAIN text = 1..Len(text) /\ DOMAIN text' = 1..Len(text) + 1
         /\ text'[Len(text) + 1] = line
         /\ \A i \in 1..Len(text) : text'[i] = text[i]
<1>1. text' = Append(text, line) /\ text \in Seq(Readable)
  BY DEF Scan, PlaylistTyped
<1> QED
  BY <1>1

(* Where the next line is no URL that an #EXTINF line owns, nothing is handed over. *)
LEMMA ScanKeepsEntries ==
  ASSUME PlaylistIInv, NEW line \in Readable, Scan(line), UNCHANGED entries,
         \/ line.is # "url"
         \/ \A j \in 1..Len(text) : ~ LastExtinf(j)
  PROVE  PlaylistTyped' /\ PairsInOrder' /\ CutIsLast'
<1>0. PICK n : n = Len(text)
  OBVIOUS
<1>1. /\ n \in Nat /\ Len(text') = n + 1 /\ DOMAIN text = 1..n /\ DOMAIN text' = 1..n + 1
      /\ text'[n + 1] = line /\ text' \in Seq(Readable)
      /\ \A i \in 1..n : text'[i] = text[i]
  BY <1>0, ScanAppends DEF PlaylistIInv
<1>2. \A j \in 1..n + 1 : ~ Owns(j, n + 1)'
  BY <1>0, <1>1 DEF Owns, LastExtinf
<1>3. \A i, j \in 1..n : Owns(j, i)' <=> Owns(j, i)
  BY <1>1 DEF Owns
<1>4. \A i, j \in 1..n + 1 : Owns(j, i)' => i \in 1..n /\ j \in 1..n
  BY <1>1, <1>2 DEF Owns
<1>5. OwnedUrls' = OwnedUrls
  <2>1. OwnedUrls' = {i \in 1..n + 1 : \E j \in 1..n + 1 : Owns(j, i)'}
    BY <1>1 DEF OwnedUrls
  <2>2. OwnedUrls = {i \in 1..n : \E j \in 1..n : Owns(j, i)}
    BY <1>1 DEF OwnedUrls
  <2>3. 1..n \subseteq 1..n + 1
    BY <1>1
  <2> QED
    BY <1>3, <1>4, <2>1, <2>2, <2>3
<1>6. \A i : Place(i)' = Place(i)
  BY <1>5 DEF Place
<1>7. PairsInOrder'
  <2>1. /\ Len(entries) = Cardinality(OwnedUrls)
        /\ \A i, j \in 1..n : Owns(j, i) => entries[Place(i)] = EntryOf(ParseExtinf(text[j]), text[i].url)
    BY <1>1 DEF PlaylistIInv, PairsInOrder
  <2>2. ASSUME NEW i \in 1..n + 1, NEW j \in 1..n + 1, Owns(j, i)'
        PROVE  entries'[Place(i)'] = EntryOf(ParseExtinf(text'[j]), text'[i].url)
    <3>1. i \in 1..n /\ j \in 1..n /\ Owns(j, i)
      BY <1>3, <1>4, <2>2
    <3> QED
      BY <1>1, <1>6, <2>1, <3>1
  <2> QED
    BY <1>1, <1>5, <2>1, <2>2 DEF PairsInOrder
<1>8. PlaylistTyped'
  BY <1>1 DEF PlaylistIInv, PlaylistTyped
<1>9. CutIsLast'
  BY PlaylistAssumption DEF PlaylistIInv, CutIsLast, Scan
<1> QED
  BY <1>7, <1>8, <1>9

LEMMA UrlHandsOver ==
  ASSUME PlaylistIInv, NEW line \in Readable, Url(line)
  PROVE  PlaylistIInv'
<1>0. PICK n : n = Len(text)
  OBVIOUS
<1>1. /\ n \in Nat /\ Len(text') = n + 1 /\ DOMAIN text = 1..n /\ DOMAIN text' = 1..n + 1
      /\ text'[n + 1] = line /\ text' \in Seq(Readable)
      /\ \A i \in 1..n : text'[i] = text[i] /\ text[i] \in Readable
      /\ line.is = "url" /\ pending # Nothing /\ pending' = Nothing
      /\ entries' = Append(entries, EntryOf(pending, line.url))
  BY <1>0, ScanAppends DEF PlaylistIInv, PlaylistTyped, Url
<1>2. PICK j \in 1..n : LastExtinf(j) /\ pending = ParseExtinf(text[j])
  BY <1>0, <1>1 DEF PlaylistIInv, PendingIsLast
<1>3. ASSUME NEW l \in 1..n + 1 PROVE Owns(l, n + 1)' <=> l = j
  <2>1. /\ text[j].is = "extinf"
        /\ \A m \in j + 1..n : text[m].is = "other"
    BY <1>0, <1>2 DEF LastExtinf
  <2>2. ASSUME Owns(l, n + 1)' PROVE l = j
    <3>1. /\ l < n + 1 /\ l \in 1..n /\ text[l].is = "extinf"
          /\ \A m \in l + 1..n : text[m].is = "other"
      BY <1>1, <2>2 DEF Owns
    <3>2. ~ l < j
      <4>1. l < j => j \in l + 1..n
        BY <1>1
      <4> QED
        BY <2>1, <3>1, <4>1
    <3>3. ~ j < l
      <4>1. j < l => l \in j + 1..n
        BY <1>1, <3>1
      <4> QED
        BY <2>1, <3>1, <4>1
    <3> QED
      BY <1>1, <3>2, <3>3
  <2>3. Owns(j, n + 1)'
    BY <1>1, <2>1 DEF Owns
  <2> QED
    BY <2>2, <2>3
<1>4. \A i \in 1..n, l \in 1..n + 1 : Owns(l, i)' <=> l \in 1..n /\ Owns(l, i)
  BY <1>1 DEF Owns
<1>5. OwnedUrls' = OwnedUrls \cup {n + 1} /\ n + 1 \notin OwnedUrls
  <2>1. OwnedUrls' = {i \in 1..n + 1 : \E l \in 1..n + 1 : Owns(l, i)'}
    BY <1>1 DEF OwnedUrls
  <2>2. n + 1 \in OwnedUrls'
    BY <1>1, <1>2, <1>3, <2>1
  <2>3. OwnedUrls = {i \in 1..n : \E l \in 1..n : Owns(l, i)}
    BY <1>1 DEF OwnedUrls
  <2>4. \A i \in 1..n : i \in OwnedUrls' <=> i \in OwnedUrls
    BY <1>1, <1>4, <2>1, <2>3
  <2>5. n + 1 \notin 1..n /\ 1..n + 1 = 1..n \cup {n + 1}
    BY <1>1
  <2> QED
    BY <2>1, <2>2, <2>3, <2>4, <2>5
<1>6. IsFiniteSet(OwnedUrls) /\ Cardinality(OwnedUrls) \in Nat
  BY OwnedUrlsFinite DEF PlaylistIInv
<1>7. Cardinality(OwnedUrls') = Cardinality(OwnedUrls) + 1
  BY <1>5, <1>6, FS_AddElement
<1>8. PlaylistTyped'
  <2>1. EntryOf(pending, line.url) \in AllEntries
    BY <1>1, <1>2 DEF AllEntries
  <2> QED
    BY <1>1, <2>1 DEF PlaylistIInv, PlaylistTyped
<1>9. PendingIsLast'
  BY <1>1 DEF PendingIsLast, LastExtinf
<1>10. Len(entries) = Cardinality(OwnedUrls) /\ entries \in Seq(AllEntries)
  BY DEF PlaylistIInv, PlaylistTyped, PairsInOrder
<1>11. Len(entries') = Cardinality(OwnedUrls')
  <2>1. entries' = Append(entries, EntryOf(pending, line.url)) /\ entries \in Seq(AllEntries)
    BY <1>1, <1>10
  <2>2. Len(entries') = Len(entries) + 1
    BY <2>1
  <2> QED
    BY <1>7, <1>10, <2>2
<1>12. ASSUME NEW i \in 1..n + 1, NEW l \in 1..n + 1, Owns(l, i)'
       PROVE  entries'[Place(i)'] = EntryOf(ParseExtinf(text'[l]), text'[i].url)
  <2>1. CASE i = n + 1
    <3>1. {m \in OwnedUrls' : m <= i} = OwnedUrls'
      BY <1>1, <1>5, <2>1 DEF OwnedUrls
    <3>2. Place(i)' = Len(entries) + 1
      BY <1>7, <1>10, <3>1 DEF Place
    <3>3. entries'[Len(entries) + 1] = EntryOf(pending, line.url)
      BY <1>1, <1>10
    <3>4. l = j
      <4>1. Owns(l, n + 1)'
        BY <1>12, <2>1 DEF Owns
      <4> QED
        BY <1>3, <4>1
    <3> QED
      BY <1>1, <1>2, <2>1, <3>2, <3>3, <3>4
  <2>2. CASE i # n + 1
    <3>1. i \in 1..n /\ l \in 1..n /\ Owns(l, i) /\ i \in OwnedUrls
      BY <1>1, <1>4, <1>12, <2>2 DEF OwnedUrls
    <3>2. {m \in OwnedUrls' : m <= i} = {m \in OwnedUrls : m <= i}
      BY <1>1, <1>5, <3>1
    <3>3. Place(i)' = Place(i)
      BY <3>2 DEF Place
    <3>4. Place(i) \in 1..Len(entries)
      BY <1>10, <3>1, PlaceInEntries DEF PlaylistIInv
    <3>5. entries'[Place(i)] = entries[Place(i)]
      BY <1>1, <1>10, <3>4
    <3> QED
      BY <1>1, <3>1, <3>3, <3>5 DEF PlaylistIInv, PairsInOrder
  <2> QED
    BY <2>1, <2>2
<1>13. PairsInOrder'
  BY <1>1, <1>11, <1>12 DEF PairsInOrder
<1>14. CutIsLast'
  <2>1. ~ broken /\ parsed = Nothing /\ parsed' = parsed /\ parsed # "ok"
        /\ (line \in Lines \/ broken')
    BY PlaylistAssumption DEF Url, Scan
  <2>2. /\ Len(entries) \in Nat /\ Len(entries') = Len(entries) + 1
        /\ entries'[Len(entries) + 1] = EntryOf(pending, line.url)
        /\ \A i \in 1..Len(entries) : entries'[i] = entries[i] /\ entries[i].url.whole
    BY <1>1, <1>10, <2>1 DEF PlaylistIInv, CutIsLast
  <2>3. EntryOf(pending, line.url).url = line.url
    BY DEF EntryOf
  <2>4. line.url.whole \/ broken'
    BY <1>1, <2>1, PlaylistAssumption
  <2>5. ASSUME NEW i \in 1..Len(entries'), ~ entries'[i].url.whole
        PROVE  i = Len(entries') /\ broken'
    BY <2>2, <2>3, <2>4, <2>5
  <2> QED
    BY <2>1, <2>5 DEF CutIsLast
<1> QED
  BY <1>8, <1>9, <1>13, <1>14 DEF PlaylistIInv

LEMMA NextPlaylist == PlaylistIInv /\ [ParseNext]_playlistVars => PlaylistIInv'
<1> SUFFICES ASSUME PlaylistIInv, [ParseNext]_playlistVars PROVE PlaylistIInv'
  OBVIOUS
<1>0. PlaylistTyped
  BY DEF PlaylistIInv
<1>1. ASSUME NEW line \in Readable, SkipLine(line) PROVE PlaylistIInv'
  <2>0. line.is = "other" /\ Scan(line) /\ UNCHANGED <<pending, entries>>
    BY <1>1 DEF SkipLine
  <2>1. PlaylistTyped' /\ PairsInOrder' /\ CutIsLast'
    BY <2>0, ScanKeepsEntries
  <2>2. PICK n : n = Len(text)
    OBVIOUS
  <2>3. /\ n \in Nat /\ Len(text') = n + 1 /\ text'[n + 1] = line
        /\ \A j \in 1..n : text'[j] = text[j]
    BY <1>0, <2>0, <2>2, ScanAppends
  <2>4. \A j \in 1..n : LastExtinf(j)' <=> LastExtinf(j)
    BY <2>0, <2>2, <2>3 DEF LastExtinf
  <2>5. ~ LastExtinf(n + 1)'
    BY <2>0, <2>3 DEF LastExtinf
  <2>6. PendingIsLast'
    <3>1. 1..Len(text') = 1..n \cup {n + 1}
      BY <2>3
    <3> QED
      BY <2>0, <2>2, <2>3, <2>4, <2>5, <3>1 DEF PlaylistIInv, PendingIsLast
  <2> QED
    BY <2>1, <2>6 DEF PlaylistIInv
<1>2. ASSUME NEW line \in Readable, Extinf(line) PROVE PlaylistIInv'
  <2>0. line.is = "extinf" /\ Scan(line) /\ UNCHANGED entries /\ pending' = ParseExtinf(line)
    BY <1>2 DEF Extinf
  <2>1. PlaylistTyped' /\ PairsInOrder' /\ CutIsLast'
    BY <2>0, ScanKeepsEntries
  <2>2. pending' # Nothing
    BY <2>0, PlaylistAssumption DEF Readable
  <2>3. PICK n : n = Len(text) + 1
    OBVIOUS
  <2>4. n \in 1..Len(text') /\ Len(text') = n /\ n \in Nat /\ text'[n] = line
    BY <1>0, <2>0, <2>3, ScanAppends
  <2>5. LastExtinf(n)'
    BY <2>0, <2>4 DEF LastExtinf
  <2>6. PendingIsLast'
    BY <2>0, <2>2, <2>4, <2>5 DEF PendingIsLast
  <2> QED
    BY <2>1, <2>6 DEF PlaylistIInv
<1>3. ASSUME NEW line \in Readable, Url(line) PROVE PlaylistIInv'
  BY <1>3, UrlHandsOver
<1>4. ASSUME NEW line \in Readable, StrayUrl(line) PROVE PlaylistIInv'
  <2>0. line.is = "url" /\ Scan(line) /\ UNCHANGED <<pending, entries>> /\ pending = Nothing
    BY <1>4 DEF StrayUrl
  <2>1. \A j \in 1..Len(text) : ~ LastExtinf(j)
    BY <2>0 DEF PlaylistIInv, PendingIsLast
  <2>2. PlaylistTyped' /\ PairsInOrder' /\ CutIsLast'
    BY <2>0, <2>1, ScanKeepsEntries
  <2>3. PendingIsLast'
    BY <1>0, <2>0, ScanAppends DEF PendingIsLast, LastExtinf
  <2> QED
    BY <2>2, <2>3 DEF PlaylistIInv
<1>5. ASSUME UNCHANGED <<text, broken, pending, entries>>, parsed' # "ok" \/ ~ broken \/ UNCHANGED parsed
      PROVE  PlaylistIInv'
  <2>1. PlaylistTyped' /\ PendingIsLast'
    BY <1>5 DEF PlaylistIInv, PlaylistTyped, PendingIsLast, LastExtinf
  <2>2. PairsInOrder'
    <3>1. \A i, j : Owns(j, i)' <=> Owns(j, i)
      BY <1>5 DEF Owns
    <3>2. OwnedUrls' = OwnedUrls
      BY <1>5, <3>1 DEF OwnedUrls
    <3>3. \A i : Place(i)' = Place(i)
      BY <3>2 DEF Place
    <3> QED
      BY <1>5, <3>1, <3>2, <3>3 DEF PlaylistIInv, PairsInOrder
  <2>3. CutIsLast'
    BY <1>5 DEF PlaylistIInv, CutIsLast
  <2> QED
    BY <2>1, <2>2, <2>3 DEF PlaylistIInv
<1>6. CASE HandlerFails \/ ScanFails \/ ParseReturns \/ UNCHANGED playlistVars
  BY <1>5, <1>6 DEF HandlerFails, ScanFails, ParseReturns, playlistVars
<1> QED
  BY <1>1, <1>2, <1>3, <1>4, <1>6 DEF ParseNext, Readable

(* For every playlist, and wherever it breaks off: what has been handed over is what
   the lines read so far list, a cut line for what has arrived of it; half a URL is
   handed over last, and Parse does not return nil after it. *)
THEOREM PlaylistEntriesAreListed == ParseSpec => []EntriesAreListed
<1>1. PlaylistIInv => EntriesAreListed
  <2>1. PlaylistIInv => DOMAIN entries = 1..Len(entries)
    BY DEF PlaylistIInv, PlaylistTyped
  <2>2. PlaylistIInv => CutMeansError
    BY <2>1 DEF PlaylistIInv, CutIsLast, CutMeansError
  <2> QED
    BY <2>2 DEF PlaylistIInv, EntriesAreListed
<1> QED
  BY <1>1, InitPlaylist, NextPlaylist, PTL DEF ParseSpec
=============================================================================
