------------------------------ MODULE Refresh ------------------------------
(* Refreshing the channels of one source: RefreshSource and RefreshHDHR, the
   SQL they run, and the synchronous and asynchronous handlers that call them.
   A refresher is one such call; its outcome is what the handler answers or what
   the job shows.  Nothing keeps two of them apart.

   Each SQL statement is atomic, and so is each insert of a batch; a refresh is
   not.  An entry is its remote key, and a row remembers, for the properties,
   the list it came from.  The connection limit that an HDHomeRun refresh
   stores with its source matters only to the slot pools: LiveStream.tla. *)
EXTENDS Integers, Sequences, FiniteSets, Functions

CONSTANTS Refreshers,
          Keys,         \* remote keys
          Portals,      \* how many portal URLs the source has
          BatchSize,    \* rows in one insert
          MaxList       \* bound: entries in a list

ASSUME RefreshAssumption == /\ IsFiniteSet(Refreshers) /\ IsFiniteSet(Keys)
                            /\ Portals \in Nat \ {0} /\ BatchSize \in Nat \ {0}
                            /\ MaxList \in Nat

Lists == UNION {[1..n -> Keys] : n \in 0..MaxList}

VARIABLES
    type,       \* the source's: iptv_m3u or hdhomerun
    rows,       \* its channels in the database
    pc,         \* where each refresher is
    portal,     \* which portal it tries
    list,       \* the entries of the body it reads
    pos,        \* how many it has read
    seen,       \* the remote keys it has queued
    batch,      \* those not inserted yet
    total,      \* how many it has counted
    outcome     \* what its caller is told

locals == <<portal, list, pos, seen, batch, total>>
vars == <<type, rows, pc, portal, list, pos, seen, batch, total, outcome>>

Running == [state |-> "running", total |-> 0]
Failed == [state |-> "error", total |-> 0]
Finished(n) == [state |-> "done", total |-> n]
NoOutcome == [state |-> "none", total |-> 0]

Stored == {row.key : row \in rows}

Init == /\ type \in {"iptv_m3u", "hdhomerun"}
        /\ rows = {}
        /\ pc = [r \in Refreshers |-> "idle"]
        /\ portal = [r \in Refreshers |-> 1]
        /\ list = [r \in Refreshers |-> <<>>]
        /\ pos = [r \in Refreshers |-> 0]
        /\ seen = [r \in Refreshers |-> {}]
        /\ batch = [r \in Refreshers |-> <<>>]
        /\ total = [r \in Refreshers |-> 0]
        /\ outcome = [r \in Refreshers |-> NoOutcome]

Goto(r, label) == pc' = [pc EXCEPT ![r] = label]

Begin(r) == /\ pc[r] = "idle"
            /\ Goto(r, IF type = "hdhomerun" THEN "discover" ELSE "fetch")
            /\ portal' = [portal EXCEPT ![r] = 1]
            /\ outcome' = [outcome EXCEPT ![r] = Running]
            /\ UNCHANGED <<type, rows, list, pos, seen, batch, total>>

(* The source cannot be read, or its configuration makes no sense. *)
BeginFails(r) == /\ pc[r] = "idle"
                 /\ outcome' = [outcome EXCEPT ![r] = Failed]
                 /\ UNCHANGED <<type, rows, pc, locals>>

Fail(r) == /\ Goto(r, "idle")
           /\ outcome' = [outcome EXCEPT ![r] = Failed]
           /\ UNCHANGED <<type, rows, portal, list, pos, seen, batch, total>>

(* Mutant: a portal that failed is tried again. *)
TryAgain(r) == IF type = "iptv_m3u"
               THEN /\ Goto(r, "fetch")
                    /\ UNCHANGED <<type, rows, locals, outcome>>
               ELSE Fail(r)

(* What an error of refreshFromURL leads to: the next portal, if there is one.
   An HDHomeRun source has one device. *)
TryNext(r) == IF type = "iptv_m3u" /\ portal[r] < Portals
              THEN /\ Goto(r, "fetch")
                   /\ portal' = [portal EXCEPT ![r] = @ + 1]
                   /\ UNCHANGED <<type, rows, list, pos, seen, batch, total, outcome>>
              ELSE Fail(r)

DiscoverOk(r) == /\ pc[r] = "discover"
                 /\ Goto(r, "fetch")
                 /\ UNCHANGED <<type, rows, locals, outcome>>

(* A request that fails or times out, a status that is not a success, and for
   a device an answer that does not decode. *)
FetchFails(r) == pc[r] \in {"discover", "fetch"} /\ TryNext(r)

FetchOk(r) == /\ pc[r] = "fetch"
              /\ \E entries \in Lists : list' = [list EXCEPT ![r] = entries]
              /\ Goto(r, "delete")
              /\ UNCHANGED <<type, rows, portal, pos, seen, batch, total, outcome>>

(* Mutant: the old channels are left for the new ones to replace. *)
DeleteNothing(r) == /\ pc[r] = "delete"
                    /\ Goto(r, "parse")
                    /\ pos' = [pos EXCEPT ![r] = 0]
                    /\ seen' = [seen EXCEPT ![r] = {}]
                    /\ batch' = [batch EXCEPT ![r] = <<>>]
                    /\ total' = [total EXCEPT ![r] = 0]
                    /\ UNCHANGED <<type, rows, portal, list, outcome>>

Delete(r) == /\ pc[r] = "delete"
             /\ rows' = {}
             /\ Goto(r, "parse")
             /\ pos' = [pos EXCEPT ![r] = 0]
             /\ seen' = [seen EXCEPT ![r] = {}]
             /\ batch' = [batch EXCEPT ![r] = <<>>]
             /\ total' = [total EXCEPT ![r] = 0]
             /\ UNCHANGED <<type, portal, list, outcome>>

DeleteFails(r) == pc[r] = "delete" /\ TryNext(r)

HasMore(r) == pos[r] < Len(list[r])
Entry(r) == list[r][pos[r] + 1]

(* Mutant: only the entries of this batch are remembered. *)
DuplicateInBatch(r) == type = "iptv_m3u" /\ Entry(r) \in Range(batch[r])

(* A playlist's repeated entries are dropped; a device's are not looked for. *)
Duplicate(r) == type = "iptv_m3u" /\ Entry(r) \in seen[r]

Skip(r) == /\ pc[r] = "parse" /\ HasMore(r)
           /\ Duplicate(r)
           /\ pos' = [pos EXCEPT ![r] = @ + 1]
           /\ UNCHANGED <<type, rows, pc, portal, list, seen, batch, total, outcome>>

(* Whether the entry that is queued fills the batch. *)
BatchFull(r) == Len(batch[r]) + 1 >= BatchSize

Queue(r) == /\ pc[r] = "parse" /\ HasMore(r)
            /\ ~ Duplicate(r)
            /\ pos' = [pos EXCEPT ![r] = @ + 1]
            /\ seen' = [seen EXCEPT ![r] = @ \cup {Entry(r)}]
            /\ batch' = [batch EXCEPT ![r] = Append(@, Entry(r))]
            /\ total' = [total EXCEPT ![r] = @ + 1]
            /\ Goto(r, IF BatchFull(r) THEN "flush" ELSE "parse")
            /\ UNCHANGED <<type, rows, portal, list, outcome>>

(* The list is read and the last batch is not empty. *)
LastBatch(r) == /\ pc[r] = "parse" /\ ~ HasMore(r)
                /\ batch[r] # <<>>
                /\ Goto(r, "flush")
                /\ UNCHANGED <<type, rows, locals, outcome>>

(* The playlist is read from the network while its channels are stored; a
   lineup is there as a whole. *)
ParseFails(r) == pc[r] = "parse" /\ type = "iptv_m3u" /\ TryNext(r)

(* The unique index on source and remote key. *)
Collides(r) == \/ Range(batch[r]) \cap Stored # {}
               \/ Cardinality(Range(batch[r])) < Len(batch[r])

Flush(r) == /\ pc[r] = "flush"
            /\ ~ Collides(r)
            /\ rows' = rows \cup {[key |-> k, from |-> list[r]] : k \in Range(batch[r])}
            /\ batch' = [batch EXCEPT ![r] = <<>>]
            /\ Goto(r, "parse")
            /\ UNCHANGED <<type, portal, list, pos, seen, total, outcome>>

(* A collision, or a database that is busy for too long or fails. *)
FlushFails(r) == pc[r] = "flush" /\ TryNext(r)

Finishing(r) == pc[r] = "parse" /\ ~ HasMore(r) /\ batch[r] = <<>>

Finish(r) == /\ Finishing(r)
             /\ Goto(r, "idle")
             /\ outcome' = [outcome EXCEPT ![r] = Finished(total[r])]
             /\ UNCHANGED <<type, rows, locals>>

(* The process dies: the jobs are gone, the rows that were inserted stay. *)
Restart == /\ pc' = [r \in Refreshers |-> "idle"]
           /\ outcome' = [r \in Refreshers |-> NoOutcome]
           /\ UNCHANGED <<type, rows, locals>>

Step(r) == \/ DiscoverOk(r) \/ FetchFails(r) \/ FetchOk(r)
           \/ Delete(r) \/ DeleteFails(r)
           \/ Skip(r) \/ Queue(r) \/ LastBatch(r) \/ ParseFails(r)
           \/ Flush(r) \/ FlushFails(r) \/ Finish(r)

Next == \/ \E r \in Refreshers : Begin(r) \/ BeginFails(r) \/ Step(r)
        \/ Restart

Spec == Init /\ [][Next]_vars

(* The HTTP client has a timeout and the database a busy timeout: a refresh that
   has begun keeps going. *)
Fairness == \A r \in Refreshers : WF_vars(Step(r))
----------------------------------------------------------------------------
TypeOK ==
    /\ type \in {"iptv_m3u", "hdhomerun"}
    /\ rows \subseteq [key : Keys, from : Lists]
    /\ pc \in [Refreshers -> {"idle", "discover", "fetch", "delete", "parse", "flush"}]
    /\ portal \in [Refreshers -> 1..Portals]
    /\ list \in [Refreshers -> Lists]
    /\ pos \in [Refreshers -> 0..MaxList]
    /\ seen \in [Refreshers -> SUBSET Keys]
    /\ \A r \in Refreshers : batch[r] \in Seq(Keys) /\ Len(batch[r]) <= BatchSize
    /\ total \in [Refreshers -> 0..MaxList]
    /\ outcome \in [Refreshers -> [state : {"none", "running", "done", "error"},
                                   total : 0..MaxList]]

(* A refresh that is about to report success has replaced the channels: those
   of its list are stored, and no other, and the total it reports counts them.
   Holds of refreshes that do not overlap, whatever failed before them. *)
DoneMeansReplaced ==
    \A r \in Refreshers : Finishing(r) => /\ Stored = Range(list[r])
                                          /\ total[r] = Cardinality(rows)

(* The channels of a source are never a mixture of two lists, not while it is
   refreshed, nor after a portal, the database or the process failed half-way. *)
OneListAtATime == \A row1, row2 \in rows : row1.from = row2.from

(* No insert of a playlist's refresh runs into the unique index: a failure half-
   way cannot come from the playlist itself. *)
PlaylistNeverCollides ==
    \A r \in Refreshers : type = "iptv_m3u" /\ pc[r] = "flush" => ~ Collides(r)

(* Every refresh that begins is answered, or dies with the process, also when another
   one deletes its rows or stores its keys first, portal after portal. *)
RefreshEnds == \A r \in Refreshers : pc[r] # "idle" ~> pc[r] = "idle"
=============================================================================
