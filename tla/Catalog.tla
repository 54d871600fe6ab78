------------------------------ MODULE Catalog ------------------------------
(* What a channel identifier means over time.  A refresh deletes the rows of a
   source and inserts new ones, each with a new identifier (CreateChannels);
   meanwhile clients keep the play URLs of exported playlists, plays are between
   their look at the row and the upstream, and the hub and the cache hold content
   under source:identifier.

   How a refresh goes about it is in Refresh.tla: here its statements come in any
   order and number, as several refreshes, failed ones too, would give them.  How
   content is fetched and dropped is in LiveStream.tla and VodStream.tla. *)
EXTENDS Naturals, FiniteSets, FiniteSetsExt

CONSTANTS Ids,          \* bound: the identifiers that are ever drawn, in their order
          Channels,     \* what a provider's entries are: their remote keys
          Plays,
          None

Rows == [id : Ids, channel : Channels]

VARIABLES
    catalog,    \* the channels of the source in the database
    drawn,      \* identifiers that uuid.NewString has given
    urls,       \* what clients have: play URLs, and the channel each was exported for
    held,       \* identifier -> the content that hub or cache have under it, or None
    step,       \* what each play does next
    asked,      \* the URL it asks for
    row,        \* the row it has read
    served      \* the content it was answered with, or None

plays == <<step, asked, row, served>>
catalogVars == <<catalog, drawn, urls, held, step, asked, row, served>>

NoRow == [id |-> None, channel |-> None]

CatalogInit == /\ catalog = {} /\ drawn = {} /\ urls = {}
               /\ held = [i \in Ids |-> None]
               /\ step = [p \in Plays |-> "idle"]
               /\ asked = [p \in Plays |-> NoRow]
               /\ row = [p \in Plays |-> NoRow]
               /\ served = [p \in Plays |-> None]

Go(p, from, to) == step[p] = from /\ step' = [step EXCEPT ![p] = to]

(****************************** the refreshes *******************************)

DeleteChannels == /\ catalog # {} /\ catalog' = {}
                  /\ UNCHANGED <<drawn, urls, held, plays>>

Listed == {r.channel : r \in catalog}

(* Mutant: an identifier is the place of the channel in its list. *)
CreateChannelCounted(c) == /\ c \notin Listed
                           /\ \E i \in Ids : /\ i = 1 + Cardinality(catalog)
                                             /\ catalog' = catalog \cup {[id |-> i, channel |-> c]}
                           /\ UNCHANGED <<drawn, urls, held, plays>>

(* The unique index keeps a remote key from being there twice. *)
CreateChannel(c) == /\ c \notin Listed
                    /\ \E i \in Ids \ drawn :
                         /\ drawn' = drawn \cup {i}
                         /\ catalog' = catalog \cup {[id |-> i, channel |-> c]}
                    /\ UNCHANGED <<urls, held, plays>>

(******************************** the clients *******************************)

(* handlePlaylist or handleListChannels: one SELECT, whatever a refresh has got to. *)
Export == /\ ~ catalog \subseteq urls
          /\ urls' = urls \cup catalog
          /\ UNCHANGED <<catalog, drawn, held, plays>>

Ask(p) == /\ Go(p, "idle", "lookup")
          /\ \E u \in urls : asked' = [asked EXCEPT ![p] = u]
          /\ served' = [served EXCEPT ![p] = None]
          /\ UNCHANGED <<catalog, drawn, urls, held, row>>

GetChannel(p) == \E r \in catalog : /\ r.id = asked[p].id
                                    /\ Go(p, "lookup", "open")
                                    /\ row' = [row EXCEPT ![p] = r]
                                    /\ UNCHANGED <<catalog, drawn, urls, held, asked, served>>

NotFound(p) == /\ \A r \in catalog : r.id # asked[p].id
               /\ Go(p, "lookup", "idle")
               /\ UNCHANGED <<catalog, drawn, urls, held, asked, row, served>>

(* A session to join, or an object to hit or to wait for. *)
Join(p) == /\ Go(p, "open", "idle")
           /\ held[row[p].id] # None
           /\ served' = [served EXCEPT ![p] = held[row[p].id]]
           /\ UNCHANGED <<catalog, drawn, urls, held, asked, row>>

(* The upstream is asked for the URL of the row that was read. *)
Fetch(p) == /\ Go(p, "open", "idle")
            /\ held[row[p].id] = None
            /\ held' = [held EXCEPT ![row[p].id] = row[p].channel]
            /\ served' = [served EXCEPT ![p] = row[p].channel]
            /\ UNCHANGED <<catalog, drawn, urls, asked, row>>

(* Sessions end, an object is reaped, or the process restarts and takes all sessions. *)
Drop == /\ \E D \in SUBSET {i \in Ids : held[i] # None} :
             /\ D # {}
             /\ held' = [i \in Ids |-> IF i \in D THEN None ELSE held[i]]
        /\ UNCHANGED <<catalog, drawn, urls, plays>>

CatalogNext == \/ DeleteChannels \/ Export \/ Drop
               \/ \E c \in Channels : CreateChannel(c)
               \/ \E p \in Plays : Ask(p) \/ GetChannel(p) \/ NotFound(p) \/ Join(p) \/ Fetch(p)

CatalogSpec == CatalogInit /\ [][CatalogNext]_catalogVars
----------------------------------------------------------------------------
CatalogTypeOK == /\ catalog \subseteq Rows /\ urls \subseteq Rows
                 /\ {r.id : r \in catalog \cup urls} \subseteq drawn /\ drawn \subseteq Ids
                 /\ held \in [Ids -> Channels \cup {None}]
                 /\ step \in [Plays -> {"idle", "lookup", "open"}]
                 /\ \A p \in Plays : asked[p] \in urls \cup {NoRow} /\ row[p] \in Rows \cup {NoRow}
                 /\ served \in [Plays -> Channels \cup {None}]

(* A play URL gives the channel it was exported for or nothing: however many refreshes
   have replaced the rows since, one of them between the play's look at its row and
   its turn at the hub or the cache, and whatever is held there from before. *)
UrlMeansOneChannel == \A p \in Plays : served[p] \in {None, asked[p].channel}
=============================================================================
