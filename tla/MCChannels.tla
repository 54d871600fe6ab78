----------------------------- MODULE MCChannels -----------------------------
(* The channels of a source, in one run of five parts, each checked on its own while
   the others stand still: refreshes, one at a time, with lists long enough for two
   batches and for entries repeated within a batch and across batches; two refreshes
   that overlap, each of which may delete what the other has stored, or store what it
   is about to insert; two asynchronous jobs that share the mutex, and a restart; all
   playlists of up to four lines, out of the lines that the code tells apart, read to
   the end or cut anywhere; and a play of exported URLs of two channels under three
   identifiers. *)
EXTENDS Refresh, Catalog, Playlist

CONSTANTS Two, TwoKeys,                 \* Refresh, of two that overlap
          Jobs, MaxRestarts             \* RefreshJob

VARIABLES
    part,
    itsType, itsRows, pcs, portals, lists, poss, seens, batches, totals, outcomes,  \* Refresh
    jobs, mu, handler, worker, poll, restarts                   \* RefreshJob

two == <<itsType, itsRows, pcs, portals, lists, poss, seens, batches, totals, outcomes>>
job == <<jobs, mu, handler, worker, poll, restarts>>

Extinfs == {[is |-> "extinf", name |-> <<"Nature">>, tvgName |-> <<"nature">>, group |-> {}],
            [is |-> "extinf", name |-> <<"Tiger", "Dragon">>, tvgName |-> <<"film">>, group |-> {"vod"}],
            [is |-> "extinf", name |-> <<>>, tvgName |-> <<"loop">>, group |-> {"vod", "24/7"}]}

UrlLine(ext, marker) == [is |-> "url",
                         url |-> [ext |-> ext, marker |-> marker, whole |-> TRUE]]

AllLines == Extinfs \cup {UrlLine("none", FALSE), UrlLine("none", TRUE),
                          UrlLine(".mp4", FALSE), [is |-> "other"]}

T == INSTANCE Refresh WITH
         Refreshers <- Two, Keys <- TwoKeys, MaxList <- 1, BatchSize <- 1,
         type <- itsType, rows <- itsRows, pc <- pcs, portal <- portals, list <- lists,
         pos <- poss, seen <- seens, batch <- batches, total <- totals, outcome <- outcomes

J == INSTANCE RefreshJob

MCInit == /\ part \in {"refresh", "overlap", "job", "playlist", "catalog"}
          /\ Init /\ T!Init /\ J!Init /\ ParseInit /\ CatalogInit
          /\ part # "refresh" => type = "iptv_m3u"
          /\ part # "overlap" => itsType = "iptv_m3u"

MCNext ==
    \/ part = "refresh" /\ Next /\ UNCHANGED <<part, two, job, playlistVars, catalogVars>>
    \/ part = "overlap" /\ T!Next /\ UNCHANGED <<part, vars, job, playlistVars, catalogVars>>
    \/ part = "job" /\ J!Next /\ UNCHANGED <<part, vars, two, playlistVars, catalogVars>>
    \/ part = "playlist" /\ ParseNext /\ UNCHANGED <<part, vars, two, job, catalogVars>>
    \/ part = "catalog" /\ CatalogNext /\ UNCHANGED <<part, vars, two, job, playlistVars>>

MCSpec == /\ MCInit /\ [][MCNext]_<<part, vars, two, job, playlistVars, catalogVars>>
          /\ J!Fairness
          /\ part = "overlap" => T!Fairness

(* Refresh: each of two refreshes ends, whatever the other does to the rows. *)
OverlappingRefreshesEnd == T!RefreshEnds

(* RefreshJob: the client of an asynchronous refresh hears of its end. *)
JobsAreHeardOf == J!JobsAreHeardOf
=============================================================================
