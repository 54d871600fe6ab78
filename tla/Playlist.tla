------------------------------ MODULE Playlist ------------------------------
(* Reading a playlist: Parse over a scanner whose reader may fail, what parseExtinf
   makes of a line, and ClassifyKind.

   A line is what the code tells apart in it.  An #EXTINF line has the display
   name, in the parts that commas cut it into, the tvg-name and what the group
   title hints at; a URL has a path marker (/movie/, /series/, /vod/) or not, the
   extension its path ends in, and whether the whole of it has arrived. *)
EXTENDS Naturals, FiniteSets, SequencesExt

CONSTANTS Lines,        \* whole lines of playlists
          MaxLines,     \* bound: lines in a playlist
          Nothing

MediaFiles == {".mp4", ".mkv", ".avi", ".m4v", ".mov", ".mpg", ".wmv"}  \* and .mpeg, .flv

(* What has arrived of a line when the reader fails: the scanner hands it over as the
   last line.  A start of a URL may still show its marker or an extension; a start
   of an #EXTINF line has fewer commas, or does not say #EXTINF yet. *)
Cuts(line) ==
    IF line.is = "url"
    THEN [is : {"url"}, url : [ext : {"none", line.url.ext}, marker : {FALSE, line.url.marker},
                               whole : {FALSE}]]
    ELSE {[is |-> "other"]} \cup
         {[line EXCEPT !.name = SubSeq(@, 1, n)] : n \in IF line.is = "extinf" THEN 0..Len(line.name)
                                                                               ELSE {}}
CutLines == UNION {Cuts(line) : line \in Lines}

VARIABLES text,         \* the lines that the scanner has handed over
          broken,       \* the reader has failed, and the last of them is cut
          pending,      \* the entry of the last #EXTINF, or Nothing
          entries,      \* those the handler took
          parsed        \* the result of Parse: Nothing before it returns

playlistVars == <<text, broken, pending, entries, parsed>>

ParseInit == /\ text = <<>>
             /\ broken = FALSE
             /\ pending = Nothing
             /\ entries = <<>>
             /\ parsed = Nothing

(* parseExtinf: the name is what follows the last comma, or else the tvg-name. *)
NameIn(line) == IF line.name = <<>> THEN line.tvgName ELSE <<Last(line.name)>>
ParseExtinf(line) == [name |-> NameIn(line), group |-> line.group]

ASSUME PlaylistAssumption ==
    /\ MaxLines \in Nat /\ Nothing \notin {"ok", "error"}
    /\ \A l \in Lines : l.is = "url" => l.url.whole
    /\ \A l \in Lines \cup CutLines : l.is = "extinf" => ParseExtinf(l) # Nothing

ClassifyKind(group, url) ==
    IF url.marker \/ url.ext \in MediaFiles THEN "vod"
    ELSE IF "vod" \in group /\ "24/7" \notin group THEN "vod" ELSE "live"

(*********************************** Parse **********************************)

(* sc.Scan(): a whole line, or what there is of one when the reader fails. *)
Scan(line) == /\ parsed = Nothing /\ ~ broken /\ Len(text) < MaxLines
              /\ \/ line \in Lines /\ broken' = FALSE
                 \/ line \in CutLines /\ broken' = TRUE
              /\ text' = Append(text, line)
              /\ UNCHANGED parsed

(* Mutant: any line that starts with # ends the pending entry. *)
SkipClears(line) == /\ line.is = "other" /\ Scan(line)
                    /\ pending' = Nothing
                    /\ UNCHANGED entries

(* A blank line, the header, a directive that is not #EXTINF. *)
SkipLine(line) == line.is = "other" /\ Scan(line) /\ UNCHANGED <<pending, entries>>

Extinf(line) == /\ line.is = "extinf" /\ Scan(line)
                /\ pending' = ParseExtinf(line)
                /\ UNCHANGED entries

EntryOf(e, url) == [name |-> e.name, url |-> url, kind |-> ClassifyKind(e.group, url)]

Url(line) == /\ line.is = "url" /\ Scan(line) /\ pending # Nothing
             /\ entries' = Append(entries, EntryOf(pending, line.url))
             /\ pending' = Nothing

StrayUrl(line) == /\ line.is = "url" /\ Scan(line) /\ pending = Nothing
                  /\ UNCHANGED <<pending, entries>>

(* The handler, which is a refresh, refuses the next URL (Refresh.tla): its line is
   not counted among those handed over. *)
HandlerFails == /\ parsed = Nothing /\ ~ broken /\ Len(text) < MaxLines
                /\ pending # Nothing
                /\ parsed' = "error"
                /\ UNCHANGED <<text, broken, pending, entries>>

(* sc.Err(), after the cut line; or at once, when the reader fails between two lines
   and at a line beyond the scanner's megabyte. *)
ScanFails == /\ parsed = Nothing
             /\ parsed' = "error"
             /\ UNCHANGED <<text, broken, pending, entries>>

(* Mutant: the end of the lines is taken for the end of the playlist. *)
IgnoresErr == /\ parsed = Nothing
              /\ parsed' = "ok"
              /\ UNCHANGED <<text, broken, pending, entries>>

ParseReturns == /\ parsed = Nothing /\ ~ broken
                /\ parsed' = "ok"
                /\ UNCHANGED <<text, broken, pending, entries>>

ParseNext == \/ \E line \in Lines \cup CutLines :
                    SkipLine(line) \/ Extinf(line) \/ Url(line) \/ StrayUrl(line)
             \/ HandlerFails \/ ScanFails \/ ParseReturns

ParseSpec == ParseInit /\ [][ParseNext]_playlistVars
----------------------------------------------------------------------------
(* An #EXTINF line owns the next line that is not skipped, if that is a URL. *)
Owns(j, i) == /\ text[j].is = "extinf" /\ text[i].is = "url" /\ j < i
              /\ \A m \in j + 1..i - 1 : text[m].is = "other"
OwnedUrls == {i \in DOMAIN text : \E j \in DOMAIN text : Owns(j, i)}
Place(i) == Cardinality({m \in OwnedUrls : m <= i})

(* What Parse has handed over is what the lines read so far list: each #EXTINF with
   the URL it owns, once, in their order, and nothing else.  Of a last line that is
   cut, what has arrived of it counts: an entry with half a URL is handed over. *)
PairsInOrder ==
    /\ Len(entries) = Cardinality(OwnedUrls)
    /\ \A i, j \in DOMAIN text :
           Owns(j, i) => entries[Place(i)] = EntryOf(ParseExtinf(text[j]), text[i].url)

(* Half a URL is the last that is handed over, and not in a playlist that Parse
   reports success of. *)
CutMeansError ==
    \A i \in DOMAIN entries : ~ entries[i].url.whole => i = Len(entries) /\ parsed # "ok"

(* Whichever way Parse ends, also after the handler has failed or the body has broken
   off in the middle of a line: what it has handed over are the pairs that the lines
   list, and after a success all of them are whole. *)
EntriesAreListed == PairsInOrder /\ CutMeansError
=============================================================================
