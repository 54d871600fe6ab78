-------------------------- MODULE MCSourceStreams --------------------------
(* One live channel and one VOD file of a source.  If the source has one slot, two
   clients and two plays come; if it has two, one client and two plays, of which the
   second may have a Range.  So one of the slots may be lost, or the only one.

   The steps left out are those of readers and writers, who hold no slot, the ends of
   clients' contexts, failures of disks, and reaps; none that BothFairness needs. *)
EXTENDS SourceStreams

CONSTANTS c1, c2, p1, p2

OneSource == [k \in Keys |-> Provider]

(* Streams end before their first chunk. *)
NoChunks == \A s \in Clients : pump'[s] \notin {"send", "last"}

(* Clients neither read nor go away, and the handlers of plays do not read. *)
NobodyReads == /\ watching \subseteq watching'
               /\ cancelled' = cancelled
               /\ \A c \in Clients : pc[c] = "reading" => pc'[c] = "reading"
               /\ \A p \in Plays : vodPc[p] = "reading" => vodPc'[p] = "reading"

(* A copy breaks off at once, or gets the whole of a sound file; nothing else fails. *)
CopiedOrBroken ==
    \A p \in Plays :
        /\ run[p] = "copy" => CASE run'[p] = "copied" -> purgatory[vodWant[p]].len = 1
                                [] run'[p] = "broken" -> purgatory[vodWant[p]].len = 0
                                [] OTHER -> TRUE
        /\ run'[p] \notin {"invalid", "unmoved"}
        /\ vodPc'[p] # "closing"

NoReaps == \A m \in Media : objs[m] # None => objs'[m] # None

(* Clients are alike until one has left the top of Subscribe, and so are plays without
   a Range that have yet to look in the cache: which comes first makes no difference. *)
InTurn == /\ pc[c1] \in {"idle", "lock"} => pc'[c2] = "idle"
          /\ vpc[p1] \in {"idle", "get"} => vpc'[p2] = "idle"

Party == /\ pools'[Provider] = 1 => ranged = {}
         /\ pools'[Provider] = 2 => pc'[c2] = "idle"

MCInit == /\ BothInit
          /\ ranged \in {{}, {p2}}
          /\ expected = [p \in Plays |-> 0]

MCNext == /\ BothNext
          /\ NoChunks /\ NobodyReads /\ CopiedOrBroken /\ NoReaps /\ InTurn /\ Party

(* Live streams end.  Strong fairness is what that takes; without chunks the weak one
   does, which assumes less. *)
StreamsEnd == \A c \in Clients : WF_bothVars(OfLive(Unleased(PumpReadLast(c))))

MCSpec == MCInit /\ [][MCNext]_bothVars /\ BothFairness /\ StreamsEnd
=============================================================================
