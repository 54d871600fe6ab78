------------------------------ MODULE EmbyLink ------------------------------
(* The Emby settings and the calls that use them: handleEmbyConfig, which stores an
   address and a key in two statements and drops their errors, and the end of
   handlePromote, which reads the two and asks Emby to refresh its library.
   handleEmbyStatus and handleEmbyFolders only read.

   A server of Emby is named by its address, and its key has its name.  What it
   does is external: a refresh that it accepts scans the library.  The copy of a
   promotion is in Promote.tla; here a promotion's file is named by its call. *)
EXTENDS Naturals, FiniteSets

CONSTANTS Calls,
          Servers,
          Unset

VARIABLES
    url, key,   \* the settings emby.url and emby.api_key
    at,         \* what each call does next
    pair,       \* the address and key a call was given or has read
    answer,     \* of a call
    library,    \* the promoted files, by the call that promoted them
    scanned     \* server -> the files it has scanned

settings == <<url, key>>
emby == <<library, scanned>>
embyVars == <<url, key, at, pair, answer, library, scanned>>

Pairs == [url : Servers \cup {Unset}, key : Servers \cup {Unset}]
Nothing == [url |-> Unset, key |-> Unset]

EmbyInit == /\ url = Unset /\ key = Unset
            /\ at = [c \in Calls |-> "idle"]
            /\ pair = [c \in Calls |-> Nothing]
            /\ answer = [c \in Calls |-> "none"]
            /\ library = {}
            /\ scanned = [s \in Servers |-> {}]

Go(c, from, to) == at[c] = from /\ at' = [at EXCEPT ![c] = to]
Say(c, what) == answer' = [answer EXCEPT ![c] = what]

(****************************** handleEmbyConfig ****************************)

(* The key that is given need not be the server's. *)
Config(c) == /\ Go(c, "idle", "save url")
             /\ \E s, k \in Servers : pair' = [pair EXCEPT ![c] = [url |-> s, key |-> k]]
             /\ Say(c, "none")
             /\ UNCHANGED <<settings, emby>>

SaveUrl(c) == /\ Go(c, "save url", "save key")
              /\ url' = pair[c].url
              /\ UNCHANGED <<key, pair, answer, emby>>

SaveKey(c) == /\ Go(c, "save key", "ping")
              /\ key' = pair[c].key
              /\ UNCHANGED <<url, pair, answer, emby>>

(* A statement fails, and the handler goes on. *)
SaveFails(c) == /\ Go(c, "save url", "save key") \/ Go(c, "save key", "ping")
                /\ UNCHANGED <<settings, pair, answer, emby>>

(* Ping, with the pair of the request: the answer is that it was saved, and whether
   Emby was reached within 15 seconds. *)
Ping(c) == /\ Go(c, "ping", "idle")
           /\ \/ pair[c].key = pair[c].url /\ Say(c, "reachable")
              \/ Say(c, "unreachable")
           /\ UNCHANGED <<settings, pair, emby>>

(******************************* handlePromote ******************************)

BeginPromote(c) == /\ c \notin library
                   /\ Go(c, "idle", "copy")
                   /\ Say(c, "none")
                   /\ UNCHANGED <<settings, pair, emby>>

CopyFileFails(c) == /\ Go(c, "copy", "idle")
                    /\ UNCHANGED <<settings, pair, answer, emby>>

(* Mutant: the copy goes on in the background. *)
CopyLater(c) == /\ Go(c, "copy", "read url")
                /\ UNCHANGED <<settings, pair, answer, emby>>

CopyFile(c) == /\ Go(c, "copy", "read url")
               /\ library' = library \cup {c}
               /\ UNCHANGED <<settings, pair, answer, scanned>>

Promoted(c) == Say(c, "promoted")

ReadUrl(c) == /\ Go(c, "read url", IF url = Unset THEN "idle" ELSE "read key")
              /\ pair' = [pair EXCEPT ![c].url = url]
              /\ IF url = Unset THEN Promoted(c) ELSE UNCHANGED answer
              /\ UNCHANGED <<settings, emby>>

ReadKey(c) == /\ Go(c, "read key", IF key = Unset THEN "idle" ELSE "refresh")
              /\ pair' = [pair EXCEPT ![c].key = key]
              /\ IF key = Unset THEN Promoted(c) ELSE UNCHANGED answer
              /\ UNCHANGED <<settings, emby>>

(* Emby takes the request, and scans what is there. *)
Refresh(c) == /\ pair[c].key = pair[c].url
              /\ Go(c, "refresh", "idle")
              /\ scanned' = [scanned EXCEPT ![pair[c].url] = library]
              /\ Say(c, "refreshed")
              /\ UNCHANGED <<settings, pair, library>>

(* Emby refuses the key, cannot be reached, or has not answered in 30 seconds. *)
RefreshFails(c) == /\ Go(c, "refresh", "idle")
                   /\ Promoted(c)
                   /\ UNCHANGED <<settings, pair, emby>>

Step(c) == \/ SaveUrl(c) \/ SaveKey(c) \/ SaveFails(c) \/ Ping(c)
           \/ CopyFileFails(c) \/ CopyFile(c) \/ ReadUrl(c) \/ ReadKey(c)
           \/ Refresh(c) \/ RefreshFails(c)

EmbyNext == \E c \in Calls : Config(c) \/ BeginPromote(c) \/ Step(c)

EmbySpec == EmbyInit /\ [][EmbyNext]_embyVars
----------------------------------------------------------------------------
EmbyTypeOK == /\ [url |-> url, key |-> key] \in Pairs
              /\ at \in [Calls -> {"idle", "save url", "save key", "ping", "copy",
                                   "read url", "read key", "refresh"}]
              /\ pair \in [Calls -> Pairs]
              /\ answer \in [Calls -> {"none", "reachable", "unreachable", "promoted", "refreshed"}]
              /\ library \subseteq Calls
              /\ \A s \in Servers : scanned[s] \subseteq library
              /\ \A c \in Calls : at[c] = "refresh" => Unset \notin {pair[c].url, pair[c].key}

(* An answer that says emby_refreshed tells the truth: a server of Emby has scanned
   the library with the file in it, whatever configurations came between the two
   reads of the settings. *)
RefreshedMeansScanned ==
    \A c \in Calls : answer[c] = "refreshed" => \E s \in Servers : c \in scanned[s]
=============================================================================
