----------------------------- MODULE CacheProps -----------------------------
(* What the cache promises its callers and the disk. *)
EXTENDS Cache

TypeOK == /\ objs \in [Keys -> Objects \cup {None}]
          /\ fills \in [Keys -> Calls \cup {None}]
          /\ done \subseteq Calls
          /\ run \in [Calls -> FillStates]
          /\ purgatory \in [Keys -> Files \cup {None}]
          /\ cached \in [Keys -> Files \cup {None}]
          /\ pc \in [Calls -> CallStates]
          /\ want \in [Calls -> Keys]
          /\ src \in [Calls -> {"none", "open", "closed"}]
          /\ passes \subseteq Calls
          /\ expected \in [Calls -> {0, Size}]
          /\ of \in [Calls -> Calls \cup {None}]
          /\ file \in [Calls -> Files \cup {None}]
          /\ at \in [Calls -> {"purgatory", "cache"}]
          /\ off \in [Calls -> 0..Size]
          /\ restarts \in 0..MaxRestarts

(* A fill in progress: from the entry in c.fills to its removal. *)
Active(c) == pc[c] = "create" \/ run[c] \notin {"none", "over"}

(* One fill for a key at a time, the one that c.fills names, and the file it writes
   is its own until it is renamed: no other fill truncates it, and Reap does not
   remove it. *)
FillOwnsItsFile ==
    \A c \in Calls :
        /\ Active(c) <=> fills[want[c]] = c
        /\ run[c] \in {"copy", "copied", "broken", "valid", "invalid"} =>
              purgatory[want[c]] # None /\ purgatory[want[c]].by = c

(* As much as a fill was told to expect, and something at all. *)
Whole(f) == f # None /\ f.len > 0 /\ expected[f.by] \in {0, f.len}

(* A validated object has its file where it says, as long as it says, and
   whole: across concurrent fills, reaping and restarts. *)
ValidatedIsWhole ==
    \A k \in Keys : Valid(k) =>
        LET f == FileAt(objs[k].path, k) IN Whole(f) /\ f.len = objs[k].size

(* A hit in cache/ gets a whole file, even when the object is reaped and
   filled again between the lookup and the open. *)
HitInCacheIsWhole ==
    \A c \in Calls : pc[c] = "hit" /\ at[c] = "cache" => Whole(file[c])

StateOf(o) == IF o = None THEN "missing" ELSE o.state

(* The cache keeps the life of objects that CacheLife promises. *)
Life == INSTANCE CacheLife WITH object <- [k \in Keys |-> StateOf(objs[k])]
ImplementsCacheLife == Life!Spec

(* A call of OpenOrFill returns if sources end: those that wait are woken
   when the fill ends, however it ends. *)
Opening(c) == pc[c] \in {"look", "open", "waiting", "create", "closing", "stat"}
OpenOrFillReturns == \A c \in Calls : Opening(c) ~> ~ Opening(c)

(* A reader that follows a fill reaches the end of it, also when the file is
   renamed, reaped or truncated while it reads. *)
ReadersReachEnd ==
    \A c \in Calls : pc[c] \in {"reading", "nodata"} ~> pc[c] \notin {"reading", "nodata"}

(* The reader of a fill that is validated reads all of it before the end:
   "reads a growing file until done is closed and EOF reached". *)
EndMeansWhole ==
    \A c \in Calls :
        pc[c] = "eof" /\ Valid(want[c]) =>
            LET f == FileAt(objs[want[c]].path, want[c]) IN
            f.by = of[c] => off[c] = f.len

=============================================================================
