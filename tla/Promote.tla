------------------------------ MODULE Promote ------------------------------
(* Promoting cached objects into the library: Cache.Promote as its callers, the
   handlers of POST .../promote, run it side by side.  All the objects here have
   the same name in the library: the same channel promoted twice, or two
   channels that are given the same title.

   The copy is modelled at the level of the file system, where it is at risk: a
   name refers to an inode, an open file keeps its inode when the name goes, and
   two writers of one inode write each at its own offset.  A file is a sequence
   of chunks, a chunk is the object it comes from, and a gap that nobody wrote
   reads as zeros. *)
EXTENDS Integers, Sequences, FiniteSets

CONSTANTS Promoters,
          Titled,       \* the objects of that name, by their keys
          SizeOf,       \* chunks of each
          DiskFails,    \* whether opening, writing and closing may fail
          NoInode

Zeros == "zeros"

(* One inode may have the name, and each promoter may hold another. *)
Inodes == 0..Cardinality(Promoters)

ASSUME PromoteAssumption == /\ IsFiniteSet(Promoters)
                            /\ SizeOf \in [Titled -> Nat \ {0}]
                            /\ DiskFails \in BOOLEAN
                            /\ NoInode \notin Inodes

VARIABLES
    validated,  \* the objects that are in the cache, whole
    dest,       \* the inode of the name in the library, or NoInode
    content,    \* what each inode holds
    step,       \* where each promoter is
    object,     \* the object it promotes
    fd,         \* the inode it writes
    off,        \* the chunks it has written
    outcome     \* what it answers

promoteVars == <<validated, dest, content, step, object, fd, off, outcome>>
files == <<validated, dest, content>>

Copy(k) == [i \in 1..SizeOf[k] |-> k]

PromoteInit == /\ validated = Titled
               /\ dest = NoInode
               /\ content = [i \in Inodes |-> <<>>]
               /\ step = [p \in Promoters |-> "idle"]
               /\ object = [p \in Promoters |-> NoInode]
               /\ fd = [p \in Promoters |-> NoInode]
               /\ off = [p \in Promoters |-> 0]
               /\ outcome = [p \in Promoters |-> "none"]

Goto(p, label) == step' = [step EXCEPT ![p] = label]

Answer(p, result) == /\ Goto(p, "idle")
                     /\ outcome' = [outcome EXCEPT ![p] = result]

(* Under the lock: only a validated object goes on. *)
Begin(p, k) == /\ step[p] = "idle"
               /\ k \in validated
               /\ Goto(p, "open")
               /\ object' = [object EXCEPT ![p] = k]
               /\ off' = [off EXCEPT ![p] = 0]
               /\ outcome' = [outcome EXCEPT ![p] = "none"]
               /\ UNCHANGED <<files, fd>>

Refuse(p, k) == /\ step[p] = "idle"
                /\ k \notin validated
                /\ outcome' = [outcome EXCEPT ![p] = "failed"]
                /\ UNCHANGED <<files, step, object, fd, off>>

OpenSource(p) == /\ step[p] = "open"
                 /\ object[p] \in validated
                 /\ Goto(p, "create")
                 /\ UNCHANGED <<files, object, fd, off, outcome>>

(* The object was reaped since, or the directory cannot be made. *)
OpenFails(p) == /\ \/ step[p] = "open" /\ object[p] \notin validated
                   \/ step[p] \in {"open", "create"} /\ DiskFails
                /\ Answer(p, "failed")
                /\ UNCHANGED <<files, object, fd, off>>

(* An inode that no name and no open file refers to. *)
NewInode == CHOOSE i \in Inodes : /\ i # dest
                                  /\ \A p \in Promoters :
                                        step[p] \in {"copy", "close"} => fd[p] # i

(* Mutant: a file that is there is written over, not truncated first. *)
CreateOver(p) == LET i == IF dest = NoInode THEN NewInode ELSE dest IN
    /\ step[p] = "create"
    /\ dest' = i
    /\ content' = [content EXCEPT ![i] = IF dest = NoInode THEN <<>> ELSE @]
    /\ fd' = [fd EXCEPT ![p] = i]
    /\ Goto(p, "copy")
    /\ UNCHANGED <<validated, object, off, outcome>>

(* O_CREATE|O_TRUNC: the inode that has the name is emptied, whoever else is
   writing it. *)
Create(p) == LET i == IF dest = NoInode THEN NewInode ELSE dest IN
    /\ step[p] = "create"
    /\ dest' = i
    /\ content' = [content EXCEPT ![i] = <<>>]
    /\ fd' = [fd EXCEPT ![p] = i]
    /\ Goto(p, "copy")
    /\ UNCHANGED <<validated, object, off, outcome>>

(* File c after chunk k is written at offset n. *)
Written(c, n, k) ==
    [i \in 1..(IF Len(c) > n THEN Len(c) ELSE n + 1) |->
        IF i = n + 1 THEN k ELSE IF i <= Len(c) THEN c[i] ELSE Zeros]

CopyChunk(p) == /\ step[p] = "copy"
                /\ off[p] < SizeOf[object[p]]
                /\ content' = [content EXCEPT ![fd[p]] = Written(@, off[p], object[p])]
                /\ off' = [off EXCEPT ![p] = @ + 1]
                /\ UNCHANGED <<validated, dest, step, object, fd, outcome>>

CopyFails(p) == /\ step[p] = "copy" /\ DiskFails
                /\ Goto(p, "remove")
                /\ UNCHANGED <<files, object, fd, off, outcome>>

CopyEnds(p) == /\ step[p] = "copy"
               /\ off[p] = SizeOf[object[p]]
               /\ Goto(p, "close")
               /\ UNCHANGED <<files, object, fd, off, outcome>>

(* A file that does not close stays where it is. *)
Close(p) == /\ step[p] = "close"
            /\ \/ Goto(p, "validate") /\ UNCHANGED outcome
               \/ DiskFails /\ Answer(p, "failed")
            /\ UNCHANGED <<files, object, fd, off>>

(* ValidateFile on the name in the library, whatever that is now, with no
   expected size: it is there, it is not empty and it starts like a medium. *)
LooksValid == /\ dest # NoInode
              /\ content[dest] # <<>>
              /\ content[dest][1] # Zeros

Validate(p) == /\ step[p] = "validate"
               /\ IF LooksValid THEN Answer(p, "ok")
                                ELSE Goto(p, "remove") /\ UNCHANGED outcome
               /\ UNCHANGED <<files, object, fd, off>>

(* os.Remove takes the name away, from whatever file has it. *)
Remove(p) == /\ step[p] = "remove"
             /\ dest' = NoInode
             /\ Answer(p, "failed")
             /\ UNCHANGED <<validated, content, object, fd, off>>

(* Elsewhere: the reaper deletes an object, a fill brings one. *)
Reap(k) == /\ k \in validated
           /\ validated' = validated \ {k}
           /\ UNCHANGED <<dest, content, step, object, fd, off, outcome>>

Fill(k) == /\ k \notin validated
           /\ validated' = validated \cup {k}
           /\ UNCHANGED <<dest, content, step, object, fd, off, outcome>>

(* The process dies; what was written stays.  The cache starts empty. *)
Restart == /\ validated' = {}
           /\ step' = [p \in Promoters |-> "idle"]
           /\ outcome' = [p \in Promoters |-> "none"]
           /\ UNCHANGED <<dest, content, object, fd, off>>

PromoteNext == \/ \E p \in Promoters :
                     \/ \E k \in Titled : Begin(p, k) \/ Refuse(p, k)
                     \/ OpenSource(p) \/ OpenFails(p) \/ Create(p)
                     \/ CopyChunk(p) \/ CopyFails(p) \/ CopyEnds(p) \/ Close(p)
                     \/ Validate(p) \/ Remove(p)
               \/ \E k \in Titled : Reap(k) \/ Fill(k)
               \/ Restart

PromoteSpec == PromoteInit /\ [][PromoteNext]_promoteVars
----------------------------------------------------------------------------
PromoteTypeOK ==
    /\ validated \subseteq Titled
    /\ dest \in Inodes \cup {NoInode}
    /\ \A i \in Inodes : /\ content[i] \in Seq(Titled \cup {Zeros})
                         /\ \E k \in Titled : Len(content[i]) <= SizeOf[k]
    /\ step \in [Promoters -> {"idle", "open", "create", "copy", "close",
                              "validate", "remove"}]
    /\ object \in [Promoters -> Titled \cup {NoInode}]
    /\ fd \in [Promoters -> Inodes \cup {NoInode}]
    /\ \A p \in Promoters : off[p] \in 0..(IF object[p] = NoInode THEN 0 ELSE SizeOf[object[p]])
    /\ outcome \in [Promoters -> {"none", "ok", "failed"}]

Quiet == \A p \in Promoters : step[p] = "idle"

(* While no promotion runs, one that has succeeded has left in the library the
   copy of an object, every chunk of it and nothing else; earlier failures,
   reaps, restarts and what an interrupted copy left there do not matter.  Holds
   of promotions that do not overlap. *)
PromotedIsWhole ==
    \A p \in Promoters : Quiet /\ outcome[p] = "ok" =>
        dest # NoInode /\ \E k \in Titled : content[dest] = Copy(k)
=============================================================================
