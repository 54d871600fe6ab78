----------------------------- MODULE RefreshJob -----------------------------
(* The asynchronous refresh: the map of jobs, the handler that starts one and
   answers 202, the goroutine that refreshes and then writes its job under jobsMu,
   and the polls, which copy the job under it.  What a refresh does is in
   Refresh.tla; here it returns or fails.

   The 202 answer is encoded from the shared job outside jobsMu.  That is a data
   race: what the answer says may be torn.  Its client needs only the identifier
   from it, which nobody writes, and nothing more of the answer is modelled. *)
EXTENDS Naturals

CONSTANTS Jobs,
          MaxRestarts,  \* bound
          None

VARIABLES
    jobs,       \* the map: the state of a job, or None
    mu,         \* the job whose goroutine holds jobsMu, or None
    handler,    \* where the handler of each start is
    worker,     \* where its goroutine is
    poll,       \* what the last poll said
    restarts

vars == <<jobs, mu, handler, worker, poll, restarts>>

Init == /\ jobs = [j \in Jobs |-> None]
        /\ mu = None
        /\ handler = [j \in Jobs |-> "idle"]
        /\ worker = [j \in Jobs |-> "none"]
        /\ poll = [j \in Jobs |-> "running"]
        /\ restarts = 0

Handler(j, from, to) == handler[j] = from /\ handler' = [handler EXCEPT ![j] = to]
Worker(j, from, to) == worker[j] = from /\ worker' = [worker EXCEPT ![j] = to]

Start(j) == /\ mu = None
            /\ Handler(j, "idle", "encode") /\ Worker(j, "none", "refresh")
            /\ jobs' = [jobs EXCEPT ![j] = "running"]
            /\ UNCHANGED <<mu, poll, restarts>>

(* writeJSON, whatever the goroutine has got to. *)
Answer(j) == /\ Handler(j, "encode", "answered")
             /\ UNCHANGED <<jobs, mu, worker, poll, restarts>>

(* RefreshSource has a deadline of half an hour, and errors of its own. *)
Refresh(j) == /\ Worker(j, "refresh", "succeeded") \/ Worker(j, "refresh", "failed")
              /\ UNCHANGED <<jobs, mu, handler, poll, restarts>>

(* The goroutine gets the mutex, and writes EndedAt first. *)
Lock(j) == /\ mu = None /\ mu' = j
           /\ worker[j] \in {"succeeded", "failed"}
           /\ UNCHANGED <<jobs, handler, worker, poll, restarts>>

(* Mutant: an error returns past the unlock. *)
WriteErrorLocked(j) == /\ mu = j
                       /\ Worker(j, "failed", "ended")
                       /\ jobs' = [jobs EXCEPT ![j] = "error"]
                       /\ UNCHANGED <<mu, handler, poll, restarts>>

WriteError(j) == /\ mu = j /\ mu' = None
                 /\ Worker(j, "failed", "ended")
                 /\ jobs' = [jobs EXCEPT ![j] = "error"]
                 /\ UNCHANGED <<handler, poll, restarts>>

WriteTotals(j) == /\ mu = j /\ mu' = None
                  /\ Worker(j, "succeeded", "ended")
                  /\ jobs' = [jobs EXCEPT ![j] = "done"]
                  /\ UNCHANGED <<handler, poll, restarts>>

(* A client that has been answered asks for its job, as often as it likes. *)
Poll(j) == /\ handler[j] = "answered" /\ mu = None
           /\ poll' = [poll EXCEPT ![j] = IF jobs[j] = None THEN "not found" ELSE jobs[j]]
           /\ UNCHANGED <<jobs, mu, handler, worker, restarts>>

(* The process ends, and takes the jobs, but not the clients. *)
Restart == /\ restarts < MaxRestarts /\ restarts' = restarts + 1
           /\ jobs' = [j \in Jobs |-> None]
           /\ mu' = None
           /\ worker' = [j \in Jobs |-> "none"]
           /\ handler' = [j \in Jobs |-> IF handler[j] = "encode" THEN "lost" ELSE handler[j]]
           /\ UNCHANGED poll

Work(j) == Refresh(j) \/ Lock(j) \/ WriteError(j) \/ WriteTotals(j)

Next == \/ \E j \in Jobs : Start(j) \/ Answer(j) \/ Work(j) \/ Poll(j)
        \/ Restart

Spec == Init /\ [][Next]_vars

(* A goroutine runs, and gets the mutex in its turn; a client that has been answered
   goes on polling, and its handler gets the mutex too. *)
Fairness == \A j \in Jobs : SF_vars(Work(j)) /\ SF_vars(Poll(j))
----------------------------------------------------------------------------
(* The client of a job hears that it is done, has failed, or is not found because the
   process has ended since: not "running" for ever. *)
JobsAreHeardOf == \A j \in Jobs : handler[j] = "answered" ~> poll[j] # "running"
=============================================================================
