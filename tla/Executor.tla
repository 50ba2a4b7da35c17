------------------------------ MODULE Executor -------------------------------
(***************************************************************************)
(* What the thread pool and its futures promise the submitter of a task: a   *)
(* task is refused, or it is run once, or - only if the pool is closed and    *)
(* nothing runs any more - it is dropped; and the future of a task lives      *)
(* until both its producer and its consumer are done with it, then dies once. *)
(* Shards, workers, locks and wakeups are ways of keeping this promise.       *)
(***************************************************************************)
CONSTANT Tasks

VARIABLES
  status,    \* task -> "new", "accepted", "refused", "running", "fulfilled", "aborted", "dropped"
  closed,    \* the pool was told to shut down
  released,  \* futures the consumer gave up
  freed      \* task -> how often its future was freed

executor == <<status, closed, released, freed>>

Init ==
  /\ status = [k \in Tasks |-> "new"]
  /\ closed = FALSE
  /\ released = {}
  /\ freed = [k \in Tasks |-> 0]

Become(k, from, to) == status[k] = from /\ status' = [status EXCEPT ![k] = to]
Futures == <<closed, released, freed>>

Accept(k) == Become(k, "new", "accepted") /\ UNCHANGED Futures
Start(k)  == Become(k, "accepted", "running") /\ UNCHANGED Futures
RunHere(k) == closed /\ Become(k, "new", "running") /\ UNCHANGED Futures
Finish(k) ==
  /\ Become(k, "running", "fulfilled") \/ Become(k, "running", "aborted")
  /\ UNCHANGED Futures

Drop(k) ==
  /\ closed /\ \A j \in Tasks : status[j] # "running"
  /\ Become(k, "accepted", "dropped")
  /\ UNCHANGED Futures

Refuse(k) ==
  /\ closed /\ Become(k, "new", "refused")
  /\ freed' = [freed EXCEPT ![k] = 1]
  /\ UNCHANGED <<closed, released>>

Close == closed' = TRUE /\ UNCHANGED <<status, released, freed>>

Release(k) ==
  /\ status[k] \notin {"new", "refused"} /\ k \notin released
  /\ released' = released \cup {k}
  /\ UNCHANGED <<status, closed, freed>>

Free(k) ==
  /\ status[k] = "fulfilled" /\ k \in released /\ freed[k] = 0
  /\ freed' = [freed EXCEPT ![k] = 1]
  /\ UNCHANGED <<status, closed, released>>

Next ==
  \/ Close
  \/ \E k \in Tasks :
       \/ Accept(k) \/ Start(k) \/ RunHere(k) \/ Finish(k) \/ Drop(k)
       \/ Refuse(k) \/ Release(k) \/ Free(k)

Spec == Init /\ [][Next]_executor
=============================================================================
