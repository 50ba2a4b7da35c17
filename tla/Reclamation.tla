----------------------------- MODULE Reclamation -----------------------------
(***************************************************************************)
(* What epoch-based reclamation promises its clients: a retired pointer     *)
(* waits for the sections that were open when it was retired, and for no    *)
(* other.  Epochs, slots and buckets are ways of keeping this promise.      *)
(***************************************************************************)
CONSTANTS Threads, Ptrs

VARIABLES
  inside,   \* threads inside a critical section
  status,   \* pointer -> "live", "retired" or "freed"
  pinned    \* pointer -> threads whose section it still waits for

contract == <<inside, status, pinned>>

Init ==
  /\ inside = {}
  /\ status = [p \in Ptrs |-> "live"]
  /\ pinned = [p \in Ptrs |-> {}]

Enter(t) == inside' = inside \cup {t} /\ UNCHANGED <<status, pinned>>

Leave(t) ==
  /\ inside' = inside \ {t}
  /\ pinned' = [p \in Ptrs |-> pinned[p] \ {t}]
  /\ UNCHANGED status

Retire(p) ==
  /\ status[p] = "live"
  /\ status' = [status EXCEPT ![p] = "retired"]
  /\ pinned' = [pinned EXCEPT ![p] = inside]
  /\ UNCHANGED inside

Free(p) ==
  /\ status[p] = "retired" /\ pinned[p] = {}
  /\ status' = [status EXCEPT ![p] = "freed"]
  /\ UNCHANGED <<inside, pinned>>

Next ==
  \/ \E t \in Threads : Enter(t) \/ Leave(t)
  \/ \E p \in Ptrs : Retire(p) \/ Free(p)

Spec == Init /\ [][Next]_contract
=============================================================================
