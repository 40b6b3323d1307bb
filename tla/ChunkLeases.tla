---------------------------- MODULE ChunkLeases ----------------------------
(***************************************************************************)
(* What the transcript ledger promises to the workers that share it: each  *)
(* change of a chunk is atomic, a chunk is leased to one worker at a time, *)
(* every lease counts, and a completed chunk keeps its response.           *)
(***************************************************************************)
EXTENDS Naturals

CONSTANTS Job, Worker, Response, None

VARIABLE chunk

Pending(attempts) == [state |-> "pending", holder |-> None, attempts |-> attempts,
                      response |-> None]

Init == chunk = [j \in Job |-> Pending(0)]

\* One call may lease several chunks to one worker.
Lease(w, jobs) ==
  /\ \A j \in jobs : chunk[j].state = "pending"
  /\ chunk' = [j \in Job |->
       IF j \in jobs
       THEN [state |-> "leased", holder |-> w, attempts |-> chunk[j].attempts + 1,
             response |-> None]
       ELSE chunk[j]]

Complete(j, r) ==
  /\ chunk[j].state = "leased"
  /\ chunk' = [chunk EXCEPT ![j] = [state |-> "completed", holder |-> @.holder,
                                    attempts |-> @.attempts, response |-> r]]

GiveUp(j) ==
  /\ chunk[j].state = "leased"
  /\ chunk' = [chunk EXCEPT ![j].state = "failed"]

\* requeue of a failed chunk, reclaim of a leased one: the count survives.
Return(j) ==
  /\ chunk[j].state \in {"leased", "failed"}
  /\ chunk' = [chunk EXCEPT ![j] = Pending(@.attempts)]

Next ==
  \/ \E w \in Worker, jobs \in SUBSET Job : Lease(w, jobs)
  \/ \E j \in Job :
       \/ \E r \in Response : Complete(j, r)
       \/ GiveUp(j)
       \/ Return(j)

Spec == Init /\ [][Next]_chunk
=============================================================================
