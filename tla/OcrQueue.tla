------------------------------ MODULE OcrQueue ------------------------------
(***************************************************************************)
(* The pages of one document in the thread pool of _transcribe_document,   *)
(* all of which need the one PaddleGpuWorker: run starts its stopwatch,    *)
(* waits for the lock, loads the models if nobody has, infers, and         *)
(* compares the stopwatch with the time-out when it is done.  Time passes  *)
(* in ticks while a page holds the lock; everything else takes none.       *)
(***************************************************************************)
EXTENDS OcrEngine, FiniteSets

CONSTANTS
  Threads,   \* sizes of the pool
  MaxTicks   \* bound: ticks one inference takes

ConstantsAssumption ==
  /\ QueueSize \in Nat /\ Timeout \in Nat \ {0} /\ LoadTime \in Nat
  /\ Threads \subseteq Nat \ {0} /\ MaxTicks \in Nat \ {0}

TypeOK ==
  /\ threads \in Threads
  /\ ticks \in [Queued -> 1..MaxTicks]
  /\ state \in [Queued -> {"queued", "running", "ready", "timed_out", "load_failed"}]
  /\ age \in [Queued -> Nat]
  /\ holder \in Queued \cup {Nobody}
  /\ left \in 0..(MaxTicks + LoadTime)
  /\ loaded \in BOOLEAN
  /\ served \in Seq(Queued)

Init ==
  /\ threads \in Threads
  /\ ticks \in [Queued -> 1..MaxTicks]
  /\ state = [p \in Queued |-> "queued"]
  /\ age = [p \in Queued |-> 0]
  /\ holder = Nobody
  /\ left = 0
  /\ loaded = FALSE
  /\ served = <<>>

-----------------------------------------------------------------------------
Running == {p \in Queued : state[p] = "running"}
Terminal == {"ready", "timed_out", "load_failed"}

\* The pool takes pages in the order of their submission.
Begin(p) ==
  /\ state[p] = "queued"
  /\ \A q \in 1..p - 1 : state[q] # "queued"
  /\ Cardinality(Running) < threads
  /\ state' = [state EXCEPT ![p] = "running"]
  /\ UNCHANGED <<threads, ticks, age, holder, left, loaded, served>>

Free == holder = Nobody

\* The lock is granted to any of the threads that wait for it.
Acquire(p) ==
  /\ state[p] = "running"
  /\ Free
  /\ p # holder
  /\ holder' = p
  /\ left' = ticks[p] + (IF loaded THEN 0 ELSE LoadTime)
  /\ loaded' = TRUE
  /\ served' = Append(served, p)
  /\ UNCHANGED <<threads, ticks, state, age>>

\* The import or the initialisation of the models raises; the next page tries again.
LoadFails(p) ==
  /\ state[p] = "running"
  /\ Free
  /\ ~loaded
  /\ state' = [state EXCEPT ![p] = "load_failed"]
  /\ served' = Append(served, p)
  /\ UNCHANGED <<threads, ticks, age, holder, left, loaded>>

Tick ==
  /\ holder # Nobody
  /\ left > 0
  /\ left' = left - 1
  /\ age' = [p \in Queued |-> IF p \in Running THEN age[p] + 1 ELSE age[p]]
  /\ UNCHANGED <<threads, ticks, state, holder, loaded, served>>

\* Seeded fault: the time-out is one tick early.
ExceededEarly(p) == age[p] >= Timeout

Exceeded(p) == age[p] > Timeout

\* Seeded fault: a page that times out keeps the lock.
FinishHolding ==
  /\ holder # Nobody
  /\ left = 0
  /\ state' = [state EXCEPT ![holder] = IF Exceeded(holder) THEN "timed_out" ELSE "ready"]
  /\ holder' = IF Exceeded(holder) THEN holder ELSE Nobody
  /\ UNCHANGED <<threads, ticks, age, left, loaded, served>>

\* The result is ready, however late: inference cannot be interrupted.
Finish ==
  /\ holder # Nobody
  /\ left = 0
  /\ state' = [state EXCEPT ![holder] = IF Exceeded(holder) THEN "timed_out" ELSE "ready"]
  /\ holder' = Nobody
  /\ UNCHANGED <<threads, ticks, age, left, loaded, served>>

Ended == \A p \in Queued : state[p] \in Terminal
Done == Ended /\ UNCHANGED queue

Next ==
  \/ \E p \in Queued : Begin(p) \/ Acquire(p) \/ LoadFails(p)
  \/ Tick \/ Finish \/ Done

Spec == Init /\ [][Next]_queue /\ WF_queue(Next)

-----------------------------------------------------------------------------
(* Every page becomes terminal, whatever the others do: no page waits for ever  *)
(* behind one that was slow or whose models did not load.                       *)
EveryPageEnds == <>Ended
=============================================================================
