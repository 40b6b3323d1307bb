------------------------------ MODULE OcrEngine ------------------------------
(***************************************************************************)
(* The one OCR engine (PaddleGpuWorker) that the threads of a document     *)
(* share, the pages that wait for it, their stopwatches, and what holds of *)
(* them however the threads interleave.  OcrQueue has the steps.           *)
(***************************************************************************)
EXTENDS Integers, Sequences

CONSTANTS
  QueueSize,  \* pages of the document, in page order
  Timeout,    \* ocr_timeout_seconds, in ticks
  LoadTime    \* ticks that _load takes

Queued == 1..QueueSize
Nobody == 0

VARIABLES
  threads,  \* workers: threads of the pool
  ticks,    \* how long the inference of each page takes
  state,    \* of each page
  age,      \* ticks since its run began
  holder,   \* the page that holds the lock
  left,     \* ticks until the holder is done
  loaded,   \* the models are in memory
  served    \* pages in the order in which they held the lock

queue == <<threads, ticks, state, age, holder, left, loaded, served>>

-----------------------------------------------------------------------------
(* The time-out is the page's own: a page is failed as slow only if its         *)
(* inference, the loading of the models included, takes longer than that.       *)
OnlySlowPagesTimeOut ==
  \A p \in Queued : state[p] = "timed_out" => ticks[p] + LoadTime > Timeout

(* The engine is never entered by two threads, and no page that is finished     *)
(* holds it: whoever holds the lock is running, and is the last who got it.     *)
HolderIsRunning ==
  holder # Nobody => state[holder] = "running" /\ served[Len(served)] = holder

(* A page is served once, and with its full time: none is ready whose inference *)
(* took longer than the time-out.                                               *)
ServedOnce ==
  /\ \A i, j \in 1..Len(served) : served[i] = served[j] => i = j
  /\ \A p \in Queued : state[p] = "ready" => ticks[p] <= Timeout

(* Only one thread is in the OCR engine, every page gets its full time-out, and *)
(* with one thread no page is failed for the time that another one took.        *)
OcrIsServed ==
  /\ HolderIsRunning /\ ServedOnce
  /\ threads = 1 => OnlySlowPagesTimeOut
=============================================================================
