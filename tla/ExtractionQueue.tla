-------------------------- MODULE ExtractionQueue --------------------------
(***************************************************************************)
(* One bundle of the extraction queue under the output root that           *)
(* extract-ingest, validator-ingest, extraction-status and                 *)
(* semantic-publish share: its files, what the readers make of them, and   *)
(* what a reader may rely on.  Its two blind jobs and each validation of a *)
(* pair of responses keep one directory of responses and one of receipts;  *)
(* the readers recompute every state from the receipts and refuse a        *)
(* directory that does not hold exactly one.  Files are named by their     *)
(* content, so a response, or the receipt for it, is the model value of    *)
(* its bytes.                                                              *)
(***************************************************************************)
EXTENDS Null

CONSTANTS
  ResponseA, ResponseB,  \* what the workers may return for the blind passes
  Decision,              \* what the validator may return
  Process,               \* commands that may be under way at once
  Litter                 \* what a crash has left: a torn temporary, or a file with two links

Answer == ResponseA \cup ResponseB \cup Decision

\* A temporary that was written to its end before the crash reads like the file.
Copy(r) == <<r>>

\* What may lie in a directory of receipts.
Entry == Answer \cup {Copy(r) : r \in Answer} \cup {Litter}

Pair == ResponseA \X ResponseB
PassA == <<"A">>
PassB == <<"B">>
Token == {PassA, PassB} \cup Pair   \* job_id of a pass, or validation_id of a pair
\* What check_semantic_artifact, the identity of the job and, for a decision,
\* reconcile_validator let through.
Offered(t) == CASE t = PassA -> ResponseA [] t = PassB -> ResponseB [] OTHER -> Decision

VARIABLES
  responses,  \* files under responses/<t> or validator-responses/<t>
  receipts,   \* those under receipts/<t> or validator-receipts/<t>; None before the mkdir
  process,    \* what each command is about to do
  said,       \* what the last status that was printed said
  published,  \* the publications that were written
  contested,  \* two commands were at work on one token with different responses
  mishap      \* bound: one fault, "crash" or "sync"

queue == <<responses, receipts, process, said, published, contested, mishap>>

Stages == {"listed", "linked", "answered", "directory", "acknowledged"}

\* The state of the bundle: the response of each pass, and the decision for the pair.
Report(a, b, d) == [a |-> a, b |-> b, decision |-> d]

-----------------------------------------------------------------------------
\* Readers.  No directory is no receipt yet; a directory must hold one entry, whatever
\* its name, and the response that this receipt names must be there.
Receipt(t) ==
  IF receipts[t] = None THEN None
  ELSE CHOOSE r \in Offered(t) : receipts[t] \cap {r, Copy(r)} # {}

\* Seeded fault: the first entry of the directory is taken, whatever else is in it.
BrokenUnlessSome(t) ==
  /\ receipts[t] # None
  /\ ~ \E r \in Offered(t) : receipts[t] \cap {r, Copy(r)} # {} /\ r \in responses[t]
Broken(t) ==
  /\ receipts[t] # None
  /\ ~ \E r \in Offered(t) : receipts[t] \in {{r}, {Copy(r)}} /\ r \in responses[t]

BothIngested == Receipt(PassA) # None /\ Receipt(PassB) # None
Current == <<Receipt(PassA), Receipt(PassB)>>

StatusRaises ==
  \/ Broken(PassA) \/ Broken(PassB)
  \/ BothIngested /\ Broken(Current)
Status ==
  Report(Receipt(PassA), Receipt(PassB), IF BothIngested THEN Receipt(Current) ELSE None)


-----------------------------------------------------------------------------
\* Two different answers to one job raced, and a directory failed to sync.
RaceOnFailingDisk == contested /\ mishap = "sync"

(* The records of a publication come from the responses and the decision that   *)
(* its own queue.json and provenance name, although the files are read twice    *)
(* while others write; and what is published of a pair is one decision.         *)
PublishedAsReported ==
  RaceOnFailingDisk \/
  /\ \A x \in published : x.records = x.status
  /\ \A x, y \in published :
       x.records.a = y.records.a /\ x.records.b = y.records.b => x.records = y.records

(* A status that was printed is never contradicted by a later one: a pass keeps *)
(* its response and a bundle its decision, whoever races and whoever dies.      *)
StatusIsKept ==
  \/ RaceOnFailingDisk
  \/ \A f \in {"a", "b", "decision"} : said[f] # None => said'[f] = said[f]

(* The queue can always be read, between commands, unless a command died, its   *)
(* disk failed or two ingests with different answers to one job overlapped.     *)
QueueIsReadable ==
  (\A p \in Process : process[p].at \notin Stages) /\ mishap = "none" /\ ~contested
    => ~StatusRaises

(* What is published is what its own files name, and the queue can be read.     *)
QueueIsTrue == PublishedAsReported /\ QueueIsReadable

StatusNeverContradicts == [][StatusIsKept]_queue
=============================================================================
