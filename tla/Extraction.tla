----------------------------- MODULE Extraction -----------------------------
(***************************************************************************)
(* The commands at work on the extraction queue.  An ingest lists the      *)
(* responses, installs its own, makes the directory of receipts and        *)
(* installs the receipt, with no lock; semantic-publish reads the queue    *)
(* twice.  One action is one file or directory that appears, is listed or  *)
(* is read.                                                                *)
(***************************************************************************)
EXTENDS ExtractionQueue

ConstantsAssumption ==
  /\ {None, Litter} \cap Answer = {}
  /\ \A r \in Answer : Copy(r) \notin Answer \cup {Litter}
  /\ \A files \in SUBSET Entry : files # None

vars == queue

Idle == [at |-> "idle"]
Working(stage, t, r) == [at |-> stage, token |-> t, item |-> r]

Reported ==
  [a : ResponseA \cup {None}, b : ResponseB \cup {None}, decision : Decision \cup {None}]
Decided == [a : ResponseA, b : ResponseB, decision : Decision]

TypeOK ==
  /\ responses \in [Token -> SUBSET (Answer \cup {Litter})]
  /\ receipts \in [Token -> (SUBSET Entry) \cup {None}]
  /\ process \in [Process -> {Idle} \cup [at : Stages, token : Token, item : Answer]
                             \cup [at : {"publishing"}, status : Decided]]
  /\ said \in Reported
  /\ published \subseteq [status : Decided, records : Reported]
  /\ contested \in BOOLEAN /\ mishap \in {"none", "crash", "sync"}

Init ==
  /\ responses = [t \in Token |-> {}]
  /\ receipts = [t \in Token |-> None]
  /\ process = [p \in Process |-> Idle]
  /\ said = Report(None, None, None)
  /\ published = {}
  /\ contested = FALSE
  /\ mishap = "none"

-----------------------------------------------------------------------------
Become(p, r) == process' = [process EXCEPT ![p] = r]
Rivals(p, t, r) ==
  \E q \in Process \ {p} : /\ process[q].at \in Stages
                           /\ process[q].token = t /\ process[q].item # r

\* Seeded fault: what is in the directory is not looked at.
FitsAnyway(t, r) == TRUE
\* A job that has a different response takes no other.
Fits(t, r) == responses[t] \subseteq {r}

\* The response is checked, its directory made and listed.
List(p, t, r) ==
  /\ process[p] = Idle
  /\ Fits(t, r)
  /\ Become(p, Working("listed", t, r))
  /\ contested' = (contested \/ Rivals(p, t, r))
  /\ UNCHANGED <<responses, receipts, said, published, mishap>>

StartIngest(p, pass, r) == List(p, pass, r)

\* _only_ingested_receipt and _load_stored_response for each pass; the decision is
\* checked against the two responses, whose digests name the validation.
StartValidate(p, d) ==
  /\ ~Broken(PassA) /\ ~Broken(PassB)
  /\ BothIngested
  /\ List(p, Current, d)

\* install_immutable_bytes: what is there already is reused.
PutResponse(p) ==
  /\ process[p].at = "listed"
  /\ LET t == process[p].token  r == process[p].item IN
       /\ responses' = [responses EXCEPT ![t] = @ \cup {r}]
       /\ Become(p, Working(IF r \in responses[t] THEN "answered" ELSE "linked", t, r))
  /\ UNCHANGED <<receipts, said, published, contested, mishap>>

\* An entry at the file's own name that has two links is refused.
Refuse(p) ==
  /\ \/ process[p].at = "listed" /\ Litter \in responses[process[p].token]
     \/ process[p].at = "directory" /\ Litter \in receipts[process[p].token]
  /\ Become(p, Idle)
  /\ UNCHANGED <<responses, receipts, said, published, contested, mishap>>

\* The directory entry of the response is durable.
Sync(p) ==
  /\ process[p].at = "linked"
  /\ Become(p, Working("answered", process[p].token, process[p].item))
  /\ UNCHANGED <<responses, receipts, said, published, contested, mishap>>

\* ensure_private_tree
MakeReceipts(p) ==
  /\ process[p].at = "answered"
  /\ LET t == process[p].token IN
       receipts' = [receipts EXCEPT ![t] = IF @ = None THEN {} ELSE @]
  /\ Become(p, Working("directory", process[p].token, process[p].item))
  /\ UNCHANGED <<responses, said, published, contested, mishap>>

PutReceipt(p) ==
  /\ process[p].at = "directory"
  /\ LET t == process[p].token  r == process[p].item IN
       /\ receipts' = [receipts EXCEPT ![t] = @ \cup {r}]
       /\ Become(p, IF r \in receipts[t] THEN Idle ELSE Working("acknowledged", t, r))
  /\ UNCHANGED <<responses, said, published, contested, mishap>>

Return(p) ==
  /\ process[p].at = "acknowledged"
  /\ Become(p, Idle)
  /\ UNCHANGED <<responses, receipts, said, published, contested, mishap>>

\* The process dies, perhaps with a temporary file in the directory it writes to.
Crash(p) ==
  /\ mishap = "none"
  /\ process[p].at \in Stages
  /\ mishap' = "crash"
  /\ Become(p, Idle)
  /\ LET t == process[p].token  r == process[p].item IN
       \/ UNCHANGED <<responses, receipts>>
       \/ /\ process[p].at = "listed"
          /\ responses' = [responses EXCEPT ![t] = @ \cup {Litter}]
          /\ UNCHANGED receipts
       \/ /\ process[p].at = "directory"
          /\ \E left \in {Litter, Copy(r)} : receipts' = [receipts EXCEPT ![t] = @ \cup {left}]
          /\ UNCHANGED responses
  /\ UNCHANGED <<said, published, contested>>

\* fsync of the directory fails after the link, and the file is unlinked again.
SyncFails(p) ==
  /\ mishap = "none"
  /\ mishap' = "sync"
  /\ LET t == process[p].token  r == process[p].item IN
       \/ /\ process[p].at = "linked"
          /\ responses' = [responses EXCEPT ![t] = @ \ {r}]
          /\ UNCHANGED receipts
       \/ /\ process[p].at = "acknowledged"
          /\ receipts' = [receipts EXCEPT ![t] = @ \ {r}]
          /\ UNCHANGED responses
  /\ Become(p, Idle)
  /\ UNCHANGED <<said, published, contested>>

-----------------------------------------------------------------------------
\* extraction-status
PrintStatus ==
  /\ ~StatusRaises
  /\ said' = Status
  /\ UNCHANGED <<responses, receipts, process, published, contested, mishap>>

\* semantic-publish takes the status of the queue ...
StartPublish(p) ==
  /\ process[p] = Idle
  /\ ~StatusRaises
  /\ Status.decision # None
  /\ Become(p, [at |-> "publishing", status |-> Status])
  /\ UNCHANGED <<responses, receipts, said, published, contested, mishap>>

\* ... and reads the receipts and the three responses again for the records.
Publish(p) ==
  /\ process[p].at = "publishing"
  /\ LET s == process[p].status  t == <<s.a, s.b>> IN
       IF Broken(PassA) \/ Broken(PassB) \/ Broken(t)
       THEN UNCHANGED published
       ELSE published' = published \cup
              {[status |-> s, records |-> Report(Receipt(PassA), Receipt(PassB), Receipt(t))]}
  /\ Become(p, Idle)
  /\ UNCHANGED <<responses, receipts, said, contested, mishap>>

Next ==
  \/ PrintStatus
  \/ \E p \in Process :
       \/ \E pass \in {PassA, PassB} : \E r \in Offered(pass) : StartIngest(p, pass, r)
       \/ \E d \in Decision : StartValidate(p, d)
       \/ PutResponse(p) \/ Refuse(p) \/ Sync(p) \/ MakeReceipts(p) \/ PutReceipt(p) \/ Return(p)
       \/ Crash(p) \/ SyncFails(p)
       \/ StartPublish(p) \/ Publish(p)

Spec == Init /\ [][Next]_vars
=============================================================================
