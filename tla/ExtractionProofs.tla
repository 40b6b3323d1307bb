-------------------------- MODULE ExtractionProofs --------------------------
(***************************************************************************)
(* The properties of Extraction, proved for every set of responses, of     *)
(* decisions and of processes, by one inductive invariant (IInv).          *)
(***************************************************************************)
EXTENDS Extraction, TLAPS

AtWork(p) == process[p].at \in Stages
Named(t, r) == receipts[t] # None /\ receipts[t] \cap {r, Copy(r)} # {}

\* A directory holds what is offered for its token, and what a crash has left.
EntriesAreOffered ==
  /\ \A t \in Token :
       /\ responses[t] \subseteq Offered(t) \cup {Litter}
       /\ receipts[t] # None =>
            receipts[t] \subseteq Offered(t) \cup {Copy(r) : r \in Offered(t)} \cup {Litter}
       /\ mishap # "crash" =>
            /\ responses[t] \subseteq Offered(t)
            /\ receipts[t] # None => receipts[t] \subseteq Offered(t)
  /\ \A p \in Process : AtWork(p) => process[p].item \in Offered(process[p].token)

\* Nothing but a failed sync takes a file away that another one builds upon.
FilesHold ==
  /\ \A p \in Process : process[p].at = "directory" => receipts[process[p].token] # None
  /\ mishap # "sync" =>
       /\ \A t \in Token : \A r \in Offered(t) : Named(t, r) => r \in responses[t]
       /\ \A p \in Process :
            /\ AtWork(p) /\ process[p].at # "listed" =>
                 process[p].item \in responses[process[p].token]
            /\ process[p].at = "acknowledged" =>
                 /\ receipts[process[p].token] # None
                 /\ process[p].item \in receipts[process[p].token]

\* Commands that are at work on one token have one response between them.
OneAnswerEach ==
  ~contested =>
    /\ \A p, q \in Process :
         AtWork(p) /\ AtWork(q) /\ process[p].token = process[q].token =>
           process[p].item = process[q].item
    /\ mishap # "crash" =>
         \A p \in Process : AtWork(p) => responses[process[p].token] \subseteq {process[p].item}
    /\ mishap = "none" => \A t \in Token : \A x, y \in responses[t] : x = y

\* An empty directory of receipts is about to be filled.
EmptyIsInTheMaking ==
  mishap = "none" =>
    \A t \in Token : receipts[t] = {} =>
      \E p \in Process : process[p].at = "directory" /\ process[p].token = t

\* A receipt that was read once: a later reader finds it, or a broken directory in
\* which only the same response can be put again.
Held(t, r) ==
  \/ Named(t, r)
  \/ /\ mishap = "sync"
     /\ receipts[t] = {}
     /\ responses[t] = {r}
     /\ \A p \in Process : AtWork(p) /\ process[p].token = t => process[p].item = r

ReportIsHeld(s) ==
  /\ s.a # None => Held(PassA, s.a)
  /\ s.b # None => Held(PassB, s.b)
  /\ s.decision # None => s.a # None /\ s.b # None /\ Held(<<s.a, s.b>>, s.decision)

ReportsAreHeld ==
  /\ ReportIsHeld(said)
  /\ \A p \in Process : process[p].at = "publishing" =>
       ReportIsHeld(process[p].status)
  /\ \A x \in published : ReportIsHeld(x.status)
  /\ PublishedAsReported

FilesInv == TypeOK /\ EntriesAreOffered /\ FilesHold /\ OneAnswerEach /\ EmptyIsInTheMaking
IInv == FilesInv /\ (RaceOnFailingDisk \/ ReportsAreHeld)
\* What was read stays read in a step.
HeldStays ==
  ~RaceOnFailingDisk' => \A t \in Token : \A r \in Offered(t) : Held(t, r) => Held(t, r)'

-----------------------------------------------------------------------------
(* The tokens, and what a process knows. *)

LEMMA TokensDiffer ==
  /\ PassA # PassB
  /\ \A t \in Pair : t # PassA /\ t # PassB
BY DEF PassA, PassB, Pair

LEMMA OfferedIsAnswer ==
  /\ \A t \in Token : Offered(t) \subseteq Answer
  /\ Offered(PassA) = ResponseA /\ Offered(PassB) = ResponseB
  /\ \A t \in Pair : Offered(t) = Decision
BY TokensDiffer DEF Offered, Answer

LEMMA ProcessFields ==
  ASSUME TypeOK, NEW p \in Process
  PROVE  /\ process[p].at \in Stages \cup {"idle", "publishing"}
         /\ process[p].at = "idle" <=> process[p] = Idle
         /\ AtWork(p) => process[p].token \in Token /\ process[p].item \in Answer
         /\ process[p].at = "publishing" => process[p].status \in Decided
<1>1. process[p] \in {Idle} \cup [at : Stages, token : Token, item : Answer]
                      \cup [at : {"publishing"}, status : Decided]
  BY DEF TypeOK
<1> QED
  BY <1>1 DEF Idle, Stages, AtWork

LEMMA WorkingType ==
  ASSUME NEW stage \in Stages, NEW t \in Token, NEW r \in Answer
  PROVE  Working(stage, t, r) \in [at : Stages, token : Token, item : Answer]
BY DEF Working

(* One process moves, the others stay where they are. *)
LEMMA BecomeMoves ==
  ASSUME TypeOK, NEW p \in Process, NEW s, Become(p, s)
  PROVE  /\ process'[p] = s
         /\ \A q \in Process : q # p => process'[q] = process[q]
BY DEF TypeOK, Become

LEMMA BecomeType ==
  ASSUME TypeOK, NEW p \in Process,
         NEW s \in {Idle} \cup [at : Stages, token : Token, item : Answer]
                        \cup [at : {"publishing"}, status : Decided],
         Become(p, s)
  PROVE  process' \in [Process -> {Idle} \cup [at : Stages, token : Token, item : Answer]
                                 \cup [at : {"publishing"}, status : Decided]]
BY DEF TypeOK, Become

(* A directory that is there is a set of entries. *)
LEMMA DirectoryType ==
  ASSUME TypeOK, NEW t \in Token, receipts[t] # None
  PROVE  receipts[t] \in SUBSET Entry
<1>1. receipts[t] \in (SUBSET Entry) \cup {None}
  BY DEF TypeOK
<1> QED
  BY <1>1

-----------------------------------------------------------------------------
(* The steps of an ingest. *)

LEMMA ListStep ==
  ASSUME ConstantsAssumption, FilesInv, NEW p \in Process, NEW t \in Token,
         NEW r \in Offered(t), List(p, t, r)
  PROVE  FilesInv' /\ HeldStays
<1> USE DEF FilesInv
<1>1. r \in Answer /\ "listed" \in Stages /\ Working("listed", t, r).at = "listed"
      /\ Working("listed", t, r).token = t /\ Working("listed", t, r).item = r
  BY OfferedIsAnswer DEF Stages, Working
<1>2. /\ process[p] = Idle /\ ~AtWork(p) /\ responses[t] \subseteq {r}
      /\ process'[p] = Working("listed", t, r)
      /\ \A q \in Process : q # p => process'[q] = process[q]
      /\ contested' = (contested \/ Rivals(p, t, r))
      /\ UNCHANGED <<responses, receipts, said, published, mishap>>
  BY BecomeMoves DEF List, Fits, AtWork, Idle, Stages
<1>3. TypeOK'
  <2>1. process' \in [Process -> {Idle} \cup [at : Stages, token : Token, item : Answer]
                                \cup [at : {"publishing"}, status : Decided]]
    BY <1>1, WorkingType, BecomeType DEF List
  <2>2. contested' \in BOOLEAN
    BY <1>2 DEF TypeOK
  <2> QED
    BY <1>2, <2>1, <2>2 DEF TypeOK
<1>4. EntriesAreOffered'
  BY <1>1, <1>2 DEF EntriesAreOffered, AtWork
<1>5. FilesHold'
  BY <1>1, <1>2 DEF FilesHold, AtWork, Named, Stages
<1>6. OneAnswerEach'
  <2> SUFFICES ASSUME ~contested' PROVE OneAnswerEach'
    BY DEF OneAnswerEach
  <2>1. ~contested /\ ~Rivals(p, t, r)
    BY <1>2 DEF TypeOK
  <2>2. \A q \in Process : q # p /\ AtWork(q) /\ process[q].token = t => process[q].item = r
    BY <2>1 DEF Rivals, AtWork
  <2> QED
    BY <1>1, <1>2, <2>1, <2>2 DEF OneAnswerEach, AtWork
<1>7. EmptyIsInTheMaking'
  BY <1>2 DEF EmptyIsInTheMaking, Idle
<1>8. HeldStays
  <2> SUFFICES ASSUME NEW t0 \in Token, NEW r0 \in Offered(t0), Held(t0, r0)
               PROVE  Held(t0, r0)'
    BY DEF HeldStays
  <2>1. CASE Named(t0, r0)
    BY <1>2, <2>1 DEF Held, Named
  <2>2. CASE ~Named(t0, r0)
    BY <1>1, <1>2, <2>2 DEF Held, AtWork
  <2> QED
    BY <2>1, <2>2
<1> QED
  BY <1>3, <1>4, <1>5, <1>6, <1>7, <1>8

LEMMA PutResponseStep ==
  ASSUME ConstantsAssumption, FilesInv, NEW p \in Process, PutResponse(p)
  PROVE  FilesInv' /\ HeldStays
<1> USE DEF FilesInv
<1>1. PICK t \in Token, r \in Answer :
        t = process[p].token /\ r = process[p].item /\ r \in Offered(t)
  BY ProcessFields DEF PutResponse, EntriesAreOffered, AtWork, Stages
<1>2. PICK stage \in {"answered", "linked"} :
        /\ Become(p, Working(stage, t, r))
        /\ stage = "answered" => r \in responses[t]
  BY <1>1 DEF PutResponse
<1>3. r \in Answer /\ stage \in Stages /\ Working(stage, t, r).at = stage
      /\ Working(stage, t, r).token = t /\ Working(stage, t, r).item = r
  BY OfferedIsAnswer DEF Stages, Working
<1>4. /\ process[p].at = "listed" /\ AtWork(p)
      /\ process'[p] = Working(stage, t, r)
      /\ \A q \in Process : q # p => process'[q] = process[q]
      /\ responses' = [responses EXCEPT ![t] = @ \cup {r}]
      /\ UNCHANGED <<receipts, said, published, contested, mishap>>
  BY <1>1, <1>2, BecomeMoves DEF PutResponse, AtWork, Stages
<1>5. /\ responses'[t] = responses[t] \cup {r}
      /\ \A k \in Token : k # t => responses'[k] = responses[k]
  BY <1>4 DEF TypeOK
<1>6. TypeOK'
  <2>1. process' \in [Process -> {Idle} \cup [at : Stages, token : Token, item : Answer]
                                \cup [at : {"publishing"}, status : Decided]]
    BY <1>2, <1>3, WorkingType, BecomeType
  <2>2. responses' \in [Token -> SUBSET (Answer \cup {Litter})]
    BY <1>3, <1>4 DEF TypeOK
  <2> QED
    BY <1>4, <2>1, <2>2 DEF TypeOK
<1>7. EntriesAreOffered'
  <2>1. ASSUME NEW k \in Token
        PROVE  /\ responses'[k] \subseteq Offered(k) \cup {Litter}
               /\ mishap # "crash" => responses'[k] \subseteq Offered(k)
    BY <1>1, <1>5 DEF EntriesAreOffered
  <2>2. ASSUME NEW q \in Process, AtWork(q)'
        PROVE  process'[q].item \in Offered(process'[q].token)
    BY <1>1, <1>3, <1>4, <2>2 DEF EntriesAreOffered, AtWork
  <2> QED
    BY <1>4, <2>1, <2>2 DEF EntriesAreOffered
<1>8. FilesHold'
  BY <1>3, <1>4, <1>5, ProcessFields DEF FilesHold, AtWork, Named
<1>9. OneAnswerEach'
  <2> SUFFICES ASSUME ~contested PROVE OneAnswerEach'
    BY <1>4 DEF OneAnswerEach
  <2>1. \A q \in Process : AtWork(q) /\ process[q].token = t => process[q].item = r
    BY <1>1, <1>4 DEF OneAnswerEach
  <2>2. mishap # "crash" => responses[t] \subseteq {r}
    BY <1>1, <1>4 DEF OneAnswerEach
  <2>3. ASSUME NEW q \in Process, NEW o \in Process, AtWork(q)', AtWork(o)',
               process'[q].token = process'[o].token
        PROVE  process'[q].item = process'[o].item
    BY <1>1, <1>3, <1>4, <2>1, <2>3 DEF OneAnswerEach, AtWork
  <2>4. ASSUME mishap # "crash", NEW q \in Process, AtWork(q)'
        PROVE  responses'[process'[q].token] \subseteq {process'[q].item}
    BY <1>1, <1>3, <1>4, <1>5, <2>1, <2>2, <2>4, ProcessFields DEF OneAnswerEach, AtWork
  <2>5. ASSUME mishap = "none", NEW k \in Token, NEW x \in responses'[k], NEW y \in responses'[k]
        PROVE  x = y
    BY <1>5, <2>2, <2>5 DEF OneAnswerEach
  <2> QED
    BY <1>4, <2>3, <2>4, <2>5 DEF OneAnswerEach
<1>10. EmptyIsInTheMaking'
  BY <1>4 DEF EmptyIsInTheMaking
<1>11. HeldStays
  <2> SUFFICES ASSUME NEW t0 \in Token, NEW r0 \in Offered(t0), Held(t0, r0)
               PROVE  Held(t0, r0)'
    BY DEF HeldStays
  <2>1. CASE Named(t0, r0)
    BY <1>4, <2>1 DEF Held, Named
  <2>2. CASE ~Named(t0, r0)
    BY <1>1, <1>3, <1>4, <1>5, <2>2 DEF Held, AtWork
  <2> QED
    BY <2>1, <2>2
<1> QED
  BY <1>6, <1>7, <1>8, <1>9, <1>10, <1>11
(* A command that gives up, or moves on without touching a file. *)
LEMMA QuietStep ==
  ASSUME ConstantsAssumption, FilesInv, NEW p \in Process,
         Refuse(p) \/ Sync(p) \/ Return(p)
  PROVE  FilesInv' /\ HeldStays
<1> USE DEF FilesInv
<1>1. /\ AtWork(p) /\ UNCHANGED <<responses, receipts, said, published, contested, mishap>>
      /\ process[p].at \in {"listed", "linked", "directory", "acknowledged"}
  BY DEF Refuse, Sync, Return, AtWork, Stages
<1>2. PICK t \in Token, r \in Answer :
        t = process[p].token /\ r = process[p].item /\ r \in Offered(t)
  BY <1>1, ProcessFields DEF EntriesAreOffered
<1>3. PICK s \in {Idle, Working("answered", t, r)} :
        Become(p, s) /\ (s # Idle => process[p].at = "linked")
  BY <1>2 DEF Refuse, Sync, Return
<1>4. /\ process'[p] = s
      /\ \A q \in Process : q # p => process'[q] = process[q]
  BY <1>3, BecomeMoves
<1>5. AtWork(p)' =>
        /\ process[p].at = "linked" /\ process'[p].at = "answered"
        /\ process'[p].token = t /\ process'[p].item = r
  BY <1>3, <1>4 DEF AtWork, Idle, Stages, Working
<1>6. process'[p].at \in {"idle", "answered"}
  BY <1>4 DEF Idle, Working
<1>7. TypeOK'
  <2>1. s \in {Idle} \cup [at : Stages, token : Token, item : Answer]
    BY WorkingType DEF Stages
  <2>2. process' \in [Process -> {Idle} \cup [at : Stages, token : Token, item : Answer]
                                \cup [at : {"publishing"}, status : Decided]]
    BY <1>3, <2>1, BecomeType
  <2> QED
    BY <1>1, <2>2 DEF TypeOK
<1>8. EntriesAreOffered'
  <2>1. ASSUME NEW q \in Process, AtWork(q)'
        PROVE  process'[q].item \in Offered(process'[q].token)
    BY <1>2, <1>4, <1>5, <2>1 DEF EntriesAreOffered, AtWork
  <2> QED
    BY <1>1, <2>1 DEF EntriesAreOffered
<1>9. FilesHold'
  <2>1. ASSUME NEW q \in Process, process'[q].at = "directory"
        PROVE  receipts[process'[q].token] # None
    BY <1>4, <1>6, <2>1 DEF FilesHold
  <2>2. ASSUME mishap # "sync", NEW q \in Process, AtWork(q)', process'[q].at # "listed"
        PROVE  process'[q].item \in responses[process'[q].token]
    BY <1>1, <1>2, <1>4, <1>5, <2>2 DEF FilesHold, AtWork
  <2>3. ASSUME mishap # "sync", NEW q \in Process, process'[q].at = "acknowledged"
        PROVE  /\ receipts[process'[q].token] # None
               /\ process'[q].item \in receipts[process'[q].token]
    BY <1>4, <1>6, <2>3 DEF FilesHold
  <2> QED
    BY <1>1, <2>1, <2>2, <2>3 DEF FilesHold, Named
<1>10. OneAnswerEach'
  <2> SUFFICES ASSUME ~contested PROVE OneAnswerEach'
    BY <1>1 DEF OneAnswerEach
  <2>1. ASSUME NEW q \in Process, AtWork(q)'
        PROVE  /\ AtWork(q) /\ process'[q].token = process[q].token
               /\ process'[q].item = process[q].item
    BY <1>1, <1>2, <1>4, <1>5, <2>1 DEF AtWork
  <2> QED
    BY <1>1, <2>1 DEF OneAnswerEach
<1>11. EmptyIsInTheMaking'
  <2> SUFFICES ASSUME mishap = "none", NEW k \in Token, receipts[k] = {}
               PROVE  \E q \in Process : process'[q].at = "directory" /\ process'[q].token = k
    BY <1>1 DEF EmptyIsInTheMaking
  <2>1. PICK q \in Process : process[q].at = "directory" /\ process[q].token = k
    BY DEF EmptyIsInTheMaking
  <2>2. q # p
    BY <1>1, <1>2, <2>1 DEF Refuse, Sync, Return, EntriesAreOffered
  <2> QED
    BY <1>4, <2>1, <2>2
<1>12. HeldStays
  <2> SUFFICES ASSUME NEW t0 \in Token, NEW r0 \in Offered(t0), Held(t0, r0)
               PROVE  Held(t0, r0)'
    BY DEF HeldStays
  <2>1. CASE Named(t0, r0)
    BY <1>1, <2>1 DEF Held, Named
  <2>2. CASE ~Named(t0, r0)
    <3>1. ASSUME NEW q \in Process, AtWork(q)'
          PROVE  /\ AtWork(q) /\ process'[q].token = process[q].token
                 /\ process'[q].item = process[q].item
      BY <1>1, <1>2, <1>4, <1>5, <3>1 DEF AtWork
    <3> QED
      BY <1>1, <2>2, <3>1 DEF Held
  <2> QED
    BY <2>1, <2>2
<1> QED
  BY <1>7, <1>8, <1>9, <1>10, <1>11, <1>12

LEMMA MakeReceiptsStep ==
  ASSUME ConstantsAssumption, FilesInv, NEW p \in Process, MakeReceipts(p)
  PROVE  FilesInv' /\ HeldStays
<1> USE DEF FilesInv
<1>1. PICK t \in Token, r \in Answer :
        t = process[p].token /\ r = process[p].item /\ r \in Offered(t)
  BY ProcessFields DEF MakeReceipts, EntriesAreOffered, AtWork, Stages
<1>2. /\ r \in Answer /\ "directory" \in Stages /\ Working("directory", t, r).at = "directory"
      /\ Working("directory", t, r).token = t /\ Working("directory", t, r).item = r
  BY DEF Stages, Working
<1>3. /\ process[p].at = "answered" /\ AtWork(p)
      /\ process'[p] = Working("directory", t, r)
      /\ \A q \in Process : q # p => process'[q] = process[q]
      /\ receipts' = [receipts EXCEPT ![t] = IF @ = None THEN {} ELSE @]
      /\ UNCHANGED <<responses, said, published, contested, mishap>>
  BY <1>1, BecomeMoves DEF MakeReceipts, AtWork, Stages
<1>4. {} # None
  BY DEF ConstantsAssumption
<1>5. /\ receipts[t] = None => receipts'[t] = {}
      /\ receipts[t] # None => receipts'[t] = receipts[t]
      /\ receipts'[t] # None
      /\ \A k \in Token : k # t => receipts'[k] = receipts[k]
  BY <1>3, <1>4 DEF TypeOK
<1>6. TypeOK'
  <2>1. process' \in [Process -> {Idle} \cup [at : Stages, token : Token, item : Answer]
                                \cup [at : {"publishing"}, status : Decided]]
    BY <1>1, <1>2, WorkingType, BecomeType DEF MakeReceipts
  <2>2. receipts' \in [Token -> (SUBSET Entry) \cup {None}]
    BY <1>3 DEF TypeOK
  <2> QED
    BY <1>3, <2>1, <2>2 DEF TypeOK
<1>7. EntriesAreOffered'
  <2>1. ASSUME NEW q \in Process, AtWork(q)'
        PROVE  process'[q].item \in Offered(process'[q].token)
    BY <1>1, <1>2, <1>3, <2>1 DEF EntriesAreOffered, AtWork
  <2>2. ASSUME NEW k \in Token, receipts'[k] # None
        PROVE  receipts'[k] = {} \/ receipts'[k] = receipts[k]
    BY <1>5
  <2> QED
    BY <1>3, <2>1, <2>2 DEF EntriesAreOffered
<1>8. ASSUME NEW k \in Token, NEW x PROVE Named(k, x)' <=> Named(k, x)
  BY <1>5 DEF Named
<1>9. FilesHold'
  <2>1. ASSUME NEW q \in Process, process'[q].at = "directory"
        PROVE  receipts'[process'[q].token] # None
    BY <1>2, <1>3, <1>5, <2>1, ProcessFields DEF FilesHold, AtWork, Stages
  <2>2. ASSUME mishap # "sync", NEW q \in Process, AtWork(q)', process'[q].at # "listed"
        PROVE  process'[q].item \in responses[process'[q].token]
    BY <1>1, <1>2, <1>3, <2>2 DEF FilesHold, AtWork
  <2>3. ASSUME mishap # "sync", NEW q \in Process, process'[q].at = "acknowledged"
        PROVE  /\ receipts'[process'[q].token] # None
               /\ process'[q].item \in receipts'[process'[q].token]
    BY <1>2, <1>3, <1>5, <2>3, ProcessFields DEF FilesHold, AtWork, Stages
  <2> QED
    BY <1>3, <1>8, <2>1, <2>2, <2>3 DEF FilesHold
<1>10. OneAnswerEach'
  <2>1. ASSUME NEW q \in Process, AtWork(q)'
        PROVE  /\ AtWork(q) /\ process'[q].token = process[q].token
               /\ process'[q].item = process[q].item
    BY <1>1, <1>2, <1>3, <2>1 DEF AtWork
  <2> QED
    BY <1>3, <2>1 DEF OneAnswerEach
<1>11. EmptyIsInTheMaking'
  <2> SUFFICES ASSUME mishap = "none", NEW k \in Token, receipts'[k] = {}
               PROVE  \E q \in Process : process'[q].at = "directory" /\ process'[q].token = k
    BY <1>3 DEF EmptyIsInTheMaking
  <2> QED
    BY <1>2, <1>3, <1>5 DEF EmptyIsInTheMaking
<1>12. HeldStays
  <2> SUFFICES ASSUME NEW t0 \in Token, NEW r0 \in Offered(t0), Held(t0, r0)
               PROVE  Held(t0, r0)'
    BY DEF HeldStays
  <2>1. CASE Named(t0, r0)
    BY <1>8, <2>1 DEF Held
  <2>2. CASE ~Named(t0, r0)
    <3>1. ASSUME NEW q \in Process, AtWork(q)'
          PROVE  /\ AtWork(q) /\ process'[q].token = process[q].token
                 /\ process'[q].item = process[q].item
      BY <1>1, <1>2, <1>3, <3>1 DEF AtWork
    <3>2. receipts'[t0] = {}
      BY <1>4, <1>5, <2>2 DEF Held
    <3> QED
      BY <1>3, <2>2, <3>1, <3>2 DEF Held
  <2> QED
    BY <2>1, <2>2
<1> QED
  BY <1>6, <1>7, <1>9, <1>10, <1>11, <1>12
LEMMA PutReceiptStep ==
  ASSUME ConstantsAssumption, FilesInv, NEW p \in Process, PutReceipt(p)
  PROVE  FilesInv' /\ HeldStays
<1> USE DEF FilesInv
<1>1. PICK t \in Token, r \in Answer :
        t = process[p].token /\ r = process[p].item /\ r \in Offered(t)
  BY ProcessFields DEF PutReceipt, EntriesAreOffered, AtWork, Stages
<1>2. PICK s \in {Idle, Working("acknowledged", t, r)} : Become(p, s)
  BY <1>1 DEF PutReceipt
<1>3. /\ process[p].at = "directory" /\ AtWork(p)
      /\ process'[p] = s
      /\ \A q \in Process : q # p => process'[q] = process[q]
      /\ receipts' = [receipts EXCEPT ![t] = @ \cup {r}]
      /\ UNCHANGED <<responses, said, published, contested, mishap>>
  BY <1>1, <1>2, BecomeMoves DEF PutReceipt, AtWork, Stages
<1>4. process'[p].at \in {"idle", "acknowledged"}
  BY <1>3 DEF Idle, Working
<1>5. ASSUME NEW q \in Process, AtWork(q)'
      PROVE  /\ AtWork(q) /\ process'[q].token = process[q].token
             /\ process'[q].item = process[q].item
             /\ q = p => process'[q].at = "acknowledged"
             /\ q # p => process'[q].at = process[q].at
  BY <1>1, <1>3, <1>5 DEF AtWork, Idle, Stages, Working
<1>6. receipts[t] # None /\ receipts[t] \in SUBSET Entry
  <2>1. receipts[t] # None
    BY <1>1, <1>3 DEF FilesHold
  <2> QED
    BY <2>1, DirectoryType
<1>7. receipts[t] \cup {r} \in SUBSET Entry
  BY <1>6 DEF Entry
<1>8. /\ receipts'[t] = receipts[t] \cup {r} /\ receipts'[t] # None
      /\ \A k \in Token : k # t => receipts'[k] = receipts[k]
  BY <1>3, <1>7 DEF TypeOK, ConstantsAssumption
<1>9. TypeOK'
  <2>1. s \in {Idle} \cup [at : Stages, token : Token, item : Answer]
    BY WorkingType DEF Stages
  <2>2. process' \in [Process -> {Idle} \cup [at : Stages, token : Token, item : Answer]
                                \cup [at : {"publishing"}, status : Decided]]
    BY <1>2, <2>1, BecomeType
  <2>3. receipts' \in [Token -> (SUBSET Entry) \cup {None}]
    BY <1>3, <1>7 DEF TypeOK
  <2> QED
    BY <1>3, <2>2, <2>3 DEF TypeOK
<1>10. EntriesAreOffered'
  <2>1. ASSUME NEW q \in Process, AtWork(q)'
        PROVE  process'[q].item \in Offered(process'[q].token)
    BY <1>5, <2>1 DEF EntriesAreOffered
  <2>2. ASSUME NEW k \in Token, receipts'[k] # None
        PROVE  /\ receipts'[k] \subseteq Offered(k) \cup {Copy(x) : x \in Offered(k)} \cup {Litter}
               /\ mishap # "crash" => receipts'[k] \subseteq Offered(k)
    BY <1>1, <1>6, <1>8, <2>2 DEF EntriesAreOffered
  <2> QED
    BY <1>3, <2>1, <2>2 DEF EntriesAreOffered
<1>11. FilesHold'
  <2>1. ASSUME NEW q \in Process, process'[q].at = "directory"
        PROVE  receipts'[process'[q].token] # None
    BY <1>3, <1>4, <1>8, <2>1, ProcessFields DEF FilesHold, AtWork, Stages
  <2>2. ASSUME mishap # "sync", NEW k \in Token, NEW x \in Offered(k), Named(k, x)'
        PROVE  x \in responses[k]
    <3>1. CASE Named(k, x)
      BY <2>2, <3>1 DEF FilesHold
    <3>2. CASE ~Named(k, x)
      <4>1. k = t /\ r \in {x, Copy(x)}
        BY <1>8, <1>6, <2>2, <3>2 DEF Named
      <4>2. r = x
        BY <4>1, OfferedIsAnswer DEF ConstantsAssumption
      <4> QED
        BY <1>1, <1>3, <2>2, <4>1, <4>2 DEF FilesHold
    <3> QED
      BY <3>1, <3>2
  <2>3. ASSUME mishap # "sync", NEW q \in Process, AtWork(q)', process'[q].at # "listed"
        PROVE  process'[q].item \in responses[process'[q].token]
    BY <1>3, <1>5, <2>3 DEF FilesHold
  <2>4. ASSUME mishap # "sync", NEW q \in Process, process'[q].at = "acknowledged"
        PROVE  /\ receipts'[process'[q].token] # None
               /\ process'[q].item \in receipts'[process'[q].token]
    <3>1. AtWork(q)'
      BY <2>4 DEF AtWork, Stages
    <3> QED
      BY <1>1, <1>5, <1>8, <2>4, <3>1, ProcessFields DEF FilesHold
  <2> QED
    BY <1>3, <2>1, <2>2, <2>3, <2>4 DEF FilesHold
<1>12. OneAnswerEach'
  BY <1>3, <1>5 DEF OneAnswerEach
<1>13. EmptyIsInTheMaking'
  <2> SUFFICES ASSUME mishap = "none", NEW k \in Token, receipts'[k] = {}
               PROVE  \E q \in Process : process'[q].at = "directory" /\ process'[q].token = k
    BY <1>3 DEF EmptyIsInTheMaking
  <2> QED
    BY <1>1, <1>3, <1>8 DEF EmptyIsInTheMaking
<1>14. HeldStays
  <2> SUFFICES ASSUME NEW t0 \in Token, NEW r0 \in Offered(t0), Held(t0, r0)
               PROVE  Held(t0, r0)'
    BY DEF HeldStays
  <2>1. CASE Named(t0, r0)
    BY <1>6, <1>8, <2>1 DEF Held, Named
  <2>2. CASE ~Named(t0, r0) /\ t0 = t
    <3>1. r = r0
      BY <1>1, <1>3, <2>2 DEF Held
    <3> QED
      BY <1>8, <2>2, <3>1 DEF Held, Named
  <2>3. CASE ~Named(t0, r0) /\ t0 # t
    BY <1>3, <1>5, <1>8, <2>3 DEF Held
  <2> QED
    BY <2>1, <2>2, <2>3
<1> QED
  BY <1>9, <1>10, <1>11, <1>12, <1>13, <1>14

(* A crash leaves what it leaves, and takes nothing away. *)
LEMMA CrashStep ==
  ASSUME ConstantsAssumption, FilesInv, NEW p \in Process, Crash(p)
  PROVE  FilesInv' /\ HeldStays
<1> USE DEF FilesInv
<1>1. PICK t \in Token, r \in Answer :
        t = process[p].token /\ r = process[p].item /\ r \in Offered(t)
  BY ProcessFields DEF Crash, EntriesAreOffered, AtWork
<1>2. /\ AtWork(p) /\ mishap = "none" /\ mishap' = "crash"
      /\ process'[p] = Idle /\ ~AtWork(p)' /\ Become(p, Idle)
      /\ \A q \in Process : q # p => process'[q] = process[q]
      /\ UNCHANGED <<said, published, contested>>
  BY BecomeMoves DEF Crash, AtWork, Idle, Stages
<1>3. PICK left \in {{}, {Litter}} : responses' = [responses EXCEPT ![t] = @ \cup left]
  <2>1. CASE UNCHANGED responses
    BY <2>1 DEF TypeOK
  <2> QED
    BY <1>1, <2>1 DEF Crash
<1>4. PICK rest \in {{}, {Litter}, {Copy(r)}} :
        \/ rest = {} /\ UNCHANGED receipts
        \/ process[p].at = "directory" /\ receipts' = [receipts EXCEPT ![t] = @ \cup rest]
  BY <1>1 DEF Crash
<1>5. \A k \in Token : /\ responses[k] \subseteq responses'[k]
                       /\ responses'[k] \subseteq responses[k] \cup {Litter}
  BY <1>3 DEF TypeOK
<1>6. ASSUME NEW k \in Token
      PROVE  /\ receipts[k] = None => receipts'[k] = None
             /\ receipts[k] # None =>
                  /\ receipts'[k] # None
                  /\ receipts[k] \subseteq receipts'[k]
                  /\ k # t => receipts'[k] = receipts[k]
                  /\ k = t => receipts'[k] \subseteq receipts[k] \cup {Litter, Copy(r)}
                  /\ k = t /\ receipts'[k] # receipts[k] => process[p].at = "directory"
             /\ receipts'[k] \in (SUBSET Entry) \cup {None}
  <2>1. CASE UNCHANGED receipts
    BY <2>1 DEF TypeOK
  <2>2. CASE process[p].at = "directory" /\ receipts' = [receipts EXCEPT ![t] = @ \cup rest]
    <3>1. receipts[t] # None /\ receipts[t] \in SUBSET Entry
      <4>1. receipts[t] # None
        BY <1>1, <2>2 DEF FilesHold
      <4> QED
        BY <4>1, DirectoryType
    <3>2. receipts[t] \cup rest \in SUBSET Entry
      BY <3>1, <1>4 DEF Entry
    <3>3. receipts'[t] = receipts[t] \cup rest /\ (k # t => receipts'[k] = receipts[k])
      BY <2>2 DEF TypeOK
    <3>4. receipts'[t] # None
      BY <3>2, <3>3 DEF ConstantsAssumption
    <3> QED
      BY <1>4, <2>2, <3>1, <3>2, <3>3, <3>4 DEF TypeOK
  <2> QED
    BY <1>4, <2>1, <2>2
<1>7. TypeOK'
  <2>1. process' \in [Process -> {Idle} \cup [at : Stages, token : Token, item : Answer]
                                \cup [at : {"publishing"}, status : Decided]]
    BY <1>2, BecomeType
  <2>2. responses' \in [Token -> SUBSET (Answer \cup {Litter})]
    BY <1>3 DEF TypeOK
  <2>3. receipts' \in [Token -> (SUBSET Entry) \cup {None}]
    BY <1>4, <1>6 DEF TypeOK
  <2> QED
    BY <1>2, <2>1, <2>2, <2>3 DEF TypeOK
<1>8. EntriesAreOffered'
  <2>1. ASSUME NEW k \in Token, receipts'[k] # None
        PROVE  receipts'[k] \subseteq Offered(k) \cup {Copy(x) : x \in Offered(k)} \cup {Litter}
    BY <1>1, <1>6, <2>1 DEF EntriesAreOffered
  <2>2. ASSUME NEW k \in Token
        PROVE  responses'[k] \subseteq Offered(k) \cup {Litter}
    BY <1>5 DEF EntriesAreOffered
  <2>3. ASSUME NEW q \in Process, AtWork(q)'
        PROVE  process'[q].item \in Offered(process'[q].token)
    BY <1>2, <2>3 DEF EntriesAreOffered, AtWork
  <2> QED
    BY <1>2, <2>1, <2>2, <2>3 DEF EntriesAreOffered
<1>9. FilesHold'
  <2>1. ASSUME NEW q \in Process, process'[q].at = "directory"
        PROVE  receipts'[process'[q].token] # None
    BY <1>2, <1>6, <2>1, ProcessFields DEF FilesHold, AtWork, Stages, Idle
  <2>2. ASSUME NEW k \in Token, NEW x \in Offered(k), Named(k, x)'
        PROVE  x \in responses'[k]
    <3>1. CASE Named(k, x)
      BY <1>2, <1>5, <3>1 DEF FilesHold
    <3>2. CASE ~Named(k, x)
      <4>1. /\ k = t /\ process[p].at = "directory"
            /\ {Litter, Copy(r)} \cap {x, Copy(x)} # {}
        BY <1>6, <2>2, <3>2 DEF Named
      <4>2. x \in Answer
        BY OfferedIsAnswer
      <4>3. Copy(r) = Copy(x)
        BY <4>1, <4>2 DEF ConstantsAssumption
      <4>4. r = x
        BY <4>3 DEF Copy
      <4> QED
        <5>1. r \in responses[t]
          BY <1>1, <1>2, <4>1 DEF FilesHold
        <5> QED
          BY <1>5, <4>1, <4>4, <5>1
    <3> QED
      BY <3>1, <3>2
  <2>3. ASSUME NEW q \in Process, AtWork(q)', process'[q].at # "listed"
        PROVE  process'[q].item \in responses'[process'[q].token]
    BY <1>2, <1>5, <2>3, ProcessFields DEF FilesHold, AtWork
  <2>4. ASSUME NEW q \in Process, process'[q].at = "acknowledged"
        PROVE  /\ receipts'[process'[q].token] # None
               /\ process'[q].item \in receipts'[process'[q].token]
    BY <1>2, <1>6, <2>4, ProcessFields DEF FilesHold, AtWork, Stages, Idle
  <2> QED
    BY <2>1, <2>2, <2>3, <2>4 DEF FilesHold
<1>10. OneAnswerEach'
  BY <1>2 DEF OneAnswerEach, AtWork
<1>11. EmptyIsInTheMaking'
  BY <1>2 DEF EmptyIsInTheMaking
<1>12. HeldStays
  BY <1>2, <1>6 DEF HeldStays, Held, Named
<1> QED
  BY <1>7, <1>8, <1>9, <1>10, <1>11, <1>12

(* A failed sync takes one file away.  Unless two answers race, what was read   *)
(* of it can only be put again.                                                *)
LEMMA SyncFailsStep ==
  ASSUME ConstantsAssumption, FilesInv, NEW p \in Process, SyncFails(p)
  PROVE  FilesInv' /\ HeldStays
<1> USE DEF FilesInv
<1>1. AtWork(p) /\ process[p].at \in {"linked", "acknowledged"}
  BY DEF SyncFails, AtWork, Stages
<1>2. PICK t \in Token, r \in Answer :
        t = process[p].token /\ r = process[p].item /\ r \in Offered(t)
  BY <1>1, ProcessFields DEF EntriesAreOffered
<1>3. /\ mishap = "none" /\ mishap' = "sync"
      /\ process'[p] = Idle /\ ~AtWork(p)' /\ Become(p, Idle)
      /\ \A q \in Process : q # p => process'[q] = process[q]
      /\ UNCHANGED <<said, published, contested>>
  BY BecomeMoves DEF SyncFails, AtWork, Idle, Stages
<1>4. \/ /\ process[p].at = "linked"
         /\ responses' = [responses EXCEPT ![t] = @ \ {r}]
         /\ UNCHANGED receipts
      \/ /\ process[p].at = "acknowledged"
         /\ receipts' = [receipts EXCEPT ![t] = @ \ {r}]
         /\ UNCHANGED responses
  BY <1>2 DEF SyncFails
<1>5. \A k \in Token : responses'[k] \subseteq responses[k]
  BY <1>4 DEF TypeOK
<1>6. ASSUME NEW k \in Token
      PROVE  /\ receipts[k] = None => receipts'[k] = None
             /\ receipts[k] # None => receipts'[k] # None /\ receipts'[k] \subseteq receipts[k]
             /\ receipts'[k] # receipts[k] =>
                  /\ k = t /\ process[p].at = "acknowledged"
                  /\ receipts'[k] = receipts[k] \ {r} /\ UNCHANGED responses
             /\ receipts'[k] \in (SUBSET Entry) \cup {None}
  <2>1. CASE UNCHANGED receipts
    BY <2>1 DEF TypeOK
  <2>2. CASE /\ process[p].at = "acknowledged" /\ UNCHANGED responses
             /\ receipts' = [receipts EXCEPT ![t] = @ \ {r}]
    <3>1. receipts[t] # None /\ receipts[t] \in SUBSET Entry
      <4>1. receipts[t] # None
        BY <1>2, <1>3, <2>2 DEF FilesHold
      <4> QED
        BY <4>1, DirectoryType
    <3>2. receipts'[t] = receipts[t] \ {r} /\ (k # t => receipts'[k] = receipts[k])
      BY <2>2 DEF TypeOK
    <3>3. receipts'[t] \in SUBSET Entry /\ receipts'[t] # None
      BY <3>1, <3>2 DEF ConstantsAssumption
    <3> QED
      BY <2>2, <3>1, <3>2, <3>3 DEF TypeOK
  <2> QED
    BY <1>4, <2>1, <2>2
<1>7. TypeOK'
  <2>1. process' \in [Process -> {Idle} \cup [at : Stages, token : Token, item : Answer]
                                \cup [at : {"publishing"}, status : Decided]]
    BY <1>3, BecomeType
  <2>2. responses' \in [Token -> SUBSET (Answer \cup {Litter})]
    BY <1>4 DEF TypeOK
  <2>3. receipts' \in [Token -> (SUBSET Entry) \cup {None}]
    BY <1>4, <1>6 DEF TypeOK
  <2> QED
    BY <1>3, <2>1, <2>2, <2>3 DEF TypeOK
<1>8. EntriesAreOffered'
  <2>1. ASSUME NEW k \in Token
        PROVE  /\ responses'[k] \subseteq Offered(k)
               /\ receipts'[k] # None => receipts'[k] \subseteq Offered(k)
    BY <1>3, <1>5, <1>6 DEF EntriesAreOffered
  <2>2. ASSUME NEW q \in Process, AtWork(q)'
        PROVE  process'[q].item \in Offered(process'[q].token)
    BY <1>3, <2>2 DEF EntriesAreOffered, AtWork
  <2> QED
    BY <2>1, <2>2 DEF EntriesAreOffered
<1>9. FilesHold'
  <2>1. ASSUME NEW q \in Process, process'[q].at = "directory"
        PROVE  receipts'[process'[q].token] # None
    BY <1>3, <1>6, <2>1, ProcessFields DEF FilesHold, AtWork, Stages, Idle
  <2> QED
    BY <1>3, <2>1 DEF FilesHold
<1>10. OneAnswerEach'
  <2>1. ASSUME NEW q \in Process, AtWork(q)'
        PROVE  AtWork(q) /\ process'[q] = process[q]
    BY <1>3, <2>1 DEF AtWork
  <2>2. ASSUME ~contested, NEW q \in Process, AtWork(q)'
        PROVE  responses'[process'[q].token] \subseteq {process'[q].item}
    BY <1>3, <1>5, <2>1, <2>2, ProcessFields DEF OneAnswerEach
  <2> QED
    BY <1>3, <2>1, <2>2 DEF OneAnswerEach
<1>11. EmptyIsInTheMaking'
  BY <1>3 DEF EmptyIsInTheMaking
<1>12. HeldStays
  <2> SUFFICES ASSUME ~contested, NEW t0 \in Token, NEW r0 \in Offered(t0), Held(t0, r0)
               PROVE  Held(t0, r0)'
    BY <1>3 DEF HeldStays, RaceOnFailingDisk
  <2>1. Named(t0, r0)
    BY <1>3 DEF Held
  <2>2. CASE receipts'[t0] = receipts[t0]
    BY <2>1, <2>2 DEF Held, Named
  <2>3. CASE receipts'[t0] # receipts[t0]
    <3>1. t0 = t /\ process[p].at = "acknowledged" /\ receipts'[t] = receipts[t] \ {r}
          /\ UNCHANGED responses
      BY <1>6, <2>3
    <3>2. r0 \in responses[t] /\ responses[t] \subseteq {r}
      BY <1>1, <1>2, <1>3, <2>1, <3>1 DEF FilesHold, OneAnswerEach
    <3>3. r0 = r /\ responses[t] = {r}
      BY <3>2
    <3>4. receipts'[t] = {}
      <4>1. receipts[t] # None /\ receipts[t] \subseteq Offered(t)
        BY <1>3, <2>1, <3>1 DEF Named, EntriesAreOffered
      <4>2. ASSUME NEW x \in receipts[t] PROVE x = r
        <5>1. x \in Offered(t) /\ Named(t, x)
          BY <4>1 DEF Named
        <5> QED
          BY <1>3, <3>3, <5>1 DEF FilesHold
      <4> QED
        BY <3>1, <4>1, <4>2
    <3>5. ASSUME NEW q \in Process, AtWork(q)', process'[q].token = t
          PROVE  process'[q].item = r
      BY <1>1, <1>2, <1>3, <3>5 DEF OneAnswerEach, AtWork
    <3> QED
      BY <1>3, <3>1, <3>3, <3>4, <3>5 DEF Held
  <2> QED
    BY <2>2, <2>3
<1> QED
  BY <1>7, <1>8, <1>9, <1>10, <1>11, <1>12
-----------------------------------------------------------------------------
(* The readers. *)

(* A receipt that was read once is what any later reader reads. *)
LEMMA ReadersAgree ==
  ASSUME ConstantsAssumption, NEW t \in Token, NEW r \in Offered(t), Held(t, r), ~Broken(t)
  PROVE  receipts[t] # None /\ Receipt(t) = r
<1>1. receipts[t] # None
  BY DEF Held, Named, ConstantsAssumption
<1>2. PICK x \in Offered(t) : receipts[t] \in {{x}, {Copy(x)}}
  BY <1>1 DEF Broken
<1>3. ASSUME NEW y \in Offered(t), receipts[t] \cap {y, Copy(y)} # {}
      PROVE  y = x
  <2>1. x \in Answer /\ y \in Answer
    BY OfferedIsAnswer
  <2>2. x = y \/ Copy(x) = Copy(y)
    BY <1>2, <1>3, <2>1 DEF ConstantsAssumption
  <2> QED
    BY <2>2 DEF Copy
<1>4. receipts[t] \cap {x, Copy(x)} # {}
  BY <1>2
<1>5. Receipt(t) = x
  BY <1>1, <1>3, <1>4 DEF Receipt
<1>6. r = x
  BY <1>2, <1>3 DEF Held, Named
<1> QED
  BY <1>1, <1>5, <1>6

(* What a reader reads is held from then on. *)
LEMMA ReceiptIsHeld ==
  ASSUME ConstantsAssumption, NEW t \in Token, ~Broken(t), receipts[t] # None
  PROVE  Receipt(t) \in Offered(t) /\ Held(t, Receipt(t)) /\ Receipt(t) # None
<1>1. PICK x \in Offered(t) : receipts[t] \in {{x}, {Copy(x)}}
  BY DEF Broken
<1>2. receipts[t] \cap {x, Copy(x)} # {}
  BY <1>1
<1>3. Receipt(t) \in Offered(t) /\ receipts[t] \cap {Receipt(t), Copy(Receipt(t))} # {}
  BY <1>2 DEF Receipt
<1> QED
  BY <1>3, OfferedIsAnswer DEF Held, Named, ConstantsAssumption

LEMMA TokensAreTokens ==
  /\ PassA \in Token /\ PassB \in Token
  /\ \A a \in ResponseA, b \in ResponseB : <<a, b>> \in Token /\ <<a, b>> \in Pair
BY DEF Token, Pair

(* A status that is computed is held, field by field. *)
LEMMA StatusIsHeld ==
  ASSUME ConstantsAssumption, TypeOK, ~StatusRaises
  PROVE  Status \in Reported /\ ReportIsHeld(Status)
<1>1. ~Broken(PassA) /\ ~Broken(PassB) /\ (BothIngested => ~Broken(Current))
  BY DEF StatusRaises
<1>2. Receipt(PassA) # None =>
        Receipt(PassA) \in ResponseA /\ Held(PassA, Receipt(PassA))
  BY <1>1, ReceiptIsHeld, TokensAreTokens, OfferedIsAnswer DEF Receipt
<1>3. Receipt(PassB) # None =>
        Receipt(PassB) \in ResponseB /\ Held(PassB, Receipt(PassB))
  BY <1>1, ReceiptIsHeld, TokensAreTokens, OfferedIsAnswer DEF Receipt
<1>4. BothIngested /\ Receipt(Current) # None =>
        Receipt(Current) \in Decision /\ Held(Current, Receipt(Current))
  <2>1. BothIngested => Current \in Token /\ Current \in Pair
    BY <1>2, <1>3, TokensAreTokens DEF BothIngested, Current
  <2>2. Receipt(Current) # None => receipts[Current] # None
    BY DEF Receipt
  <2> QED
    BY <1>1, <2>1, <2>2, ReceiptIsHeld, OfferedIsAnswer
<1> QED
  BY <1>2, <1>3, <1>4 DEF Status, Report, Reported, ReportIsHeld, BothIngested, Current

(* A status that is computed later says of every field what was said before. *)
LEMMA StatusAgrees ==
  ASSUME ConstantsAssumption, NEW s \in Reported, ReportIsHeld(s), ~StatusRaises
  PROVE  /\ s.a # None => Status.a = s.a
         /\ s.b # None => Status.b = s.b
         /\ s.decision # None => Status.decision = s.decision
<1>1. ~Broken(PassA) /\ ~Broken(PassB) /\ (BothIngested => ~Broken(Current))
  BY DEF StatusRaises
<1>2. s.a # None => s.a \in ResponseA /\ Receipt(PassA) = s.a
  BY <1>1, ReadersAgree, TokensAreTokens, OfferedIsAnswer DEF ReportIsHeld, Reported
<1>3. s.b # None => s.b \in ResponseB /\ Receipt(PassB) = s.b
  BY <1>1, ReadersAgree, TokensAreTokens, OfferedIsAnswer DEF ReportIsHeld, Reported
<1>4. s.decision # None => BothIngested /\ Receipt(Current) = s.decision
  <2> SUFFICES ASSUME s.decision # None PROVE BothIngested /\ Receipt(Current) = s.decision
    OBVIOUS
  <2>1. s.a # None /\ s.b # None /\ Held(<<s.a, s.b>>, s.decision) /\ s.decision \in Decision
    BY DEF ReportIsHeld, Reported
  <2>2. BothIngested /\ Current = <<s.a, s.b>>
    BY <1>2, <1>3, <2>1 DEF BothIngested, Current
  <2>3. Current \in Token /\ Current \in Pair
    BY <1>2, <1>3, <2>1, <2>2, TokensAreTokens
  <2> QED
    BY <1>1, <2>1, <2>2, <2>3, ReadersAgree, OfferedIsAnswer
<1> QED
  BY <1>2, <1>3, <1>4 DEF Status, Report

(* What is held stays held in a step that keeps what was read. *)
LEMMA ReportStaysHeld ==
  ASSUME HeldStays, ~RaceOnFailingDisk', NEW s \in Reported, ReportIsHeld(s)
  PROVE  ReportIsHeld(s)'
<1>1. s.a # None => s.a \in Offered(PassA) /\ PassA \in Token
  BY OfferedIsAnswer, TokensAreTokens DEF Reported
<1>2. s.b # None => s.b \in Offered(PassB) /\ PassB \in Token
  BY OfferedIsAnswer, TokensAreTokens DEF Reported
<1>3. s.decision # None =>
        s.decision \in Offered(<<s.a, s.b>>) /\ <<s.a, s.b>> \in Token
  BY OfferedIsAnswer, TokensAreTokens DEF Reported, ReportIsHeld
<1>4. s.a # None => Held(PassA, s.a)'
  BY <1>1 DEF ReportIsHeld, HeldStays
<1>5. s.b # None => Held(PassB, s.b)'
  BY <1>2 DEF ReportIsHeld, HeldStays
<1>6. s.decision # None => s.a # None /\ s.b # None /\ Held(<<s.a, s.b>>, s.decision)'
  BY <1>3 DEF ReportIsHeld, HeldStays
<1> QED
  BY <1>4, <1>5, <1>6 DEF ReportIsHeld
(* Readers touch no file and no command that is at work. *)
LEMMA ReaderStep ==
  ASSUME ConstantsAssumption, FilesInv,
         \/ PrintStatus
         \/ \E p \in Process : StartPublish(p) \/ Publish(p)
         \/ UNCHANGED vars
  PROVE  FilesInv' /\ HeldStays
<1> USE DEF FilesInv
<1>1. UNCHANGED <<responses, receipts, contested, mishap>>
  BY DEF PrintStatus, StartPublish, Publish, vars, queue
<1>2. ASSUME NEW q \in Process
      PROVE  /\ AtWork(q)' <=> AtWork(q)
             /\ AtWork(q) => process'[q] = process[q]
             /\ process'[q].at = "directory" => process'[q] = process[q]
  <2>1. CASE process' = process
    BY <2>1 DEF AtWork
  <2>2. ASSUME NEW p \in Process, StartPublish(p)
        PROVE  /\ AtWork(q)' <=> AtWork(q)
               /\ AtWork(q) => process'[q] = process[q]
               /\ process'[q].at = "directory" => process'[q] = process[q]
    BY <2>2, BecomeMoves DEF StartPublish, AtWork, Idle, Stages
  <2>3. ASSUME NEW p \in Process, Publish(p)
        PROVE  /\ AtWork(q)' <=> AtWork(q)
               /\ AtWork(q) => process'[q] = process[q]
               /\ process'[q].at = "directory" => process'[q] = process[q]
    BY <2>3, BecomeMoves DEF Publish, AtWork, Idle, Stages
  <2> QED
    BY <2>1, <2>2, <2>3 DEF PrintStatus, vars, queue
<1>3. TypeOK'
  <2>1. CASE PrintStatus
    BY <2>1, StatusIsHeld DEF PrintStatus, TypeOK
  <2>2. ASSUME NEW p \in Process, StartPublish(p) PROVE TypeOK'
    <3>1. [at |-> "publishing", status |-> Status] \in [at : {"publishing"}, status : Decided]
      BY <2>2, StatusIsHeld DEF StartPublish, Reported, Decided, ReportIsHeld
    <3>2. process' \in [Process -> {Idle} \cup [at : Stages, token : Token, item : Answer]
                                  \cup [at : {"publishing"}, status : Decided]]
      BY <2>2, <3>1, BecomeType DEF StartPublish
    <3> QED
      BY <2>2, <3>2 DEF StartPublish, TypeOK
  <2>3. ASSUME NEW p \in Process, Publish(p) PROVE TypeOK'
    <3> DEFINE st == process[p].status
               tk == <<st.a, st.b>>
    <3>1. process' \in [Process -> {Idle} \cup [at : Stages, token : Token, item : Answer]
                                  \cup [at : {"publishing"}, status : Decided]]
      BY <2>3, BecomeType DEF Publish
    <3>2. st \in Decided /\ tk \in Pair /\ tk \in Token
      BY <2>3, ProcessFields, TokensAreTokens DEF Publish, Decided
    <3>3. CASE ~Broken(PassA) /\ ~Broken(PassB) /\ ~Broken(tk)
      <4>1. Receipt(PassA) \in ResponseA \cup {None}
        BY <3>3, ReceiptIsHeld, TokensAreTokens, OfferedIsAnswer DEF Receipt
      <4>2. Receipt(PassB) \in ResponseB \cup {None}
        BY <3>3, ReceiptIsHeld, TokensAreTokens, OfferedIsAnswer DEF Receipt
      <4>3. Receipt(tk) \in Decision \cup {None}
        BY <3>2, <3>3, ReceiptIsHeld, OfferedIsAnswer DEF Receipt
      <4>4. Report(Receipt(PassA), Receipt(PassB), Receipt(tk)) \in Reported
        BY <4>1, <4>2, <4>3 DEF Report, Reported
      <4> QED
        BY <2>3, <3>1, <3>2, <4>4 DEF Publish, TypeOK
    <3>4. CASE Broken(PassA) \/ Broken(PassB) \/ Broken(tk)
      BY <2>3, <3>1, <3>4 DEF Publish, TypeOK
    <3> QED
      BY <3>3, <3>4
  <2>4. CASE UNCHANGED vars
    BY <2>4 DEF vars, queue, TypeOK
  <2> QED
    BY <2>1, <2>2, <2>3, <2>4
<1>4. EntriesAreOffered'
  BY <1>1, <1>2 DEF EntriesAreOffered
<1>5. FilesHold'
  <2>1. ASSUME NEW q \in Process, AtWork(q)' PROVE process'[q] = process[q] /\ AtWork(q)
    BY <1>2, <2>1
  <2>2. ASSUME NEW q \in Process, process'[q].at \in {"directory", "acknowledged"} PROVE AtWork(q)'
    BY <2>2 DEF AtWork, Stages
  <2> QED
    BY <1>1, <2>1, <2>2 DEF FilesHold, Named
<1>6. OneAnswerEach'
  BY <1>1, <1>2 DEF OneAnswerEach
<1>7. EmptyIsInTheMaking'
  <2>1. ASSUME NEW q \in Process, process[q].at = "directory" PROVE process'[q] = process[q]
    BY <1>2, <2>1 DEF AtWork, Stages
  <2> QED
    BY <1>1, <2>1 DEF EmptyIsInTheMaking
<1>8. HeldStays
  BY <1>1, <1>2 DEF HeldStays, Held, Named
<1> QED
  BY <1>3, <1>4, <1>5, <1>6, <1>7, <1>8
(* The files and the commands at work: one lemma per step, taken together. *)
LEMMA FilesStep ==
  ASSUME ConstantsAssumption, FilesInv, [Next]_vars
  PROVE  FilesInv' /\ HeldStays
<1> USE DEF FilesInv
<1>1. ASSUME NEW p \in Process, NEW pass \in {PassA, PassB}, NEW r \in Offered(pass),
             StartIngest(p, pass, r)
      PROVE  FilesInv' /\ HeldStays
  BY <1>1, ListStep, TokensAreTokens DEF StartIngest
<1>2. ASSUME NEW p \in Process, NEW d \in Decision, StartValidate(p, d)
      PROVE  FilesInv' /\ HeldStays
  <2>1. Receipt(PassA) \in ResponseA /\ Receipt(PassB) \in ResponseB
    BY <1>2, ReceiptIsHeld, TokensAreTokens, OfferedIsAnswer
    DEF StartValidate, BothIngested, Receipt
  <2>2. Current \in Token /\ d \in Offered(Current)
    BY <2>1, TokensAreTokens, OfferedIsAnswer DEF Current
  <2> QED
    BY <1>2, <2>2, ListStep DEF StartValidate
<1> QED
  BY <1>1, <1>2, PutResponseStep, QuietStep, MakeReceiptsStep, PutReceiptStep, CrashStep,
     SyncFailsStep, ReaderStep
  DEF Next

(* Once two answers have raced on a failing disk, they have. *)
LEMMA RaceIsForGood ==
  ASSUME FilesInv, [Next]_vars, RaceOnFailingDisk
  PROVE  RaceOnFailingDisk'
BY DEF RaceOnFailingDisk, Next, PrintStatus, StartIngest, StartValidate, List, PutResponse,
       Refuse, Sync, MakeReceipts, PutReceipt, Return, Crash, SyncFails, StartPublish, Publish,
       vars, queue

(* What was reported stays held, and what is published is what was reported. *)
LEMMA ReportsStep ==
  ASSUME ConstantsAssumption, IInv, [Next]_vars, ~RaceOnFailingDisk'
  PROVE  ReportsAreHeld'
<1> USE DEF IInv
<1>1. FilesInv /\ TypeOK /\ ReportsAreHeld /\ HeldStays /\ ~RaceOnFailingDisk
  BY FilesStep, RaceIsForGood DEF FilesInv
<1>2. ASSUME NEW s \in Reported, ReportIsHeld(s) PROVE ReportIsHeld(s)'
  BY <1>1, <1>2, ReportStaysHeld
<1>3. Decided \subseteq Reported
  BY DEF Decided, Reported
<1>4. ReportIsHeld(said)'
  <2>1. PICK s \in Reported : said' = s /\ ReportIsHeld(s)
    <3>1. CASE PrintStatus
      BY <1>1, <3>1, StatusIsHeld DEF PrintStatus
    <3>2. CASE ~PrintStatus
      BY <1>1, <3>2
      DEF TypeOK, ReportsAreHeld, Next, StartIngest, StartValidate, List, PutResponse, Refuse,
          Sync, MakeReceipts, PutReceipt, Return, Crash, SyncFails, StartPublish, Publish, vars, queue
    <3> QED
      BY <3>1, <3>2
  <2> QED
    BY <1>2, <2>1 DEF ReportIsHeld
<1>5. ASSUME NEW p \in Process, process'[p].at = "publishing"
      PROVE  ReportIsHeld(process[p].status)'
  <2>1. PICK s \in Reported : process'[p].status = s /\ ReportIsHeld(s)
    <3>1. CASE process'[p] = process[p]
      BY <1>1, <1>3, <1>5, <3>1, ProcessFields DEF ReportsAreHeld
    <3>2. CASE process'[p] # process[p]
      <4>1. ASSUME NEW q \in Process, NEW z, Become(q, z)
            PROVE  q = p /\ z.at = "publishing"
        BY <1>1, <1>5, <3>2, <4>1, BecomeMoves
      <4>2. ASSUME NEW q \in Process, NEW t, NEW r, NEW stage \in Stages
            PROVE  ~Become(q, Working(stage, t, r)) /\ ~Become(q, Idle)
        <5>1. Working(stage, t, r).at # "publishing" /\ Idle.at # "publishing"
          BY DEF Working, Idle, Stages
        <5> QED
          BY <4>1, <5>1
      <4>3. ASSUME NEW q \in Process PROVE ~Refuse(q) /\ ~Sync(q) /\ ~MakeReceipts(q)
                                         /\ ~Return(q) /\ ~Crash(q) /\ ~SyncFails(q)
                                         /\ ~Publish(q) /\ ~PutReceipt(q) /\ ~PutResponse(q)
        BY <4>2 DEF Refuse, Sync, MakeReceipts, Return, Crash, SyncFails, Publish, PutReceipt,
                    PutResponse, Stages
      <4>4. ASSUME NEW q \in Process, NEW t, NEW r PROVE ~List(q, t, r)
        BY <4>2 DEF List, Stages
      <4>5. StartPublish(p)
        BY <3>2, <4>1, <4>3, <4>4
        DEF Next, StartIngest, StartValidate, StartPublish, PrintStatus, vars, queue
      <4>6. process'[p] = [at |-> "publishing", status |-> Status]
        BY <1>1, <4>5, BecomeMoves DEF StartPublish
      <4> QED
        BY <1>1, <4>5, <4>6, StatusIsHeld DEF StartPublish
    <3> QED
      BY <3>1, <3>2
  <2> QED
    BY <1>2, <2>1 DEF ReportIsHeld
<1>6. /\ \A x \in published' : ReportIsHeld(x.status)'
      /\ \A x \in published' : x.records = x.status
      /\ \A x, y \in published' :
           x.records.a = y.records.a /\ x.records.b = y.records.b => x.records = y.records
  <2>1. \A x \in published : ReportIsHeld(x.status)'
    BY <1>1, <1>2, <1>3 DEF ReportsAreHeld, TypeOK
  <2>2. /\ \A x \in published : x.records = x.status
        /\ \A x, y \in published :
             x.records.a = y.records.a /\ x.records.b = y.records.b => x.records = y.records
    BY <1>1 DEF ReportsAreHeld, PublishedAsReported
  <2>3. CASE published' = published
    BY <2>1, <2>2, <2>3
  <2>4. CASE published' # published
    <3>1. PICK p \in Process : Publish(p)
      BY <2>4
      DEF Next, PrintStatus, StartIngest, StartValidate, List, PutResponse, Refuse, Sync,
          MakeReceipts, PutReceipt, Return, Crash, SyncFails, StartPublish, vars, queue
    <3>2. PICK s \in Decided : s = process[p].status /\ ReportIsHeld(s)
      BY <1>1, <3>1, ProcessFields DEF Publish, ReportsAreHeld
    <3> DEFINE tk == <<s.a, s.b>>
               new == [status |-> s, records |-> Report(Receipt(PassA), Receipt(PassB), Receipt(tk))]
    <3>3. /\ ~Broken(PassA) /\ ~Broken(PassB) /\ ~Broken(tk)
          /\ published' = published \cup {new}
      BY <2>4, <3>1, <3>2 DEF Publish
    <3>4. s.a \in ResponseA /\ s.b \in ResponseB /\ s.decision \in Decision
          /\ tk \in Token /\ tk \in Pair
          /\ s.a # None /\ s.b # None /\ s.decision # None
      BY TokensAreTokens DEF Decided, ConstantsAssumption, Answer
    <3>5. Receipt(PassA) = s.a /\ Receipt(PassB) = s.b /\ Receipt(tk) = s.decision
      BY <3>2, <3>3, <3>4, ReadersAgree, TokensAreTokens, OfferedIsAnswer DEF ReportIsHeld
    <3>6. new.records = new.status /\ new.status = s
      BY <3>5 DEF Report, Decided
    <3>7. ASSUME NEW x \in published, x.records.a = s.a, x.records.b = s.b
          PROVE  x.records = s
      <4>1. x.status \in Decided /\ ReportIsHeld(x.status) /\ x.records = x.status
        BY <1>1, <2>2 DEF ReportsAreHeld, TypeOK
      <4>2. Held(tk, x.status.decision) /\ x.status.decision \in Decision
        BY <3>7, <4>1 DEF ReportIsHeld, Decided, ConstantsAssumption, Answer
      <4>3. x.status.decision = s.decision
        BY <3>3, <3>4, <3>5, <4>2, ReadersAgree, OfferedIsAnswer
      <4> QED
        BY <3>7, <4>1, <4>3 DEF Decided
    <3>8. ReportIsHeld(s)'
      BY <1>2, <1>3, <3>2
    <3> QED
      BY <2>1, <2>2, <3>3, <3>6, <3>7, <3>8
  <2> QED
    BY <2>3, <2>4
<1> QED
  BY <1>4, <1>5, <1>6 DEF ReportsAreHeld, PublishedAsReported

(* A status never takes back what a status has said. *)
LEMMA StatusStep ==
  ASSUME ConstantsAssumption, IInv, [Next]_vars
  PROVE  StatusIsKept
<1> SUFFICES ASSUME ~RaceOnFailingDisk
             PROVE  \A f \in {"a", "b", "decision"} : said[f] # None => said'[f] = said[f]
  BY DEF StatusIsKept
<1>1. said \in Reported /\ ReportIsHeld(said)
  BY DEF IInv, FilesInv, TypeOK, ReportsAreHeld
<1>2. CASE PrintStatus
  BY <1>1, <1>2, StatusAgrees DEF PrintStatus
<1>3. CASE ~PrintStatus
  BY <1>3
  DEF Next, StartIngest, StartValidate, List, PutResponse, Refuse, Sync, MakeReceipts,
      PutReceipt, Return, Crash, SyncFails, StartPublish, Publish, vars, queue
<1> QED
  BY <1>2, <1>3

(* Between commands an undisturbed queue can be read. *)
LEMMA InvariantIsReadable ==
  ASSUME ConstantsAssumption, FilesInv
  PROVE  QueueIsReadable
<1> SUFFICES ASSUME \A p \in Process : process[p].at \notin Stages, mishap = "none", ~contested
             PROVE  ~StatusRaises
  BY DEF QueueIsReadable
<1>1. ASSUME NEW t \in Token PROVE ~Broken(t)
  <2> SUFFICES ASSUME receipts[t] # None
               PROVE  \E r \in Offered(t) : receipts[t] = {r} /\ r \in responses[t]
    BY DEF Broken
  <2>1. receipts[t] # {} /\ receipts[t] \subseteq Offered(t)
    BY DEF FilesInv, EmptyIsInTheMaking, EntriesAreOffered, Stages
  <2>2. ASSUME NEW x \in receipts[t] PROVE x \in responses[t]
    BY <2>1 DEF FilesInv, FilesHold, Named
  <2>3. ASSUME NEW x \in receipts[t], NEW y \in receipts[t] PROVE x = y
    BY <2>2 DEF FilesInv, OneAnswerEach
  <2> QED
    BY <2>1, <2>2, <2>3
<1>2. BothIngested => Current \in Token
  BY <1>1, ReceiptIsHeld, TokensAreTokens, OfferedIsAnswer DEF BothIngested, Current, Receipt
<1> QED
  BY <1>1, <1>2, TokensAreTokens DEF StatusRaises

LEMMA InvariantInit == ConstantsAssumption /\ Init => IInv
<1> SUFFICES ASSUME ConstantsAssumption, Init PROVE IInv
  OBVIOUS
<1>1. TypeOK
  BY DEF Init, TypeOK, Report, Reported
<1>2. ASSUME NEW p \in Process PROVE process[p].at = "idle"
  BY DEF Init, Idle
<1>3. EntriesAreOffered /\ FilesHold /\ OneAnswerEach
  BY <1>2 DEF Init, EntriesAreOffered, FilesHold, OneAnswerEach, AtWork, Named, Stages
<1>4. EmptyIsInTheMaking
  BY DEF Init, EmptyIsInTheMaking, ConstantsAssumption
<1>5. ReportsAreHeld
  BY <1>2 DEF Init, ReportsAreHeld, ReportIsHeld, Report, PublishedAsReported
<1> QED
  BY <1>1, <1>3, <1>4, <1>5 DEF IInv, FilesInv

LEMMA InvariantStep ==
  ASSUME ConstantsAssumption, IInv, [Next]_vars
  PROVE  IInv'
BY FilesStep, ReportsStep DEF IInv

-----------------------------------------------------------------------------
(* What is published is what its own files name, one decision to a pair, and   *)
(* the queue can be read between commands that nothing disturbed.              *)
THEOREM PublicationsAreTrue == ASSUME ConstantsAssumption PROVE Spec => []QueueIsTrue
<1>1. Init => IInv
  BY InvariantInit
<1>2. IInv /\ [Next]_vars => IInv'
  BY InvariantStep
<1>3. IInv => QueueIsTrue
  BY InvariantIsReadable DEF IInv, ReportsAreHeld, QueueIsTrue, PublishedAsReported
<1> QED
  BY <1>1, <1>2, <1>3, PTL DEF Spec

(* What extraction-status has said of a pass or of a bundle it never takes     *)
(* back, whoever races and whoever dies.                                       *)
THEOREM StatusIsForGood == ASSUME ConstantsAssumption PROVE Spec => StatusNeverContradicts
<1>1. Init => IInv
  BY InvariantInit
<1>2. IInv /\ [Next]_vars => IInv' /\ StatusIsKept
  BY InvariantStep, StatusStep
<1> QED
  BY <1>1, <1>2, PTL DEF Spec, StatusNeverContradicts, vars
=============================================================================
