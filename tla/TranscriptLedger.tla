-------------------------- MODULE TranscriptLedger --------------------------
(***************************************************************************)
(* luna_transcript.py and transcript_assembly.py: the chunks of a book are *)
(* leased to workers, answered, failed, requeued and reclaimed through one *)
(* file, ledger.json, which every call loads and replaces under a file     *)
(* lock.  Payloads and snapshots of the ledger are installed in the        *)
(* immutable store first.  Assembly takes no lock.                         *)
(*                                                                         *)
(* One action is one system call that another process, or a restart, can   *)
(* see: taking the lock, linking, unlinking, replacing the pointer.        *)
(***************************************************************************)
EXTENDS Naturals, FiniteSets, ImmutableStore

CONSTANTS
  NumJobs,      \* the queue's jobs; a job is its chunk_order
  Worker,       \* values of worker_id
  Response,     \* contents of responses that pass validation
  Error,        \* failure reasons
  Host,         \* processes that call the ledger
  Assembler,    \* processes that run assemble-transcripts
  None,
  MaxAttempts,  \* bound: a chunk of so many leases is not returned any more
  MaxMishaps    \* bound: crashes and failing system calls in one behaviour

ASSUME ConstantsAssumption ==
  /\ NumJobs \in Nat \ {0}
  /\ None \notin Worker \cup Response \cup Error \cup Host
  /\ Host \cap Assembler = {}
  /\ MaxAttempts \in Nat
  /\ MaxMishaps \in Nat

VARIABLES
  ledger,    \* the content of ledger.json, None before the first call
  lock,      \* the process that holds the flock on ledger.lock
  process,
  granted,   \* the leases that calls have returned to workers
  mishaps

vars == <<store, ledger, lock, process, granted, mishaps>>

-----------------------------------------------------------------------------
(* The ledger. *)

Job == 1..NumJobs
Status == {"pending", "leased", "completed", "failed"}

\* lease_token is a hash of the job, the worker and the attempts, all of which
\* the record holds as long as it holds the token.
Record == [status : Status, worker : Worker \cup {None}, attempts : Nat,
           response : Response \cup {None}, error : Error \cup {None}]
Ledger == [Job -> Record]

ASSUME NoneAssumption == None \notin Ledger

\* build_luna_chunk_ledger
InitialLedger ==
  [j \in Job |-> [status |-> "pending", worker |-> None, attempts |-> 0,
                  response |-> None, error |-> None]]

\* What a worker keeps of its lease; the claims of one call.
Claim == [job : Job, worker : Worker, attempts : Nat]

\* Seeded fault: lease_token is not a function of the attempts.
HoldsLeaseOfAnyAttempt(L, c) ==
  L[c.job].status = "leased" /\ L[c.job].worker = c.worker
HoldsLease(L, c) ==
  /\ L[c.job].status = "leased"
  /\ L[c.job].worker = c.worker
  /\ L[c.job].attempts = c.attempts

\* claim_luna_chunks: the first pending chunks in chunk_order ...
PendingIn(L) == {j \in Job : L[j].status = "pending"}
FirstPending(L, n) ==
  {j \in PendingIn(L) : Cardinality({i \in PendingIn(L) : i < j}) < n}

\* Seeded fault: the attempt is not counted.
LeasedUncounted(L, w, jobs) ==
  [j \in Job |-> IF j \in jobs
                 THEN [L[j] EXCEPT !.status = "leased", !.worker = w, !.error = None]
                 ELSE L[j]]
\* ... become w's.
Leased(L, w, jobs) ==
  [j \in Job |-> IF j \in jobs
                 THEN [L[j] EXCEPT !.status = "leased", !.worker = w,
                                   !.attempts = @ + 1, !.error = None]
                 ELSE L[j]]

Completed(L, j, r) ==
  [L EXCEPT ![j] = [@ EXCEPT !.status = "completed", !.response = r, !.error = None]]

Failed(L, j, e) == [L EXCEPT ![j] = [@ EXCEPT !.status = "failed", !.error = e]]

\* requeue_luna_chunk and reclaim_luna_chunk: last_error and attempts survive.
Returned(L, j) == [L EXCEPT ![j] = [@ EXCEPT !.status = "pending", !.worker = None]]

-----------------------------------------------------------------------------
(* The files of the store, and the processes. *)

Payload == {"response", "structured"} \X Job \X Response
Snapshot == {"snapshot"} \X Ledger
Assembled == {"book", "manifest"} \X [Job -> Response]

LeaseCall == [op : {"lease"}, worker : Worker, limit : Job]
CompleteCall == [op : {"complete"}, claim : Claim, response : Response]
FailCall == [op : {"fail"}, claim : Claim, error : Error]
ReturnCall == [op : {"requeue", "reclaim"}, job : Job]
Call == LeaseCall \cup CompleteCall \cup FailCall \cup ReturnCall

\* `to` is the ledger about to be saved; `last` tells the call's own save from
\* the one load_luna_ledger makes when there is no ledger yet.
Idle == [at |-> "idle"]
Locked == [at : {"locked"}, call : Call]
Installing == [at : {"response", "structured", "snapshot"},
               link : {"none", "linked", "attesting"},
               call : Call, to : Ledger, last : BOOLEAN]
Pointing == [at : {"pointer"}, call : Call, to : Ledger, last : BOOLEAN]
Assembling == [at : {"book", "manifest"}, link : {"none", "linked", "attesting"},
               responses : [Job -> Response]]
HostState == {Idle} \cup Locked \cup Installing \cup Pointing
AssemblerState == {Idle} \cup Assembling

TypeOK ==
  /\ ledger \in Ledger \cup {None}
  /\ lock \in Host \cup {None}
  /\ stored \subseteq Payload \cup Snapshot \cup Assembled
  /\ doubled \subseteq Payload \cup Snapshot \cup Assembled
  /\ \A h \in Host : process[h] \in HostState
  /\ \A a \in Assembler : process[a] \in AssemblerState
  /\ DOMAIN process = Host \cup Assembler
  /\ granted \subseteq Claim
  /\ mishaps \in Nat

Init ==
  /\ StoreInit
  /\ ledger = None
  /\ lock = None
  /\ process = [p \in Host \cup Assembler |-> Idle]
  /\ granted = {}
  /\ mishaps = 0

Become(p, state) == process' = [process EXCEPT ![p] = state]

\* A call of host h ends, with a result or an exception, and unlocks.
Return(h) == Become(h, Idle) /\ lock' = None

-----------------------------------------------------------------------------
(* A call: lock, load, decide. *)

LockIsFree == lock = None

Acquire(h, call) ==
  /\ process[h].at = "idle"
  /\ LockIsFree
  /\ lock' = h
  /\ Become(h, [at |-> "locked", call |-> call])
  /\ UNCHANGED <<store, ledger, granted, mishaps>>

CallLease(h, w, n) ==
  Acquire(h, [op |-> "lease", worker |-> w, limit |-> n])
\* A worker answers or gives up, with any lease it was ever given and as often
\* as it likes.
CallComplete(h, c, r) ==
  Acquire(h, [op |-> "complete", claim |-> c, response |-> r])
CallFail(h, c, e) ==
  Acquire(h, [op |-> "fail", claim |-> c, error |-> e])
\* An operator returns a chunk to the queue.
CallReturn(h, op, j) ==
  /\ ledger # None /\ ledger[j].attempts < MaxAttempts
  /\ Acquire(h, [op |-> op, job |-> j])

\* save_luna_ledger begins with the immutable snapshot.
Saving(h, to) ==
  Become(h, [at |-> "snapshot", link |-> "none", call |-> process[h].call,
             to |-> to, last |-> ledger # None])

\* load_luna_ledger finds no ledger and saves the initial one.
Initialise(h) ==
  /\ process[h].at = "locked"
  /\ ledger = None
  /\ Saving(h, InitialLedger)
  /\ UNCHANGED <<store, ledger, lock, granted, mishaps>>

Loaded(h, op) ==
  /\ process[h].at = "locked"
  /\ ledger # None
  /\ process[h].call.op = op
  /\ UNCHANGED <<store, ledger, granted, mishaps>>

\* claim_luna_chunks; with nothing pending the ledger is saved as it is.
LeaseChunks(h) ==
  /\ Loaded(h, "lease")
  /\ LET call == process[h].call IN
       Saving(h, Leased(ledger, call.worker, FirstPending(ledger, call.limit)))
  /\ UNCHANGED lock

\* Seeded fault: the payloads are left for later.
BeginCompletionByPointer(h, to) == Saving(h, to)
\* complete_luna_chunk installs both payloads ahead of the ledger.
BeginCompletion(h, to) ==
  Become(h, [at |-> "response", link |-> "none", call |-> process[h].call,
             to |-> to, last |-> TRUE])

CompleteChunk(h) ==
  /\ Loaded(h, "complete")
  /\ LET call == process[h].call IN
       /\ HoldsLease(ledger, call.claim)
       /\ BeginCompletion(h, Completed(ledger, call.claim.job, call.response))
  /\ UNCHANGED lock

\* The same response once more, from whomever: saved again, unchanged.
CompleteAgain(h) ==
  /\ Loaded(h, "complete")
  /\ LET call == process[h].call IN
       /\ ledger[call.claim.job].status = "completed"
       /\ ledger[call.claim.job].response = call.response
  /\ Saving(h, ledger)
  /\ UNCHANGED lock

FailChunk(h) ==
  /\ Loaded(h, "fail")
  /\ LET call == process[h].call IN
       /\ HoldsLease(ledger, call.claim)
       /\ Saving(h, Failed(ledger, call.claim.job, call.error))
  /\ UNCHANGED lock

\* The same failure once more, from whomever.
FailAgain(h) ==
  /\ Loaded(h, "fail")
  /\ LET call == process[h].call IN
       /\ ledger[call.claim.job].status = "failed"
       /\ ledger[call.claim.job].error = call.error
  /\ Saving(h, ledger)
  /\ UNCHANGED lock

\* Seeded fault: a completed chunk may be requeued.
RequeuableEvenIfCompleted == {"failed", "completed"}
Requeuable == {"failed"}
Reclaimable == {"leased"}

RequeueChunk(h) ==
  /\ Loaded(h, "requeue")
  /\ ledger[process[h].call.job].status \in Requeuable
  /\ Saving(h, Returned(ledger, process[h].call.job))
  /\ UNCHANGED lock

ReclaimChunk(h) ==
  /\ Loaded(h, "reclaim")
  /\ ledger[process[h].call.job].status \in Reclaimable
  /\ Saving(h, Returned(ledger, process[h].call.job))
  /\ UNCHANGED lock

\* Either of them on a chunk that is pending already.
ReturnAgain(h) ==
  /\ \/ Loaded(h, "requeue")
     \/ Loaded(h, "reclaim")
  /\ ledger[process[h].call.job].status = "pending"
  /\ Saving(h, ledger)
  /\ UNCHANGED lock

Refuses(call) ==
  \/ /\ call.op = "complete"
     /\ ~HoldsLease(ledger, call.claim)
     /\ ~(/\ ledger[call.claim.job].status = "completed"
          /\ ledger[call.claim.job].response = call.response)
  \/ /\ call.op = "fail"
     /\ ~HoldsLease(ledger, call.claim)
     /\ ~(/\ ledger[call.claim.job].status = "failed"
          /\ ledger[call.claim.job].error = call.error)
  \/ /\ call.op = "requeue"
     /\ ledger[call.job].status \notin Requeuable \cup {"pending"}
  \/ /\ call.op = "reclaim"
     /\ ledger[call.job].status \notin Reclaimable \cup {"pending"}

\* LunaTranscriptError: nothing is saved.
Refuse(h) ==
  /\ process[h].at = "locked"
  /\ ledger # None
  /\ Refuses(process[h].call)
  /\ Return(h)
  /\ UNCHANGED <<store, ledger, granted, mishaps>>

-----------------------------------------------------------------------------
(* Installing, by a host under the lock or by an assembler without one. *)

Phase == {"response", "structured", "snapshot", "book", "manifest"}
\* Seeded fault: the structured transcript is not installed.
NextPhaseButOne ==
  [response |-> "snapshot", structured |-> "snapshot", book |-> "manifest"]
NextPhase == [response |-> "structured", structured |-> "snapshot", book |-> "manifest"]

NameOf(p) ==
  LET s == process[p] IN
  CASE s.at \in {"response", "structured"} -> <<s.at, s.call.claim.job, s.call.response>>
    [] s.at = "snapshot" -> <<"snapshot", s.to>>
    [] s.at \in {"book", "manifest"} -> <<s.at, s.responses>>

Installs(p, link) == process[p].at \in Phase /\ process[p].link = link

\* install_immutable_bytes returned.
Advance(p) ==
  \/ /\ process[p].at \in DOMAIN NextPhase
     /\ Become(p, [process[p] EXCEPT !.at = NextPhase[@], !.link = "none"])
  \/ /\ process[p].at = "snapshot"
     /\ Become(p, [at |-> "pointer", call |-> process[p].call, to |-> process[p].to,
                   last |-> process[p].last])
  \/ /\ process[p].at = "manifest"
     /\ Become(p, Idle)

\* An exception, or the end of the process: the kernel drops the flock.
End(p) ==
  /\ Become(p, Idle)
  /\ lock' = IF lock = p THEN None ELSE lock

LinkPayload(p) ==
  /\ Installs(p, "none")
  /\ Link(NameOf(p))
  /\ Become(p, [process[p] EXCEPT !.link = "linked"])
  /\ UNCHANGED <<ledger, lock, granted, mishaps>>

ReusePayload(p) ==
  /\ Installs(p, "none")
  /\ Reuse(NameOf(p))
  /\ Advance(p)
  /\ UNCHANGED <<ledger, lock, granted, mishaps>>

\* StorageError: "existing destination is unsafe".
RefuseUnsafe(p) ==
  /\ Installs(p, "none")
  /\ Unsafe(NameOf(p))
  /\ End(p)
  /\ UNCHANGED <<store, ledger, granted, mishaps>>

Unlink(p) ==
  /\ Installs(p, "linked")
  /\ UnlinkTemporary(NameOf(p))
  /\ Become(p, [process[p] EXCEPT !.link = "attesting"])
  /\ UNCHANGED <<ledger, lock, granted, mishaps>>

\* The directory is synchronised and the destination read back.
Attest(p) ==
  /\ Installs(p, "attesting")
  /\ Advance(p)
  /\ UNCHANGED <<store, ledger, lock, granted, mishaps>>

NewClaims(h) ==
  LET call == process[h].call
      to == process[h].to
      jobs == {j \in Job : to[j].status = "leased" /\ ledger[j].status # "leased"}
  IN IF call.op = "lease"
     THEN {[job |-> j, worker |-> call.worker, attempts |-> to[j].attempts] : j \in jobs}
     ELSE {}

\* temporary.replace(ledger.json).  The model forgets the snapshots of all other
\* ledgers: a change takes a chunk to a later attempt or a later status of the
\* same attempt, so none of them is ever installed again.
Point(h) ==
  /\ process[h].at = "pointer"
  /\ ledger' = process[h].to
  /\ LET current(names) == {n \in names : n[1] = "snapshot" => n[2] = process[h].to}
     IN /\ stored' = current(stored)
        /\ doubled' = current(doubled)

\* The call returns, or goes on after its load.
PointAndReturn(h) ==
  /\ Point(h)
  /\ process[h].last
  /\ granted' = granted \cup NewClaims(h)
  /\ Return(h)
  /\ UNCHANGED mishaps

PointAndGoOn(h) ==
  /\ Point(h)
  /\ ~process[h].last
  /\ Become(h, [at |-> "locked", call |-> process[h].call])
  /\ UNCHANGED <<lock, granted, mishaps>>

-----------------------------------------------------------------------------
(* Mishaps. *)

Mishap == mishaps < MaxMishaps /\ mishaps' = mishaps + 1

\* The pointer is replaced, and the process fails or dies ahead of its result.
PointAndFail(h) ==
  /\ Mishap
  /\ Point(h)
  /\ Return(h)
  /\ UNCHANGED granted

\* A system call fails.
Fault(p) ==
  /\ Mishap
  /\ process[p].at # "idle"
  /\ IF Installs(p, "linked") \/ Installs(p, "attesting")
     THEN Withdraw(NameOf(p)) ELSE UNCHANGED store
  /\ End(p)
  /\ UNCHANGED <<ledger, granted>>

\* The process dies, and what it has linked stays linked.
Crash(p) ==
  /\ Mishap
  /\ process[p].at # "idle"
  /\ End(p)
  /\ UNCHANGED <<store, ledger, granted>>

-----------------------------------------------------------------------------
(* Assembly. *)

\* Seeded fault: chunks without a response are filled in.
AuditPassesAnyway(responses) == ledger # None
\* audit_luna_transcripts: every chunk is completed and both its payloads are
\* read back.
AuditPasses(responses) ==
  /\ ledger # None
  /\ \A j \in Job :
       /\ ledger[j].status = "completed"
       /\ ledger[j].response = responses[j]
       /\ Readable(<<"response", j, responses[j]>>)
       /\ Readable(<<"structured", j, responses[j]>>)

\* install_assembled_transcripts begins.
Assemble(a) ==
  /\ process[a].at = "idle"
  /\ \E responses \in [Job -> Response] :
       /\ AuditPasses(responses)
       /\ Become(a, [at |-> "book", link |-> "none", responses |-> responses])
  /\ UNCHANGED <<store, ledger, lock, granted, mishaps>>

-----------------------------------------------------------------------------
Begin(h) ==
  \/ \E w \in Worker, n \in Job : CallLease(h, w, n)
  \/ \E c \in granted, r \in Response : CallComplete(h, c, r)
  \/ \E c \in granted, e \in Error : CallFail(h, c, e)
  \/ \E op \in {"requeue", "reclaim"}, j \in Job : CallReturn(h, op, j)

Decide(h) ==
  \/ Initialise(h)
  \/ LeaseChunks(h)
  \/ CompleteChunk(h)
  \/ CompleteAgain(h)
  \/ FailChunk(h)
  \/ FailAgain(h)
  \/ RequeueChunk(h)
  \/ ReclaimChunk(h)
  \/ ReturnAgain(h)
  \/ Refuse(h)

Install(p) ==
  \/ LinkPayload(p)
  \/ ReusePayload(p)
  \/ RefuseUnsafe(p)
  \/ Unlink(p)
  \/ Attest(p)

Replace(h) ==
  \/ PointAndReturn(h)
  \/ PointAndGoOn(h)
  \/ PointAndFail(h)

Next ==
  \/ \E h \in Host : Begin(h) \/ Decide(h) \/ Replace(h)
  \/ \E a \in Assembler : Assemble(a)
  \/ \E p \in Host \cup Assembler : Install(p) \/ Fault(p) \/ Crash(p)

Spec == Init /\ [][Next]_vars

-----------------------------------------------------------------------------
(* Properties. *)

\* luna_ledger_lock: between load and save nobody else changes the ledger, so no
\* update is lost.
OneAtATime ==
  \A h1, h2 \in Host :
    process[h1].at # "idle" /\ process[h2].at # "idle" => h1 = h2

\* A chunk is completed, or failed, by a call that carries its current lease; a
\* worker whose lease was reclaimed is refused however late it answers.
OnlyTheHolderAnswers ==
  [][ledger # None =>
      \A j \in Job :
        /\ ledger'[j].status # ledger[j].status
        /\ ledger'[j].status \in {"completed", "failed"}
        => \E h \in Host :
             /\ process[h].at = "pointer"
             /\ process[h].call.op \in {"complete", "fail"}
             /\ process[h].call.claim = [job |-> j, worker |-> ledger[j].worker,
                                         attempts |-> ledger[j].attempts]]_vars

\* A completed chunk keeps its response for good: "reuses completed responses".
CompletedIsFinal ==
  [][ledger # None =>
      \A j \in Job : ledger[j].status = "completed" => ledger'[j] = ledger[j]]_vars

\* Both payloads of a completed chunk are there and can be read, whatever crashed.
CompletedIsReadable ==
  ledger # None =>
    \A j \in Job : ledger[j].status = "completed" =>
      /\ Readable(<<"response", j, ledger[j].response>>)
      /\ Readable(<<"structured", j, ledger[j].response>>)

\* A manifest has its book, and both hold the responses the ledger still has:
\* no gap is filled and no second edition can differ from the first.
ManifestIsOfTheLedger ==
  \A responses \in [Job -> Response] :
    <<"manifest", responses>> \in stored =>
      /\ <<"book", responses>> \in stored
      /\ ledger # None
      /\ \A j \in Job : ledger[j].status = "completed" /\ ledger[j].response = responses[j]

\* "Durably install exact bytes once, reusing only identical existing content":
\* whoever installs a payload finds it installed, or absent.  It does not hold: one who
\* died between link and unlink leaves a name that nobody can install again.
IdenticalContentIsReused ==
  \A p \in Host \cup Assembler : Installs(p, "none") => ~Unsafe(NameOf(p))

\* The ledger implements atomic leases.
ChunkOf(L, j) ==
  [state |-> L[j].status, holder |-> L[j].worker, attempts |-> L[j].attempts,
   response |-> L[j].response]
Chunks ==
  LET L == IF ledger = None THEN InitialLedger ELSE ledger
  IN [j \in Job |-> ChunkOf(L, j)]
Leases == INSTANCE ChunkLeases WITH chunk <- Chunks
ImplementsChunkLeases == Leases!Spec

-----------------------------------------------------------------------------
(***************************************************************************)
(* The inductive invariant behind the theorems on TranscriptLedger.        *)
(***************************************************************************)

\* What the next save of h will replace the ledger by, and why.
Decision(L, call, to) ==
  \/ to = L
  \/ /\ call.op = "lease"
     /\ to = Leased(L, call.worker, FirstPending(L, call.limit))
  \/ /\ call.op = "complete"
     /\ HoldsLease(L, call.claim)
     /\ to = Completed(L, call.claim.job, call.response)
  \/ /\ call.op = "fail"
     /\ HoldsLease(L, call.claim)
     /\ to = Failed(L, call.claim.job, call.error)
  \/ /\ call.op \in {"requeue", "reclaim"}
     /\ L[call.job].status \in {"leased", "failed"}
     /\ to = Returned(L, call.job)

HasTarget(h) == process[h].at \in {"response", "structured", "snapshot", "pointer"}

\* The host that is not idle is the one that holds the lock.
LockInv == \A h \in Host : process[h].at # "idle" <=> lock = h

\* Nobody changes the ledger between a host's load and its save.
TargetOfLedger(h) ==
  HasTarget(h) =>
    IF ledger = None
    THEN process[h].to = InitialLedger /\ ~process[h].last
    ELSE process[h].last /\ Decision(ledger, process[h].call, process[h].to)

\* Only a completion installs payloads, and its chunk is leased meanwhile.
OnlyCompletionInstalls(h) ==
  process[h].at \in {"response", "structured"} =>
    /\ process[h].call \in CompleteCall
    /\ ledger # None
    /\ HoldsLease(ledger, process[h].call.claim)
    /\ process[h].to = Completed(ledger, process[h].call.claim.job, process[h].call.response)

PayloadsReadable(L) ==
  \A j \in Job : L[j].status = "completed" =>
    /\ Readable(<<"response", j, L[j].response>>)
    /\ Readable(<<"structured", j, L[j].response>>)

\* Payloads are there ahead of the ledger that names them, and what a host has
\* linked under the lock stays until it is done.
PayloadsAhead(h) ==
  /\ process[h].at = "structured" =>
       Readable(<<"response", process[h].call.claim.job, process[h].call.response>>)
  /\ process[h].at \in {"snapshot", "pointer"} => PayloadsReadable(process[h].to)
  /\ Installs(h, "linked") => NameOf(h) \in stored
  /\ Installs(h, "attesting") => Readable(NameOf(h))

HostInv(h) == TargetOfLedger(h) /\ OnlyCompletionInstalls(h) /\ PayloadsAhead(h)

LedgerInvariant ==
  /\ TypeOK
  /\ LockInv
  /\ ledger # None => PayloadsReadable(ledger)
  /\ \A h \in Host : HostInv(h)

\* A chunk that was never completed has no response.
ResponseInv ==
  ledger # None =>
    \A j \in Job : ledger[j].status # "completed" => ledger[j].response = None

InductiveInvariant == LedgerInvariant /\ ResponseInv

\* Every chunk is completed, with these responses.
Complete(responses) ==
  /\ ledger # None
  /\ \A j \in Job : ledger[j].status = "completed" /\ ledger[j].response = responses[j]

Linked(p) == process[p].link \in {"linked", "attesting"}

\* With one process that assembles: what it installs is of the ledger, its book is
\* there before its manifest, and a book that it may still withdraw has no manifest.
AssemblyInv ==
  /\ \A responses \in [Job -> Response] :
       <<"manifest", responses>> \in stored =>
         <<"book", responses>> \in stored /\ Complete(responses)
  /\ \A a \in Assembler : process[a].at \in {"book", "manifest"} => Complete(process[a].responses)
  /\ \A a \in Assembler : process[a].at = "manifest" =>
       <<"book", process[a].responses>> \in stored
  /\ \A a \in Assembler : process[a].at = "book" /\ Linked(a) =>
       /\ <<"book", process[a].responses>> \in stored
       /\ <<"manifest", process[a].responses>> \notin stored
=============================================================================
