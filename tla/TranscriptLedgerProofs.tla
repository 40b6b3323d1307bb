----------------------- MODULE TranscriptLedgerProofs -----------------------
(***************************************************************************)
(* The safety properties of TranscriptLedger, proved for every number of   *)
(* chunks, workers, hosts, assemblers and mishaps.                         *)
(***************************************************************************)
EXTENDS TranscriptLedger, TLAPS

(* The operations on a ledger give a ledger. *)
LEMMA RecordFields ==
  ASSUME NEW L \in Ledger, NEW j \in Job
  PROVE  /\ L[j] \in Record
         /\ L[j].status \in Status
         /\ L[j].worker \in Worker \cup {None}
         /\ L[j].attempts \in Nat
         /\ L[j].response \in Response \cup {None}
BY DEF Ledger, Record

LEMMA InitialIsLedger == InitialLedger \in Ledger
BY DEF InitialLedger, Ledger, Record, Status

LEMMA LeasedIsLedger ==
  ASSUME NEW L \in Ledger, NEW w \in Worker, NEW jobs
  PROVE  Leased(L, w, jobs) \in Ledger
<1>1. ASSUME NEW j \in Job
      PROVE  [L[j] EXCEPT !.status = "leased", !.worker = w,
                          !.attempts = @ + 1, !.error = None] \in Record
  <2>1. L[j] \in Record /\ L[j].attempts \in Nat
    BY RecordFields
  <2>2. L[j].attempts + 1 \in Nat
    BY <2>1
  <2> QED
    BY <2>1, <2>2 DEF Record, Status
<1> QED
  BY <1>1, RecordFields DEF Leased, Ledger

LEMMA CompletedIsLedger ==
  ASSUME NEW L \in Ledger, NEW j \in Job, NEW r \in Response
  PROVE  Completed(L, j, r) \in Ledger
<1>1. [L[j] EXCEPT !.status = "completed", !.response = r, !.error = None] \in Record
  BY RecordFields DEF Record, Status
<1> QED
  BY <1>1 DEF Completed, Ledger

LEMMA FailedIsLedger ==
  ASSUME NEW L \in Ledger, NEW j \in Job, NEW e \in Error
  PROVE  Failed(L, j, e) \in Ledger
<1>1. [L[j] EXCEPT !.status = "failed", !.error = e] \in Record
  BY RecordFields DEF Record, Status
<1> QED
  BY <1>1 DEF Failed, Ledger

LEMMA ReturnedIsLedger ==
  ASSUME NEW L \in Ledger, NEW j \in Job
  PROVE  Returned(L, j) \in Ledger
<1>1. [L[j] EXCEPT !.status = "pending", !.worker = None] \in Record
  BY RecordFields DEF Record, Status
<1> QED
  BY <1>1 DEF Returned, Ledger

(* What the phase of a process says about the fields it has. *)
LEMMA HostFields ==
  ASSUME NEW s \in HostState
  PROVE  /\ s.at \in {"idle", "locked", "response", "structured", "snapshot", "pointer"}
         /\ s.at # "idle" => s.call \in Call
         /\ s.at \in {"response", "structured", "snapshot", "pointer"} =>
              s.to \in Ledger /\ s.last \in BOOLEAN
         /\ s.at \in {"response", "structured", "snapshot"} =>
              s \in Installing /\ s.link \in {"none", "linked", "attesting"}
BY DEF HostState, Idle, Locked, Installing, Pointing

LEMMA AssemblerFields ==
  ASSUME NEW s \in AssemblerState
  PROVE  /\ s.at \in {"idle", "book", "manifest"}
         /\ s.at # "idle" => s \in Assembling /\ s.responses \in [Job -> Response]
BY DEF AssemblerState, Idle, Assembling

LEMMA HostStates ==
  /\ Idle \in HostState
  /\ \A c \in Call : [at |-> "locked", call |-> c] \in HostState
  /\ \A c \in Call, L \in Ledger, b \in BOOLEAN :
       /\ [at |-> "pointer", call |-> c, to |-> L, last |-> b] \in HostState
       /\ \A a \in {"response", "structured", "snapshot"} :
            [at |-> a, link |-> "none", call |-> c, to |-> L, last |-> b] \in HostState
BY DEF HostState, Locked, Installing, Pointing

LEMMA CallFields ==
  ASSUME NEW c \in Call
  PROVE  /\ c.op \in {"lease", "complete", "fail", "requeue", "reclaim"}
         /\ c.op = "lease" => c.worker \in Worker /\ c.limit \in Job
         /\ c.op \in {"complete", "fail"} => c.claim \in Claim /\ c.claim.job \in Job
         /\ c.op = "complete" => c \in CompleteCall /\ c.response \in Response
         /\ c.op = "fail" => c.error \in Error
         /\ c.op \in {"requeue", "reclaim"} => c.job \in Job
BY DEF Call, LeaseCall, CompleteCall, FailCall, ReturnCall, Claim

(* The type invariant.  That a payload has a type hangs on one more fact: *)
(* only a completion, which has a response, installs one.                    *)
Name == Payload \cup Snapshot \cup Assembled

ProcessTypes ==
  /\ \A h \in Host : process[h] \in HostState
  /\ \A a \in Assembler : process[a] \in AssemblerState
  /\ DOMAIN process = Host \cup Assembler

LEMMA BecomeTypes ==
  ASSUME ProcessTypes, NEW p, NEW s, Become(p, s),
         p \in Host => s \in HostState,
         p \in Assembler => s \in AssemblerState
  PROVE  ProcessTypes'
BY DEF ProcessTypes, Become

LEMMA TypeInit == Init => TypeOK
BY DEF Init, TypeOK, StoreInit, HostState, AssemblerState

LEMMA AssemblersAreNoHosts ==
  ASSUME NEW h \in Host, NEW a \in Assembler
  PROVE  h # a
BY ConstantsAssumption

LEMMA NameTypes ==
  ASSUME TypeOK, NEW p \in Host \cup Assembler, process[p].at \in Phase,
         p \in Host => OnlyCompletionInstalls(p)
  PROVE  NameOf(p) \in Name
<1>1. CASE p \in Host
  <2>1. process[p] \in HostState
    BY <1>1 DEF TypeOK
  <2>2. CASE process[p].at \in {"response", "structured"}
    <3>1. /\ process[p].call.claim.job \in Job
          /\ process[p].call.response \in Response
      BY <1>1, <2>2 DEF OnlyCompletionInstalls, CompleteCall, Claim
    <3> QED
      BY <2>2, <3>1 DEF NameOf, Name, Payload
  <2>3. CASE process[p].at = "snapshot"
    BY <2>1, <2>3, HostFields DEF NameOf, Name, Snapshot
  <2> QED
    BY <2>1, <2>2, <2>3, HostFields DEF Phase
<1>2. CASE p \in Assembler
  <2>1. process[p] \in AssemblerState
    BY <1>2 DEF TypeOK
  <2>2. process[p].at \in {"book", "manifest"} /\ process[p].responses \in [Job -> Response]
    BY <2>1, AssemblerFields DEF Phase
  <2> QED
    BY <2>2 DEF NameOf, Name, Assembled
<1> QED
  BY <1>1, <1>2

LEMMA TypeBegin ==
  ASSUME TypeOK, NEW h \in Host, Begin(h)
  PROVE  TypeOK'
<1>1. ASSUME NEW c \in Call, Acquire(h, c)
      PROVE  TypeOK'
  <2>1. ProcessTypes'
    BY <1>1, HostStates, AssemblersAreNoHosts, BecomeTypes DEF Acquire, TypeOK, ProcessTypes
  <2> QED
    BY <1>1, <2>1 DEF Acquire, TypeOK, ProcessTypes, store
<1>2. ASSUME NEW w \in Worker, NEW n \in Job, CallLease(h, w, n)
      PROVE  TypeOK'
  BY <1>1, <1>2 DEF CallLease, Call, LeaseCall
<1>3. ASSUME NEW c \in granted, NEW r \in Response, CallComplete(h, c, r)
      PROVE  TypeOK'
  BY <1>1, <1>3 DEF CallComplete, Call, CompleteCall, TypeOK
<1>4. ASSUME NEW c \in granted, NEW e \in Error, CallFail(h, c, e)
      PROVE  TypeOK'
  BY <1>1, <1>4 DEF CallFail, Call, FailCall, TypeOK
<1>5. ASSUME NEW op \in {"requeue", "reclaim"}, NEW j \in Job, CallReturn(h, op, j)
      PROVE  TypeOK'
  BY <1>1, <1>5 DEF CallReturn, Call, ReturnCall
<1> QED
  BY <1>2, <1>3, <1>4, <1>5 DEF Begin

(* A decided host saves a ledger, installs its payloads first, or returns. *)
LEMMA TypeSaving ==
  ASSUME TypeOK, NEW h \in Host, process[h].at # "idle", NEW L \in Ledger,
         Saving(h, L) \/ BeginCompletion(h, L),
         UNCHANGED <<store, ledger, lock, granted, mishaps>>
  PROVE  TypeOK'
<1>1. process[h] \in HostState /\ process[h].call \in Call
  BY HostFields DEF TypeOK
<1>2. ProcessTypes'
  BY <1>1, HostStates, AssemblersAreNoHosts, BecomeTypes
  DEF Saving, BeginCompletion, TypeOK, ProcessTypes
<1> QED
  BY <1>2 DEF TypeOK, ProcessTypes, store

LEMMA TypeReturn ==
  ASSUME TypeOK, NEW h \in Host, Return(h), UNCHANGED <<store, ledger, granted, mishaps>>
  PROVE  TypeOK'
<1>1. ProcessTypes'
  BY HostStates, AssemblersAreNoHosts, BecomeTypes DEF Return, TypeOK, ProcessTypes
<1> QED
  BY <1>1 DEF Return, TypeOK, ProcessTypes, store

LEMMA TypeDecide ==
  ASSUME TypeOK, NEW h \in Host, Decide(h)
  PROVE  TypeOK'
<1>1. process[h] \in HostState /\ (ledger # None => ledger \in Ledger)
  BY DEF TypeOK
<1>2. CASE Initialise(h)
  BY <1>2, InitialIsLedger, TypeSaving DEF Initialise, store
<1>3. CASE LeaseChunks(h)
  <2>1. /\ process[h].call.worker \in Worker
        /\ ledger \in Ledger
    BY <1>1, <1>3, HostFields, CallFields DEF LeaseChunks, Loaded
  <2> QED
    BY <1>3, <2>1, LeasedIsLedger, TypeSaving DEF LeaseChunks, Loaded, store
<1>4. CASE CompleteChunk(h)
  <2>1. /\ process[h].call.claim.job \in Job /\ process[h].call.response \in Response
        /\ ledger \in Ledger
    BY <1>1, <1>4, HostFields, CallFields DEF CompleteChunk, Loaded
  <2> QED
    BY <1>4, <2>1, CompletedIsLedger, TypeSaving DEF CompleteChunk, Loaded, store
<1>5. CASE FailChunk(h)
  <2>1. /\ process[h].call.claim.job \in Job /\ process[h].call.error \in Error
        /\ ledger \in Ledger
    BY <1>1, <1>5, HostFields, CallFields DEF FailChunk, Loaded
  <2> QED
    BY <1>5, <2>1, FailedIsLedger, TypeSaving DEF FailChunk, Loaded, store
<1>6. CASE RequeueChunk(h) \/ ReclaimChunk(h)
  <2>1. process[h].call.job \in Job /\ ledger \in Ledger
    BY <1>1, <1>6, HostFields, CallFields DEF RequeueChunk, ReclaimChunk, Loaded
  <2> QED
    BY <1>6, <2>1, ReturnedIsLedger, TypeSaving DEF RequeueChunk, ReclaimChunk, Loaded, store
<1>7. CASE CompleteAgain(h) \/ FailAgain(h) \/ ReturnAgain(h)
  BY <1>1, <1>7, TypeSaving DEF CompleteAgain, FailAgain, ReturnAgain, Loaded, store
<1>8. CASE Refuse(h)
  BY <1>8, TypeReturn DEF Refuse, store
<1> QED
  BY <1>2, <1>3, <1>4, <1>5, <1>6, <1>7, <1>8 DEF Decide

LEMMA InstallingFields ==
  ASSUME NEW s \in Installing
  PROVE  /\ [s EXCEPT !.link = "linked"] \in Installing
         /\ [s EXCEPT !.link = "attesting"] \in Installing
         /\ \A a \in {"response", "structured", "snapshot"} :
              [s EXCEPT !.at = a, !.link = "none"] \in Installing
         /\ s.at \in {"response", "structured", "snapshot"}
         /\ s.link \in {"none", "linked", "attesting"}
BY DEF Installing

LEMMA AssemblingFields ==
  ASSUME NEW s \in Assembling
  PROVE  /\ [s EXCEPT !.link = "linked"] \in Assembling
         /\ [s EXCEPT !.link = "attesting"] \in Assembling
         /\ \A a \in {"book", "manifest"} :
              [s EXCEPT !.at = a, !.link = "none"] \in Assembling
         /\ s.at \in {"book", "manifest"}
         /\ s.link \in {"none", "linked", "attesting"}
BY DEF Assembling

(* A process with a phase of the store is at one of its own. *)
LEMMA InstallerStates ==
  ASSUME TypeOK, NEW p \in Host \cup Assembler, process[p].at \in Phase
  PROVE  /\ p \in Host => /\ process[p] \in Installing
                          /\ process[p].at \in {"response", "structured", "snapshot"}
         /\ p \in Assembler => /\ process[p] \in Assembling
                               /\ process[p].at \in {"book", "manifest"}
BY HostFields, AssemblerFields DEF TypeOK, Phase

LEMMA AdvanceTypes ==
  ASSUME TypeOK, NEW p \in Host \cup Assembler, process[p].at \in Phase, Advance(p)
  PROVE  ProcessTypes'
<1>1. CASE p \in Host
  <2>1. /\ process[p] \in Installing /\ process[p] \in HostState
        /\ process[p].at \in {"response", "structured", "snapshot"}
        /\ \A a \in Assembler : p # a
    BY <1>1, InstallerStates, AssemblersAreNoHosts DEF TypeOK
  <2>2. CASE process[p].at \in {"response", "structured"}
    <3>1. Become(p, [process[p] EXCEPT !.at = NextPhase[@], !.link = "none"])
      BY <2>2 DEF Advance
    <3>2. NextPhase[process[p].at] \in {"structured", "snapshot"}
      BY <2>2 DEF NextPhase
    <3> QED
      BY <2>1, <3>1, <3>2, InstallingFields, BecomeTypes DEF TypeOK, ProcessTypes, HostState
  <2>3. CASE process[p].at = "snapshot"
    <3>1. Become(p, [at |-> "pointer", call |-> process[p].call, to |-> process[p].to,
                     last |-> process[p].last])
      BY <2>3 DEF Advance, NextPhase
    <3> QED
      BY <2>1, <3>1, HostFields, HostStates, BecomeTypes DEF TypeOK, ProcessTypes
  <2> QED
    BY <2>1, <2>2, <2>3
<1>2. CASE p \in Assembler
  <2>1. /\ process[p] \in Assembling
        /\ process[p].at \in {"book", "manifest"}
        /\ \A h \in Host : p # h
    BY <1>2, InstallerStates, AssemblersAreNoHosts
  <2>2. CASE process[p].at = "book"
    <3>1. Become(p, [process[p] EXCEPT !.at = NextPhase[@], !.link = "none"])
      BY <2>2 DEF Advance
    <3>2. NextPhase[process[p].at] = "manifest"
      BY <2>2 DEF NextPhase
    <3> QED
      BY <1>2, <2>1, <3>1, <3>2, AssemblingFields, BecomeTypes
      DEF TypeOK, ProcessTypes, AssemblerState
  <2>3. CASE process[p].at = "manifest"
    <3>1. Become(p, Idle)
      BY <2>3 DEF Advance, NextPhase
    <3> QED
      BY <2>1, <3>1, BecomeTypes DEF TypeOK, ProcessTypes, AssemblerState
  <2> QED
    BY <2>1, <2>2, <2>3
<1> QED
  BY <1>1, <1>2

LEMMA LinkStepTypes ==
  ASSUME TypeOK, NEW p \in Host \cup Assembler, process[p].at \in Phase,
         NEW l \in {"linked", "attesting"}, Become(p, [process[p] EXCEPT !.link = l])
  PROVE  ProcessTypes'
<1>1. CASE p \in Host
  BY <1>1, InstallerStates, InstallingFields, AssemblersAreNoHosts, BecomeTypes
  DEF TypeOK, ProcessTypes, HostState
<1>2. CASE p \in Assembler
  BY <1>2, InstallerStates, AssemblingFields, AssemblersAreNoHosts, BecomeTypes
  DEF TypeOK, ProcessTypes, AssemblerState
<1> QED
  BY <1>1, <1>2

LEMMA EndTypes ==
  ASSUME TypeOK, NEW p \in Host \cup Assembler, End(p)
  PROVE  ProcessTypes' /\ lock' \in Host \cup {None}
BY HostStates, AssemblersAreNoHosts, BecomeTypes
DEF End, TypeOK, ProcessTypes, AssemblerState

LEMMA TypeInstall ==
  ASSUME TypeOK, NEW p \in Host \cup Assembler, Install(p),
         p \in Host => OnlyCompletionInstalls(p)
  PROVE  TypeOK'
<1>1. process[p].at \in Phase
  BY DEF Install, LinkPayload, ReusePayload, RefuseUnsafe, Unlink, Attest, Installs
<1>2. NameOf(p) \in Name
  BY <1>1, NameTypes
<1>3. CASE LinkPayload(p)
  <2>1. ProcessTypes'
    BY <1>1, <1>3, LinkStepTypes DEF LinkPayload
  <2> QED
    BY <1>2, <1>3, <2>1 DEF LinkPayload, Link, TypeOK, ProcessTypes, Name
<1>4. CASE ReusePayload(p)
  <2>1. ProcessTypes'
    BY <1>1, <1>4, AdvanceTypes DEF ReusePayload
  <2> QED
    BY <1>4, <2>1 DEF ReusePayload, Reuse, TypeOK, ProcessTypes, store
<1>5. CASE RefuseUnsafe(p)
  <2>1. ProcessTypes' /\ lock' \in Host \cup {None}
    BY <1>5, EndTypes DEF RefuseUnsafe
  <2> QED
    BY <1>5, <2>1 DEF RefuseUnsafe, TypeOK, ProcessTypes, store
<1>6. CASE Unlink(p)
  <2>1. ProcessTypes'
    BY <1>1, <1>6, LinkStepTypes DEF Unlink
  <2> QED
    BY <1>6, <2>1 DEF Unlink, UnlinkTemporary, TypeOK, ProcessTypes
<1>7. CASE Attest(p)
  <2>1. ProcessTypes'
    BY <1>1, <1>7, AdvanceTypes DEF Attest
  <2> QED
    BY <1>7, <2>1 DEF Attest, TypeOK, ProcessTypes, store
<1> QED
  BY <1>3, <1>4, <1>5, <1>6, <1>7 DEF Install

LEMMA TypeReplace ==
  ASSUME TypeOK, NEW h \in Host, Replace(h)
  PROVE  TypeOK'
<1>1. Point(h)
  BY DEF Replace, PointAndReturn, PointAndGoOn, PointAndFail
<1>2. process[h] \in HostState /\ process[h].call \in Call /\ process[h].to \in Ledger
  BY <1>1, HostFields DEF Point, TypeOK
<1>3. ProcessTypes' /\ lock' \in Host \cup {None}
  BY <1>2, HostStates, AssemblersAreNoHosts, BecomeTypes
  DEF Replace, PointAndReturn, PointAndGoOn, PointAndFail, Return, TypeOK, ProcessTypes
<1>4. NewClaims(h) \subseteq Claim
  <2>1. ASSUME NEW j \in Job, process[h].call.op = "lease"
        PROVE  [job |-> j, worker |-> process[h].call.worker,
                attempts |-> process[h].to[j].attempts] \in Claim
    BY <1>2, <2>1, CallFields, RecordFields DEF Claim
  <2> QED
    BY <2>1 DEF NewClaims
<1>5. granted' \subseteq Claim /\ mishaps' \in Nat
  BY <1>4 DEF Replace, PointAndReturn, PointAndGoOn, PointAndFail, Mishap, TypeOK
<1>6. stored' \subseteq stored /\ doubled' \subseteq doubled /\ ledger' \in Ledger
  BY <1>1, <1>2 DEF Point
<1> QED
  BY <1>3, <1>5, <1>6 DEF TypeOK, ProcessTypes

LEMMA TypeMishap ==
  ASSUME TypeOK, NEW p \in Host \cup Assembler, Fault(p) \/ Crash(p)
  PROVE  TypeOK'
<1>1. ProcessTypes' /\ lock' \in Host \cup {None}
  BY EndTypes DEF Fault, Crash
<1>2. stored' \subseteq stored /\ doubled' \subseteq doubled
  BY DEF Fault, Crash, Withdraw, store
<1>3. UNCHANGED <<ledger, granted>> /\ mishaps' \in Nat
  BY DEF Fault, Crash, Mishap, TypeOK
<1> QED
  BY <1>1, <1>2, <1>3 DEF TypeOK, ProcessTypes

LEMMA TypeAssemble ==
  ASSUME TypeOK, NEW a \in Assembler, Assemble(a)
  PROVE  TypeOK'
<1>1. PICK responses \in [Job -> Response] :
        Become(a, [at |-> "book", link |-> "none", responses |-> responses])
  BY DEF Assemble
<1>2. [at |-> "book", link |-> "none", responses |-> responses] \in AssemblerState
  BY DEF AssemblerState, Assembling
<1>3. ProcessTypes'
  BY <1>1, <1>2, AssemblersAreNoHosts, BecomeTypes DEF TypeOK, ProcessTypes
<1> QED
  BY <1>3 DEF Assemble, TypeOK, ProcessTypes, store

LEMMA TypeStep ==
  ASSUME TypeOK, \A h \in Host : OnlyCompletionInstalls(h), [Next]_vars
  PROVE  TypeOK'
<1>1. CASE Next
  BY <1>1, TypeBegin, TypeDecide, TypeReplace, TypeAssemble, TypeInstall, TypeMishap DEF Next
<1>2. CASE UNCHANGED vars
  BY <1>2 DEF TypeOK, vars, store
<1> QED
  BY <1>1, <1>2

(* The lock. *)
LEMMA BecomeSets ==
  ASSUME TypeOK, NEW p \in Host \cup Assembler, NEW s, Become(p, s)
  PROVE  /\ process'[p] = s
         /\ \A q \in Host \cup Assembler : q # p => process'[q] = process[q]
BY DEF TypeOK, Become

\* Whatever happens to a host, all others are idle before and after.
LEMMA LockKept ==
  ASSUME TypeOK, LockInv, NEW h \in Host, NEW s, Become(h, s),
         process[h].at # "idle", s.at # "idle", lock' = lock
  PROVE  LockInv' /\ \A g \in Host \ {h} : process'[g].at = "idle"
BY BecomeSets DEF LockInv

LEMMA LockReturned ==
  ASSUME TypeOK, LockInv, NEW h \in Host, process[h].at # "idle", End(h) \/ Return(h)
  PROVE  LockInv' /\ \A g \in Host : process'[g].at = "idle"
<1>1. lock = h /\ lock' = None /\ Become(h, Idle)
  BY DEF LockInv, End, Return
<1>2. \A g \in Host : process'[g].at = "idle"
  BY <1>1, BecomeSets DEF LockInv, Idle
<1> QED
  BY <1>1, <1>2, ConstantsAssumption DEF LockInv

LEMMA LockAcquired ==
  ASSUME TypeOK, LockInv, NEW h \in Host, NEW call, Acquire(h, call)
  PROVE  LockInv' /\ \A g \in Host \ {h} : process'[g].at = "idle"
<1>1. \A g \in Host : process[g].at = "idle"
  BY ConstantsAssumption DEF Acquire, LockIsFree, LockInv
<1>2. process'[h].at = "locked" /\ \A g \in Host \ {h} : process'[g] = process[g]
  BY BecomeSets DEF Acquire
<1> QED
  BY <1>1, <1>2 DEF LockInv, Acquire

\* A step of an assembler is none of a host's.
LEMMA AssemblerStep ==
  ASSUME TypeOK, LockInv, NEW a \in Assembler, NEW s, Become(a, s),
         lock' = lock \/ End(a)
  PROVE  LockInv' /\ \A h \in Host : process'[h] = process[h]
<1>1. \A h \in Host : process'[h] = process[h]
  BY BecomeSets, AssemblersAreNoHosts
<1>2. \A h \in Host : lock' = h <=> lock = h
  BY ConstantsAssumption DEF TypeOK, End
<1> QED
  BY <1>1, <1>2 DEF LockInv

(* The store. *)
LEMMA NameForms ==
  ASSUME NEW p, process[p].at \in Phase
  PROVE  /\ process[p].at \in {"response", "structured"} =>
              NameOf(p) = <<process[p].at, process[p].call.claim.job, process[p].call.response>>
         /\ process[p].at = "snapshot" => NameOf(p) = <<"snapshot", process[p].to>>
         /\ NameOf(p)[1] = process[p].at
<1>1. CASE process[p].at \in {"response", "structured"}
  BY <1>1 DEF NameOf
<1>2. CASE process[p].at = "snapshot"
  BY <1>2 DEF NameOf
<1>3. CASE process[p].at \in {"book", "manifest"}
  BY <1>3 DEF NameOf
<1> QED
  BY <1>1, <1>2, <1>3 DEF Phase

\* Readability of payloads is all that PayloadsReadable depends on.
LEMMA PayloadsStayReadable ==
  ASSUME NEW L,
         \A j \in Job : L[j].status = "completed" =>
           /\ Readable(<<"response", j, L[j].response>>)
                => Readable(<<"response", j, L[j].response>>)'
           /\ Readable(<<"structured", j, L[j].response>>)
                => Readable(<<"structured", j, L[j].response>>)',
         PayloadsReadable(L)
  PROVE  \A j \in Job : L[j].status = "completed" =>
           /\ Readable(<<"response", j, L[j].response>>)'
           /\ Readable(<<"structured", j, L[j].response>>)'
BY DEF PayloadsReadable

LEMMA LinkKeepsReadable ==
  ASSUME NEW n, NEW m, Link(n), Readable(m)
  PROVE  Readable(m)'
BY DEF Link, Readable

LEMMA UnlinkKeepsReadable ==
  ASSUME NEW n, NEW m, UnlinkTemporary(n), Readable(m)
  PROVE  Readable(m)'
BY DEF UnlinkTemporary, Readable

LEMMA WithdrawKeepsReadable ==
  ASSUME NEW n, NEW m, Withdraw(n), Readable(m), m # n
  PROVE  Readable(m)'
BY DEF Withdraw, Readable

\* An installation changes the readability of its own name alone, and only a
\* failing one loses it.
StoreGrows == \A m : Readable(m) => Readable(m)'
LEMMA StepsGrow ==
  ASSUME NEW p, Install(p)
  PROVE  StoreGrows /\ ledger' = ledger
<1>1. ASSUME UNCHANGED store PROVE StoreGrows
  BY <1>1 DEF StoreGrows, Readable, store
<1> QED
  BY <1>1, LinkKeepsReadable, UnlinkKeepsReadable
  DEF StoreGrows, Install, LinkPayload, ReusePayload, Reuse, RefuseUnsafe, Unlink, Attest, store

(* The invariant, step by step.  After a step of a host all other hosts are   *)
(* idle, so that the invariant of a host is a matter of its own steps.        *)
LEMMA IdleHostInv ==
  ASSUME NEW h \in Host, process[h].at \in {"idle", "locked"}
  PROVE  HostInv(h)
BY DEF HostInv, TargetOfLedger, HasTarget, OnlyCompletionInstalls, PayloadsAhead, Installs, Phase

LEMMA InvInit == Init => LedgerInvariant
<1> SUFFICES ASSUME Init PROVE LedgerInvariant
  OBVIOUS
<1>1. \A h \in Host : process[h].at = "idle"
  BY DEF Init, Idle
<1>2. LockInv
  BY <1>1, ConstantsAssumption DEF LockInv, Init
<1> QED
  BY <1>1, <1>2, TypeInit, IdleHostInv DEF LedgerInvariant, Init

LEMMA InvBegin ==
  ASSUME LedgerInvariant, NEW h \in Host, Begin(h)
  PROVE  LedgerInvariant'
<1>1. PICK call : Acquire(h, call)
  BY DEF Begin, CallLease, CallComplete, CallFail, CallReturn
<1>2. LockInv' /\ \A g \in Host \ {h} : process'[g].at = "idle"
  BY <1>1, LockAcquired DEF LedgerInvariant
<1>3. process'[h].at = "locked"
  BY <1>1, BecomeSets DEF Acquire, LedgerInvariant
<1>4. \A g \in Host : HostInv(g)'
  BY <1>2, <1>3, IdleHostInv DEF HostInv, TargetOfLedger, HasTarget, OnlyCompletionInstalls,
     PayloadsAhead, Installs, Phase
<1>5. (ledger # None => PayloadsReadable(ledger))'
  BY <1>1 DEF Acquire, LedgerInvariant, PayloadsReadable, Readable, store
<1> QED
  BY <1>2, <1>4, <1>5, TypeBegin DEF LedgerInvariant

(* Deciding. *)
LEMMA NoNewCompletion ==
  ASSUME NEW L \in Ledger, NEW to, NEW j \in Job, to[j].status = "completed",
         \/ to = L
         \/ \E w \in Worker : \E jobs : to = Leased(L, w, jobs)
         \/ \E i \in Job, e \in Error : to = Failed(L, i, e)
         \/ \E i \in Job : to = Returned(L, i)
  PROVE  L[j].status = "completed" /\ to[j] = L[j]
<1>1. ASSUME NEW w \in Worker, NEW jobs, to = Leased(L, w, jobs)
      PROVE  L[j].status = "completed" /\ to[j] = L[j]
  BY <1>1, RecordFields DEF Leased, Record
<1>2. ASSUME NEW i \in Job, NEW r, r.status # "completed", to = [L EXCEPT ![i] = r]
      PROVE  L[j].status = "completed" /\ to[j] = L[j]
  BY <1>2 DEF Ledger
<1>3. ASSUME NEW i \in Job, NEW e \in Error, to = Failed(L, i, e)
      PROVE  L[j].status = "completed" /\ to[j] = L[j]
  <2>1. [L[i] EXCEPT !.status = "failed", !.error = e].status = "failed"
    BY RecordFields DEF Record
  <2> QED
    BY <1>2, <1>3, <2>1 DEF Failed
<1>4. ASSUME NEW i \in Job, to = Returned(L, i)
      PROVE  L[j].status = "completed" /\ to[j] = L[j]
  <2>1. [L[i] EXCEPT !.status = "pending", !.worker = None].status = "pending"
    BY RecordFields DEF Record
  <2> QED
    BY <1>2, <1>4, <2>1 DEF Returned
<1> QED
  BY <1>1, <1>3, <1>4

LEMMA InvSaving ==
  ASSUME LedgerInvariant, NEW h \in Host, process[h].at # "idle", NEW to,
         Saving(h, to), UNCHANGED <<store, ledger, lock, granted, mishaps>>, TypeOK',
         IF ledger = None THEN to = InitialLedger ELSE Decision(ledger, process[h].call, to),
         PayloadsReadable(to)
  PROVE  LedgerInvariant'
<1>1. process'[h] = [at |-> "snapshot", link |-> "none", call |-> process[h].call,
                     to |-> to, last |-> ledger # None]
  BY BecomeSets DEF Saving, LedgerInvariant
<1>2. LockInv' /\ \A g \in Host \ {h} : process'[g].at = "idle"
  BY LockKept DEF Saving, LedgerInvariant
<1>3. \A L : PayloadsReadable(L) => PayloadsReadable(L)'
  BY DEF PayloadsReadable, Readable, store
<1>4. TargetOfLedger(h)'
  <2>1. /\ process'[h].to = to
        /\ process'[h].call = process[h].call
        /\ process'[h].last = (ledger # None)
    BY <1>1
  <2> QED
    BY <2>1 DEF TargetOfLedger, HasTarget
<1>5. OnlyCompletionInstalls(h)' /\ PayloadsAhead(h)'
  BY <1>1 DEF OnlyCompletionInstalls, PayloadsAhead, Installs, PayloadsReadable, Readable, store
<1>6. \A g \in Host : HostInv(g)'
  BY <1>2, <1>4, <1>5 DEF HostInv, TargetOfLedger, HasTarget, OnlyCompletionInstalls,
     PayloadsAhead, Installs, Phase
<1>7. (ledger # None => PayloadsReadable(ledger))'
  BY DEF LedgerInvariant, PayloadsReadable, Readable, store
<1> QED
  BY <1>2, <1>6, <1>7 DEF LedgerInvariant

LEMMA InvBeginCompletion ==
  ASSUME LedgerInvariant, NEW h \in Host, CompleteChunk(h)
  PROVE  LedgerInvariant'
<1> DEFINE call == process[h].call
           to == Completed(ledger, call.claim.job, call.response)
<1>1. /\ process[h].at = "locked" /\ ledger # None /\ call.op = "complete"
      /\ HoldsLease(ledger, call.claim)
      /\ BeginCompletion(h, to)
      /\ UNCHANGED <<store, ledger, lock, granted, mishaps>>
  BY DEF CompleteChunk, Loaded, store
<1>2. process'[h] = [at |-> "response", link |-> "none", call |-> call,
                     to |-> to, last |-> TRUE]
  BY <1>1, BecomeSets DEF BeginCompletion, LedgerInvariant
<1>3. LockInv' /\ \A g \in Host \ {h} : process'[g].at = "idle"
  BY <1>1, LockKept DEF BeginCompletion, LedgerInvariant
<1>4. call \in CompleteCall
  BY <1>1, HostFields, CallFields DEF LedgerInvariant, TypeOK
<1>5. /\ process'[h].to = to /\ process'[h].call = call /\ process'[h].last
      /\ process'[h].at = "response" /\ process'[h].link = "none"
  BY <1>2
<1>6. TargetOfLedger(h)'
  BY <1>1, <1>5 DEF TargetOfLedger, HasTarget, Decision
<1>7. OnlyCompletionInstalls(h)'
  BY <1>1, <1>4, <1>5 DEF OnlyCompletionInstalls
<1>8. PayloadsAhead(h)'
  BY <1>5 DEF PayloadsAhead, Installs
<1>9. \A g \in Host : HostInv(g)'
  BY <1>3, <1>6, <1>7, <1>8 DEF HostInv, TargetOfLedger, HasTarget, OnlyCompletionInstalls,
     PayloadsAhead, Installs, Phase
<1>10. (ledger # None => PayloadsReadable(ledger))'
  BY <1>1 DEF LedgerInvariant, PayloadsReadable, Readable, store
<1>11. TypeOK'
  BY TypeDecide DEF Decide, LedgerInvariant
<1> QED
  BY <1>3, <1>9, <1>10, <1>11 DEF LedgerInvariant

LEMMA InvReturn ==
  ASSUME LedgerInvariant, NEW h \in Host, process[h].at # "idle", Return(h) \/ End(h), TypeOK',
         (ledger # None => PayloadsReadable(ledger))'
  PROVE  LedgerInvariant'
<1>1. LockInv' /\ \A g \in Host : process'[g].at = "idle"
  BY LockReturned DEF LedgerInvariant
<1>2. \A g \in Host : HostInv(g)'
  BY <1>1 DEF HostInv, TargetOfLedger, HasTarget, OnlyCompletionInstalls,
     PayloadsAhead, Installs, Phase
<1> QED
  BY <1>1, <1>2 DEF LedgerInvariant

LEMMA InvDecide ==
  ASSUME LedgerInvariant, NEW h \in Host, Decide(h)
  PROVE  LedgerInvariant'
<1>1. TypeOK' /\ TypeOK /\ process[h] \in HostState
  BY TypeDecide DEF LedgerInvariant, TypeOK
<1>2. CASE Initialise(h)
  <2>1. PayloadsReadable(InitialLedger)
    BY DEF PayloadsReadable, InitialLedger
  <2> QED
    BY <1>1, <1>2, <2>1, InvSaving DEF Initialise, store
<1>3. ASSUME NEW to, ledger # None, process[h].at = "locked", Saving(h, to), UNCHANGED lock,
             UNCHANGED <<store, ledger, granted, mishaps>>,
             Decision(ledger, process[h].call, to),
             \/ to = ledger
             \/ \E w \in Worker : \E jobs : to = Leased(ledger, w, jobs)
             \/ \E i \in Job, e \in Error : to = Failed(ledger, i, e)
             \/ \E i \in Job : to = Returned(ledger, i)
      PROVE  LedgerInvariant'
  <2>1. ledger \in Ledger /\ PayloadsReadable(ledger)
    BY <1>1, <1>3 DEF TypeOK, LedgerInvariant
  <2>2. ASSUME NEW j \in Job, to[j].status = "completed"
        PROVE  ledger[j].status = "completed" /\ to[j] = ledger[j]
    BY <1>3, <2>1, <2>2, NoNewCompletion
  <2>3. PayloadsReadable(to)
    BY <2>1, <2>2 DEF PayloadsReadable
  <2> QED
    BY <1>1, <1>3, <2>3, InvSaving
<1>4. CASE LeaseChunks(h)
  <2>1. process[h].call.worker \in Worker
    BY <1>1, <1>4, HostFields, CallFields DEF LeaseChunks, Loaded
  <2> QED
    BY <1>3, <1>4, <2>1 DEF LeaseChunks, Loaded, Decision
<1>5. CASE CompleteChunk(h)
  BY <1>5, InvBeginCompletion
<1>6. CASE FailChunk(h)
  <2>1. process[h].call.claim.job \in Job /\ process[h].call.error \in Error
    BY <1>1, <1>6, HostFields, CallFields DEF FailChunk, Loaded
  <2> QED
    BY <1>3, <1>6, <2>1 DEF FailChunk, Loaded, Decision
<1>7. CASE RequeueChunk(h) \/ ReclaimChunk(h)
  <2>1. process[h].call.job \in Job
    BY <1>1, <1>7, HostFields, CallFields DEF RequeueChunk, ReclaimChunk, Loaded
  <2> QED
    BY <1>3, <1>7, <2>1
    DEF RequeueChunk, ReclaimChunk, Loaded, Decision, Requeuable, Reclaimable
<1>8. CASE CompleteAgain(h) \/ FailAgain(h) \/ ReturnAgain(h)
  BY <1>3, <1>8 DEF CompleteAgain, FailAgain, ReturnAgain, Loaded, Decision
<1>9. CASE Refuse(h)
  <2>1. (ledger # None => PayloadsReadable(ledger))'
    BY <1>9 DEF Refuse, LedgerInvariant, PayloadsReadable, Readable, store
  <2> QED
    BY <1>1, <1>9, <2>1, InvReturn DEF Refuse
<1> QED
  BY <1>2, <1>4, <1>5, <1>6, <1>7, <1>8, <1>9 DEF Decide

(* Installing by a host. *)
LEMMA HostLinks ==
  ASSUME LedgerInvariant, NEW h \in Host, process[h].at \in Phase, TypeOK',
         NEW l \in {"linked", "attesting"}, Become(h, [process[h] EXCEPT !.link = l]),
         UNCHANGED <<ledger, lock>>, StoreGrows,
         l = "linked" => NameOf(h) \in stored',
         l = "attesting" => NameOf(h) \in stored' \ doubled'
  PROVE  LedgerInvariant'
<1>1. /\ process[h] \in Installing /\ process[h].at \in {"response", "structured", "snapshot"}
      /\ HostInv(h) /\ (ledger # None => PayloadsReadable(ledger))
  BY InstallerStates DEF LedgerInvariant
<1>2. process'[h] = [process[h] EXCEPT !.link = l]
  BY BecomeSets DEF LedgerInvariant
<1>3. /\ process'[h].link = l
      /\ process'[h].at = process[h].at /\ process'[h].call = process[h].call
      /\ process'[h].to = process[h].to /\ process'[h].last = process[h].last
  BY <1>1, <1>2 DEF Installing
<1>4. LockInv' /\ \A g \in Host \ {h} : process'[g].at = "idle"
  <2>1. process[h].at # "idle" /\ [process[h] EXCEPT !.link = l].at # "idle"
    BY <1>1, <1>2, <1>3
  <2> QED
    BY <2>1, LockKept DEF LedgerInvariant
<1>5. NameOf(h)' = NameOf(h)
  BY <1>1, <1>3 DEF NameOf
<1>6. TargetOfLedger(h)' /\ OnlyCompletionInstalls(h)'
  BY <1>1, <1>3 DEF HostInv, TargetOfLedger, HasTarget, OnlyCompletionInstalls
<1>7. PayloadsAhead(h)'
  <2>1. (process[h].at \in {"snapshot", "pointer"} => PayloadsReadable(process[h].to))'
    BY <1>1, <1>3 DEF HostInv, PayloadsAhead, PayloadsReadable, StoreGrows
  <2>2. (process[h].at = "structured" =>
           Readable(<<"response", process[h].call.claim.job, process[h].call.response>>))'
    BY <1>1, <1>3 DEF HostInv, PayloadsAhead, StoreGrows
  <2>3. (Installs(h, "linked") => NameOf(h) \in stored)'
    BY <1>3, <1>5 DEF Installs
  <2>4. (Installs(h, "attesting") => Readable(NameOf(h)))'
    BY <1>3, <1>5 DEF Installs, Readable
  <2> QED
    BY <2>1, <2>2, <2>3, <2>4 DEF PayloadsAhead
<1>8. \A g \in Host : HostInv(g)'
  BY <1>4, <1>6, <1>7 DEF HostInv, TargetOfLedger, HasTarget, OnlyCompletionInstalls,
     PayloadsAhead, Installs, Phase
<1>9. (ledger # None => PayloadsReadable(ledger))'
  BY <1>1 DEF PayloadsReadable, StoreGrows
<1> QED
  BY <1>4, <1>8, <1>9 DEF LedgerInvariant

\* Once the second payload is installed the completed ledger may be saved.
LEMMA BothPayloads ==
  ASSUME NEW L \in Ledger, NEW j \in Job, NEW r \in Response, PayloadsReadable(L),
         Readable(<<"response", j, r>>), Readable(<<"structured", j, r>>)
  PROVE  PayloadsReadable(Completed(L, j, r))
<1> DEFINE to == Completed(L, j, r)
<1>1. to[j].response = r
  <2>1. L[j] \in Record
    BY RecordFields
  <2>2. to[j] = [L[j] EXCEPT !.status = "completed", !.response = r, !.error = None]
    BY DEF Completed, Ledger
  <2> QED
    BY <2>1, <2>2 DEF Record
<1>2. \A i \in Job \ {j} : to[i] = L[i]
  BY DEF Completed, Ledger
<1> QED
  BY <1>1, <1>2 DEF PayloadsReadable

LEMMA HostAdvances ==
  ASSUME LedgerInvariant, NEW h \in Host, process[h].at \in Phase, TypeOK',
         Readable(NameOf(h)), Advance(h), UNCHANGED <<store, ledger, lock>>
  PROVE  LedgerInvariant'
<1>1. /\ process[h] \in Installing /\ process[h].at \in {"response", "structured", "snapshot"}
      /\ HostInv(h) /\ (ledger # None => PayloadsReadable(ledger))
      /\ ledger # None => ledger \in Ledger
  BY InstallerStates DEF LedgerInvariant, TypeOK
<1>2. \A m : Readable(m)' <=> Readable(m)
  BY DEF Readable, store
<1>3. \A L : PayloadsReadable(L) => PayloadsReadable(L)'
  BY DEF PayloadsReadable, Readable, store
<1>4. /\ process'[h].to = process[h].to /\ process'[h].call = process[h].call
      /\ process'[h].last = process[h].last
      /\ \/ /\ process[h].at = "response" /\ process'[h].at = "structured"
            /\ process'[h].link = "none"
         \/ /\ process[h].at = "structured" /\ process'[h].at = "snapshot"
            /\ process'[h].link = "none"
         \/ process[h].at = "snapshot" /\ process'[h].at = "pointer"
  <2>1. CASE process[h].at \in {"response", "structured"}
    <3>1. process'[h] = [process[h] EXCEPT !.at = NextPhase[@], !.link = "none"]
      BY <2>1, BecomeSets DEF Advance, LedgerInvariant
    <3>2. /\ process[h].at = "response" => NextPhase[process[h].at] = "structured"
          /\ process[h].at = "structured" => NextPhase[process[h].at] = "snapshot"
      BY DEF NextPhase
    <3> QED
      BY <1>1, <2>1, <3>1, <3>2 DEF Installing
  <2>2. CASE process[h].at = "snapshot"
    <3>1. process'[h] = [at |-> "pointer", call |-> process[h].call, to |-> process[h].to,
                         last |-> process[h].last]
      BY <2>2, BecomeSets DEF Advance, NextPhase, LedgerInvariant
    <3> QED
      BY <2>2, <3>1
  <2> QED
    BY <1>1, <2>1, <2>2
<1>5. LockInv' /\ \A g \in Host \ {h} : process'[g].at = "idle"
  <2>1. PICK s : Become(h, s)
    BY DEF Advance
  <2>2. process[h].at # "idle" /\ s.at # "idle"
    BY <1>4, <2>1, BecomeSets DEF LedgerInvariant
  <2> QED
    BY <2>1, <2>2, LockKept DEF LedgerInvariant
<1>6. TargetOfLedger(h)' /\ OnlyCompletionInstalls(h)'
  BY <1>1, <1>4 DEF HostInv, TargetOfLedger, HasTarget, OnlyCompletionInstalls
<1>7. PayloadsAhead(h)'
  <2>1. ~Installs(h, "linked")' /\ ~Installs(h, "attesting")'
    BY <1>4 DEF Installs, Phase
  <2>2. (process[h].at = "structured" =>
           Readable(<<"response", process[h].call.claim.job, process[h].call.response>>))'
    BY <1>2, <1>4, NameForms
  <2>3. (process[h].at \in {"snapshot", "pointer"} => PayloadsReadable(process[h].to))'
    <3>1. CASE process[h].at = "structured"
      <4>1. /\ process[h].call \in CompleteCall /\ ledger # None
            /\ process[h].to =
                 Completed(ledger, process[h].call.claim.job, process[h].call.response)
            /\ Readable(<<"response", process[h].call.claim.job, process[h].call.response>>)
        BY <1>1, <3>1 DEF HostInv, OnlyCompletionInstalls, PayloadsAhead
      <4>2. process[h].call.claim.job \in Job /\ process[h].call.response \in Response
        BY <4>1 DEF CompleteCall, Claim
      <4>3. Readable(<<"structured", process[h].call.claim.job, process[h].call.response>>)
        BY <3>1, NameForms
      <4> QED
        BY <1>1, <1>3, <1>4, <4>1, <4>2, <4>3, BothPayloads
    <3>2. CASE process[h].at = "snapshot"
      BY <1>1, <1>3, <1>4, <3>2 DEF HostInv, PayloadsAhead
    <3> QED
      BY <1>4, <3>1, <3>2
  <2> QED
    BY <2>1, <2>2, <2>3 DEF PayloadsAhead
<1>8. \A g \in Host : HostInv(g)'
  BY <1>5, <1>6, <1>7 DEF HostInv, TargetOfLedger, HasTarget, OnlyCompletionInstalls,
     PayloadsAhead, Installs, Phase
<1> QED
  BY <1>1, <1>3, <1>5, <1>8 DEF LedgerInvariant

LEMMA HostInstalls ==
  ASSUME LedgerInvariant, NEW h \in Host, Install(h)
  PROVE  LedgerInvariant'
<1>1. process[h].at \in Phase
  BY DEF Install, LinkPayload, ReusePayload, RefuseUnsafe, Unlink, Attest, Installs
<1>2. TypeOK'
  BY TypeInstall DEF LedgerInvariant, HostInv
<1>3. StoreGrows /\ ledger' = ledger
  BY StepsGrow
<1>4. PayloadsAhead(h)
  BY DEF LedgerInvariant, HostInv
<1>5. CASE LinkPayload(h)
  BY <1>1, <1>2, <1>3, <1>5, HostLinks DEF LinkPayload, Link
<1>6. CASE ReusePayload(h)
  BY <1>1, <1>2, <1>6, HostAdvances DEF ReusePayload, Reuse, store
<1>7. CASE RefuseUnsafe(h)
  <2>1. process[h].at # "idle"
    BY <1>1 DEF Phase
  <2>2. (ledger # None => PayloadsReadable(ledger))'
    BY <1>3 DEF LedgerInvariant, PayloadsReadable, StoreGrows
  <2> QED
    BY <1>2, <1>7, <2>1, <2>2, InvReturn DEF RefuseUnsafe
<1>8. CASE Unlink(h)
  <2>1. NameOf(h) \in stored' \ doubled'
    BY <1>4, <1>8 DEF Unlink, UnlinkTemporary, PayloadsAhead, Readable
  <2> QED
    BY <1>1, <1>2, <1>3, <1>8, <2>1, HostLinks DEF Unlink
<1>9. CASE Attest(h)
  BY <1>1, <1>2, <1>4, <1>9, HostAdvances DEF Attest, PayloadsAhead, store
<1> QED
  BY <1>5, <1>6, <1>7, <1>8, <1>9 DEF Install

(* An assembler touches no file that a host knows of. *)
LEMMA AssemblerNames ==
  ASSUME TypeOK, NEW a \in Assembler, NEW h \in Host,
         process[a].at \in Phase, process[h].at \in Phase
  PROVE  NameOf(a) # NameOf(h)
<1>1. process[a].at \in {"book", "manifest"}
      /\ process[h].at \in {"response", "structured", "snapshot"}
  BY InstallerStates
<1>2. NameOf(a)[1] = process[a].at /\ NameOf(h)[1] = process[h].at
  BY NameForms
<1> QED
  BY <1>1, <1>2

LEMMA AssemblerIsNoPayload ==
  ASSUME TypeOK, NEW a \in Assembler, process[a].at \in Phase, NEW j, NEW r
  PROVE  NameOf(a) # <<"response", j, r>> /\ NameOf(a) # <<"structured", j, r>>
<1>1. NameOf(a)[1] \in {"book", "manifest"}
  BY InstallerStates, NameForms
<1> QED
  BY <1>1

LEMMA InvAssembler ==
  ASSUME LedgerInvariant, NEW a \in Assembler, TypeOK', NEW s, Become(a, s),
         ledger' = ledger, lock' = lock \/ End(a),
         \A m : (process[a].at \in Phase => m # NameOf(a)) =>
           (m \in stored' <=> m \in stored) /\ (m \in doubled' <=> m \in doubled)
  PROVE  LedgerInvariant'
<1>1. LockInv' /\ \A h \in Host : process'[h] = process[h]
  BY AssemblerStep DEF LedgerInvariant
<1>2. \A j, r : /\ Readable(<<"response", j, r>>)' <=> Readable(<<"response", j, r>>)
                /\ Readable(<<"structured", j, r>>)' <=> Readable(<<"structured", j, r>>)
  BY AssemblerIsNoPayload DEF LedgerInvariant, Readable
<1>3. \A L : PayloadsReadable(L)' <=> PayloadsReadable(L)
  BY <1>2 DEF PayloadsReadable
<1>4. ASSUME NEW h \in Host PROVE HostInv(h)'
  <2>1. TargetOfLedger(h)' /\ OnlyCompletionInstalls(h)'
    BY <1>1 DEF LedgerInvariant, HostInv, TargetOfLedger, HasTarget, OnlyCompletionInstalls
  <2>2. process[h].at \in Phase =>
          /\ NameOf(h)' = NameOf(h)
          /\ NameOf(h) \in stored' <=> NameOf(h) \in stored
          /\ NameOf(h) \in doubled' <=> NameOf(h) \in doubled
    <3>1. NameOf(h)' = NameOf(h)
      BY <1>1 DEF NameOf
    <3> QED
      BY <3>1, AssemblerNames DEF LedgerInvariant
  <2>3. /\ (Installs(h, "linked") => NameOf(h) \in stored)'
        /\ (Installs(h, "attesting") => Readable(NameOf(h)))'
    BY <1>1, <2>2 DEF LedgerInvariant, HostInv, PayloadsAhead, Installs, Readable
  <2>4. (process[h].at \in {"snapshot", "pointer"} => PayloadsReadable(process[h].to))'
    BY <1>1, <1>3 DEF LedgerInvariant, HostInv, PayloadsAhead
  <2>5. (process[h].at = "structured" =>
           Readable(<<"response", process[h].call.claim.job, process[h].call.response>>))'
    BY <1>1, <1>2 DEF LedgerInvariant, HostInv, PayloadsAhead
  <2> QED
    BY <2>1, <2>3, <2>4, <2>5 DEF HostInv, PayloadsAhead
<1>5. (ledger # None => PayloadsReadable(ledger))'
  BY <1>3 DEF LedgerInvariant
<1> QED
  BY <1>1, <1>4, <1>5 DEF LedgerInvariant

LEMMA AssemblerInstalls ==
  ASSUME LedgerInvariant, NEW a \in Assembler, Install(a)
  PROVE  LedgerInvariant'
<1>1. TypeOK'
  BY TypeInstall, AssemblersAreNoHosts DEF LedgerInvariant
<1>2. PICK s : Become(a, s)
  BY DEF Install, LinkPayload, ReusePayload, RefuseUnsafe, Unlink, Attest, Advance, End
<1>3. ledger' = ledger /\ (lock' = lock \/ End(a))
  BY DEF Install, LinkPayload, ReusePayload, RefuseUnsafe, Unlink, Attest
<1>4. process[a].at \in Phase
  BY DEF Install, LinkPayload, ReusePayload, RefuseUnsafe, Unlink, Attest, Installs
<1>5. \A m : m # NameOf(a) =>
        (m \in stored' <=> m \in stored) /\ (m \in doubled' <=> m \in doubled)
  BY DEF Install, LinkPayload, Link, ReusePayload, Reuse, RefuseUnsafe, Unlink,
     UnlinkTemporary, Attest, store
<1> QED
  BY <1>1, <1>2, <1>3, <1>4, <1>5, InvAssembler

LEMMA InvAssemble ==
  ASSUME LedgerInvariant, NEW a \in Assembler, Assemble(a)
  PROVE  LedgerInvariant'
<1>1. TypeOK'
  BY TypeAssemble DEF LedgerInvariant
<1>2. PICK s : Become(a, s)
  BY DEF Assemble
<1>3. UNCHANGED <<stored, doubled, ledger, lock>>
  BY DEF Assemble, store
<1> QED
  BY <1>1, <1>2, <1>3, InvAssembler

(* Replacing the pointer. *)
LEMMA InvReplace ==
  ASSUME LedgerInvariant, NEW h \in Host, Replace(h)
  PROVE  LedgerInvariant'
<1>1. /\ process[h].at = "pointer" /\ ledger' = process[h].to
      /\ \A m : m[1] # "snapshot" => /\ m \in stored' <=> m \in stored
                                     /\ m \in doubled' <=> m \in doubled
  BY DEF Replace, PointAndReturn, PointAndGoOn, PointAndFail, Point
<1>2. TypeOK'
  BY TypeReplace DEF LedgerInvariant
<1>3. PayloadsReadable(ledger)'
  <2>1. PayloadsReadable(process[h].to)
    BY <1>1 DEF LedgerInvariant, HostInv, PayloadsAhead
  <2>2. ASSUME NEW j, NEW r, NEW k \in {"response", "structured"}, Readable(<<k, j, r>>)
        PROVE  Readable(<<k, j, r>>)'
    <3>1. <<k, j, r>>[1] # "snapshot"
      OBVIOUS
    <3> QED
      BY <1>1, <2>2, <3>1 DEF Readable
  <2> QED
    BY <1>1, <2>1, <2>2 DEF PayloadsReadable
<1>4. CASE Return(h)
  BY <1>1, <1>2, <1>3, <1>4, InvReturn
<1>5. CASE PointAndGoOn(h)
  <2>1. process'[h].at = "locked"
    BY <1>5, BecomeSets DEF PointAndGoOn, LedgerInvariant
  <2>2. LockInv' /\ \A g \in Host \ {h} : process'[g].at = "idle"
    BY <1>1, <1>5, LockKept DEF PointAndGoOn, LedgerInvariant
  <2>3. \A g \in Host : HostInv(g)'
    BY <2>1, <2>2 DEF HostInv, TargetOfLedger, HasTarget, OnlyCompletionInstalls,
       PayloadsAhead, Installs, Phase
  <2> QED
    BY <1>2, <1>3, <2>2, <2>3 DEF LedgerInvariant
<1> QED
  BY <1>4, <1>5 DEF Replace, PointAndReturn, PointAndFail

(* Mishaps.  A host that withdraws what it has linked takes no payload from   *)
(* the ledger: the chunk whose response it installs is still leased.          *)
LEMMA WithdrawnIsNotNeeded ==
  ASSUME LedgerInvariant, NEW h \in Host, process[h].at \in Phase, ledger # None,
         NEW j \in Job, ledger[j].status = "completed", NEW r
  PROVE  NameOf(h) # <<"response", j, r>> /\ NameOf(h) # <<"structured", j, r>>
<1>1. OnlyCompletionInstalls(h) /\ process[h].at \in {"response", "structured", "snapshot"}
  BY InstallerStates DEF LedgerInvariant, HostInv
<1>2. CASE process[h].at \in {"response", "structured"}
  <2>1. process[h].call.claim.job # j
    BY <1>1, <1>2 DEF OnlyCompletionInstalls, HoldsLease
  <2> QED
    BY <1>2, <2>1, NameForms
<1>3. CASE process[h].at = "snapshot"
  <2>1. NameOf(h)[1] = "snapshot"
    BY <1>3, NameForms
  <2> QED
    BY <2>1
<1> QED
  BY <1>1, <1>2, <1>3

LEMMA InvMishap ==
  ASSUME LedgerInvariant, NEW p \in Host \cup Assembler, Fault(p) \/ Crash(p)
  PROVE  LedgerInvariant'
<1>1. TypeOK'
  BY TypeMishap DEF LedgerInvariant
<1>2. /\ process[p].at # "idle" /\ End(p) /\ ledger' = ledger
      /\ \/ process[p].at \in Phase /\ Withdraw(NameOf(p))
         \/ UNCHANGED store
  BY DEF Fault, Crash, Installs
<1>3. CASE p \in Host
  <2>1. (ledger # None => PayloadsReadable(ledger))'
    <3> SUFFICES ASSUME ledger # None, NEW j \in Job, ledger[j].status = "completed",
                        NEW k \in {"response", "structured"}
                 PROVE  Readable(<<k, j, ledger[j].response>>)'
      BY <1>2 DEF PayloadsReadable
    <3>1. Readable(<<k, j, ledger[j].response>>)
      BY DEF LedgerInvariant, PayloadsReadable
    <3>2. process[p].at \in Phase => NameOf(p) # <<k, j, ledger[j].response>>
      BY <1>3, WithdrawnIsNotNeeded
    <3> QED
      BY <1>2, <3>1, <3>2, WithdrawKeepsReadable DEF Readable, store
  <2> QED
    BY <1>1, <1>2, <1>3, <2>1, InvReturn
<1>4. CASE p \in Assembler
  <2>1. \A m : (process[p].at \in Phase => m # NameOf(p)) =>
          (m \in stored' <=> m \in stored) /\ (m \in doubled' <=> m \in doubled)
    BY <1>2 DEF Withdraw, store
  <2>2. PICK s : Become(p, s)
    BY <1>2 DEF End
  <2> QED
    BY <1>1, <1>2, <1>4, <2>1, <2>2, InvAssembler
<1> QED
  BY <1>3, <1>4

LEMMA InvStep == LedgerInvariant /\ [Next]_vars => LedgerInvariant'
<1> SUFFICES ASSUME LedgerInvariant, [Next]_vars PROVE LedgerInvariant'
  OBVIOUS
<1>1. ASSUME NEW h \in Host, Begin(h) \/ Decide(h) \/ Replace(h) PROVE LedgerInvariant'
  BY <1>1, InvBegin, InvDecide, InvReplace
<1>2. ASSUME NEW a \in Assembler, Assemble(a) PROVE LedgerInvariant'
  BY <1>2, InvAssemble
<1>3. ASSUME NEW p \in Host \cup Assembler, Install(p) \/ Fault(p) \/ Crash(p)
      PROVE  LedgerInvariant'
  BY <1>3, HostInstalls, AssemblerInstalls, InvMishap
<1>4. CASE UNCHANGED vars
  <2>1. TypeOK' /\ LockInv'
    BY <1>4 DEF LedgerInvariant, TypeOK, LockInv, vars, store
  <2>2. (ledger # None => PayloadsReadable(ledger))'
    BY <1>4 DEF LedgerInvariant, PayloadsReadable, Readable, vars, store
  <2>3. ASSUME NEW h \in Host PROVE HostInv(h)'
    <3>1. HostInv(h) /\ NameOf(h)' = NameOf(h)
      BY <1>4 DEF LedgerInvariant, NameOf, vars
    <3>2. TargetOfLedger(h)' /\ OnlyCompletionInstalls(h)'
      BY <1>4, <3>1 DEF HostInv, TargetOfLedger, HasTarget, OnlyCompletionInstalls, vars
    <3>3. PayloadsAhead(h)'
      BY <1>4, <3>1 DEF HostInv, PayloadsAhead, PayloadsReadable, Readable, Installs, vars, store
    <3> QED
      BY <3>2, <3>3 DEF HostInv
  <2> QED
    BY <2>1, <2>2, <2>3 DEF LedgerInvariant
<1> QED
  BY <1>1, <1>2, <1>3, <1>4 DEF Next

(* What a save does to one chunk. *)
LEMMA LedgerStep ==
  ASSUME LedgerInvariant, [Next]_vars, ledger' # ledger
  PROVE  \E h \in Host :
           /\ process[h].at = "pointer" /\ process[h].call \in Call
           /\ ledger' = process[h].to /\ process[h].to \in Ledger
           /\ TargetOfLedger(h)
<1>1. ASSUME NEW p, Install(p) PROVE FALSE
  BY <1>1 DEF Install, LinkPayload, ReusePayload, RefuseUnsafe, Unlink, Attest
<1>2. ASSUME NEW h, Begin(h) \/ Decide(h) PROVE FALSE
  BY <1>2 DEF Begin, CallLease, CallComplete, CallFail, CallReturn, Acquire, Decide,
     Initialise, LeaseChunks, CompleteChunk, CompleteAgain, FailChunk, FailAgain,
     RequeueChunk, ReclaimChunk, ReturnAgain, Refuse, Loaded
<1>3. ASSUME NEW p, Assemble(p) \/ Fault(p) \/ Crash(p) PROVE FALSE
  BY <1>3 DEF Assemble, Fault, Crash
<1>4. PICK h \in Host : Replace(h)
  BY <1>1, <1>2, <1>3 DEF Next, vars
<1>5. process[h].at = "pointer" /\ ledger' = process[h].to
  BY <1>4 DEF Replace, PointAndReturn, PointAndGoOn, PointAndFail, Point
<1>6. process[h].call \in Call /\ process[h].to \in Ledger
  BY <1>5, HostFields DEF LedgerInvariant, TypeOK
<1> QED
  BY <1>5, <1>6 DEF LedgerInvariant, HostInv

\* One chunk of a ledger changes, in some of its fields.
LEMMA OneChunk ==
  ASSUME NEW L \in Ledger, NEW i \in Job, NEW j \in Job, NEW r
  PROVE  [L EXCEPT ![i] = r][j] = IF i = j THEN r ELSE L[j]
BY DEF Ledger

LEMMA ChunkChange ==
  ASSUME NEW L \in Ledger, NEW call \in Call, NEW to, Decision(L, call, to), NEW j \in Job
  PROVE  \/ to[j] = L[j]
         \/ /\ call.op = "lease" /\ L[j].status = "pending"
            /\ to[j].status = "leased"
         \/ /\ call.op \in {"complete", "fail"} /\ call.claim.job = j
            /\ HoldsLease(L, call.claim)
            /\ to[j].status \in {"completed", "failed"}
         \/ /\ call.op \in {"requeue", "reclaim"}
            /\ L[j].status \in {"leased", "failed"}
            /\ to[j].status = "pending"
<1>1. L[j] \in Record
  BY RecordFields
<1>2. CASE call.op = "lease" /\ to = Leased(L, call.worker, FirstPending(L, call.limit))
  <2>1. CASE j \in FirstPending(L, call.limit)
    <3>1. L[j].status = "pending"
      BY <2>1 DEF FirstPending, PendingIn
    <3>2. to[j] = [L[j] EXCEPT !.status = "leased", !.worker = call.worker,
                               !.attempts = @ + 1, !.error = None]
      BY <1>2, <2>1 DEF Leased
    <3> QED
      BY <1>1, <1>2, <3>1, <3>2 DEF Record
  <2>2. CASE j \notin FirstPending(L, call.limit)
    BY <1>2, <2>2 DEF Leased
  <2> QED
    BY <2>1, <2>2
<1>3. CASE call.op \in {"complete", "fail"} /\ to # L
  <2>1. call.claim.job \in Job /\ HoldsLease(L, call.claim)
    BY <1>3, CallFields DEF Decision
  <2>2. CASE call.claim.job = j
    <3>1. \/ to = Completed(L, j, call.response)
          \/ to = Failed(L, j, call.error)
      BY <1>3, <2>2 DEF Decision
    <3>2. \/ to[j] = [L[j] EXCEPT !.status = "completed", !.response = call.response,
                                  !.error = None]
          \/ to[j] = [L[j] EXCEPT !.status = "failed", !.error = call.error]
      BY <3>1 DEF Completed, Failed, Ledger
    <3>3. to[j].status \in {"completed", "failed"}
      BY <1>1, <3>2 DEF Record
    <3> QED
      BY <1>3, <2>1, <2>2, <3>3
  <2>3. CASE call.claim.job # j
    BY <1>3, <2>1, <2>3, OneChunk DEF Decision, Completed, Failed
  <2> QED
    BY <2>2, <2>3
<1>4. CASE call.op \in {"requeue", "reclaim"} /\ to # L
  <2>1. call.job \in Job /\ to = Returned(L, call.job)
        /\ L[call.job].status \in {"leased", "failed"}
    BY <1>4, CallFields DEF Decision
  <2>2. CASE call.job = j
    <3>1. to[j] = [L[j] EXCEPT !.status = "pending", !.worker = None]
      BY <2>1, <2>2 DEF Returned, Ledger
    <3>2. to[j].status = "pending"
      BY <1>1, <3>1 DEF Record
    <3> QED
      BY <1>4, <2>1, <2>2, <3>2
  <2>3. CASE call.job # j
    BY <2>1, <2>3, OneChunk DEF Returned
  <2> QED
    BY <2>2, <2>3
<1> QED
  BY <1>2, <1>3, <1>4, CallFields DEF Decision

LEMMA ResponseChange ==
  ASSUME NEW L \in Ledger, NEW call \in Call, NEW to, Decision(L, call, to), NEW j \in Job,
         to[j].status # "completed"
  PROVE  to[j].response = L[j].response
<1>1. L[j] \in Record
  BY RecordFields
<1>2. CASE call.op = "lease" /\ to = Leased(L, call.worker, FirstPending(L, call.limit))
  BY <1>1, <1>2 DEF Leased, Record
<1>3. ASSUME NEW i \in Job, NEW r, to = [L EXCEPT ![i] = r], i = j => r.response = L[j].response
      PROVE  to[j].response = L[j].response
  BY <1>3, OneChunk
<1>4. CASE call.op = "complete" /\ to = Completed(L, call.claim.job, call.response)
  <2>1. call.claim.job \in Job
    BY <1>4, CallFields
  <2>2. call.claim.job # j
    <3>1. SUFFICES ASSUME call.claim.job = j PROVE FALSE
      OBVIOUS
    <3>2. to[j] = [L[j] EXCEPT !.status = "completed", !.response = call.response,
                               !.error = None]
      BY <1>4, <3>1 DEF Completed, Ledger
    <3> QED
      BY <1>1, <3>2 DEF Record
  <2> QED
    BY <1>3, <1>4, <2>1, <2>2 DEF Completed
<1>5. CASE call.op = "fail" /\ to = Failed(L, call.claim.job, call.error)
  <2>1. [L[j] EXCEPT !.status = "failed", !.error = call.error].response = L[j].response
    BY <1>1 DEF Record
  <2> QED
    BY <1>3, <1>5, <2>1, CallFields DEF Failed
<1>6. CASE call.op \in {"requeue", "reclaim"} /\ to = Returned(L, call.job)
  <2>1. [L[j] EXCEPT !.status = "pending", !.worker = None].response = L[j].response
    BY <1>1 DEF Record
  <2> QED
    BY <1>3, <1>6, <2>1, CallFields DEF Returned
<1> QED
  BY <1>2, <1>4, <1>5, <1>6 DEF Decision

LEMMA ResponseStep == LedgerInvariant /\ ResponseInv /\ [Next]_vars => ResponseInv'
<1> SUFFICES ASSUME LedgerInvariant, ResponseInv, [Next]_vars, ledger' # ledger,
                    NEW j \in Job, ledger'[j].status # "completed"
             PROVE  ledger'[j].response = None
  BY DEF ResponseInv
<1>1. PICK h \in Host :
        /\ process[h].call \in Call
        /\ ledger' = process[h].to /\ process[h].to \in Ledger
        /\ process[h].at = "pointer" /\ TargetOfLedger(h)
  BY LedgerStep
<1>2. CASE ledger = None
  BY <1>1, <1>2 DEF TargetOfLedger, HasTarget, InitialLedger
<1>3. CASE ledger # None
  <2>1. ledger \in Ledger /\ Decision(ledger, process[h].call, ledger')
    BY <1>1, <1>3 DEF TargetOfLedger, HasTarget, LedgerInvariant, TypeOK
  <2>2. ledger'[j].response = ledger[j].response
    BY <1>1, <2>1, ResponseChange
  <2>3. CASE ledger[j].status # "completed"
    BY <1>3, <2>2, <2>3 DEF ResponseInv
  <2>4. CASE ledger[j].status = "completed"
    <3>1. ledger'[j] = ledger[j]
      BY <1>1, <2>1, <2>4, ChunkChange DEF HoldsLease
    <3> QED
      BY <2>4, <3>1
  <2> QED
    BY <2>3, <2>4
<1> QED
  BY <1>2, <1>3

-----------------------------------------------------------------------------
(* The theorems. *)

\* Whatever processes call, die or meet: lock, ledger and store stay in step.
THEOREM Inductive == Spec => []InductiveInvariant
<1>1. Init => InductiveInvariant
  BY InvInit DEF InductiveInvariant, ResponseInv, Init
<1>2. InductiveInvariant /\ [Next]_vars => InductiveInvariant'
  BY InvStep, ResponseStep DEF InductiveInvariant
<1> QED
  BY <1>1, <1>2, PTL DEF Spec

\* The ledger is always one its schema accepts, and every name is of its kind.
THEOREM LedgerTypeCorrect == Spec => []TypeOK
<1>1. InductiveInvariant => TypeOK
  BY DEF InductiveInvariant, LedgerInvariant
<1> QED
  BY <1>1, Inductive, PTL

\* luna_ledger_lock serialises all calls, however many processes make them.
THEOREM CallsAreSerial == Spec => []OneAtATime
<1>1. InductiveInvariant => OneAtATime
  BY DEF InductiveInvariant, LedgerInvariant, LockInv, OneAtATime
<1> QED
  BY <1>1, Inductive, PTL

\* The payloads of a completed chunk can be read, whatever crashed or failed.
THEOREM CompletedStaysReadable == Spec => []CompletedIsReadable
<1>1. InductiveInvariant => CompletedIsReadable
  BY DEF InductiveInvariant, LedgerInvariant, PayloadsReadable, CompletedIsReadable
<1> QED
  BY <1>1, Inductive, PTL

LEMMA CompletedStays ==
  ASSUME InductiveInvariant, [Next]_vars, ledger # None,
         NEW j \in Job, ledger[j].status = "completed"
  PROVE  ledger'[j] = ledger[j]
<1>1. CASE ledger' = ledger
  BY <1>1
<1>2. CASE ledger' # ledger
  <2>1. PICK h \in Host :
          /\ process[h].call \in Call /\ ledger' = process[h].to
          /\ process[h].at = "pointer" /\ TargetOfLedger(h)
    BY <1>2, LedgerStep DEF InductiveInvariant
  <2>2. ledger \in Ledger /\ Decision(ledger, process[h].call, ledger')
    BY <2>1 DEF TargetOfLedger, HasTarget, InductiveInvariant, LedgerInvariant, TypeOK
  <2> QED
    BY <2>1, <2>2, ChunkChange DEF HoldsLease
<1> QED
  BY <1>1, <1>2

\* A chunk that has a response keeps it.
THEOREM CompletionIsFinal == Spec => CompletedIsFinal
<1>1. InductiveInvariant /\ [Next]_vars =>
        [ledger # None =>
           \A j \in Job : ledger[j].status = "completed" => ledger'[j] = ledger[j]]_vars
  BY CompletedStays
<1> QED
  BY <1>1, Inductive, PTL DEF Spec, CompletedIsFinal

\* Only the call with the current lease completes or fails a chunk.
THEOREM HolderAnswers == Spec => OnlyTheHolderAnswers
<1>1. ASSUME InductiveInvariant, [Next]_vars, ledger # None, NEW j \in Job,
             ledger'[j].status # ledger[j].status,
             ledger'[j].status \in {"completed", "failed"}
      PROVE  \E h \in Host :
               /\ process[h].at = "pointer"
               /\ process[h].call.op \in {"complete", "fail"}
               /\ process[h].call.claim = [job |-> j, worker |-> ledger[j].worker,
                                           attempts |-> ledger[j].attempts]
  <2>1. PICK h \in Host :
          /\ process[h].call \in Call /\ ledger' = process[h].to
          /\ process[h].at = "pointer" /\ TargetOfLedger(h)
    BY <1>1, LedgerStep DEF InductiveInvariant
  <2>2. ledger \in Ledger /\ Decision(ledger, process[h].call, ledger')
    BY <1>1, <2>1 DEF TargetOfLedger, HasTarget, InductiveInvariant, LedgerInvariant, TypeOK
  <2>3. /\ process[h].call.op \in {"complete", "fail"}
        /\ process[h].call.claim.job = j
        /\ HoldsLease(ledger, process[h].call.claim)
    BY <1>1, <2>1, <2>2, ChunkChange
  <2>4. process[h].call.claim \in Claim
    BY <2>1, <2>3, CallFields
  <2>5. process[h].call.claim = [job |-> j, worker |-> ledger[j].worker,
                                 attempts |-> ledger[j].attempts]
    BY <2>3, <2>4 DEF HoldsLease, Claim
  <2> QED
    BY <2>1, <2>3, <2>5
<1>2. InductiveInvariant /\ [Next]_vars =>
        [ledger # None =>
          \A j \in Job :
            /\ ledger'[j].status # ledger[j].status
            /\ ledger'[j].status \in {"completed", "failed"}
            => \E h \in Host :
                 /\ process[h].at = "pointer"
                 /\ process[h].call.op \in {"complete", "fail"}
                 /\ process[h].call.claim = [job |-> j, worker |-> ledger[j].worker,
                                             attempts |-> ledger[j].attempts]]_vars
  BY <1>1
<1> QED
  BY <1>2, Inductive, PTL DEF Spec, OnlyTheHolderAnswers

(* The refinement. *)
LEMMA ChunksOfLedger ==
  ASSUME ledger # None
  PROVE  Chunks = [j \in Job |-> ChunkOf(ledger, j)]
BY DEF Chunks

\* A decided call is one step of the abstract specification.
LEMMA DecisionRefines ==
  ASSUME NEW L \in Ledger, NEW call \in Call, NEW to \in Ledger, Decision(L, call, to),
         \A j \in Job : L[j].status # "completed" => L[j].response = None,
         Chunks = [j \in Job |-> ChunkOf(L, j)],
         Chunks' = [j \in Job |-> ChunkOf(to, j)]
  PROVE  [Leases!Next]_Chunks
<1>1. \A j \in Job : L[j] \in Record
  BY RecordFields
<1>2. CASE to = L
  BY <1>2
<1>3. CASE call.op = "lease" /\ to = Leased(L, call.worker, FirstPending(L, call.limit))
  <2> DEFINE jobs == FirstPending(L, call.limit)
  <2>1. jobs \subseteq Job /\ \A j \in jobs : L[j].status = "pending"
    BY DEF FirstPending, PendingIn
  <2>2. ASSUME NEW j \in Job
        PROVE  ChunkOf(to, j) =
                 IF j \in jobs
                 THEN [state |-> "leased", holder |-> call.worker,
                       attempts |-> Chunks[j].attempts + 1, response |-> None]
                 ELSE Chunks[j]
    <3>1. CASE j \in jobs
      <4>1. to[j] = [L[j] EXCEPT !.status = "leased", !.worker = call.worker,
                                 !.attempts = @ + 1, !.error = None]
        BY <1>3, <3>1 DEF Leased
      <4>2. /\ to[j].status = "leased" /\ to[j].worker = call.worker
            /\ to[j].attempts = L[j].attempts + 1 /\ to[j].response = L[j].response
        BY <1>1, <4>1 DEF Record
      <4> QED
        BY <2>1, <3>1, <4>2 DEF ChunkOf
    <3>2. CASE j \notin jobs
      BY <1>3, <3>2 DEF Leased, ChunkOf
    <3> QED
      BY <3>1, <3>2
  <2>3. \A j \in jobs : Chunks[j].state = "pending"
    BY <2>1 DEF ChunkOf
  <2>4. Leases!Lease(call.worker, jobs)
    BY <2>2, <2>3 DEF Leases!Lease
  <2>5. call.worker \in Worker
    BY <1>3, CallFields
  <2> QED
    BY <2>1, <2>4, <2>5 DEF Leases!Next
<1>4. ASSUME NEW i \in Job, NEW r, to = [L EXCEPT ![i] = r]
      PROVE  Chunks' = [Chunks EXCEPT ![i] = [state |-> r.status, holder |-> r.worker,
                                              attempts |-> r.attempts, response |-> r.response]]
  <2>1. \A j \in Job : to[j] = IF i = j THEN r ELSE L[j]
    BY <1>4 DEF Ledger
  <2> QED
    BY <2>1 DEF ChunkOf
<1>5. CASE call.op = "complete" /\ to = Completed(L, call.claim.job, call.response)
           /\ HoldsLease(L, call.claim)
  <2> DEFINE i == call.claim.job
             r == [L[i] EXCEPT !.status = "completed", !.response = call.response,
                               !.error = None]
  <2>1. i \in Job /\ call.response \in Response /\ L[i].status = "leased"
    BY <1>5, CallFields DEF HoldsLease
  <2>2. /\ r.status = "completed" /\ r.worker = L[i].worker
        /\ r.attempts = L[i].attempts /\ r.response = call.response
    BY <1>1, <2>1 DEF Record
  <2>3. to = [L EXCEPT ![i] = r]
    BY <1>5 DEF Completed
  <2>4. Chunks' = [Chunks EXCEPT ![i] = [state |-> r.status, holder |-> r.worker,
                                         attempts |-> r.attempts, response |-> r.response]]
    BY <1>4, <2>1, <2>3
  <2>5. Chunks[i] = [state |-> "leased", holder |-> L[i].worker,
                     attempts |-> L[i].attempts, response |-> L[i].response]
    BY <2>1 DEF ChunkOf
  <2>6. Leases!Complete(i, call.response)
    BY <2>2, <2>4, <2>5 DEF Leases!Complete
  <2> QED
    BY <2>1, <2>6 DEF Leases!Next
<1>6. CASE call.op = "fail" /\ to = Failed(L, call.claim.job, call.error)
           /\ HoldsLease(L, call.claim)
  <2> DEFINE i == call.claim.job
             r == [L[i] EXCEPT !.status = "failed", !.error = call.error]
  <2>1. i \in Job /\ L[i].status = "leased"
    BY <1>6, CallFields DEF HoldsLease
  <2>2. /\ r.status = "failed" /\ r.worker = L[i].worker
        /\ r.attempts = L[i].attempts /\ r.response = L[i].response
    BY <1>1, <2>1 DEF Record
  <2>3. to = [L EXCEPT ![i] = r]
    BY <1>6 DEF Failed
  <2>4. Chunks' = [Chunks EXCEPT ![i] = [state |-> r.status, holder |-> r.worker,
                                         attempts |-> r.attempts, response |-> r.response]]
    BY <1>4, <2>1, <2>3
  <2>5. Chunks[i] = [state |-> "leased", holder |-> L[i].worker,
                     attempts |-> L[i].attempts, response |-> L[i].response]
    BY <2>1 DEF ChunkOf
  <2>6. Leases!GiveUp(i)
    BY <2>2, <2>4, <2>5 DEF Leases!GiveUp
  <2> QED
    BY <2>1, <2>6 DEF Leases!Next
<1>7. CASE call.op \in {"requeue", "reclaim"} /\ to = Returned(L, call.job)
           /\ L[call.job].status \in {"leased", "failed"}
  <2> DEFINE i == call.job
             r == [L[i] EXCEPT !.status = "pending", !.worker = None]
  <2>1. i \in Job /\ L[i].response = None
    BY <1>7, CallFields
  <2>2. /\ r.status = "pending" /\ r.worker = None
        /\ r.attempts = L[i].attempts /\ r.response = None
    BY <1>1, <2>1 DEF Record
  <2>3. to = [L EXCEPT ![i] = r]
    BY <1>7 DEF Returned
  <2>4. Chunks' = [Chunks EXCEPT ![i] = [state |-> r.status, holder |-> r.worker,
                                         attempts |-> r.attempts, response |-> r.response]]
    BY <1>4, <2>1, <2>3
  <2>5. Chunks[i] = [state |-> L[i].status, holder |-> L[i].worker,
                     attempts |-> L[i].attempts, response |-> L[i].response]
    BY <2>1 DEF ChunkOf
  <2>6. Leases!Return(i)
    BY <1>7, <2>2, <2>4, <2>5 DEF Leases!Return, Leases!Pending
  <2> QED
    BY <2>1, <2>6 DEF Leases!Next
<1> QED
  BY <1>2, <1>3, <1>5, <1>6, <1>7 DEF Decision

\* Locks, files and crashes are invisible: whoever looks at the ledger sees
\* atomic leases.
THEOREM LedgerRefinesLeases == Spec => ImplementsChunkLeases
<1>1. Init => Leases!Init
  BY DEF Init, Leases!Init, Leases!Pending, Chunks, ChunkOf, InitialLedger
<1>2. InductiveInvariant /\ [Next]_vars => [Leases!Next]_Chunks
  <2> SUFFICES ASSUME InductiveInvariant, [Next]_vars PROVE [Leases!Next]_Chunks
    OBVIOUS
  <2>1. CASE ledger' = ledger
    BY <2>1 DEF Chunks
  <2>2. CASE ledger' # ledger
    <3>1. PICK h \in Host :
            /\ process[h].call \in Call
            /\ ledger' = process[h].to /\ process[h].to \in Ledger
            /\ process[h].at = "pointer" /\ TargetOfLedger(h)
      BY <2>2, LedgerStep DEF InductiveInvariant
    <3>2. ledger' # None
      BY <3>1, NoneAssumption
    <3>3. CASE ledger = None
      BY <3>1, <3>2, <3>3 DEF TargetOfLedger, HasTarget, Chunks
    <3>4. CASE ledger # None
      <4>1. ledger \in Ledger /\ Decision(ledger, process[h].call, ledger')
        BY <3>1, <3>4
        DEF TargetOfLedger, HasTarget, InductiveInvariant, LedgerInvariant, TypeOK
      <4>2. /\ Chunks = [j \in Job |-> ChunkOf(ledger, j)]
            /\ Chunks' = [j \in Job |-> ChunkOf(ledger', j)]
        BY <3>2, <3>4 DEF Chunks, ChunkOf
      <4>3. \A j \in Job : ledger[j].status # "completed" => ledger[j].response = None
        BY <3>4 DEF InductiveInvariant, ResponseInv
      <4> QED
        BY <3>1, <4>1, <4>2, <4>3, DecisionRefines
    <3> QED
      BY <3>3, <3>4
  <2> QED
    BY <2>1, <2>2
<1> QED
  BY <1>1, <1>2, Inductive, PTL DEF Spec, ImplementsChunkLeases, Leases!Spec

-----------------------------------------------------------------------------
(* Assembly, by one process at a time. *)

LEMMA CompleteStays ==
  ASSUME InductiveInvariant, [Next]_vars, NEW responses, Complete(responses)
  PROVE  Complete(responses)'
<1>1. ledger' # None
  <2>1. CASE ledger' = ledger
    BY <2>1 DEF Complete
  <2>2. CASE ledger' # ledger
    BY <2>2, LedgerStep, NoneAssumption DEF InductiveInvariant
  <2> QED
    BY <2>1, <2>2
<1> QED
  BY <1>1, CompletedStays DEF Complete

\* A step that installs no book and no manifest.
LEMMA AssemblyUntouched ==
  ASSUME InductiveInvariant, AssemblyInv, [Next]_vars,
         \A a \in Assembler : process'[a] = process[a],
         \A k \in {"book", "manifest"} : \A r : <<k, r>> \in stored' <=> <<k, r>> \in stored
  PROVE  AssemblyInv'
BY CompleteStays DEF AssemblyInv, Linked

LEMMA HostsLeaveAssembly ==
  ASSUME InductiveInvariant, AssemblyInv, [Next]_vars, NEW h \in Host,
         Begin(h) \/ Decide(h) \/ Replace(h) \/ Install(h) \/ Fault(h) \/ Crash(h)
  PROVE  AssemblyInv'
<1>1. TypeOK
  BY DEF InductiveInvariant, LedgerInvariant
<1>2. ASSUME NEW s, Become(h, s) PROVE \A a \in Assembler : process'[a] = process[a]
  BY <1>1, <1>2, BecomeSets, AssemblersAreNoHosts
<1>3. ASSUME process[h].at \in Phase
      PROVE  \A k \in {"book", "manifest"} : \A r : <<k, r>> # NameOf(h)
  BY <1>1, <1>3, InstallerStates, NameForms
<1>4. CASE Begin(h) \/ Decide(h)
  <2>1. (\E s : Become(h, s)) /\ UNCHANGED store
    BY <1>4
    DEF Begin, CallLease, CallComplete, CallFail, CallReturn, Acquire, Decide, Initialise, Saving,
        LeaseChunks, CompleteChunk, BeginCompletion, CompleteAgain, FailChunk, FailAgain,
        RequeueChunk, ReclaimChunk, ReturnAgain, Refuse, Loaded, Return
  <2> QED
    BY <1>2, <2>1, AssemblyUntouched DEF store
<1>5. CASE Replace(h)
  <2>1. /\ \E s : Become(h, s)
        /\ \A m : m[1] # "snapshot" => (m \in stored' <=> m \in stored)
    BY <1>5 DEF Replace, PointAndReturn, PointAndGoOn, PointAndFail, Point, Return
  <2>2. \A k \in {"book", "manifest"} : \A r : <<k, r>>[1] # "snapshot"
    OBVIOUS
  <2> QED
    BY <1>2, <2>1, <2>2, AssemblyUntouched
<1>6. CASE Install(h)
  <2>1. process[h].at \in Phase /\ \E s : Become(h, s)
    BY <1>6
    DEF Install, LinkPayload, ReusePayload, RefuseUnsafe, Unlink, Attest, Installs, Advance, End
  <2>2. \A m : m # NameOf(h) => (m \in stored' <=> m \in stored)
    BY <1>6
    DEF Install, LinkPayload, Link, ReusePayload, Reuse, RefuseUnsafe, Unlink, UnlinkTemporary,
        Attest, store
  <2> QED
    BY <1>2, <1>3, <2>1, <2>2, AssemblyUntouched
<1>7. CASE Fault(h) \/ Crash(h)
  <2>1. /\ \E s : Become(h, s)
        /\ \/ process[h].at \in Phase /\ Withdraw(NameOf(h))
           \/ UNCHANGED store
    BY <1>7 DEF Fault, Crash, Installs, End
  <2>2. \A k \in {"book", "manifest"} : \A r : <<k, r>> \in stored' <=> <<k, r>> \in stored
    BY <1>3, <2>1 DEF Withdraw, store
  <2> QED
    BY <1>2, <2>1, <2>2, AssemblyUntouched
<1> QED
  BY <1>4, <1>5, <1>6, <1>7

LEMMA AssemblerKeepsAssembly ==
  ASSUME InductiveInvariant, AssemblyInv, [Next]_vars, \A a, b \in Assembler : a = b,
         NEW a \in Assembler, Assemble(a) \/ Install(a) \/ Fault(a) \/ Crash(a)
  PROVE  AssemblyInv'
<1> DEFINE R == process[a].responses
           Others == \A k \in {"book", "manifest"} : \A r :
                       <<k, r>> # NameOf(a) => (<<k, r>> \in stored' <=> <<k, r>> \in stored)
<1>1. TypeOK /\ (process[a].at = "idle" \/ process[a].at \in {"book", "manifest"})
  BY AssemblerFields DEF InductiveInvariant, LedgerInvariant, TypeOK
<1>2. \A r : Complete(r) => Complete(r)'
  BY CompleteStays
<1>3. CASE Assemble(a)
  <2>1. PICK r \in [Job -> Response] :
          /\ AuditPasses(r) /\ UNCHANGED stored
          /\ Become(a, [at |-> "book", link |-> "none", responses |-> r])
    BY <1>3 DEF Assemble, store
  <2>2. Complete(r)
    BY <2>1 DEF AuditPasses, Complete
  <2>3. process'[a] = [at |-> "book", link |-> "none", responses |-> r]
    BY <1>1, <2>1, BecomeSets
  <2> QED
    BY <1>2, <2>1, <2>2, <2>3 DEF AssemblyInv, Linked
<1>4. ASSUME process[a].at \in Phase
      PROVE  /\ process[a] \in Assembling /\ process[a].at \in {"book", "manifest"}
             /\ NameOf(a) = <<process[a].at, R>> /\ R \in [Job -> Response]
             /\ Complete(R)
  <2>1. process[a] \in Assembling /\ process[a].at \in {"book", "manifest"}
    BY <1>1, <1>4, InstallerStates
  <2> QED
    BY <2>1 DEF NameOf, Assembling, AssemblyInv
<1>5. CASE LinkPayload(a)
  <2>1. /\ process[a].at \in Phase /\ process[a].link = "none" /\ NameOf(a) \notin stored
        /\ stored' = stored \cup {NameOf(a)}
        /\ Become(a, [process[a] EXCEPT !.link = "linked"])
    BY <1>5 DEF LinkPayload, Link, Installs
  <2>2. process'[a] = [process[a] EXCEPT !.link = "linked"]
    BY <1>1, <2>1, BecomeSets
  <2>3. process'[a].at = process[a].at /\ process'[a].responses = R
    BY <1>4, <2>1, <2>2 DEF Assembling
  <2>4. CASE process[a].at = "book"
    BY <1>2, <1>4, <2>1, <2>3, <2>4 DEF AssemblyInv, Linked
  <2>5. CASE process[a].at = "manifest"
    BY <1>2, <1>4, <2>1, <2>3, <2>5 DEF AssemblyInv, Linked
  <2> QED
    BY <1>4, <2>1, <2>4, <2>5
<1>6. CASE Unlink(a)
  <2>1. /\ process[a].at \in Phase /\ process[a].link = "linked" /\ stored' = stored
        /\ Become(a, [process[a] EXCEPT !.link = "attesting"])
    BY <1>6 DEF Unlink, UnlinkTemporary, Installs
  <2>2. process'[a] = [process[a] EXCEPT !.link = "attesting"]
    BY <1>1, <2>1, BecomeSets
  <2>3. process'[a].at = process[a].at /\ process'[a].responses = R
    BY <1>4, <2>1, <2>2 DEF Assembling
  <2> QED
    BY <1>2, <1>4, <2>1, <2>3 DEF AssemblyInv, Linked
<1>7. ASSUME stored' = stored, process[a].at \in Phase, NameOf(a) \in stored, Advance(a)
      PROVE  AssemblyInv'
  <2>1. CASE process[a].at = "book"
    <3>1. Become(a, [process[a] EXCEPT !.at = NextPhase[@], !.link = "none"])
      BY <1>7, <2>1 DEF Advance
    <3>2. process'[a] = [process[a] EXCEPT !.at = "manifest", !.link = "none"]
      BY <1>1, <2>1, <3>1, BecomeSets DEF NextPhase
    <3>3. /\ process'[a].at = "manifest" /\ process'[a].link = "none"
          /\ process'[a].responses = R
      BY <1>4, <1>7, <3>2 DEF Assembling
    <3> QED
      BY <1>2, <1>4, <1>7, <2>1, <3>3 DEF AssemblyInv, Linked
  <2>2. CASE process[a].at = "manifest"
    <3>1. Become(a, Idle)
      BY <1>7, <2>2 DEF Advance, NextPhase
    <3>2. process'[a].at = "idle"
      BY <1>1, <3>1, BecomeSets DEF Idle
    <3> QED
      BY <1>2, <1>7, <3>2 DEF AssemblyInv, Linked
  <2> QED
    BY <1>4, <1>7, <2>1, <2>2
<1>8. CASE ReusePayload(a)
  BY <1>7, <1>8 DEF ReusePayload, Reuse, Readable, store, Installs
<1>9. CASE Attest(a)
  <2>1. process[a].at \in Phase /\ process[a].link = "attesting" /\ Advance(a) /\ stored' = stored
    BY <1>9 DEF Attest, Installs, store
  <2>2. CASE NameOf(a) \in stored
    BY <1>7, <2>1, <2>2
  <2>3. CASE process[a].at = "manifest"
    <3>1. process'[a].at = "idle"
      BY <1>1, <2>1, <2>3, BecomeSets DEF Advance, NextPhase, Idle
    <3> QED
      BY <1>2, <2>1, <3>1 DEF AssemblyInv, Linked
  <2>4. process[a].at = "book" => NameOf(a) \in stored
    BY <1>4, <2>1 DEF AssemblyInv, Linked
  <2> QED
    BY <1>4, <2>1, <2>2, <2>3, <2>4
<1>10. ASSUME End(a), stored' = stored PROVE AssemblyInv'
  <2>1. process'[a].at = "idle"
    BY <1>1, <1>10, BecomeSets DEF End, Idle
  <2> QED
    BY <1>2, <1>10, <2>1 DEF AssemblyInv, Linked
<1>11. CASE RefuseUnsafe(a)
  BY <1>10, <1>11 DEF RefuseUnsafe, store
<1>12. CASE Fault(a)
  <2>1. CASE process[a].at \in Phase /\ Linked(a)
    <3>1. End(a) /\ stored' = stored \ {NameOf(a)}
      BY <1>12, <2>1 DEF Fault, Installs, Linked, Withdraw
    <3>2. process'[a].at = "idle"
      BY <1>1, <3>1, BecomeSets DEF End, Idle
    <3> QED
      BY <1>2, <1>4, <2>1, <3>1, <3>2 DEF AssemblyInv
  <2>2. CASE ~(process[a].at \in Phase /\ Linked(a))
    BY <1>10, <1>12, <2>2 DEF Fault, Installs, Linked, store
  <2> QED
    BY <2>1, <2>2
<1>13. CASE Crash(a)
  BY <1>10, <1>13 DEF Crash, store
<1> QED
  BY <1>3, <1>5, <1>6, <1>8, <1>9, <1>11, <1>12, <1>13 DEF Install

\* One process at a time assembles: a manifest has its book, and both are of the
\* ledger as it stays, through every crash, failure and restart.  Two at once do
\* not keep this: the one that fails may withdraw a book the other has reused.
THEOREM ManifestsAreOfTheLedger ==
  ASSUME \A a, b \in Assembler : a = b
  PROVE  Spec => []ManifestIsOfTheLedger
<1>1. Init => AssemblyInv
  BY DEF Init, StoreInit, AssemblyInv, Idle
<1>2. InductiveInvariant /\ AssemblyInv /\ [Next]_vars => AssemblyInv'
  <2> SUFFICES ASSUME InductiveInvariant, AssemblyInv, [Next]_vars PROVE AssemblyInv'
    OBVIOUS
  <2>1. CASE UNCHANGED vars
    BY <2>1, AssemblyUntouched DEF vars, store
  <2>2. CASE Next
    BY <2>2, HostsLeaveAssembly, AssemblerKeepsAssembly DEF Next
  <2> QED
    BY <2>1, <2>2
<1>3. AssemblyInv => ManifestIsOfTheLedger
  BY DEF AssemblyInv, ManifestIsOfTheLedger, Complete
<1> QED
  BY <1>1, <1>2, <1>3, Inductive, PTL DEF Spec
=============================================================================
