----------------------- MODULE ReportGenerationProofs -----------------------
(***************************************************************************)
(* The safety properties of ReportGeneration, proved for every set of runs,*)
(* of Media and of processes and any bound on attempts: what holds however *)
(* many attempts overlap (IInv), and what holds besides of the runs whose  *)
(* attempts follow one another (SerialInv).                                *)
(***************************************************************************)
EXTENDS ReportGeneration, FiniteSetTheorems, TLAPS

HasRendered(p) ==
  process[p].at \in {"rendered", "storing", "refused", "written", "stored", "discarding"}
HoldsMedia(p) == process[p].at \in {"written", "stored", "discarding"}

RendersItsRun(p) ==
  HasRendered(p) => \E l \in Language : process[p].checksum = <<process[p].run, l>>

\* A Media is of one attempt until its row is there, and the row says what the
\* attempt has rendered as long as it is there.
OwnsItsMedia(p) ==
  process[p].at = "written" =>
    /\ media[process[p].media] = None
    /\ \A q \in Process \ {p} : HoldsMedia(q) => process[q].media # process[p].media
HoldsItsRendering(p) ==
  /\ HoldsMedia(p) => stored[process[p].media] # "never"
  /\ process[p].at \in {"stored", "discarding"} =>
       media[process[p].media] \in {None, process[p].checksum}

AttemptsAreSound ==
  \A p \in Process : RendersItsRun(p) /\ OwnsItsMedia(p) /\ HoldsItsRendering(p)

RowsWereWritten == \A m \in Media : media[m] # None => stored[m] # "never"

\* The bound on attempts, and a run that is never asked for before it succeeded.
AttemptsAreCounted ==
  \A r \in Run :
    /\ Outstanding(r) <= MaxOutstanding
    /\ r \notin succeeded => jobs[r] = 0 /\ Handling(r) = {}

IInv ==
  /\ TypeOK
  /\ AttemptsAreCounted
  /\ AttemptsAreSound
  /\ RowsWereWritten
  /\ ReportFileIsOfItsRun
  /\ FileOrRefusal

-----------------------------------------------------------------------------
\* A run whose attempts have followed one another, as the attempt under way sees it:
\* its run has no file while it is rendered, so nothing it makes is ever redundant, and
\* what it stores is a rendering that was not there before.
Alone(p) == process[p].at # "idle" /\ process[p].run \notin overlapped

IsInTurn(p) ==
  /\ process[p].at # "discarding"
  /\ HasRendered(p) => reportFile[process[p].run] = None
  /\ process[p].at \in {"storing", "written"} => \A m \in Media : media[m] # process[p].checksum
  /\ HoldsMedia(p) => stored[process[p].media] = "present"
  /\ process[p].at = "stored" => media[process[p].media] = process[p].checksum

RenderingsAreKept(r) ==
  /\ \A m \in Media, l \in Language : media[m] = <<r, l>> => stored[m] = "present"
  /\ OneMediaPerRendering(r)

TurnsAreTaken ==
  \A p, q \in Process :
    Alone(p) /\ process[q].at # "idle" /\ process[q].run = process[p].run => p = q

SerialInv ==
  /\ TurnsAreTaken
  /\ \A p \in Process : Alone(p) => IsInTurn(p)
  /\ \A r \in Run \ overlapped : RenderingsAreKept(r)

-----------------------------------------------------------------------------
(* What a process knows: the fields that its state has. *)
LEMMA ProcessFields ==
  ASSUME TypeOK, NEW p \in Process
  PROVE  /\ process[p].at \in {"idle", "begun", "rendered", "storing", "refused", "written",
                               "stored", "discarding"}
         /\ process[p].at = "idle" <=> process[p] = Idle
         /\ process[p].at # "idle" => process[p].run \in Run /\ process[p].acks \in BOOLEAN
         /\ HasRendered(p) => process[p].checksum \in Checksum
         /\ HoldsMedia(p) => process[p].media \in Media
<1>1. process[p] \in {Idle} \cup Attempt \cup Rendering \cup Storing
  BY DEF TypeOK, ProcessState
<1> QED
  BY <1>1 DEF Idle, Attempt, Rendering, Storing, HasRendered, HoldsMedia

LEMMA CarryingType ==
  ASSUME TypeOK, NEW p \in Process, HasRendered(p),
         NEW state \in {"rendered", "storing", "refused"}
  PROVE  Carrying(p, state) \in Rendering
BY ProcessFields DEF Carrying, Rendering, HasRendered

LEMMA HoldingType ==
  ASSUME TypeOK, NEW p \in Process, HasRendered(p),
         NEW state \in {"written", "stored", "discarding"}, NEW m \in Media
  PROVE  Holding(p, state, m) \in Storing
BY ProcessFields DEF Holding, Storing, HasRendered

(* One process moves, the others stay where they are. *)
LEMMA BecomeMoves ==
  ASSUME TypeOK, NEW p \in Process, NEW s \in ProcessState, Become(p, s)
  PROVE  /\ process' \in [Process -> ProcessState]
         /\ process'[p] = s
         /\ \A q \in Process : q # p => process'[q] = process[q]
BY DEF TypeOK, Become

-----------------------------------------------------------------------------
(* Counting the attempts at a run. *)

LEMMA ProcessesAreFinite ==
  ASSUME ConstantsAssumption, NEW S \in SUBSET Process
  PROVE  IsFiniteSet(S) /\ Cardinality(S) \in Nat
BY FS_Subset, FS_CardinalityType DEF ConstantsAssumption

(* An attempt goes on: the count stands. *)
LEMMA AttemptGoesOn ==
  ASSUME TypeOK, AttemptsAreCounted, NEW p \in Process, NEW s \in ProcessState,
         process[p].at # "idle", s.at # "idle", s.run = process[p].run, Become(p, s),
         UNCHANGED <<jobs, succeeded>>
  PROVE  AttemptsAreCounted'
<1>1. ASSUME NEW r \in Run PROVE Handling(r)' = Handling(r)
  BY BecomeMoves DEF Handling
<1> QED
  BY <1>1 DEF AttemptsAreCounted, Outstanding

(* An attempt ends, and its message comes again or does not. *)
LEMMA AttemptEnds ==
  ASSUME ConstantsAssumption, TypeOK, AttemptsAreCounted, NEW p \in Process,
         process[p].at # "idle", Return(p),
         \/ UNCHANGED jobs
         \/ jobs' = [jobs EXCEPT ![process[p].run] = @ + 1],
         UNCHANGED succeeded
  PROVE  AttemptsAreCounted' /\ jobs' \in [Run -> Nat]
<1>1. PICK run0 \in Run : run0 = process[p].run /\ p \in Handling(run0)
  BY ProcessFields DEF Handling
<1>2. jobs \in [Run -> Nat] /\ jobs' \in [Run -> Nat]
  BY DEF TypeOK, ConstantsAssumption
<1>3. process'[p] = Idle /\ \A q \in Process : q # p => process'[q] = process[q]
  BY BecomeMoves DEF Return, ProcessState
<1>4. ASSUME NEW r \in Run PROVE Handling(r)' = Handling(r) \ {p}
  BY <1>3 DEF Handling, Idle
<1>5. ASSUME NEW r \in Run, r # run0 PROVE Handling(r)' = Handling(r)
  BY <1>1, <1>3, <1>5 DEF Handling, Idle
<1>6. run0 \in succeeded
  BY <1>1 DEF AttemptsAreCounted
<1>7. Cardinality(Handling(run0)') = Cardinality(Handling(run0)) - 1
  BY <1>1, <1>4, ProcessesAreFinite, FS_RemoveElement DEF Handling
<1>8. ASSUME NEW r \in Run PROVE Outstanding(r)' <= MaxOutstanding
  <2>1. /\ Cardinality(Handling(r)) \in Nat /\ Cardinality(Handling(r)') \in Nat
        /\ jobs[r] \in Nat /\ jobs'[r] \in Nat /\ MaxOutstanding \in Nat
    BY <1>2, ProcessesAreFinite DEF Handling, ConstantsAssumption
  <2>2. CASE r = run0
    <3>1. jobs'[run0] <= jobs[run0] + 1
      BY <1>1, <1>2
    <3> QED
      BY <1>1, <1>7, <2>1, <2>2, <3>1 DEF AttemptsAreCounted, Outstanding
  <2>3. CASE r # run0
    BY <1>1, <1>2, <1>5, <2>1, <2>3 DEF AttemptsAreCounted, Outstanding
  <2> QED
    BY <2>2, <2>3
<1>9. ASSUME NEW r \in Run, r \notin succeeded' PROVE jobs'[r] = 0 /\ Handling(r)' = {}
  <2>1. r # run0 /\ jobs[r] = 0 /\ Handling(r) = {}
    BY <1>6, <1>9 DEF AttemptsAreCounted
  <2> QED
    BY <1>1, <1>2, <1>4, <2>1
<1> QED
  BY <1>2, <1>8, <1>9 DEF AttemptsAreCounted

(* An attempt begins: it takes a message, or there was room for one more. *)
LEMMA AttemptBegins ==
  ASSUME ConstantsAssumption, TypeOK, AttemptsAreCounted, NEW p \in Process, NEW r \in Run,
         NEW s \in ProcessState, process[p].at = "idle", s.at # "idle", s.run = r, Become(p, s),
         \/ UNCHANGED jobs /\ Outstanding(r) < MaxOutstanding
         \/ jobs[r] > 0 /\ jobs' = [jobs EXCEPT ![r] = @ - 1],
         r \in succeeded, UNCHANGED succeeded
  PROVE  AttemptsAreCounted' /\ jobs' \in [Run -> Nat]
<1>1. jobs \in [Run -> Nat] /\ jobs' \in [Run -> Nat]
  BY DEF TypeOK, ConstantsAssumption
<1>2. ASSUME NEW q \in Run, q # r PROVE Handling(q)' = Handling(q)
  BY <1>2, BecomeMoves DEF Handling
<1>3. Handling(r)' = Handling(r) \cup {p} /\ p \notin Handling(r)
  BY BecomeMoves DEF Handling
<1>4. Cardinality(Handling(r)') = Cardinality(Handling(r)) + 1
  BY <1>3, ProcessesAreFinite, FS_AddElement DEF Handling
<1>5. ASSUME NEW q \in Run PROVE Outstanding(q)' <= MaxOutstanding
  <2>1. /\ Cardinality(Handling(q)) \in Nat /\ Cardinality(Handling(q)') \in Nat
        /\ jobs[q] \in Nat /\ jobs'[q] \in Nat /\ MaxOutstanding \in Nat
    BY <1>1, ProcessesAreFinite DEF Handling, ConstantsAssumption
  <2>2. CASE q = r
    BY <1>1, <1>4, <2>1, <2>2 DEF AttemptsAreCounted, Outstanding
  <2>3. CASE q # r
    BY <1>1, <1>2, <2>1, <2>3 DEF AttemptsAreCounted, Outstanding
  <2> QED
    BY <2>2, <2>3
<1>6. ASSUME NEW q \in Run, q \notin succeeded' PROVE jobs'[q] = 0 /\ Handling(q)' = {}
  BY <1>1, <1>2, <1>6 DEF AttemptsAreCounted
<1> QED
  BY <1>1, <1>5, <1>6 DEF AttemptsAreCounted

(* Messages come, nothing else moves. *)
LEMMA RunIsAskedFor ==
  ASSUME ConstantsAssumption, TypeOK, AttemptsAreCounted, NEW r \in Run, UNCHANGED process,
         \/ /\ r \in succeeded /\ UNCHANGED succeeded
            /\ Outstanding(r) < MaxOutstanding /\ jobs' = [jobs EXCEPT ![r] = @ + 1]
         \/ /\ r \notin succeeded /\ succeeded' = succeeded \cup {r}
            /\ jobs' \in {[jobs EXCEPT ![r] = 0], [jobs EXCEPT ![r] = 1]}
  PROVE  AttemptsAreCounted' /\ jobs' \in [Run -> Nat]
<1>1. jobs \in [Run -> Nat] /\ jobs' \in [Run -> Nat]
  BY DEF TypeOK, ConstantsAssumption
<1>2. ASSUME NEW q \in Run PROVE Handling(q)' = Handling(q)
  BY DEF Handling
<1>3. ASSUME NEW q \in Run PROVE Outstanding(q)' <= MaxOutstanding
  <2>1. /\ Cardinality(Handling(q)) \in Nat /\ jobs[q] \in Nat /\ jobs'[q] \in Nat
        /\ MaxOutstanding \in Nat /\ MaxOutstanding >= 1
    BY <1>1, ProcessesAreFinite DEF Handling, ConstantsAssumption
  <2>2. CASE q # r
    BY <1>1, <1>2, <2>1, <2>2 DEF AttemptsAreCounted, Outstanding
  <2>3. CASE q = r /\ r \in succeeded
    BY <1>1, <1>2, <2>1, <2>3 DEF AttemptsAreCounted, Outstanding
  <2>4. CASE q = r /\ r \notin succeeded
    <3>1. Handling(r) = {} /\ jobs'[r] \in {0, 1}
      BY <1>1, <2>4 DEF AttemptsAreCounted
    <3>2. Cardinality(Handling(r)) = 0
      BY <3>1, FS_EmptySet
    <3> QED
      BY <1>2, <2>1, <2>4, <3>1, <3>2 DEF Outstanding
  <2> QED
    BY <2>2, <2>3, <2>4
<1>4. ASSUME NEW q \in Run, q \notin succeeded' PROVE jobs'[q] = 0 /\ Handling(q)' = {}
  BY <1>1, <1>2, <1>4 DEF AttemptsAreCounted
<1> QED
  BY <1>1, <1>3, <1>4 DEF AttemptsAreCounted

(* What is counted is within its bound. *)
LEMMA JobsAreBounded ==
  ASSUME ConstantsAssumption, AttemptsAreCounted', jobs' \in [Run -> Nat]
  PROVE  jobs' \in [Run -> 0..MaxOutstanding]
<1>1. ASSUME NEW r \in Run PROVE jobs'[r] <= MaxOutstanding
  <2>1. Cardinality(Handling(r)') \in Nat /\ jobs'[r] \in Nat /\ MaxOutstanding \in Nat
    BY ProcessesAreFinite DEF Handling, ConstantsAssumption
  <2> QED
    BY <2>1 DEF AttemptsAreCounted, Outstanding
<1> QED
  BY <1>1 DEF ConstantsAssumption

-----------------------------------------------------------------------------
(* How an attempt stays sound. *)

(* A move of one process in which no Media changes hands or is written. *)
LEMMA MoveIsSound ==
  ASSUME TypeOK, AttemptsAreSound, NEW p \in Process, NEW s \in ProcessState, Become(p, s),
         UNCHANGED <<media, stored>>, (RendersItsRun(p) /\ HoldsItsRendering(p))',
         s.at # "written",
         s.at \in {"stored", "discarding"} =>
           \/ HoldsMedia(p) /\ s.media = process[p].media
           \/ media[s.media] # None
  PROVE  AttemptsAreSound'
<1>1. process'[p] = s /\ \A q \in Process : q # p => process'[q] = process[q]
  BY BecomeMoves
<1>2. ASSUME NEW q \in Process, q # p
      PROVE  (RendersItsRun(q) /\ HoldsItsRendering(q))'
  BY <1>1, <1>2 DEF AttemptsAreSound, RendersItsRun, HoldsItsRendering, HasRendered, HoldsMedia
<1>3. ASSUME NEW q \in Process PROVE OwnsItsMedia(q)'
  BY <1>1 DEF AttemptsAreSound, OwnsItsMedia, HoldsMedia
<1> QED
  BY <1>2, <1>3 DEF AttemptsAreSound

(* A return leaves everything sound. *)
LEMMA ReturnIsSound ==
  ASSUME TypeOK, AttemptsAreSound, NEW p \in Process, Return(p), UNCHANGED <<media, stored>>
  PROVE  AttemptsAreSound'
<1>1. process'[p] = Idle /\ Become(p, Idle) /\ Idle \in ProcessState
  BY BecomeMoves DEF Return, ProcessState
<1>2. (RendersItsRun(p) /\ HoldsItsRendering(p))'
  BY <1>1 DEF RendersItsRun, HoldsItsRendering, HasRendered, HoldsMedia, Idle
<1> QED
  BY <1>1, <1>2, MoveIsSound DEF Idle

(* Nothing but the tables of runs and messages moves. *)
LEMMA AttemptsStand ==
  ASSUME AttemptsAreSound, UNCHANGED <<process, media, stored>>
  PROVE  AttemptsAreSound'
BY DEF AttemptsAreSound, RendersItsRun, OwnsItsMedia, HoldsItsRendering, HasRendered, HoldsMedia

-----------------------------------------------------------------------------
(* The callers, the operators and the outside world. *)

LEMMA AskedSteps ==
  ASSUME ConstantsAssumption, IInv, NEW r \in Run,
         \/ \E dispatched \in BOOLEAN : RunSucceeds(r, dispatched)
         \/ GenerateReport(r)
  PROVE  IInv'
<1> USE DEF IInv
<1>1. AttemptsAreCounted' /\ jobs' \in [Run -> Nat]
  <2>1. ASSUME NEW dispatched \in BOOLEAN, RunSucceeds(r, dispatched)
        PROVE  jobs' \in {[jobs EXCEPT ![r] = 0], [jobs EXCEPT ![r] = 1]}
    BY <2>1 DEF RunSucceeds
  <2> QED
    BY <2>1, RunIsAskedFor DEF RunSucceeds, GenerateReport, run
<1>2. jobs' \in [Run -> 0..MaxOutstanding]
  BY <1>1, JobsAreBounded
<1>3. /\ UNCHANGED <<process, media, stored, overlapped, reportFile, refused>>
      /\ succeeded' \subseteq Run
  BY DEF RunSucceeds, GenerateReport, run, TypeOK
<1>4. TypeOK'
  BY <1>2, <1>3 DEF TypeOK, RunSucceeds, GenerateReport, env
<1>5. RowsWereWritten' /\ ReportFileIsOfItsRun' /\ FileOrRefusal'
  BY <1>3 DEF RowsWereWritten, ReportFileIsOfItsRun, FileOrRefusal
<1> QED
  BY <1>1, <1>3, <1>4, <1>5, AttemptsStand

LEMMA OutsideSteps ==
  ASSUME ConstantsAssumption, IInv,
         \/ \E r \in Run : RaiseCap(r)
         \/ \E l \in Language : ChangeLanguage(l)
         \/ UNCHANGED vars
  PROVE  IInv'
<1> USE DEF IInv
<1>1. UNCHANGED <<process, media, stored, overlapped, reportFile, refused, succeeded, jobs, raised, crashes>>
  BY DEF RaiseCap, ChangeLanguage, vars, run, env
<1>2. TypeOK'
  BY <1>1 DEF TypeOK, RaiseCap, ChangeLanguage, vars, env
<1>3. AttemptsAreCounted'
  <2>1. ASSUME NEW r \in Run PROVE Handling(r)' = Handling(r)
    BY <1>1 DEF Handling
  <2> QED
    BY <1>1, <2>1 DEF AttemptsAreCounted, Outstanding
<1>4. RowsWereWritten' /\ ReportFileIsOfItsRun' /\ FileOrRefusal'
  BY <1>1 DEF RowsWereWritten, ReportFileIsOfItsRun, FileOrRefusal
<1> QED
  BY <1>1, <1>2, <1>3, <1>4, AttemptsStand

(* An attempt begins: a message is taken, or backfill reaches a run. *)
LEMMA BeginSteps ==
  ASSUME ConstantsAssumption, IInv, NEW p \in Process, NEW r \in Run,
         \/ Take(p, r)
         \/ \E includeFailed \in BOOLEAN : Backfill(p, r, includeFailed)
  PROVE  IInv'
<1> USE DEF IInv
<1>1. PICK acks \in BOOLEAN : Become(p, [at |-> "begun", run |-> r, acks |-> acks])
  BY DEF Take, Backfill, Begin
<1> DEFINE s == [at |-> "begun", run |-> r, acks |-> acks]
<1>2. s \in ProcessState
  BY DEF ProcessState, Attempt
<1>3. process'[p] = s /\ process' \in [Process -> ProcessState]
  BY <1>1, <1>2, BecomeMoves
<1>4. /\ process[p].at = "idle" /\ overlapped' \subseteq Run
      /\ UNCHANGED <<run, env, media, stored, raised, crashes>>
  BY DEF Take, Backfill, Begin, TypeOK
<1>5. AttemptsAreCounted' /\ jobs' \in [Run -> Nat]
  <2>1. CASE Take(p, r)
    <3>1. r \in succeeded
      BY <2>1 DEF Take, AttemptsAreCounted, TypeOK
    <3> QED
      BY <1>1, <1>2, <1>4, <2>1, <3>1, AttemptBegins DEF Take, run
  <2>2. CASE \E includeFailed \in BOOLEAN : Backfill(p, r, includeFailed)
    BY <1>1, <1>2, <1>4, <2>2, AttemptBegins DEF Backfill, MissingReport, GenerationFailed, run
  <2> QED
    BY <2>1, <2>2
<1>6. TypeOK'
  <2>1. jobs' \in [Run -> 0..MaxOutstanding]
    BY <1>5, JobsAreBounded
  <2> QED
    BY <1>3, <1>4, <2>1 DEF TypeOK, run, env
<1>7. (RendersItsRun(p) /\ HoldsItsRendering(p))'
  BY <1>3 DEF RendersItsRun, HoldsItsRendering, HasRendered, HoldsMedia
<1>8. AttemptsAreSound'
  BY <1>1, <1>2, <1>4, <1>7, MoveIsSound
<1>9. RowsWereWritten' /\ ReportFileIsOfItsRun' /\ FileOrRefusal'
  BY <1>4 DEF RowsWereWritten, ReportFileIsOfItsRun, FileOrRefusal, run
<1> QED
  BY <1>5, <1>6, <1>8, <1>9

(* A process dies or raises: its attempt is over, and its message may come again. *)
LEMMA CrashStep ==
  ASSUME ConstantsAssumption, IInv, NEW p \in Process, Crash(p) \/ Raise(p)
  PROVE  IInv'
<1> USE DEF IInv
<1>1. /\ process[p].at # "idle" /\ Return(p)
      /\ UNCHANGED <<run, env, media, stored, overlapped>>
      /\ crashes' \in 0..MaxCrashes
  BY DEF Crash, Raise, TypeOK, ConstantsAssumption
<1>2. raised' \subseteq Run
  BY ProcessFields DEF Crash, Raise, GivesUp, TypeOK
<1>3. AttemptsAreCounted' /\ jobs' \in [Run -> Nat]
  <2>1. \/ UNCHANGED jobs
        \/ jobs' = [jobs EXCEPT ![process[p].run] = @ + 1]
    BY <1>1 DEF Crash, Raise, TypeOK
  <2> QED
    BY <1>1, <2>1, AttemptEnds DEF run
<1>4. process' \in [Process -> ProcessState]
  BY <1>1, BecomeMoves DEF Return, ProcessState
<1>5. TypeOK'
  <2>1. jobs' \in [Run -> 0..MaxOutstanding]
    BY <1>3, JobsAreBounded
  <2> QED
    BY <1>1, <1>2, <1>4, <2>1 DEF TypeOK, run, env
<1>6. AttemptsAreSound'
  BY <1>1, ReturnIsSound
<1>7. RowsWereWritten' /\ ReportFileIsOfItsRun' /\ FileOrRefusal'
  BY <1>1 DEF RowsWereWritten, ReportFileIsOfItsRun, FileOrRefusal, run
<1> QED
  BY <1>3, <1>5, <1>6, <1>7
-----------------------------------------------------------------------------
(* The steps of generate. *)

(* A step that only moves the attempt on. *)
LEMMA GoOnKeepsInvariant ==
  ASSUME ConstantsAssumption, IInv, NEW p \in Process, NEW s \in ProcessState,
         process[p].at # "idle", s.at # "idle", s.run = process[p].run, Become(p, s),
         UNCHANGED <<run, env, media, stored, overlapped, jobs, raised, crashes>>,
         (RendersItsRun(p) /\ HoldsItsRendering(p))',
         s.at # "written",
         s.at \in {"stored", "discarding"} =>
           \/ HoldsMedia(p) /\ s.media = process[p].media
           \/ media[s.media] # None
  PROVE  IInv'
<1> USE DEF IInv
<1>1. TypeOK'
  BY BecomeMoves DEF TypeOK, run, env
<1>2. AttemptsAreCounted'
  BY AttemptGoesOn DEF run
<1>3. AttemptsAreSound'
  BY MoveIsSound
<1>4. RowsWereWritten' /\ ReportFileIsOfItsRun' /\ FileOrRefusal'
  BY DEF RowsWereWritten, ReportFileIsOfItsRun, FileOrRefusal, run
<1> QED
  BY <1>1, <1>2, <1>3, <1>4

(* A step that ends the attempt and leaves the Media alone. *)
LEMMA ReturnKeepsInvariant ==
  ASSUME ConstantsAssumption, IInv, NEW p \in Process, process[p].at # "idle", Return(p),
         UNCHANGED <<succeeded, env, media, stored, overlapped, jobs, crashes>>, raised' \subseteq Run,
         reportFile' \in [Run -> Media \cup {None}], refused' \subseteq Run,
         ReportFileIsOfItsRun', FileOrRefusal'
  PROVE  IInv'
<1> USE DEF IInv
<1>1. TypeOK'
  BY BecomeMoves DEF Return, ProcessState, TypeOK, env
<1>2. AttemptsAreCounted'
  BY AttemptEnds
<1>3. AttemptsAreSound'
  BY ReturnIsSound
<1>4. RowsWereWritten'
  BY DEF RowsWereWritten
<1> QED
  BY <1>1, <1>2, <1>3, <1>4

LEMMA RenderStep ==
  ASSUME ConstantsAssumption, IInv, NEW p \in Process, Render(p)
  PROVE  IInv'
<1> USE DEF IInv
<1>1. CASE Return(p)
  <2>1. ReportFileIsOfItsRun' /\ FileOrRefusal'
    BY DEF Render, run, ReportFileIsOfItsRun, FileOrRefusal
  <2> QED
    BY <1>1, <2>1, ReturnKeepsInvariant DEF Render, run, TypeOK
<1>2. CASE ~Return(p)
  <2> DEFINE s == [at |-> "rendered", run |-> process[p].run, acks |-> process[p].acks,
                   checksum |-> ChecksumOf(process[p].run, language)]
  <2>1. Become(p, s)
    BY <1>2 DEF Render
  <2>2. process[p].run \in Run /\ process[p].acks \in BOOLEAN
    BY ProcessFields DEF Render
  <2>3. s \in ProcessState
    BY <2>2 DEF TypeOK, ProcessState, Rendering, Checksum, ChecksumOf
  <2>4. process'[p] = s
    BY <2>1, <2>3, BecomeMoves
  <2>5. (RendersItsRun(p) /\ HoldsItsRendering(p))'
    BY <2>4 DEF RendersItsRun, HoldsItsRendering, HoldsMedia, ChecksumOf, TypeOK
  <2> QED
    BY <2>1, <2>3, <2>5, GoOnKeepsInvariant DEF Render
<1> QED
  BY <1>1, <1>2

LEMMA FindReusableMediaStep ==
  ASSUME ConstantsAssumption, IInv, NEW p \in Process, FindReusableMedia(p)
  PROVE  IInv'
<1> USE DEF IInv
<1>1. HasRendered(p) /\ process[p].at = "rendered"
  BY DEF FindReusableMedia, HasRendered
<1>2. CASE Become(p, Carrying(p, "storing"))
  <2>1. Carrying(p, "storing") \in ProcessState
    BY <1>1, CarryingType DEF ProcessState
  <2>2. process'[p] = Carrying(p, "storing")
    BY <1>2, <2>1, BecomeMoves
  <2>3. (RendersItsRun(p) /\ HoldsItsRendering(p))'
    BY <1>1, <2>2
    DEF AttemptsAreSound, RendersItsRun, HoldsItsRendering, HoldsMedia, Carrying
  <2> QED
    BY <1>1, <1>2, <2>1, <2>3, GoOnKeepsInvariant DEF FindReusableMedia, Carrying
<1>3. ASSUME NEW m \in Reusable(process[p].checksum), Become(p, Holding(p, "stored", m))
      PROVE  IInv'
  <2>1. m \in Media /\ media[m] = process[p].checksum
    BY DEF Reusable
  <2>2. Holding(p, "stored", m) \in ProcessState
    BY <1>1, <2>1, HoldingType DEF ProcessState
  <2>3. process'[p] = Holding(p, "stored", m)
    BY <1>3, <2>2, BecomeMoves
  <2>4. media[m] # None
    BY <1>1, <2>1, ProcessFields DEF ConstantsAssumption, Checksum
  <2>5. (RendersItsRun(p) /\ HoldsItsRendering(p))'
    BY <1>1, <2>1, <2>3, <2>4
    DEF AttemptsAreSound, RendersItsRun, HoldsItsRendering, HoldsMedia, Holding,
        RowsWereWritten, FindReusableMedia
  <2> QED
    BY <1>1, <1>3, <2>2, <2>4, <2>5, GoOnKeepsInvariant DEF FindReusableMedia, Holding
<1> QED
  BY <1>2, <1>3 DEF FindReusableMedia

LEMMA ValidateStep ==
  ASSUME ConstantsAssumption, IInv, NEW p \in Process, Validate(p)
  PROVE  IInv'
<1> USE DEF IInv
<1>1. HasRendered(p) /\ process[p].at = "storing" /\ Become(p, Carrying(p, "refused"))
  BY DEF Validate, HasRendered
<1>2. Carrying(p, "refused") \in ProcessState
  BY <1>1, CarryingType DEF ProcessState
<1>3. process'[p] = Carrying(p, "refused")
  BY <1>1, <1>2, BecomeMoves
<1>4. (RendersItsRun(p) /\ HoldsItsRendering(p))'
  BY <1>1, <1>3 DEF AttemptsAreSound, RendersItsRun, HoldsItsRendering, HoldsMedia, Carrying
<1> QED
  BY <1>1, <1>2, <1>4, GoOnKeepsInvariant DEF Validate, Carrying

LEMMA RecordFailureStep ==
  ASSUME ConstantsAssumption, IInv, NEW p \in Process, RecordFailure(p)
  PROVE  IInv'
<1> USE DEF IInv
<1>1. process[p].run \in Run
  BY ProcessFields DEF RecordFailure
<1>2. refused' \subseteq Run /\ FileOrRefusal' /\ ReportFileIsOfItsRun'
  BY <1>1 DEF RecordFailure, TypeOK, FileOrRefusal, ReportFileIsOfItsRun
<1> QED
  BY <1>2, ReturnKeepsInvariant DEF RecordFailure, TypeOK

LEMMA AttachStep ==
  ASSUME ConstantsAssumption, IInv, NEW p \in Process, Attach(p)
  PROVE  IInv'
<1> USE DEF IInv
<1>1. PICK r \in Run, m \in Media : r = process[p].run /\ m = process[p].media
  BY ProcessFields DEF Attach, HoldsMedia
<1>2. /\ process[p].at = "stored" /\ media[m] # None
      /\ reportFile' = [reportFile EXCEPT ![r] = m] /\ refused' = refused \ {r}
      /\ UNCHANGED media
  BY <1>1 DEF Attach
<1>3. media[m] \in {<<r, l>> : l \in Language}
  BY <1>1, <1>2
  DEF AttemptsAreSound, RendersItsRun, HoldsItsRendering, HasRendered
<1>4. reportFile' \in [Run -> Media \cup {None}] /\ refused' \subseteq Run
  BY <1>2 DEF TypeOK
<1>5. ReportFileIsOfItsRun'
  BY <1>2, <1>3 DEF ReportFileIsOfItsRun, TypeOK
<1>6. FileOrRefusal'
  BY <1>2 DEF FileOrRefusal, TypeOK
<1> QED
  BY <1>4, <1>5, <1>6, ReturnKeepsInvariant DEF Attach, TypeOK

LEMMA AttachVanishedStep ==
  ASSUME ConstantsAssumption, IInv, NEW p \in Process, AttachVanished(p)
  PROVE  IInv'
<1> USE DEF IInv
<1>1. ReportFileIsOfItsRun' /\ FileOrRefusal'
  BY DEF AttachVanished, run, ReportFileIsOfItsRun, FileOrRefusal
<1>2. raised' \subseteq Run
  BY ProcessFields DEF AttachVanished, GivesUp, TypeOK
<1> QED
  BY <1>1, <1>2, ReturnKeepsInvariant DEF AttachVanished, run, TypeOK
(* The bytes are written under a name that nothing refers to yet. *)
LEMMA WriteBytesStep ==
  ASSUME ConstantsAssumption, IInv, NEW p \in Process, WriteBytes(p)
  PROVE  IInv'
<1> USE DEF IInv
<1>1. PICK m \in Media :
        /\ stored[m] = "never" /\ stored' = [stored EXCEPT ![m] = "present"]
        /\ Become(p, Holding(p, "written", m))
  BY DEF WriteBytes
<1>2. /\ HasRendered(p) /\ process[p].at = "storing"
      /\ UNCHANGED <<run, env, media, overlapped, jobs, raised, crashes>>
  BY DEF WriteBytes, HasRendered
<1>3. Holding(p, "written", m) \in ProcessState
  BY <1>2, HoldingType DEF ProcessState
<1>4. /\ process' \in [Process -> ProcessState]
      /\ process'[p] = Holding(p, "written", m)
      /\ \A q \in Process : q # p => process'[q] = process[q]
  BY <1>1, <1>3, BecomeMoves
<1>5. TypeOK'
  BY <1>1, <1>2, <1>4 DEF TypeOK, run, env
<1>6. AttemptsAreCounted'
  BY <1>1, <1>2, <1>3, AttemptGoesOn DEF Holding, run
<1>7. ASSUME NEW q \in Process PROVE (RendersItsRun(q) /\ HoldsItsRendering(q))'
  <2>1. stored'[m] = "present" /\ \A n \in Media : n # m => stored'[n] = stored[n]
    BY <1>1 DEF TypeOK
  <2>2. CASE q = p
    BY <1>2, <1>4, <2>1, <2>2
    DEF AttemptsAreSound, RendersItsRun, HoldsItsRendering, HoldsMedia, Holding
  <2>3. CASE q # p
    BY <1>2, <1>4, <2>1, <2>3, ProcessFields
    DEF AttemptsAreSound, RendersItsRun, HoldsItsRendering, HasRendered, HoldsMedia
  <2> QED
    BY <2>2, <2>3
<1>8. ASSUME NEW q \in Process PROVE OwnsItsMedia(q)'
  <2>1. ASSUME NEW o \in Process, HoldsMedia(o) PROVE process[o].media # m
    BY <1>1, <2>1 DEF AttemptsAreSound, HoldsItsRendering
  <2>2. CASE q = p
    <3>1. media[m] = None
      BY <1>1 DEF RowsWereWritten
    <3> QED
      BY <1>2, <1>4, <2>1, <2>2, <3>1 DEF OwnsItsMedia, HoldsMedia, Holding
  <2>3. CASE q # p
    BY <1>2, <1>4, <2>1, <2>3 DEF AttemptsAreSound, OwnsItsMedia, HoldsMedia, Holding
  <2> QED
    BY <2>2, <2>3
<1>9. RowsWereWritten' /\ ReportFileIsOfItsRun' /\ FileOrRefusal'
  BY <1>1, <1>2 DEF RowsWereWritten, ReportFileIsOfItsRun, FileOrRefusal, run, TypeOK
<1> QED
  BY <1>5, <1>6, <1>7, <1>8, <1>9 DEF AttemptsAreSound

LEMMA InsertMediaStep ==
  ASSUME ConstantsAssumption, IInv, NEW p \in Process, InsertMedia(p)
  PROVE  IInv'
<1> USE DEF IInv
<1>1. PICK m \in Media, c \in Checksum : m = process[p].media /\ c = process[p].checksum
  BY ProcessFields DEF InsertMedia, HoldsMedia, HasRendered
<1>2. /\ HasRendered(p) /\ HoldsMedia(p) /\ process[p].at = "written"
      /\ media' = [media EXCEPT ![m] = c]
      /\ Become(p, Holding(p, "stored", m))
      /\ UNCHANGED <<run, env, stored, overlapped, jobs, raised, crashes>>
  BY <1>1 DEF InsertMedia, HasRendered, HoldsMedia
<1>3. Holding(p, "stored", m) \in ProcessState
  BY <1>2, HoldingType DEF ProcessState
<1>4. /\ process' \in [Process -> ProcessState]
      /\ process'[p] = Holding(p, "stored", m)
      /\ \A q \in Process : q # p => process'[q] = process[q]
  BY <1>2, <1>3, BecomeMoves
<1>5. TypeOK'
  BY <1>2, <1>4 DEF TypeOK, run, env
<1>6. AttemptsAreCounted'
  BY <1>2, <1>3, AttemptGoesOn DEF Holding, run
<1>7. media'[m] = c /\ \A n \in Media : n # m => media'[n] = media[n]
  BY <1>2 DEF TypeOK
<1>8. media[m] = None /\ stored[m] # "never"
  BY <1>1, <1>2 DEF AttemptsAreSound, OwnsItsMedia, HoldsItsRendering
<1>9. ASSUME NEW q \in Process
      PROVE  (RendersItsRun(q) /\ OwnsItsMedia(q) /\ HoldsItsRendering(q))'
  <2>1. CASE q = p
    BY <1>1, <1>2, <1>4, <1>7, <1>8, <2>1
    DEF AttemptsAreSound, RendersItsRun, OwnsItsMedia, HoldsItsRendering, HoldsMedia, Holding
  <2>2. CASE q # p
    <3>1. process'[q] = process[q] /\ (HoldsMedia(q) => process[q].media \in Media \ {m})
      BY <1>1, <1>2, <1>4, <2>2, ProcessFields DEF AttemptsAreSound, OwnsItsMedia
    <3>2. RendersItsRun(q)' /\ HoldsItsRendering(q)'
      BY <1>2, <1>7, <3>1
      DEF AttemptsAreSound, RendersItsRun, HoldsItsRendering, HasRendered, HoldsMedia
    <3>3. OwnsItsMedia(q)'
      BY <1>1, <1>2, <1>4, <1>7, <3>1 DEF AttemptsAreSound, OwnsItsMedia, HoldsMedia, Holding
    <3> QED
      BY <3>2, <3>3
  <2> QED
    BY <2>1, <2>2
<1>10. RowsWereWritten'
  BY <1>2, <1>7, <1>8 DEF RowsWereWritten
<1>11. ReportFileIsOfItsRun' /\ FileOrRefusal'
  <2>1. ASSUME NEW r \in Run, reportFile[r] # None
        PROVE  media'[reportFile[r]] = media[reportFile[r]]
    <3>1. media[reportFile[r]] # None
      BY <2>1 DEF ReportFileIsOfItsRun, ConstantsAssumption
    <3> QED
      BY <1>7, <1>8, <2>1, <3>1 DEF TypeOK
  <2> QED
    BY <1>2, <2>1 DEF ReportFileIsOfItsRun, FileOrRefusal, run
<1> QED
  BY <1>5, <1>6, <1>9, <1>10, <1>11 DEF AttemptsAreSound

LEMMA DiscardBytesStep ==
  ASSUME ConstantsAssumption, IInv, NEW p \in Process, DiscardBytes(p)
  PROVE  IInv'
<1> USE DEF IInv
<1>1. PICK m \in Media : m = process[p].media
  BY ProcessFields DEF DiscardBytes, HoldsMedia
<1>2. /\ HasRendered(p) /\ HoldsMedia(p) /\ process[p].at = "stored"
      /\ stored' = [stored EXCEPT ![m] = "deleted"]
      /\ Become(p, Holding(p, "discarding", m))
      /\ UNCHANGED <<run, env, media, overlapped, jobs, raised, crashes>>
  BY <1>1 DEF DiscardBytes, HasRendered, HoldsMedia
<1>3. Holding(p, "discarding", m) \in ProcessState
  BY <1>2, HoldingType DEF ProcessState
<1>4. /\ process' \in [Process -> ProcessState]
      /\ process'[p] = Holding(p, "discarding", m)
      /\ \A q \in Process : q # p => process'[q] = process[q]
  BY <1>2, <1>3, BecomeMoves
<1>5. TypeOK'
  BY <1>2, <1>4 DEF TypeOK, run, env
<1>6. AttemptsAreCounted'
  BY <1>2, <1>3, AttemptGoesOn DEF Holding, run
<1>7. ASSUME NEW n \in Media PROVE stored'[n] = "never" => stored[n] = "never"
  BY <1>2 DEF TypeOK
<1>8. ASSUME NEW q \in Process PROVE (RendersItsRun(q) /\ HoldsItsRendering(q))'
  <2>1. CASE q = p
    BY <1>1, <1>2, <1>4, <1>7, <2>1
    DEF AttemptsAreSound, RendersItsRun, HoldsItsRendering, HoldsMedia, Holding
  <2>2. CASE q # p
    BY <1>2, <1>4, <1>7, <2>2, ProcessFields
    DEF AttemptsAreSound, RendersItsRun, HoldsItsRendering, HasRendered, HoldsMedia
  <2> QED
    BY <2>1, <2>2
<1>9. ASSUME NEW q \in Process PROVE OwnsItsMedia(q)'
  BY <1>1, <1>2, <1>4 DEF AttemptsAreSound, OwnsItsMedia, HoldsMedia, Holding
<1>10. RowsWereWritten' /\ ReportFileIsOfItsRun' /\ FileOrRefusal'
  BY <1>2, <1>7 DEF RowsWereWritten, ReportFileIsOfItsRun, FileOrRefusal, run
<1> QED
  BY <1>5, <1>6, <1>8, <1>9, <1>10 DEF AttemptsAreSound

LEMMA DiscardMediaStep ==
  ASSUME ConstantsAssumption, IInv, NEW p \in Process, DiscardMedia(p)
  PROVE  IInv'
<1> USE DEF IInv
<1>1. PICK m \in Media : m = process[p].media
  BY ProcessFields DEF DiscardMedia, HoldsMedia
<1>2. /\ process[p].at = "discarding"
      /\ media' = [media EXCEPT ![m] = None]
      /\ reportFile' = [r \in Run |-> IF reportFile[r] = m THEN None ELSE reportFile[r]]
      /\ Return(p)
      /\ UNCHANGED <<succeeded, refused, env, stored, overlapped, jobs, raised, crashes>>
  BY <1>1 DEF DiscardMedia
<1>3. /\ process' \in [Process -> ProcessState]
      /\ process'[p] = Idle
      /\ \A q \in Process : q # p => process'[q] = process[q]
  BY <1>2, BecomeMoves DEF Return, ProcessState
<1>4. TypeOK'
  BY <1>2, <1>3 DEF TypeOK, env
<1>5. AttemptsAreCounted'
  BY <1>2, AttemptEnds
<1>6. ASSUME NEW n \in Media PROVE media'[n] \in {None, media[n]} /\ (n # m => media'[n] = media[n])
  BY <1>2 DEF TypeOK
<1>7. ASSUME NEW q \in Process
      PROVE  (RendersItsRun(q) /\ OwnsItsMedia(q) /\ HoldsItsRendering(q))'
  <2>1. CASE q = p
    BY <1>3, <2>1
    DEF RendersItsRun, OwnsItsMedia, HoldsItsRendering, HasRendered, HoldsMedia, Idle
  <2>2. CASE q # p
    <3>1. RendersItsRun(q)' /\ HoldsItsRendering(q)'
      BY <1>2, <1>3, <1>6, <2>2, ProcessFields
      DEF AttemptsAreSound, RendersItsRun, HoldsItsRendering, HasRendered, HoldsMedia
    <3>2. OwnsItsMedia(q)'
      BY <1>3, <1>6, <2>2, ProcessFields
      DEF AttemptsAreSound, OwnsItsMedia, HoldsMedia, Idle
    <3> QED
      BY <3>1, <3>2
  <2> QED
    BY <2>1, <2>2
<1>8. RowsWereWritten'
  BY <1>2, <1>6 DEF RowsWereWritten
<1>9. ReportFileIsOfItsRun'
  BY <1>2, <1>6 DEF ReportFileIsOfItsRun, TypeOK
<1>10. FileOrRefusal'
  BY <1>2 DEF FileOrRefusal
<1> QED
  BY <1>4, <1>5, <1>7, <1>8, <1>9, <1>10 DEF AttemptsAreSound

LEMMA InvariantInit == ConstantsAssumption /\ Init => IInv
<1> SUFFICES ASSUME ConstantsAssumption, Init PROVE IInv
  OBVIOUS
<1>1. TypeOK
  BY DEF Init, TypeOK, ProcessState, ConstantsAssumption
<1>2. ASSUME NEW r \in Run PROVE Handling(r) = {}
  BY DEF Init, Handling, Idle
<1>3. AttemptsAreCounted
  BY <1>2, FS_EmptySet DEF AttemptsAreCounted, Outstanding, Init, ConstantsAssumption
<1>4. AttemptsAreSound
  BY DEF Init, AttemptsAreSound, RendersItsRun, OwnsItsMedia, HoldsItsRendering, HasRendered,
         HoldsMedia, Idle
<1>5. RowsWereWritten /\ ReportFileIsOfItsRun /\ FileOrRefusal
  BY DEF Init, RowsWereWritten, ReportFileIsOfItsRun, FileOrRefusal
<1> QED
  BY <1>1, <1>3, <1>4, <1>5 DEF IInv

LEMMA InvariantStep ==
  ASSUME ConstantsAssumption, IInv, [Next]_vars
  PROVE  IInv'
BY AskedSteps, OutsideSteps, BeginSteps, CrashStep, RenderStep, FindReusableMediaStep,
   ValidateStep, WriteBytesStep, InsertMediaStep, RecordFailureStep, AttachStep,
   AttachVanishedStep, DiscardBytesStep, DiscardMediaStep
DEF Next, Asked, Generate

(* The invariant holds in every state, for any number of overlapping attempts. *)
THEOREM InvariantHolds == ASSUME ConstantsAssumption PROVE Spec => []IInv
<1>1. Init => IInv
  BY InvariantInit
<1>2. IInv /\ [Next]_vars => IInv'
  BY InvariantStep
<1> QED
  BY <1>1, <1>2, PTL DEF Spec
-----------------------------------------------------------------------------
(* Attempts that follow one another.  First, how attempts move. *)

(* A step of generate moves one attempt on, at its run, or ends it. *)
LEMMA GenerateMoves ==
  ASSUME NEW p \in Process, Generate(p)
  PROVE  /\ process[p].at # "idle"
         /\ \E s : Become(p, s) /\ (s.at = "idle" \/ s.run = process[p].run)
<1>1. ASSUME Return(p) PROVE \E s : Become(p, s) /\ (s.at = "idle" \/ s.run = process[p].run)
  BY <1>1 DEF Return, Idle
<1>2. ASSUME NEW state, Become(p, Carrying(p, state))
      PROVE  \E s : Become(p, s) /\ (s.at = "idle" \/ s.run = process[p].run)
  BY <1>2 DEF Carrying
<1>3. ASSUME NEW state, NEW m, Become(p, Holding(p, state, m))
      PROVE  \E s : Become(p, s) /\ (s.at = "idle" \/ s.run = process[p].run)
  BY <1>3 DEF Holding
<1>4. CASE Render(p)
  BY <1>1, <1>4 DEF Render
<1>5. CASE FindReusableMedia(p) \/ Validate(p)
  BY <1>2, <1>3, <1>5 DEF FindReusableMedia, Validate
<1>6. CASE WriteBytes(p) \/ InsertMedia(p) \/ DiscardBytes(p)
  BY <1>3, <1>6 DEF WriteBytes, InsertMedia, DiscardBytes
<1>7. CASE RecordFailure(p) \/ Attach(p) \/ AttachVanished(p) \/ DiscardMedia(p)
  BY <1>1, <1>7 DEF RecordFailure, Attach, AttachVanished, DiscardMedia
<1> QED
  BY <1>4, <1>5, <1>6, <1>7 DEF Generate

(* An attempt that is under way after a step was under way before, at the same *)
(* run, or begins in it.                                                       *)
LEMMA AttemptsMove ==
  ASSUME ConstantsAssumption, IInv, [Next]_vars, NEW p \in Process, process'[p].at # "idle"
  PROVE  \/ process[p].at # "idle" /\ process'[p].run = process[p].run
         \/ \E acks \in BOOLEAN : Begin(p, process'[p].run, acks)
<1> USE DEF IInv
<1>1. ASSUME NEW q \in Process, NEW s, Become(q, s), process'[p] # process[p]
      PROVE  q = p /\ s = process'[p]
  BY <1>1 DEF Become, TypeOK
<1>2. CASE process'[p] = process[p]
  BY <1>2
<1>3. CASE process'[p] # process[p]
  <2>1. ASSUME NEW q \in Process, Generate(q) PROVE q = p /\ process'[p].run = process[p].run
    <3>1. PICK s : Become(q, s) /\ (s.at = "idle" \/ s.run = process[q].run)
      BY <2>1, GenerateMoves
    <3> QED
      BY <1>1, <1>3, <3>1
  <2>2. ASSUME NEW q \in Process, Crash(q) \/ Raise(q) PROVE FALSE
    BY <1>1, <1>3, <2>2 DEF Crash, Raise, Return, Idle
  <2>3. ASSUME NEW q \in Process, NEW r \in Run, NEW acks \in BOOLEAN, Begin(q, r, acks)
        PROVE  Begin(p, process'[p].run, acks)
    BY <1>1, <1>3, <2>3 DEF Begin
  <2> QED
    BY <1>3, <2>1, <2>2, <2>3, GenerateMoves
    DEF Next, Asked, RunSucceeds, GenerateReport, RaiseCap, ChangeLanguage, Take, Backfill, vars
<1> QED
  BY <1>2, <1>3

(* A step of generate does move. *)
LEMMA GenerateMovesOn ==
  ASSUME TypeOK, NEW p \in Process, Generate(p)
  PROVE  process'[p] # process[p]
<1>1. ASSUME NEW s, Become(p, s), s.at # process[p].at PROVE process'[p] # process[p]
  BY <1>1 DEF Become, TypeOK
<1>2. ASSUME Return(p), process[p].at # "idle" PROVE process'[p] # process[p]
  BY <1>1, <1>2 DEF Return, Idle
<1>3. ASSUME NEW state, Become(p, Carrying(p, state)), state # process[p].at
      PROVE  process'[p] # process[p]
  BY <1>1, <1>3 DEF Carrying
<1>4. ASSUME NEW state, NEW m, Become(p, Holding(p, state, m)), state # process[p].at
      PROVE  process'[p] # process[p]
  BY <1>1, <1>4 DEF Holding
<1>5. CASE Render(p)
  BY <1>1, <1>2, <1>5 DEF Render
<1>6. CASE FindReusableMedia(p) \/ Validate(p)
  BY <1>3, <1>4, <1>6 DEF FindReusableMedia, Validate
<1>7. CASE WriteBytes(p) \/ InsertMedia(p) \/ DiscardBytes(p)
  BY <1>4, <1>7 DEF WriteBytes, InsertMedia, DiscardBytes
<1>8. CASE RecordFailure(p) \/ Attach(p) \/ AttachVanished(p) \/ DiscardMedia(p)
  BY <1>2, <1>8 DEF RecordFailure, Attach, AttachVanished, DiscardMedia
<1> QED
  BY <1>5, <1>6, <1>7, <1>8 DEF Generate

(* What a step does to the files: one table at a time, or nothing. *)
LEMMA FilesMove ==
  ASSUME [Next]_vars
  PROVE  \/ UNCHANGED <<reportFile, media, stored>>
         \/ \E p \in Process : Attach(p) /\ UNCHANGED <<media, stored>>
         \/ \E p \in Process : WriteBytes(p) /\ UNCHANGED <<reportFile, media>>
         \/ \E p \in Process : InsertMedia(p) /\ UNCHANGED <<reportFile, stored>>
         \/ \E p \in Process : DiscardBytes(p) /\ UNCHANGED <<reportFile, media>>
         \/ \E p \in Process : DiscardMedia(p) /\ UNCHANGED stored
<1>1. ASSUME NEW p \in Process, Generate(p)
      PROVE  \/ UNCHANGED <<reportFile, media, stored>>
             \/ Attach(p) /\ UNCHANGED <<media, stored>>
             \/ WriteBytes(p) /\ UNCHANGED <<reportFile, media>>
             \/ InsertMedia(p) /\ UNCHANGED <<reportFile, stored>>
             \/ DiscardBytes(p) /\ UNCHANGED <<reportFile, media>>
             \/ DiscardMedia(p) /\ UNCHANGED stored
  BY <1>1
  DEF Generate, Render, FindReusableMedia, Validate, WriteBytes, InsertMedia, RecordFailure,
      Attach, AttachVanished, DiscardBytes, DiscardMedia, run
<1> QED
  BY <1>1
  DEF Next, Asked, RunSucceeds, GenerateReport, RaiseCap, ChangeLanguage, Take, Backfill, Crash,
      Raise, vars, run

(* Runs are marked for good. *)
LEMMA MarksStay ==
  ASSUME [Next]_vars
  PROVE  overlapped \subseteq overlapped'
BY DEF Next, Asked, RunSucceeds, GenerateReport, RaiseCap, ChangeLanguage, Take, Backfill,
       Begin, Crash, Raise, Generate, Render, FindReusableMedia, Validate, WriteBytes, InsertMedia,
       RecordFailure, Attach, AttachVanished, DiscardBytes, DiscardMedia, vars

(* An attempt that is the only one, and was. *)
LEMMA AloneBefore ==
  ASSUME ConstantsAssumption, IInv, [Next]_vars, NEW p \in Process, Alone(p)',
         process[p].at # "idle"
  PROVE  Alone(p) /\ process'[p].run = process[p].run
<1>1. process'[p].at # "idle" /\ process'[p].run \notin overlapped
  BY MarksStay DEF Alone
<1>2. process'[p].run = process[p].run
  BY <1>1, AttemptsMove DEF Begin
<1> QED
  BY <1>1, <1>2 DEF Alone

LEMMA TurnsStep ==
  ASSUME ConstantsAssumption, IInv, TurnsAreTaken, [Next]_vars
  PROVE  TurnsAreTaken'
<1> USE DEF IInv
<1> SUFFICES ASSUME NEW p \in Process, NEW q \in Process, Alone(p)',
                    process'[q].at # "idle", process'[q].run = process'[p].run
             PROVE  p = q
  BY DEF TurnsAreTaken
<1>1. process'[p].at # "idle" /\ process'[p].run \notin overlapped'
  BY DEF Alone
<1>2. ASSUME NEW x \in Process, NEW y \in Process, NEW acks \in BOOLEAN,
             Begin(x, process'[x].run, acks), process'[x].run \notin overlapped',
             process[y].at # "idle", process[y].run = process'[x].run
      PROVE  FALSE
  BY <1>2 DEF Begin, Handling
<1>3. ASSUME NEW a \in BOOLEAN, NEW b \in BOOLEAN,
             Begin(p, process'[p].run, a), Begin(q, process'[q].run, b)
      PROVE  p = q
  BY <1>3 DEF Begin, Become, TypeOK, Idle
<1>4. CASE process[p].at # "idle" /\ process[q].at # "idle"
  <2>1. process[q].run = process'[q].run
    BY <1>4, AttemptsMove DEF Begin
  <2> QED
    BY <1>4, <2>1, AloneBefore DEF TurnsAreTaken
<1> QED
  BY <1>1, <1>2, <1>3, <1>4, AttemptsMove

-----------------------------------------------------------------------------
(* What belongs to an attempt that is alone at its run. *)

(* Only the attempt at a run makes renderings of it. *)
LEMMA RenderingsAreApart ==
  ASSUME IInv, SerialInv, NEW p \in Process, NEW q \in Process,
         HasRendered(p), HasRendered(q), Alone(q), process[p].checksum = process[q].checksum
  PROVE  p = q
<1>1. process[p].run = process[q].run
  BY DEF IInv, AttemptsAreSound, RendersItsRun
<1> QED
  BY <1>1 DEF SerialInv, TurnsAreTaken, HasRendered

(* And nobody else holds the Media that it holds. *)
LEMMA HoldsItAlone ==
  ASSUME ConstantsAssumption, IInv, SerialInv, NEW p \in Process, NEW q \in Process, p # q,
         HoldsMedia(p), HoldsMedia(q), Alone(q)
  PROVE  process[p].media # process[q].media
<1> USE DEF IInv
<1>1. CASE process[p].at = "written" \/ process[q].at = "written"
  BY <1>1 DEF AttemptsAreSound, OwnsItsMedia
<1>2. CASE process[p].at # "written" /\ process[q].at # "written"
  <2>1. media[process[q].media] = process[q].checksum
    BY <1>2 DEF SerialInv, IsInTurn, HoldsMedia
  <2>2. media[process[p].media] \in {None, process[p].checksum}
    BY <1>2 DEF AttemptsAreSound, HoldsItsRendering, HoldsMedia
  <2>3. process[p].checksum # process[q].checksum
    BY RenderingsAreApart DEF HoldsMedia, HasRendered
  <2>4. process[q].checksum # None
    BY ProcessFields DEF HoldsMedia, HasRendered, ConstantsAssumption, Checksum
  <2> QED
    BY <2>1, <2>2, <2>3, <2>4
<1> QED
  BY <1>1, <1>2

(* What the attempt finds stored would be attached to its own run, which has   *)
(* no file: so it is reusable, or it is not there.                             *)
LEMMA NothingOfThisRendering ==
  ASSUME ConstantsAssumption, IInv, NEW p \in Process, IsInTurn(p), process[p].at = "rendered",
         Reusable(process[p].checksum) = {}
  PROVE  \A m \in Media : media[m] # process[p].checksum
<1> SUFFICES ASSUME NEW m \in Media, media[m] = process[p].checksum
             PROVE  FALSE
  OBVIOUS
<1>1. PICK l \in Language : process[p].checksum = <<process[p].run, l>>
  BY DEF IInv, AttemptsAreSound, RendersItsRun, HasRendered
<1>2. PICK r \in Run : reportFile[r] = m
  BY DEF Reusable, Attached
<1>3. media[m] \in {<<r, k>> : k \in Language}
  BY <1>2 DEF IInv, ReportFileIsOfItsRun, ConstantsAssumption
<1>4. r = process[p].run
  BY <1>1, <1>3
<1> QED
  BY <1>2, <1>4 DEF IsInTurn, HasRendered, ConstantsAssumption

(* A rendering of an undisturbed run is never discarded. *)
LEMMA NoneIsDiscarded ==
  ASSUME ConstantsAssumption, IInv, SerialInv, NEW r \in Run \ overlapped, NEW m \in Media,
         NEW l \in Language, media[m] = <<r, l>>, NEW p \in Process,
         DiscardBytes(p) \/ DiscardMedia(p)
  PROVE  process[p].media # m
<1> USE DEF IInv
<1>1. /\ process[p].at \in {"stored", "discarding"}
      /\ process[p].at = "stored" => reportFile[process[p].run] # None
  BY DEF DiscardBytes, DiscardMedia
<1>2. process[p].run \in overlapped
  BY <1>1 DEF SerialInv, Alone, IsInTurn, HasRendered
<1>3. PICK k \in Language : process[p].checksum = <<process[p].run, k>>
  BY <1>1 DEF AttemptsAreSound, RendersItsRun, HasRendered
<1>4. media[process[p].media] \in {None, <<process[p].run, k>>}
  BY <1>1, <1>3 DEF AttemptsAreSound, HoldsItsRendering
<1>5. <<r, l>> # None
  BY DEF ConstantsAssumption
<1> QED
  BY <1>2, <1>4, <1>5

-----------------------------------------------------------------------------
(* What the tables and the storage are, after a step, for who did not move. *)
LEMMA OthersStayInTurn ==
  ASSUME ConstantsAssumption, IInv, SerialInv, [Next]_vars, NEW q \in Process,
         process'[q] = process[q], Alone(q)
  PROVE  IsInTurn(q)'
<1> USE DEF IInv
<1>1. IsInTurn(q)
  BY DEF SerialInv
<1>2. ASSUME NEW p \in Process, Generate(p) PROVE p # q
  <2> SUFFICES ASSUME p = q PROVE FALSE
    OBVIOUS
  <2>1. Generate(q)
    BY <1>2
  <2> QED
    BY <2>1, GenerateMovesOn
<1>3. HasRendered(q) => reportFile'[process[q].run] = None
  <2> SUFFICES ASSUME HasRendered(q) PROVE reportFile'[process[q].run] = None
    OBVIOUS
  <2>1. reportFile[process[q].run] = None /\ process[q].run \in Run
    BY <1>1, ProcessFields DEF IsInTurn, HasRendered
  <2>2. ASSUME NEW p \in Process, Attach(p) PROVE reportFile'[process[q].run] = None
    <3>1. process[p].at = "stored" /\ p # q
      BY <1>2, <2>2 DEF Attach, Generate
    <3>2. process[p].run # process[q].run
      BY <3>1 DEF SerialInv, TurnsAreTaken
    <3> QED
      BY <2>1, <2>2, <3>2 DEF Attach, TypeOK
  <2>3. ASSUME NEW p \in Process, DiscardMedia(p) PROVE reportFile'[process[q].run] = None
    BY <2>1, <2>3 DEF DiscardMedia
  <2>4. CASE reportFile' = reportFile
    BY <2>1, <2>4
  <2> QED
    BY <2>2, <2>3, <2>4, FilesMove
<1>4. ASSUME process[q].at \in {"storing", "written"}, NEW m \in Media
      PROVE  media'[m] # process[q].checksum
  <2>1. media[m] # process[q].checksum /\ process[q].checksum # None
    BY <1>1, <1>4, ProcessFields DEF IsInTurn, HasRendered, ConstantsAssumption, Checksum
  <2>2. ASSUME NEW p \in Process, InsertMedia(p) PROVE media'[m] # process[q].checksum
    <3>1. p # q /\ HasRendered(p) /\ HasRendered(q)
      BY <1>2, <1>4, <2>2 DEF InsertMedia, Generate, HasRendered
    <3>2. process[p].checksum # process[q].checksum
      BY <3>1, RenderingsAreApart
    <3> QED
      BY <2>1, <2>2, <3>2 DEF InsertMedia, TypeOK
  <2>3. ASSUME NEW p \in Process, DiscardMedia(p) PROVE media'[m] # process[q].checksum
    BY <2>1, <2>3 DEF DiscardMedia, TypeOK
  <2> QED
    BY <2>1, <2>2, <2>3, FilesMove
<1>5. ASSUME HoldsMedia(q)
      PROVE  /\ stored'[process[q].media] = "present"
             /\ process[q].at = "stored" => media'[process[q].media] = process[q].checksum
  <2>1. PICK m \in Media : m = process[q].media
    BY <1>5, ProcessFields
  <2>2. /\ stored[m] = "present"
        /\ process[q].at = "stored" => media[m] = process[q].checksum
    BY <1>1, <1>5, <2>1 DEF IsInTurn
  <2>3. ASSUME NEW p \in Process, HoldsMedia(p), Generate(p) PROVE process[p].media # m
    BY <1>2, <1>5, <2>1, <2>3, HoldsItAlone
  <2>4. ASSUME NEW p \in Process, WriteBytes(p)
        PROVE  stored'[m] = "present" /\ media' = media
    BY <2>2, <2>4 DEF WriteBytes, TypeOK
  <2>5. ASSUME NEW p \in Process, InsertMedia(p) \/ DiscardBytes(p) \/ DiscardMedia(p)
        PROVE  stored'[m] = stored[m] /\ media'[m] = media[m]
    <3>1. HoldsMedia(p) /\ process[p].media # m
      BY <2>3, <2>5 DEF InsertMedia, DiscardBytes, DiscardMedia, HoldsMedia, Generate
    <3> QED
      BY <2>5, <3>1 DEF InsertMedia, DiscardBytes, DiscardMedia, TypeOK
  <2>6. stored'[m] = "present" /\ media'[m] = media[m]
    BY <2>2, <2>4, <2>5, FilesMove
  <2> QED
    BY <2>1, <2>2, <2>6
<1> QED
  BY <1>1, <1>3, <1>4, <1>5 DEF IsInTurn, HasRendered, HoldsMedia

(* What the attempt that moves has found, stored or written. *)
LEMMA MoverIsInTurn ==
  ASSUME ConstantsAssumption, IInv, SerialInv, NEW p \in Process, Generate(p), Alone(p),
         process'[p].at # "idle"
  PROVE  IsInTurn(p)'
<1> USE DEF IInv
<1>1. IsInTurn(p) /\ process[p].run \in Run \ overlapped
  BY ProcessFields DEF SerialInv, Alone
<1>2. ASSUME NEW s \in ProcessState, Become(p, s) PROVE process'[p] = s
  BY <1>2, BecomeMoves
<1>3. ~Return(p)
  BY <1>2 DEF Return, ProcessState, Idle
<1>4. CASE Render(p)
  <2>1. Become(p, [at |-> "rendered", run |-> process[p].run, acks |-> process[p].acks,
                   checksum |-> ChecksumOf(process[p].run, language)])
    BY <1>3, <1>4 DEF Render
  <2>2. process'[p].at = "rendered" /\ process'[p].run = process[p].run
    BY <2>1 DEF Become, TypeOK
  <2>3. reportFile'[process[p].run] = None
    BY <1>3, <1>4 DEF Render, run
  <2> QED
    BY <2>2, <2>3 DEF IsInTurn, HasRendered, HoldsMedia
<1>5. CASE FindReusableMedia(p)
  <2>1. /\ process[p].at = "rendered" /\ HasRendered(p)
        /\ UNCHANGED <<reportFile, media, stored>>
    BY <1>5 DEF FindReusableMedia, HasRendered, run
  <2>2. reportFile[process[p].run] = None
    BY <1>1, <2>1 DEF IsInTurn
  <2>3. CASE Reusable(process[p].checksum) = {}
    <3>1. Become(p, Carrying(p, "storing")) /\ Carrying(p, "storing") \in ProcessState
      BY <1>5, <2>1, <2>3, CarryingType DEF FindReusableMedia, ProcessState
    <3>2. process'[p] = Carrying(p, "storing")
      BY <1>2, <3>1
    <3>3. \A m \in Media : media[m] # process[p].checksum
      BY <1>1, <2>1, <2>3, NothingOfThisRendering
    <3> QED
      BY <2>1, <2>2, <3>2, <3>3 DEF IsInTurn, HasRendered, HoldsMedia, Carrying
  <2>4. CASE Reusable(process[p].checksum) # {}
    <3>1. PICK m \in Reusable(process[p].checksum) : Become(p, Holding(p, "stored", m))
      BY <1>5, <2>4 DEF FindReusableMedia
    <3>2. m \in Media /\ media[m] = process[p].checksum
      BY DEF Reusable
    <3>3. process'[p] = Holding(p, "stored", m)
      BY <1>2, <2>1, <3>1, <3>2, HoldingType DEF ProcessState
    <3>4. PICK l \in Language : process[p].checksum = <<process[p].run, l>>
      BY <2>1 DEF AttemptsAreSound, RendersItsRun
    <3>5. stored[m] = "present"
      BY <1>1, <3>2, <3>4 DEF SerialInv, RenderingsAreKept
    <3> QED
      BY <2>1, <2>2, <3>2, <3>3, <3>5 DEF IsInTurn, HasRendered, HoldsMedia, Holding
  <2> QED
    BY <2>3, <2>4
<1>6. CASE Validate(p)
  <2>1. /\ HasRendered(p) /\ Become(p, Carrying(p, "refused"))
        /\ UNCHANGED <<reportFile, media, stored>>
    BY <1>6 DEF Validate, HasRendered, run
  <2>2. process'[p] = Carrying(p, "refused")
    BY <1>2, <2>1, CarryingType DEF ProcessState
  <2> QED
    BY <1>1, <2>1, <2>2 DEF IsInTurn, HasRendered, HoldsMedia, Carrying
<1>7. CASE WriteBytes(p)
  <2>1. PICK m \in Media :
          /\ stored' = [stored EXCEPT ![m] = "present"]
          /\ Become(p, Holding(p, "written", m))
    BY <1>7 DEF WriteBytes
  <2>2. /\ HasRendered(p) /\ process[p].at = "storing" /\ UNCHANGED <<reportFile, media>>
    BY <1>7 DEF WriteBytes, HasRendered, run
  <2>3. process'[p] = Holding(p, "written", m)
    BY <1>2, <2>1, <2>2, HoldingType DEF ProcessState
  <2>4. stored'[m] = "present"
    BY <2>1 DEF TypeOK
  <2> QED
    BY <1>1, <2>2, <2>3, <2>4 DEF IsInTurn, HasRendered, HoldsMedia, Holding
<1>8. CASE InsertMedia(p)
  <2>1. PICK m \in Media : m = process[p].media
    BY <1>8, ProcessFields DEF InsertMedia, HoldsMedia
  <2>2. /\ HasRendered(p) /\ HoldsMedia(p) /\ process[p].at = "written"
        /\ media' = [media EXCEPT ![m] = process[p].checksum]
        /\ Become(p, Holding(p, "stored", m))
        /\ UNCHANGED <<reportFile, stored>>
    BY <1>8, <2>1 DEF InsertMedia, HasRendered, HoldsMedia, run
  <2>3. process'[p] = Holding(p, "stored", m)
    BY <1>2, <2>2, HoldingType DEF ProcessState
  <2>4. media'[m] = process[p].checksum
    BY <2>2 DEF TypeOK
  <2> QED
    BY <1>1, <2>1, <2>2, <2>3, <2>4 DEF IsInTurn, HasRendered, HoldsMedia, Holding
<1>9. ~DiscardBytes(p)
  BY <1>1 DEF DiscardBytes, IsInTurn, HasRendered
<1> QED
  BY <1>3, <1>4, <1>5, <1>6, <1>7, <1>8, <1>9
  DEF Generate, RecordFailure, Attach, AttachVanished, DiscardMedia

LEMMA InTurnStep ==
  ASSUME ConstantsAssumption, IInv, SerialInv, [Next]_vars, NEW p \in Process, Alone(p)'
  PROVE  IsInTurn(p)'
<1> USE DEF IInv
<1>1. process'[p].at # "idle"
  BY DEF Alone
<1>2. CASE process[p].at = "idle"
  <2>1. PICK acks \in BOOLEAN : Begin(p, process'[p].run, acks)
    BY <1>1, <1>2, AttemptsMove
  <2>2. process'[p].at = "begun"
    BY <2>1 DEF Begin, Become, TypeOK
  <2> QED
    BY <2>2 DEF IsInTurn, HasRendered, HoldsMedia
<1>3. CASE process[p].at # "idle" /\ process'[p] = process[p]
  BY <1>3, AloneBefore, OthersStayInTurn
<1>4. CASE process[p].at # "idle" /\ process'[p] # process[p]
  <2>1. ASSUME NEW q \in Process, NEW s, Become(q, s) PROVE q = p
    BY <1>4, <2>1 DEF Become, TypeOK
  <2>2. ASSUME NEW q \in Process, Crash(q) \/ Raise(q) PROVE FALSE
    BY <1>1, <2>1, <2>2 DEF Crash, Raise, Return, Become, TypeOK, Idle
  <2>3. ASSUME NEW q \in Process, NEW r \in Run, NEW acks \in BOOLEAN, Begin(q, r, acks)
        PROVE  FALSE
    BY <1>4, <2>1, <2>3 DEF Begin
  <2>4. Generate(p)
    BY <1>4, <2>1, <2>2, <2>3, GenerateMoves
    DEF Next, Asked, RunSucceeds, GenerateReport, RaiseCap, ChangeLanguage, Take, Backfill, vars
  <2> QED
    BY <1>1, <1>4, <2>4, AloneBefore, MoverIsInTurn
<1> QED
  BY <1>2, <1>3, <1>4

(* The renderings of an undisturbed run stay, and no second one is made. *)
LEMMA RenderingsStep ==
  ASSUME ConstantsAssumption, IInv, SerialInv, [Next]_vars, NEW r \in Run \ overlapped'
  PROVE  RenderingsAreKept(r)'
<1> USE DEF IInv
<1>1. r \notin overlapped /\ RenderingsAreKept(r)
  BY MarksStay DEF SerialInv
<1>2. CASE UNCHANGED <<media, stored>>
  BY <1>1, <1>2 DEF RenderingsAreKept, OneMediaPerRendering
<1>3. ASSUME NEW p \in Process, WriteBytes(p), UNCHANGED media PROVE RenderingsAreKept(r)'
  BY <1>1, <1>3 DEF WriteBytes, TypeOK, RenderingsAreKept, OneMediaPerRendering
<1>4. ASSUME NEW p \in Process, InsertMedia(p), UNCHANGED stored PROVE RenderingsAreKept(r)'
  <2>1. PICK m \in Media, k \in Language :
          m = process[p].media /\ process[p].checksum = <<process[p].run, k>>
    BY <1>4, ProcessFields
    DEF InsertMedia, HoldsMedia, HasRendered, AttemptsAreSound, RendersItsRun
  <2>2. /\ media'[m] = <<process[p].run, k>>
        /\ \A n \in Media : n # m => media'[n] = media[n]
    BY <1>4, <2>1 DEF InsertMedia, TypeOK
  <2>3. CASE process[p].run # r
    BY <1>1, <1>4, <2>2, <2>3 DEF RenderingsAreKept, OneMediaPerRendering
  <2>4. CASE process[p].run = r
    <3>1. IsInTurn(p) /\ process[p].at = "written"
      BY <1>1, <1>4, <2>4 DEF InsertMedia, SerialInv, Alone
    <3>2. stored[m] = "present" /\ \A n \in Media : media[n] # <<r, k>>
      BY <2>1, <2>4, <3>1 DEF IsInTurn, HoldsMedia
    <3>3. ASSUME NEW n \in Media, NEW l \in Language, media'[n] = <<r, l>>
          PROVE  stored'[n] = "present"
      BY <1>1, <1>4, <2>2, <3>2, <3>3 DEF RenderingsAreKept
    <3>4. OneMediaPerRendering(r)'
      BY <1>1, <2>2, <2>4, <3>2 DEF RenderingsAreKept, OneMediaPerRendering
    <3> QED
      BY <3>3, <3>4 DEF RenderingsAreKept
  <2> QED
    BY <2>3, <2>4
<1>5. ASSUME NEW p \in Process, DiscardBytes(p), UNCHANGED media PROVE RenderingsAreKept(r)'
  <2>1. ASSUME NEW m \in Media, NEW l \in Language, media[m] = <<r, l>>
        PROVE  stored'[m] = "present"
    <3>1. stored[m] = "present"
      BY <1>1, <2>1 DEF RenderingsAreKept
    <3>2. process[p].media # m
      BY <1>1, <1>5, <2>1, NoneIsDiscarded
    <3> QED
      BY <1>5, <3>1, <3>2 DEF DiscardBytes, TypeOK
  <2> QED
    BY <1>1, <1>5, <2>1 DEF RenderingsAreKept, OneMediaPerRendering
<1>6. ASSUME NEW p \in Process, DiscardMedia(p), UNCHANGED stored PROVE RenderingsAreKept(r)'
  <2>1. ASSUME NEW m \in Media PROVE media'[m] \in {None, media[m]}
    BY <1>6 DEF DiscardMedia, TypeOK
  <2>2. ASSUME NEW l \in Language PROVE <<r, l>> # None
    BY DEF ConstantsAssumption
  <2> QED
    BY <1>1, <1>6, <2>1, <2>2 DEF RenderingsAreKept, OneMediaPerRendering
<1> QED
  BY <1>2, <1>3, <1>4, <1>5, <1>6, FilesMove

LEMMA SerialStep ==
  ASSUME ConstantsAssumption, IInv, SerialInv, [Next]_vars
  PROVE  SerialInv'
BY TurnsStep, InTurnStep, RenderingsStep DEF SerialInv

LEMMA SerialInit == ConstantsAssumption /\ Init => SerialInv
<1> SUFFICES ASSUME ConstantsAssumption, Init PROVE SerialInv
  OBVIOUS
<1>1. \A p \in Process : process[p].at = "idle"
  BY DEF Init, Idle
<1>2. \A r \in Run : RenderingsAreKept(r)
  BY DEF Init, RenderingsAreKept, OneMediaPerRendering, ConstantsAssumption
<1> QED
  BY <1>1, <1>2 DEF SerialInv, TurnsAreTaken, Alone

LEMMA FilesAreBacked ==
  ASSUME ConstantsAssumption, IInv, SerialInv, NEW r \in Run \ overlapped
  PROVE  ReportFileIsBacked(r) /\ OneMediaPerRendering(r)
BY DEF IInv, TypeOK, ReportFileIsOfItsRun, ConstantsAssumption, SerialInv, RenderingsAreKept,
       ReportFileIsBacked

-----------------------------------------------------------------------------
(* The file of a run is a rendering of that run and stands beside no refusal,  *)
(* however many attempts overlap and crash; and where the attempts at a run    *)
(* follow one another, the file's bytes are there and no rendering is kept     *)
(* twice, whatever crashes between the store and the attachment.               *)
THEOREM ReportFilesAreTrue ==
  ASSUME ConstantsAssumption
  PROVE  Spec => []ReportFileIsTrue
<1>1. Init => SerialInv
  BY SerialInit
<1>2. IInv /\ SerialInv /\ [Next]_vars => SerialInv'
  BY SerialStep
<1>3. IInv /\ SerialInv => ReportFileIsTrue
  BY FilesAreBacked DEF ReportFileIsTrue, IInv
<1> QED
  BY <1>1, <1>2, <1>3, InvariantHolds, PTL DEF Spec

(* A run that has its file keeps that file, where its attempts follow one      *)
(* another: asking again, a second message, a crash and what happens to the    *)
(* files of other runs change nothing.                                         *)
THEOREM UndisturbedFilesStay ==
  ASSUME ConstantsAssumption
  PROVE  Spec => UndisturbedFileStays
<1>1. Init => SerialInv
  BY SerialInit
<1>2. IInv /\ SerialInv /\ [Next]_vars => SerialInv'
  BY SerialStep
<1>3. IInv /\ SerialInv /\ [Next]_vars => \A r \in Run \ overlapped' : KeepsItsFile(r)
  <2> SUFFICES ASSUME IInv, SerialInv, [Next]_vars, NEW r \in Run \ overlapped',
                      reportFile[r] # None
               PROVE  reportFile'[r] = reportFile[r]
    BY DEF KeepsItsFile
  <2>1. CASE reportFile' = reportFile
    BY <2>1
  <2>2. ASSUME NEW p \in Process, Attach(p) PROVE reportFile'[r] = reportFile[r]
    BY <2>2, ProcessFields DEF Attach, IInv, TypeOK
  <2>3. ASSUME NEW p \in Process, DiscardMedia(p) PROVE reportFile'[r] = reportFile[r]
    <3>1. r \in Run \ overlapped
      BY MarksStay
    <3>2. PICK m \in Media, l \in Language : reportFile[r] = m /\ media[m] = <<r, l>>
      BY DEF IInv, TypeOK, ReportFileIsOfItsRun
    <3>3. process[p].media # m
      BY <2>3, <3>1, <3>2, NoneIsDiscarded
    <3> QED
      BY <2>3, <3>2, <3>3 DEF DiscardMedia
  <2> QED
    BY <2>1, <2>2, <2>3, FilesMove
<1> QED
  BY <1>1, <1>2, <1>3, InvariantHolds, PTL DEF Spec, UndisturbedFileStays, vars, run, reportFiles
=============================================================================
