-------------------------- MODULE ReportGeneration --------------------------
(***************************************************************************)
(* ReportGenerationService.generate: render a succeeded run to Markdown,   *)
(* store the file, attach it to the run.  It is called by the Celery task  *)
(* generate_report_file (dispatched on commit, by POST report-file, or     *)
(* redelivered) and by manage.py backfill_report_files.                    *)
(*                                                                         *)
(* Two short transactions take the row lock; the storage write between     *)
(* them takes none.  One action is one transaction, one write to storage   *)
(* or one statement outside a transaction.  The storage keeps no           *)
(* transactions: what was written or deleted there stays so after a crash. *)
(***************************************************************************)
EXTENDS Naturals, FiniteSets, ReportFiles

CONSTANTS
  Process,         \* Celery pool processes and backfill commands
  MaxOutstanding,  \* bound: attempts at one run that may be asked for or under way at once
  MaxCrashes       \* bound: attempts that die or raise in one behaviour

ConstantsAssumption ==
  /\ None \notin Media
  /\ None \notin Run \X Language
  /\ Language # {}
  /\ IsFiniteSet(Process)
  /\ MaxOutstanding \in Nat \ {0}
  /\ MaxCrashes \in Nat

VARIABLES
  succeeded,   \* the runs that ended with a report
  tooLarge,    \* the runs whose rendering exceeds MAX_BYTES[REPORT]
  language,    \* Tenant.language
  jobs,        \* queue `checks`: messages of generate_report_file per run
  process,
  raised,      \* the runs whose last message ended with an attempt that raised
  crashes

run  == <<succeeded, reportFile, refused>>
env  == <<tooLarge, language>>
vars == <<run, env, media, stored, overlapped, jobs, process, raised, crashes>>

-----------------------------------------------------------------------------
\* Rendering is deterministic for a run and a language, so a checksum stands for
\* the pair of them.
Checksum == Run \X Language

\* Seeded fault: the rendering does not name its run.
ChecksumOfLanguage(r, l) == <<CHOOSE x \in Run : TRUE, l>>
ChecksumOf(r, l) == <<r, l>>

Idle == [at |-> "idle"]
Attempt == [at : {"begun"}, run : Run, acks : BOOLEAN]
Rendering ==
  [at : {"rendered", "storing", "refused"}, run : Run, acks : BOOLEAN, checksum : Checksum]
Storing == [at : {"written", "stored", "discarding"}, run : Run, acks : BOOLEAN,
            checksum : Checksum, media : Media]
ProcessState == {Idle} \cup Attempt \cup Rendering \cup Storing

TypeOK ==
  /\ succeeded \subseteq Run
  /\ reportFile \in [Run -> Media \cup {None}]
  /\ refused \subseteq Run
  /\ tooLarge \subseteq Run
  /\ language \in Language
  /\ media \in [Media -> Checksum \cup {None}]
  /\ stored \in [Media -> {"never", "present", "deleted"}]
  /\ overlapped \subseteq Run
  /\ jobs \in [Run -> 0..MaxOutstanding]
  /\ process \in [Process -> ProcessState]
  /\ raised \subseteq Run
  /\ crashes \in 0..MaxCrashes

Init ==
  /\ succeeded = {}
  /\ reportFile = [r \in Run |-> None]
  /\ refused = {}
  /\ tooLarge \in SUBSET Run
  /\ language \in Language
  /\ media = [m \in Media |-> None]
  /\ stored = [m \in Media |-> "never"]
  /\ overlapped = {}
  /\ jobs = [r \in Run |-> 0]
  /\ process = [p \in Process |-> Idle]
  /\ raised = {}
  /\ crashes = 0

-----------------------------------------------------------------------------
Handling(r) == {p \in Process : process[p].at # "idle" /\ process[p].run = r}
Outstanding(r) == jobs[r] + Cardinality(Handling(r))
Locked(r) == \E p \in Handling(r) : process[p].at = "discarding"

Become(p, state) == process' = [process EXCEPT ![p] = state]
Return(p) == Become(p, Idle)

(* Who asks for a report.  All these callers share one contract: asking again *)
(* is safe.                                                                    *)

\* CheckRunExecutor._succeed commits; its on_commit dispatch arrives or is lost.
RunSucceeds(r, dispatched) ==
  /\ r \notin succeeded
  /\ succeeded' = succeeded \cup {r}
  /\ jobs' = [jobs EXCEPT ![r] = IF dispatched THEN 1 ELSE 0]
  /\ UNCHANGED <<reportFile, refused, env, media, stored, overlapped, process, raised, crashes>>

\* POST report-file: refuses only a run that has not succeeded.  To ask is to ask
\* anew, whatever has become of an earlier message.
GenerateReport(r) ==
  /\ r \in succeeded
  /\ Outstanding(r) < MaxOutstanding
  /\ jobs' = [jobs EXCEPT ![r] = @ + 1]
  /\ raised' = raised \ {r}
  /\ UNCHANGED <<run, env, media, stored, overlapped, process, crashes>>

MissingReport(r) == r \in succeeded /\ reportFile[r] = None /\ r \notin refused
GenerationFailed(r) == r \in succeeded /\ reportFile[r] = None /\ r \in refused

\* An attempt begins, perhaps while another one at the same run is under way.
Begin(p, r, acks) ==
  /\ process[p].at = "idle"
  /\ Become(p, [at |-> "begun", run |-> r, acks |-> acks])
  /\ overlapped' = IF Handling(r) = {} THEN overlapped ELSE overlapped \cup {r}

\* backfill_report_files reaches r, which its query had selected.
Backfill(p, r, includeFailed) ==
  /\ MissingReport(r) \/ (includeFailed /\ GenerationFailed(r))
  /\ Outstanding(r) < MaxOutstanding
  /\ Begin(p, r, FALSE)
  /\ UNCHANGED <<run, env, media, stored, jobs, raised, crashes>>

\* A worker receives the message; acks_late keeps it until the task returns.
Take(p, r) ==
  /\ jobs[r] > 0
  /\ jobs' = [jobs EXCEPT ![r] = @ - 1]
  /\ Begin(p, r, TRUE)
  /\ UNCHANGED <<run, env, media, stored, raised, crashes>>

-----------------------------------------------------------------------------
(* generate *)

\* The first transaction: nothing to do for a run that has its file (and an
\* exception for one that has no report); else render in the tenant's language.
Render(p) ==
  /\ process[p].at = "begun"
  /\ LET r == process[p].run IN
       /\ ~Locked(r)
       /\ IF reportFile[r] # None \/ r \notin succeeded
          THEN Return(p)
          ELSE Become(p, [at |-> "rendered", run |-> r, acks |-> process[p].acks,
                          checksum |-> ChecksumOf(r, language)])
  /\ UNCHANGED <<run, env, media, stored, overlapped, jobs, raised, crashes>>

Attached == {reportFile[r] : r \in Run}

\* _find_reusable_media: a row with this checksum that no run refers to.
Reusable(c) == {m \in Media : media[m] = c} \ Attached

\* An attempt ends in an exception: its message is acknowledged like any other.
GivesUp(p) == raised' = IF process[p].acks THEN raised \cup {process[p].run} ELSE raised

\* What an attempt carries from step to step, without and with a Media.
Carrying(p, state) ==
  [at |-> state, run |-> process[p].run, acks |-> process[p].acks,
   checksum |-> process[p].checksum]

Holding(p, state, m) ==
  [at |-> state, run |-> process[p].run, acks |-> process[p].acks,
   checksum |-> process[p].checksum, media |-> m]

FindReusableMedia(p) ==
  /\ process[p].at = "rendered"
  /\ LET found == Reusable(process[p].checksum) IN
       IF found = {} THEN Become(p, Carrying(p, "storing"))
       ELSE \E m \in found : Become(p, Holding(p, "stored", m))
  /\ UNCHANGED <<run, env, media, stored, overlapped, jobs, raised, crashes>>

\* MediaService._validate raises file_too_large.
Validate(p) ==
  /\ process[p].at = "storing"
  /\ process[p].run \in tooLarge
  /\ Become(p, Carrying(p, "refused"))
  /\ UNCHANGED <<run, env, media, stored, overlapped, jobs, raised, crashes>>

\* Media.save writes the bytes under a new name ...
WriteBytes(p) ==
  /\ process[p].at = "storing"
  /\ process[p].run \notin tooLarge
  /\ \E m \in Media :
       /\ stored[m] = "never"
       /\ stored' = [stored EXCEPT ![m] = "present"]
       /\ Become(p, Holding(p, "written", m))
  /\ UNCHANGED <<run, env, media, overlapped, jobs, raised, crashes>>

\* ... ahead of the row's own INSERT.
InsertMedia(p) ==
  /\ process[p].at = "written"
  /\ media' = [media EXCEPT ![process[p].media] = process[p].checksum]
  /\ Become(p, Holding(p, "stored", process[p].media))
  /\ UNCHANGED <<run, env, stored, overlapped, jobs, raised, crashes>>

\* _record_failure, unless another attempt has attached a file meanwhile.
RecordFailure(p) ==
  /\ process[p].at = "refused"
  /\ LET r == process[p].run IN
       /\ ~Locked(r)
       /\ refused' = IF reportFile[r] = None THEN refused \cup {r} ELSE refused
  /\ Return(p)
  /\ UNCHANGED <<succeeded, reportFile, env, media, stored, overlapped, jobs, raised, crashes>>

\* _attach under the row lock.  The foreign key rejects a row that is gone.
Attach(p) ==
  /\ process[p].at = "stored"
  /\ LET r == process[p].run IN
       /\ ~Locked(r)
       /\ reportFile[r] = None
       /\ media[process[p].media] # None
       /\ reportFile' = [reportFile EXCEPT ![r] = process[p].media]
       /\ refused' = refused \ {r}
  /\ Return(p)
  /\ UNCHANGED <<succeeded, env, media, stored, overlapped, jobs, raised, crashes>>

AttachVanished(p) ==
  /\ process[p].at = "stored"
  /\ ~Locked(process[p].run)
  /\ reportFile[process[p].run] = None
  /\ media[process[p].media] = None
  /\ GivesUp(p)
  /\ Return(p)
  /\ UNCHANGED <<run, env, media, stored, overlapped, jobs, crashes>>

\* _attach finds another file: media.file.delete() takes effect at once, while
\* the transaction stays open and the row locked ...
DiscardBytes(p) ==
  /\ process[p].at = "stored"
  /\ ~Locked(process[p].run)
  /\ reportFile[process[p].run] # None
  /\ stored' = [stored EXCEPT ![process[p].media] = "deleted"]
  /\ Become(p, Holding(p, "discarding", process[p].media))
  /\ UNCHANGED <<run, env, media, overlapped, jobs, raised, crashes>>

\* ... and media.delete() commits; on_delete is SET_NULL for every run.
DiscardMedia(p) ==
  /\ process[p].at = "discarding"
  /\ LET m == process[p].media IN
       /\ media' = [media EXCEPT ![m] = None]
       /\ reportFile' = [r \in Run |-> IF reportFile[r] = m THEN None ELSE reportFile[r]]
  /\ Return(p)
  /\ UNCHANGED <<succeeded, refused, env, stored, overlapped, jobs, raised, crashes>>

-----------------------------------------------------------------------------
(* Faults and the outside world. *)

\* Seeded fault: the message is acknowledged on receipt.
CrashLosesMessage(p) ==
  /\ process[p].at # "idle"
  /\ crashes < MaxCrashes
  /\ crashes' = crashes + 1
  /\ Return(p)
  /\ UNCHANGED <<run, env, media, stored, overlapped, jobs, raised>>

\* The process dies, or the task raises one of autoretry_for with retries left: the
\* attempt is over (an open transaction is rolled back) and the message comes again.
Crash(p) ==
  /\ process[p].at # "idle"
  /\ crashes < MaxCrashes
  /\ crashes' = crashes + 1
  /\ jobs' = [jobs EXCEPT ![process[p].run] = IF process[p].acks THEN @ + 1 ELSE @]
  /\ Return(p)
  /\ UNCHANGED <<run, env, media, stored, overlapped, raised>>

\* Any other exception (of the database, of the storage), or one of autoretry_for
\* when the retries are used up: neither file nor refusal, and no message is left.
\* The command catches it and goes on to its next run.
Raise(p) ==
  /\ process[p].at # "idle"
  /\ crashes < MaxCrashes
  /\ crashes' = crashes + 1
  /\ GivesUp(p)
  /\ Return(p)
  /\ UNCHANGED <<run, env, media, stored, overlapped, jobs>>

ChangeLanguage(l) ==
  /\ l # language
  /\ language' = l
  /\ UNCHANGED <<run, tooLarge, media, stored, overlapped, jobs, process, raised, crashes>>

\* An operator raises MAX_BYTES[REPORT].
RaiseCap(r) ==
  /\ r \in tooLarge
  /\ tooLarge' = tooLarge \ {r}
  /\ UNCHANGED <<run, language, media, stored, overlapped, jobs, process, raised, crashes>>

-----------------------------------------------------------------------------
Generate(p) ==
  \/ Render(p)
  \/ FindReusableMedia(p)
  \/ Validate(p)
  \/ WriteBytes(p)
  \/ InsertMedia(p)
  \/ RecordFailure(p)
  \/ Attach(p)
  \/ AttachVanished(p)
  \/ DiscardBytes(p)
  \/ DiscardMedia(p)

Asked ==
  \E r \in Run :
    \/ \E dispatched \in BOOLEAN : RunSucceeds(r, dispatched)
    \/ GenerateReport(r)
    \/ \E p \in Process, includeFailed \in BOOLEAN : Backfill(p, r, includeFailed)
    \/ RaiseCap(r)

Next ==
  \/ Asked
  \/ \E p \in Process :
       \/ \E r \in Run : Take(p, r)
       \/ Generate(p)
       \/ Crash(p)
       \/ Raise(p)
  \/ \E l \in Language : ChangeLanguage(l)

\* Celery keeps consuming its queue, and a process that runs goes on running.
\* Callers, operators, crashes and exceptions carry no fairness.
Fairness ==
  /\ \A r \in Run : SF_vars(\E p \in Process : Take(p, r))
  /\ \A p \in Process : WF_vars(Generate(p))

Spec == Init /\ [][Next]_vars /\ Fairness

-----------------------------------------------------------------------------
(* Whoever asks gets the file, or the reason why there is none, though attempts *)
(* die and their message comes again: unless an attempt that came after raised, *)
(* or nothing can be stored any more.  Asking again after that is safe and      *)
(* starts anew (T-0051).                                                        *)
AskedIsAnswered ==
  \A r \in Run :
    (jobs[r] > 0 /\ r \notin raised) ~>
      \/ reportFile[r] # None \/ r \in refused
      \/ r \in raised
      \/ \A m \in Media : stored[m] # "never"
=============================================================================
