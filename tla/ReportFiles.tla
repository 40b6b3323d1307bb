----------------------------- MODULE ReportFiles -----------------------------
(***************************************************************************)
(* The report files of check runs: the columns of check_run that speak of  *)
(* them, the media table and the storage under it, three stores that do    *)
(* not commit together; and what whoever downloads a file may rely on.     *)
(* ReportGeneration has the steps.                                         *)
(***************************************************************************)
EXTENDS Null

CONSTANTS
  Run,
  Media,     \* identities of Media rows and of the files they name
  Language   \* the values of Tenant.language

VARIABLES
  reportFile,  \* CheckRun.report_file
  refused,     \* CheckRun.report_generation_error is set
  media,       \* the media table: the checksum of each row, None if no row
  stored,      \* the storage backend
  overlapped   \* the runs at which two attempts were once under way at the same time

reportFiles == <<reportFile, refused, media, stored, overlapped>>

-----------------------------------------------------------------------------
\* A run that has its file keeps that file: generate is idempotent.
KeepsItsFile(r) == reportFile[r] # None => reportFile'[r] = reportFile[r]
AttachedFileStays == [][\A r \in Run : KeepsItsFile(r)]_reportFiles

(* The file of a run whose attempts follow one another stays, whatever crashes   *)
(* and whatever happens to the other runs.                                       *)
UndisturbedFileStays == [][\A r \in Run \ overlapped' : KeepsItsFile(r)]_reportFiles

\* The foreign key, and the content behind it: the file attached to a run is a
\* rendering of that run, and no two runs share one.
ReportFileIsOfItsRun ==
  \A r \in Run : reportFile[r] # None =>
    media[reportFile[r]] \in {<<r, l>> : l \in Language}

\* A run shows either its file or the reason why there is none, never both.
\* missing_report, generation_failed and the client rely on it.
FileOrRefusal == \A r \in Run : ~(reportFile[r] # None /\ r \in refused)

\* The download never fails: a run's report file has its row and its bytes.
ReportFileIsBacked(r) == reportFile[r] # None => stored[reportFile[r]] = "present"

\* A crash between the two transactions leads to reuse, not to a second file: of
\* each rendering of a run one Media is kept.
OneMediaPerRendering(r) ==
  \A m, n \in Media, l \in Language : media[m] = <<r, l>> /\ media[n] = <<r, l>> => m = n

(* The file of a run is of that run and stands beside no refusal, however many  *)
(* attempts overlap; and where attempts follow one another, whatever crashes,   *)
(* it can be downloaded and there is one Media of each rendering.               *)
ReportFileIsTrue ==
  /\ ReportFileIsOfItsRun
  /\ FileOrRefusal
  /\ \A r \in Run \ overlapped : ReportFileIsBacked(r) /\ OneMediaPerRendering(r)
=============================================================================
