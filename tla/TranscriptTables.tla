-------------------------- MODULE TranscriptTables --------------------------
(***************************************************************************)
(* The tables of the transcripts: the pages of the assembled books with    *)
(* the marks of the extractions that looked at them, the candidate rules,  *)
(* and what holds of both whichever imports returned.  InbrImport has the  *)
(* imports.                                                                *)
(***************************************************************************)
EXTENDS Null

CONSTANTS
  BookPage,
  TranscriptRecord,
  PagesOf            \* the pages each record was read from

VARIABLES
  pages,       \* None, or the marks in rule_extraction_coverage of the metadata
  candidates,  \* rows: the record and the file it came from
  imported,    \* history: extractions whose import returned
  disturbed    \* history: imports overlapped, or the pages were imported again

Kind == {"asserted", "no_assertion"}
Mark == [page : BookPage, kind : Kind]

\* What an import of this extraction marks, and the rows it writes.
Marks(e) == {m \in Mark : \E r \in TranscriptRecord : m.page \in PagesOf[r] /\ m.kind = e.says[r]}
Rows(e) == {[record |-> r, file |-> e.file] : r \in {q \in TranscriptRecord : e.says[q] = "asserted"}}

-----------------------------------------------------------------------------
Due == UNION {Marks(e) : e \in imported}
Made == {m \in Mark : pages[m.page] # None /\ m.kind \in pages[m.page]}

(* A mark on a page is owed to an import that returned, and unless imports      *)
(* overlapped or the pages were imported again, none of its marks is missing.   *)
MarksAreOfImports == Made \subseteq Due /\ (~disturbed => Made = Due)

(* The candidates are those of the imports that returned, all of each: one that *)
(* was ended half way leaves none.                                              *)
CandidatesAreWhole == candidates = UNION {Rows(e) : e \in imported}

(* Marks and candidates are those of imports that returned: none of one that    *)
(* was ended half way, and all of the others unless two imports overlapped.     *)
ImportsAreWhole == MarksAreOfImports /\ CandidatesAreWhole
=============================================================================
