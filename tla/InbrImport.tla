----------------------------- MODULE InbrImport ------------------------------
(***************************************************************************)
(* Imports into the tables of the transcripts: import_inbr_projection      *)
(* writes the pages of the assembled books, import_rule_extraction the     *)
(* candidate rules of an extraction and marks the pages it looked at.      *)
(* Several imports may be under way, each in one transaction that locks a  *)
(* page when it saves it.                                                  *)
(***************************************************************************)
EXTENDS TranscriptTables, Naturals

CONSTANTS
  Extractions,  \* files: for every record of theirs whether it is a rule
  Process,
  MaxRuns       \* bound: imports

ConstantsAssumption ==
  /\ PagesOf \in [TranscriptRecord -> (SUBSET BookPage) \ {{}}]
  /\ \A e \in Extractions : e # None /\ e.says \in [TranscriptRecord -> Kind]
  /\ \A kinds \in SUBSET Kind : kinds # None
  /\ MaxRuns \in Nat

VARIABLES
  work,     \* of each process: its transaction
  imports

tables == <<pages, candidates, work, imported, disturbed, imports>>

-----------------------------------------------------------------------------
Idle == [extraction |-> None, todo |-> {}, seen |-> None, writes |-> <<>>]

Busy(p) == work[p].extraction # None
Locked(p, g) == \E q \in Process \ {p} : g \in DOMAIN work[q].writes
Waits(p) == work[p].seen # None /\ Locked(p, work[p].seen.page)

\* The books are complete and agree with the manifest, or nothing is written; the
\* metadata of a page is replaced.
ImportProjection ==
  /\ imports < MaxRuns
  /\ \A p \in Process : work[p].writes = <<>>
  /\ pages' = [g \in BookPage |-> {}]
  /\ disturbed' = \/ disturbed
                  \/ \E g \in BookPage : pages[g] \notin {None, {}}
                  \/ \E p \in Process : Busy(p)
  /\ imports' = imports + 1
  /\ UNCHANGED <<candidates, work, imported>>

\* The extraction has every record of the transcript, and the pages are stored.
Begin(p) ==
  /\ ~Busy(p) /\ imports < MaxRuns
  /\ \A g \in BookPage : pages[g] # None
  /\ \E e \in Extractions : work' = [work EXCEPT ![p] = [Idle EXCEPT !.extraction = e, !.todo = Marks(e)]]
  /\ disturbed' = (disturbed \/ \E q \in Process : Busy(q))
  /\ imports' = imports + 1
  /\ UNCHANGED <<pages, candidates, imported>>

\* PdfPage.objects.get: what this transaction saved, or else what is committed.
Get(p) ==
  /\ Busy(p) /\ work[p].seen = None
  /\ \E m \in work[p].todo :
       work' = [work EXCEPT ![p].seen =
         [page |-> m.page, kind |-> m.kind,
          marks |-> IF m.page \in DOMAIN work[p].writes THEN work[p].writes[m.page] ELSE pages[m.page]]]
  /\ UNCHANGED <<pages, candidates, imported, disturbed, imports>>

\* Seeded fault: the mark replaces the others of the page.
MarkedAfresh(seen) == {seen.kind}

Marked(seen) == seen.marks \cup {seen.kind}

Save(p) ==
  /\ work[p].seen # None /\ ~Waits(p)
  /\ LET seen == work[p].seen
         writes == work[p].writes
         after == [work[p] EXCEPT !.seen = None, !.todo = @ \ {[page |-> seen.page, kind |-> seen.kind]},
                     !.writes = [g \in DOMAIN writes \cup {seen.page} |->
                                   IF g = seen.page THEN Marked(seen) ELSE writes[g]]]
     IN  work' = [work EXCEPT ![p] = after]
  /\ UNCHANGED <<pages, candidates, imported, disturbed, imports>>

Commit(p) ==
  /\ Busy(p) /\ work[p].todo = {}
  /\ LET writes == work[p].writes
     IN  pages' = [g \in BookPage |-> IF g \in DOMAIN writes THEN writes[g] ELSE pages[g]]
  /\ candidates' = candidates \cup Rows(work[p].extraction)
  /\ imported' = imported \cup {work[p].extraction}
  /\ work' = [work EXCEPT ![p] = Idle]
  /\ UNCHANGED <<disturbed, imports>>

\* A crash, or the database that ends one of two imports that wait on each other.
Rollback(p) ==
  /\ Busy(p)
  /\ work' = [work EXCEPT ![p] = Idle]
  /\ UNCHANGED <<pages, candidates, imported, disturbed, imports>>

Init ==
  /\ pages = [g \in BookPage |-> None]
  /\ candidates = {} /\ imported = {}
  /\ work = [p \in Process |-> Idle]
  /\ disturbed = FALSE /\ imports = 0

Next ==
  \/ ImportProjection
  \/ \E p \in Process : Begin(p) \/ Get(p) \/ Save(p) \/ Commit(p) \/ Rollback(p)

Spec == Init /\ [][Next]_tables /\ WF_tables(Next)
=============================================================================
