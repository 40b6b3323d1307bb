------------------------------- MODULE MCParts -------------------------------
(***************************************************************************)
(* The service beside its checks, the tab of its reader, and the page      *)
(* tools, in one run: the rule pack catalogue, the import of a projection, *)
(* report files, the session of a tab; a page's way through the pipeline,  *)
(* the bundles, the OCR queue and the root they share.  They share no      *)
(* state that changes, so a behaviour is one of one part: `part` says of   *)
(* which, and the variables of the others stay at one of the values they   *)
(* begin with, or 0.  Report files are here three times and the root of    *)
(* the pages twice: as many instances of their modules, each with bounds   *)
(* of its own.                                                             *)
(***************************************************************************)
EXTENDS Naturals, FiniteSets, TLC, ReportFiles, PageRoot,
        RulePacks, TranscriptTables, PageStages, OcrEngine, Bundles, BrowserTab

CONSTANTS r1, r2, m1, m2, m3, p1, p2, p3, v1, v2, Todo, Failed, g1, g2, e1, e2, u1, u2, t1, t2,
          Length   \* bound: pages of a document that is cut into bundles

\* The first of two records is read from one page, the other from two.
ReadFrom == e1 :> {g1} @@ e2 :> {g1, g2}

VARIABLES part,
  work, imports,
  succeeded, tooLarge, language, jobs, attempts, raised, crashes,
  printed, commands

ofImport == <<pages, candidates, work, imported, disturbed, imports>>
ofReports == <<reportFiles, succeeded, tooLarge, language, jobs, attempts, raised, crashes>>
ofRoot == <<root, printed, commands>>
vars == <<part, catalogue, ofImport, ofReports, stages, bundling, queue, ofRoot, tab>>

-----------------------------------------------------------------------------
\* Seeders, some of whom bring the same title, and one run.
Catalogue == INSTANCE RulePackCatalogue WITH
  Ids <- {[title |-> "a", name |-> "a", bytes |-> 1], [title |-> "a", name |-> "a", bytes |-> 2],
          [title |-> "b", name |-> "b", bytes |-> 3]}

\* Two extractions.
Import == INSTANCE InbrImport WITH
  MaxRuns <- 4,
  Extractions <- {[file |-> 1, says |-> (e1 :> "asserted" @@ e2 :> "no_assertion")],
                  [file |-> 2, says |-> (e1 :> "asserted" @@ e2 :> "asserted")]}

\* Attempts that follow one another and may crash at every step, in two languages;
\* two overlapping ones at each of two runs; and three at one run, with a crash.
Follow == INSTANCE ReportGeneration WITH
  process <- attempts, MaxOutstanding <- 1, MaxCrashes <- 2
Overlap == INSTANCE ReportGeneration WITH
  process <- attempts, Language <- {"fa"}, MaxOutstanding <- 2, MaxCrashes <- 0
Crowd == INSTANCE ReportGeneration WITH
  Process <- {p1, p2, p3}, process <- attempts, Language <- {"fa"},
  MaxOutstanding <- 3, MaxCrashes <- 1
ReportParts == {"follow", "overlap", "crowd"}

\* Bounds of the three: only one run can succeed, or only two Media are used.
RunsOf == [x \in ReportParts |-> IF x = "overlap" THEN {r1, r2} ELSE {r1}]
ReportBounds ==
  /\ succeeded' \subseteq RunsOf[part]
  /\ part # "follow" => stored'[m3] = "never"

\* Each measure of a page below, at and above each of its thresholds.
Pipeline == INSTANCE PagePipeline WITH
  CharCounts <- {0, 19, 20}, Coverages <- {999, 1000, 7999, 8000},
  Inks <- {30, 31}, Confidences <- {5999, 6000, 7499, 7500},
  MaxOnPage <- 2

\* Every document of at most Length pages, failed ones among them.
Readable ==
  {[text |-> "open", bytes |-> b] : b \in {1, 3, 5}} \cup {[text |-> t, bytes |-> 1] : t \in {"none", "closed"}}
FailedPage == [text |-> "failed", bytes |-> 0]
Document(seq) ==
  [i \in DOMAIN seq |-> [number |-> i + 1, text |-> seq[i].text, bytes |-> seq[i].bytes]]
CutDocuments ==
  {Document(seq) : seq \in UNION {[1..n -> Readable \cup {FailedPage}] : n \in 1..Length}}

\* The default of one thread, and two.
Queue == INSTANCE OcrQueue WITH Threads <- {1, 2}, MaxTicks <- 4

\* One command at a time over two pages, one of them crashed or failed to sync;
\* and two at once that race for a page whose packages differ.
Evidence == INSTANCE PageEvidence WITH Variant <- {v1}, MaxRuns <- 4, runs <- commands
Race == INSTANCE PageEvidence WITH MaxRuns <- 4, runs <- commands

\* Bounds of the two: only one command is used, or only the first page is selected.
OneCommand == process'[p2] = Idle
OnePage == \A p \in Process : process'[p] # Idle => DOMAIN process'[p].pages \subseteq {1}

\* Two people, and beside a query somebody who signs in or out.  People are alike: the
\* first to whom a token is issued is u1.  When the tokens are used up nobody can be given
\* one for a cookie, and other tabs no longer change it.
Tab == INSTANCE WebSession WITH
  Person <- {u1, u2}, Workspace <- {t1, t2}, MaxTokens <- 3
FirstPerson == issued' # <<>> => issued'[1] = u1
CookieMatters == Len(issued) = 3 => cookie' = cookie \/ user' # user

ASSUME ConstantsAssumption ==
  /\ Catalogue!ConstantsAssumption /\ Import!ConstantsAssumption
  /\ Follow!ConstantsAssumption /\ Overlap!ConstantsAssumption /\ Crowd!ConstantsAssumption
  /\ Pipeline!ConstantsAssumption /\ BundlesAssumption
  /\ Queue!ConstantsAssumption
  /\ Evidence!ConstantsAssumption /\ Race!ConstantsAssumption
  /\ Tab!ConstantsAssumption

-----------------------------------------------------------------------------
\* The files of reports and the root of the pages are there in every part; of two runs
\* only the first may have a report that is too large.
Begun ==
  /\ Race!Init
  /\ \/ part = "follow" /\ Follow!Init
     \/ part = "overlap" /\ Overlap!Init
     \/ part = "crowd" /\ Crowd!Init
     \/ part \notin ReportParts /\ Overlap!Init /\ tooLarge = {}
  /\ part \in ReportParts => tooLarge \subseteq {r1}

Parts == ReportParts \cup
  {"catalogue", "import", "session", "pipeline", "bundles", "queue", "evidence", "race"}

\* In the other parts, one of the states that a part may begin in.
Init ==
  /\ part \in Parts
  /\ part # "bundles" => sheets = Document(<<FailedPage>>)
  /\ BundlesInit
  /\ Catalogue!Init /\ (part # "catalogue" => \A s \in Seeder : seeders[s].ids.bytes = 1)
  /\ Import!Init
  /\ part # "pipeline" =>
       chars = 0 /\ coverage = 999 /\ ink = 30 /\ tokens = {} /\ watermarked = FALSE
  /\ Pipeline!Init
  /\ part # "queue" => threads = 1 /\ ticks = [p \in Queued |-> 1]
  /\ Queue!Init
  /\ Tab!Init /\ cookie # u2 /\ (part # "session" => cookie = None)
  /\ Begun

\* What the steps of a part leave alone.
ButCatalogue == UNCHANGED <<part, ofImport, ofReports, stages, bundling, queue, ofRoot, tab>>
ButImport    == UNCHANGED <<part, catalogue, ofReports, stages, bundling, queue, ofRoot, tab>>
ButReports   == UNCHANGED <<part, catalogue, ofImport, stages, bundling, queue, ofRoot, tab>>
ButPipeline  == UNCHANGED <<part, catalogue, ofImport, ofReports, bundling, queue, ofRoot, tab>>
ButBundles   == UNCHANGED <<part, catalogue, ofImport, ofReports, stages, queue, ofRoot, tab>>
ButQueue     == UNCHANGED <<part, catalogue, ofImport, ofReports, stages, bundling, ofRoot, tab>>
ButRoot      == UNCHANGED <<part, catalogue, ofImport, ofReports, stages, bundling, queue, tab>>
ButSession   == UNCHANGED <<part, catalogue, ofImport, ofReports, stages, bundling, queue, ofRoot>>

\* The parts of the page tools run by themselves.
Tools ==
  \/ part = "pipeline" /\ Pipeline!Next /\ ButPipeline
  \/ part = "bundles" /\ BundlesNext /\ ButBundles
  \/ part = "queue" /\ Queue!Next /\ ButQueue

Next ==
  \/ part = "catalogue" /\ Catalogue!Next /\ ButCatalogue
  \/ part = "import" /\ Import!Next /\ ButImport
  \/ part = "follow" /\ Follow!Next /\ ReportBounds /\ ButReports
  \/ part = "overlap" /\ Overlap!Next /\ ReportBounds /\ ButReports
  \/ part = "crowd" /\ Crowd!Next /\ ReportBounds /\ ButReports
  \/ part = "evidence" /\ Evidence!Next /\ OneCommand /\ ButRoot
  \/ part = "race" /\ Race!Next /\ OnePage /\ ButRoot
  \/ part = "session" /\ Tab!Next /\ FirstPerson /\ CookieMatters /\ ButSession
  \/ Tools

\* ReportGeneration!Fairness, where the part has it, and that of the loops.
Fairness ==
  /\ SF_vars(part = "follow" /\ (\E p \in Process : Follow!Take(p, r1)) /\ ButReports)
  /\ \A p \in Process : WF_vars(part = "follow" /\ Follow!Generate(p) /\ ButReports)
  /\ WF_vars(Tools)

Spec == Init /\ [][Next]_vars /\ Fairness

-----------------------------------------------------------------------------
(* Whoever asks for a file gets it, or the reason why there is none, though     *)
(* the process dies and the message comes again, unless an attempt raises; and  *)
(* so does who asks again after one has raised.                                 *)
AskedIsAnswered == part = "follow" => Follow!AskedIsAnswered

(* Every page becomes terminal whatever the others do, and every document is    *)
(* cut to its end.                                                              *)
EveryPageEnds ==
  <>(/\ part = "queue" => Queue!Ended
     /\ part = "bundles" => BundlesEnded
     /\ part = "pipeline" => Pipeline!Ended)
=============================================================================
