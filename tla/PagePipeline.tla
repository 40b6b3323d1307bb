---------------------------- MODULE PagePipeline ----------------------------
(***************************************************************************)
(* What becomes of one page, from the worker that opens the PDF to the     *)
(* package of its transcription: page_worker decides whether to render,    *)
(* page_probe classifies and packs, transcription reads the package back,  *)
(* runs OCR where the route asks for it, flags doubtful text and packs     *)
(* again.  Each stage has its own thresholds and its own idea of which     *)
(* files a package holds; the state is what one stage hands to the next.   *)
(***************************************************************************)
EXTENDS PageStages, FiniteSets

CONSTANTS
  CharCounts,    \* non-space characters of the native text
  Coverages,     \* of the page by bitmaps, in permyriad
  Inks,          \* of the rendered page by ink, in permyriad
  Confidences,   \* of OCR tokens, in permyriad
  MaxOnPage      \* bound: tokens on the page

Permyriad == 0..10000

ConstantsAssumption ==
  /\ CharCounts \subseteq Nat /\ MaxOnPage \in Nat
  /\ Coverages \subseteq Permyriad /\ Inks \subseteq Permyriad /\ Confidences \subseteq Permyriad

Route == {"none", "native", "ocr", "native_plus_ocr"}

(* A token of the OCR: its confidence, whether it holds a digit or the mark of *)
(* an equation, and whether it stands where signatures do.                      *)
Token == [confidence : Confidences, critical : BOOLEAN, low : BOOLEAN]

Nothing == [route |-> "none", state |-> "none"]
NoRecord == [state |-> "none", flags |-> {}, files |-> {}, text |-> {}]

Init ==
  /\ tokens \in {ts \in SUBSET Token : Cardinality(ts) <= MaxOnPage}
  /\ chars \in CharCounts /\ coverage \in Coverages /\ ink \in Inks
  /\ watermarked \in BOOLEAN
  /\ at = "start"
  /\ render = FALSE
  /\ probe = Nothing
  /\ package = {}
  /\ record = NoRecord

TypeOK ==
  /\ at \in {"start", "worked", "probed", "indexed", "transcribed", "done", "failed", "raised"}
  /\ render \in BOOLEAN
  /\ probe \in [route : Route, state : {"none", "ready", "needs_review"}]
  /\ package \subseteq {"native.json", "page.json", "render.png"}

-----------------------------------------------------------------------------
\* Seeded fault: the worker's copy of the thresholds has drifted.
RenderNeededDrifted == chars < MinNativeChars \/ coverage >= ScanCoverage
RenderNeeded == chars < MinNativeChars \/ coverage >= MixedCoverage

\* page_worker.main, and run_probe_worker reading its output directory.
RunWorker ==
  /\ at = "start"
  /\ render' = RenderNeeded
  /\ at' = "worked"
  /\ UNCHANGED <<page, probe, package, record>>

\* A crash, a time-out or a non-zero exit of the worker ends the page as failed.
WorkerFails ==
  /\ at = "start"
  /\ at' = "failed"
  /\ UNCHANGED <<page, render, probe, package, record>>

Classified(route, verdict) == [route |-> route, state |-> verdict]
Raise == [route |-> "raise", state |-> "none"]

\* _classify: a missing render is only noticed where ink is consulted.
Classify ==
  CASE chars = 0 /\ coverage >= ScanCoverage -> Classified("ocr", "ready")
    [] chars = 0 /\ coverage < ScanCoverage ->
         IF ~render THEN Raise
         ELSE IF ink <= BlankInk THEN Classified("none", "ready")
         ELSE Classified("ocr", "needs_review")
    [] chars \in 1..MinNativeChars - 1 -> Classified("native_plus_ocr", "needs_review")
    [] chars >= MinNativeChars /\ coverage >= MixedCoverage ->
         IF render THEN Classified("native_plus_ocr", "ready") ELSE Raise
    [] OTHER -> Classified("native", "ready")

\* A blank page's render is dropped.
Packaged ==
  {"native.json", "page.json"}
    \cup (IF render /\ Classify.route # "none" THEN {"render.png"} ELSE {})

ProbePage ==
  /\ at = "worked"
  /\ IF Classify = Raise
     THEN at' = "raised" /\ UNCHANGED <<probe, package>>
     ELSE /\ probe' = Classify
          /\ package' = Packaged
          /\ at' = "probed"
  /\ UNCHANGED <<page, render, record>>

\* _validate_stored_package: exactly these entries, and the artifact roles alike.
ExpectedEntries ==
  {"native.json", "page.json"} \cup (IF probe.route \in OcrRoutes THEN {"render.png"} ELSE {})

ValidatePackage ==
  /\ at = "probed"
  /\ at' = IF package = ExpectedEntries THEN "indexed" ELSE "raised"
  /\ UNCHANGED <<page, render, probe, package, record>>

-----------------------------------------------------------------------------
\* Seeded fault: only the mean confidence counts, here that of the best token.
OcrFlagsOfBest ==
  IF tokens = {} THEN {"OCR_NO_TEXT"}
  ELSE IF \A t \in tokens : t.confidence < 6000 THEN {"OCR_LOW_CONFIDENCE_TOKENS"} ELSE {}
OcrFlags ==
  (IF tokens = {} THEN {"OCR_NO_TEXT"}
   ELSE IF \E t \in tokens : t.confidence < 6000 THEN {"OCR_LOW_CONFIDENCE_TOKENS"} ELSE {})
  \cup {f \in {"OCR_CRITICAL_IDENTIFIER_REVIEW"} :
          \E t \in tokens : t.critical /\ t.confidence < 7500}
  \cup {f \in {"OCR_WATERMARK_OVERLAP_REVIEW"} :
          watermarked /\ \E t \in tokens : t.confidence < 7500}
  \cup {f \in {"OCR_SIGNATURE_REGION_REVIEW"} :
          \E t \in tokens : t.low /\ t.confidence < 7500}

Flags == IF probe.route \in OcrRoutes THEN OcrFlags ELSE {}

\* Whose text is in normalized.txt.
Text ==
  {s \in {"native"} : probe.route # "ocr" /\ chars > 0}
    \cup {s \in {"ocr"} : probe.route \in OcrRoutes /\ tokens # {}}

State == IF probe.state = "needs_review" \/ Flags # {} THEN "needs_review" ELSE "ready"

TranscribedFiles ==
  {"raw-native.txt", "normalized.txt", "digits-ascii.txt", "evidence.json"}
    \cup (IF "render.png" \in package THEN {"model.jpg"} ELSE {})
    \cup (IF probe.route \in OcrRoutes THEN {"ocr.json", "ocr-input.png"} ELSE {})

TranscribePage ==
  /\ at = "indexed"
  /\ IF probe.route \in OcrRoutes /\ "render.png" \notin package
     THEN at' = "raised" /\ UNCHANGED record
     ELSE /\ at' = "transcribed"
          /\ record' = [state |-> State, flags |-> Flags, files |-> TranscribedFiles,
                        text |-> Text]
  /\ UNCHANGED <<page, render, probe, package>>

\* No OCR toolchain, another one than the probe's, a time-out, a cleanup that
\* fails: the page ends as failed.
TranscriptionFails ==
  /\ at = "indexed"
  /\ probe.route \in OcrRoutes
  /\ at' = "failed"
  /\ UNCHANGED <<page, render, probe, package, record>>

\* _validate_transcription_package: the roles that the route of the page demands.
ValidateTranscription ==
  /\ at = "transcribed"
  /\ at' = IF /\ {"raw-native.txt", "normalized.txt", "digits-ascii.txt"} \subseteq record.files
              /\ (probe.route \in OcrRoutes) = ({"ocr.json", "ocr-input.png"} \subseteq record.files)
           THEN "done" ELSE "raised"
  /\ UNCHANGED <<page, render, probe, package, record>>

Ended == at \in {"done", "failed", "raised"}

Next ==
  \/ RunWorker \/ WorkerFails \/ ProbePage \/ ValidatePackage
  \/ TranscribePage \/ TranscriptionFails \/ ValidateTranscription

Spec == Init /\ [][Next]_stages /\ WF_stages(Next)
=============================================================================
