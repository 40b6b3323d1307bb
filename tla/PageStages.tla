----------------------------- MODULE PageStages ------------------------------
(***************************************************************************)
(* What one stage of a page hands to the next -- the worker, the probe,    *)
(* the transcription -- and what holds of it: each stage has thresholds of *)
(* its own and its own idea of which files a package holds.  PagePipeline  *)
(* has the stages.                                                         *)
(***************************************************************************)
EXTENDS Naturals

MinNativeChars == 20
MixedCoverage == 1000
ScanCoverage == 8000
BlankInk == 30

OcrRoutes == {"ocr", "native_plus_ocr"}

VARIABLES
  chars, coverage, ink,   \* the page
  tokens,                 \* what OCR would read on it
  watermarked,            \* the volume whose watermark lies over the text
  at,                     \* the stage reached; "raised" if an exception ended it
  render,                 \* the worker wrote render.png
  probe,                  \* the terminal record of the probe
  package,                \* the files of the probe's package
  record                  \* state, flags and files of the transcription

page == <<chars, coverage, ink, tokens, watermarked>>
stages == <<page, at, render, probe, package, record>>

-----------------------------------------------------------------------------
(* The stages agree: no page of any measure is packed in a way the next stage   *)
(* refuses, though each of the four places (page_worker, _classify,             *)
(* _validate_stored_package, _transcribe_page) decides by itself when there     *)
(* must be a render.                                                            *)
StagesAgree == at # "raised"

(* Doubt is never dropped: a page is called ready only if nothing that anybody  *)
(* saw on its way asks for a reader -- too little native text, visible content  *)
(* without text, an illegible scan, a doubtful digit.                           *)
DoubtReachesTheRecord ==
  at = "done" /\ record.state = "ready" =>
    /\ chars = 0 => coverage >= ScanCoverage \/ ink <= BlankInk
    /\ chars = 0 \/ chars >= MinNativeChars
    /\ probe.route \in OcrRoutes =>
         /\ tokens # {}
         /\ \A t \in tokens : t.confidence >= 6000 /\ (t.critical => t.confidence >= 7500)

(* What can be read on a page reaches the text that is searched and bundled:    *)
(* native text always, and OCR text wherever OCR ran.  Only a page without      *)
(* either has none.                                                             *)
VisibleTextIsKept ==
  at = "done" =>
    /\ chars > 0 => "native" \in record.text
    /\ (probe.route \in OcrRoutes /\ tokens # {}) => "ocr" \in record.text
    /\ record.text = {} => "OCR_NO_TEXT" \in record.flags \/ probe.route = "none"

(* Neither a doubt about a page nor text on it is dropped between the stages.   *)
NothingIsDropped == DoubtReachesTheRecord /\ VisibleTextIsKept
=============================================================================
