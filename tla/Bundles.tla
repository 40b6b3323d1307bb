------------------------------- MODULE Bundles ------------------------------
(***************************************************************************)
(* _build_bundles of transcription.py: one document's transcribed pages    *)
(* are cut into chunks for a model, at most so many pages and bytes each,  *)
(* a page repeated at a cut where its text runs on; then each chunk is     *)
(* written as a bundle, and the validators read the result.  One action is *)
(* one turn of one of its loops.                                           *)
(***************************************************************************)
EXTENDS Naturals, Sequences, FiniteSets

CONSTANTS
  Transcripts,  \* the inputs: sequences of transcribed pages
  MaxPages,     \* bundle_max_pages
  MaxBytes      \* bundle_max_bytes

(* A page has its number in the PDF, its model_input_bytes and its normalized  *)
(* text: failed, none, open (no sentence ends it) or closed.                   *)
Sheet == [number : Nat, text : {"failed", "none", "open", "closed"}, bytes : Nat]

\* One range of pages, and no blank one among those that were read.
OneRange(d) ==
  \A i \in DOMAIN d : /\ d[i].number = (d[1].number + i) - 1
                      /\ d[i].text # "failed" => d[i].bytes > 0

BundlesAssumption ==
  /\ MaxPages \in 1..10 /\ MaxBytes \in Nat \ {0}
  /\ \A d \in Transcripts : d \in Seq(Sheet) /\ OneRange(d)

VARIABLES
  sheets,   \* document["pages"]
  index,    \* the next page
  chunk,    \* the one under way: the pages from .. to, and their bytes
  chunks,   \* those before it
  written,  \* how many of them the second loop has seen
  records,  \* those of them that it wrote
  outcome   \* "between" chunks, "cutting" one, "writing", "built" or "refused"

bundling == <<sheets, index, chunk, chunks, written, records, outcome>>

Size(c) == (c.to + 1) - c.from
NoChunk == [from |-> 1, to |-> 0, bytes |-> 0]

BundlesInit ==
  /\ sheets \in Transcripts
  /\ index = 1 /\ chunk = NoChunk /\ chunks = <<>>
  /\ written = 0 /\ records = <<>>
  /\ outcome = "between"

-----------------------------------------------------------------------------
Unread(i) == sheets[i].text = "failed"

\* _continuation_edges: the text of page i runs on to the page after it.
Continues(i) ==
  /\ i \in 1..Len(sheets) - 1
  /\ sheets[i].text = "open"
  /\ sheets[i + 1].text \in {"open", "closed"}
  /\ sheets[i + 1].number = sheets[i].number + 1

\* The two pages that a sentence joins fit in one bundle.
Joined(i) ==
  Continues(i) /\ MaxPages >= 2 /\ sheets[i].bytes + sheets[i + 1].bytes <= MaxBytes

SkipFailed ==
  /\ outcome = "between" /\ index <= Len(sheets) /\ Unread(index)
  /\ index' = index + 1
  /\ UNCHANGED <<sheets, chunk, chunks, written, records, outcome>>

\* The page before the cut is repeated if the next one joins it.
OpenChunk ==
  /\ outcome = "between" /\ index <= Len(sheets) /\ ~Unread(index)
  /\ chunk' = IF Joined(index - 1)
              THEN [from |-> index - 1, to |-> index - 1, bytes |-> sheets[index - 1].bytes]
              ELSE [from |-> index, to |-> index - 1, bytes |-> 0]
  /\ outcome' = "cutting"
  /\ UNCHANGED <<sheets, index, chunks, written, records>>

\* One page by itself may be as large as it is; then nothing fits beside it.
Fits(i) ==
  /\ i <= Len(sheets) /\ Size(chunk) < MaxPages /\ ~Unread(i)
  /\ Size(chunk) > 0 => chunk.bytes + sheets[i].bytes <= MaxBytes

TakePage ==
  /\ outcome = "cutting" /\ Fits(index)
  /\ chunk' = [from |-> chunk.from, to |-> index, bytes |-> chunk.bytes + sheets[index].bytes]
  /\ index' = index + 1
  /\ UNCHANGED <<sheets, chunks, written, records, outcome>>

\* Seeded fault: the page that did not fit is passed over.
EndChunkSkipping ==
  /\ outcome = "cutting" /\ ~Fits(index)
  /\ chunks' = Append(chunks, chunk) /\ chunk' = NoChunk
  /\ index' = index + 1
  /\ outcome' = "between"
  /\ UNCHANGED <<sheets, written, records>>

\* A failed page ends a chunk and is passed over, unless the chunk is full.
EndChunk ==
  /\ outcome = "cutting" /\ ~Fits(index)
  /\ chunks' = Append(chunks, chunk) /\ chunk' = NoChunk
  /\ index' = IF /\ index <= Len(sheets) /\ Unread(index)
                 /\ Size(chunk) < MaxPages /\ chunk.bytes <= MaxBytes
              THEN index + 1 ELSE index
  /\ outcome' = "between"
  /\ UNCHANGED <<sheets, written, records>>

EndCutting ==
  /\ outcome = "between" /\ index > Len(sheets)
  /\ outcome' = "writing"
  /\ UNCHANGED <<sheets, index, chunk, chunks, written, records>>

-----------------------------------------------------------------------------
FirstNumber(c) == sheets[c.from].number
LastNumber(c) == sheets[c.to].number

\* _validate_bundle
ValidBundle(c) ==
  /\ \A i \in c.from..c.to : sheets[i].number = (FirstNumber(c) + i) - c.from
  /\ Size(c) <= 10
  /\ c.bytes > MaxBytes => Size(c) = 1

\* A chunk of no bytes is taken for one of failed pages and not written.
WriteBundle ==
  /\ outcome = "writing" /\ written < Len(chunks)
  /\ LET c == chunks[written + 1]
     IN  /\ records' = IF c.bytes > 0 /\ ValidBundle(c) THEN Append(records, c) ELSE records
         /\ outcome' = IF c.bytes > 0 /\ ~ValidBundle(c) THEN "refused" ELSE outcome
  /\ written' = written + 1
  /\ UNCHANGED <<sheets, index, chunk, chunks>>

\* _validate_document_bundles: between two bundles at most failed pages are left
\* out, and every page that did not fail is in some bundle's range.
FailedNumbers == {sheets[i].number : i \in {k \in 1..Len(sheets) : Unread(k)}}
ValidBundles ==
  /\ \A k \in 2..Len(records) :
       LET previous == LastNumber(records[k - 1])
           start == FirstNumber(records[k]) IN
         \/ start \in {previous, previous + 1}
         \/ start >= previous /\ (previous + 1)..(start - 1) \subseteq FailedNumbers
  /\ \A i \in 1..Len(sheets) :
       \/ sheets[i].number \in FailedNumbers
       \/ \E k \in 1..Len(records) : sheets[i].number \in FirstNumber(records[k])..LastNumber(records[k])

ValidateDocument ==
  /\ outcome = "writing" /\ written = Len(chunks)
  /\ outcome' = IF ValidBundles THEN "built" ELSE "refused"
  /\ UNCHANGED <<sheets, index, chunk, chunks, written, records>>

BundlesNext ==
  \/ SkipFailed \/ OpenChunk \/ TakePage \/ EndChunk \/ EndCutting
  \/ WriteBundle \/ ValidateDocument

BundlesEnded == outcome \in {"built", "refused"}

BundlesSpec == BundlesInit /\ [][BundlesNext]_bundling

-----------------------------------------------------------------------------
(* The builder and the validators of the same file agree: what _build_bundles   *)
(* makes of a legal document is never refused by _validate_bundle or            *)
(* _validate_document_bundles, which would lose the run after its pages.        *)
NeverRefused == outcome # "refused"

(* No model input is lost: a page with content is in a bundle once the document *)
(* is cut, and in more than one only as the repeated page of a cut.             *)
Holding(i) == {k \in 1..Len(records) : i \in records[k].from..records[k].to}
EveryPageIsBundled ==
  outcome = "built" =>
    \A i \in 1..Len(sheets) :
      /\ Unread(i) => Holding(i) = {}
      /\ ~Unread(i) => Holding(i) # {}
      /\ Cardinality(Holding(i)) > 1 => Joined(i) /\ Cardinality(Holding(i)) = 2

(* A sentence that runs over a page break is read whole: two pages that it      *)
(* joins are together in some bundle whenever one bundle may hold them both.    *)
ContinuationStaysTogether ==
  outcome = "built" =>
    \A i \in 1..Len(sheets) - 1 :
      Joined(i) => \E k \in 1..Len(records) : {i, i + 1} \subseteq records[k].from..records[k].to

(* A document of one range and no blank page becomes bundles, with all of it    *)
(* and no sentence torn that one bundle could hold.                             *)
BundlesAreWhole == NeverRefused /\ EveryPageIsBundled /\ ContinuationStaysTogether
=============================================================================
