------------------------------ MODULE PageRoot ------------------------------
(***************************************************************************)
(* The root that page-probe, transcribe and transcription-check share: the *)
(* packages of the pages, the bundles, the manifests and the indexes that  *)
(* lie there, the commands at work in it, and what holds of the one        *)
(* whatever the others do.  PageEvidence has the steps.                    *)
(***************************************************************************)
EXTENDS Null, Naturals, FiniteSets

CONSTANTS
  NumPages,   \* pages of the one document
  Variant,    \* what packing a page may yield: workers and OCR are not deterministic
  Process     \* operators' commands that may be under way at once

Page == 1..NumPages
Stage == {"probe", "transcribe"}

VARIABLES
  packages,    \* the package at each page's path, per stage
  bundles,     \* the bundle files
  manifests,   \* the manifest and report files
  indexes,     \* the manifests that an index file names
  trees,       \* each stage's private directory, the parent of its packages
  litter,      \* a file or an empty directory of a run that died
  process,     \* where each command stands
  mishap,      \* the one fault so far: a crash or a failed fsync
  concurrent   \* two commands were once under way at the same time

root == <<packages, bundles, manifests, indexes, trees, litter, process, mishap, concurrent>>

(* A manifest: its stage, the manifest it was made from, and for each page the *)
(* digest of its package or Failed.  While a run is under way a page may also  *)
(* be Todo, or <<v>> when v is in its private directory.                       *)
ManifestOf(r) == [stage |-> r.stage, of |-> r.of, pages |-> r.pages]
Ready(pages) == {x \in DOMAIN pages : pages[x] \in Variant}

\* With one page per bundle; the number in sequence is part of a bundle's path.
BundlesOf(pages) ==
  {[sequence |-> Cardinality({y \in Ready(pages) : y <= x}), page |-> x, package |-> pages[x]]
     : x \in Ready(pages)}

Idle == [at |-> "idle"]
NoMishap == [kind |-> "none"]
Identity(r) == [stage |-> r.stage, of |-> r.of, selection |-> DOMAIN r.pages]

Packing(p) == {x \in DOMAIN process[p].pages : \E v \in Variant : process[p].pages[x] = <<v>>}
Staged(p) == process[p].at = "pages" /\ Packing(p) # {}

\* validate_page_inventory: every file and directory is one that the indexes reach,
\* and a directory is reached with a file below it.
IndexedPackages == UNION {{<<m.stage, x>> : x \in Ready(m.pages)} : m \in indexes}
IndexedBundles == UNION {BundlesOf(m.pages) : m \in {k \in indexes : k.stage = "transcribe"}}
OrphanPackages == {k \in Stage \X Page : packages[k] # None} \ IndexedPackages
FilesAccounted ==
  /\ ~litter
  /\ \A p \in Process : ~Staged(p)
  /\ OrphanPackages = {}
  /\ bundles \subseteq IndexedBundles
  /\ manifests \subseteq indexes
EmptyTrees == {s \in Stage : trees[s] \in {"made", "spoilt"}}
Accounted == FilesAccounted /\ EmptyTrees = {}

-----------------------------------------------------------------------------
(* Whatever an index reaches is there and is what its manifest says of it, even *)
(* while runs race for a page whose two packages differ, fail or die: files are *)
(* installed before what names them and are never replaced.                     *)
IndexedIsTrue ==
  \A m \in indexes :
    /\ m \in manifests
    /\ m.stage # "check" => \A x \in Ready(m.pages) : packages[<<m.stage, x>>] = m.pages[x]
    /\ m.stage = "transcribe" => BundlesOf(m.pages) \subseteq bundles

(* A page of a transcription was made from the page of the probe it names: no   *)
(* page is transcribed that the probe failed, and the probe's own index is      *)
(* already there.                                                               *)
TranscriptionFollowsProbe ==
  \A m \in indexes :
    m.of # None => /\ m.of \in indexes
                   /\ m.stage = "transcribe" => Ready(m.pages) \subseteq Ready(m.of.pages)

(* A report without blockers is about a transcription none of whose pages       *)
(* failed and all of whose packages stand, now and later.                       *)
CleanReportIsTrue ==
  \A m \in indexes :
    m.stage = "check" /\ DOMAIN m.pages = {} =>
      \A x \in DOMAIN m.of.pages :
        m.of.pages[x] \in Variant /\ packages[<<"transcribe", x>>] = m.of.pages[x]

Alone(p) == \A q \in Process \ {p} : process[q] = Idle
AtInventory(p) == process[p].at = "inventory"

(* A run in a root where nothing went wrong is accepted, whatever runs came     *)
(* before it, or beside it, and however many of its pages failed: unless one    *)
(* failed while it was packed and no page of its stage has been packed since.   *)
UndisturbedRunReturns ==
  \A p \in Process : AtInventory(p) /\ Alone(p) /\ mishap = NoMishap =>
    FilesAccounted /\ \A s \in EmptyTrees : trees[s] = "spoilt"

\* p repeats the run that died.
Repeats(p) == mishap.kind = "crash" /\ mishap.run = Identity(process[p])

(* The packages that an interrupted run left are taken up by the same run when  *)
(* it is started again: they are of its pages and none of these is packed anew, *)
(* unless commands have overlapped in this root.  So its manifest names them,   *)
(* but for those that did not attest, whose pages failed.                       *)
RerunAdoptsPackages ==
  \A p \in Process : process[p] # Idle /\ Repeats(p) /\ ~concurrent =>
    \A k \in OrphanPackages :
      k[1] = process[p].stage /\ k[2] \in DOMAIN process[p].pages \ Packing(p)

(* An interrupted stage is resumed by running it again on the same root with    *)
(* the same receipt or manifest.                                                *)
RerunIsAccepted ==
  \A p \in Process : AtInventory(p) /\ Repeats(p) /\ Alone(p) => Accounted

(* What an index names is there and true, whoever races, fails or dies; pages   *)
(* are transcribed from the probe they name; a report without blockers is right;*)
(* what a run packs where nothing went wrong is accounted for; and the packages *)
(* of one that died are adopted when the same run is started again.             *)
EvidenceIsTrue ==
  /\ IndexedIsTrue
  /\ TranscriptionFollowsProbe
  /\ CleanReportIsTrue
  /\ UndisturbedRunReturns
  /\ RerunAdoptsPackages
=============================================================================
